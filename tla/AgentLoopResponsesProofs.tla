----------------------- MODULE AgentLoopResponsesProofs -----------------------
(***************************************************************************)
(* Proofs that a collected step is the provider's response: its text, in   *)
(* its order, and its calls, each as often as it was sent; and that a step *)
(* is refused only where the response was cut or where Gemini's calls      *)
(* share an item id.                                                       *)
(*                                                                         *)
(* The invariant looks ahead: whatever the stream still carries, once the  *)
(* rest of it has been decoded and pushed the collector tells the response *)
(* (SoFar).  One event received moves an event from the rest to the        *)
(* collector, which leaves that as it was; so all is decided when the      *)
(* provider answers, and each adapter needs one lemma, about its wire from *)
(* the first event to the last: CompatTells, OpenAiTells, AnthropicTells,  *)
(* XaiTells and GeminiConcludes.  Each goes item by item, with what the    *)
(* decoder and the collector's slots are after n of them.                  *)
(***************************************************************************)
EXTENDS AgentLoopProofs

(***************************************************************************)
(* Sequences: concatenations, prefixes and selections.                     *)
(***************************************************************************)

LEMMA FlattenAdd ==
  ASSUME NEW ss, IsSeq(ss), \A i \in DOMAIN ss : IsSeq(ss[i]), NEW s, IsSeq(s)
  PROVE  FlattenSeq(Append(ss, s)) = FlattenSeq(ss) \o s /\ IsSeq(FlattenSeq(ss))
<1> DEFINE n == Len(ss)
           tt == Append(ss, s)
<1>1. /\ IsSeq(tt) /\ Len(tt) = n + 1 /\ tt[n + 1] = s /\ \A i \in 1 .. n : tt[i] = ss[i]
      /\ n \in Nat /\ DOMAIN ss = 1 .. n
  BY AppendIsSeq, IsSeqFacts, ZenonT(30)
<1>2. DOMAIN tt = 1 .. n + 1
  BY <1>1, IsSeqFacts
<1> HIDE DEF tt, n
<1>3. \A i \in DOMAIN tt : IsSeq(tt[i])
  <2> SUFFICES ASSUME NEW i \in DOMAIN tt PROVE IsSeq(tt[i])
    OBVIOUS
  <2>1. i \in 1 .. n \/ i = n + 1
    BY <1>1, <1>2
  <2> QED BY <1>1, <2>1
<1>4. Prefix(tt, n) = ss
  <2>1. Prefix(tt, n) = [i \in 1 .. n |-> ss[i]]
    BY <1>1 DEF Prefix
  <2>2. ss = [i \in 1 .. n |-> ss[i]]
    BY <1>1 DEF IsSeq
  <2> QED BY <2>1, <2>2
<1>5. Prefix(tt, n + 1) = tt
  <2>1. tt = [i \in 1 .. n + 1 |-> tt[i]]
    BY <1>1, <1>2 DEF IsSeq
  <2> QED BY <2>1 DEF Prefix
<1>6. /\ IsSeq(FlattenSeq(Prefix(tt, n)))
      /\ FlattenSeq(Prefix(tt, n + 1)) = FlattenSeq(Prefix(tt, n)) \o tt[n + 1]
  <2>1. n < Len(tt)
    BY <1>1
  <2> QED BY <1>1, <1>3, <2>1, FlattenGrows
<1> QED BY <1>1, <1>4, <1>5, <1>6 DEF tt

LEMMA AppendValues ==
  ASSUME NEW s, IsSeq(s), NEW x
  PROVE  Append(s, x) = [i \in 1 .. Len(s) + 1 |-> IF i = Len(s) + 1 THEN x ELSE s[i]]
<1> DEFINE a == Append(s, x)
           n == Len(s)
<1>1. /\ IsSeq(a) /\ Len(a) = n + 1 /\ n \in Nat
      /\ a[n + 1] = x /\ \A i \in 1 .. n : a[i] = s[i]
  BY AppendIsSeq, IsSeqFacts, ZenonT(30)
<1> HIDE DEF a, n
<1>2. a = [i \in 1 .. n + 1 |-> a[i]]
  BY <1>1 DEF IsSeq
<1>3. \A i \in 1 .. n + 1 : a[i] = IF i = n + 1 THEN x ELSE s[i]
  BY <1>1
<1>4. a = [i \in 1 .. n + 1 |-> IF i = n + 1 THEN x ELSE s[i]]
  BY <1>2, <1>3
<1> QED BY <1>4 DEF a, n

LEMMA PrefixGrows ==
  ASSUME NEW s, NEW n \in Nat
  PROVE  /\ Prefix(s, n + 1) = Append(Prefix(s, n), s[n + 1])
         /\ IsSeq(Prefix(s, n)) /\ Prefix(s, 0) = << >>
<1> DEFINE p == Prefix(s, n)
           x == s[n + 1]
<1>0. Prefix(s, 0) = << >>
  BY DEF Prefix
<1>1. IsSeq(p) /\ Len(p) = n /\ \A i \in 1 .. n : p[i] = s[i]
  <2>1. p = [i \in 1 .. n |-> p[i]] /\ \A i \in 1 .. n : p[i] = s[i]
    BY DEF Prefix
  <2> HIDE DEF p
  <2>2. IsSeq(p) /\ Len(p) = n
    BY <2>1, FunctionIsSeq
  <2> QED BY <2>1, <2>2
<1>2. Append(p, x) = [i \in 1 .. n + 1 |-> IF i = n + 1 THEN x ELSE p[i]]
  <2>1. IsSeq(p) /\ Len(p) = n
    BY <1>1
  <2> HIDE DEF p, x
  <2>2. Append(p, x) = [i \in 1 .. Len(p) + 1 |-> IF i = Len(p) + 1 THEN x ELSE p[i]]
    BY <2>1, AppendValues
  <2> QED BY <2>1, <2>2
<1>3. Prefix(s, n + 1) = [i \in 1 .. n + 1 |-> IF i = n + 1 THEN x ELSE p[i]]
  <2>1. \A i \in 1 .. n + 1 : s[i] = IF i = n + 1 THEN x ELSE p[i]
    BY <1>1
  <2> HIDE DEF p, x
  <2> QED BY <2>1 DEF Prefix
<1> QED BY <1>0, <1>1, <1>2, <1>3

\* Singletons flatten to what they hold.
LEMMA FlattenOnes ==
  ASSUME NEW n \in Nat, NEW f, f = [k \in 1 .. n |-> f[k]]
  PROVE  FlattenSeq([k \in 1 .. n |-> <<f[k]>>]) = f
<1> DEFINE ones(m) == [k \in 1 .. m |-> <<f[k]>>]
           P == {m \in Nat : m <= n => FlattenSeq(ones(m)) = Prefix(f, m)}
<1>1. 0 \in P
  BY FlattenEmpty DEF Prefix
<1>2. ASSUME NEW m \in P PROVE m + 1 \in P
  <2> SUFFICES ASSUME m + 1 <= n PROVE FlattenSeq(ones(m + 1)) = Prefix(f, m + 1)
    OBVIOUS
  <2> DEFINE l == m + 1
             x == f[l]
  <2>1. m \in Nat /\ l \in Nat /\ FlattenSeq(ones(m)) = Prefix(f, m)
    OBVIOUS
  <2>2. /\ IsSeq(ones(m)) /\ Len(ones(m)) = m /\ DOMAIN ones(m) = 1 .. m
        /\ \A i \in DOMAIN ones(m) : IsSeq(ones(m)[i])
    <3> DEFINE o == ones(m)
    <3>1. o = [k \in 1 .. m |-> o[k]]
      OBVIOUS
    <3>2. \A i \in 1 .. m : o[i] = <<f[i]>>
      OBVIOUS
    <3> HIDE DEF o
    <3>3. IsSeq(o) /\ Len(o) = m /\ DOMAIN o = 1 .. m
      BY <2>1, <3>1, FunctionIsSeq
    <3>a. \A z : IsSeq(<<z>>)
      BY OneIsSeq
    <3>4. \A i \in DOMAIN o : IsSeq(o[i])
      BY <3>2, <3>3, <3>a
    <3> QED BY <3>3, <3>4 DEF o
  <2>3. ones(l) = Append(ones(m), <<x>>)
    <3> DEFINE y == <<x>>
    <3>1. Append(ones(m), y) = [i \in 1 .. m + 1 |-> IF i = m + 1 THEN y ELSE ones(m)[i]]
      <4> HIDE DEF y, ones
      <4> QED BY <2>1, <2>2, AppendValues
    <3>2. \A i \in 1 .. m + 1 : <<f[i]>> = IF i = m + 1 THEN y ELSE ones(m)[i]
      BY <2>1
    <3> HIDE DEF y
    <3>3. ones(l) = [i \in 1 .. m + 1 |-> IF i = m + 1 THEN y ELSE ones(m)[i]]
      BY <2>1, <3>2
    <3> HIDE DEF ones
    <3> QED BY <3>1, <3>3 DEF y
  <2>4. Prefix(f, l) = Append(Prefix(f, m), x)
    BY <2>1, PrefixGrows
  <2>5. IsSeq(Prefix(f, m))
    BY <2>1, PrefixGrows
  <2> HIDE DEF ones
  <2>6. FlattenSeq(Append(ones(m), <<x>>)) = FlattenSeq(ones(m)) \o <<x>>
    <3> HIDE DEF x
    <3> QED BY <2>2, OneIsSeq, FlattenAdd
  <2>7. Append(Prefix(f, m), x) = Prefix(f, m) \o <<x>>
    BY <2>5, AppendIsSeq
  <2> QED BY <2>1, <2>3, <2>4, <2>6, <2>7
<1>3. P = Nat
  <2>1. P \in SUBSET Nat
    OBVIOUS
  <2> HIDE DEF P
  <2> QED BY <1>1, <1>2, <2>1, Induct
<1>4. FlattenSeq(ones(n)) = Prefix(f, n)
  BY <1>3
<1> QED BY <1>4 DEF Prefix

\* Mapping what Within selects and flattening is flattening the whole, with
\* nothing for what is left out.
LEMMA WithinMapped ==
  ASSUME NEW s, IsSeq(s), NEW T, NEW g, \A x \in ToSet(s) : IsSeq(g[x])
  PROVE  /\ FlattenSeq([k \in DOMAIN Within(s, T) |-> g[Within(s, T)[k]]])
              = FlattenSeq([n \in DOMAIN s |-> IF s[n] \in T THEN g[s[n]] ELSE << >>])
         /\ IsSeq(Within(s, T))
<1> DEFINE S == ToSet(s)
           N == Len(s)
           all(n) == [i \in 1 .. n |-> IF s[i] \in T THEN g[s[i]] ELSE << >>]
           in(n) == Within(Prefix(s, n), T)
           of(n) == [k \in DOMAIN in(n) |-> g[in(n)[k]]]
           P == {n \in Nat : n <= N => FlattenSeq(of(n)) = FlattenSeq(all(n))}
<1>0. s \in Seq(S) /\ N \in Nat /\ DOMAIN s = 1 .. N /\ \A i \in 1 .. N : s[i] \in S
  BY IsSeqFacts DEF IsSeq
<1>a. \A x \in S : IsSeq(g[x])
  OBVIOUS
<1> HIDE DEF S, N
<1>b. ASSUME NEW n \in Nat, n <= N
      PROVE  /\ Prefix(s, n) \in Seq(S) /\ Len(Prefix(s, n)) = n
             /\ \A i \in 1 .. n : Prefix(s, n)[i] = s[i]
             /\ in(n) \in Seq(S) /\ IsSeq(in(n))
  <2>1. \A i \in 1 .. n : s[i] \in S
    BY <1>0, <1>b
  <2>2. /\ Prefix(s, n) \in Seq(S) /\ Len(Prefix(s, n)) = n
        /\ \A i \in 1 .. n : Prefix(s, n)[i] = s[i]
    BY <1>b, <2>1, PrefixType
  <2>3. in(n) \in Seq(S)
    BY <2>2, WithinElements
  <2> HIDE DEF in
  <2> QED BY <2>2, <2>3, SeqIsSeq
<1>1. 0 \in P
  <2>1. Prefix(s, 0) = << >>
    BY DEF Prefix
  <2>2. in(0) = << >>
    BY <2>1, FlattenEmpty DEF Within
  <2>3. of(0) = << >> /\ all(0) = << >>
    BY <2>2
  <2> QED BY <2>3
<1>2. ASSUME NEW n \in P PROVE n + 1 \in P
  <2> SUFFICES ASSUME n + 1 <= N PROVE FlattenSeq(of(n + 1)) = FlattenSeq(all(n + 1))
    OBVIOUS
  <2> DEFINE l == n + 1
             x == s[l]
             y == g[x]
  <2>1. n \in Nat /\ n <= N /\ l \in Nat /\ l <= N /\ l \in 1 .. N /\ FlattenSeq(of(n)) = FlattenSeq(all(n))
    BY <1>0
  <2>2. x \in S /\ IsSeq(y)
    BY <1>0, <1>a, <2>1
  <2>3. /\ Prefix(s, n) \in Seq(S) /\ Len(Prefix(s, n)) = n
        /\ \A i \in 1 .. n : Prefix(s, n)[i] = s[i]
        /\ in(n) \in Seq(S) /\ IsSeq(in(n))
    BY <1>b, <2>1
  <2>4. Prefix(s, l) = Append(Prefix(s, n), x)
    BY <2>1, PrefixGrows
  <2>5. in(l) = IF x \in T THEN Append(in(n), x) ELSE in(n)
    <3>1. Within(Append(Prefix(s, n), x), T)
            = IF x \in T THEN Append(Within(Prefix(s, n), T), x) ELSE Within(Prefix(s, n), T)
      <4> HIDE DEF x
      <4> QED BY <2>2, <2>3, WithinAppend
    <3> QED BY <2>4, <3>1
  <2>6. /\ IsSeq(of(n)) /\ Len(of(n)) = Len(in(n)) /\ DOMAIN of(n) = 1 .. Len(in(n))
        /\ \A i \in DOMAIN of(n) : of(n)[i] = g[in(n)[i]] /\ IsSeq(of(n)[i])
    <3> DEFINE o == of(n)
               q == in(n)
    <3>1. Len(q) \in Nat /\ DOMAIN q = 1 .. Len(q) /\ \A i \in 1 .. Len(q) : q[i] \in S
      BY <2>3
    <3>2. o = [k \in 1 .. Len(q) |-> o[k]] /\ \A i \in 1 .. Len(q) : o[i] = g[q[i]]
      BY <3>1
    <3> HIDE DEF o, q
    <3>3. IsSeq(o) /\ Len(o) = Len(q) /\ DOMAIN o = 1 .. Len(q)
      BY <3>1, <3>2, FunctionIsSeq
    <3>4. \A i \in DOMAIN o : o[i] = g[q[i]] /\ IsSeq(o[i])
      BY <1>a, <3>1, <3>2, <3>3
    <3> QED BY <3>3, <3>4 DEF o, q
  <2>7. /\ IsSeq(all(n)) /\ Len(all(n)) = n /\ DOMAIN all(n) = 1 .. n
        /\ \A i \in DOMAIN all(n) : IsSeq(all(n)[i])
    <3> DEFINE o == all(n)
    <3>1. o = [k \in 1 .. n |-> o[k]]
      OBVIOUS
    <3>2. \A i \in 1 .. n : o[i] = IF s[i] \in T THEN g[s[i]] ELSE << >>
      OBVIOUS
    <3> HIDE DEF o
    <3>3. IsSeq(o) /\ Len(o) = n /\ DOMAIN o = 1 .. n
      BY <2>1, <3>1, FunctionIsSeq
    <3>4. \A i \in 1 .. n : s[i] \in S
      BY <1>0, <2>1
    <3>5. \A i \in DOMAIN o : IsSeq(o[i])
      BY <1>a, <3>2, <3>3, <3>4, EmptyIsSeq
    <3> QED BY <3>3, <3>5 DEF o
  <2>8. all(l) = Append(all(n), IF x \in T THEN y ELSE << >>)
    <3> DEFINE z == IF x \in T THEN y ELSE << >>
    <3>1. Append(all(n), z) = [i \in 1 .. n + 1 |-> IF i = n + 1 THEN z ELSE all(n)[i]]
      BY <2>1, <2>7
    <3> QED BY <2>1, <3>1
  <2>9. x \in T => of(l) = Append(of(n), y)
    <3> SUFFICES ASSUME x \in T PROVE of(l) = Append(of(n), y)
      OBVIOUS
    <3> DEFINE q == in(n)
               k == Len(in(n))
    <3>1. k \in Nat /\ Len(Append(q, x)) = k + 1 /\ Append(q, x)[k + 1] = x
          /\ (\A i \in 1 .. k : Append(q, x)[i] = q[i]) /\ DOMAIN Append(q, x) = 1 .. k + 1
      <4>1. IsSeq(q)
        BY <2>3
      <4> HIDE DEF q, x
      <4> QED BY <4>1, AppendIsSeq, IsSeqFacts DEF q
    <3>2. in(l) = Append(q, x)
      BY <2>5
    <3>3. Append(of(n), y) = [i \in 1 .. k + 1 |-> IF i = k + 1 THEN y ELSE of(n)[i]]
      BY <2>6, <3>1
    <3>4. of(l) = [i \in 1 .. k + 1 |-> g[Append(q, x)[i]]]
      BY <3>1, <3>2
    <3>5. \A i \in 1 .. k + 1 : g[Append(q, x)[i]] = IF i = k + 1 THEN y ELSE of(n)[i]
      BY <2>6, <3>1
    <3> HIDE DEF of, q, x, y, in, k
    <3> QED BY <3>3, <3>4, <3>5
  <2>10. x \notin T => of(l) = of(n)
    BY <2>5
  <2>11. FlattenSeq(Append(all(n), y)) = FlattenSeq(all(n)) \o y
         /\ FlattenSeq(Append(all(n), << >>)) = FlattenSeq(all(n)) \o << >>
         /\ IsSeq(FlattenSeq(all(n)))
    <3> HIDE DEF all, y
    <3> QED BY <2>2, <2>7, EmptyIsSeq, FlattenAdd
  <2>12. FlattenSeq(Append(of(n), y)) = FlattenSeq(of(n)) \o y
    <3> HIDE DEF of, y
    <3> QED BY <2>2, <2>6, FlattenAdd
  <2>13. FlattenSeq(all(n)) \o << >> = FlattenSeq(all(n))
    BY <2>11, EmptyAtTheEnd
  <2> HIDE DEF of, all, x, y, l
  <2>14. CASE x \in T
    BY <2>1, <2>8, <2>9, <2>11, <2>12, <2>14 DEF l
  <2>15. CASE x \notin T
    BY <2>1, <2>8, <2>10, <2>11, <2>13, <2>15 DEF l
  <2> QED BY <2>14, <2>15
<1>3. P = Nat
  <2>1. P \in SUBSET Nat
    OBVIOUS
  <2> HIDE DEF P
  <2> QED BY <1>1, <1>2, <2>1, Induct
<1>4. FlattenSeq(of(N)) = FlattenSeq(all(N))
  <2>1. N \in P
    <3> HIDE DEF P
    <3> QED BY <1>0, <1>3
  <2> HIDE DEF of, all
  <2> QED BY <1>0, <2>1
<1>5. Prefix(s, N) = s
  BY <1>0, PrefixWhole DEF N
<1>6. IsSeq(in(N))
  BY <1>0, <1>b
<1>7. all(N) = [n \in DOMAIN s |-> IF s[n] \in T THEN g[s[n]] ELSE << >>]
  BY <1>0
<1>8. in(N) = Within(s, T) /\ of(N) = [k \in DOMAIN Within(s, T) |-> g[Within(s, T)[k]]]
  BY <1>5
<1> HIDE DEF of, all, in
<1> QED BY <1>4, <1>6, <1>7, <1>8

LEMMA ConcatAppend ==
  ASSUME NEW s, IsSeq(s), NEW p, IsSeq(p), NEW x
  PROVE  s \o Append(p, x) = Append(s \o p, x) /\ IsSeq(s \o p)
<1> DEFINE y == <<x>>
<1>1. IsSeq(y) /\ IsSeq(s \o p)
  BY OneIsSeq, ConcatIsSeq
<1>2. Append(p, x) = p \o y /\ Append(s \o p, x) = (s \o p) \o y
  BY <1>1, AppendIsSeq
<1> HIDE DEF y
<1>3. (s \o p) \o y = s \o (p \o y)
  BY <1>1, ConcatIsAssociative
<1> QED BY <1>1, <1>2, <1>3

LEMMA PushingValues ==
  ASSUME NEW c, NEW events, NEW n \in Nat, NEW f, IsPushing(f, c, events, n)
  PROVE  f[0] = c /\ \A m \in 1 .. n : f[m] = Pushed(f[m - 1], events[m])
<1>1. \A m \in 0 .. n : f[m] = IF m = 0 THEN c ELSE Pushed(f[m - 1], events[m])
  BY DEF IsPushing
<1>2. 0 \in 0 .. n /\ \A m \in 1 .. n : m \in 0 .. n /\ m # 0
  OBVIOUS
<1> QED BY <1>1, <1>2

LEMMA PushingsAgree ==
  ASSUME NEW c, NEW events, NEW others, NEW n \in Nat, NEW m \in 0 .. n,
         \A i \in 1 .. m : events[i] = others[i],
         NEW f, IsPushing(f, c, events, n), NEW g, IsPushing(g, c, others, m)
  PROVE  f[m] = g[m]
<1> DEFINE P == {i \in Nat : i <= m => f[i] = g[i]}
<1>0. /\ f[0] = c /\ \A i \in 1 .. n : f[i] = Pushed(f[i - 1], events[i])
      /\ g[0] = c /\ \A i \in 1 .. m : g[i] = Pushed(g[i - 1], others[i])
  BY PushingValues
<1>1. 0 \in P
  BY <1>0
<1>2. ASSUME NEW i \in P PROVE i + 1 \in P
  <2> SUFFICES ASSUME i + 1 <= m PROVE f[i + 1] = g[i + 1]
    OBVIOUS
  <2>1. i + 1 \in 1 .. n /\ i + 1 \in 1 .. m /\ i + 1 - 1 = i /\ f[i] = g[i]
    OBVIOUS
  <2> DEFINE k == i + 1
  <2> HIDE DEF k
  <2>2. k \in 1 .. n /\ k \in 1 .. m /\ k - 1 = i
    BY <2>1 DEF k
  <2>3. f[k] = Pushed(f[k - 1], events[k]) /\ g[k] = Pushed(g[k - 1], others[k]) /\ events[k] = others[k]
    BY <1>0, <2>2
  <2>4. f[k] = g[k]
    BY <2>1, <2>2, <2>3
  <2> QED BY <2>4 DEF k
<1>3. P = Nat
  <2>1. P \in SUBSET Nat
    OBVIOUS
  <2> HIDE DEF P
  <2> QED BY <1>1, <1>2, <2>1, Induct
<1> QED BY <1>3

LEMMA PushAllAppend ==
  ASSUME NEW c, NEW events, IsSeq(events), NEW e
  PROVE  PushAll(c, Append(events, e)) = Pushed(PushAll(c, events), e)
<1> DEFINE n == Len(events)
           more == Append(events, e)
<1>1. /\ n \in Nat /\ Len(more) = n + 1 /\ more[n + 1] = e
      /\ \A i \in 1 .. n : more[i] = events[i]
  BY AppendIsSeq, IsSeqFacts
<1> HIDE DEF more
<1>2. PICK f : IsPushing(f, c, events, n) /\ PushAll(c, events) = f[n]
  BY <1>1, PushAllIsPushing
<1>3. PICK g : IsPushing(g, c, more, Len(more)) /\ PushAll(c, more) = g[Len(more)]
  <2>1. Len(more) \in Nat
    BY <1>1
  <2> QED BY <2>1, PushAllIsPushing
<1> DEFINE k == n + 1
<1>4. k \in Nat /\ n \in 0 .. k /\ k \in 1 .. k /\ k - 1 = n /\ more[k] = e
      /\ IsPushing(g, c, more, k) /\ PushAll(c, more) = g[k]
  BY <1>1, <1>3
<1> HIDE DEF n, k
<1>5. g[n] = f[n]
  BY <1>1, <1>2, <1>4, PushingsAgree
<1>6. g[k] = Pushed(g[k - 1], more[k])
  <2>1. \A m \in 1 .. k : g[m] = Pushed(g[m - 1], more[m])
    BY <1>4, PushingValues
  <2> QED BY <1>4, <2>1
<1>7. PushAll(c, more) = Pushed(PushAll(c, events), e)
  BY <1>2, <1>4, <1>5, <1>6
<1> QED BY <1>7 DEF more

LEMMA PushAllOne == ASSUME NEW c, NEW e PROVE PushAll(c, <<e>>) = Pushed(c, e)
<1>1. <<e>> = Append(<< >>, e)
  OBVIOUS
<1>2. PushAll(c, Append(<< >>, e)) = Pushed(PushAll(c, << >>), e)
  BY EmptyIsSeq, PushAllAppend
<1> QED BY <1>1, <1>2, PushAllNone

LEMMA PushAllConcat ==
  ASSUME NEW c, NEW s, IsSeq(s), NEW t, IsSeq(t)
  PROVE  PushAll(c, s \o t) = PushAll(PushAll(c, s), t)
<1> DEFINE d == PushAll(c, s)
           N == Len(t)
           P == {n \in Nat : n <= N => PushAll(c, s \o Prefix(t, n)) = PushAll(d, Prefix(t, n))}
<1>0. N \in Nat
  BY IsSeqFacts
<1>1. 0 \in P
  <2>1. Prefix(t, 0) = << >> /\ s \o << >> = s
    BY EmptyAtTheEnd DEF Prefix
  <2>2. PushAll(d, << >>) = d
    BY PushAllNone
  <2> QED BY <2>1, <2>2
<1>2. ASSUME NEW n \in P PROVE n + 1 \in P
  <2> SUFFICES ASSUME n + 1 <= N
               PROVE  PushAll(c, s \o Prefix(t, n + 1)) = PushAll(d, Prefix(t, n + 1))
    OBVIOUS
  <2> DEFINE p == Prefix(t, n)
             x == t[n + 1]
  <2>1. n \in Nat /\ PushAll(c, s \o p) = PushAll(d, p)
    BY <1>0
  <2>2. Prefix(t, n + 1) = Append(p, x) /\ IsSeq(p)
    BY <2>1, PrefixGrows
  <2> HIDE DEF p, x, d
  <2>3. s \o Append(p, x) = Append(s \o p, x) /\ IsSeq(s \o p)
    BY <2>2, ConcatAppend
  <2>4. /\ PushAll(c, Append(s \o p, x)) = Pushed(PushAll(c, s \o p), x)
        /\ PushAll(d, Append(p, x)) = Pushed(PushAll(d, p), x)
    BY <2>2, <2>3, PushAllAppend
  <2> QED BY <2>1, <2>2, <2>3, <2>4
<1>3. P = Nat
  <2>1. P \in SUBSET Nat
    OBVIOUS
  <2> HIDE DEF P
  <2> QED BY <1>1, <1>2, <2>1, Induct
<1>4. PushAll(c, s \o Prefix(t, N)) = PushAll(d, Prefix(t, N))
  <2>1. N \in P
    BY <1>0, <1>3
  <2> HIDE DEF d
  <2> QED BY <1>0, <2>1
<1>5. Prefix(t, N) = t
  BY PrefixWhole DEF IsSeq
<1> QED BY <1>4, <1>5

\* An error stays.
LEMMA PushAllStuck ==
  ASSUME NEW c, c.error # NoError, NEW t, IsSeq(t)
  PROVE  PushAll(c, t) = c
<1> DEFINE N == Len(t)
           P == {n \in Nat : PushAll(c, Prefix(t, n)) = c}
<1>0. N \in Nat /\ Prefix(t, N) = t
  BY IsSeqFacts, PrefixWhole DEF IsSeq
<1>1. 0 \in P
  <2>1. Prefix(t, 0) = << >>
    BY DEF Prefix
  <2> QED BY <2>1, PushAllNone
<1>2. ASSUME NEW n \in P PROVE n + 1 \in P
  <2> DEFINE p == Prefix(t, n)
             x == t[n + 1]
  <2>0. n + 1 \in P <=> PushAll(c, Prefix(t, n + 1)) = c
    OBVIOUS
  <2>1. n \in Nat /\ PushAll(c, p) = c
    OBVIOUS
  <2>2. Prefix(t, n + 1) = Append(p, x) /\ IsSeq(p)
    BY <2>1, PrefixGrows
  <2> HIDE DEF p, x
  <2>3. PushAll(c, Append(p, x)) = Pushed(c, x)
    BY <2>1, <2>2, PushAllAppend
  <2>4. Pushed(c, x) = c
    BY DEF Pushed
  <2> HIDE DEF P
  <2> QED BY <2>0, <2>2, <2>3, <2>4
<1>3. P = Nat
  <2>1. P \in SUBSET Nat
    OBVIOUS
  <2> HIDE DEF P
  <2> QED BY <1>1, <1>2, <2>1, Induct
<1> QED BY <1>0, <1>3

(***************************************************************************)
(* A collector without an error.                                           *)
(***************************************************************************)

Coll(s) == [slots |-> s, finished |-> Unfinished, error |-> NoError]

LEMMA CollFields ==
  ASSUME NEW s
  PROVE  Coll(s).slots = s /\ Coll(s).finished = Unfinished /\ Coll(s).error = NoError
  BY DEF Coll

\* None of the slots is the item's.
Fresh(s, item) == \A i \in DOMAIN s : IsDelta(s[i]) => s[i].item # item

LEMMA PushNew ==
  ASSUME NEW s, IsSeq(s), NEW e, e.type # "Finished", IsDelta(e) => Fresh(s, e.item)
  PROVE  Pushed(Coll(s), e) = Coll(Append(s, e))
<1>1. Pushed(Coll(s), e) = Push(Coll(s), e)
  BY CollFields DEF Pushed
<1>2. Push(Coll(s), e) = IF IsDelta(e) THEN PushDelta(Coll(s), e)
                         ELSE [Coll(s) EXCEPT !.slots = Append(@, e)]
  BY CollFields DEF Push
<1>3. [Coll(s) EXCEPT !.slots = Append(@, e)] = Coll(Append(s, e))
  BY DEF Coll
<1>4. CASE IsDelta(e)
  <2>1. {i \in DOMAIN Coll(s).slots : IsDelta(Coll(s).slots[i]) /\ Coll(s).slots[i].item = e.item} = {}
    BY <1>4, CollFields DEF Fresh
  <2>2. PushDelta(Coll(s), e) = [Coll(s) EXCEPT !.slots = Append(@, e)]
    BY <2>1 DEF PushDelta
  <2> QED BY <1>1, <1>2, <1>3, <1>4, <2>2
<1> QED BY <1>1, <1>2, <1>3, <1>4

\* A slot that is alone with its item takes what comes for it.
LEMMA PushMore ==
  ASSUME NEW s, IsSeq(s), NEW i \in DOMAIN s, IsDelta(s[i]), NEW e, IsDelta(e),
         e.item = s[i].item, ~Inconsistent(s[i], e),
         \A j \in DOMAIN s : IsDelta(s[j]) /\ s[j].item = e.item => j = i
  PROVE  Pushed(Coll(s), e) = Coll([s EXCEPT ![i] = Extend(@, e)])
<1>1. Pushed(Coll(s), e) = Push(Coll(s), e)
  BY CollFields DEF Pushed
<1>2. Push(Coll(s), e) = PushDelta(Coll(s), e)
  BY CollFields DEF Push, IsDelta
<1> DEFINE pending == {j \in DOMAIN Coll(s).slots :
                         IsDelta(Coll(s).slots[j]) /\ Coll(s).slots[j].item = e.item}
<1>3. pending = {i}
  BY CollFields
<1>4. (CHOOSE j \in pending : TRUE) = i
  BY <1>3
<1>5. PushDelta(Coll(s), e) = [Coll(s) EXCEPT !.slots[i] = Extend(@, e)]
  <2>1. PushDelta(Coll(s), e)
          = LET k == CHOOSE j \in pending : TRUE
            IN IF Inconsistent(Coll(s).slots[k], e) THEN [Coll(s) EXCEPT !.error = "InconsistentItem"]
               ELSE [Coll(s) EXCEPT !.slots[k] = Extend(@, e)]
    BY <1>3 DEF PushDelta
  <2> HIDE DEF pending
  <2> QED BY <1>4, <2>1, CollFields
<1>6. [Coll(s) EXCEPT !.slots[i] = Extend(@, e)] = Coll([s EXCEPT ![i] = Extend(@, e)])
  BY DEF Coll
<1> QED BY <1>1, <1>2, <1>5, <1>6

\* A slot of another type, or of another call, refuses it.
LEMMA PushOther ==
  ASSUME NEW s, IsSeq(s), NEW i \in DOMAIN s, IsDelta(s[i]), NEW e, IsDelta(e),
         e.item = s[i].item, Inconsistent(s[i], e),
         \A j \in DOMAIN s : IsDelta(s[j]) /\ s[j].item = e.item => j = i
  PROVE  Pushed(Coll(s), e).error # NoError
<1>1. Pushed(Coll(s), e) = Push(Coll(s), e)
  BY CollFields DEF Pushed
<1>2. Push(Coll(s), e) = PushDelta(Coll(s), e)
  BY CollFields DEF Push, IsDelta
<1> DEFINE pending == {j \in DOMAIN Coll(s).slots :
                         IsDelta(Coll(s).slots[j]) /\ Coll(s).slots[j].item = e.item}
<1>3. pending = {i}
  BY CollFields
<1>4. (CHOOSE j \in pending : TRUE) = i
  BY <1>3
<1>5. PushDelta(Coll(s), e) = [Coll(s) EXCEPT !.error = "InconsistentItem"]
  <2>1. PushDelta(Coll(s), e)
          = LET k == CHOOSE j \in pending : TRUE
            IN IF Inconsistent(Coll(s).slots[k], e) THEN [Coll(s) EXCEPT !.error = "InconsistentItem"]
               ELSE [Coll(s) EXCEPT !.slots[k] = Extend(@, e)]
    BY <1>3 DEF PushDelta
  <2> HIDE DEF pending
  <2> QED BY <1>4, <2>1, CollFields
<1> QED BY <1>1, <1>2, <1>5 DEF Coll, NoError

\* Items with a kind of name that no slot has yet.
Unnamed(s, tag) == \A i \in DOMAIN s : IsDelta(s[i]) => s[i].item[1] # tag

\* A block of such items, each with a name of its own.
Named(t, tag) ==
  \A k \in DOMAIN t : IsDelta(t[k]) =>
    /\ t[k].item[1] = tag
    /\ \A j \in DOMAIN t : IsDelta(t[j]) /\ t[j].item = t[k].item => j = k

LEMMA PushBlock ==
  ASSUME NEW s, IsSeq(s), NEW t, IsSeq(t), NEW tag, Named(t, tag),
         (\E k \in DOMAIN t : IsDelta(t[k])) => Unnamed(s, tag),
         \A k \in DOMAIN t : t[k].type # "Finished"
  PROVE  PushAll(Coll(s), t) = Coll(s \o t)
<1> DEFINE N == Len(t)
           P == {n \in Nat : n <= N => PushAll(Coll(s), Prefix(t, n)) = Coll(s \o Prefix(t, n))}
<1>0. N \in Nat /\ Prefix(t, N) = t /\ DOMAIN t = 1 .. N
  BY IsSeqFacts, PrefixWhole DEF IsSeq
<1>1. 0 \in P
  <2>1. Prefix(t, 0) = << >> /\ s \o << >> = s
    BY EmptyAtTheEnd DEF Prefix
  <2> QED BY <2>1, PushAllNone
<1>2. ASSUME NEW n \in P PROVE n + 1 \in P
  <2> SUFFICES ASSUME n + 1 <= N
               PROVE  PushAll(Coll(s), Prefix(t, n + 1)) = Coll(s \o Prefix(t, n + 1))
    OBVIOUS
  <2> DEFINE p == Prefix(t, n)
             x == t[n + 1]
             q == s \o p
  <2>1. n \in Nat /\ PushAll(Coll(s), p) = Coll(q) /\ n + 1 \in DOMAIN t
    BY <1>0
  <2>2. Prefix(t, n + 1) = Append(p, x) /\ IsSeq(p)
    BY <2>1, PrefixGrows
  <2>3. Len(p) = n /\ \A i \in 1 .. n : p[i] = t[i]
    BY <2>1, PrefixLength
  <2>4. x.type # "Finished" /\ (IsDelta(x) => x.item[1] = tag /\ Unnamed(s, tag))
    BY <2>1 DEF Named
  <2>5. \A i \in 1 .. n : IsDelta(x) /\ IsDelta(p[i]) => p[i].item # x.item
    <3> SUFFICES ASSUME NEW i \in 1 .. n, IsDelta(x), IsDelta(p[i]), p[i].item = x.item PROVE FALSE
      OBVIOUS
    <3>1. i \in DOMAIN t /\ p[i] = t[i] /\ i # n + 1
      BY <1>0, <2>1, <2>3
    <3> QED BY <2>1, <3>1 DEF Named
  <2> HIDE DEF p, x
  <2>6. /\ IsSeq(q) /\ Len(s) \in Nat /\ DOMAIN s = 1 .. Len(s)
        /\ DOMAIN q = 1 .. Len(s) + n
        /\ \A i \in 1 .. Len(s) : q[i] = s[i]
        /\ \A i \in 1 .. n : q[Len(s) + i] = p[i]
    <3>1. IsSeq(q)
      BY <2>2, ConcatIsSeq
    <3>2. /\ Len(s) \in Nat /\ DOMAIN s = 1 .. Len(s)
          /\ DOMAIN (s \o p) = 1 .. Len(s) + Len(p)
          /\ \A i \in 1 .. Len(s) : (s \o p)[i] = s[i]
          /\ \A i \in 1 .. Len(p) : (s \o p)[Len(s) + i] = p[i]
      BY <2>2, ConcatValues
    <3> QED BY <2>3, <3>1, <3>2
  <2> HIDE DEF q
  <2>7. IsDelta(x) => Fresh(q, x.item)
    <3> SUFFICES ASSUME IsDelta(x), NEW i \in DOMAIN q, IsDelta(q[i]) PROVE q[i].item # x.item
      BY DEF Fresh
    <3>1. CASE i \in 1 .. Len(s)
      <4>1. q[i].item[1] # tag
        BY <2>4, <2>6, <3>1 DEF Unnamed
      <4>2. x.item[1] = tag
        BY <2>4
      <4> QED BY <4>1, <4>2
    <3>2. CASE i \notin 1 .. Len(s)
      <4> DEFINE l == i - Len(s)
      <4>1. l \in 1 .. n /\ i = Len(s) + l
        BY <2>1, <2>6, <3>2
      <4>2. q[i] = p[l]
        BY <2>6, <4>1
      <4> HIDE DEF l
      <4> QED BY <2>5, <4>1, <4>2
    <3> QED BY <3>1, <3>2
  <2>8. Pushed(Coll(q), x) = Coll(Append(q, x))
    BY <2>4, <2>6, <2>7, PushNew
  <2>9. Append(q, x) = s \o Append(p, x)
    <3>1. s \o Append(p, x) = Append(s \o p, x)
      BY <2>2, ConcatAppend
    <3> QED BY <3>1 DEF q
  <2>10. PushAll(Coll(s), Append(p, x)) = Pushed(PushAll(Coll(s), p), x)
    BY <2>2, PushAllAppend
  <2> QED BY <2>1, <2>2, <2>8, <2>9, <2>10
<1>3. P = Nat
  <2>1. P \in SUBSET Nat
    OBVIOUS
  <2> HIDE DEF P
  <2> QED BY <1>1, <1>2, <2>1, Induct
<1>4. PushAll(Coll(s), Prefix(t, N)) = Coll(s \o Prefix(t, N))
  BY <1>0, <1>3
<1> QED BY <1>0, <1>4

\* What the last two events leave behind.
LEMMA PushLastTwo ==
  ASSUME NEW s, IsSeq(s), NEW step, NEW kind
  PROVE  PushAll(Coll(s), LastTwo(step, kind))
           = [slots |-> Append(s, Usage(step)), finished |-> kind, error |-> NoError]
<1>1. LastTwo(step, kind) = Append(<<Usage(step)>>, Finished(kind))
  BY DEF LastTwo
<1>2. PushAll(Coll(s), Append(<<Usage(step)>>, Finished(kind)))
        = Pushed(PushAll(Coll(s), <<Usage(step)>>), Finished(kind))
  BY OneIsSeq, PushAllAppend
<1>3. PushAll(Coll(s), <<Usage(step)>>) = Pushed(Coll(s), Usage(step))
  BY PushAllOne
<1>4. Usage(step).type # "Finished" /\ ~IsDelta(Usage(step))
  BY DEF Usage, IsDelta
<1>5. Pushed(Coll(s), Usage(step)) = Coll(Append(s, Usage(step)))
  BY <1>4, PushNew
<1> DEFINE t == Append(s, Usage(step))
<1> HIDE DEF t
<1>6. Pushed(Coll(t), Finished(kind)) = [Coll(t) EXCEPT !.finished = kind]
  <2>1. Finished(kind).type = "Finished" /\ Finished(kind).kind = kind
    BY DEF Finished
  <2> DEFINE e == Finished(kind)
  <2> HIDE DEF e
  <2>2. Pushed(Coll(t), e) = Push(Coll(t), e)
    BY CollFields DEF Pushed
  <2>3. Push(Coll(t), e) = [Coll(t) EXCEPT !.finished = e.kind]
    <3>1. e.type = "Finished" /\ ~IsDelta(e)
      BY <2>1 DEF e, IsDelta
    <3> QED BY <3>1, CollFields DEF Push
  <2> QED BY <2>1, <2>2, <2>3 DEF e
<1>7. [Coll(t) EXCEPT !.finished = kind] = [slots |-> t, finished |-> kind, error |-> NoError]
  BY DEF Coll
<1> QED BY <1>1, <1>2, <1>3, <1>5, <1>6, <1>7 DEF t

(***************************************************************************)
(* An adapter that decodes a whole response: its decoder and the collector *)
(* after one event, and after all.  It halts at the end of the step, when  *)
(* the decoder finds an error, and when the collector does.                *)
(***************************************************************************)

\* The adapter of a step: who answers, what, and the step's number.
At(p, r, step) == [provider |-> p, response |-> r, step |-> step]
Halted(q) == q.over \/ q.c.error # NoError
Taken(at, q, w) ==
  IF Halted(q) THEN q
  ELSE LET out == Decode(at.provider, q.d, w, at.step, at.response)
       IN [d |-> out.state, c |-> PushAll(q.c, out.events), over |-> out.finished \/ out.error]
IsTaking(f, at, q, wire, n) ==
  f = [m \in 0 .. n |-> IF m = 0 THEN q ELSE Taken(at, f[m - 1], wire[m])]
Consume(at, q, wire) ==
  LET after[m \in 0 .. Len(wire)] == IF m = 0 THEN q ELSE Taken(at, after[m - 1], wire[m])
  IN after[Len(wire)]

LEMMA TakingExists ==
  ASSUME NEW at, NEW q, NEW wire, NEW n \in Nat
  PROVE  \E f : IsTaking(f, at, q, wire, n)
<1> DEFINE P == {m \in Nat : \E f : IsTaking(f, at, q, wire, m)}
<1>1. 0 \in P
  <2>1. IsTaking([m \in 0 .. 0 |-> q], at, q, wire, 0)
    BY DEF IsTaking
  <2> QED BY <2>1
<1>2. ASSUME NEW m \in P PROVE m + 1 \in P
  <2>1. PICK f : IsTaking(f, at, q, wire, m)
    BY <1>2
  <2> DEFINE g == [i \in 0 .. m + 1 |-> IF i <= m THEN f[i] ELSE Taken(at, f[m], wire[i])]
  <2>2. \A i \in 0 .. m : f[i] = IF i = 0 THEN q ELSE Taken(at, f[i - 1], wire[i])
    BY <2>1 DEF IsTaking
  <2>3. \A i \in 0 .. m + 1 : g[i] = IF i = 0 THEN q ELSE Taken(at, g[i - 1], wire[i])
    BY <2>2
  <2>4. IsTaking(g, at, q, wire, m + 1)
    BY <2>3 DEF IsTaking
  <2> QED BY <2>4
<1>3. P = Nat
  <2> HIDE DEF P
  <2>1. P \in SUBSET Nat
    BY DEF P
  <2> QED BY <1>1, <1>2, <2>1, Induct
<1> QED BY <1>3

LEMMA ConsumeIsTaking ==
  ASSUME NEW at, NEW q, NEW wire, Len(wire) \in Nat
  PROVE  \E f : IsTaking(f, at, q, wire, Len(wire)) /\ Consume(at, q, wire) = f[Len(wire)]
<1> DEFINE F == CHOOSE f : IsTaking(f, at, q, wire, Len(wire))
<1>1. IsTaking(F, at, q, wire, Len(wire))
  BY TakingExists
<1>2. Consume(at, q, wire) = F[Len(wire)]
  BY DEF Consume, IsTaking
<1> QED BY <1>1, <1>2

LEMMA ConsumeNone == ASSUME NEW at, NEW q PROVE Consume(at, q, << >>) = q
<1>1. Len(<< >>) = 0
  OBVIOUS
<1>2. PICK f : IsTaking(f, at, q, << >>, 0) /\ Consume(at, q, << >>) = f[0]
  BY <1>1, ConsumeIsTaking
<1> QED BY <1>2 DEF IsTaking

LEMMA TakingValues ==
  ASSUME NEW at, NEW q, NEW wire, NEW n \in Nat, NEW f, IsTaking(f, at, q, wire, n)
  PROVE  f[0] = q /\ \A m \in 1 .. n : f[m] = Taken(at, f[m - 1], wire[m])
<1>1. \A m \in 0 .. n : f[m] = IF m = 0 THEN q ELSE Taken(at, f[m - 1], wire[m])
  BY DEF IsTaking
<1>2. 0 \in 0 .. n /\ \A m \in 1 .. n : m \in 0 .. n /\ m # 0
  OBVIOUS
<1> QED BY <1>1, <1>2

LEMMA TakingsAgree ==
  ASSUME NEW at, NEW q, NEW wire, NEW other, NEW n \in Nat, NEW m \in 0 .. n,
         \A i \in 1 .. m : wire[i] = other[i],
         NEW f, IsTaking(f, at, q, wire, n), NEW g, IsTaking(g, at, q, other, m)
  PROVE  f[m] = g[m]
<1> DEFINE P == {i \in Nat : i <= m => f[i] = g[i]}
<1>0. /\ f[0] = q /\ \A i \in 1 .. n : f[i] = Taken(at, f[i - 1], wire[i])
      /\ g[0] = q /\ \A i \in 1 .. m : g[i] = Taken(at, g[i - 1], other[i])
  BY TakingValues
<1>1. 0 \in P
  BY <1>0
<1>2. ASSUME NEW i \in P PROVE i + 1 \in P
  <2> SUFFICES ASSUME i + 1 <= m PROVE f[i + 1] = g[i + 1]
    OBVIOUS
  <2>1. i + 1 \in 1 .. n /\ i + 1 \in 1 .. m /\ i + 1 - 1 = i /\ f[i] = g[i]
    OBVIOUS
  <2> DEFINE k == i + 1
  <2> HIDE DEF k
  <2>2. k \in 1 .. n /\ k \in 1 .. m /\ k - 1 = i
    BY <2>1 DEF k
  <2>3. f[k] = Taken(at, f[k - 1], wire[k]) /\ g[k] = Taken(at, g[k - 1], other[k]) /\ wire[k] = other[k]
    BY <1>0, <2>2
  <2>4. f[k] = g[k]
    BY <2>1, <2>2, <2>3
  <2> QED BY <2>4 DEF k
<1>3. P = Nat
  <2>1. P \in SUBSET Nat
    OBVIOUS
  <2> HIDE DEF P
  <2> QED BY <1>1, <1>2, <2>1, Induct
<1> QED BY <1>3

LEMMA ConsumeAppend ==
  ASSUME NEW at, NEW q, NEW wire, IsSeq(wire), NEW e
  PROVE  Consume(at, q, Append(wire, e)) = Taken(at, Consume(at, q, wire), e)
<1> DEFINE n == Len(wire)
           more == Append(wire, e)
<1>1. /\ n \in Nat /\ Len(more) = n + 1 /\ more[n + 1] = e
      /\ \A i \in 1 .. n : more[i] = wire[i]
  BY AppendIsSeq, IsSeqFacts
<1> HIDE DEF more
<1>2. PICK f : IsTaking(f, at, q, wire, n) /\ Consume(at, q, wire) = f[n]
  BY <1>1, ConsumeIsTaking
<1>3. PICK g : IsTaking(g, at, q, more, Len(more)) /\ Consume(at, q, more) = g[Len(more)]
  <2>1. Len(more) \in Nat
    BY <1>1
  <2> QED BY <2>1, ConsumeIsTaking
<1> DEFINE k == n + 1
<1>4. k \in Nat /\ n \in 0 .. k /\ k \in 1 .. k /\ k - 1 = n /\ more[k] = e
      /\ IsTaking(g, at, q, more, k) /\ Consume(at, q, more) = g[k]
  BY <1>1, <1>3
<1> HIDE DEF n, k
<1>5. g[n] = f[n]
  BY <1>1, <1>2, <1>4, TakingsAgree
<1>6. g[k] = Taken(at, g[k - 1], more[k])
  <2>1. \A m \in 1 .. k : g[m] = Taken(at, g[m - 1], more[m])
    BY <1>4, TakingValues
  <2> QED BY <1>4, <2>1
<1>7. Consume(at, q, more) = Taken(at, Consume(at, q, wire), e)
  BY <1>2, <1>4, <1>5, <1>6
<1> QED BY <1>7 DEF more

LEMMA ConsumeOne == ASSUME NEW at, NEW q, NEW e PROVE Consume(at, q, <<e>>) = Taken(at, q, e)
<1> DEFINE none == << >>
<1>1. <<e>> = Append(none, e)
  OBVIOUS
<1>2. IsSeq(none) /\ Consume(at, q, none) = q
  BY EmptyIsSeq, ConsumeNone
<1> HIDE DEF none
<1>3. Consume(at, q, Append(none, e)) = Taken(at, Consume(at, q, none), e)
  BY <1>2, ConsumeAppend
<1> QED BY <1>1, <1>2, <1>3

LEMMA ConsumeConcat ==
  ASSUME NEW at, NEW q, NEW s, IsSeq(s), NEW t, IsSeq(t)
  PROVE  Consume(at, q, s \o t) = Consume(at, Consume(at, q, s), t)
<1> DEFINE d == Consume(at, q, s)
           N == Len(t)
           P == {n \in Nat : n <= N => Consume(at, q, s \o Prefix(t, n)) = Consume(at, d, Prefix(t, n))}
<1>0. N \in Nat
  BY IsSeqFacts
<1>1. 0 \in P
  <2>1. Prefix(t, 0) = << >> /\ s \o << >> = s
    BY EmptyAtTheEnd DEF Prefix
  <2>2. Consume(at, d, << >>) = d
    BY ConsumeNone
  <2> QED BY <2>1, <2>2
<1>2. ASSUME NEW n \in P PROVE n + 1 \in P
  <2> SUFFICES ASSUME n + 1 <= N
               PROVE  Consume(at, q, s \o Prefix(t, n + 1)) = Consume(at, d, Prefix(t, n + 1))
    OBVIOUS
  <2> DEFINE p == Prefix(t, n)
             x == t[n + 1]
  <2>1. n \in Nat /\ Consume(at, q, s \o p) = Consume(at, d, p)
    BY <1>0
  <2>2. Prefix(t, n + 1) = Append(p, x) /\ IsSeq(p)
    BY <2>1, PrefixGrows
  <2> HIDE DEF p, x, d
  <2>3. s \o Append(p, x) = Append(s \o p, x) /\ IsSeq(s \o p)
    BY <2>2, ConcatAppend
  <2>4. /\ Consume(at, q, Append(s \o p, x)) = Taken(at, Consume(at, q, s \o p), x)
        /\ Consume(at, d, Append(p, x)) = Taken(at, Consume(at, d, p), x)
    BY <2>2, <2>3, ConsumeAppend
  <2> QED BY <2>1, <2>2, <2>3, <2>4
<1>3. P = Nat
  <2>1. P \in SUBSET Nat
    OBVIOUS
  <2> HIDE DEF P
  <2> QED BY <1>1, <1>2, <2>1, Induct
<1>4. Consume(at, q, s \o Prefix(t, N)) = Consume(at, d, Prefix(t, N))
  <2>1. N \in P
    BY <1>0, <1>3
  <2> HIDE DEF d
  <2> QED BY <1>0, <2>1
<1>5. Prefix(t, N) = t
  BY PrefixWhole DEF IsSeq
<1> QED BY <1>4, <1>5

\* A decoder that is done takes nothing more.
LEMMA ConsumeStuck ==
  ASSUME NEW at, NEW q, Halted(q), NEW t, IsSeq(t)
  PROVE  Consume(at, q, t) = q
<1> DEFINE N == Len(t)
           P == {n \in Nat : Consume(at, q, Prefix(t, n)) = q}
<1>0. N \in Nat /\ Prefix(t, N) = t
  BY IsSeqFacts, PrefixWhole DEF IsSeq
<1>1. 0 \in P
  <2>1. Prefix(t, 0) = << >>
    BY DEF Prefix
  <2> QED BY <2>1, ConsumeNone
<1>2. ASSUME NEW n \in P PROVE n + 1 \in P
  <2> DEFINE p == Prefix(t, n)
             x == t[n + 1]
  <2>0. n + 1 \in P <=> Consume(at, q, Prefix(t, n + 1)) = q
    OBVIOUS
  <2>1. n \in Nat /\ Consume(at, q, p) = q
    OBVIOUS
  <2>2. Prefix(t, n + 1) = Append(p, x) /\ IsSeq(p)
    BY <2>1, PrefixGrows
  <2> HIDE DEF p, x
  <2>3. Consume(at, q, Append(p, x)) = Taken(at, q, x)
    BY <2>1, <2>2, ConsumeAppend
  <2>4. Taken(at, q, x) = q
    BY DEF Taken
  <2> HIDE DEF P
  <2> QED BY <2>0, <2>2, <2>3, <2>4
<1>3. P = Nat
  <2>1. P \in SUBSET Nat
    OBVIOUS
  <2> HIDE DEF P
  <2> QED BY <1>1, <1>2, <2>1, Induct
<1> QED BY <1>0, <1>3

LEMMA ConsumeHead ==
  ASSUME NEW at, NEW q, NEW wire, IsSeq(wire), wire # << >>
  PROVE  Consume(at, q, wire) = Consume(at, Taken(at, q, Head(wire)), Tail(wire))
<1> DEFINE h == Head(wire)
           t == Tail(wire)
           one == <<h>>
<1>1. IsSeq(t) /\ IsSeq(one) /\ Len(wire) \in Nat \ {0} /\ Len(t) = Len(wire) - 1
      /\ h = wire[1] /\ \A i \in 1 .. Len(wire) - 1 : t[i] = wire[i + 1]
  BY TailIsSeq, OneIsSeq
<1>2. Len(one) = 1 /\ one[1] = h
  OBVIOUS
<1>3. wire = one \o t
  <2> DEFINE S == ToSet(wire)
  <2>1. wire \in Seq(S)
    BY DEF IsSeq
  <2> HIDE DEF S
  <2> QED BY <2>1
<1>4. Consume(at, q, one) = Taken(at, q, h)
  BY ConsumeOne
<1> HIDE DEF h, t, one
<1>5. Consume(at, q, one \o t) = Consume(at, Consume(at, q, one), t)
  BY <1>1, ConsumeConcat
<1> QED BY <1>3, <1>4, <1>5 DEF h, t

\* The decoder goes on.
Going(d, c) == [d |-> d, c |-> c, over |-> FALSE]

LEMMA TakenGoing ==
  ASSUME NEW at, NEW d, NEW s, NEW w, NEW e, NEW events,
         Decode(at.provider, d, w, at.step, at.response) = Outcome(e, events)
  PROVE  Taken(at, Going(d, Coll(s)), w) = Going(e, PushAll(Coll(s), events))
<1> DEFINE q == Going(d, Coll(s))
<1>1. ~Halted(q) /\ q.d = d /\ q.c = Coll(s)
  BY CollFields DEF Halted, Going
<1> HIDE DEF q
<1>2. /\ Outcome(e, events).state = e /\ Outcome(e, events).events = events
      /\ Outcome(e, events).finished = FALSE /\ Outcome(e, events).error = FALSE
  BY DEF Outcome
<1> DEFINE out == Outcome(e, events)
<1> HIDE DEF out
<1>3. Taken(at, q, w)
        = [d |-> out.state, c |-> PushAll(q.c, out.events), over |-> out.finished \/ out.error]
  BY <1>1 DEF Taken, out
<1>4. Taken(at, q, w)
        = [d |-> e, c |-> PushAll(Coll(s), events), over |-> FALSE]
  BY <1>1, <1>2, <1>3 DEF out
<1> QED BY <1>4 DEF Going, q

LEMMA TakenOver ==
  ASSUME NEW at, NEW d, NEW s, NEW w, NEW e, NEW events,
         Decode(at.provider, d, w, at.step, at.response) = Over(e, events)
  PROVE  Taken(at, Going(d, Coll(s)), w) = [d |-> e, c |-> PushAll(Coll(s), events), over |-> TRUE]
<1> DEFINE q == Going(d, Coll(s))
<1>1. ~Halted(q) /\ q.d = d /\ q.c = Coll(s)
  BY CollFields DEF Halted, Going
<1> HIDE DEF q
<1>2. /\ Over(e, events).state = e /\ Over(e, events).events = events
      /\ Over(e, events).finished = TRUE
  BY DEF Over, Outcome
<1>3. Taken(at, q, w)
        = [d |-> e, c |-> PushAll(Coll(s), events), over |-> TRUE]
  BY <1>1, <1>2 DEF Taken
<1> QED BY <1>3 DEF q

(***************************************************************************)
(* What a collector's slots say of the step's text and calls.              *)
(***************************************************************************)

LEMMA FlattenBoth ==
  ASSUME NEW ss, IsSeq(ss), NEW tt, IsSeq(tt),
         \A i \in DOMAIN ss : IsSeq(ss[i]), \A i \in DOMAIN tt : IsSeq(tt[i])
  PROVE  /\ FlattenSeq(ss \o tt) = FlattenSeq(ss) \o FlattenSeq(tt)
         /\ IsSeq(FlattenSeq(ss)) /\ IsSeq(FlattenSeq(tt))
<1> DEFINE S == UNION {ToSet(x) : x \in ToSet(ss) \cup ToSet(tt)}
<1>1. \A x \in ToSet(ss) \cup ToSet(tt) : IsSeq(x)
  BY IsSeqFacts
<1>2. \A x \in ToSet(ss) \cup ToSet(tt) : x \in Seq(S)
  <2> SUFFICES ASSUME NEW x \in ToSet(ss) \cup ToSet(tt) PROVE x \in Seq(S)
    OBVIOUS
  <2>1. ToSet(x) \subseteq S
    OBVIOUS
  <2>2. IsSeq(x)
    BY <1>1
  <2> HIDE DEF S
  <2>3. Len(x) \in Nat /\ DOMAIN x = 1 .. Len(x) /\ \A n \in DOMAIN x : x[n] \in ToSet(x)
    BY <2>2, IsSeqFacts
  <2>4. x \in Seq(ToSet(x))
    BY <2>2 DEF IsSeq
  <2> QED BY <2>1, <2>3, <2>4
<1> HIDE DEF S
<1>3. ss \in Seq(Seq(S)) /\ tt \in Seq(Seq(S))
  <2>1. Len(ss) \in Nat /\ DOMAIN ss = 1 .. Len(ss) /\ \A n \in DOMAIN ss : ss[n] \in ToSet(ss)
    BY IsSeqFacts
  <2>2. Len(tt) \in Nat /\ DOMAIN tt = 1 .. Len(tt) /\ \A n \in DOMAIN tt : tt[n] \in ToSet(tt)
    BY IsSeqFacts
  <2>3. ss \in Seq(ToSet(ss)) /\ tt \in Seq(ToSet(tt))
    BY DEF IsSeq
  <2>4. \A n \in DOMAIN ss : ss[n] \in Seq(S)
    BY <1>2, <2>1
  <2>5. \A n \in DOMAIN tt : tt[n] \in Seq(S)
    BY <1>2, <2>2
  <2> DEFINE T == Seq(S)
  <2> HIDE DEF T
  <2>6. ss \in Seq(T)
    BY <2>1, <2>3, <2>4 DEF T
  <2>7. tt \in Seq(T)
    BY <2>2, <2>3, <2>5 DEF T
  <2> QED BY <2>6, <2>7 DEF T
<1>4. FlattenSeq(ss) \in Seq(S) /\ FlattenSeq(tt) \in Seq(S)
  BY <1>3, FlattenOf
<1> QED BY <1>3, <1>4, FlattenConcat, SeqIsSeq

LEMMA RowsAreSeq ==
  ASSUME NEW s, IsSeq(s), NEW g, \A x \in ToSet(s) : IsSeq(g[x])
  PROVE  LET rows == [n \in DOMAIN s |-> g[s[n]]]
         IN /\ IsSeq(rows) /\ Len(rows) = Len(s) /\ DOMAIN rows = DOMAIN s
            /\ \A n \in DOMAIN rows : IsSeq(rows[n])
<1> DEFINE o == [n \in DOMAIN s |-> g[s[n]]]
<1>1. Len(s) \in Nat /\ DOMAIN s = 1 .. Len(s) /\ \A i \in 1 .. Len(s) : s[i] \in ToSet(s)
  BY IsSeqFacts
<1>2. o = [k \in 1 .. Len(s) |-> o[k]] /\ \A i \in 1 .. Len(s) : o[i] = g[s[i]]
  BY <1>1
<1> HIDE DEF o
<1>3. IsSeq(o) /\ Len(o) = Len(s) /\ DOMAIN o = 1 .. Len(s)
  BY <1>1, <1>2, FunctionIsSeq
<1>4. \A n \in DOMAIN o : IsSeq(o[n])
  BY <1>1, <1>2, <1>3
<1> QED BY <1>1, <1>3, <1>4 DEF o

\* What each of the elements adds, one after the other.
Rows(s, g) == FlattenSeq([n \in DOMAIN s |-> g[s[n]]])

LEMMA RowsConcat ==
  ASSUME NEW s, IsSeq(s), NEW t, IsSeq(t), NEW g, \A x \in ToSet(s) \cup ToSet(t) : IsSeq(g[x])
  PROVE  Rows(s \o t, g) = Rows(s, g) \o Rows(t, g) /\ IsSeq(Rows(s, g))
<1> DEFINE ss == [n \in DOMAIN s |-> g[s[n]]]
           tt == [n \in DOMAIN t |-> g[t[n]]]
           u == s \o t
           uu == [n \in DOMAIN u |-> g[u[n]]]
<1>1. /\ IsSeq(ss) /\ Len(ss) = Len(s) /\ DOMAIN ss = DOMAIN s
      /\ \A n \in DOMAIN ss : IsSeq(ss[n])
  BY RowsAreSeq
<1>2. /\ IsSeq(tt) /\ Len(tt) = Len(t) /\ DOMAIN tt = DOMAIN t
      /\ \A n \in DOMAIN tt : IsSeq(tt[n])
  BY RowsAreSeq
<1>3. /\ Len(s) \in Nat /\ Len(t) \in Nat /\ DOMAIN s = 1 .. Len(s) /\ DOMAIN t = 1 .. Len(t)
      /\ DOMAIN u = 1 .. Len(s) + Len(t)
      /\ \A p \in 1 .. Len(s) : u[p] = s[p]
      /\ \A p \in 1 .. Len(t) : u[Len(s) + p] = t[p]
  BY ConcatValues
<1>4. /\ \A n \in 1 .. Len(s) : ss[n] = g[s[n]]
      /\ \A n \in 1 .. Len(t) : tt[n] = g[t[n]]
      /\ uu = [n \in 1 .. Len(s) + Len(t) |-> g[u[n]]]
  BY <1>3
<1> HIDE DEF ss, tt, u, uu
<1>5. /\ DOMAIN (ss \o tt) = 1 .. Len(s) + Len(t)
      /\ \A p \in 1 .. Len(s) : (ss \o tt)[p] = ss[p]
      /\ \A p \in 1 .. Len(t) : (ss \o tt)[Len(s) + p] = tt[p]
      /\ IsSeq(ss \o tt)
  <2>0. IsSeq(ss) /\ IsSeq(tt)
    BY <1>1, <1>2
  <2>1. /\ DOMAIN (ss \o tt) = 1 .. Len(ss) + Len(tt)
        /\ \A p \in 1 .. Len(ss) : (ss \o tt)[p] = ss[p]
        /\ \A p \in 1 .. Len(tt) : (ss \o tt)[Len(ss) + p] = tt[p]
    BY <2>0, ConcatValues
  <2>2. IsSeq(ss \o tt)
    BY <2>0, ConcatIsSeq
  <2>3. Len(ss) = Len(s) /\ Len(tt) = Len(t)
    BY <1>1, <1>2
  <2> QED BY <2>1, <2>2, <2>3
<1> DEFINE v == ss \o tt
<1>6. v = [n \in 1 .. Len(s) + Len(t) |-> v[n]]
  <2>1. IsSeq(v) /\ DOMAIN v = 1 .. Len(s) + Len(t)
    BY <1>5
  <2> HIDE DEF v
  <2> QED BY <2>1 DEF IsSeq
<1>7. ASSUME NEW n \in 1 .. Len(s) + Len(t) PROVE v[n] = g[u[n]]
  <2>1. CASE n \in 1 .. Len(s)
    BY <1>3, <1>4, <1>5, <2>1
  <2>2. CASE n \notin 1 .. Len(s)
    <3> DEFINE k == n - Len(s)
    <3>1. k \in 1 .. Len(t) /\ n = Len(s) + k
      BY <1>3, <2>2
    <3> HIDE DEF k
    <3> QED BY <1>3, <1>4, <1>5, <3>1
  <2> QED BY <2>1, <2>2
<1> HIDE DEF v
<1>8. uu = v
  BY <1>4, <1>6, <1>7
<1>9. FlattenSeq(ss \o tt) = FlattenSeq(ss) \o FlattenSeq(tt) /\ IsSeq(FlattenSeq(ss))
  BY <1>1, <1>2, FlattenBoth
<1> QED BY <1>8, <1>9 DEF ss, tt, u, uu, v, Rows

\* The text and the calls of a slot, and of all of them.
TextPart(e) == IF e.type = "Text" THEN e.data ELSE << >>
CallPart(e) == IF e.type = "Call" THEN <<[name |-> e.name, input |-> ItemOf(e).data]>> ELSE << >>
TextAll(s) == FlattenSeq([n \in DOMAIN s |-> TextPart(s[n])])
CallAll(s) == FlattenSeq([n \in DOMAIN s |-> CallPart(s[n])])

\* A slot that finish accepts.
Sound(e) ==
  /\ PlainEvent(e) /\ ~BadCall(e)
  /\ e.type = "Text" => IsSeq(e.data)
  /\ e.type = "Call" => {"name", "data"} \subseteq DOMAIN e

\* Slots that finish accepts, which hold this text and these calls.
Holds(s, text, calls) ==
  IsSeq(s) /\ (\A e \in ToSet(s) : Sound(e)) /\ TextAll(s) = text /\ CallAll(s) = calls

LEMMA PartsAreSeq ==
  ASSUME NEW e, Sound(e)
  PROVE  IsSeq(TextPart(e)) /\ IsSeq(CallPart(e))
<1>1. IsSeq(TextPart(e))
  BY EmptyIsSeq DEF Sound, TextPart
<1>2. IsSeq(CallPart(e))
  <2> DEFINE x == [name |-> e.name, input |-> ItemOf(e).data]
  <2>1. CallPart(e) = IF e.type = "Call" THEN <<x>> ELSE << >>
    BY DEF CallPart
  <2> HIDE DEF x
  <2> QED BY <2>1, EmptyIsSeq, OneIsSeq
<1> QED BY <1>1, <1>2

LEMMA HoldsNothing == Holds(<< >>, << >>, << >>)
<1>1. TextAll(<< >>) = FlattenSeq(<< >>) /\ CallAll(<< >>) = FlattenSeq(<< >>)
  BY DEF TextAll, CallAll
<1> QED BY <1>1, EmptyIsSeq, FlattenEmpty DEF Holds

LEMMA HoldsConcat ==
  ASSUME NEW s, NEW t, NEW text, NEW more, NEW calls, NEW others,
         Holds(s, text, calls), Holds(t, more, others)
  PROVE  /\ Holds(s \o t, text \o more, calls \o others)
         /\ IsSeq(text) /\ IsSeq(calls)
<1>1. IsSeq(s) /\ IsSeq(t) /\ \A e \in ToSet(s) \cup ToSet(t) : Sound(e)
  BY DEF Holds
<1>2. IsSeq(s \o t) /\ ToSet(s \o t) = ToSet(s) \cup ToSet(t)
  BY <1>1, ConcatIsSeq
<1> DEFINE S == ToSet(s) \cup ToSet(t)
<1>3. /\ \A n \in DOMAIN s : s[n] \in S
      /\ \A n \in DOMAIN t : t[n] \in S
      /\ \A n \in DOMAIN (s \o t) : (s \o t)[n] \in S
  <2>1. \A n \in DOMAIN s : s[n] \in ToSet(s)
    BY <1>1, IsSeqFacts
  <2>2. \A n \in DOMAIN t : t[n] \in ToSet(t)
    BY <1>1, IsSeqFacts
  <2>3. \A n \in DOMAIN (s \o t) : (s \o t)[n] \in ToSet(s \o t)
    BY <1>2, IsSeqFacts
  <2> QED BY <1>2, <2>1, <2>2, <2>3
<1>4. TextAll(s \o t) = TextAll(s) \o TextAll(t) /\ IsSeq(TextAll(s))
  <2> DEFINE g == [x \in S |-> TextPart(x)]
  <2>1. \A x \in S : g[x] = TextPart(x) /\ IsSeq(g[x])
    BY <1>1, PartsAreSeq
  <2>2. /\ TextAll(s) = FlattenSeq([n \in DOMAIN s |-> g[s[n]]])
        /\ TextAll(t) = FlattenSeq([n \in DOMAIN t |-> g[t[n]]])
        /\ TextAll(s \o t) = FlattenSeq([n \in DOMAIN (s \o t) |-> g[(s \o t)[n]]])
    <3> HIDE DEF g, S
    <3>1. [n \in DOMAIN s |-> g[s[n]]] = [n \in DOMAIN s |-> TextPart(s[n])]
      BY <1>3, <2>1
    <3>2. [n \in DOMAIN t |-> g[t[n]]] = [n \in DOMAIN t |-> TextPart(t[n])]
      BY <1>3, <2>1
    <3>3. [n \in DOMAIN (s \o t) |-> g[(s \o t)[n]]] = [n \in DOMAIN (s \o t) |-> TextPart((s \o t)[n])]
      BY <1>3, <2>1
    <3> QED BY <3>1, <3>2, <3>3 DEF TextAll
  <2>3. \A x \in ToSet(s) \cup ToSet(t) : IsSeq(g[x])
    BY <2>1
  <2> HIDE DEF g, S
  <2>4. Rows(s \o t, g) = Rows(s, g) \o Rows(t, g) /\ IsSeq(Rows(s, g))
    <3>1. IsSeq(s) /\ IsSeq(t)
      BY <1>1
    <3> QED BY <2>3, <3>1, RowsConcat
  <2> QED BY <2>2, <2>4 DEF Rows
<1>5. CallAll(s \o t) = CallAll(s) \o CallAll(t) /\ IsSeq(CallAll(s))
  <2> DEFINE g == [x \in S |-> CallPart(x)]
  <2>1. \A x \in S : g[x] = CallPart(x) /\ IsSeq(g[x])
    BY <1>1, PartsAreSeq
  <2>2. /\ CallAll(s) = FlattenSeq([n \in DOMAIN s |-> g[s[n]]])
        /\ CallAll(t) = FlattenSeq([n \in DOMAIN t |-> g[t[n]]])
        /\ CallAll(s \o t) = FlattenSeq([n \in DOMAIN (s \o t) |-> g[(s \o t)[n]]])
    <3> HIDE DEF g, S
    <3>1. [n \in DOMAIN s |-> g[s[n]]] = [n \in DOMAIN s |-> CallPart(s[n])]
      BY <1>3, <2>1
    <3>2. [n \in DOMAIN t |-> g[t[n]]] = [n \in DOMAIN t |-> CallPart(t[n])]
      BY <1>3, <2>1
    <3>3. [n \in DOMAIN (s \o t) |-> g[(s \o t)[n]]] = [n \in DOMAIN (s \o t) |-> CallPart((s \o t)[n])]
      BY <1>3, <2>1
    <3> QED BY <3>1, <3>2, <3>3 DEF CallAll
  <2>3. \A x \in ToSet(s) \cup ToSet(t) : IsSeq(g[x])
    BY <2>1
  <2> HIDE DEF g, S
  <2>4. Rows(s \o t, g) = Rows(s, g) \o Rows(t, g) /\ IsSeq(Rows(s, g))
    <3>1. IsSeq(s) /\ IsSeq(t)
      BY <1>1
    <3> QED BY <2>3, <3>1, RowsConcat
  <2> QED BY <2>2, <2>4 DEF Rows
<1> QED BY <1>1, <1>2, <1>4, <1>5 DEF Holds

LEMMA HoldsOne ==
  ASSUME NEW e, Sound(e)
  PROVE  Holds(<<e>>, TextPart(e), CallPart(e))
<1> DEFINE p == TextPart(e)
           q == CallPart(e)
<1>1. [n \in DOMAIN <<e>> |-> TextPart(<<e>>[n])] = <<p>>
  OBVIOUS
<1>2. [n \in DOMAIN <<e>> |-> CallPart(<<e>>[n])] = <<q>>
  OBVIOUS
<1>3. IsSeq(p) /\ IsSeq(q)
  BY PartsAreSeq
<1>4. IsSeq(<<e>>) /\ ToSet(<<e>>) = {e}
  BY OneIsSeq
<1>5. TextAll(<<e>>) = FlattenSeq(<<p>>) /\ CallAll(<<e>>) = FlattenSeq(<<q>>)
  BY <1>1, <1>2 DEF TextAll, CallAll
<1> HIDE DEF p, q
<1>6. ASSUME NEW x, IsSeq(x) PROVE FlattenSeq(<<x>>) = x
  <2> DEFINE none == << >>
  <2>1. FlattenSeq(none) = << >> /\ IsSeq(none) /\ <<x>> = Append(none, x) /\ DOMAIN none = {}
    BY FlattenEmpty, EmptyIsSeq
  <2> HIDE DEF none
  <2>2. FlattenSeq(Append(none, x)) = FlattenSeq(none) \o x
    BY <1>6, <2>1, FlattenAdd
  <2>3. << >> \o x = x
    BY <1>6 DEF IsSeq
  <2> QED BY <2>1, <2>2, <2>3
<1> QED BY <1>3, <1>4, <1>5, <1>6 DEF Holds, p, q

LEMMA HoldsAppend ==
  ASSUME NEW s, NEW text, NEW calls, Holds(s, text, calls), NEW e, Sound(e)
  PROVE  Holds(Append(s, e), text \o TextPart(e), calls \o CallPart(e))
<1>1. Append(s, e) = s \o <<e>>
  BY AppendIsSeq DEF Holds
<1> QED BY <1>1, HoldsOne, HoldsConcat

\* A block with nothing to say of either.
LEMMA HoldsOthers ==
  ASSUME NEW s, IsSeq(s), \A e \in ToSet(s) : PlainEvent(e) /\ e.type \notin {"Text", "Call"}
  PROVE  Holds(s, << >>, << >>)
<1> DEFINE N == Len(s)
           P == {n \in Nat : n <= N => Holds(Prefix(s, n), << >>, << >>)}
<1>0. N \in Nat /\ Prefix(s, N) = s /\ \A n \in 1 .. N : s[n] \in ToSet(s)
  BY IsSeqFacts, PrefixWhole DEF IsSeq
<1>1. 0 \in P
  BY HoldsNothing DEF Prefix
<1>2. ASSUME NEW n \in P PROVE n + 1 \in P
  <2> SUFFICES ASSUME n + 1 <= N PROVE Holds(Prefix(s, n + 1), << >>, << >>)
    OBVIOUS
  <2> DEFINE e == s[n + 1]
             p == Prefix(s, n)
  <2>1. n \in Nat /\ e \in ToSet(s) /\ Holds(p, << >>, << >>)
    BY <1>0
  <2>2. Prefix(s, n + 1) = Append(p, e)
    BY <2>1, PrefixGrows
  <2> HIDE DEF e, p
  <2>3. Sound(e) /\ TextPart(e) = << >> /\ CallPart(e) = << >>
    BY <2>1 DEF Sound, TextPart, CallPart, BadCall
  <2>4. Holds(Append(p, e), << >> \o TextPart(e), << >> \o CallPart(e))
    BY <2>1, <2>3, HoldsAppend
  <2>5. << >> \o << >> = << >>
    BY EmptyAtTheEnd, EmptyIsSeq
  <2> QED BY <2>2, <2>3, <2>4, <2>5
<1>3. P = Nat
  <2>1. P \in SUBSET Nat
    OBVIOUS
  <2> HIDE DEF P
  <2> QED BY <1>1, <1>2, <2>1, Induct
<1>4. Holds(Prefix(s, N), << >>, << >>)
  BY <1>0, <1>3
<1> QED BY <1>0, <1>4

\* A block of calls.
LEMMA HoldsCalls ==
  ASSUME NEW n \in Nat, NEW s, s = [k \in 1 .. n |-> s[k]],
         \A k \in 1 .. n : Sound(s[k]) /\ s[k].type = "Call"
  PROVE  Holds(s, << >>, [k \in 1 .. n |-> [name |-> s[k].name, input |-> ItemOf(s[k]).data]])
<1> DEFINE f == [k \in 1 .. n |-> [name |-> s[k].name, input |-> ItemOf(s[k]).data]]
<1>1. IsSeq(s) /\ Len(s) = n /\ DOMAIN s = 1 .. n /\ \A x \in ToSet(s) : \E k \in 1 .. n : x = s[k]
  BY FunctionIsSeq
<1>2. \A k \in 1 .. n : CallPart(s[k]) = <<f[k]>> /\ TextPart(s[k]) = << >>
  BY DEF CallPart, TextPart
<1>3. f = [k \in 1 .. n |-> f[k]]
  OBVIOUS
<1> HIDE DEF f
<1>4. CallAll(s) = f
  <2>1. CallAll(s) = FlattenSeq([k \in 1 .. n |-> <<f[k]>>])
    <3>1. [k \in DOMAIN s |-> CallPart(s[k])] = [k \in 1 .. n |-> <<f[k]>>]
      BY <1>1, <1>2
    <3> QED BY <3>1 DEF CallAll
  <2> QED BY <1>3, <2>1, FlattenOnes
<1>5. TextAll(s) = << >>
  <2> DEFINE none == [k \in 1 .. n |-> << >>]
             P == {m \in Nat : m <= n => FlattenSeq(Prefix(none, m)) = << >>}
  <2>1. IsSeq(none) /\ Len(none) = n /\ DOMAIN none = 1 .. n /\ \A i \in DOMAIN none : IsSeq(none[i])
    <3>1. none = [k \in 1 .. n |-> none[k]] /\ \A k \in 1 .. n : none[k] = << >>
      OBVIOUS
    <3> HIDE DEF none
    <3> QED BY <3>1, FunctionIsSeq, EmptyIsSeq
  <2>2. \A i \in 1 .. n : none[i] = << >>
    OBVIOUS
  <2>3. [k \in DOMAIN s |-> TextPart(s[k])] = none
    BY <1>1, <1>2
  <2> HIDE DEF none
  <2>4. 0 \in P
    BY FlattenEmpty DEF Prefix
  <2>5. ASSUME NEW m \in P PROVE m + 1 \in P
    <3> SUFFICES ASSUME m + 1 <= n PROVE FlattenSeq(Prefix(none, m + 1)) = << >>
      OBVIOUS
    <3>1. m \in Nat /\ m < Len(none) /\ m + 1 \in 1 .. n /\ FlattenSeq(Prefix(none, m)) = << >>
      BY <2>1
    <3>2. FlattenSeq(Prefix(none, m + 1)) = FlattenSeq(Prefix(none, m)) \o none[m + 1]
      BY <2>1, <3>1, FlattenGrows
    <3>3. none[m + 1] = << >>
      BY <2>2, <3>1
    <3>4. << >> \o << >> = << >>
      BY EmptyAtTheEnd, EmptyIsSeq
    <3> QED BY <3>1, <3>2, <3>3, <3>4
  <2>6. P = Nat
    <3>1. P \in SUBSET Nat
      OBVIOUS
    <3> HIDE DEF P
    <3> QED BY <2>4, <2>5, <3>1, Induct
  <2>7. FlattenSeq(Prefix(none, n)) = << >>
    BY <2>6
  <2>8. Prefix(none, n) = none
    BY <2>1, PrefixWhole DEF IsSeq
  <2> QED BY <2>3, <2>7, <2>8 DEF TextAll
<1> QED BY <1>1, <1>4, <1>5 DEF Holds, f

\* What a selection says is what the whole says, if the rest says nothing.
LEMMA OnlyRows ==
  ASSUME NEW s, IsSeq(s), NEW T, NEW g,
         \A x \in ToSet(s) : IsSeq(g[x]) /\ (x.type \notin T => g[x] = << >>)
  PROVE  Rows(Only(s, T), g) = Rows(s, g)
<1> DEFINE U == {e \in ToSet(s) : e.type \in T}
           w == Within(s, U)
<1>1. Only(s, T) = w
  BY OnlyIsWithin
<1>2. \A n \in DOMAIN s : s[n] \in ToSet(s) /\ (s[n] \notin U => g[s[n]] = << >>)
  BY IsSeqFacts
<1>3. \A x \in ToSet(s) : IsSeq(g[x])
  OBVIOUS
<1> HIDE DEF U
<1>4. FlattenSeq([k \in DOMAIN w |-> g[w[k]]])
        = FlattenSeq([n \in DOMAIN s |-> IF s[n] \in U THEN g[s[n]] ELSE << >>])
  BY <1>3, WithinMapped
<1>5. [n \in DOMAIN s |-> IF s[n] \in U THEN g[s[n]] ELSE << >>] = [n \in DOMAIN s |-> g[s[n]]]
  BY <1>2
<1> HIDE DEF w
<1> QED BY <1>1, <1>4, <1>5 DEF Rows

\* The call of a block that finish made.
InputPart(e) == IF e.type = "Call" THEN <<[name |-> e.name, input |-> e.data]>> ELSE << >>

LEMMA ItemParts ==
  ASSUME NEW e, Sound(e)
  PROVE  /\ ItemOf(e).type = e.type
         /\ TextPart(ItemOf(e)) = TextPart(e) /\ InputPart(ItemOf(e)) = CallPart(e)
<1>1. CASE e.type = "Call"
  <2>1. {"type", "name", "data"} \subseteq DOMAIN e
    BY <1>1 DEF Sound, PlainEvent
  <2>2. ItemOf(e).type = e.type /\ ItemOf(e).name = e.name
    BY <2>1 DEF ItemOf
  <2> HIDE DEF ItemOf
  <2> QED BY <1>1, <2>2 DEF TextPart, InputPart, CallPart
<1>2. CASE e.type # "Call"
  <2>1. ItemOf(e) = e
    BY <1>2 DEF ItemOf
  <2> QED BY <1>2, <2>1 DEF InputPart, CallPart
<1> QED BY <1>1, <1>2

\* The text and the calls of a step whose slots hold them.
LEMMA StepTells ==
  ASSUME NEW c, NEW p, NEW text, NEW calls, Holds(p, text, calls), NEW step,
         c.slots = Append(p, Usage(step))
  PROVE  LET blocks == CallsIn(TranscriptBlocks(StepOf(c)))
         IN /\ TextIn(StepOf(c)) = text
            /\ IsSeq(blocks) /\ Len(blocks) = Len(calls)
            /\ [k \in DOMAIN blocks |-> [name |-> blocks[k].name, input |-> blocks[k].data]] = calls
<1> DEFINE st == StepOf(c)
           items == st.items
           texts == AnswerBlocks(st)
           mid == TranscriptBlocks(st)
           blocks == CallsIn(mid)
<1>1. IsSeq(p) /\ Plain(p) /\ \A e \in ToSet(p) : Sound(e)
  BY DEF Holds, Plain, Sound
<1>2. items = [i \in DOMAIN p |-> ItemOf(p[i])] /\ IsSeq(items)
  BY <1>1, StepOfClosed, ItemsOfClosed
<1>3. DOMAIN items = DOMAIN p /\ \A i \in DOMAIN p : /\ items[i] = ItemOf(p[i]) /\ Sound(p[i])
  BY <1>1, <1>2, IsSeqFacts
<1>4. texts = Only(items, {"Text"}) /\ mid = Only(items, {"Text", "Call", "Continuation"})
      /\ blocks = Only(mid, {"Call"})
  BY DEF AnswerBlocks, TranscriptBlocks, CallsIn
<1> HIDE DEF st, items, texts, mid, blocks
<1>5. \A e \in ToSet(items) : \E i \in DOMAIN p : e = ItemOf(p[i]) /\ Sound(p[i])
  BY <1>2, <1>3, IsSeqFacts
<1>6. \A e \in ToSet(items) : IsSeq(TextPart(e)) /\ IsSeq(InputPart(e))
  BY <1>5, ItemParts, PartsAreSeq
<1>7. TextIn(st) = text
  <2> DEFINE g == [e \in ToSet(items) |-> TextPart(e)]
  <2>1. \A x \in ToSet(items) : IsSeq(g[x]) /\ (x.type \notin {"Text"} => g[x] = << >>) /\ g[x] = TextPart(x)
    BY <1>6 DEF TextPart
  <2> HIDE DEF g
  <2>2. Rows(texts, g) = Rows(items, g)
    BY <1>2, <1>4, <2>1, OnlyRows
  <2>3. Rows(items, g) = TextAll(p)
    <3>1. \A i \in DOMAIN p : g[items[i]] = TextPart(p[i])
      <4> SUFFICES ASSUME NEW i \in DOMAIN p PROVE g[items[i]] = TextPart(p[i])
        OBVIOUS
      <4>1. items[i] \in ToSet(items)
        BY <1>2, <1>3, IsSeqFacts
      <4>2. items[i] = ItemOf(p[i]) /\ Sound(p[i])
        BY <1>3
      <4>3. TextPart(ItemOf(p[i])) = TextPart(p[i])
        BY <4>2, ItemParts
      <4> QED BY <2>1, <4>1, <4>2, <4>3
    <3>2. [i \in DOMAIN items |-> g[items[i]]] = [i \in DOMAIN p |-> TextPart(p[i])]
      BY <1>3, <3>1
    <3> QED BY <3>2 DEF Rows, TextAll
  <2>4. TextIn(st) = Rows(texts, g)
    <3>1. \A k \in DOMAIN texts : texts[k] \in ToSet(items) /\ texts[k].type = "Text"
      <4>1. IsSeq(texts) /\ ToSet(texts) = {e \in ToSet(items) : e.type \in {"Text"}}
        BY <1>2, <1>4, OnlyElements
      <4>2. \A k \in DOMAIN texts : texts[k] \in ToSet(texts)
        BY <4>1, IsSeqFacts
      <4> QED BY <4>1, <4>2
    <3>2. \A k \in DOMAIN texts : g[texts[k]] = texts[k].data
      BY <2>1, <3>1 DEF TextPart
    <3>3. [k \in DOMAIN texts |-> texts[k].data] = [k \in DOMAIN texts |-> g[texts[k]]]
      BY <3>2
    <3>4. TextIn(st) = FlattenSeq([k \in DOMAIN texts |-> texts[k].data])
      BY DEF TextIn, texts
    <3> QED BY <3>3, <3>4 DEF Rows
  <2> QED BY <2>2, <2>3, <2>4 DEF Holds
<1>8. IsSeq(mid) /\ ToSet(mid) \subseteq ToSet(items)
  BY <1>2, <1>4, OnlyElements
<1>9. IsSeq(blocks) /\ \A k \in DOMAIN blocks : blocks[k] \in ToSet(items) /\ blocks[k].type = "Call"
  <2>1. IsSeq(blocks) /\ ToSet(blocks) = {e \in ToSet(mid) : e.type \in {"Call"}}
    BY <1>4, <1>8, OnlyElements
  <2>2. \A k \in DOMAIN blocks : blocks[k] \in ToSet(blocks)
    BY <2>1, IsSeqFacts
  <2> QED BY <1>8, <2>1, <2>2
<1> DEFINE f == [k \in DOMAIN blocks |-> [name |-> blocks[k].name, input |-> blocks[k].data]]
<1>10. f = calls
  <2> DEFINE g == [e \in ToSet(items) |-> InputPart(e)]
  <2>1. \A x \in ToSet(items) : IsSeq(g[x]) /\ g[x] = InputPart(x) /\ (x.type # "Call" => g[x] = << >>)
    BY <1>6 DEF InputPart
  <2> HIDE DEF g
  <2>2. Rows(mid, g) = Rows(items, g)
    <3>1. \A x \in ToSet(items) : IsSeq(g[x]) /\ (x.type \notin {"Text", "Call", "Continuation"} => g[x] = << >>)
      BY <2>1
    <3> QED BY <1>2, <1>4, <3>1, OnlyRows
  <2>3. Rows(blocks, g) = Rows(mid, g)
    <3>1. \A x \in ToSet(mid) : IsSeq(g[x]) /\ (x.type \notin {"Call"} => g[x] = << >>)
      BY <1>8, <2>1
    <3> QED BY <1>4, <1>8, <3>1, OnlyRows
  <2>4. Rows(items, g) = CallAll(p)
    <3>1. \A i \in DOMAIN p : g[items[i]] = CallPart(p[i])
      <4> SUFFICES ASSUME NEW i \in DOMAIN p PROVE g[items[i]] = CallPart(p[i])
        OBVIOUS
      <4>1. items[i] \in ToSet(items)
        BY <1>2, <1>3, IsSeqFacts
      <4>2. items[i] = ItemOf(p[i]) /\ Sound(p[i])
        BY <1>3
      <4>3. InputPart(ItemOf(p[i])) = CallPart(p[i])
        BY <4>2, ItemParts
      <4> QED BY <2>1, <4>1, <4>2, <4>3
    <3>2. [i \in DOMAIN items |-> g[items[i]]] = [i \in DOMAIN p |-> CallPart(p[i])]
      BY <1>3, <3>1
    <3> QED BY <3>2 DEF Rows, CallAll
  <2>5. Rows(blocks, g) = f
    <3>1. \A k \in DOMAIN blocks : g[blocks[k]] = <<f[k]>>
      BY <1>9, <2>1 DEF InputPart
    <3>2. Len(blocks) \in Nat /\ DOMAIN blocks = 1 .. Len(blocks)
      BY <1>9, IsSeqFacts
    <3>3. f = [k \in 1 .. Len(blocks) |-> f[k]]
      BY <3>2
    <3> HIDE DEF f
    <3>4. FlattenSeq([k \in 1 .. Len(blocks) |-> <<f[k]>>]) = f
      BY <3>2, <3>3, FlattenOnes
    <3>5. [k \in DOMAIN blocks |-> g[blocks[k]]] = [k \in 1 .. Len(blocks) |-> <<f[k]>>]
      BY <3>1, <3>2
    <3> QED BY <3>4, <3>5 DEF Rows
  <2> HIDE DEF f
  <2> QED BY <2>2, <2>3, <2>4, <2>5 DEF Holds
<1>11. Len(blocks) = Len(f)
  <2>1. Len(blocks) \in Nat /\ DOMAIN blocks = 1 .. Len(blocks)
    BY <1>9, IsSeqFacts
  <2>2. f = [k \in 1 .. Len(blocks) |-> f[k]]
    BY <2>1
  <2> HIDE DEF f
  <2> QED BY <2>1, <2>2, FunctionIsSeq
<1> HIDE DEF f
<1>12. f = [k \in DOMAIN blocks |-> [name |-> blocks[k].name, input |-> blocks[k].data]]
  BY DEF f
<1> QED BY <1>7, <1>9, <1>10, <1>11, <1>12 DEF blocks, mid, st

\* finish accepts such a collector.
LEMMA FinishAccepts ==
  ASSUME NEW c, NEW p, NEW text, NEW calls, Holds(p, text, calls), NEW step,
         c.slots = Append(p, Usage(step)), c.finished # Unfinished
  PROVE  FinishError(c) = NoError
<1>1. IsSeq(p) /\ \A e \in ToSet(p) : ~BadCall(e)
  BY DEF Holds, Sound
<1>2. ~BadCall(Usage(step))
  BY DEF BadCall, Usage
<1> DEFINE u == Usage(step)
           q == Append(p, u)
<1> HIDE DEF u
<1>3. IsSeq(q) /\ ToSet(q) = ToSet(p) \cup {u}
  BY <1>1, AppendIsSeq
<1> HIDE DEF q
<1>4. \A i \in DOMAIN q : q[i] \in ToSet(q)
  BY <1>3, IsSeqFacts
<1>5. c.slots = q
  BY DEF q, u
<1>6. ~ \E i \in DOMAIN c.slots : BadCall(c.slots[i])
  BY <1>1, <1>2, <1>3, <1>4, <1>5 DEF u
<1> QED BY <1>6 DEF FinishError

(***************************************************************************)
(* What a response says, item by item.                                     *)
(***************************************************************************)

\* The text and the calls of an item, and of the first n of them.
TextRow(r, i) == IF r.items[i].type = "text" THEN DataOf(r, i) ELSE << >>
CallSent(r, i) == [name |-> r.items[i].tool, input |-> ArgumentsOf(r, i)]
CallRow(r, i) == IF r.items[i].type = "call" THEN <<CallSent(r, i)>> ELSE << >>
TextTo(r, n) == FlattenSeq([i \in 1 .. n |-> TextRow(r, i)])
CallsTo(r, n) == FlattenSeq([i \in 1 .. n |-> CallRow(r, i)])

\* A response that the token limit did not cut.
Whole(r) ==
  /\ IsResponse(r) /\ ~IsCut(r) /\ r.paused \in BOOLEAN
  /\ \A i \in DOMAIN r.items : r.items[i].tool # NoName

LEMMA DocumentFacts ==
  ASSUME NEW owner, NEW n \in Nat
  PROVE  /\ IsSeq(Document(owner, n)) /\ Len(Document(owner, n)) = n
         /\ \A k \in 1 .. n : Document(owner, n)[k] = <<owner, k, n>>
         /\ SubSeq(Document(owner, n), 1, n) = Document(owner, n)
         /\ n > 0 => Parses(Document(owner, n)) /\ Document(owner, n) # << >>
         /\ n = 0 => Document(owner, n) = << >>
<1> DEFINE d == Document(owner, n)
<1>1. d = [k \in 1 .. n |-> d[k]] /\ \A k \in 1 .. n : d[k] = <<owner, k, n>>
  BY DEF Document
<1>2. d = [k \in 1 .. n |-> <<owner, k, n>>]
  BY DEF Document
<1> HIDE DEF d
<1>3. IsSeq(d) /\ Len(d) = n /\ DOMAIN d = 1 .. n
  BY <1>1, FunctionIsSeq
<1>4. SubSeq(d, 1, n) = d
  <2> DEFINE S == ToSet(d)
  <2>1. d \in Seq(S)
    BY <1>3 DEF IsSeq
  <2> HIDE DEF S
  <2> QED BY <1>3, <2>1
<1>5. n > 0 => Parses(d) /\ d # << >>
  <2> SUFFICES ASSUME n > 0 PROVE Parses(d) /\ d # << >>
    OBVIOUS
  <2>1. 1 \in 1 .. n
    OBVIOUS
  <2>2. d[1] = <<owner, 1, n>>
    BY <1>1, <2>1
  <2>3. d[1][1] = owner /\ d[1][3] = n
    BY <2>2
  <2>4. Parses(d)
    BY <1>3, <2>3 DEF Parses, d
  <2> QED BY <1>3, <2>4
<1>6. n = 0 => d = << >>
  BY <1>2
<1> QED BY <1>1, <1>3, <1>4, <1>5, <1>6 DEF d

LEMMA EmptyObjectParses == Parses(EmptyObject) /\ IsSeq(EmptyObject) /\ EmptyObject # << >>
  BY DocumentFacts DEF EmptyObject

LEMMA DataFacts ==
  ASSUME NEW r, Whole(r), NEW i \in DOMAIN r.items
  PROVE  /\ r.items[i].size \in Nat /\ r.items[i].sent = r.items[i].size
         /\ DataOf(r, i) = Document(i, r.items[i].size)
         /\ IsSeq(DataOf(r, i)) /\ Len(DataOf(r, i)) = r.items[i].size
         /\ r.items[i].size > 0 => Parses(DataOf(r, i))
         /\ DataOf(r, i) = << >> <=> r.items[i].size = 0
         /\ IsSeq(ArgumentsOf(r, i)) /\ Parses(ArgumentsOf(r, i)) /\ ArgumentsOf(r, i) # << >>
<1>1. r.items[i].size \in Nat /\ r.items[i].sent = r.items[i].size
  <2> DEFINE R == [type : ItemTypes, size : Nat, sent : Nat, tool : STRING]
  <2>1. r.items \in Seq(R)
    BY DEF Whole, IsResponse
  <2>2. r.items[i] \in R
    <3> HIDE DEF R
    <3> QED BY <2>1
  <2> QED BY <2>2 DEF Whole, IsCut
<1>2. DataOf(r, i) = Document(i, r.items[i].size)
  <2>1. DataOf(r, i) = SubSeq(Document(i, r.items[i].size), 1, r.items[i].size)
    BY <1>1 DEF DataOf
  <2> QED BY <1>1, <2>1, DocumentFacts
<1> DEFINE n == r.items[i].size
           d == Document(i, n)
<1> HIDE DEF n
<1>3. n \in Nat /\ (n > 0 \/ n = 0)
  BY <1>1 DEF n
<1>4. /\ IsSeq(d) /\ Len(d) = n
      /\ n > 0 => Parses(d) /\ d # << >>
      /\ n = 0 => d = << >>
  BY <1>3, DocumentFacts
<1> HIDE DEF d
<1>5. DataOf(r, i) = d
  BY <1>2 DEF d, n
<1>6. ArgumentsOf(r, i) = IF n = 0 THEN EmptyObject ELSE d
  BY <1>5 DEF ArgumentsOf, n
<1>7. IsSeq(ArgumentsOf(r, i)) /\ Parses(ArgumentsOf(r, i)) /\ ArgumentsOf(r, i) # << >>
  BY <1>3, <1>4, <1>6, EmptyObjectParses
<1> QED BY <1>1, <1>2, <1>3, <1>4, <1>5, <1>7 DEF n

LEMMA RowFacts ==
  ASSUME NEW r, Whole(r), NEW i \in DOMAIN r.items
  PROVE  IsSeq(TextRow(r, i)) /\ IsSeq(CallRow(r, i))
<1>1. IsSeq(TextRow(r, i))
  BY DataFacts, EmptyIsSeq DEF TextRow
<1> DEFINE x == CallSent(r, i)
<1>2. CallRow(r, i) = IF r.items[i].type = "call" THEN <<x>> ELSE << >>
  BY DEF CallRow
<1> HIDE DEF x
<1> QED BY <1>1, <1>2, OneIsSeq, EmptyIsSeq

LEMMA RowsTo ==
  ASSUME NEW r, Whole(r), NEW n \in Nat, n < Len(r.items)
  PROVE  /\ TextTo(r, n + 1) = TextTo(r, n) \o TextRow(r, n + 1)
         /\ CallsTo(r, n + 1) = CallsTo(r, n) \o CallRow(r, n + 1)
         /\ IsSeq(TextTo(r, n)) /\ IsSeq(CallsTo(r, n))
<1> DEFINE N == Len(r.items)
           text == [i \in 1 .. N |-> TextRow(r, i)]
           calls == [i \in 1 .. N |-> CallRow(r, i)]
<1>1. N \in Nat /\ DOMAIN r.items = 1 .. N
  BY ItemsOf DEF Whole
<1>2. \A i \in 1 .. N : IsSeq(text[i]) /\ IsSeq(calls[i])
  BY <1>1, RowFacts
<1>3. /\ text = [i \in 1 .. N |-> text[i]] /\ calls = [i \in 1 .. N |-> calls[i]]
      /\ \A i \in 1 .. N : text[i] = TextRow(r, i) /\ calls[i] = CallRow(r, i)
  OBVIOUS
<1> HIDE DEF text, calls, N
<1>4. /\ IsSeq(text) /\ Len(text) = N /\ DOMAIN text = 1 .. N
      /\ IsSeq(calls) /\ Len(calls) = N /\ DOMAIN calls = 1 .. N
  BY <1>1, <1>3, FunctionIsSeq
<1>5. n < N /\ n + 1 \in 1 .. N
  BY <1>1 DEF N
<1>6. /\ IsSeq(FlattenSeq(Prefix(text, n)))
      /\ FlattenSeq(Prefix(text, n + 1)) = FlattenSeq(Prefix(text, n)) \o text[n + 1]
  BY <1>2, <1>4, <1>5, FlattenGrows
<1>7. /\ IsSeq(FlattenSeq(Prefix(calls, n)))
      /\ FlattenSeq(Prefix(calls, n + 1)) = FlattenSeq(Prefix(calls, n)) \o calls[n + 1]
  BY <1>2, <1>4, <1>5, FlattenGrows
<1>8. ASSUME NEW m \in Nat, m <= N
      PROVE  TextTo(r, m) = FlattenSeq(Prefix(text, m)) /\ CallsTo(r, m) = FlattenSeq(Prefix(calls, m))
  <2>1. \A i \in 1 .. m : text[i] = TextRow(r, i) /\ calls[i] = CallRow(r, i)
    BY <1>1, <1>3, <1>8
  <2>2. Prefix(text, m) = [i \in 1 .. m |-> TextRow(r, i)]
    BY <2>1 DEF Prefix
  <2>3. Prefix(calls, m) = [i \in 1 .. m |-> CallRow(r, i)]
    BY <2>1 DEF Prefix
  <2> QED BY <2>2, <2>3 DEF TextTo, CallsTo
<1>9. n <= N /\ n + 1 <= N /\ n + 1 \in Nat
  BY <1>1, <1>5
<1>10. /\ TextTo(r, n) = FlattenSeq(Prefix(text, n)) /\ CallsTo(r, n) = FlattenSeq(Prefix(calls, n))
       /\ TextTo(r, n + 1) = FlattenSeq(Prefix(text, n + 1))
       /\ CallsTo(r, n + 1) = FlattenSeq(Prefix(calls, n + 1))
  BY <1>8, <1>9
<1> QED BY <1>3, <1>5, <1>6, <1>7, <1>10

LEMMA RowsToNone == ASSUME NEW r PROVE TextTo(r, 0) = << >> /\ CallsTo(r, 0) = << >>
<1>1. [i \in 1 .. 0 |-> TextRow(r, i)] = << >> /\ [i \in 1 .. 0 |-> CallRow(r, i)] = << >>
  OBVIOUS
<1> QED BY <1>1, FlattenEmpty DEF TextTo, CallsTo

\* The rows of a selection of the items.
LEMMA OfRows ==
  ASSUME NEW r, IsResponse(r), NEW type, NEW g, \A i \in DOMAIN r.items : IsSeq(g[i])
  PROVE  FlattenSeq([k \in DOMAIN Of(r, type) |-> g[Of(r, type)[k]]])
           = FlattenSeq([i \in 1 .. Len(r.items) |-> IF r.items[i].type = type THEN g[i] ELSE << >>])
<1> DEFINE N == Len(r.items)
           all == [i \in DOMAIN r.items |-> i]
           T == Places(r, type)
<1>1. N \in Nat /\ DOMAIN r.items = 1 .. N
  BY ItemsOf
<1>2. all = [i \in 1 .. N |-> all[i]] /\ \A i \in 1 .. N : all[i] = i
  BY <1>1
<1>3. \A i \in 1 .. N : i \in T <=> r.items[i].type = type
  BY <1>1 DEF Places
<1>4. Of(r, type) = Within(all, T)
  BY DEF Of
<1> HIDE DEF all, N, T
<1>5. IsSeq(all) /\ Len(all) = N /\ DOMAIN all = 1 .. N /\ \A x \in ToSet(all) : \E k \in 1 .. N : x = all[k]
  BY <1>1, <1>2, FunctionIsSeq
<1>6. \A x \in ToSet(all) : IsSeq(g[x])
  BY <1>1, <1>2, <1>5
<1>7. FlattenSeq([k \in DOMAIN Within(all, T) |-> g[Within(all, T)[k]]])
        = FlattenSeq([n \in DOMAIN all |-> IF all[n] \in T THEN g[all[n]] ELSE << >>])
  BY <1>5, <1>6, WithinMapped
<1>8. [n \in DOMAIN all |-> IF all[n] \in T THEN g[all[n]] ELSE << >>]
        = [i \in 1 .. N |-> IF r.items[i].type = type THEN g[i] ELSE << >>]
  BY <1>2, <1>3, <1>5
<1> QED BY <1>4, <1>7, <1>8 DEF N

LEMMA ResponseTells ==
  ASSUME NEW r, Whole(r)
  PROVE  /\ TextOf(r) = TextTo(r, Len(r.items)) /\ CallsSent(r) = CallsTo(r, Len(r.items))
         /\ Len(CallsSent(r)) = Len(Of(r, "call")) /\ IsSeq(CallsSent(r)) /\ IsSeq(TextOf(r))
<1> DEFINE N == Len(r.items)
<1>1. N \in Nat /\ DOMAIN r.items = 1 .. N /\ IsResponse(r)
  BY ItemsOf DEF Whole
<1>2. TextOf(r) = TextTo(r, N)
  <2> DEFINE g == [i \in 1 .. N |-> DataOf(r, i)]
             x == Of(r, "text")
  <2>1. \A i \in DOMAIN r.items : g[i] = DataOf(r, i) /\ IsSeq(g[i])
    BY <1>1, DataFacts
  <2>2. IsSeq(x) /\ ToSet(x) = Places(r, "text")
    BY <1>1, OfIsSeq
  <2>3. \A k \in DOMAIN x : x[k] \in DOMAIN r.items
    <3> HIDE DEF x
    <3> QED BY <2>2, IsSeqFacts DEF Places
  <2> HIDE DEF g, x
  <2>4. [k \in DOMAIN x |-> DataOf(r, x[k])] = [k \in DOMAIN x |-> g[x[k]]]
    BY <2>1, <2>3
  <2>5. FlattenSeq([k \in DOMAIN Of(r, "text") |-> g[Of(r, "text")[k]]])
          = FlattenSeq([i \in 1 .. Len(r.items) |-> IF r.items[i].type = "text" THEN g[i] ELSE << >>])
    BY <1>1, <2>1, OfRows
  <2>6. [i \in 1 .. N |-> IF r.items[i].type = "text" THEN g[i] ELSE << >>] = [i \in 1 .. N |-> TextRow(r, i)]
    BY <1>1, <2>1 DEF TextRow
  <2>7. TextOf(r) = FlattenSeq([k \in DOMAIN x |-> DataOf(r, x[k])])
    BY DEF TextOf, x
  <2> QED BY <2>4, <2>5, <2>6, <2>7 DEF TextTo, x
<1>3. CallsSent(r) = CallsTo(r, N) /\ Len(CallsSent(r)) = Len(Of(r, "call")) /\ IsSeq(CallsSent(r))
  <2> DEFINE g == [i \in 1 .. N |-> <<CallSent(r, i)>>]
             x == Of(r, "call")
             f == CallsSent(r)
  <2>1. \A i \in DOMAIN r.items : g[i] = <<CallSent(r, i)>> /\ IsSeq(g[i])
    <3>a. \A z : IsSeq(<<z>>)
      BY OneIsSeq
    <3> QED BY <1>1, <3>a
  <2>2. IsSeq(x) /\ ToSet(x) = Places(r, "call")
    BY <1>1, OfIsSeq
  <2>3. f = [k \in DOMAIN x |-> CallSent(r, x[k])]
    BY DEF CallsSent, CallSent
  <2> HIDE DEF g, x, f
  <2>4. (\A k \in DOMAIN x : x[k] \in DOMAIN r.items) /\ Len(x) \in Nat /\ DOMAIN x = 1 .. Len(x)
    BY <2>2, IsSeqFacts DEF Places
  <2>5. f = [k \in 1 .. Len(x) |-> f[k]] /\ \A k \in 1 .. Len(x) : <<f[k]>> = g[x[k]]
    BY <2>1, <2>3, <2>4
  <2>6. FlattenSeq([k \in 1 .. Len(x) |-> <<f[k]>>]) = f
    BY <2>4, <2>5, FlattenOnes
  <2>7. [k \in 1 .. Len(x) |-> <<f[k]>>] = [k \in DOMAIN x |-> g[x[k]]]
    BY <2>4, <2>5
  <2>8. FlattenSeq([k \in DOMAIN Of(r, "call") |-> g[Of(r, "call")[k]]])
          = FlattenSeq([i \in 1 .. Len(r.items) |-> IF r.items[i].type = "call" THEN g[i] ELSE << >>])
    BY <1>1, <2>1, OfRows, SMTT(30)
  <2>9. [i \in 1 .. N |-> IF r.items[i].type = "call" THEN g[i] ELSE << >>] = [i \in 1 .. N |-> CallRow(r, i)]
    BY <1>1, <2>1 DEF CallRow
  <2>10. f = CallsTo(r, N)
    BY <2>6, <2>7, <2>8, <2>9 DEF CallsTo, x
  <2>11. IsSeq(f) /\ Len(f) = Len(x)
    BY <2>4, <2>5, FunctionIsSeq
  <2> QED BY <2>10, <2>11 DEF f, x
<1>4. IsSeq(TextOf(r))
  <2>1. CASE N = 0
    BY <1>2, <2>1, RowsToNone, EmptyIsSeq
  <2>2. CASE N # 0
    <3>1. N - 1 \in Nat /\ N - 1 < N /\ (N - 1) + 1 = N /\ N \in DOMAIN r.items
      BY <1>1, <2>2
    <3> DEFINE m == N - 1
    <3> HIDE DEF m
    <3>2. m \in Nat /\ m < Len(r.items) /\ m + 1 = N
      BY <3>1 DEF m
    <3>3. TextTo(r, m + 1) = TextTo(r, m) \o TextRow(r, m + 1) /\ IsSeq(TextTo(r, m))
      BY <3>2, RowsTo
    <3>4. IsSeq(TextRow(r, m + 1))
      BY <3>1, <3>2, RowFacts
    <3>5. IsSeq(TextTo(r, m) \o TextRow(r, m + 1))
      BY <3>3, <3>4, ConcatIsSeq
    <3> QED BY <1>2, <3>2, <3>3, <3>5
  <2> QED BY <2>1, <2>2
<1> QED BY <1>2, <1>3, <1>4

LEMMA FragmentsFlatten ==
  ASSUME NEW r, Whole(r), NEW i \in DOMAIN r.items, NEW whole
  PROVE  LET f == Fragments(r, i, whole)
         IN /\ IsSeq(f) /\ (\A k \in 1 .. Len(f) : IsSeq(f[k]) /\ f[k] # << >>)
            /\ FlattenSeq(f) = DataOf(r, i)
            /\ Len(f) \in Nat /\ (Len(f) = 0 <=> r.items[i].size = 0)
<1> DEFINE d == DataOf(r, i)
           n == r.items[i].size
           f == Fragments(r, i, whole)
<1>1. n \in Nat /\ r.items[i].sent = n /\ IsSeq(d) /\ Len(d) = n /\ (d = << >> <=> n = 0)
  BY DataFacts
<1>2. f = IF whole \/ n = 0 THEN IF d = << >> THEN << >> ELSE <<d>>
          ELSE [k \in 1 .. n |-> <<d[k]>>]
  BY <1>1 DEF Fragments
<1> HIDE DEF d, n, f
<1>3. CASE n = 0
  <2>1. f = << >> /\ d = << >>
    BY <1>1, <1>2, <1>3
  <2>2. IsSeq(f) /\ Len(f) = 0 /\ FlattenSeq(f) = d
    BY <2>1, FlattenEmpty, EmptyIsSeq
  <2>3. \A k \in 1 .. Len(f) : IsSeq(f[k]) /\ f[k] # << >>
    BY <2>2
  <2>4. Len(f) \in Nat /\ (Len(f) = 0 <=> n = 0)
    BY <1>3, <2>2
  <2> QED BY <2>2, <2>3, <2>4 DEF d, n, f
<1>4. CASE n # 0 /\ whole
  <2>1. f = <<d>> /\ d # << >>
    BY <1>1, <1>2, <1>4
  <2>2. IsSeq(f) /\ Len(f) = 1 /\ f[1] = d
    BY <2>1, OneIsSeq
  <2>3. FlattenSeq(f) = d
    <3> DEFINE none == << >>
    <3>1. FlattenSeq(none) = << >> /\ IsSeq(none) /\ <<d>> = Append(none, d) /\ DOMAIN none = {}
      BY FlattenEmpty, EmptyIsSeq
    <3> HIDE DEF none
    <3>2. FlattenSeq(Append(none, d)) = FlattenSeq(none) \o d
      BY <1>1, <3>1, FlattenAdd
    <3>3. << >> \o d = d
      BY <1>1 DEF IsSeq
    <3> QED BY <2>1, <3>1, <3>2, <3>3
  <2>4. \A k \in 1 .. Len(f) : f[k] = d
    BY <2>2
  <2>5. \A k \in 1 .. Len(f) : IsSeq(f[k]) /\ f[k] # << >>
    BY <1>1, <2>1, <2>4
  <2>6. Len(f) \in Nat /\ (Len(f) = 0 <=> n = 0)
    BY <1>4, <2>2
  <2> QED BY <2>2, <2>3, <2>5, <2>6 DEF d, n, f
<1>5. CASE n # 0 /\ ~whole
  <2>1. f = [k \in 1 .. n |-> <<d[k]>>]
    BY <1>2, <1>5
  <2>2. d = [k \in 1 .. n |-> d[k]]
    <3>1. DOMAIN d = 1 .. n
      BY <1>1, IsSeqFacts
    <3> QED BY <1>1, <3>1 DEF IsSeq
  <2>3. FlattenSeq(f) = d
    BY <1>1, <2>1, <2>2, FlattenOnes
  <2>4. f = [k \in 1 .. n |-> f[k]] /\ \A k \in 1 .. n : f[k] = <<d[k]>>
    BY <2>1
  <2>5. IsSeq(f) /\ Len(f) = n
    BY <1>1, <2>4, FunctionIsSeq
  <2>6. \A z : IsSeq(<<z>>) /\ <<z>> # << >>
    BY OneIsSeq
  <2>7. \A k \in 1 .. Len(f) : IsSeq(f[k]) /\ f[k] # << >>
    BY <2>4, <2>5, <2>6
  <2> QED BY <1>1, <1>5, <2>3, <2>5, <2>7 DEF d, n, f
<1> QED BY <1>3, <1>4, <1>5

(***************************************************************************)
(* Counting.                                                               *)
(***************************************************************************)

LEMMA CountAppend ==
  ASSUME NEW s, IsSeq(s), NEW y, NEW x
  PROVE  Count(s, x) \in Nat /\ Count(Append(s, y), x) = Count(s, x) + (IF y = x THEN 1 ELSE 0)
<1> DEFINE n == Len(s)
           t == Append(s, y)
           A == {k \in DOMAIN s : s[k] = x}
           B == {k \in DOMAIN t : t[k] = x}
<1>1. n \in Nat /\ DOMAIN s = 1 .. n
  BY IsSeqFacts
<1>2. IsSeq(t) /\ Len(t) = n + 1 /\ t[n + 1] = y /\ \A i \in 1 .. n : t[i] = s[i]
  BY AppendIsSeq, ZenonT(30)
<1> HIDE DEF t, n
<1>3. DOMAIN t = 1 .. n + 1
  BY <1>2, IsSeqFacts
<1>4. IsFiniteSet(A) /\ Cardinality(A) \in Nat
  <2>1. IsFiniteSet(1 .. n)
    BY <1>1, FS_Interval
  <2>2. A \in SUBSET (1 .. n)
    BY <1>1
  <2> HIDE DEF A
  <2> QED BY <2>1, <2>2, FS_Subset, FS_CardinalityType
<1>5. B = IF y = x THEN A \cup {n + 1} ELSE A
  BY <1>1, <1>2, <1>3
<1>6. n + 1 \notin A
  BY <1>1
<1>7. Count(s, x) = Cardinality(A) /\ Count(t, x) = Cardinality(B)
  BY DEF Count
<1> HIDE DEF A, B
<1>8. Cardinality(A \cup {n + 1}) = Cardinality(A) + 1
  BY <1>4, <1>6, FS_AddElement
<1> QED BY <1>4, <1>5, <1>7, <1>8 DEF t

LEMMA CountNone == ASSUME NEW x PROVE Count(<< >>, x) = 0
<1>1. {k \in DOMAIN << >> : << >>[k] = x} = {}
  OBVIOUS
<1> QED BY <1>1, FS_EmptySet DEF Count

LEMMA CountConcat ==
  ASSUME NEW s, IsSeq(s), NEW t, IsSeq(t), NEW x
  PROVE  Count(s \o t, x) = Count(s, x) + Count(t, x) /\ Count(s, x) \in Nat
<1> DEFINE N == Len(t)
           P == {n \in Nat : n <= N => Count(s \o Prefix(t, n), x) = Count(s, x) + Count(Prefix(t, n), x)}
<1>0. N \in Nat /\ Prefix(t, N) = t
  BY IsSeqFacts, PrefixWhole DEF IsSeq
<1>a. ASSUME NEW u, IsSeq(u) PROVE Count(u, x) \in Nat
  BY <1>a, CountAppend
<1>1. 0 \in P
  <2>1. Prefix(t, 0) = << >> /\ s \o << >> = s
    BY EmptyAtTheEnd DEF Prefix
  <2>2. Count(s, x) \in Nat /\ Count(<< >>, x) = 0
    BY <1>a, CountNone
  <2>3. Count(s \o Prefix(t, 0), x) = Count(s, x) /\ Count(Prefix(t, 0), x) = 0
    BY <2>1, <2>2
  <2> QED BY <2>2, <2>3
<1>2. ASSUME NEW n \in P PROVE n + 1 \in P
  <2> SUFFICES ASSUME n + 1 <= N
               PROVE  Count(s \o Prefix(t, n + 1), x) = Count(s, x) + Count(Prefix(t, n + 1), x)
    OBVIOUS
  <2> DEFINE p == Prefix(t, n)
             y == t[n + 1]
             one == IF y = x THEN 1 ELSE 0
  <2>1. n \in Nat /\ Count(s \o p, x) = Count(s, x) + Count(p, x)
    BY <1>0
  <2>2. Prefix(t, n + 1) = Append(p, y) /\ IsSeq(p)
    BY <2>1, PrefixGrows
  <2> HIDE DEF p, y
  <2>3. s \o Append(p, y) = Append(s \o p, y) /\ IsSeq(s \o p)
    BY <2>2, ConcatAppend
  <2>4. Count(Append(s \o p, y), x) = Count(s \o p, x) + one
    BY <2>3, CountAppend
  <2>5. Count(Append(p, y), x) = Count(p, x) + one /\ Count(p, x) \in Nat
    BY <2>2, CountAppend
  <2>6. Count(s, x) \in Nat /\ one \in Nat
    BY <1>a
  <2> HIDE DEF one
  <2>7. Count(s \o Prefix(t, n + 1), x) = Count(s \o p, x) + one
    BY <2>2, <2>3, <2>4
  <2>8. Count(Prefix(t, n + 1), x) = Count(p, x) + one
    BY <2>2, <2>5
  <2> QED BY <2>1, <2>5, <2>6, <2>7, <2>8
<1>3. P = Nat
  <2>1. P \in SUBSET Nat
    OBVIOUS
  <2> HIDE DEF P
  <2> QED BY <1>1, <1>2, <2>1, Induct
<1>4. Count(s \o Prefix(t, N), x) = Count(s, x) + Count(Prefix(t, N), x)
  BY <1>0, <1>3
<1> QED BY <1>0, <1>4, <1>a

\* The same elements, each as often.
Same(s, t) == IsSeq(s) /\ IsSeq(t) /\ Len(s) = Len(t) /\ \A x : Count(s, x) = Count(t, x)

LEMMA SameItself == ASSUME NEW s, IsSeq(s) PROVE Same(s, s)
  BY DEF Same

\* What is in a set and what is not, together.
InTo(r, S, n) == FlattenSeq([i \in 1 .. n |-> IF i \in S THEN CallRow(r, i) ELSE << >>])
OutTo(r, S, n) == FlattenSeq([i \in 1 .. n |-> IF i \in S THEN << >> ELSE CallRow(r, i)])

LEMMA SplitTo ==
  ASSUME NEW r, Whole(r), NEW S, NEW n \in Nat, n < Len(r.items)
  PROVE  /\ InTo(r, S, n + 1) = InTo(r, S, n) \o (IF n + 1 \in S THEN CallRow(r, n + 1) ELSE << >>)
         /\ OutTo(r, S, n + 1) = OutTo(r, S, n) \o (IF n + 1 \in S THEN << >> ELSE CallRow(r, n + 1))
         /\ IsSeq(InTo(r, S, n)) /\ IsSeq(OutTo(r, S, n))
<1> DEFINE N == Len(r.items)
           in == [i \in 1 .. N |-> IF i \in S THEN CallRow(r, i) ELSE << >>]
           out == [i \in 1 .. N |-> IF i \in S THEN << >> ELSE CallRow(r, i)]
<1>1. N \in Nat /\ DOMAIN r.items = 1 .. N
  BY ItemsOf DEF Whole
<1>2. /\ in = [i \in 1 .. N |-> in[i]] /\ out = [i \in 1 .. N |-> out[i]]
      /\ \A i \in 1 .. N : /\ in[i] = IF i \in S THEN CallRow(r, i) ELSE << >>
                           /\ out[i] = IF i \in S THEN << >> ELSE CallRow(r, i)
  OBVIOUS
<1> HIDE DEF in, out, N
<1>3. \A i \in 1 .. N : IsSeq(in[i]) /\ IsSeq(out[i])
  BY <1>1, <1>2, RowFacts, EmptyIsSeq
<1>4. /\ IsSeq(in) /\ Len(in) = N /\ DOMAIN in = 1 .. N
      /\ IsSeq(out) /\ Len(out) = N /\ DOMAIN out = 1 .. N
  BY <1>1, <1>2, FunctionIsSeq
<1>5. n < N /\ n + 1 \in 1 .. N
  BY <1>1 DEF N
<1>6. /\ IsSeq(FlattenSeq(Prefix(in, n)))
      /\ FlattenSeq(Prefix(in, n + 1)) = FlattenSeq(Prefix(in, n)) \o in[n + 1]
  BY <1>3, <1>4, <1>5, FlattenGrows
<1>7. /\ IsSeq(FlattenSeq(Prefix(out, n)))
      /\ FlattenSeq(Prefix(out, n + 1)) = FlattenSeq(Prefix(out, n)) \o out[n + 1]
  BY <1>3, <1>4, <1>5, FlattenGrows
<1>8. ASSUME NEW m \in Nat, m <= N
      PROVE  InTo(r, S, m) = FlattenSeq(Prefix(in, m)) /\ OutTo(r, S, m) = FlattenSeq(Prefix(out, m))
  <2>1. \A i \in 1 .. m : i \in 1 .. N
    BY <1>1, <1>8
  <2>2. Prefix(in, m) = [i \in 1 .. m |-> IF i \in S THEN CallRow(r, i) ELSE << >>]
    BY <1>2, <2>1 DEF Prefix
  <2>3. Prefix(out, m) = [i \in 1 .. m |-> IF i \in S THEN << >> ELSE CallRow(r, i)]
    BY <1>2, <2>1 DEF Prefix
  <2> QED BY <2>2, <2>3 DEF InTo, OutTo
<1>9. n <= N /\ n + 1 <= N /\ n + 1 \in Nat
  BY <1>1, <1>5
<1>10. /\ InTo(r, S, n) = FlattenSeq(Prefix(in, n)) /\ OutTo(r, S, n) = FlattenSeq(Prefix(out, n))
       /\ InTo(r, S, n + 1) = FlattenSeq(Prefix(in, n + 1))
       /\ OutTo(r, S, n + 1) = FlattenSeq(Prefix(out, n + 1))
  BY <1>8, <1>9
<1> QED BY <1>2, <1>5, <1>6, <1>7, <1>10

LEMMA SplitNone == ASSUME NEW r, NEW S PROVE InTo(r, S, 0) = << >> /\ OutTo(r, S, 0) = << >>
<1>1. /\ [i \in 1 .. 0 |-> IF i \in S THEN CallRow(r, i) ELSE << >>] = << >>
      /\ [i \in 1 .. 0 |-> IF i \in S THEN << >> ELSE CallRow(r, i)] = << >>
  OBVIOUS
<1> QED BY <1>1, FlattenEmpty DEF InTo, OutTo

LEMMA SplitsAreSame ==
  ASSUME NEW r, Whole(r), NEW S
  PROVE  Same(InTo(r, S, Len(r.items)) \o OutTo(r, S, Len(r.items)), CallsSent(r))
<1> DEFINE N == Len(r.items)
           Together(n) == /\ IsSeq(InTo(r, S, n)) /\ IsSeq(OutTo(r, S, n)) /\ IsSeq(CallsTo(r, n))
                          /\ Len(InTo(r, S, n)) + Len(OutTo(r, S, n)) = Len(CallsTo(r, n))
                          /\ \A x : Count(InTo(r, S, n), x) + Count(OutTo(r, S, n), x) = Count(CallsTo(r, n), x)
           P == {n \in Nat : n <= N => Together(n)}
<1>0. N \in Nat /\ DOMAIN r.items = 1 .. N
  BY ItemsOf DEF Whole
<1>a. ASSUME NEW u, IsSeq(u), NEW x PROVE Count(u, x) \in Nat /\ Len(u) \in Nat
  BY <1>a, CountAppend, IsSeqFacts
<1>1. 0 \in P
  <2>1. InTo(r, S, 0) = << >> /\ OutTo(r, S, 0) = << >> /\ CallsTo(r, 0) = << >>
    BY SplitNone, RowsToNone
  <2>2. \A x : Count(<< >>, x) = 0
    BY CountNone
  <2> QED BY <2>1, <2>2, EmptyIsSeq
<1>2. ASSUME NEW n \in P PROVE n + 1 \in P
  <2> SUFFICES ASSUME n + 1 <= N PROVE Together(n + 1)
    OBVIOUS
  <2>1. n \in Nat /\ n < Len(r.items) /\ Together(n) /\ n + 1 \in DOMAIN r.items
    BY <1>0
  <2> DEFINE a == InTo(r, S, n)
             b == OutTo(r, S, n)
             c == CallsTo(r, n)
             row == CallRow(r, n + 1)
             x1 == IF n + 1 \in S THEN row ELSE << >>
             x2 == IF n + 1 \in S THEN << >> ELSE row
  <2>2. /\ InTo(r, S, n + 1) = a \o x1 /\ OutTo(r, S, n + 1) = b \o x2
        /\ CallsTo(r, n + 1) = c \o row
    <3>1. n \in Nat /\ n < Len(r.items)
      BY <2>1
    <3>2. CallsTo(r, n + 1) = c \o row
      BY <3>1, RowsTo
    <3>3. InTo(r, S, n + 1) = a \o x1 /\ OutTo(r, S, n + 1) = b \o x2
      BY <3>1, SplitTo
    <3> QED BY <3>2, <3>3
  <2>3. /\ IsSeq(a) /\ IsSeq(b) /\ IsSeq(c)
        /\ Len(a) + Len(b) = Len(c) /\ \A x : Count(a, x) + Count(b, x) = Count(c, x)
    BY <2>1
  <2>4. IsSeq(row)
    BY <2>1, RowFacts
  <2> HIDE DEF row, a, b, c
  <2>5. IsSeq(x1) /\ IsSeq(x2) /\ ((x1 = row /\ x2 = << >>) \/ (x1 = << >> /\ x2 = row))
    BY <2>4, EmptyIsSeq
  <2> HIDE DEF x1, x2
  <2>6. /\ IsSeq(a \o x1) /\ Len(a \o x1) = Len(a) + Len(x1)
        /\ IsSeq(b \o x2) /\ Len(b \o x2) = Len(b) + Len(x2)
        /\ IsSeq(c \o row) /\ Len(c \o row) = Len(c) + Len(row)
    BY <2>3, <2>4, <2>5, ConcatIsSeq
  <2>7. Len(a \o x1) + Len(b \o x2) = Len(c \o row)
    <3>1. Len(a) \in Nat /\ Len(b) \in Nat /\ Len(c) \in Nat /\ Len(row) \in Nat /\ Len(<< >>) = 0
      BY <2>3, <2>4, <1>a
    <3>2. Len(x1) + Len(x2) = Len(row) /\ Len(x1) \in Nat /\ Len(x2) \in Nat
      BY <2>5, <3>1
    <3> QED BY <2>3, <2>6, <3>1, <3>2
  <2>8. ASSUME NEW x PROVE Count(a \o x1, x) + Count(b \o x2, x) = Count(c \o row, x)
    <3>1. /\ Count(a \o x1, x) = Count(a, x) + Count(x1, x)
          /\ Count(b \o x2, x) = Count(b, x) + Count(x2, x)
          /\ Count(c \o row, x) = Count(c, x) + Count(row, x)
      BY <2>3, <2>4, <2>5, CountConcat
    <3>2. Count(a, x) \in Nat /\ Count(b, x) \in Nat /\ Count(c, x) \in Nat /\ Count(row, x) \in Nat
      BY <2>3, <2>4, <1>a
    <3>3. Count(x1, x) + Count(x2, x) = Count(row, x) /\ Count(x1, x) \in Nat /\ Count(x2, x) \in Nat
      BY <2>5, <3>2, CountNone
    <3>4. Count(a, x) + Count(b, x) = Count(c, x)
      BY <2>3
    <3> QED BY <3>1, <3>2, <3>3, <3>4
  <2> QED BY <2>2, <2>6, <2>7, <2>8
<1>3. P = Nat
  <2>1. P \in SUBSET Nat
    OBVIOUS
  <2> HIDE DEF P
  <2> QED BY <1>1, <1>2, <2>1, Induct
<1>4. Together(N)
  BY <1>0, <1>3
<1>5. CallsSent(r) = CallsTo(r, N)
  BY ResponseTells
<1> DEFINE a == InTo(r, S, N)
           b == OutTo(r, S, N)
           c == CallsTo(r, N)
<1>6. /\ IsSeq(a) /\ IsSeq(b) /\ IsSeq(c)
      /\ Len(a) + Len(b) = Len(c) /\ \A x : Count(a, x) + Count(b, x) = Count(c, x)
  BY <1>4
<1> HIDE DEF a, b, c
<1>7. IsSeq(a \o b) /\ Len(a \o b) = Len(a) + Len(b)
  BY <1>6, ConcatIsSeq
<1>8. \A x : Count(a \o b, x) = Count(a, x) + Count(b, x)
  BY <1>6, CountConcat
<1>9. Same(a \o b, c)
  BY <1>6, <1>7, <1>8 DEF Same
<1> QED BY <1>5, <1>9 DEF a, b, c

(***************************************************************************)
(* A finished collector that tells the response.                           *)
(***************************************************************************)

\* Finished, with one usage record last; before it are the response's text and
\* its calls, each as often as it was sent.
Tells(c, r) ==
  /\ c.error = NoError /\ c.finished # Unfinished
  /\ \E p, step, calls : /\ Holds(p, TextOf(r), calls) /\ c.slots = Append(p, Usage(step))
                         /\ Same(calls, CallsSent(r))

LEMMA BlockHolds ==
  ASSUME NEW s, NEW text, NEW calls, Holds(s, text, calls),
         NEW t, NEW more, NEW others, Holds(t, more, others), NEW tag, Named(t, tag),
         (\E k \in DOMAIN t : IsDelta(t[k])) => Unnamed(s, tag)
  PROVE  /\ PushAll(Coll(s), t) = Coll(s \o t)
         /\ Holds(s \o t, text \o more, calls \o others)
         /\ \A other : other # tag /\ Unnamed(s, other) => Unnamed(s \o t, other)
<1>1. IsSeq(s) /\ IsSeq(t) /\ \A e \in ToSet(t) : Sound(e)
  BY DEF Holds
<1>2. \A k \in DOMAIN t : t[k] \in ToSet(t)
  BY <1>1, IsSeqFacts
<1>3. \A k \in DOMAIN t : t[k].type # "Finished"
  BY <1>1, <1>2 DEF Sound, PlainEvent, StepItemTypes
<1>4. PushAll(Coll(s), t) = Coll(s \o t)
  BY <1>1, <1>3, PushBlock
<1>5. Holds(s \o t, text \o more, calls \o others)
  BY HoldsConcat
<1>6. ASSUME NEW other, other # tag, Unnamed(s, other) PROVE Unnamed(s \o t, other)
  <2> DEFINE u == s \o t
  <2>1. /\ Len(s) \in Nat /\ Len(t) \in Nat /\ DOMAIN s = 1 .. Len(s) /\ DOMAIN t = 1 .. Len(t)
        /\ DOMAIN u = 1 .. Len(s) + Len(t)
        /\ \A p \in 1 .. Len(s) : u[p] = s[p]
        /\ \A p \in 1 .. Len(t) : u[Len(s) + p] = t[p]
    BY <1>1, ConcatValues
  <2> HIDE DEF u
  <2>2. ASSUME NEW i \in DOMAIN u, IsDelta(u[i]) PROVE u[i].item[1] # other
    <3>1. CASE i \in 1 .. Len(s)
      BY <1>6, <2>1, <2>2, <3>1 DEF Unnamed
    <3>2. CASE i \notin 1 .. Len(s)
      <4> DEFINE k == i - Len(s)
      <4>1. k \in 1 .. Len(t) /\ i = Len(s) + k
        BY <2>1, <3>2
      <4> HIDE DEF k
      <4> QED BY <1>6, <2>1, <2>2, <4>1 DEF Named
    <3> QED BY <3>1, <3>2
  <2> QED BY <2>2 DEF Unnamed, u
<1> QED BY <1>4, <1>5, <1>6

LEMMA OthersAreNamed ==
  ASSUME NEW t, IsSeq(t), \A e \in ToSet(t) : PlainEvent(e) /\ ~IsDelta(e)
  PROVE  /\ Holds(t, << >>, << >>) /\ \A tag : Named(t, tag)
         /\ ~ \E k \in DOMAIN t : IsDelta(t[k])
<1>1. \A e \in ToSet(t) : PlainEvent(e) /\ e.type \notin {"Text", "Call"}
  BY DEF IsDelta
<1>2. Holds(t, << >>, << >>)
  BY <1>1, HoldsOthers
<1>3. \A k \in DOMAIN t : ~IsDelta(t[k])
  BY IsSeqFacts
<1> QED BY <1>2, <1>3 DEF Named

\* The last events of a step.
LEMMA EndTells ==
  ASSUME NEW r, NEW s, NEW calls, Holds(s, TextOf(r), calls), Same(calls, CallsSent(r)),
         NEW t, IsSeq(t), \A e \in ToSet(t) : PlainEvent(e) /\ ~IsDelta(e),
         NEW step, NEW kind, kind # Unfinished, IsSeq(TextOf(r))
  PROVE  Tells(PushAll(Coll(s), t \o LastTwo(step, kind)), r)
<1>1. IsSeq(s) /\ IsSeq(calls)
  BY DEF Holds, Same
<1>2. Holds(t, << >>, << >>) /\ Named(t, "none") /\ ~ \E k \in DOMAIN t : IsDelta(t[k])
  BY OthersAreNamed
<1>3. /\ PushAll(Coll(s), t) = Coll(s \o t)
      /\ Holds(s \o t, TextOf(r) \o << >>, calls \o << >>)
  BY <1>2, BlockHolds
<1>4. TextOf(r) \o << >> = TextOf(r) /\ calls \o << >> = calls
  BY <1>1, EmptyAtTheEnd
<1> DEFINE p == s \o t
           c == PushAll(Coll(s), t \o LastTwo(step, kind))
<1>5. IsSeq(p) /\ Holds(p, TextOf(r), calls)
  BY <1>1, <1>3, <1>4, ConcatIsSeq
<1>6. c = PushAll(Coll(p), LastTwo(step, kind))
  BY <1>1, <1>3, LastTwoIsSeq, PushAllConcat
<1> HIDE DEF p, c
<1>7. c = [slots |-> Append(p, Usage(step)), finished |-> kind, error |-> NoError]
  BY <1>5, <1>6, PushLastTwo
<1>8. Tells(c, r)
  BY <1>5, <1>7 DEF Tells
<1> QED BY <1>8 DEF c

LEMMA ClosingTells ==
  ASSUME NEW r, Whole(r), NEW s, NEW calls, Holds(s, TextOf(r), calls), Same(calls, CallsSent(r)),
         NEW step, NEW kind, kind # Unfinished
  PROVE  Tells(PushAll(Coll(s), Closing(step, r, kind)), r)
<1> DEFINE a == IF r.items = << >> THEN << >> ELSE <<Continuation(step)>>
           x == Of(r, "search")
           b == [k \in DOMAIN x |-> ServerToolUse(step)]
           t == a \o b
<1>1. IsSeq(a) /\ \A e \in ToSet(a) : PlainEvent(e) /\ ~IsDelta(e)
  <2>1. PlainEvent(Continuation(step)) /\ ~IsDelta(Continuation(step))
    BY WholeItemsPlain DEF Continuation, IsDelta
  <2> DEFINE e == Continuation(step)
  <2> HIDE DEF e
  <2>2. IsSeq(<<e>>) /\ ToSet(<<e>>) = {e}
    BY OneIsSeq
  <2> QED BY <2>1, <2>2, EmptyIsSeq DEF e
<1>2. IsSeq(b) /\ \A e \in ToSet(b) : PlainEvent(e) /\ ~IsDelta(e)
  <2>1. IsSeq(x)
    BY OfIsSeq DEF Whole
  <2>2. PlainEvent(ServerToolUse(step)) /\ ~IsDelta(ServerToolUse(step))
    BY WholeItemsPlain DEF ServerToolUse, IsDelta
  <2> DEFINE e == ServerToolUse(step)
  <2> HIDE DEF e, x
  <2>3. Len(x) \in Nat /\ DOMAIN x = 1 .. Len(x)
    BY <2>1, IsSeqFacts
  <2>4. b = [k \in 1 .. Len(x) |-> b[k]] /\ \A k \in 1 .. Len(x) : b[k] = e
    BY <2>3 DEF e
  <2> HIDE DEF b
  <2>5. IsSeq(b) /\ \A z \in ToSet(b) : \E k \in 1 .. Len(x) : z = b[k]
    BY <2>3, <2>4, FunctionIsSeq
  <2> QED BY <2>2, <2>4, <2>5 DEF e
<1>3. Closing(step, r, kind) = a \o b \o LastTwo(step, kind)
  BY DEF Closing, LastTwo
<1> HIDE DEF a, b
<1>4. IsSeq(t) /\ ToSet(t) = ToSet(a) \cup ToSet(b)
  BY <1>1, <1>2, ConcatIsSeq
<1>5. \A e \in ToSet(t) : PlainEvent(e) /\ ~IsDelta(e)
  BY <1>1, <1>2, <1>4
<1>6. IsSeq(TextOf(r))
  BY ResponseTells
<1> HIDE DEF t
<1>7. Tells(PushAll(Coll(s), t \o LastTwo(step, kind)), r)
  BY <1>4, <1>5, <1>6, EndTells
<1> QED BY <1>3, <1>7 DEF t

(***************************************************************************)
(* The blocks of a terminal event.                                         *)
(***************************************************************************)

LEMMA HoldsSeqs ==
  ASSUME NEW s, NEW text, NEW calls, Holds(s, text, calls)
  PROVE  IsSeq(s) /\ IsSeq(text) /\ IsSeq(calls)
<1>1. IsSeq(s)
  BY DEF Holds
<1>2. IsSeq(text) /\ IsSeq(calls)
  BY HoldsConcat
<1> QED BY <1>1, <1>2

LEMMA ThreeBlocks ==
  ASSUME NEW s, NEW text, NEW calls, Holds(s, text, calls),
         NEW T, NEW more, Holds(T, more, << >>), NEW tag, Named(T, tag), tag \notin {"tool", "reasoning"},
         (\E k \in DOMAIN T : IsDelta(T[k])) => Unnamed(s, tag),
         NEW C, NEW others, Holds(C, << >>, others), Named(C, "tool"),
         (\E k \in DOMAIN C : IsDelta(C[k])) => Unnamed(s, "tool"),
         NEW R, Holds(R, << >>, << >>), Named(R, "reasoning"),
         (\E k \in DOMAIN R : IsDelta(R[k])) => Unnamed(s, "reasoning")
  PROVE  /\ PushAll(Coll(s), T \o C \o R) = Coll(s \o T \o C \o R)
         /\ Holds(s \o T \o C \o R, text \o more, calls \o others)
         /\ IsSeq(T) /\ IsSeq(C) /\ IsSeq(R)
<1> DEFINE a == s \o T
           b == a \o C
<1>1. IsSeq(s) /\ IsSeq(T) /\ IsSeq(C) /\ IsSeq(R) /\ IsSeq(text) /\ IsSeq(more) /\ IsSeq(calls) /\ IsSeq(others)
  BY HoldsSeqs
<1>2. /\ PushAll(Coll(s), T) = Coll(a)
      /\ Holds(a, text \o more, calls \o << >>)
      /\ \A other : other # tag /\ Unnamed(s, other) => Unnamed(a, other)
  BY BlockHolds
<1>3. calls \o << >> = calls
  BY <1>1, EmptyAtTheEnd
<1>4. Holds(a, text \o more, calls)
  BY <1>2, <1>3
<1> HIDE DEF a
<1>5. (\E k \in DOMAIN C : IsDelta(C[k])) => Unnamed(a, "tool")
  BY <1>2
<1>6. /\ PushAll(Coll(a), C) = Coll(b)
      /\ Holds(b, (text \o more) \o << >>, calls \o others)
      /\ \A other : other # "tool" /\ Unnamed(a, other) => Unnamed(b, other)
  BY <1>4, <1>5, BlockHolds
<1>7. IsSeq(text \o more) /\ IsSeq(calls \o others)
  BY <1>1, ConcatIsSeq
<1>8. Holds(b, text \o more, calls \o others)
  BY <1>6, <1>7, EmptyAtTheEnd
<1> HIDE DEF b
<1>9. (\E k \in DOMAIN R : IsDelta(R[k])) => Unnamed(b, "reasoning")
  <2>1. "reasoning" # tag /\ "reasoning" # "tool"
    OBVIOUS
  <2> QED BY <1>2, <1>6, <2>1
<1>10. /\ PushAll(Coll(b), R) = Coll(b \o R)
       /\ Holds(b \o R, (text \o more) \o << >>, (calls \o others) \o << >>)
  BY <1>8, <1>9, BlockHolds
<1>11. Holds(b \o R, text \o more, calls \o others)
  BY <1>7, <1>10, EmptyAtTheEnd
<1>12. PushAll(Coll(s), T \o C \o R) = Coll(b \o R)
  <2>1. PushAll(Coll(s), T \o C) = Coll(b)
    <3>1. PushAll(Coll(s), T \o C) = PushAll(PushAll(Coll(s), T), C)
      BY <1>1, PushAllConcat
    <3> QED BY <1>2, <1>6, <3>1
  <2>2. IsSeq(T \o C)
    BY <1>1, ConcatIsSeq
  <2> DEFINE u == T \o C
  <2> HIDE DEF u
  <2>3. PushAll(Coll(s), u \o R) = PushAll(PushAll(Coll(s), u), R)
    BY <1>1, <2>2, PushAllConcat DEF u
  <2> QED BY <1>10, <2>1, <2>3 DEF u
<1> QED BY <1>1, <1>11, <1>12 DEF a, b

LEMMA TextBlock ==
  ASSUME NEW tag, NEW data, IsSeq(data), NEW none \in BOOLEAN
  PROVE  LET T == IF none THEN << >> ELSE <<TextDelta(<<tag, 0>>, data)>>
         IN /\ Holds(T, IF none THEN << >> ELSE data, << >>) /\ Named(T, tag)
            /\ none => ~ \E k \in DOMAIN T : IsDelta(T[k])
<1> DEFINE e == TextDelta(<<tag, 0>>, data)
<1>1. CASE none
  <2>1. Holds(<< >>, << >>, << >>)
    BY HoldsNothing
  <2> QED BY <1>1, <2>1 DEF Named
<1>2. CASE ~none
  <2>1. Sound(e) /\ TextPart(e) = data /\ CallPart(e) = << >> /\ e.item[1] = tag
    BY DeltasPlain DEF Sound, BadCall, TextPart, CallPart, TextDelta, Delta
  <2> HIDE DEF e
  <2>2. Holds(<<e>>, data, << >>)
    BY <2>1, HoldsOne
  <2>3. Named(<<e>>, tag)
    BY <2>1 DEF Named
  <2> QED BY <1>2, <2>2, <2>3 DEF e
<1> QED BY <1>1, <1>2

LEMMA CallIsSound ==
  ASSUME NEW item, NEW id, NEW name, name # NoName, NEW data, Parses(data), data # << >>
  PROVE  LET e == CallDelta(item, id, name, data)
         IN /\ Sound(e) /\ e.type = "Call" /\ e.item = item
            /\ [name |-> e.name, input |-> ItemOf(e).data] = [name |-> name, input |-> data]
            /\ TextPart(e) = << >> /\ CallPart(e) = <<[name |-> name, input |-> data]>>
<1> DEFINE e == CallDelta(item, id, name, data)
<1>1. /\ e.type = "Call" /\ e.item = item /\ e.name = name /\ e.data = data
      /\ {"name", "data"} \subseteq DOMAIN e
  BY DEF CallDelta
<1>2. PlainEvent(e)
  BY CallDeltaPlain
<1> HIDE DEF e
<1>3. ItemOf(e) = e
  BY <1>1 DEF ItemOf
<1>4. Sound(e)
  BY <1>1, <1>2 DEF Sound, BadCall
<1> QED BY <1>1, <1>3, <1>4 DEF TextPart, CallPart, e

LEMMA CallsBlock ==
  ASSUME NEW r, Whole(r), NEW x, IsSeq(x), \A k \in DOMAIN x : x[k] \in DOMAIN r.items,
         NEW C, C = [k \in DOMAIN x |-> C[k]],
         \A k \in DOMAIN x :
           \E id : C[k] = CallDelta(<<"tool", k>>, id, r.items[x[k]].tool, ArgumentsOf(r, x[k]))
  PROVE  Holds(C, << >>, [k \in DOMAIN x |-> CallSent(r, x[k])]) /\ Named(C, "tool")
<1> DEFINE n == Len(x)
<1>1. n \in Nat /\ DOMAIN x = 1 .. n
  BY IsSeqFacts
<1>2. ASSUME NEW k \in 1 .. n
      PROVE  /\ Sound(C[k]) /\ C[k].type = "Call" /\ C[k].item = <<"tool", k>>
             /\ [name |-> C[k].name, input |-> ItemOf(C[k]).data] = CallSent(r, x[k])
  <2>1. k \in DOMAIN x /\ x[k] \in DOMAIN r.items
    BY <1>1
  <2>2. PICK id : C[k] = CallDelta(<<"tool", k>>, id, r.items[x[k]].tool, ArgumentsOf(r, x[k]))
    BY <2>1
  <2>3. r.items[x[k]].tool # NoName
    BY <2>1 DEF Whole
  <2>4. Parses(ArgumentsOf(r, x[k])) /\ ArgumentsOf(r, x[k]) # << >>
    BY <2>1, DataFacts
  <2> DEFINE name == r.items[x[k]].tool
             data == ArgumentsOf(r, x[k])
             item == <<"tool", k>>
             e == C[k]
  <2>5. CallSent(r, x[k]) = [name |-> name, input |-> data]
    BY DEF CallSent
  <2> HIDE DEF name, data, item, e
  <2>6. /\ e = CallDelta(item, id, name, data) /\ name # NoName /\ Parses(data) /\ data # << >>
    BY <2>2, <2>3, <2>4 DEF name, data, item, e
  <2>7. /\ Sound(e) /\ e.type = "Call" /\ e.item = item
        /\ [name |-> e.name, input |-> ItemOf(e).data] = [name |-> name, input |-> data]
    BY <2>6, CallIsSound
  <2> QED BY <2>5, <2>7 DEF e, item
<1> HIDE DEF n
<1>3. C = [k \in 1 .. n |-> C[k]]
  BY <1>1
<1>4. Holds(C, << >>, [k \in 1 .. n |-> [name |-> C[k].name, input |-> ItemOf(C[k]).data]])
  BY <1>1, <1>2, <1>3, HoldsCalls
<1>5. [k \in 1 .. n |-> [name |-> C[k].name, input |-> ItemOf(C[k]).data]]
        = [k \in DOMAIN x |-> CallSent(r, x[k])]
  BY <1>1, <1>2
<1>6. Named(C, "tool")
  <2>1. DOMAIN C = 1 .. n
    BY <1>1
  <2>2. \A k \in 1 .. n : C[k].item = <<"tool", k>>
    BY <1>2
  <2>3. \A j, k : <<"tool", j>> = <<"tool", k>> => j = k
    OBVIOUS
  <2>4. \A k : <<"tool", k>>[1] = "tool"
    OBVIOUS
  <2> QED BY <2>1, <2>2, <2>3, <2>4 DEF Named
<1> QED BY <1>4, <1>5, <1>6

LEMMA LateReasoningBlock ==
  ASSUME NEW r, Whole(r)
  PROVE  Holds(LateReasoning(r), << >>, << >>) /\ Named(LateReasoning(r), "reasoning")
<1> DEFINE x == Of(r, "thought")
           f == LateReasoning(r)
<1>1. IsSeq(x)
  BY OfIsSeq DEF Whole
<1>2. f = [k \in DOMAIN x |-> ReasoningDelta(<<"reasoning", k>>, DataOf(r, x[k]))]
  BY DEF LateReasoning
<1> HIDE DEF f, x
<1>3. Len(x) \in Nat /\ DOMAIN x = 1 .. Len(x)
  BY <1>1, IsSeqFacts
<1>4. f = [k \in 1 .. Len(x) |-> f[k]]
      /\ \A k \in 1 .. Len(x) : f[k] = ReasoningDelta(<<"reasoning", k>>, DataOf(r, x[k]))
  BY <1>2, <1>3
<1>5. \A k \in 1 .. Len(x) : PlainEvent(f[k]) /\ f[k].type = "Reasoning" /\ f[k].item = <<"reasoning", k>>
  BY <1>4, DeltasPlain DEF ReasoningDelta, Delta
<1>6. IsSeq(f) /\ DOMAIN f = 1 .. Len(x) /\ \A e \in ToSet(f) : \E k \in 1 .. Len(x) : e = f[k]
  BY <1>3, <1>4, FunctionIsSeq
<1>7. \A e \in ToSet(f) : PlainEvent(e) /\ e.type \notin {"Text", "Call"}
  BY <1>5, <1>6
<1>8. Holds(f, << >>, << >>)
  BY <1>6, <1>7, HoldsOthers
<1>9. Named(f, "reasoning")
  <2>1. \A j, k : <<"reasoning", j>> = <<"reasoning", k>> => j = k
    OBVIOUS
  <2>2. \A k : <<"reasoning", k>>[1] = "reasoning"
    OBVIOUS
  <2> QED BY <1>5, <1>6, <2>1, <2>2 DEF Named
<1> QED BY <1>8, <1>9 DEF f

LEMMA NothingIsNamed ==
  ASSUME NEW tag
  PROVE  /\ Unnamed(<< >>, tag) /\ Named(<< >>, tag) /\ Holds(<< >>, << >>, << >>)
         /\ ~ \E k \in DOMAIN << >> : IsDelta(<< >>[k])
  BY HoldsNothing DEF Unnamed, Named

(***************************************************************************)
(* OpenAI-compatible servers.                                              *)
(***************************************************************************)

LEMMA CompatTells ==
  ASSUME NEW r, Whole(r), NEW d, NEW w, NEW step
  PROVE  /\ CompatEvent(d, w, step, r) = Over(d, CompatEvent(d, w, step, r).events)
         /\ Tells(PushAll(Coll(<< >>), CompatEvent(d, w, step, r).events), r)
<1> DEFINE x == Of(r, "call")
           text == TextOf(r)
           T == IF text = << >> THEN << >> ELSE <<TextDelta(<<"text", 0>>, text)>>
           C == [k \in DOMAIN x |-> CallDelta(<<"tool", k>>, <<step, x[k]>>, r.items[x[k]].tool,
                                              TerminalArguments(r, x[k]))]
           R == LateReasoning(r)
           K == IF R = << >> THEN << >> ELSE <<Continuation(step)>>
           kind == IF x = << >> THEN "Final" ELSE "ClientTools"
           none == << >>
<1>1. CompatEvent(d, w, step, r) = Over(d, T \o C \o R \o K \o LastTwo(step, kind))
  BY DEF CompatEvent, LastTwo
<1>2. IsSeq(x) /\ (\A k \in DOMAIN x : x[k] \in DOMAIN r.items) /\ IsResponse(r)
  <2>1. IsSeq(x) /\ ToSet(x) = Places(r, "call") /\ IsResponse(r)
    BY OfIsSeq DEF Whole
  <2> HIDE DEF x
  <2> QED BY <2>1, IsSeqFacts DEF Places
<1>3. /\ text = TextTo(r, Len(r.items)) /\ IsSeq(text) /\ IsSeq(CallsSent(r))
      /\ CallsSent(r) = [k \in DOMAIN x |-> CallSent(r, x[k])]
  BY ResponseTells DEF CallsSent, CallSent
<1> HIDE DEF text
<1>4. Holds(T, text, none) /\ Named(T, "text")
  <2> DEFINE b == text = << >>
  <2>1. b \in BOOLEAN /\ (IF b THEN << >> ELSE text) = text
    OBVIOUS
  <2>2. /\ Holds(IF b THEN << >> ELSE <<TextDelta(<<"text", 0>>, text)>>, IF b THEN << >> ELSE text, << >>)
        /\ Named(IF b THEN << >> ELSE <<TextDelta(<<"text", 0>>, text)>>, "text")
    <3> HIDE DEF b
    <3> QED BY <1>3, <2>1, TextBlock
  <2> QED BY <2>1, <2>2
<1>5. Holds(C, none, CallsSent(r)) /\ Named(C, "tool")
  <2>1. \A k \in DOMAIN x : TerminalArguments(r, x[k]) = ArgumentsOf(r, x[k])
    BY <1>2, DataFacts DEF TerminalArguments
  <2> HIDE DEF x
  <2>2. C = [k \in DOMAIN x |-> C[k]]
    OBVIOUS
  <2>3. \A k \in DOMAIN x :
           \E id : C[k] = CallDelta(<<"tool", k>>, id, r.items[x[k]].tool, ArgumentsOf(r, x[k]))
    <3> SUFFICES ASSUME NEW k \in DOMAIN x
                 PROVE \E id : C[k] = CallDelta(<<"tool", k>>, id, r.items[x[k]].tool, ArgumentsOf(r, x[k]))
      OBVIOUS
    <3>1. C[k] = CallDelta(<<"tool", k>>, <<step, x[k]>>, r.items[x[k]].tool, ArgumentsOf(r, x[k]))
      BY <2>1
    <3> QED BY <3>1
  <2> HIDE DEF C
  <2>4. Holds(C, << >>, [k \in DOMAIN x |-> CallSent(r, x[k])]) /\ Named(C, "tool")
    BY <1>2, <2>2, <2>3, CallsBlock
  <2> QED BY <1>3, <2>4
<1>6. Holds(R, none, none) /\ Named(R, "reasoning")
  BY LateReasoningBlock
<1>7. IsSeq(K) /\ \A e \in ToSet(K) : PlainEvent(e) /\ ~IsDelta(e)
  <2>1. PlainEvent(Continuation(step)) /\ ~IsDelta(Continuation(step))
    BY WholeItemsPlain DEF Continuation, IsDelta
  <2> DEFINE e == Continuation(step)
  <2> HIDE DEF e
  <2>2. IsSeq(<<e>>) /\ ToSet(<<e>>) = {e}
    BY OneIsSeq
  <2> QED BY <2>1, <2>2, EmptyIsSeq DEF e
<1>8. /\ \A tag : Unnamed(none, tag) /\ Holds(none, none, none)
      /\ none \o text = text /\ none \o CallsSent(r) = CallsSent(r)
      /\ IsSeq(none)
  <2>1. \A tag : Unnamed(none, tag) /\ Holds(none, none, none)
    BY NothingIsNamed
  <2>2. none \o text = text /\ none \o CallsSent(r) = CallsSent(r)
    BY <1>3 DEF IsSeq
  <2> QED BY <2>1, <2>2, EmptyIsSeq
<1>9. kind # Unfinished
  BY DEF Unfinished
<1> HIDE DEF T, C, R, K, kind, x, none
<1>10. /\ PushAll(Coll(none), T \o C \o R) = Coll(none \o T \o C \o R)
       /\ Holds(none \o T \o C \o R, none \o text, none \o CallsSent(r))
       /\ IsSeq(T) /\ IsSeq(C) /\ IsSeq(R)
  BY <1>4, <1>5, <1>6, <1>8, ThreeBlocks DEF none
<1> DEFINE u == T \o C \o R
           v == none \o T \o C \o R
           l == LastTwo(step, kind)
<1>11. IsSeq(u) /\ IsSeq(l)
  BY <1>10, ConcatIsSeq, LastTwoIsSeq
<1>12. PushAll(Coll(none), u) = Coll(v) /\ Holds(v, text, CallsSent(r))
  BY <1>8, <1>10
<1>13. u \o K \o l = u \o (K \o l)
  <2> HIDE DEF u, l
  <2> QED BY <1>7, <1>11, ConcatIsAssociative
<1> HIDE DEF u, v, l
<1>14. IsSeq(K \o l)
  BY <1>7, <1>11, ConcatIsSeq
<1>15. PushAll(Coll(none), u \o (K \o l)) = PushAll(Coll(v), K \o l)
  BY <1>11, <1>12, <1>14, PushAllConcat
<1>16. Tells(PushAll(Coll(v), K \o l), r)
  BY <1>3, <1>7, <1>9, <1>12, SameItself, EndTells DEF l, text
<1>17. Over(d, u \o K \o l).events = u \o K \o l
  BY DEF Over, Outcome
<1>18. CompatEvent(d, w, step, r) = Over(d, u \o K \o l)
  BY <1>1 DEF u, l
<1> QED BY <1>13, <1>15, <1>16, <1>17, <1>18 DEF none

(***************************************************************************)
(* An item that grows by fragments.                                        *)
(***************************************************************************)

\* All but one of the sequences are empty.
LEMMA FlattenSolo ==
  ASSUME NEW ss, IsSeq(ss), NEW i \in DOMAIN ss, IsSeq(ss[i]),
         \A j \in DOMAIN ss : j # i => ss[j] = << >>
  PROVE  FlattenSeq(ss) = ss[i]
<1> DEFINE N == Len(ss)
           x == ss[i]
           P == {n \in Nat : n <= N => FlattenSeq(Prefix(ss, n)) = IF n < i THEN << >> ELSE x}
<1>0. /\ N \in Nat /\ Prefix(ss, N) = ss /\ DOMAIN ss = 1 .. N /\ i \in 1 .. N
      /\ IsSeq(x) /\ IsSeq(<< >>) /\ \A j \in DOMAIN ss : IsSeq(ss[j])
  BY IsSeqFacts, PrefixWhole, EmptyIsSeq DEF IsSeq
<1> HIDE DEF x
<1>1. 0 \in P
  <2>1. Prefix(ss, 0) = << >>
    BY DEF Prefix
  <2> QED BY <1>0, <2>1, FlattenEmpty
<1>2. ASSUME NEW n \in P PROVE n + 1 \in P
  <2> SUFFICES ASSUME n + 1 <= N
               PROVE  FlattenSeq(Prefix(ss, n + 1)) = IF n + 1 < i THEN << >> ELSE x
    OBVIOUS
  <2>1. n \in Nat /\ n < Len(ss) /\ n + 1 \in DOMAIN ss
        /\ FlattenSeq(Prefix(ss, n)) = IF n < i THEN << >> ELSE x
    BY <1>0
  <2>2. FlattenSeq(Prefix(ss, n + 1)) = FlattenSeq(Prefix(ss, n)) \o ss[n + 1]
    BY <1>0, <2>1, FlattenGrows
  <2>3. << >> \o << >> = << >> /\ << >> \o x = x /\ x \o << >> = x
    BY <1>0, EmptyAtTheEnd DEF IsSeq
  <2>4. ss[n + 1] = IF n + 1 = i THEN x ELSE << >>
    BY <2>1 DEF x
  <2>5. CASE n + 1 < i
    <3>1. n < i /\ n + 1 # i
      BY <1>0, <2>1, <2>5
    <3> QED BY <2>1, <2>2, <2>3, <2>4, <2>5, <3>1
  <2>6. CASE n + 1 = i
    <3>1. n < i /\ ~(n + 1 < i)
      BY <1>0, <2>1, <2>6
    <3> QED BY <2>1, <2>2, <2>3, <2>4, <2>6, <3>1
  <2>7. CASE n + 1 > i
    <3>1. ~(n < i) /\ n + 1 # i /\ ~(n + 1 < i)
      BY <1>0, <2>1, <2>7
    <3> QED BY <2>1, <2>2, <2>3, <2>4, <3>1
  <2> QED BY <1>0, <2>1, <2>5, <2>6, <2>7
<1>3. P = Nat
  <2>1. P \in SUBSET Nat
    OBVIOUS
  <2> HIDE DEF P
  <2> QED BY <1>1, <1>2, <2>1, Induct
<1>4. FlattenSeq(Prefix(ss, N)) = IF N < i THEN << >> ELSE x
  BY <1>0, <1>3
<1> QED BY <1>0, <1>4 DEF x

LEMMA FlattenNothing ==
  ASSUME NEW ss, IsSeq(ss), \A j \in DOMAIN ss : ss[j] = << >>
  PROVE  FlattenSeq(ss) = << >>
<1>0. Len(ss) \in Nat /\ DOMAIN ss = 1 .. Len(ss)
  BY IsSeqFacts
<1>1. CASE Len(ss) = 0
  <2>1. ss = << >>
    BY <1>0, <1>1 DEF IsSeq
  <2> QED BY <2>1, FlattenEmpty
<1>2. CASE Len(ss) # 0
  <2>1. 1 \in DOMAIN ss /\ ss[1] = << >> /\ IsSeq(<< >>)
    BY <1>0, <1>2, EmptyIsSeq
  <2>2. FlattenSeq(ss) = ss[1]
    BY <2>1, FlattenSolo
  <2> QED BY <2>1, <2>2
<1> QED BY <1>1, <1>2

\* A delta with other data; and one that takes more of its kind.
With(b, x) == [b EXCEPT !.data = x]
Grows(b) ==
  /\ \A x : IsDelta(With(b, x)) /\ With(b, x).item = b.item
  /\ \A x, y : ~Inconsistent(With(b, x), With(b, y)) /\ Extend(With(b, x), With(b, y)) = With(b, x \o y)

LEMMA DeltasGrow ==
  ASSUME NEW item, NEW x
  PROVE  /\ Grows(TextDelta(item, << >>)) /\ With(TextDelta(item, << >>), x) = TextDelta(item, x)
         /\ TextDelta(item, << >>).item = item
         /\ Grows(ReasoningDelta(item, << >>)) /\ With(ReasoningDelta(item, << >>), x) = ReasoningDelta(item, x)
         /\ ReasoningDelta(item, << >>).item = item
<1>1. ASSUME NEW type \in {"Text", "Reasoning"}
      PROVE  /\ Grows(Delta(type, item, << >>)) /\ With(Delta(type, item, << >>), x) = Delta(type, item, x)
             /\ Delta(type, item, << >>).item = item
  <2>1. ASSUME NEW y
        PROVE  /\ With(Delta(type, item, << >>), y) = Delta(type, item, y)
               /\ Delta(type, item, y).item = item /\ Delta(type, item, y).type = type
               /\ Delta(type, item, y).data = y
    BY DEF With, Delta
  <2>2. ASSUME NEW y, NEW z
        PROVE  /\ ~Inconsistent(Delta(type, item, y), Delta(type, item, z))
               /\ Extend(Delta(type, item, y), Delta(type, item, z)) = Delta(type, item, y \o z)
    BY DEF Inconsistent, Extend, Delta
  <2> DEFINE b == Delta(type, item, << >>)
  <2>3. ASSUME NEW y PROVE With(b, y) = Delta(type, item, y)
    BY <2>1
  <2>4. b.item = item
    BY <2>1
  <2> HIDE DEF b
  <2>5. Grows(b)
    BY <2>1, <2>2, <2>3, <2>4 DEF Grows, IsDelta
  <2> QED BY <2>1, <2>4, <2>5 DEF b
<1> QED BY <1>1 DEF TextDelta, ReasoningDelta

LEMMA CallGrows ==
  ASSUME NEW item, NEW id, NEW name, name # NoName, NEW x
  PROVE  /\ Grows(CallDelta(item, id, name, << >>))
         /\ With(CallDelta(item, id, name, << >>), x) = CallDelta(item, id, name, x)
         /\ CallDelta(item, id, name, << >>).item = item
<1> DEFINE b == CallDelta(item, id, name, << >>)
           c(y) == CallDelta(item, id, name, y)
<1>1. ASSUME NEW y
      PROVE  /\ With(b, y) = c(y) /\ c(y).item = item /\ c(y).type = "Call" /\ c(y).name = name
             /\ c(y).data = y
  BY DEF With, CallDelta
<1>2. ASSUME NEW y, NEW z
      PROVE  ~Inconsistent(c(y), c(z)) /\ Extend(c(y), c(z)) = c(y \o z)
  BY DEF Inconsistent, Extend, CallDelta
<1>3. b.item = item
  BY <1>1
<1> HIDE DEF b, c
<1>4. Grows(b)
  BY <1>1, <1>2, <1>3 DEF Grows, IsDelta
<1> QED BY <1>1, <1>3, <1>4 DEF b, c

\* The decoder makes a delta of each event, with a fragment each.
Growing(at, b, f, wire, D) ==
  /\ IsSeq(f) /\ (\A k \in 1 .. Len(f) : IsSeq(f[k])) /\ IsSeq(wire) /\ Len(wire) = Len(f)
  /\ \A k \in 1 .. Len(f) : Decode(at.provider, D[k - 1], wire[k], at.step, at.response)
                                = Outcome(D[k], <<With(b, f[k])>>)

\* The collector's slots when they have been pushed.
GrownBy(s, b, f) == IF Len(f) = 0 THEN s ELSE Append(s, With(b, FlattenSeq(f)))

\* The decoder before the fragments, and after them.
Origin(D) == D[0]
Finally(D, f) == D[Len(f)]

LEMMA Grown ==
  ASSUME NEW at, NEW s, IsSeq(s), NEW b, Grows(b), Fresh(s, b.item),
         NEW f, NEW wire, NEW D, Growing(at, b, f, wire, D)
  PROVE  Consume(at, Going(Origin(D), Coll(s)), wire) = Going(Finally(D, f), Coll(GrownBy(s, b, f)))
<1> DEFINE N == Len(f)
           q == Going(D[0], Coll(s))
           slots(m) == IF m = 0 THEN s ELSE Append(s, With(b, FlattenSeq(Prefix(f, m))))
           P == {m \in Nat : m <= N => Consume(at, q, Prefix(wire, m)) = Going(D[m], Coll(slots(m)))}
<1>0. /\ N \in Nat /\ Prefix(f, N) = f /\ Prefix(wire, N) = wire /\ DOMAIN f = 1 .. N
      /\ Len(s) \in Nat /\ DOMAIN s = 1 .. Len(s)
  <2>1. IsSeq(f) /\ IsSeq(wire) /\ Len(wire) = Len(f)
    BY DEF Growing
  <2> QED BY <2>1, IsSeqFacts, PrefixWhole DEF IsSeq
<1>a. IsSeq(f) /\ (\A k \in 1 .. Len(f) : IsSeq(f[k])) /\ IsSeq(wire) /\ Len(wire) = Len(f)
  BY DEF Growing
<1>b. \A k \in 1 .. Len(f) : Decode(at.provider, D[k - 1], wire[k], at.step, at.response)
                                = Outcome(D[k], <<With(b, f[k])>>)
  BY DEF Growing
<1>1. 0 \in P
  <2>1. Prefix(wire, 0) = << >>
    BY DEF Prefix
  <2>2. slots(0) = s
    OBVIOUS
  <2> HIDE DEF slots
  <2> QED BY <2>1, <2>2, ConsumeNone
<1>2. ASSUME NEW m \in P PROVE m + 1 \in P
  <2> SUFFICES ASSUME m + 1 <= N
               PROVE  Consume(at, q, Prefix(wire, m + 1)) = Going(D[m + 1], Coll(slots(m + 1)))
    OBVIOUS
  <2> DEFINE k == m + 1
             p == Prefix(wire, m)
             e == With(b, f[k])
             x == FlattenSeq(Prefix(f, m))
             y == FlattenSeq(Prefix(f, k))
             t == slots(m)
             a == With(b, x)
  <2>1. m \in Nat /\ k \in 1 .. N /\ k - 1 = m /\ m < Len(f) /\ Consume(at, q, p) = Going(D[m], Coll(t))
    BY <1>0
  <2>2. Prefix(wire, k) = Append(p, wire[k]) /\ IsSeq(p)
    BY <2>1, PrefixGrows
  <2>3. IsSeq(x) /\ y = x \o f[k]
    BY <1>0, <1>a, <2>1, FlattenGrows
  <2>4. Decode(at.provider, D[m], wire[k], at.step, at.response) = Outcome(D[k], <<e>>)
    BY <1>b, <2>1
  <2>5. IsDelta(e) /\ e.item = b.item /\ e.type # "Finished" /\ IsDelta(a) /\ a.item = b.item
        /\ ~Inconsistent(a, e) /\ Extend(a, e) = With(b, y)
    <3>1. IsDelta(e) /\ e.item = b.item /\ IsDelta(a) /\ a.item = b.item
      BY DEF Grows
    <3>2. ~Inconsistent(a, e) /\ Extend(a, e) = With(b, x \o f[k])
      BY DEF Grows
    <3> QED BY <2>3, <3>1, <3>2 DEF IsDelta
  <2>6. t = IF m = 0 THEN s ELSE Append(s, a)
    OBVIOUS
  <2>7. slots(k) = Append(s, With(b, y))
    BY <2>1
  <2>8. m = 0 => y = f[k] /\ With(b, y) = e
    <3> SUFFICES ASSUME m = 0 PROVE y = f[k]
      OBVIOUS
    <3>1. x = << >>
      <4>1. Prefix(f, 0) = << >>
        BY DEF Prefix
      <4> QED BY <4>1, FlattenEmpty
    <3>2. IsSeq(f[k])
      BY <1>a, <2>1
    <3>3. << >> \o f[k] = f[k]
      BY <3>2 DEF IsSeq
    <3> QED BY <2>3, <3>1, <3>3
  <2> HIDE DEF e, x, y, a, t, slots, p, k, q
  <2>9. Pushed(Coll(t), e) = Coll(slots(k))
    <3>1. CASE m = 0
      <4>1. Pushed(Coll(s), e) = Coll(Append(s, e))
        BY <2>5, PushNew
      <4> QED BY <2>6, <2>7, <2>8, <3>1, <4>1
    <3>2. CASE m # 0
      <4> DEFINE i == Len(s) + 1
      <4>1. t = Append(s, a)
        BY <2>6, <3>2
      <4>2. /\ IsSeq(t) /\ Len(t) = i /\ t[i] = a /\ \A j \in 1 .. Len(s) : t[j] = s[j]
        <5>1. /\ IsSeq(Append(s, a)) /\ Len(Append(s, a)) = Len(s) + 1 /\ Append(s, a)[Len(s) + 1] = a
              /\ \A j \in 1 .. Len(s) : Append(s, a)[j] = s[j]
          BY AppendIsSeq, ZenonT(30)
        <5> QED BY <4>1, <5>1
      <4>3. DOMAIN t = 1 .. i
        BY <4>2, IsSeqFacts
      <4>4. \A j \in DOMAIN t : IsDelta(t[j]) /\ t[j].item = e.item => j = i
        <5> SUFFICES ASSUME NEW j \in DOMAIN t, IsDelta(t[j]), t[j].item = e.item, j # i PROVE FALSE
          OBVIOUS
        <5>1. j \in 1 .. Len(s)
          BY <1>0, <4>3
        <5>2. t[j] = s[j]
          BY <4>2, <5>1
        <5> QED BY <1>0, <2>5, <5>1, <5>2 DEF Fresh
      <4>5. i \in DOMAIN t
        BY <1>0, <4>3
      <4> HIDE DEF i
      <4>6. Pushed(Coll(t), e) = Coll([t EXCEPT ![i] = Extend(@, e)])
        <5>1. IsDelta(t[i]) /\ e.item = t[i].item /\ ~Inconsistent(t[i], e) /\ IsSeq(t) /\ IsDelta(e)
          <6>1. t[i] = a
            BY <4>2
          <6> QED BY <2>5, <4>2, <6>1
        <5> QED BY <4>4, <4>5, <5>1, PushMore
      <4>7. [t EXCEPT ![i] = Extend(@, e)] = Append(s, With(b, y))
        <5>1. [t EXCEPT ![i] = Extend(@, e)] = [j \in 1 .. i |-> IF j = i THEN With(b, y) ELSE s[j]]
          <6>1. t = [j \in 1 .. i |-> t[j]]
            <7>1. IsSeq(t) /\ DOMAIN t = 1 .. i
              BY <4>2, <4>3
            <7> QED BY <7>1 DEF IsSeq
          <6>2. \A j \in 1 .. i : j # i => t[j] = s[j]
            BY <1>0, <4>2 DEF i
          <6> QED BY <2>5, <4>2, <4>3, <6>1, <6>2
        <5>2. Append(s, With(b, y)) = [j \in 1 .. Len(s) + 1 |-> IF j = Len(s) + 1 THEN With(b, y) ELSE s[j]]
          BY AppendValues
        <5> QED BY <5>1, <5>2 DEF i
      <4> QED BY <2>7, <4>6, <4>7
    <3> QED BY <3>1, <3>2
  <2>10. Consume(at, q, Append(p, wire[k])) = Taken(at, Going(D[m], Coll(t)), wire[k])
    BY <2>1, <2>2, ConsumeAppend
  <2>11. Taken(at, Going(D[m], Coll(t)), wire[k]) = Going(D[k], PushAll(Coll(t), <<e>>))
    BY <2>4, TakenGoing
  <2>12. PushAll(Coll(t), <<e>>) = Pushed(Coll(t), e)
    BY PushAllOne
  <2>13. Consume(at, q, Prefix(wire, k)) = Going(D[k], Coll(slots(k)))
    BY <2>2, <2>9, <2>10, <2>11, <2>12
  <2> QED BY <2>13 DEF k
<1>3. P = Nat
  <2>1. P \in SUBSET Nat
    OBVIOUS
  <2> HIDE DEF P
  <2> QED BY <1>1, <1>2, <2>1, Induct
<1>4. Consume(at, q, Prefix(wire, N)) = Going(D[N], Coll(slots(N)))
  BY <1>0, <1>3
<1>5. slots(N) = GrownBy(s, b, f)
  BY <1>0 DEF GrownBy
<1>6. D[0] = Origin(D) /\ D[N] = Finally(D, f)
  BY DEF Origin, Finally
<1> HIDE DEF slots, N
<1> QED BY <1>0, <1>4, <1>5, <1>6

(***************************************************************************)
(* The names of the items of a response.                                   *)
(***************************************************************************)

\* Deltas are named for the first n items, with one of these tags.
Kept(s, tags, n) ==
  \A k \in DOMAIN s : IsDelta(s[k]) => \E tag \in tags, j \in 1 .. n : s[k].item = <<tag, j>>

LEMMA KeptNone == ASSUME NEW tags PROVE Kept(<< >>, tags, 0)
  BY DEF Kept

LEMMA KeptNames ==
  ASSUME NEW s, NEW tags, NEW n \in Nat, Kept(s, tags, n)
  PROVE  /\ Kept(s, tags, n + 1)
         /\ \A tag : Fresh(s, <<tag, n + 1>>)
         /\ \A other : other \notin tags => Unnamed(s, other)
<1>1. \A j \in 1 .. n : j \in 1 .. n + 1 /\ j # n + 1
  OBVIOUS
<1>2. Kept(s, tags, n + 1)
  BY <1>1 DEF Kept
<1>3. \A tag, other, j, k : <<tag, j>>[1] = tag /\ (<<tag, j>> = <<other, k>> => j = k)
  OBVIOUS
<1> QED BY <1>1, <1>2, <1>3 DEF Kept, Fresh, Unnamed

LEMMA KeptAppend ==
  ASSUME NEW s, IsSeq(s), NEW tags, NEW n \in Nat, Kept(s, tags, n), NEW e,
         IsDelta(e) => \E tag \in tags : e.item = <<tag, n + 1>>
  PROVE  Kept(Append(s, e), tags, n + 1)
<1> DEFINE t == Append(s, e)
           m == Len(s)
<1>1. /\ IsSeq(t) /\ Len(t) = m + 1 /\ t[m + 1] = e /\ \A j \in 1 .. m : t[j] = s[j]
      /\ m \in Nat /\ DOMAIN s = 1 .. m
  BY AppendIsSeq, IsSeqFacts, ZenonT(30)
<1>2. DOMAIN t = 1 .. m + 1
  BY <1>1, IsSeqFacts
<1> HIDE DEF t, m
<1>3. ASSUME NEW k \in DOMAIN t, IsDelta(t[k])
      PROVE  \E tag \in tags, j \in 1 .. n + 1 : t[k].item = <<tag, j>>
  <2>1. CASE k = m + 1
    <3>1. n + 1 \in 1 .. n + 1 /\ t[k] = e
      BY <1>1, <2>1
    <3> QED BY <1>3, <3>1
  <2>2. CASE k # m + 1
    <3>1. k \in DOMAIN s /\ t[k] = s[k]
      BY <1>1, <1>2, <2>2
    <3>2. Kept(s, tags, n + 1)
      BY KeptNames
    <3> QED BY <1>3, <3>1, <3>2 DEF Kept
  <2> QED BY <2>1, <2>2
<1> QED BY <1>3 DEF Kept, t

\* One item more.
LEMMA ItemTold ==
  ASSUME NEW s, NEW text, NEW calls, Holds(s, text, calls), NEW tags, NEW n \in Nat, Kept(s, tags, n),
         NEW e, Sound(e), NEW tag \in tags, e.item = <<tag, n + 1>>
  PROVE  /\ Holds(Append(s, e), text \o TextPart(e), calls \o CallPart(e))
         /\ Kept(Append(s, e), tags, n + 1)
<1>1. IsSeq(s)
  BY HoldsSeqs
<1>2. Kept(Append(s, e), tags, n + 1)
  BY <1>1, KeptAppend
<1> QED BY <1>2, HoldsAppend

\* One item whose fragments come one by one.
\* What is known of the slots before an item: b is its delta, without data.
ItemReady(r, n, s, text, calls, tags, b, e) ==
  /\ Whole(r) /\ n \in Nat /\ n + 1 \in DOMAIN r.items
  /\ Holds(s, text, calls) /\ Kept(s, tags, n)
  /\ Grows(b) /\ \E tag \in tags : b.item = <<tag, n + 1>>
  /\ e = With(b, DataOf(r, n + 1)) /\ (r.items[n + 1].size > 0 => Sound(e))

LEMMA ItemGrown ==
  ASSUME NEW r, NEW n, NEW s, NEW text, NEW calls, NEW tags, NEW b, NEW e,
         ItemReady(r, n, s, text, calls, tags, b, e),
         NEW wire, NEW D, NEW at, Growing(at, b, Fragments(r, n + 1, FALSE), wire, D)
  PROVE  LET f == Fragments(r, n + 1, FALSE)
             t == GrownBy(s, b, f)
         IN /\ Consume(at, Going(Origin(D), Coll(s)), wire) = Going(Finally(D, f), Coll(t))
            /\ Kept(t, tags, n + 1)
            /\ r.items[n + 1].size = 0 => Len(f) = 0 /\ t = s
            /\ r.items[n + 1].size > 0 =>
                 Len(f) > 0 /\ Holds(t, text \o TextPart(e), calls \o CallPart(e))
<1>0. /\ Whole(r) /\ n \in Nat /\ n + 1 \in DOMAIN r.items
      /\ Holds(s, text, calls) /\ Kept(s, tags, n) /\ Grows(b)
      /\ e = With(b, DataOf(r, n + 1)) /\ (r.items[n + 1].size > 0 => Sound(e))
  BY DEF ItemReady
<1> USE <1>0
<1>00. PICK tag \in tags : b.item = <<tag, n + 1>>
  BY DEF ItemReady
<1> USE <1>00
<1> DEFINE size == r.items[n + 1].size
           f == Fragments(r, n + 1, FALSE)
<1>1. FlattenSeq(f) = DataOf(r, n + 1) /\ Len(f) \in Nat /\ (Len(f) = 0 <=> size = 0)
  BY FragmentsFlatten
<1>2. size \in Nat
  BY DataFacts
<1>3. IsSeq(s) /\ Fresh(s, b.item)
  <2>1. Fresh(s, <<tag, n + 1>>)
    BY KeptNames
  <2> QED BY <2>1, HoldsSeqs
<1> DEFINE t == GrownBy(s, b, f)
<1>4. Consume(at, Going(Origin(D), Coll(s)), wire) = Going(Finally(D, f), Coll(t))
  <2>1. Growing(at, b, f, wire, D) /\ IsSeq(s) /\ Fresh(s, b.item)
    BY <1>3
  <2> HIDE DEF f
  <2> QED BY <2>1, Grown
<1> HIDE DEF f, size
<1>5. size = 0 => Len(f) = 0 /\ t = s /\ Kept(t, tags, n + 1)
  <2>1. Kept(s, tags, n + 1)
    BY KeptNames
  <2> QED BY <1>1, <2>1 DEF GrownBy
<1>6. size > 0 => /\ Len(f) > 0 /\ Kept(t, tags, n + 1)
                  /\ Holds(t, text \o TextPart(e), calls \o CallPart(e))
  <2> SUFFICES ASSUME size > 0
               PROVE  /\ Len(f) > 0 /\ Kept(t, tags, n + 1)
                      /\ Holds(t, text \o TextPart(e), calls \o CallPart(e))
    OBVIOUS
  <2>1. Len(f) > 0 /\ Len(f) # 0
    BY <1>1, <1>2
  <2>2. With(b, FlattenSeq(f)) = e
    BY <1>1
  <2>3. t = Append(s, e)
    BY <2>1, <2>2 DEF GrownBy
  <2>4. Sound(e)
    BY DEF size
  <2>5. e.item = <<tag, n + 1>>
    <3>1. With(b, DataOf(r, n + 1)).item = b.item
      BY DEF Grows
    <3> QED BY <3>1
  <2> DEFINE u == Append(s, e)
  <2>6. Holds(u, text \o TextPart(e), calls \o CallPart(e)) /\ Kept(u, tags, n + 1)
    BY <2>4, <2>5, ItemTold
  <2> HIDE DEF u, t
  <2>7. t = u
    BY <2>3 DEF u
  <2> QED BY <2>1, <2>6, <2>7
<1>7. Kept(t, tags, n + 1)
  BY <1>2, <1>5, <1>6
<1> HIDE DEF t
<1> QED BY <1>4, <1>5, <1>6, <1>7 DEF f, size, t

\* Item by item.
LEMMA ConsumeItem ==
  ASSUME NEW at, NEW q, NEW ss, IsSeq(ss), \A i \in DOMAIN ss : IsSeq(ss[i]), NEW n \in Nat, n < Len(ss)
  PROVE  Consume(at, q, FlattenSeq(Prefix(ss, n + 1)))
           = Consume(at, Consume(at, q, FlattenSeq(Prefix(ss, n))), ss[n + 1])
<1>1. /\ IsSeq(FlattenSeq(Prefix(ss, n)))
      /\ FlattenSeq(Prefix(ss, n + 1)) = FlattenSeq(Prefix(ss, n)) \o ss[n + 1]
  BY FlattenGrows
<1>2. n + 1 \in DOMAIN ss /\ IsSeq(ss[n + 1])
  <2>1. Len(ss) \in Nat /\ DOMAIN ss = 1 .. Len(ss)
    BY IsSeqFacts
  <2> QED BY <2>1
<1> DEFINE a == FlattenSeq(Prefix(ss, n))
           b == ss[n + 1]
<1> HIDE DEF a, b
<1>3. IsSeq(a) /\ IsSeq(b)
  BY <1>1, <1>2 DEF a, b
<1>4. Consume(at, q, a \o b) = Consume(at, Consume(at, q, a), b)
  BY <1>3, ConsumeConcat
<1> QED BY <1>1, <1>4 DEF a, b

\* The fragments of an item, an event each.
LEMMA WireOfFragments ==
  ASSUME NEW r, Whole(r), NEW i \in DOMAIN r.items, NEW f, f = Fragments(r, i, FALSE),
         NEW wire, wire = [k \in DOMAIN f |-> wire[k]]
  PROVE  IsSeq(wire) /\ Len(wire) = Len(f) /\ Len(f) \in Nat /\ DOMAIN f = 1 .. Len(f)
<1>1. IsSeq(f)
  BY FragmentsIsSeq DEF Whole
<1>2. Len(f) \in Nat /\ DOMAIN f = 1 .. Len(f)
  BY <1>1, IsSeqFacts
<1>3. wire = [k \in 1 .. Len(f) |-> wire[k]]
  BY <1>2
<1>4. IsSeq(wire) /\ Len(wire) = Len(f)
  BY <1>2, <1>3, FunctionIsSeq
<1> QED BY <1>2, <1>4

LEMMA SoundDeltas ==
  ASSUME NEW item, NEW data, IsSeq(data)
  PROVE  /\ Sound(TextDelta(item, data)) /\ TextPart(TextDelta(item, data)) = data
         /\ CallPart(TextDelta(item, data)) = << >>
         /\ Sound(ReasoningDelta(item, data)) /\ TextPart(ReasoningDelta(item, data)) = << >>
         /\ CallPart(ReasoningDelta(item, data)) = << >>
<1> DEFINE e == TextDelta(item, data)
           g == ReasoningDelta(item, data)
<1>1. e.type = "Text" /\ e.data = data /\ g.type = "Reasoning" /\ PlainEvent(e) /\ PlainEvent(g)
  BY DeltasPlain DEF TextDelta, ReasoningDelta, Delta
<1> HIDE DEF e, g
<1>2. Sound(e) /\ TextPart(e) = data /\ CallPart(e) = << >>
  BY <1>1 DEF Sound, BadCall, TextPart, CallPart
<1>3. Sound(g) /\ TextPart(g) = << >> /\ CallPart(g) = << >>
  BY <1>1 DEF Sound, BadCall, TextPart, CallPart
<1> QED BY <1>2, <1>3 DEF e, g

(***************************************************************************)
(* OpenAI.                                                                 *)
(***************************************************************************)

\* A flag that is set.
Heard == TRUE

\* The decoder's state; the items that have data; the calls told so far.
OpenAi(t, g, c, S) == [text |-> t, reasoning |-> g, calls |-> c, streamed |-> S]
Told(r) == {i \in DOMAIN r.items : r.items[i].size > 0}
CallsTold(r, n) == {i \in 1 .. n : r.items[i].type = "call" /\ r.items[i].size > 0}

LEMMA OpenAiChanges ==
  ASSUME NEW t, NEW g, NEW c, NEW S, NEW x
  PROVE  [OpenAi(t, g, c, S) EXCEPT !.text = x] = OpenAi(x, g, c, S)
  BY DEF OpenAi
LEMMA OpenAiThinks ==
  ASSUME NEW t, NEW g, NEW c, NEW S, NEW x
  PROVE  [OpenAi(t, g, c, S) EXCEPT !.reasoning = x] = OpenAi(t, x, c, S)
  BY DEF OpenAi

LEMMA DecodeOfOpenAi ==
  ASSUME NEW d, NEW w, NEW step, NEW r
  PROVE  Decode("openai", d, w, step, r) = OpenAiEvent(d, w, step, r)
  BY DEF Decode

LEMMA OpenAiText ==
  ASSUME NEW t, NEW g, NEW c, NEW S, NEW i, NEW x, NEW step, NEW r
  PROVE  Decode("openai", OpenAi(t, g, c, S), [type |-> "textDelta", at |-> i, data |-> x], step, r)
           = Outcome(OpenAi(Heard, g, c, S), <<TextDelta(<<"item", i>>, x)>>)
<1> DEFINE d == OpenAi(t, g, c, S)
<1>1. \A y : [d EXCEPT !.text = y] = OpenAi(y, g, c, S)
  <2> SUFFICES ASSUME NEW y PROVE [d EXCEPT !.text = y] = OpenAi(y, g, c, S)
    OBVIOUS
  <2> QED BY OpenAiChanges
<1> HIDE DEF d
<1>2. [d EXCEPT !.text = TRUE] = OpenAi(Heard, g, c, S)
  BY <1>1, Zenon DEF Heard
<1>3. OpenAiEvent(d, [type |-> "textDelta", at |-> i, data |-> x], step, r)
        = Outcome(OpenAi(Heard, g, c, S), <<TextDelta(<<"item", i>>, x)>>)
  BY <1>2 DEF OpenAiEvent
<1>4. Decode("openai", d, [type |-> "textDelta", at |-> i, data |-> x], step, r)
        = OpenAiEvent(d, [type |-> "textDelta", at |-> i, data |-> x], step, r)
  BY DecodeOfOpenAi
<1> QED BY <1>3, <1>4 DEF d

LEMMA OpenAiThought ==
  ASSUME NEW t, NEW g, NEW c, NEW S, NEW i, NEW x, NEW step, NEW r
  PROVE  Decode("openai", OpenAi(t, g, c, S), [type |-> "reasoningDelta", at |-> i, data |-> x], step, r)
           = Outcome(OpenAi(t, Heard, c, S), <<ReasoningDelta(<<"item", i>>, x)>>)
<1> DEFINE d == OpenAi(t, g, c, S)
<1>1. \A y : [d EXCEPT !.reasoning = y] = OpenAi(t, y, c, S)
  <2> SUFFICES ASSUME NEW y PROVE [d EXCEPT !.reasoning = y] = OpenAi(t, y, c, S)
    OBVIOUS
  <2> QED BY OpenAiThinks
<1> HIDE DEF d
<1>2. [d EXCEPT !.reasoning = TRUE] = OpenAi(t, Heard, c, S)
  BY <1>1, Zenon DEF Heard
<1>3. OpenAiEvent(d, [type |-> "reasoningDelta", at |-> i, data |-> x], step, r)
        = Outcome(OpenAi(t, Heard, c, S), <<ReasoningDelta(<<"item", i>>, x)>>)
  BY <1>2 DEF OpenAiEvent
<1>4. Decode("openai", d, [type |-> "reasoningDelta", at |-> i, data |-> x], step, r)
        = OpenAiEvent(d, [type |-> "reasoningDelta", at |-> i, data |-> x], step, r)
  BY DecodeOfOpenAi
<1> QED BY <1>3, <1>4 DEF d

LEMMA OpenAiAdded ==
  ASSUME NEW t, NEW g, NEW c, NEW S, NEW i, NEW step, NEW r
  PROVE  Decode("openai", OpenAi(t, g, c, S), [type |-> "itemAdded", at |-> i], step, r)
           = Outcome(OpenAi(t, g, c \cup {i}, S), << >>)
<1> DEFINE d == OpenAi(t, g, c, S)
<1>1. [d EXCEPT !.calls = @ \cup {i}] = OpenAi(t, g, c \cup {i}, S)
  BY DEF OpenAi
<1> HIDE DEF d
<1>2. OpenAiEvent(d, [type |-> "itemAdded", at |-> i], step, r) = Outcome(OpenAi(t, g, c \cup {i}, S), << >>)
  BY <1>1 DEF OpenAiEvent
<1>3. Decode("openai", d, [type |-> "itemAdded", at |-> i], step, r)
        = OpenAiEvent(d, [type |-> "itemAdded", at |-> i], step, r)
  BY DecodeOfOpenAi
<1> QED BY <1>2, <1>3 DEF d

LEMMA OpenAiArguments ==
  ASSUME NEW t, NEW g, NEW c, NEW S, NEW i \in c, NEW x, NEW step, NEW r
  PROVE  Decode("openai", OpenAi(t, g, c, S), [type |-> "argumentsDelta", at |-> i, data |-> x], step, r)
           = Outcome(OpenAi(t, g, c, S \cup {i}),
                     <<CallDelta(<<"item", i>>, <<step, i>>, r.items[i].tool, x)>>)
<1> DEFINE d == OpenAi(t, g, c, S)
<1>1. [d EXCEPT !.streamed = @ \cup {i}] = OpenAi(t, g, c, S \cup {i})
  BY DEF OpenAi
<1>2. d.calls = c
  BY DEF OpenAi
<1> HIDE DEF d
<1>3. OpenAiEvent(d, [type |-> "argumentsDelta", at |-> i, data |-> x], step, r)
        = Outcome(OpenAi(t, g, c, S \cup {i}),
                  <<CallDelta(<<"item", i>>, <<step, i>>, r.items[i].tool, x)>>)
  BY <1>1, <1>2 DEF OpenAiEvent
<1>4. Decode("openai", d, [type |-> "argumentsDelta", at |-> i, data |-> x], step, r)
        = OpenAiEvent(d, [type |-> "argumentsDelta", at |-> i, data |-> x], step, r)
  BY DecodeOfOpenAi
<1> QED BY <1>3, <1>4 DEF d

LEMMA ClosingIsSeq ==
  ASSUME NEW r, IsResponse(r), NEW step, NEW kind
  PROVE  IsSeq(Closing(step, r, kind))
<1> DEFINE a == IF r.items = << >> THEN << >> ELSE <<Continuation(step)>>
           b == [k \in DOMAIN Of(r, "search") |-> ServerToolUse(step)]
           l == LastTwo(step, kind)
<1>1. Closing(step, r, kind) = a \o b \o l
  BY DEF Closing, LastTwo
<1>2. IsSeq(b)
  BY ServerToolUsesPlain, OfIsSeq DEF Plain
<1>3. IsSeq(a) /\ IsSeq(l)
  <2>1. IsSeq(<<Continuation(step)>>)
    BY OneIsSeq
  <2> QED BY <2>1, EmptyIsSeq, LastTwoIsSeq
<1> HIDE DEF a, b, l
<1>4. IsSeq(a \o b)
  BY <1>2, <1>3, ConcatIsSeq
<1> QED BY <1>1, <1>3, <1>4, ConcatIsSeq

LEMMA EmptyAtTheStart == ASSUME NEW s, IsSeq(s) PROVE << >> \o s = s
  BY DEF IsSeq

\* The calls that were not streamed, in their order.
LEMMA LateCalls ==
  ASSUME NEW r, Whole(r), NEW U, NEW S, \A i \in Places(r, "call") : i \in S <=> i \in U
  PROVE  LET late == Within(Of(r, "call"), Places(r, "call") \ S)
         IN /\ IsSeq(late) /\ \A k \in DOMAIN late : late[k] \in DOMAIN r.items
            /\ [k \in DOMAIN late |-> CallSent(r, late[k])] = OutTo(r, U, Len(r.items))
<1> DEFINE x == Of(r, "call")
           late == Within(x, Places(r, "call") \ S)
           N == Len(r.items)
           out == OutTo(r, U, N)
<1>3. IsResponse(r) /\ N \in Nat /\ DOMAIN r.items = 1 .. N
  BY ItemsOf DEF Whole
<1>4. IsSeq(x) /\ ToSet(x) = Places(r, "call")
  BY <1>3, OfIsSeq
<1>5. IsSeq(late) /\ \A k \in DOMAIN late : late[k] \in DOMAIN r.items
  <2>1. IsSeq(late) /\ ToSet(late) = ToSet(x) \cap (Places(r, "call") \ S)
    <3> HIDE DEF x
    <3> QED BY <1>4, WithinIsSeq
  <2> HIDE DEF late
  <2>2. \A k \in DOMAIN late : late[k] \in ToSet(late)
    BY <2>1, IsSeqFacts
  <2> QED BY <1>4, <2>1, <2>2 DEF Places
<1>6. [k \in DOMAIN late |-> CallSent(r, late[k])] = out
  <2> DEFINE f == [k \in DOMAIN late |-> CallSent(r, late[k])]
             V == Places(r, "call") \ S
             h == [i \in 1 .. N |-> <<CallSent(r, i)>>]
             g2 == [i \in 1 .. N |-> IF i \in V THEN h[i] ELSE << >>]
  <2>1. Len(late) \in Nat /\ DOMAIN late = 1 .. Len(late)
    BY <1>5, IsSeqFacts
  <2>2. \A i \in 1 .. N : /\ h[i] = <<CallSent(r, i)>> /\ IsSeq(h[i])
                          /\ g2[i] = (IF i \in V THEN h[i] ELSE << >>) /\ IsSeq(g2[i])
    <3>1. \A i \in 1 .. N : IsSeq(<<CallSent(r, i)>>)
      BY OneIsSeq
    <3> QED BY <3>1, EmptyIsSeq
  <2>3. f = [k \in 1 .. Len(late) |-> f[k]] /\ \A k \in 1 .. Len(late) : f[k] = CallSent(r, late[k])
    BY <2>1
  <2>4. FlattenSeq([k \in 1 .. Len(late) |-> <<f[k]>>]) = f
    <3> HIDE DEF f, late
    <3> QED BY <2>1, <2>3, FlattenOnes
  <2>5. [k \in 1 .. Len(late) |-> <<f[k]>>] = [k \in DOMAIN late |-> h[late[k]]]
    <3>1. \A k \in 1 .. Len(late) : <<f[k]>> = h[late[k]]
      BY <1>3, <1>5, <2>1, <2>2, <2>3
    <3> HIDE DEF f, late, h
    <3> QED BY <2>1, <3>1
  <2>6. FlattenSeq([k \in DOMAIN late |-> h[late[k]]])
          = FlattenSeq([n \in DOMAIN x |-> IF x[n] \in V THEN h[x[n]] ELSE << >>])
    <3>1. \A i \in ToSet(x) : IsSeq(h[i])
      BY <1>3, <1>4, <2>2 DEF Places
    <3> HIDE DEF h, x
    <3>2. late = Within(x, V)
      OBVIOUS
    <3> HIDE DEF late, V
    <3> QED BY ONLY <1>4, <3>1, <3>2, WithinMapped
  <2>7. [n \in DOMAIN x |-> IF x[n] \in V THEN h[x[n]] ELSE << >>] = [n \in DOMAIN x |-> g2[x[n]]]
    <3>1. \A n \in DOMAIN x : x[n] \in 1 .. N
      <4>1. \A n \in DOMAIN x : x[n] \in ToSet(x)
        BY <1>4, IsSeqFacts
      <4> QED BY <1>3, <1>4, <4>1 DEF Places
    <3> HIDE DEF h, x, V, g2
    <3> QED BY <2>2, <3>1
  <2>8. FlattenSeq([n \in DOMAIN x |-> g2[x[n]]])
          = FlattenSeq([i \in 1 .. N |-> IF r.items[i].type = "call" THEN g2[i] ELSE << >>])
    <3>1. \A i \in DOMAIN r.items : IsSeq(g2[i])
      BY <1>3, <2>2
    <3>2. IsResponse(r)
      BY <1>3
    <3> HIDE DEF g2
    <3>3. FlattenSeq([k \in DOMAIN Of(r, "call") |-> g2[Of(r, "call")[k]]])
            = FlattenSeq([i \in 1 .. Len(r.items) |-> IF r.items[i].type = "call" THEN g2[i] ELSE << >>])
      BY <3>1, <3>2, OfRows
    <3> QED BY <3>3
  <2>9. [i \in 1 .. N |-> IF r.items[i].type = "call" THEN g2[i] ELSE << >>]
          = [i \in 1 .. N |-> IF i \in U THEN << >> ELSE CallRow(r, i)]
    <3>1. \A i \in 1 .. N : (IF r.items[i].type = "call" THEN g2[i] ELSE << >>)
                              = (IF i \in U THEN << >> ELSE CallRow(r, i))
      <4> SUFFICES ASSUME NEW i \in 1 .. N
                   PROVE  (IF r.items[i].type = "call" THEN g2[i] ELSE << >>)
                              = (IF i \in U THEN << >> ELSE CallRow(r, i))
        OBVIOUS
      <4>1. i \in Places(r, "call") <=> r.items[i].type = "call"
        BY <1>3 DEF Places
      <4>2. CallRow(r, i) = IF r.items[i].type = "call" THEN h[i] ELSE << >>
        BY DEF CallRow
      <4>3. g2[i] = IF i \in V THEN h[i] ELSE << >>
        OBVIOUS
      <4>4. i \in V <=> i \in Places(r, "call") /\ i \notin S
        OBVIOUS
      <4> HIDE DEF g2, h, V
      <4> QED BY <4>1, <4>2, <4>3, <4>4
    <3> HIDE DEF g2
    <3> QED BY <3>1
  <2>10. f = FlattenSeq([i \in 1 .. N |-> IF i \in U THEN << >> ELSE CallRow(r, i)])
    BY <2>4, <2>5, <2>6, <2>7, <2>8, <2>9
  <2> QED BY <2>10 DEF OutTo
<1> QED BY <1>5, <1>6 DEF late, x, out, N

\* What the terminal event finds: the calls in U, and all of the text or none.
Remains(r, t, S, U, s, before) ==
  /\ \A i \in Places(r, "call") : i \in S <=> i \in U
  /\ Holds(s, before, InTo(r, U, Len(r.items))) /\ before = IF t THEN TextOf(r) ELSE << >>

\* The terminal event adds what was not streamed.
LEMMA OpenAiTerminalTells ==
  ASSUME NEW r, Whole(r), NEW U, NEW s, NEW step, NEW t \in BOOLEAN, NEW g, NEW c, NEW S,
         NEW before, Remains(r, t, S, U, s, before),
         Unnamed(s, "terminal text"), Unnamed(s, "tool"), Unnamed(s, "reasoning")
  PROVE  Tells(PushAll(Coll(s), OpenAiTerminal(OpenAi(t, g, c, S), step, r)), r)
<1>0. /\ \A i \in Places(r, "call") : i \in S <=> i \in U
      /\ Holds(s, before, InTo(r, U, Len(r.items))) /\ before = IF t THEN TextOf(r) ELSE << >>
  BY Zenon DEF Remains
<1> USE <1>0
<1> DEFINE x == Of(r, "call")
           late == Within(x, Places(r, "call") \ S)
           text == TextOf(r)
           none == << >>
           b == t \/ text = << >>
           T == IF b THEN << >> ELSE <<TextDelta(<<"terminal text", 0>>, text)>>
           C == [k \in DOMAIN late |-> CallDelta(<<"tool", k>>, <<step, late[k]>>, r.items[late[k]].tool,
                                                 TerminalArguments(r, late[k]))]
           R == IF g THEN << >> ELSE LateReasoning(r)
           kind == Kind(x # << >>, text # << >>)
           N == Len(r.items)
           in == InTo(r, U, N)
           out == OutTo(r, U, N)
<1>1. OpenAiTerminal(OpenAi(t, g, c, S), step, r) = T \o C \o R \o Closing(step, r, kind)
  BY DEF OpenAiTerminal, OpenAi
<1>2. kind # Unfinished
  BY DEF Kind, Unfinished
<1>3. IsResponse(r) /\ IsSeq(text) /\ IsSeq(CallsSent(r)) /\ N \in Nat /\ DOMAIN r.items = 1 .. N
  BY ResponseTells, ItemsOf DEF Whole
<1>5. IsSeq(late) /\ (\A k \in DOMAIN late : late[k] \in DOMAIN r.items)
      /\ [k \in DOMAIN late |-> CallSent(r, late[k])] = out
  BY LateCalls
<1>7. Same(in \o out, CallsSent(r))
  BY SplitsAreSame
<1>8. Holds(T, IF b THEN << >> ELSE text, none) /\ Named(T, "terminal text")
      /\ (b => ~ \E k \in DOMAIN T : IsDelta(T[k]))
  <2>1. b \in BOOLEAN
    OBVIOUS
  <2> HIDE DEF b, text
  <2> QED BY <1>3, <2>1, TextBlock
<1>9. Holds(C, none, out) /\ Named(C, "tool")
  <2>1. \A k \in DOMAIN late : TerminalArguments(r, late[k]) = ArgumentsOf(r, late[k])
    BY <1>5, DataFacts DEF TerminalArguments
  <2> HIDE DEF late, out
  <2>2. C = [k \in DOMAIN late |-> C[k]]
    OBVIOUS
  <2>3. \A k \in DOMAIN late :
           \E id : C[k] = CallDelta(<<"tool", k>>, id, r.items[late[k]].tool, ArgumentsOf(r, late[k]))
    <3> SUFFICES ASSUME NEW k \in DOMAIN late
                 PROVE \E id : C[k] = CallDelta(<<"tool", k>>, id, r.items[late[k]].tool, ArgumentsOf(r, late[k]))
      OBVIOUS
    <3>1. C[k] = CallDelta(<<"tool", k>>, <<step, late[k]>>, r.items[late[k]].tool, ArgumentsOf(r, late[k]))
      BY <2>1
    <3> QED BY <3>1
  <2> HIDE DEF C
  <2>4. Holds(C, << >>, [k \in DOMAIN late |-> CallSent(r, late[k])]) /\ Named(C, "tool")
    BY <1>5, <2>2, <2>3, CallsBlock
  <2> QED BY <1>5, <2>4
<1>10. Holds(R, none, none) /\ Named(R, "reasoning")
  BY LateReasoningBlock, NothingIsNamed
<1>11. (IF t THEN text ELSE << >>) \o (IF b THEN << >> ELSE text) = text
  <2>1. text \o << >> = text /\ << >> \o text = text /\ << >> \o << >> = << >>
    <3>1. IsSeq(text)
      BY <1>3
    <3> HIDE DEF text
    <3> QED BY <3>1, EmptyAtTheStart, EmptyAtTheEnd, EmptyIsSeq
  <2> HIDE DEF text
  <2> QED BY <2>1
<1> HIDE DEF T, C, R, kind, x, late, in, out, b, text, none
<1> DEFINE more == IF b THEN << >> ELSE text
           u == T \o C \o R
           v == s \o T \o C \o R
<1>12. Holds(s, before, in)
  BY DEF in, N
<1> HIDE DEF more
<1>13. /\ PushAll(Coll(s), T \o C \o R) = Coll(s \o T \o C \o R)
       /\ Holds(s \o T \o C \o R, before \o more, in \o out)
       /\ IsSeq(T) /\ IsSeq(C) /\ IsSeq(R)
  <2>1. Holds(T, more, << >>) /\ Holds(C, << >>, out) /\ Holds(R, << >>, << >>)
    BY <1>8, <1>9, <1>10 DEF more, none
  <2>2. "terminal text" \notin {"tool", "reasoning"}
    OBVIOUS
  <2> QED BY ONLY <1>8, <1>9, <1>10, <1>12, <2>1, <2>2, ThreeBlocks,
       Unnamed(s, "terminal text"), Unnamed(s, "tool"), Unnamed(s, "reasoning")
<1>14. before \o more = text
  BY <1>11 DEF more, text
<1>15. IsSeq(u) /\ PushAll(Coll(s), u) = Coll(v) /\ Holds(v, text, in \o out)
  BY <1>13, <1>14, ConcatIsSeq
<1> DEFINE l == Closing(step, r, kind)
<1>16. IsSeq(l)
  BY <1>3, ClosingIsSeq
<1> HIDE DEF u, v, l
<1>17. PushAll(Coll(s), u \o l) = PushAll(Coll(v), l)
  <2>1. IsSeq(u) /\ IsSeq(l) /\ PushAll(Coll(s), u) = Coll(v)
    BY <1>15, <1>16
  <2>2. PushAll(Coll(s), u \o l) = PushAll(PushAll(Coll(s), u), l)
    BY ONLY <2>1, PushAllConcat
  <2> QED BY <2>1, <2>2
<1>18. Tells(PushAll(Coll(v), Closing(step, r, kind)), r)
  BY <1>2, <1>7, <1>15, ClosingTells DEF text
<1> QED BY <1>1, <1>17, <1>18 DEF u, l

LEMMA AtFields ==
  ASSUME NEW p, NEW r, NEW step
  PROVE  At(p, r, step).provider = p /\ At(p, r, step).response = r /\ At(p, r, step).step = step
  BY DEF At

LEMMA PushAllNothing == ASSUME NEW s, IsSeq(s) PROVE PushAll(Coll(s), << >>) = Coll(s)
<1>1. Named(<< >>, "no tag") /\ ~ \E k \in DOMAIN << >> : IsDelta(<< >>[k])
  BY NothingIsNamed
<1>2. PushAll(Coll(s), << >>) = Coll(s \o << >>)
  <2>1. IsSeq(<< >>) /\ \A k \in DOMAIN << >> : << >>[k].type # "Finished"
    BY EmptyIsSeq
  <2> QED BY ONLY <1>1, <2>1, IsSeq(s), PushBlock
<1> QED BY <1>2, EmptyAtTheEnd

\* An item all of whose fragments leave the decoder in the same state.
Steady(at, b, f, wire, d, d1) ==
  /\ wire = [k \in DOMAIN f |-> wire[k]]
  /\ \A k \in DOMAIN f :
       /\ Decode(at.provider, d, wire[k], at.step, at.response) = Outcome(d1, <<With(b, f[k])>>)
       /\ Decode(at.provider, d1, wire[k], at.step, at.response) = Outcome(d1, <<With(b, f[k])>>)

\* An item that may be told, and the fragments that tell it.
StreamReady(r, n, s, text, calls, tags, b, e, wire, at, d, d1) ==
  /\ ItemReady(r, n, s, text, calls, tags, b, e)
  /\ Steady(at, b, Fragments(r, n + 1, FALSE), wire, d, d1)

\* What the item's events lead to.
Streamed(q, r, n, s, text, calls, tags, e, d, d1) ==
  IF r.items[n + 1].size = 0
  THEN q = Going(d, Coll(s)) /\ Kept(s, tags, n + 1)
  ELSE \E t : /\ q = Going(d1, Coll(t)) /\ Kept(t, tags, n + 1)
              /\ Holds(t, text \o TextPart(e), calls \o CallPart(e))

LEMMA ItemStreamed ==
  ASSUME NEW r, NEW n, NEW s, NEW text, NEW calls, NEW tags, NEW b, NEW e, NEW wire, NEW at, NEW d, NEW d1,
         StreamReady(r, n, s, text, calls, tags, b, e, wire, at, d, d1)
  PROVE  Streamed(Consume(at, Going(d, Coll(s)), wire), r, n, s, text, calls, tags, e, d, d1)
<1> DEFINE f == Fragments(r, n + 1, FALSE)
<1>00. ItemReady(r, n, s, text, calls, tags, b, e) /\ Steady(at, b, f, wire, d, d1)
  BY DEF StreamReady
<1> HIDE DEF f
<1> USE <1>00
<1>0. /\ Whole(r) /\ n \in Nat /\ n + 1 \in DOMAIN r.items /\ Holds(s, text, calls) /\ Kept(s, tags, n)
      /\ wire = [k \in DOMAIN f |-> wire[k]]
  BY DEF ItemReady, Steady
<1>01. \A k \in DOMAIN f :
        /\ Decode(at.provider, d, wire[k], at.step, at.response) = Outcome(d1, <<With(b, f[k])>>)
        /\ Decode(at.provider, d1, wire[k], at.step, at.response) = Outcome(d1, <<With(b, f[k])>>)
  BY DEF Steady
<1> DEFINE i == n + 1
           D == [k \in 0 .. Len(f) |-> IF k = 0 THEN d ELSE d1]
           t == GrownBy(s, b, f)
<1>1. IsSeq(wire) /\ Len(wire) = Len(f) /\ Len(f) \in Nat /\ DOMAIN f = 1 .. Len(f)
  BY <1>0, WireOfFragments DEF f
<1>2. IsSeq(f) /\ (\A k \in 1 .. Len(f) : IsSeq(f[k])) /\ r.items[i].size \in Nat
      /\ (Len(f) = 0 <=> r.items[i].size = 0)
  BY <1>0, FragmentsFlatten, DataFacts DEF f
<1>3. Origin(D) = d /\ Finally(D, f) = IF Len(f) = 0 THEN d ELSE d1
  BY <1>1 DEF Origin, Finally
<1>4. Growing(at, b, f, wire, D)
  <2>1. \A k \in 1 .. Len(f) : Decode(at.provider, D[k - 1], wire[k], at.step, at.response)
                                  = Outcome(D[k], <<With(b, f[k])>>)
    <3> SUFFICES ASSUME NEW k \in 1 .. Len(f)
                 PROVE  Decode(at.provider, D[k - 1], wire[k], at.step, at.response)
                          = Outcome(D[k], <<With(b, f[k])>>)
      OBVIOUS
    <3>1. D[k] = d1 /\ (D[k - 1] = d \/ D[k - 1] = d1)
      <4>1. k \in 1 .. Len(f)
        OBVIOUS
      <4> QED BY ONLY <1>1, <4>1 DEF D
    <3> HIDE DEF D
    <3> QED BY <1>01, <1>1, <3>1
  <2> HIDE DEF D
  <2> QED BY <1>1, <1>2, <2>1 DEF Growing
<1> HIDE DEF D
<1>5. /\ Consume(at, Going(Origin(D), Coll(s)), wire) = Going(Finally(D, f), Coll(t))
      /\ Kept(t, tags, i)
      /\ r.items[i].size = 0 => Len(f) = 0 /\ t = s
      /\ r.items[i].size > 0 => Len(f) > 0 /\ Holds(t, text \o TextPart(e), calls \o CallPart(e))
  <2>1. Growing(at, b, Fragments(r, n + 1, FALSE), wire, D)
    BY <1>4 DEF f
  <2>2. ItemReady(r, n, s, text, calls, tags, b, e)
    OBVIOUS
  <2>3. LET f0 == Fragments(r, n + 1, FALSE)
            t0 == GrownBy(s, b, f0)
        IN /\ Consume(at, Going(Origin(D), Coll(s)), wire) = Going(Finally(D, f0), Coll(t0))
           /\ Kept(t0, tags, n + 1)
           /\ r.items[n + 1].size = 0 => Len(f0) = 0 /\ t0 = s
           /\ r.items[n + 1].size > 0 =>
                Len(f0) > 0 /\ Holds(t0, text \o TextPart(e), calls \o CallPart(e))
    BY ONLY <2>1, <2>2, ItemGrown, Zenon
  <2> QED BY ONLY <2>3 DEF t, i, f
<1> HIDE DEF t
<1>6. CASE r.items[i].size = 0
  <2>1. Consume(at, Going(d, Coll(s)), wire) = Going(d, Coll(s)) /\ Kept(s, tags, n + 1)
    BY <1>3, <1>5, <1>6
  <2> QED BY ONLY <1>6, <2>1 DEF Streamed, i
<1>7. CASE r.items[i].size # 0
  <2>1. r.items[i].size > 0 /\ Len(f) # 0
    BY ONLY <1>2, <1>7
  <2>2. /\ Consume(at, Going(d, Coll(s)), wire) = Going(d1, Coll(t)) /\ Kept(t, tags, n + 1)
        /\ Holds(t, text \o TextPart(e), calls \o CallPart(e))
    BY <1>3, <1>5, <2>1
  <2> QED BY ONLY <1>7, <2>2 DEF Streamed, i
<1> QED BY <1>6, <1>7

\* The decoder after n items of a stream: their text and their calls, but for
\* those without data, are in the collector; it knows whether it had text.
OpenAiHeard(q, r, n) ==
  \E t, g, c, s :
    /\ t \in BOOLEAN /\ q = Going(OpenAi(t, g, c, CallsTold(r, n)), Coll(s))
    /\ t \/ TextTo(r, n) = << >>
    /\ Holds(s, TextTo(r, n), InTo(r, Told(r), n)) /\ Kept(s, {"item"}, n)

LEMMA OpenAiOnward ==
  ASSUME NEW r, Whole(r), NEW n \in Nat, n + 1 \in DOMAIN r.items,
         NEW t \in BOOLEAN, NEW g, NEW c, NEW s, NEW S,
         NEW text, NEW calls, Holds(s, text, calls),
         text = TextTo(r, n) \o TextRow(r, n + 1),
         calls = InTo(r, Told(r), n) \o (IF n + 1 \in Told(r) THEN CallRow(r, n + 1) ELSE << >>),
         S = CallsTold(r, n + 1), t \/ text = << >>, Kept(s, {"item"}, n + 1)
  PROVE  OpenAiHeard(Going(OpenAi(t, g, c, S), Coll(s)), r, n + 1)
<1>1. n < Len(r.items)
  BY ItemsOf DEF Whole
<1>2. TextTo(r, n + 1) = text
  BY <1>1, RowsTo
<1>3. InTo(r, Told(r), n + 1) = calls
  BY <1>1, SplitTo
<1> DEFINE m == n + 1
<1>4. /\ Going(OpenAi(t, g, c, S), Coll(s)) = Going(OpenAi(t, g, c, CallsTold(r, m)), Coll(s))
      /\ t \in BOOLEAN /\ (t \/ TextTo(r, m) = << >>)
      /\ Holds(s, TextTo(r, m), InTo(r, Told(r), m)) /\ Kept(s, {"item"}, m)
  BY ONLY <1>2, <1>3, S = CallsTold(r, n + 1), t \in BOOLEAN, t \/ text = << >>,
     Kept(s, {"item"}, n + 1), Holds(s, text, calls)
     DEF m
<1> HIDE DEF m
<1>5. OpenAiHeard(Going(OpenAi(t, g, c, S), Coll(s)), r, m)
  BY <1>4, Zenon DEF OpenAiHeard
<1> QED BY <1>5 DEF m

LEMMA OpenAiTextSteady ==
  ASSUME NEW r, NEW step, NEW t, NEW g, NEW c, NEW S, NEW i, NEW f
  PROVE  Steady(At("openai", r, step), TextDelta(<<"item", i>>, << >>), f,
                [k \in DOMAIN f |-> [type |-> "textDelta", at |-> i, data |-> f[k]]],
                OpenAi(t, g, c, S), OpenAi(Heard, g, c, S))
<1> DEFINE at == At("openai", r, step)
           wire == [k \in DOMAIN f |-> [type |-> "textDelta", at |-> i, data |-> f[k]]]
           d == OpenAi(t, g, c, S)
           d1 == OpenAi(Heard, g, c, S)
           b == TextDelta(<<"item", i>>, << >>)
<1>1. wire = [k \in DOMAIN f |-> wire[k]]
  OBVIOUS
<1>2. ASSUME NEW k \in DOMAIN f, NEW t0
      PROVE  Decode(at.provider, OpenAi(t0, g, c, S), wire[k], at.step, at.response) = Outcome(d1, <<With(b, f[k])>>)
  <2>1. wire[k] = [type |-> "textDelta", at |-> i, data |-> f[k]]
    OBVIOUS
  <2>2. With(b, f[k]) = TextDelta(<<"item", i>>, f[k])
    BY DeltasGrow
  <2>3. Decode("openai", OpenAi(t0, g, c, S), [type |-> "textDelta", at |-> i, data |-> f[k]], step, r)
          = Outcome(d1, <<TextDelta(<<"item", i>>, f[k])>>)
    BY ONLY OpenAiText DEF d1
  <2> HIDE DEF wire, at, b, d1
  <2>4. at.provider = "openai" /\ at.step = step /\ at.response = r
    BY AtFields DEF at
  <2> QED BY ONLY <2>1, <2>2, <2>3, <2>4
<1> HIDE DEF wire, at, b
<1>3. \A k \in DOMAIN f : /\ Decode(at.provider, d, wire[k], at.step, at.response) = Outcome(d1, <<With(b, f[k])>>)
                          /\ Decode(at.provider, d1, wire[k], at.step, at.response) = Outcome(d1, <<With(b, f[k])>>)
  BY <1>2, Zenon
<1>4. Steady(at, b, f, wire, d, d1)
  BY <1>1, <1>3, Zenon DEF Steady
<1> QED BY <1>4, Zenon DEF at, b, wire

LEMMA OpenAiThoughtSteady ==
  ASSUME NEW r, NEW step, NEW t, NEW g, NEW c, NEW S, NEW i, NEW f
  PROVE  Steady(At("openai", r, step), ReasoningDelta(<<"item", i>>, << >>), f,
                [k \in DOMAIN f |-> [type |-> "reasoningDelta", at |-> i, data |-> f[k]]],
                OpenAi(t, g, c, S), OpenAi(t, Heard, c, S))
<1> DEFINE at == At("openai", r, step)
           wire == [k \in DOMAIN f |-> [type |-> "reasoningDelta", at |-> i, data |-> f[k]]]
           d == OpenAi(t, g, c, S)
           d1 == OpenAi(t, Heard, c, S)
           b == ReasoningDelta(<<"item", i>>, << >>)
<1>1. wire = [k \in DOMAIN f |-> wire[k]]
  OBVIOUS
<1>2. ASSUME NEW k \in DOMAIN f, NEW g0
      PROVE  Decode(at.provider, OpenAi(t, g0, c, S), wire[k], at.step, at.response) = Outcome(d1, <<With(b, f[k])>>)
  <2>1. wire[k] = [type |-> "reasoningDelta", at |-> i, data |-> f[k]]
    OBVIOUS
  <2>2. With(b, f[k]) = ReasoningDelta(<<"item", i>>, f[k])
    BY DeltasGrow
  <2>3. Decode("openai", OpenAi(t, g0, c, S), [type |-> "reasoningDelta", at |-> i, data |-> f[k]], step, r)
          = Outcome(d1, <<ReasoningDelta(<<"item", i>>, f[k])>>)
    BY ONLY OpenAiThought DEF d1
  <2> HIDE DEF wire, at, b, d1
  <2>4. at.provider = "openai" /\ at.step = step /\ at.response = r
    BY AtFields DEF at
  <2> QED BY ONLY <2>1, <2>2, <2>3, <2>4
<1> HIDE DEF wire, at, b
<1>3. \A k \in DOMAIN f : /\ Decode(at.provider, d, wire[k], at.step, at.response) = Outcome(d1, <<With(b, f[k])>>)
                          /\ Decode(at.provider, d1, wire[k], at.step, at.response) = Outcome(d1, <<With(b, f[k])>>)
  BY <1>2, Zenon
<1>4. Steady(at, b, f, wire, d, d1)
  BY <1>1, <1>3, Zenon DEF Steady
<1> QED BY <1>4, Zenon DEF at, b, wire

LEMMA OpenAiCallSteady ==
  ASSUME NEW r, NEW step, NEW t, NEW g, NEW c, NEW S, NEW i \in c, NEW f, r.items[i].tool # NoName
  PROVE  Steady(At("openai", r, step), CallDelta(<<"item", i>>, <<step, i>>, r.items[i].tool, << >>), f,
                [k \in DOMAIN f |-> [type |-> "argumentsDelta", at |-> i, data |-> f[k]]],
                OpenAi(t, g, c, S), OpenAi(t, g, c, S \cup {i}))
<1> DEFINE at == At("openai", r, step)
           wire == [k \in DOMAIN f |-> [type |-> "argumentsDelta", at |-> i, data |-> f[k]]]
           d == OpenAi(t, g, c, S)
           d1 == OpenAi(t, g, c, S \cup {i})
           b == CallDelta(<<"item", i>>, <<step, i>>, r.items[i].tool, << >>)
<1>1. wire = [k \in DOMAIN f |-> wire[k]]
  OBVIOUS
<1>2. ASSUME NEW k \in DOMAIN f, NEW S0, S0 \cup {i} = S \cup {i}
      PROVE  Decode(at.provider, OpenAi(t, g, c, S0), wire[k], at.step, at.response) = Outcome(d1, <<With(b, f[k])>>)
  <2>1. wire[k] = [type |-> "argumentsDelta", at |-> i, data |-> f[k]]
    OBVIOUS
  <2>2. With(b, f[k]) = CallDelta(<<"item", i>>, <<step, i>>, r.items[i].tool, f[k])
    BY CallGrows
  <2>3. Decode("openai", OpenAi(t, g, c, S0), [type |-> "argumentsDelta", at |-> i, data |-> f[k]], step, r)
          = Outcome(OpenAi(t, g, c, S0 \cup {i}), <<CallDelta(<<"item", i>>, <<step, i>>, r.items[i].tool, f[k])>>)
    BY ONLY OpenAiArguments, i \in c
  <2>5. OpenAi(t, g, c, S0 \cup {i}) = d1
    BY <1>2
  <2> HIDE DEF wire, at, b, d1
  <2>4. at.provider = "openai" /\ at.step = step /\ at.response = r
    BY AtFields DEF at
  <2> QED BY ONLY <2>1, <2>2, <2>3, <2>4, <2>5
<1> HIDE DEF wire, at, b
<1>5. S \cup {i} = S \cup {i} /\ (S \cup {i}) \cup {i} = S \cup {i}
  OBVIOUS
<1>3. \A k \in DOMAIN f : /\ Decode(at.provider, d, wire[k], at.step, at.response) = Outcome(d1, <<With(b, f[k])>>)
                          /\ Decode(at.provider, d1, wire[k], at.step, at.response) = Outcome(d1, <<With(b, f[k])>>)
  BY <1>2, <1>5, Zenon
<1>4. Steady(at, b, f, wire, d, d1)
  BY <1>1, <1>3, Zenon DEF Steady
<1> QED BY <1>4, Zenon DEF at, b, wire

LEMMA CallsToldNext ==
  ASSUME NEW r, NEW n \in Nat
  PROVE  /\ ~(r.items[n + 1].type = "call" /\ r.items[n + 1].size > 0) => CallsTold(r, n + 1) = CallsTold(r, n)
         /\ (r.items[n + 1].type = "call" /\ r.items[n + 1].size > 0)
               => CallsTold(r, n + 1) = CallsTold(r, n) \cup {n + 1}
<1>1. 1 .. n + 1 = (1 .. n) \cup {n + 1} /\ n + 1 \notin 1 .. n
  OBVIOUS
<1> DEFINE m == n + 1
<1> HIDE DEF m
<1>2. 1 .. m = (1 .. n) \cup {m}
  BY <1>1 DEF m
<1>3. /\ ~(r.items[m].type = "call" /\ r.items[m].size > 0) => CallsTold(r, m) = CallsTold(r, n)
      /\ (r.items[m].type = "call" /\ r.items[m].size > 0)
               => CallsTold(r, m) = CallsTold(r, n) \cup {m}
  BY ONLY <1>2 DEF CallsTold
<1> QED BY <1>3 DEF m

\* What text, a thought or a call tells, and no more.
LEMMA TextItem ==
  ASSUME NEW r, Whole(r), NEW i \in DOMAIN r.items, r.items[i].type # "call"
  PROVE  CallRow(r, i) = << >> /\ (r.items[i].type # "text" => TextRow(r, i) = << >>)
         /\ (r.items[i].type = "text" => TextRow(r, i) = DataOf(r, i))
  BY DEF CallRow, TextRow

LEMMA CallItem ==
  ASSUME NEW r, Whole(r), NEW i \in DOMAIN r.items, r.items[i].type = "call"
  PROVE  /\ TextRow(r, i) = << >> /\ CallRow(r, i) = <<CallSent(r, i)>>
         /\ r.items[i].size > 0 => CallRow(r, i) = <<[name |-> r.items[i].tool, input |-> DataOf(r, i)]>>
<1>1. r.items[i].size \in Nat
  BY DataFacts
<1>2. r.items[i].size > 0 => ArgumentsOf(r, i) = DataOf(r, i)
  BY <1>1 DEF ArgumentsOf
<1> QED BY <1>2 DEF CallRow, TextRow, CallSent

LEMMA OpenAiFollows ==
  ASSUME NEW r, Whole(r), NEW n \in Nat, n + 1 \in DOMAIN r.items,
         NEW t \in BOOLEAN, NEW g, NEW c, NEW s, t \/ TextTo(r, n) = << >>,
         Holds(s, TextTo(r, n), InTo(r, Told(r), n)),
         NEW t1 \in BOOLEAN, NEW g1, NEW c1, NEW S, NEW S1, NEW e, NEW q2,
         Streamed(q2, r, n, s, TextTo(r, n), InTo(r, Told(r), n), {"item"}, e,
                  OpenAi(t, g, c, S), OpenAi(t1, g1, c1, S1)),
         r.items[n + 1].size = 0 => S = CallsTold(r, n + 1) /\ TextRow(r, n + 1) = << >>,
         r.items[n + 1].size # 0 => /\ S1 = CallsTold(r, n + 1) /\ (t1 \/ (~t /\ TextRow(r, n + 1) = << >>))
                                    /\ TextPart(e) = TextRow(r, n + 1) /\ CallPart(e) = CallRow(r, n + 1)
  PROVE  OpenAiHeard(q2, r, n + 1)
<1> DEFINE i == n + 1
           text == TextTo(r, n)
           calls == InTo(r, Told(r), n)
<1>1. IsSeq(text) /\ IsSeq(calls)
  BY HoldsSeqs
<1>2. Whole(r) /\ n \in Nat /\ n + 1 \in DOMAIN r.items /\ t \in BOOLEAN /\ t1 \in BOOLEAN
  OBVIOUS
<1>3. r.items[i].size \in Nat
  BY DataFacts
<1>4. i \in Told(r) <=> r.items[i].size # 0
  BY <1>2, <1>3 DEF Told
<1>5. /\ Holds(s, text, calls) /\ (t \/ text = << >>)
      /\ Streamed(q2, r, n, s, text, calls, {"item"}, e, OpenAi(t, g, c, S), OpenAi(t1, g1, c1, S1))
      /\ r.items[i].size = 0 => S = CallsTold(r, n + 1) /\ TextRow(r, n + 1) = << >>
      /\ r.items[i].size # 0 => /\ S1 = CallsTold(r, n + 1) /\ (t1 \/ (~t /\ TextRow(r, n + 1) = << >>))
                                /\ TextPart(e) = TextRow(r, n + 1) /\ CallPart(e) = CallRow(r, n + 1)
  OBVIOUS
<1>6. text = TextTo(r, n) /\ calls = InTo(r, Told(r), n)
  OBVIOUS
<1> HIDE DEF text, calls
<1>10. CASE r.items[i].size = 0
  <2>1. q2 = Going(OpenAi(t, g, c, S), Coll(s)) /\ Kept(s, {"item"}, n + 1)
    BY ONLY <1>5, <1>10 DEF Streamed, i
  <2>3. text = TextTo(r, n) \o TextRow(r, n + 1)
    BY ONLY <1>1, <1>5, <1>6, <1>10, EmptyAtTheEnd
  <2>4. calls = InTo(r, Told(r), n) \o (IF n + 1 \in Told(r) THEN CallRow(r, n + 1) ELSE << >>)
    BY ONLY <1>1, <1>4, <1>6, <1>10, EmptyAtTheEnd DEF i
  <2>5. S = CallsTold(r, n + 1)
    BY ONLY <1>5, <1>10
  <2>6. OpenAiHeard(Going(OpenAi(t, g, c, S), Coll(s)), r, n + 1)
    BY ONLY <1>2, <1>5, <2>1, <2>3, <2>4, <2>5, OpenAiOnward
  <2> QED BY <2>1, <2>6
<1>11. CASE r.items[i].size # 0
  <2>1. PICK s2 : /\ q2 = Going(OpenAi(t1, g1, c1, S1), Coll(s2))
                  /\ Kept(s2, {"item"}, n + 1)
                  /\ Holds(s2, text \o TextPart(e), calls \o CallPart(e))
    BY ONLY <1>5, <1>11 DEF Streamed, i
  <2> DEFINE text2 == text \o TextPart(e)
             calls2 == calls \o CallPart(e)
  <2>3. text2 = TextTo(r, n) \o TextRow(r, n + 1)
    BY ONLY <1>5, <1>6, <1>11
  <2>4. calls2 = InTo(r, Told(r), n) \o (IF n + 1 \in Told(r) THEN CallRow(r, n + 1) ELSE << >>)
    BY ONLY <1>4, <1>5, <1>6, <1>11 DEF i
  <2>5. S1 = CallsTold(r, n + 1) /\ Holds(s2, text2, calls2)
    BY ONLY <1>5, <1>11, <2>1
  <2>6. t1 \/ text2 = << >>
    <3>1. << >> \o << >> = << >>
      BY EmptyAtTheEnd, EmptyIsSeq
    <3> QED BY ONLY <1>5, <1>11, <3>1
  <2> HIDE DEF text2, calls2
  <2>7. OpenAiHeard(Going(OpenAi(t1, g1, c1, S1), Coll(s2)), r, n + 1)
    BY ONLY <1>2, <2>1, <2>3, <2>4, <2>5, <2>6, OpenAiOnward
  <2> QED BY <2>1, <2>7
<1> QED BY <1>10, <1>11

LEMMA OpenAiSpeaks ==
  ASSUME NEW r, Whole(r), NEW n \in Nat, n + 1 \in DOMAIN r.items, NEW step,
         NEW t \in BOOLEAN, NEW g, NEW c, NEW s, t \/ TextTo(r, n) = << >>,
         Holds(s, TextTo(r, n), InTo(r, Told(r), n)), Kept(s, {"item"}, n),
         r.items[n + 1].type \in {"text", "thought"}
  PROVE  OpenAiHeard(Consume(At("openai", r, step), Going(OpenAi(t, g, c, CallsTold(r, n)), Coll(s)),
                             OpenAiItemWire(r, n + 1)), r, n + 1)
<1> DEFINE i == n + 1
           spoken == r.items[i].type = "text"
           f == Fragments(r, i, FALSE)
           wireT == [k \in DOMAIN f |-> [type |-> "textDelta", at |-> i, data |-> f[k]]]
           wireR == [k \in DOMAIN f |-> [type |-> "reasoningDelta", at |-> i, data |-> f[k]]]
           at == At("openai", r, step)
           S == CallsTold(r, n)
           data == DataOf(r, i)
           text == TextTo(r, n)
           calls == InTo(r, Told(r), n)
           d == OpenAi(t, g, c, S)
<1>2. IsSeq(data) /\ r.items[i].size \in Nat /\ (data = << >> <=> r.items[i].size = 0)
  BY DataFacts
<1>3. CallsTold(r, i) = S
  BY CallsToldNext
<1>4. CallRow(r, i) = << >> /\ TextRow(r, i) = IF spoken THEN data ELSE << >>
  BY TextItem
<1>5. /\ Whole(r) /\ n \in Nat /\ i \in DOMAIN r.items /\ t \in BOOLEAN /\ (t \/ text = << >>)
      /\ Holds(s, text, calls) /\ Kept(s, {"item"}, n)
  OBVIOUS
<1>6. CASE spoken
  <2> DEFINE b == TextDelta(<<"item", i>>, << >>)
             e == TextDelta(<<"item", i>>, data)
             d1 == OpenAi(Heard, g, c, S)
             q2 == Consume(at, Going(d, Coll(s)), wireT)
  <2>1. OpenAiItemWire(r, i) = wireT
    BY <1>6 DEF OpenAiItemWire
  <2>2. Sound(e) /\ TextPart(e) = data /\ CallPart(e) = << >>
    BY <1>2, SoundDeltas
  <2>3. Steady(at, b, f, wireT, d, d1)
    BY OpenAiTextSteady
  <2>4. Grows(b) /\ e = With(b, data) /\ b.item = <<"item", i>>
    BY DeltasGrow
  <2>5. \E tag \in {"item"} : b.item = <<tag, i>>
    BY <2>4
  <2>6. Heard \in BOOLEAN /\ Heard
    BY DEF Heard
  <2> HIDE DEF b, e, d, d1, q2, at, wireT, f, text, calls, S
  <2>7. StreamReady(r, n, s, text, calls, {"item"}, b, e, wireT, at, d, d1)
    BY ONLY <1>5, <2>2, <2>3, <2>4, <2>5, Zenon DEF StreamReady, ItemReady, i, f, data
  <2>8. Streamed(q2, r, n, s, text, calls, {"item"}, e, d, d1)
    BY ONLY <2>7, ItemStreamed DEF q2
  <2>9. OpenAiHeard(q2, r, n + 1)
    <3>1. r.items[n + 1].size = 0 => S = CallsTold(r, n + 1) /\ TextRow(r, n + 1) = << >>
      BY ONLY <1>2, <1>3, <1>4, <1>6 DEF i
    <3>2. r.items[n + 1].size # 0 =>
            /\ S = CallsTold(r, n + 1) /\ (Heard \/ (~t /\ TextRow(r, n + 1) = << >>))
            /\ TextPart(e) = TextRow(r, n + 1) /\ CallPart(e) = CallRow(r, n + 1)
      BY ONLY <1>3, <1>4, <1>6, <2>2, <2>6 DEF i
    <3>3. Streamed(q2, r, n, s, TextTo(r, n), InTo(r, Told(r), n), {"item"}, e,
                   OpenAi(t, g, c, S), OpenAi(Heard, g, c, S))
      BY ONLY <2>8 DEF d, d1, text, calls
    <3>4. t \/ TextTo(r, n) = << >>
      OBVIOUS
    <3>5. Holds(s, TextTo(r, n), InTo(r, Told(r), n)) /\ n + 1 \in DOMAIN r.items
      OBVIOUS
    <3> QED BY ONLY <1>5, <2>6, <3>1, <3>2, <3>3, <3>4, <3>5, OpenAiFollows
  <2> QED BY ONLY <2>1, <2>9 DEF q2, d, S, at, i
<1>7. CASE ~spoken
  <2> DEFINE b == ReasoningDelta(<<"item", i>>, << >>)
             e == ReasoningDelta(<<"item", i>>, data)
             d1 == OpenAi(t, Heard, c, S)
             q2 == Consume(at, Going(d, Coll(s)), wireR)
  <2>1. OpenAiItemWire(r, i) = wireR
    BY <1>7 DEF OpenAiItemWire
  <2>2. Sound(e) /\ TextPart(e) = << >> /\ CallPart(e) = << >>
    BY <1>2, SoundDeltas
  <2>3. Steady(at, b, f, wireR, d, d1)
    BY OpenAiThoughtSteady
  <2>4. Grows(b) /\ e = With(b, data) /\ b.item = <<"item", i>>
    BY DeltasGrow
  <2>5. \E tag \in {"item"} : b.item = <<tag, i>>
    BY <2>4
  <2> HIDE DEF b, e, d, d1, q2, at, wireR, f, text, calls, S
  <2>7. StreamReady(r, n, s, text, calls, {"item"}, b, e, wireR, at, d, d1)
    BY ONLY <1>5, <2>2, <2>3, <2>4, <2>5, Zenon DEF StreamReady, ItemReady, i, f, data
  <2>8. Streamed(q2, r, n, s, text, calls, {"item"}, e, d, d1)
    BY ONLY <2>7, ItemStreamed DEF q2
  <2>9. OpenAiHeard(q2, r, n + 1)
    <3>1. r.items[n + 1].size = 0 => S = CallsTold(r, n + 1) /\ TextRow(r, n + 1) = << >>
      BY ONLY <1>2, <1>3, <1>4, <1>7 DEF i
    <3>2. r.items[n + 1].size # 0 =>
            /\ S = CallsTold(r, n + 1) /\ (t \/ (~t /\ TextRow(r, n + 1) = << >>))
            /\ TextPart(e) = TextRow(r, n + 1) /\ CallPart(e) = CallRow(r, n + 1)
      BY ONLY <1>3, <1>4, <1>5, <1>7, <2>2 DEF i
    <3>3. Streamed(q2, r, n, s, TextTo(r, n), InTo(r, Told(r), n), {"item"}, e,
                   OpenAi(t, g, c, S), OpenAi(t, Heard, c, S))
      BY ONLY <2>8 DEF d, d1, text, calls
    <3>4. t \/ TextTo(r, n) = << >>
      OBVIOUS
    <3>5. Holds(s, TextTo(r, n), InTo(r, Told(r), n)) /\ n + 1 \in DOMAIN r.items
      OBVIOUS
    <3> QED BY ONLY <1>5, <3>1, <3>2, <3>3, <3>4, <3>5, OpenAiFollows
  <2> QED BY ONLY <2>1, <2>9 DEF q2, d, S, at, i
<1> QED BY <1>6, <1>7

LEMMA CallTold ==
  ASSUME NEW item, NEW id, NEW name, name # NoName, NEW data, Parses(data), data # << >>
  PROVE  /\ Sound(CallDelta(item, id, name, data))
         /\ TextPart(CallDelta(item, id, name, data)) = << >>
         /\ CallPart(CallDelta(item, id, name, data)) = <<[name |-> name, input |-> data]>>
<1> DEFINE e == CallDelta(item, id, name, data)
<1>1. /\ e.type = "Call" /\ e.name = name /\ e.data = data
      /\ {"name", "data"} \subseteq DOMAIN e
  BY DEF CallDelta
<1>2. PlainEvent(e)
  BY CallDeltaPlain
<1> HIDE DEF e
<1>3. ItemOf(e) = e
  BY <1>1 DEF ItemOf
<1>4. Sound(e)
  BY <1>1, <1>2 DEF Sound, BadCall
<1>5. TextPart(e) = << >> /\ CallPart(e) = <<[name |-> name, input |-> data]>>
  BY <1>1, <1>3 DEF TextPart, CallPart
<1> QED BY <1>4, <1>5 DEF e

LEMMA OpenAiCalls ==
  ASSUME NEW r, Whole(r), NEW n \in Nat, n + 1 \in DOMAIN r.items, NEW step,
         NEW t \in BOOLEAN, NEW g, NEW c, NEW s, t \/ TextTo(r, n) = << >>,
         Holds(s, TextTo(r, n), InTo(r, Told(r), n)), Kept(s, {"item"}, n),
         r.items[n + 1].type = "call"
  PROVE  OpenAiHeard(Consume(At("openai", r, step), Going(OpenAi(t, g, c, CallsTold(r, n)), Coll(s)),
                             OpenAiItemWire(r, n + 1)), r, n + 1)
<1> DEFINE i == n + 1
           tool == r.items[i].tool
           f == Fragments(r, i, FALSE)
           wire == [k \in DOMAIN f |-> [type |-> "argumentsDelta", at |-> i, data |-> f[k]]]
           at == At("openai", r, step)
           S == CallsTold(r, n)
           data == DataOf(r, i)
           text == TextTo(r, n)
           calls == InTo(r, Told(r), n)
           c1 == c \cup {i}
           S1 == S \cup {i}
           first == [type |-> "itemAdded", at |-> i]
           d0 == OpenAi(t, g, c, S)
           d == OpenAi(t, g, c1, S)
           d1 == OpenAi(t, g, c1, S1)
           b == CallDelta(<<"item", i>>, <<step, i>>, tool, << >>)
           e == CallDelta(<<"item", i>>, <<step, i>>, tool, data)
           q2 == Consume(at, Going(d, Coll(s)), wire)
<1>1. OpenAiItemWire(r, i) = <<first>> \o wire
  BY DEF OpenAiItemWire
<1>2. /\ r.items[i].size \in Nat /\ (r.items[i].size > 0 => Parses(data) /\ data # << >>) /\ tool # NoName
      /\ Parses(data) => data # << >>
  <2>1. /\ r.items[i].size \in Nat /\ (r.items[i].size > 0 => Parses(data)) /\ tool # NoName
    BY DataFacts DEF Whole
  <2> HIDE DEF data, tool
  <2>2. Parses(data) => data # << >>
    <3>1. Len(<< >>) = 0
      OBVIOUS
    <3> QED BY ONLY <3>1 DEF Parses
  <2> QED BY ONLY <2>1, <2>2
<1>3. /\ r.items[i].size > 0 => CallsTold(r, i) = S1
      /\ r.items[i].size = 0 => CallsTold(r, i) = S
  <2>1. r.items[i].size = 0 => ~(r.items[i].size > 0)
    OBVIOUS
  <2>2. n \in Nat /\ r.items[n + 1].type = "call"
    OBVIOUS
  <2> QED BY ONLY <2>1, <2>2, CallsToldNext DEF S1, S, i
<1>4. /\ TextRow(r, i) = << >>
      /\ r.items[i].size > 0 => CallRow(r, i) = <<[name |-> tool, input |-> data]>>
  BY CallItem
<1>5. /\ Whole(r) /\ n \in Nat /\ i \in DOMAIN r.items /\ t \in BOOLEAN /\ (t \/ text = << >>)
      /\ Holds(s, text, calls) /\ Kept(s, {"item"}, n)
  OBVIOUS
<1>6. r.items[i].size > 0 =>
        Sound(e) /\ TextPart(e) = << >> /\ CallPart(e) = <<[name |-> tool, input |-> data]>>
  <2>1. r.items[i].size > 0 => tool # NoName /\ Parses(data) /\ data # << >>
    BY ONLY <1>2
  <2> HIDE DEF tool, data
  <2>2. ASSUME tool # NoName, Parses(data), data # << >>
        PROVE  Sound(e) /\ TextPart(e) = << >> /\ CallPart(e) = <<[name |-> tool, input |-> data]>>
    BY ONLY <2>2, CallTold DEF e
  <2> QED BY ONLY <2>1, <2>2
<1>7. Steady(at, b, f, wire, d, d1)
  <2>1. i \in c1
    OBVIOUS
  <2> HIDE DEF c1, f
  <2> QED BY <1>2, <2>1, OpenAiCallSteady
<1>8. Grows(b) /\ e = With(b, data) /\ b.item = <<"item", i>>
  <2> HIDE DEF tool, data
  <2> QED BY <1>2, CallGrows
<1>9. \E tag \in {"item"} : b.item = <<tag, i>>
  BY <1>8
<1>10. IsSeq(wire) /\ IsSeq(s)
  <2>1. wire = [k \in DOMAIN f |-> wire[k]] /\ f = Fragments(r, i, FALSE)
    OBVIOUS
  <2> HIDE DEF wire, f
  <2> QED BY <1>5, <2>1, WireOfFragments, HoldsSeqs
<1>11. Decode("openai", d0, first, step, r) = Outcome(d, << >>)
  <2> HIDE DEF S
  <2> QED BY OpenAiAdded
<1>12. IsSeq(<<first>>)
  BY OneIsSeq
<1> HIDE DEF b, e, d, d0, d1, q2, at, wire, f, text, calls, S, first, data, tool
<1>13. Consume(at, Going(d0, Coll(s)), <<first>> \o wire) = q2
  <2>1. Decode(at.provider, d0, first, at.step, at.response) = Outcome(d, << >>)
    BY <1>11, AtFields DEF at
  <2>2. Taken(at, Going(d0, Coll(s)), first) = Going(d, PushAll(Coll(s), << >>))
    BY ONLY <2>1, TakenGoing
  <2>3. PushAll(Coll(s), << >>) = Coll(s)
    BY <1>10, PushAllNothing
  <2>4. Consume(at, Going(d0, Coll(s)), <<first>>) = Going(d, Coll(s))
    BY <2>2, <2>3, ConsumeOne
  <2> QED BY ONLY <1>10, <1>12, <2>4, ConsumeConcat DEF q2
<1>14. StreamReady(r, n, s, text, calls, {"item"}, b, e, wire, at, d, d1)
  <2>1. r.items[i].size > 0 => Sound(e)
    BY <1>6
  <2> QED BY ONLY <1>5, <1>7, <1>8, <1>9, <2>1, Zenon DEF StreamReady, ItemReady, i, f, data
<1>15. Streamed(q2, r, n, s, text, calls, {"item"}, e, d, d1)
  BY ONLY <1>14, ItemStreamed DEF q2
<1>16. OpenAiHeard(q2, r, n + 1)
  <2>1. r.items[n + 1].size = 0 => S = CallsTold(r, n + 1) /\ TextRow(r, n + 1) = << >>
    BY ONLY <1>3, <1>4 DEF i
  <2>2. r.items[n + 1].size # 0 =>
          /\ S1 = CallsTold(r, n + 1) /\ (t \/ (~t /\ TextRow(r, n + 1) = << >>))
          /\ TextPart(e) = TextRow(r, n + 1) /\ CallPart(e) = CallRow(r, n + 1)
    BY ONLY <1>2, <1>3, <1>4, <1>5, <1>6 DEF i
  <2>3. Streamed(q2, r, n, s, TextTo(r, n), InTo(r, Told(r), n), {"item"}, e,
                 OpenAi(t, g, c1, S), OpenAi(t, g, c1, S1))
    BY ONLY <1>15 DEF d, d1, text, calls
  <2>4. t \/ TextTo(r, n) = << >>
    OBVIOUS
  <2>5. Holds(s, TextTo(r, n), InTo(r, Told(r), n)) /\ n + 1 \in DOMAIN r.items
    OBVIOUS
  <2> QED BY ONLY <1>5, <2>1, <2>2, <2>3, <2>4, <2>5, OpenAiFollows
<1> QED BY ONLY <1>1, <1>13, <1>16 DEF d0, S, at, i

LEMMA OpenAiItem ==
  ASSUME NEW r, Whole(r), NEW n \in Nat, n + 1 \in DOMAIN r.items, NEW step,
         NEW q, OpenAiHeard(q, r, n)
  PROVE  OpenAiHeard(Consume(At("openai", r, step), q, OpenAiItemWire(r, n + 1)), r, n + 1)
<1>1. PICK t, g, c, s :
      /\ t \in BOOLEAN /\ q = Going(OpenAi(t, g, c, CallsTold(r, n)), Coll(s))
      /\ t \/ TextTo(r, n) = << >>
      /\ Holds(s, TextTo(r, n), InTo(r, Told(r), n)) /\ Kept(s, {"item"}, n)
  BY Zenon DEF OpenAiHeard
<1>2. Whole(r) /\ n \in Nat /\ n + 1 \in DOMAIN r.items /\ t \in BOOLEAN
  BY <1>1
<1>3. CASE r.items[n + 1].type \in {"text", "thought"}
  BY ONLY <1>1, <1>2, <1>3, OpenAiSpeaks
<1>4. CASE r.items[n + 1].type = "call"
  BY ONLY <1>1, <1>2, <1>4, OpenAiCalls
<1>5. CASE r.items[n + 1].type \notin {"text", "thought", "call"}
  <2> DEFINE text == TextTo(r, n)
             calls == InTo(r, Told(r), n)
             S == CallsTold(r, n)
  <2>1. OpenAiItemWire(r, n + 1) = << >>
    BY <1>5 DEF OpenAiItemWire
  <2>2. Consume(At("openai", r, step), q, << >>) = q
    BY ConsumeNone
  <2>3. CallRow(r, n + 1) = << >> /\ TextRow(r, n + 1) = << >>
    BY ONLY <1>5 DEF CallRow, TextRow
  <2>4. IsSeq(text) /\ IsSeq(calls) /\ Holds(s, text, calls) /\ (t \/ text = << >>)
    BY <1>1, HoldsSeqs
  <2>5. text = TextTo(r, n) \o TextRow(r, n + 1)
    BY <2>3, <2>4, EmptyAtTheEnd
  <2>6. calls = InTo(r, Told(r), n) \o (IF n + 1 \in Told(r) THEN CallRow(r, n + 1) ELSE << >>)
    BY <2>3, <2>4, EmptyAtTheEnd
  <2>7. S = CallsTold(r, n + 1)
    BY ONLY <1>2, <1>5, CallsToldNext
  <2>8. Kept(s, {"item"}, n + 1)
    BY <1>1, KeptNames
  <2> HIDE DEF text, calls, S
  <2>9. OpenAiHeard(Going(OpenAi(t, g, c, S), Coll(s)), r, n + 1)
    BY ONLY <1>2, <2>4, <2>5, <2>6, <2>7, <2>8, OpenAiOnward
  <2> QED BY <1>1, <2>1, <2>2, <2>9 DEF S
<1> QED BY <1>3, <1>4, <1>5

\* The decoder at the start, and with nothing heard.
LEMMA OpenAiAtFirst ==
  ASSUME NEW r
  PROVE  /\ StartOf("openai") = OpenAi(FALSE, FALSE, {}, {})
         /\ OpenAiHeard(Going(StartOf("openai"), Coll(<< >>)), r, 0)
<1> DEFINE no == FALSE
<1>1. StartOf("openai") = OpenAi(FALSE, FALSE, {}, {})
  BY DEF StartOf, OpenAiStart, OpenAi
<1>2. CallsTold(r, 0) = {}
  BY DEF CallsTold
<1>3. TextTo(r, 0) = << >> /\ InTo(r, Told(r), 0) = << >>
  BY RowsToNone, SplitNone
<1>4. Holds(<< >>, TextTo(r, 0), InTo(r, Told(r), 0)) /\ Kept(<< >>, {"item"}, 0)
  BY <1>3, HoldsNothing, KeptNone
<1>5. no \in BOOLEAN /\ no = FALSE
  OBVIOUS
<1>6. StartOf("openai") = OpenAi(no, no, {}, CallsTold(r, 0))
  BY <1>1, <1>2
<1> HIDE DEF no
<1>7. OpenAiHeard(Going(StartOf("openai"), Coll(<< >>)), r, 0)
  <2> DEFINE q == Going(StartOf("openai"), Coll(<< >>))
  <2>1. q = Going(OpenAi(no, no, {}, CallsTold(r, 0)), Coll(<< >>))
    BY <1>6
  <2> HIDE DEF q
  <2>2. OpenAiHeard(q, r, 0)
    BY ONLY <1>3, <1>4, <1>5, <2>1, Zenon DEF OpenAiHeard
  <2> QED BY <2>2 DEF q
<1> QED BY <1>1, <1>7

LEMMA OpenAiListens ==
  ASSUME NEW r, Whole(r), NEW step
  PROVE  LET ss == [i \in DOMAIN r.items |-> OpenAiItemWire(r, i)]
         IN /\ IsSeq(FlattenSeq(ss))
            /\ OpenAiHeard(Consume(At("openai", r, step), Going(StartOf("openai"), Coll(<< >>)), FlattenSeq(ss)),
                           r, Len(r.items))
<1> DEFINE ss == [i \in DOMAIN r.items |-> OpenAiItemWire(r, i)]
           N == Len(r.items)
           at == At("openai", r, step)
           q == Going(StartOf("openai"), Coll(<< >>))
           P == {n \in Nat : n <= N => OpenAiHeard(Consume(at, q, FlattenSeq(Prefix(ss, n))), r, n)}
<1>1. IsResponse(r) /\ N \in Nat /\ DOMAIN r.items = 1 .. N
  BY ItemsOf DEF Whole
<1>2. IsSeq(ss) /\ Len(ss) = N /\ \A i \in DOMAIN ss : IsSeq(ss[i]) /\ ss[i] = OpenAiItemWire(r, i)
  <2>1. ss = [i \in 1 .. N |-> ss[i]] /\ \A i \in 1 .. N : ss[i] = OpenAiItemWire(r, i)
    BY <1>1
  <2>2. \A i \in 1 .. N : IsSeq(OpenAiItemWire(r, i))
    BY <1>1, OpenAiItemSends
  <2> HIDE DEF ss
  <2>3. IsSeq(ss) /\ Len(ss) = N /\ DOMAIN ss = 1 .. N
    BY <1>1, <2>1, FunctionIsSeq
  <2> QED BY <2>1, <2>2, <2>3
<1> HIDE DEF ss, q
<1>3. 0 \in P
  <2>1. FlattenSeq(Prefix(ss, 0)) = << >>
    BY PrefixGrows, FlattenEmpty
  <2>2. OpenAiHeard(q, r, 0)
    BY OpenAiAtFirst DEF q
  <2>3. Consume(at, q, << >>) = q
    BY ConsumeNone
  <2> QED BY <2>1, <2>2, <2>3
<1>4. ASSUME NEW n \in P PROVE n + 1 \in P
  <2> SUFFICES ASSUME n + 1 <= N
               PROVE  OpenAiHeard(Consume(at, q, FlattenSeq(Prefix(ss, n + 1))), r, n + 1)
    OBVIOUS
  <2> DEFINE p == Consume(at, q, FlattenSeq(Prefix(ss, n)))
  <2>1. n \in Nat /\ n < Len(ss) /\ n + 1 \in DOMAIN r.items /\ n + 1 \in DOMAIN ss /\ OpenAiHeard(p, r, n)
    BY <1>1, <1>2, IsSeqFacts
  <2> HIDE DEF p
  <2>2. Consume(at, q, FlattenSeq(Prefix(ss, n + 1))) = Consume(at, p, ss[n + 1])
    BY ONLY <1>2, <2>1, ConsumeItem DEF p
  <2>3. ss[n + 1] = OpenAiItemWire(r, n + 1)
    BY <1>2, <2>1
  <2>4. OpenAiHeard(Consume(at, p, OpenAiItemWire(r, n + 1)), r, n + 1)
    BY <2>1, OpenAiItem
  <2> QED BY ONLY <2>2, <2>3, <2>4
<1>5. OpenAiHeard(Consume(at, q, FlattenSeq(Prefix(ss, N))), r, N)
  <2>1. P = Nat
    <3>1. P \in SUBSET Nat
      OBVIOUS
    <3> HIDE DEF P
    <3> QED BY <1>3, <1>4, <3>1, Induct
  <2> QED BY <1>1, <2>1
<1>6. Prefix(ss, N) = ss
  BY <1>2, PrefixWhole DEF IsSeq
<1>7. IsSeq(FlattenSeq(ss))
  BY <1>2, FlattenIsSeq
<1> QED BY <1>1, <1>5, <1>6, <1>7 DEF ss, q, N

LEMMA OpenAiCompletes ==
  ASSUME NEW r, Whole(r), NEW step, NEW t \in BOOLEAN, NEW g, NEW c, NEW S, NEW s, NEW U,
         NEW before, Remains(r, t, S, U, s, before),
         Kept(s, {"item"}, Len(r.items))
  PROVE  Tells(Consume(At("openai", r, step), Going(OpenAi(t, g, c, S), Coll(s)), <<[type |-> "completed"]>>).c, r)
<1> DEFINE d == OpenAi(t, g, c, S)
           w == [type |-> "completed"]
           at == At("openai", r, step)
           events == OpenAiTerminal(d, step, r)
<1>1. Len(r.items) \in Nat
  BY ItemsOf DEF Whole
<1>2. Unnamed(s, "terminal text") /\ Unnamed(s, "tool") /\ Unnamed(s, "reasoning")
  <2>1. \A other : other \notin {"item"} => Unnamed(s, other)
    BY ONLY <1>1, Kept(s, {"item"}, Len(r.items)), KeptNames
  <2>2. "terminal text" \notin {"item"} /\ "tool" \notin {"item"} /\ "reasoning" \notin {"item"}
    OBVIOUS
  <2> QED BY ONLY <2>1, <2>2
<1>3. Tells(PushAll(Coll(s), events), r)
  <2>1. Tells(PushAll(Coll(s), OpenAiTerminal(OpenAi(t, g, c, S), step, r)), r)
    BY <1>2, OpenAiTerminalTells
  <2> QED BY ONLY <2>1
<1>4. Decode("openai", d, w, step, r) = Over(d, events)
  <2>1. OpenAiEvent(d, w, step, r) = Over(d, events)
    <3> HIDE DEF d, events
    <3>1. w.type = "completed"
      OBVIOUS
    <3> HIDE DEF w
    <3> QED BY ONLY <3>1 DEF OpenAiEvent, events
  <2> HIDE DEF d, events, w
  <2> QED BY <2>1, DecodeOfOpenAi
<1> HIDE DEF d, events, w, at
<1>5. Taken(at, Going(d, Coll(s)), w) = [d |-> d, c |-> PushAll(Coll(s), events), over |-> TRUE]
  <2>1. Decode(at.provider, d, w, at.step, at.response) = Over(d, events)
    BY <1>4, AtFields DEF at
  <2> QED BY ONLY <2>1, TakenOver
<1>6. Consume(at, Going(d, Coll(s)), <<w>>) = Taken(at, Going(d, Coll(s)), w)
  BY ConsumeOne
<1>7. Consume(at, Going(d, Coll(s)), <<w>>).c = PushAll(Coll(s), events)
  BY <1>5, <1>6
<1> QED BY <1>3, <1>7 DEF d, at, w

\* What OpenAI's adapter yields is the response.
LEMMA OpenAiTells ==
  ASSUME NEW r, Whole(r), NEW step, NEW whole \in BOOLEAN
  PROVE  Tells(Consume(At("openai", r, step), Going(StartOf("openai"), Coll(<< >>)), OpenAiWire(r, whole)).c, r)
<1> DEFINE ss == [i \in DOMAIN r.items |-> OpenAiItemWire(r, i)]
           N == Len(r.items)
           at == At("openai", r, step)
           q == Going(StartOf("openai"), Coll(<< >>))
           last == <<[type |-> "completed"]>>
           front == FlattenSeq(ss)
<1>1. IsResponse(r) /\ N \in Nat /\ DOMAIN r.items = 1 .. N
  BY ItemsOf DEF Whole
<1>2. OpenAiWire(r, whole) = (IF whole THEN << >> ELSE front) \o last
  BY DEF OpenAiWire
<1>3. IsSeq(last) /\ << >> \o last = last
  BY OneIsSeq, EmptyAtTheStart
<1>4. IsSeq(front) /\ OpenAiHeard(Consume(at, q, front), r, N)
  BY OpenAiListens
<1>5. CASE whole
  <2> DEFINE none == << >>
             no == FALSE
  <2>1. Holds(<< >>, none, InTo(r, {}, N)) /\ Kept(<< >>, {"item"}, N)
    <3>1. \A i \in 1 .. N : (IF i \in {} THEN CallRow(r, i) ELSE << >>) = << >>
      OBVIOUS
    <3>2. [i \in 1 .. N |-> IF i \in {} THEN CallRow(r, i) ELSE << >>] = [i \in 1 .. N |-> << >>]
      BY <3>1
    <3> DEFINE e == [i \in 1 .. N |-> << >>]
    <3>3. e = [i \in 1 .. N |-> e[i]] /\ \A i \in 1 .. N : e[i] = << >>
      OBVIOUS
    <3> HIDE DEF e
    <3>4. IsSeq(e) /\ DOMAIN e = 1 .. N
      BY <1>1, <3>3, FunctionIsSeq
    <3>5. FlattenSeq(e) = << >>
      BY <3>3, <3>4, FlattenNothing
    <3>6. InTo(r, {}, N) = << >>
      BY ONLY <3>2, <3>5 DEF InTo, e
    <3> QED BY ONLY <3>6, HoldsNothing DEF Kept
  <2>2. StartOf("openai") = OpenAi(no, no, {}, {}) /\ no \in BOOLEAN
    BY OpenAiAtFirst
  <2>3. none = IF no THEN TextOf(r) ELSE << >>
    OBVIOUS
  <2>4. \A i \in Places(r, "call") : i \in {} <=> i \in {}
    OBVIOUS
  <2> HIDE DEF none, no
  <2>5. Tells(Consume(At("openai", r, step), Going(OpenAi(no, no, {}, {}), Coll(<< >>)), <<[type |-> "completed"]>>).c, r)
    <3>1. Remains(r, no, {}, {}, << >>, none)
      BY ONLY <2>1, <2>3, <2>4 DEF Remains, N
    <3> QED BY ONLY Whole(r), <2>1, <2>2, <3>1, OpenAiCompletes DEF N
  <2> QED BY ONLY <1>2, <1>3, <1>5, <2>2, <2>5 DEF last
<1>6. CASE ~whole
  <2> DEFINE p == Consume(at, q, front)
  <2> HIDE DEF p
  <2>0. OpenAiHeard(p, r, N)
    BY <1>4 DEF p
  <2>1. PICK t, g, c, s :
      /\ t \in BOOLEAN /\ p = Going(OpenAi(t, g, c, CallsTold(r, N)), Coll(s))
      /\ t \/ TextTo(r, N) = << >>
      /\ Holds(s, TextTo(r, N), InTo(r, Told(r), N)) /\ Kept(s, {"item"}, N)
    BY <2>0, Zenon DEF OpenAiHeard
  <2>2. TextTo(r, N) = IF t THEN TextOf(r) ELSE << >>
    <3>1. TextOf(r) = TextTo(r, N)
      BY ResponseTells
    <3> QED BY ONLY <2>1, <3>1
  <2>3. \A i \in Places(r, "call") : i \in CallsTold(r, N) <=> i \in Told(r)
    BY <1>1 DEF Places, CallsTold, Told
  <2>4. Tells(Consume(At("openai", r, step), p, <<[type |-> "completed"]>>).c, r)
    <3> DEFINE S == CallsTold(r, N)
               U == Told(r)
               before == TextTo(r, N)
    <3>1. /\ p = Going(OpenAi(t, g, c, S), Coll(s)) /\ Remains(r, t, S, U, s, before)
          /\ Kept(s, {"item"}, Len(r.items))
      BY <2>1, <2>2, <2>3 DEF Remains
    <3> HIDE DEF S, U, before
    <3>2. t \in BOOLEAN
      BY <2>1
    <3> QED BY ONLY Whole(r), <3>1, <3>2, OpenAiCompletes
  <2>5. Consume(at, q, front \o last) = Consume(at, p, last)
    BY <1>3, <1>4, ConsumeConcat DEF p
  <2> QED BY ONLY <1>2, <1>6, <2>4, <2>5 DEF last, at, q
<1> QED BY <1>5, <1>6

(***************************************************************************)
(* Anthropic.                                                              *)
(***************************************************************************)

\* The decoder's state, and a block of it.
Ant(t, g, blocks, p) == [text |-> t, reasoning |-> g, blocks |-> blocks, paused |-> p]
Block(type, data, json, told) == [type |-> type, data |-> data, json |-> json, told |-> told]

LEMMA AntFields ==
  ASSUME NEW t, NEW g, NEW blocks, NEW p
  PROVE  /\ Ant(t, g, blocks, p).text = t /\ Ant(t, g, blocks, p).reasoning = g
         /\ Ant(t, g, blocks, p).blocks = blocks /\ Ant(t, g, blocks, p).paused = p
  BY DEF Ant

LEMMA BlockFields ==
  ASSUME NEW type, NEW data, NEW json, NEW told
  PROVE  /\ Block(type, data, json, told).type = type /\ Block(type, data, json, told).data = data
         /\ Block(type, data, json, told).json = json /\ Block(type, data, json, told).told = told
  BY DEF Block

LEMMA AntTextChange ==
  ASSUME NEW t, NEW g, NEW blocks, NEW p, NEW y
  PROVE  [Ant(t, g, blocks, p) EXCEPT !.text = y] = Ant(y, g, blocks, p)
  BY DEF Ant
LEMMA AntReasoningChange ==
  ASSUME NEW t, NEW g, NEW blocks, NEW p, NEW y
  PROVE  [Ant(t, g, blocks, p) EXCEPT !.reasoning = y] = Ant(t, y, blocks, p)
  BY DEF Ant
LEMMA AntPausedChange ==
  ASSUME NEW t, NEW g, NEW blocks, NEW p, NEW y
  PROVE  [Ant(t, g, blocks, p) EXCEPT !.paused = y] = Ant(t, g, blocks, y)
  BY DEF Ant
LEMMA AntBlocksChange ==
  ASSUME NEW t, NEW g, NEW blocks, NEW p, NEW y
  PROVE  [Ant(t, g, blocks, p) EXCEPT !.blocks = y] = Ant(t, g, y, p)
  BY DEF Ant

LEMMA LastChange ==
  ASSUME NEW old, IsSeq(old), NEW b, NEW y
  PROVE  /\ [Append(old, b) EXCEPT ![Len(old) + 1] = y] = Append(old, y)
         /\ Append(old, b)[Len(old) + 1] = b
<1> DEFINE n == Len(old)
           f == [i \in 1 .. n + 1 |-> IF i = n + 1 THEN b ELSE old[i]]
           g == [i \in 1 .. n + 1 |-> IF i = n + 1 THEN y ELSE old[i]]
<1>1. n \in Nat
  BY IsSeqFacts
<1>2. Append(old, b) = f /\ Append(old, y) = g
  BY AppendValues
<1>3. [f EXCEPT ![n + 1] = y] = g /\ f[n + 1] = b
  BY ONLY <1>1 DEF f, g
<1> QED BY <1>2, <1>3

\* The last block's data, arguments and mark.
LastBlock(t, g, old, b, p) == Ant(t, g, Append(old, b), p)

LEMMA LastBlockIs ==
  ASSUME NEW t, NEW g, NEW old, IsSeq(old), NEW b, NEW p
  PROVE  LastBlock(t, g, old, b, p).blocks[Len(old) + 1] = b
<1>1. Append(old, b)[Len(old) + 1] = b
  BY LastChange
<1>2. LastBlock(t, g, old, b, p).blocks = Append(old, b)
  BY DEF LastBlock, Ant
<1> QED BY <1>1, <1>2

\* The decoder's changes to its state.
SetData(d, i, y) == [d EXCEPT !.blocks[i].data = y]
SetJson(d, i, y) == [d EXCEPT !.blocks[i].json = y]
SetTold(d, i, y) == [d EXCEPT !.blocks[i].told = y]
SetText(d, y) == [d EXCEPT !.text = y]
SetReasoning(d, y) == [d EXCEPT !.reasoning = y]
SetBlocks(d, y) == [d EXCEPT !.blocks = y]
SetPaused(d, y) == [d EXCEPT !.paused = y]

\* A block with another value of a field.
BlockDataSet(b, y) == [b EXCEPT !.data = y]
BlockJsonSet(b, y) == [b EXCEPT !.json = y]
BlockToldSet(b, y) == [b EXCEPT !.told = y]

LEMMA LastBlockData ==
  ASSUME NEW t, NEW g, NEW old, IsSeq(old), NEW b, NEW p, NEW y
  PROVE  SetData(LastBlock(t, g, old, b, p), Len(old) + 1, y) = LastBlock(t, g, old, BlockDataSet(b, y), p)
<1> DEFINE bl == Append(old, b)
           i == Len(old) + 1
<1>1. [bl EXCEPT ![i].data = y] = Append(old, [b EXCEPT !.data = y])
  <2>1. bl[i] = b
    BY LastChange
  <2>2. [bl EXCEPT ![i].data = y] = [bl EXCEPT ![i] = [bl[i] EXCEPT !.data = y]]
    OBVIOUS
  <2>3. [bl EXCEPT ![i] = [b EXCEPT !.data = y]] = Append(old, [b EXCEPT !.data = y])
    BY LastChange
  <2> QED BY <2>1, <2>2, <2>3
<1> HIDE DEF bl, i
<1>2. [Ant(t, g, bl, p) EXCEPT !.blocks[i].data = y] = Ant(t, g, [bl EXCEPT ![i].data = y], p)
  BY DEF Ant
<1>3. SetData(Ant(t, g, bl, p), i, y) = Ant(t, g, [bl EXCEPT ![i].data = y], p)
  BY <1>2 DEF SetData
<1>4. [bl EXCEPT ![i].data = y] = Append(old, BlockDataSet(b, y))
  BY <1>1, Zenon DEF BlockDataSet, bl, i
<1> QED BY <1>3, <1>4, Zenon DEF LastBlock, bl, i

LEMMA LastBlockJson ==
  ASSUME NEW t, NEW g, NEW old, IsSeq(old), NEW b, NEW p, NEW y
  PROVE  SetJson(LastBlock(t, g, old, b, p), Len(old) + 1, y) = LastBlock(t, g, old, BlockJsonSet(b, y), p)
<1> DEFINE bl == Append(old, b)
           i == Len(old) + 1
<1>1. [bl EXCEPT ![i].json = y] = Append(old, [b EXCEPT !.json = y])
  <2>1. bl[i] = b
    BY LastChange
  <2>2. [bl EXCEPT ![i].json = y] = [bl EXCEPT ![i] = [bl[i] EXCEPT !.json = y]]
    OBVIOUS
  <2>3. [bl EXCEPT ![i] = [b EXCEPT !.json = y]] = Append(old, [b EXCEPT !.json = y])
    BY LastChange
  <2> QED BY <2>1, <2>2, <2>3
<1> HIDE DEF bl, i
<1>2. [Ant(t, g, bl, p) EXCEPT !.blocks[i].json = y] = Ant(t, g, [bl EXCEPT ![i].json = y], p)
  BY DEF Ant
<1>3. SetJson(Ant(t, g, bl, p), i, y) = Ant(t, g, [bl EXCEPT ![i].json = y], p)
  BY <1>2 DEF SetJson
<1>4. [bl EXCEPT ![i].json = y] = Append(old, BlockJsonSet(b, y))
  BY <1>1, Zenon DEF BlockJsonSet, bl, i
<1> QED BY <1>3, <1>4, Zenon DEF LastBlock, bl, i

LEMMA LastBlockTold ==
  ASSUME NEW t, NEW g, NEW old, IsSeq(old), NEW b, NEW p, NEW y
  PROVE  SetTold(LastBlock(t, g, old, b, p), Len(old) + 1, y) = LastBlock(t, g, old, BlockToldSet(b, y), p)
<1> DEFINE bl == Append(old, b)
           i == Len(old) + 1
<1>1. [bl EXCEPT ![i].told = y] = Append(old, [b EXCEPT !.told = y])
  <2>1. bl[i] = b
    BY LastChange
  <2>2. [bl EXCEPT ![i].told = y] = [bl EXCEPT ![i] = [bl[i] EXCEPT !.told = y]]
    OBVIOUS
  <2>3. [bl EXCEPT ![i] = [b EXCEPT !.told = y]] = Append(old, [b EXCEPT !.told = y])
    BY LastChange
  <2> QED BY <2>1, <2>2, <2>3
<1> HIDE DEF bl, i
<1>2. [Ant(t, g, bl, p) EXCEPT !.blocks[i].told = y] = Ant(t, g, [bl EXCEPT ![i].told = y], p)
  BY DEF Ant
<1>3. SetTold(Ant(t, g, bl, p), i, y) = Ant(t, g, [bl EXCEPT ![i].told = y], p)
  BY <1>2 DEF SetTold
<1>4. [bl EXCEPT ![i].told = y] = Append(old, BlockToldSet(b, y))
  BY <1>1, Zenon DEF BlockToldSet, bl, i
<1> QED BY <1>3, <1>4, Zenon DEF LastBlock, bl, i

LEMMA BlockData ==
  ASSUME NEW type, NEW data, NEW json, NEW told, NEW y
  PROVE  BlockDataSet(Block(type, data, json, told), y) = Block(type, y, json, told)
  BY DEF Block, BlockDataSet
LEMMA BlockJson ==
  ASSUME NEW type, NEW data, NEW json, NEW told, NEW y
  PROVE  BlockJsonSet(Block(type, data, json, told), y) = Block(type, data, y, told)
  BY DEF Block, BlockJsonSet
LEMMA BlockTold ==
  ASSUME NEW type, NEW data, NEW json, NEW told, NEW y
  PROVE  BlockToldSet(Block(type, data, json, told), y) = Block(type, data, json, y)
  BY DEF Block, BlockToldSet

Unheard == FALSE

LEMMA LastSetData ==
  ASSUME NEW t, NEW g, NEW old, IsSeq(old), NEW p, NEW type, NEW x, NEW j, NEW k,
         NEW i, i = Len(old) + 1, NEW y
  PROVE  SetData(LastBlock(t, g, old, Block(type, x, j, k), p), i, y)
           = LastBlock(t, g, old, Block(type, y, j, k), p)
<1> DEFINE b == Block(type, x, j, k)
<1>1. BlockDataSet(b, y) = Block(type, y, j, k)
  BY BlockData
<1> HIDE DEF b
<1>2. SetData(LastBlock(t, g, old, b, p), Len(old) + 1, y) = LastBlock(t, g, old, BlockDataSet(b, y), p)
  BY LastBlockData
<1>3. SetData(LastBlock(t, g, old, b, p), i, y) = LastBlock(t, g, old, Block(type, y, j, k), p)
  BY ONLY <1>1, <1>2, i = Len(old) + 1
<1> QED BY <1>3 DEF b

LEMMA LastSetJson ==
  ASSUME NEW t, NEW g, NEW old, IsSeq(old), NEW p, NEW type, NEW x, NEW j, NEW k,
         NEW i, i = Len(old) + 1, NEW y
  PROVE  SetJson(LastBlock(t, g, old, Block(type, x, j, k), p), i, y)
           = LastBlock(t, g, old, Block(type, x, y, k), p)
<1> DEFINE b == Block(type, x, j, k)
<1>1. BlockJsonSet(b, y) = Block(type, x, y, k)
  BY BlockJson
<1> HIDE DEF b
<1>2. SetJson(LastBlock(t, g, old, b, p), Len(old) + 1, y) = LastBlock(t, g, old, BlockJsonSet(b, y), p)
  BY LastBlockJson
<1>3. SetJson(LastBlock(t, g, old, b, p), i, y) = LastBlock(t, g, old, Block(type, x, y, k), p)
  BY ONLY <1>1, <1>2, i = Len(old) + 1
<1> QED BY <1>3 DEF b

LEMMA LastSetTold ==
  ASSUME NEW t, NEW g, NEW old, IsSeq(old), NEW p, NEW type, NEW x, NEW j, NEW k,
         NEW i, i = Len(old) + 1, NEW y
  PROVE  SetTold(LastBlock(t, g, old, Block(type, x, j, k), p), i, y)
           = LastBlock(t, g, old, Block(type, x, j, y), p)
<1> DEFINE b == Block(type, x, j, k)
<1>1. BlockToldSet(b, y) = Block(type, x, j, y)
  BY BlockTold
<1> HIDE DEF b
<1>2. SetTold(LastBlock(t, g, old, b, p), Len(old) + 1, y) = LastBlock(t, g, old, BlockToldSet(b, y), p)
  BY LastBlockTold
<1>3. SetTold(LastBlock(t, g, old, b, p), i, y) = LastBlock(t, g, old, Block(type, x, j, y), p)
  BY ONLY <1>1, <1>2, i = Len(old) + 1
<1> QED BY <1>3 DEF b

LEMMA LastSetText ==
  ASSUME NEW t, NEW g, NEW old, NEW p, NEW b, NEW y
  PROVE  SetText(LastBlock(t, g, old, b, p), y) = LastBlock(y, g, old, b, p)
<1>1. \A bl : [Ant(t, g, bl, p) EXCEPT !.text = y] = Ant(y, g, bl, p)
  BY DEF Ant
<1> QED BY <1>1, Zenon DEF LastBlock, SetText

LEMMA LastSetReasoning ==
  ASSUME NEW t, NEW g, NEW old, NEW p, NEW b, NEW y
  PROVE  SetReasoning(LastBlock(t, g, old, b, p), y) = LastBlock(t, y, old, b, p)
<1>1. \A bl : [Ant(t, g, bl, p) EXCEPT !.reasoning = y] = Ant(t, y, bl, p)
  BY DEF Ant
<1> QED BY <1>1, Zenon DEF LastBlock, SetReasoning

LEMMA AddBlock ==
  ASSUME NEW t, NEW g, NEW old, NEW p, NEW b
  PROVE  SetBlocks(Ant(t, g, old, p), Append(old, b)) = LastBlock(t, g, old, b, p)
<1>1. \A bl : [Ant(t, g, old, p) EXCEPT !.blocks = bl] = Ant(t, g, bl, p)
  BY DEF Ant
<1> QED BY <1>1, Zenon DEF LastBlock, SetBlocks

LEMMA DecodeOfAnthropic ==
  ASSUME NEW d, NEW w, NEW step, NEW r
  PROVE  Decode("anthropic", d, w, step, r) = AnthropicEvent(d, w, step, r)
  BY DEF Decode

(***************************************************************************)
(* The decoder's steps.                                                    *)
(***************************************************************************)
\* A block's events.
BlockStart(i, x) == [type |-> "blockStart", at |-> i, data |-> x]
BlockDelta(i, x) == [type |-> "blockDelta", at |-> i, data |-> x]
BlockStop(i) == [type |-> "blockStop", at |-> i]

LEMMA BlockEvents ==
  ASSUME NEW i, NEW x
  PROVE  /\ BlockStart(i, x).type = "blockStart" /\ BlockStart(i, x).at = i /\ BlockStart(i, x).data = x
         /\ BlockDelta(i, x).type = "blockDelta" /\ BlockDelta(i, x).at = i /\ BlockDelta(i, x).data = x
         /\ BlockStop(i).type = "blockStop" /\ BlockStop(i).at = i
  BY DEF BlockStart, BlockDelta, BlockStop

LEMMA AntDelta ==
  ASSUME NEW d, NEW i, NEW x, NEW step, NEW r
  PROVE  Decode("anthropic", d, BlockDelta(i, x), step, r) = AnthropicDelta(d, BlockDelta(i, x), step, r)
<1> DEFINE w == BlockDelta(i, x)
<1>1. w.type = "blockDelta"
  BY BlockEvents
<1> HIDE DEF w
<1>2. AnthropicEvent(d, w, step, r) = AnthropicDelta(d, w, step, r)
  BY <1>1 DEF AnthropicEvent
<1> QED BY <1>2, DecodeOfAnthropic DEF w

LEMMA AntDeltaText ==
  ASSUME NEW d, NEW i, NEW x, NEW step, NEW r, d.blocks[i].type = "text"
  PROVE  Decode("anthropic", d, BlockDelta(i, x), step, r)
           = Outcome(SetText(SetData(d, i, d.blocks[i].data \o x), Heard), <<TextDelta(<<"item", i>>, x)>>)
<1> DEFINE w == BlockDelta(i, x)
<1>1. w.at = i /\ w.data = x
  BY BlockEvents
<1> HIDE DEF w
<1>2. AnthropicDelta(d, w, step, r)
        = Outcome([[d EXCEPT !.blocks[w.at].data = @ \o w.data] EXCEPT !.text = TRUE],
                  <<TextDelta(<<"item", w.at>>, w.data)>>)
  BY <1>1 DEF AnthropicDelta
<1>3. [d EXCEPT !.blocks[w.at].data = @ \o w.data] = SetData(d, i, d.blocks[i].data \o x)
  BY <1>1 DEF SetData
<1>4. AnthropicDelta(d, w, step, r)
        = Outcome([SetData(d, i, d.blocks[i].data \o x) EXCEPT !.text = TRUE], <<TextDelta(<<"item", i>>, x)>>)
  BY ONLY <1>1, <1>2, <1>3, Zenon
<1> QED BY <1>4, AntDelta DEF w, SetText, Heard

LEMMA AntDeltaThought ==
  ASSUME NEW d, NEW i, NEW x, NEW step, NEW r, d.blocks[i].type = "thought"
  PROVE  Decode("anthropic", d, BlockDelta(i, x), step, r)
           = Outcome(SetReasoning(SetData(d, i, d.blocks[i].data \o x), Heard), <<ReasoningDelta(<<"item", i>>, x)>>)
<1> DEFINE w == BlockDelta(i, x)
<1>1. w.at = i /\ w.data = x
  BY BlockEvents
<1> HIDE DEF w
<1>2. AnthropicDelta(d, w, step, r)
        = Outcome([[d EXCEPT !.blocks[w.at].data = @ \o w.data] EXCEPT !.reasoning = TRUE],
                  <<ReasoningDelta(<<"item", w.at>>, w.data)>>)
  BY <1>1 DEF AnthropicDelta
<1>3. [d EXCEPT !.blocks[w.at].data = @ \o w.data] = SetData(d, i, d.blocks[i].data \o x)
  BY <1>1 DEF SetData
<1>4. AnthropicDelta(d, w, step, r)
        = Outcome([SetData(d, i, d.blocks[i].data \o x) EXCEPT !.reasoning = TRUE], <<ReasoningDelta(<<"item", i>>, x)>>)
  BY ONLY <1>1, <1>2, <1>3, Zenon
<1> QED BY <1>4, AntDelta DEF w, SetReasoning, Heard

LEMMA AntDeltaCall ==
  ASSUME NEW d, NEW i, NEW x, NEW step, NEW r, d.blocks[i].type = "call"
  PROVE  Decode("anthropic", d, BlockDelta(i, x), step, r)
           = Outcome(SetTold(SetJson(d, i, d.blocks[i].json \o x), i, Heard), <<AnthropicCall(step, r, i, x)>>)
<1> DEFINE w == BlockDelta(i, x)
<1>1. w.at = i /\ w.data = x
  BY BlockEvents
<1> HIDE DEF w
<1>2. AnthropicDelta(d, w, step, r)
        = Outcome([d EXCEPT !.blocks[w.at].json = @ \o w.data, !.blocks[w.at].told = TRUE],
                  <<AnthropicCall(step, r, w.at, w.data)>>)
  BY <1>1 DEF AnthropicDelta
<1>3. [d EXCEPT !.blocks[w.at].json = @ \o w.data, !.blocks[w.at].told = TRUE]
        = SetTold(SetJson(d, i, d.blocks[i].json \o x), i, TRUE)
  BY <1>1 DEF SetJson, SetTold
<1>4. AnthropicDelta(d, w, step, r)
        = Outcome(SetTold(SetJson(d, i, d.blocks[i].json \o x), i, TRUE), <<AnthropicCall(step, r, i, x)>>)
  BY ONLY <1>1, <1>2, <1>3, Zenon
<1> QED BY <1>4, AntDelta DEF w, Heard

LEMMA AntStops ==
  ASSUME NEW d, NEW i, NEW step, NEW r, NEW data,
         data = IF d.blocks[i].json = << >> THEN d.blocks[i].data ELSE d.blocks[i].json,
         d.blocks[i].json = << >> \/ Parses(d.blocks[i].json)
  PROVE  Decode("anthropic", d, BlockStop(i), step, r)
           = Outcome(SetData(d, i, data),
                     IF d.blocks[i].type = "call" /\ ~d.blocks[i].told
                     THEN <<AnthropicCall(step, r, i, data)>> ELSE << >>)
<1> DEFINE w == BlockStop(i)
<1>1. w.at = i /\ w.type = "blockStop"
  BY BlockEvents
<1> HIDE DEF w
<1>2. AnthropicEvent(d, w, step, r) = AnthropicStop(d, w, step, r)
  BY <1>1 DEF AnthropicEvent
<1>3. AnthropicStop(d, w, step, r)
        = Outcome([d EXCEPT !.blocks[w.at].data = data],
                  IF d.blocks[w.at].type = "call" /\ ~d.blocks[w.at].told
                  THEN <<AnthropicCall(step, r, w.at, data)>> ELSE << >>)
  BY <1>1 DEF AnthropicStop
<1>4. [d EXCEPT !.blocks[w.at].data = data] = SetData(d, i, data)
  BY <1>1, Zenon DEF SetData
<1>5. AnthropicStop(d, w, step, r)
        = Outcome(SetData(d, i, data),
                  IF d.blocks[i].type = "call" /\ ~d.blocks[i].told
                  THEN <<AnthropicCall(step, r, i, data)>> ELSE << >>)
  BY ONLY <1>1, <1>3, <1>4
<1>6. Decode("anthropic", d, w, step, r) = AnthropicStop(d, w, step, r)
  BY <1>2, DecodeOfAnthropic
<1> QED BY ONLY <1>5, <1>6 DEF w

\* A block that starts with text tells it at once.
Starting(d, i, x, r) == r.items[i].type = "text" /\ x # << >>
LEMMA AntStarts ==
  ASSUME NEW d, NEW i, NEW x, NEW step, NEW r
  PROVE  Decode("anthropic", d, BlockStart(i, x), step, r)
           = Outcome(SetText(SetBlocks(d, Append(d.blocks, Block(r.items[i].type, x, << >>, Unheard))),
                             d.text \/ Starting(d, i, x, r)),
                     IF Starting(d, i, x, r) THEN <<TextDelta(<<"item", i>>, x)>> ELSE << >>)
<1> DEFINE w == BlockStart(i, x)
           b == [type |-> r.items[w.at].type, data |-> w.data, json |-> << >>, told |-> FALSE]
           starts == r.items[w.at].type = "text" /\ w.data # << >>
           e == [d EXCEPT !.blocks = Append(@, b), !.text = @ \/ starts]
<1>1. w.at = i /\ w.data = x /\ w.type = "blockStart"
  BY BlockEvents
<1> HIDE DEF w
<1>2. AnthropicEvent(d, w, step, r)
        = Outcome(e, IF starts THEN <<TextDelta(<<"item", w.at>>, w.data)>> ELSE << >>)
  BY <1>1 DEF AnthropicEvent
<1>3. b = Block(r.items[i].type, x, << >>, Unheard)
  BY <1>1 DEF Block, Unheard
<1>4. starts <=> Starting(d, i, x, r)
  BY <1>1 DEF Starting
<1>5. starts = Starting(d, i, x, r)
  BY <1>4, Zenon DEF Starting
<1> HIDE DEF b, starts
<1>6. e = SetText(SetBlocks(d, Append(d.blocks, b)), d.text \/ starts)
  BY DEF SetText, SetBlocks
<1> HIDE DEF e
<1> QED BY <1>1, <1>2, <1>3, <1>5, <1>6, DecodeOfAnthropic, Zenon DEF w

LEMMA LastBlockFields ==
  ASSUME NEW t, NEW g, NEW old, IsSeq(old), NEW p, NEW type, NEW x, NEW j, NEW k,
         NEW i, i = Len(old) + 1
  PROVE  LET d == LastBlock(t, g, old, Block(type, x, j, k), p)
         IN /\ d.blocks[i].type = type /\ d.blocks[i].data = x
            /\ d.blocks[i].json = j /\ d.blocks[i].told = k
<1> DEFINE b == Block(type, x, j, k)
<1>1. b.type = type /\ b.data = x /\ b.json = j /\ b.told = k
  BY BlockFields
<1> HIDE DEF b
<1>2. LastBlock(t, g, old, b, p).blocks[i] = b
  BY LastBlockIs
<1>3. LET d == LastBlock(t, g, old, b, p)
      IN /\ d.blocks[i].type = type /\ d.blocks[i].data = x
         /\ d.blocks[i].json = j /\ d.blocks[i].told = k
  BY ONLY <1>1, <1>2
<1> QED BY <1>3 DEF b

\* A block starts, with or without text.
Opens(t, s, type, r, i, x) ==
  t \in BOOLEAN /\ IsSeq(s) /\ type = r.items[i].type /\ (type # "text" \/ x = << >>)
LEMMA AntOpened ==
  ASSUME NEW t, NEW g, NEW old, NEW p, NEW s, NEW r, NEW step,
         NEW i, NEW x, NEW type, Opens(t, s, type, r, i, x)
  PROVE  Taken(At("anthropic", r, step), Going(Ant(t, g, old, p), Coll(s)), BlockStart(i, x))
           = Going(LastBlock(t, g, old, Block(type, x, << >>, Unheard), p), Coll(s))
<1> DEFINE at == At("anthropic", r, step)
           d == Ant(t, g, old, p)
           b == Block(type, x, << >>, Unheard)
           w == BlockStart(i, x)
<1>0. t \in BOOLEAN /\ IsSeq(s) /\ type = r.items[i].type /\ (type # "text" \/ x = << >>)
  BY DEF Opens
<1>1. d.blocks = old /\ d.text = t
  BY AntFields
<1>2. at.provider = "anthropic" /\ at.response = r /\ at.step = step
  BY AtFields
<1>3. ~Starting(d, i, x, r)
  BY <1>0 DEF Starting
<1>4. (d.text \/ Starting(d, i, x, r)) = t
  BY <1>0, <1>1, <1>3
<1>5. SetBlocks(d, Append(old, b)) = LastBlock(t, g, old, b, p)
  BY AddBlock
<1>6. SetText(LastBlock(t, g, old, b, p), t) = LastBlock(t, g, old, b, p)
  BY LastSetText
<1>7. Decode("anthropic", d, w, step, r)
        = Outcome(SetText(SetBlocks(d, Append(d.blocks, Block(r.items[i].type, x, << >>, Unheard))),
                          d.text \/ Starting(d, i, x, r)),
                  IF Starting(d, i, x, r) THEN <<TextDelta(<<"item", i>>, x)>> ELSE << >>)
  BY AntStarts
<1>8. b = Block(r.items[i].type, x, << >>, Unheard)
  BY <1>0
<1> HIDE DEF d, b, w, at
<1>9. Decode("anthropic", d, w, step, r) = Outcome(LastBlock(t, g, old, b, p), << >>)
  BY ONLY <1>1, <1>3, <1>4, <1>5, <1>6, <1>7, <1>8
<1>10. Decode(at.provider, d, w, at.step, at.response) = Outcome(LastBlock(t, g, old, b, p), << >>)
  BY ONLY <1>2, <1>9
<1>11. Taken(at, Going(d, Coll(s)), w) = Going(LastBlock(t, g, old, b, p), PushAll(Coll(s), << >>))
  BY <1>10, TakenGoing
<1>12. PushAll(Coll(s), << >>) = Coll(s)
  BY <1>0, PushAllNothing
<1> QED BY <1>11, <1>12 DEF d, b, w, at

\* A text block starts with its text.
OpensText(t, s, r, i, x) ==
  t \in BOOLEAN /\ IsSeq(s) /\ "text" = r.items[i].type /\ x # << >> /\ Fresh(s, <<"item", i>>)
LEMMA AntOpenedText ==
  ASSUME NEW t, NEW g, NEW old, NEW p, NEW s, NEW r, NEW step,
         NEW i, NEW x, OpensText(t, s, r, i, x)
  PROVE  Taken(At("anthropic", r, step), Going(Ant(t, g, old, p), Coll(s)), BlockStart(i, x))
           = Going(LastBlock(Heard, g, old, Block("text", x, << >>, Unheard), p),
                   Coll(Append(s, TextDelta(<<"item", i>>, x))))
<1> DEFINE at == At("anthropic", r, step)
           d == Ant(t, g, old, p)
           b == Block("text", x, << >>, Unheard)
           w == BlockStart(i, x)
           e == TextDelta(<<"item", i>>, x)
<1>0. t \in BOOLEAN /\ IsSeq(s) /\ "text" = r.items[i].type /\ x # << >> /\ Fresh(s, <<"item", i>>)
  BY DEF OpensText
<1>1. d.blocks = old /\ d.text = t
  BY AntFields
<1>2. at.provider = "anthropic" /\ at.response = r /\ at.step = step
  BY AtFields
<1>3. Starting(d, i, x, r)
  BY <1>0 DEF Starting
<1>4. (d.text \/ Starting(d, i, x, r)) = Heard
  BY <1>0, <1>1, <1>3 DEF Heard
<1>5. SetBlocks(d, Append(old, b)) = LastBlock(t, g, old, b, p)
  BY AddBlock
<1>6. SetText(LastBlock(t, g, old, b, p), Heard) = LastBlock(Heard, g, old, b, p)
  BY LastSetText
<1>7. Decode("anthropic", d, w, step, r)
        = Outcome(SetText(SetBlocks(d, Append(d.blocks, Block(r.items[i].type, x, << >>, Unheard))),
                          d.text \/ Starting(d, i, x, r)),
                  IF Starting(d, i, x, r) THEN <<TextDelta(<<"item", i>>, x)>> ELSE << >>)
  BY AntStarts
<1>8. b = Block(r.items[i].type, x, << >>, Unheard)
  BY <1>0
<1>8a. e.type = "Text" /\ e.item = <<"item", i>>
  BY DEF TextDelta, Delta
<1> HIDE DEF d, b, w, at, e
<1>9. Decode("anthropic", d, w, step, r) = Outcome(LastBlock(Heard, g, old, b, p), <<e>>)
  BY ONLY <1>1, <1>3, <1>4, <1>5, <1>6, <1>7, <1>8 DEF e
<1>10. Decode(at.provider, d, w, at.step, at.response) = Outcome(LastBlock(Heard, g, old, b, p), <<e>>)
  BY ONLY <1>2, <1>9
<1>11. Taken(at, Going(d, Coll(s)), w) = Going(LastBlock(Heard, g, old, b, p), PushAll(Coll(s), <<e>>))
  BY <1>10, TakenGoing
<1>12. PushAll(Coll(s), <<e>>) = Coll(Append(s, e))
  BY <1>0, <1>8a, PushAllOne, PushNew
<1> QED BY <1>11, <1>12 DEF d, b, w, at, e

\* A block stops that has nothing more to tell.
Closes(old, s, i, type, x, j, k, y) ==
  /\ IsSeq(old) /\ IsSeq(s) /\ i = Len(old) + 1 /\ (type # "call" \/ k) /\ (j = << >> \/ Parses(j))
  /\ y = IF j = << >> THEN x ELSE j
LEMMA AntClosed ==
  ASSUME NEW t, NEW g, NEW old, NEW p, NEW s, NEW r, NEW step,
         NEW i, NEW type, NEW x, NEW j, NEW k, NEW y, Closes(old, s, i, type, x, j, k, y)
  PROVE  Taken(At("anthropic", r, step), Going(LastBlock(t, g, old, Block(type, x, j, k), p), Coll(s)), BlockStop(i))
           = Going(LastBlock(t, g, old, Block(type, y, j, k), p), Coll(s))
<1> DEFINE at == At("anthropic", r, step)
           d == LastBlock(t, g, old, Block(type, x, j, k), p)
           e == LastBlock(t, g, old, Block(type, y, j, k), p)
           w == BlockStop(i)
<1>0. IsSeq(old) /\ IsSeq(s) /\ i = Len(old) + 1 /\ (type # "call" \/ k) /\ (j = << >> \/ Parses(j))
  BY Zenon DEF Closes
<1>0a. y = IF j = << >> THEN x ELSE j
  BY DEF Closes
<1>1. d.blocks[i].type = type /\ d.blocks[i].data = x /\ d.blocks[i].json = j /\ d.blocks[i].told = k
  BY <1>0, LastBlockFields
<1>2. at.provider = "anthropic" /\ at.response = r /\ at.step = step
  BY AtFields
<1>3. SetData(d, i, y) = e
  BY <1>0, LastSetData
<1> HIDE DEF d, e, w, at
<1>4. Decode("anthropic", d, BlockStop(i), step, r)
        = Outcome(SetData(d, i, y),
                  IF d.blocks[i].type = "call" /\ ~d.blocks[i].told
                  THEN <<AnthropicCall(step, r, i, y)>> ELSE << >>)
  <2>1. y = (IF d.blocks[i].json = << >> THEN d.blocks[i].data ELSE d.blocks[i].json)
    BY ONLY <1>1, <1>0a
  <2>2. d.blocks[i].json = << >> \/ Parses(d.blocks[i].json)
    BY <1>0, <1>1
  <2> QED BY ONLY <2>1, <2>2, AntStops
<1>5. ~(d.blocks[i].type = "call" /\ ~d.blocks[i].told)
  BY <1>0, <1>1
<1>6. Decode(at.provider, d, w, at.step, at.response) = Outcome(e, << >>)
  BY ONLY <1>2, <1>3, <1>4, <1>5 DEF w
<1>7. Taken(at, Going(d, Coll(s)), w) = Going(e, PushAll(Coll(s), << >>))
  BY <1>6, TakenGoing
<1>8. PushAll(Coll(s), << >>) = Coll(s)
  BY <1>0, PushAllNothing
<1> QED BY <1>7, <1>8 DEF d, e, w, at

\* A call stops whose input was not streamed.
ClosesCall(old, s, i) == IsSeq(old) /\ IsSeq(s) /\ i = Len(old) + 1 /\ Fresh(s, <<"tool", i>>)
LEMMA AntClosedCall ==
  ASSUME NEW t, NEW g, NEW old, NEW p, NEW s, NEW r, NEW step,
         NEW i, NEW x, ClosesCall(old, s, i)
  PROVE  Taken(At("anthropic", r, step),
               Going(LastBlock(t, g, old, Block("call", x, << >>, Unheard), p), Coll(s)), BlockStop(i))
           = Going(LastBlock(t, g, old, Block("call", x, << >>, Unheard), p),
                   Coll(Append(s, AnthropicCall(step, r, i, x))))
<1> DEFINE at == At("anthropic", r, step)
           d == LastBlock(t, g, old, Block("call", x, << >>, Unheard), p)
           e == AnthropicCall(step, r, i, x)
           w == BlockStop(i)
<1>0. IsSeq(old) /\ IsSeq(s) /\ i = Len(old) + 1 /\ Fresh(s, <<"tool", i>>)
  BY DEF ClosesCall
<1>1. d.blocks[i].type = "call" /\ d.blocks[i].data = x /\ d.blocks[i].json = << >> /\ d.blocks[i].told = Unheard
  BY <1>0, LastBlockFields
<1>2. at.provider = "anthropic" /\ at.response = r /\ at.step = step
  BY AtFields
<1>3. SetData(d, i, x) = d
  BY <1>0, LastSetData
<1>3a. e.type = "Call" /\ e.item = <<"tool", i>>
  BY DEF AnthropicCall, CallDelta
<1> HIDE DEF d, e, w, at
<1>4. Decode("anthropic", d, BlockStop(i), step, r)
        = Outcome(SetData(d, i, x),
                  IF d.blocks[i].type = "call" /\ ~d.blocks[i].told
                  THEN <<AnthropicCall(step, r, i, x)>> ELSE << >>)
  <2>1. x = (IF d.blocks[i].json = << >> THEN d.blocks[i].data ELSE d.blocks[i].json)
    BY ONLY <1>1
  <2>2. d.blocks[i].json = << >> \/ Parses(d.blocks[i].json)
    BY <1>1
  <2> QED BY ONLY <2>1, <2>2, AntStops
<1>5. d.blocks[i].type = "call" /\ ~d.blocks[i].told
  BY <1>1 DEF Unheard
<1>6. Decode(at.provider, d, w, at.step, at.response) = Outcome(d, <<e>>)
  BY ONLY <1>2, <1>3, <1>4, <1>5 DEF w, e
<1>7. Taken(at, Going(d, Coll(s)), w) = Going(d, PushAll(Coll(s), <<e>>))
  BY <1>6, TakenGoing
<1>8. PushAll(Coll(s), <<e>>) = Coll(Append(s, e))
  BY <1>0, <1>3a, PushAllOne, PushNew
<1> QED BY <1>7, <1>8 DEF d, e, w, at

\* The events of an item's fragments; the fragments added up.
Grow(r, i) == [k \in DOMAIN Fragments(r, i, FALSE) |-> BlockDelta(i, Fragments(r, i, FALSE)[k])]
Summed(f) == [k \in 0 .. Len(f) |-> FlattenSeq(Prefix(f, k))]
LEMMA SummedValues ==
  ASSUME NEW f, IsSeq(f), \A k \in 1 .. Len(f) : IsSeq(f[k])
  PROVE  /\ Summed(f)[0] = << >> /\ Summed(f)[Len(f)] = FlattenSeq(f)
         /\ \A k \in 1 .. Len(f) : Summed(f)[k] = Summed(f)[k - 1] \o f[k]
<1>1. Len(f) \in Nat /\ DOMAIN f = 1 .. Len(f)
  BY IsSeqFacts
<1>2. Summed(f)[0] = << >>
  <2>1. FlattenSeq(Prefix(f, 0)) = << >>
    BY PrefixGrows, FlattenEmpty
  <2> QED BY <1>1, <2>1 DEF Summed
<1>3. Summed(f)[Len(f)] = FlattenSeq(f)
  <2>1. Prefix(f, Len(f)) = f
    BY PrefixWhole DEF IsSeq
  <2> QED BY <1>1, <2>1 DEF Summed
<1>4. ASSUME NEW k \in 1 .. Len(f) PROVE Summed(f)[k] = Summed(f)[k - 1] \o f[k]
  <2> DEFINE m == k - 1
             s == Prefix(f, m)
  <2>1. m \in Nat /\ m + 1 = k /\ m < Len(f) /\ k \in 0 .. Len(f) /\ m \in 0 .. Len(f)
    BY <1>1
  <2>2. Prefix(f, m + 1) = Append(s, f[m + 1]) /\ IsSeq(s)
    <3> HIDE DEF m
    <3> QED BY <2>1, PrefixGrows
  <2>3. \A j \in DOMAIN s : IsSeq(s[j])
    <3>1. DOMAIN s = 1 .. m /\ \A j \in 1 .. m : s[j] = f[j]
      BY <2>1 DEF Prefix
    <3> HIDE DEF s
    <3> QED BY <1>1, <2>1, <3>1
  <2>4. IsSeq(f[m + 1])
    BY <2>1
  <2> HIDE DEF s, m
  <2>5. FlattenSeq(Append(s, f[m + 1])) = FlattenSeq(s) \o f[m + 1]
    BY <2>2, <2>3, <2>4, FlattenAdd
  <2>6. Summed(f)[k] = FlattenSeq(Prefix(f, k)) /\ Summed(f)[m] = FlattenSeq(Prefix(f, m))
    BY <2>1 DEF Summed
  <2>7. Summed(f)[k] = Summed(f)[m] \o f[k]
    BY ONLY <2>1, <2>2, <2>5, <2>6 DEF s
  <2> QED BY <2>7 DEF m
<1> QED BY <1>2, <1>3, <1>4

LEMMA EmptyBefore == ASSUME NEW r, Whole(r), NEW i \in DOMAIN r.items
  PROVE /\ IsSeq(Fragments(r, i, FALSE)) /\ (\A k \in 1 .. Len(Fragments(r, i, FALSE)) : IsSeq(Fragments(r, i, FALSE)[k]))
        /\ FlattenSeq(Fragments(r, i, FALSE)) = DataOf(r, i) /\ Len(Fragments(r, i, FALSE)) \in Nat
        /\ (Len(Fragments(r, i, FALSE)) = 0 <=> r.items[i].size = 0)
  BY FragmentsFlatten

\* The decoder goes from an empty text block to the item's.
AntTextGrowth(r, step, i, t, g, p, old) ==
  \E D : /\ Growing(At("anthropic", r, step), TextDelta(<<"item", i>>, << >>), Fragments(r, i, FALSE), Grow(r, i), D)
         /\ Origin(D) = LastBlock(t, g, old, Block("text", << >>, << >>, Unheard), p)
         /\ Finally(D, Fragments(r, i, FALSE))
              = LastBlock(IF r.items[i].size = 0 THEN t ELSE Heard, g, old, Block("text", DataOf(r, i), << >>, Unheard), p)
LEMMA AntTextGrows ==
  ASSUME NEW r, Whole(r), NEW i \in DOMAIN r.items, NEW step, NEW t, NEW g, NEW p, NEW old, IsSeq(old),
         i = Len(old) + 1
  PROVE  AntTextGrowth(r, step, i, t, g, p, old)
<1> DEFINE f == Fragments(r, i, FALSE)
           n == Len(f)
           A == Summed(f)
           wire == [k \in DOMAIN f |-> BlockDelta(i, f[k])]
           heard(k) == IF k = 0 THEN t ELSE Heard
           D == [k \in 0 .. n |-> LastBlock(heard(k), g, old, Block("text", A[k], << >>, Unheard), p)]
           b == TextDelta(<<"item", i>>, << >>)
           at == At("anthropic", r, step)
<1>1. /\ IsSeq(f) /\ (\A k \in 1 .. n : IsSeq(f[k]))
      /\ FlattenSeq(f) = DataOf(r, i) /\ n \in Nat /\ (n = 0 <=> r.items[i].size = 0)
  BY EmptyBefore
<1>2. A[0] = << >> /\ A[n] = DataOf(r, i) /\ \A k \in 1 .. n : A[k] = A[k - 1] \o f[k]
  <2> HIDE DEF f
  <2> QED BY <1>1, SummedValues
<1>3. IsSeq(wire) /\ Len(wire) = n /\ DOMAIN f = 1 .. n /\ \A k \in 1 .. n : wire[k] = BlockDelta(i, f[k])
  <2> HIDE DEF f
  <2>1. wire = [k \in 1 .. n |-> wire[k]] /\ DOMAIN f = 1 .. n /\ \A k \in 1 .. n : wire[k] = BlockDelta(i, f[k])
    BY <1>1, IsSeqFacts
  <2> HIDE DEF wire
  <2> QED BY <1>1, <2>1, FunctionIsSeq
<1>4. at.provider = "anthropic" /\ at.response = r /\ at.step = step
  BY AtFields
<1>5. \A k \in 0 .. n : D[k] = LastBlock(heard(k), g, old, Block("text", A[k], << >>, Unheard), p)
  BY <1>1
<1> HIDE DEF f, n, A, wire, D, b, at
<1>6. ASSUME NEW k \in 1 .. n
      PROVE  Decode(at.provider, D[k - 1], wire[k], at.step, at.response) = Outcome(D[k], <<With(b, f[k])>>)
  <2> DEFINE h == heard(k - 1)
             a == A[k - 1]
             d == LastBlock(h, g, old, Block("text", a, << >>, Unheard), p)
             y == f[k]
  <2>1. k - 1 \in 0 .. n /\ k \in 0 .. n /\ heard(k) = Heard
    BY <1>1
  <2>2. D[k - 1] = d
    BY <1>5, <2>1
  <2>3. D[k] = LastBlock(Heard, g, old, Block("text", a \o y, << >>, Unheard), p)
    BY <1>2, <1>5, <2>1
  <2>4. With(b, y) = TextDelta(<<"item", i>>, y)
    BY DeltasGrow DEF b
  <2> HIDE DEF h, a, y, heard
  <2>5. d.blocks[i].type = "text" /\ d.blocks[i].data = a
    BY LastBlockFields
  <2>6. Decode("anthropic", d, BlockDelta(i, y), step, r) = Outcome(SetText(SetData(d, i, d.blocks[i].data \o y), Heard), <<TextDelta(<<"item", i>>, y)>>)
    <3> HIDE DEF d
    <3> QED BY <2>5, AntDeltaText
  <2>7. SetText(SetData(d, i, a \o y), Heard) = LastBlock(Heard, g, old, Block("text", a \o y, << >>, Unheard), p)
    <3> DEFINE z == a \o y
    <3> HIDE DEF z
    <3>1. SetText(SetData(d, i, z), Heard) = LastBlock(Heard, g, old, Block("text", z, << >>, Unheard), p)
      BY LastSetData, LastSetText
    <3> QED BY <3>1 DEF z
  <2> HIDE DEF d
  <2>8. wire[k] = BlockDelta(i, y)
    BY <1>3 DEF y
  <2>9. Decode("anthropic", d, BlockDelta(i, y), step, r) = Outcome(D[k], <<With(b, y)>>)
    BY ONLY <2>3, <2>4, <2>5, <2>6, <2>7
  <2> QED BY ONLY <1>4, <2>2, <2>8, <2>9 DEF y
<1>7. Growing(at, b, f, wire, D)
  BY <1>1, <1>3, <1>6, Zenon DEF Growing, n
<1>8. Origin(D) = LastBlock(t, g, old, Block("text", << >>, << >>, Unheard), p)
  <2>1. 0 \in 0 .. n /\ heard(0) = t
    BY <1>1
  <2> HIDE DEF heard
  <2> QED BY <1>2, <1>5, <2>1 DEF Origin
<1>9. Finally(D, f) = LastBlock(IF r.items[i].size = 0 THEN t ELSE Heard, g, old, Block("text", DataOf(r, i), << >>, Unheard), p)
  <2>1. n \in 0 .. n /\ heard(n) = IF r.items[i].size = 0 THEN t ELSE Heard
    BY <1>1
  <2> HIDE DEF heard
  <2>2. D[n] = LastBlock(heard(n), g, old, Block("text", DataOf(r, i), << >>, Unheard), p)
    BY <1>2, <1>5, <2>1
  <2> QED BY <2>1, <2>2 DEF Finally, n
<1>10. wire = Grow(r, i)
  BY DEF wire, Grow, f
<1> QED BY <1>7, <1>8, <1>9, <1>10, Zenon DEF at, b, f, AntTextGrowth

\* The same of a thought.
AntThoughtGrowth(r, step, i, t, g, p, old) ==
  \E D : /\ Growing(At("anthropic", r, step), ReasoningDelta(<<"item", i>>, << >>), Fragments(r, i, FALSE), Grow(r, i), D)
         /\ Origin(D) = LastBlock(t, g, old, Block("thought", << >>, << >>, Unheard), p)
         /\ Finally(D, Fragments(r, i, FALSE))
              = LastBlock(t, IF r.items[i].size = 0 THEN g ELSE Heard, old, Block("thought", DataOf(r, i), << >>, Unheard), p)
LEMMA AntThoughtGrows ==
  ASSUME NEW r, Whole(r), NEW i \in DOMAIN r.items, NEW step, NEW t, NEW g, NEW p, NEW old, IsSeq(old),
         i = Len(old) + 1
  PROVE  AntThoughtGrowth(r, step, i, t, g, p, old)
<1> DEFINE f == Fragments(r, i, FALSE)
           n == Len(f)
           A == Summed(f)
           wire == [k \in DOMAIN f |-> BlockDelta(i, f[k])]
           heard(k) == IF k = 0 THEN g ELSE Heard
           D == [k \in 0 .. n |-> LastBlock(t, heard(k), old, Block("thought", A[k], << >>, Unheard), p)]
           b == ReasoningDelta(<<"item", i>>, << >>)
           at == At("anthropic", r, step)
<1>1. /\ IsSeq(f) /\ (\A k \in 1 .. n : IsSeq(f[k]))
      /\ FlattenSeq(f) = DataOf(r, i) /\ n \in Nat /\ (n = 0 <=> r.items[i].size = 0)
  BY EmptyBefore
<1>2. A[0] = << >> /\ A[n] = DataOf(r, i) /\ \A k \in 1 .. n : A[k] = A[k - 1] \o f[k]
  <2> HIDE DEF f
  <2> QED BY <1>1, SummedValues
<1>3. IsSeq(wire) /\ Len(wire) = n /\ DOMAIN f = 1 .. n /\ \A k \in 1 .. n : wire[k] = BlockDelta(i, f[k])
  <2> HIDE DEF f
  <2>1. wire = [k \in 1 .. n |-> wire[k]] /\ DOMAIN f = 1 .. n /\ \A k \in 1 .. n : wire[k] = BlockDelta(i, f[k])
    BY <1>1, IsSeqFacts
  <2> HIDE DEF wire
  <2> QED BY <1>1, <2>1, FunctionIsSeq
<1>4. at.provider = "anthropic" /\ at.response = r /\ at.step = step
  BY AtFields
<1>5. \A k \in 0 .. n : D[k] = LastBlock(t, heard(k), old, Block("thought", A[k], << >>, Unheard), p)
  BY <1>1
<1> HIDE DEF f, n, A, wire, D, b, at
<1>6. ASSUME NEW k \in 1 .. n
      PROVE  Decode(at.provider, D[k - 1], wire[k], at.step, at.response) = Outcome(D[k], <<With(b, f[k])>>)
  <2> DEFINE h == heard(k - 1)
             a == A[k - 1]
             d == LastBlock(t, h, old, Block("thought", a, << >>, Unheard), p)
             y == f[k]
  <2>1. k - 1 \in 0 .. n /\ k \in 0 .. n /\ heard(k) = Heard
    BY <1>1
  <2>2. D[k - 1] = d
    BY <1>5, <2>1
  <2>3. D[k] = LastBlock(t, Heard, old, Block("thought", a \o y, << >>, Unheard), p)
    BY <1>2, <1>5, <2>1
  <2>4. With(b, y) = ReasoningDelta(<<"item", i>>, y)
    BY DeltasGrow DEF b
  <2> HIDE DEF h, a, y, heard
  <2>5. d.blocks[i].type = "thought" /\ d.blocks[i].data = a
    BY LastBlockFields
  <2>6. Decode("anthropic", d, BlockDelta(i, y), step, r) = Outcome(SetReasoning(SetData(d, i, d.blocks[i].data \o y), Heard), <<ReasoningDelta(<<"item", i>>, y)>>)
    <3> HIDE DEF d
    <3> QED BY <2>5, AntDeltaThought
  <2>7. SetReasoning(SetData(d, i, a \o y), Heard) = LastBlock(t, Heard, old, Block("thought", a \o y, << >>, Unheard), p)
    <3> DEFINE z == a \o y
    <3> HIDE DEF z
    <3>1. SetReasoning(SetData(d, i, z), Heard) = LastBlock(t, Heard, old, Block("thought", z, << >>, Unheard), p)
      BY LastSetData, LastSetReasoning
    <3> QED BY <3>1 DEF z
  <2> HIDE DEF d
  <2>8. wire[k] = BlockDelta(i, y)
    BY <1>3 DEF y
  <2>9. Decode("anthropic", d, BlockDelta(i, y), step, r) = Outcome(D[k], <<With(b, y)>>)
    BY ONLY <2>3, <2>4, <2>5, <2>6, <2>7
  <2> QED BY ONLY <1>4, <2>2, <2>8, <2>9 DEF y
<1>7. Growing(at, b, f, wire, D)
  BY <1>1, <1>3, <1>6, Zenon DEF Growing, n
<1>8. Origin(D) = LastBlock(t, g, old, Block("thought", << >>, << >>, Unheard), p)
  <2>1. 0 \in 0 .. n /\ heard(0) = g
    BY <1>1
  <2> HIDE DEF heard
  <2> QED BY <1>2, <1>5, <2>1 DEF Origin
<1>9. Finally(D, f) = LastBlock(t, IF r.items[i].size = 0 THEN g ELSE Heard, old, Block("thought", DataOf(r, i), << >>, Unheard), p)
  <2>1. n \in 0 .. n /\ heard(n) = IF r.items[i].size = 0 THEN g ELSE Heard
    BY <1>1
  <2> HIDE DEF heard
  <2>2. D[n] = LastBlock(t, heard(n), old, Block("thought", DataOf(r, i), << >>, Unheard), p)
    BY <1>2, <1>5, <2>1
  <2> QED BY <2>1, <2>2 DEF Finally, n
<1>10. wire = Grow(r, i)
  BY DEF wire, Grow, f
<1> QED BY <1>7, <1>8, <1>9, <1>10, Zenon DEF at, b, f, AntThoughtGrowth

\* The same of a call, whose arguments are kept apart.
AntCallGrowth(r, step, i, t, g, p, old, x) ==
  \E D : /\ Growing(At("anthropic", r, step), AnthropicCall(step, r, i, << >>), Fragments(r, i, FALSE), Grow(r, i), D)
         /\ Origin(D) = LastBlock(t, g, old, Block("call", x, << >>, Unheard), p)
         /\ Finally(D, Fragments(r, i, FALSE))
              = LastBlock(t, g, old, Block("call", x, DataOf(r, i), IF r.items[i].size = 0 THEN Unheard ELSE Heard), p)
LEMMA AntCallGrows ==
  ASSUME NEW r, Whole(r), NEW i \in DOMAIN r.items, NEW step, NEW t, NEW g, NEW p, NEW old, IsSeq(old),
         i = Len(old) + 1, NEW x
  PROVE  AntCallGrowth(r, step, i, t, g, p, old, x)
<1> DEFINE f == Fragments(r, i, FALSE)
           n == Len(f)
           A == Summed(f)
           wire == [k \in DOMAIN f |-> BlockDelta(i, f[k])]
           heard(k) == IF k = 0 THEN Unheard ELSE Heard
           D == [k \in 0 .. n |-> LastBlock(t, g, old, Block("call", x, A[k], heard(k)), p)]
           b == AnthropicCall(step, r, i, << >>)
           at == At("anthropic", r, step)
<1>1. /\ IsSeq(f) /\ (\A k \in 1 .. n : IsSeq(f[k]))
      /\ FlattenSeq(f) = DataOf(r, i) /\ n \in Nat /\ (n = 0 <=> r.items[i].size = 0)
  BY EmptyBefore
<1>2. A[0] = << >> /\ A[n] = DataOf(r, i) /\ \A k \in 1 .. n : A[k] = A[k - 1] \o f[k]
  <2> HIDE DEF f
  <2> QED BY <1>1, SummedValues
<1>3. IsSeq(wire) /\ Len(wire) = n /\ DOMAIN f = 1 .. n /\ \A k \in 1 .. n : wire[k] = BlockDelta(i, f[k])
  <2> HIDE DEF f
  <2>1. wire = [k \in 1 .. n |-> wire[k]] /\ DOMAIN f = 1 .. n /\ \A k \in 1 .. n : wire[k] = BlockDelta(i, f[k])
    BY <1>1, IsSeqFacts
  <2> HIDE DEF wire
  <2> QED BY <1>1, <2>1, FunctionIsSeq
<1>4. at.provider = "anthropic" /\ at.response = r /\ at.step = step
  BY AtFields
<1>5. \A k \in 0 .. n : D[k] = LastBlock(t, g, old, Block("call", x, A[k], heard(k)), p)
  BY <1>1
<1> HIDE DEF f, n, A, wire, D, b, at
<1>6. ASSUME NEW k \in 1 .. n
      PROVE  Decode(at.provider, D[k - 1], wire[k], at.step, at.response) = Outcome(D[k], <<With(b, f[k])>>)
  <2> DEFINE h == heard(k - 1)
             a == A[k - 1]
             d == LastBlock(t, g, old, Block("call", x, a, h), p)
             y == f[k]
  <2>1. k - 1 \in 0 .. n /\ k \in 0 .. n /\ heard(k) = Heard
    BY <1>1
  <2>2. D[k - 1] = d
    BY <1>5, <2>1
  <2>3. D[k] = LastBlock(t, g, old, Block("call", x, a \o y, Heard), p)
    BY <1>2, <1>5, <2>1
  <2>4. With(b, y) = AnthropicCall(step, r, i, y)
    BY CallGrows, DataFacts DEF b, AnthropicCall, Whole
  <2> HIDE DEF h, a, y, heard
  <2>5. d.blocks[i].type = "call" /\ d.blocks[i].json = a
    BY LastBlockFields
  <2>6. Decode("anthropic", d, BlockDelta(i, y), step, r) = Outcome(SetTold(SetJson(d, i, d.blocks[i].json \o y), i, Heard), <<AnthropicCall(step, r, i, y)>>)
    <3> HIDE DEF d
    <3> QED BY <2>5, AntDeltaCall
  <2>7. SetTold(SetJson(d, i, a \o y), i, Heard) = LastBlock(t, g, old, Block("call", x, a \o y, Heard), p)
    <3> DEFINE z == a \o y
    <3> HIDE DEF z
    <3>1. SetTold(SetJson(d, i, z), i, Heard) = LastBlock(t, g, old, Block("call", x, z, Heard), p)
      BY LastSetJson, LastSetTold
    <3> QED BY <3>1 DEF z
  <2> HIDE DEF d
  <2>8. wire[k] = BlockDelta(i, y)
    BY <1>3 DEF y
  <2>9. Decode("anthropic", d, BlockDelta(i, y), step, r) = Outcome(D[k], <<With(b, y)>>)
    BY ONLY <2>3, <2>4, <2>5, <2>6, <2>7
  <2> QED BY ONLY <1>4, <2>2, <2>8, <2>9 DEF y
<1>7. Growing(at, b, f, wire, D)
  BY <1>1, <1>3, <1>6, Zenon DEF Growing, n
<1>8. Origin(D) = LastBlock(t, g, old, Block("call", x, << >>, Unheard), p)
  <2>1. 0 \in 0 .. n /\ heard(0) = Unheard
    BY <1>1
  <2> HIDE DEF heard
  <2> QED BY <1>2, <1>5, <2>1 DEF Origin
<1>9. Finally(D, f) = LastBlock(t, g, old, Block("call", x, DataOf(r, i), IF r.items[i].size = 0 THEN Unheard ELSE Heard), p)
  <2>1. n \in 0 .. n /\ heard(n) = IF r.items[i].size = 0 THEN Unheard ELSE Heard
    BY <1>1
  <2> HIDE DEF heard
  <2>2. D[n] = LastBlock(t, g, old, Block("call", x, DataOf(r, i), heard(n)), p)
    BY <1>2, <1>5, <2>1
  <2> QED BY <2>1, <2>2 DEF Finally, n
<1>10. wire = Grow(r, i)
  BY DEF wire, Grow, f
<1> QED BY <1>7, <1>8, <1>9, <1>10, Zenon DEF at, b, f, AntCallGrowth

\* No block has text.
Silent(blocks) == \A k \in DOMAIN blocks : blocks[k].type = "text" => blocks[k].data = << >>
AntTags == {"item", "tool"}
\* What the decoder has assembled and told of the first n items.
AntBlocks(r, n, t, blocks, s) ==
  /\ t \in BOOLEAN /\ IsSeq(blocks) /\ Len(blocks) = n /\ (t \/ Silent(blocks))
  /\ Holds(s, TextTo(r, n), CallsTo(r, n)) /\ Kept(s, AntTags, n)

\* The decoder after n items, and before one more.
AntHeard(q, r, n) ==
  \E t, g, p, blocks, s : q = Going(Ant(t, g, blocks, p), Coll(s)) /\ AntBlocks(r, n, t, blocks, s)
AntReady(r, n, t, blocks, s) ==
  Whole(r) /\ n \in Nat /\ n + 1 \in DOMAIN r.items /\ AntBlocks(r, n, t, blocks, s)
\* What the next item leaves.
AntTold(r, n, t, t1, b, s1) ==
  /\ t1 \in BOOLEAN /\ (t => t1) /\ (t1 \/ b.type # "text" \/ b.data = << >>)
  /\ Holds(s1, TextTo(r, n) \o TextRow(r, n + 1), CallsTo(r, n) \o CallRow(r, n + 1))
  /\ Kept(s1, AntTags, n + 1)

LEMMA AntOnward ==
  ASSUME NEW r, NEW n, NEW t, NEW blocks, NEW s, AntReady(r, n, t, blocks, s),
         NEW t1, NEW b, NEW s1, AntTold(r, n, t, t1, b, s1), NEW g, NEW p
  PROVE  AntHeard(Going(LastBlock(t1, g, blocks, b, p), Coll(s1)), r, n + 1)
<1> DEFINE new == Append(blocks, b)
<1>1. Whole(r) /\ n \in Nat /\ n < Len(r.items)
  <2>1. IsResponse(r)
    BY DEF AntReady, Whole
  <2>2. Len(r.items) \in Nat /\ DOMAIN r.items = 1 .. Len(r.items)
    BY <2>1, ItemsOf
  <2> QED BY <2>2 DEF AntReady
<1>2. IsSeq(blocks) /\ Len(blocks) = n /\ (t \/ Silent(blocks)) /\ t \in BOOLEAN
  BY DEF AntReady, AntBlocks
<1>3. IsSeq(new) /\ Len(new) = n + 1 /\ DOMAIN new = 1 .. n + 1 /\ DOMAIN blocks = 1 .. n
      /\ new[n + 1] = b /\ \A i \in 1 .. n : new[i] = blocks[i]
  <2>1. IsSeq(new) /\ Len(new) = n + 1 /\ new[n + 1] = b /\ \A i \in 1 .. n : new[i] = blocks[i]
    BY <1>2, AppendIsSeq, ZenonT(30)
  <2> HIDE DEF new
  <2> QED BY <1>2, <2>1, IsSeqFacts
<1> HIDE DEF new
<1>4. t1 \/ Silent(new)
  <2> SUFFICES ASSUME ~t1, NEW k \in DOMAIN new, new[k].type = "text" PROVE new[k].data = << >>
    BY Zenon DEF Silent
  <2>1. Silent(blocks) /\ (b.type # "text" \/ b.data = << >>)
    BY <1>2 DEF AntTold
  <2>2. CASE k = n + 1
    BY <1>3, <2>1, <2>2
  <2>3. CASE k \in 1 .. n
    BY <1>3, <2>1, <2>3 DEF Silent
  <2> QED BY <1>1, <1>3, <2>2, <2>3
<1>5. /\ TextTo(r, n + 1) = TextTo(r, n) \o TextRow(r, n + 1)
      /\ CallsTo(r, n + 1) = CallsTo(r, n) \o CallRow(r, n + 1)
  BY <1>1, RowsTo
<1>6. AntBlocks(r, n + 1, t1, new, s1)
  BY <1>3, <1>4, <1>5, Zenon DEF AntBlocks, AntTold
<1> QED BY <1>6, Zenon DEF AntHeard, LastBlock, new

LEMMA ConsumeThree ==
  ASSUME NEW at, NEW q, NEW a, NEW mid, IsSeq(mid), NEW z
  PROVE  Consume(at, q, <<a>> \o mid \o <<z>>) = Taken(at, Consume(at, Taken(at, q, a), mid), z)
<1> DEFINE one == <<a>>
           last == <<z>>
<1>1. IsSeq(one) /\ IsSeq(last)
  BY OneIsSeq
<1>2. Consume(at, q, one) = Taken(at, q, a)
  BY ConsumeOne
<1>3. \A p : Consume(at, p, last) = Taken(at, p, z)
  BY ConsumeOne
<1> HIDE DEF one, last
<1>4. IsSeq(one \o mid)
  BY <1>1, ConcatIsSeq
<1>5. Consume(at, q, (one \o mid) \o last) = Consume(at, Consume(at, q, one \o mid), last)
  BY <1>1, <1>4, ConsumeConcat
<1>6. Consume(at, q, one \o mid) = Consume(at, Consume(at, q, one), mid)
  BY <1>1, ConsumeConcat
<1>7. (<<a>> \o mid) \o <<z>> = (one \o mid) \o last
  BY DEF one, last
<1> QED BY <1>2, <1>3, <1>5, <1>6, <1>7

LEMMA ConsumeTwo ==
  ASSUME NEW at, NEW q, NEW a, NEW z
  PROVE  Consume(at, q, <<a>> \o << >> \o <<z>>) = Taken(at, Taken(at, q, a), z)
<1> DEFINE none == << >>
<1>1. IsSeq(none)
  BY EmptyIsSeq
<1>2. Consume(at, Taken(at, q, a), none) = Taken(at, q, a)
  BY ConsumeNone
<1> HIDE DEF none
<1>3. Consume(at, q, <<a>> \o none \o <<z>>) = Taken(at, Consume(at, Taken(at, q, a), none), z)
  BY <1>1, ConsumeThree
<1>4. Consume(at, q, <<a>> \o none \o <<z>>) = Taken(at, Taken(at, q, a), z)
  BY ONLY <1>2, <1>3
<1> QED BY <1>4 DEF none

LEMMA AntReadyFacts ==
  ASSUME NEW r, NEW n, NEW t, NEW blocks, NEW s, AntReady(r, n, t, blocks, s)
  PROVE  /\ Whole(r) /\ n \in Nat /\ n + 1 \in DOMAIN r.items
         /\ t \in BOOLEAN /\ IsSeq(blocks) /\ n + 1 = Len(blocks) + 1
         /\ Holds(s, TextTo(r, n), CallsTo(r, n)) /\ IsSeq(s)
         /\ IsSeq(TextTo(r, n)) /\ IsSeq(CallsTo(r, n))
         /\ Kept(s, AntTags, n) /\ Kept(s, AntTags, n + 1)
         /\ Fresh(s, <<"item", n + 1>>) /\ Fresh(s, <<"tool", n + 1>>)
<1>1. /\ Whole(r) /\ n \in Nat /\ n + 1 \in DOMAIN r.items
      /\ t \in BOOLEAN /\ IsSeq(blocks) /\ n = Len(blocks)
      /\ Holds(s, TextTo(r, n), CallsTo(r, n)) /\ Kept(s, AntTags, n)
  BY DEF AntReady, AntBlocks
<1>2. IsSeq(s) /\ IsSeq(TextTo(r, n)) /\ IsSeq(CallsTo(r, n))
  BY <1>1, HoldsSeqs
<1>3. Kept(s, AntTags, n + 1) /\ \A tag : Fresh(s, <<tag, n + 1>>)
  BY <1>1, KeptNames
<1> QED BY <1>1, <1>2, <1>3

\* An item that tells nothing.
LEMMA AntTellsNothing ==
  ASSUME NEW r, NEW n, NEW t, NEW blocks, NEW s, AntReady(r, n, t, blocks, s), NEW b,
         b.type # "text" \/ b.data = << >>, TextRow(r, n + 1) = << >>, CallRow(r, n + 1) = << >>
  PROVE  AntTold(r, n, t, t, b, s)
<1> DEFINE text == TextTo(r, n)
           calls == CallsTo(r, n)
<1>1. text \o << >> = text /\ calls \o << >> = calls
  BY AntReadyFacts, EmptyAtTheEnd
<1>2. t \in BOOLEAN /\ Holds(s, text, calls) /\ Kept(s, AntTags, n + 1)
  BY AntReadyFacts
<1> HIDE DEF text, calls
<1>3. Holds(s, text \o TextRow(r, n + 1), calls \o CallRow(r, n + 1))
  BY <1>1, <1>2
<1> QED BY <1>2, <1>3, Zenon DEF AntTold, text, calls

\* An item that the event e tells whole.
LEMMA AntTellsOne ==
  ASSUME NEW r, NEW n, NEW t, NEW blocks, NEW s, AntReady(r, n, t, blocks, s), NEW b,
         NEW e, Sound(e), NEW tag \in AntTags, e.item = <<tag, n + 1>>,
         TextPart(e) = TextRow(r, n + 1), CallPart(e) = CallRow(r, n + 1),
         NEW t1 \in BOOLEAN, t => t1, t1 \/ b.type # "text" \/ b.data = << >>
  PROVE  AntTold(r, n, t, t1, b, Append(s, e))
<1> DEFINE text == TextTo(r, n)
           calls == CallsTo(r, n)
<1>1. Holds(s, text, calls) /\ Kept(s, AntTags, n) /\ n \in Nat
  BY AntReadyFacts
<1> HIDE DEF text, calls
<1>2. /\ Holds(Append(s, e), text \o TextPart(e), calls \o CallPart(e))
      /\ Kept(Append(s, e), AntTags, n + 1)
  BY <1>1, ItemTold
<1> QED BY <1>2, Zenon DEF AntTold, text, calls

\* The events of an item: a start, what is between, a stop.
AntWireIs(r, i, x, mid) == <<BlockStart(i, x)>> \o mid \o <<BlockStop(i)>>
LEMMA AntItemWire ==
  ASSUME NEW r, NEW i, NEW whole \in BOOLEAN
  PROVE  /\ whole /\ r.items[i].type = "call" => AnthropicItemWire(r, i, whole) = AntWireIs(r, i, ArgumentsOf(r, i), << >>)
         /\ whole /\ r.items[i].type # "call" => AnthropicItemWire(r, i, whole) = AntWireIs(r, i, DataOf(r, i), << >>)
         /\ ~whole /\ r.items[i].type = "search" => AnthropicItemWire(r, i, whole) = AntWireIs(r, i, << >>, << >>)
         /\ ~whole /\ r.items[i].type = "call" => AnthropicItemWire(r, i, whole) = AntWireIs(r, i, EmptyObject, Grow(r, i))
         /\ ~whole /\ r.items[i].type \notin {"search", "call"} => AnthropicItemWire(r, i, whole) = AntWireIs(r, i, << >>, Grow(r, i))
  BY DEF AnthropicItemWire, AntWireIs, Grow, BlockStart, BlockStop, BlockDelta

\* A block that tells nothing of itself.
LEMMA AntQuiet ==
  ASSUME NEW r, NEW n, NEW t, NEW blocks, NEW s, AntReady(r, n, t, blocks, s), NEW g, NEW p, NEW step,
         NEW x, r.items[n + 1].type # "call", r.items[n + 1].type # "text" \/ (x = << >> /\ DataOf(r, n + 1) = << >>)
  PROVE  AntHeard(Consume(At("anthropic", r, step), Going(Ant(t, g, blocks, p), Coll(s)),
                          AntWireIs(r, n + 1, x, << >>)), r, n + 1)
<1> DEFINE i == n + 1
           at == At("anthropic", r, step)
           type == r.items[i].type
           b == Block(type, x, << >>, Unheard)
           q == Going(Ant(t, g, blocks, p), Coll(s))
           q1 == Going(LastBlock(t, g, blocks, b, p), Coll(s))
<1>1. /\ Whole(r) /\ i \in DOMAIN r.items /\ t \in BOOLEAN /\ IsSeq(blocks) /\ i = Len(blocks) + 1 /\ IsSeq(s)
      /\ type # "call" /\ (type # "text" \/ (x = << >> /\ DataOf(r, i) = << >>)) /\ type = r.items[i].type
  <2>1. /\ Whole(r) /\ i \in DOMAIN r.items /\ t \in BOOLEAN /\ IsSeq(blocks) /\ i = Len(blocks) + 1 /\ IsSeq(s)
    BY ONLY AntReady(r, n, t, blocks, s), AntReadyFacts, ZenonT(30)
  <2> QED BY <2>1
<1>2. TextRow(r, i) = << >> /\ CallRow(r, i) = << >>
  BY <1>1, TextItem
<1>3. b.type = type /\ b.data = x
  BY BlockFields
<1> HIDE DEF i, type
<1>4. Taken(at, q, BlockStart(i, x)) = q1
  <2>1. Opens(t, s, type, r, i, x)
    BY <1>1 DEF Opens
  <2> QED BY ONLY <2>1, AntOpened DEF at, q, q1, b
<1>5. Taken(at, q1, BlockStop(i)) = q1
  <2>1. type # "call" \/ Unheard
    BY <1>1
  <2>2. x = IF << >> = << >> THEN x ELSE << >>
    OBVIOUS
  <2>3. Closes(blocks, s, i, type, x, << >>, Unheard, x)
    BY ONLY <1>1, <2>1, <2>2, Zenon DEF Closes
  <2> QED BY ONLY <2>3, AntClosed DEF at, q1, b
<1> HIDE DEF at, q, q1, b
<1>6. Consume(at, q, AntWireIs(r, i, x, << >>)) = q1
  <2>1. Consume(at, q, <<BlockStart(i, x)>> \o << >> \o <<BlockStop(i)>>) = Taken(at, Taken(at, q, BlockStart(i, x)), BlockStop(i))
    BY ConsumeTwo
  <2> QED BY ONLY <1>4, <1>5, <2>1 DEF AntWireIs
<1>7. AntTold(r, n, t, t, b, s)
  BY <1>1, <1>2, <1>3, AntTellsNothing DEF i
<1>8. AntHeard(q1, r, n + 1)
  BY <1>7, AntOnward DEF q1
<1> QED BY <1>6, <1>8 DEF at, q, i

\* A text that arrives with its block.
LEMMA AntTextWhole ==
  ASSUME NEW r, NEW n, NEW t, NEW blocks, NEW s, AntReady(r, n, t, blocks, s), NEW g, NEW p, NEW step,
         r.items[n + 1].type = "text", DataOf(r, n + 1) # << >>
  PROVE  AntHeard(Consume(At("anthropic", r, step), Going(Ant(t, g, blocks, p), Coll(s)),
                          AntWireIs(r, n + 1, DataOf(r, n + 1), << >>)), r, n + 1)
<1> DEFINE i == n + 1
           at == At("anthropic", r, step)
           x == DataOf(r, i)
           b == Block("text", x, << >>, Unheard)
           e == TextDelta(<<"item", i>>, x)
           q == Going(Ant(t, g, blocks, p), Coll(s))
           q1 == Going(LastBlock(Heard, g, blocks, b, p), Coll(Append(s, e)))
<1>1. /\ Whole(r) /\ i \in DOMAIN r.items /\ t \in BOOLEAN /\ IsSeq(blocks) /\ i = Len(blocks) + 1 /\ IsSeq(s)
      /\ r.items[i].type = "text" /\ "text" = r.items[i].type /\ x # << >> /\ Fresh(s, <<"item", i>>)
  <2>1. /\ Whole(r) /\ i \in DOMAIN r.items /\ t \in BOOLEAN /\ IsSeq(blocks) /\ i = Len(blocks) + 1 /\ IsSeq(s)
        /\ Fresh(s, <<"item", i>>)
    BY ONLY AntReady(r, n, t, blocks, s), AntReadyFacts, ZenonT(30)
  <2> QED BY <2>1
<1>2. TextRow(r, i) = x /\ CallRow(r, i) = << >>
  BY <1>1, TextItem
<1>3. Sound(e) /\ TextPart(e) = x /\ CallPart(e) = << >> /\ e.item = <<"item", i>>
  <2>1. IsSeq(x)
    BY <1>1, DataFacts
  <2> HIDE DEF x
  <2> QED BY <2>1, SoundDeltas DEF TextDelta, Delta
<1>4. Heard \in BOOLEAN /\ Heard
  BY DEF Heard
<1>5. IsSeq(Append(s, e))
  BY <1>1, AppendIsSeq
<1> HIDE DEF i, x
<1>6. Taken(at, q, BlockStart(i, x)) = q1
  <2>1. OpensText(t, s, r, i, x)
    BY ONLY <1>1 DEF OpensText
  <2> QED BY ONLY <2>1, AntOpenedText DEF at, q, q1, b, e
<1> HIDE DEF e
<1>7. Taken(at, q1, BlockStop(i)) = q1
  <2>1. "text" # "call" \/ Unheard
    OBVIOUS
  <2>2. x = IF << >> = << >> THEN x ELSE << >>
    OBVIOUS
  <2>3. Closes(blocks, Append(s, e), i, "text", x, << >>, Unheard, x)
    BY ONLY <1>1, <1>5, <2>1, <2>2, Zenon DEF Closes
  <2> QED BY ONLY <2>3, AntClosed DEF at, q1, b
<1> HIDE DEF at, q, q1, b
<1>8. Consume(at, q, AntWireIs(r, i, x, << >>)) = q1
  <2>1. Consume(at, q, <<BlockStart(i, x)>> \o << >> \o <<BlockStop(i)>>) = Taken(at, Taken(at, q, BlockStart(i, x)), BlockStop(i))
    BY ConsumeTwo
  <2> QED BY ONLY <1>6, <1>7, <2>1 DEF AntWireIs
<1>9. AntTold(r, n, t, Heard, b, Append(s, e))
  <2>1. "item" \in AntTags
    BY DEF AntTags
  <2> QED BY <1>2, <1>3, <1>4, <2>1, AntTellsOne DEF i
<1>10. AntHeard(q1, r, n + 1)
  BY <1>9, AntOnward DEF q1
<1> QED BY <1>8, <1>10 DEF at, q, i, x

LEMMA CallArgumentsTold ==
  ASSUME NEW r, Whole(r), NEW i \in DOMAIN r.items, r.items[i].type = "call", NEW step, NEW x, x = ArgumentsOf(r, i)
  PROVE  /\ Sound(AnthropicCall(step, r, i, x)) /\ AnthropicCall(step, r, i, x).item = <<"tool", i>>
         /\ TextPart(AnthropicCall(step, r, i, x)) = TextRow(r, i)
         /\ CallPart(AnthropicCall(step, r, i, x)) = CallRow(r, i)
<1> DEFINE tool == r.items[i].tool
           c == CallDelta(<<"tool", i>>, <<step, i>>, tool, x)
<1>1. tool # NoName /\ Parses(x) /\ x # << >>
  BY DataFacts DEF Whole
<1>2. TextRow(r, i) = << >> /\ CallRow(r, i) = <<[name |-> tool, input |-> x]>>
  BY CallItem DEF CallSent
<1>3. c.item = <<"tool", i>>
  BY DEF CallDelta
<1>4. AnthropicCall(step, r, i, x) = c
  BY DEF AnthropicCall
<1> HIDE DEF tool
<1>5. Sound(c) /\ TextPart(c) = << >> /\ CallPart(c) = <<[name |-> tool, input |-> x]>>
  BY <1>1, CallTold
<1> HIDE DEF c
<1> QED BY <1>2, <1>3, <1>4, <1>5

\* A call that is made known when its block stops.
LEMMA AntCallWhole ==
  ASSUME NEW r, NEW n, NEW t, NEW blocks, NEW s, AntReady(r, n, t, blocks, s), NEW g, NEW p, NEW step,
         r.items[n + 1].type = "call"
  PROVE  AntHeard(Consume(At("anthropic", r, step), Going(Ant(t, g, blocks, p), Coll(s)),
                          AntWireIs(r, n + 1, ArgumentsOf(r, n + 1), << >>)), r, n + 1)
<1> DEFINE i == n + 1
           at == At("anthropic", r, step)
           x == ArgumentsOf(r, i)
           b == Block("call", x, << >>, Unheard)
           e == AnthropicCall(step, r, i, x)
           q == Going(Ant(t, g, blocks, p), Coll(s))
           q1 == Going(LastBlock(t, g, blocks, b, p), Coll(s))
           q2 == Going(LastBlock(t, g, blocks, b, p), Coll(Append(s, e)))
<1>1. /\ Whole(r) /\ i \in DOMAIN r.items /\ t \in BOOLEAN /\ IsSeq(blocks) /\ i = Len(blocks) + 1 /\ IsSeq(s)
      /\ r.items[i].type = "call" /\ "call" = r.items[i].type /\ Fresh(s, <<"tool", i>>) /\ x = ArgumentsOf(r, i)
  BY AntReadyFacts, ZenonT(30)
<1>2. b.type = "call"
  BY BlockFields
<1> HIDE DEF i, x
<1>3. Sound(e) /\ e.item = <<"tool", i>> /\ TextPart(e) = TextRow(r, i) /\ CallPart(e) = CallRow(r, i)
  BY ONLY <1>1, CallArgumentsTold DEF e
<1>6. Taken(at, q, BlockStart(i, x)) = q1
  <2>1. "call" # "text" \/ x = << >>
    OBVIOUS
  <2>2. Opens(t, s, "call", r, i, x)
    BY <1>1, <2>1 DEF Opens
  <2> QED BY ONLY <2>2, AntOpened DEF at, q, q1, b
<1>7. Taken(at, q1, BlockStop(i)) = q2
  <2>1. ClosesCall(blocks, s, i)
    BY ONLY <1>1 DEF ClosesCall
  <2> QED BY ONLY <2>1, AntClosedCall DEF at, q1, q2, b, e
<1> HIDE DEF at, q, q1, q2, b, e
<1>8. Consume(at, q, AntWireIs(r, i, x, << >>)) = q2
  <2>1. Consume(at, q, <<BlockStart(i, x)>> \o << >> \o <<BlockStop(i)>>) = Taken(at, Taken(at, q, BlockStart(i, x)), BlockStop(i))
    BY ConsumeTwo
  <2> QED BY ONLY <1>6, <1>7, <2>1 DEF AntWireIs
<1>9. AntTold(r, n, t, t, b, Append(s, e))
  <2>1. "tool" \in AntTags
    BY DEF AntTags
  <2>2. b.type # "text"
    BY <1>2
  <2> QED BY <1>1, <1>3, <2>1, <2>2, AntTellsOne DEF i
<1>10. AntHeard(q2, r, n + 1)
  BY <1>9, AntOnward DEF q2
<1> QED BY <1>8, <1>10 DEF at, q, i, x

\* An item whose fragments arrive one by one.
Bits(r, i) == Fragments(r, i, FALSE)
AntGrowing(r, n, t, blocks, s, b, e, at, wire, D) ==
  /\ AntReady(r, n, t, blocks, s) /\ Grows(b) /\ (\E tag \in AntTags : b.item = <<tag, n + 1>>)
  /\ e = With(b, DataOf(r, n + 1))
  /\ (r.items[n + 1].size > 0 =>
        Sound(e) /\ TextPart(e) = TextRow(r, n + 1) /\ CallPart(e) = CallRow(r, n + 1))
  /\ Growing(at, b, Bits(r, n + 1), wire, D)

LEMMA AntItemGrown ==
  ASSUME NEW r, NEW n, NEW t, NEW blocks, NEW s, NEW b, NEW e, NEW at, NEW wire, NEW D,
         AntGrowing(r, n, t, blocks, s, b, e, at, wire, D)
  PROVE  \E u : /\ Consume(at, Going(Origin(D), Coll(s)), wire) = Going(Finally(D, Bits(r, n + 1)), Coll(u))
                /\ IsSeq(u) /\ (r.items[n + 1].size = 0 => u = s)
                /\ r.items[n + 1].size > 0 =>
                     /\ Holds(u, TextTo(r, n) \o TextRow(r, n + 1), CallsTo(r, n) \o CallRow(r, n + 1))
                     /\ Kept(u, AntTags, n + 1)
<1> DEFINE text == TextTo(r, n)
           calls == CallsTo(r, n)
           f == Bits(r, n + 1)
           u == GrownBy(s, b, f)
           size == r.items[n + 1].size
<1>1. /\ Whole(r) /\ n \in Nat /\ n + 1 \in DOMAIN r.items /\ Holds(s, text, calls) /\ Kept(s, AntTags, n) /\ IsSeq(s)
  <2>1. AntReady(r, n, t, blocks, s)
    BY DEF AntGrowing
  <2> QED BY ONLY <2>1, AntReadyFacts
<1>2. /\ Grows(b) /\ (\E tag \in AntTags : b.item = <<tag, n + 1>>) /\ e = With(b, DataOf(r, n + 1))
      /\ (size > 0 => Sound(e) /\ TextPart(e) = TextRow(r, n + 1) /\ CallPart(e) = CallRow(r, n + 1))
      /\ Growing(at, b, f, wire, D)
  BY DEF AntGrowing
<1>3. size \in Nat
  BY <1>1, DataFacts
<1> HIDE DEF text, calls, u
<1>4. ItemReady(r, n, s, text, calls, AntTags, b, e)
  BY ONLY <1>1, <1>2, Zenon DEF ItemReady, size
<1>5. /\ Consume(at, Going(Origin(D), Coll(s)), wire) = Going(Finally(D, f), Coll(u))
      /\ Kept(u, AntTags, n + 1)
      /\ size = 0 => Len(f) = 0 /\ u = s
      /\ size > 0 => Len(f) > 0 /\ Holds(u, text \o TextPart(e), calls \o CallPart(e))
  <2>1. Growing(at, b, Bits(r, n + 1), wire, D)
    BY <1>2
  <2> QED BY ONLY <1>4, <2>1, ItemGrown DEF f, u, size, Bits
<1>6. size > 0 => Holds(u, text \o TextRow(r, n + 1), calls \o CallRow(r, n + 1))
  BY ONLY <1>2, <1>5
<1>7. IsSeq(u)
  <2>1. CASE size = 0
    BY <1>1, <1>5, <2>1
  <2>2. CASE size > 0
    BY <1>6, <2>2, HoldsSeqs
  <2> QED BY <1>3, <2>1, <2>2
<1> QED BY ONLY <1>5, <1>6, <1>7 DEF f, text, calls, size

LEMMA AntTextStreams ==
  ASSUME NEW r, NEW n, NEW t, NEW blocks, NEW s, AntReady(r, n, t, blocks, s), NEW g, NEW p, NEW step,
         r.items[n + 1].type = "text"
  PROVE  AntHeard(Consume(At("anthropic", r, step), Going(Ant(t, g, blocks, p), Coll(s)),
                          AntWireIs(r, n + 1, << >>, Grow(r, n + 1))), r, n + 1)
<1>0. /\ Whole(r) /\ n + 1 \in DOMAIN r.items /\ t \in BOOLEAN /\ IsSeq(blocks) /\ n + 1 = Len(blocks) + 1
      /\ IsSeq(s)
  BY ONLY AntReady(r, n, t, blocks, s), AntReadyFacts, ZenonT(30)
<1> DEFINE i == n + 1
           at == At("anthropic", r, step)
           data == DataOf(r, i)
           f == Bits(r, i)
           wire == Grow(r, i)
           none == << >>
           t1 == IF r.items[i].size = 0 THEN t ELSE Heard
           b == TextDelta(<<"item", i>>, << >>)
           e == TextDelta(<<"item", i>>, data)
           b1 == Block("text", data, none, Unheard)
           q == Going(Ant(t, g, blocks, p), Coll(s))
           d1 == LastBlock(t, g, blocks, Block("text", none, none, Unheard), p)
           d2 == LastBlock(t1, g, blocks, b1, p)
<1>1. /\ Whole(r) /\ i \in DOMAIN r.items /\ t \in BOOLEAN /\ IsSeq(blocks) /\ i = Len(blocks) + 1 /\ IsSeq(s)
  BY <1>0
<1>2. TextRow(r, i) = data /\ CallRow(r, i) = none
  BY <1>1, TextItem
<1>3. IsSeq(data) /\ r.items[i].size \in Nat /\ (data = none <=> r.items[i].size = 0)
  BY <1>1, DataFacts
<1>4. /\ t1 \in BOOLEAN /\ (t => t1) /\ (r.items[i].size = 0 => t1 = t) /\ (r.items[i].size # 0 => t1)
  <2>1. t \in BOOLEAN /\ Heard \in BOOLEAN /\ Heard
    BY <1>1 DEF Heard
  <2> HIDE DEF i
  <2>2. CASE r.items[i].size = 0
    BY ONLY <2>1, <2>2, Zenon
  <2>3. CASE r.items[i].size # 0
    BY ONLY <2>1, <2>3, Zenon
  <2> QED BY <2>2, <2>3, Zenon
<1>5. b1.type = "text" /\ b1.data = data
  BY BlockFields
<1>6. PICK D : Growing(at, b, f, wire, D) /\ Origin(D) = d1 /\ Finally(D, f) = d2
  <2>1. AntTextGrowth(r, step, i, t, g, p, blocks)
    <3> HIDE DEF i
    <3> QED BY ONLY <1>1, AntTextGrows
  <2> QED BY <2>1, Zenon DEF AntTextGrowth, Bits
<1>7. AntGrowing(r, n, t, blocks, s, b, e, at, wire, D)
  <2>1. Sound(e) /\ TextPart(e) = data /\ CallPart(e) = none
    <3> HIDE DEF data
    <3> QED BY <1>3, SoundDeltas
  <2>2. Grows(b) /\ e = With(b, data) /\ b.item = <<"item", i>>
    <3> HIDE DEF data
    <3> QED BY DeltasGrow
  <2>3. "item" \in AntTags
    BY DEF AntTags
  <2> HIDE DEF b, e, at, wire, none, t1, b1, q, d1, d2
  <2>4. \E tag \in AntTags : b.item = <<tag, i>>
    BY <2>2, <2>3
  <2>5. Sound(e) /\ TextPart(e) = TextRow(r, i) /\ CallPart(e) = CallRow(r, i)
    BY ONLY <1>2, <2>1
  <2> QED BY ONLY <1>6, <2>2, <2>4, <2>5, AntReady(r, n, t, blocks, s), Zenon DEF AntGrowing, f, i, data
<1> HIDE DEF b, e, at, wire, none, t1, b1, q, d1, d2, f, data, i
<1>8a. PICK u : /\ Consume(at, Going(Origin(D), Coll(s)), wire) = Going(Finally(D, Bits(r, n + 1)), Coll(u))
                /\ IsSeq(u) /\ (r.items[n + 1].size = 0 => u = s)
                /\ r.items[n + 1].size > 0 =>
                     /\ Holds(u, TextTo(r, n) \o TextRow(r, n + 1), CallsTo(r, n) \o CallRow(r, n + 1))
                     /\ Kept(u, AntTags, n + 1)
  BY ONLY <1>7, AntItemGrown
<1>8. /\ Consume(at, Going(Origin(D), Coll(s)), wire) = Going(Finally(D, f), Coll(u))
      /\ IsSeq(u) /\ (r.items[i].size = 0 => u = s)
      /\ r.items[i].size > 0 =>
           /\ Holds(u, TextTo(r, n) \o TextRow(r, i), CallsTo(r, n) \o CallRow(r, i))
           /\ Kept(u, AntTags, i)
  BY ONLY <1>8a, Zenon DEF f, i
<1>9. Taken(at, q, BlockStart(i, none)) = Going(d1, Coll(s))
  <2>1. Opens(t, s, "text", r, i, none)
    BY ONLY <1>1, r.items[n + 1].type = "text", Zenon DEF Opens, i, none
  <2> QED BY ONLY <2>1, AntOpened DEF at, q, d1, none
<1>10. Taken(at, Going(d2, Coll(u)), BlockStop(i)) = Going(d2, Coll(u))
  <2>1. "text" # "call" \/ Unheard
    OBVIOUS
  <2>2. data = IF none = << >> THEN data ELSE none
    BY DEF none
  <2>3. none = << >> \/ Parses(none)
    BY DEF none
  <2>4. Closes(blocks, u, i, "text", data, none, Unheard, data)
    BY ONLY <1>1, <1>8, <2>1, <2>2, <2>3, Zenon DEF Closes
  <2> QED BY ONLY <2>4, AntClosed DEF at, d2, b1
<1>11. Consume(at, q, AntWireIs(r, i, none, wire)) = Going(d2, Coll(u))
  <2>1. IsSeq(wire)
    BY <1>6 DEF Growing
  <2>2. Consume(at, q, <<BlockStart(i, none)>> \o wire \o <<BlockStop(i)>>)
          = Taken(at, Consume(at, Taken(at, q, BlockStart(i, none)), wire), BlockStop(i))
    BY <2>1, ConsumeThree
  <2> QED BY ONLY <1>6, <1>8, <1>9, <1>10, <2>2 DEF AntWireIs
<1>12. AntTold(r, n, t, t1, b1, u)
  <2>1. CASE r.items[i].size = 0
    <3>1. TextRow(r, n + 1) = << >> /\ CallRow(r, n + 1) = << >> /\ (b1.type # "text" \/ b1.data = << >>)
      BY ONLY <1>2, <1>3, <1>5, <2>1 DEF none, i
    <3>2. AntTold(r, n, t, t, b1, s)
      BY <3>1, AntTellsNothing
    <3> QED BY ONLY <1>4, <1>8, <2>1, <3>2
  <2>2. CASE r.items[i].size # 0
    <3>1. r.items[i].size > 0
      BY <1>3, <2>2
    <3> QED BY ONLY <1>4, <1>8, <2>2, <3>1, Zenon DEF AntTold, i
  <2> QED BY <2>1, <2>2
<1>13. AntHeard(Going(d2, Coll(u)), r, n + 1)
  BY <1>12, AntOnward DEF d2
<1> QED BY <1>11, <1>13 DEF at, q, i, none, wire
LEMMA AntThoughtStreams ==
  ASSUME NEW r, NEW n, NEW t, NEW blocks, NEW s, AntReady(r, n, t, blocks, s), NEW g, NEW p, NEW step,
         r.items[n + 1].type = "thought"
  PROVE  AntHeard(Consume(At("anthropic", r, step), Going(Ant(t, g, blocks, p), Coll(s)),
                          AntWireIs(r, n + 1, << >>, Grow(r, n + 1))), r, n + 1)
<1>0. /\ Whole(r) /\ n + 1 \in DOMAIN r.items /\ t \in BOOLEAN /\ IsSeq(blocks) /\ n + 1 = Len(blocks) + 1
      /\ IsSeq(s)
  BY ONLY AntReady(r, n, t, blocks, s), AntReadyFacts, ZenonT(30)
<1> DEFINE i == n + 1
           at == At("anthropic", r, step)
           data == DataOf(r, i)
           f == Bits(r, i)
           wire == Grow(r, i)
           none == << >>
           g1 == IF r.items[i].size = 0 THEN g ELSE Heard
           b == ReasoningDelta(<<"item", i>>, << >>)
           e == ReasoningDelta(<<"item", i>>, data)
           b1 == Block("thought", data, none, Unheard)
           q == Going(Ant(t, g, blocks, p), Coll(s))
           d1 == LastBlock(t, g, blocks, Block("thought", none, none, Unheard), p)
           d2 == LastBlock(t, g1, blocks, b1, p)
<1>1. /\ Whole(r) /\ i \in DOMAIN r.items /\ t \in BOOLEAN /\ IsSeq(blocks) /\ i = Len(blocks) + 1 /\ IsSeq(s)
  BY <1>0
<1>2. TextRow(r, i) = none /\ CallRow(r, i) = none
  BY <1>1, TextItem
<1>3. IsSeq(data) /\ r.items[i].size \in Nat /\ (data = none <=> r.items[i].size = 0)
  BY <1>1, DataFacts
<1>4. b1.type # "text"
  BY BlockFields
<1>5. b1.type = "thought" /\ b1.data = data
  BY BlockFields
<1>6. PICK D : Growing(at, b, f, wire, D) /\ Origin(D) = d1 /\ Finally(D, f) = d2
  <2>1. AntThoughtGrowth(r, step, i, t, g, p, blocks)
    <3> HIDE DEF i
    <3> QED BY ONLY <1>1, AntThoughtGrows
  <2> QED BY <2>1, Zenon DEF AntThoughtGrowth, Bits
<1>7. AntGrowing(r, n, t, blocks, s, b, e, at, wire, D)
  <2>1. Sound(e) /\ TextPart(e) = none /\ CallPart(e) = none
    <3> HIDE DEF data
    <3> QED BY <1>3, SoundDeltas
  <2>2. Grows(b) /\ e = With(b, data) /\ b.item = <<"item", i>>
    <3> HIDE DEF data
    <3> QED BY DeltasGrow
  <2>3. "item" \in AntTags
    BY DEF AntTags
  <2> HIDE DEF b, e, at, wire, none, g1, b1, q, d1, d2
  <2>4. \E tag \in AntTags : b.item = <<tag, i>>
    BY <2>2, <2>3
  <2>5. Sound(e) /\ TextPart(e) = TextRow(r, i) /\ CallPart(e) = CallRow(r, i)
    BY ONLY <1>2, <2>1
  <2> QED BY ONLY <1>6, <2>2, <2>4, <2>5, AntReady(r, n, t, blocks, s), Zenon DEF AntGrowing, f, i, data
<1> HIDE DEF b, e, at, wire, none, g1, b1, q, d1, d2, f, data, i
<1>8a. PICK u : /\ Consume(at, Going(Origin(D), Coll(s)), wire) = Going(Finally(D, Bits(r, n + 1)), Coll(u))
                /\ IsSeq(u) /\ (r.items[n + 1].size = 0 => u = s)
                /\ r.items[n + 1].size > 0 =>
                     /\ Holds(u, TextTo(r, n) \o TextRow(r, n + 1), CallsTo(r, n) \o CallRow(r, n + 1))
                     /\ Kept(u, AntTags, n + 1)
  BY ONLY <1>7, AntItemGrown
<1>8. /\ Consume(at, Going(Origin(D), Coll(s)), wire) = Going(Finally(D, f), Coll(u))
      /\ IsSeq(u) /\ (r.items[i].size = 0 => u = s)
      /\ r.items[i].size > 0 =>
           /\ Holds(u, TextTo(r, n) \o TextRow(r, i), CallsTo(r, n) \o CallRow(r, i))
           /\ Kept(u, AntTags, i)
  BY ONLY <1>8a, Zenon DEF f, i
<1>9. Taken(at, q, BlockStart(i, none)) = Going(d1, Coll(s))
  <2>1. Opens(t, s, "thought", r, i, none)
    BY ONLY <1>1, r.items[n + 1].type = "thought", Zenon DEF Opens, i, none
  <2> QED BY ONLY <2>1, AntOpened DEF at, q, d1, none
<1>10. Taken(at, Going(d2, Coll(u)), BlockStop(i)) = Going(d2, Coll(u))
  <2>1. "thought" # "call" \/ Unheard
    OBVIOUS
  <2>2. data = IF none = << >> THEN data ELSE none
    BY DEF none
  <2>3. none = << >> \/ Parses(none)
    BY DEF none
  <2>4. Closes(blocks, u, i, "thought", data, none, Unheard, data)
    BY ONLY <1>1, <1>8, <2>1, <2>2, <2>3, Zenon DEF Closes
  <2> QED BY ONLY <2>4, AntClosed DEF at, d2, b1
<1>11. Consume(at, q, AntWireIs(r, i, none, wire)) = Going(d2, Coll(u))
  <2>1. IsSeq(wire)
    BY <1>6 DEF Growing
  <2>2. Consume(at, q, <<BlockStart(i, none)>> \o wire \o <<BlockStop(i)>>)
          = Taken(at, Consume(at, Taken(at, q, BlockStart(i, none)), wire), BlockStop(i))
    BY <2>1, ConsumeThree
  <2> QED BY ONLY <1>6, <1>8, <1>9, <1>10, <2>2 DEF AntWireIs
<1>12. AntTold(r, n, t, t, b1, u)
  <2>1. CASE r.items[i].size = 0
    <3>1. TextRow(r, n + 1) = << >> /\ CallRow(r, n + 1) = << >> /\ b1.type # "text"
      BY ONLY <1>2, <1>4 DEF none, i
    <3>2. AntTold(r, n, t, t, b1, s)
      BY <3>1, AntTellsNothing
    <3> QED BY ONLY <1>4, <1>8, <2>1, <3>2
  <2>2. CASE r.items[i].size # 0
    <3>1. r.items[i].size > 0
      BY <1>3, <2>2
    <3> QED BY ONLY <1>1, <1>4, <1>8, <2>2, <3>1, Zenon DEF AntTold, i
  <2> QED BY <2>1, <2>2
<1>13. AntHeard(Going(d2, Coll(u)), r, n + 1)
  BY <1>12, AntOnward DEF d2
<1> QED BY <1>11, <1>13 DEF at, q, i, none, wire

LEMMA AntCallStreams ==
  ASSUME NEW r, NEW n, NEW t, NEW blocks, NEW s, AntReady(r, n, t, blocks, s), NEW g, NEW p, NEW step,
         r.items[n + 1].type = "call"
  PROVE  AntHeard(Consume(At("anthropic", r, step), Going(Ant(t, g, blocks, p), Coll(s)),
                          AntWireIs(r, n + 1, EmptyObject, Grow(r, n + 1))), r, n + 1)
<1>0. /\ Whole(r) /\ n + 1 \in DOMAIN r.items /\ t \in BOOLEAN /\ IsSeq(blocks) /\ n + 1 = Len(blocks) + 1
      /\ IsSeq(s)
  BY ONLY AntReady(r, n, t, blocks, s), AntReadyFacts, ZenonT(30)
<1>0a. Fresh(s, <<"tool", n + 1>>)
  BY ONLY AntReady(r, n, t, blocks, s), AntReadyFacts
<1> DEFINE i == n + 1
           at == At("anthropic", r, step)
           data == DataOf(r, i)
           args == ArgumentsOf(r, i)
           f == Bits(r, i)
           wire == Grow(r, i)
           none == << >>
           size == r.items[i].size
           h == IF size = 0 THEN Unheard ELSE Heard
           tool == r.items[i].tool
           b == CallDelta(<<"tool", i>>, <<step, i>>, tool, << >>)
           e == CallDelta(<<"tool", i>>, <<step, i>>, tool, data)
           q == Going(Ant(t, g, blocks, p), Coll(s))
           b1 == Block("call", EmptyObject, none, Unheard)
           b2 == Block("call", EmptyObject, data, h)
           d1 == LastBlock(t, g, blocks, b1, p)
           d2 == LastBlock(t, g, blocks, b2, p)
<1>1. /\ Whole(r) /\ i \in DOMAIN r.items /\ t \in BOOLEAN /\ IsSeq(blocks) /\ i = Len(blocks) + 1 /\ IsSeq(s)
      /\ Fresh(s, <<"tool", i>>) /\ r.items[i].type = "call"
  BY <1>0, <1>0a
<1>2. TextRow(r, i) = none /\ (size > 0 => CallRow(r, i) = <<[name |-> tool, input |-> data]>>)
  BY <1>1, CallItem
<1>3. IsSeq(data) /\ size \in Nat /\ (data = none <=> size = 0) /\ (size > 0 => Parses(data)) /\ tool # NoName
  BY <1>1, DataFacts DEF Whole
<1>4. size = 0 => args = EmptyObject
  BY DEF ArgumentsOf
<1>6. PICK D : Growing(at, b, f, wire, D) /\ Origin(D) = d1 /\ Finally(D, f) = d2
  <2>1. AntCallGrowth(r, step, i, t, g, p, blocks, EmptyObject)
    <3> HIDE DEF i
    <3> QED BY ONLY <1>1, AntCallGrows
  <2> QED BY <2>1, Zenon DEF AntCallGrowth, Bits, AnthropicCall
<1>7. AntGrowing(r, n, t, blocks, s, b, e, at, wire, D)
  <2>1. size > 0 => Sound(e) /\ TextPart(e) = none /\ CallPart(e) = <<[name |-> tool, input |-> data]>>
    <3> HIDE DEF data, tool, size
    <3> QED BY <1>3, CallTold
  <2>2. Grows(b) /\ e = With(b, data) /\ b.item = <<"tool", i>>
    <3> HIDE DEF data, tool
    <3> QED BY <1>3, CallGrows
  <2>3. "tool" \in AntTags
    BY DEF AntTags
  <2> HIDE DEF b, e, at, wire, none, h, q, d1, d2, b1, b2, tool
  <2>4. \E tag \in AntTags : b.item = <<tag, i>>
    BY <2>2, <2>3
  <2>5. size > 0 => Sound(e) /\ TextPart(e) = TextRow(r, i) /\ CallPart(e) = CallRow(r, i)
    BY ONLY <1>2, <2>1
  <2> QED BY ONLY <1>6, <2>2, <2>4, <2>5, AntReady(r, n, t, blocks, s), Zenon DEF AntGrowing, f, i, data, size
<1>7a. h = (IF size = 0 THEN Unheard ELSE Heard)
  OBVIOUS
<1> HIDE DEF b, e, at, wire, none, h, q, d1, d2, b1, b2, f, data, i, size, args
<1>8a. PICK u : /\ Consume(at, Going(Origin(D), Coll(s)), wire) = Going(Finally(D, Bits(r, n + 1)), Coll(u))
                /\ IsSeq(u) /\ (r.items[n + 1].size = 0 => u = s)
                /\ r.items[n + 1].size > 0 =>
                     /\ Holds(u, TextTo(r, n) \o TextRow(r, n + 1), CallsTo(r, n) \o CallRow(r, n + 1))
                     /\ Kept(u, AntTags, n + 1)
  BY ONLY <1>7, AntItemGrown
<1>8. /\ Consume(at, Going(Origin(D), Coll(s)), wire) = Going(Finally(D, f), Coll(u))
      /\ IsSeq(u) /\ (size = 0 => u = s)
      /\ size > 0 =>
           /\ Holds(u, TextTo(r, n) \o TextRow(r, i), CallsTo(r, n) \o CallRow(r, i))
           /\ Kept(u, AntTags, i)
  BY ONLY <1>8a, Zenon DEF f, i, size
<1>9. Taken(at, q, BlockStart(i, EmptyObject)) = Going(d1, Coll(s))
  <2>1. "call" # "text" \/ EmptyObject = << >>
    OBVIOUS
  <2>2. "call" = r.items[i].type
    BY <1>1
  <2>3. Opens(t, s, "call", r, i, EmptyObject)
    BY ONLY <1>1, <2>1, <2>2, Zenon DEF Opens
  <2> QED BY ONLY <2>3, AntOpened DEF at, q, d1, b1, none
<1>10. Consume(at, q, AntWireIs(r, i, EmptyObject, wire)) = Taken(at, Going(d2, Coll(u)), BlockStop(i))
  <2>1. IsSeq(wire)
    BY <1>6 DEF Growing
  <2>2. Consume(at, q, <<BlockStart(i, EmptyObject)>> \o wire \o <<BlockStop(i)>>)
          = Taken(at, Consume(at, Taken(at, q, BlockStart(i, EmptyObject)), wire), BlockStop(i))
    BY <2>1, ConsumeThree
  <2> QED BY ONLY <1>6, <1>8, <1>9, <2>2 DEF AntWireIs
<1>11. CASE size = 0
  <2> DEFINE c == AnthropicCall(step, r, i, EmptyObject)
  <2>1. d2 = d1 /\ u = s
    BY ONLY <1>3, <1>7a, <1>8, <1>11 DEF d1, d2, b1, b2
  <2>2. Taken(at, Going(d1, Coll(s)), BlockStop(i)) = Going(d1, Coll(Append(s, c)))
    <3>1. ClosesCall(blocks, s, i)
      BY ONLY <1>1 DEF ClosesCall
    <3> QED BY ONLY <3>1, AntClosedCall DEF at, d1, b1, none
  <2>3. Sound(c) /\ c.item = <<"tool", i>> /\ TextPart(c) = TextRow(r, i) /\ CallPart(c) = CallRow(r, i)
    BY ONLY <1>1, <1>4, <1>11, CallArgumentsTold DEF args
  <2>4. b1.type # "text" /\ "tool" \in AntTags
    BY BlockFields DEF b1, AntTags
  <2> HIDE DEF c
  <2>5. AntTold(r, n, t, t, b1, Append(s, c))
    BY <1>1, <2>3, <2>4, AntTellsOne DEF i
  <2>6. AntHeard(Going(d1, Coll(Append(s, c))), r, n + 1)
    BY <2>5, AntOnward DEF d1
  <2>7. AntHeard(Consume(at, q, AntWireIs(r, i, EmptyObject, wire)), r, n + 1)
    BY ONLY <1>10, <2>1, <2>2, <2>6
  <2> QED BY ONLY <2>7 DEF at, q, i, wire
<1>12. CASE size # 0
  <2> DEFINE b3 == Block("call", data, data, h)
             d3 == LastBlock(t, g, blocks, b3, p)
  <2>1. size > 0 /\ h /\ data # << >> /\ Parses(data)
    BY <1>3, <1>7a, <1>12 DEF Heard, none
  <2>2. Taken(at, Going(d2, Coll(u)), BlockStop(i)) = Going(d3, Coll(u))
    <3>1. data = IF data = << >> THEN EmptyObject ELSE data
      BY <2>1
    <3>2. Closes(blocks, u, i, "call", EmptyObject, data, h, data)
      BY ONLY <1>1, <1>8, <2>1, <3>1, Zenon DEF Closes
    <3> QED BY ONLY <3>2, AntClosed DEF at, d2, b2
  <2>3. b3.type # "text"
    BY BlockFields
  <2> HIDE DEF b3
  <2>4. AntTold(r, n, t, t, b3, u)
    BY ONLY <1>1, <1>8, <2>1, <2>3, Zenon DEF AntTold, i
  <2>5. AntHeard(Going(d3, Coll(u)), r, n + 1)
    BY <2>4, AntOnward
  <2>6. AntHeard(Consume(at, q, AntWireIs(r, i, EmptyObject, wire)), r, n + 1)
    BY ONLY <1>10, <2>2, <2>5
  <2> QED BY ONLY <2>6 DEF at, q, i, wire
<1> QED BY <1>11, <1>12

\* Every item, streamed or whole.
LEMMA AntItem ==
  ASSUME NEW r, Whole(r), NEW n \in Nat, n + 1 \in DOMAIN r.items, NEW step, NEW whole \in BOOLEAN,
         NEW q, AntHeard(q, r, n)
  PROVE  AntHeard(Consume(At("anthropic", r, step), q, AnthropicItemWire(r, n + 1, whole)), r, n + 1)
<1> DEFINE i == n + 1
           none == << >>
<1>1. PICK t, g, p, blocks, s : q = Going(Ant(t, g, blocks, p), Coll(s)) /\ AntBlocks(r, n, t, blocks, s)
  BY Zenon DEF AntHeard
<1>2. AntReady(r, n, t, blocks, s)
  BY <1>1, Zenon DEF AntReady
<1>3. r.items[i].type \in {"text", "thought", "call", "search"}
  <2>1. IsResponse(r)
    BY DEF Whole
  <2> QED BY <2>1, ItemsOf DEF ItemTypes
<1> HIDE DEF i, none
<1>4. /\ whole /\ r.items[i].type = "call" => AnthropicItemWire(r, i, whole) = AntWireIs(r, i, ArgumentsOf(r, i), none)
      /\ whole /\ r.items[i].type # "call" => AnthropicItemWire(r, i, whole) = AntWireIs(r, i, DataOf(r, i), none)
      /\ ~whole /\ r.items[i].type = "search" => AnthropicItemWire(r, i, whole) = AntWireIs(r, i, none, none)
      /\ ~whole /\ r.items[i].type = "call" => AnthropicItemWire(r, i, whole) = AntWireIs(r, i, EmptyObject, Grow(r, i))
      /\ ~whole /\ r.items[i].type \notin {"search", "call"} => AnthropicItemWire(r, i, whole) = AntWireIs(r, i, none, Grow(r, i))
  BY AntItemWire, Zenon DEF none
<1> DEFINE heard(wire) == AntHeard(Consume(At("anthropic", r, step), q, wire), r, n + 1)
<1> HIDE DEF heard
<1>5. CASE r.items[i].type = "call"
  <2>1. heard(AntWireIs(r, i, ArgumentsOf(r, i), none))
    BY <1>1, <1>2, <1>5, AntCallWhole DEF i, none, heard
  <2>2. heard(AntWireIs(r, i, EmptyObject, Grow(r, i)))
    BY <1>1, <1>2, <1>5, AntCallStreams DEF i, heard
  <2>3. heard(AnthropicItemWire(r, i, whole))
    BY <1>4, <1>5, <2>1, <2>2
  <2> QED BY <2>3 DEF heard, i
<1>6. CASE r.items[i].type = "text"
  <2>1. heard(AntWireIs(r, i, none, Grow(r, i)))
    BY <1>1, <1>2, <1>6, AntTextStreams DEF i, none, heard
  <2>2. heard(AntWireIs(r, i, DataOf(r, i), none))
    <3>1. CASE DataOf(r, i) # << >>
      BY <1>1, <1>2, <1>6, <3>1, AntTextWhole DEF i, none, heard
    <3>2. CASE DataOf(r, i) = << >>
      <4>1. heard(AntWireIs(r, i, none, none))
        <5>1. r.items[n + 1].type # "call" /\ (r.items[n + 1].type # "text" \/ (none = << >> /\ DataOf(r, n + 1) = << >>))
          BY <1>6, <3>2 DEF i, none
        <5> QED BY ONLY <1>1, <1>2, <5>1, AntQuiet DEF i, none, heard
      <4> QED BY <3>2, <4>1 DEF none
    <3> QED BY <3>1, <3>2
  <2>3. heard(AnthropicItemWire(r, i, whole))
    BY <1>4, <1>6, <2>1, <2>2
  <2> QED BY <2>3 DEF heard, i
<1>7. CASE r.items[i].type \in {"thought", "search"}
  <2>1. r.items[n + 1].type # "call" /\ r.items[n + 1].type # "text"
    BY <1>7 DEF i
  <2>2. \A x : heard(AntWireIs(r, i, x, none))
    BY <1>1, <1>2, <2>1, AntQuiet DEF i, none, heard
  <2>3. r.items[i].type = "thought" => heard(AntWireIs(r, i, none, Grow(r, i)))
    BY <1>1, <1>2, AntThoughtStreams DEF i, none, heard
  <2>4. heard(AnthropicItemWire(r, i, whole))
    BY <1>4, <1>7, <2>2, <2>3
  <2> QED BY <2>4 DEF heard, i
<1> QED BY <1>3, <1>5, <1>6, <1>7

LEMMA AntAtFirst ==
  ASSUME NEW r
  PROVE  AntHeard(Going(StartOf("anthropic"), Coll(<< >>)), r, 0)
<1> DEFINE no == FALSE
           none == << >>
<1>1. StartOf("anthropic") = Ant(no, no, none, no)
  BY DEF StartOf, AnthropicStart, Ant
<1>2. no \in BOOLEAN /\ IsSeq(none) /\ Len(none) = 0 /\ Silent(none)
  BY EmptyIsSeq DEF Silent
<1>3. TextTo(r, 0) = << >> /\ CallsTo(r, 0) = << >>
  BY RowsToNone
<1>4. Holds(none, TextTo(r, 0), CallsTo(r, 0)) /\ Kept(none, AntTags, 0)
  BY <1>3, HoldsNothing, KeptNone
<1> HIDE DEF no, none
<1>5. AntBlocks(r, 0, no, none, none)
  BY <1>2, <1>4, Zenon DEF AntBlocks
<1>6. AntHeard(Going(Ant(no, no, none, no), Coll(none)), r, 0)
  BY <1>5, Zenon DEF AntHeard
<1> QED BY <1>1, <1>6 DEF none

LEMMA AntListens ==
  ASSUME NEW r, Whole(r), NEW step, NEW whole \in BOOLEAN
  PROVE  LET ss == [i \in DOMAIN r.items |-> AnthropicItemWire(r, i, whole)]
         IN /\ IsSeq(FlattenSeq(ss))
            /\ AntHeard(Consume(At("anthropic", r, step), Going(StartOf("anthropic"), Coll(<< >>)), FlattenSeq(ss)),
                        r, Len(r.items))
<1> DEFINE ss == [i \in DOMAIN r.items |-> AnthropicItemWire(r, i, whole)]
           N == Len(r.items)
           at == At("anthropic", r, step)
           q == Going(StartOf("anthropic"), Coll(<< >>))
           P == {n \in Nat : n <= N => AntHeard(Consume(at, q, FlattenSeq(Prefix(ss, n))), r, n)}
<1>1. IsResponse(r) /\ N \in Nat /\ DOMAIN r.items = 1 .. N
  BY ItemsOf DEF Whole
<1>2. IsSeq(ss) /\ Len(ss) = N /\ \A i \in DOMAIN ss : IsSeq(ss[i]) /\ ss[i] = AnthropicItemWire(r, i, whole)
  <2>1. ss = [i \in 1 .. N |-> ss[i]] /\ \A i \in 1 .. N : ss[i] = AnthropicItemWire(r, i, whole)
    BY <1>1
  <2>2. \A i \in 1 .. N : IsSeq(AnthropicItemWire(r, i, whole))
    BY <1>1, AnthropicItemIsBlock DEF BlockWire
  <2> HIDE DEF ss
  <2>3. IsSeq(ss) /\ Len(ss) = N /\ DOMAIN ss = 1 .. N
    BY <1>1, <2>1, FunctionIsSeq
  <2> QED BY <2>1, <2>2, <2>3
<1> HIDE DEF ss, q
<1>3. 0 \in P
  <2>1. FlattenSeq(Prefix(ss, 0)) = << >>
    BY PrefixGrows, FlattenEmpty
  <2>2. AntHeard(q, r, 0)
    BY AntAtFirst DEF q
  <2>3. Consume(at, q, << >>) = q
    BY ConsumeNone
  <2> QED BY <2>1, <2>2, <2>3
<1>4. ASSUME NEW n \in P PROVE n + 1 \in P
  <2> SUFFICES ASSUME n + 1 <= N
               PROVE  AntHeard(Consume(at, q, FlattenSeq(Prefix(ss, n + 1))), r, n + 1)
    OBVIOUS
  <2> DEFINE p == Consume(at, q, FlattenSeq(Prefix(ss, n)))
  <2>1. n \in Nat /\ n < Len(ss) /\ n + 1 \in DOMAIN r.items /\ n + 1 \in DOMAIN ss /\ AntHeard(p, r, n)
    BY <1>1, <1>2, IsSeqFacts
  <2> HIDE DEF p
  <2>2. Consume(at, q, FlattenSeq(Prefix(ss, n + 1))) = Consume(at, p, ss[n + 1])
    BY ONLY <1>2, <2>1, ConsumeItem DEF p
  <2>3. ss[n + 1] = AnthropicItemWire(r, n + 1, whole)
    BY <1>2, <2>1
  <2>4. AntHeard(Consume(at, p, AnthropicItemWire(r, n + 1, whole)), r, n + 1)
    BY <2>1, AntItem
  <2> QED BY ONLY <2>2, <2>3, <2>4
<1>5. AntHeard(Consume(at, q, FlattenSeq(Prefix(ss, N))), r, N)
  <2>1. P = Nat
    <3>1. P \in SUBSET Nat
      OBVIOUS
    <3> HIDE DEF P
    <3> QED BY <1>3, <1>4, <3>1, Induct
  <2> QED BY <1>1, <2>1
<1>6. Prefix(ss, N) = ss
  BY <1>2, PrefixWhole DEF IsSeq
<1>7. IsSeq(FlattenSeq(ss))
  BY <1>2, FlattenIsSeq
<1> QED BY <1>1, <1>5, <1>6, <1>7 DEF ss, q, N

LEMMA SilentText ==
  ASSUME NEW blocks, IsSeq(blocks), Silent(blocks)
  PROVE  LET texts == Only(blocks, {"text"})
         IN FlattenSeq([k \in DOMAIN texts |-> texts[k].data]) = << >>
<1> DEFINE texts == Only(blocks, {"text"})
           rows == [k \in DOMAIN texts |-> texts[k].data]
<1>1. IsSeq(texts) /\ ToSet(texts) = {e \in ToSet(blocks) : e.type \in {"text"}}
  BY OnlyElements
<1> HIDE DEF texts
<1>2. \A k \in DOMAIN texts : rows[k] = << >>
  <2> SUFFICES ASSUME NEW k \in DOMAIN texts PROVE texts[k].data = << >>
    OBVIOUS
  <2>1. texts[k] \in ToSet(blocks) /\ texts[k].type = "text"
    BY <1>1, IsSeqFacts
  <2>2. PICK j \in DOMAIN blocks : texts[k] = blocks[j]
    BY <2>1, IsSeqFacts
  <2> QED BY <2>1, <2>2 DEF Silent
<1>3. IsSeq(rows) /\ DOMAIN rows = DOMAIN texts
  <2>1. DOMAIN texts = 1 .. Len(texts) /\ Len(texts) \in Nat
    BY <1>1, IsSeqFacts
  <2>2. rows = [k \in 1 .. Len(texts) |-> rows[k]] /\ DOMAIN rows = DOMAIN texts
    BY <2>1
  <2> HIDE DEF rows
  <2> QED BY <2>1, <2>2, FunctionIsSeq
<1> HIDE DEF rows
<1>4. FlattenSeq(rows) = << >>
  BY <1>2, <1>3, FlattenNothing
<1> QED BY <1>4 DEF rows, texts

\* The terminal event: what is left are the thoughts, and the step's end.
LEMMA AntTerminalTells ==
  ASSUME NEW r, Whole(r), NEW t, NEW blocks, NEW s, AntBlocks(r, Len(r.items), t, blocks, s), NEW g, NEW p, NEW step
  PROVE  Tells(PushAll(Coll(s), AnthropicTerminal(Ant(t, g, blocks, p), step, r)), r)
<1> DEFINE d == Ant(t, g, blocks, p)
           texts == Only(blocks, {"text"})
           text == FlattenSeq([k \in DOMAIN texts |-> texts[k].data])
           kind == Kind(Only(blocks, {"call"}) # << >>, text # << >> /\ ~p)
           T == IF t \/ text = << >> THEN << >> ELSE <<TextDelta(<<"terminal text", 0>>, text)>>
           R == IF g THEN << >> ELSE LateReasoning(r)
           none == << >>
           N == Len(r.items)
<1>1. /\ IsSeq(blocks) /\ (t \/ Silent(blocks)) /\ Holds(s, TextTo(r, N), CallsTo(r, N)) /\ Kept(s, AntTags, N)
  BY DEF AntBlocks
<1>2. AnthropicTerminal(d, step, r) = T \o R \o Closing(step, r, kind)
  <2>1. d.text = t /\ d.reasoning = g /\ d.blocks = blocks /\ d.paused = p
    BY AntFields
  <2> HIDE DEF d
  <2> QED BY <2>1 DEF AnthropicTerminal
<1>3. kind # Unfinished
  BY DEF Kind, Unfinished
<1>4. T = none
  <2>1. CASE t
    BY <2>1
  <2>2. CASE Silent(blocks)
    BY <1>1, <2>2, SilentText
  <2> QED BY <1>1, <2>1, <2>2
<1>5. Holds(R, none, none) /\ Named(R, "reasoning")
  BY LateReasoningBlock, NothingIsNamed
<1>6. IsResponse(r) /\ N \in Nat
  BY ItemsOf DEF Whole
<1>7. Unnamed(s, "reasoning")
  <2>1. "reasoning" \notin AntTags
    BY DEF AntTags
  <2> QED BY ONLY <1>1, <1>6, <2>1, KeptNames
<1>8. TextTo(r, N) = TextOf(r) /\ CallsTo(r, N) = CallsSent(r) /\ IsSeq(TextOf(r)) /\ IsSeq(CallsSent(r))
  BY ResponseTells
<1> HIDE DEF T, R, kind, text, none, N, d
<1>9. /\ PushAll(Coll(s), R) = Coll(s \o R)
      /\ Holds(s \o R, TextTo(r, N) \o none, CallsTo(r, N) \o none)
  BY <1>1, <1>5, <1>7, BlockHolds
<1>10. TextTo(r, N) \o none = TextOf(r) /\ CallsTo(r, N) \o none = CallsSent(r)
  BY <1>8, EmptyAtTheEnd DEF none
<1>11. Holds(s \o R, TextOf(r), CallsSent(r)) /\ Same(CallsSent(r), CallsSent(r))
  BY <1>8, <1>9, <1>10, SameItself
<1> DEFINE v == s \o R
           c == Closing(step, r, kind)
<1> HIDE DEF v
<1>12. Tells(PushAll(Coll(v), c), r)
  <2>1. Holds(v, TextOf(r), CallsSent(r))
    BY <1>11 DEF v
  <2> QED BY ONLY Whole(r), <2>1, <1>3, <1>11, ClosingTells
<1>13. IsSeq(c) /\ IsSeq(R)
  BY <1>5, <1>6, ClosingIsSeq, HoldsSeqs
<1> HIDE DEF c
<1>14. none \o R = R
  BY <1>13, EmptyAtTheStart DEF none
<1>15. PushAll(Coll(s), R \o c) = PushAll(Coll(v), c)
  BY <1>9, <1>13, PushAllConcat DEF v
<1>16. AnthropicTerminal(d, step, r) = R \o c
  BY ONLY <1>2, <1>4, <1>14 DEF c
<1> QED BY ONLY <1>12, <1>15, <1>16 DEF d

LEMMA AntPauses ==
  ASSUME NEW t, NEW g, NEW blocks, NEW p, NEW s, IsSeq(s), NEW r, NEW step
  PROVE  Taken(At("anthropic", r, step), Going(Ant(t, g, blocks, p), Coll(s)), [type |-> "messageDelta"])
           = Going(Ant(t, g, blocks, r.paused), Coll(s))
<1> DEFINE at == At("anthropic", r, step)
           d == Ant(t, g, blocks, p)
           e == Ant(t, g, blocks, r.paused)
           w == [type |-> "messageDelta"]
<1>1. at.provider = "anthropic" /\ at.response = r /\ at.step = step
  BY AtFields
<1>2. SetPaused(d, r.paused) = e
  BY AntPausedChange DEF SetPaused
<1>3. w.type = "messageDelta"
  OBVIOUS
<1> HIDE DEF at, d, e, w
<1>4. AnthropicEvent(d, w, step, r) = Outcome(SetPaused(d, r.paused), << >>)
  BY <1>3 DEF AnthropicEvent, SetPaused
<1>5. Decode(at.provider, d, w, at.step, at.response) = Outcome(e, << >>)
  BY <1>1, <1>2, <1>4, DecodeOfAnthropic
<1>6. Taken(at, Going(d, Coll(s)), w) = Going(e, PushAll(Coll(s), << >>))
  BY <1>5, TakenGoing
<1>7. PushAll(Coll(s), << >>) = Coll(s)
  BY PushAllNothing
<1> QED BY <1>6, <1>7 DEF at, d, e, w

LEMMA TwoIsAppend == ASSUME NEW a, NEW b PROVE Append(<<a>>, b) = <<a, b>>
<1> DEFINE S == {a, b}
<1>1. a \in S /\ b \in S
  OBVIOUS
<1> HIDE DEF S
<1>2. Append(<<a>>, b) \in Seq(S) /\ <<a, b>> \in Seq(S)
  BY <1>1
<1>3. Len(Append(<<a>>, b)) = 2 /\ Append(<<a>>, b)[1] = a /\ Append(<<a>>, b)[2] = b
  BY <1>1
<1>4. Len(<<a, b>>) = 2 /\ <<a, b>>[1] = a /\ <<a, b>>[2] = b
  OBVIOUS
<1>5. \A i \in 1 .. Len(Append(<<a>>, b)) : Append(<<a>>, b)[i] = <<a, b>>[i]
  BY <1>3, <1>4
<1> QED BY <1>2, <1>3, <1>4, <1>5, SeqEqual

LEMMA AntCompletes ==
  ASSUME NEW t, NEW g, NEW blocks, NEW p, NEW s, NEW r, NEW step
  PROVE  Taken(At("anthropic", r, step), Going(Ant(t, g, blocks, p), Coll(s)), [type |-> "messageStop"]).c
           = PushAll(Coll(s), AnthropicTerminal(Ant(t, g, blocks, p), step, r))
<1> DEFINE at == At("anthropic", r, step)
           d == Ant(t, g, blocks, p)
           w == [type |-> "messageStop"]
           events == AnthropicTerminal(d, step, r)
<1>1. at.provider = "anthropic" /\ at.response = r /\ at.step = step
  BY AtFields
<1>3. w.type = "messageStop"
  OBVIOUS
<1> HIDE DEF at, d, w, events
<1>4. AnthropicEvent(d, w, step, r) = Over(d, events)
  BY <1>3 DEF AnthropicEvent, events
<1>5. Decode(at.provider, d, w, at.step, at.response) = Over(d, events)
  BY <1>1, <1>4, DecodeOfAnthropic
<1>6. Taken(at, Going(d, Coll(s)), w) = [d |-> d, c |-> PushAll(Coll(s), events), over |-> TRUE]
  BY ONLY <1>5, TakenOver
<1>7. Taken(at, Going(d, Coll(s)), w).c = PushAll(Coll(s), events)
  BY <1>6
<1> QED BY <1>7 DEF at, d, w, events

\* What Anthropic's adapter yields is the response.
LEMMA AnthropicTells ==
  ASSUME NEW r, Whole(r), NEW step, NEW whole \in BOOLEAN
  PROVE  Tells(Consume(At("anthropic", r, step), Going(StartOf("anthropic"), Coll(<< >>)), AnthropicWire(r, whole)).c, r)
<1> DEFINE ss == [i \in DOMAIN r.items |-> AnthropicItemWire(r, i, whole)]
           N == Len(r.items)
           at == At("anthropic", r, step)
           q == Going(StartOf("anthropic"), Coll(<< >>))
           w1 == [type |-> "messageDelta"]
           w2 == [type |-> "messageStop"]
           front == FlattenSeq(ss)
           p0 == Consume(at, q, front)
<1>1. IsSeq(front) /\ AntHeard(p0, r, N)
  BY AntListens
<1>2. AnthropicWire(r, whole) = front \o <<w1, w2>>
  BY DEF AnthropicWire
<1> HIDE DEF ss, front, q, p0, w1, w2, at
<1>3. PICK t, g, p, blocks, s : p0 = Going(Ant(t, g, blocks, p), Coll(s)) /\ AntBlocks(r, N, t, blocks, s)
  BY <1>1, Zenon DEF AntHeard
<1>4. IsSeq(s)
  BY <1>3, HoldsSeqs DEF AntBlocks
<1> DEFINE q1 == Going(Ant(t, g, blocks, r.paused), Coll(s))
           one == <<w1>>
<1>5. Taken(at, p0, w1) = q1
  BY <1>3, <1>4, AntPauses DEF at, w1
<1>6. Taken(at, q1, w2).c = PushAll(Coll(s), AnthropicTerminal(Ant(t, g, blocks, r.paused), step, r))
  BY AntCompletes DEF at, w2
<1>7. Tells(PushAll(Coll(s), AnthropicTerminal(Ant(t, g, blocks, r.paused), step, r)), r)
  BY <1>3, AntTerminalTells
<1>8. IsSeq(one) /\ Append(one, w2) = <<w1, w2>>
  <2>1. IsSeq(<<w1>>)
    BY OneIsSeq
  <2>2. Append(<<w1>>, w2) = <<w1, w2>>
    BY ONLY TwoIsAppend
  <2> QED BY <2>1, <2>2
<1> HIDE DEF q1, one
<1>9. Consume(at, q, front \o one) = Taken(at, p0, w1)
  <2>1. Consume(at, q, front \o one) = Consume(at, p0, one)
    BY <1>1, <1>8, ConsumeConcat DEF p0
  <2>2. Consume(at, p0, <<w1>>) = Taken(at, p0, w1)
    BY ConsumeOne
  <2> QED BY <2>1, <2>2 DEF one
<1>10. front \o Append(one, w2) = Append(front \o one, w2) /\ IsSeq(front \o one)
  <2>1. IsSeq(front) /\ IsSeq(one)
    BY <1>1, <1>8
  <2> QED BY ONLY <2>1, ConcatAppend
<1>11. Consume(at, q, Append(front \o one, w2)) = Taken(at, Consume(at, q, front \o one), w2)
  BY <1>10, ConsumeAppend
<1>12. Consume(at, q, front \o <<w1, w2>>) = Taken(at, q1, w2)
  BY ONLY <1>5, <1>8, <1>9, <1>10, <1>11
<1>13. Tells(Consume(at, q, AnthropicWire(r, whole)).c, r)
  BY ONLY <1>2, <1>6, <1>7, <1>12
<1> QED BY <1>13 DEF at, q

(***************************************************************************)
(* Adapters that name one item for all of a step's text.                   *)
(***************************************************************************)

\* The slots of a type are one at most, at an item that no other slot has.
Solo(s, type, item) ==
  /\ \A k \in DOMAIN s : s[k].type = type <=> (IsDelta(s[k]) /\ s[k].item = item)
  /\ \A k \in DOMAIN s : s[k].type = type => {"type", "item", "data"} \subseteq DOMAIN s[k]
  /\ \A j, k \in DOMAIN s : (s[j].type = type /\ s[k].type = type) => j = k
Missing(s, type) == \A k \in DOMAIN s : s[k].type # type

LEMMA SoloNone == ASSUME NEW type, NEW item PROVE Solo(<< >>, type, item) /\ Missing(<< >>, type)
  BY DEF Solo, Missing

LEMMA SoloFresh ==
  ASSUME NEW s, NEW type, NEW item, Solo(s, type, item), Missing(s, type)
  PROVE  Fresh(s, item)
  BY DEF Solo, Missing, Fresh

\* The elements of a sequence with one more.
LEMMA AppendElements ==
  ASSUME NEW s, IsSeq(s), NEW e
  PROVE  /\ IsSeq(Append(s, e))
         /\ \A k \in DOMAIN Append(s, e) :
              (k \in DOMAIN s /\ Append(s, e)[k] = s[k]) \/ (k = Len(s) + 1 /\ Append(s, e)[k] = e)
         /\ Len(s) + 1 \in DOMAIN Append(s, e) /\ Append(s, e)[Len(s) + 1] = e /\ Len(s) + 1 \notin DOMAIN s
         /\ \A k \in DOMAIN s : k \in DOMAIN Append(s, e) /\ Append(s, e)[k] = s[k]
<1> DEFINE t == Append(s, e)
<1>1. Len(s) \in Nat /\ DOMAIN s = 1 .. Len(s)
  BY IsSeqFacts
<1>2. /\ IsSeq(t) /\ Len(t) = Len(s) + 1
      /\ t[Len(s) + 1] = e /\ \A n \in 1 .. Len(s) : t[n] = s[n]
  BY AppendIsSeq, ZenonT(30)
<1> HIDE DEF t
<1>3. DOMAIN t = 1 .. Len(t)
  BY <1>2, IsSeqFacts
<1>4. /\ IsSeq(t)
      /\ \A k \in DOMAIN t : (k \in DOMAIN s /\ t[k] = s[k]) \/ (k = Len(s) + 1 /\ t[k] = e)
      /\ Len(s) + 1 \in DOMAIN t /\ t[Len(s) + 1] = e /\ Len(s) + 1 \notin DOMAIN s
      /\ \A k \in DOMAIN s : k \in DOMAIN t /\ t[k] = s[k]
  BY <1>1, <1>2, <1>3
<1> QED BY <1>4 DEF t

LEMMA SoloOther ==
  ASSUME NEW s, IsSeq(s), NEW type, NEW item, Solo(s, type, item),
         NEW e, e.type # type, IsDelta(e) => e.item # item
  PROVE  /\ Solo(Append(s, e), type, item)
         /\ Missing(s, type) => Missing(Append(s, e), type)
<1> DEFINE t == Append(s, e)
<1>1. \A k \in DOMAIN t : (k \in DOMAIN s /\ t[k] = s[k]) \/ t[k] = e
  BY AppendElements
<1>2. \A k \in DOMAIN t : t[k].type = type => (k \in DOMAIN s /\ t[k] = s[k])
  BY <1>1
<1> HIDE DEF t
<1>3. Solo(t, type, item)
  BY <1>1, <1>2 DEF Solo
<1>4. Missing(s, type) => Missing(t, type)
  BY <1>2 DEF Missing
<1> QED BY <1>3, <1>4 DEF t

LEMMA SoloOpens ==
  ASSUME NEW s, IsSeq(s), NEW type, NEW item, Solo(s, type, item), Missing(s, type),
         NEW e, IsDelta(e), e.type = type, e.item = item, {"type", "item", "data"} \subseteq DOMAIN e
  PROVE  Pushed(Coll(s), e) = Coll(Append(s, e)) /\ Solo(Append(s, e), type, item)
<1> DEFINE t == Append(s, e)
<1>1. \A k \in DOMAIN t : (k \in DOMAIN s /\ t[k] = s[k]) \/ (k = Len(s) + 1 /\ t[k] = e)
  BY AppendElements
<1>2. Pushed(Coll(s), e) = Coll(t)
  <2>1. Fresh(s, e.item) /\ e.type # "Finished"
    BY SoloFresh DEF IsDelta
  <2> QED BY <2>1, PushNew
<1> HIDE DEF t
<1>3. \A k \in DOMAIN t : (k \in DOMAIN s /\ t[k] = s[k] /\ t[k].type # type) \/ (k = Len(s) + 1 /\ t[k] = e)
  BY <1>1 DEF Missing
<1>4. Solo(t, type, item)
  BY <1>3 DEF Solo
<1> QED BY <1>2, <1>4 DEF t

LEMMA DataJoins ==
  ASSUME NEW slot, {"type", "item", "data"} \subseteq DOMAIN slot, slot.type # "Call", NEW e
  PROVE  /\ Extend(slot, e).type = slot.type /\ Extend(slot, e).item = slot.item
         /\ Extend(slot, e).data = slot.data \o e.data
         /\ DOMAIN Extend(slot, e) = DOMAIN slot
  BY DEF Extend

\* A sequence with one element replaced.
ReplacedIn(t, s, k, x) ==
  /\ IsSeq(t) /\ DOMAIN t = DOMAIN s /\ Len(t) = Len(s) /\ t[k] = x
  /\ \A j \in DOMAIN s : j # k => t[j] = s[j]

LEMMA Replaced ==
  ASSUME NEW s, IsSeq(s), NEW k \in DOMAIN s, NEW x
  PROVE  ReplacedIn([s EXCEPT ![k] = x], s, k, x)
<1> DEFINE t == [s EXCEPT ![k] = x]
<1>1. Len(s) \in Nat /\ DOMAIN s = 1 .. Len(s)
  BY IsSeqFacts
<1>2. DOMAIN t = DOMAIN s /\ t[k] = x /\ (\A j \in DOMAIN s : j # k => t[j] = s[j]) /\ t = [j \in DOMAIN s |-> t[j]]
  OBVIOUS
<1> HIDE DEF t
<1>3. t = [j \in 1 .. Len(s) |-> t[j]]
  BY <1>1, <1>2
<1>4. IsSeq(t) /\ Len(t) = Len(s)
  BY <1>1, <1>3, FunctionIsSeq
<1>5. ReplacedIn(t, s, k, x)
  BY <1>2, <1>4 DEF ReplacedIn
<1> QED BY <1>5 DEF t

\* Whatever is new is in the slot of a type.
Becomes(s, t, type) ==
  /\ IsSeq(t)
  /\ \A k \in DOMAIN s : k \in DOMAIN t /\ (s[k].type # type => t[k] = s[k])
  /\ \A k \in DOMAIN t : t[k].type # type => (k \in DOMAIN s /\ t[k] = s[k])

LEMMA BecomesKeeps ==
  ASSUME NEW s, NEW t, NEW type, Becomes(s, t, type), NEW item, Solo(t, type, item),
         NEW other, other # type, NEW place, place # item, Solo(s, other, place)
  PROVE  /\ Solo(t, other, place) /\ (Missing(s, other) => Missing(t, other))
         /\ \A k \in DOMAIN s : s[k].type = other => (k \in DOMAIN t /\ t[k] = s[k])
<1>1. \A k \in DOMAIN t : t[k].type = other => (k \in DOMAIN s /\ t[k] = s[k])
  BY DEF Becomes
<1>2. \A k \in DOMAIN t : (IsDelta(t[k]) /\ t[k].item = place) => (k \in DOMAIN s /\ t[k] = s[k])
  BY DEF Becomes, Solo
<1>3. \A k \in DOMAIN s : s[k].type = other => (k \in DOMAIN t /\ t[k] = s[k])
  BY DEF Becomes
<1>4. Solo(t, other, place)
  <2>1. \A k \in DOMAIN t : t[k].type = other <=> (IsDelta(t[k]) /\ t[k].item = place)
    BY <1>1, <1>2 DEF Solo
  <2>2. \A k \in DOMAIN t : t[k].type = other => {"type", "item", "data"} \subseteq DOMAIN t[k]
    BY <1>1 DEF Solo
  <2>3. \A j, k \in DOMAIN t : (t[j].type = other /\ t[k].type = other) => j = k
    BY <1>1 DEF Solo
  <2> QED BY <2>1, <2>2, <2>3 DEF Solo
<1>5. Missing(s, other) => Missing(t, other)
  BY <1>1 DEF Missing
<1> QED BY <1>3, <1>4, <1>5

LEMMA BecomesMore ==
  ASSUME NEW s, IsSeq(s), NEW e, NEW type, e.type = type
  PROVE  Becomes(s, Append(s, e), type)
<1> DEFINE t == Append(s, e)
<1>1. /\ IsSeq(t) /\ \A k \in DOMAIN t : (k \in DOMAIN s /\ t[k] = s[k]) \/ t[k] = e
      /\ \A k \in DOMAIN s : k \in DOMAIN t /\ t[k] = s[k]
  BY AppendElements
<1> HIDE DEF t
<1>2. Becomes(s, t, type)
  BY <1>1 DEF Becomes
<1> QED BY <1>2 DEF t

\* The text of a step that is in one slot.
LEMMA SoloText ==
  ASSUME NEW s, NEW text, NEW calls, Holds(s, text, calls), NEW item, Solo(s, "Text", item),
         NEW k \in DOMAIN s, s[k].type = "Text"
  PROVE  text = s[k].data /\ IsSeq(s[k].data)
<1> DEFINE ss == [n \in DOMAIN s |-> TextPart(s[n])]
<1>1. IsSeq(s) /\ text = FlattenSeq(ss) /\ \A e \in ToSet(s) : Sound(e)
  BY DEF Holds, TextAll
<1>2. Len(s) \in Nat /\ DOMAIN s = 1 .. Len(s) /\ s[k] \in ToSet(s)
  BY <1>1, IsSeqFacts
<1>3. ss = [n \in 1 .. Len(s) |-> ss[n]] /\ \A n \in 1 .. Len(s) : ss[n] = TextPart(s[n])
  BY <1>2
<1> HIDE DEF ss
<1>4. IsSeq(ss) /\ DOMAIN ss = 1 .. Len(s)
  BY <1>2, <1>3, FunctionIsSeq
<1>5. ss[k] = s[k].data /\ IsSeq(s[k].data)
  BY <1>1, <1>2, <1>3 DEF TextPart, Sound
<1>6. \A j \in DOMAIN ss : j # k => ss[j] = << >>
  <2>1. \A j \in DOMAIN s : j # k => s[j].type # "Text"
    BY DEF Solo
  <2> QED BY <1>2, <1>3, <1>4, <2>1 DEF TextPart
<1>7. FlattenSeq(ss) = ss[k]
  BY <1>2, <1>4, <1>5, <1>6, FlattenSolo
<1> QED BY <1>1, <1>5, <1>7

\* Slots that differ in what is neither text nor a call.
LEMMA HoldsText ==
  ASSUME NEW t, IsSeq(t), \A e \in ToSet(t) : Sound(e), NEW item, Solo(t, "Text", item),
         NEW k \in DOMAIN t, t[k].type = "Text"
  PROVE  TextAll(t) = t[k].data
<1>1. Holds(t, TextAll(t), CallAll(t))
  BY DEF Holds
<1> QED BY <1>1, SoloText

LEMMA ExtendedSound ==
  ASSUME NEW slot, {"type", "item", "data"} \subseteq DOMAIN slot, Sound(slot),
         slot.type \in {"Text", "Reasoning"}, NEW e, IsSeq(e.data)
  PROVE  Sound(Extend(slot, e))
<1> DEFINE x == Extend(slot, e)
<1>1. x.type = slot.type /\ x.data = slot.data \o e.data /\ DOMAIN x = DOMAIN slot
  BY DataJoins
<1>2. slot.type = "Text" => IsSeq(slot.data \o e.data)
  BY ConcatIsSeq DEF Sound
<1> HIDE DEF x
<1>3. PlainEvent(x) /\ ~BadCall(x)
  BY <1>1 DEF PlainEvent, BadCall, Sound
<1>4. Sound(x)
  BY <1>1, <1>2, <1>3 DEF Sound
<1> QED BY <1>4 DEF x

\* What comes for a slot that is alone with its item.
SoloGrows(s, text, calls, type, item, data) ==
  /\ Holds(s, text, calls) /\ Solo(s, type, item) /\ type \in {"Text", "Reasoning"} /\ IsSeq(data)

\* The delta is pushed: its own slot has it, the others are as they were.
Gains(s, t, text, calls, type, item, data) ==
  /\ Pushed(Coll(s), Delta(type, item, data)) = Coll(t) /\ Becomes(s, t, type) /\ Solo(t, type, item)
  /\ Holds(t, text \o TextPart(Delta(type, item, data)), calls)

\* The slot is there: the delta extends it.
SlotGrows(s, k, t, type, item, data) ==
  k \in DOMAIN s /\ s[k].type = type /\ t = [s EXCEPT ![k] = Extend(s[k], Delta(type, item, data))]

LEMMA SoloExtends ==
  ASSUME NEW s, NEW text, NEW calls, NEW type, NEW item, NEW data,
         SoloGrows(s, text, calls, type, item, data),
         NEW k, NEW t, SlotGrows(s, k, t, type, item, data)
  PROVE  Gains(s, t, text, calls, type, item, data)
<1> DEFINE e == Delta(type, item, data)
           x == Extend(s[k], e)
<1>0. k \in DOMAIN s /\ s[k].type = type /\ t = [s EXCEPT ![k] = Extend(s[k], e)]
  BY DEF SlotGrows
<1>1. /\ e.type = type /\ e.item = item /\ e.data = data /\ IsDelta(e) /\ type # "Call"
      /\ IsSeq(s) /\ Solo(s, type, item) /\ type \in {"Text", "Reasoning"} /\ IsSeq(data)
      /\ \A z \in ToSet(s) : Sound(z)
  BY DEF Delta, IsDelta, SoloGrows, Holds
<1> HIDE DEF e
<1>2. /\ IsDelta(s[k]) /\ s[k].item = item /\ {"type", "item", "data"} \subseteq DOMAIN s[k]
      /\ \A j \in DOMAIN s : (IsDelta(s[j]) /\ s[j].item = item) => j = k
      /\ \A j \in DOMAIN s : j # k => s[j].type # type
  BY <1>0, <1>1 DEF Solo
<1>3. x.type = type /\ x.item = item /\ x.data = s[k].data \o data /\ DOMAIN x = DOMAIN s[k]
  <2>1. s[k].type # "Call" /\ {"type", "item", "data"} \subseteq DOMAIN s[k]
    BY <1>0, <1>1, <1>2
  <2>2. /\ Extend(s[k], e).type = s[k].type /\ Extend(s[k], e).item = s[k].item
        /\ Extend(s[k], e).data = s[k].data \o e.data
        /\ DOMAIN Extend(s[k], e) = DOMAIN s[k]
    BY ONLY <2>1, DataJoins
  <2> QED BY <1>0, <1>1, <1>2, <2>2
<1>4. Pushed(Coll(s), e) = Coll([s EXCEPT ![k] = Extend(@, e)])
  <2>1. ~Inconsistent(s[k], e)
    BY <1>0, <1>1 DEF Inconsistent
  <2>2. IsSeq(s) /\ k \in DOMAIN s /\ IsDelta(s[k]) /\ IsDelta(e) /\ e.item = s[k].item
    BY <1>0, <1>1, <1>2
  <2>3. \A j \in DOMAIN s : IsDelta(s[j]) /\ s[j].item = e.item => j = k
    BY <1>1, <1>2
  <2> QED BY ONLY <2>1, <2>2, <2>3, PushMore, Zenon
<1>5. [s EXCEPT ![k] = Extend(@, e)] = t
  BY <1>0
<1>6. t = [s EXCEPT ![k] = x]
  BY <1>0
<1>7. Len(s) \in Nat /\ DOMAIN s = 1 .. Len(s) /\ \A j \in DOMAIN s : s[j] \in ToSet(s)
  BY <1>1, IsSeqFacts
<1>8. Sound(x)
  <2>1. Sound(s[k]) /\ s[k].type \in {"Text", "Reasoning"} /\ IsSeq(e.data)
    BY <1>0, <1>1, <1>7
  <2> QED BY <1>2, <2>1, ExtendedSound
<1> HIDE DEF x
<1>9. /\ IsSeq(t) /\ DOMAIN t = DOMAIN s /\ Len(t) = Len(s) /\ t[k] = x
      /\ \A j \in DOMAIN s : j # k => t[j] = s[j]
  <2>1. IsSeq(s) /\ k \in DOMAIN s
    BY <1>0, <1>1
  <2>2. ReplacedIn([s EXCEPT ![k] = x], s, k, x)
    BY ONLY <2>1, Replaced
  <2>3. ReplacedIn(t, s, k, x)
    BY <1>6, <2>2
  <2> QED BY <2>3 DEF ReplacedIn
<1>10. Becomes(s, t, type)
  BY <1>0, <1>2, <1>3, <1>9 DEF Becomes
<1>11. Solo(t, type, item)
  <2>1. \A j \in DOMAIN t : t[j].type = type <=> (IsDelta(t[j]) /\ t[j].item = item)
    <3>1. IsDelta(x)
      BY <1>1, <1>3 DEF IsDelta
    <3>2. \A j \in DOMAIN s : s[j].type = type <=> (IsDelta(s[j]) /\ s[j].item = item)
      BY <1>1 DEF Solo
    <3>3. \A j \in DOMAIN s : j # k => (t[j].type = type <=> (IsDelta(t[j]) /\ t[j].item = item))
      BY <1>9, <3>2
    <3>4. t[k].type = type /\ IsDelta(t[k]) /\ t[k].item = item
      BY <1>0, <1>1, <1>2, <1>3, <1>9, <3>1
    <3> QED BY <1>9, <3>3, <3>4
  <2>2. \A j \in DOMAIN t : t[j].type = type => {"type", "item", "data"} \subseteq DOMAIN t[j]
    BY <1>2, <1>3, <1>9
  <2>3. \A j, i \in DOMAIN t : (t[j].type = type /\ t[i].type = type) => j = i
    BY <1>2, <1>9
  <2> QED BY <2>1, <2>2, <2>3 DEF Solo
<1>12. \A z \in ToSet(t) : Sound(z)
  <2>1. \A j \in DOMAIN t : Sound(t[j])
    BY <1>0, <1>1, <1>7, <1>8, <1>9
  <2> QED BY <2>1 DEF ToSet
<1>13. CallAll(t) = calls
  <2>1. \A j \in DOMAIN s : CallPart(t[j]) = CallPart(s[j])
    BY <1>0, <1>1, <1>3, <1>9 DEF CallPart
  <2>2. [n \in DOMAIN t |-> CallPart(t[n])] = [n \in DOMAIN s |-> CallPart(s[n])]
    BY <1>9, <2>1
  <2>3. CallAll(t) = CallAll(s)
    BY <2>2 DEF CallAll
  <2> QED BY <2>3 DEF Holds, SoloGrows
<1>14. TextAll(t) = text \o TextPart(e)
  <2>1. CASE type = "Text"
    <3>1. text = s[k].data
      BY <1>0, <1>1, <2>1, SoloText DEF SoloGrows
    <3>2. TextAll(t) = t[k].data
      <4>1. /\ IsSeq(t) /\ (\A z \in ToSet(t) : Sound(z)) /\ Solo(t, "Text", item)
            /\ k \in DOMAIN t /\ t[k].type = "Text"
        BY <1>0, <1>3, <1>9, <1>11, <1>12, <2>1
      <4> QED BY ONLY <4>1, HoldsText, Zenon
    <3> QED BY <1>1, <1>3, <1>9, <2>1, <3>1, <3>2 DEF TextPart
  <2>2. CASE type = "Reasoning"
    <3>1. \A j \in DOMAIN s : TextPart(t[j]) = TextPart(s[j])
      BY <1>0, <1>1, <1>3, <1>9, <2>2 DEF TextPart
    <3>2. [n \in DOMAIN t |-> TextPart(t[n])] = [n \in DOMAIN s |-> TextPart(s[n])]
      BY <1>9, <3>1
    <3>3. TextAll(t) = TextAll(s) /\ TextPart(e) = << >>
      BY <1>1, <2>2, <3>2 DEF TextAll, TextPart
    <3>4. IsSeq(text) /\ TextAll(s) = text
      BY HoldsSeqs DEF Holds, SoloGrows
    <3>5. text \o << >> = text
      BY <3>4, EmptyAtTheEnd
    <3> QED BY <3>3, <3>4, <3>5
  <2> QED BY <1>1, <2>1, <2>2
<1>15. Holds(t, text \o TextPart(e), calls)
  BY <1>9, <1>12, <1>13, <1>14 DEF Holds
<1> QED BY <1>4, <1>5, <1>10, <1>11, <1>15 DEF Gains, e

\* Whether or not the slot is there yet.
LEMMA SoloPush ==
  ASSUME NEW s, NEW text, NEW calls, NEW type, NEW item, NEW data,
         SoloGrows(s, text, calls, type, item, data)
  PROVE  \E t : Gains(s, t, text, calls, type, item, data)
<1> DEFINE e == Delta(type, item, data)
<1>1. /\ e.type = type /\ e.item = item /\ e.data = data /\ IsDelta(e)
      /\ {"type", "item", "data"} \subseteq DOMAIN e
      /\ IsSeq(s) /\ Solo(s, type, item) /\ type \in {"Text", "Reasoning"} /\ IsSeq(data)
      /\ Holds(s, text, calls)
  BY DEF Delta, IsDelta, SoloGrows, Holds
<1>2. Sound(e) /\ CallPart(e) = << >>
  BY <1>1, SoundDeltas DEF TextDelta, ReasoningDelta
<1> HIDE DEF e
<1>3. CASE Missing(s, type)
  <2> DEFINE t == Append(s, e)
  <2>1. Pushed(Coll(s), e) = Coll(t) /\ Solo(t, type, item)
    BY <1>1, <1>3, SoloOpens
  <2>2. Becomes(s, t, type)
    BY <1>1, BecomesMore
  <2>3. Holds(t, text \o TextPart(e), calls \o CallPart(e))
    BY <1>1, <1>2, HoldsAppend
  <2>4. calls \o << >> = calls
    BY <1>1, HoldsSeqs, EmptyAtTheEnd
  <2> HIDE DEF t
  <2>5. Gains(s, t, text, calls, type, item, data)
    BY <1>2, <2>1, <2>2, <2>3, <2>4 DEF Gains, e
  <2> QED BY <2>5
<1>4. CASE ~Missing(s, type)
  <2>1. PICK k \in DOMAIN s : s[k].type = type
    BY <1>4 DEF Missing
  <2> DEFINE t == [s EXCEPT ![k] = Extend(s[k], e)]
  <2>2. SlotGrows(s, k, t, type, item, data)
    BY <2>1 DEF SlotGrows, e
  <2> HIDE DEF t
  <2>3. Gains(s, t, text, calls, type, item, data)
    BY <2>2, SoloExtends
  <2> QED BY <2>3
<1> QED BY <1>3, <1>4

(***************************************************************************)
(* xAI's chat dialect.                                                     *)
(***************************************************************************)
\* The collector's slots, and the decoder, after some text.
XaiHeld(s, text) ==
  Holds(s, text, << >>) /\ Solo(s, "Text", <<"text", 0>>) /\ Solo(s, "Reasoning", <<"reasoning", 0>>)
XaiGoes(q, text) == \E b, s : q = Going([text |-> b], Coll(s)) /\ XaiHeld(s, text)
XaiChunk(type, data) == [type |-> type, data |-> data]
XaiAdds(type, data) == IF type = "text" THEN data ELSE << >>

LEMMA XaiPushes ==
  ASSUME NEW s, NEW text, XaiHeld(s, text), NEW type \in {"text", "thought"}, NEW data, IsSeq(data)
  PROVE  LET e == IF type = "text" THEN TextDelta(<<"text", 0>>, data)
                  ELSE ReasoningDelta(<<"reasoning", 0>>, data)
         IN \E t : Pushed(Coll(s), e) = Coll(t) /\ XaiHeld(t, text \o XaiAdds(type, data))
<1> DEFINE T == <<"text", 0>>
           R == <<"reasoning", 0>>
           none == << >>
<1>1. T # R
  OBVIOUS
<1>2. Holds(s, text, none) /\ Solo(s, "Text", T) /\ Solo(s, "Reasoning", R)
  BY DEF XaiHeld
<1>3. \A t, more : (Holds(t, more, none) /\ Solo(t, "Text", T) /\ Solo(t, "Reasoning", R)) => XaiHeld(t, more)
  BY DEF XaiHeld
<1> HIDE DEF T, R, none
<1>4. CASE type = "text"
  <2>1. SoloGrows(s, text, none, "Text", T, data)
    BY <1>2 DEF SoloGrows
  <2>2. PICK t : Gains(s, t, text, none, "Text", T, data)
    BY <2>1, SoloPush
  <2>3. TextPart(Delta("Text", T, data)) = data
    BY DEF TextPart, Delta
  <2>4. /\ Pushed(Coll(s), Delta("Text", T, data)) = Coll(t) /\ Becomes(s, t, "Text") /\ Solo(t, "Text", T)
        /\ Holds(t, text \o data, none)
    BY <2>2, <2>3 DEF Gains
  <2>5. Solo(t, "Reasoning", R)
    <3>1. "Reasoning" # "Text"
      OBVIOUS
    <3> QED BY <1>1, <1>2, <2>4, <3>1, BecomesKeeps
  <2>6. XaiHeld(t, text \o data)
    BY <1>3, <2>4, <2>5
  <2> QED BY <1>4, <2>4, <2>6 DEF TextDelta, XaiAdds, T
<1>5. CASE type = "thought"
  <2>1. SoloGrows(s, text, none, "Reasoning", R, data)
    BY <1>2 DEF SoloGrows
  <2>2. PICK t : Gains(s, t, text, none, "Reasoning", R, data)
    BY <2>1, SoloPush
  <2>3. TextPart(Delta("Reasoning", R, data)) = << >>
    BY DEF TextPart, Delta
  <2>4. /\ Pushed(Coll(s), Delta("Reasoning", R, data)) = Coll(t) /\ Becomes(s, t, "Reasoning")
        /\ Solo(t, "Reasoning", R) /\ Holds(t, text \o << >>, none)
    BY <2>2, <2>3 DEF Gains
  <2>5. Solo(t, "Text", T)
    <3>1. "Reasoning" # "Text"
      OBVIOUS
    <3> QED BY <1>1, <1>2, <2>4, <3>1, BecomesKeeps
  <2>6. XaiHeld(t, text \o << >>)
    BY <1>3, <2>4, <2>5
  <2> QED BY <1>5, <2>4, <2>6 DEF ReasoningDelta, XaiAdds, R
<1> QED BY <1>4, <1>5

LEMMA DecodeOfXai ==
  ASSUME NEW d, NEW w, NEW step, NEW r
  PROVE  Decode("xai", d, w, step, r) = XaiChatEvent(d, w, step, r)
  BY DEF Decode

\* A chunk of text or of reasoning.
LEMMA XaiTakes ==
  ASSUME NEW q, NEW text, XaiGoes(q, text), NEW type \in {"text", "thought"}, NEW data, IsSeq(data),
         NEW r, NEW step
  PROVE  XaiGoes(Taken(At("xai", r, step), q, XaiChunk(type, data)), text \o XaiAdds(type, data))
<1> DEFINE at == At("xai", r, step)
           w == XaiChunk(type, data)
           e == IF type = "text" THEN TextDelta(<<"text", 0>>, data) ELSE ReasoningDelta(<<"reasoning", 0>>, data)
<1>1. PICK b, s : q = Going([text |-> b], Coll(s)) /\ XaiHeld(s, text)
  BY DEF XaiGoes
<1> DEFINE d == [text |-> b]
           f == [text |-> (b \/ type = "text")]
           g == IF type = "text" THEN [text |-> TRUE] ELSE d
<1>2. PICK t : Pushed(Coll(s), e) = Coll(t) /\ XaiHeld(t, text \o XaiAdds(type, data))
  BY <1>1, XaiPushes
<1>3. XaiChatEvent(d, w, step, r) = Outcome(g, <<e>>)
  BY DEF XaiChatEvent, XaiChunk
<1>4. at.provider = "xai" /\ at.response = r /\ at.step = step
  BY AtFields
<1> HIDE DEF at, w, e, d, f
<1>5. Decode(at.provider, d, w, at.step, at.response) = Outcome(g, <<e>>)
  BY <1>3, <1>4, DecodeOfXai
<1>6. \E x : g = [text |-> x]
  BY DEF d
<1>7. PICK x : g = [text |-> x]
  BY <1>6
<1> HIDE DEF g
<1>8. Taken(at, Going(d, Coll(s)), w) = Going(g, PushAll(Coll(s), <<e>>))
  BY ONLY <1>5, TakenGoing
<1>9. PushAll(Coll(s), <<e>>) = Coll(t)
  BY <1>2, PushAllOne
<1>10. Taken(at, q, w) = Going([text |-> x], Coll(t))
  BY <1>1, <1>7, <1>8, <1>9 DEF d
<1>11. XaiGoes(Taken(at, q, w), text \o XaiAdds(type, data))
  BY <1>2, <1>10 DEF XaiGoes
<1> QED BY <1>11 DEF at, w

\* The chunks of an item.
LEMMA XaiItemTaken ==
  ASSUME NEW q, NEW text, XaiGoes(q, text), NEW type \in {"text", "thought"}, NEW r, NEW step,
         NEW f, IsSeq(f), \A k \in 1 .. Len(f) : IsSeq(f[k])
  PROVE  XaiGoes(Consume(At("xai", r, step), q, [k \in DOMAIN f |-> XaiChunk(type, f[k])]),
                 text \o XaiAdds(type, FlattenSeq(f)))
<1> DEFINE N == Len(f)
           at == At("xai", r, step)
           wire == [k \in DOMAIN f |-> XaiChunk(type, f[k])]
           P == {n \in Nat : n <= N => XaiGoes(Consume(at, q, Prefix(wire, n)),
                                               text \o XaiAdds(type, FlattenSeq(Prefix(f, n))))}
<1>0. N \in Nat /\ DOMAIN f = 1 .. N /\ Prefix(f, N) = f
  BY IsSeqFacts, PrefixWhole DEF IsSeq
<1>a. wire = [k \in 1 .. N |-> wire[k]] /\ \A k \in 1 .. N : wire[k] = XaiChunk(type, f[k])
  BY <1>0
<1> HIDE DEF wire, at
<1>b. IsSeq(wire) /\ Len(wire) = N /\ DOMAIN wire = 1 .. N
  BY <1>0, <1>a, FunctionIsSeq
<1>c. Prefix(wire, N) = wire
  BY <1>b, PrefixWhole DEF IsSeq
<1>d. IsSeq(text)
  BY HoldsSeqs DEF XaiGoes, XaiHeld
<1>1. 0 \in P
  <2>1. Prefix(wire, 0) = << >> /\ Prefix(f, 0) = << >>
    BY PrefixGrows
  <2>2. XaiAdds(type, << >>) = << >> /\ FlattenSeq(<< >>) = << >> /\ text \o << >> = text
    BY <1>d, FlattenEmpty, EmptyAtTheEnd DEF XaiAdds
  <2>3. Consume(at, q, << >>) = q
    BY ConsumeNone
  <2> QED BY <2>1, <2>2, <2>3
<1>2. ASSUME NEW n \in P PROVE n + 1 \in P
  <2> SUFFICES ASSUME n + 1 <= N
               PROVE  XaiGoes(Consume(at, q, Prefix(wire, n + 1)),
                              text \o XaiAdds(type, FlattenSeq(Prefix(f, n + 1))))
    OBVIOUS
  <2> DEFINE p == Prefix(wire, n)
             u == FlattenSeq(Prefix(f, n))
             x == f[n + 1]
             more == text \o XaiAdds(type, u)
  <2>1. n \in Nat /\ n < N /\ XaiGoes(Consume(at, q, p), more) /\ n + 1 \in 1 .. N
    BY <1>0
  <2>2. Prefix(wire, n + 1) = Append(p, wire[n + 1]) /\ IsSeq(p) /\ wire[n + 1] = XaiChunk(type, x)
    BY <1>a, <2>1, PrefixGrows
  <2>3. FlattenSeq(Prefix(f, n + 1)) = u \o x /\ IsSeq(u) /\ IsSeq(x)
    BY <1>0, <2>1, FlattenGrows
  <2> HIDE DEF p, u, x, more
  <2>4. Consume(at, q, Append(p, XaiChunk(type, x))) = Taken(at, Consume(at, q, p), XaiChunk(type, x))
    BY <2>2, ConsumeAppend
  <2>5. XaiGoes(Taken(at, Consume(at, q, p), XaiChunk(type, x)), more \o XaiAdds(type, x))
    BY <2>1, <2>3, XaiTakes DEF at
  <2>6. more \o XaiAdds(type, x) = text \o XaiAdds(type, u \o x)
    <3>1. CASE type = "text"
      <4>1. (text \o u) \o x = text \o (u \o x)
        <5>1. IsSeq(text) /\ IsSeq(u) /\ IsSeq(x)
          BY <1>d, <2>3
        <5> QED BY ONLY <5>1, ConcatIsAssociative
      <4> QED BY <3>1, <4>1 DEF more, XaiAdds
    <3>2. CASE type = "thought"
      <4>1. (text \o << >>) \o << >> = text \o << >>
        <5>1. text \o << >> = text
          BY <1>d, EmptyAtTheEnd
        <5> QED BY <5>1
      <4> QED BY <3>2, <4>1 DEF more, XaiAdds
    <3> QED BY <3>1, <3>2
  <2> QED BY <2>2, <2>3, <2>4, <2>5, <2>6
<1>3. P = Nat
  <2>1. P \in SUBSET Nat
    OBVIOUS
  <2> HIDE DEF P
  <2> QED BY <1>1, <1>2, <2>1, Induct
<1>4. XaiGoes(Consume(at, q, Prefix(wire, N)), text \o XaiAdds(type, FlattenSeq(Prefix(f, N))))
  BY <1>0, <1>3
<1> QED BY <1>0, <1>c, <1>4 DEF wire, at

\* The chunks of an item; a response that the dialect may serve.
XaiRow(r, i, whole) == [k \in DOMAIN Fragments(r, i, whole) |-> XaiChunk(r.items[i].type, Fragments(r, i, whole)[k])]
XaiServes(r) == Whole(r) /\ \A i \in DOMAIN r.items : r.items[i].type \in {"text", "thought"}

LEMMA XaiItem ==
  ASSUME NEW r, XaiServes(r), NEW step, NEW whole, NEW q, NEW n \in Nat, n + 1 \in DOMAIN r.items,
         XaiGoes(q, TextTo(r, n))
  PROVE  XaiGoes(Consume(At("xai", r, step), q, XaiRow(r, n + 1, whole)), TextTo(r, n + 1))
<1>1. Whole(r) /\ r.items[n + 1].type \in {"text", "thought"} /\ n < Len(r.items)
  BY ItemsOf DEF XaiServes, Whole
<1> DEFINE f == Fragments(r, n + 1, whole)
           type == r.items[n + 1].type
<1>2. /\ IsSeq(f) /\ (\A k \in 1 .. Len(f) : IsSeq(f[k])) /\ FlattenSeq(f) = DataOf(r, n + 1)
  BY <1>1, FragmentsFlatten
<1>3. XaiRow(r, n + 1, whole) = [k \in DOMAIN f |-> XaiChunk(type, f[k])]
  BY DEF XaiRow
<1>4. TextTo(r, n + 1) = TextTo(r, n) \o TextRow(r, n + 1)
  BY <1>1, RowsTo
<1>5. TextRow(r, n + 1) = XaiAdds(type, DataOf(r, n + 1))
  BY DEF TextRow, XaiAdds
<1>6. type \in {"text", "thought"}
  BY <1>1
<1> HIDE DEF f, type
<1>7. XaiGoes(Consume(At("xai", r, step), q, [k \in DOMAIN f |-> XaiChunk(type, f[k])]),
              TextTo(r, n) \o XaiAdds(type, FlattenSeq(f)))
  BY <1>2, <1>6, XaiItemTaken
<1> QED BY <1>2, <1>3, <1>4, <1>5, <1>7

LEMMA XaiListens ==
  ASSUME NEW r, XaiServes(r), NEW step, NEW whole
  PROVE  LET ss == [i \in DOMAIN r.items |-> XaiRow(r, i, whole)]
         IN /\ IsSeq(FlattenSeq(ss))
            /\ XaiGoes(Consume(At("xai", r, step), Going(StartOf("xai"), Coll(<< >>)), FlattenSeq(ss)), TextOf(r))
<1> DEFINE ss == [i \in DOMAIN r.items |-> XaiRow(r, i, whole)]
           N == Len(r.items)
           at == At("xai", r, step)
           q == Going(StartOf("xai"), Coll(<< >>))
           P == {n \in Nat : n <= N => XaiGoes(Consume(at, q, FlattenSeq(Prefix(ss, n))), TextTo(r, n))}
<1>1. Whole(r) /\ IsResponse(r) /\ N \in Nat /\ DOMAIN r.items = 1 .. N
  BY ItemsOf DEF XaiServes, Whole
<1>2. IsSeq(ss) /\ Len(ss) = N /\ \A i \in DOMAIN ss : IsSeq(ss[i]) /\ ss[i] = XaiRow(r, i, whole)
  <2>1. ss = [i \in 1 .. N |-> ss[i]] /\ \A i \in 1 .. N : ss[i] = XaiRow(r, i, whole)
    BY <1>1
  <2>2. \A i \in 1 .. N : IsSeq(XaiRow(r, i, whole))
    <3> SUFFICES ASSUME NEW i \in 1 .. N PROVE IsSeq(XaiRow(r, i, whole))
      OBVIOUS
    <3> DEFINE f == Fragments(r, i, whole)
               row == XaiRow(r, i, whole)
    <3>1. IsSeq(f)
      BY <1>1, FragmentsIsSeq
    <3>2. row = [k \in DOMAIN f |-> row[k]]
      BY DEF XaiRow
    <3> HIDE DEF f, row
    <3>3. Len(f) \in Nat /\ DOMAIN f = 1 .. Len(f)
      BY <3>1, IsSeqFacts
    <3>4. row = [k \in 1 .. Len(f) |-> row[k]]
      BY <3>2, <3>3
    <3>5. IsSeq(row)
      BY <3>3, <3>4, FunctionIsSeq
    <3> QED BY <3>5 DEF row
  <2> HIDE DEF ss
  <2>3. IsSeq(ss) /\ Len(ss) = N /\ DOMAIN ss = 1 .. N
    BY <1>1, <2>1, FunctionIsSeq
  <2> QED BY <2>1, <2>2, <2>3
<1>3. XaiGoes(q, << >>)
  <2>1. StartOf("xai") = [text |-> FALSE]
    BY DEF StartOf, XaiChatStart
  <2>2. XaiHeld(<< >>, << >>)
    BY HoldsNothing, SoloNone DEF XaiHeld
  <2> QED BY <2>1, <2>2 DEF XaiGoes
<1> HIDE DEF ss, q
<1>4. 0 \in P
  <2>1. FlattenSeq(Prefix(ss, 0)) = << >>
    BY PrefixGrows, FlattenEmpty
  <2>2. TextTo(r, 0) = << >>
    BY RowsToNone
  <2>3. Consume(at, q, << >>) = q
    BY ConsumeNone
  <2> QED BY <1>3, <2>1, <2>2, <2>3
<1>5. ASSUME NEW n \in P PROVE n + 1 \in P
  <2> SUFFICES ASSUME n + 1 <= N
               PROVE  XaiGoes(Consume(at, q, FlattenSeq(Prefix(ss, n + 1))), TextTo(r, n + 1))
    OBVIOUS
  <2> DEFINE p == Consume(at, q, FlattenSeq(Prefix(ss, n)))
  <2>1. n \in Nat /\ n < Len(ss) /\ n + 1 \in DOMAIN r.items /\ n + 1 \in DOMAIN ss /\ XaiGoes(p, TextTo(r, n))
    BY <1>1, <1>2, IsSeqFacts
  <2> HIDE DEF p
  <2>2. Consume(at, q, FlattenSeq(Prefix(ss, n + 1))) = Consume(at, p, ss[n + 1])
    BY ONLY <1>2, <2>1, ConsumeItem DEF p
  <2>3. ss[n + 1] = XaiRow(r, n + 1, whole)
    BY <1>2, <2>1
  <2>4. XaiGoes(Consume(at, p, XaiRow(r, n + 1, whole)), TextTo(r, n + 1))
    BY <2>1, XaiItem
  <2> QED BY ONLY <2>2, <2>3, <2>4
<1>6. XaiGoes(Consume(at, q, FlattenSeq(Prefix(ss, N))), TextTo(r, N))
  <2>1. P = Nat
    <3>1. P \in SUBSET Nat
      OBVIOUS
    <3> HIDE DEF P
    <3> QED BY <1>4, <1>5, <3>1, Induct
  <2> QED BY <1>1, <2>1
<1>7. Prefix(ss, N) = ss
  BY <1>2, PrefixWhole DEF IsSeq
<1>8. IsSeq(FlattenSeq(ss))
  BY <1>2, FlattenIsSeq
<1>9. TextOf(r) = TextTo(r, N)
  BY <1>1, ResponseTells
<1> QED BY <1>6, <1>7, <1>8, <1>9 DEF ss, q

LEMMA XaiEnds ==
  ASSUME NEW q, NEW r, Whole(r), Of(r, "call") = << >>, XaiGoes(q, TextOf(r)), NEW step,
         NEW w, w.type \notin {"text", "thought"}
  PROVE  Tells(Taken(At("xai", r, step), q, w).c, r)
<1> DEFINE at == At("xai", r, step)
           none == << >>
<1>1. PICK b, s : q = Going([text |-> b], Coll(s)) /\ XaiHeld(s, TextOf(r))
  BY DEF XaiGoes
<1> DEFINE d == [text |-> b]
           kind == Kind(FALSE, b)
<1>2. XaiChatEvent(d, w, step, r) = Over(d, LastTwo(step, kind))
  BY DEF XaiChatEvent, LastTwo
<1>3. at.provider = "xai" /\ at.response = r /\ at.step = step
  BY AtFields
<1>4. kind # Unfinished
  BY DEF Kind, Unfinished
<1>5. Same(none, CallsSent(r))
  <2>1. CallsSent(r) = << >>
    BY DEF CallsSent
  <2> QED BY <2>1, SameItself, EmptyIsSeq
<1>6. IsSeq(TextOf(r)) /\ Holds(s, TextOf(r), none)
  BY <1>1, ResponseTells DEF XaiHeld
<1> DEFINE l == LastTwo(step, kind)
<1>7. << >> \o l = l
  BY LastTwoIsSeq, EmptyAtTheStart
<1> HIDE DEF at, d, kind, none, l
<1>8. Tells(PushAll(Coll(s), << >> \o LastTwo(step, kind)), r)
  <2>1. \A e \in ToSet(<< >>) : PlainEvent(e) /\ ~IsDelta(e)
    BY EmptyIsSeq
  <2> QED BY <1>4, <1>5, <1>6, <2>1, EmptyIsSeq, EndTells
<1>9. Decode(at.provider, d, w, at.step, at.response) = Over(d, l)
  BY <1>2, <1>3, DecodeOfXai DEF l
<1>10. Taken(at, Going(d, Coll(s)), w) = [d |-> d, c |-> PushAll(Coll(s), l), over |-> TRUE]
  BY ONLY <1>9, TakenOver
<1>11. Taken(at, q, w).c = PushAll(Coll(s), l)
  BY <1>1, <1>10 DEF d
<1> QED BY <1>7, <1>8, <1>11 DEF l, at

\* What xAI's adapter yields is the response.
LEMMA XaiTells ==
  ASSUME NEW r, Whole(r), Of(r, "call") = << >>, Of(r, "search") = << >>, NEW step, NEW whole
  PROVE  Tells(Consume(At("xai", r, step), Going(StartOf("xai"), Coll(<< >>)), XaiChatWire(r, whole)).c, r)
<1> DEFINE ss == [i \in DOMAIN r.items |-> XaiRow(r, i, whole)]
           at == At("xai", r, step)
           q == Going(StartOf("xai"), Coll(<< >>))
           front == FlattenSeq(ss)
           w == [type |-> IF whole THEN "done" ELSE "finishReason"]
<1>1. XaiServes(r)
  <2>1. IsResponse(r)
    BY DEF Whole
  <2>2. Places(r, "call") = {} /\ Places(r, "search") = {}
    BY <2>1, OfIsSeq, EmptyIsSeq
  <2>3. \A i \in DOMAIN r.items : r.items[i].type \in ItemTypes
    BY <2>1, ItemsOf
  <2> QED BY <2>2, <2>3 DEF XaiServes, Places, ItemTypes
<1>2. XaiChatWire(r, whole) = front \o <<w>>
  BY DEF XaiChatWire, XaiRow, XaiChunk
<1>3. w.type \notin {"text", "thought"}
  OBVIOUS
<1>4. IsSeq(front) /\ XaiGoes(Consume(at, q, front), TextOf(r))
  BY <1>1, XaiListens
<1> HIDE DEF ss, front, w, q
<1>5. Tells(Taken(at, Consume(at, q, front), w).c, r)
  BY <1>3, <1>4, XaiEnds
<1>6. front \o <<w>> = Append(front, w)
  BY <1>4, AppendIsSeq
<1>7. Consume(at, q, Append(front, w)) = Taken(at, Consume(at, q, front), w)
  BY <1>4, ConsumeAppend
<1> QED BY <1>2, <1>5, <1>6, <1>7 DEF q

(***************************************************************************)
(* Gemini.                                                                 *)
(***************************************************************************)
\* A chunk of the stream; the one name that its first call gets.
Chunk(parts) == [type |-> "chunk", parts |-> parts]
GemCall(r, i) == CallDelta(<<"tool", 1>>, <<r.items[i].tool>>, r.items[i].tool, ArgumentsOf(r, i))
\* What a chunk with one part yields.
GemEvents(r, i, step) ==
  IF r.items[i].type = "text"
  THEN IF DataOf(r, i) = << >> THEN << >> ELSE <<TextDelta(<<"text", 0>>, DataOf(r, i))>>
  ELSE IF r.items[i].type = "call" THEN <<GemCall(r, i)>>
  ELSE IF r.items[i].type = "search" THEN <<ServerToolUse(step)>> ELSE << >>

\* A decoder's outcome, which neither ends the step nor fails it.
GemYields(out, events) == out = Outcome(out.state, events) /\ out.state.candidate

LEMMA WithinNothing == ASSUME NEW S PROVE Within(<< >>, S) = << >>
<1>1. [n \in DOMAIN << >> |-> IF << >>[n] \in S THEN <<(<< >>)[n]>> ELSE << >>] = << >>
  OBVIOUS
<1> QED BY <1>1, FlattenEmpty DEF Within

LEMMA FlattenOne == ASSUME NEW x, IsSeq(x) PROVE FlattenSeq(<<x>>) = x
<1> DEFINE none == << >>
<1>1. FlattenSeq(none) = << >> /\ IsSeq(none) /\ <<x>> = Append(none, x) /\ DOMAIN none = {}
  BY FlattenEmpty, EmptyIsSeq
<1> HIDE DEF none
<1>2. FlattenSeq(Append(none, x)) = FlattenSeq(none) \o x
  BY <1>1, FlattenAdd
<1>3. << >> \o x = x
  BY EmptyAtTheStart
<1> QED BY <1>1, <1>2, <1>3

\* The parts of a chunk.
GemText(r, parts) ==
  LET texts == Within(parts, Places(r, "text"))
  IN FlattenSeq([k \in DOMAIN texts |-> DataOf(r, texts[k])])
GemTextEvents(r, parts) ==
  IF GemText(r, parts) = << >> THEN << >> ELSE <<TextDelta(<<"text", 0>>, GemText(r, parts))>>
GemCallEvents(r, parts) ==
  LET calls == Within(parts, Places(r, "call"))
  IN [k \in DOMAIN calls |->
        CallDelta(<<"tool", k>>, <<r.items[calls[k]].tool>>, r.items[calls[k]].tool,
                  ArgumentsOf(r, calls[k]))]
GemUses(r, parts, step) ==
  [k \in DOMAIN Within(parts, Places(r, "search")) |-> ServerToolUse(step)]

LEMMA GemEventIs ==
  ASSUME NEW d, NEW parts, NEW step, NEW r
  PROVE  GemYields(GeminiEvent(d, Chunk(parts), step, r),
                   GemTextEvents(r, parts) \o GemCallEvents(r, parts) \o GemUses(r, parts, step))
<1> DEFINE events == GemTextEvents(r, parts) \o GemCallEvents(r, parts) \o GemUses(r, parts, step)
           e == [text |-> d.text \/ GemText(r, parts) # << >>,
                 call |-> d.call \/ Within(parts, Places(r, "call")) # << >>, candidate |-> TRUE]
<1>1. GeminiEvent(d, Chunk(parts), step, r) = Outcome(e, events)
  BY DEF GeminiEvent, Chunk, GemText, GemTextEvents, GemCallEvents, GemUses
<1>2. e.candidate
  OBVIOUS
<1> HIDE DEF e, events
<1>3. Outcome(e, events).state = e
  BY OutcomeFields
<1>4. GemYields(GeminiEvent(d, Chunk(parts), step, r), events)
  BY <1>1, <1>2, <1>3 DEF GemYields
<1> QED BY <1>4 DEF events

LEMMA GemNothing ==
  ASSUME NEW d, NEW step, NEW r
  PROVE  GemYields(GeminiEvent(d, Chunk(<< >>), step, r), << >>)
<1> DEFINE none == << >>
<1>1. \A type : Within(none, Places(r, type)) = << >>
  BY WithinNothing
<1>2. GemText(r, none) = << >>
  <2>1. FlattenSeq([k \in DOMAIN << >> |-> DataOf(r, << >>[k])]) = << >>
    <3>1. [k \in DOMAIN << >> |-> DataOf(r, << >>[k])] = << >>
      OBVIOUS
    <3> QED BY <3>1, FlattenEmpty
  <2> QED BY <1>1, <2>1 DEF GemText
<1>3. GemTextEvents(r, none) = << >>
  BY <1>2 DEF GemTextEvents
<1>4. GemCallEvents(r, none) = << >> /\ GemUses(r, none, step) = << >>
  BY <1>1 DEF GemCallEvents, GemUses
<1>5. (<< >> \o << >>) \o << >> = << >>
  OBVIOUS
<1>6. GemYields(GeminiEvent(d, Chunk(none), step, r),
                GemTextEvents(r, none) \o GemCallEvents(r, none) \o GemUses(r, none, step))
  BY GemEventIs
<1>7. GemTextEvents(r, none) \o GemCallEvents(r, none) \o GemUses(r, none, step) = << >>
  BY ONLY <1>3, <1>4, <1>5
<1>8. GemYields(GeminiEvent(d, Chunk(none), step, r), << >>)
  BY ONLY <1>6, <1>7
<1> QED BY <1>8

LEMMA GemPart ==
  ASSUME NEW r, Whole(r), NEW i \in DOMAIN r.items, NEW d, NEW step
  PROVE  GemYields(GeminiEvent(d, Chunk(<<i>>), step, r), GemEvents(r, i, step))
<1> DEFINE parts == <<i>>
           type == r.items[i].type
           w(kind) == Within(parts, Places(r, kind))
<1>1. \A kind : w(kind) = IF type = kind THEN <<i>> ELSE << >>
  BY WithinOne DEF Places
<1>2. IsSeq(DataOf(r, i))
  BY DataFacts
<1>3. FlattenSeq([k \in DOMAIN <<i>> |-> DataOf(r, <<i>>[k])]) = DataOf(r, i)
  <2>1. [k \in DOMAIN <<i>> |-> DataOf(r, <<i>>[k])] = <<DataOf(r, i)>>
    OBVIOUS
  <2> QED BY <1>2, <2>1, FlattenOne
<1>4. FlattenSeq([k \in DOMAIN << >> |-> DataOf(r, << >>[k])]) = << >>
  <2>1. [k \in DOMAIN << >> |-> DataOf(r, << >>[k])] = << >>
    OBVIOUS
  <2> QED BY <2>1, FlattenEmpty
<1>5. GemText(r, parts) = IF type = "text" THEN DataOf(r, i) ELSE << >>
  BY <1>1, <1>3, <1>4 DEF GemText
<1> DEFINE T == IF type = "text" /\ DataOf(r, i) # << >> THEN <<TextDelta(<<"text", 0>>, DataOf(r, i))>> ELSE << >>
           C == IF type = "call" THEN <<GemCall(r, i)>> ELSE << >>
           U == IF type = "search" THEN <<ServerToolUse(step)>> ELSE << >>
<1>6. GemTextEvents(r, parts) = T
  BY <1>5 DEF GemTextEvents
<1>7. GemCallEvents(r, parts) = C
  <2>1. CASE type = "call"
    <3>1. Within(parts, Places(r, "call")) = <<i>>
      BY <1>1, <2>1
    <3>2. GemCallEvents(r, parts)
            = [k \in DOMAIN <<i>> |-> CallDelta(<<"tool", k>>, <<r.items[<<i>>[k]].tool>>, r.items[<<i>>[k]].tool,
                                               ArgumentsOf(r, <<i>>[k]))]
      BY <3>1 DEF GemCallEvents
    <3>3. GemCallEvents(r, parts) = <<GemCall(r, i)>>
      BY <3>2 DEF GemCall
    <3> QED BY <2>1, <3>3
  <2>2. CASE type # "call"
    <3>1. Within(parts, Places(r, "call")) = << >>
      BY <1>1, <2>2
    <3> QED BY <2>2, <3>1 DEF GemCallEvents
  <2> QED BY <2>1, <2>2
<1>8. GemUses(r, parts, step) = U
  BY <1>1 DEF GemUses
<1>9. GemYields(GeminiEvent(d, Chunk(parts), step, r),
                GemTextEvents(r, parts) \o GemCallEvents(r, parts) \o GemUses(r, parts, step))
  BY GemEventIs
<1>10. GemYields(GeminiEvent(d, Chunk(parts), step, r), T \o C \o U)
  BY ONLY <1>6, <1>7, <1>8, <1>9
<1>11. T \o C \o U = GemEvents(r, i, step)
  <2>1. \A x : IsSeq(<<x>>)
    BY OneIsSeq
  <2>2. \A x : <<x>> \o << >> = <<x>> /\ << >> \o <<x>> = <<x>>
    BY <2>1, EmptyAtTheEnd, EmptyAtTheStart
  <2>3. << >> \o << >> = << >>
    OBVIOUS
  <2>4. CASE type = "text"
    <3>1. C = << >> /\ U = << >>
      BY <2>4
    <3>2. T = GemEvents(r, i, step)
      BY <2>4 DEF GemEvents
    <3>3. T = << >> \/ \E x : T = <<x>>
      OBVIOUS
    <3> HIDE DEF T, C, U
    <3> QED BY <2>2, <2>3, <3>1, <3>2, <3>3
  <2>5. CASE type = "call"
    <3>1. T = << >> /\ U = << >> /\ C = <<GemCall(r, i)>> /\ GemEvents(r, i, step) = <<GemCall(r, i)>>
      BY <2>5 DEF GemEvents
    <3> HIDE DEF T, C, U
    <3> QED BY <2>2, <2>3, <3>1
  <2>6. CASE type = "search"
    <3>1. T = << >> /\ C = << >> /\ U = <<ServerToolUse(step)>> /\ GemEvents(r, i, step) = <<ServerToolUse(step)>>
      BY <2>6 DEF GemEvents
    <3> HIDE DEF T, C, U
    <3> QED BY <2>2, <2>3, <3>1
  <2>7. CASE type \notin {"text", "call", "search"}
    <3>1. T = << >> /\ C = << >> /\ U = << >> /\ GemEvents(r, i, step) = << >>
      BY <2>7 DEF GemEvents
    <3> HIDE DEF T, C, U
    <3> QED BY <2>3, <3>1
  <2> QED BY <2>4, <2>5, <2>6, <2>7
<1>12. GemYields(GeminiEvent(d, Chunk(parts), step, r), GemEvents(r, i, step))
  BY ONLY <1>10, <1>11
<1> QED BY <1>12

\* A call whose arguments go on after they are complete: finish refuses it.
Spoils(slot) ==
  /\ {"type", "data"} \subseteq DOMAIN slot /\ slot.type = "Call"
  /\ IsSeq(slot.data) /\ Len(slot.data) > 0
  /\ slot.data[1][3] \in Nat /\ Len(slot.data) > slot.data[1][3]
Spoiled(c) ==
  /\ IsCollector(c)
  /\ c.error # NoError \/ (IsSeq(c.slots) /\ \E k \in DOMAIN c.slots : Spoils(c.slots[k]))

\* Refused, now or by finish.
Rejected(c) == c.error # NoError \/ FinishError(c) # NoError

\* An event whose data, if it has any, is a sequence.
Mild(e) == IsDelta(e) => IsSeq(e.data)

LEMMA SpoilsMore ==
  ASSUME NEW slot, Spoils(slot), NEW e, IsSeq(e.data)
  PROVE  Spoils(Extend(slot, e))
<1> DEFINE x == Extend(slot, e)
           more == slot.data \o e.data
<1>1. x.type = slot.type /\ x.data = more /\ DOMAIN x = DOMAIN slot
  BY DEF Extend, Spoils
<1>2. IsSeq(more) /\ Len(more) = Len(slot.data) + Len(e.data) /\ Len(e.data) \in Nat /\ Len(slot.data) \in Nat
      /\ \A n \in 1 .. Len(slot.data) : more[n] = slot.data[n]
  <2> DEFINE S == ToSet(slot.data) \cup ToSet(e.data)
  <2>a. /\ slot.data \in Seq(ToSet(slot.data)) /\ e.data \in Seq(ToSet(e.data))
        /\ ToSet(slot.data) \subseteq S /\ ToSet(e.data) \subseteq S
    BY DEF Spoils, IsSeq
  <2>2. IsSeq(more)
    BY ConcatIsSeq DEF Spoils
  <2> HIDE DEF S
  <2>1. slot.data \in Seq(S) /\ e.data \in Seq(S)
    BY ONLY <2>a
  <2> QED BY <2>2, ConcatIsSeq, ConcatValues, IsSeqFacts DEF Spoils
<1> HIDE DEF x, more
<1>3. Spoils(x)
  BY <1>1, <1>2 DEF Spoils
<1> QED BY <1>3 DEF x

LEMMA SpoiledStays ==
  ASSUME NEW c, Spoiled(c), NEW e, Mild(e)
  PROVE  Spoiled(Pushed(c, e))
<1>1. CASE c.error # NoError
  BY <1>1 DEF Pushed
<1>2. CASE c.error = NoError
  <2>1. IsCollector(c) /\ IsSeq(c.slots)
    BY <1>2 DEF Spoiled
  <2>2. PICK k \in DOMAIN c.slots : Spoils(c.slots[k])
    BY <1>2 DEF Spoiled
  <2>3. ASSUME NEW x, x \in {"DuplicateFinished", "EventAfterFinished", "InconsistentItem"}
        PROVE  Spoiled([c EXCEPT !.error = x])
    BY <2>1, <2>3 DEF Spoiled, IsCollector, NoError
  <2>4. ASSUME NEW x PROVE Spoiled([c EXCEPT !.finished = x])
    BY <2>1, <2>2 DEF Spoiled, IsCollector
  <2>5. ASSUME NEW s, IsSeq(s), NEW j \in DOMAIN s, Spoils(s[j]) PROVE Spoiled([c EXCEPT !.slots = s])
    BY <2>1, <2>5 DEF Spoiled, IsCollector
  <2>6. Spoiled([c EXCEPT !.slots = Append(@, e)])
    <3>1. IsSeq(Append(c.slots, e)) /\ k \in DOMAIN Append(c.slots, e) /\ Append(c.slots, e)[k] = c.slots[k]
      BY <2>1, <2>2, AppendElements
    <3>2. Spoiled([c EXCEPT !.slots = Append(c.slots, e)])
      BY <2>2, <2>5, <3>1
    <3> QED BY <3>2
  <2>7. IsDelta(e) => Spoiled(PushDelta(c, e))
    <3> SUFFICES ASSUME IsDelta(e) PROVE Spoiled(PushDelta(c, e))
      OBVIOUS
    <3> DEFINE pending == {i \in DOMAIN c.slots : IsDelta(c.slots[i]) /\ c.slots[i].item = e.item}
               i == CHOOSE i \in pending : TRUE
    <3>1. PushDelta(c, e)
            = IF pending = {} THEN [c EXCEPT !.slots = Append(@, e)]
              ELSE IF Inconsistent(c.slots[i], e) THEN [c EXCEPT !.error = "InconsistentItem"]
              ELSE [c EXCEPT !.slots[i] = Extend(@, e)]
      BY DEF PushDelta
    <3>2. pending # {} => i \in DOMAIN c.slots
      OBVIOUS
    <3> HIDE DEF pending, i
    <3>3. ASSUME i \in DOMAIN c.slots PROVE Spoiled([c EXCEPT !.slots[i] = Extend(@, e)])
      <4> DEFINE x == Extend(c.slots[i], e)
                 s == [c.slots EXCEPT ![i] = x]
      <4>1. [c EXCEPT !.slots[i] = Extend(@, e)] = [c EXCEPT !.slots = s]
        BY <2>1 DEF IsCollector
      <4>2. i = k => Spoils(x)
        BY <2>2, SpoilsMore DEF Mild
      <4> HIDE DEF x
      <4>3. ReplacedIn(s, c.slots, i, x)
        BY <2>1, <3>3, Replaced
      <4> HIDE DEF s
      <4>4. IsSeq(s) /\ k \in DOMAIN s /\ Spoils(s[k])
        BY <2>2, <3>3, <4>2, <4>3 DEF ReplacedIn
      <4> QED BY <2>5, <4>1, <4>4
    <3>4. Spoiled([c EXCEPT !.error = "InconsistentItem"])
      BY <2>3
    <3> QED BY <2>6, <3>1, <3>2, <3>3, <3>4
  <2>8. Spoiled(Push(c, e))
    <3>1. CASE e.type = "Finished"
      <4>1. /\ Spoiled([c EXCEPT !.error = "DuplicateFinished"]) /\ Spoiled([c EXCEPT !.finished = e.kind])
            /\ Spoiled([c EXCEPT !.error = "EventAfterFinished"])
        BY <2>3, <2>4
      <4>2. ~IsDelta(e)
        BY <3>1 DEF IsDelta
      <4>3. CASE c.finished = Unfinished
        <5>1. Push(c, e) = [c EXCEPT !.finished = e.kind]
          BY <3>1, <4>2, <4>3 DEF Push
        <5> QED BY <4>1, <5>1
      <4>4. CASE c.finished # Unfinished
        <5>1. Push(c, e) = [c EXCEPT !.error = "DuplicateFinished"] \/ Push(c, e) = [c EXCEPT !.error = "EventAfterFinished"]
          BY <3>1, <4>2, <4>4 DEF Push
        <5> QED BY <4>1, <5>1
      <4> QED BY <4>3, <4>4
    <3>2. CASE e.type # "Finished" /\ c.finished # Unfinished
      <4>1. Spoiled([c EXCEPT !.error = "EventAfterFinished"])
        BY <2>3
      <4>2. CASE IsDelta(e)
        <5>1. Push(c, e) \in {[c EXCEPT !.error = "EventAfterFinished"], PushDelta(c, e)}
          BY <3>2, <4>2 DEF Push
        <5> QED BY <2>7, <4>1, <4>2, <5>1
      <4>3. CASE ~IsDelta(e)
        <5>1. Push(c, e) = [c EXCEPT !.error = "EventAfterFinished"]
          BY <3>2, <4>3 DEF Push
        <5> QED BY <4>1, <5>1
      <4> QED BY <4>2, <4>3
    <3>3. CASE e.type # "Finished" /\ c.finished = Unfinished
      <4>1. Push(c, e) = IF IsDelta(e) THEN PushDelta(c, e) ELSE [c EXCEPT !.slots = Append(@, e)]
        BY <3>3 DEF Push
      <4> QED BY <2>6, <2>7, <4>1
    <3> QED BY <3>1, <3>2, <3>3
  <2> QED BY <1>2, <2>8 DEF Pushed
<1> QED BY <1>1, <1>2

LEMMA SpoiledStaysSo ==
  ASSUME NEW c, Spoiled(c), NEW events, IsSeq(events), \A k \in 1 .. Len(events) : Mild(events[k])
  PROVE  Spoiled(PushAll(c, events))
<1> DEFINE N == Len(events)
           P == {n \in Nat : n <= N => Spoiled(PushAll(c, Prefix(events, n)))}
<1>0. N \in Nat /\ Prefix(events, N) = events
  BY IsSeqFacts, PrefixWhole DEF IsSeq
<1>1. 0 \in P
  <2>1. Prefix(events, 0) = << >>
    BY PrefixGrows
  <2>2. PushAll(c, << >>) = c
    BY PushAllNone
  <2> QED BY <2>1, <2>2
<1>2. ASSUME NEW n \in P PROVE n + 1 \in P
  <2> SUFFICES ASSUME n + 1 <= N PROVE Spoiled(PushAll(c, Prefix(events, n + 1)))
    OBVIOUS
  <2> DEFINE p == Prefix(events, n)
             x == events[n + 1]
  <2>1. n \in Nat /\ Spoiled(PushAll(c, p)) /\ n + 1 \in 1 .. N
    BY <1>0
  <2>2. Prefix(events, n + 1) = Append(p, x) /\ IsSeq(p)
    BY <2>1, PrefixGrows
  <2>3. Mild(x)
    BY <2>1
  <2> HIDE DEF p, x
  <2>4. PushAll(c, Append(p, x)) = Pushed(PushAll(c, p), x)
    BY <2>2, PushAllAppend
  <2> QED BY <2>1, <2>2, <2>3, <2>4, SpoiledStays
<1>3. P = Nat
  <2>1. P \in SUBSET Nat
    OBVIOUS
  <2> HIDE DEF P
  <2> QED BY <1>1, <1>2, <2>1, Induct
<1> QED BY <1>0, <1>3

LEMMA SpoiledIsRejected == ASSUME NEW c, Spoiled(c) PROVE Rejected(c)
<1>1. CASE c.error # NoError
  BY <1>1 DEF Rejected
<1>2. CASE c.error = NoError
  <2>1. PICK k \in DOMAIN c.slots : Spoils(c.slots[k])
    BY <1>2 DEF Spoiled
  <2> DEFINE data == c.slots[k].data
             n == data[1][3]
  <2>2. n \in Nat /\ Len(data) > n /\ Len(data) > 0 /\ c.slots[k].type = "Call" /\ IsSeq(data)
    BY <2>1 DEF Spoils
  <2> HIDE DEF data
  <2>3. data # << >>
    BY <2>2
  <2>4. ~Parses(data)
    <3>1. Len(Document(data[1][1], n)) = n
      BY <2>2, DocumentFacts
    <3>2. Len(data) # n
      BY <2>2, IsSeqFacts
    <3> QED BY <3>1, <3>2 DEF Parses
  <2>5. BadCall(c.slots[k])
    BY <2>2, <2>3, <2>4 DEF BadCall, data
  <2> QED BY <2>5 DEF Rejected, FinishError, NoError
<1> QED BY <1>1, <1>2

\* How the text and the calls grow by an item.
LEMMA GemRows ==
  ASSUME NEW r, Whole(r), NEW n \in Nat, n + 1 \in DOMAIN r.items
  PROVE  /\ r.items[n + 1].type = "text" =>
              TextTo(r, n + 1) = TextTo(r, n) \o DataOf(r, n + 1) /\ CallsTo(r, n + 1) = CallsTo(r, n)
         /\ r.items[n + 1].type = "call" =>
              /\ TextTo(r, n + 1) = TextTo(r, n)
              /\ CallsTo(r, n + 1) = CallsTo(r, n) \o <<CallSent(r, n + 1)>>
              /\ Len(CallsTo(r, n + 1)) = Len(CallsTo(r, n)) + 1
         /\ r.items[n + 1].type \notin {"text", "call"} =>
              TextTo(r, n + 1) = TextTo(r, n) /\ CallsTo(r, n + 1) = CallsTo(r, n)
         /\ Len(CallsTo(r, n)) \in Nat /\ IsSeq(TextTo(r, n)) /\ IsSeq(CallsTo(r, n))
<1> DEFINE T == TextTo(r, n)
           C == CallsTo(r, n)
<1>1. n < Len(r.items)
  BY ItemsOf DEF Whole
<1>2. /\ TextTo(r, n + 1) = T \o TextRow(r, n + 1) /\ CallsTo(r, n + 1) = C \o CallRow(r, n + 1)
      /\ IsSeq(T) /\ IsSeq(C)
  BY <1>1, RowsTo
<1> HIDE DEF T, C
<1>3. T \o << >> = T /\ C \o << >> = C /\ Len(C) \in Nat
  BY <1>2, EmptyAtTheEnd, IsSeqFacts
<1>4. \A x : IsSeq(<<x>>) /\ Len(<<x>>) = 1
  BY OneIsSeq
<1>5. \A x : Len(C \o <<x>>) = Len(C) + 1
  BY <1>2, <1>4, ConcatIsSeq
<1>6. r.items[n + 1].type = "text" => TextRow(r, n + 1) = DataOf(r, n + 1)
  BY DEF TextRow
<1>7. r.items[n + 1].type # "text" => TextRow(r, n + 1) = << >>
  BY DEF TextRow
<1>8. r.items[n + 1].type = "call" => CallRow(r, n + 1) = <<CallSent(r, n + 1)>>
  BY DEF CallRow
<1>9. r.items[n + 1].type # "call" => CallRow(r, n + 1) = << >>
  BY DEF CallRow
<1> QED BY <1>2, <1>3, <1>5, <1>6, <1>7, <1>8, <1>9 DEF T, C

\* The slots of the text and of the call; some call's own.
GemSlots(s) == Solo(s, "Text", <<"text", 0>>) /\ Solo(s, "Call", <<"tool", 1>>)
GemHas(s, r) == \E k \in DOMAIN s, i \in DOMAIN r.items : s[k] = GemCall(r, i)
\* The slots of a step with at most one call.
GemHeld(s, r, n) ==
  /\ Holds(s, TextTo(r, n), CallsTo(r, n)) /\ GemSlots(s)
  /\ Len(CallsTo(r, n)) = 0 => Missing(s, "Call")
  /\ Len(CallsTo(r, n)) > 0 => GemHas(s, r)

LEMMA GemTextPushed ==
  ASSUME NEW r, Whole(r), NEW n \in Nat, n + 1 \in DOMAIN r.items, r.items[n + 1].type = "text",
         NEW s, GemHeld(s, r, n)
  PROVE  \E t : /\ Pushed(Coll(s), TextDelta(<<"text", 0>>, DataOf(r, n + 1))) = Coll(t)
                /\ GemHeld(t, r, n + 1)
<1> DEFINE T == <<"text", 0>>
           C == <<"tool", 1>>
           data == DataOf(r, n + 1)
           text == TextTo(r, n)
           calls == CallsTo(r, n)
<1>1. T # C
  OBVIOUS
<1>2. Holds(s, text, calls) /\ Solo(s, "Text", T) /\ Solo(s, "Call", C)
  BY DEF GemHeld, GemSlots
<1>3. TextTo(r, n + 1) = text \o data /\ CallsTo(r, n + 1) = calls
  BY GemRows
<1>4. IsSeq(data)
  BY DataFacts
<1>5. (Len(calls) = 0 => Missing(s, "Call")) /\ (Len(calls) > 0 => GemHas(s, r))
  BY DEF GemHeld
<1>6. \A t : (Solo(t, "Text", T) /\ Solo(t, "Call", C)) => GemSlots(t)
  BY DEF GemSlots
<1> HIDE DEF T, C, data, text, calls
<1>7. SoloGrows(s, text, calls, "Text", T, data)
  BY <1>2, <1>4 DEF SoloGrows
<1>8. PICK t : Gains(s, t, text, calls, "Text", T, data)
  BY <1>7, SoloPush
<1>9. TextPart(Delta("Text", T, data)) = data
  BY DEF TextPart, Delta
<1>10. /\ Pushed(Coll(s), Delta("Text", T, data)) = Coll(t) /\ Becomes(s, t, "Text") /\ Solo(t, "Text", T)
       /\ Holds(t, text \o data, calls)
  BY <1>8, <1>9 DEF Gains
<1>11. /\ Solo(t, "Call", C) /\ (Missing(s, "Call") => Missing(t, "Call"))
       /\ \A k \in DOMAIN s : s[k].type = "Call" => (k \in DOMAIN t /\ t[k] = s[k])
  <2>1. "Call" # "Text"
    OBVIOUS
  <2> QED BY <1>1, <1>2, <1>10, <2>1, BecomesKeeps
<1>12. GemHas(s, r) => GemHas(t, r)
  <2>1. \A i : GemCall(r, i).type = "Call"
    BY DEF GemCall, CallDelta
  <2> QED BY <1>11, <2>1 DEF GemHas
<1>13. GemHeld(t, r, n + 1)
  BY <1>3, <1>5, <1>6, <1>10, <1>11, <1>12 DEF GemHeld
<1> QED BY <1>10, <1>13 DEF TextDelta, T, data

LEMMA GemUsePushed ==
  ASSUME NEW r, Whole(r), NEW n \in Nat, n + 1 \in DOMAIN r.items, r.items[n + 1].type \notin {"text", "call"},
         NEW s, GemHeld(s, r, n), NEW step
  PROVE  /\ GemHeld(s, r, n + 1)
         /\ Pushed(Coll(s), ServerToolUse(step)) = Coll(Append(s, ServerToolUse(step)))
         /\ GemHeld(Append(s, ServerToolUse(step)), r, n + 1)
<1> DEFINE e == ServerToolUse(step)
           text == TextTo(r, n)
           calls == CallsTo(r, n)
           t == Append(s, e)
<1>1. TextTo(r, n + 1) = text /\ CallsTo(r, n + 1) = calls
  BY GemRows
<1>2. /\ Holds(s, text, calls) /\ GemSlots(s)
      /\ Len(calls) = 0 => Missing(s, "Call")
      /\ Len(calls) > 0 => GemHas(s, r)
  BY DEF GemHeld
<1>3. e.type = "ServerToolUse" /\ ~IsDelta(e) /\ PlainEvent(e)
  BY WholeItemsPlain DEF ServerToolUse, IsDelta
<1> HIDE DEF e, text, calls, t
<1>4. Sound(e) /\ TextPart(e) = << >> /\ CallPart(e) = << >>
  BY <1>3 DEF Sound, TextPart, CallPart, BadCall
<1>5. IsSeq(s) /\ IsSeq(text) /\ IsSeq(calls)
  BY <1>2, HoldsSeqs
<1>6. Pushed(Coll(s), e) = Coll(t)
  BY <1>3, <1>5, PushNew DEF t
<1>7. Holds(t, text, calls)
  <2>1. Holds(t, text \o << >>, calls \o << >>)
    BY <1>2, <1>4, HoldsAppend DEF t
  <2>2. text \o << >> = text /\ calls \o << >> = calls
    BY <1>5, EmptyAtTheEnd
  <2> QED BY <2>1, <2>2
<1>8. GemSlots(t) /\ (Missing(s, "Call") => Missing(t, "Call"))
  <2>1. Solo(s, "Text", <<"text", 0>>) /\ Solo(s, "Call", <<"tool", 1>>)
    BY <1>2 DEF GemSlots
  <2>2. e.type # "Text" /\ e.type # "Call"
    BY <1>3
  <2>3. Solo(t, "Text", <<"text", 0>>)
    BY <1>3, <1>5, <2>1, <2>2, SoloOther DEF t
  <2>4. Solo(t, "Call", <<"tool", 1>>) /\ (Missing(s, "Call") => Missing(t, "Call"))
    BY <1>3, <1>5, <2>1, <2>2, SoloOther DEF t
  <2> QED BY <2>3, <2>4 DEF GemSlots
<1>9. GemHas(s, r) => GemHas(t, r)
  <2>1. \A k \in DOMAIN s : k \in DOMAIN t /\ t[k] = s[k]
    BY <1>5, AppendElements DEF t
  <2> QED BY <2>1 DEF GemHas
<1>10. GemHeld(t, r, n + 1) /\ GemHeld(s, r, n + 1)
  BY <1>1, <1>2, <1>7, <1>8, <1>9 DEF GemHeld
<1> QED BY <1>6, <1>10 DEF t, e

\* What a call's delta says of the call.
SentWith(e, name, data) == CallPart(e) = <<[name |-> name, input |-> data]>>
Announces(item, name, data) == name # NoName /\ Parses(data) /\ data # << >>
LEMMA CallParts ==
  ASSUME NEW item, NEW id, NEW name, NEW data, Announces(item, name, data)
  PROVE  /\ Sound(CallDelta(item, id, name, data)) /\ TextPart(CallDelta(item, id, name, data)) = << >>
         /\ SentWith(CallDelta(item, id, name, data), name, data)
<1>1. name # NoName /\ Parses(data) /\ data # << >>
  BY DEF Announces
<1> DEFINE e == CallDelta(item, id, name, data)
<1>2. e = CallDelta(item, id, name, data)
  OBVIOUS
<1> HIDE DEF e
<1>3. /\ Sound(e) /\ e.type = "Call"
      /\ [name |-> e.name, input |-> ItemOf(e).data] = [name |-> name, input |-> data]
  BY <1>1, <1>2, CallIsSound
<1>4. TextPart(e) = << >>
  BY <1>3 DEF TextPart
<1>5. CallPart(e) = <<[name |-> name, input |-> data]>>
  BY <1>3 DEF CallPart
<1> QED BY <1>3, <1>4, <1>5 DEF SentWith, e

LEMMA GemCallFacts ==
  ASSUME NEW r, Whole(r), NEW i \in DOMAIN r.items
  PROVE  LET e == GemCall(r, i)
         IN /\ e.type = "Call" /\ IsDelta(e) /\ e.item = <<"tool", 1>> /\ Sound(e) /\ PlainEvent(e)
            /\ {"type", "item", "data"} \subseteq DOMAIN e /\ IsSeq(e.data)
            /\ TextPart(e) = << >> /\ CallPart(e) = <<CallSent(r, i)>>
            /\ Len(e.data) > 0 /\ e.data[1][3] = Len(e.data) /\ Len(e.data) \in Nat /\ e.name # NoName
<1> DEFINE data == ArgumentsOf(r, i)
           name == r.items[i].tool
           e == GemCall(r, i)
<1>1. /\ IsSeq(data) /\ Parses(data) /\ data # << >> /\ name # NoName
  BY DataFacts DEF Whole
<1>2. data[1][3] = Len(data) /\ Len(data) \in Nat /\ Len(data) > 0
  <2>1. r.items[i].size \in Nat /\ DataOf(r, i) = Document(i, r.items[i].size)
    BY DataFacts
  <2>2. CASE r.items[i].size = 0
    <3>1. data = Document("object", 1)
      BY <2>2 DEF ArgumentsOf, EmptyObject
    <3> DEFINE o == "object"
               m == 1
    <3>2. m \in Nat /\ m = 1 /\ data = Document(o, m) /\ <<o, 1, m>>[3] = m
      BY <3>1
    <3> HIDE DEF data, o, m
    <3>3. Len(Document(o, m)) = m /\ \A k \in 1 .. m : Document(o, m)[k] = <<o, k, m>>
      BY <3>2, DocumentFacts
    <3>4. Document(o, m)[1] = <<o, 1, m>>
      BY <3>2, <3>3
    <3>5. data[1] = <<o, 1, m>> /\ Len(data) = m
      BY <3>2, <3>3, <3>4
    <3>6. data[1][3] = m
      BY <3>2, <3>5
    <3>7. m > 0 /\ m \in Nat
      BY <3>2
    <3> QED BY ONLY <3>5, <3>6, <3>7
  <2>3. CASE r.items[i].size # 0
    <3> DEFINE n == r.items[i].size
    <3>1. data = Document(i, n)
      BY <2>1, <2>3 DEF ArgumentsOf
    <3>2. n \in Nat /\ n > 0
      BY <2>1, <2>3
    <3> HIDE DEF n, data
    <3>3. Len(Document(i, n)) = n /\ \A k \in 1 .. n : Document(i, n)[k] = <<i, k, n>>
      BY <3>2, DocumentFacts
    <3>4. Document(i, n)[1] = <<i, 1, n>>
      BY <3>2, <3>3
    <3> QED BY <3>1, <3>2, <3>3, <3>4
  <2> QED BY <2>2, <2>3
<1>3. /\ e.type = "Call" /\ e.item = <<"tool", 1>> /\ e.data = data /\ e.name = name
      /\ {"type", "item", "data"} \subseteq DOMAIN e /\ IsDelta(e)
  BY DEF GemCall, CallDelta, IsDelta
<1>4. e = CallDelta(<<"tool", 1>>, <<name>>, name, data)
  BY DEF GemCall
<1>5. CallSent(r, i) = [name |-> name, input |-> data]
  BY DEF CallSent
<1> HIDE DEF e, data, name
<1>6. Sound(e) /\ TextPart(e) = << >> /\ CallPart(e) = <<CallSent(r, i)>>
  <2> DEFINE item == <<"tool", 1>>
             id == <<name>>
             x == CallDelta(item, id, name, data)
  <2>0. x = CallDelta(<<"tool", 1>>, <<name>>, name, data)
    OBVIOUS
  <2> HIDE DEF item, id
  <2>1. Announces(item, name, data)
    BY <1>1 DEF Announces
  <2>3. Sound(x) /\ TextPart(x) = << >> /\ SentWith(x, name, data)
    BY ONLY <2>1, CallParts DEF x
  <2>4. CallPart(x) = <<[name |-> name, input |-> data]>>
    BY <2>3 DEF SentWith
  <2> HIDE DEF x
  <2>2. e = x
    BY <1>4, <2>0
  <2> QED BY <1>5, <2>3, <2>4, <2>2
<1>7. PlainEvent(e)
  BY <1>6 DEF Sound
<1> QED BY <1>1, <1>2, <1>3, <1>6, <1>7 DEF e

LEMMA GemFirstCall ==
  ASSUME NEW r, Whole(r), NEW n \in Nat, n + 1 \in DOMAIN r.items, r.items[n + 1].type = "call",
         NEW s, GemHeld(s, r, n), Len(CallsTo(r, n)) = 0
  PROVE  /\ Pushed(Coll(s), GemCall(r, n + 1)) = Coll(Append(s, GemCall(r, n + 1)))
         /\ GemHeld(Append(s, GemCall(r, n + 1)), r, n + 1)
<1> DEFINE e == GemCall(r, n + 1)
           text == TextTo(r, n)
           calls == CallsTo(r, n)
           t == Append(s, e)
<1>1. /\ TextTo(r, n + 1) = text /\ CallsTo(r, n + 1) = calls \o <<CallSent(r, n + 1)>>
      /\ Len(CallsTo(r, n + 1)) = 1 /\ IsSeq(text)
  <2>1. /\ TextTo(r, n + 1) = TextTo(r, n) /\ CallsTo(r, n + 1) = CallsTo(r, n) \o <<CallSent(r, n + 1)>>
        /\ Len(CallsTo(r, n + 1)) = Len(CallsTo(r, n)) + 1
    BY ONLY Whole(r), n \in Nat, n + 1 \in DOMAIN r.items, r.items[n + 1].type = "call", GemRows
  <2>2. IsSeq(TextTo(r, n))
    BY ONLY Whole(r), n \in Nat, n + 1 \in DOMAIN r.items, GemRows
  <2>3. Len(CallsTo(r, n + 1)) = 1
    BY <2>1
  <2> QED BY ONLY <2>1, <2>2, <2>3
<1>2. /\ Holds(s, text, calls) /\ Missing(s, "Call")
      /\ Solo(s, "Text", <<"text", 0>>) /\ Solo(s, "Call", <<"tool", 1>>)
  BY DEF GemHeld, GemSlots
<1>3. /\ e.type = "Call" /\ IsDelta(e) /\ e.item = <<"tool", 1>> /\ Sound(e)
      /\ {"type", "item", "data"} \subseteq DOMAIN e
      /\ TextPart(e) = << >> /\ CallPart(e) = <<CallSent(r, n + 1)>>
  BY GemCallFacts
<1>4. IsSeq(s)
  BY <1>2, HoldsSeqs
<1>5. e = GemCall(r, n + 1)
  OBVIOUS
<1> HIDE DEF e, text, calls, t
<1>6. Pushed(Coll(s), e) = Coll(t) /\ Solo(t, "Call", <<"tool", 1>>)
  BY <1>2, <1>3, <1>4, SoloOpens DEF t
<1>7. Solo(t, "Text", <<"text", 0>>)
  <2>1. e.type # "Text" /\ e.item # <<"text", 0>>
    BY <1>3
  <2> QED BY <1>2, <1>4, <2>1, SoloOther DEF t
<1>8. Holds(t, text, calls \o <<CallSent(r, n + 1)>>)
  <2>1. Holds(t, text \o << >>, calls \o <<CallSent(r, n + 1)>>)
    BY <1>2, <1>3, HoldsAppend DEF t
  <2>2. text \o << >> = text
    BY <1>1, EmptyAtTheEnd
  <2> QED BY <2>1, <2>2
<1>9. GemHas(t, r)
  <2>1. Len(s) + 1 \in DOMAIN t /\ t[Len(s) + 1] = e
    BY <1>4, AppendElements DEF t
  <2> QED BY <1>5, <2>1 DEF GemHas
<1>10. GemHeld(t, r, n + 1)
  <2>1. GemSlots(t)
    BY <1>6, <1>7 DEF GemSlots
  <2>2. Holds(t, TextTo(r, n + 1), CallsTo(r, n + 1))
    BY <1>1, <1>8
  <2>3. ~(Len(CallsTo(r, n + 1)) = 0)
    BY <1>1
  <2> QED BY <1>9, <2>1, <2>2, <2>3 DEF GemHeld
<1> QED BY <1>6, <1>10 DEF t, e

LEMMA GemSecondCall ==
  ASSUME NEW r, Whole(r), NEW n \in Nat, n + 1 \in DOMAIN r.items, r.items[n + 1].type = "call",
         NEW s, GemHeld(s, r, n), Len(CallsTo(r, n)) > 0
  PROVE  Spoiled(Pushed(Coll(s), GemCall(r, n + 1)))
<1> DEFINE e == GemCall(r, n + 1)
<1>1. /\ Holds(s, TextTo(r, n), CallsTo(r, n)) /\ GemHas(s, r) /\ Solo(s, "Call", <<"tool", 1>>)
  BY DEF GemHeld, GemSlots
<1>2. PICK k \in DOMAIN s, i \in DOMAIN r.items : s[k] = GemCall(r, i)
  BY <1>1 DEF GemHas
<1>3. /\ e.type = "Call" /\ IsDelta(e) /\ e.item = <<"tool", 1>> /\ PlainEvent(e) /\ IsSeq(e.data)
      /\ Len(e.data) > 0 /\ Len(e.data) \in Nat
  BY GemCallFacts
<1>4. /\ s[k].type = "Call" /\ IsDelta(s[k]) /\ s[k].item = <<"tool", 1>> /\ IsSeq(s[k].data)
      /\ {"type", "item", "data"} \subseteq DOMAIN s[k] /\ s[k].name # NoName
      /\ Len(s[k].data) > 0 /\ s[k].data[1][3] = Len(s[k].data) /\ Len(s[k].data) \in Nat
  BY <1>2, GemCallFacts
<1>5. IsSeq(s) /\ \A x \in ToSet(s) : Sound(x)
  BY <1>1 DEF Holds
<1> HIDE DEF e
<1>6. IsCollector(Pushed(Coll(s), e))
  <2>1. Collecting(Coll(s))
    BY <1>5 DEF Collecting, IsCollector, Plain, Coll, Sound
  <2>2. Collecting(Pushed(Coll(s), e))
    BY <1>3, <2>1, PushPlain
  <2> QED BY <2>2 DEF Collecting
<1>7. \A j \in DOMAIN s : IsDelta(s[j]) /\ s[j].item = e.item => j = k
  BY <1>1, <1>3, <1>4 DEF Solo
<1>8. CASE Inconsistent(s[k], e)
  <2>1. IsDelta(s[k]) /\ e.item = s[k].item /\ k \in DOMAIN s
    BY <1>3, <1>4
  <2>2. Pushed(Coll(s), e).error # NoError
    BY ONLY <1>3, <1>5, <1>7, <1>8, <2>1, PushOther
  <2> DEFINE c == Pushed(Coll(s), e)
  <2>3. IsCollector(c) /\ c.error # NoError
    BY <1>6, <2>2
  <2> HIDE DEF c
  <2>4. Spoiled(c)
    BY <2>3 DEF Spoiled
  <2> QED BY <2>4 DEF c, e
<1>9. CASE ~Inconsistent(s[k], e)
  <2> DEFINE x == Extend(s[k], e)
             t == [s EXCEPT ![k] = x]
  <2>1. IsDelta(s[k]) /\ e.item = s[k].item /\ k \in DOMAIN s
    BY <1>3, <1>4
  <2>2. Pushed(Coll(s), e) = Coll([s EXCEPT ![k] = Extend(@, e)])
    BY ONLY <1>3, <1>5, <1>7, <1>9, <2>1, PushMore
  <2>3. [s EXCEPT ![k] = Extend(@, e)] = t
    OBVIOUS
  <2>4. Spoils(x)
    <3> DEFINE more == s[k].data \o e.data
    <3>1. x.type = "Call" /\ x.data = more /\ DOMAIN x = DOMAIN s[k]
      BY <1>4 DEF Extend
    <3>2. IsSeq(more) /\ Len(more) = Len(s[k].data) + Len(e.data)
      BY <1>3, <1>4, ConcatIsSeq
    <3>3. more[1] = s[k].data[1]
      <4>1. \A p \in 1 .. Len(s[k].data) : (s[k].data \o e.data)[p] = s[k].data[p]
        BY <1>3, <1>4, ConcatValues
      <4>2. 1 \in 1 .. Len(s[k].data)
        BY <1>4
      <4> QED BY <4>1, <4>2
    <3> HIDE DEF x, more
    <3> QED BY <1>3, <1>4, <3>1, <3>2, <3>3 DEF Spoils
  <2> HIDE DEF x
  <2>5. ReplacedIn(t, s, k, x)
    BY <1>5, <2>1, Replaced
  <2> HIDE DEF t
  <2>6. IsSeq(t) /\ k \in DOMAIN t /\ t[k] = x
    BY <2>1, <2>5 DEF ReplacedIn
  <2>7. Pushed(Coll(s), e) = Coll(t)
    BY <2>2, <2>3
  <2>8. Coll(t).slots = t
    BY CollFields
  <2> DEFINE c == Pushed(Coll(s), e)
  <2>9. IsCollector(c) /\ c.slots = t
    BY <1>6, <2>7, <2>8
  <2> HIDE DEF c
  <2>10. Spoiled(c)
    BY <2>4, <2>6, <2>9 DEF Spoiled
  <2> QED BY <2>10 DEF c, e
<1>10. Spoiled(Pushed(Coll(s), e))
  BY ONLY <1>8, <1>9 DEF e
<1> QED BY <1>10 DEF e

\* What the collector holds after n items, Gemini's calls sharing an item id.
GemKeeps(c, r, n) ==
  IF Len(CallsTo(r, n)) > 1 THEN Spoiled(c) ELSE \E s : c = Coll(s) /\ GemHeld(s, r, n)

LEMMA GemEventsAreMild ==
  ASSUME NEW r, Whole(r), NEW i \in DOMAIN r.items, NEW step
  PROVE  \/ GemEvents(r, i, step) = << >>
         \/ \E e : Mild(e) /\ GemEvents(r, i, step) = <<e>>
<1>1. CASE r.items[i].type = "text"
  <2> DEFINE e == TextDelta(<<"text", 0>>, DataOf(r, i))
  <2>1. e.data = DataOf(r, i)
    BY DEF TextDelta, Delta
  <2>2. IsSeq(DataOf(r, i))
    BY DataFacts
  <2>3. GemEvents(r, i, step) = << >> \/ GemEvents(r, i, step) = <<e>>
    BY <1>1 DEF GemEvents
  <2> HIDE DEF e
  <2>4. Mild(e)
    BY <2>1, <2>2 DEF Mild
  <2> QED BY <2>3, <2>4
<1>2. CASE r.items[i].type = "call"
  <2> DEFINE e == GemCall(r, i)
  <2>1. GemEvents(r, i, step) = <<e>>
    BY <1>2 DEF GemEvents
  <2>2. Mild(e)
    BY GemCallFacts DEF Mild
  <2> HIDE DEF e
  <2> QED BY <2>1, <2>2
<1>3. CASE r.items[i].type = "search"
  <2> DEFINE e == ServerToolUse(step)
  <2>1. GemEvents(r, i, step) = <<e>>
    BY <1>3 DEF GemEvents
  <2>2. Mild(e)
    BY DEF Mild, IsDelta, ServerToolUse
  <2> HIDE DEF e
  <2> QED BY <2>1, <2>2
<1>4. CASE r.items[i].type \notin {"text", "call", "search"}
  BY <1>4 DEF GemEvents
<1> QED BY <1>1, <1>2, <1>3, <1>4

LEMMA GemStaysSpoiled ==
  ASSUME NEW r, Whole(r), NEW i \in DOMAIN r.items, NEW step, NEW c, Spoiled(c)
  PROVE  Spoiled(PushAll(c, GemEvents(r, i, step)))
<1>1. CASE GemEvents(r, i, step) = << >>
  BY <1>1, PushAllNone
<1>2. CASE \E e : Mild(e) /\ GemEvents(r, i, step) = <<e>>
  <2>1. PICK e : Mild(e) /\ GemEvents(r, i, step) = <<e>>
    BY <1>2
  <2>2. Spoiled(Pushed(c, e))
    BY <2>1, SpoiledStays
  <2> QED BY <2>1, <2>2, PushAllOne
<1> QED BY <1>1, <1>2, GemEventsAreMild

\* An item's events, pushed where no two calls share an item id yet.
LEMMA GemItemPushed ==
  ASSUME NEW r, Whole(r), NEW n \in Nat, n + 1 \in DOMAIN r.items, NEW s, GemHeld(s, r, n), NEW step,
         ~(Len(CallsTo(r, n)) > 1)
  PROVE  GemKeeps(PushAll(Coll(s), GemEvents(r, n + 1, step)), r, n + 1)
<1> DEFINE type == r.items[n + 1].type
           events == GemEvents(r, n + 1, step)
           calls == Len(CallsTo(r, n))
           more == Len(CallsTo(r, n + 1))
<1>1. /\ type = "text" => TextTo(r, n + 1) = TextTo(r, n) \o DataOf(r, n + 1) /\ CallsTo(r, n + 1) = CallsTo(r, n)
      /\ type = "call" => more = calls + 1
      /\ type # "call" => more = calls
      /\ calls \in Nat /\ IsSeq(TextTo(r, n))
  BY GemRows
<1>2. ASSUME type # "call", NEW t, GemHeld(t, r, n + 1) PROVE GemKeeps(Coll(t), r, n + 1)
  BY <1>1, <1>2 DEF GemKeeps
<1>3. PushAll(Coll(s), << >>) = Coll(s)
  BY PushAllNone
<1>4. CASE type = "text" /\ DataOf(r, n + 1) = << >>
  <2>1. TextTo(r, n + 1) = TextTo(r, n) /\ CallsTo(r, n + 1) = CallsTo(r, n)
    BY <1>1, <1>4, EmptyAtTheEnd
  <2>2. GemHeld(s, r, n + 1)
    BY <2>1 DEF GemHeld
  <2>3. events = << >>
    BY <1>4 DEF GemEvents
  <2> QED BY <1>2, <1>3, <1>4, <2>2, <2>3
<1>5. CASE type = "text" /\ DataOf(r, n + 1) # << >>
  <2> DEFINE e == TextDelta(<<"text", 0>>, DataOf(r, n + 1))
  <2>1. events = <<e>>
    BY <1>5 DEF GemEvents
  <2>2. PICK t : Pushed(Coll(s), e) = Coll(t) /\ GemHeld(t, r, n + 1)
    BY <1>5, GemTextPushed
  <2> HIDE DEF e, events
  <2>3. PushAll(Coll(s), events) = Coll(t)
    BY <2>1, <2>2, PushAllOne
  <2>4. GemKeeps(Coll(t), r, n + 1)
    BY <1>2, <1>5, <2>2
  <2> QED BY <2>3, <2>4 DEF events
<1>6. CASE type = "call" /\ calls = 0
  <2> DEFINE e == GemCall(r, n + 1)
             t == Append(s, e)
  <2>1. events = <<e>>
    BY <1>6 DEF GemEvents
  <2>2. Pushed(Coll(s), e) = Coll(t) /\ GemHeld(t, r, n + 1)
    BY <1>6, GemFirstCall
  <2> HIDE DEF e, events, t
  <2>3. PushAll(Coll(s), events) = Coll(t)
    BY <2>1, <2>2, PushAllOne
  <2>5. ~(Len(CallsTo(r, n + 1)) > 1)
    <3>1. more = calls + 1 /\ calls = 0
      BY <1>1, <1>6
    <3> HIDE DEF more, calls
    <3>2. ~(more > 1)
      BY <3>1
    <3> QED BY <3>2 DEF more
  <2>4. GemKeeps(Coll(t), r, n + 1)
    BY <2>2, <2>5 DEF GemKeeps
  <2> QED BY <2>3, <2>4 DEF events
<1>7. CASE type = "call" /\ calls # 0
  <2> DEFINE e == GemCall(r, n + 1)
  <2>1. events = <<e>>
    BY <1>7 DEF GemEvents
  <2>2. calls > 0 /\ more > 1
    BY <1>1, <1>7
  <2>3. Spoiled(Pushed(Coll(s), e))
    BY <1>7, <2>2, GemSecondCall
  <2> HIDE DEF e, events
  <2>4. Spoiled(PushAll(Coll(s), events))
    BY <2>1, <2>3, PushAllOne
  <2>5. GemKeeps(PushAll(Coll(s), events), r, n + 1)
    BY <2>2, <2>4 DEF GemKeeps
  <2> QED BY <2>5 DEF events
<1>8. CASE type = "search"
  <2> DEFINE e == ServerToolUse(step)
             t == Append(s, e)
  <2>1. events = <<e>>
    BY <1>8 DEF GemEvents
  <2>2. Pushed(Coll(s), e) = Coll(t) /\ GemHeld(t, r, n + 1)
    BY <1>8, GemUsePushed
  <2> HIDE DEF e, events, t
  <2>3. PushAll(Coll(s), events) = Coll(t)
    BY <2>1, <2>2, PushAllOne
  <2>4. GemKeeps(Coll(t), r, n + 1)
    BY <1>2, <1>8, <2>2
  <2> QED BY <2>3, <2>4 DEF events
<1>9. CASE type \notin {"text", "call", "search"}
  <2>1. events = << >>
    BY <1>9 DEF GemEvents
  <2>2. GemHeld(s, r, n + 1)
    BY <1>9, GemUsePushed
  <2> QED BY <1>2, <1>3, <1>9, <2>1, <2>2
<1> QED BY <1>4, <1>5, <1>6, <1>7, <1>8, <1>9

LEMMA GemItemKept ==
  ASSUME NEW r, Whole(r), NEW n \in Nat, n + 1 \in DOMAIN r.items, NEW c, GemKeeps(c, r, n), NEW step
  PROVE  GemKeeps(PushAll(c, GemEvents(r, n + 1, step)), r, n + 1)
<1>1. CASE Len(CallsTo(r, n)) > 1
  <2>1. Len(CallsTo(r, n + 1)) > 1
    <3>1. \/ Len(CallsTo(r, n + 1)) = Len(CallsTo(r, n)) + 1
          \/ Len(CallsTo(r, n + 1)) = Len(CallsTo(r, n))
      BY GemRows
    <3>2. Len(CallsTo(r, n)) \in Nat
      BY GemRows
    <3> QED BY <1>1, <3>1, <3>2
  <2>2. Spoiled(c)
    BY <1>1 DEF GemKeeps
  <2>3. Spoiled(PushAll(c, GemEvents(r, n + 1, step)))
    BY <2>2, GemStaysSpoiled
  <2> QED BY <2>1, <2>3 DEF GemKeeps
<1>2. CASE ~(Len(CallsTo(r, n)) > 1)
  <2>1. PICK s : c = Coll(s) /\ GemHeld(s, r, n)
    BY <1>2 DEF GemKeeps
  <2>2. GemKeeps(PushAll(Coll(s), GemEvents(r, n + 1, step)), r, n + 1)
    BY <1>2, <2>1, GemItemPushed
  <2> QED BY <2>1, <2>2
<1> QED BY <1>1, <1>2

\* Where Gemini's decoder stands after n items of a stream.
GemGoes(q, r, n) ==
  \E d, c : q = Going(d, c) /\ (n > 0 => d.candidate \/ c.error # NoError) /\ GemKeeps(c, r, n)
\* Where it stands at the end of the stream.
GemRests(q, r) ==
  \E d, c : q = Going(d, c) /\ (d.candidate \/ c.error # NoError) /\ GemKeeps(c, r, Len(r.items))

LEMMA DecodeOfGemini ==
  ASSUME NEW d, NEW w, NEW step, NEW r
  PROVE  Decode("gemini", d, w, step, r) = GeminiEvent(d, w, step, r)
  BY DEF Decode

\* An event that ends nothing.
LEMMA TakenOn ==
  ASSUME NEW at, NEW d, NEW c, c.error = NoError, NEW w, NEW e, NEW events,
         Decode(at.provider, d, w, at.step, at.response) = Outcome(e, events)
  PROVE  Taken(at, Going(d, c), w) = Going(e, PushAll(c, events))
<1> DEFINE q == Going(d, c)
<1>1. ~Halted(q) /\ q.d = d /\ q.c = c
  BY DEF Halted, Going
<1> HIDE DEF q
<1> DEFINE out == Outcome(e, events)
<1>2. /\ out.state = e /\ out.events = events /\ out.finished = FALSE /\ out.error = FALSE
  BY DEF Outcome
<1> HIDE DEF out
<1>3. Taken(at, q, w)
        = [d |-> out.state, c |-> PushAll(q.c, out.events), over |-> out.finished \/ out.error]
  BY <1>1 DEF Taken, out
<1>4. Taken(at, q, w) = [d |-> e, c |-> PushAll(c, events), over |-> FALSE]
  BY <1>1, <1>2, <1>3
<1> QED BY <1>4 DEF Going, q

\* A collector with an error is a spoiled one.
LEMMA GemError ==
  ASSUME NEW c, NEW r, NEW n, GemKeeps(c, r, n), c.error # NoError
  PROVE  Len(CallsTo(r, n)) > 1 /\ Spoiled(c)
  BY CollFields DEF GemKeeps

\* What an event of Gemini's does that yields the given events.
LEMMA GemTaken ==
  ASSUME NEW r, NEW step, NEW d, NEW c, c.error = NoError, NEW w, NEW events,
         GemYields(GeminiEvent(d, w, step, r), events)
  PROVE  \E e : e.candidate /\ Taken(At("gemini", r, step), Going(d, c), w) = Going(e, PushAll(c, events))
<1> DEFINE at == At("gemini", r, step)
           e == GeminiEvent(d, w, step, r).state
<1>1. at.provider = "gemini" /\ at.response = r /\ at.step = step
  BY AtFields
<1>2. GeminiEvent(d, w, step, r) = Outcome(e, events) /\ e.candidate
  BY DEF GemYields
<1> HIDE DEF at, e
<1>3. Decode(at.provider, d, w, at.step, at.response) = Outcome(e, events)
  BY <1>1, <1>2, DecodeOfGemini
<1>4. Taken(at, Going(d, c), w) = Going(e, PushAll(c, events))
  BY <1>3, TakenOn
<1> QED BY <1>2, <1>4 DEF at

LEMMA HaltedStays ==
  ASSUME NEW at, NEW d, NEW c, c.error # NoError, NEW w
  PROVE  Taken(at, Going(d, c), w) = Going(d, c)
  BY DEF Taken, Halted, Going

LEMMA GemTakes ==
  ASSUME NEW r, Whole(r), NEW n \in Nat, n + 1 \in DOMAIN r.items, NEW q, GemGoes(q, r, n), NEW step
  PROVE  GemGoes(Taken(At("gemini", r, step), q, Chunk(<<n + 1>>)), r, n + 1)
<1> DEFINE at == At("gemini", r, step)
           w == Chunk(<<n + 1>>)
           events == GemEvents(r, n + 1, step)
<1>1. PICK d, c : q = Going(d, c) /\ GemKeeps(c, r, n)
  BY DEF GemGoes
<1>2. CASE c.error # NoError
  <2>1. Len(CallsTo(r, n)) > 1 /\ Spoiled(c)
    BY <1>1, <1>2, GemError
  <2>2. \/ Len(CallsTo(r, n + 1)) = Len(CallsTo(r, n)) + 1
        \/ Len(CallsTo(r, n + 1)) = Len(CallsTo(r, n))
    BY GemRows
  <2>3. Len(CallsTo(r, n)) \in Nat
    BY GemRows
  <2>4. Len(CallsTo(r, n + 1)) > 1
    BY <2>1, <2>2, <2>3
  <2>5. GemKeeps(c, r, n + 1)
    BY <2>1, <2>4 DEF GemKeeps
  <2>6. Taken(at, q, w) = Going(d, c)
    BY <1>1, <1>2, HaltedStays
  <2>7. GemGoes(Going(d, c), r, n + 1)
    BY <1>2, <2>5 DEF GemGoes
  <2> QED BY <2>6, <2>7
<1>3. CASE c.error = NoError
  <2>1. GemYields(GeminiEvent(d, w, step, r), events)
    BY GemPart
  <2> HIDE DEF w, events
  <2>2. PICK e : e.candidate /\ Taken(at, Going(d, c), w) = Going(e, PushAll(c, events))
    BY <1>3, <2>1, GemTaken
  <2>3. GemKeeps(PushAll(c, events), r, n + 1)
    BY <1>1, GemItemKept DEF events
  <2>4. GemGoes(Going(e, PushAll(c, events)), r, n + 1)
    BY <2>2, <2>3 DEF GemGoes
  <2> QED BY <1>1, <2>2, <2>4 DEF w
<1> QED BY <1>2, <1>3

\* The last chunk has no parts.
LEMMA GemLast ==
  ASSUME NEW r, NEW q, GemGoes(q, r, Len(r.items)), NEW step
  PROVE  GemRests(Taken(At("gemini", r, step), q, Chunk(<< >>)), r)
<1> DEFINE at == At("gemini", r, step)
           w == Chunk(<< >>)
           N == Len(r.items)
<1>1. PICK d, c : q = Going(d, c) /\ GemKeeps(c, r, N)
  BY DEF GemGoes
<1>2. CASE c.error # NoError
  <2>1. Taken(at, q, w) = Going(d, c)
    BY <1>1, <1>2, HaltedStays
  <2>2. GemRests(Going(d, c), r)
    BY <1>1, <1>2 DEF GemRests
  <2> QED BY <2>1, <2>2
<1>3. CASE c.error = NoError
  <2>1. GemYields(GeminiEvent(d, w, step, r), << >>)
    BY GemNothing
  <2> HIDE DEF w
  <2>2. PICK e : e.candidate /\ Taken(at, Going(d, c), w) = Going(e, PushAll(c, << >>))
    BY <1>3, <2>1, GemTaken
  <2>3. PushAll(c, << >>) = c
    BY PushAllNone
  <2>4. GemRests(Going(e, c), r)
    BY <1>1, <2>2 DEF GemRests
  <2> QED BY <1>1, <2>2, <2>3, <2>4 DEF w
<1> QED BY <1>2, <1>3

LEMMA GemBegins ==
  ASSUME NEW r
  PROVE  GemGoes(Going(StartOf("gemini"), Coll(<< >>)), r, 0)
<1> DEFINE d == StartOf("gemini")
           c == Coll(<< >>)
<1>1. TextTo(r, 0) = << >> /\ CallsTo(r, 0) = << >>
  BY RowsToNone
<1>2. GemSlots(<< >>) /\ Missing(<< >>, "Call")
  BY SoloNone DEF GemSlots
<1>3. Len(CallsTo(r, 0)) = 0
  BY <1>1
<1>4. GemHeld(<< >>, r, 0)
  BY <1>1, <1>2, <1>3, HoldsNothing DEF GemHeld
<1>5. GemKeeps(c, r, 0)
  BY <1>3, <1>4 DEF GemKeeps
<1> HIDE DEF d, c
<1>6. GemGoes(Going(d, c), r, 0)
  BY <1>5 DEF GemGoes
<1> QED BY <1>6 DEF d, c

LEMMA GemListens ==
  ASSUME NEW r, Whole(r), NEW step
  PROVE  LET row == [i \in DOMAIN r.items |-> Chunk(<<i>>)]
         IN /\ IsSeq(row)
            /\ GemGoes(Consume(At("gemini", r, step), Going(StartOf("gemini"), Coll(<< >>)), row),
                       r, Len(r.items))
<1> DEFINE row == [i \in DOMAIN r.items |-> Chunk(<<i>>)]
           N == Len(r.items)
           at == At("gemini", r, step)
           q == Going(StartOf("gemini"), Coll(<< >>))
           P == {n \in Nat : n <= N => GemGoes(Consume(at, q, Prefix(row, n)), r, n)}
<1>1. N \in Nat /\ DOMAIN r.items = 1 .. N
  BY ItemsOf DEF Whole
<1>2. row = [i \in 1 .. N |-> row[i]] /\ \A i \in 1 .. N : row[i] = Chunk(<<i>>)
  BY <1>1
<1>3. GemGoes(q, r, 0)
  BY GemBegins
<1> HIDE DEF row, at, q
<1>4. IsSeq(row) /\ Len(row) = N
  BY <1>1, <1>2, FunctionIsSeq
<1>5. 0 \in P
  <2>1. Prefix(row, 0) = << >>
    BY PrefixGrows
  <2> QED BY <1>3, <2>1, ConsumeNone
<1>6. ASSUME NEW n \in P PROVE n + 1 \in P
  <2> SUFFICES ASSUME n + 1 <= N PROVE GemGoes(Consume(at, q, Prefix(row, n + 1)), r, n + 1)
    OBVIOUS
  <2> DEFINE p == Prefix(row, n)
             o == Consume(at, q, p)
             w == Chunk(<<n + 1>>)
  <2>1. n \in Nat /\ n + 1 \in DOMAIN r.items /\ GemGoes(o, r, n) /\ row[n + 1] = w
    BY <1>1, <1>2
  <2>2. GemGoes(Taken(at, o, w), r, n + 1)
    BY <2>1, GemTakes DEF at
  <2>3. Prefix(row, n + 1) = Append(p, w) /\ IsSeq(p)
    BY <2>1, PrefixGrows
  <2> HIDE DEF p, w
  <2>4. Consume(at, q, Append(p, w)) = Taken(at, Consume(at, q, p), w)
    BY <2>3, ConsumeAppend
  <2> QED BY <2>2, <2>3, <2>4
<1>7. GemGoes(Consume(at, q, Prefix(row, N)), r, N)
  <2>1. P = Nat
    <3>1. P \in SUBSET Nat
      OBVIOUS
    <3> HIDE DEF P
    <3> QED BY <1>5, <1>6, <3>1, Induct
  <2> QED BY <1>1, <2>1
<1>8. Prefix(row, N) = row
  BY <1>4, PrefixWhole DEF IsSeq
<1> QED BY <1>4, <1>7, <1>8 DEF row, at, q

\* What the end of Gemini's stream yields.
LEMMA GemEndEvents ==
  ASSUME NEW d, NEW step, NEW r
  PROVE  IF d.candidate
         THEN LET a == IF r.items = << >> THEN << >> ELSE <<Continuation(step)>>
              IN /\ IsSeq(a) /\ \A e \in ToSet(a) : PlainEvent(e) /\ ~IsDelta(e)
                 /\ GeminiEnd(d, step, r).events = a \o LastTwo(step, Kind(d.call, d.text))
         ELSE GeminiEnd(d, step, r).events = << >>
<1>1. CASE d.candidate
  <2> DEFINE a == IF r.items = << >> THEN << >> ELSE <<Continuation(step)>>
             l == LastTwo(step, Kind(d.call, d.text))
  <2>1. PlainEvent(Continuation(step)) /\ ~IsDelta(Continuation(step))
    BY WholeItemsPlain DEF Continuation, IsDelta
  <2>2. IsSeq(a) /\ \A e \in ToSet(a) : PlainEvent(e) /\ ~IsDelta(e)
    <3> DEFINE e == Continuation(step)
    <3> HIDE DEF e
    <3>1. IsSeq(<<e>>) /\ ToSet(<<e>>) = {e}
      BY OneIsSeq
    <3> QED BY <2>1, <3>1, EmptyIsSeq DEF e
  <2>3. GeminiEnd(d, step, r) = Over(d, a \o l)
    BY <1>1 DEF GeminiEnd, LastTwo
  <2> HIDE DEF a, l
  <2>4. GeminiEnd(d, step, r).events = a \o l
    <3> DEFINE x == a \o l
    <3> HIDE DEF x
    <3>1. Over(d, x).events = x
      BY DEF Over, Outcome
    <3> QED BY <2>3, <3>1 DEF x
  <2> QED BY <1>1, <2>2, <2>4 DEF a, l
<1>2. CASE ~d.candidate
  <2>1. GeminiEnd(d, step, r) = Broken(d)
    BY <1>2 DEF GeminiEnd
  <2>2. Broken(d).events = << >>
    BY DEF Broken, Outcome
  <2> QED BY <1>2, <2>1, <2>2
<1> QED BY <1>1, <1>2

\* A step with two calls stays spoiled.
LEMMA GemEndSpoiled ==
  ASSUME NEW c, Spoiled(c), NEW d, NEW step, NEW r
  PROVE  Rejected(PushAll(c, GeminiEnd(d, step, r).events))
<1> DEFINE events == GeminiEnd(d, step, r).events
<1>1. IsSeq(events) /\ \A k \in 1 .. Len(events) : Mild(events[k])
  <2>1. CASE d.candidate
    <3> DEFINE a == IF r.items = << >> THEN << >> ELSE <<Continuation(step)>>
               kind == Kind(d.call, d.text)
               l == LastTwo(step, kind)
    <3>1. (IsSeq(a) /\ \A e \in ToSet(a) : PlainEvent(e) /\ ~IsDelta(e)) /\ events = a \o l
      BY <2>1, GemEndEvents
    <3>2. IsSeq(l) /\ ToSet(l) = {Usage(step), Finished(kind)}
      <4> DEFINE u == Usage(step)
                 f == Finished(kind)
      <4>1. <<u, f>> = <<u>> \o <<f>>
        OBVIOUS
      <4>2. l = <<u, f>>
        BY DEF LastTwo
      <4> HIDE DEF u, f, l
      <4>3. IsSeq(<<u>>) /\ ToSet(<<u>>) = {u} /\ IsSeq(<<f>>) /\ ToSet(<<f>>) = {f}
        BY OneIsSeq
      <4>4. IsSeq(<<u>> \o <<f>>) /\ ToSet(<<u>> \o <<f>>) = ToSet(<<u>>) \cup ToSet(<<f>>)
        BY <4>3, ConcatIsSeq
      <4> QED BY <4>1, <4>2, <4>3, <4>4 DEF u, f
    <3>3. ~IsDelta(Usage(step)) /\ ~IsDelta(Finished(kind))
      BY DEF IsDelta, Usage, Finished
    <3> HIDE DEF a, l, events, kind
    <3>4. IsSeq(a \o l) /\ ToSet(a \o l) = ToSet(a) \cup ToSet(l)
      BY <3>1, <3>2, ConcatIsSeq
    <3>5. \A e \in ToSet(events) : ~IsDelta(e)
      BY <3>1, <3>2, <3>3, <3>4
    <3>6. IsSeq(events)
      BY <3>1, <3>4
    <3> QED BY <3>5, <3>6, IsSeqFacts DEF Mild
  <2>2. CASE ~d.candidate
    <3>1. events = << >>
      BY <2>2, GemEndEvents
    <3> HIDE DEF events
    <3> QED BY <3>1, EmptyIsSeq
  <2> QED BY <2>1, <2>2
<1> HIDE DEF events
<1>2. Spoiled(PushAll(c, events))
  BY <1>1, SpoiledStaysSo
<1>3. Rejected(PushAll(c, events))
  BY <1>2, SpoiledIsRejected
<1> QED BY <1>3 DEF events

\* A step whose slots hold the response tells it.
LEMMA GemEndTells ==
  ASSUME NEW r, Whole(r), NEW s, NEW calls, Holds(s, TextOf(r), calls), Same(calls, CallsSent(r)),
         NEW d, d.candidate, NEW step
  PROVE  Tells(PushAll(Coll(s), GeminiEnd(d, step, r).events), r)
<1> DEFINE a == IF r.items = << >> THEN << >> ELSE <<Continuation(step)>>
           kind == Kind(d.call, d.text)
<1>1. (IsSeq(a) /\ \A e \in ToSet(a) : PlainEvent(e) /\ ~IsDelta(e))
      /\ GeminiEnd(d, step, r).events = a \o LastTwo(step, kind)
  BY GemEndEvents
<1>2. kind # Unfinished
  BY DEF Kind, Unfinished
<1>3. IsSeq(TextOf(r))
  BY ResponseTells
<1> HIDE DEF a, kind
<1>4. Tells(PushAll(Coll(s), a \o LastTwo(step, kind)), r)
  BY <1>1, <1>2, <1>3, EndTells
<1> QED BY <1>1, <1>4

\* What becomes of a step that Gemini streams.
GemStreams(r) == Len(CallsTo(r, Len(r.items))) > 1
LEMMA GemStreamEnds ==
  ASSUME NEW r, Whole(r), NEW q, GemRests(q, r), NEW step
  PROVE  LET c == PushAll(q.c, GeminiEnd(q.d, step, r).events)
         IN IF GemStreams(r) THEN Rejected(c) ELSE Tells(c, r)
<1> DEFINE N == Len(r.items)
<1>1. PICK d, c : q = Going(d, c) /\ (d.candidate \/ c.error # NoError) /\ GemKeeps(c, r, N)
  BY DEF GemRests
<1>2. q.d = d /\ q.c = c
  BY <1>1 DEF Going
<1>3. CASE GemStreams(r)
  <2>1. Spoiled(c)
    BY <1>1, <1>3 DEF GemKeeps, GemStreams
  <2>2. Rejected(PushAll(c, GeminiEnd(d, step, r).events))
    BY <2>1, GemEndSpoiled
  <2> QED BY <1>2, <1>3, <2>2
<1>4. CASE ~GemStreams(r)
  <2>1. PICK s : c = Coll(s) /\ GemHeld(s, r, N)
    BY <1>1, <1>4 DEF GemKeeps, GemStreams
  <2>2. d.candidate
    BY <1>1, <2>1, CollFields
  <2>3. TextOf(r) = TextTo(r, N) /\ CallsSent(r) = CallsTo(r, N) /\ IsSeq(CallsSent(r))
    BY ResponseTells
  <2>4. Holds(s, TextOf(r), CallsSent(r)) /\ Same(CallsSent(r), CallsSent(r))
    BY <2>1, <2>3, SameItself DEF GemHeld
  <2>5. Tells(PushAll(Coll(s), GeminiEnd(d, step, r).events), r)
    BY <2>2, <2>4, GemEndTells
  <2> QED BY <1>2, <1>4, <2>1, <2>5
<1> QED BY <1>3, <1>4

\* All the parts of a response in one chunk.
AllOf(r) == [i \in DOMAIN r.items |-> i]

LEMMA GemUsesBlock ==
  ASSUME NEW r, Whole(r), NEW step
  PROVE  Holds(GemUses(r, AllOf(r), step), << >>, << >>) /\ Named(GemUses(r, AllOf(r), step), "reasoning")
<1> DEFINE x == Of(r, "search")
           e == ServerToolUse(step)
           U == [k \in DOMAIN x |-> e]
<1>1. GemUses(r, AllOf(r), step) = U
  BY DEF GemUses, AllOf, Of
<1>2. IsSeq(x)
  BY OfIsSeq DEF Whole
<1>3. PlainEvent(e) /\ ~IsDelta(e)
  BY WholeItemsPlain DEF ServerToolUse, IsDelta
<1> HIDE DEF e, x
<1>4. Len(x) \in Nat /\ DOMAIN x = 1 .. Len(x)
  BY <1>2, IsSeqFacts
<1>5. U = [k \in 1 .. Len(x) |-> U[k]] /\ \A k \in 1 .. Len(x) : U[k] = e
  BY <1>4
<1> HIDE DEF U
<1>6. IsSeq(U) /\ \A z \in ToSet(U) : \E k \in 1 .. Len(x) : z = U[k]
  BY <1>4, <1>5, FunctionIsSeq
<1>7. \A z \in ToSet(U) : PlainEvent(z) /\ ~IsDelta(z)
  BY <1>3, <1>5, <1>6
<1>8. Holds(U, << >>, << >>) /\ \A tag : Named(U, tag)
  BY <1>6, <1>7, OthersAreNamed
<1> QED BY <1>1, <1>8

LEMMA GemWholePushed ==
  ASSUME NEW r, Whole(r), NEW step
  PROVE  \E s : /\ PushAll(Coll(<< >>), GemTextEvents(r, AllOf(r)) \o GemCallEvents(r, AllOf(r))
                                          \o GemUses(r, AllOf(r), step)) = Coll(s)
                /\ Holds(s, TextOf(r), CallsSent(r))
<1> DEFINE x == Of(r, "call")
           text == TextOf(r)
           T == GemTextEvents(r, AllOf(r))
           C == GemCallEvents(r, AllOf(r))
           R == GemUses(r, AllOf(r), step)
           none == << >>
<1>2. IsSeq(x) /\ (\A k \in DOMAIN x : x[k] \in DOMAIN r.items) /\ IsResponse(r)
  <2>1. IsSeq(x) /\ ToSet(x) = Places(r, "call") /\ IsResponse(r)
    BY OfIsSeq DEF Whole
  <2> HIDE DEF x
  <2> QED BY <2>1, IsSeqFacts DEF Places
<1>3. /\ IsSeq(text) /\ IsSeq(CallsSent(r))
      /\ CallsSent(r) = [k \in DOMAIN x |-> CallSent(r, x[k])]
  BY ResponseTells DEF CallsSent, CallSent
<1>4. Holds(T, text, none) /\ Named(T, "text")
  <2> DEFINE b == text = << >>
  <2>0. GemText(r, AllOf(r)) = text
    BY DEF GemText, AllOf, TextOf, Of
  <2>1. b \in BOOLEAN /\ (IF b THEN << >> ELSE text) = text
    OBVIOUS
  <2>3. T = IF b THEN << >> ELSE <<TextDelta(<<"text", 0>>, text)>>
    BY <2>0 DEF GemTextEvents
  <2> HIDE DEF text, T
  <2>2. /\ Holds(IF b THEN << >> ELSE <<TextDelta(<<"text", 0>>, text)>>, IF b THEN << >> ELSE text, << >>)
        /\ Named(IF b THEN << >> ELSE <<TextDelta(<<"text", 0>>, text)>>, "text")
    <3> HIDE DEF b
    <3> QED BY <1>3, <2>1, TextBlock
  <2> QED BY <2>1, <2>2, <2>3
<1>5. Holds(C, none, CallsSent(r)) /\ Named(C, "tool")
  <2>1. C = [k \in DOMAIN x |-> CallDelta(<<"tool", k>>, <<r.items[x[k]].tool>>, r.items[x[k]].tool,
                                          ArgumentsOf(r, x[k]))]
    BY DEF GemCallEvents, AllOf, Of
  <2> HIDE DEF x, C
  <2>2. C = [k \in DOMAIN x |-> C[k]]
    BY <2>1
  <2>3. \A k \in DOMAIN x :
           \E id : C[k] = CallDelta(<<"tool", k>>, id, r.items[x[k]].tool, ArgumentsOf(r, x[k]))
    BY <2>1
  <2>4. Holds(C, << >>, [k \in DOMAIN x |-> CallSent(r, x[k])]) /\ Named(C, "tool")
    BY <1>2, <2>2, <2>3, CallsBlock
  <2> QED BY <1>3, <2>4
<1>6. Holds(R, none, none) /\ Named(R, "reasoning")
  BY GemUsesBlock
<1>8. /\ \A tag : Unnamed(none, tag) /\ Holds(none, none, none)
      /\ none \o text = text /\ none \o CallsSent(r) = CallsSent(r)
  <2>1. \A tag : Unnamed(none, tag) /\ Holds(none, none, none)
    BY NothingIsNamed
  <2> HIDE DEF text
  <2>2. none \o text = text /\ none \o CallsSent(r) = CallsSent(r)
    BY <1>3, EmptyAtTheStart
  <2> QED BY <2>1, <2>2
<1> HIDE DEF T, C, R, x, none, text
<1>10. /\ PushAll(Coll(none), T \o C \o R) = Coll(none \o T \o C \o R)
       /\ Holds(none \o T \o C \o R, none \o text, none \o CallsSent(r))
       /\ IsSeq(T) /\ IsSeq(C) /\ IsSeq(R)
  BY <1>4, <1>5, <1>6, <1>8, ThreeBlocks DEF none
<1> DEFINE v == none \o T \o C \o R
<1> HIDE DEF v
<1>11. PushAll(Coll(none), T \o C \o R) = Coll(v) /\ Holds(v, text, CallsSent(r))
  BY <1>8, <1>10 DEF v
<1> QED BY <1>11 DEF T, C, R, none, text

\* How Gemini's stream ends: calls of two chunks share an item id.
GemShares(r, whole) == ~whole /\ GemStreams(r)
GemEnding(c, r, whole) == IF GemShares(r, whole) THEN Rejected(c) ELSE Tells(c, r)

LEMMA GeminiConcludes ==
  ASSUME NEW r, Whole(r), NEW step, NEW whole
  PROVE  LET q == Consume(At("gemini", r, step), Going(StartOf("gemini"), Coll(<< >>)), GeminiWire(r, whole))
         IN GemEnding(PushAll(q.c, GeminiEnd(q.d, step, r).events), r, whole)
<1> DEFINE at == At("gemini", r, step)
           d == StartOf("gemini")
           start == Going(d, Coll(<< >>))
           wire == GeminiWire(r, whole)
           q == Consume(at, start, wire)
           c == PushAll(q.c, GeminiEnd(q.d, step, r).events)
<1>1. CASE whole
  <2> DEFINE w == Chunk(AllOf(r))
             events == GemTextEvents(r, AllOf(r)) \o GemCallEvents(r, AllOf(r)) \o GemUses(r, AllOf(r), step)
             none == << >>
  <2>1. wire = <<w>>
    BY <1>1 DEF GeminiWire, Chunk, AllOf
  <2>2. GemYields(GeminiEvent(d, w, step, r), events)
    BY GemEventIs
  <2>3. PICK s : PushAll(Coll(<< >>), events) = Coll(s) /\ Holds(s, TextOf(r), CallsSent(r))
    BY GemWholePushed
  <2>4. Coll(<< >>).error = NoError
    BY CollFields
  <2> HIDE DEF w, events, wire, d
  <2>5. PICK e : e.candidate /\ Taken(at, Going(d, Coll(<< >>)), w) = Going(e, PushAll(Coll(<< >>), events))
    BY <2>2, <2>4, GemTaken
  <2>6. q = Going(e, Coll(s))
    BY <2>1, <2>3, <2>5, ConsumeOne
  <2>7. q.d = e /\ q.c = Coll(s)
    BY <2>6 DEF Going
  <2> HIDE DEF q
  <2>8. Same(CallsSent(r), CallsSent(r))
    BY ResponseTells, SameItself
  <2>9. Tells(PushAll(Coll(s), GeminiEnd(e, step, r).events), r)
    BY <2>3, <2>5, <2>8, GemEndTells
  <2>10. Tells(c, r)
    BY <2>7, <2>9
  <2> HIDE DEF c
  <2>11. GemEnding(c, r, whole)
    BY <1>1, <2>10 DEF GemEnding, GemShares
  <2> QED BY <2>11 DEF c, q, wire, d
<1>2. CASE ~whole
  <2> DEFINE row == [i \in DOMAIN r.items |-> Chunk(<<i>>)]
             w == Chunk(<< >>)
             p == Consume(at, start, row)
  <2>1. wire = row \o <<w>>
    BY <1>2 DEF GeminiWire, Chunk
  <2>2. IsSeq(row) /\ GemGoes(p, r, Len(r.items))
    BY GemListens
  <2>3. GemRests(Taken(at, p, w), r)
    BY <2>2, GemLast
  <2> HIDE DEF row, w, start, wire
  <2>4. wire = Append(row, w)
    BY <2>1, <2>2, AppendIsSeq
  <2>5. Consume(at, start, Append(row, w)) = Taken(at, p, w)
    BY <2>2, ConsumeAppend
  <2>6. GemRests(q, r)
    BY <2>3, <2>4, <2>5
  <2> HIDE DEF q
  <2>7. IF GemStreams(r) THEN Rejected(c) ELSE Tells(c, r)
    BY <2>6, GemStreamEnds
  <2> HIDE DEF c
  <2>8. GemEnding(c, r, whole)
    BY <1>2, <2>7 DEF GemEnding, GemShares
  <2> QED BY <2>8 DEF c, q, start, wire
<1> QED BY <1>1, <1>2

\* What the collector is handed of an adapter's stream, its end included.
Gathered(at, q) ==
  IF at.provider = "gemini" THEN PushAll(q.c, AtEnd(at.provider, q.d, at.step, at.response).events) ELSE q.c
\* Gemini's calls of two chunks share an item id.
Shares(p, r, whole) == p = "gemini" /\ ~whole /\ Len(Of(r, "call")) > 1

\* What becomes of the response in the end.
Concludes(c, p, r, whole) == IF Shares(p, r, whole) THEN Rejected(c) ELSE Tells(c, r)
\* A stream that tells its response in the end.
SoFar(at, d, c, wire, whole) ==
  Concludes(Gathered(at, Consume(at, Going(d, c), wire)), at.provider, at.response, whole)

LEMMA DecodeOfCompat ==
  ASSUME NEW d, NEW w, NEW step, NEW r
  PROVE  Decode("compat", d, w, step, r) = CompatEvent(d, w, step, r)
  BY DEF Decode

LEMMA CompatConcludes ==
  ASSUME NEW r, Whole(r), NEW step, NEW whole
  PROVE  Tells(Consume(At("compat", r, step), Going(StartOf("compat"), Coll(<< >>)),
                       Wire("compat", r, whole)).c, r)
<1> DEFINE at == At("compat", r, step)
           d == StartOf("compat")
           w == [type |-> "message"]
           none == << >>
           out == CompatEvent(d, w, step, r)
           events == out.events
<1>1. Wire("compat", r, whole) = <<w>>
  BY DEF Wire
<1>2. out = Over(d, events) /\ Tells(PushAll(Coll(none), events), r)
  BY CompatTells
<1>3. at.provider = "compat" /\ at.response = r /\ at.step = step
  BY AtFields
<1> HIDE DEF at, d, w, none, events
<1>4. Decode(at.provider, d, w, at.step, at.response) = Over(d, events)
  BY <1>2, <1>3, DecodeOfCompat
<1>5. Taken(at, Going(d, Coll(none)), w) = [d |-> d, c |-> PushAll(Coll(none), events), over |-> TRUE]
  BY ONLY <1>4, TakenOver
<1>6. Consume(at, Going(d, Coll(none)), <<w>>).c = PushAll(Coll(none), events)
  BY <1>5, ConsumeOne
<1> QED BY <1>1, <1>2, <1>6 DEF at, d, none

\* Whatever an adapter's stream carries, a response that the token limit did
\* not cut is told by it, or refused where Gemini's calls share an item id.
LEMMA AdapterConcludes ==
  ASSUME NEW p \in Adapters, NEW r, Whole(r), MayServe(p, r), NEW step, NEW whole \in BOOLEAN
  PROVE  SoFar(At(p, r, step), StartOf(p), Coll(<< >>), Wire(p, r, whole), whole)
<1> DEFINE at == At(p, r, step)
           q == Consume(at, Going(StartOf(p), Coll(<< >>)), Wire(p, r, whole))
<1>0. at.provider = p /\ at.response = r /\ at.step = step
  BY AtFields
<1>1. SUFFICES Concludes(Gathered(at, q), p, r, whole)
  BY <1>0 DEF SoFar
<1>2. ASSUME p # "gemini", Tells(q.c, r) PROVE Concludes(Gathered(at, q), p, r, whole)
  <2> HIDE DEF at, q
  <2> QED BY <1>0, <1>2 DEF Gathered, Concludes, Shares
<1>3. CASE p = "openai"
  <2>1. Wire(p, r, whole) = OpenAiWire(r, whole)
    BY <1>3 DEF Wire
  <2>2. Tells(Consume(At("openai", r, step), Going(StartOf("openai"), Coll(<< >>)), OpenAiWire(r, whole)).c, r)
    BY OpenAiTells
  <2> QED BY <1>2, <1>3, <2>1, <2>2
<1>4. CASE p = "anthropic"
  <2>1. Wire(p, r, whole) = AnthropicWire(r, whole)
    BY <1>4 DEF Wire
  <2>2. Tells(Consume(At("anthropic", r, step), Going(StartOf("anthropic"), Coll(<< >>)),
                      AnthropicWire(r, whole)).c, r)
    BY AnthropicTells
  <2> QED BY <1>2, <1>4, <2>1, <2>2
<1>5. CASE p = "xai"
  <2>1. Wire(p, r, whole) = XaiChatWire(r, whole)
    BY <1>5 DEF Wire
  <2>2. Of(r, "call") = << >> /\ Of(r, "search") = << >>
    BY <1>5 DEF MayServe
  <2>3. Tells(Consume(At("xai", r, step), Going(StartOf("xai"), Coll(<< >>)), XaiChatWire(r, whole)).c, r)
    BY <2>2, XaiTells
  <2> QED BY <1>2, <1>5, <2>1, <2>3
<1>6. CASE p = "compat"
  BY <1>2, <1>6, CompatConcludes
<1>7. CASE p = "gemini"
  <2>1. Wire(p, r, whole) = GeminiWire(r, whole)
    BY <1>7 DEF Wire
  <2> DEFINE g == Consume(At("gemini", r, step), Going(StartOf("gemini"), Coll(<< >>)), GeminiWire(r, whole))
  <2>2. GemEnding(PushAll(g.c, GeminiEnd(g.d, step, r).events), r, whole)
    BY GeminiConcludes
  <2>3. g = q
    BY <1>7, <2>1
  <2>4. Len(CallsTo(r, Len(r.items))) = Len(Of(r, "call"))
    BY ResponseTells
  <2> HIDE DEF g, q, at
  <2>5. Gathered(at, q) = PushAll(q.c, GeminiEnd(q.d, step, r).events)
    BY <1>0, <1>7 DEF Gathered, AtEnd
  <2>6. GemShares(r, whole) <=> Shares(p, r, whole)
    BY <1>7, <2>4 DEF GemShares, GemStreams, Shares
  <2>7. GemEnding(Gathered(at, q), r, whole)
    BY <2>2, <2>3, <2>5
  <2> QED BY <2>6, <2>7 DEF GemEnding, Concludes
<1> QED BY <1>3, <1>4, <1>5, <1>6, <1>7 DEF Adapters

LEMMA GatheredStuck ==
  ASSUME NEW at, NEW q, q.c.error # NoError
  PROVE  Gathered(at, q) = q.c
<1> DEFINE events == AtEnd(at.provider, q.d, at.step, at.response).events
<1>1. CASE at.provider = "gemini"
  <2>1. events = GeminiEnd(q.d, at.step, at.response).events
    BY <1>1 DEF AtEnd
  <2>2. IsSeq(events)
    <3>1. CASE q.d.candidate
      <4> DEFINE a == IF at.response.items = << >> THEN << >> ELSE <<Continuation(at.step)>>
                 kind == Kind(q.d.call, q.d.text)
      <4>1. IsSeq(a) /\ events = a \o LastTwo(at.step, kind)
        BY <2>1, <3>1, GemEndEvents
      <4> HIDE DEF a, events, kind
      <4> QED BY <4>1, LastTwoIsSeq, ConcatIsSeq
    <3>2. CASE ~q.d.candidate
      <4>1. events = << >>
        BY <2>1, <3>2, GemEndEvents
      <4> HIDE DEF events
      <4> QED BY <4>1, EmptyIsSeq
    <3> QED BY <3>1, <3>2
  <2> HIDE DEF events
  <2>3. PushAll(q.c, events) = q.c
    BY <2>2, PushAllStuck
  <2> QED BY <1>1, <2>3 DEF Gathered, events
<1>2. CASE at.provider # "gemini"
  BY <1>2 DEF Gathered
<1> QED BY <1>1, <1>2

\* An event of the stream.
LEMMA SoFarGoesOn ==
  ASSUME NEW at, NEW d, NEW c, c.error = NoError, NEW wire, IsSeq(wire), wire # << >>, NEW whole,
         SoFar(at, d, c, wire, whole),
         NEW out, out = Decode(at.provider, d, Head(wire), at.step, at.response), ~out.error
  PROVE  LET e == PushAll(c, out.events)
         IN IF e.error # NoError \/ out.finished
            THEN Concludes(e, at.provider, at.response, whole)
            ELSE SoFar(at, out.state, e, Tail(wire), whole)
<1> DEFINE e == PushAll(c, out.events)
           t == Tail(wire)
           q == Taken(at, Going(d, c), Head(wire))
<1>1. Consume(at, Going(d, c), wire) = Consume(at, q, t)
  BY ConsumeHead
<1>2. IsSeq(t)
  BY TailIsSeq
<1> HIDE DEF t
<1>3. q = [d |-> out.state, c |-> e, over |-> out.finished \/ out.error]
  BY DEF Taken, Halted, Going
<1>4. q.d = out.state /\ q.c = e /\ q.over = (out.finished \/ out.error)
  BY <1>3
<1> HIDE DEF q, e
<1>5. CASE e.error # NoError
  <2>1. Halted(q)
    BY <1>4, <1>5 DEF Halted
  <2>2. Consume(at, q, t) = q
    BY <1>2, <2>1, ConsumeStuck
  <2>3. Gathered(at, q) = e
    BY <1>4, <1>5, GatheredStuck
  <2>4. Concludes(e, at.provider, at.response, whole)
    BY <1>1, <2>2, <2>3 DEF SoFar
  <2> QED BY <1>5, <2>4 DEF e
<1>6. CASE e.error = NoError /\ out.finished
  <2>1. Halted(q)
    BY <1>4, <1>6 DEF Halted
  <2>2. Consume(at, q, t) = q
    BY <1>2, <2>1, ConsumeStuck
  <2>3. at.provider # "gemini"
    <3> SUFFICES ASSUME at.provider = "gemini" PROVE FALSE
      OBVIOUS
    <3>1. out = GeminiEvent(d, Head(wire), at.step, at.response)
      BY DecodeOfGemini
    <3>3. \E x, y : out = Outcome(x, y)
      BY <3>1, Zenon DEF GeminiEvent
    <3>2. out.finished = FALSE
      BY <3>3 DEF Outcome
    <3> QED BY <1>6, <3>2
  <2>4. Gathered(at, q) = e
    BY <1>4, <2>3 DEF Gathered
  <2>5. Concludes(e, at.provider, at.response, whole)
    BY <1>1, <2>2, <2>4 DEF SoFar
  <2> QED BY <1>6, <2>5 DEF e
<1>7. CASE e.error = NoError /\ ~out.finished
  <2>1. q = Going(out.state, e)
    BY <1>3, <1>7 DEF Going
  <2>2. SoFar(at, out.state, e, t, whole)
    BY <1>1, <2>1 DEF SoFar
  <2> QED BY <1>7, <2>2 DEF e, t
<1> QED BY <1>5, <1>6, <1>7 DEF e

\* The end of the stream.
LEMMA SoFarEnds ==
  ASSUME NEW at, at.provider = "gemini", NEW d, NEW c, NEW whole, SoFar(at, d, c, << >>, whole)
  PROVE  Concludes(PushAll(c, AtEnd(at.provider, d, at.step, at.response).events),
                   at.provider, at.response, whole)
<1> DEFINE q == Going(d, c)
           none == << >>
<1>1. Consume(at, q, none) = q
  BY ConsumeNone
<1>2. q.d = d /\ q.c = c
  BY DEF Going
<1> HIDE DEF q, none
<1>3. Concludes(Gathered(at, q), at.provider, at.response, whole)
  BY <1>1 DEF SoFar, q, none
<1>4. Gathered(at, q) = PushAll(c, AtEnd(at.provider, d, at.step, at.response).events)
  BY <1>2 DEF Gathered
<1> QED BY <1>3, <1>4

\* The stream under way tells its response, or is to be refused.
StreamTells ==
  SoFar(At(provider, upstream.response, Step), decoder, collector, upstream.wire, upstream.whole)

\* The inductive invariant.  An error is recorded in a collector only as the run
\* ends with it; a stream that is not cut carries a whole response, and its
\* remaining events will tell it; when it is over the collector tells it.
AcceptInv ==
  /\ collector.error # NoError => pc = "ended" /\ (SharesItemIds \/ IsCut(upstream.response))
  /\ pc = "stream" => {"response", "whole", "wire"} \subseteq DOMAIN upstream
  /\ pc \in {"stream", "collected"} /\ ~IsCut(upstream.response) => Whole(upstream.response)
  /\ pc = "stream" /\ ~IsCut(upstream.response) => StreamTells
  /\ pc = "collected" /\ ~IsCut(upstream.response) =>
       Concludes(collector, provider, upstream.response, upstream.whole)

LEMMA EmptyHasNoError == EmptyCollector.error = NoError /\ EmptyCollector = Coll(<< >>)
  BY DEF EmptyCollector, Coll

\* Outside a stream nothing is refused.
LEMMA AcceptsOutside ==
  ASSUME pc' \notin {"stream", "collected"}, collector'.error = NoError
  PROVE  AcceptInv'
  BY DEF AcceptInv

LEMMA StreamLeavesAccept ==
  ASSUME AcceptInv, pc \in {"post", "stream"}, pc' \in {"post", "ended"}, UNCHANGED collector
  PROVE  AcceptInv'
<1>1. collector.error = NoError
  BY DEF AcceptInv
<1> QED BY <1>1, AcceptsOutside

LEMMA PostAnswersAccept ==
  ASSUME NEW r \in Responses, NEW whole \in BOOLEAN, TypeOK, StreamInv, PostAnswers(r, whole)
  PROVE  AcceptInv'
<1>1. /\ pc = "post" /\ pc' = "stream" /\ MayServe(provider, r)
      /\ upstream' = [response |-> r, whole |-> whole, wire |-> Wire(provider, r, whole)]
      /\ decoder' = StartOf(provider)
      /\ UNCHANGED <<provider, iteration, collector>>
  BY DEF PostAnswers
<1>2. /\ {"response", "whole", "wire"} \subseteq DOMAIN upstream'
      /\ upstream'.response = r /\ upstream'.whole = whole /\ upstream'.wire = Wire(provider, r, whole)
  BY <1>1
<1>3. collector = Coll(<< >>) /\ collector.error = NoError
  BY <1>1, EmptyHasNoError DEF StreamInv
<1>4. provider \in Adapters
  BY ProvidersAssumption DEF TypeOK
<1>5. ~IsCut(r) => Whole(r)
  BY ResponsesAssumption DEF Whole, IsResponse
<1>6. ASSUME ~IsCut(r) PROVE StreamTells'
  <2>1. SoFar(At(provider, r, Step), StartOf(provider), Coll(<< >>), Wire(provider, r, whole), whole)
    BY <1>1, <1>4, <1>5, <1>6, AdapterConcludes
  <2>2. Step' = Step
    BY <1>1 DEF Step
  <2> QED BY <1>1, <1>2, <1>3, <2>1, <2>2 DEF StreamTells
<1> QED BY <1>1, <1>2, <1>3, <1>5, <1>6 DEF AcceptInv

\* A response that is told is not refused.
LEMMA ConcludesWell ==
  ASSUME NEW c, NEW p, NEW r, NEW whole, Concludes(c, p, r, whole), ~Shares(p, r, whole)
  PROVE  Tells(c, r) /\ c.error = NoError
  BY DEF Concludes, Tells

\* What the decoder yields, when all that follows is as the stream promises.
LEMMA YieldAccepts ==
  ASSUME NEW out, NEW wire, AcceptInv, pc = "stream", Yield(out, wire),
         LET e == PushAll(collector, out.events)
             r == upstream.response
         IN ~IsCut(r) =>
              IF e.error # NoError \/ out.finished
              THEN Concludes(e, provider, r, upstream.whole)
              ELSE SoFar(At(provider, r, Step), out.state, e, wire, upstream.whole)
  PROVE  AcceptInv'
<1> DEFINE e == PushAll(collector, out.events)
           r == upstream.response
<1>0. /\ {"response", "whole", "wire"} \subseteq DOMAIN upstream
      /\ ~IsCut(r) => Whole(r)
  BY DEF AcceptInv
<1>1. CASE e.error # NoError
  <2>1. /\ collector' = e /\ pc' = "ended" /\ UNCHANGED <<provider, upstream>>
    BY <1>1 DEF Yield
  <2>2. IsCut(r) \/ SharesItemIds
    <3> SUFFICES ASSUME ~IsCut(r) PROVE SharesItemIds
      OBVIOUS
    <3>1. Concludes(e, provider, r, upstream.whole)
      BY <1>1
    <3> HIDE DEF e
    <3>2. Shares(provider, r, upstream.whole)
      BY <1>1, <3>1, ConcludesWell
    <3> QED BY <3>2 DEF Shares, SharesItemIds
  <2>3. SharesItemIds' <=> SharesItemIds
    BY <2>1 DEF SharesItemIds
  <2> QED BY <2>1, <2>2, <2>3 DEF AcceptInv
<1>2. CASE e.error = NoError
  <2>1. /\ collector' = e /\ upstream' = [upstream EXCEPT !.wire = wire] /\ decoder' = out.state
        /\ pc' = (IF out.finished THEN "collected" ELSE pc)
        /\ UNCHANGED <<provider, iteration>>
    BY <1>2 DEF Yield
  <2>2. /\ upstream'.response = r /\ upstream'.whole = upstream.whole /\ upstream'.wire = wire
        /\ {"response", "whole", "wire"} \subseteq DOMAIN upstream'
    BY <1>0, <2>1
  <2>3. Step' = Step
    BY <2>1 DEF Step
  <2>4. CASE out.finished
    <3>1. ~IsCut(r) => Concludes(e, provider, r, upstream.whole)
      BY <2>4
    <3> HIDE DEF e, r
    <3> QED BY <1>0, <1>2, <2>1, <2>2, <2>4, <3>1 DEF AcceptInv
  <2>5. CASE ~out.finished
    <3>1. ~IsCut(r) => SoFar(At(provider, r, Step), out.state, e, wire, upstream.whole)
      BY <1>2, <2>5
    <3> HIDE DEF e, r
    <3>2. ~IsCut(r) => StreamTells'
      BY <2>1, <2>2, <2>3, <3>1 DEF StreamTells
    <3> QED BY <1>0, <1>2, <2>1, <2>2, <2>5, <3>2 DEF AcceptInv
  <2> QED BY <2>4, <2>5
<1> QED BY <1>1, <1>2

LEMMA ReceiveAccepts ==
  ASSUME StreamInv, AcceptInv, Receive
  PROVE  AcceptInv'
<1> DEFINE r == upstream.response
           at == At(provider, r, Step)
           out == Decode(provider, decoder, Head(upstream.wire), Step, r)
           t == Tail(upstream.wire)
<1>1. /\ pc = "stream" /\ upstream.wire # << >>
      /\ (IF out.error THEN StreamFails("Permanent") ELSE Yield(out, t))
  BY DEF Receive
<1>2. CASE out.error
  <2>1. StreamFails("Permanent")
    BY <1>1, <1>2
  <2>2. pc' \in {"post", "ended"} /\ UNCHANGED collector
    BY <2>1 DEF StreamFails, StreamRetries, RunErrs
  <2> QED BY <1>1, <2>2, StreamLeavesAccept
<1>3. CASE ~out.error
  <2>1. Yield(out, t)
    BY <1>1, <1>3
  <2>2. at.provider = provider /\ at.response = r /\ at.step = Step
    BY AtFields
  <2>3. IsSeq(upstream.wire) /\ collector.error = NoError
    BY <1>1 DEF StreamInv, Streaming, Decoding, AcceptInv
  <2>4. out = Decode(at.provider, decoder, Head(upstream.wire), at.step, at.response)
    BY <2>2
  <2>5. ~IsCut(r) => SoFar(at, decoder, collector, upstream.wire, upstream.whole)
    BY <1>1 DEF AcceptInv, StreamTells
  <2> HIDE DEF out, at, t, r
  <2>6. ASSUME ~IsCut(r)
        PROVE  LET e == PushAll(collector, out.events)
               IN IF e.error # NoError \/ out.finished
                  THEN Concludes(e, at.provider, at.response, upstream.whole)
                  ELSE SoFar(at, out.state, e, Tail(upstream.wire), upstream.whole)
    BY <1>1, <1>3, <2>3, <2>4, <2>5, <2>6, SoFarGoesOn
  <2>7. LET e == PushAll(collector, out.events)
        IN ~IsCut(r) =>
             IF e.error # NoError \/ out.finished
             THEN Concludes(e, provider, r, upstream.whole)
             ELSE SoFar(at, out.state, e, t, upstream.whole)
    BY <2>2, <2>6 DEF t
  <2> QED BY <1>1, <2>1, <2>7, YieldAccepts DEF at, r
<1> QED BY <1>2, <1>3

LEMMA StreamEndsAccepts ==
  ASSUME StreamInv, AcceptInv, StreamEnds
  PROVE  AcceptInv'
<1> DEFINE r == upstream.response
           at == At(provider, r, Step)
           out == AtEnd(provider, decoder, Step, r)
<1>1. /\ pc = "stream" /\ upstream.wire = << >>
      /\ (IF out.error THEN StreamFails("Permanent") ELSE Yield(out, << >>))
  BY DEF StreamEnds
<1>2. CASE out.error
  <2>1. StreamFails("Permanent")
    BY <1>1, <1>2
  <2>2. pc' \in {"post", "ended"} /\ UNCHANGED collector
    BY <2>1 DEF StreamFails, StreamRetries, RunErrs
  <2> QED BY <1>1, <2>2, StreamLeavesAccept
<1>3. CASE ~out.error
  <2>1. Yield(out, << >>)
    BY <1>1, <1>3
  <2>2. at.provider = provider /\ at.response = r /\ at.step = Step
    BY AtFields
  <2>3. provider = "gemini" /\ out.finished
    BY <1>3 DEF AtEnd, Broken, GeminiEnd, Over, Outcome
  <2>4. ~IsCut(r) => SoFar(at, decoder, collector, << >>, upstream.whole)
    BY <1>1 DEF AcceptInv, StreamTells
  <2>5. out = AtEnd(at.provider, decoder, at.step, at.response)
    BY <2>2
  <2> DEFINE none == << >>
  <2> HIDE DEF out, at, r
  <2>6. ~IsCut(r) => Concludes(PushAll(collector, out.events), at.provider, at.response, upstream.whole)
    BY <2>2, <2>3, <2>4, <2>5, SoFarEnds
  <2>7. LET e == PushAll(collector, out.events)
        IN ~IsCut(r) =>
             IF e.error # NoError \/ out.finished
             THEN Concludes(e, provider, r, upstream.whole)
             ELSE SoFar(at, out.state, e, none, upstream.whole)
    BY <2>2, <2>3, <2>6
  <2>8. Yield(out, none)
    BY <2>1
  <2> HIDE DEF none
  <2> QED BY <1>1, <2>7, <2>8, YieldAccepts DEF at, r
<1> QED BY <1>2, <1>3

LEMMA NextAccepts == ASSUME RunInv, AcceptInv, Next PROVE AcceptInv'
<1>0. TypeOK /\ StreamInv
  BY DEF RunInv, IInv
<1>a. pc # "ended" => collector.error = NoError
  BY DEF AcceptInv
<1>1. CASE StartStep
  <2>1. pc' = "post" /\ collector' = EmptyCollector
    BY <1>1 DEF StartStep
  <2> QED BY <2>1, AcceptsOutside, EmptyHasNoError
<1>2. ASSUME NEW class \in ErrorClasses, PostFails(class) \/ StreamBreaks(class) PROVE AcceptInv'
  <2>1. pc \in {"post", "stream"} /\ pc' \in {"post", "ended"} /\ UNCHANGED collector
    BY <1>2 DEF PostFails, StreamBreaks, RetryPost, StreamFails, StreamRetries, RunErrs
  <2> QED BY <2>1, StreamLeavesAccept
<1>3. ASSUME NEW r \in Responses, NEW whole \in BOOLEAN, PostAnswers(r, whole) PROVE AcceptInv'
  BY <1>0, <1>3, PostAnswersAccept
<1>4. CASE Receive
  BY <1>0, <1>4, ReceiveAccepts
<1>5. CASE StreamEnds
  BY <1>0, <1>5, StreamEndsAccepts
<1>6. CASE DeadlinePasses \/ StepRefused \/ FinalStep \/ ContinueStep \/ ClientToolsStep
           \/ ToolsFinish \/ LimitReached
  <2>1. pc # "ended" /\ pc' \in {"head", "tools", "ended"} /\ UNCHANGED collector
    BY <1>6
    DEF DeadlinePasses, StepRefused, RunErrs, FinalStep, ContinueStep, ClientToolsStep, ToolsFinish,
        LimitReached, StepReady, request
  <2> QED BY <1>a, <2>1, AcceptsOutside
<1>7. ASSUME NEW k \in DOMAIN running, NEW result \in {"ok", "error"}, ToolReturns(k, result)
      PROVE  AcceptInv'
  <2>1. pc = "tools" /\ pc' = "tools" /\ UNCHANGED collector
    BY <1>7 DEF ToolReturns, request
  <2> QED BY <1>a, <2>1, AcceptsOutside
<1>8. CASE pc = "ended" /\ UNCHANGED vars
  <2>1. pc = "ended" /\ UNCHANGED <<pc, provider, upstream, collector>>
    BY <1>8 DEF vars, request
  <2> QED BY <2>1 DEF AcceptInv, SharesItemIds
<1> QED BY <1>1, <1>2, <1>3, <1>4, <1>5, <1>6, <1>7, <1>8 DEF Next

LEMMA StutterAccepts == ASSUME AcceptInv, UNCHANGED vars PROVE AcceptInv'
<1>1. UNCHANGED <<pc, iteration, provider, upstream, decoder, collector>>
  BY DEF vars, request
<1> QED BY <1>1 DEF AcceptInv, SharesItemIds, StreamTells, Step

\* The inductive invariant of what the collector makes of a response.
THEOREM AcceptInvHolds == Spec => []AcceptInv
<1>1. Init => AcceptInv
  BY EmptyHasNoError DEF Init, AcceptInv
<1>2. RunInv /\ AcceptInv /\ [Next]_vars => AcceptInv'
  BY NextAccepts, StutterAccepts
<1> QED BY <1>1, <1>2, RunInvHolds, PTL DEF Spec

\* A response that the token limit did not cut is refused by the collector
\* only if it is Gemini's and streams its calls in chunks of their own.
LEMMA CollectedTells ==
  ASSUME AcceptInv, pc = "collected", ~IsCut(upstream.response)
  PROVE  /\ Whole(upstream.response)
         /\ \/ FinishError(collector) # NoError /\ SharesItemIds
            \/ FinishError(collector) = NoError /\ Tells(collector, upstream.response)
<1> DEFINE r == upstream.response
<1>1. /\ Whole(r) /\ collector.error = NoError
      /\ Concludes(collector, provider, r, upstream.whole)
  BY DEF AcceptInv
<1>2. CASE Shares(provider, r, upstream.whole)
  <2>1. Rejected(collector)
    BY <1>1, <1>2 DEF Concludes
  <2>2. SharesItemIds
    BY <1>2 DEF Shares, SharesItemIds
  <2> QED BY <1>1, <2>1, <2>2 DEF Rejected
<1>3. CASE ~Shares(provider, r, upstream.whole)
  <2>1. Tells(collector, r)
    BY <1>1, <1>3 DEF Concludes
  <2>2. FinishError(collector) = NoError
    BY <2>1, FinishAccepts DEF Tells
  <2> QED BY <1>1, <2>1, <2>2
<1> QED BY <1>2, <1>3

\* The collector refuses a step only if the token limit cut its response, or if
\* Gemini streamed two calls of it in chunks of their own, which share an item id
\* (ModelStepCollector, push and finish).
THEOREM AcceptanceHolds == Spec => []ResponsesAreAccepted
<1>1. AcceptInv => ResponsesAreAccepted
  <2>1. ASSUME AcceptInv, collector.error # NoError PROVE SharesItemIds \/ IsCut(upstream.response)
    BY <2>1 DEF AcceptInv
  <2>2. ASSUME AcceptInv, pc = "collected", FinishError(collector) # NoError
        PROVE  SharesItemIds \/ IsCut(upstream.response)
    BY <2>2, CollectedTells
  <2> QED BY <2>1, <2>2 DEF ResponsesAreAccepted, Refused
<1> QED BY <1>1, AcceptInvHolds, PTL

LEMMA CollectedIsResponse ==
  ASSUME AcceptInv
  PROVE  StepIsOneResponse
<1> SUFFICES ASSUME pc = "collected", FinishError(collector) = NoError, ~IsCut(upstream.response)
             PROVE  /\ TextIn(Collected) = TextOf(upstream.response)
                    /\ Len(Calls) = Len(Of(upstream.response, "call"))
                    /\ \A k \in DOMAIN CallsCollected :
                         Count(CallsCollected, CallsCollected[k])
                           = Count(CallsSent(upstream.response), CallsCollected[k])
  BY DEF StepIsOneResponse
<1> DEFINE r == upstream.response
           c == collector
           blocks == CallsIn(TranscriptBlocks(StepOf(c)))
<1>1. Whole(r) /\ Tells(c, r)
  BY CollectedTells
<1>2. PICK p, step, calls : /\ Holds(p, TextOf(r), calls) /\ c.slots = Append(p, Usage(step))
                            /\ Same(calls, CallsSent(r))
  BY <1>1 DEF Tells
<1>3. /\ TextIn(StepOf(c)) = TextOf(r)
      /\ IsSeq(blocks) /\ Len(blocks) = Len(calls)
      /\ [k \in DOMAIN blocks |-> [name |-> blocks[k].name, input |-> blocks[k].data]] = calls
  BY <1>2, StepTells
<1>4. Collected = StepOf(c) /\ Calls = blocks
  BY DEF Collected, Calls
<1>5. CallsCollected = calls
  BY <1>3, <1>4 DEF CallsCollected
<1>6. Len(calls) = Len(CallsSent(r)) /\ \A x : Count(calls, x) = Count(CallsSent(r), x)
  BY <1>2 DEF Same
<1>7. Len(CallsSent(r)) = Len(Of(r, "call"))
  BY <1>1, ResponseTells
<1> HIDE DEF r, c, blocks
<1>8. Len(Calls) = Len(Of(r, "call"))
  BY <1>3, <1>4, <1>6, <1>7
<1> QED BY <1>3, <1>4, <1>5, <1>6, <1>8 DEF r

\* A step that is collected from a response that the token limit did not cut is
\* that response: its text, in its order, and its calls, each as often as it was
\* sent, whether the adapter streamed an item, sent it whole, or both.
THEOREM StepsAreResponses == Spec => []StepIsOneResponse
  BY CollectedIsResponse, AcceptInvHolds, PTL

===============================================================================
