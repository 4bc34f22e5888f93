--------------------------- MODULE Movie_proofs ---------------------------
(***************************************************************************)
(* A movie, of any number of frames and any interleaving of its streams,   *)
(* any delay of the decoder and any bounds on the queues and the stores.   *)
(*                                                                         *)
(* The invariant has four parts.  Control says where the threads are, and  *)
(* that the frame of the video thread is never further than one step from  *)
(* the frame that is shown; what is read, queued and stored plays no part  *)
(* in it.  Data gives the types, and that the segments of both queues are  *)
(* closed.  Order says that, forwards, the pictures that are queued follow *)
(* one another up to the last one that was read, which is the frame that   *)
(* the decode thread expects.  Room bounds the pictures that are stored.   *)
(*                                                                         *)
(* The loops of the code are recursive functions of the model.  What they  *)
(* compute is shown by induction on the number of their turns, from the    *)
(* well-foundedness of < on the natural numbers.                           *)
(***************************************************************************)
EXTENDS Movie, TLAPS, WellFoundedInduction

-----------------------------------------------------------------------------
(***************************************************************************)
(* Induction over the numbers that the loops of the model count            *)
(***************************************************************************)

\* A set with zero in it, and the successor of each of its numbers, has every number: the
\* well-foundedness of < on the naturals, said of a set.
LEMMA SetInduction ==
  ASSUME NEW S, 0 \in S, \A n \in Nat : n \in S => n + 1 \in S
  PROVE  Nat \subseteq S
<1> DEFINE R == {ss \in Nat \X Nat : ss[1] < ss[2]}
           T == Nat \ S
<1>1. IsWellFoundedOn(R, Nat)
  BY NatLessThanWellFounded DEF OpToRel
<1>2. SUFFICES ASSUME T # {} PROVE FALSE
  OBVIOUS
<1>3. PICK x \in T : \A y \in T : ~(<<y, x>> \in R)
  <2> HIDE DEF R, T
  <2>1. T \subseteq Nat BY DEF T
  <2> QED BY <1>1, <1>2, <2>1, WFMin
<1>4. x \in Nat /\ x \notin S
  BY <1>3
<1>5. x # 0
  BY <1>4
<1>6. x - 1 \in Nat /\ x - 1 + 1 = x /\ x - 1 < x
  BY <1>4, <1>5
<1>7. <<x - 1, x>> \in R
  BY <1>4, <1>6
<1>8. x - 1 \notin T
  <2> HIDE DEF R, T
  <2> QED BY <1>3, <1>7
<1>9. x - 1 \in S
  BY <1>6, <1>8
<1>10. QED
  BY <1>4, <1>6, <1>9

\* Min and Max of two integers.
LEMMA MinOf ==
  ASSUME NEW a \in Int, NEW b \in Int
  PROVE  Min({a, b}) = IF a <= b THEN a ELSE b
BY DEF Min

\* The maximum of two numbers, as CHOOSE gives it.
LEMMA MaxOf ==
  ASSUME NEW a \in Int, NEW b \in Int
  PROVE  Max({a, b}) = IF a >= b THEN a ELSE b
BY DEF Max

\* Min of a set of naturals is one of them, and no other is less.
LEMMA LeastOf ==
  ASSUME NEW T, T \subseteq Nat, T # {}
  PROVE  Min(T) \in T /\ \A y \in T : Min(T) <= y
<1> DEFINE R == {ss \in Nat \X Nat : ss[1] < ss[2]}
<1>1. IsWellFoundedOn(R, Nat)
  BY NatLessThanWellFounded DEF OpToRel
<1>2. PICK x \in T : \A y \in T : ~(<<y, x>> \in R)
  <2> HIDE DEF R
  <2> QED BY <1>1, WFMin
<1>3. \A y \in T : x <= y
  <2> TAKE y \in T
  <2>1. ~(<<y, x>> \in R) /\ y \in Nat /\ x \in Nat
    BY <1>2
  <2> QED BY <2>1
<1> HIDE DEF R
<1>4. QED
  BY <1>2, <1>3 DEF Min

\* Induction from lo to n.
LEMMA IntervalInduction ==
  ASSUME NEW lo \in Int, NEW n \in Int, NEW S,
         lo <= n => lo \in S, \A i \in (lo + 1)..n : i - 1 \in S => i \in S
  PROVE  lo..n \subseteq S
<1> DEFINE T == {k \in Nat : lo + k <= n => lo + k \in S}
<1>1. 0 \in T
  OBVIOUS
<1>2. ASSUME NEW k \in Nat, k \in T PROVE k + 1 \in T
  <2>1. CASE lo + (k + 1) <= n
    <3>1. lo + k + 1 \in (lo + 1)..n /\ lo + k + 1 - 1 = lo + k /\ lo + k \in S
      BY <1>2, <2>1
    <3>2. lo + k + 1 \in S
      BY <3>1
    <3>3. lo + k + 1 = lo + (k + 1)
      OBVIOUS
    <3> QED BY <3>2, <3>3
  <2> QED BY <2>1
<1>3. Nat \subseteq T
  <2> HIDE DEF T
  <2> QED BY <1>1, <1>2, SetInduction
<1>4. ASSUME NEW i \in lo..n PROVE i \in S
  <2>1. i - lo \in T
    BY <1>3
  <2>2. lo + (i - lo) = i
    OBVIOUS
  <2> QED BY <2>1, <2>2
<1>5. QED
  BY <1>4

\* f is the function on lo..n that is base at lo, and goes on by step from there.
Follows(f, lo, n, V, base, step) ==
  /\ f \in [lo..n -> V]
  /\ lo <= n => f[lo] = base
  /\ \A i \in (lo + 1)..n : f[i] = step[<<i, f[i - 1]>>]

\* There is a function defined by recursion from lo to n.
LEMMA Recursion ==
  ASSUME NEW lo \in Int, NEW n \in Int, NEW V, NEW base \in V, NEW step \in [Int \X V -> V]
  PROVE  \E f : Follows(f, lo, n, V, base, step)
<1> DEFINE S == {k \in Nat : \E f : Follows(f, lo, lo + k, V, base, step)}
<1>1. 0 \in S
  <2>1. Follows([i \in lo..lo |-> base], lo, lo + 0, V, base, step)
    BY DEF Follows
  <2> QED BY <2>1
<1>2. ASSUME NEW k \in Nat, k \in S PROVE k + 1 \in S
  <2>1. PICK f : Follows(f, lo, lo + k, V, base, step)
    BY <1>2
  <2> DEFINE m == lo + (k + 1)
             last == step[<<m, f[m - 1]>>]
             g == [i \in lo..m |-> IF i = m THEN last ELSE f[i]]
  <2>2. /\ f \in [lo..(lo + k) -> V] /\ f[lo] = base
        /\ \A i \in (lo + 1)..(lo + k) : f[i] = step[<<i, f[i - 1]>>]
    BY <2>1 DEF Follows
  <2>3. m \in Int /\ m - 1 = lo + k /\ m - 1 \in lo..(lo + k) /\ lo # m /\ lo \in lo..m
    OBVIOUS
  <2>4. last \in V
    BY <2>2, <2>3
  <2>5. g \in [lo..m -> V] /\ g[m] = last /\ \A i \in lo..m : i # m => g[i] = f[i]
    <3> HIDE DEF last
    <3>1. \A i \in lo..m : i # m => i \in lo..(lo + k)
      BY <2>3
    <3>2. m \in lo..m
      BY <2>3
    <3> HIDE DEF m
    <3> QED BY <2>2, <2>4, <3>1, <3>2
  <2>6. ASSUME NEW i \in (lo + 1)..m PROVE g[i] = step[<<i, g[i - 1]>>]
    <3>1. i \in lo..m /\ i - 1 \in lo..m /\ i - 1 # m
      BY <2>3
    <3>2. g[i - 1] = f[i - 1]
      BY <2>5, <3>1
    <3>3. CASE i = m
      <4> HIDE DEF g, m
      <4> QED BY <2>5, <3>2, <3>3
    <3>4. CASE i # m
      <4>1. i \in (lo + 1)..(lo + k)
        BY <3>4
      <4> HIDE DEF g, m
      <4> QED BY <2>2, <2>5, <3>1, <3>2, <3>4, <4>1
    <3> QED BY <3>3, <3>4
  <2> HIDE DEF g
  <2>7. g[lo] = base
    BY <2>2, <2>3, <2>5
  <2>8. Follows(g, lo, lo + (k + 1), V, base, step)
    BY <2>5, <2>6, <2>7 DEF Follows
  <2> QED BY <2>8
<1>3. Nat \subseteq S
  <2> HIDE DEF S
  <2> QED BY <1>1, <1>2, SetInduction
<1>4. CASE lo <= n
  <2>1. n - lo \in S /\ lo + (n - lo) = n
    <3> HIDE DEF S
    <3> QED BY <1>3, <1>4
  <2> QED BY <2>1
<1>5. CASE ~(lo <= n)
  <2>1. lo..n = {} /\ (lo + 1)..n = {}
    BY <1>5
  <2>2. Follows([i \in {} |-> base], lo, n, V, base, step)
    BY <1>5, <2>1 DEF Follows
  <2> QED BY <2>2
<1>6. QED
  BY <1>4, <1>5

\* Max of a set of naturals that are not past n is one of them, and no other is greater.
LEMMA GreatestOf ==
  ASSUME NEW n \in Nat, NEW T, T \subseteq 0..n, T # {}
  PROVE  Max(T) \in T /\ \A y \in T : y <= Max(T)
<1> DEFINE D == {d \in Nat : \E y \in T : d = n - y}
<1>1. D # {} /\ D \subseteq Nat
  <2>1. PICK y \in T : TRUE
    OBVIOUS
  <2>2. y \in 0..n /\ n - y \in Nat
    BY <2>1
  <2>3. n - y \in D
    BY <2>2
  <2> QED BY <2>3
<1>2. Min(D) \in D /\ \A d \in D : Min(D) <= d
  <2> HIDE DEF D
  <2> QED BY <1>1, LeastOf
<1>3. PICK x \in T : Min(D) = n - x
  BY <1>2
<1>4. \A y \in T : y <= x
  <2> TAKE y \in T
  <2>1. n - y \in D
    OBVIOUS
  <2>2. n - x <= n - y
    BY <1>2, <1>3, <2>1
  <2> QED BY <2>2
<1> HIDE DEF D
<1>5. QED
  BY <1>3, <1>4 DEF Max

\* A sequence of elements of V, longer by one.
LEMMA AppendIs ==
  ASSUME NEW V, NEW s \in Seq(V), NEW x \in V
  PROVE  /\ Append(s, x) \in Seq(V) /\ Len(Append(s, x)) = Len(s) + 1
         /\ \A i \in 1..Len(s) : Append(s, x)[i] = s[i]
         /\ Append(s, x)[Len(s) + 1] = x
         /\ s \o <<x>> = Append(s, x) /\ s \o <<>> = s
OBVIOUS

\* Only() keeps elements of a sequence, and makes no longer one of it.
LEMMA OnlyIs ==
  ASSUME NEW V, NEW s \in Seq(V), NEW K
  PROVE  Only(s, K) \in Seq(V) /\ Len(Only(s, K)) <= Len(s)
<1> DEFINE n == Len(s)
           step == [x \in Int \X Seq(V) |->
                      IF x[1] \in 1..n THEN IF s[x[1]] \in K THEN Append(x[2], s[x[1]]) ELSE x[2]
                      ELSE <<>>]
           Of(f) == [i \in 0..n |-> IF i = 0 THEN <<>>
                                    ELSE IF s[i] \in K THEN Append(f[i - 1], s[i]) ELSE f[i - 1]]
<1>1. n \in Nat /\ n \in Int /\ 0 \in Int /\ 0 <= n /\ \A i \in 1..n : s[i] \in V
  OBVIOUS
<1>2. <<>> \in Seq(V)
  OBVIOUS
<1>3. step \in [Int \X Seq(V) -> Seq(V)]
  BY <1>1
<1>4. PICK f : Follows(f, 0, n, Seq(V), <<>>, step)
  <2> HIDE DEF step, n
  <2> QED BY <1>1, <1>2, <1>3, Recursion, Zenon
<1>5. f \in [0..n -> Seq(V)] /\ f[0] = <<>>
  BY <1>1, <1>4 DEF Follows
<1>6. ASSUME NEW i \in 1..n
      PROVE  f[i] = IF s[i] \in K THEN Append(f[i - 1], s[i]) ELSE f[i - 1]
  <2>1. i \in (0 + 1)..n /\ i - 1 \in 0..n /\ i \in Int
    BY <1>1
  <2>2. f[i - 1] \in Seq(V)
    BY <1>5, <2>1
  <2>3. f[i] = step[<<i, f[i - 1]>>]
    BY <1>4, <2>1 DEF Follows
  <2> QED BY <2>1, <2>2, <2>3
<1> HIDE DEF step
<1>7. f = Of(f)
  <2>1. ASSUME NEW i \in 0..n PROVE f[i] = Of(f)[i]
    <3>1. CASE i = 0
      BY <1>5, <3>1
    <3>2. CASE i # 0
      <4>1. i \in 1..n
        BY <1>1, <3>2
      <4>2. Of(f)[i] = IF s[i] \in K THEN Append(f[i - 1], s[i]) ELSE f[i - 1]
        BY <1>1, <3>2
      <4> QED BY <1>6, <4>1, <4>2
    <3> QED BY <3>1, <3>2
  <2>2. f = [i \in 0..n |-> f[i]] /\ Of(f) = [i \in 0..n |-> Of(f)[i]]
    BY <1>5
  <2> HIDE DEF Of, n
  <2> QED BY <2>1, <2>2
<1>8. PICK g : g = Of(g) /\ Only(s, K) = g[n]
  <2> DEFINE h == CHOOSE g : g = Of(g)
  <2>1. h = Of(h)
    <3> HIDE DEF Of
    <3> QED BY <1>7
  <2>2. Only(s, K) = h[n]
    <3>1. Only(s, K) = Kept(s, K)
      BY DEF Only, Strictly
    <3> QED BY <3>1 DEF Kept
  <2> QED BY <2>1, <2>2
<1> DEFINE S == {i \in 0..n : g[i] \in Seq(V) /\ Len(g[i]) <= i}
<1>9. 0..n \subseteq S
  <2>1. 0 <= n => 0 \in S
    BY <1>1, <1>8
  <2>2. ASSUME NEW i \in (0 + 1)..n, i - 1 \in S PROVE i \in S
    <3>1. i \in 0..n /\ i # 0 /\ s[i] \in V
      BY <1>1
    <3>2. g[i] = IF s[i] \in K THEN Append(g[i - 1], s[i]) ELSE g[i - 1]
      BY <1>8, <3>1
    <3>3. g[i - 1] \in Seq(V) /\ Len(g[i - 1]) <= i - 1
      BY <2>2
    <3> HIDE DEF Of
    <3>4. g[i] \in Seq(V) /\ Len(g[i]) <= i
      <4> PICK t \in Seq(V) : t = g[i - 1]
        BY <3>3
      <4>1. Len(t) <= i - 1 /\ Len(t) \in Nat
        BY <3>3
      <4>2. Append(t, s[i]) \in Seq(V) /\ Len(Append(t, s[i])) = Len(t) + 1
        BY <3>1
      <4>3. CASE s[i] \in K
        BY <3>2, <4>1, <4>2, <4>3
      <4>4. CASE s[i] \notin K
        BY <3>2, <4>1, <4>4
      <4> QED BY <4>3, <4>4
    <3> QED BY <3>1, <3>4
  <2> HIDE DEF S, n, Of
  <2> QED BY <1>1, <2>1, <2>2, IntervalInduction
<1>10. QED
  BY <1>1, <1>8, <1>9

-----------------------------------------------------------------------------
(***************************************************************************)
(* The recursive functions of the model: each is a sequence of its steps   *)
(***************************************************************************)

\* StoredAll() stores one after the other.
LEMMA StoredAllIs ==
  ASSUME NEW V, NEW s \in V, NEW T, NEW fs \in Seq(T), \A x \in V, y \in T : Stored(x, y) \in V
  PROVE  \E g : /\ StoredAll(s, fs) = g[Len(fs)] /\ g[0] = s
                /\ \A i \in 1..(Len(fs)) : g[i] = Stored(g[i - 1], fs[i])
                /\ \A i \in 0..(Len(fs)) : g[i] \in V
<1> DEFINE n == Len(fs)
           step == [x \in Int \X V |-> IF x[1] \in 1..n THEN Stored(x[2], fs[x[1]]) ELSE s]
           Of(f) == [i \in 0..n |-> IF i = 0 THEN s ELSE Stored(f[i - 1], fs[i])]
           StrictlyOf(f) == [i \in 0..n |-> IF i = 0 THEN s ELSE Strictly(LAMBDA v : Stored(v, fs[i]), f[i - 1])]
<1>1. n \in Nat /\ n \in Int /\ 0 \in Int /\ 0 <= n /\ \A i \in 1..n : fs[i] \in T
  OBVIOUS
<1>2. step \in [Int \X V -> V]
  BY <1>1
<1>3. PICK f : Follows(f, 0, n, V, s, step)
  <2> HIDE DEF step, n
  <2> QED BY <1>1, <1>2, Recursion, Zenon
<1>4. f \in [0..n -> V] /\ f[0] = s
  BY <1>1, <1>3 DEF Follows
<1>5. ASSUME NEW i \in 1..n PROVE f[i] = Stored(f[i - 1], fs[i])
  <2>1. i \in (0 + 1)..n /\ i - 1 \in 0..n /\ i \in Int
    BY <1>1
  <2>2. f[i - 1] \in V
    BY <1>4, <2>1
  <2>3. f[i] = step[<<i, f[i - 1]>>]
    BY <1>3, <2>1 DEF Follows
  <2> QED BY <2>1, <2>2, <2>3
<1> HIDE DEF step
<1>6. f = Of(f)
  <2>1. ASSUME NEW i \in 0..n PROVE f[i] = Of(f)[i]
    <3>1. CASE i = 0
      BY <1>4, <3>1
    <3>2. CASE i # 0
      <4>1. i \in 1..n
        BY <1>1, <3>2
      <4>2. Of(f)[i] = Stored(f[i - 1], fs[i])
        BY <1>1, <3>2
      <4> QED BY <1>5, <4>1, <4>2
    <3> QED BY <3>1, <3>2
  <2>2. f = [i \in 0..n |-> f[i]] /\ Of(f) = [i \in 0..n |-> Of(f)[i]]
    BY <1>4
  <2> HIDE DEF Of, n
  <2> QED BY <2>1, <2>2
<1>7. ASSUME NEW g PROVE StrictlyOf(g) = Of(g)
  <2>1. ASSUME NEW i \in 0..n
        PROVE  Strictly(LAMBDA v : Stored(v, fs[i]), g[i - 1]) = Stored(g[i - 1], fs[i])
    BY DEF Strictly
  <2> HIDE DEF n
  <2> QED BY <2>1
<1>8. PICK g : g = Of(g) /\ StoredAll(s, fs) = g[n]
  <2> DEFINE h == CHOOSE g : g = StrictlyOf(g)
  <2>1. h = StrictlyOf(h)
    <3>1. f = StrictlyOf(f)
      <4> HIDE DEF Of, StrictlyOf
      <4> QED BY <1>6, <1>7
    <3> HIDE DEF Of, StrictlyOf
    <3> QED BY <3>1
  <2>2. StoredAll(s, fs) = h[n]
    BY DEF StoredAll
  <2> HIDE DEF Of, StrictlyOf, h
  <2> QED BY <1>7, <2>1, <2>2
<1>9. g[0] = s /\ \A i \in 1..n : g[i] = Stored(g[i - 1], fs[i])
  BY <1>1, <1>8
<1> DEFINE S == {i \in 0..n : g[i] \in V}
<1>10. 0..n \subseteq S
  <2>1. 0 <= n => 0 \in S
    BY <1>1, <1>9
  <2>2. ASSUME NEW i \in (0 + 1)..n, i - 1 \in S PROVE i \in S
    <3>1. i \in 0..n /\ i \in 1..n /\ g[i - 1] \in V
      BY <1>1, <2>2
    <3> HIDE DEF n
    <3>2. g[i] \in V
      BY <1>1, <1>9, <3>1
    <3> QED BY <3>1, <3>2
  <2> HIDE DEF S, n, Of, StrictlyOf
  <2> QED BY <1>1, <2>1, <2>2, IntervalInduction
<1>11. \A i \in 0..n : g[i] \in V
  BY <1>10
<1> HIDE DEF Of, StrictlyOf
<1>12. QED
  BY <1>8, <1>9, <1>11

\* SegmentDecoded() decodes one after the other.
LEMMA SegmentDecodedIs ==
  ASSUME NEW V, NEW d \in V, NEW T, NEW seg \in Seq(T), NEW a, NEW b, \A x \in V, y \in T : SegmentOk(x, y, a, b) \in V
  PROVE  \E g : /\ SegmentDecoded(d, seg, a, b) = g[Len(seg)] /\ g[0] = d
                /\ \A i \in 1..(Len(seg)) : g[i] = SegmentOk(g[i - 1], seg[i], a, b)
                /\ \A i \in 0..(Len(seg)) : g[i] \in V
<1> DEFINE n == Len(seg)
           step == [x \in Int \X V |-> IF x[1] \in 1..n THEN SegmentOk(x[2], seg[x[1]], a, b) ELSE d]
           Of(f) == [i \in 0..n |-> IF i = 0 THEN d ELSE SegmentOk(f[i - 1], seg[i], a, b)]
           StrictlyOf(f) == [i \in 0..n |-> IF i = 0 THEN d ELSE Strictly(LAMBDA v : SegmentOk(v, seg[i], a, b), f[i - 1])]
<1>1. n \in Nat /\ n \in Int /\ 0 \in Int /\ 0 <= n /\ \A i \in 1..n : seg[i] \in T
  OBVIOUS
<1>2. step \in [Int \X V -> V]
  BY <1>1
<1>3. PICK f : Follows(f, 0, n, V, d, step)
  <2> HIDE DEF step, n
  <2> QED BY <1>1, <1>2, Recursion, Zenon
<1>4. f \in [0..n -> V] /\ f[0] = d
  BY <1>1, <1>3 DEF Follows
<1>5. ASSUME NEW i \in 1..n PROVE f[i] = SegmentOk(f[i - 1], seg[i], a, b)
  <2>1. i \in (0 + 1)..n /\ i - 1 \in 0..n /\ i \in Int
    BY <1>1
  <2>2. f[i - 1] \in V
    BY <1>4, <2>1
  <2>3. f[i] = step[<<i, f[i - 1]>>]
    BY <1>3, <2>1 DEF Follows
  <2> QED BY <2>1, <2>2, <2>3
<1> HIDE DEF step
<1>6. f = Of(f)
  <2>1. ASSUME NEW i \in 0..n PROVE f[i] = Of(f)[i]
    <3>1. CASE i = 0
      BY <1>4, <3>1
    <3>2. CASE i # 0
      <4>1. i \in 1..n
        BY <1>1, <3>2
      <4>2. Of(f)[i] = SegmentOk(f[i - 1], seg[i], a, b)
        BY <1>1, <3>2
      <4> QED BY <1>5, <4>1, <4>2
    <3> QED BY <3>1, <3>2
  <2>2. f = [i \in 0..n |-> f[i]] /\ Of(f) = [i \in 0..n |-> Of(f)[i]]
    BY <1>4
  <2> HIDE DEF Of, n
  <2> QED BY <2>1, <2>2
<1>7. ASSUME NEW g PROVE StrictlyOf(g) = Of(g)
  <2>1. ASSUME NEW i \in 0..n
        PROVE  Strictly(LAMBDA v : SegmentOk(v, seg[i], a, b), g[i - 1]) = SegmentOk(g[i - 1], seg[i], a, b)
    BY DEF Strictly
  <2> HIDE DEF n
  <2> QED BY <2>1
<1>8. PICK g : g = Of(g) /\ SegmentDecoded(d, seg, a, b) = g[n]
  <2> DEFINE h == CHOOSE g : g = StrictlyOf(g)
  <2>1. h = StrictlyOf(h)
    <3>1. f = StrictlyOf(f)
      <4> HIDE DEF Of, StrictlyOf
      <4> QED BY <1>6, <1>7
    <3> HIDE DEF Of, StrictlyOf
    <3> QED BY <3>1
  <2>2. SegmentDecoded(d, seg, a, b) = h[n]
    BY DEF SegmentDecoded
  <2> HIDE DEF Of, StrictlyOf, h
  <2> QED BY <1>7, <2>1, <2>2
<1>9. g[0] = d /\ \A i \in 1..n : g[i] = SegmentOk(g[i - 1], seg[i], a, b)
  BY <1>1, <1>8
<1> DEFINE S == {i \in 0..n : g[i] \in V}
<1>10. 0..n \subseteq S
  <2>1. 0 <= n => 0 \in S
    BY <1>1, <1>9
  <2>2. ASSUME NEW i \in (0 + 1)..n, i - 1 \in S PROVE i \in S
    <3>1. i \in 0..n /\ i \in 1..n /\ g[i - 1] \in V
      BY <1>1, <2>2
    <3> HIDE DEF n
    <3>2. g[i] \in V
      BY <1>1, <1>9, <3>1
    <3> QED BY <3>1, <3>2
  <2> HIDE DEF S, n, Of, StrictlyOf
  <2> QED BY <1>1, <2>1, <2>2, IntervalInduction
<1>11. \A i \in 0..n : g[i] \in V
  BY <1>10
<1> HIDE DEF Of, StrictlyOf
<1>12. QED
  BY <1>8, <1>9, <1>11

\* Opened is what populate() makes of one packet after the other.
LEMMA OpenedIs ==
  ASSUME NEW V, Unopened \in V, \A x \in V, i \in DOMAIN File : Populate(x, i) \in V
  PROVE  \E g : /\ Opened = g[Len(File)] /\ g[0] = Unopened
                /\ \A i \in 1..(Len(File)) : g[i] = Populate(g[i - 1], i)
                /\ \A i \in 0..(Len(File)) : g[i] \in V
<1> DEFINE n == Len(File)
           step == [x \in Int \X V |-> IF x[1] \in 1..n THEN Populate(x[2], x[1]) ELSE Unopened]
           Of(f) == [i \in 0..n |-> IF i = 0 THEN Unopened ELSE Populate(f[i - 1], i)]
           StrictlyOf(f) == [i \in 0..n |-> IF i = 0 THEN Unopened ELSE Strictly(LAMBDA v : Populate(v, i), f[i - 1])]
<1>1. n \in Nat /\ n \in Int /\ 0 \in Int /\ 0 <= n /\ DOMAIN File = 1..n
  BY MovieAssumption
<1>2. step \in [Int \X V -> V]
  BY <1>1
<1>3. PICK f : Follows(f, 0, n, V, Unopened, step)
  <2> HIDE DEF step, n
  <2> QED BY <1>1, <1>2, Recursion, Zenon
<1>4. f \in [0..n -> V] /\ f[0] = Unopened
  BY <1>1, <1>3 DEF Follows
<1>5. ASSUME NEW i \in 1..n PROVE f[i] = Populate(f[i - 1], i)
  <2>1. i \in (0 + 1)..n /\ i - 1 \in 0..n /\ i \in Int
    BY <1>1
  <2>2. f[i - 1] \in V
    BY <1>4, <2>1
  <2>3. f[i] = step[<<i, f[i - 1]>>]
    BY <1>3, <2>1 DEF Follows
  <2> QED BY <2>1, <2>2, <2>3
<1> HIDE DEF step
<1>6. f = Of(f)
  <2>1. ASSUME NEW i \in 0..n PROVE f[i] = Of(f)[i]
    <3>1. CASE i = 0
      BY <1>4, <3>1
    <3>2. CASE i # 0
      <4>1. i \in 1..n
        BY <1>1, <3>2
      <4>2. Of(f)[i] = Populate(f[i - 1], i)
        BY <1>1, <3>2
      <4> QED BY <1>5, <4>1, <4>2
    <3> QED BY <3>1, <3>2
  <2>2. f = [i \in 0..n |-> f[i]] /\ Of(f) = [i \in 0..n |-> Of(f)[i]]
    BY <1>4
  <2> HIDE DEF Of, n
  <2> QED BY <2>1, <2>2
<1>7. ASSUME NEW g PROVE StrictlyOf(g) = Of(g)
  <2>1. ASSUME NEW i \in 0..n
        PROVE  Strictly(LAMBDA v : Populate(v, i), g[i - 1]) = Populate(g[i - 1], i)
    BY DEF Strictly
  <2> HIDE DEF n
  <2> QED BY <2>1
<1>8. PICK g : g = Of(g) /\ Opened = g[n]
  <2> DEFINE h == CHOOSE g : g = StrictlyOf(g)
  <2>1. h = StrictlyOf(h)
    <3>1. f = StrictlyOf(f)
      <4> HIDE DEF Of, StrictlyOf
      <4> QED BY <1>6, <1>7
    <3> HIDE DEF Of, StrictlyOf
    <3> QED BY <3>1
  <2>2. Opened = h[n]
    BY DEF Opened
  <2> HIDE DEF Of, StrictlyOf, h
  <2> QED BY <1>7, <2>1, <2>2
<1>9. g[0] = Unopened /\ \A i \in 1..n : g[i] = Populate(g[i - 1], i)
  BY <1>1, <1>8
<1> DEFINE S == {i \in 0..n : g[i] \in V}
<1>10. 0..n \subseteq S
  <2>1. 0 <= n => 0 \in S
    BY <1>1, <1>9
  <2>2. ASSUME NEW i \in (0 + 1)..n, i - 1 \in S PROVE i \in S
    <3>1. i \in 0..n /\ i \in 1..n /\ g[i - 1] \in V
      BY <1>1, <2>2
    <3> HIDE DEF n
    <3>2. g[i] \in V
      BY <1>1, <1>9, <3>1
    <3> QED BY <3>1, <3>2
  <2> HIDE DEF S, n, Of, StrictlyOf
  <2> QED BY <1>1, <2>1, <2>2, IntervalInduction
<1>11. \A i \in 0..n : g[i] \in V
  BY <1>10
<1> HIDE DEF Of, StrictlyOf
<1>12. QED
  BY <1>8, <1>9, <1>11

\* ReadAll() reads on until it has got everything.
\* g[i] is what is read after i turns.
ReadBy(g, V, r, a, b, c) ==
  /\ ReadAll(r, a, b, c) = g[Len(File) - r.pos + 1] /\ g[0] = r
  /\ \A i \in 1..(Len(File) - r.pos + 1) : g[i] = Turn(g[i - 1], a, b, c)
  /\ \A i \in 0..(Len(File) - r.pos + 1) : g[i] \in V

\* Reading until both streams have what they need is a sequence of turns, each one from
\* the result of the one before.
LEMMA ReadAllIs ==
  ASSUME NEW V, NEW r \in V, r.pos \in 0..Len(File), NEW a, NEW b, NEW c, \A x \in V : Turn(x, a, b, c) \in V
  PROVE  \E g : ReadBy(g, V, r, a, b, c)
<1> DEFINE n == Len(File) - r.pos + 1
           step == [x \in Int \X V |-> IF x[1] \in 1..n THEN Turn(x[2], a, b, c) ELSE r]
           Of(f) == [i \in 0..n |-> IF i = 0 THEN r ELSE Turn(f[i - 1], a, b, c)]
           StrictlyOf(f) == [i \in 0..n |-> IF i = 0 THEN r ELSE Strictly(LAMBDA v : Turn(v, a, b, c), f[i - 1])]
<1>1. n \in Nat /\ n \in Int /\ 0 \in Int /\ 0 <= n
  BY MovieAssumption
<1>2. step \in [Int \X V -> V]
  BY <1>1
<1>3. PICK f : Follows(f, 0, n, V, r, step)
  <2> HIDE DEF step, n
  <2> QED BY <1>1, <1>2, Recursion, Zenon
<1>4. f \in [0..n -> V] /\ f[0] = r
  BY <1>1, <1>3 DEF Follows
<1>5. ASSUME NEW i \in 1..n PROVE f[i] = Turn(f[i - 1], a, b, c)
  <2>1. i \in (0 + 1)..n /\ i - 1 \in 0..n /\ i \in Int
    BY <1>1
  <2>2. f[i - 1] \in V
    BY <1>4, <2>1
  <2>3. f[i] = step[<<i, f[i - 1]>>]
    BY <1>3, <2>1 DEF Follows
  <2> QED BY <2>1, <2>2, <2>3
<1> HIDE DEF step
<1>6. f = Of(f)
  <2>1. ASSUME NEW i \in 0..n PROVE f[i] = Of(f)[i]
    <3>1. CASE i = 0
      BY <1>4, <3>1
    <3>2. CASE i # 0
      <4>1. i \in 1..n
        BY <1>1, <3>2
      <4>2. Of(f)[i] = Turn(f[i - 1], a, b, c)
        BY <1>1, <3>2
      <4> QED BY <1>5, <4>1, <4>2
    <3> QED BY <3>1, <3>2
  <2>2. f = [i \in 0..n |-> f[i]] /\ Of(f) = [i \in 0..n |-> Of(f)[i]]
    BY <1>4
  <2> HIDE DEF Of, n
  <2> QED BY <2>1, <2>2
<1>7. ASSUME NEW g PROVE StrictlyOf(g) = Of(g)
  <2>1. ASSUME NEW i \in 0..n
        PROVE  Strictly(LAMBDA v : Turn(v, a, b, c), g[i - 1]) = Turn(g[i - 1], a, b, c)
    BY DEF Strictly
  <2> HIDE DEF n
  <2> QED BY <2>1
<1>8. PICK g : g = Of(g) /\ ReadAll(r, a, b, c) = g[n]
  <2> DEFINE h == CHOOSE g : g = StrictlyOf(g)
  <2>1. h = StrictlyOf(h)
    <3>1. f = StrictlyOf(f)
      <4> HIDE DEF Of, StrictlyOf
      <4> QED BY <1>6, <1>7
    <3> HIDE DEF Of, StrictlyOf
    <3> QED BY <3>1
  <2>2. ReadAll(r, a, b, c) = h[n]
    BY DEF ReadAll
  <2> HIDE DEF Of, StrictlyOf, h
  <2> QED BY <1>7, <2>1, <2>2
<1>9. g[0] = r /\ \A i \in 1..n : g[i] = Turn(g[i - 1], a, b, c)
  BY <1>1, <1>8
<1> DEFINE S == {i \in 0..n : g[i] \in V}
<1>10. 0..n \subseteq S
  <2>1. 0 <= n => 0 \in S
    BY <1>1, <1>9
  <2>2. ASSUME NEW i \in (0 + 1)..n, i - 1 \in S PROVE i \in S
    <3>1. i \in 0..n /\ i \in 1..n /\ g[i - 1] \in V
      BY <1>1, <2>2
    <3> HIDE DEF n
    <3>2. g[i] \in V
      BY <1>1, <1>9, <3>1
    <3> QED BY <3>1, <3>2
  <2> HIDE DEF S, n, Of, StrictlyOf
  <2> QED BY <1>1, <2>1, <2>2, IntervalInduction
<1>11. \A i \in 0..n : g[i] \in V
  BY <1>10
<1> HIDE DEF Of, StrictlyOf
<1>12. ReadBy(g, V, r, a, b, c)
  BY <1>8, <1>9, <1>11 DEF ReadBy
<1>13. QED
  BY <1>12

-----------------------------------------------------------------------------
(***************************************************************************)
(* Queues and the segments in them                                         *)
(***************************************************************************)

\* q1 is what is left of q past its first n elements.
Suffix(q1, q, n) == Len(q1) = Len(q) - n /\ \A i \in 1..Len(q1) : q1[i] = q[i + n]

\* A queue without its first item is a suffix of it.
LEMMA TailIs ==
  ASSUME NEW T, NEW q \in Seq(T), q # <<>>
  PROVE  Tail(q) \in Seq(T) /\ Suffix(Tail(q), q, 1) /\ Head(q) = q[1] /\ Len(q) >= 1 /\ q[1] \in T
BY DEF Suffix

\* A queue without its first n items is a suffix of it.
LEMMA SubSeqIs ==
  ASSUME NEW T, NEW q \in Seq(T), NEW n \in 0..Len(q)
  PROVE  SubSeq(q, n + 1, Len(q)) \in Seq(T) /\ Suffix(SubSeq(q, n + 1, Len(q)), q, n)
BY DEF Suffix

\* The elements from m to n.
LEMMA MiddleIs ==
  ASSUME NEW T, NEW q \in Seq(T), NEW m \in 1..Len(q), NEW n \in 0..Len(q), m <= n + 1
  PROVE  SubSeq(q, m, n) \in Seq(T) /\ Len(SubSeq(q, m, n)) = n - m + 1
         /\ \A i \in 1..(n - m + 1) : SubSeq(q, m, n)[i] = q[i + m - 1]
OBVIOUS

\* The kinds from i to j tell whether they are a segment.
LEMMA SegmentedSuffix ==
  ASSUME NEW q, NEW q1, NEW n \in Nat, Len(q1) \in Nat, Suffix(q1, q, n),
         NEW i \in 1..Len(q1), NEW j \in 1..Len(q1)
  PROVE  Segmented(q1, i, j) <=> Segmented(q, i + n, j + n)
<1>1. q1[i] = q[i + n] /\ q1[j] = q[j + n] /\ (i < j <=> i + n < j + n)
  BY DEF Suffix
<1>2. \A k \in (i + 1)..(j - 1) : /\ k \in 1..Len(q1) /\ k + n \in (i + n + 1)..(j + n - 1)
                                  /\ q1[k] = q[k + n]
  BY DEF Suffix
<1>3. \A k \in (i + n + 1)..(j + n - 1) : k - n \in (i + 1)..(j - 1) /\ k - n + n = k
  OBVIOUS
<1>4. (\A k \in (i + 1)..(j - 1) : q1[k].kind \in Coded)
      <=> (\A k \in (i + n + 1)..(j + n - 1) : q[k].kind \in Coded)
  BY <1>2, <1>3
<1>5. QED
  BY <1>1, <1>4 DEF Segmented

\* What is queued behind two items does not change whether they enclose a segment.
LEMMA SegmentedAppend ==
  ASSUME NEW T, NEW q \in Seq(T), NEW x \in T, NEW i \in 1..Len(q), NEW j \in 1..Len(q)
  PROVE  Segmented(Append(q, x), i, j) <=> Segmented(q, i, j)
<1> PICK a : a = Append(q, x)
  OBVIOUS
<1>1. \A k \in 1..Len(q) : a[k] = q[k]
  BY AppendIs
<1>2. \A k \in (i + 1)..(j - 1) : k \in 1..Len(q)
  OBVIOUS
<1>3. Segmented(a, i, j) <=> Segmented(q, i, j)
  BY <1>1, <1>2 DEF Segmented
<1>4. QED
  BY <1>3

\* A queue is cut where no segment is cut.
LEMMA ClosedSuffix ==
  ASSUME NEW T, NEW q \in Seq(T), NEW n \in 0..Len(q), NEW q1 \in Seq(T), Suffix(q1, q, n),
         Closed(q), \A i \in 1..n, j \in (n + 1)..Len(q) : ~Segmented(q, i, j)
  PROVE  Closed(q1)
<1>1. Len(q1) \in Nat /\ Len(q) \in Nat /\ Len(q1) = Len(q) - n /\ DOMAIN q1 = 1..Len(q1) /\ DOMAIN q = 1..Len(q)
      /\ n \in Int /\ \A i \in 1..Len(q1) : q1[i] = q[i + n]
  BY DEF Suffix
<1>2. \A i, j \in 1..Len(q1) : Segmented(q1, i, j) <=> Segmented(q, i + n, j + n)
  BY <1>1, SegmentedSuffix
<1>3. SUFFICES ASSUME NEW i \in 1..Len(q1)
               PROVE  /\ q1[i].kind \in Begin => \E j \in 1..Len(q1) : Segmented(q1, i, j)
                      /\ q1[i].kind = "seekEnd" => \E j \in 1..Len(q1) : Segmented(q1, j, i)
  BY <1>1 DEF Closed
<1>4. i + n \in 1..Len(q) /\ i + n \in (n + 1)..Len(q) /\ q1[i] = q[i + n]
  BY <1>1
<1>5. ASSUME q1[i].kind \in Begin PROVE \E j \in 1..Len(q1) : Segmented(q1, i, j)
  <2>1. PICK j \in 1..Len(q) : Segmented(q, i + n, j)
    BY <1>1, <1>4, <1>5 DEF Closed
  <2>2. j - n \in 1..Len(q1) /\ j - n + n = j
    BY <1>1, <1>4, <2>1 DEF Segmented
  <2> QED BY <1>2, <2>1, <2>2
<1>6. ASSUME q1[i].kind = "seekEnd" PROVE \E j \in 1..Len(q1) : Segmented(q1, j, i)
  <2>1. PICK j \in 1..Len(q) : Segmented(q, j, i + n)
    BY <1>1, <1>4, <1>6 DEF Closed
  <2>2. j \notin 1..n
    BY <1>4, <2>1
  <2>3. j - n \in 1..Len(q1) /\ j - n + n = j
    BY <1>1, <1>4, <2>1, <2>2 DEF Segmented
  <2> QED BY <1>2, <2>1, <2>3
<1>7. QED
  BY <1>5, <1>6

\* Whatever does not begin a segment may be taken from the front of a queue.
LEMMA ClosedTail ==
  ASSUME NEW T, NEW q \in Seq(T), q # <<>>, Closed(q), Head(q).kind \notin Begin
  PROVE  Closed(Tail(q)) /\ Head(q).kind # "seekEnd"
<1>1. Tail(q) \in Seq(T) /\ Suffix(Tail(q), q, 1) /\ Head(q) = q[1] /\ 1 \in 0..Len(q) /\ DOMAIN q = 1..Len(q)
  BY TailIs
<1>2. \A i \in 1..1, j \in (1 + 1)..Len(q) : ~Segmented(q, i, j)
  BY <1>1 DEF Segmented
<1>3. \A i \in 1..Len(q) : ~Segmented(q, i, 1)
  BY DEF Segmented
<1>4. Head(q).kind # "seekEnd"
  BY <1>1, <1>3 DEF Closed
<1>5. QED
  BY <1>1, <1>2, <1>4, ClosedSuffix

\* So may a segment.
LEMMA ClosedPastSegment ==
  ASSUME NEW T, NEW q \in Seq(T), Closed(q), q # <<>>, Head(q).kind \in Begin
  PROVE  \E n \in 2..Len(q) : /\ Segmented(q, 1, n)
                             /\ SubSeq(q, n + 1, Len(q)) \in Seq(T)
                             /\ Suffix(SubSeq(q, n + 1, Len(q)), q, n)
                             /\ Closed(SubSeq(q, n + 1, Len(q)))
<1>1. Head(q) = q[1] /\ Len(q) \in Nat /\ Len(q) >= 1 /\ DOMAIN q = 1..Len(q) /\ 1 \in 1..Len(q)
  OBVIOUS
<1>2. PICK n \in 1..Len(q) : Segmented(q, 1, n)
  BY <1>1 DEF Closed
<1>3. n \in 2..Len(q) /\ n \in 0..Len(q)
  BY <1>1, <1>2 DEF Segmented
<1>4. SubSeq(q, n + 1, Len(q)) \in Seq(T) /\ Suffix(SubSeq(q, n + 1, Len(q)), q, n)
  BY <1>3, SubSeqIs
<1>5. ASSUME NEW i \in 1..n, NEW j \in (n + 1)..Len(q), Segmented(q, i, j) PROVE FALSE
  <2>1. CASE i < n
    <3>1. n \in (i + 1)..(j - 1)
      BY <1>1, <2>1
    <3> QED BY <1>2, <1>5, <3>1 DEF Segmented, Coded
  <2>2. CASE i = n
    BY <1>2, <1>5, <2>2 DEF Segmented, Begin
  <2> QED BY <2>1, <2>2
<1> PICK q1 : q1 = SubSeq(q, n + 1, Len(q))
  OBVIOUS
<1>6. Closed(q1)
  BY <1>3, <1>4, <1>5, ClosedSuffix
<1>7. QED
  BY <1>2, <1>3, <1>4, <1>6

\* Anything but the marks of a segment may be queued, and a whole segment.
End == Item("seekEnd", FrameIn)

\* The queue, or what it will be when its last segment is ended.
Ready(q, open) == IF open THEN Closed(Append(q, End)) ELSE Closed(q)

\* A queue of closed segments stays one when anything but a beginning or an end is queued.
LEMMA ClosedAppend ==
  ASSUME NEW T, NEW q \in Seq(T), NEW x \in T, Closed(q), x.kind \notin Begin \cup {"seekEnd"}
  PROVE  Closed(Append(q, x))
<1> PICK a : a = Append(q, x)
  OBVIOUS
<1>1. /\ Len(q) \in Nat /\ DOMAIN a = 1..(Len(q) + 1) /\ DOMAIN q = 1..Len(q)
      /\ a[Len(q) + 1] = x /\ \A k \in 1..Len(q) : a[k] = q[k]
  BY AppendIs
<1>2. \A i, j \in 1..Len(q) : Segmented(q, i, j) => Segmented(a, i, j)
  BY SegmentedAppend
<1>3. SUFFICES ASSUME NEW i \in 1..(Len(q) + 1)
               PROVE  /\ a[i].kind \in Begin => \E j \in 1..(Len(q) + 1) : Segmented(a, i, j)
                      /\ a[i].kind = "seekEnd" => \E j \in 1..(Len(q) + 1) : Segmented(a, j, i)
  BY <1>1 DEF Closed
<1>4. CASE i = Len(q) + 1
  BY <1>1, <1>4
<1>5. CASE i # Len(q) + 1
  <2>1. i \in 1..Len(q) /\ a[i] = q[i] /\ 1..Len(q) \subseteq 1..(Len(q) + 1)
    BY <1>1, <1>5
  <2>2. /\ q[i].kind \in Begin => \E j \in 1..Len(q) : Segmented(q, i, j)
        /\ q[i].kind = "seekEnd" => \E j \in 1..Len(q) : Segmented(q, j, i)
    BY <1>1, <2>1 DEF Closed
  <2> QED BY <1>2, <2>1, <2>2
<1>6. QED
  BY <1>4, <1>5

\* A queue and two more elements.
LEMMA AppendTwo ==
  ASSUME NEW T, NEW q \in Seq(T), NEW x \in T, NEW y, NEW b, b = Append(Append(q, x), y)
  PROVE  /\ Len(q) \in Nat /\ DOMAIN q = 1..Len(q) /\ DOMAIN b = 1..(Len(q) + 2)
         /\ b[Len(q) + 1] = x /\ b[Len(q) + 2] = y /\ \A k \in 1..Len(q) : b[k] = q[k]
OBVIOUS

\* The items of a queue and of that queue with one more.
LEMMA AppendOne ==
  ASSUME NEW T, NEW q \in Seq(T), NEW x, NEW a, a = Append(q, x)
  PROVE  /\ Len(q) \in Nat /\ DOMAIN q = 1..Len(q) /\ DOMAIN a = 1..(Len(q) + 1)
         /\ a[Len(q) + 1] = x /\ \A k \in 1..Len(q) : a[k] = q[k]
OBVIOUS

\* Queues with the same kinds up to j.
LEMMA SegmentedAs ==
  ASSUME NEW a, NEW b, NEW n \in Nat, \A k \in 1..n : a[k].kind = b[k].kind,
         NEW i \in 1..n, NEW j \in 1..n
  PROVE  Segmented(a, i, j) <=> Segmented(b, i, j)
<1>1. \A k \in (i + 1)..(j - 1) : k \in 1..n
  OBVIOUS
<1>2. QED
  BY <1>1 DEF Segmented

\* Packets are queued in a segment that is not ended, or after it.
LEMMA ReadyCoded ==
  ASSUME NEW T, NEW q \in Seq(T), NEW x \in T, NEW open \in BOOLEAN, Ready(q, open), x.kind \in Coded
  PROVE  Ready(Append(q, x), open)
<1>1. CASE ~open
  BY <1>1, ClosedAppend DEF Ready, Coded, Begin
<1>2. CASE open
  <2> PICK e : e = Append(q, End)
    OBVIOUS
  <2> PICK b : b = Append(Append(q, x), End)
    OBVIOUS
  <2> DEFINE n == Len(q)
  <2>1. Closed(e)
    BY <1>2 DEF Ready
  <2>2. /\ n \in Nat /\ DOMAIN e = 1..(n + 1) /\ e[n + 1] = End /\ \A k \in 1..n : e[k] = q[k]
    BY AppendOne
  <2>3. /\ DOMAIN b = 1..(n + 2) /\ b[n + 1] = x /\ b[n + 2] = End /\ \A k \in 1..n : b[k] = q[k]
    BY AppendTwo
  <2>4. End.kind = "seekEnd"
    BY DEF End, Item
  <2> HIDE DEF n
  <2>5. \A i, j \in 1..n : Segmented(e, i, j) => Segmented(b, i, j)
    <3>1. \A k \in 1..n : e[k].kind = b[k].kind
      BY <2>2, <2>3
    <3> QED BY <2>2, <3>1, SegmentedAs
  <2>6. \A i \in 1..n : Segmented(e, i, n + 1) => Segmented(b, i, n + 2)
    <3> SUFFICES ASSUME NEW i \in 1..n, Segmented(e, i, n + 1) PROVE Segmented(b, i, n + 2)
      OBVIOUS
    <3>1. i < n + 2 /\ b[i].kind \in Begin /\ b[n + 2].kind = "seekEnd"
      BY <2>2, <2>3, <2>4 DEF Segmented
    <3>2. ASSUME NEW k \in (i + 1)..(n + 2 - 1) PROVE b[k].kind \in Coded
      <4>1. CASE k = n + 1
        BY <2>3, <4>1
      <4>2. CASE k # n + 1
        <5>1. k \in (i + 1)..(n + 1 - 1) /\ k \in 1..n
          BY <2>2, <4>2
        <5>2. e[k].kind \in Coded
          BY <2>2, <5>1 DEF Segmented
        <5> QED BY <2>2, <2>3, <5>1, <5>2
      <4> QED BY <4>1, <4>2
    <3> QED BY <2>2, <3>1, <3>2 DEF Segmented
  <2>7. \A i, j \in 1..(n + 1) : Segmented(e, i, j) => i < j
    BY DEF Segmented
  <2>8. ASSUME NEW i \in 1..(n + 2)
        PROVE  /\ b[i].kind \in Begin => \E j \in 1..(n + 2) : Segmented(b, i, j)
               /\ b[i].kind = "seekEnd" => \E j \in 1..(n + 2) : Segmented(b, j, i)
    <3>1. CASE i \in 1..n
      <4>1. ASSUME b[i].kind \in Begin PROVE \E j \in 1..(n + 2) : Segmented(b, i, j)
        <5>1. PICK j \in 1..(n + 1) : Segmented(e, i, j)
          <6>1. i \in DOMAIN e /\ e[i].kind \in Begin
            BY <2>2, <2>3, <3>1, <4>1
          <6> QED BY <2>1, <2>2, <6>1 DEF Closed
        <5>2. CASE j = n + 1
          BY <2>2, <2>6, <3>1, <5>1, <5>2
        <5>3. CASE j # n + 1
          <6>1. j \in 1..n /\ j \in 1..(n + 2)
            BY <2>2, <5>3
          <6> QED BY <2>5, <3>1, <5>1, <6>1
        <5> QED BY <5>2, <5>3
      <4>2. ASSUME b[i].kind = "seekEnd" PROVE \E j \in 1..(n + 2) : Segmented(b, j, i)
        <5>1. PICK j \in 1..(n + 1) : Segmented(e, j, i)
          BY <2>1, <2>2, <2>3, <3>1, <4>2 DEF Closed
        <5>2. j \in 1..n /\ j \in 1..(n + 2)
          BY <2>2, <2>7, <3>1, <5>1
        <5> QED BY <2>5, <3>1, <5>1, <5>2
      <4> QED BY <4>1, <4>2
    <3>2. CASE i = n + 1
      BY <2>3, <3>2 DEF Coded, Begin
    <3>3. CASE i = n + 2
      <4>1. PICK j \in 1..(n + 1) : Segmented(e, j, n + 1)
        <5>1. n + 1 \in DOMAIN e
          BY <2>2
        <5> QED BY <2>1, <2>2, <2>4, <5>1 DEF Closed
      <4>2. j \in 1..n /\ j \in 1..(n + 2)
        BY <2>2, <2>7, <4>1
      <4>3. Segmented(b, j, i) /\ b[i] = End
        BY <2>3, <2>6, <3>3, <4>1, <4>2
      <4> QED BY <2>4, <4>2, <4>3 DEF Begin
    <3> QED BY <2>2, <3>1, <3>2, <3>3
  <2>9. Closed(b)
    BY <2>3, <2>8 DEF Closed
  <2> QED BY <1>2, <2>9 DEF Ready
<1>3. QED
  BY <1>1, <1>2

\* A seek_end ends it.
LEMMA ReadyEnd ==
  ASSUME NEW T, NEW q \in Seq(T), NEW x \in T, Ready(q, TRUE), x.kind = "seekEnd"
  PROVE  Ready(Append(q, x), FALSE)
<1> PICK e : e = Append(q, End)
  OBVIOUS
<1> PICK a : a = Append(q, x)
  OBVIOUS
<1> DEFINE n == Len(q)
<1>1. n \in Nat /\ DOMAIN e = 1..(n + 1) /\ e[n + 1] = End /\ \A k \in 1..n : e[k] = q[k]
  BY AppendOne
<1>2. DOMAIN a = 1..(n + 1) /\ a[n + 1] = x /\ \A k \in 1..n : a[k] = q[k]
  BY AppendOne
<1> HIDE DEF n
<1>3. \A k \in 1..(n + 1) : a[k].kind = e[k].kind
  <2> TAKE k \in 1..(n + 1)
  <2>1. CASE k = n + 1
    BY <1>1, <1>2, <2>1 DEF End, Item
  <2>2. CASE k # n + 1
    BY <1>1, <1>2, <2>2
  <2> QED BY <2>1, <2>2
<1>4. \A i, j \in 1..(n + 1) : Segmented(a, i, j) <=> Segmented(e, i, j)
  <2>1. n + 1 \in Nat
    BY <1>1
  <2> QED BY <1>3, <2>1, SegmentedAs
<1>5. Closed(e)
  BY DEF Ready
<1>6. Closed(a)
  BY <1>1, <1>2, <1>3, <1>4, <1>5 DEF Closed
<1>7. QED
  BY <1>6 DEF Ready

\* A seek or a preroll begins one.
LEMMA ReadyBegin ==
  ASSUME NEW T, NEW q \in Seq(T), NEW x \in T, Closed(q), x.kind \in Begin
  PROVE  Ready(Append(q, x), TRUE)
<1> PICK b : b = Append(Append(q, x), End)
  OBVIOUS
<1> DEFINE n == Len(q)
<1>1. /\ n \in Nat /\ DOMAIN q = 1..n /\ DOMAIN b = 1..(n + 2) /\ b[n + 1] = x /\ b[n + 2] = End
      /\ \A k \in 1..n : b[k] = q[k]
  BY AppendTwo
<1>2. End.kind = "seekEnd"
  BY DEF End, Item
<1> HIDE DEF n
<1>3. \A i, j \in 1..n : Segmented(q, i, j) => Segmented(b, i, j)
  <2>1. \A k \in 1..n : q[k].kind = b[k].kind
    BY <1>1
  <2> QED BY <1>1, <2>1, SegmentedAs
<1>4. Segmented(b, n + 1, n + 2) /\ n + 1 \in 1..(n + 2) /\ n + 2 \in 1..(n + 2)
  <2>1. n + 1 < n + 2 /\ (n + 1 + 1)..(n + 2 - 1) = {}
    BY <1>1
  <2> QED BY <1>1, <1>2, <2>1 DEF Segmented
<1>5. ASSUME NEW i \in 1..(n + 2)
      PROVE  /\ b[i].kind \in Begin => \E j \in 1..(n + 2) : Segmented(b, i, j)
             /\ b[i].kind = "seekEnd" => \E j \in 1..(n + 2) : Segmented(b, j, i)
  <2>1. CASE i \in 1..n
    <3>1. b[i] = q[i] /\ 1..n \subseteq 1..(n + 2)
      BY <1>1, <2>1
    <3>2. /\ q[i].kind \in Begin => \E j \in 1..n : Segmented(q, i, j)
          /\ q[i].kind = "seekEnd" => \E j \in 1..n : Segmented(q, j, i)
      BY <1>1, <2>1 DEF Closed
    <3> QED BY <1>3, <2>1, <3>1, <3>2
  <2>2. CASE i = n + 1
    BY <1>1, <1>4, <2>2 DEF Begin
  <2>3. CASE i = n + 2
    BY <1>1, <1>2, <1>4, <2>3 DEF Begin
  <2> QED BY <1>1, <2>1, <2>2, <2>3
<1>6. Closed(b)
  BY <1>1, <1>5 DEF Closed
<1>7. QED
  BY <1>6 DEF Ready

-----------------------------------------------------------------------------
(***************************************************************************)
(* The order of the pictures in a queue                                    *)
(***************************************************************************)

\* The last picture in the first p packets of the file is that of frame f.
LastPicture(p, f) ==
  \E m \in 1..p : /\ File[m].stream = "video" /\ File[m].frame = f
                  /\ \A k \in (m + 1)..p : File[k].stream # "video"

\* The packets of pictures in q are those of consecutive frames, up to the last one in
\* the first p packets of the file.
Chained(q, p) ==
  /\ \A i, j \in DOMAIN q :
       /\ i < j /\ q[i].kind = "packet" /\ q[j].kind = "packet"
       /\ \A k \in (i + 1)..(j - 1) : q[k].kind # "packet"
       => q[j].frame = q[i].frame + 1
  /\ \A i \in DOMAIN q :
       /\ q[i].kind = "packet"
       /\ \A k \in (i + 1)..Len(q) : q[k].kind # "packet"
       => LastPicture(p, q[i].frame)

\* The file is a sequence of packets.
LEMMA FileIs ==
  /\ Len(File) \in Nat /\ DOMAIN File = 1..Len(File)
  /\ \A i \in 1..Len(File) : /\ File[i].stream \in {"video", "audio"} /\ File[i].frame \in Nat \ {0}
                             /\ File[i].key \in BOOLEAN
  /\ FrameIn = 1 /\ FrameOut \in Nat \ {0} /\ Clip = 1..FrameOut
  /\ \A i \in 1..Len(File) : File[i].stream = "video" => File[i].frame \in Clip
  /\ \A f \in Clip : \E i \in 1..Len(File) : File[i].stream = "video" /\ File[i].frame = f
  /\ \A i, j \in 1..Len(File) :
       i < j /\ File[i].stream = "video" /\ File[j].stream = "video" => File[i].frame < File[j].frame
<1>1. File \in Seq([stream : {"video", "audio"}, frame : Nat \ {0}, key : BOOLEAN])
  BY MovieAssumption
<1>2. Len(File) \in Nat /\ DOMAIN File = 1..Len(File)
  BY <1>1
<1>3. \A i \in 1..Len(File) : File[i] \in [stream : {"video", "audio"}, frame : Nat \ {0}, key : BOOLEAN]
  <2>1. \A R : File \in Seq(R) => \A i \in 1..Len(File) : File[i] \in R
    OBVIOUS
  <2> QED BY <1>1, <2>1
<1>4. FrameIn = 1 /\ FrameOut \in Nat \ {0} /\ Clip = 1..FrameOut
  BY MovieAssumption DEF FrameIn, Clip
<1>5. \A f : f \in Clip <=> \E i \in 1..Len(File) : File[i].stream = "video" /\ File[i].frame = f
  BY <1>2, MovieAssumption DEF Frames, Clip
<1>6. QED
  BY <1>2, <1>3, <1>4, <1>5, MovieAssumption

\* The picture after the last one is that of the next frame.
LEMMA NextPicture ==
  ASSUME NEW p \in Nat, p + 1 <= Len(File), NEW f, LastPicture(p, f), File[p + 1].stream = "video"
  PROVE  File[p + 1].frame = f + 1
<1>1. PICK m \in 1..p : /\ File[m].stream = "video" /\ File[m].frame = f
                        /\ \A k \in (m + 1)..p : File[k].stream # "video"
  BY DEF LastPicture
<1>2. m \in 1..Len(File) /\ p + 1 \in 1..Len(File) /\ m < p + 1
  BY FileIs
<1>3. f \in Clip /\ f < File[p + 1].frame /\ File[p + 1].frame \in Clip
  BY <1>1, <1>2, FileIs
<1>4. f \in Int /\ File[p + 1].frame \in Int
  BY <1>3, FileIs
<1>5. ASSUME f + 1 < File[p + 1].frame PROVE FALSE
  <2>1. f + 1 \in Clip
    BY <1>3, <1>4, <1>5, FileIs
  <2>2. PICK k \in 1..Len(File) : File[k].stream = "video" /\ File[k].frame = f + 1
    BY <2>1, FileIs
  <2>3. ~(k < m) /\ k # m
    BY <1>1, <1>2, <1>4, <2>2, FileIs
  <2>4. ~(p + 1 < k) /\ k # p + 1
    BY <1>2, <1>4, <1>5, <2>2, FileIs
  <2>5. k \in (m + 1)..p
    BY <1>2, <2>3, <2>4
  <2> QED BY <1>1, <2>2, <2>5
<1>6. QED
  BY <1>3, <1>4, <1>5

\* A packet of another stream leaves the last picture that was read as it is.
LEMMA LastPictureKept ==
  ASSUME NEW p \in Nat, NEW f, LastPicture(p, f), File[p + 1].stream # "video"
  PROVE  LastPicture(p + 1, f)
<1>1. PICK m \in 1..p : /\ File[m].stream = "video" /\ File[m].frame = f
                        /\ \A k \in (m + 1)..p : File[k].stream # "video"
  BY DEF LastPicture
<1>2. m \in 1..(p + 1) /\ \A k \in (m + 1)..(p + 1) : k \in (m + 1)..p \/ k = p + 1
  OBVIOUS
<1>3. \A k \in (m + 1)..(p + 1) : File[k].stream # "video"
  BY <1>1, <1>2
<1>4. QED
  BY <1>1, <1>2, <1>3 DEF LastPicture

\* So it leaves the queue in order with what was read.
LEMMA ChainedSkip ==
  ASSUME NEW q, NEW p \in Nat, Chained(q, p), File[p + 1].stream # "video"
  PROVE  Chained(q, p + 1)
BY LastPictureKept DEF Chained

\* A queue in order stays in order as its first items are taken.
LEMMA ChainedSuffix ==
  ASSUME NEW T, NEW q \in Seq(T), NEW n \in 0..Len(q), NEW q1 \in Seq(T), Suffix(q1, q, n),
         NEW p, Chained(q, p)
  PROVE  Chained(q1, p)
<1>1. /\ Len(q1) \in Nat /\ Len(q) \in Nat /\ Len(q1) = Len(q) - n /\ DOMAIN q1 = 1..Len(q1) /\ DOMAIN q = 1..Len(q)
      /\ n \in Nat /\ \A i \in 1..Len(q1) : q1[i] = q[i + n] /\ i + n \in 1..Len(q)
  BY DEF Suffix
<1>2. ASSUME NEW i \in 1..Len(q1), NEW j \in 1..Len(q1), i < j, q1[i].kind = "packet", q1[j].kind = "packet",
             \A k \in (i + 1)..(j - 1) : q1[k].kind # "packet"
      PROVE  q1[j].frame = q1[i].frame + 1
  <2>1. ASSUME NEW k \in (i + n + 1)..(j + n - 1) PROVE q[k].kind # "packet"
    <3>1. k - n \in (i + 1)..(j - 1) /\ k - n \in 1..Len(q1) /\ k - n + n = k
      BY <1>1
    <3> QED BY <1>1, <1>2, <3>1
  <2>2. i + n \in 1..Len(q) /\ j + n \in 1..Len(q) /\ i + n < j + n /\ q1[i] = q[i + n] /\ q1[j] = q[j + n]
    BY <1>1, <1>2
  <2> PICK i1, j1 \in DOMAIN q : i1 = i + n /\ j1 = j + n
    BY <1>1, <2>2
  <2>3. /\ i1 < j1 /\ q[i1].kind = "packet" /\ q[j1].kind = "packet"
        /\ \A k \in (i1 + 1)..(j1 - 1) : q[k].kind # "packet"
    BY <1>2, <2>1, <2>2
  <2>4. q[j1].frame = q[i1].frame + 1
    BY <2>3 DEF Chained
  <2> QED BY <2>2, <2>4
<1>3. ASSUME NEW i \in 1..Len(q1), q1[i].kind = "packet", \A k \in (i + 1)..Len(q1) : q1[k].kind # "packet"
      PROVE  LastPicture(p, q1[i].frame)
  <2>1. ASSUME NEW k \in (i + n + 1)..Len(q) PROVE q[k].kind # "packet"
    <3>1. k - n \in (i + 1)..Len(q1) /\ k - n \in 1..Len(q1) /\ k - n + n = k
      BY <1>1
    <3> QED BY <1>1, <1>3, <3>1
  <2>2. i + n \in 1..Len(q) /\ q1[i] = q[i + n]
    BY <1>1
  <2> QED BY <1>1, <1>3, <2>1, <2>2 DEF Chained
<1>4. QED
  BY <1>1, <1>2, <1>3 DEF Chained

\* A mark that is queued.
LEMMA ChainedMark ==
  ASSUME NEW T, NEW q \in Seq(T), NEW x \in T, NEW p, Chained(q, p), x.kind # "packet"
  PROVE  Chained(Append(q, x), p)
<1> PICK a : a = Append(q, x)
  OBVIOUS
<1>1. /\ Len(q) \in Nat /\ DOMAIN q = 1..Len(q) /\ DOMAIN a = 1..(Len(q) + 1) /\ Len(a) = Len(q) + 1
      /\ a[Len(q) + 1] = x /\ \A k \in 1..Len(q) : a[k] = q[k]
  BY AppendOne, AppendIs
<1>2. \A i \in 1..(Len(q) + 1) : a[i].kind = "packet" => i \in 1..Len(q)
  BY <1>1
<1>3. ASSUME NEW i \in 1..Len(q), NEW j \in 1..Len(q), i < j, a[i].kind = "packet", a[j].kind = "packet",
             \A k \in (i + 1)..(j - 1) : a[k].kind # "packet"
      PROVE  a[j].frame = a[i].frame + 1
  <2>1. \A k \in (i + 1)..(j - 1) : k \in 1..Len(q) /\ q[k].kind # "packet"
    BY <1>1, <1>3
  <2> QED BY <1>1, <1>3, <2>1 DEF Chained
<1>4. ASSUME NEW i \in 1..Len(q), a[i].kind = "packet", \A k \in (i + 1)..(Len(q) + 1) : a[k].kind # "packet"
      PROVE  LastPicture(p, a[i].frame)
  <2>1. \A k \in (i + 1)..Len(q) : k \in 1..Len(q) /\ k \in (i + 1)..(Len(q) + 1) /\ q[k].kind # "packet"
    BY <1>1, <1>4
  <2> QED BY <1>1, <1>4, <2>1 DEF Chained
<1>5. Chained(a, p)
  BY <1>1, <1>2, <1>3, <1>4 DEF Chained
<1>6. QED
  BY <1>5

\* The next picture that is queued.
LEMMA ChainedPicture ==
  ASSUME NEW T, NEW q \in Seq(T), NEW x \in T, NEW p \in Nat, p + 1 <= Len(File), Chained(q, p),
         x.kind = "packet", x.frame = File[p + 1].frame, File[p + 1].stream = "video"
  PROVE  Chained(Append(q, x), p + 1)
<1> PICK a : a = Append(q, x)
  OBVIOUS
<1>1. /\ Len(q) \in Nat /\ DOMAIN q = 1..Len(q) /\ DOMAIN a = 1..(Len(q) + 1) /\ Len(a) = Len(q) + 1
      /\ a[Len(q) + 1] = x /\ \A k \in 1..Len(q) : a[k] = q[k]
  BY AppendOne, AppendIs
<1>2. LastPicture(p + 1, x.frame)
  <2>1. p + 1 \in 1..(p + 1) /\ (p + 1 + 1)..(p + 1) = {}
    OBVIOUS
  <2> QED BY <2>1 DEF LastPicture
<1>3. ASSUME NEW i \in 1..(Len(q) + 1), NEW j \in 1..(Len(q) + 1), i < j, a[i].kind = "packet", a[j].kind = "packet",
             \A k \in (i + 1)..(j - 1) : a[k].kind # "packet"
      PROVE  a[j].frame = a[i].frame + 1
  <2>1. i \in 1..Len(q) /\ a[i] = q[i]
    BY <1>1, <1>3
  <2>2. \A k \in (i + 1)..(j - 1) : k \in 1..Len(q) /\ q[k].kind # "packet"
    BY <1>1, <1>3
  <2>3. CASE j \in 1..Len(q)
    BY <1>1, <1>3, <2>1, <2>2, <2>3 DEF Chained
  <2>4. CASE j = Len(q) + 1
    <3>1. LastPicture(p, q[i].frame)
      <4>1. \A k \in (i + 1)..Len(q) : q[k].kind # "packet"
        BY <1>1, <2>2, <2>4
      <4> QED BY <1>1, <1>3, <2>1, <4>1 DEF Chained
    <3>2. File[p + 1].frame = q[i].frame + 1
      BY <3>1, NextPicture
    <3> QED BY <1>1, <2>1, <2>4, <3>2
  <2> QED BY <1>1, <2>3, <2>4
<1>4. ASSUME NEW i \in 1..(Len(q) + 1), a[i].kind = "packet", \A k \in (i + 1)..(Len(q) + 1) : a[k].kind # "packet"
      PROVE  LastPicture(p + 1, a[i].frame)
  <2>1. CASE i = Len(q) + 1
    BY <1>1, <1>2, <2>1
  <2>2. CASE i # Len(q) + 1
    <3>1. Len(q) + 1 \in (i + 1)..(Len(q) + 1)
      BY <1>1, <2>2
    <3> QED BY <1>1, <1>4, <3>1
  <2> QED BY <2>1, <2>2
<1>5. Chained(a, p + 1)
  BY <1>1, <1>3, <1>4 DEF Chained
<1>6. QED
  BY <1>5

-----------------------------------------------------------------------------
\* What the video thread meets at the front of its queue when the movie is played
\* forwards: a flush and a seek, from play(), and never again.
Opening == Begin \cup {"flush"}
Opens(x) == x.kind \in Opening

Fresh(q) ==
  \A i \in DOMAIN q : Opens(q[i]) =>
    \/ i = 1 /\ q[1].kind # "preroll"
    \/ i = 2 /\ q[1].kind = "flush" /\ q[2].kind = "seek"

\* An item that opens nothing can be queued behind a queue with no beginning but its first.
LEMMA FreshAppend ==
  ASSUME NEW T, NEW q \in Seq(T), NEW x \in T, Fresh(q), ~Opens(x)
  PROVE  /\ Fresh(Append(q, x)) /\ Append(q, x) # <<>>
         /\ Opens(Append(q, x)[1]) => q # <<>> /\ Opens(q[1])
<1> PICK a : a = Append(q, x)
  OBVIOUS
<1>1. /\ Len(q) \in Nat /\ DOMAIN q = 1..Len(q) /\ DOMAIN a = 1..(Len(q) + 1) /\ (q # <<>> <=> Len(q) >= 1)
      /\ a[Len(q) + 1] = x /\ \A k \in 1..Len(q) : a[k] = q[k]
  BY AppendOne
<1>2. ASSUME NEW i \in 1..(Len(q) + 1), Opens(a[i])
      PROVE  /\ i \in 1..Len(q) /\ 1 \in 1..Len(q) /\ q # <<>>
             /\ \/ i = 1 /\ a[1].kind # "preroll"
                \/ i = 2 /\ a[1].kind = "flush" /\ a[2].kind = "seek"
  <2>1. i \in 1..Len(q) /\ 1 \in 1..Len(q)
    BY <1>1, <1>2
  <2> QED BY <1>1, <1>2, <2>1 DEF Fresh
<1>3. Fresh(a)
  BY <1>1, <1>2 DEF Fresh
<1>4. Opens(a[1]) => q # <<>> /\ Opens(q[1])
  <2>1. 1 \in 1..(Len(q) + 1)
    BY <1>1
  <2> QED BY <1>1, <1>2, <2>1
<1>5. QED
  BY <1>1, <1>3, <1>4

\* Past its first element, the queue is fresh, and it goes on with a seek only after a
\* flush.
LEMMA FreshSuffix ==
  ASSUME NEW T, NEW q \in Seq(T), NEW n \in 1..Len(q), NEW q1 \in Seq(T), Suffix(q1, q, n), Fresh(q),
         n = 1 \/ q[1].kind # "flush"
  PROVE  /\ Fresh(q1)
         /\ q1 # <<>> /\ Opens(q1[1]) => q[1].kind = "flush"
<1>1. /\ Len(q1) \in Nat /\ Len(q) \in Nat /\ Len(q1) = Len(q) - n /\ DOMAIN q1 = 1..Len(q1) /\ DOMAIN q = 1..Len(q)
      /\ n \in Nat /\ (q1 # <<>> <=> Len(q1) >= 1) /\ \A i \in 1..Len(q1) : q1[i] = q[i + n] /\ i + n \in 1..Len(q)
  BY DEF Suffix
<1>2. ASSUME NEW i \in 1..Len(q1), Opens(q1[i])
      PROVE  i = 1 /\ q[1].kind = "flush" /\ q1[1].kind = "seek"
  <2>1. i + n \in 1..Len(q) /\ Opens(q[i + n]) /\ i + n # 1
    BY <1>1, <1>2
  <2>2. i + n = 2 /\ q[1].kind = "flush" /\ q[2].kind = "seek"
    BY <1>1, <2>1 DEF Fresh
  <2>3. i = 1 /\ n = 1
    BY <1>1, <2>2
  <2> QED BY <1>1, <2>2, <2>3
<1>3. QED
  BY <1>1, <1>2 DEF Fresh

-----------------------------------------------------------------------------
(***************************************************************************)
(* Items, stores and the decoder                                           *)
(***************************************************************************)

\* The items of a queue.
Loops == {"loopStart", "loopEnd"}

\* The kinds of the items of a queue, and the frame of all but the loop markers.
LEMMA ItemsAre ==
  ASSUME NEW F, NEW x \in Items(F)
  PROVE  /\ x.kind \in {"flush", "seekEnd"} \cup Begin \cup Coded \cup Loops
         /\ x.kind \notin Loops => x.frame \in F
BY DEF Items, Begin, Coded, Loops

\* The item that is made of a kind and a frame.
LEMMA ItemIs ==
  ASSUME NEW F, NEW f \in F, NEW k \in {"flush", "seekEnd"} \cup Begin \cup Coded
  PROVE  Item(k, f) \in Items(F) /\ Item(k, f).kind = k /\ Item(k, f).frame = f
BY DEF Items, Item

\* A packet of the picture is an item of its queue.
LEMMA PacketIs ==
  ASSUME NEW n \in Clip
  PROVE  \E x \in Items(Clip) : x = Item("packet", n) /\ x.kind = "packet" /\ x.frame = n
<1>1. "packet" \in {"flush", "seekEnd"} \cup Begin \cup Coded
  BY DEF Coded
<1>2. QED
  BY <1>1, ItemIs

\* What is in a sequence.
LEMMA RangeIs ==
  ASSUME NEW V, NEW s \in Seq(V)
  PROVE  /\ Range(s) \subseteq V /\ (s # <<>> => Range(s) # {})
         /\ \A i \in 1..Len(s) : s[i] \in V /\ s[i] \in Range(s)
<1>1. DOMAIN s = 1..Len(s) /\ \A i \in 1..Len(s) : s[i] \in V
  OBVIOUS
<1>2. Len(s) \in Nat /\ (s # <<>> => 1 \in 1..Len(s))
  OBVIOUS
<1>3. QED
  BY <1>1, <1>2 DEF Range

-----------------------------------------------------------------------------
\* The stores.

\* An image that is stored takes the place of another of its frame, or adds one.
LEMMA StoredIs ==
  ASSUME NEW V, NEW s \in Seq(V), NEW f \in V
  PROVE  Stored(s, f) \in Seq(V) /\ Len(Stored(s, f)) <= Len(s) + 1
<1> PICK t : t = Only(s, Range(s) \ {f})
  OBVIOUS
<1>1. t \in Seq(V) /\ Len(t) <= Len(s) /\ Len(s) \in Nat
  BY OnlyIs
<1>2. Stored(s, f) = Append(t, f)
  BY DEF Stored
<1>3. Append(t, f) \in Seq(V) /\ Len(Append(t, f)) = Len(t) + 1 /\ Len(t) \in Nat
  BY <1>1
<1>4. QED
  BY <1>1, <1>2, <1>3

\* Storing several images adds no more than their number.
LEMMA StoredAllGrows ==
  ASSUME NEW V, NEW s \in Seq(V), NEW fs \in Seq(V)
  PROVE  /\ StoredAll(s, fs) \in Seq(V) /\ Len(StoredAll(s, fs)) <= Len(s) + Len(fs)
         /\ fs = <<>> => StoredAll(s, fs) = s
<1>1. \A x \in Seq(V), y \in V : Stored(x, y) \in Seq(V)
  BY StoredIs
<1>2. PICK g : /\ StoredAll(s, fs) = g[Len(fs)] /\ g[0] = s
               /\ \A i \in 1..(Len(fs)) : g[i] = Stored(g[i - 1], fs[i])
               /\ \A i \in 0..(Len(fs)) : g[i] \in Seq(V)
  BY <1>1, StoredAllIs
<1> DEFINE n == Len(fs)
           S == {i \in 0..n : Len(g[i]) <= Len(s) + i}
<1>3. n \in Nat /\ n \in Int /\ 0 \in Int /\ 0 <= n /\ Len(s) \in Nat /\ \A i \in 1..n : fs[i] \in V
  OBVIOUS
<1>4. 0..n \subseteq S
  <2>1. 0 <= n => 0 \in S
    BY <1>2, <1>3
  <2>2. ASSUME NEW i \in (0 + 1)..n, i - 1 \in S PROVE i \in S
    <3>1. i \in 1..n /\ i - 1 \in 0..n /\ g[i - 1] \in Seq(V) /\ Len(g[i - 1]) <= Len(s) + (i - 1)
      BY <1>2, <2>2
    <3>2. Len(Stored(g[i - 1], fs[i])) <= Len(g[i - 1]) + 1 /\ g[i] = Stored(g[i - 1], fs[i])
      BY <1>2, <1>3, <3>1, StoredIs
    <3>3. Len(g[i - 1]) \in Nat /\ g[i] \in Seq(V) /\ Len(g[i]) \in Nat
      BY <1>2, <3>1
    <3> QED BY <1>3, <3>1, <3>2, <3>3
  <2> HIDE DEF S, n
  <2> QED BY <1>3, <2>1, <2>2, IntervalInduction
<1>5. n \in 0..n
  BY <1>3
<1>6. fs = <<>> => n = 0
  OBVIOUS
<1>7. QED
  BY <1>2, <1>4, <1>5, <1>6

-----------------------------------------------------------------------------
\* The decoder.

Decoders == {d \in [held : Seq(Clip), drained : BOOLEAN, images : Seq(Clip), ok : BOOLEAN, got : BOOLEAN] :
               Len(d.held) <= Delay}

\* The images that one packet may add to the store.
Burst == IF Delay = 0 THEN 1 ELSE Delay

\* One packet makes the decoder give back at most a burst of pictures, and none when it
\* is refused.
LEMMA SendIs ==
  ASSUME NEW d \in Decoders, NEW x \in Items(Clip), x.kind \notin Loops
  PROVE  /\ Send(d, x) \in Decoders
         /\ Len(Send(d, x).images) <= Len(d.images) + Burst
         /\ ~Send(d, x).ok => Send(d, x).images = d.images
<1>1. x.frame \in Clip
  BY ItemsAre
<1>2. /\ d.held \in Seq(Clip) /\ d.drained \in BOOLEAN /\ d.images \in Seq(Clip) /\ d.ok \in BOOLEAN /\ d.got \in BOOLEAN
      /\ Len(d.held) \in Nat /\ Len(d.held) <= Delay /\ Len(d.images) \in Nat /\ Delay \in Nat
      /\ d \in [held : Seq(Clip), drained : BOOLEAN, images : Seq(Clip), ok : BOOLEAN, got : BOOLEAN]
  BY MovieAssumption DEF Decoders
<1>3. CASE d.drained
  <2>1. Send(d, x) = [d EXCEPT !.ok = FALSE]
    BY <1>3 DEF Send
  <2>2. /\ Send(d, x) \in [held : Seq(Clip), drained : BOOLEAN, images : Seq(Clip), ok : BOOLEAN, got : BOOLEAN]
        /\ Send(d, x).images = d.images /\ Send(d, x).held = d.held
    BY <1>2, <2>1
  <2>3. Burst \in Nat
    BY <1>2 DEF Burst
  <2> QED BY <1>2, <2>2, <2>3 DEF Decoders
<1>4. CASE ~d.drained /\ x.kind = "null"
  <2> PICK all : all = StoredAll(d.images, d.held)
    OBVIOUS
  <2> PICK some \in BOOLEAN : some = (d.held # <<>>)
    OBVIOUS
  <2>1. all \in Seq(Clip) /\ Len(all) <= Len(d.images) + Len(d.held) /\ (d.held = <<>> => all = d.images)
    BY <1>2, StoredAllGrows
  <2>2. Send(d, x) = [d EXCEPT !.images = all, !.held = <<>>, !.drained = TRUE, !.ok = some]
    BY <1>4 DEF Send
  <2>3. <<>> \in Seq(Clip) /\ Len(<<>>) = 0
    OBVIOUS
  <2>4. Send(d, x) \in [held : Seq(Clip), drained : BOOLEAN, images : Seq(Clip), ok : BOOLEAN, got : BOOLEAN]
    BY <1>2, <2>1, <2>2, <2>3
  <2>5. Send(d, x).images = all /\ Send(d, x).held = <<>> /\ (Send(d, x).ok = some)
    BY <1>2, <2>2
  <2>6. Len(all) \in Nat /\ Len(d.held) <= Burst
    BY <1>2, <2>1 DEF Burst
  <2>7. ~Send(d, x).ok => d.held = <<>>
    BY <2>5
  <2>8. Len(all) <= Len(d.images) + Burst
    <3>1. Burst \in Nat
      BY <1>2 DEF Burst
    <3> QED BY <1>2, <2>1, <2>6, <3>1
  <2> QED BY <1>2, <2>1, <2>3, <2>4, <2>5, <2>7, <2>8 DEF Decoders
<1>5. CASE ~d.drained /\ x.kind # "null"
  <2> PICK held : held = Append(d.held, x.frame)
    OBVIOUS
  <2>1. held \in Seq(Clip) /\ Len(held) = Len(d.held) + 1 /\ held # <<>> /\ Len(held) \in Nat
    BY <1>1, <1>2
  <2>2. CASE Len(held) <= Delay
    <3>1. Send(d, x) = [d EXCEPT !.held = held, !.ok = FALSE]
      BY <1>5, <2>2 DEF Send
    <3>2. /\ Send(d, x) \in [held : Seq(Clip), drained : BOOLEAN, images : Seq(Clip), ok : BOOLEAN, got : BOOLEAN]
          /\ Send(d, x).images = d.images /\ Send(d, x).held = held
      BY <1>2, <2>1, <3>1
    <3>3. Burst \in Nat
      BY <1>2 DEF Burst
    <3> QED BY <1>2, <2>2, <3>2, <3>3 DEF Decoders
  <2>3. CASE ~(Len(held) <= Delay)
    <3> PICK rest : rest = Tail(held)
      OBVIOUS
    <3> PICK one : one = Stored(d.images, Head(held))
      OBVIOUS
    <3>1. rest \in Seq(Clip) /\ Len(rest) = Len(held) - 1 /\ Head(held) \in Clip
      BY <2>1
    <3>2. one \in Seq(Clip) /\ Len(one) <= Len(d.images) + 1
      BY <1>2, <3>1, StoredIs
    <3>3. Send(d, x) = [d EXCEPT !.held = rest, !.images = one, !.ok = TRUE]
      BY <1>5, <2>3 DEF Send
    <3>4. Send(d, x) \in [held : Seq(Clip), drained : BOOLEAN, images : Seq(Clip), ok : BOOLEAN, got : BOOLEAN]
      BY <1>2, <3>1, <3>2, <3>3
    <3>5. Send(d, x).images = one /\ Send(d, x).held = rest /\ Send(d, x).ok
      BY <1>2, <3>3
    <3>6. Burst \in Nat /\ Burst >= 1 /\ Len(rest) <= Delay /\ Len(one) \in Nat
      BY <1>2, <2>1, <3>1, <3>2 DEF Burst
    <3> QED BY <1>2, <3>2, <3>4, <3>5, <3>6 DEF Decoders
  <2> QED BY <2>2, <2>3
<1>6. QED
  BY <1>3, <1>4, <1>5

\* A segment is decoded packet by packet.
LEMMA SegmentKeeps ==
  ASSUME NEW d \in Decoders, NEW seg \in Seq({x \in Items(Clip) : x.kind \in Coded}), NEW f, NEW b
  PROVE  SegmentDecoded(d, seg, f, b) \in Decoders
<1> DEFINE T == {x \in Items(Clip) : x.kind \in Coded}
<1>1. ASSUME NEW e \in Decoders, NEW x \in T PROVE SegmentOk(e, x, f, b) \in Decoders
  <2> PICK s : s = Send(e, x)
    OBVIOUS
  <2>1. s \in Decoders
    <3>1. x \in Items(Clip) /\ x.kind \notin Loops
      BY DEF Coded, Loops
    <3> QED BY <3>1, SendIs
  <2> PICK got \in BOOLEAN : got = (s.got \/ (s.ok /\ (IF b THEN x.frame <= f ELSE x.frame >= f)))
    OBVIOUS
  <2>2. SegmentOk(e, x, f, b) = [s EXCEPT !.got = got]
    BY DEF SegmentOk
  <2> QED BY <2>1, <2>2 DEF Decoders
<1> HIDE DEF T
<1>2. PICK g : /\ SegmentDecoded(d, seg, f, b) = g[Len(seg)] /\ \A i \in 0..Len(seg) : g[i] \in Decoders
  <2>1. seg \in Seq(T)
    BY DEF T
  <2> QED BY <1>1, <2>1, SegmentDecodedIs
<1>3. Len(seg) \in 0..Len(seg)
  OBVIOUS
<1>4. QED
  BY <1>2, <1>3

-----------------------------------------------------------------------------
(***************************************************************************)
(* Reading the file: one packet                                            *)
(***************************************************************************)

\* queue_packets().

Readers ==
  [pos : 0..Len(File), vq : Seq(Items(Clip)), aq : Seq(Items(Nat)), dts : Int, adts : Int,
   video : BOOLEAN, audio : BOOLEAN]

\* What is done to a queue with a packet of frame n: it is queued, or not when playing
\* backwards; and the segment of a seek is ended when the frame is reached.
Queued(q, q1, n, f, dir, ends) ==
  \E q2 : /\ q2 = Append(q, Item("packet", n)) \/ (q2 = q /\ dir = kBackwards)
          /\ q1 = IF ends THEN Append(q2, Item("seekEnd", f)) ELSE q2

\* What ReadVideo() and ReadAudio() make of a queue.
Behind(q, n, f, dir, pf, isSeek, reached) ==
  q \o (IF Wanted(dir, pf, f) THEN <<Item("packet", n)>> ELSE <<>>)
    \o (IF reached THEN Marked(isSeek, f) ELSE <<>>)

\* What queue_packets() puts in a queue after a packet, by the cases of its code.
LEMMA QueuedIs ==
  ASSUME NEW F, NEW q \in Seq(Items(F)), NEW n \in F, NEW f \in F, NEW dir, NEW pf, NEW isSeek \in BOOLEAN,
         NEW reached \in BOOLEAN
  PROVE  /\ Behind(q, n, f, dir, pf, isSeek, reached) \in Seq(Items(F))
         /\ \A ends \in BOOLEAN : ends = (isSeek /\ reached) =>
              Queued(q, Behind(q, n, f, dir, pf, isSeek, reached), n, f, dir, ends)
<1> PICK q1 : q1 = Behind(q, n, f, dir, pf, isSeek, reached)
  OBVIOUS
<1> SUFFICES ASSUME NEW ends \in BOOLEAN, ends = (isSeek /\ reached)
             PROVE  q1 \in Seq(Items(F)) /\ Queued(q, q1, n, f, dir, ends)
  OBVIOUS
<1>1. Item("packet", n) \in Items(F) /\ Item("seekEnd", f) \in Items(F)
  BY ItemIs DEF Coded
<1> PICK x \in Items(F) : x = Item("packet", n)
  BY <1>1
<1> PICK e \in Items(F) : e = Item("seekEnd", f)
  BY <1>1
<1> PICK q2 : q2 = IF Wanted(dir, pf, f) THEN Append(q, x) ELSE q
  OBVIOUS
<1>2. q2 \in Seq(Items(F)) /\ q2 = q \o (IF Wanted(dir, pf, f) THEN <<x>> ELSE <<>>)
  BY AppendIs
<1>3. q2 = Append(q, x) \/ (q2 = q /\ dir = kBackwards)
  BY DEF Wanted
<1>4. q1 = q2 \o (IF reached THEN Marked(isSeek, f) ELSE <<>>)
  BY <1>2 DEF Behind
<1>5. CASE isSeek /\ reached
  <2>1. q1 = q2 \o <<e>>
    BY <1>4, <1>5 DEF Marked
  <2>2. q2 \o <<e>> = Append(q2, e) /\ Append(q2, e) \in Seq(Items(F))
    <3>1. q2 \in Seq(Items(F))
      BY <1>2
    <3> QED BY <3>1, AppendIs
  <2> QED BY <1>3, <1>5, <2>1, <2>2 DEF Queued
<1>6. CASE ~(isSeek /\ reached)
  <2>1. q1 = q2 \o <<>>
    BY <1>4, <1>6 DEF Marked
  <2>2. q1 = q2
    BY <1>2, <2>1, AppendIs
  <2> QED BY <1>2, <1>3, <1>6, <2>2 DEF Queued
<1>7. QED
  BY <1>5, <1>6

\* Reading a packet of the picture, and one of the sound, queues it and what goes with it.
LEMMA ReadVideoIs ==
  ASSUME NEW r \in Readers, r.pos < Len(File), NEW f \in Clip, NEW isSeek \in BOOLEAN, NEW dir, NEW n \in Clip,
         NEW r1, r1 = ReadVideo(r, f, isSeek, dir, n)
  PROVE  /\ r1 \in Readers /\ r1.aq = r.aq /\ r1.audio = r.audio /\ r1.pos = r.pos + 1
         /\ (r.video => r1.video)
         /\ Queued(r.vq, r1.vq, n, f, dir, isSeek /\ ~r.video /\ r1.video)
<1>1. /\ r.pos \in 0..Len(File) /\ r.vq \in Seq(Items(Clip)) /\ r.dts \in Int /\ r.video \in BOOLEAN
      /\ r.audio \in BOOLEAN
  BY DEF Readers
<1>2. n \in Int /\ f \in Int /\ Delay \in Int /\ Len(File) \in Nat
  BY FileIs, MovieAssumption
<1> PICK pf \in Int : pf = n - Delay
  BY <1>2
<1> PICK reached \in BOOLEAN : reached = (~r.video /\ pf >= f)
  OBVIOUS
<1> PICK q1 : q1 = Behind(r.vq, n, f, dir, pf, isSeek, reached)
  OBVIOUS
<1> PICK d \in Int : d = IF dir = kBackwards THEN Min({r.dts, pf}) ELSE Max({r.dts, pf})
  BY <1>1, MinOf, MaxOf
<1> PICK p \in 0..Len(File) : p = r.pos + 1
  BY <1>1, <1>2
<1> PICK v \in BOOLEAN : v = (r.video \/ reached)
  BY <1>1
<1>3. r1 = [r EXCEPT !.vq = q1, !.dts = d, !.video = v, !.pos = p]
  BY DEF ReadVideo, Behind
<1> PICK ends \in BOOLEAN : ends = (isSeek /\ reached)
  OBVIOUS
<1>4. q1 \in Seq(Items(Clip)) /\ Queued(r.vq, q1, n, f, dir, ends)
  BY <1>1, QueuedIs
<1>5. r1 \in Readers /\ r1.vq = q1 /\ r1.aq = r.aq /\ r1.audio = r.audio /\ r1.pos = p /\ (r1.video = v)
  BY <1>3, <1>4 DEF Readers
<1>6. ends = (isSeek /\ ~r.video /\ r1.video)
  BY <1>1, <1>5
<1>7. QED
  BY <1>4, <1>5, <1>6

\* The same of a packet of the sound.
LEMMA ReadAudioIs ==
  ASSUME NEW r \in Readers, r.pos < Len(File), NEW f \in Clip, NEW isSeek \in BOOLEAN, NEW dir, NEW n \in Nat,
         NEW r1, r1 = ReadAudio(r, f, isSeek, dir, n)
  PROVE  /\ r1 \in Readers /\ r1.vq = r.vq /\ r1.video = r.video /\ r1.pos = r.pos + 1
         /\ (r.audio => r1.audio)
         /\ Queued(r.aq, r1.aq, n, f, dir, isSeek /\ ~r.audio /\ r1.audio)
<1>1. /\ r.pos \in 0..Len(File) /\ r.aq \in Seq(Items(Nat)) /\ r.video \in BOOLEAN
      /\ r.audio \in BOOLEAN
  BY DEF Readers
<1>2. n \in Int /\ f \in Nat /\ Delay \in Int /\ Len(File) \in Nat
  BY FileIs, MovieAssumption
<1> PICK pf \in Int : pf = n - Delay
  BY <1>2
<1> PICK reached \in BOOLEAN : reached = (~r.audio /\ pf >= f)
  OBVIOUS
<1> PICK q1 : q1 = Behind(r.aq, n, f, dir, pf, isSeek, reached)
  OBVIOUS
<1> PICK p \in 0..Len(File) : p = r.pos + 1
  BY <1>1, <1>2
<1> PICK v \in BOOLEAN : v = (r.audio \/ reached)
  BY <1>1
<1>3. r1 = [r EXCEPT !.aq = q1, !.adts = pf, !.audio = v, !.pos = p]
  BY DEF ReadAudio, Behind
<1> PICK ends \in BOOLEAN : ends = (isSeek /\ reached)
  OBVIOUS
<1>4. q1 \in Seq(Items(Nat)) /\ Queued(r.aq, q1, n, f, dir, ends)
  BY <1>1, <1>2, QueuedIs
<1>5. r1 \in Readers /\ r1.aq = q1 /\ r1.vq = r.vq /\ r1.video = r.video /\ r1.pos = p /\ (r1.audio = v)
  BY <1>3, <1>4 DEF Readers
<1>6. ends = (isSeek /\ ~r.audio /\ r1.audio)
  BY <1>1, <1>5
<1>7. QED
  BY <1>4, <1>5, <1>6

\* What ReadEof() makes of the queues.
Ended(r, r1, f, isSeek) ==
  /\ r1 \in Readers /\ r1.pos = r.pos /\ r1.video = TRUE /\ r1.audio = TRUE
  /\ r.video => r1.vq = r.vq
  /\ ~r.video /\ isSeek => r1.vq = Append(Append(r.vq, Item("null", f)), Item("seekEnd", f))
  /\ ~r.video /\ ~isSeek => r1.vq = Append(r.vq, Item("null", f))
  /\ ~r.audio /\ isSeek => r1.aq = Append(r.aq, Item("seekEnd", f))
  /\ r.audio \/ ~isSeek => r1.aq = r.aq

\* At the end of the file, both streams are given what they still lack.
LEMMA ReadEofIs ==
  ASSUME NEW r \in Readers, NEW f \in Clip, NEW isSeek \in BOOLEAN
  PROVE  Ended(r, ReadEof(r, f, isSeek), f, isSeek)
<1> PICK r1 : r1 = ReadEof(r, f, isSeek)
  OBVIOUS
<1>1. /\ r.pos \in 0..Len(File) /\ r.vq \in Seq(Items(Clip)) /\ r.aq \in Seq(Items(Nat)) /\ r.video \in BOOLEAN
      /\ r.audio \in BOOLEAN
  BY DEF Readers
<1>2. f \in Nat
  BY FileIs
<1> PICK x \in Items(Clip) : x = Item("null", f)
  BY ItemIs DEF Coded
<1> PICK e \in Items(Clip) : e = Item("seekEnd", f)
  BY ItemIs DEF Coded
<1>3. e \in Items(Nat)
  BY <1>2, ItemIs
<1> PICK q : q = IF r.video THEN r.vq ELSE Append(r.vq, x) \o Marked(isSeek, f)
  OBVIOUS
<1> PICK a : a = IF r.audio THEN r.aq ELSE r.aq \o Marked(isSeek, f)
  OBVIOUS
<1>4. r1 = [r EXCEPT !.vq = q, !.aq = a, !.video = TRUE, !.audio = TRUE]
  BY DEF ReadEof
<1>5. /\ q \in Seq(Items(Clip))
      /\ q = IF r.video THEN r.vq ELSE IF isSeek THEN Append(Append(r.vq, x), e) ELSE Append(r.vq, x)
  <2>1. Append(r.vq, x) \in Seq(Items(Clip))
    BY <1>1
  <2> PICK t \in Seq(Items(Clip)) : t = Append(r.vq, x)
    BY <2>1
  <2>2. t \o <<e>> = Append(t, e) /\ Append(t, e) \in Seq(Items(Clip)) /\ t \o <<>> = t
    BY AppendIs
  <2>3. Marked(isSeek, f) = IF isSeek THEN <<e>> ELSE <<>>
    BY DEF Marked
  <2> QED BY <1>1, <2>2, <2>3
<1>6. a \in Seq(Items(Nat)) /\ a = IF ~r.audio /\ isSeek THEN Append(r.aq, e) ELSE r.aq
  <2>1. r.aq \o <<e>> = Append(r.aq, e) /\ Append(r.aq, e) \in Seq(Items(Nat)) /\ r.aq \o <<>> = r.aq
    BY <1>1, <1>3, AppendIs
  <2>2. Marked(isSeek, f) = IF isSeek THEN <<e>> ELSE <<>>
    BY DEF Marked
  <2> QED BY <1>1, <2>1, <2>2
<1>7. r1 \in Readers /\ r1.pos = r.pos /\ r1.video = TRUE /\ r1.audio = TRUE /\ r1.vq = q /\ r1.aq = a
  BY <1>4, <1>5, <1>6 DEF Readers
<1>8. Ended(r, r1, f, isSeek)
  BY <1>5, <1>6, <1>7 DEF Ended
<1>9. QED
  BY <1>8

\* The segment that a seek has begun in a queue is open until its frame is reached.
Segments(r, isSeek) ==
  /\ \A open \in BOOLEAN : open = (isSeek /\ ~r.video) => Ready(r.vq, open)
  /\ \A open \in BOOLEAN : open = (isSeek /\ ~r.audio) => Ready(r.aq, open)

\* With no end queued, an open queue stays open and a closed one closed.
LEMMA QueuedMore ==
  ASSUME NEW F, NEW q \in Seq(Items(F)), NEW n \in F, NEW f \in F, NEW dir, NEW q1,
         Queued(q, q1, n, f, dir, FALSE)
  PROVE  (Ready(q, TRUE) => Ready(q1, TRUE)) /\ (Ready(q, FALSE) => Ready(q1, FALSE))
<1> PICK x \in Items(F) : x = Item("packet", n) /\ x.kind \in Coded
  BY ItemIs DEF Coded
<1>1. q1 = Append(q, x) \/ q1 = q
  BY DEF Queued
<1>2. QED
  BY <1>1, ReadyCoded

\* With the end queued, an open queue is closed.
LEMMA QueuedEnd ==
  ASSUME NEW F, NEW q \in Seq(Items(F)), NEW n \in F, NEW f \in F, NEW dir, NEW q1,
         Queued(q, q1, n, f, dir, TRUE), Ready(q, TRUE)
  PROVE  Ready(q1, FALSE)
<1> PICK x \in Items(F) : x = Item("packet", n) /\ x.kind \in Coded
  BY ItemIs DEF Coded
<1> PICK e \in Items(F) : e = Item("seekEnd", f) /\ e.kind = "seekEnd"
  BY ItemIs
<1>1. PICK q2 : /\ q2 = Append(q, x) \/ q2 = q
                /\ q1 = Append(q2, e)
  BY DEF Queued
<1>2. q2 \in Seq(Items(F))
  BY <1>1, AppendIs
<1>3. Ready(q2, TRUE)
  BY <1>1, ReadyCoded
<1>4. QED
  BY <1>1, <1>2, <1>3, ReadyEnd

\* A call of av_read_frame() keeps the segments as they should be, and either goes on in
\* the file or ends the loop.
LEMMA ReadKeeps ==
  ASSUME NEW r \in Readers, NEW f \in Clip, NEW isSeek \in BOOLEAN, NEW dir, Segments(r, isSeek),
         NEW r1, r1 = Read(r, f, isSeek, dir)
  PROVE  /\ r1 \in Readers /\ Segments(r1, isSeek)
         /\ (r1.pos = r.pos + 1 /\ r.pos + 1 <= Len(File)) \/ Got(r1)
<1>1. /\ r.pos \in 0..Len(File) /\ r.vq \in Seq(Items(Clip)) /\ r.aq \in Seq(Items(Nat)) /\ r.video \in BOOLEAN
      /\ r.audio \in BOOLEAN
  BY DEF Readers
<1>2. f \in Nat /\ Len(File) \in Nat
  BY FileIs
<1> PICK vOpen \in BOOLEAN : vOpen = (isSeek /\ ~r.video)
  OBVIOUS
<1> PICK aOpen \in BOOLEAN : aOpen = (isSeek /\ ~r.audio)
  OBVIOUS
<1>3. Ready(r.vq, vOpen) /\ Ready(r.aq, aOpen)
  BY DEF Segments
<1> PICK vOpen1 \in BOOLEAN : vOpen1 = (isSeek /\ ~r1.video)
  OBVIOUS
<1> PICK aOpen1 \in BOOLEAN : aOpen1 = (isSeek /\ ~r1.audio)
  OBVIOUS
<1>4. SUFFICES /\ r1 \in Readers /\ Ready(r1.vq, vOpen1) /\ Ready(r1.aq, aOpen1)
               /\ (r1.pos = r.pos + 1 /\ r.pos + 1 <= Len(File)) \/ Got(r1)
  BY DEF Segments
<1>5. CASE r.pos = Len(File)
  <2>1. /\ r1 \in Readers /\ r1.pos = r.pos /\ r1.video = TRUE /\ r1.audio = TRUE
        /\ r.video => r1.vq = r.vq
        /\ ~r.video /\ isSeek => r1.vq = Append(Append(r.vq, Item("null", f)), Item("seekEnd", f))
        /\ ~r.video /\ ~isSeek => r1.vq = Append(r.vq, Item("null", f))
        /\ ~r.audio /\ isSeek => r1.aq = Append(r.aq, Item("seekEnd", f))
        /\ r.audio \/ ~isSeek => r1.aq = r.aq
    <3>1. r1 = ReadEof(r, f, isSeek)
      BY <1>5 DEF Read
    <3>2. Ended(r, ReadEof(r, f, isSeek), f, isSeek)
      BY ReadEofIs, Zenon
    <3> QED BY <3>1, <3>2 DEF Ended
  <2> PICK x \in Items(Clip) : x = Item("null", f) /\ x.kind \in Coded
    BY ItemIs DEF Coded
  <2> PICK e \in Items(Clip) : e = Item("seekEnd", f) /\ e.kind = "seekEnd"
    BY ItemIs
  <2>2. e \in Items(Nat)
    BY <1>2, ItemIs
  <2>3. vOpen1 = FALSE /\ aOpen1 = FALSE /\ Got(r1)
    BY <2>1 DEF Got
  <2>4. Ready(r1.vq, FALSE)
    <3>1. CASE r.video
      BY <1>3, <2>1, <3>1
    <3>2. CASE ~r.video /\ isSeek
      <4> PICK q \in Seq(Items(Clip)) : q = Append(r.vq, x)
        BY <1>1, AppendIs
      <4>1. Ready(q, TRUE)
        BY <1>1, <1>3, <3>2, ReadyCoded
      <4>2. Ready(Append(q, e), FALSE)
        BY <4>1, ReadyEnd
      <4> QED BY <2>1, <3>2, <4>2
    <3>3. CASE ~r.video /\ ~isSeek
      <4>1. Ready(Append(r.vq, x), FALSE)
        BY <1>1, <1>3, <3>3, ReadyCoded
      <4> QED BY <2>1, <3>3, <4>1
    <3> QED BY <3>1, <3>2, <3>3
  <2>5. Ready(r1.aq, FALSE)
    <3>1. CASE ~r.audio /\ isSeek
      <4>1. Ready(r.aq, TRUE)
        BY <1>3, <3>1
      <4>2. Ready(Append(r.aq, e), FALSE)
        BY <1>1, <2>2, <4>1, ReadyEnd
      <4> QED BY <2>1, <3>1, <4>2
    <3>2. CASE ~(~r.audio /\ isSeek)
      BY <1>1, <1>3, <2>1, <3>2
    <3> QED BY <3>1, <3>2
  <2> QED BY <2>1, <2>3, <2>4, <2>5
<1>6. CASE r.pos # Len(File)
  <2> DEFINE p == File[r.pos + 1]
  <2>1. r.pos + 1 \in 1..Len(File) /\ r.pos < Len(File) /\ r.pos + 1 <= Len(File)
    BY <1>1, <1>2, <1>6
  <2>2. /\ p.stream = "video" => p.frame \in Clip
        /\ p.frame \in Nat
    BY <2>1, FileIs
  <2>3. CASE p.stream = "video"
    <3> PICK n \in Clip : n = p.frame
      BY <2>2, <2>3
    <3>1. r1 = ReadVideo(r, f, isSeek, dir, n)
      BY <1>6, <2>3 DEF Read
    <3> PICK ends \in BOOLEAN : ends = (isSeek /\ ~r.video /\ r1.video)
      OBVIOUS
    <3>2. /\ r1 \in Readers /\ r1.aq = r.aq /\ r1.audio = r.audio /\ r1.pos = r.pos + 1
          /\ (r.video => r1.video) /\ Queued(r.vq, r1.vq, n, f, dir, ends)
      BY <2>1, <3>1, ReadVideoIs
    <3>3. (ends => vOpen /\ ~vOpen1) /\ (~ends => vOpen1 = vOpen)
      BY <1>1, <3>2 DEF Readers
    <3>4. Ready(r1.vq, vOpen1)
      <4>1. r.vq \in Seq(Items(Clip)) /\ Ready(r.vq, vOpen)
        BY <1>1, <1>3
      <4>2. CASE ends
        <5>1. Ready(r.vq, TRUE) /\ Queued(r.vq, r1.vq, n, f, dir, TRUE) /\ vOpen1 = FALSE
          BY <3>2, <3>3, <4>1, <4>2
        <5> QED BY <1>2, <4>1, <5>1, QueuedEnd
      <4>3. CASE ~ends
        <5>1. Queued(r.vq, r1.vq, n, f, dir, FALSE) /\ vOpen1 = vOpen
          BY <3>2, <3>3, <4>3
        <5>2. Ready(r1.vq, vOpen)
          <6>1. (Ready(r.vq, TRUE) => Ready(r1.vq, TRUE)) /\ (Ready(r.vq, FALSE) => Ready(r1.vq, FALSE))
            BY <4>1, <5>1, QueuedMore
          <6>2. vOpen = TRUE \/ vOpen = FALSE
            OBVIOUS
          <6> QED BY <4>1, <6>1, <6>2
        <5> QED BY <5>1, <5>2
      <4> QED BY <4>2, <4>3
    <3>5. aOpen1 = aOpen
      BY <3>2
    <3> QED BY <1>3, <2>1, <3>2, <3>4, <3>5
  <2>4. CASE p.stream # "video"
    <3> PICK n \in Nat : n = p.frame
      BY <2>2
    <3>1. r1 = ReadAudio(r, f, isSeek, dir, n)
      BY <1>6, <2>4 DEF Read
    <3> PICK ends \in BOOLEAN : ends = (isSeek /\ ~r.audio /\ r1.audio)
      OBVIOUS
    <3>2. /\ r1 \in Readers /\ r1.vq = r.vq /\ r1.video = r.video /\ r1.pos = r.pos + 1
          /\ (r.audio => r1.audio) /\ Queued(r.aq, r1.aq, n, f, dir, ends)
      BY <2>1, <3>1, ReadAudioIs
    <3>3. (ends => aOpen /\ ~aOpen1) /\ (~ends => aOpen1 = aOpen)
      BY <1>1, <3>2 DEF Readers
    <3>4. Ready(r1.aq, aOpen1)
      <4>1. r.aq \in Seq(Items(Nat)) /\ Ready(r.aq, aOpen)
        BY <1>1, <1>3
      <4>2. CASE ends
        <5>1. Ready(r.aq, TRUE) /\ Queued(r.aq, r1.aq, n, f, dir, TRUE) /\ aOpen1 = FALSE
          BY <3>2, <3>3, <4>1, <4>2
        <5> QED BY <1>2, <4>1, <5>1, QueuedEnd
      <4>3. CASE ~ends
        <5>1. Queued(r.aq, r1.aq, n, f, dir, FALSE) /\ aOpen1 = aOpen
          BY <3>2, <3>3, <4>3
        <5> PICK m \in Nat : m = f
          BY <1>2
        <5>2. Queued(r.aq, r1.aq, n, m, dir, FALSE)
          BY <5>1
        <5>3. Ready(r1.aq, aOpen)
          <6>1. (Ready(r.aq, TRUE) => Ready(r1.aq, TRUE)) /\ (Ready(r.aq, FALSE) => Ready(r1.aq, FALSE))
            BY <4>1, <5>2, QueuedMore
          <6>2. aOpen = TRUE \/ aOpen = FALSE
            OBVIOUS
          <6> QED BY <4>1, <6>1, <6>2
        <5> QED BY <5>1, <5>3
      <4> QED BY <4>2, <4>3
    <3>5. vOpen1 = vOpen
      BY <3>2
    <3> QED BY <1>3, <2>1, <3>2, <3>4, <3>5
  <2> QED BY <2>3, <2>4
<1>7. QED
  BY <1>5, <1>6

\* Reading forwards: the pictures are queued in their order, and nothing is begun.  b is
\* what is known of what was.
Forth(r, b) ==
  /\ Chained(r.vq, r.pos) /\ Fresh(r.vq)
  /\ r.vq # <<>> /\ Opens(r.vq[1]) => b

\* A mark that opens nothing, queued forwards, leaves the pictures in order.
LEMMA ForthMark ==
  ASSUME NEW q \in Seq(Items(Clip)), NEW p, NEW b, Chained(q, p), Fresh(q), q # <<>> /\ Opens(q[1]) => b,
         NEW x \in Items(Clip), ~Opens(x), x.kind # "packet", NEW q1, q1 = Append(q, x)
  PROVE  /\ q1 \in Seq(Items(Clip)) /\ Chained(q1, p) /\ Fresh(q1)
         /\ q1 # <<>> /\ Opens(q1[1]) => b
<1>1. q1 \in Seq(Items(Clip))
  BY AppendIs
<1>2. Chained(q1, p)
  BY ChainedMark
<1>3. Fresh(q1) /\ (Opens(q1[1]) => q # <<>> /\ Opens(q[1]))
  BY FreshAppend
<1>4. QED
  BY <1>1, <1>2, <1>3

\* Forwards, a packet that is read follows the pictures that are queued.
LEMMA ReadForth ==
  ASSUME NEW r \in Readers, NEW f \in Clip, NEW isSeek \in BOOLEAN, NEW dir, dir # kBackwards, NEW b, Forth(r, b),
         NEW r1, r1 = Read(r, f, isSeek, dir)
  PROVE  Forth(r1, b)
<1>1. /\ r.pos \in 0..Len(File) /\ r.vq \in Seq(Items(Clip)) /\ r.video \in BOOLEAN
  BY DEF Readers
<1>2. f \in Nat /\ Len(File) \in Nat
  BY FileIs
<1>3. Chained(r.vq, r.pos) /\ Fresh(r.vq) /\ (r.vq # <<>> /\ Opens(r.vq[1]) => b)
  BY DEF Forth
<1> PICK e \in Items(Clip) : e = Item("seekEnd", f) /\ e.kind = "seekEnd"
  BY ItemIs
<1>4. ~Opens(e) /\ e.kind # "packet"
  BY DEF Opens, Opening, Begin
<1>5. CASE r.pos = Len(File)
  <2>1. /\ r1 \in Readers /\ r1.pos = r.pos /\ r1.video = TRUE /\ r1.audio = TRUE
        /\ r.video => r1.vq = r.vq
        /\ ~r.video /\ isSeek => r1.vq = Append(Append(r.vq, Item("null", f)), Item("seekEnd", f))
        /\ ~r.video /\ ~isSeek => r1.vq = Append(r.vq, Item("null", f))
        /\ ~r.audio /\ isSeek => r1.aq = Append(r.aq, Item("seekEnd", f))
        /\ r.audio \/ ~isSeek => r1.aq = r.aq
    <3>1. r1 = ReadEof(r, f, isSeek)
      BY <1>5 DEF Read
    <3>2. Ended(r, ReadEof(r, f, isSeek), f, isSeek)
      BY ReadEofIs, Zenon
    <3> QED BY <3>1, <3>2 DEF Ended
  <2> PICK x \in Items(Clip) : x = Item("null", f) /\ x.kind = "null"
    BY ItemIs DEF Coded
  <2>2. ~Opens(x) /\ x.kind # "packet"
    BY DEF Opens, Opening, Begin
  <2> PICK q : q = Append(r.vq, x)
    OBVIOUS
  <2>3. q \in Seq(Items(Clip)) /\ Chained(q, r.pos) /\ Fresh(q) /\ (q # <<>> /\ Opens(q[1]) => b)
    BY <1>1, <1>3, <2>2, ForthMark
  <2> PICK s : s = Append(q, e)
    OBVIOUS
  <2>4. Chained(s, r.pos) /\ Fresh(s) /\ (s # <<>> /\ Opens(s[1]) => b)
    BY <1>4, <2>3, ForthMark
  <2>5. r1.vq = r.vq \/ r1.vq = q \/ r1.vq = s
    BY <1>1, <2>1
  <2> QED BY <1>3, <2>1, <2>3, <2>4, <2>5 DEF Forth
<1>6. CASE r.pos # Len(File)
  <2> DEFINE p == File[r.pos + 1]
  <2>1. r.pos + 1 \in 1..Len(File) /\ r.pos < Len(File) /\ r.pos + 1 <= Len(File) /\ r.pos \in Nat
    BY <1>1, <1>2, <1>6
  <2>2. /\ p.stream = "video" => p.frame \in Clip
        /\ p.frame \in Nat
    BY <2>1, FileIs
  <2>3. CASE p.stream = "video"
    <3> PICK n \in Clip : n = p.frame
      BY <2>2, <2>3
    <3>1. r1 = ReadVideo(r, f, isSeek, dir, n)
      BY <1>6, <2>3 DEF Read
    <3> PICK ends \in BOOLEAN : ends = (isSeek /\ ~r.video /\ r1.video)
      OBVIOUS
    <3>2. r1.pos = r.pos + 1 /\ Queued(r.vq, r1.vq, n, f, dir, ends)
      BY <2>1, <3>1, ReadVideoIs
    <3> PICK x \in Items(Clip) : x = Item("packet", n) /\ x.kind = "packet" /\ x.frame = n
      BY PacketIs, Zenon
    <3>3. ~Opens(x)
      BY DEF Opens, Opening, Begin
    <3> PICK q : q = Append(r.vq, x)
      OBVIOUS
    <3>4. r1.vq = IF ends THEN Append(q, e) ELSE q
      BY <3>2 DEF Queued
    <3>5. Chained(q, r1.pos) /\ q \in Seq(Items(Clip))
      BY <1>1, <1>3, <2>1, <2>3, <3>2, ChainedPicture, AppendIs
    <3>6. Fresh(q) /\ (q # <<>> /\ Opens(q[1]) => b)
      BY <1>1, <1>3, <3>3, FreshAppend
    <3> PICK s : s = Append(q, e)
      OBVIOUS
    <3>7. Chained(s, r1.pos) /\ Fresh(s) /\ (s # <<>> /\ Opens(s[1]) => b)
      BY <1>4, <3>5, <3>6, ForthMark
    <3> QED BY <3>4, <3>5, <3>6, <3>7 DEF Forth
  <2>4. CASE p.stream # "video"
    <3> PICK n \in Nat : n = p.frame
      BY <2>2
    <3>1. r1 = ReadAudio(r, f, isSeek, dir, n)
      BY <1>6, <2>4 DEF Read
    <3>2. r1.vq = r.vq /\ r1.pos = r.pos + 1
      BY <2>1, <3>1, ReadAudioIs
    <3>3. Chained(r.vq, r.pos + 1)
      BY <1>3, <2>1, <2>4, ChainedSkip
    <3> QED BY <1>3, <3>2, <3>3 DEF Forth
  <2> QED BY <2>3, <2>4
<1>7. QED
  BY <1>5, <1>6

-----------------------------------------------------------------------------
(***************************************************************************)
(* Reading the file: the loop of queue_packets()                           *)
(***************************************************************************)

\* What one turn does, from r to r1.
Turns(r, r1, isSeek, dir) ==
  /\ r1 \in Readers /\ Segments(r1, isSeek)
  /\ (r1.pos = r.pos + 1 /\ r.pos + 1 <= Len(File)) \/ Got(r1)
  /\ dir # kBackwards /\ Forth(r, TRUE) => Forth(r1, TRUE)

\* A turn of the loop of queue_packets() reads one more packet or is the last.
LEMMA TurnKeeps ==
  ASSUME NEW r \in Readers, NEW f \in Clip, NEW isSeek \in BOOLEAN, NEW dir, Segments(r, isSeek)
  PROVE  Turns(r, Turn(r, f, isSeek, dir), isSeek, dir)
<1> PICK r1 : r1 = Turn(r, f, isSeek, dir)
  OBVIOUS
<1>1. CASE Got(r)
  BY <1>1 DEF Turn, Turns
<1>2. CASE ~Got(r)
  <2>1. r1 = Read(r, f, isSeek, dir)
    BY <1>2 DEF Turn
  <2>2. /\ r1 \in Readers /\ Segments(r1, isSeek)
        /\ (r1.pos = r.pos + 1 /\ r.pos + 1 <= Len(File)) \/ Got(r1)
    BY <2>1, ReadKeeps, Zenon
  <2>3. dir # kBackwards /\ Forth(r, TRUE) => Forth(r1, TRUE)
    BY <2>1, ReadForth, Zenon
  <2>4. Turns(r, r1, isSeek, dir)
    BY <2>2, <2>3 DEF Turns
  <2> QED BY <2>4
<1>3. QED
  BY <1>1, <1>2

\* What is known of the reader when the loop is done.
Through(r, r1, isSeek, dir) ==
  /\ r1 \in Readers /\ Segments(r1, isSeek) /\ Got(r1)
  /\ dir # kBackwards /\ Forth(r, TRUE) => Forth(r1, TRUE)

\* The whole loop of queue_packets() ends with both streams served, the segments closed
\* and the pictures in order.
LEMMA ReadAllKeeps ==
  ASSUME NEW r \in Readers, NEW f \in Clip, NEW isSeek \in BOOLEAN, NEW dir, Segments(r, isSeek)
  PROVE  Through(r, ReadAll(r, f, isSeek, dir), isSeek, dir)
<1> DEFINE V == {x \in Readers : /\ Segments(x, isSeek)
                                 /\ dir # kBackwards /\ Forth(r, TRUE) => Forth(x, TRUE)}
           n == Len(File) - r.pos + 1
<1>1. r.pos \in 0..Len(File) /\ Len(File) \in Nat
  BY FileIs DEF Readers
<1>2. ASSUME NEW x \in V
      PROVE  /\ Turn(x, f, isSeek, dir) \in V
             /\ (Turn(x, f, isSeek, dir).pos = x.pos + 1) \/ Got(Turn(x, f, isSeek, dir))
  <2> PICK y : y = Turn(x, f, isSeek, dir)
    OBVIOUS
  <2>1. /\ x \in Readers /\ Segments(x, isSeek)
        /\ dir # kBackwards /\ Forth(r, TRUE) => Forth(x, TRUE)
    BY DEF V
  <2>2. /\ y \in Readers /\ Segments(y, isSeek)
        /\ (y.pos = x.pos + 1 /\ x.pos + 1 <= Len(File)) \/ Got(y)
        /\ dir # kBackwards /\ Forth(x, TRUE) => Forth(y, TRUE)
    <3>1. Turns(x, Turn(x, f, isSeek, dir), isSeek, dir)
      BY <2>1, TurnKeeps, Zenon
    <3> QED BY <3>1 DEF Turns
  <2>3. y \in V
    BY <2>1, <2>2 DEF V
  <2> HIDE DEF V
  <2> QED BY <2>2, <2>3
<1>3. r \in V
  OBVIOUS
<1>4. \A x \in V : x.pos \in 0..Len(File)
  BY DEF V, Readers
<1>5. \A x \in V : Through(r, x, isSeek, dir) <=> Got(x)
  BY DEF V, Through
<1>6. n \in Nat /\ n \in Int /\ 0 \in Int /\ 0 <= n /\ n \in 0..n
  BY <1>1
<1> HIDE DEF V
<1>7. PICK g : /\ ReadAll(r, f, isSeek, dir) = g[n] /\ g[0] = r
               /\ \A i \in 1..n : g[i] = Turn(g[i - 1], f, isSeek, dir)
               /\ \A i \in 0..n : g[i] \in V
  <2>1. \A x \in V : Turn(x, f, isSeek, dir) \in V
    BY <1>2, Zenon
  <2>2. r.pos \in 0..Len(File)
    BY <1>1
  <2>3. PICK g : ReadBy(g, V, r, f, isSeek, dir)
    BY <1>3, <2>1, <2>2, ReadAllIs, Zenon
  <2> QED BY <2>3, Zenon DEF ReadBy
<1> DEFINE S == {i \in 0..n : Got(g[i]) \/ g[i].pos >= r.pos + i}
<1>8. 0..n \subseteq S
  <2>1. 0 <= n => 0 \in S
    <3>1. 0 \in 0..n /\ r.pos >= r.pos + 0
      BY <1>1, <1>6
    <3> QED BY <1>7, <3>1
  <2>2. ASSUME NEW i \in (0 + 1)..n, i - 1 \in S PROVE i \in S
    <3>1. i \in 1..n /\ i - 1 \in 0..n /\ i \in 0..n /\ i \in Int
      BY <1>6, <2>2
    <3>2. g[i] = Turn(g[i - 1], f, isSeek, dir) /\ g[i - 1] \in V
      BY <1>7, <3>1
    <3>3. CASE Got(g[i - 1])
      <4>1. g[i] = g[i - 1]
        BY <3>2, <3>3 DEF Turn
      <4> QED BY <3>1, <3>3, <4>1
    <3>4. CASE g[i - 1].pos >= r.pos + (i - 1)
      <4>1. (g[i].pos = g[i - 1].pos + 1) \/ Got(g[i])
        BY <1>2, <3>2
      <4>2. g[i - 1].pos \in Int
        BY <1>1, <1>4, <3>2
      <4>3. g[i].pos = g[i - 1].pos + 1 => g[i].pos >= r.pos + i
        BY <1>1, <3>1, <3>4, <4>2
      <4> QED BY <3>1, <4>1, <4>3
    <3> QED BY <2>2, <3>3, <3>4
  <2> HIDE DEF S, n
  <2> QED BY <1>6, <2>1, <2>2, IntervalInduction
<1>9. g[n] \in V /\ n \in S
  BY <1>6, <1>7, <1>8
<1>10. Got(g[n])
  <2>1. g[n].pos \in 0..Len(File)
    BY <1>4, <1>9
  <2>2. ~(g[n].pos >= r.pos + n)
    BY <1>1, <2>1
  <2> QED BY <1>9, <2>2
<1>11. QED
  BY <1>5, <1>7, <1>9, <1>10

-----------------------------------------------------------------------------
\* A seek.

\* A seek lands in the file.
LEMMA SeekPosIs ==
  ASSUME NEW f \in Clip
  PROVE  SeekPos(f) \in 0..Len(File)
<1> DEFINE T == {i \in DOMAIN File : File[i].stream = "video" /\ File[i].key /\ File[i].frame <= f + 1}
<1>1. Len(File) \in Nat /\ DOMAIN File = 1..Len(File) /\ f \in Nat
  BY FileIs
<1>2. T \subseteq 0..Len(File)
  BY <1>1
<1>3. T # {}
  <2>1. PICK i \in DOMAIN File : File[i] = [stream |-> "video", frame |-> FrameIn, key |-> TRUE]
    BY MovieAssumption
  <2>2. FrameIn <= f + 1
    BY <1>1 DEF FrameIn
  <2> QED BY <2>1, <2>2
<1>4. T \subseteq 1..Len(File)
  BY <1>1
<1>5. SeekPos(f) = Max(T) - 1
  BY DEF SeekPos
<1> HIDE DEF T
<1>6. Max(T) \in T
  BY <1>1, <1>2, <1>3, GreatestOf
<1> PICK m \in 1..Len(File) : m = Max(T)
  BY <1>4, <1>6
<1>7. SeekPos(f) = m - 1
  BY <1>5
<1>8. QED
  BY <1>1, <1>7

\* A time stamp that is clamped is of a frame of the clip.
LEMMA ClampIs == ASSUME NEW d \in Int PROVE Clamp(d) \in Clip
BY FileIs DEF Clamp

\* A seek asks for a frame of the clip.
LEMMA SeekDtsIs ==
  ASSUME NEW f \in Clip, NEW dir, NEW d \in Clip
  PROVE  SeekDts(f, dir, d) \in Clip
<1>1. f \in Int /\ d \in Int /\ Delay \in Int
  BY FileIs, MovieAssumption
<1> PICK s \in Int : s = IF d > FrameIn /\ d < FrameOut THEN d + Delay ELSE d
  BY <1>1
<1> PICK t \in Int : t = IF s >= f THEN f - 1 ELSE s
  BY <1>1
<1>2. Clamp(t) \in Clip
  BY ClampIs
<1>3. SeekDts(f, dir, d) = IF dir = kBackwards THEN Clamp(t) ELSE d
  BY DEF SeekDts
<1>4. QED
  BY <1>2, <1>3

\* What a seek makes of the queues: their new segments have their ends.
Sought(r0, r1, dir) ==
  /\ r1 \in Readers /\ Closed(r1.vq) /\ Closed(r1.aq) /\ r1.dts \in Clip
  /\ dir = kForwards /\ r0.vq = <<>> => Chained(r1.vq, r1.pos) /\ Fresh(r1.vq)

\* The flush and the beginning of a seek are two items more.
LEMMA BeginIs ==
  ASSUME NEW T, NEW q \in Seq(T), NEW x \in T, NEW y \in T
  PROVE  q \o <<x, y>> = Append(Append(q, x), y) /\ Append(Append(q, x), y) \in Seq(T) /\ Append(q, x) \in Seq(T)
OBVIOUS

\* They open a closed queue.
LEMMA BeginReady ==
  ASSUME NEW T, NEW q \in Seq(T), Closed(q), NEW x \in T, NEW y \in T, x.kind = "flush", y.kind \in Begin
  PROVE  q \o <<x, y>> \in Seq(T) /\ Ready(q \o <<x, y>>, TRUE)
<1>1. Closed(Append(q, x))
  BY ClosedAppend DEF Begin
<1> PICK q1 \in Seq(T) : q1 = Append(q, x)
  BY BeginIs
<1>2. Ready(Append(q1, y), TRUE)
  BY <1>1, ReadyBegin
<1>3. q \o <<x, y>> = Append(q1, y) /\ Append(q1, y) \in Seq(T)
  BY BeginIs
<1>4. QED
  BY <1>2, <1>3

\* The queue of play() before anything is read: no packets, and a flush and a seek.
LEMMA BeginForth ==
  ASSUME NEW T, NEW x \in T, NEW y \in T, x.kind = "flush", y.kind \in Begin, NEW q, q = <<x, y>>, NEW p
  PROVE  Chained(q, p) /\ (y.kind = "seek" => Fresh(q))
<1>1. DOMAIN q = 1..2 /\ q[1] = x /\ q[2] = y
  OBVIOUS
<1>2. \A i \in 1..2 : q[i].kind # "packet"
  BY <1>1 DEF Begin
<1>3. \A i \in 1..2 : i = 1 \/ i = 2
  OBVIOUS
<1>4. Chained(q, p)
  BY <1>1, <1>2 DEF Chained
<1>5. y.kind = "seek" => Fresh(q)
  BY <1>1, <1>3 DEF Fresh
<1>6. QED
  BY <1>4, <1>5

-----------------------------------------------------------------------------
(***************************************************************************)
(* Seeking, and opening the movie                                          *)
(***************************************************************************)

\* The frames of the clip are numbers.
LEMMA ClipIs == Clip \subseteq Nat /\ Clip \subseteq Int
BY MovieAssumption DEF Clip, FrameIn

Redates(r, r1, d) ==
  r1 \in Readers /\ r1.vq = r.vq /\ r1.aq = r.aq /\ r1.dts = d /\ r1.pos = r.pos

\* What is read keeps everything but its time stamps when they are set again.
LEMMA RedatedIs ==
  ASSUME NEW r \in Readers, NEW d \in Int
  PROVE  Redates(r, Redated(r, d), d)
BY DEF Redated, Redates, Readers

\* After a seek, whichever of its ways it goes, both queues are closed and, forwards, the
\* pictures in order from the beginning on.
LEMMA SeekResultIs ==
  ASSUME NEW r0 \in Readers, Closed(r0.vq), Closed(r0.aq), ~r0.video, ~r0.audio,
         NEW f \in Clip, NEW dir, NEW seekReq \in BOOLEAN
  PROVE  Sought(r0, SeekResult(r0, f, dir, seekReq), dir)
<1> PICK x \in Items(Clip) : x = Item("flush", f) /\ x.kind = "flush"
  BY ItemIs
<1> PICK kind \in Begin : kind = IF ~seekReq /\ dir = kBackwards THEN "preroll" ELSE "seek"
  BY DEF Begin
<1> PICK y \in Items(Clip) : y = Item(kind, f) /\ y.kind = kind
  BY ItemIs
<1>1. x \in Items(Nat) /\ y \in Items(Nat)
  <2> PICK n \in Nat : n = f
    BY ClipIs
  <2>1. Item("flush", n) \in Items(Nat) /\ Item(kind, n) \in Items(Nat)
    BY ItemIs
  <2> QED BY <2>1
<1>2. Begins(f, dir, seekReq) = <<x, y>>
  BY DEF Begins
<1>3. r0.vq \in Seq(Items(Clip)) /\ r0.aq \in Seq(Items(Nat))
  BY DEF Readers
<1> PICK v \in Seq(Items(Clip)) : v = r0.vq \o <<x, y>> /\ Ready(v, TRUE)
  <2>1. r0.vq \o <<x, y>> \in Seq(Items(Clip)) /\ Ready(r0.vq \o <<x, y>>, TRUE)
    BY <1>3, BeginReady
  <2> QED BY <2>1
<1> PICK a \in Seq(Items(Nat)) : a = r0.aq \o <<x, y>> /\ Ready(a, TRUE)
  <2>1. r0.aq \o <<x, y>> \in Seq(Items(Nat)) /\ Ready(r0.aq \o <<x, y>>, TRUE)
    BY <1>1, <1>3, BeginReady
  <2> QED BY <2>1
<1> PICK p \in 0..Len(File) : p = SeekPos(f)
  BY SeekPosIs
<1> PICK r1 : r1 = [r0 EXCEPT !.pos = p, !.vq = v, !.aq = a]
  OBVIOUS
<1>4. /\ r1 \in Readers /\ r1.vq = v /\ r1.aq = a /\ r1.pos = p /\ r1.video = r0.video /\ r1.audio = r0.audio
  BY DEF Readers
<1>5. r1 = [r0 EXCEPT !.pos = SeekPos(f), !.vq = @ \o Begins(f, dir, seekReq), !.aq = @ \o Begins(f, dir, seekReq)]
  BY <1>2
<1>6. Segments(r1, TRUE)
  BY <1>4 DEF Segments
<1> PICK r : r = ReadAll(r1, f, TRUE, dir)
  OBVIOUS
<1>7. Through(r1, r, TRUE, dir)
  BY <1>4, <1>6, ReadAllKeeps
<1>8. r \in Readers /\ Closed(r.vq) /\ Closed(r.aq)
  <2>1. r \in Readers /\ Segments(r, TRUE) /\ Got(r)
    BY <1>7 DEF Through
  <2>2. Ready(r.vq, FALSE) /\ Ready(r.aq, FALSE)
    BY <2>1 DEF Segments, Got
  <2> QED BY <2>1, <2>2 DEF Ready
<1>9. dir = kForwards /\ r0.vq = <<>> => Chained(r.vq, r.pos) /\ Fresh(r.vq)
  <2> SUFFICES ASSUME dir = kForwards, r0.vq = <<>> PROVE Chained(r.vq, r.pos) /\ Fresh(r.vq)
    OBVIOUS
  <2>1. v = <<x, y>> /\ y.kind = "seek" /\ dir # kBackwards
    BY DEF kForwards, kBackwards
  <2>2. Chained(v, p) /\ Fresh(v)
    BY <2>1, BeginForth
  <2>3. Forth(r1, TRUE)
    BY <1>4, <2>2 DEF Forth
  <2>4. Forth(r, TRUE)
    BY <1>7, <2>1, <2>3 DEF Through
  <2> QED BY <2>4 DEF Forth
<1> PICK d \in Clip : d = SeekDts(f, dir, Clamp(r.dts))
  <2>1. r.dts \in Int
    BY <1>8 DEF Readers
  <2> QED BY <2>1, ClampIs, SeekDtsIs
<1>10. d \in Int
  BY ClipIs
<1> PICK s : s = Redated(r, d)
  OBVIOUS
<1>11. SeekResult(r0, f, dir, seekReq) = s
  <2>1. SeekResult(r0, f, dir, seekReq) =
          Strictly(LAMBDA w : Redated(w, SeekDts(f, dir, Clamp(w.dts))), ReadAll(r1, f, TRUE, dir))
    BY <1>5 DEF SeekResult
  <2> QED BY <2>1 DEF Strictly
<1>12. s \in Readers /\ s.vq = r.vq /\ s.aq = r.aq /\ s.dts = d /\ s.pos = r.pos
  <2>1. r \in Readers
    BY <1>8
  <2>2. Redates(r, Redated(r, d), d)
    BY <2>1, <1>10, RedatedIs
  <2> QED BY <2>2 DEF Redates
<1>13. Sought(r0, s, dir)
  BY <1>8, <1>9, <1>12 DEF Sought
<1>14. QED
  BY <1>11, <1>13

-----------------------------------------------------------------------------
\* populate().

OpenReaders ==
  [pos : 0..Len(File), vq : Seq(Items(Clip)), aq : Seq(Items(Nat)), adts : Int, video : BOOLEAN, audio : BOOLEAN,
   d : Decoders]

\* It queues packets, and nothing else.
Plain(q) == \A i \in DOMAIN q : q[i].kind = "packet"

\* A packet can be queued behind packets.
LEMMA PlainAppend ==
  ASSUME NEW F, NEW q \in Seq(Items(F)), NEW f \in F, Plain(q)
  PROVE  Append(q, Item("packet", f)) \in Seq(Items(F)) /\ Plain(Append(q, Item("packet", f)))
<1> PICK x \in Items(F) : x = Item("packet", f) /\ x.kind = "packet"
  BY ItemIs DEF Coded
<1> PICK a : a = Append(q, x)
  OBVIOUS
<1>1. /\ Len(q) \in Nat /\ DOMAIN q = 1..Len(q) /\ DOMAIN a = 1..(Len(q) + 1) /\ a \in Seq(Items(F))
      /\ a[Len(q) + 1] = x /\ \A k \in 1..Len(q) : a[k] = q[k]
  BY AppendOne, AppendIs
<1>2. \A k \in 1..(Len(q) + 1) : k \in 1..Len(q) \/ k = Len(q) + 1
  BY <1>1
<1>3. Plain(a)
  BY <1>1, <1>2 DEF Plain
<1>4. QED
  BY <1>1, <1>3

\* A queue of packets has no segment to close.
LEMMA PlainClosed == ASSUME NEW q, Plain(q) PROVE Closed(q)
BY DEF Plain, Closed, Begin

Populates(r) == r \in OpenReaders /\ Plain(r.vq) /\ Plain(r.aq)

\* Reading a packet as the movie is opened keeps the queues plain and the decoder a decoder.
LEMMA PopulateKeeps ==
  ASSUME NEW r, Populates(r), NEW i \in 1..Len(File)
  PROVE  Populates(Populate(r, i))
<1> PICK r1 : r1 = Populate(r, i)
  OBVIOUS
<1> DEFINE p == File[i]
<1>1. /\ r.pos \in 0..Len(File) /\ r.vq \in Seq(Items(Clip)) /\ r.aq \in Seq(Items(Nat)) /\ r.adts \in Int
      /\ r.video \in BOOLEAN /\ r.audio \in BOOLEAN /\ r.d \in Decoders /\ Plain(r.vq) /\ Plain(r.aq) /\ r \in OpenReaders
  BY DEF Populates, OpenReaders
<1>2. /\ p.stream \in {"video", "audio"} /\ p.frame \in Nat /\ i \in 0..Len(File) /\ Delay \in Int
      /\ p.stream = "video" => p.frame \in Clip
  BY FileIs, MovieAssumption
<1>3. CASE Got(r)
  BY <1>3 DEF Populate
<1>4. CASE ~Got(r) /\ p.stream = "audio"
  <2> PICK n \in Nat : n = p.frame
    BY <1>2
  <2> PICK q \in Seq(Items(Nat)) : q = Append(r.aq, Item("packet", n)) /\ Plain(q)
    BY <1>1, PlainAppend
  <2> PICK m \in Int : m = n - Delay
    BY <1>2
  <2> PICK b \in BOOLEAN : b = (r.audio \/ m >= FrameIn)
    BY <1>1
  <2>1. r1 = [r EXCEPT !.aq = q, !.adts = m, !.audio = b, !.pos = i]
    BY <1>4 DEF Populate
  <2>2. r1 \in OpenReaders /\ r1.vq = r.vq /\ r1.aq = q
    BY <1>1, <1>2, <2>1 DEF OpenReaders
  <2>3. Populates(r1)
    BY <1>1, <2>2 DEF Populates
  <2> QED BY <2>3
<1>5. CASE ~Got(r) /\ p.stream = "video"
  <2> PICK n \in Clip : n = p.frame
    BY <1>2, <1>5
  <2>1. CASE r.video
    <3> PICK q \in Seq(Items(Clip)) : q = Append(r.vq, Item("packet", n)) /\ Plain(q)
      BY <1>1, PlainAppend
    <3>1. r1 = [r EXCEPT !.vq = q, !.pos = i]
      BY <1>5, <2>1 DEF Populate
    <3>2. r1 \in OpenReaders /\ r1.vq = q /\ r1.aq = r.aq
      BY <1>1, <1>2, <3>1 DEF OpenReaders
    <3>3. Populates(r1)
      BY <1>1, <3>2 DEF Populates
    <3> QED BY <3>3
  <2>2. CASE ~r.video
    <3> PICK x \in Items(Clip) : x = Item("packet", n) /\ x.kind \notin Loops
      BY ItemIs DEF Coded, Loops
    <3> PICK d : d = Send(r.d, x)
      OBVIOUS
    <3>1. d \in Decoders
      BY <1>1, SendIs
    <3> PICK b \in BOOLEAN : b = d.ok
      BY <3>1 DEF Decoders
    <3>2. r1 = [r EXCEPT !.d = d, !.video = b, !.pos = i]
      BY <1>5, <2>2 DEF Populate
    <3>3. r1 \in OpenReaders /\ r1.vq = r.vq /\ r1.aq = r.aq
      BY <1>1, <1>2, <3>1, <3>2 DEF OpenReaders
    <3>4. Populates(r1)
      BY <1>1, <3>3 DEF Populates
    <3> QED BY <3>4
  <2> QED BY <2>1, <2>2
<1>6. QED
  BY <1>2, <1>3, <1>4, <1>5

\* So does opening the movie.
LEMMA OpenedKeeps == Populates(Opened)
<1> DEFINE V == {r \in OpenReaders : Populates(r)}
<1>1. \A r : r \in V <=> Populates(r)
  BY DEF Populates
<1>2. DOMAIN File = 1..Len(File) /\ Len(File) \in Nat /\ Delay \in Nat
  BY FileIs, MovieAssumption
<1>3. Populates(Unopened)
  <2> PICK d : d = [held |-> <<>>, drained |-> FALSE, images |-> <<>>, ok |-> FALSE, got |-> FALSE]
    OBVIOUS
  <2>1. d \in [held : Seq(Clip), drained : BOOLEAN, images : Seq(Clip), ok : BOOLEAN, got : BOOLEAN] /\ d.held = <<>>
    OBVIOUS
  <2>2. d \in Decoders
    BY <1>2, <2>1 DEF Decoders
  <2>3. Unopened = [pos |-> 0, vq |-> <<>>, aq |-> <<>>, adts |-> FrameIn, video |-> FALSE, audio |-> FALSE, d |-> d]
    BY DEF Unopened
  <2>4. Unopened \in OpenReaders /\ Unopened.vq = <<>> /\ Unopened.aq = <<>>
    BY <1>2, <2>2, <2>3 DEF OpenReaders, FrameIn
  <2>5. Plain(<<>>)
    BY DEF Plain
  <2> QED BY <2>4, <2>5 DEF Populates
<1> HIDE DEF V
<1>4. \A x \in V, i \in DOMAIN File : Populate(x, i) \in V
  BY <1>1, <1>2, PopulateKeeps
<1>5. \E g : /\ Opened = g[Len(File)] /\ g[0] = Unopened
             /\ \A i \in 1..(Len(File)) : g[i] = Populate(g[i - 1], i)
             /\ \A i \in 0..(Len(File)) : g[i] \in V
  BY <1>1, <1>3, <1>4, OpenedIs, Zenon
<1>6. Len(File) \in 0..Len(File)
  BY <1>2
<1>7. QED
  BY <1>1, <1>5, <1>6

-----------------------------------------------------------------------------
(***************************************************************************)
(* The segment at the front of a queue                                     *)
(***************************************************************************)

\* What the handlers of a seek or a preroll take from the front of a queue.

\* n is where the segment at the front of q ends.
EndsAt(q, n) ==
  /\ n \in 2..Len(q) /\ q[1].kind \in Begin /\ q[n].kind = "seekEnd"
  /\ \A k \in 2..(n - 1) : q[k].kind \in Coded

\* A closed queue that begins with a beginning begins with a segment, and what follows the
\* first end is closed.
LEMMA FrontSegment ==
  ASSUME NEW T, NEW q \in Seq(T), Closed(q), q # <<>>, Head(q).kind \in Begin
  PROVE  \E n \in 2..Len(q) : /\ EndsAt(q, n) /\ SubSeq(q, n + 1, Len(q)) \in Seq(T)
                              /\ Suffix(SubSeq(q, n + 1, Len(q)), q, n)
                              /\ Closed(SubSeq(q, n + 1, Len(q)))
<1>1. PICK n \in 2..Len(q) : /\ Segmented(q, 1, n) /\ SubSeq(q, n + 1, Len(q)) \in Seq(T)
                             /\ Suffix(SubSeq(q, n + 1, Len(q)), q, n)
                             /\ Closed(SubSeq(q, n + 1, Len(q)))
  BY ClosedPastSegment
<1>2. EndsAt(q, n)
  BY <1>1 DEF Segmented, EndsAt
<1>3. QED
  BY <1>1, <1>2

\* That segment is what the handlers of both threads take.
LEMMA SegmentLenIs ==
  ASSUME NEW T, NEW q \in Seq(T), NEW n, EndsAt(q, n)
  PROVE  SegmentLen(q) = n /\ AudioSegmentLen(q) = n
<1> DEFINE S == {i \in DOMAIN q : q[i].kind = "seekEnd"} \cup {Len(q) + 1}
           A == {i \in DOMAIN q : q[i].kind \in {"seekEnd", "loopStart", "loopEnd"}} \cup {Len(q) + 1}
<1>1. /\ Len(q) \in Nat /\ DOMAIN q = 1..Len(q) /\ n \in 2..Len(q) /\ q[n].kind = "seekEnd"
      /\ \A k \in 1..(n - 1) : q[k].kind \notin {"seekEnd", "loopStart", "loopEnd"}
  <2>1. /\ n \in 2..Len(q) /\ q[1].kind \in Begin /\ q[n].kind = "seekEnd"
        /\ \A k \in 2..(n - 1) : q[k].kind \in Coded
    BY DEF EndsAt
  <2>2. \A k \in 1..(n - 1) : k = 1 \/ k \in 2..(n - 1)
    BY <2>1
  <2> QED BY <2>1, <2>2 DEF Begin, Coded
<1>2. S \subseteq Nat /\ n \in S /\ \A i \in S : n <= i
  BY <1>1
<1>3. A \subseteq Nat /\ n \in A /\ \A i \in A : n <= i
  BY <1>1
<1>4. SegmentLen(q) = Min(S) /\ AudioSegmentLen(q) = Min(A)
  BY DEF SegmentLen, AudioSegmentLen
<1> HIDE DEF S, A
<1>5. Min(S) \in S /\ \A i \in S : Min(S) <= i
  BY <1>2, LeastOf
<1>6. Min(A) \in A /\ \A i \in A : Min(A) <= i
  BY <1>3, LeastOf
<1> PICK s, a : s = Min(S) /\ a = Min(A)
  OBVIOUS
<1>7. s \in Nat /\ a \in Nat /\ n \in Nat /\ s <= n /\ n <= s /\ a <= n /\ n <= a
  BY <1>2, <1>3, <1>5, <1>6
<1>8. s = n /\ a = n
  BY <1>7
<1>9. QED
  BY <1>4, <1>8

\* A function on an initial segment of the naturals is a sequence.
LEMMA SeqOf == ASSUME NEW T, NEW m \in Nat, NEW h \in [1..m -> T] PROVE h \in Seq(T)
OBVIOUS

\* What is between the two ends: packets.
LEMMA BetweenIs ==
  ASSUME NEW F, NEW q \in Seq(Items(F)), NEW n, EndsAt(q, n)
  PROVE  SubSeq(q, 2, n - 1) \in Seq({x \in Items(F) : x.kind \in Coded})
<1> DEFINE T == {x \in Items(F) : x.kind \in Coded}
<1>1. /\ n \in 2..Len(q) /\ \A k \in 2..(n - 1) : q[k].kind \in Coded
  BY DEF EndsAt
<1>2. 2 \in 1..Len(q) /\ n - 1 \in 0..Len(q) /\ 2 <= (n - 1) + 1 /\ Len(q) \in Nat
  BY <1>1
<1> PICK s : s = SubSeq(q, 2, n - 1)
  OBVIOUS
<1>3. /\ s \in Seq(Items(F)) /\ Len(s) = n - 1 - 2 + 1 /\ \A i \in 1..(n - 1 - 2 + 1) : s[i] = q[i + 2 - 1]
  BY <1>2, MiddleIs
<1>4. \A i \in 1..Len(s) : s[i] \in T
  <2> SUFFICES ASSUME NEW i \in 1..Len(s) PROVE s[i] \in T
    OBVIOUS
  <2>1. i + 1 \in 2..(n - 1) /\ s[i] = q[i + 1] /\ s[i] \in Items(F)
    BY <1>1, <1>3
  <2> QED BY <1>1, <2>1
<1> HIDE DEF T
<1>5. s = [i \in 1..Len(s) |-> s[i]] /\ Len(s) \in Nat
  BY <1>3
<1>6. s \in Seq(T)
  <2>1. s \in [1..Len(s) -> T]
    BY <1>4, <1>5
  <2> QED BY <1>5, <2>1, SeqOf
<1>7. QED
  BY <1>6 DEF T

-----------------------------------------------------------------------------
(***************************************************************************)
(* What is dropped from the stores, and the handlers of a segment          *)
(***************************************************************************)

\* What is shown, and heard, and what is left in the stores.

\* The image that find_image() settles on is of a frame of the clip.
LEMMA FoundIs ==
  ASSUME images \in Seq(Clip), hires \in Clip, NEW f
  PROVE  Found(f) \in Clip
<1> PICK R : R = Range(images)
  OBVIOUS
<1>1. R \subseteq Clip /\ (images # <<>> => R # {})
  BY RangeIs
<1>2. R \subseteq Nat /\ FrameOut \in Nat /\ R \subseteq 0..FrameOut
  BY <1>1, FileIs
<1> PICK C : C = Candidates(f)
  OBVIOUS
<1>3. C \subseteq R
  BY DEF Candidates
<1>4. Found(f) = IF C # {} THEN Min(C) ELSE IF images # <<>> THEN Max(R) ELSE hires
  BY DEF Found
<1>5. C # {} => Min(C) \in C
  BY <1>2, <1>3, LeastOf
<1>6. R # {} => Max(R) \in R
  BY <1>2, GreatestOf
<1>7. QED
  BY <1>1, <1>3, <1>4, <1>5, <1>6

\* Dropping the pictures by their age leaves fewer than the bound, forwards.
LEMMA LimitedIs ==
  ASSUME images \in Seq(Clip), NEW f
  PROVE  /\ Limited(f) \in Seq(Clip)
         /\ playback = kForwards => Len(Limited(f)) <= MaxVideo - 1
<1>1. Len(images) \in Nat /\ MaxVideo \in Nat /\ MaxVideo >= 1
  BY MovieAssumption
<1>2. CASE images = <<>>
  BY <1>1, <1>2 DEF Limited
<1>3. CASE images # <<>> /\ playback = kForwards
  <2>1. Limited(f) = LimitedByAge(images, MaxVideo)
    BY <1>3 DEF Limited
  <2>2. CASE Len(images) >= MaxVideo
    <3>1. Limited(f) = SubSeq(images, Len(images) - MaxVideo + 2, Len(images))
      BY <2>1, <2>2 DEF LimitedByAge
    <3> PICK n \in 0..Len(images) : n = Len(images) - MaxVideo + 1
      BY <1>1, <2>2
    <3>2. Len(images) - MaxVideo + 2 = n + 1
      BY <1>1
    <3>3. SubSeq(images, n + 1, Len(images)) \in Seq(Clip) /\ Len(SubSeq(images, n + 1, Len(images))) = Len(images) - n
      BY SubSeqIs DEF Suffix
    <3> QED BY <1>1, <3>1, <3>2, <3>3
  <2>3. CASE ~(Len(images) >= MaxVideo)
    BY <1>1, <2>1, <2>3 DEF LimitedByAge
  <2> QED BY <2>2, <2>3
<1>4. CASE images # <<>> /\ playback # kForwards
  <2>1. \E K : Limited(f) = Only(images, K)
    BY <1>4 DEF Limited
  <2> PICK K : Limited(f) = Only(images, K)
    BY <2>1
  <2> QED BY <1>4, OnlyIs
<1>5. QED
  BY <1>2, <1>3, <1>4

\* Dropping the sound by its age, and by its range, leaves sound of frames.
LEMMA AudioByAgeIs ==
  ASSUME audio \in Seq(Nat), NEW f PROVE AudioByAge(f) \in Seq(Nat)
<1> PICK K : AudioByAge(f) = Only(audio, K)
  BY Zenon DEF AudioByAge
<1> QED BY OnlyIs

\* The same of the range.
LEMMA AudioInRangeIs ==
  ASSUME audio \in Seq(Nat), NEW f PROVE AudioInRange(f) \in Seq(Nat)
<1> PICK K : AudioInRange(f) = Only(audio, K)
  BY Zenon DEF AudioInRange
<1> QED BY OnlyIs

-----------------------------------------------------------------------------
\* The segment at the front of each queue, when it is handled.

\* The handler of a seek or a preroll takes a whole segment off the queue of the picture.
LEMMA HandleSegmentIs ==
  ASSUME vq \in Seq(Items(Clip)), Closed(vq), vq # <<>>, Head(vq).kind \in Begin, Decoder \in Decoders,
         NEW isSeek, NEW leave, HandleSegment(isSeek, leave)
  PROVE  /\ vq' \in Seq(Items(Clip)) /\ Closed(vq')
         /\ \E n \in 1..Len(vq) : Suffix(vq', vq, n)
         /\ \E d \in Decoders : Decoded(d)
         /\ pc' = [pc EXCEPT !["video"] = AfterDecode] \/ pc' = [pc EXCEPT !["video"] = "decode"]
         /\ UNCHANGED <<file, aq, asked, frame, hires, sound, at, user>>
<1> PICK n \in 2..Len(vq) : /\ EndsAt(vq, n) /\ SubSeq(vq, n + 1, Len(vq)) \in Seq(Items(Clip))
                            /\ Suffix(SubSeq(vq, n + 1, Len(vq)), vq, n)
                            /\ Closed(SubSeq(vq, n + 1, Len(vq)))
  BY FrontSegment
<1>1. SegmentLen(vq) = n
  BY SegmentLenIs
<1>2. vq' = SubSeq(vq, n + 1, Len(vq))
  BY <1>1 DEF HandleSegment, PastSegment
<1>3. n \in 1..Len(vq)
  OBVIOUS
<1> PICK seg \in Seq({x \in Items(Clip) : x.kind \in Coded}) : seg = Segment(vq)
  BY <1>1, BetweenIs DEF Segment
<1> PICK b \in BOOLEAN : b = (~isSeek /\ playback = kBackwards)
  OBVIOUS
<1> PICK d : d = SegmentDecoded(Decoder, seg, at["video"], b)
  OBVIOUS
<1>4. d \in Decoders
  BY SegmentKeeps
<1>5. Decoded(d)
  BY DEF HandleSegment
<1>6. /\ pc' = [pc EXCEPT !["video"] = AfterDecode] \/ pc' = [pc EXCEPT !["video"] = "decode"]
      /\ UNCHANGED <<file, aq, asked, frame, hires, sound, at, user>>
  BY DEF HandleSegment, Goto
<1>7. QED
  BY <1>2, <1>3, <1>4, <1>5, <1>6

\* The handler of a seek or a preroll takes a whole segment off the queue of the sound.
LEMMA HandleAudioIs ==
  ASSUME aq \in Seq(Items(Nat)), Closed(aq), aq # <<>>, Head(aq).kind \in Begin, audioFrame \in Int,
         NEW store \in Seq(Nat), NEW isSeek, HandleAudio(store, isSeek)
  PROVE  /\ aq' \in Seq(Items(Nat)) /\ Closed(aq') /\ audio' \in Seq(Nat) /\ audioFrame' \in Int
         /\ \E s : AfterAudio(s)
<1> PICK n \in 2..Len(aq) : /\ EndsAt(aq, n) /\ SubSeq(aq, n + 1, Len(aq)) \in Seq(Items(Nat))
                            /\ Suffix(SubSeq(aq, n + 1, Len(aq)), aq, n)
                            /\ Closed(SubSeq(aq, n + 1, Len(aq)))
  BY FrontSegment
<1>1. AudioSegmentLen(aq) = n
  BY SegmentLenIs
<1>2. Len(aq) \in Nat /\ n \in 1..Len(aq) /\ n <= Len(aq) /\ aq[n].kind = "seekEnd"
  BY DEF EndsAt
<1>3. aq' = SubSeq(aq, n + 1, Len(aq))
  BY <1>1, <1>2 DEF HandleAudio
<1>4. aq[n].frame \in Nat
  <2>1. aq[n] \in Items(Nat)
    BY <1>2
  <2>2. aq[n].kind \notin Loops
    BY <1>2 DEF Loops
  <2> QED BY <2>1, <2>2, ItemsAre
<1>5. audioFrame' \in Int
  <2>1. audioFrame' = aq[n].frame \/ audioFrame' = audioFrame
    BY <1>1 DEF HandleAudio
  <2> QED BY <1>4, <2>1
<1> PICK seg \in Seq({x \in Items(Nat) : x.kind \in Coded}) : seg = SubSeq(aq, 2, n - 1)
  BY BetweenIs
<1> PICK fs : fs = FramesOf(seg)
  OBVIOUS
<1>6. fs \in Seq(Nat)
  <2>1. DOMAIN seg = 1..Len(seg) /\ Len(seg) \in Nat /\ \A i \in 1..Len(seg) : seg[i] \in Items(Nat) /\ seg[i].kind \in Coded
    OBVIOUS
  <2>2. \A i \in 1..Len(seg) : seg[i].frame \in Nat
    BY <2>1, ItemsAre DEF Coded, Loops
  <2>3. fs \in [1..Len(seg) -> Nat]
    BY <2>1, <2>2 DEF FramesOf
  <2> QED BY <2>1, <2>3, SeqOf
<1> PICK fresh : fresh = Only(fs, Range(fs) \ Range(store))
  OBVIOUS
<1>7. fresh \in Seq(Nat)
  BY <1>6, OnlyIs
<1>8. audio' = StoredAll(store, fresh)
  BY <1>1 DEF HandleAudio
<1>9. audio' \in Seq(Nat)
  BY <1>7, <1>8, StoredAllGrows
<1>10. \E s : AfterAudio(s)
  BY Zenon DEF HandleAudio
<1>11. QED
  BY <1>3, <1>5, <1>9, <1>10

-----------------------------------------------------------------------------
(***************************************************************************)
(* Where the threads are                                                   *)
(***************************************************************************)

\* The threads are where their code can be, with frames of their own.
Shape ==
  /\ DOMAIN pc = Threads /\ DOMAIN at = Threads
  /\ pc["video"] \in VideoPlaces
  /\ playback \in {kForwards, kBackwards, kStopped}
  /\ scrubbing \in BOOLEAN
  /\ frame \in Clip

\* While the UI thread scrubs, the movie is stopped and none of its threads runs:
\* the sound is decoded first, then the picture.
ScrubsAlone ==
  scrubbing =>
    /\ stopped
    /\ pc["decode"] = "none"
    /\ \/ pc["audio"] \in {"decode", "sound"} /\ pc["video"] = "none"
       \/ pc["audio"] = "none" /\ pc["video"] \in {"decode", "show"}
    /\ at["video"] \in Clip

\* The video thread is at the frame that is shown, or at the next one.
OneStepAhead ==
  ~stopped /\ pc["video"] \in {"top", "decode", "show", "gate"} =>
    at["video"] \in {frame, frame + playback}

\* It shows frames of the clip, and waits at the barrier with any other.
ShowsClip == pc["video"] = "show" => at["video"] \in Clip
GatesOutside == pc["video"] = "gate" /\ ~stopped => at["video"] \notin Clip

\* A movie that plays has its threads.
PlaysWithThreads == ~stopped => pc["decode"] # "none"

Control == Shape /\ PlaysWithThreads /\ ScrubsAlone /\ OneStepAhead /\ ShowsClip /\ GatesOutside

-----------------------------------------------------------------------------
\* The clip has a first and a last frame, which are the ones with no frame before or after.
LEMMA ClipFacts ==
  /\ FrameIn \in Clip
  /\ Clip \subseteq Int
  /\ \A f \in Clip : /\ f + 1 \notin Clip => f = FrameOut
                     /\ f - 1 \notin Clip => f = FrameIn
BY MovieAssumption DEF Clip, FrameIn

\* Nothing runs when the movie is opened.
LEMMA InvInit == Init => Control
<1> SUFFICES ASSUME Init PROVE Control
  OBVIOUS
<1>1. /\ pc = [t \in Threads |-> "none"] /\ at = [t \in Threads |-> FrameIn]
      /\ playback = kStopped /\ scrubbing = FALSE /\ frame = FrameIn
  BY DEF Init
<1>2. QED
  BY <1>1, ClipFacts
  DEF Control, Shape, ScrubsAlone, OneStepAhead, ShowsClip, GatesOutside, PlaysWithThreads, Threads, VideoPlaces, stopped

\* What a step of the picture's decoding may do: it stays, or it is done.
Decodes ==
  /\ pc["video"] = "decode"
  /\ pc' = pc \/ \E p \in {AfterDecode, "decode"} : pc' = [pc EXCEPT !["video"] = p]
  /\ UNCHANGED <<at, frame, playback, scrubbing>>

VideoDecodes ==
  VideoEmpty \/ VideoFlush \/ VideoSeek \/ VideoPreroll \/ VideoPrerollLater \/ VideoMarker
  \/ VideoPacket

\* Decoding a picture moves the video thread on, and leaves the frame alone.
LEMMA DecodingOfVideo == ASSUME Control, VideoDecodes PROVE Decodes
<1>0. DOMAIN pc = Threads /\ "video" \in Threads
  BY DEF Control, Shape, Threads
<1>1. CASE VideoEmpty \/ VideoFlush \/ VideoPrerollLater \/ VideoMarker
  BY <1>0, <1>1 DEF VideoEmpty, VideoFlush, VideoPrerollLater, VideoMarker, VideoFront, Decodes, Goto, picture, user
<1>2. CASE VideoSeek \/ VideoPreroll
  BY <1>0, <1>2 DEF VideoSeek, VideoPreroll, HandleSegment, VideoFront, Decodes, Goto, picture, user
<1>3. CASE VideoPacket
  BY <1>0, <1>3 DEF VideoPacket, VideoFront, Decodes, Goto, picture, user
<1>4. QED
  BY <1>1, <1>2, <1>3 DEF VideoDecodes

\* The video thread keeps the control invariant.
LEMMA VideoKeeps == ASSUME Control, VideoThread PROVE Control'
<1> USE DEF Control, Shape, ScrubsAlone, OneStepAhead, ShowsClip, GatesOutside, PlaysWithThreads, Threads, stopped
<1>1. CASE VideoTop
  BY <1>1 DEF VideoTop, Goto, picture, user, VideoPlaces
<1>2. CASE VideoDecodes
  BY <1>2, DecodingOfVideo DEF Decodes, AfterDecode, VideoPlaces
<1>3. CASE Show
  <2>1. at["video"] \in Clip /\ frame' = at["video"] /\ pc["video"] = "show"
    BY <1>3 DEF Show
  <2>2. CASE scrubbing
    BY <1>3, <2>1, <2>2 DEF Show, Goto, VideoPlaces
  <2>3. CASE ~scrubbing
    <3>1. /\ pc' = [pc EXCEPT !["video"] = "top"]
          /\ at' = [at EXCEPT !["video"] = @ + playback]
          /\ UNCHANGED <<playback, scrubbing>>
      BY <1>3, <2>3 DEF Show, Goto, user
    <3>2. QED
      BY <2>1, <2>3, <3>1 DEF VideoPlaces
  <2>4. QED
    BY <2>2, <2>3
<1>4. CASE Exit("video")
  BY <1>4 DEF Exit, Goto, picture, user, VideoPlaces
<1>5. QED
  BY <1>1, <1>2, <1>3, <1>4 DEF VideoThread, VideoDecodes

\* What a step of the decode thread may do: it moves by itself.
LEMMA DecodeKeeps == ASSUME Control, DecodeThread PROVE Control'
<1>1. DOMAIN pc = Threads /\ DOMAIN at = Threads /\ "decode" \in Threads /\ "video" \in Threads
      /\ "audio" \in Threads
  BY DEF Control, Shape, Threads
<1>2. pc["decode"] \in {"top", "read", "gate"}
  BY DEF DecodeThread, DecodeLoop, Request, ReadPacket, Fetched, Exit
<1>3. ~scrubbing
  BY <1>2 DEF Control, ScrubsAlone
<1>4. UNCHANGED <<playback, scrubbing, frame>>
  BY DEF DecodeThread, DecodeLoop, Request, ReadPacket, Fetched, Exit, user, picture
<1>5. pc' = pc \/ \E p \in {"gate", "read", "top", "exited"} : pc' = [pc EXCEPT !["decode"] = p]
  BY DEF DecodeThread, DecodeLoop, Request, ReadPacket, Fetched, Exit, Goto
<1>6. at' = at \/ at' = [at EXCEPT !["decode"] = dts']
  BY DEF DecodeThread, DecodeLoop, Request, ReadPacket, Fetched, Exit
<1>7. /\ DOMAIN pc' = Threads /\ DOMAIN at' = Threads
      /\ pc'["video"] = pc["video"] /\ at'["video"] = at["video"]
      /\ pc'["decode"] # "none"
  BY <1>1, <1>2, <1>5, <1>6
<1>8. QED
  BY <1>3, <1>4, <1>7 DEF Control, Shape, ScrubsAlone, OneStepAhead, ShowsClip, GatesOutside, PlaysWithThreads, stopped

AudioDecodes ==
  AudioEmpty \/ AudioFlush \/ AudioMarker \/ AudioSeek \/ AudioPreroll \/ AudioPacket

\* What a step of the sound's decoding may do: it stays, or it comes to a place
\* that depends on whether the UI thread scrubs; its frame is its own.
Listens ==
  /\ pc["audio"] = "decode"
  /\ \/ pc' = pc
     \/ \E p \in IF scrubbing THEN {"sound"} ELSE {"top", "gate", "sound"} :
          pc' = [pc EXCEPT !["audio"] = p]
  /\ at' = at \/ \E f \in {Drifted(at["audio"])} : at' = [at EXCEPT !["audio"] = f]
  /\ UNCHANGED <<frame, playback, scrubbing>>

\* What the audio thread does with the status of a decoding is one of the moves it may make.
LEMMA StatusOfAudio ==
  ASSUME Control, NEW s, AfterAudio(s), pc["audio"] = "decode",
         UNCHANGED <<frame, playback, scrubbing>>
  PROVE  Listens
BY DEF AfterAudio, Goto, Listens

\* So is the whole of its decoding.
LEMMA DecodingOfAudio == ASSUME Control, AudioDecodes PROVE Listens
<1>1. pc["audio"] = "decode" /\ UNCHANGED <<frame, playback, scrubbing>>
  BY DEF AudioDecodes, AudioEmpty, AudioFlush, AudioMarker, AudioSeek, AudioPreroll, AudioPacket,
         AudioFront, picture, user
<1>2. CASE AudioEmpty
  BY <1>1, <1>2, StatusOfAudio DEF AudioEmpty
<1>3. CASE AudioFlush
  BY <1>1, <1>3 DEF AudioFlush, Listens
<1>4. CASE AudioMarker
  BY <1>1, <1>4, StatusOfAudio DEF AudioMarker
<1>5. CASE AudioSeek
  BY <1>1, <1>5, StatusOfAudio DEF AudioSeek, HandleAudio
<1>6. CASE AudioPreroll
  BY <1>1, <1>6, StatusOfAudio DEF AudioPreroll, HandleAudio
<1>7. CASE AudioPacket
  <2>1. AfterAudio("ok") \/ AfterAudio("missing") \/ UNCHANGED <<pc, at>>
    BY <1>7 DEF AudioPacket
  <2>2. QED
    BY <1>1, <2>1, StatusOfAudio DEF Listens
<1>8. QED
  BY <1>2, <1>3, <1>4, <1>5, <1>6, <1>7 DEF AudioDecodes

\* The audio thread keeps the control invariant.
LEMMA AudioKeeps == ASSUME Control, AudioThread PROVE Control'
<1> USE DEF Control, Shape, ScrubsAlone, OneStepAhead, ShowsClip, GatesOutside, PlaysWithThreads, Threads, stopped
<1>1. CASE AudioTop
  BY <1>1 DEF AudioTop, Goto, picture, user, VideoPlaces
<1>2. CASE AudioDecodes
  BY <1>2, DecodingOfAudio DEF Listens, VideoPlaces
<1>3. CASE Sound
  <2>1. pc["audio"] = "sound" /\ UNCHANGED <<frame, playback, scrubbing>>
    BY <1>3 DEF Sound, picture, user
  <2>2. CASE scrubbing
    BY <1>3, <2>1, <2>2 DEF Sound, VideoPlaces
  <2>3. CASE ~scrubbing
    <3>1. /\ pc' = [pc EXCEPT !["audio"] = "top"]
          /\ at' = [at EXCEPT !["audio"] = @ + playback]
      BY <1>3, <2>3 DEF Sound, Goto
    <3>2. QED
      BY <2>1, <2>3, <3>1 DEF VideoPlaces
  <2>4. QED
    BY <2>2, <2>3
<1>4. CASE Exit("audio")
  BY <1>4 DEF Exit, Goto, picture, user, VideoPlaces
<1>5. QED
  BY <1>1, <1>2, <1>3, <1>4 DEF AudioThread, AudioDecodes

\* The ends of the threads and the user keep the control invariant.
LEMMA UserKeeps == ASSUME Control, EndPass \/ Join \/ User PROVE Control'
<1> USE DEF Control, Shape, ScrubsAlone, OneStepAhead, ShowsClip, GatesOutside, PlaysWithThreads, Threads, stopped
<1>1. CASE EndPass
  BY <1>1 DEF EndPass, picture, VideoPlaces
<1>2. CASE Join
  BY <1>2 DEF Join, picture, user, VideoPlaces
<1>3. CASE UserStop
  BY <1>3 DEF UserStop, picture, VideoPlaces
<1>4. CASE \E dir \in {kForwards, kBackwards} : Play(dir)
  <2>1. PICK dir \in {kForwards, kBackwards} : Play(dir)
    BY <1>4
  <2>2. /\ pc' = [t \in Threads |-> "top"]
        /\ at' = [decode |-> dts', video |-> frame, audio |-> frame]
        /\ playback' = dir /\ UNCHANGED <<frame, scrubbing>>
    BY <2>1 DEF Play, picture
  <2>3. ~scrubbing
    BY <2>1 DEF Play, Idle
  <2>4. QED
    BY <2>2, <2>3 DEF VideoPlaces
<1>5. CASE \E f \in Clip : Scrub(f)
  <2>1. PICK f \in Clip : Scrub(f)
    BY <1>5
  <2>2. /\ pc' = [pc EXCEPT !["audio"] = "decode"]
        /\ at' = [at EXCEPT !["audio"] = f, !["video"] = f]
        /\ scrubbing' = TRUE /\ UNCHANGED <<frame, playback>>
    BY <2>1 DEF Scrub
  <2>3. stopped
    BY <2>1 DEF Scrub, Idle
  <2>4. QED
    BY <2>1, <2>2, <2>3 DEF Scrub, Idle, VideoPlaces
<1>6. QED
  BY <1>1, <1>2, <1>3, <1>4, <1>5 DEF User

-----------------------------------------------------------------------------
(***************************************************************************)
(* What is queued and stored: the video thread                             *)
(***************************************************************************)

\* The invariant of what is read, queued, decoded and stored.

\* Every seek in the queues has its end, and the decoder is not further behind than it
\* may be.
Data ==
  /\ TypeOK
  /\ Closed(vq) /\ Closed(aq)
  /\ Len(decoder.held) <= Delay

\* Playing forwards: the pictures in the queue follow one another up to the last one
\* that was read, the frame that is asked for is the one that is expected, and the seek
\* of play() is handled before the frame moves.
Order ==
  playback = kForwards =>
    /\ Chained(vq, pos)
    /\ pc["decode"] = "top" => expected = at["decode"] + 1
    /\ Fresh(vq)
    /\ vq # <<>> /\ Opens(vq[1]) => at["video"] = frame /\ pc["video"] \in {"top", "decode"}

\* From then on a packet is decoded only when what it adds is less than what was dropped.
Room ==
  playback = kForwards /\ at["video"] # frame =>
    Len(images) <= MaxVideo - 1 + (IF pc["video"] \in {"show", "gate"} THEN Burst ELSE 0)

-----------------------------------------------------------------------------
\* The types of the variables, one by one.
LEMMA TypesAre ==
  ASSUME Data
  PROVE  /\ pos \in 0..Len(File)
         /\ vq \in Seq(Items(Clip)) /\ aq \in Seq(Items(Nat))
         /\ playback \in {kForwards, kBackwards, kStopped} /\ playback \in Int
         /\ frame \in Clip /\ hires \in Clip /\ dts \in Clip
         /\ adts \in Int /\ expected \in Int /\ audioFrame \in Int
         /\ asked \in [frame : Clip, dts : Int, video : BOOLEAN, audio : BOOLEAN]
         /\ decoder \in [held : Seq(Clip), drained : BOOLEAN]
         /\ images \in Seq(Clip) /\ audio \in Seq(Nat)
         /\ pc \in [Threads -> VideoPlaces \cup AudioPlaces \cup DecodePlaces]
         /\ pc["decode"] \in DecodePlaces /\ pc["video"] \in VideoPlaces /\ pc["audio"] \in AudioPlaces
         /\ at \in [Threads -> Int]
         /\ scrubbing \in BOOLEAN /\ sought \in BOOLEAN
         /\ left \in [play : 0..Plays, scrub : 0..Scrubs, both : 0..Asks]
         /\ "video" \in Threads /\ "audio" \in Threads /\ "decode" \in Threads
         /\ Closed(vq) /\ Closed(aq)
         /\ Decoder \in Decoders /\ Decoder.images = images
BY DEF Data, TypeOK, kForwards, kBackwards, kStopped, Threads, Decoder, Decoders

\* A decoder that is written back.
LEMMA DecodedIs ==
  ASSUME NEW d \in Decoders, Decoded(d)
  PROVE  /\ decoder' \in [held : Seq(Clip), drained : BOOLEAN] /\ Len(decoder'.held) <= Delay
         /\ images' \in Seq(Clip) /\ images' = d.images
BY DEF Decoders, Decoded

-----------------------------------------------------------------------------
\* The video thread.

VideoStep ==
  /\ vq' \in Seq(Items(Clip)) /\ Closed(vq')
  /\ decoder' \in [held : Seq(Clip), drained : BOOLEAN] /\ Len(decoder'.held) <= Delay
  /\ images' \in Seq(Clip) /\ frame' \in Clip /\ hires' \in Clip
  /\ \E p \in VideoPlaces : pc' = [pc EXCEPT !["video"] = p]
  /\ at' = at \/ at' = [at EXCEPT !["video"] = @ + playback]
  /\ scrubbing' \in BOOLEAN /\ sought' \in BOOLEAN
  /\ UNCHANGED <<pos, aq, dts, adts, expected, asked, audio, audioFrame, playback, left>>

\* Such a step of the video thread keeps the data.
LEMMA VideoStepKeeps == ASSUME Data, VideoStep PROVE Data'
<1>1. /\ at \in [Threads -> Int] /\ playback \in Int /\ "video" \in Threads
      /\ pc \in [Threads -> VideoPlaces \cup AudioPlaces \cup DecodePlaces]
      /\ pc["decode"] \in DecodePlaces /\ pc["audio"] \in AudioPlaces
  BY TypesAre
<1>2. at' \in [Threads -> Int]
  BY <1>1 DEF VideoStep
<1>3. /\ pc' \in [Threads -> VideoPlaces \cup AudioPlaces \cup DecodePlaces] /\ pc'["video"] \in VideoPlaces
      /\ pc'["decode"] = pc["decode"] /\ pc'["audio"] = pc["audio"]
  BY <1>1 DEF VideoStep, Threads
<1>4. TypeOK'
  BY <1>1, <1>2, <1>3 DEF VideoStep, Data, TypeOK
<1>5. QED
  BY <1>4 DEF VideoStep, Data

\* An empty queue has no first element.
LEMMA Front ==
  ASSUME Data, vq # <<>>
  PROVE  /\ Head(vq) = vq[1] /\ 1 \in 1..Len(vq) /\ Head(vq) \in Items(Clip)
         /\ Tail(vq) \in Seq(Items(Clip)) /\ Suffix(Tail(vq), vq, 1)
         /\ Head(vq).kind \notin Begin => Closed(Tail(vq)) /\ Head(vq).kind # "seekEnd"
<1>1. vq \in Seq(Items(Clip)) /\ Closed(vq)
  BY TypesAre
<1>2. /\ Head(vq) = vq[1] /\ 1 \in 1..Len(vq) /\ Head(vq) \in Items(Clip)
      /\ Tail(vq) \in Seq(Items(Clip)) /\ Suffix(Tail(vq), vq, 1)
  BY <1>1, TailIs
<1>3. Head(vq).kind \notin Begin => Closed(Tail(vq)) /\ Head(vq).kind # "seekEnd"
  BY <1>1, ClosedTail
<1>4. QED
  BY <1>2, <1>3

\* The places the video thread is sent to are places of it.
LEMMA PlacesOfVideo ==
  AfterDecode \in {"show", "gate"} /\ {"show", "gate", "top", "decode", "exited", "none"} \subseteq VideoPlaces
BY DEF AfterDecode, VideoPlaces

\* Every step of the video thread is such a step.
LEMMA VideoSteps == ASSUME Control, Data, VideoThread PROVE VideoStep
<1>0. /\ vq \in Seq(Items(Clip)) /\ Closed(vq) /\ frame \in Clip /\ hires \in Clip /\ images \in Seq(Clip)
      /\ scrubbing \in BOOLEAN /\ sought \in BOOLEAN /\ pc \in [Threads -> VideoPlaces \cup AudioPlaces \cup DecodePlaces]
      /\ pc["video"] \in VideoPlaces /\ "video" \in Threads /\ Decoder \in Decoders /\ Len(decoder.held) <= Delay
      /\ decoder \in [held : Seq(Clip), drained : BOOLEAN]
  BY TypesAre DEF Data
<1>00. pc = [pc EXCEPT !["video"] = pc["video"]]
  BY <1>0
<1> USE PlacesOfVideo
<1>1. CASE VideoTop
  BY <1>0, <1>1 DEF VideoTop, Goto, VideoStep, file, queues, picture, sound, user
<1>2. CASE VideoEmpty
  BY <1>0, <1>2 DEF VideoEmpty, Goto, VideoStep, file, queues, picture, sound, user
<1>3. CASE VideoFlush
  <2>1. vq # <<>> /\ Head(vq).kind = "flush" /\ vq' = Tail(vq) /\ decoder' = Flushed
        /\ UNCHANGED <<file, aq, asked, images, frame, hires, sound, pc, at, user>>
    BY <1>3 DEF VideoFlush, VideoFront
  <2>2. Tail(vq) \in Seq(Items(Clip)) /\ Closed(Tail(vq))
    BY <2>1, Front DEF Begin
  <2>3. Flushed \in [held : Seq(Clip), drained : BOOLEAN] /\ Len(Flushed.held) <= Delay
    BY MovieAssumption DEF Flushed
  <2> QED BY <1>0, <1>00, <2>1, <2>2, <2>3 DEF VideoStep, file, sound, user
<1>4. CASE VideoSeek \/ VideoPreroll
  <2>1. PICK isSeek, leave : HandleSegment(isSeek, leave)
    BY <1>4 DEF VideoSeek, VideoPreroll
  <2>2. vq # <<>> /\ Head(vq).kind \in Begin
    BY <1>4 DEF VideoSeek, VideoPreroll, VideoFront, Begin
  <2>3. /\ vq' \in Seq(Items(Clip)) /\ Closed(vq')
        /\ \E d \in Decoders : Decoded(d)
        /\ pc' = [pc EXCEPT !["video"] = AfterDecode] \/ pc' = [pc EXCEPT !["video"] = "decode"]
        /\ UNCHANGED <<file, aq, asked, frame, hires, sound, at, user>>
    BY <1>0, <2>1, <2>2, HandleSegmentIs
  <2>4. /\ decoder' \in [held : Seq(Clip), drained : BOOLEAN] /\ Len(decoder'.held) <= Delay
        /\ images' \in Seq(Clip)
    BY <2>3, DecodedIs
  <2> QED BY <1>0, <2>3, <2>4 DEF VideoStep, file, sound, user
<1>5. CASE VideoPrerollLater
  BY <1>0, <1>5 DEF VideoPrerollLater, Goto, VideoStep, file, queues, picture, sound, user
<1>6. CASE VideoMarker
  <2>1. vq # <<>> /\ Head(vq).kind \in {"loopStart", "loopEnd"} /\ (vq' = vq \/ vq' = Tail(vq))
        /\ pc' = [pc EXCEPT !["video"] = AfterDecode]
        /\ UNCHANGED <<file, aq, asked, picture, sound, at, user>>
    BY <1>6 DEF VideoMarker, Goto
  <2>2. Tail(vq) \in Seq(Items(Clip)) /\ Closed(Tail(vq))
    BY <2>1, Front DEF Begin
  <2> QED BY <1>0, <2>1, <2>2 DEF VideoStep, file, picture, sound, user
<1>7. CASE VideoPacket
  <2>1. vq # <<>> /\ Head(vq).kind \in Coded /\ (vq' = vq \/ vq' = Tail(vq))
        /\ UNCHANGED <<file, aq, asked, frame, hires, sound, at, user>>
    BY <1>7 DEF VideoPacket, VideoFront, Coded
  <2>2. Tail(vq) \in Seq(Items(Clip)) /\ Closed(Tail(vq)) /\ Head(vq) \in Items(Clip) /\ Head(vq).kind \notin Loops
    BY <2>1, Front DEF Begin, Coded, Loops
  <2>3. PICK d : /\ d = Send(Decoder, Head(vq)) \/ d = [Decoder EXCEPT !.ok = TRUE]
                 /\ Decoded(d)
                 /\ pc' = [pc EXCEPT !["video"] = AfterDecode] \/ pc' = [pc EXCEPT !["video"] = "decode"]
    BY <1>7 DEF VideoPacket, Goto
  <2>4. d \in Decoders
    <3>1. Send(Decoder, Head(vq)) \in Decoders
      BY <1>0, <2>2, SendIs
    <3>2. [Decoder EXCEPT !.ok = TRUE] \in Decoders
      BY <1>0 DEF Decoders
    <3> QED BY <2>3, <3>1, <3>2
  <2>5. /\ decoder' \in [held : Seq(Clip), drained : BOOLEAN] /\ Len(decoder'.held) <= Delay
        /\ images' \in Seq(Clip)
    BY <2>3, <2>4, DecodedIs
  <2> QED BY <1>0, <2>1, <2>2, <2>3, <2>5 DEF VideoStep, file, sound, user
<1>8. CASE Show
  <2>1. /\ frame' = at["video"] /\ hires' = Found(at["video"]) /\ images' = Limited(at["video"])
        /\ UNCHANGED <<file, queues, asked, decoder, sound>> /\ UNCHANGED <<playback, left>>
        /\ scrubbing' \in BOOLEAN /\ sought' = FALSE
        /\ \E p \in {"none", "top"} : pc' = [pc EXCEPT !["video"] = p]
        /\ at' = at \/ at' = [at EXCEPT !["video"] = @ + playback]
    BY <1>0, <1>8 DEF Show, Goto, user
  <2>2. Found(at["video"]) \in Clip /\ Limited(at["video"]) \in Seq(Clip)
    BY <1>0, FoundIs, LimitedIs
  <2>3. at["video"] \in Clip
    BY <1>8 DEF Show, Control, ShowsClip
  <2> QED BY <1>0, <2>1, <2>2, <2>3 DEF VideoStep, file, queues, sound
<1>9. CASE Exit("video")
  BY <1>0, <1>9 DEF Exit, Goto, VideoStep, file, queues, picture, sound, user
<1>10. QED
  BY <1>1, <1>2, <1>3, <1>4, <1>5, <1>6, <1>7, <1>8, <1>9 DEF VideoThread

\* What a queue keeps of its order when its front is taken.
LEMMA FrontTaken ==
  ASSUME Data, Chained(vq, pos), Fresh(vq), NEW n \in 1..Len(vq), n = 1 \/ vq[1].kind # "flush",
         NEW q \in Seq(Items(Clip)), Suffix(q, vq, n)
  PROVE  /\ Chained(q, pos) /\ Fresh(q)
         /\ q # <<>> /\ Opens(q[1]) => vq[1].kind = "flush"
<1>1. vq \in Seq(Items(Clip)) /\ n \in 0..Len(vq)
  BY TypesAre
<1>2. Chained(q, pos)
  BY <1>1, ChainedSuffix
<1>3. Fresh(q) /\ (q # <<>> /\ Opens(q[1]) => vq[1].kind = "flush")
  BY <1>1, FreshSuffix
<1>4. QED
  BY <1>2, <1>3

\* A burst is a number of pictures.
LEMMA BurstIs == Burst \in Nat /\ MaxVideo \in Nat
BY MovieAssumption DEF Burst

\* What a step of the video thread keeps of the order of its queue.
VideoOrder ==
  /\ Chained(vq', pos) /\ Fresh(vq')
  /\ vq' # <<>> /\ Opens(vq'[1]) => at'["video"] = frame' /\ pc'["video"] \in {"top", "decode"}

\* What it keeps of the room in the store.
VideoRoom ==
  at'["video"] # frame' =>
    Len(images') <= MaxVideo - 1 + (IF pc'["video"] \in {"show", "gate"} THEN Burst ELSE 0)

\* Forwards, every step of the video thread keeps the order of its queue and the room in
\* its store.
LEMMA VideoForth ==
  ASSUME Control, Data, Order, Room, playback = kForwards, VideoThread
  PROVE  VideoOrder /\ VideoRoom
<1>0. /\ vq \in Seq(Items(Clip)) /\ images \in Seq(Clip) /\ Len(images) \in Nat /\ Len(vq) \in Nat
      /\ pc \in [Threads -> VideoPlaces \cup AudioPlaces \cup DecodePlaces] /\ at \in [Threads -> Int]
      /\ "video" \in Threads /\ Decoder \in Decoders /\ Decoder.images = images
  BY TypesAre
<1>00. Burst \in Nat /\ MaxVideo \in Nat
  BY BurstIs
<1>01. /\ Chained(vq, pos) /\ Fresh(vq)
       /\ vq # <<>> /\ Opens(vq[1]) => at["video"] = frame /\ pc["video"] \in {"top", "decode"}
       /\ at["video"] # frame =>
            Len(images) <= MaxVideo - 1 + (IF pc["video"] \in {"show", "gate"} THEN Burst ELSE 0)
  BY DEF Order, Room
<1>02. playback # kStopped /\ playback # kBackwards /\ ~stopped /\ ~scrubbing
  BY DEF Control, ScrubsAlone, stopped, kForwards, kBackwards, kStopped
<1>03. AfterDecode \in {"show", "gate"}
  BY PlacesOfVideo
<1>1. CASE VideoTop
  BY <1>0, <1>01, <1>1 DEF VideoTop, Goto, queues, picture, VideoOrder, VideoRoom
<1>2. CASE VideoEmpty
  BY <1>0, <1>00, <1>01, <1>03, <1>2 DEF VideoEmpty, Goto, queues, picture, VideoOrder, VideoRoom
<1>3. CASE VideoFlush
  <2>1. vq # <<>> /\ Head(vq).kind = "flush" /\ vq' = Tail(vq) /\ pc["video"] = "decode"
        /\ UNCHANGED <<images, frame, pc, at>>
    BY <1>3 DEF VideoFlush, VideoFront
  <2>2. Head(vq) = vq[1] /\ 1 \in 1..Len(vq) /\ vq' \in Seq(Items(Clip)) /\ Suffix(vq', vq, 1)
    BY <2>1, Front
  <2>3. Chained(vq', pos) /\ Fresh(vq')
    BY <1>01, <2>2, FrontTaken
  <2>4. at["video"] = frame /\ pc["video"] \in {"top", "decode"}
    BY <1>01, <2>1, <2>2 DEF Opens, Opening
  <2> QED BY <2>1, <2>3, <2>4 DEF VideoOrder, VideoRoom
<1>4. CASE VideoSeek \/ VideoPreroll
  <2>1. PICK isSeek, leave : HandleSegment(isSeek, leave)
    BY <1>4 DEF VideoSeek, VideoPreroll
  <2>2. vq # <<>> /\ Head(vq).kind \in Begin
    BY <1>4 DEF VideoSeek, VideoPreroll, VideoFront, Begin
  <2>3. Head(vq) = vq[1] /\ Closed(vq)
    BY <2>2, Front DEF Data
  <2>4. /\ vq' \in Seq(Items(Clip)) /\ \E n \in 1..Len(vq) : Suffix(vq', vq, n)
        /\ UNCHANGED <<file, aq, asked, frame, hires, sound, at, user>>
    BY <1>0, <2>1, <2>2, <2>3, HandleSegmentIs
  <2> PICK n \in 1..Len(vq) : Suffix(vq', vq, n)
    BY <2>4
  <2>5. vq[1].kind # "flush"
    BY <2>2, <2>3 DEF Begin
  <2>6. Chained(vq', pos) /\ Fresh(vq') /\ ~(vq' # <<>> /\ Opens(vq'[1]))
    BY <1>01, <2>4, <2>5, FrontTaken
  <2>7. at["video"] = frame
    BY <1>01, <2>2, <2>3 DEF Opens, Opening
  <2> QED BY <2>4, <2>6, <2>7 DEF VideoOrder, VideoRoom
<1>5. CASE VideoPrerollLater
  BY <1>02, <1>5 DEF VideoPrerollLater, StoreFull
<1>6. CASE VideoMarker
  <2>1. vq # <<>> /\ Head(vq).kind \in {"loopStart", "loopEnd"} /\ (vq' = vq \/ vq' = Tail(vq))
        /\ pc' = [pc EXCEPT !["video"] = AfterDecode] /\ pc["video"] = "decode"
        /\ UNCHANGED <<picture, at>>
    BY <1>6 DEF VideoMarker, Goto
  <2>2. Head(vq) = vq[1] /\ 1 \in 1..Len(vq) /\ Tail(vq) \in Seq(Items(Clip)) /\ Suffix(Tail(vq), vq, 1)
    BY <2>1, Front
  <2>3. Chained(Tail(vq), pos) /\ Fresh(Tail(vq)) /\ ~(Tail(vq) # <<>> /\ Opens(Tail(vq)[1]))
    <3>1. vq[1].kind # "flush"
      BY <2>1, <2>2
    <3> QED BY <1>01, <2>2, <3>1, FrontTaken
  <2>4. ~Opens(vq[1])
    BY <2>1, <2>2 DEF Opens, Opening, Begin
  <2>5. VideoOrder
    BY <1>01, <2>1, <2>3, <2>4 DEF VideoOrder
  <2>6. images' = images /\ frame' = frame /\ at' = at /\ pc'["video"] \in {"show", "gate"}
    BY <1>0, <1>03, <2>1 DEF picture
  <2>7. VideoRoom
    BY <1>0, <1>00, <1>01, <2>1, <2>6 DEF VideoRoom
  <2> QED BY <2>5, <2>7
<1>7. CASE VideoPacket
  <2>1. vq # <<>> /\ Head(vq).kind \in Coded /\ (vq' = vq \/ vq' = Tail(vq)) /\ pc["video"] = "decode"
        /\ UNCHANGED <<frame, at>>
    BY <1>7 DEF VideoPacket, VideoFront, Coded
  <2>2. Head(vq) = vq[1] /\ 1 \in 1..Len(vq) /\ Tail(vq) \in Seq(Items(Clip)) /\ Suffix(Tail(vq), vq, 1)
        /\ Head(vq) \in Items(Clip) /\ Head(vq).kind \notin Loops
    BY <2>1, Front DEF Coded, Loops
  <2>3. Chained(Tail(vq), pos) /\ Fresh(Tail(vq)) /\ ~(Tail(vq) # <<>> /\ Opens(Tail(vq)[1]))
    <3>1. vq[1].kind # "flush"
      BY <2>1, <2>2 DEF Coded
    <3> QED BY <1>01, <2>2, <3>1, FrontTaken
  <2>4. ~Opens(vq[1])
    BY <2>1, <2>2 DEF Opens, Opening, Begin, Coded
  <2>5. PICK d : /\ d = Send(Decoder, Head(vq)) \/ d = [Decoder EXCEPT !.ok = TRUE]
                 /\ Decoded(d)
                 /\ pc' = [pc EXCEPT !["video"] = IF d.ok THEN AfterDecode ELSE "decode"]
    BY <1>7 DEF VideoPacket, Goto
  <2>6. d \in Decoders /\ Len(d.images) <= Len(images) + Burst /\ (~d.ok => d.images = images)
    <3>1. CASE d = Send(Decoder, Head(vq))
      <4>1. /\ Send(Decoder, Head(vq)) \in Decoders
            /\ Len(Send(Decoder, Head(vq)).images) <= Len(Decoder.images) + Burst
            /\ ~Send(Decoder, Head(vq)).ok => Send(Decoder, Head(vq)).images = Decoder.images
        BY <1>0, <2>2, SendIs
      <4> QED BY <1>0, <3>1, <4>1
    <3>2. CASE d = [Decoder EXCEPT !.ok = TRUE]
      <4>1. d \in Decoders /\ d.images = images
        BY <1>0, <3>2 DEF Decoders
      <4> QED BY <1>0, <1>00, <4>1
    <3> QED BY <2>5, <3>1, <3>2
  <2>7. images' = d.images /\ Len(images') \in Nat
    BY <2>5, <2>6, DecodedIs
  <2>8. VideoRoom
    <3>1. CASE d.ok
      <4>1. pc'["video"] \in {"show", "gate"}
        BY <1>0, <1>03, <2>5, <3>1
      <4> QED BY <1>0, <1>00, <1>01, <2>1, <2>6, <2>7, <4>1 DEF VideoRoom
    <3>2. CASE ~d.ok
      <4>1. pc'["video"] = "decode" /\ images' = images
        BY <1>0, <2>5, <2>6, <2>7, <3>2
      <4> QED BY <1>0, <1>00, <1>01, <2>1, <4>1 DEF VideoRoom
    <3> QED BY <3>1, <3>2
  <2>9. VideoOrder
    BY <1>01, <2>1, <2>3, <2>4 DEF VideoOrder
  <2> QED BY <2>8, <2>9
<1>8. CASE Show
  <2>1. /\ pc["video"] = "show" /\ images' = Limited(at["video"]) /\ vq' = vq
        /\ pc' = [pc EXCEPT !["video"] = "top"]
    BY <1>02, <1>8 DEF Show, Goto, queues
  <2>2. Limited(at["video"]) \in Seq(Clip) /\ Len(Limited(at["video"])) <= MaxVideo - 1
    BY <1>0, LimitedIs
  <2>3. ~(vq # <<>> /\ Opens(vq[1]))
    BY <1>01, <2>1
  <2>4. pc'["video"] = "top"
    BY <1>0, <2>1
  <2> QED BY <1>00, <1>01, <2>1, <2>2, <2>3, <2>4 DEF VideoOrder, VideoRoom
<1>9. CASE Exit("video")
  BY <1>02, <1>9 DEF Exit
<1>10. QED
  BY <1>1, <1>2, <1>3, <1>4, <1>5, <1>6, <1>7, <1>8, <1>9 DEF VideoThread

\* The video thread keeps the order and the room.
LEMMA VideoOrders == ASSUME Control, Data, Order, Room, VideoThread PROVE Order' /\ Room'
<1>1. VideoStep
  BY VideoSteps
<1>2. pos' = pos /\ playback' = playback /\ expected' = expected /\ pc'["decode"] = pc["decode"]
      /\ at'["decode"] = at["decode"]
  BY <1>1, TypesAre DEF VideoStep, Threads
<1>3. playback' = kForwards => VideoOrder /\ VideoRoom
  BY <1>2, VideoForth
<1>4. Order'
  BY <1>2, <1>3 DEF Order, VideoOrder
<1>5. Room'
  BY <1>2, <1>3 DEF Room, VideoRoom, Burst
<1>6. QED
  BY <1>4, <1>5

-----------------------------------------------------------------------------
(***************************************************************************)
(* The audio thread                                                        *)
(***************************************************************************)

\* The audio thread.

AudioStep ==
  /\ aq' \in Seq(Items(Nat)) /\ Closed(aq') /\ audio' \in Seq(Nat) /\ audioFrame' \in Int
  /\ \/ \E p \in AudioPlaces : pc' = [pc EXCEPT !["audio"] = p]
     \/ scrubbing /\ pc' = [pc EXCEPT !["audio"] = "none", !["video"] = "decode"]
  /\ at' = at \/ \E f \in Int : at' = [at EXCEPT !["audio"] = f]
  /\ UNCHANGED <<file, vq, asked, picture, user>>

\* Such a step of the audio thread keeps the data.
LEMMA AudioStepKeeps == ASSUME Data, AudioStep PROVE Data'
<1>1. /\ at \in [Threads -> Int] /\ "video" \in Threads /\ "audio" \in Threads
      /\ pc \in [Threads -> VideoPlaces \cup AudioPlaces \cup DecodePlaces]
      /\ pc["decode"] \in DecodePlaces /\ pc["audio"] \in AudioPlaces /\ pc["video"] \in VideoPlaces
  BY TypesAre
<1>2. at' \in [Threads -> Int]
  BY <1>1 DEF AudioStep
<1>3. /\ pc' \in [Threads -> VideoPlaces \cup AudioPlaces \cup DecodePlaces] /\ pc'["video"] \in VideoPlaces
      /\ pc'["decode"] = pc["decode"] /\ pc'["audio"] \in AudioPlaces
  <2>1. CASE \E p \in AudioPlaces : pc' = [pc EXCEPT !["audio"] = p]
    BY <1>1, <2>1 DEF Threads
  <2>2. CASE pc' = [pc EXCEPT !["audio"] = "none", !["video"] = "decode"]
    BY <1>1, <2>2 DEF Threads, AudioPlaces, VideoPlaces
  <2> QED BY <2>1, <2>2 DEF AudioStep
<1>4. TypeOK'
  BY <1>1, <1>2, <1>3 DEF AudioStep, Data, TypeOK, file, picture, user
<1>5. QED
  BY <1>4 DEF AudioStep, Data, picture

\* It has nothing to do with the order of the pictures, nor with their store.
LEMMA AudioStepOrders == ASSUME Control, Data, Order, Room, AudioStep PROVE Order' /\ Room'
<1>1. at \in [Threads -> Int] /\ pc \in [Threads -> VideoPlaces \cup AudioPlaces \cup DecodePlaces]
  BY TypesAre
<1>2. UNCHANGED <<pos, expected, vq, images, frame, playback>>
  BY DEF AudioStep, file, picture, user
<1>3. at'["video"] = at["video"] /\ at'["decode"] = at["decode"]
  BY <1>1 DEF AudioStep, Threads
<1>4. CASE playback = kForwards
  <2>1. ~scrubbing
    BY <1>4 DEF Control, ScrubsAlone, stopped, kForwards, kStopped
  <2>2. pc'["video"] = pc["video"] /\ pc'["decode"] = pc["decode"]
    BY <1>1, <2>1 DEF AudioStep, Threads
  <2> QED BY <1>2, <1>3, <2>2 DEF Order, Room, Burst
<1>5. CASE playback # kForwards
  BY <1>2, <1>5 DEF Order, Room
<1>6. QED
  BY <1>4, <1>5

\* The frame the sound drifts to is a number.
LEMMA DriftedIs == ASSUME Data, NEW f \in Int PROVE Drifted(f) \in Int
<1>1. /\ playback \in Int /\ FrameOut \in Int /\ FrameIn \in Int /\ Slack \in Int
  BY TypesAre, FileIs DEF Slack
<1>2. FrameIn - Slack \in Int /\ FrameOut + Slack \in Int /\ f + playback \in Int
  BY <1>1
<1> PICK m : m = Min({FrameOut + Slack, f + playback})
  OBVIOUS
<1>3. m \in Int
  BY <1>2, MinOf
<1>4. Max({FrameIn - Slack, m}) \in Int
  BY <1>2, <1>3, MaxOf
<1>5. QED
  BY <1>4 DEF Drifted

\* After a decoding, the audio thread is at one of its places.
LEMMA AfterAudioIs ==
  ASSUME Data, NEW s, AfterAudio(s)
  PROVE  /\ \E p \in AudioPlaces : pc' = [pc EXCEPT !["audio"] = p]
         /\ at' = at \/ \E f \in Int : at' = [at EXCEPT !["audio"] = f]
<1>1. at["audio"] \in Int
  BY TypesAre
<1>2. Drifted(at["audio"]) \in Int
  BY <1>1, DriftedIs
<1>3. at' = at \/ at' = [at EXCEPT !["audio"] = Drifted(at["audio"])]
  BY DEF AfterAudio
<1>4. \E p \in {"sound", "top", "gate"} : pc' = [pc EXCEPT !["audio"] = p]
  BY DEF AfterAudio, Goto
<1>5. QED
  BY <1>2, <1>3, <1>4 DEF AudioPlaces

\* The front of the queue of the sound, and what is left without it.
LEMMA AudioFrontIs ==
  ASSUME Data, aq # <<>>
  PROVE  /\ Head(aq) \in Items(Nat) /\ Tail(aq) \in Seq(Items(Nat))
         /\ Head(aq).kind \notin Begin => Closed(Tail(aq)) /\ Head(aq).kind # "seekEnd"
<1>1. aq \in Seq(Items(Nat)) /\ Closed(aq)
  BY TypesAre
<1>2. Head(aq) \in Items(Nat) /\ Tail(aq) \in Seq(Items(Nat))
  BY <1>1, TailIs
<1>3. Head(aq).kind \notin Begin => Closed(Tail(aq)) /\ Head(aq).kind # "seekEnd"
  BY <1>1, ClosedTail
<1>4. QED
  BY <1>2, <1>3

\* Every step of the audio thread is such a step.
LEMMA AudioSteps == ASSUME Data, AudioThread PROVE AudioStep
<1>0. /\ aq \in Seq(Items(Nat)) /\ Closed(aq) /\ audio \in Seq(Nat) /\ audioFrame \in Int
      /\ pc \in [Threads -> VideoPlaces \cup AudioPlaces \cup DecodePlaces]
      /\ pc["audio"] \in AudioPlaces /\ "audio" \in Threads /\ at \in [Threads -> Int] /\ playback \in Int
  BY TypesAre
<1>00. pc = [pc EXCEPT !["audio"] = pc["audio"]]
  BY <1>0
<1>01. {"top", "decode", "sound", "exited"} \subseteq AudioPlaces
  BY DEF AudioPlaces
<1>1. CASE AudioTop
  BY <1>0, <1>01, <1>1 DEF AudioTop, Goto, AudioStep, queues, sound
<1>2. CASE AudioEmpty
  <2>1. (\E s : AfterAudio(s)) /\ UNCHANGED <<file, queues, asked, picture, sound, user>>
    BY <1>2 DEF AudioEmpty
  <2> QED BY <1>0, <2>1, AfterAudioIs DEF AudioStep, queues, sound
<1>3. CASE AudioFlush
  <2>1. aq # <<>> /\ Head(aq).kind = "flush" /\ aq' = Tail(aq)
        /\ UNCHANGED <<file, vq, asked, picture, sound, pc, at, user>>
    BY <1>3 DEF AudioFlush, AudioFront
  <2>2. Tail(aq) \in Seq(Items(Nat)) /\ Closed(Tail(aq))
    BY <2>1, AudioFrontIs DEF Begin
  <2> QED BY <1>0, <1>00, <2>1, <2>2 DEF AudioStep, sound
<1>4. CASE AudioMarker
  <2>1. /\ aq # <<>> /\ Head(aq).kind \in {"loopStart", "loopEnd"} /\ (aq' = aq \/ aq' = Tail(aq))
        /\ \E s : AfterAudio(s)
        /\ UNCHANGED <<file, vq, asked, picture, sound, user>>
    BY <1>4 DEF AudioMarker
  <2>2. Tail(aq) \in Seq(Items(Nat)) /\ Closed(Tail(aq))
    BY <2>1, AudioFrontIs DEF Begin
  <2> QED BY <1>0, <2>1, <2>2, AfterAudioIs DEF AudioStep, sound
<1>5. CASE AudioSeek
  <2>1. aq # <<>> /\ Head(aq).kind \in Begin /\ HandleAudio(<<>>, TRUE)
        /\ UNCHANGED <<file, vq, asked, picture, user>>
    BY <1>5 DEF AudioSeek, AudioFront, Begin
  <2>0. <<>> \in Seq(Nat)
    OBVIOUS
  <2> PICK none \in Seq(Nat) : none = <<>>
    BY <2>0, Zenon
  <2>2. HandleAudio(none, TRUE)
    BY <2>1
  <2>3. /\ aq' \in Seq(Items(Nat)) /\ Closed(aq') /\ audio' \in Seq(Nat) /\ audioFrame' \in Int
        /\ \E s : AfterAudio(s)
    BY <1>0, <2>1, <2>2, HandleAudioIs
  <2> QED BY <2>1, <2>3, AfterAudioIs DEF AudioStep
<1>6. CASE AudioPreroll
  <2>1. aq # <<>> /\ Head(aq).kind \in Begin /\ UNCHANGED <<file, vq, asked, picture, user>>
    BY <1>6 DEF AudioPreroll, AudioFront, Begin
  <2>2. CASE AudioLater
    <3>1. AfterAudio("ok") /\ UNCHANGED <<aq, sound>>
      BY <1>6, <2>2 DEF AudioPreroll
    <3> QED BY <1>0, <2>1, <3>1, AfterAudioIs DEF AudioStep, sound
  <2>3. CASE ~AudioLater
    <3>1. HandleAudio(audio, FALSE)
      BY <1>6, <2>3 DEF AudioPreroll
    <3>2. /\ aq' \in Seq(Items(Nat)) /\ Closed(aq') /\ audio' \in Seq(Nat) /\ audioFrame' \in Int
          /\ \E s : AfterAudio(s)
      BY <1>0, <2>1, <3>1, HandleAudioIs
    <3> QED BY <2>1, <3>2, AfterAudioIs DEF AudioStep
  <2> QED BY <2>2, <2>3
<1>7. CASE AudioPacket
  <2>1. /\ aq # <<>> /\ Head(aq).kind = "packet" /\ aq' = Tail(aq) /\ audio' = Stored(audio, Head(aq).frame)
        /\ (\E s : AfterAudio(s)) \/ UNCHANGED <<pc, at>>
        /\ UNCHANGED <<file, vq, asked, picture, audioFrame, user>>
    BY <1>7 DEF AudioPacket, AudioFront
  <2>2. Tail(aq) \in Seq(Items(Nat)) /\ Closed(Tail(aq)) /\ Head(aq) \in Items(Nat)
    BY <2>1, AudioFrontIs DEF Begin
  <2>3. Head(aq).frame \in Nat
    BY <2>1, <2>2, ItemsAre DEF Loops
  <2>4. Stored(audio, Head(aq).frame) \in Seq(Nat)
    BY <1>0, <2>3, StoredIs
  <2>5. /\ \E p \in AudioPlaces : pc' = [pc EXCEPT !["audio"] = p]
        /\ at' = at \/ \E f \in Int : at' = [at EXCEPT !["audio"] = f]
    BY <1>0, <1>00, <2>1, AfterAudioIs
  <2> QED BY <1>0, <2>1, <2>2, <2>4, <2>5 DEF AudioStep
<1>8. CASE Sound
  <2>1. audio' \in Seq(Nat) /\ audioFrame' \in Int
    <3> DEFINE near == {i \in Range(audio) : i >= at["audio"]}
    <3>1. near \subseteq Nat
      BY <1>0, RangeIs
    <3>2. near # {} => Min(near) \in Nat
      <4> HIDE DEF near
      <4> QED BY <3>1, LeastOf
    <3>3. \/ UNCHANGED sound
          \/ /\ near # {} /\ audioFrame' = Min(near)
             /\ audio' = AudioByAge(at["audio"]) \/ audio' = AudioInRange(at["audio"])
      BY <1>8 DEF Sound
    <3> HIDE DEF near
    <3>4. AudioByAge(at["audio"]) \in Seq(Nat) /\ AudioInRange(at["audio"]) \in Seq(Nat)
      BY <1>0, AudioByAgeIs, AudioInRangeIs
    <3> QED BY <1>0, <3>2, <3>3, <3>4 DEF sound
  <2>2. UNCHANGED <<file, queues, asked, picture, user>>
    BY <1>8 DEF Sound
  <2>3. CASE scrubbing
    <3>1. pc' = [pc EXCEPT !["audio"] = "none", !["video"] = "decode"] /\ at' = at
      BY <1>8, <2>3 DEF Sound
    <3> QED BY <1>0, <2>1, <2>2, <2>3, <3>1 DEF AudioStep, queues
  <2>4. CASE ~scrubbing
    <3>1. pc' = [pc EXCEPT !["audio"] = "top"] /\ at' = [at EXCEPT !["audio"] = @ + playback]
      BY <1>8, <2>4 DEF Sound, Goto
    <3> PICK f \in Int : f = at["audio"] + playback
      BY <1>0
    <3>2. at' = [at EXCEPT !["audio"] = f]
      BY <3>1
    <3> QED BY <1>0, <1>01, <2>1, <2>2, <3>1, <3>2 DEF AudioStep, queues
  <2> QED BY <2>3, <2>4
<1>9. CASE Exit("audio")
  BY <1>0, <1>01, <1>9 DEF Exit, Goto, AudioStep, queues, sound
<1>10. QED
  BY <1>1, <1>2, <1>3, <1>4, <1>5, <1>6, <1>7, <1>8, <1>9 DEF AudioThread

-----------------------------------------------------------------------------
(***************************************************************************)
(* The decode thread                                                       *)
(***************************************************************************)

\* The decode thread.

DecodeStep ==
  /\ pos' \in 0..Len(File) /\ vq' \in Seq(Items(Clip)) /\ Closed(vq') /\ aq' \in Seq(Items(Nat)) /\ Closed(aq')
  /\ dts' \in Clip /\ adts' \in Int /\ expected' \in Int
  /\ asked' \in [frame : Clip, dts : Int, video : BOOLEAN, audio : BOOLEAN]
  /\ \E p \in DecodePlaces : pc' = [pc EXCEPT !["decode"] = p]
  /\ at' = at \/ at' = [at EXCEPT !["decode"] = dts']
  /\ UNCHANGED <<picture, sound, user>>

\* Such a step of the decode thread keeps the data.
LEMMA DecodeStepKeeps == ASSUME Data, DecodeStep PROVE Data'
<1>1. /\ at \in [Threads -> Int] /\ "decode" \in Threads
      /\ pc \in [Threads -> VideoPlaces \cup AudioPlaces \cup DecodePlaces]
      /\ pc["decode"] \in DecodePlaces /\ pc["audio"] \in AudioPlaces /\ pc["video"] \in VideoPlaces
  BY TypesAre
<1>2. at' \in [Threads -> Int]
  <2>1. dts' \in Int
    BY ClipIs DEF DecodeStep
  <2> QED BY <1>1, <2>1 DEF DecodeStep
<1>3. /\ pc' \in [Threads -> VideoPlaces \cup AudioPlaces \cup DecodePlaces] /\ pc'["video"] \in VideoPlaces
      /\ pc'["decode"] \in DecodePlaces /\ pc'["audio"] \in AudioPlaces
  BY <1>1 DEF DecodeStep, Threads
<1>4. TypeOK'
  BY <1>1, <1>2, <1>3 DEF DecodeStep, Data, TypeOK, picture, sound, user
<1>5. QED
  BY <1>4 DEF DecodeStep, Data, picture

\* What is given to queue_packets().
Given(r) == r \in Readers /\ Closed(r.vq) /\ Closed(r.aq)

\* A request starts with the file and the queues as they are, and neither stream served.
LEMMA ReaderIs ==
  ASSUME Data, NEW f \in Clip
  PROVE  Given(Reader(f)) /\ Reader(f).video = FALSE /\ Reader(f).audio = FALSE
<1>1. f \in Int
  BY ClipIs
<1>2. QED
  BY <1>1, TypesAre DEF Reader, Readers, Given

\* The markers of a loop.
LEMMA MarkersAre ==
  ASSUME NEW F
  PROVE  \E x, y \in Items(F) : LoopMarkers = <<x, y>> /\ x.kind \in Loops /\ y.kind \in Loops
<1>1. CASE at["decode"] + playback > FrameOut
  <2>1. Item("loopEnd", FrameOut + 1) \in Items(F) /\ Item("loopEnd", FrameOut + 2) \in Items(F)
    BY DEF Item, Items
  <2>2. Item("loopEnd", FrameOut + 1).kind \in Loops /\ Item("loopEnd", FrameOut + 2).kind \in Loops
    BY DEF Item, Loops
  <2>3. LoopMarkers = <<Item("loopEnd", FrameOut + 1), Item("loopEnd", FrameOut + 2)>>
    BY <1>1 DEF LoopMarkers
  <2> QED BY <2>1, <2>2, <2>3, Zenon
<1>2. CASE ~(at["decode"] + playback > FrameOut)
  <2>1. Item("loopStart", FrameIn - 1) \in Items(F) /\ Item("loopStart", FrameIn - 2) \in Items(F)
    BY DEF Item, Items
  <2>2. Item("loopStart", FrameIn - 1).kind \in Loops /\ Item("loopStart", FrameIn - 2).kind \in Loops
    BY DEF Item, Loops
  <2>3. LoopMarkers = <<Item("loopStart", FrameIn - 1), Item("loopStart", FrameIn - 2)>>
    BY <1>2 DEF LoopMarkers
  <2> QED BY <2>1, <2>2, <2>3, Zenon
<1>3. QED
  BY <1>1, <1>2

\* The markers of a loop are not part of a segment.
LEMMA MarkedQueue ==
  ASSUME NEW F, NEW q \in Seq(Items(F)), Closed(q)
  PROVE  q \o LoopMarkers \in Seq(Items(F)) /\ Closed(q \o LoopMarkers)
<1> PICK x, y \in Items(F) : LoopMarkers = <<x, y>> /\ x.kind \in Loops /\ y.kind \in Loops
  BY MarkersAre
<1>1. x.kind \notin Begin \cup {"seekEnd"} /\ y.kind \notin Begin \cup {"seekEnd"}
  BY DEF Loops, Begin
<1>2. q \o <<x, y>> = Append(Append(q, x), y)
  BY BeginIs
<1> PICK q1 \in Seq(Items(F)) : q1 = Append(q, x) /\ Closed(q1)
  BY <1>1, BeginIs, ClosedAppend
<1>3. Append(q1, y) \in Seq(Items(F)) /\ Closed(Append(q1, y))
  BY <1>1, AppendIs, ClosedAppend
<1>4. QED
  BY <1>2, <1>3

\* q1 is in order, as q was, and begins with a seek only if q did.
Still(q, q1, p) ==
  /\ q1 \in Seq(Items(Clip)) /\ Chained(q1, p) /\ Fresh(q1)
  /\ q1 # <<>> /\ Opens(q1[1]) => q # <<>> /\ Opens(q[1])

\* A marker leaves the pictures of a queue in order.
LEMMA MarkStill ==
  ASSUME NEW q \in Seq(Items(Clip)), NEW p, Chained(q, p), Fresh(q), NEW x \in Items(Clip), x.kind \in Loops
  PROVE  Still(q, Append(q, x), p)
<1>1. ~Opens(x) /\ x.kind # "packet"
  BY DEF Loops, Opens, Opening, Begin
<1>2. Append(q, x) \in Seq(Items(Clip)) /\ Chained(Append(q, x), p)
  BY <1>1, AppendIs, ChainedMark
<1>3. Fresh(Append(q, x)) /\ (Opens(Append(q, x)[1]) => q # <<>> /\ Opens(q[1]))
  BY <1>1, FreshAppend
<1>4. QED
  BY <1>2, <1>3 DEF Still

\* So do the two markers of a loop.
LEMMA MarkedForth ==
  ASSUME NEW q \in Seq(Items(Clip)), NEW p, Chained(q, p), Fresh(q)
  PROVE  Still(q, q \o LoopMarkers, p)
<1> PICK x, y \in Items(Clip) : LoopMarkers = <<x, y>> /\ x.kind \in Loops /\ y.kind \in Loops
  BY MarkersAre
<1>2. q \o <<x, y>> = Append(Append(q, x), y)
  BY BeginIs
<1> PICK q2 : q2 = Append(q, x)
  OBVIOUS
<1>3. Still(q, q2, p)
  BY MarkStill
<1>4. Still(q2, Append(q2, y), p)
  BY <1>3, MarkStill DEF Still
<1>5. Still(q, Append(q2, y), p)
  BY <1>3, <1>4 DEF Still
<1>6. QED
  BY <1>2, <1>5

\* What is read of the file.
Asking ==
  [pos |-> pos, vq |-> vq, aq |-> aq, dts |-> asked.dts, adts |-> adts, video |-> asked.video, audio |-> asked.audio]

\* A request that goes on starts with what it has read.
LEMMA AskingIs == ASSUME Data PROVE Given(Asking)
BY TypesAre DEF Asking, Readers, Given

\* One call of av_read_frame() of the decode thread.
LEMMA ReadPacketIs ==
  ASSUME Data, ReadPacket
  PROVE  \E r : /\ r = Read(Asking, asked.frame, FALSE, playback) /\ Given(r)
                /\ pos' = r.pos /\ vq' = r.vq /\ aq' = r.aq /\ adts' = r.adts
                /\ asked' = [asked EXCEPT !.dts = r.dts, !.video = r.video, !.audio = r.audio]
<1> PICK r : r = Read(Asking, asked.frame, FALSE, playback)
  OBVIOUS
<1>1. Asking \in Readers /\ Segments(Asking, FALSE)
  BY AskingIs DEF Given, Segments, Ready
<1> PICK f \in Clip : f = asked.frame
  BY TypesAre
<1>2. r \in Readers /\ Segments(r, FALSE)
  BY <1>1, ReadKeeps
<1>3. Given(r)
  BY <1>2 DEF Given, Segments, Ready
<1>4. /\ pos' = r.pos /\ vq' = r.vq /\ aq' = r.aq /\ adts' = r.adts
      /\ asked' = [asked EXCEPT !.dts = r.dts, !.video = r.video, !.audio = r.audio]
  BY DEF ReadPacket, Asking
<1>5. QED
  BY <1>3, <1>4

\* A reader is written back.
LEMMA CommitIs ==
  ASSUME NEW r0, NEW r, NEW dir, Sought(r0, r, dir), Commit(r, r.dts + 1)
  PROVE  /\ pos' \in 0..Len(File) /\ vq' \in Seq(Items(Clip)) /\ Closed(vq') /\ aq' \in Seq(Items(Nat)) /\ Closed(aq')
         /\ dts' \in Clip /\ adts' \in Int /\ expected' \in Int /\ expected' = dts' + 1
<1>1. r \in Readers /\ Closed(r.vq) /\ Closed(r.aq) /\ r.dts \in Clip /\ r.dts \in Int
  BY ClipIs DEF Sought
<1>2. /\ pos' = r.pos /\ vq' = r.vq /\ aq' = r.aq
      /\ dts' = r.dts /\ adts' = r.adts /\ expected' = r.dts + 1
  BY DEF Commit
<1>3. QED
  BY <1>1, <1>2 DEF Readers

\* Every step of the decode thread is such a step.
LEMMA DecodeSteps == ASSUME Data, DecodeThread PROVE DecodeStep
<1>0. /\ pos \in 0..Len(File) /\ vq \in Seq(Items(Clip)) /\ Closed(vq) /\ aq \in Seq(Items(Nat)) /\ Closed(aq)
      /\ dts \in Clip /\ adts \in Int /\ expected \in Int /\ playback \in Int
      /\ asked \in [frame : Clip, dts : Int, video : BOOLEAN, audio : BOOLEAN]
      /\ pc \in [Threads -> VideoPlaces \cup AudioPlaces \cup DecodePlaces] /\ pc["decode"] \in DecodePlaces
      /\ "decode" \in Threads /\ at \in [Threads -> Int]
  BY TypesAre
<1>00. pc = [pc EXCEPT !["decode"] = pc["decode"]]
  BY <1>0
<1>01. {"top", "read", "gate", "exited"} \subseteq DecodePlaces
  BY DEF DecodePlaces
<1>1. CASE DecodeLoop
  <2>1. /\ vq' = vq \o LoopMarkers /\ aq' = aq \o LoopMarkers /\ pc' = [pc EXCEPT !["decode"] = "gate"]
        /\ UNCHANGED <<file, asked, picture, sound, at, user>>
    BY <1>1 DEF DecodeLoop, Goto
  <2>2. /\ vq' \in Seq(Items(Clip)) /\ Closed(vq') /\ aq' \in Seq(Items(Nat)) /\ Closed(aq')
    BY <1>0, <2>1, MarkedQueue
  <2> QED BY <1>0, <1>01, <2>1, <2>2 DEF DecodeStep, file
<1>2. CASE Request
  <2> PICK f \in Clip : f = at["decode"] + playback
    BY <1>2 DEF Request
  <2>1. UNCHANGED <<picture, sound, user>>
    BY <1>2 DEF Request
  <2>2. CASE f # expected
    <3> PICK r : r = SeekResult(Reader(f), f, playback, FALSE)
      OBVIOUS
    <3>1. Commit(r, r.dts + 1) /\ at' = [at EXCEPT !["decode"] = dts'] /\ UNCHANGED <<asked, pc>>
      BY <1>2, <2>2 DEF Request
    <3>2. Sought(Reader(f), r, playback)
      BY ReaderIs, SeekResultIs DEF Given
    <3>4. /\ pos' \in 0..Len(File) /\ vq' \in Seq(Items(Clip)) /\ Closed(vq') /\ aq' \in Seq(Items(Nat)) /\ Closed(aq')
          /\ dts' \in Clip /\ adts' \in Int /\ expected' \in Int
      BY <3>1, <3>2, CommitIs
    <3> QED BY <1>0, <1>00, <2>1, <3>1, <3>4 DEF DecodeStep
  <2>3. CASE f = expected
    <3>1. /\ asked' = [frame |-> f, dts |-> f, video |-> FALSE, audio |-> FALSE]
          /\ pc' = [pc EXCEPT !["decode"] = "read"] /\ UNCHANGED <<file, queues, at>>
      BY <1>2, <2>3 DEF Request, Goto
    <3>2. f \in Int
      BY ClipIs
    <3> QED BY <1>0, <1>01, <2>1, <3>1, <3>2 DEF DecodeStep, file, queues
  <2> QED BY <2>2, <2>3
<1>3. CASE ReadPacket
  <2> PICK r : /\ Given(r)
               /\ pos' = r.pos /\ vq' = r.vq /\ aq' = r.aq /\ adts' = r.adts
               /\ asked' = [asked EXCEPT !.dts = r.dts, !.video = r.video, !.audio = r.audio]
    BY <1>3, ReadPacketIs
  <2>1. /\ r.pos \in 0..Len(File) /\ r.vq \in Seq(Items(Clip)) /\ r.aq \in Seq(Items(Nat)) /\ r.dts \in Int
        /\ r.adts \in Int /\ r.video \in BOOLEAN /\ r.audio \in BOOLEAN /\ Closed(r.vq) /\ Closed(r.aq)
    BY DEF Given, Readers
  <2>2. asked' \in [frame : Clip, dts : Int, video : BOOLEAN, audio : BOOLEAN]
    BY <1>0, <2>1
  <2>3. UNCHANGED <<dts, expected, picture, sound, pc, at, user>>
    BY <1>3 DEF ReadPacket
  <2> QED BY <1>0, <1>00, <2>1, <2>2, <2>3 DEF DecodeStep
<1>4. CASE Fetched
  <2>1. /\ dts' = Clamp(asked.dts) /\ expected' = dts' + 1 /\ at' = [at EXCEPT !["decode"] = dts']
        /\ pc' = [pc EXCEPT !["decode"] = "top"] /\ asked' = Nothing
        /\ UNCHANGED <<pos, adts, queues, picture, sound, user>>
    BY <1>4 DEF Fetched, Goto
  <2>2. dts' \in Clip /\ dts' \in Int
    BY <1>0, <2>1, ClampIs, ClipIs
  <2>3. Nothing \in [frame : Clip, dts : Int, video : BOOLEAN, audio : BOOLEAN]
    BY FileIs DEF Nothing
  <2>4. expected' \in Int /\ asked' \in [frame : Clip, dts : Int, video : BOOLEAN, audio : BOOLEAN]
    BY <2>1, <2>2, <2>3
  <2>5. UNCHANGED <<pos, adts, vq, aq, picture, sound, user>>
    BY <2>1 DEF queues
  <2>6. \E p \in DecodePlaces : pc' = [pc EXCEPT !["decode"] = p]
    BY <1>01, <2>1
  <2> QED BY <1>0, <2>1, <2>2, <2>4, <2>5, <2>6 DEF DecodeStep
<1>5. CASE Exit("decode")
  BY <1>0, <1>01, <1>5 DEF Exit, Goto, DecodeStep, file, queues
<1>6. QED
  BY <1>1, <1>2, <1>3, <1>4, <1>5 DEF DecodeThread

\* Forwards, the decode thread queues the pictures one after the other, and asks for the
\* frame that is expected.
LEMMA DecodeForth ==
  ASSUME Data, Order, playback = kForwards, DecodeThread
  PROVE  Still(vq, vq', pos') /\ (pc'["decode"] = "top" => expected' = at'["decode"] + 1)
<1>0. /\ vq \in Seq(Items(Clip)) /\ playback = 1 /\ "decode" \in Threads
      /\ pc \in [Threads -> VideoPlaces \cup AudioPlaces \cup DecodePlaces] /\ at \in [Threads -> Int]
  BY TypesAre DEF kForwards
<1>01. Chained(vq, pos) /\ Fresh(vq) /\ (pc["decode"] = "top" => expected = at["decode"] + 1)
  BY DEF Order
<1>02. vq' = vq /\ pos' = pos => Still(vq, vq', pos')
  BY <1>0, <1>01 DEF Still
<1>1. CASE DecodeLoop
  <2>1. vq' = vq \o LoopMarkers /\ pos' = pos /\ pc' = [pc EXCEPT !["decode"] = "gate"]
    BY <1>1 DEF DecodeLoop, Goto, file
  <2>2. Still(vq, vq \o LoopMarkers, pos)
    BY <1>0, <1>01, MarkedForth
  <2> QED BY <1>0, <2>1, <2>2
<1>2. CASE Request
  <2>1. pc["decode"] = "top" /\ at["decode"] + playback = expected
    BY <1>0, <1>01, <1>2 DEF Request
  <2>2. pc' = [pc EXCEPT !["decode"] = "read"] /\ UNCHANGED <<file, queues, at>>
    BY <1>2, <2>1 DEF Request, Goto
  <2> QED BY <1>0, <1>02, <2>2 DEF file, queues
<1>3. CASE ReadPacket
  <2> PICK r : /\ r = Read(Asking, asked.frame, FALSE, playback) /\ Given(r) /\ pos' = r.pos /\ vq' = r.vq
    BY <1>3, ReadPacketIs
  <2> PICK f \in Clip : f = asked.frame
    BY TypesAre
  <2> PICK b \in BOOLEAN : b = (vq # <<>> /\ Opens(vq[1]))
    OBVIOUS
  <2>1. Forth(Asking, b)
    BY <1>01 DEF Forth, Asking
  <2>2. Asking \in Readers /\ playback # kBackwards
    BY AskingIs DEF Given, kForwards, kBackwards
  <2>3. Forth(r, b)
    <3>1. r = Read(Asking, f, FALSE, playback)
      OBVIOUS
    <3>2. FALSE \in BOOLEAN
      OBVIOUS
    <3> QED BY <2>1, <2>2, <3>1, <3>2, ReadForth, Zenon
  <2>4. Still(vq, vq', pos')
    BY <2>3 DEF Forth, Still, Given, Readers
  <2>5. pc["decode"] = "read" /\ pc' = pc
    BY <1>3 DEF ReadPacket
  <2> QED BY <2>4, <2>5
<1>4. CASE Fetched
  <2>1. expected' = dts' + 1 /\ at' = [at EXCEPT !["decode"] = dts'] /\ UNCHANGED <<pos, queues>>
    BY <1>4 DEF Fetched
  <2> QED BY <1>0, <1>02, <2>1 DEF queues
<1>5. CASE Exit("decode")
  BY <1>0, <1>5 DEF Exit, stopped, kStopped
<1>6. QED
  BY <1>1, <1>2, <1>3, <1>4, <1>5 DEF DecodeThread

\* The decode thread keeps the order and the room.
LEMMA DecodeOrders == ASSUME Data, Order, Room, DecodeThread PROVE Order' /\ Room'
<1>1. DecodeStep
  BY DecodeSteps
<1>2. /\ UNCHANGED <<images, frame, playback>> /\ pc'["video"] = pc["video"] /\ at'["video"] = at["video"]
  BY <1>1, TypesAre DEF DecodeStep, picture, user, Threads
<1>3. CASE playback = kForwards
  <2>1. Still(vq, vq', pos') /\ (pc'["decode"] = "top" => expected' = at'["decode"] + 1)
    BY <1>3, DecodeForth
  <2>2. Order'
    BY <1>2, <1>3, <2>1 DEF Order, Still
  <2>3. Room'
    BY <1>2 DEF Room, Burst
  <2> QED BY <2>2, <2>3
<1>4. CASE playback # kForwards
  BY <1>2, <1>4 DEF Order, Room
<1>5. QED
  BY <1>3, <1>4

-----------------------------------------------------------------------------
(***************************************************************************)
(* The user                                                                *)
(***************************************************************************)

\* The UI thread.

\* Stopped, nothing is asked of the order, nor of the room.
LEMMA StillStopped == ASSUME playback' = kStopped PROVE Order' /\ Room'
BY DEF Order, Room, kStopped, kForwards

\* The ends of the threads, and the user who stops them.
LEMMA StopsKeep == ASSUME Data, EndPass \/ Join \/ UserStop PROVE Data' /\ Order' /\ Room'
<1>0. /\ playback \in {kForwards, kBackwards, kStopped} /\ FrameIn \in Int
      /\ pc["decode"] \in DecodePlaces /\ pc["audio"] \in AudioPlaces /\ pc["video"] \in VideoPlaces
  BY TypesAre, FileIs
<1>1. <<>> \in Seq(Items(Clip)) /\ <<>> \in Seq(Items(Nat)) /\ Closed(<<>>)
  BY DEF Closed
<1>2. CASE EndPass
  <2>1. /\ vq' = <<>> /\ aq' = <<>> /\ playback' = kStopped /\ pc' = [t \in Threads |-> "exited"]
        /\ UNCHANGED <<file, asked, picture, sound, at, scrubbing, left, sought>>
    BY <1>2 DEF EndPass
  <2>2. /\ pc' \in [Threads -> VideoPlaces \cup AudioPlaces \cup DecodePlaces]
        /\ pc'["decode"] \in DecodePlaces /\ pc'["audio"] \in AudioPlaces /\ pc'["video"] \in VideoPlaces
    BY <2>1 DEF DecodePlaces, AudioPlaces, VideoPlaces, Threads
  <2>3. TypeOK'
    BY <1>1, <2>1, <2>2 DEF Data, TypeOK, file, picture, sound
  <2>4. Data'
    BY <1>1, <2>1, <2>3 DEF Data, picture
  <2> QED BY <2>1, <2>4, StillStopped
<1>3. CASE Join
  <2>1. /\ vq' = <<>> /\ aq' = <<>> /\ pc' = [t \in Threads |-> "none"] /\ at' = [t \in Threads |-> FrameIn]
        /\ UNCHANGED <<file, asked, picture, sound, user>> /\ playback = kStopped
    BY <1>3 DEF Join, stopped
  <2>2. /\ pc' \in [Threads -> VideoPlaces \cup AudioPlaces \cup DecodePlaces]
        /\ pc'["decode"] \in DecodePlaces /\ pc'["audio"] \in AudioPlaces /\ pc'["video"] \in VideoPlaces
    BY <2>1 DEF DecodePlaces, AudioPlaces, VideoPlaces, Threads
  <2>3. at' \in [Threads -> Int]
    BY <1>0, <2>1
  <2>4. TypeOK'
    BY <1>1, <2>1, <2>2, <2>3 DEF Data, TypeOK, file, picture, sound, user
  <2>5. Data'
    BY <1>1, <2>1, <2>4 DEF Data, picture
  <2>6. playback' = kStopped
    BY <2>1 DEF user
  <2> QED BY <2>5, <2>6, StillStopped
<1>4. CASE UserStop
  <2>1. playback' = kStopped /\ UNCHANGED <<file, queues, asked, picture, sound, pc, at, scrubbing, left, sought>>
    BY <1>4 DEF UserStop
  <2>2. TypeOK'
    BY <2>1 DEF Data, TypeOK, file, queues, picture, sound
  <2>3. Data'
    BY <2>1, <2>2 DEF Data, queues, picture
  <2> QED BY <2>1, <2>3, StillStopped
<1>5. QED
  BY <1>2, <1>3, <1>4

\* One of what is left is spent.
LEMMA Less == ASSUME NEW N \in Nat, NEW n \in 0..N, n > 0 PROVE \E m \in 0..N : m = n - 1
OBVIOUS

\* What the user may still do stays within its bounds.
LEMMA SpendIs ==
  ASSUME Data, NEW what \in {"play", "scrub"}, Spend(what)
  PROVE  left' \in [play : 0..Plays, scrub : 0..Scrubs, both : 0..Asks]
<1>1. /\ left \in [play : 0..Plays, scrub : 0..Scrubs, both : 0..Asks] /\ left[what] > 0 /\ left.both > 0
      /\ left' = [left EXCEPT ![what] = @ - 1, !.both = @ - 1]
  BY TypesAre DEF Spend
<1>2. Plays \in Nat /\ Scrubs \in Nat /\ Asks \in Nat
  BY MovieAssumption
<1>6. left.both \in 0..Asks /\ left.play \in 0..Plays /\ left.scrub \in 0..Scrubs
  BY <1>1
<1>7. left.both > 0
  BY <1>1
<1> PICK b \in 0..Asks : b = left.both - 1
  BY <1>2, <1>6, <1>7, Less, Zenon
<1>3. CASE what = "play"
  <2> PICK n \in 0..Plays : n = left.play - 1
    <3>1. left.play > 0
      BY <1>1, <1>3
    <3> QED BY <1>2, <1>6, <3>1, Less, Zenon
  <2>1. left' = [left EXCEPT !.play = n, !.both = b]
    BY <1>1, <1>3
  <2> QED BY <1>1, <2>1
<1>4. CASE what = "scrub"
  <2> PICK n \in 0..Scrubs : n = left.scrub - 1
    <3>1. left.scrub > 0
      BY <1>1, <1>4
    <3> QED BY <1>2, <1>6, <3>1, Less, Zenon
  <2>1. left' = [left EXCEPT !.scrub = n, !.both = b]
    BY <1>1, <1>4
  <2> QED BY <1>1, <2>1
<1>5. QED
  BY <1>3, <1>4

\* What is read into queues that have been cleared.
Emptied(r) == [r EXCEPT !.vq = <<>>, !.aq = <<>>]

\* clear_packets() leaves two queues with nothing to close.
LEMMA EmptiedIs ==
  ASSUME NEW r, Given(r)
  PROVE  Given(Emptied(r)) /\ Emptied(r).vq = <<>> /\ Emptied(r).video = r.video /\ Emptied(r).audio = r.audio
<1>1. <<>> \in Seq(Items(Clip)) /\ <<>> \in Seq(Items(Nat)) /\ Closed(<<>>)
  BY DEF Closed
<1> PICK s : s = Emptied(r)
  OBVIOUS
<1>2. s = [r EXCEPT !.vq = <<>>, !.aq = <<>>] /\ r \in Readers
  BY DEF Emptied, Given
<1>3. s \in Readers /\ s.vq = <<>> /\ s.aq = <<>> /\ s.video = r.video /\ s.audio = r.audio
  BY <1>1, <1>2 DEF Readers
<1>4. Given(s)
  BY <1>1, <1>3 DEF Given
<1>5. QED
  BY <1>3, <1>4

\* play() empties the queues and seeks the frame it starts from.
LEMMA PlayKeeps ==
  ASSUME Data, NEW dir \in {kForwards, kBackwards}, Play(dir)
  PROVE  Data' /\ Order' /\ Room'
<1>0. frame \in Clip /\ frame \in Int
  BY TypesAre, ClipIs
<1> PICK seekReq \in BOOLEAN : seekReq = (dir = kForwards)
  OBVIOUS
<1> PICK r0 : r0 = Emptied(Reader(frame))
  OBVIOUS
<1> PICK r : r = SeekResult(r0, frame, dir, seekReq)
  OBVIOUS
<1>1. /\ playback' = dir /\ Commit(r, r.dts + 1) /\ audioFrame' = frame
      /\ at' = [decode |-> dts', video |-> frame, audio |-> frame]
      /\ pc' = [t \in Threads |-> "top"]
      /\ UNCHANGED <<asked, picture, audio, scrubbing>> /\ Spend("play") /\ sought' = TRUE
  BY DEF Play, Emptied
<1>2. Given(r0) /\ r0.vq = <<>> /\ r0.video = FALSE /\ r0.audio = FALSE
  BY <1>0, ReaderIs, EmptiedIs
<1>3. Sought(r0, r, dir)
  BY <1>0, <1>2, SeekResultIs DEF Given
<1>4. /\ pos' \in 0..Len(File) /\ vq' \in Seq(Items(Clip)) /\ Closed(vq') /\ aq' \in Seq(Items(Nat)) /\ Closed(aq')
      /\ dts' \in Clip /\ adts' \in Int /\ expected' \in Int /\ expected' = dts' + 1
  BY <1>1, <1>3, CommitIs
<1>5. at' \in [Threads -> Int] /\ at'["video"] = frame /\ at'["decode"] = dts'
  <2>1. dts' \in Int
    BY <1>4, ClipIs
  <2> QED BY <1>0, <1>1, <2>1 DEF Threads
<1>6. /\ pc' \in [Threads -> VideoPlaces \cup AudioPlaces \cup DecodePlaces]
      /\ pc'["decode"] = "top" /\ pc'["audio"] = "top" /\ pc'["video"] = "top"
  BY <1>1 DEF DecodePlaces, AudioPlaces, VideoPlaces, Threads
<1>7. left' \in [play : 0..Plays, scrub : 0..Scrubs, both : 0..Asks]
  BY <1>1, SpendIs
<1>8. TypeOK'
  BY <1>0, <1>1, <1>4, <1>5, <1>6, <1>7 DEF Data, TypeOK, picture, DecodePlaces, AudioPlaces, VideoPlaces
<1>9. Data'
  BY <1>1, <1>4, <1>8 DEF Data, picture
<1>10. frame' = frame
  BY <1>1 DEF picture
<1>11. Room'
  BY <1>5, <1>10 DEF Room
<1>12. Order'
  <2>1. dir = kForwards => Chained(vq', pos') /\ Fresh(vq')
    BY <1>1, <1>2, <1>3 DEF Sought, Commit
  <2> QED BY <1>1, <1>4, <1>5, <1>6, <1>10, <2>1 DEF Order
<1>13. QED
  BY <1>9, <1>11, <1>12

\* What a seek has read becomes the state of the movie.
LEMMA CommitsAre ==
  ASSUME NEW r, Given(r), r.dts \in Int, r.dts \in Clip, NEW next, Commit(r, next), next = r.dts + 1 \/ next = Never
  PROVE  /\ pos' \in 0..Len(File) /\ vq' \in Seq(Items(Clip)) /\ Closed(vq') /\ aq' \in Seq(Items(Nat)) /\ Closed(aq')
         /\ dts' \in Clip /\ adts' \in Int /\ expected' \in Int
<1>1. next \in Int
  BY DEF Never
<1>2. /\ pos' = r.pos /\ vq' = r.vq /\ aq' = r.aq
      /\ dts' = r.dts /\ adts' = r.adts /\ expected' = next
  BY DEF Commit
<1>3. QED
  BY <1>1, <1>2 DEF Readers, Given

\* Reading without a seek leaves the queues as they should be.
LEMMA PlainIs ==
  ASSUME NEW r0, Given(r0), NEW f \in Clip, NEW dir
  PROVE  Given(ReadAll(r0, f, FALSE, dir))
<1> PICK r : r = ReadAll(r0, f, FALSE, dir)
  OBVIOUS
<1>1. r0 \in Readers /\ Segments(r0, FALSE)
  BY DEF Given, Segments, Ready
<1>2. Through(r0, r, FALSE, dir)
  BY <1>1, ReadAllKeeps
<1>3. Given(r)
  BY <1>2 DEF Through, Given, Segments, Ready
<1>4. QED
  BY <1>3

FileStep ==
  /\ pos' \in 0..Len(File) /\ vq' \in Seq(Items(Clip)) /\ Closed(vq') /\ aq' \in Seq(Items(Nat)) /\ Closed(aq')
  /\ dts' \in Clip /\ adts' \in Int /\ expected' \in Int

\* A scrub that seeks.
LEMMA ScrubbedIs ==
  ASSUME NEW r0, Given(r0), r0.video = FALSE, r0.audio = FALSE, NEW f \in Clip,
         Commit(SeekResult(r0, f, kStopped, TRUE), SeekResult(r0, f, kStopped, TRUE).dts + 1)
  PROVE  FileStep
<1> PICK r : r = SeekResult(r0, f, kStopped, TRUE)
  OBVIOUS
<1> PICK dir : dir = kStopped
  OBVIOUS
<1>1. Sought(r0, r, dir)
  BY SeekResultIs DEF Given
<1>2. FileStep
  BY <1>1, CommitIs DEF FileStep
<1>3. QED
  BY <1>2

\* A reader with the frame it has come to.
LEMMA ClampedIs ==
  ASSUME NEW r, Given(r), NEW s, s = [r EXCEPT !.dts = Clamp(@)], NEW t, t = [s EXCEPT !.adts = s.dts]
  PROVE  /\ Given(s) /\ s.dts \in Int /\ s.dts \in Clip
         /\ Given(t) /\ t.dts \in Int /\ t.dts \in Clip
<1>1. r \in Readers /\ Closed(r.vq) /\ Closed(r.aq) /\ r.dts \in Int
  BY DEF Given, Readers
<1> PICK d \in Clip : d = Clamp(r.dts)
  BY <1>1, ClampIs
<1>2. d \in Int
  BY ClipIs
<1>3. s = [r EXCEPT !.dts = d]
  OBVIOUS
<1>4. s \in Readers /\ s.vq = r.vq /\ s.aq = r.aq /\ s.dts = d
  BY <1>1, <1>2, <1>3 DEF Readers
<1>5. t = [s EXCEPT !.adts = d]
  BY <1>4
<1>6. t \in Readers /\ t.vq = r.vq /\ t.aq = r.aq /\ t.dts = d
  BY <1>2, <1>4, <1>5 DEF Readers
<1>7. QED
  BY <1>1, <1>2, <1>4, <1>6 DEF Given

\* A scrub, that seeks or reads on by what the stores hold.
LEMMA ScrubKeeps ==
  ASSUME Control, Data, NEW f \in Clip, Scrub(f)
  PROVE  Data' /\ Order' /\ Room'
<1>0. /\ f \in Int /\ at \in [Threads -> Int] /\ "audio" \in Threads /\ "video" \in Threads
      /\ pc \in [Threads -> VideoPlaces \cup AudioPlaces \cup DecodePlaces]
      /\ pc["decode"] \in DecodePlaces /\ pc["audio"] \in AudioPlaces /\ pc["video"] \in VideoPlaces
      /\ decoder \in [held : Seq(Clip), drained : BOOLEAN] /\ Len(decoder.held) <= Delay
  BY TypesAre, ClipIs DEF Data
<1> PICK r0 : r0 = IF f # expected THEN Emptied(Reader(f)) ELSE Reader(f)
  OBVIOUS
<1>1. Given(r0) /\ r0.video = FALSE /\ r0.audio = FALSE
  BY ReaderIs, EmptiedIs
<1> PICK r : r = SeekResult(r0, f, kStopped, TRUE)
  OBVIOUS
<1> PICK all : all = ReadAll(r0, f, FALSE, kStopped)
  OBVIOUS
<1> PICK plain : plain = [all EXCEPT !.dts = Clamp(@)]
  OBVIOUS
<1> PICK skipped : skipped = [plain EXCEPT !.adts = plain.dts]
  OBVIOUS
<1>2. \/ Commit(r, r.dts + 1) /\ UNCHANGED decoder
      \/ Commit(skipped, Never) /\ decoder' = Flushed
      \/ Commit(plain, plain.dts + 1) /\ UNCHANGED decoder
  BY DEF Scrub, Emptied
<1>3. /\ Spend("scrub") /\ at' = [at EXCEPT !["audio"] = f, !["video"] = f]
      /\ pc' = [pc EXCEPT !["audio"] = "decode"] /\ scrubbing' = TRUE
      /\ UNCHANGED <<asked, images, frame, hires, sound, playback>>
  BY DEF Scrub
<1>30. sought' \in BOOLEAN
  BY Zenon DEF Scrub
<1>4. Given(all)
  BY <1>1, PlainIs
<1>5. /\ Given(plain) /\ plain.dts \in Int /\ plain.dts \in Clip
      /\ Given(skipped) /\ skipped.dts \in Int /\ skipped.dts \in Clip
  BY <1>4, ClampedIs
<1>6. FileStep
  <2>1. CASE Commit(r, r.dts + 1)
    BY <1>1, <2>1, ScrubbedIs
  <2>2. CASE Commit(skipped, Never)
    BY <1>5, <2>2, CommitsAre DEF FileStep
  <2>3. CASE Commit(plain, plain.dts + 1)
    <3> PICK next : next = plain.dts + 1
      OBVIOUS
    <3> QED BY <1>5, <2>3, CommitsAre DEF FileStep
  <2> QED BY <1>2, <2>1, <2>2, <2>3
<1>7. decoder' \in [held : Seq(Clip), drained : BOOLEAN] /\ Len(decoder'.held) <= Delay
  <2>1. Flushed \in [held : Seq(Clip), drained : BOOLEAN] /\ Len(Flushed.held) <= Delay
    BY MovieAssumption DEF Flushed
  <2> QED BY <1>0, <1>2, <2>1
<1>8. at' \in [Threads -> Int]
  BY <1>0, <1>3
<1>9. /\ pc' \in [Threads -> VideoPlaces \cup AudioPlaces \cup DecodePlaces]
      /\ pc'["decode"] \in DecodePlaces /\ pc'["audio"] \in AudioPlaces /\ pc'["video"] \in VideoPlaces
  BY <1>0, <1>3 DEF AudioPlaces, Threads
<1>10. left' \in [play : 0..Plays, scrub : 0..Scrubs, both : 0..Asks]
  BY <1>3, SpendIs
<1>11. TypeOK'
  BY <1>3, <1>30, <1>6, <1>7, <1>8, <1>9, <1>10 DEF FileStep, Data, TypeOK, sound
<1>12. Data'
  BY <1>6, <1>7, <1>11 DEF Data, FileStep
<1>13. playback' = kStopped
  <2>1. pc["decode"] = "none"
    BY DEF Scrub, Idle, Threads
  <2> QED BY <1>3, <2>1 DEF Control, PlaysWithThreads, stopped
<1>14. QED
  BY <1>12, <1>13, StillStopped

-----------------------------------------------------------------------------
\* The movie as it is opened.
LEMMA DataInit == Init => Data /\ Order /\ Room
<1> SUFFICES ASSUME Init PROVE Data /\ Order /\ Room
  OBVIOUS
<1> PICK o : o = Opened
  OBVIOUS
<1>1. Populates(o)
  BY OpenedKeeps
<1>2. /\ o.pos \in 0..Len(File) /\ o.vq \in Seq(Items(Clip)) /\ o.aq \in Seq(Items(Nat)) /\ o.adts \in Int
      /\ o.d \in Decoders /\ Closed(o.vq) /\ Closed(o.aq)
  BY <1>1, PlainClosed DEF Populates, OpenReaders
<1>3. /\ pos = o.pos /\ vq = o.vq /\ aq = o.aq /\ adts = o.adts
      /\ dts = FrameIn /\ expected = FrameIn + 1
      /\ asked = Nothing
      /\ decoder = [held |-> o.d.held, drained |-> FALSE]
      /\ images = o.d.images /\ frame = FrameIn /\ hires = FrameIn
      /\ audio = <<>> /\ audioFrame = FrameIn
      /\ pc = [t \in Threads |-> "none"]
      /\ at = [t \in Threads |-> FrameIn]
      /\ playback = kStopped /\ scrubbing = FALSE /\ sought = FALSE
      /\ left = [play |-> Plays, scrub |-> Scrubs, both |-> Asks]
  BY DEF Init
<1>4. FrameIn \in Clip /\ FrameIn \in Int /\ FrameIn + 1 \in Int
  BY FileIs
<1>5. o.d.held \in Seq(Clip) /\ o.d.images \in Seq(Clip) /\ Len(o.d.held) <= Delay
  BY <1>2 DEF Decoders
<1>6. asked \in [frame : Clip, dts : Int, video : BOOLEAN, audio : BOOLEAN]
  BY <1>3, <1>4 DEF Nothing
<1>7. /\ pc \in [Threads -> VideoPlaces \cup AudioPlaces \cup DecodePlaces]
      /\ pc["decode"] \in DecodePlaces /\ pc["audio"] \in AudioPlaces /\ pc["video"] \in VideoPlaces
      /\ at \in [Threads -> Int]
  BY <1>3, <1>4 DEF AudioPlaces, VideoPlaces, DecodePlaces, Threads
<1>8. left \in [play : 0..Plays, scrub : 0..Scrubs, both : 0..Asks]
  BY <1>3, MovieAssumption
<1>9. decoder \in [held : Seq(Clip), drained : BOOLEAN] /\ decoder.held = o.d.held
  BY <1>3, <1>5
<1>10. audio \in Seq(Nat)
  BY <1>3
<1>11. TypeOK
  BY <1>2, <1>3, <1>4, <1>5, <1>6, <1>7, <1>8, <1>9, <1>10 DEF TypeOK
<1>12. Data
  BY <1>2, <1>3, <1>5, <1>9, <1>11 DEF Data
<1>13. Order /\ Room
  BY <1>3 DEF Order, Room, kForwards, kStopped
<1>14. QED
  BY <1>12, <1>13

\* The inductive invariant.
IInv == Control /\ Data /\ Order /\ Room

\* Every step keeps the invariant: one case for each actor.
LEMMA Inductive == IInv /\ [Next]_vars => IInv'
<1> SUFFICES ASSUME IInv, [Next]_vars PROVE IInv'
  OBVIOUS
<1>0. Control /\ Data /\ Order /\ Room
  BY DEF IInv
<1>1. CASE UNCHANGED vars
  <2>1. Control'
    BY <1>0, <1>1 DEF Control, Shape, ScrubsAlone, OneStepAhead, ShowsClip, GatesOutside, PlaysWithThreads,
       stopped, vars, picture, user
  <2>2. Data'
    BY <1>0, <1>1 DEF Data, TypeOK, vars, file, queues, picture, sound, user
  <2>3. Order' /\ Room'
    BY <1>0, <1>1 DEF Order, Room, Burst, vars, file, queues, picture, user
  <2> QED BY <2>1, <2>2, <2>3 DEF IInv
<1>2. CASE DecodeThread
  BY <1>0, <1>2, DecodeKeeps, DecodeSteps, DecodeStepKeeps, DecodeOrders DEF IInv
<1>3. CASE VideoThread
  BY <1>0, <1>3, VideoKeeps, VideoSteps, VideoStepKeeps, VideoOrders DEF IInv
<1>4. CASE AudioThread
  BY <1>0, <1>4, AudioKeeps, AudioSteps, AudioStepKeeps, AudioStepOrders DEF IInv
<1>5. CASE EndPass \/ Join \/ User
  <2>1. Control'
    BY <1>0, <1>5, UserKeeps
  <2>2. Data' /\ Order' /\ Room'
    <3>1. CASE EndPass \/ Join \/ UserStop
      BY <1>0, <3>1, StopsKeep
    <3>2. CASE \E dir \in {kForwards, kBackwards} : Play(dir)
      BY <1>0, <3>2, PlayKeeps
    <3>3. CASE \E f \in Clip : Scrub(f)
      BY <1>0, <3>3, ScrubKeeps
    <3> QED BY <1>5, <3>1, <3>2, <3>3 DEF User
  <2> QED BY <2>1, <2>2 DEF IInv
<1>6. QED
  BY <1>1, <1>2, <1>3, <1>4, <1>5 DEF Next

\* The invariant holds in every behaviour.
LEMMA Invariant == Spec => []IInv
<1>1. Init => IInv
  BY InvInit, DataInit DEF IInv
<1>2. QED
  BY <1>1, Inductive, PTL DEF Spec

-----------------------------------------------------------------------------
(***************************************************************************)
(* What the movie keeps to                                                 *)
(***************************************************************************)

\* The three threads of a movie meet at the end of the clip only when its last
\* frame has been shown, forwards, or its first one, backwards.
THEOREM PassIsShown == Spec => []PassEndsAtTheEnd
<1>1. IInv => PassEndsAtTheEnd
  <2> SUFFICES ASSUME IInv, \A t \in Threads : pc[t] = "gate", ~stopped
               PROVE  frame = (IF playback = kForwards THEN FrameOut ELSE FrameIn)
    BY DEF PassEndsAtTheEnd
  <2>1. pc["video"] = "gate"
    BY DEF Threads
  <2>2. /\ frame \in Clip /\ playback \in {kForwards, kBackwards}
        /\ at["video"] \in {frame, frame + playback} /\ at["video"] \notin Clip
    BY <2>1 DEF IInv, Control, Shape, OneStepAhead, GatesOutside, stopped
  <2>3. frame + playback \notin Clip
    BY <2>2
  <2>4. CASE playback = kForwards
    BY <2>2, <2>3, <2>4, ClipFacts DEF kForwards
  <2>5. CASE playback = kBackwards
    <3>1. frame + playback = frame - 1 /\ playback # kForwards
      BY <2>2, <2>5, ClipFacts DEF kForwards, kBackwards
    <3>2. QED
      BY <2>2, <2>3, <3>1, ClipFacts
  <2>6. QED
    BY <2>2, <2>4, <2>5
<1>2. QED
  BY <1>1, Invariant, PTL

\* While a movie plays, whatever its queues and its stores do, its frame moves by one
\* in the direction it is played in, or not at all.
THEOREM MovesByOneFrame == Spec => [][~stopped => frame' \in {frame, frame + playback}]_vars
<1>1. IInv /\ [Next]_vars => [~stopped => frame' \in {frame, frame + playback}]_vars
  <2> SUFFICES ASSUME IInv, Next, ~stopped PROVE frame' \in {frame, frame + playback}
    OBVIOUS
  <2>0. Control
    BY DEF IInv
  <2>1. CASE Show
    <3>1. frame' = at["video"] /\ pc["video"] = "show"
      BY <2>1 DEF Show
    <3>2. QED
      BY <2>0, <3>1 DEF Control, OneStepAhead
  <2>2. CASE VideoDecodes
    BY <2>0, <2>2, DecodingOfVideo DEF Decodes
  <2>3. CASE VideoTop \/ Exit("video") \/ DecodeThread
    BY <2>3 DEF VideoTop, Exit, DecodeThread, DecodeLoop, Request, ReadPacket, Fetched, picture
  <2>4. CASE AudioDecodes
    BY <2>0, <2>4, DecodingOfAudio DEF Listens
  <2>5. CASE AudioTop \/ Sound \/ Exit("audio") \/ EndPass \/ Join
    BY <2>5 DEF AudioTop, Sound, Exit, EndPass, Join, picture
  <2>6. CASE User
    BY <2>6 DEF User, UserStop, Play, Scrub, picture
  <2>7. QED
    BY <2>1, <2>2, <2>3, <2>4, <2>5, <2>6
    DEF Next, VideoThread, VideoDecodes, AudioThread, AudioDecodes
<1>2. QED
  BY <1>1, Invariant, PTL DEF Spec

-----------------------------------------------------------------------------
\* Every variable keeps its type: the queues hold the marks and the packets that their
\* readers know, of frames of the clip, and no position passes the end of the file.
THEOREM TypeIsCorrect == Spec => []TypeOK
<1>1. IInv => TypeOK
  BY DEF IInv, Data
<1>2. QED
  BY <1>1, Invariant, PTL

\* Through seeks, prerolls, loops and the reads ahead of the decode thread, whatever begins
\* in a queue has its end, with only packets in between, and no handler of a thread ever
\* finds an end at the front of its queue.
THEOREM SegmentsHaveEnds == Spec => []SegmentsAreClosed
<1>1. IInv => SegmentsAreClosed
  <2> SUFFICES ASSUME IInv PROVE SegmentsAreClosed
    OBVIOUS
  <2>1. Data
    BY DEF IInv
  <2>2. /\ Closed(vq) /\ Closed(aq) /\ vq \in Seq(Items(Clip)) /\ aq \in Seq(Items(Nat))
    BY <2>1 DEF Data, TypeOK
  <2>3. ASSUME NEW S, NEW q \in Seq(S), Closed(q), q # <<>>, q[1].kind = "seekEnd"
        PROVE  FALSE
    <3>1. 1 \in DOMAIN q
      BY <2>3
    <3>2. PICK j \in DOMAIN q : Segmented(q, j, 1)
      BY <2>3, <3>1 DEF Closed
    <3>3. j \in Nat /\ j >= 1 /\ j < 1
      BY <2>3, <3>2 DEF Segmented
    <3>4. QED
      BY <3>3
  <2>4. ~VideoFront("seekEnd")
    BY <2>2, <2>3 DEF VideoFront
  <2>5. ~AudioFront("seekEnd")
    BY <2>2, <2>3 DEF AudioFront
  <2>6. QED
    BY <2>2, <2>4, <2>5 DEF SegmentsAreClosed
<1>2. QED
  BY <1>1, Invariant, PTL

\* Forwards, the decode thread leaves no picture out and reads none twice, however it
\* spares a seek by the frame it expects: the packets of the queue are of consecutive frames.
THEOREM PicturesInOrder == Spec => []PacketsInOrder
<1>1. IInv => PacketsInOrder
  BY DEF IInv, Order, Chained, PacketsInOrder
<1>2. QED
  BY <1>1, Invariant, PTL

\* Forwards, once the frame has moved, the store of pictures holds less than its bound and
\* what one more packet can make the decoder give back.
THEOREM StoreIsBounded == Spec => []ImagesBounded
<1>1. IInv => ImagesBounded
  <2> SUFFICES ASSUME IInv, playback = kForwards, at["video"] # frame
               PROVE  Len(images) <= MaxVideo - 1 + Burst
    BY DEF ImagesBounded, Burst
  <2>1. Data /\ Room
    BY DEF IInv
  <2>2. Burst \in Nat /\ MaxVideo \in Nat
    BY BurstIs
  <2>3. Len(images) \in Nat
    BY <2>1 DEF Data, TypeOK
  <2>4. Len(images) <= MaxVideo - 1 + (IF pc["video"] \in {"show", "gate"} THEN Burst ELSE 0)
    BY <2>1 DEF Room
  <2>5. QED
    BY <2>2, <2>3, <2>4
<1>2. QED
  BY <1>1, Invariant, PTL
=============================================================================
