----------------------------- MODULE Reel_proofs -----------------------------
(***************************************************************************)
(* What every command of the user keeps of a reel, for any number of clips *)
(* of any lengths.                                                         *)
(*                                                                         *)
(* The commands are functions of the reel that go over all of its clips:   *)
(* Starts and Positions are defined by recursion over them.  The induction *)
(* they need is that of a set of numbers (SetInduction, from the fact that *)
(* < is well-founded); IntervalInduction and Recursion are what is used of *)
(* it.                                                                     *)
(*                                                                         *)
(* The invariant says of the reel that it is Good (the view shows one of   *)
(* its clips, the browser knows its place, and an edit list is in order),  *)
(* and, as long as no clip was taken out or moved, that it is Near: no     *)
(* clip is past the place it has when there is no gap, and in an edit list *)
(* each of them is there.  Each of the calls that the commands are made of *)
(* has a lemma; a seek is most of them (Seeks), and each command is then a *)
(* few of those calls.                                                     *)
(***************************************************************************)
EXTENDS Reel, TLAPS, WellFoundedInduction

\* A set with zero in it, and the successor of each of its numbers, has every number: the
\* well-foundedness of < on the naturals, said of a set.
LEMMA SetInduction ==
  ASSUME NEW S, 0 \in S, \A n \in Nat : n \in S => n + 1 \in S
  PROVE  Nat \subseteq S
<1> DEFINE R == {ss \in Nat \X Nat : ss[1] < ss[2]}
           T == Nat \ S
<1>1. IsWellFoundedOn(R, Nat)
  BY NatLessThanWellFounded DEF OpToRel
<1>2. SUFFICES ASSUME T # {} PROVE FALSE
  OBVIOUS
<1>3. PICK x \in T : \A y \in T : ~(<<y, x>> \in R)
  <2> HIDE DEF R, T
  <2>1. T \subseteq Nat BY DEF T
  <2> QED BY <1>1, <1>2, <2>1, WFMin
<1>4. x \in Nat /\ x \notin S
  BY <1>3
<1>5. x # 0
  BY <1>4
<1>6. x - 1 \in Nat /\ x - 1 + 1 = x /\ x - 1 < x
  BY <1>4, <1>5
<1>7. <<x - 1, x>> \in R
  BY <1>4, <1>6
<1>8. x - 1 \notin T
  <2> HIDE DEF R, T
  <2> QED BY <1>3, <1>7
<1>9. x - 1 \in S
  BY <1>6, <1>8
<1>10. QED
  BY <1>4, <1>6, <1>9

\* Min and Max of two integers.
LEMMA MinOf ==
  ASSUME NEW a \in Int, NEW b \in Int
  PROVE  Min({a, b}) = IF a <= b THEN a ELSE b
BY DEF Min

LEMMA MaxOf ==
  ASSUME NEW a \in Int, NEW b \in Int
  PROVE  Max({a, b}) = IF a >= b THEN a ELSE b
BY DEF Max

\* Min of a set of naturals is one of them, and no other is less.
LEMMA LeastOf ==
  ASSUME NEW T, T \subseteq Nat, T # {}
  PROVE  Min(T) \in T /\ \A y \in T : Min(T) <= y
<1> DEFINE R == {ss \in Nat \X Nat : ss[1] < ss[2]}
<1>1. IsWellFoundedOn(R, Nat)
  BY NatLessThanWellFounded DEF OpToRel
<1>2. PICK x \in T : \A y \in T : ~(<<y, x>> \in R)
  <2> HIDE DEF R
  <2> QED BY <1>1, WFMin
<1>3. \A y \in T : x <= y
  <2> TAKE y \in T
  <2>1. ~(<<y, x>> \in R) /\ y \in Nat /\ x \in Nat
    BY <1>2
  <2> QED BY <2>1
<1> HIDE DEF R
<1>4. QED
  BY <1>2, <1>3 DEF Min

\* The length of a clip, and its first and last frames, are frames.
LEMMA DurationType ==
  ASSUME NEW m \in Clips
  PROVE  Duration(m) \in Frames /\ FirstFrame[m] \in Frames /\ LastFrame[m] \in Frames
         /\ LastFrame[m] = FirstFrame[m] + Duration(m) - 1 /\ FirstFrame[m] <= LastFrame[m]
BY ReelAssumption DEF Duration, Frames

\* The images of a reel are a sequence of clips, none of them twice.
LEMMA ImagesOf ==
  ASSUME NEW r \in Reels
  PROVE  /\ Len(r.images) \in Nat /\ DOMAIN r.images = 1..Len(r.images)
         /\ r.images = <<>> <=> Len(r.images) = 0
         /\ \A i \in 1..Len(r.images) : r.images[i] \in Clips
         /\ r.images \in Seq(Clips) /\ IsInjective(r.images)
BY DEF Reels

\* IndexOf is the inverse of the sequence of images.
LEMMA IndexOfIn ==
  ASSUME NEW r \in Reels
  PROVE  /\ \A i \in 1..Len(r.images) : IndexOf(r, r.images[i]) = i /\ r.images[i] \in Range(r.images)
         /\ \A m \in Range(r.images) : /\ IndexOf(r, m) \in 1..Len(r.images)
                                       /\ r.images[IndexOf(r, m)] = m /\ m \in Clips
         /\ \A m : m \notin Range(r.images) => IndexOf(r, m) = 0
         /\ None \notin Range(r.images)
<1> USE ImagesOf
<1>1. \A i \in 1..Len(r.images) : r.images[i] \in Range(r.images)
  BY DEF Range
<1>2. \A m \in Range(r.images) : \E i \in 1..Len(r.images) : r.images[i] = m
  BY DEF Range
<1>3. \A i, j \in 1..Len(r.images) : r.images[i] = r.images[j] => i = j
  BY DEF IsInjective
<1>4. \A m \in Range(r.images) : IndexOf(r, m) \in 1..Len(r.images) /\ r.images[IndexOf(r, m)] = m
  BY <1>2 DEF IndexOf
<1>5. \A m \in Range(r.images) : m \in Clips
  BY <1>2
<1>6. None \notin Clips
  BY ReelAssumption
<1>7. \A i \in 1..Len(r.images) : IndexOf(r, r.images[i]) = i
  BY <1>1, <1>3, <1>4
<1>8. \A m : m \notin Range(r.images) => IndexOf(r, m) = 0
  BY DEF IndexOf
<1>9. QED
  BY <1>1, <1>4, <1>5, <1>6, <1>7, <1>8

\* Induction from lo to n.
LEMMA IntervalInduction ==
  ASSUME NEW lo \in Int, NEW n \in Int, NEW S,
         lo <= n => lo \in S, \A i \in (lo + 1)..n : i - 1 \in S => i \in S
  PROVE  lo..n \subseteq S
<1> DEFINE T == {k \in Nat : lo + k <= n => lo + k \in S}
<1>1. 0 \in T
  OBVIOUS
<1>2. ASSUME NEW k \in Nat, k \in T PROVE k + 1 \in T
  <2>1. CASE lo + (k + 1) <= n
    <3>1. lo + k + 1 \in (lo + 1)..n /\ lo + k + 1 - 1 = lo + k /\ lo + k \in S
      BY <1>2, <2>1
    <3>2. lo + k + 1 \in S
      BY <3>1
    <3>3. lo + k + 1 = lo + (k + 1)
      OBVIOUS
    <3> QED BY <3>2, <3>3
  <2> QED BY <2>1
<1>3. Nat \subseteq T
  <2> HIDE DEF T
  <2> QED BY <1>1, <1>2, SetInduction
<1>4. ASSUME NEW i \in lo..n PROVE i \in S
  <2>1. i - lo \in T
    BY <1>3
  <2>2. lo + (i - lo) = i
    OBVIOUS
  <2> QED BY <2>1, <2>2
<1>5. QED
  BY <1>4

\* f is the function on lo..n that is base at lo, and goes on by step from there.
Follows(f, lo, n, V, base, step) ==
  /\ f \in [lo..n -> V]
  /\ lo <= n => f[lo] = base
  /\ \A i \in (lo + 1)..n : f[i] = step[<<i, f[i - 1]>>]

\* There is a function defined by recursion from lo to n.
LEMMA Recursion ==
  ASSUME NEW lo \in Int, NEW n \in Int, NEW V, NEW base \in V, NEW step \in [Int \X V -> V]
  PROVE  \E f : Follows(f, lo, n, V, base, step)
<1> DEFINE S == {k \in Nat : \E f : Follows(f, lo, lo + k, V, base, step)}
<1>1. 0 \in S
  <2>1. Follows([i \in lo..lo |-> base], lo, lo + 0, V, base, step)
    BY DEF Follows
  <2> QED BY <2>1
<1>2. ASSUME NEW k \in Nat, k \in S PROVE k + 1 \in S
  <2>1. PICK f : Follows(f, lo, lo + k, V, base, step)
    BY <1>2
  <2> DEFINE m == lo + (k + 1)
             last == step[<<m, f[m - 1]>>]
             g == [i \in lo..m |-> IF i = m THEN last ELSE f[i]]
  <2>2. /\ f \in [lo..(lo + k) -> V] /\ f[lo] = base
        /\ \A i \in (lo + 1)..(lo + k) : f[i] = step[<<i, f[i - 1]>>]
    BY <2>1 DEF Follows
  <2>3. m \in Int /\ m - 1 = lo + k /\ m - 1 \in lo..(lo + k) /\ lo # m /\ lo \in lo..m
    OBVIOUS
  <2>4. last \in V
    BY <2>2, <2>3
  <2>5. g \in [lo..m -> V] /\ g[m] = last /\ \A i \in lo..m : i # m => g[i] = f[i]
    <3> HIDE DEF last
    <3>1. \A i \in lo..m : i # m => i \in lo..(lo + k)
      BY <2>3
    <3>2. m \in lo..m
      BY <2>3
    <3> HIDE DEF m
    <3> QED BY <2>2, <2>4, <3>1, <3>2
  <2>6. ASSUME NEW i \in (lo + 1)..m PROVE g[i] = step[<<i, g[i - 1]>>]
    <3>1. i \in lo..m /\ i - 1 \in lo..m /\ i - 1 # m
      BY <2>3
    <3>2. g[i - 1] = f[i - 1]
      BY <2>5, <3>1
    <3>3. CASE i = m
      <4> HIDE DEF g, m
      <4> QED BY <2>5, <3>2, <3>3
    <3>4. CASE i # m
      <4>1. i \in (lo + 1)..(lo + k)
        BY <3>4
      <4> HIDE DEF g, m
      <4> QED BY <2>2, <2>5, <3>1, <3>2, <3>4, <4>1
    <3> QED BY <3>3, <3>4
  <2> HIDE DEF g
  <2>7. g[lo] = base
    BY <2>2, <2>3, <2>5
  <2>8. Follows(g, lo, lo + (k + 1), V, base, step)
    BY <2>5, <2>6, <2>7 DEF Follows
  <2> QED BY <2>8
<1>3. Nat \subseteq S
  <2> HIDE DEF S
  <2> QED BY <1>1, <1>2, SetInduction
<1>4. CASE lo <= n
  <2>1. n - lo \in S /\ lo + (n - lo) = n
    <3> HIDE DEF S
    <3> QED BY <1>3, <1>4
  <2> QED BY <2>1
<1>5. CASE ~(lo <= n)
  <2>1. lo..n = {} /\ (lo + 1)..n = {}
    BY <1>5
  <2>2. Follows([i \in {} |-> base], lo, n, V, base, step)
    BY <1>5, <2>1 DEF Follows
  <2> QED BY <2>2
<1>6. QED
  BY <1>4, <1>5

\* Starts() is what its definition by recursion says: there is such a function.
LEMMA StartsAre ==
  ASSUME NEW images \in Seq(Clips)
  PROVE  /\ Starts(images) \in [1..Len(images) -> Frames]
         /\ images # <<>> => Starts(images)[1] = 1
         /\ \A i \in 2..Len(images) : Starts(images)[i] = Starts(images)[i - 1] + Duration(images[i - 1])
<1> DEFINE n == Len(images)
           d == [i \in Int |-> IF i \in 2..n THEN Duration(images[i - 1]) ELSE 1]
           step == [x \in Int \X Frames |-> x[2] + d[x[1]]]
           Of(f) == [i \in DOMAIN images |-> IF i = 1 THEN 1 ELSE f[i - 1] + Duration(images[i - 1])]
<1>1. n \in Nat /\ n \in Int /\ DOMAIN images = 1..n /\ (images # <<>> <=> 1 <= n) /\ 1 \in Int
  OBVIOUS
<1>2. d \in [Int -> Frames] /\ \A i \in 2..n : d[i] = Duration(images[i - 1])
  BY <1>1, DurationType DEF Frames
<1>3. /\ step \in [Int \X Frames -> Frames]
      /\ \A i \in 2..n, v \in Frames : step[<<i, v>>] = v + Duration(images[i - 1])
  <2> HIDE DEF d
  <2>1. \A u, v \in Frames : u + v \in Frames
    BY DEF Frames
  <2>2. \A i \in Int, v \in Frames : v + d[i] \in Frames
    BY <1>2, <2>1
  <2> QED BY <1>2, <2>2
<1>4. 1 \in Frames
  BY DEF Frames
<1>5. PICK f : Follows(f, 1, n, Frames, 1, step)
  <2> HIDE DEF step, n
  <2> QED BY <1>1, <1>3, <1>4, Recursion, Zenon
<1> HIDE DEF step, d
<1>6. f \in [1..n -> Frames] /\ (1 <= n => f[1] = 1)
  BY <1>5 DEF Follows
<1>7. ASSUME NEW i \in 2..n
      PROVE  f[i] = f[i - 1] + Duration(images[i - 1])
  <2>1. i \in (1 + 1)..n /\ f[i - 1] \in Frames
    BY <1>1, <1>6
  <2>2. f[i] = step[<<i, f[i - 1]>>]
    BY <1>5, <2>1 DEF Follows
  <2> QED BY <1>3, <2>1, <2>2
<1>8. f = Of(f)
  <2>1. ASSUME NEW i \in 1..n PROVE f[i] = Of(f)[i]
    <3>1. CASE i = 1
      BY <1>1, <1>6, <3>1
    <3>2. CASE i # 1
      <4>1. i \in 2..n
        BY <1>1, <3>2
      <4>2. Of(f)[i] = f[i - 1] + Duration(images[i - 1])
        BY <1>1, <3>2
      <4> QED BY <1>7, <4>1, <4>2
    <3> QED BY <3>1, <3>2
  <2>2. f = [i \in 1..n |-> f[i]] /\ Of(f) = [i \in 1..n |-> Of(f)[i]]
    BY <1>1, <1>6
  <2> HIDE DEF Of, n
  <2> QED BY <2>1, <2>2
<1>9. Starts(images) = Of(Starts(images))
  <2>1. \E g : g = Of(g)
    BY <1>8
  <2>2. Starts(images) = CHOOSE g : g = Of(g)
    BY DEF Starts
  <2> HIDE DEF Of
  <2> QED BY <2>1, <2>2
<1> PICK s : s = Starts(images)
  OBVIOUS
<1> DEFINE S == {i \in 1..n : s[i] \in Frames}
<1>10. s = [i \in 1..n |-> s[i]] /\ (1 <= n => s[1] = 1)
  BY <1>1, <1>9
<1>11. \A i \in 2..n : s[i] = s[i - 1] + Duration(images[i - 1])
  <2> TAKE i \in 2..n
  <2>1. i \in 1..n /\ i # 1
    BY <1>1
  <2>2. s[i] = Of(s)[i]
    BY <1>9
  <2> QED BY <1>1, <2>1, <2>2
<1>12. 1..n \subseteq S
  <2>1. 1 <= n => 1 \in S
    BY <1>1, <1>4, <1>10
  <2>2. ASSUME NEW i \in (1 + 1)..n, i - 1 \in S PROVE i \in S
    <3>1. s[i - 1] \in Frames /\ Duration(images[i - 1]) \in Frames
      BY <1>1, <2>2, DurationType
    <3>2. s[i] = s[i - 1] + Duration(images[i - 1]) /\ i \in 1..n
      BY <1>1, <1>11
    <3> QED BY <3>1, <3>2 DEF Frames
  <2> HIDE DEF S, n
  <2> QED BY <1>1, <2>1, <2>2, IntervalInduction
<1>13. \A i \in 1..n : s[i] \in Frames
  BY <1>12
<1>14. s \in [1..n -> Frames]
  BY <1>10, <1>13
<1>15. QED
  BY <1>1, <1>10, <1>11, <1>14

\* Where a clip is put that was at p and must not start before v.
After(p, v) == IF p >= v THEN p ELSE v

\* The later of the place a clip has and the end of the clip before it.
LEMMA AfterIs ==
  ASSUME NEW p \in Nat, NEW v \in Frames
  PROVE  Max({p, v}) = After(p, v) /\ After(p, v) \in Frames /\ After(p, v) >= v
BY MaxOf DEF After, Frames

\* Positions(), likewise.
LEMMA PositionsAre ==
  ASSUME NEW r \in Reels
  PROVE  /\ Positions(r) \in [1..Len(r.images) -> Frames]
         /\ r.images # <<>> => Positions(r)[1] = 1
         /\ \A i \in 2..Len(r.images) :
              Positions(r)[i] = After(r.position[r.images[i]], Positions(r)[i - 1] + Duration(r.images[i - 1]))
<1> DEFINE n == Len(r.images)
           At(i, v) == Max({r.position[r.images[i]], v + Duration(r.images[i - 1])})
           step == [x \in Int \X Frames |-> IF x[1] \in 2..n THEN At(x[1], x[2]) ELSE 1]
           Of(f) == [i \in DOMAIN r.images |-> IF i = 1 THEN 1 ELSE At(i, f[i - 1])]
<1>1. n \in Nat /\ n \in Int /\ DOMAIN r.images = 1..n /\ (r.images # <<>> <=> 1 <= n) /\ 1 \in Int
  BY ImagesOf
<1>2. ASSUME NEW i \in 2..n, NEW v \in Frames
      PROVE  /\ At(i, v) = After(r.position[r.images[i]], v + Duration(r.images[i - 1]))
             /\ At(i, v) \in Frames
  <2>1. r.images[i] \in Clips /\ r.images[i - 1] \in Clips
    BY <1>1, ImagesOf
  <2>2. r.position[r.images[i]] \in Nat
    BY <2>1 DEF Reels, Frames
  <2>3. v + Duration(r.images[i - 1]) \in Frames
    BY <2>1, DurationType DEF Frames
  <2> QED BY <2>2, <2>3, AfterIs
<1>3. 1 \in Frames
  BY DEF Frames
<1>4. /\ step \in [Int \X Frames -> Frames]
      /\ \A i \in 2..n, v \in Frames : step[<<i, v>>] = At(i, v)
  <2> HIDE DEF At
  <2> QED BY <1>1, <1>2, <1>3
<1>5. PICK f : Follows(f, 1, n, Frames, 1, step)
  <2> HIDE DEF step, n
  <2> QED BY <1>1, <1>3, <1>4, Recursion, Zenon
<1> HIDE DEF step, At
<1>6. f \in [1..n -> Frames] /\ (1 <= n => f[1] = 1)
  BY <1>5 DEF Follows
<1>7. ASSUME NEW i \in 2..n PROVE f[i] = At(i, f[i - 1])
  <2>1. i \in (1 + 1)..n /\ f[i - 1] \in Frames
    BY <1>1, <1>6
  <2>2. f[i] = step[<<i, f[i - 1]>>]
    BY <1>5, <2>1 DEF Follows
  <2> QED BY <1>4, <2>1, <2>2
<1>8. f = Of(f)
  <2>1. ASSUME NEW i \in 1..n PROVE f[i] = Of(f)[i]
    <3>1. CASE i = 1
      BY <1>1, <1>6, <3>1
    <3>2. CASE i # 1
      <4>1. i \in 2..n
        BY <1>1, <3>2
      <4>2. Of(f)[i] = At(i, f[i - 1])
        BY <1>1, <3>2
      <4> QED BY <1>7, <4>1, <4>2
    <3> QED BY <3>1, <3>2
  <2>2. f = [i \in 1..n |-> f[i]] /\ Of(f) = [i \in 1..n |-> Of(f)[i]]
    BY <1>1, <1>6
  <2> HIDE DEF Of, n
  <2> QED BY <2>1, <2>2
<1>9. Positions(r) = Of(Positions(r))
  <2>1. \E g : g = Of(g)
    BY <1>8
  <2>2. Positions(r) = CHOOSE g : g = Of(g)
    BY DEF Positions, At
  <2> HIDE DEF Of
  <2> QED BY <2>1, <2>2
<1> PICK s : s = Positions(r)
  OBVIOUS
<1> DEFINE S == {i \in 1..n : s[i] \in Frames}
<1>10. s = [i \in 1..n |-> s[i]] /\ (1 <= n => s[1] = 1)
  BY <1>1, <1>9
<1>11. \A i \in 2..n : s[i] = At(i, s[i - 1])
  <2> TAKE i \in 2..n
  <2>1. i \in 1..n /\ i # 1
    BY <1>1
  <2>2. s[i] = Of(s)[i]
    BY <1>9
  <2> QED BY <1>1, <2>1, <2>2
<1>12. 1..n \subseteq S
  <2>1. 1 <= n => 1 \in S
    BY <1>1, <1>3, <1>10
  <2>2. ASSUME NEW i \in (1 + 1)..n, i - 1 \in S PROVE i \in S
    <3>1. s[i - 1] \in Frames /\ i \in 1..n /\ i \in 2..n
      BY <1>1, <2>2
    <3> QED BY <1>2, <1>11, <3>1
  <2> HIDE DEF S, n
  <2> QED BY <1>1, <2>1, <2>2, IntervalInduction
<1>13. \A i \in 1..n : s[i] \in Frames
  BY <1>12
<1>14. s \in [1..n -> Frames]
  BY <1>10, <1>13
<1>15. \A i \in 2..n : s[i] = After(r.position[r.images[i]], s[i - 1] + Duration(r.images[i - 1]))
  <2> TAKE i \in 2..n
  <2>1. s[i - 1] \in Frames
    BY <1>1, <1>13
  <2> QED BY <1>2, <1>11, <2>1
<1>16. QED
  BY <1>1, <1>10, <1>14, <1>15

-----------------------------------------------------------------------------
\* q is r, but for the positions of the clips, the frame and the timeline.
Keeps(q, r) ==
  /\ q.images = r.images /\ q.local = r.local /\ q.edl = r.edl /\ q.fg = r.fg /\ q.value = r.value
  /\ q.switching = r.switching /\ q.start = r.start /\ q.end = r.end

\* The clips of a reel follow each other from frame 1, without overlap.
Ordered(r) ==
  /\ r.images # <<>> => r.position[r.images[1]] = 1
  /\ \A i \in 2..Len(r.images) : End(r, r.images[i - 1]) < r.position[r.images[i]]

\* None of them is past the place it has when there is no gap between them.
Fits(p, images) == \A i \in 1..Len(images) : p[images[i]] <= Starts(images)[i]

\* adjust_timeline() of an edit list gives positions, and nothing else.
LEMMA PlacedIs ==
  ASSUME NEW r \in Reels
  PROVE  /\ Placed(r) \in Reels /\ Keeps(Placed(r), r)
         /\ Placed(r).frame = r.frame /\ Placed(r).timeline = r.timeline
         /\ \A i \in 1..Len(r.images) : Placed(r).position[r.images[i]] = Positions(r)[i]
<1> DEFINE p == [m \in Clips |-> IF m \in Range(r.images) THEN Positions(r)[IndexOf(r, m)] ELSE r.position[m]]
<1>1. \A m \in Range(r.images) : Positions(r)[IndexOf(r, m)] \in Frames
  BY PositionsAre, IndexOfIn
<1>2. p \in [Clips -> Frames]
  BY <1>1 DEF Reels
<1>3. \A i \in 1..Len(r.images) : p[r.images[i]] = Positions(r)[i]
  BY ImagesOf, IndexOfIn
<1>4. Placed(r) = [r EXCEPT !.position = p]
  BY DEF Placed
<1> HIDE DEF p
<1>5. Placed(r) \in Reels /\ Keeps(Placed(r), r) /\ Placed(r).position = p
      /\ Placed(r).frame = r.frame /\ Placed(r).timeline = r.timeline
  BY <1>2, <1>4 DEF Reels, Keeps
<1>6. QED
  BY <1>3, <1>5

\* It puts the clips in order, whatever their positions were.
LEMMA PlacedInOrder ==
  ASSUME NEW r \in Reels
  PROVE  Ordered(Placed(r))
<1> DEFINE q == Placed(r)
<1>1. q.images = r.images /\ \A i \in 1..Len(r.images) : q.position[r.images[i]] = Positions(r)[i]
  BY PlacedIs DEF Keeps
<1> HIDE DEF q
<1>2. r.images # <<>> => q.position[q.images[1]] = 1
  BY <1>1, PositionsAre, ImagesOf
<1>3. ASSUME NEW i \in 2..Len(r.images) PROVE End(q, q.images[i - 1]) < q.position[q.images[i]]
  <2>1. i \in 1..Len(r.images) /\ i - 1 \in 1..Len(r.images)
    BY ImagesOf
  <2>2. Positions(r)[i] \in Frames /\ Positions(r)[i - 1] \in Frames /\ Duration(r.images[i - 1]) \in Frames
        /\ r.position[r.images[i]] \in Nat
    BY <2>1, PositionsAre, ImagesOf, DurationType DEF Reels, Frames
  <2>3. Positions(r)[i] >= Positions(r)[i - 1] + Duration(r.images[i - 1])
    <3>1. Positions(r)[i - 1] + Duration(r.images[i - 1]) \in Frames
      BY <2>2 DEF Frames
    <3> QED BY <2>2, <3>1, PositionsAre, AfterIs
  <2>4. /\ q.position[q.images[i]] = Positions(r)[i]
        /\ End(q, q.images[i - 1]) = Positions(r)[i - 1] + Duration(r.images[i - 1]) - 1
    BY <1>1, <2>1 DEF End
  <2>5. Positions(r)[i] \in Int /\ Positions(r)[i - 1] \in Int /\ Duration(r.images[i - 1]) \in Int
    BY <2>2 DEF Frames
  <2> QED BY <2>3, <2>4, <2>5
<1>4. QED
  BY <1>1, <1>2, <1>3 DEF Ordered, q

\* Clips that are in order already stay where they are.
LEMMA PlacedAgain ==
  ASSUME NEW r \in Reels, Ordered(r)
  PROVE  Placed(r).position = r.position
<1> DEFINE n == Len(r.images)
           P == Positions(r)
           S == {i \in 1..n : P[i] = r.position[r.images[i]]}
<1>1. n \in Int /\ 1 \in Int
  BY ImagesOf
<1>2. 1 <= n => 1 \in S
  BY PositionsAre, ImagesOf DEF Ordered
<1>3. ASSUME NEW i \in (1 + 1)..n, i - 1 \in S PROVE i \in S
  <2>1. i \in 2..n /\ i \in 1..n /\ i - 1 \in 1..n
    BY <1>1
  <2> DEFINE v == P[i - 1] + Duration(r.images[i - 1])
             p == r.position[r.images[i]]
  <2>2. p \in Nat /\ P[i - 1] \in Nat /\ Duration(r.images[i - 1]) \in Nat
    BY <2>1, PositionsAre, ImagesOf, DurationType DEF Reels, Frames
  <2>3. P[i] = After(p, v)
    BY <2>1, PositionsAre
  <2>a. r.position[r.images[i - 1]] = P[i - 1]
    BY <1>3
  <2>4. End(r, r.images[i - 1]) = v - 1
    <3> HIDE DEF P
    <3> QED BY <2>2, <2>a DEF End
  <2>5. v - 1 < p
    BY <2>1, <2>4 DEF Ordered
  <2>6. P[i] = p
    <3> HIDE DEF p, P
    <3> QED BY <2>2, <2>3, <2>5 DEF After
  <2> QED BY <2>1, <2>6
<1>4. 1..n \subseteq S
  <2> HIDE DEF S, n
  <2> QED BY <1>1, <1>2, <1>3, IntervalInduction
<1>5. \A m \in Range(r.images) : P[IndexOf(r, m)] = r.position[m]
  BY <1>4, IndexOfIn
<1>6. r.position = [m \in Clips |-> r.position[m]]
  BY DEF Reels
<1>7. r.position = [m \in Clips |-> IF m \in Range(r.images) THEN Positions(r)[IndexOf(r, m)] ELSE r.position[m]]
  BY <1>5, <1>6
<1> DEFINE p == [m \in Clips |-> IF m \in Range(r.images) THEN Positions(r)[IndexOf(r, m)] ELSE r.position[m]]
<1>8. Placed(r) = [r EXCEPT !.position = p]
  BY DEF Placed
<1> HIDE DEF p
<1>9. Placed(r).position = p
  BY <1>8 DEF Reels
<1>10. QED
  BY <1>7, <1>9 DEF p

\* Clips none of which is too far on are put one after the other without a gap.
LEMMA PlacedCloses ==
  ASSUME NEW r \in Reels, Fits(r.position, r.images)
  PROVE  \A i \in 1..Len(r.images) : Placed(r).position[r.images[i]] = Starts(r.images)[i]
<1> DEFINE n == Len(r.images)
           P == Positions(r)
           D == Starts(r.images)
           S == {i \in 1..n : P[i] = D[i]}
<1>1. n \in Int /\ 1 \in Int /\ r.images \in Seq(Clips)
  BY ImagesOf
<1>2. 1 <= n => 1 \in S
  BY <1>1, PositionsAre, StartsAre, ImagesOf
<1>3. ASSUME NEW i \in (1 + 1)..n, i - 1 \in S PROVE i \in S
  <2>1. i \in 2..n /\ i \in 1..n /\ i - 1 \in 1..n
    BY <1>1
  <2> DEFINE v == P[i - 1] + Duration(r.images[i - 1])
             p == r.position[r.images[i]]
  <2>2. p \in Nat /\ P[i - 1] \in Nat /\ Duration(r.images[i - 1]) \in Nat
    BY <2>1, PositionsAre, ImagesOf, DurationType DEF Reels, Frames
  <2>3. P[i] = After(p, v)
    BY <2>1, PositionsAre
  <2>4. D[i] = D[i - 1] + Duration(r.images[i - 1]) /\ D[i - 1] = P[i - 1]
    BY <1>1, <1>3, <2>1, StartsAre
  <2>5. p <= D[i]
    BY <2>1 DEF Fits
  <2>6. P[i] = D[i]
    <3> HIDE DEF p, P, D
    <3> QED BY <2>2, <2>3, <2>4, <2>5 DEF After
  <2> QED BY <2>1, <2>6
<1>4. 1..n \subseteq S
  <2> HIDE DEF S, n
  <2> QED BY <1>1, <1>2, <1>3, IntervalInduction
<1>5. QED
  BY <1>4, PlacedIs

-----------------------------------------------------------------------------
\* q is r, but for the timeline.
Stays(q, r) == Keeps(q, r) /\ q.position = r.position /\ q.frame = r.frame

\* A change of the timeline is one of nothing else.
LEMMA TimelineSet ==
  ASSUME NEW r \in Reels, NEW t \in Timelines
  PROVE  [r EXCEPT !.timeline = t] \in Reels /\ Stays([r EXCEPT !.timeline = t], r)
         /\ [r EXCEPT !.timeline = t].timeline = t
BY DEF Reels, Stays, Keeps

\* Timeline::minimum(): both ends of the range are frames.
LEMMA MinimumIs ==
  ASSUME NEW r \in Reels, NEW x \in Frames
  PROVE  /\ Minimum(r, x) \in Reels /\ Stays(Minimum(r, x), r)
         /\ x = 1 => Minimum(r, x).timeline.min = 1 /\ Minimum(r, x).timeline.dmin = 1
<1> DEFINE y == IF x <= r.timeline.dmax THEN x ELSE r.timeline.dmax
           t == [r.timeline EXCEPT !.min = y, !.dmin = y]
<1>1. r.timeline \in Timelines /\ r.timeline.dmax \in Frames
  BY DEF Reels, Timelines
<1>2. y \in Frames /\ (x = 1 => y = 1) /\ Min({x, r.timeline.dmax}) = y
  BY <1>1, MinOf DEF Frames
<1>3. t \in Timelines /\ t.min = y /\ t.dmin = y /\ t.dmax = r.timeline.dmax
  <2> HIDE DEF y
  <2> QED BY <1>1, <1>2 DEF Timelines
<1>4. Minimum(r, x) = [r EXCEPT !.timeline = t]
  BY <1>1, <1>2 DEF Minimum, Reels, Timelines
<1> HIDE DEF t
<1>5. QED
  BY <1>2, <1>3, <1>4, TimelineSet

\* Timeline::maximum(), likewise.
LEMMA MaximumIs ==
  ASSUME NEW r \in Reels, NEW x \in Frames
  PROVE  /\ Maximum(r, x) \in Reels /\ Stays(Maximum(r, x), r)
         /\ r.timeline.dmin = 1 => Maximum(r, x).timeline.max = x /\ Maximum(r, x).timeline.dmax = x
         /\ Maximum(r, x).timeline.min = r.timeline.min /\ Maximum(r, x).timeline.dmin = r.timeline.dmin
<1> DEFINE y == IF x >= r.timeline.dmin THEN x ELSE r.timeline.dmin
           t == [r.timeline EXCEPT !.max = y, !.dmax = y]
<1>1. r.timeline \in Timelines /\ r.timeline.dmin \in Frames
  BY DEF Reels, Timelines
<1>2. y \in Frames /\ (r.timeline.dmin = 1 => y = x) /\ Max({x, r.timeline.dmin}) = y
  BY <1>1, MaxOf DEF Frames
<1>3. /\ t \in Timelines /\ t.max = y /\ t.dmax = y
      /\ t.min = r.timeline.min /\ t.dmin = r.timeline.dmin
  <2> HIDE DEF y
  <2> QED BY <1>1, <1>2 DEF Timelines
<1>4. Maximum(r, x) = [r EXCEPT !.timeline = t]
  BY <1>1, <1>2 DEF Maximum, Reels, Timelines
<1> HIDE DEF t
<1>5. QED
  BY <1>2, <1>3, <1>4, TimelineSet

\* u is the timeline t with other marks: the range stays, or, with the preference for the
\* selection, goes from mark to mark if it did so before.
Remarked(u, t) ==
  /\ u.selection = t.selection
  /\ ~t.selection => u.min = t.min /\ u.max = t.max
  /\ t.selection /\ t.min = t.dmin /\ t.max = t.dmax => u.min = u.dmin /\ u.max = u.dmax

\* A new first mark, and what undo_display_minimum() is to take it back to.
LEMMA MarkedMinIs ==
  ASSUME NEW t \in Timelines, NEW y \in Frames, NEW n \in Nat
  PROVE  LET u == [MarkedMin(t, y) EXCEPT !.undoMin = n] IN
         u \in Timelines /\ Remarked(u, t) /\ u.dmin = y /\ u.max = t.max /\ u.dmax = t.dmax
<1>1. CASE t.selection
  <2>1. MarkedMin(t, y) = [t EXCEPT !.dmin = y, !.min = y]
    BY <1>1 DEF MarkedMin
  <2> QED BY <1>1, <2>1 DEF Timelines, Remarked
<1>2. CASE ~t.selection
  <2>1. MarkedMin(t, y) = [t EXCEPT !.dmin = y, !.min = t.min]
    BY <1>2 DEF MarkedMin
  <2> QED BY <1>2, <2>1 DEF Timelines, Remarked
<1>3. QED
  BY <1>1, <1>2

\* A new last mark.
LEMMA MarkedMaxIs ==
  ASSUME NEW t \in Timelines, NEW y \in Frames, NEW n \in Nat
  PROVE  LET u == [MarkedMax(t, y) EXCEPT !.undoMax = n] IN
         u \in Timelines /\ Remarked(u, t) /\ u.dmax = y /\ u.min = t.min /\ u.dmin = t.dmin
<1>1. CASE t.selection
  <2>1. MarkedMax(t, y) = [t EXCEPT !.dmax = y, !.max = y]
    BY <1>1 DEF MarkedMax
  <2> QED BY <1>1, <2>1 DEF Timelines, Remarked
<1>2. CASE ~t.selection
  <2>1. MarkedMax(t, y) = [t EXCEPT !.dmax = y, !.max = t.max]
    BY <1>2 DEF MarkedMax
  <2> QED BY <1>2, <2>1 DEF Timelines, Remarked
<1>3. QED
  BY <1>1, <1>2

\* display_minimum() changes the first mark; a mark in the range is the one it sets.
LEMMA DisplayMinimumIs ==
  ASSUME NEW r \in Reels, NEW x \in Int
  PROVE  /\ DisplayMinimum(r, x) \in Reels /\ Stays(DisplayMinimum(r, x), r)
         /\ r.timeline.min <= x /\ x <= r.timeline.dmax => DisplayMinimum(r, x).timeline.dmin = x
         /\ Remarked(DisplayMinimum(r, x).timeline, r.timeline)
         /\ DisplayMinimum(r, x).timeline.max = r.timeline.max
         /\ DisplayMinimum(r, x).timeline.dmax = r.timeline.dmax
<1> DEFINE y == IF x <= r.timeline.dmax THEN x ELSE r.timeline.dmax
           t == [MarkedMin(r.timeline, y) EXCEPT !.undoMin = r.timeline.dmin]
<1>1. /\ r.timeline \in Timelines /\ r.timeline.dmax \in Frames
      /\ r.timeline.dmin \in Frames /\ r.timeline.min \in Frames
  BY DEF Reels, Timelines
<1>2. y \in Int /\ Min({x, r.timeline.dmax}) = y /\ (x <= r.timeline.dmax => y = x)
  BY <1>1, MinOf DEF Frames
<1>3. CASE y < r.timeline.min
  <2>1. DisplayMinimum(r, x) = r
    BY <1>2, <1>3 DEF DisplayMinimum
  <2>2. ~(r.timeline.min <= x /\ x <= r.timeline.dmax)
    BY <1>1, <1>2, <1>3 DEF Frames
  <2> QED BY <2>1, <2>2 DEF Stays, Keeps, Remarked
<1>4. CASE ~(y < r.timeline.min)
  <2>1. y \in Frames /\ r.timeline.dmin \in Nat
    BY <1>1, <1>2, <1>4 DEF Frames
  <2>2. DisplayMinimum(r, x) = [r EXCEPT !.timeline = t]
    BY <1>2, <1>4 DEF DisplayMinimum
  <2>3. /\ t \in Timelines /\ Remarked(t, r.timeline) /\ t.dmin = y
        /\ t.max = r.timeline.max /\ t.dmax = r.timeline.dmax
    <3> HIDE DEF y
    <3> QED BY <1>1, <2>1, MarkedMinIs
  <2> HIDE DEF t
  <2> QED BY <1>2, <2>2, <2>3, TimelineSet
<1>5. QED
  BY <1>3, <1>4

\* display_maximum(), likewise.
LEMMA DisplayMaximumIs ==
  ASSUME NEW r \in Reels, NEW x \in Int
  PROVE  /\ DisplayMaximum(r, x) \in Reels /\ Stays(DisplayMaximum(r, x), r)
         /\ r.timeline.dmin <= x /\ x <= r.timeline.max => DisplayMaximum(r, x).timeline.dmax = x
         /\ Remarked(DisplayMaximum(r, x).timeline, r.timeline)
         /\ DisplayMaximum(r, x).timeline.min = r.timeline.min
         /\ DisplayMaximum(r, x).timeline.dmin = r.timeline.dmin
<1> DEFINE y == IF x >= r.timeline.dmin THEN x ELSE r.timeline.dmin
           t == [MarkedMax(r.timeline, y) EXCEPT !.undoMax = r.timeline.dmax]
<1>1. /\ r.timeline \in Timelines /\ r.timeline.dmax \in Frames
      /\ r.timeline.dmin \in Frames /\ r.timeline.max \in Frames
  BY DEF Reels, Timelines
<1>2. y \in Frames /\ Max({x, r.timeline.dmin}) = y /\ (r.timeline.dmin <= x => y = x)
  BY <1>1, MaxOf DEF Frames
<1>3. CASE y > r.timeline.max
  <2>1. DisplayMaximum(r, x) = r
    BY <1>2, <1>3 DEF DisplayMaximum
  <2>2. ~(r.timeline.dmin <= x /\ x <= r.timeline.max)
    BY <1>1, <1>2, <1>3 DEF Frames
  <2> QED BY <2>1, <2>2 DEF Stays, Keeps, Remarked
<1>4. CASE ~(y > r.timeline.max)
  <2>1. r.timeline.dmax \in Nat
    BY <1>1 DEF Frames
  <2>2. DisplayMaximum(r, x) = [r EXCEPT !.timeline = t]
    BY <1>2, <1>4 DEF DisplayMaximum
  <2>3. /\ t \in Timelines /\ Remarked(t, r.timeline) /\ t.dmax = y
        /\ t.min = r.timeline.min /\ t.dmin = r.timeline.dmin
    <3> HIDE DEF y
    <3> QED BY <1>1, <1>2, <2>1, MarkedMaxIs
  <2> HIDE DEF t
  <2> QED BY <1>2, <2>2, <2>3, TimelineSet
<1>5. QED
  BY <1>3, <1>4

\* Taking back a mark is a change of marks, too.
LEMMA UndoIs ==
  ASSUME NEW r \in Reels
  PROVE  /\ UndoDisplayMinimum(r) \in Reels /\ Stays(UndoDisplayMinimum(r), r)
         /\ UndoDisplayMaximum(r) \in Reels /\ Stays(UndoDisplayMaximum(r), r)
         /\ Remarked(UndoDisplayMinimum(r).timeline, r.timeline)
         /\ Remarked(UndoDisplayMaximum(r).timeline, r.timeline)
<1> DEFINE s == [MarkedMin(r.timeline, r.timeline.undoMin) EXCEPT !.undoMin = Nopts]
           t == [MarkedMax(r.timeline, r.timeline.undoMax) EXCEPT !.undoMax = Nopts]
<1>1. /\ r.timeline \in Timelines /\ r.timeline.undoMin \in Nat /\ r.timeline.undoMax \in Nat
      /\ Nopts = 0 /\ Nopts \in Nat
  BY DEF Reels, Timelines, Nopts
<1>2. /\ UndoDisplayMinimum(r) \in Reels /\ Stays(UndoDisplayMinimum(r), r)
      /\ Remarked(UndoDisplayMinimum(r).timeline, r.timeline)
  <2>1. CASE r.timeline.undoMin # Nopts
    <3>1. r.timeline.undoMin \in Frames
      BY <1>1, <2>1 DEF Frames
    <3>2. s \in Timelines /\ Remarked(s, r.timeline)
      BY <1>1, <3>1, MarkedMinIs
    <3>3. UndoDisplayMinimum(r) = [r EXCEPT !.timeline = s]
      BY <2>1 DEF UndoDisplayMinimum
    <3> HIDE DEF s
    <3> QED BY <3>2, <3>3, TimelineSet
  <2>2. CASE r.timeline.undoMin = Nopts
    BY <2>2 DEF UndoDisplayMinimum, Stays, Keeps, Remarked
  <2> QED BY <2>1, <2>2
<1>3. /\ UndoDisplayMaximum(r) \in Reels /\ Stays(UndoDisplayMaximum(r), r)
      /\ Remarked(UndoDisplayMaximum(r).timeline, r.timeline)
  <2>1. CASE r.timeline.undoMax # Nopts
    <3>1. r.timeline.undoMax \in Frames
      BY <1>1, <2>1 DEF Frames
    <3>2. t \in Timelines /\ Remarked(t, r.timeline)
      BY <1>1, <3>1, MarkedMaxIs
    <3>3. UndoDisplayMaximum(r) = [r EXCEPT !.timeline = t]
      BY <2>1 DEF UndoDisplayMaximum
    <3> HIDE DEF t
    <3> QED BY <3>2, <3>3, TimelineSet
  <2>2. CASE r.timeline.undoMax = Nopts
    BY <2>2 DEF UndoDisplayMaximum, Stays, Keeps, Remarked
  <2> QED BY <2>1, <2>2
<1>4. QED
  BY <1>2, <1>3

-----------------------------------------------------------------------------
\* The view shows one of the images, if there are any.
Whole(r) == r \in Reels /\ r.fg \in (IF r.images = <<>> THEN {None} ELSE Range(r.images))

\* An edit list is in order, and the timeline goes from its start to its end, or from mark
\* to mark.
Settled(r) ==
  r.edl /\ r.images # <<>> =>
    /\ Ordered(r)
    /\ IF r.timeline.selection
       THEN r.timeline.min = r.timeline.dmin /\ r.timeline.max = r.timeline.dmax
       ELSE r.timeline.min = 1 /\ r.timeline.max = End(r, r.images[Len(r.images)])

\* The timeline and the marks are those of the whole edit list.
FullView(r) ==
  r.edl /\ r.images # <<>> =>
    /\ r.timeline.min = 1 /\ r.timeline.max = End(r, r.images[Len(r.images)])
    /\ r.timeline.dmin = r.timeline.min /\ r.timeline.dmax = r.timeline.max

\* No clip is past its place, and in an edit list each of them is there.
Near(r) ==
  /\ Fits(r.position, r.images)
  /\ r.edl => \A i \in 1..Len(r.images) : r.position[r.images[i]] = Starts(r.images)[i]

\* The first and the last of the images.
LEMMA LastImage ==
  ASSUME NEW r \in Reels, r.images # <<>>
  PROVE  /\ Len(r.images) \in 1..Len(r.images) /\ Last(r.images) = r.images[Len(r.images)]
         /\ Head(r.images) = r.images[1] /\ Last(r.images) \in Clips
BY ImagesOf DEF Last

\* A clip ends at a frame, no sooner than it starts.
LEMMA EndIs ==
  ASSUME NEW r \in Reels, NEW m \in Clips
  PROVE  End(r, m) \in Frames /\ End(r, m) = r.position[m] + Duration(m) - 1
         /\ r.position[m] \in Frames /\ r.position[m] <= End(r, m)
<1>1. r.position[m] \in Frames /\ Duration(m) \in Frames
  BY DurationType DEF Reels
<1>2. QED
  BY <1>1 DEF End, Frames

\* The clip of the view is one of the reel.
LEMMA ForegroundIs ==
  ASSUME NEW r, Whole(r), r.images # <<>>
  PROVE  r \in Reels /\ r.fg \in Range(r.images) /\ r.fg \in Clips /\ r.fg # None
         /\ FirstFrame[r.fg] \in Frames /\ LastFrame[r.fg] \in Frames /\ FirstFrame[r.fg] <= LastFrame[r.fg]
<1>1. r \in Reels /\ r.fg \in Range(r.images)
  BY DEF Whole
<1>2. r.fg \in Clips /\ r.fg # None
  BY <1>1, IndexOfIn
<1>3. QED
  BY <1>1, <1>2, DurationType

\* The range of the timeline, that of the reel in an edit list.
LEMMA RangeOf ==
  ASSUME NEW r, Whole(r)
  PROVE  /\ FirstOf(r) \in Frames /\ LastOf(r) \in Frames
         /\ r.edl /\ r.images # <<>> => FirstOf(r) = 1 /\ LastOf(r) = End(r, r.images[Len(r.images)])
<1>1. r \in Reels /\ 1 \in Frames /\ 50 \in Frames
  BY DEF Whole, Frames
<1>2. CASE r.images = <<>>
  BY <1>1, <1>2 DEF FirstOf, LastOf
<1>3. CASE r.images # <<>>
  <2>1. End(r, Last(r.images)) \in Frames
    BY <1>1, <1>3, LastImage, EndIs
  <2> QED BY <1>1, <1>3, <2>1, ForegroundIs, LastImage DEF FirstOf, LastOf
<1>4. QED
  BY <1>2, <1>3

\* set_timeline() makes this range and these marks, whatever they were before.
LEMMA SetTimelineIs ==
  ASSUME NEW r, Whole(r)
  PROVE  /\ SetTimeline(r) \in Reels /\ Stays(SetTimeline(r), r)
         /\ r.edl /\ r.images # <<>> =>
              /\ SetTimeline(r).timeline.min = 1 /\ SetTimeline(r).timeline.dmin = 1
              /\ SetTimeline(r).timeline.max = End(r, r.images[Len(r.images)])
              /\ SetTimeline(r).timeline.dmax = End(r, r.images[Len(r.images)])
<1> DEFINE q == Minimum(r, FirstOf(r))
<1>1. r \in Reels
  BY DEF Whole
<1>2. FirstOf(r) \in Frames /\ LastOf(r) \in Frames
  BY RangeOf
<1>3. q \in Reels /\ Stays(q, r) /\ (FirstOf(r) = 1 => q.timeline.min = 1 /\ q.timeline.dmin = 1)
  BY <1>1, <1>2, MinimumIs
<1>4. SetTimeline(r) = Maximum(q, LastOf(r))
  BY DEF SetTimeline
<1> HIDE DEF q
<1>5. SetTimeline(r) \in Reels /\ Stays(SetTimeline(r), q)
      /\ (q.timeline.dmin = 1 => SetTimeline(r).timeline.max = LastOf(r) /\ SetTimeline(r).timeline.dmax = LastOf(r))
      /\ SetTimeline(r).timeline.min = q.timeline.min /\ SetTimeline(r).timeline.dmin = q.timeline.dmin
  BY <1>2, <1>3, <1>4, MaximumIs
<1>6. Stays(SetTimeline(r), r)
  BY <1>3, <1>5 DEF Stays, Keeps
<1>7. QED
  BY <1>3, <1>5, <1>6, RangeOf

\* A change of the frame of the view is one of nothing else.
LEMMA FrameSet ==
  ASSUME NEW r \in Reels, NEW f \in Int
  PROVE  /\ [r EXCEPT !.frame = f] \in Reels /\ Keeps([r EXCEPT !.frame = f], r)
         /\ [r EXCEPT !.frame = f].frame = f /\ [r EXCEPT !.frame = f].position = r.position
         /\ [r EXCEPT !.frame = f].timeline = r.timeline
BY DEF Reels, Keeps

\* adjust_timeline(): the clips of an edit list are put in place; otherwise the frame of the
\* view is kept to the clip, and stays if the clip has it.
LEMMA AdjustedIs ==
  ASSUME NEW r, Whole(r)
  PROVE  /\ Adjusted(r) \in Reels /\ Keeps(Adjusted(r), r) /\ Adjusted(r).timeline = r.timeline
         /\ r.edl /\ r.images # <<>> => Adjusted(r) = Placed(r)
         /\ ~(r.edl /\ r.images # <<>>) => Adjusted(r).position = r.position
         /\ ~r.edl /\ r.images # <<>> /\ r.frame \in FirstFrame[r.fg]..LastFrame[r.fg]
              /\ r.local[r.fg] = r.frame => Adjusted(r).frame = r.frame
<1>1. r \in Reels
  BY DEF Whole
<1>2. CASE r.images = <<>>
  <2>1. Adjusted(r) = [r EXCEPT !.frame = 1] /\ 1 \in Int
    BY <1>2 DEF Adjusted
  <2> QED BY <1>1, <1>2, <2>1, FrameSet
<1>3. CASE r.images # <<>> /\ r.edl
  BY <1>1, <1>3, PlacedIs DEF Adjusted
<1>4. CASE r.images # <<>> /\ ~r.edl
  <2>1. r.fg # None /\ r.fg \in Clips
    BY <1>4, ForegroundIs
  <2> DEFINE f == IF r.switching THEN r.local[r.fg] ELSE r.frame
             a == FirstFrame[r.fg]
             b == LastFrame[r.fg]
             g == Max({a, Min({b, f})})
  <2>2. f \in Int /\ a \in Int /\ b \in Int /\ a <= b
    <3>1. a \in Frames /\ b \in Frames /\ a <= b
      BY <1>4, ForegroundIs
    <3>2. r.local[r.fg] \in Int /\ r.frame \in Int
      BY <1>1, <2>1 DEF Reels
    <3> HIDE DEF a, b
    <3> QED BY <3>1, <3>2 DEF Frames
  <2>3. Adjusted(r) = [r EXCEPT !.frame = g]
    BY <1>4, <2>1 DEF Adjusted
  <2>4. g \in Int /\ (f \in a..b => g = f)
    <3> DEFINE h == Min({b, f})
    <3>1. h \in Int /\ (f \in a..b => h = f)
      <4> HIDE DEF a, b, f
      <4> QED BY <2>2, MinOf
    <3>2. g = Max({a, h})
      OBVIOUS
    <3> HIDE DEF a, b, f, h, g
    <3>3. g = IF a >= h THEN a ELSE h
      BY <2>2, <3>1, <3>2, MaxOf
    <3> QED BY <2>2, <3>1, <3>3
  <2>5. r.local[r.fg] = r.frame => f = r.frame
    OBVIOUS
  <2> HIDE DEF g, f
  <2> QED BY <1>1, <1>4, <2>3, <2>4, <2>5, FrameSet
<1>5. QED
  BY <1>2, <1>3, <1>4

\* adjust_timeline() and set_timeline(): the clips of an edit list are in order, and
\* its timeline shows all of them.
LEMMA RefreshedIs ==
  ASSUME NEW r, Whole(r)
  PROVE  /\ Whole(Refreshed(r)) /\ Keeps(Refreshed(r), r)
         /\ Settled(Refreshed(r)) /\ FullView(Refreshed(r))
         /\ r.edl /\ r.images # <<>> => Refreshed(r).frame = r.frame
         /\ ~r.edl \/ Ordered(r) => Refreshed(r).position = r.position
         /\ Fits(r.position, r.images) => Near(Refreshed(r))
         /\ ~r.edl /\ r.images # <<>> /\ r.frame \in FirstFrame[r.fg]..LastFrame[r.fg]
              /\ r.local[r.fg] = r.frame => Refreshed(r).frame = r.frame
<1> DEFINE a == Adjusted(r)
           q == Refreshed(r)
<1>1. r \in Reels
  BY DEF Whole
<1>2. /\ a \in Reels /\ Keeps(a, r) /\ a.timeline = r.timeline
      /\ r.edl /\ r.images # <<>> => a = Placed(r)
      /\ ~(r.edl /\ r.images # <<>>) => a.position = r.position
      /\ ~r.edl /\ r.images # <<>> /\ r.frame \in FirstFrame[r.fg]..LastFrame[r.fg]
           /\ r.local[r.fg] = r.frame => a.frame = r.frame
  BY AdjustedIs
<1>3. q = SetTimeline(a)
  BY DEF Refreshed
<1> HIDE DEF a, q
<1>4. Whole(a)
  BY <1>2 DEF Whole, Keeps
<1>5. /\ q \in Reels /\ Stays(q, a)
      /\ a.edl /\ a.images # <<>> =>
           /\ q.timeline.min = 1 /\ q.timeline.dmin = 1
           /\ q.timeline.max = End(a, a.images[Len(a.images)])
           /\ q.timeline.dmax = End(a, a.images[Len(a.images)])
  BY <1>3, <1>4, SetTimelineIs
<1>6. Keeps(q, r) /\ q.position = a.position /\ q.frame = a.frame
  BY <1>2, <1>5 DEF Stays, Keeps
<1>7. Whole(q)
  BY <1>5, <1>6 DEF Whole, Keeps
<1>8. q.edl = r.edl /\ q.images = r.images /\ a.images = r.images /\ a.edl = r.edl
  BY <1>2, <1>6 DEF Keeps
<1>9. Settled(q) /\ FullView(q)
  <2>1. SUFFICES ASSUME r.edl, r.images # <<>>
                 PROVE  Settled(q) /\ FullView(q)
    BY <1>8 DEF Settled, FullView
  <2>2. Ordered(a)
    BY <1>1, <1>2, <2>1, PlacedInOrder
  <2>3. \A m : End(q, m) = End(a, m)
    BY <1>6 DEF End
  <2>4. Ordered(q)
    BY <1>6, <1>8, <2>2, <2>3 DEF Ordered
  <2> QED BY <1>5, <1>8, <2>1, <2>3, <2>4 DEF Settled, FullView
<1>10. ~r.edl \/ Ordered(r) => q.position = r.position
  BY <1>1, <1>2, <1>6, PlacedAgain
<1>11. ASSUME Fits(r.position, r.images) PROVE Near(q)
  <2>1. CASE r.edl /\ r.images # <<>>
    <3>1. \A i \in 1..Len(r.images) : q.position[r.images[i]] = Starts(r.images)[i]
      BY <1>1, <1>2, <1>6, <1>11, <2>1, PlacedCloses
    <3>2. \A i \in 1..Len(r.images) : Starts(r.images)[i] \in Int
      BY <1>1, ImagesOf, StartsAre DEF Frames
    <3> QED BY <1>8, <3>1, <3>2 DEF Near, Fits
  <2>2. CASE ~(r.edl /\ r.images # <<>>)
    <3>1. q.position = r.position
      BY <1>2, <1>6, <2>2
    <3>2. r.images = <<>> => 1..Len(r.images) = {}
      BY <1>1, ImagesOf
    <3> QED BY <1>8, <1>11, <2>2, <3>1, <3>2 DEF Near
  <2> QED BY <2>1, <2>2
<1>12. r.edl /\ r.images # <<>> => q.frame = r.frame
  BY <1>1, <1>2, <1>6, PlacedIs
<1>13. QED
  BY <1>2, <1>6, <1>7, <1>9, <1>10, <1>11, <1>12 DEF q

-----------------------------------------------------------------------------
\* The frame the clip m of a reel is at after a seek to frame f.
AtFrame(m, f) == IF FirstFrame[m] = LastFrame[m] THEN FirstFrame[m] ELSE f

\* A seek of a clip changes the frame of this clip only.
LEMMA SeekImageIs ==
  ASSUME NEW r \in Reels, NEW m \in Clips, NEW f \in Int
  PROVE  LET q == SeekImage(r, m, f) IN
         /\ q \in Reels
         /\ q.images = r.images /\ q.position = r.position /\ q.edl = r.edl /\ q.fg = r.fg
         /\ q.value = r.value /\ q.frame = r.frame /\ q.timeline = r.timeline
         /\ q.switching = r.switching /\ q.start = r.start /\ q.end = r.end
         /\ q.local[m] = AtFrame(m, f)
<1> DEFINE l == [r.local EXCEPT ![m] = AtFrame(m, f)]
<1>1. AtFrame(m, f) \in Int
  BY DurationType DEF AtFrame, Frames
<1>2. l \in [Clips -> Int] /\ l[m] = AtFrame(m, f)
  BY <1>1 DEF Reels
<1>3. SeekImage(r, m, f) = [r EXCEPT !.local = l]
  BY DEF SeekImage, AtFrame
<1> HIDE DEF l
<1>4. QED
  BY <1>2, <1>3 DEF Reels

\* q is r, but for the clip of the view, what it makes of the view, and the frames of
\* the clips.
SameReel(q, r) ==
  /\ q.images = r.images /\ q.edl = r.edl
  /\ q.switching = r.switching /\ q.start = r.start /\ q.end = r.end

Current(r) == r.value = IndexOf(r, r.fg)

Good(r) == Whole(r) /\ Current(r) /\ Settled(r)

\* The clips are where they were, or have been put in order.
Moved(q, r) ==
  /\ ~r.edl \/ Ordered(r) => q.position = r.position
  /\ Fits(r.position, r.images) => Near(q)

\* IndexOf depends on the images only.
LEMMA IndexSame ==
  ASSUME NEW q, NEW r, NEW m, q.images = r.images
  PROVE  IndexOf(q, m) = IndexOf(r, m)
BY DEF IndexOf

\* real_change_image(): the browser and the view go to the clip, and the reel is in order.
LEMMA RealChangeImageIs ==
  ASSUME NEW r \in Reels, NEW i \in 1..Len(r.images)
  PROVE  LET q == RealChangeImage(r, i) IN
         /\ Good(q) /\ SameReel(q, r) /\ FullView(q) /\ Moved(q, r)
         /\ q.value = i /\ q.fg = r.images[i]
         /\ r.edl => q.frame = r.frame /\ q.local = r.local
<1> DEFINE m == r.images[i]
           c == [r EXCEPT !.value = i, !.fg = m]
           p == Refreshed(c)
           q == RealChangeImage(r, i)
<1>1. m \in Clips /\ m \in Range(r.images) /\ IndexOf(r, m) = i /\ i \in Nat /\ r.images # <<>>
  BY ImagesOf, IndexOfIn
<1>2. /\ c \in Reels /\ SameReel(c, r) /\ c.position = r.position /\ c.local = r.local
      /\ c.frame = r.frame /\ c.value = i /\ c.fg = m
  <2> HIDE DEF m
  <2> QED BY <1>1 DEF Reels, SameReel
<1>3. q = IF r.edl THEN p ELSE SeekImage(p, p.fg, FirstFrame[p.fg])
  BY DEF RealChangeImage
<1> HIDE DEF c, q
<1>4. Whole(c)
  BY <1>1, <1>2 DEF Whole, SameReel
<1>5. /\ Whole(p) /\ Keeps(p, c) /\ Settled(p) /\ FullView(p)
      /\ c.edl /\ c.images # <<>> => p.frame = c.frame
      /\ ~c.edl \/ Ordered(c) => p.position = c.position
      /\ Fits(c.position, c.images) => Near(p)
  BY <1>4, RefreshedIs
<1> HIDE DEF p
<1>6. Ordered(c) <=> Ordered(r)
  BY <1>2 DEF Ordered, SameReel, End
<1>7. /\ SameReel(p, r) /\ p.value = i /\ p.fg = m
      /\ p.local = r.local /\ (r.edl => p.frame = r.frame)
  BY <1>1, <1>2, <1>5 DEF Keeps, SameReel
<1>8. Moved(p, r)
  BY <1>2, <1>5, <1>6 DEF Moved, SameReel
<1>9. Current(p)
  BY <1>1, <1>7, IndexSame DEF Current, SameReel
<1>10. CASE r.edl
  <2>1. q = p
    BY <1>3, <1>10
  <2> QED BY <1>5, <1>7, <1>8, <1>9, <2>1 DEF Good, q, m
<1>11. CASE ~r.edl
  <2>1. q = SeekImage(p, m, FirstFrame[m]) /\ p \in Reels /\ FirstFrame[m] \in Int
    BY <1>1, <1>3, <1>5, <1>7, <1>11, DurationType DEF Whole, Frames
  <2>2. /\ q \in Reels
        /\ q.images = p.images /\ q.position = p.position /\ q.edl = p.edl /\ q.fg = p.fg
        /\ q.value = p.value /\ q.switching = p.switching /\ q.start = p.start /\ q.end = p.end
    BY <1>1, <2>1, SeekImageIs
  <2>3. ~q.edl /\ SameReel(q, r)
    BY <1>7, <1>11, <2>2 DEF SameReel
  <2>4. Settled(q) /\ FullView(q) /\ Whole(q) /\ Current(q)
    BY <1>5, <1>9, <2>2, <2>3, IndexSame DEF Settled, FullView, Whole, Current
  <2>5. Moved(q, r)
    BY <1>8, <2>2 DEF Moved, Near
  <2> QED BY <1>7, <1>11, <2>2, <2>3, <2>4, <2>5 DEF Good, q, m
<1>12. QED
  BY <1>10, <1>11

\* change_image() to a clip: the one of the view stays as it is.
LEMMA ChangeImageIs ==
  ASSUME NEW r \in Reels, NEW i \in 1..Len(r.images), Whole(r)
  PROVE  LET q == ChangeImage(r, i) IN
         /\ Whole(q) /\ SameReel(q, r) /\ (Moved(q, r) \/ q = r)
         /\ Current(r) => q.fg = r.images[i] /\ q.value = i
         /\ Current(r) => Current(q)
         /\ Settled(r) => Settled(q)
         /\ r.edl => q.frame = r.frame /\ q.local = r.local
<1>1. i # 0
  BY ImagesOf
<1>2. CASE i = r.value
  <2>1. ChangeImage(r, i) = r
    BY <1>1, <1>2 DEF ChangeImage
  <2>2. ASSUME Current(r) PROVE r.fg = r.images[i]
    <3>1. IndexOf(r, r.fg) = i
      BY <1>2, <2>2 DEF Current
    <3>2. r.fg \in Range(r.images)
      BY <1>1, <3>1, IndexOfIn
    <3> QED BY <3>1, <3>2, IndexOfIn
  <2> QED BY <1>2, <2>1, <2>2 DEF SameReel
<1>3. CASE i # r.value
  <2>1. ChangeImage(r, i) = RealChangeImage(r, i)
    BY <1>1, <1>3 DEF ChangeImage
  <2> QED BY <2>1, RealChangeImageIs DEF Good
<1>4. QED
  BY <1>2, <1>3

\* match_tree_order(), with a clip in the view that the tree shows, or without one.
LEMMA MatchTreeOrderIs ==
  ASSUME NEW r \in Reels, NEW s \in Seq(Clips), IsInjective(s)
  PROVE  LET q == MatchTreeOrder(r, s) IN
         /\ r.fg \in Range(s) =>
              /\ Good(q) /\ FullView(q)
              /\ q.images = s /\ q.edl = r.edl /\ q.fg = r.fg
              /\ q.switching = r.switching /\ q.start = r.start /\ q.end = r.end
              /\ ~r.edl => q.position = r.position
              /\ Fits(r.position, s) => Near(q)
              /\ r.edl => q.frame = r.frame /\ q.local = r.local
         /\ r.fg = None => q = [r EXCEPT !.images = s, !.value = 0, !.fg = None]
<1> DEFINE c == [r EXCEPT !.images = s, !.value = 0]
           i == IndexOf(c, c.fg)
           q == MatchTreeOrder(r, s)
<1>1. /\ c \in Reels /\ c.images = s /\ c.value = 0 /\ c.fg = r.fg /\ c.edl = r.edl
      /\ c.position = r.position /\ c.local = r.local /\ c.frame = r.frame
      /\ c.switching = r.switching /\ c.start = r.start /\ c.end = r.end
  BY DEF Reels
<1>2. q = ChangeImage(c, i)
  BY DEF MatchTreeOrder
<1>3. ASSUME r.fg = None PROVE q = [r EXCEPT !.images = s, !.value = 0, !.fg = None]
  <2>1. i = 0
    BY <1>1, <1>3, IndexOfIn
  <2> QED BY <1>2, <2>1 DEF ChangeImage
<1>4. ASSUME r.fg \in Range(s)
      PROVE  /\ Good(q) /\ FullView(q)
             /\ q.images = s /\ q.edl = r.edl /\ q.fg = r.fg
             /\ q.switching = r.switching /\ q.start = r.start /\ q.end = r.end
             /\ ~r.edl => q.position = r.position
             /\ Fits(r.position, s) => Near(q)
             /\ r.edl => q.frame = r.frame /\ q.local = r.local
  <2> HIDE DEF c, q
  <2>1. i \in 1..Len(c.images) /\ c.images[i] = r.fg
    BY <1>1, <1>4, IndexOfIn
  <2>2. i # 0 /\ i # c.value
    BY <1>1, <2>1, ImagesOf
  <2>3. q = RealChangeImage(c, i)
    BY <1>2, <2>2 DEF ChangeImage
  <2> HIDE DEF i
  <2>4. /\ Good(q) /\ SameReel(q, c) /\ FullView(q) /\ Moved(q, c)
        /\ q.fg = c.images[i]
        /\ c.edl => q.frame = c.frame /\ q.local = c.local
    BY <1>1, <2>1, <2>3, RealChangeImageIs
  <2> QED BY <1>1, <2>1, <2>4 DEF SameReel, Moved
<1>5. QED
  BY <1>3, <1>4

-----------------------------------------------------------------------------
\* index( f ) is zero, or that of a clip with this frame.
LEMMA IndexAtIs ==
  ASSUME NEW r \in Reels, NEW f \in Int
  PROVE  /\ IndexAt(r, f) \in 0..Len(r.images)
         /\ IndexAt(r, f) # 0 => /\ IndexAt(r, f) \in 1..Len(r.images)
                                 /\ f \in r.position[r.images[IndexAt(r, f)]]..End(r, r.images[IndexAt(r, f)])
         /\ MediaAt(r, f) # None => IndexAt(r, f) # 0 /\ MediaAt(r, f) = r.images[IndexAt(r, f)]
<1> DEFINE at == {i \in DOMAIN r.images : f \in r.position[r.images[i]]..End(r, r.images[i])}
<1>1. at \subseteq Nat /\ at \subseteq 1..Len(r.images) /\ Len(r.images) \in Nat
  BY ImagesOf
<1>2. at # {} => Min(at) \in at
  <2> HIDE DEF at
  <2> QED BY <1>1, LeastOf
<1>3. IndexAt(r, f) = 0 \/ (at # {} /\ IndexAt(r, f) = Min(at))
  BY DEF IndexAt
<1>4. IndexAt(r, f) # 0 => IndexAt(r, f) \in at
  <2> HIDE DEF at
  <2> QED BY <1>2, <1>3
<1>5. QED
  BY <1>1, <1>4 DEF MediaAt

\* The frame of a clip that a frame of the reel maps to is a number.
LEMMA GlobalToLocalIs ==
  ASSUME NEW r \in Reels, NEW f \in Int
  PROVE  GlobalToLocal(r, f) \in Int
<1> DEFINE at == {i \in DOMAIN r.images : f \in r.position[r.images[i]]..End(r, r.images[i])}
           m == r.images[Min(at)]
<1>1. at \subseteq Nat /\ at \subseteq 1..Len(r.images)
  BY ImagesOf
<1>2. at # {} => Min(at) \in at
  <2> HIDE DEF at
  <2> QED BY <1>1, LeastOf
<1>3. at # {} => m \in Clips
  <2> HIDE DEF at
  <2> QED BY <1>1, <1>2, ImagesOf
<1>4. at # {} => r.position[m] \in Int /\ FirstFrame[m] \in Int
  <2> HIDE DEF m, at
  <2> QED BY <1>3, EndIs, DurationType DEF Frames
<1>5. GlobalToLocal(r, f) = IF ~r.edl THEN f ELSE IF at = {} THEN 0 ELSE f - r.position[m] + FirstFrame[m]
  BY DEF GlobalToLocal
<1> HIDE DEF m, at
<1>6. QED
  BY <1>4, <1>5

\* A frame within the marks is sought as it is.
LEMMA WrappedIs ==
  ASSUME NEW r \in Reels, NEW f \in Int
  PROVE  /\ Wrapped(r, f) \in Int
         /\ f \in r.timeline.dmin..r.timeline.dmax => Wrapped(r, f) = f
<1>1. r.timeline.dmin \in Int /\ r.timeline.dmax \in Int
  BY DEF Reels, Timelines, Frames
<1>2. QED
  BY <1>1 DEF Wrapped

\* q is what a seek makes of r.
Seeks(q, r) ==
  /\ Whole(q) /\ SameReel(q, r)
  /\ Near(r) => Near(q)
  /\ Current(r) => Current(q)
  /\ Settled(r) => Settled(q)

\* A seek of a clip.
LEMMA SeekImageSeeks ==
  ASSUME NEW r, Whole(r), NEW m \in Clips, NEW f \in Int
  PROVE  Seeks(SeekImage(r, m, f), r)
<1> DEFINE q == SeekImage(r, m, f)
<1>1. r \in Reels
  BY DEF Whole
<1>2. /\ q \in Reels
      /\ q.images = r.images /\ q.position = r.position /\ q.edl = r.edl /\ q.fg = r.fg
      /\ q.value = r.value /\ q.frame = r.frame /\ q.timeline = r.timeline
      /\ q.switching = r.switching /\ q.start = r.start /\ q.end = r.end
  BY <1>1, SeekImageIs
<1> HIDE DEF q
<1>3. Whole(q) /\ SameReel(q, r) /\ (Current(r) => Current(q)) /\ (Near(r) => Near(q))
  BY <1>2, IndexSame DEF Whole, SameReel, Current, Near
<1>4. Settled(r) => Settled(q)
  BY <1>2 DEF Settled, Ordered, End
<1>5. QED
  BY <1>3, <1>4 DEF Seeks, q

\* Two of them, one after the other.
LEMMA SeeksTwice ==
  ASSUME NEW p, NEW q, NEW r, Seeks(p, q), Seeks(q, r)
  PROVE  Seeks(p, r)
BY DEF Seeks, SameReel

\* A change of image.
LEMMA ChangeImageSeeks ==
  ASSUME NEW r, Whole(r), NEW i \in 1..Len(r.images)
  PROVE  Seeks(ChangeImage(r, i), r)
<1>1. r \in Reels
  BY DEF Whole
<1>2. Near(r) => Fits(r.position, r.images)
  BY DEF Near
<1>3. QED
  BY <1>1, <1>2, ChangeImageIs DEF Seeks, Moved

\* And none at all.
LEMMA SeeksItself ==
  ASSUME NEW r, Whole(r)
  PROVE  Seeks(r, r)
BY DEF Seeks, SameReel

\* A change of the frame of the view.
LEMMA FrameSeeks ==
  ASSUME NEW r, Whole(r), NEW f \in Int
  PROVE  Seeks([r EXCEPT !.frame = f], r)
<1> DEFINE q == [r EXCEPT !.frame = f]
<1>1. r \in Reels
  BY DEF Whole
<1>2. q \in Reels /\ Keeps(q, r) /\ q.position = r.position /\ q.timeline = r.timeline
  BY <1>1, FrameSet
<1> HIDE DEF q
<1>3. Whole(q) /\ SameReel(q, r) /\ (Current(r) => Current(q)) /\ (Near(r) => Near(q))
  BY <1>2, IndexSame DEF Whole, SameReel, Current, Near, Keeps
<1>4. Settled(r) => Settled(q)
  BY <1>2 DEF Settled, Ordered, End, Keeps
<1>5. QED
  BY <1>3, <1>4 DEF Seeks, q

\* seek() in an edit list, in each of its cases.
LEMMA SeekInListSeeks ==
  ASSUME NEW r, Whole(r), NEW f \in Int
  PROVE  Seeks(SeekInList(r, f), r)
<1> DEFINE m == MediaAt(r, f)
           g == Wrapped(r, f)
           n == MediaAt(r, g)
           l == GlobalToLocal(r, g)
           i == IndexAt(r, g)
<1>1. r \in Reels
  BY DEF Whole
<1>2. g \in Int /\ l \in Int
  <2>1. g \in Int
    BY <1>1, WrappedIs
  <2> HIDE DEF g
  <2> QED BY <1>1, <2>1, GlobalToLocalIs
<1>3. m # None => m \in Clips
  BY <1>1, IndexAtIs, ImagesOf
<1>4. n # None => n \in Clips /\ i \in 1..Len(r.images)
  <2> HIDE DEF g
  <2> QED BY <1>1, <1>2, IndexAtIs, ImagesOf
<1>5. SeekInList(r, f) = IF m = None THEN r
                         ELSE IF r.fg = None \/ m = r.fg THEN SeekImage(r, m, l)
                         ELSE IF n = None THEN r
                         ELSE ChangeImage(SeekImage(r, n, l), i)
  BY DEF SeekInList
<1> HIDE DEF m, g, n, l, i
<1>6. m # None => Seeks(SeekImage(r, m, l), r)
  BY <1>2, <1>3, SeekImageSeeks
<1>7. n # None => Seeks(ChangeImage(SeekImage(r, n, l), i), r)
  <2> SUFFICES ASSUME n # None PROVE Seeks(ChangeImage(SeekImage(r, n, l), i), r)
    OBVIOUS
  <2> DEFINE q == SeekImage(r, n, l)
  <2>1. Seeks(q, r)
    BY <1>2, <1>4, SeekImageSeeks
  <2> HIDE DEF q
  <2>2. Whole(q) /\ i \in 1..Len(q.images)
    BY <1>4, <2>1 DEF Seeks, SameReel
  <2>3. Seeks(ChangeImage(q, i), q)
    BY <2>2, ChangeImageSeeks
  <2>4. Seeks(ChangeImage(q, i), r)
    BY <2>1, <2>3, SeeksTwice
  <2> QED BY <2>4 DEF q
<1>8. QED
  BY <1>5, <1>6, <1>7, SeeksItself

\* seek() never leaves the view at a clip the browser is not at, or a reel out of order.
LEMMA SoughtSeeks ==
  ASSUME NEW r, Whole(r), NEW f \in Int
  PROVE  Seeks(Sought(r, f), r)
<1> DEFINE q == [r EXCEPT !.frame = f]
<1>1. Seeks(q, r)
  BY FrameSeeks
<1>2. Sought(r, f) = IF f = r.frame THEN r
                     ELSE IF q.edl THEN SeekInList(q, f)
                     ELSE IF q.fg = None THEN q
                     ELSE SeekImage(q, q.fg, f)
  BY DEF Sought
<1> HIDE DEF q
<1>3. Whole(q)
  BY <1>1 DEF Seeks
<1>4. Seeks(SeekInList(q, f), r)
  BY <1>1, <1>3, SeekInListSeeks, SeeksTwice
<1>5. q.fg # None => Seeks(SeekImage(q, q.fg, f), r)
  <2>1. q.fg # None => q.fg \in Clips
    BY <1>3 DEF Whole, Reels
  <2> QED BY <1>1, <1>3, <2>1, SeekImageSeeks, SeeksTwice
<1>6. QED
  BY <1>1, <1>2, <1>4, <1>5, SeeksItself

-----------------------------------------------------------------------------
\* t is the sequence s with m inserted at i.
Inserted(t, s, i, m) ==
  /\ t \in Seq(Clips) /\ Len(t) = Len(s) + 1
  /\ \A j \in 1..(i - 1) : t[j] = s[j]
  /\ t[i] = m
  /\ \A j \in (i + 1)..Len(t) : t[j] = s[j - 1]

\* add() inserts at the end.
LEMMA AppendInserts ==
  ASSUME NEW s \in Seq(Clips), NEW m \in Clips
  PROVE  Inserted(Append(s, m), s, Len(s) + 1, m)
BY DEF Inserted

\* insert() inserts where it is told to.
LEMMA InsertAtInserts ==
  ASSUME NEW s \in Seq(Clips), NEW m \in Clips, NEW i \in 1..(Len(s) + 1)
  PROVE  Inserted(InsertAt(s, i, m), s, i, m)
<1> DEFINE a == SubSeq(s, 1, i - 1)
           b == SubSeq(s, i, Len(s))
           c == a \o <<m>>
           t == c \o b
<1>1. a \in Seq(Clips) /\ Len(a) = i - 1 /\ \A j \in 1..(i - 1) : a[j] = s[j]
  OBVIOUS
<1>2. b \in Seq(Clips) /\ Len(b) = Len(s) - i + 1 /\ \A j \in 1..(Len(s) - i + 1) : b[j] = s[i + j - 1]
  OBVIOUS
<1> HIDE DEF a, b
<1>3. c \in Seq(Clips) /\ Len(c) = i /\ (\A j \in 1..(i - 1) : c[j] = s[j]) /\ c[i] = m
  BY <1>1
<1> HIDE DEF c
<1>4. t \in Seq(Clips) /\ Len(t) = Len(s) + 1
  <2>a. c \in Seq(Clips) /\ b \in Seq(Clips)
    BY <1>2, <1>3
  <2>1. t \in Seq(Clips) /\ Len(t) = Len(c) + Len(b)
    BY <2>a
  <2>2. Len(s) \in Nat
    OBVIOUS
  <2> HIDE DEF t
  <2> QED BY <1>2, <1>3, <2>1, <2>2
<1>5. \A j \in 1..i : t[j] = c[j]
  BY <1>2, <1>3
<1>6. ASSUME NEW j \in (i + 1)..(Len(s) + 1) PROVE t[j] = s[j - 1]
  <2>1. t[j] = b[j - i]
    BY <1>2, <1>3
  <2>2. j - i \in 1..(Len(s) - i + 1) /\ i + (j - i) - 1 = j - 1
    OBVIOUS
  <2> QED BY <1>2, <2>1, <2>2
<1>7. InsertAt(s, i, m) = t
  BY DEF InsertAt, t, c, a, b
<1> HIDE DEF t
<1>8. t[i] = m /\ \A j \in 1..(i - 1) : t[j] = s[j]
  BY <1>3, <1>5
<1>9. QED
  BY <1>4, <1>6, <1>7, <1>8 DEF Inserted

\* A clip that was not there yet is there once.
LEMMA InsertedIs ==
  ASSUME NEW s \in Seq(Clips), NEW t, NEW m \in Clips, NEW i \in 1..(Len(s) + 1),
         Inserted(t, s, i, m), IsInjective(s), m \notin Range(s)
  PROVE  IsInjective(t) /\ Range(t) = Range(s) \cup {m}
<1>1. /\ t \in Seq(Clips) /\ Len(t) = Len(s) + 1
      /\ \A j \in 1..(i - 1) : t[j] = s[j]
      /\ t[i] = m
      /\ \A j \in (i + 1)..Len(t) : t[j] = s[j - 1]
  BY DEF Inserted
<1>2. DOMAIN s = 1..Len(s) /\ DOMAIN t = 1..Len(t) /\ Len(s) \in Nat
  BY <1>1
<1>3. \A j, k \in 1..Len(s) : s[j] = s[k] => j = k
  BY <1>2 DEF IsInjective
<1>4. \A j \in 1..Len(s) : s[j] # m
  BY <1>2 DEF Range
<1> DEFINE At(j) == IF j < i THEN j ELSE j - 1
<1>5. ASSUME NEW j \in 1..Len(t), j # i PROVE At(j) \in 1..Len(s) /\ t[j] = s[At(j)]
  <2>1. CASE j < i
    <3>1. j \in 1..(i - 1) /\ j \in 1..Len(s)
      BY <1>1, <1>2, <2>1
    <3> QED BY <1>1, <2>1, <3>1
  <2>2. CASE ~(j < i)
    <3>1. j \in (i + 1)..Len(t) /\ j - 1 \in 1..Len(s)
      BY <1>1, <1>2, <1>5, <2>2
    <3> QED BY <1>1, <2>2, <3>1
  <2> QED BY <2>1, <2>2
<1>6. ASSUME NEW j \in 1..Len(t), NEW k \in 1..Len(t), t[j] = t[k] PROVE j = k
  <2>1. CASE j = i \/ k = i
    <3>1. \A l \in 1..Len(t) : l # i => t[l] # m
      <4> HIDE DEF At
      <4> QED BY <1>4, <1>5
    <3> QED BY <1>1, <1>6, <2>1, <3>1
  <2>2. CASE j # i /\ k # i
    <3>1. At(j) = At(k)
      <4> HIDE DEF At
      <4> QED BY <1>3, <1>5, <1>6, <2>2
    <3> QED BY <1>1, <1>2, <2>2, <3>1
  <2> QED BY <2>1, <2>2
<1>7. IsInjective(t)
  BY <1>2, <1>6 DEF IsInjective
<1>8. ASSUME NEW j \in 1..Len(t) PROVE t[j] \in Range(s) \cup {m}
  <2> HIDE DEF At
  <2> QED BY <1>1, <1>2, <1>5 DEF Range
<1>9. ASSUME NEW x \in Range(s) PROVE x \in Range(t)
  <2>1. PICK k \in 1..Len(s) : x = s[k]
    BY <1>2 DEF Range
  <2>2. CASE k < i
    <3>1. k \in 1..(i - 1) /\ k \in DOMAIN t
      BY <1>1, <1>2, <2>2
    <3> QED BY <1>1, <2>1, <3>1 DEF Range
  <2>3. CASE ~(k < i)
    <3>1. k + 1 \in (i + 1)..Len(t) /\ k + 1 \in DOMAIN t /\ k + 1 - 1 = k
      BY <1>1, <1>2, <2>3
    <3>2. t[k + 1] = s[k]
      BY <1>1, <3>1
    <3> QED BY <2>1, <3>1, <3>2 DEF Range
  <2> QED BY <2>2, <2>3
<1>10. m \in Range(t)
  <2>1. i \in DOMAIN t
    BY <1>1, <1>2
  <2> QED BY <1>1, <2>1 DEF Range
<1>11. Range(t) \subseteq Range(s) \cup {m}
  BY <1>2, <1>8 DEF Range
<1>12. QED
  BY <1>7, <1>9, <1>10, <1>11

\* A clip put in between moves those after it on.
LEMMA InsertedStarts ==
  ASSUME NEW s \in Seq(Clips), NEW t, NEW m \in Clips, NEW i \in 1..(Len(s) + 1), Inserted(t, s, i, m)
  PROVE  /\ \A j \in 1..(i - 1) : Starts(t)[j] = Starts(s)[j]
         /\ \A j \in (i + 1)..Len(t) : Starts(t)[j] > Starts(s)[j - 1]
<1> DEFINE n == Len(s)
           a == Starts(s)
           b == Starts(t)
<1>1. /\ t \in Seq(Clips) /\ Len(t) = n + 1
      /\ \A j \in 1..(i - 1) : t[j] = s[j]
      /\ t[i] = m
      /\ \A j \in (i + 1)..Len(t) : t[j] = s[j - 1]
  BY DEF Inserted
<1>2. n \in Nat /\ n \in Int /\ i \in Int /\ i <= n + 1
  OBVIOUS
<1>3. /\ a \in [1..n -> Frames] /\ (1 <= n => a[1] = 1)
      /\ \A j \in 2..n : a[j] = a[j - 1] + Duration(s[j - 1])
  <2>1. 1 <= n => s # <<>>
    OBVIOUS
  <2> QED BY <2>1, StartsAre
<1>4. /\ b \in [1..(n + 1) -> Frames] /\ b[1] = 1
      /\ \A j \in 2..(n + 1) : b[j] = b[j - 1] + Duration(t[j - 1])
  <2>1. t # <<>>
    BY <1>1, <1>2
  <2> QED BY <1>1, <2>1, StartsAre
<1>5. \A j \in 1..n : Duration(s[j]) \in Frames
  BY DurationType
<1>6. Duration(m) \in Frames
  BY DurationType
<1> HIDE DEF a, b, n
\* The clips up to i start where they did.
<1> DEFINE S == {j \in Int : j <= n => b[j] = a[j]}
<1>7. 1..i \subseteq S
  <2>1. 1 <= i => 1 \in S
    BY <1>3, <1>4
  <2>2. ASSUME NEW j \in (1 + 1)..i, j - 1 \in S PROVE j \in S
    <3>1. SUFFICES ASSUME j <= n PROVE b[j] = a[j]
      BY <1>2
    <3>2. j \in 2..n /\ j \in 2..(n + 1) /\ j - 1 \in 1..(i - 1) /\ j - 1 \in Int
      BY <1>2, <3>1
    <3>3. b[j - 1] = a[j - 1] /\ t[j - 1] = s[j - 1]
      BY <1>1, <1>2, <2>2, <3>1, <3>2
    <3>4. a[j] = a[j - 1] + Duration(s[j - 1]) /\ b[j] = b[j - 1] + Duration(t[j - 1])
      BY <1>3, <1>4, <3>2
    <3> QED BY <3>3, <3>4
  <2>3. 1 \in Int
    OBVIOUS
  <2> HIDE DEF S
  <2> QED BY <1>2, <2>1, <2>2, <2>3, IntervalInduction
<1>8. \A j \in 1..i : j <= n => b[j] = a[j]
  BY <1>7
<1>9. \A j \in 1..(i - 1) : b[j] = a[j]
  BY <1>2, <1>8
\* The others start later by the duration of the clip.
<1> DEFINE T == {j \in Int : b[j] = a[j - 1] + Duration(m)}
<1>10. (i + 1)..(n + 1) \subseteq T
  <2>1. ASSUME i + 1 <= n + 1 PROVE i + 1 \in T
    <3>1. i <= n /\ i + 1 \in 2..(n + 1) /\ i + 1 - 1 = i
      BY <1>2, <2>1
    <3>2. b[i + 1] = b[i] + Duration(m)
      BY <1>1, <1>4, <3>1
    <3>3. b[i] = a[i]
      BY <1>8, <3>1
    <3> QED BY <1>2, <3>1, <3>2, <3>3
  <2>2. ASSUME NEW j \in (i + 1 + 1)..(n + 1), j - 1 \in T PROVE j \in T
    <3>1. /\ j \in 2..(n + 1) /\ j - 1 \in 2..n /\ j - 1 \in (i + 1)..(n + 1) /\ j - 2 \in 1..n
          /\ j - 1 - 1 = j - 2 /\ j - 1 \in 1..n
      BY <1>2
    <3>2. b[j] = b[j - 1] + Duration(s[j - 2])
      BY <1>1, <1>4, <3>1
    <3>3. a[j - 1] = a[j - 2] + Duration(s[j - 2])
      BY <1>3, <3>1
    <3>4. b[j - 1] = a[j - 2] + Duration(m)
      BY <2>2, <3>1
    <3>5. a[j - 2] \in Int /\ Duration(m) \in Int /\ Duration(s[j - 2]) \in Int
      BY <1>3, <1>5, <1>6, <3>1 DEF Frames
    <3>6. b[j] = a[j - 1] + Duration(m)
      BY <3>2, <3>3, <3>4, <3>5
    <3> QED BY <3>6
  <2>3. i + 1 \in Int /\ n + 1 \in Int
    BY <1>2
  <2> HIDE DEF T
  <2> QED BY <2>1, <2>2, <2>3, IntervalInduction
<1>11. ASSUME NEW j \in (i + 1)..(n + 1) PROVE b[j] > a[j - 1]
  <2>1. b[j] = a[j - 1] + Duration(m)
    BY <1>10
  <2>2. j - 1 \in 1..n
    BY <1>2
  <2>3. a[j - 1] \in Frames
    BY <1>3, <2>2
  <2> QED BY <1>6, <2>1, <2>3 DEF Frames
<1>12. QED
  BY <1>1, <1>9, <1>11 DEF a, b, n

\* The places of the clips after an inserted one are later than they were: none is past its
\* place, with the new clip at frame 1.
LEMMA InsertedFits ==
  ASSUME NEW s \in Seq(Clips), NEW t, NEW m \in Clips, NEW i \in 1..(Len(s) + 1), Inserted(t, s, i, m),
         m \notin Range(s), NEW p \in [Clips -> Frames], Fits(p, s)
  PROVE  Fits([p EXCEPT ![m] = 1], t)
<1> DEFINE q == [p EXCEPT ![m] = 1]
<1> SUFFICES ASSUME NEW j \in 1..Len(t) PROVE q[t[j]] <= Starts(t)[j]
  BY DEF Fits
<1>1. /\ t \in Seq(Clips) /\ Len(t) = Len(s) + 1
      /\ \A k \in 1..(i - 1) : t[k] = s[k]
      /\ t[i] = m
      /\ \A k \in (i + 1)..Len(t) : t[k] = s[k - 1]
  BY DEF Inserted
<1>2. Len(s) \in Nat /\ DOMAIN s = 1..Len(s)
  OBVIOUS
<1>3. \A k \in 1..Len(s) : s[k] \in Clips /\ s[k] # m /\ q[s[k]] = p[s[k]] /\ p[s[k]] \in Frames
  BY <1>2 DEF Range
<1>4. \A k \in 1..Len(s) : q[s[k]] <= Starts(s)[k]
  BY <1>3 DEF Fits
<1>5. Starts(t) \in [1..Len(t) -> Frames] /\ Starts(s) \in [1..Len(s) -> Frames]
  BY <1>1, StartsAre
<1>6. q[m] = 1
  OBVIOUS
<1> HIDE DEF q
<1>7. CASE j = i
  <2>1. Starts(t)[j] \in Frames
    BY <1>5
  <2>2. q[t[j]] = 1
    BY <1>1, <1>6, <1>7
  <2> QED BY <2>1, <2>2 DEF Frames
<1>8. CASE j < i
  <2>1. j \in 1..(i - 1) /\ j \in 1..Len(s)
    BY <1>1, <1>2, <1>8
  <2> QED BY <1>1, <1>4, <2>1, InsertedStarts
<1>9. CASE j > i
  <2>1. j \in (i + 1)..Len(t) /\ j - 1 \in 1..Len(s)
    BY <1>1, <1>2, <1>9
  <2>2. Starts(t)[j] > Starts(s)[j - 1]
    BY <2>1, InsertedStarts
  <2>3. q[t[j]] <= Starts(s)[j - 1]
    BY <1>1, <1>4, <2>1
  <2>4. Starts(t)[j] \in Frames /\ Starts(s)[j - 1] \in Frames
    BY <1>5, <2>1
  <2>5. q[t[j]] \in Frames
    BY <1>1, <1>3, <2>1
  <2> QED BY <2>2, <2>3, <2>4, <2>5 DEF Frames
<1>10. QED
  BY <1>1, <1>2, <1>7, <1>8, <1>9

-----------------------------------------------------------------------------
\* A refresh puts the reel in order.
LEMMA RefreshedGood ==
  ASSUME NEW r, Whole(r), Current(r)
  PROVE  Good(Refreshed(r)) /\ Keeps(Refreshed(r), r)
BY RefreshedIs, IndexSame DEF Good, Current, Keeps

\* q has the clip m too, and is in order if r was.
Grows(q, r, m) ==
  /\ Good(q) /\ Range(q.images) = Range(r.images) \cup {m}
  /\ Near(r) => Near(q)

\* The clip m with a position and a frame of its own, not in the reel yet.
Fresh(r, m) == [r EXCEPT !.position[m] = 1, !.local[m] = FirstFrame[m]]

\* It changes the position and the frame of the clip only.
LEMMA FreshIs ==
  ASSUME NEW r \in Reels, NEW m \in Clips
  PROVE  /\ Fresh(r, m) \in Reels /\ SameReel(Fresh(r, m), r)
         /\ Fresh(r, m).fg = r.fg /\ Fresh(r, m).value = r.value /\ Fresh(r, m).frame = r.frame
         /\ Fresh(r, m).timeline = r.timeline
         /\ Fresh(r, m).position = [r.position EXCEPT ![m] = 1]
<1> DEFINE p == [r.position EXCEPT ![m] = 1]
           l == [r.local EXCEPT ![m] = FirstFrame[m]]
<1>1. p \in [Clips -> Frames]
  BY DEF Reels, Frames
<1>2. l \in [Clips -> Int]
  <2>1. FirstFrame[m] \in Int
    BY DurationType DEF Frames
  <2> QED BY <2>1 DEF Reels
<1>3. Fresh(r, m) = [r EXCEPT !.position = p, !.local = l]
  BY DEF Fresh, Reels
<1> HIDE DEF l
<1>4. QED
  <2>1. /\ Fresh(r, m) \in Reels /\ SameReel(Fresh(r, m), r)
        /\ Fresh(r, m).fg = r.fg /\ Fresh(r, m).value = r.value /\ Fresh(r, m).frame = r.frame
        /\ Fresh(r, m).timeline = r.timeline /\ Fresh(r, m).position = p
    <3> HIDE DEF p
    <3> QED BY <1>1, <1>2, <1>3 DEF Reels, SameReel
  <2> QED BY <2>1

\* add(): the first clip of a reel comes to the view, another one leaves it at its clip.
LEMMA AddedGrows ==
  ASSUME NEW r, Good(r), NEW m \in Clips, m \notin Range(r.images)
  PROVE  Grows(Added(r, m), r, m)
<1> DEFINE c == Fresh(r, m)
           s == Append(r.images, m)
           q == MatchTreeOrder(c, s)
           z == IF Len(q.images) = 1 THEN ChangeImage(q, 1) ELSE q
<1>1. r \in Reels /\ Whole(r) /\ r.images \in Seq(Clips) /\ IsInjective(r.images) /\ Len(r.images) \in Nat
  BY ImagesOf DEF Good, Whole
<1>2. Inserted(s, r.images, Len(r.images) + 1, m) /\ Len(r.images) + 1 \in 1..(Len(r.images) + 1)
  BY <1>1, AppendInserts
<1>3. IsInjective(s) /\ Range(s) = Range(r.images) \cup {m} /\ s \in Seq(Clips)
      /\ Len(s) = Len(r.images) + 1
  <2> HIDE DEF s
  <2>1. s \in Seq(Clips) /\ Len(s) = Len(r.images) + 1
    BY <1>2 DEF Inserted
  <2> QED BY <1>1, <1>2, <2>1, InsertedIs
<1>4. /\ c \in Reels /\ SameReel(c, r) /\ c.fg = r.fg
      /\ c.position = [r.position EXCEPT ![m] = 1]
  BY <1>1, FreshIs
<1>5. Near(r) => Fits(c.position, s)
  <2>1. r.position \in [Clips -> Frames]
    BY <1>1 DEF Reels
  <2>2. Near(r) => Fits(r.position, r.images)
    BY DEF Near
  <2> HIDE DEF c, s
  <2> QED BY <1>1, <1>2, <1>4, <2>1, <2>2, InsertedFits
<1>6. Added(r, m) = Refreshed(z)
  BY DEF Added, Fresh
<1> HIDE DEF c, s
<1>7. Good(z) /\ z.images = s /\ (Near(r) => Fits(z.position, s))
  <2>1. CASE r.images = <<>>
    <3>1. c.fg = None /\ Len(s) = 1
      BY <1>1, <1>3, <1>4, <2>1 DEF Whole
    <3>2. q = [c EXCEPT !.images = s, !.value = 0, !.fg = None]
      BY <1>3, <1>4, <3>1, MatchTreeOrderIs
    <3>3. q \in Reels /\ q.images = s /\ q.value = 0 /\ q.position = c.position
      <4> HIDE DEF q
      <4> QED BY <1>3, <1>4, <3>2 DEF Reels
    <3> HIDE DEF q
    <3>a. Len(q.images) = 1
      BY <3>1, <3>3
    <3>b. z = ChangeImage(q, 1)
      BY <3>a
    <3>c. ChangeImage(q, 1) = RealChangeImage(q, 1)
      BY <3>3 DEF ChangeImage
    <3>4. z = RealChangeImage(q, 1) /\ 1 \in 1..Len(q.images)
      BY <3>a, <3>b, <3>c
    <3> HIDE DEF z
    <3>5. Good(z) /\ SameReel(z, q) /\ Moved(z, q)
      BY <3>3, <3>4, RealChangeImageIs
    <3> QED BY <1>5, <3>3, <3>5 DEF SameReel, Moved, Near
  <2>2. CASE r.images # <<>>
    <3>1. c.fg \in Range(s) /\ Len(s) # 1
      BY <1>1, <1>3, <1>4, <2>2, ImagesOf DEF Whole
    <3>2. Good(q) /\ q.images = s /\ (Fits(c.position, s) => Near(q))
      BY <1>3, <1>4, <3>1, MatchTreeOrderIs
    <3> HIDE DEF q
    <3>3. z = q
      BY <3>1, <3>2
    <3> HIDE DEF z
    <3> QED BY <1>5, <3>2, <3>3 DEF Near
  <2> QED BY <2>1, <2>2
<1> HIDE DEF z
<1>8. Whole(z) /\ Current(z)
  BY <1>7 DEF Good
<1>9. Good(Refreshed(z)) /\ Refreshed(z).images = s
  BY <1>7, <1>8, RefreshedGood DEF Keeps
<1>10. Near(r) => Near(Refreshed(z))
  BY <1>7, <1>8, RefreshedIs
<1>11. QED
  BY <1>3, <1>6, <1>9, <1>10 DEF Grows

\* load() adds the clips one after the other.
LEMMA AddedAllIs ==
  ASSUME NEW r, Good(r), NEW ms \in Seq(Clips), IsInjective(ms),
         \A j \in 1..Len(ms) : ms[j] \notin Range(r.images)
  PROVE  /\ Good(AddedAll(r, ms)) /\ (Near(r) => Near(AddedAll(r, ms)))
         /\ Range(AddedAll(r, ms).images) = Range(r.images) \cup Range(ms)
<1> DEFINE n == Len(ms)
           To(q, i) == /\ Good(q) /\ (Near(r) => Near(q))
                       /\ Range(q.images) = Range(r.images) \cup {ms[j] : j \in 1..i}
           Of(f) == [i \in 0..n |-> IF i = 0 THEN r ELSE Added(f[i - 1], ms[i])]
           step == [x \in Int \X Reels |-> IF x[1] \in 1..n /\ Added(x[2], ms[x[1]]) \in Reels
                                           THEN Added(x[2], ms[x[1]]) ELSE r]
<1>1. /\ n \in Nat /\ n \in Int /\ 0 \in Int /\ r \in Reels
      /\ \A i \in 1..n : ms[i] \in Clips
      /\ \A i, j \in 1..n : ms[i] = ms[j] => i = j
      /\ Range(ms) = {ms[j] : j \in 1..n}
  BY DEF Good, Whole, IsInjective, Range
<1>2. To(r, 0)
  BY DEF Good
<1>3. ASSUME NEW i \in 1..n, NEW q, To(q, i - 1)
      PROVE  To(Added(q, ms[i]), i) /\ Added(q, ms[i]) \in Reels
  <2>1. i - 1 \in 0..n /\ \A j \in 1..(i - 1) : j \in 1..n /\ j # i
    BY <1>1
  <2>2. ms[i] \notin Range(q.images)
    BY <1>1, <1>3, <2>1
  <2>3. Grows(Added(q, ms[i]), q, ms[i])
    BY <1>1, <1>3, <2>2, AddedGrows
  <2>4. {ms[j] : j \in 1..i} = {ms[j] : j \in 1..(i - 1)} \cup {ms[i]}
    <3>1. \A j \in 1..i : j \in 1..(i - 1) \/ j = i
      OBVIOUS
    <3>2. i \in 1..i /\ \A j \in 1..(i - 1) : j \in 1..i
      BY <1>1
    <3> QED BY <3>1, <3>2
  <2> QED BY <1>3, <2>3, <2>4 DEF Grows, Good, Whole
<1> HIDE DEF To
<1>4. ASSUME NEW g, g[0] = r, \A i \in 1..n : To(g[i - 1], i - 1) => g[i] = Added(g[i - 1], ms[i])
      PROVE  \A i \in 0..n : To(g[i], i)
  <2> DEFINE S == {i \in 0..n : To(g[i], i)}
  <2>1. 0 <= n => 0 \in S
    BY <1>1, <1>2, <1>4
  <2>2. ASSUME NEW i \in (0 + 1)..n, i - 1 \in S PROVE i \in S
    <3>1. i \in 1..n /\ i \in 0..n /\ To(g[i - 1], i - 1)
      BY <1>1, <2>2
    <3>2. To(Added(g[i - 1], ms[i]), i)
      BY <1>3, <3>1
    <3> QED BY <1>4, <3>1, <3>2
  <2>3. 0..n \subseteq S
    <3> HIDE DEF S, n
    <3> QED BY <1>1, <2>1, <2>2, IntervalInduction
  <2> QED BY <2>3
<1>5. PICK f : Follows(f, 0, n, Reels, r, step)
  <2>1. step \in [Int \X Reels -> Reels]
    BY <1>1
  <2> HIDE DEF step, n
  <2> QED BY <1>1, <2>1, Recursion, Zenon
<1>6. f \in [0..n -> Reels] /\ f[0] = r
  BY <1>1, <1>5 DEF Follows
<1>7. ASSUME NEW i \in 1..n, To(f[i - 1], i - 1) PROVE f[i] = Added(f[i - 1], ms[i])
  <2>1. i \in (0 + 1)..n /\ i - 1 \in 0..n /\ i \in Int
    BY <1>1
  <2>2. f[i] = step[<<i, f[i - 1]>>]
    <3> HIDE DEF step
    <3> QED BY <1>5, <2>1 DEF Follows
  <2>3. f[i - 1] \in Reels /\ Added(f[i - 1], ms[i]) \in Reels
    BY <1>3, <1>6, <1>7, <2>1
  <2> QED BY <2>1, <2>2, <2>3
<1> HIDE DEF step
<1>8. \A i \in 0..n : To(f[i], i)
  BY <1>4, <1>6, <1>7
<1>9. f = Of(f)
  <2>1. ASSUME NEW i \in 0..n PROVE f[i] = IF i = 0 THEN r ELSE Added(f[i - 1], ms[i])
    <3>1. i # 0 => i \in 1..n /\ i - 1 \in 0..n
      BY <1>1
    <3> QED BY <1>6, <1>7, <1>8, <3>1
  <2> QED BY <1>6, <2>1
<1> DEFINE a == CHOOSE g : g = Of(g)
<1>10. a = Of(a)
  <2> HIDE DEF Of
  <2> QED BY <1>9
<1>11. AddedAll(r, ms) = a[n]
  BY DEF AddedAll
<1> HIDE DEF a
<1>12. a[0] = r /\ \A i \in 1..n : a[i] = Added(a[i - 1], ms[i])
  <2>1. 0 \in 0..n /\ \A i \in 1..n : i \in 0..n /\ i # 0
    BY <1>1
  <2> QED BY <1>10, <2>1
<1>13. To(a[n], n)
  BY <1>1, <1>4, <1>12
<1>14. QED
  BY <1>1, <1>11, <1>13 DEF To

\* local_to_global(), in an edit list, by the lengths of the clips before.
LEMMA LocalToGlobalIs ==
  ASSUME NEW r \in Reels, NEW m \in Range(r.images), NEW f \in Int
  PROVE  /\ LocalToGlobal(r, f, m) \in Int
         /\ r.edl => LocalToGlobal(r, f, m) = f - FirstFrame[m] + Starts(r.images)[IndexOf(r, m)]
<1>1. IndexOf(r, m) \in 1..Len(r.images) /\ m \in Clips /\ r.images \in Seq(Clips)
  BY IndexOfIn, ImagesOf
<1>2. Starts(r.images)[IndexOf(r, m)] \in Frames /\ FirstFrame[m] \in Frames
  BY <1>1, StartsAre, DurationType
<1>3. QED
  BY <1>2 DEF LocalToGlobal, Location, Frames

\* What a seek makes of a good reel is good.
LEMMA GoodSeeks ==
  ASSUME NEW q, NEW r, Good(r), Seeks(q, r)
  PROVE  Good(q) /\ (Near(r) => Near(q)) /\ q.images = r.images /\ q.edl = r.edl
BY DEF Good, Seeks, SameReel

\* So is a good reel at another frame.
LEMMA FrameGood ==
  ASSUME NEW r, Good(r), NEW f \in Int
  PROVE  Good([r EXCEPT !.frame = f]) /\ (Near(r) => Near([r EXCEPT !.frame = f]))
<1>1. Seeks([r EXCEPT !.frame = f], r)
  BY FrameSeeks DEF Good
<1>2. QED
  BY <1>1, GoodSeeks

\* A reel without a clip, and without one in the view.
LEMMA EmptyGood ==
  ASSUME NEW r \in Reels, r.images = <<>>, r.fg = None
  PROVE  LET q == [r EXCEPT !.images = r.images, !.value = 0, !.fg = None] IN
         /\ Good(q) /\ Near(q) /\ q.images = <<>> /\ q.edl = r.edl
<1> DEFINE q == [r EXCEPT !.images = r.images, !.value = 0, !.fg = None]
<1>1. q \in Reels /\ q.images = <<>> /\ q.value = 0 /\ q.fg = None /\ q.edl = r.edl
  BY DEF Reels
<1> HIDE DEF q
<1>2. Whole(q) /\ Settled(q)
  BY <1>1 DEF Whole, Settled
<1>3. Current(q)
  BY <1>1, IndexOfIn DEF Current
<1>4. Near(q)
  <2>1. 1..Len(q.images) = {}
    BY <1>1, ImagesOf
  <2> QED BY <2>1 DEF Near, Fits
<1>5. QED
  BY <1>1, <1>2, <1>3, <1>4 DEF Good, q

\* match_tree_order(), when the tree shows what the reel holds already.
LEMMA MatchedGood ==
  ASSUME NEW r, Whole(r)
  PROVE  LET q == MatchTreeOrder(r, r.images) IN
         /\ Good(q) /\ q.images = r.images /\ q.edl = r.edl
         /\ Fits(r.position, r.images) => Near(q)
<1>1. r \in Reels /\ r.images \in Seq(Clips) /\ IsInjective(r.images)
  BY ImagesOf DEF Whole
<1>2. CASE r.images = <<>>
  <2> DEFINE q == MatchTreeOrder(r, r.images)
  <2>1. r.fg = None
    BY <1>2 DEF Whole
  <2>2. q = [r EXCEPT !.images = r.images, !.value = 0, !.fg = None]
    BY <1>1, <2>1, MatchTreeOrderIs
  <2>3. /\ Good([r EXCEPT !.images = r.images, !.value = 0, !.fg = None])
        /\ Near([r EXCEPT !.images = r.images, !.value = 0, !.fg = None])
        /\ [r EXCEPT !.images = r.images, !.value = 0, !.fg = None].images = <<>>
        /\ [r EXCEPT !.images = r.images, !.value = 0, !.fg = None].edl = r.edl
    BY <1>1, <1>2, <2>1, EmptyGood
  <2>4. Good(q) /\ Near(q) /\ q.images = <<>> /\ q.edl = r.edl
    <3> HIDE DEF q
    <3> QED BY <2>2, <2>3
  <2> QED BY <1>2, <2>4
<1>3. CASE r.images # <<>>
  <2>1. r.fg \in Range(r.images)
    BY <1>3 DEF Whole
  <2> QED BY <1>1, <2>1, MatchTreeOrderIs
<1>4. QED
  BY <1>2, <1>3

\* A refresh of a good reel leaves it good, and its clips in the places they have.
LEMMA RefreshedNear ==
  ASSUME NEW r, Good(r)
  PROVE  LET q == Refreshed(r) IN
         Good(q) /\ q.images = r.images /\ q.edl = r.edl /\ q.fg = r.fg /\ (Near(r) => Near(q))
BY RefreshedGood, RefreshedIs DEF Good, Near, Keeps

\* load(), of clips that are not there yet.
LEMMA LoadedGood ==
  ASSUME NEW r, Good(r), NEW ms \in Seq(Clips), IsInjective(ms),
         \A j \in 1..Len(ms) : ms[j] \notin Range(r.images)
  PROVE  Good(Loaded(r, ms)) /\ (Near(r) => Near(Loaded(r, ms)))
<1> DEFINE all == AddedAll(r, ms)
           p == MatchTreeOrder(all, all.images)
           q == Refreshed(p)
           i == IF r.images = <<>> THEN 1 ELSE Len(q.images)
           s == ChangeImage(q, i)
           f == LocalToGlobal(s, FirstFrame[s.fg], s.fg)
<1>1. Loaded(r, ms) = IF q.images = <<>> THEN q ELSE [s EXCEPT !.frame = f]
  BY DEF Loaded
<1>2. Good(all) /\ (Near(r) => Near(all))
  BY AddedAllIs
<1> HIDE DEF all
<1>3. Good(p) /\ (Near(r) => Near(p))
  BY <1>2, MatchedGood DEF Good, Near
<1> HIDE DEF p
<1>4. Good(q) /\ (Near(r) => Near(q))
  BY <1>3, RefreshedNear
<1> HIDE DEF q
<1>5. CASE q.images = <<>>
  BY <1>1, <1>4, <1>5
<1>6. CASE q.images # <<>>
  <2>1. i \in 1..Len(q.images)
    BY <1>4, <1>6, ImagesOf DEF Good, Whole
  <2> HIDE DEF i
  <2>2. Seeks(s, q)
    BY <1>4, <2>1, ChangeImageSeeks DEF Good
  <2> HIDE DEF s
  <2>3. Good(s) /\ (Near(r) => Near(s)) /\ s.images # <<>>
    BY <1>4, <1>6, <2>2, GoodSeeks
  <2>4. s \in Reels /\ s.fg \in Range(s.images) /\ FirstFrame[s.fg] \in Int
    BY <2>3, ForegroundIs DEF Good, Frames
  <2>5. f \in Int
    BY <2>4, LocalToGlobalIs
  <2> HIDE DEF f
  <2> QED BY <1>1, <1>6, <2>3, <2>5, FrameGood
<1>7. QED
  BY <1>5, <1>6

-----------------------------------------------------------------------------
\* The inductive invariant: all of the above, of the reel of the program.
IInv ==
  /\ Good(reel)
  /\ edited \in BOOLEAN /\ left \in 0..Commands
  /\ ~edited => Near(reel)

\* The reel the viewer is started with.
LEMMA InitIInv ==
  ASSUME Init
  PROVE  IInv
<1>1. PICK switching \in BOOLEAN, selection \in BOOLEAN :
        reel = Loaded([Empty EXCEPT !.switching = switching, !.timeline.selection = selection], Files)
  BY DEF Init
<1> DEFINE r == [Empty EXCEPT !.switching = switching, !.timeline.selection = selection]
<1>2. r \in Reels /\ r.images = <<>> /\ r.value = 0 /\ r.fg = None /\ ~r.edl
  <2>1. <<>> \in {s \in Seq(Clips) : IsInjective(s)}
    BY DEF IsInjective
  <2>2. FirstFrame \in [Clips -> Int]
    BY ReelAssumption
  <2>3. [m \in Clips |-> 1] \in [Clips -> Frames] /\ 1 \in Frames /\ 50 \in Frames /\ 0 \in Nat
    BY DEF Frames
  <2> DEFINE z == <<>>
             p == [m \in Clips |-> 1]
             t == [min |-> 1, max |-> 50, dmin |-> 1, dmax |-> 50, undoMin |-> 0, undoMax |-> 0,
                   selection |-> FALSE]
             u == [t EXCEPT !.selection = selection]
  <2>4. t \in Timelines /\ u \in Timelines
    BY <2>3 DEF Timelines
  <2> DEFINE e == [images |-> z, position |-> p, local |-> FirstFrame, edl |-> FALSE,
                   fg |-> None, value |-> 0, frame |-> 1, timeline |-> t,
                   start |-> FALSE, end |-> FALSE, switching |-> FALSE]
  <2>5. Empty = e
    BY Zenon DEF Empty, Nopts, e, z, p, t
  <2>6. z \in {s \in Seq(Clips) : IsInjective(s)} /\ p \in [Clips -> Frames] /\ z = <<>>
    BY <2>1, <2>3
  <2> HIDE DEF z, p, t, u
  <2>7. e \in Reels /\ e.timeline = t /\ e.images = z /\ e.value = 0 /\ e.fg = None /\ ~e.edl
    BY <2>2, <2>4, <2>6 DEF Reels
  <2> HIDE DEF e
  <2>8. r = [e EXCEPT !.switching = switching, !.timeline = u]
    BY <2>5, <2>7 DEF u
  <2> HIDE DEF r
  <2>9. r \in Reels /\ r.images = e.images /\ r.value = e.value /\ r.fg = e.fg /\ r.edl = e.edl
    BY <2>4, <2>7, <2>8 DEF Reels
  <2> QED BY <2>6, <2>7, <2>9
<1> HIDE DEF r
<1>3. Whole(r) /\ Settled(r) /\ Current(r)
  BY <1>2, IndexOfIn DEF Whole, Settled, Current
<1>4. Near(r)
  <2>1. 1..Len(r.images) = {}
    BY <1>2, ImagesOf
  <2> QED BY <1>2, <2>1 DEF Near, Fits
<1>5. Files \in Seq(Clips) /\ IsInjective(Files) /\ \A j \in 1..Len(Files) : Files[j] \notin Range(r.images)
  BY <1>2, ReelAssumption DEF Range
<1>6. Good(reel) /\ Near(reel)
  BY <1>1, <1>3, <1>4, <1>5, LoadedGood DEF Good, r
<1>7. edited \in BOOLEAN
  BY DEF Init
<1>8. left \in 0..Commands
  <2>1. left = Commands /\ Commands \in Nat
    BY ReelAssumption DEF Init
  <2> QED BY <2>1
<1>9. QED
  BY <1>6, <1>7, <1>8, Zenon DEF IInv

\* RemoveAt() takes one clip out, and leaves the others in their order.
LEMMA RemovedFrom ==
  ASSUME NEW s \in Seq(Clips), IsInjective(s), NEW i \in 1..Len(s)
  PROVE  LET t == RemoveAt(s, i) IN
         t \in Seq(Clips) /\ Len(t) = Len(s) - 1 /\ IsInjective(t) /\ Range(t) = Range(s) \ {s[i]}
<1> DEFINE a == SubSeq(s, 1, i - 1)
           b == SubSeq(s, i + 1, Len(s))
           t == a \o b
           At(j) == IF j < i THEN j ELSE j + 1
<1>1. a \in Seq(Clips) /\ Len(a) = i - 1 /\ \A j \in 1..(i - 1) : a[j] = s[j]
  OBVIOUS
<1>2. b \in Seq(Clips) /\ Len(b) = Len(s) - i /\ \A j \in 1..(Len(s) - i) : b[j] = s[i + j]
  OBVIOUS
<1> HIDE DEF a, b
<1>3. Len(s) \in Nat /\ DOMAIN s = 1..Len(s) /\ i \in Int
  OBVIOUS
<1>4. t \in Seq(Clips) /\ Len(t) = Len(s) - 1 /\ DOMAIN t = 1..Len(t)
  <2>a. a \in Seq(Clips) /\ b \in Seq(Clips)
    BY <1>1, <1>2
  <2>1. t \in Seq(Clips) /\ Len(t) = Len(a) + Len(b)
    BY <2>a
  <2> HIDE DEF t
  <2> QED BY <1>1, <1>2, <1>3, <2>1
<1>a. (\A j \in 1..(i - 1) : t[j] = a[j])
      /\ \A j \in i..(Len(s) - 1) : t[j] = b[j - (i - 1)]
  <2>1. Len(a) = i - 1 /\ Len(b) = Len(s) - i /\ Len(s) \in Nat /\ i \in Int /\ a \in Seq(Clips) /\ b \in Seq(Clips)
    BY <1>1, <1>2, <1>3
  <2> QED BY <2>1
<1>b. RemoveAt(s, i) = t
  BY DEF RemoveAt, t, a, b
<1> HIDE DEF t
<1>5. ASSUME NEW j \in 1..Len(t) PROVE t[j] = s[At(j)] /\ At(j) \in 1..Len(s) /\ At(j) # i
  <2>1. CASE j < i
    <3>1. j \in 1..(i - 1)
      BY <1>3, <1>4, <2>1
    <3>2. t[j] = a[j]
      BY <1>a, <3>1
    <3> QED BY <1>1, <1>3, <1>4, <2>1, <3>1, <3>2
  <2>2. CASE ~(j < i)
    <3>1. j - (i - 1) \in 1..(Len(s) - i) /\ i + (j - (i - 1)) = j + 1 /\ j \in Int
      BY <1>3, <1>4, <2>2
    <3>2. t[j] = b[j - (i - 1)]
      BY <1>3, <1>4, <1>a, <2>2
    <3>3. t[j] = s[j + 1]
      BY <1>2, <3>1, <3>2
    <3> QED BY <1>3, <1>4, <2>2, <3>1, <3>3
  <2> QED BY <2>1, <2>2
<1>7. \A j, k \in 1..Len(s) : s[j] = s[k] => j = k
  BY <1>3 DEF IsInjective
<1>8. IsInjective(t)
  <2> SUFFICES ASSUME NEW j \in 1..Len(t), NEW k \in 1..Len(t), t[j] = t[k] PROVE j = k
    BY <1>4 DEF IsInjective
  <2>1. At(j) = At(k)
    BY <1>5, <1>7
  <2> QED BY <1>3, <1>4, <2>1
<1>9. Range(t) = Range(s) \ {s[i]}
  <2>1. ASSUME NEW j \in 1..Len(t) PROVE t[j] \in Range(s) \ {s[i]}
    <3>1. t[j] = s[At(j)] /\ At(j) \in 1..Len(s) /\ At(j) # i
      BY <1>5
    <3> HIDE DEF At
    <3> QED BY <3>1, <1>3, <1>7 DEF Range
  <2>2. ASSUME NEW k \in 1..Len(s), s[k] # s[i] PROVE \E j \in 1..Len(t) : t[j] = s[k]
    <3>1. k < i \/ k > i
      BY <1>3, <2>2
    <3>2. CASE k < i
      <4>1. k \in 1..Len(t) /\ At(k) = k
        BY <1>3, <1>4, <3>2
      <4> QED BY <1>5, <4>1
    <3>3. CASE k > i
      <4>1. k - 1 \in 1..Len(t) /\ At(k - 1) = k
        BY <1>3, <1>4, <3>3
      <4> QED BY <1>5, <4>1
    <3> QED BY <3>1, <3>2, <3>3
  <2>3. s[i] \in Range(s) /\ \A x \in Range(s) : \E k \in 1..Len(s) : x = s[k]
    BY <1>3 DEF Range
  <2> HIDE DEF At
  <2>4. \A x \in Range(s) \ {s[i]} : x \in Range(t)
    BY <1>4, <2>2, <2>3 DEF Range
  <2>5. \A x \in Range(t) : x \in Range(s) \ {s[i]}
    BY <1>4, <2>1 DEF Range
  <2> QED BY <2>4, <2>5
<1>10. QED
  BY <1>4, <1>b, <1>8, <1>9

\* exchange() keeps the clips.
LEMMA SwappedIs ==
  ASSUME NEW s \in Seq(Clips), IsInjective(s), NEW i \in 1..Len(s), NEW j \in 1..Len(s), i # j
  PROVE  LET t == Swapped(s, i, j) IN
         t \in Seq(Clips) /\ IsInjective(t) /\ Range(t) = Range(s)
<1> DEFINE t == Swapped(s, i, j)
           At(k) == IF k = i THEN j ELSE IF k = j THEN i ELSE k
<1>1. s[i] \in Clips /\ s[j] \in Clips /\ DOMAIN s = 1..Len(s)
  OBVIOUS
<1>2. t \in Seq(Clips) /\ Len(t) = Len(s) /\ DOMAIN t = 1..Len(s)
  BY <1>1 DEF Swapped
<1>3. \A k \in 1..Len(s) : t[k] = s[At(k)] /\ At(k) \in 1..Len(s) /\ At(At(k)) = k
  BY <1>1 DEF Swapped
<1> HIDE DEF t
<1>4. \A k, l \in 1..Len(s) : s[k] = s[l] => k = l
  BY <1>1 DEF IsInjective
<1>5. IsInjective(t)
  <2> SUFFICES ASSUME NEW k \in 1..Len(s), NEW l \in 1..Len(s), t[k] = t[l] PROVE k = l
    BY <1>2 DEF IsInjective
  <2>1. At(k) = At(l)
    BY <1>3, <1>4
  <2> QED BY <2>1
<1>6. Range(t) = Range(s)
  <2> HIDE DEF At
  <2> QED BY <1>1, <1>2, <1>3 DEF Range
<1>7. QED
  BY <1>2, <1>5, <1>6 DEF t

\* match_tree_order() and refresh, with a clip inserted anywhere.
LEMMA InsertGood ==
  ASSUME NEW r, Good(r), r.images # <<>>, NEW m \in Clips \ Range(r.images), NEW i \in 1..(Len(r.images) + 1)
  PROVE  LET q == Refreshed(MatchTreeOrder([r EXCEPT !.position[m] = 1, !.local[m] = FirstFrame[m]],
                                           InsertAt(r.images, i, m))) IN
         Good(q) /\ (Near(r) => Near(q))
<1> DEFINE c == Fresh(r, m)
           s == InsertAt(r.images, i, m)
           q == MatchTreeOrder(c, s)
<1>1. r \in Reels /\ Whole(r) /\ r.images \in Seq(Clips) /\ IsInjective(r.images) /\ Len(r.images) \in Nat
  BY ImagesOf DEF Good, Whole
<1>2. Inserted(s, r.images, i, m)
  BY <1>1, InsertAtInserts
<1>3. IsInjective(s) /\ Range(s) = Range(r.images) \cup {m} /\ s \in Seq(Clips)
  <2> HIDE DEF s
  <2>1. s \in Seq(Clips)
    BY <1>2 DEF Inserted
  <2> QED BY <1>1, <1>2, <2>1, InsertedIs
<1>4. /\ c \in Reels /\ SameReel(c, r) /\ c.fg = r.fg
      /\ c.position = [r.position EXCEPT ![m] = 1]
  BY <1>1, FreshIs
<1>5. Near(r) => Fits(c.position, s)
  <2>1. r.position \in [Clips -> Frames]
    BY <1>1 DEF Reels
  <2>2. Near(r) => Fits(r.position, r.images)
    BY DEF Near
  <2> HIDE DEF c, s
  <2> QED BY <1>1, <1>2, <1>4, <2>1, <2>2, InsertedFits
<1>6. Refreshed(q) = Refreshed(MatchTreeOrder([r EXCEPT !.position[m] = 1, !.local[m] = FirstFrame[m]],
                                              InsertAt(r.images, i, m)))
  BY DEF Fresh
<1> HIDE DEF c, s
<1>7. c.fg \in Range(s)
  BY <1>1, <1>3, <1>4, ForegroundIs
<1>8. Good(q) /\ (Fits(c.position, s) => Near(q))
  BY <1>3, <1>4, <1>7, MatchTreeOrderIs
<1> HIDE DEF q
<1>9. Good(Refreshed(q)) /\ (Near(q) => Near(Refreshed(q)))
  BY <1>8, RefreshedNear
<1>10. QED
  BY <1>5, <1>6, <1>8, <1>9

\* match_tree_order() and a refresh, after a change that has left the clips as they were,
\* or has changed the clip of the view.
LEMMA OrderedAgain ==
  ASSUME NEW r, Whole(r)
  PROVE  LET q == Refreshed(MatchTreeOrder(r, r.images)) IN
         /\ Good(q) /\ q.images = r.images /\ q.edl = r.edl
         /\ Fits(r.position, r.images) => Near(q)
<1> DEFINE p == MatchTreeOrder(r, r.images)
<1>1. /\ Good(p) /\ p.images = r.images /\ p.edl = r.edl
      /\ Fits(r.position, r.images) => Near(p)
  BY MatchedGood
<1> HIDE DEF p
<1>2. /\ Good(Refreshed(p)) /\ Refreshed(p).images = p.images /\ Refreshed(p).edl = p.edl
      /\ Near(p) => Near(Refreshed(p))
  BY <1>1, RefreshedNear
<1>3. QED
  BY <1>1, <1>2 DEF p

\* remove(): the frame is sought before the clips are put in order, which they are at the end.
LEMMA RemovedGood ==
  ASSUME NEW r, Good(r), NEW i \in 1..Len(r.images)
  PROVE  Good(Removed(r, i))
<1> DEFINE images == RemoveAt(r.images, i)
           fg == IF images = <<>> THEN None ELSE images[Min({i, Len(images)})]
           q == [r EXCEPT !.images = images, !.fg = fg]
           f == IF fg = None THEN 1 ELSE LocalToGlobal(q, q.local[fg], fg)
           s == Sought(q, f)
<1>1. r \in Reels /\ r.images \in Seq(Clips) /\ IsInjective(r.images) /\ i \in Int /\ i >= 1
  BY ImagesOf DEF Good, Whole
<1>2. images \in Seq(Clips) /\ IsInjective(images)
  BY <1>1, RemovedFrom
<1>3. Removed(r, i) = Refreshed(MatchTreeOrder(s, s.images))
  BY DEF Removed
<1> HIDE DEF images
<1>4. fg \in (IF images = <<>> THEN {None} ELSE Range(images)) /\ fg \in Clips \cup {None}
  <2>1. CASE images = <<>>
    BY <2>1
  <2>2. CASE images # <<>>
    <3>1. Len(images) \in Nat /\ Len(images) >= 1 /\ DOMAIN images = 1..Len(images)
      BY <1>2, <2>2
    <3>2. Min({i, Len(images)}) \in 1..Len(images)
      BY <1>1, <3>1, MinOf
    <3>3. fg = images[Min({i, Len(images)})]
      BY <2>2
    <3> HIDE DEF fg
    <3>4. fg \in Range(images) /\ fg \in Clips
      BY <1>2, <3>1, <3>2, <3>3 DEF Range
    <3> QED BY <2>2, <3>4
  <2> QED BY <2>1, <2>2
<1> HIDE DEF fg
<1>5. Whole(q) /\ q.images = images /\ q.fg = fg
  BY <1>1, <1>2, <1>4 DEF Reels, Whole
<1> HIDE DEF q
<1>6. f \in Int
  <2>1. CASE fg = None
    BY <2>1
  <2>2. CASE fg # None
    <3>1. fg \in Range(q.images) /\ q \in Reels /\ fg \in Clips
      BY <1>4, <1>5, <2>2 DEF Whole
    <3>2. q.local[fg] \in Int
      BY <3>1 DEF Reels
    <3>3. LocalToGlobal(q, q.local[fg], fg) \in Int
      BY <3>1, <3>2, LocalToGlobalIs
    <3> QED BY <2>2, <3>3
  <2> QED BY <2>1, <2>2
<1> HIDE DEF f
<1>7. Whole(s)
  BY <1>5, <1>6, SoughtSeeks DEF Seeks
<1> HIDE DEF s
<1>8. QED
  BY <1>3, <1>7, OrderedAgain

\* exchange(), with the clip moved in the view.
LEMMA ExchangedGood ==
  ASSUME NEW r, Good(r), NEW i \in 1..Len(r.images), NEW j \in 1..Len(r.images), i # j
  PROVE  Good(Exchanged(r, i, j))
<1> DEFINE s == Swapped(r.images, i, j)
           c == [r EXCEPT !.fg = r.images[i]]
           p == MatchTreeOrder(c, s)
           q == Refreshed(p)
<1>1. r \in Reels /\ r.images \in Seq(Clips) /\ IsInjective(r.images) /\ r.images[i] \in Range(r.images)
      /\ r.images[i] \in Clips
  BY ImagesOf, IndexOfIn DEF Good, Whole
<1>2. s \in Seq(Clips) /\ IsInjective(s) /\ Range(s) = Range(r.images)
  BY <1>1, SwappedIs
<1>3. c \in Reels /\ c.fg = r.images[i]
  BY <1>1 DEF Reels
<1>4. Exchanged(r, i, j) = IF q.edl THEN [q EXCEPT !.frame = q.local[q.fg] + Location(q, q.fg) - 1] ELSE q
  BY DEF Exchanged
<1> HIDE DEF s, c
<1>5. Good(p) /\ p.images = s
  BY <1>1, <1>2, <1>3, MatchTreeOrderIs
<1> HIDE DEF p
<1>6. Good(q) /\ q.images = s
  BY <1>5, RefreshedNear
<1> HIDE DEF q
<1>7. q.local[q.fg] + Location(q, q.fg) - 1 \in Int
  <2>1. q \in Reels /\ q.fg \in Range(q.images) /\ q.fg \in Clips
    <3>1. q.images # <<>>
      <4>1. Range(q.images) # {}
        BY <1>1, <1>2, <1>6
      <4> QED BY <4>1 DEF Range
    <3> QED BY <1>6, <3>1, ForegroundIs DEF Good
  <2>2. q.local[q.fg] \in Int
    BY <2>1 DEF Reels
  <2>3. IndexOf(q, q.fg) \in 1..Len(q.images) /\ q.images \in Seq(Clips)
    BY <2>1, IndexOfIn, ImagesOf
  <2>4. Starts(q.images)[IndexOf(q, q.fg)] \in Frames
    BY <2>3, StartsAre
  <2>5. Location(q, q.fg) \in Int
    BY <2>4 DEF Location, Frames
  <2> QED BY <2>2, <2>5
<1>8. QED
  BY <1>4, <1>6, <1>7, FrameGood

\* A clip is picked in the window of the reel.
LEMMA PickedGood ==
  ASSUME NEW r, Good(r), NEW m \in Range(r.images)
  PROVE  Good(Picked(r, m)) /\ (Near(r) => Near(Picked(r, m)))
<1> DEFINE q == [r EXCEPT !.fg = m]
           f == LocalToGlobal(q, q.local[m], m)
           s == IF q.edl THEN Sought(q, f) ELSE q
<1>1. r \in Reels /\ m \in Clips /\ r.images # <<>>
  <2>1. r \in Reels /\ m \in Clips
    BY IndexOfIn DEF Good, Whole
  <2> QED BY <2>1 DEF Range
<1>2. Whole(q) /\ q.images = r.images /\ q.edl = r.edl /\ q.position = r.position /\ q \in Reels
  BY <1>1 DEF Whole, Reels
<1>3. Picked(r, m) = Refreshed(MatchTreeOrder(s, s.images))
  BY DEF Picked
<1> HIDE DEF q
<1>4. f \in Int
  <2>1. q.local[m] \in Int
    BY <1>1, <1>2 DEF Reels
  <2> QED BY <1>2, <2>1, LocalToGlobalIs
<1> HIDE DEF f
<1>5. Seeks(s, q)
  BY <1>2, <1>4, SoughtSeeks, SeeksItself
<1>6. Near(r) => Near(q)
  BY <1>2 DEF Near
<1> HIDE DEF s
<1>7. Whole(s) /\ (Near(r) => Fits(s.position, s.images))
  BY <1>5, <1>6 DEF Seeks, Near
<1>8. QED
  BY <1>3, <1>7, OrderedAgain

\* A clip is dragged to another place.
LEMMA DraggedGood ==
  ASSUME NEW r, Good(r), NEW i \in 1..Len(r.images), r.fg # None
  PROVE  Good(Dragged(r, i))
<1> DEFINE k == IndexOf(r, r.fg)
           t == RemoveAt(r.images, k)
           s == InsertAt(t, i, r.fg)
           q == MatchTreeOrder(r, s)
<1>1. r \in Reels /\ r.images \in Seq(Clips) /\ IsInjective(r.images) /\ Len(r.images) \in Nat
  BY ImagesOf DEF Good, Whole
<1>2. r.fg \in Range(r.images) /\ r.fg \in Clips
  <2>1. r.images # <<>>
    BY <1>1
  <2> QED BY <2>1, ForegroundIs DEF Good
<1>3. k \in 1..Len(r.images) /\ r.images[k] = r.fg
  BY <1>1, <1>2, IndexOfIn
<1>4. Dragged(r, i) = IF q.value = r.value THEN q ELSE Refreshed(q)
  BY DEF Dragged
<1> HIDE DEF k
<1>5. t \in Seq(Clips) /\ Len(t) = Len(r.images) - 1 /\ IsInjective(t) /\ Range(t) = Range(r.images) \ {r.fg}
  BY <1>1, <1>3, RemovedFrom
<1> HIDE DEF t
<1>6. i \in 1..(Len(t) + 1) /\ r.fg \notin Range(t)
  BY <1>1, <1>5
<1>7. Inserted(s, t, i, r.fg)
  BY <1>2, <1>5, <1>6, InsertAtInserts
<1> HIDE DEF s
<1>8. IsInjective(s) /\ Range(s) = Range(t) \cup {r.fg} /\ s \in Seq(Clips)
  <2>1. s \in Seq(Clips)
    BY <1>7 DEF Inserted
  <2> QED BY <1>2, <1>5, <1>6, <1>7, <2>1, InsertedIs
<1>9. Good(q)
  BY <1>1, <1>8, MatchTreeOrderIs
<1> HIDE DEF q
<1>10. QED
  BY <1>4, <1>9, RefreshedNear

\* next_image() and previous_image(): both the browser and the view are set, and the reel is
\* in order; in an edit list the view stays at its frame.
LEMMA TurnedGood ==
  ASSUME NEW r, Good(r), NEW i \in 1..Len(r.images)
  PROVE  LET q == Turned(r, i) IN
         /\ Good(q) /\ (Near(r) => Near(q)) /\ q.edl = r.edl /\ q.images = r.images
         /\ q.fg = r.images[i] /\ q.local = r.local /\ (r.edl => q.frame = r.frame /\ q.position = r.position)
         /\ FullView(q)
<1> DEFINE c == [r EXCEPT !.value = i, !.fg = r.images[i]]
<1>1. r \in Reels /\ r.images[i] \in Range(r.images) /\ r.images[i] \in Clips /\ i \in Nat /\ r.images # <<>>
  <2>1. r \in Reels /\ r.images[i] \in Range(r.images) /\ r.images[i] \in Clips
    BY IndexOfIn, ImagesOf DEF Good, Whole
  <2> QED BY <2>1, ImagesOf
<1>2. c \in Reels /\ c.images = r.images /\ c.value = i /\ c.fg = r.images[i] /\ c.edl = r.edl
      /\ c.position = r.position /\ c.frame = r.frame /\ c.timeline = r.timeline /\ c.local = r.local
  BY <1>1 DEF Reels
<1>3. Turned(r, i) = Refreshed(c)
  BY DEF Turned
<1> HIDE DEF c
<1>4. Whole(c) /\ Current(c)
  BY <1>1, <1>2, IndexOfIn DEF Whole, Current
<1>5. r.edl => Ordered(c)
  BY <1>1, <1>2 DEF Good, Settled, Ordered, End
<1>6. Near(r) => Fits(c.position, c.images)
  BY <1>2 DEF Near
<1>7. Good(Refreshed(c)) /\ Keeps(Refreshed(c), c)
  BY <1>4, RefreshedGood
<1>8. /\ FullView(Refreshed(c)) /\ (Near(r) => Near(Refreshed(c)))
      /\ r.edl => Refreshed(c).frame = c.frame /\ Refreshed(c).position = c.position
  BY <1>1, <1>2, <1>4, <1>5, <1>6, RefreshedIs
<1>9. QED
  BY <1>2, <1>3, <1>7, <1>8 DEF Keeps

\* A position and an end of a clip of the reel are frames.
LEMMA ClipAt ==
  ASSUME NEW r, Whole(r), r.fg # None
  PROVE  /\ r \in Reels /\ r.fg \in Clips /\ r.images # <<>>
         /\ r.position[r.fg] \in Int /\ End(r, r.fg) \in Int
         /\ FirstFrame[r.fg] \in Int /\ LastFrame[r.fg] \in Int
         /\ r.timeline.min \in Int /\ r.timeline.max \in Int /\ r.timeline.dmin \in Int /\ r.timeline.dmax \in Int
<1>1. r.images # <<>> /\ r \in Reels
  BY DEF Whole
<1>2. r.fg \in Clips /\ FirstFrame[r.fg] \in Frames /\ LastFrame[r.fg] \in Frames
  BY <1>1, ForegroundIs
<1>3. r.position[r.fg] \in Frames /\ End(r, r.fg) \in Frames
  BY <1>1, <1>2, EndIs
<1>4. r.timeline.min \in Frames /\ r.timeline.max \in Frames /\ r.timeline.dmin \in Frames /\ r.timeline.dmax \in Frames
  BY <1>1 DEF Reels, Timelines
<1>5. \A f \in Frames : f \in Int
  BY DEF Frames
<1> QED BY <1>1, <1>2, <1>3, <1>4, <1>5

\* seek() of a good reel.
LEMMA SoughtGood ==
  ASSUME NEW r, Good(r), NEW f \in Int
  PROVE  Good(Sought(r, f)) /\ (Near(r) => Near(Sought(r, f)))
<1>1. Seeks(Sought(r, f), r)
  BY SoughtSeeks DEF Good
<1>2. QED
  BY <1>1, GoodSeeks

\* next_image() and previous_image(), with the seek at their end.
LEMMA NeighbourGood ==
  ASSUME NEW r, Good(r), NEW i \in Int
  PROVE  Good(Neighbour(r, i)) /\ (Near(r) => Near(Neighbour(r, i)))
<1> DEFINE q == Turned(r, i)
<1>1. CASE i \notin DOMAIN r.images
  BY <1>1 DEF Neighbour
<1>2. CASE i \in DOMAIN r.images
  <2>1. i \in 1..Len(r.images) /\ r.images[i] \in Clips /\ r \in Reels
    BY <1>2, ImagesOf DEF Good, Whole
  <2>2. Good(q) /\ (Near(r) => Near(q)) /\ q.fg \in Clips
    BY <2>1, TurnedGood
  <2>3. Neighbour(r, i) = IF q.edl THEN Sought(q, q.position[q.fg]) ELSE q
    BY <1>2 DEF Neighbour
  <2> HIDE DEF q
  <2>4. q.fg # None
    BY <2>2, ReelAssumption
  <2>5. q.position[q.fg] \in Int
    BY <2>2, <2>4, ClipAt DEF Good
  <2> QED BY <2>2, <2>3, <2>5, SoughtGood
<1>3. QED
  BY <1>1, <1>2

\* New marks.
LEMMA MarksGood ==
  ASSUME NEW r, Good(r), NEW q \in Reels, Stays(q, r), Remarked(q.timeline, r.timeline)
  PROVE  Good(q) /\ (Near(r) => Near(q))
<1>1. Whole(q) /\ Current(q)
  BY IndexSame DEF Good, Whole, Current, Stays, Keeps
<1>2. Settled(q)
  BY DEF Good, Settled, Ordered, End, Stays, Keeps, Remarked
<1>3. QED
  BY <1>1, <1>2 DEF Good, Near, Stays, Keeps

\* next_image_limited() and previous_image_limited().
LEMMA LimitedGood ==
  ASSUME NEW r, Good(r), NEW i \in Int
  PROVE  Good(Limited(r, i)) /\ (Near(r) => Near(Limited(r, i)))
<1> DEFINE q == Turned(r, i)
           p == DisplayMinimum(q, q.position[q.fg])
           s == DisplayMaximum(p, End(q, q.fg))
<1>1. CASE i \notin DOMAIN r.images
  BY <1>1 DEF Limited
<1>2. CASE i \in DOMAIN r.images
  <2>1. i \in 1..Len(r.images) /\ r.images[i] \in Clips /\ r \in Reels
    BY <1>2, ImagesOf DEF Good, Whole
  <2>2. Good(q) /\ (Near(r) => Near(q)) /\ q.fg \in Clips
    BY <2>1, TurnedGood
  <2>3. Limited(r, i) = IF q.edl THEN Sought(s, q.position[q.fg]) ELSE Sought(q, FirstFrame[q.fg])
    BY <1>2 DEF Limited
  <2> HIDE DEF q
  <2>4. q.fg # None
    BY <2>2, ReelAssumption
  <2>5. q.position[q.fg] \in Int /\ End(q, q.fg) \in Int /\ FirstFrame[q.fg] \in Int /\ q \in Reels
    BY <2>2, <2>4, ClipAt DEF Good
  <2>6. p \in Reels /\ Stays(p, q) /\ Remarked(p.timeline, q.timeline)
    BY <2>5, DisplayMinimumIs
  <2> HIDE DEF p
  <2>7. Good(p) /\ (Near(q) => Near(p))
    BY <2>2, <2>6, MarksGood
  <2>8. s \in Reels /\ Stays(s, p) /\ Remarked(s.timeline, p.timeline)
    BY <2>5, <2>6, DisplayMaximumIs
  <2> HIDE DEF s
  <2>9. Good(s) /\ (Near(p) => Near(s))
    BY <2>7, <2>8, MarksGood
  <2> QED BY <2>2, <2>3, <2>5, <2>7, <2>9, SoughtGood
<1>3. QED
  BY <1>1, <1>2

\* The frames a step, and the ends of the clip and of the timeline, lead to.
LEMMA SteppedIs ==
  ASSUME NEW r \in Reels, NEW n \in Int, NEW loop
  PROVE  Stepped(r, n, loop) \in Int
<1>1. r.frame \in Int /\ r.timeline.dmin \in Frames /\ r.timeline.dmax \in Frames
  BY DEF Reels, Timelines
<1>2. r.timeline.dmin \in Int /\ r.timeline.dmax \in Int
  BY <1>1 DEF Frames
<1>3. QED
  BY <1>1, <1>2 DEF Stepped

\* first_frame() and last_frame() compare frames with marks.
LEMMA Ends ==
  ASSUME NEW a \in Int, NEW b \in Int
  PROVE  Max({a, b}) \in Int /\ Min({a, b}) \in Int
BY MaxOf, MinOf

\* Seeking a frame after the frame of the view has been set.
LEMMA SetAndSought ==
  ASSUME NEW r, Good(r), NEW f \in Int, NEW g \in Int, NEW edl
  PROVE  LET q == Sought(IF edl THEN [r EXCEPT !.frame = f] ELSE r, g) IN
         Good(q) /\ (Near(r) => Near(q))
<1> DEFINE p == IF edl THEN [r EXCEPT !.frame = f] ELSE r
<1>1. Good(p) /\ (Near(r) => Near(p))
  BY FrameGood
<1> HIDE DEF p
<1>2. Good(Sought(p, g)) /\ (Near(p) => Near(Sought(p, g)))
  BY <1>1, SoughtGood
<1>3. QED
  BY <1>1, <1>2 DEF p

\* set_edl().
LEMMA SetEdlGood ==
  ASSUME NEW r, Good(r), ~r.edl
  PROVE  LET q == Refreshed(MatchTreeOrder([r EXCEPT !.edl = TRUE], r.images))
             s == IF q.fg = None THEN q ELSE [q EXCEPT !.frame = LocalToGlobal(q, q.local[q.fg], q.fg)] IN
         Good(s) /\ (Near(r) => Near(s))
<1> DEFINE c == [r EXCEPT !.edl = TRUE]
           q == Refreshed(MatchTreeOrder(c, c.images))
           f == LocalToGlobal(q, q.local[q.fg], q.fg)
<1>1. Whole(c) /\ c.images = r.images /\ c.position = r.position
  BY DEF Good, Whole, Reels
<1>2. q = Refreshed(MatchTreeOrder([r EXCEPT !.edl = TRUE], r.images))
  BY <1>1
<1> HIDE DEF c
<1>3. Good(q) /\ (Near(r) => Near(q))
  BY <1>1, OrderedAgain DEF Near
<1> HIDE DEF q
<1>4. CASE q.fg = None
  BY <1>2, <1>3, <1>4
<1>5. CASE q.fg # None
  <2>1. q.fg \in Clips /\ q.fg \in Range(q.images) /\ q \in Reels
    BY <1>3, <1>5, ClipAt, ForegroundIs DEF Good
  <2>2. q.local[q.fg] \in Int
    BY <2>1 DEF Reels
  <2>3. f \in Int
    BY <2>1, <2>2, LocalToGlobalIs
  <2> HIDE DEF f
  <2>4. Good([q EXCEPT !.frame = f]) /\ (Near(q) => Near([q EXCEPT !.frame = f]))
    BY <1>3, <2>3, FrameGood
  <2>5. /\ Good([q EXCEPT !.frame = LocalToGlobal(q, q.local[q.fg], q.fg)])
        /\ Near(q) => Near([q EXCEPT !.frame = LocalToGlobal(q, q.local[q.fg], q.fg)])
    BY <2>4 DEF f
  <2> QED BY <1>2, <1>3, <1>5, <2>5
<1>6. QED
  BY <1>4, <1>5

\* clear_edl().
LEMMA ClearEdlGood ==
  ASSUME NEW r, Good(r), r.edl
  PROVE  LET q == [r EXCEPT !.edl = FALSE]
             s == IF q.fg = None THEN q ELSE Refreshed([q EXCEPT !.frame = q.local[q.fg]]) IN
         Good(s) /\ (Near(r) => Near(s))
<1> DEFINE q == [r EXCEPT !.edl = FALSE]
<1>1. Whole(q) /\ q.images = r.images /\ q.position = r.position /\ ~q.edl /\ q.fg = r.fg /\ q.value = r.value
  BY DEF Good, Whole, Reels
<1>2. Good(q) /\ (Near(r) => Near(q))
  <2> HIDE DEF q
  <2> QED BY <1>1, IndexSame DEF Good, Current, Settled, Near
<1> HIDE DEF q
<1>3. CASE q.fg = None
  BY <1>2, <1>3 DEF q
<1>4. CASE q.fg # None
  <2> DEFINE f == q.local[q.fg]
             p == [q EXCEPT !.frame = f]
  <2>1. q.fg \in Clips /\ q \in Reels
    BY <1>2, <1>4, ClipAt DEF Good
  <2>2. f \in Int
    BY <2>1 DEF Reels
  <2> HIDE DEF f
  <2>3. Good(p) /\ (Near(q) => Near(p))
    BY <1>2, <2>2, FrameGood
  <2> HIDE DEF p
  <2>4. Good(Refreshed(p)) /\ (Near(p) => Near(Refreshed(p)))
    BY <2>3, RefreshedNear
  <2> QED BY <1>2, <1>4, <2>3, <2>4 DEF q, p, f
<1>5. QED
  BY <1>3, <1>4

\* The S and E buttons.
LEMMA ButtonGood ==
  ASSUME NEW r, Good(r), NEW b \in BOOLEAN
  PROVE  /\ Good([r EXCEPT !.start = b]) /\ (Near(r) => Near([r EXCEPT !.start = b]))
         /\ Good([r EXCEPT !.end = b]) /\ (Near(r) => Near([r EXCEPT !.end = b]))
<1>1. ASSUME NEW q \in Reels, q.images = r.images, q.position = r.position, q.edl = r.edl, q.fg = r.fg,
             q.value = r.value, q.timeline = r.timeline
      PROVE  Good(q) /\ (Near(r) => Near(q))
  <2>1. Whole(q) /\ Current(q)
    BY <1>1, IndexSame DEF Good, Whole, Current
  <2>2. Settled(q)
    BY <1>1 DEF Good, Settled, Ordered, End
  <2> QED BY <1>1, <2>1, <2>2 DEF Good, Near
<1>2. r \in Reels
  BY DEF Good, Whole
<1> DEFINE q == [r EXCEPT !.start = b]
           p == [r EXCEPT !.end = b]
<1>3. q \in Reels /\ q.images = r.images /\ q.position = r.position /\ q.edl = r.edl /\ q.fg = r.fg
      /\ q.value = r.value /\ q.timeline = r.timeline
  BY <1>2 DEF Reels
<1>4. p \in Reels /\ p.images = r.images /\ p.position = r.position /\ p.edl = r.edl /\ p.fg = r.fg
      /\ p.value = r.value /\ p.timeline = r.timeline
  BY <1>2 DEF Reels
<1> HIDE DEF q, p
<1>5. Good(q) /\ (Near(r) => Near(q)) /\ Good(p) /\ (Near(r) => Near(p))
  BY <1>1, <1>3, <1>4
<1>6. QED
  BY <1>5 DEF q, p

\* A mark is made, or taken back.
LEMMA MarkedGood ==
  ASSUME NEW r, Good(r)
  PROVE  LET s == [IF r.start THEN UndoDisplayMinimum(r) ELSE DisplayMinimum(r, r.frame) EXCEPT !.start = ~r.start]
             e == [IF r.end THEN UndoDisplayMaximum(r) ELSE DisplayMaximum(r, r.frame) EXCEPT !.end = ~r.end] IN
         /\ Good(s) /\ (Near(r) => Near(s))
         /\ Good(e) /\ (Near(r) => Near(e))
<1> DEFINE p == IF r.start THEN UndoDisplayMinimum(r) ELSE DisplayMinimum(r, r.frame)
           q == IF r.end THEN UndoDisplayMaximum(r) ELSE DisplayMaximum(r, r.frame)
<1>1. r \in Reels /\ r.frame \in Int
  BY DEF Good, Whole, Reels
<1>2. p \in Reels /\ Stays(p, r) /\ Remarked(p.timeline, r.timeline)
  BY <1>1, UndoIs, DisplayMinimumIs
<1>3. q \in Reels /\ Stays(q, r) /\ Remarked(q.timeline, r.timeline)
  BY <1>1, UndoIs, DisplayMaximumIs
<1> HIDE DEF p, q
<1>4. Good(p) /\ Good(q) /\ (Near(r) => Near(p) /\ Near(q))
  BY <1>2, <1>3, MarksGood
<1>5. (~r.start) \in BOOLEAN /\ (~r.end) \in BOOLEAN
  OBVIOUS
<1>6. /\ Good([p EXCEPT !.start = ~r.start]) /\ (Near(p) => Near([p EXCEPT !.start = ~r.start]))
      /\ Good([q EXCEPT !.end = ~r.end]) /\ (Near(q) => Near([q EXCEPT !.end = ~r.end]))
  BY <1>4, <1>5, ButtonGood
<1>7. QED
  BY <1>4, <1>6, Zenon DEF p, q

\* A clip has been played.
LEMMA PlayedGood ==
  ASSUME NEW r, Good(r), r.fg # None, NEW f \in Int
  PROVE  LET q == [r EXCEPT !.local[r.fg] = f, !.frame = LocalToGlobal(r, f, r.fg)] IN
         Good(q) /\ (Near(r) => Near(q))
<1> DEFINE l == [r.local EXCEPT ![r.fg] = f]
           c == [r EXCEPT !.local = l]
           g == LocalToGlobal(r, f, r.fg)
           q == [r EXCEPT !.local[r.fg] = f, !.frame = LocalToGlobal(r, f, r.fg)]
<1>1. r \in Reels /\ r.fg \in Clips /\ r.fg \in Range(r.images)
  BY ClipAt, ForegroundIs DEF Good
<1>2. l \in [Clips -> Int] /\ g \in Int
  <2>1. r.local \in [Clips -> Int]
    BY <1>1 DEF Reels
  <2> QED BY <1>1, <2>1, LocalToGlobalIs
<1>3. q = [r EXCEPT !.local = l, !.frame = g]
  BY <1>1 DEF Reels
<1> HIDE DEF q, l, g
<1>4. q \in Reels /\ q.images = r.images /\ q.position = r.position /\ q.edl = r.edl /\ q.fg = r.fg
      /\ q.value = r.value /\ q.timeline = r.timeline
  BY <1>1, <1>2, <1>3 DEF Reels
<1>5. Good(q) /\ (Near(r) => Near(q))
  <2>1. Whole(q) /\ Current(q)
    BY <1>4, IndexSame DEF Good, Whole, Current
  <2>2. Settled(q)
    BY <1>4 DEF Good, Settled, Ordered, End
  <2> QED BY <1>4, <2>1, <2>2 DEF Good, Near
<1>6. QED
  BY <1>5 DEF q

\* A command that makes q of the reel.
LEMMA Given ==
  ASSUME IInv, NEW q, Gives(q), Good(q), UNCHANGED edited, Near(reel) => Near(q)
  PROVE  IInv'
<1>1. reel' = q /\ left > 0 /\ left' = left - 1
  BY DEF Gives
<1>2. left' \in 0..Commands
  <2>1. left \in 0..Commands /\ Commands \in Nat
    BY ReelAssumption, Zenon DEF IInv
  <2> QED BY <1>1, <2>1
<1>3. edited' \in BOOLEAN
  BY DEF IInv
<1>4. Good(reel') /\ (~edited' => Near(reel'))
  BY <1>1 DEF IInv
<1>5. QED
  BY <1>2, <1>3, <1>4, Zenon DEF IInv

\* A command that takes clips out, or moves them.
LEMMA GivenEdited ==
  ASSUME IInv, NEW q, Gives(q), Good(q), edited' = TRUE
  PROVE  IInv'
<1>1. reel' = q /\ left > 0 /\ left' = left - 1
  BY DEF Gives
<1>2. left' \in 0..Commands
  <2>1. left \in 0..Commands /\ Commands \in Nat
    BY ReelAssumption, Zenon DEF IInv
  <2> QED BY <1>1, <2>1
<1>3. edited' \in BOOLEAN /\ Good(reel') /\ (~edited' => Near(reel'))
  BY <1>1
<1>4. QED
  BY <1>2, <1>3, Zenon DEF IInv

\* Every command keeps the invariant.
LEMMA NextIInv ==
  ASSUME IInv, Next
  PROVE  IInv'
<1> DEFINE r == reel
<1>1. Good(r) /\ r \in Reels /\ r.images \in Seq(Clips) /\ DOMAIN r.images = 1..Len(r.images)
      /\ Len(r.images) \in Nat /\ r.value \in Int
  BY ImagesOf DEF IInv, Good, Whole, Reels
<1>2. r.timeline.min \in Int /\ r.timeline.max \in Int /\ r.timeline.dmin \in Int /\ r.timeline.dmax \in Int
  <2>1. \A f \in Frames : f \in Int
    BY DEF Frames
  <2> QED BY <1>1, <2>1 DEF Reels, Timelines
<1> HIDE DEF r
<1> USE <1>1 DEF r
<1>3. CASE Load
  <2>1. PICK m \in Clips \ Range(r.images) : Gives(Loaded(r, <<m>>)) /\ UNCHANGED edited
    BY <1>3 DEF Load, Shown
  <2>2. <<m>> \in Seq(Clips) /\ IsInjective(<<m>>) /\ \A j \in 1..Len(<<m>>) : <<m>>[j] \notin Range(r.images)
    BY <2>1 DEF IsInjective
  <2>3. Good(Loaded(r, <<m>>)) /\ (Near(r) => Near(Loaded(r, <<m>>)))
    BY <2>2, LoadedGood
  <2> QED BY <2>1, <2>3, Given
<1>4. CASE Insert
  <2>1. PICK m \in Clips \ Range(r.images), i \in 1..(Len(r.images) + 1) :
          /\ r.images # <<>>
          /\ Gives(Refreshed(MatchTreeOrder([r EXCEPT !.position[m] = 1, !.local[m] = FirstFrame[m]],
                                            InsertAt(r.images, i, m))))
          /\ UNCHANGED edited
    BY <1>4, Zenon DEF Insert, Shown
  <2> DEFINE q == Refreshed(MatchTreeOrder([r EXCEPT !.position[m] = 1, !.local[m] = FirstFrame[m]],
                                           InsertAt(r.images, i, m)))
  <2>2. Good(q) /\ (Near(r) => Near(q))
    BY <2>1, InsertGood
  <2>3. Gives(q) /\ UNCHANGED edited
    BY <2>1
  <2> HIDE DEF q
  <2> QED BY <2>2, <2>3, Given
<1>5. CASE Take_out
  <2>1. PICK i \in 1..Len(r.images) : Gives(Removed(r, i)) /\ edited' = TRUE
    BY <1>5 DEF Take_out
  <2> QED BY <2>1, RemovedGood, GivenEdited
<1>6. CASE Exchange
  <2>1. PICK i \in 1..Len(r.images), j \in 1..Len(r.images) :
          i # j /\ Gives(Exchanged(r, i, j)) /\ edited' = TRUE
    BY <1>6 DEF Exchange
  <2> QED BY <2>1, ExchangedGood, GivenEdited
<1>7. CASE Pick
  <2>1. PICK m \in Range(r.images) : Gives(Picked(r, m)) /\ UNCHANGED edited
    BY <1>7 DEF Pick, Shown
  <2> QED BY <2>1, PickedGood, Given
<1>8. CASE Drag
  <2>1. PICK i \in 1..Len(r.images) : r.fg # None /\ Gives(Dragged(r, i)) /\ edited' = TRUE
    BY <1>8 DEF Drag
  <2> QED BY <2>1, DraggedGood, GivenEdited
<1>9. CASE Change
  <2>1. PICK i \in 1..Len(r.images) : Gives(ChangeImage(r, i)) /\ UNCHANGED edited
    BY <1>9 DEF Change
  <2>2. Good(ChangeImage(r, i)) /\ (Near(r) => Near(ChangeImage(r, i)))
    BY ChangeImageSeeks, GoodSeeks DEF Good
  <2> QED BY <2>1, <2>2, Given
<1>10. CASE Next_image
  <2>1. Good(Neighbour(r, r.value + 1)) /\ (Near(r) => Near(Neighbour(r, r.value + 1)))
    BY NeighbourGood
  <2> QED BY <1>10, <2>1, Given DEF Next_image
<1>11. CASE Previous_image
  <2>1. Good(Neighbour(r, r.value - 1)) /\ (Near(r) => Near(Neighbour(r, r.value - 1)))
    BY NeighbourGood
  <2> QED BY <1>11, <2>1, Given DEF Previous_image
<1>12. CASE Next_limited
  <2>1. Good(Limited(r, r.value + 1)) /\ (Near(r) => Near(Limited(r, r.value + 1)))
    BY LimitedGood
  <2> QED BY <1>12, <2>1, Given DEF Next_limited
<1>13. CASE Previous_limited
  <2>1. Good(Limited(r, r.value - 1)) /\ (Near(r) => Near(Limited(r, r.value - 1)))
    BY LimitedGood
  <2> QED BY <1>13, <2>1, Given DEF Previous_limited
<1>14. CASE Step
  <2>1. PICK n \in Strides \cup {-n : n \in Strides}, loop \in BOOLEAN :
          Gives(Sought(r, Stepped(r, n, loop))) /\ UNCHANGED edited
    BY <1>14 DEF Step
  <2>2. n \in Int
    BY ReelAssumption
  <2>3. Stepped(r, n, loop) \in Int
    BY <2>2, SteppedIs
  <2>4. Good(Sought(r, Stepped(r, n, loop))) /\ (Near(r) => Near(Sought(r, Stepped(r, n, loop))))
    BY <2>3, SoughtGood
  <2> QED BY <2>1, <2>4, Given
<1>15. CASE Go_first
  <2> DEFINE f == IF r.edl THEN r.position[r.fg] ELSE FirstFrame[r.fg]
             g == Max({f, r.timeline.dmin})
             n == Neighbour(r, r.value - 1)
             q == Sought(IF r.edl THEN [r EXCEPT !.frame = f] ELSE r, g)
  <2>1. r.fg # None /\ UNCHANGED edited /\ (Gives(n) \/ Gives(q))
    BY <1>15 DEF Go_first
  <2>2. f \in Int
    BY <2>1, ClipAt DEF Good
  <2>3. g \in Int
    BY <1>2, <2>2, Ends
  <2>4. Good(n) /\ (Near(r) => Near(n))
    BY NeighbourGood
  <2> HIDE DEF f, g
  <2>5. Good(q) /\ (Near(r) => Near(q))
    BY <2>2, <2>3, SetAndSought
  <2> HIDE DEF n, q
  <2> QED BY <2>1, <2>4, <2>5, Given
<1>16. CASE Go_last
  <2> DEFINE f == IF r.edl THEN End(r, r.fg) ELSE LastFrame[r.fg]
             g == Min({f, r.timeline.dmax})
             n == Neighbour(r, r.value + 1)
             q == Sought(IF r.edl THEN [r EXCEPT !.frame = f] ELSE r, g)
  <2>1. r.fg # None /\ UNCHANGED edited /\ (Gives(n) \/ Gives(q))
    BY <1>16 DEF Go_last
  <2>2. f \in Int
    BY <2>1, ClipAt DEF Good
  <2>3. g \in Int
    BY <1>2, <2>2, Ends
  <2>4. Good(n) /\ (Near(r) => Near(n))
    BY NeighbourGood
  <2> HIDE DEF f, g
  <2>5. Good(q) /\ (Near(r) => Near(q))
    BY <2>2, <2>3, SetAndSought
  <2> HIDE DEF n, q
  <2> QED BY <2>1, <2>4, <2>5, Given
<1>17. CASE First_timeline
  <2>1. Good(Sought(r, r.timeline.min)) /\ (Near(r) => Near(Sought(r, r.timeline.min)))
    BY <1>2, SoughtGood
  <2> QED BY <1>17, <2>1, Given DEF First_timeline
<1>18. CASE Last_timeline
  <2>1. Good(Sought(r, r.timeline.max)) /\ (Near(r) => Near(Sought(r, r.timeline.max)))
    BY <1>2, SoughtGood
  <2> QED BY <1>18, <2>1, Given DEF Last_timeline
<1>19. CASE Seek
  <2>1. PICK f \in (r.timeline.min..r.timeline.max) \cup (r.timeline.max..r.timeline.min) : Gives(Sought(r, f)) /\ UNCHANGED edited
    BY <1>19 DEF Seek
  <2>2. f \in Int
    BY <1>2
  <2>3. Good(Sought(r, f)) /\ (Near(r) => Near(Sought(r, f)))
    BY <2>2, SoughtGood
  <2> QED BY <2>1, <2>3, Given
<1>20. CASE Set_edl
  <2> DEFINE q == Refreshed(MatchTreeOrder([r EXCEPT !.edl = TRUE], r.images))
             s == IF q.fg = None THEN q ELSE [q EXCEPT !.frame = LocalToGlobal(q, q.local[q.fg], q.fg)]
  <2>1. ~r.edl /\ Gives(s) /\ UNCHANGED edited
    BY <1>20 DEF Set_edl
  <2>2. Good(s) /\ (Near(r) => Near(s))
    BY <2>1, SetEdlGood
  <2> HIDE DEF s
  <2> QED BY <2>1, <2>2, Given
<1>21. CASE Clear_edl
  <2> DEFINE q == [r EXCEPT !.edl = FALSE]
             s == IF q.fg = None THEN q ELSE Refreshed([q EXCEPT !.frame = q.local[q.fg]])
  <2>1. r.edl /\ Gives(s) /\ UNCHANGED edited
    BY <1>21 DEF Clear_edl
  <2>2. Good(s) /\ (Near(r) => Near(s))
    BY <2>1, ClearEdlGood
  <2> HIDE DEF s
  <2> QED BY <2>1, <2>2, Given
<1>22. CASE Mark_start
  <2> DEFINE s == [IF r.start THEN UndoDisplayMinimum(r) ELSE DisplayMinimum(r, r.frame) EXCEPT !.start = ~r.start]
  <2>1. Gives(s) /\ UNCHANGED edited
    BY <1>22, Zenon DEF Mark_start
  <2>2. Good(s) /\ (Near(r) => Near(s))
    BY MarkedGood
  <2> HIDE DEF s
  <2> QED BY <2>1, <2>2, Given
<1>23. CASE Mark_end
  <2> DEFINE s == [IF r.end THEN UndoDisplayMaximum(r) ELSE DisplayMaximum(r, r.frame) EXCEPT !.end = ~r.end]
  <2>1. Gives(s) /\ UNCHANGED edited
    BY <1>23, Zenon DEF Mark_end
  <2>2. Good(s) /\ (Near(r) => Near(s))
    BY MarkedGood
  <2> HIDE DEF s
  <2> QED BY <2>1, <2>2, Given
<1>24. CASE Played
  <2>1. PICK f \in FirstFrame[r.fg]..LastFrame[r.fg] :
          Gives([r EXCEPT !.local[r.fg] = f, !.frame = LocalToGlobal(r, f, r.fg)])
    BY <1>24, Zenon DEF Played
  <2>2. r.fg # None /\ UNCHANGED edited
    BY <1>24 DEF Played
  <2>3. f \in Int
    BY <2>2, ClipAt DEF Good
  <2> DEFINE s == [r EXCEPT !.local[r.fg] = f, !.frame = LocalToGlobal(r, f, r.fg)]
  <2>4. Good(s) /\ (Near(r) => Near(s))
    BY <2>2, <2>3, PlayedGood
  <2> HIDE DEF s
  <2> QED BY <2>1, <2>2, <2>4, Given DEF s
<1>25. QED
  BY <1>3, <1>4, <1>5, <1>6, <1>7, <1>8, <1>9, <1>10, <1>11, <1>12, <1>13, <1>14, <1>15, <1>16, <1>17,
     <1>18, <1>19, <1>20, <1>21, <1>22, <1>23, <1>24, Zenon DEF Next

\* The invariant holds in every state, for any clips, files and strides, and any number of
\* commands.
THEOREM Invariance == Spec => []IInv
<1>1. Init => IInv
  BY InitIInv
<1>2. IInv /\ [Next]_vars => IInv'
  <2> SUFFICES ASSUME IInv, [Next]_vars PROVE IInv'
    OBVIOUS
  <2>1. CASE Next
    BY <2>1, NextIInv
  <2>2. CASE UNCHANGED vars
    BY <2>2, Zenon DEF IInv, vars
  <2> QED BY <2>1, <2>2
<1>3. QED
  BY <1>1, <1>2, PTL DEF Spec

\* The state is what TypeOK says: the images are clips of the reel, none of them twice, the view
\* is at one of them if there is one, and every position and mark is a frame (mrvReel, Timeline).
THEOREM TypeIsCorrect == Spec => []TypeOK
<1>1. IInv => TypeOK
  BY Zenon DEF IInv, TypeOK, Good, Whole
<1>2. QED
  BY <1>1, Invariance, PTL

\* The clips of an edit list never overlap, the first is at frame 1, and the timeline is that of
\* the reel, or goes from mark to mark if the preference for the selection says so, after any
\* sequence of commands (adjust_timeline(), set_timeline(), display_minimum() and their kind).
THEOREM ClipsAreInOrder == Spec => []InOrder
<1>1. IInv => InOrder
  BY LastImage DEF IInv, Good, Whole, Settled, Ordered, InOrder
<1>2. QED
  BY <1>1, Invariance, PTL

\* The browser and the view, each with a current clip of its own, always agree on it
\* (ImageBrowser::value() and ImageView::foreground()).
THEOREM ViewShowsItsClip == Spec => []ForegroundIsCurrent
<1>1. IInv => ForegroundIsCurrent
  BY DEF IInv, Good, Current, ForegroundIsCurrent
<1>2. QED
  BY <1>1, Invariance, PTL

\* In order means that no two clips overlap, neighbours or not.
LEMMA Apart ==
  ASSUME NEW r \in Reels, Ordered(r)
  PROVE  \A j \in 1..Len(r.images) : \A i \in 1..(j - 1) :
           End(r, r.images[i]) < r.position[r.images[j]]
<1> DEFINE n == Len(r.images)
           p(j) == r.position[r.images[j]]
           e(j) == End(r, r.images[j])
           S == {j \in 1..n : \A i \in 1..(j - 1) : e(i) < p(j)}
<1>1. n \in Nat /\ n \in Int /\ 1 \in Int
  BY ImagesOf
<1>2. \A j \in 1..n : p(j) \in Int /\ e(j) \in Int /\ p(j) <= e(j)
  <2> TAKE j \in 1..n
  <2>1. r.images[j] \in Clips
    BY ImagesOf
  <2> QED BY <2>1, EndIs DEF Frames
<1>3. \A j \in 2..n : e(j - 1) < p(j)
  BY DEF Ordered
<1> HIDE DEF p, e, n
<1>4. 1 <= n => 1 \in S
  BY <1>1
<1>5. ASSUME NEW k \in 2..n, k - 1 \in S PROVE k \in S
  <2> SUFFICES ASSUME NEW i \in 1..(k - 1) PROVE e(i) < p(k)
    BY <1>1
  <2>1. e(k - 1) < p(k) /\ k - 1 \in 1..n /\ k \in 1..n /\ i \in 1..n
    BY <1>1, <1>3
  <2>2. CASE i = k - 1
    BY <2>1, <2>2
  <2>3. CASE i # k - 1
    <3>1. i \in 1..((k - 1) - 1)
      BY <1>1, <2>1, <2>3
    <3>2. e(i) < p(k - 1)
      BY <1>5, <3>1
    <3> QED BY <1>2, <2>1, <3>2
  <2> QED BY <2>2, <2>3
<1>6. \A j \in 1..n : j \in S
  <2> HIDE DEF S
  <2>1. \A k \in (1 + 1)..n : k - 1 \in S => k \in S
    BY <1>5
  <2> QED BY <1>1, <1>4, <2>1, IntervalInduction
<1>7. QED
  BY <1>6 DEF p, e, n

\* A frame is of one clip.
LEMMA OneClipAt ==
  ASSUME NEW r \in Reels, Ordered(r), NEW i \in 1..Len(r.images), NEW f \in Int,
         f \in r.position[r.images[i]]..End(r, r.images[i])
  PROVE  /\ IndexAt(r, f) = i /\ MediaAt(r, f) = r.images[i]
         /\ r.edl => GlobalToLocal(r, f) = f - r.position[r.images[i]] + FirstFrame[r.images[i]]
<1> DEFINE n == Len(r.images)
           p(j) == r.position[r.images[j]]
           e(j) == End(r, r.images[j])
           at == {j \in DOMAIN r.images : f \in p(j)..e(j)}
<1>1. n \in Nat /\ DOMAIN r.images = 1..n /\ r.images # <<>> /\ n \in 1..n /\ 1 \in 1..n
  BY ImagesOf
<1>2. \A j \in 1..n : p(j) \in Int /\ e(j) \in Int /\ p(j) <= e(j) /\ p(j) >= 1
  <2> TAKE j \in 1..n
  <2>1. r.images[j] \in Clips
    BY ImagesOf
  <2> QED BY <2>1, EndIs DEF Frames
<1>3. \A j \in 1..n : \A k \in 1..(j - 1) : e(k) < p(j)
  BY Apart
<1>4. p(1) = 1
  BY <1>1 DEF Ordered
<1>5. Head(r.images) = r.images[1] /\ Last(r.images) = r.images[n]
  BY <1>1, LastImage
<1>6. IndexAt(r, f) = IF r.images = <<>> \/ at = {} THEN 0
                      ELSE IF f \notin r.position[Head(r.images)]..End(r, Last(r.images)) THEN 0
                      ELSE Min(at)
  BY DEF IndexAt
<1>7. r.edl => GlobalToLocal(r, f) = IF at = {} THEN 0
                                     ELSE f - r.position[r.images[Min(at)]] + FirstFrame[r.images[Min(at)]]
  BY DEF GlobalToLocal
<1>8. r.position[Head(r.images)] = p(1) /\ End(r, Last(r.images)) = e(n) /\ f \in p(i)..e(i)
  BY <1>5
<1>a. i \in 1..n
  OBVIOUS
<1> HIDE DEF p, e, n
<1>9. at = {i}
  <2>1. ASSUME NEW j \in 1..n, f \in p(j)..e(j) PROVE j = i
    <3>1. CASE j < i
      <4>1. j \in 1..(i - 1)
        BY <1>1, <1>a, <3>1
      <4>2. e(j) < p(i)
        BY <1>3, <1>a, <4>1
      <4> QED BY <1>2, <1>8, <1>a, <2>1, <4>2
    <3>2. CASE i < j
      <4>1. i \in 1..(j - 1)
        BY <1>1, <1>a, <3>2
      <4>2. e(i) < p(j)
        BY <1>3, <4>1
      <4> QED BY <1>2, <1>8, <1>a, <2>1, <4>2
    <3> QED BY <1>1, <1>a, <3>1, <3>2
  <2> QED BY <1>1, <1>8, <1>a, <2>1
<1> HIDE DEF at
<1>10. Min(at) = i
  <2>1. at \subseteq Nat /\ at # {}
    BY <1>1, <1>9, <1>a
  <2>2. Min(at) \in at
    BY <2>1, LeastOf
  <2> QED BY <1>9, <2>2
<1>11. f \in p(1)..e(n)
  <2>1. CASE i = n
    BY <1>1, <1>2, <1>4, <1>8, <2>1
  <2>2. CASE i # n
    <3>1. i \in 1..(n - 1)
      BY <1>1, <1>a, <2>2
    <3>2. e(i) < p(n)
      BY <1>1, <1>3, <3>1
    <3> QED BY <1>1, <1>2, <1>4, <1>8, <1>a, <3>2
  <2> QED BY <2>1, <2>2
<1>12. IndexAt(r, f) = i
  BY <1>1, <1>6, <1>8, <1>9, <1>10, <1>11
<1>13. i # 0
  BY <1>a
<1>14. QED
  BY <1>7, <1>9, <1>10, <1>12, <1>13 DEF MediaAt

\* local_to_global() and global_to_local() when each clip is in its place.
LEMMA Agree ==
  ASSUME NEW r, Good(r), Near(r), r.edl, NEW m \in Range(r.images), NEW f \in FirstFrame[m]..LastFrame[m]
  PROVE  /\ MediaAt(r, LocalToGlobal(r, f, m)) = m
         /\ GlobalToLocal(r, LocalToGlobal(r, f, m)) = f
<1> DEFINE i == IndexOf(r, m)
           g == LocalToGlobal(r, f, m)
<1>1. r \in Reels /\ i \in 1..Len(r.images) /\ r.images[i] = m /\ m \in Clips
  BY IndexOfIn DEF Good, Whole
<1>2. r.images # <<>> /\ Ordered(r)
  BY <1>1, ImagesOf DEF Good, Settled
<1>3. r.position[m] = Starts(r.images)[i] /\ r.position[m] \in Frames /\ End(r, m) = r.position[m] + Duration(m) - 1
  BY <1>1, EndIs DEF Near
<1>4. FirstFrame[m] \in Frames /\ LastFrame[m] = FirstFrame[m] + Duration(m) - 1 /\ Duration(m) \in Frames
  BY <1>1, DurationType
<1>5. f \in Int
  BY <1>1, DurationType DEF Frames
<1>6. g = f - FirstFrame[m] + r.position[m] /\ g \in Int
  BY <1>1, <1>3, <1>5, LocalToGlobalIs
<1> HIDE DEF i, g
<1>7. g \in r.position[m]..End(r, m) /\ g - r.position[m] + FirstFrame[m] = f
  BY <1>3, <1>4, <1>5, <1>6 DEF Frames
<1>8. MediaAt(r, g) = m /\ GlobalToLocal(r, g) = f
  BY <1>1, <1>2, <1>6, <1>7, OneClipAt
<1>9. QED
  BY <1>8 DEF g

\* Counting the frames of the clips before and looking for the position of the clip lead to the
\* same frame, as long as no clip was taken out or moved (local_to_global(), global_to_local(),
\* Reel_t::media_at()).
THEOREM FramesAgree == Spec => []LocalAndGlobalAgree
<1>1. ASSUME IInv PROVE LocalAndGlobalAgree
  BY <1>1, Agree, Zenon DEF IInv, LocalAndGlobalAgree, Shown
<1>2. QED
  BY <1>1, Invariance, PTL

\* media_at() depends on the images and their positions only.
LEMMA MediaSame ==
  ASSUME NEW q, NEW r, q.images = r.images, q.position = r.position, NEW f
  PROVE  MediaAt(q, f) = MediaAt(r, f)
<1>1. \A m : End(q, m) = End(r, m)
  BY DEF End
<1>2. {i \in DOMAIN q.images : f \in q.position[q.images[i]]..End(q, q.images[i])}
      = {i \in DOMAIN r.images : f \in r.position[r.images[i]]..End(r, r.images[i])}
  BY <1>1
<1>3. IndexAt(q, f) = IndexAt(r, f)
  BY <1>1, <1>2, Zenon DEF IndexAt
<1>4. QED
  BY <1>3 DEF MediaAt

\* seek(), in an edit list: the view is at the frame, and if this is a frame of a clip,
\* within the marks, the clip is in the view, at this frame.
LEMMA SoughtShows ==
  ASSUME NEW r, Good(r), r.edl, NEW f \in Int
  PROVE  /\ Sought(r, f).frame = f
         /\ f # r.frame /\ f \in r.timeline.dmin..r.timeline.dmax /\ MediaAt(r, f) # None => Shows(Sought(r, f))
<1>1. CASE f = r.frame
  BY <1>1 DEF Sought
<1>2. CASE f # r.frame
  <2> DEFINE q == [r EXCEPT !.frame = f]
             g == Wrapped(q, f)
             m == MediaAt(q, f)
             n == MediaAt(q, g)
             l == GlobalToLocal(q, g)
             i == IndexAt(q, g)
             s == SeekImage(q, n, l)
  <2>0. r \in Reels
    BY DEF Good, Whole
  <2>1. q \in Reels /\ Keeps(q, r) /\ q.frame = f /\ q.position = r.position /\ q.timeline = r.timeline
    BY <2>0, FrameSet
  <2>2. Sought(r, f) = SeekInList(q, f)
    BY <1>2, <2>1 DEF Sought, Keeps
  <2>3. Good(q) /\ q.edl /\ q.images = r.images /\ q.fg = r.fg
    BY <2>1, FrameGood DEF Keeps
  <2>5. SeekInList(q, f) = IF m = None THEN q
                           ELSE IF q.fg = None \/ m = q.fg THEN SeekImage(q, m, l)
                           ELSE IF n = None THEN q
                           ELSE ChangeImage(s, i)
    BY DEF SeekInList
  <2> HIDE DEF q
  <2>4. m = MediaAt(r, f)
    BY <2>1, <2>3, MediaSame
  <2>6. g \in Int /\ (f \in q.timeline.dmin..q.timeline.dmax => g = f)
    BY <2>1, WrappedIs
  <2> HIDE DEF g
  <2>7. l \in Int
    BY <2>1, <2>6, GlobalToLocalIs
  <2>8. m # None => /\ IndexAt(q, f) \in 1..Len(q.images) /\ m = q.images[IndexAt(q, f)] /\ m \in Clips
                    /\ f \in q.position[m]..End(q, m)
    BY <2>1, IndexAtIs, ImagesOf
  <2>9. n # None => i \in 1..Len(q.images) /\ n = q.images[i] /\ n \in Clips
    BY <2>1, <2>6, IndexAtIs, ImagesOf
  <2>10. m # None => /\ SeekImage(q, m, l) \in Reels /\ SeekImage(q, m, l).frame = f
                     /\ SeekImage(q, m, l).fg = q.fg /\ SeekImage(q, m, l).position = q.position
                     /\ SeekImage(q, m, l).local[m] = AtFrame(m, l)
    BY <2>1, <2>7, <2>8, SeekImageIs
  <2>11. n # None => /\ s \in Reels /\ s.frame = f /\ s.fg = q.fg /\ s.position = q.position /\ s.edl = q.edl
                     /\ s.images = q.images /\ s.local[n] = AtFrame(n, l) /\ Seeks(s, q)
    <3> SUFFICES ASSUME n # None
                 PROVE  /\ s \in Reels /\ s.frame = f /\ s.fg = q.fg /\ s.position = q.position /\ s.edl = q.edl
                        /\ s.images = q.images /\ s.local[n] = AtFrame(n, l) /\ Seeks(s, q)
      OBVIOUS
    <3>1. n \in Clips
      BY <2>9
    <3> HIDE DEF n, l, i
    <3>2. Seeks(s, q)
      BY <2>3, <2>7, <3>1, SeekImageSeeks DEF Good
    <3> QED BY <2>1, <2>7, <3>1, <3>2, SeekImageIs
  <2> DEFINE z == ChangeImage(s, i)
  <2>12. n # None => /\ z.frame = f /\ z.local[n] = AtFrame(n, l) /\ z.fg = n /\ z.position = q.position
    <3> SUFFICES ASSUME n # None PROVE z.frame = f /\ z.local[n] = AtFrame(n, l) /\ z.fg = n /\ z.position = q.position
      OBVIOUS
    <3>1. Good(s) /\ i \in 1..Len(s.images)
      BY <2>3, <2>9, <2>11, GoodSeeks
    <3> HIDE DEF s, n, i
    <3>2. Ordered(s)
      <4>1. s \in Reels /\ s.edl
        BY <2>3, <2>11
      <4>2. s.images # <<>>
        BY <3>1, <4>1, ImagesOf
      <4> QED BY <3>1, <4>1, <4>2 DEF Good, Settled
    <3>3. /\ z.frame = s.frame /\ z.local = s.local /\ z.fg = s.images[i]
          /\ Moved(z, s) \/ z = s
      BY <2>3, <2>11, <3>1, ChangeImageIs DEF Good
    <3>4. z.position = s.position
      BY <3>2, <3>3 DEF Moved
    <3> QED BY <2>9, <2>11, <3>3, <3>4
  <2>13. Sought(r, f).frame = f
    <3> HIDE DEF m, n, z, l
    <3> QED BY <2>1, <2>2, <2>5, <2>10, <2>12 DEF z
  <2>14. ASSUME f \in r.timeline.dmin..r.timeline.dmax, MediaAt(r, f) # None PROVE Shows(Sought(r, f))
    <3>1. g = f /\ m # None /\ n = m
      BY <2>1, <2>4, <2>6, <2>14
    <3>2. q.images # <<>> /\ q.fg # None /\ Ordered(q)
      <4>1. q.images # <<>>
        BY <2>1, <2>8, <3>1, ImagesOf
      <4> QED BY <2>3, <4>1, ForegroundIs DEF Good, Settled
    <3>3. l = f - q.position[m] + FirstFrame[m]
      BY <2>1, <2>3, <2>8, <3>1, <3>2, OneClipAt
    <3>4. /\ q.position[m] \in Int /\ End(q, m) = q.position[m] + Duration(m) - 1 /\ Duration(m) \in Int
          /\ FirstFrame[m] \in Int /\ LastFrame[m] = FirstFrame[m] + Duration(m) - 1
      BY <2>1, <2>8, <3>1, EndIs, DurationType DEF Frames
    <3>5. f = AtFrame(m, l) - FirstFrame[m] + q.position[m]
      <4>1. CASE FirstFrame[m] = LastFrame[m]
        <5> HIDE DEF m, l
        <5>1. f \in q.position[m]..End(q, m)
          BY <2>8, <3>1
        <5>2. AtFrame(m, l) = FirstFrame[m]
          BY <4>1 DEF AtFrame
        <5> QED BY <3>4, <4>1, <5>1, <5>2
      <4>2. CASE FirstFrame[m] # LastFrame[m]
        BY <3>3, <3>4, <4>2 DEF AtFrame
      <4> QED BY <4>1, <4>2
    <3> HIDE DEF l
    <3>6. CASE m = q.fg
      <4> DEFINE y == SeekImage(q, m, l)
      <4>1. Sought(r, f) = y
        BY <2>2, <2>5, <3>1, <3>6
      <4>2. y.frame = f /\ y.fg = m /\ y.position = q.position /\ y.local[m] = AtFrame(m, l)
        BY <2>10, <3>1, <3>6
      <4> HIDE DEF y, m
      <4> QED BY <3>1, <3>5, <4>1, <4>2 DEF Shows
    <3>7. CASE m # q.fg
      <4>1. Sought(r, f) = z
        BY <2>2, <2>5, <3>1, <3>2, <3>7
      <4> HIDE DEF z, m, n
      <4> QED BY <2>12, <3>1, <3>5, <4>1 DEF Shows
    <3> QED BY <3>6, <3>7
  <2> QED BY <2>13, <2>14
<1>3. QED
  BY <1>1, <1>2

\* What a move does that takes the view to frame f.
Lands(q, r) ==
  r.edl /\ q.frame # r.frame /\ q.frame \in r.timeline.dmin..r.timeline.dmax
    /\ MediaAt(r, q.frame) # None => Shows(q)

\* A seek lands on the frame.
LEMMA SoughtLands ==
  ASSUME NEW r, Good(r), NEW f \in Int
  PROVE  Lands(Sought(r, f), r)
BY SoughtShows DEF Lands

\* The clip that has come to the view, in an edit list: its first frame is on the timeline.
LEMMA TurnedView ==
  ASSUME NEW r, Good(r), r.edl, NEW i \in 1..Len(r.images)
  PROVE  LET q == Turned(r, i)
             m == q.fg IN
         /\ Good(q) /\ q.edl /\ q.frame = r.frame /\ m # None /\ m \in Clips /\ q \in Reels
         /\ q.position[m] \in Int /\ End(q, m) \in Int
         /\ q.timeline.min = 1 /\ q.timeline.dmin = 1 /\ q.timeline.dmax = q.timeline.max
         /\ 1 <= q.position[m] /\ q.position[m] <= End(q, m) /\ End(q, m) <= q.timeline.max
         /\ q.timeline.max \in Int /\ MediaAt(q, q.position[m]) # None
<1> DEFINE q == Turned(r, i)
           m == q.fg
<1>1. /\ Good(q) /\ q.edl /\ q.images = r.images /\ m = r.images[i] /\ q.frame = r.frame
      /\ q.position = r.position /\ FullView(q)
  BY TurnedGood
<1> HIDE DEF q
<1>2. r \in Reels /\ q \in Reels /\ r.images # <<>>
  <2>1. r \in Reels /\ q \in Reels
    BY <1>1 DEF Good, Whole
  <2> QED BY <2>1, ImagesOf
<1>3. m \in Clips /\ m # None /\ i \in 1..Len(q.images) /\ q.images[i] = m
  BY <1>1, <1>2, ImagesOf, ReelAssumption
<1>4. q.position[m] \in Frames /\ End(q, m) \in Frames /\ q.position[m] <= End(q, m)
  BY <1>2, <1>3, EndIs
<1>5. /\ Ordered(q) /\ q.timeline.min = 1 /\ q.timeline.max = End(q, q.images[Len(q.images)])
      /\ q.timeline.dmin = 1 /\ q.timeline.dmax = q.timeline.max
  BY <1>1, <1>2 DEF Good, Settled, FullView
<1> HIDE DEF m
<1>6. End(q, m) <= q.timeline.max /\ q.timeline.max \in Frames
  <2> DEFINE n == Len(q.images)
  <2>1. n \in 1..n /\ n \in Nat /\ q.images[n] \in Clips
    BY <1>1, <1>2, ImagesOf
  <2>2. /\ End(q, q.images[n]) \in Frames /\ q.position[q.images[n]] <= End(q, q.images[n])
        /\ q.position[q.images[n]] \in Frames
    BY <1>2, <2>1, EndIs
  <2>3. CASE i = n
    BY <1>3, <1>4, <1>5, <2>2, <2>3 DEF Frames
  <2>4. CASE i # n
    <3>1. i \in 1..(n - 1)
      BY <1>3, <2>1, <2>4
    <3>2. End(q, q.images[i]) < q.position[q.images[n]]
      BY <1>2, <1>5, <2>1, <3>1, Apart
    <3> QED BY <1>3, <1>4, <1>5, <2>2, <3>2 DEF Frames
  <2> QED BY <2>3, <2>4
<1>7. MediaAt(q, q.position[m]) = m
  <2>1. q.position[m] \in Int /\ q.position[m] \in q.position[q.images[i]]..End(q, q.images[i])
    BY <1>3, <1>4 DEF Frames
  <2> QED BY <1>2, <1>3, <1>5, <2>1, OneClipAt
<1>8. 1 <= q.position[m] /\ q.position[m] \in Int /\ End(q, m) \in Int /\ q.timeline.max \in Int
  BY <1>4, <1>6 DEF Frames
<1>9. QED
  BY <1>1, <1>2, <1>3, <1>4, <1>5, <1>6, <1>7, <1>8 DEF q, m

\* So does a change of clip: its first frame is within the marks of the whole timeline.
LEMMA NeighbourLands ==
  ASSUME NEW r, Good(r), NEW i \in Int
  PROVE  Lands(Neighbour(r, i), r)
<1> DEFINE q == Turned(r, i)
           m == q.fg
           f == q.position[m]
<1>1. CASE ~r.edl
  BY <1>1 DEF Lands
<1>2. CASE i \notin DOMAIN r.images
  BY <1>2 DEF Lands, Neighbour
<1>3. CASE r.edl /\ i \in DOMAIN r.images
  <2>1. i \in 1..Len(r.images)
    BY <1>3, ImagesOf DEF Good, Whole
  <2>2. /\ Good(q) /\ q.edl /\ q.frame = r.frame /\ f \in Int /\ MediaAt(q, f) # None
        /\ q.timeline.dmin = 1 /\ q.timeline.dmax = q.timeline.max
        /\ 1 <= f /\ f <= End(q, m) /\ End(q, m) <= q.timeline.max /\ End(q, m) \in Int /\ q.timeline.max \in Int
    BY <1>3, <2>1, TurnedView
  <2>3. Neighbour(r, i) = Sought(q, f)
    BY <1>3, <2>2 DEF Neighbour
  <2> HIDE DEF q
  <2>4. f \in q.timeline.dmin..q.timeline.dmax
    <3> HIDE DEF f, m
    <3> QED BY <2>2
  <2> HIDE DEF f
  <2>5. Sought(q, f).frame = f /\ (f # q.frame => Shows(Sought(q, f)))
    BY <2>2, <2>4, SoughtShows
  <2> QED BY <2>2, <2>3, <2>5 DEF Lands
<1>4. QED
  BY <1>1, <1>2, <1>3

\* And one limited to the clip: its first frame is within the new marks.
LEMMA LimitedLands ==
  ASSUME NEW r, Good(r), NEW i \in Int
  PROVE  Lands(Limited(r, i), r)
<1> DEFINE q == Turned(r, i)
           m == q.fg
           f == q.position[m]
           e == End(q, m)
           p == DisplayMinimum(q, f)
           s == DisplayMaximum(p, e)
<1>1. CASE ~r.edl
  BY <1>1 DEF Lands
<1>2. CASE i \notin DOMAIN r.images
  BY <1>2 DEF Lands, Limited
<1>3. CASE r.edl /\ i \in DOMAIN r.images
  <2>1. i \in 1..Len(r.images)
    BY <1>3, ImagesOf DEF Good, Whole
  <2>2. /\ Good(q) /\ q.edl /\ q.frame = r.frame /\ f \in Int /\ MediaAt(q, f) # None /\ q \in Reels
        /\ q.timeline.min = 1 /\ q.timeline.dmin = 1 /\ q.timeline.dmax = q.timeline.max
        /\ 1 <= f /\ f <= e /\ e <= q.timeline.max /\ e \in Int /\ q.timeline.max \in Int
    BY <1>3, <2>1, TurnedView
  <2>3. Limited(r, i) = Sought(s, f)
    BY <1>3, <2>2 DEF Limited
  <2> HIDE DEF q, f, e
  <2>4. p \in Reels /\ Stays(p, q) /\ Remarked(p.timeline, q.timeline) /\ p.timeline.max = q.timeline.max
        /\ p.timeline.dmin = f /\ p.timeline.dmax = q.timeline.max
    <3>1. q.timeline.min <= f /\ f <= q.timeline.dmax
      BY <2>2
    <3>2. q \in Reels /\ f \in Int
      BY <2>2
    <3> QED BY <2>2, <3>1, <3>2, DisplayMinimumIs
  <2> HIDE DEF p
  <2>5. Good(p)
    BY <2>2, <2>4, MarksGood
  <2>6. s \in Reels /\ Stays(s, p) /\ Remarked(s.timeline, p.timeline)
        /\ s.timeline.dmin = f /\ s.timeline.dmax = e
    BY <2>2, <2>4, DisplayMaximumIs
  <2> HIDE DEF s
  <2>7. Good(s)
    BY <2>5, <2>6, MarksGood
  <2>8. s.edl /\ s.images = q.images /\ s.position = q.position /\ s.frame = q.frame
    BY <2>2, <2>4, <2>6 DEF Stays, Keeps
  <2>9. MediaAt(s, f) # None
    BY <2>2, <2>8, Zenon DEF MediaAt, IndexAt, End
  <2>10. f \in s.timeline.dmin..s.timeline.dmax
    BY <2>2, <2>6
  <2>11. Sought(s, f).frame = f /\ (f # s.frame => Shows(Sought(s, f)))
    BY <2>2, <2>7, <2>8, <2>9, <2>10, SoughtShows
  <2> QED BY <2>2, <2>3, <2>8, <2>11 DEF Lands
<1>4. QED
  BY <1>1, <1>2, <1>3

\* Each of the moves does.
LEMMA MovesLand ==
  ASSUME IInv, Moves
  PROVE  Lands(reel', reel)
<1> DEFINE r == reel
<1>1. Good(r) /\ r \in Reels /\ r.value \in Int
  BY DEF IInv, Good, Whole, Reels
<1>2. r.timeline.min \in Int /\ r.timeline.max \in Int
  <2>1. \A f \in Frames : f \in Int
    BY DEF Frames
  <2> QED BY <1>1, <2>1 DEF Reels, Timelines
<1>3. CASE Seek
  <2>1. PICK f \in (r.timeline.min..r.timeline.max) \cup (r.timeline.max..r.timeline.min) : reel' = Sought(r, f)
    BY <1>3 DEF Seek, Gives
  <2>2. f \in Int
    BY <1>2
  <2> QED BY <1>1, <2>1, <2>2, SoughtLands
<1>4. CASE Step
  <2>1. PICK n \in Strides \cup {-n : n \in Strides}, loop \in BOOLEAN : reel' = Sought(r, Stepped(r, n, loop))
    BY <1>4 DEF Step, Gives
  <2>2. n \in Int
    BY ReelAssumption
  <2>3. Stepped(r, n, loop) \in Int
    BY <1>1, <2>2, SteppedIs
  <2> QED BY <1>1, <2>1, <2>3, SoughtLands
<1>5. CASE First_timeline \/ Last_timeline
  <2>1. PICK f \in Int : reel' = Sought(r, f)
    BY <1>2, <1>5 DEF First_timeline, Last_timeline, Gives
  <2> QED BY <1>1, <2>1, SoughtLands
<1>6. CASE Next_image \/ Previous_image
  <2>1. PICK i \in Int : reel' = Neighbour(r, i)
    BY <1>1, <1>6 DEF Next_image, Previous_image, Gives
  <2> QED BY <1>1, <2>1, NeighbourLands
<1>7. CASE Next_limited \/ Previous_limited
  <2>1. PICK i \in Int : reel' = Limited(r, i)
    BY <1>1, <1>7 DEF Next_limited, Previous_limited, Gives
  <2> QED BY <1>1, <2>1, LimitedLands
<1>8. QED
  BY <1>3, <1>4, <1>5, <1>6, <1>7 DEF Moves

\* A seek, a step or a change of clip that takes the view of an edit list to a frame of a clip
\* leaves that clip in the foreground, at that frame (ImageView::seek(), ImageBrowser::seek(),
\* next_image()).
THEOREM MovesLandOnFrames == Spec => LandsOnFrame
<1>1. IInv /\ [Next]_vars =>
        [reel.edl /\ Moves /\ reel'.frame # reel.frame
         /\ reel'.frame \in reel.timeline.dmin..reel.timeline.dmax
         /\ MediaAt(reel, reel'.frame) # None => Shows(reel')]_vars
  BY MovesLand DEF Lands
<1>2. QED
  BY <1>1, Invariance, PTL DEF Spec, LandsOnFrame

\* set_edl() and clear_edl() keep the clip of the view and its frame, and the view goes to the
\* place of this frame.
THEOREM SwitchesKeepFrames == Spec => SwitchKeepsFrame
<1> DEFINE A == ((Set_edl /\ ~edited) \/ Clear_edl) /\ OnAFrame(reel) =>
                  /\ reel'.fg = reel.fg /\ reel'.local = reel.local
                  /\ IF reel'.edl THEN Shows(reel') ELSE reel'.frame = reel.local[reel.fg]
           r == reel
<1>1. ASSUME IInv, OnAFrame(r) PROVE Good(r) /\ r.fg # None /\ r \in Reels /\ r.images # <<>>
                                     /\ r.fg \in Range(r.images) /\ r.fg \in Clips /\ r.local[r.fg] \in Int
  <2>1. Good(r) /\ r.fg # None /\ r \in Reels
    BY <1>1 DEF IInv, Good, Whole, OnAFrame
  <2>2. r.images # <<>>
    BY <2>1, ClipAt DEF Good
  <2>3. r.fg \in Range(r.images) /\ r.fg \in Clips
    BY <2>1, <2>2, ForegroundIs DEF Good
  <2> QED BY <2>1, <2>2, <2>3 DEF Reels
<1>2. ASSUME IInv, OnAFrame(r), Set_edl, ~edited
      PROVE  reel'.fg = r.fg /\ reel'.local = r.local /\ reel'.edl /\ Shows(reel')
  <2> DEFINE c == [r EXCEPT !.edl = TRUE]
             p == MatchTreeOrder(c, r.images)
             q == Refreshed(p)
             f == LocalToGlobal(q, q.local[q.fg], q.fg)
  <2>1. reel' = IF q.fg = None THEN q ELSE [q EXCEPT !.frame = f]
    BY <1>2 DEF Set_edl, Gives
  <2>2. c \in Reels /\ c.images = r.images /\ c.fg = r.fg /\ c.edl /\ c.local = r.local /\ c.position = r.position
    BY <1>1, <1>2 DEF Reels
  <2>3. r.images \in Seq(Clips) /\ IsInjective(r.images) /\ Near(r)
    BY <1>1, <1>2, ImagesOf DEF IInv
  <2> HIDE DEF c
  <2>4. Good(p) /\ p.fg = c.fg /\ p.edl /\ p.local = c.local /\ Near(p) /\ p.images = r.images
    BY <1>1, <1>2, <2>2, <2>3, MatchTreeOrderIs DEF Near
  <2> HIDE DEF p
  <2>5. Good(q) /\ q.fg = p.fg /\ q.edl /\ q.images = p.images /\ Near(q) /\ q.local = p.local
    BY <2>4, RefreshedNear, RefreshedGood DEF Keeps, Good
  <2> HIDE DEF q
  <2> DEFINE k == IndexOf(q, q.fg)
  <2>6. q \in Reels /\ q.fg \in Range(q.images) /\ q.fg \in Clips /\ q.local[q.fg] \in Int /\ q.fg # None
    BY <1>1, <1>2, <2>2, <2>4, <2>5 DEF Good, Whole
  <2>7. k \in 1..Len(q.images) /\ q.images[k] = q.fg
    BY <2>6, IndexOfIn
  <2>8. f \in Int /\ f = q.local[q.fg] - FirstFrame[q.fg] + q.position[q.fg]
    <3>1. q.position[q.fg] = Starts(q.images)[k] /\ q.position[q.fg] \in Frames
      BY <2>5, <2>6, <2>7 DEF Near, Reels
    <3>2. FirstFrame[q.fg] \in Frames
      BY <2>6, DurationType
    <3>3. f \in Int /\ f = q.local[q.fg] - FirstFrame[q.fg] + Starts(q.images)[k]
      BY <2>5, <2>6, LocalToGlobalIs
    <3> HIDE DEF f, k
    <3> QED BY <2>6, <3>1, <3>2, <3>3 DEF Frames
  <2> HIDE DEF f
  <2>9. [q EXCEPT !.frame = f].frame = f /\ Keeps([q EXCEPT !.frame = f], q)
        /\ [q EXCEPT !.frame = f].position = q.position
    BY <2>6, <2>8, FrameSet
  <2>10. reel' = [q EXCEPT !.frame = f]
    BY <2>1, <2>6
  <2> QED BY <2>2, <2>4, <2>5, <2>6, <2>8, <2>9, <2>10 DEF Shows, Keeps
<1>3. ASSUME IInv, OnAFrame(r), Clear_edl
      PROVE  reel'.fg = r.fg /\ reel'.local = r.local /\ ~reel'.edl /\ reel'.frame = r.local[r.fg]
  <2> DEFINE c == [r EXCEPT !.edl = FALSE]
             f == c.local[c.fg]
             q == [c EXCEPT !.frame = f]
  <2>1. reel' = IF c.fg = None THEN c ELSE Refreshed(q)
    BY <1>3 DEF Clear_edl, Gives
  <2>2. c \in Reels /\ c.images = r.images /\ c.fg = r.fg /\ ~c.edl /\ c.local = r.local /\ c.position = r.position
    BY <1>1, <1>3 DEF Reels
  <2>3. Whole(c) /\ f = r.local[r.fg] /\ f \in Int
    BY <1>1, <1>3, <2>2 DEF Good, Whole
  <2> HIDE DEF c, f
  <2>4. q \in Reels /\ Keeps(q, c) /\ q.frame = f
    BY <2>2, <2>3, FrameSet
  <2> HIDE DEF q
  <2>5. Whole(q) /\ q.fg = r.fg /\ q.local = r.local /\ ~q.edl /\ q.images # <<>>
    BY <1>1, <1>3, <2>2, <2>3, <2>4 DEF Whole, Keeps
  <2>6. q.frame \in FirstFrame[q.fg]..LastFrame[q.fg] /\ q.local[q.fg] = q.frame
    BY <1>3, <2>3, <2>4, <2>5 DEF OnAFrame
  <2>7. Refreshed(q).frame = q.frame /\ Keeps(Refreshed(q), q)
    BY <2>5, <2>6, RefreshedIs
  <2>8. reel' = Refreshed(q)
    BY <1>1, <1>3, <2>1, <2>2
  <2> QED BY <2>3, <2>4, <2>5, <2>7, <2>8 DEF Keeps
<1>4. IInv /\ [Next]_vars => [A]_vars
  BY <1>2, <1>3, Zenon
<1>5. QED
  BY <1>4, Invariance, PTL DEF Spec, SwitchKeepsFrame

-----------------------------------------------------------------------------
\* The frame a step on, or back, from frame g leads to, between two ends.
Onwards(start, end, g) == IF g + 1 > end THEN start + g - end ELSE g + 1
Back(start, end, g) == IF g - 1 < start THEN end - start + g ELSE g - 1

LEMMA RoundAndBack ==
  ASSUME NEW start \in Int, NEW end \in Int, NEW g \in start..end
  PROVE  /\ Onwards(start, end, g) \in start..end /\ Back(start, end, g) \in start..end
         /\ Back(start, end, Onwards(start, end, g)) = g
         /\ Onwards(start, end, Back(start, end, g)) = g
BY DEF Onwards, Back

\* Two marks that are numbers are all it takes.
LEMMA StepsReturn ==
  ASSUME reel.timeline.dmin \in Int, reel.timeline.dmax \in Int
  PROVE  StepsComeBack
<1> DEFINE At(f) == [reel EXCEPT !.frame = f]
           view == reel.timeline.dmin..reel.timeline.dmax
<1> SUFFICES ASSUME NEW f \in view
             PROVE  LET on == Stepped(At(f), 1, TRUE)
                        back == Stepped(At(f), -1, TRUE) IN
                    /\ on \in view /\ Stepped(At(on), -1, TRUE) = f
                    /\ back \in view /\ Stepped(At(back), 1, TRUE) = f
  BY DEF StepsComeBack
<1> DEFINE start == reel.timeline.dmin
           end == reel.timeline.dmax
<1>1. ASSUME NEW g \in Int
      PROVE  /\ Stepped(At(g), 1, TRUE) = Onwards(start, end, g)
             /\ Stepped(At(g), -1, TRUE) = Back(start, end, g)
  BY DEF Stepped, Onwards, Back
<1> HIDE DEF At
<1>2. /\ Onwards(start, end, f) \in view /\ Back(start, end, f) \in view
      /\ Back(start, end, Onwards(start, end, f)) = f
      /\ Onwards(start, end, Back(start, end, f)) = f
  BY RoundAndBack
<1>3. f \in Int /\ Onwards(start, end, f) \in Int /\ Back(start, end, f) \in Int
  BY <1>2
<1>4. /\ Stepped(At(f), 1, TRUE) = Onwards(start, end, f)
      /\ Stepped(At(f), -1, TRUE) = Back(start, end, f)
  BY <1>1, <1>3
<1>5. /\ Stepped(At(Onwards(start, end, f)), -1, TRUE) = f
      /\ Stepped(At(Back(start, end, f)), 1, TRUE) = f
  BY <1>1, <1>2, <1>3
<1>6. QED
  BY <1>2, <1>4, <1>5

\* ImageView::step_frame(), one frame on and one frame back: in a view that loops it
\* returns to the frame it came from, also around the ends of the view, and it never
\* leaves the view, even of a single frame.
THEOREM StepIsUndone == Spec => []StepsComeBack
<1>1. ASSUME TypeOK PROVE StepsComeBack
  <2>1. reel.timeline.dmin \in Frames /\ reel.timeline.dmax \in Frames
    BY <1>1 DEF TypeOK, Reels, Timelines
  <2>2. reel.timeline.dmin \in Int /\ reel.timeline.dmax \in Int
    BY <2>1 DEF Frames
  <2> QED BY <2>2, StepsReturn
<1>2. QED
  BY <1>1, TypeIsCorrect, PTL
=============================================================================
