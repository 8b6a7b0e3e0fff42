--------------------------- MODULE LauncherLemmas ---------------------------
(***************************************************************************)
(* Mathematics that the proofs cite: the least and the greatest of some   *)
(* numbers, that a function defined step by step is what its equation      *)
(* says, what Selected selects, and which of several words with an option  *)
(* is the last.                                                            *)
(***************************************************************************)
EXTENDS Selection, SequencesExt, SequenceTheorems, WellFoundedInduction, TLAPS

\* The least of some naturals.
LEMMA LeastElement ==
    ASSUME NEW S, S \subseteq Nat, S # {}
    PROVE  Min(S) \in S /\ \A n \in S : Min(S) =< n
<1> DEFINE Less == {p \in Nat \X Nat : p[1] < p[2]}
<1>1. IsWellFoundedOn(Less, Nat)
  BY NatLessThanWellFounded DEF OpToRel
<1>2. PICK x \in S : \A y \in S : <<y, x>> \notin Less
  BY <1>1, WFMin
<1>3. ASSUME NEW y \in S PROVE x =< y
  <2>1. x \in Nat /\ y \in Nat /\ <<y, x>> \notin Less
    BY <1>2
  <2> QED
    BY <2>1
<1> QED
  BY <1>3 DEF Min

\* And the greatest, if they are bounded.
LEMMA GreatestElement ==
    ASSUME NEW N \in Nat, NEW S, S \subseteq 0 .. N, S # {}
    PROVE  Max(S) \in S /\ \A n \in S : n =< Max(S)
<1> DEFINE Left == {n \in Nat : n <= N /\ N - n \in S}
<1>1. PICK x \in S : TRUE
  OBVIOUS
<1>2. N - x \in Left /\ N - (N - x) = x
  BY <1>1
<1>3. Left \subseteq Nat /\ Left # {}
  BY <1>2
<1>4. Min(Left) \in Left /\ \A n \in Left : Min(Left) =< n
  BY <1>3, LeastElement
<1> DEFINE y == N - Min(Left)
<1>5. y \in S
  BY <1>4
<1>6. ASSUME NEW n \in S PROVE y >= n
  <2>1. n \in 0 .. N /\ N - n \in Nat /\ N - (N - n) = n
    BY <1>6
  <2>2. N - n \in Left
    BY <2>1
  <2>3. Min(Left) =< N - n /\ Min(Left) \in Nat
    BY <1>4, <2>2
  <2> HIDE DEF Left
  <2> QED
    BY <2>1, <2>3
<1> HIDE DEF y
<1>7. Max(S) \in S /\ \A n \in S : Max(S) >= n
  BY <1>5, <1>6 DEF Max
<1>8. \A n \in S : n \in Nat
  OBVIOUS
<1> QED
  BY <1>7, <1>8

-----------------------------------------------------------------------------
\* f has the value base at first, and after it step's of what it had before.
Computes(f, R, base, step, n) ==
    /\ f \in [0 .. n -> R]
    /\ f[0] = base
    /\ \A i \in 1 .. n : f[i] = step[<<i, f[i - 1]>>]

LEMMA ComputesNone ==
    ASSUME NEW R, NEW base \in R, NEW step
    PROVE  \E f : Computes(f, R, base, step, 0)
<1> DEFINE f == [i \in 0 .. 0 |-> base]
<1>1. f \in [0 .. 0 -> R] /\ f[0] = base /\ 1 .. 0 = {}
  OBVIOUS
<1> HIDE DEF f
<1>2. Computes(f, R, base, step, 0)
  BY <1>1 DEF Computes
<1> QED
  BY <1>2

LEMMA ComputesMore ==
    ASSUME NEW N \in Nat, NEW R, NEW base \in R, NEW step \in [(1 .. N) \X R -> R],
           NEW n \in 0 .. N, n < N, NEW f, Computes(f, R, base, step, n)
    PROVE  \E g : Computes(g, R, base, step, n + 1)
<1>1. f \in [0 .. n -> R] /\ f[0] = base /\ \A i \in 1 .. n : f[i] = step[<<i, f[i - 1]>>]
  BY DEF Computes
<1>2. f[n] \in R /\ n + 1 \in 1 .. N
  BY <1>1
<1> DEFINE last == step[<<n + 1, f[n]>>]
<1>3. last \in R
  BY <1>2
<1> HIDE DEF last
<1> DEFINE g == [i \in 0 .. n + 1 |-> IF i = n + 1 THEN last ELSE f[i]]
<1>4. g[n + 1] = last /\ \A i \in 0 .. n : g[i] = f[i]
  OBVIOUS
<1>5. \A i \in 0 .. n + 1 : g[i] \in R
  BY <1>1, <1>3, <1>4
<1>6. g \in [0 .. n + 1 -> R]
  BY <1>5
<1> HIDE DEF g
<1>7. g[0] = base
  BY <1>1, <1>4
<1>8. ASSUME NEW i \in 1 .. n + 1 PROVE g[i] = step[<<i, g[i - 1]>>]
  <2>1. i - 1 \in 0 .. n /\ g[i - 1] = f[i - 1]
    BY <1>4
  <2>2. CASE i = n + 1
    <3>1. i - 1 = n /\ g[i] = step[<<n + 1, f[n]>>]
      BY <1>4, <2>2 DEF last
    <3> QED
      BY <2>1, <2>2, <3>1
  <2>3. CASE i # n + 1
    <3>1. i \in 1 .. n
      BY <2>3
    <3> QED
      BY <1>1, <1>4, <2>1, <3>1
  <2> QED
    BY <2>2, <2>3
<1>9. Computes(g, R, base, step, n + 1)
  BY <1>6, <1>7, <1>8 DEF Computes
<1> QED
  BY <1>9

\* There is such a function, for any number of steps.
LEMMA RecursionExists ==
    ASSUME NEW N \in Nat, NEW R, NEW base \in R, NEW step \in [(1 .. N) \X R -> R]
    PROVE  \E f : Computes(f, R, base, step, N)
<1> DEFINE T == {n \in 0 .. N : ~\E f : Computes(f, R, base, step, n)}
<1> SUFFICES ASSUME T # {} PROVE FALSE
  OBVIOUS
<1>1. Min(T) \in T /\ \A n \in T : Min(T) =< n
  <2>1. T \subseteq Nat
    OBVIOUS
  <2> HIDE DEF T
  <2> QED
    BY <2>1, LeastElement
<1> DEFINE x == Min(T)
<1> HIDE DEF x
<1>2. x \in T /\ \A n \in T : x =< n
  BY <1>1 DEF x
<1>3. x # 0
  BY <1>2, ComputesNone
<1>4. x - 1 \in 0 .. N /\ x - 1 < N /\ x - 1 \notin T /\ (x - 1) + 1 = x
  BY <1>2, <1>3
<1>5. PICK f : Computes(f, R, base, step, x - 1)
  BY <1>4
<1>6. \E g : Computes(g, R, base, step, (x - 1) + 1)
  BY <1>4, <1>5, ComputesMore
<1> QED
  BY <1>2, <1>4, <1>6

-----------------------------------------------------------------------------
\* What follows a place of a sequence.
LEMMA RestOf ==
    ASSUME NEW S, NEW s \in Seq(S), NEW m \in Int, m >= 1
    PROVE  /\ SubSeq(s, m, Len(s)) \in Seq(S)
           /\ Len(SubSeq(s, m, Len(s))) = IF m <= Len(s) THEN Len(s) - m + 1 ELSE 0
           /\ \A k \in 1 .. Len(s) - m + 1 : SubSeq(s, m, Len(s))[k] = s[m + k - 1]
<1>1. Len(s) \in Int /\ \A k \in m .. Len(s) : s[k] \in S
  OBVIOUS
<1> QED
  BY <1>1, SubSeqProperties

-----------------------------------------------------------------------------
\* Selecting goes through the sequence element by element.
LEMMA SelectingIs ==
    ASSUME NEW S, NEW s \in Seq(S), NEW places
    PROVE  \E f : /\ f = Selecting(s, places) /\ f \in [0 .. Len(s) -> Seq(S)]
                  /\ f[0] = <<>>
                  /\ \A n \in 1 .. Len(s) :
                       f[n] = IF n \in places THEN Append(f[n - 1], s[n]) ELSE f[n - 1]
<1> DEFINE N == Len(s)
           T == Seq(S)
           step == [x \in (1 .. N) \X T |->
                      IF x[1] \in places THEN Append(x[2], s[x[1]]) ELSE x[2]]
<1>1. N \in Nat /\ \A n \in 1 .. N : s[n] \in S
  OBVIOUS
<1>2. <<>> \in T /\ \A t \in T, e \in S : Append(t, e) \in T
  OBVIOUS
<1> HIDE DEF N, T
<1>3. step \in [(1 .. N) \X T -> T]
  <2>1. \A x \in (1 .. N) \X T :
          (IF x[1] \in places THEN Append(x[2], s[x[1]]) ELSE x[2]) \in T
    BY <1>1, <1>2
  <2> QED
    BY <2>1
<1>4. \A n \in 1 .. N, t \in T :
        step[<<n, t>>] = IF n \in places THEN Append(t, s[n]) ELSE t
  OBVIOUS
<1> HIDE DEF step
<1>5. PICK f : Computes(f, T, <<>>, step, N)
  BY <1>1, <1>2, <1>3, RecursionExists
<1>6. f \in [0 .. N -> T] /\ f[0] = <<>> /\ \A n \in 1 .. N : f[n] = step[<<n, f[n - 1]>>]
  BY <1>5 DEF Computes
<1>7. \A n \in 1 .. N : n - 1 \in 0 .. N /\ f[n - 1] \in T
  BY <1>1, <1>6
<1>8. \A n \in 1 .. N : f[n] = IF n \in places THEN Append(f[n - 1], s[n]) ELSE f[n - 1]
  BY <1>4, <1>6, <1>7
<1>9. f = [n \in 0 .. N |-> IF n = 0 THEN <<>>
                            ELSE IF n \in places THEN Append(f[n - 1], s[n]) ELSE f[n - 1]]
  <2>1. \A n \in 0 .. N : n = 0 \/ n \in 1 .. N
    BY <1>1
  <2> QED
    BY <1>6, <1>8, <2>1
<1> DEFINE g == Selecting(s, places)
<1>10. g = [n \in 0 .. N |-> IF n = 0 THEN <<>>
                             ELSE IF n \in places THEN Append(g[n - 1], s[n]) ELSE g[n - 1]]
  BY <1>9, Zenon DEF Selecting, N
<1> HIDE DEF g
<1>11. 0 \in 0 .. N /\ \A n \in 1 .. N : n \in 0 .. N /\ n # 0 /\ n - 1 \in 0 .. N
  BY <1>1
<1>12. /\ g[0] = <<>>
       /\ \A n \in 1 .. N : g[n] = IF n \in places THEN Append(g[n - 1], s[n]) ELSE g[n - 1]
  BY <1>10, <1>11
<1>13. \A n \in 0 .. N : g[n] \in T
  <2> DEFINE B == {n \in 0 .. N : g[n] \notin T}
  <2> SUFFICES ASSUME B # {} PROVE FALSE
    OBVIOUS
  <2>1. B \subseteq Nat
    OBVIOUS
  <2>2. Min(B) \in B /\ \A n \in B : Min(B) =< n
    <3> HIDE DEF B
    <3> QED
      BY <2>1, <2>1, LeastElement
  <2>3. PICK x : x \in B /\ \A n \in B : x =< n
    BY <2>2
  <2>4. x # 0
    BY <1>2, <1>12, <2>3
  <2>5. x \in 1 .. N /\ x - 1 \in 0 .. N /\ x - 1 \notin B
    BY <1>1, <2>3, <2>4
  <2>6. g[x - 1] \in T /\ s[x] \in S
    BY <1>1, <2>5
  <2>7. g[x] \in T
    BY <1>2, <1>12, <2>5, <2>6
  <2> QED
    BY <2>3, <2>7
<1>14. g \in [0 .. N -> T]
  BY <1>10, <1>13
<1> QED
  BY <1>12, <1>14 DEF g, N, T

\* t has what s has at the places up to n, in their order: h says where each is from.
Picks(t, s, places, n, h) ==
    /\ h \in [1 .. Len(t) -> 1 .. n]
    /\ \A i \in 1 .. Len(t) : h[i] \in places /\ t[i] = s[h[i]]
    /\ \A i, j \in 1 .. Len(t) : i < j => h[i] < h[j]
    /\ \A m \in 1 .. n : m \in places => \E i \in 1 .. Len(t) : h[i] = m

LEMMA PicksNone ==
    ASSUME NEW s, NEW places
    PROVE  \E h : Picks(<<>>, s, places, 0, h)
<1> DEFINE h == [i \in {} |-> i]
<1>1. 1 .. Len(<<>>) = {} /\ 1 .. 0 = {} /\ h \in [{} -> 1 .. 0]
  OBVIOUS
<1> HIDE DEF h
<1>2. Picks(<<>>, s, places, 0, h)
  BY <1>1 DEF Picks
<1> QED
  BY <1>2

LEMMA PicksSkip ==
    ASSUME NEW s, NEW places, NEW n \in Nat, NEW S, NEW t \in Seq(S), NEW h,
           n + 1 \notin places, Picks(t, s, places, n, h)
    PROVE  \E k : Picks(t, s, places, n + 1, k)
<1>1. 1 .. n \subseteq 1 .. n + 1 /\ \A m \in 1 .. n + 1 : m \in 1 .. n \/ m = n + 1
  OBVIOUS
<1>2. h \in [1 .. Len(t) -> 1 .. n + 1]
  BY <1>1 DEF Picks
<1>3. Picks(t, s, places, n + 1, h)
  BY <1>1, <1>2 DEF Picks
<1> QED
  BY <1>3

LEMMA PicksMore ==
    ASSUME NEW s, NEW places, NEW n \in Nat, NEW S, NEW t \in Seq(S), NEW h,
           n + 1 \in places, s[n + 1] \in S, Picks(t, s, places, n, h)
    PROVE  \E k : Picks(Append(t, s[n + 1]), s, places, n + 1, k)
<1>1. PICK u, l : u = Append(t, s[n + 1]) /\ l = Len(t)
  OBVIOUS
<1>2. /\ l \in Nat /\ Len(u) = l + 1 /\ u[l + 1] = s[n + 1]
      /\ \A i \in 1 .. l : u[i] = t[i]
  BY <1>1
<1> DEFINE k == [i \in 1 .. l + 1 |-> IF i = l + 1 THEN n + 1 ELSE h[i]]
<1>3. k[l + 1] = n + 1 /\ \A i \in 1 .. l : k[i] = h[i]
  BY <1>2
<1>4. /\ \A i \in 1 .. l : h[i] \in 1 .. n /\ h[i] \in places /\ t[i] = s[h[i]]
      /\ \A i, j \in 1 .. l : i < j => h[i] < h[j]
      /\ \A m \in 1 .. n : m \in places => \E i \in 1 .. l : h[i] = m
  BY <1>1 DEF Picks
<1>5. \A i \in 1 .. l + 1 : i \in 1 .. l \/ i = l + 1
  BY <1>2
<1>6. k \in [1 .. l + 1 -> 1 .. n + 1]
  BY <1>4, <1>5
<1> HIDE DEF k
<1>7. \A i \in 1 .. l + 1 : k[i] \in places /\ u[i] = s[k[i]]
  BY <1>2, <1>3, <1>4, <1>5
<1>8. \A i, j \in 1 .. l + 1 : i < j => k[i] < k[j]
  <2> SUFFICES ASSUME NEW i \in 1 .. l + 1, NEW j \in 1 .. l + 1, i < j PROVE k[i] < k[j]
    OBVIOUS
  <2>1. i \in 1 .. l /\ k[i] = h[i] /\ h[i] \in 1 .. n
    BY <1>2, <1>3, <1>4
  <2>2. CASE j = l + 1
    BY <1>3, <2>1, <2>2
  <2>3. CASE j \in 1 .. l
    BY <1>3, <1>4, <2>1, <2>3
  <2> QED
    BY <1>5, <2>2, <2>3
<1>9. \A m \in 1 .. n + 1 : m \in places => \E i \in 1 .. l + 1 : k[i] = m
  <2> SUFFICES ASSUME NEW m \in 1 .. n + 1, m \in places
               PROVE  \E i \in 1 .. l + 1 : k[i] = m
    OBVIOUS
  <2>1. CASE m = n + 1
    BY <1>2, <1>3, <2>1
  <2>2. CASE m # n + 1
    <3>1. m \in 1 .. n
      BY <2>2
    <3>2. PICK i \in 1 .. l : h[i] = m
      BY <1>4, <3>1
    <3>3. i \in 1 .. l + 1
      BY <1>2
    <3> QED
      BY <1>3, <3>2, <3>3
  <2> QED
    BY <2>1, <2>2
<1>10. Picks(u, s, places, n + 1, k)
  BY <1>2, <1>6, <1>7, <1>8, <1>9 DEF Picks
<1> QED
  BY <1>1, <1>10

\* What is selected are the elements at the places, in their order.
LEMMA SelectedIs ==
    ASSUME NEW S, NEW s \in Seq(S), NEW places
    PROVE  /\ Selected(s, places) \in Seq(S)
           /\ \E h : Picks(Selected(s, places), s, places, Len(s), h)
<1>1. PICK f : /\ f = Selecting(s, places) /\ f \in [0 .. Len(s) -> Seq(S)]
               /\ f[0] = <<>>
               /\ \A n \in 1 .. Len(s) :
                    f[n] = IF n \in places THEN Append(f[n - 1], s[n]) ELSE f[n - 1]
  BY SelectingIs
<1> DEFINE B == {n \in 0 .. Len(s) : ~\E h : Picks(f[n], s, places, n, h)}
<1>2. B = {}
  <2> SUFFICES ASSUME B # {} PROVE FALSE
    OBVIOUS
  <2>1. B \subseteq Nat
    OBVIOUS
  <2>2. Min(B) \in B /\ \A n \in B : Min(B) =< n
    <3> HIDE DEF B
    <3> QED
      BY <2>1, LeastElement
  <2>3. PICK x : x \in B /\ \A n \in B : x =< n
    BY <2>2
  <2>4. x # 0
    BY <1>1, <2>3, PicksNone
  <2>5. x \in 1 .. Len(s) /\ x - 1 \in 0 .. Len(s) /\ x - 1 \notin B
    BY <2>3, <2>4
  <2>6. PICK h : Picks(f[x - 1], s, places, x - 1, h)
    BY <2>5
  <2>7. PICK y, t : y = x - 1 /\ t = f[x - 1]
    OBVIOUS
  <2>8. y \in Nat /\ y + 1 = x /\ t \in Seq(S) /\ s[y + 1] \in S /\ Picks(t, s, places, y, h)
    <3>1. y \in Nat /\ y + 1 = x /\ x \in 1 .. Len(s)
      BY <2>5, <2>7
    <3>2. t \in Seq(S) /\ s[y + 1] \in S
      <4>1. f[x - 1] \in Seq(S)
        BY <1>1, <2>5
      <4>2. s[x] \in S
        BY <3>1
      <4> QED
        BY <2>7, <3>1, <4>1, <4>2
    <3>3. Picks(t, s, places, y, h)
      BY <2>6, <2>7, Zenon
    <3> QED
      BY <3>1, <3>2, <3>3
  <2>9. \E k : Picks(f[x], s, places, x, k)
    <3>1. CASE x \in places
      <4>1. \E k : Picks(Append(t, s[y + 1]), s, places, y + 1, k)
        BY <2>8, <3>1, PicksMore
      <4>2. f[x] = Append(t, s[y + 1])
        BY <1>1, <2>5, <2>7, <2>8, <3>1
      <4> QED
        BY <2>8, <4>1, <4>2
    <3>2. CASE x \notin places
      <4>1. \E k : Picks(t, s, places, y + 1, k)
        BY <2>8, <3>2, PicksSkip
      <4>2. f[x] = t
        BY <1>1, <2>5, <2>7, <3>2
      <4> QED
        BY <2>8, <4>1, <4>2
    <3> QED
      BY <3>1, <3>2
  <2> QED
    BY <2>3, <2>9
<1>3. Len(s) \in 0 .. Len(s) /\ Selected(s, places) = f[Len(s)]
  BY <1>1 DEF Selected
<1> QED
  BY <1>1, <1>2, <1>3

\* Nothing is selected if nothing is at the places; of what is, the last is the
\* last, and the first the first.
LEMMA SelectedNone ==
    ASSUME NEW S, NEW s \in Seq(S), NEW places
    PROVE  Selected(s, places) = <<>> <=> \A n \in DOMAIN s : n \notin places
<1>1. PICK t, h : /\ t = Selected(s, places) /\ t \in Seq(S)
                  /\ Picks(t, s, places, Len(s), h)
  BY SelectedIs
<1>2. /\ \A i \in 1 .. Len(t) : h[i] \in 1 .. Len(s) /\ h[i] \in places
      /\ \A m \in 1 .. Len(s) : m \in places => \E i \in 1 .. Len(t) : h[i] = m
  BY <1>1 DEF Picks
<1>3. t = <<>> <=> 1 .. Len(t) = {}
  BY <1>1
<1>4. DOMAIN s = 1 .. Len(s)
  OBVIOUS
<1> QED
  BY <1>1, <1>2, <1>3, <1>4

LEMMA SelectedAre ==
    ASSUME NEW S, NEW s \in Seq(S), NEW places, NEW i \in DOMAIN Selected(s, places)
    PROVE  \E n \in DOMAIN s : n \in places /\ Selected(s, places)[i] = s[n]
<1>1. PICK t, h : /\ t = Selected(s, places) /\ t \in Seq(S)
                  /\ Picks(t, s, places, Len(s), h)
  BY SelectedIs
<1>2. \A j \in 1 .. Len(t) : h[j] \in 1 .. Len(s) /\ h[j] \in places /\ t[j] = s[h[j]]
  BY <1>1 DEF Picks
<1>3. DOMAIN s = 1 .. Len(s) /\ i \in 1 .. Len(t)
  BY <1>1
<1> QED
  BY <1>1, <1>2, <1>3

LEMMA SelectedLast ==
    ASSUME NEW S, NEW s \in Seq(S), NEW places, NEW n \in DOMAIN s,
           n \in places, \A m \in DOMAIN s : m > n => m \notin places
    PROVE  Selected(s, places) # <<>> /\ Last(Selected(s, places)) = s[n]
<1>1. PICK t, h : /\ t = Selected(s, places) /\ t \in Seq(S)
                  /\ Picks(t, s, places, Len(s), h)
  BY SelectedIs
<1>2. /\ \A j \in 1 .. Len(t) : h[j] \in 1 .. Len(s) /\ h[j] \in places /\ t[j] = s[h[j]]
      /\ \A j, k \in 1 .. Len(t) : j < k => h[j] < h[k]
      /\ \A m \in 1 .. Len(s) : m \in places => \E k \in 1 .. Len(t) : h[k] = m
  BY <1>1 DEF Picks
<1>3. DOMAIN s = 1 .. Len(s) /\ Len(t) \in Nat
  BY <1>1
<1>4. PICK i \in 1 .. Len(t) : h[i] = n
  BY <1>2, <1>3
<1>5. i = Len(t)
  <2> SUFFICES ASSUME i < Len(t) PROVE FALSE
    BY <1>3
  <2>1. Len(t) \in 1 .. Len(t) /\ h[i] < h[Len(t)]
    BY <1>2, <1>3, <1>4
  <2> QED
    BY <1>2, <1>3, <1>4, <2>1
<1>6. Last(t) = t[Len(t)] /\ t # <<>>
  BY <1>1, <1>3, <1>4 DEF Last
<1> QED
  BY <1>1, <1>2, <1>4, <1>5, <1>6

LEMMA SelectedFirst ==
    ASSUME NEW S, NEW s \in Seq(S), NEW places, NEW n \in DOMAIN s,
           n \in places, \A m \in DOMAIN s : m < n => m \notin places
    PROVE  Selected(s, places) # <<>> /\ Selected(s, places)[1] = s[n]
<1>1. PICK t, h : /\ t = Selected(s, places) /\ t \in Seq(S)
                  /\ Picks(t, s, places, Len(s), h)
  BY SelectedIs
<1>2. /\ \A j \in 1 .. Len(t) : h[j] \in 1 .. Len(s) /\ h[j] \in places /\ t[j] = s[h[j]]
      /\ \A j, k \in 1 .. Len(t) : j < k => h[j] < h[k]
      /\ \A m \in 1 .. Len(s) : m \in places => \E k \in 1 .. Len(t) : h[k] = m
  BY <1>1 DEF Picks
<1>3. DOMAIN s = 1 .. Len(s) /\ Len(t) \in Nat
  BY <1>1
<1>4. PICK i \in 1 .. Len(t) : h[i] = n
  BY <1>2, <1>3
<1>5. i = 1
  <2> SUFFICES ASSUME 1 < i PROVE FALSE
    BY <1>3
  <2>1. 1 \in 1 .. Len(t) /\ h[1] < h[i]
    BY <1>2, <1>3, <1>4
  <2> QED
    BY <1>2, <1>3, <1>4, <2>1
<1>6. t # <<>>
  BY <1>1, <1>3, <1>4
<1> QED
  BY <1>1, <1>2, <1>4, <1>5, <1>6

\* A place that is selected is found again.
LEMMA SelectedHas ==
    ASSUME NEW S, NEW s \in Seq(S), NEW places, NEW n \in DOMAIN s, n \in places
    PROVE  \E i \in DOMAIN Selected(s, places) : Selected(s, places)[i] = s[n]
<1>1. PICK t, h : /\ t = Selected(s, places) /\ t \in Seq(S)
                  /\ Picks(t, s, places, Len(s), h)
  BY SelectedIs
<1>2. /\ \A j \in 1 .. Len(t) : t[j] = s[h[j]]
      /\ \A m \in 1 .. Len(s) : m \in places => \E k \in 1 .. Len(t) : h[k] = m
  BY <1>1 DEF Picks
<1>3. DOMAIN s = 1 .. Len(s) /\ DOMAIN t = 1 .. Len(t)
  BY <1>1
<1> QED
  BY <1>1, <1>2, <1>3

\* g goes through the places in their order.
Enumerates(g, N, places) ==
    /\ g \in [1 .. N -> places]
    /\ \A i, j \in 1 .. N : i < j => g[i] < g[j]
    /\ \A n \in places : \E i \in 1 .. N : g[i] = n

\* What is selected is found by any way through the places in their order.
LEMMA SelectedAlong ==
    ASSUME NEW S, NEW s \in Seq(S), NEW places, places \subseteq DOMAIN s,
           NEW N \in Nat, NEW g, Enumerates(g, N, places)
    PROVE  /\ Selected(s, places) \in Seq(S) /\ Len(Selected(s, places)) = N
           /\ \A i \in 1 .. N : Selected(s, places)[i] = s[g[i]]
<1>0. /\ g \in [1 .. N -> places]
      /\ \A i, j \in 1 .. N : i < j => g[i] < g[j]
      /\ \A n \in places : \E i \in 1 .. N : g[i] = n
  BY DEF Enumerates
<1>1. PICK t, h : /\ t = Selected(s, places) /\ t \in Seq(S)
                  /\ Picks(t, s, places, Len(s), h)
  BY SelectedIs
<1>2. PICK M : M = Len(t)
  OBVIOUS
<1>3. /\ M \in Nat
      /\ \A i \in 1 .. M : h[i] \in Nat /\ h[i] \in places /\ t[i] = s[h[i]]
      /\ \A i, j \in 1 .. M : i < j => h[i] < h[j]
      /\ \A n \in places : \E i \in 1 .. M : h[i] = n
  <2>1. /\ M \in Nat /\ h \in [1 .. M -> 1 .. Len(s)] /\ DOMAIN s = 1 .. Len(s)
        /\ \A i \in 1 .. M : h[i] \in places /\ t[i] = s[h[i]]
        /\ \A i, j \in 1 .. M : i < j => h[i] < h[j]
        /\ \A n \in 1 .. Len(s) : n \in places => \E i \in 1 .. M : h[i] = n
    BY <1>1, <1>2 DEF Picks
  <2>2. \A i \in 1 .. M : h[i] \in Nat
    BY <2>1
  <2> QED
    BY <2>1, <2>2
<1>4. \A i \in 1 .. N : g[i] \in places /\ g[i] \in Nat
  <2>1. places \subseteq Nat
    OBVIOUS
  <2> QED
    BY <1>0, <2>1
\* Both ways reach the same place next.
<1>5. ASSUME NEW i \in 1 .. M, i \in 1 .. N, \A j \in 1 .. i - 1 : h[j] = g[j]
      PROVE  h[i] = g[i]
  <2>1. PICK a \in 1 .. N : g[a] = h[i]
    BY <1>0, <1>3
  <2>2. PICK c \in 1 .. M : h[c] = g[i]
    BY <1>3, <1>4, <1>5
  <2>3. i <= a
    <3> SUFFICES ASSUME a < i PROVE FALSE
      OBVIOUS
    <3>1. a \in 1 .. i - 1 /\ a \in 1 .. M
      BY <1>3
    <3>2. h[a] = g[a] /\ h[a] < h[i] /\ h[i] \in Nat
      BY <1>3, <1>5, <3>1
    <3> QED
      BY <2>1, <3>2
  <2>4. i <= c
    <3> SUFFICES ASSUME c < i PROVE FALSE
      OBVIOUS
    <3>1. c \in 1 .. i - 1 /\ c \in 1 .. N
      BY <1>5
    <3>2. h[c] = g[c] /\ g[c] < g[i] /\ g[i] \in Nat
      BY <1>0, <1>4, <1>5, <3>1
    <3> QED
      BY <2>2, <3>2
  <2>5. g[i] <= g[a] /\ h[i] <= h[c]
    <3>1. a = i \/ g[i] < g[a]
      BY <1>0, <1>5, <2>3
    <3>2. c = i \/ h[i] < h[c]
      BY <1>3, <2>4
    <3>3. h[i] \in Nat /\ g[i] \in Nat
      BY <1>3, <1>4, <1>5
    <3>4. g[i] <= g[a]
      BY <2>1, <3>1, <3>3
    <3>5. h[i] <= h[c]
      BY <2>2, <3>2, <3>3
    <3> QED
      BY <3>4, <3>5
  <2> QED
    BY <1>3, <1>4, <1>5, <2>1, <2>2, <2>5
<1> DEFINE B == {i \in 1 .. M : i <= N /\ h[i] # g[i]}
<1>6. B = {}
  <2> SUFFICES ASSUME B # {} PROVE FALSE
    OBVIOUS
  <2>1. B \subseteq Nat
    OBVIOUS
  <2>2. Min(B) \in B /\ \A n \in B : Min(B) =< n
    <3> HIDE DEF B
    <3> QED
      BY <2>1, LeastElement
  <2>3. PICK x : x \in B /\ \A n \in B : x =< n
    BY <2>2
  <2>4. x \in 1 .. M /\ x \in 1 .. N
    BY <1>3, <2>3
  <2>5. \A j \in 1 .. x - 1 : h[j] = g[j]
    <3> SUFFICES ASSUME NEW j \in 1 .. x - 1, h[j] # g[j] PROVE FALSE
      OBVIOUS
    <3>1. x \in Nat /\ x <= M /\ x <= N
      BY <1>3, <2>4
    <3>2. j \in 1 .. M /\ j <= N /\ j < x /\ j \in Nat
      BY <1>3, <3>1
    <3>3. j \in B
      BY <3>2
    <3> QED
      BY <2>3, <3>1, <3>2, <3>3
  <2> QED
    BY <1>5, <2>3, <2>4, <2>5
<1>7. \A i \in 1 .. M : i <= N => h[i] = g[i]
  BY <1>6
<1>8. M <= N
  <2> SUFFICES ASSUME N < M PROVE FALSE
    BY <1>3
  <2>1. N + 1 \in 1 .. M
    BY <1>3
  <2>2. PICK a \in 1 .. N : g[a] = h[N + 1]
    BY <1>0, <1>3, <2>1
  <2>3. a \in 1 .. M /\ a < N + 1 /\ h[a] = g[a]
    BY <1>3, <1>7
  <2>4. h[a] < h[N + 1] /\ h[a] \in Nat
    BY <1>3, <2>1, <2>3
  <2> QED
    BY <2>2, <2>3, <2>4
<1>9. N <= M
  <2> SUFFICES ASSUME M < N PROVE FALSE
    BY <1>3
  <2>1. M + 1 \in 1 .. N
    BY <1>3
  <2>2. PICK c \in 1 .. M : h[c] = g[M + 1]
    BY <1>3, <1>4, <2>1
  <2>3. c \in 1 .. N /\ c < M + 1 /\ h[c] = g[c]
    BY <1>3, <1>7
  <2>4. g[c] < g[M + 1] /\ g[c] \in Nat
    BY <1>0, <1>4, <2>1, <2>3
  <2> QED
    BY <2>2, <2>3, <2>4
<1>10. M = N
  BY <1>3, <1>8, <1>9
<1>11. \A i \in 1 .. N : t[i] = s[g[i]]
  <2> SUFFICES ASSUME NEW i \in 1 .. N PROVE t[i] = s[g[i]]
    OBVIOUS
  <2>1. i \in 1 .. M /\ i <= N
    BY <1>10
  <2> QED
    BY <1>3, <1>7, <2>1
<1> QED
  BY <1>1, <1>2, <1>10, <1>11

\* Everything is selected if everything is to be.
LEMMA SelectedAll ==
    ASSUME NEW S, NEW s \in Seq(S)
    PROVE  Selected(s, 1 .. Len(s)) = s
<1> DEFINE g == [i \in 1 .. Len(s) |-> i]
           t == Selected(s, 1 .. Len(s))
<1>1. /\ g \in [1 .. Len(s) -> 1 .. Len(s)] /\ Len(s) \in Nat /\ 1 .. Len(s) \subseteq DOMAIN s
      /\ Enumerates(g, Len(s), 1 .. Len(s)) /\ \A i \in 1 .. Len(s) : g[i] = i
  BY DEF Enumerates
<1> HIDE DEF g, t
<1>2. t \in Seq(S) /\ Len(t) = Len(s) /\ \A i \in 1 .. Len(s) : t[i] = s[g[i]]
  BY <1>1, SelectedAlong DEF t
<1>3. t = s
  BY <1>1, <1>2, SeqEqual
<1> QED
  BY <1>3 DEF t

\* f goes from one set of places to another, in their order.
Alike(f, others, places) ==
    /\ f \in [others -> places]
    /\ \A x, y \in others : x < y => f[x] < f[y]
    /\ \A n \in places : \E x \in others : f[x] = n

\* Element by element, v is from the place in s that f says for the one in t that
\* u is from.
Match(v, s, u, t, f, others) ==
    /\ Len(v) = Len(u)
    /\ \A i \in 1 .. Len(u) : \E x \in others : u[i] = t[x] /\ v[i] = s[f[x]]

\* Selections from two sequences correspond if their places do.
LEMMA SelectedAlike ==
    ASSUME NEW S, NEW s \in Seq(S), NEW places, places \subseteq DOMAIN s,
           NEW T, NEW t \in Seq(T), NEW others, others \subseteq DOMAIN t,
           NEW f, Alike(f, others, places)
    PROVE  /\ Selected(s, places) \in Seq(S) /\ Selected(t, others) \in Seq(T)
           /\ Match(Selected(s, places), s, Selected(t, others), t, f, others)
<1>0. /\ f \in [others -> places]
      /\ \A x, y \in others : x < y => f[x] < f[y]
      /\ \A n \in places : \E x \in others : f[x] = n
  BY DEF Alike
<1>1. PICK u, h : /\ u = Selected(t, others) /\ u \in Seq(T)
                  /\ Picks(u, t, others, Len(t), h)
  BY SelectedIs
<1>2. PICK N : N = Len(u)
  OBVIOUS
<1>3. /\ N \in Nat /\ DOMAIN t = 1 .. Len(t)
      /\ \A i \in 1 .. N : h[i] \in others /\ u[i] = t[h[i]]
      /\ \A i, j \in 1 .. N : i < j => h[i] < h[j]
      /\ \A x \in 1 .. Len(t) : x \in others => \E i \in 1 .. N : h[i] = x
  BY <1>1, <1>2 DEF Picks
<1>4. PICK g : g = [i \in 1 .. N |-> f[h[i]]]
  OBVIOUS
<1>5. \A i \in 1 .. N : g[i] = f[h[i]] /\ f[h[i]] \in places
  BY <1>0, <1>3, <1>4
<1>6. g \in [1 .. N -> places]
  BY <1>5, <1>4
<1>7. \A i, j \in 1 .. N : i < j => g[i] < g[j]
  <2> SUFFICES ASSUME NEW i \in 1 .. N, NEW j \in 1 .. N, i < j PROVE g[i] < g[j]
    OBVIOUS
  <2>1. h[i] \in others /\ h[j] \in others /\ h[i] < h[j]
    BY <1>3
  <2>2. f[h[i]] < f[h[j]]
    BY <1>0, <2>1
  <2> QED
    BY <1>5, <2>2
<1>8. \A n \in places : \E i \in 1 .. N : g[i] = n
  <2> SUFFICES ASSUME NEW n \in places PROVE \E i \in 1 .. N : g[i] = n
    OBVIOUS
  <2>1. PICK x \in others : f[x] = n
    BY <1>0
  <2>2. PICK i \in 1 .. N : h[i] = x
    BY <1>3, <2>1
  <2> QED
    BY <1>5, <2>1, <2>2
<1>9. PICK v : v = Selected(s, places)
  OBVIOUS
<1>10. v \in Seq(S) /\ Len(v) = N /\ \A i \in 1 .. N : v[i] = s[g[i]]
  <2>1. Enumerates(g, N, places)
    BY <1>6, <1>7, <1>8 DEF Enumerates
  <2>2. N \in Nat
    BY <1>3
  <2>3. /\ Selected(s, places) \in Seq(S) /\ Len(Selected(s, places)) = N
        /\ \A i \in 1 .. N : Selected(s, places)[i] = s[g[i]]
    BY <2>1, <2>2, SelectedAlong, SMTT(30)
  <2> QED
    BY <1>9, <2>3, Zenon
<1>11. \A i \in 1 .. N : \E x \in others : u[i] = t[x] /\ v[i] = s[f[x]]
  <2> SUFFICES ASSUME NEW i \in 1 .. N
               PROVE  \E x \in others : u[i] = t[x] /\ v[i] = s[f[x]]
    OBVIOUS
  <2>1. h[i] \in others /\ u[i] = t[h[i]] /\ v[i] = s[f[h[i]]]
    BY <1>3, <1>5, <1>10
  <2> QED
    BY <2>1
<1> QED
  BY <1>1, <1>2, <1>9, <1>10, <1>11 DEF Match

IsRest(left, s, k) ==
    Len(left) = Len(s) - k /\ \A i \in 1 .. Len(left) : left[i] = s[k + i]

\* Where everything from a place on is selected, it comes as it is after what has
\* been selected before.
LEMMA SelectedRest ==
    ASSUME NEW S, NEW s \in Seq(S), NEW places, NEW k \in 0 .. Len(s),
           \A n \in k + 1 .. Len(s) : n \in places,
           NEW left \in Seq(S), IsRest(left, s, k)
    PROVE  Selected(s, places) = Selecting(s, places)[k] \o left
<1> USE DEF IsRest
<1>1. PICK f : /\ f = Selecting(s, places) /\ f \in [0 .. Len(s) -> Seq(S)]
               /\ f[0] = <<>>
               /\ \A n \in 1 .. Len(s) :
                    f[n] = IF n \in places THEN Append(f[n - 1], s[n]) ELSE f[n - 1]
  BY SelectingIs
<1>2. PICK all, before, m : all = f[k] \o left /\ before = f[k] /\ m = Len(before)
  OBVIOUS
<1>3. /\ before \in Seq(S) /\ m \in Nat /\ all \in Seq(S) /\ Len(all) = m + Len(left)
      /\ \A i \in 1 .. m : all[i] = before[i]
      /\ \A i \in 1 .. Len(left) : all[m + i] = left[i]
  <2>1. before \in Seq(S) /\ all = before \o left /\ m = Len(before)
    BY <1>1, <1>2
  <2>2. /\ all \in Seq(S) /\ Len(all) = m + Len(left)
        /\ \A i \in 1 .. m + Len(left) : all[i] = IF i <= m THEN before[i] ELSE left[i - m]
    BY <2>1, ConcatProperties
  <2>3. m \in Nat /\ Len(left) \in Nat
    BY <2>1
  <2>4. ASSUME NEW i \in 1 .. Len(left) PROVE all[m + i] = left[i]
    <3>1. m + i \in 1 .. m + Len(left) /\ ~(m + i <= m) /\ (m + i) - m = i
      BY <2>3
    <3> QED
      BY <2>2, <3>1
  <2>5. \A i \in 1 .. m : i \in 1 .. m + Len(left) /\ i <= m
    BY <2>3
  <2> QED
    BY <2>1, <2>2, <2>3, <2>4, <2>5
<1> DEFINE Fits(j) == Len(f[k + j]) = m + j /\ \A i \in 1 .. m + j : f[k + j][i] = all[i]
           B == {j \in 0 .. Len(left) : ~Fits(j)}
<1>4. B = {}
  <2> SUFFICES ASSUME B # {} PROVE FALSE
    OBVIOUS
  <2>1. B \subseteq Nat
    OBVIOUS
  <2>2. Min(B) \in B /\ \A n \in B : Min(B) =< n
    <3> HIDE DEF B
    <3> QED
      BY <2>1, LeastElement
  <2>3. PICK x : x \in B /\ \A n \in B : x =< n
    BY <2>2
  <2>4. x # 0
    <3>1. f[k + 0] = before
      BY <1>2
    <3>2. Fits(0)
      BY <1>2, <1>3, <3>1
    <3> QED
      BY <2>3, <3>2
  <2>5. x \in 1 .. Len(left) /\ x - 1 \in 0 .. Len(left) /\ x - 1 \notin B
    BY <2>3, <2>4
  <2>6. Fits(x - 1)
    BY <2>5
  <2>7. PICK t, n : t = f[k + (x - 1)] /\ n = k + x
    OBVIOUS
  <2>8. n \in 1 .. Len(s) /\ n - 1 = k + (x - 1) /\ k + (x - 1) \in 0 .. Len(s) /\ n \in places
    BY <2>5, <2>7
  <2>9. t \in Seq(S) /\ f[n] = Append(t, s[n]) /\ s[n] \in S /\ s[n] = left[x]
    <3>1. t \in Seq(S) /\ f[n] = Append(t, s[n])
      BY <1>1, <2>7, <2>8
    <3>2. s[n] \in S
      BY <2>8
    <3> QED
      BY <2>5, <2>7, <3>1, <3>2
  <2>10. Len(t) = m + (x - 1) /\ \A i \in 1 .. m + (x - 1) : t[i] = all[i]
    BY <2>6, <2>7
  <2>11. PICK u : u = f[n]
    OBVIOUS
  <2>12. Len(u) = Len(t) + 1 /\ u[Len(t) + 1] = s[n] /\ \A i \in 1 .. Len(t) : u[i] = t[i]
    BY <2>9, <2>11
  <2>13. Len(t) = m + (x - 1) /\ Len(t) + 1 = m + x /\ Len(u) = m + x
    <3>1. x \in Nat /\ m \in Nat
      BY <1>3, <2>5
    <3>2. Len(t) = m + (x - 1) /\ Len(u) = Len(t) + 1
      BY <2>10, <2>12, Zenon
    <3> QED
      BY <3>1, <3>2
  <2>14. \A i \in 1 .. m + x : u[i] = all[i]
    <3> SUFFICES ASSUME NEW i \in 1 .. m + x PROVE u[i] = all[i]
      OBVIOUS
    <3>1. CASE i = m + x
      BY <1>3, <2>5, <2>9, <2>12, <2>13, <3>1
    <3>2. CASE i # m + x
      <4>1. i \in 1 .. m + (x - 1)
        BY <1>3, <2>5, <3>2
      <4> QED
        BY <2>10, <2>12, <2>13, <4>1
    <3> QED
      BY <3>1, <3>2
  <2>15. Fits(x)
    BY <2>7, <2>11, <2>13, <2>14
  <2> QED
    BY <2>3, <2>15
<1>5. PICK r : r = Len(left)
  OBVIOUS
<1>6. r \in 0 .. Len(left) /\ k + r = Len(s) /\ Len(s) \in 0 .. Len(s)
  BY <1>5
<1>7. Fits(r)
  BY <1>4, <1>6
<1>8. Len(f[Len(s)]) = Len(all) /\ \A i \in 1 .. Len(all) : f[Len(s)][i] = all[i]
  BY <1>3, <1>5, <1>6, <1>7
<1>9. f[Len(s)] \in Seq(S)
  BY <1>1, <1>6
<1>10. f[Len(s)] = all
  BY <1>3, <1>8, <1>9, SeqEqual
<1> QED
  BY <1>1, <1>2, <1>10 DEF Selected

-----------------------------------------------------------------------------
(* Sequences of whatever it is.                                              *)

IsSeq(s) == \E S : s \in Seq(S)

LEMMA SingleWord == \A w : IsSeq(<<w>>) /\ Len(<<w>>) = 1 /\ <<w>>[1] = w
<1> SUFFICES ASSUME NEW w PROVE IsSeq(<<w>>) /\ Len(<<w>>) = 1 /\ <<w>>[1] = w
  OBVIOUS
<1>1. <<w>> \in Seq({w})
  OBVIOUS
<1> QED
  BY <1>1 DEF IsSeq

LEMMA Concatenation ==
    ASSUME NEW s, IsSeq(s), NEW t, IsSeq(t)
    PROVE  /\ IsSeq(s \o t)
           /\ Len(s) \in Nat /\ Len(t) \in Nat
           /\ Len(s \o t) = Len(s) + Len(t)
           /\ \A i \in 1 .. Len(s) : (s \o t)[i] = s[i]
           /\ \A i \in 1 .. Len(t) : (s \o t)[Len(s) + i] = t[i]
<1>1. PICK S, T : s \in Seq(S) /\ t \in Seq(T)
  BY DEF IsSeq
<1>2. s \in Seq(S \cup T) /\ t \in Seq(S \cup T)
  BY <1>1
<1>3. s \o t \in Seq(S \cup T)
  BY <1>2
<1>4. IsSeq(s \o t)
  BY <1>3 DEF IsSeq
<1> QED
  BY <1>2, <1>4

-----------------------------------------------------------------------------
(* What the last word with an option says, and what the first.                *)

Lacks(ws, opt) == \A j \in 1 .. Len(ws) : ws[j].opt # opt

LastIs(ws, opt, text) ==
    \E j \in 1 .. Len(ws) : /\ ws[j].opt = opt /\ ws[j].text = text
                            /\ \A k \in 1 .. Len(ws) : k > j => ws[k].opt # opt
FirstIs(ws, opt, text) ==
    \E j \in 1 .. Len(ws) : /\ ws[j].opt = opt /\ ws[j].text = text
                            /\ \A k \in 1 .. Len(ws) : k < j => ws[k].opt # opt

LEMMA PlacesOfBoth ==
    ASSUME NEW s, IsSeq(s), NEW t, IsSeq(t), NEW k \in 1 .. Len(s \o t)
    PROVE  \/ k \in 1 .. Len(s) /\ (s \o t)[k] = s[k]
           \/ \E i \in 1 .. Len(t) : k = Len(s) + i /\ (s \o t)[k] = t[i]
<1>1. PICK u : u = s \o t
  OBVIOUS
<1>2. /\ Len(s) \in Nat /\ Len(t) \in Nat /\ Len(u) = Len(s) + Len(t)
      /\ \A i \in 1 .. Len(s) : u[i] = s[i]
      /\ \A i \in 1 .. Len(t) : u[Len(s) + i] = t[i]
  BY <1>1, Concatenation
<1>3. CASE k <= Len(s)
  BY <1>1, <1>2, <1>3
<1>4. CASE k > Len(s)
  <2>1. k - Len(s) \in 1 .. Len(t) /\ k = Len(s) + (k - Len(s))
    BY <1>1, <1>2, <1>4
  <2> QED
    BY <1>1, <1>2, <2>1
<1> QED
  BY <1>1, <1>2, <1>3, <1>4

LEMMA BothLack ==
    ASSUME NEW s, IsSeq(s), NEW t, IsSeq(t), NEW opt, Lacks(s, opt), Lacks(t, opt)
    PROVE  Lacks(s \o t, opt)
BY PlacesOfBoth DEF Lacks

LEMMA LastOfBoth ==
    ASSUME NEW s, IsSeq(s), NEW t, IsSeq(t), NEW opt, NEW text,
           \/ LastIs(t, opt, text)
           \/ LastIs(s, opt, text) /\ Lacks(t, opt)
    PROVE  LastIs(s \o t, opt, text)
<1>1. PICK u : u = s \o t
  OBVIOUS
<1>2. /\ Len(s) \in Nat /\ Len(t) \in Nat /\ Len(u) = Len(s) + Len(t)
      /\ \A i \in 1 .. Len(s) : u[i] = s[i]
      /\ \A i \in 1 .. Len(t) : u[Len(s) + i] = t[i]
  BY <1>1, Concatenation
<1>3. \A k \in 1 .. Len(u) : \/ k \in 1 .. Len(s) /\ u[k] = s[k]
                             \/ \E i \in 1 .. Len(t) : k = Len(s) + i /\ u[k] = t[i]
  BY <1>1, PlacesOfBoth
<1>4. CASE LastIs(t, opt, text)
  <2>1. PICK j \in 1 .. Len(t) : /\ t[j].opt = opt /\ t[j].text = text
                                 /\ \A k \in 1 .. Len(t) : k > j => t[k].opt # opt
    BY <1>4 DEF LastIs
  <2>2. Len(s) + j \in 1 .. Len(u) /\ u[Len(s) + j] = t[j]
    BY <1>2
  <2>3. ASSUME NEW k \in 1 .. Len(u), k > Len(s) + j PROVE u[k].opt # opt
    <3>1. PICK i \in 1 .. Len(t) : k = Len(s) + i /\ u[k] = t[i]
      BY <1>2, <1>3, <2>3
    <3>2. i > j
      BY <1>2, <2>3, <3>1
    <3> QED
      BY <2>1, <3>1, <3>2
  <2> QED
    BY <1>1, <2>1, <2>2, <2>3 DEF LastIs
<1>5. CASE LastIs(s, opt, text) /\ Lacks(t, opt)
  <2>1. PICK j \in 1 .. Len(s) : /\ s[j].opt = opt /\ s[j].text = text
                                 /\ \A k \in 1 .. Len(s) : k > j => s[k].opt # opt
    BY <1>5 DEF LastIs
  <2>2. j \in 1 .. Len(u) /\ u[j] = s[j]
    BY <1>2
  <2>3. ASSUME NEW k \in 1 .. Len(u), k > j PROVE u[k].opt # opt
    BY <1>3, <1>5, <2>1, <2>3 DEF Lacks
  <2> QED
    BY <1>1, <2>1, <2>2, <2>3 DEF LastIs
<1> QED
  BY <1>4, <1>5

LEMMA FirstOfBoth ==
    ASSUME NEW s, IsSeq(s), NEW t, IsSeq(t), NEW opt, NEW text, FirstIs(s, opt, text)
    PROVE  FirstIs(s \o t, opt, text)
<1>1. PICK u : u = s \o t
  OBVIOUS
<1>2. /\ Len(s) \in Nat /\ Len(t) \in Nat /\ Len(u) = Len(s) + Len(t)
      /\ \A i \in 1 .. Len(s) : u[i] = s[i]
  BY <1>1, Concatenation
<1>3. PICK j \in 1 .. Len(s) : /\ s[j].opt = opt /\ s[j].text = text
                               /\ \A k \in 1 .. Len(s) : k < j => s[k].opt # opt
  BY DEF FirstIs
<1>4. j \in 1 .. Len(u) /\ u[j] = s[j]
  BY <1>2
<1>5. ASSUME NEW k \in 1 .. Len(u), k < j PROVE u[k].opt # opt
  <2>1. k \in 1 .. Len(s)
    BY <1>2, <1>5
  <2> QED
    BY <1>2, <1>3, <1>5, <2>1
<1> QED
  BY <1>1, <1>3, <1>4, <1>5 DEF FirstIs

\* A selection in which are all words with the option.
LEMMA OfSelected ==
    ASSUME NEW s, IsSeq(s), NEW places, NEW opt, NEW text
    PROVE  /\ IsSeq(Selected(s, places))
           /\ Lacks(s, opt) => Lacks(Selected(s, places), opt)
           /\ (\A j \in DOMAIN s : s[j].opt = opt => j \notin places)
                => Lacks(Selected(s, places), opt)
           /\ (\A j \in DOMAIN s : s[j].opt = opt => j \in places) =>
                /\ LastIs(s, opt, text) => LastIs(Selected(s, places), opt, text)
                /\ FirstIs(s, opt, text) => FirstIs(Selected(s, places), opt, text)
<1>1. PICK S : s \in Seq(S)
  BY DEF IsSeq
<1>2. PICK t, h : /\ t = Selected(s, places) /\ t \in Seq(S)
                  /\ Picks(t, s, places, Len(s), h)
  BY <1>1, SelectedIs
<1>3. IsSeq(t) /\ DOMAIN s = 1 .. Len(s)
  BY <1>1, <1>2 DEF IsSeq
<1>4. /\ \A i \in 1 .. Len(t) : /\ h[i] \in 1 .. Len(s) /\ h[i] \in places
                                /\ t[i] = s[h[i]]
      /\ \A i, j \in 1 .. Len(t) : i < j => h[i] < h[j]
      /\ \A m \in 1 .. Len(s) : m \in places => \E i \in 1 .. Len(t) : h[i] = m
  BY <1>2 DEF Picks
<1>5. Lacks(s, opt) => Lacks(t, opt)
  BY <1>4 DEF Lacks
<1>6. (\A j \in DOMAIN s : s[j].opt = opt => j \notin places) => Lacks(t, opt)
  BY <1>3, <1>4 DEF Lacks
<1>7. ASSUME \A j \in DOMAIN s : s[j].opt = opt => j \in places, LastIs(s, opt, text)
      PROVE  LastIs(t, opt, text)
  <2>1. PICK j \in 1 .. Len(s) : /\ s[j].opt = opt /\ s[j].text = text
                                 /\ \A k \in 1 .. Len(s) : k > j => s[k].opt # opt
    BY <1>7 DEF LastIs
  <2>2. PICK i \in 1 .. Len(t) : h[i] = j
    BY <1>3, <1>4, <1>7, <2>1
  <2>3. \A k \in 1 .. Len(t) : k > i => t[k].opt # opt
    BY <1>4, <2>1, <2>2
  <2> QED
    BY <1>4, <2>1, <2>2, <2>3 DEF LastIs
<1>8. ASSUME \A j \in DOMAIN s : s[j].opt = opt => j \in places, FirstIs(s, opt, text)
      PROVE  FirstIs(t, opt, text)
  <2>1. PICK j \in 1 .. Len(s) : /\ s[j].opt = opt /\ s[j].text = text
                                 /\ \A k \in 1 .. Len(s) : k < j => s[k].opt # opt
    BY <1>8 DEF FirstIs
  <2>2. PICK i \in 1 .. Len(t) : h[i] = j
    BY <1>3, <1>4, <1>8, <2>1
  <2>3. \A k \in 1 .. Len(t) : k < i => t[k].opt # opt
    BY <1>4, <2>1, <2>2
  <2> QED
    BY <1>4, <2>1, <2>2, <2>3 DEF FirstIs
<1> QED
  BY <1>2, <1>3, <1>5, <1>6, <1>7, <1>8

\* The same of the places at which the option is.
LEMMA WhereLast ==
    ASSUME NEW ws, IsSeq(ws), NEW opt, NEW text, LastIs(ws, opt, text)
    PROVE  LET given == Where(ws, {opt})
           IN  given # {} /\ ws[Max(given)].text = text
<1>1. DOMAIN ws = 1 .. Len(ws)
  BY DEF IsSeq
<1>2. PICK j \in 1 .. Len(ws) : /\ ws[j].opt = opt /\ ws[j].text = text
                                /\ \A k \in 1 .. Len(ws) : k > j => ws[k].opt # opt
  BY DEF LastIs
<1> DEFINE given == Where(ws, {opt})
<1>3. j \in given /\ \A k \in given : k \in Int /\ j >= k
  BY <1>1, <1>2 DEF Where
<1>4. Max(given) = j
  <2> HIDE DEF given
  <2>1. \A x \in given : (\A y \in given : x >= y) => x = j
    BY <1>3
  <2> QED
    BY <1>3, <2>1 DEF Max
<1> QED
  BY <1>2, <1>3, <1>4

LEMMA WhereFirst ==
    ASSUME NEW ws, IsSeq(ws), NEW opt, NEW text, FirstIs(ws, opt, text)
    PROVE  ws[Min(Where(ws, {opt}))].text = text
<1>1. DOMAIN ws = 1 .. Len(ws)
  BY DEF IsSeq
<1>2. PICK j \in 1 .. Len(ws) : /\ ws[j].opt = opt /\ ws[j].text = text
                                /\ \A k \in 1 .. Len(ws) : k < j => ws[k].opt # opt
  BY DEF FirstIs
<1> DEFINE given == Where(ws, {opt})
<1>3. j \in given /\ \A k \in given : k \in Int /\ j <= k
  BY <1>1, <1>2 DEF Where
<1>4. Min(given) = j
  <2> HIDE DEF given
  <2>1. \A x \in given : (\A y \in given : x <= y) => x = j
    BY <1>3
  <2> QED
    BY <1>3, <2>1 DEF Min
<1> QED
  BY <1>2, <1>4

LEMMA WhereNone ==
    ASSUME NEW ws, IsSeq(ws), NEW opt
    PROVE  Lacks(ws, opt) <=> Where(ws, {opt}) = {}
<1>1. DOMAIN ws = 1 .. Len(ws)
  BY DEF IsSeq
<1> QED
  BY <1>1 DEF Lacks, Where

\* Conversely, the last of the places says what the last word says.
LEMMA LastIsWhere ==
    ASSUME NEW ws, IsSeq(ws), NEW opt, Where(ws, {opt}) # {}
    PROVE  LastIs(ws, opt, ws[Max(Where(ws, {opt}))].text)
<1>1. DOMAIN ws = 1 .. Len(ws) /\ Len(ws) \in Nat
  BY DEF IsSeq
<1> DEFINE given == Where(ws, {opt})
<1>2. given \subseteq 0 .. Len(ws) /\ given # {}
  BY <1>1 DEF Where
<1>3. Max(given) \in given /\ \A k \in given : k =< Max(given)
  <2> HIDE DEF given
  <2> QED
    BY <1>1, <1>2, GreatestElement
<1>4. PICK m : m = Max(given)
  OBVIOUS
<1>5. m \in 1 .. Len(ws) /\ ws[m].opt = opt /\ \A k \in 1 .. Len(ws) : ws[k].opt = opt => k =< m
  BY <1>1, <1>3, <1>4 DEF Where
<1>6. \A k \in 1 .. Len(ws) : k > m => ws[k].opt # opt
  BY <1>5
<1> QED
  BY <1>4, <1>5, <1>6 DEF LastIs
=============================================================================
