------------------------- MODULE AvailabilityProofs -------------------------
(***************************************************************************)
(* Theorems about the trainer calendar: intervals are computed right from  *)
(* any rows, what follows from them is right unit by unit, and no request  *)
(* uncovers or double-books a class that an assignment has looked at.      *)
(***************************************************************************)
EXTENDS Availability, FiniteSetTheorems, FunctionTheorems, SequenceTheorems,
        WellFoundedInduction, TLAPS

-----------------------------------------------------------------------------
(* Folds and sorted lists.                                                 *)

LEMMA LeastNat ==
  ASSUME NEW S, S \subseteq Nat, S # {}
  PROVE  \E n \in S : \A m \in S : n <= m
  <1>1. PICK n \in S : \A m \in S : <<m, n>> \notin OpToRel(<, Nat)
    BY NatLessThanWellFounded, WFMin, Zenon
  <1>2. \A m \in S : ~(m < n)
    BY <1>1, Zenon DEF OpToRel
  <1>. QED BY <1>2

(* The equation of a fold over the first n positions, whose step takes a   *)
(* result and a position.                                                  *)
Folds(g, n, base, step) ==
  g = [s \in SUBSET (1..n) |-> IF s = {} THEN base ELSE step[<<g[s \ {Max(s)}], Max(s)>>]]

LEMMA MaxOf ==
  ASSUME NEW n \in Nat, NEW s \in SUBSET (1..n), s # {}
  PROVE  Max(s) \in s /\ \A x \in s : x <= Max(s)
  <1>. DEFINE up == {m \in 0..n : \A x \in s : x <= m}
  <1>1. up \subseteq Nat /\ n \in up
    OBVIOUS
  <1>2. PICK m \in up : \A k \in up : m <= k
    BY <1>1, LeastNat
  <1>3. m \in s
    <2>1. SUFFICES ASSUME m \notin s PROVE FALSE
      OBVIOUS
    <2>2. PICK x \in s : TRUE
      OBVIOUS
    <2>3. \A y \in s : y \in 1..n /\ y <= m - 1
      BY <1>2, <2>1
    <2>4. m - 1 \in 0..n
      BY <1>2, <2>2, <2>3
    <2>5. m - 1 \in up
      BY <2>3, <2>4
    <2>6. m <= m - 1 /\ m \in Nat
      BY <1>2, <2>5
    <2>. QED BY <2>6
  <1>4. \E x \in s : \A y \in s : x >= y
    BY <1>2, <1>3
  <1>5. Max(s) \in s /\ \A y \in s : Max(s) >= y
    BY <1>4, Zenon DEF Max
  <1>. QED BY <1>5

LEMMA EmptyRange == 1..0 = {}
  OBVIOUS

LEMMA MaxOfFirst ==
  ASSUME NEW k \in Nat, k # 0
  PROVE  Max(1..k) = k /\ (1..k) \ {k} = 1..k - 1
  <1>1. 1..k \in SUBSET (1..k) /\ k \in 1..k /\ 1..k # {}
    OBVIOUS
  <1>2. Max(1..k) \in 1..k /\ \A x \in 1..k : x <= Max(1..k)
    BY <1>1, MaxOf, Zenon
  <1>. QED BY <1>1, <1>2

LEMMA FoldsMore ==
  ASSUME NEW V, NEW n \in Nat, NEW base \in V, NEW k \in 0..n - 1, NEW step \in [V \X (1..n) -> V],
         NEW g \in [SUBSET (1..k) -> V], Folds(g, k, base, step)
  PROVE  \E h \in [SUBSET (1..k + 1) -> V] : Folds(h, k + 1, base, step)
  <1>. DEFINE D == SUBSET (1..k + 1)
              h == [s \in D |-> IF k + 1 \in s THEN step[<<g[s \ {k + 1}], k + 1>>] ELSE g[s]]
  <1>1. \A s \in D : s \ {k + 1} \in SUBSET (1..k)
    OBVIOUS
  <1>2. h \in [D -> V]
    <2>1. ASSUME NEW s \in D PROVE h[s] \in V
      <3>1. CASE k + 1 \in s
        <4>1. g[s \ {k + 1}] \in V
          BY <1>1
        <4>2. <<g[s \ {k + 1}], k + 1>> \in V \X (1..n)
          BY <4>1
        <4>. QED BY <3>1, <4>2
      <3>2. CASE k + 1 \notin s
        BY <3>2
      <3>. QED BY <3>1, <3>2
    <2>. QED BY <2>1
  <1>3. ASSUME NEW s \in D
        PROVE  h[s] = IF s = {} THEN base ELSE step[<<h[s \ {Max(s)}], Max(s)>>]
    <2>1. CASE k + 1 \in s
      <3>0. k + 1 \in Nat /\ s \in SUBSET (1..k + 1) /\ s # {}
        BY <2>1
      <3>1. Max(s) = k + 1
        <4>1. Max(s) \in s /\ \A x \in s : x <= Max(s)
          BY <3>0, MaxOf, Zenon
        <4>2. \A x \in s : x <= k + 1
          BY <3>0
        <4>3. Max(s) \in 1..k + 1
          BY <3>0, <4>1
        <4>. QED BY <2>1, <4>1, <4>2, <4>3
      <3>2. s \ {k + 1} \in D /\ h[s \ {k + 1}] = g[s \ {k + 1}]
        BY <1>1
      <3>. QED BY <2>1, <3>1, <3>2
    <2>2. CASE k + 1 \notin s
      <3>1. s \in SUBSET (1..k) /\ h[s] = g[s]
        BY <2>2
      <3>2. CASE s = {}
        BY <3>1, <3>2 DEF Folds
      <3>3. CASE s # {}
        <4>0. k + 1 \in Nat /\ s \in SUBSET (1..k + 1)
          OBVIOUS
        <4>1. Max(s) \in s
          BY <3>3, <4>0, MaxOf, Zenon
        <4>2. s \ {Max(s)} \in D /\ h[s \ {Max(s)}] = g[s \ {Max(s)}]
          BY <3>1, <2>2
        <4>3. g[s] = step[<<g[s \ {Max(s)}], Max(s)>>]
          BY <3>1, <3>3 DEF Folds
        <4>. QED BY <3>1, <3>3, <4>2, <4>3
      <3>. QED BY <3>2, <3>3
    <2>. QED BY <2>1, <2>2
  <1>. HIDE DEF h
  <1>4. Folds(h, k + 1, base, step)
    BY <1>2, <1>3, Zenon DEF Folds
  <1>. QED BY <1>2, <1>4

LEMMA FoldExists ==
  ASSUME NEW V, NEW n \in Nat, NEW base \in V, NEW step \in [V \X (1..n) -> V]
  PROVE  \E g \in [SUBSET (1..n) -> V] : Folds(g, n, base, step)
  <1>. DEFINE Has(k) == \E g \in [SUBSET (1..k) -> V] : Folds(g, k, base, step)
              missing == {k \in 0..n : ~Has(k)}
  <1>1. Has(0)
    <2>. DEFINE g == [s \in SUBSET (1..0) |-> base]
    <2>1. g \in [SUBSET (1..0) -> V]
      OBVIOUS
    <2>2. \A s \in SUBSET (1..0) : s = {}
      OBVIOUS
    <2>3. Folds(g, 0, base, step)
      BY <2>2 DEF Folds
    <2>. QED BY <2>1, <2>3
  <1>2. ASSUME NEW k \in 0..n - 1, Has(k) PROVE Has(k + 1)
    BY <1>2, FoldsMore
  <1>. HIDE DEF Has
  <1>3. missing = {}
    <2>1. SUFFICES ASSUME missing # {} PROVE FALSE
      OBVIOUS
    <2>0. missing \subseteq Nat
      OBVIOUS
    <2>2. PICK k \in missing : \A m \in missing : k <= m
      BY <2>0, <2>1, LeastNat, Zenon
    <2>3. k # 0 /\ k - 1 \in 0..n - 1 /\ k - 1 \notin missing
      BY <1>1, <2>2
    <2>4. Has(k - 1)
      BY <2>3
    <2>5. Has(k - 1 + 1)
      BY <2>3, <2>4, <1>2
    <2>. QED BY <2>2, <2>5
  <1>4. Has(n)
    BY <1>3
  <1>. QED BY <1>4 DEF Has

(* The results of a fold, one position after the other.                    *)
Starts(iter, V, n, base, step) ==
  /\ iter[{}] = base
  /\ \A k \in 1..n : iter[1..k - 1] \in V => iter[1..k] = step[<<iter[1..k - 1], k>>]

Chain(h, V, n, base, step, last) ==
  h \in [0..n -> V] /\ h[0] = base /\ h[n] = last /\ \A k \in 1..n : h[k] = step[<<h[k - 1], k>>]

LEMMA FoldResults ==
  ASSUME NEW V, NEW n \in Nat, NEW base \in V, NEW step \in [V \X (1..n) -> V], NEW iter,
         Starts(iter, V, n, base, step)
  PROVE  \E h : Chain(h, V, n, base, step, iter[1..n])
  <1>. DEFINE h == [k \in 0..n |-> iter[1..k]]
              bad == {k \in 0..n : h[k] \notin V}
  <1>0. 0 \in 0..n /\ n \in 0..n /\ \A k \in 1..n : k \in 0..n /\ k - 1 \in 0..n
    OBVIOUS
  <1>1. h[0] = base
    BY <1>0, EmptyRange, Zenon DEF Starts
  <1>2. bad = {}
    <2>1. SUFFICES ASSUME bad # {} PROVE FALSE
      OBVIOUS
    <2>0. bad \subseteq Nat
      OBVIOUS
    <2>2. PICK k \in bad : \A m \in bad : k <= m
      BY <2>0, <2>1, LeastNat, Zenon
    <2>a. k \in 0..n /\ k # 0
      BY <1>1
    <2>b. k \in 1..n /\ k - 1 \in 0..n /\ ~(k <= k - 1)
      BY <2>a
    <2>3. k \in 1..n /\ k - 1 \in 0..n /\ k - 1 \notin bad
      BY <2>2, <2>b, Zenon
    <2>4. iter[1..k - 1] \in V /\ iter[1..k] = step[<<iter[1..k - 1], k>>]
      BY <2>3, Zenon DEF Starts
    <2>5. <<iter[1..k - 1], k>> \in V \X (1..n)
      BY <2>3, <2>4
    <2>6. iter[1..k] \in V
      BY <2>4, <2>5
    <2>. QED BY <2>2, <2>6
  <1>3. h \in [0..n -> V]
    BY <1>2
  <1>4. ASSUME NEW k \in 1..n PROVE h[k] = step[<<h[k - 1], k>>]
    <2>1. k - 1 \in 0..n /\ h[k - 1] = iter[1..k - 1] /\ h[k] = iter[1..k]
      BY <1>0, Zenon
    <2>2. iter[1..k - 1] \in V
      BY <1>3, <2>1
    <2>. QED BY <2>1, <2>2, Zenon DEF Starts
  <1>5. h[n] = iter[1..n]
    BY <1>0, Zenon
  <1>. HIDE DEF h
  <1>6. Chain(h, V, n, base, step, iter[1..n])
    BY <1>1, <1>3, <1>4, <1>5, Zenon DEF Chain
  <1>. QED BY <1>6, Zenon

-----------------------------------------------------------------------------
(* Lists of intervals.                                                     *)

Intervals == Int \X Int
In(list, u) == \E a \in DOMAIN list : list[a][1] <= u /\ u < list[a][2]
Within(set, u) == \E i \in set : i[1] <= u /\ u < i[2]
(* In order, none empty, and none touching the next.                       *)
Apart(list) ==
  /\ list \in Seq(Intervals)
  /\ \A a \in 1..Len(list) : list[a][1] < list[a][2]
  /\ \A a, b \in 1..Len(list) : a < b => list[a][2] < list[b][1]

LEMMA Ranks ==
  ASSUME NEW S, S \subseteq Intervals, IsFiniteSet(S), NEW x \in S
  PROVE  Cardinality({j \in S : Earlier(j, x)}) \in 0..Cardinality(S) - 1
  <1>. DEFINE below == {j \in S : Earlier(j, x)}
  <1>1. x \notin below /\ below \in SUBSET (S \ {x})
    BY DEF Earlier, Intervals
  <1>2. IsFiniteSet(S \ {x}) /\ Cardinality(S \ {x}) = Cardinality(S) - 1
    BY FS_RemoveElement
  <1>3. Cardinality(below) <= Cardinality(S \ {x}) /\ IsFiniteSet(below)
    BY <1>1, <1>2, FS_Subset, Zenon
  <1>4. Cardinality(below) \in Nat /\ Cardinality(S) \in Nat
    BY <1>3, FS_CardinalityType
  <1>. HIDE DEF below
  <1>5. Cardinality(below) \in 0..Cardinality(S) - 1
    BY <1>2, <1>3, <1>4
  <1>. QED BY <1>5 DEF below

LEMMA RanksGrow ==
  ASSUME NEW S, S \subseteq Intervals, IsFiniteSet(S), NEW x \in S, NEW y \in S, Earlier(x, y)
  PROVE  Cardinality({j \in S : Earlier(j, x)}) < Cardinality({j \in S : Earlier(j, y)})
  <1>. DEFINE T == {j \in S : Earlier(j, y)}
              below == {j \in S : Earlier(j, x)}
  <1>0. T \subseteq Intervals /\ x \in T
    OBVIOUS
  <1>1. IsFiniteSet(T)
    BY FS_Subset
  <1>2. \A j \in S : Earlier(j, x) => Earlier(j, y)
    BY DEF Earlier, Intervals
  <1>3. {j \in T : Earlier(j, x)} = below
    BY <1>2
  <1>4. Cardinality({j \in T : Earlier(j, x)}) \in 0..Cardinality(T) - 1
    BY <1>0, <1>1, Ranks
  <1>5. Cardinality(T) \in Nat
    BY <1>1, FS_CardinalityType
  <1>6. Cardinality(below) \in 0..Cardinality(T) - 1
    BY <1>3, <1>4
  <1>. HIDE DEF T, below
  <1>7. Cardinality(below) < Cardinality(T)
    BY <1>5, <1>6
  <1>. QED BY <1>7 DEF T, below

(* Sorted lists every interval of the set once, in order.                  *)
LEMMA SortedFacts ==
  ASSUME NEW S, S \subseteq Intervals, IsFiniteSet(S)
  PROVE  /\ Sorted(S) \in Seq(Intervals) /\ Len(Sorted(S)) = Cardinality(S)
         /\ Cardinality(S) \in Nat
         /\ \A n \in 1..Cardinality(S) : Sorted(S)[n] \in S
         /\ \A i \in S : \E n \in 1..Cardinality(S) : Sorted(S)[n] = i
         /\ \A m, n \in 1..Cardinality(S) : m < n => Sorted(S)[m][1] <= Sorted(S)[n][1]
  <1>. DEFINE N == Cardinality(S)
              Rank(x) == Cardinality({j \in S : Earlier(j, x)})
              f == [x \in S |-> Rank(x) + 1]
  <1>1. N \in Nat
    BY FS_CardinalityType
  <1>2. \A x \in S : Rank(x) \in 0..N - 1
    BY Ranks
  <1>3. \A x, y \in S : Earlier(x, y) => Rank(x) < Rank(y)
    BY RanksGrow
  <1>4. \A x, y \in S : x # y => Earlier(x, y) \/ Earlier(y, x)
    BY DEF Earlier, Intervals
  <1>. HIDE DEF N, Rank
  <1>5. f \in [S -> 1..N]
    BY <1>1, <1>2
  <1>6. \A x, y \in S : f[x] = f[y] => x = y
    <2>. SUFFICES ASSUME NEW x \in S, NEW y \in S, f[x] = f[y], x # y PROVE FALSE
      OBVIOUS
    <2>1. Rank(x) = Rank(y) /\ Rank(x) \in Int
      BY <1>1, <1>2
    <2>. QED BY <1>3, <1>4, <2>1
  <1>7. f \in Injection(S, 1..N)
    <2>1. DOMAIN f = S
      OBVIOUS
    <2>2. IsInjective(f)
      BY <1>6, <2>1, Zenon DEF IsInjective
    <2>. HIDE DEF f
    <2>. QED BY <1>5, <2>2, Zenon DEF Injection
  <1>8. IsFiniteSet(1..N) /\ Cardinality(1..N) = N
    BY <1>1, FS_Interval
  <1>9. \A n \in 1..N : \E x \in S : f[x] = n
    <2>1. f \in Surjection(S, 1..N)
      BY <1>7, <1>8, FS_Injection, Zenon DEF N
    <2>. HIDE DEF f
    <2>. QED BY <2>1, Zenon DEF Surjection
  <1>10. Sorted(S) = [n \in 1..N |-> CHOOSE i \in S : Rank(i) = n - 1]
    BY DEF Sorted, InOrder, N, Rank
  <1>. DEFINE s == [n \in 1..N |-> CHOOSE i \in S : Rank(i) = n - 1]
  <1>11. \A n \in 1..N : s[n] \in S /\ Rank(s[n]) = n - 1
    <2>. TAKE n \in 1..N
    <2>1. PICK x \in S : f[x] = n
      BY <1>9
    <2>2. Rank(x) = n - 1
      BY <1>1, <1>2, <2>1
    <2>3. \E x_1 \in S : Rank(x_1) = n - 1
      BY <2>2
    <2>4. s[n] = CHOOSE i \in S : Rank(i) = n - 1
      BY Zenon
    <2>. HIDE DEF s
    <2>. QED BY <2>3, <2>4, Zenon
  <1>12. s \in Seq(Intervals) /\ Len(s) = N
    <2>1. s \in [1..N -> Intervals]
      BY <1>11
    <2>. HIDE DEF s
    <2>. QED BY <1>1, <2>1
  <1>. HIDE DEF s
  <1>13. \A i \in S : \E n \in 1..N : s[n] = i
    <2>. TAKE i \in S
    <2>1. f[i] \in 1..N /\ Rank(i) = f[i] - 1
      BY <1>1, <1>2
    <2>2. s[f[i]] \in S /\ Rank(s[f[i]]) = Rank(i)
      BY <1>11, <2>1
    <2>3. s[f[i]] = i
      BY <1>6, <2>2
    <2>. QED BY <2>1, <2>3
  <1>14. \A m, n \in 1..N : m < n => s[m][1] <= s[n][1]
    <2>. SUFFICES ASSUME NEW m \in 1..N, NEW n \in 1..N, m < n PROVE s[m][1] <= s[n][1]
      OBVIOUS
    <2>1. /\ s[m] \in S /\ Rank(s[m]) = m - 1 /\ s[n] \in S /\ Rank(s[n]) = n - 1
      BY <1>11
    <2>2. ~Earlier(s[n], s[m])
      BY <1>3, <2>1
    <2>. QED BY <2>1, <2>2 DEF Earlier, Intervals
  <1>. QED BY <1>1, <1>10, <1>11, <1>12, <1>13, <1>14 DEF s, N

LEMMA LastFacts ==
  ASSUME NEW list \in Seq(Intervals), list # <<>>
  PROVE  /\ Len(list) \in Nat \ {0} /\ Last(list) = list[Len(list)] /\ Last(list) \in Intervals
         /\ Front(list) \in Seq(Intervals) /\ Len(Front(list)) = Len(list) - 1
         /\ \A a \in 1..Len(list) - 1 : Front(list)[a] = list[a]
  <1>1. Len(list) \in Nat \ {0}
    BY EmptySeq
  <1>2. \A a \in 1..Len(list) - 1 : list[a] \in Intervals
    BY <1>1
  <1>3. /\ SubSeq(list, 1, Len(list) - 1) \in Seq(Intervals)
        /\ Len(SubSeq(list, 1, Len(list) - 1)) = Len(list) - 1
        /\ \A a \in 1..Len(list) - 1 : SubSeq(list, 1, Len(list) - 1)[a] = list[a]
    <2>. DEFINE m == Len(list) - 1
                front == SubSeq(list, 1, m)
    <2>1. m \in Nat /\ \A a \in 1..m : list[a] \in Intervals
      BY <1>1, <1>2
    <2>. HIDE DEF m
    <2>2. /\ front \in Seq(Intervals) /\ Len(front) = IF 1 <= m THEN m - 1 + 1 ELSE 0
          /\ \A a \in 1..m - 1 + 1 : front[a] = list[1 + a - 1]
      BY <2>1, SubSeqProperties
    <2>. HIDE DEF front
    <2>3. \A a \in 1..m : front[a] = list[a]
      BY <2>1, <2>2
    <2>4. Len(front) = m
      BY <2>1, <2>2
    <2>. QED BY <2>2, <2>3, <2>4 DEF front, m
  <1>. QED BY <1>1, <1>3 DEF Last, Front

(* Joining extends the last interval of the list or appends one.           *)
LEMMA JoinedFacts ==
  ASSUME NEW out \in Seq(Intervals), NEW i \in Intervals
  PROVE  LET new == Joined(out, i)
             n == Len(out) IN
         /\ new \in Seq(Intervals)
         /\ \/ /\ out # <<>> /\ n > 0 /\ i[1] <= out[n][2] /\ Len(new) = n
               /\ new[n] = <<out[n][1], Later(out[n][2], i[2])>>
               /\ \A a \in 1..n - 1 : new[a] = out[a]
            \/ /\ n = 0 \/ i[1] > out[n][2]
               /\ Len(new) = n + 1 /\ new[n + 1] = i
               /\ \A a \in 1..n : new[a] = out[a]
  <1>. DEFINE n == Len(out)
              new == Joined(out, i)
  <1>0. n \in Nat /\ (out # <<>> => n > 0) /\ (out = <<>> => n = 0)
    BY EmptySeq
  <1>1. CASE out # <<>> /\ i[1] <= Last(out)[2]
    <2>1. /\ Last(out) = out[n] /\ out[n] \in Intervals
          /\ Front(out) \in Seq(Intervals) /\ Len(Front(out)) = n - 1
          /\ \A a \in 1..n - 1 : Front(out)[a] = out[a]
      BY <1>1, LastFacts, Zenon
    <2>2. new = Extended(out, i)
      BY <1>1 DEF Joined
    <2>3. out[n][1] \in Int /\ out[n][2] \in Int /\ i[2] \in Int /\ out[n] = <<out[n][1], out[n][2]>>
      BY <2>1 DEF Intervals
    <2>4. CASE i[2] > out[n][2]
      <3>. DEFINE e == <<out[n][1], i[2]>>
      <3>1. e \in Intervals
        BY <2>3 DEF Intervals
      <3>2. new = Append(Front(out), e)
        BY <2>1, <2>2, <2>4 DEF Extended
      <3>. HIDE DEF e
      <3>3. /\ new \in Seq(Intervals) /\ Len(new) = Len(Front(out)) + 1
            /\ \A a \in 1..Len(Front(out)) : new[a] = Front(out)[a]
            /\ new[Len(Front(out)) + 1] = e
        BY <2>1, <3>1, <3>2, AppendProperties
      <3>4. Len(Front(out)) + 1 = n
        BY <1>0, <2>1
      <3>5. Later(out[n][2], i[2]) = i[2]
        BY <2>3, <2>4 DEF Later
      <3>. HIDE DEF new, n
      <3>6. \A a \in 1..n - 1 : new[a] = out[a]
        BY <2>1, <3>3
      <3>7. new \in Seq(Intervals) /\ Len(new) = n /\ new[n] = <<out[n][1], Later(out[n][2], i[2])>>
        BY <3>3, <3>4, <3>5 DEF e
      <3>. QED BY <1>0, <1>1, <2>1, <3>6, <3>7 DEF n, new
    <2>5. CASE ~(i[2] > out[n][2])
      <3>1. new = out
        BY <2>1, <2>2, <2>5 DEF Extended
      <3>2. Later(out[n][2], i[2]) = out[n][2]
        BY <2>3, <2>5 DEF Later
      <3>. HIDE DEF new, n
      <3>. QED BY <1>0, <1>1, <2>1, <2>3, <3>1, <3>2 DEF n, new
    <2>. QED BY <2>4, <2>5
  <1>2. CASE ~(out # <<>> /\ i[1] <= Last(out)[2])
    <2>1. new = Append(out, i)
      BY <1>2 DEF Joined
    <2>2. out = <<>> \/ i[1] > out[n][2]
      <3>1. CASE out # <<>>
        <4>1. Last(out) = out[n] /\ out[n] \in Intervals
          BY <3>1, LastFacts, Zenon
        <4>2. ~(i[1] <= out[n][2])
          BY <1>2, <3>1, <4>1
        <4>. QED BY <4>1, <4>2 DEF Intervals
      <3>. QED BY <3>1
    <2>. QED BY <1>0, <2>1, <2>2, AppendProperties
  <1>. QED BY <1>1, <1>2

LEMMA MergeResults ==
  ASSUME NEW s \in Seq(Intervals)
  PROVE  \E h \in [0..Len(s) -> Seq(Intervals)] :
           /\ h[0] = <<>> /\ h[Len(s)] = FoldLeft(Joined, <<>>, s)
           /\ \A k \in 1..Len(s) : h[k] = Joined(h[k - 1], s[k])
  <1>. DEFINE n == Len(s)
              V == Seq(Intervals)
              step == [p \in V \X (1..n) |-> Joined(p[1], s[p[2]])]
  <1>1. n \in Nat /\ DOMAIN s = 1..n /\ \A k \in 1..n : s[k] \in Intervals
    OBVIOUS
  <1>2. <<>> \in V
    OBVIOUS
  <1>3. \A v \in V, k \in 1..n : Joined(v, s[k]) \in V /\ step[<<v, k>>] = Joined(v, s[k])
    BY <1>1, JoinedFacts
  <1>4. step \in [V \X (1..n) -> V]
    BY <1>3
  <1>. DEFINE Iter(g) == g = [x \in SUBSET DOMAIN s |->
                                IF x = {} THEN <<>> ELSE Joined(g[x \ {Max(x)}], s[Max(x)])]
  <1>. HIDE DEF n, V, step
  <1>5. \E g : Iter(g)
    <2>1. PICK g \in [SUBSET (1..n) -> V] : Folds(g, n, <<>>, step)
      BY <1>1, <1>2, <1>4, FoldExists, Zenon
    <2>2. ASSUME NEW x \in SUBSET (1..n), x # {}
          PROVE  step[<<g[x \ {Max(x)}], Max(x)>>] = Joined(g[x \ {Max(x)}], s[Max(x)])
      <3>1. Max(x) \in x
        BY <1>1, <2>2, MaxOf, Zenon
      <3>2. x \ {Max(x)} \in SUBSET (1..n) /\ Max(x) \in 1..n
        BY <3>1
      <3>3. g[x \ {Max(x)}] \in V
        BY <2>1, <3>2, Zenon
      <3>. QED BY <1>3, <3>2, <3>3, Zenon
    <2>3. g = [x \in SUBSET (1..n) |-> IF x = {} THEN <<>> ELSE Joined(g[x \ {Max(x)}], s[Max(x)])]
      BY <2>1, <2>2, Zenon DEF Folds
    <2>. QED BY <1>1, <2>3, Zenon
  <1>6. PICK iter : Iter(iter) /\ FoldLeft(Joined, <<>>, s) = iter[DOMAIN s]
    <2>1. FoldLeft(Joined, <<>>, s) = (CHOOSE g : Iter(g))[DOMAIN s]
      BY Zenon DEF FoldLeft, MapThenFoldSet
    <2>2. Iter(CHOOSE g : Iter(g))
      BY <1>5, Zenon
    <2>. QED BY <2>1, <2>2, Zenon
  <1>8. iter[{}] = <<>>
    BY <1>6, Zenon
  <1>9. \A k \in 1..n : iter[1..k - 1] \in V => iter[1..k] = step[<<iter[1..k - 1], k>>]
    <2>. TAKE k \in 1..n
    <2>. HAVE iter[1..k - 1] \in V
    <2>0. k \in 1..n /\ n \in Nat
      BY <1>1
    <2>a. k \in Nat /\ k # 0 /\ 1..k \in SUBSET (1..n) /\ k \in 1..k
      BY <2>0
    <2>1. k \in Nat /\ k # 0 /\ 1..k \in SUBSET DOMAIN s /\ 1..k # {}
      BY <1>1, <2>a, Zenon
    <2>2. Max(1..k) = k /\ (1..k) \ {k} = 1..k - 1
      BY <2>1, MaxOfFirst, Zenon
    <2>3. iter[1..k] = Joined(iter[1..k - 1], s[k])
      BY <1>6, <2>1, <2>2, Zenon
    <2>. QED BY <1>3, <2>3, Zenon
  <1>a. Starts(iter, V, n, <<>>, step)
    BY <1>8, <1>9, Zenon DEF Starts
  <1>b. n \in Nat
    BY <1>1
  <1>c. PICK h : Chain(h, V, n, <<>>, step, iter[1..n])
    BY <1>2, <1>4, <1>a, <1>b, FoldResults, Zenon
  <1>10. /\ h \in [0..n -> V] /\ h[0] = <<>> /\ h[n] = iter[1..n]
         /\ \A k \in 1..n : h[k] = step[<<h[k - 1], k>>]
    BY <1>c, Zenon DEF Chain
  <1>11. \A k \in 1..n : h[k] = Joined(h[k - 1], s[k])
    <2>. TAKE k \in 1..n
    <2>1. k - 1 \in 0..n
      BY <1>1
    <2>2. h[k - 1] \in V
      BY <1>10, <2>1, Zenon
    <2>. QED BY <1>3, <1>10, <2>2, Zenon
  <1>. QED BY <1>1, <1>6, <1>10, <1>11 DEF n, V


LEMMA JoinStep ==
  ASSUME NEW out, Apart(out), NEW i \in Intervals, i[1] < i[2],
         Len(out) > 0 => out[Len(out)][1] <= i[1]
  PROVE  LET new == Joined(out, i) IN
         /\ Apart(new) /\ Len(new) > 0 /\ new[Len(new)][1] <= i[1]
         /\ \A u \in Int : In(new, u) <=> In(out, u) \/ (i[1] <= u /\ u < i[2])
  <1>. DEFINE n == Len(out)
              new == Joined(out, i)
  <1>1. out \in Seq(Intervals) /\ n \in Nat /\ DOMAIN out = 1..n
        /\ \A a \in 1..n : out[a] \in Intervals
    BY DEF Apart
  <1>2. /\ new \in Seq(Intervals)
        /\ \/ /\ out # <<>> /\ n > 0 /\ i[1] <= out[n][2] /\ Len(new) = n
              /\ new[n] = <<out[n][1], Later(out[n][2], i[2])>>
              /\ \A a \in 1..n - 1 : new[a] = out[a]
           \/ /\ n = 0 \/ i[1] > out[n][2]
              /\ Len(new) = n + 1 /\ new[n + 1] = i
              /\ \A a \in 1..n : new[a] = out[a]
    BY <1>1, JoinedFacts
  <1>3. /\ \A a \in 1..n : out[a][1] \in Int /\ out[a][2] \in Int /\ out[a][1] < out[a][2]
        /\ \A a, b \in 1..n : a < b => out[a][2] < out[b][1]
        /\ i[1] \in Int /\ i[2] \in Int
    BY <1>1 DEF Apart, Intervals
  <1>. HIDE DEF new, n
  <1>4. CASE /\ n > 0 /\ i[1] <= out[n][2] /\ Len(new) = n
             /\ new[n] = <<out[n][1], Later(out[n][2], i[2])>>
             /\ \A a \in 1..n - 1 : new[a] = out[a]
    <2>. DEFINE e == Later(out[n][2], i[2])
    <2>0. n \in 1..n /\ n > 0 /\ n \in Nat
      BY <1>1, <1>4
    <2>1. /\ e \in Int /\ out[n][2] <= e /\ i[2] <= e /\ (e = out[n][2] \/ e = i[2])
          /\ out[n][1] <= i[1]
      BY <1>3, <2>0 DEF Later, n
    <2>2. new[n][1] = out[n][1] /\ new[n][2] = e
      BY <1>4
    <2>3. \A a \in 1..n : a # n => a \in 1..n - 1 /\ new[a] = out[a]
      BY <1>4, <2>0
    <2>. HIDE DEF e
    <2>4. \A a \in 1..n : new[a][1] < new[a][2]
      BY <1>3, <2>0, <2>1, <2>2, <2>3
    <2>5. \A a, b \in 1..n : a < b => new[a][2] < new[b][1]
      <3>. SUFFICES ASSUME NEW a \in 1..n, NEW b \in 1..n, a < b PROVE new[a][2] < new[b][1]
        OBVIOUS
      <3>1. a # n /\ new[a] = out[a] /\ new[b][1] = out[b][1]
        BY <2>0, <2>2, <2>3
      <3>. QED BY <1>3, <3>1
    <2>6. Apart(new)
      BY <1>2, <1>4, <2>4, <2>5 DEF Apart
    <2>7. ASSUME NEW u \in Int
          PROVE  In(new, u) <=> In(out, u) \/ (i[1] <= u /\ u < i[2])
      <3>0. DOMAIN new = 1..n
        BY <1>2, <1>4
      <3>1. ASSUME In(new, u) PROVE In(out, u) \/ (i[1] <= u /\ u < i[2])
        <4>1. PICK a \in 1..n : new[a][1] <= u /\ u < new[a][2]
          BY <3>0, <3>1 DEF In
        <4>2. CASE a # n
          BY <1>1, <2>3, <4>1, <4>2 DEF In
        <4>3. CASE a = n
          <5>1. out[n][1] <= u /\ u < e
            BY <2>2, <4>1, <4>3
          <5>2. u < out[n][2] \/ (i[1] <= u /\ u < i[2])
            BY <1>3, <1>4, <2>0, <2>1, <5>1
          <5>. QED BY <1>1, <2>0, <5>1, <5>2 DEF In
        <4>. QED BY <4>2, <4>3
      <3>2. ASSUME In(out, u) PROVE In(new, u)
        <4>1. PICK a \in 1..n : out[a][1] <= u /\ u < out[a][2]
          BY <1>1, <3>2 DEF In
        <4>2. new[a][1] <= u /\ u < new[a][2]
          BY <1>3, <2>0, <2>1, <2>2, <2>3, <4>1
        <4>. QED BY <3>0, <4>2 DEF In
      <3>3. ASSUME i[1] <= u, u < i[2] PROVE In(new, u)
        <4>1. new[n][1] <= u /\ u < new[n][2]
          BY <1>3, <2>0, <2>1, <2>2, <3>3
        <4>. QED BY <2>0, <3>0, <4>1 DEF In
      <3>. QED BY <3>1, <3>2, <3>3
    <2>. QED BY <1>4, <2>0, <2>1, <2>2, <2>6, <2>7 DEF new
  <1>5. CASE /\ n = 0 \/ i[1] > out[n][2]
             /\ Len(new) = n + 1 /\ new[n + 1] = i
             /\ \A a \in 1..n : new[a] = out[a]
    <2>1. \A a \in 1..n + 1 : a # n + 1 => a \in 1..n /\ new[a] = out[a]
      BY <1>1, <1>5
    <2>2. \A a \in 1..n + 1 : new[a][1] < new[a][2]
      BY <1>3, <1>5, <2>1
    <2>3. \A a \in 1..n : out[a][2] < i[1]
      <3>. TAKE a \in 1..n
      <3>1. n \in 1..n /\ n # 0 /\ out[n][2] < i[1] /\ (a < n \/ a = n)
        BY <1>1, <1>3, <1>5
      <3>2. a < n => out[a][2] < out[n][1] /\ out[n][1] < out[n][2]
        BY <1>3, <3>1
      <3>3. out[a][2] \in Int /\ out[n][1] \in Int /\ out[n][2] \in Int /\ i[1] \in Int
        BY <1>3, <3>1
      <3>4. CASE a = n
        BY <3>1, <3>4
      <3>5. CASE a < n
        BY <3>1, <3>2, <3>3, <3>5
      <3>. QED BY <3>1, <3>4, <3>5
    <2>4. \A a, b \in 1..n + 1 : a < b => new[a][2] < new[b][1]
      <3>. SUFFICES ASSUME NEW a \in 1..n + 1, NEW b \in 1..n + 1, a < b
                    PROVE  new[a][2] < new[b][1]
        OBVIOUS
      <3>1. a # n + 1 /\ a \in 1..n /\ new[a] = out[a]
        BY <1>1, <2>1
      <3>2. CASE b = n + 1
        BY <1>5, <2>3, <3>1, <3>2
      <3>3. CASE b # n + 1
        BY <1>3, <2>1, <3>1, <3>3
      <3>. QED BY <3>2, <3>3
    <2>5. Apart(new)
      BY <1>2, <1>5, <2>2, <2>4 DEF Apart
    <2>6. ASSUME NEW u \in Int
          PROVE  In(new, u) <=> In(out, u) \/ (i[1] <= u /\ u < i[2])
      <3>0. DOMAIN new = 1..n + 1 /\ n + 1 \in 1..n + 1 /\ \A a \in 1..n : a \in 1..n + 1
        BY <1>1, <1>2, <1>5
      <3>. QED BY <1>1, <1>5, <2>1, <3>0 DEF In
    <2>. QED BY <1>1, <1>3, <1>5, <2>5, <2>6 DEF new
  <1>. QED BY <1>2, <1>4, <1>5 DEF n

(* Merging any finite set of intervals gives a list of intervals that do   *)
(* not touch, with exactly the units of the set (core/scheduling.py:66-77).*)
THEOREM MergeIsRight ==
  ASSUME NEW S, S \subseteq Intervals, IsFiniteSet(S)
  PROVE  Apart(Merge(S)) /\ \A u \in Int : In(Merge(S), u) <=> Within(S, u)
  <1>. DEFINE P == {i \in S : i[1] < i[2]}
              s == Sorted(P)
              n == Cardinality(P)
  <1>1. P \subseteq Intervals /\ IsFiniteSet(P)
    BY FS_Subset
  <1>2. /\ s \in Seq(Intervals) /\ Len(s) = n /\ n \in Nat
        /\ \A m \in 1..n : s[m] \in P
        /\ \A i \in P : \E m \in 1..n : s[m] = i
        /\ \A k, m \in 1..n : k < m => s[k][1] <= s[m][1]
    BY <1>1, SortedFacts, Zenon
  <1>3. Merge(S) = FoldLeft(Joined, <<>>, s)
    BY Zenon DEF Merge
  <1>. HIDE DEF s
  <1>4. PICK h \in [0..n -> Seq(Intervals)] :
           /\ h[0] = <<>> /\ h[n] = FoldLeft(Joined, <<>>, s)
           /\ \A k \in 1..n : h[k] = Joined(h[k - 1], s[k])
    <2>1. \E h \in [0..Len(s) -> Seq(Intervals)] :
             /\ h[0] = <<>> /\ h[Len(s)] = FoldLeft(Joined, <<>>, s)
             /\ \A k \in 1..Len(s) : h[k] = Joined(h[k - 1], s[k])
      BY <1>2, MergeResults, Zenon
    <2>2. Len(s) = n
      BY <1>2
    <2>. QED BY <2>1, <2>2, Zenon
  <1>5. \A m \in 1..n : s[m] \in Intervals /\ s[m][1] \in Int /\ s[m][2] \in Int /\ s[m][1] < s[m][2]
    BY <1>1, <1>2 DEF Intervals
  <1>. HIDE DEF P, n
  <1>. DEFINE Seen(k, u) == \E m \in 1..k : s[m][1] <= u /\ u < s[m][2]
              Good(k) ==
                /\ Apart(h[k])
                /\ \A u \in Int : In(h[k], u) <=> Seen(k, u)
                /\ Len(h[k]) > 0 => k # 0 /\ h[k][Len(h[k])][1] <= s[k][1]
              bad == {k \in 0..n : ~Good(k)}
  <1>6. Good(0)
    <2>1. Len(<<>>) = 0 /\ <<>> \in Seq(Intervals) /\ DOMAIN <<>> = {}
      OBVIOUS
    <2>2. Apart(h[0])
      BY <1>4, <2>1 DEF Apart
    <2>3. \A u \in Int : ~In(h[0], u) /\ ~Seen(0, u)
      BY <1>4, <2>1 DEF In
    <2>. QED BY <1>4, <2>1, <2>2, <2>3
  <1>7. ASSUME NEW k \in 1..n, Good(k - 1) PROVE Good(k)
    <2>1. k - 1 \in 0..n /\ k \in Nat /\ k # 0 /\ h[k] = Joined(h[k - 1], s[k]) /\ s[k] \in Intervals /\ s[k][1] < s[k][2]
      BY <1>2, <1>4, <1>5
    <2>2. Len(h[k - 1]) > 0 => h[k - 1][Len(h[k - 1])][1] <= s[k][1]
      <3>. HAVE Len(h[k - 1]) > 0
      <3>1. k - 1 # 0 /\ h[k - 1][Len(h[k - 1])][1] <= s[k - 1][1]
        BY <1>7
      <3>2. k - 1 \in 1..n /\ k - 1 < k
        BY <1>2, <3>1
      <3>3. s[k - 1][1] <= s[k][1] /\ s[k - 1][1] \in Int /\ s[k][1] \in Int
        BY <1>2, <1>5, <3>2
      <3>4. h[k - 1][Len(h[k - 1])][1] \in Int
        <4>1. h[k - 1] \in Seq(Intervals) /\ Len(h[k - 1]) \in Nat
          BY <1>4, <2>1
        <4>2. h[k - 1][Len(h[k - 1])] \in Intervals
          BY <4>1
        <4>. QED BY <4>2 DEF Intervals
      <3>. QED BY <3>1, <3>3, <3>4
    <2>3. /\ Apart(h[k]) /\ Len(h[k]) > 0 /\ h[k][Len(h[k])][1] <= s[k][1]
          /\ \A u \in Int : In(h[k], u) <=> In(h[k - 1], u) \/ (s[k][1] <= u /\ u < s[k][2])
      BY <1>7, <2>1, <2>2, JoinStep
    <2>4. ASSUME NEW u \in Int PROVE In(h[k], u) <=> Seen(k, u)
      <3>1. \A m \in 1..k : m = k \/ m \in 1..k - 1
        OBVIOUS
      <3>2. k \in 1..k /\ \A m \in 1..k - 1 : m \in 1..k
        BY <2>1
      <3>3. Seen(k, u) <=> Seen(k - 1, u) \/ (s[k][1] <= u /\ u < s[k][2])
        BY <3>1, <3>2, Zenon
      <3>. QED BY <1>7, <2>3, <3>3, Zenon
    <2>. QED BY <2>1, <2>3, <2>4
  <1>. HIDE DEF Good
  <1>8. bad = {}
    <2>1. SUFFICES ASSUME bad # {} PROVE FALSE
      OBVIOUS
    <2>2. bad \subseteq Nat
      OBVIOUS
    <2>3. PICK k \in bad : \A m \in bad : k <= m
      BY <2>1, <2>2, LeastNat, Zenon
    <2>4. k \in 1..n /\ k - 1 \in 0..n /\ ~(k <= k - 1)
      BY <1>2, <1>6, <2>3
    <2>5. Good(k - 1)
      BY <2>3, <2>4
    <2>. QED BY <1>7, <2>3, <2>4, <2>5
  <1>9. Apart(h[n]) /\ \A u \in Int : In(h[n], u) <=> Seen(n, u)
    <2>1. n \in 0..n
      BY <1>2
    <2>2. Good(n)
      BY <1>8, <2>1
    <2>. QED BY <2>2 DEF Good
  <1>10. ASSUME NEW u \in Int PROVE Seen(n, u) <=> Within(S, u)
    <2>1. \A i \in S : i[1] <= u /\ u < i[2] => i \in P
      BY DEF P, Intervals
    <2>2. \A m \in 1..n : s[m] \in S
      BY <1>2 DEF P
    <2>. QED BY <1>2, <2>1, <2>2, Zenon DEF Within
  <1>. QED BY <1>3, <1>4, <1>9, <1>10

-----------------------------------------------------------------------------
(* What cuts leave of a list of intervals.                                 *)

LEMMA AppendPiece ==
  ASSUME NEW out, Apart(out), NEW a \in Int, NEW b \in Int, a < b,
         Len(out) > 0 => out[Len(out)][2] < a
  PROVE  LET new == Append(out, <<a, b>>) IN
         /\ Apart(new) /\ Len(new) = Len(out) + 1 /\ new[Len(new)] = <<a, b>>
         /\ \A u \in Int : In(new, u) <=> In(out, u) \/ (a <= u /\ u < b)
  <1>. DEFINE n == Len(out)
              new == Append(out, <<a, b>>)
  <1>1. out \in Seq(Intervals) /\ n \in Nat /\ DOMAIN out = 1..n
        /\ \A k \in 1..n : out[k] \in Intervals
    BY DEF Apart
  <1>2. /\ \A k \in 1..n : out[k][1] \in Int /\ out[k][2] \in Int /\ out[k][1] < out[k][2]
        /\ \A k, m \in 1..n : k < m => out[k][2] < out[m][1]
    BY <1>1 DEF Apart, Intervals
  <1>3. /\ new \in Seq(Intervals) /\ Len(new) = n + 1 /\ new[n + 1] = <<a, b>>
        /\ \A k \in 1..n : new[k] = out[k]
    <2>1. <<a, b>> \in Intervals
      BY DEF Intervals
    <2>. QED BY <1>1, <2>1, AppendProperties
  <1>. HIDE DEF new
  <1>4. \A k \in 1..n : out[k][2] < a
    <2>0. n \in Nat /\ (n > 0 => out[n][2] < a)
      BY <1>1
    <2>. HIDE DEF n
    <2>. TAKE k \in 1..n
    <2>1. n \in 1..n /\ n > 0 /\ (k < n \/ k = n)
      BY <2>0
    <2>2. k < n => out[k][2] < out[n][1] /\ out[n][1] < out[n][2]
      BY <1>2, <2>1
    <2>. QED BY <1>2, <2>0, <2>1, <2>2
  <1>. HIDE DEF n
  <1>5. \A k \in 1..n + 1 : k # n + 1 => k \in 1..n /\ new[k] = out[k]
    BY <1>1, <1>3
  <1>6. \A k \in 1..n + 1 : new[k][1] < new[k][2]
    BY <1>2, <1>3, <1>5
  <1>7. \A k, m \in 1..n + 1 : k < m => new[k][2] < new[m][1]
    <2>. SUFFICES ASSUME NEW k \in 1..n + 1, NEW m \in 1..n + 1, k < m
                  PROVE  new[k][2] < new[m][1]
      OBVIOUS
    <2>1. k \in 1..n /\ new[k] = out[k]
      BY <1>1, <1>5
    <2>2. CASE m = n + 1
      BY <1>3, <1>4, <2>1, <2>2
    <2>3. CASE m # n + 1
      BY <1>2, <1>5, <2>1, <2>3
    <2>. QED BY <2>2, <2>3
  <1>8. Apart(new)
    BY <1>3, <1>6, <1>7 DEF Apart
  <1>9. ASSUME NEW u \in Int PROVE In(new, u) <=> In(out, u) \/ (a <= u /\ u < b)
    <2>1. DOMAIN new = 1..n + 1 /\ n + 1 \in 1..n + 1 /\ \A k \in 1..n : k \in 1..n + 1
      BY <1>1, <1>3
    <2>2. new[n + 1][1] = a /\ new[n + 1][2] = b
      BY <1>3
    <2>3. ASSUME In(new, u) PROVE In(out, u) \/ (a <= u /\ u < b)
      <3>1. PICK k \in 1..n + 1 : new[k][1] <= u /\ u < new[k][2]
        BY <2>1, <2>3, Zenon DEF In
      <3>. QED BY <1>1, <1>5, <2>2, <3>1, Zenon DEF In
    <2>4. ASSUME In(out, u) PROVE In(new, u)
      <3>1. PICK k \in 1..n : out[k][1] <= u /\ u < out[k][2]
        BY <1>1, <2>4, Zenon DEF In
      <3>. QED BY <1>3, <2>1, <3>1, Zenon DEF In
    <2>. QED BY <2>1, <2>2, <2>3, <2>4, Zenon DEF In
  <1>. QED BY <1>3, <1>8, <1>9 DEF new, n

Cutting == [cur: Int, end: Int, out: Seq(Intervals)]

LEMMA CutType ==
  ASSUME NEW at \in Cutting, NEW c \in Intervals
  PROVE  Cut(at, c) \in Cutting
  <1>1. /\ at.cur \in Int /\ at.end \in Int /\ at.out \in Seq(Intervals) /\ c[1] \in Int /\ c[2] \in Int
    BY DEF Cutting, Intervals
  <1>2. Later(at.cur, c[2]) \in Int /\ <<at.cur, c[1]>> \in Intervals
    BY <1>1 DEF Later, Intervals
  <1>3. Append(at.out, <<at.cur, c[1]>>) \in Seq(Intervals)
    BY <1>1, <1>2, AppendProperties, Zenon
  <1>. QED BY <1>1, <1>2, <1>3 DEF Cut, Cutting

LEMMA CutResults ==
  ASSUME NEW cuts \in Seq(Intervals), NEW at \in Cutting
  PROVE  \E h \in [0..Len(cuts) -> Cutting] :
           /\ h[0] = at /\ h[Len(cuts)] = FoldLeft(Cut, at, cuts)
           /\ \A k \in 1..Len(cuts) : h[k] = Cut(h[k - 1], cuts[k])
  <1>. DEFINE n == Len(cuts)
              step == [p \in Cutting \X (1..n) |-> Cut(p[1], cuts[p[2]])]
              Iter(g) == g = [x \in SUBSET DOMAIN cuts |->
                                IF x = {} THEN at ELSE Cut(g[x \ {Max(x)}], cuts[Max(x)])]
  <1>1. n \in Nat /\ DOMAIN cuts = 1..n /\ \A k \in 1..n : cuts[k] \in Intervals
    OBVIOUS
  <1>2. \A v \in Cutting, k \in 1..n :
          Cut(v, cuts[k]) \in Cutting /\ step[<<v, k>>] = Cut(v, cuts[k])
    BY <1>1, CutType
  <1>3. step \in [Cutting \X (1..n) -> Cutting]
    BY <1>2
  <1>. HIDE DEF n, step
  <1>4. \E g : Iter(g)
    <2>1. PICK g \in [SUBSET (1..n) -> Cutting] : Folds(g, n, at, step)
      BY <1>1, <1>3, FoldExists, Zenon
    <2>2. ASSUME NEW x \in SUBSET (1..n), x # {}
          PROVE  step[<<g[x \ {Max(x)}], Max(x)>>] = Cut(g[x \ {Max(x)}], cuts[Max(x)])
      <3>1. Max(x) \in x
        BY <1>1, <2>2, MaxOf, Zenon
      <3>2. x \ {Max(x)} \in SUBSET (1..n) /\ Max(x) \in 1..n
        BY <3>1
      <3>3. g[x \ {Max(x)}] \in Cutting
        BY <2>1, <3>2, Zenon
      <3>. QED BY <1>2, <3>2, <3>3, Zenon
    <2>3. g = [x \in SUBSET (1..n) |-> IF x = {} THEN at ELSE Cut(g[x \ {Max(x)}], cuts[Max(x)])]
      BY <2>1, <2>2, Zenon DEF Folds
    <2>. QED BY <1>1, <2>3, Zenon
  <1>5. PICK iter : Iter(iter) /\ FoldLeft(Cut, at, cuts) = iter[DOMAIN cuts]
    <2>1. FoldLeft(Cut, at, cuts) = (CHOOSE g : Iter(g))[DOMAIN cuts]
      BY Zenon DEF FoldLeft, MapThenFoldSet
    <2>2. Iter(CHOOSE g : Iter(g))
      BY <1>4, Zenon
    <2>. QED BY <2>1, <2>2, Zenon
  <1>6. iter[{}] = at
    BY <1>5, Zenon
  <1>7. \A k \in 1..n : iter[1..k - 1] \in Cutting => iter[1..k] = step[<<iter[1..k - 1], k>>]
    <2>. TAKE k \in 1..n
    <2>. HAVE iter[1..k - 1] \in Cutting
    <2>0. k \in 1..n /\ n \in Nat
      BY <1>1
    <2>a. k \in Nat /\ k # 0 /\ 1..k \in SUBSET (1..n) /\ k \in 1..k
      BY <2>0
    <2>1. k \in Nat /\ k # 0 /\ 1..k \in SUBSET DOMAIN cuts /\ 1..k # {}
      BY <1>1, <2>a, Zenon
    <2>2. Max(1..k) = k /\ (1..k) \ {k} = 1..k - 1
      BY <2>1, MaxOfFirst, Zenon
    <2>3. iter[1..k] = Cut(iter[1..k - 1], cuts[k])
      BY <1>5, <2>1, <2>2, Zenon
    <2>. QED BY <1>2, <2>3, Zenon
  <1>8. Starts(iter, Cutting, n, at, step)
    BY <1>6, <1>7, Zenon DEF Starts
  <1>9. n \in Nat
    BY <1>1
  <1>10. PICK h : Chain(h, Cutting, n, at, step, iter[1..n])
    BY <1>3, <1>8, <1>9, FoldResults, Zenon
  <1>11. /\ h \in [0..n -> Cutting] /\ h[0] = at /\ h[n] = iter[1..n]
         /\ \A k \in 1..n : h[k] = step[<<h[k - 1], k>>]
    BY <1>10, Zenon DEF Chain
  <1>12. \A k \in 1..n : h[k] = Cut(h[k - 1], cuts[k])
    <2>. TAKE k \in 1..n
    <2>1. k - 1 \in 0..n
      BY <1>1
    <2>2. h[k - 1] \in Cutting
      BY <1>11, <2>1, Zenon
    <2>. QED BY <1>2, <1>11, <2>2, Zenon
  <1>. QED BY <1>1, <1>5, <1>11, <1>12 DEF n

Seen(cuts, k, u) == \E m \in 1..k : cuts[m][1] <= u /\ u < cuts[m][2]

(* After k cuts: what is out of the interval are its units before cur that *)
(* no cut has, and no unit from cur on is in one of these cuts.            *)
Remains(at, k, i, before, cuts) ==
  /\ at \in Cutting /\ at.end = i[2] /\ i[1] <= at.cur /\ Apart(at.out)
  /\ at.cur = i[1] \/ \E m \in 1..k : at.cur = cuts[m][2]
  /\ Len(at.out) > 0 => at.out[Len(at.out)][2] < at.cur /\ at.out[Len(at.out)][2] <= i[2]
  /\ \A u \in Int : Seen(cuts, k, u) /\ u < i[2] => u < at.cur
  /\ \A u \in Int : In(at.out, u) <=>
       In(before, u) \/ (i[1] <= u /\ u < at.cur /\ u < i[2] /\ ~Seen(cuts, k, u))

LEMMA SeenMore ==
  ASSUME NEW cuts, NEW k \in Nat \ {0}, NEW u \in Int
  PROVE  Seen(cuts, k, u) <=> Seen(cuts, k - 1, u) \/ (cuts[k][1] <= u /\ u < cuts[k][2])
  <1>1. k \in 1..k /\ \A m \in 1..k - 1 : m \in 1..k
    OBVIOUS
  <1>2. \A m \in 1..k : m = k \/ m \in 1..k - 1
    OBVIOUS
  <1>. QED BY <1>1, <1>2, Zenon DEF Seen

LEMMA CutStep ==
  ASSUME NEW i \in Intervals, i[1] < i[2], NEW cuts, Apart(cuts), NEW k \in 1..Len(cuts),
         NEW before, NEW at, Remains(at, k - 1, i, before, cuts)
  PROVE  Remains(Cut(at, cuts[k]), k, i, before, cuts)
  <1>. DEFINE c == cuts[k]
              new == Cut(at, c)
  <1>0. k \in Nat \ {0} /\ k \in 1..k /\ cuts \in Seq(Intervals) /\ Len(cuts) \in Nat
    BY DEF Apart
  <1>1. c \in Intervals /\ c[1] \in Int /\ c[2] \in Int /\ c[1] < c[2]
    BY <1>0 DEF Apart, Intervals
  <1>2. at \in Cutting /\ at.cur \in Int /\ at.end = i[2] /\ at.out \in Seq(Intervals)
        /\ i[1] \in Int /\ i[2] \in Int /\ i[1] <= at.cur /\ Apart(at.out)
    BY DEF Remains, Cutting, Intervals
  <1>3. at.cur = i[1] \/ at.cur < c[1]
    <2>1. CASE \E m \in 1..k - 1 : at.cur = cuts[m][2]
      <3>1. PICK m \in 1..k - 1 : at.cur = cuts[m][2]
        BY <2>1
      <3>2. m \in 1..Len(cuts) /\ m < k
        BY <1>0
      <3>. QED BY <3>1, <3>2 DEF Apart
    <2>. QED BY <2>1 DEF Remains
  <1>4. new \in Cutting
    BY <1>1, <1>2, CutType
  <1>5. \A u \in Int : Seen(cuts, k, u) <=> Seen(cuts, k - 1, u) \/ (c[1] <= u /\ u < c[2])
    BY <1>0, SeenMore
  <1>6. /\ \A u \in Int : Seen(cuts, k - 1, u) /\ u < i[2] => u < at.cur
        /\ \A u \in Int : In(at.out, u) <=>
             In(before, u) \/ (i[1] <= u /\ u < at.cur /\ u < i[2] /\ ~Seen(cuts, k - 1, u))
        /\ Len(at.out) > 0 => at.out[Len(at.out)][2] < at.cur /\ at.out[Len(at.out)][2] <= i[2]
        /\ at.cur = i[1] \/ \E m \in 1..k - 1 : at.cur = cuts[m][2]
    BY Zenon DEF Remains
  <1>7. \A m \in 1..k - 1 : m \in 1..k
    OBVIOUS
  <1>. HIDE DEF c, new
  <1>8. CASE c[2] <= at.cur \/ c[1] >= at.end
    <2>1. new = at
      BY <1>8 DEF new, Cut, c
    <2>2. \A u \in Int : Seen(cuts, k, u) /\ u < i[2] => u < at.cur
      <3>. SUFFICES ASSUME NEW u \in Int, Seen(cuts, k, u), u < i[2] PROVE u < at.cur
        OBVIOUS
      <3>1. CASE Seen(cuts, k - 1, u)
        BY <1>6, <3>1
      <3>2. CASE c[1] <= u /\ u < c[2]
        <4>1. at.cur \in Int /\ c[1] \in Int /\ c[2] \in Int /\ i[2] \in Int /\ at.end = i[2]
          BY <1>1, <1>2
        <4>. QED BY <1>8, <3>2, <4>1
      <3>. QED BY <1>5, <3>1, <3>2
    <2>3. \A u \in Int : In(at.out, u) <=>
            In(before, u) \/ (i[1] <= u /\ u < at.cur /\ u < i[2] /\ ~Seen(cuts, k, u))
      <3>. TAKE u \in Int
      <3>1. i[1] <= u /\ u < at.cur /\ u < i[2] => ~(c[1] <= u /\ u < c[2])
        BY <1>1, <1>2, <1>3, <1>8
      <3>. QED BY <1>5, <1>6, <3>1
    <2>. QED BY <1>2, <1>6, <1>7, <2>1, <2>2, <2>3 DEF Remains, new, c
  <1>9. CASE ~(c[2] <= at.cur \/ c[1] >= at.end)
    <2>1. at.cur < c[2] /\ c[1] < i[2]
      BY <1>1, <1>2, <1>9
    <2>2. /\ new.cur = c[2] /\ new.end = i[2]
          /\ new.out = IF c[1] > at.cur THEN Append(at.out, <<at.cur, c[1]>>) ELSE at.out
      <3>1. Later(at.cur, c[2]) = c[2]
        BY <1>1, <1>2, <2>1 DEF Later
      <3>2. new = [cur |-> c[2], end |-> i[2],
                   out |-> IF c[1] > at.cur THEN Append(at.out, <<at.cur, c[1]>>) ELSE at.out]
        BY <1>2, <1>9, <3>1 DEF new, Cut, Cutting, c
      <3>. QED BY <3>2
    <2>3. \A u \in Int : Seen(cuts, k, u) /\ u < i[2] => u < new.cur
      BY <1>1, <1>2, <1>5, <1>6, <2>1, <2>2
    <2>4. i[1] <= new.cur /\ \E m \in 1..k : new.cur = cuts[m][2]
      BY <1>0, <1>1, <1>2, <2>1, <2>2 DEF c
    <2>5. CASE c[1] > at.cur
      <3>1. /\ Apart(new.out) /\ Len(new.out) = Len(at.out) + 1
            /\ new.out[Len(new.out)] = <<at.cur, c[1]>>
            /\ \A u \in Int : In(new.out, u) <=> In(at.out, u) \/ (at.cur <= u /\ u < c[1])
        <4>1. at.cur \in Int /\ c[1] \in Int /\ at.cur < c[1]
          BY <1>1, <1>2, <2>5
        <4>2. new.out = Append(at.out, <<at.cur, c[1]>>)
          BY <2>2, <2>5
        <4>3. Apart(at.out) /\ (Len(at.out) > 0 => at.out[Len(at.out)][2] < at.cur)
          BY <1>2, <1>6, Zenon
        <4>. DEFINE longer == Append(at.out, <<at.cur, c[1]>>)
        <4>4. /\ Apart(longer) /\ Len(longer) = Len(at.out) + 1
              /\ longer[Len(longer)] = <<at.cur, c[1]>>
              /\ \A u \in Int : In(longer, u) <=> In(at.out, u) \/ (at.cur <= u /\ u < c[1])
          BY <4>1, <4>3, AppendPiece, Zenon
        <4>. QED BY <4>2, <4>4, Zenon
      <3>2. new.out[Len(new.out)][2] < new.cur /\ new.out[Len(new.out)][2] <= i[2]
        BY <1>1, <1>2, <2>1, <2>2, <3>1
      <3>3. ASSUME NEW u \in Int
            PROVE  In(new.out, u) <=>
              In(before, u) \/ (i[1] <= u /\ u < new.cur /\ u < i[2] /\ ~Seen(cuts, k, u))
        <4>0. /\ Seen(cuts, k, u) <=> Seen(cuts, k - 1, u) \/ (c[1] <= u /\ u < c[2])
              /\ Seen(cuts, k - 1, u) /\ u < i[2] => u < at.cur
              /\ In(at.out, u) <=>
                   In(before, u) \/ (i[1] <= u /\ u < at.cur /\ u < i[2] /\ ~Seen(cuts, k - 1, u))
              /\ In(new.out, u) <=> In(at.out, u) \/ (at.cur <= u /\ u < c[1])
          BY <1>5, <1>6, <3>1, Zenon
        <4>1. CASE u < at.cur
          <5>1. u < c[1] /\ u < new.cur /\ ~(at.cur <= u) /\ ~(c[1] <= u)
            BY <1>1, <1>2, <2>2, <2>5, <4>1
          <5>. QED BY <4>0, <4>1, <5>1, Zenon
        <4>2. CASE ~(u < at.cur)
          <5>1. at.cur <= u /\ i[1] <= u /\ (u < c[1] => u < i[2] /\ u < new.cur /\ ~(c[1] <= u))
                /\ (~(u < c[1]) => c[1] <= u) /\ (u < new.cur <=> u < c[2])
            BY <1>1, <1>2, <2>1, <2>2, <4>2
          <5>. QED BY <4>0, <4>2, <5>1, Zenon
        <4>. QED BY <4>1, <4>2
      <3>. QED BY <1>4, <2>2, <2>3, <2>4, <3>1, <3>2, <3>3 DEF Remains, new, c
    <2>6. CASE ~(c[1] > at.cur)
      <3>1. new.out = at.out /\ at.cur = i[1]
        BY <1>1, <1>2, <1>3, <2>2, <2>6
      <3>2. Len(at.out) > 0 => at.out[Len(at.out)][2] < new.cur /\ at.out[Len(at.out)][2] <= i[2]
        <4>. HAVE Len(at.out) > 0
        <4>1. at.out[Len(at.out)][2] \in Int
          <5>1. Len(at.out) \in 1..Len(at.out)
            BY <1>2
          <5>2. at.out[Len(at.out)] \in Intervals
            BY <1>2, <5>1
          <5>. QED BY <5>2 DEF Intervals
        <4>. QED BY <1>1, <1>2, <1>6, <2>1, <2>2, <4>1
      <3>3. ASSUME NEW u \in Int
            PROVE  In(at.out, u) <=>
              In(before, u) \/ (i[1] <= u /\ u < new.cur /\ u < i[2] /\ ~Seen(cuts, k, u))
        BY <1>1, <1>2, <1>5, <1>6, <2>1, <2>2, <2>6, <3>1
      <3>. QED BY <1>2, <1>4, <2>2, <2>3, <2>4, <3>1, <3>2, <3>3 DEF Remains, new, c
    <2>. QED BY <2>5, <2>6
  <1>. QED BY <1>8, <1>9 DEF new, c

LEMMA LeftType ==
  ASSUME NEW out \in Seq(Intervals), NEW i \in Intervals, NEW cuts \in Seq(Intervals)
  PROVE  Left(out, i, cuts) \in Seq(Intervals)
  <1>. DEFINE at == [cur |-> i[1], end |-> i[2], out |-> out]
              end == FoldLeft(Cut, at, cuts)
  <1>1. at \in Cutting /\ Len(cuts) \in Nat
    BY DEF Cutting, Intervals
  <1>. HIDE DEF at
  <1>2. PICK h \in [0..Len(cuts) -> Cutting] : h[Len(cuts)] = end
    BY <1>1, CutResults, Zenon
  <1>3. Len(cuts) \in 0..Len(cuts)
    BY <1>1
  <1>4. end \in Cutting
    BY <1>2, <1>3, Zenon
  <1>5. Left(out, i, cuts) = IF end.cur < i[2] THEN Append(end.out, <<end.cur, i[2]>>) ELSE end.out
    BY Zenon DEF Left, at
  <1>. HIDE DEF end
  <1>6. end.out \in Seq(Intervals) /\ <<end.cur, i[2]>> \in Intervals
    BY <1>4 DEF Cutting, Intervals
  <1>7. Append(end.out, <<end.cur, i[2]>>) \in Seq(Intervals)
    BY <1>6, AppendProperties, Zenon
  <1>. QED BY <1>5, <1>6, <1>7

(* All the cuts of an interval leave exactly its units that are in none.   *)
LEMMA LeftFacts ==
  ASSUME NEW out, Apart(out), NEW i \in Intervals, i[1] < i[2], NEW cuts, Apart(cuts),
         Len(out) > 0 => out[Len(out)][2] < i[1]
  PROVE  LET new == Left(out, i, cuts) IN
         /\ Apart(new) /\ (Len(new) > 0 => new[Len(new)][2] <= i[2])
         /\ \A u \in Int : In(new, u) <=> In(out, u) \/ (i[1] <= u /\ u < i[2] /\ ~In(cuts, u))
  <1>. DEFINE at == [cur |-> i[1], end |-> i[2], out |-> out]
              n == Len(cuts)
              last == FoldLeft(Cut, at, cuts)
              new == Left(out, i, cuts)
  <1>1. /\ cuts \in Seq(Intervals) /\ out \in Seq(Intervals) /\ n \in Nat /\ DOMAIN cuts = 1..n
        /\ i[1] \in Int /\ i[2] \in Int
    BY DEF Apart, Intervals
  <1>2. at \in Cutting
    BY <1>1 DEF Cutting
  <1>3. PICK h \in [0..n -> Cutting] :
          h[0] = at /\ h[n] = last /\ \A k \in 1..n : h[k] = Cut(h[k - 1], cuts[k])
    <2>. HIDE DEF at
    <2>. QED BY <1>1, <1>2, CutResults, Zenon
  <1>4. Remains(h[0], 0, i, out, cuts)
    <2>1. at.cur = i[1] /\ at.end = i[2] /\ at.out = out
      OBVIOUS
    <2>2. \A u \in Int : ~Seen(cuts, 0, u)
      BY DEF Seen
    <2>3. Len(out) > 0 => out[Len(out)][2] < i[1] /\ out[Len(out)][2] <= i[2]
      <3>. HAVE Len(out) > 0
      <3>1. Len(out) \in 1..Len(out)
        BY <1>1
      <3>2. out[Len(out)] \in Intervals
        BY <1>1, <3>1
      <3>3. out[Len(out)][2] \in Int
        BY <3>2 DEF Intervals
      <3>. QED BY <1>1, <3>3
    <2>4. \A u \in Int : i[1] <= u => ~(u < i[1])
      BY <1>1
    <2>5. i[1] <= i[1]
      BY <1>1
    <2>. HIDE DEF at
    <2>6. \A u \in Int : In(at.out, u) <=>
            In(out, u) \/ (i[1] <= u /\ u < at.cur /\ u < i[2] /\ ~Seen(cuts, 0, u))
      BY <2>1, <2>4, Zenon
    <2>7. \A u \in Int : Seen(cuts, 0, u) /\ u < i[2] => u < at.cur
      BY <2>2, Zenon
    <2>. QED BY <1>2, <1>3, <2>1, <2>3, <2>5, <2>6, <2>7, Zenon DEF Remains
  <1>. DEFINE Good(k) == Remains(h[k], k, i, out, cuts)
              bad == {k \in 0..n : ~Good(k)}
  <1>5. ASSUME NEW k \in 1..n, Good(k - 1) PROVE Good(k)
    <2>1. Remains(Cut(h[k - 1], cuts[k]), k, i, out, cuts)
      BY <1>5, CutStep, Zenon
    <2>. QED BY <1>3, <2>1, Zenon
  <1>6. Good(n)
    <2>1. bad = {}
      <3>1. SUFFICES ASSUME bad # {} PROVE FALSE
        OBVIOUS
      <3>2. bad \subseteq Nat
        OBVIOUS
      <3>. HIDE DEF Good
      <3>3. PICK k \in bad : \A m \in bad : k <= m
        BY <3>1, <3>2, LeastNat, Zenon
      <3>4. k # 0
        BY <1>4, <3>3 DEF Good
      <3>5. k \in 1..n /\ k - 1 \in 0..n /\ ~(k <= k - 1)
        BY <1>1, <3>3, <3>4
      <3>6. Good(k - 1)
        BY <3>3, <3>5
      <3>. QED BY <1>5, <3>3, <3>5, <3>6
    <2>. HIDE DEF Good
    <2>2. n \in 0..n
      BY <1>1
    <2>. QED BY <2>1, <2>2
  <1>7. PICK end : /\ Remains(end, n, i, out, cuts)
                   /\ new = IF end.cur < i[2] THEN Append(end.out, <<end.cur, i[2]>>) ELSE end.out
    <2>1. Remains(last, n, i, out, cuts)
      BY <1>3, <1>6, Zenon
    <2>2. new = IF last.cur < i[2] THEN Append(last.out, <<last.cur, i[2]>>) ELSE last.out
      BY Zenon DEF Left
    <2>. QED BY <2>1, <2>2, Zenon
  <1>. HIDE DEF last, new, n, Good, at
  <1>9. /\ end.cur \in Int /\ i[1] <= end.cur /\ Apart(end.out)
        /\ Len(end.out) > 0 => end.out[Len(end.out)][2] < end.cur /\ end.out[Len(end.out)][2] <= i[2]
    BY <1>7 DEF Remains, Cutting
  <1>10. ASSUME NEW u \in Int
         PROVE  /\ Seen(cuts, n, u) <=> In(cuts, u)
                /\ Seen(cuts, n, u) /\ u < i[2] => u < end.cur
                /\ In(end.out, u) <=>
                     In(out, u) \/ (i[1] <= u /\ u < end.cur /\ u < i[2] /\ ~Seen(cuts, n, u))
    <2>1. Seen(cuts, n, u) <=> In(cuts, u)
      BY <1>1, Zenon DEF Seen, In
    <2>. QED BY <1>7, <2>1, Zenon DEF Remains
  <1>11. CASE end.cur < i[2]
    <2>. DEFINE longer == Append(end.out, <<end.cur, i[2]>>)
    <2>1. /\ Apart(longer) /\ Len(longer) = Len(end.out) + 1 /\ longer[Len(longer)] = <<end.cur, i[2]>>
          /\ \A u \in Int : In(longer, u) <=> In(end.out, u) \/ (end.cur <= u /\ u < i[2])
      <3>1. Len(end.out) > 0 => end.out[Len(end.out)][2] < end.cur
        BY <1>9, Zenon
      <3>2. Apart(end.out) /\ end.cur \in Int /\ i[2] \in Int /\ end.cur < i[2]
        BY <1>1, <1>9, <1>11, Zenon
      <3>. QED BY <3>1, <3>2, AppendPiece
    <2>2. new = longer
      BY <1>7, <1>11, Zenon
    <2>. HIDE DEF longer
    <2>3. longer[Len(longer)][2] <= i[2]
      BY <1>1, <2>1
    <2>4. ASSUME NEW u \in Int
          PROVE  In(longer, u) <=> In(out, u) \/ (i[1] <= u /\ u < i[2] /\ ~In(cuts, u))
      <3>1. /\ end.cur <= u => i[1] <= u /\ ~(u < end.cur)
            /\ u < end.cur => u < i[2]
            /\ ~(u < end.cur) => end.cur <= u
        BY <1>1, <1>9, <1>11
      <3>. QED BY <1>10, <2>1, <3>1, Zenon
    <2>. QED BY <2>1, <2>2, <2>3, <2>4 DEF new
  <1>12. CASE ~(end.cur < i[2])
    <2>1. new = end.out
      BY <1>7, <1>12, Zenon
    <2>2. ASSUME NEW u \in Int
          PROVE  In(end.out, u) <=> In(out, u) \/ (i[1] <= u /\ u < i[2] /\ ~In(cuts, u))
      <3>1. u < i[2] => u < end.cur
        BY <1>1, <1>9, <1>12
      <3>. QED BY <1>10, <3>1, Zenon
    <2>. QED BY <1>9, <2>1, <2>2, Zenon DEF new
  <1>. QED BY <1>11, <1>12 DEF new

LEMMA SubtractResults ==
  ASSUME NEW base \in Seq(Intervals), NEW cuts \in Seq(Intervals)
  PROVE  \E h \in [0..Len(base) -> Seq(Intervals)] :
           /\ h[0] = <<>> /\ h[Len(base)] = Subtract(base, cuts)
           /\ \A k \in 1..Len(base) : h[k] = Left(h[k - 1], base[k], cuts)
  <1>. DEFINE n == Len(base)
              V == Seq(Intervals)
              step == [p \in V \X (1..n) |-> Left(p[1], base[p[2]], cuts)]
              Iter(g) == g = [x \in SUBSET DOMAIN base |->
                                IF x = {} THEN <<>> ELSE Left(g[x \ {Max(x)}], base[Max(x)], cuts)]
  <1>1. n \in Nat /\ DOMAIN base = 1..n /\ \A k \in 1..n : base[k] \in Intervals
    OBVIOUS
  <1>2. <<>> \in V
    OBVIOUS
  <1>3. \A v \in V, k \in 1..n :
          Left(v, base[k], cuts) \in V /\ step[<<v, k>>] = Left(v, base[k], cuts)
    BY <1>1, LeftType
  <1>4. step \in [V \X (1..n) -> V]
    BY <1>3
  <1>. HIDE DEF n, V, step
  <1>5. \E g : Iter(g)
    <2>1. PICK g \in [SUBSET (1..n) -> V] : Folds(g, n, <<>>, step)
      BY <1>1, <1>2, <1>4, FoldExists, Zenon
    <2>2. ASSUME NEW x \in SUBSET (1..n), x # {}
          PROVE  step[<<g[x \ {Max(x)}], Max(x)>>] = Left(g[x \ {Max(x)}], base[Max(x)], cuts)
      <3>1. Max(x) \in x
        BY <1>1, <2>2, MaxOf, Zenon
      <3>2. x \ {Max(x)} \in SUBSET (1..n) /\ Max(x) \in 1..n
        BY <3>1
      <3>3. g[x \ {Max(x)}] \in V
        BY <2>1, <3>2, Zenon
      <3>. QED BY <1>3, <3>2, <3>3, Zenon
    <2>3. g = [x \in SUBSET (1..n) |->
                 IF x = {} THEN <<>> ELSE Left(g[x \ {Max(x)}], base[Max(x)], cuts)]
      BY <2>1, <2>2, Zenon DEF Folds
    <2>. QED BY <1>1, <2>3, Zenon
  <1>6. PICK iter : Iter(iter) /\ Subtract(base, cuts) = iter[DOMAIN base]
    <2>1. Subtract(base, cuts) = (CHOOSE g : Iter(g))[DOMAIN base]
      BY Zenon DEF Subtract, FoldLeft, MapThenFoldSet
    <2>2. Iter(CHOOSE g : Iter(g))
      BY <1>5, Zenon
    <2>. QED BY <2>1, <2>2, Zenon
  <1>7. iter[{}] = <<>>
    BY <1>6, Zenon
  <1>8. \A k \in 1..n : iter[1..k - 1] \in V => iter[1..k] = step[<<iter[1..k - 1], k>>]
    <2>. TAKE k \in 1..n
    <2>. HAVE iter[1..k - 1] \in V
    <2>0. k \in 1..n /\ n \in Nat
      BY <1>1
    <2>a. k \in Nat /\ k # 0 /\ 1..k \in SUBSET (1..n) /\ k \in 1..k
      BY <2>0
    <2>1. k \in Nat /\ k # 0 /\ 1..k \in SUBSET DOMAIN base /\ 1..k # {}
      BY <1>1, <2>a, Zenon
    <2>2. Max(1..k) = k /\ (1..k) \ {k} = 1..k - 1
      BY <2>1, MaxOfFirst, Zenon
    <2>3. iter[1..k] = Left(iter[1..k - 1], base[k], cuts)
      BY <1>6, <2>1, <2>2, Zenon
    <2>. QED BY <1>3, <2>3, Zenon
  <1>9. Starts(iter, V, n, <<>>, step)
    BY <1>7, <1>8, Zenon DEF Starts
  <1>10. n \in Nat
    BY <1>1
  <1>11. PICK h : Chain(h, V, n, <<>>, step, iter[1..n])
    BY <1>2, <1>4, <1>9, <1>10, FoldResults, Zenon
  <1>12. /\ h \in [0..n -> V] /\ h[0] = <<>> /\ h[n] = iter[1..n]
         /\ \A k \in 1..n : h[k] = step[<<h[k - 1], k>>]
    BY <1>11, Zenon DEF Chain
  <1>13. \A k \in 1..n : h[k] = Left(h[k - 1], base[k], cuts)
    <2>. TAKE k \in 1..n
    <2>1. k - 1 \in 0..n
      BY <1>1
    <2>2. h[k - 1] \in V
      BY <1>12, <2>1, Zenon
    <2>. QED BY <1>3, <1>12, <2>2, Zenon
  <1>. QED BY <1>1, <1>6, <1>12, <1>13 DEF n, V

(* Subtracting one list of intervals that do not touch from another leaves *)
(* such a list, with exactly the units of the first that the second has    *)
(* not (core/scheduling.py:80-91).                                         *)
THEOREM SubtractIsRight ==
  ASSUME NEW base, Apart(base), NEW cuts, Apart(cuts)
  PROVE  /\ Apart(Subtract(base, cuts))
         /\ \A u \in Int : In(Subtract(base, cuts), u) <=> In(base, u) /\ ~In(cuts, u)
  <1>. DEFINE n == Len(base)
  <1>0. /\ base \in Seq(Intervals) /\ cuts \in Seq(Intervals) /\ n \in Nat /\ DOMAIN base = 1..n
        /\ \A k \in 1..n : base[k] \in Intervals
    BY DEF Apart
  <1>1. /\ base \in Seq(Intervals) /\ cuts \in Seq(Intervals) /\ n \in Nat /\ DOMAIN base = 1..n
        /\ \A k \in 1..n : /\ base[k] \in Intervals /\ base[k][1] < base[k][2]
                           /\ base[k][1] \in Int /\ base[k][2] \in Int
        /\ \A k, m \in 1..n : k < m => base[k][2] < base[m][1]
    BY <1>0 DEF Apart, Intervals
  <1>2. PICK h \in [0..n -> Seq(Intervals)] :
          /\ h[0] = <<>> /\ h[n] = Subtract(base, cuts)
          /\ \A k \in 1..n : h[k] = Left(h[k - 1], base[k], cuts)
    BY <1>1, SubtractResults, Zenon
  <1>. DEFINE Good(k) ==
                /\ Apart(h[k])
                /\ Len(h[k]) > 0 => k # 0 /\ h[k][Len(h[k])][2] <= base[k][2]
                /\ \A u \in Int : In(h[k], u) <=> Seen(base, k, u) /\ ~In(cuts, u)
              bad == {k \in 0..n : ~Good(k)}
  <1>. HIDE DEF n
  <1>3. Good(0)
    <2>1. Len(<<>>) = 0 /\ <<>> \in Seq(Intervals) /\ DOMAIN <<>> = {}
      OBVIOUS
    <2>2. Apart(h[0])
      BY <1>2, <2>1 DEF Apart
    <2>3. \A u \in Int : ~In(h[0], u) /\ ~Seen(base, 0, u)
      BY <1>2, <2>1 DEF In, Seen
    <2>. QED BY <1>2, <2>1, <2>2, <2>3
  <1>4. ASSUME NEW k \in 1..n, Good(k - 1) PROVE Good(k)
    <2>. DEFINE old == h[k - 1]
                i == base[k]
    <2>1. k \in Nat \ {0} /\ k - 1 \in 0..n /\ k # 0 /\ h[k] = Left(old, i, cuts)
          /\ i \in Intervals /\ i[1] < i[2] /\ i[1] \in Int /\ i[2] \in Int
      BY <1>1, <1>2
    <2>2. Len(old) > 0 => old[Len(old)][2] < i[1]
      <3>. HAVE Len(old) > 0
      <3>1. k - 1 # 0 /\ old[Len(old)][2] <= base[k - 1][2]
        BY <1>4
      <3>2. k - 1 \in 1..n /\ k - 1 < k
        BY <1>1, <3>1
      <3>3. base[k - 1][2] < i[1] /\ base[k - 1][2] \in Int
        BY <1>1, <3>2
      <3>4. old[Len(old)][2] \in Int
        <4>1. old \in Seq(Intervals) /\ Len(old) \in Nat
          BY <1>2, <2>1
        <4>2. old[Len(old)] \in Intervals
          BY <4>1
        <4>. QED BY <4>2 DEF Intervals
      <3>. QED BY <2>1, <3>1, <3>3, <3>4
    <2>3. Apart(old) /\ \A u \in Int : In(old, u) <=> Seen(base, k - 1, u) /\ ~In(cuts, u)
      BY <1>4, Zenon
    <2>. HIDE DEF old, i
    <2>4. /\ Apart(h[k]) /\ (Len(h[k]) > 0 => h[k][Len(h[k])][2] <= i[2])
          /\ \A u \in Int : In(h[k], u) <=> In(old, u) \/ (i[1] <= u /\ u < i[2] /\ ~In(cuts, u))
      BY <2>1, <2>2, <2>3, LeftFacts
    <2>5. ASSUME NEW u \in Int PROVE In(h[k], u) <=> Seen(base, k, u) /\ ~In(cuts, u)
      <3>1. Seen(base, k, u) <=> Seen(base, k - 1, u) \/ (i[1] <= u /\ u < i[2])
        BY <2>1, SeenMore, Zenon DEF i
      <3>. QED BY <2>3, <2>4, <3>1, Zenon
    <2>. QED BY <2>1, <2>4, <2>5 DEF i
  <1>. HIDE DEF Good
  <1>5. Good(n)
    <2>1. bad = {}
      <3>1. SUFFICES ASSUME bad # {} PROVE FALSE
        OBVIOUS
      <3>2. bad \subseteq Nat
        OBVIOUS
      <3>3. PICK k \in bad : \A m \in bad : k <= m
        BY <3>1, <3>2, LeastNat, Zenon
      <3>4. k # 0
        BY <1>3, <3>3
      <3>5. k \in 1..n /\ k - 1 \in 0..n /\ ~(k <= k - 1)
        BY <1>1, <3>3, <3>4
      <3>6. Good(k - 1)
        BY <3>3, <3>5
      <3>. QED BY <1>4, <3>3, <3>5, <3>6
    <2>2. n \in 0..n
      BY <1>1
    <2>. QED BY <2>1, <2>2
  <1>6. \A u \in Int : Seen(base, n, u) <=> In(base, u)
    BY <1>1, Zenon DEF Seen, In
  <1>. QED BY <1>2, <1>5, <1>6, Zenon DEF Good

-----------------------------------------------------------------------------
(* What lies in a list, and days.                                          *)

(* An interval is covered by a list exactly when each of its units is.     *)
LEMMA Contiguous ==
  ASSUME NEW list, Apart(list), NEW i \in Intervals, i[1] < i[2]
  PROVE  IsCovered(i, list) <=> \A u \in Int : i[1] <= u /\ u < i[2] => In(list, u)
  <1>. DEFINE n == Len(list)
  <1>0. /\ n \in Nat /\ DOMAIN list = 1..n /\ i[1] \in Int /\ i[2] \in Int
        /\ \A a \in 1..n : list[a] \in Intervals
    BY DEF Apart, Intervals
  <1>1. /\ \A a \in 1..n : list[a][1] \in Int /\ list[a][2] \in Int /\ list[a][1] < list[a][2]
        /\ \A a, b \in 1..n : a < b => list[a][2] < list[b][1]
    BY <1>0 DEF Apart, Intervals
  <1>. HIDE DEF n
  <1>2. ASSUME IsCovered(i, list), NEW u \in Int, i[1] <= u, u < i[2] PROVE In(list, u)
    <2>1. PICK a \in 1..n : list[a][1] <= i[1] /\ list[a][2] >= i[2]
      BY <1>0, <1>2, Zenon DEF IsCovered
    <2>2. list[a][1] <= u /\ u < list[a][2]
      BY <1>0, <1>1, <1>2, <2>1
    <2>. QED BY <1>0, <2>2, Zenon DEF In
  <1>3. ASSUME \A u \in Int : i[1] <= u /\ u < i[2] => In(list, u) PROVE IsCovered(i, list)
    <2>1. In(list, i[1])
      BY <1>0, <1>3
    <2>2. PICK a \in 1..n : list[a][1] <= i[1] /\ i[1] < list[a][2]
      BY <1>0, <2>1, Zenon DEF In
    <2>3. ASSUME list[a][2] < i[2] PROVE FALSE
      <3>1. In(list, list[a][2])
        BY <1>0, <1>1, <1>3, <2>2, <2>3
      <3>2. PICK b \in 1..n : list[b][1] <= list[a][2] /\ list[a][2] < list[b][2]
        BY <1>0, <3>1, Zenon DEF In
      <3>3. a < b \/ b < a \/ a = b
        BY <1>0
      <3>. QED BY <1>1, <3>2, <3>3
    <2>4. list[a][2] >= i[2]
      BY <1>0, <1>1, <2>3
    <2>. QED BY <1>0, <2>2, <2>4, Zenon DEF IsCovered
  <1>. QED BY <1>2, <1>3, Zenon

(* An interval touches a list exactly when one of its units is in it.      *)
LEMMA Touching ==
  ASSUME NEW list, Apart(list), NEW i \in Intervals, i[1] < i[2]
  PROVE  Touches(i, list) <=> \E u \in Int : i[1] <= u /\ u < i[2] /\ In(list, u)
  <1>. DEFINE n == Len(list)
  <1>0. /\ n \in Nat /\ DOMAIN list = 1..n /\ i[1] \in Int /\ i[2] \in Int
        /\ \A a \in 1..n : list[a] \in Intervals
    BY DEF Apart, Intervals
  <1>1. \A a \in 1..n : list[a][1] \in Int /\ list[a][2] \in Int /\ list[a][1] < list[a][2]
    BY <1>0 DEF Apart, Intervals
  <1>. HIDE DEF n
  <1>2. ASSUME Touches(i, list) PROVE \E u \in Int : i[1] <= u /\ u < i[2] /\ In(list, u)
    <2>1. PICK a \in 1..n : i[1] < list[a][2] /\ i[2] > list[a][1]
      BY <1>0, <1>2 DEF Touches, Meet
    <2>2. \E u \in Int : i[1] <= u /\ u < i[2] /\ list[a][1] <= u /\ u < list[a][2]
      <3>1. CASE i[1] <= list[a][1]
        BY <1>0, <1>1, <2>1, <3>1
      <3>2. CASE ~(i[1] <= list[a][1])
        BY <1>0, <1>1, <2>1, <3>2
      <3>. QED BY <3>1, <3>2
    <2>. QED BY <1>0, <2>2, Zenon DEF In
  <1>3. ASSUME NEW u \in Int, i[1] <= u, u < i[2], In(list, u) PROVE Touches(i, list)
    <2>1. PICK a \in 1..n : list[a][1] <= u /\ u < list[a][2]
      BY <1>0, <1>3, Zenon DEF In
    <2>2. i[1] < list[a][2] /\ i[2] > list[a][1]
      BY <1>0, <1>1, <1>3, <2>1
    <2>. QED BY <1>0, <2>2, Zenon DEF Touches, Meet
  <1>. QED BY <1>2, <1>3, Zenon

LEMMA Images ==
  ASSUME NEW S, IsFiniteSet(S), NEW f, DOMAIN f = S
  PROVE  IsFiniteSet({f[x] : x \in S})
  <1>. DEFINE T == {f[x] : x \in S}
              g == [x \in S |-> f[x]]
  <1>1. g \in [S -> T]
    OBVIOUS
  <1>2. \A t \in T : \E x \in S : g[x] = t
    OBVIOUS
  <1>3. g \in Surjection(S, T)
    BY <1>1, <1>2, Zenon DEF Surjection
  <1>. HIDE DEF g, T
  <1>4. IsFiniteSet(T)
    BY <1>3, FS_Surjection, Zenon
  <1>. QED BY <1>4 DEF T

LEMMA ClipFacts ==
  ASSUME NEW S, S \subseteq Intervals, IsFiniteSet(S), NEW lo \in Int, NEW hi \in Int
  PROVE  /\ Clip(S, lo, hi) \subseteq Intervals /\ IsFiniteSet(Clip(S, lo, hi))
         /\ \A u \in Int : Within(Clip(S, lo, hi), u) <=> Within(S, u) /\ lo <= u /\ u < hi
  <1>. DEFINE T == {j \in S : Meet(j, <<lo, hi>>)}
              f == [i \in T |-> <<Later(i[1], lo), Sooner(i[2], hi)>>]
  <1>1. T \in SUBSET S
    OBVIOUS
  <1>2. IsFiniteSet(T)
    BY <1>1, FS_Subset, Zenon
  <1>3. Clip(S, lo, hi) = {f[i] : i \in T}
    BY DEF Clip
  <1>4. IsFiniteSet(Clip(S, lo, hi))
    <2>1. DOMAIN f = T
      OBVIOUS
    <2>. HIDE DEF f, T
    <2>. QED BY <1>2, <1>3, <2>1, Images
  <1>5. \A i \in S : i[1] \in Int /\ i[2] \in Int
    BY DEF Intervals
  <1>6. Clip(S, lo, hi) \subseteq Intervals
    BY <1>5 DEF Clip, Later, Sooner, Intervals
  <1>7. ASSUME NEW u \in Int
        PROVE  Within(Clip(S, lo, hi), u) <=> Within(S, u) /\ lo <= u /\ u < hi
    <2>1. \A i \in S : /\ i[1] <= u /\ u < i[2] /\ lo <= u /\ u < hi => Meet(i, <<lo, hi>>)
                       /\ (Later(i[1], lo) <= u /\ u < Sooner(i[2], hi)
                             <=> i[1] <= u /\ u < i[2] /\ lo <= u /\ u < hi)
      BY <1>5 DEF Meet, Later, Sooner
    <2>2. Within(Clip(S, lo, hi), u) <=>
            \E i \in T : Later(i[1], lo) <= u /\ u < Sooner(i[2], hi)
      <3>1. \A i \in T : f[i][1] = Later(i[1], lo) /\ f[i][2] = Sooner(i[2], hi)
        OBVIOUS
      <3>. HIDE DEF f, T
      <3>2. Within(Clip(S, lo, hi), u) <=> \E i \in T : f[i][1] <= u /\ u < f[i][2]
        BY <1>3 DEF Within
      <3>. QED BY <3>1, <3>2
    <2>. QED BY <2>1, <2>2 DEF Within
  <1>. QED BY <1>4, <1>6, <1>7

LEMMA Products ==
  ASSUME NEW L \in Nat \ {0}, NEW d \in Int, NEW e \in Int
  PROVE  /\ d * L \in Int /\ (d + 1) * L = d * L + L
         /\ d <= e => d * L <= e * L
         /\ d < e => d * L + L <= e * L
  <1>1. d * L \in Int /\ e * L \in Int /\ (d + 1) * L = d * L + L
    OBVIOUS
  <1>2. \A k \in Nat : k * L \in Nat /\ (d + k) * L = d * L + k * L
    OBVIOUS
  <1>3. ASSUME d <= e PROVE d * L <= e * L
    <2>1. e - d \in Nat /\ d + (e - d) = e
      BY <1>3
    <2>2. (d + (e - d)) * L = d * L + (e - d) * L /\ (e - d) * L \in Nat
      BY <1>2, <2>1, Zenon
    <2>. QED BY <1>1, <2>1, <2>2
  <1>4. ASSUME d < e PROVE d * L + L <= e * L
    <2>1. e - d - 1 \in Nat /\ d + 1 + (e - d - 1) = e
      BY <1>4
    <2>2. \A k \in Nat : k * L \in Nat /\ (d + 1 + k) * L = (d + 1) * L + k * L
      OBVIOUS
    <2>3. (d + 1 + (e - d - 1)) * L = (d + 1) * L + (e - d - 1) * L /\ (e - d - 1) * L \in Nat
      BY <2>1, <2>2, Zenon
    <2>. QED BY <1>1, <2>1, <2>3
  <1>. QED BY <1>1, <1>3, <1>4

LEMMA Division ==
  ASSUME NEW u \in Int, NEW L \in Nat \ {0}
  PROVE  u \div L \in Int /\ u % L \in 0..L - 1 /\ u = L * (u \div L) + (u % L)
  <1>1. u = L * (u \div L) + (u % L)
    OBVIOUS
  <1>2. u \div L \in Int /\ u % L \in 0..L - 1
    OBVIOUS
  <1>. QED BY <1>1, <1>2

(* The day and the time of a unit.                                         *)
LEMMA DayFacts ==
  ASSUME NEW u \in Int
  PROVE  /\ DayOf(u) \in Int /\ u % DayLength \in 0..DayLength - 1 /\ DayLength \in Nat \ {0}
         /\ u = At(DayOf(u), u % DayLength) /\ At(DayOf(u), 0) \in Int
         /\ At(DayOf(u), 0) <= u /\ u < At(DayOf(u), 0) + DayLength
  <1>1. DayLength \in Nat \ {0}
    BY CalendarAssumption
  <1>2. /\ u \div DayLength \in Int /\ u % DayLength \in 0..DayLength - 1
        /\ u = DayLength * (u \div DayLength) + (u % DayLength)
    BY <1>1, Division
  <1>3. DayLength * (u \div DayLength) = (u \div DayLength) * DayLength
        /\ (u \div DayLength) * DayLength \in Int
    BY <1>1, <1>2
  <1>. QED BY <1>1, <1>2, <1>3 DEF DayOf, At

LEMMA UnitOfDay ==
  ASSUME NEW d \in Int, NEW x \in 0..DayLength - 1
  PROVE  /\ At(d, x) \in Int /\ At(d, x) = At(d, 0) + x /\ At(d, 0) \in Int
         /\ DayOf(At(d, x)) = d /\ At(d, x) % DayLength = x
  <1>. DEFINE u == At(d, x)
              e == DayOf(u)
              y == u % DayLength
  <1>0. DayLength \in Nat \ {0} /\ x \in Int
    BY CalendarAssumption
  <1>1. d * DayLength \in Int /\ u = d * DayLength + x /\ At(d, 0) = d * DayLength
    BY <1>0 DEF At
  <1>2. u \in Int
    BY <1>0, <1>1
  <1>3. e \in Int /\ y \in 0..DayLength - 1 /\ u = e * DayLength + y
    <2>. HIDE DEF u
    <2>. QED BY <1>2, DayFacts DEF At
  <1>4. e * DayLength \in Int /\ (e < d => e * DayLength + DayLength <= d * DayLength)
        /\ (d < e => d * DayLength + DayLength <= e * DayLength)
    <2>. HIDE DEF e
    <2>. QED BY <1>0, <1>3, Products
  <1>. HIDE DEF u, e, y
  <1>5. e = d
    BY <1>0, <1>1, <1>3, <1>4
  <1>6. y = x
    BY <1>0, <1>1, <1>3, <1>5
  <1>. QED BY <1>0, <1>1, <1>2, <1>5, <1>6 DEF u, e, y

LEMMA DaysGrow ==
  ASSUME NEW u \in Int, NEW v \in Int, u <= v
  PROVE  DayOf(u) <= DayOf(v)
  <1>1. /\ DayOf(u) \in Int /\ DayOf(v) \in Int /\ DayLength \in Nat \ {0}
        /\ DayOf(u) * DayLength \in Int /\ DayOf(v) * DayLength \in Int
        /\ DayOf(u) * DayLength <= u /\ v < DayOf(v) * DayLength + DayLength
    <2>1. \A d \in Int : At(d, 0) = d * DayLength
      BY CalendarAssumption DEF At
    <2>. QED BY DayFacts, <2>1
  <1>2. DayOf(v) < DayOf(u) => DayOf(v) * DayLength + DayLength <= DayOf(u) * DayLength
    BY <1>1, Products
  <1>. QED BY <1>1, <1>2

-----------------------------------------------------------------------------
(* The calendar of a trainer, unit by unit.                                *)

RuleAt(cal, kinds, u) ==
  \E r \in ToSet(cal.rules) :
    /\ r.kind \in kinds /\ r.day = DayOf(u) % WeekLength
    /\ r.from <= DayOf(u) /\ DayOf(u) <= r.until /\ u % DayLength \in r.start..r.end - 1
EntryAt(cal, kinds, u) ==
  \E e \in ToSet(cal.entries) : e.kind \in kinds /\ u \in e.start..e.end - 1
Rows == [rules: Seq(Rule), entries: Seq(DatedEntry)]

LEMMA RowsOf ==
  ASSUME NEW S, NEW s \in Seq(S)
  PROVE  ToSet(s) \subseteq S /\ IsFiniteSet(ToSet(s))
  <1>1. Len(s) \in Nat /\ DOMAIN s = 1..Len(s) /\ \A k \in DOMAIN s : s[k] \in S
    OBVIOUS
  <1>2. IsFiniteSet(1..Len(s))
    BY <1>1, FS_Interval
  <1>3. IsFiniteSet({s[k] : k \in DOMAIN s})
    BY <1>1, <1>2, Images, Zenon
  <1>. QED BY <1>1, <1>3, Zenon DEF ToSet

LEMMA RuleIntervalsFacts ==
  ASSUME NEW cal \in Rows, NEW kinds, NEW lo \in Int, NEW hi \in Int
  PROVE  LET R == RuleIntervals(cal, kinds, lo, hi) IN
         /\ R \subseteq Intervals /\ IsFiniteSet(R)
         /\ \A u \in Int : Within(R, u) <=> RuleAt(cal, kinds, u) /\ lo <= u /\ u < hi
  <1>. DEFINE rules == ToSet(cal.rules)
              days == DayOf(lo) - 1..DayOf(hi) + 1
              on == {y \in days \X rules : /\ y[2].kind \in kinds /\ y[2].day = y[1] % WeekLength
                                           /\ InForce(y[2], y[1])}
              f == [x \in on |-> <<At(x[1], x[2].start), At(x[1], x[2].end)>>]
              S == {f[x] : x \in on}
  <1>1. rules \subseteq Rule /\ IsFiniteSet(rules)
    BY RowsOf DEF Rows
  <1>2. DayOf(lo) \in Int /\ DayOf(hi) \in Int
    BY DayFacts
  <1>3. IsFiniteSet(days)
    BY <1>2, FS_Interval
  <1>. HIDE DEF rules
  <1>4. IsFiniteSet(days \X rules)
    BY <1>1, <1>3, FS_Product, Zenon
  <1>5. on \in SUBSET (days \X rules)
    OBVIOUS
  <1>6. IsFiniteSet(on)
    BY <1>4, <1>5, FS_Subset, Zenon
  <1>7. DOMAIN f = on
    OBVIOUS
  <1>8. \A x \in on : /\ x[1] \in days /\ x[1] \in Int /\ x[2] \in rules
                      /\ x[2].start \in 0..DayLength - 1 /\ x[2].end \in 0..DayLength - 1
                      /\ x[2].kind \in kinds /\ x[2].day = x[1] % WeekLength
                      /\ x[2].from <= x[1] /\ x[1] <= x[2].until
    BY <1>1, <1>2 DEF Rule, Times, InForce
  <1>9. \A x \in on : f[x][1] = At(x[1], x[2].start) /\ f[x][2] = At(x[1], x[2].end)
    OBVIOUS
  <1>10. RuleIntervals(cal, kinds, lo, hi) = Clip(S, lo, hi)
    BY Zenon DEF RuleIntervals, rules
  <1>11. \A d \in days, r \in rules : r.kind \in kinds /\ r.day = d % WeekLength /\ r.from <= d /\ d <= r.until
           => <<d, r>> \in on
    BY DEF InForce
  <1>12. S \subseteq Intervals
    <2>1. \A x \in on : At(x[1], x[2].start) \in Int /\ At(x[1], x[2].end) \in Int
      <3>. HIDE DEF on, days
      <3>. QED BY <1>8, UnitOfDay
    <2>. HIDE DEF f, on
    <2>2. \A x \in on : <<At(x[1], x[2].start), At(x[1], x[2].end)>> \in Intervals
      BY <2>1 DEF Intervals
    <2>3. \A x \in on : f[x] = <<At(x[1], x[2].start), At(x[1], x[2].end)>>
      BY Zenon DEF f
    <2>. QED BY <2>2, <2>3
  <1>13. IsFiniteSet(S)
    <2>. HIDE DEF f, on
    <2>. QED BY <1>6, <1>7, Images, Zenon
  <1>. HIDE DEF on, f
  <1>14. ASSUME NEW u \in Int, lo <= u, u < hi
         PROVE  Within(S, u) <=> RuleAt(cal, kinds, u)
    <2>1. DayOf(u) \in Int /\ u % DayLength \in 0..DayLength - 1 /\ DayLength \in Nat \ {0}
          /\ u = At(DayOf(u), u % DayLength) /\ At(DayOf(u), 0) \in Int
          /\ u = At(DayOf(u), 0) + (u % DayLength)
      BY DayFacts, UnitOfDay
    <2>2. DayOf(lo) <= DayOf(u) /\ DayOf(u) <= DayOf(hi)
      BY <1>14, DaysGrow
    <2>3. DayOf(u) \in days
      BY <1>2, <2>1, <2>2
    <2>4. \A d \in Int, a, b \in 0..DayLength - 1 :
            At(d, a) <= u /\ u < At(d, b) <=> d = DayOf(u) /\ u % DayLength \in a..b - 1
      <3>. SUFFICES ASSUME NEW d \in Int, NEW a \in 0..DayLength - 1, NEW b \in 0..DayLength - 1
                    PROVE  At(d, a) <= u /\ u < At(d, b) <=> d = DayOf(u) /\ u % DayLength \in a..b - 1
        OBVIOUS
      <3>1. At(d, a) = At(d, 0) + a /\ At(d, b) = At(d, 0) + b /\ At(d, 0) \in Int
        BY UnitOfDay
      <3>2. ASSUME At(d, a) <= u, u < At(d, b) PROVE d = DayOf(u)
        <4>. DEFINE x == u - At(d, 0)
        <4>1. x \in 0..DayLength - 1 /\ At(d, 0) + x = u
          BY <3>1, <3>2, <2>1
        <4>. HIDE DEF x
        <4>2. At(d, x) = u
          BY <4>1, UnitOfDay
        <4>3. DayOf(At(d, x)) = d
          BY <4>1, UnitOfDay
        <4>. QED BY <4>2, <4>3
      <3>3. ASSUME d = DayOf(u) PROVE At(d, a) <= u /\ u < At(d, b) <=> u % DayLength \in a..b - 1
        <4>. DEFINE x == u % DayLength
        <4>1. u = At(d, 0) + x /\ x \in Int /\ a \in Int /\ b \in Int
          BY <2>1, <3>3
        <4>. HIDE DEF x
        <4>2. At(d, a) <= u /\ u < At(d, b) <=> x \in a..b - 1
          BY <3>1, <4>1
        <4>. QED BY <4>2 DEF x
      <3>. QED BY <3>2, <3>3, Zenon
    <2>5. ASSUME Within(S, u) PROVE RuleAt(cal, kinds, u)
      <3>1. PICK x \in on : f[x][1] <= u /\ u < f[x][2]
        BY <2>5 DEF Within
      <3>2. x[1] = DayOf(u) /\ u % DayLength \in x[2].start..x[2].end - 1
        <4>1. /\ x[1] \in Int /\ x[2].start \in 0..DayLength - 1 /\ x[2].end \in 0..DayLength - 1
          BY <1>8, Zenon
        <4>2. At(x[1], x[2].start) <= u /\ u < At(x[1], x[2].end)
          BY <1>9, <3>1, Zenon
        <4>. QED BY <2>4, <4>1, <4>2, Zenon
      <3>. QED BY <1>8, <3>2, Zenon DEF RuleAt, rules
    <2>6. ASSUME RuleAt(cal, kinds, u) PROVE Within(S, u)
      <3>1. PICK r \in rules :
              /\ r.kind \in kinds /\ r.day = DayOf(u) % WeekLength
              /\ r.from <= DayOf(u) /\ DayOf(u) <= r.until /\ u % DayLength \in r.start..r.end - 1
        BY <2>6, Zenon DEF RuleAt, rules
      <3>. DEFINE x == <<DayOf(u), r>>
      <3>2. x \in on
        BY <1>11, <2>3, <3>1, Zenon
      <3>3. r.start \in 0..DayLength - 1 /\ r.end \in 0..DayLength - 1
        BY <1>1 DEF Rule, Times
      <3>4. At(DayOf(u), r.start) <= u /\ u < At(DayOf(u), r.end)
        BY <2>1, <2>4, <3>1, <3>3, Zenon
      <3>5. x[1] = DayOf(u) /\ x[2] = r
        OBVIOUS
      <3>. HIDE DEF x
      <3>6. f[x][1] <= u /\ u < f[x][2]
        BY <1>9, <3>2, <3>4, <3>5, Zenon
      <3>7. f[x] \in S
        BY <3>2, Zenon
      <3>. QED BY <3>6, <3>7, Zenon DEF Within
    <2>. QED BY <2>5, <2>6, Zenon
  <1>. HIDE DEF S
  <1>15. /\ Clip(S, lo, hi) \subseteq Intervals /\ IsFiniteSet(Clip(S, lo, hi))
         /\ \A u \in Int : Within(Clip(S, lo, hi), u) <=> Within(S, u) /\ lo <= u /\ u < hi
    BY <1>12, <1>13, ClipFacts, Zenon
  <1>. QED BY <1>10, <1>14, <1>15, Zenon

LEMMA EntryIntervalsFacts ==
  ASSUME NEW cal \in Rows, NEW kinds, NEW lo \in Int, NEW hi \in Int
  PROVE  LET R == EntryIntervals(cal, kinds, lo, hi) IN
         /\ R \subseteq Intervals /\ IsFiniteSet(R)
         /\ \A u \in Int : Within(R, u) <=> EntryAt(cal, kinds, u) /\ lo <= u /\ u < hi
  <1>. DEFINE rows == {e \in ToSet(cal.entries) : e.kind \in kinds}
              f == [e \in rows |-> <<e.start, e.end>>]
              S == {f[e] : e \in rows}
  <1>1. ToSet(cal.entries) \subseteq DatedEntry /\ IsFiniteSet(ToSet(cal.entries))
    BY RowsOf DEF Rows
  <1>2. rows \in SUBSET ToSet(cal.entries)
    OBVIOUS
  <1>3. IsFiniteSet(rows) /\ DOMAIN f = rows
    BY <1>1, <1>2, FS_Subset, Zenon
  <1>4. \A e \in rows : /\ e.start \in Int /\ e.end \in Int
                        /\ f[e][1] = e.start /\ f[e][2] = e.end /\ f[e] \in Intervals
    BY <1>1 DEF DatedEntry, Intervals
  <1>5. EntryIntervals(cal, kinds, lo, hi) = Clip(S, lo, hi)
    BY Zenon DEF EntryIntervals
  <1>6. \A u \in Int : EntryAt(cal, kinds, u) <=> \E e \in rows : u \in e.start..e.end - 1
    BY Zenon DEF EntryAt
  <1>. HIDE DEF rows, f
  <1>7. S \subseteq Intervals /\ IsFiniteSet(S)
    <2>1. IsFiniteSet(S)
      BY <1>3, Images, Zenon
    <2>. QED BY <1>4, <2>1
  <1>8. \A u \in Int : Within(S, u) <=> EntryAt(cal, kinds, u)
    <2>. TAKE u \in Int
    <2>1. \A e \in rows : f[e][1] <= u /\ u < f[e][2] <=> u \in e.start..e.end - 1
      BY <1>4
    <2>2. Within(S, u) <=> \E e \in rows : f[e][1] <= u /\ u < f[e][2]
      BY DEF Within
    <2>. QED BY <1>6, <2>1, <2>2, Zenon
  <1>. HIDE DEF S
  <1>9. /\ Clip(S, lo, hi) \subseteq Intervals /\ IsFiniteSet(Clip(S, lo, hi))
        /\ \A u \in Int : Within(Clip(S, lo, hi), u) <=> Within(S, u) /\ lo <= u /\ u < hi
    BY <1>7, ClipFacts, Zenon
  <1>. QED BY <1>5, <1>8, <1>9, Zenon

(* What is left of the time of some kinds when blocked time is taken away. *)
LEMMA TimeOfKinds ==
  ASSUME NEW cal \in Rows, NEW kinds, NEW lo \in Int, NEW hi \in Int
  PROVE  LET all == Merge(RuleIntervals(cal, kinds, lo, hi) \cup EntryIntervals(cal, kinds, lo, hi))
             open == Subtract(all, Blocked(cal, lo, hi))
         IN /\ Apart(Blocked(cal, lo, hi)) /\ Apart(open)
            /\ \A u \in Int :
                 /\ In(Blocked(cal, lo, hi), u) <=> EntryAt(cal, Blocking, u) /\ lo <= u /\ u < hi
                 /\ In(open, u) <=> /\ lo <= u /\ u < hi /\ ~EntryAt(cal, Blocking, u)
                                    /\ RuleAt(cal, kinds, u) \/ EntryAt(cal, kinds, u)
  <1>. DEFINE R == RuleIntervals(cal, kinds, lo, hi)
              E == EntryIntervals(cal, kinds, lo, hi)
              B == EntryIntervals(cal, Blocking, lo, hi)
              all == Merge(R \cup E)
              blocked == Merge(B)
              open == Subtract(all, blocked)
  <1>1. /\ R \subseteq Intervals /\ IsFiniteSet(R)
        /\ \A u \in Int : Within(R, u) <=> RuleAt(cal, kinds, u) /\ lo <= u /\ u < hi
    BY RuleIntervalsFacts, Zenon
  <1>2. /\ E \subseteq Intervals /\ IsFiniteSet(E)
        /\ \A u \in Int : Within(E, u) <=> EntryAt(cal, kinds, u) /\ lo <= u /\ u < hi
    BY EntryIntervalsFacts, Zenon
  <1>3. /\ B \subseteq Intervals /\ IsFiniteSet(B)
        /\ \A u \in Int : Within(B, u) <=> EntryAt(cal, Blocking, u) /\ lo <= u /\ u < hi
    BY EntryIntervalsFacts, Zenon
  <1>4. Blocked(cal, lo, hi) = blocked
    BY Zenon DEF Blocked
  <1>. HIDE DEF R, E, B
  <1>5. R \cup E \subseteq Intervals /\ IsFiniteSet(R \cup E)
        /\ \A u \in Int : Within(R \cup E, u) <=> Within(R, u) \/ Within(E, u)
    <2>1. IsFiniteSet(R \cup E)
      BY <1>1, <1>2, FS_Union, Zenon
    <2>2. \A u \in Int : Within(R \cup E, u) <=> Within(R, u) \/ Within(E, u)
      BY DEF Within
    <2>. QED BY <1>1, <1>2, <2>1, <2>2
  <1>6. /\ Apart(all) /\ Apart(blocked)
        /\ \A u \in Int : /\ In(all, u) <=> Within(R \cup E, u)
                          /\ In(blocked, u) <=> Within(B, u)
    BY <1>3, <1>5, MergeIsRight, Zenon
  <1>. HIDE DEF all, blocked
  <1>7. Apart(open) /\ \A u \in Int : In(open, u) <=> In(all, u) /\ ~In(blocked, u)
    BY <1>6, SubtractIsRight, Zenon
  <1>. HIDE DEF open
  <1>8. \A u \in Int :
          /\ In(blocked, u) <=> EntryAt(cal, Blocking, u) /\ lo <= u /\ u < hi
          /\ In(open, u) <=> /\ lo <= u /\ u < hi /\ ~EntryAt(cal, Blocking, u)
                             /\ RuleAt(cal, kinds, u) \/ EntryAt(cal, kinds, u)
    BY <1>1, <1>2, <1>3, <1>5, <1>6, <1>7, Zenon
  <1>. QED BY <1>4, <1>6, <1>7, <1>8, Zenon DEF open, all, R, E

(* The bookable time of a trainer is exactly what is declared and not      *)
(* blocked, unit by unit, and is a list of intervals that do not touch     *)
(* (core/scheduling.py:202-229).                                           *)
THEOREM BookableIsRight ==
  ASSUME NEW cal \in Rows, NEW lo \in Int, NEW hi \in Int
  PROVE  /\ Apart(Blocked(cal, lo, hi)) /\ Apart(Bookable(cal, lo, hi))
         /\ \A u \in Int :
              /\ In(Blocked(cal, lo, hi), u) <=> EntryAt(cal, Blocking, u) /\ lo <= u /\ u < hi
              /\ In(Bookable(cal, lo, hi), u) <=>
                   /\ lo <= u /\ u < hi /\ ~EntryAt(cal, Blocking, u)
                   /\ RuleAt(cal, Offering, u) \/ EntryAt(cal, Offering, u)
  BY TimeOfKinds, Zenon DEF Bookable, Offered

-----------------------------------------------------------------------------
(* Rows of a table.                                                        *)

LEMMA RowOf ==
  ASSUME NEW S, NEW s \in Seq(S), NEW x
  PROVE  x \in ToSet(s) <=> \E k \in 1..Len(s) : s[k] = x
  BY DEF ToSet

LEMMA Concats ==
  ASSUME NEW S, NEW s \in Seq(S), NEW t \in Seq(S)
  PROVE  s \o t \in Seq(S) /\ ToSet(s \o t) = ToSet(s) \cup ToSet(t)
  <1>. DEFINE m == Len(s)
              n == Len(t)
  <1>1. m \in Nat /\ n \in Nat
    OBVIOUS
  <1>2. /\ s \o t \in Seq(S) /\ Len(s \o t) = m + n
        /\ \A i \in 1..m + n : (s \o t)[i] = IF i <= m THEN s[i] ELSE t[i - m]
    BY ConcatProperties
  <1>3. ASSUME NEW x \in ToSet(s \o t) PROVE x \in ToSet(s) \cup ToSet(t)
    <2>1. PICK k \in 1..m + n : (s \o t)[k] = x
      BY <1>2, RowOf
    <2>2. CASE k <= m
      BY <1>1, <1>2, <2>1, <2>2, RowOf
    <2>3. CASE ~(k <= m)
      <3>1. k - m \in 1..n /\ t[k - m] = x
        BY <1>1, <1>2, <2>1, <2>3
      <3>. QED BY <3>1, RowOf
    <2>. QED BY <2>2, <2>3
  <1>4. ASSUME NEW x \in ToSet(s) PROVE x \in ToSet(s \o t)
    <2>1. PICK k \in 1..m : s[k] = x
      BY RowOf
    <2>2. k \in 1..m + n /\ (s \o t)[k] = x
      BY <1>1, <1>2, <2>1
    <2>. QED BY <1>2, <2>2, RowOf
  <1>5. ASSUME NEW x \in ToSet(t) PROVE x \in ToSet(s \o t)
    <2>1. PICK k \in 1..n : t[k] = x
      BY RowOf
    <2>2. m + k \in 1..m + n /\ ~(m + k <= m) /\ m + k - m = k
      BY <1>1, <2>1
    <2>3. (s \o t)[m + k] = x
      BY <1>2, <2>1, <2>2
    <2>. QED BY <1>2, <2>2, <2>3, RowOf
  <1>. QED BY <1>2, <1>3, <1>4, <1>5

LEMMA Replacements ==
  ASSUME NEW S, NEW s \in Seq(S), NEW i \in DOMAIN s, NEW e \in S
  PROVE  /\ ReplaceAt(s, i, e) \in Seq(S) /\ e \in ToSet(ReplaceAt(s, i, e))
         /\ ToSet(ReplaceAt(s, i, e)) \subseteq ToSet(s) \cup {e}
         /\ ToSet(s) \subseteq ToSet(ReplaceAt(s, i, e)) \cup {s[i]}
  <1>1. ReplaceAt(s, i, e) \in Seq(S) /\ DOMAIN ReplaceAt(s, i, e) = DOMAIN s
        /\ \A k \in DOMAIN s : ReplaceAt(s, i, e)[k] = IF k = i THEN e ELSE s[k]
    BY DEF ReplaceAt
  <1>2. /\ \A x : x \in ToSet(s) <=> \E k \in DOMAIN s : s[k] = x
        /\ \A x : x \in ToSet(ReplaceAt(s, i, e)) <=> \E k \in DOMAIN s : ReplaceAt(s, i, e)[k] = x
    BY <1>1 DEF ToSet
  <1>3. ReplaceAt(s, i, e)[i] = e
    BY <1>1, Zenon
  <1>. QED BY <1>1, <1>2, <1>3, Zenon

LEMMA Removals ==
  ASSUME NEW S, NEW s \in Seq(S), NEW i \in DOMAIN s
  PROVE  /\ RemoveAt(s, i) \in Seq(S)
         /\ ToSet(RemoveAt(s, i)) \subseteq ToSet(s)
         /\ ToSet(s) \subseteq ToSet(RemoveAt(s, i)) \cup {s[i]}
  <1>. DEFINE n == Len(s)
              a == SubSeq(s, 1, i - 1)
              b == SubSeq(s, i + 1, n)
  <1>1. n \in Nat /\ i \in 1..n /\ \A k \in 1..n : s[k] \in S
    OBVIOUS
  <1>2. a \in Seq(S) /\ Len(a) = i - 1 /\ \A k \in 1..i - 1 : a[k] = s[k]
    <2>1. \A k \in 1..i - 1 : s[k] \in S
      BY <1>1
    <2>. DEFINE m == i - 1
    <2>2. m \in Int
      BY <1>1
    <2>3. \A k \in 1..m : s[k] \in S
      BY <2>1
    <2>. HIDE DEF m
    <2>4. /\ SubSeq(s, 1, m) \in Seq(S) /\ Len(SubSeq(s, 1, m)) = IF 1 <= m THEN m - 1 + 1 ELSE 0
          /\ \A k \in 1..m - 1 + 1 : SubSeq(s, 1, m)[k] = s[1 + k - 1]
      BY <2>2, <2>3, SubSeqProperties
    <2>5. m \in Nat
      BY <1>1 DEF m
    <2>6. Len(SubSeq(s, 1, m)) = m /\ \A k \in 1..m : SubSeq(s, 1, m)[k] = s[k]
      BY <2>4, <2>5
    <2>. QED BY <2>4, <2>6 DEF m
  <1>3. b \in Seq(S) /\ Len(b) = n - i /\ \A k \in 1..n - i : b[k] = s[i + k]
    <2>. DEFINE m == i + 1
    <2>1. m \in Int /\ n \in Int /\ m \in 2..n + 1 /\ \A k \in m..n : s[k] \in S
      BY <1>1
    <2>. HIDE DEF m, n
    <2>2. /\ SubSeq(s, m, n) \in Seq(S) /\ Len(SubSeq(s, m, n)) = IF m <= n THEN n - m + 1 ELSE 0
          /\ \A k \in 1..n - m + 1 : SubSeq(s, m, n)[k] = s[m + k - 1]
      BY <2>1, SubSeqProperties
    <2>3. Len(SubSeq(s, m, n)) = n - m + 1
      BY <2>1, <2>2
    <2>4. i \in Int /\ m = i + 1
      BY <1>1 DEF m
    <2>5. n - m + 1 = n - i /\ \A k \in 1..n - i : m + k - 1 = i + k
      <3>1. n - m + 1 = n - i
        BY <2>1, <2>4
      <3>2. \A k \in Int : m + k - 1 = i + k
        BY <2>4
      <3>. QED BY <2>1, <2>4, <3>1, <3>2
    <2>6. \A k \in 1..n - i : SubSeq(s, m, n)[k] = s[i + k]
      BY <2>2, <2>5
    <2>. QED BY <2>2, <2>3, <2>5, <2>6 DEF m
  <1>4. RemoveAt(s, i) = a \o b
    BY DEF RemoveAt
  <1>5. RemoveAt(s, i) \in Seq(S) /\ ToSet(RemoveAt(s, i)) = ToSet(a) \cup ToSet(b)
    <2>1. a \in Seq(S) /\ b \in Seq(S)
      BY <1>2, <1>3
    <2>. HIDE DEF a, b
    <2>2. a \o b \in Seq(S) /\ ToSet(a \o b) = ToSet(a) \cup ToSet(b)
      BY <2>1, Concats
    <2>. QED BY <1>4, <2>2
  <1>. HIDE DEF a, b, n
  <1>6. ASSUME NEW x \in ToSet(a) \cup ToSet(b) PROVE x \in ToSet(s)
    <2>1. CASE x \in ToSet(a)
      <3>1. PICK k \in 1..i - 1 : a[k] = x
        BY <1>2, <2>1, RowOf
      <3>. QED BY <1>1, <1>2, <3>1, RowOf DEF n
    <2>2. CASE x \in ToSet(b)
      <3>1. PICK k \in 1..n - i : b[k] = x
        BY <1>3, <2>2, RowOf
      <3>2. i + k \in 1..n
        BY <1>1, <3>1
      <3>. QED BY <1>3, <3>1, <3>2, RowOf DEF n
    <2>. QED BY <2>1, <2>2
  <1>7. ASSUME NEW x \in ToSet(s), x # s[i] PROVE x \in ToSet(a) \cup ToSet(b)
    <2>1. PICK k \in 1..n : s[k] = x
      BY RowOf DEF n
    <2>2. CASE k < i
      <3>1. k \in 1..i - 1 /\ a[k] = x
        BY <1>1, <1>2, <2>1, <2>2
      <3>. QED BY <1>2, <3>1, RowOf
    <2>3. CASE k > i
      <3>1. k - i \in 1..n - i /\ i + (k - i) = k
        BY <1>1, <2>1, <2>3
      <3>2. b[k - i] = x
        BY <1>3, <2>1, <3>1
      <3>. QED BY <1>3, <3>1, <3>2, RowOf
    <2>. QED BY <1>1, <1>7, <2>1, <2>2, <2>3
  <1>. QED BY <1>5, <1>6, <1>7

LEMMA Listed ==
  ASSUME NEW S, IsFiniteSet(S)
  PROVE  SetToSeq(S) \in Seq(S)
  <1>. DEFINE n == Cardinality(S)
  <1>1. n \in Nat /\ \E f \in [1..n -> S] : IsInjective(f)
    BY FS_CardinalityType, Zenon DEF ExistsBijection, Bijection, Injection
  <1>2. SetToSeq(S) \in [1..n -> S]
    BY <1>1, Zenon DEF SetToSeq
  <1>. HIDE DEF n
  <1>. QED BY <1>1, <1>2

(* The largest and the smallest of finitely many numbers.                  *)
LEMMA Extremes ==
  ASSUME NEW S, S \subseteq Int, IsFiniteSet(S), S # {}
  PROVE  /\ Max(S) \in S /\ \A x \in S : x <= Max(S)
         /\ Min(S) \in S /\ \A x \in S : Min(S) <= x
  <1>. DEFINE f == [x \in S |-> <<x, 0>>]
              P == {f[x] : x \in S}
              n == Cardinality(P)
  <1>1. IsFiniteSet(P)
    <2>1. DOMAIN f = S
      OBVIOUS
    <2>. HIDE DEF f
    <2>. QED BY <2>1, Images, Zenon
  <1>2. P \subseteq Intervals
    BY DEF Intervals
  <1>3. (\A i \in P : i[1] \in S) /\ \A x \in S : f[x] \in P /\ f[x][1] = x
    OBVIOUS
  <1>. HIDE DEF P, f
  <1>4. /\ n \in Nat /\ \A m \in 1..n : Sorted(P)[m] \in P
        /\ \A i \in P : \E m \in 1..n : Sorted(P)[m] = i
        /\ \A k, m \in 1..n : k < m => Sorted(P)[k][1] <= Sorted(P)[m][1]
    BY <1>1, <1>2, SortedFacts, Zenon
  <1>. HIDE DEF n
  <1>5. \A x \in S : \E m \in 1..n : Sorted(P)[m][1] = x
    <2>. TAKE x \in S
    <2>1. f[x] \in P /\ f[x][1] = x
      BY <1>3
    <2>2. PICK m \in 1..n : Sorted(P)[m] = f[x]
      BY <1>4, <2>1
    <2>. QED BY <2>1, <2>2
  <1>6. \A m \in 1..n : Sorted(P)[m][1] \in S /\ Sorted(P)[m][1] \in Int
    BY <1>3, <1>4
  <1>7. 1 \in 1..n /\ n \in 1..n
    <2>1. PICK x \in S : TRUE
      OBVIOUS
    <2>2. PICK m \in 1..n : Sorted(P)[m][1] = x
      BY <1>5
    <2>. QED BY <1>4, <2>2
  <1>8. \A x \in S : Sorted(P)[n][1] >= x /\ Sorted(P)[1][1] <= x
    <2>. TAKE x \in S
    <2>1. PICK m \in 1..n : Sorted(P)[m][1] = x
      BY <1>5
    <2>2. (m = n \/ m < n) /\ (m = 1 \/ 1 < m)
      BY <1>4
    <2>. QED BY <1>4, <1>6, <1>7, <2>1, <2>2
  <1>9. Max(S) \in S /\ \A x \in S : Max(S) >= x
    BY <1>6, <1>7, <1>8, Zenon DEF Max
  <1>10. Min(S) \in S /\ \A x \in S : Min(S) <= x
    BY <1>6, <1>7, <1>8, Zenon DEF Min
  <1>. QED BY <1>9, <1>10

-----------------------------------------------------------------------------
(* The classes of a course, whatever the window asked for.                 *)

IsClass(b, i) ==
  /\ i \in Intervals /\ i[1] < i[2]
  /\ \/ \E s \in b.sessions : i = <<At(s[1], s[2]), At(s[1], s[3])>>
     \/ \E d \in Int : /\ d % WeekLength \in b.days /\ b.first <= d /\ d <= b.last
                       /\ i = <<At(d, b.start), At(d, b.end)>>

LEMMA CourseFacts ==
  ASSUME NEW b \in Course
  PROVE  /\ b.start \in Times /\ b.end \in Times /\ b.first \in Int /\ b.last \in Int
         /\ 0 <= b.first /\ IsFiniteSet(b.sessions)
         /\ \A s \in b.sessions : s[1] \in Int /\ s[2] \in Times /\ s[3] \in Times
  <1>1. /\ b.sessions \subseteq Dates \X Times \X Times /\ b.first \in Dates
        /\ b.last \in Dates \cup {Never} /\ b.start \in Times /\ b.end \in Times
    BY DEF Course, CourseOf
  <1>2. Dates \subseteq Nat /\ IsFiniteSet(Dates) /\ IsFiniteSet(Times) /\ Never \in Int
    <2>1. DayLength - 1 \in Int /\ LastDay + WeekLength \in Int /\ Never \in Int
      BY CalendarAssumption
    <2>. QED BY <2>1, FS_Interval DEF Dates, Times
  <1>3. b.sessions \in SUBSET (Dates \X Times \X Times)
    BY <1>1
  <1>4. IsFiniteSet(b.sessions)
    <2>1. IsFiniteSet(Dates \X Times)
      BY <1>2, FS_Product
    <2>2. IsFiniteSet((Dates \X Times) \X Times)
      BY <1>2, <2>1, FS_Product
    <2>. DEFINE D == (Dates \X Times) \X Times
                f == [x \in D |-> <<x[1][1], x[1][2], x[2]>>]
                all == {f[x] : x \in D}
    <2>3. DOMAIN f = D
      OBVIOUS
    <2>4. \A p \in Dates, q \in Times, r \in Times : f[<<<<p, q>>, r>>] = <<p, q, r>>
      OBVIOUS
    <2>. HIDE DEF f
    <2>5. IsFiniteSet(all)
      <3>1. IsFiniteSet(D)
        BY <2>2
      <3>. HIDE DEF D
      <3>. QED BY <2>3, <3>1, Images, Zenon
    <2>6. b.sessions \in SUBSET all
      <3>1. ASSUME NEW s \in b.sessions PROVE s \in all
        <4>1. s \in Dates \X Times \X Times
          BY <1>1
        <4>2. s[1] \in Dates /\ s[2] \in Times /\ s[3] \in Times /\ s = <<s[1], s[2], s[3]>>
          BY <4>1
        <4>3. f[<<<<s[1], s[2]>>, s[3]>>] = s
          BY <2>4, <4>2
        <4>4. <<<<s[1], s[2]>>, s[3]>> \in (Dates \X Times) \X Times
          BY <4>2
        <4>. QED BY <4>3, <4>4, Zenon
      <3>. QED BY <3>1
    <2>. HIDE DEF all
    <2>. QED BY <2>5, <2>6, FS_Subset, Zenon
  <1>5. b.first \in Int /\ 0 <= b.first /\ b.last \in Int
    <2>1. \A d \in Dates : d \in Int /\ 0 <= d
      BY CalendarAssumption DEF Dates
    <2>2. b.first \in Dates /\ (b.last \in Dates \/ b.last = Never) /\ Never \in Int
      BY <1>1, <1>2, Zenon
    <2>. QED BY <2>1, <2>2, Zenon
  <1>6. \A s \in b.sessions : s[1] \in Int /\ s[2] \in Times /\ s[3] \in Times
    <2>1. \A d \in Dates : d \in Int
      BY CalendarAssumption DEF Dates
    <2>2. \A s \in b.sessions : s \in Dates \X Times \X Times
      BY <1>1, Zenon
    <2>3. \A s \in Dates \X Times \X Times : s[1] \in Dates /\ s[2] \in Times /\ s[3] \in Times
      OBVIOUS
    <2>. QED BY <2>1, <2>2, <2>3, Zenon
  <1>. QED BY <1>1, <1>4, <1>5, <1>6

(* A class lies within one day.                                            *)
LEMMA ClassFacts ==
  ASSUME NEW b \in Course, NEW i, IsClass(b, i)
  PROVE  /\ i \in Intervals /\ i[1] \in Int /\ i[2] \in Int /\ i[1] < i[2] /\ DayOf(i[1]) \in Int
         /\ At(DayOf(i[1]), 0) <= i[1] /\ i[2] < At(DayOf(i[1]), 0) + DayLength
         /\ At(DayOf(i[1]), 0) \in Int
         /\ \A u \in Int : i[1] <= u /\ u < i[2] => DayOf(u) = DayOf(i[1])
  <1>1. PICK d \in Int, x \in Times, y \in Times : i = <<At(d, x), At(d, y)>>
    BY CourseFacts DEF IsClass
  <1>2. x \in 0..DayLength - 1 /\ y \in 0..DayLength - 1 /\ DayLength \in Nat \ {0}
    BY CalendarAssumption DEF Times
  <1>3. /\ i[1] = At(d, 0) + x /\ i[2] = At(d, 0) + y /\ At(d, 0) \in Int
        /\ DayOf(i[1]) = d
    BY <1>1, <1>2, UnitOfDay
  <1>4. i \in Intervals /\ i[1] < i[2]
    BY DEF IsClass
  <1>5. ASSUME NEW u \in Int, i[1] <= u, u < i[2] PROVE DayOf(u) = d
    <2>. DEFINE z == u - At(d, 0)
    <2>1. z \in 0..DayLength - 1 /\ At(d, 0) + z = u
      BY <1>2, <1>3, <1>5
    <2>. HIDE DEF z
    <2>2. At(d, z) = u /\ DayOf(At(d, z)) = d
      BY <2>1, UnitOfDay
    <2>. QED BY <2>2
  <1>. QED BY <1>2, <1>3, <1>4, <1>5

LEMMA OccurrencesAre ==
  ASSUME NEW c, courses[c] \in Course, NEW lo \in Int, NEW hi \in Int
  PROVE  /\ IsFiniteSet(Occurrences(c, lo, hi))
         /\ \A i : i \in Occurrences(c, lo, hi) <=> IsClass(courses[c], i) /\ Meet(i, <<lo, hi>>)
  <1>. DEFINE b == courses[c]
              days == Later(b.first, DayOf(lo) - 1)..Sooner(b.last, DayOf(hi) + 1)
              pattern == {d \in days : d % WeekLength \in b.days}
              f == [s \in b.sessions |-> <<At(s[1], s[2]), At(s[1], s[3])>>]
              g == [d \in pattern |-> <<At(d, b.start), At(d, b.end)>>]
              S == {f[s] : s \in b.sessions}
              P == {g[d] : d \in pattern}
  <1>1. /\ b.start \in Times /\ b.end \in Times /\ b.first \in Int /\ b.last \in Int
        /\ IsFiniteSet(b.sessions)
        /\ \A s \in b.sessions : s[1] \in Int /\ s[2] \in Times /\ s[3] \in Times
    BY CourseFacts
  <1>2. DayOf(lo) \in Int /\ DayOf(hi) \in Int
    BY DayFacts
  <1>3. /\ Later(b.first, DayOf(lo) - 1) \in Int /\ Sooner(b.last, DayOf(hi) + 1) \in Int
        /\ \A d \in Int : d \in days <=> /\ b.first <= d /\ d <= b.last
                                         /\ DayOf(lo) - 1 <= d /\ d <= DayOf(hi) + 1
    BY <1>1, <1>2 DEF Later, Sooner
  <1>4. IsFiniteSet(days) /\ days \subseteq Int
    BY <1>3, FS_Interval
  <1>5. pattern \in SUBSET days
    OBVIOUS
  <1>6. IsFiniteSet(pattern)
    <2>. HIDE DEF pattern, days
    <2>. QED BY <1>4, <1>5, FS_Subset
  <1>7. IsFiniteSet(S) /\ IsFiniteSet(P)
    <2>1. DOMAIN f = b.sessions /\ DOMAIN g = pattern
      OBVIOUS
    <2>. HIDE DEF f, g, pattern
    <2>. QED BY <1>1, <1>6, <2>1, Images, Zenon
  <1>8. Occurrences(c, lo, hi) = {i \in S \cup P : i[1] < i[2] /\ Meet(i, <<lo, hi>>)}
    BY Zenon DEF Occurrences
  <1>9. IsFiniteSet(Occurrences(c, lo, hi))
    <2>. HIDE DEF S, P
    <2>1. IsFiniteSet(S \cup P)
      BY <1>7, FS_Union, Zenon
    <2>2. {i \in S \cup P : i[1] < i[2] /\ Meet(i, <<lo, hi>>)} \in SUBSET (S \cup P)
      OBVIOUS
    <2>. QED BY <1>8, <2>1, <2>2, FS_Subset, Zenon
  <1>10. \A i : i \in S <=> \E s \in b.sessions : i = <<At(s[1], s[2]), At(s[1], s[3])>>
    BY Zenon
  <1>11. \A i : i \in P <=> \E d \in pattern : i = <<At(d, b.start), At(d, b.end)>>
    BY Zenon
  <1>12. Times = 0..DayLength - 1
    BY DEF Times
  <1>13. S \cup P \subseteq Intervals
    <2>1. \A d \in Int, x \in Times : At(d, x) \in Int
      BY <1>12, UnitOfDay
    <2>2. \A d \in Int, x \in Times, y \in Times : <<At(d, x), At(d, y)>> \in Intervals
      BY <2>1 DEF Intervals
    <2>3. ASSUME NEW i \in S PROVE i \in Intervals
      <3>1. PICK s \in b.sessions : i = <<At(s[1], s[2]), At(s[1], s[3])>>
        BY <1>10, <2>3
      <3>. QED BY <1>1, <2>2, <3>1, Zenon
    <2>4. ASSUME NEW i \in P PROVE i \in Intervals
      <3>1. PICK d \in pattern : i = <<At(d, b.start), At(d, b.end)>>
        BY <1>11, <2>4
      <3>2. d \in Int
        BY <1>4, <1>5
      <3>. QED BY <1>1, <2>2, <3>1, <3>2, Zenon
    <2>. HIDE DEF S, P
    <2>. QED BY <2>3, <2>4
  <1>14. ASSUME NEW d \in Int, NEW i, i = <<At(d, b.start), At(d, b.end)>>, Meet(i, <<lo, hi>>)
         PROVE  DayOf(lo) - 1 <= d /\ d <= DayOf(hi) + 1
    <2>1. /\ At(d, b.start) \in Int /\ At(d, b.end) \in Int /\ DayOf(At(d, b.start)) = d
          /\ DayOf(At(d, b.end)) = d
      BY <1>1, <1>12, UnitOfDay
    <2>2. At(d, b.start) < hi /\ At(d, b.end) > lo
      BY <1>14 DEF Meet
    <2>3. At(d, b.start) <= hi /\ lo <= At(d, b.end)
      BY <2>1, <2>2
    <2>4. d <= DayOf(hi) /\ DayOf(lo) <= d
      BY <2>1, <2>3, DaysGrow
    <2>. QED BY <1>2, <2>4
  <1>15. ASSUME NEW i PROVE i \in Occurrences(c, lo, hi) <=> IsClass(b, i) /\ Meet(i, <<lo, hi>>)
    <2>. HIDE DEF S, P, b
    <2>1. ASSUME i \in Occurrences(c, lo, hi) PROVE IsClass(b, i) /\ Meet(i, <<lo, hi>>)
      <3>1. i \in S \cup P /\ i[1] < i[2] /\ Meet(i, <<lo, hi>>) /\ i \in Intervals
        BY <1>8, <1>13, <2>1
      <3>2. CASE i \in S
        BY <1>10, <3>1, <3>2, Zenon DEF IsClass
      <3>3. CASE i \in P
        <4>1. PICK d \in pattern : i = <<At(d, b.start), At(d, b.end)>>
          BY <1>11, <3>3
        <4>2. d \in Int /\ d % WeekLength \in b.days /\ b.first <= d /\ d <= b.last
          BY <1>3, <1>4
        <4>. QED BY <3>1, <4>1, <4>2, Zenon DEF IsClass
      <3>. QED BY <3>1, <3>2, <3>3
    <2>2. ASSUME IsClass(b, i), Meet(i, <<lo, hi>>) PROVE i \in Occurrences(c, lo, hi)
      <3>1. i[1] < i[2]
        BY <2>2, Zenon DEF IsClass
      <3>2. CASE \E s \in b.sessions : i = <<At(s[1], s[2]), At(s[1], s[3])>>
        BY <1>8, <1>10, <2>2, <3>1, <3>2
      <3>3. CASE \E d \in Int : /\ d % WeekLength \in b.days /\ b.first <= d /\ d <= b.last
                                /\ i = <<At(d, b.start), At(d, b.end)>>
        <4>1. PICK d \in Int : /\ d % WeekLength \in b.days /\ b.first <= d /\ d <= b.last
                               /\ i = <<At(d, b.start), At(d, b.end)>>
          BY <3>3
        <4>2. DayOf(lo) - 1 <= d /\ d <= DayOf(hi) + 1
          BY <1>14, <2>2, <4>1
        <4>3. d \in days
          BY <1>3, <4>1, <4>2, Zenon
        <4>. HIDE DEF days
        <4>4. d \in pattern
          BY <4>1, <4>3, Zenon
        <4>5. i \in P
          BY <1>11, <4>1, <4>4, Zenon
        <4>. QED BY <1>8, <2>2, <3>1, <4>5
      <3>. QED BY <2>2, <3>2, <3>3 DEF IsClass
    <2>. QED BY <2>1, <2>2, Zenon
  <1>. QED BY <1>9, <1>15

LEMMA TeachesClass ==
  ASSUME NEW c, courses[c] \in Course, NEW u \in Int, NEW t
  PROVE  TeachesAt(t, c, u) <=>
           courses[c].teacher = t /\ \E i : IsClass(courses[c], i) /\ i[1] <= u /\ u < i[2]
  <1>. DEFINE b == courses[c]
  <1>1. /\ b.start \in 0..DayLength - 1 /\ b.end \in 0..DayLength - 1
        /\ b.first \in Int /\ b.last \in Int
        /\ \A s \in b.sessions : /\ s[1] \in Int /\ s[2] \in 0..DayLength - 1
                                 /\ s[3] \in 0..DayLength - 1
    BY CourseFacts DEF Times
  <1>2. DayOf(u) \in Int /\ u % DayLength \in 0..DayLength - 1 /\ DayLength \in Nat \ {0}
        /\ u = At(DayOf(u), u % DayLength) /\ u = At(DayOf(u), 0) + (u % DayLength)
    BY DayFacts, UnitOfDay
  <1>3. ASSUME NEW d \in Int, NEW x \in 0..DayLength - 1, NEW y \in 0..DayLength - 1
        PROVE  /\ At(d, x) <= u /\ u < At(d, y) <=> d = DayOf(u) /\ u % DayLength \in x..y - 1
               /\ <<At(d, x), At(d, y)>> \in Intervals
    <2>1. At(d, x) = At(d, 0) + x /\ At(d, y) = At(d, 0) + y /\ At(d, 0) \in Int
      BY UnitOfDay
    <2>2. ASSUME At(d, x) <= u, u < At(d, y) PROVE d = DayOf(u)
      <3>. DEFINE z == u - At(d, 0)
      <3>1. z \in 0..DayLength - 1 /\ At(d, 0) + z = u
        BY <1>2, <2>1, <2>2
      <3>. HIDE DEF z
      <3>2. At(d, z) = u /\ DayOf(At(d, z)) = d
        BY <3>1, UnitOfDay
      <3>. QED BY <3>2
    <2>3. ASSUME d = DayOf(u) PROVE At(d, x) <= u /\ u < At(d, y) <=> u % DayLength \in x..y - 1
      <3>. DEFINE z == u % DayLength
      <3>1. u = At(d, 0) + z /\ z \in Int /\ x \in Int /\ y \in Int
        BY <1>2, <2>3
      <3>. HIDE DEF z
      <3>2. At(d, x) <= u /\ u < At(d, y) <=> z \in x..y - 1
        BY <2>1, <3>1
      <3>. QED BY <3>2 DEF z
    <2>4. At(d, x) <= u /\ u < At(d, y) <=> d = DayOf(u) /\ u % DayLength \in x..y - 1
      BY <2>2, <2>3, Zenon
    <2>5. <<At(d, x), At(d, y)>> \in Intervals
      BY <2>1 DEF Intervals
    <2>. QED BY <2>4, <2>5
  <1>. HIDE DEF b
  <1>4. \A p, q \in Int : p <= u /\ u < q =>
          <<p, q>>[1] <= u /\ u < <<p, q>>[2] /\ <<p, q>>[1] < <<p, q>>[2]
    OBVIOUS
  <1>5. \A d \in Int, x \in 0..DayLength - 1 : At(d, x) \in Int
    BY UnitOfDay
  <1>6. ASSUME NEW i, IsClass(b, i), i[1] <= u, u < i[2], b.teacher = t PROVE TeachesAt(t, c, u)
    <2>1. CASE \E s \in b.sessions : i = <<At(s[1], s[2]), At(s[1], s[3])>>
      <3>1. PICK s \in b.sessions : i = <<At(s[1], s[2]), At(s[1], s[3])>>
        BY <2>1
      <3>2. s[1] = DayOf(u) /\ u % DayLength \in s[2]..s[3] - 1
        BY <1>1, <1>3, <1>6, <3>1
      <3>. QED BY <1>6, <3>2 DEF TeachesAt, b
    <2>2. CASE \E d \in Int : /\ d % WeekLength \in b.days /\ b.first <= d /\ d <= b.last
                              /\ i = <<At(d, b.start), At(d, b.end)>>
      <3>1. PICK d \in Int : /\ d % WeekLength \in b.days /\ b.first <= d /\ d <= b.last
                             /\ i = <<At(d, b.start), At(d, b.end)>>
        BY <2>2
      <3>2. d = DayOf(u) /\ u % DayLength \in b.start..b.end - 1
        BY <1>1, <1>3, <1>6, <3>1
      <3>3. d \in b.first..b.last
        BY <1>1, <3>1
      <3>. QED BY <1>6, <3>1, <3>2, <3>3 DEF TeachesAt, b
    <2>. QED BY <1>6, <2>1, <2>2, Zenon DEF IsClass
  <1>7. ASSUME TeachesAt(t, c, u)
        PROVE  b.teacher = t /\ \E i : IsClass(b, i) /\ i[1] <= u /\ u < i[2]
    <2>1. b.teacher = t
      BY <1>7 DEF TeachesAt, b
    <2>2. CASE \E s \in b.sessions : s[1] = DayOf(u) /\ u % DayLength \in s[2]..s[3] - 1
      <3>1. PICK s \in b.sessions : s[1] = DayOf(u) /\ u % DayLength \in s[2]..s[3] - 1
        BY <2>2
      <3>. DEFINE i == <<At(s[1], s[2]), At(s[1], s[3])>>
      <3>2. At(s[1], s[2]) <= u /\ u < At(s[1], s[3]) /\ i \in Intervals
        BY <1>1, <1>3, <3>1
      <3>3. i[1] <= u /\ u < i[2] /\ i[1] < i[2]
        BY <1>1, <1>4, <1>5, <3>2, Zenon
      <3>4. IsClass(b, i)
        BY <3>2, <3>3, Zenon DEF IsClass
      <3>. QED BY <2>1, <3>3, <3>4
    <2>3. CASE DayOf(u) % WeekLength \in b.days /\ DayOf(u) \in b.first..b.last
               /\ u % DayLength \in b.start..b.end - 1
      <3>. DEFINE i == <<At(DayOf(u), b.start), At(DayOf(u), b.end)>>
      <3>1. b.first <= DayOf(u) /\ DayOf(u) <= b.last
        BY <1>1, <2>3
      <3>2. At(DayOf(u), b.start) <= u /\ u < At(DayOf(u), b.end) /\ i \in Intervals
        BY <1>1, <1>2, <1>3, <2>3
      <3>3. i[1] <= u /\ u < i[2] /\ i[1] < i[2]
        BY <1>1, <1>2, <1>4, <1>5, <3>2, Zenon
      <3>4. IsClass(b, i)
        BY <1>2, <2>3, <3>1, <3>2, <3>3, Zenon DEF IsClass
      <3>. QED BY <2>1, <3>3, <3>4
    <2>. QED BY <1>7, <2>2, <2>3 DEF TeachesAt, b
  <1>. QED BY <1>6, <1>7 DEF b

-----------------------------------------------------------------------------
(* Types, and what an edit of the calendar does.                           *)

PlanInOrder ==
  /\ {"editors", "rules", "changes", "entries", "names"} \subseteq DOMAIN calPlan
  /\ calPlan.editors \subseteq Teachers
  /\ calPlan.rules \subseteq Rule /\ calPlan.changes \subseteq Change
  /\ calPlan.entries \subseteq DatedEntry
  /\ calPlan.names \in Seq(Teachers) /\ Teachers = ToSet(calPlan.names)
  /\ IsFiniteSet(Courses)
CalTyped == CalendarInOrder /\ PlanInOrder

(* Rules that began before today are still there, until yesterday at least *)
(* if they lasted so long.                                                 *)
Kept(old, new) ==
  \A r \in ToSet(old) : r.from < Today =>
    \E n \in ToSet(new) :
      /\ n.kind = r.kind /\ n.day = r.day /\ n.start = r.start /\ n.end = r.end
      /\ n.from = r.from /\ (n.until >= r.until \/ n.until >= Today - 1)
Edit(t, cal) ==
  /\ Puts(t, cal) /\ RowsInOrder(cal) /\ Kept(calendars[t].rules, cal.rules)
  /\ \/ KeepsCovered(t, cal)
     \/ cal.entries = calendars[t].entries /\ ToSet(calendars[t].rules) \subseteq ToSet(cal.rules)

LEMMA RowsFacts ==
  ASSUME NEW cal
  PROVE  RowsInOrder(cal) <=>
           /\ cal \in Rows
           /\ \A r \in ToSet(cal.rules) : r.start < r.end /\ r.from <= r.until
           /\ \A e \in ToSet(cal.entries) : e.start < e.end
  BY Zenon DEF RowsInOrder, Rows, ToSet

LEMMA ClockFacts ==
  ASSUME CalTyped
  PROVE  /\ clock \in Nat /\ Today \in Dates /\ Today \in Int /\ Today <= LastDay + 1
         /\ At(Today, 0) <= clock /\ At(Today, 0) \in Int
  <1>1. /\ clock \in Int /\ 0 <= clock /\ clock <= (LastDay + 1) * DayLength
        /\ DayLength \in Nat \ {0} /\ LastDay \in Nat /\ WeekLength \in Nat \ {0}
        /\ (LastDay + 1) * DayLength \in Int
    BY CalendarAssumption DEF CalTyped, CalendarInOrder
  <1>2. Today \in Int /\ At(Today, 0) <= clock /\ At(Today, 0) \in Int
    BY <1>1, DayFacts DEF Today
  <1>3. 0 \in 0..DayLength - 1
    BY <1>1
  <1>4. /\ At(0, 0) = 0 /\ DayOf(At(0, 0)) = 0
        /\ At(LastDay + 1, 0) = (LastDay + 1) * DayLength /\ DayOf(At(LastDay + 1, 0)) = LastDay + 1
    <2>1. DayOf(At(0, 0)) = 0 /\ DayOf(At(LastDay + 1, 0)) = LastDay + 1
      BY <1>1, <1>3, UnitOfDay
    <2>2. At(0, 0) = 0 /\ At(LastDay + 1, 0) = (LastDay + 1) * DayLength
      BY <1>1 DEF At
    <2>. QED BY <2>1, <2>2
  <1>5. 0 <= Today /\ Today <= LastDay + 1
    <2>1. DayOf(0) = 0 /\ DayOf((LastDay + 1) * DayLength) = LastDay + 1
      BY <1>4, Zenon
    <2>2. DayOf(0) <= DayOf(clock) /\ DayOf(clock) <= DayOf((LastDay + 1) * DayLength)
      BY <1>1, DaysGrow
    <2>. QED BY <2>1, <2>2 DEF Today
  <1>6. Today \in Dates
    BY <1>1, <1>2, <1>5 DEF Dates
  <1>. QED BY <1>1, <1>2, <1>5, <1>6

LEMMA KeptIf ==
  ASSUME NEW old, NEW new, old.rules \in Seq(Rule), ToSet(old.rules) \subseteq ToSet(new.rules)
  PROVE  Kept(old.rules, new.rules)
  <1>1. \A r \in ToSet(old.rules) : r.until \in Int
    <2>1. ToSet(old.rules) \subseteq Rule
      BY RowsOf, Zenon
    <2>. QED BY <2>1 DEF Rule
  <1>2. \A r \in ToSet(old.rules) : r.until >= r.until
    BY <1>1
  <1>. QED BY <1>2, Zenon DEF Kept

LEMMA OldRows ==
  ASSUME CalTyped, NEW t \in calPlan.editors
  PROVE  /\ t \in Teachers /\ RowsInOrder(calendars[t]) /\ calendars[t] \in Rows
         /\ calendars[t].rules \in Seq(Rule) /\ calendars[t].entries \in Seq(DatedEntry)
         /\ ToSet(calendars[t].rules) \subseteq Rule /\ ToSet(calendars[t].entries) \subseteq DatedEntry
         /\ \A r \in ToSet(calendars[t].rules) : r.start < r.end /\ r.from <= r.until
         /\ \A e \in ToSet(calendars[t].entries) : e.start < e.end
  <1>1. t \in Teachers /\ RowsInOrder(calendars[t])
    BY DEF CalTyped, CalendarInOrder, PlanInOrder
  <1>2. calendars[t] \in Rows
    BY <1>1 DEF RowsInOrder, Rows
  <1>3. calendars[t].rules \in Seq(Rule) /\ calendars[t].entries \in Seq(DatedEntry)
    BY <1>2 DEF Rows
  <1>. QED BY <1>1, <1>2, <1>3, RowsFacts, RowsOf

LEMMA NewRules ==
  ASSUME CalTyped, NEW t \in calPlan.editors, NEW rules \in Seq(Rule)
  PROVE  /\ WithRules(t, rules) \in Rows /\ WithRules(t, rules).rules = rules
         /\ WithRules(t, rules).entries = calendars[t].entries
  BY OldRows DEF WithRules, Rows

LEMMA NewEntries ==
  ASSUME CalTyped, NEW t \in calPlan.editors, NEW entries \in Seq(DatedEntry)
  PROVE  /\ WithEntries(t, entries) \in Rows /\ WithEntries(t, entries).entries = entries
         /\ WithEntries(t, entries).rules = calendars[t].rules
  BY OldRows DEF WithEntries, Rows

LEMMA CreateRulesEdits ==
  ASSUME CalTyped, NEW t \in calPlan.editors, CreateRules(t)
  PROVE  \E cal : Edit(t, cal)
  <1>1. PICK r \in calPlan.rules, days \in (SUBSET (0..WeekLength - 1)) \ {{}} :
          /\ r.start < r.end /\ r.from <= r.until
          /\ Puts(t, WithRules(t, calendars[t].rules \o SetToSeq({[r EXCEPT !.day = d] : d \in days})))
    BY DEF CreateRules
  <1>. DEFINE f == [d \in days |-> [r EXCEPT !.day = d]]
              copies == {f[d] : d \in days}
              rules == calendars[t].rules \o SetToSeq(copies)
              cal == WithRules(t, rules)
  <1>2. IsFiniteSet(copies)
    <2>1. days \in SUBSET (0..WeekLength - 1) /\ IsFiniteSet(0..WeekLength - 1)
      BY CalendarAssumption, FS_Interval
    <2>2. IsFiniteSet(days) /\ DOMAIN f = days
      BY <2>1, FS_Subset
    <2>. HIDE DEF f
    <2>. QED BY <2>2, Images, Zenon
  <1>3. \A x \in copies : x \in Rule /\ x.start < x.end /\ x.from <= x.until
    BY <1>1 DEF CalTyped, PlanInOrder, Rule
  <1>4. copies = {[r EXCEPT !.day = d] : d \in days}
    OBVIOUS
  <1>. HIDE DEF copies
  <1>5. SetToSeq(copies) \in Seq(copies) /\ SetToSeq(copies) \in Seq(Rule)
        /\ ToSet(SetToSeq(copies)) \subseteq copies
    <2>1. SetToSeq(copies) \in Seq(copies)
      BY <1>2, Listed
    <2>. QED BY <1>3, <2>1, RowsOf
  <1>6. rules \in Seq(Rule) /\ ToSet(rules) = ToSet(calendars[t].rules) \cup ToSet(SetToSeq(copies))
    <2>1. calendars[t].rules \in Seq(Rule)
      BY OldRows
    <2>. QED BY <1>5, <2>1, Concats
  <1>7. Puts(t, cal)
    BY <1>1, <1>4, Zenon
  <1>. HIDE DEF rules
  <1>8. cal \in Rows /\ cal.rules = rules /\ cal.entries = calendars[t].entries
    BY <1>6, NewRules
  <1>. HIDE DEF cal
  <1>9. \A x \in ToSet(rules) : x.start < x.end /\ x.from <= x.until
    BY <1>3, <1>5, <1>6, OldRows
  <1>10. RowsInOrder(cal)
    BY <1>8, <1>9, OldRows, RowsFacts, Zenon
  <1>11. ToSet(calendars[t].rules) \subseteq ToSet(cal.rules)
    BY <1>6, <1>8
  <1>12. Kept(calendars[t].rules, cal.rules)
    BY <1>11, OldRows, KeptIf, Zenon
  <1>. QED BY <1>7, <1>8, <1>10, <1>11, <1>12, Zenon DEF Edit

(* What becomes of a rule, and what is put after it.                       *)
LEMMA RuleAfterFacts ==
  ASSUME CalTyped, NEW r \in Rule, NEW change \in Change
  PROVE  LET after == RuleAfter(r, change) IN
         /\ after \in Seq(Rule) /\ after # <<>>
         /\ r.from < Today =>
              /\ after[1].kind = r.kind /\ after[1].day = r.day /\ after[1].start = r.start
              /\ after[1].end = r.end /\ after[1].from = r.from /\ after[1].until >= Today - 1
  <1>. DEFINE new == [r EXCEPT !.start = Sent(change.start, @), !.end = Sent(change.end, @),
                               !.kind = Sent(change.kind, @), !.until = Sent(change.until, @)]
              from == Later(Sent(change.from, Today), Today)
              a == [new EXCEPT !.from = Sent(change.from, @)]
              b == [r EXCEPT !.until = from - 1]
              d == [new EXCEPT !.from = from]
  <1>1. Today \in Dates /\ Today \in Int /\ \A x \in Dates : x \in Int
    BY ClockFacts, CalendarAssumption DEF Dates
  <1>2. /\ r.start \in Times /\ r.end \in Times /\ r.kind \in Offering /\ r.until \in Int
        /\ r.from \in Dates /\ r.day \in 0..WeekLength - 1
        /\ change.start \in Times \cup {Same} /\ change.end \in Times \cup {Same}
        /\ change.kind \in Offering \cup {Same} /\ change.from \in Dates \cup {Same}
        /\ change.until \in Int \cup {Same}
    BY DEF Rule, Change
  <1>3. /\ Sent(change.start, r.start) \in Times /\ Sent(change.end, r.end) \in Times
        /\ Sent(change.kind, r.kind) \in Offering /\ Sent(change.until, r.until) \in Int
        /\ Sent(change.from, r.from) \in Dates /\ Sent(change.from, Today) \in Dates
    BY <1>1, <1>2 DEF Sent
  <1>4. from \in Dates /\ from >= Today /\ from \in Int
    <2>. DEFINE x == Sent(change.from, Today)
    <2>1. x \in Dates /\ x \in Int
      BY <1>1, <1>3
    <2>. HIDE DEF x
    <2>2. Later(x, Today) \in Dates /\ Later(x, Today) >= Today /\ Later(x, Today) \in Int
      BY <1>1, <2>1 DEF Later
    <2>. QED BY <2>2 DEF x
  <1>5. new \in Rule /\ new.from = r.from
    BY <1>2, <1>3 DEF Rule
  <1>6. a \in Rule /\ b \in Rule /\ d \in Rule
    <2>. HIDE DEF new, from
    <2>1. Sent(change.from, new.from) \in Dates
      BY <1>3, <1>5
    <2>. QED BY <1>4, <1>5, <2>1 DEF Rule
  <1>7. /\ b.kind = r.kind /\ b.day = r.day /\ b.start = r.start /\ b.end = r.end
        /\ b.from = r.from /\ b.until = from - 1
    <2>. HIDE DEF from
    <2>. QED BY DEF Rule
  <1>8. RuleAfter(r, change) = IF r.from > Today THEN <<a>> ELSE <<b, d>>
    BY Zenon DEF RuleAfter
  <1>. HIDE DEF a, b, d, new, from
  <1>9. <<a>> \in Seq(Rule) /\ <<b, d>> \in Seq(Rule) /\ <<a>> # <<>> /\ <<b, d>> # <<>>
    BY <1>6
  <1>10. r.from < Today => ~(r.from > Today)
    <2>1. r.from \in Int
      BY <1>1, <1>2, Zenon
    <2>. QED BY <1>1, <2>1
  <1>11. from - 1 >= Today - 1
    BY <1>1, <1>4
  <1>. QED BY <1>7, <1>8, <1>9, <1>10, <1>11

LEMMA UpdateRuleEdits ==
  ASSUME CalTyped, NEW t \in calPlan.editors, UpdateRule(t)
  PROVE  \E cal : Edit(t, cal)
  <1>. DEFINE old == calendars[t].rules
  <1>1. PICK i \in DOMAIN old, change \in calPlan.changes :
          /\ TimesInOrder(Replaced(old, i, change)) /\ DatesInOrder(Replaced(old, i, change))
          /\ KeepsCovered(t, WithRules(t, Replaced(old, i, change)))
          /\ Puts(t, WithRules(t, Replaced(old, i, change)))
    BY DEF UpdateRule
  <1>. DEFINE after == RuleAfter(old[i], change)
              first == ReplaceAt(old, i, after[1])
              rules == Replaced(old, i, change)
              cal == WithRules(t, rules)
  <1>2. old \in Seq(Rule) /\ old[i] \in Rule /\ change \in Change
    BY OldRows DEF CalTyped, PlanInOrder
  <1>3. /\ after \in Seq(Rule) /\ after # <<>>
        /\ old[i].from < Today =>
             /\ after[1].kind = old[i].kind /\ after[1].day = old[i].day
             /\ after[1].start = old[i].start /\ after[1].end = old[i].end
             /\ after[1].from = old[i].from /\ after[1].until >= Today - 1
    BY <1>2, RuleAfterFacts
  <1>4. rules = first \o Tail(after)
    BY DEF Replaced
  <1>. HIDE DEF after, old
  <1>5. after[1] \in Rule /\ Tail(after) \in Seq(Rule)
    BY <1>3, HeadTailProperties, EmptySeq
  <1>6. /\ first \in Seq(Rule) /\ after[1] \in ToSet(first)
        /\ ToSet(old) \subseteq ToSet(first) \cup {old[i]}
    BY <1>2, <1>5, Replacements
  <1>. HIDE DEF first
  <1>7. rules \in Seq(Rule) /\ ToSet(first) \subseteq ToSet(rules)
    <2>. DEFINE rest == Tail(after)
    <2>1. rest \in Seq(Rule) /\ first \in Seq(Rule) /\ rules = first \o rest
      BY <1>4, <1>5, <1>6
    <2>. HIDE DEF rest, rules
    <2>2. first \o rest \in Seq(Rule) /\ ToSet(first \o rest) = ToSet(first) \cup ToSet(rest)
      BY <2>1, Concats
    <2>. QED BY <2>1, <2>2
  <1>8. cal \in Rows /\ cal.rules = rules /\ cal.entries = calendars[t].entries
    <2>. HIDE DEF rules
    <2>. QED BY <1>7, NewRules
  <1>. HIDE DEF rules, cal
  <1>9. \A x \in ToSet(rules) : x.start < x.end /\ x.from <= x.until
    BY <1>1, Zenon DEF ToSet, TimesInOrder, DatesInOrder, rules
  <1>10. RowsInOrder(cal)
    BY <1>8, <1>9, OldRows, RowsFacts, Zenon
  <1>11. Kept(old, rules)
    <2>. SUFFICES ASSUME NEW r \in ToSet(old), r.from < Today
                  PROVE  \E n \in ToSet(rules) :
                           /\ n.kind = r.kind /\ n.day = r.day /\ n.start = r.start /\ n.end = r.end
                           /\ n.from = r.from /\ (n.until >= r.until \/ n.until >= Today - 1)
      BY DEF Kept
    <2>1. CASE r = old[i]
      <3>1. after[1] \in ToSet(rules)
        BY <1>6, <1>7
      <3>. QED BY <1>3, <2>1, <3>1
    <2>2. CASE r # old[i]
      <3>1. r \in ToSet(rules)
        BY <1>6, <1>7, <2>2
      <3>2. r.until \in Int
        <4>1. ToSet(old) \subseteq Rule
          BY <1>2, RowsOf
        <4>. QED BY <4>1 DEF Rule
      <3>. QED BY <3>1, <3>2
    <2>. QED BY <2>1, <2>2
  <1>. QED BY <1>1, <1>8, <1>10, <1>11, Zenon DEF Edit, cal, rules, old

LEMMA DeleteRuleEdits ==
  ASSUME CalTyped, NEW t \in calPlan.editors, DeleteRule(t)
  PROVE  \E cal : Edit(t, cal)
  <1>. DEFINE old == calendars[t].rules
  <1>1. PICK i \in DOMAIN old :
          /\ DatesInOrder(RulesWithout(old, i))
          /\ KeepsCovered(t, WithRules(t, RulesWithout(old, i)))
          /\ Puts(t, WithRules(t, RulesWithout(old, i)))
    BY DEF DeleteRule
  <1>. DEFINE rules == RulesWithout(old, i)
              cal == WithRules(t, rules)
  <1>2. /\ old \in Seq(Rule) /\ old[i] \in Rule /\ old[i] \in ToSet(old)
        /\ Today \in Int /\ \A r \in ToSet(old) : r.until \in Int /\ r.from \in Int /\ r.start < r.end
    <2>1. Today \in Int /\ \A x \in Dates : x \in Int
      BY ClockFacts, CalendarAssumption DEF Dates
    <2>2. old \in Seq(Rule) /\ ToSet(old) \subseteq Rule /\ \A r \in ToSet(old) : r.start < r.end
      BY OldRows
    <2>3. old[i] \in ToSet(old)
      BY DEF ToSet
    <2>. QED BY <2>1, <2>2, <2>3 DEF Rule
  <1>. HIDE DEF old
  <1>3. /\ rules \in Seq(Rule)
        /\ \A x \in ToSet(rules) : x.start < x.end
        /\ Kept(old, rules)
    <2>1. CASE old[i].from > Today
      <3>1. rules = RemoveAt(old, i)
        BY <2>1 DEF RulesWithout
      <3>2. rules \in Seq(Rule) /\ ToSet(rules) \subseteq ToSet(old)
            /\ ToSet(old) \subseteq ToSet(rules) \cup {old[i]}
        BY <1>2, <3>1, Removals
      <3>. HIDE DEF rules
      <3>3. \A r \in ToSet(old) : r.from < Today => r \in ToSet(rules) /\ r.until >= r.until
        BY <1>2, <2>1, <3>2
      <3>4. Kept(old, rules)
        BY <3>3, Zenon DEF Kept
      <3>. QED BY <1>2, <3>2, <3>4
    <2>2. CASE ~(old[i].from > Today)
      <3>. DEFINE ended == [old[i] EXCEPT !.until = Today - 1]
      <3>1. /\ ended \in Rule /\ ended.start = old[i].start /\ ended.end = old[i].end
            /\ ended.kind = old[i].kind /\ ended.day = old[i].day /\ ended.from = old[i].from
            /\ ended.until = Today - 1 /\ ended.until >= Today - 1
        <4>1. Today - 1 \in Int /\ Today - 1 >= Today - 1
          BY <1>2
        <4>. QED BY <1>2, <4>1 DEF Rule
      <3>2. rules = ReplaceAt(old, i, ended)
        BY <1>2, <2>2 DEF RulesWithout, ReplaceAt
      <3>. HIDE DEF ended, rules
      <3>3. /\ rules \in Seq(Rule) /\ ended \in ToSet(rules)
            /\ ToSet(rules) \subseteq ToSet(old) \cup {ended}
            /\ ToSet(old) \subseteq ToSet(rules) \cup {old[i]}
        BY <1>2, <3>1, <3>2, Replacements
      <3>4. \A r \in ToSet(old) : r = old[i] \/ (r \in ToSet(rules) /\ r.until >= r.until)
        BY <1>2, <3>3
      <3>5. Kept(old, rules)
        BY <3>1, <3>3, <3>4, Zenon DEF Kept
      <3>6. \A x \in ToSet(rules) : x.start < x.end
        BY <1>2, <3>1, <3>3
      <3>. QED BY <3>3, <3>5, <3>6
    <2>. QED BY <2>1, <2>2
  <1>4. cal \in Rows /\ cal.rules = rules /\ cal.entries = calendars[t].entries
    <2>. HIDE DEF rules
    <2>. QED BY <1>3, NewRules
  <1>. HIDE DEF rules, cal
  <1>5. \A x \in ToSet(rules) : x.from <= x.until
    BY <1>1, Zenon DEF ToSet, DatesInOrder, rules
  <1>6. RowsInOrder(cal)
    BY <1>3, <1>4, <1>5, OldRows, RowsFacts, Zenon
  <1>. QED BY <1>1, <1>3, <1>4, <1>6, Zenon DEF Edit, cal, rules, old

LEMMA EntriesEdit ==
  ASSUME CalTyped, NEW t \in calPlan.editors, NEW entries \in Seq(DatedEntry),
         \A e \in ToSet(entries) : e.start < e.end,
         KeepsCovered(t, WithEntries(t, entries)), Puts(t, WithEntries(t, entries))
  PROVE  \E cal : Edit(t, cal)
  <1>. DEFINE cal == WithEntries(t, entries)
  <1>1. cal \in Rows /\ cal.entries = entries /\ cal.rules = calendars[t].rules
    BY NewEntries
  <1>2. Puts(t, cal) /\ KeepsCovered(t, cal)
    OBVIOUS
  <1>. HIDE DEF cal
  <1>3. RowsInOrder(cal)
    BY <1>1, OldRows, RowsFacts, Zenon
  <1>4. calendars[t].rules \in Seq(Rule) /\ ToSet(calendars[t].rules) \subseteq ToSet(cal.rules)
    BY <1>1, OldRows
  <1>5. Kept(calendars[t].rules, cal.rules)
    BY <1>4, KeptIf, Zenon
  <1>. QED BY <1>2, <1>3, <1>5, Zenon DEF Edit

LEMMA EntryEdits ==
  ASSUME CalTyped, NEW t \in calPlan.editors,
         CreateEntry(t) \/ UpdateEntry(t) \/ DeleteEntry(t)
  PROVE  \E cal : Edit(t, cal)
  <1>. DEFINE old == calendars[t].entries
  <1>1. old \in Seq(DatedEntry) /\ \A e \in ToSet(old) : e.start < e.end
    BY OldRows
  <1>2. calPlan.entries \subseteq DatedEntry
    BY DEF CalTyped, PlanInOrder
  <1>3. CASE CreateEntry(t)
    <2>1. PICK e \in calPlan.entries :
            /\ InBounds(e) /\ KeepsCovered(t, WithEntries(t, Append(old, e)))
            /\ Puts(t, WithEntries(t, Append(old, e)))
      BY <1>3 DEF CreateEntry
    <2>. HIDE DEF old
    <2>2. e \in DatedEntry /\ e.start < e.end
      BY <1>2, <2>1 DEF InBounds
    <2>3. Append(old, e) \in Seq(DatedEntry) /\ ToSet(Append(old, e)) \subseteq ToSet(old) \cup {e}
      <3>1. /\ Append(old, e) \in Seq(DatedEntry) /\ Len(Append(old, e)) = Len(old) + 1
            /\ \A k \in 1..Len(old) : Append(old, e)[k] = old[k]
            /\ Append(old, e)[Len(old) + 1] = e /\ Len(old) \in Nat
        BY <1>1, <2>2, AppendProperties
      <3>2. ASSUME NEW x \in ToSet(Append(old, e)), x # e PROVE x \in ToSet(old)
        <4>. DEFINE new == Append(old, e)
        <4>0. new \in Seq(DatedEntry) /\ Len(new) = Len(old) + 1 /\ x \in ToSet(new)
          BY <3>1
        <4>. HIDE DEF new
        <4>a. \E k \in 1..Len(new) : new[k] = x
          BY <4>0, RowOf, Zenon
        <4>1. PICK k \in 1..Len(old) + 1 : Append(old, e)[k] = x
          BY <4>0, <4>a DEF new
        <4>2. k \in 1..Len(old) /\ old[k] = x
          BY <3>1, <3>2, <4>1
        <4>. QED BY <1>1, <4>2, RowOf
      <3>. QED BY <3>1, <3>2
    <2>4. \A x \in ToSet(Append(old, e)) : x.start < x.end
      BY <1>1, <2>2, <2>3
    <2>. QED BY <2>1, <2>3, <2>4, EntriesEdit, Zenon
  <1>4. CASE UpdateEntry(t)
    <2>1. PICK i \in DOMAIN old, e \in calPlan.entries, kind \in {Same, "leave", "available"} :
            LET new == [e EXCEPT !.kind = Sent(kind, old[i].kind)] IN
            /\ InBounds(e) /\ KeepsCovered(t, WithEntries(t, ReplaceAt(old, i, new)))
            /\ Puts(t, WithEntries(t, ReplaceAt(old, i, new)))
      BY <1>4 DEF UpdateEntry
    <2>. DEFINE new == [e EXCEPT !.kind = Sent(kind, old[i].kind)]
    <2>. HIDE DEF old
    <2>2. old[i].kind \in Blocking \cup Offering
      <3>1. old[i] \in DatedEntry
        BY <1>1
      <3>. QED BY <3>1 DEF DatedEntry
    <2>3. Sent(kind, old[i].kind) \in Blocking \cup Offering
      BY <2>2 DEF Sent, Blocking, Offering
    <2>4. new \in DatedEntry /\ new.start < new.end
      BY <1>2, <2>1, <2>3 DEF DatedEntry, InBounds
    <2>5. KeepsCovered(t, WithEntries(t, ReplaceAt(old, i, new))) /\ Puts(t, WithEntries(t, ReplaceAt(old, i, new)))
      BY <2>1
    <2>. HIDE DEF new
    <2>6. ReplaceAt(old, i, new) \in Seq(DatedEntry)
          /\ ToSet(ReplaceAt(old, i, new)) \subseteq ToSet(old) \cup {new}
      BY <1>1, <2>4, Replacements
    <2>7. \A x \in ToSet(ReplaceAt(old, i, new)) : x.start < x.end
      BY <1>1, <2>4, <2>6
    <2>. QED BY <2>5, <2>6, <2>7, EntriesEdit, Zenon
  <1>5. CASE DeleteEntry(t)
    <2>1. PICK i \in DOMAIN old :
            /\ KeepsCovered(t, WithEntries(t, RemoveAt(old, i)))
            /\ Puts(t, WithEntries(t, RemoveAt(old, i)))
      BY <1>5 DEF DeleteEntry
    <2>. HIDE DEF old
    <2>2. RemoveAt(old, i) \in Seq(DatedEntry) /\ ToSet(RemoveAt(old, i)) \subseteq ToSet(old)
      BY <1>1, Removals
    <2>3. \A x \in ToSet(RemoveAt(old, i)) : x.start < x.end
      BY <1>1, <2>2
    <2>. QED BY <2>1, <2>2, <2>3, EntriesEdit, Zenon
  <1>. QED BY <1>3, <1>4, <1>5

(* Every edit of a calendar leaves rows in order, keeps what has passed,   *)
(* and either only adds weekly hours or uncovers no class.                 *)
LEMMA Edits ==
  ASSUME CalTyped, NEW t \in calPlan.editors,
         \/ CreateRules(t) \/ UpdateRule(t) \/ DeleteRule(t)
         \/ CreateEntry(t) \/ UpdateEntry(t) \/ DeleteEntry(t)
  PROVE  \E cal : Edit(t, cal)
  BY CreateRulesEdits, UpdateRuleEdits, DeleteRuleEdits, EntryEdits, Zenon

-----------------------------------------------------------------------------
(* What an assignment looks at.                                            *)

LEMMA WindowFacts ==
  ASSUME CalTyped, NEW c \in Courses
  PROVE  LET w == RequiredWindow(c) IN
         /\ courses[c] \in Course /\ w = <<w[1], w[2]>>
         /\ w[1] = At(Later(courses[c].first, Today), 0) /\ w[1] \in Int
         /\ \E e \in Int : w[2] = At(e + 1, 0) /\ w[2] \in Int
  <1>1. courses[c] \in Course
    BY DEF CalTyped, CalendarInOrder
  <1>2. /\ courses[c].first \in Int /\ courses[c].last \in Int
        /\ Today \in Int /\ HorizonDays \in Nat /\ MaxDays \in Nat
    BY <1>1, CourseFacts, ClockFacts, CalendarAssumption
  <1>. DEFINE start == Later(courses[c].first, Today)
              last == IF courses[c].last = Never THEN start + HorizonDays ELSE courses[c].last
              e == Sooner(last, start + MaxDays)
  <1>3. start \in Int
    BY <1>2 DEF Later
  <1>4. last \in Int
    <2>. HIDE DEF start
    <2>. QED BY <1>2, <1>3
  <1>5. e \in Int
    <2>. HIDE DEF start, last
    <2>. QED BY <1>2, <1>3, <1>4 DEF Sooner
  <1>6. RequiredWindow(c) = <<At(start, 0), At(e + 1, 0)>>
    BY Zenon DEF RequiredWindow
  <1>7. 0 \in 0..DayLength - 1
    BY CalendarAssumption
  <1>8. e + 1 \in Int
    BY <1>5
  <1>9. At(start, 0) \in Int /\ At(e + 1, 0) \in Int
    <2>. HIDE DEF start, e
    <2>. QED BY <1>3, <1>7, <1>8, UnitOfDay
  <1>. HIDE DEF last, e
  <1>. QED BY <1>1, <1>5, <1>6, <1>9

LEMMA StillToTeachAre ==
  ASSUME CalTyped, NEW c \in Courses
  PROVE  /\ IsFiniteSet(StillToTeach(c))
         /\ \A i : i \in StillToTeach(c) <=>
              /\ IsClass(courses[c], i) /\ i[2] > clock
              /\ i[1] < RequiredWindow(c)[2] /\ i[2] > RequiredWindow(c)[1]
  <1>. DEFINE w == RequiredWindow(c)
              all == Occurrences(c, w[1], w[2])
  <1>1. courses[c] \in Course /\ w[1] \in Int /\ w[2] \in Int
    BY WindowFacts
  <1>2. StillToTeach(c) = {i \in all : i[2] > clock}
    BY Zenon DEF StillToTeach
  <1>. HIDE DEF w
  <1>3. /\ IsFiniteSet(all)
        /\ \A i : i \in all <=> IsClass(courses[c], i) /\ Meet(i, <<w[1], w[2]>>)
    BY <1>1, OccurrencesAre, Zenon
  <1>4. \A i : Meet(i, <<w[1], w[2]>>) <=> i[1] < w[2] /\ i[2] > w[1]
    BY DEF Meet
  <1>. HIDE DEF all
  <1>5. {i \in all : i[2] > clock} \in SUBSET all
    OBVIOUS
  <1>6. IsFiniteSet(StillToTeach(c))
    BY <1>2, <1>3, <1>5, FS_Subset, Zenon
  <1>7. \A i : i \in StillToTeach(c) <=> i \in all /\ i[2] > clock
    BY <1>2
  <1>. QED BY <1>3, <1>4, <1>6, <1>7, Zenon DEF w

(* The span of the classes an assignment looks at ends within its window.  *)
LEMMA SpanFacts ==
  ASSUME CalTyped, NEW c \in Courses, StillToTeach(c) # {}
  PROVE  LET required == StillToTeach(c) IN
         /\ StartOf(required) \in Int /\ EndOf(required) \in Nat
         /\ EndOf(required) <= RequiredWindow(c)[2]
         /\ \A i \in required : StartOf(required) <= i[1] /\ i[2] <= EndOf(required)
         /\ \E i \in required : EndOf(required) = i[2]
  <1>. DEFINE required == StillToTeach(c)
              f == [i \in required |-> i[1]]
              g == [i \in required |-> i[2]]
              starts == {f[i] : i \in required}
              ends == {g[i] : i \in required}
              w == RequiredWindow(c)
  <1>1. /\ IsFiniteSet(required) /\ courses[c] \in Course
        /\ \A i \in required : IsClass(courses[c], i) /\ i[2] > clock /\ i[1] < w[2]
    BY StillToTeachAre, WindowFacts
  <1>2. \A i \in required : i[1] \in Int /\ i[2] \in Int
    BY <1>1, ClassFacts
  <1>3. clock \in Nat
    BY ClockFacts
  <1>4. PICK e \in Int : w[2] = At(e + 1, 0) /\ w[2] \in Int
    BY WindowFacts
  <1>5. StartOf(required) = Min(starts) /\ EndOf(required) = Max(ends)
    BY DEF StartOf, EndOf
  <1>. HIDE DEF w, required
  <1>6. IsFiniteSet(starts) /\ IsFiniteSet(ends)
    <2>1. DOMAIN f = required /\ DOMAIN g = required
      OBVIOUS
    <2>. HIDE DEF f, g
    <2>. QED BY <1>1, <2>1, Images, Zenon
  <1>7. /\ starts \subseteq Int /\ ends \subseteq Int /\ starts # {} /\ ends # {}
        /\ \A i \in required : i[1] \in starts /\ i[2] \in ends
        /\ \A x \in ends : \E i \in required : x = i[2]
    <2>1. required # {}
      BY DEF required
    <2>. QED BY <1>2, <2>1
  <1>. HIDE DEF starts, ends
  <1>8. /\ Max(ends) \in ends /\ \A x \in ends : x <= Max(ends)
        /\ Min(starts) \in starts /\ \A x \in starts : Min(starts) <= x
    BY <1>6, <1>7, Extremes
  <1>9. PICK i \in required : Max(ends) = i[2]
    BY <1>7, <1>8
  <1>10. i[2] <= w[2]
    <2>1. /\ i[1] < w[2] /\ i[1] \in Int /\ i[2] \in Int /\ DayOf(i[1]) \in Int
          /\ At(DayOf(i[1]), 0) <= i[1] /\ i[2] < At(DayOf(i[1]), 0) + DayLength
      BY <1>1, ClassFacts
    <2>. DEFINE d == DayOf(i[1])
    <2>2. DayLength \in Nat \ {0} /\ d \in Int /\ e + 1 \in Int
      BY <1>4, <2>1, CalendarAssumption
    <2>. HIDE DEF d
    <2>3. At(d, 0) = d * DayLength /\ At(e + 1, 0) = (e + 1) * DayLength
          /\ d * DayLength \in Int /\ (e + 1) * DayLength \in Int
      BY <2>2 DEF At
    <2>4. d < e + 1
      <3>1. e + 1 <= d => (e + 1) * DayLength <= d * DayLength
        BY <2>2, Products
      <3>. QED BY <1>4, <2>1, <2>2, <2>3, <3>1 DEF d
    <2>5. d * DayLength + DayLength <= (e + 1) * DayLength
      BY <2>2, <2>4, Products
    <2>. QED BY <1>4, <2>1, <2>2, <2>3, <2>5 DEF d
  <1>11. i[2] > clock /\ i[2] \in Int
    BY <1>1, <1>2
  <1>12. Max(ends) \in Nat /\ Max(ends) <= w[2]
    BY <1>3, <1>9, <1>10, <1>11
  <1>13. Min(starts) \in Int /\ \A j \in required : Min(starts) <= j[1] /\ j[2] <= Max(ends)
    BY <1>7, <1>8
  <1>. QED BY <1>5, <1>9, <1>12, <1>13, Zenon DEF w, required

-----------------------------------------------------------------------------
(* The types and check constraints hold in every state.                    *)

LEMMA InitTyped == CalInit => CalTyped
  <1>. SUFFICES ASSUME CalInit PROVE CalTyped
    OBVIOUS
  <1>1. /\ {"editors", "rules", "changes", "entries", "names"} \subseteq DOMAIN calPlan
        /\ clock \in 0..(LastDay + 1) * DayLength
        /\ calPlan.editors \subseteq Teachers
        /\ \A t \in Teachers : RowsInOrder(calendars[t])
        /\ courses \in [Courses -> CourseOf(Teachers)]
        /\ expertise \in [Teachers -> SUBSET Programs]
        /\ calPlan.rules \subseteq Rule /\ calPlan.changes \subseteq Change
        /\ calPlan.entries \subseteq DatedEntry /\ IsFiniteSet(Courses)
        /\ calPlan.names \in Seq(Teachers) /\ Teachers = ToSet(calPlan.names)
    BY CalendarAssumption DEF CalInit, Teachers, Courses
  <1>2. agreed \in [Courses -> [till: Nat, free: BOOLEAN]]
    BY DEF CalInit
  <1>. QED BY <1>1, <1>2 DEF CalTyped, CalendarInOrder, PlanInOrder, Course

(* The plan of a behaviour stays, but for the edits it has left.           *)
LEMMA PlanStays ==
  ASSUME PlanInOrder, calPlan' = [calPlan EXCEPT !.left = @ - 1], Teachers' = Teachers,
         Courses' = Courses
  PROVE  PlanInOrder'
  BY DEF PlanInOrder

LEMMA EditTyped ==
  ASSUME CalTyped, NEW t \in Teachers, NEW cal, Edit(t, cal)
  PROVE  /\ CalTyped' /\ Teachers' = Teachers
         /\ calendars'[t] = cal /\ \A o \in Teachers : o # t => calendars'[o] = calendars[o]
         /\ UNCHANGED <<clock, courses, expertise, agreed>>
  <1>1. /\ calendars' = [calendars EXCEPT ![t] = cal] /\ RowsInOrder(cal)
        /\ calPlan' = [calPlan EXCEPT !.left = @ - 1]
        /\ UNCHANGED <<clock, courses, expertise, agreed>>
    BY DEF Edit, Puts
  <1>2. /\ Teachers' = Teachers /\ calendars'[t] = cal
        /\ \A o \in Teachers : o # t => calendars'[o] = calendars[o]
    BY <1>1 DEF Teachers
  <1>3. PlanInOrder'
    BY <1>1, <1>2, PlanStays DEF CalTyped, Courses
  <1>4. CalendarInOrder'
    <2>1. Courses' = Courses /\ Course' = Course
      BY <1>1, <1>2 DEF Courses, Course
    <2>2. \A o \in Teachers : RowsInOrder(calendars'[o])
      BY <1>1, <1>2 DEF CalTyped, CalendarInOrder
    <2>. QED BY <1>1, <1>2, <2>1, <2>2, Zenon DEF CalTyped, CalendarInOrder
  <1>. QED BY <1>1, <1>2, <1>3, <1>4 DEF CalTyped

LEMMA AssignTyped ==
  ASSUME CalTyped, NEW t \in Teachers, NEW c \in Courses, Assign(c, t)
  PROVE  CalTyped'
  <1>. DEFINE required == StillToTeach(c)
              found == [till |-> IF required = {} THEN 0 ELSE EndOf(required),
                        free |-> ConflictsOf(c, t) \cap {"leave", "outside_availability"} = {}]
  <1>1. /\ courses' = [courses EXCEPT ![c].teacher = t] /\ agreed' = [agreed EXCEPT ![c] = found]
        /\ calPlan' = [calPlan EXCEPT !.left = @ - 1] /\ UNCHANGED <<clock, calendars, expertise>>
    BY DEF Assign
  <1>2. found \in [till: Nat, free: BOOLEAN]
    <2>1. required # {} => EndOf(required) \in Nat
      BY SpanFacts
    <2>. HIDE DEF required
    <2>. QED BY <2>1
  <1>. HIDE DEF found
  <1>3. Teachers' = Teachers /\ Courses' = Courses /\ Course' = Course
    BY <1>1 DEF Teachers, Courses, Course
  <1>4. courses[c] \in Course /\ [courses[c] EXCEPT !.teacher = t] \in Course
    BY DEF CalTyped, CalendarInOrder, Course, CourseOf
  <1>5. \A o \in Courses : courses'[o] \in Course
    <2>1. \A o \in Courses : courses[o] \in Course
      BY DEF CalTyped, CalendarInOrder
    <2>2. \A o \in Courses : courses'[o] = IF o = c THEN [courses[c] EXCEPT !.teacher = t] ELSE courses[o]
      BY <1>1 DEF Courses
    <2>. QED BY <1>4, <2>1, <2>2
  <1>6. agreed' \in [Courses -> [till: Nat, free: BOOLEAN]]
    BY <1>1, <1>2 DEF CalTyped, CalendarInOrder
  <1>7. CalendarInOrder'
    BY <1>1, <1>3, <1>5, <1>6, Zenon DEF CalTyped, CalendarInOrder
  <1>8. PlanInOrder'
    BY <1>1, <1>3, PlanStays DEF CalTyped
  <1>. QED BY <1>7, <1>8 DEF CalTyped

LEMMA NextTyped == CalTyped /\ [CalNext]_calVars => CalTyped'
  <1>. SUFFICES ASSUME CalTyped, [CalNext]_calVars PROVE CalTyped'
    OBVIOUS
  <1>1. ASSUME NEW t \in calPlan.editors,
               \/ CreateRules(t) \/ UpdateRule(t) \/ DeleteRule(t)
               \/ CreateEntry(t) \/ UpdateEntry(t) \/ DeleteEntry(t)
        PROVE  CalTyped'
    <2>1. t \in Teachers
      BY DEF CalTyped, PlanInOrder
    <2>. QED BY <1>1, <2>1, Edits, EditTyped, Zenon
  <1>2. ASSUME NEW t \in Teachers, SetExpertise(t) PROVE CalTyped'
    <2>1. PICK wanted \in SUBSET Programs : expertise' = [expertise EXCEPT ![t] = wanted]
      BY <1>2 DEF SetExpertise
    <2>2. /\ UNCHANGED <<clock, calendars, courses, agreed>>
          /\ calPlan' = [calPlan EXCEPT !.left = @ - 1]
      BY <1>2 DEF SetExpertise
    <2>3. Teachers' = Teachers /\ Courses' = Courses /\ Course' = Course
      BY <2>2 DEF Teachers, Courses, Course
    <2>4. expertise' \in [Teachers -> SUBSET Programs]
      BY <2>1 DEF CalTyped, CalendarInOrder
    <2>5. CalendarInOrder'
      BY <2>2, <2>3, <2>4, Zenon DEF CalTyped, CalendarInOrder
    <2>6. PlanInOrder'
      BY <2>2, <2>3, PlanStays DEF CalTyped
    <2>. QED BY <2>5, <2>6 DEF CalTyped
  <1>3. ASSUME NEW t \in Teachers, NEW c \in Courses, Assign(c, t) PROVE CalTyped'
    BY <1>3, AssignTyped
  <1>4. CASE TimePasses
    <2>1. /\ clock < At(LastDay, DayLength) /\ clock' = clock + 1
          /\ UNCHANGED <<calendars, courses, expertise, agreed, calPlan>>
      BY <1>4 DEF TimePasses
    <2>2. clock' \in 0..(LastDay + 1) * DayLength
      <3>1. DayLength \in Nat \ {0} /\ LastDay \in Nat
        BY CalendarAssumption
      <3>2. At(LastDay, DayLength) = (LastDay + 1) * DayLength /\ (LastDay + 1) * DayLength \in Int
        BY <3>1, Products DEF At
      <3>. QED BY <2>1, <3>2, ClockFacts
    <2>3. Teachers' = Teachers /\ Courses' = Courses /\ Course' = Course
      BY <2>1 DEF Teachers, Courses, Course
    <2>4. CalendarInOrder'
      BY <2>1, <2>2, <2>3, Zenon DEF CalTyped, CalendarInOrder
    <2>5. PlanInOrder'
      BY <2>1, <2>3 DEF CalTyped, PlanInOrder
    <2>. QED BY <2>4, <2>5 DEF CalTyped
  <1>5. CASE UNCHANGED calVars
    BY <1>5 DEF calVars, CalTyped, CalendarInOrder, PlanInOrder, Teachers, Courses, Course
  <1>. QED BY <1>1, <1>2, <1>3, <1>4, <1>5, Zenon DEF CalNext

(* The rows, and what requests still ask for, keep their types and check   *)
(* constraints under every request (models/trainer_scheduling.py:16-63).   *)
THEOREM CalendarTyped == CalSpec => []CalTyped
  BY InitTyped, NextTyped, PTL DEF CalSpec

(* In particular every rule, entry and course is a row the tables allow,   *)
(* the first part of what the calendar's run checks.                       *)
THEOREM CalendarStaysInOrder == CalSpec => []CalendarInOrder
  <1>1. CalTyped => CalendarInOrder
    BY DEF CalTyped
  <1>. QED BY <1>1, CalendarTyped, PTL

-----------------------------------------------------------------------------
(* No edit takes past hours away.                                          *)

LEMMA PastUnits ==
  ASSUME CalTyped, NEW u \in 0..At(Today, 0) - 1
  PROVE  DayOf(u) \in Int /\ DayOf(u) <= Today - 1
  <1>1. Today \in Int /\ At(Today, 0) \in Int /\ u \in Int /\ u < At(Today, 0)
    BY ClockFacts
  <1>2. DayOf(u) \in Int /\ At(DayOf(u), 0) <= u /\ DayLength \in Nat \ {0}
    BY <1>1, DayFacts
  <1>3. /\ At(DayOf(u), 0) = DayOf(u) * DayLength /\ At(Today, 0) = Today * DayLength
        /\ DayOf(u) * DayLength \in Int
    BY <1>1, <1>2 DEF At
  <1>4. Today <= DayOf(u) => Today * DayLength <= DayOf(u) * DayLength
    BY <1>1, <1>2, Products
  <1>. QED BY <1>1, <1>2, <1>3, <1>4

LEMMA EditKeepsPast ==
  ASSUME CalTyped, NEW t \in Teachers, NEW cal, Edit(t, cal), NEW o \in Teachers
  PROVE  PastHours(o) \subseteq PastHours(o)'
  <1>1. /\ clock' = clock /\ Today' = Today /\ calendars'[t] = cal
        /\ \A p \in Teachers : p # t => calendars'[p] = calendars[p]
    BY EditTyped DEF Today
  <1>2. CASE o # t
    <2>1. calendars'[o] = calendars[o]
      BY <1>1, <1>2
    <2>. QED BY <1>1, <2>1, Zenon DEF PastHours
  <1>3. CASE o = t
    <2>. SUFFICES ASSUME NEW h \in PastHours(t) PROVE h \in PastHours(t)'
      BY <1>3
    <2>1. h \in (0..At(Today, 0) - 1) \X Offering /\ h[1] \in 0..At(Today, 0) - 1
      BY DEF PastHours
    <2>2. PICK r \in ToSet(calendars[t].rules) :
            /\ r.kind = h[2] /\ r.day = DayOf(h[1]) % WeekLength
            /\ r.from <= DayOf(h[1]) /\ DayOf(h[1]) <= r.until
            /\ h[1] % DayLength \in r.start..r.end - 1
      BY Zenon DEF PastHours
    <2>3. DayOf(h[1]) \in Int /\ DayOf(h[1]) <= Today - 1 /\ Today \in Int
      BY <2>1, PastUnits, ClockFacts
    <2>4. calendars[t] \in Rows /\ cal \in Rows
      <3>1. RowsInOrder(calendars[t]) /\ RowsInOrder(cal)
        BY DEF CalTyped, CalendarInOrder, Edit
      <3>. QED BY <3>1, RowsFacts, Zenon
    <2>5. \A x \in Rule : x.from \in Int /\ x.until \in Int
      BY CalendarAssumption DEF Rule, Dates
    <2>6. r \in Rule /\ ToSet(cal.rules) \subseteq Rule
      BY <2>4, RowsOf DEF Rows
    <2>7. r.from < Today
      BY <2>2, <2>3, <2>5, <2>6
    <2>8. PICK n \in ToSet(cal.rules) :
            /\ n.kind = r.kind /\ n.day = r.day /\ n.start = r.start /\ n.end = r.end
            /\ n.from = r.from /\ (n.until >= r.until \/ n.until >= Today - 1)
      BY <2>7, Zenon DEF Edit, Kept
    <2>9. DayOf(h[1]) <= n.until
      <3>1. r.until \in Int /\ n.until \in Int
        BY <2>5, <2>6
      <3>. QED BY <2>2, <2>3, <2>8, <3>1
    <2>10. \E x \in ToSet(cal.rules) :
             /\ x.kind = h[2] /\ x.day = DayOf(h[1]) % WeekLength
             /\ x.from <= DayOf(h[1]) /\ DayOf(h[1]) <= x.until
             /\ h[1] % DayLength \in x.start..x.end - 1
      BY <2>2, <2>8, <2>9, Zenon
    <2>. QED BY <1>1, <2>1, <2>10, Zenon DEF PastHours
  <1>. QED BY <1>2, <1>3

LEMMA PastStays ==
  ASSUME CalTyped, calendars' = calendars, clock' \in Int, clock' >= clock, NEW o \in Teachers
  PROVE  PastHours(o) \subseteq PastHours(o)'
  <1>1. Today \in Int /\ Today' \in Int /\ Today <= Today'
    <2>1. clock \in Int /\ clock <= clock' /\ Today \in Int
      BY ClockFacts
    <2>. QED BY <2>1, DaysGrow, DayFacts DEF Today
  <1>2. At(Today, 0) \in Int /\ At(Today', 0) \in Int /\ At(Today, 0) <= At(Today', 0)
    <2>1. DayLength \in Nat \ {0}
      BY CalendarAssumption
    <2>2. Today * DayLength <= Today' * DayLength /\ Today * DayLength \in Int
          /\ Today' * DayLength \in Int
      <3>. DEFINE a == Today
                  b == Today'
      <3>1. a \in Int /\ b \in Int /\ a <= b
        BY <1>1
      <3>. HIDE DEF a, b
      <3>2. a * DayLength <= b * DayLength /\ a * DayLength \in Int /\ b * DayLength \in Int
        BY <2>1, <3>1, Products
      <3>. QED BY <3>2 DEF a, b
    <2>. QED BY <2>2 DEF At
  <1>3. At(Today, 0)' = At(Today', 0)
    BY DEF At
  <1>. QED BY <1>2, <1>3 DEF PastHours

(* An edit of weekly hours leaves past days as they were: what a trainer   *)
(* was available for stays on record                                       *)
(* (api/routes_staff_availability.py:116-121, 145).                        *)
THEOREM PastHoursStay == CalSpec => PastHoursKept
  <1>1. ASSUME CalTyped, [CalNext]_calVars
        PROVE  [\A t \in Teachers : PastHours(t) \subseteq PastHours(t)']_calVars
    <2>. SUFFICES ASSUME NEW o \in Teachers PROVE PastHours(o) \subseteq PastHours(o)'
      OBVIOUS
    <2>1. ASSUME NEW t \in calPlan.editors,
                 \/ CreateRules(t) \/ UpdateRule(t) \/ DeleteRule(t)
                 \/ CreateEntry(t) \/ UpdateEntry(t) \/ DeleteEntry(t)
          PROVE  PastHours(o) \subseteq PastHours(o)'
      <3>1. t \in Teachers
        BY <1>1 DEF CalTyped, PlanInOrder
      <3>. QED BY <1>1, <2>1, <3>1, Edits, EditKeepsPast, Zenon
    <2>2. clock \in Int /\ clock >= clock
      BY <1>1, ClockFacts
    <2>3. ASSUME NEW t \in Teachers, SetExpertise(t) \/ \E c \in Courses : Assign(c, t)
          PROVE  PastHours(o) \subseteq PastHours(o)'
      <3>1. calendars' = calendars /\ clock' = clock
        BY <2>3 DEF SetExpertise, Assign
      <3>. QED BY <1>1, <2>2, <3>1, PastStays
    <2>4. CASE TimePasses
      <3>1. calendars' = calendars /\ clock' = clock + 1
        BY <2>4 DEF TimePasses
      <3>. QED BY <1>1, <2>2, <3>1, PastStays
    <2>5. CASE UNCHANGED calVars
      <3>1. calendars' = calendars /\ clock' = clock
        BY <2>5 DEF calVars
      <3>. QED BY <1>1, <2>2, <3>1, PastStays
    <2>. QED BY <1>1, <2>1, <2>3, <2>4, <2>5, Zenon DEF CalNext
  <1>. QED BY <1>1, CalendarTyped, PTL DEF CalSpec, PastHoursKept

-----------------------------------------------------------------------------
(* The classes an assignment has agreed to, and what it found out.         *)

Ahead(c, i) ==
  /\ IsClass(courses[c], i) /\ At(courses[c].first, 0) <= i[1]
  /\ i[1] < agreed[c].till /\ i[2] > clock
OpenAt(cal, u) ==
  (RuleAt(cal, Offering, u) \/ EntryAt(cal, Offering, u)) /\ ~EntryAt(cal, Blocking, u)
Open(cal, i) == \A u \in Int : i[1] <= u /\ u < i[2] => OpenAt(cal, u)
Alone(c, i) ==
  \A o \in Courses \ {c} :
    courses[o].teacher = courses[c].teacher => \A j : Ahead(o, j) => ~Meet(i, j)
Promise(c) ==
  /\ courses[c].teacher \in Teachers /\ agreed[c].till <= RequiredWindow(c)[2]
  /\ \A i : Ahead(c, i) =>
       Alone(c, i) /\ (agreed[c].free => Open(calendars[courses[c].teacher], i))
(* Every class an assignment has agreed to is still one that an edit looks *)
(* at, meets no other such class of its trainer, and lies in open time.    *)
Promises == \A c \in Courses : agreed[c].till > 0 => Promise(c)

LEMMA FirstDay ==
  ASSUME CalTyped, NEW c \in Courses
  PROVE  /\ courses[c] \in Course /\ courses[c].first \in Int
         /\ At(courses[c].first, 0) \in Int /\ 0 <= At(courses[c].first, 0)
  <1>1. courses[c] \in Course /\ courses[c].first \in Int /\ 0 <= courses[c].first
    BY CourseFacts DEF CalTyped, CalendarInOrder
  <1>. DEFINE d == courses[c].first
  <1>2. DayLength \in Nat \ {0} /\ d \in Int /\ 0 <= d
    BY <1>1, CalendarAssumption
  <1>. HIDE DEF d
  <1>3. 0 * DayLength <= d * DayLength /\ 0 * DayLength = 0 /\ d * DayLength \in Int
    BY <1>2, Products
  <1>4. At(d, 0) = d * DayLength
    BY <1>2, <1>3 DEF At
  <1>. QED BY <1>1, <1>3, <1>4 DEF d

LEMMA NothingAhead ==
  ASSUME CalTyped, NEW c \in Courses, agreed[c].till = 0, NEW i
  PROVE  ~Ahead(c, i)
  <1>1. SUFFICES ASSUME Ahead(c, i) PROVE FALSE
    OBVIOUS
  <1>2. i[1] \in Int
    BY <1>1, FirstDay, ClassFacts DEF Ahead
  <1>3. At(courses[c].first, 0) <= i[1] /\ i[1] < 0
    BY <1>1 DEF Ahead
  <1>. QED BY <1>2, <1>3, FirstDay

(* What lies ahead of an agreement, an edit looks at.                      *)
LEMMA AheadRequired ==
  ASSUME CalTyped, NEW c \in Courses, NEW i, Ahead(c, i),
         agreed[c].till \in Int, agreed[c].till <= RequiredWindow(c)[2]
  PROVE  i \in StillToTeach(c)
  <1>. DEFINE w == RequiredWindow(c)
              f == courses[c].first
  <1>1. /\ courses[c] \in Course /\ w[1] = At(Later(f, Today), 0) /\ w[1] \in Int /\ w[2] \in Int
    BY WindowFacts
  <1>2. /\ IsClass(courses[c], i) /\ At(f, 0) <= i[1] /\ i[1] < agreed[c].till /\ i[2] > clock
    BY DEF Ahead
  <1>3. i[1] \in Int /\ i[2] \in Int /\ i[1] < i[2]
    BY <1>1, <1>2, ClassFacts
  <1>4. /\ f \in Int /\ At(f, 0) \in Int /\ Today \in Int /\ At(Today, 0) \in Int
        /\ clock \in Int /\ At(Today, 0) <= clock
    BY FirstDay, ClockFacts
  <1>5. w[1] = At(f, 0) \/ w[1] = At(Today, 0)
    BY <1>1 DEF Later
  <1>6. agreed[c].till <= w[2]
    OBVIOUS
  <1>. HIDE DEF w, f
  <1>7. i[1] < w[2] /\ i[2] > w[1]
    BY <1>1, <1>2, <1>3, <1>4, <1>5, <1>6
  <1>. QED BY <1>2, <1>7, StillToTeachAre DEF w

(* A class is covered by the bookable time exactly when it is open.        *)
LEMMA CoveredIsOpen ==
  ASSUME NEW cal \in Rows, NEW lo \in Int, NEW hi \in Int,
         NEW i \in Intervals, i[1] < i[2], lo <= i[1], i[2] <= hi
  PROVE  /\ IsCovered(i, Bookable(cal, lo, hi)) <=> Open(cal, i)
         /\ Touches(i, Blocked(cal, lo, hi)) <=>
              \E u \in Int : i[1] <= u /\ u < i[2] /\ EntryAt(cal, Blocking, u)
  <1>. DEFINE free == Bookable(cal, lo, hi)
              blocked == Blocked(cal, lo, hi)
  <1>1. /\ Apart(free) /\ Apart(blocked)
        /\ \A u \in Int : /\ In(blocked, u) <=> EntryAt(cal, Blocking, u) /\ lo <= u /\ u < hi
                          /\ In(free, u) <=> lo <= u /\ u < hi /\ OpenAt(cal, u)
    BY BookableIsRight, Zenon DEF OpenAt
  <1>. HIDE DEF free, blocked
  <1>2. \A u \in Int : i[1] <= u /\ u < i[2] => lo <= u /\ u < hi
    BY DEF Intervals
  <1>3. IsCovered(i, free) <=> \A u \in Int : i[1] <= u /\ u < i[2] => In(free, u)
    BY <1>1, Contiguous, Zenon
  <1>4. Touches(i, blocked) <=> \E u \in Int : i[1] <= u /\ u < i[2] /\ In(blocked, u)
    BY <1>1, Touching, Zenon
  <1>5. IsCovered(i, free) <=> Open(cal, i)
    BY <1>1, <1>2, <1>3, Zenon DEF Open
  <1>6. Touches(i, blocked) <=> \E u \in Int : i[1] <= u /\ u < i[2] /\ EntryAt(cal, Blocking, u)
    BY <1>1, <1>2, <1>4, Zenon
  <1>. QED BY <1>5, <1>6 DEF free, blocked

(* A required class of a trainer, and the span it is looked at in.         *)
LEMMA RequiredFacts ==
  ASSUME CalTyped, NEW c \in Courses, NEW i \in StillToTeach(c)
  PROVE  /\ StillToTeach(c) # {} /\ IsClass(courses[c], i) /\ i \in Intervals /\ i[1] < i[2]
         /\ StartOf(StillToTeach(c)) \in Int /\ EndOf(StillToTeach(c)) \in Int
         /\ StartOf(StillToTeach(c)) <= i[1] /\ i[2] <= EndOf(StillToTeach(c))
  <1>1. StillToTeach(c) # {}
    OBVIOUS
  <1>2. /\ StartOf(StillToTeach(c)) \in Int /\ EndOf(StillToTeach(c)) \in Int
        /\ StartOf(StillToTeach(c)) <= i[1] /\ i[2] <= EndOf(StillToTeach(c))
    BY <1>1, SpanFacts
  <1>3. IsClass(courses[c], i)
    BY StillToTeachAre
  <1>. QED BY <1>1, <1>2, <1>3 DEF IsClass

LEMMA UncoveredIsNotOpen ==
  ASSUME CalTyped, NEW t, NEW c \in CoursesOf(t), NEW cal \in Rows, NEW i \in StillToTeach(c)
  PROVE  <<c, i>> \in UncoveredClasses(t, cal) <=> ~Open(cal, i)
  <1>. DEFINE free(d) == Bookable(cal, StartOf(StillToTeach(d)), EndOf(StillToTeach(d)))
              of(d) == IF StillToTeach(d) = {} THEN {}
                       ELSE {<<d, j>> : j \in {k \in StillToTeach(d) : ~IsCovered(k, free(d))}}
  <1>1. UncoveredClasses(t, cal) = UNION {of(d) : d \in CoursesOf(t)}
    BY Zenon DEF UncoveredClasses
  <1>2. c \in Courses
    BY DEF CoursesOf
  <1>3. IsCovered(i, free(c)) <=> Open(cal, i)
    BY <1>2, RequiredFacts, CoveredIsOpen, Zenon
  <1>4. \A d, j : j \in StillToTeach(d) /\ ~IsCovered(j, free(d)) => <<d, j>> \in of(d)
    <2>. HIDE DEF free
    <2>. QED OBVIOUS
  <1>5. \A d : <<c, i>> \in of(d) => d = c /\ ~IsCovered(i, free(c))
    <2>. SUFFICES ASSUME NEW d, <<c, i>> \in of(d) PROVE d = c /\ ~IsCovered(i, free(c))
      OBVIOUS
    <2>. HIDE DEF free
    <2>1. PICK j \in StillToTeach(d) : <<c, i>> = <<d, j>> /\ ~IsCovered(j, free(d))
      OBVIOUS
    <2>2. d = c /\ j = i
      BY <2>1
    <2>. QED BY <2>1, <2>2
  <1>. HIDE DEF of, free
  <1>. QED BY <1>1, <1>3, <1>4, <1>5

LEMMA KeptOpen ==
  ASSUME CalTyped, NEW t \in Teachers, NEW c \in CoursesOf(t), NEW cal, RowsInOrder(cal),
         KeepsCovered(t, cal), NEW i \in StillToTeach(c), Open(calendars[t], i)
  PROVE  Open(cal, i)
  <1>1. cal \in Rows /\ calendars[t] \in Rows
    BY RowsFacts DEF CalTyped, CalendarInOrder
  <1>2. <<c, i>> \notin UncoveredClasses(t, calendars[t])
    BY <1>1, UncoveredIsNotOpen, Zenon
  <1>3. <<c, i>> \notin UncoveredClasses(t, cal)
    BY <1>2 DEF KeepsCovered
  <1>. QED BY <1>1, <1>3, UncoveredIsNotOpen, Zenon

LEMMA MoreRulesOpen ==
  ASSUME NEW old, NEW cal, cal.entries = old.entries, ToSet(old.rules) \subseteq ToSet(cal.rules),
         NEW i, Open(old, i)
  PROVE  Open(cal, i)
  <1>1. \A u, kinds : RuleAt(old, kinds, u) => RuleAt(cal, kinds, u)
    BY Zenon DEF RuleAt
  <1>2. \A u, kinds : EntryAt(old, kinds, u) <=> EntryAt(cal, kinds, u)
    BY Zenon DEF EntryAt
  <1>. QED BY <1>1, <1>2, Zenon DEF Open, OpenAt

(* What each kind of conflict means.                                       *)
LEMMA ConflictsAre ==
  ASSUME CalTyped, NEW c \in Courses, NEW t \in Teachers, StillToTeach(c) # {}
  PROVE  LET required == StillToTeach(c)
             cal == calendars[t]
             excused(i) == \E u \in Int : i[1] <= u /\ u < i[2] /\ EntryAt(cal, Blocking, u)
         IN /\ ConflictsOf(c, t) \subseteq {"overlap", "leave", "outside_availability", "workload"}
            /\ "overlap" \in ConflictsOf(c, t) <=>
                 \E i \in required, o \in CoursesOf(t) \ {c} :
                   \E j : IsClass(courses[o], j) /\ Meet(i, j)
            /\ "leave" \in ConflictsOf(c, t) <=> \E i \in required : excused(i)
            /\ "outside_availability" \in ConflictsOf(c, t) <=>
                 \E i \in required : ~excused(i) /\ ~Open(cal, i)
  <1>. DEFINE required == StillToTeach(c)
              cal == calendars[t]
              excused(i) == \E u \in Int : i[1] <= u /\ u < i[2] /\ EntryAt(cal, Blocking, u)
              lo == StartOf(required)
              hi == EndOf(required)
              others == Teaching(t, {c}, lo, hi)
              blocked == Blocked(cal, lo, hi)
              free == Bookable(cal, lo, hi)
              found == Conflicts(c, t, required, others, blocked, free)
  <1>1. /\ required # {} /\ lo \in Int /\ hi \in Int
        /\ \A i \in required : /\ i \in Intervals /\ i[1] < i[2] /\ lo <= i[1] /\ i[2] <= hi
    BY RequiredFacts
  <1>2. ConflictsOf(c, t) = found
    BY <1>1, Zenon DEF ConflictsOf, Unmet, ConflictsWith
  <1>3. cal \in Rows
    BY RowsFacts DEF CalTyped, CalendarInOrder
  <1>4. \A i \in required : /\ IsCovered(i, free) <=> Open(cal, i)
                            /\ Touches(i, blocked) <=> excused(i)
    BY <1>1, <1>3, CoveredIsOpen, Zenon
  <1>. HIDE DEF lo, hi, required, blocked, free, cal, excused
  <1>5. /\ "overlap" \in found <=> \E i \in required, o \in others : Meet(i, o)
        /\ "leave" \in found <=> \E i \in required : Touches(i, blocked)
        /\ "outside_availability" \in found <=>
             \E i \in required : ~Touches(i, blocked) /\ ~IsCovered(i, free)
        /\ found \subseteq {"overlap", "leave", "outside_availability", "workload"}
    <2>. HIDE DEF others
    <2>. QED BY DEF Conflicts
  <1>6. ASSUME NEW i \in required
        PROVE  (\E x \in others : Meet(i, x)) <=>
                 \E o \in CoursesOf(t) \ {c} : \E j : IsClass(courses[o], j) /\ Meet(i, j)
    <2>1. \A o \in CoursesOf(t) : o \in Courses /\ courses[o] \in Course
      BY DEF CoursesOf, CalTyped, CalendarInOrder
    <2>2. \A x : x \in others <=> \E o \in CoursesOf(t) \ {c} : x \in Occurrences(o, lo, hi)
      BY DEF Teaching
    <2>3. \A o \in CoursesOf(t) : \A j : j \in Occurrences(o, lo, hi) <=>
            IsClass(courses[o], j) /\ Meet(j, <<lo, hi>>)
      BY <1>1, <2>1, OccurrencesAre, Zenon
    <2>4. ASSUME NEW o \in CoursesOf(t), NEW j, IsClass(courses[o], j), Meet(i, j)
          PROVE  Meet(j, <<lo, hi>>)
      <3>1. j[1] \in Int /\ j[2] \in Int /\ i[1] \in Int /\ i[2] \in Int
        BY <1>1, <2>1, <2>4, ClassFacts DEF Intervals
      <3>. QED BY <1>1, <2>4, <3>1 DEF Meet
    <2>. HIDE DEF others
    <2>. QED BY <2>2, <2>3, <2>4, Zenon
  <1>. HIDE DEF others, found
  <1>7. "overlap" \in found <=>
          \E i \in required, o \in CoursesOf(t) \ {c} :
            \E j : IsClass(courses[o], j) /\ Meet(i, j)
    BY <1>5, <1>6, Zenon
  <1>8. /\ "leave" \in found <=> \E i \in required : excused(i)
        /\ "outside_availability" \in found <=>
             \E i \in required : ~excused(i) /\ ~Open(cal, i)
    BY <1>4, <1>5, Zenon
  <1>. QED BY <1>2, <1>5, <1>7, <1>8, Zenon DEF required, cal, excused

LEMMA ConflictFacts ==
  ASSUME CalTyped, NEW c \in Courses, NEW t \in Teachers, NEW i \in StillToTeach(c)
  PROVE  /\ "overlap" \notin ConflictsOf(c, t) =>
              \A o \in CoursesOf(t) \ {c} : \A j : IsClass(courses[o], j) => ~Meet(i, j)
         /\ ConflictsOf(c, t) \cap {"leave", "outside_availability"} = {} =>
              Open(calendars[t], i)
  <1>1. StillToTeach(c) # {}
    OBVIOUS
  <1>2. "overlap" \notin ConflictsOf(c, t) =>
          \A o \in CoursesOf(t) \ {c} : \A j : IsClass(courses[o], j) => ~Meet(i, j)
    BY <1>1, ConflictsAre, Zenon
  <1>3. "leave" \notin ConflictsOf(c, t) /\ "outside_availability" \notin ConflictsOf(c, t) =>
          Open(calendars[t], i)
    BY <1>1, ConflictsAre, Zenon
  <1>. QED BY <1>2, <1>3

(* A unit of a class an assignment has looked at lies in a class ahead.    *)
LEMMA AheadUnit ==
  ASSUME CalTyped, NEW c \in Courses, NEW t, NEW u \in Int, clock <= u,
         TeachesAt(t, c, u), LookedAt(c, u)
  PROVE  courses[c].teacher = t /\ \E i : Ahead(c, i) /\ i[1] <= u /\ u < i[2]
  <1>1. courses[c] \in Course /\ courses[c].first \in Int
    BY FirstDay
  <1>2. courses[c].teacher = t
    BY <1>1, TeachesClass
  <1>3. PICK i : IsClass(courses[c], i) /\ i[1] <= u /\ u < i[2]
    BY <1>1, TeachesClass
  <1>4. /\ i[1] \in Int /\ i[2] \in Int /\ DayOf(i[1]) \in Int /\ DayOf(u) = DayOf(i[1])
        /\ At(DayOf(i[1]), 0) <= i[1] /\ At(DayOf(i[1]), 0) \in Int
    BY <1>1, <1>3, ClassFacts
  <1>5. courses[c].first <= DayOf(u) /\ u < agreed[c].till
    BY <1>1, <1>4 DEF LookedAt
  <1>6. At(courses[c].first, 0) <= At(DayOf(i[1]), 0)
    <2>. DEFINE d == courses[c].first
                e == DayOf(i[1])
    <2>1. d \in Int /\ e \in Int /\ d <= e /\ DayLength \in Nat \ {0}
      BY <1>1, <1>4, <1>5, CalendarAssumption
    <2>. HIDE DEF d, e
    <2>2. d * DayLength <= e * DayLength /\ d * DayLength \in Int /\ e * DayLength \in Int
      BY <2>1, Products
    <2>3. At(d, 0) <= At(e, 0)
      BY <2>2 DEF At
    <2>. QED BY <2>3 DEF d, e
  <1>7. clock \in Int /\ At(courses[c].first, 0) \in Int /\ agreed[c].till \in Int
    BY ClockFacts, FirstDay DEF CalTyped, CalendarInOrder
  <1>8. At(courses[c].first, 0) <= i[1] /\ i[1] < agreed[c].till /\ i[2] > clock
    BY <1>3, <1>4, <1>5, <1>6, <1>7
  <1>. QED BY <1>2, <1>3, <1>8 DEF Ahead

LEMMA PromisesFit == CalTyped /\ Promises => ClassesFit
  <1>. SUFFICES ASSUME CalTyped, Promises, NEW c \in Courses,
                       NEW u \in clock..agreed[c].till - 1,
                       TeachesAt(courses[c].teacher, c, u), LookedAt(c, u)
                PROVE  /\ \A o \in Courses \ {c} : LookedAt(o, u) => ~TeachesAt(courses[c].teacher, o, u)
                       /\ agreed[c].free =>
                            Declared(courses[c].teacher, u) /\ ~Excused(courses[c].teacher, u)
    BY DEF ClassesFit
  <1>. DEFINE t == courses[c].teacher
  <1>1. clock \in Nat /\ agreed[c].till \in Int
    BY ClockFacts DEF CalTyped, CalendarInOrder
  <1>2. u \in Int /\ clock <= u /\ agreed[c].till > 0
    BY <1>1
  <1>3. PICK i : Ahead(c, i) /\ i[1] <= u /\ u < i[2]
    BY <1>2, AheadUnit
  <1>4. Alone(c, i) /\ (agreed[c].free => Open(calendars[t], i))
    BY <1>2, <1>3 DEF Promises, Promise
  <1>5. ASSUME NEW o \in Courses \ {c}, LookedAt(o, u), TeachesAt(t, o, u)
        PROVE  FALSE
    <2>1. courses[o].teacher = t
      BY <1>2, <1>5, AheadUnit
    <2>2. PICK j : Ahead(o, j) /\ j[1] <= u /\ u < j[2]
      BY <1>2, <1>5, AheadUnit
    <2>3. ~Meet(i, j)
      BY <1>4, <2>1, <2>2 DEF Alone
    <2>4. i[1] \in Int /\ i[2] \in Int /\ j[1] \in Int /\ j[2] \in Int
      BY <1>3, <2>2, FirstDay, ClassFacts DEF Ahead
    <2>. QED BY <1>2, <1>3, <2>2, <2>3, <2>4 DEF Meet
  <1>6. ASSUME agreed[c].free PROVE Declared(t, u) /\ ~Excused(t, u)
    <2>1. OpenAt(calendars[t], u)
      BY <1>2, <1>3, <1>4, <1>6 DEF Open
    <2>. HIDE DEF t
    <2>2. RuleAt(calendars[t], Offering, u) \/ EntryAt(calendars[t], Offering, u)
      BY <2>1 DEF OpenAt
    <2>3. ~Excused(t, u)
      BY <2>1, Zenon DEF OpenAt, Excused, EntryAt
    <2>4. RuleAt(calendars[t], Offering, u) => Declared(t, u)
      BY Zenon DEF RuleAt, Declared
    <2>5. EntryAt(calendars[t], Offering, u) => Declared(t, u)
      BY Zenon DEF EntryAt, Declared
    <2>. QED BY <2>2, <2>3, <2>4, <2>5
  <1>. QED BY <1>5, <1>6, Zenon

-----------------------------------------------------------------------------
(* Every step keeps the promises.                                          *)

(* The last day a required window reaches never comes earlier.             *)
EndDay(first, last, today) ==
  LET start == Later(first, today)
  IN Sooner(IF last = Never THEN start + HorizonDays ELSE last, start + MaxDays)

LEMMA WindowEnd ==
  ASSUME CalTyped, NEW c \in Courses
  PROVE  /\ RequiredWindow(c)[2] = At(EndDay(courses[c].first, courses[c].last, Today) + 1, 0)
         /\ courses[c].first \in Int /\ courses[c].last \in Int /\ Today \in Int
  <1>1. courses[c].first \in Int /\ courses[c].last \in Int /\ Today \in Int
    BY CourseFacts, ClockFacts DEF CalTyped, CalendarInOrder
  <1>. QED BY <1>1 DEF RequiredWindow, EndDay

LEMMA EndDayGrows ==
  ASSUME NEW first \in Int, NEW last \in Int, NEW x \in Int, NEW y \in Int, x <= y
  PROVE  /\ EndDay(first, last, x) \in Int /\ EndDay(first, last, y) \in Int
         /\ EndDay(first, last, x) <= EndDay(first, last, y)
  <1>1. HorizonDays \in Nat /\ MaxDays \in Nat
    BY CalendarAssumption
  <1>2. Later(first, x) \in Int /\ Later(first, y) \in Int /\ Later(first, x) <= Later(first, y)
    BY DEF Later
  <1>. QED BY <1>1, <1>2 DEF EndDay, Sooner

LEMMA WindowGrows ==
  ASSUME CalTyped, NEW c \in Courses, clock' \in Int, clock <= clock',
         courses'[c].first = courses[c].first, courses'[c].last = courses[c].last
  PROVE  /\ RequiredWindow(c)[2] \in Int /\ RequiredWindow(c)'[2] \in Int
         /\ RequiredWindow(c)[2] <= RequiredWindow(c)'[2]
  <1>. DEFINE first == courses[c].first
              last == courses[c].last
              x == EndDay(first, last, Today)
              y == EndDay(first, last, Today')
  <1>1. RequiredWindow(c)[2] = At(x + 1, 0) /\ first \in Int /\ last \in Int /\ Today \in Int
    BY WindowEnd
  <1>2. Today' \in Int /\ RequiredWindow(c)'[2] = At(EndDay(courses'[c].first, courses'[c].last, Today') + 1, 0)
    <2>1. RequiredWindow(c)'[2] = At(EndDay(courses'[c].first, courses'[c].last, Today') + 1, 0)
      BY DEF RequiredWindow, EndDay, Later, Sooner, At
    <2>2. Today' \in Int
      BY DayFacts DEF Today
    <2>. QED BY <2>1, <2>2
  <1>3. RequiredWindow(c)'[2] = At(y + 1, 0)
    BY <1>2
  <1>4. x \in Int /\ y \in Int /\ x <= y
    <2>1. clock \in Int
      BY ClockFacts
    <2>2. Today <= Today'
      BY <2>1, DaysGrow DEF Today
    <2>. HIDE DEF first, last
    <2>. QED BY <1>1, <1>2, <2>2, EndDayGrows
  <1>. HIDE DEF x, y
  <1>5. At(x + 1, 0) \in Int /\ At(y + 1, 0) \in Int /\ At(x + 1, 0) <= At(y + 1, 0)
    <2>. DEFINE a == x + 1
                b == y + 1
    <2>1. a \in Int /\ b \in Int /\ a <= b /\ DayLength \in Nat \ {0}
      BY <1>4, CalendarAssumption
    <2>. HIDE DEF a, b
    <2>2. a * DayLength <= b * DayLength /\ a * DayLength \in Int /\ b * DayLength \in Int
      BY <2>1, Products
    <2>3. At(a, 0) \in Int /\ At(b, 0) \in Int /\ At(a, 0) <= At(b, 0)
      BY <2>2 DEF At
    <2>. QED BY <2>3 DEF a, b
  <1>. QED BY <1>1, <1>3, <1>5

(* The classes of a course do not depend on who teaches it.                *)
LEMMA SameClasses ==
  ASSUME NEW b \in Course, NEW t, NEW i
  PROVE  IsClass([b EXCEPT !.teacher = t], i) <=> IsClass(b, i)
  <1>1. LET n == [b EXCEPT !.teacher = t]
        IN  n.days = b.days /\ n.start = b.start /\ n.end = b.end /\ n.first = b.first
            /\ n.last = b.last /\ n.sessions = b.sessions
    BY DEF Course, CourseOf
  <1>. QED BY <1>1, Zenon DEF IsClass

LEMMA AheadThen ==
  ASSUME NEW c, NEW i
  PROVE  Ahead(c, i)' <=>
           /\ IsClass(courses'[c], i) /\ At(courses'[c].first, 0) <= i[1]
           /\ i[1] < agreed'[c].till /\ i[2] > clock'
  BY DEF Ahead, IsClass, At

LEMMA AheadBefore ==
  ASSUME CalTyped, NEW c \in Courses, NEW i, Ahead(c, i)', courses'[c] = courses[c],
         agreed'[c] = agreed[c], clock' \in Int, clock <= clock'
  PROVE  Ahead(c, i)
  <1>1. /\ IsClass(courses[c], i) /\ At(courses[c].first, 0) <= i[1]
        /\ i[1] < agreed[c].till /\ i[2] > clock'
    BY AheadThen
  <1>2. i[2] \in Int /\ clock \in Int
    BY <1>1, FirstDay, ClassFacts, ClockFacts
  <1>. QED BY <1>1, <1>2 DEF Ahead

(* An edit, or time, keeps the promises if open time stays open.           *)
LEMMA StillPromised ==
  ASSUME CalTyped, Promises, courses' = courses, agreed' = agreed,
         clock' \in Int, clock <= clock', Teachers' = Teachers,
         \A c \in Courses : \A i : courses[c].teacher \in Teachers /\ i \in StillToTeach(c) /\ Open(calendars[courses[c].teacher], i)
                               => Open(calendars'[courses[c].teacher], i)
  PROVE  Promises'
  <1>1. Courses' = Courses
    BY DEF Courses
  <1>2. SUFFICES ASSUME NEW c \in Courses, agreed[c].till > 0 PROVE Promise(c)'
    BY <1>1 DEF Promises
  <1>. DEFINE t == courses[c].teacher
  <1>3. Promise(c) /\ agreed[c].till \in Int
    BY <1>2 DEF Promises, CalTyped, CalendarInOrder
  <1>4. /\ RequiredWindow(c)[2] \in Int /\ RequiredWindow(c)'[2] \in Int
        /\ RequiredWindow(c)[2] <= RequiredWindow(c)'[2]
    BY WindowGrows
  <1>5. agreed'[c].till <= RequiredWindow(c)'[2] /\ courses'[c].teacher \in Teachers'
    BY <1>3, <1>4 DEF Promise
  <1>6. ASSUME NEW i, Ahead(c, i)' PROVE Alone(c, i)' /\ (agreed[c].free => Open(calendars'[t], i))
    <2>1. Ahead(c, i)
      BY <1>6, AheadBefore
    <2>2. Alone(c, i) /\ (agreed[c].free => Open(calendars[t], i))
      BY <1>3, <2>1 DEF Promise
    <2>3. ASSUME NEW o \in Courses \ {c}, courses[o].teacher = t, NEW j, Ahead(o, j)'
          PROVE  ~Meet(i, j)
      <3>1. Ahead(o, j)
        BY <2>3, AheadBefore
      <3>. QED BY <2>2, <2>3, <3>1 DEF Alone
    <2>4. Alone(c, i)'
      BY <1>1, <2>3 DEF Alone, Meet
    <2>5. i \in StillToTeach(c) /\ t \in Teachers
      BY <1>3, <2>1, AheadRequired DEF Promise
    <2>. QED BY <2>2, <2>4, <2>5
  <1>7. \A i : Open(calendars[t], i)' <=> Open(calendars'[t], i)
    BY DEF Open, OpenAt, RuleAt, EntryAt
  <1>. QED BY <1>5, <1>6, <1>7 DEF Promise, Open, OpenAt, RuleAt, EntryAt

LEMMA EditPromises ==
  ASSUME CalTyped, Promises, NEW t \in Teachers, NEW cal, Edit(t, cal)
  PROVE  Promises'
  <1>1. /\ Teachers' = Teachers /\ calendars'[t] = cal
        /\ \A o \in Teachers : o # t => calendars'[o] = calendars[o]
        /\ clock' = clock /\ courses' = courses /\ agreed' = agreed /\ clock \in Int
    BY EditTyped, ClockFacts
  <1>2. ASSUME NEW c \in Courses, courses[c].teacher \in Teachers, NEW i \in StillToTeach(c),
               Open(calendars[courses[c].teacher], i)
        PROVE  Open(calendars'[courses[c].teacher], i)
    <2>1. CASE courses[c].teacher # t
      BY <1>1, <1>2, <2>1
    <2>2. CASE courses[c].teacher = t
      <3>1. c \in CoursesOf(t) /\ Open(calendars[t], i) /\ RowsInOrder(cal)
        BY <1>2, <2>2 DEF CoursesOf, Edit
      <3>2. CASE KeepsCovered(t, cal)
        <4>1. Open(cal, i)
          BY <3>1, <3>2, KeptOpen, Zenon
        <4>. QED BY <1>1, <2>2, <4>1
      <3>3. CASE cal.entries = calendars[t].entries /\ ToSet(calendars[t].rules) \subseteq ToSet(cal.rules)
        <4>1. Open(cal, i)
          BY <3>1, <3>3, MoreRulesOpen, Zenon
        <4>. QED BY <1>1, <2>2, <4>1
      <3>. QED BY <3>2, <3>3 DEF Edit
    <2>. QED BY <2>1, <2>2
  <1>3. clock' \in Int /\ clock <= clock'
    BY <1>1
  <1>. QED BY <1>1, <1>2, <1>3, StillPromised, Zenon

LEMMA AssignPromises ==
  ASSUME CalTyped, Promises, NEW t \in Teachers, NEW c \in Courses, Assign(c, t)
  PROVE  Promises'
  <1>. DEFINE required == StillToTeach(c)
              found == [till |-> IF required = {} THEN 0 ELSE EndOf(required),
                        free |-> ConflictsOf(c, t) \cap {"leave", "outside_availability"} = {}]
  <1>1. /\ courses' = [courses EXCEPT ![c].teacher = t] /\ agreed' = [agreed EXCEPT ![c] = found]
        /\ UNCHANGED <<clock, calendars, expertise>> /\ "overlap" \notin ConflictsOf(c, t)
    BY DEF Assign
  <1>2. Teachers' = Teachers /\ Courses' = Courses
    BY <1>1 DEF Teachers, Courses
  <1>3. /\ \A o \in Courses : o # c => courses'[o] = courses[o] /\ agreed'[o] = agreed[o]
        /\ courses'[c] = [courses[c] EXCEPT !.teacher = t] /\ agreed'[c] = found
    BY <1>1 DEF Courses, CalTyped, CalendarInOrder
  <1>4. \A o \in Courses : courses[o] \in Course
    BY DEF CalTyped, CalendarInOrder
  <1>5. /\ courses'[c].teacher = t /\ courses'[c].first = courses[c].first
        /\ courses'[c].last = courses[c].last
    BY <1>3, <1>4 DEF Course, CourseOf
  <1>6. clock \in Int /\ clock <= clock /\ clock' = clock
    BY <1>1, ClockFacts
  <1>7. ASSUME NEW o \in Courses
        PROVE  /\ RequiredWindow(o)[2] \in Int /\ RequiredWindow(o)'[2] \in Int
               /\ RequiredWindow(o)[2] <= RequiredWindow(o)'[2]
    BY <1>3, <1>5, <1>6, WindowGrows
  <1>8. ASSUME NEW o \in Courses \ {c}, NEW j, Ahead(o, j)' PROVE Ahead(o, j)
    BY <1>3, <1>6, <1>8, AheadBefore
  <1>9. ASSUME NEW i, Ahead(c, i)' PROVE required # {} /\ i \in required
    <2>1. /\ IsClass(courses'[c], i) /\ At(courses[c].first, 0) <= i[1]
          /\ i[1] < found.till /\ i[2] > clock
      BY <1>3, <1>5, <1>6, <1>9, AheadThen
    <2>2. IsClass(courses[c], i)
      BY <1>3, <1>4, <2>1, SameClasses
    <2>3. /\ i[1] \in Int /\ i[2] \in Int /\ i[1] < i[2] /\ At(courses[c].first, 0) \in Int
          /\ 0 <= At(courses[c].first, 0)
      BY <1>4, <2>2, ClassFacts, FirstDay
    <2>4. required # {} /\ found.till = EndOf(required)
      <3>. HIDE DEF required
      <3>. QED BY <2>1, <2>3
    <2>5. EndOf(required) \in Int /\ EndOf(required) <= RequiredWindow(c)[2]
      BY <2>4, SpanFacts
    <2>. DEFINE f == courses[c].first
                w == RequiredWindow(c)
    <2>6. /\ w[1] = At(Later(f, Today), 0) /\ w[1] \in Int /\ w[2] \in Int
      BY WindowFacts
    <2>7. /\ At(f, 0) \in Int /\ At(Today, 0) \in Int /\ At(Today, 0) <= clock
      BY FirstDay, ClockFacts
    <2>8. w[1] = At(f, 0) \/ w[1] = At(Today, 0)
      BY <2>6 DEF Later
    <2>9. i[1] < EndOf(required) /\ EndOf(required) <= w[2] /\ At(f, 0) <= i[1]
      BY <2>1, <2>4, <2>5
    <2>. HIDE DEF w, f, required
    <2>10. i[1] < w[2] /\ i[2] > w[1]
      BY <1>6, <2>1, <2>3, <2>5, <2>6, <2>7, <2>8, <2>9
    <2>. QED BY <2>1, <2>2, <2>4, <2>10, StillToTeachAre DEF w, required
  (* No class ahead of the course meets one ahead of another of the same   *)
  (* trainer.                                                              *)
  <1>10. ASSUME NEW i, Ahead(c, i)', NEW o \in Courses \ {c}, courses[o].teacher = t, NEW j, Ahead(o, j)
         PROVE  ~Meet(i, j)
    <2>1. i \in required
      BY <1>9, <1>10
    <2>2. o \in CoursesOf(t) \ {c} /\ IsClass(courses[o], j)
      BY <1>10 DEF CoursesOf, Ahead
    <2>. QED BY <1>1, <2>1, <2>2, ConflictFacts, Zenon
  <1>11. \A i, j : Meet(i, j) <=> Meet(j, i)
    BY <1>6, Zenon DEF Meet
  <1>12. \A d \in Courses : \A i : Alone(d, i)' <=>
           \A o \in Courses \ {d} : courses'[o].teacher = courses'[d].teacher =>
             \A j : Ahead(o, j)' => ~Meet(i, j)
    BY <1>2 DEF Alone, Meet
  <1>13. \A x, i : Open(calendars[x], i)' <=> Open(calendars[x], i)
    BY <1>1 DEF Open, OpenAt, RuleAt, EntryAt
  <1>14. SUFFICES ASSUME NEW d \in Courses, agreed'[d].till > 0 PROVE Promise(d)'
    BY <1>2 DEF Promises
  <1>15. CASE d = c
    <2>1. required # {} /\ found.till = EndOf(required)
      <3>. HIDE DEF required
      <3>. QED BY <1>3, <1>14, <1>15
    <2>2. agreed'[c].till <= RequiredWindow(c)'[2]
      <3>1. EndOf(required) \in Int /\ EndOf(required) <= RequiredWindow(c)[2]
        BY <2>1, SpanFacts
      <3>. HIDE DEF required
      <3>. QED BY <1>3, <1>7, <2>1, <3>1
    <2>3. ASSUME NEW i, Ahead(c, i)' PROVE Alone(c, i)'
      <3>1. ASSUME NEW o \in Courses \ {c}, courses'[o].teacher = courses'[c].teacher, NEW j, Ahead(o, j)'
            PROVE  ~Meet(i, j)
        <4>1. courses[o].teacher = t /\ Ahead(o, j)
          BY <1>3, <1>5, <1>8, <3>1
        <4>. QED BY <1>10, <2>3, <4>1
      <3>. QED BY <1>12, <3>1, Zenon
    <2>4. ASSUME NEW i, Ahead(c, i)', agreed'[c].free PROVE Open(calendars[t], i)
      <3>1. ConflictsOf(c, t) \cap {"leave", "outside_availability"} = {}
        <4>1. found.free = (ConflictsOf(c, t) \cap {"leave", "outside_availability"} = {})
          OBVIOUS
        <4>. HIDE DEF found
        <4>. QED BY <1>3, <2>4, <4>1
      <3>2. i \in StillToTeach(c)
        BY <1>9, <2>4
      <3>. QED BY <3>1, <3>2, ConflictFacts, Zenon
    <2>. HIDE DEF found, required
    <2>5. courses'[c].teacher \in Teachers' /\ courses'[c].teacher = t
      BY <1>2, <1>5
    <2>. QED BY <1>1, <1>13, <1>15, <2>2, <2>3, <2>4, <2>5 DEF Promise, Open, OpenAt, RuleAt, EntryAt
  <1>16. CASE d # c
    <2>. HIDE DEF found, required
    <2>1. courses'[d] = courses[d] /\ agreed'[d] = agreed[d]
      BY <1>3, <1>16
    <2>2. Promise(d) /\ agreed[d].till \in Int
      BY <1>14, <2>1 DEF Promises, CalTyped, CalendarInOrder
    <2>3. agreed'[d].till <= RequiredWindow(d)'[2] /\ courses'[d].teacher \in Teachers'
      BY <1>2, <1>7, <2>1, <2>2 DEF Promise
    <2>4. ASSUME NEW i, Ahead(d, i)'
          PROVE  Alone(d, i)' /\ (agreed[d].free => Open(calendars[courses[d].teacher], i))
      <3>1. Ahead(d, i)
        BY <1>8, <1>16, <2>4
      <3>2. Alone(d, i) /\ (agreed[d].free => Open(calendars[courses[d].teacher], i))
        BY <2>2, <3>1 DEF Promise
      <3>3. ASSUME NEW o \in Courses \ {d}, courses'[o].teacher = courses'[d].teacher, NEW j, Ahead(o, j)'
            PROVE  ~Meet(i, j)
        <4>1. CASE o = c
          <5>1. courses[d].teacher = t
            BY <1>5, <2>1, <3>3, <4>1
          <5>2. ~Meet(j, i)
            BY <1>10, <1>16, <3>1, <3>3, <4>1, <5>1
          <5>. QED BY <1>11, <5>2
        <4>2. CASE o # c
          <5>1. courses[o].teacher = courses[d].teacher /\ Ahead(o, j)
            BY <1>3, <1>8, <2>1, <3>3, <4>2
          <5>. QED BY <3>2, <3>3, <5>1 DEF Alone
        <4>. QED BY <4>1, <4>2
      <3>. QED BY <1>12, <3>2, <3>3, Zenon
    <2>. QED BY <1>1, <2>1, <2>3, <2>4 DEF Promise, Open, OpenAt, RuleAt, EntryAt
  <1>. QED BY <1>15, <1>16

LEMMA PromisesInit == CalInit => Promises
  <1>1. CalInit => \A c \in Courses : agreed[c].till = 0
    BY DEF CalInit
  <1>. QED BY <1>1 DEF Promises

LEMMA PromisesNext == CalTyped /\ Promises /\ [CalNext]_calVars => Promises'
  <1>. SUFFICES ASSUME CalTyped, Promises, [CalNext]_calVars PROVE Promises'
    OBVIOUS
  <1>1. ASSUME NEW t \in calPlan.editors,
               \/ CreateRules(t) \/ UpdateRule(t) \/ DeleteRule(t)
               \/ CreateEntry(t) \/ UpdateEntry(t) \/ DeleteEntry(t)
        PROVE  Promises'
    <2>1. t \in Teachers
      BY DEF CalTyped, PlanInOrder
    <2>. QED BY <1>1, <2>1, Edits, EditPromises, Zenon
  <1>2. ASSUME courses' = courses, agreed' = agreed, calendars' = calendars,
               clock' \in Int, clock <= clock'
        PROVE  Promises'
    <2>1. Teachers' = Teachers
      BY <1>2 DEF Teachers
    <2>. QED BY <1>2, <2>1, StillPromised
  <1>3. clock \in Int /\ clock <= clock /\ clock + 1 \in Int /\ clock <= clock + 1
    BY ClockFacts
  <1>4. ASSUME NEW t \in Teachers, SetExpertise(t) PROVE Promises'
    BY <1>2, <1>3, <1>4 DEF SetExpertise
  <1>5. ASSUME NEW t \in Teachers, NEW c \in Courses, Assign(c, t) PROVE Promises'
    BY <1>5, AssignPromises
  <1>6. CASE TimePasses
    BY <1>2, <1>3, <1>6 DEF TimePasses
  <1>7. CASE UNCHANGED calVars
    BY <1>2, <1>3, <1>7 DEF calVars
  <1>. QED BY <1>1, <1>4, <1>5, <1>6, <1>7, Zenon DEF CalNext

(* A class that lies ahead, as far as its assignment looked, meets no      *)
(* other such class of its trainer, and lies in declared time without      *)
(* leave unless it was assigned with an override, whatever the trainer     *)
(* edited since (core/scheduling.py:322-376,                               *)
(* core/scheduling_service.py:131-159).                                    *)
THEOREM ClassesStayFit == CalSpec => []ClassesFit
  <1>1. CalSpec => [](CalTyped /\ Promises)
    BY InitTyped, NextTyped, PromisesInit, PromisesNext, PTL DEF CalSpec
  <1>. QED BY <1>1, PromisesFit, PTL

-----------------------------------------------------------------------------
(* What the calendar says of a trainer, unit by unit.                      *)

LEMMA UnitFacts ==
  ASSUME CalTyped, NEW t \in Teachers
  PROVE  /\ calendars[t] \in Rows
         /\ \A u : Declared(t, u) <=>
              RuleAt(calendars[t], Offering, u) \/ EntryAt(calendars[t], Offering, u)
         /\ \A u : Excused(t, u) <=> EntryAt(calendars[t], Blocking, u)
         /\ \A u : PrefersAt(t, u) <=>
              /\ ~EntryAt(calendars[t], Blocking, u)
              /\ RuleAt(calendars[t], {"preferred"}, u) \/ EntryAt(calendars[t], {"preferred"}, u)
         /\ \A u : OpenAt(calendars[t], u) <=> Declared(t, u) /\ ~Excused(t, u)
  <1>. DEFINE cal == calendars[t]
  <1>1. cal \in Rows
    BY RowsFacts DEF CalTyped, CalendarInOrder
  <1>2. \A r \in ToSet(cal.rules) : r.kind \in Offering
    <2>1. ToSet(cal.rules) \subseteq Rule
      BY <1>1, RowsOf DEF Rows
    <2>. QED BY <2>1 DEF Rule
  <1>3. \A x : x \in {"preferred"} <=> x = "preferred"
    OBVIOUS
  <1>4. \A u : Declared(t, u) <=> RuleAt(cal, Offering, u) \/ EntryAt(cal, Offering, u)
    BY <1>2, Zenon DEF Declared, RuleAt, EntryAt
  <1>5. \A u : Excused(t, u) <=> EntryAt(cal, Blocking, u)
    BY Zenon DEF Excused, EntryAt
  <1>6. \A u : PrefersAt(t, u) <=>
          /\ ~EntryAt(cal, Blocking, u)
          /\ RuleAt(cal, {"preferred"}, u) \/ EntryAt(cal, {"preferred"}, u)
    BY <1>3, <1>5, Zenon DEF PrefersAt, RuleAt, EntryAt
  <1>. HIDE DEF cal
  <1>7. \A u : OpenAt(cal, u) <=> Declared(t, u) /\ ~Excused(t, u)
    BY <1>4, <1>5, Zenon DEF OpenAt
  <1>. QED BY <1>1, <1>4, <1>5, <1>6, <1>7 DEF cal

LEMMA TeachingFacts ==
  ASSUME CalTyped, NEW t, NEW without, NEW lo \in Int, NEW hi \in Int
  PROVE  LET T == Teaching(t, without, lo, hi) IN
         /\ T \subseteq Intervals /\ IsFiniteSet(T)
         /\ \A i \in T : i[1] < i[2]
         /\ \A u \in Int : lo <= u /\ u < hi =>
              (Within(T, u) <=> \E o \in Courses \ without : TeachesAt(t, o, u))
  <1>. DEFINE C == CoursesOf(t) \ without
              f == [o \in C |-> Occurrences(o, lo, hi)]
              T == Teaching(t, without, lo, hi)
  <1>1. /\ C \in SUBSET Courses /\ IsFiniteSet(Courses)
        /\ \A o \in Courses : courses[o] \in Course
        /\ \A o : o \in C <=> o \in Courses \ without /\ courses[o].teacher = t
    BY DEF CoursesOf, CalTyped, CalendarInOrder, PlanInOrder
  <1>2. T = UNION {f[o] : o \in C} /\ DOMAIN f = C /\ \A o \in C : f[o] = Occurrences(o, lo, hi)
    BY DEF Teaching
  <1>. HIDE DEF C, f, T
  <1>3. \A o \in C : /\ IsFiniteSet(Occurrences(o, lo, hi))
                     /\ \A i : i \in Occurrences(o, lo, hi) <=>
                          IsClass(courses[o], i) /\ Meet(i, <<lo, hi>>)
    BY <1>1, OccurrencesAre, Zenon
  <1>4. IsFiniteSet(T)
    <2>1. IsFiniteSet(C)
      BY <1>1, FS_Subset, Zenon
    <2>2. IsFiniteSet({f[o] : o \in C})
      BY <1>2, <2>1, Images, Zenon
    <2>3. \A x \in {f[o] : o \in C} : IsFiniteSet(x)
      BY <1>2, <1>3, Zenon
    <2>. QED BY <1>2, <2>2, <2>3, FS_UNION, Zenon
  <1>5. \A i : i \in T <=> \E o \in C : IsClass(courses[o], i) /\ Meet(i, <<lo, hi>>)
    BY <1>2, <1>3
  <1>6. T \subseteq Intervals /\ \A i \in T : i[1] < i[2]
    BY <1>5 DEF IsClass
  <1>7. ASSUME NEW u \in Int, lo <= u, u < hi
        PROVE  Within(T, u) <=> \E o \in Courses \ without : TeachesAt(t, o, u)
    <2>1. \A o \in Courses : TeachesAt(t, o, u) <=>
            courses[o].teacher = t /\ \E i : IsClass(courses[o], i) /\ i[1] <= u /\ u < i[2]
      BY <1>1, TeachesClass
    <2>2. ASSUME NEW o \in C, NEW i, IsClass(courses[o], i), i[1] <= u, u < i[2]
          PROVE  Meet(i, <<lo, hi>>)
      <3>1. i[1] \in Int /\ i[2] \in Int
        BY <1>1, <2>2, ClassFacts
      <3>. QED BY <1>7, <2>2, <3>1 DEF Meet
    <2>3. Within(T, u) <=> \E i \in T : i[1] <= u /\ u < i[2]
      BY DEF Within
    <2>. QED BY <1>1, <1>5, <2>1, <2>2, <2>3, Zenon
  <1>. QED BY <1>4, <1>6, <1>7 DEF T

(* The free time of a trainer is what is declared, without leave and       *)
(* without a class.                                                        *)
LEMMA FreeTimeIs ==
  ASSUME CalTyped, NEW t \in Teachers, NEW lo \in Int, NEW hi \in Int
  PROVE  /\ Apart(FreeTime(t, lo, hi))
         /\ \A u \in Int : In(FreeTime(t, lo, hi), u) <=> lo <= u /\ u < hi /\ FreeAt(t, u, {})
  <1>. DEFINE T == Teaching(t, {}, lo, hi)
              taught == Merge(T)
              free == Bookable(calendars[t], lo, hi)
  <1>1. /\ T \subseteq Intervals /\ IsFiniteSet(T)
        /\ \A u \in Int : lo <= u /\ u < hi =>
             (Within(T, u) <=> \E o \in Courses \ {} : TeachesAt(t, o, u))
    BY TeachingFacts
  <1>. HIDE DEF T
  <1>2. Apart(taught) /\ \A u \in Int : In(taught, u) <=> Within(T, u)
    BY <1>1, MergeIsRight, Zenon
  <1>3. /\ Apart(free)
        /\ \A u \in Int : In(free, u) <=> lo <= u /\ u < hi /\ OpenAt(calendars[t], u)
    BY UnitFacts, BookableIsRight, Zenon DEF OpenAt
  <1>4. FreeTime(t, lo, hi) = Subtract(free, taught)
    BY Zenon DEF FreeTime, T
  <1>. HIDE DEF taught, free
  <1>5. /\ Apart(Subtract(free, taught))
        /\ \A u \in Int : In(Subtract(free, taught), u) <=> In(free, u) /\ ~In(taught, u)
    BY <1>2, <1>3, SubtractIsRight, Zenon
  <1>6. \A u \in Int : OpenAt(calendars[t], u) <=> Declared(t, u) /\ ~Excused(t, u)
    BY UnitFacts, Zenon
  <1>. QED BY <1>1, <1>2, <1>3, <1>4, <1>5, <1>6, Zenon DEF FreeAt

(* The free time an alternative window is cut from, and the page shows, is *)
(* in every state what is declared, without leave and without a class      *)
(* (core/scheduling.py:239-241, core/scheduling_service.py:42-89).         *)
THEOREM FreeTimeIsFree ==
  CalSpec => [](\A t \in Teachers : \A lo, hi, u \in Int :
                  In(FreeTime(t, lo, hi), u) <=> lo <= u /\ u < hi /\ FreeAt(t, u, {}))
  <1>1. CalTyped => \A t \in Teachers : \A lo, hi, u \in Int :
                      In(FreeTime(t, lo, hi), u) <=> lo <= u /\ u < hi /\ FreeAt(t, u, {})
    BY FreeTimeIs
  <1>. QED BY <1>1, CalendarTyped, PTL

(* A slot, by what holds at its units.                                     *)
LEMMA StatusByUnit ==
  ASSUME CalTyped, NEW t \in Teachers, NEW u \in Int, NEW v \in Int, u <= v
  PROVE  StatusIsRight(t, u..v, SlotStatus(t, <<u, v + 1>>))
  <1>. DEFINE slot == <<u, v + 1>>
              lo == u
              hi == v + 1
              cal == calendars[t]
              T == Teaching(t, {}, lo, hi)
  <1>1. /\ slot \in Intervals /\ slot[1] = lo /\ slot[2] = hi /\ lo \in Int /\ hi \in Int
        /\ slot[1] < slot[2] /\ lo <= slot[1] /\ slot[2] <= hi
    BY DEF Intervals
  <1>2. u..v = {x \in Int : lo <= x /\ x < hi}
    OBVIOUS
  <1>3. /\ cal \in Rows
        /\ \A x : Excused(t, x) <=> EntryAt(cal, Blocking, x)
        /\ \A x : OpenAt(cal, x) <=> Declared(t, x) /\ ~Excused(t, x)
    BY UnitFacts, Zenon
  <1>. HIDE DEF slot, hi, cal
  <1>4. /\ IsCovered(slot, Bookable(cal, lo, hi)) <=> Open(cal, slot)
        /\ Touches(slot, Blocked(cal, lo, hi)) <=>
             \E x \in Int : slot[1] <= x /\ x < slot[2] /\ EntryAt(cal, Blocking, x)
    BY <1>1, <1>3, CoveredIsOpen
  <1>5. /\ T \subseteq Intervals /\ IsFiniteSet(T)
        /\ \A x \in Int : lo <= x /\ x < hi =>
             (Within(T, x) <=> \E o \in Courses \ {} : TeachesAt(t, o, x))
    BY <1>1, TeachingFacts
  <1>. HIDE DEF T
  <1>6. Apart(Merge(T)) /\ \A x \in Int : In(Merge(T), x) <=> Within(T, x)
    BY <1>5, MergeIsRight, Zenon
  <1>7. Touches(slot, Merge(T)) <=> \E x \in Int : slot[1] <= x /\ x < slot[2] /\ In(Merge(T), x)
    BY <1>1, <1>6, Touching, Zenon
  <1>8. /\ IsCovered(slot, Bookable(cal, lo, hi)) <=>
             \A x \in u..v : Declared(t, x) /\ ~Excused(t, x)
        /\ Touches(slot, Blocked(cal, lo, hi)) <=> \E x \in u..v : Excused(t, x)
        /\ Touches(slot, Merge(T)) <=> \E x \in u..v : IsTaught(t, x)
    <2>1. \A x \in u..v : x \in Int /\ lo <= x /\ x < hi
      BY <1>2
    <2>2. \A x \in Int : slot[1] <= x /\ x < slot[2] => x \in u..v
      BY <1>1, <1>2
    <2>3. \A x \in u..v : slot[1] <= x /\ x < slot[2]
      BY <1>1, <1>2
    <2>4. IsCovered(slot, Bookable(cal, lo, hi)) <=>
             \A x \in u..v : Declared(t, x) /\ ~Excused(t, x)
      BY <1>3, <1>4, <2>1, <2>2, <2>3, Zenon DEF Open
    <2>5. Touches(slot, Blocked(cal, lo, hi)) <=> \E x \in u..v : Excused(t, x)
      BY <1>3, <1>4, <2>1, <2>2, <2>3, Zenon
    <2>6. \A x : IsTaught(t, x) <=> \E o \in Courses \ {} : TeachesAt(t, o, x)
      BY DEF IsTaught
    <2>7. Touches(slot, Merge(T)) <=> \E x \in u..v : IsTaught(t, x)
      BY <1>5, <1>6, <1>7, <2>1, <2>2, <2>3, <2>6, Zenon
    <2>. QED BY <2>4, <2>5, <2>7
  <1>9. SlotStatus(t, slot) =
          IF Touches(slot, Blocked(cal, lo, hi)) THEN "unavailable"
          ELSE IF Touches(slot, Merge(T)) THEN "booked"
          ELSE IF IsCovered(slot, Bookable(cal, lo, hi)) THEN "free" ELSE "not_declared"
    BY <1>1, Zenon DEF SlotStatus, cal, T
  <1>10. \A x : FreeAt(t, x, {}) <=> Declared(t, x) /\ ~Excused(t, x) /\ ~IsTaught(t, x)
    BY DEF FreeAt, IsTaught
  <1>11. StatusIsRight(t, u..v, SlotStatus(t, slot))
    BY <1>8, <1>9, <1>10 DEF StatusIsRight
  <1>. QED BY <1>11 DEF slot, hi

(* The status a page shows of a slot: free exactly when every unit of it   *)
(* is declared, without leave and without a class; unavailable exactly     *)
(* when there is leave in it; and booked only when there is a class in it  *)
(* (api/routes_admin_trainer_scheduling.py:89-113).                        *)
THEOREM SlotStatusIsRight ==
  CalSpec => [](\A t \in Teachers : \A u, v \in Int :
                  u <= v => StatusIsRight(t, u..v, SlotStatus(t, <<u, v + 1>>)))
  <1>1. CalTyped => \A t \in Teachers : \A u, v \in Int :
                      u <= v => StatusIsRight(t, u..v, SlotStatus(t, <<u, v + 1>>))
    BY StatusByUnit
  <1>. QED BY <1>1, CalendarTyped, PTL

(* Recommendations: nothing but the load of a week stands against a        *)
(* trainer exactly when every unit of every required class is declared,    *)
(* without leave, and without another class (core/scheduling.py:322-376).  *)
LEMMA ConflictsByUnit ==
  ASSUME CalTyped, NEW c \in Courses, NEW t \in Teachers
  PROVE  ConflictsOf(c, t) \subseteq {"workload"} <=>
           \A u \in UNION {Units(i) : i \in StillToTeach(c)} : FreeAt(t, u, {c})
  <1>. DEFINE required == StillToTeach(c)
              cal == calendars[t]
              ahead == UNION {Units(i) : i \in required}
              found == ConflictsOf(c, t)
              excused(i) == \E u \in Int : i[1] <= u /\ u < i[2] /\ EntryAt(cal, Blocking, u)
  <1>1. CASE required = {}
    <2>1. ConflictsOf(c, t) = {}
      BY <1>1, Zenon DEF ConflictsOf, Unmet
    <2>. QED BY <1>1, <2>1
  <1>2. CASE required # {}
    <2>1. /\ found \subseteq {"overlap", "leave", "outside_availability", "workload"}
          /\ "overlap" \in found <=>
               \E i \in required, o \in CoursesOf(t) \ {c} :
                 \E j : IsClass(courses[o], j) /\ Meet(i, j)
          /\ "leave" \in found <=> \E i \in required : excused(i)
          /\ "outside_availability" \in found <=> \E i \in required : ~excused(i) /\ ~Open(cal, i)
      BY <1>2, ConflictsAre, Zenon
    <2>2. /\ \A x : Excused(t, x) <=> EntryAt(cal, Blocking, x)
          /\ \A x : OpenAt(cal, x) <=> Declared(t, x) /\ ~Excused(t, x)
      BY UnitFacts, Zenon
    <2>3. /\ \A o \in Courses : courses[o] \in Course
          /\ \A o : o \in CoursesOf(t) <=> o \in Courses /\ courses[o].teacher = t
      BY DEF CoursesOf, CalTyped, CalendarInOrder
    <2>4. \A i \in required : IsClass(courses[c], i) /\ i[1] \in Int /\ i[2] \in Int /\ i[1] < i[2]
      BY RequiredFacts DEF Intervals
    <2>. HIDE DEF required, cal, found
    <2>5. \A u : u \in ahead <=> \E i \in required : u \in Int /\ i[1] <= u /\ u < i[2]
      BY <2>4 DEF Units
    <2>6. \A o \in Courses, u \in Int : TeachesAt(t, o, u) <=>
            courses[o].teacher = t /\ \E i : IsClass(courses[o], i) /\ i[1] <= u /\ u < i[2]
      BY <2>3, TeachesClass
    <2>7. ASSUME NEW i \in required, NEW o \in Courses, NEW j, IsClass(courses[o], j)
          PROVE  Meet(i, j) <=> \E u \in Int : i[1] <= u /\ u < i[2] /\ j[1] <= u /\ u < j[2]
      <3>1. i[1] \in Int /\ i[2] \in Int /\ i[1] < i[2] /\ j[1] \in Int /\ j[2] \in Int /\ j[1] < j[2]
        BY <2>3, <2>4, <2>7, ClassFacts
      <3>2. ASSUME Meet(i, j) PROVE \E u \in Int : i[1] <= u /\ u < i[2] /\ j[1] <= u /\ u < j[2]
        <4>1. i[1] < j[2] /\ i[2] > j[1]
          BY <3>2 DEF Meet
        <4>. DEFINE u == Later(i[1], j[1])
        <4>2. u \in Int /\ i[1] <= u /\ u < i[2] /\ j[1] <= u /\ u < j[2]
          BY <3>1, <4>1 DEF Later
        <4>. QED BY <4>2
      <3>3. ASSUME NEW u \in Int, i[1] <= u, u < i[2], j[1] <= u, u < j[2] PROVE Meet(i, j)
        BY <3>1, <3>3 DEF Meet
      <3>. QED BY <3>2, <3>3
    <2>8. found \subseteq {"workload"} <=>
            "overlap" \notin found /\ "leave" \notin found /\ "outside_availability" \notin found
      BY <2>1
    <2>9. "leave" \notin found /\ "outside_availability" \notin found <=>
            \A u \in ahead : Declared(t, u) /\ ~Excused(t, u)
      <3>1. (\A u \in ahead : Declared(t, u) /\ ~Excused(t, u)) <=> \A i \in required : Open(cal, i)
        BY <2>2, <2>5, Zenon DEF Open
      <3>2. \A i : Open(cal, i) => ~excused(i)
        BY Zenon DEF Open, OpenAt
      <3>. HIDE DEF excused
      <3>. QED BY <2>1, <3>1, <3>2, Zenon
    <2>10. "overlap" \notin found <=> \A u \in ahead : \A o \in Courses \ {c} : ~TeachesAt(t, o, u)
      <3>1. ASSUME "overlap" \in found
            PROVE  \E u \in ahead : \E o \in Courses \ {c} : TeachesAt(t, o, u)
        <4>1. PICK i \in required, o \in CoursesOf(t) \ {c} : \E j : IsClass(courses[o], j) /\ Meet(i, j)
          BY <2>1, <3>1, Zenon
        <4>2. PICK j : IsClass(courses[o], j) /\ Meet(i, j)
          BY <4>1
        <4>3. o \in Courses \ {c} /\ courses[o].teacher = t
          BY <2>3
        <4>4. PICK u \in Int : i[1] <= u /\ u < i[2] /\ j[1] <= u /\ u < j[2]
          BY <2>7, <4>2, <4>3
        <4>5. u \in ahead /\ TeachesAt(t, o, u)
          BY <2>5, <2>6, <4>2, <4>3, <4>4, Zenon
        <4>. QED BY <4>3, <4>5
      <3>2. ASSUME NEW u \in ahead, NEW o \in Courses \ {c}, TeachesAt(t, o, u)
            PROVE  "overlap" \in found
        <4>1. PICK i \in required : u \in Int /\ i[1] <= u /\ u < i[2]
          BY <2>5, Zenon
        <4>2. PICK j : courses[o].teacher = t /\ IsClass(courses[o], j) /\ j[1] <= u /\ u < j[2]
          BY <2>6, <3>2, <4>1
        <4>3. o \in CoursesOf(t) \ {c} /\ Meet(i, j)
          BY <2>3, <2>7, <4>1, <4>2
        <4>. QED BY <2>1, <4>2, <4>3, Zenon
      <3>. QED BY <3>1, <3>2, Zenon
    <2>11. \A u : FreeAt(t, u, {c}) <=>
             /\ Declared(t, u) /\ ~Excused(t, u)
             /\ \A o \in Courses \ {c} : ~TeachesAt(t, o, u)
      BY Zenon DEF FreeAt
    <2>. HIDE DEF ahead
    <2>12. found \subseteq {"workload"} <=> \A u \in ahead : FreeAt(t, u, {c})
      BY <2>8, <2>9, <2>10, <2>11, Zenon
    <2>. QED BY <2>12 DEF ahead, required, found
  <1>. QED BY <1>1, <1>2

(* A trainer meets no other class, no leave and no undeclared time exactly *)
(* when every unit of every class still to teach is free for them          *)
(* (core/scheduling.py:322-376).                                           *)
THEOREM ConflictsAreRight ==
  CalSpec => [](\A c \in Courses, t \in Teachers :
                  ConflictsOf(c, t) \subseteq {"workload"} <=>
                    \A u \in UNION {Units(i) : i \in StillToTeach(c)} : FreeAt(t, u, {c}))
  <1>1. CalTyped => \A c \in Courses, t \in Teachers :
                      ConflictsOf(c, t) \subseteq {"workload"} <=>
                        \A u \in UNION {Units(i) : i \in StillToTeach(c)} : FreeAt(t, u, {c})
    BY ConflictsByUnit
  <1>. QED BY <1>1, CalendarTyped, PTL

-----------------------------------------------------------------------------
(* What the pages show, cut at midnight.                                   *)

LEMMA PiecesFacts ==
  ASSUME NEW i \in Intervals, i[1] < i[2]
  PROVE  /\ \A p \in Pieces(i) : p \in Intervals /\ p[1] < p[2] /\ DayOf(p[1]) = DayOf(p[2] - 1)
         /\ \A u \in Int : (\E p \in Pieces(i) : p[1] <= u /\ u < p[2]) <=> i[1] <= u /\ u < i[2]
  <1>1. /\ i[1] \in Int /\ i[2] \in Int /\ i[2] - 1 \in Int /\ i[1] <= i[2] - 1
        /\ DayLength \in Nat \ {0}
    BY CalendarAssumption DEF Intervals
  <1>2. DayOf(i[1]) \in Int /\ DayOf(i[2] - 1) \in Int
    BY <1>1, DayFacts
  <1>3. ASSUME NEW d \in Int
        PROVE  /\ At(d, 0) \in Int /\ At(d + 1, 0) \in Int /\ At(d + 1, 0) = At(d, 0) + DayLength
               /\ \A u \in Int : DayOf(u) = d <=> At(d, 0) <= u /\ u < At(d + 1, 0)
               /\ \A u \in Int : (DayOf(u) <= d => u < At(d + 1, 0)) /\ (d <= DayOf(u) => At(d, 0) <= u)
    <2>1. d * DayLength \in Int /\ (d + 1) * DayLength = d * DayLength + DayLength
      BY <1>1, Products
    <2>2. At(d, 0) \in Int /\ At(d + 1, 0) \in Int /\ At(d + 1, 0) = At(d, 0) + DayLength
      BY <1>1, <2>1 DEF At
    <2>3. ASSUME NEW u \in Int
          PROVE  /\ DayOf(u) = d <=> At(d, 0) <= u /\ u < At(d + 1, 0)
                 /\ DayOf(u) <= d => u < At(d + 1, 0)
                 /\ d <= DayOf(u) => At(d, 0) <= u
      <3>. DEFINE e == DayOf(u)
      <3>1. e \in Int /\ At(e, 0) \in Int /\ At(e, 0) <= u /\ u < At(e, 0) + DayLength
        BY DayFacts
      <3>. HIDE DEF e
      <3>2. /\ At(e, 0) = e * DayLength /\ At(d, 0) = d * DayLength
            /\ e * DayLength \in Int /\ d * DayLength \in Int
        BY <1>1, <3>1 DEF At
      <3>3. /\ e < d => e * DayLength + DayLength <= d * DayLength
            /\ d < e => d * DayLength + DayLength <= e * DayLength
        BY <1>1, <3>1, Products
      <3>. QED BY <1>1, <2>2, <3>1, <3>2, <3>3 DEF e
    <2>. QED BY <2>2, <2>3
  <1>. DEFINE days == DayOf(i[1])..DayOf(i[2] - 1)
              piece(d) == <<Later(i[1], At(d, 0)), Sooner(i[2], At(d + 1, 0))>>
  <1>4. Pieces(i) = {piece(d) : d \in days}
    BY Zenon DEF Pieces
  <1>5. ASSUME NEW d \in days
        PROVE  /\ piece(d) \in Intervals /\ piece(d)[1] < piece(d)[2]
               /\ DayOf(piece(d)[1]) = DayOf(piece(d)[2] - 1)
               /\ \A u \in Int : piece(d)[1] <= u /\ u < piece(d)[2] <=>
                    i[1] <= u /\ u < i[2] /\ DayOf(u) = d
    <2>1. d \in Int /\ DayOf(i[1]) <= d /\ d <= DayOf(i[2] - 1)
      BY <1>2
    <2>. DEFINE a == At(d, 0)
                b == At(d + 1, 0)
                x == Later(i[1], a)
                y == Sooner(i[2], b)
    <2>2. /\ a \in Int /\ b \in Int /\ a < b /\ i[1] < b /\ a <= i[2] - 1
          /\ \A u \in Int : DayOf(u) = d <=> a <= u /\ u < b
      <3>1. a \in Int /\ b \in Int /\ a < b
        BY <1>1, <1>3, <2>1
      <3>2. i[1] < b
        BY <1>1, <1>3, <2>1, Zenon
      <3>4. a <= i[2] - 1
        <4>. DEFINE v == i[2] - 1
        <4>1. v \in Int /\ d \in Int /\ d <= DayOf(v)
          BY <1>1, <2>1
        <4>2. \A u \in Int : d <= DayOf(u) => a <= u
          BY <1>3, <2>1, Zenon
        <4>. HIDE DEF v, a
        <4>3. a <= v
          BY <4>1, <4>2, Zenon
        <4>. QED BY <4>3 DEF v
      <3>3. \A u \in Int : DayOf(u) = d <=> a <= u /\ u < b
        BY <1>3, <2>1, Zenon
      <3>. QED BY <3>1, <3>2, <3>3, <3>4
    <2>. HIDE DEF a, b
    <2>3. /\ x \in Int /\ y \in Int /\ x < y /\ a <= x /\ y <= b
          /\ \A u \in Int : x <= u /\ u < y <=> i[1] <= u /\ u < i[2] /\ a <= u /\ u < b
      BY <1>1, <2>2 DEF Later, Sooner
    <2>. HIDE DEF x, y
    <2>4. piece(d) = <<x, y>>
      BY Zenon DEF x, y, a, b
    <2>5. DayOf(x) = d /\ DayOf(y - 1) = d
      <3>1. x \in Int /\ y - 1 \in Int /\ a <= x /\ x < b /\ a <= y - 1 /\ y - 1 < b
        BY <2>2, <2>3
      <3>. QED BY <2>2, <3>1
    <2>6. <<x, y>> \in Intervals /\ <<x, y>>[1] = x /\ <<x, y>>[2] = y
      BY <2>3 DEF Intervals
    <2>7. \A u \in Int : x <= u /\ u < y <=> i[1] <= u /\ u < i[2] /\ DayOf(u) = d
      BY <2>2, <2>3
    <2>. HIDE DEF piece
    <2>. QED BY <2>3, <2>4, <2>5, <2>6, <2>7
  <1>6. \A u \in Int : i[1] <= u /\ u < i[2] => DayOf(u) \in days
    <2>. TAKE u \in Int
    <2>. HAVE i[1] <= u /\ u < i[2]
    <2>1. i[1] <= u /\ u <= i[2] - 1
      BY <1>1
    <2>2. DayOf(i[1]) <= DayOf(u) /\ DayOf(u) <= DayOf(i[2] - 1) /\ DayOf(u) \in Int
      BY <1>1, <2>1, DaysGrow, DayFacts
    <2>. QED BY <1>2, <2>2
  <1>. HIDE DEF piece, days
  <1>. QED BY <1>4, <1>5, <1>6

LEMMA SegmentFacts ==
  ASSUME NEW S, S \subseteq Intervals, \A i \in S : i[1] < i[2]
  PROVE  LET P == UNION {Pieces(i) : i \in S} IN
         /\ \A p \in P : p[1] < p[2] /\ DayOf(p[1]) = DayOf(p[2] - 1)
         /\ \A u : u \in UNION {Units(p) : p \in P} <=> u \in Int /\ Within(S, u)
  <1>. DEFINE P == UNION {Pieces(i) : i \in S}
  <1>1. \A p : p \in P <=> \E i \in S : p \in Pieces(i)
    OBVIOUS
  <1>2. \A i \in S :
          /\ \A p \in Pieces(i) : p \in Intervals /\ p[1] < p[2] /\ DayOf(p[1]) = DayOf(p[2] - 1)
          /\ \A u \in Int : (\E p \in Pieces(i) : p[1] <= u /\ u < p[2]) <=> i[1] <= u /\ u < i[2]
    BY PiecesFacts
  <1>. HIDE DEF P
  <1>3. \A p \in P : p[1] < p[2] /\ DayOf(p[1]) = DayOf(p[2] - 1) /\ p[1] \in Int /\ p[2] \in Int
    BY <1>1, <1>2 DEF Intervals
  <1>4. \A u : u \in UNION {Units(p) : p \in P} <=> u \in Int /\ \E p \in P : p[1] <= u /\ u < p[2]
    BY <1>3 DEF Units
  <1>5. \A u \in Int : Within(S, u) <=> \E i \in S : i[1] <= u /\ u < i[2]
    BY DEF Within
  <1>6. \A u \in Int : (\E p \in P : p[1] <= u /\ u < p[2]) <=> Within(S, u)
    BY <1>1, <1>2, <1>5, Zenon
  <1>. QED BY <1>3, <1>4, <1>6, Zenon DEF P

LEMMA ListedFacts ==
  ASSUME NEW list, Apart(list)
  PROVE  /\ ToSet(list) \subseteq Intervals /\ \A i \in ToSet(list) : i[1] < i[2]
         /\ \A u : Within(ToSet(list), u) <=> In(list, u)
  <1>1. /\ list \in Seq(Intervals) /\ DOMAIN list = 1..Len(list)
        /\ \A k \in 1..Len(list) : list[k] \in Intervals /\ list[k][1] < list[k][2]
    BY DEF Apart
  <1>2. \A x : x \in ToSet(list) <=> \E k \in 1..Len(list) : list[k] = x
    BY <1>1, Zenon DEF ToSet
  <1>. QED BY <1>1, <1>2 DEF Within, In

LEMMA ClippedFacts ==
  ASSUME NEW S, S \subseteq Intervals, \A i \in S : i[1] < i[2],
         NEW lo \in Int, NEW hi \in Int, lo < hi
  PROVE  \A i \in Clip(S, lo, hi) : i[1] < i[2]
  <1>. SUFFICES ASSUME NEW x \in Clip(S, lo, hi) PROVE x[1] < x[2]
    OBVIOUS
  <1>1. PICK j \in S : Meet(j, <<lo, hi>>) /\ x = <<Later(j[1], lo), Sooner(j[2], hi)>>
    BY DEF Clip
  <1>2. j[1] \in Int /\ j[2] \in Int /\ j[1] < j[2] /\ j[1] < hi /\ j[2] > lo
    BY <1>1 DEF Intervals, Meet
  <1>. QED BY <1>1, <1>2 DEF Later, Sooner

(* What a page draws of a trainer: each piece lies within a day, and every *)
(* unit is drawn as what holds there, preferred and available hours        *)
(* without leave and never both (core/scheduling_service.py:42-89).        *)
LEMMA SegmentsByUnit ==
  ASSUME CalTyped, NEW t \in Teachers, NEW lo \in Int, NEW hi \in Int, lo < hi
  PROVE  SegmentsAreRight(t, lo..hi - 1, Segments(t, lo, hi))
  <1>. DEFINE cal == calendars[t]
              open == Bookable(cal, lo, hi)
              liked == Preferred(cal, lo, hi)
              other == Subtract(open, liked)
              leave == EntryIntervals(cal, {"leave"}, lo, hi)
              away == EntryIntervals(cal, {"unavailable"}, lo, hi)
              booked == Clip(Teaching(t, {}, lo, hi), lo, hi)
              pieces(S) == UNION {Pieces(i) : i \in S}
              units(P) == UNION {Units(i) : i \in P}
              days == lo..hi - 1
              good(S) == S \subseteq Intervals /\ \A i \in S : i[1] < i[2]
  <1>1. /\ cal \in Rows
        /\ \A u : Declared(t, u) <=> RuleAt(cal, Offering, u) \/ EntryAt(cal, Offering, u)
        /\ \A u : Excused(t, u) <=> EntryAt(cal, Blocking, u)
        /\ \A u : PrefersAt(t, u) <=>
             /\ ~EntryAt(cal, Blocking, u)
             /\ RuleAt(cal, {"preferred"}, u) \/ EntryAt(cal, {"preferred"}, u)
    BY UnitFacts, Zenon
  <1>2. \A e \in ToSet(cal.entries) : e \in DatedEntry /\ e.start < e.end
    <2>1. RowsInOrder(cal)
      BY DEF CalTyped, CalendarInOrder
    <2>2. ToSet(cal.entries) \subseteq DatedEntry
      BY <1>1, RowsOf DEF Rows
    <2>. QED BY <2>1, <2>2, RowsFacts, Zenon
  <1>. HIDE DEF cal
  <1>3. /\ Apart(open)
        /\ \A u \in Int : In(open, u) <=>
             lo <= u /\ u < hi /\ Declared(t, u) /\ ~Excused(t, u)
    BY <1>1, BookableIsRight, Zenon
  <1>4. /\ Apart(liked)
        /\ \A u \in Int : In(liked, u) <=> lo <= u /\ u < hi /\ PrefersAt(t, u)
    BY <1>1, TimeOfKinds, Zenon DEF Preferred
  <1>. HIDE DEF open, liked
  <1>5. /\ Apart(other)
        /\ \A u \in Int : In(other, u) <=> In(open, u) /\ ~In(liked, u)
    BY <1>3, <1>4, SubtractIsRight, Zenon
  <1>. HIDE DEF other
  <1>6. ASSUME NEW kind
        PROVE  LET S == EntryIntervals(cal, {kind}, lo, hi) IN
               /\ good(S) /\ \A u \in Int : Within(S, u) <=> EntryAt(cal, {kind}, u) /\ lo <= u /\ u < hi
    <2>. DEFINE S == EntryIntervals(cal, {kind}, lo, hi)
                all == {<<e.start, e.end>> : e \in {f \in ToSet(cal.entries) : f.kind \in {kind}}}
    <2>1. S = Clip(all, lo, hi)
      BY Zenon DEF EntryIntervals
    <2>2. /\ S \subseteq Intervals
          /\ \A u \in Int : Within(S, u) <=> EntryAt(cal, {kind}, u) /\ lo <= u /\ u < hi
      BY <1>1, EntryIntervalsFacts, Zenon
    <2>3. good(all)
      <3>1. \A e \in ToSet(cal.entries) : e.start \in Int /\ e.end \in Int /\ e.start < e.end
        BY <1>2 DEF DatedEntry
      <3>2. \A x, y \in Int : <<x, y>> \in Intervals /\ (x < y => <<x, y>>[1] < <<x, y>>[2])
        BY DEF Intervals
      <3>3. ASSUME NEW i \in all PROVE i \in Intervals /\ i[1] < i[2]
        <4>1. PICK e \in ToSet(cal.entries) : i = <<e.start, e.end>>
          OBVIOUS
        <4>. QED BY <3>1, <3>2, <4>1, Zenon
      <3>. HIDE DEF all
      <3>. QED BY <3>3
    <2>. HIDE DEF all, S
    <2>4. good(S)
      BY <2>1, <2>2, <2>3, ClippedFacts
    <2>. QED BY <2>2, <2>4 DEF S
  <1>7. /\ good(leave) /\ \A u \in Int : Within(leave, u) <=> EntryAt(cal, {"leave"}, u) /\ lo <= u /\ u < hi
        /\ good(away) /\ \A u \in Int : Within(away, u) <=> EntryAt(cal, {"unavailable"}, u) /\ lo <= u /\ u < hi
    BY <1>6
  <1>. HIDE DEF leave, away
  <1>8. \A u : EntryAt(cal, {"leave"}, u) \/ EntryAt(cal, {"unavailable"}, u) <=> Excused(t, u)
    <2>1. \A x : x \in Blocking <=> x \in {"leave"} \/ x \in {"unavailable"}
      BY DEF Blocking
    <2>2. \A u : EntryAt(cal, {"leave"}, u) \/ EntryAt(cal, {"unavailable"}, u) <=> EntryAt(cal, Blocking, u)
      BY <2>1, Zenon DEF EntryAt
    <2>. QED BY <1>1, <2>2, Zenon
  <1>9. good(booked) /\ \A u \in Int : Within(booked, u) <=> lo <= u /\ u < hi /\ IsTaught(t, u)
    <2>. DEFINE T == Teaching(t, {}, lo, hi)
    <2>1. /\ T \subseteq Intervals /\ IsFiniteSet(T) /\ \A i \in T : i[1] < i[2]
          /\ \A u \in Int : lo <= u /\ u < hi =>
               (Within(T, u) <=> \E o \in Courses \ {} : TeachesAt(t, o, u))
      BY TeachingFacts
    <2>2. \A u : IsTaught(t, u) <=> \E o \in Courses \ {} : TeachesAt(t, o, u)
      BY DEF IsTaught
    <2>3. booked = Clip(T, lo, hi)
      OBVIOUS
    <2>. HIDE DEF T, booked
    <2>4. /\ booked \subseteq Intervals
          /\ \A u \in Int : Within(booked, u) <=> Within(T, u) /\ lo <= u /\ u < hi
      BY <2>1, <2>3, ClipFacts, Zenon
    <2>5. \A i \in booked : i[1] < i[2]
      BY <2>1, <2>3, ClippedFacts
    <2>6. \A u \in Int : Within(booked, u) <=> lo <= u /\ u < hi /\ IsTaught(t, u)
      BY <2>1, <2>2, <2>4, Zenon
    <2>. QED BY <2>4, <2>5, <2>6
  <1>. HIDE DEF booked
  <1>10. /\ good(ToSet(liked)) /\ \A u : Within(ToSet(liked), u) <=> In(liked, u)
         /\ good(ToSet(other)) /\ \A u : Within(ToSet(other), u) <=> In(other, u)
    BY <1>4, <1>5, ListedFacts
  <1>11. ASSUME NEW S, good(S)
         PROVE  /\ \A p \in pieces(S) : p[1] < p[2] /\ DayOf(p[1]) = DayOf(p[2] - 1)
                /\ \A u : u \in units(pieces(S)) <=> u \in Int /\ Within(S, u)
    BY <1>11, SegmentFacts
  <1>12. \A u : u \in days <=> u \in Int /\ lo <= u /\ u < hi
    OBVIOUS
  <1>. DEFINE seg == Segments(t, lo, hi)
  <1>13. /\ DOMAIN seg = {"available", "preferred", "leave", "unavailable", "booked"}
         /\ seg["available"] = pieces(ToSet(other)) /\ seg["preferred"] = pieces(ToSet(liked))
         /\ seg["leave"] = pieces(leave) /\ seg["unavailable"] = pieces(away)
         /\ seg["booked"] = pieces(booked)
    <2>. DEFINE shown == [available |-> ToSet(other), preferred |-> ToSet(liked), leave |-> leave,
                          unavailable |-> away, booked |-> booked]
    <2>1. seg = [state \in {"available", "preferred", "leave", "unavailable", "booked"} |->
                   UNION {Pieces(i) : i \in shown[state]}]
      BY Zenon DEF Segments, Shown, other, liked, open, leave, away, booked, cal
    <2>. HIDE DEF seg
    <2>. QED BY <2>1
  <1>. HIDE DEF seg, pieces, units, good, days
  <1>14. \A state \in DOMAIN seg : \A p \in seg[state] : p[1] < p[2] /\ DayOf(p[1]) = DayOf(p[2] - 1)
    BY <1>7, <1>9, <1>10, <1>11, <1>13
  <1>15. units(seg["preferred"]) = {u \in days : PrefersAt(t, u)}
    <2>1. \A u : u \in units(seg["preferred"]) <=> u \in days /\ PrefersAt(t, u)
      BY <1>4, <1>10, <1>11, <1>12, <1>13, Zenon
    <2>. QED BY <2>1
  <1>16. units(seg["available"]) = {u \in days : Declared(t, u) /\ ~Excused(t, u) /\ ~PrefersAt(t, u)}
    <2>1. \A u \in Int : In(other, u) <=>
            lo <= u /\ u < hi /\ Declared(t, u) /\ ~Excused(t, u) /\ ~PrefersAt(t, u)
      BY <1>3, <1>4, <1>5, Zenon
    <2>2. \A u : u \in units(seg["available"]) <=>
            u \in days /\ Declared(t, u) /\ ~Excused(t, u) /\ ~PrefersAt(t, u)
      BY <1>10, <1>11, <1>12, <1>13, <2>1, Zenon
    <2>. QED BY <2>2
  <1>17. units(seg["leave"]) \cup units(seg["unavailable"]) = {u \in days : Excused(t, u)}
    <2>1. \A u : u \in units(seg["leave"]) \/ u \in units(seg["unavailable"]) <=>
            u \in days /\ Excused(t, u)
      BY <1>7, <1>8, <1>11, <1>12, <1>13, Zenon
    <2>. QED BY <2>1
  <1>18. units(seg["booked"]) = {u \in days : IsTaught(t, u)}
    <2>1. \A u : u \in units(seg["booked"]) <=> u \in days /\ IsTaught(t, u)
      BY <1>9, <1>11, <1>12, <1>13, Zenon
    <2>. QED BY <2>1
  <1>. QED BY <1>14, <1>15, <1>16, <1>17, <1>18, Zenon DEF SegmentsAreRight, units, seg, days

(* In every state the pages draw of each unit of a week, or of any other   *)
(* span, what holds there (core/scheduling_service.py:42-89).              *)
THEOREM SegmentsShowWhatHolds ==
  CalSpec => [](\A t \in Teachers : \A lo, hi \in Int :
                  lo < hi => SegmentsAreRight(t, lo..hi - 1, Segments(t, lo, hi)))
  <1>1. CalTyped => \A t \in Teachers : \A lo, hi \in Int :
                      lo < hi => SegmentsAreRight(t, lo..hi - 1, Segments(t, lo, hi))
    BY SegmentsByUnit
  <1>. QED BY <1>1, CalendarTyped, PTL
-----------------------------------------------------------------------------
(* Sums over finite sets.                                                  *)

AnyOf(s) == CHOOSE x \in s : TRUE
SumsTo(g, S, f) ==
  g = [s \in SUBSET S |-> IF s = {} THEN 0 ELSE f[AnyOf(s)] + g[s \ {AnyOf(s)}]]
AddsUp(h, S, f) ==
  /\ h[{}] = 0
  /\ \A s \in SUBSET S : s # {} => h[s] = f[AnyOf(s)] + h[s \ {AnyOf(s)}]

LEMMA AnyOne ==
  ASSUME NEW S, IsFiniteSet(S), NEW s \in SUBSET S
  PROVE  /\ IsFiniteSet(s) /\ Cardinality(s) \in Nat /\ Cardinality({}) = 0
         /\ s # {} => /\ AnyOf(s) \in s /\ Cardinality(s) # 0 /\ s \ {AnyOf(s)} \in SUBSET S
                      /\ Cardinality(s \ {AnyOf(s)}) = Cardinality(s) - 1
  <1>1. IsFiniteSet(s) /\ Cardinality(s) \in Nat /\ Cardinality({}) = 0
    BY FS_Subset, FS_CardinalityType, FS_EmptySet
  <1>2. ASSUME s # {} PROVE AnyOf(s) \in s
    BY <1>2 DEF AnyOf
  <1>3. s # {} => Cardinality(s) # 0
    BY <1>1, FS_EmptySet
  <1>4. ASSUME s # {} PROVE Cardinality(s \ {AnyOf(s)}) = Cardinality(s) - 1
    BY <1>1, <1>2, <1>4, FS_RemoveElement
  <1>. QED BY <1>1, <1>2, <1>3, <1>4

(* Two functions that meet the equation of a sum agree.                    *)
LEMMA SumIs ==
  ASSUME NEW S, IsFiniteSet(S), NEW f \in [S -> Int], NEW g, SumsTo(g, S, f),
         NEW h, AddsUp(h, S, f)
  PROVE  g[S] = h[S]
  <1>. DEFINE bad == {n \in Nat : \E s \in SUBSET S : Cardinality(s) = n /\ g[s] # h[s]}
  <1>1. bad = {}
    <2>1. SUFFICES ASSUME bad # {} PROVE FALSE
      OBVIOUS
    <2>2. bad \subseteq Nat
      OBVIOUS
    <2>3. PICK n \in bad : \A m \in bad : n <= m
      BY <2>1, <2>2, LeastNat, Zenon
    <2>4. PICK s \in SUBSET S : Cardinality(s) = n /\ g[s] # h[s]
      BY <2>3
    <2>5. g[s] = IF s = {} THEN 0 ELSE f[AnyOf(s)] + g[s \ {AnyOf(s)}]
      BY Zenon DEF SumsTo
    <2>a. h[{}] = 0 /\ (s # {} => h[s] = f[AnyOf(s)] + h[s \ {AnyOf(s)}])
      BY Zenon DEF AddsUp
    <2>6. s # {}
      BY <2>4, <2>5, <2>a
    <2>7. s \ {AnyOf(s)} \in SUBSET S /\ Cardinality(s \ {AnyOf(s)}) = n - 1 /\ n \in Nat /\ n # 0
      BY <2>4, <2>6, AnyOne
    <2>8. n - 1 \notin bad /\ n - 1 \in Nat
      BY <2>3, <2>7
    <2>9. g[s \ {AnyOf(s)}] = h[s \ {AnyOf(s)}]
      BY <2>7, <2>8
    <2>. QED BY <2>4, <2>5, <2>6, <2>9, <2>a
  <1>2. Cardinality(S) \in Nat
    BY FS_CardinalityType
  <1>. QED BY <1>1, <1>2

(* The subsets of at most k elements.                                      *)
Small(S, k) == {s \in SUBSET S : Cardinality(s) <= k}
SumsUpTo(g, S, f, k) ==
  g = [s \in Small(S, k) |-> IF s = {} THEN 0 ELSE f[AnyOf(s)] + g[s \ {AnyOf(s)}]]

LEMMA SumsMore ==
  ASSUME NEW S, IsFiniteSet(S), NEW f \in [S -> Int], NEW k \in Nat,
         NEW g \in [Small(S, k) -> Int], SumsUpTo(g, S, f, k)
  PROVE  \E h \in [Small(S, k + 1) -> Int] : SumsUpTo(h, S, f, k + 1)
  <1>. DEFINE h == [s \in Small(S, k + 1) |->
                      IF s = {} THEN 0 ELSE f[AnyOf(s)] + g[s \ {AnyOf(s)}]]
  <1>1. ASSUME NEW s \in Small(S, k + 1), s # {}
        PROVE  AnyOf(s) \in S /\ s \ {AnyOf(s)} \in Small(S, k)
    <2>1. s \in SUBSET S /\ Cardinality(s) <= k + 1
      BY DEF Small
    <2>2. /\ AnyOf(s) \in s /\ s \ {AnyOf(s)} \in SUBSET S /\ Cardinality(s) \in Nat
          /\ Cardinality(s \ {AnyOf(s)}) = Cardinality(s) - 1
      BY <1>1, <2>1, AnyOne
    <2>. QED BY <2>1, <2>2 DEF Small
  <1>2. ASSUME NEW s \in Small(S, k) PROVE s \in Small(S, k + 1)
    <2>1. s \in SUBSET S /\ Cardinality(s) <= k
      BY DEF Small
    <2>2. Cardinality(s) \in Nat
      BY <2>1, AnyOne
    <2>. QED BY <2>1, <2>2 DEF Small
  <1>3. h \in [Small(S, k + 1) -> Int]
    <2>1. ASSUME NEW s \in Small(S, k + 1)
          PROVE  (IF s = {} THEN 0 ELSE f[AnyOf(s)] + g[s \ {AnyOf(s)}]) \in Int
      <3>1. CASE s = {}
        BY <3>1
      <3>2. CASE s # {}
        <4>1. f[AnyOf(s)] \in Int /\ g[s \ {AnyOf(s)}] \in Int
          BY <1>1, <3>2
        <4>. QED BY <3>2, <4>1
      <3>. QED BY <3>1, <3>2
    <2>. QED BY <2>1
  <1>4. \A s \in Small(S, k) : h[s] = g[s]
    <2>. TAKE s \in Small(S, k)
    <2>1. h[s] = IF s = {} THEN 0 ELSE f[AnyOf(s)] + g[s \ {AnyOf(s)}]
      BY <1>2
    <2>2. g[s] = IF s = {} THEN 0 ELSE f[AnyOf(s)] + g[s \ {AnyOf(s)}]
      BY Zenon DEF SumsUpTo
    <2>. QED BY <2>1, <2>2
  <1>5. \A s \in Small(S, k + 1) :
          (IF s = {} THEN 0 ELSE f[AnyOf(s)] + g[s \ {AnyOf(s)}]) =
          (IF s = {} THEN 0 ELSE f[AnyOf(s)] + h[s \ {AnyOf(s)}])
    BY <1>1, <1>4
  <1>6. SumsUpTo(h, S, f, k + 1)
    <2>1. h = [s \in Small(S, k + 1) |-> IF s = {} THEN 0 ELSE f[AnyOf(s)] + h[s \ {AnyOf(s)}]]
      <3>1. \A s \in Small(S, k + 1) :
               h[s] = IF s = {} THEN 0 ELSE f[AnyOf(s)] + h[s \ {AnyOf(s)}]
        <4>1. \A s \in Small(S, k + 1) :
               h[s] = IF s = {} THEN 0 ELSE f[AnyOf(s)] + g[s \ {AnyOf(s)}]
          OBVIOUS
        <4>. HIDE DEF h
        <4>. QED BY <1>5, <4>1, Zenon
      <3>. HIDE DEF h
      <3>. QED BY <1>3, <3>1
    <2>. HIDE DEF h
    <2>. QED BY <2>1, Zenon DEF SumsUpTo
  <1>. HIDE DEF h
  <1>. QED BY <1>3, <1>6, Zenon

LEMMA SumExists ==
  ASSUME NEW S, IsFiniteSet(S), NEW f \in [S -> Int]
  PROVE  \E g \in [SUBSET S -> Int] : SumsTo(g, S, f)
  <1>. DEFINE Has(k) == \E g \in [Small(S, k) -> Int] : SumsUpTo(g, S, f, k)
              missing == {k \in Nat : ~Has(k)}
  <1>1. Has(0)
    <2>. DEFINE g == [s \in Small(S, 0) |-> 0]
    <2>1. ASSUME NEW s \in Small(S, 0) PROVE s = {}
      <3>1. s \in SUBSET S /\ Cardinality(s) <= 0
        BY DEF Small
      <3>2. Cardinality(s) \in Nat /\ (s # {} => Cardinality(s) # 0)
        BY <3>1, AnyOne
      <3>. QED BY <3>1, <3>2
    <2>2. g \in [Small(S, 0) -> Int]
      OBVIOUS
    <2>3. SumsUpTo(g, S, f, 0)
      BY <2>1 DEF SumsUpTo
    <2>. QED BY <2>2, <2>3
  <1>2. ASSUME NEW k \in Nat, Has(k) PROVE Has(k + 1)
    BY <1>2, SumsMore
  <1>. HIDE DEF Has
  <1>3. missing = {}
    <2>1. SUFFICES ASSUME missing # {} PROVE FALSE
      OBVIOUS
    <2>0. missing \subseteq Nat
      OBVIOUS
    <2>2. PICK k \in missing : \A m \in missing : k <= m
      BY <2>0, <2>1, LeastNat, Zenon
    <2>3. k # 0 /\ k - 1 \in Nat /\ k - 1 \notin missing
      BY <1>1, <2>2
    <2>4. Has(k - 1 + 1)
      BY <2>3, <1>2
    <2>. QED BY <2>2, <2>4
  <1>4. Cardinality(S) \in Nat
    BY FS_CardinalityType
  <1>5. PICK g \in [Small(S, Cardinality(S)) -> Int] : SumsUpTo(g, S, f, Cardinality(S))
    BY <1>3, <1>4 DEF Has
  <1>6. Small(S, Cardinality(S)) = SUBSET S
    BY FS_Subset DEF Small
  <1>. QED BY <1>5, <1>6, Zenon DEF SumsUpTo, SumsTo

(* The sum of the sizes of disjoint sets is the size of their union.       *)
LEMMA SumOfPieces ==
  ASSUME NEW S, IsFiniteSet(S), NEW p, \A x \in S : IsFiniteSet(p[x]),
         \A x, y \in S : x # y => p[x] \cap p[y] = {},
         NEW f \in [S -> Int], \A x \in S : f[x] = Cardinality(p[x]),
         NEW g, SumsTo(g, S, f)
  PROVE  LET all == UNION {p[x] : x \in S} IN
         /\ IsFiniteSet(all) /\ g[S] = Cardinality(all) /\ g[S] \in Nat
  <1>. DEFINE all(s) == UNION {p[x] : x \in s}
              h == [s \in SUBSET S |-> Cardinality(all(s))]
  <1>1. ASSUME NEW s \in SUBSET S PROVE IsFiniteSet(all(s))
    <2>. DEFINE q == [x \in s |-> p[x]]
                Q == {q[x] : x \in s}
    <2>1. IsFiniteSet(s) /\ DOMAIN q = s /\ \A x \in s : q[x] = p[x]
      BY AnyOne
    <2>2. {p[x] : x \in s} = Q
      BY <2>1
    <2>. HIDE DEF q
    <2>3. IsFiniteSet(Q)
      <3>1. IsFiniteSet(s) /\ DOMAIN q = s
        BY <2>1
      <3>2. IsFiniteSet({q[x] : x \in s})
        BY <3>1, Images
      <3>. QED BY <3>2
    <2>4. \A T \in Q : IsFiniteSet(T)
      BY <2>1
    <2>5. IsFiniteSet(UNION Q)
      BY <2>3, <2>4, FS_UNION, Zenon
    <2>. QED BY <2>2, <2>5, Zenon
  <1>2. h[{}] = 0
    <2>1. {} \in SUBSET S /\ all({}) = {}
      OBVIOUS
    <2>2. h[{}] = Cardinality(all({}))
      BY <2>1, Zenon
    <2>. QED BY <2>1, <2>2, FS_EmptySet, Zenon
  <1>3. ASSUME NEW s \in SUBSET S, s # {}
        PROVE  h[s] = f[AnyOf(s)] + h[s \ {AnyOf(s)}]
    <2>. DEFINE a == AnyOf(s)
                rest == s \ {a}
    <2>1. a \in s /\ rest \in SUBSET S
      BY <1>3, AnyOne
    <2>. HIDE DEF a
    <2>2. all(s) = p[a] \cup all(rest)
      BY <2>1
    <2>3. p[a] \cap all(rest) = {}
      <3>1. ASSUME NEW z \in p[a], z \in all(rest) PROVE FALSE
        <4>1. PICK x \in rest : z \in p[x]
          BY <3>1
        <4>. QED BY <2>1, <3>1, <4>1
      <3>. QED BY <3>1
    <2>4. IsFiniteSet(p[a]) /\ IsFiniteSet(all(rest))
      BY <1>1, <2>1
    <2>. HIDE DEF all, rest
    <2>5. /\ Cardinality(p[a] \cup all(rest)) =
               Cardinality(p[a]) + Cardinality(all(rest)) - Cardinality(p[a] \cap all(rest))
          /\ Cardinality(p[a]) \in Nat /\ Cardinality(all(rest)) \in Nat /\ Cardinality({}) = 0
      BY <2>4, FS_Union, FS_CardinalityType, FS_EmptySet, Zenon
    <2>6. Cardinality(all(s)) = Cardinality(p[a]) + Cardinality(all(rest))
      <3>1. Cardinality(p[a] \cap all(rest)) = 0 /\ Cardinality(all(s)) = Cardinality(p[a] \cup all(rest))
        BY <2>2, <2>3, <2>5, Zenon
      <3>. QED BY <2>5, <3>1
    <2>7. h[s] = Cardinality(all(s)) /\ h[rest] = Cardinality(all(rest)) /\ f[a] = Cardinality(p[a])
      BY <2>1
    <2>8. h[s] = f[a] + h[rest]
      BY <2>6, <2>7
    <2>. QED BY <2>8 DEF a, rest
  <1>4. h[S] = Cardinality(all(S))
    OBVIOUS
  <1>. HIDE DEF h
  <1>5. g[S] = h[S]
    <2>1. AddsUp(h, S, f)
      BY <1>2, <1>3, Zenon DEF AddsUp
    <2>. QED BY <2>1, SumIs, Zenon
  <1>6. IsFiniteSet(all(S))
    BY <1>1
  <1>7. Cardinality(all(S)) \in Nat
    BY <1>6, FS_CardinalityType
  <1>. QED BY <1>4, <1>5, <1>6, <1>7

(* The units of an interval.                                               *)
LEMMA UnitsOf ==
  ASSUME NEW i \in Intervals, i[1] <= i[2]
  PROVE  /\ IsFiniteSet(Units(i)) /\ Cardinality(Units(i)) = i[2] - i[1] /\ i[2] - i[1] \in Nat
         /\ \A u : u \in Units(i) <=> u \in Int /\ i[1] <= u /\ u < i[2]
  <1>1. i[1] \in Int /\ i[2] \in Int
    BY DEF Intervals
  <1>a. i[2] - 1 \in Int
    BY <1>1
  <1>2. IsFiniteSet(i[1]..i[2] - 1) /\ Cardinality(i[1]..i[2] - 1) =
          IF i[1] > i[2] - 1 THEN 0 ELSE i[2] - 1 - i[1] + 1
    BY <1>1, <1>a, FS_Interval, Zenon
  <1>. QED BY <1>1, <1>2 DEF Units

(* The length of a set of intervals, as a sum.                             *)
LEMMA LengthsSum ==
  ASSUME NEW S, IsFiniteSet(S), S \subseteq Intervals
  PROVE  \E g : SumsTo(g, S, [i \in S |-> i[2] - i[1]]) /\ Lengths(S) = g[S]
  <1>. DEFINE f == [i \in S |-> i[2] - i[1]]
              Sum(g) == g = [s \in SUBSET S |->
                               IF s = {} THEN 0
                               ELSE ((CHOOSE x \in s : TRUE)[2] - (CHOOSE x \in s : TRUE)[1])
                                      + g[s \ {CHOOSE x \in s : TRUE}]]
  <1>1. f \in [S -> Int]
    BY DEF Intervals
  <1>2. \A s \in SUBSET S : s # {} => f[AnyOf(s)] = AnyOf(s)[2] - AnyOf(s)[1]
    BY AnyOne
  <1>. HIDE DEF f
  <1>3. ASSUME NEW g PROVE SumsTo(g, S, f) <=> Sum(g)
    <2>1. \A s \in SUBSET S :
            (IF s = {} THEN 0 ELSE f[AnyOf(s)] + g[s \ {AnyOf(s)}]) =
            (IF s = {} THEN 0 ELSE (AnyOf(s)[2] - AnyOf(s)[1]) + g[s \ {AnyOf(s)}])
      BY <1>2
    <2>2. [s \in SUBSET S |-> IF s = {} THEN 0 ELSE f[AnyOf(s)] + g[s \ {AnyOf(s)}]] =
          [s \in SUBSET S |-> IF s = {} THEN 0 ELSE (AnyOf(s)[2] - AnyOf(s)[1]) + g[s \ {AnyOf(s)}]]
      BY <2>1, Zenon
    <2>. QED BY <2>2, Zenon DEF SumsTo, AnyOf
  <1>4. PICK g : SumsTo(g, S, f)
    BY <1>1, SumExists, Zenon
  <1>5. Sum(CHOOSE h : Sum(h))
    <2>. HIDE DEF Sum
    <2>1. \E h : Sum(h)
      BY <1>3, <1>4, Zenon
    <2>. QED BY <2>1, Zenon
  <1>6. Lengths(S) = (CHOOSE h : Sum(h))[S]
    BY Zenon DEF Lengths, MapThenSumSet, MapThenFoldSet
  <1>7. SumsTo(CHOOSE h : Sum(h), S, f)
    BY <1>3, <1>5, Zenon
  <1>. HIDE DEF Sum
  <1>. QED BY <1>6, <1>7, Zenon DEF f

(* Lengths add up, class by class, and are the units of intervals that     *)
(* have none in common.                                                    *)
LEMMA LengthsAre ==
  ASSUME NEW S, IsFiniteSet(S), S \subseteq Intervals, \A i \in S : i[1] < i[2]
  PROVE  /\ Lengths(S) \in Nat /\ (S # {} => Lengths(S) # 0)
         /\ (\A i, j \in S : i # j => Units(i) \cap Units(j) = {}) =>
              Lengths(S) = Cardinality(UNION {Units(i) : i \in S})
  <1>. DEFINE f == [i \in S |-> i[2] - i[1]]
              own == [i \in S |-> {i} \X Units(i)]
              units == [i \in S |-> Units(i)]
              all == UNION {own[i] : i \in S}
  <1>1. PICK g : SumsTo(g, S, f) /\ Lengths(S) = g[S]
    BY LengthsSum
  <1>2. \A i \in S : /\ IsFiniteSet(Units(i)) /\ Cardinality(Units(i)) = i[2] - i[1]
                     /\ i[1] \in Units(i)
    <2>. TAKE i \in S
    <2>1. i \in Intervals /\ i[1] <= i[2] /\ i[1] \in Int /\ i[1] < i[2]
      BY DEF Intervals
    <2>. QED BY <2>1, UnitsOf
  <1>3. f \in [S -> Int]
    BY DEF Intervals
  <1>4. ASSUME NEW i \in S PROVE IsFiniteSet(own[i]) /\ Cardinality(own[i]) = f[i]
    <2>1. IsFiniteSet({i}) /\ Cardinality({i}) = 1
      BY FS_Singleton
    <2>2. /\ IsFiniteSet({i} \X Units(i))
          /\ Cardinality({i} \X Units(i)) = Cardinality({i}) * Cardinality(Units(i))
      BY <1>2, <2>1, FS_Product
    <2>3. i[2] - i[1] \in Int
      BY DEF Intervals
    <2>. QED BY <1>2, <2>1, <2>2, <2>3
  <1>5. \A i, j \in S : i # j => own[i] \cap own[j] = {}
    OBVIOUS
  <1>6. S # {} => all # {}
    <2>1. ASSUME NEW i \in S PROVE <<i, i[1]>> \in all
      <3>1. <<i, i[1]>> \in {i} \X Units(i)
        BY <1>2
      <3>. QED BY <3>1
    <2>. QED BY <2>1
  <1>7. \A i \in S : units[i] = Units(i) /\ f[i] = i[2] - i[1]
    OBVIOUS
  <1>8. {units[i] : i \in S} = {Units(i) : i \in S}
    OBVIOUS
  <1>. HIDE DEF f, own, units
  <1>9. IsFiniteSet(all) /\ Lengths(S) = Cardinality(all) /\ Lengths(S) \in Nat
    <2>1. (\A i \in S : IsFiniteSet(own[i])) /\ \A i \in S : f[i] = Cardinality(own[i])
      BY <1>4
    <2>. HIDE DEF all
    <2>2. /\ IsFiniteSet(UNION {own[i] : i \in S}) /\ g[S] = Cardinality(UNION {own[i] : i \in S})
          /\ g[S] \in Nat
      BY <1>1, <1>3, <1>5, <2>1, SumOfPieces, Zenon
    <2>. QED BY <1>1, <2>2, Zenon DEF all
  <1>10. S # {} => Lengths(S) # 0
    BY <1>6, <1>9, FS_EmptySet
  <1>11. (\A i, j \in S : i # j => Units(i) \cap Units(j) = {}) =>
           Lengths(S) = Cardinality(UNION {units[i] : i \in S})
    <2>. SUFFICES ASSUME \A i, j \in S : i # j => Units(i) \cap Units(j) = {}
                  PROVE  Lengths(S) = Cardinality(UNION {units[i] : i \in S})
      OBVIOUS
    <2>1. (\A i \in S : IsFiniteSet(units[i])) /\ \A i \in S : f[i] = Cardinality(units[i])
      BY <1>2, <1>7
    <2>3. \A i, j \in S : i # j => units[i] \cap units[j] = {}
      BY <1>7
    <2>. HIDE DEF all
    <2>2. /\ IsFiniteSet(UNION {units[i] : i \in S}) /\ g[S] = Cardinality(UNION {units[i] : i \in S})
          /\ g[S] \in Nat
      BY <1>1, <1>3, <2>1, <2>3, SumOfPieces, Zenon
    <2>. QED BY <1>1, <2>2, Zenon
  <1>. QED BY <1>8, <1>9, <1>10, <1>11

-----------------------------------------------------------------------------
(* The hours a page shows.                                                 *)

LEMMA ListLength ==
  ASSUME NEW list, Apart(list)
  PROVE  Lengths(ToSet(list)) = Cardinality({u \in Int : In(list, u)})
  <1>. DEFINE S == ToSet(list)
  <1>1. /\ list \in Seq(Intervals) /\ DOMAIN list = 1..Len(list)
        /\ \A a \in 1..Len(list) : list[a] \in Intervals /\ list[a][1] < list[a][2]
        /\ \A a, b \in 1..Len(list) : a < b => list[a][2] < list[b][1]
    BY DEF Apart
  <1>2. S \subseteq Intervals /\ IsFiniteSet(S)
    BY <1>1, RowsOf
  <1>3. (\A i \in S : i[1] < i[2]) /\ \A u : Within(S, u) <=> In(list, u)
    BY ListedFacts
  <1>4. \A x : x \in S <=> \E a \in 1..Len(list) : list[a] = x
    BY <1>1, RowOf
  <1>. HIDE DEF S
  <1>5. ASSUME NEW i \in S PROVE \A u : u \in Units(i) <=> u \in Int /\ i[1] <= u /\ u < i[2]
    <2>1. i \in Intervals /\ i[1] <= i[2]
      BY <1>2, <1>3 DEF Intervals
    <2>. QED BY <2>1, UnitsOf
  <1>6. ASSUME NEW i \in S, NEW j \in S, i # j PROVE Units(i) \cap Units(j) = {}
    <2>1. PICK a \in 1..Len(list), b \in 1..Len(list) : list[a] = i /\ list[b] = j
      BY <1>4
    <2>2. a < b \/ b < a
      BY <1>6, <2>1
    <2>3. i[2] < j[1] \/ j[2] < i[1]
      BY <1>1, <2>1, <2>2
    <2>4. i[2] \in Int /\ j[1] \in Int /\ j[2] \in Int /\ i[1] \in Int
      BY <1>2 DEF Intervals
    <2>. QED BY <1>5, <2>3, <2>4
  <1>7. UNION {Units(i) : i \in S} = {u \in Int : In(list, u)}
    <2>1. \A u : u \in UNION {Units(i) : i \in S} <=> u \in Int /\ Within(S, u)
      BY <1>5 DEF Within
    <2>. QED BY <1>3, <2>1
  <1>8. Lengths(S) = Cardinality(UNION {Units(i) : i \in S})
    BY <1>2, <1>3, <1>6, LengthsAre
  <1>. QED BY <1>7, <1>8 DEF S

(* The classes of a trainer on whole days are within those days.           *)
LEMMA ClassesOnDays ==
  ASSUME CalTyped, NEW t \in Teachers, NEW a \in Int, NEW b \in Int,
         NEW i \in Teaching(t, {}, At(a, 0), At(b, 0))
  PROVE  At(a, 0) <= i[1] /\ i[2] <= At(b, 0)
  <1>. DEFINE lo == At(a, 0)
              hi == At(b, 0)
  <1>1. DayLength \in Nat \ {0}
    BY CalendarAssumption
  <1>2. lo = a * DayLength /\ hi = b * DayLength /\ lo \in Int /\ hi \in Int
    BY <1>1, Products DEF At
  <1>3. PICK c \in CoursesOf(t) : i \in Occurrences(c, lo, hi)
    BY DEF Teaching
  <1>4. c \in Courses /\ courses[c] \in Course
    BY <1>3 DEF CoursesOf, CalTyped, CalendarInOrder
  <1>5. IsClass(courses[c], i) /\ Meet(i, <<lo, hi>>)
    BY <1>2, <1>3, <1>4, OccurrencesAre, Zenon
  <1>. DEFINE d == DayOf(i[1])
  <1>6. /\ i[1] \in Int /\ i[2] \in Int /\ d \in Int /\ At(d, 0) \in Int
        /\ At(d, 0) <= i[1] /\ i[2] < At(d, 0) + DayLength
    BY <1>4, <1>5, ClassFacts
  <1>7. i[1] < hi /\ i[2] > lo
    BY <1>5 DEF Meet
  <1>. HIDE DEF d, lo, hi
  <1>8. At(d, 0) = d * DayLength
    BY <1>1, <1>6, Products DEF At
  <1>9. (d < a => d * DayLength + DayLength <= a * DayLength) /\ (a <= d => a * DayLength <= d * DayLength)
    BY <1>1, <1>6, Products
  <1>10. (d < b => d * DayLength + DayLength <= b * DayLength) /\ (b <= d => b * DayLength <= d * DayLength)
    BY <1>1, <1>6, Products
  <1>11. d * DayLength \in Int /\ a * DayLength \in Int /\ b * DayLength \in Int
    BY <1>1, <1>6, Products
  <1>12. lo <= i[1] /\ i[2] <= hi
    BY <1>1, <1>2, <1>6, <1>7, <1>8, <1>9, <1>10, <1>11
  <1>. QED BY <1>12 DEF lo, hi

LEMMA HoursByUnit ==
  ASSUME CalTyped, NEW t \in Teachers, NEW a \in Int, NEW b \in Int
  PROVE  HoursAreRight(t, At(a, 0)..At(b, 0) - 1, HoursShown(t, At(a, 0), At(b, 0)))
  <1>. DEFINE lo == At(a, 0)
              hi == At(b, 0)
              cal == calendars[t]
              days == lo..hi - 1
              T == Teaching(t, {}, lo, hi)
  <1>1. lo \in Int /\ hi \in Int
    BY CalendarAssumption, Products DEF At
  <1>2. /\ cal \in Rows
        /\ \A u : Declared(t, u) <=> RuleAt(cal, Offering, u) \/ EntryAt(cal, Offering, u)
        /\ \A u : Excused(t, u) <=> EntryAt(cal, Blocking, u)
        /\ \A u : PrefersAt(t, u) <=>
             /\ ~EntryAt(cal, Blocking, u)
             /\ RuleAt(cal, {"preferred"}, u) \/ EntryAt(cal, {"preferred"}, u)
    BY UnitFacts, Zenon
  <1>3. /\ T \subseteq Intervals /\ IsFiniteSet(T) /\ \A i \in T : i[1] < i[2]
        /\ \A u \in Int : lo <= u /\ u < hi =>
             (Within(T, u) <=> \E o \in Courses \ {} : TeachesAt(t, o, u))
    BY <1>1, TeachingFacts
  <1>4. \A i \in T : lo <= i[1] /\ i[2] <= hi
    BY ClassesOnDays
  <1>. HIDE DEF cal
  <1>5. /\ Apart(Bookable(cal, lo, hi))
        /\ \A u \in Int : In(Bookable(cal, lo, hi), u) <=>
             lo <= u /\ u < hi /\ Declared(t, u) /\ ~Excused(t, u)
    BY <1>1, <1>2, BookableIsRight, Zenon
  <1>6. /\ Apart(Preferred(cal, lo, hi))
        /\ \A u \in Int : In(Preferred(cal, lo, hi), u) <=> lo <= u /\ u < hi /\ PrefersAt(t, u)
    BY <1>1, <1>2, TimeOfKinds, Zenon DEF Preferred
  <1>7. /\ Apart(FreeTime(t, lo, hi))
        /\ \A u \in Int : In(FreeTime(t, lo, hi), u) <=> lo <= u /\ u < hi /\ FreeAt(t, u, {})
    BY <1>1, FreeTimeIs
  <1>. HIDE DEF T, lo, hi
  <1>8. Apart(Merge(T)) /\ \A u \in Int : In(Merge(T), u) <=> Within(T, u)
    BY <1>3, MergeIsRight
  <1>9. \A u \in Int : In(Merge(T), u) <=> lo <= u /\ u < hi /\ IsTaught(t, u)
    <2>. TAKE u \in Int
    <2>1. Within(T, u) => lo <= u /\ u < hi
      <3>1. ASSUME NEW i \in T, i[1] <= u, u < i[2] PROVE lo <= u /\ u < hi
        <4>1. i[1] \in Int /\ i[2] \in Int
          BY <1>3 DEF Intervals
        <4>. QED BY <1>1, <1>4, <3>1, <4>1
      <3>. QED BY <3>1 DEF Within
    <2>2. IsTaught(t, u) <=> \E o \in Courses \ {} : TeachesAt(t, o, u)
      BY DEF IsTaught
    <2>. QED BY <1>3, <1>8, <2>1, <2>2
  <1>11. Lengths(ToSet(Bookable(cal, lo, hi))) = Cardinality({u \in days : Declared(t, u) /\ ~Excused(t, u)})
    <2>1. {u \in Int : In(Bookable(cal, lo, hi), u)} = {u \in days : Declared(t, u) /\ ~Excused(t, u)}
      BY <1>1, <1>5
    <2>. QED BY <1>5, <2>1, ListLength
  <1>12. Lengths(ToSet(Preferred(cal, lo, hi))) = Cardinality({u \in days : PrefersAt(t, u)})
    <2>1. {u \in Int : In(Preferred(cal, lo, hi), u)} = {u \in days : PrefersAt(t, u)}
      BY <1>1, <1>6
    <2>. QED BY <1>6, <2>1, ListLength
  <1>13. Lengths(ToSet(FreeTime(t, lo, hi))) = Cardinality({u \in days : FreeAt(t, u, {})})
    <2>1. {u \in Int : In(FreeTime(t, lo, hi), u)} = {u \in days : FreeAt(t, u, {})}
      BY <1>1, <1>7
    <2>. QED BY <1>7, <2>1, ListLength
  <1>14. Lengths(ToSet(Merge(T))) = Cardinality({u \in days : IsTaught(t, u)})
    <2>1. {u \in Int : In(Merge(T), u)} = {u \in days : IsTaught(t, u)}
      BY <1>1, <1>9
    <2>. QED BY <1>8, <2>1, ListLength
  <1>15. /\ HoursShown(t, lo, hi).available = Lengths(ToSet(Bookable(cal, lo, hi)))
         /\ HoursShown(t, lo, hi).booked = Lengths(ToSet(Merge(T)))
         /\ HoursShown(t, lo, hi).free = Lengths(ToSet(FreeTime(t, lo, hi)))
         /\ HoursShown(t, lo, hi).preferred = Lengths(ToSet(Preferred(cal, lo, hi)))
    BY DEF HoursShown, T, cal
  <1>. QED BY <1>11, <1>12, <1>13, <1>14, <1>15, Zenon DEF HoursAreRight, lo, hi

LEMMA PagesByUnit ==
  ASSUME CalTyped, NEW t \in Teachers
  PROVE  PagesAreRight(t, Period[1], Period[2])
  <1>. DEFINE a == Today - (Today % WeekLength)
              b == a + WeekLength
  <1>1. a \in Int /\ b \in Int /\ a < b
    <2>1. Today \in Int /\ WeekLength \in Nat \ {0}
      BY ClockFacts, CalendarAssumption
    <2>2. Today % WeekLength \in 0..WeekLength - 1
      BY <2>1, Division
    <2>. QED BY <2>1, <2>2
  <1>2. Period[1] = At(a, 0) /\ Period[2] = At(b, 0)
    BY DEF Period
  <1>. HIDE DEF a, b
  <1>3. At(a, 0) \in Int /\ At(b, 0) \in Int /\ At(a, 0) < At(b, 0)
    <2>1. DayLength \in Nat \ {0}
      BY CalendarAssumption
    <2>2. a * DayLength \in Int /\ b * DayLength \in Int /\ a * DayLength + DayLength <= b * DayLength
      BY <1>1, <2>1, Products
    <2>. QED BY <2>1, <2>2 DEF At
  <1>4. SegmentsAreRight(t, At(a, 0)..At(b, 0) - 1, Segments(t, At(a, 0), At(b, 0)))
    BY <1>3, SegmentsByUnit
  <1>5. HoursAreRight(t, At(a, 0)..At(b, 0) - 1, HoursShown(t, At(a, 0), At(b, 0)))
    BY <1>1, HoursByUnit
  <1>6. \A u, v \in At(Today, 0)..At(Today, DayLength) - 1 :
          u <= v => StatusIsRight(t, u..v, SlotStatus(t, <<u, v + 1>>))
    <2>1. \A u, v \in Int : u <= v => StatusIsRight(t, u..v, SlotStatus(t, <<u, v + 1>>))
      BY StatusByUnit
    <2>2. At(Today, 0)..At(Today, DayLength) - 1 \subseteq Int
      OBVIOUS
    <2>. QED BY <2>1, <2>2, Zenon
  <1>. QED BY <1>2, <1>4, <1>5, <1>6, Zenon DEF PagesAreRight

(* In every state the pages of a trainer's week tell the truth: what they  *)
(* draw of each unit, the hours they total, and the status of every slot   *)
(* of today (core/scheduling_service.py:42-89,                             *)
(* api/routes_admin_trainer_scheduling.py:42-113).                         *)
THEOREM PagesShowTheCalendar ==
  CalSpec => [](\A t \in Teachers : PagesAreRight(t, Period[1], Period[2]))
  <1>1. CalTyped => \A t \in Teachers : PagesAreRight(t, Period[1], Period[2])
    BY PagesByUnit
  <1>. QED BY <1>1, CalendarTyped, PTL

-----------------------------------------------------------------------------
(* Sets in order, and who is recommended.                                  *)

(* A strict order in which any two elements of the set compare.            *)
IsOrder(order, S) ==
  /\ \A x \in S : <<x, x>> \notin order
  /\ \A x, y, z \in S : <<x, y>> \in order /\ <<y, z>> \in order => <<x, z>> \in order
  /\ \A x, y \in S : x # y => <<x, y>> \in order \/ <<y, x>> \in order
RankIn(x, S, order) == Cardinality({y \in S : <<y, x>> \in order})

LEMMA RankOf ==
  ASSUME NEW S, IsFiniteSet(S), NEW order, IsOrder(order, S), NEW x \in S
  PROVE  /\ RankIn(x, S, order) \in 0..Cardinality(S) - 1
         /\ \A y \in S : <<y, x>> \in order => RankIn(y, S, order) < RankIn(x, S, order)
  <1>. DEFINE below(z) == {y \in S : <<y, z>> \in order}
  <1>1. ASSUME NEW T \in SUBSET S, NEW z \in T, NEW U \in SUBSET T, z \notin U
        PROVE  Cardinality(U) \in 0..Cardinality(T) - 1
    <2>1. IsFiniteSet(T) /\ U \in SUBSET (T \ {z})
      BY <1>1, FS_Subset
    <2>2. IsFiniteSet(T \ {z}) /\ Cardinality(T \ {z}) = Cardinality(T) - 1
      BY <2>1, FS_RemoveElement
    <2>3. IsFiniteSet(U) /\ Cardinality(U) <= Cardinality(T \ {z})
      BY <2>1, <2>2, FS_Subset, Zenon
    <2>4. Cardinality(U) \in Nat /\ Cardinality(T) \in Nat
      BY <2>1, <2>3, FS_CardinalityType
    <2>. QED BY <2>2, <2>3, <2>4
  <1>2. below(x) \in SUBSET S /\ x \notin below(x)
    BY DEF IsOrder
  <1>3. Cardinality(below(x)) \in 0..Cardinality(S) - 1
    BY <1>1, <1>2
  <1>4. ASSUME NEW y \in S, <<y, x>> \in order
        PROVE  Cardinality(below(y)) < Cardinality(below(x))
    <2>1. y \in below(x) /\ y \notin below(y)
      BY <1>4 DEF IsOrder
    <2>2. below(y) \in SUBSET below(x)
      BY <1>4 DEF IsOrder
    <2>. HIDE DEF below
    <2>3. Cardinality(below(y)) \in 0..Cardinality(below(x)) - 1
      BY <1>1, <1>2, <2>1, <2>2, Zenon
    <2>4. Cardinality(below(x)) \in Int
      BY <1>3
    <2>. QED BY <2>3, <2>4
  <1>. QED BY <1>3, <1>4 DEF RankIn

(* Each place has one element, and each element a place.                   *)
LEMMA Places ==
  ASSUME NEW S, IsFiniteSet(S), NEW order, IsOrder(order, S)
  PROVE  /\ Cardinality(S) \in Nat
         /\ \A n \in 1..Cardinality(S) : \E x \in S : RankIn(x, S, order) = n - 1
  <1>. DEFINE N == Cardinality(S)
              f == [x \in S |-> RankIn(x, S, order) + 1]
  <1>1. N \in Nat
    BY FS_CardinalityType
  <1>2. \A x \in S : /\ RankIn(x, S, order) \in 0..N - 1
                     /\ \A y \in S : <<y, x>> \in order => RankIn(y, S, order) < RankIn(x, S, order)
    BY RankOf
  <1>. HIDE DEF N
  <1>3. f \in [S -> 1..N]
    BY <1>1, <1>2
  <1>4. \A x, y \in S : f[x] = f[y] => x = y
    <2>. SUFFICES ASSUME NEW x \in S, NEW y \in S, f[x] = f[y], x # y PROVE FALSE
      OBVIOUS
    <2>1. RankIn(x, S, order) = RankIn(y, S, order) /\ RankIn(x, S, order) \in Int
      BY <1>1, <1>2
    <2>2. <<x, y>> \in order \/ <<y, x>> \in order
      BY DEF IsOrder
    <2>. QED BY <1>2, <2>1, <2>2
  <1>5. f \in Injection(S, 1..N)
    <2>1. DOMAIN f = S
      OBVIOUS
    <2>2. IsInjective(f)
      BY <1>4, <2>1, Zenon DEF IsInjective
    <2>. HIDE DEF f
    <2>. QED BY <1>3, <2>2, Zenon DEF Injection
  <1>6. IsFiniteSet(1..N) /\ Cardinality(1..N) = N
    BY <1>1, FS_Interval
  <1>7. ASSUME NEW n \in 1..N PROVE \E x \in S : RankIn(x, S, order) = n - 1
    <2>1. PICK x \in S : f[x] = n
      <3>1. f \in Surjection(S, 1..N)
        BY <1>5, <1>6, FS_Injection, Zenon DEF N
      <3>. HIDE DEF f
      <3>. QED BY <3>1, Zenon DEF Surjection
    <2>2. RankIn(x, S, order) \in Int /\ RankIn(x, S, order) + 1 = n /\ n \in Int
      BY <1>1, <1>2, <2>1
    <2>. QED BY <2>2
  <1>. QED BY <1>1, <1>7 DEF N

LEMMA ListOf ==
  ASSUME NEW T, NEW n \in Nat, NEW s \in [1..n -> T]
  PROVE  s \in Seq(T) /\ Len(s) = n
  OBVIOUS

(* A list with the element of each rank at its place.                      *)
IsRanking(s, S, order) ==
  /\ s \in [1..Cardinality(S) -> S]
  /\ \A n \in 1..Cardinality(S) : RankIn(s[n], S, order) = n - 1

LEMMA RankingFacts ==
  ASSUME NEW S, IsFiniteSet(S), NEW order, IsOrder(order, S),
         NEW s, IsRanking(s, S, order)
  PROVE  /\ s \in Seq(S) /\ Len(s) = Cardinality(S) /\ ToSet(s) = S /\ IsInjective(s)
         /\ \A m, n \in DOMAIN s : m < n => <<s[m], s[n]>> \in order
  <1>. DEFINE N == Cardinality(S)
  <1>1. N \in Nat /\ DOMAIN s = 1..N /\ \A n \in 1..N : s[n] \in S /\ RankIn(s[n], S, order) = n - 1
    BY FS_CardinalityType DEF IsRanking
  <1>2. \A x \in S : /\ RankIn(x, S, order) \in 0..N - 1
                     /\ \A y \in S : <<y, x>> \in order => RankIn(y, S, order) < RankIn(x, S, order)
    BY RankOf
  <1>3. s \in [1..N -> S]
    BY DEF IsRanking
  <1>. HIDE DEF N
  <1>4. s \in Seq(S) /\ Len(s) = N
    <2>1. N \in Nat
      BY <1>1
    <2>. QED BY <1>3, <2>1, ListOf, Zenon
  <1>5. ASSUME NEW x \in S PROVE \E n \in 1..N : s[n] = x
    <2>. DEFINE n == RankIn(x, S, order) + 1
    <2>1. n \in 1..N /\ RankIn(x, S, order) \in Int
      BY <1>1, <1>2
    <2>2. RankIn(s[n], S, order) = n - 1 /\ s[n] \in S
      BY <1>1, <2>1
    <2>3. RankIn(s[n], S, order) = RankIn(x, S, order)
      BY <2>1, <2>2
    <2>. HIDE DEF n
    <2>4. s[n] = x
      <3>1. SUFFICES ASSUME s[n] # x PROVE FALSE
        OBVIOUS
      <3>2. <<s[n], x>> \in order \/ <<x, s[n]>> \in order
        BY <2>2, <3>1 DEF IsOrder
      <3>3. RankIn(s[n], S, order) < RankIn(x, S, order) \/ RankIn(x, S, order) < RankIn(s[n], S, order)
        BY <1>2, <2>2, <3>2, Zenon
      <3>. QED BY <2>1, <2>3, <3>3
    <2>. QED BY <2>1, <2>4
  <1>6. ToSet(s) = S
    <2>1. \A x : x \in ToSet(s) <=> \E n \in 1..N : s[n] = x
      BY <1>4, RowOf
    <2>. QED BY <1>1, <1>5, <2>1
  <1>7. IsInjective(s)
    <2>1. ASSUME NEW m \in 1..N, NEW n \in 1..N, s[m] = s[n] PROVE m = n
      <3>1. m \in Int /\ n \in Int
        BY <1>1
      <3>2. RankIn(s[m], S, order) = m - 1 /\ RankIn(s[n], S, order) = n - 1
        BY <1>1, Zenon
      <3>3. m - 1 = n - 1
        BY <2>1, <3>2, Zenon
      <3>. QED BY <3>1, <3>3
    <2>. QED BY <1>1, <2>1, Zenon DEF IsInjective
  <1>8. ASSUME NEW m \in 1..N, NEW n \in 1..N, m < n PROVE <<s[m], s[n]>> \in order
    <2>1. s[m] \in S /\ s[n] \in S /\ RankIn(s[m], S, order) = m - 1 /\ RankIn(s[n], S, order) = n - 1
      BY <1>1
    <2>2. m \in Int /\ n \in Int /\ m - 1 # n - 1 /\ ~(n - 1 < m - 1)
      BY <1>1, <1>8
    <2>3. s[m] # s[n]
      BY <2>1, <2>2
    <2>4. <<s[m], s[n]>> \in order \/ <<s[n], s[m]>> \in order
      BY <2>1, <2>3 DEF IsOrder
    <2>5. <<s[n], s[m]>> \in order => n - 1 < m - 1
      BY <1>2, <2>1
    <2>. QED BY <2>2, <2>4, <2>5
  <1>. QED BY <1>1, <1>4, <1>6, <1>7, <1>8 DEF N

-----------------------------------------------------------------------------
(* The windows that are offered.                                           *)

LEMMA NamesFacts ==
  ASSUME CalTyped
  PROVE  /\ IsFiniteSet(Teachers)
         /\ \A t \in Teachers : PlaceOf(t) \in Int
         /\ \A t, o \in Teachers : PlaceOf(t) = PlaceOf(o) => t = o
  <1>. DEFINE names == calPlan.names
  <1>1. names \in Seq(Teachers) /\ Teachers = ToSet(names)
    BY DEF CalTyped, PlanInOrder
  <1>2. IsFiniteSet(Teachers) /\ DOMAIN names = 1..Len(names) /\ Len(names) \in Nat
    BY <1>1, RowsOf
  <1>3. ASSUME NEW t \in Teachers PROVE PlaceOf(t) \in DOMAIN names /\ names[PlaceOf(t)] = t
    <2>1. \E n \in DOMAIN names : names[n] = t
      BY <1>1, <1>2, RowOf
    <2>. QED BY <2>1, Zenon DEF PlaceOf
  <1>4. ASSUME NEW t \in Teachers PROVE PlaceOf(t) \in Int
    BY <1>2, <1>3
  <1>5. ASSUME NEW t \in Teachers, NEW o \in Teachers, PlaceOf(t) = PlaceOf(o) PROVE t = o
    BY <1>3, <1>5, Zenon
  <1>. QED BY <1>2, <1>4, <1>5

LEMMA FreeFrom ==
  ASSUME CalTyped, NEW t \in Teachers
  PROVE  LET free == FreeTime(t, clock, At(Today + SearchDays, 0)) IN
         /\ Apart(free)
         /\ \A u \in Int : In(free, u) => clock <= u /\ FreeAt(t, u, {})
  <1>1. clock \in Int /\ Today \in Int /\ SearchDays \in Nat /\ 0 \in 0..DayLength - 1
    BY ClockFacts, CalendarAssumption
  <1>2. At(Today + SearchDays, 0) \in Int
    BY <1>1, UnitOfDay
  <1>. QED BY <1>1, <1>2, FreeTimeIs

(* A piece of free time: until midnight at most.                           *)
LEMMA FirstPieceFacts ==
  ASSUME NEW i \in Intervals, i[1] < i[2]
  PROVE  LET p == FirstPiece(i) IN
         /\ p = <<p[1], p[2]>> /\ p[1] = i[1] /\ p[2] \in Int /\ p[1] < p[2] /\ p[2] <= i[2]
         /\ p[2] = i[2] \/ p[2] % DayLength = 0
  <1>. DEFINE d == DayOf(i[1])
              midnight == At(d + 1, 0)
  <1>1. i[1] \in Int /\ i[2] \in Int
    BY DEF Intervals
  <1>2. d \in Int /\ DayLength \in Nat \ {0} /\ i[1] < At(d, 0) + DayLength /\ At(d, 0) \in Int
    BY <1>1, DayFacts
  <1>3. midnight \in Int /\ midnight % DayLength = 0
    <2>1. d + 1 \in Int /\ 0 \in 0..DayLength - 1
      BY <1>2
    <2>. HIDE DEF d
    <2>. QED BY <2>1, UnitOfDay
  <1>4. midnight = At(d, 0) + DayLength
    BY <1>2, Products DEF At
  <1>5. FirstPiece(i) = <<i[1], Sooner(i[2], midnight)>>
    BY DEF FirstPiece
  <1>. HIDE DEF midnight, d
  <1>. QED BY <1>1, <1>2, <1>3, <1>4, <1>5 DEF Sooner

(* What is offered of one trainer.                                         *)
IsOffer(t, duration, x) ==
  /\ x = <<t, x[2]>> /\ x[2] \in Intervals /\ x[2][1] < x[2][2] /\ clock <= x[2][1]
  /\ x[2][2] - x[2][1] >= duration \/ x[2][2] % DayLength = 0
  /\ \A u \in Units(x[2]) : FreeAt(t, u, {})

LEMMA OffersFacts ==
  ASSUME CalTyped, NEW t \in Teachers, NEW duration \in Int
  PROVE  /\ IsFiniteSet(OffersOf(t, duration))
         /\ \A x \in OffersOf(t, duration) : IsOffer(t, duration, x)
         /\ \A x, y \in OffersOf(t, duration) : x[2][1] = y[2][1] => x = y
  <1>. DEFINE free == FreeTime(t, clock, At(Today + SearchDays, 0))
              long == {k \in DOMAIN free : free[k][2] - free[k][1] >= duration}
              few == {n \in long : Cardinality({m \in long : m < n}) < PerTeacher}
              f == [k \in few |-> <<t, FirstPiece(free[k])>>]
  <1>1. Apart(free) /\ \A u \in Int : In(free, u) => clock <= u /\ FreeAt(t, u, {})
    BY FreeFrom
  <1>2. OffersOf(t, duration) = {f[k] : k \in few}
    BY Zenon DEF OffersOf
  <1>. HIDE DEF free
  <1>3. /\ DOMAIN free = 1..Len(free) /\ Len(free) \in Nat
        /\ \A k \in DOMAIN free : free[k] \in Intervals /\ free[k][1] < free[k][2]
        /\ \A a, b \in DOMAIN free : a < b => free[a][2] < free[b][1]
    BY <1>1 DEF Apart
  <1>4. few \subseteq DOMAIN free /\ \A k \in few : free[k][2] - free[k][1] >= duration
    OBVIOUS
  <1>. HIDE DEF few
  <1>5. IsFiniteSet({f[k] : k \in few})
    <2>1. IsFiniteSet(1..Len(free))
      BY <1>3, FS_Interval
    <2>2. IsFiniteSet(few)
      BY <1>3, <1>4, <2>1, FS_Subset
    <2>. HIDE DEF f
    <2>3. DOMAIN f = few
      BY DEF f
    <2>. QED BY <2>2, <2>3, Images
  <1>6. ASSUME NEW k \in few PROVE IsOffer(t, duration, f[k])
    <2>. DEFINE i == free[k]
                p == FirstPiece(i)
    <2>1. k \in DOMAIN free /\ i \in Intervals /\ i[1] < i[2] /\ i[2] - i[1] >= duration
      BY <1>3, <1>4
    <2>2. i[1] \in Int /\ i[2] \in Int
      BY <2>1 DEF Intervals
    <2>. HIDE DEF i
    <2>3. /\ p = <<p[1], p[2]>> /\ p[1] = i[1] /\ p[2] \in Int /\ p[1] < p[2] /\ p[2] <= i[2]
          /\ p[2] = i[2] \/ p[2] % DayLength = 0
      BY <2>1, FirstPieceFacts
    <2>4. f[k] = <<t, p>>
      BY DEF i
    <2>. HIDE DEF p, f
    <2>5. ASSUME NEW u \in Units(p) PROVE u \in Int /\ clock <= u /\ FreeAt(t, u, {})
      <3>1. u \in Int /\ i[1] <= u /\ u < i[2]
        BY <2>2, <2>3 DEF Units
      <3>2. In(free, u)
        BY <2>1, <3>1 DEF In, i
      <3>. QED BY <1>1, <3>1, <3>2
    <2>6. p \in Intervals
      BY <2>2, <2>3 DEF Intervals
    <2>7. p[1] \in Units(p) /\ p[1] \in Int
      BY <2>2, <2>3 DEF Units
    <2>8. clock <= p[1]
      BY <2>5, <2>7
    <2>9. p[2] - p[1] >= duration \/ p[2] % DayLength = 0
      BY <2>1, <2>2, <2>3
    <2>. HIDE DEF IsOffer
    <2>10. IsOffer(t, duration, <<t, p>>)
      BY <2>3, <2>5, <2>6, <2>8, <2>9 DEF IsOffer
    <2>. QED BY <2>4, <2>10
  <1>7. ASSUME NEW k \in few, NEW l \in few, f[k][2][1] = f[l][2][1] PROVE k = l
    <2>1. /\ free[k] \in Intervals /\ free[l] \in Intervals /\ k \in Int /\ l \in Int
          /\ free[k][1] < free[k][2] /\ free[l][1] < free[l][2]
          /\ k < l => free[k][2] < free[l][1]
          /\ l < k => free[l][2] < free[k][1]
      BY <1>3, <1>4
    <2>2. f[k][2][1] = free[k][1] /\ f[l][2][1] = free[l][1]
      BY DEF FirstPiece
    <2>. HIDE DEF f
    <2>3. free[k][1] \in Int /\ free[k][2] \in Int /\ free[l][1] \in Int /\ free[l][2] \in Int
      BY <2>1 DEF Intervals
    <2>4. free[k][1] = free[l][1]
      BY <1>7, <2>2, Zenon
    <2>5. ~(k < l) /\ ~(l < k)
      BY <2>1, <2>3, <2>4
    <2>. QED BY <2>1, <2>5
  <1>. HIDE DEF f
  <1>. QED BY <1>2, <1>5, <1>6, <1>7

LEMMA PartOf ==
  ASSUME NEW S, NEW s \in Seq(S), NEW n \in Nat
  PROVE  \A x \in ToSet(Firsts(s, n)) : x \in ToSet(s)
  <1>. DEFINE m == Sooner(n, Len(s))
              part == SubSeq(s, 1, m)
  <1>1. m \in Nat /\ m <= Len(s) /\ Len(s) \in Nat
    BY DEF Sooner
  <1>2. part = Firsts(s, n)
    BY DEF Firsts
  <1>. HIDE DEF m
  <1>3. /\ part \in Seq(S) /\ Len(part) = IF 1 <= m THEN m - 1 + 1 ELSE 0
        /\ \A i \in 1..m - 1 + 1 : part[i] = s[1 + i - 1]
    <2>1. \A i \in 1..m : s[i] \in S
      BY <1>1
    <2>. QED BY <1>1, <2>1, SubSeqProperties
  <1>4. Len(part) = m
    BY <1>1, <1>3
  <1>. HIDE DEF part
  <1>5. ASSUME NEW x \in ToSet(part) PROVE x \in ToSet(s)
    <2>1. PICK k \in 1..Len(part) : part[k] = x
      BY <1>3, RowOf
    <2>2. k \in 1..Len(s) /\ s[k] = x
      BY <1>1, <1>3, <1>4, <2>1
    <2>. QED BY <2>2, RowOf
  <1>. QED BY <1>2, <1>5

LEMMA PoolFacts ==
  ASSUME NEW c, NEW t \in Pool(c)
  PROVE  t \in Teachers /\ (Expert(t, c) \/ \A o \in Teachers : ~Expert(o, c))
  BY Zenon DEF Pool

(* They are listed in the order of the code.                               *)
LEMMA AlternativesFacts ==
  ASSUME CalTyped, NEW c, NEW duration \in Int
  PROVE  \A x \in ToSet(Alternatives(c, duration)) :
           \E t \in Pool(c) : IsOffer(t, duration, x)
  <1>. DEFINE S == UNION {OffersOf(t, duration) : t \in Pool(c)}
              order == {p \in S \X S :
                          \/ p[1][2][1] < p[2][2][1]
                          \/ p[1][2][1] = p[2][2][1] /\ PlaceOf(p[1][1]) < PlaceOf(p[2][1])}
              before(x) == {y \in S : \/ y[2][1] < x[2][1]
                                      \/ y[2][1] = x[2][1] /\ PlaceOf(y[1]) < PlaceOf(x[1])}
              s == [n \in 1..Cardinality(S) |-> CHOOSE x \in S : Cardinality(before(x)) = n - 1]
  <1>1. Alternatives(c, duration) = Firsts(s, OfferLimit)
    BY DEF Alternatives, InOrder
  <1>2. /\ IsFiniteSet(Teachers) /\ \A t \in Teachers : PlaceOf(t) \in Int
        /\ \A t, o \in Teachers : PlaceOf(t) = PlaceOf(o) => t = o
    BY NamesFacts
  <1>3. ASSUME NEW x \in S
        PROVE  \E t \in Pool(c) : t \in Teachers /\ x \in OffersOf(t, duration) /\ IsOffer(t, duration, x)
    <2>1. PICK t \in Pool(c) : x \in OffersOf(t, duration)
      OBVIOUS
    <2>. QED BY <2>1, PoolFacts, OffersFacts
  <1>4. IsFiniteSet(S)
    <2>. DEFINE f == [t \in Pool(c) |-> OffersOf(t, duration)]
                sets == {f[t] : t \in Pool(c)}
    <2>1. IsFiniteSet(Pool(c))
      BY <1>2, PoolFacts, FS_Subset
    <2>2. \A t \in Pool(c) : IsFiniteSet(f[t])
      BY PoolFacts, OffersFacts
    <2>3. S = UNION sets
      BY Zenon
    <2>. HIDE DEF f, S
    <2>4. DOMAIN f = Pool(c)
      BY DEF f
    <2>5. IsFiniteSet(sets)
      BY <2>1, <2>4, Images
    <2>. QED BY <2>2, <2>3, <2>5, FS_UNION
  <1>. HIDE DEF S
  <1>5. ASSUME NEW x \in S
        PROVE  x[2][1] \in Int /\ x[1] \in Teachers /\ PlaceOf(x[1]) \in Int
    <2>1. PICK t \in Pool(c) : t \in Teachers /\ IsOffer(t, duration, x)
      BY <1>3
    <2>2. x = <<t, x[2]>> /\ x[2] \in Intervals
      BY <2>1 DEF IsOffer
    <2>3. x[1] = t
      BY <2>2
    <2>. QED BY <1>2, <2>1, <2>2, <2>3 DEF Intervals
  <1>6. ASSUME NEW x \in S, NEW y \in S, x[2][1] = y[2][1], PlaceOf(x[1]) = PlaceOf(y[1])
        PROVE  x = y
    <2>1. PICK t \in Pool(c) : t \in Teachers /\ x \in OffersOf(t, duration) /\ IsOffer(t, duration, x)
      BY <1>3
    <2>2. PICK o \in Pool(c) : o \in Teachers /\ y \in OffersOf(o, duration) /\ IsOffer(o, duration, y)
      BY <1>3
    <2>3. x = <<t, x[2]>> /\ y = <<o, y[2]>>
      BY <2>1, <2>2 DEF IsOffer
    <2>4. x[1] = t /\ y[1] = o
      BY <2>3
    <2>5. t = o
      BY <1>2, <1>6, <2>1, <2>2, <2>4
    <2>. QED BY <1>6, <2>1, <2>2, <2>5, OffersFacts
  <1>7. \A x, y \in S : <<x, y>> \in order <=>
          \/ x[2][1] < y[2][1]
          \/ x[2][1] = y[2][1] /\ PlaceOf(x[1]) < PlaceOf(y[1])
    OBVIOUS
  <1>. HIDE DEF order
  <1>8. IsOrder(order, S)
    <2>1. \A x \in S : <<x, x>> \notin order
      BY <1>5, <1>7
    <2>2. ASSUME NEW x \in S, NEW y \in S, NEW z \in S, <<x, y>> \in order, <<y, z>> \in order
          PROVE  <<x, z>> \in order
      <3>. DEFINE less(a, b) == \/ a[2][1] < b[2][1]
                                \/ a[2][1] = b[2][1] /\ PlaceOf(a[1]) < PlaceOf(b[1])
      <3>1. less(x, y) /\ less(y, z)
        BY <1>7, <2>2
      <3>2. /\ x[2][1] \in Int /\ y[2][1] \in Int /\ z[2][1] \in Int
            /\ PlaceOf(x[1]) \in Int /\ PlaceOf(y[1]) \in Int /\ PlaceOf(z[1]) \in Int
        BY <1>5
      <3>3. less(x, z)
        BY <3>1, <3>2
      <3>. QED BY <1>7, <3>3
    <2>3. ASSUME NEW x \in S, NEW y \in S, x # y PROVE <<x, y>> \in order \/ <<y, x>> \in order
      <3>1. /\ x[2][1] \in Int /\ y[2][1] \in Int /\ PlaceOf(x[1]) \in Int /\ PlaceOf(y[1]) \in Int
        BY <1>5
      <3>2. x[2][1] # y[2][1] \/ PlaceOf(x[1]) # PlaceOf(y[1])
        BY <1>6, <2>3
      <3>. QED BY <1>7, <3>1, <3>2
    <2>. QED BY <2>1, <2>2, <2>3, Zenon DEF IsOrder
  <1>9. \A x \in S : Cardinality(before(x)) = RankIn(x, S, order)
    <2>. TAKE x \in S
    <2>1. before(x) = {y \in S : <<y, x>> \in order}
      BY <1>7
    <2>. QED BY <2>1, Zenon DEF RankIn
  <1>. HIDE DEF before
  <1>10. IsRanking(s, S, order)
    <2>1. ASSUME NEW n \in 1..Cardinality(S)
          PROVE  s[n] \in S /\ RankIn(s[n], S, order) = n - 1
      <3>1. \E x \in S : Cardinality(before(x)) = n - 1
        BY <1>4, <1>8, <1>9, Places
      <3>2. s[n] = CHOOSE x \in S : Cardinality(before(x)) = n - 1
        BY Zenon
      <3>. HIDE DEF s
      <3>3. s[n] \in S /\ Cardinality(before(s[n])) = n - 1
        BY <3>1, <3>2, Zenon
      <3>. QED BY <1>9, <3>3
    <2>2. s = [n \in 1..Cardinality(S) |-> s[n]]
      OBVIOUS
    <2>. HIDE DEF s
    <2>. QED BY <2>1, <2>2 DEF IsRanking
  <1>. HIDE DEF s
  <1>11. s \in Seq(S) /\ ToSet(s) = S
    BY <1>4, <1>8, <1>10, RankingFacts, Zenon
  <1>12. OfferLimit \in Nat
    BY CalendarAssumption
  <1>. QED BY <1>1, <1>3, <1>11, <1>12, PartOf, Zenon

LEMMA OffersByUnit ==
  ASSUME CalTyped, NEW c \in Courses
  PROVE  OffersAreRight(c, Recommend(c))
  <1>. DEFINE ranked == Ranked(courses[c].teacher, Suitable(c), Points(c))
              duration == courses[c].end - courses[c].start
              advice == Recommend(c)
  <1>1. /\ advice.suitable = ranked
        /\ advice.alternatives = IF ranked # <<>> THEN <<>> ELSE Alternatives(c, duration)
    BY DEF Recommend, Advice
  <1>2. duration \in Int
    <2>1. courses[c].start \in Times /\ courses[c].end \in Times
      BY CourseFacts DEF CalTyped, CalendarInOrder
    <2>. QED BY <2>1, CalendarAssumption DEF Times
  <1>. HIDE DEF advice, ranked, duration
  <1>3. ASSUME NEW x \in ToSet(advice.alternatives)
        PROVE  /\ Expert(x[1], c) \/ \A o \in Teachers : ~Expert(o, c)
               /\ clock <= x[2][1] /\ x[2][1] < x[2][2]
               /\ x[2][2] - x[2][1] >= duration \/ x[2][2] % DayLength = 0
               /\ \A u \in Units(x[2]) : FreeAt(x[1], u, {})
    <2>1. ranked = <<>>
      <3>1. SUFFICES ASSUME ranked # <<>> PROVE FALSE
        OBVIOUS
      <3>2. ToSet(<<>>) = {}
        BY DEF ToSet
      <3>. QED BY <1>1, <1>3, <3>1, <3>2
    <2>2. PICK t \in Pool(c) : IsOffer(t, duration, x)
      BY <1>1, <1>2, <1>3, <2>1, AlternativesFacts
    <2>3. x[1] = t
      <3>1. x = <<t, x[2]>>
        BY <2>2 DEF IsOffer
      <3>. QED BY <3>1
    <2>. QED BY <2>2, <2>3, PoolFacts, Zenon DEF IsOffer
  <1>. QED BY <1>1, <1>3, Zenon DEF OffersAreRight, advice, duration

-----------------------------------------------------------------------------
(* What the points of a trainer are made of.                               *)

LEMMA SumTyped ==
  ASSUME NEW S, IsFiniteSet(S), NEW f \in [S -> Int], NEW g, SumsTo(g, S, f)
  PROVE  g[S] \in Int
  <1>1. PICK h \in [SUBSET S -> Int] : SumsTo(h, S, f)
    BY SumExists
  <1>2. AddsUp(h, S, f)
    <2>1. \A s \in SUBSET S : h[s] = IF s = {} THEN 0 ELSE f[AnyOf(s)] + h[s \ {AnyOf(s)}]
      BY <1>1, Zenon DEF SumsTo
    <2>. QED BY <2>1, Zenon DEF AddsUp
  <1>3. g[S] = h[S]
    BY <1>2, SumIs, Zenon
  <1>. QED BY <1>1, <1>3

LEMMA HoursTyped ==
  ASSUME NEW S, IsFiniteSet(S), S \subseteq Intervals, \A i \in S : i[1] < i[2], NEW w
  PROVE  Hours(S, w) \in Nat
  <1>. DEFINE T == {i \in S : DayOf(i[1]) \div WeekLength = w}
  <1>1. IsFiniteSet(T) /\ T \subseteq Intervals /\ \A i \in T : i[1] < i[2]
    BY FS_Subset
  <1>. HIDE DEF T
  <1>2. Lengths(T) \in Nat
    BY <1>1, LengthsAre
  <1>. QED BY <1>2, Zenon DEF Hours, T

LEMMA HoursOfTyped ==
  ASSUME CalTyped, NEW t, NEW without, NEW lo \in Int, NEW hi \in Int, NEW w
  PROVE  HoursOf(t, without, lo, hi, w) \in Int
  <1>. DEFINE S == CoursesOf(t) \ without
              f == [o \in S |-> Hours(Occurrences(o, lo, hi), w)]
              Sum(g) == g = [s \in SUBSET S |->
                               IF s = {} THEN 0
                               ELSE Hours(Occurrences(CHOOSE x \in s : TRUE, lo, hi), w)
                                      + g[s \ {CHOOSE x \in s : TRUE}]]
  <1>1. IsFiniteSet(S) /\ \A o \in S : courses[o] \in Course
    <2>1. S \in SUBSET Courses /\ IsFiniteSet(Courses) /\ \A o \in Courses : courses[o] \in Course
      BY DEF CoursesOf, CalTyped, PlanInOrder, CalendarInOrder
    <2>. QED BY <2>1, FS_Subset
  <1>. HIDE DEF S
  <1>2. f \in [S -> Int]
    <2>1. ASSUME NEW o \in S PROVE Hours(Occurrences(o, lo, hi), w) \in Nat
      <3>. DEFINE T == Occurrences(o, lo, hi)
      <3>1. courses[o] \in Course
        BY <1>1
      <3>2. IsFiniteSet(T) /\ \A i \in T : IsClass(courses[o], i)
        BY <3>1, OccurrencesAre
      <3>3. T \subseteq Intervals /\ \A i \in T : i[1] < i[2]
        BY <3>2 DEF IsClass
      <3>. HIDE DEF T
      <3>4. Hours(T, w) \in Nat
        BY <3>2, <3>3, HoursTyped
      <3>. QED BY <3>4 DEF T
    <2>. QED BY <2>1
  <1>3. \A s \in SUBSET S : s # {} => f[AnyOf(s)] = Hours(Occurrences(AnyOf(s), lo, hi), w)
    BY <1>1, AnyOne
  <1>. HIDE DEF f
  <1>4. ASSUME NEW g PROVE SumsTo(g, S, f) <=> Sum(g)
    <2>1. \A s \in SUBSET S :
            (IF s = {} THEN 0 ELSE f[AnyOf(s)] + g[s \ {AnyOf(s)}]) =
            (IF s = {} THEN 0 ELSE Hours(Occurrences(AnyOf(s), lo, hi), w) + g[s \ {AnyOf(s)}])
      BY <1>3
    <2>2. [s \in SUBSET S |-> IF s = {} THEN 0 ELSE f[AnyOf(s)] + g[s \ {AnyOf(s)}]] =
          [s \in SUBSET S |->
             IF s = {} THEN 0 ELSE Hours(Occurrences(AnyOf(s), lo, hi), w) + g[s \ {AnyOf(s)}]]
      BY <2>1, Zenon
    <2>. QED BY <2>2, Zenon DEF SumsTo, AnyOf
  <1>5. PICK g : SumsTo(g, S, f)
    BY <1>1, <1>2, SumExists, Zenon
  <1>6. Sum(CHOOSE h : Sum(h))
    <2>. HIDE DEF Sum
    <2>1. \E h : Sum(h)
      BY <1>4, <1>5, Zenon
    <2>. QED BY <2>1, Zenon
  <1>7. HoursOf(t, without, lo, hi, w) = (CHOOSE h : Sum(h))[S]
    BY Zenon DEF HoursOf, MapThenSumSet, MapThenFoldSet, S
  <1>8. SumsTo(CHOOSE h : Sum(h), S, f)
    BY <1>4, <1>6, Zenon
  <1>. HIDE DEF Sum
  <1>9. (CHOOSE h : Sum(h))[S] \in Int
    BY <1>1, <1>2, <1>8, SumTyped, Zenon
  <1>. QED BY <1>7, <1>9

(* Rounding keeps the order, and a whole more rounds to one more.          *)
LEMMA RoundedFacts ==
  ASSUME NEW m \in Int, NEW n \in Int, NEW d \in Nat \ {0}
  PROVE  /\ Rounded(m, d) \in Int
         /\ m <= n => Rounded(m, d) <= Rounded(n, d)
         /\ m + d <= n => Rounded(m, d) + 1 <= Rounded(n, d)
  <1>. DEFINE L == 2 * d
              p == Rounded(m, d)
              q == Rounded(n, d)
  <1>1. L \in Nat \ {0} /\ 2 * m + d \in Int /\ 2 * n + d \in Int /\ L = d + d
    OBVIOUS
  <1>2. p = (2 * m + d) \div L /\ q = (2 * n + d) \div L
    BY DEF Rounded
  <1>. HIDE DEF L, p, q
  <1>3. /\ p \in Int /\ q \in Int /\ p * L \in Int /\ q * L \in Int
        /\ p * L <= 2 * m + d /\ 2 * m + d < p * L + L
        /\ q * L <= 2 * n + d /\ 2 * n + d < q * L + L
    <2>1. \A u \in Int : /\ u \div L \in Int /\ (u \div L) * L <= u /\ u < (u \div L) * L + L
                         /\ (u \div L) * L \in Int
      <3>. TAKE u \in Int
      <3>1. u \div L \in Int /\ u % L \in 0..L - 1 /\ u = L * (u \div L) + (u % L)
        BY <1>1, Division
      <3>. DEFINE k == u \div L
                  r == u % L
      <3>. HIDE DEF k, r
      <3>2. k \in Int /\ r \in 0..L - 1 /\ u = L * k + r
        BY <3>1 DEF k, r
      <3>3. L * k = k * L /\ k * L \in Int
        BY <1>1, <3>2
      <3>4. k * L <= u /\ u < k * L + L
        BY <1>1, <3>2, <3>3
      <3>. QED BY <3>2, <3>3, <3>4 DEF k
    <2>. QED BY <1>1, <1>2, <2>1
  <1>4. ASSUME m <= n PROVE p <= q
    <2>1. SUFFICES ASSUME q < p PROVE FALSE
      BY <1>3
    <2>2. q * L + L <= p * L
      BY <1>1, <1>3, <2>1, Products
    <2>. QED BY <1>1, <1>3, <1>4, <2>2
  <1>5. ASSUME m + d <= n PROVE p + 1 <= q
    <2>1. SUFFICES ASSUME q <= p PROVE FALSE
      BY <1>3
    <2>2. q * L <= p * L
      BY <1>1, <1>3, <2>1, Products
    <2>. QED BY <1>1, <1>3, <1>5, <2>2
  <1>. QED BY <1>3, <1>4, <1>5 DEF p, q

(* How much of a list of intervals lies in an interval.                    *)
LEMMA ClippedLength ==
  ASSUME NEW list, Apart(list), NEW lo \in Int, NEW hi \in Int, lo < hi
  PROVE  /\ Lengths(Clip(ToSet(list), lo, hi)) =
              Cardinality({u \in lo..hi - 1 : In(list, u)})
         /\ IsFiniteSet({u \in lo..hi - 1 : In(list, u)})
  <1>. DEFINE S == ToSet(list)
              C == Clip(S, lo, hi)
  <1>1. /\ list \in Seq(Intervals) /\ DOMAIN list = 1..Len(list)
        /\ \A a \in 1..Len(list) : list[a] \in Intervals /\ list[a][1] < list[a][2]
        /\ \A a, b \in 1..Len(list) : a < b => list[a][2] < list[b][1]
    BY DEF Apart
  <1>2. S \subseteq Intervals /\ IsFiniteSet(S)
    BY <1>1, RowsOf
  <1>3. (\A i \in S : i[1] < i[2]) /\ \A u : Within(S, u) <=> In(list, u)
    BY ListedFacts
  <1>4. \A x : x \in S <=> \E a \in 1..Len(list) : list[a] = x
    BY <1>1, RowOf
  <1>. HIDE DEF S
  <1>5. ASSUME NEW i \in S, NEW j \in S, i # j PROVE i[2] < j[1] \/ j[2] < i[1]
    <2>1. PICK a \in 1..Len(list), b \in 1..Len(list) : list[a] = i /\ list[b] = j
      BY <1>4
    <2>2. a < b \/ b < a
      BY <1>5, <2>1
    <2>. QED BY <1>1, <2>1, <2>2
  <1>6. /\ C \subseteq Intervals /\ IsFiniteSet(C)
        /\ \A u \in Int : Within(C, u) <=> Within(S, u) /\ lo <= u /\ u < hi
    BY <1>2, ClipFacts
  <1>7. \A i \in C : i[1] < i[2]
    BY <1>2, <1>3, ClippedFacts
  <1>8. ASSUME NEW x \in C, NEW y \in C, x # y PROVE Units(x) \cap Units(y) = {}
    <2>1. PICK i \in S : x = <<Later(i[1], lo), Sooner(i[2], hi)>>
      BY DEF Clip
    <2>2. PICK j \in S : y = <<Later(j[1], lo), Sooner(j[2], hi)>>
      BY DEF Clip
    <2>3. i[2] < j[1] \/ j[2] < i[1]
      BY <1>5, <1>8, <2>1, <2>2
    <2>4. i[1] \in Int /\ i[2] \in Int /\ j[1] \in Int /\ j[2] \in Int
      BY <1>2 DEF Intervals
    <2>5. /\ x[1] = Later(i[1], lo) /\ x[2] = Sooner(i[2], hi)
          /\ y[1] = Later(j[1], lo) /\ y[2] = Sooner(j[2], hi)
      BY <2>1, <2>2
    <2>6. x[2] < y[1] \/ y[2] < x[1]
      BY <2>3, <2>4, <2>5 DEF Later, Sooner
    <2>7. x \in Intervals /\ y \in Intervals /\ x[1] <= x[2] /\ y[1] <= y[2]
      BY <1>6, <1>7 DEF Intervals
    <2>8. /\ \A u : u \in Units(x) <=> u \in Int /\ x[1] <= u /\ u < x[2]
          /\ \A u : u \in Units(y) <=> u \in Int /\ y[1] <= u /\ u < y[2]
      BY <2>7, UnitsOf
    <2>9. x[1] \in Int /\ x[2] \in Int /\ y[1] \in Int /\ y[2] \in Int
      BY <2>7 DEF Intervals
    <2>. QED BY <2>6, <2>8, <2>9
  <1>. HIDE DEF C
  <1>9. UNION {Units(i) : i \in C} = {u \in lo..hi - 1 : In(list, u)}
    <2>1. ASSUME NEW i \in C PROVE \A u : u \in Units(i) <=> u \in Int /\ i[1] <= u /\ u < i[2]
      <3>1. i \in Intervals /\ i[1] <= i[2]
        BY <1>6, <1>7 DEF Intervals
      <3>. QED BY <3>1, UnitsOf
    <2>2. \A u : u \in UNION {Units(i) : i \in C} <=> u \in Int /\ Within(C, u)
      BY <2>1 DEF Within
    <2>3. \A u : u \in lo..hi - 1 <=> u \in Int /\ lo <= u /\ u < hi
      OBVIOUS
    <2>. QED BY <1>3, <1>6, <2>2, <2>3
  <1>10. Lengths(C) = Cardinality(UNION {Units(i) : i \in C})
    BY <1>6, <1>7, <1>8, LengthsAre
  <1>11. IsFiniteSet({u \in lo..hi - 1 : In(list, u)})
    <2>1. IsFiniteSet(lo..hi - 1)
      BY FS_Interval
    <2>. QED BY <2>1, FS_Subset
  <1>. QED BY <1>9, <1>10, <1>11 DEF C, S

(* The preferred units of the classes still to teach.                      *)
Liked(required, t) ==
  UNION {{i} \X {u \in Units(i) : PrefersAt(t, u)} : i \in required}

LEMMA PreferredRatioIs ==
  ASSUME CalTyped, NEW c \in Courses, NEW t \in Teachers, StillToTeach(c) # {}
  PROVE  LET required == StillToTeach(c)
             preferred == ToSet(Preferred(calendars[t], StartOf(required), EndOf(required)))
         IN /\ PreferredRatio(preferred, required) =
                 Rounded(1000 * Cardinality(Liked(required, t)), Lengths(required))
            /\ Cardinality(Liked(required, t)) \in Nat /\ Lengths(required) \in Nat \ {0}
  <1>. DEFINE S == StillToTeach(c)
              lo == StartOf(S)
              hi == EndOf(S)
              list == Preferred(calendars[t], lo, hi)
              P == ToSet(list)
              f == [i \in S |-> Lengths(Clip(P, i[1], i[2]))]
              own == [i \in S |-> {i} \X {u \in Units(i) : PrefersAt(t, u)}]
              Sum(g) == g = [s \in SUBSET S |->
                               IF s = {} THEN 0
                               ELSE Lengths(Clip(P, (CHOOSE x \in s : TRUE)[1],
                                                    (CHOOSE x \in s : TRUE)[2]))
                                      + g[s \ {CHOOSE x \in s : TRUE}]]
  <1>1. /\ S # {} /\ IsFiniteSet(S) /\ lo \in Int /\ hi \in Int /\ S \subseteq Intervals
        /\ \A i \in S : i[1] < i[2] /\ lo <= i[1] /\ i[2] <= hi
    BY RequiredFacts, StillToTeachAre
  <1>. HIDE DEF S, lo, hi
  <1>2. /\ Apart(list)
        /\ \A u \in Int : In(list, u) <=> lo <= u /\ u < hi /\ PrefersAt(t, u)
    BY <1>1, UnitFacts, TimeOfKinds, Zenon DEF Preferred
  <1>. HIDE DEF list
  <1>3. ASSUME NEW i \in S
        PROVE  /\ f[i] = Cardinality({u \in Units(i) : PrefersAt(t, u)})
               /\ IsFiniteSet({u \in Units(i) : PrefersAt(t, u)})
    <2>1. i[1] \in Int /\ i[2] \in Int /\ i[1] < i[2] /\ lo <= i[1] /\ i[2] <= hi
      BY <1>1 DEF Intervals
    <2>2. /\ Lengths(Clip(P, i[1], i[2])) = Cardinality({u \in i[1]..i[2] - 1 : In(list, u)})
          /\ IsFiniteSet({u \in i[1]..i[2] - 1 : In(list, u)})
      BY <1>2, <2>1, ClippedLength
    <2>3. {u \in i[1]..i[2] - 1 : In(list, u)} = {u \in Units(i) : PrefersAt(t, u)}
      <3>1. \A u \in i[1]..i[2] - 1 : In(list, u) <=> PrefersAt(t, u)
        BY <1>1, <1>2, <2>1
      <3>. QED BY <3>1, Zenon DEF Units
    <2>4. f[i] = Lengths(Clip(P, i[1], i[2]))
      OBVIOUS
    <2>. QED BY <2>2, <2>3, <2>4, Zenon
  <1>4. \A s \in SUBSET S : s # {} => f[AnyOf(s)] = Lengths(Clip(P, AnyOf(s)[1], AnyOf(s)[2]))
    BY <1>1, AnyOne
  <1>5. f \in [S -> Int]
    <2>1. ASSUME NEW i \in S PROVE f[i] \in Int
      <3>. DEFINE U == {u \in Units(i) : PrefersAt(t, u)}
      <3>1. f[i] = Cardinality(U) /\ IsFiniteSet(U)
        BY <1>3
      <3>. HIDE DEF U, f
      <3>2. Cardinality(U) \in Nat
        BY <3>1, FS_CardinalityType
      <3>. QED BY <3>1, <3>2
    <2>2. f = [i \in S |-> f[i]]
      OBVIOUS
    <2>. HIDE DEF f
    <2>. QED BY <2>1, <2>2
  <1>6. ASSUME NEW i \in S PROVE IsFiniteSet(own[i]) /\ Cardinality(own[i]) = f[i]
    <2>. DEFINE U == {u \in Units(i) : PrefersAt(t, u)}
    <2>1. IsFiniteSet({i}) /\ Cardinality({i}) = 1
      BY FS_Singleton
    <2>2. IsFiniteSet(U) /\ f[i] = Cardinality(U) /\ Cardinality(U) \in Nat
      BY <1>3, FS_CardinalityType
    <2>3. own[i] = {i} \X U
      OBVIOUS
    <2>. HIDE DEF U, f, own
    <2>4. IsFiniteSet({i} \X U) /\ Cardinality({i} \X U) = Cardinality({i}) * Cardinality(U)
      BY <2>1, <2>2, FS_Product
    <2>. QED BY <2>1, <2>2, <2>3, <2>4
  <1>7. \A i, j \in S : i # j => own[i] \cap own[j] = {}
    OBVIOUS
  <1>8. UNION {own[i] : i \in S} = Liked(S, t)
    BY DEF Liked
  <1>. HIDE DEF f, own, P
  <1>9. ASSUME NEW g PROVE SumsTo(g, S, f) <=> Sum(g)
    <2>1. \A s \in SUBSET S :
            (IF s = {} THEN 0 ELSE f[AnyOf(s)] + g[s \ {AnyOf(s)}]) =
            (IF s = {} THEN 0 ELSE Lengths(Clip(P, AnyOf(s)[1], AnyOf(s)[2])) + g[s \ {AnyOf(s)}])
      BY <1>4
    <2>2. [s \in SUBSET S |-> IF s = {} THEN 0 ELSE f[AnyOf(s)] + g[s \ {AnyOf(s)}]] =
          [s \in SUBSET S |->
             IF s = {} THEN 0 ELSE Lengths(Clip(P, AnyOf(s)[1], AnyOf(s)[2])) + g[s \ {AnyOf(s)}]]
      BY <2>1, Zenon
    <2>. QED BY <2>2, Zenon DEF SumsTo, AnyOf
  <1>10. PICK g : SumsTo(g, S, f)
    BY <1>1, <1>5, SumExists, Zenon
  <1>11. Sum(CHOOSE h : Sum(h))
    <2>. HIDE DEF Sum
    <2>1. \E h : Sum(h)
      BY <1>9, <1>10, Zenon
    <2>. QED BY <2>1, Zenon
  <1>12. SumsTo(CHOOSE h : Sum(h), S, f)
    BY <1>9, <1>11, Zenon
  <1>13. PreferredRatio(P, S) = Rounded(1000 * (CHOOSE h : Sum(h))[S], Lengths(S))
    BY Zenon DEF PreferredRatio, MapThenSumSet, MapThenFoldSet
  <1>. HIDE DEF Sum
  <1>14. /\ (CHOOSE h : Sum(h))[S] = Cardinality(Liked(S, t))
         /\ Cardinality(Liked(S, t)) \in Nat
    <2>1. (\A i \in S : IsFiniteSet(own[i])) /\ \A i \in S : f[i] = Cardinality(own[i])
      BY <1>6
    <2>. DEFINE s == CHOOSE h : Sum(h)
    <2>. HIDE DEF s
    <2>2. SumsTo(s, S, f)
      BY <1>12 DEF s
    <2>3. /\ IsFiniteSet(UNION {own[i] : i \in S}) /\ s[S] = Cardinality(UNION {own[i] : i \in S})
          /\ s[S] \in Nat
      BY <1>1, <1>5, <1>7, <2>1, <2>2, SumOfPieces, Zenon
    <2>. QED BY <1>8, <2>3 DEF s
  <1>15. Lengths(S) \in Nat \ {0}
    BY <1>1, LengthsAre
  <1>16. PreferredRatio(P, S) = Rounded(1000 * Cardinality(Liked(S, t)), Lengths(S))
    <2>. DEFINE k == (CHOOSE h : Sum(h))[S]
    <2>1. PreferredRatio(P, S) = Rounded(1000 * k, Lengths(S)) /\ k = Cardinality(Liked(S, t))
      BY <1>13, <1>14
    <2>. HIDE DEF k
    <2>. QED BY <2>1
  <1>. QED BY <1>14, <1>15, <1>16, Zenon DEF S, P, list, lo, hi

(* The fullest week, which the limit holds for who is suitable.            *)
LEMMA PeakFacts ==
  ASSUME CalTyped, NEW c \in Courses, NEW t \in Teachers
  PROVE  /\ PeakWeek(c, t, StillToTeach(c)) \in Nat
         /\ ConflictsOf(c, t) = {} => PeakWeek(c, t, StillToTeach(c)) <= MaxWeekly
  <1>. DEFINE S == StillToTeach(c)
              lo == StartOf(S)
              hi == EndOf(S)
              load(w) == HoursOf(t, {c}, lo, hi, w) + Hours(S, w)
              f == [w \in Weeks(S) |-> load(w)]
              loads == {0} \cup {f[w] : w \in Weeks(S)}
  <1>1. PeakWeek(c, t, S) = Max(loads)
    <2>1. {f[w] : w \in Weeks(S)} = {load(w) : w \in Weeks(S)}
      OBVIOUS
    <2>2. PeakWeek(c, t, S) = Max({0} \cup {load(w) : w \in Weeks(S)})
      BY Zenon DEF PeakWeek
    <2>. QED BY <2>1, <2>2, Zenon
  <1>2. MaxWeekly \in Int /\ 0 <= MaxWeekly
    BY CalendarAssumption
  <1>3. CASE S = {}
    <2>1. Weeks(S) = {}
      BY <1>3 DEF Weeks
    <2>2. loads = {0}
      BY <2>1
    <2>. HIDE DEF loads
    <2>3. IsFiniteSet({0})
      BY FS_Singleton
    <2>4. Max({0}) \in {0}
      <3>1. {0} \subseteq Int /\ {0} # {}
        OBVIOUS
      <3>. QED BY <2>3, <3>1, Extremes, Zenon
    <2>. QED BY <1>1, <1>2, <2>2, <2>4
  <1>4. CASE S # {}
    <2>1. /\ IsFiniteSet(S) /\ lo \in Int /\ hi \in Int /\ S \subseteq Intervals
          /\ \A i \in S : i[1] < i[2]
      BY <1>4, RequiredFacts, StillToTeachAre
    <2>2. ConflictsOf(c, t) = Conflicts(c, t, S, Teaching(t, {c}, lo, hi),
                                Blocked(calendars[t], lo, hi), Bookable(calendars[t], lo, hi))
      BY <1>4, Zenon DEF ConflictsOf, Unmet, ConflictsWith
    <2>. HIDE DEF S, lo, hi
    <2>3. "workload" \in ConflictsOf(c, t) <=> \E w \in Weeks(S) : load(w) > MaxWeekly
      <3>. DEFINE others == Teaching(t, {c}, lo, hi)
                  blocked == Blocked(calendars[t], lo, hi)
                  free == Bookable(calendars[t], lo, hi)
      <3>. HIDE DEF others, blocked, free
      <3>1. "workload" \in Conflicts(c, t, S, others, blocked, free) <=>
              \E w \in Weeks(S) : load(w) > MaxWeekly
        BY DEF Conflicts, lo, hi
      <3>. QED BY <2>2, <3>1 DEF others, blocked, free
    <2>4. ASSUME NEW w PROVE load(w) \in Int
      <3>1. HoursOf(t, {c}, lo, hi, w) \in Int
        BY <2>1, HoursOfTyped
      <3>2. Hours(S, w) \in Nat
        BY <2>1, HoursTyped
      <3>. QED BY <3>1, <3>2
    <2>. HIDE DEF load
    <2>5. IsFiniteSet(Weeks(S))
      <3>. DEFINE h == [i \in S |-> DayOf(i[1]) \div WeekLength]
      <3>1. IsFiniteSet({h[i] : i \in S})
        BY <2>1, Images
      <3>2. {h[i] : i \in S} = Weeks(S)
        BY DEF Weeks
      <3>. QED BY <3>1, <3>2
    <2>6. \A w \in Weeks(S) : f[w] = load(w) /\ f[w] \in Int
      BY <2>4
    <2>7. DOMAIN f = Weeks(S)
      OBVIOUS
    <2>. HIDE DEF f
    <2>8. IsFiniteSet({f[w] : w \in Weeks(S)})
      BY <2>5, <2>7, Images
    <2>9. IsFiniteSet(loads) /\ loads \subseteq Int /\ loads # {}
      <3>1. IsFiniteSet({0})
        BY FS_Singleton
      <3>2. IsFiniteSet(loads)
        BY <2>8, <3>1, FS_Union, Zenon
      <3>3. loads \subseteq Int /\ loads # {}
        BY <2>6
      <3>. QED BY <3>2, <3>3
    <2>10. \A x \in loads : x = 0 \/ \E w \in Weeks(S) : x = load(w)
      BY <2>6
    <2>. HIDE DEF loads
    <2>11. Max(loads) \in loads
      BY <2>9, Extremes
    <2>12. Max(loads) \in Nat
      <3>1. 0 \in loads
        BY DEF loads
      <3>2. Max(loads) \in Int /\ 0 <= Max(loads)
        BY <2>9, <2>11, <3>1, Extremes
      <3>. QED BY <3>2
    <2>13. ASSUME ConflictsOf(c, t) = {} PROVE Max(loads) <= MaxWeekly
      <3>1. \A w \in Weeks(S) : load(w) <= MaxWeekly
        BY <1>2, <2>3, <2>4, <2>13
      <3>. QED BY <1>2, <2>10, <2>11, <3>1
    <2>. QED BY <1>1, <2>12, <2>13 DEF S
  <1>. QED BY <1>3, <1>4

-----------------------------------------------------------------------------
(* The order of the recommended.                                           *)

SpareOf(c, t) == Headroom(c, t, StillToTeach(c))
ShareOf(c, t) ==
  IF StillToTeach(c) = {} THEN 0
  ELSE Rounded(350 * Rounded(1000 * Cardinality(Liked(StillToTeach(c), t)),
                             Lengths(StillToTeach(c))), 1000)

LEMMA PointsFacts ==
  ASSUME CalTyped, NEW c \in Courses, NEW t \in Teachers
  PROVE  /\ Points(c)[t] = 400 + SpareOf(c, t) + ShareOf(c, t)
         /\ SpareOf(c, t) \in Int /\ ShareOf(c, t) \in Int
  <1>. DEFINE S == StillToTeach(c)
              peak == PeakWeek(c, t, S)
              P == ToSet(Preferred(calendars[t], StartOf(S), EndOf(S)))
              liked == Cardinality(Liked(S, t))
              spare == Headroom(c, t, S)
              share == IF S = {} THEN 0 ELSE Rounded(350 * Rounded(1000 * liked, Lengths(S)), 1000)
  <1>1. Points(c)[t] = 400 + spare + IF S = {} THEN 0 ELSE Rounded(350 * PreferredRatio(P, S), 1000)
    BY DEF Points, PointsFor
  <1>2. S # {} => /\ PreferredRatio(P, S) = Rounded(1000 * liked, Lengths(S))
                  /\ liked \in Nat /\ Lengths(S) \in Nat \ {0}
    BY PreferredRatioIs
  <1>3. peak \in Int /\ MaxWeekly \in Nat
    BY PeakFacts, CalendarAssumption
  <1>a. spare = IF MaxWeekly = 0 THEN 0 ELSE Rounded(250 * Later(0, MaxWeekly - peak), MaxWeekly)
    BY DEF Headroom
  <1>. HIDE DEF S, peak, P, liked
  <1>4. spare \in Int
    <2>1. 250 * Later(0, MaxWeekly - peak) \in Int
      BY <1>3 DEF Later
    <2>2. CASE MaxWeekly = 0
      BY <1>a, <2>2
    <2>3. CASE MaxWeekly # 0
      <3>1. MaxWeekly \in Nat \ {0}
        BY <1>3, <2>3
      <3>2. Rounded(250 * Later(0, MaxWeekly - peak), MaxWeekly) \in Int
        BY <2>1, <3>1, RoundedFacts
      <3>. QED BY <1>a, <2>3, <3>2
    <2>. QED BY <2>2, <2>3
  <1>5. share \in Int
    <2>1. CASE S = {}
      BY <2>1
    <2>2. CASE S # {}
      <3>1. 1000 * liked \in Int /\ Lengths(S) \in Nat \ {0}
        BY <1>2, <2>2
      <3>2. Rounded(1000 * liked, Lengths(S)) \in Int
        BY <3>1, RoundedFacts
      <3>. DEFINE ratio == Rounded(1000 * liked, Lengths(S))
      <3>. HIDE DEF ratio
      <3>3. 350 * ratio \in Int
        BY <3>2 DEF ratio
      <3>4. Rounded(350 * ratio, 1000) \in Int
        BY <3>3, RoundedFacts
      <3>. QED BY <2>2, <3>4 DEF ratio
    <2>. QED BY <2>1, <2>2
  <1>6. Points(c)[t] = 400 + spare + share
    <2>. HIDE DEF spare
    <2>. QED BY <1>1, <1>2
  <1>7. spare = SpareOf(c, t) /\ share = ShareOf(c, t)
    BY Zenon DEF SpareOf, ShareOf, liked, peak, S
  <1>. HIDE DEF spare, share
  <1>. QED BY <1>4, <1>5, <1>6, <1>7

(* Who is no better placed in either, and worse by a tenth of a point in   *)
(* one of them, has fewer points.                                          *)
LEMMA BehindHasFewer ==
  ASSUME CalTyped, NEW c \in Courses, NEW t \in Suitable(c), NEW o \in Suitable(c),
         PeakWeek(c, o, StillToTeach(c)) <= PeakWeek(c, t, StillToTeach(c)),
         Cardinality(Liked(StillToTeach(c), t)) <= Cardinality(Liked(StillToTeach(c), o)),
         \/ /\ PeakWeek(c, o, StillToTeach(c)) < PeakWeek(c, t, StillToTeach(c))
            /\ 250 * (PeakWeek(c, t, StillToTeach(c)) - PeakWeek(c, o, StillToTeach(c))) >= MaxWeekly
         \/ /\ Cardinality(Liked(StillToTeach(c), t)) < Cardinality(Liked(StillToTeach(c), o))
            /\ 1000 * (Cardinality(Liked(StillToTeach(c), o)) - Cardinality(Liked(StillToTeach(c), t)))
                 >= 3 * Lengths(StillToTeach(c))
  PROVE  Points(c)[t] < Points(c)[o]
  <1>. DEFINE S == StillToTeach(c)
              peak(x) == PeakWeek(c, x, S)
              liked(x) == Cardinality(Liked(S, x))
              length == Lengths(S)
              spare(x) == Headroom(c, x, S)
              ratio(x) == Rounded(1000 * liked(x), length)
              share(x) == IF S = {} THEN 0 ELSE Rounded(350 * ratio(x), 1000)
  <1>1. ASSUME NEW x \in Suitable(c)
        PROVE  /\ x \in Teachers /\ peak(x) \in Nat /\ peak(x) <= MaxWeekly
               /\ Points(c)[x] = 400 + spare(x) + share(x) /\ spare(x) \in Int /\ share(x) \in Int
               /\ S # {} => liked(x) \in Nat /\ length \in Nat \ {0}
    <2>1. x \in Teachers /\ ConflictsOf(c, x) = {}
      BY DEF Suitable
    <2>2. peak(x) \in Nat /\ peak(x) <= MaxWeekly
      BY <2>1, PeakFacts
    <2>3. Points(c)[x] = 400 + spare(x) + share(x) /\ spare(x) \in Int /\ share(x) \in Int
      <3>1. spare(x) = SpareOf(c, x) /\ share(x) = ShareOf(c, x)
        BY Zenon DEF SpareOf, ShareOf
      <3>. HIDE DEF spare, share
      <3>. QED BY <2>1, <3>1, PointsFacts
    <2>4. S # {} => liked(x) \in Nat /\ length \in Nat \ {0}
      BY <2>1, PreferredRatioIs
    <2>. QED BY <2>1, <2>2, <2>3, <2>4
  <1>2. S = {} => liked(t) = liked(o)
    BY DEF Liked
  <1>3. MaxWeekly \in Nat
    BY CalendarAssumption
  <1>4. /\ peak(o) <= peak(t) /\ liked(t) <= liked(o)
        /\ \/ peak(o) < peak(t) /\ 250 * (peak(t) - peak(o)) >= MaxWeekly
           \/ liked(t) < liked(o) /\ 1000 * (liked(o) - liked(t)) >= 3 * length
    OBVIOUS
  <1>5. /\ spare(t) <= spare(o)
        /\ peak(o) < peak(t) /\ 250 * (peak(t) - peak(o)) >= MaxWeekly => spare(t) + 1 <= spare(o)
    <2>0. \A x : spare(x) = IF MaxWeekly = 0 THEN 0
                           ELSE Rounded(250 * Later(0, MaxWeekly - peak(x)), MaxWeekly)
      BY Zenon DEF Headroom
    <2>. DEFINE m == 250 * Later(0, MaxWeekly - peak(t))
                n == 250 * Later(0, MaxWeekly - peak(o))
    <2>. HIDE DEF peak, spare
    <2>1. m = 250 * (MaxWeekly - peak(t)) /\ n = 250 * (MaxWeekly - peak(o))
      BY <1>1, <1>3 DEF Later
    <2>2. m \in Int /\ n \in Int /\ m <= n
      BY <1>1, <1>3, <1>4, <2>1
    <2>3. 250 * (peak(t) - peak(o)) >= MaxWeekly => m + MaxWeekly <= n
      BY <1>1, <1>3, <2>1
    <2>. HIDE DEF m, n
    <2>4. CASE MaxWeekly = 0
      <3>1. spare(t) = 0 /\ spare(o) = 0
        BY <2>0, <2>4
      <3>2. ~(peak(o) < peak(t))
        BY <1>1, <2>4
      <3>. QED BY <3>1, <3>2
    <2>5. CASE MaxWeekly # 0
      <3>1. MaxWeekly \in Nat \ {0}
        BY <1>3, <2>5
      <3>2. /\ Rounded(m, MaxWeekly) <= Rounded(n, MaxWeekly)
            /\ m + MaxWeekly <= n => Rounded(m, MaxWeekly) + 1 <= Rounded(n, MaxWeekly)
        BY <2>2, <3>1, RoundedFacts
      <3>3. spare(t) = Rounded(m, MaxWeekly) /\ spare(o) = Rounded(n, MaxWeekly)
        BY <2>0, <2>5 DEF m, n
      <3>. QED BY <2>3, <3>2, <3>3
    <2>. QED BY <2>4, <2>5
  <1>6. /\ share(t) <= share(o)
        /\ liked(t) < liked(o) /\ 1000 * (liked(o) - liked(t)) >= 3 * length =>
             share(t) + 1 <= share(o)
    <2>1. CASE S = {}
      <3>1. liked(t) = liked(o) /\ share(t) = 0 /\ share(o) = 0
        BY <1>2, <2>1
      <3>2. liked(t) \in Int
        <4>1. Liked({}, t) = {}
          BY DEF Liked
        <4>. QED BY <2>1, <4>1, FS_EmptySet
      <3>. HIDE DEF liked, share
      <3>. QED BY <3>1, <3>2
    <2>2. CASE S # {}
      <3>1. liked(t) \in Nat /\ liked(o) \in Nat /\ length \in Nat \ {0} /\ liked(t) <= liked(o)
        BY <1>1, <1>4, <2>2
      <3>. HIDE DEF liked, length
      <3>2. /\ ratio(t) \in Int /\ ratio(o) \in Int /\ ratio(t) <= ratio(o)
            /\ 1000 * (liked(o) - liked(t)) >= 3 * length => ratio(t) + 3 <= ratio(o)
        <4>. DEFINE m == 1000 * liked(t)
                    n == 1000 * liked(o)
        <4>1. m \in Int /\ n \in Int /\ m <= n
          BY <3>1
        <4>2. 1000 * (liked(o) - liked(t)) >= 3 * length =>
                /\ m + length \in Int /\ m + length + length \in Int
                /\ m + length + length + length <= n
          BY <3>1
        <4>. HIDE DEF m, n
        <4>3. /\ Rounded(m, length) \in Int /\ Rounded(n, length) \in Int
              /\ Rounded(m, length) <= Rounded(n, length)
          BY <3>1, <4>1, RoundedFacts
        <4>4. ASSUME m + length + length + length <= n
              PROVE  Rounded(m, length) + 3 <= Rounded(n, length)
          <5>1. m + length \in Int /\ m + length + length \in Int
            BY <3>1, <4>1
          <5>2. Rounded(m, length) + 1 <= Rounded(m + length, length)
            BY <3>1, <4>1, <5>1, RoundedFacts
          <5>3. Rounded(m + length, length) + 1 <= Rounded(m + length + length, length)
            BY <3>1, <5>1, RoundedFacts
          <5>4. Rounded(m + length + length, length) + 1 <= Rounded(n, length)
            BY <3>1, <4>1, <4>4, <5>1, RoundedFacts
          <5>5. /\ Rounded(m + length, length) \in Int
                /\ Rounded(m + length + length, length) \in Int
            BY <3>1, <5>1, RoundedFacts
          <5>. QED BY <4>3, <5>2, <5>3, <5>4, <5>5
        <4>. QED BY <4>2, <4>3, <4>4 DEF m, n
      <3>. HIDE DEF ratio
      <3>3. /\ 350 * ratio(t) \in Int /\ 350 * ratio(o) \in Int /\ 1000 \in Nat \ {0}
            /\ 350 * ratio(t) <= 350 * ratio(o)
            /\ 1000 * (liked(o) - liked(t)) >= 3 * length =>
                 350 * ratio(t) + 1000 <= 350 * ratio(o)
        BY <3>2
      <3>. DEFINE m == 350 * ratio(t)
                  n == 350 * ratio(o)
      <3>. HIDE DEF m, n
      <3>4. m \in Int /\ n \in Int /\ m <= n
        BY <3>3 DEF m, n
      <3>5. /\ Rounded(m, 1000) <= Rounded(n, 1000)
            /\ m + 1000 <= n => Rounded(m, 1000) + 1 <= Rounded(n, 1000)
        <4>. DEFINE d == 1000
        <4>1. d \in Nat \ {0}
          OBVIOUS
        <4>. HIDE DEF d
        <4>2. /\ Rounded(m, d) <= Rounded(n, d)
              /\ m + d <= n => Rounded(m, d) + 1 <= Rounded(n, d)
          BY <3>4, <4>1, RoundedFacts
        <4>. QED BY <4>2 DEF d
      <3>. QED BY <2>2, <3>3, <3>5 DEF m, n
    <2>. QED BY <2>1, <2>2
  <1>. HIDE DEF peak, liked, length, spare, share
  <1>. QED BY <1>1, <1>4, <1>5, <1>6

LEMMA RankedFacts ==
  ASSUME CalTyped, NEW c \in Courses
  PROVE  LET ranked == Ranked(courses[c].teacher, Suitable(c), Points(c)) IN
         /\ ToSet(ranked) = Suitable(c) /\ IsInjective(ranked)
         /\ \A m, n \in DOMAIN ranked : m < n =>
              /\ ranked[m] \in Suitable(c) /\ ranked[n] \in Suitable(c)
              /\ ranked[n] # courses[c].teacher
              /\ ranked[m] # courses[c].teacher => Points(c)[ranked[m]] >= Points(c)[ranked[n]]
  <1>. DEFINE S == Suitable(c)
              current == courses[c].teacher
              points == Points(c)
              order == {p \in S \X S :
                          /\ p[2] # current
                          /\ \/ p[1] = current \/ points[p[1]] > points[p[2]]
                             \/ points[p[1]] = points[p[2]] /\ PlaceOf(p[1]) < PlaceOf(p[2])}
              above(x) == {y \in S :
                             /\ x # current
                             /\ \/ y = current \/ points[y] > points[x]
                                \/ points[y] = points[x] /\ PlaceOf(y) < PlaceOf(x)}
              s == [n \in 1..Cardinality(S) |-> CHOOSE x \in S : Cardinality(above(x)) = n - 1]
  <1>1. Ranked(current, S, points) = s
    <2>. HIDE DEF S, current, points
    <2>. QED BY DEF Ranked, InOrder
  <1>2. /\ IsFiniteSet(S)
        /\ \A t \in S : PlaceOf(t) \in Int /\ points[t] \in Int
        /\ \A t, o \in S : PlaceOf(t) = PlaceOf(o) => t = o
    <2>1. S \in SUBSET Teachers
      BY DEF Suitable
    <2>2. IsFiniteSet(S)
      BY <2>1, NamesFacts, FS_Subset
    <2>3. ASSUME NEW t \in S PROVE points[t] \in Int
      <3>1. /\ points[t] = 400 + SpareOf(c, t) + ShareOf(c, t)
            /\ SpareOf(c, t) \in Int /\ ShareOf(c, t) \in Int
        BY <2>1, PointsFacts
      <3>. HIDE DEF points
      <3>. QED BY <3>1
    <2>. HIDE DEF S, points
    <2>. QED BY <2>1, <2>2, <2>3, NamesFacts
  <1>. HIDE DEF S, current, points
  <1>3. \A x, y \in S : <<x, y>> \in order <=>
          /\ y # current
          /\ \/ x = current \/ points[x] > points[y]
             \/ points[x] = points[y] /\ PlaceOf(x) < PlaceOf(y)
    OBVIOUS
  <1>. HIDE DEF order
  <1>4. IsOrder(order, S)
    <2>1. \A x \in S : <<x, x>> \notin order
      BY <1>2, <1>3
    <2>2. ASSUME NEW x \in S, NEW y \in S, NEW z \in S, <<x, y>> \in order, <<y, z>> \in order
          PROVE  <<x, z>> \in order
      <3>1. /\ points[x] \in Int /\ points[y] \in Int /\ points[z] \in Int
            /\ PlaceOf(x) \in Int /\ PlaceOf(y) \in Int /\ PlaceOf(z) \in Int
        BY <1>2
      <3>2. /\ y # current /\ z # current
            /\ \/ x = current \/ points[x] > points[y]
               \/ points[x] = points[y] /\ PlaceOf(x) < PlaceOf(y)
            /\ \/ points[y] > points[z]
               \/ points[y] = points[z] /\ PlaceOf(y) < PlaceOf(z)
        BY <1>3, <2>2
      <3>3. \/ x = current \/ points[x] > points[z]
            \/ points[x] = points[z] /\ PlaceOf(x) < PlaceOf(z)
        BY <3>1, <3>2
      <3>. QED BY <1>3, <3>2, <3>3
    <2>3. ASSUME NEW x \in S, NEW y \in S, x # y PROVE <<x, y>> \in order \/ <<y, x>> \in order
      <3>1. /\ points[x] \in Int /\ points[y] \in Int /\ PlaceOf(x) \in Int /\ PlaceOf(y) \in Int
            /\ PlaceOf(x) # PlaceOf(y)
        BY <1>2, <2>3
      <3>. QED BY <1>3, <2>3, <3>1
    <2>. QED BY <2>1, <2>2, <2>3, Zenon DEF IsOrder
  <1>5. \A x \in S : Cardinality(above(x)) = RankIn(x, S, order)
    <2>. TAKE x \in S
    <2>1. above(x) = {y \in S : <<y, x>> \in order}
      BY <1>3
    <2>. QED BY <2>1, Zenon DEF RankIn
  <1>. HIDE DEF above
  <1>6. IsRanking(s, S, order)
    <2>1. ASSUME NEW n \in 1..Cardinality(S)
          PROVE  s[n] \in S /\ RankIn(s[n], S, order) = n - 1
      <3>1. \E x \in S : Cardinality(above(x)) = n - 1
        BY <1>2, <1>4, <1>5, Places
      <3>2. s[n] = CHOOSE x \in S : Cardinality(above(x)) = n - 1
        BY Zenon
      <3>. HIDE DEF s
      <3>3. s[n] \in S /\ Cardinality(above(s[n])) = n - 1
        BY <3>1, <3>2, Zenon
      <3>. QED BY <1>5, <3>3
    <2>2. s = [n \in 1..Cardinality(S) |-> s[n]]
      OBVIOUS
    <2>. HIDE DEF s
    <2>. QED BY <2>1, <2>2 DEF IsRanking
  <1>. HIDE DEF s
  <1>7. /\ s \in Seq(S) /\ ToSet(s) = S /\ IsInjective(s)
        /\ \A m, n \in DOMAIN s : m < n => <<s[m], s[n]>> \in order
    BY <1>2, <1>4, <1>6, RankingFacts, Zenon
  <1>8. ASSUME NEW m \in DOMAIN s, NEW n \in DOMAIN s, m < n
        PROVE  /\ s[m] \in S /\ s[n] \in S /\ s[n] # current
               /\ s[m] # current => points[s[m]] >= points[s[n]]
    <2>1. s[m] \in S /\ s[n] \in S /\ <<s[m], s[n]>> \in order
      BY <1>7, <1>8
    <2>2. points[s[m]] \in Int /\ points[s[n]] \in Int
      BY <1>2, <2>1
    <2>. QED BY <1>3, <2>1, <2>2
  <1>. QED BY <1>1, <1>7, <1>8, Zenon DEF S, current, points

(* A trainer is recommended exactly when nothing is against it, and in an  *)
(* order that the rounding of the points cannot turn round.                *)
LEMMA AdviceByUnit ==
  ASSUME CalTyped, NEW c \in Courses
  PROVE  AdviceIsRight(c, Recommend(c).suitable, UNION {Units(i) : i \in StillToTeach(c)})
  <1>. DEFINE ranked == Ranked(courses[c].teacher, Suitable(c), Points(c))
              S == StillToTeach(c)
              current == courses[c].teacher
              peak == [t \in Teachers |-> PeakWeek(c, t, S)]
  <1>1. Recommend(c).suitable = ranked
    BY DEF Recommend, Advice
  <1>2. /\ ToSet(ranked) = Suitable(c) /\ IsInjective(ranked)
        /\ \A m, n \in DOMAIN ranked : m < n =>
             /\ ranked[m] \in Suitable(c) /\ ranked[n] \in Suitable(c)
             /\ ranked[n] # current
             /\ ranked[m] # current => Points(c)[ranked[m]] >= Points(c)[ranked[n]]
    BY RankedFacts, Zenon
  <1>3. \A t \in Teachers :
          /\ t \in ToSet(ranked) <=> Expert(t, c) /\ ConflictsOf(c, t) = {}
          /\ ConflictsOf(c, t) \subseteq {"workload"} <=>
               \A u \in UNION {Units(i) : i \in S} : FreeAt(t, u, {c})
    <2>. TAKE t \in Teachers
    <2>1. t \in ToSet(ranked) <=> Expert(t, c) /\ ConflictsOf(c, t) = {}
      BY <1>2, Zenon DEF Suitable
    <2>2. ConflictsOf(c, t) \subseteq {"workload"} <=>
            \A u \in UNION {Units(i) : i \in S} : FreeAt(t, u, {c})
      BY ConflictsByUnit, Zenon
    <2>. QED BY <2>1, <2>2
  <1>. HIDE DEF ranked
  <1>4. RankedRightly(c, ranked, S, peak)
    <2>. DEFINE liked(t) == Cardinality(UNION {{i} \X {u \in Units(i) : PrefersAt(t, u)} : i \in S})
                behind(t, o) ==
                  /\ t # current /\ peak[o] <= peak[t] /\ liked(o) >= liked(t)
                  /\ \/ peak[o] < peak[t] /\ 250 * (peak[t] - peak[o]) >= MaxWeekly
                     \/ liked(o) > liked(t) /\ 1000 * (liked(o) - liked(t)) >= 3 * Lengths(S)
    <2>1. ASSUME NEW t \in Suitable(c), NEW o \in Suitable(c), behind(t, o)
          PROVE  Points(c)[t] < Points(c)[o]
      <3>1. t \in Teachers /\ o \in Teachers
        BY DEF Suitable
      <3>2. /\ liked(t) = Cardinality(Liked(S, t)) /\ liked(o) = Cardinality(Liked(S, o))
            /\ peak[t] = PeakWeek(c, t, S) /\ peak[o] = PeakWeek(c, o, S)
        BY <3>1 DEF Liked
      <3>. HIDE DEF liked, peak
      <3>. QED BY <2>1, <3>2, BehindHasFewer
    <2>2. ASSUME NEW m \in DOMAIN ranked, NEW n \in DOMAIN ranked, m < n
          PROVE  ranked[n] # current /\ ~behind(ranked[m], ranked[n])
      <3>. DEFINE t == ranked[m]
                  o == ranked[n]
      <3>1. /\ t \in Suitable(c) /\ o \in Suitable(c) /\ o # current
            /\ t # current => Points(c)[t] >= Points(c)[o]
        BY <1>2, <2>2
      <3>2. Points(c)[t] \in Int /\ Points(c)[o] \in Int
        <4>1. t \in Teachers /\ o \in Teachers
          BY <3>1 DEF Suitable
        <4>2. /\ Points(c)[t] = 400 + SpareOf(c, t) + ShareOf(c, t)
              /\ SpareOf(c, t) \in Int /\ ShareOf(c, t) \in Int
              /\ Points(c)[o] = 400 + SpareOf(c, o) + ShareOf(c, o)
              /\ SpareOf(c, o) \in Int /\ ShareOf(c, o) \in Int
          BY <4>1, PointsFacts
        <4>. QED BY <4>2
      <3>. HIDE DEF t, o
      <3>3. behind(t, o) => t # current /\ Points(c)[t] < Points(c)[o]
        BY <2>1, <3>1
      <3>. HIDE DEF behind
      <3>4. ~behind(t, o)
        BY <3>1, <3>2, <3>3
      <3>. QED BY <3>1, <3>4 DEF t, o
    <2>. QED BY <2>2, Zenon DEF RankedRightly
  <1>. QED BY <1>1, <1>2, <1>3, <1>4, Zenon DEF AdviceIsRight

LEMMA AllIsRight == CalTyped => CalendarIsRight
  <1>. SUFFICES ASSUME CalTyped PROVE CalendarIsRight
    OBVIOUS
  <1>1. CalendarInOrder
    BY DEF CalTyped
  <1>2. ASSUME NEW c \in Courses PROVE RecommendIsRight(c, Recommend(c))
    BY AdviceByUnit, OffersByUnit, Zenon DEF RecommendIsRight
  <1>3. \A t \in Teachers : PagesAreRight(t, Period[1], Period[2])
    BY PagesByUnit
  <1>. QED BY <1>1, <1>2, <1>3, Zenon DEF CalendarIsRight

(* The recommendation of a course names the trainers who can take it and   *)
(* nobody else, nobody behind one who is worse placed by a tenth of a      *)
(* point, and offers windows only when there is none, in free time of a    *)
(* trainer who may be asked (core/scheduling.py:322-493).                  *)
THEOREM RecommendationIsRight ==
  CalSpec => [](\A c \in Courses : RecommendIsRight(c, Recommend(c)))
  <1>1. CalTyped => \A c \in Courses : RecommendIsRight(c, Recommend(c))
    BY AllIsRight, Zenon DEF CalendarIsRight
  <1>. QED BY <1>1, CalendarTyped, PTL

(* All that the calendar's run checks of what is computed holds in every   *)
(* reachable state: rows, recommendations, windows and pages.              *)
THEOREM CalendarStaysRight == CalSpec => []CalendarIsRight
  BY AllIsRight, CalendarTyped, PTL
=============================================================================
