---------------------------- MODULE ProofLemmas ----------------------------
(***************************************************************************)
(* Facts about natural numbers and sequences that the proofs of the        *)
(* components cite.                                                        *)
(***************************************************************************)
EXTENDS Integers, Retain, SequenceTheorems, WellFoundedInduction,
        NaturalsInduction, TLAPS

-----------------------------------------------------------------------------
(* Extreme elements *)

LEMMA Smallest ==
  ASSUME NEW T \in SUBSET Nat, T # {}
  PROVE  \E n \in T : \A m \in T : n <= m
<1> DEFINE R == OpToRel(<, Nat)
<1>1. IsWellFoundedOn(R, Nat)
  BY NatLessThanWellFounded
<1>2. PICK n \in T : \A m \in T : ~ (<<m, n>> \in R)
  <2> HIDE DEF R
  <2> QED BY <1>1, WFMin
<1>3. \A m \in T : ~ (m < n)
  BY <1>2 DEF OpToRel
<1> QED BY <1>3

LEMMA Largest ==
  ASSUME NEW b \in Nat, NEW T \in SUBSET (1..b), T # {}
  PROVE  \E n \in T : \A m \in T : m <= n
<1> DEFINE U == {b - n : n \in T}
<1>1. U \in SUBSET Nat /\ U # {}
  <2>1. \A n \in T : n \in Int /\ n <= b /\ b - n \in Nat
    OBVIOUS
  <2>2. PICK n \in T : TRUE
    OBVIOUS
  <2>3. b - n \in U
    OBVIOUS
  <2> QED BY <2>1, <2>3
<1>2. PICK u \in U : \A m \in U : u <= m
  <2> HIDE DEF U
  <2> QED BY <1>1, Smallest
<1>3. PICK n \in T : u = b - n
  BY <1>2
<1>4. ASSUME NEW m \in T
      PROVE  m <= n
  <2>1. b - m \in U
    BY <1>4
  <2> HIDE DEF U
  <2>2. u <= b - m
    BY <1>2, <2>1
  <2> QED BY <1>3, <1>4, <2>2
<1> QED BY <1>4

-----------------------------------------------------------------------------
(* The first and last elements of a sequence *)

LEMMA FrontProperties ==
  ASSUME NEW S, NEW s \in Seq(S), s # <<>>
  PROVE  /\ Front(s) \in Seq(S)
         /\ Len(Front(s)) = Len(s) - 1
         /\ \A i \in 1..(Len(s) - 1) : Front(s)[i] = s[i]
<1>1. Len(s) \in Nat /\ Len(s) >= 1
  BY LenProperties, EmptySeq
<1>2. \A i \in 1..(Len(s) - 1) : s[i] \in S
  BY <1>1, ElementOfSeq
<1>3. Front(s) \in Seq(S)
  BY <1>1, <1>2, SubSeqProperties DEF Front
<1>4. Len(Front(s)) = Len(s) - 1
  BY <1>1, SMTT(30) DEF Front
<1>5. \A i \in 1..(Len(s) - 1) : Front(s)[i] = s[i]
  BY <1>1, <1>2, SubSeqProperties DEF Front
<1> QED BY <1>3, <1>4, <1>5

LEMMA LastProperties ==
  ASSUME NEW S, NEW s \in Seq(S), s # <<>>
  PROVE  /\ Len(s) \in Nat /\ Len(s) >= 1
         /\ Last(s) = s[Len(s)]
         /\ Last(s) \in S
<1>1. Len(s) \in Nat /\ Len(s) >= 1
  BY LenProperties, EmptySeq
<1> QED BY <1>1, ElementOfSeq DEF Last

-----------------------------------------------------------------------------
(* Division *)

LEMMA DivMod ==
  ASSUME NEW n \in Nat, NEW r \in Nat \ {0}
  PROVE  /\ n \div r \in Nat /\ n % r \in 0..(r - 1)
         /\ n = r * (n \div r) + (n % r)
OBVIOUS

LEMMA DivBelow ==
  ASSUME NEW n \in Nat, NEW r \in Nat \ {0}, NEW b \in Nat, n < r * b
  PROVE  n \div r < b
<1> DEFINE q == n \div r
<1>1. q \in Nat /\ n % r \in Nat /\ n = r * q + (n % r)
  BY DivMod
<1> HIDE DEF q
<1>2. SUFFICES ASSUME q >= b PROVE FALSE
  BY <1>1 DEF q
<1>3. r * q >= r * b
  BY <1>1, <1>2
<1> QED BY <1>1, <1>3

LEMMA DivAtLeast ==
  ASSUME NEW n \in Nat, NEW r \in Nat \ {0}, NEW b \in Nat, n >= r * b
  PROVE  n \div r >= b
<1> DEFINE q == n \div r
<1>1. q \in Nat /\ n % r \in Nat /\ n % r < r /\ n = r * q + (n % r)
  BY DivMod
<1> HIDE DEF q
<1>2. SUFFICES ASSUME q + 1 <= b PROVE FALSE
  BY <1>1 DEF q
<1>3. r * (q + 1) <= r * b
  BY <1>1, <1>2
<1>4. r * (q + 1) = r * q + r
  BY <1>1
<1> QED BY <1>1, <1>3, <1>4

-----------------------------------------------------------------------------
(* Folds from the left *)

\* Max, on a set of positions.
LEMMA MaxProperties ==
  ASSUME NEW b \in Nat, NEW T \in SUBSET (1..b), T # {}
  PROVE  Max(T) \in T /\ \A m \in T : m <= Max(T)
<1>1. PICK n \in T : \A m \in T : n >= m
  BY Largest
<1> QED BY <1>1 DEF Max

LEMMA MaxOfPrefix ==
  ASSUME NEW k \in Nat \ {0}
  PROVE  Max(1..k) = k /\ (1..k) \ {Max(1..k)} = 1..(k - 1)
<1>1. 1..k \in SUBSET (1..k) /\ 1..k # {} /\ k \in 1..k
  OBVIOUS
<1>2. Max(1..k) \in 1..k /\ \A m \in 1..k : m <= Max(1..k)
  BY <1>1, MaxProperties
<1>3. Max(1..k) = k
  BY <1>1, <1>2
<1> QED BY <1>3

\* c folds the steps in advance over the subsets of 1..n, largest element last.
Folds(c, base, advance, n) ==
  \A t \in SUBSET (1..n) :
    c[t] = IF t = {} THEN base ELSE advance[Max(t)][c[t \ {Max(t)}]]

\* Such a fold exists: the equation of FoldLeft has a solution.
LEMMA FoldDefined ==
  ASSUME NEW X, NEW base \in X, NEW n \in Nat, NEW advance \in [1..n -> [X -> X]]
  PROVE  \E c \in [SUBSET (1..n) -> X] : Folds(c, base, advance, n)
<1> DEFINE Fits(c, k) == Folds(c, base, advance, k)
           Good(k) == \E c \in [SUBSET (1..k) -> X] : Fits(c, k)
           Bad == {k \in 0..n : ~Good(k)}
<1>1. SUFFICES ASSUME Bad # {} PROVE FALSE
  <2>1. n \in 0..n
    OBVIOUS
  <2>2. Good(n)
    BY <1>1, <2>1
  <2> QED BY <2>2
<1> USE DEF Folds
<1>2. PICK k \in Bad : \A m \in Bad : k <= m
  <2> HIDE DEF Good
  <2>1. Bad \in SUBSET Nat
    OBVIOUS
  <2> HIDE DEF Bad
  <2> QED BY <1>1, <2>1, Smallest
<1>3. Good(0)
  <2> DEFINE c == [t \in SUBSET (1..0) |-> base]
  <2>1. \A t \in SUBSET (1..0) : t = {}
    OBVIOUS
  <2>2. c \in [SUBSET (1..0) -> X] /\ Fits(c, 0)
    BY <2>1
  <2> QED BY <2>2
<1>4. k \in 1..n /\ Good(k - 1)
  <2>1. k \in 0..n /\ k # 0
    BY <1>3
  <2>2. k - 1 \in 0..n /\ k - 1 \notin Bad
    <3>1. k - 1 \in 0..n /\ ~(k <= k - 1)
      BY <2>1
    <3> HIDE DEF Bad
    <3> QED BY <3>1, <1>2
  <2> HIDE DEF Good
  <2> QED BY <2>1, <2>2
<1>nat. k \in Nat
  BY <1>4
<1>5. PICK g \in [SUBSET (1..(k - 1)) -> X] : Fits(g, k - 1)
  BY <1>4
<1> DEFINE h == [t \in SUBSET (1..k) |->
                   IF k \in t THEN advance[k][g[t \ {k}]] ELSE g[t]]
<1>6. \A t \in SUBSET (1..k) : t \ {k} \in SUBSET (1..(k - 1))
  BY <1>4
<1>7. h \in [SUBSET (1..k) -> X]
  <2>1. ASSUME NEW t \in SUBSET (1..k)
        PROVE  h[t] \in X
    <3>1. CASE k \in t
      BY <3>1, <1>4, <1>6
    <3>2. CASE k \notin t
      BY <3>2, <1>6
    <3> QED BY <3>1, <3>2
  <2> QED BY <2>1
<1>8. ASSUME NEW t \in SUBSET (1..k)
      PROVE  h[t] = IF t = {} THEN base ELSE advance[Max(t)][h[t \ {Max(t)}]]
  <2>1. CASE t = {}
    <3>1. t \in SUBSET (1..(k - 1)) /\ k \notin t
      BY <2>1
    <3> QED BY <2>1, <3>1, <1>5
  <2>2. CASE k \in t
    <3>1. Max(t) \in t /\ k <= Max(t) /\ t # {}
      BY <2>2, <1>nat, MaxProperties
    <3>2. Max(t) = k
      <4>1. Max(t) \in 1..k
        BY <3>1
      <4> QED BY <3>1, <4>1, <1>nat
    <3>3. t \ {k} \in SUBSET (1..k) /\ k \notin t \ {k}
      OBVIOUS
    <3> QED BY <2>2, <3>1, <3>2, <3>3
  <2>3. CASE t # {} /\ k \notin t
    <3>1. t \in SUBSET (1..(k - 1))
      BY <2>3, <1>6
    <3>2. Max(t) \in t
      BY <2>3, <1>nat, MaxProperties
    <3>3. /\ t \ {Max(t)} \in SUBSET (1..k) /\ t \ {Max(t)} \in SUBSET (1..(k - 1))
          /\ k \notin t \ {Max(t)}
      BY <3>1, <2>3
    <3>4. h[t] = g[t] /\ h[t \ {Max(t)}] = g[t \ {Max(t)}]
      BY <3>3, <2>3
    <3> QED BY <3>1, <3>4, <1>5, <2>3
  <2> QED BY <2>1, <2>2, <2>3
<1>9. Fits(h, k)
  BY <1>8
<1> HIDE DEF h, Fits
<1>10. Good(k)
  BY <1>7, <1>9
<1> QED BY <1>10, <1>2

\* c is what the steps in advance make of base, one after another.
Unrolls(c, base, advance, n) ==
  c[0] = base /\ \A k \in 1..n : c[k] = advance[k][c[k - 1]]

\* iter goes from one prefix of 1..n to the next by the steps in advance, as long as
\* its values are in X.
OnPrefixes(iter, base, advance, n, X) ==
  /\ iter[{}] = base
  /\ \A k \in 1..n : iter[1..(k - 1)] \in X => iter[1..k] = advance[k][iter[1..(k - 1)]]

\* The values such a fold takes on the prefixes of 1..n, one after another.
LEMMA FoldPrefixes ==
  ASSUME NEW X, NEW base \in X, NEW n \in Nat, NEW advance \in [1..n -> [X -> X]],
         NEW iter, OnPrefixes(iter, base, advance, n, X)
  PROVE  \E c \in [0..n -> X] : Unrolls(c, base, advance, n) /\ c[n] = iter[1..n]
<1> USE DEF OnPrefixes
<1>1. iter[1..0] = base
  <2>1. 1..0 = {}
    OBVIOUS
  <2> QED BY <2>1
<1>2. ASSUME NEW k \in 0..n
      PROVE  iter[1..k] \in X
  <2> DEFINE Bad == {j \in 0..n : iter[1..j] \notin X}
  <2>1. SUFFICES ASSUME Bad # {} PROVE FALSE
    OBVIOUS
  <2>2. PICK j \in Bad : \A m \in Bad : j <= m
    <3>1. Bad \in SUBSET Nat
      OBVIOUS
    <3> HIDE DEF Bad
    <3> QED BY <2>1, <3>1, Smallest
  <2>3. j \in 1..n
    <3>1. j # 0
      BY <1>1
    <3> QED BY <3>1
  <2>4. j - 1 \in 0..n /\ ~(j <= j - 1)
    BY <2>3
  <2>5. iter[1..(j - 1)] \in X
    BY <2>2, <2>4
  <2>6. iter[1..j] = advance[j][iter[1..(j - 1)]]
    BY <2>3, <2>5
  <2> QED BY <2>3, <2>5, <2>6
<1> DEFINE c == [k \in 0..n |-> iter[1..k]]
<1>3. c \in [0..n -> X]
  BY <1>2
<1>4. \A k \in 1..n : k \in 0..n /\ k - 1 \in 0..n
  OBVIOUS
<1>5. 0 \in 0..n /\ n \in 0..n
  OBVIOUS
<1>6. c[0] = base /\ c[n] = iter[1..n]
  BY <1>1, <1>5
<1>7. \A k \in 1..n : c[k] = advance[k][c[k - 1]]
  BY <1>2, <1>4
<1> HIDE DEF c
<1> QED BY <1>3, <1>6, <1>7 DEF Unrolls

-----------------------------------------------------------------------------
(* Elements added one after another *)

\* No element twice.
Distinct(s) == \A j, k \in 1..Len(s) : s[j] = s[k] => j = k

\* What Append makes of a range, and of distinct elements.
LEMMA AppendRange ==
  ASSUME NEW S, NEW s \in Seq(S), NEW e \in S
  PROVE  /\ Append(s, e) \in Seq(S)
         /\ Range(Append(s, e)) = Range(s) \cup {e}
         /\ e \notin Range(s) /\ Distinct(s) => Distinct(Append(s, e))
<1>1. /\ Len(s) \in Nat /\ DOMAIN s = 1..Len(s)
      /\ Append(s, e) \in Seq(S) /\ Len(Append(s, e)) = Len(s) + 1
      /\ \A i \in 1..Len(s) : Append(s, e)[i] = s[i]
      /\ Append(s, e)[Len(s) + 1] = e
  BY AppendProperties, LenProperties
<1>2. DOMAIN Append(s, e) = 1..(Len(s) + 1)
  BY <1>1, LenProperties
<1> DEFINE a == Append(s, e)
<1> HIDE DEF a
<1>3. Range(a) = Range(s) \cup {e}
  <2>1. Range(a) = {a[i] : i \in 1..(Len(s) + 1)} /\ Range(s) = {s[i] : i \in 1..Len(s)}
    BY <1>1, <1>2 DEF Range, a
  <2>2. \A i \in 1..(Len(s) + 1) : i \in 1..Len(s) \/ i = Len(s) + 1
    BY <1>1
  <2>3. \A i \in 1..Len(s) : i \in 1..(Len(s) + 1)
    BY <1>1
  <2>4. Len(s) + 1 \in 1..(Len(s) + 1)
    BY <1>1
  <2> QED BY <2>1, <2>2, <2>3, <2>4, <1>1 DEF a
<1>4. ASSUME e \notin Range(s), Distinct(s)
      PROVE  Distinct(a)
  <2>1. SUFFICES ASSUME NEW j \in 1..(Len(s) + 1), NEW k \in 1..(Len(s) + 1), a[j] = a[k]
                 PROVE  j = k
    BY <1>1 DEF Distinct, a
  <2>2. \A i \in 1..Len(s) : a[i] = s[i] /\ s[i] # e
    BY <1>1, <1>4 DEF Range, a
  <2>3. a[Len(s) + 1] = e
    BY <1>1 DEF a
  <2>4. \A i \in 1..(Len(s) + 1) : i \in 1..Len(s) \/ i = Len(s) + 1
    BY <1>1
  <2> QED BY <2>1, <2>2, <2>3, <2>4, <1>4 DEF Distinct
<1> QED BY <1>1, <1>3, <1>4 DEF a

\* A sequence with one more value, which need not be of its values.
LEMMA AppendValue ==
  ASSUME NEW S, NEW s \in Seq(S), NEW x
  PROVE  /\ Append(s, x) \in Seq(S \cup {x}) /\ Range(Append(s, x)) = Range(s) \cup {x}
         /\ Len(s) \in Nat /\ Len(Append(s, x)) = Len(s) + 1
         /\ \A i \in 1..Len(s) : Append(s, x)[i] = s[i]
         /\ Append(s, x)[Len(s) + 1] = x
<1>1. Len(s) \in Nat /\ DOMAIN s = 1..Len(s)
  BY LenProperties
<1> DEFINE T == S \cup {x}
<1>2. s \in Seq(T) /\ x \in T
  BY <1>1, ElementOfSeq, SeqDef
<1> HIDE DEF T
<1> QED BY <1>1, <1>2, AppendRange, AppendProperties DEF T

\* What Tail makes of a range, and of distinct elements.
LEMMA TailRange ==
  ASSUME NEW S, NEW s \in Seq(S), s # <<>>
  PROVE  /\ Tail(s) \in Seq(S) /\ Len(Tail(s)) = Len(s) - 1
         /\ Range(s) = Range(Tail(s)) \cup {Head(s)}
         /\ Distinct(s) => Head(s) \notin Range(Tail(s)) /\ Distinct(Tail(s))
<1> DEFINE t == Tail(s)
<1>1. /\ t \in Seq(S) /\ Len(t) = Len(s) - 1 /\ \A i \in 1..Len(t) : t[i] = s[i + 1]
      /\ Len(s) \in Nat /\ Len(s) >= 1 /\ Head(s) = s[1]
  BY HeadTailProperties, LenProperties, EmptySeq
<1> HIDE DEF t
<1>2. DOMAIN t = 1..Len(t) /\ DOMAIN s = 1..Len(s)
  BY <1>1, LenProperties
<1>3. \A i \in 1..Len(s) : i = 1 \/ (i - 1 \in 1..Len(t) /\ s[i] = t[i - 1])
  BY <1>1
<1>4. Range(s) = Range(t) \cup {Head(s)}
  <2>1. \A x \in Range(s) : x \in Range(t) \cup {Head(s)}
    BY <1>1, <1>2, <1>3 DEF Range
  <2>2. \A x \in Range(t) \cup {Head(s)} : x \in Range(s)
    BY <1>1, <1>2 DEF Range
  <2> QED BY <2>1, <2>2
<1>5. ASSUME Distinct(s) PROVE Head(s) \notin Range(t)
  BY <1>1, <1>2, <1>5 DEF Distinct, Range
<1>6. ASSUME Distinct(s) PROVE Distinct(t)
  BY <1>1, <1>6 DEF Distinct
<1> QED BY <1>1, <1>4, <1>5, <1>6 DEF t

-----------------------------------------------------------------------------
(* Sums and flattened sequences *)

\* Induction over 0..n, for the elements of a set.
LEMMA Upward ==
  ASSUME NEW n \in Nat, NEW T, 0 \in T, \A k \in 1..n : k - 1 \in T => k \in T
  PROVE  \A k \in 0..n : k \in T
<1> DEFINE Bad == {k \in 0..n : k \notin T}
<1>1. SUFFICES ASSUME Bad # {} PROVE FALSE
  OBVIOUS
<1>2. PICK k \in Bad : \A m \in Bad : k <= m
  <2>1. Bad \in SUBSET Nat
    OBVIOUS
  <2> HIDE DEF Bad
  <2> QED BY <1>1, <2>1, Smallest
<1>3. k \in 1..n
  <2>1. k # 0
    OBVIOUS
  <2> QED BY <2>1
<1>4. k - 1 \in 0..n /\ ~(k <= k - 1)
  BY <1>3
<1>5. k - 1 \in T
  BY <1>2, <1>4
<1> QED BY <1>3, <1>5

\* b holds the running sums of size.
RunningSums(b, size, n) ==
  /\ b \in [0..n -> Nat] /\ b[0] = 0
  /\ \A k \in 1..n : b[k] = b[k - 1] + size[k]

LEMMA SumsOnce ==
  ASSUME NEW n \in Nat, NEW size, NEW b, NEW c,
         RunningSums(b, size, n), RunningSums(c, size, n)
  PROVE  \A k \in 0..n : b[k] = c[k]
<1> DEFINE T == {k \in 0..n : b[k] = c[k]}
<1>1. 0 \in T
  BY DEF RunningSums
<1>2. ASSUME NEW k \in 1..n, k - 1 \in T
      PROVE  k \in T
  BY <1>2 DEF RunningSums
<1>3. \A k \in 0..n : k \in T
  <2> HIDE DEF T
  <2> QED BY <1>1, <1>2, Upward
<1> QED BY <1>3

LEMMA SumsGrow ==
  ASSUME NEW n \in Nat, NEW size \in [1..n -> Nat], NEW b, RunningSums(b, size, n)
  PROVE  \A k, m \in 0..n : k <= m => b[k] <= b[m]
<1>1. SUFFICES ASSUME NEW k \in 0..n
               PROVE  \A m \in 0..n : k <= m => b[k] <= b[m]
  OBVIOUS
<1> DEFINE T == {m \in 0..n : k <= m => b[k] <= b[m]}
<1>2. \A m \in 0..n : b[m] \in Nat
  BY DEF RunningSums
<1>3. 0 \in T
  BY <1>2
<1>4. ASSUME NEW m \in 1..n, m - 1 \in T
      PROVE  m \in T
  <2>1. b[m] = b[m - 1] + size[m] /\ size[m] \in Nat /\ m - 1 \in 0..n /\ m \in 0..n
    BY DEF RunningSums
  <2>2. CASE k = m
    BY <2>1, <2>2, <1>2
  <2>3. CASE k # m
    BY <1>4, <2>1, <2>3, <1>2
  <2> QED BY <2>2, <2>3
<1>5. \A m \in 0..n : m \in T
  <2> HIDE DEF T
  <2> QED BY <1>3, <1>4, Upward
<1> QED BY <1>5

\* Place i lies in one block, at one place of it.
TileAt(b, size, n, i) ==
  \E k \in 1..n : \E j \in 1..size[k] :
    /\ i = b[k - 1] + j - 1
    /\ \A l \in 1..n : \A m \in 1..size[l] : i = b[l - 1] + m - 1 => l = k /\ m = j

\* Blocks of these sizes, laid one behind the other, tile what they cover.
LEMMA SumsTile ==
  ASSUME NEW n \in Nat, NEW size \in [1..n -> Nat], NEW b, RunningSums(b, size, n),
         NEW i \in Nat, i < b[n]
  PROVE  TileAt(b, size, n, i)
<1> DEFINE T == {k \in 0..n : i < b[k]}
<1>1. \A k \in 0..n : b[k] \in Nat
  BY DEF RunningSums
<1>2. T \in SUBSET Nat /\ n \in T
  OBVIOUS
<1>3. PICK k \in T : \A m \in T : k <= m
  <2> HIDE DEF T
  <2> QED BY <1>2, Smallest
<1>4. k \in 1..n /\ k - 1 \in 0..n /\ k - 1 \notin T
  <2>1. k # 0
    BY <1>3 DEF RunningSums
  <2> QED BY <1>3, <2>1
<1>5. b[k - 1] <= i /\ i < b[k] /\ b[k] = b[k - 1] + size[k] /\ size[k] \in Nat
  BY <1>1, <1>3, <1>4 DEF RunningSums
<1> DEFINE j == i - b[k - 1] + 1
<1>6. j \in 1..size[k] /\ i = b[k - 1] + j - 1
  BY <1>1, <1>4, <1>5, SMTT(30)
<1>7. ASSUME NEW l \in 1..n, NEW m \in 1..size[l], i = b[l - 1] + m - 1
      PROVE  l = k /\ m = j
  <2>1. /\ b[l] = b[l - 1] + size[l] /\ size[l] \in Nat /\ b[l] \in Nat /\ b[l - 1] \in Nat
        /\ l - 1 \in 0..n /\ l \in 0..n
    BY <1>1 DEF RunningSums
  <2>2. b[l - 1] <= i /\ i < b[l]
    BY <1>7, <2>1
  <2>3. k <= l
    BY <1>3, <2>1, <2>2
  <2>4. l <= k
    <3>1. SUFFICES ASSUME k <= l - 1 PROVE FALSE
      BY <1>4, <2>1
    <3>2. b[k] <= b[l - 1]
      BY <1>4, <2>1, <3>1, SumsGrow
    <3> QED BY <1>1, <1>4, <1>5, <2>1, <2>2, <3>2, SMTT(30)
  <2>5. l = k
    BY <1>4, <2>3, <2>4
  <2> QED BY <1>1, <1>4, <1>7, <2>1, <2>5
<1> HIDE DEF j
<1> QED BY <1>4, <1>6, <1>7 DEF TileAt

\* The sequences appended one after another, as FlattenSeq does.
LEMMA FlattenUnfolds ==
  ASSUME NEW S, NEW ss \in Seq(Seq(S))
  PROVE  \E c \in [0..Len(ss) -> Seq(S)] :
           /\ c[0] = <<>>
           /\ \A k \in 1..Len(ss) : c[k] = c[k - 1] \o ss[k]
           /\ FlattenSeq(ss) = c[Len(ss)]
<1> DEFINE n == Len(ss)
           X == Seq(S)
           base == <<>>
           advance == [k \in 1..n |-> [s \in X |-> s \o ss[k]]]
           Fits(f) == f = [i \in 1..n |-> IF i = 1 THEN ss[i] ELSE f[i - 1] \o ss[i]]
           flatten == CHOOSE f : Fits(f)
<1>1. n \in Nat /\ \A k \in 1..n : ss[k] \in X
  BY LenProperties, ElementOfSeq
<1>2. base \in X
  BY EmptySeq
<1>3. \A k \in 1..n : \A s \in X : s \o ss[k] \in X
  BY <1>1, ConcatProperties
<1>4. advance \in [1..n -> [X -> X]]
  BY <1>3
<1>5. PICK g \in [SUBSET (1..n) -> X] : Folds(g, base, advance, n)
  <2> HIDE DEF advance, n, X, base
  <2> QED BY <1>1, <1>2, <1>4, FoldDefined
<1> DEFINE c == [k \in 0..n |-> g[1..k]]
<1>6. c \in [0..n -> X] /\ \A k \in 0..n : c[k] = g[1..k]
  <2>1. \A k \in 0..n : 1..k \in SUBSET (1..n)
    BY <1>1
  <2> QED BY <2>1
<1>7. c[0] = <<>>
  <2>1. 1..0 = {} /\ 0 \in 0..n /\ {} \in SUBSET (1..n)
    BY <1>1
  <2>2. g[{}] = base
    BY <1>5, <2>1 DEF Folds
  <2> QED BY <2>1, <2>2
<1>8. ASSUME NEW k \in 1..n
      PROVE  c[k] = c[k - 1] \o ss[k]
  <2>1. Max(1..k) = k /\ (1..k) \ {Max(1..k)} = 1..(k - 1)
    BY <1>1, MaxOfPrefix
  <2>2. 1..k \in SUBSET (1..n) /\ 1..k # {} /\ k \in 0..n /\ k - 1 \in 0..n
    <3>1. n \in Nat
      BY <1>1
    <3> HIDE DEF n
    <3>2. k \in 1..k /\ 1..k \in SUBSET (1..n) /\ k \in 0..n /\ k - 1 \in 0..n
      BY <3>1
    <3> HIDE DEF advance, base, c
    <3>3. 1..k # {}
      BY <3>2
    <3> QED BY <3>2, <3>3
  <2>3. g[1..k] = advance[k][g[1..(k - 1)]]
    <3> HIDE DEF advance
    <3> QED BY <1>5, <2>1, <2>2 DEF Folds
  <2>4. g[1..(k - 1)] \in X
    <3>1. 1..(k - 1) \in SUBSET (1..n)
      BY <1>1
    <3> QED BY <1>5, <3>1
  <2>5. advance[k][g[1..(k - 1)]] = g[1..(k - 1)] \o ss[k]
    BY <2>4
  <2>6. c[k] = g[1..k] /\ c[k - 1] = g[1..(k - 1)]
    BY <2>2
  <2> HIDE DEF advance, c
  <2> QED BY <2>3, <2>5, <2>6
<1> HIDE DEF c
<1>9. CASE n = 0
  <2>1. ss = <<>>
    BY <1>9, EmptySeq, LenProperties
  <2>2. FlattenSeq(ss) = <<>>
    BY <1>9, <2>1 DEF FlattenSeq
  <2> QED BY <1>6, <1>7, <1>8, <1>9, <2>2
<1>10. CASE n # 0
  <2> DEFINE f == [i \in 1..n |-> c[i]]
  <2>1. ASSUME NEW i \in 1..n
        PROVE  f[i] = IF i = 1 THEN ss[i] ELSE f[i - 1] \o ss[i]
    <3>1. c[i] = c[i - 1] \o ss[i]
      BY <1>8
    <3>2. CASE i = 1
      <4>1. c[i] = <<>> \o ss[i] /\ ss[i] \in Seq(S)
        <5>1. i - 1 = 0
          BY <3>2
        <5> QED BY <3>1, <5>1, <1>1, <1>7
      <4>2. <<>> \o ss[i] = ss[i]
        BY <4>1, ConcatEmptySeq
      <4> QED BY <3>2, <4>1, <4>2
    <3>3. CASE i # 1
      <4>1. i - 1 \in 1..n
        BY <3>3, <1>1
      <4> QED BY <3>1, <3>3, <4>1
    <3> QED BY <3>2, <3>3
  <2>2. Fits(f)
    <3> HIDE DEF f
    <3>1. f = [i \in 1..n |-> f[i]]
      BY DEF f
    <3> QED BY <2>1, <3>1
  <2>3. Fits(flatten)
    <3> HIDE DEF Fits, f
    <3> QED BY <2>2
  <2>4. FlattenSeq(ss) = flatten[n]
    BY <1>10, Zenon DEF FlattenSeq
  <2>5. \A k \in 0..n : k \in 1..n => flatten[k] = c[k]
    <3> DEFINE T == {k \in 0..n : k \in 1..n => flatten[k] = c[k]}
    <3>1. 0 \in T
      BY <1>1
    <3>2. ASSUME NEW k \in 1..n, k - 1 \in T
          PROVE  k \in T
      <4>1. flatten[k] = IF k = 1 THEN ss[k] ELSE flatten[k - 1] \o ss[k]
        <5> HIDE DEF flatten
        <5> QED BY <2>3
      <4>2. c[k] = IF k = 1 THEN ss[k] ELSE c[k - 1] \o ss[k]
        <5>1. CASE k = 1
          BY <2>1, <5>1
        <5>2. CASE k # 1
          BY <1>8, <5>2
        <5> QED BY <5>1, <5>2
      <4>3. k # 1 => flatten[k - 1] = c[k - 1]
        <5> HIDE DEF flatten
        <5> QED BY <3>2
      <4> HIDE DEF flatten
      <4> QED BY <4>1, <4>2, <4>3
    <3>3. \A k \in 0..n : k \in T
      <4> HIDE DEF T
      <4> QED BY <1>1, <3>1, <3>2, Upward
    <3> HIDE DEF flatten
    <3> QED BY <3>3
  <2>6. n \in 1..n /\ n \in 0..n
    BY <1>1, <1>10
  <2>7. FlattenSeq(ss) = c[n]
    <3> HIDE DEF flatten
    <3> QED BY <2>4, <2>5, <2>6
  <2> QED BY <1>6, <1>7, <1>8, <2>7
<1> QED BY <1>9, <1>10

\* In t, the elements of the sequences ss lie behind one another.
Joins(t, ss) ==
  \E o : /\ RunningSums(o, [k \in 1..Len(ss) |-> Len(ss[k])], Len(ss))
         /\ Len(t) = o[Len(ss)]
         /\ \A k \in 1..Len(ss) : \A j \in 1..Len(ss[k]) : t[o[k - 1] + j] = ss[k][j]

LEMMA FlattenPlaces ==
  ASSUME NEW S, NEW ss \in Seq(Seq(S))
  PROVE  FlattenSeq(ss) \in Seq(S) /\ Joins(FlattenSeq(ss), ss)
<1> DEFINE n == Len(ss)
           size == [k \in 1..n |-> Len(ss[k])]
<1>1. PICK c \in [0..n -> Seq(S)] :
        /\ c[0] = <<>>
        /\ \A k \in 1..n : c[k] = c[k - 1] \o ss[k]
        /\ FlattenSeq(ss) = c[n]
  BY FlattenUnfolds
<1>2. n \in Nat /\ \A k \in 1..n : ss[k] \in Seq(S) /\ Len(ss[k]) \in Nat
  BY LenProperties, ElementOfSeq
<1> DEFINE o == [k \in 0..n |-> Len(c[k])]
<1>3. \A k \in 0..n : o[k] = Len(c[k]) /\ o[k] \in Nat /\ c[k] \in Seq(S)
  BY LenProperties
<1>4. \A k \in 1..n : k \in 0..n /\ k - 1 \in 0..n
  OBVIOUS
<1>5. ASSUME NEW k \in 1..n
      PROVE  /\ o[k] = o[k - 1] + Len(ss[k])
             /\ \A i \in 1..(o[k - 1] + Len(ss[k])) :
                  c[k][i] = IF i <= o[k - 1] THEN c[k - 1][i] ELSE ss[k][i - o[k - 1]]
  <2>1. c[k] = c[k - 1] \o ss[k] /\ c[k - 1] \in Seq(S) /\ ss[k] \in Seq(S)
    BY <1>1, <1>2, <1>4
  <2>2. o[k] = Len(c[k]) /\ o[k - 1] = Len(c[k - 1])
    BY <1>3, <1>4
  <2> DEFINE before == c[k - 1]
             added == ss[k]
             after == c[k]
  <2> HIDE DEF o
  <2>3. after = before \o added /\ before \in Seq(S) /\ added \in Seq(S)
    BY <2>1
  <2> HIDE DEF before, added, after
  <2>4. /\ Len(after) = Len(before) + Len(added)
        /\ \A i \in 1..(Len(before) + Len(added)) :
             after[i] = IF i <= Len(before) THEN before[i] ELSE added[i - Len(before)]
    BY <2>3, ConcatProperties
  <2> QED BY <2>2, <2>4 DEF before, added, after
<1>6. o[0] = 0 /\ o \in [0..n -> Nat]
  <2>1. 0 \in 0..n
    BY <1>2
  <2> QED BY <1>1, <1>3, <2>1
<1> HIDE DEF o
<1>7. RunningSums(o, size, n)
  BY <1>5, <1>6 DEF RunningSums
<1>8. ASSUME NEW k \in 1..n, NEW j \in 1..Len(ss[k])
      PROVE  c[n][o[k - 1] + j] = ss[k][j]
  <2> DEFINE i == o[k - 1] + j
             T == {m \in 0..n : k <= m => i <= o[m] /\ c[m][i] = ss[k][j]}
  <2>1. 0 \in T
    BY <1>2
  <2>2. i \in Nat /\ i >= 1 /\ o[k - 1] \in Nat /\ j = i - o[k - 1]
    BY <1>2, <1>3, <1>4, SMTT(30)
  <2>3. ASSUME NEW m \in 1..n, m - 1 \in T
        PROVE  m \in T
    <3>1. /\ o[m] = o[m - 1] + Len(ss[m]) /\ Len(ss[m]) \in Nat /\ o[m - 1] \in Nat
          /\ \A h \in 1..(o[m - 1] + Len(ss[m])) :
               c[m][h] = IF h <= o[m - 1] THEN c[m - 1][h] ELSE ss[m][h - o[m - 1]]
      BY <1>2, <1>3, <1>4, <1>5
    <3>2. CASE m = k
      <4>1. i \in 1..(o[m - 1] + Len(ss[m])) /\ ~(i <= o[m - 1])
        BY <3>1, <3>2, <2>2, SMTT(30)
      <4>2. c[m][i] = ss[m][i - o[m - 1]]
        BY <3>1, <4>1
      <4> HIDE DEF i
      <4> QED BY <3>1, <3>2, <4>1, <4>2, <2>2, <1>4, SMTT(30)
    <3>3. CASE m > k
      <4>1. k <= m - 1 /\ m - 1 \in 0..n
        BY <3>3
      <4>2. i <= o[m - 1] /\ c[m - 1][i] = ss[k][j]
        BY <2>3, <4>1
      <4> HIDE DEF i
      <4>3. i \in 1..(o[m - 1] + Len(ss[m]))
        BY <4>2, <3>1, <2>2, SMTT(30)
      <4>4. c[m][i] = ss[k][j]
        BY <3>1, <4>2, <4>3
      <4>5. i <= o[m]
        <5> DEFINE l == Len(ss[m])
        <5>1. o[m] = o[m - 1] + l /\ l \in Nat
          BY <3>1
        <5> HIDE DEF l
        <5> QED BY <5>1, <3>1, <4>2, <2>2, SMTT(30)
      <4> QED BY <4>4, <4>5, <1>4
    <3>4. CASE m < k
      BY <3>4, <1>4
    <3> QED BY <3>2, <3>3, <3>4
  <2>4. \A m \in 0..n : m \in T
    <3> HIDE DEF T
    <3> QED BY <1>2, <2>1, <2>3, Upward
  <2>5. n \in 0..n /\ k <= n
    BY <1>2
  <2> HIDE DEF i
  <2>6. n \in T
    <3> HIDE DEF T
    <3> QED BY <2>4, <2>5
  <2> QED BY <2>5, <2>6 DEF i
<1>9. c[n] \in Seq(S) /\ Len(c[n]) = o[n]
  <2>1. n \in 0..n
    BY <1>2
  <2> QED BY <1>3, <2>1
<1>10. /\ RunningSums(o, size, n)
       /\ c[n] \in Seq(S) /\ Len(c[n]) = o[n]
       /\ \A k \in 1..n : \A j \in 1..Len(ss[k]) : c[n][o[k - 1] + j] = ss[k][j]
  BY <1>7, <1>8, <1>9
<1>11. FlattenSeq(ss) = c[n]
  BY <1>1
<1> DEFINE Lays(p) ==
             /\ RunningSums(p, size, n)
             /\ Len(FlattenSeq(ss)) = p[n]
             /\ \A k \in 1..n : \A j \in 1..Len(ss[k]) : FlattenSeq(ss)[p[k - 1] + j] = ss[k][j]
<1>12. Lays(o)
  BY <1>10, <1>11
<1>13. \E p : Lays(p)
  <2> HIDE DEF Lays
  <2> QED BY <1>12
<1> QED BY <1>10, <1>11, <1>13 DEF Joins

\* Sequences of one element each lie behind one another as their elements do.
LEMMA FlattenSingles ==
  ASSUME NEW S, NEW s \in Seq(S)
  PROVE  FlattenSeq([k \in DOMAIN s |-> <<s[k]>>]) = s
<1> DEFINE n == Len(s)
           ss == [k \in DOMAIN s |-> <<s[k]>>]
           size == [k \in 1..Len(ss) |-> Len(ss[k])]
           t == FlattenSeq(ss)
<1>1. n \in Nat /\ DOMAIN s = 1..n /\ \A k \in 1..n : s[k] \in S
  BY LenProperties, ElementOfSeq
<1>2. ss \in [1..n -> Seq(S)]
  BY <1>1
<1>3. ss \in Seq(Seq(S)) /\ Len(ss) = n /\ \A k \in 1..n : ss[k] = <<s[k]>>
  <2>1. \A k \in 1..n : ss[k] = <<s[k]>>
    BY <1>1
  <2> HIDE DEF ss
  <2> QED BY <1>1, <1>2, <2>1, SeqDef, LenProperties
<1> HIDE DEF ss
<1>4. t \in Seq(S) /\ Joins(t, ss)
  BY <1>3, FlattenPlaces
<1>5. PICK o : /\ RunningSums(o, size, Len(ss)) /\ Len(t) = o[Len(ss)]
               /\ \A k \in 1..Len(ss) : \A j \in 1..Len(ss[k]) : t[o[k - 1] + j] = ss[k][j]
  BY <1>4 DEF Joins
<1> HIDE DEF t
<1>6. \A k \in 1..n : size[k] = 1 /\ Len(ss[k]) = 1 /\ ss[k][1] = s[k]
  <2> TAKE k \in 1..n
  <2>1. ss[k] = <<s[k]>> /\ k \in 1..Len(ss)
    BY <1>3
  <2>2. size[k] = Len(ss[k])
    BY <2>1
  <2>3. Len(<<s[k]>>) = 1 /\ <<s[k]>>[1] = s[k]
    OBVIOUS
  <2> HIDE DEF size
  <2> QED BY <2>1, <2>2, <2>3
<1> HIDE DEF size
<1>7. \A k \in 0..n : o[k] = k
  <2> DEFINE T == {k \in 0..n : o[k] = k}
  <2>1. 0 \in T
    BY <1>1, <1>3, <1>5 DEF RunningSums
  <2>2. ASSUME NEW k \in 1..n, k - 1 \in T
        PROVE  k \in T
    <3>1. o[k - 1] = k - 1 /\ k \in 1..Len(ss)
      BY <1>3, <2>2
    <3>2. o[k] = o[k - 1] + size[k]
      BY <1>5, <3>1 DEF RunningSums
    <3>3. o[k] = k
      BY <1>1, <1>6, <3>1, <3>2
    <3> QED BY <3>3
  <2>3. \A k \in 0..n : k \in T
    <3> HIDE DEF T
    <3> QED BY <1>1, <2>1, <2>2, Upward
  <2> QED BY <2>3
<1>8. \A k \in 1..n : t[k] = s[k]
  <2> TAKE k \in 1..n
  <2>1. o[k - 1] = k - 1 /\ 1 \in 1..Len(ss[k]) /\ k \in 1..Len(ss)
    BY <1>1, <1>3, <1>6, <1>7
  <2>2. t[o[k - 1] + 1] = ss[k][1]
    BY <1>5, <2>1
  <2>3. o[k - 1] + 1 = k
    BY <2>1
  <2> QED BY <1>6, <2>2, <2>3
<1>9. Len(t) = n
  BY <1>1, <1>3, <1>5, <1>7
<1> HIDE DEF n
<1>10. t = [k \in 1..n |-> t[k]] /\ s = [k \in 1..n |-> s[k]]
  BY <1>1, <1>4, <1>9, LenProperties, SeqDef
<1> QED BY <1>8, <1>10 DEF t, ss

-----------------------------------------------------------------------------
(* Lists filtered *)

\* c leaves out of s what is in gone, prefix after prefix.
LeavesOut(c, s, gone) ==
  /\ c[0] = <<>>
  /\ \A k \in 1..Len(s) : c[k] = IF s[k] \in gone THEN c[k - 1] ELSE Append(c[k - 1], s[k])
  /\ Without(s, gone) = c[Len(s)]

\* The fold of Without, prefix after prefix.
LEMMA WithoutUnfolds ==
  ASSUME NEW S, NEW s \in Seq(S), NEW gone
  PROVE  \E c \in [0..Len(s) -> Seq(S)] : LeavesOut(c, s, gone)
<1> DEFINE n == Len(s)
           X == Seq(S)
           base == <<>>
           Fits(it) == it = [t \in SUBSET (DOMAIN s) |->
                               IF t = {} THEN <<>>
                               ELSE IF s[Max(t)] \in gone
                                 THEN it[t \ {Max(t)}]
                                 ELSE Append(it[t \ {Max(t)}], s[Max(t)])]
           iter == CHOOSE it : Fits(it)
           next == [k \in 1..n |-> [kept \in X |->
                      IF s[k] \in gone THEN kept ELSE Append(kept, s[k])]]
<1>1. Without(s, gone) = iter[DOMAIN s]
  BY Zenon DEF Without, FoldLeft, MapThenFoldSet
<1>2. n \in Nat /\ DOMAIN s = 1..n /\ \A k \in 1..n : s[k] \in S
  BY LenProperties, ElementOfSeq
<1>3. \A k \in 1..n : \A kept \in X :
        (IF s[k] \in gone THEN kept ELSE Append(kept, s[k])) \in X
  BY <1>2, AppendProperties
<1>4. next \in [1..n -> [X -> X]] /\ base \in X
  BY <1>3, EmptySeq
<1>5. PICK g \in [SUBSET (1..n) -> X] : Folds(g, base, next, n)
  <2> HIDE DEF next, n, X, base
  <2> QED BY <1>2, <1>4, FoldDefined
<1>6. Fits(g)
  <2>1. ASSUME NEW t \in SUBSET (1..n), t # {}
        PROVE  g[t] = IF s[Max(t)] \in gone THEN g[t \ {Max(t)}]
                      ELSE Append(g[t \ {Max(t)}], s[Max(t)])
    <3>1. Max(t) \in 1..n /\ t \ {Max(t)} \in SUBSET (1..n)
      <4> HIDE DEF n
      <4> QED BY <2>1, <1>2, MaxProperties
    <3> QED BY <2>1, <3>1, <1>5 DEF Folds
  <2> QED BY <1>2, <1>5, <2>1 DEF Folds
<1>7. Fits(iter)
  <2> HIDE DEF Fits
  <2> QED BY <1>6
<1>8. iter[{}] = base
  BY <1>7
<1>9. ASSUME NEW k \in 1..n, iter[1..(k - 1)] \in X
      PROVE  iter[1..k] = next[k][iter[1..(k - 1)]]
  <2>1. Max(1..k) = k /\ (1..k) \ {Max(1..k)} = 1..(k - 1)
    BY <1>2, MaxOfPrefix
  <2>2. 1..k \in SUBSET (DOMAIN s) /\ 1..k # {}
    BY <1>2
  <2>3. iter[1..k] = IF s[k] \in gone THEN iter[1..(k - 1)]
                     ELSE Append(iter[1..(k - 1)], s[k])
    BY <1>7, <2>1, <2>2
  <2> HIDE DEF iter
  <2> QED BY <1>9, <2>3
<1>10. PICK c \in [0..n -> X] : Unrolls(c, base, next, n) /\ c[n] = iter[1..n]
  <2> HIDE DEF iter, next, n, X, base
  <2>1. OnPrefixes(iter, base, next, n, X)
    BY <1>8, <1>9 DEF OnPrefixes
  <2> QED BY <2>1, <1>2, <1>4, FoldPrefixes
<1>11. \A k \in 1..n : c[k - 1] \in X
  BY <1>2, SMTT(30)
<1> QED BY <1>1, <1>2, <1>10, <1>11 DEF Unrolls, LeavesOut

\* Without takes out just the elements it is given, and repeats none.
LEMMA WithoutProperties ==
  ASSUME NEW S, NEW s \in Seq(S), NEW gone
  PROVE  /\ Without(s, gone) \in Seq(S) /\ Range(Without(s, gone)) = Range(s) \ gone
         /\ Distinct(s) => Distinct(Without(s, gone))
<1> DEFINE n == Len(s)
<1>1. PICK c \in [0..n -> Seq(S)] :
        /\ c[0] = <<>>
        /\ \A k \in 1..n : c[k] = IF s[k] \in gone THEN c[k - 1] ELSE Append(c[k - 1], s[k])
        /\ Without(s, gone) = c[n]
  <2>1. \E c \in [0..Len(s) -> Seq(S)] : LeavesOut(c, s, gone)
    BY WithoutUnfolds, Zenon
  <2> QED BY <2>1 DEF LeavesOut
<1>2. n \in Nat /\ Range(s) = {s[i] : i \in 1..n} /\ \A k \in 1..n : s[k] \in S
  BY LenProperties, ElementOfSeq DEF Range
<1> DEFINE Good(k) == /\ Range(c[k]) = {s[i] : i \in 1..k} \ gone
                      /\ Distinct(s) => Distinct(c[k])
           Bad == {k \in 0..n : ~Good(k)}
<1> HIDE DEF n
<1>3. SUFFICES ASSUME Bad # {} PROVE FALSE
  <2>1. n \in 0..n
    BY <1>2
  <2>2. Good(n) /\ c[n] \in Seq(S)
    BY <1>3, <2>1
  <2> QED BY <1>1, <1>2, <2>2
<1>4. PICK k \in Bad : \A m \in Bad : k <= m
  <2>1. Bad \in SUBSET Nat
    OBVIOUS
  <2> HIDE DEF Bad
  <2> QED BY <1>3, <2>1, Smallest
<1>5. Good(0)
  <2>1. Range(<<>>) = {} /\ Distinct(<<>>)
    BY DEF Range, Distinct
  <2>2. {s[i] : i \in 1..0} = {}
    OBVIOUS
  <2> QED BY <1>1, <2>1, <2>2
<1>6. k \in 1..n /\ k - 1 \in 0..n /\ ~(k <= k - 1)
  <2>1. k \in 0..n /\ k # 0
    BY <1>5
  <2> HIDE DEF Bad
  <2> QED BY <2>1, <1>2
<1>7. Good(k - 1) /\ c[k - 1] \in Seq(S)
  <2> HIDE DEF Good
  <2> QED BY <1>4, <1>6
<1>8. {s[i] : i \in 1..k} = {s[i] : i \in 1..(k - 1)} \cup {s[k]}
  <2>1. \A i \in 1..k : i \in 1..(k - 1) \/ i = k
    BY <1>6
  <2>2. k \in 1..k /\ \A i \in 1..(k - 1) : i \in 1..k
    BY <1>6
  <2> QED BY <2>1, <2>2
<1>9. Good(k)
  <2>1. CASE s[k] \in gone
    <3>1. c[k] = c[k - 1]
      BY <1>1, <1>6, <2>1
    <3> QED BY <3>1, <2>1, <1>7, <1>8
  <2>2. CASE s[k] \notin gone
    <3>1. c[k] = Append(c[k - 1], s[k])
      BY <1>1, <1>6, <2>2
    <3>2. s[k] \in S /\ c[k - 1] \in Seq(S)
      BY <1>2, <1>6, <1>7
    <3>3. Distinct(s) => s[k] \notin Range(c[k - 1])
      <4>1. \A i \in 1..(k - 1) : i \in 1..n /\ i # k
        BY <1>2, <1>6
      <4>2. Distinct(s) => \A i \in 1..(k - 1) : s[i] # s[k]
        BY <1>6, <4>1 DEF Distinct, n
      <4> QED BY <4>2, <1>7
    <3>4. /\ Range(c[k]) = Range(c[k - 1]) \cup {s[k]}
          /\ s[k] \notin Range(c[k - 1]) /\ Distinct(c[k - 1]) => Distinct(c[k])
      <4> HIDE DEF Bad, Good
      <4> QED BY <3>1, <3>2, AppendRange
    <3> QED BY <2>2, <3>3, <3>4, <1>7, <1>8
  <2> QED BY <2>1, <2>2
<1> QED BY <1>9

\* Two lists with nothing in common, one after the other.
LEMMA ConcatDistinct ==
  ASSUME NEW S, NEW s \in Seq(S), NEW t \in Seq(S), Distinct(s), Distinct(t),
         Range(s) \cap Range(t) = {}
  PROVE  /\ s \o t \in Seq(S) /\ Range(s \o t) = Range(s) \cup Range(t)
         /\ Distinct(s \o t)
<1> DEFINE n == Len(s)
           m == Len(t)
           c == s \o t
<1>1. /\ n \in Nat /\ m \in Nat /\ DOMAIN s = 1..n /\ DOMAIN t = 1..m
      /\ c \in Seq(S) /\ Len(c) = n + m
      /\ \A i \in 1..(n + m) : c[i] = IF i <= n THEN s[i] ELSE t[i - n]
  BY ConcatProperties, LenProperties
<1>2. DOMAIN c = 1..(n + m)
  <2> HIDE DEF c, n, m
  <2> QED BY <1>1, LenProperties
<1>3. /\ Range(s) = {s[i] : i \in 1..n} /\ Range(t) = {t[i] : i \in 1..m}
      /\ Range(c) = {c[i] : i \in 1..(n + m)}
  BY <1>1, <1>2 DEF Range
<1> HIDE DEF n, m, c
<1>4. \A i \in 1..(n + m) :
        \/ i \in 1..n /\ c[i] = s[i]
        \/ i - n \in 1..m /\ ~(i <= n) /\ c[i] = t[i - n]
  BY <1>1
<1>5. /\ \A i \in 1..n : i \in 1..(n + m) /\ c[i] = s[i]
      /\ \A i \in 1..m : i + n \in 1..(n + m) /\ c[i + n] = t[i]
  <2>1. \A i \in 1..m : i + n \in 1..(n + m) /\ ~(i + n <= n) /\ (i + n) - n = i
    BY <1>1
  <2> QED BY <1>1, <2>1
<1>6. Range(c) = Range(s) \cup Range(t)
  BY <1>3, <1>4, <1>5
<1>7. Distinct(c)
  <2>1. SUFFICES ASSUME NEW i \in 1..(n + m), NEW j \in 1..(n + m), c[i] = c[j]
                 PROVE  i = j
    BY <1>1 DEF Distinct, c
  <2>2. CASE i \in 1..n /\ j \in 1..n /\ c[i] = s[i] /\ c[j] = s[j]
    BY <2>1, <2>2 DEF Distinct, n
  <2>3. CASE i - n \in 1..m /\ j - n \in 1..m /\ c[i] = t[i - n] /\ c[j] = t[j - n]
    <3>1. i - n = j - n
      BY <2>1, <2>3 DEF Distinct, m
    <3> QED BY <3>1, <1>1
  <2>4. CASE \/ i \in 1..n /\ j - n \in 1..m /\ c[i] = s[i] /\ c[j] = t[j - n]
             \/ j \in 1..n /\ i - n \in 1..m /\ c[j] = s[j] /\ c[i] = t[i - n]
    <3>1. c[i] \in Range(s) /\ c[i] \in Range(t)
      BY <1>3, <2>1, <2>4
    <3> QED BY <3>1
  <2> QED BY <1>4, <2>2, <2>3, <2>4
<1> QED BY <1>1, <1>6, <1>7 DEF c
=============================================================================
