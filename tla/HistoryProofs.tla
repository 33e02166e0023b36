---------------------------- MODULE HistoryProofs ----------------------------
(***************************************************************************)
(* Proof that the results in a conversation an agent sends match its       *)
(* replies (History), for any number of messages, calls and compactions:   *)
(* what FlattenSeq computes, by induction over the number of its blocks;   *)
(* where the messages of the paired and of the compacted conversation come *)
(* from; and that each step keeps the results with the reply they answer.  *)
(***************************************************************************)
EXTENDS History, FiniteSetTheorems, SequenceTheorems, TLAPS

(***************************************************************************)
(* Induction over sets of naturals, and what it gives.                     *)
(***************************************************************************)
\* The order the library's theorem on natural numbers is about.
LEMMA LessThan == OpToRel(<, Nat) = {ss \in Nat \X Nat : ss[1] < ss[2]}
  BY Zenon DEF OpToRel

\* Induction over a set of naturals.
LEMMA Induction ==
  ASSUME NEW T \in SUBSET Nat, 0 \in T, \A n \in T : n + 1 \in T
  PROVE  T = Nat
<1> DEFINE Less == {ss \in Nat \X Nat : ss[1] < ss[2]}
<1>1. IsWellFoundedOn(Less, Nat)
  BY LessThan, NatLessThanWellFounded
<1>2. SUFFICES ASSUME Nat \ T # {} PROVE FALSE
  OBVIOUS
<1>3. PICK m \in Nat \ T : \A n \in Nat \ T : <<n, m>> \notin Less
  <2> HIDE DEF Less
  <2> QED
    BY <1>1, <1>2, WFMin
<1>4. m # 0 /\ m - 1 \in Nat /\ (m - 1) + 1 = m /\ m - 1 < m
  BY <1>3
<1>5. m - 1 \notin T
  BY <1>3, <1>4
<1>6. <<m - 1, m>> \in Nat \X Nat /\ <<m - 1, m>>[1] < <<m - 1, m>>[2]
  BY <1>4
<1>7. <<m - 1, m>> \in Less
  BY <1>6, Zenon DEF Less
<1> QED
  BY <1>3, <1>4, <1>5, <1>7

\* A bounded set of naturals has a greatest element.
LEMMA Greatest ==
  ASSUME NEW n \in Nat, NEW S \in SUBSET (0..n), S # {}
  PROVE  Max(S) \in S /\ \A y \in S : y <= Max(S)
<1>1. \E x \in S : \A y \in S : x >= y
  <2> SUFFICES ASSUME ~(\E x \in S : \A y \in S : x >= y) PROVE FALSE
    OBVIOUS
  <2> DEFINE T == { m \in Nat : \E y \in S : y >= m }
  <2>1. T \in SUBSET Nat /\ 0 \in T
    <3>1. PICK y \in S : y \in 0..n
      OBVIOUS
    <3>2. y >= 0
      BY <3>1
    <3> QED
      BY <3>2
  <2>2. ASSUME NEW m \in T PROVE m + 1 \in T
    <3>1. PICK y \in S : y >= m
      OBVIOUS
    <3>2. PICK z \in S : ~(y >= z)
      OBVIOUS
    <3>3. m \in Nat /\ z \in Nat /\ y \in Nat
      OBVIOUS
    <3>4. z >= m + 1
      BY <3>1, <3>2, <3>3
    <3> QED
      BY <3>3, <3>4
  <2>3. T = Nat
    <3> HIDE DEF T
    <3> QED
      BY <2>1, <2>2, Induction
  <2>4. n + 1 \in T
    BY <2>3
  <2> QED
    BY <2>4
<1> QED
  BY <1>1 DEF Max

\* A set of naturals has a least element, which Min is.
LEMMA Smallest ==
  ASSUME NEW n \in Nat, NEW S \in SUBSET (0..n), S # {}
  PROVE  Min(S) \in S /\ \A y \in S : Min(S) <= y
<1>1. \E x \in S : \A y \in S : x <= y
  <2> SUFFICES ASSUME ~(\E x \in S : \A y \in S : x <= y) PROVE FALSE
    OBVIOUS
  <2> DEFINE T == { m \in Nat : \A y \in S : y >= m }
  <2>1. T \in SUBSET Nat /\ 0 \in T
    OBVIOUS
  <2>2. ASSUME NEW m \in T PROVE m + 1 \in T
    <3>1. ASSUME NEW y \in S, y = m PROVE FALSE
      BY <3>1
    <3> QED
      BY <3>1
  <2>3. T = Nat
    <3> HIDE DEF T
    <3> QED
      BY <2>1, <2>2, Induction
  <2>4. \A y \in S : y >= n + 1
    BY <2>3
  <2>5. PICK y \in S : y \in 0..n
    OBVIOUS
  <2> HIDE DEF T
  <2> QED
    BY <2>4, <2>5
<1> QED
  BY <1>1 DEF Min

\* The sequence of n blocks laid out one after the other: at[k] is where block
\* k ends.
Layout(at, n, b) ==
  /\ at \in [0..n -> Nat] /\ at[0] = 0
  /\ \A k \in 1..n : at[k] = at[k - 1] + Len(b[k])

\* The library's recursive function is one: FlattenSeq is what it computes.
LEMMA FlattenIsRecursive ==
  ASSUME NEW S, NEW n \in Nat \ {0}, NEW b \in [1..n -> Seq(S)]
  PROVE  \E f : /\ f[1] = b[1] /\ \A k \in 2..n : f[k] = f[k - 1] \o b[k]
                /\ FlattenSeq(b) = f[n]
<1> DEFINE Body(f, m) == [k \in 1..m |-> IF k = 1 THEN b[k] ELSE f[k - 1] \o b[k]]
           T == { m \in Nat : \E f : f = Body(f, m) }
<1>1. T \in SUBSET Nat /\ 0 \in T
  <2>1. << >> = Body(<< >>, 0)
    OBVIOUS
  <2> QED
    BY <2>1
<1>2. ASSUME NEW m \in T PROVE m + 1 \in T
  <2>1. PICK f : f = Body(f, m)
    OBVIOUS
  <2> DEFINE g == [k \in 1..(m + 1) |->
                     IF k <= m THEN f[k] ELSE IF k = 1 THEN b[k] ELSE f[m] \o b[k]]
  <2>2. m \in Nat
    OBVIOUS
  <2>3. ASSUME NEW k \in 1..(m + 1)
        PROVE  g[k] = IF k = 1 THEN b[k] ELSE g[k - 1] \o b[k]
    <3>1. CASE k <= m
      <4>1. g[k] = f[k] /\ k \in 1..m
        BY <2>2, <3>1
      <4>2. f[k] = IF k = 1 THEN b[k] ELSE f[k - 1] \o b[k]
        BY <2>1, <4>1
      <4>3. k # 1 => g[k - 1] = f[k - 1]
        BY <2>2, <4>1
      <4> QED
        BY <4>1, <4>2, <4>3
    <3>2. CASE k = m + 1
      <4>1. k # 1 => g[k - 1] = f[m]
        BY <2>2, <3>2
      <4> QED
        BY <2>2, <3>2, <4>1
    <3> QED
      BY <2>2, <3>1, <3>2
  <2>4. g = Body(g, m + 1)
    <3> HIDE DEF g
    <3>1. g = [k \in 1..(m + 1) |-> g[k]]
      BY DEF g
    <3> QED
      BY <2>3, <3>1
  <2> HIDE DEF g
  <2>5. m + 1 \in Nat
    BY <2>2
  <2>6. \E h : h = Body(h, m + 1)
    BY <2>4, Zenon
  <2> QED
    BY <2>5, <2>6
<1>3. T = Nat
  <2> HIDE DEF T
  <2> QED
    BY <1>1, <1>2, Induction
<1>4. \E f : f = Body(f, n)
  BY <1>3
<1> DEFINE f == CHOOSE f : f = Body(f, n)
<1>5. f = Body(f, n)
  BY <1>4
<1>6. Len(b) = n /\ n # 0
  OBVIOUS
<1>7. FlattenSeq(b) = f[n]
  BY <1>6 DEF FlattenSeq
<1> HIDE DEF f
<1>8. f[1] = b[1]
  BY <1>5
<1>9. ASSUME NEW k \in 2..n PROVE f[k] = f[k - 1] \o b[k]
  <2>1. k \in 1..n /\ k # 1
    OBVIOUS
  <2> QED
    BY <1>5, <2>1
<1> QED
  BY <1>7, <1>8, <1>9

\* After its first m blocks the function has laid them out.
Laid(S, f, at, m, b) ==
  /\ f[m] \in Seq(S) /\ Len(f[m]) = at[m] /\ at[m] \in Nat
  /\ \A k \in 1..m : /\ at[k - 1] \in Nat /\ at[k] = at[k - 1] + Len(b[k]) /\ at[k] <= at[m]
                     /\ \A i \in 1..Len(b[k]) : f[m][at[k - 1] + i] = b[k][i]

\* One more block goes behind the ones laid out.
LEMMA LaysNext ==
  ASSUME NEW S, NEW n \in Nat, NEW b \in [1..n -> Seq(S)], NEW f, NEW at,
         NEW m \in 1..(n - 1), Laid(S, f, at, m, b),
         f[m + 1] = f[m] \o b[m + 1], at[m + 1] = Len(f[m + 1])
  PROVE  Laid(S, f, at, m + 1, b)
<1> DEFINE s == f[m]
           t == b[m + 1]
           u == f[m + 1]
<1>1. t \in Seq(S) /\ s \in Seq(S) /\ u = s \o t
  BY DEF Laid
<1>2. Len(s) \in Nat /\ Len(t) \in Nat /\ at[m] = Len(s) /\ at[m + 1] = Len(u)
  BY <1>1 DEF Laid
<1> HIDE DEF s, t, u
<1>3. /\ u \in Seq(S) /\ Len(u) = Len(s) + Len(t)
      /\ \A i \in 1..(Len(s) + Len(t)) : u[i] = IF i <= Len(s) THEN s[i] ELSE t[i - Len(s)]
  BY <1>1, ConcatProperties
<1>4. ASSUME NEW k \in 1..(m + 1)
      PROVE  /\ at[k - 1] \in Nat /\ at[k] = at[k - 1] + Len(b[k]) /\ at[k] <= at[m + 1]
             /\ \A i \in 1..Len(b[k]) : u[at[k - 1] + i] = b[k][i]
  <2>1. CASE k = m + 1
    <3>1. b[k] = t /\ k - 1 = m /\ at[k - 1] = Len(s) /\ at[k] = Len(u)
      BY <1>2, <2>1 DEF t
    <3>2. ASSUME NEW i \in 1..Len(t) PROVE u[Len(s) + i] = t[i]
      <4>1. Len(s) + i \in 1..(Len(s) + Len(t)) /\ ~(Len(s) + i <= Len(s))
            /\ (Len(s) + i) - Len(s) = i
        BY <1>2
      <4> QED
        BY <1>3, <4>1
    <3> QED
      BY <1>3, <1>2, <2>1, <3>1, <3>2
  <2>2. CASE k # m + 1
    <3>1. k \in 1..m /\ b[k] \in Seq(S)
      BY <2>2
    <3>2. /\ at[k - 1] \in Nat /\ at[k] = at[k - 1] + Len(b[k]) /\ at[k] <= at[m]
          /\ \A i \in 1..Len(b[k]) : s[at[k - 1] + i] = b[k][i]
      BY <3>1 DEF Laid, s
    <3> DEFINE c == at[k - 1]
               l == Len(b[k])
    <3>3. c \in Nat /\ l \in Nat /\ at[k] = c + l
      BY <3>1, <3>2
    <3>4. at[k] <= at[m + 1] /\ c + l <= Len(s)
      <4>1. at[k] \in Nat /\ at[k] <= at[m]
        BY <3>2, <3>3
      <4> HIDE DEF c, l
      <4> QED
        BY <1>3, <1>2, <3>3, <4>1
    <3> HIDE DEF c, l
    <3>5. ASSUME NEW i \in 1..l PROVE u[c + i] = b[k][i]
      <4>1. c + i <= Len(s) /\ c + i \in Nat /\ c + i >= 1
        BY <1>2, <3>3, <3>4
      <4>2. c + i \in 1..(Len(s) + Len(t))
        BY <1>2, <4>1
      <4> QED
        BY <1>3, <3>2, <4>1, <4>2 DEF c, l
    <3> USE DEF c, l
    <3> QED
      BY <3>2, <3>4, <3>5
  <2> QED
    BY <2>1, <2>2
<1>5. u \in Seq(S) /\ Len(u) = at[m + 1] /\ at[m + 1] \in Nat
  BY <1>3, <1>2
<1> QED
  BY <1>4, <1>5 DEF Laid, u

\* s is those blocks.
Joins(s, at, n, b) ==
  /\ Layout(at, n, b) /\ Len(s) = at[n]
  /\ \A k \in 1..n : \A i \in 1..Len(b[k]) : s[at[k - 1] + i] = b[k][i]

\* What it returns: the blocks, one after the other.
LEMMA Flattened ==
  ASSUME NEW S, NEW n \in Nat, NEW b \in [1..n -> Seq(S)]
  PROVE  /\ FlattenSeq(b) \in Seq(S)
         /\ \E at : Joins(FlattenSeq(b), at, n, b)
<1>1. CASE n = 0
  <2>1. FlattenSeq(b) = b /\ Len(b) = 0 /\ b \in Seq(S)
    BY <1>1 DEF FlattenSeq
  <2> DEFINE at == [k \in 0..n |-> 0]
  <2>2. Layout(at, n, b) /\ at[n] = 0
    BY <1>1 DEF Layout
  <2> HIDE DEF at
  <2> QED
    BY <1>1, <2>1, <2>2 DEF Joins
<1>2. CASE n # 0
  <2>1. PICK f : /\ f[1] = b[1] /\ \A k \in 2..n : f[k] = f[k - 1] \o b[k]
                 /\ FlattenSeq(b) = f[n]
    <3>1. n \in Nat \ {0}
      BY <1>2
    <3> QED
      BY <3>1, FlattenIsRecursive
  <2> DEFINE at == [k \in 0..n |-> IF k = 0 THEN 0 ELSE Len(f[k])]
             T == { m \in Nat : m + 1 <= n => Laid(S, f, at, m + 1, b) }
  <2>2. at[0] = 0 /\ \A k \in 1..n : at[k] = Len(f[k])
    OBVIOUS
  <2>3. DOMAIN at = 0..n /\ at = [k \in 0..n |-> at[k]]
    OBVIOUS
  <2> HIDE DEF at
  <2>4. Laid(S, f, at, 1, b)
    <3>1. b[1] \in Seq(S) /\ Len(b[1]) \in Nat /\ at[1] = Len(b[1]) /\ at[1 - 1] = 0
      BY <1>2, <2>1, <2>2
    <3> QED
      BY <2>1, <3>1 DEF Laid
  <2>5. ASSUME NEW m \in T PROVE m + 1 \in T
    <3>1. SUFFICES ASSUME m + 2 <= n PROVE Laid(S, f, at, m + 2, b)
      OBVIOUS
    <3>2. m + 1 \in 1..(n - 1) /\ (m + 1) + 1 = m + 2 /\ m + 2 \in 2..n /\ m + 2 \in 1..n
          /\ (m + 2) - 1 = m + 1
      BY <3>1
    <3>3. Laid(S, f, at, m + 1, b)
      BY <3>2
    <3>4. f[m + 2] = f[m + 1] \o b[m + 2] /\ at[m + 2] = Len(f[m + 2])
      BY <2>1, <2>2, <3>2
    <3> QED
      BY <3>2, <3>3, <3>4, LaysNext
  <2>6. Laid(S, f, at, n, b)
    <3>1. T \in SUBSET Nat /\ 0 \in T
      BY <2>4
    <3>2. T = Nat
      <4> HIDE DEF T
      <4> QED
        BY <2>5, <3>1, Induction
    <3>3. n - 1 \in Nat /\ (n - 1) + 1 = n
      BY <1>2
    <3>4. n - 1 \in T
      BY <3>2, <3>3
    <3> QED
      BY <3>3, <3>4
  <2>7. \A k \in 1..n : at[k] \in Nat
    <3> SUFFICES ASSUME NEW k \in 1..n PROVE at[k] \in Nat
      OBVIOUS
    <3>1. at[k - 1] \in Nat /\ at[k] = at[k - 1] + Len(b[k]) /\ b[k] \in Seq(S)
      BY <2>6 DEF Laid
    <3> QED
      BY <3>1
  <2>8. at \in [0..n -> Nat] /\ n \in 1..n
    <3>1. \A k \in 0..n : k = 0 \/ k \in 1..n
      OBVIOUS
    <3>2. \A k \in 0..n : at[k] \in Nat
      BY <2>2, <2>7, <3>1
    <3> QED
      BY <1>2, <2>3, <3>2
  <2>9. f[n] \in Seq(S) /\ Joins(f[n], at, n, b)
    BY <2>2, <2>6, <2>8 DEF Layout, Laid, Joins
  <2> QED
    BY <2>1, <2>9
<1> QED
  BY <1>1, <1>2

\* Blocks end in their order.
LEMMA LayoutOrder ==
  ASSUME NEW n \in Nat, NEW b, NEW at, Layout(at, n, b),
         \A k \in 1..n : Len(b[k]) \in Nat
  PROVE  \A j, k \in 0..n : j <= k => at[j] <= at[k]
<1> DEFINE T == { d \in Nat : \A j \in 0..n : j + d <= n => at[j] <= at[j + d] }
<1>1. T \in SUBSET Nat /\ 0 \in T
  BY DEF Layout
<1>2. ASSUME NEW d \in T PROVE d + 1 \in T
  <2>1. d \in Nat /\ d + 1 \in Nat
    OBVIOUS
  <2>2. ASSUME NEW j \in 0..n, j + (d + 1) <= n PROVE at[j] <= at[j + (d + 1)]
    <3>1. /\ j + d <= n /\ j + (d + 1) \in 1..n /\ (j + (d + 1)) - 1 = j + d
          /\ j + d \in 0..n
      BY <2>1, <2>2
    <3>2. at[j] <= at[j + d]
      BY <3>1
    <3>3. at[j + (d + 1)] = at[j + d] + Len(b[j + (d + 1)]) /\ Len(b[j + (d + 1)]) \in Nat
      BY <3>1 DEF Layout
    <3>4. at[j] \in Nat /\ at[j + d] \in Nat
      BY <3>1 DEF Layout
    <3> QED
      BY <3>2, <3>3, <3>4
  <2> QED
    BY <2>1, <2>2
<1>3. T = Nat
  <2> HIDE DEF T
  <2> QED
    BY <1>1, <1>2, Induction
<1>4. ASSUME NEW j \in 0..n, NEW k \in 0..n, j <= k PROVE at[j] <= at[k]
  <2>1. k - j \in Nat /\ j + (k - j) = k /\ k <= n
    BY <1>4
  <2>2. k - j \in T
    BY <1>3, <2>1
  <2>3. j + (k - j) <= n => at[j] <= at[j + (k - j)]
    BY <2>2
  <2> QED
    BY <2>1, <2>3
<1> QED
  BY <1>4

\* Every place of the whole is in one block.
LEMMA LayoutCovers ==
  ASSUME NEW n \in Nat, NEW b, NEW at, Layout(at, n, b), NEW i \in 1..at[n]
  PROVE  \E k \in 1..n : at[k - 1] < i /\ i <= at[k]
<1> DEFINE S == { k \in 0..n : at[k] >= i }
           k == Min(S)
<1>1. S \in SUBSET (0..n) /\ S # {}
  BY DEF Layout
<1>2. k \in S /\ \A y \in S : k <= y
  <2> HIDE DEF S
  <2> QED
    BY <1>1, Smallest
<1> HIDE DEF k
<1>3. k \in 1..n
  BY <1>2 DEF Layout
<1>4. k - 1 \in 0..n /\ k - 1 \notin S
  BY <1>2, <1>3
<1>5. at[k - 1] \in Nat /\ at[k] \in Nat /\ at[n] \in Nat
  BY <1>3, <1>4 DEF Layout
<1> QED
  BY <1>2, <1>3, <1>4, <1>5

-----------------------------------------------------------------------------
Messages == [role : {"user", "assistant", "prose", "tool"}, ids : Seq(Nat)]

\* The results directly after the reply at j go on to i at least.
InRun(h, j, i) == IsReply(h[j]) /\ \A k \in (j + 1)..i : IsTool(h[k])

\* Where a run ends: all after its reply is results, and what comes next is none.
LEMMA RunEnds ==
  ASSUME NEW h \in Seq(Messages), NEW j \in 1..Len(h)
  PROVE  /\ RunEnd(h, j) \in j..Len(h)
         /\ \A k \in (j + 1)..RunEnd(h, j) : IsTool(h[k])
         /\ RunEnd(h, j) # Len(h) => ~IsTool(h[RunEnd(h, j) + 1])
<1> DEFINE S == { e \in j..Len(h) : \A k \in (j + 1)..e : IsTool(h[k]) }
<1>1. Len(h) \in Nat /\ j \in S /\ S \in SUBSET (0..Len(h))
  OBVIOUS
<1>2. Max(S) \in S /\ \A y \in S : y <= Max(S)
  <2> HIDE DEF S
  <2> QED
    BY <1>1, Greatest
<1>3. RunEnd(h, j) = Max(S)
  BY DEF RunEnd
<1> DEFINE e == Max(S)
<1> HIDE DEF e
<1>4. e \in S /\ \A y \in S : y <= e
  BY <1>2 DEF e
<1>5. ASSUME e # Len(h), IsTool(h[e + 1]) PROVE FALSE
  <2>1. e + 1 \in j..Len(h)
    BY <1>1, <1>4, <1>5
  <2>2. \A k \in (j + 1)..(e + 1) : k = e + 1 \/ k \in (j + 1)..e
    BY <1>4
  <2>3. e + 1 \in S
    BY <1>4, <1>5, <2>1, <2>2
  <2> QED
    BY <1>4, <2>3
<1> QED
  BY <1>3, <1>4, <1>5 DEF e

\* A place is in the run of a reply as far as the run goes.
LEMMA RunReaches ==
  ASSUME NEW h \in Seq(Messages), NEW j \in 1..Len(h), NEW i \in j..Len(h), IsReply(h[j])
  PROVE  InRun(h, j, i) <=> i <= RunEnd(h, j)
<1> DEFINE e == RunEnd(h, j)
<1>1. /\ e \in j..Len(h) /\ \A k \in (j + 1)..e : IsTool(h[k])
      /\ e # Len(h) => ~IsTool(h[e + 1])
  BY RunEnds
<1> HIDE DEF e
<1>2. ASSUME i <= e PROVE InRun(h, j, i)
  BY <1>1, <1>2 DEF InRun
<1>3. ASSUME ~(i <= e) PROVE ~InRun(h, j, i)
  <2>1. e # Len(h) /\ e + 1 \in (j + 1)..i
    BY <1>1, <1>3
  <2> QED
    BY <1>1, <2>1 DEF InRun
<1> QED
  BY <1>2, <1>3 DEF e

\* What a message carries are calls of it.
LEMMA CarriedIs ==
  ASSUME NEW m \in Messages, IsInjective(m.ids)
  PROVE  /\ Carried(m) \in Seq(Nat) /\ IsInjective(Carried(m))
         /\ Range(Carried(m)) \subseteq Range(m.ids)
<1>1. m.ids \in Seq(Nat)
  BY DEF Messages
<1>2. CASE m.role = "assistant"
  BY <1>1, <1>2 DEF Carried
<1>3. CASE m.role # "assistant"
  <2>1. Carried(m) = << >>
    BY <1>3 DEF Carried
  <2> QED
    BY <2>1 DEF IsInjective, Range
<1> QED
  BY <1>2, <1>3

\* What is missing of a reply is each unanswered call it carries, once.
LEMMA MissingIs ==
  ASSUME NEW h \in Seq(Messages), NEW j \in 1..Len(h), IsInjective(h[j].ids)
  PROVE  /\ Missing(h, j) \in Seq(Nat)
         /\ \A i \in 1..Len(Missing(h, j)) :
              /\ Missing(h, j)[i] \in Range(h[j].ids)
              /\ ~Answered(h, j, Missing(h, j)[i])
              /\ \A k \in 1..Len(Missing(h, j)) : Missing(h, j)[i] = Missing(h, j)[k] => i = k
         /\ \A c \in Range(Carried(h[j])) : ~Answered(h, j, c) =>
              \E i \in 1..Len(Missing(h, j)) : Missing(h, j)[i] = c
<1> DEFINE calls == Carried(h[j])
           n == Len(calls)
           b == [k \in 1..n |-> IF Answered(h, j, calls[k]) THEN << >> ELSE << calls[k] >>]
           m == FlattenSeq(b)
<1>1. /\ calls \in Seq(Nat) /\ n \in Nat /\ DOMAIN calls = 1..n /\ \A k \in 1..n : calls[k] \in Nat
      /\ IsInjective(calls) /\ Range(calls) \subseteq Range(h[j].ids)
  <2>1. h[j] \in Messages
    BY ElementOfSeq
  <2>2. calls \in Seq(Nat) /\ IsInjective(calls) /\ Range(calls) \subseteq Range(h[j].ids)
    BY <2>1, CarriedIs
  <2> HIDE DEF calls
  <2> QED
    BY <2>2
<1>2. Missing(h, j) = m
  BY <1>1 DEF Missing
<1>3. b \in [1..n -> Seq(Nat)]
  BY <1>1
<1>4. \A k \in 1..n : b[k] = IF Answered(h, j, calls[k]) THEN << >> ELSE << calls[k] >>
  OBVIOUS
<1>5. \A k \in 1..n : Len(b[k]) \in {0, 1} /\ (Len(b[k]) = 1 <=> ~Answered(h, j, calls[k]))
                     /\ (Len(b[k]) = 1 => b[k][1] = calls[k])
  BY <1>4
<1> HIDE DEF b, n, calls
<1>6. m \in Seq(Nat) /\ \E at : Joins(m, at, n, b)
  BY <1>1, <1>3, Flattened
<1> HIDE DEF m
<1>7. PICK at : Joins(m, at, n, b)
  BY <1>6
<1>8. Layout(at, n, b) /\ Len(m) = at[n]
       /\ \A k \in 1..n : \A i \in 1..Len(b[k]) : m[at[k - 1] + i] = b[k][i]
  BY <1>7 DEF Joins
<1>9. \A k \in 0..n, l \in 0..n : k <= l => at[k] <= at[l]
  <2>1. \A k \in 1..n : Len(b[k]) \in Nat
    BY <1>5
  <2> QED
    BY <1>1, <1>8, <2>1, LayoutOrder
<1>10. ASSUME NEW i \in 1..Len(m)
      PROVE  \E k \in 1..n : i = at[k] /\ m[i] = calls[k] /\ ~Answered(h, j, calls[k])
  <2>1. PICK k \in 1..n : at[k - 1] < i /\ i <= at[k]
    BY <1>1, <1>8, LayoutCovers
  <2>2. at[k] = at[k - 1] + Len(b[k]) /\ at[k - 1] \in Nat /\ at[k] \in Nat /\ i \in Nat
    BY <1>1, <1>8 DEF Layout
  <2>3. Len(b[k]) = 1
    BY <1>5, <2>1, <2>2
  <2>4. i = at[k - 1] + 1 /\ i = at[k]
    BY <2>1, <2>2, <2>3
  <2>5. m[i] = b[k][1]
    BY <1>8, <2>3, <2>4
  <2> QED
    BY <1>5, <2>3, <2>4, <2>5
<1>11. ASSUME NEW i \in 1..Len(m), NEW k \in 1..Len(m), m[i] = m[k] PROVE i = k
  <2>1. PICK x \in 1..n : i = at[x] /\ m[i] = calls[x]
    BY <1>10
  <2>2. PICK y \in 1..n : k = at[y] /\ m[k] = calls[y]
    BY <1>10
  <2>3. x = y
    BY <1>1, <1>11, <2>1, <2>2 DEF IsInjective
  <2> QED
    BY <2>1, <2>2, <2>3
<1>12. ASSUME NEW c \in Range(calls), ~Answered(h, j, c) PROVE \E i \in 1..Len(m) : m[i] = c
  <2>1. PICK k \in 1..n : c = calls[k]
    BY <1>1 DEF Range
  <2>2. Len(b[k]) = 1 /\ b[k][1] = c
    BY <1>5, <1>12, <2>1
  <2>3. m[at[k - 1] + 1] = c
    BY <1>8, <2>2
  <2>4. at[k] = at[k - 1] + 1 /\ at[k - 1] \in Nat /\ at[n] \in Nat
    <3>1. k \in 1..n /\ k - 1 \in 0..n /\ n \in 0..n
      BY <1>1
    <3>2. at \in [0..n -> Nat] /\ at[k] = at[k - 1] + Len(b[k])
      BY <1>8, <3>1 DEF Layout
    <3> QED
      BY <2>2, <3>1, <3>2
  <2>5. k \in 0..n /\ n \in 0..n /\ k <= n
    BY <1>1
  <2>6. at[k] <= at[n]
    BY <1>9, <2>5
  <2>7. at[k - 1] + 1 \in 1..Len(m)
    BY <1>8, <2>4, <2>6
  <2> QED
    BY <2>3, <2>7
<1>13. \A i \in 1..Len(m) : m[i] \in Range(h[j].ids) /\ ~Answered(h, j, m[i])
  <2>1. \A i \in 1..Len(m) : m[i] \in Range(calls) /\ ~Answered(h, j, m[i])
    BY <1>1, <1>10 DEF Range
  <2> QED
    BY <1>1, <2>1
<1> QED
  BY <1>2, <1>6, <1>11, <1>12, <1>13 DEF calls

\* A conversation whose results belong where they are: a reply asks for each
\* call once, a result follows its reply and answers a call of it, and no call
\* is answered twice.
Orderly(h) ==
  /\ h \in Seq(Messages)
  /\ \A j \in 1..Len(h) : IsReply(h[j]) => IsInjective(h[j].ids)
  /\ \A i \in 1..Len(h) : IsTool(h[i]) =>
       /\ Len(h[i].ids) = 1
       /\ \E j \in 1..(i - 1) : InRun(h, j, i) /\ h[i].ids[1] \in Range(h[j].ids)
  /\ \A j, i, k \in 1..Len(h) : j < i /\ i < k /\ InRun(h, j, k) => h[i].ids[1] # h[k].ids[1]

\* Every call a reply carries is answered before anything else follows.
Complete(h) ==
  \A j \in 1..Len(h) : IsReply(h[j]) =>
    \A c \in Range(Carried(h[j])) : \E i \in (j + 1)..RunEnd(h, j) : h[i].ids[1] = c

\* Such a conversation is matched.
LEMMA OrderlyIsMatched ==
  ASSUME NEW h, Orderly(h), Complete(h)
  PROVE  Matched(h)
<1>1. h \in Seq(Messages) /\ DOMAIN h = 1..Len(h) /\ Len(h) \in Nat
  BY DEF Orderly
<1>2. ASSUME NEW k \in 1..Len(h), IsTool(h[k])
      PROVE  Len(h[k].ids) = 1 /\ h[k].ids \in Seq(Nat) /\ h[k].ids = << h[k].ids[1] >>
             /\ Range(h[k].ids) = { h[k].ids[1] }
  <2>1. h[k] \in Messages
    BY <1>1, ElementOfSeq
  <2>2. Len(h[k].ids) = 1 /\ h[k].ids \in Seq(Nat)
    BY <1>2, <2>1 DEF Orderly, Messages
  <2>3. DOMAIN h[k].ids = {1}
    BY <2>2
  <2> QED
    BY <2>2, <2>3 DEF Range
<1>3. ASSUME NEW i \in 1..Len(h), IsReply(h[i]) PROVE AnswersMatch(h, i)
  <2> DEFINE e == RunEnd(h, i)
             run == (i + 1)..e
  <2>1. e \in i..Len(h) /\ \A k \in run : IsTool(h[k])
    BY <1>1, RunEnds
  <2> HIDE DEF e
  <2>2. \A k \in run : k \in 1..Len(h) /\ i \in 1..(k - 1)
    BY <1>1, <2>1
  <2>3. ASSUME NEW k \in run PROVE \E c \in Range(h[i].ids) : h[k].ids = << c >>
    <3>1. PICK j \in 1..(k - 1) : InRun(h, j, k) /\ h[k].ids[1] \in Range(h[j].ids)
      BY <2>1, <2>2 DEF Orderly
    <3>2. j = i
      <4>1. ASSUME j < i PROVE FALSE
        <5>1. i \in (j + 1)..k
          BY <1>1, <2>2, <4>1
        <5> QED
          BY <1>3, <3>1, <5>1 DEF InRun, IsTool, IsReply
      <4>2. ASSUME i < j PROVE FALSE
        <5>1. j \in run
          BY <1>1, <2>1, <2>2, <4>2
        <5> QED
          BY <2>1, <3>1, <5>1 DEF InRun, IsTool, IsReply
      <4> QED
        BY <2>2, <4>1, <4>2
    <3>3. h[k].ids = << h[k].ids[1] >>
      BY <1>2, <2>1, <2>2
    <3> QED
      BY <3>1, <3>2, <3>3
  <2>4. ASSUME NEW k \in run, NEW l \in run, k < l PROVE h[k].ids # h[l].ids
    <3>1. k \in 1..Len(h) /\ l \in 1..Len(h) /\ i < k /\ InRun(h, i, l)
      BY <1>1, <1>3, <2>1 DEF InRun
    <3> QED
      BY <1>1, <2>4, <3>1 DEF Orderly
  <2>5. \A k, l \in run : h[k].ids = h[l].ids => k = l
    <3>1. \A k, l \in run : k < l \/ l < k \/ k = l
      BY <1>1, <2>1
    <3> QED
      BY <2>4, <3>1
  <2>6. ASSUME NEW c \in Range(Carried(h[i])) PROVE Answered(h, i, c)
    <3>1. PICK k \in run : h[k].ids[1] = c
      BY <1>3 DEF Complete, e
    <3>2. c \in Range(h[k].ids)
      BY <1>2, <2>1, <2>2, <3>1
    <3> QED
      BY <3>1, <3>2 DEF Answered, e
  <2> QED
    BY <2>3, <2>5, <2>6 DEF AnswersMatch, e
<1>4. ASSUME NEW i \in 1..Len(h), IsTool(h[i])
      PROVE  \E j \in Places(h, IsReply) : i \in j..RunEnd(h, j)
  <2>1. PICK j \in 1..(i - 1) : InRun(h, j, i)
    BY <1>4 DEF Orderly
  <2>2. j \in 1..Len(h) /\ i \in j..Len(h) /\ IsReply(h[j])
    BY <1>1, <2>1 DEF InRun
  <2>3. i <= RunEnd(h, j) /\ RunEnd(h, j) \in j..Len(h)
    BY <1>1, <2>1, <2>2, RunReaches, RunEnds
  <2> QED
    BY <1>1, <2>2, <2>3 DEF Places
<1> QED
  BY <1>1, <1>3, <1>4 DEF Matched, Places

-----------------------------------------------------------------------------
\* A run ends before the next reply.
LEMMA RunsApart ==
  ASSUME NEW h \in Seq(Messages), NEW j \in 1..Len(h), NEW l \in 1..Len(h),
         IsReply(h[l]), j < l
  PROVE  RunEnd(h, j) < l
<1>1. /\ RunEnd(h, j) \in j..Len(h) /\ Len(h) \in Nat
      /\ \A k \in (j + 1)..RunEnd(h, j) : IsTool(h[k])
  BY RunEnds
<1>2. ~IsTool(h[l])
  BY DEF IsTool, IsReply
<1>3. l \notin (j + 1)..RunEnd(h, j)
  BY <1>1, <1>2
<1> QED
  BY <1>1, <1>3

\* The i-th stub of the reply at j.
Stub(h, j, i) == Message("tool", << Missing(h, j)[i] >>)

\* What goes out for the message at p: itself, and stubs if a run ends there.
LEMMA BlockIs ==
  ASSUME NEW h, Orderly(h), NEW p \in 1..Len(h)
  PROVE  /\ WithStubs(h, p) \in Seq(Messages)
         /\ Len(WithStubs(h, p)) >= 1 /\ WithStubs(h, p)[1] = h[p]
         /\ \A j \in 1..Len(h) : IsReply(h[j]) /\ RunEnd(h, j) = p =>
              /\ Len(WithStubs(h, p)) = 1 + Len(Missing(h, j))
              /\ \A i \in 1..Len(Missing(h, j)) : WithStubs(h, p)[1 + i] = Stub(h, j, i)
         /\ Len(WithStubs(h, p)) > 1 =>
              \E j \in 1..Len(h) : IsReply(h[j]) /\ RunEnd(h, j) = p
<1> DEFINE ends == { i \in Places(h, IsReply) : RunEnd(h, i) = p }
           w == WithStubs(h, p)
<1>1. h \in Seq(Messages) /\ Len(h) \in Nat /\ DOMAIN h = 1..Len(h) /\ h[p] \in Messages
  BY DEF Orderly
<1>2. ends = { j \in 1..Len(h) : IsReply(h[j]) /\ RunEnd(h, j) = p }
  BY <1>1 DEF Places
<1>3. w = IF ends = {} THEN << h[p] >> ELSE << h[p] >> \o Stubs(Missing(h, Max(ends)))
  BY DEF WithStubs
<1> HIDE DEF ends, w
<1>4. CASE ends = {}
  <2>1. w = << h[p] >>
    BY <1>3, <1>4
  <2>2. w \in Seq(Messages) /\ Len(w) = 1 /\ w[1] = h[p]
    BY <1>1, <2>1
  <2> QED
    BY <1>2, <1>4, <2>2 DEF w
<1>5. CASE ends # {}
  <2> DEFINE j == Max(ends)
             m == Missing(h, j)
  <2>1. j \in ends
    <3>1. ends \in SUBSET (0..Len(h))
      BY <1>2
    <3> QED
      BY <1>1, <1>5, <3>1, Greatest
  <2>2. \A l \in ends : l = j
    <3> HIDE DEF j
    <3> SUFFICES ASSUME NEW l \in ends, l # j PROVE FALSE
      OBVIOUS
    <3>1. j \in 1..Len(h) /\ l \in 1..Len(h) /\ IsReply(h[j]) /\ IsReply(h[l])
          /\ RunEnd(h, j) = p /\ RunEnd(h, l) = p
      BY <1>2, <2>1
    <3>2. p >= j /\ p >= l
      BY <1>1, <3>1, RunEnds
    <3>3. j < l \/ l < j
      BY <3>1
    <3> QED
      BY <1>1, <3>1, <3>2, <3>3, RunsApart
  <2> HIDE DEF j
  <2>3. m \in Seq(Nat)
    <3>1. j \in 1..Len(h) /\ IsReply(h[j])
      BY <1>2, <2>1
    <3>2. IsInjective(h[j].ids)
      BY <3>1 DEF Orderly
    <3> QED
      BY <1>1, <3>1, <3>2, MissingIs
  <2>4. Stub(h, j, 1) = Message("tool", << m[1] >>) /\ \A i \in 1..Len(m) : Stub(h, j, i) \in Messages
    BY <2>3 DEF Stub, Message, Messages
  <2>5. /\ Stubs(m) \in Seq(Messages) /\ Len(Stubs(m)) = Len(m)
        /\ \A i \in 1..Len(m) : Stubs(m)[i] = Stub(h, j, i)
    <3>1. DOMAIN m = 1..Len(m) /\ Len(m) \in Nat
      BY <2>3
    <3>2. Stubs(m) = [i \in 1..Len(m) |-> Stub(h, j, i)]
      BY <3>1 DEF Stubs, Stub
    <3> HIDE DEF m
    <3> QED
      BY <2>4, <3>1, <3>2
  <2>6. << h[p] >> \in Seq(Messages) /\ Len(<< h[p] >>) = 1 /\ << h[p] >>[1] = h[p]
    BY <1>1
  <2>7. w = << h[p] >> \o Stubs(m)
    BY <1>3, <1>5 DEF j
  <2>8. Len(m) \in Nat
    BY <2>3
  <2> HIDE DEF m
  <2>9. /\ w \in Seq(Messages) /\ Len(w) = 1 + Len(m) /\ w[1] = h[p]
        /\ \A i \in 1..Len(m) : w[1 + i] = Stub(h, j, i)
    <3> DEFINE x == << h[p] >>
               y == Stubs(m)
    <3>1. /\ x \o y \in Seq(Messages) /\ Len(x \o y) = Len(x) + Len(y)
          /\ \A i \in 1..(Len(x) + Len(y)) : (x \o y)[i] = IF i <= Len(x) THEN x[i] ELSE y[i - Len(x)]
      <4> HIDE DEF x, y
      <4>1. x \in Seq(Messages) /\ y \in Seq(Messages)
        BY <2>5, <2>6 DEF x, y
      <4> QED
        BY <4>1, ConcatProperties
    <3>2. Len(x) = 1 /\ x[1] = h[p] /\ Len(y) = Len(m) /\ w = x \o y
          /\ \A i \in 1..Len(m) : y[i] = Stub(h, j, i)
      BY <2>5, <2>6, <2>7
    <3> HIDE DEF x, y
    <3>3. \A i \in 1..Len(m) : 1 + i \in 1..(Len(x) + Len(y)) /\ ~(1 + i <= Len(x)) /\ (1 + i) - Len(x) = i
      BY <2>8, <3>2
    <3>4. 1 \in 1..(Len(x) + Len(y)) /\ 1 <= Len(x)
      BY <2>8, <3>2
    <3> QED
      BY <3>1, <3>2, <3>3, <3>4
  <2>10. j \in 1..Len(h) /\ IsReply(h[j]) /\ RunEnd(h, j) = p
    BY <1>2, <2>1
  <2>11. \A l \in 1..Len(h) : IsReply(h[l]) /\ RunEnd(h, l) = p => l = j
    BY <1>2, <2>2
  <2> QED
    BY <2>8, <2>9, <2>10, <2>11 DEF m, w
<1> QED
  BY <1>4, <1>5

\* s is h with stubs: the message at p comes at at[p - 1] + 1, its stubs after.
Rebuilt(s, at, h) ==
  /\ s \in Seq(Messages) /\ at \in [0..Len(h) -> Nat] /\ at[0] = 0 /\ Len(s) = at[Len(h)]
  /\ \A p, q \in 0..Len(h) : p < q => at[p] < at[q]
  /\ \A p \in 1..Len(h) : s[at[p - 1] + 1] = h[p]
  /\ \A j \in 1..Len(h) : IsReply(h[j]) =>
       LET e == RunEnd(h, j)
       IN /\ at[e] = at[e - 1] + 1 + Len(Missing(h, j))
          /\ \A i \in 1..Len(Missing(h, j)) : s[at[e - 1] + 1 + i] = Stub(h, j, i)
  /\ \A i \in 1..Len(s) : \E p \in 1..Len(h) :
       \/ i = at[p - 1] + 1
       \/ \E j \in 1..Len(h) : /\ IsReply(h[j]) /\ RunEnd(h, j) = p
                               /\ \E k \in 1..Len(Missing(h, j)) : i = at[p - 1] + 1 + k

\* The paired conversation is the old one with stubs behind its runs.
LEMMA PairedIs ==
  ASSUME NEW h, Orderly(h)
  PROVE  \E at : Rebuilt(Paired(h), at, h)
<1> DEFINE n == Len(h)
           b == [p \in 1..n |-> WithStubs(h, p)]
           s == Paired(h)
<1>1. h \in Seq(Messages) /\ n \in Nat /\ DOMAIN h = 1..n
  BY DEF Orderly
<1>2. s = FlattenSeq(b)
  BY <1>1 DEF Paired
<1>3. b \in [1..n -> Seq(Messages)] /\ \A p \in 1..n : b[p] = WithStubs(h, p)
  BY BlockIs
<1>4. \A p \in 1..n : /\ Len(b[p]) \in Nat /\ Len(b[p]) >= 1 /\ b[p][1] = h[p]
                      /\ Len(b[p]) > 1 => \E j \in 1..n : IsReply(h[j]) /\ RunEnd(h, j) = p
  <2> SUFFICES ASSUME NEW p \in 1..n
               PROVE  /\ Len(b[p]) \in Nat /\ Len(b[p]) >= 1 /\ b[p][1] = h[p]
                      /\ Len(b[p]) > 1 => \E j \in 1..n : IsReply(h[j]) /\ RunEnd(h, j) = p
    OBVIOUS
  <2>1. b[p] = WithStubs(h, p) /\ b[p] \in Seq(Messages)
    BY <1>3
  <2> HIDE DEF b
  <2> QED
    BY <2>1, BlockIs
<1>5. \A j \in 1..n : IsReply(h[j]) =>
        /\ RunEnd(h, j) \in 1..n /\ Len(Missing(h, j)) \in Nat
        /\ Len(b[RunEnd(h, j)]) = 1 + Len(Missing(h, j))
        /\ \A i \in 1..Len(Missing(h, j)) : b[RunEnd(h, j)][1 + i] = Stub(h, j, i)
  <2> SUFFICES ASSUME NEW j \in 1..n, IsReply(h[j])
               PROVE  /\ RunEnd(h, j) \in 1..n /\ Len(Missing(h, j)) \in Nat
                      /\ Len(b[RunEnd(h, j)]) = 1 + Len(Missing(h, j))
                      /\ \A i \in 1..Len(Missing(h, j)) : b[RunEnd(h, j)][1 + i] = Stub(h, j, i)
    OBVIOUS
  <2>1. RunEnd(h, j) \in 1..n
    BY <1>1, RunEnds
  <2>2. b[RunEnd(h, j)] = WithStubs(h, RunEnd(h, j))
    BY <1>3, <2>1
  <2>3. Missing(h, j) \in Seq(Nat)
    <3>1. IsInjective(h[j].ids)
      BY DEF Orderly
    <3> QED
      BY <1>1, <3>1, MissingIs
  <2> HIDE DEF b
  <2> QED
    BY <2>1, <2>2, <2>3, BlockIs
<1> HIDE DEF b, s, n
<1>6. s \in Seq(Messages) /\ \E at : Joins(s, at, n, b)
  BY <1>1, <1>2, <1>3, Flattened
<1>7. PICK at : Joins(s, at, n, b)
  BY <1>6
<1>8. /\ Layout(at, n, b) /\ Len(s) = at[n]
      /\ \A k \in 1..n : \A i \in 1..Len(b[k]) : s[at[k - 1] + i] = b[k][i]
  BY <1>7 DEF Joins
<1>9. /\ at \in [0..n -> Nat] /\ at[0] = 0
      /\ \A k \in 1..n : k - 1 \in 0..n /\ at[k - 1] \in Nat /\ at[k] \in Nat
                        /\ at[k] = at[k - 1] + Len(b[k])
  BY <1>1, <1>8 DEF Layout
<1> DEFINE size == [p \in 1..n |-> Len(b[p])]
<1>10. \A p \in 1..n : size[p] \in Nat /\ size[p] >= 1
  BY <1>4
<1>11. \A p \in 1..n : b[p][1] = h[p]
  BY <1>4
<1>12. \A p \in 1..n : size[p] > 1 => \E j \in 1..n : IsReply(h[j]) /\ RunEnd(h, j) = p
  BY <1>4
<1>13. \A k \in 1..n : /\ k - 1 \in 0..n /\ at[k - 1] \in Nat /\ at[k] \in Nat
                       /\ at[k] = at[k - 1] + size[k]
                       /\ \A i \in 1..size[k] : s[at[k - 1] + i] = b[k][i]
  BY <1>8, <1>9
<1>14. \A j \in 1..n : IsReply(h[j]) =>
        /\ RunEnd(h, j) \in 1..n /\ Len(Missing(h, j)) \in Nat
        /\ size[RunEnd(h, j)] = 1 + Len(Missing(h, j))
        /\ \A i \in 1..Len(Missing(h, j)) : b[RunEnd(h, j)][1 + i] = Stub(h, j, i)
  BY <1>5
<1> HIDE DEF size
<1>15. ASSUME NEW p \in 0..n, NEW q \in 0..n, p < q PROVE at[p] < at[q]
  <2>1. \A j, k \in 0..n : j <= k => at[j] <= at[k]
    BY <1>1, <1>4, <1>8, LayoutOrder
  <2>2. q \in 1..n /\ q - 1 \in 0..n /\ p <= q - 1
    BY <1>1, <1>15
  <2>3. at[p] <= at[q - 1] /\ at[q] = at[q - 1] + size[q] /\ size[q] >= 1 /\ size[q] \in Nat
    BY <1>10, <1>13, <2>1, <2>2
  <2>4. at[p] \in Nat /\ at[q - 1] \in Nat
    BY <1>9, <2>2
  <2> QED
    BY <2>3, <2>4
<1>16. ASSUME NEW p \in 1..n PROVE s[at[p - 1] + 1] = h[p]
  <2>1. 1 \in 1..size[p] /\ b[p][1] = h[p]
    BY <1>10, <1>11
  <2> QED
    BY <1>13, <2>1
<1>17. ASSUME NEW j \in 1..n, IsReply(h[j])
       PROVE  LET e == RunEnd(h, j)
              IN /\ at[e] = at[e - 1] + 1 + Len(Missing(h, j))
                 /\ \A i \in 1..Len(Missing(h, j)) : s[at[e - 1] + 1 + i] = Stub(h, j, i)
  <2> DEFINE e == RunEnd(h, j)
             m == Len(Missing(h, j))
  <2>1. /\ e \in 1..n /\ m \in Nat /\ size[e] = 1 + m
        /\ \A i \in 1..m : b[e][1 + i] = Stub(h, j, i)
    BY <1>17, <1>14
  <2> HIDE DEF e, m
  <2>2. at[e - 1] \in Nat /\ at[e] = at[e - 1] + size[e]
    BY <1>13, <2>1
  <2>3. ASSUME NEW i \in 1..m PROVE s[at[e - 1] + 1 + i] = Stub(h, j, i)
    <3>1. 1 + i \in 1..size[e] /\ at[e - 1] + (1 + i) = at[e - 1] + 1 + i
      BY <2>1, <2>2
    <3> QED
      BY <1>13, <2>1, <3>1
  <2>4. at[e] = at[e - 1] + 1 + m
    BY <2>1, <2>2
  <2> QED
    BY <2>3, <2>4 DEF e, m
<1>18. ASSUME NEW i \in 1..Len(s)
       PROVE  \E p \in 1..n :
                \/ i = at[p - 1] + 1
                \/ \E j \in 1..n : /\ IsReply(h[j]) /\ RunEnd(h, j) = p
                                   /\ \E k \in 1..Len(Missing(h, j)) : i = at[p - 1] + 1 + k
  <2>1. PICK p \in 1..n : at[p - 1] < i /\ i <= at[p]
    BY <1>1, <1>8, LayoutCovers
  <2>2. CASE i = at[p - 1] + 1
    BY <2>2
  <2>3. CASE i # at[p - 1] + 1
    <3>1. /\ size[p] > 1 /\ i \in Nat /\ at[p - 1] \in Nat /\ at[p] = at[p - 1] + size[p]
      BY <1>10, <1>13, <2>1, <2>3
    <3>2. PICK j \in 1..n : IsReply(h[j]) /\ RunEnd(h, j) = p
      BY <1>12, <3>1
    <3>3. size[p] = 1 + Len(Missing(h, j)) /\ Len(Missing(h, j)) \in Nat
      BY <1>14, <3>2
    <3> DEFINE k == i - (at[p - 1] + 1)
    <3>4. k \in 1..Len(Missing(h, j)) /\ i = at[p - 1] + 1 + k
      BY <2>1, <2>3, <3>1, <3>3
    <3> QED
      BY <3>2, <3>4
  <2> QED
    BY <2>2, <2>3
<1>19. Rebuilt(s, at, h)
  BY <1>6, <1>8, <1>9, <1>15, <1>16, <1>17, <1>18 DEF Rebuilt, n
<1> QED
  BY <1>19 DEF s

\* A stub of the reply at j is a result, for the call it stands for.
LEMMA StubIs ==
  ASSUME NEW h, NEW j, NEW i
  PROVE  /\ IsTool(Stub(h, j, i)) /\ ~IsReply(Stub(h, j, i))
         /\ Stub(h, j, i).ids[1] = Missing(h, j)[i] /\ Len(Stub(h, j, i).ids) = 1
  BY DEF Stub, Message, IsTool, IsReply

\* What follows the reply at j in the rebuilt conversation, as far as its run
\* goes: the results it had, then its stubs.
InGrownRun(at, h, j, i) ==
  \/ \E p \in (j + 1)..RunEnd(h, j) : i = at[p - 1] + 1
  \/ \E k \in 1..Len(Missing(h, j)) : i = at[RunEnd(h, j) - 1] + 1 + k

\* What lies in the grown run of a reply is an old result or a stub of it.
LEMMA RunHolds ==
  ASSUME NEW h, Orderly(h), NEW s, NEW at, Rebuilt(s, at, h),
         NEW j \in 1..Len(h), IsReply(h[j]),
         NEW i \in (at[j - 1] + 2)..at[RunEnd(h, j)]
  PROVE  InGrownRun(at, h, j, i)
<1> DEFINE n == Len(h)
           e == RunEnd(h, j)
<1>1. h \in Seq(Messages) /\ n \in Nat
  BY DEF Orderly
<1>2. e \in j..n
  BY <1>1, RunEnds
<1> HIDE DEF e
<1>3. /\ \A p \in 0..n : at[p] \in Nat
      /\ \A p, q \in 0..n : p < q => at[p] < at[q]
  BY DEF Rebuilt
<1>4. /\ i \in 1..Len(s) /\ i \in Nat /\ i > at[j - 1] + 1 /\ i <= at[e]
      /\ j - 1 \in 0..n /\ e \in 0..n /\ n \in 0..n
  <2>1. j - 1 \in 0..n /\ e \in 0..n /\ n \in 0..n /\ Len(s) = at[n]
    BY <1>1, <1>2 DEF Rebuilt
  <2>2. e = n \/ e < n
    BY <1>2
  <2>3. at[e] \in Nat /\ at[j - 1] \in Nat /\ at[n] \in Nat
    BY <1>3, <2>1
  <2>4. at[e] <= at[n]
    BY <1>3, <2>1, <2>2, <2>3
  <2>5. i \in (at[j - 1] + 2)..at[e]
    BY DEF e
  <2> QED
    BY <2>1, <2>3, <2>4, <2>5
<1>5. PICK p \in 1..n :
        \/ i = at[p - 1] + 1
        \/ \E l \in 1..n : /\ IsReply(h[l]) /\ RunEnd(h, l) = p
                           /\ \E k \in 1..Len(Missing(h, l)) : i = at[p - 1] + 1 + k
  BY <1>4 DEF Rebuilt
<1>6. /\ p - 1 \in 0..n /\ p \in 0..n /\ at[p - 1] \in Nat /\ at[p] \in Nat
      /\ at[j - 1] \in Nat /\ at[e] \in Nat
  BY <1>1, <1>3, <1>4
<1>7. p <= e
  <2>1. at[p - 1] < at[e]
    <3> DEFINE b == at[p - 1]
               d == at[e]
    <3>1. b \in Nat /\ d \in Nat /\ i \in Nat /\ i <= d
      BY <1>4, <1>6
    <3>2. i = b + 1 \/ \E l \in 1..n : \E k \in 1..Len(Missing(h, l)) : i = b + 1 + k
      BY <1>5, Zenon
    <3> HIDE DEF b, d
    <3>3. ASSUME NEW l \in 1..n, NEW k \in 1..Len(Missing(h, l)), i = b + 1 + k
          PROVE  b < i
      BY <3>1, <3>3
    <3>4. b < d
      BY <3>1, <3>2, <3>3
    <3> QED
      BY <3>4 DEF b, d
  <2>2. e < p - 1 => at[e] < at[p - 1]
    BY <1>3, <1>4, <1>6, Zenon
  <2>3. ~(e < p - 1) /\ e # p - 1
    BY <1>6, <2>1, <2>2
  <2> QED
    BY <1>2, <2>3
<1>8. CASE i = at[p - 1] + 1
  <2>1. at[j - 1] < at[p - 1]
    <3> DEFINE a == at[j - 1]
               c == at[p - 1]
    <3>1. a \in Nat /\ c \in Nat /\ i > a + 1 /\ i = c + 1
      BY <1>4, <1>6, <1>8
    <3> HIDE DEF a, c
    <3>2. a < c
      BY <3>1
    <3> QED
      BY <3>2 DEF a, c
  <2>2. p - 1 < j - 1 => at[p - 1] < at[j - 1]
    BY <1>3, <1>4, <1>6
  <2>3. ~(p - 1 < j - 1) /\ p - 1 # j - 1
    BY <1>6, <2>1, <2>2
  <2>4. p \in (j + 1)..e
    BY <1>2, <1>7, <2>3
  <2> QED
    BY <1>8, <2>4 DEF e, InGrownRun
<1>9. ASSUME NEW l \in 1..n, IsReply(h[l]), RunEnd(h, l) = p,
             NEW k \in 1..Len(Missing(h, l)), i = at[p - 1] + 1 + k
      PROVE  l = j /\ p = e
  <2>1. IsInjective(h[l].ids)
    BY <1>9 DEF Orderly
  <2>2. Missing(h, l) \in Seq(Nat)
    BY <1>1, <2>1, MissingIs
  <2>3. Len(Missing(h, l)) \in Nat
    BY <2>2
  <2>4. at[p] = at[p - 1] + 1 + Len(Missing(h, l))
    BY <1>9 DEF Rebuilt
  <2>5. at[j - 1] < at[p]
    <3> DEFINE a == at[j - 1]
               c == at[p - 1]
               d == at[p]
               m == Len(Missing(h, l))
    <3>1. a \in Nat /\ c \in Nat /\ d \in Nat /\ m \in Nat /\ d = c + 1 + m
      BY <1>6, <2>3, <2>4
    <3>2. i > a + 1 /\ i = c + 1 + k /\ k \in 1..m
      BY <1>4, <1>9
    <3> HIDE DEF a, c, d, m
    <3>3. a < d
      BY <3>1, <3>2
    <3> QED
      BY <3>3 DEF a, d
  <2>6. p < j - 1 => at[p] < at[j - 1]
    BY <1>3, <1>4, <1>6
  <2>7. ~(p < j - 1) /\ p # j - 1
    BY <1>6, <2>6, <2>5
  <2>8. l <= p
    BY <1>1, <1>9, RunEnds
  <2>9. ~(l < j)
    <3>1. l < j => RunEnd(h, l) < j
      BY <1>1, RunsApart
    <3> QED
      BY <1>9, <2>7, <3>1
  <2>10. ~(j < l)
    <3>1. j < l => e < l
      BY <1>1, <1>9, RunsApart DEF e
    <3> QED
      BY <1>2, <1>7, <2>8, <3>1
  <2>11. l = j
    BY <2>9, <2>10
  <2> QED
    BY <1>9, <2>11 DEF e
<1> QED
  BY <1>5, <1>8, <1>9 DEF e, InGrownRun

\* So a run goes on to its last stub, and no further.
LEMMA RunsGrow ==
  ASSUME NEW h, Orderly(h), NEW s, NEW at, Rebuilt(s, at, h),
         NEW j \in 1..Len(h), IsReply(h[j])
  PROVE  LET r == at[j - 1] + 1
             e == RunEnd(h, j)
         IN  /\ r \in 1..Len(s) /\ s[r] = h[j] /\ RunEnd(s, r) = at[e]
             /\ e \in j..Len(h) /\ at[e] \in r..Len(s)
<1> DEFINE n == Len(h)
           e == RunEnd(h, j)
           r == at[j - 1] + 1
<1>1. h \in Seq(Messages) /\ n \in Nat /\ s \in Seq(Messages) /\ Len(s) \in Nat
  BY DEF Orderly, Rebuilt
<1>2. /\ e \in j..n /\ \A k \in (j + 1)..e : IsTool(h[k])
      /\ e # n => ~IsTool(h[e + 1])
  BY <1>1, RunEnds
<1>3. /\ \A p \in 0..n : at[p] \in Nat
      /\ \A p, q \in 0..n : p < q => at[p] < at[q]
      /\ \A p \in 1..n : s[at[p - 1] + 1] = h[p]
      /\ Len(s) = at[n]
  BY DEF Rebuilt
<1>4. j - 1 \in 0..n /\ e \in 0..n /\ n \in 0..n /\ j - 1 < e /\ (e = n \/ e < n)
  <2> HIDE DEF e
  <2> QED
    BY <1>1, <1>2
<1> HIDE DEF e
<1>5. at[j - 1] \in Nat /\ at[e] \in Nat /\ at[j - 1] < at[e] /\ at[e] <= at[n]
  BY <1>3, <1>4
<1>6. r \in 1..Len(s) /\ at[e] \in r..Len(s) /\ s[r] = h[j]
  BY <1>1, <1>3, <1>5
<1> HIDE DEF r
<1>7. ASSUME NEW i \in (r + 1)..at[e] PROVE IsTool(s[i])
  <2>1. i \in (at[j - 1] + 2)..at[e]
    BY <1>5, <1>7 DEF r
  <2>2. \/ \E p \in (j + 1)..e : i = at[p - 1] + 1
        \/ \E k \in 1..Len(Missing(h, j)) : i = at[e - 1] + 1 + k
    BY <2>1, RunHolds DEF e, InGrownRun
  <2>3. ASSUME NEW p \in (j + 1)..e, i = at[p - 1] + 1 PROVE IsTool(s[i])
    <3>1. p \in 1..n
      BY <1>2
    <3> QED
      BY <1>2, <1>3, <2>3, <3>1
  <2>4. ASSUME NEW k \in 1..Len(Missing(h, j)), i = at[e - 1] + 1 + k PROVE IsTool(s[i])
    <3>1. s[i] = Stub(h, j, k)
      BY <2>4 DEF Rebuilt, e
    <3> QED
      BY <3>1, StubIs
  <2> QED
    BY <2>2, <2>3, <2>4
<1>8. at[e] # Len(s) => ~IsTool(s[at[e] + 1]) /\ at[e] + 1 \in 1..Len(s)
  <2> SUFFICES ASSUME at[e] # Len(s) PROVE ~IsTool(s[at[e] + 1]) /\ at[e] + 1 \in 1..Len(s)
    OBVIOUS
  <2>1. e # n /\ e + 1 \in 1..n /\ (e + 1) - 1 = e
    BY <1>2, <1>3
  <2>2. s[at[e] + 1] = h[e + 1]
    BY <1>3, <2>1
  <2>3. at[e] + 1 \in 1..Len(s)
    BY <1>1, <1>3, <1>5
  <2> QED
    BY <1>2, <2>1, <2>2, <2>3
<1>9. RunEnd(s, r) = at[e]
  <2> DEFINE x == RunEnd(s, r)
  <2>1. /\ x \in r..Len(s) /\ \A k \in (r + 1)..x : IsTool(s[k])
        /\ x # Len(s) => ~IsTool(s[x + 1])
    BY <1>1, <1>6, RunEnds
  <2> HIDE DEF x
  <2>2. ~(x < at[e])
    <3>1. x < at[e] => x # Len(s) /\ x + 1 \in (r + 1)..at[e]
      BY <1>1, <1>5, <1>6, <2>1
    <3> QED
      BY <1>7, <2>1, <3>1
  <2>3. ~(at[e] < x)
    <3>1. at[e] < x => at[e] # Len(s) /\ at[e] + 1 \in (r + 1)..x
      BY <1>1, <1>5, <1>6, <2>1
    <3> QED
      BY <1>8, <2>1, <3>1
  <2> QED
    BY <1>5, <1>6, <2>1, <2>2, <2>3 DEF x
<1> QED
  BY <1>2, <1>6, <1>9 DEF e, r

\* The id a result carries, in the run of the reply at j: one answered before,
\* or a missing one.
IsOld(s, at, h, j, i) ==
  \E p \in (j + 1)..RunEnd(h, j) :
    i = at[p - 1] + 1 /\ s[i] = h[p] /\ Answered(h, j, s[i].ids[1])

IsStub(s, at, h, j, i) ==
  /\ ~Answered(h, j, s[i].ids[1])
  /\ \E k \in 1..Len(Missing(h, j)) :
       i = at[RunEnd(h, j) - 1] + 1 + k /\ s[i].ids[1] = Missing(h, j)[k]

\* And so is the call it answers.
LEMMA RunIds ==
  ASSUME NEW h, Orderly(h), NEW s, NEW at, Rebuilt(s, at, h),
         NEW j \in 1..Len(h), IsReply(h[j]),
         NEW i \in (at[j - 1] + 2)..at[RunEnd(h, j)]
  PROVE  IsOld(s, at, h, j, i) \/ IsStub(s, at, h, j, i)
<1> DEFINE e == RunEnd(h, j)
<1>1. h \in Seq(Messages) /\ e \in j..Len(h) /\ \A k \in (j + 1)..e : IsTool(h[k])
  <2>1. h \in Seq(Messages)
    BY DEF Orderly
  <2> QED
    BY <2>1, RunEnds
<1> HIDE DEF e
<1>2. \/ \E p \in (j + 1)..e : i = at[p - 1] + 1
      \/ \E k \in 1..Len(Missing(h, j)) : i = at[e - 1] + 1 + k
  <2>1. InGrownRun(at, h, j, i)
    BY RunHolds
  <2> QED
    BY <2>1 DEF e, InGrownRun
<1>3. ASSUME NEW p \in (j + 1)..e, i = at[p - 1] + 1
      PROVE  s[i] = h[p] /\ Answered(h, j, s[i].ids[1])
  <2>1. p \in 1..Len(h) /\ IsTool(h[p])
    BY <1>1
  <2>2. s[i] = h[p]
    BY <1>3, <2>1 DEF Rebuilt
  <2>3. h[p] \in Messages /\ Len(h[p].ids) = 1
    BY <1>1, <2>1, ElementOfSeq DEF Orderly
  <2>4. h[p].ids \in Seq(Nat) /\ Len(h[p].ids) = 1
    BY <2>3 DEF Messages
  <2>5. 1 \in DOMAIN h[p].ids
    BY <2>4
  <2>6. h[p].ids[1] \in Range(h[p].ids)
    BY <2>5 DEF Range
  <2> QED
    BY <2>2, <2>6 DEF Answered, e
<1>4. ASSUME NEW k \in 1..Len(Missing(h, j)), i = at[e - 1] + 1 + k
      PROVE  ~Answered(h, j, s[i].ids[1]) /\ s[i].ids[1] = Missing(h, j)[k]
  <2>1. s[i] = Stub(h, j, k)
    BY <1>4 DEF Rebuilt, e
  <2>2. IsInjective(h[j].ids)
    BY DEF Orderly
  <2> QED
    BY <1>1, <2>1, <2>2, MissingIs, StubIs
<1> QED
  BY <1>2, <1>3, <1>4 DEF e, IsOld, IsStub

\* A reply of the rebuilt conversation is one of the original.
LEMMA RepliesOf ==
  ASSUME NEW h, Orderly(h), NEW s, NEW at, Rebuilt(s, at, h),
         NEW i \in 1..Len(s), IsReply(s[i])
  PROVE  \E j \in 1..Len(h) : IsReply(h[j]) /\ i = at[j - 1] + 1 /\ s[i] = h[j]
<1>1. PICK p \in 1..Len(h) :
        \/ i = at[p - 1] + 1
        \/ \E l \in 1..Len(h) : /\ IsReply(h[l]) /\ RunEnd(h, l) = p
                                /\ \E k \in 1..Len(Missing(h, l)) : i = at[p - 1] + 1 + k
  BY DEF Rebuilt
<1>2. ASSUME NEW l \in 1..Len(h), IsReply(h[l]), RunEnd(h, l) = p,
             NEW k \in 1..Len(Missing(h, l)), i = at[p - 1] + 1 + k
      PROVE  FALSE
  <2>1. s[i] = Stub(h, l, k)
    BY <1>2 DEF Rebuilt
  <2> QED
    BY <2>1, StubIs
<1>3. i = at[p - 1] + 1 /\ s[i] = h[p]
  BY <1>1, <1>2 DEF Rebuilt
<1> QED
  BY <1>3

\* What pair_orphan_tool_calls makes of an orderly conversation is orderly, and
\* nothing is missing of it.
LEMMA PairedIsWhole ==
  ASSUME NEW h, Orderly(h)
  PROVE  Orderly(Paired(h)) /\ Complete(Paired(h))
<1> DEFINE s == Paired(h)
<1>1. PICK at : Rebuilt(s, at, h)
  BY PairedIs
<1> HIDE DEF s
<1>2. h \in Seq(Messages) /\ s \in Seq(Messages) /\ Len(s) \in Nat /\ Len(h) \in Nat
  BY <1>1 DEF Orderly, Rebuilt
<1>3. \A p \in 0..Len(h) : at[p] \in Nat
  BY <1>1 DEF Rebuilt
<1>4. \A p, q \in 0..Len(h) : p < q => at[p] < at[q]
  BY <1>1 DEF Rebuilt
<1>5. ASSUME NEW i \in 1..Len(s), IsReply(s[i]) PROVE IsInjective(s[i].ids)
  BY <1>1, <1>5, RepliesOf DEF Orderly
<1>6. ASSUME NEW i \in 1..Len(s), IsTool(s[i])
      PROVE  /\ Len(s[i].ids) = 1
             /\ \E r \in 1..(i - 1) : InRun(s, r, i) /\ s[i].ids[1] \in Range(s[r].ids)
  <2>1. ASSUME NEW j \in 1..Len(h), IsReply(h[j]), i > at[j - 1] + 1, i <= at[RunEnd(h, j)]
        PROVE  /\ at[j - 1] + 1 \in 1..(i - 1) /\ InRun(s, at[j - 1] + 1, i)
               /\ s[at[j - 1] + 1] = h[j]
    <3> DEFINE r == at[j - 1] + 1
    <3>1. r \in 1..Len(s) /\ s[r] = h[j] /\ RunEnd(s, r) = at[RunEnd(h, j)]
      BY <1>1, <2>1, RunsGrow
    <3>2. r < i /\ i <= RunEnd(s, r)
      BY <2>1, <3>1
    <3> HIDE DEF r
    <3>3. i \in r..Len(s) /\ r \in 1..(i - 1) /\ IsReply(s[r])
      BY <1>2, <2>1, <3>1, <3>2
    <3>4. InRun(s, r, i)
      BY <1>2, <3>1, <3>2, <3>3, RunReaches
    <3> QED
      BY <3>1, <3>3, <3>4 DEF r
  <2>2. PICK p \in 1..Len(h) :
        \/ i = at[p - 1] + 1
        \/ \E l \in 1..Len(h) : /\ IsReply(h[l]) /\ RunEnd(h, l) = p
                                /\ \E k \in 1..Len(Missing(h, l)) : i = at[p - 1] + 1 + k
    BY <1>1 DEF Rebuilt
  <2>3. CASE i = at[p - 1] + 1
    <3>1. s[i] = h[p] /\ IsTool(h[p])
      BY <1>1, <1>6, <2>3 DEF Rebuilt
    <3>2. Len(h[p].ids) = 1
      BY <3>1 DEF Orderly
    <3>3. PICK j \in 1..(p - 1) : InRun(h, j, p) /\ h[p].ids[1] \in Range(h[j].ids)
      BY <3>1 DEF Orderly
    <3>4. j \in 1..Len(h) /\ p \in j..Len(h) /\ IsReply(h[j]) /\ j - 1 \in 0..Len(h)
          /\ p - 1 \in 0..Len(h) /\ p \in 0..Len(h) /\ j - 1 < p - 1
      BY <1>2, <3>3 DEF InRun
    <3>5. p <= RunEnd(h, j) /\ RunEnd(h, j) \in j..Len(h)
      BY <1>2, <3>3, <3>4, RunReaches, RunEnds
    <3>6. at[j - 1] < at[p - 1] /\ at[p - 1] < at[RunEnd(h, j)]
      <4> DEFINE e == RunEnd(h, j)
      <4>1. e \in 0..Len(h) /\ p - 1 < e
        BY <1>2, <3>4, <3>5
      <4> HIDE DEF e
      <4> QED
        BY <1>4, <3>4, <4>1 DEF e
    <3>7. at[j - 1] \in Nat /\ at[p - 1] \in Nat /\ at[RunEnd(h, j)] \in Nat
      BY <1>2, <1>3, <3>4, <3>5
    <3>8. i > at[j - 1] + 1 /\ i <= at[RunEnd(h, j)]
      <4> DEFINE a == at[j - 1]
                 c == at[p - 1]
                 d == at[RunEnd(h, j)]
      <4>1. a \in Nat /\ c \in Nat /\ d \in Nat /\ a < c /\ c < d /\ i = c + 1
        BY <2>3, <3>6, <3>7
      <4> HIDE DEF a, c, d
      <4>2. i > a + 1 /\ i <= d
        BY <4>1
      <4> QED
        BY <4>2 DEF a, d
    <3> QED
      BY <2>1, <3>1, <3>2, <3>3, <3>4, <3>8
  <2>4. ASSUME NEW j \in 1..Len(h), IsReply(h[j]), RunEnd(h, j) = p,
               NEW k \in 1..Len(Missing(h, j)), i = at[p - 1] + 1 + k
        PROVE  /\ Len(s[i].ids) = 1
               /\ \E r \in 1..(i - 1) : InRun(s, r, i) /\ s[i].ids[1] \in Range(s[r].ids)
    <3>1. IsInjective(h[j].ids)
      BY <2>4 DEF Orderly
    <3>2. /\ Missing(h, j) \in Seq(Nat) /\ Missing(h, j)[k] \in Range(h[j].ids)
          /\ s[i] = Stub(h, j, k) /\ at[p] = at[p - 1] + 1 + Len(Missing(h, j))
      BY <1>1, <1>2, <2>4, <3>1, MissingIs DEF Rebuilt
    <3>3. j <= p /\ p - 1 \in 0..Len(h) /\ j - 1 \in 0..Len(h)
      BY <1>2, <2>4, RunEnds
    <3>4. at[j - 1] <= at[p - 1] /\ at[p - 1] \in Nat /\ at[j - 1] \in Nat
      <4>1. j - 1 < p - 1 \/ j - 1 = p - 1
        BY <3>3
      <4>2. at[p - 1] \in Nat /\ at[j - 1] \in Nat
        BY <1>3, <3>3
      <4>3. CASE j - 1 < p - 1
        <5>1. at[j - 1] < at[p - 1]
          BY <1>4, <3>3, <4>3, Zenon
        <5> QED
          BY <4>2, <5>1
      <4>4. CASE j - 1 = p - 1
        BY <4>2, <4>4
      <4> QED
        BY <4>1, <4>2, <4>3, <4>4
    <3>5. i > at[j - 1] + 1 /\ i <= at[RunEnd(h, j)]
      <4> DEFINE a == at[j - 1]
                 c == at[p - 1]
                 m == Len(Missing(h, j))
      <4>1. a \in Nat /\ c \in Nat /\ m \in Nat /\ a <= c /\ i = c + 1 + k /\ at[p] = c + 1 + m
            /\ k \in 1..m
        BY <2>4, <3>2, <3>4
      <4> HIDE DEF a, c, m
      <4>2. i > a + 1 /\ i <= at[p]
        BY <4>1
      <4> QED
        BY <2>4, <4>2 DEF a
    <3>6. Len(s[i].ids) = 1 /\ s[i].ids[1] \in Range(h[j].ids)
      BY <3>2, StubIs
    <3> QED
      BY <2>1, <2>4, <3>5, <3>6
  <2> QED
    BY <2>2, <2>3, <2>4
<1>7. ASSUME NEW r \in 1..Len(s), NEW i \in 1..Len(s), NEW k \in 1..Len(s),
             r < i, i < k, InRun(s, r, k)
      PROVE  s[i].ids[1] # s[k].ids[1]
  <2>1. IsReply(s[r]) /\ k \in r..Len(s)
    BY <1>2, <1>7 DEF InRun
  <2>2. PICK j \in 1..Len(h) : IsReply(h[j]) /\ r = at[j - 1] + 1
    BY <1>1, <2>1, RepliesOf
  <2> DEFINE e == RunEnd(h, j)
  <2>3. RunEnd(s, r) = at[e] /\ e \in j..Len(h)
    BY <1>1, <2>2, RunsGrow
  <2>4. k <= at[e]
    BY <1>2, <1>7, <2>1, <2>3, RunReaches
  <2>5. j - 1 \in 0..Len(h) /\ e \in 0..Len(h) /\ e - 1 \in 0..Len(h)
    BY <1>2, <2>3
  <2>6. at[j - 1] \in Nat /\ at[e] \in Nat /\ at[e - 1] \in Nat
    BY <1>3, <2>5
  <2>7. i \in (at[j - 1] + 2)..at[e] /\ k \in (at[j - 1] + 2)..at[e]
    <3> DEFINE a == at[j - 1]
               d == at[e]
    <3>1. a \in Nat /\ d \in Nat /\ r = a + 1 /\ k <= d
      BY <2>2, <2>4, <2>6
    <3> HIDE DEF a, d, e
    <3>2. i \in (a + 2)..d /\ k \in (a + 2)..d
      BY <1>7, <3>1
    <3> QED
      BY <3>2 DEF a, d
  <2>8. IsInjective(h[j].ids)
    BY <2>2 DEF Orderly
  <2>9. IsOld(s, at, h, j, i) \/ IsStub(s, at, h, j, i)
    BY <1>1, <2>2, <2>7, RunIds
  <2>10. IsOld(s, at, h, j, k) \/ IsStub(s, at, h, j, k)
    BY <1>1, <2>2, <2>7, RunIds
  <2> HIDE DEF e
  <2>11. ASSUME NEW p \in (j + 1)..e, i = at[p - 1] + 1, s[i] = h[p],
                NEW q \in (j + 1)..e, k = at[q - 1] + 1, s[k] = h[q]
         PROVE  s[i].ids[1] # s[k].ids[1]
    <3>1. p \in 1..Len(h) /\ q \in 1..Len(h) /\ j < p /\ p - 1 \in 0..Len(h) /\ q - 1 \in 0..Len(h)
      BY <1>2, <2>3
    <3>2. at[p - 1] \in Nat /\ at[q - 1] \in Nat /\ i = at[p - 1] + 1 /\ k = at[q - 1] + 1
      BY <1>3, <2>11, <3>1
    <3>3. at[p - 1] < at[q - 1]
      <4> DEFINE a == at[p - 1]
                 b == at[q - 1]
      <4>1. a \in Nat /\ b \in Nat /\ i = a + 1 /\ k = b + 1
        BY <3>2
      <4> HIDE DEF a, b
      <4>2. a < b
        BY <1>7, <4>1
      <4> QED
        BY <4>2 DEF a, b
    <3>4. q - 1 < p - 1 => at[q - 1] < at[p - 1]
      BY <1>4, <3>1, Zenon
    <3>5. p < q
      <4> DEFINE a == at[p - 1]
                 b == at[q - 1]
      <4>1. a \in Nat /\ b \in Nat /\ a < b /\ (p = q => a = b) /\ (q - 1 < p - 1 => b < a)
        BY <3>2, <3>3, <3>4
      <4> HIDE DEF a, b
      <4>2. ~(q - 1 < p - 1) /\ p # q
        BY <4>1
      <4> QED
        BY <3>1, <4>2
    <3>6. InRun(h, j, q)
      <4>1. q \in j..Len(h) /\ q <= RunEnd(h, j)
        BY <1>2, <2>3 DEF e
      <4> QED
        BY <1>2, <2>2, <4>1, RunReaches
    <3>7. h[p].ids[1] # h[q].ids[1]
      BY <3>1, <3>5, <3>6 DEF Orderly
    <3> QED
      BY <2>11, <3>7
  <2>12. ASSUME NEW p \in 1..Len(Missing(h, j)), i = at[e - 1] + 1 + p,
                s[i].ids[1] = Missing(h, j)[p],
                NEW q \in 1..Len(Missing(h, j)), k = at[e - 1] + 1 + q,
                s[k].ids[1] = Missing(h, j)[q]
         PROVE  s[i].ids[1] # s[k].ids[1]
    <3>1. p # q
      BY <1>7, <2>12
    <3> QED
      BY <1>2, <2>2, <2>8, <2>12, <3>1, MissingIs
  <2> QED
    BY <2>9, <2>10, <2>11, <2>12 DEF IsOld, IsStub, e
<1>8. ASSUME NEW i \in 1..Len(s), IsReply(s[i]), NEW c \in Range(Carried(s[i]))
      PROVE  \E x \in (i + 1)..RunEnd(s, i) : s[x].ids[1] = c
  <2>1. PICK j \in 1..Len(h) : IsReply(h[j]) /\ i = at[j - 1] + 1 /\ s[i] = h[j]
    BY <1>1, <1>8, RepliesOf
  <2> DEFINE e == RunEnd(h, j)
  <2>2. RunEnd(s, i) = at[e] /\ e \in j..Len(h)
    BY <1>1, <2>1, RunsGrow
  <2>3. \A k \in (j + 1)..e : IsTool(h[k])
    BY <1>2, RunEnds
  <2>4. j - 1 \in 0..Len(h) /\ e \in 0..Len(h) /\ e - 1 \in 0..Len(h)
    BY <1>2, <2>2
  <2>5. at[j - 1] \in Nat /\ at[e] \in Nat /\ at[e - 1] \in Nat
    BY <1>3, <2>4
  <2> HIDE DEF e
  <2>6. CASE Answered(h, j, c)
    <3>1. PICK p \in (j + 1)..e : c \in Range(h[p].ids)
      BY <2>6 DEF Answered, e
    <3>2. p \in 1..Len(h) /\ IsTool(h[p]) /\ p - 1 \in 0..Len(h) /\ j - 1 < p - 1 /\ p - 1 < e
      BY <1>2, <2>2, <2>3
    <3>3. h[p] \in Messages /\ Len(h[p].ids) = 1
      BY <1>2, <3>2, ElementOfSeq DEF Orderly
    <3>4. h[p].ids \in Seq(Nat) /\ DOMAIN h[p].ids = 1..1
      BY <3>3 DEF Messages
    <3>5. c = h[p].ids[1]
      BY <3>1, <3>4 DEF Range
    <3>6. at[j - 1] < at[p - 1] /\ at[p - 1] < at[e] /\ at[p - 1] \in Nat
      BY <1>3, <1>4, <2>4, <3>2
    <3>7. at[p - 1] + 1 \in (i + 1)..RunEnd(s, i)
      <4> DEFINE a == at[j - 1]
                 b == at[p - 1]
                 d == at[e]
      <4>1. a \in Nat /\ b \in Nat /\ d \in Nat /\ a < b /\ b < d /\ i = a + 1 /\ RunEnd(s, i) = d
        BY <2>1, <2>2, <2>5, <3>6
      <4> HIDE DEF a, b, d
      <4>2. b + 1 \in (i + 1)..RunEnd(s, i)
        BY <4>1
      <4> QED
        BY <4>2 DEF b
    <3>8. s[at[p - 1] + 1] = h[p]
      BY <1>1, <3>2 DEF Rebuilt
    <3> QED
      BY <3>5, <3>7, <3>8
  <2>7. CASE ~Answered(h, j, c)
    <3>1. IsInjective(h[j].ids)
      BY <2>1 DEF Orderly
    <3>2. PICK k \in 1..Len(Missing(h, j)) : Missing(h, j)[k] = c
      BY <1>2, <1>8, <2>1, <2>7, <3>1, MissingIs
    <3>3. Missing(h, j) \in Seq(Nat)
      BY <1>2, <3>1, MissingIs
    <3>4. s[at[e - 1] + 1 + k] = Stub(h, j, k) /\ at[e] = at[e - 1] + 1 + Len(Missing(h, j))
      BY <1>1, <2>1 DEF Rebuilt, e
    <3>5. at[j - 1] <= at[e - 1]
      <4>1. j - 1 < e - 1 \/ j - 1 = e - 1
        BY <2>2
      <4>2. CASE j - 1 < e - 1
        <5>1. at[j - 1] < at[e - 1]
          BY <1>4, <2>4, <4>2
        <5> QED
          BY <2>5, <5>1
      <4>3. CASE j - 1 = e - 1
        BY <2>5, <4>3
      <4> QED
        BY <4>1, <4>2, <4>3
    <3>6. at[e - 1] + 1 + k \in (i + 1)..RunEnd(s, i)
      <4> DEFINE a == at[j - 1]
                 d == at[e - 1]
                 m == Len(Missing(h, j))
      <4>1. a \in Nat /\ d \in Nat /\ m \in Nat /\ a <= d /\ i = a + 1 /\ RunEnd(s, i) = d + 1 + m
            /\ k \in 1..m
        BY <2>1, <2>2, <2>5, <3>3, <3>4, <3>5
      <4> HIDE DEF a, d, m
      <4>2. d + 1 + k \in (i + 1)..RunEnd(s, i)
        BY <4>1
      <4> QED
        BY <4>2 DEF d
    <3> QED
      BY <3>2, <3>4, <3>6, StubIs
  <2> QED
    BY <2>6, <2>7
<1>9. Orderly(s)
  BY <1>2, <1>5, <1>6, <1>7 DEF Orderly
<1>10. Complete(s)
  BY <1>8 DEF Complete
<1> QED
  BY <1>9, <1>10 DEF s

-----------------------------------------------------------------------------
\* A message that is no result keeps the order.
LEMMA OtherKeeps ==
  ASSUME NEW h, Orderly(h), NEW m \in Messages, ~IsTool(m), IsReply(m) => IsInjective(m.ids)
  PROVE  Orderly(Append(h, m))
<1> DEFINE g == Append(h, m)
           n == Len(h)
<1>1. h \in Seq(Messages) /\ n \in Nat
  BY DEF Orderly
<1>2. /\ g \in Seq(Messages) /\ Len(g) = n + 1 /\ g[n + 1] = m
      /\ \A i \in 1..n : g[i] = h[i]
  BY <1>1, AppendProperties
<1> HIDE DEF g
<1>3. \A j \in 1..n, i \in 1..n : j < i => (InRun(g, j, i) <=> InRun(h, j, i))
  BY <1>2 DEF InRun
<1>4. ASSUME NEW j \in 1..Len(g), IsReply(g[j]) PROVE IsInjective(g[j].ids)
  BY <1>1, <1>2, <1>4 DEF Orderly
<1>5. ASSUME NEW i \in 1..Len(g), IsTool(g[i])
      PROVE  /\ Len(g[i].ids) = 1
             /\ \E j \in 1..(i - 1) : InRun(g, j, i) /\ g[i].ids[1] \in Range(g[j].ids)
  <2>1. i \in 1..n /\ g[i] = h[i]
    BY <1>1, <1>2, <1>5
  <2>2. Len(h[i].ids) = 1
    BY <1>5, <2>1 DEF Orderly
  <2>3. PICK j \in 1..(i - 1) : InRun(h, j, i) /\ h[i].ids[1] \in Range(h[j].ids)
    BY <1>5, <2>1 DEF Orderly
  <2>4. j \in 1..n /\ j < i
    BY <2>1
  <2> QED
    BY <1>2, <1>3, <2>1, <2>2, <2>3, <2>4
<1>6. ASSUME NEW j \in 1..Len(g), NEW i \in 1..Len(g), NEW k \in 1..Len(g),
             j < i, i < k, InRun(g, j, k)
      PROVE  g[i].ids[1] # g[k].ids[1]
  <2>1. IsTool(g[k])
    BY <1>6 DEF InRun
  <2>2. j \in 1..n /\ i \in 1..n /\ k \in 1..n /\ j < k
    BY <1>1, <1>2, <1>6, <2>1
  <2>3. InRun(h, j, k)
    BY <1>3, <1>6, <2>2
  <2> QED
    BY <1>2, <1>6, <2>2, <2>3 DEF Orderly
<1>7. Orderly(g)
  BY <1>2, <1>4, <1>5, <1>6 DEF Orderly
<1> QED
  BY <1>7 DEF g

\* The calls of the reply at j that wait: all it has so far follows it.
Awaits(h, calls, j) ==
  /\ j \in 1..Len(h) /\ IsReply(h[j])
  /\ \A k \in (j + 1)..Len(h) : IsTool(h[k]) /\ h[k].ids[1] \notin Range(calls)
  /\ Range(calls) \subseteq Range(h[j].ids)

\* The result of a call that waits keeps the order.
LEMMA ResultKeeps ==
  ASSUME NEW h, Orderly(h), NEW calls, NEW j, Awaits(h, calls, j),
         NEW c \in Range(calls), c \in Nat
  PROVE  Orderly(Append(h, Message("tool", << c >>)))
<1> DEFINE m == Message("tool", << c >>)
           g == Append(h, m)
           n == Len(h)
<1>1. h \in Seq(Messages) /\ n \in Nat
  BY DEF Orderly
<1>2. m \in Messages /\ IsTool(m) /\ ~IsReply(m) /\ Len(m.ids) = 1 /\ m.ids[1] = c
  BY DEF Message, Messages, IsTool, IsReply
<1> HIDE DEF m
<1>3. /\ g \in Seq(Messages) /\ Len(g) = n + 1 /\ g[n + 1] = m
      /\ \A i \in 1..n : g[i] = h[i]
  BY <1>1, <1>2, AppendProperties
<1> HIDE DEF g
<1>4. \A r \in 1..n, i \in 1..n : r < i => (InRun(g, r, i) <=> InRun(h, r, i))
  BY <1>3 DEF InRun
<1>5. j \in 1..n /\ IsReply(h[j])
  BY DEF Awaits
<1>6. InRun(g, j, n + 1)
  <2>1. ASSUME NEW k \in (j + 1)..(n + 1) PROVE IsTool(g[k])
    <3>1. CASE k = n + 1
      BY <1>2, <1>3, <3>1
    <3>2. CASE k # n + 1
      <4>1. k \in (j + 1)..n /\ k \in 1..n
        BY <1>1, <1>5, <3>2
      <4> QED
        BY <1>3, <4>1 DEF Awaits
    <3> QED
      BY <3>1, <3>2
  <2> QED
    BY <1>3, <1>5, <2>1 DEF InRun
<1>7. ASSUME NEW r \in 1..Len(g), IsReply(g[r]) PROVE IsInjective(g[r].ids)
  BY <1>1, <1>2, <1>3, <1>7 DEF Orderly
<1>8. ASSUME NEW i \in 1..Len(g), IsTool(g[i])
      PROVE  /\ Len(g[i].ids) = 1
             /\ \E r \in 1..(i - 1) : InRun(g, r, i) /\ g[i].ids[1] \in Range(g[r].ids)
  <2>1. CASE i = n + 1
    <3>1. j \in 1..(i - 1) /\ g[j] = h[j]
      BY <1>1, <1>3, <1>5, <2>1
    <3>2. c \in Range(g[j].ids)
      BY <3>1 DEF Awaits
    <3> QED
      BY <1>2, <1>3, <1>6, <2>1, <3>1, <3>2
  <2>2. CASE i # n + 1
    <3>1. i \in 1..n /\ g[i] = h[i]
      BY <1>1, <1>3, <2>2
    <3>2. Len(h[i].ids) = 1
      BY <1>8, <3>1 DEF Orderly
    <3>3. PICK r \in 1..(i - 1) : InRun(h, r, i) /\ h[i].ids[1] \in Range(h[r].ids)
      BY <1>8, <3>1 DEF Orderly
    <3>4. r \in 1..n /\ r < i
      BY <3>1
    <3> QED
      BY <1>3, <1>4, <3>1, <3>2, <3>3, <3>4
  <2> QED
    BY <2>1, <2>2
<1>9. ASSUME NEW r \in 1..Len(g), NEW i \in 1..Len(g), NEW k \in 1..Len(g),
             r < i, i < k, InRun(g, r, k)
      PROVE  g[i].ids[1] # g[k].ids[1]
  <2>1. r \in 1..n /\ i \in 1..n /\ r < k
    BY <1>1, <1>3, <1>9
  <2>2. CASE k \in 1..n
    BY <1>3, <1>4, <1>9, <2>1, <2>2 DEF Orderly
  <2>3. CASE k = n + 1
    <3>1. r = j
      <4>1. ASSUME r < j PROVE FALSE
        <5>1. IsTool(g[j]) /\ g[j] = h[j]
          BY <1>1, <1>3, <1>5, <1>9, <2>3, <4>1 DEF InRun
        <5> QED
          BY <1>5, <5>1 DEF IsTool, IsReply
      <4>2. ASSUME j < r PROVE FALSE
        <5>1. r \in (j + 1)..(n + 1)
          BY <1>1, <1>5, <2>1, <4>2
        <5>2. IsTool(g[r])
          BY <1>6, <5>1 DEF InRun
        <5>3. IsReply(g[r])
          BY <1>9 DEF InRun
        <5> QED
          BY <5>2, <5>3 DEF IsTool, IsReply
      <4> QED
        BY <1>1, <1>5, <2>1, <4>1, <4>2
    <3>2. i \in (j + 1)..n
      BY <1>1, <1>5, <1>9, <2>1, <3>1
    <3>3. h[i].ids[1] # c
      BY <3>2 DEF Awaits
    <3> QED
      BY <1>2, <1>3, <2>1, <2>3, <3>3
  <2> QED
    BY <1>1, <1>3, <2>2, <2>3
<1>10. Orderly(g)
  BY <1>3, <1>7, <1>8, <1>9 DEF Orderly
<1> QED
  BY <1>10 DEF g, m

\* Where a history is cut: the old part has no result left, the new part begins
\* with a reply.
LEMMA CutsFall ==
  ASSUME NEW h, Orderly(h), NEW keep \in Nat \ {0}, Foldable(h, keep)
  PROVE  LET c == Cut(h, keep)
             a == Anchor(h, Min(Folded(h, keep)))
         IN  /\ c \in 1..Len(h) /\ IsReply(h[c])
             /\ a \in 1..Len(h) /\ \A k \in 1..(a - 1) : ~IsTool(h[k])
<1> DEFINE n == Len(h)
           R == Results(h)
           recent == { i \in R : Cardinality({ j \in R : j >= i }) <= keep }
           c == Cut(h, keep)
           F == Folded(h, keep)
<1>1. h \in Seq(Messages) /\ n \in Nat /\ DOMAIN h = 1..n
  BY DEF Orderly
<1>2. R = { i \in 1..n : IsTool(h[i]) }
  BY <1>1 DEF Results, Places
<1>3. c = Anchor(h, Min(recent)) /\ F = { j \in R : j < c } /\ F # {}
  BY DEF Cut, Folded, Before, Foldable
<1> HIDE DEF c, F
<1>4. ASSUME NEW i \in R
      PROVE  Anchor(h, i) \in 1..n /\ IsReply(h[Anchor(h, i)]) /\ Anchor(h, i) < i
  <2> DEFINE P == { j \in 1..n : IsReply(h[j]) /\ j < i }
  <2>1. Before(Places(h, IsReply), i) = P
    BY <1>1 DEF Before, Places
  <2>2. PICK j \in 1..(i - 1) : InRun(h, j, i)
    BY <1>2, <1>4 DEF Orderly
  <2>3. j \in P
    BY <1>1, <1>2, <1>4, <2>2 DEF InRun
  <2>4. P \in SUBSET (0..n) /\ P # {}
    BY <2>3
  <2> HIDE DEF P
  <2>5. Max(P) \in P
    BY <1>1, <2>4, Greatest
  <2>6. Anchor(h, i) = Max(P)
    BY <2>1, <2>4 DEF Anchor
  <2> QED
    BY <2>5, <2>6 DEF P
<1>5. recent \in SUBSET (0..n) /\ recent \subseteq R /\ R \in SUBSET (0..n) /\ R # {}
  BY <1>2, <1>3
<1>6. recent # {}
  <2> DEFINE r == Max(R)
  <2>1. r \in R /\ \A y \in R : y <= r
    <3> HIDE DEF R
    <3> QED
      BY <1>1, <1>5, Greatest
  <2> HIDE DEF r
  <2>2. { j \in R : j >= r } = {r}
    <3>1. \A j \in R : j \in Nat
      BY <1>2
    <3> HIDE DEF R
    <3> QED
      BY <2>1, <3>1
  <2>3. Cardinality({r}) = 1
    BY FS_Singleton
  <2>4. r \in recent
    BY <2>1, <2>2, <2>3
  <2> QED
    BY <2>4
<1>7. Min(recent) \in recent
  <2> HIDE DEF recent
  <2> QED
    BY <1>1, <1>5, <1>6, Smallest
<1>8. c \in 1..n /\ IsReply(h[c])
  <2>1. Min(recent) \in R
    BY <1>5, <1>7
  <2> HIDE DEF recent, R
  <2> QED
    BY <1>3, <1>4, <2>1
<1> DEFINE f == Min(F)
<1>9. f \in F /\ \A y \in F : f <= y
  <2>1. F \in SUBSET (0..n)
    BY <1>3, <1>5
  <2> QED
    BY <1>1, <1>3, <2>1, Smallest
<1> HIDE DEF f
<1> DEFINE a == Anchor(h, f)
<1>10. f \in R /\ f < c /\ f \in 1..n
  <2>1. f \in R /\ f < c
    <3> HIDE DEF R
    <3> QED
      BY <1>3, <1>9
  <2> QED
    BY <1>2, <2>1
<1>11. a \in 1..n /\ a < f
  BY <1>4, <1>10
<1> HIDE DEF a
<1>12. ASSUME NEW k \in 1..(a - 1), IsTool(h[k]) PROVE FALSE
  <2>1. k \in 1..n /\ k < c /\ k < f
    BY <1>1, <1>8, <1>10, <1>11
  <2>2. k \in R
    BY <1>2, <1>12, <2>1
  <2>3. k \in F
    <3> HIDE DEF R
    <3> QED
      BY <1>3, <2>1, <2>2
  <2> QED
    BY <1>9, <1>10, <2>1, <2>3
<1> QED
  BY <1>8, <1>11, <1>12 DEF a, c, f, F

\* g is h with everything from a up to c folded into one reply and its result.
IsFolded(g, h, a, c) ==
  /\ g \in Seq(Messages) /\ Len(g) = a + 1 + (Len(h) - c + 1)
  /\ a \in 1..Len(h) /\ c \in 1..Len(h)
  /\ \A k \in 1..(a - 1) : g[k] = h[k]
  /\ \E id \in Nat : g[a] = Message("assistant", << id >>) /\ g[a + 1] = Message("tool", << id >>)
  /\ \A k \in c..Len(h) : g[k - c + a + 2] = h[k]

\* What compaction returns: the preamble, one made-up call with its result, the
\* messages from the cut on.
LEMMA CompactedIs ==
  ASSUME NEW h, Orderly(h), NEW keep \in Nat \ {0}, Foldable(h, keep), NEW id \in Nat
  PROVE  IsFolded(Compacted(h, keep, id), h, Anchor(h, Min(Folded(h, keep))), Cut(h, keep))
<1> DEFINE n == Len(h)
           c == Cut(h, keep)
           a == Anchor(h, Min(Folded(h, keep)))
           P == SubSeq(h, 1, a - 1)
           M == << Message("assistant", << id >>), Message("tool", << id >>) >>
           S == SubSeq(h, c, n)
           g == Compacted(h, keep, id)
<1>1. h \in Seq(Messages) /\ n \in Nat
  BY DEF Orderly
<1>2. c \in 1..n /\ a \in 1..n
  BY CutsFall
<1>3. g = P \o M \o S
  BY DEF Compacted, Preamble
<1> HIDE DEF c, a, g
<1>4. /\ P \in Seq(Messages) /\ Len(P) = a - 1 /\ \A i \in 1..(a - 1) : P[i] = h[i]
  <2>1. \A i \in 1..(a - 1) : h[i] \in Messages
    BY <1>1, <1>2, ElementOfSeq
  <2>2. 1 \in Int /\ a - 1 \in Int
    BY <1>2
  <2>3. /\ P \in Seq(Messages) /\ Len(P) = (IF 1 <= a - 1 THEN (a - 1) - 1 + 1 ELSE 0)
        /\ \A i \in 1..((a - 1) - 1 + 1) : P[i] = h[1 + i - 1]
    BY <2>1, <2>2, SubSeqProperties
  <2> HIDE DEF P
  <2>4. \A i \in 1..(a - 1) : i \in 1..((a - 1) - 1 + 1) /\ 1 + i - 1 = i
    BY <1>2
  <2> QED
    BY <1>2, <2>3, <2>4
<1>5. /\ S \in Seq(Messages) /\ Len(S) = n - c + 1 /\ \A i \in 1..(n - c + 1) : S[i] = h[c + i - 1]
  <2>1. \A i \in c..n : h[i] \in Messages
    BY <1>1, <1>2, ElementOfSeq
  <2>2. c \in Int /\ n \in Int
    BY <1>1, <1>2
  <2>3. /\ S \in Seq(Messages) /\ Len(S) = (IF c <= n THEN n - c + 1 ELSE 0)
        /\ \A i \in 1..(n - c + 1) : S[i] = h[c + i - 1]
    BY <2>1, <2>2, SubSeqProperties
  <2> QED
    BY <1>1, <1>2, <2>3
<1>6. /\ M \in Seq(Messages) /\ Len(M) = 2 /\ M[1] = Message("assistant", << id >>)
      /\ M[2] = Message("tool", << id >>)
  <2>1. << id >> \in Seq(Nat)
    OBVIOUS
  <2>2. Message("assistant", << id >>) \in Messages /\ Message("tool", << id >>) \in Messages
    BY <2>1 DEF Message, Messages
  <2> QED
    BY <2>2
<1> HIDE DEF P, M, S, n
<1> DEFINE Q == P \o M
<1>7. /\ Q \in Seq(Messages) /\ Len(Q) = Len(P) + Len(M)
      /\ \A i \in 1..(Len(P) + Len(M)) : Q[i] = IF i <= Len(P) THEN P[i] ELSE M[i - Len(P)]
  BY <1>4, <1>6, ConcatProperties
<1>8. g = Q \o S
  BY <1>3
<1> HIDE DEF Q
<1>9. /\ g \in Seq(Messages) /\ Len(g) = Len(Q) + Len(S)
      /\ \A i \in 1..(Len(Q) + Len(S)) : g[i] = IF i <= Len(Q) THEN Q[i] ELSE S[i - Len(Q)]
  BY <1>5, <1>7, <1>8, ConcatProperties
<1>10. Len(P) = a - 1 /\ Len(M) = 2 /\ Len(Q) = a + 1 /\ Len(S) = n - c + 1
       /\ Len(g) = a + 1 + (n - c + 1)
  BY <1>1, <1>2, <1>4, <1>5, <1>6, <1>7, <1>9
<1>11. ASSUME NEW k \in 1..(a + 1)
       PROVE  g[k] = IF k <= a - 1 THEN P[k] ELSE M[k - (a - 1)]
  <2>1. k \in 1..((a + 1) + (n - c + 1)) /\ k \in 1..((a - 1) + 2) /\ k <= a + 1
    BY <1>1, <1>2
  <2>2. g[k] = Q[k]
    BY <1>9, <1>10, <2>1
  <2> QED
    BY <1>7, <1>10, <2>1, <2>2
<1>12. ASSUME NEW k \in 1..(a - 1) PROVE g[k] = h[k]
  BY <1>2, <1>4, <1>11
<1>13. g[a] = M[1] /\ g[a + 1] = M[2]
  <2>1. a \in 1..(a + 1) /\ ~(a <= a - 1) /\ a - (a - 1) = 1
    BY <1>2
  <2>2. a + 1 \in 1..(a + 1) /\ ~(a + 1 <= a - 1) /\ (a + 1) - (a - 1) = 2
    BY <1>2
  <2> QED
    BY <1>11, <2>1, <2>2
<1>14. ASSUME NEW k \in c..n PROVE g[k - c + a + 2] = h[k]
  <2> DEFINE x == k - c + a + 2
  <2>1. /\ x \in 1..((a + 1) + (n - c + 1)) /\ ~(x <= a + 1)
        /\ x - (a + 1) \in 1..(n - c + 1) /\ c + (x - (a + 1)) - 1 = k
    BY <1>1, <1>2
  <2> HIDE DEF x
  <2>2. g[x] = S[x - (a + 1)]
    BY <1>9, <1>10, <2>1
  <2>3. S[x - (a + 1)] = h[k]
    BY <1>5, <2>1
  <2> QED
    BY <2>2, <2>3 DEF x
<1>15. IsFolded(g, h, a, c)
  BY <1>2, <1>6, <1>9, <1>10, <1>12, <1>13, <1>14 DEF IsFolded, n
<1> QED
  BY <1>15 DEF a, c, g

\* Folding keeps the order, and the calls that wait.
LEMMA FoldKeeps ==
  ASSUME NEW h, Orderly(h), NEW g, NEW a, NEW c, IsFolded(g, h, a, c),
         IsReply(h[c]), \A k \in 1..(a - 1) : ~IsTool(h[k])
  PROVE  /\ Orderly(g)
         /\ \A calls, j : Awaits(h, calls, j) => Awaits(g, calls, j - c + a + 2)
<1> DEFINE n == Len(h)
           at(k) == k - c + a + 2
           of(i) == i + c - a - 2
<1>1. h \in Seq(Messages) /\ n \in Nat /\ g \in Seq(Messages) /\ Len(g) = a + 1 + (n - c + 1)
      /\ a \in 1..n /\ c \in 1..n
  BY DEF Orderly, IsFolded
<1>2. /\ \A k \in 1..(a - 1) : g[k] = h[k] /\ ~IsTool(g[k])
      /\ \A k \in c..n : g[at(k)] = h[k]
  BY DEF IsFolded
<1>3. PICK id \in Nat : g[a] = Message("assistant", << id >>) /\ g[a + 1] = Message("tool", << id >>)
  BY DEF IsFolded
<1>4. /\ IsReply(g[a]) /\ ~IsTool(g[a]) /\ IsTool(g[a + 1]) /\ ~IsReply(g[a + 1])
      /\ g[a].ids = << id >> /\ g[a + 1].ids = << id >>
  BY <1>3 DEF Message, IsTool, IsReply
<1>5. \A i \in (a + 2)..Len(g) : of(i) \in c..n /\ at(of(i)) = i
  BY <1>1
<1>6. \A i \in (a + 2)..Len(g) : g[i] = h[of(i)] /\ of(i) \in 1..n /\ of(i) \in c..n
  <2> SUFFICES ASSUME NEW i \in (a + 2)..Len(g)
               PROVE  g[i] = h[of(i)] /\ of(i) \in 1..n /\ of(i) \in c..n
    OBVIOUS
  <2> DEFINE x == of(i)
  <2>1. x \in c..n /\ at(x) = i /\ x \in 1..n
    BY <1>1
  <2> HIDE DEF x
  <2>2. g[at(x)] = h[x]
    BY <1>2, <2>1
  <2> QED
    BY <2>1, <2>2 DEF x
<1>7. \A k \in c..n : at(k) \in (a + 2)..Len(g) /\ of(at(k)) = k
  BY <1>1
<1>8. a + 2 \in 1..Len(g) /\ ~IsTool(g[a + 2])
  <2>1. c \in c..n /\ at(c) = a + 2 /\ a + 2 \in 1..Len(g)
    BY <1>1
  <2>2. g[at(c)] = h[c]
    BY <1>2, <2>1
  <2> QED
    BY <2>1, <2>2 DEF IsTool, IsReply
<1>9. \A r \in (a + 2)..Len(g), k \in (a + 2)..Len(g) :
        r <= k => (InRun(g, r, k) <=> InRun(h, of(r), of(k)))
  <2> SUFFICES ASSUME NEW r \in (a + 2)..Len(g), NEW k \in (a + 2)..Len(g), r <= k
               PROVE  InRun(g, r, k) <=> InRun(h, of(r), of(k))
    OBVIOUS
  <2>1. g[r] = h[of(r)]
    BY <1>6
  <2>2. ASSUME InRun(g, r, k), NEW y \in (of(r) + 1)..of(k) PROVE IsTool(h[y])
    <3>1. y \in c..n /\ at(y) \in (r + 1)..k
      BY <1>1
    <3>2. g[at(y)] = h[y]
      BY <1>2, <3>1
    <3> QED
      BY <2>2, <3>1, <3>2 DEF InRun
  <2>3. ASSUME InRun(h, of(r), of(k)), NEW x \in (r + 1)..k PROVE IsTool(g[x])
    <3>1. x \in (a + 2)..Len(g) /\ of(x) \in (of(r) + 1)..of(k)
      BY <1>1
    <3>2. g[x] = h[of(x)]
      BY <1>6, <3>1
    <3> QED
      BY <2>3, <3>1, <3>2 DEF InRun
  <2> QED
    BY <2>1, <2>2, <2>3 DEF InRun
<1>10. ASSUME NEW r \in 1..Len(g), IsReply(g[r]) PROVE IsInjective(g[r].ids)
  <2>1. CASE r < a
    <3>1. r \in 1..(a - 1) /\ r \in 1..n
      BY <1>1, <2>1
    <3> QED
      BY <1>2, <1>10, <3>1 DEF Orderly
  <2>2. CASE r = a
    BY <1>4, <2>2 DEF IsInjective
  <2>3. CASE r = a + 1
    BY <1>4, <1>10, <2>3
  <2>4. CASE r > a + 1
    <3>1. r \in (a + 2)..Len(g)
      BY <1>1, <2>4
    <3> QED
      BY <1>6, <1>10, <3>1 DEF Orderly
  <2> QED
    BY <1>1, <2>1, <2>2, <2>3, <2>4
<1>11. ASSUME NEW i \in 1..Len(g), IsTool(g[i])
       PROVE  /\ Len(g[i].ids) = 1
              /\ \E r \in 1..(i - 1) : InRun(g, r, i) /\ g[i].ids[1] \in Range(g[r].ids)
  <2>1. i = a + 1 \/ i \in (a + 2)..Len(g)
    <3>1. i \notin 1..(a - 1) /\ i # a
      BY <1>2, <1>4, <1>11
    <3> QED
      BY <1>1, <3>1
  <2>2. CASE i = a + 1
    <3>1. a \in 1..(i - 1)
      BY <1>1, <2>2
    <3>2. Len(g[i].ids) = 1
      BY <1>4, <2>2
    <3>3. \A k \in (a + 1)..i : k = a + 1
      BY <1>1, <2>2
    <3>4. InRun(g, a, i)
      BY <1>4, <3>3 DEF InRun
    <3>5. g[i].ids[1] \in Range(g[a].ids)
      BY <1>4, <2>2 DEF Range
    <3> QED
      BY <3>1, <3>4, <3>5, <3>2
  <2>3. CASE i \in (a + 2)..Len(g)
    <3> DEFINE x == of(i)
    <3>1. g[i] = h[x] /\ x \in 1..n /\ x \in c..n
      BY <1>6, <2>3
    <3> HIDE DEF x
    <3>2. Len(h[x].ids) = 1
      BY <1>11, <3>1 DEF Orderly
    <3>3. PICK j \in 1..(x - 1) : InRun(h, j, x) /\ h[x].ids[1] \in Range(h[j].ids)
      BY <1>11, <3>1 DEF Orderly
    <3>4. ~(j < c)
      <4>1. j < c => c \in (j + 1)..x
        BY <1>1, <3>1
      <4> QED
        BY <3>3, <4>1 DEF InRun, IsTool, IsReply
    <3>5. j \in c..n /\ j < x
      BY <1>1, <3>1, <3>4
    <3> DEFINE r == at(j)
    <3>6. r \in (a + 2)..Len(g) /\ of(r) = j /\ g[r] = h[j]
      BY <1>2, <1>7, <3>5
    <3>7. r \in 1..(i - 1) /\ r <= i
      BY <1>1, <2>3, <3>5 DEF x
    <3> HIDE DEF r
    <3>8. InRun(g, r, i)
      BY <1>9, <2>3, <3>3, <3>6, <3>7 DEF x
    <3> QED
      BY <3>1, <3>2, <3>3, <3>6, <3>7, <3>8
  <2> QED
    BY <2>1, <2>2, <2>3
<1>12. ASSUME NEW r \in 1..Len(g), NEW i \in 1..Len(g), NEW k \in 1..Len(g),
              r < i, i < k, InRun(g, r, k)
       PROVE  g[i].ids[1] # g[k].ids[1]
  <2>1. r + 1 \in (r + 1)..k
    BY <1>12
  <2>2. IsReply(g[r]) /\ IsTool(g[r + 1])
    BY <1>12, <2>1 DEF InRun
  <2>3. r >= a
    <3>1. r < a => r + 1 \in 1..(a - 1) \/ r + 1 = a
      BY <1>1
    <3>2. ~(r < a)
      BY <1>2, <1>4, <2>2, <3>1
    <3> QED
      BY <1>1, <3>2
  <2>4. r # a
    <3>1. r = a => a + 2 \in (r + 1)..k
      BY <1>1, <1>12
    <3> QED
      BY <1>8, <1>12, <3>1 DEF InRun
  <2>5. r # a + 1
    BY <1>4, <2>2
  <2>6. r \in (a + 2)..Len(g) /\ i \in (a + 2)..Len(g) /\ k \in (a + 2)..Len(g) /\ r <= k
    BY <1>1, <1>12, <2>3, <2>4, <2>5
  <2>7. InRun(h, of(r), of(k))
    BY <1>9, <1>12, <2>6
  <2>8. /\ g[i] = h[of(i)] /\ g[k] = h[of(k)]
        /\ of(r) \in 1..n /\ of(i) \in 1..n /\ of(k) \in 1..n
    BY <1>6, <2>6
  <2>9. of(r) < of(i) /\ of(i) < of(k)
    BY <1>1, <1>12, <2>6
  <2> HIDE DEF of
  <2> QED
    BY <2>7, <2>8, <2>9 DEF Orderly
<1>13. Orderly(g)
  BY <1>1, <1>10, <1>11, <1>12 DEF Orderly
<1>14. ASSUME NEW calls, NEW j, Awaits(h, calls, j) PROVE Awaits(g, calls, at(j))
  <2>1. ~(j < c)
    <3>1. j < c => c \in (j + 1)..n
      BY <1>1, <1>14 DEF Awaits
    <3> QED
      BY <1>14, <3>1 DEF Awaits, IsTool, IsReply
  <2>2. j \in c..n
    BY <1>1, <1>14, <2>1 DEF Awaits
  <2>3. at(j) \in (a + 2)..Len(g) /\ g[at(j)] = h[j] /\ at(j) \in 1..Len(g)
    BY <1>1, <1>2, <1>7, <2>2
  <2>4. ASSUME NEW k \in (at(j) + 1)..Len(g) PROVE IsTool(g[k]) /\ g[k].ids[1] \notin Range(calls)
    <3>1. k \in (a + 2)..Len(g) /\ of(k) \in (j + 1)..n
      BY <1>1, <2>2
    <3>2. g[k] = h[of(k)]
      BY <1>6, <3>1
    <3> QED
      BY <1>14, <3>1, <3>2 DEF Awaits
  <2> QED
    BY <1>14, <2>3, <2>4 DEF Awaits
<1> QED
  BY <1>13, <1>14

-----------------------------------------------------------------------------
\* The conversation is orderly at every moment, and the calls still to run are
\* calls of its last reply that nothing answers yet.
HistoryInv ==
  /\ Orderly(messages) /\ ids \in Nat
  /\ open \in Seq(Nat) /\ IsInjective(open)
  /\ open # << >> => \E j \in Nat : Awaits(messages, open, j)
  /\ Orderly(began)

\* A user message neither asks nor answers.
LEMMA UserMessage ==
  /\ Message("user", << >>) \in Messages
  /\ ~IsTool(Message("user", << >>)) /\ ~IsReply(Message("user", << >>))
<1>1. << >> \in Seq(Nat)
  OBVIOUS
<1> QED
  BY <1>1 DEF Message, Messages, IsTool, IsReply

\* It holds of the empty conversation.
LEMMA HistoryInitInv == HistoryInit => HistoryInv
<1> SUFFICES ASSUME HistoryInit PROVE HistoryInv
  OBVIOUS
<1> DEFINE m == Message("user", << >>)
<1>1. messages = << m >> /\ open = << >> /\ ids = 0 /\ began = messages
  BY DEF HistoryInit
<1>2. m \in Messages /\ ~IsTool(m) /\ ~IsReply(m)
  BY UserMessage
<1> HIDE DEF m
<1>3. messages \in Seq(Messages) /\ Len(messages) = 1 /\ messages[1] = m
  BY <1>1, <1>2
<1>4. Orderly(messages)
  <2>1. \A i \in 1..Len(messages) : messages[i] = m
    BY <1>3
  <2>2. \A j, k \in 1..Len(messages) : InRun(messages, j, k) => FALSE
    BY <1>2, <2>1 DEF InRun
  <2> QED
    BY <1>2, <1>3, <2>1, <2>2 DEF Orderly
<1>5. open \in Seq(Nat) /\ IsInjective(open)
  BY <1>1 DEF IsInjective
<1> QED
  BY <1>1, <1>4, <1>5 DEF HistoryInv

\* A request is lost.
LEMMA LoseKeeps ==
  ASSUME HistoryInv, Lose
  PROVE  HistoryInv'
<1>1. open = << >> /\ messages' = began /\ open' = open /\ ids' = ids /\ began' = began
  BY DEF Lose, AtTurn
<1> QED
  BY <1>1 DEF HistoryInv

\* A request goes out and is answered.
LEMMA AskKeeps ==
  ASSUME HistoryInv, NEW n \in Nat, NEW role \in {"assistant", "prose"}, Ask(n, role)
  PROVE  HistoryInv'
<1> DEFINE calls == [k \in 1..n |-> ids + k]
           m == Message(role, calls)
           g == Append(messages, m)
<1>1. /\ messages' = g /\ open' = calls /\ ids' = ids + n /\ began' = began
  BY DEF Ask
<1>2. Orderly(messages) /\ messages \in Seq(Messages) /\ ids \in Nat /\ Len(messages) \in Nat
  BY DEF HistoryInv, Orderly
<1>3. calls \in Seq(Nat) /\ IsInjective(calls)
  BY <1>2 DEF IsInjective
<1> HIDE DEF calls
<1>4. m \in Messages /\ IsReply(m) /\ ~IsTool(m) /\ m.ids = calls
  BY <1>3 DEF Message, Messages, IsReply, IsTool
<1> HIDE DEF m
<1>5. Orderly(g)
  BY <1>2, <1>3, <1>4, OtherKeeps
<1>6. Awaits(g, calls, Len(messages) + 1)
  <2>1. Len(g) = Len(messages) + 1 /\ g[Len(messages) + 1] = m
    BY <1>2, <1>4, AppendProperties
  <2> HIDE DEF g
  <2>2. \A k \in (Len(messages) + 1 + 1)..Len(g) : FALSE
    BY <1>2, <2>1
  <2> QED
    BY <1>2, <1>4, <2>1, <2>2 DEF Awaits
<1> HIDE DEF g
<1>8. Orderly(messages') /\ ids' \in Nat /\ open' \in Seq(Nat) /\ IsInjective(open')
  BY <1>1, <1>2, <1>3, <1>5
<1>9. \E j \in Nat : Awaits(messages', open', j)
  BY <1>1, <1>2, <1>6
<1> QED
  BY <1>1, <1>8, <1>9 DEF HistoryInv

\* The next call is answered.
LEMMA AnswerKeeps ==
  ASSUME HistoryInv, open # << >>
  PROVE  LET g == Append(messages, Message("tool", << Head(open) >>))
         IN  /\ Orderly(g) /\ Tail(open) \in Seq(Nat) /\ IsInjective(Tail(open))
             /\ \E j \in Nat : Awaits(g, Tail(open), j)
<1> DEFINE c == Head(open)
           m == Message("tool", << c >>)
           g == Append(messages, m)
           n == Len(messages)
<1>2. /\ Orderly(messages) /\ messages \in Seq(Messages) /\ n \in Nat
      /\ open \in Seq(Nat) /\ IsInjective(open)
  BY DEF HistoryInv, Orderly
<1>3. PICK j \in Nat : Awaits(messages, open, j)
  BY DEF HistoryInv
<1>4. /\ Tail(open) \in Seq(Nat) /\ Len(Tail(open)) = Len(open) - 1 /\ Len(open) \in Nat \ {0}
      /\ \A i \in 1..Len(Tail(open)) : Tail(open)[i] = open[i + 1]
      /\ c = open[1] /\ c \in Nat
  BY <1>2, HeadTailProperties
<1> DEFINE t == Tail(open)
<1>5. /\ DOMAIN open = 1..Len(open) /\ DOMAIN t = 1..Len(t)
      /\ \A i \in 1..Len(t) : i + 1 \in 1..Len(open) /\ 1 \in 1..Len(open) /\ i + 1 # 1
  BY <1>2, <1>4
<1> HIDE DEF c, t
<1>6. c \in Range(open)
  BY <1>4, <1>5 DEF Range
<1>7. IsInjective(t) /\ Range(t) \subseteq Range(open) /\ c \notin Range(t)
  <2>1. \A i \in DOMAIN t : t[i] = open[i + 1] /\ i + 1 \in DOMAIN open /\ 1 \in DOMAIN open /\ i + 1 # 1
    BY <1>4, <1>5 DEF t
  <2>2. \A i, k \in DOMAIN t : t[i] = t[k] => i = k
    <3> SUFFICES ASSUME NEW i \in DOMAIN t, NEW k \in DOMAIN t, t[i] = t[k] PROVE i = k
      OBVIOUS
    <3>1. i + 1 = k + 1
      BY <1>2, <2>1 DEF IsInjective
    <3> QED
      BY <1>5, <3>1
  <2>3. \A i \in DOMAIN t : t[i] # c
    BY <1>2, <1>4, <2>1 DEF IsInjective
  <2> QED
    BY <2>1, <2>2, <2>3 DEF IsInjective, Range
<1>8. Orderly(g)
  BY <1>2, <1>3, <1>4, <1>6, ResultKeeps
<1>9. Awaits(g, t, j)
  <2>1. m \in Messages /\ IsTool(m) /\ m.ids[1] = c
    BY <1>4 DEF Message, Messages, IsTool
  <2> HIDE DEF m
  <2>2. Len(g) = n + 1 /\ g[n + 1] = m /\ \A i \in 1..n : g[i] = messages[i]
    BY <1>2, <2>1, AppendProperties
  <2> HIDE DEF g
  <2>3. j \in 1..n /\ IsReply(messages[j]) /\ Range(open) \subseteq Range(messages[j].ids)
    BY <1>3 DEF Awaits
  <2>4. ASSUME NEW k \in (j + 1)..Len(g) PROVE IsTool(g[k]) /\ g[k].ids[1] \notin Range(t)
    <3>1. CASE k = n + 1
      BY <1>7, <2>1, <2>2, <3>1
    <3>2. CASE k # n + 1
      <4>1. k \in (j + 1)..(n + 1) /\ j \in 1..n
        BY <2>2, <2>3, <2>4
      <4> HIDE DEF n
      <4>2. k \in (j + 1)..n /\ k \in 1..n
        BY <1>2, <3>2, <4>1
      <4> QED
        BY <1>3, <1>7, <2>2, <4>2 DEF Awaits, n
    <3> QED
      BY <3>1, <3>2
  <2> QED
    BY <1>2, <1>7, <2>2, <2>3, <2>4 DEF Awaits
<1>10. Orderly(g) /\ t \in Seq(Nat) /\ IsInjective(t) /\ \E r \in Nat : Awaits(g, t, r)
  <2> HIDE DEF g
  <2>1. t \in Seq(Nat)
    BY <1>4 DEF t
  <2> QED
    BY <1>7, <1>8, <1>9, <2>1
<1> QED
  BY <1>10 DEF g, m, c, t

\* A call runs.
LEMMA ExecuteKeeps ==
  ASSUME HistoryInv, Execute
  PROVE  HistoryInv'
<1> DEFINE g == Append(messages, Message("tool", << Head(open) >>))
<1>1. open # << >> /\ messages' = g /\ open' = Tail(open) /\ ids' = ids /\ began' = began
  BY DEF Execute
<1>2. /\ Orderly(g) /\ Tail(open) \in Seq(Nat) /\ IsInjective(Tail(open))
      /\ \E j \in Nat : Awaits(g, Tail(open), j)
  BY <1>1, AnswerKeeps
<1> HIDE DEF g
<1> QED
  BY <1>1, <1>2 DEF HistoryInv

\* A terminal call that was cut short is answered, and the rest given up.
LEMMA CutShortKeeps ==
  ASSUME HistoryInv, CutShort
  PROVE  HistoryInv'
<1> DEFINE g == Append(messages, Message("tool", << Head(open) >>))
<1>1. open # << >> /\ messages' = g /\ open' = << >> /\ ids' = ids /\ began' = began
  BY DEF CutShort
<1>2. Orderly(g)
  BY <1>1, AnswerKeeps
<1> HIDE DEF g
<1>3. open' \in Seq(Nat) /\ IsInjective(open')
  BY <1>1 DEF IsInjective
<1> QED
  BY <1>1, <1>2, <1>3 DEF HistoryInv

\* Old results are folded.
LEMMA CompactKeeps ==
  ASSUME HistoryInv, NEW n \in Nat, Compact(n)
  PROVE  HistoryInv'
<1> DEFINE k == Keep(n)
           g == Compacted(messages, k, ids + 1)
           c == Cut(messages, k)
           a == Anchor(messages, Min(Folded(messages, k)))
<1>1. Foldable(messages, k) /\ messages' = g /\ ids' = ids + 1 /\ open' = open /\ began' = began
  BY DEF Compact
<1>2. Orderly(messages) /\ messages \in Seq(Messages) /\ ids + 1 \in Nat /\ k \in Nat \ {0}
  BY DEF HistoryInv, Orderly, Keep
<1> HIDE DEF k
<1>3. IsFolded(g, messages, a, c)
  BY <1>1, <1>2, CompactedIs
<1>4. IsReply(messages[c]) /\ (\A i \in 1..(a - 1) : ~IsTool(messages[i])) /\ c \in 1..Len(messages)
      /\ a \in 1..Len(messages)
  BY <1>1, <1>2, CutsFall
<1> HIDE DEF a, c, g
<1>5. Orderly(g) /\ \A calls, j : Awaits(messages, calls, j) => Awaits(g, calls, j - c + a + 2)
  BY <1>2, <1>3, <1>4, FoldKeeps
<1>6. open # << >> => \E j \in Nat : Awaits(g, open, j)
  <2> SUFFICES ASSUME open # << >> PROVE \E j \in Nat : Awaits(g, open, j)
    OBVIOUS
  <2>1. PICK j \in Nat : Awaits(messages, open, j)
    BY DEF HistoryInv
  <2> DEFINE x == j - c + a + 2
  <2>2. Awaits(g, open, x)
    BY <1>5, <2>1
  <2>3. x \in 1..Len(g) /\ Len(g) \in Nat
    <3>1. g \in Seq(Messages)
      BY <1>3 DEF IsFolded
    <3> HIDE DEF x
    <3> QED
      BY <2>2, <3>1 DEF Awaits
  <2>4. x \in Nat
    BY <2>3
  <2> HIDE DEF x
  <2> QED
    BY <2>2, <2>4
<1>7. Orderly(messages') /\ (open' # << >> => \E j \in Nat : Awaits(messages', open', j))
  BY <1>1, <1>5, <1>6
<1> QED
  BY <1>1, <1>2, <1>7 DEF HistoryInv

\* A broken attempt is retried on what it left, paired.
LEMMA RetryKeeps ==
  ASSUME HistoryInv, Retry
  PROVE  HistoryInv'
<1>1. /\ messages' = Append(Paired(messages), Message("user", << >>)) /\ open' = << >>
      /\ ids' = ids /\ began' = messages'
  BY DEF Retry
<1>2. Orderly(Paired(messages))
  BY PairedIsWhole DEF HistoryInv
<1>3. Orderly(Append(Paired(messages), Message("user", << >>)))
  BY <1>2, UserMessage, OtherKeeps
<1>4. Orderly(messages') /\ open' \in Seq(Nat) /\ IsInjective(open')
  BY <1>1, <1>3 DEF IsInjective
<1> QED
  BY <1>1, <1>4 DEF HistoryInv

\* Every request is matched, whatever the batches and which of them the replies
\* carry, the calls cut short, the retries, the requests lost in transport and
\* the points where the conversation is compacted.
THEOREM RequestsPaired == HistoryInit /\ [][HistoryNext]_historyVars => []RequestsMatch
<1>1. HistoryInv /\ [HistoryNext]_historyVars => HistoryInv'
  <2> SUFFICES ASSUME HistoryInv, [HistoryNext]_historyVars PROVE HistoryInv'
    OBVIOUS
  <2>1. CASE UNCHANGED historyVars
    BY <2>1 DEF historyVars, HistoryInv
  <2>2. ASSUME NEW n \in 0..BatchSize, NEW role \in {"assistant", "prose"}, Ask(n, role)
        PROVE  HistoryInv'
    BY <2>2, AskKeeps, HistoryAssumption
  <2>3. ASSUME NEW n \in Keeps, Compact(n) PROVE HistoryInv'
    BY <2>3, CompactKeeps, HistoryAssumption
  <2> QED
    BY <2>1, <2>2, <2>3, LoseKeeps, ExecuteKeeps, CutShortKeeps, RetryKeeps DEF HistoryNext
<1>2. HistoryInv => RequestsMatch
  BY PairedIsWhole, OrderlyIsMatched DEF HistoryInv, RequestsMatch, Request
<1> QED
  BY <1>1, <1>2, HistoryInitInv, PTL
=============================================================================
