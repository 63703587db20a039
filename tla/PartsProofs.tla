------------------------------- MODULE PartsProofs -------------------------------
(***************************************************************************)
(* The parts that share no state with the others, proved for any values of *)
(* their constants: the passages and citations of an answer, the login     *)
(* throttle and the console.  What is chosen from a sequence is known by   *)
(* induction over its length, which is why the lemmas on numbers and       *)
(* sequences come first.                                                   *)
(***************************************************************************)
EXTENDS Passages, LoginThrottle, Console, FiniteSetTheorems, WellFoundedInduction, TLAPS

-------------------------------------------------------------------------------
(* Numbers and sequences.                                                  *)

Below == {pair \in Nat \X Nat : pair[1] < pair[2]}

\* Induction over the natural numbers, for a set.
LEMMA Induction ==
  ASSUME NEW S, 0 \in S, \A n \in Nat : n \in S => n + 1 \in S
  PROVE  Nat \subseteq S
<1>1. IsWellFoundedOn(Below, Nat)
  BY NatLessThanWellFounded DEF OpToRel, Below
<1> SUFFICES ASSUME Nat \ S # {} PROVE FALSE
  OBVIOUS
<1>2. PICK n \in Nat \ S : \A m \in Nat \ S : <<m, n>> \notin Below
  <2>1. Nat \ S \subseteq Nat
    OBVIOUS
  <2> QED
    BY <1>1, <2>1, WFMin
<1>3. n # 0 /\ n - 1 \in Nat /\ n - 1 < n /\ (n - 1) + 1 = n
  BY <1>2
<1>4. n - 1 \in S
  <2>1. <<n - 1, n>> \in Below
    BY <1>2, <1>3 DEF Below
  <2> QED
    BY <1>2, <1>3, <2>1
<1> QED
  BY <1>2, <1>3, <1>4

\* A sequence's entries, and the empty sequence.
LEMMA SeqItems ==
  ASSUME NEW T
  PROVE  /\ \A s \in Seq(T) : Len(s) \in Nat /\ \A i \in 1 .. Len(s) : s[i] \in T
         /\ <<>> \in Seq(T) /\ Len(<<>>) = 0 /\ 1 .. Len(<<>>) = {}
  OBVIOUS

\* Sequences with the same entries.
LEMMA SeqEqual ==
  ASSUME NEW T, NEW s \in Seq(T), NEW t \in Seq(T), Len(s) = Len(t),
         \A i \in 1 .. Len(s) : s[i] = t[i]
  PROVE  s = t
<1>1. /\ Len(s) \in Nat
      /\ s = [i \in 1 .. Len(s) |-> s[i]]
      /\ t = [i \in 1 .. Len(t) |-> t[i]]
  OBVIOUS
<1> QED
  BY <1>1

\* A sequence is one over any set that holds its entries.
LEMMA SeqOver ==
  ASSUME NEW T, NEW s \in Seq(T), NEW S, \A i \in 1 .. Len(s) : s[i] \in S
  PROVE  s \in Seq(S)
<1>1. Len(s) \in Nat /\ s \in [1 .. Len(s) -> T]
  OBVIOUS
<1>2. s \in [1 .. Len(s) -> S]
  BY <1>1
<1>3. \A n \in Nat : [1 .. n -> S] \subseteq Seq(S)
  OBVIOUS
<1> QED
  BY <1>1, <1>2, <1>3

\* A sequence over a set is one over every larger set.
LEMMA SeqWider ==
  ASSUME NEW T, NEW S, T \subseteq S
  PROVE  Seq(T) \subseteq Seq(S)
<1> SUFFICES ASSUME NEW s \in Seq(T) PROVE s \in Seq(S)
  OBVIOUS
<1>1. \A i \in 1 .. Len(s) : s[i] \in T
  OBVIOUS
<1> QED
  BY <1>1, SeqOver

\* The first n entries.
Entries(s, n) == {s[i] : i \in 1 .. n}

\* Entries that differ are as many as their places.
LEMMA CountDistinct ==
  ASSUME NEW n \in Nat, NEW f, \A i, j \in 1 .. n : f[i] = f[j] => i = j
  PROVE  IsFiniteSet(Entries(f, n)) /\ Cardinality(Entries(f, n)) = n
<1> DEFINE S == Entries(f, n)
           g == [i \in 1 .. n |-> f[i]]
<1>1. g \in [1 .. n -> S] /\ \A i \in 1 .. n : g[i] = f[i]
  BY DEF Entries
<1>2. \A x \in S : \E i \in 1 .. n : f[i] = x
  BY DEF Entries
<1> HIDE DEF S, g
<1>3. g \in Injection(1 .. n, S)
  BY <1>1 DEF Injection, IsInjective
<1>4. g \in Surjection(1 .. n, S)
  BY <1>1, <1>2 DEF Surjection
<1>5. ExistsBijection(1 .. n, S)
  BY <1>3, <1>4 DEF ExistsBijection, Bijection
<1>6. Cardinality(S) = n
  BY <1>5, FS_CountingElements
<1>7. IsFiniteSet(S)
  BY <1>5, FS_NatBijection
<1> QED
  BY <1>6, <1>7 DEF S

\* upTo, as a function of s and S.
IsUpTo(f, n, s, S) ==
  f = [k \in 0 .. n |->
         IF k = 0 THEN <<>>
         ELSE IF s[k] \in S THEN Append(f[k - 1], s[k]) ELSE f[k - 1]]

LEMMA UpToExists ==
  ASSUME NEW T, NEW s \in Seq(T), NEW S
  PROVE  \E f : IsUpTo(f, Len(s), s, S)
<1> DEFINE Good == {n \in Nat : n <= Len(s) => \E f : IsUpTo(f, n, s, S)}
<1>1. 0 \in Good
  <2> DEFINE g == [k \in 0 .. 0 |-> <<>>]
  <2>1. \A k \in 0 .. 0 : k = 0 
    OBVIOUS
  <2>2. IsUpTo(g, 0, s, S)
    BY <2>1 DEF IsUpTo
  <2> QED
    BY <2>2
<1>2. ASSUME NEW n \in Nat, n \in Good PROVE n + 1 \in Good
  <2> SUFFICES ASSUME n + 1 <= Len(s) PROVE \E f : IsUpTo(f, n + 1, s, S)
    OBVIOUS
  <2>1. PICK f : IsUpTo(f, n, s, S)
    BY <1>2
  <2> DEFINE g == [k \in 0 .. n + 1 |->
                     IF k <= n THEN f[k]
                     ELSE IF s[k] \in S THEN Append(f[n], s[k]) ELSE f[n]]
  <2>2. ASSUME NEW k \in 0 .. n + 1
        PROVE  g[k] = IF k = 0 THEN <<>>
                      ELSE IF s[k] \in S THEN Append(g[k - 1], s[k]) ELSE g[k - 1]
    <3>1. CASE k <= n
      <4>1. g[k] = f[k] /\ (k # 0 => g[k - 1] = f[k - 1]) /\ k \in 0 .. n
        BY <3>1
      <4>2. f[k] = IF k = 0 THEN <<>>
                   ELSE IF s[k] \in S THEN Append(f[k - 1], s[k]) ELSE f[k - 1]
        BY <2>1, <4>1 DEF IsUpTo
      <4> HIDE DEF g
      <4> QED
        BY <4>1, <4>2
    <3>2. CASE k = n + 1
      BY <3>2
    <3> QED
      BY <3>1, <3>2
  <2>3. IsUpTo(g, n + 1, s, S)
    BY <2>2 DEF IsUpTo
  <2> QED
    BY <2>3
<1> HIDE DEF Good
<1>3. Nat \subseteq Good
  BY <1>1, <1>2, Induction
<1>4. Len(s) \in Good
  BY <1>3
<1> QED
  BY <1>4 DEF Good

\* sel is what is in S of the first n entries of s: entry i of sel is entry at[i] of s.
IsSelection(sel, at, n, s, S) ==
  /\ at \in [1 .. Len(sel) -> 1 .. n]
  /\ \A i \in 1 .. Len(sel) : sel[i] = s[at[i]] /\ sel[i] \in S /\ i <= at[i]
  /\ \A i, j \in 1 .. Len(sel) : i < j => at[i] < at[j]
  /\ \A k \in 1 .. n : s[k] \in S => \E i \in 1 .. Len(sel) : at[i] = k

\* The next entry, if it is in S.
LEMMA SelectionGrows ==
  ASSUME NEW T, NEW s \in Seq(T), NEW S, NEW n \in Nat, n + 1 <= Len(s),
         NEW sel \in Seq(T), NEW at, IsSelection(sel, at, n, s, S)
  PROVE  LET new == IF s[n + 1] \in S THEN Append(sel, s[n + 1]) ELSE sel
         IN  new \in Seq(T) /\ \E g : IsSelection(new, g, n + 1, s, S)
<1>1. s[n + 1] \in T
  OBVIOUS
<1>2. CASE s[n + 1] \in S
  <2> DEFINE new == Append(sel, s[n + 1])
             g == [i \in 1 .. Len(sel) + 1 |-> IF i <= Len(sel) THEN at[i] ELSE n + 1]
  <2>1. /\ new \in Seq(T) /\ Len(new) = Len(sel) + 1 /\ Len(sel) \in Nat
        /\ \A i \in 1 .. Len(sel) : new[i] = sel[i]
        /\ new[Len(sel) + 1] = s[n + 1]
    BY <1>1
  <2>2. \A i \in 1 .. Len(sel) : at[i] \in 1 .. n /\ g[i] = at[i]
    <3>1. \A i \in 1 .. Len(sel) : at[i] \in 1 .. n
      BY DEF IsSelection
    <3>2. \A i \in 1 .. Len(sel) : i \in 1 .. Len(sel) + 1 /\ i <= Len(sel)
      BY <2>1
    <3>3. \A i \in 1 .. Len(sel) : g[i] = at[i]
      BY <3>2
    <3> QED
      BY <3>1, <3>3
  <2>3. g[Len(sel) + 1] = n + 1
    BY <2>1
  <2>4. Len(sel) <= n
    <3> SUFFICES ASSUME Len(sel) # 0 PROVE Len(sel) <= n
      BY <2>1
    <3>1. Len(sel) \in 1 .. Len(sel)
      BY <2>1
    <3>2. at[Len(sel)] \in 1 .. n /\ Len(sel) <= at[Len(sel)]
      BY <2>2, <3>1 DEF IsSelection
    <3> QED
      BY <2>1, <3>2
  <2> HIDE DEF new
  <2>5. g \in [1 .. Len(new) -> 1 .. n + 1]
    <3>1. \A i \in 1 .. Len(sel) + 1 : (IF i <= Len(sel) THEN at[i] ELSE n + 1) \in 1 .. n + 1
      <4> SUFFICES ASSUME NEW i \in 1 .. Len(sel) + 1
                   PROVE  (IF i <= Len(sel) THEN at[i] ELSE n + 1) \in 1 .. n + 1
        OBVIOUS
      <4>1. CASE i <= Len(sel)
        <5>1. i \in 1 .. Len(sel)
          BY <2>1, <4>1
        <5>2. at[i] \in 1 .. n
          BY <2>2, <5>1
        <5> QED
          BY <4>1, <5>2
      <4>2. CASE ~(i <= Len(sel))
        BY <4>2
      <4> QED
        BY <4>1, <4>2
    <3>2. g \in [1 .. Len(sel) + 1 -> 1 .. n + 1]
      BY <3>1
    <3> QED
      BY <2>1, <3>2
  <2> HIDE DEF g
  <2>6. \A i \in 1 .. Len(new) : new[i] = s[g[i]] /\ new[i] \in S /\ i <= g[i]
    <3> SUFFICES ASSUME NEW i \in 1 .. Len(new) PROVE new[i] = s[g[i]] /\ new[i] \in S /\ i <= g[i]
      OBVIOUS
    <3>1. CASE i = Len(sel) + 1
      BY <1>2, <2>1, <2>3, <2>4, <3>1
    <3>2. CASE i # Len(sel) + 1
      <4>1. i \in 1 .. Len(sel)
        BY <2>1, <3>2
      <4> QED
        BY <2>1, <2>2, <4>1 DEF IsSelection
    <3> QED
      BY <3>1, <3>2
  <2>7. \A i, j \in 1 .. Len(new) : i < j => g[i] < g[j]
    <3> SUFFICES ASSUME NEW i \in 1 .. Len(new), NEW j \in 1 .. Len(new), i < j PROVE g[i] < g[j]
      OBVIOUS
    <3>1. i \in 1 .. Len(sel)
      BY <2>1
    <3>2. CASE j = Len(sel) + 1
      BY <2>2, <2>3, <3>1, <3>2
    <3>3. CASE j # Len(sel) + 1
      <4>1. j \in 1 .. Len(sel)
        BY <2>1, <3>3
      <4> QED
        BY <2>2, <3>1, <4>1 DEF IsSelection
    <3> QED
      BY <3>2, <3>3
  <2>8. \A k \in 1 .. n + 1 : s[k] \in S => \E i \in 1 .. Len(new) : g[i] = k
    <3> SUFFICES ASSUME NEW k \in 1 .. n + 1, s[k] \in S PROVE \E i \in 1 .. Len(new) : g[i] = k
      OBVIOUS
    <3>1. CASE k = n + 1
      BY <2>1, <2>3, <3>1
    <3>2. CASE k # n + 1
      <4>1. k \in 1 .. n
        BY <3>2
      <4>2. PICK i \in 1 .. Len(sel) : at[i] = k
        BY <4>1 DEF IsSelection
      <4> QED
        BY <2>1, <2>2, <4>2
    <3> QED
      BY <3>1, <3>2
  <2>9. IsSelection(new, g, n + 1, s, S)
    BY <2>5, <2>6, <2>7, <2>8 DEF IsSelection
  <2> QED
    BY <1>2, <2>1, <2>9 DEF new
<1>3. CASE s[n + 1] \notin S
  <2>1. \A k \in 1 .. n + 1 : s[k] \in S => k \in 1 .. n
    BY <1>3
  <2>2. IsSelection(sel, at, n + 1, s, S)
    BY <2>1 DEF IsSelection
  <2> QED
    BY <1>3, <2>2
<1> QED
  BY <1>2, <1>3

\* Selected picks the entries that are in S, each once and in order.
LEMMA SelectedFacts ==
  ASSUME NEW T, NEW s \in Seq(T), NEW S
  PROVE  /\ Selected(s, S) \in Seq(T)
         /\ \E at : IsSelection(Selected(s, S), at, Len(s), s, S)
<1> DEFINE f == CHOOSE g : IsUpTo(g, Len(s), s, S)
<1>1. Selected(s, S) = f[Len(s)]
  BY DEF Selected, IsUpTo
<1>2. IsUpTo(f, Len(s), s, S)
  BY UpToExists
<1> HIDE DEF f
<1> DEFINE Good == {n \in Nat : n <= Len(s) => f[n] \in Seq(T) /\ \E at : IsSelection(f[n], at, n, s, S)}
<1>3. 0 \in Good
  <2>1. f[0] = <<>>
    BY <1>2 DEF IsUpTo
  <2>2. IsSelection(<<>>, <<>>, 0, s, S)
    BY DEF IsSelection
  <2>3. <<>> \in Seq(T)
    OBVIOUS
  <2> QED
    BY <2>1, <2>2, <2>3
<1>4. ASSUME NEW n \in Nat, n \in Good PROVE n + 1 \in Good
  <2> SUFFICES ASSUME n + 1 <= Len(s)
               PROVE  f[n + 1] \in Seq(T) /\ \E at : IsSelection(f[n + 1], at, n + 1, s, S)
    OBVIOUS
  <2>1. f[n + 1] = IF s[n + 1] \in S THEN Append(f[n], s[n + 1]) ELSE f[n]
    <3>1. n + 1 \in 0 .. Len(s) /\ n + 1 # 0 /\ (n + 1) - 1 = n
      OBVIOUS
    <3>2. \A k \in 0 .. Len(s) : f[k] = IF k = 0 THEN <<>>
                                        ELSE IF s[k] \in S THEN Append(f[k - 1], s[k]) ELSE f[k - 1]
      BY <1>2 DEF IsUpTo
    <3> HIDE DEF Good
    <3> QED
      BY <3>1, <3>2
  <2>2. f[n] \in Seq(T) /\ \E at : IsSelection(f[n], at, n, s, S)
    BY <1>4
  <2> QED
    BY <2>1, <2>2, SelectionGrows
<1> HIDE DEF Good
<1>5. Nat \subseteq Good
  BY <1>3, <1>4, Induction
<1>6. Len(s) \in Good
  BY <1>5
<1> QED
  BY <1>1, <1>6 DEF Good

\* at counts up and reaches every number after a up to b.
CountsUp(at, m, a, b) ==
  /\ at \in [1 .. m -> a + 1 .. b]
  /\ \A i, j \in 1 .. m : i < j => at[i] < at[j]
  /\ \A k \in a + 1 .. b : \E i \in 1 .. m : at[i] = k

\* It counts by ones.
LEMMA CountsByOnes ==
  ASSUME NEW m \in Nat, NEW a \in Nat, NEW b \in Nat, a <= b, NEW at, CountsUp(at, m, a, b)
  PROVE  m = b - a /\ \A i \in 1 .. m : at[i] = a + i
<1>0. /\ at \in [1 .. m -> a + 1 .. b]
      /\ \A i, j \in 1 .. m : i < j => at[i] < at[j]
      /\ \A k \in a + 1 .. b : \E i \in 1 .. m : at[i] = k
  BY DEF CountsUp
<1> DEFINE Good == {n \in Nat : n \in 1 .. m => at[n] = a + n}
<1>1. 0 \in Good
  OBVIOUS
<1>2. ASSUME NEW n \in Nat, n \in Good PROVE n + 1 \in Good
  <2> SUFFICES ASSUME n + 1 \in 1 .. m PROVE at[n + 1] = a + n + 1
    OBVIOUS
  <2>1. at[n + 1] \in a + 1 .. b
    BY <1>0
  <2>2. at[n + 1] >= a + n + 1
    <3>1. CASE n = 0
      BY <2>1, <3>1
    <3>2. CASE n # 0
      <4>1. n \in 1 .. m /\ at[n] = a + n /\ at[n] < at[n + 1]
        BY <1>0, <1>2, <3>2
      <4> QED
        BY <2>1, <4>1
    <3> QED
      BY <3>1, <3>2
  <2>3. a + n + 1 \in a + 1 .. b
    BY <2>1, <2>2
  <2>4. PICK j \in 1 .. m : at[j] = a + n + 1
    BY <1>0, <2>3
  <2>5. CASE j < n + 1
    <3>1. n \in 1 .. m /\ at[n] = a + n /\ at[j] <= at[n]
      <4>1. n \in 1 .. m
        BY <2>5
      <4>2. j = n \/ at[j] < at[n]
        BY <1>0, <2>5, <4>1
      <4>3. at[n] = a + n
        BY <1>2, <4>1
      <4>4. at[j] \in a + 1 .. b
        BY <1>0
      <4> QED
        BY <4>1, <4>2, <4>3, <4>4
    <3> QED
      BY <2>4, <3>1
  <2>6. CASE j > n + 1
    <3>1. at[n + 1] < at[j]
      BY <1>0, <2>6
    <3> QED
      BY <2>1, <2>2, <2>4, <3>1
  <2>7. CASE j = n + 1
    BY <2>4, <2>7
  <2> QED
    BY <2>5, <2>6, <2>7
<1> HIDE DEF Good
<1>3. Nat \subseteq Good
  BY <1>1, <1>2, Induction
<1>4. \A i \in 1 .. m : at[i] = a + i
  <2> SUFFICES ASSUME NEW i \in 1 .. m PROVE at[i] = a + i
    OBVIOUS
  <2>1. i \in Good
    BY <1>3
  <2> QED
    BY <2>1 DEF Good
<1>5. m <= b - a
  <2> SUFFICES ASSUME m # 0 PROVE m <= b - a
    OBVIOUS
  <2>1. m \in 1 .. m
    OBVIOUS
  <2>2. at[m] = a + m /\ at[m] \in a + 1 .. b
    BY <1>0, <1>4, <2>1
  <2> QED
    BY <2>2
<1>6. m >= b - a
  <2> SUFFICES ASSUME a < b PROVE m >= b - a
    OBVIOUS
  <2>1. PICK i \in 1 .. m : at[i] = b
    BY <1>0
  <2>2. at[i] = a + i
    BY <1>4
  <2> QED
    BY <2>1, <2>2
<1> QED
  BY <1>4, <1>5, <1>6

\* A selection is no longer than what it is from.
LEMMA SelectionShorter ==
  ASSUME NEW T, NEW s \in Seq(T), NEW S
  PROVE  Len(Selected(s, S)) <= Len(s)
<1> DEFINE sel == Selected(s, S)
<1>1. sel \in Seq(T) /\ \E at : IsSelection(sel, at, Len(s), s, S)
  BY SelectedFacts
<1> HIDE DEF sel
<1>2. PICK at : IsSelection(sel, at, Len(s), s, S)
  BY <1>1
<1> SUFFICES ASSUME Len(sel) # 0 PROVE Len(sel) <= Len(s)
  BY <1>1 DEF sel
<1>3. Len(sel) \in 1 .. Len(sel)
  BY <1>1
<1>4. at[Len(sel)] \in 1 .. Len(s) /\ Len(sel) <= at[Len(sel)]
  BY <1>2, <1>3 DEF IsSelection
<1> QED
  BY <1>1, <1>4

\* What is selected is the end of a sequence, if its entries from a on are those in S.
LEMMA SelectedEnd ==
  ASSUME NEW T, NEW s \in Seq(T), NEW S, NEW a \in 0 .. Len(s),
         \A i \in 1 .. Len(s) : s[i] \in S <=> i > a
  PROVE  Selected(s, S) = SubSeq(s, a + 1, Len(s))
<1> DEFINE sel == Selected(s, S)
<1>1. sel \in Seq(T) /\ \E at : IsSelection(sel, at, Len(s), s, S)
  BY SelectedFacts
<1> HIDE DEF sel
<1>2. PICK at : IsSelection(sel, at, Len(s), s, S)
  BY <1>1
<1>3. at \in [1 .. Len(sel) -> a + 1 .. Len(s)]
  <2>1. \A i \in 1 .. Len(sel) : at[i] \in 1 .. Len(s) /\ s[at[i]] \in S
    BY <1>2 DEF IsSelection
  <2>2. \A i \in 1 .. Len(sel) : at[i] \in a + 1 .. Len(s)
    BY <2>1
  <2> QED
    BY <1>2, <2>2 DEF IsSelection
<1>4. \A i, j \in 1 .. Len(sel) : i < j => at[i] < at[j]
  BY <1>2 DEF IsSelection
<1>5. \A k \in a + 1 .. Len(s) : \E i \in 1 .. Len(sel) : at[i] = k
  BY <1>2 DEF IsSelection
<1>6. Len(sel) = Len(s) - a /\ \A i \in 1 .. Len(sel) : at[i] = a + i
  <2> DEFINE m == Len(sel)
             b == Len(s)
  <2>1. m \in Nat /\ a \in Nat /\ b \in Nat /\ a <= b
    BY <1>1
  <2>2. CountsUp(at, m, a, b)
    BY <1>3, <1>4, <1>5 DEF CountsUp
  <2> HIDE DEF m, b
  <2>3. m = b - a /\ \A i \in 1 .. m : at[i] = a + i
    BY <2>1, <2>2, CountsByOnes
  <2> QED
    BY <2>3 DEF m, b
<1>7. \A i \in 1 .. Len(sel) : sel[i] = s[a + i]
  BY <1>2, <1>6 DEF IsSelection
<1> DEFINE rest == SubSeq(s, a + 1, Len(s))
<1>8. rest \in Seq(T) /\ Len(rest) = Len(s) - a /\ \A i \in 1 .. Len(rest) : rest[i] = s[a + i]
  OBVIOUS
<1> HIDE DEF rest
<1>9. Len(sel) = Len(rest) /\ \A i \in 1 .. Len(sel) : sel[i] = rest[i]
  BY <1>6, <1>7, <1>8
<1>10. sel = rest
  BY <1>1, <1>8, <1>9, SeqEqual
<1> QED
  BY <1>10 DEF sel, rest

\* What is selected is the start of a sequence, if its entries up to b are those in S.
LEMMA SelectedStart ==
  ASSUME NEW T, NEW s \in Seq(T), NEW S, NEW b \in 0 .. Len(s),
         \A i \in 1 .. Len(s) : s[i] \in S <=> i <= b
  PROVE  Len(Selected(s, S)) = b /\ \A i \in 1 .. b : Selected(s, S)[i] = s[i]
<1> DEFINE sel == Selected(s, S)
<1>1. sel \in Seq(T) /\ \E at : IsSelection(sel, at, Len(s), s, S)
  BY SelectedFacts
<1> HIDE DEF sel
<1>2. PICK at : IsSelection(sel, at, Len(s), s, S)
  BY <1>1
<1>3. at \in [1 .. Len(sel) -> 0 + 1 .. b]
  <2>1. \A i \in 1 .. Len(sel) : at[i] \in 1 .. Len(s) /\ s[at[i]] \in S
    BY <1>2 DEF IsSelection
  <2>2. \A i \in 1 .. Len(sel) : at[i] \in 0 + 1 .. b
    BY <2>1
  <2> QED
    BY <1>2, <2>2 DEF IsSelection
<1>4. \A i, j \in 1 .. Len(sel) : i < j => at[i] < at[j]
  BY <1>2 DEF IsSelection
<1>5. \A k \in 0 + 1 .. b : \E i \in 1 .. Len(sel) : at[i] = k
  BY <1>2 DEF IsSelection
<1> DEFINE m == Len(sel)
<1>6. m \in Nat /\ b \in Nat /\ CountsUp(at, m, 0, b)
  BY <1>1, <1>3, <1>4, <1>5 DEF CountsUp
<1> HIDE DEF m
<1>7. m = b - 0 /\ \A i \in 1 .. m : at[i] = 0 + i
  BY <1>6, CountsByOnes
<1>8. \A i \in 1 .. m : sel[i] = s[at[i]]
  BY <1>2 DEF IsSelection, m
<1> QED
  BY <1>6, <1>7, <1>8 DEF sel, m

\* Numbers that come with all below them are the first ones.
LEMMA FirstOnes ==
  ASSUME NEW n \in Nat, NEW A \in SUBSET (1 .. n), \A i \in A : \A j \in 1 .. i : j \in A
  PROVE  \E p \in 0 .. n : A = 1 .. p
<1> DEFINE Good == {m \in Nat : \A B \in SUBSET (1 .. m) :
                                  (\A i \in B : \A j \in 1 .. i : j \in B) => \E p \in 0 .. m : B = 1 .. p}
<1>1. 0 \in Good
  <2>1. 0 \in 0 .. 0 /\ \A B \in SUBSET (1 .. 0) : B = 1 .. 0
    OBVIOUS
  <2>2. \A B \in SUBSET (1 .. 0) : \E p \in 0 .. 0 : B = 1 .. p
    BY <2>1
  <2> QED
    BY <2>2
<1>2. ASSUME NEW m \in Nat, m \in Good PROVE m + 1 \in Good
  <2> SUFFICES ASSUME NEW B \in SUBSET (1 .. m + 1), \A i \in B : \A j \in 1 .. i : j \in B
               PROVE  \E p \in 0 .. m + 1 : B = 1 .. p
    OBVIOUS
  <2>1. CASE m + 1 \in B
    <3>1. B = 1 .. m + 1
      BY <2>1
    <3> QED
      BY <3>1
  <2>2. CASE m + 1 \notin B
    <3>1. B \in SUBSET (1 .. m)
      BY <2>2
    <3>2. PICK p \in 0 .. m : B = 1 .. p
      BY <1>2, <3>1
    <3> QED
      BY <3>2
  <2> QED
    BY <2>1, <2>2
<1> HIDE DEF Good
<1>3. Nat \subseteq Good
  BY <1>1, <1>2, Induction
<1>4. n \in Good
  BY <1>3
<1> QED
  BY <1>4 DEF Good

-------------------------------------------------------------------------------
(* The login throttle.                                                     *)

Ages == 0 .. Window + 1

IsStale(ages, n) ==
  /\ n \in 0 .. Len(ages)
  /\ \A i \in 1 .. n : ages[i] > Window
  /\ n < Len(ages) => ages[n + 1] <= Window

\* Popping from the left ends, and in one place.
LEMMA StaleFacts ==
  ASSUME NEW ages \in Seq(Ages)
  PROVE  /\ IsStale(ages, Stale(ages))
         /\ \A n : IsStale(ages, n) => n = Stale(ages)
<1>1. Window \in Nat /\ Len(ages) \in Nat /\ \A i \in 1 .. Len(ages) : ages[i] \in Nat
  BY LoginThrottleAssumption DEF Ages
<1>2. \E n : IsStale(ages, n)
  <2> SUFFICES ASSUME ~\E n : IsStale(ages, n) PROVE FALSE
    OBVIOUS
  <2> DEFINE Good == {n \in Nat : n <= Len(ages) => \A i \in 1 .. n : ages[i] > Window}
  <2>1. 0 \in Good
    OBVIOUS
  <2>2. ASSUME NEW n \in Nat, n \in Good PROVE n + 1 \in Good
    <3> SUFFICES ASSUME n + 1 <= Len(ages), NEW i \in 1 .. n + 1 PROVE ages[i] > Window
      OBVIOUS
    <3>1. \A j \in 1 .. n : ages[j] > Window
      BY <1>1, <2>2
    <3>2. ~IsStale(ages, n)
      OBVIOUS
    <3>3. ~(ages[n + 1] <= Window)
      BY <1>1, <3>1, <3>2 DEF IsStale
    <3>4. n + 1 \in 1 .. Len(ages)
      BY <1>1
    <3>5. ages[n + 1] > Window
      BY <1>1, <3>3, <3>4
    <3> QED
      BY <3>1, <3>5
  <2> HIDE DEF Good
  <2>3. Nat \subseteq Good
    BY <2>1, <2>2, Induction
  <2>4. Len(ages) \in Good
    BY <1>1, <2>3
  <2>5. IsStale(ages, Len(ages))
    BY <1>1, <2>4 DEF Good, IsStale
  <2> QED
    BY <2>5
<1>3. IsStale(ages, Stale(ages))
  <2>1. \E n \in 0 .. Len(ages) : /\ \A i \in 1 .. n : ages[i] > Window
                                  /\ n < Len(ages) => ages[n + 1] <= Window
    BY <1>2 DEF IsStale
  <2> QED
    BY <2>1 DEF Stale, IsStale
<1>4. ASSUME NEW n, NEW m, IsStale(ages, n), IsStale(ages, m), n < m PROVE FALSE
  <2>1. n \in Nat /\ m \in Nat /\ n + 1 \in 1 .. m /\ n + 1 \in 1 .. Len(ages) /\ n < Len(ages)
    BY <1>1, <1>4 DEF IsStale
  <2>2. ages[n + 1] > Window /\ ages[n + 1] <= Window
    BY <1>4, <2>1 DEF IsStale
  <2> QED
    BY <1>1, <2>1, <2>2
<1>5. \A n : IsStale(ages, n) => n \in Nat
  BY <1>1 DEF IsStale
<1>6. ASSUME NEW n, IsStale(ages, n) PROVE n = Stale(ages)
  <2>1. ~(n < Stale(ages)) /\ ~(Stale(ages) < n)
    BY <1>3, <1>4, <1>6
  <2>2. n \in Nat /\ Stale(ages) \in Nat
    BY <1>3, <1>5, <1>6
  <2> QED
    BY <2>1, <2>2
<1> QED
  BY <1>3, <1>6

\* _recent keeps the attempts after the ones it drops.
LEMMA RecentFacts ==
  ASSUME NEW ages \in Seq(Ages)
  PROVE  /\ Stale(ages) \in 0 .. Len(ages)
         /\ Recent(ages) \in Seq(Ages)
         /\ Len(Recent(ages)) = Len(ages) - Stale(ages)
         /\ \A i \in 1 .. Len(Recent(ages)) : Recent(ages)[i] = ages[Stale(ages) + i]
<1> DEFINE n == Stale(ages)
<1>1. n \in 0 .. Len(ages)
  BY StaleFacts DEF IsStale
<1> HIDE DEF n
<1> DEFINE rest == SubSeq(ages, n + 1, Len(ages))
<1>2. rest \in Seq(Ages) /\ Len(rest) = Len(ages) - n /\ \A i \in 1 .. Len(rest) : rest[i] = ages[n + i]
  BY <1>1
<1>3. Recent(ages) = rest
  BY DEF Recent, n
<1> QED
  BY <1>1, <1>2, <1>3 DEF n

\* Nothing is dropped if the first is recent.
LEMMA RecentOfRecent ==
  ASSUME NEW ages \in Seq(Ages), ages # <<>> => ages[1] <= Window
  PROVE  Recent(ages) = ages
<1>1. IsStale(ages, 0)
  BY DEF IsStale
<1>2. Stale(ages) = 0
  BY <1>1, StaleFacts
<1> QED
  BY <1>2, RecentFacts

\* The first that _recent keeps is recent.
LEMMA FirstIsRecent ==
  ASSUME NEW ages \in Seq(Ages)
  PROVE  Recent(ages) # <<>> => Recent(ages)[1] <= Window
<1> DEFINE n == Stale(ages)
<1>1. IsStale(ages, n)
  BY StaleFacts
<1>2. /\ n \in 0 .. Len(ages)
      /\ Recent(ages) \in Seq(Ages)
      /\ Len(Recent(ages)) = Len(ages) - n
      /\ \A i \in 1 .. Len(Recent(ages)) : Recent(ages)[i] = ages[n + i]
  BY RecentFacts
<1> HIDE DEF n
<1> SUFFICES ASSUME Recent(ages) # <<>> PROVE Recent(ages)[1] <= Window
  OBVIOUS
<1>3. Len(Recent(ages)) # 0
  BY <1>2
<1>4. n < Len(ages) /\ Recent(ages)[1] = ages[n + 1]
  BY <1>2, <1>3
<1> QED
  BY <1>1, <1>4 DEF IsStale

\* Ages as they grow.
LEMMA OlderFacts ==
  ASSUME NEW ages \in Seq(Ages)
  PROVE  /\ Older(ages) \in Seq(Ages) /\ Len(Older(ages)) = Len(ages)
         /\ \A i \in 1 .. Len(ages) :
              /\ Older(ages)[i] = IF ages[i] <= Window THEN ages[i] + 1 ELSE ages[i]
              /\ ages[i] > Window => Older(ages)[i] > Window
<1>1. Window \in Nat /\ Len(ages) \in Nat /\ \A i \in 1 .. Len(ages) : ages[i] \in 0 .. Window + 1
  BY LoginThrottleAssumption DEF Ages
<1>2. \A i \in 1 .. Len(ages) : (IF ages[i] <= Window THEN ages[i] + 1 ELSE ages[i]) \in 0 .. Window + 1
  BY <1>1
<1>3. Older(ages) \in Seq(Ages) /\ Len(Older(ages)) = Len(ages)
  BY <1>1, <1>2 DEF Older, Ages
<1>4. \A i \in 1 .. Len(ages) : Older(ages)[i] = IF ages[i] <= Window THEN ages[i] + 1 ELSE ages[i]
  BY DEF Older
<1> QED
  BY <1>1, <1>3, <1>4

\* Dropping before the ages grow changes nothing.
LEMMA RecentThenOlder ==
  ASSUME NEW ages \in Seq(Ages)
  PROVE  Recent(Older(Recent(ages))) = Recent(Older(ages))
<1> DEFINE n == Stale(ages)
           r == Recent(ages)
           old == Older(r)
           all == Older(ages)
           m == Stale(old)
<1>1. /\ n \in 0 .. Len(ages) /\ r \in Seq(Ages) /\ Len(r) = Len(ages) - n
      /\ \A i \in 1 .. Len(r) : r[i] = ages[n + i]
      /\ Len(ages) \in Nat
  BY RecentFacts
<1>2. \A i \in 1 .. n : ages[i] > Window
  BY StaleFacts DEF IsStale
<1> HIDE DEF n, r
<1>3. /\ old \in Seq(Ages) /\ Len(old) = Len(r)
      /\ \A i \in 1 .. Len(r) : old[i] = IF r[i] <= Window THEN r[i] + 1 ELSE r[i]
  BY <1>1, OlderFacts
<1>4. /\ all \in Seq(Ages) /\ Len(all) = Len(ages)
      /\ \A i \in 1 .. Len(ages) : /\ all[i] = IF ages[i] <= Window THEN ages[i] + 1 ELSE ages[i]
                                   /\ ages[i] > Window => all[i] > Window
  BY OlderFacts
<1> HIDE DEF old, all
<1>5. \A i \in 1 .. Len(r) : all[n + i] = old[i]
  <2>1. \A i \in 1 .. Len(r) : n + i \in 1 .. Len(ages) /\ r[i] = ages[n + i]
    BY <1>1
  <2> QED
    BY <1>3, <1>4, <2>1
<1>6. /\ m \in 0 .. Len(old) /\ Recent(old) \in Seq(Ages) /\ Len(Recent(old)) = Len(old) - m
      /\ \A i \in 1 .. Len(Recent(old)) : Recent(old)[i] = old[m + i]
  BY <1>3, RecentFacts
<1>7. IsStale(old, m)
  BY <1>3, StaleFacts
<1> HIDE DEF m
<1>8. IsStale(all, n + m)
  <2>1. n + m \in 0 .. Len(all)
    BY <1>1, <1>3, <1>4, <1>6
  <2>2. ASSUME NEW i \in 1 .. n + m PROVE all[i] > Window
    <3>1. CASE i <= n
      BY <1>1, <1>2, <1>4, <3>1
    <3>2. CASE i > n
      <4>1. i - n \in 1 .. m /\ i - n \in 1 .. Len(r) /\ n + (i - n) = i
        BY <1>1, <1>3, <1>6, <3>2
      <4> QED
        BY <1>5, <1>7, <4>1 DEF IsStale
    <3> QED
      BY <1>1, <1>6, <3>1, <3>2
  <2>3. ASSUME n + m < Len(all) PROVE all[n + m + 1] <= Window
    <3>1. m < Len(old) /\ m + 1 \in 1 .. Len(r) /\ n + (m + 1) = n + m + 1
      BY <1>1, <1>3, <1>4, <1>6, <2>3
    <3> QED
      BY <1>5, <1>7, <3>1 DEF IsStale
  <2> QED
    BY <2>1, <2>2, <2>3 DEF IsStale
<1>9. Stale(all) = n + m
  BY <1>4, <1>8, StaleFacts
<1>10. /\ Recent(all) \in Seq(Ages) /\ Len(Recent(all)) = Len(all) - (n + m)
       /\ \A i \in 1 .. Len(Recent(all)) : Recent(all)[i] = all[(n + m) + i]
  BY <1>4, <1>9, RecentFacts
<1>11. Len(Recent(all)) = Len(Recent(old))
  BY <1>1, <1>3, <1>4, <1>6, <1>10
<1>12. ASSUME NEW i \in 1 .. Len(Recent(all)) PROVE Recent(all)[i] = Recent(old)[i]
  <2>1. m + i \in 1 .. Len(r) /\ (n + m) + i = n + (m + i)
    BY <1>1, <1>3, <1>6, <1>11
  <2> QED
    BY <1>5, <1>6, <1>10, <1>11, <2>1
<1>13. Recent(all) = Recent(old)
  BY <1>6, <1>10, <1>11, <1>12, SeqEqual
<1> QED
  BY <1>13 DEF all, old, r

\* Oldest first.
Sorted(ages) == \A i, j \in 1 .. Len(ages) : i <= j => ages[i] >= ages[j]

\* If the oldest come first, dropping from the left leaves what is in the window.
LEMMA RecentIsWindow ==
  ASSUME NEW ages \in Seq(Ages), Sorted(ages)
  PROVE  Selected(ages, 0 .. Window) = Recent(ages)
<1> DEFINE n == Stale(ages)
<1>1. IsStale(ages, n) /\ n \in 0 .. Len(ages)
  BY StaleFacts DEF IsStale
<1> HIDE DEF n
<1>2. Window \in Nat /\ \A i \in 1 .. Len(ages) : ages[i] \in Nat
  BY LoginThrottleAssumption DEF Ages
<1>3. ASSUME NEW i \in 1 .. Len(ages) PROVE ages[i] \in 0 .. Window <=> i > n
  <2>1. CASE i > n
    <3>1. n < Len(ages) /\ n + 1 \in 1 .. Len(ages) /\ n + 1 <= i
      BY <1>1, <2>1
    <3>2. ages[n + 1] <= Window /\ ages[n + 1] >= ages[i]
      BY <1>1, <3>1 DEF IsStale, Sorted
    <3> QED
      BY <1>2, <2>1, <3>1, <3>2
  <2>2. CASE ~(i > n)
    <3>1. i \in 1 .. n
      BY <1>1, <2>2
    <3>2. ages[i] > Window
      BY <1>1, <3>1 DEF IsStale
    <3> QED
      BY <1>2, <2>2, <3>2
  <2> QED
    BY <2>1, <2>2
<1>4. Selected(ages, 0 .. Window) = SubSeq(ages, n + 1, Len(ages))
  BY <1>1, <1>3, SelectedEnd
<1> QED
  BY <1>4 DEF Recent, n

-------------------------------------------------------------------------------
\* The failures since a key's last success come oldest first.
OldestFirst == \A k \in Keys : Sorted(actual[k])

\* The keys tracked after a key failed since it was tracked.
NewerFailed ==
  /\ \A k \in Keys : IsFiniteSet(newer[k])
  /\ \A i, j \in 1 .. Len(tracked) : i < j => tracked[j] \in newer[tracked[i]]

ThrottleInv == ThrottleTypeOK /\ WindowIsExact /\ OldestFirst /\ NewerFailed

\* The types as the lemmas need them.
LEMMA AgesTyped ==
  ASSUME ThrottleTypeOK, NEW k \in Keys
  PROVE  failures[k] \in Seq(Ages) /\ actual[k] \in Seq(Ages) /\ actual[k] \in Seq(0 .. Window)
<1>1. failures[k] \in Seq(Ages) /\ actual[k] \in Seq(0 .. Window)
  BY DEF ThrottleTypeOK, Ages
<1>2. (0 .. Window) \subseteq Ages
  BY LoginThrottleAssumption DEF Ages
<1> QED
  BY <1>1, <1>2, SeqWider

LEMMA InitThrottleInv == ThrottleInit => ThrottleInv
<1> SUFFICES ASSUME ThrottleInit PROVE ThrottleInv
  OBVIOUS
<1>1. tracked = <<>> /\ Len(tracked) = 0
  BY DEF ThrottleInit
<1>2. ThrottleTypeOK
  BY <1>1, LoginThrottleAssumption DEF ThrottleInit, ThrottleTypeOK
<1>3. WindowIsExact
  <2> SUFFICES ASSUME NEW k \in Keys PROVE Recent(failures[k]) = actual[k]
    BY DEF WindowIsExact
  <2>1. failures[k] = <<>> /\ actual[k] = <<>> /\ <<>> \in Seq(Ages)
    BY DEF ThrottleInit
  <2> QED
    BY <2>1, RecentOfRecent
<1>4. OldestFirst
  BY DEF ThrottleInit, OldestFirst, Sorted
<1>5. NewerFailed
  BY <1>1, FS_EmptySet DEF ThrottleInit, NewerFailed
<1> QED
  BY <1>2, <1>3, <1>4, <1>5 DEF ThrottleInv

\* Growing older drops from the counted attempts what leaves the window.
LEMMA TickInv ==
  ASSUME ThrottleInv, Tick
  PROVE  ThrottleInv' /\ \A k \in Keys : Len(actual'[k]) <= Len(actual[k])
<1> USE DEF ThrottleInv
<1>1. ASSUME NEW k \in Keys
      PROVE  /\ failures'[k] \in Seq(Ages) /\ actual'[k] \in Seq(0 .. Window)
             /\ failures'[k] # <<>> => failures[k] # <<>>
             /\ Recent(failures'[k]) = actual'[k] /\ Sorted(actual'[k])
             /\ Len(actual'[k]) <= Len(actual[k])
  <2>1. failures[k] \in Seq(Ages) /\ actual[k] \in Seq(Ages) /\ actual[k] \in Seq(0 .. Window)
    BY AgesTyped
  <2>2. failures'[k] = Older(failures[k]) /\ actual'[k] = Selected(Older(actual[k]), 0 .. Window)
    BY DEF Tick
  <2>3. actual[k] = Recent(failures[k]) /\ Sorted(actual[k])
    BY DEF WindowIsExact, OldestFirst
  <2> DEFINE old == Older(actual[k])
  <2>4. /\ old \in Seq(Ages) /\ Len(old) = Len(actual[k]) /\ Len(old) \in Nat
        /\ \A i \in 1 .. Len(actual[k]) :
             old[i] = IF actual[k][i] <= Window THEN actual[k][i] + 1 ELSE actual[k][i]
    BY <2>1, OlderFacts
  <2> HIDE DEF old
  <2>5. Window \in Nat /\ \A i \in 1 .. Len(actual[k]) : actual[k][i] \in 0 .. Window
    BY <2>1, LoginThrottleAssumption
  <2>6. Sorted(old)
    BY <2>3, <2>4, <2>5 DEF Sorted
  <2> DEFINE sel == Selected(old, 0 .. Window)
  <2>7. sel \in Seq(Ages) /\ \E at : IsSelection(sel, at, Len(old), old, 0 .. Window)
    BY <2>4, SelectedFacts
  <2>8. Len(sel) <= Len(old)
    BY <2>4, SelectionShorter
  <2>9. sel = Recent(old)
    BY <2>4, <2>6, RecentIsWindow
  <2>10. Recent(Older(failures[k])) = Recent(old)
    BY <2>1, <2>3, RecentThenOlder DEF old
  <2> HIDE DEF sel
  <2>11. PICK at : IsSelection(sel, at, Len(old), old, 0 .. Window)
    BY <2>7
  <2>12. \A i \in 1 .. Len(sel) : sel[i] \in 0 .. Window /\ sel[i] = old[at[i]] /\ at[i] \in 1 .. Len(old)
    BY <2>11 DEF IsSelection
  <2>13. sel \in Seq(0 .. Window)
    BY <2>7, <2>12, SeqOver
  <2>14. Sorted(sel)
    <3> SUFFICES ASSUME NEW i \in 1 .. Len(sel), NEW j \in 1 .. Len(sel), i <= j PROVE sel[i] >= sel[j]
      BY DEF Sorted
    <3>1. at[i] <= at[j] /\ at[i] \in 1 .. Len(old) /\ at[j] \in 1 .. Len(old)
      <4>1. at[i] \in 1 .. Len(old) /\ at[j] \in 1 .. Len(old)
        BY <2>12
      <4>2. i = j \/ i < j
        BY <2>7
      <4>3. i < j => at[i] < at[j]
        BY <2>11 DEF IsSelection
      <4> QED
        BY <2>4, <4>1, <4>2, <4>3
    <3> QED
      BY <2>6, <2>12, <3>1 DEF Sorted
  <2>15. failures'[k] \in Seq(Ages) /\ Len(failures'[k]) = Len(failures[k])
    BY <2>1, <2>2, OlderFacts
  <2>16. failures'[k] # <<>> => failures[k] # <<>>
    BY <2>1, <2>15
  <2> QED
    BY <2>2, <2>4, <2>8, <2>9, <2>10, <2>13, <2>14, <2>15, <2>16 DEF sel, old
<1>2. ThrottleTypeOK'
  <2>1. failures' \in [Keys -> Seq(Ages)] /\ actual' \in [Keys -> Seq(0 .. Window)]
    BY <1>1 DEF Tick
  <2>2. \A k \in Keys : failures'[k] # <<>> => IsTracked(k)'
    BY <1>1 DEF Tick, ThrottleTypeOK, IsTracked
  <2> QED
    BY <2>1, <2>2 DEF Tick, ThrottleTypeOK, Ages
<1>3. WindowIsExact' /\ OldestFirst'
  BY <1>1 DEF WindowIsExact, OldestFirst
<1>4. NewerFailed'
  BY DEF Tick, NewerFailed
<1> QED
  BY <1>1, <1>2, <1>3, <1>4

\* check prunes and counts nothing.
LEMMA CheckLoginInv ==
  ASSUME ThrottleInv, NEW l \in Logins, NEW k \in Keys, CheckLogin(l, k)
  PROVE  ThrottleInv'
<1> USE DEF ThrottleInv
<1>1. failures[k] \in Seq(Ages)
  BY AgesTyped
<1>2. /\ failures' \in [Keys -> Seq(Ages)] /\ failures'[k] = Recent(failures[k])
      /\ \A j \in Keys : j # k => failures'[j] = failures[j]
  BY <1>1, RecentFacts DEF CheckLogin, ThrottleTypeOK, Ages
<1>3. failures'[k] # <<>> => failures[k] # <<>>
  BY <1>1, <1>2, RecentFacts
<1>4. ThrottleTypeOK'
  <2>1. \A j \in Keys : failures'[j] # <<>> => IsTracked(j)'
    BY <1>2, <1>3 DEF CheckLogin, ThrottleTypeOK, IsTracked
  <2>2. login' \in [Logins -> {<<>>} \union {<<j>> : j \in Keys}]
    BY DEF CheckLogin, ThrottleTypeOK
  <2> QED
    BY <1>2, <2>1, <2>2 DEF CheckLogin, ThrottleTypeOK, Ages
<1>5. WindowIsExact'
  <2>1. Recent(Recent(failures[k])) = Recent(failures[k])
    BY <1>1, RecentFacts, FirstIsRecent, RecentOfRecent
  <2> QED
    BY <1>2, <2>1 DEF CheckLogin, WindowIsExact
<1>6. OldestFirst' /\ NewerFailed'
  BY DEF CheckLogin, OldestFirst, NewerFailed
<1> QED
  BY <1>4, <1>5, <1>6

\* Which keys are tracked after a failure: the one that failed, and no new one besides;
\* what is dropped has seen MaxKeys others fail.
LEMMA TrackedKeys ==
  ASSUME ThrottleInv, NEW k \in Keys, RecordFailure(k)
  PROVE  /\ tracked' \in Seq(Keys) /\ Len(tracked') <= MaxKeys
         /\ \A i, j \in 1 .. Len(tracked') : tracked'[i] = tracked'[j] => i = j
         /\ \E i \in 1 .. Len(tracked') : tracked'[i] = k
         /\ \A i \in 1 .. Len(tracked') : tracked'[i] # k => IsTracked(tracked'[i])
         /\ NewerFailed'
         /\ \A j \in Keys : Dropped(j) => Cardinality(newer'[j]) >= MaxKeys
<1> DEFINE keys == IF IsTracked(k) THEN tracked ELSE Append(tracked, k)
<1>1. /\ tracked \in Seq(Keys) /\ Len(tracked) \in Nat /\ Len(tracked) <= MaxKeys
      /\ \A i, j \in 1 .. Len(tracked) : tracked[i] = tracked[j] => i = j
      /\ newer \in [Keys -> SUBSET Keys]
      /\ MaxKeys \in Nat /\ MaxKeys >= 1
  BY LoginThrottleAssumption DEF ThrottleInv, ThrottleTypeOK
<1>2. /\ \A j \in Keys : IsFiniteSet(newer[j])
      /\ \A i, j \in 1 .. Len(tracked) : i < j => tracked[j] \in newer[tracked[i]]
  BY DEF ThrottleInv, NewerFailed
<1>3. \A j \in Keys : newer'[j] = IF IsTracked(j) THEN newer[j] \union ({k} \ {j}) ELSE {}
  BY DEF RecordFailure
<1>4. \A j \in Keys : IsFiniteSet(newer'[j])
  <2> SUFFICES ASSUME NEW j \in Keys PROVE IsFiniteSet(newer'[j])
    OBVIOUS
  <2>1. IsFiniteSet({k} \ {j})
    BY FS_Singleton, FS_Subset
  <2>2. IsFiniteSet(newer[j] \union ({k} \ {j}))
    BY <1>2, <2>1, FS_Union
  <2>3. IsFiniteSet({})
    BY FS_EmptySet
  <2> QED
    BY <1>3, <2>2, <2>3
<1>5. CASE IsTracked(k)
  <2>1. tracked' = tracked
    BY <1>1, <1>5 DEF RecordFailure, Trimmed
  <2>2. \A i \in 1 .. Len(tracked) : tracked[i] \in Keys /\ IsTracked(tracked[i])
    BY <1>1 DEF IsTracked
  <2>3. \A i, j \in 1 .. Len(tracked) : i < j => tracked[j] \in newer'[tracked[i]]
    <3> SUFFICES ASSUME NEW i \in 1 .. Len(tracked), NEW j \in 1 .. Len(tracked), i < j
                 PROVE  tracked[j] \in newer'[tracked[i]]
      OBVIOUS
    <3>1. newer'[tracked[i]] = newer[tracked[i]] \union ({k} \ {tracked[i]})
      BY <1>3, <2>2
    <3> QED
      BY <1>2, <3>1
  <2> QED
    BY <1>1, <1>4, <1>5, <2>1, <2>2, <2>3 DEF NewerFailed, IsTracked, Dropped
<1>6. CASE ~IsTracked(k)
  <2>1. /\ keys \in Seq(Keys) /\ Len(keys) = Len(tracked) + 1 /\ keys[Len(keys)] = k
        /\ \A i \in 1 .. Len(tracked) : keys[i] = tracked[i] /\ tracked[i] \in Keys
    BY <1>1, <1>6
  <2>2. tracked' = Trimmed(keys)
    BY DEF RecordFailure
  <2> HIDE DEF keys
  <2>3. \A i \in 1 .. Len(keys) : i \in 1 .. Len(tracked) \/ i = Len(keys)
    BY <1>1, <2>1
  <2>4. \A i \in 1 .. Len(tracked) : IsTracked(keys[i]) /\ keys[i] # k
    BY <1>6, <2>1 DEF IsTracked
  <2>5. \A i, j \in 1 .. Len(keys) : keys[i] = keys[j] => i = j
    <3> SUFFICES ASSUME NEW i \in 1 .. Len(keys), NEW j \in 1 .. Len(keys), keys[i] = keys[j]
                 PROVE  i = j
      OBVIOUS
    <3>1. CASE i \in 1 .. Len(tracked) /\ j \in 1 .. Len(tracked)
      BY <1>1, <2>1, <3>1
    <3> QED
      BY <2>1, <2>3, <2>4, <3>1
  <2>6. \A i, j \in 1 .. Len(keys) : i < j => keys[j] \in newer'[keys[i]]
    <3> SUFFICES ASSUME NEW i \in 1 .. Len(keys), NEW j \in 1 .. Len(keys), i < j
                 PROVE  keys[j] \in newer'[keys[i]]
      OBVIOUS
    <3>1. i \in 1 .. Len(tracked)
      BY <1>1, <2>1
    <3>2. newer'[keys[i]] = newer[keys[i]] \union {k}
      <4>1. keys[i] \in Keys /\ IsTracked(keys[i]) /\ keys[i] # k
        BY <2>1, <2>4, <3>1
      <4>2. newer'[keys[i]] = newer[keys[i]] \union ({k} \ {keys[i]})
        BY <1>3, <4>1
      <4> QED
        BY <4>1, <4>2
    <3>3. CASE j = Len(keys)
      BY <2>1, <3>2, <3>3
    <3>4. CASE j \in 1 .. Len(tracked)
      <4>1. tracked[j] \in newer[tracked[i]]
        BY <1>2, <3>1, <3>4
      <4> QED
        BY <2>1, <3>1, <3>2, <3>4, <4>1
    <3> QED
      BY <2>3, <3>3, <3>4
  <2>7. CASE Len(keys) <= MaxKeys
    <3>1. tracked' = keys
      BY <1>1, <2>1, <2>2, <2>7 DEF Trimmed
    <3>2. \A j \in Keys : ~Dropped(j)
      BY <1>1, <2>1, <2>3, <3>1 DEF Dropped, IsTracked
    <3>3. NewerFailed'
      BY <1>4, <2>6, <3>1 DEF NewerFailed
    <3>4. Len(keys) \in 1 .. Len(keys)
      BY <1>1, <2>1
    <3>5. \A i \in 1 .. Len(keys) : keys[i] # k => IsTracked(keys[i])
      BY <2>1, <2>3, <2>4
    <3> QED
      BY <2>1, <2>5, <2>7, <3>1, <3>2, <3>3, <3>4, <3>5
  <2>8. CASE Len(keys) > MaxKeys
    <3>1. Len(tracked) = MaxKeys /\ Len(keys) = MaxKeys + 1
      BY <1>1, <2>1, <2>8
    <3>2. tracked' = Tail(keys)
      BY <2>2, <2>8 DEF Trimmed
    <3>3. /\ tracked' \in Seq(Keys) /\ Len(tracked') = MaxKeys
          /\ \A i \in 1 .. MaxKeys : tracked'[i] = keys[i + 1]
      BY <1>1, <2>1, <3>1, <3>2
    <3>4. \A i \in 1 .. MaxKeys : i + 1 \in 1 .. Len(keys)
      BY <1>1, <3>1
    <3>5. \A i, j \in 1 .. MaxKeys : tracked'[i] = tracked'[j] => i = j
      <4> SUFFICES ASSUME NEW i \in 1 .. MaxKeys, NEW j \in 1 .. MaxKeys, tracked'[i] = tracked'[j]
                   PROVE  i = j
        OBVIOUS
      <4>1. keys[i + 1] = keys[j + 1]
        BY <3>3
      <4>2. i + 1 = j + 1
        BY <2>5, <3>4, <4>1
      <4> QED
        BY <1>1, <4>2
    <3>6. \A i, j \in 1 .. MaxKeys : i < j => tracked'[j] \in newer'[tracked'[i]]
      <4>1. \A i, j \in 1 .. MaxKeys : i < j => i + 1 < j + 1
        BY <1>1
      <4> QED
        BY <2>6, <3>3, <3>4, <4>1
    <3>7. NewerFailed'
      BY <1>4, <3>3, <3>6 DEF NewerFailed
    <3>8. MaxKeys \in 1 .. MaxKeys /\ tracked'[MaxKeys] = k
      BY <1>1, <2>1, <3>1, <3>3
    <3>9. ASSUME NEW i \in 1 .. MaxKeys, tracked'[i] # k PROVE IsTracked(tracked'[i])
      <4>1. tracked'[i] = keys[i + 1] /\ i + 1 # Len(keys)
        BY <2>1, <3>3, <3>9
      <4>2. i + 1 \in 1 .. Len(tracked)
        BY <2>3, <3>4, <4>1
      <4> QED
        BY <2>4, <4>1, <4>2
    <3>10. ASSUME NEW j \in Keys, Dropped(j) PROVE Cardinality(newer'[j]) >= MaxKeys
      <4>1. PICK i \in 1 .. Len(tracked) : tracked[i] = j
        BY <3>10 DEF Dropped, IsTracked
      <4>2. i = 1
        <5> SUFFICES ASSUME i # 1 PROVE FALSE
          OBVIOUS
        <5>1. i - 1 \in 1 .. MaxKeys /\ (i - 1) + 1 = i
          BY <1>1, <3>1
        <5>2. tracked'[i - 1] = keys[i]
          BY <3>3, <5>1
        <5>3. tracked'[i - 1] = j
          BY <2>1, <4>1, <5>2
        <5> QED
          BY <3>3, <3>10, <5>1, <5>3 DEF Dropped
      <4> DEFINE others == Entries(tracked', MaxKeys)
      <4>3. IsFiniteSet(others) /\ Cardinality(others) = MaxKeys
        <5> DEFINE f == tracked'
        <5>1. MaxKeys \in Nat /\ \A n, m \in 1 .. MaxKeys : f[n] = f[m] => n = m
          BY <1>1, <3>5
        <5> HIDE DEF f
        <5>2. IsFiniteSet(Entries(f, MaxKeys)) /\ Cardinality(Entries(f, MaxKeys)) = MaxKeys
          BY <5>1, CountDistinct
        <5> QED
          BY <5>2 DEF f
      <4>4. others \subseteq newer'[j]
        <5>1. \A n \in 1 .. MaxKeys : 1 \in 1 .. Len(keys) /\ 1 < n + 1
          BY <1>1, <3>1
        <5>2. \A n \in 1 .. MaxKeys : keys[n + 1] \in newer'[keys[1]]
          BY <2>6, <3>4, <5>1
        <5>3. keys[1] = j
          BY <2>1, <4>1, <4>2
        <5> QED
          BY <3>3, <5>2, <5>3 DEF Entries
      <4> HIDE DEF others
      <4>5. Cardinality(newer'[j]) \in Nat /\ Cardinality(others) <= Cardinality(newer'[j])
        BY <1>4, <4>4, FS_Subset, FS_CardinalityType
      <4> QED
        BY <1>1, <4>3, <4>5
    <3> QED
      BY <1>1, <3>3, <3>5, <3>7, <3>8, <3>9, <3>10
  <2> QED
    BY <1>1, <2>1, <2>7, <2>8
<1> QED
  BY <1>5, <1>6

\* A failure is the youngest attempt of its key.
LEMMA YoungestLast ==
  ASSUME NEW ages \in Seq(0 .. Window), Sorted(ages)
  PROVE  /\ Append(ages, 0) \in Seq(0 .. Window) /\ Sorted(Append(ages, 0))
         /\ Append(ages, 0) # <<>> /\ Append(ages, 0)[1] <= Window
         /\ Len(Append(ages, 0)) = Len(ages) + 1
<1> DEFINE new == Append(ages, 0)
<1>1. Window \in Nat /\ 0 \in 0 .. Window /\ Len(ages) \in Nat
  BY LoginThrottleAssumption
<1>2. /\ new \in Seq(0 .. Window) /\ Len(new) = Len(ages) + 1
      /\ \A i \in 1 .. Len(ages) : new[i] = ages[i]
      /\ new[Len(ages) + 1] = 0
  BY <1>1
<1> HIDE DEF new
<1>3. \A i \in 1 .. Len(new) : new[i] \in 0 .. Window
  BY <1>2, SeqItems
<1>4. Sorted(new)
  <2> SUFFICES ASSUME NEW i \in 1 .. Len(new), NEW j \in 1 .. Len(new), i <= j PROVE new[i] >= new[j]
    BY DEF Sorted
  <2>1. new[i] \in 0 .. Window
    BY <1>3
  <2>2. CASE j = Len(ages) + 1
    BY <1>1, <1>2, <2>1, <2>2
  <2>3. CASE j # Len(ages) + 1
    <3>1. i \in 1 .. Len(ages) /\ j \in 1 .. Len(ages)
      BY <1>1, <1>2, <2>3
    <3> QED
      BY <1>2, <3>1 DEF Sorted
  <2> QED
    BY <2>2, <2>3
<1>5. new # <<>> /\ new[1] <= Window
  <2>1. 1 \in 1 .. Len(new)
    BY <1>1, <1>2
  <2> QED
    BY <1>1, <1>2, <1>3, <2>1
<1> QED
  BY <1>2, <1>4, <1>5 DEF new

\* No attempts, nothing to drop.
LEMMA RecentOfNone == <<>> \in Seq(Ages) /\ Recent(<<>>) = <<>> /\ Sorted(<<>>)
<1> DEFINE e == <<>>
<1>1. e \in Seq(Ages) /\ 1 .. Len(e) = {} /\ e = <<>>
  BY SeqItems
<1> HIDE DEF e
<1>2. Recent(e) = e
  BY <1>1, RecentOfRecent
<1>3. Sorted(e)
  BY <1>1 DEF Sorted
<1> QED
  BY <1>1, <1>2, <1>3

\* A failure counts for its key, and no other key counts more than before.
LEMMA LoginFailsInv ==
  ASSUME ThrottleInv, NEW l \in Logins, NEW k \in Keys, login[l] = <<k>>, LoginFails(l)
  PROVE  /\ ThrottleInv'
         /\ Len(actual'[k]) = Len(actual[k]) + 1
         /\ \A j \in Keys : j # k => Len(actual'[j]) <= Len(actual[j])
<1> USE DEF ThrottleInv
<1>1. RecordFailure(k) /\ login' = [login EXCEPT ![l] = <<>>]
  BY DEF LoginFails
<1> DEFINE now(j) == \E i \in 1 .. Len(tracked') : tracked'[i] = j
<1>2. /\ tracked' \in Seq(Keys) /\ Len(tracked') <= MaxKeys
      /\ \A i, j \in 1 .. Len(tracked') : tracked'[i] = tracked'[j] => i = j
      /\ now(k)
      /\ \A j \in Keys : j # k /\ now(j) => IsTracked(j)
      /\ NewerFailed'
      /\ \A j \in Keys : Dropped(j) => Cardinality(newer'[j]) >= MaxKeys
  BY <1>1, TrackedKeys
<1>3. \A j \in Keys : failures'[j] = CASE ~now(j) -> <<>>
                                      [] j = k -> Append(Recent(failures[k]), 0)
                                      [] OTHER -> failures[j]
  BY <1>1 DEF RecordFailure
<1>4. \A j \in Keys : actual'[j] = CASE j = k -> Append(actual[k], 0)
                                    [] j # k /\ Dropped(j) /\ Cardinality(newer'[j]) >= MaxKeys -> <<>>
                                    [] OTHER -> actual[j]
  BY <1>1 DEF RecordFailure
<1>5. \A j \in Keys : Dropped(j) <=> IsTracked(j) /\ ~now(j)
  BY DEF Dropped
<1> HIDE DEF now
<1>6. /\ actual'[k] \in Seq(0 .. Window) /\ Sorted(actual'[k])
      /\ failures'[k] = actual'[k] /\ Recent(failures'[k]) = actual'[k]
      /\ failures'[k] \in Seq(Ages)
      /\ Len(actual'[k]) = Len(actual[k]) + 1
  <2>1. actual[k] \in Seq(0 .. Window) /\ Sorted(actual[k]) /\ Recent(failures[k]) = actual[k]
    BY AgesTyped DEF WindowIsExact, OldestFirst
  <2>2. actual'[k] = Append(actual[k], 0) /\ failures'[k] = Append(actual[k], 0)
    BY <1>2, <1>3, <1>4, <2>1
  <2>3. (0 .. Window) \subseteq Ages
    BY LoginThrottleAssumption DEF Ages
  <2>4. Append(actual[k], 0) \in Seq(Ages)
    BY <2>1, <2>3, YoungestLast, SeqWider
  <2>5. Recent(Append(actual[k], 0)) = Append(actual[k], 0)
    BY <2>1, <2>4, YoungestLast, RecentOfRecent
  <2> QED
    BY <2>1, <2>2, <2>4, <2>5, YoungestLast
<1>7. ASSUME NEW j \in Keys, j # k
      PROVE  /\ actual'[j] \in {<<>>, actual[j]} /\ failures'[j] \in {<<>>, failures[j]}
             /\ Recent(failures'[j]) = actual'[j]
             /\ failures'[j] # <<>> => now(j)
  <2>1. Recent(failures[j]) = actual[j] /\ (failures[j] # <<>> => IsTracked(j))
    BY DEF WindowIsExact, ThrottleTypeOK
  <2>2. CASE now(j)
    <3>1. failures'[j] = failures[j] /\ actual'[j] = actual[j]
      BY <1>3, <1>4, <1>5, <1>7, <2>2
    <3> QED
      BY <2>1, <2>2, <3>1
  <2>3. CASE ~now(j) /\ IsTracked(j)
    <3>1. failures'[j] = <<>> /\ actual'[j] = <<>>
      BY <1>2, <1>3, <1>4, <1>5, <1>7, <2>3
    <3> QED
      BY <3>1, RecentOfNone
  <2>4. CASE ~now(j) /\ ~IsTracked(j)
    <3>1. failures[j] = <<>> /\ failures'[j] = <<>> /\ actual'[j] = actual[j]
      BY <1>3, <1>4, <1>5, <1>7, <2>1, <2>4
    <3> QED
      BY <2>1, <3>1
  <2> QED
    BY <2>2, <2>3, <2>4
<1>8. \A j \in Keys : /\ failures[j] \in Seq(Ages) /\ actual[j] \in Seq(0 .. Window) /\ Sorted(actual[j])
                      /\ Len(actual[j]) \in Nat
  <2> SUFFICES ASSUME NEW j \in Keys
               PROVE  /\ failures[j] \in Seq(Ages) /\ actual[j] \in Seq(0 .. Window) /\ Sorted(actual[j])
                      /\ Len(actual[j]) \in Nat
    OBVIOUS
  <2>1. failures[j] \in Seq(Ages) /\ actual[j] \in Seq(0 .. Window) /\ Sorted(actual[j])
    BY AgesTyped DEF OldestFirst
  <2> QED
    BY <2>1
<1>9. ASSUME NEW j \in Keys
      PROVE  /\ failures'[j] \in Seq(Ages) /\ actual'[j] \in Seq(0 .. Window) /\ Sorted(actual'[j])
             /\ Recent(failures'[j]) = actual'[j]
             /\ failures'[j] # <<>> => now(j)
             /\ j # k => Len(actual'[j]) <= Len(actual[j])
  <2>1. CASE j = k
    BY <1>2, <1>6, <2>1
  <2>2. CASE j # k
    <3>1. CASE actual'[j] = actual[j]
      BY <1>7, <1>8, <2>2, <3>1, RecentOfNone
    <3>2. CASE actual'[j] = <<>>
      <4>1. Len(actual'[j]) = 0 /\ actual'[j] \in Seq(0 .. Window) /\ Sorted(actual'[j])
        BY <3>2, RecentOfNone
      <4>2. Len(actual'[j]) <= Len(actual[j])
        BY <1>8, <4>1
      <4>3. failures'[j] \in Seq(Ages)
        BY <1>7, <1>8, <2>2, RecentOfNone
      <4> QED
        BY <1>7, <2>2, <4>1, <4>2, <4>3
    <3> QED
      BY <1>7, <2>2, <3>1, <3>2
  <2> QED
    BY <2>1, <2>2
<1>10. ThrottleTypeOK'
  <2>1. failures' \in [Keys -> Seq(Ages)] /\ actual' \in [Keys -> Seq(0 .. Window)]
    BY <1>1, <1>9 DEF RecordFailure
  <2>2. \A j \in Keys : failures'[j] # <<>> => IsTracked(j)'
    BY <1>9 DEF now, IsTracked
  <2>3. newer' \in [Keys -> SUBSET Keys]
    BY <1>1 DEF RecordFailure, ThrottleTypeOK
  <2>4. login' \in [Logins -> {<<>>} \union {<<j>> : j \in Keys}]
    BY <1>1 DEF ThrottleTypeOK
  <2> QED
    BY <1>2, <2>1, <2>2, <2>3, <2>4 DEF ThrottleTypeOK, Ages
<1>11. WindowIsExact' /\ OldestFirst'
  BY <1>9 DEF WindowIsExact, OldestFirst
<1> QED
  BY <1>2, <1>6, <1>9, <1>10, <1>11

\* The keys that stay tracked keep their order.
LEMMA LoginSucceedsInv ==
  ASSUME ThrottleInv, NEW l \in Logins, NEW k \in Keys, login[l] = <<k>>, LoginSucceeds(l)
  PROVE  ThrottleInv' /\ actual'[k] = <<>> /\ \A j \in Keys : j # k => actual'[j] = actual[j]
<1> USE DEF ThrottleInv
<1>1. /\ tracked' = Selected(tracked, Keys \ {k})
      /\ failures' = [failures EXCEPT ![k] = <<>>]
      /\ actual' = [actual EXCEPT ![k] = <<>>]
      /\ login' = [login EXCEPT ![l] = <<>>]
      /\ newer' = [newer EXCEPT ![k] = {}]
  BY DEF LoginSucceeds, Reset
<1>2. /\ tracked \in Seq(Keys) /\ Len(tracked) \in Nat /\ Len(tracked) <= MaxKeys
      /\ \A i, j \in 1 .. Len(tracked) : tracked[i] = tracked[j] => i = j
      /\ MaxKeys \in Nat
  BY LoginThrottleAssumption DEF ThrottleTypeOK
<1> DEFINE sel == tracked'
<1>3. /\ sel \in Seq(Keys) /\ Len(sel) \in Nat /\ Len(sel) <= Len(tracked)
      /\ \E at : IsSelection(sel, at, Len(tracked), tracked, Keys \ {k})
  BY <1>1, <1>2, SelectedFacts, SelectionShorter
<1> HIDE DEF sel
<1>4. PICK at : IsSelection(sel, at, Len(tracked), tracked, Keys \ {k})
  BY <1>3
<1>5. \A i \in 1 .. Len(sel) : at[i] \in 1 .. Len(tracked) /\ sel[i] = tracked[at[i]] /\ sel[i] \in Keys \ {k}
  BY <1>4 DEF IsSelection
<1>6. \A i, j \in 1 .. Len(sel) : i < j => at[i] < at[j]
  BY <1>4 DEF IsSelection
<1>7. ASSUME NEW i \in 1 .. Len(sel), NEW j \in 1 .. Len(sel), sel[i] = sel[j] PROVE i = j
  <2>1. at[i] = at[j]
    BY <1>2, <1>5, <1>7
  <2>2. ~(i < j) /\ ~(j < i)
    BY <1>5, <1>6, <2>1
  <2> QED
    BY <1>3, <2>2
<1>8. ASSUME NEW j \in Keys, j # k, IsTracked(j) PROVE \E i \in 1 .. Len(sel) : sel[i] = j
  <2>1. PICK n \in 1 .. Len(tracked) : tracked[n] = j
    BY <1>8 DEF IsTracked
  <2>2. PICK i \in 1 .. Len(sel) : at[i] = n
    BY <1>4, <1>8, <2>1 DEF IsSelection
  <2> QED
    BY <1>5, <2>1, <2>2
<1>9. ThrottleTypeOK'
  <2>1. failures' \in [Keys -> Seq(Ages)] /\ actual' \in [Keys -> Seq(0 .. Window)]
    BY <1>1 DEF ThrottleTypeOK, Ages
  <2>2. \A j \in Keys : failures'[j] # <<>> => IsTracked(j)'
    BY <1>1, <1>8 DEF ThrottleTypeOK, IsTracked, sel
  <2>3. newer' \in [Keys -> SUBSET Keys] /\ login' \in [Logins -> {<<>>} \union {<<j>> : j \in Keys}]
    BY <1>1 DEF ThrottleTypeOK
  <2>4. tracked' \in Seq(Keys) /\ Len(tracked') <= MaxKeys
    BY <1>2, <1>3 DEF sel
  <2>5. \A i, j \in 1 .. Len(tracked') : tracked'[i] = tracked'[j] => i = j
    BY <1>7 DEF sel
  <2> QED
    BY <2>1, <2>2, <2>3, <2>4, <2>5 DEF ThrottleTypeOK, Ages
<1>10. WindowIsExact' /\ OldestFirst'
  BY <1>1, RecentOfNone DEF ThrottleTypeOK, WindowIsExact, OldestFirst
<1>11. NewerFailed'
  <2>1. \A j \in Keys : IsFiniteSet(newer'[j])
    BY <1>1, FS_EmptySet DEF ThrottleTypeOK, NewerFailed
  <2>2. ASSUME NEW i \in 1 .. Len(sel), NEW j \in 1 .. Len(sel), i < j PROVE sel[j] \in newer'[sel[i]]
    <3>1. newer'[sel[i]] = newer[sel[i]]
      BY <1>1, <1>5 DEF ThrottleTypeOK
    <3> QED
      BY <1>5, <1>6, <2>2, <3>1 DEF NewerFailed
  <2> QED
    BY <2>1, <2>2 DEF NewerFailed, sel
<1>12. actual'[k] = <<>> /\ \A j \in Keys : j # k => actual'[j] = actual[j]
  BY <1>1 DEF ThrottleTypeOK
<1> QED
  BY <1>9, <1>10, <1>11, <1>12

\* The logins in flight are some of all.
LEMMA InFlightSize ==
  /\ Cardinality(Logins) \in Nat
  /\ \A S \in SUBSET Logins : IsFiniteSet(S) /\ Cardinality(S) \in Nat /\ Cardinality(S) <= Cardinality(Logins)
  BY LoginThrottleAssumption, FS_Subset, FS_CardinalityType

\* One login leaves the flight.
LEMMA LoginLands ==
  ASSUME ThrottleTypeOK, NEW l \in Logins, NEW k \in Keys, login[l] = <<k>>,
         login' = [login EXCEPT ![l] = <<>>]
  PROVE  /\ Cardinality(InFlight(k)') = Cardinality(InFlight(k)) - 1
         /\ \A j \in Keys : j # k => InFlight(j)' = InFlight(j)
         /\ \A j \in Keys : Cardinality(InFlight(j)) \in Nat
<1>1. \A j \in Keys : InFlight(j) \subseteq Logins
  BY DEF InFlight
<1>2. l \in InFlight(k) /\ InFlight(k)' = InFlight(k) \ {l}
  BY DEF ThrottleTypeOK, InFlight
<1>3. ASSUME NEW j \in Keys, j # k PROVE InFlight(j)' = InFlight(j)
  <2>1. <<k>> # <<j>> /\ <<j>> # <<>>
    BY <1>3
  <2>2. \A m \in Logins : login'[m] = <<j>> <=> login[m] = <<j>>
    BY <2>1 DEF ThrottleTypeOK
  <2> QED
    BY <2>2 DEF InFlight
<1>4. \A j \in Keys : IsFiniteSet(InFlight(j)) /\ Cardinality(InFlight(j)) \in Nat
  BY <1>1, InFlightSize
<1>5. Cardinality(InFlight(k) \ {l}) = Cardinality(InFlight(k)) - 1
  BY <1>2, <1>4, FS_RemoveElement
<1> QED
  BY <1>2, <1>3, <1>4, <1>5

\* Logins that fail were in flight, and a key gets one in flight only below the limit.
LEMMA BoundKept ==
  ASSUME ThrottleInv, FailuresBounded, [ThrottleNext]_throttleVars
  PROVE  ThrottleInv' /\ FailuresBounded'
<1> DEFINE size(k) == Cardinality(InFlight(k))
           below(k) == Len(actual[k]) + size(k) < MaxFailures + Cardinality(Logins)
<1>1. \A k \in Keys : Len(actual[k]) \in Nat /\ size(k) \in Nat /\ below(k)
  <2>1. \A k \in Keys : InFlight(k) \in SUBSET Logins
    BY DEF InFlight
  <2>2. \A k \in Keys : Len(actual[k]) \in Nat
    BY DEF ThrottleInv, ThrottleTypeOK
  <2> QED
    BY <2>1, <2>2, InFlightSize DEF FailuresBounded
<1>2. MaxFailures \in Nat \ {0} /\ Cardinality(Logins) \in Nat
  BY LoginThrottleAssumption, InFlightSize
<1>3. CASE Tick
  <2>1. ThrottleInv' /\ \A k \in Keys : Len(actual'[k]) <= Len(actual[k])
    BY <1>3, TickInv
  <2>2. \A k \in Keys : InFlight(k)' = InFlight(k)
    BY <1>3 DEF Tick, InFlight
  <2>3. \A k \in Keys : Len(actual'[k]) \in Nat
    BY <2>1 DEF ThrottleInv, ThrottleTypeOK
  <2> QED
    BY <1>1, <1>2, <2>1, <2>2, <2>3 DEF FailuresBounded
<1>4. ASSUME NEW l \in Logins, NEW k \in Keys, CheckLogin(l, k)
      PROVE  ThrottleInv' /\ FailuresBounded'
  <2>1. ThrottleInv' /\ actual' = actual
    BY <1>4, CheckLoginInv DEF CheckLogin
  <2>2. ASSUME NEW j \in Keys, j # k PROVE InFlight(j)' = InFlight(j)
    <3>1. <<k>> # <<j>> /\ <<j>> # <<>>
      BY <2>2
    <3>2. \A m \in Logins : login'[m] = <<j>> <=> login[m] = <<j>>
      BY <1>4, <3>1 DEF CheckLogin, ThrottleInv, ThrottleTypeOK
    <3> QED
      BY <3>2 DEF InFlight
  <2>3. CASE MayTry(k)
    <3>1. Len(actual[k]) < MaxFailures
      BY <2>3 DEF MayTry, ThrottleInv, WindowIsExact
    <3>2. InFlight(k)' \in SUBSET Logins
      BY DEF InFlight
    <3>3. Cardinality(InFlight(k)') \in Nat /\ Cardinality(InFlight(k)') <= Cardinality(Logins)
      BY <3>2, InFlightSize
    <3> QED
      BY <1>1, <1>2, <2>1, <2>2, <3>1, <3>3 DEF FailuresBounded
  <2>4. CASE ~MayTry(k)
    <3>1. InFlight(k)' = InFlight(k)
      BY <1>4, <2>4 DEF CheckLogin, InFlight, ThrottleInv, ThrottleTypeOK
    <3> QED
      BY <1>1, <2>1, <2>2, <3>1 DEF FailuresBounded
  <2> QED
    BY <2>3, <2>4
<1>5. ASSUME NEW l \in Logins, LoginFails(l) \/ LoginSucceeds(l) \/ LoginRefused(l)
      PROVE  ThrottleInv' /\ FailuresBounded'
  <2>1. PICK k \in Keys : login[l] = <<k>>
    BY <1>5 DEF LoginFails, LoginSucceeds, LoginRefused, ThrottleInv, ThrottleTypeOK
  <2>2. login' = [login EXCEPT ![l] = <<>>]
    BY <1>5 DEF LoginFails, LoginSucceeds, LoginRefused
  <2>3. /\ Cardinality(InFlight(k)') = size(k) - 1
        /\ \A j \in Keys : j # k => InFlight(j)' = InFlight(j)
    BY <2>1, <2>2, LoginLands DEF ThrottleInv
  <2>4. /\ ThrottleInv' /\ Len(actual'[k]) <= Len(actual[k]) + 1
        /\ \A j \in Keys : j # k => Len(actual'[j]) <= Len(actual[j])
    <3>1. CASE LoginFails(l)
      BY <1>1, <2>1, <3>1, LoginFailsInv
    <3>2. CASE LoginSucceeds(l)
      <4>1. ThrottleInv' /\ actual'[k] = <<>> /\ \A j \in Keys : j # k => actual'[j] = actual[j]
        BY <2>1, <3>2, LoginSucceedsInv
      <4>2. Len(actual'[k]) = 0
        BY <4>1
      <4> QED
        BY <1>1, <4>1, <4>2
    <3>3. CASE LoginRefused(l)
      <4>1. ThrottleInv'
        <5>1. ThrottleTypeOK'
          BY <2>2, <3>3 DEF LoginRefused, ThrottleInv, ThrottleTypeOK, IsTracked
        <5> QED
          BY <3>3, <5>1 DEF LoginRefused, ThrottleInv, WindowIsExact, OldestFirst, NewerFailed
      <4> QED
        BY <1>1, <3>3, <4>1 DEF LoginRefused
    <3> QED
      BY <1>5, <3>1, <3>2, <3>3
  <2>5. \A j \in Keys : Len(actual'[j]) \in Nat
    BY <2>4 DEF ThrottleInv, ThrottleTypeOK
  <2>6. \A j \in Keys : Len(actual'[j]) + Cardinality(InFlight(j)') <= Len(actual[j]) + size(j)
    <3> SUFFICES ASSUME NEW j \in Keys
                 PROVE  Len(actual'[j]) + Cardinality(InFlight(j)') <= Len(actual[j]) + size(j)
      OBVIOUS
    <3>1. CASE j = k
      BY <1>1, <2>3, <2>4, <2>5, <3>1
    <3>2. CASE j # k
      <4>1. Cardinality(InFlight(j)') = size(j) /\ Len(actual'[j]) <= Len(actual[j])
        BY <2>3, <2>4, <3>2
      <4> QED
        BY <1>1, <2>5, <4>1
    <3> QED
      BY <3>1, <3>2
  <2>7. Cardinality(InFlight(k)') \in Nat /\ \A j \in Keys : Cardinality(InFlight(j)') \in Nat
    <3>1. \A j \in Keys : InFlight(j)' \in SUBSET Logins
      BY DEF InFlight
    <3> QED
      BY <3>1, InFlightSize
  <2>8. ASSUME NEW j \in Keys
        PROVE  Len(actual'[j]) + Cardinality(InFlight(j)') < MaxFailures + Cardinality(Logins)
    <3>1. /\ Len(actual'[j]) \in Nat /\ Cardinality(InFlight(j)') \in Nat
          /\ Len(actual[j]) \in Nat /\ size(j) \in Nat /\ below(j)
          /\ Len(actual'[j]) + Cardinality(InFlight(j)') <= Len(actual[j]) + size(j)
      BY <1>1, <2>5, <2>6, <2>7
    <3> QED
      BY <1>2, <3>1
  <2> QED
    BY <2>4, <2>8 DEF FailuresBounded
<1>6. CASE UNCHANGED throttleVars
  <2>1. ThrottleInv'
    BY <1>6 DEF throttleVars, ThrottleInv, ThrottleTypeOK, IsTracked, WindowIsExact, OldestFirst, NewerFailed
  <2> QED
    BY <1>6, <2>1 DEF throttleVars, FailuresBounded, InFlight
<1> QED
  BY <1>3, <1>4, <1>5, <1>6 DEF ThrottleNext

LEMMA ThrottleInvariance == ThrottleSpec => [](ThrottleInv /\ FailuresBounded)
<1>1. ThrottleInit => FailuresBounded
  <2> SUFFICES ASSUME ThrottleInit, NEW k \in Keys
               PROVE  Len(actual[k]) + Cardinality(InFlight(k)) < MaxFailures + Cardinality(Logins)
    BY DEF FailuresBounded
  <2>1. actual[k] = <<>> /\ InFlight(k) = {}
    BY DEF ThrottleInit, InFlight
  <2>2. Len(actual[k]) = 0 /\ Cardinality(InFlight(k)) = 0
    BY <2>1, FS_EmptySet
  <2> QED
    BY <2>2, LoginThrottleAssumption, InFlightSize
<1> QED
  BY <1>1, InitThrottleInv, BoundKept, PTL DEF ThrottleSpec

\* No more keys are tracked than MaxKeys, each once, and no others have attempts.
THEOREM ThrottleTyped == ThrottleSpec => []ThrottleTypeOK
<1>1. ThrottleInv => ThrottleTypeOK
  BY DEF ThrottleInv
<1> QED
  BY <1>1, ThrottleInvariance, PTL

\* Whichever logins overlap, the attempts counted for a key are its failures in the
\* window since it last succeeded.
THEOREM WindowExact == ThrottleSpec => []WindowIsExact
<1>1. ThrottleInv => WindowIsExact
  BY DEF ThrottleInv
<1> QED
  BY <1>1, ThrottleInvariance, PTL

\* Logins that are in flight together pass the limit by no more than their number.
THEOREM FailuresAreBounded == ThrottleSpec => []FailuresBounded
  BY ThrottleInvariance, PTL

-------------------------------------------------------------------------------
(* Passages and citations.                                                 *)

\* What rank() returned: scores best first, no candidate twice.
RankedInOrder ==
  /\ \A t \in 1 .. Len(ranked) : ranked[t].index # 0 => ranked[t].score = candidates[ranked[t].index]
  /\ \A t, u \in 1 .. Len(ranked) :
       t < u => /\ ranked[t].score >= ranked[u].score
                /\ ranked[t].index # 0 => ranked[t].index # ranked[u].index

StatusAt(i, score) ==
  CASE score < Floor -> "below_floor"
    [] score >= Floor /\ i <= TopK -> "kept"
    [] OTHER -> "beyond_top_k"

\* The decisions so far: those with an index, in the order of the ranking, each with the
\* status of its place.
Decided ==
  /\ \A i \in 1 .. Len(decisions) :
       /\ \E t \in 1 .. turn : ranked[t].index = decisions[i].candidate
       /\ decisions[i].status = StatusAt(i, candidates[decisions[i].candidate])
  /\ \A t \in 1 .. turn :
       ranked[t].index # 0 => \E i \in 1 .. Len(decisions) : decisions[i].candidate = ranked[t].index
  /\ \A i, j \in 1 .. Len(decisions) :
       i < j => /\ decisions[i].candidate # decisions[j].candidate
                /\ candidates[decisions[i].candidate] >= candidates[decisions[j].candidate]

FellBack ==
  decisions = [i \in Positions |->
                 [candidate |-> i, status |-> IF i <= TopK THEN "kept" ELSE "beyond_top_k"]]

\* What a stage may rely on.
StageInv ==
  /\ stage = "idle" => candidates = <<>>
  /\ stage \in {"idle", "rerank"} => ranked = <<>> /\ turn = 0 /\ decisions = <<>>
  /\ stage \in {"idle", "rerank", "decide", "context"} => passages = <<>>
  /\ stage # "answered" => cited = {} /\ shown = <<>>
  /\ stage = "decide" => Decided
  /\ stage = "context" => IF Usable = {} THEN FellBack ELSE Decided /\ turn = Len(ranked)

PassagesInv == PassagesTypeOK /\ RankedInOrder /\ StageInv /\ KeptAreBest /\ CitationsMatch

\* A candidate's place and score.
LEMMA CandidateFacts ==
  ASSUME PassagesTypeOK
  PROVE  /\ Len(candidates) \in Nat /\ Positions = 1 .. Len(candidates)
         /\ \A c \in Positions : c \in Nat \ {0} /\ candidates[c] \in Scores /\ candidates[c] \in Int
         /\ Len(ranked) \in Nat
         /\ \A t \in 1 .. Len(ranked) :
              /\ ranked[t].index \in 0 .. Len(candidates) /\ ranked[t].score \in Scores
              /\ ranked[t].score \in Int /\ (ranked[t].index # 0 => ranked[t].index \in Positions)
         /\ turn \in Nat /\ turn <= Len(ranked)
         /\ decisions \in Seq(Decisions) /\ Len(decisions) \in Nat
         /\ \A i \in 1 .. Len(decisions) : decisions[i].candidate \in Positions
         /\ Floor \in Int /\ TopK \in Nat /\ TopK >= 1
<1>1. /\ candidates \in Seq(Scores) /\ turn \in 0 .. Len(ranked) /\ decisions \in Seq(Decisions)
      /\ ranked \in Seq([index : 0 .. Len(candidates), score : Scores])
  BY DEF PassagesTypeOK
<1>2. Scores \subseteq Int /\ Floor \in Int /\ TopK \in Nat /\ TopK >= 1
  BY PassagesAssumption
<1>3. Len(candidates) \in Nat /\ Positions = 1 .. Len(candidates)
  BY <1>1 DEF Positions
<1>4. \A c \in Positions : c \in Nat \ {0} /\ candidates[c] \in Scores /\ candidates[c] \in Int
  <2>1. \A c \in Positions : candidates[c] \in Scores
    BY <1>1, <1>3, SeqItems
  <2>2. \A c \in Positions : c \in Nat \ {0}
    BY <1>3
  <2>3. \A c \in Positions : candidates[c] \in Int
    BY <1>2, <2>1
  <2> QED
    BY <2>1, <2>2, <2>3
<1>5. Len(ranked) \in Nat
      /\ \A t \in 1 .. Len(ranked) : ranked[t] \in [index : 0 .. Len(candidates), score : Scores]
  BY <1>1, SeqItems
<1>6. \A t \in 1 .. Len(ranked) :
        /\ ranked[t].index \in 0 .. Len(candidates) /\ ranked[t].score \in Scores
        /\ ranked[t].score \in Int /\ (ranked[t].index # 0 => ranked[t].index \in Positions)
  <2>1. \A t \in 1 .. Len(ranked) : ranked[t].index \in 0 .. Len(candidates) /\ ranked[t].score \in Scores
    BY <1>5
  <2>2. \A x \in 0 .. Len(candidates) : x # 0 => x \in Positions
    BY <1>3
  <2> QED
    BY <1>2, <2>1, <2>2
<1>7. Len(decisions) \in Nat /\ \A i \in 1 .. Len(decisions) : decisions[i] \in Decisions
  BY <1>1, SeqItems
<1>8. \A i \in 1 .. Len(decisions) : decisions[i].candidate \in Positions
  BY <1>7 DEF Decisions
<1> QED
  BY <1>1, <1>2, <1>3, <1>4, <1>5, <1>6, <1>7, <1>8

LEMMA InitPassagesInv == PassagesInit => PassagesInv
<1> SUFFICES ASSUME PassagesInit PROVE PassagesInv
  OBVIOUS
<1> USE DEF PassagesInit
<1>1. Len(ranked) = 0 /\ Len(candidates) = 0 /\ Len(passages) = 0
  OBVIOUS
<1>2. PassagesTypeOK
  BY <1>1, PassagesAssumption DEF PassagesTypeOK
<1>3. RankedInOrder
  BY <1>1 DEF RankedInOrder
<1>4. StageInv /\ KeptAreBest /\ CitationsMatch
  BY DEF StageInv, KeptAreBest, CitationsMatch
<1> QED
  BY <1>2, <1>3, <1>4 DEF PassagesInv

\* The fallback, in the types of decisions.
LEMMA FallBackTyped ==
  ASSUME PassagesTypeOK, FallBack
  PROVE  /\ decisions' \in Seq(Decisions)
         /\ UNCHANGED candidates => FellBack'
<1>1. Len(candidates) \in Nat /\ Positions = 1 .. Len(candidates)
  BY CandidateFacts
<1>2. \A i \in Positions :
        [candidate |-> i, status |-> IF i <= TopK THEN "kept" ELSE "beyond_top_k"] \in Decisions
  BY DEF Decisions
<1> DEFINE D == Decisions
           N == Len(candidates)
<1>3. decisions' \in [1 .. N -> D] /\ N \in Nat
  BY <1>1, <1>2 DEF FallBack
<1> HIDE DEF D, N
<1>4. decisions' \in Seq(D)
  BY <1>3
<1>5. UNCHANGED candidates => FellBack'
  BY DEF FallBack, FellBack, Positions
<1> QED
  BY <1>4, <1>5 DEF D

\* Until the ranking, and what ends it.
LEMMA BeforeRanking ==
  ASSUME PassagesInv, WarmReranker \/ Retrieve \/ RankingSkipped \/ RankingFails \/ AnswerReturned
  PROVE  PassagesInv'
<1> USE DEF PassagesInv
<1>1. CASE WarmReranker
  <2>1. UNCHANGED <<candidates, ranked, turn, decisions, passages, cited, shown, stage>>
    BY <1>1 DEF WarmReranker, rankVars, answerVars
  <2>2. PassagesTypeOK'
    BY <1>1, <2>1 DEF WarmReranker, PassagesTypeOK, Decisions, Positions
  <2>3. RankedInOrder' /\ CitationsMatch'
    BY <2>1 DEF RankedInOrder, CitationsMatch
  <2>4. Usable' = Usable /\ Passing' = Passing
    BY <2>1 DEF Usable, Passing
  <2>5. Decided' = Decided /\ FellBack' = FellBack
    BY <2>1 DEF Decided, FellBack, Positions, StatusAt
  <2>6. StageInv'
    BY <2>1, <2>4, <2>5 DEF StageInv
  <2>7. KeptAreBest'
    BY <2>1, <2>4 DEF KeptAreBest
  <2> QED
    BY <2>2, <2>3, <2>6, <2>7
<1>2. CASE Retrieve
  <2>1. /\ stage = "idle" /\ stage' = "rerank"
        /\ UNCHANGED <<encoder, ranked, turn, decisions, passages, cited, shown>>
        /\ \E n \in 0 .. MaxCandidates : candidates' \in [1 .. n -> Scores]
    BY <1>2 DEF Retrieve, answerVars
  <2>2. ranked' = <<>> /\ turn' = 0 /\ decisions' = <<>> /\ passages' = <<>> /\ cited' = {} /\ shown' = <<>>
    BY <2>1 DEF StageInv
  <2>3. candidates' \in Seq(Scores) /\ Len(candidates') <= MaxCandidates
    <3>1. PICK n \in 0 .. MaxCandidates : candidates' \in [1 .. n -> Scores]
      BY <2>1
    <3>2. n \in Nat /\ n <= MaxCandidates
      BY <3>1, PassagesAssumption
    <3> QED
      BY <3>1, <3>2
  <2>4. PassagesTypeOK'
    BY <2>1, <2>2, <2>3 DEF PassagesTypeOK
  <2>5. RankedInOrder' /\ StageInv' /\ KeptAreBest' /\ CitationsMatch'
    BY <2>1, <2>2 DEF RankedInOrder, StageInv, KeptAreBest, CitationsMatch
  <2> QED
    BY <2>4, <2>5
<1>3. CASE RankingSkipped \/ RankingFails
  <2>1. /\ stage = "rerank" /\ stage' = "context" /\ FallBack
        /\ UNCHANGED <<encoder, candidates, ranked, turn, passages, cited, shown>>
    BY <1>3 DEF RankingSkipped, RankingFails, answerVars
  <2>2. ranked' = <<>> /\ turn' = 0 /\ passages' = <<>> /\ cited' = {} /\ shown' = <<>>
    BY <2>1 DEF StageInv
  <2>3. decisions' \in Seq(Decisions) /\ FellBack'
    BY <2>1, FallBackTyped
  <2>4. Decisions' = Decisions
    BY <2>1 DEF Decisions, Positions
  <2>5. PassagesTypeOK'
    BY <2>1, <2>2, <2>3, <2>4 DEF PassagesTypeOK, Positions
  <2>6. Usable' = {}
    BY <2>2 DEF Usable
  <2>7. StageInv'
    BY <2>1, <2>2, <2>3, <2>6 DEF StageInv
  <2>8. RankedInOrder' /\ KeptAreBest' /\ CitationsMatch'
    BY <2>1, <2>2 DEF RankedInOrder, KeptAreBest, CitationsMatch
  <2> QED
    BY <2>5, <2>7, <2>8
<1>4. CASE AnswerReturned
  <2>1. PassagesTypeOK'
    BY <1>4, PassagesAssumption DEF AnswerReturned, PassagesTypeOK
  <2>2. RankedInOrder' /\ StageInv' /\ KeptAreBest' /\ CitationsMatch'
    BY <1>4 DEF AnswerReturned, RankedInOrder, StageInv, KeptAreBest, CitationsMatch
  <2> QED
    BY <2>1, <2>2
<1> QED
  BY <1>1, <1>2, <1>3, <1>4

\* A ranking puts the candidates in order, whichever of them lose their index.
LEMMA RankInv ==
  ASSUME PassagesInv, Rank
  PROVE  PassagesInv'
<1> USE DEF PassagesInv
<1>1. /\ stage = "rerank" /\ stage' = "decide"
      /\ UNCHANGED <<encoder, candidates, turn, decisions, passages, cited, shown>>
  BY DEF Rank, answerVars
<1>2. turn' = 0 /\ decisions' = <<>> /\ passages' = <<>> /\ cited' = {} /\ shown' = <<>>
  BY <1>1 DEF StageInv
<1>3. PICK p \in BestFirst, lost \in SUBSET Positions :
        ranked' = [i \in Positions |->
                     [index |-> IF i \in lost THEN 0 ELSE p[i], score |-> candidates[p[i]]]]
  BY DEF Rank
<1>4. /\ Len(candidates) \in Nat /\ Positions = 1 .. Len(candidates)
      /\ \A c \in Positions : c \in Nat \ {0} /\ candidates[c] \in Scores
  BY CandidateFacts
<1>5. /\ \A i \in Positions : p[i] \in Positions
      /\ \A i, j \in Positions : i < j => p[i] # p[j] /\ candidates[p[i]] >= candidates[p[j]]
  BY DEF BestFirst
<1> DEFINE entry(i) == [index |-> IF i \in lost THEN 0 ELSE p[i], score |-> candidates[p[i]]]
           N == Len(candidates)
           E == [index : 0 .. N, score : Scores]
<1>6. \A i \in 1 .. N : entry(i) \in E
  <2>1. \A i \in 1 .. N : p[i] \in 0 .. N /\ 0 \in 0 .. N /\ candidates[p[i]] \in Scores
    BY <1>4, <1>5
  <2> QED
    BY <2>1
<1>7. ranked' = [i \in 1 .. N |-> entry(i)] /\ N \in Nat
  BY <1>3, <1>4
<1> HIDE DEF E, N
<1>8. ranked' \in Seq(E) /\ Len(ranked') = N /\ \A i \in 1 .. N : ranked'[i] = entry(i)
  <2> HIDE DEF entry
  <2> QED
    BY <1>6, <1>7
<1>9. PassagesTypeOK'
  <2>1. Decisions' = Decisions /\ Positions' = Positions /\ Len(candidates') = Len(candidates)
    BY <1>1 DEF Decisions, Positions
  <2>2. turn' \in 0 .. Len(ranked')
    BY <1>2, <1>7, <1>8
  <2> QED
    BY <1>1, <1>8, <2>1, <2>2 DEF PassagesTypeOK, E, N
<1>10. RankedInOrder'
  <2>1. ASSUME NEW t \in 1 .. N, ranked'[t].index # 0
        PROVE  ranked'[t].score = candidates[ranked'[t].index]
    BY <1>8, <2>1
  <2>2. ASSUME NEW t \in 1 .. N, NEW u \in 1 .. N, t < u
        PROVE  /\ ranked'[t].score >= ranked'[u].score
               /\ ranked'[t].index # 0 => ranked'[t].index # ranked'[u].index
    <3>1. p[t] # p[u] /\ candidates[p[t]] >= candidates[p[u]]
      BY <1>4, <1>5, <2>2 DEF N
    <3> QED
      BY <1>8, <3>1
  <2> QED
    BY <1>1, <1>8, <2>1, <2>2 DEF RankedInOrder
<1>11. Decided'
  BY <1>2 DEF Decided
<1>12. StageInv' /\ KeptAreBest' /\ CitationsMatch'
  BY <1>1, <1>2, <1>11 DEF StageInv, KeptAreBest, CitationsMatch
<1> QED
  BY <1>9, <1>10, <1>12

\* One more turn: the entry follows those decided, with no better score.
LEMMA DecideInv ==
  ASSUME PassagesInv, Decide
  PROVE  PassagesInv'
<1> USE DEF PassagesInv
<1>1. /\ stage = "decide" /\ stage' = "decide" /\ turn < Len(ranked) /\ turn' = turn + 1
      /\ UNCHANGED <<encoder, candidates, ranked, passages, cited, shown>>
  BY DEF Decide, answerVars
<1> DEFINE entry == ranked[turn + 1]
           n == Len(decisions)
           new == [candidate |-> entry.index, status |-> StatusOf(entry.score)]
<1>2. decisions' = IF entry.index \in Positions THEN Append(decisions, new) ELSE decisions
  BY DEF Decide
<1>3. /\ Positions = 1 .. Len(candidates) /\ Len(candidates) \in Nat
      /\ \A c \in Positions : c \in Nat \ {0} /\ candidates[c] \in Int
      /\ Len(ranked) \in Nat
      /\ \A t \in 1 .. Len(ranked) : ranked[t].score \in Int
                                     /\ (ranked[t].index # 0 => ranked[t].index \in Positions)
      /\ turn \in Nat
      /\ decisions \in Seq(Decisions) /\ n \in Nat
      /\ \A i \in 1 .. n : decisions[i].candidate \in Positions
      /\ Floor \in Int /\ TopK \in Nat
  BY CandidateFacts
<1>4. Decided /\ RankedInOrder
  BY <1>1 DEF StageInv
<1>5. turn + 1 \in 1 .. Len(ranked)
  BY <1>1, <1>3
<1>6. Decisions' = Decisions /\ Positions' = Positions
  BY <1>1 DEF Decisions, Positions
<1>7. \A i \in Nat, score \in Int : StatusAt(i, score) \in {"kept", "below_floor", "beyond_top_k"}
  BY DEF StatusAt
<1>8. ASSUME entry.index \in Positions
      PROVE  decisions' \in Seq(Decisions) /\ Decided'
  <2>1. entry.index # 0 /\ entry.score \in Int /\ entry.score = candidates[entry.index]
    BY <1>3, <1>4, <1>5, <1>8 DEF RankedInOrder
  <2>2. StatusOf(entry.score) = StatusAt(n + 1, entry.score)
    BY <1>3, <2>1 DEF StatusOf, StatusAt
  <2>3. new \in Decisions
    BY <1>3, <1>7, <1>8, <2>1, <2>2 DEF Decisions
  <2>4. /\ new.candidate = entry.index /\ new.status = StatusAt(n + 1, candidates[new.candidate])
    BY <2>1, <2>2
  <2> HIDE DEF new
  <2>5. /\ decisions' \in Seq(Decisions) /\ Len(decisions') = n + 1
        /\ \A i \in 1 .. n : decisions'[i] = decisions[i]
        /\ decisions'[n + 1] = new
    BY <1>2, <1>3, <1>8, <2>3
  <2> HIDE DEF n
  <2>6. \A i \in 1 .. n + 1 : i \in 1 .. n \/ i = n + 1
    BY <1>3
  <2>7. \A t \in 1 .. turn + 1 : t \in 1 .. turn \/ t = turn + 1
    BY <1>3
  <2>8. ASSUME NEW i \in 1 .. n + 1
        PROVE  /\ \E t \in 1 .. turn + 1 : ranked[t].index = decisions'[i].candidate
               /\ decisions'[i].status = StatusAt(i, candidates[decisions'[i].candidate])
    <3>1. CASE i \in 1 .. n
      <4>1. PICK t \in 1 .. turn : ranked[t].index = decisions[i].candidate
        BY <1>4, <3>1 DEF Decided, n
      <4>2. t \in 1 .. turn + 1
        BY <1>3
      <4>3. decisions[i].status = StatusAt(i, candidates[decisions[i].candidate])
        BY <1>4, <3>1 DEF Decided, n
      <4> QED
        BY <2>5, <3>1, <4>1, <4>2, <4>3
    <3>2. CASE i = n + 1
      <4>1. turn + 1 \in 1 .. turn + 1
        BY <1>3
      <4> QED
        BY <2>4, <2>5, <3>2, <4>1
    <3> QED
      BY <2>6, <3>1, <3>2
  <2>9. ASSUME NEW t \in 1 .. turn + 1, ranked[t].index # 0
        PROVE  \E i \in 1 .. n + 1 : decisions'[i].candidate = ranked[t].index
    <3>1. CASE t \in 1 .. turn
      <4>1. PICK i \in 1 .. n : decisions[i].candidate = ranked[t].index
        BY <1>4, <2>9, <3>1 DEF Decided, n
      <4>2. i \in 1 .. n + 1
        BY <1>3
      <4> QED
        BY <2>5, <4>1, <4>2
    <3>2. CASE t = turn + 1
      <4>1. n + 1 \in 1 .. n + 1
        BY <1>3
      <4> QED
        BY <2>4, <2>5, <3>2, <4>1
    <3> QED
      BY <2>7, <3>1, <3>2
  <2>10. ASSUME NEW i \in 1 .. n + 1, NEW j \in 1 .. n + 1, i < j
         PROVE  /\ decisions'[i].candidate # decisions'[j].candidate
                /\ candidates[decisions'[i].candidate] >= candidates[decisions'[j].candidate]
    <3>1. i \in 1 .. n
      BY <1>3, <2>10
    <3>2. CASE j \in 1 .. n
      BY <1>4, <2>5, <2>10, <3>1, <3>2 DEF Decided, n
    <3>3. CASE j = n + 1
      <4>1. PICK t \in 1 .. turn : ranked[t].index = decisions[i].candidate
        BY <1>4, <3>1 DEF Decided, n
      <4>2. t \in 1 .. Len(ranked) /\ t < turn + 1
        BY <1>1, <1>3
      <4>3. ranked[t].index # 0
        BY <1>3, <3>1, <4>1
      <4>4. /\ ranked[t].score >= entry.score /\ ranked[t].index # entry.index
            /\ ranked[t].score = candidates[ranked[t].index]
        BY <1>4, <1>5, <4>2, <4>3 DEF RankedInOrder
      <4> QED
        BY <2>1, <2>4, <2>5, <3>1, <3>3, <4>1, <4>4
    <3> QED
      BY <2>6, <3>2, <3>3
  <2>11. Decided'
    BY <1>1, <2>5, <2>8, <2>9, <2>10 DEF Decided, StatusAt
  <2> QED
    BY <2>5, <2>11
<1>9. ASSUME entry.index \notin Positions
      PROVE  decisions' \in Seq(Decisions) /\ Decided'
  <2>1. decisions' = decisions /\ entry.index = 0
    BY <1>2, <1>3, <1>5, <1>9
  <2>2. \A t \in 1 .. turn + 1 : t \in 1 .. turn \/ t = turn + 1
    BY <1>3
  <2>3. \A t \in 1 .. turn : t \in 1 .. turn + 1
    BY <1>3
  <2>4. Decided'
    <3>1. ASSUME NEW i \in 1 .. n
          PROVE  /\ \E t \in 1 .. turn + 1 : ranked[t].index = decisions[i].candidate
                 /\ decisions[i].status = StatusAt(i, candidates[decisions[i].candidate])
      BY <1>4, <2>3 DEF Decided
    <3>2. ASSUME NEW t \in 1 .. turn + 1, ranked[t].index # 0
          PROVE  \E i \in 1 .. n : decisions[i].candidate = ranked[t].index
      BY <1>4, <2>1, <2>2, <3>2 DEF Decided
    <3> QED
      BY <1>1, <1>4, <2>1, <3>1, <3>2 DEF Decided, StatusAt
  <2> QED
    BY <1>3, <2>1, <2>4
<1>10. decisions' \in Seq(Decisions) /\ Decided'
  BY <1>8, <1>9
<1>11. PassagesTypeOK'
  <2>1. turn' \in 0 .. Len(ranked')
    BY <1>1, <1>3
  <2> QED
    BY <1>1, <1>6, <1>10, <2>1 DEF PassagesTypeOK
<1>12. RankedInOrder'
  BY <1>1 DEF RankedInOrder
<1>13. StageInv' /\ KeptAreBest' /\ CitationsMatch'
  BY <1>1, <1>10 DEF StageInv, KeptAreBest, CitationsMatch
<1> QED
  BY <1>11, <1>12, <1>13

\* Without a usable index the embedding order takes the place of the decisions.
LEMMA EndRankingInv ==
  ASSUME PassagesInv, EndRanking
  PROVE  PassagesInv'
<1> USE DEF PassagesInv
<1>1. /\ stage = "decide" /\ stage' = "context" /\ turn = Len(ranked)
      /\ UNCHANGED <<encoder, candidates, ranked, turn, passages, cited, shown>>
      /\ IF decisions = <<>> THEN FallBack ELSE UNCHANGED decisions
  BY DEF EndRanking, answerVars
<1>2. Decided
  BY <1>1 DEF StageInv
<1>3. Usable' = Usable
  BY <1>1 DEF Usable
<1>4. Decisions' = Decisions /\ Positions' = Positions
  BY <1>1 DEF Decisions, Positions
<1>5. decisions' \in Seq(Decisions) /\ IF Usable = {} THEN FellBack' ELSE Decided'
  <2>1. CASE decisions = <<>>
    <3>1. Usable = {}
      <4>1. 1 .. Len(decisions) = {}
        BY <2>1
      <4>2. \A t \in 1 .. Len(ranked) : ranked[t].index = 0
        BY <1>1, <1>2, <4>1 DEF Decided
      <4> QED
        BY <4>2 DEF Usable
    <3> QED
      BY <1>1, <2>1, <3>1, FallBackTyped
  <2>2. CASE decisions # <<>>
    <3>1. 1 \in 1 .. Len(decisions) /\ decisions[1].candidate \in Positions
      BY <2>2, CandidateFacts
    <3>2. PICK t \in 1 .. turn : ranked[t].index = decisions[1].candidate
      BY <1>2, <3>1 DEF Decided
    <3>3. ranked[t].index # 0
      BY <3>1, <3>2, CandidateFacts
    <3>4. Usable # {}
      BY <1>1, <3>3 DEF Usable
    <3>5. Decided' = Decided
      BY <1>1, <2>2 DEF Decided, StatusAt
    <3> QED
      BY <1>1, <1>2, <2>2, <3>4, <3>5, CandidateFacts
  <2> QED
    BY <2>1, <2>2
<1>6. PassagesTypeOK'
  BY <1>1, <1>4, <1>5 DEF PassagesTypeOK
<1>7. RankedInOrder'
  BY <1>1 DEF RankedInOrder
<1>8. StageInv' /\ KeptAreBest' /\ CitationsMatch'
  BY <1>1, <1>3, <1>5 DEF StageInv, KeptAreBest, CitationsMatch
<1> QED
  BY <1>6, <1>7, <1>8

\* The kept decisions, if they are the first b of all.
LEMMA KeptStart ==
  ASSUME PassagesTypeOK, NEW b \in 0 .. Len(decisions), b <= TopK,
         \A i \in 1 .. Len(decisions) : decisions[i].status = "kept" <=> i <= b
  PROVE  /\ Len(Kept) = b /\ Kept \in Seq(Decisions)
         /\ \A i \in 1 .. b : Kept[i] = decisions[i]
<1> DEFINE S == [candidate : Positions, status : {"kept"}]
           D == Decisions
<1>1. decisions \in Seq(D) /\ \A i \in 1 .. Len(decisions) : decisions[i] \in D
  BY CandidateFacts, SeqItems
<1>2. \A d \in D : d \in S <=> d.status = "kept"
  BY DEF Decisions
<1> HIDE DEF S, D
<1>3. \A i \in 1 .. Len(decisions) : decisions[i] \in S <=> i <= b
  BY <1>1, <1>2
<1>4. Kept = Selected(decisions, S)
  BY DEF Kept, S
<1>5. Len(Kept) = b /\ \A i \in 1 .. b : Kept[i] = decisions[i]
  BY <1>1, <1>3, <1>4, SelectedStart
<1>6. Kept \in Seq(D)
  BY <1>1, <1>4, SelectedFacts
<1> QED
  BY <1>5, <1>6 DEF D

\* AtMost is the smaller of n and TopK.
LEMMA AtMostFacts ==
  ASSUME NEW n \in Nat, TopK \in Nat
  PROVE  AtMost(n) \in 0 .. n /\ AtMost(n) <= TopK /\ \A i \in Nat : i <= AtMost(n) <=> i <= n /\ i <= TopK
  BY DEF AtMost

\* In the embedding order the nearest are kept.
LEMMA KeptOfFallBack ==
  ASSUME PassagesTypeOK, FellBack
  PROVE  /\ Len(Kept) = AtMost(Len(candidates)) /\ Kept \in Seq(Decisions)
         /\ \A i \in 1 .. Len(Kept) : Kept[i].candidate = i
<1> DEFINE N == Len(candidates)
           b == AtMost(N)
<1>1. /\ N \in Nat /\ TopK \in Nat
      /\ decisions = [i \in 1 .. N |->
                        [candidate |-> i, status |-> IF i <= TopK THEN "kept" ELSE "beyond_top_k"]]
  BY CandidateFacts DEF FellBack
<1> HIDE DEF N
<1>2. /\ Len(decisions) = N
      /\ \A i \in 1 .. N : /\ decisions[i].candidate = i
                           /\ decisions[i].status = "kept" <=> i <= TopK
  BY <1>1
<1>3. b \in 0 .. N /\ b <= TopK /\ \A i \in Nat : i <= b <=> i <= N /\ i <= TopK
  BY <1>1, AtMostFacts
<1> HIDE DEF b
<1>4. \A i \in 1 .. Len(decisions) : decisions[i].status = "kept" <=> i <= b
  <2> SUFFICES ASSUME NEW i \in 1 .. N PROVE decisions[i].status = "kept" <=> i <= b
    BY <1>2
  <2>1. i \in Nat /\ i <= N
    BY <1>1
  <2> QED
    BY <1>2, <1>3, <2>1
<1>5. Len(Kept) = b /\ Kept \in Seq(Decisions) /\ \A i \in 1 .. b : Kept[i] = decisions[i]
  BY <1>2, <1>3, <1>4, KeptStart
<1>6. \A i \in 1 .. b : i \in 1 .. N
  BY <1>1, <1>3
<1> QED
  BY <1>2, <1>5, <1>6 DEF b, N

\* In a ranking the first that pass are kept: all that pass come first, as they score more.
LEMMA KeptOfRanking ==
  ASSUME PassagesTypeOK, Decided, turn = Len(ranked)
  PROVE  /\ Kept \in Seq(Decisions) /\ Len(Kept) <= Len(decisions)
         /\ \A i \in 1 .. Len(Kept) : Kept[i] = decisions[i] /\ Kept[i].candidate \in Passing
         /\ Len(Kept) = AtMost(Cardinality(Passing))
         /\ \A c \in Passing, i \in 1 .. Len(Kept) :
              candidates[c] > candidates[Kept[i].candidate] =>
                \E j \in 1 .. i - 1 : Kept[j].candidate = c
<1> DEFINE n == Len(decisions)
           at(i) == decisions[i].candidate
           score(i) == candidates[at(i)]
           A == {i \in 1 .. n : score(i) >= Floor}
<1>1. /\ n \in Nat /\ Floor \in Int /\ TopK \in Nat
      /\ \A i \in 1 .. n : at(i) \in Positions /\ at(i) # 0 /\ score(i) \in Int
  BY CandidateFacts
<1>2. \A i, j \in 1 .. n : i < j => at(i) # at(j) /\ score(i) >= score(j)
  BY DEF Decided
<1>3. \A i \in 1 .. n : decisions[i].status = StatusAt(i, score(i))
  BY DEF Decided
<1>4. \A i \in 1 .. n : at(i) \in Usable
  <2> SUFFICES ASSUME NEW i \in 1 .. n PROVE at(i) \in Usable
    OBVIOUS
  <2>1. PICK t \in 1 .. turn : ranked[t].index = at(i)
    BY DEF Decided
  <2> QED
    BY <1>1, <2>1 DEF Usable
<1>5. \A c \in Usable : \E i \in 1 .. n : at(i) = c
  BY DEF Usable, Decided
<1> HIDE DEF n, at
<1>6. \A i \in A : \A j \in 1 .. i : j \in A
  <2> SUFFICES ASSUME NEW i \in A, NEW j \in 1 .. i PROVE j \in A
    OBVIOUS
  <2>1. j \in 1 .. n /\ i \in 1 .. n /\ (j < i \/ j = i) /\ score(i) >= Floor
    BY <1>1
  <2>2. score(j) >= score(i)
    BY <1>1, <1>2, <2>1
  <2>3. score(j) >= Floor
    BY <1>1, <2>1, <2>2
  <2> QED
    BY <2>1, <2>3
<1>7. A \in SUBSET (1 .. n)
  OBVIOUS
<1>8. \A i \in 1 .. n : i \in A <=> score(i) >= Floor
  OBVIOUS
<1> HIDE DEF A
<1>9. PICK p \in 0 .. n : A = 1 .. p
  BY <1>1, <1>6, <1>7, FirstOnes
<1>10. p \in Nat /\ p <= n /\ (1 .. p) \subseteq 1 .. n
  BY <1>1, <1>9
<1> DEFINE f == [i \in 1 .. n |-> at(i)]
<1>11. Passing = Entries(f, p)
  <2>1. ASSUME NEW c \in Passing PROVE c \in Entries(f, p)
    <3>1. c \in Usable /\ candidates[c] >= Floor
      BY DEF Passing
    <3>2. PICK i \in 1 .. n : at(i) = c
      BY <1>5, <3>1
    <3>3. i \in 1 .. p /\ f[i] = c
      BY <1>8, <1>9, <3>1, <3>2
    <3> QED
      BY <3>3 DEF Entries
  <2>2. ASSUME NEW i \in 1 .. p PROVE f[i] \in Passing
    <3>1. i \in 1 .. n /\ i \in A
      BY <1>9, <1>10
    <3>2. f[i] = at(i) /\ score(i) >= Floor
      BY <1>8, <3>1
    <3> QED
      BY <1>4, <3>1, <3>2 DEF Passing
  <2> QED
    BY <2>1, <2>2 DEF Entries
<1>12. \A i, j \in 1 .. p : f[i] = f[j] => i = j
  <2> SUFFICES ASSUME NEW i \in 1 .. p, NEW j \in 1 .. p, f[i] = f[j] PROVE i = j
    OBVIOUS
  <2>1. i \in 1 .. n /\ j \in 1 .. n /\ at(i) = at(j)
    BY <1>10
  <2>2. ~(i < j) /\ ~(j < i)
    BY <1>2, <2>1
  <2> QED
    BY <1>1, <2>1, <2>2
<1> HIDE DEF f
<1>13. Cardinality(Passing) = p
  BY <1>10, <1>11, <1>12, CountDistinct
<1> DEFINE b == AtMost(p)
<1>14. b \in 0 .. p /\ b <= TopK /\ \A i \in Nat : i <= b <=> i <= p /\ i <= TopK
  BY <1>1, <1>10, AtMostFacts
<1> HIDE DEF b
<1>15. \A i \in 1 .. n : decisions[i].status = "kept" <=> i <= b
  <2> SUFFICES ASSUME NEW i \in 1 .. n PROVE decisions[i].status = "kept" <=> i <= b
    OBVIOUS
  <2>1. i \in Nat /\ (i <= p <=> score(i) >= Floor)
    BY <1>1, <1>8, <1>9
  <2>2. StatusAt(i, score(i)) = "kept" <=> score(i) >= Floor /\ i <= TopK
    BY <1>1 DEF StatusAt
  <2> QED
    BY <1>3, <1>14, <2>1, <2>2
<1>16. b \in 0 .. n /\ (1 .. b) \subseteq 1 .. n /\ (1 .. b) \subseteq 1 .. p
  BY <1>1, <1>10, <1>14
<1>17. Len(Kept) = b /\ Kept \in Seq(Decisions) /\ \A i \in 1 .. b : Kept[i] = decisions[i]
  BY <1>14, <1>15, <1>16, KeptStart DEF n
<1>18. \A i \in 1 .. b : Kept[i].candidate = at(i) /\ at(i) \in Passing
  <2> SUFFICES ASSUME NEW i \in 1 .. b PROVE Kept[i].candidate = at(i) /\ at(i) \in Passing
    OBVIOUS
  <2>1. i \in 1 .. n /\ score(i) >= Floor
    BY <1>8, <1>9, <1>16
  <2> QED
    BY <1>4, <1>17, <2>1 DEF Passing, at
<1>19. ASSUME NEW c \in Passing, NEW i \in 1 .. b, candidates[c] > candidates[Kept[i].candidate]
       PROVE  \E j \in 1 .. i - 1 : Kept[j].candidate = c
  <2>1. c \in Usable
    BY DEF Passing
  <2>2. PICK j \in 1 .. n : at(j) = c
    BY <1>5, <2>1
  <2>3. i \in 1 .. n /\ score(j) > score(i)
    BY <1>16, <1>18, <1>19, <2>2
  <2>4. ~(i < j) /\ i # j
    BY <1>1, <1>2, <2>2, <2>3
  <2>5. j \in 1 .. i - 1 /\ j \in 1 .. b
    BY <1>1, <1>14, <2>2, <2>3, <2>4
  <2> QED
    BY <1>18, <2>2, <2>5
<1> QED
  BY <1>1, <1>13, <1>16, <1>17, <1>18, <1>19 DEF n, b

\* The candidates that pass are finitely many.
LEMMA PassingIsFinite ==
  ASSUME PassagesTypeOK
  PROVE  IsFiniteSet(Passing) /\ Cardinality(Passing) \in Nat
<1>1. Len(candidates) \in Nat
  BY CandidateFacts
<1>2. Usable \subseteq 1 .. Len(candidates)
  BY CandidateFacts DEF Usable
<1>3. Passing \subseteq 1 .. Len(candidates)
  BY <1>2 DEF Passing
<1>4. IsFiniteSet(1 .. Len(candidates))
  BY <1>1, FS_Interval
<1> QED
  BY <1>3, <1>4, FS_Subset, FS_CardinalityType

\* The passages are those of the decisions that are kept.
LEMMA BuildContextInv ==
  ASSUME PassagesInv, BuildContext
  PROVE  PassagesInv'
<1> USE DEF PassagesInv
<1>1. /\ stage = "context" /\ passages' = [i \in 1 .. Len(Kept) |-> Kept[i].candidate]
      /\ stage' = IF Kept = <<>> THEN "answered" ELSE "generate"
      /\ UNCHANGED <<encoder, candidates, ranked, turn, decisions, cited, shown>>
  BY DEF BuildContext, rankVars
<1>2. cited' = {} /\ shown' = <<>>
  BY <1>1 DEF StageInv
<1>3. /\ Len(candidates) \in Nat /\ TopK \in Nat /\ Positions = 1 .. Len(candidates)
      /\ decisions \in Seq(Decisions) /\ Len(decisions) \in Nat
  BY CandidateFacts
<1>4. Kept \in Seq(Decisions) /\ Len(Kept) <= TopK
  <2>1. CASE Usable = {}
    <3>1. FellBack
      BY <1>1, <2>1 DEF StageInv
    <3> QED
      BY <1>3, <3>1, KeptOfFallBack, AtMostFacts
  <2>2. CASE Usable # {}
    <3>1. Decided /\ turn = Len(ranked)
      BY <1>1, <2>2 DEF StageInv
    <3>2. Kept \in Seq(Decisions) /\ Len(Kept) = AtMost(Cardinality(Passing))
      BY <3>1, KeptOfRanking
    <3>3. Cardinality(Passing) \in Nat
      BY PassingIsFinite
    <3> QED
      BY <1>3, <3>2, <3>3, AtMostFacts
  <2> QED
    BY <2>1, <2>2
<1> DEFINE m == Len(Kept)
           p == [i \in 1 .. m |-> Kept[i].candidate]
<1>5. m \in Nat /\ \A i \in 1 .. m : Kept[i].candidate \in Positions
  <2>1. m \in Nat /\ \A i \in 1 .. m : Kept[i] \in Decisions
    BY <1>4, SeqItems
  <2> QED
    BY <2>1 DEF Decisions
<1>6. p \in Seq(Positions) /\ Len(p) = m /\ \A i \in 1 .. m : p[i] = Kept[i].candidate
  <2> DEFINE Q == Positions
             q(i) == Kept[i].candidate
  <2>1. m \in Nat /\ \A i \in 1 .. m : q(i) \in Q
    BY <1>5
  <2> HIDE DEF m, Q, q
  <2>2. [i \in 1 .. m |-> q(i)] \in Seq(Q) /\ Len([i \in 1 .. m |-> q(i)]) = m
    BY <2>1
  <2>3. p = [i \in 1 .. m |-> q(i)]
    BY DEF q
  <2> QED
    BY <2>2, <2>3 DEF Q
<1>7. passages' = p
  BY <1>1
<1> HIDE DEF p
<1>8. Usable' = Usable /\ Passing' = Passing /\ Positions' = Positions /\ Decisions' = Decisions
  BY <1>1 DEF Usable, Passing, Positions, Decisions
<1>9. PassagesTypeOK'
  <2>1. shown' \in Seq([index : 1 .. Len(passages'), candidate : Positions])
    BY <1>2
  <2>2. passages' \in Seq(Positions) /\ Len(passages') <= TopK
    BY <1>4, <1>6, <1>7
  <2>3. stage' \in {"answered", "generate"}
    BY <1>1
  <2> QED
    BY <1>1, <1>2, <1>8, <2>1, <2>2, <2>3 DEF PassagesTypeOK
<1>10. RankedInOrder'
  BY <1>1 DEF RankedInOrder
<1>11. StageInv'
  BY <1>1, <1>2 DEF StageInv
<1>12. KeptAreBest'
  <2>1. CASE Usable = {}
    <3>1. FellBack
      BY <1>1, <2>1 DEF StageInv
    <3>2. m = AtMost(Len(candidates)) /\ \A i \in 1 .. m : Kept[i].candidate = i
      BY <3>1, KeptOfFallBack
    <3>3. p = [i \in 1 .. AtMost(Len(candidates)) |-> i]
      BY <3>2 DEF p
    <3> QED
      BY <1>1, <1>7, <1>8, <2>1, <3>3 DEF KeptAreBest, AtMost
  <2>2. CASE Usable # {}
    <3>1. Decided /\ turn = Len(ranked)
      BY <1>1, <2>2 DEF StageInv
    <3>2. /\ m <= Len(decisions)
          /\ \A i \in 1 .. m : Kept[i] = decisions[i] /\ Kept[i].candidate \in Passing
          /\ m = AtMost(Cardinality(Passing))
          /\ \A c \in Passing, i \in 1 .. m :
               candidates[c] > candidates[Kept[i].candidate] =>
                 \E j \in 1 .. i - 1 : Kept[j].candidate = c
      BY <3>1, KeptOfRanking
    <3>3. \A i \in 1 .. m : i \in 1 .. Len(decisions)
      BY <1>3, <1>5, <3>2
    <3>4. \A i, j \in 1 .. m : p[i] = p[j] => i = j
      <4> SUFFICES ASSUME NEW i \in 1 .. m, NEW j \in 1 .. m, p[i] = p[j] PROVE i = j
        OBVIOUS
      <4>1. decisions[i].candidate = decisions[j].candidate
        BY <1>6, <3>2
      <4>2. ~(i < j) /\ ~(j < i)
        BY <3>1, <3>3, <4>1 DEF Decided
      <4> QED
        BY <1>5, <4>2
    <3>5. Cardinality(Entries(p, m)) = m
      <4> HIDE DEF m
      <4> QED
        BY <1>5, <3>4, CountDistinct
    <3>6. Entries(p, m) = {passages'[i] : i \in 1 .. Len(passages')}
      BY <1>6, <1>7 DEF Entries
    <3>7. Entries(p, m) \subseteq Passing
      BY <1>6, <3>2 DEF Entries
    <3>8. ASSUME NEW i \in 1 .. m, NEW c \in Passing, candidates[c] > candidates[p[i]]
          PROVE  \E j \in 1 .. i - 1 : p[j] = c
      <4>1. PICK j \in 1 .. i - 1 : Kept[j].candidate = c
        BY <1>6, <3>2, <3>8
      <4>2. j \in 1 .. m
        BY <1>5
      <4> QED
        BY <1>6, <4>1, <4>2
    <3>9. Len(passages') = AtMost(Cardinality(Passing))
      BY <1>6, <1>7, <3>2
    <3> HIDE DEF m
    <3>10. Cardinality({passages'[i] : i \in 1 .. Len(passages')}) = Len(passages')
      BY <1>6, <1>7, <3>5, <3>6
    <3>11. {passages'[i] : i \in 1 .. Len(passages')} \subseteq Passing
      BY <3>6, <3>7
    <3>12. \A i \in 1 .. Len(passages') : \A c \in Passing :
             candidates[c] > candidates[passages'[i]] => \E j \in 1 .. i - 1 : passages'[j] = c
      BY <1>6, <1>7, <3>8
    <3>13. candidates' = candidates
      BY <1>1
    <3> QED
      BY <1>8, <2>2, <3>9, <3>10, <3>11, <3>12, <3>13 DEF KeptAreBest
  <2> QED
    BY <2>1, <2>2
<1>13. CitationsMatch'
  <2> SUFFICES ASSUME stage' = "answered" PROVE CitationsMatch'
    BY DEF CitationsMatch
  <2>1. Kept = <<>>
    BY <1>1
  <2>2. passages' = <<>> /\ 1 .. Len(passages') = {}
    <3>1. m = 0
      BY <2>1
    <3> QED
      BY <1>6, <1>7, <3>1
  <2>3. 1 .. Len(shown') = {}
    BY <1>2
  <2> QED
    BY <1>2, <2>2, <2>3 DEF CitationsMatch
<1> QED
  BY <1>9, <1>10, <1>11, <1>12, <1>13

\* A citation has its passage's number; the cited ones are among those shown.
LEMMA GenerateInv ==
  ASSUME PassagesInv, Generate
  PROVE  PassagesInv'
<1> USE DEF PassagesInv
<1>1. /\ stage = "generate" /\ stage' = "answered"
      /\ cited' \subseteq 0 .. TopK + 1 /\ shown' = Shown(cited')
      /\ UNCHANGED <<encoder, candidates, ranked, turn, decisions, passages>>
  BY DEF Generate, rankVars
<1> DEFINE m == Len(passages)
           C == [index : 1 .. m, candidate : Positions]
           S == [index : cited', candidate : Positions]
           all == Citations
           of == Selected(all, S)
<1>2. m \in Nat /\ \A i \in 1 .. m : passages[i] \in Positions
  BY SeqItems DEF PassagesTypeOK
<1>3. all \in Seq(C) /\ Len(all) = m
      /\ \A i \in 1 .. m : all[i].index = i /\ all[i].candidate = passages[i]
  <2>1. \A i \in 1 .. m : [index |-> i, candidate |-> passages[i]] \in C
    BY <1>2
  <2>2. all = [i \in 1 .. m |-> [index |-> i, candidate |-> passages[i]]]
    BY DEF Citations
  <2> HIDE DEF all, C, m
  <2> QED
    BY <1>2, <2>1, <2>2
<1>4. \A i \in 1 .. m : i \in cited' => all[i] \in S
  <2>1. \A i \in 1 .. m : all[i] = [index |-> i, candidate |-> passages[i]]
    BY DEF Citations
  <2>2. \A i \in 1 .. m : i \in cited' => [index |-> i, candidate |-> passages[i]] \in S
    BY <1>2
  <2> QED
    BY <2>1, <2>2
<1>5. shown' = IF of = <<>> THEN all ELSE of
  BY <1>1 DEF Shown
<1> HIDE DEF C, S, all, of
<1>6. of \in Seq(C) /\ \E at : IsSelection(of, at, m, all, S)
  BY <1>3, SelectedFacts DEF of
<1>7. /\ shown' \in Seq(C)
      /\ \A i \in 1 .. Len(shown') : passages[shown'[i].index] = shown'[i].candidate
      /\ \A n \in cited' \intersect 1 .. m : \E i \in 1 .. Len(shown') : shown'[i].index = n
      /\ passages # <<>> => shown' # <<>>
  <2>1. CASE of = <<>>
    <3>1. shown' = all
      BY <1>5, <2>1
    <3>2. passages # <<>> => all # <<>>
      BY <1>2, <1>3 DEF PassagesTypeOK
    <3> QED
      BY <1>3, <3>1, <3>2
  <2>2. CASE of # <<>>
    <3>1. shown' = of
      BY <1>5, <2>2
    <3>2. PICK at : IsSelection(of, at, m, all, S)
      BY <1>6
    <3>3. \A i \in 1 .. Len(of) : at[i] \in 1 .. m /\ of[i] = all[at[i]]
      BY <3>2 DEF IsSelection
    <3>4. \A i \in 1 .. Len(of) : passages[of[i].index] = of[i].candidate
      BY <1>3, <3>3
    <3>5. ASSUME NEW n \in cited' \intersect 1 .. m PROVE \E i \in 1 .. Len(of) : of[i].index = n
      <4>1. PICK i \in 1 .. Len(of) : at[i] = n
        BY <1>4, <3>2 DEF IsSelection
      <4> QED
        BY <1>3, <3>3, <4>1
    <3> QED
      BY <1>6, <2>2, <3>1, <3>4, <3>5
  <2> QED
    BY <2>1, <2>2
<1>8. Positions' = Positions /\ Decisions' = Decisions /\ Usable' = Usable /\ Passing' = Passing
  BY <1>1 DEF Positions, Decisions, Usable, Passing
<1>9. PassagesTypeOK'
  BY <1>1, <1>7, <1>8 DEF PassagesTypeOK, C, m
<1>10. RankedInOrder' /\ StageInv'
  BY <1>1 DEF RankedInOrder, StageInv
<1>11. KeptAreBest'
  BY <1>1, <1>8 DEF KeptAreBest
<1>12. CitationsMatch'
  BY <1>1, <1>7 DEF CitationsMatch, m
<1> QED
  BY <1>9, <1>10, <1>11, <1>12

LEMMA PassagesInvariance == PassagesSpec => []PassagesInv
<1>1. ASSUME PassagesInv, [PassagesNext]_passagesVars PROVE PassagesInv'
  <2>1. CASE UNCHANGED passagesVars
    <3>1. UNCHANGED <<encoder, candidates, ranked, turn, decisions, passages, cited, shown, stage>>
      BY <2>1 DEF passagesVars, rankVars, answerVars
    <3>2. Positions' = Positions /\ Decisions' = Decisions /\ Usable' = Usable /\ Passing' = Passing
      BY <3>1 DEF Positions, Decisions, Usable, Passing
    <3>3. PassagesTypeOK' /\ RankedInOrder' /\ CitationsMatch'
      BY <1>1, <3>1, <3>2 DEF PassagesInv, PassagesTypeOK, RankedInOrder, CitationsMatch
    <3>4. Decided' = Decided /\ FellBack' = FellBack
      BY <3>1, <3>2 DEF Decided, StatusAt, FellBack
    <3>5. StageInv'
      BY <1>1, <3>1, <3>2, <3>4 DEF PassagesInv, StageInv
    <3>6. KeptAreBest'
      BY <1>1, <3>1, <3>2 DEF PassagesInv, KeptAreBest
    <3> QED
      BY <3>3, <3>5, <3>6 DEF PassagesInv
  <2> QED
    BY <1>1, <2>1, BeforeRanking, RankInv, DecideInv, EndRankingInv, BuildContextInv, GenerateInv DEF PassagesNext
<1> QED
  BY <1>1, InitPassagesInv, PTL DEF PassagesSpec

\* The model is never shown more than TopK passages.
THEOREM PassagesTyped == PassagesSpec => []PassagesTypeOK
<1>1. PassagesInv => PassagesTypeOK
  BY DEF PassagesInv
<1> QED
  BY <1>1, PassagesInvariance, PTL

\* Whichever indices the encoder loses, no passage gives way to one that scores less.
THEOREM BestAreKept == PassagesSpec => []KeptAreBest
<1>1. PassagesInv => KeptAreBest
  BY DEF PassagesInv
<1> QED
  BY <1>1, PassagesInvariance, PTL

\* Whatever numbers the answer cites, a citation is of the passage the model read.
THEOREM CitationsAreRead == PassagesSpec => []CitationsMatch
<1>1. PassagesInv => CitationsMatch
  BY DEF PassagesInv
<1> QED
  BY <1>1, PassagesInvariance, PTL

-------------------------------------------------------------------------------
(* The console.                                                            *)

\* Only a signed-in session waits for anything, with no list on its page, and a list it
\* fetches is read after the changes it has reported.
BusyInv ==
  \A s \in Sessions :
    /\ busy[s] # "no" => user[s] # None /\ rendered[s] = <<>>
    /\ busy[s] = "fetch" => told[s] <= fetched[s]
    /\ told[s] <= changes

\* A cached list is of the user of its token and holds what the session that fetched it
\* has reported: reporting clears the cache.
CacheInv ==
  \A t \in Tokens :
    cache[t] # <<>> =>
      cache[t][1].of = t.of /\ told[cache[t][1].by] <= cache[t][1].changes

ConsoleInv == ConsoleTypeOK /\ ChatIsOwn /\ ListsAreOwn /\ BusyInv /\ CacheInv

\* A list is a record in a sequence of one.
LEMMA OneList ==
  /\ \A x : <<x>> # <<>> /\ <<x>>[1] = x
  /\ \A c \in {<<>>} \union {<<l>> : l \in Lists} : c # <<>> => c[1] \in Lists /\ c = <<c[1]>>
  /\ \A r \in {<<>>} \union {<<l>> : l \in Renderings} : r # <<>> => r[1] \in Renderings
  OBVIOUS

\* An empty cache has its type and holds nothing.
LEMMA EmptyCache ==
  /\ NoLists \in [Tokens -> {<<>>} \union {<<l>> : l \in Lists}]
  /\ \A t \in Tokens : NoLists[t] = <<>>
  BY DEF NoLists

LEMMA InitConsoleInv == ConsoleInit => ConsoleInv
<1> SUFFICES ASSUME ConsoleInit PROVE ConsoleInv
  OBVIOUS
<1>1. ConsoleTypeOK
  BY ConsoleAssumption, EmptyCache DEF ConsoleInit, ConsoleTypeOK
<1>2. ChatIsOwn /\ ListsAreOwn /\ BusyInv
  BY DEF ConsoleInit, ChatIsOwn, ListsAreOwn, BusyInv
<1>3. CacheInv
  BY EmptyCache DEF ConsoleInit, CacheInv
<1> QED
  BY <1>1, <1>2, <1>3 DEF ConsoleInv

\* Who signs in or out.
LEMMA SessionSteps ==
  ASSUME ConsoleInv, NEW s \in Sessions,
         SignIn(s) \/ SignOut(s) \/ Reload(s) \/ SessionExpires(s)
  PROVE  ConsoleInv'
<1> USE ConsoleAssumption DEF ConsoleInv
<1>1. CASE SignIn(s)
  <2>1. ConsoleTypeOK'
    <3>1. PICK t \in Tokens :
            /\ token' = [token EXCEPT ![s] = t]
            /\ \/ user' = [user EXCEPT ![s] = t.of] /\ cache' = NoLists
               \/ UNCHANGED <<user, cache>>
      BY <1>1 DEF SignIn, ClearLookups
    <3>2. t.of \in Users
      BY DEF Tokens
    <3>3. token' \in [Sessions -> Tokens \union {None}] /\ user' \in [Sessions -> Users \union {None}]
      BY <3>1, <3>2 DEF ConsoleTypeOK
    <3>4. cache' \in [Tokens -> {<<>>} \union {<<l>> : l \in Lists}]
      BY <3>1, EmptyCache DEF ConsoleTypeOK
    <3> QED
      BY <1>1, <3>3, <3>4 DEF SignIn, ConsoleTypeOK
  <2>2. user[s] = None /\ busy[s] = "no" /\ history[s] = {} /\ rendered[s] = <<>>
    BY <1>1, OneList DEF SignIn, ConsoleTypeOK, ChatIsOwn, ListsAreOwn, BusyInv, Renderings
  <2>3. ChatIsOwn' /\ ListsAreOwn' /\ BusyInv'
    BY <1>1, <2>2 DEF SignIn, ConsoleTypeOK, ChatIsOwn, ListsAreOwn, BusyInv
  <2>4. CacheInv'
    BY <1>1, EmptyCache DEF SignIn, ConsoleTypeOK, CacheInv, ClearLookups
  <2> QED
    BY <2>1, <2>3, <2>4
<1>2. CASE BackToLogin(s) /\ changes' = changes /\ (ClearLookups \/ UNCHANGED cache)
  <2>1. ConsoleTypeOK'
    BY <1>2, EmptyCache DEF ConsoleTypeOK, BackToLogin, Logout, Waits, ClearLookups
  <2>2. ChatIsOwn' /\ ListsAreOwn' /\ BusyInv'
    BY <1>2 DEF BackToLogin, Logout, Waits, ConsoleTypeOK, ChatIsOwn, ListsAreOwn, BusyInv
  <2>3. \A x \in Sessions : told'[x] <= told[x]
    BY <1>2 DEF BackToLogin, ConsoleTypeOK
  <2>4. CacheInv'
    <3>1. CASE ClearLookups
      BY <3>1, EmptyCache DEF ClearLookups, CacheInv
    <3>2. CASE UNCHANGED cache
      <4> SUFFICES ASSUME NEW t \in Tokens, cache[t] # <<>>
                   PROVE  /\ cache[t][1].of = t.of
                          /\ told'[cache[t][1].by] <= cache[t][1].changes
        BY <3>2 DEF CacheInv
      <4>1. cache[t][1] \in Lists
        BY OneList DEF ConsoleTypeOK
      <4>2. cache[t][1].changes \in Nat /\ cache[t][1].by \in Sessions
        BY <4>1 DEF Lists
      <4>3. told[cache[t][1].by] \in Nat /\ told'[cache[t][1].by] \in Nat
        BY <2>1, <4>2 DEF ConsoleTypeOK
      <4> QED
        BY <4>2, <4>3, <2>3 DEF CacheInv
    <3> QED
      BY <1>2, <3>1, <3>2
  <2> QED
    BY <2>1, <2>2, <2>4
<1> QED
  BY <1>1, <1>2 DEF SignOut, Reload, SessionExpires

\* Asking, and the steps that only change what the session waits for.
LEMMA WaitingSteps ==
  ASSUME ConsoleInv, NEW s \in Sessions,
         ShowError(s) \/ Ask(s) \/ Answered(s) \/ Shared(s) \/ Upload(s) \/ UploadInterrupted(s)
  PROVE  ConsoleInv'
<1> USE ConsoleAssumption DEF ConsoleInv
<1>1. ConsoleTypeOK'
  <2>1. CASE ShowError(s)
    BY <2>1 DEF ConsoleTypeOK, ShowError, Waits
  <2>2. CASE Ask(s)
    BY <2>2 DEF ConsoleTypeOK, Ask, Interacts, Waits
  <2>3. CASE Answered(s)
    BY <2>3 DEF ConsoleTypeOK, ChatIsOwn, BusyInv, Answered, Waits, Tokens
  <2>4. CASE Shared(s)
    BY <2>4 DEF ConsoleTypeOK, Shared, Waits
  <2>5. CASE Upload(s)
    BY <2>5 DEF ConsoleTypeOK, Upload, Interacts, Waits
  <2>6. CASE UploadInterrupted(s)
    BY <2>6 DEF ConsoleTypeOK, UploadInterrupted, Waits
  <2> QED
    BY <2>1, <2>2, <2>3, <2>4, <2>5, <2>6
<1>2. UNCHANGED <<token, user, told, changes, cache>>
  BY DEF ShowError, Ask, Answered, Shared, Upload, UploadInterrupted
<1>3. ChatIsOwn'
  <2>1. CASE Answered(s)
    BY <2>1 DEF Answered, ConsoleTypeOK, ChatIsOwn, BusyInv
  <2>2. CASE ~Answered(s)
    BY <1>2, <2>2 DEF ShowError, Ask, Shared, Upload, UploadInterrupted, ChatIsOwn
  <2> QED
    BY <2>1, <2>2
<1>4. ListsAreOwn'
  BY <1>2 DEF ShowError, Ask, Answered, Shared, Upload, UploadInterrupted,
              Interacts, ConsoleTypeOK, ListsAreOwn
<1>5. BusyInv'
  BY <1>2 DEF ShowError, Ask, Answered, Shared, Upload, UploadInterrupted,
              Interacts, Waits, Ready, ConsoleTypeOK, BusyInv
<1>6. CacheInv'
  BY <1>2 DEF CacheInv
<1> QED
  BY <1>1, <1>3, <1>4, <1>5, <1>6

\* A list is rendered from the cache, or fetched into it.
LEMMA ListSteps ==
  ASSUME ConsoleInv, NEW s \in Sessions,
         ListCached(s) \/ Fetch(s) \/ Fetched(s) \/ Refresh(s)
  PROVE  ConsoleInv'
<1> USE ConsoleAssumption DEF ConsoleInv
<1>1. CASE ListCached(s)
  <2> DEFINE l == cache[token[s]][1]
  <2>1. token[s] \in Tokens /\ token[s].of = user[s] /\ busy[s] = "no"
    BY <1>1 DEF ListCached, Ready, ChatIsOwn
  <2>2. l \in Lists /\ l.of = user[s] /\ told[l.by] <= l.changes
    BY <1>1, <2>1, OneList DEF ListCached, CacheKey, CacheInv, ConsoleTypeOK
  <2>3. [of |-> l.of, by |-> l.by, changes |-> l.changes] \in Renderings
    BY <2>2 DEF Lists, Renderings
  <2> HIDE DEF l
  <2>4. rendered' = [rendered EXCEPT ![s] = <<[of |-> l.of, by |-> l.by, changes |-> l.changes]>>]
    BY <1>1 DEF ListCached, Render, CacheKey, l
  <2>5. UNCHANGED <<token, user, history, busy, fetched, succeeded, told, cache, changes>>
    BY <1>1 DEF ListCached
  <2>6. ConsoleTypeOK'
    BY <2>3, <2>4, <2>5 DEF ConsoleTypeOK
  <2>7. ListsAreOwn'
    <3> SUFFICES ASSUME NEW x \in Sessions, rendered'[x] # <<>>
                 PROVE  /\ rendered'[x][1].of = user[x]
                        /\ rendered'[x][1].by = x => rendered'[x][1].changes >= told[x]
      BY <2>5 DEF ListsAreOwn
    <3>1. CASE x # s
      BY <2>4, <3>1 DEF ListsAreOwn, ConsoleTypeOK
    <3>2. CASE x = s
      <4>1. rendered'[x][1] = [of |-> l.of, by |-> l.by, changes |-> l.changes]
        BY <2>4, <3>2, OneList DEF ConsoleTypeOK
      <4> QED
        BY <4>1, <2>2, <3>2 DEF Lists, ConsoleTypeOK
    <3> QED
      BY <3>1, <3>2
  <2>8. BusyInv'
    BY <2>1, <2>4, <2>5 DEF BusyInv, ConsoleTypeOK
  <2>9. ChatIsOwn' /\ CacheInv'
    BY <2>5 DEF ChatIsOwn, CacheInv
  <2> QED
    BY <2>6, <2>7, <2>8, <2>9
<1>2. CASE Fetch(s)
  <2>1. ConsoleTypeOK'
    BY <1>2 DEF Fetch, Interacts, Waits, ConsoleTypeOK
  <2>2. BusyInv'
    BY <1>2 DEF Fetch, Interacts, Waits, Ready, ConsoleTypeOK, BusyInv
  <2>3. ChatIsOwn' /\ ListsAreOwn' /\ CacheInv'
    BY <1>2 DEF Fetch, Interacts, ConsoleTypeOK, ChatIsOwn, ListsAreOwn, CacheInv
  <2> QED
    BY <2>1, <2>2, <2>3
<1>3. CASE Fetched(s)
  <2> DEFINE l == [of |-> token[s].of, by |-> s, changes |-> fetched[s], age |-> 0]
             r == [of |-> l.of, by |-> l.by, changes |-> l.changes]
  <2>1. token[s] \in Tokens /\ token[s].of = user[s] /\ told[s] <= fetched[s]
    BY <1>3 DEF Fetched, ConsoleTypeOK, ChatIsOwn, BusyInv
  <2>2. l \in Lists /\ r \in Renderings
    BY <2>1, ConsoleAssumption DEF Lists, Renderings, ConsoleTypeOK, Tokens
  <2>3. /\ l.of = token[s].of /\ l.by = s /\ l.changes = fetched[s]
        /\ r.of = user[s] /\ r.changes = fetched[s]
    BY <2>1
  <2>4. /\ cache' = [cache EXCEPT ![token[s]] = <<l>>]
        /\ rendered' = [rendered EXCEPT ![s] = <<r>>]
        /\ busy' = [busy EXCEPT ![s] = "no"]
        /\ fetched' = [fetched EXCEPT ![s] = 0]
        /\ UNCHANGED <<token, user, history, succeeded, told, changes>>
    BY <1>3 DEF Fetched, CacheKey, Render, Waits
  <2> HIDE DEF l, r
  <2>5. ConsoleTypeOK'
    BY <2>1, <2>2, <2>4 DEF ConsoleTypeOK
  <2>6. ListsAreOwn'
    <3> SUFFICES ASSUME NEW x \in Sessions, rendered'[x] # <<>>
                 PROVE  /\ rendered'[x][1].of = user[x]
                        /\ rendered'[x][1].by = x => rendered'[x][1].changes >= told[x]
      BY <2>4 DEF ListsAreOwn
    <3>1. CASE x # s
      BY <2>4, <3>1 DEF ListsAreOwn, ConsoleTypeOK
    <3>2. CASE x = s
      <4>1. rendered'[x][1] = r
        BY <2>4, <3>2, OneList DEF ConsoleTypeOK
      <4> QED
        BY <4>1, <2>1, <2>3, <3>2
    <3> QED
      BY <3>1, <3>2
  <2>7. CacheInv'
    <3> SUFFICES ASSUME NEW t \in Tokens, cache'[t] # <<>>
                 PROVE  cache'[t][1].of = t.of /\ told[cache'[t][1].by] <= cache'[t][1].changes
      BY <2>4 DEF CacheInv
    <3>1. CASE t # token[s]
      <4>1. cache'[t] = cache[t]
        BY <2>4, <3>1 DEF ConsoleTypeOK
      <4> QED
        BY <4>1 DEF CacheInv
    <3>2. CASE t = token[s]
      <4>1. cache'[t][1] = l
        BY <2>4, <3>2, OneList DEF ConsoleTypeOK
      <4> QED
        BY <3>2, <4>1, <2>1, <2>3
    <3> QED
      BY <3>1, <3>2
  <2>8. ChatIsOwn' /\ BusyInv'
    BY <2>4 DEF ChatIsOwn, BusyInv, ConsoleTypeOK
  <2> QED
    BY <2>5, <2>6, <2>7, <2>8
<1>4. CASE Refresh(s)
  <2>1. UNCHANGED <<token, user, history, busy, fetched, succeeded, rendered, told, changes>> /\ cache' = NoLists
    BY <1>4 DEF Refresh, sessionVars, ClearLookups
  <2>2. ConsoleTypeOK'
    BY <2>1, EmptyCache DEF ConsoleTypeOK
  <2>3. CacheInv'
    BY <2>1, EmptyCache DEF CacheInv
  <2>4. ChatIsOwn' /\ ListsAreOwn' /\ BusyInv'
    BY <2>1 DEF ChatIsOwn, ListsAreOwn, BusyInv
  <2> QED
    BY <2>2, <2>3, <2>4
<1> QED
  BY <1>1, <1>2, <1>3, <1>4

\* Changes are made, and reported; what is reported later is more.
LEMMA ChangeSteps ==
  ASSUME ConsoleInv, NEW s \in Sessions,
         Change(s) \/ ChangeDone(s) \/ Share(s) \/ UploadFile(s) \/ UploadDone(s)
  PROVE  ConsoleInv'
<1> USE ConsoleAssumption DEF ConsoleInv
<1>1. CASE Change(s) \/ Share(s) \/ UploadFile(s)
  <2>1. ConsoleTypeOK'
    <3>1. CASE Change(s)
      BY <3>1 DEF Change, Interacts, Waits, ConsoleTypeOK
    <3>2. CASE Share(s)
      BY <3>2 DEF Share, Interacts, Waits, ConsoleTypeOK
    <3>3. CASE UploadFile(s)
      BY <3>3 DEF UploadFile, ConsoleTypeOK
    <3> QED
      BY <1>1, <3>1, <3>2, <3>3
  <2>2. BusyInv'
    BY <1>1 DEF Change, Share, UploadFile, Interacts, Waits, Ready, ConsoleTypeOK, BusyInv
  <2>3. /\ UNCHANGED <<token, user, history, told, cache>>
        /\ rendered' \in {rendered, [rendered EXCEPT ![s] = <<>>]}
    BY <1>1 DEF Change, Share, UploadFile, Interacts
  <2>4. ChatIsOwn' /\ ListsAreOwn' /\ CacheInv'
    BY <2>3 DEF ConsoleTypeOK, ChatIsOwn, ListsAreOwn, CacheInv
  <2> QED
    BY <2>1, <2>2, <2>4
<1>2. CASE ChangeDone(s) \/ UploadDone(s)
  <2>1. ConsoleTypeOK'
    <3>1. CASE ChangeDone(s)
      BY <3>1, EmptyCache DEF ChangeDone, Waits, ClearLookups, ConsoleTypeOK
    <3>2. CASE UploadDone(s) /\ succeeded[s] > 0
      <4>1. /\ UNCHANGED <<token, user, history, fetched, rendered, changes>>
            /\ cache' = NoLists /\ told' = [told EXCEPT ![s] = changes]
            /\ succeeded' = [succeeded EXCEPT ![s] = 0] /\ busy' = [busy EXCEPT ![s] = "no"]
        BY <3>2 DEF UploadDone, Waits, ClearLookups
      <4>2. /\ told' \in [Sessions -> 0 .. MaxChanges] /\ succeeded' \in [Sessions -> 0 .. MaxFiles]
            /\ busy' \in [Sessions -> {"no", "ask", "fetch", "change", "share", "upload"}]
        BY <4>1 DEF ConsoleTypeOK
      <4> QED
        BY <4>1, <4>2, EmptyCache DEF ConsoleTypeOK
    <3>3. CASE UploadDone(s) /\ ~(succeeded[s] > 0)
      BY <3>3 DEF UploadDone, Waits, ConsoleTypeOK
    <3> QED
      BY <1>2, <3>1, <3>2, <3>3
  <2>2. UNCHANGED <<token, user, history, fetched, rendered, changes>> /\ busy' = [busy EXCEPT ![s] = "no"]
    BY <1>2 DEF ChangeDone, UploadDone, Waits
  <2>3. \/ UNCHANGED <<cache, told>>
        \/ cache' = NoLists /\ told' = [told EXCEPT ![s] = changes]
    BY <1>2 DEF ChangeDone, UploadDone, ClearLookups
  <2>4. BusyInv'
    BY <1>2, <2>2, <2>3 DEF ChangeDone, UploadDone, ConsoleTypeOK, BusyInv
  <2>5. rendered[s] = <<>>
    BY <1>2 DEF ChangeDone, UploadDone, BusyInv
  <2>6. ChatIsOwn' /\ ListsAreOwn'
    BY <2>2, <2>3, <2>5 DEF ConsoleTypeOK, ChatIsOwn, ListsAreOwn
  <2>7. CacheInv'
    BY <2>3, EmptyCache DEF CacheInv
  <2> QED
    BY <2>1, <2>4, <2>6, <2>7
<1> QED
  BY <1>1, <1>2

\* Lists grow older and are dropped.
LEMMA AgeStep ==
  ASSUME ConsoleInv, CacheAges PROVE ConsoleInv'
<1> USE ConsoleAssumption DEF ConsoleInv
<1>1. UNCHANGED <<token, user, history, busy, fetched, succeeded, rendered, told, changes>>
  BY DEF CacheAges, sessionVars
<1>2. ASSUME NEW t \in Tokens
      PROVE  \/ cache'[t] = <<>>
             \/ /\ cache[t] # <<>>
                /\ cache'[t] = <<[cache[t][1] EXCEPT !.age = @ + 1]>>
                /\ cache[t][1].age < Ttl
  BY DEF CacheAges
<1>3. ASSUME NEW l \in Lists, l.age < Ttl
      PROVE  LET o == [l EXCEPT !.age = @ + 1] IN o \in Lists /\ o.of = l.of /\ o.by = l.by /\ o.changes = l.changes
  BY <1>3 DEF Lists
<1>4. \A t \in Tokens :
        \/ cache'[t] = <<>>
        \/ /\ cache[t] # <<>> /\ cache'[t] # <<>>
           /\ cache'[t] \in {<<l>> : l \in Lists}
           /\ cache'[t][1].of = cache[t][1].of
           /\ cache'[t][1].by = cache[t][1].by
           /\ cache'[t][1].changes = cache[t][1].changes
  <2> SUFFICES ASSUME NEW t \in Tokens, cache'[t] # <<>>
               PROVE  /\ cache[t] # <<>>
                      /\ cache'[t] \in {<<l>> : l \in Lists}
                      /\ cache'[t][1].of = cache[t][1].of
                      /\ cache'[t][1].by = cache[t][1].by
                      /\ cache'[t][1].changes = cache[t][1].changes
    OBVIOUS
  <2> DEFINE o == [cache[t][1] EXCEPT !.age = @ + 1]
  <2>1. cache[t] # <<>> /\ cache'[t] = <<o>> /\ cache[t][1].age < Ttl
    BY <1>2
  <2>2. cache[t][1] \in Lists
    BY <2>1, OneList DEF ConsoleTypeOK
  <2>3. /\ o \in Lists
        /\ o.of = cache[t][1].of /\ o.by = cache[t][1].by /\ o.changes = cache[t][1].changes
    BY <1>3, <2>1, <2>2
  <2> HIDE DEF o
  <2>4. cache'[t][1] = o
    BY <2>1, OneList
  <2> QED
    BY <2>1, <2>3, <2>4
<1>5. cache' \in [Tokens -> {<<>>} \union {<<l>> : l \in Lists}]
  <2>1. \A t \in Tokens : cache'[t] \in {<<>>} \union {<<l>> : l \in Lists}
    BY <1>4
  <2>2. cache' = [t \in Tokens |-> cache'[t]]
    BY DEF CacheAges
  <2> QED
    BY <2>1, <2>2
<1>6. ConsoleTypeOK'
  BY <1>1, <1>5 DEF ConsoleTypeOK
<1>7. CacheInv'
  BY <1>1, <1>4 DEF CacheInv
<1>8. ChatIsOwn' /\ ListsAreOwn' /\ BusyInv'
  BY <1>1 DEF ChatIsOwn, ListsAreOwn, BusyInv
<1> QED
  BY <1>6, <1>7, <1>8

-------------------------------------------------------------------------------
\* The inductive invariant holds in every reachable state.
THEOREM ConsoleInvariance == ConsoleSpec => []ConsoleInv
<1>1. ConsoleInv /\ [ConsoleNext]_consoleVars => ConsoleInv'
  <2> SUFFICES ASSUME ConsoleInv, [ConsoleNext]_consoleVars PROVE ConsoleInv'
    OBVIOUS
  <2>1. CASE CacheAges
    BY <2>1, AgeStep
  <2>2. ASSUME NEW s \in Sessions, SignIn(s) \/ SignOut(s) \/ Reload(s) \/ SessionExpires(s)
        PROVE  ConsoleInv'
    BY <2>2, SessionSteps
  <2>3. ASSUME NEW s \in Sessions,
               ShowError(s) \/ Ask(s) \/ Answered(s) \/ Shared(s) \/ Upload(s) \/ UploadInterrupted(s)
        PROVE  ConsoleInv'
    BY <2>3, WaitingSteps
  <2>4. ASSUME NEW s \in Sessions, ListCached(s) \/ Fetch(s) \/ Fetched(s) \/ Refresh(s)
        PROVE  ConsoleInv'
    BY <2>4, ListSteps
  <2>5. ASSUME NEW s \in Sessions,
               Change(s) \/ ChangeDone(s) \/ Share(s) \/ UploadFile(s) \/ UploadDone(s)
        PROVE  ConsoleInv'
    BY <2>5, ChangeSteps
  <2>6. CASE UNCHANGED consoleVars
    BY <2>6 DEF consoleVars, sessionVars, ConsoleInv, ConsoleTypeOK, ChatIsOwn, ListsAreOwn, BusyInv, CacheInv
  <2> QED
    BY <2>1, <2>2, <2>3, <2>4, <2>5, <2>6 DEF ConsoleNext
<1> QED
  BY <1>1, InitConsoleInv, PTL DEF ConsoleSpec

\* Whatever way a session ends and whoever signs in next, the chat on the screen is the
\* answers of its user alone.
THEOREM ChatOfOne == ConsoleSpec => []ChatIsOwn
<1>1. ConsoleInv => ChatIsOwn
  BY DEF ConsoleInv
<1> QED
  BY <1>1, ConsoleInvariance, PTL

\* Whatever sessions fetch, change and clear side by side, with a token of their own or
\* a shared one, a list on the screen is its user's; one the session has fetched itself
\* holds every change it has reported as done.
THEOREM ListsOfOne == ConsoleSpec => []ListsAreOwn
<1>1. ConsoleInv => ListsAreOwn
  BY DEF ConsoleInv
<1> QED
  BY <1>1, ConsoleInvariance, PTL

===============================================================================
