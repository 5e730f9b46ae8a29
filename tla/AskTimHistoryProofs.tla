------------------------ MODULE AskTimHistoryProofs ------------------------
(***************************************************************************)
(* Proofs about AskTimHistory, for any number of requests, any length of   *)
(* the cached tail, any queries and any number of failures.                *)
(***************************************************************************)
EXTENDS AskTimHistory, SequenceTheorems, FiniteSetTheorems, WellFoundedInduction, TLAPS

Entry == [stamp: Nat, messages: Seq(Nat)]

-----------------------------------------------------------------------------
(* Ends of sequences                                                        *)

\* The same as IsSuffix, without reversing.
Suffix(s, t) == /\ Len(s) =< Len(t)
                /\ \A i \in 1..Len(s) : s[i] = t[Len(t) - Len(s) + i]

LEMMA SuffixIsSuffix ==
    ASSUME NEW s \in Seq(Nat), NEW t \in Seq(Nat), Suffix(s, t)
    PROVE  IsSuffix(s, t)
  <1>1. Len(s) \in Nat /\ Len(t) \in Nat /\ Len(s) =< Len(t)
    BY DEF Suffix
  <1>2. /\ Reverse(s) \in Seq(Nat) /\ Len(Reverse(s)) = Len(s)
        /\ \A i \in 1..Len(s) : Reverse(s)[i] = s[Len(s) - i + 1]
    BY DEF Reverse
  <1>3. /\ Reverse(t) \in Seq(Nat) /\ Len(Reverse(t)) = Len(t)
        /\ \A i \in 1..Len(t) : Reverse(t)[i] = t[Len(t) - i + 1]
    BY DEF Reverse
  <1>4. \A i \in 1..Len(s) : Reverse(s)[i] = Reverse(t)[i]
    <2> TAKE i \in 1..Len(s)
    <2>1. Len(s) - i + 1 \in 1..Len(s) /\ i \in 1..Len(t)
      BY <1>1
    <2>2. s[Len(s) - i + 1] = t[Len(t) - Len(s) + (Len(s) - i + 1)]
      BY <2>1 DEF Suffix
    <2>3. Len(t) - Len(s) + (Len(s) - i + 1) = Len(t) - i + 1
      BY <1>1
    <2> QED BY <1>2, <1>3, <2>1, <2>2, <2>3
  <1>5. SubSeq(Reverse(s), 1, Len(s)) = SubSeq(Reverse(t), 1, Len(s))
    <2>1. SubSeq(Reverse(s), 1, Len(s)) = [i \in 1..Len(s) |-> Reverse(s)[i]]
      BY <1>1, <1>2
    <2>2. SubSeq(Reverse(t), 1, Len(s)) = [i \in 1..Len(s) |-> Reverse(t)[i]]
      BY <1>1, <1>3
    <2> QED BY <1>4, <2>1, <2>2
  <1> QED BY <1>1, <1>2, <1>3, <1>5 DEF IsSuffix, IsPrefix

LEMMA LastOfSuffix ==
    ASSUME NEW s \in Seq(Nat), NEW n \in Nat
    PROVE  LastOf(s, n) \in Seq(Nat) /\ Suffix(LastOf(s, n), s)
  <1>1. CASE n >= Len(s)
    BY <1>1 DEF LastOf, Suffix
  <1>2. CASE n < Len(s)
    <2>1. /\ LastOf(s, n) \in Seq(Nat) /\ Len(LastOf(s, n)) = n
          /\ \A i \in 1..n : LastOf(s, n)[i] = s[Len(s) - n + i]
      BY <1>2 DEF LastOf
    <2> QED BY <1>2, <2>1 DEF Suffix
  <1> QED BY <1>1, <1>2

LEMMA SuffixTransitive ==
    ASSUME NEW r \in Seq(Nat), NEW s \in Seq(Nat), NEW t \in Seq(Nat),
           Suffix(r, s), Suffix(s, t)
    PROVE  Suffix(r, t)
  <1>1. Len(r) \in Nat /\ Len(s) \in Nat /\ Len(t) \in Nat
        /\ Len(r) =< Len(s) /\ Len(s) =< Len(t)
    BY DEF Suffix
  <1>2. ASSUME NEW i \in 1..Len(r)
        PROVE  r[i] = t[Len(t) - Len(r) + i]
    <2>0. r[i] = s[Len(s) - Len(r) + i]
      BY DEF Suffix
    <2>1. Len(s) - Len(r) + i \in 1..Len(s)
      BY <1>1
    <2>2. s[Len(s) - Len(r) + i] = t[Len(t) - Len(s) + (Len(s) - Len(r) + i)]
      BY <2>1 DEF Suffix
    <2>3. Len(t) - Len(s) + (Len(s) - Len(r) + i) = Len(t) - Len(r) + i
      BY <1>1
    <2> QED BY <2>0, <2>2, <2>3
  <1> QED BY <1>1, <1>2 DEF Suffix

LEMMA SuffixExtended ==
    ASSUME NEW s \in Seq(Nat), NEW t \in Seq(Nat), NEW m \in Seq(Nat), Suffix(s, t)
    PROVE  /\ s \o m \in Seq(Nat) /\ t \o m \in Seq(Nat)
           /\ Suffix(s \o m, t \o m) /\ Suffix(m, t \o m)
  <1>1. /\ Len(s) \in Nat /\ Len(t) \in Nat /\ Len(m) \in Nat /\ Len(s) =< Len(t)
        /\ Len(s \o m) = Len(s) + Len(m) /\ Len(t \o m) = Len(t) + Len(m)
    BY DEF Suffix
  <1>2. ASSUME NEW i \in 1..(Len(s) + Len(m))
        PROVE  (s \o m)[i] = (t \o m)[Len(t) - Len(s) + i]
    <2>1. CASE i =< Len(s)
      <3>0. i \in 1..Len(s)
        BY <1>1, <2>1
      <3>1. s[i] = t[Len(t) - Len(s) + i]
        BY <3>0 DEF Suffix
      <3>2. (s \o m)[i] = s[i]
        BY <1>1, <2>1
      <3>3. (t \o m)[Len(t) - Len(s) + i] = t[Len(t) - Len(s) + i]
        BY <1>1, <2>1
      <3> QED BY <3>1, <3>2, <3>3
    <2>2. CASE i > Len(s)
      <3>1. (s \o m)[i] = m[i - Len(s)]
        BY <1>1, <2>2
      <3>2. (t \o m)[Len(t) - Len(s) + i] = m[i - Len(s)]
        BY <1>1, <2>2
      <3> QED BY <3>1, <3>2
    <2> QED BY <1>1, <2>1, <2>2
  <1>3. ASSUME NEW i \in 1..Len(m)
        PROVE  m[i] = (t \o m)[Len(t) + i]
    BY <1>1
  <1> QED BY <1>1, <1>2, <1>3 DEF Suffix

-----------------------------------------------------------------------------
(* Windows of time                                                          *)

\* Induction by the smallest counterexample.
LEMMA Least ==
    ASSUME NEW T \in SUBSET Nat, T # {}
    PROVE  \E n \in T : \A k \in T : n =< k
  <1>1. OpToRel(<, Nat) = {d \in Nat \X Nat : d[1] < d[2]}
    BY DEF OpToRel
  <1> DEFINE R == {d \in Nat \X Nat : d[1] < d[2]}
  <1>2. IsWellFoundedOn(R, Nat)
    BY <1>1, NatLessThanWellFounded
  <1>3. \A x, y \in T : x < y => <<x, y>> \in R
    OBVIOUS
  <1> HIDE DEF R
  <1>4. PICK n \in T : \A y \in T : ~(<<y, n>> \in R)
    BY <1>2, WFMin
  <1>5. \A k \in T : ~(k < n)
    BY <1>3, <1>4
  <1>6. \A k \in T : n \in Nat /\ k \in Nat
    OBVIOUS
  <1> QED BY <1>5, <1>6

LEMMA AscendingApart ==
    ASSUME NEW s \in Seq(Nat), Ascending(s), NEW i \in 1..Len(s), NEW j \in 1..Len(s), i < j
    PROVE  s[i] < s[j]
  <1> DEFINE T == {k \in 1..Len(s) : i < k /\ ~(s[i] < s[k])}
  <1> SUFFICES ASSUME T # {} PROVE FALSE
    OBVIOUS
  <1>0. Len(s) \in Nat /\ \A x \in 1..Len(s) : s[x] \in Nat
    OBVIOUS
  <1>1. PICK k \in T : \A x \in T : k =< x
    <2>1. T \in SUBSET Nat
      OBVIOUS
    <2> HIDE DEF T
    <2> QED BY <2>1, Least
  <1>2. k \in 2..Len(s) /\ k - 1 \in 1..Len(s) /\ i =< k - 1
    OBVIOUS
  <1>3. s[k - 1] < s[k]
    BY <1>2 DEF Ascending
  <1>4. k - 1 \notin T
    BY <1>1, <1>2
  <1>5. i = k - 1 \/ s[i] < s[k - 1]
    BY <1>2, <1>4
  <1>6. s[i] \in Nat /\ s[k - 1] \in Nat /\ s[k] \in Nat
    BY <1>0, <1>2
  <1> QED BY <1>3, <1>5, <1>6

\* The recursion of Within is a function.
IsKept(kept, s, b, e, m) ==
    kept = [n \in 0..m |-> IF n = 0 THEN << >>
                           ELSE IF b <= s[n] /\ s[n] <= e THEN Append(kept[n - 1], s[n])
                           ELSE kept[n - 1]]

LEMMA KeptExists ==
    ASSUME NEW s, NEW b, NEW e, NEW m \in Nat
    PROVE  \E kept : IsKept(kept, s, b, e, m)
  <1> DEFINE T == {n \in Nat : ~\E kept : IsKept(kept, s, b, e, n)}
  <1> SUFFICES ASSUME T # {} PROVE FALSE
    OBVIOUS
  <1>1. PICK n \in T : \A x \in T : n =< x
    <2>1. T \in SUBSET Nat
      OBVIOUS
    <2> HIDE DEF T
    <2> QED BY <2>1, Least
  <1>2. n \in Nat /\ \A kept : ~IsKept(kept, s, b, e, n)
    OBVIOUS
  <1>3. CASE n = 0
    <2> DEFINE kept == [x \in 0..0 |-> << >>]
    <2>1. IsKept(kept, s, b, e, 0)
      BY DEF IsKept
    <2> QED BY <1>2, <1>3, <2>1
  <1>4. CASE n # 0
    <2>1. n - 1 \in Nat /\ n - 1 \notin T
      BY <1>1, <1>2, <1>4
    <2>2. PICK old : IsKept(old, s, b, e, n - 1)
      BY <2>1
    <2> DEFINE last == IF b <= s[n] /\ s[n] <= e THEN Append(old[n - 1], s[n]) ELSE old[n - 1]
               kept == [x \in 0..n |-> IF x = n THEN last ELSE old[x]]
               body == [x \in 0..n |-> IF x = 0 THEN << >>
                           ELSE IF b <= s[x] /\ s[x] <= e THEN Append(kept[x - 1], s[x])
                           ELSE kept[x - 1]]
    <2>3. ASSUME NEW x \in 0..n
          PROVE  kept[x] = body[x]
      <3>1. CASE x = n
        <4>1. kept[x] = last /\ kept[x - 1] = old[x - 1] /\ x # 0
          BY <1>2, <1>4, <3>1
        <4> QED BY <3>1, <4>1
      <3>2. CASE x # n
        <4>1. x \in 0..(n - 1) /\ kept[x] = old[x]
          BY <1>2, <3>2
        <4>2. old[x] = IF x = 0 THEN << >>
                       ELSE IF b <= s[x] /\ s[x] <= e THEN Append(old[x - 1], s[x])
                       ELSE old[x - 1]
          BY <2>2, <4>1 DEF IsKept
        <4>3. x # 0 => kept[x - 1] = old[x - 1]
          BY <1>2, <4>1
        <4> QED BY <4>1, <4>2, <4>3
      <3> QED BY <3>1, <3>2
    <2>4. kept = body
      BY <2>3
    <2> HIDE DEF kept
    <2>5. IsKept(kept, s, b, e, n)
      BY <2>4 DEF IsKept
    <2> QED BY <1>2, <2>5
  <1> QED BY <1>3, <1>4

\* What is kept of the first messages, one after the other.
Keeps(kept, s, b, e) ==
    /\ Within(s, b, e) = kept[Len(s)] /\ kept[0] = << >>
    /\ \A n \in 1..Len(s) :
          kept[n] = IF b <= s[n] /\ s[n] <= e THEN Append(kept[n - 1], s[n]) ELSE kept[n - 1]

LEMMA WithinFacts ==
    ASSUME NEW s \in Seq(Nat), NEW b, NEW e
    PROVE  \E kept : Keeps(kept, s, b, e)
  <1> DEFINE kept == CHOOSE g : IsKept(g, s, b, e, Len(s))
  <1>0. Len(s) \in Nat
    OBVIOUS
  <1>1. Within(s, b, e) = kept[Len(s)]
    BY DEF Within, IsKept
  <1>2. IsKept(kept, s, b, e, Len(s))
    BY <1>0, KeptExists
  <1> HIDE DEF kept
  <1>3. kept[0] = << >>
    BY <1>0, <1>2 DEF IsKept
  <1>4. \A n \in 1..Len(s) :
            kept[n] = IF b <= s[n] /\ s[n] <= e THEN Append(kept[n - 1], s[n]) ELSE kept[n - 1]
    <2> TAKE n \in 1..Len(s)
    <2>1. n \in 0..Len(s) /\ n # 0
      BY <1>0
    <2> QED BY <1>2, <2>1 DEF IsKept
  <1>5. Keeps(kept, s, b, e)
    BY <1>1, <1>3, <1>4 DEF Keeps
  <1> QED BY <1>5

LEMMA WithinType ==
    ASSUME NEW S, NEW s \in Seq(Nat), s \in Seq(S), NEW b, NEW e
    PROVE  Within(s, b, e) \in Seq(S)
  <1>0. Len(s) \in Nat
    OBVIOUS
  <1>keeps. PICK kept : Keeps(kept, s, b, e)
    BY WithinFacts
  <1>1. /\ Within(s, b, e) = kept[Len(s)] /\ kept[0] = << >>
        /\ \A n \in 1..Len(s) :
              kept[n] = IF b <= s[n] /\ s[n] <= e THEN Append(kept[n - 1], s[n]) ELSE kept[n - 1]
    BY <1>keeps DEF Keeps
  <1> DEFINE T == {n \in 0..Len(s) : kept[n] \notin Seq(S)}
  <1>2. T = {}
    <2> SUFFICES ASSUME T # {} PROVE FALSE
      OBVIOUS
    <2>1. PICK n \in T : \A x \in T : n =< x
      <3>1. T \in SUBSET Nat
        BY <1>0
      <3> HIDE DEF T
      <3> QED BY <3>1, Least
    <2>2. n # 0
      BY <1>1, EmptySeq
    <2>3. n \in 1..Len(s) /\ n - 1 \in 0..Len(s) /\ n - 1 \notin T
      BY <1>0, <2>1, <2>2
    <2>4. kept[n - 1] \in Seq(S) /\ s[n] \in S
      BY <2>3
    <2>5. Append(kept[n - 1], s[n]) \in Seq(S)
      BY <2>4
    <2> QED BY <1>1, <2>3, <2>4, <2>5
  <1> QED BY <1>0, <1>1, <1>2

\* What is kept of a sequence in which the window is an interval of indices.
LEMMA WithinInterval ==
    ASSUME NEW s \in Seq(Nat), NEW b \in Nat, NEW e \in Nat,
           NEW lo \in 1..(Len(s) + 1), NEW hi \in (lo - 1)..Len(s),
           \A i \in 1..Len(s) : (b <= s[i] /\ s[i] <= e) <=> (lo <= i /\ i <= hi)
    PROVE  Within(s, b, e) = SubSeq(s, lo, hi)
  <1>0. Len(s) \in Nat /\ lo \in Nat /\ hi \in Nat
    OBVIOUS
  <1>keeps. PICK kept : Keeps(kept, s, b, e)
    BY WithinFacts
  <1>1. /\ Within(s, b, e) = kept[Len(s)] /\ kept[0] = << >>
        /\ \A n \in 1..Len(s) :
              kept[n] = IF b <= s[n] /\ s[n] <= e THEN Append(kept[n - 1], s[n]) ELSE kept[n - 1]
    BY <1>keeps DEF Keeps
  <1> DEFINE upto(n) == SubSeq(s, lo, IF n < hi THEN n ELSE hi)
             T == {n \in 0..Len(s) : kept[n] # upto(n)}
  <1>2. T = {}
    <2> SUFFICES ASSUME T # {} PROVE FALSE
      OBVIOUS
    <2>1. PICK n \in T : \A x \in T : n =< x
      <3>1. T \in SUBSET Nat
        BY <1>0
      <3> HIDE DEF T
      <3> QED BY <3>1, Least
    <2>2. n # 0
      <3>1. (IF 0 < hi THEN 0 ELSE hi) = 0
        BY <1>0
      <3>2. SubSeq(s, lo, 0) = << >>
        BY <1>0
      <3> QED BY <1>1, <3>1, <3>2
    <2>3. n \in 1..Len(s) /\ n - 1 \in 0..Len(s) /\ n - 1 \notin T
      BY <1>0, <2>1, <2>2
    <2>4. kept[n - 1] = upto(n - 1) /\ kept[n] # upto(n)
      BY <2>3
    <2>5. CASE lo <= n /\ n <= hi
      <3>1. kept[n] = Append(kept[n - 1], s[n])
        BY <1>1, <2>3, <2>5
      <3>2. upto(n - 1) = SubSeq(s, lo, n - 1) /\ upto(n) = SubSeq(s, lo, n)
        <4>1. n \in Int /\ hi \in Int
          BY <1>0, <2>3
        <4>2. (IF n - 1 < hi THEN n - 1 ELSE hi) = n - 1
          BY <2>5, <4>1
        <4>3. (IF n < hi THEN n ELSE hi) = n
          BY <2>5, <4>1
        <4> QED BY <4>2, <4>3
      <3>3. SubSeq(s, lo, n) = Append(SubSeq(s, lo, n - 1), s[n])
        BY <1>0, <2>3, <2>5
      <3> QED BY <2>4, <3>1, <3>2, <3>3
    <2>6. CASE n < lo
      <3>1. kept[n] = kept[n - 1]
        BY <1>0, <1>1, <2>3, <2>6
      <3>2. upto(n - 1) = << >> /\ upto(n) = << >>
        BY <1>0, <2>3, <2>6
      <3> QED BY <2>4, <3>1, <3>2
    <2>7. CASE hi < n
      <3>1. kept[n] = kept[n - 1]
        BY <1>0, <1>1, <2>3, <2>7
      <3>2. (IF n < hi THEN n ELSE hi) = hi /\ (IF n - 1 < hi THEN n - 1 ELSE hi) = hi
        BY <1>0, <2>3, <2>7
      <3> QED BY <2>4, <3>1, <3>2
    <2> QED BY <1>0, <2>3, <2>5, <2>6, <2>7
  <1>3. kept[Len(s)] = upto(Len(s))
    <2>1. Len(s) \in 0..Len(s) /\ Len(s) \notin T
      BY <1>0, <1>2
    <2> QED BY <2>1
  <1>4. (IF Len(s) < hi THEN Len(s) ELSE hi) = hi
    BY <1>0
  <1> QED BY <1>1, <1>3, <1>4

LEMMA MinFacts ==
    ASSUME NEW T \in SUBSET Nat, T # {}
    PROVE  Min(T) \in T /\ \A k \in T : Min(T) =< k
  BY Least DEF Min

LEMMA MaxFacts ==
    ASSUME NEW n \in Nat, NEW T \in SUBSET (1..n), T # {}
    PROVE  Max(T) \in T /\ \A k \in T : k =< Max(T)
  <1> DEFINE D == {k \in 0..n : n - k \in T}
  <1>1. \E x \in T : \A y \in T : x >= y
    <2>1. D \in SUBSET Nat
      OBVIOUS
    <2>2. D # {}
      <3>1. PICK x \in T : TRUE
        OBVIOUS
      <3>2. n - x \in 0..n /\ n - (n - x) = x
        BY <3>1
      <3> QED BY <3>1, <3>2
    <2>3. PICK d \in D : \A k \in D : d =< k
      <3> HIDE DEF D
      <3> QED BY <2>1, <2>2, Least
    <2>4. d \in 0..n /\ n - d \in T
      BY <2>3
    <2>5. ASSUME NEW y \in T
          PROVE  n - d >= y
      <3>1. n - y \in 0..n /\ n - (n - y) = y
        OBVIOUS
      <3>2. n - y \in D
        BY <3>1
      <3>3. d =< n - y
        BY <2>3, <3>2
      <3> QED BY <2>4, <3>1, <3>3
    <2> QED BY <2>4, <2>5
  <1> QED BY <1>1 DEF Max

LEMMA OldestFacts ==
    ASSUME NEW q, TsBegin(q) \in Nat, NEW s \in Seq(Nat), OldestIndex(q, s) # 0
    PROVE  LET o == OldestIndex(q, s)
           IN  /\ o \in 1..Len(s) /\ TsBegin(q) <= s[o] /\ s[o] <= q.end
               /\ \A i \in 1..(o - 1) : s[i] < TsBegin(q)
               /\ q.begin # None => o > 1 \/ s[o] = q.begin
  <1> DEFINE I == {i \in 1..Len(s) : s[i] >= TsBegin(q)}
             x == IF I # {} THEN Min(I) ELSE 0
  <1>0. \A i \in 1..Len(s) : s[i] \in Nat
    OBVIOUS
  <1>1. OldestIndex(q, s) = IF /\ x # 0 /\ s[x] <= q.end
                               /\ q.begin # None => x > 1 \/ s[x] = q.begin
                            THEN x ELSE 0
    BY DEF OldestIndex, SelectInSeq
  <1>2. I \in SUBSET Nat
    OBVIOUS
  <1>3. I # {} => Min(I) \in I /\ \A k \in I : Min(I) =< k
    <2> HIDE DEF I
    <2> QED BY <1>2, MinFacts
  <1>4. /\ x # 0 /\ s[x] <= q.end /\ OldestIndex(q, s) = x
        /\ q.begin # None => x > 1 \/ s[x] = q.begin
    <2> DEFINE found == /\ x # 0 /\ s[x] <= q.end
                        /\ q.begin # None => x > 1 \/ s[x] = q.begin
    <2>1. OldestIndex(q, s) = IF found THEN x ELSE 0
      BY <1>1
    <2> HIDE DEF x
    <2>2. found /\ OldestIndex(q, s) = x
      <3> HIDE DEF found
      <3> QED BY <2>1
    <2> QED BY <2>2
  <1>5. x \in I /\ \A k \in I : x =< k
    BY <1>3, <1>4
  <1>6. x \in 1..Len(s) /\ s[x] >= TsBegin(q) /\ s[x] \in Nat
    BY <1>0, <1>5
  <1> HIDE DEF x
  <1>7. ASSUME NEW i \in 1..(x - 1)
        PROVE  s[i] < TsBegin(q)
    <2>1. i \in 1..Len(s) /\ ~(x =< i)
      BY <1>6
    <2>2. ~(s[i] >= TsBegin(q))
      BY <1>5, <2>1
    <2> QED BY <1>0, <2>1, <2>2
  <1> QED BY <1>4, <1>6, <1>7

LEMMA NewestFacts ==
    ASSUME NEW q, TsBegin(q) \in Nat, q.end \in Nat, NEW s \in Seq(Nat), NewestIndex(q, s) # 0
    PROVE  LET n == NewestIndex(q, s)
           IN  /\ n \in 1..Len(s) /\ TsBegin(q) <= s[n] /\ s[n] <= q.end
               /\ \A i \in (n + 1)..Len(s) : s[i] > q.end
  <1> DEFINE I == {i \in 1..Len(s) : s[i] <= q.end}
             x == IF I # {} THEN Max(I) ELSE 0
  <1>0. Len(s) \in Nat /\ \A i \in 1..Len(s) : s[i] \in Nat
    OBVIOUS
  <1>1. NewestIndex(q, s) = IF /\ x # 0 /\ s[x] >= TsBegin(q)
                               /\ q.end_given => x < Len(s) \/ s[x] = q.end
                            THEN x ELSE 0
    BY DEF NewestIndex, SelectLastInSeq
  <1>2. I \in SUBSET (1..Len(s))
    OBVIOUS
  <1>3. I # {} => Max(I) \in I /\ \A k \in I : k =< Max(I)
    <2> HIDE DEF I
    <2> QED BY <1>0, <1>2, MaxFacts
  <1>4. x # 0 /\ s[x] >= TsBegin(q) /\ NewestIndex(q, s) = x
    <2> DEFINE found == /\ x # 0 /\ s[x] >= TsBegin(q)
                        /\ q.end_given => x < Len(s) \/ s[x] = q.end
    <2>1. NewestIndex(q, s) = IF found THEN x ELSE 0
      BY <1>1
    <2> HIDE DEF x
    <2>2. found /\ NewestIndex(q, s) = x
      <3> HIDE DEF found
      <3> QED BY <2>1
    <2> QED BY <2>2
  <1>5. x \in I /\ \A k \in I : k =< x
    BY <1>3, <1>4
  <1>6. x \in 1..Len(s) /\ s[x] <= q.end /\ s[x] \in Nat
    BY <1>0, <1>5
  <1> HIDE DEF x
  <1>7. ASSUME NEW i \in (x + 1)..Len(s)
        PROVE  s[i] > q.end
    <2>1. i \in 1..Len(s) /\ ~(i =< x)
      BY <1>0, <1>6
    <2>2. ~(s[i] <= q.end)
      BY <1>5, <2>1
    <2> QED BY <1>0, <2>1, <2>2
  <1> QED BY <1>4, <1>6, <1>7

\* What is read of a file in order leaves out messages before the window only.
LEMMA RecentFacts ==
    ASSUME NEW f \in Seq(Nat), NEW b \in Nat, Ascending(f)
    PROVE  \E i \in 0..Len(f) : /\ Recent(f, b) = SubSeq(f, i + 1, Len(f))
                                /\ \A k \in 1..i : f[k] < b
  <1> DEFINE I == {i \in 1..Len(f) : f[i] < b}
             x == IF I # {} THEN Max(I) ELSE 0
  <1>0. Len(f) \in Nat /\ \A i \in 1..Len(f) : f[i] \in Nat
    OBVIOUS
  <1>1. Recent(f, b) = IF x # 0 /\ Ascending(SubSeq(f, x, Len(f)))
                       THEN SubSeq(f, x + 1, Len(f)) ELSE f
    BY DEF Recent, SelectLastInSeq
  <1>2. I \in SUBSET (1..Len(f))
    OBVIOUS
  <1>3. I # {} => Max(I) \in I
    <2> HIDE DEF I
    <2> QED BY <1>0, <1>2, MaxFacts
  <1>4. CASE x # 0 /\ Recent(f, b) = SubSeq(f, x + 1, Len(f))
    <2>1. x \in 1..Len(f) /\ f[x] < b /\ f[x] \in Nat
      BY <1>0, <1>3, <1>4
    <2> HIDE DEF x
    <2>2. ASSUME NEW k \in 1..x
          PROVE  f[k] < b
      <3>1. k \in 1..Len(f) /\ (k = x \/ k < x)
        BY <1>0, <2>1
      <3>2. k < x => f[k] < f[x]
        BY <2>1, <3>1, AscendingApart
      <3>3. f[k] \in Nat
        BY <1>0, <3>1
      <3> QED BY <2>1, <3>1, <3>2, <3>3
    <2> QED BY <1>0, <1>4, <2>1, <2>2
  <1>5. CASE Recent(f, b) = f
    <2>1. SubSeq(f, 1, Len(f)) = f
      OBVIOUS
    <2> QED BY <1>0, <1>5, <2>1
  <1> HIDE DEF x
  <1> QED BY <1>1, <1>4, <1>5

LEMMA SubSeqSubSeq ==
    ASSUME NEW f \in Seq(Nat), NEW i \in 0..Len(f),
           NEW lo \in (i + 1)..Len(f), NEW hi \in lo..Len(f)
    PROVE  SubSeq(SubSeq(f, i + 1, Len(f)), lo - i, hi - i) = SubSeq(f, lo, hi)
  <1> DEFINE g == SubSeq(f, i + 1, Len(f))
  <1>0. Len(f) \in Nat /\ i \in Nat /\ lo \in Nat /\ hi \in Nat
    OBVIOUS
  <1>1. /\ g \in Seq(Nat) /\ Len(g) = Len(f) - i
        /\ \A k \in 1..(Len(f) - i) : g[k] = f[i + k]
    BY <1>0
  <1> HIDE DEF g
  <1>2. /\ SubSeq(g, lo - i, hi - i) \in Seq(Nat) /\ Len(SubSeq(g, lo - i, hi - i)) = hi - lo + 1
        /\ \A k \in 1..(hi - lo + 1) : SubSeq(g, lo - i, hi - i)[k] = g[lo - i + k - 1]
    BY <1>0, <1>1
  <1>3. /\ SubSeq(f, lo, hi) \in Seq(Nat) /\ Len(SubSeq(f, lo, hi)) = hi - lo + 1
        /\ \A k \in 1..(hi - lo + 1) : SubSeq(f, lo, hi)[k] = f[lo + k - 1]
    BY <1>0
  <1>4. ASSUME NEW k \in 1..(hi - lo + 1)
        PROVE  g[lo - i + k - 1] = f[lo + k - 1]
    <2>1. lo - i + k - 1 \in 1..(Len(f) - i) /\ i + (lo - i + k - 1) = lo + k - 1
      BY <1>0
    <2> QED BY <1>1, <2>1
  <1>5. SubSeq(g, lo - i, hi - i) = SubSeq(f, lo, hi)
    <2> DEFINE a == SubSeq(g, lo - i, hi - i)
               c == SubSeq(f, lo, hi)
    <2>1. a \in Seq(Nat) /\ c \in Seq(Nat) /\ Len(a) = Len(c)
          /\ \A k \in 1..Len(a) : a[k] = c[k]
      BY <1>2, <1>3, <1>4
    <2> HIDE DEF a, c
    <2>2. a = c
      BY <2>1, SeqEqual
    <2> QED BY <2>2 DEF a, c
  <1> QED BY <1>5 DEF g

\* A query that asks for something.
QueryOK(q) ==
    /\ q.kind \in {"count", "window"} /\ q.max \in Nat \ {0} /\ q.end \in Nat
    /\ q.begin \in Nat \cup {None}
    /\ q.kind = "window" /\ q.begin # None => q.begin < q.end

\* A window in a file in order is an interval of indices.
LEMMA FileWindow ==
    ASSUME NEW f \in Seq(Nat), Ascending(f), NEW q, q.kind # "count",
           TsBegin(q) \in Nat, q.end \in Nat, TsBegin(q) < q.end,
           NEW lo \in 1..Len(f), NEW hi \in lo..Len(f),
           TsBegin(q) <= f[lo], f[hi] <= q.end,
           \A k \in 1..(lo - 1) : f[k] < TsBegin(q), \A k \in (hi + 1)..Len(f) : f[k] > q.end
    PROVE  FromFile(q, f) = LastOf(SubSeq(f, lo, hi), q.max)
  <1> DEFINE b == TsBegin(q)
             e == q.end
  <1>0. /\ Len(f) \in Nat /\ lo \in Nat /\ hi \in Nat
        /\ \A k \in 1..Len(f) : f[k] \in Nat
    OBVIOUS
  <1>1. FromFile(q, f) = LastOf(Within(Recent(f, b), b, e), q.max)
    BY DEF FromFile
  <1>2. PICK i \in 0..Len(f) : /\ Recent(f, b) = SubSeq(f, i + 1, Len(f))
                               /\ \A k \in 1..i : f[k] < b
    BY RecentFacts
  <1> DEFINE g == SubSeq(f, i + 1, Len(f))
  <1>3. i < lo
    <2> SUFFICES ASSUME lo =< i PROVE FALSE
      BY <1>0
    <2>1. lo \in 1..i /\ f[lo] \in Nat
      BY <1>0
    <2>2. f[lo] < b
      BY <1>2, <2>1
    <2> QED BY <2>1, <2>2
  <1>4. /\ g \in Seq(Nat) /\ Len(g) = Len(f) - i
        /\ \A k \in 1..Len(g) : g[k] = f[i + k]
    BY <1>0
  <1>5. ASSUME NEW k \in 1..Len(f)
        PROVE  (b <= f[k] /\ f[k] <= e) <=> (lo <= k /\ k <= hi)
    <2>0. f[k] \in Nat /\ f[lo] \in Nat /\ f[hi] \in Nat
      BY <1>0
    <2>1. CASE k < lo
      <3>1. f[k] < b
        BY <1>0, <2>1
      <3> QED BY <1>0, <2>0, <2>1, <3>1
    <2>2. CASE k > hi
      <3>1. f[k] > e
        BY <1>0, <2>2
      <3> QED BY <1>0, <2>0, <2>2, <3>1
    <2>3. CASE lo <= k /\ k <= hi
      <3>1. k = lo \/ f[lo] < f[k]
        BY <1>0, <2>3, AscendingApart
      <3>2. k = hi \/ f[k] < f[hi]
        BY <1>0, <2>3, AscendingApart
      <3> QED BY <2>0, <2>3, <3>1, <3>2
    <2> QED BY <1>0, <2>1, <2>2, <2>3
  <1>6. ASSUME NEW k \in 1..Len(g)
        PROVE  (b <= g[k] /\ g[k] <= e) <=> (lo - i <= k /\ k <= hi - i)
    <2>1. i + k \in 1..Len(f) /\ g[k] = f[i + k]
      BY <1>0, <1>4
    <2>2. (lo <= i + k /\ i + k <= hi) <=> (lo - i <= k /\ k <= hi - i)
      BY <1>0, <1>4
    <2> QED BY <1>5, <2>1, <2>2
  <1>7. lo - i \in 1..(Len(g) + 1) /\ hi - i \in (lo - i - 1)..Len(g)
    BY <1>0, <1>3, <1>4
  <1>8. b \in Nat /\ e \in Nat
    OBVIOUS
  <1>9. g = Recent(f, b)
    BY <1>2
  <1> HIDE DEF g, b, e
  <1>10. Within(g, b, e) = SubSeq(g, lo - i, hi - i)
    BY <1>4, <1>6, <1>7, <1>8, WithinInterval
  <1>11. SubSeq(g, lo - i, hi - i) = SubSeq(f, lo, hi)
    <2>1. lo \in (i + 1)..Len(f)
      BY <1>0, <1>3
    <2> QED BY <2>1, SubSeqSubSeq DEF g
  <1> QED BY <1>1, <1>9, <1>10, <1>11

LEMMA SubSeqFacts ==
    ASSUME NEW f \in Seq(Nat), NEW lo, lo \in 1..(Len(f) + 1), NEW hi, hi \in (lo - 1)..Len(f)
    PROVE  /\ SubSeq(f, lo, hi) \in Seq(Nat) /\ Len(SubSeq(f, lo, hi)) = hi - lo + 1
           /\ \A k \in 1..(hi - lo + 1) : SubSeq(f, lo, hi)[k] = f[lo + k - 1]
  <1>1. Len(f) \in Nat
    OBVIOUS
  <1>2. lo \in Nat /\ hi \in Nat /\ lo >= 1 /\ hi =< Len(f) /\ lo =< hi + 1
    BY <1>1
  <1>3. \A i \in lo..hi : f[i] \in Nat
    BY <1>1, <1>2
  <1>4. lo \in Int /\ hi \in Int /\ (lo <= hi \/ hi - lo + 1 = 0)
    BY <1>2
  <1> DEFINE r == SubSeq(f, lo, hi)
  <1>5. /\ r \in Seq(Nat) /\ Len(r) = IF lo <= hi THEN hi - lo + 1 ELSE 0
        /\ \A k \in 1..(hi - lo + 1) : r[k] = f[lo + k - 1]
    BY <1>3, <1>4, SubSeqProperties
  <1>6. Len(r) = hi - lo + 1
    <2> HIDE DEF r
    <2> QED BY <1>4, <1>5
  <1> QED BY <1>5, <1>6

\* SubSeq, but not for the provers to rewrite.
Part(s, from, to) == SubSeq(s, from, to)

\* The part of t from lo to hi, in the sequence f that ends with t.
SamePart(t, f, lo, hi, x, y) ==
    /\ lo \in Nat /\ hi \in Nat /\ 1 <= lo /\ lo <= hi + 1 /\ hi <= Len(t)
    /\ x \in Nat /\ x = Len(f) - Len(t) + lo
    /\ y \in Nat /\ y = Len(f) - Len(t) + hi

LEMMA SuffixSub ==
    ASSUME NEW t \in Seq(Nat), NEW f \in Seq(Nat), Suffix(t, f),
           NEW lo, NEW hi, NEW x, NEW y, SamePart(t, f, lo, hi, x, y)
    PROVE  Part(t, lo, hi) = Part(f, x, y)
  <1> DEFINE a == SubSeq(t, lo, hi)
             c == SubSeq(f, x, y)
  <1>0. /\ Len(t) \in Nat /\ Len(f) \in Nat /\ Len(t) =< Len(f)
        /\ \A i \in 1..Len(t) : t[i] = f[Len(f) - Len(t) + i]
    BY DEF Suffix
  <1>1. lo \in Nat /\ hi \in Nat /\ x \in Nat /\ y \in Nat
        /\ 1 =< lo /\ lo =< hi + 1 /\ hi =< Len(t)
        /\ x = Len(f) - Len(t) + lo /\ y = Len(f) - Len(t) + hi
    BY DEF SamePart
  <1>2. x \in 1..(Len(f) + 1) /\ y \in (x - 1)..Len(f) /\ y - x + 1 = hi - lo + 1
    BY <1>0, <1>1
  <1>3. /\ a \in Seq(Nat) /\ Len(a) = hi - lo + 1
        /\ \A k \in 1..(hi - lo + 1) : a[k] = t[lo + k - 1]
    <2>1. lo \in 1..(Len(t) + 1) /\ hi \in (lo - 1)..Len(t)
      BY <1>0, <1>1
    <2> QED BY <2>1, SubSeqFacts
  <1>4. /\ c \in Seq(Nat) /\ Len(c) = y - x + 1
        /\ \A k \in 1..(y - x + 1) : c[k] = f[x + k - 1]
    BY <1>2, SubSeqFacts
  <1> HIDE DEF a, c
  <1>5. ASSUME NEW k \in 1..(hi - lo + 1)
        PROVE  t[lo + k - 1] = f[x + k - 1]
    <2>1. lo + k - 1 \in 1..Len(t) /\ Len(f) - Len(t) + (lo + k - 1) = x + k - 1
      BY <1>0, <1>1
    <2>2. t[lo + k - 1] = f[Len(f) - Len(t) + (lo + k - 1)]
      BY <1>0, <2>1
    <2> QED BY <2>1, <2>2
  <1>6. Len(a) = Len(c) /\ \A k \in 1..Len(a) : a[k] = c[k]
    BY <1>2, <1>3, <1>4, <1>5
  <1>7. a = c
    BY <1>3, <1>4, <1>6, SeqEqual
  <1> QED BY <1>7 DEF a, c, Part

\* The last elements of a part are those of the whole.
LEMMA LastOfSub ==
    ASSUME NEW f \in Seq(Nat), NEW max \in Nat \ {0},
           NEW lo \in Nat, NEW hi \in Nat, 1 =< lo, lo =< hi, hi =< Len(f),
           hi - lo + 1 >= max, NEW x \in Nat, x = hi - max + 1
    PROVE  LastOf(Part(f, lo, hi), max) = Part(f, x, hi)
  <1> DEFINE g == SubSeq(f, lo, hi)
             n == hi - lo + 1
             from == n - max + 1
             a == SubSeq(g, from, n)
             c == SubSeq(f, x, hi)
  <1>0. Len(f) \in Nat /\ lo \in Nat /\ hi \in Nat /\ n \in Nat /\ max \in Nat
    OBVIOUS
  <1>1. /\ g \in Seq(Nat) /\ Len(g) = n
        /\ \A k \in 1..n : g[k] = f[lo + k - 1]
    <2>1. lo \in 1..(Len(f) + 1) /\ hi \in (lo - 1)..Len(f)
      BY <1>0
    <2> QED BY <2>1, SubSeqFacts
  <1>2. from \in 1..n /\ from \in 1..(n + 1) /\ n \in (from - 1)..n /\ n - from + 1 = max
    BY <1>0
  <1>3. x \in 1..(Len(f) + 1) /\ hi \in (x - 1)..Len(f) /\ hi - x + 1 = max /\ x \in Nat
    BY <1>0
  <1>4. LastOf(g, max) = a
    <2>1. CASE n = max
      <3>1. LastOf(g, max) = g /\ SubSeq(g, 1, Len(g)) = g
        <4> HIDE DEF g, n
        <4> QED BY <1>0, <1>1, <2>1 DEF LastOf
      <3>2. from = 1
        BY <1>0, <2>1
      <3> HIDE DEF g, n, from
      <3> QED BY <1>1, <3>1, <3>2
    <2>2. CASE n # max
      <3>1. n > max
        BY <1>0, <2>2
      <3> HIDE DEF g, n
      <3> QED BY <1>0, <1>1, <3>1 DEF LastOf
    <2> QED BY <2>1, <2>2
  <1>5. /\ a \in Seq(Nat) /\ Len(a) = max
        /\ \A k \in 1..max : a[k] = g[from + k - 1]
    <2> HIDE DEF g, n, from
    <2>0. from \in 1..(Len(g) + 1) /\ n \in (from - 1)..Len(g)
      BY <1>0, <1>1, <1>2
    <2>1. Len(a) = n - from + 1 /\ a \in Seq(Nat)
          /\ \A k \in 1..(n - from + 1) : a[k] = g[from + k - 1]
      BY <1>1, <2>0, SubSeqFacts
    <2> QED BY <1>2, <2>1
  <1>6. /\ c \in Seq(Nat) /\ Len(c) = max
        /\ \A k \in 1..max : c[k] = f[x + k - 1]
    <2>1. /\ c \in Seq(Nat) /\ Len(c) = hi - x + 1
          /\ \A k \in 1..(hi - x + 1) : c[k] = f[x + k - 1]
      BY <1>3, SubSeqFacts
    <2> QED BY <1>3, <2>1
  <1>7. ASSUME NEW k \in 1..max
        PROVE  g[from + k - 1] = f[x + k - 1]
    <2>1. from + k - 1 \in 1..n /\ lo + (from + k - 1) - 1 = x + k - 1
      BY <1>0, <1>2, <1>3
    <2> HIDE DEF g, n, from
    <2>2. g[from + k - 1] = f[lo + (from + k - 1) - 1]
      BY <1>1, <2>1
    <2> QED BY <2>1, <2>2
  <1>8. a = c
    <2> HIDE DEF a, c
    <2>1. Len(a) = Len(c) /\ \A k \in 1..Len(a) : a[k] = c[k]
      BY <1>5, <1>6, <1>7
    <2> QED BY <1>5, <1>6, <2>1, SeqEqual
  <1> QED BY <1>4, <1>8 DEF Part

LEMMA LastOfAll ==
    ASSUME NEW f \in Seq(Nat), NEW max \in Nat \ {0}, Len(f) >= max, NEW x \in Nat, x = Len(f) - max + 1
    PROVE  LastOf(f, max) = Part(f, x, Len(f))
  <1>1. Part(f, 1, Len(f)) = f /\ Len(f) \in Nat
    BY DEF Part
  <1>2. 1 \in Nat /\ 1 =< 1 /\ 1 =< Len(f) /\ Len(f) =< Len(f) /\ Len(f) - 1 + 1 >= max
    BY <1>1
  <1>3. LastOf(Part(f, 1, Len(f)), max) = Part(f, x, Len(f))
    BY <1>2, LastOfSub
  <1> QED BY <1>1, <1>3

\* What get_history answers from a tail that is long enough is what is in the file.
LEMMA TailCounts ==
    ASSUME NEW f \in Seq(Nat), NEW t \in Seq(Nat), Suffix(t, f),
           NEW max \in Nat \ {0}, Len(t) >= max
    PROVE  LastOf(t, max) = LastOf(f, max)
  <1>0. Len(t) \in Nat /\ Len(f) \in Nat /\ Len(t) =< Len(f)
    BY DEF Suffix
  <1> DEFINE lo == Len(t) - max + 1
             x == Len(f) - max + 1
  <1>1. /\ lo \in Nat /\ x \in Nat /\ 1 =< lo /\ lo =< Len(t) + 1 /\ Len(t) =< Len(t)
        /\ x = Len(f) - Len(t) + lo /\ Len(f) = Len(f) - Len(t) + Len(t) /\ Len(f) >= max
        /\ lo = Len(t) - max + 1 /\ x = Len(f) - max + 1
    BY <1>0
  <1> HIDE DEF lo, x
  <1>2. LastOf(t, max) = Part(t, lo, Len(t)) /\ LastOf(f, max) = Part(f, x, Len(f))
    BY <1>0, <1>1, LastOfAll
  <1>3. SamePart(t, f, lo, Len(t), x, Len(f))
    BY <1>0, <1>1 DEF SamePart
  <1>4. Part(t, lo, Len(t)) = Part(f, x, Len(f))
    BY <1>3, SuffixSub
  <1> QED BY <1>2, <1>4

\* A window that ends at the end of a part and is cut to fewer messages than the
\* part has.
LEMMA TailEnds ==
    ASSUME NEW f \in Seq(Nat), NEW t \in Seq(Nat), Suffix(t, f),
           NEW max \in Nat \ {0}, NEW n, n >= max,
           NEW hi, SamePart(t, f, 1, n, Len(f) - Len(t) + 1, hi)
    PROVE  LastOf(Part(t, 1, n), max) = LastOf(Part(f, 1, hi), max)
  <1>0. /\ Len(t) \in Nat /\ Len(f) \in Nat /\ Len(t) =< Len(f)
        /\ n \in Nat /\ n =< Len(t) /\ hi \in Nat /\ hi = Len(f) - Len(t) + n
    BY DEF Suffix, SamePart
  <1> DEFINE lo == n - max + 1
             x == hi - max + 1
  <1>1. /\ lo \in Nat /\ x \in Nat /\ 1 =< lo /\ lo =< n + 1 /\ n =< Len(t)
        /\ x = Len(f) - Len(t) + lo
        /\ lo = n - max + 1 /\ x = hi - max + 1
        /\ 1 \in Nat /\ 1 =< 1 /\ 1 =< n /\ n =< Len(t) /\ n - 1 + 1 >= max
        /\ 1 =< hi /\ hi =< Len(f) /\ hi - 1 + 1 >= max
    BY <1>0
  <1> HIDE DEF lo, x
  <1>2. LastOf(Part(t, 1, n), max) = Part(t, lo, n)
    BY <1>0, <1>1, LastOfSub
  <1>3. LastOf(Part(f, 1, hi), max) = Part(f, x, hi)
    <2>1. /\ 1 \in Nat /\ hi \in Nat /\ 1 =< 1 /\ 1 =< hi /\ hi =< Len(f)
          /\ hi - 1 + 1 >= max /\ x \in Nat /\ x = hi - max + 1
      BY <1>0, <1>1
    <2> QED BY <2>1, LastOfSub
  <1>4. SamePart(t, f, lo, n, x, hi)
    BY <1>0, <1>1 DEF SamePart
  <1>5. Part(t, lo, n) = Part(f, x, hi)
    BY <1>4, SuffixSub
  <1> QED BY <1>2, <1>3, <1>5

\* What get_history and get_history_time_window answer from a tail that covers the
\* query is what they would read from the file.
LEMMA TailAnswers ==
    ASSUME NEW f \in Seq(Nat), Ascending(f), \A i \in 1..Len(f) : f[i] # 0,
           NEW t \in Seq(Nat), Suffix(t, f), NEW q, QueryOK(q), Covers(q, t)
    PROVE  FromTail(q, t) = FromFile(q, f)
  <1> DEFINE d == Len(f) - Len(t)
             b == TsBegin(q)
             e == q.end
  <1>0. /\ Len(t) \in Nat /\ Len(f) \in Nat /\ Len(t) =< Len(f)
        /\ \A i \in 1..Len(t) : t[i] = f[d + i] /\ t[i] \in Nat
        /\ \A i \in 1..Len(f) : f[i] \in Nat
    BY DEF Suffix
  <1>1. d \in Nat /\ d + Len(t) = Len(f)
    BY <1>0
  <1>2. /\ b \in Nat /\ e \in Nat /\ q.max \in Nat \ {0} /\ None \notin Nat
        /\ q.begin = None => b = 0
        /\ q.begin # None => b = q.begin
    BY HistoryAssumption DEF QueryOK, TsBegin
  <1> HIDE DEF d, b, e
  <1>3. CASE q.kind = "count"
    <2>1. Len(t) >= q.max
      BY <1>3 DEF Covers
    <2>2. FromTail(q, t) = LastOf(t, q.max) /\ FromFile(q, f) = LastOf(f, q.max)
      BY <1>2, <1>3 DEF FromTail, FromFile, SliceFromEnd
    <2> QED BY <1>2, <2>1, <2>2, TailCounts
  <1>4. CASE q.kind # "count"
    <2> DEFINE o == OldestIndex(q, t)
               n == NewestIndex(q, t)
               hi == d + n
    <2>1. o # 0 /\ n # 0 /\ (q.begin = None => n >= q.max)
      BY <1>4 DEF Covers
    <2>2. /\ o \in 1..Len(t) /\ b <= t[o] /\ t[o] <= e
          /\ \A i \in 1..(o - 1) : t[i] < b
          /\ q.begin # None => o > 1 \/ t[o] = q.begin
      BY <1>2, <2>1, OldestFacts DEF b, e
    <2>3. /\ n \in 1..Len(t) /\ b <= t[n] /\ t[n] <= e
          /\ \A i \in (n + 1)..Len(t) : t[i] > e
      BY <1>2, <2>1, NewestFacts DEF b, e
    <2>4. FromTail(q, t) = LastOf(SubSeq(t, o, n), q.max)
      BY <1>2, <1>4 DEF FromTail, SliceFromEnd
    <2> HIDE DEF o, n
    <2>11. o \in Nat /\ n \in Nat /\ t[o] \in Nat /\ t[n] \in Nat
          /\ t[o] = f[d + o] /\ t[n] = f[d + n]
      BY <1>0, <2>2, <2>3
    <2>5. o =< n
      <3> SUFFICES ASSUME n < o PROVE FALSE
        BY <2>11
      <3>1. o \in (n + 1)..Len(t)
        BY <1>0, <2>2, <2>3
      <3>2. t[o] > e
        BY <2>3, <3>1
      <3> QED BY <1>2, <2>2, <2>11, <3>2
    <2>6. b < e
      <3>1. CASE q.begin = None
        <4>1. d + o \in 1..Len(f)
          BY <1>0, <1>1, <2>2
        <4>2. t[o] # 0
          BY <2>11, <4>1
        <4> QED BY <1>2, <2>2, <2>11, <3>1, <4>2
      <3>2. CASE q.begin # None
        <4>1. q.kind = "window" /\ q.begin < q.end
          BY <1>4, <3>2 DEF QueryOK
        <4> QED BY <1>2, <3>2, <4>1 DEF e
      <3> QED BY <3>1, <3>2
    <2>12. hi = d + n /\ hi \in Nat /\ n = hi - d
      BY <1>1, <2>11
    <2> HIDE DEF hi
    <2>7. hi \in 1..Len(f) /\ f[hi] <= e /\ d + o \in 1..Len(f) /\ d + o =< hi /\ f[d + o] >= b
      <3>1. hi \in 1..Len(f) /\ d + o \in 1..Len(f) /\ d + o =< hi
        <4>1. o =< Len(t) /\ n =< Len(t) /\ 1 =< o
          BY <1>0, <2>2, <2>3
        <4>2. o \in Nat /\ n \in Nat
          BY <2>11
        <4>3. d + n =< Len(f) /\ 1 =< d + n /\ 1 =< d + o /\ d + o =< d + n
          BY <1>0, <1>1, <2>5, <4>1, <4>2
        <4>4. d + o \in Nat
          BY <1>1, <4>2
        <4> QED BY <1>0, <2>12, <4>3, <4>4
      <3>2. f[hi] = t[n] /\ f[d + o] = t[o]
        BY <2>11, <2>12
      <3> QED BY <1>2, <2>2, <2>3, <2>11, <3>1, <3>2
    <2>8. ASSUME NEW k \in (hi + 1)..Len(f)
          PROVE  f[k] > e
      <3>1. k - d \in (n + 1)..Len(t) /\ d + (k - d) = k /\ k - d \in 1..Len(t)
        BY <1>0, <1>1, <2>3, <2>12
      <3>2. t[k - d] > e /\ t[k - d] = f[d + (k - d)]
        BY <1>0, <2>3, <3>1
      <3> QED BY <3>1, <3>2
    <2>9. CASE q.begin # None
      <3> DEFINE lo == d + o
      <3>1. lo = d + o /\ lo \in 1..Len(f) /\ hi \in lo..Len(f) /\ f[lo] >= b /\ lo \in Nat
            /\ f[lo] \in Nat
        BY <1>0, <1>1, <2>7, <2>11, <2>12
      <3> HIDE DEF lo
      <3>2. ASSUME NEW k \in 1..(lo - 1)
            PROVE  f[k] < b
        <4>0. k \in 1..Len(f) /\ f[k] \in Nat
          BY <1>0, <3>1
        <4>1. CASE k > d
          <5>1. k - d \in 1..(o - 1) /\ k - d \in 1..Len(t) /\ d + (k - d) = k
            BY <1>0, <1>1, <2>2, <3>1, <4>0, <4>1
          <5>2. t[k - d] < b /\ t[k - d] = f[d + (k - d)]
            BY <1>0, <2>2, <5>1
          <5> QED BY <5>1, <5>2
        <4>2. CASE k =< d
          <5>1. 1 \in 1..Len(t) /\ d + 1 \in 1..Len(f) /\ k < d + 1
            BY <1>0, <1>1, <2>2, <4>0, <4>2
          <5>2. f[d + 1] = t[1] /\ t[1] \in Nat
            BY <1>0, <5>1
          <5>3. f[k] < f[d + 1]
            BY <4>0, <5>1, AscendingApart
          <5>4. t[1] =< b
            <6>1. CASE o > 1
              <7>1. 1 \in 1..(o - 1)
                BY <2>11, <6>1
              <7>2. t[1] < b
                BY <2>2, <7>1
              <7> QED BY <1>2, <5>2, <7>2
            <6>2. CASE o = 1
              BY <1>2, <2>2, <2>9, <6>2
            <6> QED BY <2>2, <6>1, <6>2
          <5> QED BY <1>2, <4>0, <5>2, <5>3, <5>4
        <4> QED BY <1>1, <4>0, <4>1, <4>2
      <3>3. FromFile(q, f) = LastOf(SubSeq(f, lo, hi), q.max)
        BY <1>2, <1>4, <2>6, <2>7, <2>8, <3>1, <3>2, FileWindow DEF b, e
      <3>4. SubSeq(t, o, n) = SubSeq(f, lo, hi)
        <4>1. 1 =< o /\ o =< n + 1 /\ n =< Len(t)
          BY <1>0, <2>2, <2>3, <2>5, <2>11
        <4>2. lo = Len(f) - Len(t) + o /\ hi = Len(f) - Len(t) + n
          BY <2>12, <3>1 DEF d
        <4>3. SamePart(t, f, o, n, lo, hi)
          BY <2>11, <2>12, <3>1, <4>1, <4>2 DEF SamePart
        <4>4. Part(t, o, n) = Part(f, lo, hi)
          BY <4>3, SuffixSub
        <4> QED BY <4>4 DEF Part
      <3> QED BY <2>4, <3>3, <3>4
    <2>10. CASE q.begin = None
      <3>1. b = 0 /\ n >= q.max
        BY <1>2, <2>1, <2>10 DEF n
      <3>2. o = 1
        <4> SUFFICES ASSUME o # 1 PROVE FALSE
          OBVIOUS
        <4>1. 1 \in 1..(o - 1) /\ 1 \in 1..Len(t)
          BY <1>0, <2>2
        <4>2. t[1] < 0 /\ t[1] \in Nat
          BY <1>0, <2>2, <3>1, <4>1
        <4> QED BY <4>2
      <3>3. FromFile(q, f) = LastOf(SubSeq(f, 1, hi), q.max)
        <4>1. 1 \in 1..Len(f) /\ hi \in 1..Len(f) /\ f[1] \in Nat
          BY <1>0, <2>7
        <4>2. (\A k \in 1..(1 - 1) : f[k] < b) /\ f[1] >= b
          BY <1>2, <3>1, <4>1
        <4> QED BY <1>2, <1>4, <2>6, <2>7, <2>8, <4>1, <4>2, FileWindow DEF b, e
      <3>4. LastOf(SubSeq(t, 1, n), q.max) = LastOf(SubSeq(f, 1, hi), q.max)
        <4>0. n =< Len(t)
          BY <1>0, <2>3
        <4>1. hi = Len(f) - Len(t) + n
          BY <2>12 DEF d
        <4>2. SamePart(t, f, 1, n, Len(f) - Len(t) + 1, hi)
          BY <1>0, <2>11, <2>12, <4>0, <4>1 DEF SamePart
        <4>3. LastOf(Part(t, 1, n), q.max) = LastOf(Part(f, 1, hi), q.max)
          BY <1>2, <3>1, <4>2, TailEnds
        <4> QED BY <4>3 DEF Part
      <3> QED BY <2>4, <3>2, <3>3, <3>4
    <2> QED BY <2>9, <2>10
  <1> QED BY <1>3, <1>4

-----------------------------------------------------------------------------
(* The invariant                                                            *)

Late == {"append_stat", "append_get", "append_set"}

ReqOK(r) ==
    /\ DOMAIN r = DOMAIN Idle
    /\ r.seen \in Seq(Nat) /\ r.messages \in Seq(Nat) /\ r.stat \in Nat
    /\ r.copy \in Entry \cup {None}
    /\ r.pc = "append" => r.messages # << >>
    /\ r.pc \in {"append"} \cup Late => r.op \in {"ask", "left"}

StateOK ==
    /\ file \in Seq(Nat) /\ stamp \in Nat /\ cache \in Entry \cup {None}
    /\ clock \in Nat /\ reloads \in Nat
    /\ DOMAIN proc = Procs /\ \A p \in Procs : ReqOK(proc[p])

\* What a request holds of the file, while no save overlaps it.
HoldsOK(r, c, f, st) ==
    /\ r.pc \in {"load", "set"} => f # << >> /\ r.stat = st
    /\ r.pc = "set" => r.seen = f
    /\ r.pc \in Late => /\ f # << >> /\ Suffix(r.messages, f)
                        /\ c # None => c.stamp # st
    /\ r.pc \in {"append_stat", "append_get"} /\ c # None => Suffix(c.messages \o r.messages, f)
    /\ r.pc \in {"append_get", "append_set"} => r.stat = st
    /\ r.pc = "append_set" /\ r.copy # None => Suffix(r.copy.messages \o r.messages, f)
    /\ r.pc = "delete" => f = << >>

\* The cache has the end of the file, unless a save or a clear is halfway.
Halfway == \E p \in Procs : proc[p].pc \in Late \cup {"delete"}
CacheOK(c, f, st) == c = None \/ (f # << >> /\ c.stamp = st /\ Suffix(c.messages, f))

CacheInv == /\ \A p \in Procs : HoldsOK(proc[p], cache, file, stamp)
            /\ Halfway \/ CacheOK(cache, file, stamp)

\* A question and its answer come later than what the file has.
Bounded(s, n) == \A i \in 1..Len(s) : s[i] =< n
Later(f, s) == \A i \in 1..Len(f), j \in 1..Len(s) : f[i] < s[j]
InOrder(r, f) == r.op = "ask" /\ r.pc \notin Late => Ascending(r.messages) /\ Later(f, r.messages)

Clocked == Bounded(file, clock) /\ \A p \in Procs : Bounded(proc[p].messages, clock)

Sends(r) == r.op \in {"ask", "clear"}
OneSends == /\ \A p \in Procs : proc[p].op # "left"
            /\ \A p, q \in Procs : Sends(proc[p]) /\ Sends(proc[q]) => p = q

ChronInv == /\ Clocked
            /\ reloads = 0 => /\ Ascending(file) /\ OneSends
                              /\ \A p \in Procs : InOrder(proc[p], file)

IInv == /\ StateOK /\ ChronInv
        /\ tainted \/ (CacheInv /\ ~Overlapping)

-----------------------------------------------------------------------------
(* Steps of a request                                                       *)

\* Only p moves, to the record r.
Moves(p, r) == /\ DOMAIN proc' = Procs /\ proc'[p] = r
               /\ \A q \in Procs \ {p} : proc'[q] = proc[q]

LEMMA IdleOK == ReqOK(Idle) /\ Idle.pc = "idle" /\ Idle.op = None /\ Idle.messages = << >>
  <1>1. << >> \in Seq(Nat)
    BY EmptySeq
  <1> QED BY <1>1 DEF ReqOK, Idle, Late

LEMMA MovesOK ==
    ASSUME StateOK, NEW p \in Procs, NEW r, proc' = [proc EXCEPT ![p] = r]
    PROVE  Moves(p, r)
  BY DEF StateOK, Moves

LEMMA StateStep ==
    ASSUME StateOK, NEW p \in Procs, NEW r, Moves(p, r), ReqOK(r),
           file' \in Seq(Nat), stamp' \in Nat, cache' \in Entry \cup {None},
           clock' \in Nat, reloads' \in Nat
    PROVE  StateOK'
  BY DEF StateOK, Moves

\* Steps after which p holds nothing of the file.
Plain == {"idle", "get", "stat", "restat", "store", "served", "append", "archive"}

LEMMA QuietCache ==
    ASSUME CacheInv, NEW p \in Procs, NEW r, Moves(p, r),
           UNCHANGED <<file, stamp, cache>>, r.pc \in Plain,
           proc[p].pc \notin Late \cup {"delete"}
    PROVE  CacheInv'
  <1>1. HoldsOK(r, cache, file, stamp)
    BY DEF HoldsOK, Plain, Late
  <1>2. \A q \in Procs : HoldsOK(proc'[q], cache', file', stamp')
    BY <1>1 DEF CacheInv, Moves
  <1>3. Halfway => Halfway'
    BY DEF Halfway, Moves
  <1> QED BY <1>2, <1>3 DEF CacheInv

\* Steps that send nothing: the request goes on, or it has no question.
LEMMA QuietChron ==
    ASSUME StateOK, ChronInv, NEW p \in Procs, NEW r, Moves(p, r), ReqOK(r), file' = file \/ file' = << >>,
           reloads' = reloads, clock' \in Nat, clock =< clock',
           Bounded(r.messages, clock),
           \/ r.op \notin {"ask", "clear", "left"}
           \/ /\ r.op = proc[p].op /\ r.messages = proc[p].messages
              /\ proc[p].pc \in Late => r.pc \in Late
    PROVE  ChronInv'
  <1>1. /\ clock \in Nat /\ file \in Seq(Nat) /\ Len(file) \in Nat
        /\ \A q \in Procs : proc[q].messages \in Seq(Nat)
    BY DEF StateOK, ReqOK
  <1>2. \A s \in Seq(Nat) : Bounded(s, clock) => Bounded(s, clock')
    BY <1>1 DEF Bounded
  <1>3. << >> \in Seq(Nat) /\ Len(<< >>) = 0
    BY EmptySeq
  <1>4. Bounded(file', clock')
    BY <1>1, <1>2, <1>3 DEF Bounded, ChronInv, Clocked
  <1>5. Bounded(r.messages, clock')
    BY <1>2 DEF ReqOK
  <1>6. Clocked'
    <2>1. ASSUME NEW q \in Procs
          PROVE  Bounded(proc'[q].messages, clock')
      <3>1. CASE q = p
        BY <1>5, <3>1 DEF Moves
      <3>2. CASE q # p
        BY <1>1, <1>2, <3>2 DEF Moves, ChronInv, Clocked
      <3> QED BY <3>1, <3>2
    <2> QED BY <1>4, <2>1 DEF Clocked
  <1>7. ASSUME reloads = 0
        PROVE  Ascending(file') /\ OneSends' /\ \A q \in Procs : InOrder(proc'[q], file')
    <2>0. Ascending(<< >>)
      BY <1>3 DEF Ascending
    <2>1. Ascending(file')
      BY <1>7, <2>0 DEF ChronInv
    <2>2. OneSends'
      <3>1. ASSUME NEW q \in Procs
            PROVE  /\ proc'[q].op # "left"
                   /\ Sends(proc'[q]) => Sends(proc[q])
        BY <1>7 DEF OneSends, ChronInv, Moves, Sends
      <3>2. \A x, y \in Procs : Sends(proc[x]) /\ Sends(proc[y]) => x = y
        BY <1>7 DEF OneSends, ChronInv
      <3> QED BY <3>1, <3>2 DEF OneSends
    <2>3. ASSUME NEW q \in Procs
          PROVE  InOrder(proc'[q], file')
      <3>1. InOrder(proc[q], file) /\ proc[q].op # "left"
        BY <1>7 DEF ChronInv, OneSends
      <3>2. InOrder(proc'[q], file)
        BY <3>1 DEF InOrder, Moves
      <3>3. CASE file' = file
        BY <3>2, <3>3
      <3>4. CASE file' = << >>
        BY <1>3, <3>2, <3>4 DEF InOrder, Later
      <3> QED BY <3>3, <3>4
    <2> QED BY <2>1, <2>2, <2>3
  <1> QED BY <1>6, <1>7 DEF ChronInv

\* What a step has to keep.
Kept == StateOK' /\ ChronInv' /\ (CacheInv /\ ~Overlapping => CacheInv')

\* The request goes on with the same question.
GoesOn(p, r) == /\ Moves(p, r) /\ ReqOK(r)
                /\ r.op = proc[p].op /\ r.messages = proc[p].messages

LEMMA GoesOnChron ==
    ASSUME StateOK, ChronInv, NEW p \in Procs, NEW r, GoesOn(p, r),
           proc[p].pc \in Late => r.pc \in Late,
           UNCHANGED <<file, clock, reloads>>
    PROVE  ChronInv'
  <1>1. Bounded(r.messages, clock)
    BY DEF ChronInv, Clocked, GoesOn
  <1>2. clock \in Nat /\ clock =< clock'
    BY DEF StateOK
  <1> QED BY <1>1, <1>2, QuietChron DEF GoesOn

LEMMA ReadKept ==
    ASSUME StateOK, ChronInv, NEW p \in Procs, NEW r, GoesOn(p, r), r.pc \in Plain,
           proc[p].pc \notin Late \cup {"delete"}, UNCHANGED <<file, stamp, cache, clock, reloads>>
    PROVE  Kept
  <1>1. StateOK'
    BY StateStep DEF StateOK, GoesOn
  <1> QED BY <1>1, GoesOnChron, QuietCache DEF Kept, GoesOn

\* A request that begins, or ends, without a question.
LEMMA NoQuestionKept ==
    ASSUME StateOK, ChronInv, NEW p \in Procs, NEW r, Moves(p, r), ReqOK(r),
           r.pc \in Plain, r.op \notin {"ask", "clear", "left"}, r.messages = << >>,
           proc[p].pc \notin Late \cup {"delete"}, UNCHANGED <<file, stamp, cache, clock, reloads>>
    PROVE  Kept
  <1>1. StateOK'
    BY StateStep DEF StateOK
  <1>2. Bounded(r.messages, clock)
    BY EmptySeq DEF Bounded
  <1>3. ChronInv'
    BY <1>2, QuietChron DEF StateOK
  <1> QED BY <1>1, <1>3, QuietCache DEF Kept

-----------------------------------------------------------------------------
(* Reading                                                                  *)

LEMMA ServeGoesOn ==
    ASSUME StateOK, NEW p \in Procs, NEW seen \in Seq(Nat), NEW result, Serve(p, seen, result)
    PROVE  \E r : GoesOn(p, r) /\ r.pc = "served"
  <1> DEFINE r == [proc[p] EXCEPT !.pc = "served", !.seen = seen, !.result = result,
                                  !.copy = None, !.stat = 0]
  <1>1. proc' = [proc EXCEPT ![p] = r]
    BY DEF Serve
  <1>2. ReqOK(proc[p])
    BY DEF StateOK
  <1>3. ReqOK(r) /\ r.pc = "served" /\ r.op = proc[p].op /\ r.messages = proc[p].messages
    BY <1>2 DEF ReqOK, Idle, Late
  <1> HIDE DEF r
  <1> QED BY <1>1, <1>3, MovesOK DEF GoesOn

LEMMA ServeTailGoesOn ==
    ASSUME StateOK, NEW p \in Procs, NEW seen \in Seq(Nat), NEW tail, ServeTail(p, seen, tail)
    PROVE  \E r : GoesOn(p, r) /\ r.pc \in {"served", "store"}
  <1>1. CASE Covers(proc[p].query, tail)
    <2>1. Serve(p, seen, FromTail(proc[p].query, tail))
      BY <1>1 DEF ServeTail
    <2> QED BY <2>1, ServeGoesOn
  <1>2. CASE ~Covers(proc[p].query, tail)
    <2> DEFINE r == [proc[p] EXCEPT !.pc = "store", !.seen = << >>, !.copy = None, !.stat = 0]
    <2>1. proc' = [proc EXCEPT ![p] = r]
      BY <1>2 DEF ServeTail
    <2>2. ReqOK(proc[p]) /\ << >> \in Seq(Nat)
      BY EmptySeq DEF StateOK
    <2>3. ReqOK(r) /\ r.pc = "store" /\ r.op = proc[p].op /\ r.messages = proc[p].messages
      BY <2>2 DEF ReqOK, Idle, Late
    <2> HIDE DEF r
    <2> QED BY <2>1, <2>3, MovesOK DEF GoesOn
  <1> QED BY <1>1, <1>2

LEMMA GetFromCacheOK ==
    ASSUME StateOK, ChronInv, NEW p \in Procs, GetFromCache(p)
    PROVE  Kept
  <1> DEFINE r == [proc[p] EXCEPT !.copy = cache,
                                  !.pc = IF cache = None THEN "restat" ELSE "stat"]
  <1>1. proc' = [proc EXCEPT ![p] = r]
    BY DEF GetFromCache
  <1>2. ReqOK(proc[p]) /\ cache \in Entry \cup {None}
    BY DEF StateOK
  <1>3. ReqOK(r) /\ r.pc \in {"restat", "stat"} /\ r.op = proc[p].op /\ r.messages = proc[p].messages
    BY <1>2 DEF ReqOK, Idle, Late
  <1> HIDE DEF r
  <1>4. GoesOn(p, r) /\ r.pc \in Plain
    BY <1>1, <1>3, MovesOK DEF GoesOn, Plain
  <1> QED BY <1>4, ReadKept DEF GetFromCache, At, Late, faults

LEMMA CompareStatOK ==
    ASSUME StateOK, ChronInv, NEW p \in Procs, CompareStat(p)
    PROVE  Kept
  <1>1. \E r : GoesOn(p, r) /\ r.pc \in Plain
    <2>1. CASE ServeTail(p, file, proc[p].copy.messages)
      BY <2>1, ServeTailGoesOn DEF StateOK, Plain
    <2>2. CASE proc' = [proc EXCEPT ![p].pc = "restat", ![p].copy = None]
      <3> DEFINE r == [proc[p] EXCEPT !.pc = "restat", !.copy = None]
      <3>1. proc' = [proc EXCEPT ![p] = r]
        BY <2>2
      <3>2. ReqOK(proc[p])
        BY DEF StateOK
      <3>3. ReqOK(r) /\ r.pc = "restat" /\ r.op = proc[p].op /\ r.messages = proc[p].messages
        BY <3>2 DEF ReqOK, Idle, Late
      <3> HIDE DEF r
      <3> QED BY <3>1, <3>3, MovesOK DEF GoesOn, Plain
    <2> QED BY <2>1, <2>2 DEF CompareStat
  <1> QED BY <1>1, ReadKept DEF CompareStat, At, Late, faults

LEMMA LoadMessagesOK ==
    ASSUME StateOK, ChronInv, NEW p \in Procs, LoadMessages(p)
    PROVE  Kept
  <1>1. \E r : GoesOn(p, r) /\ r.pc \in Plain
    BY ServeGoesOn DEF LoadMessages, StateOK, Plain
  <1> QED BY <1>1, ReadKept DEF LoadMessages, At, Late, faults

\* A refresh that begins and loads: it knows the file and its stamp.
LEMMA RefreshKept ==
    ASSUME StateOK, ChronInv, NEW p \in Procs, NEW r, GoesOn(p, r), r.pc \in {"load", "set"},
           proc[p].pc \in {"restat", "load"}, UNCHANGED <<file, stamp, cache, clock, reloads>>,
           CacheInv => HoldsOK(r, cache, file, stamp)
    PROVE  Kept
  <1>1. StateOK'
    BY StateStep DEF StateOK, GoesOn
  <1>2. ChronInv'
    BY GoesOnChron DEF Late
  <1>3. ASSUME CacheInv
        PROVE  CacheInv'
    <2>1. \A q \in Procs : HoldsOK(proc'[q], cache', file', stamp')
      BY <1>3 DEF CacheInv, GoesOn, Moves
    <2>2. Halfway => Halfway'
      BY DEF Halfway, GoesOn, Moves, Late
    <2> QED BY <1>3, <2>1, <2>2 DEF CacheInv
  <1> QED BY <1>1, <1>2, <1>3 DEF Kept

LEMMA FileStatOK ==
    ASSUME StateOK, ChronInv, NEW p \in Procs, FileStat(p)
    PROVE  Kept
  <1>1. ReqOK(proc[p]) /\ stamp \in Nat /\ proc[p].pc = "restat"
    BY DEF StateOK, FileStat, At
  <1>2. CASE file = << >>
    <2> DEFINE r == [proc[p] EXCEPT !.pc = "store"]
    <2>1. proc' = [proc EXCEPT ![p] = r]
      BY <1>2 DEF FileStat
    <2>2. ReqOK(r) /\ r.pc = "store" /\ r.op = proc[p].op /\ r.messages = proc[p].messages
      BY <1>1 DEF ReqOK, Idle, Late
    <2> HIDE DEF r
    <2>3. GoesOn(p, r) /\ r.pc \in Plain
      BY <2>1, <2>2, MovesOK DEF GoesOn, Plain
    <2> QED BY <1>1, <2>3, ReadKept DEF FileStat, Late, faults
  <1>3. CASE file # << >>
    <2> DEFINE r == [proc[p] EXCEPT !.pc = "load", !.stat = stamp]
    <2>1. proc' = [proc EXCEPT ![p] = r]
      BY <1>3 DEF FileStat
    <2>2. /\ ReqOK(r) /\ r.pc = "load" /\ r.stat = stamp
          /\ r.op = proc[p].op /\ r.messages = proc[p].messages
      BY <1>1 DEF ReqOK, Idle, Late
    <2> HIDE DEF r
    <2>3. GoesOn(p, r)
      BY <2>1, <2>2, MovesOK DEF GoesOn
    <2>4. HoldsOK(r, cache, file, stamp)
      BY <1>3, <2>2 DEF HoldsOK, Late
    <2> QED BY <1>1, <2>2, <2>3, <2>4, RefreshKept DEF FileStat, faults
  <1> QED BY <1>2, <1>3

LEMMA LoadTailOK ==
    ASSUME StateOK, ChronInv, NEW p \in Procs, LoadTail(p)
    PROVE  Kept
  <1> DEFINE r == [proc[p] EXCEPT !.pc = "set", !.seen = file]
  <1>1. ReqOK(proc[p]) /\ file \in Seq(Nat) /\ proc[p].pc = "load"
    BY DEF StateOK, LoadTail, At
  <1>2. proc' = [proc EXCEPT ![p] = r]
    BY DEF LoadTail
  <1>3. /\ ReqOK(r) /\ r.pc = "set" /\ r.stat = proc[p].stat /\ r.seen = file
        /\ r.op = proc[p].op /\ r.messages = proc[p].messages
    BY <1>1 DEF ReqOK, Idle, Late
  <1> HIDE DEF r
  <1>4. GoesOn(p, r)
    BY <1>2, <1>3, MovesOK DEF GoesOn
  <1>5. CacheInv => HoldsOK(r, cache, file, stamp)
    BY <1>1, <1>3 DEF CacheInv, HoldsOK, Late
  <1> QED BY <1>1, <1>3, <1>4, <1>5, RefreshKept DEF LoadTail, faults

LEMMA UpdateCacheOK ==
    ASSUME StateOK, ChronInv, NEW p \in Procs, UpdateCache(p)
    PROVE  Kept
  <1> DEFINE tail == LastOf(proc[p].seen, TailLen)
             c == [stamp |-> proc[p].stat, messages |-> tail]
  <1>1. ReqOK(proc[p]) /\ proc[p].pc = "set" /\ cache' = c
        /\ ServeTail(p, proc[p].seen, tail) /\ UNCHANGED <<file, stamp, clock, reloads>>
    BY DEF StateOK, UpdateCache, At, faults
  <1>2. PICK r : GoesOn(p, r) /\ r.pc \in {"served", "store"}
    BY <1>1, ServeTailGoesOn DEF ReqOK
  <1>3. tail \in Seq(Nat) /\ Suffix(tail, proc[p].seen)
    BY <1>1, LastOfSuffix, HistoryAssumption DEF ReqOK
  <1>4. c \in Entry /\ c.stamp = proc[p].stat /\ c.messages = tail
    BY <1>1, <1>3 DEF Entry, ReqOK
  <1> HIDE DEF c, tail
  <1>5. StateOK'
    BY <1>1, <1>2, <1>4, StateStep DEF StateOK, GoesOn
  <1>6. ChronInv'
    BY <1>1, <1>2, GoesOnChron DEF Late
  <1>7. ASSUME CacheInv, ~Overlapping
        PROVE  CacheInv'
    <2>1. CacheOK(c, file, stamp)
      BY <1>1, <1>3, <1>4, <1>7 DEF CacheInv, HoldsOK, CacheOK
    <2>2. \A q \in Procs \ {p} : proc[q].pc \notin Saving
      BY <1>1, <1>7 DEF Overlapping, Saving, Refreshing
    <2>3. HoldsOK(r, c, file, stamp)
      BY <1>2 DEF HoldsOK, Late
    <2>4. ASSUME NEW q \in Procs \ {p}
          PROVE  HoldsOK(proc[q], c, file, stamp)
      BY <1>7, <2>2 DEF CacheInv, HoldsOK, Saving, Late
    <2>5. \A q \in Procs : HoldsOK(proc'[q], cache', file', stamp')
      BY <1>1, <1>2, <2>3, <2>4 DEF GoesOn, Moves
    <2> QED BY <1>1, <2>1, <2>5 DEF CacheInv
  <1> QED BY <1>5, <1>6, <1>7 DEF Kept

LEMMA ReturnOK ==
    ASSUME StateOK, ChronInv, NEW p \in Procs, Return(p)
    PROVE  Kept
  <1>1. Moves(p, Idle)
    BY MovesOK DEF Return, End
  <1>2. None \notin {"ask", "clear", "left"}
    BY HistoryAssumption
  <1> QED BY <1>1, <1>2, IdleOK, NoQuestionKept DEF Return, At, Plain, Late, faults

-----------------------------------------------------------------------------
(* Questions                                                                *)

\* A request that begins; with what it sends, if it sends anything.
LEMMA BeginMoves ==
    ASSUME StateOK, NEW p \in Procs, NEW op, NEW q, NEW m \in Seq(Nat), Begin(p, op, q, m)
    PROVE  \E r : /\ Moves(p, r) /\ ReqOK(r) /\ r.pc \in {"store", "get"}
                  /\ r.op = op /\ r.messages = m
  <1> DEFINE r == [Idle EXCEPT !.pc = IF q.kind = "count" /\ q.max > TailLen THEN "store" ELSE "get",
                               !.op = op, !.query = q, !.messages = m]
  <1>1. proc' = [proc EXCEPT ![p] = r]
    BY DEF Begin
  <1>2. << >> \in Seq(Nat)
    BY EmptySeq
  <1>3. ReqOK(r) /\ r.pc \in {"store", "get"} /\ r.op = op /\ r.messages = m
    BY <1>2 DEF ReqOK, Idle, Late
  <1> HIDE DEF r
  <1> QED BY <1>1, <1>3, MovesOK

\* Only one request sends, and what it sends is later than the file.
LEMMA SendChron ==
    ASSUME StateOK, ChronInv, CanSend, NEW p \in Procs, NEW r, Moves(p, r), ReqOK(r),
           r.op # "left", r.op = "ask" => Ascending(r.messages) /\ Later(file, r.messages),
           Bounded(r.messages, clock'), clock' \in Nat, clock =< clock',
           UNCHANGED <<file, reloads>>
    PROVE  ChronInv'
  <1>1. clock \in Nat /\ file \in Seq(Nat) /\ \A q \in Procs : proc[q].messages \in Seq(Nat)
    BY DEF StateOK, ReqOK
  <1>2. \A s \in Seq(Nat) : Bounded(s, clock) => Bounded(s, clock')
    BY <1>1 DEF Bounded
  <1>3. Clocked'
    <2>1. ASSUME NEW q \in Procs
          PROVE  Bounded(proc'[q].messages, clock')
      BY <1>1, <1>2 DEF Moves, ChronInv, Clocked
    <2>2. Bounded(file', clock')
      BY <1>1, <1>2 DEF ChronInv, Clocked
    <2> QED BY <2>1, <2>2 DEF Clocked
  <1>4. ASSUME reloads = 0
        PROVE  Ascending(file') /\ OneSends' /\ \A q \in Procs : InOrder(proc'[q], file')
    <2>1. Ascending(file')
      BY <1>4 DEF ChronInv
    <2>2. \A q \in Procs \ {p} : ~Sends(proc'[q])
      BY DEF CanSend, Sends, Moves
    <2>3. \A q \in Procs : proc'[q].op # "left"
      BY <1>4 DEF ChronInv, OneSends, Moves
    <2>4. OneSends'
      BY <2>2, <2>3 DEF OneSends
    <2>5. \A q \in Procs : InOrder(proc'[q], file')
      BY <2>2 DEF InOrder, Moves, Sends
    <2> QED BY <2>1, <2>4, <2>5
  <1> QED BY <1>3, <1>4 DEF ChronInv

LEMMA AskOK ==
    ASSUME StateOK, ChronInv, NEW p \in Procs, Ask(p)
    PROVE  Kept
  <1>1. /\ clock \in Nat /\ clock' = clock + 1 /\ proc[p].pc = "idle" /\ CanSend
        /\ file \in Seq(Nat) /\ UNCHANGED <<file, stamp, cache, reloads>>
    BY DEF StateOK, Ask, At, faults
  <1> DEFINE m == <<clock'>>
  <1>2. m \in Seq(Nat) /\ Len(m) = 1 /\ m[1] = clock'
    BY <1>1
  <1>3. PICK q : Begin(p, "ask", q, m)
    BY DEF Ask
  <1>4. Ascending(m) /\ Bounded(m, clock') /\ Later(file, m)
    <2>1. Ascending(m)
      BY <1>2 DEF Ascending
    <2>2. Bounded(m, clock')
      BY <1>1, <1>2 DEF Bounded
    <2>3. ASSUME NEW i \in 1..Len(file)
          PROVE  file[i] < clock'
      <3>1. file[i] \in Nat /\ file[i] =< clock
        BY <1>1 DEF ChronInv, Clocked, Bounded
      <3> QED BY <1>1, <3>1
    <2>4. Later(file, m)
      BY <1>2, <2>3 DEF Later
    <2> QED BY <2>1, <2>2, <2>4
  <1> HIDE DEF m
  <1>5. PICK r : /\ Moves(p, r) /\ ReqOK(r) /\ r.pc \in {"store", "get"}
                 /\ r.op = "ask" /\ r.messages = m
    BY <1>2, <1>3, BeginMoves
  <1>6. clock' \in Nat /\ clock =< clock'
    BY <1>1
  <1>7. StateOK'
    BY <1>1, <1>5, <1>6, StateStep DEF StateOK
  <1>8. ChronInv'
    BY <1>1, <1>4, <1>5, <1>6, SendChron
  <1>9. CacheInv => CacheInv'
    BY <1>1, <1>5, QuietCache DEF Plain, Late
  <1> QED BY <1>7, <1>8, <1>9 DEF Kept

LEMMA ShowOK ==
    ASSUME StateOK, ChronInv, NEW p \in Procs, Show(p)
    PROVE  Kept
  <1> DEFINE m == << >>
  <1>1. \E q : Begin(p, "show", q, m)
    BY DEF Show
  <1>2. m \in Seq(Nat)
    BY EmptySeq
  <1> HIDE DEF m
  <1>3. \E r : /\ Moves(p, r) /\ ReqOK(r) /\ r.pc \in {"store", "get"}
               /\ r.op = "show" /\ r.messages = m
    BY <1>1, <1>2, BeginMoves
  <1> USE DEF m
  <1> QED BY <1>3, HistoryAssumption, NoQuestionKept DEF Show, At, Plain, Late, faults

LEMMA ClearOK ==
    ASSUME StateOK, ChronInv, NEW p \in Procs, Clear(p)
    PROVE  Kept
  <1> DEFINE r == [Idle EXCEPT !.pc = "archive", !.op = "clear"]
  <1>1. /\ proc' = [proc EXCEPT ![p] = r] /\ proc[p].pc = "idle" /\ CanSend
        /\ UNCHANGED <<file, stamp, cache, clock, reloads>>
    BY DEF Clear, At, faults
  <1>2. << >> \in Seq(Nat) /\ Len(<< >>) = 0
    BY EmptySeq
  <1>3. ReqOK(r) /\ r.pc = "archive" /\ r.op = "clear" /\ r.messages = << >>
    BY <1>2 DEF ReqOK, Idle, Late
  <1> HIDE DEF r
  <1>4. Moves(p, r)
    BY <1>1, MovesOK
  <1>5. Bounded(r.messages, clock') /\ clock' \in Nat /\ clock =< clock'
    BY <1>1, <1>2, <1>3 DEF Bounded, StateOK
  <1>6. StateOK'
    BY <1>1, <1>3, <1>4, StateStep DEF StateOK
  <1>7. ChronInv'
    BY <1>1, <1>3, <1>4, <1>5, SendChron
  <1>8. CacheInv => CacheInv'
    BY <1>1, <1>3, <1>4, QuietCache DEF Plain, Late
  <1> QED BY <1>6, <1>7, <1>8 DEF Kept

-----------------------------------------------------------------------------
(* Writing                                                                  *)

LEMMA AnswerOK ==
    ASSUME StateOK, ChronInv, NEW p \in Procs, Answer(p)
    PROVE  Kept
  <1> DEFINE s == proc[p].messages
             m == Append(s, clock')
             r == [Idle EXCEPT !.pc = "append", !.op = proc[p].op, !.messages = m]
  <1>1. /\ proc' = [proc EXCEPT ![p] = r] /\ proc[p].pc = "served"
        /\ proc[p].op \in {"ask", "left"} /\ clock \in Nat /\ clock' = clock + 1
        /\ s \in Seq(Nat) /\ file \in Seq(Nat) /\ UNCHANGED <<file, stamp, cache, reloads>>
    BY DEF Answer, At, faults, StateOK, ReqOK
  <1>2. /\ m \in Seq(Nat) /\ m # << >> /\ Len(m) = Len(s) + 1 /\ m[Len(s) + 1] = clock'
        /\ \A i \in 1..Len(s) : m[i] = s[i]
    <2>1. clock' \in Nat /\ s \in Seq(Nat)
      BY <1>1
    <2> HIDE DEF s
    <2> QED BY <2>1, AppendProperties
  <1>3. << >> \in Seq(Nat)
    BY EmptySeq
  <1>4. ReqOK(r) /\ r.pc = "append" /\ r.op = proc[p].op /\ r.messages = m
    BY <1>1, <1>2, <1>3 DEF ReqOK, Idle, Late
  <1>5. Bounded(s, clock) /\ Bounded(file, clock)
    BY DEF ChronInv, Clocked
  <1> HIDE DEF r, m, s
  <1>6. Moves(p, r)
    BY <1>1, MovesOK
  <1>7. clock' \in Nat /\ clock =< clock' /\ Len(s) \in Nat
    BY <1>1
  <1>8. ASSUME NEW i \in 1..Len(m)
        PROVE  m[i] =< clock' /\ (i =< Len(s) => i \in 1..Len(s) /\ m[i] =< clock)
    <2>1. CASE i =< Len(s)
      <3>1. i \in 1..Len(s) /\ m[i] = s[i] /\ s[i] \in Nat /\ s[i] =< clock
        BY <1>1, <1>2, <1>5, <1>7, <2>1 DEF Bounded
      <3> QED BY <1>1, <3>1
    <2>2. CASE i > Len(s)
      BY <1>1, <1>2, <1>7, <2>2
    <2> QED BY <1>2, <1>7, <2>1, <2>2
  <1>9. StateOK'
    BY <1>1, <1>4, <1>6, <1>7, StateStep DEF StateOK
  <1>10. Clocked'
    <2>1. \A x \in Seq(Nat) : Bounded(x, clock) => Bounded(x, clock')
      BY <1>1 DEF Bounded
    <2>2. Bounded(m, clock')
      BY <1>8 DEF Bounded
    <2>3. \A q \in Procs : Bounded(proc'[q].messages, clock')
      BY <1>4, <1>6, <2>1, <2>2 DEF Moves, ChronInv, Clocked, StateOK, ReqOK
    <2> QED BY <1>1, <1>5, <2>1, <2>3 DEF Clocked
  <1>11. ASSUME reloads = 0
         PROVE  Ascending(file') /\ OneSends' /\ \A q \in Procs : InOrder(proc'[q], file')
    <2>1. Ascending(file) /\ OneSends /\ \A q \in Procs : InOrder(proc[q], file)
      BY <1>11 DEF ChronInv
    <2>2. OneSends'
      BY <1>4, <1>6, <2>1 DEF OneSends, Moves, Sends
    <2>3. proc[p].op = "ask" /\ Ascending(s) /\ Later(file, s)
      BY <1>1, <2>1 DEF OneSends, InOrder, Late, s
    <2>4. ASSUME NEW i \in 2..Len(m)
          PROVE  m[i - 1] < m[i]
      <3>1. CASE i =< Len(s)
        <4>1. i \in 2..Len(s) /\ i \in 1..Len(s) /\ i - 1 \in 1..Len(s)
          BY <1>7, <3>1
        <4>2. m[i] = s[i] /\ m[i - 1] = s[i - 1]
          BY <1>2, <4>1
        <4> QED BY <2>3, <4>1, <4>2 DEF Ascending
      <3>2. CASE i > Len(s)
        <4>1. m[i - 1] \in Nat /\ m[i - 1] =< clock
          BY <1>2, <1>7, <1>8, <3>2
        <4> QED BY <1>1, <1>2, <1>7, <3>2, <4>1
      <3> QED BY <1>2, <1>7, <3>1, <3>2
    <2>5. ASSUME NEW i \in 1..Len(file), NEW j \in 1..Len(m)
          PROVE  file[i] < m[j]
      <3>1. CASE j =< Len(s)
        BY <1>2, <1>7, <2>3, <3>1 DEF Later
      <3>2. CASE j > Len(s)
        <4>1. file[i] \in Nat /\ file[i] =< clock
          BY <1>1, <1>5 DEF Bounded
        <4> QED BY <1>1, <1>2, <1>7, <3>2, <4>1
      <3> QED BY <1>2, <1>7, <3>1, <3>2
    <2>6. Ascending(m) /\ Later(file, m)
      BY <2>4, <2>5 DEF Ascending, Later
    <2> QED BY <1>1, <1>4, <1>6, <2>1, <2>2, <2>6 DEF InOrder, Moves
  <1>12. CacheInv => CacheInv'
    BY <1>1, <1>4, <1>6, QuietCache DEF Plain, Late
  <1> QED BY <1>1, <1>9, <1>10, <1>11, <1>12 DEF Kept, ChronInv

\* While one request saves and nothing overlaps, no other holds anything of the file.
LEMMA Alone ==
    ASSUME ~Overlapping, NEW p \in Procs, proc[p].pc \in Saving
    PROVE  \A q \in Procs \ {p} : proc[q].pc \notin Saving \cup Refreshing
  BY DEF Overlapping

LEMMA AloneHolds ==
    ASSUME ~Overlapping, NEW p \in Procs, proc[p].pc \in Saving, NEW r, Moves(p, r),
           HoldsOK(r, cache', file', stamp')
    PROVE  \A q \in Procs : HoldsOK(proc'[q], cache', file', stamp')
  <1>1. ASSUME NEW q \in Procs \ {p}
        PROVE  HoldsOK(proc'[q], cache', file', stamp')
    BY <1>1, Alone DEF Moves, HoldsOK, Saving, Refreshing, Late
  <1> QED BY <1>1 DEF Moves

\* What is appended to a file is later than all of it.
LEMMA AscendingConcat ==
    ASSUME NEW f \in Seq(Nat), NEW m \in Seq(Nat), Ascending(f), Ascending(m), Later(f, m)
    PROVE  Ascending(f \o m)
  <1>1. /\ Len(f) \in Nat /\ Len(m) \in Nat /\ Len(f \o m) = Len(f) + Len(m)
        /\ \A i \in 1..(Len(f) + Len(m)) :
              (f \o m)[i] = IF i =< Len(f) THEN f[i] ELSE m[i - Len(f)]
    BY ConcatProperties
  <1>2. ASSUME NEW i \in 2..Len(f \o m)
        PROVE  (f \o m)[i - 1] < (f \o m)[i]
    <2>1. i \in 1..(Len(f) + Len(m)) /\ i - 1 \in 1..(Len(f) + Len(m))
      BY <1>1
    <2>2. CASE i =< Len(f)
      <3>1. i \in 2..Len(f) /\ i - 1 =< Len(f)
        BY <1>1, <2>1, <2>2
      <3> QED BY <1>1, <2>1, <2>2, <3>1 DEF Ascending
    <2>3. CASE i - 1 > Len(f)
      <3>1. i - Len(f) \in 2..Len(m) /\ ~(i =< Len(f)) /\ (i - 1) - Len(f) = (i - Len(f)) - 1
        BY <1>1, <2>1, <2>3
      <3>2. m[(i - Len(f)) - 1] < m[i - Len(f)]
        BY <3>1 DEF Ascending
      <3> QED BY <1>1, <2>1, <2>3, <3>1, <3>2
    <2>4. CASE i - 1 = Len(f)
      <3>1. i - 1 \in 1..Len(f) /\ i - Len(f) \in 1..Len(m) /\ ~(i =< Len(f))
        BY <1>1, <2>1, <2>4
      <3>2. f[i - 1] < m[i - Len(f)]
        BY <3>1 DEF Later
      <3> QED BY <1>1, <2>1, <2>4, <3>1, <3>2
    <2> QED BY <1>1, <2>1, <2>2, <2>3, <2>4
  <1> QED BY <1>2 DEF Ascending

LEMMA BoundedConcat ==
    ASSUME NEW f \in Seq(Nat), NEW m \in Seq(Nat), NEW n \in Nat, Bounded(f, n), Bounded(m, n)
    PROVE  Bounded(f \o m, n)
  <1>1. /\ Len(f) \in Nat /\ Len(m) \in Nat /\ Len(f \o m) = Len(f) + Len(m)
        /\ \A i \in 1..(Len(f) + Len(m)) :
              (f \o m)[i] = IF i =< Len(f) THEN f[i] ELSE m[i - Len(f)]
    BY ConcatProperties
  <1>2. ASSUME NEW i \in 1..(Len(f) + Len(m)), ~(i =< Len(f))
        PROVE  i - Len(f) \in 1..Len(m)
    BY <1>1, <1>2
  <1>3. ASSUME NEW i \in 1..(Len(f) + Len(m)), i =< Len(f)
        PROVE  i \in 1..Len(f)
    BY <1>1, <1>3
  <1> QED BY <1>1, <1>2, <1>3 DEF Bounded

LEMMA AppendToFileOK ==
    ASSUME StateOK, ChronInv, NEW p \in Procs, AppendToFile(p)
    PROVE  Kept
  <1> DEFINE m == proc[p].messages
             r == [proc[p] EXCEPT !.pc = "append_stat"]
  <1>1. /\ proc' = [proc EXCEPT ![p] = r] /\ proc[p].pc = "append" /\ ReqOK(proc[p])
        /\ file' = file \o m /\ stamp' = stamp + 1 /\ UNCHANGED <<cache, clock, reloads>>
        /\ file \in Seq(Nat) /\ stamp \in Nat /\ clock \in Nat
    BY DEF AppendToFile, At, faults, StateOK
  <1>2. m \in Seq(Nat) /\ m # << >> /\ proc[p].op \in {"ask", "left"}
    BY <1>1 DEF ReqOK
  <1>3. ReqOK(r) /\ r.pc = "append_stat" /\ r.op = proc[p].op /\ r.messages = m
    BY <1>1, <1>2 DEF ReqOK, Idle, Late
  <1>4. Bounded(m, clock) /\ Bounded(file, clock)
    BY DEF ChronInv, Clocked
  <1>5. m = proc[p].messages
    OBVIOUS
  <1> HIDE DEF r, m
  <1>6. Moves(p, r)
    BY <1>1, MovesOK
  <1>7. file' \in Seq(Nat) /\ file' # << >>
    BY <1>1, <1>2, ConcatProperties, ConcatEmptySeq
  <1>8. StateOK'
    BY <1>1, <1>3, <1>6, <1>7, StateStep DEF StateOK
  <1>9. ChronInv'
    <2>1. Clocked'
      <3>1. Bounded(file', clock')
        BY <1>1, <1>2, <1>4, BoundedConcat
      <3> QED BY <1>1, <1>3, <1>4, <1>6, <3>1 DEF Clocked, ChronInv, Moves
    <2>2. ASSUME reloads = 0
          PROVE  Ascending(file') /\ OneSends' /\ \A q \in Procs : InOrder(proc'[q], file')
      <3>1. Ascending(file) /\ OneSends /\ proc[p].op = "ask" /\ Ascending(m) /\ Later(file, m)
        BY <1>1, <1>2, <1>5, <2>2 DEF ChronInv, OneSends, InOrder, Late
      <3>2. Ascending(file')
        BY <1>1, <1>2, <3>1, AscendingConcat
      <3>3. OneSends'
        BY <1>3, <1>6, <3>1 DEF OneSends, Moves, Sends
      <3>4. \A q \in Procs \ {p} : proc[q].op # "ask"
        BY <3>1 DEF OneSends, Sends
      <3>5. \A q \in Procs : InOrder(proc'[q], file')
        BY <1>3, <1>6, <3>4 DEF InOrder, Moves, Late
      <3> QED BY <3>2, <3>3, <3>5
    <2> QED BY <1>1, <2>1, <2>2 DEF ChronInv
  <1>10. ASSUME CacheInv, ~Overlapping
         PROVE  CacheInv'
    <2>1. proc[p].pc \in Saving
      BY <1>1 DEF Saving
    <2>2. \A q \in Procs \ {p} : proc[q].pc \notin Saving
      BY <1>10, <2>1, Alone
    <2>3. ~Halfway
      BY <1>1, <2>2 DEF Halfway, Late, Saving
    <2>4. CacheOK(cache, file, stamp)
      BY <1>10, <2>3 DEF CacheInv
    <2>5. Suffix(m, file')
      <3>1. Suffix(file, file)
        BY <1>1 DEF Suffix
      <3> QED BY <1>1, <1>2, <3>1, SuffixExtended
    <2>6. ASSUME cache # None
          PROVE  cache.stamp # stamp' /\ Suffix(cache.messages \o m, file')
      <3>1. cache.messages \in Seq(Nat) /\ cache.stamp = stamp /\ Suffix(cache.messages, file)
        BY <2>4, <2>6 DEF CacheOK, StateOK, Entry
      <3> QED BY <1>1, <1>2, <3>1, SuffixExtended
    <2>7. HoldsOK(r, cache', file', stamp')
      BY <1>1, <1>3, <1>7, <2>5, <2>6 DEF HoldsOK, Late
    <2>8. Halfway'
      BY <1>3, <1>6 DEF Halfway, Moves, Late
    <2> QED BY <1>6, <1>10, <2>1, <2>7, <2>8, AloneHolds DEF CacheInv
  <1> QED BY <1>8, <1>9, <1>10 DEF Kept

\* The save goes on, or is over.
LEMMA StatAppendedOK ==
    ASSUME StateOK, ChronInv, NEW p \in Procs, StatAppended(p)
    PROVE  Kept
  <1>1. /\ proc[p].pc = "append_stat" /\ ReqOK(proc[p]) /\ stamp \in Nat /\ clock \in Nat
        /\ UNCHANGED <<file, stamp, clock, reloads>>
    BY DEF StatAppended, At, faults, StateOK
  <1>2. CASE file = << >>
    <2>1. cache' = None /\ Moves(p, Idle)
      BY <1>2, MovesOK DEF StatAppended, End
    <2>2. StateOK'
      BY <1>1, <2>1, IdleOK, StateStep DEF StateOK
    <2>3. ChronInv'
      <3>1. Bounded(Idle.messages, clock)
        BY IdleOK, EmptySeq DEF Bounded
      <3> QED BY <1>1, <2>1, <3>1, IdleOK, HistoryAssumption, QuietChron
    <2>4. ~CacheInv
      BY <1>1, <1>2 DEF CacheInv, HoldsOK, Late
    <2> QED BY <2>2, <2>3, <2>4 DEF Kept
  <1>3. CASE file # << >>
    <2> DEFINE r == [proc[p] EXCEPT !.pc = "append_get", !.stat = stamp]
    <2>1. proc' = [proc EXCEPT ![p] = r] /\ cache' = cache
      BY <1>3 DEF StatAppended
    <2>2. /\ ReqOK(r) /\ r.pc = "append_get" /\ r.stat = stamp
          /\ r.op = proc[p].op /\ r.messages = proc[p].messages
      BY <1>1 DEF ReqOK, Idle, Late
    <2> HIDE DEF r
    <2>3. GoesOn(p, r) /\ Moves(p, r)
      BY <2>1, <2>2, MovesOK DEF GoesOn
    <2>4. StateOK'
      BY <1>1, <2>1, <2>2, <2>3, StateStep DEF StateOK
    <2>5. ChronInv'
      BY <1>1, <2>2, <2>3, GoesOnChron DEF Late
    <2>6. ASSUME CacheInv, ~Overlapping
          PROVE  CacheInv'
      <3>1. HoldsOK(proc[p], cache, file, stamp) /\ proc[p].pc \in Saving
        BY <1>1, <2>6 DEF CacheInv, Saving
      <3>2. HoldsOK(r, cache', file', stamp')
        BY <1>1, <2>1, <2>2, <3>1 DEF HoldsOK, Late
      <3>3. Halfway'
        BY <2>2, <2>3 DEF Halfway, Moves, Late
      <3> QED BY <2>3, <2>6, <3>1, <3>2, <3>3, AloneHolds DEF CacheInv
    <2> QED BY <2>4, <2>5, <2>6 DEF Kept
  <1> QED BY <1>2, <1>3

LEMMA GetCachedTailOK ==
    ASSUME StateOK, ChronInv, NEW p \in Procs, GetCachedTail(p)
    PROVE  Kept
  <1> DEFINE r == [proc[p] EXCEPT !.pc = "append_set", !.copy = cache]
  <1>1. /\ proc[p].pc = "append_get" /\ ReqOK(proc[p]) /\ cache \in Entry \cup {None}
        /\ proc' = [proc EXCEPT ![p] = r] /\ UNCHANGED <<file, stamp, cache, clock, reloads>>
    BY DEF GetCachedTail, At, faults, StateOK
  <1>2. /\ ReqOK(r) /\ r.pc = "append_set" /\ r.copy = cache /\ r.stat = proc[p].stat
        /\ r.op = proc[p].op /\ r.messages = proc[p].messages
    BY <1>1 DEF ReqOK, Idle, Late
  <1> HIDE DEF r
  <1>3. GoesOn(p, r) /\ Moves(p, r)
    BY <1>1, <1>2, MovesOK DEF GoesOn
  <1>4. StateOK'
    BY <1>1, <1>2, <1>3, StateStep DEF StateOK
  <1>5. ChronInv'
    BY <1>1, <1>2, <1>3, GoesOnChron DEF Late
  <1>6. ASSUME CacheInv, ~Overlapping
        PROVE  CacheInv'
    <2>1. HoldsOK(proc[p], cache, file, stamp) /\ proc[p].pc \in Saving
      BY <1>1, <1>6 DEF CacheInv, Saving
    <2>2. HoldsOK(r, cache', file', stamp')
      BY <1>1, <1>2, <2>1 DEF HoldsOK, Late
    <2>3. Halfway'
      BY <1>2, <1>3 DEF Halfway, Moves, Late
    <2> QED BY <1>3, <1>6, <2>1, <2>2, <2>3, AloneHolds DEF CacheInv
  <1> QED BY <1>4, <1>5, <1>6 DEF Kept

\* The request is over, and with it what it held.
LEMMA EndsChron ==
    ASSUME StateOK, ChronInv, NEW p \in Procs, Moves(p, Idle),
           file' = file \/ file' = << >>, UNCHANGED <<clock, reloads>>
    PROVE  ChronInv'
  <1>1. Bounded(Idle.messages, clock)
    BY IdleOK, EmptySeq DEF Bounded
  <1>2. clock' \in Nat /\ clock =< clock'
    BY DEF StateOK
  <1> QED BY <1>1, <1>2, IdleOK, HistoryAssumption, QuietChron

LEMMA IdleHolds ==
    ASSUME NEW c, NEW f, NEW st
    PROVE  HoldsOK(Idle, c, f, st)
  BY IdleOK DEF HoldsOK, Late

LEMMA AppendToCacheOK ==
    ASSUME StateOK, ChronInv, NEW p \in Procs, AppendToCache(p)
    PROVE  Kept
  <1> DEFINE copy == proc[p].copy
             m == proc[p].messages
             cached_tail == IF copy = None THEN << >> ELSE copy.messages
             c == [stamp |-> proc[p].stat, messages |-> LastOf(cached_tail \o m, TailLen)]
  <1>1. /\ proc[p].pc = "append_set" /\ ReqOK(proc[p]) /\ cache' = c
        /\ UNCHANGED <<file, stamp, clock, reloads>>
    BY DEF AppendToCache, At, faults, StateOK
  <1>2. Moves(p, Idle)
    BY MovesOK DEF AppendToCache, End
  <1>3. m \in Seq(Nat) /\ copy \in Entry \cup {None} /\ proc[p].stat \in Nat
    BY <1>1 DEF ReqOK
  <1>4. cached_tail \in Seq(Nat)
    BY <1>3, EmptySeq DEF Entry
  <1>5. cached_tail \o m \in Seq(Nat) /\ TailLen \in Nat
    BY <1>3, <1>4, ConcatProperties, HistoryAssumption
  <1>6. c.stamp = proc[p].stat /\ c.messages \in Seq(Nat) /\ Suffix(c.messages, cached_tail \o m)
    BY <1>5, LastOfSuffix
  <1>7. c \in Entry
    BY <1>3, <1>6 DEF Entry
  <1>8. copy = None => cached_tail \o m = m
    BY <1>3, ConcatEmptySeq
  <1>9. copy # None => cached_tail = copy.messages
    OBVIOUS
  <1> HIDE DEF c, cached_tail
  <1>10. StateOK'
    BY <1>1, <1>2, <1>7, IdleOK, StateStep DEF StateOK
  <1>11. ChronInv'
    BY <1>1, <1>2, EndsChron
  <1>12. ASSUME CacheInv, ~Overlapping
         PROVE  CacheInv'
    <2>1. HoldsOK(proc[p], cache, file, stamp) /\ proc[p].pc \in Saving
      BY <1>1, <1>12 DEF CacheInv, Saving
    <2>2. file # << >> /\ proc[p].stat = stamp /\ Suffix(cached_tail \o m, file)
      BY <1>1, <1>8, <1>9, <2>1 DEF HoldsOK, Late
    <2>3. file \in Seq(Nat)
      BY DEF StateOK
    <2>4. CacheOK(c, file, stamp)
      BY <1>5, <1>6, <2>2, <2>3, SuffixTransitive DEF CacheOK
    <2>5. HoldsOK(Idle, cache', file', stamp')
      BY IdleHolds
    <2> QED BY <1>1, <1>2, <1>12, <2>1, <2>4, <2>5, AloneHolds DEF CacheInv
  <1> QED BY <1>10, <1>11, <1>12 DEF Kept

LEMMA ArchiveMessagesOK ==
    ASSUME StateOK, ChronInv, NEW p \in Procs, ArchiveMessages(p)
    PROVE  Kept
  <1> DEFINE r == [proc[p] EXCEPT !.pc = "delete"]
  <1>1. /\ proc[p].pc = "archive" /\ ReqOK(proc[p]) /\ proc' = [proc EXCEPT ![p] = r]
        /\ file' = << >> /\ UNCHANGED <<stamp, cache, clock, reloads>> /\ clock \in Nat
    BY DEF ArchiveMessages, At, faults, StateOK
  <1>2. ReqOK(r) /\ r.pc = "delete" /\ r.op = proc[p].op /\ r.messages = proc[p].messages
    BY <1>1 DEF ReqOK, Idle, Late
  <1> HIDE DEF r
  <1>3. Moves(p, r)
    BY <1>1, MovesOK
  <1>4. file' \in Seq(Nat)
    BY <1>1, EmptySeq
  <1>5. StateOK'
    BY <1>1, <1>2, <1>3, <1>4, StateStep DEF StateOK
  <1>6. ChronInv'
    <2>1. Bounded(r.messages, clock)
      BY <1>2 DEF ChronInv, Clocked
    <2>2. proc[p].pc \in Late => r.pc \in Late
      BY <1>1 DEF Late
    <2> QED BY <1>1, <1>2, <1>3, <2>1, <2>2, QuietChron
  <1>7. ASSUME CacheInv, ~Overlapping
        PROVE  CacheInv'
    <2>1. proc[p].pc \in Saving
      BY <1>1 DEF Saving
    <2>2. HoldsOK(r, cache', file', stamp')
      BY <1>1, <1>2 DEF HoldsOK, Late
    <2>3. Halfway'
      BY <1>2, <1>3 DEF Halfway, Moves
    <2> QED BY <1>3, <1>7, <2>1, <2>2, <2>3, AloneHolds DEF CacheInv
  <1> QED BY <1>5, <1>6, <1>7 DEF Kept

LEMMA DeleteFromCacheOK ==
    ASSUME StateOK, ChronInv, NEW p \in Procs, DeleteFromCache(p)
    PROVE  Kept
  <1>1. /\ proc[p].pc = "delete" /\ cache' = None /\ Moves(p, Idle)
        /\ UNCHANGED <<file, stamp, clock, reloads>>
    BY MovesOK DEF DeleteFromCache, At, End, faults
  <1>2. StateOK'
    BY <1>1, IdleOK, StateStep DEF StateOK
  <1>3. ChronInv'
    BY <1>1, EndsChron
  <1>4. ASSUME CacheInv, ~Overlapping
        PROVE  CacheInv'
    <2>1. proc[p].pc \in Saving /\ CacheOK(cache', file', stamp')
      BY <1>1 DEF Saving, CacheOK
    <2> QED BY <1>1, <1>4, <2>1, IdleHolds, AloneHolds DEF CacheInv
  <1> QED BY <1>2, <1>3, <1>4 DEF Kept

-----------------------------------------------------------------------------
(* What goes wrong                                                          *)

LEMMA ReloadOK ==
    ASSUME StateOK, ChronInv, NEW p \in Procs, Reload(p)
    PROVE  Kept
  <1> DEFINE r == [proc[p] EXCEPT !.op = "left"]
  <1>1. /\ ReqOK(proc[p]) /\ proc' = [proc EXCEPT ![p] = r]
        /\ reloads' = reloads + 1 /\ reloads \in Nat
        /\ UNCHANGED <<file, stamp, cache, clock>>
    BY DEF Reload, StateOK
  <1>2. /\ ReqOK(r) /\ r.pc = proc[p].pc /\ r.messages = proc[p].messages
        /\ r.stat = proc[p].stat /\ r.seen = proc[p].seen /\ r.copy = proc[p].copy
    BY <1>1 DEF ReqOK, Idle
  <1> HIDE DEF r
  <1>3. Moves(p, r)
    BY <1>1, MovesOK
  <1>4. StateOK'
    BY <1>1, <1>2, <1>3, StateStep DEF StateOK
  <1>5. ChronInv'
    BY <1>1, <1>2, <1>3 DEF ChronInv, Clocked, Moves
  <1>6. ASSUME CacheInv
        PROVE  CacheInv'
    <2>1. \A q \in Procs : HoldsOK(proc'[q], cache', file', stamp')
      BY <1>1, <1>2, <1>3, <1>6 DEF CacheInv, HoldsOK, Moves
    <2>2. Halfway => Halfway'
      BY <1>2, <1>3 DEF Halfway, Moves
    <2> QED BY <1>1, <1>6, <2>1, <2>2 DEF CacheInv
  <1> QED BY <1>4, <1>5, <1>6 DEF Kept

LEMMA StepOK ==
    ASSUME StateOK, ChronInv, NEW p \in Procs, Step(p)
    PROVE  Kept
  BY AskOK, ShowOK, GetFromCacheOK, CompareStatOK, FileStatOK, LoadTailOK, UpdateCacheOK,
     LoadMessagesOK, ReturnOK, AnswerOK, AppendToFileOK, StatAppendedOK, GetCachedTailOK,
     AppendToCacheOK, ClearOK, ArchiveMessagesOK, DeleteFromCacheOK, ReloadOK
  DEF Step

LEMMA KillOK ==
    ASSUME StateOK, ChronInv, NEW p \in Procs, Kill(p)
    PROVE  /\ StateOK' /\ ChronInv'
           /\ CacheInv /\ ~Overlapping /\ proc[p].pc \notin Saving => CacheInv' /\ ~Overlapping'
  <1>1. Moves(p, Idle) /\ UNCHANGED <<file, stamp, cache, clock, reloads>>
    BY MovesOK DEF Kill, End
  <1>2. StateOK'
    BY <1>1, IdleOK, StateStep DEF StateOK
  <1>3. ChronInv'
    BY <1>1, EndsChron
  <1>4. ASSUME CacheInv, proc[p].pc \notin Saving
        PROVE  CacheInv'
    BY <1>1, <1>4, IdleOK, QuietCache DEF Saving, Late, Plain
  <1>5. ASSUME ~Overlapping
        PROVE  ~Overlapping'
    BY <1>1, <1>5, IdleOK DEF Overlapping, Moves, Saving, Refreshing
  <1> QED BY <1>2, <1>3, <1>4, <1>5

LEMMA ExpireOK ==
    ASSUME StateOK, ChronInv, Expire
    PROVE  /\ StateOK' /\ ChronInv'
           /\ CacheInv /\ ~Overlapping => CacheInv' /\ ~Overlapping'
  <1>1. cache' = None /\ UNCHANGED <<file, stamp, proc, clock, reloads>>
    BY DEF Expire, faults
  <1>2. StateOK'
    BY <1>1 DEF StateOK
  <1>3. ChronInv'
    BY <1>1 DEF ChronInv, Clocked, OneSends
  <1>4. CacheInv => CacheInv'
    BY <1>1 DEF CacheInv, HoldsOK, CacheOK
  <1>5. ~Overlapping => ~Overlapping'
    BY <1>1 DEF Overlapping
  <1> QED BY <1>2, <1>3, <1>4, <1>5

\* With the cache empty and nobody at work there is nothing to go wrong.
LEMMA FreshOK ==
    ASSUME Fresh
    PROVE  CacheInv /\ ~Overlapping
  <1>1. cache = None /\ \A p \in Procs : proc[p].pc = "idle"
    BY DEF Fresh, At
  <1> QED BY <1>1 DEF CacheInv, HoldsOK, Late, CacheOK, Overlapping, Saving

-----------------------------------------------------------------------------
(* Theorems                                                                 *)

LEMMA InitOK == Init => IInv
  <1> SUFFICES ASSUME Init PROVE IInv
    OBVIOUS
  <1>1. /\ file = << >> /\ file \in Seq(Nat) /\ Len(file) = 0
        /\ \A p \in Procs : proc[p] = Idle
    BY EmptySeq DEF Init
  <1>2. StateOK
    BY <1>1, IdleOK DEF StateOK, Init
  <1>3. ChronInv
    <2>1. Clocked
      BY <1>1, IdleOK DEF Clocked, Bounded
    <2>2. Ascending(file)
      BY <1>1 DEF Ascending
    <2>3. OneSends /\ \A p \in Procs : InOrder(proc[p], file)
      BY <1>1, IdleOK, HistoryAssumption DEF OneSends, Sends, InOrder
    <2> QED BY <2>1, <2>2, <2>3 DEF ChronInv
  <1>4. Fresh
    BY <1>1, IdleOK DEF Fresh, Init, At
  <1> QED BY <1>2, <1>3, <1>4, FreshOK DEF IInv

LEMMA NextOK == IInv /\ [Next]_vars => IInv'
  <1> SUFFICES ASSUME IInv, [Next]_vars PROVE IInv'
    OBVIOUS
  <1>1. StateOK /\ ChronInv /\ (tainted \/ (CacheInv /\ ~Overlapping))
    BY DEF IInv
  <1>2. Fresh' => CacheInv' /\ ~Overlapping'
    BY FreshOK, PTL
  <1>3. ASSUME NEW p \in Procs, Step(p), tainted' = ((tainted \/ Overlapping') /\ ~Fresh')
        PROVE  IInv'
    BY <1>1, <1>2, <1>3, StepOK DEF IInv, Kept
  <1>4. ASSUME NEW p \in Procs, Kill(p),
               tainted' = ((tainted \/ proc[p].pc \in Saving) /\ ~Fresh')
        PROVE  IInv'
    BY <1>1, <1>2, <1>4, KillOK DEF IInv
  <1>5. ASSUME Expire, tainted' = (tainted /\ ~Fresh')
        PROVE  IInv'
    BY <1>1, <1>2, <1>5, ExpireOK DEF IInv
  <1>6. CASE UNCHANGED vars
    <2>1. UNCHANGED <<file, stamp, cache, proc, clock, reloads, tainted>>
      BY <1>6 DEF vars
    <2> QED BY <1>1, <2>1 DEF IInv, StateOK, ChronInv, Clocked, OneSends, CacheInv, Halfway,
                              Overlapping
  <1> QED BY <1>3, <1>4, <1>5, <1>6 DEF Next

THEOREM Invariance == Spec => []IInv
  BY InitOK, NextOK, PTL DEF Spec

\* The file is in the order of time until the page is reloaded, which the
\* search for a window in the cached tail (_find_time_window_edges) relies on.
THEOREM FileInOrder == Spec => []Chronological
  <1>1. IInv => Chronological
    BY DEF IInv, ChronInv, Chronological
  <1> QED BY <1>1, Invariance, PTL

\* What _get_from_cache accepts is the end of the file, unless a save overlapped a
\* refresh or another save, or was cut short, since the cache was last empty at rest.
THEOREM CacheIsTail == Spec => []CacheUpToDateUntainted
  <1>1. IInv => CacheUpToDateUntainted
    <2> SUFFICES ASSUME IInv, ~tainted, Trusted PROVE IsSuffix(cache.messages, file)
      BY DEF CacheUpToDateUntainted, CacheUpToDate
    <2>1. /\ CacheInv /\ cache # None /\ file # << >> /\ cache.stamp = stamp
          /\ cache.messages \in Seq(Nat) /\ file \in Seq(Nat)
      BY DEF IInv, Trusted, StateOK, Entry
    <2>2. ~Halfway
      BY <2>1 DEF CacheInv, Halfway, HoldsOK, Late
    <2> QED BY <2>1, <2>2, SuffixIsSuffix DEF CacheInv, CacheOK
  <1> QED BY <1>1, Invariance, PTL

-----------------------------------------------------------------------------
(* Types                                                                    *)

LEMMA MessagesNat ==
    ASSUME NEW s \in Messages
    PROVE  s \in Seq(Nat) /\ \A i \in 1..Len(s) : s[i] \in 1..MaxClock
  <1>1. 1..MaxClock \subseteq Nat
    BY HistoryAssumption
  <1>2. s \in Seq(1..MaxClock)
    BY DEF Messages
  <1> QED BY <1>1, <1>2, SeqMonotonic, ElementOfSeq

LEMMA SubMessages ==
    ASSUME NEW s \in Messages, NEW m \in Nat, NEW n \in Nat, 1 =< m, m =< n + 1, n =< Len(s)
    PROVE  SubSeq(s, m, n) \in Messages /\ Len(SubSeq(s, m, n)) = n - m + 1
  <1>1. Len(s) \in Nat
    BY MessagesNat
  <1>2. \A i \in m..n : s[i] \in 1..MaxClock
    BY <1>1, MessagesNat
  <1> DEFINE r == SubSeq(s, m, n)
  <1>3. r \in Seq(1..MaxClock) /\ Len(r) = IF m <= n THEN n - m + 1 ELSE 0
    BY <1>2, SubSeqProperties
  <1> HIDE DEF r
  <1>4. r \in Messages /\ Len(r) = n - m + 1
    BY <1>3 DEF Messages
  <1> QED BY <1>4 DEF r

LEMMA LastOfType ==
    ASSUME NEW s \in Messages, NEW n \in Nat
    PROVE  LastOf(s, n) \in Messages /\ Len(LastOf(s, n)) =< n
  <1>0. Len(s) \in Nat
    BY MessagesNat
  <1>1. CASE n >= Len(s)
    BY <1>0, <1>1 DEF LastOf
  <1>2. CASE n < Len(s)
    <2>1. LastOf(s, n) = SubSeq(s, Len(s) - n + 1, Len(s))
      BY <1>0, <1>2 DEF LastOf
    <2> DEFINE lo == Len(s) - n + 1
    <2>2. lo \in Nat /\ 1 =< lo /\ lo =< Len(s) + 1 /\ Len(s) - lo + 1 = n
      BY <1>0, <1>2
    <2> HIDE DEF lo
    <2>3. SubSeq(s, lo, Len(s)) \in Messages /\ Len(SubSeq(s, lo, Len(s))) = Len(s) - lo + 1
      BY <1>0, <2>2, SubMessages
    <2> QED BY <2>1, <2>2, <2>3 DEF lo
  <1> QED BY <1>0, <1>1, <1>2

LEMMA RecentType ==
    ASSUME NEW f \in Messages, NEW b \in Nat
    PROVE  Recent(f, b) \in Messages
  <1> DEFINE I == {i \in 1..Len(f) : f[i] < b}
             x == IF I # {} THEN Max(I) ELSE 0
  <1>0. Len(f) \in Nat
    BY MessagesNat
  <1>1. Recent(f, b) = IF x # 0 /\ Ascending(SubSeq(f, x, Len(f)))
                       THEN SubSeq(f, x + 1, Len(f)) ELSE f
    BY DEF Recent, SelectLastInSeq
  <1>2. I # {} => Max(I) \in I
    <2>1. I \in SUBSET (1..Len(f))
      OBVIOUS
    <2> HIDE DEF I
    <2> QED BY <1>0, <2>1, MaxFacts
  <1>3. x # 0 => x \in 1..Len(f)
    BY <1>2
  <1> HIDE DEF x
  <1>4. ASSUME x # 0
        PROVE  SubSeq(f, x + 1, Len(f)) \in Messages
    <2> DEFINE lo == x + 1
    <2>1. lo \in Nat /\ 1 =< lo /\ lo =< Len(f) + 1
      BY <1>0, <1>3, <1>4
    <2> HIDE DEF lo
    <2>2. SubSeq(f, lo, Len(f)) \in Messages
      BY <1>0, <2>1, SubMessages
    <2> QED BY <2>2 DEF lo
  <1> QED BY <1>1, <1>4

LEMMA QueryTypes ==
    ASSUME NEW q \in Queries
    PROVE  TsBegin(q) \in Nat /\ q.end \in Nat /\ q.max \in Nat /\ q.begin \in Nat \cup {None}
           /\ q.kind \in {"count", "window"}
  <1>1. /\ q.kind \in {"count", "window"} /\ q.begin \in 0..MaxClock \cup {None}
        /\ q.end \in 0..MaxClock /\ q.max \in Counts \cup PageSizes
    BY DEF Queries
  <1>2. 0..MaxClock \subseteq Nat /\ Counts \cup PageSizes \subseteq Nat
    BY HistoryAssumption
  <1>3. TsBegin(q) \in Nat
    BY <1>1, <1>2 DEF TsBegin
  <1> QED BY <1>1, <1>2, <1>3

LEMMA FromFileType ==
    ASSUME NEW f \in Messages, NEW q \in Queries
    PROVE  FromFile(q, f) \in Messages
  <1>1. << >> \in Messages
    BY EmptySeq DEF Messages
  <1>2. Within(Recent(f, TsBegin(q)), TsBegin(q), q.end) \in Messages
    BY QueryTypes, RecentType, MessagesNat, WithinType DEF Messages
  <1> QED BY <1>1, <1>2, QueryTypes, LastOfType DEF FromFile

LEMMA FromTailType ==
    ASSUME NEW t \in Messages, NEW q \in Queries, Covers(q, t)
    PROVE  FromTail(q, t) \in Messages
  <1>1. CASE q.kind = "count"
    BY <1>1, QueryTypes, LastOfType DEF FromTail, SliceFromEnd
  <1>2. CASE q.kind # "count"
    <2> DEFINE o == OldestIndex(q, t)
               n == NewestIndex(q, t)
    <2>1. o # 0 /\ n # 0
      BY <1>2 DEF Covers
    <2>2. o \in 1..Len(t) /\ n \in 1..Len(t)
      BY <2>1, QueryTypes, MessagesNat, OldestFacts, NewestFacts
    <2>3. FromTail(q, t) = SliceFromEnd(SubSeq(t, o, n), q.max)
      BY <1>2 DEF FromTail
    <2> HIDE DEF o, n
    <2>4. SubSeq(t, o, n) \in Messages
      <3>1. CASE o =< n
        <4>1. o \in Nat /\ n \in Nat /\ 1 =< o /\ o =< n + 1 /\ n =< Len(t)
          BY <2>2, <3>1, MessagesNat
        <4> QED BY <4>1, SubMessages
      <3>2. CASE n < o
        <4>1. SubSeq(t, o, n) = << >>
          BY <2>2, <3>2, MessagesNat, SubSeqEmpty
        <4> QED BY <4>1, EmptySeq DEF Messages
      <3> QED BY <2>2, <3>1, <3>2, MessagesNat
    <2> QED BY <2>3, <2>4, QueryTypes, LastOfType DEF SliceFromEnd
  <1> QED BY <1>1, <1>2

-----------------------------------------------------------------------------
(* What a request holds                                                     *)

Reading == {"get", "stat", "restat", "load", "set", "store"}

\* Entries written when the stamp of the file was at most st.
Written(st) == [stamp : 0..st, messages : Messages]

Ordered(q) == q.kind = "window" /\ q.begin # None => q.begin < q.end

ReqType(r, st) ==
    /\ DOMAIN r = DOMAIN Idle
    /\ r.op \in {"ask", "show", "clear", "left", None}
    /\ r.query \in Queries \cup {None}
    /\ r.pc \in Reading => r.query \in Queries /\ Ordered(r.query)
    /\ r.copy \in Written(st) \cup {None} /\ (r.pc = "stat" => r.copy # None)
    /\ r.stat \in 0..st
    /\ r.seen \in Messages /\ r.result \in Messages /\ r.messages \in Messages

CacheType(c, st) == /\ c \in Written(st) \cup {None}
                    /\ c # None => Len(c.messages) =< TailLen

\* Every save that is to come has taken a time of the clock that no stamp has.
Appending == {p \in Procs : proc[p].pc = "append"}
Numbered == /\ stamp \in Nat
            /\ IsFiniteSet(Appending) /\ Cardinality(Appending) + stamp < clock

Typed ==
    /\ file \in Messages /\ CacheType(cache, stamp)
    /\ \A p \in Procs : ReqType(proc[p], stamp)
    /\ clock \in 1..MaxClock /\ kills \in 0..MaxKills /\ reloads \in 0..MaxReloads
    /\ Numbered

LEMMA LaterTypes ==
    ASSUME NEW st \in Nat, NEW st2 \in Nat, st =< st2
    PROVE  /\ \A r : ReqType(r, st) => ReqType(r, st2)
           /\ \A c : CacheType(c, st) => CacheType(c, st2)
  <1>1. 0..st \subseteq 0..st2
    OBVIOUS
  <1>2. Written(st) \subseteq Written(st2)
    BY <1>1 DEF Written
  <1> QED BY <1>1, <1>2 DEF ReqType, CacheType

LEMMA IdleType ==
    ASSUME NEW st \in Nat
    PROVE  ReqType(Idle, st)
  <1>1. << >> \in Messages /\ 0 \in 0..st
    BY EmptySeq DEF Messages
  <1> QED BY <1>1 DEF ReqType, Idle, Reading

LEMMA NumberedKept ==
    ASSUME Numbered, Appending' \subseteq Appending, stamp' = stamp,
           clock \in Nat, clock' \in Nat, clock =< clock'
    PROVE  Numbered'
  <1>1. IsFiniteSet(Appending') /\ Cardinality(Appending') =< Cardinality(Appending)
    BY FS_Subset DEF Numbered
  <1>2. Cardinality(Appending) \in Nat /\ Cardinality(Appending') \in Nat
    BY <1>1, FS_CardinalityType DEF Numbered
  <1> QED BY <1>1, <1>2 DEF Numbered

\* Any step but the two that number a save.
LEMMA TypedStep ==
    ASSUME Typed, NEW p \in Procs, NEW r, Moves(p, r), ReqType(r, stamp),
           r.pc = "append" => proc[p].pc = "append",
           stamp' = stamp, file' \in Messages, CacheType(cache', stamp),
           clock' \in 1..MaxClock, clock =< clock',
           kills' \in 0..MaxKills, reloads' \in 0..MaxReloads
    PROVE  Typed'
  <1>1. Appending' \subseteq Appending
    BY DEF Appending, Moves
  <1>2. clock \in Nat /\ clock' \in Nat
    BY HistoryAssumption DEF Typed
  <1>3. Numbered'
    BY <1>1, <1>2, NumberedKept DEF Typed
  <1>4. \A q \in Procs : ReqType(proc'[q], stamp')
    BY DEF Typed, Moves
  <1> QED BY <1>3, <1>4 DEF Typed

\* Two messages are numbered at once.
LEMMA AnswerTyped ==
    ASSUME Typed, NEW p \in Procs, NEW r, Moves(p, r), ReqType(r, stamp),
           UNCHANGED <<file, stamp, cache, kills, reloads>>,
           clock' = clock + 1, clock < MaxClock
    PROVE  Typed'
  <1>1. clock \in Nat /\ MaxClock \in Nat /\ clock' \in 1..MaxClock
    BY HistoryAssumption DEF Typed
  <1>2. Appending' \in SUBSET (Appending \cup {p})
    BY DEF Appending, Moves
  <1>3. /\ IsFiniteSet(Appending \cup {p}) /\ Cardinality(Appending) \in Nat
        /\ \/ Cardinality(Appending \cup {p}) = Cardinality(Appending)
           \/ Cardinality(Appending \cup {p}) = Cardinality(Appending) + 1
    BY FS_AddElement, FS_CardinalityType DEF Typed, Numbered
  <1>4. /\ IsFiniteSet(Appending')
        /\ Cardinality(Appending') =< Cardinality(Appending \cup {p})
    BY <1>2, <1>3, FS_Subset
  <1>5. Cardinality(Appending') \in Nat
    BY <1>4, FS_CardinalityType
  <1>6. Cardinality(Appending) + stamp < clock /\ stamp \in Nat
    BY DEF Typed, Numbered
  <1>7. Cardinality(Appending') + stamp' < clock'
    BY <1>1, <1>3, <1>4, <1>5, <1>6
  <1>8. Numbered'
    BY <1>4, <1>6, <1>7 DEF Numbered
  <1>9. \A q \in Procs : ReqType(proc'[q], stamp')
    BY DEF Typed, Moves
  <1> QED BY <1>1, <1>8, <1>9 DEF Typed

LEMMA AppendTyped ==
    ASSUME Typed, NEW p \in Procs, NEW r, Moves(p, r), ReqType(r, stamp),
           proc[p].pc = "append", r.pc # "append", file' \in Messages,
           stamp' = stamp + 1, UNCHANGED <<cache, clock, kills, reloads>>
    PROVE  Typed'
  <1>1. stamp \in Nat /\ stamp' \in Nat /\ stamp =< stamp'
    BY DEF Typed, Numbered
  <1>2. Appending' = Appending \ {p} /\ p \in Appending
    BY DEF Appending, Moves
  <1>3. /\ IsFiniteSet(Appending') /\ Cardinality(Appending') = Cardinality(Appending) - 1
        /\ Cardinality(Appending) \in Nat
    BY <1>2, FS_RemoveElement, FS_CardinalityType DEF Typed, Numbered
  <1>4. Cardinality(Appending') \in Nat
    BY <1>3, FS_CardinalityType
  <1>5. Cardinality(Appending) + stamp < clock /\ clock \in Nat
    BY HistoryAssumption DEF Typed, Numbered
  <1>6. Numbered'
    BY <1>1, <1>3, <1>4, <1>5 DEF Numbered
  <1>7. \A q \in Procs : ReqType(proc'[q], stamp')
    BY <1>1, LaterTypes DEF Typed, Moves
  <1>8. CacheType(cache', stamp')
    BY <1>1, LaterTypes DEF Typed
  <1> QED BY <1>6, <1>7, <1>8 DEF Typed

-----------------------------------------------------------------------------
(* Answers                                                                  *)

\* What a request compares with the file, and what it has answered.
UpToDate(r, f, st) == r.pc = "stat" /\ f # << >> /\ r.copy.stamp = st => Suffix(r.copy.messages, f)
Right(r) == r.pc = "served" /\ Ascending(r.seen) => r.result = FromFile(r.query, r.seen)

AnswerInv == \A p \in Procs : UpToDate(proc[p], file, stamp) /\ Right(proc[p])

LEMMA AnswerStep ==
    ASSUME Typed, AnswerInv, NEW p \in Procs, NEW r, Moves(p, r),
           UpToDate(r, file', stamp'), Right(r),
           \/ file' = file /\ stamp' = stamp
           \/ stamp' = stamp + 1
           \/ file' = << >>
    PROVE  AnswerInv'
  <1>1. ASSUME NEW q \in Procs \ {p}
        PROVE  UpToDate(proc[q], file', stamp')
    <2>1. CASE stamp' = stamp + 1
      <3>1. proc[q].pc = "stat" => proc[q].copy.stamp \in 0..stamp /\ stamp \in Nat
        BY DEF Typed, ReqType, Written, Numbered
      <3> QED BY <2>1, <3>1 DEF UpToDate
    <2> QED BY <2>1 DEF AnswerInv, UpToDate
  <1> QED BY <1>1 DEF AnswerInv, Moves

LEMMA TailServed ==
    ASSUME NonZeroCounts, NEW f \in Messages, NEW t \in Messages, NEW q \in Queries,
           Suffix(t, f), Ordered(q), Covers(q, t), Ascending(f)
    PROVE  FromTail(q, t) = FromFile(q, f)
  <1>1. QueryOK(q)
    <2>1. q.max # 0
      BY DEF Queries, NonZeroCounts
    <2> QED BY <2>1, QueryTypes DEF QueryOK, Ordered
  <1>2. f \in Seq(Nat) /\ t \in Seq(Nat) /\ \A i \in 1..Len(f) : f[i] # 0
    BY MessagesNat
  <1> QED BY <1>1, <1>2, TailAnswers

-----------------------------------------------------------------------------
(* Types and answers along the steps                                        *)

\* What a step has to keep besides.
KeptToo == Typed' /\ (NonZeroCounts /\ AnswerInv /\ CacheInv => AnswerInv')

LEMMA KeptTooStep ==
    ASSUME Typed, NEW p \in Procs, NEW r, Moves(p, r), ReqType(r, stamp),
           r.pc = "append" => proc[p].pc = "append",
           stamp' = stamp, file' = file \/ file' = << >>, CacheType(cache', stamp),
           clock' \in 1..MaxClock, clock =< clock',
           kills' \in 0..MaxKills, reloads' \in 0..MaxReloads,
           NonZeroCounts /\ AnswerInv /\ CacheInv => UpToDate(r, file', stamp') /\ Right(r)
    PROVE  KeptToo
  <1>1. file' \in Messages
    BY EmptySeq DEF Typed, Messages
  <1> QED BY <1>1, TypedStep, AnswerStep DEF KeptToo

\* A step that changes no more than the cache.
LEMMA KeptTooQuiet ==
    ASSUME Typed, NEW p \in Procs, NEW r, Moves(p, r), ReqType(r, stamp),
           r.pc # "append", UNCHANGED <<file, stamp, clock, faults>>, CacheType(cache', stamp),
           NonZeroCounts /\ AnswerInv /\ CacheInv => UpToDate(r, file, stamp) /\ Right(r)
    PROVE  KeptToo
  <1>1. clock' \in 1..MaxClock /\ clock =< clock' /\ kills' \in 0..MaxKills /\ reloads' \in 0..MaxReloads
    BY HistoryAssumption DEF Typed, faults
  <1> QED BY <1>1, KeptTooStep

LEMMA ServeTyped ==
    ASSUME StateOK, Typed, NEW p \in Procs, NEW seen \in Messages, NEW result \in Messages,
           Serve(p, seen, result)
    PROVE  \E r : /\ Moves(p, r) /\ ReqType(r, stamp) /\ r.pc = "served"
                  /\ r.seen = seen /\ r.result = result /\ r.query = proc[p].query
  <1> DEFINE r == [proc[p] EXCEPT !.pc = "served", !.seen = seen, !.result = result,
                                  !.copy = None, !.stat = 0]
  <1>1. proc' = [proc EXCEPT ![p] = r]
    BY DEF Serve
  <1>2. ReqType(proc[p], stamp) /\ 0 \in 0..stamp
    BY DEF Typed, Numbered
  <1>3. ReqType(r, stamp) /\ r.pc = "served" /\ r.seen = seen /\ r.result = result
        /\ r.query = proc[p].query
    BY <1>2 DEF ReqType, Idle, Reading
  <1> HIDE DEF r
  <1> QED BY <1>1, <1>3, MovesOK

LEMMA ServeTailTyped ==
    ASSUME StateOK, Typed, NEW p \in Procs, proc[p].pc \in Reading,
           NEW seen \in Messages, NEW tail \in Messages, ServeTail(p, seen, tail)
    PROVE  \E r : /\ Moves(p, r) /\ ReqType(r, stamp) /\ r.pc \in {"served", "store"}
                  /\ NonZeroCounts /\ Suffix(tail, seen) => Right(r)
  <1> DEFINE q == proc[p].query
  <1>0. ReqType(proc[p], stamp) /\ q \in Queries /\ Ordered(q) /\ 0 \in 0..stamp
    BY DEF Typed, ReqType, Numbered
  <1>1. CASE Covers(q, tail)
    <2>1. Serve(p, seen, FromTail(q, tail))
      BY <1>1 DEF ServeTail
    <2>2. FromTail(q, tail) \in Messages
      BY <1>0, <1>1, FromTailType
    <2>3. PICK r : /\ Moves(p, r) /\ ReqType(r, stamp) /\ r.pc = "served"
                   /\ r.seen = seen /\ r.result = FromTail(q, tail) /\ r.query = q
      BY <2>1, <2>2, ServeTyped
    <2>4. NonZeroCounts /\ Suffix(tail, seen) => Right(r)
      BY <1>0, <1>1, <2>3, TailServed DEF Right
    <2> QED BY <2>3, <2>4
  <1>2. CASE ~Covers(q, tail)
    <2> DEFINE r == [proc[p] EXCEPT !.pc = "store", !.seen = << >>, !.copy = None, !.stat = 0]
    <2>1. proc' = [proc EXCEPT ![p] = r]
      BY <1>2 DEF ServeTail
    <2>2. << >> \in Messages
      BY EmptySeq DEF Messages
    <2>3. ReqType(r, stamp) /\ r.pc = "store"
      BY <1>0, <2>2 DEF ReqType, Idle, Reading
    <2> HIDE DEF r
    <2>4. Moves(p, r) /\ Right(r)
      BY <2>1, <2>3, MovesOK DEF Right
    <2> QED BY <2>3, <2>4
  <1> QED BY <1>1, <1>2

LEMMA GetFromCacheToo ==
    ASSUME StateOK, Typed, NEW p \in Procs, GetFromCache(p)
    PROVE  KeptToo
  <1> DEFINE r == [proc[p] EXCEPT !.copy = cache,
                                  !.pc = IF cache = None THEN "restat" ELSE "stat"]
  <1>1. /\ proc' = [proc EXCEPT ![p] = r] /\ proc[p].pc = "get"
        /\ UNCHANGED <<file, stamp, clock, faults, cache>>
    BY DEF GetFromCache, At
  <1>2. ReqType(proc[p], stamp) /\ CacheType(cache, stamp)
    BY DEF Typed
  <1>3. /\ ReqType(r, stamp) /\ r.copy = cache
        /\ r.pc = IF cache = None THEN "restat" ELSE "stat"
    BY <1>1, <1>2 DEF ReqType, Idle, Reading, CacheType
  <1> HIDE DEF r
  <1>4. Moves(p, r)
    BY <1>1, MovesOK
  <1>5. ASSUME CacheInv
        PROVE  UpToDate(r, file, stamp)
    <2> SUFFICES ASSUME cache # None, file # << >>, cache.stamp = stamp
                 PROVE  Suffix(cache.messages, file)
      BY <1>3 DEF UpToDate
    <2>1. ~Halfway
      BY <1>5 DEF CacheInv, Halfway, HoldsOK, Late
    <2> QED BY <1>5, <2>1 DEF CacheInv, CacheOK
  <1>6. Right(r) /\ r.pc # "append"
    BY <1>3 DEF Right
  <1> QED BY <1>1, <1>2, <1>3, <1>4, <1>5, <1>6, KeptTooQuiet

LEMMA CompareStatToo ==
    ASSUME StateOK, Typed, NEW p \in Procs, CompareStat(p)
    PROVE  KeptToo
  <1> DEFINE copy == proc[p].copy
  <1>1. proc[p].pc = "stat" /\ UNCHANGED <<file, stamp, clock, faults, cache>>
    BY DEF CompareStat, At
  <1>2. /\ ReqType(proc[p], stamp) /\ CacheType(cache, stamp) /\ file \in Messages
        /\ proc[p].pc \in Reading
    BY <1>1 DEF Typed, Reading
  <1>3. CASE file # << >> /\ copy.stamp = stamp /\ ServeTail(p, file, copy.messages)
    <2>1. copy.messages \in Messages
      BY <1>1, <1>2 DEF ReqType, Written
    <2>2. PICK r : /\ Moves(p, r) /\ ReqType(r, stamp) /\ r.pc \in {"served", "store"}
                   /\ NonZeroCounts /\ Suffix(copy.messages, file) => Right(r)
      BY <1>2, <1>3, <2>1, ServeTailTyped
    <2>3. AnswerInv => Suffix(copy.messages, file)
      BY <1>1, <1>3 DEF AnswerInv, UpToDate
    <2>4. UpToDate(r, file, stamp) /\ r.pc # "append"
      BY <2>2 DEF UpToDate
    <2> QED BY <1>1, <1>2, <2>2, <2>3, <2>4, KeptTooQuiet
  <1>4. CASE proc' = [proc EXCEPT ![p].pc = "restat", ![p].copy = None]
    <2> DEFINE r == [proc[p] EXCEPT !.pc = "restat", !.copy = None]
    <2>1. proc' = [proc EXCEPT ![p] = r]
      BY <1>4
    <2>2. ReqType(r, stamp) /\ r.pc = "restat"
      BY <1>2 DEF ReqType, Idle, Reading
    <2> HIDE DEF r
    <2>3. Moves(p, r) /\ UpToDate(r, file, stamp) /\ Right(r)
      BY <2>1, <2>2, MovesOK DEF UpToDate, Right
    <2> QED BY <1>1, <1>2, <2>2, <2>3, KeptTooQuiet
  <1> QED BY <1>3, <1>4 DEF CompareStat

LEMMA FileStatToo ==
    ASSUME StateOK, Typed, NEW p \in Procs, FileStat(p)
    PROVE  KeptToo
  <1>1. proc[p].pc = "restat" /\ UNCHANGED <<file, stamp, clock, faults, cache>>
    BY DEF FileStat, At
  <1>2. /\ ReqType(proc[p], stamp) /\ CacheType(cache, stamp) /\ stamp \in 0..stamp
    BY <1>1 DEF Typed, Numbered
  <1>3. PICK r : proc' = [proc EXCEPT ![p] = r] /\ ReqType(r, stamp) /\ r.pc \in {"store", "load"}
    <2>1. CASE file = << >>
      <3> DEFINE r == [proc[p] EXCEPT !.pc = "store"]
      <3>1. proc' = [proc EXCEPT ![p] = r]
        BY <2>1 DEF FileStat
      <3>2. ReqType(r, stamp) /\ r.pc = "store"
        BY <1>1, <1>2 DEF ReqType, Idle, Reading
      <3> QED BY <3>1, <3>2
    <2>2. CASE file # << >>
      <3> DEFINE r == [proc[p] EXCEPT !.pc = "load", !.stat = stamp]
      <3>1. proc' = [proc EXCEPT ![p] = r]
        BY <2>2 DEF FileStat
      <3>2. ReqType(r, stamp) /\ r.pc = "load"
        BY <1>1, <1>2 DEF ReqType, Idle, Reading
      <3> QED BY <3>1, <3>2
    <2> QED BY <2>1, <2>2
  <1>4. Moves(p, r) /\ UpToDate(r, file, stamp) /\ Right(r) /\ r.pc # "append"
    BY <1>3, MovesOK DEF UpToDate, Right
  <1> QED BY <1>1, <1>2, <1>3, <1>4, KeptTooQuiet

LEMMA LoadTailToo ==
    ASSUME StateOK, Typed, NEW p \in Procs, LoadTail(p)
    PROVE  KeptToo
  <1> DEFINE r == [proc[p] EXCEPT !.pc = "set", !.seen = file]
  <1>1. /\ proc' = [proc EXCEPT ![p] = r] /\ proc[p].pc = "load"
        /\ UNCHANGED <<file, stamp, clock, faults, cache>>
    BY DEF LoadTail, At
  <1>2. ReqType(proc[p], stamp) /\ CacheType(cache, stamp) /\ file \in Messages
    BY DEF Typed
  <1>3. ReqType(r, stamp) /\ r.pc = "set"
    BY <1>1, <1>2 DEF ReqType, Idle, Reading
  <1> HIDE DEF r
  <1>4. Moves(p, r) /\ UpToDate(r, file, stamp) /\ Right(r)
    BY <1>1, <1>3, MovesOK DEF UpToDate, Right
  <1> QED BY <1>1, <1>2, <1>3, <1>4, KeptTooQuiet

LEMMA UpdateCacheToo ==
    ASSUME StateOK, Typed, NEW p \in Procs, UpdateCache(p)
    PROVE  KeptToo
  <1> DEFINE seen == proc[p].seen
             tail == LastOf(seen, TailLen)
             c == [stamp |-> proc[p].stat, messages |-> tail]
  <1>1. /\ proc[p].pc = "set" /\ cache' = c /\ ServeTail(p, seen, tail)
        /\ UNCHANGED <<file, stamp, clock, faults>>
    BY DEF UpdateCache, At
  <1>2. ReqType(proc[p], stamp) /\ seen \in Messages /\ proc[p].pc \in Reading
    BY <1>1 DEF Typed, ReqType, Reading
  <1>3. TailLen \in Nat
    BY HistoryAssumption
  <1>4. tail \in Messages /\ Len(tail) =< TailLen /\ Suffix(tail, seen)
    BY <1>2, <1>3, LastOfType, LastOfSuffix, MessagesNat
  <1> HIDE DEF tail, seen
  <1>5. CacheType(c, stamp)
    BY <1>2, <1>4 DEF CacheType, Written, ReqType
  <1> HIDE DEF c
  <1>6. PICK r : /\ Moves(p, r) /\ ReqType(r, stamp) /\ r.pc \in {"served", "store"}
                 /\ NonZeroCounts /\ Suffix(tail, seen) => Right(r)
    BY <1>1, <1>2, <1>4, ServeTailTyped
  <1>7. UpToDate(r, file, stamp) /\ r.pc # "append"
    BY <1>6 DEF UpToDate
  <1> QED BY <1>1, <1>4, <1>5, <1>6, <1>7, KeptTooQuiet

LEMMA LoadMessagesToo ==
    ASSUME StateOK, Typed, NEW p \in Procs, LoadMessages(p)
    PROVE  KeptToo
  <1> DEFINE result == FromFile(proc[p].query, file)
  <1>1. /\ proc[p].pc = "store" /\ Serve(p, file, result)
        /\ UNCHANGED <<file, stamp, clock, faults, cache>>
    BY DEF LoadMessages, At
  <1>2. CacheType(cache, stamp) /\ file \in Messages /\ proc[p].query \in Queries
    BY <1>1 DEF Typed, ReqType, Reading
  <1>3. result \in Messages
    BY <1>2, FromFileType
  <1>4. PICK r : /\ Moves(p, r) /\ ReqType(r, stamp) /\ r.pc = "served"
                 /\ r.seen = file /\ r.result = result /\ r.query = proc[p].query
    BY <1>1, <1>2, <1>3, ServeTyped
  <1>5. Right(r) /\ UpToDate(r, file, stamp) /\ r.pc # "append"
    BY <1>4 DEF Right, UpToDate
  <1> QED BY <1>1, <1>2, <1>4, <1>5, KeptTooQuiet

\* A request that is over holds nothing.
LEMMA EndsToo ==
    ASSUME StateOK, Typed, NEW p \in Procs, End(p), stamp' = stamp, file' = file,
           clock' = clock, reloads' = reloads, kills' \in 0..MaxKills, CacheType(cache', stamp)
    PROVE  KeptToo
  <1>1. Moves(p, Idle) /\ ReqType(Idle, stamp)
    BY MovesOK, IdleType DEF End, Typed, Numbered
  <1>2. Idle.pc # "append" /\ UpToDate(Idle, file', stamp') /\ Right(Idle)
    BY IdleOK DEF UpToDate, Right
  <1>3. clock' \in 1..MaxClock /\ clock =< clock' /\ reloads' \in 0..MaxReloads
    BY HistoryAssumption DEF Typed
  <1> QED BY <1>1, <1>2, <1>3, KeptTooStep

LEMMA ReturnToo ==
    ASSUME StateOK, Typed, NEW p \in Procs, Return(p)
    PROVE  KeptToo
  BY EndsToo DEF Return, faults, Typed

LEMMA BeginTyped ==
    ASSUME StateOK, Typed, NEW p \in Procs, NEW op \in {"ask", "show"},
           NEW q \in Queries, Ordered(q), NEW m \in Messages, Begin(p, op, q, m),
           UNCHANGED <<file, stamp, cache, faults>>, clock' \in 1..MaxClock, clock =< clock'
    PROVE  KeptToo
  <1> DEFINE r == [Idle EXCEPT !.pc = IF q.kind = "count" /\ q.max > TailLen THEN "store" ELSE "get",
                               !.op = op, !.query = q, !.messages = m]
  <1>1. proc' = [proc EXCEPT ![p] = r]
    BY DEF Begin
  <1>2. ReqType(Idle, stamp)
    BY IdleType DEF Typed, Numbered
  <1>3. ReqType(r, stamp) /\ r.pc \in {"store", "get"}
    BY <1>2 DEF ReqType, Idle, Reading
  <1> HIDE DEF r
  <1>4. Moves(p, r) /\ UpToDate(r, file', stamp') /\ Right(r) /\ r.pc # "append"
    BY <1>1, <1>3, MovesOK DEF UpToDate, Right
  <1>5. CacheType(cache', stamp) /\ kills' \in 0..MaxKills /\ reloads' \in 0..MaxReloads
    BY DEF Typed, faults
  <1> QED BY <1>3, <1>4, <1>5, KeptTooStep

LEMMA AskToo ==
    ASSUME StateOK, Typed, NEW p \in Procs, Ask(p)
    PROVE  KeptToo
  <1>1. /\ clock' = clock + 1 /\ clock < MaxClock /\ UNCHANGED <<file, stamp, cache, faults>>
    BY DEF Ask
  <1>2. clock \in Nat /\ MaxClock \in Nat
    BY HistoryAssumption DEF Typed
  <1>3. clock' \in 1..MaxClock /\ clock' \in 0..MaxClock /\ clock =< clock' /\ clock' \in Nat
    BY <1>1, <1>2
  <1>4. <<clock'>> \in Messages
    <2> DEFINE t == clock'
    <2>1. t \in 1..MaxClock
      BY <1>3
    <2> HIDE DEF t
    <2>2. <<t>> \in Seq(1..MaxClock)
      BY <2>1
    <2> QED BY <2>2 DEF Messages, t
  <1>5. PICK n \in Counts :
            \/ Begin(p, "ask", ByCount(n), <<clock'>>)
            \/ \E w \in Windows :
                LET begin == IF w > clock' THEN 0 ELSE clock' - w
                IN  Begin(p, "ask", Window(begin, clock', TRUE, n), <<clock'>>)
    BY DEF Ask
  <1>6. CASE Begin(p, "ask", ByCount(n), <<clock'>>)
    <2>1. ByCount(n) \in Queries /\ Ordered(ByCount(n))
      BY HistoryAssumption DEF ByCount, Queries, Ordered
    <2> QED BY <1>1, <1>3, <1>4, <1>6, <2>1, BeginTyped
  <1>7. ASSUME NEW w \in Windows, NEW begin, begin = IF w > clock' THEN 0 ELSE clock' - w,
               Begin(p, "ask", Window(begin, clock', TRUE, n), <<clock'>>)
        PROVE  KeptToo
    <2>1. w \in Nat \ {0}
      BY HistoryAssumption
    <2>2. begin \in 0..MaxClock /\ begin < clock'
      <3>1. CASE w > clock'
        <4>1. begin = 0
          BY <1>7, <3>1
        <4> QED BY <1>2, <1>3, <4>1
      <3>2. CASE ~(w > clock')
        <4>1. begin = clock' - w
          BY <1>7, <3>2
        <4>2. PICK t \in 0..MaxClock : t = clock'
          BY <1>3
        <4>3. t - w \in 0..MaxClock /\ t - w < t
          <5>1. ~(w > t)
            BY <3>2, <4>2
          <5>2. w \in Nat /\ w # 0 /\ t \in Nat /\ t =< MaxClock /\ MaxClock \in Nat
            BY <1>2, <2>1
          <5> QED BY <5>1, <5>2
        <4> QED BY <4>1, <4>2, <4>3
      <3> QED BY <3>1, <3>2
    <2> DEFINE q == Window(begin, clock', TRUE, n)
    <2>3. q \in Queries /\ Ordered(q)
      BY <1>3, <2>2 DEF Window, Queries, Ordered
    <2> HIDE DEF q
    <2>4. Begin(p, "ask", q, <<clock'>>)
      BY <1>7 DEF q
    <2> QED BY <1>1, <1>3, <1>4, <2>3, <2>4, BeginTyped
  <1> QED BY <1>5, <1>6, <1>7

LEMMA ShowToo ==
    ASSUME StateOK, Typed, NEW p \in Procs, Show(p)
    PROVE  KeptToo
  <1>1. UNCHANGED <<file, stamp, cache, clock, faults>>
    BY DEF Show
  <1>2. clock' \in 1..MaxClock /\ clock =< clock' /\ clock \in 0..MaxClock
    BY <1>1, HistoryAssumption DEF Typed
  <1>3. << >> \in Messages
    BY EmptySeq DEF Messages
  <1>4. ASSUME NEW e \in 0..MaxClock, NEW given \in BOOLEAN, NEW n \in PageSizes,
               Begin(p, "show", Window(None, e, given, n), << >>)
        PROVE  KeptToo
    <2>1. Window(None, e, given, n) \in Queries /\ Ordered(Window(None, e, given, n))
      BY DEF Window, Queries, Ordered
    <2> QED BY <1>1, <1>2, <1>3, <1>4, <2>1, BeginTyped
  <1>5. PICK n \in PageSizes :
            \/ Begin(p, "show", Window(None, clock, FALSE, n), << >>)
            \/ \E oldest \in ToSet(file) :
                Begin(p, "show", Window(None, oldest - 1, TRUE, n), << >>)
    BY DEF Show
  <1>6. CASE Begin(p, "show", Window(None, clock, FALSE, n), << >>)
    <2>1. PICK e \in 0..MaxClock : e = clock
      BY <1>2
    <2>2. Begin(p, "show", Window(None, e, FALSE, n), << >>)
      BY <1>6, <2>1
    <2> QED BY <1>4, <2>2
  <1>7. ASSUME NEW oldest \in ToSet(file),
               Begin(p, "show", Window(None, oldest - 1, TRUE, n), << >>)
        PROVE  KeptToo
    <2>1. oldest \in 1..MaxClock
      BY MessagesNat DEF ToSet, Typed
    <2>2. PICK e \in 0..MaxClock : e = oldest - 1
      BY <2>1, HistoryAssumption
    <2>3. Begin(p, "show", Window(None, e, TRUE, n), << >>)
      BY <1>7, <2>2
    <2> QED BY <1>4, <2>3
  <1> QED BY <1>5, <1>6, <1>7

\* A step of a save or a clear that changes no more than the cache.
LEMMA SavesToo ==
    ASSUME StateOK, Typed, NEW p \in Procs, NEW r, proc' = [proc EXCEPT ![p] = r],
           ReqType(r, stamp), r.pc \in {"append_get", "append_set", "archive", "delete"},
           file' = file \/ file' = << >>, UNCHANGED <<stamp, cache, clock, faults>>
    PROVE  KeptToo
  <1>1. Moves(p, r) /\ UpToDate(r, file', stamp') /\ Right(r) /\ r.pc # "append"
    BY MovesOK DEF UpToDate, Right
  <1>2. /\ clock' \in 1..MaxClock /\ clock =< clock' /\ kills' \in 0..MaxKills
        /\ reloads' \in 0..MaxReloads /\ CacheType(cache', stamp)
    BY HistoryAssumption DEF Typed, faults
  <1> QED BY <1>1, <1>2, KeptTooStep

LEMMA ClearToo ==
    ASSUME StateOK, Typed, NEW p \in Procs, Clear(p)
    PROVE  KeptToo
  <1> DEFINE r == [Idle EXCEPT !.pc = "archive", !.op = "clear"]
  <1>1. proc' = [proc EXCEPT ![p] = r] /\ UNCHANGED <<file, stamp, cache, clock, faults>>
    BY DEF Clear
  <1>2. ReqType(Idle, stamp)
    BY IdleType DEF Typed, Numbered
  <1>3. ReqType(r, stamp) /\ r.pc = "archive"
    BY <1>2 DEF ReqType, Idle, Reading
  <1> HIDE DEF r
  <1> QED BY <1>1, <1>3, SavesToo

LEMMA AnswerToo ==
    ASSUME StateOK, Typed, NEW p \in Procs, Answer(p)
    PROVE  KeptToo
  <1> DEFINE m == Append(proc[p].messages, clock')
             r == [Idle EXCEPT !.pc = "append", !.op = proc[p].op, !.messages = m]
  <1>1. /\ proc' = [proc EXCEPT ![p] = r] /\ proc[p].op \in {"ask", "left"}
        /\ clock < MaxClock /\ clock' = clock + 1 /\ UNCHANGED <<file, stamp, cache, faults>>
    BY DEF Answer
  <1>2. clock' \in 1..MaxClock
    BY <1>1, HistoryAssumption DEF Typed
  <1>3. m \in Messages
    <2>1. proc[p].messages \in Seq(1..MaxClock)
      BY DEF Typed, ReqType, Messages
    <2> QED BY <1>2, <2>1, AppendProperties DEF Messages
  <1> HIDE DEF m
  <1>4. ReqType(Idle, stamp)
    BY IdleType DEF Typed, Numbered
  <1>5. ReqType(r, stamp) /\ r.pc = "append"
    BY <1>1, <1>3, <1>4 DEF ReqType, Idle, Reading
  <1> HIDE DEF r
  <1>6. Moves(p, r) /\ UpToDate(r, file', stamp') /\ Right(r)
    BY <1>1, <1>5, MovesOK DEF UpToDate, Right
  <1>7. Typed'
    BY <1>1, <1>5, <1>6, AnswerTyped DEF faults
  <1>8. AnswerInv => AnswerInv'
    BY <1>1, <1>6, AnswerStep
  <1> QED BY <1>7, <1>8 DEF KeptToo

LEMMA AppendToFileToo ==
    ASSUME StateOK, Typed, NEW p \in Procs, AppendToFile(p)
    PROVE  KeptToo
  <1> DEFINE r == [proc[p] EXCEPT !.pc = "append_stat"]
  <1>1. /\ proc' = [proc EXCEPT ![p] = r] /\ proc[p].pc = "append"
        /\ file' = file \o proc[p].messages /\ stamp' = stamp + 1
        /\ UNCHANGED <<cache, clock, faults>>
    BY DEF AppendToFile, At
  <1>2. ReqType(proc[p], stamp)
    BY DEF Typed
  <1>3. file' \in Messages
    <2>1. file \in Seq(1..MaxClock) /\ proc[p].messages \in Seq(1..MaxClock)
      BY <1>2 DEF Typed, ReqType, Messages
    <2> QED BY <1>1, <2>1, ConcatProperties DEF Messages
  <1>4. ReqType(r, stamp) /\ r.pc = "append_stat"
    BY <1>2 DEF ReqType, Idle, Reading
  <1> HIDE DEF r
  <1>5. Moves(p, r) /\ UpToDate(r, file', stamp') /\ Right(r)
    BY <1>1, <1>4, MovesOK DEF UpToDate, Right
  <1>6. Typed'
    BY <1>1, <1>3, <1>4, <1>5, AppendTyped DEF faults
  <1>7. AnswerInv => AnswerInv'
    BY <1>1, <1>5, AnswerStep
  <1> QED BY <1>6, <1>7 DEF KeptToo

LEMMA StatAppendedToo ==
    ASSUME StateOK, Typed, NEW p \in Procs, StatAppended(p)
    PROVE  KeptToo
  <1>1. proc[p].pc = "append_stat" /\ UNCHANGED <<file, stamp, clock, faults>>
    BY DEF StatAppended, At
  <1>2. ReqType(proc[p], stamp) /\ stamp \in 0..stamp
    BY DEF Typed, Numbered
  <1>3. CASE file = << >>
    <2>1. End(p) /\ CacheType(cache', stamp)
      BY <1>3 DEF StatAppended, CacheType
    <2>2. kills' \in 0..MaxKills
      BY <1>1 DEF Typed, faults
    <2> QED BY <1>1, <2>1, <2>2, EndsToo DEF faults
  <1>4. CASE file # << >>
    <2> DEFINE r == [proc[p] EXCEPT !.pc = "append_get", !.stat = stamp]
    <2>1. proc' = [proc EXCEPT ![p] = r] /\ cache' = cache
      BY <1>4 DEF StatAppended
    <2>2. ReqType(r, stamp) /\ r.pc = "append_get"
      BY <1>2 DEF ReqType, Idle, Reading
    <2> HIDE DEF r
    <2> QED BY <1>1, <2>1, <2>2, SavesToo
  <1> QED BY <1>3, <1>4

LEMMA GetCachedTailToo ==
    ASSUME StateOK, Typed, NEW p \in Procs, GetCachedTail(p)
    PROVE  KeptToo
  <1> DEFINE r == [proc[p] EXCEPT !.pc = "append_set", !.copy = cache]
  <1>1. proc' = [proc EXCEPT ![p] = r] /\ UNCHANGED <<file, stamp, cache, clock, faults>>
    BY DEF GetCachedTail
  <1>2. ReqType(proc[p], stamp) /\ CacheType(cache, stamp)
    BY DEF Typed
  <1>3. ReqType(r, stamp) /\ r.pc = "append_set"
    BY <1>2 DEF ReqType, Idle, Reading, CacheType
  <1> HIDE DEF r
  <1> QED BY <1>1, <1>3, SavesToo

LEMMA AppendToCacheToo ==
    ASSUME StateOK, Typed, NEW p \in Procs, AppendToCache(p)
    PROVE  KeptToo
  <1> DEFINE copy == proc[p].copy
             m == proc[p].messages
             cached_tail == IF copy = None THEN << >> ELSE copy.messages
             tail == LastOf(cached_tail \o m, TailLen)
             c == [stamp |-> proc[p].stat, messages |-> tail]
  <1>1. cache' = c /\ End(p) /\ UNCHANGED <<file, stamp, clock, faults>>
    BY DEF AppendToCache
  <1>2. ReqType(proc[p], stamp)
    BY DEF Typed
  <1>3. cached_tail \in Seq(1..MaxClock) /\ m \in Seq(1..MaxClock)
    BY <1>2, EmptySeq DEF ReqType, Written, Messages
  <1> HIDE DEF cached_tail, m
  <1>4. cached_tail \o m \in Messages
    BY <1>3, ConcatProperties DEF Messages
  <1>5. tail \in Messages /\ Len(tail) =< TailLen
    BY <1>4, LastOfType, HistoryAssumption
  <1> HIDE DEF tail
  <1>6. CacheType(c, stamp)
    BY <1>2, <1>5 DEF CacheType, Written, ReqType
  <1> HIDE DEF c
  <1>7. kills' \in 0..MaxKills
    BY <1>1 DEF Typed, faults
  <1> QED BY <1>1, <1>6, <1>7, EndsToo DEF faults

LEMMA ArchiveMessagesToo ==
    ASSUME StateOK, Typed, NEW p \in Procs, ArchiveMessages(p)
    PROVE  KeptToo
  <1> DEFINE r == [proc[p] EXCEPT !.pc = "delete"]
  <1>1. /\ proc' = [proc EXCEPT ![p] = r] /\ file' = << >>
        /\ UNCHANGED <<stamp, cache, clock, faults>>
    BY DEF ArchiveMessages
  <1>2. ReqType(proc[p], stamp)
    BY DEF Typed
  <1>3. ReqType(r, stamp) /\ r.pc = "delete"
    BY <1>2 DEF ReqType, Idle, Reading
  <1> HIDE DEF r
  <1> QED BY <1>1, <1>3, SavesToo

LEMMA DeleteFromCacheToo ==
    ASSUME StateOK, Typed, NEW p \in Procs, DeleteFromCache(p)
    PROVE  KeptToo
  BY EndsToo DEF DeleteFromCache, faults, CacheType, Typed

LEMMA KillToo ==
    ASSUME StateOK, Typed, NEW p \in Procs, Kill(p)
    PROVE  KeptToo
  <1>1. /\ End(p) /\ kills < MaxKills /\ kills' = kills + 1
        /\ UNCHANGED <<file, stamp, cache, clock, reloads>>
    BY DEF Kill
  <1>2. kills' \in 0..MaxKills /\ CacheType(cache', stamp)
    BY <1>1, HistoryAssumption DEF Typed
  <1> QED BY <1>1, <1>2, EndsToo

LEMMA ReloadToo ==
    ASSUME StateOK, Typed, NEW p \in Procs, Reload(p)
    PROVE  KeptToo
  <1> DEFINE r == [proc[p] EXCEPT !.op = "left"]
  <1>1. /\ proc' = [proc EXCEPT ![p] = r] /\ reloads < MaxReloads /\ reloads' = reloads + 1
        /\ UNCHANGED <<file, stamp, cache, clock, kills>>
    BY DEF Reload
  <1>2. /\ ReqType(proc[p], stamp) /\ CacheType(cache', stamp) /\ kills' \in 0..MaxKills
        /\ reloads' \in 0..MaxReloads /\ clock' \in 1..MaxClock /\ clock =< clock'
    BY <1>1, HistoryAssumption DEF Typed
  <1>3. /\ ReqType(r, stamp) /\ r.pc = proc[p].pc /\ r.copy = proc[p].copy
        /\ r.seen = proc[p].seen /\ r.result = proc[p].result /\ r.query = proc[p].query
    BY <1>2 DEF ReqType, Idle, Reading
  <1> HIDE DEF r
  <1>4. Moves(p, r)
    BY <1>1, MovesOK
  <1>5. AnswerInv => UpToDate(r, file', stamp') /\ Right(r)
    BY <1>1, <1>3 DEF AnswerInv, UpToDate, Right
  <1> QED BY <1>1, <1>2, <1>3, <1>4, <1>5, KeptTooStep

LEMMA StepToo ==
    ASSUME StateOK, Typed, NEW p \in Procs, Step(p)
    PROVE  KeptToo
  BY AskToo, ShowToo, GetFromCacheToo, CompareStatToo, FileStatToo, LoadTailToo, UpdateCacheToo,
     LoadMessagesToo, ReturnToo, AnswerToo, AppendToFileToo, StatAppendedToo, GetCachedTailToo,
     AppendToCacheToo, ClearToo, ArchiveMessagesToo, DeleteFromCacheToo, ReloadToo
  DEF Step

LEMMA ExpireToo ==
    ASSUME Typed, Expire
    PROVE  Typed' /\ (AnswerInv => AnswerInv')
  <1>1. cache' = None /\ UNCHANGED <<file, stamp, proc, clock, kills, reloads>>
    BY DEF Expire, faults
  <1>2. CacheType(cache', stamp')
    BY <1>1 DEF CacheType
  <1> QED BY <1>1, <1>2 DEF Typed, Numbered, Appending, AnswerInv

LEMMA FreshToo ==
    ASSUME Fresh
    PROVE  AnswerInv
  BY DEF Fresh, At, AnswerInv, UpToDate, Right

-----------------------------------------------------------------------------
(* Theorems about types and answers                                         *)

TypeInv == Typed /\ tainted \in BOOLEAN
TransparentInv == tainted \/ AnswerInv

LEMMA InitToo == Init => TypeInv /\ TransparentInv
  <1> SUFFICES ASSUME Init PROVE TypeInv /\ TransparentInv
    OBVIOUS
  <1>1. file \in Messages
    BY EmptySeq DEF Init, Messages
  <1>2. \A p \in Procs : proc[p] = Idle /\ ReqType(proc[p], stamp)
    BY IdleType DEF Init
  <1>3. Appending = {}
    BY <1>2, IdleOK DEF Appending
  <1>4. Numbered
    BY <1>3, FS_EmptySet DEF Numbered, Init
  <1>5. /\ CacheType(cache, stamp) /\ clock \in 1..MaxClock /\ kills \in 0..MaxKills
        /\ reloads \in 0..MaxReloads
    BY HistoryAssumption DEF Init, CacheType
  <1>6. Fresh
    BY <1>2, IdleOK DEF Fresh, Init, At
  <1>7. tainted \in BOOLEAN
    BY DEF Init
  <1> QED BY <1>1, <1>2, <1>4, <1>5, <1>6, <1>7, FreshToo DEF TypeInv, TransparentInv, Typed

LEMMA NextToo ==
    ASSUME IInv, TypeInv, [Next]_vars
    PROVE  TypeInv' /\ (NonZeroCounts /\ TransparentInv => TransparentInv')
  <1>1. /\ StateOK /\ Typed /\ (tainted \/ CacheInv) /\ tainted \in BOOLEAN
    BY DEF IInv, TypeInv
  <1>2. Fresh' => AnswerInv'
    BY FreshToo, PTL
  <1>3. ASSUME NEW p \in Procs, Step(p), tainted' = ((tainted \/ Overlapping') /\ ~Fresh')
        PROVE  TypeInv' /\ (NonZeroCounts /\ TransparentInv => TransparentInv')
    <2>1. KeptToo
      BY <1>1, <1>3, StepToo
    <2>2. tainted' \in BOOLEAN
      BY <1>3
    <2>3. ~tainted' => ~tainted \/ Fresh'
      BY <1>3
    <2> QED BY <1>1, <1>2, <2>1, <2>2, <2>3 DEF KeptToo, TypeInv, TransparentInv
  <1>4. ASSUME NEW p \in Procs, Kill(p),
               tainted' = ((tainted \/ proc[p].pc \in Saving) /\ ~Fresh')
        PROVE  TypeInv' /\ (NonZeroCounts /\ TransparentInv => TransparentInv')
    <2>1. KeptToo
      BY <1>1, <1>4, KillToo
    <2>2. tainted' \in BOOLEAN
      BY <1>4
    <2>3. ~tainted' => ~tainted \/ Fresh'
      BY <1>4
    <2> QED BY <1>1, <1>2, <2>1, <2>2, <2>3 DEF KeptToo, TypeInv, TransparentInv
  <1>5. ASSUME Expire, tainted' = (tainted /\ ~Fresh')
        PROVE  TypeInv' /\ (NonZeroCounts /\ TransparentInv => TransparentInv')
    <2>1. tainted' \in BOOLEAN
      BY <1>5
    <2>2. ~tainted' => ~tainted \/ Fresh'
      BY <1>5
    <2> QED BY <1>1, <1>2, <1>5, <2>1, <2>2, ExpireToo DEF TypeInv, TransparentInv
  <1>6. CASE UNCHANGED vars
    <2>1. UNCHANGED <<file, stamp, cache, proc, clock, kills, reloads, tainted>>
      BY <1>6 DEF vars, faults
    <2> QED BY <1>1, <2>1 DEF TypeInv, TransparentInv, Typed, Numbered, Appending, AnswerInv
  <1> QED BY <1>3, <1>4, <1>5, <1>6 DEF Next

\* The variables keep their types: in particular the stamp of the file stays behind the
\* clock (every save has taken a time of its own), and neither _append_to_cache nor
\* _update_cache leaves more in the cache than its tail.
THEOREM TypeCorrect == Spec => []TypeOK
  <1>1. TypeInv => TypeOK
    <2> SUFFICES ASSUME TypeInv PROVE TypeOK
      OBVIOUS
    <2>1. stamp \in 0..MaxClock
      <3>1. Cardinality(Appending) \in Nat /\ stamp \in Nat /\ Cardinality(Appending) + stamp < clock
        BY FS_CardinalityType DEF TypeInv, Typed, Numbered
      <3> QED BY <3>1, HistoryAssumption DEF TypeInv, Typed
    <2>2. 0..stamp \subseteq 0..MaxClock
      BY <2>1, HistoryAssumption
    <2>3. Written(stamp) \subseteq Entries
      BY <2>2 DEF Written, Entries
    <2>4. cache \in Entries \cup {None} /\ (cache # None => Len(cache.messages) <= TailLen)
      BY <2>3 DEF TypeInv, Typed, CacheType
    <2>5. ASSUME NEW p \in Procs
          PROVE  /\ proc[p].op \in {"ask", "show", "clear", "left", None}
                 /\ proc[p].query \in Queries \cup {None}
                 /\ proc[p].copy \in Entries \cup {None}
                 /\ proc[p].stat \in 0..MaxClock
                 /\ {proc[p].seen, proc[p].result, proc[p].messages} \subseteq Messages
      BY <2>2, <2>3 DEF TypeInv, Typed, ReqType
    <2> QED BY <2>1, <2>4, <2>5 DEF TypeInv, Typed, TypeOK
  <1>2. Init => TypeInv
    BY InitToo
  <1>3. IInv /\ TypeInv /\ [Next]_vars => TypeInv'
    BY NextToo
  <1> QED BY <1>1, <1>2, <1>3, Invariance, PTL DEF Spec

\* The model and the page get from the cached tail what get_history and
\* get_history_time_window would read from the file, unless the cache was tainted: for
\* any tail, any number of messages but 0 and any window of time.
THEOREM CacheChangesNothing == ASSUME NonZeroCounts PROVE Spec => []CacheTransparent
  <1>1. TransparentInv => CacheTransparent
    BY DEF TransparentInv, AnswerInv, Right, CacheTransparent, At
  <1>2. Init => TypeInv /\ TransparentInv
    BY InitToo
  <1>3. IInv /\ TypeInv /\ TransparentInv /\ [Next]_vars => TypeInv' /\ TransparentInv'
    BY NextToo
  <1> QED BY <1>1, <1>2, <1>3, Invariance, PTL DEF Spec
=============================================================================
