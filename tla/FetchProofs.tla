---------------------------- MODULE FetchProofs ----------------------------
(***************************************************************************)
(* Proofs about modules ThreadFetch, OutboxFetch and Threads, for any      *)
(* comments, pages, shelves, objects and limits.                           *)
(*                                                                         *)
(* NothingSkipped is about a whole walk: its invariant says what every     *)
(* page read so far has shown (FoundOK), although comments are written     *)
(* above the pages meanwhile.  NothingWithheld is about a whole task: its  *)
(* invariant says that what was imported is there (ImportsOK), and that a  *)
(* source asked while nothing failed offered nothing sound (AskedOK).      *)
(* TreeShownWhole is about a tree as it stands: level by level, all that   *)
(* fits is read (FetchedAll), and what is worth showing kept (KeptWorth).  *)
(*                                                                         *)
(* What a recursive function of these modules computes is shown without an *)
(* operator parameter: a least counterexample (LeastNatural) gives         *)
(* induction for a set of naturals (EveryNatural), and that gives the      *)
(* function whose values are made one after the other (Folding).           *)
(***************************************************************************)
EXTENDS ThreadFetch, OutboxFetch, Threads, SequenceTheorems, FiniteSetTheorems,
        WellFoundedInduction, TLAPS

-----------------------------------------------------------------------------
(***************************************************************************)
(* Naturals and functions.                                                 *)
(***************************************************************************)
\* A set of naturals that is not empty has a least one.
LEMMA LeastNatural ==
  ASSUME NEW T, T \subseteq Nat, T # {}
  PROVE  \E x \in T : \A y \in T : x <= y
<1> DEFINE R == {ss \in Nat \X Nat : ss[1] < ss[2]}
<1>1. IsWellFoundedOn(R, Nat)
  BY NatLessThanWellFounded DEF OpToRel
<1> HIDE DEF R
<1>2. \E x \in T : \A y \in T : ~(<<y, x>> \in R)
  BY <1>1, WFMin
<1>3. PICK x \in T : \A y \in T : ~(<<y, x>> \in R)
  BY <1>2
<1>4. \A y \in T : ~(y < x)
  BY <1>3 DEF R
<1> QED
  BY <1>4

\* Induction, for a set of naturals.
LEMMA EveryNatural ==
  ASSUME NEW S, 0 \in S, \A n \in Nat : n \in S => n + 1 \in S
  PROVE  Nat \subseteq S
<1> SUFFICES ASSUME Nat \ S # {} PROVE FALSE
  OBVIOUS
<1>1. PICK x \in Nat \ S : \A y \in Nat \ S : x <= y
  BY LeastNatural
<1>2. x # 0 /\ x - 1 \in Nat
  BY <1>1
<1>3. x - 1 \in S
  BY <1>1, <1>2
<1> QED
  BY <1>1, <1>2, <1>3

\* What holds at first and goes on from each to the next holds of all.
LEMMA Throughout ==
  ASSUME NEW S, NEW n \in Nat, NEW f, f[0] \in S,
         \A i \in 1..n : f[i - 1] \in S => f[i] \in S
  PROVE  \A i \in 0..n : f[i] \in S
<1> DEFINE T == {k \in Nat : k <= n => f[k] \in S}
<1>1. 0 \in T
  OBVIOUS
<1>2. ASSUME NEW k \in Nat, k \in T PROVE k + 1 \in T
  <2> SUFFICES ASSUME k + 1 <= n PROVE f[k + 1] \in S
    OBVIOUS
  <2>1. k + 1 \in 1..n /\ (k + 1) - 1 = k /\ f[k] \in S
    BY <1>2
  <2> QED
    BY <2>1
<1>3. Nat \subseteq T
  <2> HIDE DEF T
  <2> QED
    BY <1>1, <1>2, EveryNatural
<1> QED
  BY <1>3

\* A function whose values are made one after the other, of what is in S.
Steps(S, a, n, step) == a \in S /\ n \in Nat /\ step \in [1..n -> [S -> S]]
Follows(S, a, n, step, g) ==
  g \in [0..n -> S] /\ g[0] = a /\ \A i \in 1..n : g[i] = step[i][g[i - 1]]

LEMMA Folding ==
  ASSUME NEW S, NEW a, NEW n, NEW step, Steps(S, a, n, step)
  PROVE  \E g : Follows(S, a, n, step, g)
<1> USE DEF Steps
<1> DEFINE Goes(g, k) == g \in [0..k -> S] /\ g[0] = a /\ \A i \in 1..k : g[i] = step[i][g[i - 1]]
           T == {k \in Nat : k <= n => \E g : Goes(g, k)}
<1>1. 0 \in T
  <2> DEFINE g == [i \in 0..0 |-> a]
  <2>1. g \in [0..0 -> S] /\ g[0] = a
    OBVIOUS
  <2>2. \A i \in 1..0 : g[i] = step[i][g[i - 1]]
    OBVIOUS
  <2> QED
    BY <2>1, <2>2
<1>2. ASSUME NEW k \in Nat, k \in T PROVE k + 1 \in T
  <2> SUFFICES ASSUME k + 1 <= n PROVE \E g : Goes(g, k + 1)
    OBVIOUS
  <2>1. PICK g : Goes(g, k)
    BY <1>2
  <2> DEFINE next == step[k + 1][g[k]]
             h == [i \in 0..(k + 1) |-> IF i <= k THEN g[i] ELSE next]
  <2>2. k + 1 \in 1..n /\ g[k] \in S
    BY <2>1
  <2>3. next \in S
    BY <2>2
  <2> HIDE DEF next
  <2>4. h \in [0..(k + 1) -> S] /\ h[0] = a
    BY <2>1, <2>3
  <2>5. \A i \in 1..(k + 1) : h[i] = step[i][h[i - 1]]
    <3> TAKE i \in 1..(k + 1)
    <3>1. i - 1 \in 0..k /\ h[i - 1] = g[i - 1]
      OBVIOUS
    <3>2. CASE i <= k
      <4>1. i \in 1..k /\ h[i] = g[i]
        BY <3>2
      <4> QED
        BY <2>1, <3>1, <4>1
    <3>3. CASE ~(i <= k)
      <4>1. i = k + 1 /\ i - 1 = k
        BY <3>3
      <4>2. h[k + 1] = next
        OBVIOUS
      <4> QED
        BY <3>1, <4>1, <4>2 DEF next
    <3> QED
      BY <3>2, <3>3
  <2> QED
    BY <2>4, <2>5
<1>3. Nat \subseteq T
  <2> HIDE DEF T
  <2> QED
    BY <1>1, <1>2, EveryNatural
<1>4. n \in T
  <2> HIDE DEF T
  <2> QED
    BY <1>3
<1> QED
  BY <1>4 DEF Follows

-----------------------------------------------------------------------------
(***************************************************************************)
(* ThreadFetch: the roots of a list, and lists that grow and shrink.       *)
(***************************************************************************)
\* The roots among the first comments of a list.
RootsUpto(s) ==
  LET Upto[i \in 0..Len(s)] ==
        IF i = 0 THEN <<>>
        ELSE IF Under[s[i]] = Top THEN Append(Upto[i - 1], s[i]) ELSE Upto[i - 1]
  IN  Upto

RootsStep(f, s, i) ==
  IF i = 0 THEN <<>> ELSE IF Under[s[i]] = Top THEN Append(f[i - 1], s[i]) ELSE f[i - 1]

LEMMA RootsAre ==
  ASSUME NEW s \in Seq(BelowPost)
  PROVE  /\ Roots(s) = RootsUpto(s)[Len(s)]
         /\ RootsUpto(s) = [i \in 0..Len(s) |-> RootsStep(RootsUpto(s), s, i)]
<1> DEFINE Def(f, n) == [i \in 0..n |-> RootsStep(f, s, i)]
           S == {n \in Nat : n <= Len(s) => \E f : f = Def(f, n)}
<1>1. 0 \in S
  <2> DEFINE f == [i \in 0..0 |-> <<>>]
  <2>1. f = Def(f, 0)
    BY DEF RootsStep
  <2> QED
    BY <2>1
<1>2. ASSUME NEW n \in Nat, n \in S PROVE n + 1 \in S
  <2> SUFFICES ASSUME n + 1 <= Len(s) PROVE \E f : f = Def(f, n + 1)
    OBVIOUS
  <2>1. PICK f : f = Def(f, n)
    BY <1>2
  <2> DEFINE g == [i \in 0..(n + 1) |-> IF i <= n THEN f[i] ELSE RootsStep(f, s, i)]
  <2>2. \A i \in 0..(n + 1) : g[i] = RootsStep(g, s, i)
    <3> TAKE i \in 0..(n + 1)
    <3>1. CASE i = 0
      BY <2>1, <3>1 DEF RootsStep
    <3>2. CASE i # 0
      <4>1. i - 1 \in 0..n /\ g[i - 1] = f[i - 1]
        BY <3>2
      <4>2. RootsStep(g, s, i) = RootsStep(f, s, i)
        BY <4>1 DEF RootsStep
      <4>3. i <= n => f[i] = RootsStep(f, s, i)
        BY <2>1
      <4> QED
        BY <4>2, <4>3
    <3> QED
      BY <3>1, <3>2
  <2>3. g = Def(g, n + 1)
    BY <2>2
  <2> QED
    BY <2>3
<1>3. Len(s) \in S
  <2> HIDE DEF S
  <2> QED
    BY <1>1, <1>2, EveryNatural
<1>4. \E f : f = [i \in 0..Len(s) |-> RootsStep(f, s, i)]
  BY <1>3
<1>5. RootsUpto(s) = CHOOSE f : f = [i \in 0..Len(s) |-> RootsStep(f, s, i)]
  BY DEF RootsUpto, RootsStep
<1>6. RootsUpto(s) = [i \in 0..Len(s) |-> RootsStep(RootsUpto(s), s, i)]
  BY <1>4, <1>5
<1>7. Roots(s) = RootsUpto(s)[Len(s)]
  BY DEF Roots, RootsUpto
<1> QED
  BY <1>6, <1>7

\* The comments among the first k of a list.
Passed(s, k) == {s[i] : i \in {j \in 1..Len(s) : j <= k}}
Distinct(s) == \A i, j \in 1..Len(s) : s[i] = s[j] => i = j
RootsIn(s, k) == {c \in Passed(s, k) : Under[c] = Top}

LEMMA SetOfAppend ==
  ASSUME NEW s \in Seq(BelowPost), NEW c \in BelowPost
  PROVE  SetOf(Append(s, c)) = SetOf(s) \cup {c}
<1>1. /\ Append(s, c) \in Seq(BelowPost) /\ Len(Append(s, c)) = Len(s) + 1 /\ Len(s) \in Nat
      /\ \A i \in 1..Len(s) : Append(s, c)[i] = s[i]
      /\ Append(s, c)[Len(s) + 1] = c
  OBVIOUS
<1>2. /\ SetOf(s) = {s[i] : i \in 1..Len(s)}
      /\ SetOf(Append(s, c)) = {Append(s, c)[i] : i \in 1..(Len(s) + 1)}
  BY <1>1 DEF SetOf
<1>3. SetOf(s) \cup {c} \subseteq SetOf(Append(s, c))
  <2>1. \A i \in 1..Len(s) : i \in 1..(Len(s) + 1) /\ Append(s, c)[i] = s[i]
    BY <1>1
  <2>2. Len(s) + 1 \in 1..(Len(s) + 1)
    BY <1>1
  <2> QED
    BY <1>1, <1>2, <2>1, <2>2
<1>4. SetOf(Append(s, c)) \subseteq SetOf(s) \cup {c}
  <2>1. \A i \in 1..(Len(s) + 1) : i \in 1..Len(s) \/ i = Len(s) + 1
    BY <1>1
  <2> QED
    BY <1>1, <1>2, <2>1
<1> QED
  BY <1>3, <1>4

\* The roots of a list are those of its comments that answer the post, each as often
\* as it is listed.
LEMMA RootsMembers ==
  ASSUME NEW s \in Seq(BelowPost)
  PROVE  /\ Roots(s) \in Seq(BelowPost) /\ SetOf(Roots(s)) = RootsIn(s, Len(s))
         /\ Distinct(s) => Distinct(Roots(s))
<1> DEFINE f == RootsUpto(s)
           Fine(n) == /\ f[n] \in Seq(BelowPost) /\ SetOf(f[n]) = RootsIn(s, n)
                      /\ Distinct(s) => Distinct(f[n])
           S == {n \in Nat : n <= Len(s) => Fine(n)}
<1>1. \A i \in 0..Len(s) : f[i] = RootsStep(f, s, i)
  BY RootsAre
<1> HIDE DEF f
<1>2. 0 \in S
  <2>1. f[0] = <<>>
    <3>1. 0 \in 0..Len(s)
      OBVIOUS
    <3> QED
      BY <1>1, <3>1 DEF RootsStep
  <2>2. SetOf(<<>>) = {} /\ Distinct(<<>>) /\ <<>> \in Seq(BelowPost)
    BY DEF SetOf, Distinct
  <2>3. RootsIn(s, 0) = {}
    BY DEF RootsIn, Passed
  <2> QED
    BY <2>1, <2>2, <2>3
<1>3. ASSUME NEW n \in Nat, n \in S PROVE n + 1 \in S
  <2> SUFFICES ASSUME n + 1 <= Len(s) PROVE Fine(n + 1)
    OBVIOUS
  <2>1. Fine(n)
    BY <1>3
  <2> DEFINE c == s[n + 1]
  <2>2. c \in BelowPost
    OBVIOUS
  <2>3. f[n + 1] = IF Under[c] = Top THEN Append(f[n], c) ELSE f[n]
    BY <1>1 DEF RootsStep
  <2>4. Passed(s, n + 1) = Passed(s, n) \cup {c}
    BY DEF Passed
  <2>5. Distinct(s) => c \notin Passed(s, n)
    BY DEF Distinct, Passed
  <2>6. CASE Under[c] = Top
    <3>1. f[n + 1] = Append(f[n], c)
      BY <2>3, <2>6
    <3>2. Len(f[n + 1]) = Len(f[n]) + 1 /\ f[n + 1] \in Seq(BelowPost)
      BY <2>1, <2>2, <3>1
    <3>3. \A i \in 1..Len(f[n + 1]) : f[n + 1][i] = IF i <= Len(f[n]) THEN f[n][i] ELSE c
      BY <2>1, <2>2, <3>1
    <3>4. SetOf(f[n + 1]) = SetOf(f[n]) \cup {c}
      BY <2>1, <2>2, <3>1, SetOfAppend
    <3>5. RootsIn(s, n + 1) = RootsIn(s, n) \cup {c}
      BY <2>4, <2>6 DEF RootsIn
    <3>6. Distinct(s) => Distinct(f[n + 1])
      <4> SUFFICES ASSUME Distinct(s), NEW i \in 1..Len(f[n + 1]), NEW j \in 1..Len(f[n + 1]),
                          f[n + 1][i] = f[n + 1][j]
                   PROVE  i = j
        BY DEF Distinct
      <4>1. c \notin SetOf(f[n])
        BY <2>1, <2>5 DEF RootsIn
      <4>2. \A k \in 1..Len(f[n]) : f[n][k] # c
        BY <2>1, <4>1 DEF SetOf
      <4> QED
        BY <2>1, <3>2, <3>3, <4>2 DEF Distinct
    <3> QED
      BY <2>1, <3>2, <3>4, <3>5, <3>6
  <2>7. CASE Under[c] # Top
    <3>1. RootsIn(s, n + 1) = RootsIn(s, n)
      BY <2>4, <2>7 DEF RootsIn
    <3> QED
      BY <2>1, <2>3, <2>7, <3>1
  <2> QED
    BY <2>6, <2>7
<1>4. Len(s) \in S
  <2> HIDE DEF S
  <2> QED
    BY <1>2, <1>3, EveryNatural
<1> QED
  BY <1>4, RootsAre DEF f

LEMMA AppendAfter ==
  ASSUME NEW a \in Seq(BelowPost), NEW b \in Seq(BelowPost), NEW d \in BelowPost
  PROVE  a \o Append(b, d) = Append(a \o b, d)
<1>1. <<d>> \in Seq(BelowPost)
  OBVIOUS
<1>2. Append(b, d) = b \o <<d>> /\ Append(a \o b, d) = (a \o b) \o <<d>>
  BY AppendIsConcat, ConcatProperties
<1> QED
  BY <1>1, <1>2, ConcatAssociative

\* A new comment comes before the others, in the list and among its roots.
LEMMA RootsGrow ==
  ASSUME NEW s \in Seq(BelowPost), NEW c \in BelowPost
  PROVE  Roots(<<c>> \o s) = IF Under[c] = Top THEN <<c>> \o Roots(s) ELSE Roots(s)
<1> DEFINE t == <<c>> \o s
           f == RootsUpto(s)
           g == RootsUpto(t)
           first == IF Under[c] = Top THEN <<c>> ELSE <<>>
           S == {n \in Nat : n <= Len(s) => g[n + 1] = first \o f[n] /\ f[n] \in Seq(BelowPost)}
<1>1. t \in Seq(BelowPost) /\ Len(t) = Len(s) + 1 /\ t[1] = c /\ \A i \in 1..Len(s) : t[i + 1] = s[i]
  OBVIOUS
<1>2. /\ \A i \in 0..Len(s) : f[i] = RootsStep(f, s, i)
      /\ \A i \in 0..Len(t) : g[i] = RootsStep(g, t, i)
  BY <1>1, RootsAre
<1>3. Roots(t) = g[Len(t)] /\ Roots(s) = f[Len(s)]
  BY <1>1, RootsAre
<1>4. first \in Seq(BelowPost) /\ first \o <<>> = first
  OBVIOUS
<1>0. first = Append(<<>>, c) \/ Under[c] # Top
  OBVIOUS
<1>x. first = <<>> \/ Under[c] = Top
  OBVIOUS
<1> HIDE DEF t, f, g, first
<1>5. 0 \in S
  <2>0. 0 \in 0..Len(s) /\ 0 \in 0..Len(t) /\ 1 \in 0..Len(t) /\ 1 - 1 = 0 /\ 0 + 1 = 1
    BY <1>1
  <2>1. f[0] = <<>> /\ g[0] = <<>>
    BY <1>2, <2>0 DEF RootsStep
  <2>2. g[1] = IF Under[c] = Top THEN Append(g[0], c) ELSE g[0]
    BY <1>1, <1>2, <2>0 DEF RootsStep
  <2>3. g[1] = first
    BY <1>0, <1>x, <2>1, <2>2
  <2>4. <<>> \in Seq(BelowPost)
    OBVIOUS
  <2> QED
    BY <1>4, <2>0, <2>1, <2>3, <2>4
<1>6. ASSUME NEW n \in Nat, n \in S PROVE n + 1 \in S
  <2> SUFFICES ASSUME n + 1 <= Len(s)
               PROVE  g[n + 1 + 1] = first \o f[n + 1] /\ f[n + 1] \in Seq(BelowPost)
    OBVIOUS
  <2>1. g[n + 1] = first \o f[n] /\ f[n] \in Seq(BelowPost)
    BY <1>6
  <2> DEFINE d == s[n + 1]
  <2>2. d \in BelowPost /\ t[n + 1 + 1] = d
    BY <1>1
  <2>3. f[n + 1] = IF Under[d] = Top THEN Append(f[n], d) ELSE f[n]
    BY <1>2 DEF RootsStep
  <2>4. g[n + 1 + 1] = IF Under[d] = Top THEN Append(g[n + 1], d) ELSE g[n + 1]
    BY <1>1, <1>2, <2>2 DEF RootsStep
  <2> HIDE DEF d
  <2>5. first \o Append(f[n], d) = Append(first \o f[n], d)
    BY <1>4, <2>1, <2>2, AppendAfter
  <2>6. Append(f[n], d) \in Seq(BelowPost)
    BY <2>1, <2>2
  <2>7. CASE Under[d] = Top
    BY <2>1, <2>3, <2>4, <2>5, <2>6, <2>7
  <2>8. CASE Under[d] # Top
    BY <2>1, <2>3, <2>4, <2>8
  <2> QED
    BY <2>7, <2>8
<1>7. Len(s) \in S
  <2> HIDE DEF S
  <2> QED
    BY <1>5, <1>6, EveryNatural
<1>8. g[Len(s) + 1] = first \o f[Len(s)] /\ f[Len(s)] \in Seq(BelowPost)
  BY <1>7
<1>9. <<>> \o f[Len(s)] = f[Len(s)]
  BY <1>8
<1> QED
  BY <1>1, <1>3, <1>8, <1>9 DEF t, first

-----------------------------------------------------------------------------
\* The product that page bounds are made of.
LEMMA PageBounds ==
  ASSUME NEW n \in Nat \ {0}
  PROVE  /\ (n - 1) * PageSize \in Nat /\ n * PageSize \in Nat
         /\ n * PageSize = (n - 1) * PageSize + PageSize /\ PageSize \in Nat \ {0}
<1>1. PageSize \in Nat \ {0}
  BY ThreadFetchAssumption
<1>2. n - 1 \in Nat
  OBVIOUS
<1>3. \A a, b \in Nat : a * b \in Nat
  OBVIOUS
<1>4. (n - 1) * PageSize = n * PageSize - PageSize
  BY <1>1
<1>5. (n - 1) * PageSize \in Nat /\ n * PageSize \in Nat
  BY <1>1, <1>2, <1>3
<1> QED
  BY <1>1, <1>4, <1>5

\* A page holds what lies between its bounds.
LEMMA PageHolds ==
  ASSUME NEW s \in Seq(BelowPost), NEW n \in Nat \ {0}
  PROVE  LET page == NthPage(s, n)
             from == (n - 1) * PageSize
         IN  /\ page \in Seq(BelowPost) /\ Len(page) \in Nat
             /\ \A i \in 1..Len(page) : from + i \in 1..Len(s) /\ page[i] = s[from + i]
             /\ Len(page) <= PageSize
             /\ \A j \in 1..Len(s) : j > from /\ j <= from + PageSize => j - from \in 1..Len(page)
             /\ Len(page) < PageSize => Len(s) <= from + PageSize
<1> DEFINE from == (n - 1) * PageSize
           to == IF from + PageSize < Len(s) THEN from + PageSize ELSE Len(s)
           page == SubSeq(s, from + 1, to)
<1>1. from \in Nat /\ PageSize \in Nat \ {0} /\ Len(s) \in Nat
  BY PageBounds
<1>2. NthPage(s, n) = page
  BY DEF NthPage
<1> HIDE DEF from
<1>3. to \in Nat /\ to <= Len(s) /\ to <= from + PageSize /\ (to = from + PageSize \/ to = Len(s))
  BY <1>1
<1>9. to < from + PageSize => to = Len(s) /\ Len(s) <= from + PageSize
  BY <1>1
<1>x. to = from + PageSize \/ Len(s) <= from + PageSize
  BY <1>1
<1> HIDE DEF to
<1>4. /\ page \in Seq(BelowPost)
      /\ Len(page) = IF from + 1 <= to THEN to - (from + 1) + 1 ELSE 0
      /\ \A i \in 1..(to - (from + 1) + 1) : page[i] = s[from + 1 + i - 1]
  <2>1. \A i \in 1..(to - (from + 1) + 1) : s[from + 1 + i - 1] \in BelowPost
    BY <1>1, <1>3
  <2>2. \A i \in (from + 1)..to : s[i] \in BelowPost
    BY <1>1, <1>3
  <2> QED
    BY <1>1, <1>3, <2>1, <2>2, SubSeqProperties
<1> HIDE DEF page
<1>5. Len(page) = IF from < to THEN to - from ELSE 0
  BY <1>1, <1>3, <1>4
<1>6. \A i \in 1..Len(page) : from + i \in 1..Len(s) /\ page[i] = s[from + i]
  BY <1>1, <1>3, <1>4, <1>5
<1>7. \A j \in 1..Len(s) : j > from /\ j <= from + PageSize => j - from \in 1..Len(page)
  BY <1>1, <1>3, <1>5, <1>9
<1>8. Len(page) \in Nat /\ Len(page) <= PageSize /\ (Len(page) < PageSize => Len(s) <= from + PageSize)
  BY <1>1, <1>3, <1>5, <1>x
<1> QED
  BY <1>2, <1>4, <1>6, <1>7, <1>8 DEF from

\* After a page, the comments before its end are those before its start and its own.
LEMMA PagePasses ==
  ASSUME NEW s \in Seq(BelowPost), NEW n \in Nat \ {0}
  PROVE  /\ SetOf(NthPage(s, n)) \subseteq SetOf(s)
         /\ Passed(s, n * PageSize) \subseteq Passed(s, (n - 1) * PageSize) \cup SetOf(NthPage(s, n))
         /\ Len(NthPage(s, n)) < PageSize => Passed(s, n * PageSize) = SetOf(s)
         /\ n * PageSize >= Len(s) => Passed(s, n * PageSize) = SetOf(s)
<1> DEFINE from == (n - 1) * PageSize
           page == NthPage(s, n)
<1>1. /\ from \in Nat /\ PageSize \in Nat \ {0} /\ Len(s) \in Nat
      /\ n * PageSize = from + PageSize
  BY PageBounds
<1>2. /\ page \in Seq(BelowPost)
      /\ \A i \in 1..Len(page) : from + i \in 1..Len(s) /\ page[i] = s[from + i]
      /\ \A j \in 1..Len(s) : j > from /\ j <= from + PageSize => j - from \in 1..Len(page)
      /\ Len(page) < PageSize => Len(s) <= from + PageSize
  BY PageHolds
<1> HIDE DEF from, page
<1>3. SetOf(page) = {page[i] : i \in 1..Len(page)} /\ SetOf(s) = {s[i] : i \in 1..Len(s)}
  BY <1>2 DEF SetOf
<1>4. SetOf(page) \subseteq SetOf(s)
  BY <1>2, <1>3
<1>5. Passed(s, from + PageSize) \subseteq Passed(s, from) \cup SetOf(page)
  <2> SUFFICES ASSUME NEW j \in 1..Len(s), j <= from + PageSize, ~(j <= from)
               PROVE  s[j] \in SetOf(page)
    BY DEF Passed
  <2>1. j - from \in 1..Len(page)
    BY <1>1, <1>2
  <2>2. from + (j - from) = j
    BY <1>1
  <2>3. page[j - from] = s[j]
    BY <1>2, <2>1, <2>2
  <2> QED
    BY <1>3, <2>1, <2>3
<1>6. Len(s) <= from + PageSize => Passed(s, from + PageSize) = SetOf(s)
  <2> SUFFICES ASSUME Len(s) <= from + PageSize PROVE Passed(s, from + PageSize) = SetOf(s)
    OBVIOUS
  <2>1. {j \in 1..Len(s) : j <= from + PageSize} = 1..Len(s)
    BY <1>1
  <2> QED
    BY <1>3, <2>1 DEF Passed
<1> QED
  BY <1>1, <1>2, <1>4, <1>5, <1>6 DEF from, page

LEMMA NonePassed ==
  ASSUME NEW s \in Seq(BelowPost)
  PROVE  Passed(s, (1 - 1) * PageSize) = {}
<1>1. (1 - 1) * PageSize = 0
  BY ThreadFetchAssumption
<1>2. {j \in 1..Len(s) : j <= 0} = {}
  OBVIOUS
<1> QED
  BY <1>1, <1>2 DEF Passed

\* A list that grows at its front moves nothing into what a reading has passed.
LEMMA PassedGrows ==
  ASSUME NEW s \in Seq(BelowPost), NEW c \in BelowPost, NEW k \in Nat
  PROVE  Passed(<<c>> \o s, k) \subseteq Passed(s, k) \cup {c}
<1> DEFINE t == <<c>> \o s
<1>1. Len(t) = Len(s) + 1 /\ t[1] = c /\ \A i \in 1..Len(s) : t[i + 1] = s[i]
  OBVIOUS
<1> HIDE DEF t
<1>2. ASSUME NEW i \in 1..Len(t), i <= k PROVE t[i] \in Passed(s, k) \cup {c}
  <2>1. CASE i = 1
    BY <1>1, <2>1
  <2>2. CASE i # 1
    <3>1. i - 1 \in 1..Len(s) /\ i - 1 <= k /\ (i - 1) + 1 = i
      BY <1>1, <1>2, <2>2
    <3>2. t[i] = s[i - 1]
      BY <1>1, <3>1
    <3> QED
      BY <3>1, <3>2 DEF Passed
  <2> QED
    BY <2>1, <2>2
<1> QED
  BY <1>2 DEF t, Passed

LEMMA SetsOfFinite ==
  ASSUME NEW s \in Seq(BelowPost)
  PROVE  /\ IsFiniteSet(SetOf(s)) /\ SetOf(s) \subseteq BelowPost
         /\ Distinct(s) => Cardinality(SetOf(s)) = Len(s)
<1> DEFINE f == [i \in 1..Len(s) |-> s[i]]
<1>1. SetOf(s) = {s[i] : i \in 1..Len(s)} /\ Len(s) \in Nat
  BY DEF SetOf
<1>2. IsFiniteSet(1..Len(s)) /\ Cardinality(1..Len(s)) = Len(s)
  BY <1>1, FS_Interval
<1>3. f \in Surjection(1..Len(s), SetOf(s))
  BY <1>1 DEF Surjection
<1>4. IsFiniteSet(SetOf(s))
  BY <1>2, <1>3, FS_Surjection
<1>5. Distinct(s) => f \in Injection(1..Len(s), SetOf(s))
  BY <1>1 DEF Injection, IsInjective, Distinct
<1>6. Cardinality(SetOf(s)) = Cardinality(1..Len(s)) <=> f \in Injection(1..Len(s), SetOf(s))
  BY <1>2, <1>3, FS_Surjection
<1> QED
  BY <1>1, <1>2, <1>4, <1>5, <1>6

LEMMA PagesCounted ==
  ASSUME NEW s \in Seq(BelowPost), NEW n \in Nat \ {0}
  PROVE  /\ IsFiniteSet(SetOf(NthPage(s, n))) /\ NthPage(s, n) \in Seq(BelowPost)
         /\ Len(NthPage(s, n)) \in Nat /\ Len(NthPage(s, n)) <= PageSize
         /\ Distinct(s) => Cardinality(SetOf(NthPage(s, n))) = Len(NthPage(s, n))
<1> DEFINE from == (n - 1) * PageSize
           page == NthPage(s, n)
<1>1. from \in Nat
  BY PageBounds
<1>2. /\ page \in Seq(BelowPost) /\ Len(page) \in Nat /\ Len(page) <= PageSize
      /\ \A i \in 1..Len(page) : from + i \in 1..Len(s) /\ page[i] = s[from + i]
  BY PageHolds
<1> HIDE DEF from, page
<1>3. Distinct(s) => Distinct(page)
  <2> SUFFICES ASSUME Distinct(s), NEW i \in 1..Len(page), NEW j \in 1..Len(page), page[i] = page[j]
               PROVE  i = j
    BY DEF Distinct
  <2>1. from + i = from + j
    BY <1>2 DEF Distinct
  <2> QED
    BY <1>1, <1>2, <2>1
<1> QED
  BY <1>2, <1>3, SetsOfFinite DEF page

\* A finite set has a part of every size up to its own.
LEMMA PartOfSize ==
  ASSUME NEW T, IsFiniteSet(T), NEW k \in Nat, k <= Cardinality(T)
  PROVE  \E U \in SUBSET T : Cardinality(U) = k
<1> DEFINE S == {m \in Nat : m <= Cardinality(T) => \E U \in SUBSET T : Cardinality(U) = m}
<1>0. Cardinality(T) \in Nat
  BY FS_CardinalityType
<1>1. 0 \in S
  BY FS_EmptySet
<1>2. ASSUME NEW m \in Nat, m \in S PROVE m + 1 \in S
  <2> SUFFICES ASSUME m + 1 <= Cardinality(T) PROVE \E U \in SUBSET T : Cardinality(U) = m + 1
    OBVIOUS
  <2>1. PICK U \in SUBSET T : Cardinality(U) = m
    BY <1>0, <1>2
  <2>2. PICK x \in T : x \notin U
    BY <1>0, <2>1
  <2>3. IsFiniteSet(U)
    BY FS_Subset
  <2>4. Cardinality(U \cup {x}) = m + 1
    BY <2>1, <2>2, <2>3, FS_AddElement
  <2> QED
    BY <2>4
<1>3. k \in S
  <2> HIDE DEF S
  <2> QED
    BY <1>1, <1>2, EveryNatural
<1> QED
  BY <1>3

-----------------------------------------------------------------------------
(***************************************************************************)
(* ThreadFetch: the inductive invariant.                                   *)
(***************************************************************************)
ReadingStates ==
  [kind : Kinds \cup {"none"}, at : {"idle", "post", "score", "page", "threads", "ingest"},
   page : Nat \ {0}, notes : Nat, found : SUBSET BelowPost, tried : SUBSET BelowPost,
   began : SUBSET BelowPost, whole : BOOLEAN]

ThreadTypes ==
  /\ platform \in Platforms /\ fate \in {"tracked", "untracked", "gone"}
  /\ thread \in Seq(BelowPost) /\ ingested \subseteq Theirs
  /\ mark \in [Mine -> {"here", "sent", "posted"}] /\ like \in {"none", "sent", "listed", "posted"}
  /\ tasks \in [Kinds -> [row : {"none", "pending", "running"}, tries : 0..MaxTries]]
  /\ reading \in ReadingStates /\ readings \in 0..MaxWalks /\ moves \in 0..MaxMoves

\* A thread lists a comment once, and what it answers.
ListOK == Distinct(thread) /\ \A c \in InThread : Under[c] \in InThread \cup {Top}

\* A task that may be taken has a try left; a thread is read where the software is known.
TriesOK ==
  /\ \A k \in Kinds : tasks[k].row = "pending" => tasks[k].tries < MaxTries
  /\ tasks["thread"].row # "none" => Supported

\* How far a reading is: which task it is of, and in Mbin how many notes it may have.
StageOK ==
  /\ reading.at \in {"score", "threads", "ingest"} => reading.kind = "thread"
  /\ reading.at = "page" => reading.kind \in {"thread", "replies"}
  /\ reading.at = "post" => reading.kind = "refresh"
  /\ reading.at # "idle" /\ reading.kind = "thread" => Supported
  /\ reading.at = "threads" => platform = "peertube"
  /\ reading.at = "score" \/ (reading.at = "page" /\ platform = "piefed" /\ reading.kind = "thread")
       => reading.page = 1
  /\ reading.at \in {"score", "page"} /\ platform = "mbin" => reading.notes <= PageSize * MaxPages

\* Of the comments that were there when the reading began: those that a reading at
\* its page should have found by now, by what it walks through.
Walked == IF reading.kind = "thread" /\ platform \in {"peertube", "mbin"} THEN Roots(thread) ELSE thread
Behind == Passed(Walked, (reading.page - 1) * PageSize) \cap Usable(reading.began)
Due ==
  IF reading.kind = "thread" /\ platform = "mbin"
  THEN Behind \cup {c \in Usable(reading.began) : Under[c] \in Behind} ELSE Behind

\* A reading that nothing has cut short has found them, and what is left is still there.
StartOK ==
  reading.whole /\ reading.at # "idle" =>
    /\ reading.began \subseteq InThread
    /\ \A c \in reading.began : Under[c] \in reading.began \cup {Top}

FoundOK ==
  reading.whole =>
    /\ reading.at \in {"score", "page"} /\ reading.kind = "thread" => Due \subseteq reading.found
    /\ reading.at = "page" /\ reading.kind = "replies" => Due \subseteq reading.tried
    /\ reading.at = "threads" => {c \in reading.began : Under[c] = Top} \subseteq reading.found
    /\ reading.at = "ingest" => Usable(reading.began) \subseteq reading.found
    /\ reading.at = "idle" => Usable(reading.began) \subseteq reading.tried

ThreadInv == ThreadTypes /\ ListOK /\ TriesOK /\ StageOK /\ StartOK /\ FoundOK

LEMMA ThreadIs ==
  ASSUME ThreadTypes
  PROVE  /\ InThread = SetOf(thread) /\ InThread \subseteq BelowPost /\ IsFiniteSet(InThread)
<1>1. InThread = SetOf(thread)
  BY DEF InThread, SetOf
<1> QED
  BY <1>1, SetsOfFinite DEF ThreadTypes

LEMMA ThreadInitInv == ThreadFetchInit => ThreadInv
<1> SUFFICES ASSUME ThreadFetchInit PROVE ThreadInv
  OBVIOUS
<1>1. NoWalk \in ReadingStates /\ reading = NoWalk
  BY DEF ThreadFetchInit, NoWalk, ReadingStates, Kinds
<1>2. /\ thread \in Seq(BelowPost) /\ \A i, j \in 1..Len(thread) : thread[i] = thread[j] => i = j
      /\ \A i \in 1..Len(thread) : Under[thread[i]] \in {Top} \cup {thread[j] : j \in 1..Len(thread)}
  BY ThreadFetchAssumption DEF ThreadFetchInit
<1>3. InThread = {thread[j] : j \in 1..Len(thread)}
  BY <1>2 DEF InThread
<1>4. ListOK
  BY <1>2, <1>3 DEF ListOK, Distinct
<1>5. ThreadTypes /\ TriesOK
  BY <1>1, <1>2, ThreadFetchAssumption DEF ThreadFetchInit, ThreadTypes, TriesOK, Kinds, NoTask
<1>6. StageOK /\ StartOK /\ FoundOK
  BY <1>1 DEF NoWalk, StageOK, StartOK, FoundOK
<1> QED
  BY <1>4, <1>5, <1>6 DEF ThreadInv

LEMMA EnqueuedTypes ==
  ASSUME NEW ts \in [Kinds -> [row : {"none", "pending", "running"}, tries : 0..MaxTries]], NEW kinds,
         \A k \in Kinds : ts[k].row = "pending" => ts[k].tries < MaxTries,
         ts["thread"].row # "none" => Supported
  PROVE  LET new == Enqueued(ts, kinds)
         IN  /\ new \in [Kinds -> [row : {"none", "pending", "running"}, tries : 0..MaxTries]]
             /\ \A k \in Kinds : new[k].row = "pending" => new[k].tries < MaxTries
             /\ new["thread"].row # "none" => Supported
<1>1. [row |-> "pending", tries |-> 0] \in [row : {"none", "pending", "running"}, tries : 0..MaxTries]
  BY ThreadFetchAssumption
<1>2. 0 < MaxTries
  BY ThreadFetchAssumption
<1>3. "thread" \in Kinds
  BY DEF Kinds
<1> QED
  BY <1>1, <1>2, <1>3 DEF Enqueued

LEMMA EndedTypes ==
  ASSUME NEW ts \in [Kinds -> [row : {"none", "pending", "running"}, tries : 0..MaxTries]], NEW kind,
         \A k \in Kinds : ts[k].row = "pending" => ts[k].tries < MaxTries,
         ts["thread"].row # "none" => Supported
  PROVE  LET new == Ended(ts, kind)
         IN  /\ new \in [Kinds -> [row : {"none", "pending", "running"}, tries : 0..MaxTries]]
             /\ \A k \in Kinds : new[k].row = "pending" => new[k].tries < MaxTries
             /\ new["thread"].row # "none" => Supported
<1>1. NoTask \in [row : {"none", "pending", "running"}, tries : 0..MaxTries]
  BY ThreadFetchAssumption DEF NoTask
<1>2. "thread" \in Kinds
  BY DEF Kinds
<1> QED
  BY <1>1, <1>2 DEF Ended, NoTask

\* Nothing a step of the surroundings or of another task does disturbs the reading.
LEMMA ReadingUndisturbed ==
  ASSUME ThreadInv, UNCHANGED <<platform, thread, reading>>
  PROVE  ListOK' /\ StageOK' /\ StartOK' /\ FoundOK'
<1>1. InThread' = InThread /\ Walked' = Walked /\ Behind' = Behind /\ Due' = Due
  BY DEF InThread, Walked, Behind, Due
<1>2. ListOK' /\ StartOK'
  BY <1>1 DEF ThreadInv, ListOK, StartOK
<1>3. StageOK'
  BY DEF ThreadInv, StageOK, Supported
<1>4. FoundOK'
  BY <1>1 DEF ThreadInv, FoundOK
<1> QED
  BY <1>2, <1>3, <1>4

LEMMA SurroundingsKeep ==
  ASSUME ThreadInv,
         \/ \E m \in Mine, full \in BOOLEAN : Delivered(m, full)
         \/ \E full \in BOOLEAN : LikeDelivered(full) \/ PostIngested(full)
         \/ LikeListed
         \/ \E p \in {"tracked", "untracked", "gone"} : PostChanges(p)
  PROVE  ThreadInv'
<1>1. UNCHANGED <<platform, thread, reading, ingested, readings>>
  BY DEF Delivered, LikeDelivered, LikeListed, PostIngested, PostChanges, Elsewhere
<1>2. moves' \in 0..MaxMoves
  BY ThreadFetchAssumption
     DEF ThreadInv, ThreadTypes, Delivered, LikeDelivered, LikeListed, PostIngested, PostChanges, Elsewhere
<1>3. fate' \in {"tracked", "untracked", "gone"}
  BY DEF ThreadInv, ThreadTypes, Delivered, LikeDelivered, LikeListed, PostIngested, PostChanges
<1>4. /\ mark' \in [Mine -> {"here", "sent", "posted"}]
      /\ like' \in {"none", "sent", "listed", "posted"}
  BY DEF ThreadInv, ThreadTypes, Delivered, LikeDelivered, LikeListed, PostIngested, PostChanges
<1>5. /\ tasks' \in [Kinds -> [row : {"none", "pending", "running"}, tries : 0..MaxTries]]
      /\ TriesOK'
  <2>1. /\ tasks \in [Kinds -> [row : {"none", "pending", "running"}, tries : 0..MaxTries]]
        /\ \A k \in Kinds : tasks[k].row = "pending" => tasks[k].tries < MaxTries
        /\ tasks["thread"].row # "none" => Supported
    BY DEF ThreadInv, ThreadTypes, TriesOK
  <2>2. tasks' = tasks \/ \E kinds : tasks' = Enqueued(tasks, kinds)
    BY DEF Delivered, LikeDelivered, LikeListed, PostIngested, PostChanges, AfterComment, AfterLike, AfterPost
  <2>3. Supported' <=> Supported
    BY <1>1 DEF Supported
  <2> QED
    BY <2>1, <2>2, <2>3, EnqueuedTypes DEF TriesOK
<1> QED
  BY <1>1, <1>2, <1>3, <1>4, <1>5, ReadingUndisturbed DEF ThreadInv, ThreadTypes

\* A list that begins with a comment it did not have.
LEMMA ListGrows ==
  ASSUME NEW s \in Seq(BelowPost), NEW c \in BelowPost
  PROVE  /\ <<c>> \o s \in Seq(BelowPost) /\ SetOf(<<c>> \o s) = {c} \cup SetOf(s)
         /\ Distinct(s) /\ c \notin SetOf(s) => Distinct(<<c>> \o s)
<1> DEFINE t == <<c>> \o s
<1>1. /\ t \in Seq(BelowPost) /\ Len(t) = Len(s) + 1 /\ Len(s) \in Nat
      /\ t[1] = c /\ \A i \in 1..Len(s) : t[i + 1] = s[i]
  OBVIOUS
<1> HIDE DEF t
<1>2. SetOf(t) = {t[i] : i \in 1..Len(t)} /\ SetOf(s) = {s[i] : i \in 1..Len(s)}
  <2>1. DOMAIN t = 1..Len(t) /\ DOMAIN s = 1..Len(s)
    BY <1>1, LenProperties
  <2> QED
    BY <2>1 DEF SetOf
<1>3. \A i \in 1..Len(t) : i = 1 \/ (i - 1 \in 1..Len(s) /\ t[i] = s[i - 1])
  <2> TAKE i \in 1..Len(t)
  <2>1. i # 1 => i - 1 \in 1..Len(s) /\ (i - 1) + 1 = i
    BY <1>1
  <2>2. i # 1 => t[(i - 1) + 1] = s[i - 1]
    BY <1>1, <2>1
  <2> QED
    BY <2>1, <2>2
<1>4. SetOf(t) \subseteq {c} \cup SetOf(s)
  <2>1. \A i \in 1..Len(t) : t[i] \in {c} \cup SetOf(s)
    BY <1>1, <1>2, <1>3
  <2> QED
    BY <1>2, <2>1
<1>5. {c} \cup SetOf(s) \subseteq SetOf(t)
  <2>1. \A i \in 1..Len(s) : i + 1 \in 1..Len(t) /\ t[i + 1] = s[i]
    BY <1>1
  <2>2. 1 \in 1..Len(t)
    BY <1>1
  <2> QED
    BY <1>1, <1>2, <2>1, <2>2
<1>6. ASSUME Distinct(s), c \notin SetOf(s) PROVE Distinct(t)
  <2> SUFFICES ASSUME NEW i \in 1..Len(t), NEW j \in 1..Len(t), t[i] = t[j] PROVE i = j
    BY DEF Distinct
  <2>1. \A k \in 1..Len(s) : s[k] # c
    BY <1>2, <1>6
  <2>2. i = 1 <=> j = 1
    BY <1>1, <1>3, <2>1
  <2>3. i # 1 => i - 1 = j - 1
    BY <1>3, <1>6, <2>2 DEF Distinct
  <2> QED
    BY <2>2, <2>3
<1> QED
  BY <1>1, <1>4, <1>5, <1>6 DEF t

\* A comment that appears was not there when the reading began.
LEMMA AppearsKeeps ==
  ASSUME ThreadInv, NEW c \in BelowPost, Appears(c)
  PROVE  ThreadInv'
<1>1. /\ UNCHANGED <<platform, fate, mark, like, tasks, reading, ingested, readings>>
      /\ moves < MaxMoves /\ moves' = moves + 1 /\ thread' = <<c>> \o thread
      /\ c \notin InThread /\ Under[c] \in InThread \cup {Top}
  BY DEF Appears, Elsewhere
<1>2. thread \in Seq(BelowPost) /\ InThread = SetOf(thread) /\ InThread \subseteq BelowPost
  BY ThreadIs DEF ThreadInv, ThreadTypes
<1>3. thread' \in Seq(BelowPost) /\ SetOf(thread') = {c} \cup InThread
  BY <1>1, <1>2, ListGrows
<1>4. InThread' = {c} \cup InThread
  BY <1>3 DEF InThread, SetOf
<1>5. ThreadTypes'
  BY <1>1, <1>3, ThreadFetchAssumption DEF ThreadInv, ThreadTypes
<1>6. ListOK'
  BY <1>1, <1>2, <1>4, ListGrows DEF ThreadInv, ListOK
<1>7. TriesOK' /\ StageOK'
  BY <1>1 DEF ThreadInv, TriesOK, StageOK, Supported
<1>8. StartOK'
  BY <1>1, <1>4 DEF ThreadInv, StartOK
<1>9. FoundOK'
  <2> DEFINE k == (reading.page - 1) * PageSize
  <2>1. reading.page \in Nat \ {0} /\ reading.began \subseteq BelowPost
    BY DEF ThreadInv, ThreadTypes, ReadingStates
  <2>2. k \in Nat
    BY <2>1, PageBounds
  <2> HIDE DEF k
  <2>3. Roots(thread) \in Seq(BelowPost)
    BY <1>2, RootsMembers
  <2>4. Walked \in Seq(BelowPost) /\ (Walked' = Walked \/ Walked' = <<c>> \o Walked)
    BY <1>1, <1>2, <2>3, RootsGrow DEF Walked
  <2>5. Passed(Walked', k) \subseteq Passed(Walked, k) \cup {c}
    BY <2>2, <2>4, PassedGrows
  <2>6. ASSUME reading.whole, reading.at # "idle" PROVE Due' \subseteq Due
    <3>1. c \notin Usable(reading.began)
      BY <1>1, <2>6 DEF ThreadInv, StartOK, Usable
    <3>2. Behind' = Passed(Walked', k) \cap Usable(reading.began)
      BY <1>1 DEF Behind, Usable, k
    <3>3. Behind = Passed(Walked, k) \cap Usable(reading.began)
      BY DEF Behind, k
    <3>4. Behind' \subseteq Behind
      BY <2>5, <3>1, <3>2, <3>3
    <3> QED
      BY <1>1, <3>4 DEF Due, Usable
  <2>7. reading' = reading /\ Usable(reading.began)' = Usable(reading.began)
    BY <1>1 DEF Usable
  <2> HIDE DEF Due
  <2> QED
    BY <2>6, <2>7 DEF ThreadInv, FoundOK
<1> QED
  BY <1>5, <1>6, <1>7, <1>8, <1>9 DEF ThreadInv

\* A list without one of its comments.
LEMMA ListShrinks ==
  ASSUME NEW s \in Seq(BelowPost), Distinct(s), NEW i \in 1..Len(s)
  PROVE  LET t == SubSeq(s, 1, i - 1) \o SubSeq(s, i + 1, Len(s))
         IN  t \in Seq(BelowPost) /\ Distinct(t) /\ SetOf(t) = SetOf(s) \ {s[i]}
<1> DEFINE a == SubSeq(s, 1, i - 1)
           b == SubSeq(s, i + 1, Len(s))
           t == a \o b
           Old(j) == IF j < i THEN j ELSE j + 1
<1>0. Len(s) \in Nat /\ i \in Nat /\ 1 <= i /\ i <= Len(s)
  OBVIOUS
<1>1. a \in Seq(BelowPost) /\ Len(a) = i - 1 /\ \A j \in 1..(i - 1) : a[j] = s[j]
  OBVIOUS
<1>2. b \in Seq(BelowPost) /\ Len(b) = Len(s) - i /\ \A j \in 1..(Len(s) - i) : b[j] = s[j + i]
  OBVIOUS
<1> HIDE DEF a, b
<1>x. /\ t \in Seq(BelowPost) /\ Len(t) = Len(a) + Len(b)
      /\ \A j \in 1..(Len(a) + Len(b)) : t[j] = IF j <= Len(a) THEN a[j] ELSE b[j - Len(a)]
  BY <1>1, <1>2, ConcatProperties
<1> HIDE DEF t
<1>3. t \in Seq(BelowPost) /\ Len(t) = Len(s) - 1
  BY <1>0, <1>1, <1>2, <1>x
<1>4. \A j \in 1..Len(t) : Old(j) \in 1..Len(s) /\ Old(j) # i /\ t[j] = s[Old(j)]
  <2> TAKE j \in 1..Len(t)
  <2>0. t[j] = IF j <= Len(a) THEN a[j] ELSE b[j - Len(a)]
    BY <1>x
  <2>1. CASE j < i
    <3>1. j \in 1..Len(a) /\ t[j] = a[j]
      BY <1>0, <1>1, <1>3, <2>0, <2>1
    <3> QED
      BY <1>0, <1>1, <1>3, <2>1, <3>1
  <2>2. CASE j >= i
    <3>1. j - Len(a) \in 1..Len(b)
      BY <1>0, <1>1, <1>2, <1>3, <2>2
    <3>2. t[j] = b[j - Len(a)]
      BY <1>0, <1>1, <2>0, <2>2
    <3>3. j - Len(a) + i = j + 1
      BY <1>0, <1>1
    <3>4. b[j - Len(a)] = s[j - Len(a) + i]
      BY <1>1, <1>2, <3>1
    <3> QED
      BY <1>0, <1>3, <2>2, <3>2, <3>3, <3>4
  <2> QED
    BY <1>0, <2>1, <2>2
<1>5. \A j \in 1..Len(s) : j # i => \E k \in 1..Len(t) : Old(k) = j
  <2> TAKE j \in 1..Len(s)
  <2> HAVE j # i
  <2>1. CASE j < i
    <3>1. j \in 1..Len(t) /\ Old(j) = j
      BY <1>0, <1>3, <2>1
    <3> QED
      BY <3>1
  <2>2. CASE ~(j < i)
    <3>1. j - 1 \in 1..Len(t) /\ Old(j - 1) = j
      BY <1>0, <1>3, <2>2
    <3> QED
      BY <3>1
  <2> QED
    BY <2>1, <2>2
<1>6. \A j, k \in 1..Len(t) : Old(j) = Old(k) => j = k
  BY <1>0, <1>3
<1> HIDE DEF Old
<1>7. SetOf(t) = {t[j] : j \in 1..Len(t)} /\ SetOf(s) = {s[j] : j \in 1..Len(s)}
  BY <1>3 DEF SetOf
<1>8. SetOf(t) \subseteq SetOf(s) \ {s[i]}
  BY <1>4, <1>7 DEF Distinct
<1>9. SetOf(s) \ {s[i]} \subseteq SetOf(t)
  BY <1>4, <1>5, <1>7
<1>10. Distinct(t)
  BY <1>4, <1>6 DEF Distinct
<1> QED
  BY <1>3, <1>8, <1>9, <1>10 DEF t, a, b

LEMMA DisappearsKeeps ==
  ASSUME ThreadInv, NEW c \in BelowPost, Disappears(c)
  PROVE  ThreadInv'
<1>1. /\ UNCHANGED <<platform, fate, mark, like, tasks, ingested, readings>>
      /\ moves < MaxMoves /\ moves' = moves + 1 /\ \A d \in InThread : Under[d] # c
      /\ reading' = [reading EXCEPT !.whole = FALSE]
  BY DEF Disappears, Elsewhere
<1>2. thread \in Seq(BelowPost) /\ InThread = SetOf(thread) /\ Distinct(thread)
  BY ThreadIs DEF ThreadInv, ThreadTypes, ListOK
<1>3. PICK i \in 1..Len(thread) :
        /\ thread[i] = c
        /\ thread' = SubSeq(thread, 1, i - 1) \o SubSeq(thread, i + 1, Len(thread))
  <2>1. DOMAIN thread = 1..Len(thread)
    BY <1>2
  <2> QED
    BY <2>1 DEF Disappears
<1>4. thread' \in Seq(BelowPost) /\ Distinct(thread') /\ SetOf(thread') = InThread \ {c}
  BY <1>2, <1>3, ListShrinks
<1>5. InThread' = InThread \ {c}
  BY <1>4 DEF InThread, SetOf
<1>6. reading' \in ReadingStates /\ reading'.whole = FALSE /\ reading'.at = reading.at
      /\ reading'.kind = reading.kind /\ reading'.page = reading.page /\ reading'.notes = reading.notes
  BY <1>1 DEF ThreadInv, ThreadTypes, ReadingStates
<1>7. ThreadTypes'
  BY <1>1, <1>4, <1>6, ThreadFetchAssumption DEF ThreadInv, ThreadTypes
<1>8. ListOK' /\ TriesOK'
  BY <1>1, <1>4, <1>5 DEF ThreadInv, ListOK, TriesOK, Supported
<1>9. StageOK'
  BY <1>1, <1>6 DEF ThreadInv, StageOK, Supported
<1>10. StartOK' /\ FoundOK'
  BY <1>6 DEF StartOK, FoundOK
<1> QED
  BY <1>7, <1>8, <1>9, <1>10 DEF ThreadInv

LEMMA StartOfReading ==
  ASSUME NEW kind \in Kinds, NEW stage \in {"post", "score", "page"}, NEW cs \in SUBSET BelowPost
  PROVE  [NoWalk EXCEPT !.kind = kind, !.began = cs, !.whole = TRUE, !.at = stage] \in ReadingStates
<1>1. NoWalk \in ReadingStates
  BY DEF NoWalk, ReadingStates
<1> QED
  BY <1>1 DEF ReadingStates

\* A reading that begins has walked through nothing.
LEMMA TakeTaskKeeps ==
  ASSUME ThreadInv, NEW kind \in Kinds, TakeTask(kind)
  PROVE  ThreadInv'
<1> DEFINE stage == IF kind = "thread" /\ platform # "mbin" THEN "score"
                    ELSE IF kind = "refresh" THEN "post" ELSE "page"
           start == [NoWalk EXCEPT !.kind = kind, !.began = InThread, !.whole = TRUE, !.at = stage]
<1>1. /\ UNCHANGED <<platform, fate, thread, ingested, mark, like, moves>>
      /\ reading.at = "idle" /\ readings < MaxWalks /\ readings' = readings + 1
      /\ tasks[kind].row = "pending"
  BY DEF TakeTask
<1>2. /\ tasks \in [Kinds -> [row : {"none", "pending", "running"}, tries : 0..MaxTries]]
      /\ \A k \in Kinds : tasks[k].row = "pending" => tasks[k].tries < MaxTries
      /\ tasks["thread"].row # "none" => Supported
      /\ readings \in 0..MaxWalks
  BY DEF ThreadInv, ThreadTypes, TriesOK
<1>3. InThread' = InThread /\ InThread \subseteq BelowPost /\ Supported' = Supported
  BY <1>1, ThreadIs DEF ThreadInv, InThread, Supported
<1>4. readings' \in 0..MaxWalks
  BY <1>1, <1>2, ThreadFetchAssumption
<1>5. CASE tasks' = Ended(tasks, kind) /\ UNCHANGED reading
  <2>1. /\ tasks' \in [Kinds -> [row : {"none", "pending", "running"}, tries : 0..MaxTries]]
        /\ TriesOK'
    BY <1>2, <1>3, <1>5, EndedTypes DEF TriesOK
  <2> QED
    BY <1>1, <1>4, <1>5, <2>1, ReadingUndisturbed DEF ThreadInv, ThreadTypes
<1>6. CASE /\ tasks' = [tasks EXCEPT ![kind] = [row |-> "running", tries |-> tasks[kind].tries + 1]]
           /\ reading' = start
  <2>1. start \in ReadingStates
    <3>1. stage \in {"post", "score", "page"}
      OBVIOUS
    <3> HIDE DEF stage
    <3> QED
      BY <1>3, <3>1, StartOfReading
  <2>2. /\ start.kind = kind /\ start.began = InThread /\ start.whole = TRUE /\ start.page = 1
        /\ start.notes = 0 /\ start.found = {} /\ start.tried = {}
        /\ start.at = IF kind = "thread" /\ platform # "mbin" THEN "score"
                      ELSE IF kind = "refresh" THEN "post" ELSE "page"
    BY DEF NoWalk
  <2> HIDE DEF start
  <2>3. tasks[kind].tries \in 0..MaxTries /\ tasks[kind].tries < MaxTries
    BY <1>1, <1>2
  <2>4. /\ tasks' \in [Kinds -> [row : {"none", "pending", "running"}, tries : 0..MaxTries]]
        /\ TriesOK'
    <3>1. [row |-> "running", tries |-> tasks[kind].tries + 1]
            \in [row : {"none", "pending", "running"}, tries : 0..MaxTries]
      BY <2>3, ThreadFetchAssumption
    <3>2. "thread" \in Kinds
      BY DEF Kinds
    <3>3. kind = "thread" => Supported
      BY <1>1, <1>2
    <3> QED
      BY <1>2, <1>3, <1>6, <3>1, <3>2, <3>3 DEF TriesOK
  <2>5. ThreadTypes'
    BY <1>1, <1>4, <1>6, <2>1, <2>4 DEF ThreadInv, ThreadTypes
  <2>6. ListOK'
    BY <1>1, <1>3 DEF ThreadInv, ListOK
  <2>7. 0 <= PageSize * MaxPages
    <3>1. \A a, b \in Nat : a * b \in Nat
      OBVIOUS
    <3>2. PageSize * MaxPages \in Nat
      BY <3>1, ThreadFetchAssumption
    <3> QED
      BY <3>2
  <2>8. StageOK'
    <3>1. kind = "thread" => Supported
      BY <1>1, <1>2
    <3> QED
      BY <1>1, <1>3, <1>6, <2>2, <2>7, <3>1 DEF StageOK, Kinds
  <2>9. StartOK'
    BY <1>3, <1>6, <2>2 DEF ThreadInv, ListOK, StartOK
  <2>10. FoundOK'
    <3>1. Walked' \in Seq(BelowPost)
      BY <2>5, RootsMembers DEF ThreadTypes, Walked
    <3>2. Behind' = {}
      BY <1>6, <2>2, <3>1, NonePassed DEF Behind
    <3>3. Due' = {}
      BY <3>2 DEF Due
    <3>4. reading'.at \in {"score", "page", "post"}
      BY <1>6, <2>2
    <3> HIDE DEF Due
    <3> QED
      BY <3>3, <3>4 DEF FoundOK
  <2> QED
    BY <2>4, <2>5, <2>6, <2>8, <2>9, <2>10 DEF ThreadInv
<1> QED
  BY <1>5, <1>6 DEF TakeTask

\* Without a reading there is nothing to say of it.
LEMMA NoReadingKeeps ==
  ASSUME ThreadInv, UNCHANGED <<platform, thread>>, reading' = NoWalk
  PROVE  ListOK' /\ StageOK' /\ StartOK' /\ FoundOK' /\ reading' \in ReadingStates
<1>1. NoWalk \in ReadingStates
  BY DEF NoWalk, ReadingStates
<1>2. InThread' = InThread
  BY DEF InThread
<1>3. ListOK'
  BY <1>2 DEF ThreadInv, ListOK
<1>4. reading'.at = "idle" /\ reading'.whole = FALSE
  BY DEF NoWalk
<1> QED
  BY <1>1, <1>3, <1>4 DEF StageOK, StartOK, FoundOK

LEMMA RefreshKeeps ==
  ASSUME ThreadInv, NEW readable \in BOOLEAN, NEW full \in BOOLEAN, Refresh(readable, full)
  PROVE  ThreadInv'
<1>1. /\ UNCHANGED <<platform, fate, thread, ingested, mark, readings, moves>>
      /\ tasks' = Enqueued(Ended(tasks, "refresh"), {"replies"} \cup ThreadUnless(full))
      /\ like' \in {like, "posted"} /\ reading' = NoWalk
  BY DEF Refresh, AfterPost, LikesRead
<1>2. /\ tasks \in [Kinds -> [row : {"none", "pending", "running"}, tries : 0..MaxTries]]
      /\ \A k \in Kinds : tasks[k].row = "pending" => tasks[k].tries < MaxTries
      /\ tasks["thread"].row # "none" => Supported
  BY DEF ThreadInv, ThreadTypes, TriesOK
<1> DEFINE ended == Ended(tasks, "refresh")
<1>3. /\ ended \in [Kinds -> [row : {"none", "pending", "running"}, tries : 0..MaxTries]]
      /\ \A k \in Kinds : ended[k].row = "pending" => ended[k].tries < MaxTries
      /\ ended["thread"].row # "none" => Supported
  BY <1>2, EndedTypes
<1> HIDE DEF ended
<1>4. /\ tasks' \in [Kinds -> [row : {"none", "pending", "running"}, tries : 0..MaxTries]]
      /\ \A k \in Kinds : tasks'[k].row = "pending" => tasks'[k].tries < MaxTries
      /\ tasks'["thread"].row # "none" => Supported
  BY <1>1, <1>3, EnqueuedTypes DEF ended
<1>5. TriesOK'
  BY <1>1, <1>4 DEF TriesOK, Supported
<1> QED
  BY <1>1, <1>4, <1>5, NoReadingKeeps DEF ThreadInv, ThreadTypes

LEMMA RequestFailsKeeps ==
  ASSUME ThreadInv, NEW permanent \in BOOLEAN, RequestFails(permanent)
  PROVE  ThreadInv'
<1>1. /\ UNCHANGED <<platform, fate, thread, ingested, mark, like, readings, moves>>
      /\ \/ tasks' = Ended(tasks, reading.kind)
         \/ ~(tasks[reading.kind].tries >= MaxTries) /\ tasks' = [tasks EXCEPT ![reading.kind].row = "pending"]
      /\ reading' = NoWalk
      /\ reading.at \in {"post", "score", "page"}
  BY DEF RequestFails, Failed
<1>2. /\ tasks \in [Kinds -> [row : {"none", "pending", "running"}, tries : 0..MaxTries]]
      /\ \A k \in Kinds : tasks[k].row = "pending" => tasks[k].tries < MaxTries
      /\ tasks["thread"].row # "none" => Supported
  BY DEF ThreadInv, ThreadTypes, TriesOK
<1>3. Supported' = Supported /\ "thread" \in Kinds
  BY <1>1 DEF Supported, Kinds
<1>4. /\ tasks' \in [Kinds -> [row : {"none", "pending", "running"}, tries : 0..MaxTries]]
      /\ TriesOK'
  <2>1. CASE tasks' = Ended(tasks, reading.kind)
    BY <1>2, <1>3, <2>1, EndedTypes DEF TriesOK
  <2>2. CASE /\ ~(tasks[reading.kind].tries >= MaxTries)
             /\ tasks' = [tasks EXCEPT ![reading.kind].row = "pending"]
    <3>1. reading.kind \in Kinds
      BY <1>1 DEF ThreadInv, StageOK, Kinds
    <3>2. reading.kind = "thread" => Supported
      BY <1>1 DEF ThreadInv, StageOK
    <3>3. tasks[reading.kind].tries < MaxTries
      BY <1>2, <2>2, <3>1, ThreadFetchAssumption
    <3>4. tasks' \in [Kinds -> [row : {"none", "pending", "running"}, tries : 0..MaxTries]]
      BY <1>2, <2>2, <3>1
    <3>5. \A k \in Kinds : tasks'[k].row = "pending" => tasks'[k].tries < MaxTries
      BY <1>2, <2>2, <3>1, <3>3
    <3>6. tasks'["thread"].row # "none" => Supported
      BY <1>2, <1>3, <2>2, <3>1, <3>2
    <3> QED
      BY <1>3, <3>4, <3>5, <3>6 DEF TriesOK
  <2> QED
    BY <1>1, <2>1, <2>2
<1> QED
  BY <1>1, <1>4, NoReadingKeeps DEF ThreadInv, ThreadTypes

LEMMA ScoreReadKeeps ==
  ASSUME ThreadInv, ScoreRead
  PROVE  ThreadInv'
<1>1. /\ UNCHANGED <<platform, fate, thread, ingested, mark, like, tasks, readings, moves>>
      /\ reading.at = "score" /\ reading' = [reading EXCEPT !.at = "page"]
      /\ reading \in ReadingStates
  BY DEF ScoreRead, ThreadInv, ThreadTypes
<1>2. /\ reading' \in ReadingStates /\ reading'.at = "page" /\ reading'.kind = reading.kind
      /\ reading'.page = reading.page /\ reading'.notes = reading.notes /\ reading'.found = reading.found
      /\ reading'.began = reading.began /\ reading'.whole = reading.whole
  BY <1>1 DEF ReadingStates
<1>3. reading.kind = "thread" /\ Supported /\ reading.page = 1
  BY <1>1 DEF ThreadInv, StageOK
<1>4. InThread' = InThread /\ Supported' = Supported
  BY <1>1 DEF InThread, Supported
<1>5. Due' = Due
  BY <1>1, <1>2, <1>4 DEF Due, Behind, Walked, Usable
<1>6. ThreadTypes' /\ ListOK' /\ TriesOK'
  BY <1>1, <1>2, <1>4 DEF ThreadInv, ThreadTypes, ListOK, TriesOK
<1>7. StageOK'
  BY <1>1, <1>2, <1>3, <1>4 DEF ThreadInv, StageOK
<1>8. StartOK'
  BY <1>1, <1>2, <1>4 DEF ThreadInv, StartOK
<1> HIDE DEF Due
<1>9. FoundOK'
  BY <1>1, <1>2, <1>3, <1>5 DEF ThreadInv, FoundOK
<1> QED
  BY <1>6, <1>7, <1>8, <1>9 DEF ThreadInv

LEMMA IngestThreadKeeps ==
  ASSUME ThreadInv, NEW lost \in SUBSET Flaky, IngestThread(lost)
  PROVE  ThreadInv'
<1>1. /\ UNCHANGED <<platform, fate, thread, like, readings, moves>>
      /\ reading.at = "ingest" /\ reading' = [reading EXCEPT !.at = "idle", !.tried = reading.found]
      /\ reading \in ReadingStates /\ tasks' = Ended(tasks, reading.kind)
      /\ ingested' = ingested \cup ((reading.found \cap Theirs) \ lost)
      /\ mark' = [m \in Mine |-> IF m \in reading.found THEN "posted" ELSE mark[m]]
  BY DEF IngestThread, IngestComments, EndsWell, ThreadInv, ThreadTypes
<1>2. /\ reading' \in ReadingStates /\ reading'.at = "idle" /\ reading'.tried = reading.found
      /\ reading'.began = reading.began /\ reading'.whole = reading.whole
  BY <1>1 DEF ReadingStates
<1>3. InThread' = InThread /\ Supported' = Supported
  BY <1>1 DEF InThread, Supported
<1>4. /\ tasks \in [Kinds -> [row : {"none", "pending", "running"}, tries : 0..MaxTries]]
      /\ \A k \in Kinds : tasks[k].row = "pending" => tasks[k].tries < MaxTries
      /\ tasks["thread"].row # "none" => Supported
  BY DEF ThreadInv, ThreadTypes, TriesOK
<1>5. /\ tasks' \in [Kinds -> [row : {"none", "pending", "running"}, tries : 0..MaxTries]]
      /\ TriesOK'
  BY <1>1, <1>3, <1>4, EndedTypes DEF TriesOK
<1>6. ingested' \subseteq Theirs /\ mark' \in [Mine -> {"here", "sent", "posted"}]
  BY <1>1 DEF ThreadInv, ThreadTypes
<1>7. ThreadTypes' /\ ListOK'
  BY <1>1, <1>2, <1>3, <1>5, <1>6 DEF ThreadInv, ThreadTypes, ListOK
<1>8. StageOK' /\ StartOK'
  BY <1>2 DEF StageOK, StartOK
<1>9. FoundOK'
  BY <1>1, <1>2 DEF ThreadInv, FoundOK, Usable
<1> QED
  BY <1>5, <1>7, <1>8, <1>9 DEF ThreadInv

-----------------------------------------------------------------------------
(***************************************************************************)
(* ThreadFetch: what a page gives.                                         *)
(***************************************************************************)
Allowed == PageSize * MaxPages

LEMMA AllowedIsNatural == Allowed \in Nat
<1>1. \A a, b \in Nat : a * b \in Nat
  OBVIOUS
<1> QED
  BY <1>1, ThreadFetchAssumption DEF Allowed

LEMMA PlatformPages ==
  ASSUME reading.kind = "thread"
  PROVE  /\ platform = "lemmy" => PageRead = LemmyPage(reading.page)
         /\ platform = "piefed" => PageRead = PieFedPage
         /\ platform = "peertube" => PageRead = PeerTubePage(reading.page)
         /\ platform = "mbin" => PageRead = MbinPage(reading.page)
<1>1. reading.kind # "replies"
  OBVIOUS
<1> QED
  BY <1>1 DEF PageRead

\* The threads of a page, and in Mbin what is below them.
PageRoots == Usable(SetOf(NthPage(Roots(thread), reading.page)))
PageNotes == PageRoots \cup Usable(AnswersTo(PageRoots))

LEMMA RootsThere ==
  ASSUME ThreadTypes
  PROVE  /\ Roots(thread) \in Seq(BelowPost)
         /\ SetOf(Roots(thread)) = {c \in InThread : Under[c] = Top}
         /\ ListOK => Distinct(Roots(thread))
<1>1. thread \in Seq(BelowPost) /\ InThread = SetOf(thread)
  BY ThreadIs DEF ThreadTypes
<1>2. Passed(thread, Len(thread)) = SetOf(thread)
  <2>1. {j \in 1..Len(thread) : j <= Len(thread)} = 1..Len(thread) /\ DOMAIN thread = 1..Len(thread)
    BY <1>1
  <2> QED
    BY <2>1 DEF Passed, SetOf
<1> QED
  BY <1>1, <1>2, RootsMembers DEF RootsIn, ListOK

LEMMA NotesThere ==
  ASSUME ThreadTypes
  PROVE  /\ PageRoots \subseteq InThread /\ PageNotes \subseteq InThread
         /\ IsFiniteSet(PageNotes) /\ IsFiniteSet(PageRoots)
         /\ Cardinality(PageNotes) \in Nat /\ Cardinality(PageRoots) \in Nat
         /\ Cardinality(PageRoots) <= Cardinality(PageNotes)
<1>1. reading.page \in Nat \ {0}
  BY DEF ThreadTypes, ReadingStates
<1>2. SetOf(NthPage(Roots(thread), reading.page)) \subseteq InThread
  BY <1>1, RootsThere, PagePasses
<1>3. PageRoots \subseteq InThread /\ PageNotes \subseteq InThread /\ PageRoots \subseteq PageNotes
  BY <1>2 DEF PageRoots, PageNotes, Usable, AnswersTo
<1>4. IsFiniteSet(PageNotes)
  BY <1>3, ThreadIs, FS_Subset
<1>5. IsFiniteSet(PageRoots) /\ Cardinality(PageRoots) <= Cardinality(PageNotes)
  BY <1>3, <1>4, FS_Subset
<1> QED
  BY <1>3, <1>4, <1>5, FS_CardinalityType

\* What is kept of Mbin's notes: all, or as many as there is room for.
LEMMA MbinKeeps ==
  ASSUME ThreadTypes, reading.notes <= Allowed
  PROVE  LET kept == MbinPage(reading.page).has
             room == Allowed - reading.notes
         IN  /\ kept \subseteq PageNotes /\ Cardinality(kept) \in Nat /\ Cardinality(kept) <= room
             /\ kept # PageNotes => Cardinality(kept) = room
             /\ MbinPage(reading.page).short <=> Cardinality(kept) < PageSize
<1> DEFINE room == Allowed - reading.notes
           kept == IF Cardinality(PageNotes) <= room THEN PageNotes
                   ELSE CHOOSE some \in SUBSET PageNotes : Cardinality(some) = room
<1>1. room \in Nat
  BY AllowedIsNatural DEF ThreadTypes, ReadingStates
<1>2. MbinPage(reading.page) = [has |-> kept, short |-> Cardinality(kept) < PageSize]
  BY DEF MbinPage, PageNotes, PageRoots, Allowed
<1>3. MbinPage(reading.page).has = kept /\ (MbinPage(reading.page).short <=> Cardinality(kept) < PageSize)
  <2> DEFINE few == Cardinality(kept) < PageSize
  <2>1. MbinPage(reading.page) = [has |-> kept, short |-> few]
    BY <1>2
  <2>2. few \in BOOLEAN
    OBVIOUS
  <2> HIDE DEF kept, few
  <2>3. MbinPage(reading.page).has = kept /\ MbinPage(reading.page).short = few
    BY <2>1
  <2>4. MbinPage(reading.page).short <=> few
    BY <2>2, <2>3
  <2> QED
    BY <2>3, <2>4 DEF few
<1> HIDE DEF room
<1>4. Cardinality(PageNotes) \in Nat /\ IsFiniteSet(PageNotes)
  BY NotesThere
<1>5. CASE Cardinality(PageNotes) <= room
  <2>1. kept = PageNotes
    BY <1>5
  <2> HIDE DEF kept
  <2> QED
    BY <1>3, <1>4, <1>5, <2>1 DEF room
<1>6. CASE ~(Cardinality(PageNotes) <= room)
  <2>1. \E some \in SUBSET PageNotes : Cardinality(some) = room
    BY <1>1, <1>4, <1>6, PartOfSize
  <2>2. kept = CHOOSE some \in SUBSET PageNotes : Cardinality(some) = room
    BY <1>6
  <2>3. kept \in SUBSET PageNotes /\ Cardinality(kept) = room
    BY <2>1, <2>2
  <2> HIDE DEF kept
  <2> QED
    BY <1>1, <1>3, <2>3 DEF room
<1> QED
  BY <1>5, <1>6

LEMMA PageTypes ==
  ASSUME ThreadInv, reading.at = "page", reading.kind = "thread"
  PROVE  /\ PageRead.has \subseteq InThread /\ Cardinality(PageRead.has) \in Nat
         /\ platform = "mbin" => reading.notes + Cardinality(PageRead.has) <= Allowed
<1>1. ThreadTypes /\ platform \in {"lemmy", "piefed", "peertube", "mbin"} /\ reading.page \in Nat \ {0}
  BY ThreadFetchAssumption DEF ThreadInv, StageOK, Supported, ThreadTypes, ReadingStates
<1>2. thread \in Seq(BelowPost) /\ InThread = SetOf(thread) /\ IsFiniteSet(InThread)
  BY <1>1, ThreadIs DEF ThreadTypes
<1>3. PageRead.has \subseteq InThread /\ (platform = "mbin" => reading.notes + Cardinality(PageRead.has) <= Allowed)
  <2>1. CASE platform = "lemmy"
    <3>1. PageRead.has = Usable(SetOf(NthPage(thread, reading.page)))
      BY <2>1, PlatformPages DEF LemmyPage
    <3> QED
      BY <1>1, <1>2, <2>1, <3>1, PagePasses DEF Usable
  <2>2. CASE platform = "piefed"
    BY <2>2, PlatformPages DEF PieFedPage, Usable
  <2>3. CASE platform = "peertube"
    <3>1. PageRead.has = PageRoots
      BY <2>3, PlatformPages DEF PeerTubePage, PageRoots
    <3> QED
      BY <1>1, <2>3, <3>1, NotesThere
  <2>4. CASE platform = "mbin"
    <3>1. PageRead.has = MbinPage(reading.page).has
      BY <2>4, PlatformPages
    <3>2. reading.notes <= Allowed /\ reading.notes \in Nat
      BY <1>1, <2>4 DEF ThreadInv, StageOK, Allowed, ThreadTypes, ReadingStates
    <3>3. /\ PageRead.has \subseteq PageNotes /\ Cardinality(PageRead.has) \in Nat
          /\ Cardinality(PageRead.has) <= Allowed - reading.notes
      BY <1>1, <3>1, <3>2, MbinKeeps
    <3> QED
      BY <1>1, <3>2, <3>3, NotesThere, AllowedIsNatural
  <2> QED
    BY <1>1, <2>1, <2>2, <2>3, <2>4
<1>4. Cardinality(PageRead.has) \in Nat
  <2>1. IsFiniteSet(PageRead.has)
    BY <1>2, <1>3, FS_Subset
  <2> QED
    BY <2>1, FS_CardinalityType
<1> QED
  BY <1>3, <1>4

LEMMA PageRecord ==
  ASSUME NEW cs, NEW few \in BOOLEAN
  PROVE  [has |-> cs, short |-> few].has = cs /\ ([has |-> cs, short |-> few].short <=> few)
OBVIOUS

\* Of a reading that nothing cuts short: a page gives what is due after it, and the
\* last one whatever was not found before.
LEMMA PageFinds ==
  ASSUME ThreadInv, reading.at = "page", reading.kind = "thread", reading.whole, ~CutShort(PageRead)
  PROVE  LET seen == reading.found \cup PageRead.has
             after == Passed(Walked, reading.page * PageSize) \cap Usable(reading.began)
         IN  /\ after \subseteq seen
             /\ platform = "mbin" => \A c \in Usable(reading.began) : Under[c] \in after => c \in seen
             /\ PageRead.short \/ reading.page >= MaxPages =>
                  /\ platform = "peertube" => {c \in reading.began : Under[c] = Top} \subseteq seen
                  /\ platform # "peertube" => Usable(reading.began) \subseteq seen
<1> DEFINE n == reading.page
           seen == reading.found \cup PageRead.has
           after == Passed(Walked, n * PageSize) \cap Usable(reading.began)
<1>1. ThreadTypes /\ platform \in {"lemmy", "piefed", "peertube", "mbin"} /\ n \in Nat \ {0}
  BY ThreadFetchAssumption DEF ThreadInv, StageOK, Supported, ThreadTypes, ReadingStates
<1>2. thread \in Seq(BelowPost) /\ InThread = SetOf(thread) /\ InThread \subseteq BelowPost
  BY <1>1, ThreadIs DEF ThreadTypes
<1>3. /\ reading.began \subseteq InThread
      /\ \A c \in reading.began : Under[c] \in reading.began \cup {Top}
      /\ Behind \subseteq reading.found
      /\ platform = "mbin" => \A c \in Usable(reading.began) : Under[c] \in Behind => c \in reading.found
  BY DEF ThreadInv, StartOK, FoundOK, Due
<1>4. PageRead.short \/ ~(n >= MaxPages)
  BY DEF CutShort
<1>5. Behind = Passed(Walked, (n - 1) * PageSize) \cap Usable(reading.began)
  BY DEF Behind
<1>6. CASE platform = "lemmy"
  <2>1. PageRead = [has |-> Usable(SetOf(NthPage(thread, n))), short |-> Len(NthPage(thread, n)) < PageSize]
    BY <1>6, PlatformPages DEF LemmyPage
  <2>2. /\ PageRead.has = Usable(SetOf(NthPage(thread, n)))
        /\ PageRead.short => Len(NthPage(thread, n)) < PageSize
    BY <2>1, PageRecord
  <2>3. Walked = thread
    BY <1>6 DEF Walked
  <2>4. after \subseteq seen
    <3>1. Passed(thread, n * PageSize) \subseteq Passed(thread, (n - 1) * PageSize) \cup SetOf(NthPage(thread, n))
      BY <1>1, <1>2, PagePasses
    <3> QED
      BY <1>3, <1>5, <2>2, <2>3, <3>1 DEF Usable
  <2>5. PageRead.short => Usable(reading.began) \subseteq seen
    <3>1. Len(NthPage(thread, n)) < PageSize => Passed(thread, n * PageSize) = InThread
      BY <1>1, <1>2, PagePasses
    <3>2. Usable(reading.began) \subseteq InThread
      BY <1>3 DEF Usable
    <3> QED
      BY <2>2, <2>3, <2>4, <3>1, <3>2
  <2> QED
    BY <1>4, <1>6, <2>4, <2>5
<1>7. CASE platform = "piefed"
  <2>1. PageRead.has = Usable(InThread)
    BY <1>7, PlatformPages DEF PieFedPage
  <2>2. Usable(reading.began) \subseteq seen
    BY <1>3, <2>1 DEF Usable
  <2> QED
    BY <1>7, <2>2
<1>8. ASSUME platform \in {"peertube", "mbin"}
      PROVE  /\ Usable(reading.began) = reading.began
             /\ Passed(Walked, n * PageSize) \subseteq Passed(Walked, (n - 1) * PageSize) \cup PageRoots
             /\ Cardinality(PageRoots) < PageSize =>
                  {c \in reading.began : Under[c] = Top} = Passed(Walked, n * PageSize) \cap reading.began
  <2>1. Unusable \cap InThread = {}
    BY <1>8 DEF CutShort
  <2>2. Walked = Roots(thread)
    BY <1>8 DEF Walked
  <2>3. /\ Roots(thread) \in Seq(BelowPost) /\ Distinct(Roots(thread))
        /\ SetOf(Roots(thread)) = {c \in InThread : Under[c] = Top}
    BY <1>1, RootsThere DEF ThreadInv
  <2>4. /\ SetOf(NthPage(Roots(thread), n)) \subseteq SetOf(Roots(thread))
        /\ Passed(Roots(thread), n * PageSize)
             \subseteq Passed(Roots(thread), (n - 1) * PageSize) \cup SetOf(NthPage(Roots(thread), n))
        /\ Len(NthPage(Roots(thread), n)) < PageSize =>
             Passed(Roots(thread), n * PageSize) = SetOf(Roots(thread))
    BY <1>1, <2>3, PagePasses
  <2>5. PageRoots = SetOf(NthPage(Roots(thread), n))
    BY <2>1, <2>3, <2>4 DEF PageRoots, Usable
  <2>6. Cardinality(PageRoots) = Len(NthPage(Roots(thread), n))
    BY <1>1, <2>3, <2>5, PagesCounted
  <2>7. Usable(reading.began) = reading.began
    BY <1>3, <2>1 DEF Usable
  <2>8. ASSUME Cardinality(PageRoots) < PageSize
        PROVE  {c \in reading.began : Under[c] = Top} = Passed(Walked, n * PageSize) \cap reading.began
    <3>1. Passed(Walked, n * PageSize) = {c \in InThread : Under[c] = Top}
      BY <2>2, <2>3, <2>4, <2>6, <2>8
    <3> QED
      BY <1>3, <3>1
  <2> QED
    BY <2>2, <2>4, <2>5, <2>7, <2>8
<1>9. CASE platform = "peertube"
  <2>1. PageRead = [has |-> PageRoots, short |-> Cardinality(PageRoots) < PageSize]
    BY <1>9, PlatformPages DEF PeerTubePage, PageRoots
  <2>2. PageRead.has = PageRoots /\ (PageRead.short => Cardinality(PageRoots) < PageSize)
    BY <2>1, PageRecord
  <2>3. after \subseteq seen
    BY <1>3, <1>5, <1>8, <1>9, <2>2
  <2>4. PageRead.short => {c \in reading.began : Under[c] = Top} \subseteq seen
    BY <1>8, <1>9, <2>2, <2>3
  <2> QED
    BY <1>4, <1>9, <2>3, <2>4
<1>10. CASE platform = "mbin"
  <2>1. reading.notes <= Allowed /\ reading.notes \in Nat /\ Allowed \in Nat
    BY <1>1, <1>10, AllowedIsNatural DEF ThreadInv, StageOK, Allowed, ThreadTypes, ReadingStates
  <2>2. PageRead = MbinPage(n)
    BY <1>10, PlatformPages
  <2>3. /\ Cardinality(PageRead.has) \in Nat
        /\ PageRead.has # PageNotes => Cardinality(PageRead.has) = Allowed - reading.notes
        /\ PageRead.short <=> Cardinality(PageRead.has) < PageSize
    BY <1>1, <2>1, <2>2, MbinKeeps
  <2>4. ~(reading.notes + Cardinality(PageRead.has) >= Allowed)
    BY <1>10 DEF CutShort, Allowed
  <2>5. PageRead.has = PageNotes
    BY <2>1, <2>3, <2>4
  <2>6. after \subseteq Behind \cup PageRoots /\ after \subseteq seen
    BY <1>3, <1>5, <1>8, <1>10, <2>5 DEF PageNotes
  <2>7. \A c \in Usable(reading.began) : Under[c] \in after => c \in seen
    <3> TAKE c \in Usable(reading.began)
    <3> HAVE Under[c] \in after
    <3>1. CASE Under[c] \in Behind
      BY <1>3, <1>10, <3>1
    <3>2. CASE Under[c] \in PageRoots
      <4>1. c \in InThread /\ c \in Usable({c})
        BY <1>3 DEF Usable
      <4>2. c \in PageNotes
        BY <3>2, <4>1 DEF PageNotes, AnswersTo, Usable
      <4> QED
        BY <2>5, <4>2
    <3> QED
      BY <2>6, <3>1, <3>2
  <2>8. PageRead.short => Usable(reading.began) \subseteq seen
    <3> SUFFICES ASSUME PageRead.short, NEW c \in reading.began PROVE c \in seen
      BY <1>8, <1>10
    <3>1. Cardinality(PageRoots) < PageSize
      <4>1. Cardinality(PageRoots) \in Nat /\ Cardinality(PageRoots) <= Cardinality(PageNotes)
        BY <1>1, NotesThere
      <4>2. Cardinality(PageNotes) < PageSize /\ Cardinality(PageNotes) \in Nat
        BY <2>3, <2>5
      <4> QED
        BY <4>1, <4>2, ThreadFetchAssumption
    <3>2. {d \in reading.began : Under[d] = Top} \subseteq after
      BY <1>8, <1>10, <3>1
    <3>3. CASE Under[c] = Top
      BY <2>6, <3>2, <3>3
    <3>4. CASE Under[c] # Top
      <4>1. Under[c] \in reading.began /\ Under[Under[c]] = Top
        BY <1>2, <1>3, <3>4, ThreadFetchAssumption
      <4>2. Under[c] \in after
        BY <3>2, <4>1
      <4> QED
        BY <1>8, <1>10, <2>7, <4>2
    <3> QED
      BY <3>3, <3>4
  <2> QED
    BY <1>4, <1>10, <2>6, <2>7, <2>8
<1> QED
  BY <1>1, <1>6, <1>7, <1>9, <1>10

\* A page of a thread.
LEMMA ThreadPageKeeps == ThreadInv /\ ThreadPage => ThreadInv'
<1> SUFFICES ASSUME ThreadInv, ThreadPage PROVE ThreadInv'
  OBVIOUS
<1> DEFINE seen == reading.found \cup PageRead.has
           notes == reading.notes + Cardinality(PageRead.has)
           over == PageRead.short \/ reading.page >= MaxPages
           stage == IF ~over THEN "page" ELSE IF platform = "peertube" THEN "threads" ELSE "ingest"
           whole == reading.whole /\ ~CutShort(PageRead)
<1>1. /\ UNCHANGED <<platform, fate, thread, ingested, mark, like, tasks, readings, moves>>
      /\ reading.at = "page" /\ reading.kind = "thread"
      /\ reading' = [reading EXCEPT !.found = seen, !.page = reading.page + 1, !.notes = notes,
                                    !.whole = whole, !.at = stage]
  BY DEF ThreadPage
<1>2. /\ ThreadTypes /\ reading \in ReadingStates /\ reading.page \in Nat \ {0} /\ reading.notes \in Nat
      /\ reading.found \subseteq BelowPost /\ InThread \subseteq BelowPost /\ Supported
  BY <1>1, ThreadIs DEF ThreadInv, StageOK, ThreadTypes, ReadingStates
<1>3. /\ PageRead.has \subseteq InThread /\ Cardinality(PageRead.has) \in Nat
      /\ platform = "mbin" => notes <= Allowed
  BY <1>1, PageTypes
<1>4. stage \in {"page", "threads", "ingest"} /\ (stage = "threads" <=> over /\ platform = "peertube")
      /\ (stage = "ingest" <=> over /\ platform # "peertube")
  OBVIOUS
<1>5. platform = "piefed" => over
  BY <1>1, PlatformPages, PageRecord DEF PieFedPage
<1>6. whole => /\ reading.whole
               /\ over => /\ platform = "peertube" => {c \in reading.began : Under[c] = Top} \subseteq seen
                          /\ platform # "peertube" => Usable(reading.began) \subseteq seen
               /\ Passed(Walked, reading.page * PageSize) \cap Usable(reading.began) \subseteq seen
               /\ platform = "mbin" =>
                    \A c \in Usable(reading.began) :
                      Under[c] \in Passed(Walked, reading.page * PageSize) \cap Usable(reading.began) => c \in seen
  BY <1>1, PageFinds
<1>7. seen \in SUBSET BelowPost /\ notes \in Nat /\ reading.page + 1 \in Nat \ {0} /\ whole \in BOOLEAN
  BY <1>2, <1>3 DEF ThreadInv, ReadingStates
<1>8. InThread' = InThread /\ Supported' = Supported
  BY <1>1 DEF InThread, Supported
<1> HIDE DEF seen, notes, over, stage, whole
<1>9. /\ reading' \in ReadingStates
      /\ reading'.at = stage /\ reading'.kind = "thread" /\ reading'.page = reading.page + 1
      /\ reading'.notes = notes /\ reading'.found = seen /\ reading'.began = reading.began
      /\ reading'.whole = whole
  <2>1. stage \in {"idle", "post", "score", "page", "threads", "ingest"}
    BY <1>4
  <2> QED
    BY <1>1, <1>2, <1>7, <2>1 DEF ReadingStates
<1>10. ThreadTypes' /\ ListOK' /\ TriesOK'
  BY <1>1, <1>8, <1>9 DEF ThreadInv, ThreadTypes, ListOK, TriesOK
<1>11. StageOK'
  BY <1>1, <1>2, <1>3, <1>4, <1>5, <1>8, <1>9 DEF StageOK, Allowed
<1>12. StartOK'
  BY <1>1, <1>6, <1>8, <1>9 DEF ThreadInv, StartOK
<1>13. FoundOK'
  <2>1. Usable(reading.began)' = Usable(reading.began)
    BY <1>9 DEF Usable
  <2>2. Walked' = Walked
    BY <1>1, <1>9 DEF Walked
  <2>3. Behind' = Passed(Walked, reading.page * PageSize) \cap Usable(reading.began)
    <3>1. reading'.page - 1 = reading.page
      BY <1>2, <1>9
    <3>2. Behind' = Passed(Walked', (reading'.page - 1) * PageSize) \cap Usable(reading.began)'
      BY DEF Behind
    <3> QED
      BY <2>1, <2>2, <3>1, <3>2
  <2>4. whole => Due' \subseteq seen
    BY <1>1, <1>6, <2>1, <2>3 DEF Due
  <2> HIDE DEF Due
  <2> QED
    BY <1>4, <1>6, <1>9, <2>1, <2>4 DEF FoundOK
<1> QED
  BY <1>10, <1>11, <1>12, <1>13 DEF ThreadInv

\* The answers below the threads that PeerTube listed.
LEMMA PeerTubeThreadsKeep ==
  ASSUME ThreadInv, NEW missed, PeerTubeThreads(missed)
  PROVE  ThreadInv'
<1> DEFINE seen == reading.found \cup Usable(AnswersTo(reading.found \ missed))
           whole == reading.whole /\ missed = {}
<1>1. /\ UNCHANGED <<platform, fate, thread, ingested, mark, like, tasks, readings, moves>>
      /\ reading.at = "threads"
      /\ reading' = [reading EXCEPT !.at = "ingest", !.whole = whole, !.found = seen]
  BY DEF PeerTubeThreads
<1>2. /\ reading \in ReadingStates /\ reading.found \subseteq BelowPost /\ InThread \subseteq BelowPost
      /\ reading.kind = "thread" /\ Supported
  BY <1>1, ThreadIs DEF ThreadInv, StageOK, ThreadTypes, ReadingStates
<1>3. seen \in SUBSET BelowPost /\ whole \in BOOLEAN
  BY <1>2 DEF Usable, AnswersTo, ThreadInv, ThreadTypes, ReadingStates
<1>4. whole => Usable(reading.began) \subseteq seen
  <2> SUFFICES ASSUME whole, NEW c \in Usable(reading.began) PROVE c \in seen
    OBVIOUS
  <2>1. /\ c \in reading.began /\ reading.began \subseteq InThread
        /\ Under[c] \in reading.began \cup {Top}
        /\ {d \in reading.began : Under[d] = Top} \subseteq reading.found
    BY <1>1 DEF ThreadInv, StartOK, FoundOK, Usable
  <2>2. CASE Under[c] = Top
    BY <2>1, <2>2
  <2>3. CASE Under[c] # Top
    <3>1. Under[c] \in reading.began /\ Under[Under[c]] = Top
      BY <1>2, <2>1, <2>3, ThreadFetchAssumption
    <3>2. Under[c] \in reading.found \ missed
      BY <2>1, <3>1
    <3>3. c \in AnswersTo(reading.found \ missed)
      BY <2>1, <3>2 DEF AnswersTo
    <3> QED
      BY <3>3 DEF Usable
  <2> QED
    BY <2>2, <2>3
<1>5. InThread' = InThread /\ Supported' = Supported
  BY <1>1 DEF InThread, Supported
<1> HIDE DEF seen, whole
<1>6. /\ reading' \in ReadingStates
      /\ reading'.at = "ingest" /\ reading'.kind = "thread" /\ reading'.found = seen
      /\ reading'.began = reading.began /\ reading'.whole = whole
  BY <1>1, <1>2, <1>3 DEF ReadingStates
<1>7. ThreadTypes' /\ ListOK' /\ TriesOK'
  BY <1>1, <1>5, <1>6 DEF ThreadInv, ThreadTypes, ListOK, TriesOK
<1>8. StageOK'
  BY <1>2, <1>5, <1>6 DEF StageOK
<1>9. StartOK'
  BY <1>1, <1>5, <1>6 DEF ThreadInv, StartOK, whole
<1>10. FoundOK'
  BY <1>4, <1>6 DEF FoundOK, Usable
<1> QED
  BY <1>7, <1>8, <1>9, <1>10 DEF ThreadInv

\* A page of a reply collection.
LEMMA RepliesPageKeeps ==
  ASSUME ThreadInv, NEW read, NEW lost, NEW stops \in BOOLEAN,
         RepliesPage(read, lost, stops)
  PROVE  ThreadInv'
<1> DEFINE page == Usable(SetOf(NthPage(thread, reading.page)))
           last == reading.page * PageSize >= Len(thread)
           seen == reading.tried \cup read
           over == last \/ reading.page >= MaxPages \/ stops
           stage == IF over THEN "idle" ELSE "page"
           whole == reading.whole /\ ~CutShort(PageRead) /\ ~stops
<1>1. reading.at = "page" /\ reading.kind = "replies"
  BY DEF RepliesPage
<1>2. PageRead.has = page /\ (PageRead.short <=> last)
  <2>1. PageRead = [has |-> page, short |-> last]
    <3>1. PageRead = CollectionPage(reading.page)
      BY <1>1 DEF PageRead
    <3>2. CollectionPage(reading.page) = [has |-> page, short |-> last]
      BY DEF CollectionPage
    <3> QED
      BY <3>1, <3>2
  <2>2. last \in BOOLEAN
    OBVIOUS
  <2> HIDE DEF last, page
  <2> QED
    BY <2>1, <2>2, PageRecord
<1>3. /\ UNCHANGED <<platform, fate, thread, like, readings, moves>>
      /\ reading' = [reading EXCEPT !.tried = seen, !.page = reading.page + 1, !.whole = whole, !.at = stage]
      /\ tasks' \in {tasks, Ended(tasks, reading.kind)}
      /\ ingested' = ingested \cup ((read \cap Theirs) \ lost)
      /\ mark' = [m \in Mine |-> IF m \in read THEN "posted" ELSE mark[m]]
  BY <1>2 DEF RepliesPage, IngestComments, EndsWell
<1>4. /\ ThreadTypes /\ reading \in ReadingStates /\ reading.page \in Nat \ {0} /\ reading.tried \subseteq BelowPost
      /\ InThread \subseteq BelowPost /\ thread \in Seq(BelowPost) /\ InThread = SetOf(thread)
  BY ThreadIs DEF ThreadInv, ThreadTypes, ReadingStates
<1>5. read \subseteq page /\ (~stops => read = page) /\ read \subseteq InThread
  <2>1. read \subseteq page /\ (~stops => read = page)
    BY <1>2 DEF RepliesPage
  <2>2. page \subseteq InThread
    BY <1>4, PagePasses DEF Usable
  <2> QED
    BY <2>1, <2>2
<1>6. whole => /\ reading.whole /\ reading.began \subseteq InThread
               /\ \A c \in reading.began : Under[c] \in reading.began \cup {Top}
               /\ Passed(thread, reading.page * PageSize) \cap Usable(reading.began) \subseteq seen
               /\ over => Usable(reading.began) \subseteq seen
  <2> SUFFICES ASSUME whole
               PROVE  /\ reading.whole /\ reading.began \subseteq InThread
                      /\ \A c \in reading.began : Under[c] \in reading.began \cup {Top}
                      /\ Passed(thread, reading.page * PageSize) \cap Usable(reading.began) \subseteq seen
                      /\ over => Usable(reading.began) \subseteq seen
    OBVIOUS
  <2>1. /\ reading.whole /\ reading.began \subseteq InThread
        /\ \A c \in reading.began : Under[c] \in reading.began \cup {Top}
        /\ Behind \subseteq reading.tried
    BY <1>1 DEF ThreadInv, StartOK, FoundOK, Due
  <2>2. Behind = Passed(thread, (reading.page - 1) * PageSize) \cap Usable(reading.began)
    BY <1>1 DEF Behind, Walked
  <2>3. /\ Passed(thread, reading.page * PageSize)
             \subseteq Passed(thread, (reading.page - 1) * PageSize) \cup SetOf(NthPage(thread, reading.page))
        /\ last => Passed(thread, reading.page * PageSize) = InThread
    BY <1>4, PagePasses
  <2>4. Passed(thread, reading.page * PageSize) \cap Usable(reading.began) \subseteq seen
    BY <1>5, <2>1, <2>2, <2>3 DEF Usable
  <2>5. over => last
    <3>1. PageRead.short \/ ~(reading.page >= MaxPages)
      BY DEF CutShort
    <3> QED
      BY <1>2, <3>1
  <2>6. last => Usable(reading.began) \subseteq seen
    BY <2>1, <2>3, <2>4 DEF Usable
  <2> QED
    BY <2>1, <2>4, <2>5, <2>6
<1>7. /\ seen \in SUBSET BelowPost /\ whole \in BOOLEAN /\ reading.page + 1 \in Nat \ {0}
      /\ stage \in {"idle", "page"} /\ (stage = "idle" => over)
  BY <1>4, <1>5 DEF ThreadInv, ReadingStates
<1>8. InThread' = InThread /\ Supported' = Supported
  BY <1>3 DEF InThread, Supported
<1>9. ingested' \subseteq Theirs /\ mark' \in [Mine -> {"here", "sent", "posted"}]
  BY <1>3, <1>4 DEF ThreadTypes
<1>10. /\ tasks' \in [Kinds -> [row : {"none", "pending", "running"}, tries : 0..MaxTries]]
       /\ TriesOK'
  <2>1. /\ tasks \in [Kinds -> [row : {"none", "pending", "running"}, tries : 0..MaxTries]]
        /\ \A k \in Kinds : tasks[k].row = "pending" => tasks[k].tries < MaxTries
        /\ tasks["thread"].row # "none" => Supported
    BY DEF ThreadInv, ThreadTypes, TriesOK
  <2> QED
    BY <1>3, <1>8, <2>1, EndedTypes DEF TriesOK
<1> HIDE DEF page, last, seen, over, stage, whole
<1>11. /\ reading' \in ReadingStates
       /\ reading'.at = stage /\ reading'.kind = "replies" /\ reading'.page = reading.page + 1
       /\ reading'.notes = reading.notes /\ reading'.tried = seen /\ reading'.began = reading.began
       /\ reading'.whole = whole
  BY <1>1, <1>3, <1>4, <1>7 DEF ReadingStates
<1>12. ThreadTypes' /\ ListOK'
  BY <1>3, <1>4, <1>8, <1>9, <1>10, <1>11 DEF ThreadInv, ThreadTypes, ListOK
<1>13. StageOK'
  BY <1>1, <1>3, <1>7, <1>11 DEF ThreadInv, StageOK
<1>14. StartOK'
  BY <1>6, <1>8, <1>11 DEF StartOK
<1>15. FoundOK'
  <2>1. Usable(reading.began)' = Usable(reading.began)
    BY <1>11 DEF Usable
  <2>2. Behind' = Passed(thread, reading.page * PageSize) \cap Usable(reading.began)
    <3>1. reading'.page - 1 = reading.page
      BY <1>4, <1>11
    <3>2. Walked' = thread
      BY <1>3, <1>11 DEF Walked
    <3>3. Behind' = Passed(Walked', (reading'.page - 1) * PageSize) \cap Usable(reading.began)'
      BY DEF Behind
    <3> QED
      BY <2>1, <3>1, <3>2, <3>3
  <2>3. Due' = Behind'
    BY <1>11 DEF Due
  <2> HIDE DEF Due
  <2> QED
    BY <1>6, <1>7, <1>11, <2>1, <2>2, <2>3 DEF FoundOK
<1> QED
  BY <1>10, <1>12, <1>13, <1>14, <1>15 DEF ThreadInv

LEMMA ThreadKept == ThreadInv /\ [ThreadFetchNext]_threadFetchVars => ThreadInv'
<1> SUFFICES ASSUME ThreadInv, [ThreadFetchNext]_threadFetchVars PROVE ThreadInv'
  OBVIOUS
<1>1. CASE \E c \in BelowPost : Appears(c) \/ Disappears(c)
  BY <1>1, AppearsKeeps, DisappearsKeeps
<1>2. CASE \/ \E m \in Mine, full \in BOOLEAN : Delivered(m, full)
           \/ \E full \in BOOLEAN : LikeDelivered(full) \/ PostIngested(full)
           \/ LikeListed
           \/ \E p \in {"tracked", "untracked", "gone"} : PostChanges(p)
  BY <1>2, SurroundingsKeep
<1>3. CASE \E k \in Kinds : TakeTask(k)
  BY <1>3, TakeTaskKeeps
<1>4. CASE \/ \E readable, full \in BOOLEAN : Refresh(readable, full)
           \/ \E permanent \in BOOLEAN : RequestFails(permanent)
  BY <1>4, RefreshKeeps, RequestFailsKeeps
<1>5. CASE ScoreRead \/ ThreadPage
  BY <1>5, ScoreReadKeeps, ThreadPageKeeps
<1>6. CASE \E missed \in SUBSET (Flaky \cap InThread) : PeerTubeThreads(missed)
  BY <1>6, PeerTubeThreadsKeep
<1>7. CASE \E lost \in SUBSET Flaky : IngestThread(lost)
  BY <1>7, IngestThreadKeeps
<1>8. CASE \E read \in SUBSET InThread, lost \in SUBSET Flaky, stops \in BOOLEAN :
             RepliesPage(read, lost, stops)
  BY <1>8, RepliesPageKeeps
<1>9. CASE UNCHANGED threadFetchVars
  BY <1>9, ReadingUndisturbed DEF threadFetchVars, ThreadInv, ThreadTypes, TriesOK, Supported
<1> QED
  BY <1>1, <1>2, <1>3, <1>4, <1>5, <1>6, <1>7, <1>8, <1>9 DEF ThreadFetchNext

\* The variables of the tasks that read a remote post again keep their types.
THEOREM ThreadTypeCorrect == ThreadFetchSpec => []ThreadFetchTypeOK
<1>1. ThreadInv => ThreadFetchTypeOK
  BY ThreadIs DEF ThreadInv, ThreadTypes, ThreadFetchTypeOK, ReadingStates
<1> QED
  BY <1>1, ThreadInitInv, ThreadKept, PTL DEF ThreadFetchSpec

\* FetchPlatformPostThread and FetchPostReplies: a reading of a thread that ended well
\* and was not cut short has tried every usable comment that was there when it began,
\* however many were written above its pages meanwhile.
THEOREM ThreadsAreReadWhole == ThreadFetchSpec => []NothingSkipped
<1>1. ThreadInv => NothingSkipped
  BY DEF ThreadInv, FoundOK, NothingSkipped
<1> QED
  BY <1>1, ThreadInitInv, ThreadKept, PTL DEF ThreadFetchSpec

-----------------------------------------------------------------------------
(***************************************************************************)
(* OutboxFetch: sequences that are chosen from and put together.           *)
(***************************************************************************)
LEMMA ChosenAre ==
  ASSUME NEW os \in Seq(Objects), NEW W
  PROVE  Chosen(os, W) \in Seq(Objects \cap W)
<1> DEFINE T == Objects \cap W
           n == Len(os)
           Next(v, i) == IF os[i] \in W THEN Append(v, os[i]) ELSE v
           step == [i \in 1..n |-> [v \in Seq(T) |-> Next(v, i)]]
           Upto == CHOOSE f : f = [i \in 0..n |->
                     IF i = 0 THEN <<>> ELSE IF os[i] \in W THEN Append(f[i - 1], os[i]) ELSE f[i - 1]]
<1>1. \A i \in 1..n, v \in Seq(T) : Next(v, i) \in Seq(T)
  <2> TAKE i \in 1..n, v \in Seq(T)
  <2>1. os[i] \in Objects
    OBVIOUS
  <2> QED
    BY <2>1
<1>2. n \in Nat /\ <<>> \in Seq(T)
  OBVIOUS
<1>3. Chosen(os, W) = Upto[n]
  BY DEF Chosen
<1> HIDE DEF T
<1>4. step \in [1..n -> [Seq(T) -> Seq(T)]]
  BY <1>1
<1>5. PICK g \in [0..n -> Seq(T)] : g[0] = <<>> /\ \A i \in 1..n : g[i] = step[i][g[i - 1]]
  <2>1. Steps(Seq(T), <<>>, n, step)
    BY <1>2, <1>4 DEF Steps
  <2>2. \E g : Follows(Seq(T), <<>>, n, step, g)
    BY <2>1, Folding
  <2> HIDE DEF step
  <2> QED
    BY <2>2 DEF Follows
<1>6. \A i \in 1..n : g[i] = Next(g[i - 1], i)
  <2> TAKE i \in 1..n
  <2>1. i - 1 \in 0..n
    OBVIOUS
  <2>2. g[i - 1] \in Seq(T)
    BY <1>5, <2>1
  <2>3. step[i][g[i - 1]] = Next(g[i - 1], i)
    BY <2>2
  <2> HIDE DEF step, Next
  <2> QED
    BY <1>5, <2>3
<1>7. g = [i \in 0..n |->
             IF i = 0 THEN <<>> ELSE IF os[i] \in W THEN Append(g[i - 1], os[i]) ELSE g[i - 1]]
  <2>1. \A i \in 0..n : g[i] = IF i = 0 THEN <<>> ELSE IF os[i] \in W THEN Append(g[i - 1], os[i]) ELSE g[i - 1]
    <3> TAKE i \in 0..n
    <3>1. i # 0 => i \in 1..n
      BY <1>2
    <3> HIDE DEF step
    <3> QED
      BY <1>5, <1>6, <3>1
  <2> HIDE DEF step, Next
  <2> QED
    BY <1>5, <2>1
<1>8. Upto = [i \in 0..n |->
                IF i = 0 THEN <<>> ELSE IF os[i] \in W THEN Append(Upto[i - 1], os[i]) ELSE Upto[i - 1]]
  BY <1>7
<1> HIDE DEF Upto
<1>9. \A i \in 1..n : Upto[i - 1] \in Seq(T) => Upto[i] \in Seq(T)
  <2>1. \A i \in 1..n : i \in 0..n /\ i # 0
    BY <1>2
  <2>2. \A i \in 1..n : Upto[i] = Next(Upto[i - 1], i)
    BY <1>8, <2>1
  <2> HIDE DEF Next
  <2> QED
    BY <1>1, <2>2
<1>10. 0 \in 0..n /\ n \in 0..n /\ Upto[0] = <<>>
  <2>1. 0 \in 0..n /\ n \in 0..n
    BY <1>2
  <2> QED
    BY <1>8, <2>1
<1>11. \A i \in 0..n : Upto[i] \in Seq(T)
  BY <1>2, <1>9, <1>10, Throughout
<1> QED
  BY <1>3, <1>10, <1>11 DEF T

LEMMA ConcatIs ==
  ASSUME NEW A, NEW ss \in Seq(Seq(A))
  PROVE  Concat(ss) \in Seq(A)
<1> DEFINE n == Len(ss)
           step == [i \in 1..n |-> [v \in Seq(A) |-> v \o ss[i]]]
           Upto == CHOOSE f : f = [i \in 0..n |-> IF i = 0 THEN <<>> ELSE f[i - 1] \o ss[i]]
<1>1. \A i \in 1..n, v \in Seq(A) : v \o ss[i] \in Seq(A)
  <2> TAKE i \in 1..n, v \in Seq(A)
  <2>1. ss[i] \in Seq(A)
    OBVIOUS
  <2> QED
    BY <2>1
<1>2. n \in Nat /\ <<>> \in Seq(A)
  OBVIOUS
<1>3. Concat(ss) = Upto[n]
  BY DEF Concat
<1>4. step \in [1..n -> [Seq(A) -> Seq(A)]]
  BY <1>1
<1>5. PICK g \in [0..n -> Seq(A)] : g[0] = <<>> /\ \A i \in 1..n : g[i] = step[i][g[i - 1]]
  <2>1. Steps(Seq(A), <<>>, n, step)
    BY <1>2, <1>4 DEF Steps
  <2>2. \E g : Follows(Seq(A), <<>>, n, step, g)
    BY <2>1, Folding
  <2> HIDE DEF step
  <2> QED
    BY <2>2 DEF Follows
<1>6. \A i \in 1..n : g[i] = g[i - 1] \o ss[i]
  <2> TAKE i \in 1..n
  <2>1. i - 1 \in 0..n
    OBVIOUS
  <2>2. g[i - 1] \in Seq(A)
    BY <1>5, <2>1
  <2>3. step[i][g[i - 1]] = g[i - 1] \o ss[i]
    BY <2>2
  <2> HIDE DEF step
  <2> QED
    BY <1>5, <2>3
<1>7. g = [i \in 0..n |-> IF i = 0 THEN <<>> ELSE g[i - 1] \o ss[i]]
  <2>1. \A i \in 0..n : g[i] = IF i = 0 THEN <<>> ELSE g[i - 1] \o ss[i]
    <3> TAKE i \in 0..n
    <3>1. i # 0 => i \in 1..n
      BY <1>2
    <3> HIDE DEF step
    <3> QED
      BY <1>5, <1>6, <3>1
  <2> HIDE DEF step
  <2> QED
    BY <1>5, <2>1
<1>8. Upto = [i \in 0..n |-> IF i = 0 THEN <<>> ELSE Upto[i - 1] \o ss[i]]
  BY <1>7
<1> HIDE DEF Upto
<1>9. \A i \in 1..n : Upto[i - 1] \in Seq(A) => Upto[i] \in Seq(A)
  <2>1. \A i \in 1..n : i \in 0..n /\ i # 0
    BY <1>2
  <2>2. \A i \in 1..n : Upto[i] = Upto[i - 1] \o ss[i]
    BY <1>8, <2>1
  <2> QED
    BY <1>1, <2>2
<1>10. 0 \in 0..n /\ n \in 0..n /\ Upto[0] = <<>>
  <2>1. 0 \in 0..n /\ n \in 0..n
    BY <1>2
  <2> QED
    BY <1>8, <2>1
<1>11. \A i \in 0..n : Upto[i] \in Seq(A)
  BY <1>2, <1>9, <1>10, Throughout
<1> QED
  BY <1>3, <1>10, <1>11

-----------------------------------------------------------------------------
(***************************************************************************)
(* OutboxFetch: items that say what they answer, and rows that agree.      *)
(***************************************************************************)
FinePost(o) ==
  ~Answers(o) \/ AcrossHosts(o) \/ (software = "discourse" /\ InReplyTo[o] \in Hidden)
Tables == [Objects -> SUBSET {"post", "comment"}]
GoodRows == {rows \in Tables : \A o \in Objects : "post" \in rows[o] => FinePost(o)}
Nothing(rows) == \A o \in Objects : rows[o] = {}

Honest(item) == item.obj \in Objects /\ (item.reply \/ FinePost(item.obj))
Offered == {item \in [wraps : {<<>>}, own : BOOLEAN, obj : Objects, reply : BOOLEAN,
                      named : BOOLEAN] : Honest(item)}
AnEntry == [wraps : Seq(Wraps), own : BOOLEAN, bare : BOOLEAN, obj : Objects]

LEMMA PlainOffered ==
  ASSUME NEW o \in Objects, NEW r \in BOOLEAN, r \/ FinePost(o)
  PROVE  Plain(o, r) \in Offered
BY DEF Plain, Offered, Honest

\* What is stored of an item that says what it answers.
LEMMA StoreIsGood ==
  ASSUME NEW rows \in GoodRows, NEW item, Honest(item), NEW bad
  PROVE  /\ StoreObject(rows, item, bad) \in GoodRows
         /\ \A o \in Objects : rows[o] # {} => StoreObject(rows, item, bad)[o] # {}
         /\ Accepts(rows, item, bad) => StoreObject(rows, item, bad)[item.obj] # {}
<1> DEFINE up == Above(rows, item)
           kept(x) == IF x = item.obj THEN rows[x] \cup {IF item.reply THEN "comment" ELSE "post"}
                      ELSE IF x \in up THEN {IF Answers(x) THEN "comment" ELSE "post"}
                      ELSE rows[x]
           all == [x \in Objects |-> kept(x)]
<1>1. CASE ~Accepts(rows, item, bad)
  BY <1>1 DEF StoreObject
<1>2. CASE Accepts(rows, item, bad)
  <2>1. StoreObject(rows, item, bad) = all
    BY <1>2 DEF StoreObject
  <2> HIDE DEF up
  <2>2. \A x \in Objects :
          /\ kept(x) \in SUBSET {"post", "comment"}
          /\ "post" \in kept(x) => FinePost(x)
          /\ rows[x] # {} => kept(x) # {}
    <3> TAKE x \in Objects
    <3>1. rows[x] \in SUBSET {"post", "comment"} /\ ("post" \in rows[x] => FinePost(x))
      BY DEF GoodRows, Tables
    <3>2. CASE x = item.obj
      BY <3>1, <3>2 DEF Honest
    <3>3. CASE x # item.obj /\ x \in up
      BY <3>3 DEF FinePost
    <3>4. CASE x # item.obj /\ x \notin up
      BY <3>1, <3>4
    <3> QED
      BY <3>2, <3>3, <3>4
  <2>3. item.obj \in Objects /\ kept(item.obj) # {}
    BY DEF Honest
  <2> HIDE DEF kept
  <2>4. all \in GoodRows
    BY <2>2 DEF GoodRows, Tables
  <2> QED
    BY <2>1, <2>2, <2>3, <2>4
<1> QED
  BY <1>1, <1>2

LEMMA IngestIsGood ==
  ASSUME NEW rows \in GoodRows, NEW item, Honest(item), NEW bad
  PROVE  /\ IngestEntry(rows, item, bad) \in GoodRows
         /\ ~Nothing(rows) => ~Nothing(IngestEntry(rows, item, bad))
         /\ Imports(rows, item, bad) => ~Nothing(IngestEntry(rows, item, bad))
         /\ item.wraps = <<>> /\ Accepts(rows, item, bad) => ~Nothing(IngestEntry(rows, item, bad))
<1>1. item.obj \in Objects
  BY DEF Honest
<1>2. item.wraps = <<>> => IngestEntry(rows, item, bad) = StoreObject(rows, item, bad)
  BY DEF IngestEntry
<1>3. IngestEntry(rows, item, bad) \in {rows, StoreObject(rows, item, bad)}
  BY DEF IngestEntry
<1> QED
  BY <1>1, <1>2, <1>3, StoreIsGood DEF Nothing, Imports

\* Taking a wrapper off leaves an entry of the same object.
LEMMA InnerEntry ==
  ASSUME NEW e \in AnEntry, e.wraps # <<>>
  PROVE  Inner(e) \in AnEntry /\ Inner(e).obj = e.obj
<1>1. Tail(e.wraps) \in Seq(Wraps)
  BY DEF AnEntry
<1> QED
  BY <1>1 DEF AnEntry, Inner

LEMMA PreparedIsHonest ==
  ASSUME NEW e \in AnEntry
  PROVE  Honest(Prepared(e))
<1> DEFINE a == FromCreate(e)
           b == FromAnnounce(a)
           c == FromAdd(b)
           d == FromUpdate(c)
<1>1. a \in AnEntry
  BY InnerEntry DEF FromCreate, Kind
<1>2. b \in AnEntry
  <2> HIDE DEF a
  <2> QED
    BY <1>1, InnerEntry DEF FromAnnounce, Kind
<1>3. c \in AnEntry
  <2> HIDE DEF b
  <2> QED
    BY <1>2, InnerEntry DEF FromAdd, Kind
<1>4. d \in AnEntry
  <2> HIDE DEF c
  <2> QED
    BY <1>3, InnerEntry DEF FromUpdate, Kind
<1>5. Prepared(e) = Promoted(d)
  BY DEF Prepared
<1> HIDE DEF d
<1>6. d.obj \in Objects
  BY <1>4 DEF AnEntry
<1>7. Promoted(d) = AsRead(d) \/ (Promoted(d) = Plain(d.obj, FALSE) /\ AcrossHosts(d.obj))
  BY DEF Promoted
<1>8. Honest(AsRead(d))
  BY <1>6 DEF AsRead, Honest, FinePost
<1>9. AcrossHosts(d.obj) => Honest(Plain(d.obj, FALSE))
  BY <1>6 DEF Plain, Honest, FinePost
<1> QED
  BY <1>5, <1>7, <1>8, <1>9

LEMMA RelayIsHonest ==
  ASSUME NEW e \in AnEntry, NEW lost, NEW html, html \subseteq Boards
  PROVE  Honest(RelayItem(e, lost, html))
<1>1. e.obj \in Objects
  BY DEF AnEntry
<1>2. CASE e.obj \in lost \cap html
  <2>1. ~Answers(e.obj)
    BY <1>2, OutboxFetchAssumption DEF Answers
  <2>2. RelayItem(e, lost, html) = [Plain(e.obj, FALSE) EXCEPT !.named = FALSE]
    BY <1>2 DEF RelayItem
  <2> QED
    BY <1>1, <2>1, <2>2 DEF Plain, Honest, FinePost
<1>3. CASE e.obj \notin lost \cap html
  <2>1. RelayItem(e, lost, html) = Plain(e.obj, Answers(e.obj))
    BY <1>3 DEF RelayItem
  <2> QED
    BY <1>1, <2>1 DEF Plain, Honest, FinePost
<1> QED
  BY <1>2, <1>3

\* The entries of a page: what was counted as imported is there, and what was
\* there before.
PageStates ==
  {st \in [rows : GoodRows, seen : Nat, imported : Nat, relays : Nat] :
     st.imported > 0 \/ ~Nothing(rowsOf) => ~Nothing(st.rows)}

LEMMA EachIsGood ==
  ASSUME NEW s \in PageStates, NEW item, Honest(item), NEW bad, NEW spared \in BOOLEAN,
         NEW m \in Nat
  PROVE  [rows |-> IF spared THEN s.rows ELSE IngestEntry(s.rows, item, bad),
          seen |-> s.seen + 1,
          imported |-> s.imported + (IF ~spared /\ Imports(s.rows, item, bad) THEN 1 ELSE 0),
          relays |-> s.relays + m] \in PageStates
<1> DEFINE rows == IF spared THEN s.rows ELSE IngestEntry(s.rows, item, bad)
           more == IF ~spared /\ Imports(s.rows, item, bad) THEN 1 ELSE 0
           next == [rows |-> rows, seen |-> s.seen + 1, imported |-> s.imported + more,
                    relays |-> s.relays + m]
<1>1. s.rows \in GoodRows /\ s.seen \in Nat /\ s.imported \in Nat /\ s.relays \in Nat
  BY DEF PageStates
<1>2. s.imported > 0 \/ ~Nothing(rowsOf) => ~Nothing(s.rows)
  BY DEF PageStates
<1>3. rows \in GoodRows
  BY <1>1, IngestIsGood
<1>4. ~Nothing(s.rows) => ~Nothing(rows)
  BY <1>1, IngestIsGood
<1>5. more \in {0, 1} /\ (more = 1 => ~Nothing(rows))
  BY <1>1, IngestIsGood
<1> HIDE DEF rows, more
<1>6. next \in [rows : GoodRows, seen : Nat, imported : Nat, relays : Nat]
  BY <1>1, <1>3, <1>5
<1>7. next.imported > 0 \/ ~Nothing(rowsOf) => ~Nothing(next.rows)
  BY <1>1, <1>2, <1>4, <1>5
<1>8. next \in PageStates
  BY <1>6, <1>7 DEF PageStates
<1> QED
  BY <1>8 DEF rows, more

LEMMA EachEntryIsGood ==
  ASSUME NEW st \in PageStates, NEW entries \in Seq(AnEntry), NEW lost, NEW html,
         html \subseteq Boards, fetch.preview \in BOOLEAN
  PROVE  EachEntry(st, entries, lost, html) \in PageStates
<1> DEFINE n == Len(entries)
           preview == fetch.preview
           bad == IF IsWanted(preview) THEN Turned(people, lost) ELSE Objects
           Relay(e) == IsRelay(e)
           Item(e) == IF IsRelay(e) THEN RelayItem(e, lost, IF preview THEN html ELSE {})
                      ELSE Prepared(e)
           Spared(s, e) == preview /\ IsRelay(e) /\ s.relays >= PreviewRelays
           Each(s, e) ==
             IF s.seen >= ItemLimit(preview) THEN s
             ELSE [rows |-> IF Spared(s, e) THEN s.rows ELSE IngestEntry(s.rows, Item(e), bad),
                   seen |-> s.seen + 1,
                   imported |-> s.imported
                                  + (IF ~Spared(s, e) /\ Imports(s.rows, Item(e), bad) THEN 1 ELSE 0),
                   relays |-> s.relays + (IF preview /\ IsRelay(e) /\ ~Spared(s, e) THEN 1 ELSE 0)]
           step == [i \in 1..n |-> [s \in PageStates |-> Each(s, entries[i])]]
           Upto == CHOOSE f : f = [i \in 0..n |-> IF i = 0 THEN st ELSE Each(f[i - 1], entries[i])]
<1>1. EachEntry(st, entries, lost, html) = Upto[n]
  BY DEF EachEntry
<1>2. \A i \in 1..n, s \in PageStates : Each(s, entries[i]) \in PageStates
  <2> TAKE i \in 1..n, s \in PageStates
  <2> DEFINE e == entries[i]
             item == Item(e)
             spared == Spared(s, e)
             m == IF preview /\ IsRelay(e) /\ ~Spared(s, e) THEN 1 ELSE 0
  <2>1. e \in AnEntry
    OBVIOUS
  <2>2. (IF preview THEN html ELSE {}) \subseteq Boards
    OBVIOUS
  <2> HIDE DEF e
  <2>3. Honest(item)
    BY <2>1, <2>2, PreparedIsHonest, RelayIsHonest
  <2>4. m \in Nat /\ spared \in BOOLEAN
    OBVIOUS
  <2> DEFINE next == [rows |-> IF spared THEN s.rows ELSE IngestEntry(s.rows, item, bad),
                      seen |-> s.seen + 1,
                      imported |-> s.imported
                                     + (IF ~spared /\ Imports(s.rows, item, bad) THEN 1 ELSE 0),
                      relays |-> s.relays + m]
  <2>5. Each(s, e) = IF s.seen >= ItemLimit(preview) THEN s ELSE next
    OBVIOUS
  <2> HIDE DEF item, spared, m, bad, Each
  <2>6. next \in PageStates
    BY <2>3, <2>4, EachIsGood
  <2> HIDE DEF next
  <2>7. Each(s, e) \in PageStates
    BY <2>5, <2>6
  <2> QED
    BY <2>7 DEF e
<1> HIDE DEF Each
<1>3. n \in Nat
  OBVIOUS
<1>4. Steps(PageStates, st, n, step)
  BY <1>2, <1>3 DEF Steps
<1>5. PICK g \in [0..n -> PageStates] : g[0] = st /\ \A i \in 1..n : g[i] = step[i][g[i - 1]]
  <2>1. \E g : Follows(PageStates, st, n, step, g)
    BY <1>4, Folding
  <2> HIDE DEF step
  <2> QED
    BY <2>1 DEF Follows
<1>6. \A i \in 1..n : g[i] = Each(g[i - 1], entries[i])
  <2> TAKE i \in 1..n
  <2>1. i - 1 \in 0..n
    OBVIOUS
  <2>2. g[i - 1] \in PageStates
    BY <1>5, <2>1
  <2>3. step[i][g[i - 1]] = Each(g[i - 1], entries[i])
    BY <2>2
  <2> HIDE DEF step
  <2> QED
    BY <1>5, <2>3
<1>7. g = [i \in 0..n |-> IF i = 0 THEN st ELSE Each(g[i - 1], entries[i])]
  <2>1. \A i \in 0..n : g[i] = IF i = 0 THEN st ELSE Each(g[i - 1], entries[i])
    <3> TAKE i \in 0..n
    <3>1. i # 0 => i \in 1..n
      BY <1>3
    <3> HIDE DEF step
    <3> QED
      BY <1>5, <1>6, <3>1
  <2> HIDE DEF step
  <2> QED
    BY <1>5, <2>1
<1>8. Upto = [i \in 0..n |-> IF i = 0 THEN st ELSE Each(Upto[i - 1], entries[i])]
  BY <1>7
<1> HIDE DEF Upto
<1>9. \A i \in 1..n : Upto[i - 1] \in PageStates => Upto[i] \in PageStates
  <2>1. \A i \in 1..n : i \in 0..n /\ i # 0
    BY <1>3
  <2>2. \A i \in 1..n : Upto[i] = Each(Upto[i - 1], entries[i])
    BY <1>8, <2>1
  <2> QED
    BY <1>2, <2>2
<1>10. 0 \in 0..n /\ n \in 0..n /\ Upto[0] = st
  <2>1. 0 \in 0..n /\ n \in 0..n
    BY <1>3
  <2> QED
    BY <1>8, <2>1
<1>11. \A i \in 0..n : Upto[i] \in PageStates
  BY <1>3, <1>9, <1>10, Throughout
<1> QED
  BY <1>1, <1>10, <1>11

\* The rows after each of the items that a source offered.
StoredUpto(items, bad) ==
  LET Upto[i \in 0..Len(items)] == IF i = 0 THEN rowsOf ELSE IngestEntry(Upto[i - 1], items[i], bad)
  IN  Upto

LEMMA StoredIs ==
  ASSUME NEW items \in Seq(Offered), NEW bad, rowsOf \in GoodRows
  PROVE  /\ StoredUpto(items, bad)[0] = rowsOf
         /\ \A i \in 0..Len(items) : StoredUpto(items, bad)[i] \in GoodRows
         /\ \A i \in 1..Len(items) :
              StoredUpto(items, bad)[i] = IngestEntry(StoredUpto(items, bad)[i - 1], items[i], bad)
<1> DEFINE n == Len(items)
           Each(s, i) == IngestEntry(s, items[i], bad)
           step == [i \in 1..n |-> [s \in GoodRows |-> Each(s, i)]]
           Upto == CHOOSE f : f = [i \in 0..n |-> IF i = 0 THEN rowsOf ELSE IngestEntry(f[i - 1], items[i], bad)]
<1>1. StoredUpto(items, bad) = Upto
  BY DEF StoredUpto
<1>2. \A i \in 1..n, s \in GoodRows : Each(s, i) \in GoodRows
  <2> TAKE i \in 1..n, s \in GoodRows
  <2>1. Honest(items[i])
    <3>1. items[i] \in Offered
      OBVIOUS
    <3> QED
      BY <3>1 DEF Offered
  <2> QED
    BY <2>1, IngestIsGood
<1>3. n \in Nat
  OBVIOUS
<1>4. Steps(GoodRows, rowsOf, n, step)
  <2> HIDE DEF Each
  <2> QED
    BY <1>2, <1>3 DEF Steps
<1>5. PICK g \in [0..n -> GoodRows] : g[0] = rowsOf /\ \A i \in 1..n : g[i] = step[i][g[i - 1]]
  <2>1. \E g : Follows(GoodRows, rowsOf, n, step, g)
    BY <1>4, Folding
  <2> HIDE DEF step
  <2> QED
    BY <2>1 DEF Follows
<1>6. \A i \in 1..n : g[i] = Each(g[i - 1], i)
  <2> HIDE DEF Each
  <2> TAKE i \in 1..n
  <2>1. i - 1 \in 0..n
    OBVIOUS
  <2>2. g[i - 1] \in GoodRows
    BY <1>5, <2>1
  <2>3. step[i][g[i - 1]] = Each(g[i - 1], i)
    BY <2>2
  <2> HIDE DEF step
  <2> QED
    BY <1>5, <2>3
<1>7. g = [i \in 0..n |-> IF i = 0 THEN rowsOf ELSE IngestEntry(g[i - 1], items[i], bad)]
  <2>1. \A i \in 0..n : g[i] = IF i = 0 THEN rowsOf ELSE IngestEntry(g[i - 1], items[i], bad)
    <3> TAKE i \in 0..n
    <3>1. i # 0 => i \in 1..n
      BY <1>3
    <3> HIDE DEF step
    <3> QED
      BY <1>5, <1>6, <3>1
  <2> HIDE DEF step
  <2> QED
    BY <1>5, <2>1
<1>8. Upto = [i \in 0..n |-> IF i = 0 THEN rowsOf ELSE IngestEntry(Upto[i - 1], items[i], bad)]
  BY <1>7
<1> HIDE DEF Upto
<1>9. \A i \in 1..n : Upto[i] = Each(Upto[i - 1], i)
  <2>1. \A i \in 1..n : i \in 0..n /\ i # 0
    BY <1>3
  <2> QED
    BY <1>8, <2>1
<1>10. 0 \in 0..n /\ Upto[0] = rowsOf
  <2>1. 0 \in 0..n
    BY <1>3
  <2> QED
    BY <1>8, <2>1
<1>11. \A i \in 0..n : Upto[i] \in GoodRows
  <2> HIDE DEF Each
  <2>1. \A i \in 1..n : Upto[i - 1] \in GoodRows => Upto[i] \in GoodRows
    BY <1>2, <1>9
  <2> QED
    BY <2>1, <1>3, <1>10, Throughout
<1> QED
  BY <1>1, <1>9, <1>10, <1>11

\* When nothing is there afterwards, nothing was accepted on the way.
LEMMA NothingStored ==
  ASSUME NEW items \in Seq(Offered), NEW bad, rowsOf \in GoodRows,
         Nothing(StoredUpto(items, bad)[Len(items)])
  PROVE  /\ Nothing(rowsOf)
         /\ \A i \in 1..Len(items) : \E rows \in GoodRows :
              Nothing(rows) /\ ~Accepts(rows, items[i], bad)
<1> DEFINE n == Len(items)
           rows(i) == StoredUpto(items, bad)[i]
           Some == {i \in 0..n : ~Nothing(rows(i))}
           T == {k \in Nat : k <= n => Nothing(rows(n - k))}
<1>1. /\ n \in Nat /\ rows(0) = rowsOf
      /\ \A i \in 0..n : rows(i) \in GoodRows
      /\ \A i \in 1..n : rows(i) = IngestEntry(rows(i - 1), items[i], bad)
  BY StoredIs
<1> HIDE DEF rows
<1>2. \A i \in 1..n : Honest(items[i]) /\ items[i].wraps = <<>>
  <2> TAKE i \in 1..n
  <2>1. items[i] \in Offered
    OBVIOUS
  <2> QED
    BY <2>1 DEF Offered
<1>3. Nothing(rows(n))
  BY DEF rows
<1>4. \A i \in 1..n :
        Nothing(rows(i)) => Nothing(rows(i - 1)) /\ ~Accepts(rows(i - 1), items[i], bad)
  <2> TAKE i \in 1..n
  <2>1. i - 1 \in 0..n
    BY <1>1
  <2>2. rows(i - 1) \in GoodRows /\ rows(i) = IngestEntry(rows(i - 1), items[i], bad)
    BY <1>1, <2>1
  <2> QED
    BY <2>2, <1>2, IngestIsGood
<1>5. Nat \subseteq T
  <2>1. 0 \in T
    BY <1>1, <1>3
  <2>2. ASSUME NEW k \in Nat, k \in T PROVE k + 1 \in T
    <3> SUFFICES ASSUME k + 1 <= n PROVE Nothing(rows(n - (k + 1)))
      OBVIOUS
    <3>1. n - k \in 1..n /\ (n - k) - 1 = n - (k + 1) /\ Nothing(rows(n - k))
      BY <1>1, <2>2
    <3> QED
      BY <3>1, <1>4
  <2> HIDE DEF T
  <2> QED
    BY <2>1, <2>2, EveryNatural
<1>6. \A i \in 0..n : Nothing(rows(i))
  <2> TAKE i \in 0..n
  <2>1. n - i \in T /\ n - i <= n /\ n - (n - i) = i
    BY <1>1, <1>5
  <2> QED
    BY <2>1
<1>7. \A i \in 1..n : i \in 0..n /\ i - 1 \in 0..n /\ 0 \in 0..n
  BY <1>1
<1>8. 0 \in 0..n
  BY <1>1
<1> QED
  BY <1>1, <1>4, <1>6, <1>7, <1>8

-----------------------------------------------------------------------------
(***************************************************************************)
(* OutboxFetch: what every source offers says what it answers.             *)
(***************************************************************************)
LEMMA AtMostIs ==
  ASSUME NEW A, NEW s \in Seq(A), NEW n \in Nat
  PROVE  AtMost(s, n) \in Seq(A)
<1> DEFINE m == IF n < Len(s) THEN n ELSE Len(s)
<1>1. m \in Nat /\ m <= Len(s)
  OBVIOUS
<1>2. AtMost(s, n) = SubSeq(s, 1, m)
  BY DEF AtMost
<1> HIDE DEF m
<1>3. \A i \in 1..m : s[i] \in A
  BY <1>1
<1>4. SubSeq(s, 1, m) = [i \in 1..m |-> s[i]]
  BY <1>1
<1>5. [i \in 1..m |-> s[i]] \in Seq(A)
  BY <1>1, <1>3
<1> QED
  BY <1>2, <1>4, <1>5

LEMMA ReversedIs ==
  ASSUME NEW A, NEW s \in Seq(A)
  PROVE  Reversed(s) \in Seq(A)
<1> DEFINE n == Len(s)
<1>1. n \in Nat
  OBVIOUS
<1>2. \A i \in 1..n : s[n + 1 - i] \in A
  <2> TAKE i \in 1..n
  <2>1. n + 1 - i \in 1..n
    BY <1>1
  <2> QED
    BY <2>1
<1>3. Reversed(s) = [i \in 1..n |-> s[n + 1 - i]]
  BY DEF Reversed
<1> HIDE DEF n
<1> QED
  BY <1>1, <1>2, <1>3

LEMMA FromTopicsIs ==
  ASSUME NEW A, NEW pages \in Seq(Seq(A)), NEW n \in Nat, NEW down
  PROVE  FromTopics(pages, n, down) \in Seq(A)
<1> DEFINE m == Len(AtMost(pages, n))
           had == [i \in 1..m |-> IF i \in down THEN <<>> ELSE pages[i]]
<1>1. AtMost(pages, n) \in Seq(Seq(A))
  BY AtMostIs
<1>2. m \in Nat
  BY <1>1
<1>3. m <= Len(pages)
  <2> DEFINE k == IF n < Len(pages) THEN n ELSE Len(pages)
  <2>1. k \in Nat /\ k <= Len(pages)
    OBVIOUS
  <2>2. m = Len(SubSeq(pages, 1, k))
    BY DEF AtMost
  <2> HIDE DEF k, m
  <2> QED
    BY <2>1, <2>2
<1> HIDE DEF m
<1>4. \A i \in 1..m : (IF i \in down THEN <<>> ELSE pages[i]) \in Seq(A)
  <2> TAKE i \in 1..m
  <2>1. pages[i] \in Seq(A)
    BY <1>2, <1>3
  <2>2. <<>> \in Seq(A)
    OBVIOUS
  <2> QED
    BY <2>1, <2>2
<1>5. had \in Seq(Seq(A))
  BY <1>2, <1>4
<1>6. FromTopics(pages, n, down) = AtMost(Concat(had), n)
  BY DEF FromTopics, m
<1> HIDE DEF had
<1>7. Concat(had) \in Seq(A)
  BY <1>5, ConcatIs
<1> QED
  BY <1>6, <1>7, AtMostIs

LEMMA ElggOffered ==
  ASSUME NEW os \in Seq(Objects)
  PROVE  ElggPages(os) \in Seq(Offered)
<1> DEFINE W == {o \in Addressed : Answers(o) => AcrossHosts(o)}
           chosen == Chosen(os, W)
           page(o) == Plain(o, FALSE)
<1>1. chosen \in Seq(Objects \cap W)
  BY ChosenAre
<1>2. ElggPages(os) = [i \in 1..Len(chosen) |-> page(chosen[i])]
  BY DEF ElggPages
<1>3. \A o \in W : FinePost(o)
  BY DEF FinePost
<1> HIDE DEF W, chosen
<1>4. \A i \in 1..Len(chosen) : page(chosen[i]) \in Offered
  <2> TAKE i \in 1..Len(chosen)
  <2>1. chosen[i] \in Objects \cap W
    BY <1>1
  <2> QED
    BY <1>3, <2>1, PlainOffered
<1> HIDE DEF page
<1> QED
  BY <1>1, <1>2, <1>4

LEMMA MbinOffered ==
  ASSUME NEW os \in Seq(Objects)
  PROVE  MbinPages(os) \in Seq(Offered)
<1> DEFINE W == {o \in Objects \ Hidden : ~Answers(o)}
           chosen == Chosen(os, W)
           page(o) == Plain(o, FALSE)
<1>1. chosen \in Seq(Objects \cap W)
  BY ChosenAre
<1>2. MbinPages(os) = [i \in 1..Len(chosen) |-> page(chosen[i])]
  BY DEF MbinPages
<1>3. \A o \in W : FinePost(o)
  BY DEF FinePost
<1> HIDE DEF W, chosen
<1>4. \A i \in 1..Len(chosen) : page(chosen[i]) \in Offered
  <2> TAKE i \in 1..Len(chosen)
  <2>1. chosen[i] \in Objects \cap W
    BY <1>1
  <2> QED
    BY <1>3, <2>1, PlainOffered
<1> HIDE DEF page
<1> QED
  BY <1>1, <1>2, <1>4

\* An object that says what it answers, if it answers anything.
LEMMA TrueOffered ==
  ASSUME NEW o \in Objects
  PROVE  /\ Plain(o, Answers(o)) \in Offered
         /\ software = "discourse" => Plain(o, Answers(o) /\ InReplyTo[o] \notin Hidden) \in Offered
<1> DEFINE a == Answers(o)
           d == Answers(o) /\ InReplyTo[o] \notin Hidden
<1>1. a \in BOOLEAN /\ d \in BOOLEAN
  BY DEF Answers
<1>2. a \/ FinePost(o)
  BY DEF FinePost
<1>3. software = "discourse" => d \/ FinePost(o)
  BY DEF FinePost
<1>4. Plain(o, a) \in Offered
  <2> HIDE DEF a
  <2> QED
    BY <1>1, <1>2, PlainOffered
<1>5. software = "discourse" => Plain(o, d) \in Offered
  <2> HIDE DEF d
  <2> QED
    BY <1>1, <1>3, PlainOffered
<1> QED
  BY <1>4, <1>5

LEMMA NodeBbOffered ==
  ASSUME NEW os \in Seq(Objects)
  PROVE  NodeBbPages(os) \in Seq(Offered)
<1> DEFINE W == Objects \ Hidden
           chosen == Chosen(os, W)
<1>1. chosen \in Seq(Objects \cap W)
  BY ChosenAre
<1>2. NodeBbPages(os) = [i \in 1..Len(chosen) |-> Plain(chosen[i], Answers(chosen[i]))]
  BY DEF NodeBbPages
<1> HIDE DEF W, chosen
<1>3. \A i \in 1..Len(chosen) : Plain(chosen[i], Answers(chosen[i])) \in Offered
  <2> TAKE i \in 1..Len(chosen)
  <2>1. chosen[i] \in Objects
    BY <1>1
  <2> QED
    BY <2>1, TrueOffered
<1> QED
  BY <1>1, <1>2, <1>3

LEMMA DiscourseOffered ==
  ASSUME NEW os \in Seq(Objects), software = "discourse"
  PROVE  DiscoursePages(os) \in Seq(Offered)
<1> DEFINE W == Objects \ Hidden
           chosen == Chosen(os, W)
           page(o) == Plain(o, Answers(o) /\ InReplyTo[o] \notin Hidden)
<1>1. chosen \in Seq(Objects \cap W)
  BY ChosenAre
<1>2. DiscoursePages(os) = [i \in 1..Len(chosen) |-> page(chosen[i])]
  BY DEF DiscoursePages
<1> HIDE DEF W, chosen
<1>3. \A i \in 1..Len(chosen) : page(chosen[i]) \in Offered
  <2> TAKE i \in 1..Len(chosen)
  <2>1. chosen[i] \in Objects
    BY <1>1
  <2> QED
    BY <2>1, TrueOffered
<1> HIDE DEF page
<1> QED
  BY <1>1, <1>2, <1>3

LEMMA FriendicaOffered ==
  ASSUME NEW os \in Seq(Objects)
  PROVE  FriendicaPages(os) \in Seq(Offered)
<1>1. \A i \in 1..Len(os) : Plain(os[i], Answers(os[i])) \in Offered
  <2> TAKE i \in 1..Len(os)
  <2>1. os[i] \in Objects
    OBVIOUS
  <2> QED
    BY <2>1, TrueOffered
<1> QED
  BY <1>1 DEF FriendicaPages

LEMMA PrepareOffered ==
  ASSUME NEW items \in Seq(Offered)
  PROVE  Prepare(items) \in Seq(Offered)
<1> DEFINE who(i) == Author[items[i].obj]
           first(i) == who(i) \in Faceless /\ \A j \in 1..(i - 1) : who(j) # who(i)
           made(i) == IF first(i) THEN [items[i] EXCEPT !.named = FALSE] ELSE items[i]
<1>1. Prepare(items) = [i \in DOMAIN items |-> made(i)]
  BY DEF Prepare
<1>2. DOMAIN items = 1..Len(items) /\ Len(items) \in Nat
  OBVIOUS
<1> HIDE DEF first
<1>3. \A i \in 1..Len(items) : made(i) \in Offered
  <2> TAKE i \in 1..Len(items)
  <2>1. items[i] \in Offered
    OBVIOUS
  <2>2. [items[i] EXCEPT !.named = FALSE] \in Offered
    BY <2>1 DEF Offered, Honest
  <2> QED
    BY <2>1, <2>2
<1> HIDE DEF made
<1> QED
  BY <1>1, <1>2, <1>3

LEMMA LimitIs == Limit \in Nat
BY OutboxFetchAssumption DEF Limit, ItemLimit

LEMMA ShelfIs ==
  ASSUME shelf \in Shelves
  PROVE  /\ shelf \in Seq(Seq(Objects)) /\ Concat(shelf) \in Seq(Objects)
         /\ Heads \in Seq(Objects)
<1>1. shelf \in Seq(Seq(Objects) \ {<<>>})
  BY OutboxFetchAssumption
<1>2. \A i \in 1..Len(shelf) : shelf[i] \in Seq(Objects) /\ shelf[i] # <<>>
  BY <1>1
<1>3. shelf \in Seq(Seq(Objects))
  BY <1>1, <1>2
<1>4. \A i \in 1..Len(shelf) : shelf[i][1] \in Objects
  BY <1>2
<1>5. Heads \in Seq(Objects)
  BY <1>1, <1>4 DEF Heads
<1> QED
  BY <1>3, <1>5, ConcatIs

LEMMA SourcesOffer ==
  ASSUME shelf \in Shelves, NEW n \in Nat, NEW down
  PROVE  /\ Prepare(ElggOffer(n)) \in Seq(Offered)
         /\ NodeBbOffer(n, down) \in Seq(Offered)
         /\ software = "discourse" => DiscourseOffer(n, down) \in Seq(Offered)
         /\ FriendicaOffer(n) \in Seq(Offered)
         /\ MbinOffer(n) \in Seq(Offered)
<1>1. shelf \in Seq(Seq(Objects)) /\ Concat(shelf) \in Seq(Objects) /\ Heads \in Seq(Objects)
  BY ShelfIs
<1>2. Prepare(ElggOffer(n)) \in Seq(Offered)
  <2>1. ElggPages(Concat(shelf)) \in Seq(Offered)
    BY <1>1, ElggOffered
  <2>2. ElggOffer(n) \in Seq(Offered)
    BY <2>1, AtMostIs DEF ElggOffer
  <2> QED
    BY <2>2, PrepareOffered
<1>3. NodeBbOffer(n, down) \in Seq(Offered)
  <2> DEFINE page(i) == NodeBbPages(shelf[i])
             pages == [i \in DOMAIN shelf |-> page(i)]
  <2>1. \A i \in 1..Len(shelf) : page(i) \in Seq(Offered)
    <3> TAKE i \in 1..Len(shelf)
    <3>1. shelf[i] \in Seq(Objects)
      BY <1>1
    <3> QED
      BY <3>1, NodeBbOffered
  <2>2. DOMAIN shelf = 1..Len(shelf) /\ Len(shelf) \in Nat
    BY <1>1
  <2> HIDE DEF page
  <2>3. pages \in Seq(Seq(Offered))
    BY <2>1, <2>2
  <2> HIDE DEF pages
  <2>4. FromTopics(pages, n, down) \in Seq(Offered)
    BY <2>3, FromTopicsIs
  <2> QED
    BY <2>4 DEF pages, page, NodeBbOffer
<1>4. ASSUME software = "discourse" PROVE DiscourseOffer(n, down) \in Seq(Offered)
  <2> DEFINE page(i) == DiscoursePages(shelf[i])
             pages == [i \in DOMAIN shelf |-> page(i)]
  <2>1. \A i \in 1..Len(shelf) : page(i) \in Seq(Offered)
    <3> TAKE i \in 1..Len(shelf)
    <3>1. shelf[i] \in Seq(Objects)
      BY <1>1
    <3> QED
      BY <3>1, <1>4, DiscourseOffered
  <2>2. DOMAIN shelf = 1..Len(shelf) /\ Len(shelf) \in Nat
    BY <1>1
  <2> HIDE DEF page
  <2>3. pages \in Seq(Seq(Offered))
    BY <2>1, <2>2
  <2> HIDE DEF pages
  <2>4. FromTopics(pages, n, down) \in Seq(Offered)
    BY <2>3, FromTopicsIs
  <2> QED
    BY <2>4 DEF pages, page, DiscourseOffer
<1>5. FriendicaOffer(n) \in Seq(Offered)
  <2>1. AtMost(Concat(shelf), n) \in Seq(Objects)
    BY <1>1, AtMostIs
  <2>2. FriendicaPages(AtMost(Concat(shelf), n)) \in Seq(Offered)
    BY <2>1, FriendicaOffered
  <2> QED
    BY <2>2, ReversedIs DEF FriendicaOffer
<1>6. MbinOffer(n) \in Seq(Offered)
  <2>1. AtMost(Heads, n) \in Seq(Objects)
    BY <1>1, AtMostIs
  <2> QED
    BY <2>1, MbinOffered DEF MbinOffer
<1> QED
  BY <1>2, <1>3, <1>4, <1>5, <1>6

-----------------------------------------------------------------------------
(***************************************************************************)
(* OutboxFetch: the inductive invariant.                                   *)
(***************************************************************************)
UrlSets == SUBSET ({"outbox"} \cup {p.next : p \in OutboxPages})
PagesHeld == OutboxPages \cup {NoFetch.page}
FetchStates ==
  [at : {"idle", "elggFirst", "first", "next", "sources", "last"}, preview : BOOLEAN,
   page : PagesHeld, urls : UrlSets, pages : Nat, seen : Nat,
   imported : Nat, relays : Nat, down : BOOLEAN, asked : BOOLEAN, smooth : BOOLEAN, ok : BOOLEAN]

OutboxTypes ==
  /\ standing \in {"gone", "followed", "unfollowed"} /\ software \in Software /\ shelf \in Shelves
  /\ rowsOf \in GoodRows /\ people \subseteq Faceless /\ fetch \in FetchStates

\* What was imported is there.
ImportsOK == fetch.at # "idle" /\ fetch.imported > 0 => ~Nothing(rowsOf)

\* A source is the last thing that a task asks, but for Elgg's of a preview.
AskedOnce == fetch.asked => fetch.at \in {"idle", "last"} \/ software = "elgg"

\* A source that was asked while nothing failed had nothing that could be stored.
NoneSound == \A i \in DOMAIN Offer : ~Sound(Offer[i])
AskedOK ==
  fetch.smooth /\ Nothing(rowsOf) =>
    /\ fetch.at = "last" \/ (fetch.at = "idle" /\ fetch.ok) =>
         (software = "mbin" /\ ~fetch.asked) \/ NoneSound
    /\ fetch.at \in {"first", "next", "sources"} /\ software = "elgg" /\ fetch.preview => NoneSound
OutboxInv == OutboxTypes /\ ImportsOK /\ AskedOnce /\ AskedOK

\* The offer is what the constants, the shelf and the limit make it.
LEMMA OfferKept ==
  ASSUME software' = software, shelf' = shelf, fetch'.preview = fetch.preview
  PROVE  Offer' = Offer
BY DEF Offer, Limit, ItemLimit, ElggOffer, NodeBbOffer, DiscourseOffer, FriendicaOffer, MbinOffer,
       Heads

SoundFor(item, known) ==
  /\ item.obj \notin (IF item.named THEN Turned(known, {}) ELSE Refused)
  /\ item.reply => Line[InReplyTo[item.obj]] \cap Turned(known, {}) = {}

LEMMA NotSound ==
  ASSUME NEW rows, Nothing(rows), NEW item, NEW known, ~Accepts(rows, item, Turned(known, {}))
  PROVE  ~SoundFor(item, known)
<1>1. Unread(rows, item.obj) = Line[InReplyTo[item.obj]]
  BY DEF Unread, Nothing
<1> QED
  BY <1>1 DEF Accepts, Above, SoundFor

LEMMA OutboxInitInv == OutboxFetchInit => OutboxInv
<1> SUFFICES ASSUME OutboxFetchInit PROVE OutboxInv
  OBVIOUS
<1> USE DEF OutboxFetchInit
<1>1. rowsOf \in GoodRows
  BY DEF GoodRows, Tables
<1>2. fetch \in FetchStates
  BY DEF FetchStates, NoFetch, PagesHeld, UrlSets
<1>3. OutboxTypes
  BY <1>1, <1>2 DEF OutboxTypes
<1>4. fetch.at = "idle" /\ fetch.smooth = FALSE /\ fetch.asked = FALSE
  BY DEF NoFetch
<1> QED
  BY <1>3, <1>4 DEF OutboxInv, ImportsOK, AskedOnce, AskedOK

\* What a step leaves of the invariant when it changes neither what is offered nor whom it knows.
LEMMA AskedStays ==
  ASSUME OutboxInv, fetch' \in FetchStates,
         software' = software, shelf' = shelf, people' = people,
         fetch'.preview = fetch.preview
  PROVE  NoneSound => NoneSound'
BY OfferKept DEF NoneSound, Sound

\* The record of a task, when it is written.
OutboxRecord(at, pg, us, m, n, k, b) ==
  [fetch EXCEPT !.at = at, !.page = pg, !.urls = us, !.pages = @ + 1, !.seen = m,
                !.imported = n, !.relays = k, !.smooth = b]

LEMMA PageFetched ==
  ASSUME fetch \in FetchStates, NEW at \in {"sources", "next"},
         NEW pg \in PagesHeld, NEW us \in UrlSets,
         NEW m \in Nat, NEW n \in Nat, NEW k \in Nat, NEW b \in BOOLEAN
  PROVE  /\ OutboxRecord(at, pg, us, m, n, k, b) \in FetchStates
         /\ OutboxRecord(at, pg, us, m, n, k, b).at = at /\ OutboxRecord(at, pg, us, m, n, k, b).smooth = b
         /\ OutboxRecord(at, pg, us, m, n, k, b).imported = n
         /\ OutboxRecord(at, pg, us, m, n, k, b).preview = fetch.preview
         /\ OutboxRecord(at, pg, us, m, n, k, b).asked = fetch.asked
<1>1. fetch.pages + 1 \in Nat
  BY DEF FetchStates
<1> QED
  BY <1>1 DEF FetchStates, OutboxRecord

\* What a page becomes: its rows are good and what it counts is there.
LEMMA ReadPageStep ==
  ASSUME OutboxInv, fetch.at \in {"first", "next"}, NEW page \in OutboxPages,
         NEW urls \in UrlSets, NEW lost, NEW html, html \subseteq Boards,
         ReadPage(page, urls, lost, html), UNCHANGED <<standing, software, shelf, people>>
  PROVE  OutboxInv'
<1> DEFINE before == [rows |-> rowsOf, seen |-> fetch.seen, imported |-> fetch.imported,
                      relays |-> fetch.relays]
           st == EachEntry(before, page.has, lost, html)
           over == fetch.pages + 1 >= PageLimit(fetch.preview) \/ st.seen >= ItemLimit(fetch.preview)
           smooth == fetch.smooth /\ lost = {} /\ IsWanted(fetch.preview)
           at == IF over THEN "sources" ELSE "next"
           pg == IF over THEN NoFetch.page ELSE page
           us == IF over THEN {} ELSE urls
           next == OutboxRecord(at, pg, us, st.seen, st.imported, st.relays, smooth)
<1>1. fetch \in FetchStates /\ rowsOf \in GoodRows
  BY DEF OutboxInv, OutboxTypes
<1>2. before \in PageStates
  <2>1. fetch.imported > 0 => ~Nothing(rowsOf)
    BY DEF OutboxInv, ImportsOK
  <2>2. fetch.seen \in Nat /\ fetch.imported \in Nat /\ fetch.relays \in Nat
    BY <1>1 DEF FetchStates
  <2> QED
    BY <1>1, <2>1, <2>2 DEF PageStates
<1>3. page.has \in Seq(AnEntry)
  <2>1. page.has \in Seq(Entries)
    BY OutboxFetchAssumption
  <2>2. Entries \subseteq AnEntry
    BY OutboxFetchAssumption DEF AnEntry
  <2> HIDE DEF before
  <2> QED
    BY <2>1, <2>2
<1>4. st \in PageStates
  <2>1. fetch.preview \in BOOLEAN
    BY <1>1 DEF FetchStates
  <2> HIDE DEF before
  <2> QED
    BY <1>2, <1>3, <2>1, EachEntryIsGood
<1>5. rowsOf' = st.rows /\ fetch' = next
  BY DEF ReadPage, OutboxRecord
<1> HIDE DEF st
<1>6. /\ at \in {"sources", "next"} /\ pg \in PagesHeld /\ us \in UrlSets
      /\ smooth \in BOOLEAN /\ (smooth => fetch.smooth)
  <2>1. smooth \in BOOLEAN /\ (smooth => fetch.smooth)
    BY <1>1 DEF FetchStates
  <2>2. pg \in PagesHeld /\ us \in UrlSets
    BY DEF PagesHeld, UrlSets
  <2> QED
    BY <2>1, <2>2
<1> HIDE DEF at, pg, us, smooth, over
<1>7. st.rows \in GoodRows /\ st.seen \in Nat /\ st.imported \in Nat /\ st.relays \in Nat
  BY <1>4 DEF PageStates
<1>8. st.imported > 0 \/ ~Nothing(rowsOf) => ~Nothing(st.rows)
  BY <1>4 DEF PageStates
<1>9. /\ next \in FetchStates /\ next.at = at /\ next.smooth = smooth
      /\ next.imported = st.imported /\ next.preview = fetch.preview /\ next.asked = fetch.asked
  <2>1. smooth \in BOOLEAN /\ at \in {"sources", "next"} /\ pg \in PagesHeld /\ us \in UrlSets
    BY <1>6
  <2> DEFINE m == st.seen
             n == st.imported
             k == st.relays
  <2>2. m \in Nat /\ n \in Nat /\ k \in Nat
    BY <1>7
  <2> HIDE DEF m, n, k
  <2>3. /\ OutboxRecord(at, pg, us, m, n, k, smooth) \in FetchStates
        /\ OutboxRecord(at, pg, us, m, n, k, smooth).at = at
        /\ OutboxRecord(at, pg, us, m, n, k, smooth).smooth = smooth
        /\ OutboxRecord(at, pg, us, m, n, k, smooth).imported = n
        /\ OutboxRecord(at, pg, us, m, n, k, smooth).preview = fetch.preview
        /\ OutboxRecord(at, pg, us, m, n, k, smooth).asked = fetch.asked
    BY <1>1, <2>2, <2>1, PageFetched
  <2> QED
    BY <2>3 DEF m, n, k
<1> HIDE DEF next
<1>10. OutboxTypes'
  BY <1>5, <1>7, <1>9 DEF OutboxInv, OutboxTypes, GoodRows, FinePost
<1>11. ImportsOK'
  BY <1>5, <1>8, <1>9 DEF ImportsOK, Nothing
<1>12. AskedOnce'
  BY <1>5, <1>6, <1>9 DEF OutboxInv, AskedOnce
<1>13. Nothing(rowsOf') => Nothing(rowsOf)
  BY <1>5, <1>8 DEF Nothing
<1>14. AskedOK'
  <2>1. NoneSound => NoneSound'
    BY <1>5, <1>9, AskedStays
  <2> QED
    BY <1>5, <1>6, <1>9, <1>13, <2>1 DEF OutboxInv, AskedOK, Nothing
<1> QED
  BY <1>10, <1>11, <1>12, <1>14 DEF OutboxInv

\* The record of a task that asked another source, and of one that ends.
AskedRecord(at, m, b) ==
  [fetch EXCEPT !.at = at, !.seen = @ + m, !.asked = TRUE, !.smooth = b]

LEMMA SourceAsked ==
  ASSUME fetch \in FetchStates, NEW at \in {"first", "last"}, NEW m \in Nat, NEW b \in BOOLEAN
  PROVE  /\ AskedRecord(at, m, b) \in FetchStates
         /\ AskedRecord(at, m, b).at = at /\ AskedRecord(at, m, b).smooth = b
         /\ AskedRecord(at, m, b).imported = fetch.imported
         /\ AskedRecord(at, m, b).preview = fetch.preview
         /\ AskedRecord(at, m, b).asked = TRUE
<1>1. fetch.seen + m \in Nat
  BY DEF FetchStates
<1> QED
  BY <1>1 DEF FetchStates, AskedRecord

EndRecord(b) ==
  [fetch EXCEPT !.at = "idle", !.page = NoFetch.page, !.urls = {}, !.ok = b]

LEMMA TaskEnded ==
  ASSUME fetch \in FetchStates, NEW b \in BOOLEAN
  PROVE  /\ EndRecord(b) \in FetchStates
         /\ EndRecord(b).at = "idle" /\ EndRecord(b).ok = b
         /\ EndRecord(b).smooth = fetch.smooth
         /\ EndRecord(b).imported = fetch.imported
         /\ EndRecord(b).preview = fetch.preview
         /\ EndRecord(b).asked = fetch.asked
<1>1. NoFetch.page \in PagesHeld /\ {} \in UrlSets
  BY DEF PagesHeld, UrlSets
<1> QED
  BY <1>1 DEF FetchStates, EndRecord

\* A task that ends with an error leaves nothing to say.
LEMMA FailingStep ==
  ASSUME OutboxInv, fetch' = EndRecord(FALSE), rowsOf' \in GoodRows, people' \subseteq Faceless,
         UNCHANGED <<standing, software, shelf>>
  PROVE  OutboxInv'
<1>1. fetch \in FetchStates
  BY DEF OutboxInv, OutboxTypes
<1>2. fetch' \in FetchStates /\ fetch'.at = "idle" /\ fetch'.ok = FALSE
  BY <1>1, TaskEnded
<1>3. OutboxTypes'
  BY <1>2 DEF OutboxInv, OutboxTypes, GoodRows, FinePost
<1> QED
  BY <1>2, <1>3 DEF OutboxInv, ImportsOK, AskedOnce, AskedOK

\* A source is asked: when nothing is there in the end, it offered nothing sound.
LEMMA IngestStep ==
  ASSUME OutboxInv, NEW items \in Seq(Offered), NEW known, known \subseteq Faceless, NEW lost,
         NEW strict, NEW breaks, NEW smooth \in BOOLEAN, NEW next \in {"first", "last"},
         fetch.at # "idle", next = "first" => software = "elgg",
         smooth => items = Offer,
         Ingest(items, known, lost, strict, breaks, smooth, next)
  PROVE  OutboxInv'
<1> DEFINE bad == IF IsWanted(fetch.preview) THEN Turned(people \cup known, lost) ELSE Objects
           n == Len(items)
           at == IF items = <<>> THEN next ELSE "last"
           b == fetch.smooth /\ smooth /\ lost = {} /\ IsWanted(fetch.preview)
           rows == StoredUpto(items, bad)[n]
<1>1. /\ people' = people \cup known /\ rowsOf' = rows
      /\ fetch' = EndRecord(FALSE) \/ fetch' = AskedRecord(at, n, b)
      /\ UNCHANGED <<standing, software, shelf>>
  BY DEF Ingest, StoredUpto, TaskEnds, EndRecord, AskedRecord
<1>2. fetch \in FetchStates /\ rowsOf \in GoodRows
  BY DEF OutboxInv, OutboxTypes
<1>3. n \in Nat
  OBVIOUS
<1>4. rows \in GoodRows
  <2>1. n \in 0..n
    BY <1>3
  <2> QED
    BY <1>2, <2>1, StoredIs
<1>5. Nothing(rows) => Nothing(rowsOf)
  BY <1>2, NothingStored
<1>6. ASSUME b, Nothing(rows) PROVE \A i \in 1..n : ~SoundFor(items[i], people')
  <2> TAKE i \in 1..n
  <2>1. bad = Turned(people', {})
    BY <1>1, <1>6
  <2>2. \E r \in GoodRows : Nothing(r) /\ ~Accepts(r, items[i], bad)
    BY <1>2, <1>6, NothingStored
  <2> HIDE DEF bad
  <2> QED
    BY <2>1, <2>2, NotSound
<1> HIDE DEF rows
<1>7. people' \subseteq Faceless
  BY <1>1 DEF OutboxInv, OutboxTypes
<1>8. CASE fetch' = EndRecord(FALSE)
  BY <1>1, <1>4, <1>7, <1>8, FailingStep
<1>9. CASE fetch' = AskedRecord(at, n, b)
  <2>1. b \in BOOLEAN /\ at \in {"first", "last"} /\ (b => smooth)
    BY <1>2 DEF FetchStates
  <2>2. at = "first" => software = "elgg"
    OBVIOUS
  <2>3. at = "first" => items = <<>>
    OBVIOUS
  <2> HIDE DEF b, at, n
  <2>4. /\ fetch' \in FetchStates /\ fetch'.at = at /\ fetch'.smooth = b
        /\ fetch'.imported = fetch.imported /\ fetch'.preview = fetch.preview
        /\ fetch'.asked = TRUE
    BY <1>2, <1>3, <1>9, <2>1, SourceAsked
  <2>5. OutboxTypes'
    BY <1>1, <1>4, <1>7, <2>4 DEF OutboxInv, OutboxTypes, GoodRows, FinePost
  <2>6. ImportsOK'
    BY <1>1, <1>5, <2>4 DEF OutboxInv, ImportsOK, Nothing
  <2>7. AskedOnce'
    BY <1>1, <2>1, <2>2, <2>4 DEF AskedOnce
  <2>8. ASSUME b, Nothing(rows) PROVE NoneSound'
    <3>1. Offer' = items
      BY <1>1, <2>1, <2>4, <2>8, OfferKept
    <3>2. DOMAIN items = 1..n
      BY DEF n
    <3> QED
      BY <1>6, <2>8, <3>1, <3>2 DEF NoneSound, Sound, SoundFor
  <2>9. AskedOK'
    BY <1>1, <2>4, <2>8 DEF AskedOK, Nothing
  <2> QED
    BY <2>5, <2>6, <2>7, <2>9 DEF OutboxInv
<1> QED
  BY <1>1, <1>8, <1>9

\* A step that only writes the task: where it goes, and whether it still goes smoothly.
LEMMA OnlyTheTask ==
  ASSUME OutboxInv, UNCHANGED <<software, shelf, rowsOf, people>>,
         standing' \in {"gone", "followed", "unfollowed"}, fetch' \in FetchStates,
         fetch'.imported = fetch.imported, fetch'.preview = fetch.preview,
         fetch'.asked = fetch.asked, fetch.at # "idle",
         fetch'.at \in {"idle", "last"} \/ (fetch'.at = "sources" /\ fetch.at \in {"first", "next"})
           \/ (fetch'.at = "first" /\ software = "elgg" /\ ~fetch'.smooth),
         fetch'.smooth => fetch.smooth,
         fetch'.smooth /\ Nothing(rowsOf) =>
           /\ fetch'.at = "last" \/ (fetch'.at = "idle" /\ fetch'.ok) =>
                (software = "mbin" /\ ~fetch.asked) \/ NoneSound
  PROVE  OutboxInv'
<1>1. OutboxTypes'
  BY DEF OutboxInv, OutboxTypes, GoodRows, FinePost
<1>2. ImportsOK'
  BY DEF OutboxInv, ImportsOK, Nothing
<1>3. AskedOnce'
  BY DEF OutboxInv, AskedOnce
<1>4. NoneSound => NoneSound'
  BY AskedStays
<1>5. AskedOK'
  <2>1. Nothing(rowsOf)' = Nothing(rowsOf)
    BY DEF Nothing
  <2> QED
    BY <1>4, <2>1 DEF OutboxInv, AskedOK
<1> QED
  BY <1>1, <1>2, <1>3, <1>5 DEF OutboxInv

LEMMA StartFetchStep ==
  ASSUME OutboxInv, NEW preview \in BOOLEAN, StartFetch(preview)
  PROVE  OutboxInv'
<1> DEFINE at == IF preview /\ software = "elgg" THEN "elggFirst" ELSE "first"
<1>1. at \in {"elggFirst", "first"} /\ (at = "first" => ~(preview /\ software = "elgg"))
  OBVIOUS
<1>2. fetch' = [NoFetch EXCEPT !.preview = preview, !.smooth = TRUE, !.at = at]
  BY DEF StartFetch
<1> HIDE DEF at
<1>3. NoFetch \in FetchStates
  BY DEF FetchStates, NoFetch, PagesHeld, UrlSets
<1>4. /\ fetch' \in FetchStates /\ fetch'.at = at /\ fetch'.preview = preview
      /\ fetch'.asked = FALSE /\ fetch'.imported = 0
  <2>1. fetch' \in FetchStates
    BY <1>1, <1>2, <1>3 DEF FetchStates
  <2>2. /\ fetch'.at = at /\ fetch'.preview = preview
        /\ fetch'.asked = FALSE /\ fetch'.imported = 0
    BY <1>2 DEF NoFetch
  <2> QED
    BY <2>1, <2>2
<1>5. OutboxTypes'
  BY <1>4 DEF StartFetch, OutboxInv, OutboxTypes, GoodRows, FinePost
<1>6. ImportsOK' /\ AskedOnce'
  BY <1>4 DEF ImportsOK, AskedOnce
<1>7. AskedOK'
  BY <1>1, <1>4 DEF StartFetch, AskedOK
<1> QED
  BY <1>5, <1>6, <1>7 DEF OutboxInv

LEMMA ToSourcesStep ==
  ASSUME OutboxInv, fetch.at \in {"first", "next"}, ToSources,
         UNCHANGED <<standing, software, shelf, rowsOf, people>>
  PROVE  OutboxInv'
<1>1. fetch \in FetchStates /\ standing' \in {"gone", "followed", "unfollowed"}
  BY DEF OutboxInv, OutboxTypes
<1>2. NoFetch.page \in PagesHeld /\ {} \in UrlSets
  BY DEF PagesHeld, UrlSets
<1>3. /\ fetch' \in FetchStates /\ fetch'.at = "sources" /\ fetch'.smooth = fetch.smooth
      /\ fetch'.imported = fetch.imported /\ fetch'.preview = fetch.preview
      /\ fetch'.asked = fetch.asked
  BY <1>1, <1>2 DEF ToSources, FetchStates
<1> QED
  BY <1>1, <1>3, OnlyTheTask

LEMMA FirstPageStep ==
  ASSUME OutboxInv, NEW lost, NEW html, html \subseteq Boards, FetchFirst(lost, html)
  PROVE  OutboxInv'
<1>1. /\ fetch.at = "first" /\ UNCHANGED <<standing, software, shelf, people>>
      /\ \/ \E page \in OutboxPages : ReadPage(page, {"outbox"}, lost, html)
         \/ ToSources /\ UNCHANGED rowsOf
  BY DEF FetchFirst
<1>2. CASE \E page \in OutboxPages : ReadPage(page, {"outbox"}, lost, html)
  <2>1. PICK page \in OutboxPages : ReadPage(page, {"outbox"}, lost, html)
    BY <1>2
  <2>2. {"outbox"} \in UrlSets
    BY DEF UrlSets
  <2> QED
    BY <1>1, <2>1, <2>2, ReadPageStep
<1>3. CASE ToSources /\ UNCHANGED rowsOf
  BY <1>1, <1>3, ToSourcesStep
<1> QED
  BY <1>1, <1>2, <1>3

LEMMA NextPageStep ==
  ASSUME OutboxInv, NEW lost, NEW html, html \subseteq Boards, FetchNext(lost, html)
  PROVE  OutboxInv'
<1> DEFINE next == fetch.page.next
<1>1. /\ fetch.at = "next" /\ UNCHANGED <<standing, software, shelf, people>>
      /\ \/ \E page \in OutboxPages : ReadPage(page, fetch.urls, lost, html)
         \/ /\ next \notin {"embedded", "none"} \cup fetch.urls
            /\ \E page \in OutboxPages : ReadPage(page, fetch.urls \cup {next}, lost, html)
         \/ ToSources /\ UNCHANGED rowsOf
  BY DEF FetchNext
<1>2. fetch.urls \in UrlSets /\ fetch.page \in PagesHeld
  BY DEF OutboxInv, OutboxTypes, FetchStates
<1>3. CASE \E page \in OutboxPages : ReadPage(page, fetch.urls, lost, html)
  BY <1>1, <1>2, <1>3, ReadPageStep
<1>4. CASE /\ next \notin {"embedded", "none"} \cup fetch.urls
           /\ \E page \in OutboxPages : ReadPage(page, fetch.urls \cup {next}, lost, html)
  <2>1. next # "none"
    BY <1>4
  <2>2. fetch.page \in OutboxPages
    <3>1. NoFetch.page.next = "none"
      BY DEF NoFetch
    <3> QED
      BY <1>2, <2>1, <3>1 DEF PagesHeld
  <2>3. fetch.urls \cup {next} \in UrlSets
    BY <1>2, <2>2 DEF UrlSets
  <2>4. PICK page \in OutboxPages : ReadPage(page, fetch.urls \cup {next}, lost, html)
    BY <1>4
  <2> HIDE DEF next
  <2> QED
    BY <1>1, <2>3, <2>4, ReadPageStep
<1>5. CASE ToSources /\ UNCHANGED rowsOf
  BY <1>1, <1>5, ToSourcesStep
<1> QED
  BY <1>1, <1>3, <1>4, <1>5

LEMMA FirstFailsStep ==
  ASSUME OutboxInv, FetchFirstFails
  PROVE  OutboxInv'
<1>1. fetch \in FetchStates /\ standing' \in {"gone", "followed", "unfollowed"}
  BY DEF OutboxInv, OutboxTypes, FetchFirstFails
<1>2. /\ fetch' \in FetchStates /\ fetch'.at = "sources" /\ fetch'.smooth = FALSE
      /\ fetch'.imported = fetch.imported /\ fetch'.preview = fetch.preview
      /\ fetch'.asked = fetch.asked
  BY <1>1 DEF FetchFirstFails, FetchStates
<1>3. UNCHANGED <<software, shelf, rowsOf, people>> /\ fetch.at = "first"
  BY DEF FetchFirstFails
<1> QED
  BY <1>1, <1>2, <1>3, OnlyTheTask

LEMMA NextFailsStep ==
  ASSUME OutboxInv, FetchNextFails
  PROVE  OutboxInv'
<1>1. fetch \in FetchStates /\ standing' \in {"gone", "followed", "unfollowed"}
  BY DEF OutboxInv, OutboxTypes, FetchNextFails
<1>2. UNCHANGED <<standing, software, shelf, rowsOf, people>> /\ fetch.at = "next"
  BY DEF FetchNextFails
<1>3. CASE Fatal(fetch.imported)
  <2>1. fetch' = EndRecord(FALSE)
    BY <1>3 DEF FetchNextFails, TaskEnds, EndRecord
  <2>2. rowsOf' \in GoodRows /\ people' \subseteq Faceless
    BY <1>2 DEF OutboxInv, OutboxTypes
  <2> QED
    BY <1>2, <2>1, <2>2, FailingStep
<1>4. CASE ~Fatal(fetch.imported)
  <2>1. NoFetch.page \in PagesHeld /\ {} \in UrlSets
    BY DEF PagesHeld, UrlSets
  <2>2. fetch' = [fetch EXCEPT !.at = "sources", !.page = NoFetch.page, !.urls = {},
                               !.smooth = FALSE]
    BY <1>4 DEF FetchNextFails
  <2>3. /\ fetch' \in FetchStates /\ fetch'.at = "sources" /\ fetch'.smooth = FALSE
        /\ fetch'.imported = fetch.imported /\ fetch'.preview = fetch.preview
        /\ fetch'.asked = fetch.asked
    BY <1>1, <2>1, <2>2 DEF FetchStates
  <2> QED
    BY <1>1, <1>2, <2>3, OnlyTheTask
<1> QED
  BY <1>3, <1>4

LEMMA SourceFailsStep ==
  ASSUME OutboxInv, SourceFails
  PROVE  OutboxInv'
<1> DEFINE at == IF fetch.at = "elggFirst" THEN "first" ELSE "last"
<1>1. fetch \in FetchStates /\ standing' \in {"gone", "followed", "unfollowed"}
  BY DEF OutboxInv, OutboxTypes, SourceFails
<1>2. UNCHANGED <<software, shelf, rowsOf, people>>
  BY DEF SourceFails
<1>3. fetch.at \in {"elggFirst", "sources"} /\ (fetch.at = "elggFirst" => software = "elgg")
  BY DEF SourceFails, SourceIsDue, ElggIsDue, NodeBbIsDue, MbinIsDue
<1>4. at \in {"first", "last"} /\ (at = "first" => software = "elgg")
  BY <1>3
<1>5. fetch' = [fetch EXCEPT !.at = at, !.smooth = FALSE]
  BY DEF SourceFails
<1> HIDE DEF at
<1>6. /\ fetch' \in FetchStates /\ fetch'.at = at /\ fetch'.smooth = FALSE
      /\ fetch'.imported = fetch.imported /\ fetch'.preview = fetch.preview
      /\ fetch'.asked = fetch.asked
  BY <1>1, <1>4, <1>5 DEF FetchStates
<1> QED
  BY <1>1, <1>2, <1>3, <1>4, <1>6, OnlyTheTask

\* The task ends: a source that was not asked had nothing sound, or something is there.
LEMMA FinishStep ==
  ASSUME OutboxInv, FinishFetch
  PROVE  OutboxInv'
<1> DEFINE ok == ~(fetch.down /\ fetch.seen = 0)
<1>1. fetch \in FetchStates /\ standing' \in {"gone", "followed", "unfollowed"}
  BY DEF OutboxInv, OutboxTypes, FinishFetch
<1>2. /\ UNCHANGED <<software, shelf, rowsOf, people>>
      /\ fetch.at = "last" \/ (fetch.at = "sources" /\ ~SourceIsDue)
      /\ fetch' = EndRecord(ok)
  BY DEF FinishFetch, TaskEnds, EndRecord
<1>3. ok \in BOOLEAN
  OBVIOUS
<1> HIDE DEF ok
<1>4. /\ fetch' \in FetchStates /\ fetch'.at = "idle" /\ fetch'.smooth = fetch.smooth
      /\ fetch'.imported = fetch.imported /\ fetch'.preview = fetch.preview
      /\ fetch'.asked = fetch.asked
  BY <1>1, <1>2, <1>3, TaskEnded
<1>5. ASSUME fetch.smooth, Nothing(rowsOf)
      PROVE  (software = "mbin" /\ ~fetch.asked) \/ NoneSound
  <2>1. CASE fetch.at = "last"
    BY <1>5, <2>1 DEF OutboxInv, AskedOK
  <2>2. CASE fetch.at = "sources" /\ ~SourceIsDue
    <3>1. fetch.imported \in Nat /\ fetch.preview \in BOOLEAN
      BY <1>1 DEF FetchStates
    <3>2. fetch.imported = 0
      BY <1>5, <2>2, <3>1 DEF OutboxInv, ImportsOK
    <3>3. software = "elgg" => NoneSound
      BY <1>5, <2>2 DEF SourceIsDue, ElggIsDue, OutboxInv, AskedOK
    <3>4. software # "nodebb"
      BY <2>2, <3>2 DEF SourceIsDue, NodeBbIsDue, ShouldRunNodeBb
    <3>5. software \notin {"discourse", "friendica"}
      BY <2>2 DEF SourceIsDue
    <3>6. software = "mbin" => ~fetch.asked
      BY <2>2 DEF OutboxInv, AskedOnce
    <3>7. software \notin {"elgg", "nodebb", "discourse", "friendica", "mbin"} => NoneSound
      BY DEF NoneSound, Offer
    <3> QED
      BY <3>3, <3>4, <3>5, <3>6, <3>7
  <2> QED
    BY <1>2, <2>1, <2>2
<1> QED
  BY <1>1, <1>2, <1>4, <1>5, OnlyTheTask

LEMMA CommunityStep ==
  ASSUME OutboxInv, NEW c \in {"gone", "followed", "unfollowed"}, CommunityChanges(c)
  PROVE  OutboxInv'
<1>1. standing' = c /\ UNCHANGED <<software, shelf, rowsOf, people, fetch>>
  BY DEF CommunityChanges
<1>2. OutboxTypes'
  BY <1>1 DEF OutboxInv, OutboxTypes, GoodRows, FinePost
<1>3. ImportsOK' /\ AskedOnce'
  BY <1>1 DEF OutboxInv, ImportsOK, AskedOnce, Nothing
<1>4. NoneSound => NoneSound'
  <2>1. fetch' \in FetchStates
    BY <1>2 DEF OutboxTypes
  <2> QED
    BY <1>1, <2>1, AskedStays
<1>5. AskedOK'
  BY <1>1, <1>4 DEF OutboxInv, AskedOK, Nothing
<1> QED
  BY <1>2, <1>3, <1>5 DEF OutboxInv

\* The five sources: each ingests what it offers, the topics that failed left out.
LEMMA AskStep ==
  ASSUME OutboxInv, NEW lost, NEW down, NEW breaks \in BOOLEAN,
         AskElgg(lost) \/ AskFriendica(lost) \/ AskMbin(lost)
           \/ AskNodeBb(down, lost, breaks) \/ AskDiscourse(down, lost, breaks)
  PROVE  OutboxInv'
<1> DEFINE none == down = {}
           next == IF fetch.at = "elggFirst" THEN "first" ELSE "last"
<1>1. shelf \in Shelves /\ Limit \in Nat
  BY LimitIs DEF OutboxInv, OutboxTypes
<1>2. none \in BOOLEAN /\ next \in {"first", "last"}
  OBVIOUS
<1>3. {} \subseteq Faceless /\ NodeBbAuthors(down) \subseteq Faceless
      /\ DiscourseAuthors(down) \subseteq Faceless
  BY DEF NodeBbAuthors, DiscourseAuthors
<1>4. CASE AskElgg(lost)
  <2>1. /\ software = "elgg" /\ fetch.at # "idle"
        /\ Ingest(Prepare(ElggOffer(Limit)), {}, lost, TRUE, FALSE, TRUE, next)
    BY <1>4 DEF AskElgg, ElggIsDue
  <2>2. Prepare(ElggOffer(Limit)) \in Seq(Offered)
    BY <1>1, SourcesOffer
  <2>3. Offer = Prepare(ElggOffer(Limit))
    BY <2>1 DEF Offer
  <2> HIDE DEF next
  <2> QED
    BY <1>2, <1>3, <2>1, <2>2, <2>3, IngestStep
<1>5. CASE AskFriendica(lost)
  <2>1. /\ software = "friendica" /\ fetch.at # "idle"
        /\ Ingest(FriendicaOffer(Limit), {}, lost, FALSE, FALSE, TRUE, "last")
    BY <1>5 DEF AskFriendica
  <2>2. FriendicaOffer(Limit) \in Seq(Offered)
    BY <1>1, SourcesOffer
  <2>3. Offer = FriendicaOffer(Limit)
    BY <2>1 DEF Offer
  <2> QED
    BY <1>3, <2>1, <2>2, <2>3, IngestStep
<1>6. CASE AskMbin(lost)
  <2>1. /\ software = "mbin" /\ fetch.at # "idle"
        /\ Ingest(MbinOffer(Limit), {}, lost, FALSE, FALSE, TRUE, "last")
    BY <1>6 DEF AskMbin, MbinIsDue
  <2>2. MbinOffer(Limit) \in Seq(Offered)
    BY <1>1, SourcesOffer
  <2>3. Offer = MbinOffer(Limit)
    BY <2>1 DEF Offer
  <2> QED
    BY <1>3, <2>1, <2>2, <2>3, IngestStep
<1>7. CASE AskNodeBb(down, lost, breaks)
  <2>1. /\ software = "nodebb" /\ fetch.at # "idle"
        /\ Ingest(NodeBbOffer(Limit, down), NodeBbAuthors(down), lost, TRUE, breaks, none, "last")
    BY <1>7 DEF AskNodeBb, NodeBbIsDue
  <2>2. NodeBbOffer(Limit, down) \in Seq(Offered)
    BY <1>1, SourcesOffer
  <2>3. none => NodeBbOffer(Limit, down) = Offer
    BY <2>1 DEF Offer
  <2> HIDE DEF none
  <2> QED
    BY <1>2, <1>3, <2>1, <2>2, <2>3, IngestStep
<1>8. CASE AskDiscourse(down, lost, breaks)
  <2>1. /\ software = "discourse" /\ fetch.at # "idle"
        /\ Ingest(DiscourseOffer(Limit, down), DiscourseAuthors(down), lost, TRUE, breaks, none, "last")
    BY <1>8 DEF AskDiscourse
  <2>2. DiscourseOffer(Limit, down) \in Seq(Offered)
    BY <1>1, <2>1, SourcesOffer
  <2>3. none => DiscourseOffer(Limit, down) = Offer
    BY <2>1 DEF Offer
  <2> HIDE DEF none
  <2> QED
    BY <1>2, <1>3, <2>1, <2>2, <2>3, IngestStep
<1> QED
  BY <1>4, <1>5, <1>6, <1>7, <1>8

LEMMA OutboxNextInv == OutboxInv /\ [OutboxFetchNext]_outboxFetchVars => OutboxInv'
<1> SUFFICES ASSUME OutboxInv, [OutboxFetchNext]_outboxFetchVars PROVE OutboxInv'
  OBVIOUS
<1>1. ASSUME NEW preview \in BOOLEAN, StartFetch(preview) PROVE OutboxInv'
  BY <1>1, StartFetchStep
<1>2. ASSUME NEW lost \in SUBSET FlakyObjects, NEW html \in {{}, Boards},
             FetchFirst(lost, html) \/ FetchNext(lost, html)
      PROVE  OutboxInv'
  <2>1. html \subseteq Boards
    OBVIOUS
  <2> QED
    BY <1>2, <2>1, FirstPageStep, NextPageStep
<1>3. CASE FetchFirstFails \/ FetchNextFails
  BY <1>3, FirstFailsStep, NextFailsStep
<1>4. ASSUME NEW lost \in SUBSET FlakyObjects, AskElgg(lost) \/ AskFriendica(lost) \/ AskMbin(lost)
      PROVE  OutboxInv'
  BY <1>4, AskStep
<1>5. ASSUME NEW down \in SUBSET DOMAIN shelf, NEW lost \in SUBSET FlakyObjects,
             NEW breaks \in BOOLEAN,
             AskNodeBb(down, lost, breaks) \/ AskDiscourse(down, lost, breaks)
      PROVE  OutboxInv'
  BY <1>5, AskStep
<1>6. CASE SourceFails
  BY <1>6, SourceFailsStep
<1>7. CASE FinishFetch
  BY <1>7, FinishStep
<1>8. ASSUME NEW c \in {"gone", "followed", "unfollowed"}, CommunityChanges(c) PROVE OutboxInv'
  BY <1>8, CommunityStep
<1>9. CASE UNCHANGED outboxFetchVars
  <2>1. UNCHANGED <<standing, software, shelf, rowsOf, people, fetch>>
    BY <1>9 DEF outboxFetchVars
  <2>2. OutboxTypes'
    BY <2>1 DEF OutboxInv, OutboxTypes, GoodRows, FinePost
  <2>3. ImportsOK' /\ AskedOnce'
    BY <2>1 DEF OutboxInv, ImportsOK, AskedOnce, Nothing
  <2>4. NoneSound => NoneSound'
    <3>1. fetch' \in FetchStates
      BY <2>2 DEF OutboxTypes
    <3> QED
      BY <2>1, <3>1, AskedStays
  <2>5. AskedOK'
    BY <2>1, <2>4 DEF OutboxInv, AskedOK, Nothing
  <2> QED
    BY <2>2, <2>3, <2>5 DEF OutboxInv
<1> QED
  BY <1>1, <1>2, <1>3, <1>4, <1>5, <1>6, <1>7, <1>8, <1>9 DEF OutboxFetchNext

LEMMA OutboxInvHolds == OutboxFetchSpec => []OutboxInv
BY OutboxInitInv, OutboxNextInv, PTL DEF OutboxFetchSpec

\* A fetch of an outbox keeps to its types, whatever the pages and the entries are.
THEOREM OutboxTypeCorrect == OutboxFetchSpec => []OutboxFetchTypeOK
<1>1. OutboxInv => OutboxFetchTypeOK
  <2> SUFFICES ASSUME OutboxInv PROVE OutboxFetchTypeOK
    OBVIOUS
  <2>1. fetch \in FetchStates /\ rowsOf \in Tables
    BY DEF OutboxInv, OutboxTypes, GoodRows
  <2>2. /\ fetch.at \in {"idle", "elggFirst", "first", "next", "sources", "last"}
        /\ {fetch.preview, fetch.down, fetch.asked, fetch.smooth, fetch.ok} \subseteq BOOLEAN
        /\ {fetch.pages, fetch.seen, fetch.imported, fetch.relays} \subseteq Nat
    BY <2>1 DEF FetchStates
  <2> QED
    BY <2>1, <2>2 DEF OutboxInv, OutboxTypes, OutboxFetchTypeOK, Tables
<1> QED
  BY <1>1, OutboxInvHolds, PTL

\* A reply becomes a post of the community only where the code means it to: no
\* entry, wrapper or source loses the parent of any other
\* (community_outbox_prepare_item and the converters of the forum APIs).
THEOREM RepliesKeepTheirPlace == OutboxFetchSpec => []RepliesStayReplies
<1>1. OutboxInv => RepliesStayReplies
  BY DEF OutboxInv, OutboxTypes, GoodRows, RepliesStayReplies, FinePost
<1> QED
  BY <1>1, OutboxInvHolds, PTL

\* A task that ended well without a row, and without a failure on its way, asked
\* the source of its community and was offered nothing it could store.
THEOREM SourcesAreAsked == OutboxFetchSpec => []NothingWithheld
<1>1. OutboxInv => NothingWithheld
  BY DEF OutboxInv, AskedOK, NothingWithheld, NoneSound, Nothing
<1> QED
  BY <1>1, OutboxInvHolds, PTL

-----------------------------------------------------------------------------
(***************************************************************************)
(* Threads: what a comment hangs on, and its level.                        *)
(***************************************************************************)
LEMMA ThreadsTyping == ThreadsSpec => []ThreadsTypeOK
<1>1. ThreadsInit => ThreadsTypeOK
  BY DEF ThreadsInit, ThreadsTypeOK, Written
<1>2. ThreadsTypeOK /\ [ThreadsNext]_threadVars => ThreadsTypeOK'
  <2> SUFFICES ASSUME ThreadsTypeOK, [ThreadsNext]_threadVars PROVE ThreadsTypeOK'
    OBVIOUS
  <2> USE DEF ThreadsTypeOK, Written
  <2>1. ASSUME NEW p \in Written \cup {TopLevel}, AddReply(p) PROVE ThreadsTypeOK'
    <3> DEFINE n == Len(parentOf)
    <3>1. n \in Nat /\ Written = 1..n /\ n < MaxComments
      BY <2>1 DEF AddReply
    <3>2. p \in 0..MaxComments /\ p < n + 1
      BY <3>1, ThreadsAssumption DEF TopLevel
    <3>3. parentOf' = Append(parentOf, p) /\ deleted' = deleted
      BY <2>1 DEF AddReply
    <3>4. parentOf' \in Seq(0..MaxComments)
      BY <3>2, <3>3
    <3>5. DOMAIN parentOf' = 1..(n + 1)
      BY <3>1, <3>3, <3>2
    <3>6. \A c \in 1..(n + 1) : parentOf'[c] = IF c = n + 1 THEN p ELSE parentOf[c]
      BY <3>1, <3>3, <3>2
    <3>7. \A c \in 1..(n + 1) : parentOf'[c] < c
      BY <3>1, <3>2, <3>6
    <3> QED
      BY <3>1, <3>3, <3>4, <3>5, <3>7
  <2>2. ASSUME NEW c \in Written, DeleteReply(c) PROVE ThreadsTypeOK'
    BY <2>2 DEF DeleteReply
  <2>3. CASE UNCHANGED threadVars
    BY <2>3 DEF threadVars
  <2> QED
    BY <2>1, <2>2, <2>3 DEF ThreadsNext
<1> QED
  BY <1>1, <1>2, PTL DEF ThreadsSpec

LEMMA CommentsAre ==
  ASSUME ThreadsTypeOK
  PROVE  /\ Len(parentOf) \in Nat /\ Written = 1..Len(parentOf)
         /\ \A c \in Written : /\ c \in Nat \ {0} /\ 1..c \subseteq Written
                               /\ parentOf[c] = TopLevel \/ parentOf[c] \in 1..(c - 1)
<1> DEFINE n == Len(parentOf)
<1>0. parentOf \in Seq(0..MaxComments)
  BY DEF ThreadsTypeOK
<1>1. n \in Nat /\ Written = 1..n /\ parentOf \in [1..n -> 0..MaxComments]
  BY <1>0, LenProperties DEF Written
<1> HIDE DEF n
<1>2. ASSUME NEW c \in 1..n
      PROVE  /\ c \in Nat \ {0} /\ 1..c \subseteq 1..n
             /\ parentOf[c] = TopLevel \/ parentOf[c] \in 1..(c - 1)
  <2>1. parentOf[c] < c /\ parentOf[c] \in 0..MaxComments
    BY <1>1 DEF ThreadsTypeOK
  <2>2. parentOf[c] \in Nat
    BY <2>1, ThreadsAssumption
  <2>3. c \in Nat \ {0} /\ c <= n
    BY <1>1
  <2> QED
    BY <1>1, <2>1, <2>2, <2>3 DEF TopLevel
<1> QED
  BY <1>1, <1>2

\* The sets that Ancestry is the least of.
ClosedUp(c) == {S \in SUBSET (1..c) : c \in S /\ \A x \in S : parentOf[x] \in S \cup {TopLevel}}

LEMMA LineIs ==
  ASSUME NEW c PROVE Ancestry(c) = {a \in 1..c : \A S \in ClosedUp(c) : a \in S}
BY DEF Ancestry, ClosedUp

LEMMA LineHolds ==
  ASSUME ThreadsTypeOK, NEW c \in Written
  PROVE  /\ c \in Ancestry(c) /\ Ancestry(c) \subseteq 1..c /\ Ancestry(c) \subseteq Written
         /\ \A y \in Ancestry(c) : parentOf[y] = TopLevel \/ parentOf[y] \in Ancestry(c)
<1>1. c \in Ancestry(c) /\ Ancestry(c) \subseteq 1..c /\ Ancestry(c) \subseteq Written
  BY LineIs, CommentsAre DEF ClosedUp
<1>2. ASSUME NEW y \in Ancestry(c), parentOf[y] # TopLevel PROVE parentOf[y] \in Ancestry(c)
  <2>1. \A S \in ClosedUp(c) : parentOf[y] \in S
    BY <1>2, LineIs DEF ClosedUp
  <2>2. y \in 1..c /\ y \in Written
    BY <1>1
  <2>3. parentOf[y] \in 1..(y - 1)
    BY <1>2, <2>2, CommentsAre
  <2>4. c \in Nat
    BY CommentsAre
  <2>5. parentOf[y] \in 1..c
    BY <2>2, <2>3, <2>4
  <2> QED
    BY <2>1, <2>5, LineIs
<1> QED
  BY <1>1, <1>2

LEMMA LineLeast ==
  ASSUME NEW c, NEW S \in ClosedUp(c) PROVE Ancestry(c) \subseteq S
BY LineIs

LEMMA LineOfTop ==
  ASSUME ThreadsTypeOK, NEW c \in Written, parentOf[c] = TopLevel PROVE Ancestry(c) = {c}
<1>1. c \in Nat \ {0}
  BY CommentsAre
<1>2. {c} \in ClosedUp(c)
  BY <1>1 DEF ClosedUp
<1> QED
  BY <1>2, LineLeast, LineHolds

LEMMA LineOfReply ==
  ASSUME ThreadsTypeOK, NEW c \in Written, parentOf[c] # TopLevel
  PROVE  /\ parentOf[c] \in Written
         /\ c \notin Ancestry(parentOf[c])
         /\ Ancestry(c) = Ancestry(parentOf[c]) \cup {c}
<1> DEFINE p == parentOf[c]
<1>1. p \in 1..(c - 1) /\ c \in Nat \ {0} /\ p \in Written
  BY CommentsAre
<1>2. Ancestry(p) \subseteq 1..p
  BY <1>1, LineHolds
<1> HIDE DEF p
<1>3. c \notin Ancestry(p)
  BY <1>1, <1>2
<1>4. Ancestry(c) \subseteq Ancestry(p) \cup {c}
  <2>1. Ancestry(p) \cup {c} \subseteq 1..c
    BY <1>1, <1>2
  <2>2. \A x \in Ancestry(p) : parentOf[x] = TopLevel \/ parentOf[x] \in Ancestry(p)
    BY <1>1, LineHolds
  <2>3. p \in Ancestry(p)
    BY <1>1, LineHolds
  <2>4. Ancestry(p) \cup {c} \in ClosedUp(c)
    BY <2>1, <2>2, <2>3 DEF ClosedUp, p
  <2> QED
    BY <2>4, LineLeast
<1>5. Ancestry(p) \subseteq Ancestry(c)
  <2>1. p \in Ancestry(c)
    BY LineHolds DEF p
  <2> DEFINE S == Ancestry(c) \cap 1..p
  <2>2. \A x \in S : parentOf[x] \in S \cup {TopLevel}
    <3> TAKE x \in S
    <3>1. x \in Written /\ x \in 1..p
      BY LineHolds
    <3>2. parentOf[x] = TopLevel \/ parentOf[x] \in 1..(x - 1)
      BY <3>1, CommentsAre
    <3>3. parentOf[x] = TopLevel \/ parentOf[x] \in 1..p
      BY <1>1, <3>1, <3>2
    <3> QED
      BY <3>3, LineHolds
  <2>3. S \in ClosedUp(p)
    BY <1>1, <2>1, <2>2 DEF ClosedUp
  <2> QED
    BY <2>3, LineLeast
<1> QED
  BY <1>1, <1>3, <1>4, <1>5, LineHolds DEF p

\* Whoever is in an ancestry, but not at its beginning, is answered by one of it.
LEMMA LineLinked ==
  ASSUME ThreadsTypeOK, NEW x \in Written, NEW c \in Ancestry(x), c # x
  PROVE  \E y \in Ancestry(x) : parentOf[y] = c
<1> SUFFICES ASSUME \A y \in Ancestry(x) : parentOf[y] # c PROVE FALSE
  OBVIOUS
<1>1. Ancestry(x) \ {c} \in ClosedUp(x)
  BY LineHolds DEF ClosedUp
<1> QED
  BY <1>1, LineLeast

LEMMA LevelIs ==
  ASSUME ThreadsTypeOK, NEW c \in Written
  PROVE  /\ Level(c) \in Nat
         /\ Level(c) = 0 <=> parentOf[c] = TopLevel
         /\ parentOf[c] # TopLevel => Level(c) = Level(parentOf[c]) + 1
<1>1. ASSUME NEW d \in Written PROVE IsFiniteSet(Ancestry(d)) /\ Cardinality(Ancestry(d)) \in Nat \ {0}
  <2>1. d \in Int /\ d \in Ancestry(d) /\ Ancestry(d) \subseteq 1..d
    BY LineHolds, CommentsAre
  <2>2. IsFiniteSet(1..d)
    BY <2>1, FS_Interval
  <2>3. IsFiniteSet(Ancestry(d))
    BY <2>1, <2>2, FS_Subset
  <2> QED
    BY <2>1, <2>3, FS_CardinalityType, FS_EmptySet
<1>2. CASE parentOf[c] = TopLevel
  <2>1. Cardinality(Ancestry(c)) = 1
    BY <1>2, LineOfTop, FS_Singleton
  <2> QED
    BY <1>2, <2>1 DEF Level
<1>3. CASE parentOf[c] # TopLevel
  <2>1. Cardinality(Ancestry(c)) = Cardinality(Ancestry(parentOf[c])) + 1
    BY <1>1, <1>3, LineOfReply, FS_AddElement
  <2>2. Cardinality(Ancestry(parentOf[c])) \in Nat \ {0}
    BY <1>1, <1>3, LineOfReply
  <2> QED
    BY <1>3, <2>1, <2>2 DEF Level
<1> QED
  BY <1>2, <1>3

AtLevel(k) == {c \in Written : Level(c) = k}

LEMMA LevelsFollow ==
  ASSUME ThreadsTypeOK
  PROVE  /\ AtLevel(0) = Children(TopLevel)
         /\ \A k \in Nat : AtLevel(k + 1) = UNION {Children(p) : p \in AtLevel(k)}
         /\ \A k \in Nat : \A c \in AtLevel(k) :
              Children(c) = {x \in AtLevel(k + 1) : parentOf[x] = c}
<1>1. AtLevel(0) = Children(TopLevel)
  BY LevelIs DEF AtLevel, Children
<1>2. ASSUME NEW k \in Nat, NEW c \in AtLevel(k + 1)
      PROVE  parentOf[c] \in AtLevel(k)
  <2>1. c \in Written /\ Level(c) = k + 1
    BY <1>2 DEF AtLevel
  <2>2. parentOf[c] # TopLevel
    BY <2>1, LevelIs
  <2>3. parentOf[c] \in Written /\ Level(c) = Level(parentOf[c]) + 1
    BY <2>1, <2>2, LevelIs, LineOfReply
  <2>4. Level(parentOf[c]) \in Nat
    BY <2>3, LevelIs
  <2> QED
    BY <2>1, <2>3, <2>4 DEF AtLevel
<1>3. ASSUME NEW k \in Nat, NEW p \in AtLevel(k), NEW c \in Children(p)
      PROVE  c \in AtLevel(k + 1) /\ parentOf[c] = p
  <2>1. c \in Written /\ parentOf[c] = p /\ p \in Written /\ Level(p) = k
    BY <1>3 DEF AtLevel, Children
  <2>2. p # TopLevel
    BY <2>1, CommentsAre DEF TopLevel
  <2>3. Level(c) = k + 1
    BY <2>1, <2>2, LevelIs
  <2> QED
    BY <2>1, <2>3 DEF AtLevel
<1>4. ASSUME NEW k \in Nat
      PROVE  AtLevel(k + 1) = UNION {Children(p) : p \in AtLevel(k)}
  <2>1. \A c \in AtLevel(k + 1) : c \in Children(parentOf[c])
    BY DEF AtLevel, Children
  <2> QED
    BY <1>2, <1>3, <2>1
<1>5. ASSUME NEW k \in Nat, NEW c \in AtLevel(k)
      PROVE  Children(c) = {x \in AtLevel(k + 1) : parentOf[x] = c}
  <2>1. \A x \in AtLevel(k + 1) : parentOf[x] = c => x \in Children(c)
    BY DEF AtLevel, Children
  <2> QED
    BY <1>3, <1>5, <2>1
<1> QED
  BY <1>1, <1>4, <1>5

-----------------------------------------------------------------------------
(***************************************************************************)
(* Threads: what is read, and what is kept of it.                          *)
(***************************************************************************)
LEMMA FirstOfAll ==
  ASSUME NEW S, IsFiniteSet(S), NEW n \in Nat, Cardinality(S) <= n
  PROVE  FirstOf(S, n) = S
<1> DEFINE ancestry == [c \in S |-> Ancestry(c)]
           Others(d) == {c \in S \ {d} : \E a \in ancestry[c], b \in ancestry[d] :
                                            parentOf[a] = parentOf[b] /\ a > b}
<1>1. FirstOf(S, n) = {d \in S : Cardinality(Others(d)) < n}
  BY DEF FirstOf
<1>2. \A d \in S : Others(d) \subseteq S \ {d}
  OBVIOUS
<1> HIDE DEF Others
<1>3. ASSUME NEW d \in S PROVE Cardinality(Others(d)) < n
  <2>1. IsFiniteSet(S \ {d}) /\ Cardinality(S \ {d}) = Cardinality(S) - 1
    BY FS_RemoveElement
  <2>2. Cardinality(Others(d)) <= Cardinality(S \ {d}) /\ IsFiniteSet(Others(d))
    BY <1>2, <2>1, FS_Subset
  <2>3. Cardinality(Others(d)) \in Nat /\ Cardinality(S) \in Nat
    BY <2>2, FS_CardinalityType
  <2> QED
    BY <2>1, <2>2, <2>3
<1> QED
  BY <1>1, <1>3

LEMMA FirstOfPart == ASSUME NEW S, NEW n PROVE FirstOf(S, n) \subseteq S
BY DEF FirstOf

FetchedBelow(v, limit) == FirstOf(UNION {Children(p) : p \in v}, limit + 1)

LEMMA FetchedIs ==
  ASSUME NEW limit
  PROVE  Fetched(limit) = [k \in 0..Depth |->
           IF k = 0 THEN FirstOf(Children(TopLevel), limit)
           ELSE FetchedBelow(Fetched(limit)[k - 1], limit)]
<1> DEFINE V == SUBSET Written
           first == FirstOf(Children(TopLevel), limit)
           Def(f) == [k \in 0..Depth |-> IF k = 0 THEN first ELSE FetchedBelow(f[k - 1], limit)]
           step == [k \in 1..Depth |-> [v \in V |-> FetchedBelow(v, limit)]]
           Goes == CHOOSE f : f = Def(f)
<1>1. Fetched(limit) = Goes
  BY DEF Fetched, FetchedBelow
<1>2. first \in V /\ \A v \in V : FetchedBelow(v, limit) \in V
  <2>1. Children(TopLevel) \in V /\ \A v \in V : UNION {Children(p) : p \in v} \in V
    BY DEF Children
  <2> QED
    BY <2>1, FirstOfPart DEF FetchedBelow
<1> HIDE DEF first
<1>3. step \in [1..Depth -> [V -> V]]
  BY <1>2
<1>4. PICK g \in [0..Depth -> V] : g[0] = first /\ \A k \in 1..Depth : g[k] = step[k][g[k - 1]]
  <2>1. Steps(V, first, Depth, step)
    BY <1>2, <1>3, ThreadsAssumption DEF Steps
  <2>2. \E g : Follows(V, first, Depth, step, g)
    BY <2>1, Folding
  <2> HIDE DEF step
  <2> QED
    BY <2>2 DEF Follows
<1>5. \A k \in 1..Depth : g[k] = FetchedBelow(g[k - 1], limit)
  <2> TAKE k \in 1..Depth
  <2>1. k - 1 \in 0..Depth
    BY ThreadsAssumption
  <2>2. g[k - 1] \in V
    BY <1>4, <2>1
  <2>3. step[k][g[k - 1]] = FetchedBelow(g[k - 1], limit)
    BY <2>2
  <2> HIDE DEF step
  <2> QED
    BY <1>4, <2>3
<1>6. g = Def(g)
  <2>1. \A k \in 0..Depth : g[k] = IF k = 0 THEN first ELSE FetchedBelow(g[k - 1], limit)
    <3> HIDE DEF step
    <3> QED
      BY <1>4, <1>5, ThreadsAssumption
  <2> HIDE DEF step
  <2> QED
    BY <1>4, <2>1
<1>7. Goes = Def(Goes)
  BY <1>6
<1> HIDE DEF Goes
<1> QED
  BY <1>1, <1>7 DEF first

KeptOf(fetched, answered) == {c \in fetched : c \notin deleted \/ c \in answered}
Answered(v, k) == IF k = 0 THEN {c \in Written : Children(c) # {}} ELSE {parentOf[x] : x \in v}

\* What is kept, from the last level upwards.
LEMMA KeptIs ==
  ASSUME NEW limit
  PROVE  \E kept : /\ Kept(limit) = [k \in 0..Depth |-> kept[Depth - k]]
                   /\ \A k \in 0..Depth :
                        kept[k] = KeptOf(Fetched(limit)[Depth - k], Answered(kept[k - 1], k))
<1> DEFINE fetched == Fetched(limit)
           V == SUBSET (UNION {fetched[k] : k \in 0..Depth})
           Def(f) == [k \in 0..Depth |-> KeptOf(fetched[Depth - k], Answered(f[k - 1], k))]
           first == KeptOf(fetched[Depth], Answered({}, 0))
           step == [k \in 1..Depth |-> [v \in V |-> KeptOf(fetched[Depth - k], Answered(v, k))]]
           Goes == CHOOSE f : f = Def(f)
<1>1. Kept(limit) = [k \in 0..Depth |-> Goes[Depth - k]]
  BY DEF Kept, KeptOf, Answered
<1> HIDE DEF fetched
<1>2. first \in V /\ \A k \in 1..Depth, v \in V : KeptOf(fetched[Depth - k], Answered(v, k)) \in V
  <2>1. \A k \in 0..Depth : \A A : KeptOf(fetched[Depth - k], A) \subseteq fetched[Depth - k]
    BY DEF KeptOf
  <2>2. \A k \in 0..Depth : Depth - k \in 0..Depth
    BY ThreadsAssumption
  <2>3. 0 \in 0..Depth /\ Depth - 0 = Depth /\ \A k \in 1..Depth : k \in 0..Depth
    BY ThreadsAssumption
  <2>4. \A k \in 0..Depth : \A A : KeptOf(fetched[Depth - k], A) \in V
    BY <2>1, <2>2
  <2> HIDE DEF V
  <2> QED
    BY <2>3, <2>4
<1> HIDE DEF first, V
<1>3. step \in [1..Depth -> [V -> V]]
  BY <1>2
<1>4. PICK g \in [0..Depth -> V] : g[0] = first /\ \A k \in 1..Depth : g[k] = step[k][g[k - 1]]
  <2>1. Steps(V, first, Depth, step)
    BY <1>2, <1>3, ThreadsAssumption DEF Steps
  <2>2. \E g : Follows(V, first, Depth, step, g)
    BY <2>1, Folding
  <2> HIDE DEF step
  <2> QED
    BY <2>2 DEF Follows
<1>5. \A k \in 1..Depth : g[k] = KeptOf(fetched[Depth - k], Answered(g[k - 1], k))
  <2> TAKE k \in 1..Depth
  <2>1. k - 1 \in 0..Depth
    BY ThreadsAssumption
  <2>2. g[k - 1] \in V
    BY <1>4, <2>1
  <2>3. step[k][g[k - 1]] = KeptOf(fetched[Depth - k], Answered(g[k - 1], k))
    BY <2>2
  <2> HIDE DEF step
  <2> QED
    BY <1>4, <2>3
<1>6. g[0] = KeptOf(fetched[Depth - 0], Answered(g[0 - 1], 0))
  <2>1. Depth - 0 = Depth
    BY ThreadsAssumption
  <2>2. Answered(g[0 - 1], 0) = Answered({}, 0)
    BY DEF Answered
  <2>3. g[0] = first
    BY <1>4
  <2> QED
    BY <2>1, <2>2, <2>3 DEF first
<1>7. \A k \in 0..Depth : g[k] = KeptOf(fetched[Depth - k], Answered(g[k - 1], k))
  <2>1. \A k \in 0..Depth : k = 0 \/ k \in 1..Depth
    BY ThreadsAssumption
  <2> QED
    BY <1>5, <1>6, <2>1
<1>8. g = Def(g)
  <2> HIDE DEF step
  <2> QED
    BY <1>4, <1>7
<1>9. Goes = Def(Goes)
  BY <1>8
<1> HIDE DEF Goes
<1>10. \A k \in 0..Depth : Goes[k] = KeptOf(fetched[Depth - k], Answered(Goes[k - 1], k))
  BY <1>9
<1> QED
  BY <1>1, <1>10 DEF fetched

-----------------------------------------------------------------------------
LEMMA LevelsAreFinite ==
  ASSUME ThreadsTypeOK, NEW S \in SUBSET Written
  PROVE  IsFiniteSet(S) /\ Cardinality(S) \in Nat
<1>1. IsFiniteSet(Written)
  BY CommentsAre, FS_Interval
<1> QED
  BY <1>1, FS_Subset, FS_CardinalityType

\* Of a tree that fits the page every comment is read.
LEMMA FetchedAll ==
  ASSUME ThreadsTypeOK, NEW limit \in Nat, Fits(limit)
  PROVE  \A k \in 0..Depth : Fetched(limit)[k] = AtLevel(k)
<1> DEFINE T == {k \in Nat : k <= Depth => Fetched(limit)[k] = AtLevel(k)}
<1>1. \A k \in 0..Depth : /\ AtLevel(k) \in SUBSET Written /\ Cardinality(AtLevel(k)) <= limit
                          /\ IsFiniteSet(AtLevel(k)) /\ Cardinality(AtLevel(k)) \in Nat
  BY LevelsAreFinite DEF Fits, AtLevel
<1>2. 0 \in T
  <2>1. 0 \in 0..Depth
    BY ThreadsAssumption
  <2>2. Fetched(limit)[0] = FirstOf(Children(TopLevel), limit)
    BY <2>1, FetchedIs
  <2>3. AtLevel(0) = Children(TopLevel)
    BY LevelsFollow
  <2> QED
    BY <1>1, <2>1, <2>2, <2>3, FirstOfAll
<1>3. ASSUME NEW k \in Nat, k \in T PROVE k + 1 \in T
  <2> SUFFICES ASSUME k + 1 <= Depth PROVE Fetched(limit)[k + 1] = AtLevel(k + 1)
    OBVIOUS
  <2>1. k + 1 \in 0..Depth /\ k <= Depth /\ (k + 1) - 1 = k /\ k + 1 # 0
    BY ThreadsAssumption
  <2>2. Fetched(limit)[k + 1] = FetchedBelow(Fetched(limit)[k], limit)
    BY <2>1, FetchedIs
  <2>3. Fetched(limit)[k] = AtLevel(k)
    BY <1>3, <2>1
  <2>4. Fetched(limit)[k + 1] = FirstOf(AtLevel(k + 1), limit + 1)
    BY <2>2, <2>3, LevelsFollow DEF FetchedBelow
  <2>5. Cardinality(AtLevel(k + 1)) <= limit + 1
    BY <1>1, <2>1
  <2> QED
    BY <1>1, <2>1, <2>4, <2>5, FirstOfAll
<1>4. Nat \subseteq T
  <2> HIDE DEF T
  <2> QED
    BY <1>2, <1>3, EveryNatural
<1> QED
  BY <1>4, ThreadsAssumption

Good(x) == x \in Written /\ ((x \notin deleted /\ Level(x) <= Depth) \/ Level(x) = Depth + 1)

LEMMA WorthIs == ASSUME NEW c PROVE c \in Worth <=> \E x : Good(x) /\ c \in Ancestry(x)
BY DEF Worth, Good

LEMMA WorthLevel ==
  ASSUME ThreadsTypeOK, NEW k \in 0..Depth, NEW c \in AtLevel(k)
  PROVE  c \in Worth <=>
           \/ c \notin deleted
           \/ IF k = Depth THEN Children(c) # {} ELSE \E y \in Worth : parentOf[y] = c
<1>1. c \in Written /\ Level(c) = k /\ k \in Nat /\ k <= Depth /\ c # TopLevel
  BY ThreadsAssumption, CommentsAre DEF AtLevel, TopLevel
<1>2. c \notin deleted => c \in Worth
  BY <1>1, LineHolds, WorthIs DEF Good
<1>3. ASSUME NEW x, Good(x), NEW y \in Ancestry(x), parentOf[y] = c
      PROVE  c \in Worth
  BY <1>1, <1>3, LineHolds, WorthIs DEF Good
<1>4. ASSUME NEW y \in Worth, parentOf[y] = c PROVE c \in Worth
  BY <1>3, <1>4, WorthIs
<1>5. ASSUME k = Depth, NEW y \in Children(c) PROVE c \in Worth
  <2>1. y \in AtLevel(Depth + 1) /\ parentOf[y] = c
    BY <1>1, <1>5, LevelsFollow
  <2>2. Good(y)
    BY <2>1 DEF AtLevel, Good
  <2> QED
    BY <1>3, <2>1, <2>2, LineHolds DEF Good
<1>6. ASSUME c \in Worth, c \in deleted
      PROVE  IF k = Depth THEN Children(c) # {} ELSE \E y \in Worth : parentOf[y] = c
  <2>1. PICK x : Good(x) /\ c \in Ancestry(x)
    BY <1>6, WorthIs
  <2>2. x # c
    BY <1>1, <1>6, <2>1, ThreadsAssumption DEF Good
  <2>3. PICK y \in Ancestry(x) : parentOf[y] = c
    BY <2>1, <2>2, LineLinked DEF Good
  <2>4. y \in Worth /\ y \in Written
    BY <2>1, <2>3, LineHolds, WorthIs DEF Good
  <2> QED
    BY <2>3, <2>4 DEF Children
<1> QED
  BY <1>2, <1>4, <1>5, <1>6

\* Of a tree that fits, what is worth it is kept.
LEMMA KeptWorth ==
  ASSUME ThreadsTypeOK, NEW limit \in Nat, Fits(limit)
  PROVE  \A k \in 0..Depth : Kept(limit)[k] = {c \in AtLevel(k) : c \in Worth}
<1>1. PICK kept : /\ Kept(limit) = [k \in 0..Depth |-> kept[Depth - k]]
                  /\ \A k \in 0..Depth :
                       kept[k] = KeptOf(Fetched(limit)[Depth - k], Answered(kept[k - 1], k))
  BY KeptIs
<1> DEFINE W(k) == {c \in AtLevel(k) : c \in Worth}
           T == {k \in Nat : k <= Depth => kept[k] = W(Depth - k)}
<1>2. \A k \in 0..Depth : /\ Depth - k \in 0..Depth
                          /\ kept[k] = KeptOf(AtLevel(Depth - k), Answered(kept[k - 1], k))
  <2>1. \A k \in 0..Depth : Depth - k \in 0..Depth
    BY ThreadsAssumption
  <2> QED
    BY <1>1, <2>1, FetchedAll
<1>3. 0 \in T
  <2>1. 0 \in 0..Depth /\ Depth - 0 = Depth /\ Depth \in 0..Depth
    BY ThreadsAssumption
  <2>2. kept[0] = KeptOf(AtLevel(Depth), {c \in Written : Children(c) # {}})
    BY <1>2, <2>1 DEF Answered
  <2>3. \A c \in AtLevel(Depth) : c \in Written
    BY DEF AtLevel
  <2>4. \A c \in AtLevel(Depth) : c \in Worth <=> c \notin deleted \/ Children(c) # {}
    BY <2>1, WorthLevel
  <2>5. kept[0] = W(Depth)
    BY <2>2, <2>3, <2>4 DEF KeptOf
  <2> QED
    BY <2>1, <2>5
<1>4. ASSUME NEW k \in Nat, k \in T PROVE k + 1 \in T
  <2> SUFFICES ASSUME k + 1 <= Depth PROVE kept[k + 1] = W(Depth - (k + 1))
    OBVIOUS
  <2> DEFINE j == Depth - (k + 1)
  <2>1. /\ k + 1 \in 0..Depth /\ (k + 1) - 1 = k /\ k + 1 # 0 /\ k <= Depth
        /\ j \in 0..Depth /\ j # Depth /\ Depth - k = j + 1 /\ j \in Nat
    BY ThreadsAssumption
  <2>2. kept[k] = W(j + 1)
    BY <1>4, <2>1
  <2> HIDE DEF j
  <2>3. kept[k + 1] = KeptOf(AtLevel(j), Answered(kept[k], k + 1))
    BY <1>2, <2>1 DEF j
  <2>4. Answered(kept[k], k + 1) = {parentOf[x] : x \in W(j + 1)}
    BY <2>1, <2>2 DEF Answered
  <2>5. ASSUME NEW c \in AtLevel(j)
        PROVE  c \in {parentOf[x] : x \in W(j + 1)} <=> \E y \in Worth : parentOf[y] = c
    <3>1. \A y \in Worth : y \in Written
      BY LineHolds, WorthIs DEF Good
    <3>2. \A y \in Worth : parentOf[y] = c => y \in Children(c)
      BY <3>1 DEF Children
    <3>3. \A y \in Worth : parentOf[y] = c => y \in AtLevel(j + 1)
      BY <2>1, <2>5, <3>2, LevelsFollow
    <3> QED
      BY <3>3
  <2>6. \A c \in AtLevel(j) : c \in Worth <=> c \notin deleted \/ \E y \in Worth : parentOf[y] = c
    BY <2>1, WorthLevel
  <2>7. kept[k + 1] = W(j)
    BY <2>3, <2>4, <2>5, <2>6 DEF KeptOf
  <2> QED
    BY <2>7 DEF j
<1>5. Nat \subseteq T
  <2> HIDE DEF T
  <2> QED
    BY <1>3, <1>4, EveryNatural
<1> SUFFICES ASSUME NEW k \in 0..Depth PROVE Kept(limit)[k] = W(k)
  OBVIOUS
<1>6. Depth - k \in Nat /\ Depth - k <= Depth /\ Depth - (Depth - k) = k
  BY ThreadsAssumption
<1>7. kept[Depth - k] = W(k)
  <2>1. Depth - k \in T
    BY <1>5, <1>6
  <2> QED
    BY <1>6, <2>1
<1> HIDE DEF W
<1> QED
  BY <1>1, <1>7

\* What is shown, in every state.
LEMMA ShownWhole == ThreadsTypeOK => TreeShownWhole
<1> SUFFICES ASSUME ThreadsTypeOK, NEW limit \in PageLimits, Fits(limit)
             PROVE  /\ Kept(limit)[0] = {c \in Worth : Level(c) = 0}
                    /\ \A k \in 0..(Depth - 1) : \A c \in Kept(limit)[k] :
                         /\ ~RepliesOf(c, Kept(limit)[k + 1], limit).more
                         /\ RepliesOf(c, Kept(limit)[k + 1], limit).items
                              = {x \in Worth : parentOf[x] = c}
  BY DEF TreeShownWhole
<1>1. limit \in Nat
  BY ThreadsAssumption
<1>2. \A c \in Worth : c \in Written
  BY LineHolds, WorthIs DEF Good
<1>3. Kept(limit)[0] = {c \in Worth : Level(c) = 0}
  <2>1. 0 \in 0..Depth
    BY ThreadsAssumption
  <2>2. Kept(limit)[0] = {c \in AtLevel(0) : c \in Worth}
    BY <1>1, <2>1, KeptWorth
  <2> QED
    BY <1>2, <2>2 DEF AtLevel
<1>4. ASSUME NEW k \in 0..(Depth - 1), NEW c \in Kept(limit)[k]
      PROVE  /\ ~RepliesOf(c, Kept(limit)[k + 1], limit).more
             /\ RepliesOf(c, Kept(limit)[k + 1], limit).items = {x \in Worth : parentOf[x] = c}
  <2>1. k \in 0..Depth /\ k + 1 \in 0..Depth /\ k \in Nat
    BY ThreadsAssumption
  <2>2. Kept(limit)[k + 1] = {x \in AtLevel(k + 1) : x \in Worth}
    BY <1>1, <2>1, KeptWorth
  <2>3. c \in AtLevel(k)
    BY <1>1, <2>1, KeptWorth
  <2> DEFINE own == {x \in Kept(limit)[k + 1] : parentOf[x] = c}
  <2>4. own = {x \in Worth : parentOf[x] = c}
    <3>1. \A x \in Worth : parentOf[x] = c => x \in Children(c)
      BY <1>2 DEF Children
    <3>2. \A x \in Worth : parentOf[x] = c => x \in AtLevel(k + 1)
      BY <2>1, <2>3, <3>1, LevelsFollow
    <3> QED
      BY <2>2, <3>2
  <2>5. own \in SUBSET AtLevel(k + 1) /\ AtLevel(k + 1) \in SUBSET Written
    BY <2>2 DEF AtLevel
  <2>6. Cardinality(AtLevel(k + 1)) <= limit
    BY <2>1 DEF Fits, AtLevel
  <2> HIDE DEF own
  <2>7. IsFiniteSet(AtLevel(k + 1)) /\ Cardinality(AtLevel(k + 1)) \in Nat
    BY <2>5, LevelsAreFinite
  <2>8. IsFiniteSet(own) /\ Cardinality(own) \in Nat /\ Cardinality(own) <= limit
    <3>1. IsFiniteSet(own) /\ Cardinality(own) <= Cardinality(AtLevel(k + 1))
      BY <2>5, <2>7, FS_Subset
    <3>2. Cardinality(own) \in Nat
      BY <3>1, FS_CardinalityType
    <3> QED
      BY <1>1, <2>6, <2>7, <3>1, <3>2
  <2>9. FirstOf(own, limit) = own
    BY <1>1, <2>8, FirstOfAll
  <2>10. ~(Cardinality(own) > limit)
    BY <1>1, <2>8
  <2> QED
    BY <2>4, <2>9, <2>10 DEF RepliesOf, own
<1> QED
  BY <1>3, <1>4

\* Comments answer earlier ones, however many there are.
THEOREM ThreadsTypeCorrect == ThreadsSpec => []ThreadsTypeOK
  BY ThreadsTyping

\* A tree of comments whose levels fit the page is shown whole, whatever was
\* written and deleted and in which order: every live comment, every tombstone
\* that something shown hangs on, and no other (get_post_comments,
\* apply_comments_replies, get_comments_replies).
THEOREM TreesAreShownWhole == ThreadsSpec => []TreeShownWhole
  BY ThreadsTyping, ShownWhole, PTL

=============================================================================
