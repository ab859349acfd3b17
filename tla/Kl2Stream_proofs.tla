---------------------------- MODULE Kl2Stream_proofs ----------------------------
(***************************************************************************)
(* Theorems about Kl2Stream, for any sessions, processes, queues, depths,  *)
(* events and plans: first the invariant of the lists (every task is in    *)
(* one place, counts are exact, a hardware queue is the end of its run     *)
(* list), then, each on top of it, the invariants of the kernels that were *)
(* cut off, of who is to blame, of the numbers of the records, of the      *)
(* tasks of sessions in error, and of what event_wait reports.             *)
(***************************************************************************)
EXTENDS Kl2Stream, FiniteSetTheorems, SequenceTheorems, WellFoundedInduction, TLAPS

(* No two places of a list have the same token; two lists share none. *)
Apart(a) == \A i, j \in 1 .. Len(a) : a[i].tk = a[j].tk => i = j
Off(a, b) == \A x \in Elems(a), y \in Elems(b) : x.tk # y.tk

-----------------------------------------------------------------------------
(* Lists of tasks *)

(* The elements of a list, and the list that has none. *)
LEMMA ElemsIn ==
  ASSUME NEW S, NEW a \in Seq(S)
  PROVE  /\ Elems(a) \subseteq S
         /\ \A x : x \in Elems(a) <=> \E i \in 1 .. Len(a) : a[i] = x
         /\ Elems(a) = {} => a = <<>>
<1>1. Len(a) \in Nat /\ a \in [1 .. Len(a) -> S]
  BY LenProperties
<1>2. ASSUME a # <<>> PROVE a[1] \in Elems(a)
  <2>1. Len(a) \in Nat \ {0}
    BY <1>2, EmptySeq
  <2> QED
    BY <2>1 DEF Elems
<1> QED
  BY <1>1, <1>2 DEF Elems

(* The empty list has no elements. *)
LEMMA ElemsEmpty == Elems(<<>>) = {}
BY DEF Elems

(* Joining two lists joins their elements. *)
LEMMA ElemsConcat ==
  ASSUME NEW S, NEW a \in Seq(S), NEW b \in Seq(S)
  PROVE  /\ a \o b \in Seq(S)
         /\ Elems(a \o b) = Elems(a) \cup Elems(b)
<1> DEFINE c == a \o b
<1>1. /\ c \in Seq(S) /\ Len(c) = Len(a) + Len(b) /\ Len(a) \in Nat /\ Len(b) \in Nat
      /\ \A i \in 1 .. Len(a) + Len(b) : c[i] = IF i <= Len(a) THEN a[i] ELSE b[i - Len(a)]
  BY ConcatProperties, LenProperties
<1> HIDE DEF c
<1>11. ASSUME NEW i \in 1 .. Len(b) PROVE i + Len(a) \in 1 .. Len(c) /\ c[i + Len(a)] = b[i]
  <2>1. PICK k \in Int : k = i + Len(a)
    BY <1>1
  <2>2. k \in 1 .. Len(a) + Len(b) /\ ~(k <= Len(a)) /\ k - Len(a) = i
    BY <1>1, <2>1
  <2>3. c[k] = b[i]
    BY <1>1, <2>2
  <2> QED
    BY <1>1, <2>1, <2>2, <2>3
<1>2. ASSUME NEW x \in Elems(c) PROVE x \in Elems(a) \cup Elems(b)
  <2>1. PICK i \in 1 .. Len(c) : c[i] = x
    BY DEF Elems
  <2>2. CASE i <= Len(a)
    BY <1>1, <2>1, <2>2 DEF Elems
  <2>3. CASE ~(i <= Len(a))
    <3>1. i - Len(a) \in 1 .. Len(b) /\ b[i - Len(a)] = x
      BY <1>1, <2>1, <2>3
    <3> QED
      BY <3>1 DEF Elems
  <2> QED
    BY <2>2, <2>3
<1>3. ASSUME NEW x \in Elems(a) PROVE x \in Elems(c)
  <2>1. PICK i \in 1 .. Len(a) : a[i] = x
    BY DEF Elems
  <2>2. i \in 1 .. Len(c) /\ c[i] = x
    BY <1>1, <2>1
  <2> QED
    BY <2>2 DEF Elems
<1>4. ASSUME NEW x \in Elems(b) PROVE x \in Elems(c)
  <2>1. PICK i \in 1 .. Len(b) : b[i] = x
    BY DEF Elems
  <2>2. i + Len(a) \in 1 .. Len(c) /\ c[i + Len(a)] = x
    BY <1>11, <2>1
  <2> QED
    BY <2>2 DEF Elems
<1> QED
  BY <1>1, <1>2, <1>3, <1>4 DEF c

(* A joined list has each token once when its parts do and share none. *)
LEMMA ApartConcat ==
  ASSUME NEW S, NEW a \in Seq(S), NEW b \in Seq(S)
  PROVE  Apart(a \o b) <=> Apart(a) /\ Apart(b) /\ Off(a, b)
<1> DEFINE c == a \o b
<1>1. /\ c \in Seq(S) /\ Len(c) = Len(a) + Len(b) /\ Len(a) \in Nat /\ Len(b) \in Nat
      /\ \A i \in 1 .. Len(a) + Len(b) : c[i] = IF i <= Len(a) THEN a[i] ELSE b[i - Len(a)]
  BY ConcatProperties, LenProperties
<1> HIDE DEF c
<1>11. ASSUME NEW i \in 1 .. Len(b) PROVE i + Len(a) \in 1 .. Len(c) /\ c[i + Len(a)] = b[i]
  <2>1. PICK k \in Int : k = i + Len(a)
    BY <1>1
  <2>2. k \in 1 .. Len(a) + Len(b) /\ ~(k <= Len(a)) /\ k - Len(a) = i
    BY <1>1, <2>1
  <2>3. c[k] = b[i]
    BY <1>1, <2>2
  <2> QED
    BY <1>1, <2>1, <2>2, <2>3
<1>2. ASSUME Apart(c) PROVE Apart(a) /\ Apart(b) /\ Off(a, b)
  <2>1. Apart(a)
    BY <1>1, <1>2 DEF Apart
  <2>2. ASSUME NEW i \in 1 .. Len(b), NEW j \in 1 .. Len(b), b[i].tk = b[j].tk PROVE i = j
    <3>1. /\ i + Len(a) \in 1 .. Len(c) /\ c[i + Len(a)] = b[i]
          /\ j + Len(a) \in 1 .. Len(c) /\ c[j + Len(a)] = b[j]
      BY <1>11
    <3>2. i + Len(a) = j + Len(a)
      BY <1>2, <2>2, <3>1 DEF Apart
    <3> QED
      BY <1>1, <3>2
  <2>3. ASSUME NEW x \in Elems(a), NEW y \in Elems(b), x.tk = y.tk PROVE FALSE
    <3>1. PICK i \in 1 .. Len(a), j \in 1 .. Len(b) : a[i] = x /\ b[j] = y
      BY DEF Elems
    <3>2. /\ i \in 1 .. Len(c) /\ c[i] = x
          /\ j + Len(a) \in 1 .. Len(c) /\ c[j + Len(a)] = y
      BY <1>1, <1>11, <3>1
    <3>3. i = j + Len(a)
      BY <1>2, <2>3, <3>2 DEF Apart
    <3> QED
      BY <1>1, <3>1, <3>3
  <2> QED
    BY <2>1, <2>2, <2>3 DEF Apart, Off
<1>3. ASSUME Apart(a), Apart(b), Off(a, b),
             NEW i \in 1 .. Len(c), NEW j \in 1 .. Len(c), c[i].tk = c[j].tk
      PROVE  i = j
  <2>1. ASSUME NEW k \in 1 .. Len(c), k <= Len(a) PROVE k \in 1 .. Len(a) /\ c[k] = a[k] /\ c[k] \in Elems(a)
    BY <1>1, <2>1 DEF Elems
  <2>2. ASSUME NEW k \in 1 .. Len(c), ~(k <= Len(a))
        PROVE  k - Len(a) \in 1 .. Len(b) /\ c[k] = b[k - Len(a)] /\ c[k] \in Elems(b)
    <3>1. k - Len(a) \in 1 .. Len(b) /\ c[k] = b[k - Len(a)]
      BY <1>1, <2>2
    <3> QED
      BY <3>1 DEF Elems
  <2>3. CASE i <= Len(a) /\ j <= Len(a)
    BY <1>3, <2>1, <2>3 DEF Apart
  <2>4. CASE ~(i <= Len(a)) /\ ~(j <= Len(a))
    <3>1. /\ i - Len(a) \in 1 .. Len(b) /\ b[i - Len(a)] = c[i]
          /\ j - Len(a) \in 1 .. Len(b) /\ b[j - Len(a)] = c[j]
      BY <2>2, <2>4
    <3>2. b[i - Len(a)].tk = b[j - Len(a)].tk
      BY <1>3, <3>1
    <3>3. i - Len(a) = j - Len(a)
      BY <1>3, <3>1, <3>2, Zenon DEF Apart
    <3> QED
      BY <1>1, <3>3
  <2>5. CASE i <= Len(a) /\ ~(j <= Len(a))
    BY <1>3, <2>1, <2>2, <2>5 DEF Off
  <2>6. CASE ~(i <= Len(a)) /\ j <= Len(a)
    BY <1>3, <2>1, <2>2, <2>6 DEF Off
  <2> QED
    BY <2>3, <2>4, <2>5, <2>6
<1>4. Apart(a) /\ Apart(b) /\ Off(a, b) => Apart(c)
  BY <1>3 DEF Apart
<1> QED
  BY <1>2, <1>4 DEF c

(* A list of one task. *)
LEMMA One ==
  ASSUME NEW S, NEW t \in S
  PROVE  /\ <<t>> \in Seq(S) /\ Len(<<t>>) = 1 /\ <<t>>[1] = t
         /\ Elems(<<t>>) = {t}
         /\ Apart(<<t>>)
BY DEF Elems, Apart

(* The first k tasks of a list, and the others. *)
LEMMA Cut ==
  ASSUME NEW S, NEW a \in Seq(S), NEW k \in 0 .. Len(a)
  PROVE  /\ SubSeq(a, 1, k) \in Seq(S) /\ SubSeq(a, k + 1, Len(a)) \in Seq(S)
         /\ Len(SubSeq(a, 1, k)) = k /\ Len(SubSeq(a, k + 1, Len(a))) = Len(a) - k
         /\ \A i \in 1 .. k : SubSeq(a, 1, k)[i] = a[i]
         /\ \A i \in 1 .. Len(a) - k : SubSeq(a, k + 1, Len(a))[i] = a[k + i]
         /\ a = SubSeq(a, 1, k) \o SubSeq(a, k + 1, Len(a))
<1>1. Len(a) \in Nat /\ \A i \in 1 .. Len(a) : a[i] \in S
  BY LenProperties, ElementOfSeq
<1>2. /\ SubSeq(a, 1, k) \in Seq(S) /\ Len(SubSeq(a, 1, k)) = IF 1 <= k THEN k - 1 + 1 ELSE 0
      /\ \A i \in 1 .. k - 1 + 1 : SubSeq(a, 1, k)[i] = a[1 + i - 1]
  BY <1>1, SubSeqProperties
<1>3. PICK m \in Int : m = k + 1
  OBVIOUS
<1>4. \A i \in m .. Len(a) : a[i] \in S
  BY <1>1, <1>3
<1>5. /\ SubSeq(a, m, Len(a)) \in Seq(S)
      /\ Len(SubSeq(a, m, Len(a))) = IF m <= Len(a) THEN Len(a) - m + 1 ELSE 0
      /\ \A i \in 1 .. Len(a) - m + 1 : SubSeq(a, m, Len(a))[i] = a[m + i - 1]
  BY <1>1, <1>4, SubSeqProperties
<1>6. Len(a) - m + 1 = Len(a) - k /\ \A i \in 1 .. Len(a) - k : m + i - 1 = k + i
  BY <1>1, <1>3
<1>7. SubSeq(a, 1, k) \o SubSeq(a, k + 1, Len(a)) = SubSeq(a, 1, Len(a))
  <2>1. 1 \in 1 .. Len(a) + 1 /\ k \in 1 - 1 .. Len(a) /\ Len(a) \in k .. Len(a)
    BY <1>1
  <2> QED
    BY <2>1, ConcatAdjacentSubSeq
<1>8. SubSeq(a, 1, Len(a)) = a
  BY SubSeqFull
<1>9. Len(SubSeq(a, 1, k)) = k /\ \A i \in 1 .. k : SubSeq(a, 1, k)[i] = a[i]
  BY <1>1, <1>2
<1>10. Len(SubSeq(a, m, Len(a))) = Len(a) - k
  BY <1>1, <1>3, <1>5
<1>11. \A i \in 1 .. Len(a) - k : SubSeq(a, m, Len(a))[i] = a[k + i]
  BY <1>5, <1>6
<1> QED
  BY <1>2, <1>3, <1>5, <1>7, <1>8, <1>9, <1>10, <1>11

(* x and y are the first k of a and the others.                            *)
Parted(S, a, k, x, y) ==
  /\ x \in Seq(S) /\ y \in Seq(S)
  /\ Len(x) = k /\ Len(y) = Len(a) - k
  /\ \A i \in 1 .. k : x[i] = a[i]
  /\ \A i \in 1 .. Len(a) - k : y[i] = a[k + i]
  /\ a = x \o y

(* What SubSeq gives is such a cut.                                        *)
LEMMA PartedIs ==
  ASSUME NEW S, NEW a \in Seq(S), NEW k \in 0 .. Len(a)
  PROVE  Parted(S, a, k, SubSeq(a, 1, k), SubSeq(a, k + 1, Len(a)))
BY Cut, Zenon DEF Parted

(* A task joins a list, at its end or at its front.                        *)
LEMMA JoinOne ==
  ASSUME NEW S, NEW a \in Seq(S), NEW t \in S
  PROVE  /\ <<t>> \in Seq(S)
         /\ Elems(a \o <<t>>) = Elems(a) \cup {t}
         /\ Elems(<<t>> \o a) = {t} \cup Elems(a)
<1>1. <<t>> \in Seq(S) /\ Elems(<<t>>) = {t}
  BY One
<1>2. PICK o \in Seq(S) : o = <<t>>
  BY <1>1
<1>3. Elems(a \o o) = Elems(a) \cup Elems(o) /\ Elems(o \o a) = Elems(o) \cup Elems(a)
  BY ElemsConcat
<1> QED
  BY <1>1, <1>2, <1>3

(* The first task of a list, and the others. *)
LEMMA Behead ==
  ASSUME NEW S, NEW a \in Seq(S), a # <<>>
  PROVE  /\ Head(a) \in S /\ Head(a) = a[1] /\ Tail(a) \in Seq(S)
         /\ Len(a) \in Nat \ {0} /\ Len(Tail(a)) = Len(a) - 1
         /\ a = <<Head(a)>> \o Tail(a)
         /\ Elems(a) = {Head(a)} \cup Elems(Tail(a))
<1>1. Len(a) \in Nat \ {0}
  BY EmptySeq
<1>2. Head(a) \in S /\ Tail(a) \in Seq(S) /\ Len(Tail(a)) = Len(a) - 1 /\ Tail(a) = SubSeq(a, 2, Len(a))
  BY HeadTailProperties, TailIsSubSeq
<1>3. Head(a) = a[1]
  OBVIOUS
<1>4. /\ SubSeq(a, 1, 1) \in Seq(S) /\ Len(SubSeq(a, 1, 1)) = 1 /\ SubSeq(a, 1, 1)[1] = a[1]
      /\ a = SubSeq(a, 1, 1) \o SubSeq(a, 1 + 1, Len(a))
  BY <1>1, Cut
<1>5. <<Head(a)>> \in Seq(S) /\ Len(<<Head(a)>>) = 1 /\ <<Head(a)>>[1] = Head(a)
  BY <1>2, One
<1>6. SubSeq(a, 1, 1) = <<Head(a)>>
  <2> DEFINE x == SubSeq(a, 1, 1)
             y == <<Head(a)>>
  <2>1. x \in Seq(S) /\ y \in Seq(S) /\ Len(x) = Len(y) /\ \A i \in 1 .. Len(x) : x[i] = y[i]
    BY <1>3, <1>4, <1>5
  <2> HIDE DEF x, y
  <2>2. x = y
    BY <2>1, SeqEqual
  <2> QED
    BY <2>2 DEF x, y
<1>7. a = <<Head(a)>> \o Tail(a)
  BY <1>2, <1>4, <1>6
<1>8. Elems(<<Head(a)>> \o Tail(a)) = {Head(a)} \cup Elems(Tail(a))
  <2>1. PICK x \in S, y \in Seq(S) : x = Head(a) /\ y = Tail(a)
    BY <1>2
  <2>2. Elems(<<x>> \o y) = {x} \cup Elems(y)
    BY JoinOne
  <2> QED
    BY <2>1, <2>2, Zenon
<1>10. Elems(a) = {Head(a)} \cup Elems(Tail(a))
  BY <1>7, <1>8, Zenon
<1> QED
  BY <1>1, <1>2, <1>3, <1>7, <1>10

(* Appending is joining with a list of one. *)
LEMMA AppendIs ==
  ASSUME NEW S, NEW a \in Seq(S), NEW t \in S
  PROVE  /\ Append(a, t) \in Seq(S) /\ Append(a, t) = a \o <<t>>
         /\ Elems(Append(a, t)) = Elems(a) \cup {t}
         /\ Len(Append(a, t)) = Len(a) + 1
<1>1. Append(a, t) \in Seq(S) /\ Append(a, t) = a \o <<t>> /\ Len(Append(a, t)) = Len(a) + 1
  BY AppendIsConcat, AppendProperties
<1>2. Elems(a \o <<t>>) = Elems(a) \cup {t}
  BY JoinOne
<1>4. Elems(Append(a, t)) = Elems(a) \cup {t}
  BY <1>1, <1>2, Zenon
<1> QED
  BY <1>1, <1>4, Zenon

(* How many tasks of a session are on a list. *)
LEMMA OfSessionIs ==
  ASSUME NEW S, NEW a \in Seq(S), Apart(a), NEW s
  PROVE  /\ OfSession(s, a) = Cardinality({t \in Elems(a) : t.sess = s})
         /\ IsFiniteSet({t \in Elems(a) : t.sess = s})
<1> DEFINE P == {i \in 1 .. Len(a) : a[i].sess = s}
           E == {t \in Elems(a) : t.sess = s}
           f == [i \in P |-> a[i]]
<1>1. Len(a) \in Nat /\ IsFiniteSet(1 .. Len(a))
  BY LenProperties, FS_Interval
<1>2. IsFiniteSet(P)
  BY <1>1, FS_Subset
<1>3. f \in Bijection(P, E)
  <2>1. f \in [P -> E]
    BY DEF Elems
  <2>2. ASSUME NEW i \in P, NEW j \in P, f[i] = f[j] PROVE i = j
    BY <2>2 DEF Apart
  <2>3. ASSUME NEW t \in E PROVE \E i \in P : f[i] = t
    BY DEF Elems
  <2>4. f \in Injection(P, E) /\ f \in Surjection(P, E)
    <3> HIDE DEF P, E, f
    <3> QED
      BY <2>1, <2>2, <2>3 DEF Injection, Surjection, IsInjective
  <2> QED
    BY <2>4 DEF Bijection
<1>4. ExistsBijection(P, E)
  BY <1>3 DEF ExistsBijection
<1>5. Cardinality(P) = Cardinality(E) /\ IsFiniteSet(E)
  BY <1>2, <1>4, FS_Bijection
<1> QED
  BY <1>5 DEF OfSession

(* The least of a set of naturals. *)
LEMMA LeastIsIn ==
  ASSUME NEW S \in SUBSET Nat, S # {}
  PROVE  Least(S) \in S /\ \A y \in S : Least(S) <= y
<1> DEFINE B == {0 .. x : x \in S}
<1>1. B \in SUBSET FiniteSubsetsOf(Nat) /\ B # {}
  <2>1. \A x \in S : 0 .. x \in SUBSET Nat /\ IsFiniteSet(0 .. x)
    BY FS_Interval
  <2> QED
    BY <2>1 DEF FiniteSubsetsOf
<1>2. IsWellFoundedOn(StrictSubsetOrdering(Nat), FiniteSubsetsOf(Nat))
  BY FS_StrictSubsetOrderingWellFounded
<1>3. PICK X \in B : \A Y \in B : ~ (<<Y, X>> \in StrictSubsetOrdering(Nat))
  <2> HIDE DEF B
  <2> QED
    BY <1>1, <1>2, WFMin
<1>4. PICK x \in S : X = 0 .. x
  OBVIOUS
<1>5. \A y \in S : x <= y
  <2> SUFFICES ASSUME NEW y \in S, y < x PROVE FALSE
    OBVIOUS
  <2>1. 0 .. y \in B /\ 0 .. y \subseteq 0 .. x
    OBVIOUS
  <2>2. x \in 0 .. x /\ x \notin 0 .. y
    OBVIOUS
  <2>3. <<0 .. y, X>> \in StrictSubsetOrdering(Nat)
    BY <1>4, <2>1, <2>2 DEF StrictSubsetOrdering
  <2> QED
    BY <1>3, <2>1, <2>3
<1> QED
  BY <1>5 DEF Least

(* What Only adds up: the elements of the first n places that are in S.    *)
OnlyOf(f, list, S, N) ==
  f = [n \in 0 .. N |->
        IF n = 0 THEN <<>>
        ELSE IF list[n] \in S THEN Append(f[n - 1], list[n]) ELSE f[n - 1]]

(* `Only`, unfolded: the function that its recursion defines. *)
LEMMA OnlyDef ==
  ASSUME NEW list, NEW S
  PROVE  Only(list, S) = (CHOOSE f : OnlyOf(f, list, S, Len(list)))[Len(list)]
BY DEF Only, OnlyOf

(* There is a function with the equations of `Only`, for lists of any length. *)
LEMMA OnlyExists ==
  ASSUME NEW list, NEW S, NEW N \in Nat
  PROVE  \E f : OnlyOf(f, list, S, N)
<1> DEFINE B == {n \in Nat : ~ \E f : OnlyOf(f, list, S, n)}
<1> SUFFICES ASSUME B # {} PROVE FALSE
  OBVIOUS
<1>1. PICK n \in B : \A m \in B : n <= m
  <2>1. B \in SUBSET Nat
    OBVIOUS
  <2> HIDE DEF B
  <2> QED
    BY <2>1, LeastIsIn
<1>2. CASE n = 0
  <2> DEFINE f == [m \in 0 .. 0 |-> <<>>]
  <2>1. OnlyOf(f, list, S, 0)
    BY DEF OnlyOf
  <2> QED
    BY <1>1, <1>2, <2>1
<1>3. CASE n # 0
  <2>1. n - 1 \in Nat /\ n - 1 \notin B
    BY <1>1, <1>3
  <2>2. PICK f : OnlyOf(f, list, S, n - 1)
    BY <2>1
  <2> DEFINE last == IF list[n] \in S THEN Append(f[n - 1], list[n]) ELSE f[n - 1]
             g == [m \in 0 .. n |-> IF m = n THEN last ELSE f[m]]
  <2>3. \A m \in 0 .. n - 1 : f[m] = IF m = 0 THEN <<>>
            ELSE IF list[m] \in S THEN Append(f[m - 1], list[m]) ELSE f[m - 1]
    BY <2>2 DEF OnlyOf
  <2>4. \A m \in 0 .. n : g[m] = IF m = 0 THEN <<>>
            ELSE IF list[m] \in S THEN Append(g[m - 1], list[m]) ELSE g[m - 1]
    <3> SUFFICES ASSUME NEW m \in 0 .. n
                 PROVE  g[m] = IF m = 0 THEN <<>>
                          ELSE IF list[m] \in S THEN Append(g[m - 1], list[m]) ELSE g[m - 1]
      OBVIOUS
    <3>1. CASE m = 0
      BY <1>3, <2>3, <3>1
    <3>2. CASE m = n
      <4>1. g[n] = last /\ g[n - 1] = f[n - 1]
        BY <1>3, <2>1
      <4> QED
        BY <1>3, <3>2, <4>1
    <3>3. CASE m # 0 /\ m # n
      <4>1. g[m] = f[m] /\ g[m - 1] = f[m - 1] /\ m \in 0 .. n - 1
        BY <3>3
      <4> HIDE DEF g
      <4> QED
        BY <2>3, <3>3, <4>1
    <3> QED
      BY <3>1, <3>2, <3>3
  <2>5. g = [m \in 0 .. n |-> g[m]]
    OBVIOUS
  <2>6. OnlyOf(g, list, S, n)
    <3> HIDE DEF g
    <3> QED
      BY <2>4, <2>5 DEF OnlyOf
  <2> QED
    BY <1>1, <2>6
<1> QED
  BY <1>2, <1>3

(* A part of a list: h says where its elements come from. *)
PartBy(h, a, list) ==
  /\ h \in [1 .. Len(a) -> 1 .. Len(list)]
  /\ \A i \in 1 .. Len(a) : a[i] = list[h[i]]
  /\ \A i, j \in 1 .. Len(a) : i < j => h[i] < h[j]

(* Only is made of the elements in S, in their order.                      *)
LEMMA OnlyIs ==
  ASSUME NEW T, NEW list \in Seq(T), NEW S
  PROVE  /\ Only(list, S) \in Seq(T)
         /\ Elems(Only(list, S)) = Elems(list) \cap S
         /\ Len(Only(list, S)) <= Len(list)
         /\ \E h : PartBy(h, Only(list, S), list)
<1> DEFINE N == Len(list)
           f == CHOOSE g : OnlyOf(g, list, S, N)
           Up(n, h) ==
             /\ f[n] \in Seq(T)
             /\ Len(f[n]) <= n
             /\ h \in [1 .. Len(f[n]) -> 1 .. n]
             /\ \A i \in 1 .. Len(f[n]) : f[n][i] = list[h[i]] /\ list[h[i]] \in S
             /\ \A i, j \in 1 .. Len(f[n]) : i < j => h[i] < h[j]
             /\ \A k \in 1 .. n : list[k] \in S => \E i \in 1 .. Len(f[n]) : h[i] = k
           B == {n \in 0 .. N : ~ \E h : Up(n, h)}
<1>1. N \in Nat /\ \A i \in 1 .. N : list[i] \in T
  BY LenProperties, ElementOfSeq
<1>2. OnlyOf(f, list, S, N)
  BY <1>1, OnlyExists
<1>3. \A n \in 0 .. N : f[n] = IF n = 0 THEN <<>>
            ELSE IF list[n] \in S THEN Append(f[n - 1], list[n]) ELSE f[n - 1]
  BY <1>2 DEF OnlyOf
<1> HIDE DEF f
<1>4. Up(0, [i \in 1 .. 0 |-> 0])
  <2>1. f[0] = <<>>
    BY <1>1, <1>3
  <2>2. Len(<<>>) = 0 /\ <<>> \in Seq(T)
    BY EmptySeq
  <2> QED
    BY <2>1, <2>2
<1>5. ASSUME NEW n \in 1 .. N, NEW h, Up(n - 1, h) PROVE \E g : Up(n, g)
  <2> DEFINE a == f[n - 1]
             L == Len(a)
             g == [i \in 1 .. L + 1 |-> IF i = L + 1 THEN n ELSE h[i]]
  <2>1. a \in Seq(T) /\ L \in Nat /\ L <= n - 1
    BY <1>5, LenProperties
  <2>2. CASE list[n] \notin S
    <3>1. f[n] = a
      BY <1>1, <1>3, <2>2
    <3>2. \A k \in 1 .. n : list[k] \in S => k \in 1 .. n - 1
      BY <1>1, <2>2
    <3>3. /\ Len(a) <= n /\ h \in [1 .. Len(a) -> 1 .. n - 1]
          /\ \A i \in 1 .. Len(a) : a[i] = list[h[i]] /\ list[h[i]] \in S
          /\ \A i, j \in 1 .. Len(a) : i < j => h[i] < h[j]
      BY <1>1, <1>5, <2>1
    <3>4. h \in [1 .. Len(a) -> 1 .. n]
      BY <1>1, <3>3
    <3>5. \A k \in 1 .. n : list[k] \in S => \E i \in 1 .. Len(a) : h[i] = k
      BY <1>5, <3>2
    <3>6. Up(n, h)
      BY <2>1, <3>1, <3>3, <3>4, <3>5, Zenon
    <3> QED
      BY <3>6, Zenon
  <2>3. CASE list[n] \in S
    <3>12. n \in 0 .. N /\ n # 0
      BY <1>1
    <3>1. f[n] = Append(a, list[n])
      BY <1>3, <2>3, <3>12, Zenon
    <3>2. /\ f[n] \in Seq(T) /\ Len(f[n]) = L + 1
          /\ \A i \in 1 .. L : f[n][i] = a[i]
          /\ f[n][L + 1] = list[n]
      BY <1>1, <2>1, <3>1, AppendProperties
    <3> HIDE DEF a, L
    <3>3. h \in [1 .. L -> 1 .. n - 1]
      BY <1>5 DEF a, L
    <3>4. g \in [1 .. L + 1 -> 1 .. n]
      BY <1>1, <2>1, <3>3
    <3>5. \A i \in 1 .. L : a[i] = list[h[i]] /\ list[h[i]] \in S
      BY <1>5 DEF a, L
    <3>6. \A i \in 1 .. L + 1 : f[n][i] = list[g[i]] /\ list[g[i]] \in S
      BY <2>1, <2>3, <3>2, <3>5
    <3>7. \A i, j \in 1 .. L : i < j => h[i] < h[j]
      BY <1>5 DEF a, L
    <3>8. \A i, j \in 1 .. L + 1 : i < j => g[i] < g[j]
      <4> SUFFICES ASSUME NEW i \in 1 .. L + 1, NEW j \in 1 .. L + 1, i < j PROVE g[i] < g[j]
        OBVIOUS
      <4>1. i \in 1 .. L /\ g[i] = h[i] /\ h[i] \in 1 .. n - 1
        BY <2>1, <3>3
      <4>2. CASE j = L + 1
        BY <1>1, <4>1, <4>2
      <4>3. CASE j # L + 1
        <5>1. j \in 1 .. L /\ g[j] = h[j]
          BY <2>1, <4>3
        <5> HIDE DEF g
        <5> QED
          BY <3>7, <4>1, <5>1
      <4> QED
        BY <4>2, <4>3
    <3>9. \A k \in 1 .. n - 1 : list[k] \in S => \E i \in 1 .. L : h[i] = k
      BY <1>5 DEF a, L
    <3>10. \A k \in 1 .. n : list[k] \in S => \E i \in 1 .. L + 1 : g[i] = k
      <4> SUFFICES ASSUME NEW k \in 1 .. n, list[k] \in S PROVE \E i \in 1 .. L + 1 : g[i] = k
        OBVIOUS
      <4>1. CASE k = n
        <5>1. L + 1 \in 1 .. L + 1 /\ g[L + 1] = n
          BY <2>1
        <5> QED
          BY <4>1, <5>1
      <4>2. CASE k # n
        <5>1. PICK i \in 1 .. L : h[i] = k
          BY <3>9, <4>2
        <5>2. i \in 1 .. L + 1 /\ g[i] = h[i]
          BY <2>1
        <5> QED
          BY <5>1, <5>2
      <4> QED
        BY <4>1, <4>2
    <3>11. Len(f[n]) <= n
      BY <1>1, <2>1, <3>2
    <3> HIDE DEF g
    <3>13. Up(n, g)
      BY <3>2, <3>4, <3>6, <3>8, <3>10, <3>11
    <3> HIDE DEF Up
    <3> QED
      BY <3>13
  <2> QED
    BY <2>2, <2>3
<1> HIDE DEF Up
<1>6. B = {}
  <2> SUFFICES ASSUME B # {} PROVE FALSE
    OBVIOUS
  <2>1. PICK n \in B : \A m \in B : n <= m
    <3>1. B \in SUBSET Nat
      BY <1>1
    <3> HIDE DEF B
    <3> QED
      BY <3>1, LeastIsIn
  <2>2. n # 0
    BY <1>4, <2>1
  <2>3. n \in 1 .. N /\ n - 1 \in 0 .. N /\ n - 1 \notin B
    BY <1>1, <2>1, <2>2
  <2>4. PICK h : Up(n - 1, h)
    BY <2>3
  <2> QED
    BY <1>5, <2>1, <2>3, <2>4
<1>7. PICK h : Up(N, h)
  BY <1>1, <1>6
<1>8. Only(list, S) = f[N]
  BY OnlyDef DEF f
<1>9. /\ f[N] \in Seq(T)
      /\ Len(f[N]) <= N
      /\ h \in [1 .. Len(f[N]) -> 1 .. N]
      /\ \A i \in 1 .. Len(f[N]) : f[N][i] = list[h[i]] /\ list[h[i]] \in S
      /\ \A i, j \in 1 .. Len(f[N]) : i < j => h[i] < h[j]
      /\ \A k \in 1 .. N : list[k] \in S => \E i \in 1 .. Len(f[N]) : h[i] = k
  BY <1>7 DEF Up
<1>10. Elems(f[N]) = Elems(list) \cap S
  <2>1. ASSUME NEW x \in Elems(f[N]) PROVE x \in Elems(list) \cap S
    BY <1>9 DEF Elems
  <2>2. ASSUME NEW x \in Elems(list) \cap S PROVE x \in Elems(f[N])
    <3>1. PICK k \in 1 .. N : list[k] = x
      BY DEF Elems
    <3>2. PICK i \in 1 .. Len(f[N]) : h[i] = k
      BY <1>9, <3>1
    <3> QED
      BY <1>9, <3>1, <3>2 DEF Elems
  <2> QED
    BY <2>1, <2>2
<1>11. PartBy(h, f[N], list)
  BY <1>9 DEF PartBy
<1> QED
  BY <1>8, <1>9, <1>10, <1>11

(* A part of a list without doubles has none. *)
LEMMA OnlyApart ==
  ASSUME NEW T, NEW list \in Seq(T), NEW S, Apart(list)
  PROVE  Apart(Only(list, S))
<1> DEFINE a == Only(list, S)
<1>1. PICK h : PartBy(h, a, list)
  BY OnlyIs
<1>2. Len(a) \in Nat /\ Len(list) \in Nat
  BY OnlyIs, LenProperties
<1> HIDE DEF a
<1>3. ASSUME NEW i \in 1 .. Len(a), NEW j \in 1 .. Len(a), a[i].tk = a[j].tk PROVE i = j
  <2>1. h[i] = h[j] /\ h[i] \in 1 .. Len(list)
    BY <1>1, <1>3 DEF PartBy, Apart
  <2>2. ~(i < j) /\ ~(j < i)
    BY <1>1, <1>2, <2>1 DEF PartBy
  <2> QED
    BY <1>2, <2>2
<1> QED
  BY <1>3 DEF Apart, a

(* A task on a list. *)
Item ==
  {t \in [tk : Nat \ {0}, sess : Sessions, kind : {"kernel", "rec", "wait"},
          ev : Events \cup {Nothing}, q : Queues \cup {Nothing}, seq : Nat] :
     t.kind = "rec" => t.ev \in Events}

(* What a call carries to its add. *)
Args ==
  [tk : Nat, sess : Sessions \cup {Nothing}, kind : {"none", "kernel", "rec", "wait"},
   ev : Events \cup {Nothing}, q : Queues \cup {Nothing}, seq : Nat]

(* The five lists of a queue: what is on them, what is unfinished, that    *)
(* nothing is on them twice.                                               *)
AllOf(p, r, f, x, g) == Elems(p) \cup Elems(r) \cup Elems(f) \cup Elems(x) \cup Elems(g)
Unended(p, r, x) == Elems(p) \cup Elems(r) \cup Elems(x)

Five(p, r, f, x, g) ==
  /\ Apart(p) /\ Apart(r) /\ Apart(f) /\ Apart(x) /\ Apart(g)
  /\ Off(p, r) /\ Off(p, f) /\ Off(p, x) /\ Off(p, g)
  /\ Off(r, f) /\ Off(r, x) /\ Off(r, g)
  /\ Off(f, x) /\ Off(f, g) /\ Off(x, g)

-----------------------------------------------------------------------------
(* Tasks move between the lists of a queue *)

(* The first tasks of pt are dispatched. *)
LEMMA SendFive ==
  ASSUME NEW S, NEW out \in Seq(S), NEW rest \in Seq(S), NEW r \in Seq(S), NEW f, NEW x, NEW g,
         Five(out \o rest, r, f, x, g)
  PROVE  /\ Five(rest, r \o out, f, x, g)
         /\ AllOf(rest, r \o out, f, x, g) = AllOf(out \o rest, r, f, x, g)
         /\ Unended(rest, r \o out, x) = Unended(out \o rest, r, x)
<1>1. /\ Elems(out \o rest) = Elems(out) \cup Elems(rest)
      /\ Elems(r \o out) = Elems(r) \cup Elems(out)
  BY ElemsConcat
<1>2. Apart(out) /\ Apart(rest) /\ Off(out, rest)
  BY ApartConcat DEF Five
<1>3. Off(r, out)
  BY <1>1 DEF Five, Off
<1>4. Apart(r \o out)
  BY <1>2, <1>3, ApartConcat DEF Five
<1>5. /\ Off(rest, r \o out) /\ Off(rest, f) /\ Off(rest, x) /\ Off(rest, g)
      /\ Off(r \o out, f) /\ Off(r \o out, x) /\ Off(r \o out, g)
  BY <1>1, <1>2 DEF Five, Off
<1> QED
  BY <1>1, <1>2, <1>4, <1>5 DEF Five, AllOf, Unended

(* A new task joins pt. *)
LEMMA AddFive ==
  ASSUME NEW S, NEW p \in Seq(S), NEW t \in S, NEW r, NEW f, NEW x, NEW g,
         Five(p, r, f, x, g), \A y \in AllOf(p, r, f, x, g) : y.tk # t.tk
  PROVE  /\ Five(p \o <<t>>, r, f, x, g)
         /\ AllOf(p \o <<t>>, r, f, x, g) = AllOf(p, r, f, x, g) \cup {t}
         /\ Unended(p \o <<t>>, r, x) = Unended(p, r, x) \cup {t}
<1>1. <<t>> \in Seq(S) /\ Elems(<<t>>) = {t} /\ Apart(<<t>>)
  BY One
<1>2. Elems(p \o <<t>>) = Elems(p) \cup {t}
  BY JoinOne
<1>3. Off(p, <<t>>)
  BY <1>1 DEF Off, AllOf
<1>4. Apart(p \o <<t>>)
  BY <1>1, <1>3, ApartConcat DEF Five
<1>5. Off(p \o <<t>>, r) /\ Off(p \o <<t>>, f) /\ Off(p \o <<t>>, x) /\ Off(p \o <<t>>, g)
  BY <1>2 DEF Five, Off, AllOf
<1> QED
  BY <1>2, <1>4, <1>5 DEF Five, AllOf, Unended

(* The first tasks of rt have completed. *)
LEMMA IsrFive ==
  ASSUME NEW S, NEW out \in Seq(S), NEW rest \in Seq(S), NEW f \in Seq(S), NEW p, NEW x, NEW g,
         Five(p, out \o rest, f, x, g)
  PROVE  /\ Five(p, rest, f \o out, x, g)
         /\ AllOf(p, rest, f \o out, x, g) = AllOf(p, out \o rest, f, x, g)
         /\ Unended(p, rest, x) = Unended(p, out \o rest, x) \ Elems(out)
         /\ Apart(out) /\ Elems(out) \subseteq Unended(p, out \o rest, x)
<1>1. /\ Elems(out \o rest) = Elems(out) \cup Elems(rest)
      /\ Elems(f \o out) = Elems(f) \cup Elems(out)
  BY ElemsConcat
<1>2. Apart(out) /\ Apart(rest) /\ Off(out, rest)
  BY ApartConcat DEF Five
<1>3. Off(f, out)
  BY <1>1 DEF Five, Off
<1>4. Apart(f \o out)
  BY <1>2, <1>3, ApartConcat DEF Five
<1>5. /\ Off(p, rest) /\ Off(p, f \o out)
      /\ Off(rest, f \o out) /\ Off(rest, x) /\ Off(rest, g)
      /\ Off(f \o out, x) /\ Off(f \o out, g)
  BY <1>1, <1>2 DEF Five, Off
<1>6. AllOf(p, rest, f \o out, x, g) = AllOf(p, out \o rest, f, x, g)
  BY <1>1 DEF AllOf
<1>7. Unended(p, rest, x) = Unended(p, out \o rest, x) \ Elems(out)
  <2>1. \A t \in Elems(out) : t \notin Elems(rest) /\ t \notin Elems(p) /\ t \notin Elems(x)
    BY <1>1, <1>2 DEF Five, Off
  <2> QED
    BY <1>1, <2>1 DEF Unended
<1>8. Elems(out) \subseteq Unended(p, out \o rest, x)
  BY <1>1 DEF Unended
<1>9. Five(p, rest, f \o out, x, g)
  BY <1>2, <1>4, <1>5 DEF Five
<1> QED
  BY <1>2, <1>6, <1>7, <1>8, <1>9

(* What was given up or has completed is finished. *)
LEMMA FinishFive ==
  ASSUME NEW S, NEW p, NEW r, NEW f \in Seq(S), NEW x \in Seq(S),
         Five(p, r, f, x, <<>>)
  PROVE  /\ Five(p, r, <<>>, <<>>, x \o f)
         /\ AllOf(p, r, <<>>, <<>>, x \o f) = AllOf(p, r, f, x, <<>>)
         /\ Unended(p, r, <<>>) = Unended(p, r, x) \ Elems(x)
         /\ Apart(x) /\ Elems(x) \subseteq Unended(p, r, x)
<1>1. Elems(x \o f) = Elems(x) \cup Elems(f) /\ Elems(<<>>) = {} /\ <<>> \in Seq(S) /\ Len(<<>>) = 0
  BY ElemsConcat, ElemsEmpty, EmptySeq
<1>2. Off(x, f)
  BY DEF Five, Off
<1>3. Apart(x \o f)
  BY <1>2, ApartConcat DEF Five
<1>4. Apart(<<>>)
  BY <1>1 DEF Apart
<1>5. /\ Off(p, <<>>) /\ Off(r, <<>>) /\ Off(<<>>, <<>>) /\ Off(<<>>, x \o f)
      /\ Off(p, x \o f) /\ Off(r, x \o f)
  BY <1>1 DEF Five, Off
<1>6. \A t \in Elems(x) : t \notin Elems(p) /\ t \notin Elems(r)
  BY DEF Five, Off
<1>7. Five(p, r, <<>>, <<>>, x \o f)
  BY <1>3, <1>4, <1>5 DEF Five
<1>8. AllOf(p, r, <<>>, <<>>, x \o f) = AllOf(p, r, f, x, <<>>)
  BY <1>1 DEF AllOf
<1>9. Unended(p, r, <<>>) = Unended(p, r, x) \ Elems(x)
  BY <1>1, <1>6 DEF Unended
<1> QED
  BY <1>7, <1>8, <1>9 DEF Five, Unended

(* One is freed. *)
LEMMA TailFive ==
  ASSUME NEW S, NEW p, NEW r, NEW f, NEW x, NEW g \in Seq(S), g # <<>>,
         Five(p, r, f, x, g)
  PROVE  /\ Five(p, r, f, x, Tail(g))
         /\ AllOf(p, r, f, x, Tail(g)) \subseteq AllOf(p, r, f, x, g)
<1>1. /\ Head(g) \in S /\ Tail(g) \in Seq(S) /\ g = <<Head(g)>> \o Tail(g)
      /\ Elems(g) = {Head(g)} \cup Elems(Tail(g))
  BY Behead
<1>2. <<Head(g)>> \in Seq(S)
  BY <1>1, One
<1>3. Apart(Tail(g))
  BY <1>1, <1>2, ApartConcat DEF Five
<1>4. Off(p, Tail(g)) /\ Off(r, Tail(g)) /\ Off(f, Tail(g)) /\ Off(x, Tail(g))
  BY <1>1 DEF Five, Off
<1> QED
  BY <1>1, <1>3, <1>4 DEF Five, AllOf

(* Some are revoked: of pt and rt, those in bad are given up.              *)
Revokes(p, r, f, x, g, bad, out) ==
  /\ out \in Seq(Item) /\ Kept(out, p) \in Seq(Item) /\ Kept(out, r) \in Seq(Item)
  /\ Len(Kept(out, r)) <= Len(r)
  /\ Elems(out) = (Elems(r) \cup Elems(p)) \cap bad
  /\ Elems(Kept(out, p)) = Elems(p) \ bad
  /\ Elems(Kept(out, r)) = Elems(r) \ bad
  /\ Five(Kept(out, p), Kept(out, r), f, x \o out, g)
  /\ AllOf(Kept(out, p), Kept(out, r), f, x \o out, g) = AllOf(p, r, f, x, g)
  /\ Unended(Kept(out, p), Kept(out, r), x \o out) = Unended(p, r, x)

(* What a revocation does to the five lists of a queue. *)
LEMMA RevokeFive ==
  ASSUME NEW p \in Seq(Item), NEW r \in Seq(Item), NEW x \in Seq(Item), NEW f, NEW g, NEW bad,
         NEW out, out = Only(r \o p, bad), Five(p, r, f, x, g)
  PROVE  Revokes(p, r, f, x, g, bad, out)
<1>1. r \o p \in Seq(Item) /\ Elems(r \o p) = Elems(r) \cup Elems(p)
  BY ElemsConcat
<1>2. out \in Seq(Item) /\ Elems(out) = (Elems(r) \cup Elems(p)) \cap bad
  <2>1. out \in Seq(Item) /\ Elems(out) = Elems(r \o p) \cap bad
    BY <1>1, OnlyIs, Zenon
  <2> QED
    BY <1>1, <2>1, Zenon
<1>3. Kept(out, p) \in Seq(Item) /\ Elems(Kept(out, p)) = Elems(p) \ bad
  BY <1>2, OnlyIs DEF Kept
<1>4. Kept(out, r) \in Seq(Item) /\ Elems(Kept(out, r)) = Elems(r) \ bad /\ Len(Kept(out, r)) <= Len(r)
  BY <1>2, OnlyIs DEF Kept
<1>5. Apart(Kept(out, p)) /\ Apart(Kept(out, r))
  BY OnlyApart DEF Kept, Five
<1>6. Off(r, p)
  BY DEF Five, Off
<1>7. Apart(r \o p)
  BY <1>6, ApartConcat DEF Five
<1>8. Apart(out)
  BY <1>1, <1>7, OnlyApart
<1>9. Off(x, out)
  BY <1>2 DEF Five, Off
<1>10. Apart(x \o out) /\ Elems(x \o out) = Elems(x) \cup Elems(out)
  BY <1>2, <1>8, <1>9, ApartConcat, ElemsConcat DEF Five
<1> DEFINE kp == Kept(out, p)
           kr == Kept(out, r)
           xo == x \o out
<1>11. /\ Elems(kp) = Elems(p) \ bad /\ Elems(kr) = Elems(r) \ bad
       /\ Elems(xo) = Elems(x) \cup ((Elems(r) \cup Elems(p)) \cap bad)
  BY <1>2, <1>3, <1>4, <1>10
<1>12. Apart(kp) /\ Apart(kr) /\ Apart(xo)
  BY <1>5, <1>10
<1> HIDE DEF kp, kr, xo
<1>13. Off(kp, kr) /\ Off(kp, f) /\ Off(kp, g) /\ Off(kr, f) /\ Off(kr, g) /\ Off(f, xo) /\ Off(xo, g)
  BY <1>11 DEF Five, Off
<1>14. Off(kp, xo) /\ Off(kr, xo)
  <2>1. \A t \in Elems(p), u \in Elems(p) : t.tk = u.tk => t = u
    BY DEF Five, Apart, Elems
  <2>2. \A t \in Elems(r), u \in Elems(r) : t.tk = u.tk => t = u
    BY DEF Five, Apart, Elems
  <2> QED
    BY <1>11, <2>1, <2>2 DEF Five, Off
<1>15. Five(kp, kr, f, xo, g)
  BY <1>12, <1>13, <1>14 DEF Five
<1>16. AllOf(kp, kr, f, xo, g) = AllOf(p, r, f, x, g) /\ Unended(kp, kr, xo) = Unended(p, r, x)
  BY <1>11 DEF AllOf, Unended
<1> QED
  BY <1>2, <1>3, <1>4, <1>15, <1>16 DEF Revokes, kp, kr, xo

(* Everything on the lists of a queue. *)
On(q) == AllOf(pt[q], rt[q], ft[q], xl[q], gone[q])

(* Types, with what they need to be inductive: sessions and calls, *)
SessTypes ==
  /\ plan \in Plans
  /\ file \in [Sessions -> {"open", "waiting", "tainted", "closed"}]
  /\ failed \in [Sessions -> BOOLEAN] /\ tainted \in [Sessions -> BOOLEAN]
  /\ unfin \in [Sessions -> Int]
  /\ bound \in [Sessions -> Queues \cup {Nothing}]
  /\ up \in [{Uproc[s] : s \in Sessions} -> BOOLEAN]
  /\ pc \in [Sessions -> {"idle", "add", "publish", "look", "ok"}]
  /\ arg \in [Sessions -> Args]
  /\ token \in Nat \ {0} /\ token <= plan.tasks + 1

(* the lists of tasks, *)
ListTypes ==
  /\ pt \in [Queues -> Seq(Item)] /\ rt \in [Queues -> Seq(Item)] /\ ft \in [Queues -> Seq(Item)]
  /\ xl \in [Queues -> Seq(Item)] /\ gone \in [Queues -> Seq(Item)] /\ hw \in [Queues -> Seq(Item)]
  /\ running \in [Queues -> Nat] /\ finish \in [Queues -> BOOLEAN]

(* events, units, interrupts, boards and the exception work. *)
BoardTypes ==
  /\ evSeq \in [Queues -> Nat] /\ recorded \in [Queues -> Nat]
  /\ ev \in [Events -> [rec : Nat, fin : Nat, revoked : BOOLEAN, q : Queues \cup {Nothing},
                        seq : Nat]]
  /\ unit \in [Queues -> {"idle", "run", "hang", "fault", "cut"}]
  /\ intr \in [Queues -> Nat] /\ isr \in [Queues -> Nat]
  /\ stall \in BOOLEAN /\ work \in BOOLEAN /\ dead \in BOOLEAN
  /\ fault \in [Queues -> BOOLEAN] /\ late \in [Queues -> Nat] /\ board \in [Queues -> Nat]
  /\ spread \in [Queues -> BOOLEAN] /\ again \in [Queues -> BOOLEAN]
  /\ htaint \in [Queues -> BOOLEAN] /\ draining \in [Queues -> BOOLEAN]
  /\ todo \subseteq Queues
  /\ wpc \in {"idle", "units", "drain", "sync", "spread", "mark", "reset", "clear"}
  /\ wpc \in {"spread", "clear"} => todo # {}
  /\ killed \subseteq Nat /\ culprits \subseteq Sessions

(* A task that is about to be added belongs to its caller and is nowhere   *)
(* else.                                                                   *)
Calls ==
  \A s \in Sessions :
    /\ pc[s] = "add" => /\ arg[s] \in Item /\ arg[s].sess = s /\ arg[s].tk < token
                        /\ bound[s] \in Queues
                        /\ \A q \in Queues : \A x \in On(q) : x.tk # arg[s].tk
                        /\ \A r \in Sessions \ {s} : pc[r] = "add" => arg[r].tk # arg[s].tk
    /\ pc[s] = "publish" => arg[s].kind = "rec" /\ bound[s] \in Queues
    /\ pc[s] \in {"publish", "look", "ok"} => arg[s].ev \in Events

(* A task is on one list of the queue its session is bound to. *)
Placed ==
  \A q \in Queues :
    /\ Five(pt[q], rt[q], ft[q], xl[q], gone[q])
    /\ \A t \in On(q) : t.tk < token /\ bound[t.sess] = q
    /\ \A r \in Queues \ {q} : \A t \in On(q), x \in On(r) : t.tk # x.tk

(* The tasks of a session that are not over. *)
Unfinished(s) == {t \in UNION {Unended(pt[q], rt[q], xl[q]) : q \in Queues} : t.sess = s}

(* The counts the driver keeps are those of its lists. *)
Counted ==
  /\ \A q \in Queues : running[q] = Len(rt[q]) /\ running[q] <= Depth
  /\ \A s \in Sessions : IsFiniteSet(Unfinished(s)) /\ unfin[s] = Cardinality(Unfinished(s))

(* The hardware has the tail of rt; the rest of rt has completed.          *)
Behind(q, done) ==
  rt[q] = done \o hw[q] /\ Len(done) = intr[q] + isr[q]

(* A hardware queue has the end of its run list; boards have old tokens. *)
Mirrored ==
  \A q \in Queues :
    /\ \E done \in Seq(Item) : Behind(q, done)
    /\ unit[q] # "idle" => hw[q] # <<>> /\ Head(hw[q]).kind = "kernel"
    /\ late[q] < token /\ board[q] < token

(* What the exception work has reached.                                    *)
Working ==
  /\ wpc # "idle" => stall
  /\ wpc \in {"sync", "spread", "mark", "reset", "clear"} => \A q \in Queues : ~Busy(q)
  /\ wpc \in {"spread", "mark", "reset", "clear"} => Handled

(* What a dispatch does: out is written to the hardware, rest stays.       *)
Sent(q, p, r, n, h, out, rest) ==
  /\ p = out \o rest /\ n + Len(out) <= Depth
  /\ pt' = [pt EXCEPT ![q] = rest] /\ rt' = [rt EXCEPT ![q] = r \o out]
  /\ running' = [running EXCEPT ![q] = n + Len(out)]
  /\ hw' = [hw EXCEPT ![q] = h \o out]
  /\ \A t \in Elems(out) : Normal(t.sess)

(* What is ready fits into the free slots and belongs to sessions without trouble. *)
LEMMA ReadyIs ==
  ASSUME NEW q, NEW p \in Seq(Item), Depth \in Nat, NEW n \in 0 .. Depth
  PROVE  /\ Ready(q, p, n) \in 0 .. Len(p)
         /\ n + Ready(q, p, n) <= Depth
         /\ \A i \in 1 .. Ready(q, p, n) : Normal(p[i].sess)
<1> DEFINE ok(k) == k <= Len(p) /\ k <= Room(n) /\ \A i \in 1 .. k : Normal(p[i].sess)
           B == {k \in Nat : ~ok(k)}
<1>1. Len(p) \in Nat /\ Room(n) = Depth - n
  BY LenProperties DEF Room
<1>2. ok(0)
  BY <1>1
<1>3. Len(p) + 1 \in B
  BY <1>1
<1>4. PICK m \in B : \A y \in B : m <= y
  <2>1. B \in SUBSET Nat /\ B # {}
    BY <1>3
  <2> HIDE DEF B
  <2> QED
    BY <2>1, LeastIsIn
<1>5. m # 0
  BY <1>2, <1>4
<1>6. m - 1 \in 0 .. Len(p) /\ ok(m - 1) /\ ~ok((m - 1) + 1)
  <2>1. m - 1 \in Nat /\ ~(m <= m - 1) /\ (m - 1) + 1 = m /\ m <= Len(p) + 1
    BY <1>1, <1>3, <1>4, <1>5
  <2>2. m - 1 \notin B
    BY <1>4, <2>1
  <2>3. ok(m - 1)
    BY <2>1, <2>2
  <2>4. ~ok(m)
    BY <1>4
  <2> QED
    BY <1>1, <2>1, <2>3, <2>4
<1>7. Ready(q, p, n) = CHOOSE k \in 0 .. Len(p) : ok(k) /\ ~ok(k + 1)
  BY DEF Ready
<1> HIDE DEF ok
<1>8. Ready(q, p, n) \in 0 .. Len(p) /\ ok(Ready(q, p, n))
  BY <1>6, <1>7
<1>9. ASSUME NEW k \in 0 .. Len(p), ok(k)
      PROVE  n + k <= Depth /\ \A i \in 1 .. k : Normal(p[i].sess)
  BY <1>1, <1>9 DEF ok
<1> QED
  BY <1>8, <1>9

(* A dispatch moves a first part of the pending list to both the run list and the unit. *)
LEMMA DispatchSends ==
  ASSUME NEW q, NEW p \in Seq(Item), Depth \in Nat, NEW n \in 0 .. Depth, NEW r, NEW h,
         Dispatch(q, p, r, n, h)
  PROVE  \E out \in Seq(Item), rest \in Seq(Item) : Sent(q, p, r, n, h, out, rest)
<1> DEFINE k == Ready(q, p, n)
           out == SubSeq(p, 1, k)
           rest == SubSeq(p, k + 1, Len(p))
<1>1. k \in 0 .. Len(p) /\ n + k <= Depth /\ \A i \in 1 .. k : Normal(p[i].sess)
  BY ReadyIs
<1>2. /\ pt' = [pt EXCEPT ![q] = rest] /\ rt' = [rt EXCEPT ![q] = r \o out]
      /\ running' = [running EXCEPT ![q] = n + k] /\ hw' = [hw EXCEPT ![q] = h \o out]
  BY DEF Dispatch
<1> HIDE DEF k
<1>3. /\ out \in Seq(Item) /\ rest \in Seq(Item) /\ Len(out) = k
      /\ \A i \in 1 .. k : out[i] = p[i]
      /\ p = out \o rest
  <2>1. Parted(Item, p, k, out, rest)
    BY <1>1, PartedIs, Zenon
  <2> HIDE DEF out, rest
  <2> QED
    BY <2>1 DEF Parted
<1> HIDE DEF out, rest
<1>4. \A t \in Elems(out) : Normal(t.sess)
  <2> SUFFICES ASSUME NEW t \in Elems(out) PROVE Normal(t.sess)
    OBVIOUS
  <2>1. PICK i \in 1 .. k : out[i] = t
    BY <1>3 DEF Elems
  <2> QED
    BY <1>1, <1>3, <2>1
<1>5. Sent(q, p, r, n, h, out, rest)
  BY <1>1, <1>2, <1>3, <1>4 DEF Sent
<1> QED
  BY <1>3, <1>5

(* So does the check for a dispatch; it may also move nothing. *)
LEMMA MaybeSends ==
  ASSUME NEW q \in Queues, NEW p \in Seq(Item), Depth \in Nat, NEW n \in 0 .. Depth,
         NEW r \in Seq(Item), hw \in [Queues -> Seq(Item)],
         DispatchIfRunning(q, p, r, n)
  PROVE  \E out \in Seq(Item), rest \in Seq(Item) : Sent(q, p, r, n, hw[q], out, rest)
<1>1. CASE dead
  <2>1. /\ pt' = [pt EXCEPT ![q] = p] /\ rt' = [rt EXCEPT ![q] = r]
        /\ running' = [running EXCEPT ![q] = n] /\ hw' = hw
    BY <1>1 DEF DispatchIfRunning
  <2>2. <<>> \in Seq(Item) /\ Len(<<>>) = 0 /\ Elems(<<>>) = {} /\ n + 0 = n
    BY EmptySeq, ElemsEmpty
  <2>3. hw[q] \in Seq(Item) /\ hw = [hw EXCEPT ![q] = hw[q]]
    OBVIOUS
  <2>4. p = <<>> \o p /\ r = r \o <<>> /\ hw[q] = hw[q] \o <<>>
    BY <2>3, ConcatEmptySeq
  <2>5. Sent(q, p, r, n, hw[q], <<>>, p)
    BY <2>1, <2>2, <2>3, <2>4 DEF Sent
  <2> QED
    BY <2>2, <2>5
<1>2. CASE ~dead
  BY <1>2, DispatchSends DEF DispatchIfRunning
<1> QED
  BY <1>1, <1>2

-----------------------------------------------------------------------------
(* The constants *)

(* What the assumption says of the constants. *)
LEMMA Sizes ==
  /\ NumQ \in Nat \ {0} /\ Depth \in Nat \ {0} /\ IsFiniteSet(Sessions)
  /\ Queues \subseteq Nat /\ 1 \in Queues /\ Nothing \notin Queues
  /\ \A p \in Plans : /\ p.tasks \in Nat
                      /\ \A s \in Sessions : p.calls[s] \subseteq CallType
BY StreamAssumption DEF Queues

(* The scheduler chooses one of the queues. *)
LEMMA LightestIs == ASSUME NEW b PROVE Lightest(b) \in Queues
<1> DEFINE C == {Load(b, q) : q \in Queues}
           B == {q \in Queues : \A p \in Queues : Load(b, q) <= Load(b, p)}
<1>1. \A q \in Queues : Load(b, q) \in Nat
  <2> SUFFICES ASSUME NEW q \in Queues PROVE Load(b, q) \in Nat
    OBVIOUS
  <2>1. IsFiniteSet({s \in Sessions : b[s] = q /\ Alive(s)})
    BY Sizes, FS_Subset
  <2> QED
    BY <2>1, FS_CardinalityType DEF Load
<1>2. C \in SUBSET Nat /\ C # {}
  BY <1>1, Sizes
<1>3. Least(C) \in C /\ \A y \in C : Least(C) <= y
  <2> HIDE DEF C
  <2> QED
    BY <1>2, LeastIsIn
<1>4. PICK q \in Queues : Load(b, q) = Least(C)
  BY <1>3
<1>5. q \in B
  BY <1>3, <1>4
<1>6. B \in SUBSET Nat /\ B # {}
  BY <1>5, Sizes
<1>7. Least(B) \in B
  <2> HIDE DEF B
  <2> QED
    BY <1>6, LeastIsIn
<1> QED
  BY <1>7 DEF Lightest

(* Binding a session gives it a queue and moves no session that has one. *)
LEMMA BindIs ==
  ASSUME bound \in [Sessions -> Queues \cup {Nothing}], NEW s \in Sessions
  PROVE  /\ Bind(bound, s) \in [Sessions -> Queues \cup {Nothing}]
         /\ Bind(bound, s)[s] \in Queues
         /\ \A r \in Sessions : bound[r] # Nothing => Bind(bound, s)[r] = bound[r]
<1>1. Lightest(bound) \in Queues
  BY LightestIs
<1> QED
  BY <1>1 DEF Bind

(* The worker's next queue is one of those left. *)
LEMMA TodoIs == ASSUME todo \subseteq Queues, todo # {} PROVE Least(todo) \in todo /\ Least(todo) \in Queues
<1>1. todo \in SUBSET Nat
  BY Sizes
<1> QED
  BY <1>1, LeastIsIn

-----------------------------------------------------------------------------
(* Which steps change what *)

(* The steps that touch sessions and calls. *)
LEMMA SessSteps ==
  ASSUME [Next]_vars
  PROVE  \/ \E s \in Sessions : Call(s) \/ Goes(s) \/ Close(s)
         \/ \E q \in Queues : Isr(q) \/ FinishBegin(q) \/ TimerLate(q)
         \/ WorkSpread \/ WorkMark \/ WorkReset
         \/ UNCHANGED <<sessVars, callVars>>
<1>1. ASSUME NEW q \in Queues, Hw(q) \/ HwFails(q) \/ IsrRead(q) \/ FinishTask(q) \/ FaultIrq(q) \/ TimerDispatch(q)
      PROVE  UNCHANGED <<sessVars, callVars>>
  BY <1>1 DEF Hw, HwStart, HwDone, HwRecord, HwWait, HwFails, HwKeeps, HwPop, IsrRead, FinishTask,
              FaultIrq, TimerDispatch, sessVars, callVars
<1>2. ASSUME TimerTaint \/ WorkBegin \/ WorkUnits \/ WorkDrained \/ WorkGivesUp \/ WorkSync \/ WorkClear \/ WorkEnd
      PROVE  UNCHANGED <<sessVars, callVars>>
  BY <1>2 DEF TimerTaint, WorkBegin, WorkUnits, WorkDrained, WorkGivesUp, WorkSync, WorkClear,
              WorkEnd, sessVars, callVars
<1>3. ASSUME UNCHANGED vars PROVE UNCHANGED <<sessVars, callVars>>
  BY <1>3 DEF vars
<1> QED
  BY <1>1, <1>2, <1>3 DEF Next, WorkStep, Finish

(* The steps that touch the lists of tasks. *)
LEMMA ListSteps ==
  ASSUME [Next]_vars
  PROVE  \/ \E s \in Sessions : Add(s) /\ Accept(s)
         \/ \E q \in Queues : Isr(q) \/ Finish(q) \/ TimerDispatch(q)
         \/ WorkReset
         \/ UNCHANGED <<pt, rt, ft, xl, gone, running>>
<1> DEFINE Same == UNCHANGED <<pt, rt, ft, xl, gone, running>>
<1>1. ASSUME NEW s \in Sessions, Call(s) \/ Publish(s) \/ WaitLook(s) \/ WaitReturn(s) \/ Close(s)
      PROVE  Same
  BY <1>1 DEF Call, Begin, WaitBegin, Publish, WaitLook, WaitReturn, Close, CloseBegin, CloseTaint,
              CloseEnd, listVars
<1>2. ASSUME NEW s \in Sessions, Add(s), ~Accept(s) PROVE Same
  BY <1>2 DEF Add
<1>3. ASSUME NEW q \in Queues, Hw(q) \/ HwFails(q) \/ IsrRead(q) \/ FaultIrq(q) \/ TimerLate(q)
      PROVE  Same
  BY <1>3 DEF Hw, HwStart, HwDone, HwRecord, HwWait, HwFails, HwKeeps, HwPop, IsrRead, FaultIrq,
              TimerLate, listVars
<1>4. ASSUME TimerTaint \/ WorkBegin \/ WorkUnits \/ WorkDrained \/ WorkGivesUp \/ WorkSync
             \/ WorkSpread \/ WorkMark \/ WorkClear \/ WorkEnd
      PROVE  Same
  BY <1>4 DEF TimerTaint, WorkBegin, WorkUnits, WorkDrained, WorkGivesUp, WorkSync, WorkSpread,
              WorkMark, WorkClear, WorkEnd, listVars
<1>5. ASSUME UNCHANGED vars PROVE Same
  BY <1>5 DEF vars, listVars
<1> HIDE DEF Same
<1>6. \/ \E s \in Sessions : Add(s) /\ Accept(s)
      \/ \E q \in Queues : Isr(q) \/ Finish(q) \/ TimerDispatch(q)
      \/ WorkReset
      \/ Same
  BY <1>1, <1>2, <1>3, <1>4, <1>5 DEF Next, Goes, WorkStep
<1> QED
  BY <1>6 DEF Same

-----------------------------------------------------------------------------
(* Types *)

(* Every step keeps the types of sessions and calls. *)
LEMMA SessTyped ==
  ASSUME SessTypes, ListTypes, BoardTypes, Calls, [Next]_vars
  PROVE  SessTypes'
<1> USE Sizes
<1>0. plan.tasks \in Nat
  BY DEF SessTypes
<1>1. ASSUME NEW s \in Sessions, Begin(s) PROVE SessTypes'
  <2>1. PICK call \in plan.calls[s] :
          /\ call[1] \in {"kernel", "rec", "wait"}
          /\ call[1] = "wait" => ev[call[2]].q # Nothing
          /\ arg' = [arg EXCEPT ![s] =
                [tk |-> token, sess |-> s, kind |-> call[1],
                 ev  |-> IF call[1] = "rec" THEN call[2] ELSE Nothing,
                 q   |-> IF call[1] = "wait" THEN ev[call[2]].q ELSE Nothing,
                 seq |-> IF call[1] = "wait" THEN ev[call[2]].seq ELSE 0]]
    BY <1>1 DEF Begin
  <2>2. call \in CallType /\ call[2] \in Events
    BY DEF SessTypes, CallType
  <2>3. ev[call[2]].q \in Queues \cup {Nothing} /\ ev[call[2]].seq \in Nat
    BY <2>2 DEF BoardTypes
  <2>4. arg' \in [Sessions -> Args]
    BY <2>1, <2>2, <2>3 DEF SessTypes, Args
  <2>5. bound' \in [Sessions -> Queues \cup {Nothing}]
    BY <1>1, BindIs DEF SessTypes, Begin
  <2>6. token' \in Nat \ {0} /\ token' <= plan.tasks + 1
    BY <1>0, <1>1 DEF SessTypes, Begin
  <2>7. pc' \in [Sessions -> {"idle", "add", "publish", "look", "ok"}]
    BY <1>1 DEF SessTypes, Begin
  <2> QED
    BY <1>1, <2>4, <2>5, <2>6, <2>7 DEF SessTypes, Begin
<1>2. ASSUME NEW s \in Sessions, Add(s) PROVE SessTypes'
  <2>1. NoTask \in Args
    BY DEF NoTask, Args
  <2>2. arg[s] \in Args /\ arg[s] \in Item /\ bound[s] \in Queues
    BY <1>2 DEF SessTypes, Calls, Add
  <2>3. [arg[s] EXCEPT !.seq = RecordSeq(s, bound[s])] \in Args
    BY <2>2 DEF Args, RecordSeq, BoardTypes
  <2>4. arg' \in [Sessions -> Args]
    BY <1>2, <2>1, <2>2, <2>3 DEF Add, SessTypes
  <2>5. pc' \in [Sessions -> {"idle", "add", "publish", "look", "ok"}]
    BY <1>2 DEF SessTypes, Add
  <2>6. unfin' \in [Sessions -> Int]
    BY <1>2 DEF SessTypes, Add
  <2> QED
    BY <1>2, <2>4, <2>5, <2>6 DEF Add, SessTypes
<1>3. ASSUME NEW s \in Sessions, Publish(s) \/ WaitReturn(s) PROVE SessTypes'
  <2>1. NoTask \in Args
    BY DEF NoTask, Args
  <2> QED
    BY <1>3, <2>1 DEF SessTypes, Publish, WaitReturn, sessVars
<1>4. ASSUME NEW s \in Sessions, WaitBegin(s) PROVE SessTypes'
  <2>1. PICK call \in plan.calls[s] :
          arg' = [arg EXCEPT ![s] = [NoTask EXCEPT !.ev = call[2], !.seq = ev[call[2]].rec]]
    BY <1>4 DEF WaitBegin
  <2>2. call \in CallType /\ call[2] \in Events
    BY DEF SessTypes, CallType
  <2>3. ev[call[2]].rec \in Nat
    BY <2>2 DEF BoardTypes
  <2>4. arg' \in [Sessions -> Args]
    BY <2>1, <2>2, <2>3 DEF SessTypes, Args, NoTask
  <2> QED
    BY <1>4, <2>4 DEF SessTypes, WaitBegin, sessVars
<1>5. ASSUME NEW s \in Sessions, WaitLook(s) PROVE SessTypes'
  <2>1. NoTask \in Args
    BY DEF NoTask, Args
  <2>2. arg' \in [Sessions -> Args]
    BY <1>5, <2>1 DEF SessTypes, WaitLook
  <2>3. pc' \in [Sessions -> {"idle", "add", "publish", "look", "ok"}]
    BY <1>5 DEF SessTypes, WaitLook
  <2> QED
    BY <1>5, <2>2, <2>3 DEF SessTypes, WaitLook, sessVars
<1>6. ASSUME NEW s \in Sessions, Close(s) PROVE SessTypes'
  BY <1>6 DEF SessTypes, Close, CloseBegin, CloseTaint, CloseEnd, callVars
<1>7. ASSUME NEW q \in Queues, Isr(q) \/ FinishBegin(q) PROVE SessTypes'
  <2>1. \A s \in Sessions, a \in Seq(Item) : OfSession(s, a) \in Int
    <3> SUFFICES ASSUME NEW s \in Sessions, NEW a \in Seq(Item) PROVE OfSession(s, a) \in Int
      OBVIOUS
    <3>1. Len(a) \in Nat /\ IsFiniteSet(1 .. Len(a))
      BY LenProperties, FS_Interval
    <3>2. IsFiniteSet({i \in 1 .. Len(a) : a[i].sess = s})
      BY <3>1, FS_Subset
    <3> QED
      BY <3>2, FS_CardinalityType DEF OfSession
  <2>2. xl[q] \in Seq(Item) /\ rt[q] \in Seq(Item)
    BY DEF ListTypes
  <2>3. ASSUME NEW n \in Int PROVE SubSeq(rt[q], 1, n) \in Seq(Item) \/ ~(n \in 0 .. Len(rt[q]))
    BY <2>2, Cut
  <2>4. CASE FinishBegin(q)
    <3>1. unfin' = [s \in Sessions |-> unfin[s] - OfSession(s, xl[q])]
      BY <2>4 DEF FinishBegin, GivenUp
    <3>2. unfin' \in [Sessions -> Int]
      BY <2>1, <2>2, <3>1 DEF SessTypes
    <3> QED
      BY <2>4, <3>2 DEF FinishBegin, SessTypes, callVars
  <2>5. CASE Isr(q)
    <3> DEFINE cnt == IF running[q] < isr[q] THEN running[q] ELSE isr[q]
               out == SubSeq(rt[q], 1, cnt)
    <3>1. unfin' = [s \in Sessions |-> unfin[s] - OfSession(s, out)]
      BY <2>5 DEF Isr
    <3>2. cnt \in Nat
      BY DEF ListTypes, BoardTypes
    <3>5. Len(out) = cnt
      BY <3>2
    <3> HIDE DEF out, cnt
    <3>3. \A s \in Sessions : OfSession(s, out) \in Int
      <4> SUFFICES ASSUME NEW s \in Sessions PROVE OfSession(s, out) \in Int
        OBVIOUS
      <4>1. IsFiniteSet(1 .. Len(out))
        BY <3>2, <3>5, FS_Interval
      <4>2. IsFiniteSet({i \in 1 .. Len(out) : out[i].sess = s})
        BY <4>1, FS_Subset
      <4> QED
        BY <4>2, FS_CardinalityType DEF OfSession
    <3>4. unfin' \in [Sessions -> Int]
      BY <3>1, <3>3 DEF SessTypes
    <3> QED
      BY <2>5, <3>4 DEF Isr, SessTypes, callVars
  <2> QED
    BY <1>7, <2>4, <2>5
<1>8. ASSUME NEW q \in Queues, TimerLate(q) PROVE SessTypes'
  BY <1>8 DEF SessTypes, TimerLate, callVars
<1>9. ASSUME WorkMark PROVE SessTypes'
  BY <1>9 DEF SessTypes, WorkMark, callVars
<1>10. ASSUME WorkReset PROVE SessTypes'
  <2>1. failed' \in [Sessions -> BOOLEAN]
    <3>1. failed' = failed \/ failed' = [s \in Sessions |-> failed[s] \/ s \in FailedSession(Least(todo))]
      BY <1>10 DEF WorkReset
    <3> QED
      BY <3>1 DEF SessTypes
  <2> QED
    BY <1>10, <2>1 DEF SessTypes, WorkReset, callVars
<1>11. ASSUME WorkSpread PROVE SessTypes'
  <2>1. failed' \in [Sessions -> BOOLEAN]
    BY <1>11 DEF SessTypes, WorkSpread
  <2>2. up' \in [{Uproc[s] : s \in Sessions} -> BOOLEAN]
    BY <1>11 DEF SessTypes, WorkSpread
  <2>3. bound' \in [Sessions -> Queues \cup {Nothing}]
    BY <1>11 DEF SessTypes, WorkSpread
  <2> QED
    BY <1>11, <2>1, <2>2, <2>3 DEF SessTypes, WorkSpread, callVars
<1>12. ASSUME UNCHANGED <<sessVars, callVars>> PROVE SessTypes'
  BY <1>12 DEF SessTypes, sessVars, callVars
<1> QED
  BY <1>1, <1>2, <1>3, <1>4, <1>5, <1>6, <1>7, <1>8, <1>9, <1>10, <1>11, <1>12, SessSteps DEF Call, Goes

-----------------------------------------------------------------------------
(* What an add and a reset do *)

(* The task an accepted call adds. *)
Added(s) == IF arg[s].kind = "rec" THEN [arg[s] EXCEPT !.seq = RecordSeq(s, bound[s])] ELSE arg[s]

(* A queue runs as many tasks as its run list has, at most Depth.          *)
LEMMA RunningIs ==
  ASSUME ListTypes, Counted, NEW q \in Queues
  PROVE  /\ pt[q] \in Seq(Item) /\ rt[q] \in Seq(Item)
         /\ running[q] = Len(rt[q]) /\ running[q] \in 0 .. Depth
<1>1. pt[q] \in Seq(Item) /\ rt[q] \in Seq(Item) /\ running[q] \in Nat
  BY DEF ListTypes
<1>2. running[q] = Len(rt[q]) /\ running[q] <= Depth
  BY DEF Counted
<1>3. Depth \in Nat
  BY Sizes
<1> QED
  BY <1>1, <1>2, <1>3

(* The task an add brings is new: no task of any queue has its token. *)
LEMMA AddedIs ==
  ASSUME SessTypes, BoardTypes, Calls, NEW s \in Sessions, Add(s)
  PROVE  /\ Added(s) \in Item /\ bound[s] \in Queues
         /\ Added(s).tk = arg[s].tk /\ Added(s).sess = s /\ Added(s).kind = arg[s].kind
         /\ Added(s).ev = arg[s].ev
         /\ Added(s).tk < token /\ \A q \in Queues : \A x \in On(q) : x.tk # Added(s).tk
<1>1. /\ arg[s] \in Item /\ arg[s].sess = s /\ arg[s].tk < token /\ bound[s] \in Queues
      /\ \A q \in Queues : \A x \in On(q) : x.tk # arg[s].tk
  BY DEF Calls, Add
<1>2. RecordSeq(s, bound[s]) \in Nat
  BY <1>1 DEF RecordSeq, BoardTypes
<1> QED
  BY <1>1, <1>2 DEF Added, Item

(* An accepted call puts its task behind the others and may dispatch.      *)
LEMMA AddMoves ==
  ASSUME SessTypes, ListTypes, BoardTypes, Calls, Counted, NEW s \in Sessions, Add(s), Accept(s)
  PROVE  /\ \E out \in Seq(Item), rest \in Seq(Item) :
              Sent(bound[s], pt[bound[s]] \o <<Added(s)>>, rt[bound[s]], Len(rt[bound[s]]),
                   hw[bound[s]], out, rest)
         /\ UNCHANGED <<ft, xl, gone>>
<1> DEFINE q == bound[s]
           t == Added(s)
<1>1. t \in Item /\ q \in Queues
  BY AddedIs
<1>2. /\ DispatchIfRunning(q, Append(pt[q], t), rt[q], running[q])
      /\ UNCHANGED <<ft, xl, gone>>
  BY DEF Add, Added
<1> HIDE DEF q, t
<1>3. /\ pt[q] \in Seq(Item) /\ rt[q] \in Seq(Item) /\ running[q] = Len(rt[q]) /\ running[q] \in 0 .. Depth
  BY <1>1, RunningIs
<1>4. Append(pt[q], t) \in Seq(Item) /\ Append(pt[q], t) = pt[q] \o <<t>>
  BY <1>1, <1>3, AppendIs
<1>5. \E out \in Seq(Item), rest \in Seq(Item) :
        Sent(q, Append(pt[q], t), rt[q], running[q], hw[q], out, rest)
  BY <1>1, <1>2, <1>3, <1>4, Sizes, MaybeSends DEF ListTypes
<1> QED
  BY <1>2, <1>3, <1>4, <1>5 DEF q, t

(* The timer may dispatch. *)
LEMMA TimerMoves ==
  ASSUME ListTypes, Counted, NEW q \in Queues, TimerDispatch(q)
  PROVE  /\ \E out \in Seq(Item), rest \in Seq(Item) :
              Sent(q, pt[q], rt[q], Len(rt[q]), hw[q], out, rest)
         /\ UNCHANGED <<ft, xl, gone>>
<1>1. DispatchIfRunning(q, pt[q], rt[q], running[q]) /\ UNCHANGED <<ft, xl, gone>>
  BY DEF TimerDispatch
<1>2. /\ pt[q] \in Seq(Item) /\ rt[q] \in Seq(Item) /\ running[q] = Len(rt[q]) /\ running[q] \in 0 .. Depth
  BY RunningIs
<1>3. \E out \in Seq(Item), rest \in Seq(Item) : Sent(q, pt[q], rt[q], running[q], hw[q], out, rest)
  BY <1>1, <1>2, Sizes, MaybeSends DEF ListTypes
<1> QED
  BY <1>1, <1>2, <1>3

(* The handler moves exactly the tasks whose completions it has read.      *)
LEMMA IsrMoves ==
  ASSUME ListTypes, BoardTypes, Counted, Mirrored, NEW q \in Queues, Isr(q)
  PROVE  \E over \in Seq(Item), left \in Seq(Item), out \in Seq(Item), rest \in Seq(Item) :
           /\ rt[q] = over \o left /\ Len(over) = isr[q]
           /\ Sent(q, pt[q], left, Len(left), hw[q], out, rest)
           /\ ft' = [ft EXCEPT ![q] = ft[q] \o over]
           /\ unfin' = [s \in Sessions |-> unfin[s] - OfSession(s, over)]
           /\ UNCHANGED <<xl, gone>>
<1>1. /\ pt[q] \in Seq(Item) /\ rt[q] \in Seq(Item) /\ hw[q] \in Seq(Item)
      /\ running[q] = Len(rt[q]) /\ running[q] \in 0 .. Depth /\ isr[q] \in Nat /\ intr[q] \in Nat
  BY RunningIs DEF ListTypes, BoardTypes
<1>2. isr[q] \in 0 .. Len(rt[q])
  <2>1. PICK done \in Seq(Item) : Behind(q, done)
    BY DEF Mirrored
  <2>2. rt[q] = done \o hw[q] /\ Len(done) = intr[q] + isr[q]
    BY <2>1 DEF Behind
  <2>3. Len(done \o hw[q]) = Len(done) + Len(hw[q]) /\ Len(hw[q]) \in Nat
    BY <1>1, ConcatProperties, LenProperties
  <2> QED
    BY <1>1, <2>2, <2>3
<1> DEFINE n == isr[q]
           over == SubSeq(rt[q], 1, n)
           left == SubSeq(rt[q], n + 1, Len(rt[q]))
<1>3. (IF running[q] < isr[q] THEN running[q] ELSE isr[q]) = n
  BY <1>1, <1>2
<1>4. /\ ft' = [ft EXCEPT ![q] = ft[q] \o over]
      /\ unfin' = [s \in Sessions |-> unfin[s] - OfSession(s, over)]
      /\ DispatchIfRunning(q, pt[q], left, running[q] - n)
      /\ UNCHANGED <<xl, gone>>
  BY <1>3 DEF Isr
<1>5. /\ over \in Seq(Item) /\ left \in Seq(Item) /\ Len(over) = n /\ Len(left) = Len(rt[q]) - n
      /\ rt[q] = over \o left
  <2>1. rt[q] \in Seq(Item) /\ n \in 0 .. Len(rt[q])
    BY <1>1, <1>2
  <2>2. Parted(Item, rt[q], n, over, left)
    BY <2>1, PartedIs, Zenon
  <2> HIDE DEF n, over, left
  <2> QED
    BY <2>2 DEF Parted
<1>6. n \in 0 .. running[q]
  BY <1>1, <1>2
<1> HIDE DEF over, left, n
<1>7. running[q] - n = Len(left) /\ Len(left) \in 0 .. Depth
  BY <1>1, <1>5, <1>6, Sizes
<1>8. \E out \in Seq(Item), rest \in Seq(Item) : Sent(q, pt[q], left, Len(left), hw[q], out, rest)
  BY <1>1, <1>4, <1>5, <1>7, Sizes, MaybeSends DEF ListTypes
<1> QED
  BY <1>4, <1>5, <1>8 DEF n

(* Of the queue that is reset, the tasks of bad sessions are given up, the *)
(* others are written again.                                               *)
Resets == wpc = "reset" /\ todo # {} /\ (board[Least(todo)] # 0 \/ again[Least(todo)])

(* The sessions whose tasks the reset of a queue takes out, and these tasks. *)
BadAt(q, s) == failed[s] \/ s \in FailedSession(q)

BadTasks(q) == {t \in Elems(rt[q] \o pt[q]) : BadAt(q, t.sess)}

(* What the reset of one queue takes out, and what it leaves in order. *)
LEMMA ResetMoves ==
  ASSUME ListTypes, BoardTypes, Counted, WorkReset, Resets
  PROVE  LET q == Least(todo)
             gives == Only(rt[q] \o pt[q], BadTasks(q))
             r == Kept(gives, rt[q])
             p == Kept(gives, pt[q])
         IN  /\ q \in todo /\ q \in Queues
             /\ r \in Seq(Item) /\ p \in Seq(Item) /\ gives \in Seq(Item)
             /\ Len(r) <= Len(rt[q])
             /\ xl' = [xl EXCEPT ![q] = xl[q] \o gives]
             /\ \E out \in Seq(Item), rest \in Seq(Item) : Sent(q, p, r, Len(r), r, out, rest)
             /\ failed' = [s \in Sessions |-> BadAt(q, s)]
             /\ unit' = [unit EXCEPT ![q] = "idle"]
             /\ ev' = [e \in Events |-> [ev[e] EXCEPT !.revoked =
                         @ \/ \E t \in Elems(gives) : t.kind = "rec" /\ t.ev = e]]
             /\ wpc' = "clear"
             /\ UNCHANGED <<ft, gone, todo>>
<1> DEFINE q == Least(todo)
<1>1. q \in todo /\ q \in Queues
  BY TodoIs DEF BoardTypes, Resets
<1>2. /\ pt[q] \in Seq(Item) /\ rt[q] \in Seq(Item) /\ running[q] = Len(rt[q]) /\ running[q] \in 0 .. Depth
  <2> HIDE DEF q
  <2> QED
    BY <1>1, Sizes DEF ListTypes, Counted
<1> DEFINE bad == [s \in Sessions |-> failed[s] \/ s \in FailedSession(q)]
           gives == Only(rt[q] \o pt[q], BadTasks(q))
           r == Kept(gives, rt[q])
           p == Kept(gives, pt[q])
<1>3. Elems(rt[q] \o pt[q]) \subseteq Item
  <2>1. rt[q] \o pt[q] \in Seq(Item)
    BY <1>2, ElemsConcat
  <2> QED
    BY <2>1, ElemsIn
<1>4. \A t \in Elems(rt[q] \o pt[q]) : bad[t.sess] <=> BadAt(q, t.sess)
  <2>1. \A t \in Item : t.sess \in Sessions
    BY DEF Item
  <2> QED
    BY <1>3, <2>1 DEF BadAt
<1>5. Revoked(bad, q) = gives
  <2> HIDE DEF bad
  <2>1. {t \in Elems(rt[q] \o pt[q]) : bad[t.sess]} = BadTasks(q)
    BY <1>4 DEF BadTasks
  <2> QED
    BY <2>1 DEF Revoked
<1>6. rt[q] \o pt[q] \in Seq(Item)
  BY <1>2, ElemsConcat
<1>7. gives \in Seq(Item)
  BY <1>6, OnlyIs
<1>8. r \in Seq(Item) /\ p \in Seq(Item) /\ Len(r) <= Len(rt[q])
  BY <1>2, OnlyIs DEF Kept
<1>9. /\ failed' = bad
      /\ xl' = [xl EXCEPT ![q] = xl[q] \o Revoked(bad, q)]
      /\ ev' = [e \in Events |-> [ev[e] EXCEPT !.revoked =
                            @ \/ \E t \in Elems(Revoked(bad, q)) : t.kind = "rec" /\ t.ev = e]]
      /\ unit' = [unit EXCEPT ![q] = "idle"]
      /\ Dispatch(q, Kept(Revoked(bad, q), pt[q]), Kept(Revoked(bad, q), rt[q]),
                  Len(Kept(Revoked(bad, q), rt[q])), Kept(Revoked(bad, q), rt[q]))
      /\ wpc' = "clear"
      /\ UNCHANGED <<ft, gone, todo>>
  <2>1. board[q] # 0 \/ again[q]
    BY DEF Resets
  <2>2. failed' = bad /\ xl' = [xl EXCEPT ![q] = xl[q] \o Revoked(bad, q)] /\ wpc' = "clear"
    BY <2>1 DEF WorkReset
  <2>3. unit' = [unit EXCEPT ![q] = "idle"] /\ UNCHANGED <<ft, gone, todo>>
    BY <2>1 DEF WorkReset
  <2>4. ev' = [e \in Events |-> [ev[e] EXCEPT !.revoked =
                            @ \/ \E t \in Elems(Revoked(bad, q)) : t.kind = "rec" /\ t.ev = e]]
    BY <2>1 DEF WorkReset
  <2>5. Dispatch(q, Kept(Revoked(bad, q), pt[q]), Kept(Revoked(bad, q), rt[q]),
                  Len(Kept(Revoked(bad, q), rt[q])), Kept(Revoked(bad, q), rt[q]))
    BY <2>1 DEF WorkReset
  <2> QED
    BY <2>2, <2>3, <2>4, <2>5
<1>10. Dispatch(q, p, r, Len(r), r)
  BY <1>5, <1>9
<1>11. failed' = [s \in Sessions |-> BadAt(q, s)]
  BY <1>9 DEF BadAt
<1>12. /\ xl' = [xl EXCEPT ![q] = xl[q] \o gives]
       /\ ev' = [e \in Events |-> [ev[e] EXCEPT !.revoked =
                   @ \/ \E t \in Elems(gives) : t.kind = "rec" /\ t.ev = e]]
  <2> HIDE DEF gives, bad
  <2> QED
    BY <1>5, <1>9
<1> HIDE DEF q, gives, bad, r, p
<1>13. Len(r) \in 0 .. Depth
  BY <1>2, <1>8, LenProperties, Sizes
<1>14. \E out \in Seq(Item), rest \in Seq(Item) : Sent(q, p, r, Len(r), r, out, rest)
  BY <1>8, <1>10, <1>13, Sizes, DispatchSends
<1> QED
  BY <1>1, <1>7, <1>8, <1>9, <1>11, <1>12, <1>14 DEF q, gives, r, p

(* A queue on whose board nothing is, is passed over.                      *)
LEMMA PassesOver ==
  ASSUME WorkReset, ~Resets
  PROVE  /\ UNCHANGED <<failed, xl, ev, unit, pt, rt, running, hw, wpc, ft, gone>>
         /\ todo' = todo \ {Least(todo)} /\ wpc = "reset" /\ todo # {}
         /\ ~(board[Least(todo)] # 0 \/ again[Least(todo)])
BY DEF WorkReset, Resets

-----------------------------------------------------------------------------
(* Every step keeps the types of the lists. *)
LEMMA ListTyped ==
  ASSUME SessTypes, ListTypes, BoardTypes, Calls, Counted, Mirrored, [Next]_vars
  PROVE  /\ pt' \in [Queues -> Seq(Item)] /\ rt' \in [Queues -> Seq(Item)]
         /\ ft' \in [Queues -> Seq(Item)] /\ xl' \in [Queues -> Seq(Item)]
         /\ gone' \in [Queues -> Seq(Item)] /\ running' \in [Queues -> Nat]
<1> DEFINE Goal == /\ pt' \in [Queues -> Seq(Item)] /\ rt' \in [Queues -> Seq(Item)]
                   /\ ft' \in [Queues -> Seq(Item)] /\ xl' \in [Queues -> Seq(Item)]
                   /\ gone' \in [Queues -> Seq(Item)] /\ running' \in [Queues -> Nat]
<1>0. ASSUME NEW q \in Queues, NEW p, NEW r \in Seq(Item), NEW h, NEW out \in Seq(Item),
             NEW rest \in Seq(Item), Sent(q, p, r, Len(r), h, out, rest)
      PROVE  pt' \in [Queues -> Seq(Item)] /\ rt' \in [Queues -> Seq(Item)] /\ running' \in [Queues -> Nat]
  <2>1. r \o out \in Seq(Item) /\ Len(r) + Len(out) \in Nat
    BY ConcatProperties, LenProperties
  <2>2. /\ pt' = [pt EXCEPT ![q] = rest] /\ rt' = [rt EXCEPT ![q] = r \o out]
        /\ running' = [running EXCEPT ![q] = Len(r) + Len(out)]
    BY <1>0 DEF Sent
  <2> QED
    BY <2>1, <2>2 DEF ListTypes
<1>1. ASSUME NEW s \in Sessions, Add(s), Accept(s) PROVE Goal
  <2>1. PICK out \in Seq(Item), rest \in Seq(Item) :
          Sent(bound[s], pt[bound[s]] \o <<Added(s)>>, rt[bound[s]], Len(rt[bound[s]]),
               hw[bound[s]], out, rest)
    BY <1>1, AddMoves
  <2>2. bound[s] \in Queues /\ rt[bound[s]] \in Seq(Item)
    BY <1>1, AddedIs DEF ListTypes
  <2> QED
    BY <1>0, <1>1, <2>1, <2>2, AddMoves DEF ListTypes
<1>2. ASSUME NEW q \in Queues, TimerDispatch(q) PROVE Goal
  <2>1. PICK out \in Seq(Item), rest \in Seq(Item) :
          Sent(q, pt[q], rt[q], Len(rt[q]), hw[q], out, rest)
    BY <1>2, TimerMoves
  <2> QED
    BY <1>0, <1>2, <2>1, TimerMoves DEF ListTypes
<1>3. ASSUME NEW q \in Queues, Isr(q) PROVE Goal
  <2>1. PICK over \in Seq(Item), left \in Seq(Item), out \in Seq(Item), rest \in Seq(Item) :
           /\ rt[q] = over \o left /\ Len(over) = isr[q]
           /\ Sent(q, pt[q], left, Len(left), hw[q], out, rest)
           /\ ft' = [ft EXCEPT ![q] = ft[q] \o over]
           /\ UNCHANGED <<xl, gone>>
    BY <1>3, IsrMoves
  <2>2. ft[q] \o over \in Seq(Item)
    BY ConcatProperties DEF ListTypes
  <2> QED
    BY <1>0, <2>1, <2>2 DEF ListTypes
<1>4. ASSUME NEW q \in Queues, FinishBegin(q) PROVE Goal
  <2>1. xl[q] \o ft[q] \in Seq(Item) /\ <<>> \in Seq(Item)
    BY ConcatProperties, EmptySeq DEF ListTypes
  <2> QED
    BY <1>4, <2>1 DEF FinishBegin, ListTypes
<1>5. ASSUME NEW q \in Queues, FinishTask(q) PROVE Goal
  <2>1. Tail(gone[q]) \in Seq(Item)
    BY <1>5, Behead DEF ListTypes, FinishTask
  <2> QED
    BY <1>5, <2>1 DEF FinishTask, ListTypes
<1>6. ASSUME WorkReset PROVE Goal
  <2>1. CASE Resets
    <3> DEFINE q == Least(todo)
               gives == Only(rt[q] \o pt[q], BadTasks(q))
               r == Kept(gives, rt[q])
               p == Kept(gives, pt[q])
    <3>1. /\ q \in Queues /\ r \in Seq(Item) /\ gives \in Seq(Item)
          /\ xl' = [xl EXCEPT ![q] = xl[q] \o gives]
          /\ \E out \in Seq(Item), rest \in Seq(Item) : Sent(q, p, r, Len(r), r, out, rest)
          /\ UNCHANGED <<ft, gone, todo>>
      BY <1>6, <2>1, ResetMoves
    <3> HIDE DEF q, gives, r, p
    <3>2. xl[q] \o gives \in Seq(Item)
      BY <3>1, ConcatProperties DEF ListTypes
    <3>3. pt' \in [Queues -> Seq(Item)] /\ rt' \in [Queues -> Seq(Item)] /\ running' \in [Queues -> Nat]
      BY <1>0, <3>1
    <3> QED
      BY <3>1, <3>2, <3>3 DEF ListTypes
  <2>2. CASE ~Resets
    BY <1>6, <2>2, PassesOver DEF ListTypes
  <2> QED
    BY <2>1, <2>2
<1>7. ASSUME UNCHANGED <<pt, rt, ft, xl, gone, running>> PROVE Goal
  BY <1>7 DEF ListTypes
<1> HIDE DEF Goal
<1>8. Goal
  BY <1>1, <1>2, <1>3, <1>4, <1>5, <1>6, <1>7, ListSteps DEF Finish
<1> QED
  BY <1>8 DEF Goal

-----------------------------------------------------------------------------
(* Events and units *)

(* The head of a hardware queue leaves it. *)
Pops(q) == HwDone(q) \/ HwRecord(q) \/ HwWait(q)

(* The steps that touch the units' lists. *)
LEMMA HwSteps ==
  ASSUME [Next]_vars
  PROVE  \/ \E s \in Sessions : Add(s) /\ Accept(s)
         \/ \E q \in Queues : Pops(q) \/ Isr(q) \/ TimerDispatch(q)
         \/ WorkReset
         \/ UNCHANGED <<rt, hw>>
<1> DEFINE Same == UNCHANGED <<rt, hw>>
<1>1. ASSUME NEW s \in Sessions, Call(s) \/ Publish(s) \/ WaitLook(s) \/ WaitReturn(s) \/ Close(s)
      PROVE  Same
  BY <1>1 DEF Call, Begin, WaitBegin, Publish, WaitLook, WaitReturn, Close, CloseBegin, CloseTaint,
              CloseEnd, listVars, hwVars
<1>2. ASSUME NEW s \in Sessions, Add(s), ~Accept(s) PROVE Same
  BY <1>2 DEF Add
<1>3. ASSUME NEW q \in Queues, HwStart(q) \/ HwFails(q) \/ IsrRead(q) \/ FaultIrq(q) \/ TimerLate(q) \/ Finish(q)
      PROVE  Same
  BY <1>3 DEF HwStart, HwFails, HwKeeps, IsrRead, FaultIrq, TimerLate, listVars, hwVars, Finish,
              FinishBegin, FinishTask
<1>4. ASSUME TimerTaint \/ WorkBegin \/ WorkUnits \/ WorkDrained \/ WorkGivesUp \/ WorkSync
             \/ WorkSpread \/ WorkMark \/ WorkClear \/ WorkEnd
      PROVE  Same
  BY <1>4 DEF TimerTaint, WorkBegin, WorkUnits, WorkDrained, WorkGivesUp, WorkSync, WorkSpread,
              WorkMark, WorkClear, WorkEnd, listVars, hwVars
<1>5. ASSUME UNCHANGED vars PROVE Same
  BY <1>5 DEF vars, listVars, hwVars
<1> HIDE DEF Same
<1>6. \/ \E s \in Sessions : Add(s) /\ Accept(s)
      \/ \E q \in Queues : Pops(q) \/ Isr(q) \/ TimerDispatch(q)
      \/ WorkReset
      \/ Same
  BY <1>1, <1>2, <1>3, <1>4, <1>5 DEF Next, Goes, WorkStep, Hw, Pops
<1> QED
  BY <1>6 DEF Same

(* A unit that ends a task removes it from the front and counts one interrupt. *)
LEMMA PopIs ==
  ASSUME ListTypes, BoardTypes, Mirrored, NEW q \in Queues, Pops(q)
  PROVE  /\ hw[q] # <<>> /\ Tail(hw[q]) \in Seq(Item) /\ hw[q] = <<Head(hw[q])>> \o Tail(hw[q])
         /\ Head(hw[q]) \in Item /\ Len(Tail(hw[q])) = Len(hw[q]) - 1
         /\ Elems(hw[q]) = {Head(hw[q])} \cup Elems(Tail(hw[q]))
         /\ hw' = [hw EXCEPT ![q] = Tail(hw[q])]
         /\ intr' = [intr EXCEPT ![q] = intr[q] + 1]
         /\ UNCHANGED <<sessVars, callVars, listVars, evSeq, ev, isr, boardVars, workVars, stall>>
<1>1. hw[q] # <<>>
  BY DEF Pops, HwDone, HwRecord, HwWait, Head1, Mirrored
<1>2. hw[q] \in Seq(Item)
  BY DEF ListTypes
<1>3. /\ hw' = [hw EXCEPT ![q] = Tail(hw[q])]
      /\ intr' = [intr EXCEPT ![q] = intr[q] + 1]
      /\ UNCHANGED <<sessVars, callVars, listVars, evSeq, ev, isr, boardVars, workVars, stall>>
  BY DEF Pops, HwDone, HwRecord, HwWait, HwPop, HwKeeps
<1> QED
  BY <1>1, <1>2, <1>3, Behead

(* Every step keeps the types of the units' lists. *)
LEMMA HwTyped ==
  ASSUME SessTypes, ListTypes, BoardTypes, Calls, Counted, Mirrored, [Next]_vars
  PROVE  hw' \in [Queues -> Seq(Item)]
<1>0. ASSUME NEW q \in Queues, NEW p, NEW r, NEW n, NEW h \in Seq(Item), NEW out \in Seq(Item),
             NEW rest, Sent(q, p, r, n, h, out, rest)
      PROVE  hw' \in [Queues -> Seq(Item)]
  BY <1>0, ConcatProperties DEF Sent, ListTypes
<1>1. ASSUME NEW s \in Sessions, Add(s), Accept(s) PROVE hw' \in [Queues -> Seq(Item)]
  <2>1. bound[s] \in Queues /\ hw[bound[s]] \in Seq(Item)
    BY <1>1, AddedIs DEF ListTypes
  <2> QED
    BY <1>0, <1>1, <2>1, AddMoves
<1>2. ASSUME NEW q \in Queues, TimerDispatch(q) PROVE hw' \in [Queues -> Seq(Item)]
  BY <1>0, <1>2, TimerMoves DEF ListTypes
<1>3. ASSUME NEW q \in Queues, Isr(q) PROVE hw' \in [Queues -> Seq(Item)]
  <2>1. hw[q] \in Seq(Item)
    BY DEF ListTypes
  <2>2. PICK over \in Seq(Item), left \in Seq(Item), out \in Seq(Item), rest \in Seq(Item) :
           Sent(q, pt[q], left, Len(left), hw[q], out, rest)
    BY <1>3, IsrMoves
  <2> QED
    BY <1>0, <2>1, <2>2
<1>4. ASSUME WorkReset PROVE hw' \in [Queues -> Seq(Item)]
  <2>1. CASE Resets
    <3> DEFINE q == Least(todo)
               gives == Only(rt[q] \o pt[q], BadTasks(q))
               r == Kept(gives, rt[q])
               p == Kept(gives, pt[q])
    <3>1. /\ q \in Queues /\ r \in Seq(Item)
          /\ \E out \in Seq(Item), rest \in Seq(Item) : Sent(q, p, r, Len(r), r, out, rest)
      BY <1>4, <2>1, ResetMoves
    <3> HIDE DEF q, gives, r, p
    <3> QED
      BY <1>0, <3>1
  <2> QED
    BY <1>4, <2>1, PassesOver DEF ListTypes
<1>5. ASSUME NEW q \in Queues, Pops(q) PROVE hw' \in [Queues -> Seq(Item)]
  BY <1>5, PopIs DEF ListTypes
<1> QED
  BY <1>1, <1>2, <1>3, <1>4, <1>5, HwSteps DEF ListTypes

(* Every step keeps the type of the finishing flags. *)
LEMMA FinishTyped ==
  ASSUME ListTypes, BoardTypes, [Next]_vars
  PROVE  finish' \in [Queues -> BOOLEAN]
<1> DEFINE Goal == finish' \in [Queues -> BOOLEAN]
<1>1. ASSUME NEW s \in Sessions, Call(s) \/ Goes(s) \/ Close(s) PROVE Goal
  BY <1>1 DEF Call, Begin, WaitBegin, Goes, Add, Publish, WaitLook, WaitReturn, Close, CloseBegin,
              CloseTaint, CloseEnd, listVars, ListTypes
<1>2. ASSUME NEW q \in Queues,
             Hw(q) \/ HwFails(q) \/ IsrRead(q) \/ Isr(q) \/ Finish(q) \/ FaultIrq(q)
               \/ TimerDispatch(q) \/ TimerLate(q)
      PROVE  Goal
  BY <1>2 DEF Hw, HwStart, HwDone, HwRecord, HwWait, HwFails, HwKeeps, HwPop, IsrRead, FaultIrq,
              Isr, Finish, FinishBegin, FinishTask, TimerDispatch, TimerLate, listVars, ListTypes
<1>3. ASSUME TimerTaint \/ WorkStep PROVE Goal
  BY <1>3 DEF TimerTaint, WorkStep, WorkBegin, WorkUnits, WorkDrained, WorkGivesUp, WorkSync,
              WorkSpread, WorkReset, WorkMark, WorkClear, WorkEnd, listVars, ListTypes
<1>4. ASSUME UNCHANGED vars PROVE Goal
  BY <1>4 DEF vars, listVars, ListTypes
<1> QED
  BY <1>1, <1>2, <1>3, <1>4 DEF Next

(* The events as the types have them. *)
EvType == [rec : Nat, fin : Nat, revoked : BOOLEAN, q : Queues \cup {Nothing}, seq : Nat]

(* Setting a count of an event keeps its type. *)
LEMMA EvRecord ==
  ASSUME NEW x \in EvType, NEW n \in Nat
  PROVE  [x EXCEPT !.rec = n] \in EvType /\ [x EXCEPT !.fin = n] \in EvType
BY DEF EvType

(* So do the updates the driver makes. *)
LEMMA EvCounts ==
  ASSUME ev \in [Events -> EvType], NEW e \in Events
  PROVE  /\ [ev EXCEPT ![e].rec = @ + 1] \in [Events -> EvType]
         /\ [ev EXCEPT ![e].fin = @ + 1] \in [Events -> EvType]
         /\ \A q \in Queues, n \in Nat : [ev EXCEPT ![e].q = q, ![e].seq = n] \in [Events -> EvType]
<1>1. ev[e] \in EvType /\ ev[e].rec + 1 \in Nat /\ ev[e].fin + 1 \in Nat
  BY DEF EvType
<1>2. [ev[e] EXCEPT !.rec = ev[e].rec + 1] \in EvType /\ [ev[e] EXCEPT !.fin = ev[e].fin + 1] \in EvType
  BY <1>1, EvRecord
<1>3. ASSUME NEW q \in Queues, NEW n \in Nat
      PROVE  [ev EXCEPT ![e].q = q, ![e].seq = n] \in [Events -> EvType]
  BY <1>1 DEF EvType
<1>4. [ev EXCEPT ![e].rec = @ + 1] = [ev EXCEPT ![e] = [ev[e] EXCEPT !.rec = ev[e].rec + 1]]
  OBVIOUS
<1>5. [ev EXCEPT ![e].fin = @ + 1] = [ev EXCEPT ![e] = [ev[e] EXCEPT !.fin = ev[e].fin + 1]]
  OBVIOUS
<1> QED
  BY <1>2, <1>3, <1>4, <1>5

(* Every step keeps the types of events, units, interrupts and the worker. *)
LEMMA BoardTyped ==
  ASSUME SessTypes, ListTypes, BoardTypes, Calls, Counted, Mirrored, [Next]_vars
  PROVE  BoardTypes'
<1>0. ev \in [Events -> EvType]
  BY DEF BoardTypes, EvType
<1>1. ASSUME NEW s \in Sessions, Begin(s) \/ WaitBegin(s) \/ WaitLook(s) \/ WaitReturn(s) PROVE BoardTypes'
  BY <1>1 DEF Begin, WaitBegin, WaitLook, WaitReturn, BoardTypes, hwVars, boardVars, workVars
<1>2. ASSUME NEW s \in Sessions, Close(s) PROVE BoardTypes'
  BY <1>2 DEF Close, CloseBegin, CloseTaint, CloseEnd, BoardTypes, hwVars, boardVars, workVars
<1>3. ASSUME NEW s \in Sessions, Add(s) PROVE BoardTypes'
  <2>1. arg[s] \in Item /\ bound[s] \in Queues
    BY <1>3 DEF Calls, Add
  <2>2. RecordSeq(s, bound[s]) \in Nat
    BY <2>1 DEF RecordSeq, BoardTypes
  <2>3. evSeq' \in [Queues -> Nat]
    <3>1. [arg[s] EXCEPT !.seq = RecordSeq(s, bound[s])].seq = RecordSeq(s, bound[s])
      BY <2>1 DEF Item
    <3>2. evSeq' = evSeq \/ evSeq' = [evSeq EXCEPT ![bound[s]] = RecordSeq(s, bound[s])]
      BY <1>3, <3>1 DEF Add
    <3> QED
      BY <2>1, <2>2, <3>2 DEF BoardTypes
  <2>4. ev' \in [Events -> EvType]
    <3>1. CASE Accept(s) /\ arg[s].kind = "rec"
      <4>1. ev' = [ev EXCEPT ![arg[s].ev].rec = @ + 1] /\ arg[s].ev \in Events
        BY <1>3, <2>1, <3>1 DEF Add, Item
      <4> QED
        BY <1>0, <4>1, EvCounts
    <3>2. CASE ~(Accept(s) /\ arg[s].kind = "rec")
      <4>1. ev' = ev
        BY <1>3, <3>2 DEF Add
      <4> QED
        BY <1>0, <4>1
    <3> QED
      BY <3>1, <3>2
  <2> QED
    BY <1>3, <2>3, <2>4 DEF Add, BoardTypes, boardVars, workVars, EvType
<1>4. ASSUME NEW s \in Sessions, Publish(s) PROVE BoardTypes'
  <2>1. bound[s] \in Queues /\ arg[s].seq \in Nat
    BY <1>4 DEF Publish, Calls, SessTypes, Args
  <2>2. ev' \in [Events -> EvType]
    <3>1. ev' = [ev EXCEPT ![arg[s].ev].q = bound[s], ![arg[s].ev].seq = arg[s].seq] /\ arg[s].ev \in Events
      BY <1>4 DEF Publish, Calls
    <3> QED
      BY <1>0, <2>1, <3>1, EvCounts
  <2> QED
    BY <1>4, <2>2 DEF EvType, Publish, BoardTypes, hwVars, boardVars, workVars
<1>5. ASSUME NEW q \in Queues, HwStart(q) PROVE BoardTypes'
  BY <1>5 DEF HwStart, HwKeeps, BoardTypes, boardVars, workVars
<1>6. ASSUME NEW q \in Queues, HwFails(q) PROVE BoardTypes'
  <2>1. Head(hw[q]).sess \in Sessions
    <3>1. hw[q] # <<>> /\ hw[q] \in Seq(Item)
      BY <1>6 DEF HwFails, Mirrored, ListTypes
    <3>2. Head(hw[q]) \in Item
      BY <3>1, Behead
    <3> QED
      BY <3>2 DEF Item
  <2> QED
    BY <1>6, <2>1 DEF HwFails, HwKeeps, BoardTypes, boardVars, workVars
<1>7. ASSUME NEW q \in Queues, Pops(q) PROVE BoardTypes'
  <2>1. Head(hw[q]) \in Item /\ Head(hw[q]).seq \in Nat
    BY <1>7, PopIs DEF Item
  <2>2. intr' \in [Queues -> Nat]
    <3>1. intr[q] + 1 \in Nat /\ intr \in [Queues -> Nat]
      BY DEF BoardTypes
    <3> QED
      BY <1>7, <3>1, PopIs
  <2>3. unit' \in [Queues -> {"idle", "run", "hang", "fault", "cut"}]
    BY <1>7 DEF Pops, HwDone, HwRecord, HwWait, BoardTypes
  <2>4. recorded' \in [Queues -> Nat]
    BY <1>7, <2>1 DEF Pops, HwDone, HwRecord, HwWait, BoardTypes
  <2> QED
    BY <1>7, <2>2, <2>3, <2>4 DEF Pops, HwDone, HwRecord, HwWait, HwKeeps, BoardTypes, boardVars, workVars
<1>8. ASSUME NEW q \in Queues, IsrRead(q) \/ Isr(q) PROVE BoardTypes'
  <2>1. isr' \in [Queues -> Nat] /\ intr' \in [Queues -> Nat]
    <3>1. CASE IsrRead(q)
      <4>1. isr' = [isr EXCEPT ![q] = intr[q]] /\ intr' = [intr EXCEPT ![q] = 0]
        BY <3>1 DEF IsrRead
      <4> QED
        BY <4>1 DEF BoardTypes
    <3>2. CASE Isr(q)
      <4>1. isr' = [isr EXCEPT ![q] = 0] /\ intr' = intr
        BY <3>2 DEF Isr
      <4> QED
        BY <4>1 DEF BoardTypes
    <3> QED
      BY <1>8, <3>1, <3>2
  <2> QED
    BY <1>8, <2>1 DEF IsrRead, Isr, BoardTypes, boardVars, workVars
<1>9. ASSUME NEW q \in Queues, FinishBegin(q) \/ TimerDispatch(q) PROVE BoardTypes'
  BY <1>9 DEF FinishBegin, TimerDispatch, BoardTypes, hwVars, boardVars, workVars
<1>10. ASSUME NEW q \in Queues, FinishTask(q) PROVE BoardTypes'
  <2>1. ev' \in [Events -> EvType]
    <3>1. Head(gone[q]) \in Item
      BY <1>10, Behead DEF FinishTask, ListTypes
    <3>2. CASE Head(gone[q]).kind = "rec"
      <4>1. ev' = [ev EXCEPT ![Head(gone[q]).ev].fin = @ + 1] /\ Head(gone[q]).ev \in Events
        BY <1>10, <3>1, <3>2 DEF FinishTask, Item
      <4> QED
        BY <1>0, <4>1, EvCounts
    <3>3. CASE Head(gone[q]).kind # "rec"
      BY <1>0, <1>10, <3>3 DEF FinishTask
    <3> QED
      BY <3>2, <3>3
  <2> QED
    BY <1>10, <2>1 DEF EvType, FinishTask, BoardTypes, hwVars, boardVars, workVars
<1>11. ASSUME NEW q \in Queues, FaultIrq(q) PROVE BoardTypes'
  <2>1. Head(hw[q]).tk \in Nat
    <3>1. hw[q] # <<>> /\ hw[q] \in Seq(Item)
      BY <1>11 DEF FaultIrq, Mirrored, ListTypes
    <3>2. Head(hw[q]) \in Item
      BY <3>1, Behead
    <3> QED
      BY <3>2 DEF Item
  <2> QED
    BY <1>11, <2>1 DEF FaultIrq, BookFault, BoardTypes, hwVars
<1>12. ASSUME NEW q \in Queues, TimerLate(q) PROVE BoardTypes'
  <2>1. Head(rt[q]).tk \in Nat /\ Head(rt[q]).sess \in Sessions
    <3>1. rt[q] # <<>> /\ rt[q] \in Seq(Item)
      BY <1>12 DEF TimerLate, ListTypes
    <3>2. Head(rt[q]) \in Item
      BY <3>1, Behead
    <3> QED
      BY <3>2 DEF Item
  <2> QED
    BY <1>12, <2>1 DEF TimerLate, BookLate, BoardTypes, hwVars
<1>13. ASSUME TimerTaint PROVE BoardTypes'
  BY <1>13 DEF TimerTaint, BoardTypes, hwVars, Rep
<1>14. ASSUME WorkBegin \/ WorkDrained \/ WorkGivesUp \/ WorkSync \/ WorkEnd PROVE BoardTypes'
  BY <1>14, Sizes DEF WorkBegin, WorkDrained, WorkGivesUp, WorkSync, WorkEnd, BoardTypes, hwVars, boardVars
<1>15. ASSUME WorkUnits PROVE BoardTypes'
  <2>1. \A q \in CutOff : Head(hw[q]).tk \in Nat
    <3> SUFFICES ASSUME NEW q \in CutOff PROVE Head(hw[q]).tk \in Nat
      OBVIOUS
    <3>1. q \in Queues /\ hw[q] # <<>> /\ hw[q] \in Seq(Item)
      BY DEF CutOff, Busy, Mirrored, ListTypes
    <3>2. Head(hw[q]) \in Item
      BY <3>1, Behead
    <3> QED
      BY <3>2 DEF Item
  <2>2. killed' \subseteq Nat
    BY <1>15, <2>1 DEF WorkUnits, BoardTypes
  <2> QED
    BY <1>15, <2>2 DEF WorkUnits, BoardTypes, Rep
<1>16. ASSUME WorkSpread PROVE BoardTypes'
  <2>1. spread' \in [Queues -> BOOLEAN]
    BY <1>16 DEF WorkSpread, BoardTypes
  <2> QED
    BY <1>16, <2>1 DEF WorkSpread, BoardTypes, hwVars
<1>17. ASSUME WorkMark PROVE BoardTypes'
  BY <1>17 DEF WorkMark, BoardTypes, hwVars, Rep
<1>18. ASSUME WorkReset PROVE BoardTypes'
  <2>1. ev' \in [Events -> EvType]
    <3>1. CASE Resets
      <4> DEFINE lost(e) == \E t \in Elems(Only(rt[Least(todo)] \o pt[Least(todo)], BadTasks(Least(todo)))) :
                              t.kind = "rec" /\ t.ev = e
      <4>1. ev' = [e \in Events |-> [ev[e] EXCEPT !.revoked = @ \/ lost(e)]]
        BY <1>18, <3>1, ResetMoves
      <4> HIDE DEF lost
      <4>2. \A e \in Events : [ev[e] EXCEPT !.revoked = @ \/ lost(e)] \in EvType
        BY <1>0 DEF EvType
      <4> QED
        BY <4>1, <4>2
    <3>2. CASE ~Resets
      BY <1>0, <1>18, <3>2, PassesOver
    <3> QED
      BY <3>1, <3>2
  <2>2. unit' \in [Queues -> {"idle", "run", "hang", "fault", "cut"}]
    BY <1>18 DEF WorkReset, BoardTypes
  <2>3. /\ todo' \subseteq Queues /\ wpc' \in {"reset", "clear"} /\ wpc' \in {"spread", "clear"} => todo' # {}
    BY <1>18 DEF WorkReset, BoardTypes
  <2> QED
    BY <1>18, <2>1, <2>2, <2>3 DEF EvType, WorkReset, BoardTypes, boardVars
<1>19. ASSUME WorkClear PROVE BoardTypes'
  BY <1>19 DEF WorkClear, BoardTypes, hwVars
<1>20. ASSUME UNCHANGED vars PROVE BoardTypes'
  BY <1>20 DEF vars, BoardTypes, hwVars, boardVars, workVars
<1> QED
  BY <1>1, <1>2, <1>3, <1>4, <1>5, <1>6, <1>7, <1>8, <1>9, <1>10, <1>11, <1>12, <1>13, <1>14, <1>15,
     <1>16, <1>17, <1>18, <1>19, <1>20 DEF Next, Call, Goes, Hw, Pops, Finish, WorkStep

-----------------------------------------------------------------------------
(* Every step leaves the lists or changes those of one queue *)

(* What is unfinished on the lists of a queue. *)
Left(q) == Unended(pt[q], rt[q], xl[q])

(* The lists of all queues but one stay. *)
OthersSame(q) ==
  \A r \in Queues \ {q} : /\ pt'[r] = pt[r] /\ rt'[r] = rt[r] /\ ft'[r] = ft[r]
                          /\ xl'[r] = xl[r] /\ gone'[r] = gone[r]

(* Nothing is on the lists of the queue twice. *)
FiveAt(q) == Five(pt[q], rt[q], ft[q], xl[q], gone[q])

(* An add puts its task on one queue. *)
LEMMA AddShifts ==
  ASSUME SessTypes, ListTypes, BoardTypes, Calls, Counted, Placed,
         NEW s \in Sessions, Add(s), Accept(s)
  PROVE  /\ OthersSame(bound[s]) /\ FiveAt(bound[s])'
         /\ On(bound[s])' = On(bound[s]) \cup {Added(s)}
         /\ Left(bound[s])' = Left(bound[s]) \cup {Added(s)}
<1> DEFINE q == bound[s]
           t == Added(s)
<1>0. bound' = bound
  BY DEF Add
<1>1. t \in Item /\ q \in Queues /\ \A x \in On(q) : x.tk # t.tk
  BY AddedIs
<1>2. PICK out \in Seq(Item), rest \in Seq(Item) :
         Sent(q, pt[q] \o <<t>>, rt[q], Len(rt[q]), hw[q], out, rest)
  BY AddMoves
<1>3. UNCHANGED <<ft, xl, gone>>
  BY AddMoves
<1> HIDE DEF q, t
<1>4. /\ pt[q] \o <<t>> = out \o rest
      /\ pt' = [pt EXCEPT ![q] = rest] /\ rt' = [rt EXCEPT ![q] = rt[q] \o out]
  BY <1>2 DEF Sent
<1>5. pt[q] \in Seq(Item) /\ rt[q] \in Seq(Item)
  BY <1>1 DEF ListTypes
<1>6. /\ Five(pt[q] \o <<t>>, rt[q], ft[q], xl[q], gone[q])
      /\ AllOf(pt[q] \o <<t>>, rt[q], ft[q], xl[q], gone[q]) = On(q) \cup {t}
      /\ Unended(pt[q] \o <<t>>, rt[q], xl[q]) = Left(q) \cup {t}
  BY <1>1, <1>5, AddFive DEF Placed, On, Left
<1>7. /\ Five(rest, rt[q] \o out, ft[q], xl[q], gone[q])
      /\ AllOf(rest, rt[q] \o out, ft[q], xl[q], gone[q]) = On(q) \cup {t}
      /\ Unended(rest, rt[q] \o out, xl[q]) = Left(q) \cup {t}
  <2>1. /\ Five(out \o rest, rt[q], ft[q], xl[q], gone[q])
        /\ AllOf(out \o rest, rt[q], ft[q], xl[q], gone[q]) = On(q) \cup {t}
        /\ Unended(out \o rest, rt[q], xl[q]) = Left(q) \cup {t}
    BY <1>4, <1>6
  <2> QED
    BY <1>5, <2>1, SendFive
<1>8. pt'[q] = rest /\ rt'[q] = rt[q] \o out /\ ft'[q] = ft[q] /\ xl'[q] = xl[q] /\ gone'[q] = gone[q]
  BY <1>1, <1>3, <1>4 DEF ListTypes
<1>9. OthersSame(q)
  BY <1>3, <1>4 DEF OthersSame, ListTypes
<1>10. q' = q
  BY <1>0 DEF q
<1> QED
  BY <1>7, <1>8, <1>9, <1>10 DEF FiveAt, On, Left, q, t

(* The timer's dispatch moves tasks within one queue. *)
LEMMA TimerShifts ==
  ASSUME ListTypes, Counted, Placed, NEW q \in Queues, TimerDispatch(q)
  PROVE  OthersSame(q) /\ FiveAt(q)' /\ On(q)' = On(q) /\ Left(q)' = Left(q)
<1>1. PICK out \in Seq(Item), rest \in Seq(Item) : Sent(q, pt[q], rt[q], Len(rt[q]), hw[q], out, rest)
  BY TimerMoves
<1>2. UNCHANGED <<ft, xl, gone>>
  BY TimerMoves
<1>3. /\ pt[q] = out \o rest
      /\ pt' = [pt EXCEPT ![q] = rest] /\ rt' = [rt EXCEPT ![q] = rt[q] \o out]
  BY <1>1 DEF Sent
<1>4. rt[q] \in Seq(Item)
  BY DEF ListTypes
<1>5. /\ Five(rest, rt[q] \o out, ft[q], xl[q], gone[q])
      /\ AllOf(rest, rt[q] \o out, ft[q], xl[q], gone[q]) = On(q)
      /\ Unended(rest, rt[q] \o out, xl[q]) = Left(q)
  <2>1. /\ Five(out \o rest, rt[q], ft[q], xl[q], gone[q])
        /\ AllOf(out \o rest, rt[q], ft[q], xl[q], gone[q]) = On(q)
        /\ Unended(out \o rest, rt[q], xl[q]) = Left(q)
    BY <1>3 DEF Placed, On, Left
  <2> QED
    BY <1>4, <2>1, SendFive
<1>6. pt'[q] = rest /\ rt'[q] = rt[q] \o out /\ ft'[q] = ft[q] /\ xl'[q] = xl[q] /\ gone'[q] = gone[q]
  BY <1>2, <1>3 DEF ListTypes
<1>7. OthersSame(q)
  BY <1>2, <1>3 DEF OthersSame, ListTypes
<1> QED
  BY <1>5, <1>6, <1>7 DEF FiveAt, On, Left

(* The interrupt handler ends tasks of one queue and takes them off their sessions' counts. *)
LEMMA IsrShifts ==
  ASSUME ListTypes, BoardTypes, Counted, Mirrored, Placed, NEW q \in Queues, Isr(q)
  PROVE  /\ OthersSame(q) /\ FiveAt(q)' /\ On(q)' = On(q)
         /\ \E over \in Seq(Item) :
              /\ Apart(over) /\ Elems(over) \subseteq Left(q) /\ Left(q)' = Left(q) \ Elems(over)
              /\ unfin' = [s \in Sessions |-> unfin[s] - OfSession(s, over)]
<1>1. PICK over \in Seq(Item), left \in Seq(Item), out \in Seq(Item), rest \in Seq(Item) :
           /\ rt[q] = over \o left /\ Len(over) = isr[q]
           /\ Sent(q, pt[q], left, Len(left), hw[q], out, rest)
           /\ ft' = [ft EXCEPT ![q] = ft[q] \o over]
           /\ unfin' = [s \in Sessions |-> unfin[s] - OfSession(s, over)]
           /\ UNCHANGED <<xl, gone>>
  BY IsrMoves
<1>2. /\ pt[q] = out \o rest
      /\ pt' = [pt EXCEPT ![q] = rest] /\ rt' = [rt EXCEPT ![q] = left \o out]
  BY <1>1 DEF Sent
<1>3. ft[q] \in Seq(Item) /\ ft[q] \o over \in Seq(Item)
  BY ConcatProperties DEF ListTypes
<1>4. Five(pt[q], over \o left, ft[q], xl[q], gone[q])
  BY <1>1 DEF Placed
<1>5. /\ Five(pt[q], left, ft[q] \o over, xl[q], gone[q])
      /\ AllOf(pt[q], left, ft[q] \o over, xl[q], gone[q]) = On(q)
      /\ Unended(pt[q], left, xl[q]) = Left(q) \ Elems(over)
      /\ Apart(over) /\ Elems(over) \subseteq Left(q)
  BY <1>1, <1>3, <1>4, IsrFive DEF On, Left
<1>6. /\ Five(rest, left \o out, ft[q] \o over, xl[q], gone[q])
      /\ AllOf(rest, left \o out, ft[q] \o over, xl[q], gone[q]) = On(q)
      /\ Unended(rest, left \o out, xl[q]) = Left(q) \ Elems(over)
  BY <1>2, <1>5, SendFive
<1>7. /\ pt'[q] = rest /\ rt'[q] = left \o out /\ ft'[q] = ft[q] \o over /\ xl'[q] = xl[q]
      /\ gone'[q] = gone[q]
  BY <1>1, <1>2 DEF ListTypes
<1>8. OthersSame(q)
  BY <1>1, <1>2 DEF OthersSame, ListTypes
<1> QED
  BY <1>1, <1>5, <1>6, <1>7, <1>8 DEF FiveAt, On, Left

(* The finisher ends the cancelled tasks of one queue in the same way. *)
LEMMA FinishShifts ==
  ASSUME ListTypes, Placed, NEW q \in Queues, FinishBegin(q)
  PROVE  /\ OthersSame(q) /\ FiveAt(q)' /\ On(q)' = On(q)
         /\ Apart(xl[q]) /\ Elems(xl[q]) \subseteq Left(q) /\ Left(q)' = Left(q) \ Elems(xl[q])
         /\ unfin' = [s \in Sessions |-> unfin[s] - OfSession(s, xl[q])]
<1>1. /\ gone[q] = <<>> /\ gone' = [gone EXCEPT ![q] = xl[q] \o ft[q]]
      /\ xl' = [xl EXCEPT ![q] = <<>>] /\ ft' = [ft EXCEPT ![q] = <<>>]
      /\ unfin' = [s \in Sessions |-> unfin[s] - OfSession(s, xl[q])]
      /\ UNCHANGED <<pt, rt>>
  BY DEF FinishBegin, GivenUp
<1>2. xl[q] \in Seq(Item) /\ ft[q] \in Seq(Item)
  BY DEF ListTypes
<1>3. Five(pt[q], rt[q], ft[q], xl[q], <<>>)
  BY <1>1 DEF Placed
<1>4. /\ Five(pt[q], rt[q], <<>>, <<>>, xl[q] \o ft[q])
      /\ AllOf(pt[q], rt[q], <<>>, <<>>, xl[q] \o ft[q]) = On(q)
      /\ Unended(pt[q], rt[q], <<>>) = Left(q) \ Elems(xl[q])
      /\ Apart(xl[q]) /\ Elems(xl[q]) \subseteq Left(q)
  <2>1. /\ AllOf(pt[q], rt[q], ft[q], xl[q], <<>>) = On(q) /\ Unended(pt[q], rt[q], xl[q]) = Left(q)
    BY <1>1 DEF On, Left
  <2>2. /\ Five(pt[q], rt[q], <<>>, <<>>, xl[q] \o ft[q])
        /\ AllOf(pt[q], rt[q], <<>>, <<>>, xl[q] \o ft[q]) = AllOf(pt[q], rt[q], ft[q], xl[q], <<>>)
        /\ Unended(pt[q], rt[q], <<>>) = Unended(pt[q], rt[q], xl[q]) \ Elems(xl[q])
        /\ Apart(xl[q]) /\ Elems(xl[q]) \subseteq Unended(pt[q], rt[q], xl[q])
    BY <1>2, <1>3, FinishFive
  <2> QED
    BY <2>1, <2>2
<1>5. /\ pt'[q] = pt[q] /\ rt'[q] = rt[q] /\ ft'[q] = <<>> /\ xl'[q] = <<>>
      /\ gone'[q] = xl[q] \o ft[q]
  BY <1>1 DEF ListTypes
<1>6. OthersSame(q)
  BY <1>1 DEF OthersSame, ListTypes
<1> QED
  BY <1>1, <1>4, <1>5, <1>6 DEF FiveAt, On, Left

(* Releasing tasks takes them off one queue. *)
LEMMA FreeShifts ==
  ASSUME ListTypes, Placed, NEW q \in Queues, FinishTask(q)
  PROVE  OthersSame(q) /\ FiveAt(q)' /\ On(q)' \subseteq On(q) /\ Left(q)' = Left(q)
<1>1. gone[q] # <<>> /\ gone' = [gone EXCEPT ![q] = Tail(gone[q])] /\ UNCHANGED <<pt, rt, ft, xl>>
  BY DEF FinishTask
<1>2. gone[q] \in Seq(Item)
  BY DEF ListTypes
<1>3. /\ Five(pt[q], rt[q], ft[q], xl[q], Tail(gone[q]))
      /\ AllOf(pt[q], rt[q], ft[q], xl[q], Tail(gone[q])) \subseteq On(q)
  BY <1>1, <1>2, TailFive DEF On, Placed
<1>4. OthersSame(q) /\ gone'[q] = Tail(gone[q])
  BY <1>1 DEF OthersSame, ListTypes
<1> QED
  BY <1>1, <1>3, <1>4 DEF FiveAt, On, Left

(* A reset moves tasks within one queue. *)
LEMMA ResetShifts ==
  ASSUME ListTypes, BoardTypes, Counted, Placed, WorkReset, Resets, NEW q, q = Least(todo)
  PROVE  /\ q \in Queues /\ OthersSame(q) /\ FiveAt(q)' /\ On(q)' = On(q) /\ Left(q)' = Left(q)
<1> DEFINE bad == BadTasks(q)
           gives == Only(rt[q] \o pt[q], bad)
           r == Kept(gives, rt[q])
           p == Kept(gives, pt[q])
<1>1. /\ q \in Queues /\ r \in Seq(Item) /\ p \in Seq(Item) /\ gives \in Seq(Item)
      /\ xl' = [xl EXCEPT ![q] = xl[q] \o gives]
      /\ \E out \in Seq(Item), rest \in Seq(Item) : Sent(q, p, r, Len(r), r, out, rest)
      /\ UNCHANGED <<ft, gone>>
  BY ResetMoves
<1>2. PICK out \in Seq(Item), rest \in Seq(Item) : Sent(q, p, r, Len(r), r, out, rest)
  BY <1>1
<1>3. pt[q] \in Seq(Item) /\ rt[q] \in Seq(Item) /\ xl[q] \in Seq(Item)
  BY <1>1 DEF ListTypes
<1>4. Five(pt[q], rt[q], ft[q], xl[q], gone[q])
  BY <1>1 DEF Placed
<1>5. /\ Five(p, r, ft[q], xl[q] \o gives, gone[q])
      /\ AllOf(p, r, ft[q], xl[q] \o gives, gone[q]) = On(q)
      /\ Unended(p, r, xl[q] \o gives) = Left(q)
  <2>1. gives = Only(rt[q] \o pt[q], bad)
    OBVIOUS
  <2> HIDE DEF bad, gives
  <2>2. /\ AllOf(pt[q], rt[q], ft[q], xl[q], gone[q]) = On(q) /\ Unended(pt[q], rt[q], xl[q]) = Left(q)
    BY DEF On, Left
  <2>3. Revokes(pt[q], rt[q], ft[q], xl[q], gone[q], bad, gives)
    BY <1>3, <1>4, <2>1, RevokeFive
  <2> QED
    BY <2>2, <2>3 DEF Revokes
<1> HIDE DEF gives, r, p
<1>6. /\ p = out \o rest
      /\ pt' = [pt EXCEPT ![q] = rest] /\ rt' = [rt EXCEPT ![q] = r \o out]
  BY <1>2 DEF Sent
<1>7. /\ Five(rest, r \o out, ft[q], xl[q] \o gives, gone[q])
      /\ AllOf(rest, r \o out, ft[q], xl[q] \o gives, gone[q]) = On(q)
      /\ Unended(rest, r \o out, xl[q] \o gives) = Left(q)
  BY <1>1, <1>5, <1>6, SendFive
<1>8. /\ pt'[q] = rest /\ rt'[q] = r \o out /\ ft'[q] = ft[q] /\ xl'[q] = xl[q] \o gives
      /\ gone'[q] = gone[q]
  BY <1>1, <1>6 DEF ListTypes
<1>9. OthersSame(q)
  BY <1>1, <1>6 DEF OthersSame, ListTypes
<1> QED
  BY <1>1, <1>7, <1>8, <1>9 DEF FiveAt, On, Left

(* A step changes the lists of one queue, and nothing new comes on them    *)
(* but the task of an accepted call.                                       *)
Comes(q, S) == \E s \in Sessions : Add(s) /\ Accept(s) /\ q = bound[s] /\ S = {Added(s)}

(* Every step leaves the lists or changes those of one queue only. *)
LEMMA ListsShift ==
  ASSUME SessTypes, ListTypes, BoardTypes, Calls, Placed, Counted, Mirrored, [Next]_vars
  PROVE  \/ UNCHANGED <<pt, rt, ft, xl, gone>>
         \/ \E q \in Queues :
              /\ OthersSame(q) /\ FiveAt(q)'
              /\ \/ On(q)' \subseteq On(q)
                 \/ \E S : Comes(q, S) /\ On(q)' = On(q) \cup S
<1> DEFINE Shift == \E q \in Queues :
              /\ OthersSame(q) /\ FiveAt(q)'
              /\ \/ On(q)' \subseteq On(q)
                 \/ \E S : Comes(q, S) /\ On(q)' = On(q) \cup S
<1>1. ASSUME NEW s \in Sessions, Add(s), Accept(s) PROVE Shift
  <2>1. /\ OthersSame(bound[s]) /\ FiveAt(bound[s])' /\ On(bound[s])' = On(bound[s]) \cup {Added(s)}
    BY <1>1, AddShifts
  <2>2. bound[s] \in Queues /\ bound' = bound
    BY <1>1, AddedIs DEF Add
  <2>3. PICK q \in Queues : q = bound[s] /\ q = bound'[s]
    BY <2>2
  <2>4. FiveAt(q)' /\ On(q)' = On(q) \cup {Added(s)} /\ OthersSame(q)
    BY <2>1, <2>3 DEF FiveAt, On
  <2>5. Comes(q, {Added(s)})
    BY <1>1, <2>3 DEF Comes
  <2> QED
    BY <2>4, <2>5
<1>2. ASSUME NEW q \in Queues, Isr(q) \/ Finish(q) \/ TimerDispatch(q) PROVE Shift
  <2>1. OthersSame(q) /\ FiveAt(q)' /\ On(q)' \subseteq On(q)
    BY <1>2, IsrShifts, FinishShifts, FreeShifts, TimerShifts DEF Finish
  <2> QED
    BY <2>1
<1>3. ASSUME WorkReset PROVE UNCHANGED <<pt, rt, ft, xl, gone>> \/ Shift
  <2>1. CASE Resets
    <3>1. PICK q : q = Least(todo)
      OBVIOUS
    <3>2. /\ q \in Queues /\ OthersSame(q) /\ FiveAt(q)' /\ On(q)' = On(q)
      BY <1>3, <2>1, <3>1, ResetShifts
    <3> QED
      BY <3>2
  <2> QED
    BY <1>3, <2>1, PassesOver
<1> HIDE DEF Shift
<1>4. UNCHANGED <<pt, rt, ft, xl, gone>> \/ Shift
  BY <1>1, <1>2, <1>3, ListSteps
<1> QED
  BY <1>4 DEF Shift

-----------------------------------------------------------------------------
(* The plan stays, tokens only grow, and a session keeps its queue. *)
LEMMA BoundStays ==
  ASSUME SessTypes, [Next]_vars
  PROVE  /\ plan' = plan
         /\ token' >= token /\ token' \in Nat
         /\ \A s \in Sessions : bound[s] # Nothing => bound'[s] = bound[s]
<1>1. ASSUME NEW s \in Sessions, Begin(s)
      PROVE  plan' = plan /\ token' = token + 1 /\ \A r \in Sessions : bound[r] # Nothing => bound'[r] = bound[r]
  BY <1>1, BindIs DEF Begin, SessTypes
<1>2. ASSUME NEW s \in Sessions, WaitBegin(s) \/ Goes(s) \/ Close(s) PROVE UNCHANGED <<plan, token, bound>>
  BY <1>2 DEF WaitBegin, Goes, Add, Publish, WaitLook, WaitReturn, Close, CloseBegin, CloseTaint,
              CloseEnd, sessVars, callVars
<1>3. ASSUME NEW q \in Queues, Isr(q) \/ FinishBegin(q) \/ TimerLate(q) PROVE UNCHANGED <<plan, token, bound>>
  BY <1>3 DEF Isr, FinishBegin, TimerLate, sessVars, callVars
<1>4. ASSUME WorkSpread
      PROVE  plan' = plan /\ token' = token /\ \A r \in Sessions : bound[r] # Nothing => bound'[r] = bound[r]
  BY <1>4 DEF WorkSpread, callVars
<1>5. ASSUME WorkMark \/ WorkReset PROVE UNCHANGED <<plan, token, bound>>
  BY <1>5 DEF WorkMark, WorkReset, callVars
<1>6. ASSUME UNCHANGED <<sessVars, callVars>> PROVE UNCHANGED <<plan, token, bound>>
  BY <1>6 DEF sessVars, callVars
<1> QED
  BY <1>1, <1>2, <1>3, <1>4, <1>5, <1>6, SessSteps DEF Call, SessTypes

(* A task on a queue has the type of a task. *)
LEMMA OnIsItem ==
  ASSUME ListTypes, NEW q \in Queues, NEW t \in On(q)
  PROVE  t \in Item /\ t.sess \in Sessions /\ t.tk \in Nat \ {0} /\ t.seq \in Nat
<1>1. /\ pt[q] \in Seq(Item) /\ rt[q] \in Seq(Item) /\ ft[q] \in Seq(Item) /\ xl[q] \in Seq(Item)
      /\ gone[q] \in Seq(Item)
  BY DEF ListTypes
<1>2. t \in Item
  BY <1>1, ElemsIn DEF On, AllOf
<1> QED
  BY <1>2 DEF Item

(* Every step keeps each task in one place, with a token of its own. *)
LEMMA PlacedStep ==
  ASSUME SessTypes, ListTypes, BoardTypes, Calls, Placed, Counted, Mirrored, [Next]_vars
  PROVE  Placed'
<1>0. /\ token' >= token /\ token' \in Nat /\ token \in Nat
      /\ \A q \in Queues, t \in Item : bound[t.sess] = q => bound'[t.sess] = q
  BY BoundStays, Sizes DEF SessTypes, Item
<1>1. CASE UNCHANGED <<pt, rt, ft, xl, gone>>
  <2>1. \A q \in Queues : On(q)' = On(q) /\ FiveAt(q)' = FiveAt(q)
    BY <1>1 DEF On, FiveAt
  <2> SUFFICES ASSUME NEW q \in Queues
               PROVE  /\ FiveAt(q)'
                      /\ \A t \in On(q)' : t.tk < token' /\ bound'[t.sess] = q
                      /\ \A r \in Queues \ {q} : \A t \in On(q)', x \in On(r)' : t.tk # x.tk
    BY DEF Placed, FiveAt
  <2>2. FiveAt(q)'
    BY <2>1 DEF Placed, FiveAt
  <2>3. ASSUME NEW t \in On(q) PROVE t.tk < token' /\ bound'[t.sess] = q
    <3>1. t \in Item /\ t.tk \in Nat /\ t.tk < token /\ bound[t.sess] = q
      BY <2>3, OnIsItem DEF Placed
    <3> QED
      BY <1>0, <3>1
  <2>4. \A r \in Queues \ {q} : \A t \in On(q), x \in On(r) : t.tk # x.tk
    BY DEF Placed
  <2> QED
    BY <2>1, <2>2, <2>3, <2>4
<1>2. ASSUME NEW p \in Queues, OthersSame(p), FiveAt(p)',
             \A t \in On(p)' :
               \/ t \in On(p)
               \/ /\ t \in Item /\ t.tk < token /\ bound[t.sess] = p
                  /\ \A r \in Queues : \A x \in On(r) : x.tk # t.tk
      PROVE  Placed'
  <2>1. \A q \in Queues \ {p} : On(q)' = On(q) /\ FiveAt(q)' = FiveAt(q)
    BY <1>2 DEF On, FiveAt, OthersSame
  <2> SUFFICES ASSUME NEW q \in Queues
               PROVE  /\ FiveAt(q)'
                      /\ \A t \in On(q)' : t.tk < token' /\ bound'[t.sess] = q
                      /\ \A r \in Queues \ {q} : \A t \in On(q)', x \in On(r)' : t.tk # x.tk
    BY DEF Placed, FiveAt
  <2>2. FiveAt(q)'
    BY <1>2, <2>1 DEF Placed, FiveAt
  <2>3. ASSUME NEW t \in On(q)' PROVE t.tk < token' /\ bound'[t.sess] = q
    <3>1. t \in Item /\ t.tk < token /\ bound[t.sess] = q
      BY <1>2, <2>1, <2>3, OnIsItem DEF Placed
    <3>2. t.tk \in Nat
      BY <3>1 DEF Item
    <3> QED
      BY <1>0, <3>1, <3>2
  <2>4. ASSUME NEW r \in Queues \ {q}, NEW t \in On(q)', NEW x \in On(r)' PROVE t.tk # x.tk
    <3>1. CASE q # p /\ r # p
      BY <2>1, <2>4, <3>1 DEF Placed
    <3>2. CASE q = p
      BY <1>2, <2>1, <2>4, <3>2 DEF Placed
    <3>3. CASE r = p
      BY <1>2, <2>1, <2>4, <3>3 DEF Placed
    <3> QED
      BY <3>1, <3>2, <3>3
  <2> QED
    BY <2>2, <2>3, <2>4
<1>3. ASSUME NEW p \in Queues, OthersSame(p), FiveAt(p)', On(p)' \subseteq On(p) PROVE Placed'
  BY <1>2, <1>3
<1>4. ASSUME NEW p \in Queues, OthersSame(p), FiveAt(p)', NEW S, Comes(p, S), On(p)' = On(p) \cup S
      PROVE  Placed'
  <2>1. PICK s \in Sessions : Add(s) /\ Accept(s) /\ p = bound[s] /\ S = {Added(s)}
    BY <1>4 DEF Comes
  <2>2. \A t \in S : /\ t \in Item /\ t.tk < token /\ bound[t.sess] = p
                     /\ \A r \in Queues : \A x \in On(r) : x.tk # t.tk
    BY <2>1, AddedIs
  <2> QED
    BY <1>2, <1>4, <2>2
<1> QED
  BY <1>1, <1>3, <1>4, ListsShift

(* What is on a queue after a step was on it or comes with an accepted call. *)
LEMMA OnComes ==
  ASSUME SessTypes, ListTypes, BoardTypes, Calls, Placed, Counted, Mirrored, [Next]_vars,
         NEW q \in Queues, NEW t \in On(q)'
  PROVE  \/ t \in On(q)
         \/ \E s \in Sessions : Add(s) /\ Accept(s) /\ q = bound[s] /\ t = Added(s)
<1>1. CASE UNCHANGED <<pt, rt, ft, xl, gone>>
  BY <1>1 DEF On
<1>2. ASSUME NEW p \in Queues, OthersSame(p),
             \/ On(p)' \subseteq On(p)
             \/ \E S : Comes(p, S) /\ On(p)' = On(p) \cup S
      PROVE  \/ t \in On(q)
             \/ \E s \in Sessions : Add(s) /\ Accept(s) /\ q = bound[s] /\ t = Added(s)
  <2>1. CASE q # p
    BY <1>2, <2>1 DEF On, OthersSame
  <2>2. CASE q = p
    BY <1>2, <2>2 DEF Comes
  <2> QED
    BY <2>1, <2>2
<1> QED
  BY <1>1, <1>2, ListsShift

(* Nobody but the thread of a session moves in its calls. *)
LEMMA OwnCalls ==
  ASSUME SessTypes, [Next]_vars, NEW s \in Sessions
  PROVE  Call(s) \/ Goes(s) \/ (pc'[s] = pc[s] /\ arg'[s] = arg[s])
<1>1. ASSUME NEW r \in Sessions, r # s, Call(r) \/ Goes(r) PROVE pc'[s] = pc[s] /\ arg'[s] = arg[s]
  <2>1. CASE Begin(r)
    BY <1>1, <2>1 DEF Begin, SessTypes
  <2>2. CASE WaitBegin(r)
    BY <1>1, <2>2 DEF WaitBegin, SessTypes
  <2>3. CASE Add(r)
    BY <1>1, <2>3 DEF Add, SessTypes
  <2>4. CASE Publish(r) \/ WaitLook(r) \/ WaitReturn(r)
    BY <1>1, <2>4 DEF Publish, WaitLook, WaitReturn, SessTypes
  <2> QED
    BY <1>1, <2>1, <2>2, <2>3, <2>4 DEF Call, Goes
<1>2. ASSUME NEW r \in Sessions, Close(r) PROVE UNCHANGED <<pc, arg>>
  BY <1>2 DEF Close, CloseBegin, CloseTaint, CloseEnd, callVars
<1>3. ASSUME NEW q \in Queues, Isr(q) \/ FinishBegin(q) \/ TimerLate(q) PROVE UNCHANGED <<pc, arg>>
  BY <1>3 DEF Isr, FinishBegin, TimerLate, callVars
<1>4. ASSUME WorkSpread \/ WorkMark \/ WorkReset PROVE UNCHANGED <<pc, arg>>
  BY <1>4 DEF WorkSpread, WorkMark, WorkReset, callVars
<1>5. ASSUME UNCHANGED <<sessVars, callVars>> PROVE UNCHANGED <<pc, arg>>
  BY <1>5 DEF callVars
<1> QED
  BY <1>1, <1>2, <1>3, <1>4, <1>5, SessSteps

(* A new call has a new task. *)
LEMMA BeginIs ==
  ASSUME SessTypes, BoardTypes, NEW s \in Sessions, Begin(s)
  PROVE  /\ arg'[s] \in Item /\ arg'[s].sess = s /\ arg'[s].tk = token /\ token' = token + 1
         /\ bound'[s] \in Queues /\ pc'[s] = "add"
         /\ UNCHANGED <<plan, pt, rt, ft, xl, gone, hw>>
<1>1. PICK call \in plan.calls[s] :
          /\ call[1] \in {"kernel", "rec", "wait"}
          /\ arg' = [arg EXCEPT ![s] =
                [tk |-> token, sess |-> s, kind |-> call[1],
                 ev  |-> IF call[1] = "rec" THEN call[2] ELSE Nothing,
                 q   |-> IF call[1] = "wait" THEN ev[call[2]].q ELSE Nothing,
                 seq |-> IF call[1] = "wait" THEN ev[call[2]].seq ELSE 0]]
  BY DEF Begin
<1>2. call \in CallType
  BY Sizes DEF SessTypes
<1>3. call[2] \in Events
  BY <1>2 DEF CallType
<1>4. ev[call[2]].q \in Queues \cup {Nothing} /\ ev[call[2]].seq \in Nat
  BY <1>3 DEF BoardTypes
<1>5. arg'[s] = [tk |-> token, sess |-> s, kind |-> call[1],
                 ev  |-> IF call[1] = "rec" THEN call[2] ELSE Nothing,
                 q   |-> IF call[1] = "wait" THEN ev[call[2]].q ELSE Nothing,
                 seq |-> IF call[1] = "wait" THEN ev[call[2]].seq ELSE 0]
  BY <1>1 DEF SessTypes
<1>6. arg'[s] \in Item /\ arg'[s].sess = s /\ arg'[s].tk = token
  BY <1>1, <1>3, <1>4, <1>5 DEF Item, SessTypes
<1>7. bound'[s] \in Queues
  BY BindIs DEF Begin, SessTypes
<1> QED
  BY <1>6, <1>7 DEF Begin, SessTypes, listVars, hwVars

(* Every step keeps what is known of the calls under way. *)
LEMMA CallsStep ==
  ASSUME SessTypes, ListTypes, BoardTypes, Calls, Placed, Counted, Mirrored, [Next]_vars
  PROVE  Calls'
<1>0. /\ token' >= token /\ token' \in Nat /\ token \in Nat
      /\ \A s \in Sessions : bound[s] \in Queues => bound'[s] = bound[s]
  BY BoundStays, Sizes DEF SessTypes
<1> SUFFICES ASSUME NEW s \in Sessions
    PROVE  /\ pc'[s] = "add" => /\ arg'[s] \in Item /\ arg'[s].sess = s /\ arg'[s].tk < token'
                                /\ bound'[s] \in Queues
                                /\ \A q \in Queues : \A x \in On(q)' : x.tk # arg'[s].tk
                                /\ \A r \in Sessions \ {s} : pc'[r] = "add" => arg'[r].tk # arg'[s].tk
           /\ pc'[s] = "publish" => arg'[s].kind = "rec" /\ bound'[s] \in Queues
           /\ pc'[s] \in {"publish", "look", "ok"} => arg'[s].ev \in Events
  BY DEF Calls
(* Where a task that is to be added comes from. *)
<1>1. ASSUME NEW r \in Sessions, pc'[r] = "add"
      PROVE  \/ Begin(r)
             \/ pc[r] = "add" /\ arg'[r] = arg[r] /\ ~Add(r)
  <2>1. CASE Call(r)
    BY <1>1, <2>1 DEF Call, WaitBegin, SessTypes
  <2>2. CASE Goes(r)
    BY <1>1, <2>2 DEF Goes, Add, Publish, WaitLook, WaitReturn, SessTypes
  <2>3. CASE pc'[r] = pc[r] /\ arg'[r] = arg[r]
    <3>1. ~Add(r)
      BY <1>1, <2>3 DEF Add, SessTypes
    <3> QED
      BY <1>1, <2>3, <3>1
  <2> QED
    BY <2>1, <2>2, <2>3, OwnCalls
<1>2. ASSUME pc'[s] = "add", Begin(s)
      PROVE  /\ arg'[s] \in Item /\ arg'[s].sess = s /\ arg'[s].tk < token'
             /\ bound'[s] \in Queues
             /\ \A q \in Queues : \A x \in On(q)' : x.tk # arg'[s].tk
             /\ \A r \in Sessions \ {s} : pc'[r] = "add" => arg'[r].tk # arg'[s].tk
  <2>1. /\ arg'[s] \in Item /\ arg'[s].sess = s /\ arg'[s].tk = token /\ token' = token + 1
        /\ bound'[s] \in Queues /\ UNCHANGED <<pt, rt, ft, xl, gone>>
    BY <1>2, BeginIs
  <2>2. \A q \in Queues : \A x \in On(q)' : x.tk # token
    <3>1. \A q \in Queues : On(q)' = On(q)
      BY <2>1 DEF On
    <3>2. ASSUME NEW q \in Queues, NEW x \in On(q) PROVE x.tk # token
      <4>1. x.tk < token /\ x.tk \in Nat
        BY OnIsItem DEF Placed
      <4> QED
        BY <1>0, <4>1
    <3> QED
      BY <3>1, <3>2
  <2>3. ASSUME NEW r \in Sessions \ {s}, pc'[r] = "add" PROVE arg'[r].tk # token
    <3>1. pc[r] = "add" /\ arg'[r] = arg[r]
      BY <1>2, <2>3 DEF Begin, SessTypes
    <3>2. arg[r].tk < token /\ arg[r].tk \in Nat
      BY <3>1 DEF Calls, Item
    <3> QED
      BY <1>0, <3>1, <3>2
  <2> QED
    BY <1>0, <2>1, <2>2, <2>3
<1>3. ASSUME pc'[s] = "add", pc[s] = "add", arg'[s] = arg[s], ~Add(s)
      PROVE  /\ arg'[s] \in Item /\ arg'[s].sess = s /\ arg'[s].tk < token'
             /\ bound'[s] \in Queues
             /\ \A q \in Queues : \A x \in On(q)' : x.tk # arg'[s].tk
             /\ \A r \in Sessions \ {s} : pc'[r] = "add" => arg'[r].tk # arg'[s].tk
  <2>1. /\ arg[s] \in Item /\ arg[s].sess = s /\ arg[s].tk < token /\ bound[s] \in Queues
        /\ \A q \in Queues : \A x \in On(q) : x.tk # arg[s].tk
        /\ \A r \in Sessions \ {s} : pc[r] = "add" => arg[r].tk # arg[s].tk
    BY <1>3 DEF Calls
  <2>2. arg[s].tk \in Nat
    BY <2>1 DEF Item
  <2>3. ASSUME NEW q \in Queues, NEW x \in On(q)' PROVE x.tk # arg[s].tk
    <3>1. ASSUME NEW r \in Sessions, Add(r), x = Added(r) PROVE x.tk # arg[s].tk
      <4>1. Added(r).tk = arg[r].tk /\ pc[r] = "add" /\ r # s
        BY <1>3, <3>1, AddedIs DEF Add
      <4> QED
        BY <2>1, <3>1, <4>1
    <3> QED
      BY <2>1, <2>3, <3>1, OnComes
  <2>4. ASSUME NEW r \in Sessions \ {s}, pc'[r] = "add" PROVE arg'[r].tk # arg[s].tk
    <3>1. CASE Begin(r)
      BY <1>0, <2>1, <2>2, <3>1, BeginIs
    <3>2. CASE pc[r] = "add" /\ arg'[r] = arg[r]
      BY <2>1, <3>2
    <3> QED
      BY <1>1, <2>4, <3>1, <3>2
  <2> QED
    BY <1>0, <1>3, <2>1, <2>2, <2>3, <2>4
<1>4. ASSUME pc'[s] = "publish" PROVE arg'[s].kind = "rec" /\ bound'[s] \in Queues /\ arg'[s].ev \in Events
  <2>1. CASE Add(s)
    <3>1. arg'[s].kind = "rec" /\ arg'[s].ev = arg[s].ev /\ arg[s].kind = "rec"
      <4>1. Accept(s) /\ arg[s].kind = "rec"
        BY <1>4, <2>1 DEF Add, SessTypes
      <4>2. arg'[s] = [arg[s] EXCEPT !.seq = RecordSeq(s, bound[s])]
        BY <2>1, <4>1 DEF Add, SessTypes
      <4>3. arg[s] \in Item
        BY <2>1 DEF Calls, Add
      <4> QED
        BY <4>1, <4>2, <4>3 DEF Item
    <3>2. arg[s] \in Item /\ bound[s] \in Queues
      BY <2>1 DEF Calls, Add
    <3> QED
      BY <1>0, <3>1, <3>2 DEF Item
  <2>2. CASE Call(s) \/ Publish(s) \/ WaitLook(s) \/ WaitReturn(s)
    BY <1>4, <2>2 DEF Call, Begin, WaitBegin, Publish, WaitLook, WaitReturn, SessTypes
  <2>3. CASE pc'[s] = pc[s] /\ arg'[s] = arg[s]
    BY <1>0, <1>4, <2>3 DEF Calls
  <2> QED
    BY <2>1, <2>2, <2>3, OwnCalls DEF Goes
<1>5. ASSUME pc'[s] \in {"look", "ok"} PROVE arg'[s].ev \in Events
  <2>1. CASE Add(s) \/ Publish(s) \/ WaitReturn(s) \/ Begin(s)
    BY <1>5, <2>1 DEF Begin, Add, Publish, WaitReturn, SessTypes
  <2>2. CASE WaitBegin(s)
    <3>1. PICK call \in plan.calls[s] :
            arg' = [arg EXCEPT ![s] = [NoTask EXCEPT !.ev = call[2], !.seq = ev[call[2]].rec]]
      BY <2>2 DEF WaitBegin
    <3>2. call \in CallType
      BY Sizes DEF SessTypes
    <3>3. call[2] \in Events
      BY <3>2 DEF CallType
    <3>4. arg'[s].ev = call[2]
      BY <3>1 DEF SessTypes, NoTask
    <3> QED
      BY <3>3, <3>4
  <2>3. CASE WaitLook(s)
    <3>1. pc[s] = "look" /\ arg'[s] = arg[s]
      BY <1>5, <2>3 DEF WaitLook, SessTypes
    <3> QED
      BY <3>1 DEF Calls
  <2>4. CASE pc'[s] = pc[s] /\ arg'[s] = arg[s]
    BY <1>5, <2>4 DEF Calls
  <2> QED
    BY <2>1, <2>2, <2>3, <2>4, OwnCalls DEF Call, Goes
<1> QED
  BY <1>1, <1>2, <1>3, <1>4, <1>5

-----------------------------------------------------------------------------
(* Counted *)

(* The steps that touch the counts of unfinished tasks. *)
LEMMA UnfinSteps ==
  ASSUME [Next]_vars
  PROVE  \/ \E s \in Sessions : Add(s) /\ Accept(s)
         \/ \E q \in Queues : Isr(q) \/ FinishBegin(q)
         \/ UNCHANGED unfin
<1>1. ASSUME NEW s \in Sessions, Call(s) \/ Publish(s) \/ WaitLook(s) \/ WaitReturn(s) \/ Close(s)
      PROVE  UNCHANGED unfin
  BY <1>1 DEF Call, Begin, WaitBegin, Publish, WaitLook, WaitReturn, Close, CloseBegin, CloseTaint,
              CloseEnd, sessVars
<1>2. ASSUME NEW s \in Sessions, Add(s), ~Accept(s) PROVE UNCHANGED unfin
  BY <1>2 DEF Add
<1>3. ASSUME NEW q \in Queues, TimerLate(q) PROVE UNCHANGED unfin
  BY <1>3 DEF TimerLate
<1>4. ASSUME WorkSpread \/ WorkMark \/ WorkReset PROVE UNCHANGED unfin
  BY <1>4 DEF WorkSpread, WorkMark, WorkReset
<1>5. ASSUME UNCHANGED <<sessVars, callVars>> PROVE UNCHANGED unfin
  BY <1>5 DEF sessVars
<1> QED
  BY <1>1, <1>2, <1>3, <1>4, <1>5, SessSteps DEF Goes

(* A session's unfinished tasks when those of one queue change.            *)
LEMMA UnfinishedSame ==
  ASSUME NEW q \in Queues, OthersSame(q), Left(q)' = Left(q), NEW s
  PROVE  Unfinished(s)' = Unfinished(s)
<1>1. \A p \in Queues : Left(p)' = Left(p)
  BY DEF OthersSame, Left
<1> QED
  BY <1>1 DEF Unfinished, Left

(* A task that comes is one more unfinished task of its session. *)
LEMMA UnfinishedMore ==
  ASSUME NEW q \in Queues, OthersSame(q), NEW t, Left(q)' = Left(q) \cup {t}, NEW s
  PROVE  Unfinished(s)' = IF t.sess = s THEN Unfinished(s) \cup {t} ELSE Unfinished(s)
<1>1. \A p \in Queues : Left(p)' = IF p = q THEN Left(p) \cup {t} ELSE Left(p)
  BY DEF OthersSame, Left
<1>2. Unfinished(s)' = {x \in UNION {Left(p)' : p \in Queues} : x.sess = s}
  BY DEF Unfinished, Left
<1>3. Unfinished(s) = {x \in UNION {Left(p) : p \in Queues} : x.sess = s}
  BY DEF Unfinished, Left
<1> QED
  BY <1>1, <1>2, <1>3

(* Tasks that end leave the unfinished ones of their sessions. *)
LEMMA UnfinishedLess ==
  ASSUME Placed, NEW q \in Queues, OthersSame(q), NEW E \in SUBSET Left(q), Left(q)' = Left(q) \ E, NEW s
  PROVE  /\ Unfinished(s)' = Unfinished(s) \ {t \in E : t.sess = s}
         /\ {t \in E : t.sess = s} \subseteq Unfinished(s)
<1>1. \A p \in Queues : Left(p)' = IF p = q THEN Left(p) \ E ELSE Left(p)
  BY DEF OthersSame, Left
<1>2. Unfinished(s)' = {x \in UNION {Left(p)' : p \in Queues} : x.sess = s}
  BY DEF Unfinished, Left
<1>3. Unfinished(s) = {x \in UNION {Left(p) : p \in Queues} : x.sess = s}
  BY DEF Unfinished, Left
<1>4. \A p \in Queues \ {q} : \A t \in E : t \notin Left(p)
  <2>1. \A p \in Queues : Left(p) \subseteq On(p)
    BY DEF Left, On, Unended, AllOf
  <2> QED
    BY <2>1 DEF Placed
<1> QED
  BY <1>1, <1>2, <1>3, <1>4

(* Every step keeps the count of running tasks exact and within the depth. *)
LEMMA RunningStep ==
  ASSUME SessTypes, ListTypes, BoardTypes, Calls, Counted, Mirrored, [Next]_vars
  PROVE  \A q \in Queues : running'[q] = Len(rt'[q]) /\ running'[q] <= Depth
<1> DEFINE Goal == \A q \in Queues : running'[q] = Len(rt'[q]) /\ running'[q] <= Depth
<1>1. ASSUME NEW q \in Queues, NEW p, NEW r \in Seq(Item), NEW h, NEW out \in Seq(Item), NEW rest,
             Sent(q, p, r, Len(r), h, out, rest)
      PROVE  Goal
  <2>1. Len(r \o out) = Len(r) + Len(out) /\ Len(r) + Len(out) <= Depth
    BY <1>1, ConcatProperties DEF Sent
  <2>2. rt' = [rt EXCEPT ![q] = r \o out] /\ running' = [running EXCEPT ![q] = Len(r) + Len(out)]
    BY <1>1 DEF Sent
  <2>3. rt'[q] = r \o out /\ running'[q] = Len(r) + Len(out)
    BY <2>2 DEF ListTypes
  <2>4. \A x \in Queues \ {q} : rt'[x] = rt[x] /\ running'[x] = running[x]
    BY <2>2 DEF ListTypes
  <2> QED
    BY <2>1, <2>3, <2>4 DEF Counted
<1>2. ASSUME NEW s \in Sessions, Add(s), Accept(s) PROVE Goal
  <2>1. PICK q \in Queues : q = bound[s]
    BY <1>2, AddedIs
  <2>2. rt[q] \in Seq(Item)
    BY DEF ListTypes
  <2>3. \E out \in Seq(Item), rest \in Seq(Item) :
              Sent(q, pt[q] \o <<Added(s)>>, rt[q], Len(rt[q]), hw[q], out, rest)
    BY <1>2, <2>1, AddMoves
  <2> HIDE DEF Goal
  <2> QED
    BY <1>1, <2>2, <2>3
<1>3. ASSUME NEW q \in Queues, TimerDispatch(q) PROVE Goal
  <2>1. rt[q] \in Seq(Item)
    BY DEF ListTypes
  <2> HIDE DEF Goal
  <2> QED
    BY <1>1, <1>3, <2>1, TimerMoves
<1>4. ASSUME NEW q \in Queues, Isr(q) PROVE Goal
  <2> HIDE DEF Goal
  <2> QED
    BY <1>1, <1>4, IsrMoves
<1>5. ASSUME WorkReset, Resets PROVE Goal
  <2> DEFINE q == Least(todo)
             r == Kept(Only(rt[q] \o pt[q], BadTasks(q)), rt[q])
             p == Kept(Only(rt[q] \o pt[q], BadTasks(q)), pt[q])
  <2>1. q \in Queues /\ r \in Seq(Item)
        /\ \E out \in Seq(Item), rest \in Seq(Item) : Sent(q, p, r, Len(r), r, out, rest)
    BY <1>5, ResetMoves
  <2> HIDE DEF Goal, q, r, p
  <2> QED
    BY <1>1, <2>1
<1>6. ASSUME UNCHANGED <<rt, running>> PROVE Goal
  BY <1>6 DEF Counted
<1>7. ASSUME NEW q \in Queues, Finish(q) PROVE UNCHANGED <<rt, running>>
  BY <1>7 DEF Finish, FinishBegin, FinishTask
<1> HIDE DEF Goal
<1>8. Goal
  BY <1>2, <1>3, <1>4, <1>5, <1>6, <1>7, ListSteps, PassesOver
<1> QED
  BY <1>8 DEF Goal

(* Every step keeps the counts of unfinished tasks exact. *)
LEMMA UnfinStep ==
  ASSUME SessTypes, ListTypes, BoardTypes, Calls, Placed, Counted, Mirrored, [Next]_vars
  PROVE  \A s \in Sessions : IsFiniteSet(Unfinished(s)') /\ unfin'[s] = Cardinality(Unfinished(s)')
<1> SUFFICES ASSUME NEW s \in Sessions
             PROVE  IsFiniteSet(Unfinished(s)') /\ unfin'[s] = Cardinality(Unfinished(s)')
  OBVIOUS
<1>0. IsFiniteSet(Unfinished(s)) /\ unfin[s] = Cardinality(Unfinished(s))
  BY DEF Counted
<1>1. ASSUME NEW r \in Sessions, Add(r), Accept(r)
      PROVE  IsFiniteSet(Unfinished(s)') /\ unfin'[s] = Cardinality(Unfinished(s)')
  <2>1. PICK q \in Queues : q = bound[r] /\ bound' = bound
    BY <1>1, AddedIs DEF Add
  <2>2. OthersSame(q) /\ Left(q)' = Left(q) \cup {Added(r)}
    <3>1. OthersSame(bound[r]) /\ Left(bound[r])' = Left(bound[r]) \cup {Added(r)}
      BY <1>1, AddShifts
    <3> QED
      BY <2>1, <3>1 DEF Left
  <2>3. Added(r).sess = r /\ \A p \in Queues : \A x \in On(p) : x.tk # Added(r).tk
    BY <1>1, AddedIs
  <2>4. Unfinished(s)' = IF r = s THEN Unfinished(s) \cup {Added(r)} ELSE Unfinished(s)
    BY <2>2, <2>3, UnfinishedMore
  <2>5. unfin'[s] = IF r = s THEN unfin[s] + 1 ELSE unfin[s]
    BY <1>1 DEF Add, SessTypes
  <2>6. Added(r) \notin Unfinished(s)
    BY <2>3 DEF Unfinished, Unended, On, AllOf
  <2> QED
    BY <1>0, <2>4, <2>5, <2>6, FS_AddElement
<1>2. ASSUME NEW q \in Queues, OthersSame(q), NEW over \in Seq(Item), Apart(over),
             Elems(over) \subseteq Left(q), Left(q)' = Left(q) \ Elems(over),
             unfin' = [x \in Sessions |-> unfin[x] - OfSession(x, over)]
      PROVE  IsFiniteSet(Unfinished(s)') /\ unfin'[s] = Cardinality(Unfinished(s)')
  <2> DEFINE mine == {t \in Elems(over) : t.sess = s}
  <2>1. OfSession(s, over) = Cardinality(mine) /\ IsFiniteSet(mine)
    BY <1>2, OfSessionIs
  <2>2. Unfinished(s)' = Unfinished(s) \ mine /\ mine \subseteq Unfinished(s)
    BY <1>2, UnfinishedLess
  <2>3. unfin'[s] = unfin[s] - Cardinality(mine)
    BY <1>2, <2>1
  <2> HIDE DEF mine
  <2>4. mine \cap Unfinished(s) = mine /\ Unfinished(s) \cap mine = mine
    BY <2>2
  <2>5. /\ IsFiniteSet(Unfinished(s) \ mine)
        /\ Cardinality(Unfinished(s) \ mine) = Cardinality(Unfinished(s)) - Cardinality(Unfinished(s) \cap mine)
    BY <1>0, <2>1, FS_Difference
  <2> QED
    BY <1>0, <2>2, <2>3, <2>4, <2>5
<1>3. ASSUME NEW q \in Queues, Isr(q)
      PROVE  IsFiniteSet(Unfinished(s)') /\ unfin'[s] = Cardinality(Unfinished(s)')
  BY <1>2, <1>3, IsrShifts
<1>4. ASSUME NEW q \in Queues, FinishBegin(q)
      PROVE  IsFiniteSet(Unfinished(s)') /\ unfin'[s] = Cardinality(Unfinished(s)')
  <2>1. xl[q] \in Seq(Item)
    BY DEF ListTypes
  <2> QED
    BY <1>2, <1>4, <2>1, FinishShifts
<1>5. ASSUME NEW q \in Queues, OthersSame(q), Left(q)' = Left(q), UNCHANGED unfin
      PROVE  IsFiniteSet(Unfinished(s)') /\ unfin'[s] = Cardinality(Unfinished(s)')
  BY <1>0, <1>5, UnfinishedSame
<1>6. ASSUME UNCHANGED <<pt, rt, ft, xl, gone>>, UNCHANGED unfin
      PROVE  IsFiniteSet(Unfinished(s)') /\ unfin'[s] = Cardinality(Unfinished(s)')
  <2>1. Unfinished(s)' = Unfinished(s)
    BY <1>6 DEF Unfinished
  <2> QED
    BY <1>0, <1>6, <2>1
<1>7. ASSUME UNCHANGED unfin
      PROVE  \/ \E r \in Sessions : Add(r) /\ Accept(r)
             \/ \E q \in Queues : Isr(q) \/ FinishBegin(q)
             \/ \E q \in Queues : OthersSame(q) /\ Left(q)' = Left(q)
             \/ UNCHANGED <<pt, rt, ft, xl, gone>>
  <2>1. ASSUME NEW q \in Queues, TimerDispatch(q) \/ FinishTask(q) PROVE OthersSame(q) /\ Left(q)' = Left(q)
    BY <2>1, TimerShifts, FreeShifts
  <2>2. ASSUME WorkReset PROVE \/ \E q \in Queues : OthersSame(q) /\ Left(q)' = Left(q)
                               \/ UNCHANGED <<pt, rt, ft, xl, gone>>
    <3>1. CASE Resets
      <4>1. PICK q : q = Least(todo)
        OBVIOUS
      <4>2. q \in Queues /\ OthersSame(q) /\ Left(q)' = Left(q)
        BY <2>2, <3>1, <4>1, ResetShifts
      <4> QED
        BY <4>2
    <3> QED
      BY <2>2, <3>1, PassesOver
  <2> QED
    BY <2>1, <2>2, ListSteps DEF Finish
<1> QED
  BY <1>1, <1>3, <1>4, <1>5, <1>6, <1>7, UnfinSteps

(* Every step keeps all counts exact. *)
LEMMA CountedStep ==
  ASSUME SessTypes, ListTypes, BoardTypes, Calls, Placed, Counted, Mirrored, [Next]_vars
  PROVE  Counted'
BY RunningStep, UnfinStep DEF Counted

(* What the hardware still has is on rt. *)
LEMMA HwOn ==
  ASSUME ListTypes, Mirrored, NEW q \in Queues
  PROVE  Elems(hw[q]) \subseteq Elems(rt[q]) /\ Elems(rt[q]) \subseteq On(q) /\ Elems(pt[q]) \subseteq On(q)
<1>1. PICK done \in Seq(Item) : rt[q] = done \o hw[q]
  BY DEF Mirrored, Behind
<1>2. hw[q] \in Seq(Item)
  BY DEF ListTypes
<1>3. Elems(done \o hw[q]) = Elems(done) \cup Elems(hw[q])
  BY <1>2, ElemsConcat
<1> QED
  BY <1>1, <1>3 DEF On, AllOf

(* The head of a list is one of its elements. *)
LEMMA HeadIs ==
  ASSUME ListTypes, NEW q \in Queues
  PROVE  /\ hw[q] # <<>> => Head(hw[q]) \in Item /\ Head(hw[q]) \in Elems(hw[q])
         /\ rt[q] # <<>> => Head(rt[q]) \in Item /\ Head(rt[q]) \in Elems(rt[q])
<1>1. hw[q] \in Seq(Item) /\ rt[q] \in Seq(Item)
  BY DEF ListTypes
<1>2. hw[q] # <<>> => Head(hw[q]) \in Item /\ Elems(hw[q]) = {Head(hw[q])} \cup Elems(Tail(hw[q]))
  BY <1>1, Behead
<1>3. rt[q] # <<>> => Head(rt[q]) \in Item /\ Elems(rt[q]) = {Head(rt[q])} \cup Elems(Tail(rt[q]))
  BY <1>1, Behead
<1> QED
  BY <1>2, <1>3

(* Joining something behind a list keeps its head. *)
LEMMA HeadStays ==
  ASSUME NEW S, NEW a \in Seq(S), NEW b \in Seq(S), a # <<>>
  PROVE  a \o b # <<>> /\ Head(a \o b) = Head(a)
<1>1. Head(a) = a[1] /\ Len(a) \in Nat \ {0}
  BY Behead
<1>2. /\ a \o b \in Seq(S) /\ Len(a \o b) = Len(a) + Len(b) /\ Len(b) \in Nat
      /\ \A i \in 1 .. Len(a) + Len(b) : (a \o b)[i] = IF i <= Len(a) THEN a[i] ELSE b[i - Len(a)]
  BY ConcatProperties, LenProperties
<1>3. (a \o b)[1] = a[1] /\ Len(a \o b) # 0
  BY <1>1, <1>2
<1>4. a \o b # <<>>
  BY <1>2, <1>3, EmptySeq
<1>5. Head(a \o b) = (a \o b)[1]
  BY <1>2, <1>4, Behead
<1> QED
  BY <1>1, <1>3, <1>4, <1>5

(* Three lists may be joined in either order. *)
Joins(a, b, c) == (a \o b) \o c = a \o (b \o c)

(* They always may. *)
LEMMA JoinsAll ==
  ASSUME NEW S, NEW a \in Seq(S), NEW b \in Seq(S), NEW c \in Seq(S)
  PROVE  Joins(a, b, c)
BY ConcatAssociative DEF Joins

(* The same first part leaves the same rest. *)
Splits(w, a, b) == w = a \o b

(* Of two ways to split a list, the longer first part extends the shorter. *)
LEMMA SameRest ==
  ASSUME NEW S, NEW a \in Seq(S), NEW b \in Seq(S), NEW c \in Seq(S), NEW d \in Seq(S),
         NEW w, Splits(w, a, b), Splits(w, c, d), Len(c) <= Len(a)
  PROVE  \E e \in Seq(S) : Splits(a, c, e) /\ Splits(d, e, b) /\ Len(e) = Len(a) - Len(c)
<1> DEFINE k == Len(c)
           a1 == SubSeq(a, 1, k)
           e == SubSeq(a, k + 1, Len(a))
<1>1. Len(a) \in Nat /\ Len(b) \in Nat /\ Len(c) \in Nat /\ Len(d) \in Nat /\ k \in 0 .. Len(a)
  BY LenProperties
<1>2. /\ a1 \in Seq(S) /\ e \in Seq(S) /\ Len(a1) = k /\ Len(e) = Len(a) - k
      /\ \A i \in 1 .. k : a1[i] = a[i]
      /\ a = a1 \o e
  <2>1. Parted(S, a, k, a1, e)
    BY <1>1, PartedIs, Zenon
  <2> HIDE DEF a1, e, k
  <2> QED
    BY <2>1 DEF Parted
<1>3. /\ Len(a \o b) = Len(a) + Len(b) /\ Len(c \o d) = Len(c) + Len(d)
      /\ \A i \in 1 .. Len(a) + Len(b) : (a \o b)[i] = IF i <= Len(a) THEN a[i] ELSE b[i - Len(a)]
      /\ \A i \in 1 .. Len(c) + Len(d) : (c \o d)[i] = IF i <= Len(c) THEN c[i] ELSE d[i - Len(c)]
  BY ConcatProperties
<1> HIDE DEF a1, e
<1>4. \A i \in 1 .. k : c[i] = a[i]
  BY <1>1, <1>3 DEF Splits
<1>5. a1 = c
  <2>1. \A i \in 1 .. Len(a1) : a1[i] = c[i]
    BY <1>2, <1>4
  <2> QED
    BY <1>2, <2>1, SeqEqual
<1>6. e \o b \in Seq(S) /\ Len(e \o b) = Len(e) + Len(b)
      /\ \A i \in 1 .. Len(e) + Len(b) : (e \o b)[i] = IF i <= Len(e) THEN e[i] ELSE b[i - Len(e)]
  <2>1. e \in Seq(S)
    BY <1>2
  <2> QED
    BY <2>1, ConcatProperties
<1>7. c \o (e \o b) = c \o d
  <2>1. e \in Seq(S)
    BY <1>2
  <2>2. (c \o e) \o b = c \o (e \o b)
    <3>1. Joins(c, e, b)
      BY <2>1, JoinsAll
    <3> QED
      BY <3>1 DEF Joins
  <2> QED
    BY <1>2, <1>5, <2>2 DEF Splits
<1>8. Len(c \o (e \o b)) = Len(c) + Len(e \o b)
      /\ \A i \in 1 .. Len(c) + Len(e \o b) :
            (c \o (e \o b))[i] = IF i <= Len(c) THEN c[i] ELSE (e \o b)[i - Len(c)]
  BY <1>6, ConcatProperties
<1>9. Len(e \o b) = Len(d) /\ Len(e \o b) \in Nat
  <2>1. Len(e \o b) \in Nat
    BY <1>6, LenProperties
  <2>2. Len(c) + Len(e \o b) = Len(c) + Len(d)
    BY <1>3, <1>7, <1>8
  <2> QED
    BY <1>1, <2>1, <2>2
<1>10. \A i \in 1 .. Len(d) : (e \o b)[i] = d[i]
  <2> SUFFICES ASSUME NEW i \in 1 .. Len(d) PROVE (e \o b)[i] = d[i]
    OBVIOUS
  <2>1. PICK j \in Int : j = i + Len(c)
    BY <1>1
  <2>2. j \in 1 .. Len(c) + Len(d) /\ ~(j <= Len(c)) /\ j - Len(c) = i
    BY <1>1, <2>1
  <2>3. (c \o (e \o b))[j] = (e \o b)[i] /\ (c \o d)[j] = d[i]
    BY <1>3, <1>8, <1>9, <2>2
  <2> QED
    BY <1>7, <2>3
<1>11. e \o b = d
  BY <1>6, <1>9, <1>10, SeqEqual
<1> QED
  BY <1>2, <1>5, <1>11 DEF Splits

-----------------------------------------------------------------------------
(* Mirrored *)

(* The parts of Mirrored: the run list, *)
BehindAt(q) == \E done \in Seq(Item) : Behind(q, done)

(* Only a dispatch, a completion and a reset move what is behind.          *)
LEMMA DoneSteps ==
  ASSUME ListTypes, BoardTypes, Mirrored, [Next]_vars
  PROVE  \/ \E s \in Sessions : Add(s) /\ Accept(s)
         \/ \E q \in Queues : Pops(q) \/ Isr(q) \/ TimerDispatch(q)
         \/ WorkReset /\ Resets
         \/ /\ UNCHANGED <<rt, hw>>
            /\ \A q \in Queues : intr'[q] + isr'[q] = intr[q] + isr[q]
<1> DEFINE Same == /\ UNCHANGED <<rt, hw>>
                   /\ \A q \in Queues : intr'[q] + isr'[q] = intr[q] + isr[q]
<1>1. ASSUME NEW s \in Sessions, Call(s) \/ Publish(s) \/ WaitLook(s) \/ WaitReturn(s) \/ Close(s)
      PROVE  Same
  BY <1>1 DEF Call, Begin, WaitBegin, Publish, WaitLook, WaitReturn, Close, CloseBegin, CloseTaint,
              CloseEnd, listVars, hwVars
<1>2. ASSUME NEW s \in Sessions, Add(s), ~Accept(s) PROVE Same
  BY <1>2 DEF Add
<1>3. ASSUME NEW q \in Queues, HwStart(q) \/ HwFails(q) \/ FaultIrq(q) \/ TimerLate(q) \/ Finish(q)
      PROVE  Same
  BY <1>3 DEF HwStart, HwFails, HwKeeps, FaultIrq, TimerLate, listVars, hwVars, Finish,
              FinishBegin, FinishTask
<1>4. ASSUME TimerTaint \/ WorkBegin \/ WorkUnits \/ WorkDrained \/ WorkGivesUp \/ WorkSync
             \/ WorkSpread \/ WorkMark \/ WorkClear \/ WorkEnd
      PROVE  Same
  BY <1>4 DEF TimerTaint, WorkBegin, WorkUnits, WorkDrained, WorkGivesUp, WorkSync, WorkSpread,
              WorkMark, WorkClear, WorkEnd, listVars, hwVars
<1>5. ASSUME UNCHANGED vars PROVE Same
  BY <1>5 DEF vars, listVars, hwVars
<1>6. ASSUME NEW q \in Queues, IsrRead(q) PROVE Same
  BY <1>6 DEF IsrRead, listVars, BoardTypes
<1>7. ASSUME WorkReset, ~Resets PROVE Same
  BY <1>7 DEF WorkReset, Resets
<1> HIDE DEF Same
<1>8. \/ \E s \in Sessions : Add(s) /\ Accept(s)
      \/ \E q \in Queues : Pops(q) \/ Isr(q) \/ TimerDispatch(q)
      \/ WorkReset /\ Resets
      \/ Same
  BY <1>1, <1>2, <1>3, <1>4, <1>5, <1>6, <1>7 DEF Next, Goes, WorkStep, Hw, Pops
<1> QED
  BY <1>8 DEF Same

(* Sending to the unit keeps the run list as what is done followed by what the unit has. *)
LEMMA SendsBehind ==
  ASSUME ListTypes, NEW q \in Queues, NEW p, NEW r \in Seq(Item), NEW n, NEW h \in Seq(Item),
         NEW out \in Seq(Item), NEW rest, Sent(q, p, r, n, h, out, rest),
         NEW done \in Seq(Item), Splits(r, done, h), Len(done) = intr'[q] + isr'[q],
         \A x \in Queues \ {q} : BehindAt(x) /\ intr'[x] + isr'[x] = intr[x] + isr[x]
  PROVE  \A x \in Queues : BehindAt(x)'
<1>1. rt' = [rt EXCEPT ![q] = r \o out] /\ hw' = [hw EXCEPT ![q] = h \o out]
  BY DEF Sent
<1>2. rt'[q] = r \o out /\ hw'[q] = h \o out
  BY <1>1 DEF ListTypes
<1>3. (done \o h) \o out = done \o (h \o out)
  <2>1. Joins(done, h, out)
    BY JoinsAll
  <2> QED
    BY <2>1 DEF Joins
<1>4. BehindAt(q)'
  <2>1. rt'[q] = done \o hw'[q]
    BY <1>2, <1>3 DEF Splits
  <2> QED
    BY <2>1 DEF BehindAt, Behind
<1>5. ASSUME NEW x \in Queues \ {q} PROVE BehindAt(x)'
  <2>1. rt'[x] = rt[x] /\ hw'[x] = hw[x]
    BY <1>1 DEF ListTypes
  <2> QED
    BY <2>1 DEF BehindAt, Behind
<1> QED
  BY <1>4, <1>5

(* Every step keeps the run list as what is done followed by what the unit has. *)
LEMMA BehindStep ==
  ASSUME SessTypes, ListTypes, BoardTypes, Calls, Counted, Mirrored, Working, [Next]_vars
  PROVE  \A q \in Queues : BehindAt(q)'
<1>0. \A q \in Queues : /\ BehindAt(q) /\ rt[q] \in Seq(Item) /\ hw[q] \in Seq(Item)
                        /\ intr[q] \in Nat /\ isr[q] \in Nat
  BY DEF Mirrored, BehindAt, ListTypes, BoardTypes
<1>1. ASSUME NEW s \in Sessions, Add(s), Accept(s) PROVE \A q \in Queues : BehindAt(q)'
  <2>1. PICK q \in Queues : q = bound[s]
    BY <1>1, AddedIs
  <2>2. PICK done \in Seq(Item) : Behind(q, done)
    BY <1>0 DEF BehindAt
  <2>3. UNCHANGED <<intr, isr>>
    BY <1>1 DEF Add
  <2>4. PICK out \in Seq(Item), rest \in Seq(Item) :
              Sent(q, pt[q] \o <<Added(s)>>, rt[q], Len(rt[q]), hw[q], out, rest)
    BY <1>1, <2>1, AddMoves
  <2> QED
    BY <1>0, <2>2, <2>3, <2>4, SendsBehind DEF Behind, Splits
<1>2. ASSUME NEW q \in Queues, TimerDispatch(q) PROVE \A x \in Queues : BehindAt(x)'
  <2>1. PICK done \in Seq(Item) : Behind(q, done)
    BY <1>0 DEF BehindAt
  <2>2. UNCHANGED <<intr, isr>>
    BY <1>2 DEF TimerDispatch
  <2>3. PICK out \in Seq(Item), rest \in Seq(Item) : Sent(q, pt[q], rt[q], Len(rt[q]), hw[q], out, rest)
    BY <1>2, TimerMoves
  <2> QED
    BY <1>0, <2>1, <2>2, <2>3, SendsBehind DEF Behind, Splits
<1>3. ASSUME NEW q \in Queues, Isr(q) PROVE \A x \in Queues : BehindAt(x)'
  <2>1. PICK done \in Seq(Item) : Behind(q, done)
    BY <1>0 DEF BehindAt
  <2>2. intr' = intr /\ isr' = [isr EXCEPT ![q] = 0]
    BY <1>3 DEF Isr
  <2>3. PICK over \in Seq(Item), left \in Seq(Item), out \in Seq(Item), rest \in Seq(Item) :
           /\ rt[q] = over \o left /\ Len(over) = isr[q]
           /\ Sent(q, pt[q], left, Len(left), hw[q], out, rest)
    BY <1>3, IsrMoves
  <2>4. Len(over) <= Len(done)
    BY <1>0, <2>1, <2>3 DEF Behind
  <2>5. done \o hw[q] = over \o left
    BY <2>1, <2>3 DEF Behind
  <2>6. PICK e \in Seq(Item) : Splits(left, e, hw[q]) /\ Len(e) = Len(done) - Len(over)
    <3>1. hw[q] \in Seq(Item)
      BY <1>0
    <3>2. Splits(rt[q], done, hw[q]) /\ Splits(rt[q], over, left)
      BY <2>1, <2>3 DEF Behind, Splits
    <3>3. \E e \in Seq(Item) : Splits(done, over, e) /\ Splits(left, e, hw[q]) /\ Len(e) = Len(done) - Len(over)
      BY <2>4, <3>1, <3>2, SameRest
    <3> QED
      BY <3>3
  <2>7. Len(e) = intr'[q] + isr'[q]
    <3>1. isr'[q] = 0 /\ intr'[q] = intr[q]
      BY <2>2 DEF BoardTypes
    <3> QED
      BY <1>0, <2>1, <2>3, <2>6, <3>1 DEF Behind
  <2>8. \A x \in Queues \ {q} : BehindAt(x) /\ intr'[x] + isr'[x] = intr[x] + isr[x]
    BY <1>0, <2>2 DEF BoardTypes
  <2> QED
    BY <1>0, <2>3, <2>6, <2>7, <2>8, SendsBehind
<1>4. ASSUME NEW q \in Queues, Pops(q) PROVE \A x \in Queues : BehindAt(x)'
  <2>1. /\ hw[q] # <<>> /\ Tail(hw[q]) \in Seq(Item) /\ hw[q] = <<Head(hw[q])>> \o Tail(hw[q])
        /\ Head(hw[q]) \in Item
        /\ hw' = [hw EXCEPT ![q] = Tail(hw[q])] /\ intr' = [intr EXCEPT ![q] = intr[q] + 1]
        /\ UNCHANGED <<rt, isr>>
    BY <1>4, PopIs DEF listVars
  <2>2. PICK done \in Seq(Item) : Behind(q, done)
    BY <1>0 DEF BehindAt
  <2>3. <<Head(hw[q])>> \in Seq(Item) /\ Len(<<Head(hw[q])>>) = 1
    BY <2>1, One
  <2>4. (done \o <<Head(hw[q])>>) \o Tail(hw[q]) = done \o (<<Head(hw[q])>> \o Tail(hw[q]))
    <3> DEFINE h == <<Head(hw[q])>>
               u == Tail(hw[q])
    <3>1. h \in Seq(Item) /\ u \in Seq(Item)
      BY <2>1, <2>3
    <3> HIDE DEF h, u
    <3>2. Joins(done, h, u)
      BY <3>1, JoinsAll
    <3> QED
      BY <3>2 DEF h, u, Joins
  <2>5. done \o <<Head(hw[q])>> \in Seq(Item) /\ Len(done \o <<Head(hw[q])>>) = Len(done) + 1
    BY <2>3, ConcatProperties
  <2>6. hw'[q] = Tail(hw[q]) /\ intr'[q] + isr'[q] = intr[q] + isr[q] + 1
    BY <1>0, <2>1 DEF ListTypes, BoardTypes
  <2>7. rt'[q] = (done \o <<Head(hw[q])>>) \o hw'[q]
    BY <2>1, <2>2, <2>4, <2>6 DEF Behind
  <2>8. BehindAt(q)'
    <3>1. Len(done \o <<Head(hw[q])>>) = intr'[q] + isr'[q]
      BY <2>2, <2>5, <2>6 DEF Behind
    <3> QED
      BY <2>5, <2>7, <3>1 DEF BehindAt, Behind
  <2>9. ASSUME NEW x \in Queues \ {q} PROVE BehindAt(x)'
    <3>1. rt'[x] = rt[x] /\ hw'[x] = hw[x] /\ intr'[x] = intr[x] /\ isr'[x] = isr[x]
      BY <2>1 DEF ListTypes, BoardTypes
    <3> QED
      BY <1>0, <3>1 DEF BehindAt, Behind
  <2> QED
    BY <2>8, <2>9
<1>5. ASSUME WorkReset, Resets PROVE \A x \in Queues : BehindAt(x)'
  <2> DEFINE q == Least(todo)
             r == Kept(Only(rt[q] \o pt[q], BadTasks(q)), rt[q])
             p == Kept(Only(rt[q] \o pt[q], BadTasks(q)), pt[q])
  <2>1. q \in Queues /\ r \in Seq(Item)
        /\ \E out \in Seq(Item), rest \in Seq(Item) : Sent(q, p, r, Len(r), r, out, rest)
    BY <1>5, ResetMoves
  <2>2. UNCHANGED <<intr, isr>>
    BY <1>5 DEF WorkReset
  <2>3. \A x \in Queues : intr[x] = 0 /\ isr[x] = 0
    BY <1>5 DEF Resets, Working, Handled
  <2>4. <<>> \in Seq(Item) /\ Len(<<>>) = 0 /\ r = <<>> \o r
    BY <2>1, ConcatEmptySeq, EmptySeq
  <2> HIDE DEF q, r, p
  <2>5. PICK out \in Seq(Item), rest \in Seq(Item) : Sent(q, p, r, Len(r), r, out, rest)
    BY <2>1
  <2>8. PICK done \in Seq(Item) : Splits(r, done, r) /\ Len(done) = 0
    BY <2>4 DEF Splits
  <2>6. Len(done) = intr'[q] + isr'[q]
    BY <2>1, <2>2, <2>3, <2>8
  <2>7. \A x \in Queues \ {q} : BehindAt(x) /\ intr'[x] + isr'[x] = intr[x] + isr[x]
    BY <1>0, <2>2
  <2> QED
    BY <2>1, <2>5, <2>6, <2>7, <2>8, SendsBehind
<1>6. ASSUME UNCHANGED <<rt, hw>>, \A q \in Queues : intr'[q] + isr'[q] = intr[q] + isr[q]
      PROVE  \A x \in Queues : BehindAt(x)'
  BY <1>0, <1>6 DEF BehindAt, Behind
<1> QED
  BY <1>1, <1>2, <1>3, <1>4, <1>5, <1>6, DoneSteps

(* The steps that touch the units. *)
LEMMA UnitSteps ==
  ASSUME [Next]_vars
  PROVE  \/ \E s \in Sessions : Add(s) /\ Accept(s)
         \/ \E q \in Queues : HwStart(q) \/ HwFails(q) \/ Pops(q) \/ Isr(q) \/ TimerDispatch(q)
         \/ WorkUnits
         \/ WorkReset /\ Resets
         \/ UNCHANGED <<unit, hw>>
<1> DEFINE Same == UNCHANGED <<unit, hw>>
<1>1. ASSUME NEW s \in Sessions, Call(s) \/ Publish(s) \/ WaitLook(s) \/ WaitReturn(s) \/ Close(s)
      PROVE  Same
  BY <1>1 DEF Call, Begin, WaitBegin, Publish, WaitLook, WaitReturn, Close, CloseBegin, CloseTaint,
              CloseEnd, listVars, hwVars
<1>2. ASSUME NEW s \in Sessions, Add(s), ~Accept(s) PROVE Same
  BY <1>2 DEF Add
<1>3. ASSUME NEW q \in Queues, IsrRead(q) \/ FaultIrq(q) \/ TimerLate(q) \/ Finish(q)
      PROVE  Same
  BY <1>3 DEF IsrRead, FaultIrq, TimerLate, listVars, hwVars, Finish, FinishBegin, FinishTask
<1>4. ASSUME TimerTaint \/ WorkBegin \/ WorkDrained \/ WorkGivesUp \/ WorkSync
             \/ WorkSpread \/ WorkMark \/ WorkClear \/ WorkEnd
      PROVE  Same
  BY <1>4 DEF TimerTaint, WorkBegin, WorkDrained, WorkGivesUp, WorkSync, WorkSpread,
              WorkMark, WorkClear, WorkEnd, listVars, hwVars
<1>5. ASSUME UNCHANGED vars PROVE Same
  BY <1>5 DEF vars, listVars, hwVars
<1>6. ASSUME WorkReset, ~Resets PROVE Same
  BY <1>6, PassesOver
<1> HIDE DEF Same
<1>7. \/ \E s \in Sessions : Add(s) /\ Accept(s)
      \/ \E q \in Queues : HwStart(q) \/ HwFails(q) \/ Pops(q) \/ Isr(q) \/ TimerDispatch(q)
      \/ WorkUnits
      \/ WorkReset /\ Resets
      \/ Same
  BY <1>1, <1>2, <1>3, <1>4, <1>5, <1>6 DEF Next, Goes, WorkStep, Hw, Pops
<1> QED
  BY <1>7 DEF Same

(* What an appending dispatch leaves of a queue that has something.        *)
LEMMA SentHw ==
  ASSUME ListTypes, NEW q \in Queues, NEW p, NEW r, NEW n, NEW out \in Seq(Item), NEW rest,
         Sent(q, p, r, n, hw[q], out, rest)
  PROVE  /\ \A x \in Queues : hw[x] # <<>> => hw'[x] # <<>> /\ Head(hw'[x]) = Head(hw[x])
         /\ hw'[q] = hw[q] \o out /\ \A x \in Queues \ {q} : hw'[x] = hw[x]
<1>1. hw' = [hw EXCEPT ![q] = hw[q] \o out]
  BY DEF Sent
<1>2. hw'[q] = hw[q] \o out /\ \A x \in Queues \ {q} : hw'[x] = hw[x]
  BY <1>1 DEF ListTypes
<1>3. hw[q] \in Seq(Item)
  BY DEF ListTypes
<1>4. hw[q] # <<>> => hw[q] \o out # <<>> /\ Head(hw[q] \o out) = Head(hw[q])
  BY <1>3, HeadStays
<1>5. hw[q] # <<>> => hw'[q] # <<>> /\ Head(hw'[q]) = Head(hw[q])
  BY <1>2, <1>4
<1> QED
  BY <1>2, <1>5

(* A call, the timer and the interrupt only add to the hardware queues.    *)
LEMMA Appends ==
  ASSUME SessTypes, ListTypes, BoardTypes, Calls, Counted, Mirrored,
         \/ \E s \in Sessions : Add(s) /\ Accept(s)
         \/ \E q \in Queues : Isr(q) \/ TimerDispatch(q)
  PROVE  /\ \A x \in Queues : hw[x] # <<>> => hw'[x] # <<>> /\ Head(hw'[x]) = Head(hw[x])
         /\ UNCHANGED <<unit, fault, late, board, wpc, stall, killed, dead, todo, recorded, culprits>>
<1>1. ASSUME NEW s \in Sessions, Add(s), Accept(s)
      PROVE  \A x \in Queues : hw[x] # <<>> => hw'[x] # <<>> /\ Head(hw'[x]) = Head(hw[x])
  <2>1. PICK q \in Queues : q = bound[s]
    BY <1>1, AddedIs
  <2>2. PICK out \in Seq(Item), rest \in Seq(Item) :
              Sent(q, pt[q] \o <<Added(s)>>, rt[q], Len(rt[q]), hw[q], out, rest)
    BY <1>1, <2>1, AddMoves
  <2> QED
    BY <2>2, SentHw
<1>2. ASSUME NEW q \in Queues, TimerDispatch(q)
      PROVE  \A x \in Queues : hw[x] # <<>> => hw'[x] # <<>> /\ Head(hw'[x]) = Head(hw[x])
  <2>1. PICK out \in Seq(Item), rest \in Seq(Item) : Sent(q, pt[q], rt[q], Len(rt[q]), hw[q], out, rest)
    BY <1>2, TimerMoves
  <2> QED
    BY <2>1, SentHw
<1>3. ASSUME NEW q \in Queues, Isr(q)
      PROVE  \A x \in Queues : hw[x] # <<>> => hw'[x] # <<>> /\ Head(hw'[x]) = Head(hw[x])
  <2>1. PICK left \in Seq(Item), out \in Seq(Item), rest \in Seq(Item) :
           Sent(q, pt[q], left, Len(left), hw[q], out, rest)
    BY <1>3, IsrMoves
  <2> QED
    BY <2>1, SentHw
<1>4. UNCHANGED <<unit, fault, late, board, wpc, stall, killed, dead, todo, recorded, culprits>>
  BY DEF Add, Isr, TimerDispatch, boardVars, workVars
<1> QED
  BY <1>1, <1>2, <1>3, <1>4

(* the unit. *)
UnitAt(q) == unit[q] # "idle" => hw[q] # <<>> /\ Head(hw[q]).kind = "kernel"

(* A busy unit has a kernel task at its head. *)
LEMMA UnitStep ==
  ASSUME SessTypes, ListTypes, BoardTypes, Calls, Counted, Mirrored, [Next]_vars
  PROVE  \A q \in Queues : UnitAt(q)'
<1>0. \A q \in Queues : UnitAt(q)
  BY DEF Mirrored, UnitAt
<1>1. ASSUME \/ \E s \in Sessions : Add(s) /\ Accept(s)
             \/ \E q \in Queues : Isr(q) \/ TimerDispatch(q)
      PROVE  \A q \in Queues : UnitAt(q)'
  BY <1>0, <1>1, Appends DEF UnitAt
<1>2. ASSUME NEW q \in Queues, HwStart(q) \/ HwFails(q) PROVE \A x \in Queues : UnitAt(x)'
  <2>1. /\ hw' = hw /\ \A x \in Queues \ {q} : unit'[x] = unit[x]
        /\ hw[q] # <<>> /\ Head(hw[q]).kind = "kernel"
    BY <1>0, <1>2 DEF HwStart, HwFails, Head1, UnitAt, BoardTypes
  <2> QED
    BY <1>0, <2>1 DEF UnitAt
<1>3. ASSUME NEW q \in Queues, Pops(q) PROVE \A x \in Queues : UnitAt(x)'
  <2>1. \A x \in Queues \ {q} : hw'[x] = hw[x] /\ unit'[x] = unit[x]
    BY <1>3 DEF Pops, HwDone, HwRecord, HwWait, HwPop, ListTypes, BoardTypes
  <2>2. unit'[q] = "idle"
    BY <1>3 DEF Pops, HwDone, HwRecord, HwWait, BoardTypes
  <2> QED
    BY <1>0, <2>1, <2>2 DEF UnitAt
<1>4. ASSUME WorkUnits PROVE \A x \in Queues : UnitAt(x)'
  BY <1>0, <1>4 DEF WorkUnits, UnitAt, CutOff, Busy
<1>5. ASSUME WorkReset, Resets PROVE \A x \in Queues : UnitAt(x)'
  <2> DEFINE q == Least(todo)
             r == Kept(Only(rt[q] \o pt[q], BadTasks(q)), rt[q])
             p == Kept(Only(rt[q] \o pt[q], BadTasks(q)), pt[q])
  <2>1. q \in Queues /\ unit' = [unit EXCEPT ![q] = "idle"]
        /\ \E out \in Seq(Item), rest \in Seq(Item) : Sent(q, p, r, Len(r), r, out, rest)
    BY <1>5, ResetMoves
  <2> HIDE DEF q, r, p
  <2>2. unit'[q] = "idle" /\ \A x \in Queues \ {q} : unit'[x] = unit[x] /\ hw'[x] = hw[x]
    BY <2>1 DEF Sent, ListTypes, BoardTypes
  <2> QED
    BY <1>0, <2>2 DEF UnitAt
<1>6. ASSUME UNCHANGED <<unit, hw>> PROVE \A x \in Queues : UnitAt(x)'
  BY <1>0, <1>6 DEF UnitAt
<1> QED
  BY <1>1, <1>2, <1>3, <1>4, <1>5, <1>6, UnitSteps

(* The watched and the timed tokens are tokens already given. *)
LEMMA TokenStep ==
  ASSUME SessTypes, ListTypes, BoardTypes, Placed, Mirrored, [Next]_vars
  PROVE  \A q \in Queues : late'[q] < token' /\ board'[q] < token'
<1>0. token' >= token /\ token' \in Nat /\ token \in Nat /\ token > 0
  BY BoundStays, Sizes DEF SessTypes
<1>1. \A q \in Queues : late[q] \in Nat /\ board[q] \in Nat /\ late[q] < token /\ board[q] < token
  BY DEF BoardTypes, Mirrored
<1>2. ASSUME UNCHANGED <<late, board>> PROVE \A q \in Queues : late'[q] < token' /\ board'[q] < token'
  BY <1>0, <1>1, <1>2
<1>3. ASSUME NEW q \in Queues, NEW t \in On(q) PROVE t.tk < token /\ t.tk \in Nat
  BY OnIsItem DEF Placed
<1>4. ASSUME NEW q \in Queues, FaultIrq(q) PROVE \A x \in Queues : late'[x] < token' /\ board'[x] < token'
  <2>1. hw[q] # <<>>
    BY <1>4 DEF FaultIrq, Mirrored
  <2>2. Head(hw[q]).tk < token /\ Head(hw[q]).tk \in Nat
    BY <1>3, <2>1, HeadIs, HwOn
  <2>3. late' = late /\ board' = [board EXCEPT ![q] = Head(hw[q]).tk]
    BY <1>4 DEF FaultIrq, BookFault
  <2> QED
    BY <1>0, <1>1, <2>2, <2>3 DEF BoardTypes
<1>5. ASSUME NEW q \in Queues, TimerLate(q) PROVE \A x \in Queues : late'[x] < token' /\ board'[x] < token'
  <2>1. Head(rt[q]).tk < token /\ Head(rt[q]).tk \in Nat
    BY <1>3, <1>5, HeadIs, HwOn DEF TimerLate
  <2>2. late' = [late EXCEPT ![q] = Head(rt[q]).tk] /\ board' = [board EXCEPT ![q] = Head(rt[q]).tk]
    BY <1>5 DEF TimerLate, BookLate
  <2> QED
    BY <1>0, <1>1, <2>1, <2>2 DEF BoardTypes
<1>6. ASSUME WorkUnits PROVE \A x \in Queues : late'[x] < token' /\ board'[x] < token'
  BY <1>0, <1>1, <1>6 DEF WorkUnits, Rep
<1>7. ASSUME WorkClear PROVE \A x \in Queues : late'[x] < token' /\ board'[x] < token'
  <2>1. late' = late /\ \A x \in Queues : board'[x] \in {0, board[x]}
    BY <1>7 DEF WorkClear, BoardTypes
  <2> QED
    BY <1>0, <1>1, <2>1
<1>8. \/ UNCHANGED <<late, board>>
      \/ \E q \in Queues : FaultIrq(q) \/ TimerLate(q)
      \/ WorkUnits \/ WorkClear
  <2>1. ASSUME NEW s \in Sessions, Call(s) \/ Goes(s) \/ Close(s) PROVE UNCHANGED <<late, board>>
    BY <2>1 DEF Call, Goes, Begin, WaitBegin, Add, Publish, WaitLook, WaitReturn, Close, CloseBegin,
                CloseTaint, CloseEnd, boardVars
  <2>2. ASSUME NEW q \in Queues,
               Hw(q) \/ HwFails(q) \/ IsrRead(q) \/ Isr(q) \/ Finish(q) \/ TimerDispatch(q)
        PROVE UNCHANGED <<late, board>>
    BY <2>2 DEF Hw, HwStart, HwDone, HwRecord, HwWait, HwFails, HwKeeps, IsrRead, Isr, Finish,
                FinishBegin, FinishTask, TimerDispatch, boardVars
  <2>3. ASSUME TimerTaint \/ WorkBegin \/ WorkDrained \/ WorkGivesUp \/ WorkSync
               \/ WorkSpread \/ WorkMark \/ WorkReset \/ WorkEnd
        PROVE  UNCHANGED <<late, board>>
    BY <2>3 DEF TimerTaint, WorkBegin, WorkDrained, WorkGivesUp, WorkSync, WorkSpread,
                WorkMark, WorkReset, WorkEnd, boardVars
  <2>4. ASSUME UNCHANGED vars PROVE UNCHANGED <<late, board>>
    BY <2>4 DEF vars, boardVars
  <2> QED
    BY <2>1, <2>2, <2>3, <2>4 DEF Next, WorkStep
<1> QED
  BY <1>2, <1>4, <1>5, <1>6, <1>7, <1>8

(* Every step keeps run list and unit alike. *)
LEMMA MirroredStep ==
  ASSUME SessTypes, ListTypes, BoardTypes, Calls, Placed, Counted, Mirrored, Working, [Next]_vars
  PROVE  Mirrored'
<1>1. \A q \in Queues : BehindAt(q)' /\ UnitAt(q)' /\ late'[q] < token' /\ board'[q] < token'
  BY BehindStep, UnitStep, TokenStep
<1> QED
  BY <1>1 DEF Mirrored, BehindAt, UnitAt

(* Every step keeps the worker on queues it has stopped. *)
LEMMA WorkingStep ==
  ASSUME SessTypes, ListTypes, BoardTypes, Mirrored, Working, [Next]_vars
  PROVE  Working'
<1>1. ASSUME NEW s \in Sessions, Call(s) \/ Goes(s) \/ Close(s) PROVE Working'
  <2>1. UNCHANGED <<unit, stall, wpc, intr, isr>>
    BY <1>1 DEF Call, Goes, Begin, WaitBegin, Add, Publish, WaitLook, WaitReturn, Close, CloseBegin,
                CloseTaint, CloseEnd, hwVars, workVars
  <2> QED
    BY <2>1 DEF Working, Busy, Handled
<1>2. ASSUME NEW q \in Queues, Finish(q) \/ TimerDispatch(q) PROVE Working'
  <2>1. UNCHANGED <<unit, stall, wpc, intr, isr>>
    BY <1>2 DEF Finish, FinishBegin, FinishTask, TimerDispatch, hwVars, workVars
  <2> QED
    BY <2>1 DEF Working, Busy, Handled
<1>3. ASSUME NEW q \in Queues, FaultIrq(q) \/ TimerLate(q) PROVE Working'
  <2>1. UNCHANGED <<unit, wpc, intr, isr>> /\ stall' = TRUE
    BY <1>3 DEF FaultIrq, TimerLate, hwVars, workVars
  <2> QED
    BY <2>1 DEF Working, Busy, Handled
<1>4. ASSUME NEW q \in Queues, HwStart(q) \/ HwRecord(q) \/ HwWait(q) PROVE Working'
  <2>1. ~stall /\ UNCHANGED <<stall, wpc>>
    BY <1>4 DEF HwStart, HwRecord, HwWait, HwKeeps, workVars
  <2> QED
    BY <2>1 DEF Working
<1>5. ASSUME NEW q \in Queues, HwFails(q) \/ HwDone(q) PROVE Working'
  <2>1. Busy(q) /\ UNCHANGED <<stall, wpc>>
    BY <1>5 DEF HwFails, HwDone, HwKeeps, workVars, Busy
  <2> QED
    BY <2>1 DEF Working
<1>6. ASSUME NEW q \in Queues, IsrRead(q) \/ Isr(q) PROVE Working'
  <2>1. UNCHANGED <<unit, stall, wpc>> /\ ~Handled
    BY <1>6 DEF IsrRead, Isr, workVars, Handled, BoardTypes
  <2> QED
    BY <2>1 DEF Working, Busy
<1>7. ASSUME TimerTaint PROVE Working'
  <2>1. UNCHANGED <<unit, wpc, intr, isr>> /\ stall' = TRUE
    BY <1>7 DEF TimerTaint, hwVars, workVars
  <2> QED
    BY <2>1 DEF Working, Busy, Handled
<1>8. ASSUME WorkBegin \/ WorkDrained \/ WorkGivesUp PROVE Working'
  <2>1. UNCHANGED <<unit, intr, isr>>
    BY <1>8 DEF WorkBegin, WorkDrained, WorkGivesUp, hwVars
  <2> QED
    BY <1>8, <2>1 DEF Working, Busy, WorkBegin, WorkDrained, WorkGivesUp
<1>9. ASSUME WorkUnits PROVE Working'
  BY <1>9 DEF WorkUnits, Working, Busy
<1>10. ASSUME WorkSync \/ WorkSpread \/ WorkMark \/ WorkClear PROVE Working'
  <2>1. UNCHANGED <<unit, stall, intr, isr>> /\ wpc \in {"sync", "spread", "mark", "clear"}
        /\ (wpc = "sync" => Handled)
    BY <1>10 DEF WorkSync, WorkSpread, WorkMark, WorkClear, hwVars
  <2> QED
    BY <2>1 DEF Working, Busy, Handled
<1>11. ASSUME WorkReset PROVE Working'
  <2>1. UNCHANGED <<stall, intr, isr>> /\ wpc = "reset"
    BY <1>11 DEF WorkReset
  <2>2. \A q \in Queues : unit'[q] \in {"idle", unit[q]}
    <3>1. unit' = unit \/ unit' = [unit EXCEPT ![Least(todo)] = "idle"]
      BY <1>11 DEF WorkReset
    <3> QED
      BY <3>1 DEF BoardTypes
  <2> QED
    BY <2>1, <2>2 DEF Working, Busy, Handled
<1>12. ASSUME WorkEnd PROVE Working'
  BY <1>12 DEF WorkEnd, Working
<1>13. ASSUME UNCHANGED vars PROVE Working'
  BY <1>13 DEF vars, hwVars, workVars, Working, Busy, Handled
<1> QED
  BY <1>1, <1>2, <1>3, <1>4, <1>5, <1>6, <1>7, <1>8, <1>9, <1>10, <1>11, <1>12, <1>13
  DEF Next, Hw, WorkStep

-----------------------------------------------------------------------------
(* The invariant of the lists *)

(* No call has a task of the future. *)
Tokens == \A s \in Sessions : arg[s].tk < token

(* The task of a call has a token already given. *)
LEMMA TokensStep ==
  ASSUME SessTypes, BoardTypes, Calls, Tokens, [Next]_vars
  PROVE  Tokens'
<1>0. token' >= token /\ token' \in Nat /\ token \in Nat \ {0}
  BY BoundStays DEF SessTypes
<1> SUFFICES ASSUME NEW s \in Sessions PROVE arg'[s].tk < token'
  BY DEF Tokens
<1>1. arg[s].tk < token /\ arg[s].tk \in Nat
  BY DEF Tokens, SessTypes, Args
<1>2. CASE Begin(s)
  BY <1>0, <1>2, BeginIs
<1>3. CASE WaitBegin(s)
  <2>1. PICK call \in plan.calls[s] :
          arg' = [arg EXCEPT ![s] = [NoTask EXCEPT !.ev = call[2], !.seq = ev[call[2]].rec]]
    BY <1>3 DEF WaitBegin
  <2>2. arg'[s].tk = 0
    BY <2>1 DEF SessTypes, NoTask
  <2> QED
    BY <1>0, <2>2
<1>4. CASE Add(s)
  <2>1. arg'[s] \in {NoTask, Added(s)}
    BY <1>4 DEF Add, Added, SessTypes
  <2>2. Added(s).tk = arg[s].tk /\ NoTask.tk = 0
    BY <1>4, AddedIs DEF NoTask
  <2> QED
    BY <1>0, <1>1, <2>1, <2>2
<1>5. CASE Publish(s) \/ WaitLook(s) \/ WaitReturn(s)
  <2>1. arg'[s] \in {NoTask, arg[s]}
    BY <1>5 DEF Publish, WaitLook, WaitReturn, SessTypes
  <2>2. NoTask.tk = 0
    BY DEF NoTask
  <2> QED
    BY <1>0, <1>1, <2>1, <2>2
<1>6. CASE pc'[s] = pc[s] /\ arg'[s] = arg[s]
  BY <1>0, <1>1, <1>6
<1> QED
  BY <1>2, <1>3, <1>4, <1>5, <1>6, OwnCalls DEF Call, Goes

(* Everything the mirror of lists, counts and hardware rests on.           *)
ListsInv ==
  /\ SessTypes /\ ListTypes /\ BoardTypes /\ Calls /\ Tokens
  /\ Placed /\ Counted /\ Mirrored /\ Working

(* The invariant of the lists holds at first. *)
LEMMA ListsInit == Init => ListsInv
<1> SUFFICES ASSUME Init PROVE ListsInv
  OBVIOUS
<1>1. <<>> \in Seq(Item) /\ Len(<<>>) = 0 /\ Elems(<<>>) = {} /\ <<>> \o <<>> = <<>>
  BY EmptySeq, ElemsEmpty, ConcatEmptySeq
<1>2. SessTypes
  <2>1. plan.tasks \in Nat
    BY Sizes DEF Init
  <2> QED
    BY <2>1 DEF Init, SessTypes, NoTask, Args
<1>3. ListTypes
  BY <1>1 DEF Init, ListTypes, Rep
<1>4. BoardTypes
  BY DEF Init, BoardTypes, Rep
<1>5. Calls /\ Tokens
  BY DEF Init, Calls, Tokens, NoTask
<1>6. \A q \in Queues : /\ pt[q] = <<>> /\ rt[q] = <<>> /\ ft[q] = <<>> /\ xl[q] = <<>>
                        /\ gone[q] = <<>> /\ hw[q] = <<>> /\ running[q] = 0 /\ intr[q] = 0
                        /\ isr[q] = 0 /\ unit[q] = "idle" /\ late[q] = 0 /\ board[q] = 0
  BY DEF Init, Rep
<1>7. \A q \in Queues : On(q) = {} /\ FiveAt(q) /\ Left(q) = {}
  BY <1>1, <1>6 DEF On, AllOf, FiveAt, Five, Apart, Off, Left, Unended
<1>8. Placed
  BY <1>7 DEF Placed, FiveAt
<1>9. Counted
  <2>1. \A s \in Sessions : Unfinished(s) = {} /\ unfin[s] = 0
    BY <1>7 DEF Unfinished, Left, Init
  <2>2. IsFiniteSet({}) /\ Cardinality({}) = 0
    BY FS_EmptySet
  <2>3. \A s \in Sessions : IsFiniteSet(Unfinished(s)) /\ unfin[s] = Cardinality(Unfinished(s))
    BY <2>1, <2>2
  <2>4. \A q \in Queues : running[q] = Len(rt[q]) /\ running[q] <= Depth
    BY <1>1, <1>6, Sizes
  <2> QED
    BY <2>3, <2>4 DEF Counted
<1>10. Mirrored
  <2>1. \A q \in Queues : Behind(q, <<>>)
    BY <1>1, <1>6 DEF Behind
  <2>2. token = 1
    BY DEF Init
  <2>3. <<>> \in Seq(Item)
    BY <1>1
  <2>4. \A q \in Queues : \E done \in Seq(Item) : Behind(q, done)
    BY <2>1, <2>3
  <2>5. \A q \in Queues : /\ unit[q] # "idle" => hw[q] # <<>> /\ Head(hw[q]).kind = "kernel"
                          /\ late[q] < token /\ board[q] < token
    BY <1>6, <2>2
  <2> QED
    BY <2>4, <2>5 DEF Mirrored
<1>11. Working
  BY DEF Init, Working
<1> QED
  BY <1>2, <1>3, <1>4, <1>5, <1>8, <1>9, <1>10, <1>11 DEF ListsInv

(* Every step keeps the invariant of the lists. *)
LEMMA ListsNext == ListsInv /\ [Next]_vars => ListsInv'
<1> SUFFICES ASSUME ListsInv, [Next]_vars PROVE ListsInv'
  OBVIOUS
<1>1. /\ SessTypes /\ ListTypes /\ BoardTypes /\ Calls /\ Tokens
      /\ Placed /\ Counted /\ Mirrored /\ Working
  BY DEF ListsInv
<1>2. ListTypes'
  BY <1>1, ListTyped, HwTyped, FinishTyped DEF ListTypes
<1>3. SessTypes' /\ BoardTypes'
  BY <1>1, SessTyped, BoardTyped
<1>4. Calls' /\ Tokens' /\ Placed' /\ Counted' /\ Mirrored' /\ Working'
  BY <1>1, CallsStep, TokensStep, PlacedStep, CountedStep, MirroredStep, WorkingStep
<1> QED
  BY <1>2, <1>3, <1>4 DEF ListsInv

(* The inductive invariant of the lists holds. *)
THEOREM ListsKept == Spec => []ListsInv
BY ListsInit, ListsNext, PTL DEF Spec

-----------------------------------------------------------------------------
(* What the runs check follows. *)

(* No two tasks have the same number. *)
LEMMA OneToken ==
  ASSUME Placed, NEW q \in Queues, NEW r \in Queues, NEW t \in On(q), NEW x \in On(r), t.tk = x.tk
  PROVE  q = r /\ t = x
<1>1. q = r
  BY DEF Placed
<1>2. \A y \in Elems(pt[q]), z \in Elems(pt[q]) : y.tk = z.tk => y = z
  BY DEF Placed, Five, Apart, Elems
<1>3. \A y \in Elems(rt[q]), z \in Elems(rt[q]) : y.tk = z.tk => y = z
  BY DEF Placed, Five, Apart, Elems
<1>4. \A y \in Elems(ft[q]), z \in Elems(ft[q]) : y.tk = z.tk => y = z
  BY DEF Placed, Five, Apart, Elems
<1>5. \A y \in Elems(xl[q]), z \in Elems(xl[q]) : y.tk = z.tk => y = z
  BY DEF Placed, Five, Apart, Elems
<1>6. \A y \in Elems(gone[q]), z \in Elems(gone[q]) : y.tk = z.tk => y = z
  BY DEF Placed, Five, Apart, Elems
<1>7. Five(pt[q], rt[q], ft[q], xl[q], gone[q])
  BY DEF Placed
<1> QED
  BY <1>1, <1>2, <1>3, <1>4, <1>5, <1>6, <1>7 DEF On, AllOf, Five, Off

(* A session has no more unfinished tasks than were given out. *)
LEMMA UnfinBound ==
  ASSUME SessTypes, ListTypes, Placed, Counted, NEW s \in Sessions
  PROVE  unfin[s] \in 0 .. plan.tasks
<1> DEFINE U == Unfinished(s)
           T == 1 .. plan.tasks
           f == [t \in U |-> t.tk]
<1>1. plan.tasks \in Nat /\ token \in Nat /\ token <= plan.tasks + 1
  BY Sizes DEF SessTypes
<1>2. \A t \in U : \E q \in Queues : t \in On(q)
  BY DEF Unfinished, Unended, On, AllOf
<1>3. \A t \in U : t.tk \in T
  <2> SUFFICES ASSUME NEW t \in U PROVE t.tk \in T
    OBVIOUS
  <2>1. PICK q \in Queues : t \in On(q)
    BY <1>2
  <2>2. t.tk \in Nat \ {0} /\ t.tk < token
    BY <2>1, OnIsItem DEF Placed
  <2> QED
    BY <1>1, <2>2
<1>4. \A t \in U, x \in U : t.tk = x.tk => t = x
  BY <1>2, OneToken
<1> HIDE DEF U, T
<1>5. f \in Injection(U, T)
  BY <1>3, <1>4 DEF Injection, IsInjective
<1>6. IsFiniteSet(T) /\ Cardinality(T) = plan.tasks
  <2> DEFINE n == plan.tasks
  <2>1. n \in Int /\ n >= 0
    BY <1>1
  <2> HIDE DEF n
  <2>2. IsFiniteSet(1 .. n) /\ Cardinality(1 .. n) = n
    BY <2>1, FS_Interval
  <2> QED
    BY <2>2 DEF n, T
<1>7. Cardinality(U) <= Cardinality(T) /\ IsFiniteSet(U)
  BY <1>5, <1>6, FS_Injection
<1>8. Cardinality(U) \in Nat
  BY <1>7, FS_CardinalityType
<1>9. unfin[s] = Cardinality(U)
  BY DEF Counted, U
<1> QED
  BY <1>1, <1>6, <1>7, <1>8, <1>9

(* The elements of the joined lists of a queue. *)
LEMMA ListsElems ==
  ASSUME ListTypes, NEW q \in Queues
  PROVE  /\ Elems(pt[q] \o rt[q] \o ft[q] \o xl[q] \o gone[q]) = On(q)
         /\ Elems(pt[q] \o rt[q] \o xl[q]) = Left(q)
         /\ Elems(pt[q] \o rt[q]) = Elems(pt[q]) \cup Elems(rt[q])
         /\ Elems(hw[q] \o pt[q]) = Elems(hw[q]) \cup Elems(pt[q])
<1>1. /\ pt[q] \in Seq(Item) /\ rt[q] \in Seq(Item) /\ ft[q] \in Seq(Item)
      /\ xl[q] \in Seq(Item) /\ gone[q] \in Seq(Item) /\ hw[q] \in Seq(Item)
  BY DEF ListTypes
<1> DEFINE a == pt[q]
           b == rt[q]
           c == ft[q]
           d == xl[q]
           e == gone[q]
           ab == a \o b
           abc == ab \o c
           abcd == abc \o d
<1>2. a \in Seq(Item) /\ b \in Seq(Item) /\ c \in Seq(Item) /\ d \in Seq(Item) /\ e \in Seq(Item)
  BY <1>1
<1> HIDE DEF a, b, c, d, e
<1>3. ab \in Seq(Item) /\ Elems(ab) = Elems(a) \cup Elems(b)
  BY <1>2, ElemsConcat
<1> HIDE DEF ab
<1>4. abc \in Seq(Item) /\ Elems(abc) = Elems(ab) \cup Elems(c)
  BY <1>2, <1>3, ElemsConcat
<1> HIDE DEF abc
<1>5. abcd \in Seq(Item) /\ Elems(abcd) = Elems(abc) \cup Elems(d)
  BY <1>2, <1>4, ElemsConcat
<1> HIDE DEF abcd
<1>6. Elems(abcd \o e) = Elems(abcd) \cup Elems(e) /\ Elems(ab \o d) = Elems(ab) \cup Elems(d)
  BY <1>2, <1>3, <1>5, ElemsConcat
<1>7. Elems(hw[q] \o pt[q]) = Elems(hw[q]) \cup Elems(pt[q])
  BY <1>1, ElemsConcat
<1>8. Elems(abcd \o e) = Elems(a) \cup Elems(b) \cup Elems(c) \cup Elems(d) \cup Elems(e)
  BY <1>3, <1>4, <1>5, <1>6
<1>9. Elems(ab \o d) = Elems(a) \cup Elems(b) \cup Elems(d)
  BY <1>3, <1>6
<1> QED
  BY <1>3, <1>7, <1>8, <1>9 DEF On, AllOf, Left, Unended, a, b, c, d, e, ab, abc, abcd

(* The invariant gives every variable its type. *)
LEMMA TypesFollow == ListsInv => StreamTypeOK
<1> SUFFICES ASSUME ListsInv PROVE StreamTypeOK
  OBVIOUS
<1>1. /\ SessTypes /\ ListTypes /\ BoardTypes /\ Calls /\ Tokens
      /\ Placed /\ Counted /\ Mirrored /\ Working
  BY DEF ListsInv
<1>2. plan.tasks \in Nat /\ token \in Nat /\ token <= plan.tasks + 1
  BY <1>1, Sizes DEF SessTypes
<1>3. unfin \in [Sessions -> 0 .. plan.tasks]
  BY <1>1, UnfinBound DEF SessTypes
<1>4. arg \in [Sessions -> TaskType]
  <2>1. ASSUME NEW s \in Sessions PROVE arg[s] \in TaskType
    <3>1. arg[s] \in Args /\ arg[s].tk < token
      BY <1>1 DEF SessTypes, Tokens
    <3>2. arg[s].tk \in 0 .. plan.tasks
      BY <1>2, <3>1 DEF Args
    <3> QED
      BY <3>1, <3>2 DEF Args, TaskType
  <2> QED
    BY <1>1, <2>1 DEF SessTypes
<1>5. \A q \in Queues : Elems(pt[q] \o rt[q] \o ft[q] \o xl[q] \o gone[q]) \subseteq TaskType
  <2> SUFFICES ASSUME NEW q \in Queues, NEW t \in On(q) PROVE t \in TaskType
    BY <1>1, ListsElems
  <2>1. t \in Item /\ t.tk < token /\ t.tk \in Nat
    BY <1>1, OnIsItem DEF Placed
  <2>2. t.tk \in 0 .. plan.tasks
    BY <1>2, <2>1
  <2> QED
    BY <2>1, <2>2 DEF Item, TaskType
<1>6. running \in [Queues -> 0 .. Depth]
  <2>1. \A q \in Queues : running[q] \in Nat /\ running[q] <= Depth
    BY <1>1 DEF ListTypes, Counted
  <2> QED
    BY <1>1, <2>1, Sizes DEF ListTypes
<1>7. late \in [Queues -> 0 .. plan.tasks] /\ board \in [Queues -> 0 .. plan.tasks]
  <2>1. \A q \in Queues : late[q] \in Nat /\ board[q] \in Nat /\ late[q] < token /\ board[q] < token
    BY <1>1 DEF BoardTypes, Mirrored
  <2>2. \A q \in Queues : late[q] \in 0 .. plan.tasks /\ board[q] \in 0 .. plan.tasks
    BY <1>2, <2>1
  <2> QED
    BY <1>1, <2>2 DEF BoardTypes
<1>8. /\ file \in [Sessions -> {"open", "waiting", "tainted", "closed"}]
      /\ bound \in [Sessions -> Queues \cup {Nothing}]
      /\ pc \in [Sessions -> {"idle", "add", "publish", "look", "ok"}]
  BY <1>1 DEF SessTypes
<1>9. /\ unit \in [Queues -> {"idle", "run", "hang", "fault", "cut"}]
      /\ todo \subseteq Queues
      /\ wpc \in {"idle", "units", "drain", "sync", "spread", "mark", "reset", "clear"}
  BY <1>1 DEF BoardTypes
<1> QED
  BY <1>3, <1>4, <1>5, <1>6, <1>7, <1>8, <1>9 DEF StreamTypeOK

(* The invariant gives the counts of tasks. *)
LEMMA CountsFollow == ListsInv => TasksCounted
<1> SUFFICES ASSUME ListsInv PROVE TasksCounted
  OBVIOUS
<1>1. ListTypes /\ Counted
  BY DEF ListsInv
<1>2. ASSUME NEW s \in Sessions
      PROVE  {t \in TasksOf(s) : \E q \in Queues : t \in Elems(pt[q] \o rt[q] \o xl[q])} = Unfinished(s)
  <2>1. TasksOf(s) = UNION {{t \in On(q) : t.sess = s} : q \in Queues}
    BY <1>1, ListsElems DEF TasksOf
  <2>2. \A q \in Queues : Elems(pt[q] \o rt[q] \o xl[q]) = Left(q) /\ Left(q) \subseteq On(q)
    BY <1>1, ListsElems DEF Left, On, Unended, AllOf
  <2>3. Unfinished(s) = {t \in UNION {Left(q) : q \in Queues} : t.sess = s}
    BY DEF Unfinished, Left
  <2> QED
    BY <2>1, <2>2, <2>3
<1> QED
  BY <1>1, <1>2 DEF TasksCounted, Counted

(* The invariant gives the mirror of the run list. *)
LEMMA MirrorFollows == ListsInv => QueueMirrored
<1> SUFFICES ASSUME ListsInv, NEW q \in Queues
             PROVE  /\ Len(rt[q]) = intr[q] + isr[q] + Len(hw[q])
                    /\ hw[q] = SubSeq(rt[q], intr[q] + isr[q] + 1, Len(rt[q]))
  BY DEF QueueMirrored
<1>1. ListTypes /\ BoardTypes /\ Mirrored
  BY DEF ListsInv
<1>2. PICK done \in Seq(Item) : rt[q] = done \o hw[q] /\ Len(done) = intr[q] + isr[q]
  BY <1>1 DEF Mirrored, Behind
<1>3. hw[q] \in Seq(Item) /\ rt[q] \in Seq(Item)
  BY <1>1 DEF ListTypes
<1> DEFINE k == Len(done)
           a == SubSeq(rt[q], 1, k)
           b == SubSeq(rt[q], k + 1, Len(rt[q]))
<1>4. Len(done \o hw[q]) = Len(done) + Len(hw[q])
  BY <1>3, ConcatProperties
<1>5. k \in 0 .. Len(rt[q])
  BY <1>2, <1>3, <1>4, LenProperties
<1>6. a \in Seq(Item) /\ b \in Seq(Item) /\ Len(a) = k /\ rt[q] = a \o b
  <2>1. Parted(Item, rt[q], k, a, b)
    BY <1>3, <1>5, PartedIs, Zenon
  <2> HIDE DEF a, b, k
  <2> QED
    BY <2>1 DEF Parted
<1>7. Splits(rt[q], a, b) /\ Splits(rt[q], done, hw[q])
  <2> HIDE DEF a, b
  <2> QED
    BY <1>2, <1>6 DEF Splits
<1> HIDE DEF a, b
<1>8. Len(done) <= Len(a) /\ k \in Nat
  BY <1>6, LenProperties
<1>9. \E e \in Seq(Item) : Splits(a, done, e) /\ Splits(hw[q], e, b) /\ Len(e) = Len(a) - Len(done)
  BY <1>3, <1>6, <1>7, <1>8, SameRest
<1>10. PICK e \in Seq(Item) : hw[q] = e \o b /\ Len(e) = 0
  <2>1. PICK e \in Seq(Item) : Splits(hw[q], e, b) /\ Len(e) = Len(a) - Len(done)
    BY <1>9
  <2>2. Len(e) = 0
    BY <1>6, <1>8, <2>1
  <2>3. hw[q] = e \o b
    BY <2>1 DEF Splits
  <2> QED
    BY <2>2, <2>3
<1>11. hw[q] = b
  <2>1. e = <<>>
    BY <1>10, EmptySeq
  <2> QED
    BY <1>6, <1>10, <2>1, ConcatEmptySeq
<1>12. Len(rt[q]) = intr[q] + isr[q] + Len(hw[q])
  BY <1>2, <1>4
<1> QED
  BY <1>2, <1>11, <1>12 DEF b

(* Every variable has its type, and the lists of the driver, its counts    *)
(* and the hardware queues stay one another's mirror.                      *)
THEOREM MirrorKept == Spec => []ListsMirrored
<1>1. ListsInv => ListsMirrored
  BY TypesFollow, CountsFollow, MirrorFollows DEF ListsMirrored
<1> QED
  BY <1>1, ListsKept, PTL

-----------------------------------------------------------------------------
(* Tasks that come to a list *)

(* The invariant of the lists as the following lemmas use it. *)
Lists == SessTypes /\ ListTypes /\ BoardTypes /\ Calls /\ Placed /\ Counted /\ Mirrored /\ Working

(* A call that is about to add was so before, or has just begun.           *)
LEMMA AddComes ==
  ASSUME SessTypes, [Next]_vars, NEW s \in Sessions, pc'[s] = "add"
  PROVE  \/ Begin(s)
         \/ pc[s] = "add" /\ arg'[s] = arg[s] /\ ~Add(s)
<1>1. CASE Call(s)
  BY <1>1 DEF Call, WaitBegin, SessTypes
<1>2. CASE Goes(s)
  BY <1>2 DEF Goes, Add, Publish, WaitLook, WaitReturn, SessTypes
<1>3. CASE pc'[s] = pc[s] /\ arg'[s] = arg[s]
  <2>1. ~Add(s)
    BY <1>3 DEF Add, SessTypes
  <2> QED
    BY <1>3, <2>1
<1> QED
  BY <1>1, <1>2, <1>3, OwnCalls

(* The task that an accepted add puts on queue x. *)
NewTask(x, t) == \E s \in Sessions : Add(s) /\ Accept(s) /\ x = bound[s] /\ t = Added(s)

(* The lists of a queue after a dispatch.                                  *)
LEMMA SentLists ==
  ASSUME ListTypes, NEW q \in Queues, NEW p, NEW r \in Seq(Item), NEW n, NEW h \in Seq(Item),
         NEW out \in Seq(Item), NEW rest \in Seq(Item), Sent(q, p, r, n, h, out, rest)
  PROVE  /\ Elems(p) = Elems(out) \cup Elems(rest)
         /\ Elems(pt'[q]) = Elems(rest) /\ Elems(rt'[q]) = Elems(r) \cup Elems(out)
         /\ Elems(hw'[q]) = Elems(h) \cup Elems(out)
         /\ \A x \in Queues \ {q} : pt'[x] = pt[x] /\ rt'[x] = rt[x] /\ hw'[x] = hw[x]
<1>1. /\ pt' = [pt EXCEPT ![q] = rest] /\ rt' = [rt EXCEPT ![q] = r \o out]
      /\ hw' = [hw EXCEPT ![q] = h \o out] /\ p = out \o rest
  BY DEF Sent
<1>2. pt'[q] = rest /\ rt'[q] = r \o out /\ hw'[q] = h \o out
  BY <1>1 DEF ListTypes
<1>3. \A x \in Queues \ {q} : pt'[x] = pt[x] /\ rt'[x] = rt[x] /\ hw'[x] = hw[x]
  BY <1>1 DEF ListTypes
<1>4. /\ Elems(out \o rest) = Elems(out) \cup Elems(rest)
      /\ Elems(r \o out) = Elems(r) \cup Elems(out)
      /\ Elems(h \o out) = Elems(h) \cup Elems(out)
  BY ElemsConcat
<1> QED
  BY <1>1, <1>2, <1>3, <1>4

(* What is pending was pending, or comes with a call.                      *)
LEMMA Pending ==
  ASSUME Lists,
         \/ \E s \in Sessions : Add(s) /\ Accept(s)
         \/ \E q \in Queues : Isr(q) \/ TimerDispatch(q),
         NEW x \in Queues
  PROVE  /\ \A t \in Elems(pt'[x]) : t \in Elems(pt[x]) \/ NewTask(x, t)
         /\ \A t \in Elems(rt'[x]) : t \in Elems(rt[x]) \/ t \in Elems(pt[x]) \/ NewTask(x, t)
         /\ \A t \in Elems(hw'[x]) : t \in Elems(hw[x]) \/ t \in Elems(pt[x]) \/ NewTask(x, t)
<1> DEFINE Goal == /\ \A t \in Elems(pt'[x]) : t \in Elems(pt[x]) \/ NewTask(x, t)
                   /\ \A t \in Elems(rt'[x]) : t \in Elems(rt[x]) \/ t \in Elems(pt[x]) \/ NewTask(x, t)
                   /\ \A t \in Elems(hw'[x]) : t \in Elems(hw[x]) \/ t \in Elems(pt[x]) \/ NewTask(x, t)
<1>0. SessTypes /\ ListTypes /\ BoardTypes /\ Calls /\ Placed /\ Counted /\ Mirrored /\ Working
  BY DEF Lists
<1>9. \A q \in Queues : pt[q] \in Seq(Item) /\ rt[q] \in Seq(Item) /\ hw[q] \in Seq(Item)
  BY <1>0 DEF ListTypes
<1>1. ASSUME NEW s \in Sessions, Add(s), Accept(s) PROVE Goal
  <2>1. PICK q \in Queues : q = bound[s]
    BY <1>0, <1>1, AddedIs
  <2>2. PICK out \in Seq(Item), rest \in Seq(Item) :
              Sent(q, pt[q] \o <<Added(s)>>, rt[q], Len(rt[q]), hw[q], out, rest)
    BY <1>0, <1>1, <2>1, AddMoves
  <2>3. Added(s) \in Item
    BY <1>0, <1>1, AddedIs
  <2>4. <<Added(s)>> \in Seq(Item) /\ Elems(<<Added(s)>>) = {Added(s)}
    BY <2>3, One
  <2>5. Elems(pt[q] \o <<Added(s)>>) = Elems(pt[q]) \cup Elems(<<Added(s)>>)
    BY <1>9, <2>3, <2>4, JoinOne
  <2>6. /\ Elems(pt[q] \o <<Added(s)>>) = Elems(out) \cup Elems(rest)
        /\ Elems(pt'[q]) = Elems(rest) /\ Elems(rt'[q]) = Elems(rt[q]) \cup Elems(out)
        /\ Elems(hw'[q]) = Elems(hw[q]) \cup Elems(out)
        /\ \A y \in Queues \ {q} : pt'[y] = pt[y] /\ rt'[y] = rt[y] /\ hw'[y] = hw[y]
    BY <1>0, <1>9, <2>2, SentLists
  <2>7. NewTask(q, Added(s))
    BY <1>1, <2>1 DEF NewTask
  <2>8. CASE x = q
    BY <2>4, <2>5, <2>6, <2>7, <2>8
  <2>9. CASE x # q
    BY <2>6, <2>9
  <2> QED
    BY <2>8, <2>9
<1>2. ASSUME NEW q \in Queues, NEW r \in Seq(Item), Elems(r) \subseteq Elems(rt[q]), NEW n,
             NEW out \in Seq(Item), NEW rest \in Seq(Item), Sent(q, pt[q], r, n, hw[q], out, rest)
      PROVE  Goal
  <2>1. /\ Elems(pt[q]) = Elems(out) \cup Elems(rest)
        /\ Elems(pt'[q]) = Elems(rest) /\ Elems(rt'[q]) = Elems(r) \cup Elems(out)
        /\ Elems(hw'[q]) = Elems(hw[q]) \cup Elems(out)
        /\ \A y \in Queues \ {q} : pt'[y] = pt[y] /\ rt'[y] = rt[y] /\ hw'[y] = hw[y]
    BY <1>0, <1>2, <1>9, SentLists
  <2> QED
    BY <1>2, <2>1
<1>3. ASSUME NEW q \in Queues, TimerDispatch(q) PROVE Goal
  <2> HIDE DEF Goal
  <2> QED
    BY <1>0, <1>2, <1>3, <1>9, TimerMoves
<1>4. ASSUME NEW q \in Queues, Isr(q) PROVE Goal
  <2>1. PICK over \in Seq(Item), left \in Seq(Item), out \in Seq(Item), rest \in Seq(Item) :
           /\ rt[q] = over \o left
           /\ Sent(q, pt[q], left, Len(left), hw[q], out, rest)
    BY <1>0, <1>4, IsrMoves
  <2>2. Elems(over \o left) = Elems(over) \cup Elems(left)
    BY ElemsConcat
  <2> HIDE DEF Goal
  <2> QED
    BY <1>2, <2>1, <2>2
<1> QED
  BY <1>1, <1>3, <1>4

(* What a reset leaves.                                                    *)
LEMMA ResetLists ==
  ASSUME Lists, WorkReset, Resets
  PROVE  LET q == Least(todo)
         IN  /\ q \in Queues
             /\ Elems(pt'[q]) \subseteq Elems(pt[q])
             /\ \A t \in Elems(rt'[q]) \cup Elems(hw'[q]) :
                   t \in Elems(pt[q]) \/ (t \in Elems(hw[q]) /\ t \notin BadTasks(q))
             /\ Elems(hw[q]) = Elems(rt[q])
             /\ \A t \in Elems(pt'[q]) \cup Elems(rt'[q]) : t \notin BadTasks(q)
             /\ \A x \in Queues \ {q} : pt'[x] = pt[x] /\ rt'[x] = rt[x] /\ hw'[x] = hw[x]
<1>0. SessTypes /\ ListTypes /\ BoardTypes /\ Calls /\ Placed /\ Counted /\ Mirrored /\ Working
  BY DEF Lists
<1> DEFINE q == Least(todo)
           bad == BadTasks(q)
           gives == Only(rt[q] \o pt[q], bad)
           r == Kept(gives, rt[q])
           p == Kept(gives, pt[q])
<1>1. /\ q \in Queues /\ r \in Seq(Item) /\ p \in Seq(Item)
      /\ \E out \in Seq(Item), rest \in Seq(Item) : Sent(q, p, r, Len(r), r, out, rest)
  BY <1>0, ResetMoves
<1>2. gives = Only(rt[q] \o pt[q], bad) /\ r = Kept(gives, rt[q]) /\ p = Kept(gives, pt[q])
  OBVIOUS
<1>6. bad = BadTasks(q)
  OBVIOUS
<1> HIDE DEF q, bad, gives, r, p
<1>3. pt[q] \in Seq(Item) /\ rt[q] \in Seq(Item) /\ xl[q] \in Seq(Item) /\ hw[q] \in Seq(Item)
  BY <1>0, <1>1 DEF ListTypes
<1>4. Five(pt[q], rt[q], ft[q], xl[q], gone[q])
  BY <1>0, <1>1 DEF Placed
<1>5. Revokes(pt[q], rt[q], ft[q], xl[q], gone[q], bad, gives)
  BY <1>2, <1>3, <1>4, RevokeFive
<1>7. Elems(p) = Elems(pt[q]) \ bad /\ Elems(r) = Elems(rt[q]) \ bad
  BY <1>2, <1>5 DEF Revokes
<1>8. PICK out \in Seq(Item), rest \in Seq(Item) : Sent(q, p, r, Len(r), r, out, rest)
  BY <1>1
<1>9. /\ Elems(p) = Elems(out) \cup Elems(rest)
      /\ Elems(pt'[q]) = Elems(rest) /\ Elems(rt'[q]) = Elems(r) \cup Elems(out)
      /\ Elems(hw'[q]) = Elems(r) \cup Elems(out)
      /\ \A x \in Queues \ {q} : pt'[x] = pt[x] /\ rt'[x] = rt[x] /\ hw'[x] = hw[x]
  BY <1>0, <1>1, <1>8, SentLists
<1>10. rt[q] = hw[q]
  <2>1. PICK done \in Seq(Item) : rt[q] = done \o hw[q] /\ Len(done) = intr[q] + isr[q]
    BY <1>0, <1>1 DEF Mirrored, Behind
  <2>2. Len(done) = 0
    BY <1>0, <1>1, <2>1 DEF Working, Handled, Resets
  <2>3. done = <<>>
    BY <2>2, EmptySeq
  <2> QED
    BY <1>3, <2>1, <2>3, ConcatEmptySeq
<1>11. \A t \in Elems(rt'[q]) \cup Elems(hw'[q]) :
          t \in Elems(pt[q]) \/ (t \in Elems(hw[q]) /\ t \notin bad)
  BY <1>7, <1>9, <1>10
<1>12. Elems(pt'[q]) \subseteq Elems(pt[q]) /\ Elems(hw[q]) = Elems(rt[q])
  BY <1>7, <1>9, <1>10
<1>13. \A t \in Elems(pt'[q]) \cup Elems(rt'[q]) : t \notin bad
  BY <1>7, <1>9
<1> QED
  BY <1>1, <1>6, <1>9, <1>11, <1>12, <1>13 DEF q

(* A token that no task still to be written has.                           *)
NotWaiting(x) ==
  /\ x \in Nat /\ x < token
  /\ \A q \in Queues : \A t \in Elems(pt[q]) : t.tk # x
  /\ \A s \in Sessions : pc[s] = "add" => arg[s].tk # x

(* A task sent to a unit neither waits for its slot nor is about to be added. *)
LEMMA WrittenNotWaiting ==
  ASSUME Lists, NEW q \in Queues, NEW t \in Elems(rt[q])
  PROVE  NotWaiting(t.tk)
<1>0. SessTypes /\ ListTypes /\ BoardTypes /\ Calls /\ Placed /\ Counted /\ Mirrored /\ Working
  BY DEF Lists
<1>1. t \in On(q) /\ t.tk \in Nat /\ t.tk < token
  BY <1>0, HwOn, OnIsItem DEF Placed
<1>2. ASSUME NEW x \in Queues, NEW y \in Elems(pt[x]) PROVE y.tk # t.tk
  <2>1. y \in On(x)
    BY <1>0, HwOn
  <2>2. CASE x = q
    BY <1>0, <1>2, <2>2 DEF Placed, Five, Off
  <2>3. CASE x # q
    BY <1>0, <1>1, <2>1, <2>3 DEF Placed
  <2> QED
    BY <2>2, <2>3
<1>3. \A s \in Sessions : pc[s] = "add" => arg[s].tk # t.tk
  BY <1>0, <1>1 DEF Calls
<1> QED
  BY <1>1, <1>2, <1>3 DEF NotWaiting

(* A token that neither waits nor is about to be added stays so. *)
LEMMA NotWaitingStep ==
  ASSUME Lists, [Next]_vars, NEW x, NotWaiting(x)
  PROVE  NotWaiting(x)'
<1>0. SessTypes /\ ListTypes /\ BoardTypes /\ Calls /\ Placed /\ Counted /\ Mirrored /\ Working
  BY DEF Lists
<1>1. token' >= token /\ token' \in Nat /\ token \in Nat /\ x \in Nat /\ x < token
  BY <1>0, BoundStays DEF SessTypes, NotWaiting
<1>2. ASSUME NEW q \in Queues, NEW t \in Elems(pt'[q]) PROVE t.tk # x
  <2>1. CASE NewTask(q, t)
    <3>1. PICK s \in Sessions : Add(s) /\ t = Added(s)
      BY <2>1 DEF NewTask
    <3>2. t.tk = arg[s].tk /\ pc[s] = "add"
      BY <1>0, <3>1, AddedIs DEF Add
    <3> QED
      BY <3>2 DEF NotWaiting
  <2>2. CASE t \in Elems(pt[q])
    BY <2>2 DEF NotWaiting
  <2>3. CASE UNCHANGED pt
    BY <1>2, <2>3 DEF NotWaiting
  <2>4. CASE \/ \E s \in Sessions : Add(s) /\ Accept(s)
             \/ \E p \in Queues : Isr(p) \/ TimerDispatch(p)
    BY <1>2, <2>1, <2>2, <2>4, Pending
  <2>5. CASE WorkReset /\ Resets
    <3> DEFINE p == Least(todo)
    <3>1. /\ p \in Queues /\ Elems(pt'[p]) \subseteq Elems(pt[p])
          /\ \A y \in Queues \ {p} : pt'[y] = pt[y]
      BY <2>5, ResetLists
    <3> HIDE DEF p
    <3>2. t \in Elems(pt[q])
      BY <1>2, <3>1
    <3> QED
      BY <2>2, <3>2
  <2>6. ASSUME NEW p \in Queues, Finish(p) PROVE UNCHANGED pt
    BY <2>6 DEF Finish, FinishBegin, FinishTask
  <2> QED
    BY <2>3, <2>4, <2>5, <2>6, ListSteps, PassesOver
<1>3. ASSUME NEW s \in Sessions, pc'[s] = "add" PROVE arg'[s].tk # x
  <2>1. CASE Begin(s)
    BY <1>0, <1>1, <2>1, BeginIs
  <2>2. CASE pc[s] = "add" /\ arg'[s] = arg[s]
    BY <2>2 DEF NotWaiting
  <2> QED
    BY <1>0, <1>3, <2>1, <2>2, AddComes
<1> QED
  BY <1>1, <1>2, <1>3 DEF NotWaiting

(* The tokens on the boards and of what was cut off.                       *)
Marks == killed \cup {late[q] : q \in Queues} \cup {board[q] : q \in Queues}

(* No task still to be written has a marked token. *)
Marked == \A x \in Marks : NotWaiting(x)

(* A token becomes marked only while its task is with a unit. *)
LEMMA MarksCome ==
  ASSUME Lists, [Next]_vars, NEW x \in Marks'
  PROVE  x = 0 \/ x \in Marks \/ \E q \in Queues : \E t \in Elems(rt[q]) : t.tk = x
<1>0. SessTypes /\ ListTypes /\ BoardTypes /\ Calls /\ Placed /\ Counted /\ Mirrored /\ Working
  BY DEF Lists
<1> DEFINE Goal == x = 0 \/ x \in Marks \/ \E q \in Queues : \E t \in Elems(rt[q]) : t.tk = x
<1>1. ASSUME UNCHANGED <<killed, late, board>> PROVE Goal
  BY <1>1 DEF Marks
<1>2. ASSUME NEW s \in Sessions, Call(s) \/ Goes(s) \/ Close(s) PROVE UNCHANGED <<killed, late, board>>
  BY <1>2 DEF Call, Goes, Begin, WaitBegin, Add, Publish, WaitLook, WaitReturn, Close, CloseBegin,
              CloseTaint, CloseEnd, boardVars
<1>3. ASSUME NEW q \in Queues,
             Hw(q) \/ HwFails(q) \/ IsrRead(q) \/ Isr(q) \/ Finish(q) \/ TimerDispatch(q)
      PROVE UNCHANGED <<killed, late, board>>
  BY <1>3 DEF Hw, HwStart, HwDone, HwRecord, HwWait, HwFails, HwKeeps, IsrRead, Isr, Finish,
              FinishBegin, FinishTask, TimerDispatch, boardVars
<1>4. ASSUME TimerTaint \/ WorkBegin \/ WorkDrained \/ WorkGivesUp \/ WorkSync
             \/ WorkSpread \/ WorkMark \/ WorkReset \/ WorkEnd
      PROVE  UNCHANGED <<killed, late, board>>
  BY <1>4 DEF TimerTaint, WorkBegin, WorkDrained, WorkGivesUp, WorkSync, WorkSpread,
              WorkMark, WorkReset, WorkEnd, boardVars
<1>5. ASSUME UNCHANGED vars PROVE UNCHANGED <<killed, late, board>>
  BY <1>5 DEF vars, boardVars
<1>6. \A q \in Queues : hw[q] # <<>> => Head(hw[q]) \in Elems(rt[q])
  BY <1>0, HeadIs, HwOn
<1>7. ASSUME NEW q \in Queues, FaultIrq(q) PROVE Goal
  <2>1. hw[q] # <<>> /\ UNCHANGED <<killed, late>> /\ board' = [board EXCEPT ![q] = Head(hw[q]).tk]
    BY <1>0, <1>7 DEF FaultIrq, BookFault, Mirrored
  <2>2. \A y \in Queues \ {q} : board'[y] = board[y]
    BY <1>0, <2>1 DEF BoardTypes
  <2>3. board'[q] = Head(hw[q]).tk
    BY <1>0, <2>1 DEF BoardTypes
  <2> QED
    BY <1>6, <2>1, <2>2, <2>3 DEF Marks
<1>8. ASSUME NEW q \in Queues, TimerLate(q) PROVE Goal
  <2>1. Head(rt[q]) \in Elems(rt[q])
    BY <1>0, <1>8, HeadIs DEF TimerLate
  <2>2. /\ UNCHANGED killed /\ late' = [late EXCEPT ![q] = Head(rt[q]).tk]
        /\ board' = [board EXCEPT ![q] = Head(rt[q]).tk]
    BY <1>8 DEF TimerLate, BookLate
  <2>3. \A y \in Queues \ {q} : board'[y] = board[y] /\ late'[y] = late[y]
    BY <1>0, <2>2 DEF BoardTypes
  <2>4. board'[q] = Head(rt[q]).tk /\ late'[q] = Head(rt[q]).tk
    BY <1>0, <2>2 DEF BoardTypes
  <2> QED
    BY <2>1, <2>2, <2>3, <2>4 DEF Marks
<1>9. ASSUME WorkUnits PROVE Goal
  <2>1. /\ killed' = killed \cup {Head(hw[q]).tk : q \in CutOff} /\ late' = Rep(0) /\ board' = board
    BY <1>9 DEF WorkUnits
  <2>2. \A q \in CutOff : q \in Queues /\ hw[q] # <<>>
    BY <1>0 DEF CutOff, Busy, Mirrored
  <2>3. \A q \in Queues : late'[q] = 0
    BY <2>1 DEF Rep
  <2>4. ASSUME x \in killed' PROVE Goal
    <3>1. CASE x \in killed
      BY <3>1 DEF Marks
    <3>2. CASE \E q \in CutOff : x = Head(hw[q]).tk
      BY <1>6, <2>2, <3>2
    <3> QED
      BY <2>1, <2>4, <3>1, <3>2
  <2>5. x \in killed' \/ (\E q \in Queues : x = late'[q]) \/ (\E q \in Queues : x = board[q])
    BY <2>1 DEF Marks
  <2> QED
    BY <2>3, <2>4, <2>5 DEF Marks
<1>10. ASSUME WorkClear PROVE Goal
  <2>1. UNCHANGED <<killed, late>> /\ \A q \in Queues : board'[q] \in {0, board[q]}
    BY <1>0, <1>10 DEF WorkClear, BoardTypes
  <2> QED
    BY <2>1 DEF Marks
<1> HIDE DEF Goal
<1>11. Goal
  BY <1>1, <1>2, <1>3, <1>4, <1>5, <1>7, <1>8, <1>9, <1>10 DEF Next, WorkStep
<1> QED
  BY <1>11 DEF Goal

(* Every step keeps the marked tokens from waiting again. *)
LEMMA MarkedStep ==
  ASSUME Lists, Marked, [Next]_vars
  PROVE  Marked'
<1> SUFFICES ASSUME NEW x \in Marks' PROVE NotWaiting(x)'
  BY DEF Marked
<1>0. SessTypes /\ ListTypes /\ BoardTypes /\ Calls /\ Placed /\ Counted /\ Mirrored /\ Working
  BY DEF Lists
<1>1. NotWaiting(0)
  <2>1. \A q \in Queues : \A t \in Elems(pt[q]) : t.tk # 0
    BY <1>0, HwOn, OnIsItem
  <2> QED
    BY <1>0, <2>1, Sizes DEF NotWaiting, Calls, SessTypes, Item
<1>2. NotWaiting(x)
  BY <1>1, MarksCome, WrittenNotWaiting DEF Marked
<1> QED
  BY <1>2, NotWaitingStep

-----------------------------------------------------------------------------
(* CutOffForGood *)

(* What the boards say of the tasks a hardware queue still has.            *)
CutAt(q) ==
  /\ fault[q] => unit[q] = "fault" /\ board[q] = Head(hw[q]).tk
  /\ unit[q] = "cut" => board[q] = Head(hw[q]).tk
  /\ \A t \in Elems(hw[q]) : late[q] = t.tk => t = Head(hw[q]) /\ board[q] = t.tk /\ Busy(q)
  /\ \A t \in Elems(hw[q]) : t.tk \in killed => unit[q] = "cut" /\ t = Head(hw[q])

(* After a reset the unit of the queue is idle. *)
ClearIdle == wpc = "clear" => unit[Least(todo)] = "idle"

(* The inductive invariant of CutOffForGood. *)
CutInv == Marked /\ ClearIdle /\ \A q \in Queues : CutAt(q)

(* The steps that bear on it. *)
LEMMA CutSteps ==
  ASSUME [Next]_vars
  PROVE  \/ \E s \in Sessions : Add(s) /\ Accept(s)
         \/ \E q \in Queues : Isr(q) \/ TimerDispatch(q)
         \/ \E q \in Queues : HwStart(q) \/ HwFails(q) \/ Pops(q)
         \/ WorkUnits
         \/ WorkReset /\ Resets
         \/ \E q \in Queues : FaultIrq(q) \/ TimerLate(q)
         \/ WorkClear
         \/ /\ UNCHANGED <<unit, hw, fault, late, board, killed>>
            /\ wpc' = "clear" => wpc = "clear" /\ todo' = todo
<1> DEFINE Same == /\ UNCHANGED <<unit, hw, fault, late, board, killed>>
                   /\ wpc' = "clear" => wpc = "clear" /\ todo' = todo
<1>1. ASSUME NEW s \in Sessions, Call(s) \/ Publish(s) \/ WaitLook(s) \/ WaitReturn(s) \/ Close(s)
      PROVE  Same
  BY <1>1 DEF Call, Begin, WaitBegin, Publish, WaitLook, WaitReturn, Close, CloseBegin, CloseTaint,
              CloseEnd, listVars, hwVars, boardVars, workVars
<1>2. ASSUME NEW s \in Sessions, Add(s), ~Accept(s) PROVE Same
  BY <1>2 DEF Add, boardVars, workVars
<1>3. ASSUME NEW q \in Queues, IsrRead(q) \/ Finish(q) PROVE Same
  BY <1>3 DEF IsrRead, listVars, hwVars, Finish, FinishBegin, FinishTask, boardVars, workVars
<1>4. ASSUME TimerTaint \/ WorkBegin \/ WorkDrained \/ WorkGivesUp \/ WorkSync PROVE Same
  BY <1>4 DEF TimerTaint, WorkBegin, WorkDrained, WorkGivesUp, WorkSync, hwVars, boardVars
<1>5. ASSUME WorkSpread \/ WorkMark \/ WorkEnd PROVE Same
  BY <1>5 DEF WorkSpread, WorkMark, WorkEnd, hwVars, boardVars
<1>6. ASSUME UNCHANGED vars PROVE Same
  BY <1>6 DEF vars, listVars, hwVars, boardVars, workVars
<1>7. ASSUME WorkReset, ~Resets PROVE Same
  <2>1. UNCHANGED <<unit, hw, wpc>> /\ wpc = "reset"
    BY <1>7, PassesOver
  <2>2. UNCHANGED <<fault, late, board, killed>>
    BY <1>7 DEF WorkReset, boardVars
  <2> QED
    BY <2>1, <2>2
<1> HIDE DEF Same
<1>8. \/ \E s \in Sessions : Add(s) /\ Accept(s)
      \/ \E q \in Queues : Isr(q) \/ TimerDispatch(q)
      \/ \E q \in Queues : HwStart(q) \/ HwFails(q) \/ Pops(q)
      \/ WorkUnits
      \/ WorkReset /\ Resets
      \/ \E q \in Queues : FaultIrq(q) \/ TimerLate(q)
      \/ WorkClear
      \/ Same
  BY <1>1, <1>2, <1>3, <1>4, <1>5, <1>6, <1>7 DEF Next, Goes, WorkStep, Hw, Pops
<1> QED
  BY <1>8 DEF Same

(* The first task of a hardware queue is not there twice. *)
LEMMA TailOff ==
  ASSUME Lists, NEW q \in Queues, hw[q] # <<>>
  PROVE  /\ Elems(hw[q]) = {Head(hw[q])} \cup Elems(Tail(hw[q]))
         /\ \A t \in Elems(Tail(hw[q])) : t.tk # Head(hw[q]).tk
<1>0. SessTypes /\ ListTypes /\ BoardTypes /\ Calls /\ Placed /\ Counted /\ Mirrored /\ Working
  BY DEF Lists
<1>1. hw[q] \in Seq(Item) /\ Apart(rt[q])
  BY <1>0 DEF ListTypes, Placed, Five
<1>2. PICK done \in Seq(Item) : rt[q] = done \o hw[q]
  BY <1>0 DEF Mirrored, Behind
<1>3. Apart(hw[q])
  BY <1>1, <1>2, ApartConcat
<1>4. /\ Head(hw[q]) \in Item /\ Tail(hw[q]) \in Seq(Item) /\ hw[q] = <<Head(hw[q])>> \o Tail(hw[q])
      /\ Elems(hw[q]) = {Head(hw[q])} \cup Elems(Tail(hw[q]))
  BY <1>1, Behead
<1> DEFINE h == <<Head(hw[q])>>
           u == Tail(hw[q])
<1>5. h \in Seq(Item) /\ Elems(h) = {Head(hw[q])} /\ u \in Seq(Item) /\ hw[q] = h \o u
  BY <1>4, One
<1> HIDE DEF h, u
<1>6. Off(h, u)
  BY <1>3, <1>5, ApartConcat
<1> QED
  BY <1>4, <1>5, <1>6 DEF Off, u

(* Adds and dispatches do not send a cut task again. *)
LEMMA CutAppends ==
  ASSUME Lists, CutInv,
         \/ \E s \in Sessions : Add(s) /\ Accept(s)
         \/ \E q \in Queues : Isr(q) \/ TimerDispatch(q)
  PROVE  ClearIdle' /\ \A q \in Queues : CutAt(q)'
<1>0. SessTypes /\ ListTypes /\ BoardTypes /\ Calls /\ Placed /\ Counted /\ Mirrored /\ Working
  BY DEF Lists
<1>1. /\ \A x \in Queues : hw[x] # <<>> => hw'[x] # <<>> /\ Head(hw'[x]) = Head(hw[x])
      /\ UNCHANGED <<unit, fault, late, board, wpc, killed, todo>>
  BY <1>0, Appends
<1>2. ClearIdle'
  BY <1>1 DEF CutInv, ClearIdle
<1>3. ASSUME NEW q \in Queues PROVE CutAt(q)'
  <2>1. CutAt(q)
    BY DEF CutInv
  <2>2. unit[q] # "idle" => Head(hw'[q]) = Head(hw[q])
    BY <1>0, <1>1 DEF Mirrored
  <2>3. (fault[q] \/ unit[q] = "cut") => Head(hw'[q]) = Head(hw[q])
    BY <2>1, <2>2 DEF CutAt
  <2>4. ASSUME NEW t \in Elems(hw'[q]), t.tk \in Marks
        PROVE  t \in Elems(hw[q])
    <3>1. NotWaiting(t.tk)
      BY <2>4 DEF CutInv, Marked
    <3>2. t \notin Elems(pt[q])
      BY <3>1 DEF NotWaiting
    <3>3. ~NewTask(q, t)
      <4> SUFFICES ASSUME NewTask(q, t) PROVE FALSE
        OBVIOUS
      <4>1. PICK s \in Sessions : Add(s) /\ t = Added(s)
        BY DEF NewTask
      <4>2. t.tk = arg[s].tk /\ pc[s] = "add"
        BY <1>0, <4>1, AddedIs DEF Add
      <4> QED
        BY <3>1, <4>2 DEF NotWaiting
    <3> QED
      BY <2>4, <3>2, <3>3, Pending
  <2>5. \A t \in Elems(hw'[q]) : late[q] = t.tk => t \in Elems(hw[q])
    BY <2>4 DEF Marks
  <2>6. \A t \in Elems(hw'[q]) : t.tk \in killed => t \in Elems(hw[q])
    BY <2>4 DEF Marks
  <2>7. fault'[q] => unit'[q] = "fault" /\ board'[q] = Head(hw'[q]).tk
    BY <1>1, <2>1, <2>3 DEF CutAt
  <2>8. unit'[q] = "cut" => board'[q] = Head(hw'[q]).tk
    BY <1>1, <2>1, <2>3 DEF CutAt
  <2>9. \A t \in Elems(hw'[q]) : late'[q] = t.tk => t = Head(hw'[q]) /\ board'[q] = t.tk /\ Busy(q)'
    BY <1>1, <2>1, <2>2, <2>5 DEF CutAt, Busy
  <2>10. \A t \in Elems(hw'[q]) : t.tk \in killed' => unit'[q] = "cut" /\ t = Head(hw'[q])
    BY <1>1, <2>1, <2>2, <2>6 DEF CutAt
  <2> QED
    BY <2>7, <2>8, <2>9, <2>10 DEF CutAt
<1> QED
  BY <1>2, <1>3

(* Nor do the units' steps. *)
LEMMA CutHw ==
  ASSUME Lists, CutInv, NEW p \in Queues, HwStart(p) \/ HwFails(p) \/ Pops(p)
  PROVE  ClearIdle' /\ \A q \in Queues : CutAt(q)'
<1>0. SessTypes /\ ListTypes /\ BoardTypes /\ Calls /\ Placed /\ Counted /\ Mirrored /\ Working
  BY DEF Lists
<1>1. UNCHANGED <<fault, late, board, wpc, killed, todo, stall>>
  BY DEF HwStart, HwFails, Pops, HwDone, HwRecord, HwWait, HwKeeps, boardVars, workVars
<1>2. \A x \in Queues \ {p} : unit'[x] = unit[x] /\ hw'[x] = hw[x]
  BY <1>0 DEF HwStart, HwFails, Pops, HwDone, HwRecord, HwWait, HwPop, ListTypes, BoardTypes
<1>3. ~stall \/ Busy(p)
  BY DEF HwStart, HwFails, Pops, HwDone, HwRecord, HwWait, Busy
<1>4. ClearIdle'
  BY <1>0, <1>1, <1>3 DEF Working, ClearIdle
<1>5. \A x \in Queues \ {p} : CutAt(x)'
  BY <1>1, <1>2 DEF CutInv, CutAt, Busy
<1>6. CutAt(p)
  BY DEF CutInv
<1>7. CASE HwStart(p)
  <2>1. unit[p] = "idle" /\ unit'[p] = "run" /\ hw' = hw
    BY <1>0, <1>7 DEF HwStart, BoardTypes
  <2> QED
    BY <1>1, <1>4, <1>5, <1>6, <2>1 DEF CutAt, Busy
<1>8. CASE HwFails(p)
  <2>1. unit[p] = "run" /\ unit'[p] \in {"hang", "fault"} /\ hw' = hw
    BY <1>0, <1>8 DEF HwFails, BoardTypes
  <2> QED
    BY <1>1, <1>4, <1>5, <1>6, <2>1 DEF CutAt, Busy
<1>9. CASE Pops(p)
  <2>1. hw[p] # <<>> /\ hw' = [hw EXCEPT ![p] = Tail(hw[p])]
    BY <1>0, <1>9, PopIs
  <2>2. hw'[p] = Tail(hw[p])
    BY <1>0, <2>1 DEF ListTypes
  <2>3. unit[p] \in {"run", "idle"} /\ unit'[p] = "idle"
    BY <1>0, <1>9 DEF Pops, HwDone, HwRecord, HwWait, BoardTypes
  <2>4. \A t \in Elems(hw'[p]) : t \in Elems(hw[p]) /\ t # Head(hw[p])
    BY <2>1, <2>2, TailOff
  <2> QED
    BY <1>1, <1>4, <1>5, <1>6, <2>3, <2>4 DEF CutAt
<1> QED
  BY <1>7, <1>8, <1>9

(* Nor does stopping the units. *)
LEMMA CutUnits ==
  ASSUME Lists, CutInv, WorkUnits
  PROVE  ClearIdle' /\ \A q \in Queues : CutAt(q)'
<1>0. SessTypes /\ ListTypes /\ BoardTypes /\ Calls /\ Placed /\ Counted /\ Mirrored /\ Working
  BY DEF Lists
<1>1. /\ unit' = [q \in Queues |-> IF q \in CutOff THEN "cut" ELSE unit[q]]
      /\ killed' = killed \cup {Head(hw[q]).tk : q \in CutOff}
      /\ \A q \in Queues : fault'[q] = FALSE /\ late'[q] = 0
      /\ wpc' = "drain" /\ UNCHANGED <<hw, board>>
  BY DEF WorkUnits, Rep
<1>2. ASSUME NEW q \in CutOff
      PROVE  q \in Queues /\ Busy(q) /\ hw[q] # <<>> /\ Head(hw[q]) \in Elems(hw[q])
  <2>1. q \in Queues /\ Busy(q)
    BY <1>2 DEF CutOff
  <2>2. hw[q] # <<>>
    BY <1>0, <2>1 DEF Busy, Mirrored
  <2> QED
    BY <1>0, <2>1, <2>2, HeadIs
<1>3. ASSUME NEW q \in Queues PROVE CutAt(q)'
  <2>1. CutAt(q)
    BY DEF CutInv
  <2>2. \A t \in Elems(hw[q]) : t \in On(q) /\ t.tk # 0
    BY <1>0, HwOn, OnIsItem
  <2>3. ASSUME NEW t \in Elems(hw[q]), t.tk \in killed'
        PROVE  unit'[q] = "cut" /\ t = Head(hw[q])
    <3>1. CASE t.tk \in killed
      BY <1>1, <2>1, <3>1 DEF CutAt
    <3>2. CASE \E x \in CutOff : t.tk = Head(hw[x]).tk
      <4>1. PICK x \in CutOff : t.tk = Head(hw[x]).tk
        BY <3>2
      <4>2. x \in Queues /\ Head(hw[x]) \in On(x)
        BY <1>0, <1>2, HwOn
      <4>3. q = x /\ t = Head(hw[x])
        BY <1>0, <2>2, <4>1, <4>2, OneToken
      <4> QED
        BY <1>1, <4>3
    <3> QED
      BY <1>1, <2>3, <3>1, <3>2
  <2>4. unit'[q] = "cut" => board[q] = Head(hw[q]).tk
    <3>1. CASE q \in CutOff
      BY <1>2, <2>1, <3>1 DEF CutAt, CutOff
    <3>2. CASE q \notin CutOff
      BY <1>1, <2>1, <3>2 DEF CutAt
    <3> QED
      BY <3>1, <3>2
  <2> QED
    BY <1>1, <2>2, <2>3, <2>4 DEF CutAt
<1> QED
  BY <1>1, <1>3 DEF ClearIdle

(* Nor does a reset. *)
LEMMA CutReset ==
  ASSUME Lists, CutInv, WorkReset, Resets
  PROVE  ClearIdle' /\ \A q \in Queues : CutAt(q)'
<1>0. SessTypes /\ ListTypes /\ BoardTypes /\ Calls /\ Placed /\ Counted /\ Mirrored /\ Working
  BY DEF Lists
<1>8. Least(todo) \in Queues
  BY ResetLists
<1>9. PICK p \in Queues : p = Least(todo)
  BY <1>8
<1>1. /\ p \in Queues
      /\ \A t \in Elems(hw'[p]) : t \in Elems(pt[p]) \/ (t \in Elems(hw[p]) /\ t \notin BadTasks(p))
      /\ Elems(hw[p]) = Elems(rt[p])
      /\ \A x \in Queues \ {p} : hw'[x] = hw[x]
  BY <1>9, ResetLists
<1>2. /\ unit' = [unit EXCEPT ![p] = "idle"] /\ wpc' = "clear" /\ UNCHANGED todo
  BY <1>0, <1>9, ResetMoves
<1>3. UNCHANGED <<fault, late, board, killed>>
  BY DEF WorkReset, boardVars
<1>4. ClearIdle'
  BY <1>0, <1>2, <1>9 DEF ClearIdle, BoardTypes
<1>6. \A q \in Queues : ~Busy(q)
  BY <1>0 DEF Working, Resets
<1>5. ASSUME NEW q \in Queues, q # p PROVE CutAt(q)'
  <2>1. unit'[q] = unit[q] /\ hw'[q] = hw[q]
    BY <1>0, <1>1, <1>2, <1>5 DEF BoardTypes
  <2> QED
    BY <1>3, <2>1 DEF CutInv, CutAt, Busy
<1>7. CutAt(p)'
  <2>1. CutAt(p)
    BY <1>1 DEF CutInv
  <2>2. unit'[p] = "idle"
    BY <1>0, <1>1, <1>2 DEF BoardTypes
  <2>3. ~fault[p]
    BY <1>1, <1>6, <2>1 DEF CutAt, Busy
  <2>4. ASSUME NEW t \in Elems(hw'[p]), t.tk \in Marks
        PROVE  t \in Elems(hw[p]) /\ t \notin BadTasks(p)
    BY <1>1, <2>4 DEF CutInv, Marked, NotWaiting
  <2>5. \A t \in Elems(hw'[p]) : late[p] # t.tk
    <3> SUFFICES ASSUME NEW t \in Elems(hw'[p]), late[p] = t.tk PROVE FALSE
      OBVIOUS
    <3>1. t \in Elems(hw[p])
      BY <1>1, <2>4 DEF Marks
    <3> QED
      BY <1>1, <1>6, <2>1, <3>1 DEF CutAt
  <2>6. \A t \in Elems(hw'[p]) : t.tk \notin killed
    <3> SUFFICES ASSUME NEW t \in Elems(hw'[p]), t.tk \in killed PROVE FALSE
      OBVIOUS
    <3>1. t \in Elems(hw[p]) /\ t \notin BadTasks(p)
      BY <2>4 DEF Marks
    <3>2. unit[p] = "cut" /\ t = Head(hw[p])
      BY <2>1, <3>1 DEF CutAt
    <3>3. board[p] = t.tk
      BY <2>1, <3>2 DEF CutAt
    <3>4. t \in Elems(rt[p]) /\ t \in Item
      BY <1>0, <1>1, <3>1, HwOn, OnIsItem
    <3>5. t.sess \in Sessions /\ t.tk # 0
      BY <3>4 DEF Item
    <3>6. t.sess \in FailedSession(p)
      BY <3>3, <3>4, <3>5 DEF FailedSession
    <3>7. Elems(rt[p] \o pt[p]) = Elems(rt[p]) \cup Elems(pt[p])
      <4>1. rt[p] \in Seq(Item) /\ pt[p] \in Seq(Item)
        BY <1>0, <1>1 DEF ListTypes
      <4> QED
        BY <4>1, ElemsConcat
    <3>8. t \in BadTasks(p)
      BY <3>4, <3>6, <3>7 DEF BadTasks, BadAt
    <3> QED
      BY <3>1, <3>8
  <2> QED
    BY <1>3, <2>2, <2>3, <2>5, <2>6 DEF CutAt
<1> QED
  BY <1>4, <1>5, <1>7

(* Nor do a fault's interrupt and the timer. *)
LEMMA CutBooks ==
  ASSUME Lists, CutInv, NEW p \in Queues, FaultIrq(p) \/ TimerLate(p)
  PROVE  ClearIdle' /\ \A q \in Queues : CutAt(q)'
<1>0. SessTypes /\ ListTypes /\ BoardTypes /\ Calls /\ Placed /\ Counted /\ Mirrored /\ Working
  BY DEF Lists
<1>1. UNCHANGED <<unit, hw, wpc, todo, killed>> /\ Busy(p)
  BY DEF FaultIrq, TimerLate, hwVars, Busy
<1>2. \A x \in Queues \ {p} : fault'[x] = fault[x] /\ late'[x] = late[x] /\ board'[x] = board[x]
  BY <1>0 DEF FaultIrq, TimerLate, BookFault, BookLate, BoardTypes
<1>3. board'[p] = Head(hw[p]).tk
  BY <1>0 DEF FaultIrq, TimerLate, BookFault, BookLate, BoardTypes
<1>4. fault'[p] => unit[p] = "fault"
  BY <1>0 DEF FaultIrq, TimerLate, BookFault, BookLate, BoardTypes, CutInv, CutAt
<1>5. hw[p] # <<>>
  BY <1>0, <1>1 DEF Mirrored, Busy
<1>6. late'[p] = late[p] \/ late'[p] = Head(hw[p]).tk
  BY <1>0 DEF FaultIrq, TimerLate, BookFault, BookLate, BoardTypes
<1>7. ClearIdle'
  BY <1>1 DEF CutInv, ClearIdle
<1>8. \A x \in Queues \ {p} : CutAt(x)'
  BY <1>1, <1>2 DEF CutInv, CutAt, Busy
<1>9. CutAt(p)'
  <2>1. CutAt(p)
    BY DEF CutInv
  <2>2. \A t \in Elems(hw[p]) : t = Head(hw[p]) \/ t.tk # Head(hw[p]).tk
    BY <1>5, TailOff
  <2>3. \A t \in Elems(hw[p]) : late'[p] = t.tk => t = Head(hw[p])
    BY <1>6, <2>1, <2>2 DEF CutAt
  <2> QED
    BY <1>1, <1>3, <1>4, <2>1, <2>3 DEF CutAt, Busy
<1> QED
  BY <1>7, <1>8, <1>9

(* Nor does the end of a reset. *)
LEMMA CutClear ==
  ASSUME Lists, CutInv, WorkClear
  PROVE  ClearIdle' /\ \A q \in Queues : CutAt(q)'
<1>0. SessTypes /\ ListTypes /\ BoardTypes /\ Calls /\ Placed /\ Counted /\ Mirrored /\ Working
  BY DEF Lists
<1> DEFINE p == Least(todo)
<1>1. /\ wpc = "clear" /\ wpc' = "reset" /\ board' = [board EXCEPT ![p] = 0]
      /\ UNCHANGED <<unit, hw, fault, late, killed>>
  BY DEF WorkClear, hwVars
<1>2. unit[p] = "idle"
  BY <1>1 DEF CutInv, ClearIdle
<1>3. \A q \in Queues : ~Busy(q)
  BY <1>0, <1>1 DEF Working
<1> HIDE DEF p
<1>4. ASSUME NEW q \in Queues PROVE CutAt(q)'
  <2>1. CutAt(q)
    BY DEF CutInv
  <2>2. ~fault[q] /\ \A t \in Elems(hw[q]) : late[q] # t.tk
    BY <1>3, <2>1 DEF CutAt, Busy
  <2>3. q # p => board'[q] = board[q]
    BY <1>0, <1>1 DEF BoardTypes
  <2> QED
    BY <1>1, <1>2, <2>1, <2>2, <2>3 DEF CutAt
<1> QED
  BY <1>1, <1>4 DEF ClearIdle

(* Every step keeps the invariant of cut tasks. *)
LEMMA CutNext == Lists /\ CutInv /\ [Next]_vars => CutInv'
<1> SUFFICES ASSUME Lists, CutInv, [Next]_vars PROVE CutInv'
  OBVIOUS
<1>1. Marked'
  BY MarkedStep DEF CutInv
<1>2. ASSUME UNCHANGED <<unit, hw, fault, late, board, killed>>,
             wpc' = "clear" => wpc = "clear" /\ todo' = todo
      PROVE  ClearIdle' /\ \A q \in Queues : CutAt(q)'
  BY <1>2 DEF CutInv, ClearIdle, CutAt, Busy
<1>3. ClearIdle' /\ \A q \in Queues : CutAt(q)'
  BY <1>2, CutSteps, CutAppends, CutHw, CutUnits, CutReset, CutBooks, CutClear
<1> QED
  BY <1>1, <1>3 DEF CutInv

(* Nothing is cut at first. *)
LEMMA CutInit == Init => CutInv
<1> SUFFICES ASSUME Init PROVE CutInv
  OBVIOUS
<1>1. \A q \in Queues : /\ hw[q] = <<>> /\ pt[q] = <<>> /\ ~fault[q] /\ unit[q] = "idle"
                        /\ late[q] = 0 /\ board[q] = 0
  BY DEF Init, Rep
<1>2. Elems(<<>>) = {}
  BY ElemsEmpty
<1>3. \A x \in Marks : x = 0
  BY <1>1 DEF Marks, Init
<1>4. NotWaiting(0)
  <2>1. token = 1 /\ \A s \in Sessions : pc[s] = "idle"
    BY DEF Init
  <2>2. \A q \in Queues : Elems(pt[q]) = {}
    BY <1>1, <1>2
  <2> QED
    BY <2>1, <2>2 DEF NotWaiting
<1> QED
  BY <1>1, <1>2, <1>3, <1>4 DEF CutInv, Marked, ClearIdle, CutAt, Init

(* What is on the boards is the first task of its queue, and no task that  *)
(* was cut off waits to be written again.                                  *)
THEOREM CutKept == Spec => [](ListsInv /\ CutInv)
<1>1. ListsInv => Lists
  BY DEF ListsInv, Lists
<1> QED
  BY <1>1, ListsInit, ListsNext, CutInit, CutNext, PTL DEF Spec

(* A kernel that was cut off halfway is never run again. *)
THEOREM NeverRunAgain == Spec => []CutOffForGood
<1>1. CutInv => CutOffForGood
  BY DEF CutInv, CutAt, CutOffForGood
<1> QED
  BY <1>1, CutKept, PTL

-----------------------------------------------------------------------------
(* FaultsContained *)

(* Somebody of the process is to blame. *)
Blamed(s) == \E c \in culprits : Uproc[c] = Uproc[s]

(* Who is to blame for what is on the board of a queue, on its unit and    *)
(* among the tasks it gave up.                                             *)
BlameAt(q) ==
  /\ unit[q] \in {"hang", "fault"} => Head(hw[q]).sess \in culprits
  /\ \A t \in Elems(rt[q]) : t.tk = board[q] => t.sess \in culprits
  /\ \A t \in Elems(xl[q]) : failed[t.sess]

(* Who is in trouble is, or has somebody, to blame. *)
BlameOf(s) ==
  /\ tainted[s] => s \in culprits
  /\ failed[s] => Blamed(s)

(* The inductive invariant of FaultsContained. *)
BlameInv == (\A q \in Queues : BlameAt(q)) /\ (\A s \in Sessions : BlameOf(s))

(* A task that was given up belongs to a session. *)
LEMMA GivenUpOf ==
  ASSUME ListTypes, NEW q \in Queues, NEW t \in Elems(xl[q])
  PROVE  t.sess \in Sessions
<1>1. xl[q] \in Seq(Item)
  BY DEF ListTypes
<1>2. t \in Item
  BY <1>1, ElemsIn
<1> QED
  BY <1>2 DEF Item

(* The steps that bear on it. *)
LEMMA BlameSteps ==
  ASSUME [Next]_vars
  PROVE  \/ \E s \in Sessions : Add(s) /\ Accept(s)
         \/ \E q \in Queues : Isr(q) \/ TimerDispatch(q)
         \/ \E q \in Queues : HwStart(q) \/ HwFails(q) \/ Pops(q)
         \/ WorkUnits
         \/ WorkReset /\ Resets
         \/ \E q \in Queues : FaultIrq(q) \/ TimerLate(q)
         \/ \E q \in Queues : Finish(q)
         \/ WorkClear \/ WorkSpread \/ WorkMark
         \/ \E s \in Sessions : CloseTaint(s)
         \/ UNCHANGED <<unit, hw, rt, xl, board, tainted, failed, culprits>>
<1> DEFINE Same == UNCHANGED <<unit, hw, rt, xl, board, tainted, failed, culprits>>
<1>1. ASSUME NEW s \in Sessions, Call(s) \/ Publish(s) \/ WaitLook(s) \/ WaitReturn(s)
      PROVE  Same
  BY <1>1 DEF Call, Begin, WaitBegin, Publish, WaitLook, WaitReturn, sessVars, listVars, hwVars, boardVars
<1>2. ASSUME NEW s \in Sessions, CloseBegin(s) \/ CloseEnd(s) PROVE Same
  BY <1>2 DEF CloseBegin, CloseEnd, listVars, hwVars, boardVars
<1>3. ASSUME NEW s \in Sessions, Add(s), ~Accept(s) PROVE Same
  BY <1>3 DEF Add, boardVars
<1>4. ASSUME NEW q \in Queues, IsrRead(q) PROVE Same
  BY <1>4 DEF IsrRead, sessVars, listVars, boardVars
<1>5. ASSUME TimerTaint \/ WorkBegin \/ WorkDrained \/ WorkGivesUp \/ WorkSync \/ WorkEnd PROVE Same
  BY <1>5 DEF TimerTaint, WorkBegin, WorkDrained, WorkGivesUp, WorkSync, WorkEnd, sessVars, listVars,
              hwVars, boardVars
<1>6. ASSUME UNCHANGED vars PROVE Same
  BY <1>6 DEF vars, sessVars, listVars, hwVars, boardVars
<1>7. ASSUME WorkReset, ~Resets PROVE Same
  <2>1. UNCHANGED <<unit, hw, rt, xl, failed>>
    BY <1>7, PassesOver
  <2>2. UNCHANGED <<board, tainted, culprits>>
    BY <1>7 DEF WorkReset, boardVars
  <2> QED
    BY <2>1, <2>2
<1> HIDE DEF Same
<1>8. \/ \E s \in Sessions : Add(s) /\ Accept(s)
      \/ \E q \in Queues : Isr(q) \/ TimerDispatch(q)
      \/ \E q \in Queues : HwStart(q) \/ HwFails(q) \/ Pops(q)
      \/ WorkUnits
      \/ WorkReset /\ Resets
      \/ \E q \in Queues : FaultIrq(q) \/ TimerLate(q)
      \/ \E q \in Queues : Finish(q)
      \/ WorkClear \/ WorkSpread \/ WorkMark
      \/ \E s \in Sessions : CloseTaint(s)
      \/ Same
  BY <1>1, <1>2, <1>3, <1>4, <1>5, <1>6, <1>7 DEF Next, Goes, Close, WorkStep, Hw, Pops
<1> QED
  BY <1>8 DEF Same

(* Blame stays with a process while no session newly fails. *)
LEMMA BlameStays ==
  ASSUME BlameInv, failed' = failed, tainted' = tainted, culprits \subseteq culprits'
  PROVE  \A s \in Sessions : BlameOf(s)'
BY DEF BlameInv, BlameOf, Blamed

(* Adds and dispatches keep the blame where it is. *)
LEMMA BlameAppends ==
  ASSUME Lists, CutInv, BlameInv,
         \/ \E s \in Sessions : Add(s) /\ Accept(s)
         \/ \E q \in Queues : Isr(q) \/ TimerDispatch(q)
  PROVE  BlameInv'
<1>0. SessTypes /\ ListTypes /\ BoardTypes /\ Calls /\ Placed /\ Counted /\ Mirrored /\ Working
  BY DEF Lists
<1>1. /\ \A x \in Queues : hw[x] # <<>> => hw'[x] # <<>> /\ Head(hw'[x]) = Head(hw[x])
      /\ UNCHANGED <<unit, board, culprits>>
  BY <1>0, Appends
<1>2. UNCHANGED <<failed, tainted, xl>>
  BY DEF Add, Isr, TimerDispatch, sessVars
<1>3. ASSUME NEW q \in Queues PROVE BlameAt(q)'
  <2>1. BlameAt(q)
    BY DEF BlameInv
  <2>2. unit[q] # "idle" => Head(hw'[q]) = Head(hw[q])
    BY <1>0, <1>1 DEF Mirrored
  <2>3. ASSUME NEW t \in Elems(rt'[q]), t.tk = board[q]
        PROVE  t \in Elems(rt[q])
    <3>1. NotWaiting(t.tk)
      BY <2>3 DEF CutInv, Marked, Marks
    <3>2. t \notin Elems(pt[q])
      BY <3>1 DEF NotWaiting
    <3>3. ~NewTask(q, t)
      <4> SUFFICES ASSUME NewTask(q, t) PROVE FALSE
        OBVIOUS
      <4>1. PICK s \in Sessions : Add(s) /\ t = Added(s)
        BY DEF NewTask
      <4>2. t.tk = arg[s].tk /\ pc[s] = "add"
        BY <1>0, <4>1, AddedIs DEF Add
      <4> QED
        BY <3>1, <4>2 DEF NotWaiting
    <3> QED
      BY <2>3, <3>2, <3>3, Pending
  <2> QED
    BY <1>1, <1>2, <2>1, <2>2, <2>3 DEF BlameAt
<1> QED
  BY <1>1, <1>2, <1>3, BlameStays DEF BlameInv

(* So do the units' steps, which may add a culprit. *)
LEMMA BlameHw ==
  ASSUME Lists, BlameInv, NEW p \in Queues, HwStart(p) \/ HwFails(p) \/ Pops(p)
  PROVE  BlameInv'
<1>0. SessTypes /\ ListTypes /\ BoardTypes /\ Calls /\ Placed /\ Counted /\ Mirrored /\ Working
  BY DEF Lists
<1>1. UNCHANGED <<rt, xl, board, failed, tainted>> /\ culprits \subseteq culprits'
  BY DEF HwStart, HwFails, Pops, HwDone, HwRecord, HwWait, HwKeeps, boardVars, listVars, sessVars
<1>2. \A x \in Queues \ {p} : unit'[x] = unit[x] /\ hw'[x] = hw[x]
  BY <1>0 DEF HwStart, HwFails, Pops, HwDone, HwRecord, HwWait, HwPop, ListTypes, BoardTypes
<1>3. unit'[p] \in {"hang", "fault"} => Head(hw'[p]).sess \in culprits'
  BY <1>0 DEF HwStart, HwFails, Pops, HwDone, HwRecord, HwWait, BoardTypes
<1>4. \A q \in Queues : BlameAt(q)'
  BY <1>1, <1>2, <1>3 DEF BlameInv, BlameAt
<1> QED
  BY <1>1, <1>4, BlameStays DEF BlameInv

(* So do a fault's interrupt and the timer. *)
LEMMA BlameBooks ==
  ASSUME Lists, BlameInv, NEW p \in Queues, FaultIrq(p) \/ TimerLate(p)
  PROVE  BlameInv'
<1>0. SessTypes /\ ListTypes /\ BoardTypes /\ Calls /\ Placed /\ Counted /\ Mirrored /\ Working
  BY DEF Lists
<1>1. UNCHANGED <<rt, xl, hw, unit, failed>> /\ culprits \subseteq culprits'
  BY DEF FaultIrq, TimerLate, boardVars, listVars, sessVars, hwVars
<1>2. \A x \in Queues \ {p} : board'[x] = board[x]
  BY <1>0 DEF FaultIrq, TimerLate, BookFault, BookLate, BoardTypes
<1>3. board'[p] = Head(hw[p]).tk /\ Busy(p)
  BY <1>0 DEF FaultIrq, TimerLate, BookFault, BookLate, BoardTypes, Busy
<1>4. Head(hw[p]) \in Elems(rt[p])
  BY <1>0, <1>3, HeadIs, HwOn DEF Mirrored, Busy
<1>5. Head(hw[p]).sess \in culprits'
  <2>1. CASE FaultIrq(p)
    BY <1>1, <2>1 DEF FaultIrq, BlameInv, BlameAt
  <2>2. CASE TimerLate(p)
    BY <2>2 DEF TimerLate
  <2> QED
    BY <2>1, <2>2
<1>6. \A t \in Elems(rt[p]) : t.tk = board'[p] => t = Head(hw[p])
  BY <1>0, <1>3, <1>4, OneToken, HwOn
<1>7. \A q \in Queues : BlameAt(q)'
  <2>1. BlameAt(p)'
    BY <1>1, <1>5, <1>6 DEF BlameInv, BlameAt
  <2>2. \A q \in Queues \ {p} : BlameAt(q)'
    BY <1>1, <1>2 DEF BlameInv, BlameAt
  <2> QED
    BY <2>1, <2>2
<1>8. ASSUME NEW s \in Sessions PROVE BlameOf(s)'
  <2>1. CASE FaultIrq(p)
    <3>1. tainted' = tainted
      BY <2>1 DEF FaultIrq, sessVars
    <3> QED
      BY <1>1, <3>1, BlameStays
  <2>2. CASE TimerLate(p)
    <3>1. /\ tainted' = [tainted EXCEPT ![Head(rt[p]).sess] = TRUE]
          /\ culprits' = culprits \cup {Head(rt[p]).sess}
      BY <2>2 DEF TimerLate
    <3>2. tainted'[s] => tainted[s] \/ s = Head(rt[p]).sess
      BY <1>0, <3>1 DEF SessTypes
    <3> QED
      BY <1>1, <3>1, <3>2 DEF BlameInv, BlameOf, Blamed
  <2> QED
    BY <2>1, <2>2
<1> QED
  BY <1>7, <1>8 DEF BlameInv

(* A reset fails sessions of a culprit's process only. *)
LEMMA BlameReset ==
  ASSUME Lists, CutInv, BlameInv, WorkReset, Resets
  PROVE  BlameInv'
<1>0. SessTypes /\ ListTypes /\ BoardTypes /\ Calls /\ Placed /\ Counted /\ Mirrored /\ Working
  BY DEF Lists
<1>1. Least(todo) \in Queues
  BY ResetLists
<1>2. PICK p \in Queues : p = Least(todo)
  BY <1>1
<1>3. /\ \A t \in Elems(rt'[p]) : t \in Elems(pt[p]) \/ t \in Elems(rt[p])
      /\ \A x \in Queues \ {p} : rt'[x] = rt[x] /\ hw'[x] = hw[x]
  BY <1>2, ResetLists
<1> DEFINE gives == Only(rt[p] \o pt[p], BadTasks(p))
<1>4. /\ unit' = [unit EXCEPT ![p] = "idle"] /\ xl' = [xl EXCEPT ![p] = xl[p] \o gives]
      /\ failed' = [s \in Sessions |-> BadAt(p, s)] /\ gives \in Seq(Item)
  BY <1>0, <1>2, ResetMoves
<1>5. UNCHANGED <<board, tainted, culprits>>
  BY DEF WorkReset, boardVars
<1>6. pt[p] \in Seq(Item) /\ rt[p] \in Seq(Item) /\ xl[p] \in Seq(Item)
  BY <1>0 DEF ListTypes
<1>7. Elems(gives) \subseteq BadTasks(p)
  <2>3. rt[p] \o pt[p] \in Seq(Item)
    BY <1>6, ConcatProperties
  <2>5. Elems(gives) = Elems(rt[p] \o pt[p]) \cap BadTasks(p)
    BY <2>3, OnlyIs
  <2> QED
    BY <2>5
<1> HIDE DEF gives
<1>8. \A s \in Sessions : failed[s] => failed'[s]
  BY <1>4 DEF BadAt
<1>9. \A t \in Elems(gives) : t.sess \in Sessions /\ failed'[t.sess]
  <2>1. \A t \in Elems(gives) : t \in Item
    BY <1>4, ElemsIn
  <2> QED
    BY <1>4, <1>7, <2>1 DEF BadTasks, Item
<1>10. \A t \in Elems(xl[p]) : t.sess \in Sessions
  BY <1>0, GivenUpOf
<1>11. BlameAt(p)'
  <2>1. \A t \in Elems(rt'[p]) : t.tk = board[p] => t \in Elems(rt[p])
    BY <1>3 DEF CutInv, Marked, Marks, NotWaiting
  <2>2. unit'[p] = "idle" /\ xl'[p] = xl[p] \o gives
    BY <1>0, <1>4 DEF BoardTypes, ListTypes
  <2>3. Elems(xl[p] \o gives) = Elems(xl[p]) \cup Elems(gives)
    BY <1>4, <1>6, ElemsConcat
  <2>4. \A t \in Elems(xl'[p]) : failed'[t.sess]
    BY <1>8, <1>9, <1>10, <2>2, <2>3 DEF BlameInv, BlameAt
  <2> QED
    BY <1>5, <2>1, <2>2, <2>4 DEF BlameInv, BlameAt
<1>12. ASSUME NEW q \in Queues \ {p} PROVE BlameAt(q)'
  <2>1. unit'[q] = unit[q] /\ xl'[q] = xl[q] /\ rt'[q] = rt[q] /\ hw'[q] = hw[q]
    BY <1>0, <1>3, <1>4 DEF BoardTypes, ListTypes
  <2>2. \A t \in Elems(xl[q]) : t.sess \in Sessions
    BY <1>0, GivenUpOf
  <2> QED
    BY <1>5, <1>8, <2>1, <2>2 DEF BlameInv, BlameAt
<1>13. ASSUME NEW s \in Sessions PROVE BlameOf(s)'
  <2>1. s \in FailedSession(p) => s \in culprits
    BY DEF FailedSession, BlameInv, BlameAt
  <2> QED
    BY <1>4, <1>5, <2>1 DEF BlameInv, BlameOf, Blamed, BadAt
<1> QED
  BY <1>11, <1>12, <1>13 DEF BlameInv

(* Tainting the process of a board task taints sessions of a culprit's process only. *)
LEMMA BlameSpread ==
  ASSUME Lists, BlameInv, WorkSpread
  PROVE  BlameInv'
<1>0. SessTypes /\ ListTypes /\ BoardTypes /\ Calls /\ Placed /\ Counted /\ Mirrored /\ Working
  BY DEF Lists
<1> DEFINE q == Least(todo)
           lost == IF board[q] = 0 THEN {} ELSE TaintingFrom(q)
           from == {s \in lost : ~up[Uproc[s]]}
           to == UNION {SpreadTo(s) : s \in from}
<1>1. /\ failed' = [s \in Sessions |-> failed[s] \/ s \in lost \cup to]
      /\ UNCHANGED <<unit, hw, rt, xl, board, tainted, culprits>>
  BY DEF WorkSpread, listVars, hwVars
<1>2. q \in Queues
  <2>1. todo \in SUBSET Nat /\ todo \subseteq Queues /\ todo # {}
    BY <1>0 DEF BoardTypes, WorkSpread, Queues
  <2> QED
    BY <2>1, LeastIsIn
<1>3. \A s \in lost : s \in culprits
  BY <1>2 DEF TaintingFrom, BlameInv, BlameAt, Elems
<1>4. \A s \in to : \E c \in lost : Uproc[c] = Uproc[s]
  BY DEF SpreadTo
<1> HIDE DEF q, lost, from, to
<1>5. \A s \in Sessions : failed[s] => failed'[s]
  BY <1>1
<1>6. ASSUME NEW s \in Sessions PROVE BlameOf(s)'
  <2>1. s \in lost \cup to => Blamed(s)
    BY <1>3, <1>4 DEF Blamed
  <2> QED
    BY <1>1, <2>1 DEF BlameInv, BlameOf, Blamed
<1>7. ASSUME NEW x \in Queues PROVE BlameAt(x)'
  <2>1. \A t \in Elems(xl[x]) : t.sess \in Sessions
    BY <1>0, GivenUpOf
  <2> QED
    BY <1>1, <1>5, <2>1 DEF BlameInv, BlameAt
<1> QED
  BY <1>6, <1>7 DEF BlameInv

(* The other steps of the worker, a close and the finisher keep the blame where it is. *)
LEMMA BlameMore ==
  ASSUME Lists, BlameInv,
         WorkUnits \/ WorkClear \/ WorkMark \/ (\E s \in Sessions : CloseTaint(s))
           \/ (\E q \in Queues : Finish(q))
  PROVE  BlameInv'
<1>0. SessTypes /\ ListTypes /\ BoardTypes /\ Calls /\ Placed /\ Counted /\ Mirrored /\ Working
  BY DEF Lists
<1>1. CASE WorkUnits
  <2>1. UNCHANGED <<hw, rt, xl, board, tainted, failed, culprits>>
    BY <1>1 DEF WorkUnits, sessVars, listVars
  <2>2. \A q \in Queues : unit'[q] \in {"cut", unit[q]}
    BY <1>1 DEF WorkUnits
  <2> QED
    BY <2>1, <2>2, BlameStays DEF BlameInv, BlameAt
<1>2. CASE WorkClear
  <2>1. UNCHANGED <<unit, hw, rt, xl, tainted, failed, culprits>>
    BY <1>2 DEF WorkClear, sessVars, hwVars
  <2>2. \A q \in Queues : board'[q] \in {0, board[q]}
    BY <1>0, <1>2 DEF WorkClear, BoardTypes
  <2>3. \A q \in Queues : \A t \in Elems(rt[q]) : t.tk # 0
    BY <1>0, HwOn, OnIsItem
  <2>4. ASSUME NEW q \in Queues PROVE BlameAt(q)'
    <3>1. \A t \in Elems(rt'[q]) : t.tk = board'[q] => t.tk = board[q]
      BY <2>1, <2>2, <2>3
    <3> QED
      BY <2>1, <3>1 DEF BlameInv, BlameAt
  <2> QED
    BY <2>1, <2>4, BlameStays DEF BlameInv
<1>3. CASE WorkMark
  <2>1. UNCHANGED <<unit, hw, rt, xl, board, tainted, culprits>>
    BY <1>3 DEF WorkMark, listVars, hwVars
  <2>2. failed' = [s \in Sessions |-> failed[s] \/ (tainted[s] /\ Alive(s))]
    BY <1>3 DEF WorkMark
  <2>3. \A q \in Queues : \A t \in Elems(xl[q]) : t.sess \in Sessions
    BY <1>0, GivenUpOf
  <2>4. \A q \in Queues : BlameAt(q)'
    BY <2>1, <2>2, <2>3 DEF BlameInv, BlameAt
  <2>5. \A s \in Sessions : BlameOf(s)'
    BY <2>1, <2>2 DEF BlameInv, BlameOf, Blamed
  <2> QED
    BY <2>4, <2>5 DEF BlameInv
<1>4. ASSUME NEW s \in Sessions, CloseTaint(s) PROVE BlameInv'
  <2>1. UNCHANGED <<unit, hw, rt, xl, board, failed>> /\ culprits' = culprits \cup {s}
    BY <1>4 DEF CloseTaint, listVars, hwVars
  <2>2. \A x \in Sessions : tainted'[x] => tainted[x] \/ x = s
    BY <1>0, <1>4 DEF CloseTaint, SessTypes
  <2>3. \A x \in Sessions : BlameOf(x)'
    BY <2>1, <2>2 DEF BlameInv, BlameOf, Blamed
  <2>4. \A q \in Queues : BlameAt(q)'
    BY <2>1 DEF BlameInv, BlameAt
  <2> QED
    BY <2>3, <2>4 DEF BlameInv
<1>5. ASSUME NEW p \in Queues, Finish(p) PROVE BlameInv'
  <2>1. UNCHANGED <<unit, hw, rt, board, tainted, failed, culprits>>
    BY <1>5 DEF Finish, FinishBegin, FinishTask, sessVars, hwVars, boardVars
  <2>2. \A q \in Queues : xl'[q] \in {<<>>, xl[q]}
    BY <1>0, <1>5 DEF Finish, FinishBegin, FinishTask, ListTypes
  <2>3. \A q \in Queues : Elems(xl'[q]) \subseteq Elems(xl[q])
    BY <2>2, ElemsEmpty
  <2> QED
    BY <2>1, <2>3, BlameStays DEF BlameInv, BlameAt
<1> QED
  BY <1>1, <1>2, <1>3, <1>4, <1>5

(* Every step keeps the invariant of blame. *)
LEMMA BlameNext == Lists /\ CutInv /\ BlameInv /\ [Next]_vars => BlameInv'
<1> SUFFICES ASSUME Lists, CutInv, BlameInv, [Next]_vars PROVE BlameInv'
  OBVIOUS
<1>1. ASSUME UNCHANGED <<unit, hw, rt, xl, board, tainted, failed, culprits>> PROVE BlameInv'
  BY <1>1 DEF BlameInv, BlameAt, BlameOf, Blamed
<1> QED
  BY <1>1, BlameSteps, BlameAppends, BlameHw, BlameBooks, BlameReset, BlameSpread, BlameMore

(* Nobody is blamed at first. *)
LEMMA BlameInit == Init => BlameInv
<1> SUFFICES ASSUME Init PROVE BlameInv
  OBVIOUS
<1>1. \A q \in Queues : rt[q] = <<>> /\ xl[q] = <<>> /\ unit[q] = "idle"
  BY DEF Init, Rep
<1>2. \A s \in Sessions : ~failed[s] /\ ~tainted[s]
  BY DEF Init
<1> QED
  BY <1>1, <1>2, ElemsEmpty DEF BlameInv, BlameAt, BlameOf

(* Whoever loses its tasks has itself, or another session of its process,  *)
(* to blame.                                                               *)
THEOREM FaultsStay == Spec => []FaultsContained
<1>1. Lists /\ BlameInv => FaultsContained
  <2> SUFFICES ASSUME Lists, BlameInv, NEW s \in Sessions,
                      failed[s] \/ (\E q \in Queues : \E t \in Elems(xl[q]) : t.sess = s)
               PROVE  Blamed(s)
    BY DEF FaultsContained, Blamed
  <2>1. failed[s]
    BY DEF BlameInv, BlameAt
  <2> QED
    BY <2>1 DEF BlameInv, BlameOf
<1>2. ListsInv => Lists
  BY DEF ListsInv, Lists
<1> QED
  BY <1>1, <1>2, CutKept, BlameInit, BlameNext, PTL DEF Spec

-----------------------------------------------------------------------------
(* RecordsInOrder *)

(* The records of a list have rising numbers, those of a are below b's.    *)
Rising(a) ==
  \A i, j \in 1 .. Len(a) :
    j < i /\ a[i].kind = "rec" /\ a[j].kind = "rec" => a[j].seq < a[i].seq

Below(a, b) ==
  \A x \in Elems(a), y \in Elems(b) : x.kind = "rec" /\ y.kind = "rec" => x.seq < y.seq

(* A joined list rises when its parts do and the first is below the second. *)
LEMMA RisingConcat ==
  ASSUME NEW S, NEW a \in Seq(S), NEW b \in Seq(S)
  PROVE  Rising(a \o b) <=> Rising(a) /\ Rising(b) /\ Below(a, b)
<1> DEFINE c == a \o b
<1>1. /\ c \in Seq(S) /\ Len(c) = Len(a) + Len(b) /\ Len(a) \in Nat /\ Len(b) \in Nat
      /\ \A i \in 1 .. Len(a) + Len(b) : c[i] = IF i <= Len(a) THEN a[i] ELSE b[i - Len(a)]
  BY ConcatProperties, LenProperties
<1> HIDE DEF c
<1>11. ASSUME NEW i \in 1 .. Len(b) PROVE i + Len(a) \in 1 .. Len(c) /\ c[i + Len(a)] = b[i]
  <2>1. PICK k \in Int : k = i + Len(a)
    BY <1>1
  <2>2. k \in 1 .. Len(a) + Len(b) /\ ~(k <= Len(a)) /\ k - Len(a) = i
    BY <1>1, <2>1
  <2>3. c[k] = b[i]
    BY <1>1, <2>2
  <2> QED
    BY <1>1, <2>1, <2>2, <2>3
<1>2. ASSUME Rising(c) PROVE Rising(a) /\ Rising(b) /\ Below(a, b)
  <2>1. Rising(a)
    <3>1. \A i \in 1 .. Len(a) : i \in 1 .. Len(c) /\ c[i] = a[i]
      BY <1>1
    <3> QED
      BY <1>2, <3>1 DEF Rising
  <2>2. ASSUME NEW i \in 1 .. Len(b), NEW j \in 1 .. Len(b), j < i, b[i].kind = "rec", b[j].kind = "rec"
        PROVE  b[j].seq < b[i].seq
    <3>1. /\ i + Len(a) \in 1 .. Len(c) /\ c[i + Len(a)] = b[i]
          /\ j + Len(a) \in 1 .. Len(c) /\ c[j + Len(a)] = b[j]
      BY <1>11
    <3>2. j + Len(a) < i + Len(a)
      BY <1>1, <2>2
    <3> QED
      BY <1>2, <2>2, <3>1, <3>2 DEF Rising
  <2>3. ASSUME NEW x \in Elems(a), NEW y \in Elems(b), x.kind = "rec", y.kind = "rec" PROVE x.seq < y.seq
    <3>1. PICK i \in 1 .. Len(a), j \in 1 .. Len(b) : a[i] = x /\ b[j] = y
      BY DEF Elems
    <3>2. /\ i \in 1 .. Len(c) /\ c[i] = x
          /\ j + Len(a) \in 1 .. Len(c) /\ c[j + Len(a)] = y
      BY <1>1, <1>11, <3>1
    <3>3. i < j + Len(a)
      BY <1>1, <3>1
    <3> QED
      BY <1>2, <2>3, <3>2, <3>3 DEF Rising
  <2> QED
    BY <2>1, <2>2, <2>3 DEF Rising, Below
<1>3. ASSUME Rising(a), Rising(b), Below(a, b),
             NEW i \in 1 .. Len(c), NEW j \in 1 .. Len(c), j < i, c[i].kind = "rec", c[j].kind = "rec"
      PROVE  c[j].seq < c[i].seq
  <2>1. ASSUME NEW k \in 1 .. Len(c), k <= Len(a) PROVE k \in 1 .. Len(a) /\ c[k] = a[k] /\ c[k] \in Elems(a)
    BY <1>1, <2>1 DEF Elems
  <2>2. ASSUME NEW k \in 1 .. Len(c), ~(k <= Len(a))
        PROVE  k - Len(a) \in 1 .. Len(b) /\ c[k] = b[k - Len(a)] /\ c[k] \in Elems(b)
    <3>1. k - Len(a) \in 1 .. Len(b) /\ c[k] = b[k - Len(a)]
      BY <1>1, <2>2
    <3> QED
      BY <3>1 DEF Elems
  <2>3. CASE i <= Len(a)
    <3>1. j <= Len(a)
      BY <1>1, <1>3, <2>3
    <3> QED
      BY <1>3, <2>1, <2>3, <3>1 DEF Rising
  <2>4. CASE ~(i <= Len(a)) /\ ~(j <= Len(a))
    <3>1. j - Len(a) < i - Len(a)
      BY <1>1, <1>3
    <3>2. c[i] = b[i - Len(a)] /\ c[j] = b[j - Len(a)] /\ i - Len(a) \in 1 .. Len(b) /\ j - Len(a) \in 1 .. Len(b)
      BY <2>2, <2>4
    <3> QED
      BY <1>3, <3>1, <3>2 DEF Rising
  <2>5. CASE ~(i <= Len(a)) /\ j <= Len(a)
    BY <1>3, <2>1, <2>2, <2>5 DEF Below
  <2> QED
    BY <2>3, <2>4, <2>5
<1>4. Rising(a) /\ Rising(b) /\ Below(a, b) => Rising(c)
  BY <1>3 DEF Rising
<1> QED
  BY <1>2, <1>4 DEF c

(* A part of a rising list is rising. *)
LEMMA RisingOnly ==
  ASSUME NEW T, NEW list \in Seq(T), NEW S, Rising(list)
  PROVE  Rising(Only(list, S))
<1> DEFINE a == Only(list, S)
<1>1. PICK h : PartBy(h, a, list)
  BY OnlyIs
<1>2. Len(a) \in Nat /\ Len(list) \in Nat
  BY OnlyIs, LenProperties
<1> HIDE DEF a
<1>3. ASSUME NEW i \in 1 .. Len(a), NEW j \in 1 .. Len(a), j < i, a[i].kind = "rec", a[j].kind = "rec"
      PROVE  a[j].seq < a[i].seq
  <2>1. h[i] \in 1 .. Len(list) /\ h[j] \in 1 .. Len(list) /\ h[j] < h[i]
        /\ a[i] = list[h[i]] /\ a[j] = list[h[j]]
    BY <1>1, <1>3 DEF PartBy
  <2> QED
    BY <1>3, <2>1 DEF Rising
<1> QED
  BY <1>3 DEF Rising, a

(* A dispatch keeps the order of hardware queue and pt. *)
LEMMA RisingSent ==
  ASSUME NEW S, NEW h \in Seq(S), NEW out \in Seq(S), NEW rest \in Seq(S),
         Rising(h), Rising(out \o rest), Below(h, out \o rest)
  PROVE  Rising(h \o out) /\ Rising(rest) /\ Below(h \o out, rest)
<1>1. Rising(out) /\ Rising(rest) /\ Below(out, rest)
  BY RisingConcat
<1>2. Elems(out \o rest) = Elems(out) \cup Elems(rest) /\ Elems(h \o out) = Elems(h) \cup Elems(out)
  BY ElemsConcat
<1>3. Below(h, out) /\ Below(h, rest)
  BY <1>2 DEF Below
<1>4. Rising(h \o out)
  BY <1>1, <1>3, RisingConcat
<1>5. Below(h \o out, rest)
  BY <1>1, <1>2, <1>3 DEF Below
<1> QED
  BY <1>1, <1>4, <1>5

(* The numbers the records of a queue may have. *)
Within(q, t) == t.kind = "rec" => recorded[q] < t.seq /\ t.seq <= evSeq[q]

(* A unit has the records before those pending, in order. *)
OrderAt(q) ==
  /\ recorded[q] <= evSeq[q]
  /\ \A t \in Elems(hw[q]) \cup Elems(pt[q]) : Within(q, t)
  /\ Rising(hw[q]) /\ Rising(pt[q]) /\ Below(hw[q], pt[q])

(* The inductive invariant of RecordsInOrder. *)
OrderInv == \A q \in Queues : OrderAt(q)

(* Sending to the unit keeps its records in the order of their numbers. *)
LEMMA OrderSent ==
  ASSUME ListTypes, NEW q \in Queues, NEW p, NEW r \in Seq(Item), NEW n, NEW h \in Seq(Item),
         NEW out \in Seq(Item), NEW rest \in Seq(Item), Sent(q, p, r, n, h, out, rest),
         Rising(h), Rising(p), Below(h, p),
         recorded'[q] <= evSeq'[q], \A t \in Elems(h) \cup Elems(p) : Within(q, t)',
         \A x \in Queues \ {q} : OrderAt(x) /\ recorded'[x] = recorded[x] /\ evSeq'[x] = evSeq[x]
  PROVE  OrderInv'
<1>1. p = out \o rest /\ hw' = [hw EXCEPT ![q] = h \o out] /\ pt' = [pt EXCEPT ![q] = rest]
  BY DEF Sent
<1>2. Rising(h \o out) /\ Rising(rest) /\ Below(h \o out, rest)
  BY <1>1, RisingSent
<1>3. /\ Elems(p) = Elems(out) \cup Elems(rest)
      /\ Elems(pt'[q]) = Elems(rest) /\ Elems(rt'[q]) = Elems(r) \cup Elems(out)
      /\ Elems(hw'[q]) = Elems(h) \cup Elems(out)
      /\ \A x \in Queues \ {q} : pt'[x] = pt[x] /\ rt'[x] = rt[x] /\ hw'[x] = hw[x]
  BY SentLists, ZenonT(30)
<1>4. hw'[q] = h \o out /\ pt'[q] = rest
  BY <1>1 DEF ListTypes
<1>5. OrderAt(q)'
  BY <1>2, <1>3, <1>4 DEF OrderAt
<1>6. \A x \in Queues \ {q} : OrderAt(x)'
  BY <1>3 DEF OrderAt, Within
<1> QED
  BY <1>5, <1>6 DEF OrderInv

(* The steps that bear on it. *)
LEMMA OrderSteps ==
  ASSUME [Next]_vars
  PROVE  \/ \E s \in Sessions : Add(s) /\ Accept(s)
         \/ \E q \in Queues : Isr(q) \/ TimerDispatch(q)
         \/ \E q \in Queues : Pops(q)
         \/ WorkReset /\ Resets
         \/ UNCHANGED <<hw, pt, recorded, evSeq>>
<1> DEFINE Same == UNCHANGED <<hw, pt, recorded, evSeq>>
<1>1. ASSUME NEW s \in Sessions, Call(s) \/ Publish(s) \/ WaitLook(s) \/ WaitReturn(s) \/ Close(s)
      PROVE  Same
  BY <1>1 DEF Call, Begin, WaitBegin, Publish, WaitLook, WaitReturn, Close, CloseBegin, CloseTaint,
              CloseEnd, listVars, hwVars
<1>2. ASSUME NEW s \in Sessions, Add(s), ~Accept(s) PROVE Same
  BY <1>2 DEF Add
<1>3. ASSUME NEW q \in Queues,
             HwStart(q) \/ HwFails(q) \/ IsrRead(q) \/ Finish(q) \/ FaultIrq(q) \/ TimerLate(q)
      PROVE  Same
  BY <1>3 DEF HwStart, HwFails, HwKeeps, IsrRead, FaultIrq, TimerLate, listVars, hwVars, Finish,
              FinishBegin, FinishTask
<1>4. ASSUME TimerTaint \/ WorkBegin \/ WorkUnits \/ WorkDrained \/ WorkGivesUp \/ WorkSync
             \/ WorkSpread \/ WorkMark \/ WorkClear \/ WorkEnd
      PROVE  Same
  BY <1>4 DEF TimerTaint, WorkBegin, WorkUnits, WorkDrained, WorkGivesUp, WorkSync, WorkSpread,
              WorkMark, WorkClear, WorkEnd, listVars, hwVars
<1>5. ASSUME UNCHANGED vars PROVE Same
  BY <1>5 DEF vars, listVars, hwVars
<1>6. ASSUME WorkReset, ~Resets PROVE Same
  <2>1. UNCHANGED <<pt, hw>>
    BY <1>6, PassesOver
  <2>2. UNCHANGED <<recorded, evSeq>>
    BY <1>6 DEF WorkReset
  <2> QED
    BY <2>1, <2>2
<1> HIDE DEF Same
<1>7. \/ \E s \in Sessions : Add(s) /\ Accept(s)
      \/ \E q \in Queues : Isr(q) \/ TimerDispatch(q)
      \/ \E q \in Queues : Pops(q)
      \/ WorkReset /\ Resets
      \/ Same
  BY <1>1, <1>2, <1>3, <1>4, <1>5, <1>6 DEF Next, Goes, WorkStep, Hw, Pops
<1> QED
  BY <1>7 DEF Same

(* A record gets the next number of its queue. *)
LEMMA OrderAdd ==
  ASSUME Lists, OrderInv, NEW s \in Sessions, Add(s), Accept(s)
  PROVE  OrderInv'
<1>0. SessTypes /\ ListTypes /\ BoardTypes /\ Calls /\ Placed /\ Counted /\ Mirrored /\ Working
  BY DEF Lists
<1>1. PICK q \in Queues : q = bound[s]
  BY <1>0, AddedIs
<1>2. PICK t \in Item : t = Added(s)
  BY <1>0, AddedIs
<1>3. PICK out \in Seq(Item), rest \in Seq(Item) :
            Sent(q, pt[q] \o <<t>>, rt[q], Len(rt[q]), hw[q], out, rest)
  BY <1>0, <1>1, <1>2, AddMoves
<1>4. pt[q] \in Seq(Item) /\ rt[q] \in Seq(Item) /\ hw[q] \in Seq(Item)
      /\ evSeq[q] \in Nat /\ recorded[q] \in Nat
  BY <1>0 DEF ListTypes, BoardTypes
<1>5. <<t>> \in Seq(Item) /\ Elems(<<t>>) = {t} /\ Len(<<t>>) = 1 /\ <<t>>[1] = t
  BY One
<1>6. t.kind = "rec" => evSeq'[q] = evSeq[q] + 1 /\ t.seq = evSeq[q] + 1
  <2>1. t.kind = arg[s].kind
    BY <1>0, <1>2, AddedIs
  <2>2. arg[s] \in Item
    BY <1>0 DEF Calls, Add
  <2>3. ASSUME t.kind = "rec" PROVE t.seq = evSeq[q] + 1
    BY <1>1, <1>2, <2>1, <2>2, <2>3 DEF Added, RecordSeq, Item
  <2>4. ASSUME t.kind = "rec" PROVE evSeq' = [evSeq EXCEPT ![q] = t.seq]
    BY <1>1, <1>2, <2>1, <2>4 DEF Add, Added
  <2> QED
    BY <1>0, <2>3, <2>4 DEF BoardTypes
<1>7. t.kind # "rec" => evSeq' = evSeq
  <2>1. t.kind = arg[s].kind
    BY <1>0, <1>2, AddedIs
  <2> QED
    BY <2>1 DEF Add
<1>8. recorded' = recorded /\ \A x \in Queues \ {q} : evSeq'[x] = evSeq[x]
  <2>1. evSeq' = evSeq \/ \E n : evSeq' = [evSeq EXCEPT ![q] = n]
    BY <1>1 DEF Add
  <2>2. recorded' = recorded
    BY DEF Add
  <2> QED
    BY <1>0, <2>1, <2>2 DEF BoardTypes
<1>9. OrderAt(q)
  BY DEF OrderInv
<1>10. evSeq'[q] \in Nat /\ evSeq[q] <= evSeq'[q]
  BY <1>4, <1>6, <1>7
<1>11. \A x \in Elems(hw[q]) \cup Elems(pt[q]) : x \in Item /\ Within(q, x)
  BY <1>4, <1>9, ElemsIn DEF OrderAt
<1>12. \A x \in Item : x.seq \in Nat
  BY DEF Item
<1>13. Elems(pt[q] \o <<t>>) = Elems(pt[q]) \cup {t}
  <2> DEFINE u == <<t>>
  <2>1. u \in Seq(Item) /\ Elems(u) = {t}
    BY <1>5
  <2> HIDE DEF u
  <2>2. Elems(pt[q] \o u) = Elems(pt[q]) \cup Elems(u)
    BY <1>4, <2>1, ElemsConcat
  <2> QED
    BY <2>1, <2>2 DEF u
<1>14. \A x \in Elems(hw[q]) \cup Elems(pt[q] \o <<t>>) : Within(q, x)'
  <2>1. ASSUME NEW x \in Elems(hw[q]) \cup Elems(pt[q]) PROVE Within(q, x)'
    BY <1>4, <1>8, <1>10, <1>11, <1>12 DEF Within
  <2>2. Within(q, t)'
    BY <1>4, <1>6, <1>8, <1>9 DEF Within, OrderAt
  <2> QED
    BY <1>13, <2>1, <2>2
<1>15. Below(hw[q], <<t>>) /\ Below(pt[q], <<t>>)
  <2>1. ASSUME NEW x \in Elems(hw[q]) \cup Elems(pt[q]), x.kind = "rec", t.kind = "rec"
        PROVE  x.seq < t.seq
    BY <1>4, <1>6, <1>11, <1>12, <2>1 DEF Within
  <2> QED
    BY <1>5, <2>1 DEF Below
<1>16. Rising(<<t>>)
  <2>1. \A i, j \in 1 .. Len(<<t>>) : ~(j < i)
    BY <1>5
  <2> QED
    BY <2>1 DEF Rising
<1>17. Rising(pt[q] \o <<t>>)
  <2>1. Rising(pt[q])
    BY <1>9 DEF OrderAt
  <2> QED
    BY <1>4, <1>5, <1>15, <1>16, <2>1, RisingConcat
<1>18. Below(hw[q], pt[q] \o <<t>>)
  BY <1>5, <1>9, <1>13, <1>15 DEF Below, OrderAt
<1>19. Rising(hw[q]) /\ recorded'[q] <= evSeq'[q]
  BY <1>4, <1>8, <1>9, <1>10 DEF OrderAt
<1>20. \A x \in Queues \ {q} : OrderAt(x) /\ recorded'[x] = recorded[x] /\ evSeq'[x] = evSeq[x]
  BY <1>8 DEF OrderInv
<1> DEFINE p == pt[q] \o <<t>>
<1>21. Rising(p) /\ Below(hw[q], p) /\ Sent(q, p, rt[q], Len(rt[q]), hw[q], out, rest)
       /\ \A x \in Elems(hw[q]) \cup Elems(p) : Within(q, x)'
  BY <1>3, <1>14, <1>17, <1>18
<1> HIDE DEF p
<1> QED
  BY <1>0, <1>4, <1>19, <1>20, <1>21, OrderSent

(* So do the interrupt handler and the timer. *)
LEMMA OrderMoves ==
  ASSUME Lists, OrderInv, NEW q \in Queues, Isr(q) \/ TimerDispatch(q)
  PROVE  OrderInv'
<1>0. SessTypes /\ ListTypes /\ BoardTypes /\ Calls /\ Placed /\ Counted /\ Mirrored /\ Working
  BY DEF Lists
<1>1. pt[q] \in Seq(Item) /\ rt[q] \in Seq(Item) /\ hw[q] \in Seq(Item)
  BY <1>0 DEF ListTypes
<1>2. PICK r \in Seq(Item), out \in Seq(Item), rest \in Seq(Item) :
         Sent(q, pt[q], r, Len(r), hw[q], out, rest)
  BY <1>0, <1>1, IsrMoves, TimerMoves
<1>3. UNCHANGED <<recorded, evSeq>>
  BY DEF Isr, TimerDispatch
<1>4. OrderAt(q)
  BY DEF OrderInv
<1>5. \A x \in Queues \ {q} : OrderAt(x) /\ recorded'[x] = recorded[x] /\ evSeq'[x] = evSeq[x]
  BY <1>3 DEF OrderInv
<1>6. Rising(hw[q]) /\ Rising(pt[q]) /\ Below(hw[q], pt[q]) /\ recorded'[q] <= evSeq'[q]
      /\ \A t \in Elems(hw[q]) \cup Elems(pt[q]) : Within(q, t)'
  BY <1>3, <1>4 DEF OrderAt, Within
<1> QED
  BY <1>0, <1>1, <1>2, <1>5, <1>6, OrderSent

(* So does a unit that ends a task. *)
LEMMA OrderPops ==
  ASSUME Lists, OrderInv, NEW q \in Queues, Pops(q)
  PROVE  OrderInv'
<1>0. SessTypes /\ ListTypes /\ BoardTypes /\ Calls /\ Placed /\ Counted /\ Mirrored /\ Working
  BY DEF Lists
<1>1. /\ hw[q] # <<>> /\ Tail(hw[q]) \in Seq(Item) /\ Head(hw[q]) \in Item
      /\ hw[q] = <<Head(hw[q])>> \o Tail(hw[q])
      /\ Elems(hw[q]) = {Head(hw[q])} \cup Elems(Tail(hw[q]))
      /\ hw' = [hw EXCEPT ![q] = Tail(hw[q])] /\ UNCHANGED <<pt, evSeq>>
  BY <1>0, PopIs DEF listVars
<1>2. hw'[q] = Tail(hw[q]) /\ \A x \in Queues \ {q} : hw'[x] = hw[x]
  BY <1>0, <1>1 DEF ListTypes
<1>3. \/ recorded' = recorded
      \/ Head(hw[q]).kind = "rec" /\ recorded' = [recorded EXCEPT ![q] = Head(hw[q]).seq]
  <2>1. ASSUME HwDone(q) \/ HwWait(q) PROVE recorded' = recorded
    BY <2>1 DEF HwDone, HwWait
  <2>2. ASSUME HwRecord(q)
        PROVE  Head(hw[q]).kind = "rec" /\ recorded' = [recorded EXCEPT ![q] = Head(hw[q]).seq]
    BY <2>2 DEF HwRecord, Head1
  <2> QED
    BY <2>1, <2>2 DEF Pops
<1>4. OrderAt(q)
  BY DEF OrderInv
<1> DEFINE h == Head(hw[q])
           a == <<h>>
           u == Tail(hw[q])
<1>5. a \in Seq(Item) /\ Elems(a) = {h} /\ u \in Seq(Item) /\ hw[q] = a \o u
  BY <1>1, One
<1>6. Rising(a \o u)
  BY <1>4, <1>5 DEF OrderAt
<1> HIDE DEF a, u
<1>7. Rising(u) /\ Below(a, u)
  BY <1>5, <1>6, RisingConcat
<1>8. Rising(hw'[q]) /\ Below(hw'[q], pt[q])
  <2>1. hw'[q] = u
    BY <1>2 DEF u
  <2>2. Elems(u) \subseteq Elems(hw[q])
    BY <1>1 DEF u
  <2> QED
    BY <1>4, <1>7, <2>1, <2>2 DEF Below, OrderAt
<1>9. \A t \in Elems(u) \cup Elems(pt[q]) : t.kind = "rec" /\ h.kind = "rec" => h.seq < t.seq
  <2>1. h \in Elems(hw[q])
    BY <1>1
  <2> QED
    BY <1>4, <1>5, <1>7, <2>1 DEF Below, OrderAt
<1>10. \A t \in Elems(hw'[q]) \cup Elems(pt[q]) : Within(q, t)'
  <2>1. hw'[q] = u /\ Elems(u) \subseteq Elems(hw[q])
    BY <1>1, <1>2 DEF u
  <2>2. CASE recorded' = recorded
    BY <1>1, <1>4, <2>1, <2>2 DEF OrderAt, Within
  <2>3. CASE h.kind = "rec" /\ recorded' = [recorded EXCEPT ![q] = h.seq]
    <3>1. recorded'[q] = h.seq
      BY <1>0, <2>3 DEF BoardTypes
    <3> QED
      BY <1>1, <1>4, <1>9, <2>1, <2>3, <3>1 DEF OrderAt, Within
  <2> QED
    BY <1>3, <2>2, <2>3
<1>11. recorded'[q] <= evSeq'[q]
  <2>1. CASE recorded' = recorded
    BY <1>1, <1>4, <2>1 DEF OrderAt
  <2>2. CASE h.kind = "rec" /\ recorded' = [recorded EXCEPT ![q] = h.seq]
    <3>1. recorded'[q] = h.seq /\ h \in Elems(hw[q])
      BY <1>0, <1>1, <2>2 DEF BoardTypes
    <3> QED
      BY <1>1, <1>4, <2>2, <3>1 DEF OrderAt, Within
  <2> QED
    BY <1>3, <2>1, <2>2
<1>12. OrderAt(q)'
  BY <1>1, <1>4, <1>8, <1>10, <1>11 DEF OrderAt
<1>13. ASSUME NEW x \in Queues \ {q} PROVE OrderAt(x)'
  <2>1. recorded'[x] = recorded[x] /\ hw'[x] = hw[x] /\ pt' = pt /\ evSeq' = evSeq
    BY <1>0, <1>1, <1>2, <1>3 DEF BoardTypes
  <2>2. OrderAt(x)
    BY DEF OrderInv
  <2> QED
    BY <2>1, <2>2 DEF OrderAt, Within
<1> QED
  BY <1>12, <1>13 DEF OrderInv

(* So does a reset. *)
LEMMA OrderReset ==
  ASSUME Lists, OrderInv, WorkReset, Resets
  PROVE  OrderInv'
<1>0. SessTypes /\ ListTypes /\ BoardTypes /\ Calls /\ Placed /\ Counted /\ Mirrored /\ Working
  BY DEF Lists
<1>1. Least(todo) \in Queues
  BY ResetLists
<1>2. PICK q \in Queues : q = Least(todo)
  BY <1>1
<1> DEFINE gives == Only(rt[q] \o pt[q], BadTasks(q))
           r == Kept(gives, rt[q])
           p == Kept(gives, pt[q])
<1>3. /\ r \in Seq(Item) /\ p \in Seq(Item)
      /\ \E out \in Seq(Item), rest \in Seq(Item) : Sent(q, p, r, Len(r), r, out, rest)
  BY <1>0, <1>2, ResetMoves
<1>4. pt[q] \in Seq(Item) /\ rt[q] \in Seq(Item) /\ hw[q] \in Seq(Item)
  BY <1>0 DEF ListTypes
<1>5. rt[q] = hw[q]
  <2>1. PICK done \in Seq(Item) : rt[q] = done \o hw[q] /\ Len(done) = intr[q] + isr[q]
    BY <1>0 DEF Mirrored, Behind
  <2>2. Len(done) = 0
    BY <1>0, <2>1 DEF Working, Handled, Resets
  <2>3. done = <<>>
    BY <2>2, EmptySeq
  <2> QED
    BY <1>4, <2>1, <2>3, ConcatEmptySeq
<1>6. OrderAt(q)
  BY DEF OrderInv
<1> HIDE DEF gives
<1>7. Elems(r) \subseteq Elems(hw[q]) /\ Elems(p) \subseteq Elems(pt[q]) /\ Rising(r) /\ Rising(p)
  <2>1. Rising(rt[q]) /\ Rising(pt[q])
    BY <1>5, <1>6 DEF OrderAt
  <2>2. Rising(r) /\ Rising(p)
    BY <1>4, <2>1, RisingOnly DEF Kept
  <2>3. Elems(r) = Elems(rt[q]) \cap (Elems(rt[q]) \ Elems(gives))
    BY <1>4, OnlyIs DEF Kept
  <2>4. Elems(p) = Elems(pt[q]) \cap (Elems(pt[q]) \ Elems(gives))
    BY <1>4, OnlyIs DEF Kept
  <2> QED
    BY <1>5, <2>2, <2>3, <2>4
<1> HIDE DEF r, p
<1>8. UNCHANGED <<recorded, evSeq>>
  BY DEF WorkReset
<1>9. /\ Below(r, p) /\ recorded'[q] <= evSeq'[q]
      /\ \A t \in Elems(r) \cup Elems(p) : Within(q, t)'
  BY <1>6, <1>7, <1>8 DEF OrderAt, Within, Below
<1>10. \A x \in Queues \ {q} : OrderAt(x) /\ recorded'[x] = recorded[x] /\ evSeq'[x] = evSeq[x]
  BY <1>8 DEF OrderInv
<1> QED
  BY <1>0, <1>3, <1>7, <1>9, <1>10, OrderSent

(* Every step keeps the records in order. *)
LEMMA OrderNext == Lists /\ OrderInv /\ [Next]_vars => OrderInv'
<1> SUFFICES ASSUME Lists, OrderInv, [Next]_vars PROVE OrderInv'
  OBVIOUS
<1>1. ASSUME UNCHANGED <<hw, pt, recorded, evSeq>> PROVE OrderInv'
  BY <1>1 DEF OrderInv, OrderAt, Within
<1> QED
  BY <1>1, OrderSteps, OrderAdd, OrderMoves, OrderPops, OrderReset

(* There are no records at first. *)
LEMMA OrderInit == Init => OrderInv
<1> SUFFICES ASSUME Init, NEW q \in Queues PROVE OrderAt(q)
  BY DEF OrderInv
<1>1. hw[q] = <<>> /\ pt[q] = <<>> /\ recorded[q] = 0 /\ evSeq[q] = 0
  BY DEF Init, Rep
<1>2. Elems(<<>>) = {} /\ Len(<<>>) = 0
  BY ElemsEmpty, EmptySeq
<1>3. Rising(<<>>) /\ Below(<<>>, <<>>)
  BY <1>2 DEF Rising, Below
<1> QED
  BY <1>1, <1>2, <1>3 DEF OrderAt

(* The records of a queue reach the hardware in the order of their         *)
(* numbers, none of which has been recorded before.                        *)
THEOREM OrderKept == Spec => []RecordsInOrder
<1>1. Lists /\ OrderInv => RecordsInOrder
  <2> SUFFICES ASSUME Lists, OrderInv, NEW q \in Queues,
                      NEW i \in 1 .. Len(hw[q] \o pt[q]), (hw[q] \o pt[q])[i].kind = "rec"
               PROVE  /\ (hw[q] \o pt[q])[i].seq \in (recorded[q] + 1) .. evSeq[q]
                      /\ \A j \in 1 .. (i - 1) : (hw[q] \o pt[q])[j].kind = "rec" =>
                            (hw[q] \o pt[q])[j].seq < (hw[q] \o pt[q])[i].seq
    BY DEF RecordsInOrder
  <2>0. ListTypes /\ BoardTypes
    BY DEF Lists
  <2>1. hw[q] \in Seq(Item) /\ pt[q] \in Seq(Item) /\ recorded[q] \in Nat /\ evSeq[q] \in Nat
    BY <2>0 DEF ListTypes, BoardTypes
  <2>2. OrderAt(q)
    BY DEF OrderInv
  <2>3. Rising(hw[q] \o pt[q])
    BY <2>1, <2>2, RisingConcat DEF OrderAt
  <2>4. hw[q] \o pt[q] \in Seq(Item) /\ Elems(hw[q] \o pt[q]) = Elems(hw[q]) \cup Elems(pt[q])
    BY <2>1, ElemsConcat
  <2> DEFINE list == hw[q] \o pt[q]
  <2>5. list[i] \in Elems(list) /\ list[i] \in Item /\ Len(list) \in Nat
    BY <2>4, ElemsIn, LenProperties DEF Elems
  <2>6. Within(q, list[i])
    BY <2>2, <2>4, <2>5 DEF OrderAt
  <2>7. list[i].seq \in Nat
    BY <2>5 DEF Item
  <2> HIDE DEF list
  <2>8. list[i].kind = "rec" /\ Rising(list) /\ i \in 1 .. Len(list)
    BY <2>3 DEF list
  <2>9. list[i].seq \in (recorded[q] + 1) .. evSeq[q]
    BY <2>1, <2>6, <2>7, <2>8 DEF Within
  <2>10. ASSUME NEW j \in 1 .. (i - 1), list[j].kind = "rec" PROVE list[j].seq < list[i].seq
    <3>1. j \in 1 .. Len(list) /\ j < i
      BY <2>5, <2>8
    <3> QED
      BY <2>8, <2>10, <3>1 DEF Rising
  <2> QED
    BY <2>9, <2>10 DEF list
<1>2. ListsInv => Lists
  BY DEF ListsInv, Lists
<1> QED
  BY <1>1, <1>2, ListsInit, ListsNext, OrderInit, OrderNext, PTL DEF Spec

-----------------------------------------------------------------------------
(* RevokedForGood *)

(* A session in error or told to stop; what makes the exception work come  *)
(* to a queue; its unfinished tasks.                                       *)
InTrouble(s) == failed[s] \/ tainted[s]
Told(q) == htaint[q] \/ draining[q]
Pends(q) == board[q] # 0 \/ again[q] \/ spread[q] \/ Told(q)
Held(q) == Elems(pt[q]) \cup Elems(rt[q])

(* A queue with tasks of a session in trouble is still to be reset.  While *)
(* the queues are reset, the sessions told to stop in the meantime are     *)
(* left to the timer.                                                      *)
RevokeAt(q) ==
  \A t \in Held(q) :
    /\ InTrouble(t.sess) => Pends(q)
    /\ wpc \in {"reset", "clear"} /\ tainted[t.sess] /\ ~failed[t.sess] => Told(q)

(* Right after a reset no task of a session in error is left. *)
ClearNone == wpc = "clear" => \A t \in Held(Least(todo)) : ~failed[t.sess]

(* The inductive invariant of RevokedForGood. *)
RevokeInv == ClearNone /\ \A q \in Queues : RevokeAt(q)

(* The steps that bear on it. *)
LEMMA RevokeSteps ==
  ASSUME [Next]_vars
  PROVE  \/ \E s \in Sessions : Add(s) /\ Accept(s)
         \/ \E q \in Queues : Isr(q) \/ TimerDispatch(q)
         \/ \E q \in Queues : FaultIrq(q) \/ TimerLate(q)
         \/ \E s \in Sessions : CloseTaint(s)
         \/ TimerTaint \/ WorkSpread \/ WorkMark \/ WorkClear
         \/ WorkReset /\ Resets
         \/ /\ UNCHANGED <<pt, rt, failed, tainted, board, again, spread, htaint, draining>>
            /\ wpc' \in {"reset", "clear"} => wpc \in {"reset", "clear"}
            /\ wpc' = "clear" => wpc = "clear" /\ todo' = todo
<1> DEFINE Same == /\ UNCHANGED <<pt, rt, failed, tainted, board, again, spread, htaint, draining>>
                   /\ wpc' \in {"reset", "clear"} => wpc \in {"reset", "clear"}
                   /\ wpc' = "clear" => wpc = "clear" /\ todo' = todo
<1>1. ASSUME NEW s \in Sessions, Call(s) \/ Publish(s) \/ WaitLook(s) \/ WaitReturn(s)
      PROVE  Same
  BY <1>1 DEF Call, Begin, WaitBegin, Publish, WaitLook, WaitReturn, sessVars, listVars, boardVars,
              workVars
<1>2. ASSUME NEW s \in Sessions, CloseBegin(s) \/ CloseEnd(s) PROVE Same
  BY <1>2 DEF CloseBegin, CloseEnd, listVars, boardVars, workVars
<1>3. ASSUME NEW s \in Sessions, Add(s), ~Accept(s) PROVE Same
  BY <1>3 DEF Add, boardVars, workVars
<1>4. ASSUME NEW q \in Queues, IsrRead(q) \/ Finish(q) PROVE Same
  BY <1>4 DEF IsrRead, Finish, FinishBegin, FinishTask, sessVars, listVars, boardVars, workVars
<1>5. ASSUME NEW q \in Queues, HwStart(q) \/ HwFails(q) \/ Pops(q) PROVE Same
  BY <1>5 DEF HwStart, HwFails, Pops, HwDone, HwRecord, HwWait, HwKeeps, sessVars, listVars, boardVars,
              workVars
<1>6. ASSUME WorkBegin \/ WorkUnits \/ WorkDrained \/ WorkGivesUp PROVE Same
  BY <1>6 DEF WorkBegin, WorkUnits, WorkDrained, WorkGivesUp, sessVars, listVars, boardVars
<1>7. ASSUME WorkSync \/ WorkEnd PROVE Same
  BY <1>7 DEF WorkSync, WorkEnd, sessVars, listVars, boardVars
<1>8. ASSUME UNCHANGED vars PROVE Same
  BY <1>8 DEF vars, sessVars, listVars, boardVars, workVars
<1>9. ASSUME WorkReset, ~Resets PROVE Same
  <2>1. UNCHANGED <<pt, rt, failed, wpc>> /\ wpc = "reset"
    BY <1>9, PassesOver
  <2>2. UNCHANGED <<board, again, spread, htaint, draining, tainted>>
    BY <1>9 DEF WorkReset, boardVars
  <2> QED
    BY <2>1, <2>2
<1> HIDE DEF Same
<1>10. \/ \E s \in Sessions : Add(s) /\ Accept(s)
       \/ \E q \in Queues : Isr(q) \/ TimerDispatch(q)
       \/ \E q \in Queues : FaultIrq(q) \/ TimerLate(q)
       \/ \E s \in Sessions : CloseTaint(s)
       \/ TimerTaint \/ WorkSpread \/ WorkMark \/ WorkClear
       \/ WorkReset /\ Resets
       \/ Same
  BY <1>1, <1>2, <1>3, <1>4, <1>5, <1>6, <1>7, <1>8, <1>9 DEF Next, Goes, Close, WorkStep, Hw, Pops
<1> QED
  BY <1>10 DEF Same

(* A held task belongs to a session that is bound to the queue. *)
LEMMA HeldBound ==
  ASSUME Lists, NEW q \in Queues, NEW t \in Held(q)
  PROVE  t.sess \in Sessions /\ bound[t.sess] = q /\ t.tk # 0 /\ t \in On(q)
<1>0. SessTypes /\ ListTypes /\ BoardTypes /\ Calls /\ Placed /\ Counted /\ Mirrored /\ Working
  BY DEF Lists
<1>1. t \in On(q)
  BY <1>0, HwOn DEF Held
<1>2. t \in Item
  BY <1>0, <1>1, OnIsItem
<1> QED
  BY <1>0, <1>1, <1>2 DEF Placed, Item

(* Adds and dispatches leave no task of a failed session without a worker to come. *)
LEMMA RevokeAppends ==
  ASSUME Lists, RevokeInv,
         \/ \E s \in Sessions : Add(s) /\ Accept(s)
         \/ \E q \in Queues : Isr(q) \/ TimerDispatch(q)
  PROVE  RevokeInv'
<1>0. SessTypes /\ ListTypes /\ BoardTypes /\ Calls /\ Placed /\ Counted /\ Mirrored /\ Working
  BY DEF Lists
<1>1. UNCHANGED <<failed, tainted, board, again, spread, htaint, draining, wpc, todo>>
  BY DEF Add, Isr, TimerDispatch, sessVars, boardVars, workVars
<1>2. ASSUME NEW q \in Queues, NEW t \in Held(q)'
      PROVE  t \in Held(q) \/ ~InTrouble(t.sess)
  <2>1. t \in Held(q) \/ NewTask(q, t)
    BY <1>2, Pending DEF Held
  <2>2. ASSUME NewTask(q, t) PROVE ~InTrouble(t.sess)
    <3>1. PICK s \in Sessions : Add(s) /\ Accept(s) /\ t = Added(s)
      BY <2>2 DEF NewTask
    <3>2. t.sess = s
      BY <1>0, <3>1, AddedIs
    <3> QED
      BY <3>1, <3>2 DEF Accept, Normal, InTrouble
  <2> QED
    BY <2>1, <2>2
<1>3. \A q \in Queues : RevokeAt(q)'
  BY <1>1, <1>2 DEF RevokeInv, RevokeAt, InTrouble, Told, Pends
<1>4. ClearNone'
  <2> SUFFICES ASSUME wpc = "clear", NEW q \in Queues, q = Least(todo), NEW t \in Held(q)'
               PROVE  ~failed[t.sess]
    <3>1. wpc = "clear" => Least(todo) \in Queues
      <4>1. todo \in SUBSET Nat /\ (wpc = "clear" => todo # {}) /\ todo \subseteq Queues
        BY <1>0 DEF BoardTypes, Queues
      <4> QED
        BY <4>1, LeastIsIn
    <3>2. ASSUME wpc = "clear" PROVE \A t \in Held(Least(todo))' : ~failed[t.sess]
      <4>1. PICK q \in Queues : q = Least(todo)
        BY <3>1, <3>2
      <4>2. \A t \in Held(q)' : ~failed[t.sess]
        BY <3>2, <4>1
      <4> QED
        BY <1>1, <4>1, <4>2 DEF Held
    <3> QED
      BY <1>1, <3>2 DEF ClearNone
  <2> QED
    BY <1>2 DEF RevokeInv, ClearNone, InTrouble
<1> QED
  BY <1>3, <1>4 DEF RevokeInv

(* Nor do a fault's interrupt and the timer's late task. *)
LEMMA RevokeBooks ==
  ASSUME Lists, RevokeInv, NEW p \in Queues, FaultIrq(p) \/ TimerLate(p)
  PROVE  RevokeInv'
<1>0. SessTypes /\ ListTypes /\ BoardTypes /\ Calls /\ Placed /\ Counted /\ Mirrored /\ Working
  BY DEF Lists
<1>1. UNCHANGED <<pt, rt, failed, wpc, again, spread, htaint, draining>> /\ Busy(p)
  BY DEF FaultIrq, TimerLate, boardVars, listVars, sessVars, Busy
<1>2. wpc \notin {"reset", "clear"}
  BY <1>0, <1>1 DEF Working
<1>3. \A x \in Queues \ {p} : board'[x] = board[x]
  BY <1>0 DEF FaultIrq, TimerLate, BookFault, BookLate, BoardTypes
<1>4. board'[p] = Head(hw[p]).tk
  BY <1>0 DEF FaultIrq, TimerLate, BookFault, BookLate, BoardTypes
<1>5. Head(hw[p]).tk # 0
  BY <1>0, <1>1, HeadIs DEF Mirrored, Busy, Item
<1>6. \A q \in Queues : Held(q)' = Held(q)
  BY <1>1 DEF Held
<1>7. Pends(p)'
  BY <1>4, <1>5 DEF Pends
<1>8. ASSUME NEW q \in Queues \ {p}, NEW t \in Held(q), InTrouble(t.sess)' PROVE Pends(q)'
  <2>1. t.sess \in Sessions /\ bound[t.sess] = q
    BY HeldBound
  <2>2. InTrouble(t.sess)
    <3>1. CASE FaultIrq(p)
      BY <1>1, <1>8, <3>1 DEF InTrouble, FaultIrq, sessVars
    <3>2. CASE TimerLate(p)
      <4>1. Head(rt[p]) \in Held(p)
        BY <1>0, <3>2, HeadIs DEF TimerLate, Held
      <4>2. bound[Head(rt[p]).sess] = p
        BY <4>1, HeldBound
      <4>3. tainted'[t.sess] = tainted[t.sess]
        BY <1>0, <2>1, <3>2, <4>2 DEF TimerLate, SessTypes
      <4> QED
        BY <1>1, <1>8, <4>3 DEF InTrouble
    <3> QED
      BY <3>1, <3>2
  <2> QED
    BY <1>1, <1>3, <2>2 DEF RevokeInv, RevokeAt, Pends, Told
<1>9. \A q \in Queues : RevokeAt(q)'
  BY <1>1, <1>2, <1>6, <1>7, <1>8 DEF RevokeAt
<1> QED
  BY <1>1, <1>2, <1>9 DEF RevokeInv, ClearNone

(* Nor does a close. *)
LEMMA RevokeCloses ==
  ASSUME Lists, RevokeInv, NEW s \in Sessions, CloseTaint(s)
  PROVE  RevokeInv'
<1>0. SessTypes /\ ListTypes /\ BoardTypes /\ Calls /\ Placed /\ Counted /\ Mirrored /\ Working
  BY DEF Lists
<1>1. UNCHANGED <<pt, rt, failed, wpc, todo, again, spread, board, draining>>
  BY DEF CloseTaint, listVars, workVars
<1>2. \A q \in Queues : (htaint[q] => htaint'[q]) /\ (bound[s] = q => htaint'[q])
  BY <1>0 DEF CloseTaint, BoardTypes
<1>3. \A x \in Sessions : tainted'[x] => tainted[x] \/ x = s
  BY <1>0 DEF CloseTaint, SessTypes
<1>4. ASSUME NEW q \in Queues, NEW t \in Held(q)
      PROVE  /\ InTrouble(t.sess)' => Pends(q)'
             /\ wpc \in {"reset", "clear"} /\ tainted'[t.sess] /\ ~failed[t.sess] => Told(q)'
  <2>1. t.sess \in Sessions /\ bound[t.sess] = q
    BY HeldBound
  <2>2. CASE t.sess = s
    BY <1>2, <2>1, <2>2 DEF Pends, Told
  <2>3. CASE t.sess # s
    BY <1>1, <1>2, <1>3, <2>1, <2>3 DEF RevokeInv, RevokeAt, Pends, Told, InTrouble
  <2> QED
    BY <2>2, <2>3
<1>5. \A q \in Queues : RevokeAt(q)'
  BY <1>1, <1>4 DEF RevokeAt, Held
<1>6. ClearNone'
  BY <1>1 DEF RevokeInv, ClearNone, Held
<1> QED
  BY <1>5, <1>6 DEF RevokeInv

(* Nor does the timer that taints a process, when it is not the signal that does. *)
LEMMA RevokeTimer ==
  ASSUME Lists, RevokeInv, "signal" \notin Races, TimerTaint
  PROVE  RevokeInv'
<1>0. SessTypes /\ ListTypes /\ BoardTypes /\ Calls /\ Placed /\ Counted /\ Mirrored /\ Working
  BY DEF Lists
<1>1. UNCHANGED <<pt, rt, failed, tainted, wpc, spread, board>> /\ wpc \notin {"reset", "clear"}
  BY DEF TimerTaint, sessVars, listVars
<1>2. \A q \in Queues : again[q] => again'[q]
  BY DEF TimerTaint
<1>3. \A q \in Queues : Told(q) => again'[q] \/ draining'[q]
  BY DEF TimerTaint, Told
<1>4. \A q \in Queues : Pends(q) => Pends(q)'
  BY <1>1, <1>2, <1>3 DEF Pends, Told
<1>5. \A q \in Queues : RevokeAt(q)'
  BY <1>1, <1>4 DEF RevokeInv, RevokeAt, Held, InTrouble
<1> QED
  BY <1>1, <1>5 DEF RevokeInv, ClearNone

(* Nor does the spreading of the taint. *)
LEMMA RevokeSpread ==
  ASSUME Lists, RevokeInv, WorkSpread
  PROVE  RevokeInv'
<1>0. SessTypes /\ ListTypes /\ BoardTypes /\ Calls /\ Placed /\ Counted /\ Mirrored /\ Working
  BY DEF Lists
<1> DEFINE p == Least(todo)
           lost == IF board[p] = 0 THEN {} ELSE TaintingFrom(p)
           from == {s \in lost : ~up[Uproc[s]]}
           to == UNION {SpreadTo(s) : s \in from}
<1>1. /\ failed' = [s \in Sessions |-> failed[s] \/ s \in lost \cup to]
      /\ UNCHANGED <<pt, rt, tainted, board, again, htaint, draining>>
      /\ wpc' \in {"mark", "spread"}
      /\ \E b \in [to -> Queues] :
           /\ \A s \in to : bound[s] # Nothing => b[s] = bound[s]
           /\ spread' = [x \in Queues |-> spread[x] \/ \E s \in to : b[s] = x]
  BY DEF WorkSpread, listVars
<1>2. p \in Queues
  <2>1. todo \in SUBSET Nat /\ todo \subseteq Queues /\ todo # {}
    BY <1>0 DEF BoardTypes, WorkSpread, Queues
  <2> QED
    BY <2>1, LeastIsIn
<1>3. \A s \in lost : board[p] # 0 /\ bound[s] = p
  <2> SUFFICES ASSUME NEW s \in lost PROVE board[p] # 0 /\ bound[s] = p
    OBVIOUS
  <2>1. board[p] # 0 /\ s \in TaintingFrom(p)
    OBVIOUS
  <2>2. PICK i \in 1 .. Len(rt[p]) : rt[p][i].sess = s
    BY <2>1 DEF TaintingFrom
  <2>3. rt[p][i] \in Held(p)
    BY <2>2 DEF Held, Elems
  <2> QED
    BY <1>2, <2>1, <2>2, <2>3, HeldBound
<1> HIDE DEF p, lost, from, to
<1>4. PICK b \in [to -> Queues] :
         /\ \A s \in to : bound[s] # Nothing => b[s] = bound[s]
         /\ spread' = [x \in Queues |-> spread[x] \/ \E s \in to : b[s] = x]
  BY <1>1
<1>5. ASSUME NEW q \in Queues, NEW t \in Held(q), InTrouble(t.sess)' PROVE Pends(q)'
  <2>1. t.sess \in Sessions /\ bound[t.sess] = q
    BY HeldBound
  <2>2. q # Nothing
    BY StreamAssumption
  <2>3. CASE InTrouble(t.sess)
    <3>1. Pends(q)
      BY <2>3 DEF RevokeInv, RevokeAt
    <3> QED
      BY <1>1, <1>4, <3>1 DEF Pends, Told
  <2>4. CASE t.sess \in lost
    BY <1>1, <1>3, <2>1, <2>4 DEF Pends
  <2>5. CASE t.sess \in to
    <3>1. b[t.sess] = q
      BY <1>4, <2>1, <2>2, <2>5
    <3>2. spread'[q]
      BY <1>4, <2>5, <3>1
    <3> QED
      BY <3>2 DEF Pends
  <2> QED
    BY <1>1, <1>5, <2>1, <2>3, <2>4, <2>5 DEF InTrouble
<1>6. \A q \in Queues : RevokeAt(q)'
  BY <1>1, <1>5 DEF RevokeAt, Held
<1> QED
  BY <1>1, <1>6 DEF RevokeInv, ClearNone

(* Nor does marking the sessions. *)
LEMMA RevokeMark ==
  ASSUME Lists, RevokeInv, WorkMark
  PROVE  RevokeInv'
<1>0. SessTypes /\ ListTypes /\ BoardTypes /\ Calls /\ Placed /\ Counted /\ Mirrored /\ Working
  BY DEF Lists
<1>1. /\ failed' = [s \in Sessions |-> failed[s] \/ (tainted[s] /\ Alive(s))]
      /\ again' = [q \in Queues |-> again[q] \/ spread[q]]
      /\ UNCHANGED <<pt, rt, tainted, board, htaint, draining>> /\ wpc' = "reset"
  BY DEF WorkMark, listVars
<1>2. ASSUME NEW q \in Queues, NEW t \in Held(q)
      PROVE  /\ InTrouble(t.sess)' => InTrouble(t.sess)
             /\ tainted'[t.sess] => failed'[t.sess]
  <2>1. t.sess \in Sessions /\ t \in On(q)
    BY HeldBound
  <2>2. t \in TasksOf(t.sess)
    <3>1. t \in Elems(pt[q] \o rt[q] \o ft[q] \o xl[q] \o gone[q])
      BY <1>0, <2>1, ListsElems
    <3> QED
      BY <3>1 DEF TasksOf
  <2>3. Alive(t.sess)
    BY <2>2 DEF Alive
  <2> QED
    BY <1>1, <2>1, <2>3 DEF InTrouble
<1>3. \A q \in Queues : Pends(q) => Pends(q)'
  BY <1>1 DEF Pends, Told
<1>4. \A q \in Queues : RevokeAt(q)'
  BY <1>1, <1>2, <1>3 DEF RevokeInv, RevokeAt, Held
<1> QED
  BY <1>1, <1>4 DEF RevokeInv, ClearNone

(* Nor does a reset. *)
LEMMA RevokeReset ==
  ASSUME Lists, RevokeInv, WorkReset, Resets
  PROVE  RevokeInv'
<1>0. SessTypes /\ ListTypes /\ BoardTypes /\ Calls /\ Placed /\ Counted /\ Mirrored /\ Working
  BY DEF Lists
<1>1. Least(todo) \in Queues
  BY ResetLists
<1>2. PICK p \in Queues : p = Least(todo)
  BY <1>1
<1>3. /\ Elems(pt'[p]) \subseteq Elems(pt[p])
      /\ \A t \in Elems(rt'[p]) : t \in Elems(pt[p]) \/ t \in Elems(rt[p])
      /\ \A t \in Elems(pt'[p]) \cup Elems(rt'[p]) : t \notin BadTasks(p)
      /\ \A x \in Queues \ {p} : pt'[x] = pt[x] /\ rt'[x] = rt[x]
  BY <1>2, ResetLists
<1>4. failed' = [s \in Sessions |-> BadAt(p, s)] /\ wpc' = "clear" /\ todo' = todo
  BY <1>0, <1>2, ResetMoves
<1>5. UNCHANGED <<board, tainted, again, spread, htaint, draining>> /\ wpc = "reset"
  BY DEF WorkReset, boardVars
<1>6. Held(p)' \subseteq Held(p) /\ \A x \in Queues \ {p} : Held(x)' = Held(x)
  BY <1>3 DEF Held
<1>7. ASSUME NEW t \in Held(p)' PROVE ~failed'[t.sess]
  <2>1. pt[p] \in Seq(Item) /\ rt[p] \in Seq(Item)
    BY <1>0 DEF ListTypes
  <2>2. Elems(rt[p] \o pt[p]) = Elems(rt[p]) \cup Elems(pt[p])
    BY <2>1, ElemsConcat
  <2>3. t \in Held(p) /\ t \notin BadTasks(p)
    BY <1>3, <1>6 DEF Held
  <2>4. ~BadAt(p, t.sess)
    BY <2>2, <2>3 DEF BadTasks, Held
  <2>5. t.sess \in Sessions
    BY <2>3, HeldBound
  <2> QED
    BY <1>4, <2>4, <2>5
<1>8. ASSUME NEW q \in Queues, NEW t \in Held(q)' PROVE failed'[t.sess] => failed[t.sess]
  <2>1. CASE q = p
    BY <1>7, <2>1
  <2>2. CASE q # p
    <3>1. t \in Held(q)
      BY <1>6, <2>2
    <3>2. t.sess \in Sessions /\ bound[t.sess] = q
      BY <3>1, HeldBound
    <3>3. ASSUME t.sess \in FailedSession(p) PROVE bound[t.sess] = p
      <4>1. PICK x \in Elems(rt[p]) : x.sess = t.sess
        BY <3>3 DEF FailedSession
      <4>2. x \in Held(p)
        BY DEF Held
      <4> QED
        BY <4>1, <4>2, HeldBound
    <3> QED
      BY <1>4, <2>2, <3>2, <3>3 DEF BadAt
  <2> QED
    BY <2>1, <2>2
<1>9. ASSUME NEW s, failed[s], s \in Sessions PROVE failed'[s]
  BY <1>4, <1>9 DEF BadAt
<1>10. ASSUME NEW q \in Queues PROVE RevokeAt(q)'
  <2>1. Held(q)' \subseteq Held(q)
    BY <1>6
  <2>2. ASSUME NEW t \in Held(q)'
        PROVE  /\ InTrouble(t.sess)' => InTrouble(t.sess)
               /\ ~failed'[t.sess] => ~failed[t.sess]
    <3>1. t.sess \in Sessions
      BY <2>1, HeldBound
    <3> QED
      BY <1>5, <1>8, <1>9, <3>1 DEF InTrouble
  <2> QED
    BY <1>4, <1>5, <2>1, <2>2 DEF RevokeInv, RevokeAt, Pends, Told
<1>11. ClearNone'
  BY <1>2, <1>4, <1>7 DEF ClearNone, Held
<1> QED
  BY <1>10, <1>11 DEF RevokeInv

(* Nor does the end of a reset. *)
LEMMA RevokeClear ==
  ASSUME Lists, RevokeInv, WorkClear
  PROVE  RevokeInv'
<1>0. SessTypes /\ ListTypes /\ BoardTypes /\ Calls /\ Placed /\ Counted /\ Mirrored /\ Working
  BY DEF Lists
<1>1. Least(todo) \in Queues
  <2>1. todo \in SUBSET Nat /\ todo \subseteq Queues /\ todo # {}
    BY <1>0 DEF BoardTypes, WorkClear, Queues
  <2> QED
    BY <2>1, LeastIsIn
<1>2. PICK p \in Queues : p = Least(todo)
  BY <1>1
<1>3. /\ wpc = "clear" /\ wpc' = "reset"
      /\ UNCHANGED <<pt, rt, failed, tainted, htaint, draining>>
      /\ board' = [board EXCEPT ![p] = 0] /\ again' = [again EXCEPT ![p] = FALSE]
      /\ spread' = [spread EXCEPT ![p] = FALSE]
  BY <1>2 DEF WorkClear, sessVars
<1>4. \A q \in Queues \ {p} : board'[q] = board[q] /\ again'[q] = again[q] /\ spread'[q] = spread[q]
  BY <1>0, <1>3 DEF BoardTypes
<1>5. \A t \in Held(p) : ~failed[t.sess]
  BY <1>2, <1>3 DEF RevokeInv, ClearNone
<1>6. ASSUME NEW q \in Queues PROVE RevokeAt(q)'
  <2>1. RevokeAt(q) /\ Held(q)' = Held(q)
    BY <1>3 DEF RevokeInv, Held
  <2>2. CASE q = p
    BY <1>3, <1>5, <2>1, <2>2 DEF RevokeAt, InTrouble, Pends, Told
  <2>3. CASE q # p
    BY <1>3, <1>4, <2>1, <2>3 DEF RevokeAt, InTrouble, Pends, Told
  <2> QED
    BY <2>2, <2>3
<1> QED
  BY <1>3, <1>6 DEF RevokeInv, ClearNone

(* Every step keeps the invariant of revocation. *)
LEMMA RevokeNext ==
  ASSUME "signal" \notin Races
  PROVE  Lists /\ RevokeInv /\ [Next]_vars => RevokeInv'
<1> SUFFICES ASSUME Lists, RevokeInv, [Next]_vars PROVE RevokeInv'
  OBVIOUS
<1>1. ASSUME UNCHANGED <<pt, rt, failed, tainted, board, again, spread, htaint, draining>>,
             wpc' \in {"reset", "clear"} => wpc \in {"reset", "clear"},
             wpc' = "clear" => wpc = "clear" /\ todo' = todo
      PROVE  RevokeInv'
  BY <1>1 DEF RevokeInv, RevokeAt, ClearNone, Held, InTrouble, Pends, Told
<1> QED
  BY <1>1, RevokeSteps, RevokeAppends, RevokeBooks, RevokeCloses, RevokeTimer, RevokeSpread, RevokeMark,
     RevokeReset, RevokeClear

(* Nothing is to be revoked at first. *)
LEMMA RevokeInit == Init => RevokeInv
<1> SUFFICES ASSUME Init PROVE RevokeInv
  OBVIOUS
<1>1. \A q \in Queues : pt[q] = <<>> /\ rt[q] = <<>>
  BY DEF Init, Rep
<1>2. \A q \in Queues : Held(q) = {}
  BY <1>1, ElemsEmpty DEF Held
<1>3. wpc = "idle"
  BY DEF Init
<1> QED
  BY <1>2, <1>3 DEF RevokeInv, RevokeAt, ClearNone

(* Unless the timer asks for a reset between the mark and the reset, the   *)
(* tasks of a session in error do not come back once the exception work    *)
(* has been through its queue.                                             *)
THEOREM RevokedStay ==
  ASSUME "signal" \notin Races
  PROVE  Spec => []RevokedForGood
<1>1. Lists /\ RevokeInv => RevokedForGood
  <2> SUFFICES ASSUME Lists, RevokeInv, NEW s \in Sessions,
                      failed[s], bound[s] # Nothing, ~InExcp, wpc = "idle",
                      ~htaint[bound[s]], ~draining[bound[s]],
                      NEW t \in Elems(pt[bound[s]] \o rt[bound[s]]), t.sess = s
               PROVE  FALSE
    BY DEF RevokedForGood
  <2>0. SessTypes /\ ListTypes
    BY DEF Lists
  <2>1. PICK q \in Queues : q = bound[s]
    BY <2>0 DEF SessTypes
  <2>2. t \in Held(q)
    BY <2>0, <2>1, ListsElems DEF Held
  <2>3. Pends(q)
    BY <2>2 DEF RevokeInv, RevokeAt, InTrouble
  <2> QED
    BY <2>1, <2>3 DEF Pends, Told, InExcp
<1>2. ListsInv => Lists
  BY DEF ListsInv, Lists
<1>3. Lists /\ RevokeInv /\ [Next]_vars => RevokeInv'
  BY RevokeNext
<1> QED
  BY <1>1, <1>2, <1>3, ListsInit, ListsNext, RevokeInit, PTL DEF Spec

-----------------------------------------------------------------------------
(* EventWaitHonest *)

(* Calls, and the tasks they made, are of the plan. *)
Planned ==
  /\ \A q \in Queues : \A t \in On(q) : t.kind = "rec" => <<"rec", t.ev>> \in plan.calls[t.sess]
  /\ \A s \in Sessions :
       /\ pc[s] = "add" /\ arg[s].kind = "rec" => <<"rec", arg[s].ev>> \in plan.calls[s]
       /\ pc[s] \in {"look", "ok"} => <<"hostwait", arg[s].ev>> \in plan.calls[s]

(* The calls a thread begins are of the plan. *)
LEMMA CallPlanned ==
  ASSUME SessTypes, NEW s \in Sessions
  PROVE  /\ Begin(s) /\ arg'[s].kind = "rec" => <<"rec", arg'[s].ev>> \in plan.calls[s]
         /\ WaitBegin(s) => <<"hostwait", arg'[s].ev>> \in plan.calls[s]
<1>0. plan.calls[s] \subseteq CallType
  BY Sizes DEF SessTypes
<1>1. \A c \in plan.calls[s] : c = <<c[1], c[2]>>
  BY <1>0 DEF CallType
<1>2. ASSUME Begin(s), arg'[s].kind = "rec" PROVE <<"rec", arg'[s].ev>> \in plan.calls[s]
  <2>1. PICK c \in plan.calls[s] :
          arg' = [arg EXCEPT ![s] =
                [tk |-> token, sess |-> s, kind |-> c[1],
                 ev  |-> IF c[1] = "rec" THEN c[2] ELSE Nothing,
                 q   |-> IF c[1] = "wait" THEN ev[c[2]].q ELSE Nothing,
                 seq |-> IF c[1] = "wait" THEN ev[c[2]].seq ELSE 0]]
    BY <1>2 DEF Begin
  <2>2. arg'[s].kind = c[1] /\ arg'[s].ev = IF c[1] = "rec" THEN c[2] ELSE Nothing
    BY <2>1 DEF SessTypes
  <2> QED
    BY <1>1, <1>2, <2>2
<1>3. ASSUME WaitBegin(s) PROVE <<"hostwait", arg'[s].ev>> \in plan.calls[s]
  <2>1. PICK c \in plan.calls[s] :
          /\ c[1] = "hostwait"
          /\ arg' = [arg EXCEPT ![s] = [NoTask EXCEPT !.ev = c[2], !.seq = ev[c[2]].rec]]
    BY <1>3 DEF WaitBegin
  <2>2. arg'[s].ev = c[2]
    BY <2>1 DEF SessTypes, NoTask
  <2> QED
    BY <1>1, <2>1, <2>2
<1> QED
  BY <1>2, <1>3

(* Every step keeps calls and tasks planned. *)
LEMMA PlannedStep ==
  ASSUME Lists, Planned, [Next]_vars
  PROVE  Planned'
<1>0. SessTypes /\ ListTypes /\ BoardTypes /\ Calls /\ Placed /\ Counted /\ Mirrored /\ Working
  BY DEF Lists
<1>1. plan' = plan
  BY <1>0, BoundStays
<1>2. ASSUME NEW q \in Queues, NEW t \in On(q)', t.kind = "rec"
      PROVE  <<"rec", t.ev>> \in plan.calls[t.sess]
  <2>1. CASE t \in On(q)
    BY <1>2, <2>1 DEF Planned
  <2>2. ASSUME NEW s \in Sessions, Add(s), Accept(s), t = Added(s)
        PROVE  <<"rec", t.ev>> \in plan.calls[t.sess]
    <3>1. t.sess = s /\ t.kind = arg[s].kind /\ t.ev = arg[s].ev
      BY <1>0, <2>2, AddedIs
    <3> QED
      BY <1>2, <2>2, <3>1 DEF Planned, Add
  <2> QED
    BY <1>0, <2>1, <2>2, OnComes
<1>3. ASSUME NEW s \in Sessions, pc'[s] = "add", arg'[s].kind = "rec"
      PROVE  <<"rec", arg'[s].ev>> \in plan.calls[s]
  BY <1>0, <1>3, AddComes, CallPlanned DEF Planned
<1>4. ASSUME NEW s \in Sessions, pc'[s] \in {"look", "ok"}
      PROVE  <<"hostwait", arg'[s].ev>> \in plan.calls[s]
  <2>1. CASE Begin(s)
    BY <1>0, <1>4, <2>1, BeginIs
  <2>2. CASE WaitBegin(s)
    BY <1>0, <2>2, CallPlanned
  <2>3. CASE Add(s) \/ Publish(s) \/ WaitReturn(s)
    BY <1>0, <1>4, <2>3 DEF Add, Publish, WaitReturn, SessTypes
  <2>4. CASE WaitLook(s)
    <3>1. pc[s] = "look" /\ arg'[s] = arg[s]
      BY <1>0, <1>4, <2>4 DEF WaitLook, SessTypes
    <3> QED
      BY <3>1 DEF Planned
  <2>5. CASE pc'[s] = pc[s] /\ arg'[s] = arg[s]
    BY <1>4, <2>5 DEF Planned
  <2> QED
    BY <1>0, <2>1, <2>2, <2>3, <2>4, <2>5, OwnCalls DEF Call, Goes
<1> QED
  BY <1>1, <1>2, <1>3, <1>4 DEF Planned

-----------------------------------------------------------------------------
(* What the board of a queue names is a kernel, and first in its unit. *)
BoardAt(q) ==
  /\ \A t \in Elems(rt[q]) : t.tk = board[q] => t.kind = "kernel"
  /\ \A t \in Elems(hw[q]) : t.tk = board[q] => t = Head(hw[q])

(* A task on the board is not written a second time. *)
LEMMA BoardOld ==
  ASSUME Lists, CutInv, NEW q \in Queues, NEW t, t.tk = board[q]
  PROVE  t \notin Elems(pt[q]) /\ ~NewTask(q, t)
<1>0. SessTypes /\ ListTypes /\ BoardTypes /\ Calls /\ Placed /\ Counted /\ Mirrored /\ Working
  BY DEF Lists
<1>1. NotWaiting(t.tk)
  BY DEF CutInv, Marked, Marks
<1>2. t \notin Elems(pt[q])
  BY <1>1 DEF NotWaiting
<1>3. ~NewTask(q, t)
  <2> SUFFICES ASSUME NewTask(q, t) PROVE FALSE
    OBVIOUS
  <2>1. PICK s \in Sessions : Add(s) /\ t = Added(s)
    BY DEF NewTask
  <2>2. t.tk = arg[s].tk /\ pc[s] = "add"
    BY <1>0, <2>1, AddedIs DEF Add
  <2> QED
    BY <1>1, <2>2 DEF NotWaiting
<1> QED
  BY <1>2, <1>3

(* Adds, dispatches and the units' steps keep that. *)
LEMMA BoardMoves ==
  ASSUME Lists, CutInv, \A q \in Queues : BoardAt(q),
         \/ \E s \in Sessions : Add(s) /\ Accept(s)
         \/ \E q \in Queues : Isr(q) \/ TimerDispatch(q)
         \/ \E q \in Queues : HwStart(q) \/ HwFails(q) \/ Pops(q),
         NEW q \in Queues
  PROVE  BoardAt(q)'
<1>0. SessTypes /\ ListTypes /\ BoardTypes /\ Calls /\ Placed /\ Counted /\ Mirrored /\ Working
  BY DEF Lists
<1>1. CASE \/ \E s \in Sessions : Add(s) /\ Accept(s)
           \/ \E p \in Queues : Isr(p) \/ TimerDispatch(p)
  <2>1. board' = board
    BY <1>1 DEF Add, Isr, TimerDispatch, boardVars
  <2>2. hw[q] # <<>> => hw'[q] # <<>> /\ Head(hw'[q]) = Head(hw[q])
    BY <1>0, <1>1, Appends
  <2>3. \A t \in Elems(rt'[q]) : t \in Elems(rt[q]) \/ t \in Elems(pt[q]) \/ NewTask(q, t)
    BY <1>1, Pending
  <2>4. \A t \in Elems(hw'[q]) : t \in Elems(hw[q]) \/ t \in Elems(pt[q]) \/ NewTask(q, t)
    BY <1>1, Pending
  <2>5. hw[q] = <<>> => Elems(hw[q]) = {}
    BY ElemsEmpty
  <2>6. \A t \in Elems(rt'[q]) : t.tk = board[q] => t.kind = "kernel"
    BY <2>3, BoardOld DEF BoardAt
  <2>7. \A t \in Elems(hw'[q]) : t.tk = board[q] => t = Head(hw'[q])
    BY <2>2, <2>4, <2>5, BoardOld DEF BoardAt
  <2> QED
    BY <2>1, <2>6, <2>7 DEF BoardAt
<1>2. ASSUME NEW p \in Queues, HwStart(p) \/ HwFails(p) PROVE BoardAt(q)'
  BY <1>2 DEF HwStart, HwFails, HwKeeps, listVars, boardVars, BoardAt
<1>3. ASSUME NEW p \in Queues, Pops(p) PROVE BoardAt(q)'
  <2>1. /\ hw[p] # <<>> /\ hw' = [hw EXCEPT ![p] = Tail(hw[p])] /\ UNCHANGED <<rt, board>>
    BY <1>0, <1>3, PopIs DEF listVars, boardVars
  <2>2. CASE q = p
    <3>1. hw'[p] = Tail(hw[p])
      BY <1>0, <2>1 DEF ListTypes
    <3>2. \A t \in Elems(hw'[p]) : t \in Elems(hw[p]) /\ t # Head(hw[p])
      BY <2>1, <3>1, TailOff
    <3> QED
      BY <2>1, <2>2, <3>2 DEF BoardAt
  <2>3. CASE q # p
    BY <1>0, <2>1, <2>3 DEF BoardAt, ListTypes
  <2> QED
    BY <2>2, <2>3
<1> QED
  BY <1>1, <1>2, <1>3

(* So do a fault's interrupt and the timer, which write the board. *)
LEMMA BoardBooks ==
  ASSUME Lists, \A q \in Queues : BoardAt(q), NEW p \in Queues, FaultIrq(p) \/ TimerLate(p), NEW q \in Queues
  PROVE  BoardAt(q)'
<1>0. SessTypes /\ ListTypes /\ BoardTypes /\ Calls /\ Placed /\ Counted /\ Mirrored /\ Working
  BY DEF Lists
<1>1. UNCHANGED <<hw, rt>>
  BY DEF FaultIrq, TimerLate, listVars, hwVars
<1>2. \A x \in Queues \ {p} : board'[x] = board[x]
  BY <1>0 DEF FaultIrq, TimerLate, BookFault, BookLate, BoardTypes
<1>3. board'[p] = Head(hw[p]).tk /\ Busy(p)
  BY <1>0 DEF FaultIrq, TimerLate, BookFault, BookLate, BoardTypes, Busy
<1>4. /\ Head(hw[p]) \in Elems(rt[p]) /\ Head(hw[p]) \in Elems(hw[p])
      /\ Head(hw[p]).kind = "kernel"
  BY <1>0, <1>3, HeadIs, HwOn DEF Mirrored, Busy
<1>5. \A t \in Elems(rt[p]) : t.tk = board'[p] => t = Head(hw[p])
  BY <1>0, <1>3, <1>4, OneToken, HwOn
<1>6. \A t \in Elems(hw[p]) : t.tk = board'[p] => t = Head(hw[p])
  BY <1>0, <1>5, HwOn
<1> QED
  BY <1>1, <1>2, <1>4, <1>5, <1>6 DEF BoardAt

(* A reset takes the task on the board out of its queue. *)
LEMMA BoardBad ==
  ASSUME Lists, NEW q \in Queues, NEW t \in Elems(rt[q]), t.tk = board[q]
  PROVE  t \in BadTasks(q) /\ t.sess \in FailedSession(q)
<1>0. SessTypes /\ ListTypes /\ BoardTypes /\ Calls /\ Placed /\ Counted /\ Mirrored /\ Working
  BY DEF Lists
<1>1. t.sess \in Sessions /\ t.tk # 0
  BY <1>0, HwOn, OnIsItem
<1>2. t.sess \in FailedSession(q)
  BY <1>1 DEF FailedSession
<1>3. Elems(rt[q] \o pt[q]) = Elems(rt[q]) \cup Elems(pt[q])
  BY <1>0, ElemsConcat DEF ListTypes
<1> QED
  BY <1>2, <1>3 DEF BadTasks, BadAt

(* So the board keeps to what it names through a reset, *)
LEMMA BoardReset ==
  ASSUME Lists, CutInv, \A q \in Queues : BoardAt(q), WorkReset, Resets, NEW q \in Queues
  PROVE  BoardAt(q)'
<1>0. SessTypes /\ ListTypes /\ BoardTypes /\ Calls /\ Placed /\ Counted /\ Mirrored /\ Working
  BY DEF Lists
<1>1. Least(todo) \in Queues
  BY ResetLists
<1>2. PICK p \in Queues : p = Least(todo)
  BY <1>1
<1>3. /\ \A t \in Elems(rt'[p]) \cup Elems(hw'[p]) :
            t \in Elems(pt[p]) \/ (t \in Elems(hw[p]) /\ t \notin BadTasks(p))
      /\ Elems(hw[p]) = Elems(rt[p])
      /\ \A x \in Queues \ {p} : rt'[x] = rt[x] /\ hw'[x] = hw[x]
  BY <1>2, ResetLists
<1>4. board' = board
  BY DEF WorkReset, boardVars
<1>5. \A t \in Elems(rt'[p]) \cup Elems(hw'[p]) : t.tk # board[p]
  BY <1>3, BoardOld, BoardBad
<1>6. CASE q = p
  BY <1>4, <1>5, <1>6 DEF BoardAt
<1>7. CASE q # p
  BY <1>3, <1>4, <1>7 DEF BoardAt
<1> QED
  BY <1>6, <1>7

(* and in every step. *)
LEMMA BoardNext ==
  ASSUME Lists, CutInv, \A q \in Queues : BoardAt(q), [Next]_vars, NEW q \in Queues
  PROVE  BoardAt(q)'
<1>0. SessTypes /\ ListTypes /\ BoardTypes /\ Calls /\ Placed /\ Counted /\ Mirrored /\ Working
  BY DEF Lists
<1>1. ASSUME UNCHANGED <<hw, rt, board>> PROVE BoardAt(q)'
  BY <1>1 DEF BoardAt
<1>2. ASSUME WorkClear PROVE BoardAt(q)'
  <2>1. UNCHANGED <<hw, rt>> /\ board'[q] \in {0, board[q]}
    BY <1>0, <1>2 DEF WorkClear, BoardTypes, hwVars
  <2>2. \A t \in Elems(rt[q]) \cup Elems(hw[q]) : t.tk # 0
    BY <1>0, HwOn, OnIsItem
  <2> QED
    BY <2>1, <2>2 DEF BoardAt
<1>3. ASSUME WorkUnits \/ WorkSpread \/ WorkMark PROVE UNCHANGED <<hw, rt, board>>
  BY <1>3 DEF WorkUnits, WorkSpread, WorkMark, listVars, hwVars, boardVars
<1>4. ASSUME NEW s \in Sessions, CloseTaint(s) PROVE UNCHANGED <<hw, rt, board>>
  BY <1>4 DEF CloseTaint, listVars, hwVars
<1>5. ASSUME NEW p \in Queues, Finish(p) PROVE UNCHANGED <<hw, rt, board>>
  BY <1>5 DEF Finish, FinishBegin, FinishTask, listVars, hwVars, boardVars
<1> QED
  BY <1>1, <1>2, <1>3, <1>4, <1>5, BlameSteps, BoardMoves, BoardBooks, BoardReset

-----------------------------------------------------------------------------
(* What a queue holds it held, or comes with an accepted call. *)
LEMMA HeldComes ==
  ASSUME Lists, [Next]_vars, NEW q \in Queues, NEW t \in Held(q)'
  PROVE  t \in Held(q) \/ NewTask(q, t)
<1>1. CASE UNCHANGED <<pt, rt>>
  BY <1>1 DEF Held
<1>2. CASE \/ \E s \in Sessions : Add(s) /\ Accept(s)
           \/ \E p \in Queues : Isr(p) \/ TimerDispatch(p)
  BY <1>2, Pending DEF Held
<1>3. CASE WorkReset /\ Resets
  <2> DEFINE p == Least(todo)
  <2>1. /\ p \in Queues /\ Elems(pt'[p]) \subseteq Elems(pt[p])
        /\ \A x \in Elems(rt'[p]) : x \in Elems(pt[p]) \/ x \in Elems(rt[p])
        /\ \A y \in Queues \ {p} : pt'[y] = pt[y] /\ rt'[y] = rt[y]
    BY <1>3, ResetLists
  <2> HIDE DEF p
  <2> QED
    BY <2>1 DEF Held
<1>4. ASSUME NEW p \in Queues, Finish(p) PROVE UNCHANGED <<pt, rt>>
  BY <1>4 DEF Finish, FinishBegin, FinishTask
<1> QED
  BY <1>1, <1>2, <1>3, <1>4, ListSteps, PassesOver

(* A new task is that of a session without trouble whose file is open. *)
LEMMA NewTaskIs ==
  ASSUME Lists, NEW q \in Queues, NEW t, NewTask(q, t)
  PROVE  t.sess \in Sessions /\ pc[t.sess] = "add" /\ ~InTrouble(t.sess) /\ Add(t.sess)
<1>1. PICK s \in Sessions : Add(s) /\ Accept(s) /\ t = Added(s)
  BY DEF NewTask
<1>2. t.sess = s
  BY <1>1, AddedIs DEF Lists
<1> QED
  BY <1>1, <1>2 DEF Add, Accept, Normal, InTrouble

(* Errors stay: of a session, and of a process. *)
LEMMA ErrorsStay ==
  ASSUME Lists, [Next]_vars, NEW s \in Sessions
  PROVE  /\ failed[s] => failed'[s]
         /\ file'[s] = "open" => file[s] = "open"
         /\ up[Uproc[s]] => up'[Uproc[s]]
<1>0. SessTypes /\ ListTypes /\ BoardTypes /\ Calls /\ Placed /\ Counted /\ Mirrored /\ Working
  BY DEF Lists
<1> DEFINE Goal == /\ failed[s] => failed'[s]
                   /\ file'[s] = "open" => file[s] = "open"
                   /\ up[Uproc[s]] => up'[Uproc[s]]
<1>1. ASSUME UNCHANGED <<failed, file, up>> PROVE Goal
  BY <1>1
<1>2. ASSUME NEW r \in Sessions, Call(r) \/ Goes(r) PROVE UNCHANGED <<failed, file, up>>
  BY <1>2 DEF Call, Begin, WaitBegin, Goes, Add, Publish, WaitLook, WaitReturn, sessVars
<1>3. ASSUME NEW r \in Sessions, Close(r) PROVE Goal
  <2>1. UNCHANGED <<failed, up>>
    BY <1>3 DEF Close, CloseBegin, CloseTaint, CloseEnd
  <2>2. file'[s] = "open" => file[s] = "open"
    BY <1>0, <1>3 DEF Close, CloseBegin, CloseTaint, CloseEnd, SessTypes
  <2> QED
    BY <2>1, <2>2
<1>4. ASSUME NEW q \in Queues, Isr(q) \/ FinishBegin(q) \/ TimerLate(q) PROVE UNCHANGED <<failed, file, up>>
  BY <1>4 DEF Isr, FinishBegin, TimerLate
<1>5. ASSUME WorkSpread PROVE Goal
  <2>1. /\ up' = [p \in DOMAIN up |-> up'[p]] /\ \A p \in DOMAIN up : up[p] => up'[p]
        /\ \A x \in Sessions : failed[x] => failed'[x]
        /\ file' = file
    BY <1>5 DEF WorkSpread
  <2>2. Uproc[s] \in DOMAIN up
    BY <1>0 DEF SessTypes
  <2> QED
    BY <2>1, <2>2
<1>6. ASSUME WorkMark PROVE Goal
  BY <1>6 DEF WorkMark
<1>7. ASSUME WorkReset PROVE Goal
  <2>1. file' = file /\ up' = up
    BY <1>7 DEF WorkReset
  <2>2. CASE Resets
    <3>1. failed' = [x \in Sessions |-> BadAt(Least(todo), x)]
      BY <1>0, <1>7, <2>2, ResetMoves
    <3> QED
      BY <2>1, <3>1 DEF BadAt
  <2>3. CASE ~Resets
    BY <1>7, <2>1, <2>3, PassesOver
  <2> QED
    BY <2>2, <2>3
<1>8. ASSUME UNCHANGED <<sessVars, callVars>> PROVE UNCHANGED <<failed, file, up>>
  BY <1>8 DEF sessVars
<1> HIDE DEF Goal
<1>9. Goal
  BY <1>1, <1>2, <1>3, <1>4, <1>5, <1>6, <1>7, <1>8, SessSteps
<1> QED
  BY <1>9 DEF Goal

(* A session that is being closed has no call under way and no records     *)
(* left; a process in error has no open file without an error.             *)
FileAt(s) ==
  /\ file[s] # "open" =>
       pc[s] = "idle" /\ \A q \in Queues : \A t \in Held(q) : t.kind = "rec" => t.sess # s
  /\ file[s] = "open" /\ up[Uproc[s]] => failed[s]

(* A process gets into error by the spreading only. *)
LEMMA UpComes ==
  ASSUME [Next]_vars
  PROVE  up' = up \/ WorkSpread
<1>1. ASSUME NEW s \in Sessions, Call(s) \/ Goes(s) \/ Close(s) PROVE up' = up
  BY <1>1 DEF Call, Begin, WaitBegin, Goes, Add, Publish, WaitLook, WaitReturn, Close, CloseBegin,
              CloseTaint, CloseEnd, sessVars
<1>2. ASSUME NEW q \in Queues, Isr(q) \/ FinishBegin(q) \/ TimerLate(q) PROVE up' = up
  BY <1>2 DEF Isr, FinishBegin, TimerLate
<1>3. ASSUME WorkMark \/ WorkReset PROVE up' = up
  BY <1>3 DEF WorkMark, WorkReset
<1>4. ASSUME UNCHANGED <<sessVars, callVars>> PROVE up' = up
  BY <1>4 DEF sessVars
<1> QED
  BY <1>1, <1>2, <1>3, <1>4, SessSteps

(* Who loses a record with the task on the board of a queue, whose process *)
(* is not in error yet, and to whom these spread the error.                *)
Lost(p) == IF board[p] = 0 THEN {} ELSE TaintingFrom(p)
From(p) == {s \in Lost(p) : ~up[Uproc[s]]}
Reach(p) == UNION {SpreadTo(s) : s \in From(p)}

(* What the spreading does, one queue at a time. *)
LEMMA SpreadIs ==
  ASSUME Lists, WorkSpread, NEW p \in Queues, p = Least(todo)
  PROVE  /\ failed' = [s \in Sessions |-> failed[s] \/ s \in Lost(p) \cup Reach(p)]
         /\ \A s \in Sessions : up'[Uproc[s]] <=> up[Uproc[s]] \/ \E c \in From(p) : Uproc[c] = Uproc[s]
         /\ \A s \in Sessions :
              Alive(s) /\ (\E c \in From(p) : Uproc[c] = Uproc[s]) => s \in Lost(p) \cup Reach(p)
<1>0. SessTypes
  BY DEF Lists
<1>1. /\ failed' = [s \in Sessions |-> failed[s] \/ s \in Lost(p) \cup Reach(p)]
      /\ up' = [u \in DOMAIN up |-> up[u] \/ \E s \in From(p) : Uproc[s] = u]
  BY DEF WorkSpread, Lost, From, Reach
<1>2. \A s \in Sessions : up'[Uproc[s]] <=> up[Uproc[s]] \/ \E c \in From(p) : Uproc[c] = Uproc[s]
  <2>1. \A s \in Sessions : Uproc[s] \in DOMAIN up
    BY <1>0 DEF SessTypes
  <2>2. \A s \in Sessions : up'[Uproc[s]] = (up[Uproc[s]] \/ \E c \in From(p) : Uproc[c] = Uproc[s])
    BY <1>1, <2>1
  <2> QED
    BY <2>2
<1>3. ASSUME NEW s \in Sessions, Alive(s), NEW c \in From(p), Uproc[c] = Uproc[s]
      PROVE  s \in Lost(p) \cup Reach(p)
  <2>1. CASE s = c
    BY <2>1 DEF From
  <2>2. CASE s # c
    BY <1>3, <2>2 DEF SpreadTo, Reach
  <2> QED
    BY <2>1, <2>2
<1> QED
  BY <1>1, <1>2, <1>3

(* A session whose records are over can be closed, another cannot. *)
LEMMA FileCloses ==
  ASSUME Lists, Planned, "close" \notin Races, NEW s \in Sessions, CloseBegin(s)
  PROVE  /\ pc'[s] = "idle"
         /\ \A q \in Queues : \A t \in Held(q)' : t.kind = "rec" => t.sess # s
<1>0. SessTypes /\ ListTypes /\ BoardTypes /\ Calls /\ Placed /\ Counted /\ Mirrored /\ Working
  BY DEF Lists
<1>1. pc'[s] = "idle" /\ UNCHANGED <<pt, rt>> /\ (~Records(s) \/ unfin[s] = 0)
  BY DEF CloseBegin, callVars, listVars
<1>2. ASSUME NEW q \in Queues, NEW t \in Held(q), t.kind = "rec", t.sess = s PROVE FALSE
  <2>1. t \in On(q) /\ t \in Item
    BY <1>0, <1>2, HeldBound, OnIsItem
  <2>2. t.ev \in Events
    BY <1>2, <2>1 DEF Item
  <2>3. Records(s)
    BY <1>2, <2>1, <2>2 DEF Records, Planned
  <2>4. t \in Unfinished(s)
    BY <1>2 DEF Unfinished, Unended, Held
  <2>5. unfin[s] = Cardinality(Unfinished(s)) /\ IsFiniteSet(Unfinished(s))
    BY <1>0 DEF Counted
  <2> QED
    BY <1>1, <2>3, <2>4, <2>5, FS_EmptySet
<1> QED
  BY <1>1, <1>2 DEF Held

(* Every step keeps files and errors of processes so. *)
LEMMA FileNext ==
  ASSUME Lists, Planned, \A s \in Sessions : FileAt(s), "close" \notin Races, [Next]_vars, NEW s \in Sessions
  PROVE  FileAt(s)'
<1>0. SessTypes /\ ListTypes /\ BoardTypes /\ Calls /\ Placed /\ Counted /\ Mirrored /\ Working
  BY DEF Lists
<1>1. ASSUME file'[s] # "open" PROVE file[s] # "open" \/ CloseBegin(s)
  <2>1. ASSUME UNCHANGED file PROVE file[s] # "open"
    BY <1>1, <2>1
  <2>2. ASSUME NEW r \in Sessions, Call(r) \/ Goes(r) PROVE UNCHANGED file
    BY <2>2 DEF Call, Begin, WaitBegin, Goes, Add, Publish, WaitLook, WaitReturn, sessVars
  <2>3. ASSUME NEW r \in Sessions, Close(r) PROVE file[s] # "open" \/ CloseBegin(s)
    BY <1>0, <1>1, <2>3 DEF Close, CloseBegin, CloseTaint, CloseEnd, SessTypes
  <2>4. ASSUME NEW q \in Queues, Isr(q) \/ FinishBegin(q) \/ TimerLate(q) PROVE UNCHANGED file
    BY <2>4 DEF Isr, FinishBegin, TimerLate
  <2>5. ASSUME WorkSpread \/ WorkMark \/ WorkReset PROVE UNCHANGED file
    BY <2>5 DEF WorkSpread, WorkMark, WorkReset
  <2>6. ASSUME UNCHANGED <<sessVars, callVars>> PROVE UNCHANGED file
    BY <2>6 DEF sessVars
  <2> QED
    BY <2>1, <2>2, <2>3, <2>4, <2>5, <2>6, SessSteps
<1>2. ASSUME file[s] # "open"
      PROVE  pc'[s] = "idle" /\ \A q \in Queues : \A t \in Held(q)' : t.kind = "rec" => t.sess # s
  <2>1. pc[s] = "idle"
    BY <1>2 DEF FileAt
  <2>2. pc'[s] = pc[s]
    BY <1>0, <1>2, <2>1, OwnCalls DEF Call, Begin, WaitBegin, Goes, Add, Publish, WaitLook, WaitReturn
  <2>3. ASSUME NEW q \in Queues, NEW t \in Held(q)', t.kind = "rec", t.sess = s PROVE FALSE
    <3>1. t \in Held(q) \/ NewTask(q, t)
      BY <2>3, HeldComes
    <3> QED
      BY <1>2, <2>1, <2>3, <3>1, NewTaskIs DEF FileAt
  <2> QED
    BY <2>1, <2>2, <2>3
<1>3. file'[s] # "open" =>
        pc'[s] = "idle" /\ \A q \in Queues : \A t \in Held(q)' : t.kind = "rec" => t.sess # s
  BY <1>1, <1>2, FileCloses
<1>4. ASSUME file'[s] = "open", up'[Uproc[s]] PROVE failed'[s]
  <2>1. file[s] = "open"
    BY <1>4, ErrorsStay
  <2>2. CASE up[Uproc[s]]
    BY <2>1, <2>2, ErrorsStay DEF FileAt
  <2>3. CASE WorkSpread /\ ~up[Uproc[s]]
    <3>1. Least(todo) \in Queues
      BY <1>0, <2>3, TodoIs DEF BoardTypes, WorkSpread
    <3>2. PICK p \in Queues : p = Least(todo)
      BY <3>1
    <3>3. /\ failed' = [r \in Sessions |-> failed[r] \/ r \in Lost(p) \cup Reach(p)]
          /\ up'[Uproc[s]] <=> up[Uproc[s]] \/ \E c \in From(p) : Uproc[c] = Uproc[s]
          /\ Alive(s) /\ (\E c \in From(p) : Uproc[c] = Uproc[s]) => s \in Lost(p) \cup Reach(p)
      BY <2>3, <3>2, SpreadIs
    <3>4. Alive(s)
      BY <2>1 DEF Alive
    <3>5. s \in Lost(p) \cup Reach(p)
      BY <1>4, <2>3, <3>3, <3>4
    <3> QED
      BY <3>3, <3>5
  <2> QED
    BY <1>4, <2>2, <2>3, UpComes
<1> QED
  BY <1>3, <1>4 DEF FileAt

(* The exception work has spread what the board of a queue names.          *)
Passed(q) == wpc \in {"mark", "reset", "clear"} \/ (wpc = "spread" /\ q \notin todo)

(* A session's kernel holds the unit of a queue, and its loss is still to  *)
(* be spread.                                                              *)
Stuck(s, q) ==
  /\ unit[q] \in {"hang", "cut"}
  /\ Head(hw[q]).sess = s /\ Head(hw[q]).tk = board[q]
  /\ ~Passed(q)

(* Records of a session in trouble put its process in error, at the latest *)
(* when the work has been through the boards.                              *)
SpreadAt(q) ==
  /\ \A r \in Held(q) :
       r.kind = "rec" /\ InTrouble(r.sess) => up[Uproc[r.sess]] \/ Stuck(r.sess, q)
  /\ Passed(q) =>
       \A t \in Elems(rt[q]), r \in Held(q) :
         t.tk = board[q] /\ r.kind = "rec" /\ r.sess = t.sess => up[Uproc[r.sess]]

(* The steps that bear on it. *)
LEMMA SpreadSteps ==
  ASSUME [Next]_vars
  PROVE  \/ \E s \in Sessions : Add(s) /\ Accept(s)
         \/ \E q \in Queues : Isr(q) \/ TimerDispatch(q)
         \/ \E q \in Queues : HwStart(q) \/ HwFails(q) \/ Pops(q)
         \/ \E q \in Queues : FaultIrq(q) \/ TimerLate(q)
         \/ \E s \in Sessions : CloseTaint(s)
         \/ WorkUnits \/ WorkSpread \/ WorkMark \/ WorkClear
         \/ WorkReset /\ Resets
         \/ /\ UNCHANGED <<pt, rt, failed, tainted, up, unit, hw, board>>
            /\ \A q \in Queues : Passed(q)' => Passed(q)
<1> DEFINE Same == /\ UNCHANGED <<pt, rt, failed, tainted, up, unit, hw, board>>
                   /\ \A q \in Queues : Passed(q)' => Passed(q)
<1>1. ASSUME NEW s \in Sessions, Call(s) \/ Publish(s) \/ WaitLook(s) \/ WaitReturn(s)
      PROVE  Same
  BY <1>1 DEF Call, Begin, WaitBegin, Publish, WaitLook, WaitReturn, sessVars, listVars, hwVars,
              boardVars, workVars, Passed
<1>2. ASSUME NEW s \in Sessions, CloseBegin(s) \/ CloseEnd(s) PROVE Same
  BY <1>2 DEF CloseBegin, CloseEnd, listVars, hwVars, boardVars, workVars, Passed
<1>3. ASSUME NEW s \in Sessions, Add(s), ~Accept(s) PROVE Same
  BY <1>3 DEF Add, boardVars, workVars, Passed
<1>4. ASSUME NEW q \in Queues, IsrRead(q) \/ Finish(q) PROVE Same
  BY <1>4 DEF IsrRead, Finish, FinishBegin, FinishTask, sessVars, listVars, hwVars, boardVars, workVars,
              Passed
<1>5. ASSUME WorkBegin \/ WorkDrained \/ WorkGivesUp \/ WorkSync PROVE Same
  BY <1>5 DEF WorkBegin, WorkDrained, WorkGivesUp, WorkSync, sessVars, listVars, hwVars, boardVars, Passed
<1>6. ASSUME WorkEnd \/ TimerTaint PROVE Same
  BY <1>6 DEF WorkEnd, TimerTaint, sessVars, listVars, hwVars, boardVars, Passed
<1>7. ASSUME UNCHANGED vars PROVE Same
  BY <1>7 DEF vars, sessVars, listVars, hwVars, boardVars, workVars, Passed
<1>8. ASSUME WorkReset, ~Resets PROVE Same
  <2>1. UNCHANGED <<pt, rt, failed, wpc, unit, hw>> /\ wpc = "reset"
    BY <1>8, PassesOver
  <2>2. UNCHANGED <<board, tainted, up>>
    BY <1>8 DEF WorkReset, boardVars
  <2> QED
    BY <2>1, <2>2 DEF Passed
<1> HIDE DEF Same
<1>9. \/ \E s \in Sessions : Add(s) /\ Accept(s)
      \/ \E q \in Queues : Isr(q) \/ TimerDispatch(q)
      \/ \E q \in Queues : HwStart(q) \/ HwFails(q) \/ Pops(q)
      \/ \E q \in Queues : FaultIrq(q) \/ TimerLate(q)
      \/ \E s \in Sessions : CloseTaint(s)
      \/ WorkUnits \/ WorkSpread \/ WorkMark \/ WorkClear
      \/ WorkReset /\ Resets
      \/ Same
  BY <1>1, <1>2, <1>3, <1>4, <1>5, <1>6, <1>7, <1>8 DEF Next, Goes, Close, WorkStep, Hw, Pops
<1> QED
  BY <1>9 DEF Same

(* Adds and dispatches bring no record of a session in trouble, and none   *)
(* at all once the boards are being spread.                                *)
LEMMA SpreadAppends ==
  ASSUME Lists, CutInv, \A q \in Queues : SpreadAt(q), "record" \notin Races,
         \/ \E s \in Sessions : Add(s) /\ Accept(s)
         \/ \E q \in Queues : Isr(q) \/ TimerDispatch(q),
         NEW q \in Queues
  PROVE  SpreadAt(q)'
<1>0. SessTypes /\ ListTypes /\ BoardTypes /\ Calls /\ Placed /\ Counted /\ Mirrored /\ Working
  BY DEF Lists
<1>1. UNCHANGED <<failed, tainted, up, board, unit, wpc, todo>>
  BY DEF Add, Isr, TimerDispatch, sessVars, boardVars, workVars
<1>2. hw[q] # <<>> => hw'[q] # <<>> /\ Head(hw'[q]) = Head(hw[q])
  BY <1>0, Appends
<1>3. Passed(q)' = Passed(q)
  BY <1>1 DEF Passed
<1>4. \A s : Stuck(s, q) => Stuck(s, q)'
  <2>1. unit[q] \in {"hang", "cut"} => hw[q] # <<>>
    BY <1>0 DEF Mirrored
  <2> QED
    BY <1>1, <1>2, <1>3, <2>1 DEF Stuck
<1>5. ASSUME NEW r \in Held(q)' PROVE r \in Held(q) \/ NewTask(q, r)
  BY <1>5, Pending DEF Held
<1>6. ASSUME NEW r, NewTask(q, r), r.kind = "rec" PROVE ~InTrouble(r.sess) /\ ~Passed(q)
  <2>1. PICK s \in Sessions : Add(s) /\ Accept(s) /\ r = Added(s)
    BY <1>6 DEF NewTask
  <2>2. arg[s].kind = "rec"
    BY <1>0, <1>6, <2>1, AddedIs
  <2>3. wpc \in {"idle", "units", "drain", "sync"}
    BY <2>1, <2>2 DEF Add
  <2> QED
    BY <1>6, <2>3, NewTaskIs DEF Passed
<1>7. ASSUME NEW r \in Held(q)', r.kind = "rec", InTrouble(r.sess)
      PROVE  up[Uproc[r.sess]] \/ Stuck(r.sess, q)
  BY <1>5, <1>6, <1>7 DEF SpreadAt
<1>8. ASSUME Passed(q), NEW t \in Elems(rt'[q]), NEW r \in Held(q)', t.tk = board[q], r.kind = "rec",
             r.sess = t.sess
      PROVE  up[Uproc[r.sess]]
  <2>1. t \in Elems(rt[q])
    BY <1>8, Pending, BoardOld
  <2>2. r \in Held(q)
    BY <1>5, <1>6, <1>8
  <2> QED
    BY <1>8, <2>1, <2>2 DEF SpreadAt
<1>9. \A r \in Held(q)' :
        r.kind = "rec" /\ InTrouble(r.sess)' => up'[Uproc[r.sess]] \/ Stuck(r.sess, q)'
  BY <1>1, <1>4, <1>7 DEF InTrouble
<1>10. Passed(q)' =>
         \A t \in Elems(rt'[q]), r \in Held(q)' :
           t.tk = board'[q] /\ r.kind = "rec" /\ r.sess = t.sess => up'[Uproc[r.sess]]
  BY <1>1, <1>3, <1>8
<1> QED
  BY <1>9, <1>10 DEF SpreadAt

(* A unit that hangs or is cut stays so until its queue is reset. *)
LEMMA SpreadHw ==
  ASSUME Lists, \A q \in Queues : SpreadAt(q), NEW p \in Queues, HwStart(p) \/ HwFails(p) \/ Pops(p),
         NEW q \in Queues
  PROVE  SpreadAt(q)'
<1>0. SessTypes /\ ListTypes /\ BoardTypes /\ Calls /\ Placed /\ Counted /\ Mirrored /\ Working
  BY DEF Lists
<1>1. UNCHANGED <<pt, rt, failed, tainted, up, board, wpc, todo>>
  BY DEF HwStart, HwFails, Pops, HwDone, HwRecord, HwWait, HwKeeps, sessVars, listVars, boardVars,
         workVars
<1>2. unit[p] \notin {"hang", "cut"}
  BY DEF HwStart, HwFails, Pops, HwDone, HwRecord, HwWait
<1>3. \A x \in Queues \ {p} : unit'[x] = unit[x] /\ hw'[x] = hw[x]
  BY <1>0 DEF HwStart, HwFails, Pops, HwDone, HwRecord, HwWait, HwPop, ListTypes, BoardTypes
<1>4. \A s : Stuck(s, q) => Stuck(s, q)'
  BY <1>1, <1>2, <1>3 DEF Stuck, Passed
<1> QED
  BY <1>1, <1>4 DEF SpreadAt, Held, InTrouble, Passed

(* Without the race "late" the timer tells only sessions to stop that hold *)
(* a unit or have been told already.                                       *)
LEMMA SpreadBooks ==
  ASSUME Lists, \A q \in Queues : SpreadAt(q), "late" \notin Races, NEW p \in Queues,
         FaultIrq(p) \/ TimerLate(p), NEW q \in Queues
  PROVE  SpreadAt(q)'
<1>0. SessTypes /\ ListTypes /\ BoardTypes /\ Calls /\ Placed /\ Counted /\ Mirrored /\ Working
  BY DEF Lists
<1>1. UNCHANGED <<pt, rt, hw, failed, up, unit, wpc, todo>> /\ Busy(p)
  BY DEF FaultIrq, TimerLate, listVars, hwVars, sessVars, Busy
<1>2. \A x \in Queues : ~Passed(x) /\ ~Passed(x)'
  BY <1>0, <1>1 DEF Working, Passed
<1>3. \A x \in Queues \ {p} : board'[x] = board[x]
  BY <1>0 DEF FaultIrq, TimerLate, BookFault, BookLate, BoardTypes
<1>4. board'[p] = Head(hw[p]).tk
  BY <1>0 DEF FaultIrq, TimerLate, BookFault, BookLate, BoardTypes
<1>5. \A s : Stuck(s, q) => Stuck(s, q)'
  BY <1>1, <1>2, <1>3, <1>4 DEF Stuck
<1>6. ASSUME NEW r \in Held(q), r.kind = "rec", InTrouble(r.sess)', ~InTrouble(r.sess)
      PROVE  Stuck(r.sess, q)'
  <2>1. r.sess \in Sessions /\ bound[r.sess] = q
    BY HeldBound
  <2>2. TimerLate(p)
    <3>1. CASE FaultIrq(p)
      BY <1>1, <1>6, <3>1 DEF InTrouble, FaultIrq, sessVars
    <3> QED
      BY <3>1
  <2>3. /\ tainted' = [tainted EXCEPT ![Head(rt[p]).sess] = TRUE] /\ Head(rt[p]) = Head(hw[p])
        /\ unit[p] = "hang" \/ ~Normal(Head(rt[p]).sess)
        /\ rt[p] # <<>>
    BY <2>2 DEF TimerLate
  <2>4. r.sess = Head(rt[p]).sess
    BY <1>0, <1>1, <1>6, <2>1, <2>3 DEF InTrouble, SessTypes
  <2>5. unit[p] = "hang"
    BY <1>6, <2>3, <2>4 DEF InTrouble, Normal
  <2>6. Head(rt[p]) \in Held(p)
    BY <1>0, <2>2, HeadIs DEF TimerLate, Held
  <2>7. q = p
    BY <2>1, <2>4, <2>6, HeldBound
  <2> QED
    BY <1>1, <1>2, <1>4, <2>3, <2>4, <2>5, <2>7 DEF Stuck
<1> QED
  BY <1>1, <1>2, <1>5, <1>6 DEF SpreadAt, Held

(* Without the race "close" a session that is told to stop by its close    *)
(* has no records.                                                         *)
LEMMA SpreadCloses ==
  ASSUME Lists, \A q \in Queues : SpreadAt(q), \A s \in Sessions : FileAt(s), NEW s \in Sessions,
         CloseTaint(s), NEW q \in Queues
  PROVE  SpreadAt(q)'
<1>0. SessTypes /\ ListTypes /\ BoardTypes /\ Calls /\ Placed /\ Counted /\ Mirrored /\ Working
  BY DEF Lists
<1>1. UNCHANGED <<pt, rt, hw, failed, up, unit, board, wpc, todo>> /\ file[s] # "open"
  BY DEF CloseTaint, listVars, hwVars, workVars
<1>2. \A r \in Held(q) : r.kind = "rec" => r.sess # s
  BY <1>1 DEF FileAt
<1>3. \A x \in Sessions : tainted'[x] => tainted[x] \/ x = s
  BY <1>0 DEF CloseTaint, SessTypes
<1>4. \A r \in Held(q) : r.kind = "rec" /\ InTrouble(r.sess)' => InTrouble(r.sess)
  BY <1>1, <1>2, <1>3, HeldBound DEF InTrouble
<1>5. Held(q)' = Held(q) /\ Passed(q)' = Passed(q)
  BY <1>1 DEF Held, Passed
<1>6. \A x : Stuck(x, q)' = Stuck(x, q)
  BY <1>1, <1>5 DEF Stuck
<1> QED
  BY <1>1, <1>4, <1>5, <1>6 DEF SpreadAt

(* All but the first of a list, and another list, come after the first.    *)
LEMMA AfterFirst ==
  ASSUME NEW S, NEW a \in Seq(S), NEW b \in Seq(S), a # <<>>, NEW r \in Elems(a) \cup Elems(b), r # a[1]
  PROVE  1 \in 1 .. Len(a) /\ r \in Elems(SubSeq(a, 1 + 1, Len(a)) \o b)
<1>1. 1 \in 1 .. Len(a) /\ 1 \in 0 .. Len(a) /\ Len(a) \in Nat
  BY EmptySeq, LenProperties
<1> DEFINE x == SubSeq(a, 1 + 1, Len(a))
<1>2. x \in Seq(S) /\ Len(x) = Len(a) - 1 /\ \A i \in 1 .. Len(a) - 1 : x[i] = a[1 + i]
  <2>1. Parted(S, a, 1, SubSeq(a, 1, 1), x)
    BY <1>1, PartedIs, Zenon
  <2> HIDE DEF x
  <2> QED
    BY <2>1 DEF Parted
<1> HIDE DEF x
<1>3. Elems(x \o b) = Elems(x) \cup Elems(b)
  BY <1>2, ElemsConcat
<1>4. ASSUME r \in Elems(a) PROVE r \in Elems(x)
  <2>1. PICK i \in 1 .. Len(a) : a[i] = r
    BY <1>4 DEF Elems
  <2>2. i # 1
    BY <2>1
  <2>3. i - 1 \in 1 .. Len(x) /\ 1 + (i - 1) = i /\ i - 1 \in 1 .. Len(a) - 1
    BY <1>1, <1>2, <2>2
  <2>4. x[i - 1] = r
    BY <1>2, <2>1, <2>3
  <2> QED
    BY <2>3, <2>4 DEF Elems
<1>5. r \in Elems(x \o b)
  BY <1>3, <1>4
<1> QED
  BY <1>1, <1>5 DEF x

(* The task on a board is first in its unit, so that a record of its       *)
(* session comes after it: the session loses it.                           *)
LEMMA LostIs ==
  ASSUME Lists, NEW p \in Queues, BoardAt(p), wpc = "spread",
         NEW t \in Elems(rt[p]), t.tk = board[p], NEW r \in Held(p), r.kind = "rec", r.sess = t.sess
  PROVE  r.sess \in Lost(p)
<1>0. SessTypes /\ ListTypes /\ BoardTypes /\ Calls /\ Placed /\ Counted /\ Mirrored /\ Working
  BY DEF Lists
<1>1. rt[p] \in Seq(Item) /\ pt[p] \in Seq(Item) /\ hw[p] \in Seq(Item)
  BY <1>0 DEF ListTypes
<1>2. rt[p] = hw[p]
  <2>1. PICK done \in Seq(Item) : rt[p] = done \o hw[p] /\ Len(done) = intr[p] + isr[p]
    BY <1>0 DEF Mirrored, Behind
  <2>2. Len(done) = 0
    BY <1>0, <2>1 DEF Working, Handled
  <2>3. done = <<>>
    BY <2>2, EmptySeq
  <2> QED
    BY <1>1, <2>1, <2>3, ConcatEmptySeq
<1>3. t = Head(rt[p]) /\ t.kind = "kernel" /\ t.tk # 0 /\ t.sess \in Sessions
  BY <1>0, <1>2, HwOn, OnIsItem DEF BoardAt
<1>4. rt[p] # <<>>
  BY ElemsEmpty
<1>5. Head(rt[p]) = rt[p][1]
  BY <1>1, <1>4, HeadTailProperties
<1>6. t = rt[p][1] /\ r # rt[p][1]
  BY <1>3, <1>5
<1>7. 1 \in 1 .. Len(rt[p]) /\ r \in Elems(SubSeq(rt[p], 1 + 1, Len(rt[p])) \o pt[p])
  BY <1>1, <1>4, <1>6, AfterFirst DEF Held
<1>8. /\ 1 \in 1 .. Len(rt[p])
      /\ rt[p][1].tk = board[p] /\ rt[p][1].sess = r.sess
      /\ \E x \in Elems(SubSeq(rt[p], 1 + 1, Len(rt[p])) \o pt[p]) : x.kind = "rec" /\ x.sess = r.sess
  BY <1>6, <1>7
<1>9. r.sess \in TaintingFrom(p)
  BY <1>3, <1>8 DEF TaintingFrom
<1> QED
  BY <1>3, <1>9 DEF Lost

(* The spreading of the board of a queue puts the processes of all that    *)
(* lose a record by it in error, and nobody else in trouble.               *)
LEMMA SpreadSpread ==
  ASSUME Lists, \A q \in Queues : SpreadAt(q), \A q \in Queues : BoardAt(q), WorkSpread, NEW q \in Queues
  PROVE  SpreadAt(q)'
<1>0. SessTypes /\ ListTypes /\ BoardTypes /\ Calls /\ Placed /\ Counted /\ Mirrored /\ Working
  BY DEF Lists
<1>1. Least(todo) \in Queues
  BY <1>0, TodoIs DEF BoardTypes, WorkSpread
<1>2. PICK p \in Queues : p = Least(todo)
  BY <1>1
<1>3. /\ failed' = [s \in Sessions |-> failed[s] \/ s \in Lost(p) \cup Reach(p)]
      /\ \A s \in Sessions : up'[Uproc[s]] <=> up[Uproc[s]] \/ \E c \in From(p) : Uproc[c] = Uproc[s]
  BY <1>2, SpreadIs
<1>4. UNCHANGED <<pt, rt, hw, unit, board, tainted>> /\ wpc = "spread"
  BY DEF WorkSpread, listVars, hwVars
<1>5. todo' = todo \ {p} /\ wpc' = IF todo' = {} THEN "mark" ELSE "spread"
  BY <1>2 DEF WorkSpread
<1>6. Passed(q)' => Passed(q) \/ q = p
  BY <1>4, <1>5 DEF Passed
<1>7. \A s \in Sessions : up[Uproc[s]] => up'[Uproc[s]]
  BY <1>3
<1>8. \A s \in Sessions : s \in Lost(p) => up'[Uproc[s]]
  BY <1>3 DEF From
<1>9. ASSUME NEW s \in Sessions, s \in Reach(p) PROVE up'[Uproc[s]]
  <2>1. PICK c \in From(p) : s \in SpreadTo(c)
    BY <1>9 DEF Reach
  <2>2. Uproc[c] = Uproc[s]
    BY <2>1 DEF SpreadTo
  <2> QED
    BY <1>3, <2>2
<1>10. \A t \in Elems(rt[p]), r \in Held(p) :
         t.tk = board[p] /\ r.kind = "rec" /\ r.sess = t.sess => up'[Uproc[r.sess]]
  BY <1>4, <1>8, LostIs, HeldBound
<1>11. ASSUME NEW r \in Held(q), r.kind = "rec", InTrouble(r.sess)'
       PROVE  up'[Uproc[r.sess]] \/ Stuck(r.sess, q)'
  <2>1. r.sess \in Sessions
    BY HeldBound
  <2>2. r.sess \in Lost(p) \/ r.sess \in Reach(p) \/ InTrouble(r.sess)
    BY <1>3, <1>4, <1>11, <2>1 DEF InTrouble
  <2>3. CASE InTrouble(r.sess)
    <3>1. up[Uproc[r.sess]] \/ Stuck(r.sess, q)
      BY <1>11, <2>3 DEF SpreadAt
    <3>2. CASE Stuck(r.sess, q) /\ ~Passed(q)'
      BY <1>4, <3>2 DEF Stuck
    <3>3. CASE Stuck(r.sess, q) /\ Passed(q)'
      <4>1. q = p
        BY <1>6, <3>3 DEF Stuck
      <4>2. hw[p] # <<>>
        BY <1>0, <3>3, <4>1 DEF Stuck, Mirrored
      <4>3. Head(hw[p]) \in Elems(rt[p])
        BY <1>0, <4>2, HeadIs, HwOn
      <4>4. Head(hw[p]).sess = r.sess /\ Head(hw[p]).tk = board[p]
        BY <3>3, <4>1 DEF Stuck
      <4> QED
        BY <1>10, <1>11, <4>1, <4>3, <4>4
    <3> QED
      BY <1>7, <2>1, <3>1, <3>2, <3>3
  <2> QED
    BY <1>8, <1>9, <2>1, <2>2, <2>3
<1>12. ASSUME Passed(q)', NEW t \in Elems(rt[q]), NEW r \in Held(q), t.tk = board[q], r.kind = "rec",
              r.sess = t.sess
       PROVE  up'[Uproc[r.sess]]
  <2>1. CASE Passed(q)
    <3>1. up[Uproc[r.sess]]
      BY <1>12, <2>1 DEF SpreadAt
    <3> QED
      BY <1>7, <3>1, HeldBound
  <2>2. CASE q = p
    BY <1>10, <1>12, <2>2
  <2> QED
    BY <1>6, <1>12, <2>1, <2>2
<1> QED
  BY <1>4, <1>11, <1>12 DEF SpreadAt, Held

(* After the spreading only sessions that were in trouble get in error.    *)
LEMMA SpreadMark ==
  ASSUME Lists, \A q \in Queues : SpreadAt(q), WorkMark, NEW q \in Queues
  PROVE  SpreadAt(q)'
<1>0. SessTypes /\ ListTypes /\ BoardTypes /\ Calls /\ Placed /\ Counted /\ Mirrored /\ Working
  BY DEF Lists
<1>1. UNCHANGED <<pt, rt, board, tainted, up>> /\ Passed(q) /\ Passed(q)'
  BY DEF WorkMark, listVars, Passed
<1>2. \A s \in Sessions : InTrouble(s)' => InTrouble(s)
  BY <1>0, <1>1 DEF WorkMark, SessTypes, InTrouble
<1>3. ASSUME NEW r \in Held(q), r.kind = "rec", InTrouble(r.sess)' PROVE up[Uproc[r.sess]]
  <2>1. InTrouble(r.sess)
    BY <1>2, <1>3, HeldBound
  <2> QED
    BY <1>1, <1>3, <2>1 DEF SpreadAt, Stuck
<1> QED
  BY <1>1, <1>3 DEF SpreadAt, Held

(* Nor does a reset: the session of the task on the board loses what the   *)
(* spreading has looked at.                                                *)
LEMMA SpreadReset ==
  ASSUME Lists, CutInv, \A q \in Queues : SpreadAt(q), WorkReset, Resets, NEW q \in Queues
  PROVE  SpreadAt(q)'
<1>0. SessTypes /\ ListTypes /\ BoardTypes /\ Calls /\ Placed /\ Counted /\ Mirrored /\ Working
  BY DEF Lists
<1>1. Least(todo) \in Queues
  BY ResetLists
<1>2. PICK p \in Queues : p = Least(todo)
  BY <1>1
<1>3. UNCHANGED <<board, tainted, up>>
  BY DEF WorkReset, boardVars
<1>4. failed' = [s \in Sessions |-> BadAt(p, s)] /\ wpc' = "clear"
  BY <1>0, <1>2, ResetMoves
<1>5. Passed(q) /\ Passed(q)'
  BY <1>4 DEF Passed, Resets
<1>6. /\ Elems(pt'[p]) \subseteq Elems(pt[p])
      /\ \A t \in Elems(rt'[p]) : t \in Elems(pt[p]) \/ t \in Elems(rt[p])
      /\ \A x \in Queues \ {p} : pt'[x] = pt[x] /\ rt'[x] = rt[x]
  BY <1>2, ResetLists
<1>7. Elems(pt'[q]) \subseteq Elems(pt[q]) /\ \A t \in Elems(rt'[q]) : t \in Elems(pt[q]) \/ t \in Elems(rt[q])
  BY <1>6
<1>8. \A r \in Held(q)' : r \in Held(q)
  BY <1>7 DEF Held
<1>9. ASSUME NEW r \in Held(q), r.kind = "rec", InTrouble(r.sess)' PROVE up[Uproc[r.sess]]
  <2>1. r.sess \in Sessions /\ bound[r.sess] = q
    BY HeldBound
  <2>2. InTrouble(r.sess) \/ r.sess \in FailedSession(p)
    BY <1>3, <1>4, <1>9, <2>1 DEF InTrouble, BadAt
  <2>3. CASE InTrouble(r.sess)
    BY <1>5, <1>9, <2>3 DEF SpreadAt, Stuck
  <2>4. CASE r.sess \in FailedSession(p)
    <3>1. PICK t \in Elems(rt[p]) : t.tk = board[p] /\ t.sess = r.sess
      BY <2>4 DEF FailedSession
    <3>2. bound[t.sess] = p
      BY HeldBound DEF Held
    <3>3. q = p
      BY <2>1, <3>1, <3>2
    <3> QED
      BY <1>5, <1>9, <3>1, <3>3 DEF SpreadAt
  <2> QED
    BY <2>2, <2>3, <2>4
<1>10. ASSUME NEW t \in Elems(rt'[q]), NEW r \in Held(q), t.tk = board[q], r.kind = "rec", r.sess = t.sess
       PROVE  up[Uproc[r.sess]]
  <2>1. t \in Elems(rt[q])
    BY <1>7, <1>10, BoardOld
  <2> QED
    BY <1>5, <1>10, <2>1 DEF SpreadAt
<1> QED
  BY <1>3, <1>8, <1>9, <1>10 DEF SpreadAt

(* The board of a queue is wiped when its tasks are written again.         *)
LEMMA SpreadClear ==
  ASSUME Lists, \A q \in Queues : SpreadAt(q), WorkClear, NEW q \in Queues
  PROVE  SpreadAt(q)'
<1>0. SessTypes /\ ListTypes /\ BoardTypes /\ Calls /\ Placed /\ Counted /\ Mirrored /\ Working
  BY DEF Lists
<1>1. /\ UNCHANGED <<pt, rt, failed, tainted, up>> /\ board'[q] \in {0, board[q]}
      /\ Passed(q) /\ Passed(q)'
  BY <1>0 DEF WorkClear, BoardTypes, sessVars, Passed
<1>2. \A t \in Elems(rt[q]) : t.tk # 0
  BY <1>0, HwOn, OnIsItem
<1>3. \A r \in Held(q) : r.kind = "rec" /\ InTrouble(r.sess) => up[Uproc[r.sess]]
  BY <1>1 DEF SpreadAt, Stuck
<1>4. \A t \in Elems(rt[q]), r \in Held(q) :
        t.tk = board'[q] /\ r.kind = "rec" /\ r.sess = t.sess => up[Uproc[r.sess]]
  BY <1>1, <1>2 DEF SpreadAt
<1> QED
  BY <1>1, <1>3, <1>4 DEF SpreadAt, Held, InTrouble

(* A unit that is cut keeps its kernel at its head.                        *)
LEMMA SpreadUnits ==
  ASSUME Lists, \A q \in Queues : SpreadAt(q), WorkUnits, NEW q \in Queues
  PROVE  SpreadAt(q)'
<1>0. SessTypes /\ ListTypes /\ BoardTypes /\ Calls /\ Placed /\ Counted /\ Mirrored /\ Working
  BY DEF Lists
<1>1. UNCHANGED <<pt, rt, hw, board, failed, tainted, up>>
  BY DEF WorkUnits, sessVars, listVars
<1>2. unit'[q] \in {"cut", unit[q]}
  BY DEF WorkUnits
<1>3. ~Passed(q) /\ ~Passed(q)'
  BY DEF WorkUnits, Passed
<1>4. \A s : Stuck(s, q) => Stuck(s, q)'
  BY <1>1, <1>2, <1>3 DEF Stuck
<1> QED
  BY <1>1, <1>3, <1>4 DEF SpreadAt, Held, InTrouble

(* Every step keeps the errors spread.                                     *)
LEMMA SpreadNext ==
  ASSUME Lists, CutInv, \A q \in Queues : SpreadAt(q), \A q \in Queues : BoardAt(q),
         \A s \in Sessions : FileAt(s), "late" \notin Races, "record" \notin Races, [Next]_vars,
         NEW q \in Queues
  PROVE  SpreadAt(q)'
<1>1. CASE UNCHANGED <<pt, rt, failed, tainted, up, unit, hw, board>> /\ \A x \in Queues : Passed(x)' => Passed(x)
  <2>1. \A s : Stuck(s, q) => Stuck(s, q)'
    BY <1>1 DEF Stuck
  <2> QED
    BY <1>1, <2>1 DEF SpreadAt, Held, InTrouble
<1> QED
  BY <1>1, SpreadSteps, SpreadAppends, SpreadHw, SpreadBooks, SpreadCloses, SpreadUnits, SpreadSpread,
     SpreadMark, SpreadReset, SpreadClear

(* All tasks, and the records of an event among them.                      *)
AllOn == UNION {On(q) : q \in Queues}
RecTasks(e) == {t \in AllOn : t.kind = "rec" /\ t.ev = e}

(* What the lists of one queue say of all. *)
LEMMA AllOnMoves ==
  ASSUME Lists, NEW q \in Queues, OthersSame(q)
  PROVE  /\ On(q)' = On(q) => AllOn' = AllOn
         /\ \A t : On(q)' = On(q) \cup {t} => AllOn' = AllOn \cup {t}
         /\ \A t \in On(q) : On(q)' = On(q) \ {t} => AllOn' = AllOn \ {t}
<1>1. \A p \in Queues \ {q} : On(p)' = On(p)
  BY DEF OthersSame, On
<1>2. AllOn' = UNION {On(p)' : p \in Queues}
  BY DEF AllOn
<1>3. \A t \in On(q), p \in Queues \ {q} : t \notin On(p)
  BY DEF Lists, Placed
<1> QED
  BY <1>1, <1>2, <1>3 DEF AllOn

(* The finish work frees exactly the first task on its list. *)
LEMMA FreeOne ==
  ASSUME Lists, NEW q \in Queues, FinishTask(q)
  PROVE  /\ Head(gone[q]) \in On(q) /\ OthersSame(q) /\ On(q)' = On(q) \ {Head(gone[q])}
<1>0. SessTypes /\ ListTypes /\ BoardTypes /\ Calls /\ Placed /\ Counted /\ Mirrored /\ Working
  BY DEF Lists
<1>1. /\ gone[q] # <<>> /\ gone' = [gone EXCEPT ![q] = Tail(gone[q])] /\ UNCHANGED <<pt, rt, ft, xl>>
      /\ gone[q] \in Seq(Item)
  BY <1>0 DEF FinishTask, ListTypes
<1>2. gone'[q] = Tail(gone[q])
  BY <1>0, <1>1 DEF ListTypes
<1> DEFINE h == Head(gone[q])
           T == Tail(gone[q])
<1>3. /\ Elems(gone[q]) = {h} \cup Elems(T) /\ h \in Item /\ T \in Seq(Item)
      /\ gone[q] = <<h>> \o T
  BY <1>1, Behead
<1>4. <<h>> \in Seq(Item) /\ Elems(<<h>>) = {h}
  BY <1>3, One
<1>5. Off(<<h>>, T)
  BY <1>0, <1>3, <1>4, ApartConcat DEF Placed, Five
<1>6. h \notin Elems(T)
  BY <1>4, <1>5 DEF Off
<1>7. h \in Elems(gone[q])
  BY <1>3
<1>8. h \notin Elems(pt[q]) /\ h \notin Elems(rt[q]) /\ h \notin Elems(ft[q]) /\ h \notin Elems(xl[q])
  BY <1>0, <1>7 DEF Placed, Five, Off
<1>9. OthersSame(q)
  BY <1>0, FreeShifts
<1> HIDE DEF h, T
<1>10. On(q)' = Elems(pt[q]) \cup Elems(rt[q]) \cup Elems(ft[q]) \cup Elems(xl[q]) \cup Elems(T)
  BY <1>1, <1>2 DEF On, AllOf, T
<1>11. On(q) = Elems(pt[q]) \cup Elems(rt[q]) \cup Elems(ft[q]) \cup Elems(xl[q]) \cup ({h} \cup Elems(T))
  BY <1>3 DEF On, AllOf
<1>12. h \in On(q) /\ On(q)' = On(q) \ {h}
  BY <1>6, <1>8, <1>10, <1>11
<1> QED
  BY <1>9, <1>12 DEF h

(* Only an add and the finish work change the tasks and the counts.        *)
LEMMA CountSteps ==
  ASSUME Lists, [Next]_vars
  PROVE  \/ \E s \in Sessions : Add(s) /\ Accept(s)
         \/ \E q \in Queues : FinishTask(q)
         \/ AllOn' = AllOn /\ \A e \in Events : ev'[e].rec = ev[e].rec /\ ev'[e].fin = ev[e].fin
<1>0. SessTypes /\ ListTypes /\ BoardTypes /\ Calls /\ Placed /\ Counted /\ Mirrored /\ Working
  BY DEF Lists
<1> DEFINE Same == AllOn' = AllOn /\ \A e \in Events : ev'[e].rec = ev[e].rec /\ ev'[e].fin = ev[e].fin
<1>1. ASSUME UNCHANGED <<pt, rt, ft, xl, gone, ev>> PROVE Same
  BY <1>1 DEF AllOn, On
<1>2. ASSUME NEW s \in Sessions, Call(s) \/ WaitLook(s) \/ WaitReturn(s) \/ Close(s)
      PROVE  UNCHANGED <<pt, rt, ft, xl, gone, ev>>
  BY <1>2 DEF Call, Begin, WaitBegin, WaitLook, WaitReturn, Close, CloseBegin, CloseTaint, CloseEnd,
              listVars
<1>3. ASSUME NEW s \in Sessions, Add(s), ~Accept(s) PROVE UNCHANGED <<pt, rt, ft, xl, gone, ev>>
  BY <1>3 DEF Add
<1>4. ASSUME NEW s \in Sessions, Publish(s) PROVE Same
  <2>1. UNCHANGED <<pt, rt, ft, xl, gone>>
    BY <1>4 DEF Publish, listVars
  <2>2. \A e \in Events : ev'[e].rec = ev[e].rec /\ ev'[e].fin = ev[e].fin
    BY <1>0, <1>4 DEF Publish, BoardTypes
  <2> QED
    BY <2>1, <2>2 DEF AllOn, On
<1>5. ASSUME NEW q \in Queues, Isr(q) \/ FinishBegin(q) \/ TimerDispatch(q) PROVE Same
  <2>1. OthersSame(q) /\ On(q)' = On(q)
    BY <1>0, <1>5, IsrShifts, FinishShifts, TimerShifts
  <2>2. ev' = ev
    BY <1>5 DEF Isr, FinishBegin, TimerDispatch
  <2> QED
    BY <2>1, <2>2, AllOnMoves
<1>6. ASSUME WorkReset PROVE Same
  <2>1. CASE Resets
    <3>1. Least(todo) \in Queues
      BY <1>6, <2>1, ResetLists
    <3>2. PICK q \in Queues : q = Least(todo)
      BY <3>1
    <3>3. OthersSame(q) /\ On(q)' = On(q)
      BY <1>0, <1>6, <2>1, <3>2, ResetShifts
    <3>4. \A e \in Events : ev'[e].rec = ev[e].rec /\ ev'[e].fin = ev[e].fin
      <4>1. \A e \in Events : \E x : ev'[e] = [ev[e] EXCEPT !.revoked = x]
        BY <1>0, <1>6, <2>1, ResetMoves
      <4>2. \A e \in Events : ev[e] \in EvType
        BY <1>0 DEF BoardTypes, EvType
      <4> QED
        BY <4>1, <4>2 DEF EvType
    <3> QED
      BY <3>3, <3>4, AllOnMoves
  <2>2. CASE ~Resets
    <3>1. UNCHANGED <<pt, rt, ft, xl, gone>>
      BY <1>6, <2>2, PassesOver
    <3>2. ev' = ev
      BY <1>6, <2>2 DEF WorkReset, Resets
    <3> QED
      BY <1>1, <3>1, <3>2
  <2> QED
    BY <2>1, <2>2
<1>7. ASSUME NEW q \in Queues, Hw(q) \/ HwFails(q) \/ IsrRead(q) \/ FaultIrq(q) \/ TimerLate(q)
      PROVE  UNCHANGED <<pt, rt, ft, xl, gone, ev>>
  BY <1>7 DEF Hw, HwStart, HwDone, HwRecord, HwWait, HwFails, HwKeeps, IsrRead, FaultIrq, TimerLate,
              listVars
<1>8. ASSUME TimerTaint \/ WorkBegin \/ WorkUnits \/ WorkDrained \/ WorkGivesUp \/ WorkSync
      PROVE  UNCHANGED <<pt, rt, ft, xl, gone, ev>>
  BY <1>8 DEF TimerTaint, WorkBegin, WorkUnits, WorkDrained, WorkGivesUp, WorkSync, listVars
<1>9. ASSUME WorkSpread \/ WorkMark \/ WorkClear \/ WorkEnd
      PROVE  UNCHANGED <<pt, rt, ft, xl, gone, ev>>
  BY <1>9 DEF WorkSpread, WorkMark, WorkClear, WorkEnd, listVars
<1>10. ASSUME UNCHANGED vars PROVE UNCHANGED <<pt, rt, ft, xl, gone, ev>>
  BY <1>10 DEF vars, listVars
<1> HIDE DEF Same
<1>11. \/ \E s \in Sessions : Add(s) /\ Accept(s)
       \/ \E q \in Queues : FinishTask(q)
       \/ Same
  BY <1>1, <1>2, <1>3, <1>4, <1>5, <1>6, <1>7, <1>8, <1>9, <1>10 DEF Next, Goes, WorkStep, Finish
<1> QED
  BY <1>11 DEF Same

(* rec_cnt is fin_cnt and the records that are still on some list. *)
RecAt(e) == IsFiniteSet(RecTasks(e)) /\ ev[e].rec = ev[e].fin + Cardinality(RecTasks(e))

(* A record more, a record less, or none. *)
LEMMA RecMoves ==
  ASSUME Lists, [Next]_vars, NEW e \in Events
  PROVE  \/ \E t : t \notin RecTasks(e) /\ RecTasks(e)' = RecTasks(e) \cup {t}
                   /\ ev'[e].rec = ev[e].rec + 1 /\ ev'[e].fin = ev[e].fin
         \/ \E t \in RecTasks(e) : RecTasks(e)' = RecTasks(e) \ {t}
                   /\ ev'[e].rec = ev[e].rec /\ ev'[e].fin = ev[e].fin + 1
         \/ RecTasks(e)' = RecTasks(e) /\ ev'[e].rec = ev[e].rec /\ ev'[e].fin = ev[e].fin
<1>0. SessTypes /\ ListTypes /\ BoardTypes /\ Calls /\ Placed /\ Counted /\ Mirrored /\ Working
  BY DEF Lists
<1>1. ev \in [Events -> EvType]
  BY <1>0 DEF BoardTypes, EvType
<1> DEFINE More == \E t : t \notin RecTasks(e) /\ RecTasks(e)' = RecTasks(e) \cup {t}
                          /\ ev'[e].rec = ev[e].rec + 1 /\ ev'[e].fin = ev[e].fin
           Less == \E t \in RecTasks(e) : RecTasks(e)' = RecTasks(e) \ {t}
                          /\ ev'[e].rec = ev[e].rec /\ ev'[e].fin = ev[e].fin + 1
           Same == RecTasks(e)' = RecTasks(e) /\ ev'[e].rec = ev[e].rec /\ ev'[e].fin = ev[e].fin
<1>2. ASSUME NEW s \in Sessions, Add(s), Accept(s) PROVE More \/ Same
  <2> DEFINE t == Added(s)
  <2>1. /\ t.kind = arg[s].kind /\ t.ev = arg[s].ev /\ bound[s] \in Queues /\ t \in Item
        /\ \A q \in Queues : \A x \in On(q) : x.tk # t.tk
    BY <1>0, <1>2, AddedIs
  <2>2. PICK q \in Queues : q = bound[s]
    BY <2>1
  <2>3. OthersSame(q) /\ On(q)' = On(q) \cup {t}
    <3>1. OthersSame(bound[s]) /\ On(bound[s])' = On(bound[s]) \cup {t}
      BY <1>0, <1>2, AddShifts
    <3>2. bound' = bound
      BY <1>2 DEF Add
    <3> QED
      BY <2>2, <3>1, <3>2 DEF On
  <2>4. AllOn' = AllOn \cup {t}
    BY <2>3, AllOnMoves
  <2>5. t \notin AllOn
    BY <2>1 DEF AllOn
  <2>6. ev' = IF arg[s].kind = "rec" THEN [ev EXCEPT ![arg[s].ev].rec = @ + 1] ELSE ev
    BY <1>2 DEF Add
  <2> HIDE DEF t
  <2>7. CASE t.kind = "rec" /\ t.ev = e
    <3>1. RecTasks(e)' = RecTasks(e) \cup {t} /\ t \notin RecTasks(e)
      BY <2>4, <2>5, <2>7 DEF RecTasks
    <3>2. ev'[e].rec = ev[e].rec + 1 /\ ev'[e].fin = ev[e].fin
      BY <1>1, <2>1, <2>6, <2>7 DEF EvType
    <3> QED
      BY <3>1, <3>2
  <2>8. CASE ~(t.kind = "rec" /\ t.ev = e)
    <3>1. RecTasks(e)' = RecTasks(e)
      BY <2>4, <2>8 DEF RecTasks
    <3>2. ev'[e] = ev[e]
      BY <1>1, <2>1, <2>6, <2>8
    <3> QED
      BY <3>1, <3>2
  <2> QED
    BY <2>7, <2>8
<1>3. ASSUME NEW q \in Queues, FinishTask(q) PROVE Less \/ Same
  <2> DEFINE t == Head(gone[q])
  <2>1. t \in On(q) /\ OthersSame(q) /\ On(q)' = On(q) \ {t}
    BY <1>3, FreeOne
  <2>2. AllOn' = AllOn \ {t} /\ t \in AllOn
    BY <2>1, AllOnMoves DEF AllOn
  <2>3. ev' = IF t.kind = "rec" THEN [ev EXCEPT ![t.ev].fin = @ + 1] ELSE ev
    BY <1>3 DEF FinishTask
  <2> HIDE DEF t
  <2>4. CASE t.kind = "rec" /\ t.ev = e
    <3>1. RecTasks(e)' = RecTasks(e) \ {t} /\ t \in RecTasks(e)
      BY <2>2, <2>4 DEF RecTasks
    <3>2. ev'[e].fin = ev[e].fin + 1 /\ ev'[e].rec = ev[e].rec
      BY <1>1, <2>3, <2>4 DEF EvType
    <3> QED
      BY <3>1, <3>2
  <2>5. CASE ~(t.kind = "rec" /\ t.ev = e)
    <3>1. RecTasks(e)' = RecTasks(e)
      BY <2>2, <2>5 DEF RecTasks
    <3>2. ev'[e] = ev[e]
      BY <1>1, <2>3, <2>5
    <3> QED
      BY <3>1, <3>2
  <2> QED
    BY <2>4, <2>5
<1>4. ASSUME AllOn' = AllOn, \A x \in Events : ev'[x].rec = ev[x].rec /\ ev'[x].fin = ev[x].fin
      PROVE  Same
  BY <1>4 DEF RecTasks
<1> HIDE DEF More, Less, Same
<1>5. More \/ Less \/ Same
  BY <1>2, <1>3, <1>4, CountSteps
<1> QED
  BY <1>5 DEF More, Less, Same

(* Every step keeps the counts of an event right. *)
LEMMA RecNext ==
  ASSUME Lists, [Next]_vars, NEW e \in Events, RecAt(e)
  PROVE  RecAt(e)'
<1>0. ev[e].rec \in Nat /\ ev[e].fin \in Nat
  BY DEF Lists, BoardTypes
<1>1. IsFiniteSet(RecTasks(e)) /\ Cardinality(RecTasks(e)) \in Nat
      /\ ev[e].rec = ev[e].fin + Cardinality(RecTasks(e))
  BY FS_CardinalityType DEF RecAt
<1>2. ASSUME NEW t, t \notin RecTasks(e), RecTasks(e)' = RecTasks(e) \cup {t},
             ev'[e].rec = ev[e].rec + 1, ev'[e].fin = ev[e].fin
      PROVE  RecAt(e)'
  <2>1. IsFiniteSet(RecTasks(e)') /\ Cardinality(RecTasks(e)') = Cardinality(RecTasks(e)) + 1
    BY <1>1, <1>2, FS_AddElement
  <2> QED
    BY <1>0, <1>1, <1>2, <2>1 DEF RecAt
<1>3. ASSUME NEW t \in RecTasks(e), RecTasks(e)' = RecTasks(e) \ {t},
             ev'[e].rec = ev[e].rec, ev'[e].fin = ev[e].fin + 1
      PROVE  RecAt(e)'
  <2>1. IsFiniteSet(RecTasks(e)') /\ Cardinality(RecTasks(e)') = Cardinality(RecTasks(e)) - 1
    BY <1>1, <1>3, FS_RemoveElement
  <2> QED
    BY <1>0, <1>1, <1>3, <2>1 DEF RecAt
<1>4. ASSUME RecTasks(e)' = RecTasks(e), ev'[e].rec = ev[e].rec, ev'[e].fin = ev[e].fin
      PROVE  RecAt(e)'
  BY <1>1, <1>4 DEF RecAt
<1> QED
  BY <1>2, <1>3, <1>4, RecMoves

(* A revoked event is one that a process in error records. *)
RevokedAt(e) ==
  ev[e].revoked => \E x \in Sessions : <<"rec", e>> \in plan.calls[x] /\ up[Uproc[x]]

(* Setting a count of an event leaves its flag, and all of another event.  *)
LEMMA FlagField ==
  ASSUME NEW x \in EvType, NEW n
  PROVE  /\ [x EXCEPT !.rec = n].revoked = x.revoked
         /\ [x EXCEPT !.fin = n].revoked = x.revoked
BY DEF EvType

(* So does an update of the events that sets a count of one of them.       *)
LEMMA FlagStays ==
  ASSUME ev \in [Events -> EvType], NEW e \in Events, NEW f, NEW n
  PROVE  /\ [ev EXCEPT ![f].rec = n][e].revoked = ev[e].revoked
         /\ [ev EXCEPT ![f].fin = n][e].revoked = ev[e].revoked
<1>1. CASE f = e
  <2>1. /\ [ev EXCEPT ![f].rec = n][e] = [ev[e] EXCEPT !.rec = n]
        /\ [ev EXCEPT ![f].fin = n][e] = [ev[e] EXCEPT !.fin = n]
    BY <1>1
  <2> QED
    BY <2>1, FlagField
<1>2. CASE f # e
  BY <1>2
<1> QED
  BY <1>1, <1>2

(* An event is revoked by a reset that takes out a record of it. *)
LEMMA RevokedComes ==
  ASSUME Lists, [Next]_vars, NEW e \in Events, ev'[e].revoked
  PROVE  \/ ev[e].revoked
         \/ /\ WorkReset /\ Resets
            /\ \E p \in Queues : \E t \in Held(p) : BadAt(p, t.sess) /\ t.kind = "rec" /\ t.ev = e
<1>0. SessTypes /\ ListTypes /\ BoardTypes /\ Calls /\ Placed /\ Counted /\ Mirrored /\ Working
  BY DEF Lists
<1>1. ev \in [Events -> EvType]
  BY <1>0 DEF BoardTypes, EvType
<1>2. CASE WorkReset /\ Resets
  <2>1. Least(todo) \in Queues
    BY <1>2, ResetLists
  <2>2. PICK p \in Queues : p = Least(todo)
    BY <2>1
  <2> DEFINE gives == Only(rt[p] \o pt[p], BadTasks(p))
  <2>3. ev' = [x \in Events |-> [ev[x] EXCEPT !.revoked =
                 @ \/ \E t \in Elems(gives) : t.kind = "rec" /\ t.ev = x]]
    BY <1>0, <1>2, <2>2, ResetMoves
  <2>4. rt[p] \o pt[p] \in Seq(Item) /\ Elems(rt[p] \o pt[p]) = Elems(rt[p]) \cup Elems(pt[p])
    BY <1>0, ElemsConcat DEF ListTypes
  <2>5. Elems(gives) = Elems(rt[p] \o pt[p]) \cap BadTasks(p)
    BY <2>4, OnlyIs
  <2> HIDE DEF gives
  <2>6. ev[e].revoked \/ \E t \in Elems(gives) : t.kind = "rec" /\ t.ev = e
    BY <1>1, <2>3 DEF EvType
  <2>7. \A t \in Elems(gives) : t \in Held(p) /\ BadAt(p, t.sess)
    BY <2>4, <2>5 DEF Held, BadTasks
  <2> QED
    BY <1>2, <2>6, <2>7
<1>3. ASSUME ~(WorkReset /\ Resets) PROVE ev'[e].revoked = ev[e].revoked
  <2>1. ASSUME ev' = ev PROVE ev'[e].revoked = ev[e].revoked
    BY <2>1
  <2>2. ASSUME NEW s \in Sessions, Call(s) \/ WaitLook(s) \/ WaitReturn(s) \/ Close(s) PROVE ev' = ev
    BY <2>2 DEF Call, Begin, WaitBegin, WaitLook, WaitReturn, Close, CloseBegin, CloseTaint, CloseEnd
  <2>3. ASSUME NEW s \in Sessions, Add(s) PROVE ev'[e].revoked = ev[e].revoked
    <3>1. ev' = ev \/ ev' = [ev EXCEPT ![Added(s).ev].rec = @ + 1]
      BY <2>3 DEF Add, Added
    <3>2. [ev EXCEPT ![Added(s).ev].rec = @ + 1][e].revoked = ev[e].revoked
      BY <1>1, FlagStays
    <3> QED
      BY <3>1, <3>2
  <2>4. ASSUME NEW s \in Sessions, Publish(s) PROVE ev'[e].revoked = ev[e].revoked
    <3>1. ev' = [ev EXCEPT ![arg[s].ev].q = bound[s], ![arg[s].ev].seq = arg[s].seq]
      BY <2>4 DEF Publish
    <3> QED
      BY <1>1, <3>1 DEF EvType
  <2>5. ASSUME NEW q \in Queues, FinishTask(q) PROVE ev'[e].revoked = ev[e].revoked
    <3>1. ev' = ev \/ ev' = [ev EXCEPT ![Head(gone[q]).ev].fin = @ + 1]
      BY <2>5 DEF FinishTask
    <3>2. [ev EXCEPT ![Head(gone[q]).ev].fin = @ + 1][e].revoked = ev[e].revoked
      BY <1>1, FlagStays
    <3> QED
      BY <3>1, <3>2
  <2>6. ASSUME NEW q \in Queues,
               Hw(q) \/ HwFails(q) \/ IsrRead(q) \/ Isr(q) \/ FinishBegin(q) \/ FaultIrq(q)
                 \/ TimerDispatch(q) \/ TimerLate(q)
        PROVE  ev' = ev
    BY <2>6 DEF Hw, HwStart, HwDone, HwRecord, HwWait, HwFails, HwKeeps, IsrRead, Isr, FinishBegin,
                FaultIrq, TimerDispatch, TimerLate
  <2>7. ASSUME TimerTaint \/ WorkBegin \/ WorkUnits \/ WorkDrained \/ WorkGivesUp \/ WorkSync \/ WorkSpread
                 \/ WorkMark \/ WorkClear \/ WorkEnd
        PROVE  ev' = ev
    BY <2>7 DEF TimerTaint, WorkBegin, WorkUnits, WorkDrained, WorkGivesUp, WorkSync, WorkSpread,
                WorkMark, WorkClear, WorkEnd
  <2>8. ASSUME WorkReset PROVE ev' = ev
    BY <1>3, <2>8, PassesOver
  <2>9. ASSUME UNCHANGED vars PROVE ev' = ev
    BY <2>9 DEF vars
  <2> QED
    BY <2>1, <2>2, <2>3, <2>4, <2>5, <2>6, <2>7, <2>8, <2>9 DEF Next, Goes, WorkStep, Finish
<1> QED
  BY <1>2, <1>3

(* Every step keeps the revoked events so: by the time of the resets the   *)
(* errors have been spread.                                                *)
LEMMA RevokedNext ==
  ASSUME Lists, Planned, \A q \in Queues : SpreadAt(q), [Next]_vars, NEW e \in Events, RevokedAt(e)
  PROVE  RevokedAt(e)'
<1>1. plan' = plan
  BY BoundStays DEF Lists
<1>2. \A x \in Sessions : up[Uproc[x]] => up'[Uproc[x]]
  BY ErrorsStay
<1>3. ASSUME WorkReset, Resets, NEW p \in Queues, NEW t \in Held(p), BadAt(p, t.sess), t.kind = "rec", t.ev = e
      PROVE  \E x \in Sessions : <<"rec", e>> \in plan.calls[x] /\ up[Uproc[x]]
  <2>1. t.sess \in Sessions /\ t \in On(p)
    BY HeldBound
  <2>2. <<"rec", e>> \in plan.calls[t.sess]
    BY <1>3, <2>1 DEF Planned
  <2>3. Passed(p)
    BY <1>3 DEF Resets, Passed
  <2>4. CASE failed[t.sess]
    <3>1. up[Uproc[t.sess]]
      BY <1>3, <2>3, <2>4 DEF SpreadAt, InTrouble, Stuck
    <3> QED
      BY <2>1, <2>2, <3>1
  <2>5. CASE t.sess \in FailedSession(p)
    <3>1. PICK x \in Elems(rt[p]) : x.tk = board[p] /\ x.sess = t.sess
      BY <2>5 DEF FailedSession
    <3>2. up[Uproc[t.sess]]
      BY <1>3, <2>3, <3>1 DEF SpreadAt
    <3> QED
      BY <2>1, <2>2, <3>2
  <2> QED
    BY <1>3, <2>4, <2>5 DEF BadAt
<1>4. ASSUME ev'[e].revoked PROVE \E x \in Sessions : <<"rec", e>> \in plan.calls[x] /\ up[Uproc[x]]
  BY <1>3, <1>4, RevokedComes DEF RevokedAt
<1> QED
  BY <1>1, <1>2, <1>4 DEF RevokedAt

-----------------------------------------------------------------------------
(* A wait does not know of more records than there are; one that is about  *)
(* to succeed knows of all of them, and they are over, or of a new one.    *)
WaitAt(s) ==
  pc[s] \in {"look", "ok"} =>
    LET e == arg[s].ev
    IN  /\ arg[s].seq <= ev[e].rec
        /\ pc[s] = "ok" /\ ev[e].rec = arg[s].seq => RecTasks(e) = {} /\ ~ev[e].revoked

(* A wait that sees all records over finds none left and none revoked.     *)
LEMMA WaitSees ==
  ASSUME Lists, Planned, \A e \in Events : RecAt(e) /\ RevokedAt(e), \A s \in Sessions : FileAt(s),
         "split" \notin Races, NEW s \in Sessions, WaitLook(s), pc'[s] = "ok"
  PROVE  RecTasks(arg[s].ev) = {} /\ ~ev[arg[s].ev].revoked
<1>0. SessTypes /\ ListTypes /\ BoardTypes /\ Calls /\ Placed /\ Counted /\ Mirrored /\ Working
  BY DEF Lists
<1>1. PICK e \in Events : e = arg[s].ev
  BY <1>0 DEF Calls, WaitLook
<1>2. ev[e].rec = arg[s].seq /\ arg[s].seq <= ev[e].fin /\ ~failed[s] /\ pc[s] = "look"
  BY <1>0, <1>1 DEF WaitLook, RecordsOver, SessTypes
<1>3. ev[e].rec \in Nat /\ ev[e].fin \in Nat
  BY <1>0 DEF BoardTypes
<1>4. IsFiniteSet(RecTasks(e)) /\ Cardinality(RecTasks(e)) \in Nat
      /\ ev[e].rec = ev[e].fin + Cardinality(RecTasks(e))
  BY FS_CardinalityType DEF RecAt
<1>5. Cardinality(RecTasks(e)) = 0
  BY <1>2, <1>3, <1>4
<1>6. RecTasks(e) = {}
  BY <1>4, <1>5, FS_EmptySet
<1>7. ASSUME ev[e].revoked PROVE FALSE
  <2>1. PICK x \in Sessions : <<"rec", e>> \in plan.calls[x] /\ up[Uproc[x]]
    BY <1>7 DEF RevokedAt
  <2>2. <<"hostwait", e>> \in plan.calls[s]
    BY <1>1, <1>2 DEF Planned
  <2>3. UsesEvent(plan, x, e) /\ UsesEvent(plan, s, e)
    BY <2>1, <2>2 DEF UsesEvent
  <2>4. Uproc[x] = Uproc[s]
    BY <1>0, <2>3, EventsOfOneProcess DEF SessTypes
  <2>5. file[s] = "open"
    BY <1>2 DEF FileAt
  <2> QED
    BY <1>2, <2>1, <2>4, <2>5 DEF FileAt
<1> QED
  BY <1>1, <1>6, <1>7

(* What is over and not revoked stays so until the next record.            *)
LEMMA OverStays ==
  ASSUME Lists, [Next]_vars, NEW e \in Events
  PROVE  /\ ev'[e].rec >= ev[e].rec
         /\ ev'[e].rec = ev[e].rec /\ RecTasks(e) = {} => RecTasks(e)' = {}
         /\ RecTasks(e) = {} /\ ~ev[e].revoked => ~ev'[e].revoked
<1>1. ev[e].rec \in Nat
  BY DEF Lists, BoardTypes
<1>2. /\ ev'[e].rec >= ev[e].rec
      /\ ev'[e].rec = ev[e].rec /\ RecTasks(e) = {} => RecTasks(e)' = {}
  BY <1>1, RecMoves
<1>3. ASSUME RecTasks(e) = {}, ~ev[e].revoked, ev'[e].revoked PROVE FALSE
  <2>1. PICK p \in Queues : \E t \in Held(p) : t.kind = "rec" /\ t.ev = e
    BY <1>3, RevokedComes
  <2>2. PICK t \in Held(p) : t.kind = "rec" /\ t.ev = e
    BY <2>1
  <2>3. t \in On(p)
    BY HeldBound
  <2> QED
    BY <1>3, <2>2, <2>3 DEF RecTasks, AllOn
<1> QED
  BY <1>2, <1>3

(* Every step keeps the waits so.                                          *)
LEMMA WaitNext ==
  ASSUME Lists, Planned, \A e \in Events : RecAt(e) /\ RevokedAt(e), \A s \in Sessions : FileAt(s),
         "split" \notin Races, [Next]_vars, NEW s \in Sessions, WaitAt(s)
  PROVE  WaitAt(s)'
<1>0. SessTypes /\ ListTypes /\ BoardTypes /\ Calls /\ Placed /\ Counted /\ Mirrored /\ Working
  BY DEF Lists
<1>1. CASE Begin(s) \/ Add(s) \/ Publish(s) \/ WaitReturn(s)
  <2>1. pc'[s] \notin {"look", "ok"}
    BY <1>0, <1>1 DEF Begin, Add, Publish, WaitReturn, SessTypes
  <2> QED
    BY <2>1 DEF WaitAt
<1>2. CASE WaitBegin(s)
  <2>1. PICK c \in plan.calls[s] :
          arg' = [arg EXCEPT ![s] = [NoTask EXCEPT !.ev = c[2], !.seq = ev[c[2]].rec]]
    BY <1>2 DEF WaitBegin
  <2>2. arg'[s] = [NoTask EXCEPT !.ev = c[2], !.seq = ev[c[2]].rec]
    BY <1>0, <2>1 DEF SessTypes
  <2>3. arg'[s].ev = c[2] /\ arg'[s].seq = ev[c[2]].rec
    BY <2>2 DEF NoTask
  <2>4. pc'[s] = "look" /\ ev' = ev
    BY <1>0, <1>2 DEF WaitBegin, SessTypes
  <2>5. c[2] \in Events
    BY <1>0, Sizes DEF SessTypes, CallType
  <2>6. ev[c[2]].rec \in Nat
    BY <1>0, <2>5 DEF BoardTypes
  <2> QED
    BY <2>3, <2>4, <2>6 DEF WaitAt
<1>3. CASE WaitLook(s)
  <2>1. CASE pc'[s] = "ok"
    <3>1. arg'[s] = arg[s] /\ UNCHANGED <<ev, pt, rt, ft, xl, gone>> /\ pc[s] = "look"
      BY <1>0, <1>3, <2>1 DEF WaitLook, SessTypes, listVars
    <3>2. \A e : RecTasks(e)' = RecTasks(e)
      BY <3>1 DEF RecTasks, AllOn, On
    <3>3. RecTasks(arg[s].ev) = {} /\ ~ev[arg[s].ev].revoked
      BY <1>3, <2>1, WaitSees
    <3> QED
      BY <3>1, <3>2, <3>3 DEF WaitAt
  <2>2. CASE pc'[s] # "ok"
    <3>1. pc'[s] = "idle"
      BY <1>0, <1>3, <2>2 DEF WaitLook, SessTypes
    <3> QED
      BY <3>1 DEF WaitAt
  <2> QED
    BY <2>1, <2>2
<1>4. CASE pc'[s] = pc[s] /\ arg'[s] = arg[s]
  <2> SUFFICES ASSUME pc[s] \in {"look", "ok"} PROVE WaitAt(s)'
    BY <1>4 DEF WaitAt
  <2>1. PICK e \in Events : e = arg[s].ev
    BY <1>0 DEF Calls
  <2>2. arg[s].seq <= ev[e].rec /\ (pc[s] = "ok" /\ ev[e].rec = arg[s].seq => RecTasks(e) = {} /\ ~ev[e].revoked)
    BY <2>1 DEF WaitAt
  <2>3. arg[s].seq \in Nat /\ ev[e].rec \in Nat
    BY <1>0 DEF SessTypes, Args, BoardTypes
  <2>4. /\ ev'[e].rec >= ev[e].rec
        /\ ev'[e].rec = ev[e].rec /\ RecTasks(e) = {} => RecTasks(e)' = {}
        /\ RecTasks(e) = {} /\ ~ev[e].revoked => ~ev'[e].revoked
    BY OverStays
  <2>5. ev'[e].rec \in Nat
    BY RecMoves, <2>3
  <2>6. ev'[e].rec = arg[s].seq => ev[e].rec = arg[s].seq
    BY <2>2, <2>3, <2>4, <2>5
  <2>7. arg[s].seq <= ev'[e].rec
    BY <2>2, <2>3, <2>4, <2>5
  <2>8. pc[s] = "ok" /\ ev'[e].rec = arg[s].seq => RecTasks(e)' = {} /\ ~ev'[e].revoked
    BY <2>2, <2>4, <2>6
  <2>9. arg'[s].ev = e /\ arg'[s].seq = arg[s].seq /\ pc'[s] = pc[s]
    BY <1>4, <2>1
  <2>10. RecTasks(arg[s].ev)' = RecTasks(e)'
    BY <2>9 DEF RecTasks
  <2> QED
    BY <2>7, <2>8, <2>9, <2>10 DEF WaitAt
<1> QED
  BY <1>0, <1>1, <1>2, <1>3, <1>4, OwnCalls DEF Call, Goes

(* All that an honest wait rests on.                                       *)
WaitInv ==
  /\ Planned
  /\ \A q \in Queues : BoardAt(q) /\ SpreadAt(q)
  /\ \A s \in Sessions : FileAt(s) /\ WaitAt(s)
  /\ \A e \in Events : RecAt(e) /\ RevokedAt(e)

(* Waits are honest at the start, when there are neither records nor errors. *)
LEMMA WaitInit == Init => WaitInv
<1> SUFFICES ASSUME Init PROVE WaitInv
  OBVIOUS
<1>1. /\ \A q \in Queues : /\ pt[q] = <<>> /\ rt[q] = <<>> /\ ft[q] = <<>> /\ xl[q] = <<>>
                           /\ gone[q] = <<>> /\ hw[q] = <<>>
      /\ \A s \in Sessions : /\ pc[s] = "idle" /\ file[s] = "open" /\ ~up[Uproc[s]]
      /\ \A e \in Events : ev[e].rec = 0 /\ ev[e].fin = 0 /\ ~ev[e].revoked
  BY DEF Init, Rep
<1>2. \A q \in Queues : On(q) = {} /\ Held(q) = {} /\ Elems(rt[q]) = {} /\ Elems(hw[q]) = {}
  BY <1>1, ElemsEmpty DEF On, AllOf, Held
<1>3. \A e \in Events : RecTasks(e) = {}
  BY <1>2 DEF RecTasks, AllOn
<1>4. \A e \in Events : RecAt(e) /\ RevokedAt(e)
  <2>1. IsFiniteSet({}) /\ Cardinality({}) = 0
    BY FS_EmptySet
  <2>2. \A e \in Events : IsFiniteSet(RecTasks(e)) /\ Cardinality(RecTasks(e)) = 0
    BY <1>3, <2>1
  <2>3. \A e \in Events : RecAt(e)
    BY <1>1, <2>2 DEF RecAt
  <2>4. \A e \in Events : RevokedAt(e)
    BY <1>1 DEF RevokedAt
  <2> QED
    BY <2>3, <2>4
<1>5. \A s \in Sessions : FileAt(s) /\ WaitAt(s)
  BY <1>1 DEF FileAt, WaitAt
<1>6. \A q \in Queues : BoardAt(q) /\ SpreadAt(q)
  BY <1>2 DEF BoardAt, SpreadAt
<1>7. Planned
  BY <1>1, <1>2 DEF Planned
<1> QED
  BY <1>4, <1>5, <1>6, <1>7 DEF WaitInv

(* Every step keeps all that an honest wait rests on. *)
LEMMA WaitInvNext ==
  ASSUME "close" \notin Races, "late" \notin Races, "record" \notin Races, "split" \notin Races
  PROVE  Lists /\ CutInv /\ WaitInv /\ [Next]_vars => WaitInv'
<1> SUFFICES ASSUME Lists, CutInv, WaitInv, [Next]_vars PROVE WaitInv'
  OBVIOUS
<1>1. /\ Planned
      /\ \A q \in Queues : BoardAt(q)
      /\ \A q \in Queues : SpreadAt(q)
      /\ \A s \in Sessions : FileAt(s)
      /\ \A s \in Sessions : WaitAt(s)
      /\ \A e \in Events : RecAt(e) /\ RevokedAt(e)
  BY DEF WaitInv
<1>2. Planned'
  BY <1>1, PlannedStep
<1>3. \A q \in Queues : BoardAt(q)'
  BY <1>1, BoardNext
<1>4. \A q \in Queues : SpreadAt(q)'
  BY <1>1, SpreadNext
<1>5. \A s \in Sessions : FileAt(s)'
  BY <1>1, FileNext
<1>6. \A s \in Sessions : WaitAt(s)'
  BY <1>1, WaitNext
<1>7. \A e \in Events : RecAt(e)' /\ RevokedAt(e)'
  BY <1>1, RecNext, RevokedNext
<1> QED
  BY <1>2, <1>3, <1>4, <1>5, <1>6, <1>7 DEF WaitInv

(* Where a session that records closes only without tasks, no late kernel  *)
(* ends by itself, and no event is recorded while the exception work or a  *)
(* thread looks at it, a wait that reports success found all the records   *)
(* it knew of made, none of them revoked.                                  *)
THEOREM WaitsHonest ==
  ASSUME "close" \notin Races, "late" \notin Races, "record" \notin Races, "split" \notin Races
  PROVE  Spec => []EventWaitHonest
<1>1. Lists /\ WaitInv => EventWaitHonest
  <2> SUFFICES ASSUME Lists, WaitInv, NEW s \in Sessions, pc[s] = "ok", ev[arg[s].ev].rec = arg[s].seq
               PROVE  /\ ~ev[arg[s].ev].revoked
                      /\ \A q \in Queues : \A t \in Elems(pt[q] \o rt[q] \o xl[q]) :
                           ~(t.kind = "rec" /\ t.ev = arg[s].ev)
    BY DEF EventWaitHonest
  <2>1. RecTasks(arg[s].ev) = {} /\ ~ev[arg[s].ev].revoked
    BY DEF WaitInv, WaitAt
  <2>2. ASSUME NEW q \in Queues, NEW t \in Elems(pt[q] \o rt[q] \o xl[q]) PROVE t \in AllOn
    <3>1. t \in Left(q)
      BY <2>2, ListsElems DEF Lists
    <3>2. t \in On(q)
      BY <3>1 DEF Left, Unended, On, AllOf
    <3> QED
      BY <3>2 DEF AllOn
  <2> QED
    BY <2>1, <2>2 DEF RecTasks
<1>2. ListsInv => Lists
  BY DEF ListsInv, Lists
<1>3. Lists /\ CutInv /\ WaitInv /\ [Next]_vars => WaitInv'
  BY WaitInvNext
<1>4. Spec => [](ListsInv /\ CutInv)
  BY CutKept
<1> QED
  BY <1>1, <1>2, <1>3, <1>4, WaitInit, PTL DEF Spec
=============================================================================
