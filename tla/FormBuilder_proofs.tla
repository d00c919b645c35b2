-------------------------- MODULE FormBuilder_proofs --------------------------
(***************************************************************************)
(* Proofs about the page on which a form is built: that its budget and its *)
(* copy of the form agree with the database, that a save changes the       *)
(* setting that the admin has changed, and that a field that is saved in   *)
(* its modal is one that the schemas accept and respondents can answer.    *)
(*                                                                         *)
(* The first two are about a page that has one request under way at most.  *)
(* The invariant tells what the form will be when the request has its      *)
(* answer, for as long as none of the lapses has happened that the         *)
(* property bears.  The last is about the modal alone: its invariant,      *)
(* EditorInv, says what a field of each type is like while it is edited.   *)
(***************************************************************************)
EXTENDS AdminBuilder, FormEditing_proofs

-----------------------------------------------------------------------------
(* Folds.  A fold of the library is a function on sets of positions, which *)
(* takes the last of them first; on the sets 1..k it is the recursion that *)
(* one reads from left to right.                                           *)

(* A set with 0 that has the successor of each of its numbers up to n.     *)
LEMMA CountsUp ==
  ASSUME NEW n \in Nat, NEW T, 0 \in T,
         \A k \in 0..n : k \in T /\ k # n => k + 1 \in T
  PROVE  0..n \subseteq T
<1>. DEFINE Bad == {k \in 0..n : k \notin T}
<1>1. SUFFICES ASSUME Bad # {}
               PROVE  FALSE
  OBVIOUS
<1>2. PICK k \in Bad : \A m \in Bad : k <= m
  <2>1. Bad \in SUBSET Nat
    OBVIOUS
  <2>. QED
    <3>. HIDE DEF Bad
    <3>. QED  BY <1>1, <2>1, LeastExists
<1>3. k \in 0..n /\ k \notin T /\ k # 0
  OBVIOUS
<1>4. k - 1 \in 0..n /\ k - 1 # n /\ k = (k - 1) + 1
  BY <1>3
<1>5. k - 1 \notin Bad
  BY <1>2, <1>4
<1>6. k - 1 \in T
  BY <1>4, <1>5
<1>. QED  BY <1>3, <1>4, <1>6

(* The greatest number of 1..k is k.                                       *)
LEMMA MaxOfInterval ==
  ASSUME NEW k \in Nat \ {0}
  PROVE  /\ Max(1..k) = k
         /\ (1..k) \ {k} = 1..(k - 1)
         /\ 1..k # {}
<1>1. k \in 1..k /\ \A m \in 1..k : k >= m
  OBVIOUS
<1>2. \A m \in 1..k : (\A i \in 1..k : m >= i) => m = k
  OBVIOUS
<1>3. Max(1..k) = k
  BY <1>1, <1>2 DEF Max
<1>4. (1..k) \ {k} = 1..(k - 1)
  <2>1. \A m : m \in 1..k /\ m # k <=> m \in 1..(k - 1)
    OBVIOUS
  <2>. QED  BY <2>1
<1>. QED  BY <1>1, <1>3, <1>4

LEMMA MaxOfPositions ==
  ASSUME NEW n \in Nat, NEW s \in SUBSET (1..n), s # {}
  PROVE  Max(s) \in s /\ \A m \in s : Max(s) >= m
<1>. DEFINE Above == {n - i : i \in s}
<1>1. Above \in SUBSET Nat /\ Above # {}
  <2>1. \A i \in s : n - i \in Nat
    OBVIOUS
  <2>2. \A a \in Above : a \in Nat
    BY <2>1
  <2>3. PICK i : i \in s
    OBVIOUS
  <2>4. n - i \in Above
    BY <2>3
  <2>. QED  BY <2>2, <2>4
<1>2. PICK d \in Above : \A e \in Above : d <= e
  <2>. HIDE DEF Above
  <2>. QED  BY <1>1, LeastExists
<1>3. PICK x \in s : d = n - x
  OBVIOUS
<1>4. \A m \in s : x >= m
  <2>1. SUFFICES ASSUME NEW m \in s
                 PROVE  x >= m
    OBVIOUS
  <2>2. n - m \in Above
    OBVIOUS
  <2>3. n - x <= n - m
    BY <1>2, <1>3, <2>2
  <2>. QED  BY <2>3
<1>. QED  BY <1>3, <1>4 DEF Max

(* There is a function that folds the steps F.                             *)
IsFold(f, n, F, base) ==
    \A s \in SUBSET (1..n) :
        f[s] = IF s = {} THEN base ELSE F[Max(s)][f[s \ {Max(s)}]]

LEMMA FoldExists ==
  ASSUME NEW S, NEW base \in S, NEW n \in Nat, NEW F \in [1..n -> [S -> S]]
  PROVE  \E f \in [SUBSET (1..n) -> S] : IsFold(f, n, F, base)
<1>. DEFINE HasFold(k) == \E f \in [SUBSET (1..k) -> S] : IsFold(f, k, F, base)
            T == {k \in 0..n : HasFold(k)}
<1>1. 0 \in T
  <2>. DEFINE f == [s \in SUBSET (1..0) |-> base]
  <2>1. 1..0 = {} /\ f \in [SUBSET (1..0) -> S]
    OBVIOUS
  <2>2. IsFold(f, 0, F, base)
    BY <2>1 DEF IsFold
  <2>. QED  BY <2>1, <2>2
<1>2. ASSUME NEW k \in 0..n, k \in T, k # n
      PROVE  k + 1 \in T
  <2>1. PICK f \in [SUBSET (1..k) -> S] : IsFold(f, k, F, base)
    BY <1>2
  <2>2. k + 1 \in 1..n /\ k \in Nat
    BY <1>2
  <2>. DEFINE g == [s \in SUBSET (1..(k + 1)) |->
                       IF k + 1 \in s THEN F[k + 1][f[s \ {k + 1}]] ELSE f[s]]
  <2>3. \A s \in SUBSET (1..(k + 1)) :
           /\ s \ {k + 1} \in SUBSET (1..k)
           /\ k + 1 \notin s => s \in SUBSET (1..k)
    BY <2>2
  <2>4. g \in [SUBSET (1..(k + 1)) -> S]
    BY <2>2, <2>3
  <2>5. ASSUME NEW s \in SUBSET (1..(k + 1)), s # {}
        PROVE  g[s] = F[Max(s)][g[s \ {Max(s)}]]
    <3>1. Max(s) \in s /\ \A m \in s : Max(s) >= m
      <4>1. k + 1 \in Nat
        BY <2>2
      <4>. QED
        <5>. HIDE DEF g
        <5>. QED  BY <2>5, <4>1, MaxOfPositions
    <3>2. CASE k + 1 \in s
      <4>1. Max(s) = k + 1
        <5>1. \A m \in 1..(k + 1) : m >= k + 1 => m = k + 1
          BY <2>2
        <5>. QED
          <6>. HIDE DEF g
          <6>. QED  BY <3>1, <3>2, <5>1
      <4>2. g[s \ {k + 1}] = f[s \ {k + 1}]
        BY <2>3
      <4>. QED  BY <3>2, <4>1, <4>2
    <3>3. CASE k + 1 \notin s
      <4>1. s \in SUBSET (1..k) /\ s \ {Max(s)} \in SUBSET (1..k)
        BY <2>3, <3>3
      <4>2. f[s] = F[Max(s)][f[s \ {Max(s)}]]
        BY <2>1, <2>5, <4>1 DEF IsFold
      <4>3. g[s] = f[s] /\ g[s \ {Max(s)}] = f[s \ {Max(s)}]
        BY <3>3
      <4>. QED  BY <4>2, <4>3
    <3>. QED  BY <3>2, <3>3
  <2>6. g[{}] = base
    <3>1. f[{}] = base
      BY <2>1 DEF IsFold
    <3>. QED  BY <3>1
  <2>7. IsFold(g, k + 1, F, base)
    <3>. HIDE DEF g
    <3>. QED  BY <2>5, <2>6 DEF IsFold
  <2>8. HasFold(k + 1)
    <3>. HIDE DEF g
    <3>. QED  BY <2>4, <2>7
  <2>9. k + 1 \in 0..n
    BY <2>2
  <2>. QED  BY <2>8, <2>9
<1>3. 0..n \subseteq T
  <2>. HIDE DEF T
  <2>. QED  BY <1>1, <1>2, CountsUp
<1>4. n \in T
  <2>. HIDE DEF T
  <2>. QED  BY <1>3
<1>. QED  BY <1>4

-----------------------------------------------------------------------------
(* The megabytes of the attachments in a list of fields *)

TotalSize(fields) ==
    FoldLeftDomain(LAMBDA total, i : total + SizeOf(fields[i]), 0, fields)

LEMMA SizeIsNat ==
  ASSUME NEW field \in FormField
  PROVE  SizeOf(field) \in Nat
BY DEF SizeOf, FormField

(* g[k] are the megabytes of the first k fields.                           *)
Sums(g, fields) ==
    /\ g[0] = 0
    /\ \A k \in 1..Len(fields) : g[k] = g[k - 1] + SizeOf(fields[k])

LEMMA SumsExist ==
  ASSUME NEW fields \in Seq(FormField)
  PROVE  \E g : Sums(g, fields) /\ TotalSize(fields) = g[Len(fields)]
<1>. DEFINE n == Len(fields)
            d == [i \in DOMAIN fields |-> i]
            Adds(f) == f = [s \in SUBSET DOMAIN d |->
                               IF s = {} THEN 0
                               ELSE f[s \ {Max(s)}] + SizeOf(fields[d[Max(s)]])]
            F == [i \in 1..n |-> [t \in Nat |-> t + SizeOf(fields[i])]]
<1>1. TotalSize(fields) = (CHOOSE f : Adds(f))[DOMAIN d]
  BY DEF TotalSize, FoldLeftDomain, FoldLeft, MapThenFoldSet
<1>2. /\ n \in Nat /\ DOMAIN d = 1..n /\ \A i \in 1..n : d[i] = i
      /\ \A i \in 1..n : SizeOf(fields[i]) \in Nat
  <2>1. n \in Nat /\ DOMAIN fields = 1..n /\ \A i \in 1..n : fields[i] \in FormField
    OBVIOUS
  <2>. QED  BY <2>1, SizeIsNat
<1>3. F \in [1..n -> [Nat -> Nat]]
  <2>1. \A i \in 1..n : [t \in Nat |-> t + SizeOf(fields[i])] \in [Nat -> Nat]
    BY <1>2
  <2>. QED  BY <2>1
<1>4. PICK f \in [SUBSET (1..n) -> Nat] : IsFold(f, n, F, 0)
  <2>1. 0 \in Nat /\ n \in Nat
    BY <1>2
  <2>. HIDE DEF F, n
  <2>. QED  BY <1>3, <2>1, FoldExists
<1>5. Adds(f)
  <2>1. ASSUME NEW s \in SUBSET (1..n), s # {}
        PROVE  f[s] = f[s \ {Max(s)}] + SizeOf(fields[d[Max(s)]])
    <3>1. Max(s) \in 1..n
      BY <1>2, <2>1, MaxOfPositions
    <3>2. f[s \ {Max(s)}] \in Nat
      BY <1>4
    <3>3. F[Max(s)][f[s \ {Max(s)}]]
            = f[s \ {Max(s)}] + SizeOf(fields[d[Max(s)]])
      BY <1>2, <3>1, <3>2
    <3>4. f[s] = F[Max(s)][f[s \ {Max(s)}]]
      <4>. HIDE DEF F
      <4>. QED  BY <1>4, <2>1 DEF IsFold
    <3>. QED  BY <3>3, <3>4
  <2>2. f[{}] = 0
    BY <1>4 DEF IsFold
  <2>3. f = [s \in SUBSET (1..n) |-> f[s]]
    BY <1>4
  <2>4. [s \in SUBSET (1..n) |-> f[s]]
          = [s \in SUBSET (1..n) |->
                IF s = {} THEN 0
                ELSE f[s \ {Max(s)}] + SizeOf(fields[d[Max(s)]])]
    <3>. HIDE DEF F, d
    <3>. QED  BY <2>1, <2>2
  <2>. QED  BY <1>2, <2>3, <2>4
<1>6. PICK e : Adds(e) /\ e = CHOOSE f_1 : Adds(f_1)
  <2>. HIDE DEF Adds
  <2>. QED  BY <1>5
<1>7. \A s \in SUBSET (1..n) :
         e[s] = IF s = {} THEN 0
                ELSE e[s \ {Max(s)}] + SizeOf(fields[d[Max(s)]])
  BY <1>2, <1>6
<1>. DEFINE g == [k \in 0..n |-> e[1..k]]
<1>8. g[0] = 0
  <2>1. 1..0 = {} /\ 0 \in 0..n
    BY <1>2
  <2>. QED  BY <1>7, <2>1
<1>9. ASSUME NEW k \in 1..n
      PROVE  g[k] = g[k - 1] + SizeOf(fields[k])
  <2>1. k \in 0..n /\ k - 1 \in 0..n /\ 1..k \in SUBSET (1..n) /\ k \in Nat \ {0}
    BY <1>2
  <2>2. /\ Max(1..k) = k /\ (1..k) \ {k} = 1..(k - 1) /\ 1..k # {}
    BY <2>1, MaxOfInterval
  <2>3. e[1..k] = e[1..(k - 1)] + SizeOf(fields[k])
    <3>1. e[1..k] = e[1..(k - 1)] + SizeOf(fields[d[k]])
      BY <1>7, <2>1, <2>2
    <3>2. d[k] = k
      BY <1>2, <2>1
    <3>. QED  BY <3>1, <3>2
  <2>. QED  BY <2>1, <2>3
<1>10. TotalSize(fields) = g[n]
  <2>1. n \in 0..n
    BY <1>2
  <2>. HIDE DEF Adds, d
  <2>. QED  BY <1>1, <1>2, <1>6, <2>1
<1>. QED
  <2>. HIDE DEF g
  <2>. QED  BY <1>8, <1>9, <1>10 DEF Sums

(* There is one such sum, and it is a number.                              *)
LEMMA SumsAgree ==
  ASSUME NEW fields \in Seq(FormField), NEW g, Sums(g, fields)
  PROVE  TotalSize(fields) = g[Len(fields)] /\ TotalSize(fields) \in Nat
         /\ \A k \in 0..Len(fields) : g[k] \in Nat
<1>. DEFINE n == Len(fields)
<1>1. /\ n \in Nat
      /\ \A i \in 1..n : SizeOf(fields[i]) \in Nat
  <2>1. n \in Nat /\ DOMAIN fields = 1..n /\ \A i \in 1..n : fields[i] \in FormField
    OBVIOUS
  <2>. QED  BY <2>1, SizeIsNat
<1>2. PICK h : Sums(h, fields) /\ TotalSize(fields) = h[n]
  BY SumsExist
<1>. DEFINE T == {k \in 0..n : g[k] = h[k] /\ g[k] \in Nat}
<1>3. 0 \in T
  BY <1>1, <1>2 DEF Sums
<1>4. \A k \in 0..n : k \in T /\ k # n => k + 1 \in T
  <2>1. SUFFICES ASSUME NEW k \in 0..n, k \in T, k # n
                 PROVE  k + 1 \in T
    OBVIOUS
  <2>2. k + 1 \in 1..n /\ (k + 1) - 1 = k /\ k + 1 \in 0..n
    BY <1>1, <2>1
  <2>3. /\ g[k + 1] = g[k] + SizeOf(fields[k + 1])
        /\ h[k + 1] = h[k] + SizeOf(fields[k + 1])
    BY <1>2, <2>2 DEF Sums
  <2>4. SizeOf(fields[k + 1]) \in Nat
    BY <1>1, <2>2
  <2>5. g[k] = h[k] /\ g[k] \in Nat
    BY <2>1
  <2>. QED  BY <2>2, <2>3, <2>4, <2>5
<1>5. 0..n \subseteq T
  <2>. HIDE DEF T
  <2>. QED  BY <1>1, <1>3, <1>4, CountsUp
<1>6. n \in T
  <2>1. n \in 0..n
    BY <1>1
  <2>. HIDE DEF T, n
  <2>. QED  BY <1>5, <2>1
<1>7. \A k \in 0..n : g[k] \in Nat
  BY <1>5
<1>. QED  BY <1>2, <1>6, <1>7

(* What the operations on a list of fields make of its megabytes.          *)
LEMMA SizeAppended ==
  ASSUME NEW s \in Seq(FormField), NEW e \in FormField
  PROVE  TotalSize(Append(s, e)) = TotalSize(s) + SizeOf(e)
<1>. DEFINE n == Len(s)
            a == Append(s, e)
<1>1. PICK g : Sums(g, s)
  BY SumsExist
<1>2. /\ TotalSize(s) = g[n] /\ n \in Nat /\ a \in Seq(FormField)
      /\ Len(a) = n + 1 /\ a[n + 1] = e /\ \A k \in 1..n : a[k] = s[k]
  BY <1>1, SumsAgree
<1>. DEFINE h == [k \in 0..(n + 1) |-> IF k = n + 1 THEN g[n] + SizeOf(e) ELSE g[k]]
<1>. HIDE DEF a, n
<1>3. h[0] = 0
  BY <1>1, <1>2 DEF Sums
<1>4. ASSUME NEW k \in 1..(n + 1)
      PROVE  h[k] = h[k - 1] + SizeOf(a[k])
  <2>1. CASE k = n + 1
    BY <1>2, <2>1
  <2>2. CASE k \in 1..n
    <3>1. h[k] = g[k] /\ h[k - 1] = g[k - 1]
      BY <1>2, <2>2
    <3>2. g[k] = g[k - 1] + SizeOf(s[k])
      BY <1>1, <2>2 DEF Sums, n
    <3>. QED  BY <1>2, <2>2, <3>1, <3>2
  <2>. QED  BY <1>2, <2>1, <2>2
<1>5. Sums(h, a)
  <2>. HIDE DEF h
  <2>. QED  BY <1>2, <1>3, <1>4 DEF Sums
<1>6. TotalSize(a) = h[n + 1]
  <2>. HIDE DEF h
  <2>. QED  BY <1>2, <1>5, SumsAgree
<1>7. h[n + 1] = g[n] + SizeOf(e)
  BY <1>2
<1>. QED  BY <1>2, <1>6, <1>7 DEF a

LEMMA SizeReplaced ==
  ASSUME NEW s \in Seq(FormField), NEW e \in FormField, NEW i \in 1..Len(s)
  PROVE  TotalSize(ReplaceAt(s, i, e))
           = TotalSize(s) - SizeOf(s[i]) + SizeOf(e)
<1>. DEFINE n == Len(s)
            a == ReplaceAt(s, i, e)
<1>1. PICK g : Sums(g, s)
  BY SumsExist
<1>2. /\ TotalSize(s) = g[n] /\ n \in Nat /\ i \in 1..n
      /\ \A k \in 0..n : g[k] \in Nat
      /\ SizeOf(e) \in Nat /\ SizeOf(s[i]) \in Nat
  <2>1. s[i] \in FormField
    OBVIOUS
  <2>. QED  BY <1>1, <2>1, SumsAgree, SizeIsNat
<1>3. /\ a \in Seq(FormField) /\ Len(a) = n
      /\ \A k \in 1..n : a[k] = IF k = i THEN e ELSE s[k]
  BY Replaced
<1>. DEFINE h == [k \in 0..n |-> IF k < i THEN g[k]
                                 ELSE g[k] - SizeOf(s[i]) + SizeOf(e)]
<1>. HIDE DEF a, n
<1>4. h[0] = 0
  BY <1>1, <1>2 DEF Sums
<1>5. ASSUME NEW k \in 1..n
      PROVE  h[k] = h[k - 1] + SizeOf(a[k])
  <2>1. /\ g[k] = g[k - 1] + SizeOf(s[k])
        /\ k - 1 \in 0..n /\ k \in 0..n
        /\ g[k] \in Nat /\ g[k - 1] \in Nat
    <3>1. k - 1 \in 0..n /\ k \in 0..n
      BY <1>2
    <3>2. g[k] = g[k - 1] + SizeOf(s[k])
      BY <1>1 DEF Sums, n
    <3>. QED  BY <1>2, <3>1, <3>2
  <2>2. CASE k < i
    <3>1. h[k] = g[k] /\ h[k - 1] = g[k - 1] /\ a[k] = s[k]
      BY <1>2, <1>3, <2>1, <2>2
    <3>. QED  BY <2>1, <3>1
  <2>3. CASE k = i
    <3>1. h[k] = g[k] - SizeOf(s[i]) + SizeOf(e) /\ h[k - 1] = g[k - 1]
          /\ a[k] = e
      BY <1>2, <1>3, <2>1, <2>3
    <3>2. /\ g[k] = g[k - 1] + SizeOf(s[k]) /\ g[k - 1] \in Nat
          /\ SizeOf(s[k]) \in Nat /\ SizeOf(e) \in Nat
      BY <1>2, <2>1, <2>3
    <3>. HIDE DEF h
    <3>3. h[k] = g[k - 1] + SizeOf(e)
      <4>1. PICK x \in Nat, y \in Nat, z \in Nat :
               x = g[k - 1] /\ y = SizeOf(s[k]) /\ z = SizeOf(e)
        BY <3>2
      <4>2. h[k] = ((x + y) - y) + z
        BY <2>3, <3>1, <3>2, <4>1
      <4>3. ((x + y) - y) + z = x + z
        OBVIOUS
      <4>. QED  BY <4>1, <4>2, <4>3
    <3>. QED  BY <3>1, <3>3
  <2>4. CASE k > i
    <3>1. /\ h[k] = g[k] - SizeOf(s[i]) + SizeOf(e)
          /\ h[k - 1] = g[k - 1] - SizeOf(s[i]) + SizeOf(e)
          /\ a[k] = s[k]
      BY <1>2, <1>3, <2>1, <2>4
    <3>2. SizeOf(s[k]) \in Nat
      <4>1. s[k] \in FormField
        BY DEF n
      <4>. QED  BY <4>1, SizeIsNat
    <3>. HIDE DEF h
    <3>. QED  BY <1>2, <2>1, <3>1, <3>2
  <2>. QED  BY <1>2, <2>2, <2>3, <2>4
<1>6. Sums(h, a)
  <2>. HIDE DEF h
  <2>. QED  BY <1>3, <1>4, <1>5 DEF Sums
<1>7. TotalSize(a) = h[n]
  <2>. HIDE DEF h
  <2>. QED  BY <1>3, <1>6, SumsAgree
<1>8. h[n] = g[n] - SizeOf(s[i]) + SizeOf(e)
  BY <1>2
<1>. QED  BY <1>2, <1>7, <1>8 DEF a

LEMMA SizeRemoved ==
  ASSUME NEW s \in Seq(FormField), NEW i \in 1..Len(s)
  PROVE  TotalSize(RemoveAt(s, i)) = TotalSize(s) - SizeOf(s[i])
<1>. DEFINE n == Len(s)
            a == RemoveAt(s, i)
<1>1. PICK g : Sums(g, s)
  BY SumsExist
<1>2. /\ TotalSize(s) = g[n] /\ n \in Nat /\ i \in 1..n
      /\ \A k \in 0..n : g[k] \in Nat
      /\ SizeOf(s[i]) \in Nat
  <2>1. s[i] \in FormField
    OBVIOUS
  <2>. QED  BY <1>1, <2>1, SumsAgree, SizeIsNat
<1>3. /\ a \in Seq(FormField) /\ Len(a) = n - 1
      /\ \A k \in 1..(n - 1) : a[k] = s[IF k < i THEN k ELSE k + 1]
  BY Removed
<1>. DEFINE h == [k \in 0..(n - 1) |-> IF k < i THEN g[k]
                                       ELSE g[k + 1] - SizeOf(s[i])]
<1>. HIDE DEF a, n
<1>4. h[0] = 0
  <2>1. 0 < i /\ 0 \in 0..(n - 1)
    BY <1>2
  <2>. QED  BY <1>1, <2>1 DEF Sums
<1>5. ASSUME NEW k \in 1..(n - 1)
      PROVE  h[k] = h[k - 1] + SizeOf(a[k])
  <2>1. /\ k \in 1..n /\ k + 1 \in 1..n /\ k - 1 \in 0..n /\ k + 1 \in 0..n
        /\ k \in 0..n /\ k - 1 \in 0..(n - 1) /\ k \in 0..(n - 1)
        /\ (k + 1) - 1 = k
    BY <1>2
  <2>2. /\ g[k] = g[k - 1] + SizeOf(s[k])
        /\ g[k + 1] = g[k] + SizeOf(s[k + 1])
        /\ g[k] \in Nat /\ g[k - 1] \in Nat /\ g[k + 1] \in Nat
    BY <1>1, <1>2, <2>1 DEF Sums, n
  <2>3. CASE k < i
    <3>1. h[k] = g[k] /\ h[k - 1] = g[k - 1] /\ a[k] = s[k]
      <4>1. k - 1 < i /\ k \in 1..(n - 1)
        BY <1>2, <2>1, <2>3
      <4>. QED  BY <1>2, <1>3, <2>1, <2>3, <4>1
    <3>. QED  BY <2>2, <3>1
  <2>4. CASE k = i
    <3>1. h[k] = g[k + 1] - SizeOf(s[i]) /\ h[k - 1] = g[k - 1]
          /\ a[k] = s[k + 1]
      BY <1>2, <1>3, <2>1, <2>4
    <3>2. SizeOf(s[k + 1]) \in Nat
      <4>1. s[k + 1] \in FormField
        BY <2>1 DEF n
      <4>. QED  BY <4>1, SizeIsNat
    <3>3. SizeOf(s[k]) \in Nat
      BY <1>2, <2>4
    <3>. HIDE DEF h
    <3>4. PICK x \in Nat, y \in Nat, z \in Nat :
             x = g[k - 1] /\ y = SizeOf(s[k]) /\ z = SizeOf(s[k + 1])
      BY <2>2, <3>2, <3>3
    <3>5. h[k] = ((x + y) + z) - y
      BY <2>2, <2>4, <3>1, <3>4
    <3>6. ((x + y) + z) - y = x + z
      OBVIOUS
    <3>. QED  BY <3>1, <3>4, <3>5, <3>6
  <2>5. CASE k > i
    <3>1. /\ h[k] = g[k + 1] - SizeOf(s[i])
          /\ h[k - 1] = g[k] - SizeOf(s[i])
          /\ a[k] = s[k + 1]
      BY <1>2, <1>3, <2>1, <2>5
    <3>2. SizeOf(s[k + 1]) \in Nat
      <4>1. s[k + 1] \in FormField
        BY <2>1 DEF n
      <4>. QED  BY <4>1, SizeIsNat
    <3>3. SizeOf(s[i]) \in Nat
      BY <1>2
    <3>. HIDE DEF h
    <3>. QED  BY <2>2, <3>1, <3>2, <3>3
  <2>. QED  BY <1>2, <2>3, <2>4, <2>5
<1>6. Sums(h, a)
  <2>. HIDE DEF h
  <2>. QED  BY <1>3, <1>4, <1>5 DEF Sums
<1>7. TotalSize(a) = h[n - 1]
  <2>. HIDE DEF h
  <2>. QED  BY <1>3, <1>6, SumsAgree
<1>8. h[n - 1] = g[n] - SizeOf(s[i])
  <2>1. n - 1 \in 0..(n - 1) /\ (n - 1) + 1 = n
    BY <1>2
  <2>2. CASE n - 1 < i
    <3>1. i = n
      BY <1>2, <2>2
    <3>2. h[n - 1] = g[n - 1]
      BY <2>1, <2>2
    <3>3. g[n] = g[n - 1] + SizeOf(s[n])
      BY <1>1, <1>2 DEF Sums, n
    <3>4. g[n - 1] \in Nat
      BY <1>2
    <3>. HIDE DEF h
    <3>. QED  BY <1>2, <3>1, <3>2, <3>3, <3>4
  <2>3. CASE ~(n - 1 < i)
    BY <2>1, <2>3
  <2>. QED  BY <2>2, <2>3
<1>. QED  BY <1>2, <1>7, <1>8 DEF a

LEMMA SizeInserted ==
  ASSUME NEW s \in Seq(FormField), NEW e \in FormField, NEW i \in 1..(Len(s) + 1)
  PROVE  TotalSize(InsertAt(s, i, e)) = TotalSize(s) + SizeOf(e)
<1>. DEFINE n == Len(s)
            a == InsertAt(s, i, e)
<1>1. PICK g : Sums(g, s)
  BY SumsExist
<1>2. /\ TotalSize(s) = g[n] /\ n \in Nat /\ i \in 1..(n + 1)
      /\ \A k \in 0..n : g[k] \in Nat
      /\ SizeOf(e) \in Nat
  BY <1>1, SumsAgree, SizeIsNat
<1>3. /\ a \in Seq(FormField) /\ Len(a) = n + 1
      /\ \A k \in 1..(n + 1) :
            a[k] = IF k < i THEN s[k] ELSE IF k = i THEN e ELSE s[k - 1]
  BY Inserted
<1>. DEFINE h == [k \in 0..(n + 1) |-> IF k < i THEN g[k]
                                       ELSE g[k - 1] + SizeOf(e)]
<1>. HIDE DEF a, n
<1>4. h[0] = 0
  <2>1. 0 < i /\ 0 \in 0..(n + 1)
    BY <1>2
  <2>. QED  BY <1>1, <2>1 DEF Sums
<1>5. ASSUME NEW k \in 1..(n + 1)
      PROVE  h[k] = h[k - 1] + SizeOf(a[k])
  <2>1. k \in 0..(n + 1) /\ k - 1 \in 0..(n + 1) /\ k - 1 \in 0..n
    BY <1>2
  <2>2. CASE k < i
    <3>1. k \in 1..n
      BY <1>2, <2>2
    <3>2. g[k] = g[k - 1] + SizeOf(s[k])
      BY <1>1, <3>1 DEF Sums, n
    <3>3. h[k] = g[k] /\ h[k - 1] = g[k - 1] /\ a[k] = s[k]
      BY <1>2, <1>3, <2>1, <2>2
    <3>. QED  BY <3>2, <3>3
  <2>3. CASE k = i
    <3>1. h[k] = g[k - 1] + SizeOf(e) /\ h[k - 1] = g[k - 1] /\ a[k] = e
      BY <1>2, <1>3, <2>1, <2>3
    <3>. QED  BY <3>1
  <2>4. CASE k > i
    <3>1. k - 1 \in 1..n /\ (k - 1) - 1 \in 0..n
      BY <1>2, <2>4
    <3>2. g[k - 1] = g[(k - 1) - 1] + SizeOf(s[k - 1])
      BY <1>1, <3>1 DEF Sums, n
    <3>3. /\ h[k] = g[k - 1] + SizeOf(e)
          /\ h[k - 1] = g[(k - 1) - 1] + SizeOf(e)
          /\ a[k] = s[k - 1]
      BY <1>2, <1>3, <2>1, <2>4
    <3>4. SizeOf(s[k - 1]) \in Nat
      <4>1. s[k - 1] \in FormField
        BY <3>1 DEF n
      <4>. QED  BY <4>1, SizeIsNat
    <3>5. g[k - 1] \in Nat /\ g[(k - 1) - 1] \in Nat
      BY <1>2, <3>1, <2>1
    <3>. HIDE DEF h
    <3>6. PICK x \in Nat, y \in Nat, z \in Nat :
             x = g[(k - 1) - 1] /\ y = SizeOf(s[k - 1]) /\ z = SizeOf(e)
      BY <1>2, <3>4, <3>5
    <3>7. h[k] = (x + y) + z /\ h[k - 1] + SizeOf(a[k]) = (x + z) + y
      BY <3>2, <3>3, <3>6
    <3>8. (x + y) + z = (x + z) + y
      OBVIOUS
    <3>. QED  BY <3>7, <3>8
  <2>. QED  BY <1>2, <2>2, <2>3, <2>4
<1>6. Sums(h, a)
  <2>. HIDE DEF h
  <2>. QED  BY <1>3, <1>4, <1>5 DEF Sums
<1>7. TotalSize(a) = h[n + 1]
  <2>. HIDE DEF h
  <2>. QED  BY <1>3, <1>6, SumsAgree
<1>8. h[n + 1] = g[n] + SizeOf(e)
  <2>1. n + 1 \in 0..(n + 1) /\ ~(n + 1 < i) /\ (n + 1) - 1 = n
    BY <1>2
  <2>. QED  BY <2>1
<1>. QED  BY <1>2, <1>7, <1>8 DEF a

-----------------------------------------------------------------------------
(* What one edit makes of a list of fields with distinct names *)

Distinct(l) ==
    \A i, j \in DOMAIN l : l[i].globalId = l[j].globalId => i = j

(* Each field of l is one of m, or the one named after r.                  *)
From(l, m, r) ==
    \A j \in DOMAIN l : \/ l[j].globalId = r
                        \/ \E i \in DOMAIN m : l[j] = m[i]

SameSizes(l, m) ==
    \A i \in DOMAIN m, j \in DOMAIN l :
        m[i].globalId = l[j].globalId => SizeOf(m[i]) = SizeOf(l[j])

NamesIn(l, m, r) ==
    \A j \in DOMAIN l : \/ l[j].globalId = r
                        \/ \E i \in DOMAIN m : l[j].globalId = m[i].globalId

LEMMA FromSameSizes ==
  ASSUME NEW m \in Seq(FormField), NEW l \in Seq(FormField), NEW r,
         Distinct(m), From(l, m, r), \A i \in DOMAIN m : m[i].globalId # r
  PROVE  SameSizes(l, m) /\ NamesIn(l, m, r)
<1>1. ASSUME NEW i \in DOMAIN m, NEW j \in DOMAIN l,
             m[i].globalId = l[j].globalId
      PROVE  SizeOf(m[i]) = SizeOf(l[j])
  <2>1. PICK k \in DOMAIN m : l[j] = m[k]
    BY <1>1 DEF From
  <2>2. k = i
    BY <1>1, <2>1 DEF Distinct
  <2>. QED  BY <2>1, <2>2
<1>. QED  BY <1>1 DEF SameSizes, NamesIn, From

LEMMA DistinctAppended ==
  ASSUME NEW s \in Seq(FormField), NEW e \in FormField, Distinct(s),
         \A i \in DOMAIN s : s[i].globalId # e.globalId
  PROVE  Distinct(Append(s, e)) /\ From(Append(s, e), s, e.globalId)
<1>1. /\ DOMAIN s = 1..Len(s) /\ Len(s) \in Nat
      /\ DOMAIN Append(s, e) = 1..(Len(s) + 1)
      /\ \A k \in 1..Len(s) : Append(s, e)[k] = s[k]
      /\ Append(s, e)[Len(s) + 1] = e
  OBVIOUS
<1>2. \A k \in 1..(Len(s) + 1) : k \in 1..Len(s) \/ k = Len(s) + 1
  BY <1>1
<1>. QED  BY <1>1, <1>2 DEF Distinct, From

LEMMA DistinctReplaced ==
  ASSUME NEW s \in Seq(FormField), NEW e \in FormField, NEW i \in 1..Len(s),
         Distinct(s), s[i].globalId = e.globalId, NEW r
  PROVE  Distinct(ReplaceAt(s, i, e)) /\ NamesIn(ReplaceAt(s, i, e), s, r)
<1>1. /\ DOMAIN s = 1..Len(s) /\ Len(s) \in Nat
      /\ DOMAIN ReplaceAt(s, i, e) = 1..Len(s)
      /\ \A k \in 1..Len(s) : ReplaceAt(s, i, e)[k] = IF k = i THEN e ELSE s[k]
  BY Replaced
<1>2. \A k \in 1..Len(s) : ReplaceAt(s, i, e)[k].globalId = s[k].globalId
  BY <1>1
<1>. QED  BY <1>1, <1>2 DEF Distinct, NamesIn

LEMMA DistinctRemoved ==
  ASSUME NEW s \in Seq(FormField), NEW i \in 1..Len(s), Distinct(s), NEW r
  PROVE  /\ Distinct(RemoveAt(s, i)) /\ From(RemoveAt(s, i), s, r)
         /\ \A j \in DOMAIN RemoveAt(s, i) :
               RemoveAt(s, i)[j].globalId # s[i].globalId
<1>. DEFINE a == RemoveAt(s, i)
            p(j) == IF j < i THEN j ELSE j + 1
<1>1. /\ DOMAIN s = 1..Len(s) /\ Len(s) \in Nat
      /\ a \in Seq(FormField) /\ Len(a) = Len(s) - 1
      /\ \A j \in 1..(Len(s) - 1) : a[j] = s[p(j)]
  BY Removed
<1>2. DOMAIN a = 1..(Len(s) - 1)
  BY <1>1
<1>3. /\ \A j \in 1..(Len(s) - 1) : p(j) \in DOMAIN s /\ p(j) # i
      /\ \A j, k \in 1..(Len(s) - 1) : p(j) = p(k) => j = k
  BY <1>1
<1>. HIDE DEF a, p
<1>4. Distinct(a)
  BY <1>1, <1>2, <1>3 DEF Distinct
<1>5. From(a, s, r)
  BY <1>1, <1>2, <1>3 DEF From
<1>6. \A j \in DOMAIN a : a[j].globalId # s[i].globalId
  BY <1>1, <1>2, <1>3 DEF Distinct
<1>. QED  BY <1>4, <1>5, <1>6 DEF a

LEMMA DistinctInserted ==
  ASSUME NEW s \in Seq(FormField), NEW e \in FormField,
         NEW i \in 1..(Len(s) + 1), Distinct(s),
         \A j \in DOMAIN s : s[j].globalId # e.globalId
  PROVE  /\ Distinct(InsertAt(s, i, e))
         /\ \A j \in DOMAIN InsertAt(s, i, e) :
               \/ InsertAt(s, i, e)[j] = e
               \/ \E k \in DOMAIN s : InsertAt(s, i, e)[j] = s[k]
<1>. DEFINE a == InsertAt(s, i, e)
            p(j) == IF j < i THEN j ELSE j - 1
<1>1. /\ DOMAIN s = 1..Len(s) /\ Len(s) \in Nat
      /\ a \in Seq(FormField) /\ Len(a) = Len(s) + 1
      /\ \A j \in 1..(Len(s) + 1) :
            a[j] = IF j < i THEN s[j] ELSE IF j = i THEN e ELSE s[j - 1]
  BY Inserted
<1>2. DOMAIN a = 1..(Len(s) + 1)
  BY <1>1
<1>3. /\ \A j \in 1..(Len(s) + 1) :
            IF j = i THEN a[j] = e ELSE p(j) \in DOMAIN s /\ a[j] = s[p(j)]
      /\ \A j, k \in 1..(Len(s) + 1) : j # i /\ k # i /\ p(j) = p(k) => j = k
  <2>. HIDE DEF a
  <2>1. ASSUME NEW j \in 1..(Len(s) + 1), j # i
        PROVE  p(j) \in 1..Len(s) /\ a[j] = s[p(j)]
    <3>1. CASE j < i
      BY <1>1, <3>1
    <3>2. CASE ~(j < i)
      BY <1>1, <2>1, <3>2
    <3>. QED  BY <3>1, <3>2
  <2>2. \A j \in 1..(Len(s) + 1) : j = i => a[j] = e
    BY <1>1
  <2>3. \A j, k \in 1..(Len(s) + 1) : j # i /\ k # i /\ p(j) = p(k) => j = k
    BY <1>1
  <2>. QED  BY <1>1, <2>1, <2>2, <2>3, Zenon
<1>. HIDE DEF a, p
<1>4. Distinct(a)
  BY <1>2, <1>3 DEF Distinct
<1>5. \A j \in DOMAIN a : a[j] = e \/ \E k \in DOMAIN s : a[j] = s[k]
  BY <1>2, <1>3
<1>. QED  BY <1>4, <1>5 DEF a

(* What an edit leaves: how many megabytes more, of fields that are named  *)
(* as before, or after the request.                                        *)
Leaves(l, m, r, more) ==
    /\ l \in Seq(FormField)
    /\ Distinct(l)
    /\ NamesIn(l, m, r)
    /\ TotalSize(l) = TotalSize(m) + more

LEMMA FieldAdded ==
  ASSUME NEW m \in Seq(FormField), NEW r \in Requests, NEW edit \in Edits,
         Distinct(m), \A i \in DOMAIN m : m[i].globalId # r,
         edit.name \in {"CREATE", "DUPLICATE"}, edit.field.globalId = None
  PROVE  /\ ~EditError(m, edit)
         /\ Leaves(EditedFormFields(m, edit, r), m, r, SizeOf(edit.field))
         /\ SameSizes(EditedFormFields(m, edit, r), m)
<1>. DEFINE e == WithGlobalId(edit.field, r)
<1>1. /\ e \in FormField /\ e.globalId = r /\ SizeOf(e) = SizeOf(edit.field)
  <2>1. edit.field \in Field
    BY DEF Edits
  <2>. QED  BY <2>1, GlobalIdGiven DEF WithGlobalId, Field, SizeOf
<1>2. PositionOf(m, None) = 0
  <2>1. \A i \in 1..Len(m) : m[i].globalId \in FieldIds
    <3>1. \A i \in 1..Len(m) : m[i] \in FormField
      OBVIOUS
    <3>. QED  BY <3>1 DEF FormField
  <2>2. PositionOf(m, None) \notin 1..Len(m) \/ m[PositionOf(m, None)].globalId # None
    BY <2>1, DocumentAssumption
  <2>. QED  BY <2>2, PositionFound
<1>3. ~EditError(m, edit)
  BY <1>2 DEF EditError
<1>4. EditedFormFields(m, edit, r) = Append(m, e)
  BY DEF EditedFormFields
<1>. HIDE DEF e
<1>5. Distinct(Append(m, e)) /\ From(Append(m, e), m, r)
  BY <1>1, DistinctAppended
<1>6. Append(m, e) \in Seq(FormField)
  BY <1>1
<1>7. TotalSize(Append(m, e)) = TotalSize(m) + SizeOf(edit.field)
  BY <1>1, SizeAppended
<1>8. SameSizes(Append(m, e), m) /\ NamesIn(Append(m, e), m, r)
  BY <1>5, <1>6, FromSameSizes
<1>. QED  BY <1>3, <1>4, <1>5, <1>6, <1>7, <1>8 DEF Leaves

(* The position of a field that is there.                                  *)
LEMMA FieldFound ==
  ASSUME NEW m \in Seq(FormField), NEW i \in DOMAIN m, Distinct(m)
  PROVE  PositionOf(m, m[i].globalId) = i /\ i \in 1..Len(m) /\ m[i] \in FormField
<1>1. i \in 1..Len(m) /\ DOMAIN m = 1..Len(m) /\ m[i] \in FormField
  OBVIOUS
<1>2. /\ PositionOf(m, m[i].globalId) \in 1..Len(m)
      /\ m[PositionOf(m, m[i].globalId)].globalId = m[i].globalId
  BY <1>1, PositionFound
<1>. QED  BY <1>1, <1>2 DEF Distinct

LEMMA FieldDeleted ==
  ASSUME NEW m \in Seq(FormField), NEW r \in Requests, NEW edit \in Edits,
         Distinct(m), \A i \in DOMAIN m : m[i].globalId # r,
         edit.name = "DELETE", NEW i \in DOMAIN m, edit.field = m[i]
  PROVE  /\ ~EditError(m, edit)
         /\ Leaves(EditedFormFields(m, edit, r), m, r, 0 - SizeOf(edit.field))
         /\ SameSizes(EditedFormFields(m, edit, r), m)
<1>1. PositionOf(m, m[i].globalId) = i /\ i \in 1..Len(m) /\ m[i] \in FormField
  BY FieldFound
<1>2. ~EditError(m, edit)
  BY <1>1 DEF EditError
<1>3. EditedFormFields(m, edit, r) = RemoveAt(m, i)
  BY <1>1 DEF EditedFormFields
<1>4. /\ RemoveAt(m, i) \in Seq(FormField)
      /\ Distinct(RemoveAt(m, i)) /\ From(RemoveAt(m, i), m, r)
  BY <1>1, Removed, DistinctRemoved
<1>5. TotalSize(RemoveAt(m, i)) = TotalSize(m) + (0 - SizeOf(m[i]))
  <2>1. TotalSize(m) \in Nat
    BY SumsExist, SumsAgree
  <2>2. SizeOf(m[i]) \in Nat
    BY <1>1, SizeIsNat
  <2>3. TotalSize(RemoveAt(m, i)) = TotalSize(m) - SizeOf(m[i])
    BY <1>1, SizeRemoved
  <2>. QED  BY <2>1, <2>2, <2>3
<1>6. SameSizes(RemoveAt(m, i), m) /\ NamesIn(RemoveAt(m, i), m, r)
  BY <1>4, FromSameSizes
<1>. QED  BY <1>2, <1>3, <1>4, <1>5, <1>6 DEF Leaves

LEMMA FieldReordered ==
  ASSUME NEW m \in Seq(FormField), NEW r \in Requests, NEW edit \in Edits,
         Distinct(m), \A i \in DOMAIN m : m[i].globalId # r,
         edit.name = "REORDER", NEW i \in DOMAIN m, edit.field = m[i]
  PROVE  /\ ~EditError(m, edit)
         /\ Leaves(EditedFormFields(m, edit, r), m, r, 0)
         /\ SameSizes(EditedFormFields(m, edit, r), m)
<1>. DEFINE to == IF edit.position > Len(m) THEN Len(m) ELSE edit.position
            w == RemoveAt(m, i)
            l == InsertAt(w, to, m[i])
<1>1. PositionOf(m, m[i].globalId) = i /\ i \in 1..Len(m) /\ m[i] \in FormField
  BY FieldFound
<1>2. ~EditError(m, edit)
  BY <1>1 DEF EditError
<1>3. EditedFormFields(m, edit, r) = l
  <2>1. m[i].globalId # None
    BY <1>1, DocumentAssumption DEF FormField
  <2>2. WithGlobalId(m[i], r) = m[i]
    BY <2>1 DEF WithGlobalId
  <2>. QED  BY <1>1, <2>2 DEF EditedFormFields
<1>4. /\ w \in Seq(FormField) /\ Len(w) = Len(m) - 1
      /\ Distinct(w) /\ From(w, m, r)
      /\ \A j \in DOMAIN w : w[j].globalId # m[i].globalId
      /\ TotalSize(w) = TotalSize(m) - SizeOf(m[i])
  BY <1>1, Removed, DistinctRemoved, SizeRemoved
<1>5. to \in 1..(Len(w) + 1)
  <2>1. edit.position \in Nat \ {0}
    BY DEF Edits
  <2>. HIDE DEF w
  <2>. QED  BY <1>1, <1>4, <2>1
<1>. HIDE DEF w, to
<1>6. /\ l \in Seq(FormField)
      /\ Distinct(l)
      /\ \A j \in DOMAIN l : l[j] = m[i] \/ \E k \in DOMAIN w : l[j] = w[k]
      /\ TotalSize(l) = TotalSize(w) + SizeOf(m[i])
  <2>1. l \in Seq(FormField)
    BY <1>1, <1>4, <1>5, Inserted
  <2>2. /\ Distinct(l)
        /\ \A j \in DOMAIN l : l[j] = m[i] \/ \E k \in DOMAIN w : l[j] = w[k]
    BY <1>1, <1>4, <1>5, DistinctInserted
  <2>3. TotalSize(l) = TotalSize(w) + SizeOf(m[i])
    BY <1>1, <1>4, <1>5, SizeInserted
  <2>. QED  BY <2>1, <2>2, <2>3
<1>. HIDE DEF l
<1>7. From(l, m, r)
  BY <1>4, <1>6 DEF From
<1>8. TotalSize(l) = TotalSize(m) + 0
  <2>1. TotalSize(m) \in Nat
    BY SumsExist, SumsAgree
  <2>2. SizeOf(m[i]) \in Nat
    BY <1>1, SizeIsNat
  <2>. QED  BY <1>4, <1>6, <2>1, <2>2
<1>9. SameSizes(l, m) /\ NamesIn(l, m, r)
  BY <1>6, <1>7, FromSameSizes
<1>. QED  BY <1>2, <1>3, <1>6, <1>8, <1>9 DEF Leaves

LEMMA FieldUpdated ==
  ASSUME NEW m \in Seq(FormField), NEW r \in Requests, NEW edit \in Edits,
         Distinct(m), edit.name = "UPDATE", edit.field.globalId # None,
         ~EditError(m, edit), NEW size \in Nat,
         \A i \in DOMAIN m :
            m[i].globalId = edit.field.globalId => SizeOf(m[i]) = size
  PROVE  Leaves(EditedFormFields(m, edit, r), m, r, SizeOf(edit.field) - size)
<1>. DEFINE at == PositionOf(m, edit.field.globalId)
<1>1. at \in 1..Len(m) /\ m[at].globalId = edit.field.globalId
  BY PositionFound DEF EditError
<1>2. edit.field \in FormField
  <2>1. edit.field \in Field
    BY DEF Edits
  <2>. QED  BY <2>1 DEF Field, FormField
<1>3. EditedFormFields(m, edit, r) = ReplaceAt(m, at, edit.field)
  BY DEF EditedFormFields, WithGlobalId
<1>. HIDE DEF at
<1>4. /\ ReplaceAt(m, at, edit.field) \in Seq(FormField)
      /\ Distinct(ReplaceAt(m, at, edit.field))
      /\ NamesIn(ReplaceAt(m, at, edit.field), m, r)
  BY <1>1, <1>2, Replaced, DistinctReplaced
<1>5. TotalSize(ReplaceAt(m, at, edit.field))
        = TotalSize(m) + (SizeOf(edit.field) - size)
  <2>1. TotalSize(m) \in Nat
    BY SumsExist, SumsAgree
  <2>2. SizeOf(edit.field) \in Nat
    BY <1>2, SizeIsNat
  <2>3. SizeOf(m[at]) = size
    BY <1>1
  <2>4. TotalSize(ReplaceAt(m, at, edit.field))
          = TotalSize(m) - SizeOf(m[at]) + SizeOf(edit.field)
    BY <1>1, <1>2, SizeReplaced
  <2>. QED  BY <2>1, <2>2, <2>3, <2>4
<1>. QED  BY <1>3, <1>4, <1>5 DEF Leaves

-----------------------------------------------------------------------------
(* What the page sends *)

Body(edit, logics, permissions, settings) ==
    [editFormField |-> edit, form_logics |-> logics,
     permissionList |-> permissions, settings |-> settings]

LEMMA SettingNamesAre ==
  /\ SettingNames = {"status", "hasCaptcha", "authType", "esrvcId", "webhook"}
  /\ \A s \in Settings :
        /\ DOMAIN s = SettingNames
        /\ \A n \in SettingNames : s[n] \in SettingValues[n]
BY DEF SettingNames, SettingValues, Settings

LEMMA BodyIs ==
  ASSUME NEW edit \in FieldEdits \cup {None},
         NEW logics \in (SUBSET Rules) \cup {None},
         NEW permissions \in [Users -> Permissions] \cup {None},
         NEW names \in SUBSET SettingNames, NEW shown \in Settings,
         "esrvcId" \in names => shown.esrvcId,
         NEW settings, settings = [s \in names |-> shown[s]]
  PROVE  /\ IsSendable(Update(Body(edit, logics, permissions, settings)))
         /\ IsUpdate(Body(edit, logics, permissions, settings))
         /\ DOMAIN settings = names
         /\ \A s \in names : settings[s] = shown[s]
<1>. DEFINE body == Body(edit, logics, permissions, settings)
            call == Update(body)
<1>1. /\ DOMAIN settings = names /\ \A s \in names : settings[s] = shown[s]
  OBVIOUS
<1>2. /\ body.editFormField = edit /\ body.form_logics = logics
      /\ body.permissionList = permissions /\ body.settings = settings
  BY DEF Body
<1>3. \A s \in names : settings[s] \in SettingValues[s]
  BY <1>1, SettingNamesAre
<1>4. body \in Bodies
  <2>1. settings \in {[s \in n |-> t[s]] : n \in SUBSET SettingNames, t \in Settings}
    OBVIOUS
  <2>. QED  BY <2>1 DEF Body, Bodies
<1>. HIDE DEF body
<1>5. IsUpdate(body)
  BY <1>1, <1>2, <1>3 DEF IsUpdate, FieldEdits
<1>6. /\ call.user = editor /\ call.method = "update" /\ call.id = theForm
      /\ call.responseMode = "email" /\ call.body = body
  BY DEF Update
<1>7. /\ editor \in Users /\ "update" \in Methods /\ theForm \in FormIds
  BY BuilderAssumption DEF Methods, FormIds
<1>8. call # None
  <2>1. call \in [user : Users, method : Methods, id : FormIds,
                  responseMode : {"email", "encrypt"}, body : Bodies]
    BY <1>4, <1>7 DEF Update
  <2>. QED  BY <2>1, RecordsAssumption
<1>. HIDE DEF call
<1>9. IsCall(call)
  BY <1>5, <1>6, <1>7 DEF IsCall
<1>10. IsSendable(call)
  BY <1>1, <1>2, <1>6, <1>8, <1>9 DEF IsSendable
<1>. QED  BY <1>1, <1>5, <1>10 DEF body, call

(* A body without settings.                                                *)
LEMMA NoSettings ==
  ASSUME NEW edit \in FieldEdits \cup {None},
         NEW logics \in (SUBSET Rules) \cup {None},
         NEW permissions \in [Users -> Permissions] \cup {None},
         NEW shown \in Settings
  PROVE  /\ IsSendable(Update(Body(edit, logics, permissions, <<>>)))
         /\ IsUpdate(Body(edit, logics, permissions, <<>>))
         /\ EditedSettings(shown, Body(edit, logics, permissions, <<>>)) = shown
<1>1. <<>> = [s \in {} |-> shown[s]]
  OBVIOUS
<1>2. {} \in SUBSET SettingNames /\ "esrvcId" \notin {}
  OBVIOUS
<1>3. /\ IsSendable(Update(Body(edit, logics, permissions, <<>>)))
      /\ IsUpdate(Body(edit, logics, permissions, <<>>))
  <2>1. PICK names \in SUBSET SettingNames : names = {}
    BY <1>2
  <2>2. PICK settings : settings = <<>>
    OBVIOUS
  <2>3. settings = [s \in names |-> shown[s]] /\ ("esrvcId" \in names => shown.esrvcId)
    BY <1>1, <2>1, <2>2
  <2>4. /\ edit \in FieldEdits \cup {None} /\ logics \in (SUBSET Rules) \cup {None}
        /\ permissions \in [Users -> Permissions] \cup {None} /\ shown \in Settings
    OBVIOUS
  <2>5. /\ IsSendable(Update(Body(edit, logics, permissions, settings)))
        /\ IsUpdate(Body(edit, logics, permissions, settings))
    BY <2>3, <2>4, BodyIs
  <2>. QED  BY <2>2, <2>5
<1>4. EditedSettings(shown, Body(edit, logics, permissions, <<>>)) = shown
  <2>1. PICK body : body = Body(edit, logics, permissions, <<>>)
    OBVIOUS
  <2>2. DOMAIN body.settings = {}
    BY <2>1 DEF Body
  <2>3. \A n : Assigned(shown, n, body) = shown[n]
    BY <2>2 DEF Assigned
  <2>4. SetStatus(shown, body) = shown.status
    BY <2>3 DEF SetStatus
  <2>5. SetAuthType(shown, shown.status, body) = shown.authType
    BY <2>3 DEF SetAuthType
  <2>6. EditedSettings(shown, body)
          = [status |-> shown.status, hasCaptcha |-> shown.hasCaptcha,
             authType |-> shown.authType, esrvcId |-> shown.esrvcId,
             webhook |-> shown.webhook]
    BY <2>3, <2>4, <2>5 DEF EditedSettings
  <2>7. EditedSettings(shown, body) = shown
    BY <2>6 DEF Settings
  <2>. QED  BY <2>1, <2>7
<1>. QED  BY <1>3, <1>4

(* Respondents can log in.                                                 *)
LoginReady(s) == s.authType # "NIL" => s.esrvcId

(* A body with one setting: the setters take the value as it is, if the    *)
(* inputs have let the admin change it.                                    *)
OneSetting(old, new, name) ==
    /\ name \in SettingNames
    /\ new \in Settings
    /\ new = [old EXCEPT ![name] = new[name]]
    /\ new[name] # old[name]
    /\ name = "esrvcId" => new.esrvcId
    /\ name = "authType" => old.status # "PUBLIC"
    /\ name = "status" => /\ LoginReady(old) \/ new.status # "PUBLIC"

LEMMA OneSettingSent ==
  ASSUME NEW old \in Settings, NEW new, NEW name, OneSetting(old, new, name),
         NEW settings,
         settings = [s \in {t \in SettingNames : new[t] # old[t]} |-> new[s]]
  PROVE  /\ IsSendable(Update(Body(None, None, None, settings)))
         /\ IsUpdate(Body(None, None, None, settings))
         /\ DOMAIN settings = {name}
         /\ EditedSettings(old, Body(None, None, None, settings)) = new
<1>1. {t \in SettingNames : new[t] # old[t]} = {name}
  <2>1. ASSUME NEW t \in SettingNames
        PROVE  new[t] # old[t] <=> t = name
    <3>1. t # name => [old EXCEPT ![name] = new[name]][t] = old[t]
      BY SettingNamesAre
    <3>. QED  BY <3>1 DEF OneSetting
  <2>. QED  BY <2>1 DEF OneSetting
<1>2. settings = [s \in {name} |-> new[s]]
  BY <1>1
<1>3. /\ {name} \in SUBSET SettingNames /\ new \in Settings
      /\ "esrvcId" \in {name} => new.esrvcId
  BY DEF OneSetting
<1>4. /\ IsSendable(Update(Body(None, None, None, settings)))
      /\ IsUpdate(Body(None, None, None, settings))
      /\ DOMAIN settings = {name}
      /\ settings[name] = new[name]
  <2>1. PICK names \in SUBSET SettingNames : names = {name}
    BY <1>3
  <2>2. settings = [s \in names |-> new[s]] /\ ("esrvcId" \in names => new.esrvcId)
    BY <1>2, <1>3, <2>1
  <2>3. PICK none : none = None
    OBVIOUS
  <2>4. /\ none \in FieldEdits \cup {None} /\ none \in (SUBSET Rules) \cup {None}
        /\ none \in [Users -> Permissions] \cup {None}
    BY <2>3
  <2>5. /\ IsSendable(Update(Body(none, none, none, settings)))
        /\ IsUpdate(Body(none, none, none, settings))
        /\ DOMAIN settings = names
        /\ \A s \in names : settings[s] = new[s]
    BY <1>3, <2>2, <2>4, BodyIs
  <2>. QED  BY <2>1, <2>3, <2>5
<1>5. PICK body : body = Body(None, None, None, settings)
  OBVIOUS
<1>6. \A n : Assigned(old, n, body) = IF n = name THEN new[name] ELSE old[n]
  <2>1. body.settings = settings
    BY <1>5 DEF Body
  <2>. QED  BY <1>4, <2>1 DEF Assigned
<1>7. \A n \in SettingNames : new[n] = IF n = name THEN new[name] ELSE old[n]
  BY SettingNamesAre DEF OneSetting
<1>8. SetStatus(old, body) = new.status
  <2>1. "status" \in SettingNames
    BY SettingNamesAre
  <2>2. Assigned(old, "status", body) = new.status
    BY <1>6, <1>7, <2>1
  <2>3. CASE name = "status"
    BY <2>2, <2>3 DEF SetStatus, OneSetting, LoginReady
  <2>4. CASE name # "status"
    BY <1>7, <2>1, <2>2, <2>4 DEF SetStatus
  <2>. QED  BY <2>3, <2>4
<1>9. SetAuthType(old, new.status, body) = new.authType
  <2>1. "authType" \in SettingNames /\ "status" \in SettingNames
    BY SettingNamesAre
  <2>2. Assigned(old, "authType", body) = new.authType
    BY <1>6, <1>7, <2>1
  <2>3. new.status = "PUBLIC" => new.authType = old.authType
    BY <1>7, <2>1 DEF OneSetting
  <2>. QED  BY <2>2, <2>3 DEF SetAuthType
<1>10. /\ Assigned(old, "hasCaptcha", body) = new.hasCaptcha
       /\ Assigned(old, "esrvcId", body) = new.esrvcId
       /\ Assigned(old, "webhook", body) = new.webhook
  BY <1>6, <1>7, SettingNamesAre
<1>11. EditedSettings(old, body)
         = [status |-> new.status, hasCaptcha |-> new.hasCaptcha,
            authType |-> new.authType, esrvcId |-> new.esrvcId,
            webhook |-> new.webhook]
  BY <1>8, <1>9, <1>10 DEF EditedSettings
<1>12. EditedSettings(old, body) = new
  BY <1>3, <1>11 DEF Settings
<1>. QED  BY <1>4, <1>5, <1>12

(* Of the settings an update changes those only that it holds.             *)
LEMMA SettingsUnlessHeld ==
  ASSUME NEW s, NEW body, NEW name \in SettingNames \ DOMAIN body.settings
  PROVE  EditedSettings(s, body)[name] = s[name]
<1>1. Assigned(s, name, body) = s[name]
  BY DEF Assigned
<1>2. name \in {"status", "hasCaptcha", "authType", "esrvcId", "webhook"}
  BY SettingNamesAre
<1>3. CASE name = "status"
  BY <1>1, <1>3 DEF EditedSettings, SetStatus
<1>4. CASE name = "authType"
  BY <1>1, <1>4 DEF EditedSettings, SetAuthType
<1>5. CASE name \in {"hasCaptcha", "esrvcId", "webhook"}
  BY <1>1, <1>5 DEF EditedSettings
<1>. QED  BY <1>2, <1>3, <1>4, <1>5

-----------------------------------------------------------------------------
(* The invariant.  As long as at most one request is under way and none is *)
(* saved that failed for the page, the settings that the page shows are    *)
(* those that the form has, or will have if the request succeeds; as long  *)
(* as none fails, so are the fields and their megabytes.                   *)

Database == forms[theForm]

FieldsOf(form) == form.lists.form_fields

Succeeded(r) == stage[r] = "done" /\ reply[r] = "OK"

OwnRequest(r) ==
    request[r] # None =>
        /\ request[r].id = theForm
        /\ request[r].method = "update"
        /\ DOMAIN request[r].body.settings \subseteq {made[r]}

(* The handler of a request that the page waits for has read what the      *)
(* database holds until it saves.                                          *)
InTime(r) ==
    /\ stage[r] # "unsent"
    /\ stage[r] = "saving" => seen[r] = Database

SettingsPending(r) ==
    /\ made[r] = "modal" => modal # None /\ modal.saveInProgress
    /\ EditedSettings(myform.settings, request[r].body) = tempForm
    /\ made[r] \notin SettingNames => tempForm = myform.settings
    /\ Succeeded(r) => /\ copy[r] \in Form
                       /\ copy[r].settings = tempForm
                       /\ Database.settings = tempForm
    /\ ~Succeeded(r) => Database.settings = myform.settings

PageOpen ==
    /\ myform \in Form
    /\ tempForm \in Settings
    /\ modal = None \/ modal \in Modals
    /\ activating => LoginReady(tempForm) /\ LoginReady(myform.settings)
    /\ waiting = {} => /\ tempForm = myform.settings
                       /\ Database.settings = myform.settings
    /\ \A r \in waiting : SettingsPending(r)

PageClosed == waiting = {} /\ modal = None /\ ~activating

PageInv ==
    /\ attachmentsTotal \in Int
    /\ myform = None => PageClosed
    /\ myform # None => PageOpen

CalmInv ==
    /\ HandlerInv
    /\ Database \in Form
    /\ \A r \in Requests : OwnRequest(r)
    /\ waiting \subseteq Requests
    /\ \A q, r \in waiting : q = r
    /\ \A r \in waiting : InTime(r)
    /\ PageInv

NextFields(m, body, r) ==
    IF body.editFormField = None THEN m
    ELSE EditedFormFields(m, body.editFormField, r)

(* A list of fields that the page has or will have: its megabytes are      *)
(* those that the budget does not leave, and where the modal of a field    *)
(* is, or can be, open, its size is still that of the field.               *)
Foreseen(l) ==
    /\ l \in Seq(FormField)
    /\ \A i \in DOMAIN l, p \in Requests :
          l[i].globalId = p => stage[p] = "done" \/ p \in waiting
    /\ Distinct(l)
    /\ TotalSize(l) = attachmentsMax - attachmentsTotal
    /\ (modal = None \/ ~modal.saveInProgress)
          => SameSizes(l, FieldsOf(myform))
    /\ (modal # None /\ ~modal.saveInProgress)
          => \A i \in DOMAIN l : l[i].globalId = modal.field.globalId
                                    => SizeOf(l[i]) = modal.previous

FieldsPending(r) ==
    /\ ~Inapplicable(myform.lists, request[r].body)
          => Foreseen(NextFields(FieldsOf(myform), request[r].body, r))
    /\ Succeeded(r) =>
          /\ copy[r].lists = Database.lists
          /\ ~Inapplicable(myform.lists, request[r].body)
          /\ FieldsOf(Database) = NextFields(FieldsOf(myform), request[r].body, r)
    /\ ~Succeeded(r) => FieldsOf(Database) = FieldsOf(myform)

ModalCounts ==
    /\ modal.attachmentSize = attachmentsTotal + modal.previous
    /\ modal.field.globalId = None => modal.previous = 0

FieldsOpen ==
    /\ attachmentsTotal \in Nat
    /\ modal # None /\ ~modal.saveInProgress => ModalCounts
    /\ waiting = {} => /\ myform.lists = Database.lists
                       /\ Foreseen(FieldsOf(myform))
    /\ \A r \in waiting : FieldsPending(r)

StoredFields ==
    /\ Distinct(FieldsOf(Database))
    /\ \A i \in DOMAIN FieldsOf(Database), q \in Requests :
          FieldsOf(Database)[i].globalId = q => stage[q] = "done"
    /\ TotalSize(FieldsOf(Database)) <= attachmentsMax

FieldsInv ==
    /\ \A r \in Requests \ waiting : stage[r] \in {"unsent", "done"}
    /\ StoredFields
    /\ myform # None => FieldsOpen

(* What was saved unnoticed fits, and is the last that is saved before the *)
(* page is told of a failure, or left.                                     *)
StuckInv ==
    /\ TotalSize(FieldsOf(Database)) <= attachmentsMax
    /\ \A r \in Requests : stage[r] \in {"unsent", "done"}
    /\ waiting # {}
    /\ \A r \in waiting : reply[r] # "OK"

MadeInv ==
    /\ DOMAIN stage = Requests
    /\ DOMAIN made = Requests
    /\ \A r \in Requests : stage[r] = "unsent" => made[r] = "none"

BuildInv ==
    /\ MadeInv
    /\ lapses \subseteq {"failure"} => CalmInv
    /\ lapses = {} /\ NoUncharged => FieldsInv
    /\ lapses = {"unnoticed"} /\ NoUncharged => StuckInv

-----------------------------------------------------------------------------
(* What a step leaves *)

(* Steps of the page alone.                                                *)
LEMMA CalmAtPage ==
  ASSUME CalmInv, UNCHANGED <<vars, made>>, waiting' \subseteq waiting, PageInv'
  PROVE  CalmInv'
<1>1. HandlerInv'
  BY HandlerStep DEF CalmInv
<1>2. /\ forms' = forms /\ request' = request /\ stage' = stage /\ seen' = seen
      /\ made' = made
  BY DEF vars, handlerVars
<1>3. Database' = Database
  BY <1>2 DEF Database
<1>4. \A r \in Requests : OwnRequest(r)'
  BY <1>2 DEF CalmInv, OwnRequest
<1>5. \A r \in waiting' : InTime(r)'
  BY <1>2, <1>3 DEF CalmInv, InTime
<1>. QED  BY <1>1, <1>3, <1>4, <1>5 DEF CalmInv

(* The page sends, and waited for nothing.                                 *)
Sends(r, purpose, body) ==
    /\ Post(r, Update(body))
    /\ waiting' = {r}
    /\ made' = [made EXCEPT ![r] = purpose]

LEMMA Sending ==
  ASSUME CalmInv, MadeInv, NEW r \in Requests, NEW purpose, NEW body,
         Sends(r, purpose, body), IsSendable(Update(body))
  PROVE  /\ GoodPost(r)
         /\ forms' = forms
         /\ request'[r] = Update(body)
         /\ stage[r] = "unsent" /\ stage'[r] = "sent"
         /\ made[r] = "none" /\ made'[r] = purpose
         /\ Database' = Database
         /\ \A q \in Requests \ {r} :
               /\ request'[q] = request[q]
               /\ stage'[q] = stage[q]
               /\ made'[q] = made[q]
<1>1. /\ stage[r] = "unsent"
      /\ request' = [request EXCEPT ![r] = Update(body)]
      /\ stage' = [stage EXCEPT ![r] = "sent"]
      /\ UNCHANGED <<forms, seen, copy, reply, overwritten>>
      /\ made' = [made EXCEPT ![r] = purpose]
  BY DEF Sends, Post
<1>2. DOMAIN request = Requests /\ DOMAIN stage = Requests /\ DOMAIN made = Requests
  BY DEF CalmInv, MadeInv, HandlerInv
<1>3. request'[r] = Update(body) /\ stage'[r] = "sent" /\ made'[r] = purpose
  BY <1>1, <1>2
<1>4. GoodPost(r)
  BY <1>3 DEF Sends, GoodPost
<1>5. \A q \in Requests \ {r} : /\ request'[q] = request[q]
                                /\ stage'[q] = stage[q]
                                /\ made'[q] = made[q]
  BY <1>1, <1>2
<1>6. made[r] = "none"
  BY <1>1 DEF MadeInv
<1>. QED  BY <1>1, <1>3, <1>4, <1>5, <1>6 DEF Database

LEMMA CalmSends ==
  ASSUME CalmInv, MadeInv, NEW r \in Requests, NEW purpose, NEW body,
         Sends(r, purpose, body), IsSendable(Update(body)),
         waiting = {}, myform # None,
         DOMAIN body.settings \subseteq {purpose},
         attachmentsTotal' \in Int,
         myform' \in Form, myform'.settings = myform.settings,
         tempForm' \in Settings,
         EditedSettings(myform.settings, body) = tempForm',
         purpose \notin SettingNames => tempForm' = myform.settings,
         modal' = None \/ modal' \in Modals,
         purpose = "modal" => modal' # None /\ modal'.saveInProgress,
         activating' => LoginReady(tempForm') /\ LoginReady(myform.settings)
  PROVE  CalmInv'
<1>1. /\ GoodPost(r) /\ forms' = forms /\ request'[r] = Update(body)
      /\ stage'[r] = "sent" /\ made'[r] = purpose /\ Database' = Database
      /\ \A q \in Requests \ {r} : /\ request'[q] = request[q]
                                   /\ made'[q] = made[q]
  BY Sending
<1>2. HandlerInv'
  BY <1>1, HandlerPost DEF CalmInv
<1>3. ASSUME NEW q \in Requests
      PROVE  OwnRequest(q)'
  <2>1. CASE q # r
    BY <1>1, <2>1 DEF CalmInv, OwnRequest
  <2>2. CASE q = r
    BY <1>1, <2>2 DEF OwnRequest, Update
  <2>. QED  BY <2>1, <2>2
<1>4. waiting' = {r}
  BY DEF Sends
<1>5. \A q \in waiting' : InTime(q)'
  BY <1>1, <1>4 DEF InTime
<1>6. Database.settings = myform.settings
  BY DEF CalmInv, PageInv, PageOpen
<1>7. SettingsPending(r)'
  <2>1. ~Succeeded(r)'
    BY <1>1 DEF Succeeded
  <2>2. request'[r].body = body
    BY <1>1 DEF Update
  <2>. QED  BY <1>1, <1>6, <2>1, <2>2 DEF SettingsPending
<1>8. PageOpen'
  BY <1>4, <1>7 DEF PageOpen
<1>9. myform' # None
  BY DocumentAssumption
<1>10. PageInv'
  BY <1>8, <1>9 DEF PageInv
<1>. QED  BY <1>1, <1>2, <1>3, <1>4, <1>5, <1>10 DEF CalmInv
-----------------------------------------------------------------------------
(* What the server does for the page *)

(* It reads the form, or answers; what it writes is an edit of what it has *)
(* read.                                                                   *)
LEMMA PageHandled ==
  ASSUME CalmInv, NEW r \in Requests, Handle(r)
  PROVE  /\ HandlerInv'
         /\ UNCHANGED request
         /\ stage[r] \notin {"unsent", "done"}
         /\ \A q \in Requests \ {r} :
               stage'[q] = stage[q] /\ seen'[q] = seen[q]
               /\ copy'[q] = copy[q] /\ reply'[q] = reply[q]
         /\ \/ /\ ReadForUpdate(r) /\ UNCHANGED forms
               /\ stage'[r] = "saving" /\ seen'[r] = Database
            \/ \E status \in Replies \ {"none"} :
                  /\ Ending(r, status)
                  /\ stage'[r] = "done" /\ reply'[r] = status
                  /\ status = "OK" => Save(r)
<1>1. HandlerInv
  BY DEF CalmInv
<1>2. HandlerInv'
  BY <1>1, HandlerStep DEF EditNext
<1>3. \A q \in Requests \ {r} :
         stage'[q] = stage[q] /\ seen'[q] = seen[q]
         /\ copy'[q] = copy[q] /\ reply'[q] = reply[q]
  BY <1>1, OthersUndisturbed
<1>4. stage[r] \in {"sent", "duplicating", "saving"}
  BY HandleCases DEF ReadForUpdate, ReadForDelete, ReadForDuplicate, Duplicate,
                     Create, Ending
<1>5. /\ request[r] # None /\ request[r].method = "update"
      /\ request[r].id = theForm /\ stage[r] # "duplicating"
  BY <1>1, <1>4 DEF CalmInv, OwnRequest, HandlerInv, Handling
<1>6. \/ ReadForUpdate(r)
      \/ \E status \in Replies \ {"none"} :
            Ending(r, status) /\ (status = "OK" => Save(r))
  <2>1. ~(ReadForDelete(r) \/ ReadForDuplicate(r) \/ Duplicate(r) \/ Create(r))
    BY <1>5 DEF ReadForDelete, ReadForDuplicate, Duplicate, Create
  <2>2. "OK" \in Replies \ {"none"}
    BY DEF Replies
  <2>3. \A status : Ending(r, status) => status \in Replies \ {"none"}
    BY DEF Ending
  <2>. QED  BY <2>1, <2>2, <2>3, HandleCases
<1>7. CASE ReadForUpdate(r)
  <2>1. stage'[r] = "saving" /\ seen'[r] = Target(r)
    BY <1>1, <1>7, HandlerReads
  <2>2. Target(r) = Database
    BY <1>5 DEF Target, Database
  <2>3. UNCHANGED <<forms, request>>
    BY <1>7 DEF ReadForUpdate
  <2>. QED  BY <1>2, <1>3, <1>4, <1>7, <2>1, <2>2, <2>3
<1>8. ASSUME NEW status \in Replies \ {"none"}, Ending(r, status),
             status = "OK" => Save(r)
      PROVE  stage'[r] = "done" /\ reply'[r] = status /\ UNCHANGED request
  BY <1>1, <1>8, HandlerEnds DEF Ending
<1>. QED  BY <1>2, <1>3, <1>4, <1>6, <1>7, <1>8

(* A save, answered with success or not, of a request of the page.         *)
LEMMA PageSaved ==
  ASSUME CalmInv, NEW r \in Requests, stage[r] = "saving", Write(r)
  PROVE  /\ SavedAt(r) = theForm
         /\ seen[r] \in Form
         /\ copy[r] = Edited(seen[r], request[r].body, r)
         /\ ~Inapplicable(seen[r].lists, request[r].body)
         /\ IsUpdate(request[r].body)
         /\ Database' = Written(r)
         /\ Written(r) \in Form
<1>1. HandlerInv
  BY DEF CalmInv
<1>2. /\ request[r] # None /\ request[r].method = "update"
      /\ request[r].id = theForm
  BY <1>1 DEF CalmInv, OwnRequest, HandlerInv, Handling
<1>3. seen[r] # None
  BY <1>1, <1>2 DEF HandlerInv, Handling, NewFormMade
<1>4. /\ seen[r] \in Form /\ SavedAt(r) = theForm
  BY <1>1, <1>2, <1>3, CopyShape
<1>5. CopyMade(r)
  BY <1>1, <1>3 DEF HandlerInv, Handling
<1>6. /\ copy[r] = Edited(seen[r], request[r].body, r)
      /\ ~Inapplicable(seen[r].lists, request[r].body)
  BY <1>2, <1>5 DEF CopyMade
<1>7. IsUpdate(request[r].body)
  BY <1>1, <1>2 DEF HandlerInv, Handling, IsSendable, IsCall
<1>8. Database' = Written(r) /\ Written(r) \in Form
  BY <1>1, <1>4, Writing, WrittenForm DEF Database
<1>. QED  BY <1>4, <1>6, <1>7, <1>8

(* For a request that the page waits for, the form becomes the edit of     *)
(* what it was.                                                            *)
LEMMA PageSavedInTime ==
  ASSUME CalmInv, NEW r \in waiting, stage[r] = "saving", Write(r)
  PROVE  /\ Database' \in Form
         /\ Database'.settings = EditedSettings(Database.settings, request[r].body)
         /\ Database'.lists = EditedLists(Database.lists, request[r].body, r)
         /\ ~Inapplicable(Database.lists, request[r].body)
         /\ copy[r] \in Form
         /\ copy[r].lists = Database'.lists
         /\ copy[r].settings = Database'.settings
<1>1. r \in Requests /\ HandlerInv
  BY DEF CalmInv
<1>2. /\ SavedAt(r) = theForm
      /\ seen[r] \in Form
      /\ copy[r] = Edited(seen[r], request[r].body, r)
      /\ ~Inapplicable(seen[r].lists, request[r].body)
      /\ IsUpdate(request[r].body)
      /\ Database' = Written(r)
      /\ Written(r) \in Form
  BY <1>1, PageSaved
<1>3. seen[r] = Database
  BY DEF CalmInv, InTime
<1>4. Written(r).lists = copy[r].lists /\ Written(r).settings = copy[r].settings
  BY <1>1, <1>2, <1>3, WrittenForm DEF Database
<1>5. /\ copy[r] \in Form
      /\ copy[r].lists = EditedLists(seen[r].lists, request[r].body, r)
      /\ copy[r].settings = EditedSettings(seen[r].settings, request[r].body)
  <2>1. PICK form \in Form : form = seen[r]
    BY <1>2
  <2>2. PICK body : body = request[r].body
    OBVIOUS
  <2>3. IsUpdate(body) /\ ~Inapplicable(form.lists, body)
    BY <1>2, <2>1, <2>2
  <2>4. /\ Edited(form, body, r) \in Form
        /\ Edited(form, body, r).lists = EditedLists(form.lists, body, r)
        /\ Edited(form, body, r).settings = EditedSettings(form.settings, body)
    BY <1>1, <2>3, FormEdited
  <2>. QED  BY <1>2, <2>1, <2>2, <2>4
<1>. QED  BY <1>2, <1>3, <1>4, <1>5

(* The server's steps for a page keep its settings, as long as nothing is  *)
(* saved unnoticed.                                                        *)
LEMMA CalmHandles ==
  ASSUME CalmInv, NEW r \in Requests, Handle(r), ~IsUnnoticed(r),
         UNCHANGED <<myform, fieldVars, settingVars, waiting, made>>
  PROVE  CalmInv'
<1>1. /\ HandlerInv' /\ UNCHANGED request
      /\ stage[r] \notin {"unsent", "done"}
      /\ \A q \in Requests \ {r} :
            stage'[q] = stage[q] /\ seen'[q] = seen[q]
            /\ copy'[q] = copy[q] /\ reply'[q] = reply[q]
  BY PageHandled
<1>2. /\ UNCHANGED <<myform, attachmentsTotal, modal, tempForm, activating,
                     waiting, made>>
  BY DEF fieldVars, settingVars
<1>3. \A q \in Requests : OwnRequest(q)'
  BY <1>1, <1>2 DEF CalmInv, OwnRequest
<1>4. waiting' \subseteq Requests /\ \A p, q \in waiting' : p = q
  BY <1>2 DEF CalmInv
<1>5. ~Succeeded(r)
  BY <1>1 DEF Succeeded
<1>6. ASSUME Database' \in Form,
             \A q \in waiting' : InTime(q)',
             waiting = {} => Database'.settings = Database.settings,
             \A q \in waiting :
                /\ Succeeded(q)' => /\ copy'[q] \in Form
                                    /\ copy'[q].settings = tempForm
                                    /\ Database'.settings = tempForm
                /\ ~Succeeded(q)' => Database'.settings = myform.settings
      PROVE  CalmInv'
  <2>1. \A q \in waiting : myform # None /\ SettingsPending(q)
    BY DEF CalmInv, PageInv, PageClosed, PageOpen
  <2>2. \A q \in waiting' : SettingsPending(q)'
    BY <1>1, <1>2, <1>6, <2>1 DEF SettingsPending
  <2>3. PageInv'
    BY <1>2, <1>6, <2>2 DEF CalmInv, PageInv, PageOpen, PageClosed
  <2>. QED  BY <1>1, <1>3, <1>4, <1>6, <2>3 DEF CalmInv
<1>7. ASSUME UNCHANGED forms, ~Succeeded(r)',
             stage'[r] = "saving" => seen'[r] = Database,
             stage'[r] # "unsent"
      PROVE  CalmInv'
  <2>1. Database' = Database
    BY <1>7 DEF Database
  <2>2. \A q \in waiting : InTime(q)'
    BY <1>1, <1>7, <2>1 DEF CalmInv, InTime
  <2>3. \A q \in Requests : Succeeded(q)' <=> Succeeded(q)
    BY <1>1, <1>5, <1>7 DEF Succeeded
  <2>4. \A q \in waiting : q \in Requests /\ SettingsPending(q)
    BY DEF CalmInv, PageInv, PageClosed, PageOpen
  <2>5. \A q \in waiting : Succeeded(q) => copy'[q] = copy[q]
    BY <1>1, <1>5, <2>4
  <2>6. \A q \in waiting :
           /\ Succeeded(q)' => /\ copy'[q] \in Form
                               /\ copy'[q].settings = tempForm
                               /\ Database'.settings = tempForm
           /\ ~Succeeded(q)' => Database'.settings = myform.settings
    BY <2>1, <2>3, <2>4, <2>5 DEF SettingsPending
  <2>7. Database' \in Form
    BY <2>1 DEF CalmInv
  <2>. QED  BY <1>2, <1>6, <2>1, <2>2, <2>6, <2>7
<1>8. CASE UNCHANGED forms /\ stage'[r] = "saving" /\ seen'[r] = Database
  BY <1>7, <1>8 DEF Succeeded
<1>9. ASSUME NEW status \in Replies \ {"none"}, Ending(r, status),
             stage'[r] = "done", reply'[r] = status, status = "OK" => Save(r)
      PROVE  CalmInv'
  <2>1. CASE status # "OK"
    <3>1. UNCHANGED forms
      BY <1>9, <2>1 DEF IsUnnoticed
    <3>. QED  BY <1>7, <1>9, <2>1, <3>1 DEF Succeeded
  <2>2. CASE status = "OK" /\ r \notin waiting
    <3>1. UNCHANGED forms
      BY <2>2 DEF IsUnnoticed
    <3>2. Database' = Database
      BY <3>1 DEF Database
    <3>3. \A q \in waiting : q \in Requests \ {r} /\ SettingsPending(q)
      BY <2>2 DEF CalmInv, PageInv, PageClosed, PageOpen
    <3>4. \A q \in waiting : InTime(q)'
      BY <1>1, <3>2, <3>3 DEF CalmInv, InTime
    <3>5. \A q \in waiting : /\ Succeeded(q)' <=> Succeeded(q)
                             /\ copy'[q] = copy[q]
      BY <1>1, <3>3 DEF Succeeded
    <3>6. \A q \in waiting :
             /\ Succeeded(q)' => /\ copy'[q] \in Form
                                 /\ copy'[q].settings = tempForm
                                 /\ Database'.settings = tempForm
             /\ ~Succeeded(q)' => Database'.settings = myform.settings
      BY <3>2, <3>3, <3>5 DEF SettingsPending
    <3>7. Database' \in Form
      BY <3>2 DEF CalmInv
    <3>. QED  BY <1>2, <1>6, <3>2, <3>4, <3>6, <3>7
  <2>3. CASE status = "OK" /\ r \in waiting
    <3>1. stage[r] = "saving" /\ Write(r) /\ copy' = copy
      BY <1>9, <2>3 DEF Save, Answer
    <3>2. /\ Database' \in Form
          /\ Database'.settings
               = EditedSettings(Database.settings, request[r].body)
          /\ copy[r] \in Form
          /\ copy[r].settings = Database'.settings
      BY <2>3, <3>1, PageSavedInTime
    <3>3. SettingsPending(r)
      BY <2>3 DEF CalmInv, PageInv, PageClosed, PageOpen
    <3>4. Database'.settings = tempForm
      BY <1>5, <3>2, <3>3 DEF SettingsPending
    <3>5. \A q \in waiting : q = r
      BY <2>3 DEF CalmInv
    <3>6. Succeeded(r)' /\ InTime(r)'
      BY <1>9, <2>3 DEF Succeeded, InTime
    <3>. QED  BY <1>2, <1>6, <2>3, <3>1, <3>2, <3>4, <3>5, <3>6
  <2>. QED  BY <2>1, <2>2, <2>3
<1>. QED  BY <1>8, <1>9, PageHandled
-----------------------------------------------------------------------------
(* The steps of the page, and the settings *)

LEMMA OpenSettings ==
  ASSUME CalmInv, myform # None
  PROVE  /\ PageOpen
         /\ \A q \in waiting : SettingsPending(q)
         /\ waiting = {} => /\ tempForm = myform.settings
                            /\ Database.settings = myform.settings
BY DEF CalmInv, PageInv, PageOpen

(* A modal is opened or closed.                                            *)
LEMMA CalmKept ==
  ASSUME CalmInv, UNCHANGED <<vars, made, myform, tempForm, waiting>>,
         myform # None, attachmentsTotal' \in Int,
         modal' = None \/ modal' \in Modals,
         modal # None /\ modal.saveInProgress => modal' = modal,
         activating' => LoginReady(tempForm) /\ LoginReady(myform.settings)
  PROVE  CalmInv'
<1>1. Database' = Database /\ UNCHANGED <<stage, reply, request, copy>>
  BY DEF Database, vars, handlerVars
<1>2. \A q \in waiting : SettingsPending(q)'
  BY <1>1, OpenSettings DEF SettingsPending, Succeeded
<1>3. PageInv'
  BY <1>1, <1>2, OpenSettings DEF PageInv, PageOpen
<1>. QED  BY <1>3, CalmAtPage

FieldShape(f) ==
    /\ f \in FormField /\ f \in Field
    /\ f.globalId # None /\ SizeOf(f) \in Nat
    /\ [f EXCEPT !.globalId = None] \in Field
    /\ [f EXCEPT !.globalId = None].globalId = None
    /\ SizeOf([f EXCEPT !.globalId = None]) = SizeOf(f)

LEMMA FormFieldShape ==
  ASSUME NEW f \in FormField
  PROVE  FieldShape(f)
<1>1. f \in Field /\ f.globalId # None
  BY DocumentAssumption DEF FormField, Field
<1>2. /\ [f EXCEPT !.globalId = None] \in Field
      /\ [f EXCEPT !.globalId = None].globalId = None
      /\ [f EXCEPT !.globalId = None].fieldType = f.fieldType
      /\ [f EXCEPT !.globalId = None].content = f.content
  BY DEF FormField, Field
<1>3. SizeOf([f EXCEPT !.globalId = None]) = SizeOf(f)
  <2>1. PICK g : g = [f EXCEPT !.globalId = None]
    OBVIOUS
  <2>. QED  BY <1>2, <2>1 DEF SizeOf
<1>. QED  BY <1>1, <1>2, <1>3, SizeIsNat DEF FieldShape

(* The fields of the page are those of its form.                           *)
LEMMA FieldOfPage ==
  ASSUME CalmInv, myform # None, NEW field \in PageFields
  PROVE  /\ field \in Fields(myform)
         /\ \E i \in DOMAIN FieldsOf(myform) : FieldsOf(myform)[i] = field
         /\ FieldShape(field)
<1>1. field \in Fields(myform)
  BY DEF PageFields
<1>2. PICK i \in DOMAIN FieldsOf(myform) : FieldsOf(myform)[i] = field
  BY <1>1 DEF Fields, FieldsOf
<1>3. FieldsOf(myform) \in Seq(FormField)
  BY OpenSettings, FormTyped DEF PageOpen, FieldsOf
<1>. QED  BY <1>1, <1>2, <1>3, FormFieldShape

LEMMA SizeOfForm ==
  ASSUME NEW form \in Form
  PROVE  /\ AttachmentsSize(form) = TotalSize(FieldsOf(form))
         /\ TotalSize(FieldsOf(form)) \in Nat
         /\ FieldsOf(form) \in Seq(FormField)
<1>1. FieldsOf(form) \in Seq(FormField)
  BY FormTyped DEF FieldsOf
<1>2. AttachmentsSize(form) = TotalSize(FieldsOf(form))
  BY DEF AttachmentsSize, TotalSize, FieldsOf
<1>. QED  BY <1>1, <1>2, SumsExist, SumsAgree

LEMMA CalmView ==
  ASSUME CalmInv, ViewForm
  PROVE  CalmInv'
<1>1. /\ myform = None /\ waiting = {} /\ modal = None /\ ~activating
  BY DEF ViewForm, CalmInv, PageInv, PageClosed
<1>2. /\ myform' = Database /\ tempForm' = Database.settings
      /\ attachmentsTotal' = attachmentsMax - AttachmentsSize(Database)
      /\ modal' = None /\ ~activating' /\ waiting' = {}
      /\ UNCHANGED <<vars, made>>
  BY <1>1 DEF ViewForm, Database
<1>3. Database \in Form /\ Database' = Database
  BY <1>2 DEF CalmInv, Database, vars
<1>4. attachmentsTotal' \in Int
  BY <1>2, <1>3, SizeOfForm, BuilderAssumption
<1>5. PageOpen'
  BY <1>2, <1>3, FormTyped DEF PageOpen
<1>6. PageInv'
  BY <1>3, <1>4, <1>5, <1>2, DocumentAssumption DEF PageInv
<1>. QED  BY <1>2, <1>6, CalmAtPage

LEMMA ModalOpened ==
  ASSUME CalmInv, myform # None, NEW field \in Field,
         field.globalId = None \/ SizeOf(field) \in Nat, OpenModal(field)
  PROVE  /\ modal' \in Modals /\ modal' # None
         /\ modal'.field = field
         /\ ~modal'.saveInProgress
         /\ modal'.attachmentSize = attachmentsTotal + modal'.previous
         /\ modal'.previous
              = IF field.globalId = None THEN 0 ELSE SizeOf(field)
<1>1. PICK previous \in Nat :
         previous = IF field.globalId = None THEN 0 ELSE SizeOf(field)
  OBVIOUS
<1>2. modal' = [field |-> field, previous |-> previous,
                attachmentSize |-> attachmentsTotal + previous,
                saveInProgress |-> FALSE]
  BY <1>1 DEF OpenModal
<1>3. attachmentsTotal + previous \in Int
  BY DEF CalmInv, PageInv
<1>4. modal' \in Modals
  BY <1>2, <1>3 DEF Modals
<1>. QED  BY <1>1, <1>2, <1>4, RecordsAssumption

NewField(type) == [globalId |-> None, fieldType |-> type, content |-> 0]

LEMMA NewFieldShape ==
  ASSUME NEW type \in {"text", "attachment", "myInfo"}
  PROVE  NewField(type) \in Field /\ NewField(type).globalId = None
BY DEF NewField, Field

LEMMA CalmOpens ==
  ASSUME CalmInv,
         \/ \E type \in {"text", "attachment", "myInfo"} : AddNewField(type)
         \/ \E field \in PageFields : OpenEditModal(field)
  PROVE  CalmInv'
<1>1. /\ UNCHANGED <<vars, made, myform, tempForm, waiting, attachmentsTotal,
                     activating>>
      /\ myform # None /\ modal = None /\ ~activating
  BY DEF AddNewField, OpenEditModal, IsFree, settingVars
<1>2. PICK field \in Field :
         /\ field.globalId = None \/ SizeOf(field) \in Nat
         /\ OpenModal(field)
  <2>1. ASSUME NEW type \in {"text", "attachment", "myInfo"}, AddNewField(type)
        PROVE  OpenModal(NewField(type))
    BY <2>1 DEF AddNewField, NewField
  <2>2. ASSUME NEW f \in PageFields, OpenEditModal(f)
        PROVE  OpenModal(f) /\ f \in Field /\ SizeOf(f) \in Nat
    BY <1>1, <2>2, FieldOfPage DEF OpenEditModal, FieldShape
  <2>. QED  BY <2>1, <2>2, NewFieldShape
<1>3. modal' \in Modals
  BY <1>1, <1>2, ModalOpened
<1>4. attachmentsTotal' \in Int
  BY <1>1 DEF CalmInv, PageInv
<1>. QED  BY <1>1, <1>3, <1>4, CalmKept

LEMMA CalmCloses ==
  ASSUME CalmInv,
         CancelField \/ OpenActivateFormModal \/ CloseActivateFormModal
  PROVE  CalmInv'
<1>1. /\ UNCHANGED <<vars, made, myform, tempForm, waiting, attachmentsTotal>>
      /\ modal' = None \/ modal' = modal
      /\ modal # None /\ modal.saveInProgress => modal' = modal
      /\ activating' => activating \/ OpenActivateFormModal
  BY DEF CancelField, OpenActivateFormModal, CloseActivateFormModal,
         settingVars, fieldVars
<1>2. myform # None
  BY DEF CalmInv, PageInv, PageClosed, CancelField, OpenActivateFormModal,
         CloseActivateFormModal, IsFree
<1>3. PageOpen /\ attachmentsTotal' \in Int
  BY <1>1, <1>2, OpenSettings DEF CalmInv, PageInv
<1>4. OpenActivateFormModal => LoginReady(tempForm) /\ LoginReady(myform.settings)
  BY DEF OpenActivateFormModal, CanToggle, NeedsChecks, LoginReady
<1>5. /\ modal' = None \/ modal' \in Modals
      /\ activating' => LoginReady(tempForm) /\ LoginReady(myform.settings)
  BY <1>1, <1>3, <1>4 DEF PageOpen
<1>. QED  BY <1>1, <1>2, <1>3, <1>5, CalmKept

(* The page that waits is open, and waits for one request.                 *)
LEMMA WaitingFor ==
  ASSUME CalmInv, NEW r \in waiting
  PROVE  /\ r \in Requests /\ waiting = {r} /\ myform # None
         /\ SettingsPending(r)
         /\ reply[r] = "OK" => Succeeded(r)
<1>1. r \in Requests /\ myform # None /\ SettingsPending(r)
  BY DEF CalmInv, PageInv, PageClosed, PageOpen
<1>2. waiting = {r}
  BY DEF CalmInv
<1>3. reply[r] = "OK" => Succeeded(r)
  BY <1>1 DEF CalmInv, HandlerInv, Handling, Succeeded
<1>. QED  BY <1>1, <1>2, <1>3

LEMMA CalmSucceeds ==
  ASSUME CalmInv, NEW r \in Requests, ReceiveSuccess(r)
  PROVE  CalmInv'
<1>1. r \in waiting /\ reply[r] = "OK"
  BY DEF ReceiveSuccess
<1>2. /\ waiting = {r} /\ Succeeded(r) /\ SettingsPending(r) /\ myform # None
  BY <1>1, WaitingFor
<1>3. /\ waiting' = {} /\ myform' = copy[r] /\ tempForm' = tempForm
      /\ UNCHANGED <<vars, made, attachmentsTotal, activating>>
      /\ modal' = None \/ modal' = modal
  BY <1>2 DEF ReceiveSuccess
<1>4. Database' = Database
  BY <1>3 DEF Database, vars
<1>5. copy[r] \in Form /\ copy[r].settings = tempForm /\ Database.settings = tempForm
  BY <1>2 DEF SettingsPending
<1>6. PageOpen
  BY <1>2, OpenSettings
<1>7. PageOpen'
  BY <1>3, <1>4, <1>5, <1>6 DEF PageOpen
<1>8. PageInv'
  BY <1>3, <1>5, <1>7, DocumentAssumption DEF PageInv, CalmInv
<1>. QED  BY <1>3, <1>8, CalmAtPage

LEMMA CalmFails ==
  ASSUME CalmInv, NEW r \in Requests, ReceiveFailure(r)
  PROVE  CalmInv'
<1>1. r \in waiting /\ reply[r] # "OK"
  BY DEF ReceiveFailure
<1>2. /\ waiting = {r} /\ ~Succeeded(r) /\ SettingsPending(r) /\ myform # None
  BY <1>1, WaitingFor DEF Succeeded
<1>3. /\ waiting' = {} /\ myform' = myform /\ tempForm' = RevertField(r)
      /\ UNCHANGED <<vars, made, attachmentsTotal, activating>>
      /\ modal' = IF made[r] = "modal"
                  THEN [modal EXCEPT !.saveInProgress = FALSE] ELSE modal
  BY <1>2 DEF ReceiveFailure
<1>4. Database' = Database
  BY <1>3 DEF Database, vars
<1>5. tempForm' = myform.settings /\ Database.settings = myform.settings
  BY <1>2, <1>3 DEF SettingsPending, RevertField
<1>6. PageOpen
  BY <1>2, OpenSettings
<1>7. modal' = None \/ modal' \in Modals
  <2>1. CASE made[r] = "modal"
    <3>1. modal \in Modals
      BY <1>2, <1>6, <2>1 DEF SettingsPending, PageOpen
    <3>2. \A m \in Modals : [m EXCEPT !.saveInProgress = FALSE] \in Modals
      BY DEF Modals
    <3>. QED  BY <1>3, <2>1, <3>1, <3>2
  <2>2. CASE made[r] # "modal"
    BY <1>3, <1>6, <2>2 DEF PageOpen
  <2>. QED  BY <2>1, <2>2
<1>8. tempForm' \in Settings
  BY <1>5, <1>6, FormTyped DEF PageOpen
<1>9. PageOpen'
  BY <1>3, <1>4, <1>5, <1>6, <1>7, <1>8 DEF PageOpen
<1>10. PageInv'
  BY <1>2, <1>3, <1>9 DEF PageInv, CalmInv
<1>. QED  BY <1>3, <1>10, CalmAtPage

LEMMA CalmLeaves ==
  ASSUME CalmInv, LeavePage
  PROVE  CalmInv'
<1>1. /\ UNCHANGED <<vars, made>> /\ waiting' \subseteq waiting
      /\ myform' = None /\ waiting' = {} /\ modal' = None
      /\ activating' = FALSE /\ attachmentsTotal' = 0
  BY DEF LeavePage
<1>2. PageInv'
  BY <1>1 DEF PageInv, PageClosed
<1>. QED  BY <1>1, <1>2, CalmAtPage
-----------------------------------------------------------------------------
(* What the page sends *)

LEMMA SendAlone ==
  ASSUME NEW purpose, NEW body, Send(purpose, body), "overlap" \notin lapses'
  PROVE  /\ waiting = {} /\ lapses' = lapses
         /\ \E r \in Requests : Sends(r, purpose, body)
BY DEF Send, Sends

EditBody(edit) == Body(edit, None, None, <<>>)

LEMMA EditOfIs ==
  ASSUME NEW action \in EditFieldActions, NEW field \in Field,
         NEW position \in Nat \ {0}
  PROVE  \E edit \in Edits :
            /\ EditOf(action, field, position) = EditBody(edit)
            /\ edit \in FieldEdits /\ edit # None
            /\ edit.name = action /\ edit.field = field
            /\ edit.position = position
<1>. DEFINE edit == [name |-> action, field |-> field, position |-> position]
<1>1. edit \in FieldEdits /\ edit \in Edits
  BY DEF FieldEdits, Edits
<1>2. edit.name = action /\ edit.field = field /\ edit.position = position
  OBVIOUS
<1>3. EditOf(action, field, position) = EditBody(edit)
  BY DEF EditOf, Nothing, EditBody, Body
<1>. HIDE DEF edit
<1>. QED  BY <1>1, <1>2, <1>3, RecordsAssumption

LEMMA OtherBodies ==
  ASSUME NEW x
  PROVE  /\ [Nothing EXCEPT !.form_logics = x] = Body(None, x, None, <<>>)
         /\ [Nothing EXCEPT !.permissionList = x] = Body(None, None, x, <<>>)
         /\ [Nothing EXCEPT !.settings = x] = Body(None, None, None, x)
BY DEF Nothing, Body

(* A request without settings.                                             *)
Plain(body) ==
    \E edit \in FieldEdits \cup {None},
       logics \in (SUBSET Rules) \cup {None},
       permissions \in [Users -> Permissions] \cup {None} :
          body = Body(edit, logics, permissions, <<>>)

LEMMA PlainBody ==
  ASSUME NEW body, Plain(body), NEW shown \in Settings
  PROVE  /\ IsSendable(Update(body)) /\ IsUpdate(body)
         /\ EditedSettings(shown, body) = shown
         /\ DOMAIN body.settings = {}
<1>1. PICK edit \in FieldEdits \cup {None},
           logics \in (SUBSET Rules) \cup {None},
           permissions \in [Users -> Permissions] \cup {None} :
              body = Body(edit, logics, permissions, <<>>)
  BY DEF Plain
<1>2. DOMAIN body.settings = {}
  BY <1>1 DEF Body
<1>. QED  BY <1>1, <1>2, NoSettings

(* Purposes that are no settings, and are charged.                         *)
Purposes == {"modal", "field", "logic", "collaborators", "uncharged"}

LEMMA CalmPlain ==
  ASSUME CalmInv, MadeInv, NEW purpose \in Purposes, NEW body, Plain(body),
         NEW r \in Requests, Sends(r, purpose, body), waiting = {},
         myform # None, attachmentsTotal' \in Int,
         myform' \in Form, myform'.settings = myform.settings,
         tempForm' = tempForm,
         modal' = None \/ modal' \in Modals,
         purpose = "modal" => modal' # None /\ modal'.saveInProgress,
         activating' => activating
  PROVE  CalmInv'
<1>1. /\ PageOpen /\ tempForm = myform.settings
  BY OpenSettings
<1>2. purpose \notin SettingNames
  BY SettingNamesAre DEF Purposes
<1>3. /\ IsSendable(Update(body))
      /\ EditedSettings(myform.settings, body) = myform.settings
      /\ DOMAIN body.settings \subseteq {purpose}
  BY <1>1, PlainBody DEF PageOpen
<1>4. /\ tempForm' \in Settings /\ tempForm' = myform.settings
      /\ activating' => LoginReady(tempForm') /\ LoginReady(myform.settings)
  BY <1>1 DEF PageOpen
<1>. QED  BY <1>2, <1>3, <1>4, CalmSends

(* An edit of a field from the page.                                       *)
FieldSent(purpose, body) ==
    /\ purpose \in {"field", "uncharged"}
    /\ Plain(body)
    /\ Send(purpose, body)
    /\ IsFree
    /\ attachmentsTotal' \in Int
    /\ UNCHANGED <<myform, modal, settingVars>>

LEMMA CalmField ==
  ASSUME CalmInv, MadeInv, "overlap" \notin lapses', NEW purpose, NEW body,
         FieldSent(purpose, body)
  PROVE  CalmInv'
<1>1. /\ purpose \in Purposes /\ Plain(body) /\ attachmentsTotal' \in Int
      /\ myform # None /\ modal' = None
      /\ UNCHANGED <<myform, tempForm, activating>>
      /\ Send(purpose, body)
  BY DEF FieldSent, Purposes, IsFree, settingVars
<1>2. waiting = {} /\ \E r \in Requests : Sends(r, purpose, body)
  BY <1>1, SendAlone
<1>3. myform' \in Form /\ myform'.settings = myform.settings
  BY <1>1, OpenSettings DEF PageOpen
<1>4. purpose # "modal"
  BY DEF FieldSent
<1>. QED  BY <1>1, <1>2, <1>3, <1>4, CalmPlain

(* The edits of fields that are made on the page.                          *)
LEMMA FieldsSent ==
  ASSUME CalmInv, NEW field \in PageFields,
         \/ DeleteField(field) \/ DuplicateField(field)
         \/ DuplicateLogicField(field)
         \/ \E position \in Positions : ReorderField(field, position)
  PROVE  \E purpose \in {"field", "uncharged"}, edit \in Edits :
            /\ FieldSent(purpose, EditBody(edit))
            /\ edit \in FieldEdits /\ edit # None
            /\ \/ /\ edit.name = "DELETE" /\ edit.field = field
                  /\ attachmentsTotal' = attachmentsTotal + SizeOf(field)
               \/ /\ edit.name = "REORDER" /\ edit.field = field
                  /\ attachmentsTotal' = attachmentsTotal
               \/ /\ edit.name = "DUPLICATE" /\ edit.field.globalId = None
                  /\ SizeOf(edit.field) = SizeOf(field)
                  /\ \/ /\ attachmentsTotal >= SizeOf(field)
                        /\ attachmentsTotal' = attachmentsTotal - SizeOf(field)
                     \/ /\ attachmentsTotal' = attachmentsTotal
                        /\ SizeOf(field) = 0 \/ purpose = "uncharged"
<1>1. IsFree /\ myform # None
  BY DEF DeleteField, DuplicateField, DuplicateLogicField, ReorderField, IsFree
<1>2. FieldShape(field)
  BY <1>1, FieldOfPage
<1>3. attachmentsTotal \in Int
  BY DEF CalmInv, PageInv
<1>4. \A edit \in FieldEdits : Plain(EditBody(edit))
  BY DEF Plain, EditBody
<1>5. CASE DeleteField(field)
  <2>1. PICK edit \in Edits :
           /\ EditOf("DELETE", field, 1) = EditBody(edit)
           /\ edit \in FieldEdits /\ edit # None
           /\ edit.name = "DELETE" /\ edit.field = field
    BY <1>2, EditOfIs DEF FieldShape, EditFieldActions
  <2>2. /\ attachmentsTotal' = attachmentsTotal + SizeOf(field)
        /\ Send("field", EditBody(edit))
        /\ UNCHANGED <<myform, modal, settingVars>>
    BY <1>5, <2>1 DEF DeleteField
  <2>3. attachmentsTotal' \in Int
    BY <1>2, <1>3, <2>2 DEF FieldShape
  <2>4. FieldSent("field", EditBody(edit))
    BY <1>1, <1>4, <2>1, <2>2, <2>3 DEF FieldSent
  <2>. QED  BY <2>1, <2>2, <2>4
<1>6. ASSUME NEW position \in Positions, ReorderField(field, position)
      PROVE  \E purpose \in {"field", "uncharged"}, edit \in Edits :
                /\ FieldSent(purpose, EditBody(edit))
                /\ edit \in FieldEdits /\ edit # None
                /\ edit.name = "REORDER" /\ edit.field = field
                /\ attachmentsTotal' = attachmentsTotal
  <2>1. position \in Nat \ {0}
    <3>1. FieldsOf(myform) \in Seq(FormField)
      BY <1>1, OpenSettings, FormTyped DEF PageOpen, FieldsOf
    <3>2. position \in DOMAIN FieldsOf(myform)
      BY <1>6 DEF ReorderField, FieldsOf
    <3>. QED  BY <3>1, <3>2
  <2>2. PICK edit \in Edits :
           /\ EditOf("REORDER", field, position) = EditBody(edit)
           /\ edit \in FieldEdits /\ edit # None
           /\ edit.name = "REORDER" /\ edit.field = field
    BY <1>2, <2>1, EditOfIs DEF FieldShape, EditFieldActions
  <2>3. /\ attachmentsTotal' = attachmentsTotal
        /\ Send("field", EditBody(edit))
        /\ UNCHANGED <<myform, modal, settingVars>>
    BY <1>6, <2>2 DEF ReorderField, fieldVars
  <2>4. FieldSent("field", EditBody(edit))
    BY <1>1, <1>3, <1>4, <2>2, <2>3 DEF FieldSent
  <2>. QED  BY <2>2, <2>3, <2>4
<1>7. CASE DuplicateField(field) \/ DuplicateLogicField(field)
  <2>1. PICK copied \in Field : /\ copied = [field EXCEPT !.globalId = None]
                                /\ copied.globalId = None
                                /\ SizeOf(copied) = SizeOf(field)
    BY <1>2 DEF FieldShape
  <2>2. PICK edit \in Edits :
           /\ EditOf("DUPLICATE", copied, 1) = EditBody(edit)
           /\ edit \in FieldEdits /\ edit # None
           /\ edit.name = "DUPLICATE" /\ edit.field = copied
    BY EditOfIs DEF EditFieldActions
  <2>3. Copied(field) = EditBody(edit)
    BY <2>1, <2>2 DEF Copied
  <2>4. CASE DuplicateField(field)
    <3>1. /\ attachmentsTotal >= SizeOf(field)
          /\ attachmentsTotal' = attachmentsTotal - SizeOf(field)
          /\ Send("field", EditBody(edit))
          /\ UNCHANGED <<myform, modal, settingVars>>
      BY <2>3, <2>4 DEF DuplicateField
    <3>2. attachmentsTotal' \in Int
      BY <1>2, <1>3, <3>1 DEF FieldShape
    <3>3. FieldSent("field", EditBody(edit))
      BY <1>1, <1>4, <2>2, <3>1, <3>2 DEF FieldSent
    <3>. QED  BY <2>1, <2>2, <3>1, <3>3
  <2>5. CASE DuplicateLogicField(field)
    <3>1. PICK purpose \in {"field", "uncharged"} :
             purpose = IF SizeOf(field) = 0 THEN "field" ELSE "uncharged"
      OBVIOUS
    <3>2. /\ attachmentsTotal' = attachmentsTotal
          /\ Send(purpose, EditBody(edit))
          /\ UNCHANGED <<myform, modal, settingVars>>
      BY <2>3, <2>5, <3>1 DEF DuplicateLogicField, fieldVars
    <3>3. FieldSent(purpose, EditBody(edit))
      BY <1>1, <1>3, <1>4, <2>2, <3>1, <3>2 DEF FieldSent
    <3>. QED  BY <2>1, <2>2, <3>1, <3>2, <3>3
  <2>. QED  BY <1>7, <2>4, <2>5
<1>. QED  BY <1>5, <1>6, <1>7
(* The field that the modal saves.                                         *)
LEMMA FieldSaved ==
  ASSUME CalmInv, SaveField
  PROVE  /\ modal \in Modals /\ ~modal.saveInProgress /\ modal # None
         /\ myform # None /\ UNCHANGED <<myform, settingVars>>
         /\ modal' \in Modals /\ modal' # None /\ modal'.saveInProgress
         /\ attachmentsTotal' \in Int
         /\ \E edit \in Edits :
               /\ edit \in FieldEdits /\ edit # None
               /\ edit.name = IF modal.field.globalId = None THEN "CREATE"
                                                             ELSE "UPDATE"
               /\ edit.field.globalId = modal.field.globalId
               /\ SizeOf(edit.field) \in Nat
               /\ SizeOf(edit.field) = 0
                     \/ SizeOf(edit.field) <= modal.attachmentSize
               /\ attachmentsTotal'
                     = attachmentsTotal - SizeOf(edit.field) + modal.previous
               /\ Send("modal", EditBody(edit))
<1>1. /\ myform # None /\ modal # None /\ ~modal.saveInProgress
      /\ UNCHANGED <<myform, settingVars>>
      /\ modal' = [modal EXCEPT !.saveInProgress = TRUE]
  BY DEF SaveField
<1>2. modal \in Modals
  BY <1>1, OpenSettings DEF PageOpen
<1>3. modal' \in Modals /\ modal' # None /\ modal'.saveInProgress
  <2>1. \A m \in Modals : /\ [m EXCEPT !.saveInProgress = TRUE] \in Modals
                          /\ [m EXCEPT !.saveInProgress = TRUE].saveInProgress
    BY DEF Modals
  <2>. QED  BY <1>1, <1>2, <2>1, RecordsAssumption
<1>4. PICK old \in Field : old = modal.field
  BY <1>2 DEF Modals
<1>5. PICK name \in EditFieldActions :
         name = IF old.globalId = None THEN "CREATE" ELSE "UPDATE"
  BY DEF EditFieldActions
<1>6. PICK content \in Contents(old) :
         LET field == [old EXCEPT !.content = content]
         IN  /\ ~DisableSave(content)
             /\ attachmentsTotal' =
                    attachmentsTotal - SizeOf(field) + modal.previous
             /\ Send("modal", EditOf(name, field, 1))
  BY <1>4, <1>5 DEF SaveField
<1>7. content \in Nat /\ (old.fieldType = "attachment" => content \in Nat \ {0})
  BY BuilderAssumption DEF Contents, Field
<1>8. PICK field \in Field : /\ field = [old EXCEPT !.content = content]
                             /\ field.globalId = old.globalId
                             /\ field.fieldType = old.fieldType
                             /\ field.content = content
  <2>1. PICK field : field = [old EXCEPT !.content = content]
    OBVIOUS
  <2>2. /\ field.globalId = old.globalId /\ field.fieldType = old.fieldType
        /\ field.content = content
    BY <2>1 DEF Field
  <2>3. field \in Field
    BY <1>7, <2>1 DEF Field
  <2>. QED  BY <2>1, <2>2, <2>3
<1>9. SizeOf(field) = (IF old.fieldType = "attachment" THEN content ELSE 0)
      /\ SizeOf(field) \in Nat
  BY <1>7, <1>8 DEF SizeOf
<1>10. SizeOf(field) = 0 \/ SizeOf(field) <= modal.attachmentSize
  <2>1. modal.attachmentSize \in Int
    BY <1>2 DEF Modals
  <2>. QED  BY <1>4, <1>6, <1>7, <1>9, <2>1 DEF DisableSave
<1>11. attachmentsTotal' = attachmentsTotal - SizeOf(field) + modal.previous
  BY <1>6, <1>8
<1>12. attachmentsTotal' \in Int
  BY <1>2, <1>9, <1>11 DEF CalmInv, PageInv, Modals
<1>13. PICK edit \in Edits :
         /\ EditOf(name, field, 1) = EditBody(edit)
         /\ edit \in FieldEdits /\ edit # None
         /\ edit.name = name /\ edit.field = field
  BY <1>5, EditOfIs
<1>14. Send("modal", EditBody(edit))
  BY <1>6, <1>8, <1>13
<1>. QED  BY <1>1, <1>2, <1>3, <1>4, <1>5, <1>8, <1>9, <1>10, <1>11, <1>12,
             <1>13, <1>14

LEMMA CalmSaveField ==
  ASSUME CalmInv, MadeInv, "overlap" \notin lapses', SaveField
  PROVE  CalmInv'
<1>1. /\ myform # None /\ UNCHANGED <<myform, settingVars>>
      /\ modal' \in Modals /\ modal' # None /\ modal'.saveInProgress
      /\ attachmentsTotal' \in Int
      /\ \E edit \in FieldEdits : Send("modal", EditBody(edit))
  BY FieldSaved
<1>2. PICK edit \in FieldEdits : Send("modal", EditBody(edit))
  BY <1>1
<1>3. Plain(EditBody(edit))
  BY DEF Plain, EditBody
<1>4. waiting = {} /\ \E r \in Requests : Sends(r, "modal", EditBody(edit))
  BY <1>2, SendAlone
<1>5. /\ myform' \in Form /\ myform'.settings = myform.settings
      /\ tempForm' = tempForm /\ activating' = activating
  BY <1>1, OpenSettings DEF PageOpen, settingVars
<1>6. "modal" \in Purposes
  BY DEF Purposes
<1>. QED  BY <1>1, <1>3, <1>4, <1>5, <1>6, CalmPlain

(* The whole array of the rules, or of the collaborators.                  *)
LEMMA ArraySent ==
  ASSUME CalmInv,
         \/ \E rules \in SUBSET Rules : SaveLogic(rules)
         \/ \E user \in Collaborators, permission \in Permissions :
               SaveCollaborator(user, permission)
  PROVE  /\ IsFree
         /\ UNCHANGED <<fieldVars, settingVars>>
         /\ myform' \in Form /\ myform'.settings = myform.settings
         /\ FieldsOf(myform') = FieldsOf(myform)
         /\ \E purpose \in {"logic", "collaborators"} : \E body :
               /\ Plain(body) /\ body.editFormField = None
               /\ Send(purpose, body)
<1>1. IsFree /\ UNCHANGED <<fieldVars, settingVars>> /\ myform \in Form
  <2>1. IsFree
    BY DEF SaveLogic, SaveCollaborator
  <2>. QED  BY <2>1, OpenSettings DEF IsFree, PageOpen, SaveLogic, SaveCollaborator
<1>2. PICK m \in Form : m = myform
  BY <1>1
<1>3. ASSUME NEW rules \in SUBSET Rules, SaveLogic(rules)
      PROVE  /\ myform' \in Form /\ myform'.settings = myform.settings
             /\ FieldsOf(myform') = FieldsOf(myform)
             /\ \E purpose \in {"logic", "collaborators"} : \E body :
                   /\ Plain(body) /\ body.editFormField = None
                   /\ Send(purpose, body)
  <2>1. PICK body : body = Body(None, rules, None, <<>>)
    OBVIOUS
  <2>2. Plain(body) /\ body.editFormField = None
    BY <2>1 DEF Plain, Body
  <2>3. Send("logic", body)
    BY <1>3, <2>1, OtherBodies DEF SaveLogic
  <2>4. myform' = [m EXCEPT !.lists.form_logics = rules]
    BY <1>2, <1>3 DEF SaveLogic
  <2>5. /\ [m EXCEPT !.lists.form_logics = rules] \in Form
        /\ [m EXCEPT !.lists.form_logics = rules].settings = m.settings
        /\ [m EXCEPT !.lists.form_logics = rules].lists
              = [m.lists EXCEPT !.form_logics = rules]
    <3>1. [m.lists EXCEPT !.form_logics = rules] \in Lists
      BY FormTyped DEF Lists
    <3>2. PICK l \in Lists : l = [m.lists EXCEPT !.form_logics = rules]
      BY <3>1
    <3>3. [m EXCEPT !.lists.form_logics = rules] = [m EXCEPT !.lists = l]
      BY <3>2
    <3>4. /\ [m EXCEPT !.lists = l] \in Form
          /\ [m EXCEPT !.lists = l].settings = m.settings
          /\ [m EXCEPT !.lists = l].lists = l
      BY DEF Form
    <3>. QED  BY <3>2, <3>3, <3>4
  <2>6. [m.lists EXCEPT !.form_logics = rules].form_fields = m.lists.form_fields
    BY FormTyped DEF Lists
  <2>. QED  BY <1>2, <2>2, <2>3, <2>4, <2>5, <2>6 DEF FieldsOf
<1>4. ASSUME NEW user \in Collaborators, NEW permission \in Permissions,
             SaveCollaborator(user, permission)
      PROVE  /\ myform' = myform
             /\ \E purpose \in {"logic", "collaborators"} : \E body :
                   /\ Plain(body) /\ body.editFormField = None
                   /\ Send(purpose, body)
  <2>1. PICK permissions :
           permissions = [m.lists.permissionList EXCEPT ![user] = permission]
    OBVIOUS
  <2>2. permissions \in [Users -> Permissions]
    BY <2>1, FormTyped
  <2>3. PICK body : body = Body(None, None, permissions, <<>>)
    OBVIOUS
  <2>4. Plain(body) /\ body.editFormField = None
    BY <2>2, <2>3 DEF Plain, Body
  <2>5. Send("collaborators", body) /\ myform' = myform
    BY <1>2, <1>4, <2>1, <2>3, OtherBodies DEF SaveCollaborator
  <2>. QED  BY <2>4, <2>5
<1>. QED  BY <1>1, <1>3, <1>4

LEMMA CalmArray ==
  ASSUME CalmInv, MadeInv, "overlap" \notin lapses',
         \/ \E rules \in SUBSET Rules : SaveLogic(rules)
         \/ \E user \in Collaborators, permission \in Permissions :
               SaveCollaborator(user, permission)
  PROVE  CalmInv'
<1>1. /\ IsFree /\ UNCHANGED <<fieldVars, settingVars>>
      /\ myform' \in Form /\ myform'.settings = myform.settings
  BY ArraySent
<1>2. PICK purpose \in {"logic", "collaborators"} :
         \E body : Plain(body) /\ Send(purpose, body)
  BY ArraySent
<1>6. PICK body : Plain(body) /\ Send(purpose, body)
  BY <1>2
<1>3. waiting = {} /\ \E r \in Requests : Sends(r, purpose, body)
  BY <1>6, SendAlone
<1>4. /\ myform # None /\ modal' = None /\ tempForm' = tempForm
      /\ activating' = activating /\ attachmentsTotal' \in Int
  BY <1>1 DEF IsFree, fieldVars, settingVars, CalmInv, PageInv
<1>5. purpose \in Purposes /\ purpose # "modal"
  BY DEF Purposes
<1>. QED  BY <1>1, <1>3, <1>4, <1>5, <1>6, CalmPlain

(* One setting is sent, as it is shown.                                    *)
SettingSent(purpose, body) ==
    /\ UNCHANGED <<myform, fieldVars>>
    /\ myform # None /\ ~activating'
    /\ purpose \in SettingNames
    /\ \E shown, settings :
          /\ OneSetting(tempForm, shown, purpose)
          /\ settings = [s \in {t \in SettingNames :
                                   shown[t] # myform.settings[t]} |-> shown[s]]
          /\ body = Body(None, None, None, settings)
          /\ tempForm' = shown
    /\ Send(purpose, body)

LEMMA SettingsSent ==
  ASSUME CalmInv, waiting = {},
         \/ \E setting \in SettingNames :
               \E value \in SettingValues[setting] : ChangeSetting(setting, value)
         \/ ToggleStatus
         \/ ChecksPass
  PROVE  \E purpose, body : SettingSent(purpose, body)
<1>1. myform # None
  BY DEF ChangeSetting, ToggleStatus, ChecksPass, IsFree, CalmInv, PageInv,
         PageClosed
<1>2. PageOpen /\ tempForm = myform.settings
  BY <1>1, OpenSettings
<1>3. PICK old \in Settings : old = tempForm
  BY <1>2 DEF PageOpen
<1>4. ASSUME NEW purpose \in SettingNames, NEW shown,
             OneSetting(old, shown, purpose), SendSettings(purpose, shown),
             ~activating', UNCHANGED <<myform, fieldVars>>
      PROVE  \E p, body : SettingSent(p, body)
  <2>1. PICK settings :
           settings = [s \in {t \in SettingNames :
                                 shown[t] # myform.settings[t]} |-> shown[s]]
    OBVIOUS
  <2>2. PICK body : body = Body(None, None, None, settings)
    OBVIOUS
  <2>3. Send(purpose, body) /\ tempForm' = shown
    BY <1>4, <2>1, <2>2, OtherBodies DEF SendSettings, CurrentSettings
  <2>4. SettingSent(purpose, body)
    BY <1>1, <1>3, <1>4, <2>1, <2>2, <2>3 DEF SettingSent
  <2>. QED  BY <2>4
<1>5. ASSUME NEW setting \in SettingNames, NEW value \in SettingValues[setting],
             ChangeSetting(setting, value)
      PROVE  \E p, body : SettingSent(p, body)
  <2>1. PICK shown : shown = [old EXCEPT ![setting] = value]
    OBVIOUS
  <2>2. shown \in Settings
    BY <2>1, SettingNamesAre DEF Settings, SettingValues
  <2>3. setting \in DOMAIN old /\ shown[setting] = value
    BY <2>1, SettingNamesAre
  <2>4. CanChange(setting, value) /\ old[setting] # value
    BY <1>3, <1>5 DEF ChangeSetting
  <2>5. /\ setting = "esrvcId" => value
        /\ setting = "authType" => old.status # "PUBLIC"
        /\ setting # "status"
    BY <1>2, <1>3, <2>4 DEF CanChange
  <2>6. OneSetting(old, shown, setting)
    BY <2>1, <2>2, <2>3, <2>4, <2>5 DEF OneSetting
  <2>7. /\ SendSettings(setting, shown) /\ ~activating'
        /\ UNCHANGED <<myform, fieldVars>>
    BY <1>3, <1>5, <2>1 DEF ChangeSetting, IsFree
  <2>. QED  BY <1>4, <2>6, <2>7
<1>6. CASE ToggleStatus \/ ChecksPass
  <2>1. /\ UpdateFormStatusAndSave /\ ~activating'
        /\ LoginReady(old) \/ old.status # "PRIVATE"
    <3>1. CASE ToggleStatus
      BY <1>2, <1>3, <3>1
         DEF ToggleStatus, CanToggle, LoginReady, IsFree
    <3>2. CASE ChecksPass
      BY <1>2, <1>3, <3>2 DEF ChecksPass, PageOpen
    <3>. QED  BY <1>6, <3>1, <3>2
  <2>2. PICK status \in {"PRIVATE", "PUBLIC"} :
           status = IF old.status = "PRIVATE" THEN "PUBLIC" ELSE "PRIVATE"
    OBVIOUS
  <2>3. PICK shown : shown = [old EXCEPT !.status = status]
    OBVIOUS
  <2>4. shown \in Settings /\ "status" \in DOMAIN old /\ shown.status = status
    BY <2>2, <2>3 DEF Settings, SettingValues
  <2>5. old.status # status
    BY <2>2
  <2>6. "status" \in SettingNames
    BY SettingNamesAre
  <2>7. OneSetting(old, shown, "status")
    BY <2>1, <2>2, <2>3, <2>4, <2>5, <2>6 DEF OneSetting
  <2>8. SendSettings("status", shown) /\ UNCHANGED <<myform, fieldVars>>
    BY <1>3, <2>1, <2>2, <2>3 DEF UpdateFormStatusAndSave
  <2>. QED  BY <1>4, <2>1, <2>6, <2>7, <2>8
<1>. QED  BY <1>5, <1>6

LEMMA SettingBody ==
  ASSUME CalmInv, waiting = {}, NEW purpose, NEW body,
         SettingSent(purpose, body)
  PROVE  /\ IsSendable(Update(body)) /\ DOMAIN body.settings \subseteq {purpose}
         /\ EditedSettings(myform.settings, body) = tempForm'
         /\ tempForm' \in Settings
<1>1. myform # None
  BY DEF SettingSent
<1>2. PICK shown, settings :
         /\ OneSetting(tempForm, shown, purpose)
         /\ settings = [s \in {t \in SettingNames :
                                  shown[t] # myform.settings[t]} |-> shown[s]]
         /\ body = Body(None, None, None, settings)
         /\ tempForm' = shown
  BY DEF SettingSent
<1>3. PageOpen /\ tempForm = myform.settings
  BY <1>1, OpenSettings
<1>4. PICK old \in Settings : old = tempForm
  BY <1>3 DEF PageOpen
<1>5. /\ OneSetting(old, shown, purpose)
      /\ settings = [s \in {t \in SettingNames : shown[t] # old[t]} |-> shown[s]]
  BY <1>2, <1>3, <1>4
<1>6. /\ IsSendable(Update(Body(None, None, None, settings)))
      /\ DOMAIN settings = {purpose}
      /\ EditedSettings(old, Body(None, None, None, settings)) = shown
  BY <1>5, OneSettingSent
<1>7. /\ IsSendable(Update(body)) /\ DOMAIN body.settings \subseteq {purpose}
      /\ EditedSettings(myform.settings, body) = tempForm'
  BY <1>2, <1>3, <1>4, <1>6 DEF Body
<1>8. tempForm' \in Settings
  BY <1>2 DEF OneSetting
<1>. QED  BY <1>7, <1>8

LEMMA CalmSettings ==
  ASSUME CalmInv, MadeInv, waiting = {}, "overlap" \notin lapses',
         NEW purpose, NEW body, SettingSent(purpose, body)
  PROVE  CalmInv'
<1>1. /\ UNCHANGED <<myform, fieldVars>>
      /\ myform # None /\ ~activating' /\ purpose \in SettingNames
      /\ Send(purpose, body)
  BY DEF SettingSent
<1>2. PageOpen
  BY <1>1, OpenSettings
<1>3. \E r \in Requests : Sends(r, purpose, body)
  BY <1>1, SendAlone
<1>4. /\ attachmentsTotal' \in Int
      /\ modal' = None \/ modal' \in Modals
      /\ myform' \in Form /\ myform'.settings = myform.settings
  BY <1>1, <1>2 DEF fieldVars, CalmInv, PageInv, PageOpen
<1>5. purpose # "modal"
  BY <1>1, SettingNamesAre
<1>. QED  BY <1>1, <1>3, <1>4, <1>5, SettingBody, CalmSends
LEMMA CalmStep ==
  ASSUME CalmInv, MadeInv, BuilderNext, lapses' \subseteq {"failure"}
  PROVE  CalmInv'
<1>1. "overlap" \notin lapses' /\ "unnoticed" \notin lapses'
  OBVIOUS
<1>2. CASE ViewForm
  BY <1>2, CalmView
<1>3. CASE \/ \E type \in {"text", "attachment", "myInfo"} : AddNewField(type)
           \/ \E field \in PageFields : OpenEditModal(field)
  BY <1>3, CalmOpens
<1>4. CASE CancelField \/ OpenActivateFormModal \/ CloseActivateFormModal
  BY <1>4, CalmCloses
<1>5. CASE SaveField
  BY <1>1, <1>5, CalmSaveField
<1>6. ASSUME NEW field \in PageFields,
             \/ DeleteField(field) \/ DuplicateField(field)
             \/ DuplicateLogicField(field)
             \/ \E position \in Positions : ReorderField(field, position)
      PROVE  CalmInv'
  BY <1>1, <1>6, FieldsSent, CalmField
<1>7. CASE \/ \E rules \in SUBSET Rules : SaveLogic(rules)
           \/ \E user \in Collaborators, permission \in Permissions :
                 SaveCollaborator(user, permission)
  BY <1>1, <1>7, CalmArray
<1>8. CASE \/ \E setting \in SettingNames :
                 \E value \in SettingValues[setting] : ChangeSetting(setting, value)
           \/ ToggleStatus
           \/ ChecksPass
  <2>1. waiting = {}
    BY <1>1, <1>8, SendAlone
       DEF ChangeSetting, ToggleStatus, ChecksPass, UpdateFormStatusAndSave,
           SendSettings
  <2>. QED  BY <1>1, <1>8, <2>1, SettingsSent, CalmSettings
<1>9. ASSUME NEW r \in Requests, ReceiveSuccess(r) \/ ReceiveFailure(r)
      PROVE  CalmInv'
  BY <1>9, CalmSucceeds, CalmFails
<1>10. CASE LeavePage
  BY <1>10, CalmLeaves
<1>11. CASE HandleForPage
  BY <1>1, <1>11, CalmHandles DEF HandleForPage
<1>. QED  BY <1>2, <1>3, <1>4, <1>5, <1>6, <1>7, <1>8, <1>9, <1>10, <1>11
          DEF BuilderNext

(* The kinds of steps.                                                     *)
LEMMA StepKinds ==
  ASSUME BuilderNext
  PROVE  \/ \E purpose, body : Send(purpose, body)
         \/ UNCHANGED <<vars, made, waiting, lapses>>
         \/ \E r \in Requests : ReceiveSuccess(r) \/ ReceiveFailure(r)
         \/ LeavePage
         \/ HandleForPage
<1>1. CASE \/ SaveField \/ \E field \in PageFields :
                \/ DeleteField(field) \/ DuplicateField(field)
                \/ DuplicateLogicField(field)
                \/ \E i \in Positions : ReorderField(field, i)
  BY <1>1 DEF SaveField, DeleteField, DuplicateField, DuplicateLogicField,
              ReorderField
<1>2. CASE \/ \E rules \in SUBSET Rules : SaveLogic(rules)
           \/ \E user \in Collaborators, permission \in Permissions :
                 SaveCollaborator(user, permission)
           \/ \E setting \in SettingNames :
                 \E value \in SettingValues[setting] : ChangeSetting(setting, value)
           \/ ToggleStatus
           \/ ChecksPass
  BY <1>2 DEF SaveLogic, SaveCollaborator, ChangeSetting, ToggleStatus,
              ChecksPass, UpdateFormStatusAndSave, SendSettings
<1>3. CASE \/ ViewForm \/ CancelField \/ OpenActivateFormModal
           \/ CloseActivateFormModal
           \/ \E type \in {"text", "attachment", "myInfo"} : AddNewField(type)
           \/ \E field \in PageFields : OpenEditModal(field)
  BY <1>3 DEF ViewForm, CancelField, OpenActivateFormModal,
              CloseActivateFormModal, AddNewField, OpenEditModal
<1>. QED  BY <1>1, <1>2, <1>3 DEF BuilderNext

LEMMA LapsesStay ==
  ASSUME BuilderNext
  PROVE  lapses \subseteq lapses'
BY StepKinds DEF Send, ReceiveSuccess, ReceiveFailure, LeavePage, HandleForPage

-----------------------------------------------------------------------------
(* A save changes the setting that was changed *)

(* The database changes only where a handler saves.                        *)
LEMMA OnlyHandlersWrite ==
  ASSUME BuilderNext, forms' # forms
  PROVE  HandleForPage
BY StepKinds DEF Send, Post, ReceiveSuccess, ReceiveFailure, LeavePage, vars

(* The formula of SettingsOnPurpose.                                       *)
SettingsOnPurposeStep ==
    \A s \in SettingNames :
       (/\ forms'[theForm].settings[s] # forms[theForm].settings[s]
        /\ lapses \subseteq {"failure"})
           => \E r \in Requests :
                 /\ stage[r] = "saving" /\ stage'[r] = "done"
                 /\ made[r] = s

LEMMA SettingChanged ==
  ASSUME CalmInv, NEW r \in Requests, stage[r] = "saving", Write(r),
         NEW s \in SettingNames,
         forms'[theForm].settings[s] # forms[theForm].settings[s]
  PROVE  made[r] = s
<1>1. /\ SavedAt(r) = theForm
      /\ seen[r] \in Form
      /\ copy[r] = Edited(seen[r], request[r].body, r)
      /\ ~Inapplicable(seen[r].lists, request[r].body)
      /\ IsUpdate(request[r].body)
      /\ Database' = Written(r)
  BY PageSaved
<1>2. copy[r].settings = EditedSettings(seen[r].settings, request[r].body)
  <2>1. PICK form \in Form : form = seen[r]
    BY <1>1
  <2>2. PICK body : body = request[r].body
    OBVIOUS
  <2>3. IsUpdate(body) /\ ~Inapplicable(form.lists, body)
    BY <1>1, <2>1, <2>2
  <2>4. Edited(form, body, r).settings = EditedSettings(form.settings, body)
    BY <2>3, FormEdited
  <2>. QED  BY <1>1, <2>1, <2>2, <2>4
<1>3. Written(r).settings[s]
        = Merged(seen[r].settings[s], copy[r].settings[s], Database.settings[s])
  <2>1. seen[r] # None
    BY <1>1, DocumentAssumption
  <2>2. s \in {"status", "hasCaptcha", "authType", "esrvcId", "webhook"}
    BY SettingNamesAre
  <2>3. forms[SavedAt(r)] = Database
    BY <1>1 DEF Database
  <2>. QED  BY <2>1, <2>2, <2>3 DEF Written
<1>4. copy[r].settings[s] # seen[r].settings[s]
  BY <1>1, <1>3 DEF Merged, Database
<1>5. s \in DOMAIN request[r].body.settings
  <2>1. PICK body : body = request[r].body
    OBVIOUS
  <2>2. PICK old : old = seen[r].settings
    OBVIOUS
  <2>3. EditedSettings(old, body)[s] # old[s]
    BY <1>2, <1>4, <2>1, <2>2
  <2>. QED  BY <2>1, <2>3, SettingsUnlessHeld
<1>6. request[r] # None
  BY DEF CalmInv, HandlerInv, Handling
<1>. QED  BY <1>5, <1>6 DEF CalmInv, OwnRequest

LEMMA BuilderOnPurpose ==
  ASSUME BuildInv, [BuilderNext]_builderVars
  PROVE  SettingsOnPurposeStep
<1>1. SUFFICES ASSUME NEW s \in SettingNames,
                      forms'[theForm].settings[s] # forms[theForm].settings[s],
                      lapses \subseteq {"failure"}
               PROVE  \E r \in Requests :
                         /\ stage[r] = "saving" /\ stage'[r] = "done"
                         /\ made[r] = s
  BY DEF SettingsOnPurposeStep
<1>2. CalmInv /\ forms' # forms
  BY <1>1 DEF BuildInv
<1>3. BuilderNext
  BY <1>2 DEF builderVars, vars
<1>4. PICK r \in Requests : Handle(r)
  BY <1>2, <1>3, OnlyHandlersWrite DEF HandleForPage
<1>5. HandlerInv
  BY <1>2 DEF CalmInv
<1>6. PICK status : /\ Ending(r, status)
                    /\ stage[r] = "saving" /\ Write(r)
  BY <1>2, <1>4, <1>5, FormsChange
<1>7. stage'[r] = "done"
  BY <1>5, <1>6, HandlerEnds
<1>8. made[r] = s
  BY <1>1, <1>2, <1>6, SettingChanged
<1>. QED  BY <1>6, <1>7, <1>8
-----------------------------------------------------------------------------
(* The steps of the page, and the fields *)

FieldsCalm == CalmInv /\ FieldsInv

LEMMA PageForm ==
  ASSUME FieldsCalm, myform # None
  PROVE  /\ myform \in Form /\ Database \in Form
         /\ FieldsOf(myform) \in Seq(FormField)
         /\ \A i \in DOMAIN FieldsOf(myform) :
               /\ FieldsOf(myform)[i] \in FormField
               /\ FieldsOf(myform)[i].globalId # None
         /\ FieldsOpen
<1>1. myform \in Form /\ Database \in Form /\ FieldsOpen
  BY OpenSettings DEF FieldsCalm, CalmInv, FieldsInv, PageOpen
<1>2. FieldsOf(myform) \in Seq(FormField)
  BY <1>1, SizeOfForm
<1>3. ASSUME NEW i \in DOMAIN FieldsOf(myform)
      PROVE  /\ FieldsOf(myform)[i] \in FormField
             /\ FieldsOf(myform)[i].globalId # None
  <2>1. FieldsOf(myform)[i] \in FormField
    BY <1>2
  <2>. QED  BY <2>1, FormFieldShape DEF FieldShape
<1>. QED  BY <1>1, <1>2, <1>3

(* A modal is opened or closed over the fields.                            *)
LEMMA FieldsKept ==
  ASSUME FieldsCalm, UNCHANGED <<vars, made, myform, attachmentsTotal, waiting>>,
         myform # None,
         modal' = None \/ ~modal'.saveInProgress
            => modal = None \/ ~modal.saveInProgress,
         modal' # None /\ ~modal'.saveInProgress
            => /\ ModalCounts'
               /\ \A l : Foreseen(l) =>
                     \A i \in DOMAIN l : l[i].globalId = modal'.field.globalId
                                            => SizeOf(l[i]) = modal'.previous
  PROVE  FieldsInv'
<1>1. /\ Database' = Database /\ UNCHANGED <<stage, reply, request, copy>>
      /\ FieldsOf(myform)' = FieldsOf(myform)
      /\ FieldsOf(Database)' = FieldsOf(Database)
  BY DEF Database, vars, handlerVars, FieldsOf
<1>2. ASSUME NEW l, Foreseen(l)
      PROVE  Foreseen(l)'
  BY <1>1, <1>2 DEF Foreseen
<1>3. FieldsOpen
  BY DEF FieldsCalm, FieldsInv
<1>4. ASSUME NEW r \in waiting'
      PROVE  FieldsPending(r)'
  <2>1. FieldsPending(r)
    BY <1>3 DEF FieldsOpen
  <2>2. PICK l : l = NextFields(FieldsOf(myform), request[r].body, r)
    OBVIOUS
  <2>3. l = NextFields(FieldsOf(myform), request[r].body, r)'
    BY <1>1, <2>2
  <2>4. ~Inapplicable(myform.lists, request[r].body)' => Foreseen(l)'
    BY <1>1, <1>2, <2>1, <2>2 DEF FieldsPending
  <2>. QED  BY <1>1, <2>1, <2>2, <2>3, <2>4 DEF FieldsPending, Succeeded
<1>5. ASSUME waiting' = {}
      PROVE  myform'.lists = Database'.lists /\ Foreseen(FieldsOf(myform))'
  <2>1. PICK l : l = FieldsOf(myform)
    OBVIOUS
  <2>2. myform.lists = Database.lists /\ Foreseen(l)
    BY <1>3, <1>5, <2>1 DEF FieldsOpen
  <2>3. Foreseen(l)'
    BY <1>2, <2>2
  <2>4. l = FieldsOf(myform)'
    BY <1>1, <2>1
  <2>. QED  BY <1>1, <2>2, <2>3, <2>4
<1>6. FieldsOpen'
  BY <1>3, <1>4, <1>5 DEF FieldsOpen
<1>7. StoredFields'
  BY <1>1 DEF FieldsCalm, FieldsInv, StoredFields
<1>8. \A r \in Requests \ waiting' : stage'[r] \in {"unsent", "done"}
  BY <1>1 DEF FieldsCalm, FieldsInv
<1>. QED  BY <1>6, <1>7, <1>8 DEF FieldsInv

LEMMA SameSizesSelf ==
  ASSUME NEW l, Distinct(l)
  PROVE  SameSizes(l, l)
BY DEF Distinct, SameSizes

LEMMA FieldsViewed ==
  ASSUME FieldsCalm, ViewForm
  PROVE  FieldsInv'
<1>1. /\ myform = None /\ waiting = {} /\ modal = None
  BY DEF ViewForm, FieldsCalm, CalmInv, PageInv, PageClosed
<1>2. /\ myform' = Database
      /\ attachmentsTotal' = attachmentsMax - AttachmentsSize(Database)
      /\ modal' = None /\ waiting' = {}
      /\ UNCHANGED vars
  BY <1>1 DEF ViewForm, Database
<1>3. /\ Database \in Form /\ Database' = Database /\ stage' = stage
      /\ FieldsOf(Database)' = FieldsOf(Database)
  BY <1>2 DEF FieldsCalm, CalmInv, Database, vars, handlerVars, FieldsOf
<1>4. PICK l : l = FieldsOf(Database)
  OBVIOUS
<1>5. /\ AttachmentsSize(Database) = TotalSize(l) /\ TotalSize(l) \in Nat
      /\ l \in Seq(FormField)
  BY <1>3, <1>4, SizeOfForm
<1>6. /\ Distinct(l) /\ TotalSize(l) <= attachmentsMax
      /\ \A i \in DOMAIN l, q \in Requests : l[i].globalId = q => stage[q] = "done"
  BY <1>4 DEF FieldsCalm, FieldsInv, StoredFields
<1>7. /\ attachmentsTotal' \in Nat
      /\ TotalSize(l) = attachmentsMax - attachmentsTotal'
  BY <1>2, <1>5, <1>6, BuilderAssumption
<1>8. l = FieldsOf(myform)'
  BY <1>2, <1>4 DEF FieldsOf
<1>9. Foreseen(l)'
  BY <1>2, <1>3, <1>5, <1>6, <1>7, <1>8, SameSizesSelf DEF Foreseen
<1>10. FieldsOpen'
  BY <1>2, <1>3, <1>7, <1>8, <1>9 DEF FieldsOpen
<1>11. StoredFields'
  BY <1>3 DEF FieldsCalm, FieldsInv, StoredFields
<1>12. \A r \in Requests \ waiting' : stage'[r] \in {"unsent", "done"}
  BY <1>1, <1>2, <1>3 DEF FieldsCalm, FieldsInv
<1>. QED  BY <1>10, <1>11, <1>12 DEF FieldsInv

LEMMA FieldsOpened ==
  ASSUME FieldsCalm,
         \/ \E type \in {"text", "attachment", "myInfo"} : AddNewField(type)
         \/ \E field \in PageFields : OpenEditModal(field)
  PROVE  FieldsInv'
<1>1. /\ UNCHANGED <<vars, made, myform, attachmentsTotal, waiting>>
      /\ myform # None /\ modal = None
  BY DEF AddNewField, OpenEditModal, IsFree
<1>2. PICK field \in Field :
         /\ OpenModal(field)
         /\ \/ field.globalId = None
            \/ /\ SizeOf(field) \in Nat
               /\ \E i \in DOMAIN FieldsOf(myform) : FieldsOf(myform)[i] = field
  <2>1. ASSUME NEW type \in {"text", "attachment", "myInfo"}, AddNewField(type)
        PROVE  OpenModal(NewField(type))
    BY <2>1 DEF AddNewField, NewField
  <2>2. ASSUME NEW f \in PageFields, OpenEditModal(f)
        PROVE  /\ OpenModal(f) /\ f \in Field /\ SizeOf(f) \in Nat
               /\ \E i \in DOMAIN FieldsOf(myform) : FieldsOf(myform)[i] = f
    BY <1>1, <2>2, FieldOfPage DEF OpenEditModal, FieldShape, FieldsCalm
  <2>. QED  BY <2>1, <2>2, NewFieldShape
<1>3. /\ modal' # None
      /\ modal'.field = field
      /\ ~modal'.saveInProgress
      /\ modal'.attachmentSize = attachmentsTotal + modal'.previous
      /\ modal'.previous = IF field.globalId = None THEN 0 ELSE SizeOf(field)
  BY <1>1, <1>2, ModalOpened DEF FieldsCalm
<1>4. ModalCounts'
  BY <1>1, <1>3 DEF ModalCounts
<1>5. ASSUME NEW l, Foreseen(l), NEW i \in DOMAIN l,
             l[i].globalId = modal'.field.globalId
      PROVE  SizeOf(l[i]) = modal'.previous
  <2>1. l[i].globalId # None
    <3>1. l[i] \in FormField
      BY <1>5 DEF Foreseen
    <3>. QED  BY <3>1, FormFieldShape DEF FieldShape
  <2>2. SameSizes(l, FieldsOf(myform))
    BY <1>1, <1>5 DEF Foreseen
  <2>3. field.globalId # None
    BY <1>3, <1>5, <2>1
  <2>4. PICK j \in DOMAIN FieldsOf(myform) : FieldsOf(myform)[j] = field
    BY <1>2, <2>3
  <2>5. SizeOf(field) = SizeOf(l[i])
    BY <1>3, <1>5, <2>2, <2>4 DEF SameSizes
  <2>. QED  BY <1>3, <2>3, <2>5
<1>. QED  BY <1>1, <1>3, <1>4, <1>5, FieldsKept

LEMMA FieldsClosed ==
  ASSUME FieldsCalm,
         CancelField \/ OpenActivateFormModal \/ CloseActivateFormModal
  PROVE  FieldsInv'
<1>1. /\ UNCHANGED <<vars, made, myform, attachmentsTotal, waiting>>
      /\ \/ modal' = modal
         \/ modal' = None /\ modal # None /\ ~modal.saveInProgress
  BY DEF CancelField, OpenActivateFormModal, CloseActivateFormModal, fieldVars
<1>2. myform # None
  BY DEF FieldsCalm, CalmInv, PageInv, PageClosed, CancelField,
         OpenActivateFormModal, CloseActivateFormModal, IsFree
<1>3. modal # None /\ ~modal.saveInProgress => ModalCounts
  BY <1>2 DEF FieldsCalm, FieldsInv, FieldsOpen
<1>4. ASSUME modal' # None, ~modal'.saveInProgress
      PROVE  /\ ModalCounts'
             /\ \A l : Foreseen(l) =>
                   \A i \in DOMAIN l : l[i].globalId = modal'.field.globalId
                                          => SizeOf(l[i]) = modal'.previous
  <2>1. modal' = modal /\ attachmentsTotal' = attachmentsTotal
    BY <1>1, <1>4
  <2>2. ModalCounts'
    BY <1>3, <1>4, <2>1 DEF ModalCounts
  <2>3. ASSUME NEW l, Foreseen(l)
        PROVE  \A i \in DOMAIN l : l[i].globalId = modal.field.globalId
                                      => SizeOf(l[i]) = modal.previous
    BY <1>4, <2>1, <2>3 DEF Foreseen
  <2>. QED  BY <2>1, <2>2, <2>3
<1>. QED  BY <1>1, <1>2, <1>4, FieldsKept

LEMMA FieldsSucceed ==
  ASSUME FieldsCalm, NEW r \in Requests, ReceiveSuccess(r)
  PROVE  FieldsInv'
<1>1. r \in waiting /\ reply[r] = "OK" /\ CalmInv
  BY DEF ReceiveSuccess, FieldsCalm
<1>2. /\ waiting = {r} /\ Succeeded(r) /\ SettingsPending(r) /\ myform # None
  BY <1>1, WaitingFor
<1>3. /\ waiting' = {} /\ myform' = copy[r]
      /\ UNCHANGED <<vars, attachmentsTotal>>
      /\ modal' = IF made[r] = "modal" THEN None ELSE modal
  BY <1>2 DEF ReceiveSuccess
<1>4. /\ Database' = Database /\ stage' = stage
      /\ FieldsOf(Database)' = FieldsOf(Database)
  BY <1>3 DEF Database, vars, handlerVars, FieldsOf
<1>5. FieldsOpen /\ FieldsPending(r)
  BY <1>2 DEF FieldsCalm, FieldsInv, FieldsOpen
<1>6. PICK l : l = NextFields(FieldsOf(myform), request[r].body, r)
  OBVIOUS
<1>7. Foreseen(l) /\ FieldsOf(Database) = l /\ copy[r].lists = Database.lists
  BY <1>2, <1>5, <1>6 DEF FieldsPending
<1>8. l = FieldsOf(myform)'
  BY <1>3, <1>7 DEF FieldsOf
<1>9. \A i \in DOMAIN l, p \in Requests :
         l[i].globalId = p => stage'[p] = "done" \/ p \in waiting'
  BY <1>2, <1>4, <1>7 DEF Foreseen, Succeeded
<1>10. modal' # None /\ ~modal'.saveInProgress
          => modal' = modal /\ modal # None /\ ~modal.saveInProgress
  BY <1>3
<1>11. Foreseen(l)'
  <2>1. SameSizes(l, l)
    BY <1>7, SameSizesSelf DEF Foreseen
  <2>2. modal' # None /\ ~modal'.saveInProgress
           => \A i \in DOMAIN l : l[i].globalId = modal'.field.globalId
                                     => SizeOf(l[i]) = modal'.previous
    BY <1>7, <1>10 DEF Foreseen
  <2>3. /\ l \in Seq(FormField) /\ Distinct(l)
        /\ TotalSize(l) = attachmentsMax - attachmentsTotal'
    BY <1>3, <1>7 DEF Foreseen
  <2>. QED  BY <1>8, <1>9, <2>1, <2>2, <2>3 DEF Foreseen
<1>12. modal' # None /\ ~modal'.saveInProgress => ModalCounts'
  BY <1>3, <1>5, <1>10 DEF FieldsOpen, ModalCounts
<1>13. FieldsOpen'
  BY <1>3, <1>4, <1>5, <1>7, <1>8, <1>11, <1>12 DEF FieldsOpen
<1>14. StoredFields'
  BY <1>4 DEF FieldsCalm, FieldsInv, StoredFields
<1>15. \A q \in Requests \ waiting' : stage'[q] \in {"unsent", "done"}
  BY <1>2, <1>3, <1>4 DEF FieldsCalm, FieldsInv, Succeeded
<1>. QED  BY <1>13, <1>14, <1>15 DEF FieldsInv

LEMMA FieldsLeft ==
  ASSUME FieldsCalm, LeavePage, "overlap" \notin lapses'
  PROVE  FieldsInv'
<1>1. UNCHANGED vars /\ myform' = None /\ waiting' = {} /\ waiting = {}
  BY DEF LeavePage
<1>2. /\ Database' = Database /\ stage' = stage
      /\ FieldsOf(Database)' = FieldsOf(Database)
  BY <1>1 DEF Database, vars, handlerVars, FieldsOf
<1>3. StoredFields'
  BY <1>2 DEF FieldsCalm, FieldsInv, StoredFields
<1>4. \A q \in Requests \ waiting' : stage'[q] \in {"unsent", "done"}
  BY <1>1, <1>2 DEF FieldsCalm, FieldsInv
<1>. QED  BY <1>1, <1>3, <1>4 DEF FieldsInv
-----------------------------------------------------------------------------
(* What the page sends, and the fields *)

LEMMA FieldsSend ==
  ASSUME FieldsCalm, MadeInv, NEW r \in Requests, NEW purpose, NEW body,
         Sends(r, purpose, body), IsSendable(Update(body)),
         waiting = {}, myform # None,
         myform' \in Form, FieldsOf(myform') = FieldsOf(myform),
         attachmentsTotal' \in Nat, NEW m, m = FieldsOf(myform),
         NEW l, l = NextFields(m, body, r),
         modal' # None /\ ~modal'.saveInProgress => ModalCounts',
         Inapplicable(myform'.lists, body)
            \/ (/\ Leaves(l, m, r, attachmentsTotal - attachmentsTotal')
                /\ (modal' = None \/ ~modal'.saveInProgress) => SameSizes(l, m)
                /\ (modal' # None /\ ~modal'.saveInProgress)
                      => \A i \in DOMAIN l :
                            l[i].globalId = modal'.field.globalId
                               => SizeOf(l[i]) = modal'.previous)
  PROVE  FieldsInv'
<1>1. /\ forms' = forms /\ request'[r] = Update(body)
      /\ stage'[r] = "sent" /\ stage[r] = "unsent"
      /\ \A q \in Requests \ {r} : stage'[q] = stage[q]
      /\ Database' = Database
  BY Sending DEF FieldsCalm
<1>2. waiting' = {r} /\ request'[r].body = body
  BY <1>1 DEF Sends, Update
<1>3. FieldsOpen /\ Foreseen(m) /\ myform.lists = Database.lists
  BY DEF FieldsCalm, FieldsInv, FieldsOpen
<1>4. /\ FieldsOf(Database)' = FieldsOf(Database)
      /\ FieldsOf(myform)' = m /\ FieldsOf(Database) = m
  BY <1>1, <1>3 DEF FieldsOf
<1>5. \A q \in Requests : stage[q] = "done" => stage'[q] = "done"
  BY <1>1
<1>6. \A q \in Requests \ waiting' : stage'[q] \in {"unsent", "done"}
  BY <1>1, <1>2 DEF FieldsCalm, FieldsInv
<1>7. StoredFields'
  BY <1>4, <1>5 DEF FieldsCalm, FieldsInv, StoredFields
<1>8. ASSUME ~Inapplicable(myform'.lists, body)
      PROVE  Foreseen(l)'
  <2>1. /\ Leaves(l, m, r, attachmentsTotal - attachmentsTotal')
        /\ (modal' = None \/ ~modal'.saveInProgress) => SameSizes(l, m)
        /\ (modal' # None /\ ~modal'.saveInProgress)
              => \A i \in DOMAIN l : l[i].globalId = modal'.field.globalId
                                        => SizeOf(l[i]) = modal'.previous
    BY <1>8
  <2>2. ASSUME NEW i \in DOMAIN l, NEW p \in Requests, l[i].globalId = p
        PROVE  stage'[p] = "done" \/ p \in waiting'
    <3>1. CASE p = r
      BY <1>2, <3>1
    <3>2. CASE p # r
      <4>1. PICK j \in DOMAIN m : m[j].globalId = p
        BY <2>1, <2>2, <3>2 DEF Leaves, NamesIn
      <4>2. stage[p] = "done"
        BY <1>3, <4>1 DEF Foreseen
      <4>. QED  BY <1>5, <4>2
    <3>. QED  BY <3>1, <3>2
  <2>3. TotalSize(l) = attachmentsMax - attachmentsTotal'
    <3>1. TotalSize(m) = attachmentsMax - attachmentsTotal
      BY <1>3 DEF Foreseen
    <3>2. TotalSize(l) = TotalSize(m) + (attachmentsTotal - attachmentsTotal')
      BY <2>1 DEF Leaves
    <3>3. attachmentsTotal \in Nat
      BY <1>3 DEF FieldsOpen
    <3>. QED  BY <3>1, <3>2, <3>3, BuilderAssumption
  <2>4. l \in Seq(FormField) /\ Distinct(l)
    BY <2>1 DEF Leaves
  <2>. QED  BY <1>4, <2>1, <2>2, <2>3, <2>4 DEF Foreseen
<1>9. FieldsPending(r)'
  <2>1. ~Succeeded(r)'
    BY <1>1 DEF Succeeded
  <2>2. l = NextFields(FieldsOf(myform), request[r].body, r)'
    BY <1>2, <1>4
  <2>3. ~Inapplicable(myform.lists, request[r].body)' => Foreseen(l)'
    BY <1>2, <1>8
  <2>. QED  BY <1>4, <2>1, <2>2, <2>3 DEF FieldsPending
<1>10. FieldsOpen'
  BY <1>2, <1>9 DEF FieldsOpen
<1>. QED  BY <1>6, <1>7, <1>10 DEF FieldsInv

(* The fields of a page that waits for nothing.                            *)
LEMMA FieldsIdle ==
  ASSUME FieldsCalm, waiting = {}, myform # None, NEW m, m = FieldsOf(myform)
  PROVE  /\ m \in Seq(FormField) /\ Distinct(m) /\ attachmentsTotal \in Nat
         /\ TotalSize(m) \in Nat
         /\ SameSizes(m, m)
         /\ Foreseen(m)
         /\ \A r \in Requests : /\ stage[r] = "unsent"
                                   => \A i \in DOMAIN m : m[i].globalId # r
                                /\ Leaves(m, m, r, 0)
<1>1. FieldsOpen /\ Foreseen(m)
  BY DEF FieldsCalm, FieldsInv, FieldsOpen
<1>2. m \in Seq(FormField) /\ Distinct(m) /\ attachmentsTotal \in Nat
  BY <1>1 DEF FieldsOpen, Foreseen
<1>3. TotalSize(m) \in Nat
  BY <1>2, SumsExist, SumsAgree
<1>4. ASSUME NEW r \in Requests
      PROVE  /\ stage[r] = "unsent" => \A i \in DOMAIN m : m[i].globalId # r
             /\ Leaves(m, m, r, 0)
  <2>1. stage[r] = "unsent" => \A i \in DOMAIN m : m[i].globalId # r
    BY <1>1 DEF Foreseen
  <2>2. TotalSize(m) = TotalSize(m) + 0
    BY <1>3
  <2>3. NamesIn(m, m, r)
    BY DEF NamesIn
  <2>. QED  BY <1>2, <2>1, <2>2, <2>3 DEF Leaves
<1>. QED  BY <1>1, <1>2, <1>3, <1>4, SameSizesSelf

(* A request that is about no field.                                       *)
LEMMA FieldsUntouched ==
  ASSUME FieldsCalm, MadeInv, NEW r \in Requests, NEW purpose, NEW body,
         Sends(r, purpose, body), IsSendable(Update(body)),
         body.editFormField = None, waiting = {}, myform # None,
         myform' \in Form, FieldsOf(myform') = FieldsOf(myform),
         UNCHANGED <<attachmentsTotal, modal>>
  PROVE  FieldsInv'
<1>1. PICK m : m = FieldsOf(myform)
  OBVIOUS
<1>2. /\ attachmentsTotal \in Nat /\ SameSizes(m, m) /\ Foreseen(m)
      /\ Leaves(m, m, r, 0)
  BY <1>1, FieldsIdle
<1>3. m = NextFields(m, body, r)
  BY DEF NextFields
<1>4. Leaves(m, m, r, attachmentsTotal - attachmentsTotal')
  <2>1. attachmentsTotal - attachmentsTotal' = 0
    BY <1>2
  <2>. QED  BY <1>2, <2>1
<1>5. modal' # None /\ ~modal'.saveInProgress
         => \A i \in DOMAIN m : m[i].globalId = modal'.field.globalId
                                   => SizeOf(m[i]) = modal'.previous
  BY <1>2 DEF Foreseen
<1>6. modal' # None /\ ~modal'.saveInProgress => ModalCounts'
  <2>1. FieldsOpen
    BY DEF FieldsCalm, FieldsInv
  <2>. QED  BY <2>1 DEF FieldsOpen, ModalCounts
<1>. QED  BY <1>1, <1>2, <1>3, <1>4, <1>5, <1>6, FieldsSend

(* A field is edited on the page.                                          *)
LEMMA FieldsEditedOnPage ==
  ASSUME FieldsCalm, MadeInv, "overlap" \notin lapses', NoUncharged',
         NEW field \in PageFields,
         \/ DeleteField(field) \/ DuplicateField(field)
         \/ DuplicateLogicField(field)
         \/ \E position \in Positions : ReorderField(field, position)
  PROVE  FieldsInv'
<1>1. CalmInv
  BY DEF FieldsCalm
<1>2. PICK purpose \in {"field", "uncharged"}, edit \in Edits :
         /\ FieldSent(purpose, EditBody(edit))
         /\ edit \in FieldEdits /\ edit # None
         /\ \/ /\ edit.name = "DELETE" /\ edit.field = field
               /\ attachmentsTotal' = attachmentsTotal + SizeOf(field)
            \/ /\ edit.name = "REORDER" /\ edit.field = field
               /\ attachmentsTotal' = attachmentsTotal
            \/ /\ edit.name = "DUPLICATE" /\ edit.field.globalId = None
               /\ SizeOf(edit.field) = SizeOf(field)
               /\ \/ /\ attachmentsTotal >= SizeOf(field)
                     /\ attachmentsTotal' = attachmentsTotal - SizeOf(field)
                  \/ /\ attachmentsTotal' = attachmentsTotal
                     /\ SizeOf(field) = 0 \/ purpose = "uncharged"
  BY <1>1, FieldsSent
<1>3. PICK body : body = EditBody(edit)
  OBVIOUS
<1>4. /\ Plain(body) /\ Send(purpose, body)
      /\ myform # None /\ modal = None /\ modal' = None /\ myform' = myform
  BY <1>2, <1>3 DEF FieldSent, IsFree
<1>5. waiting = {} /\ \E q \in Requests : Sends(q, purpose, body)
  BY <1>4, SendAlone
<1>6. PICK r \in Requests : Sends(r, purpose, body)
  BY <1>5
<1>7. IsSendable(Update(body))
  <2>1. \E shown : shown \in Settings
    BY <1>1, <1>4, OpenSettings DEF PageOpen
  <2>. QED  BY <1>4, <2>1, PlainBody
<1>8. stage[r] = "unsent" /\ made'[r] = purpose
  BY <1>1, <1>6, <1>7, Sending
<1>9. purpose # "uncharged"
  BY <1>8 DEF NoUncharged
<1>10. PICK m : m = FieldsOf(myform)
  OBVIOUS
<1>11. /\ m \in Seq(FormField) /\ Distinct(m) /\ attachmentsTotal \in Nat
       /\ \A i \in DOMAIN m : m[i].globalId # r
  BY <1>4, <1>5, <1>8, <1>10, FieldsIdle
<1>12. PICK i \in DOMAIN m : m[i] = field
  BY <1>1, <1>4, <1>10, FieldOfPage
<1>13. SizeOf(field) \in Nat
  BY <1>1, <1>4, FieldOfPage DEF FieldShape
<1>14. PICK l : l = EditedFormFields(m, edit, r)
  OBVIOUS
<1>15. l = NextFields(m, body, r)
  BY <1>2, <1>3, <1>14 DEF NextFields, EditBody, Body
<1>16. /\ attachmentsTotal' \in Nat
       /\ Leaves(l, m, r, attachmentsTotal - attachmentsTotal')
       /\ SameSizes(l, m)
  <2>1. CASE /\ edit.name = "DELETE" /\ edit.field = field
             /\ attachmentsTotal' = attachmentsTotal + SizeOf(field)
    <3>1. Leaves(l, m, r, 0 - SizeOf(edit.field)) /\ SameSizes(l, m)
      BY <1>11, <1>12, <1>14, <2>1, FieldDeleted
    <3>2. 0 - SizeOf(edit.field) = attachmentsTotal - attachmentsTotal'
      BY <1>11, <1>13, <2>1
    <3>3. attachmentsTotal' \in Nat
      BY <1>11, <1>13, <2>1
    <3>. QED  BY <3>1, <3>2, <3>3
  <2>2. CASE /\ edit.name = "REORDER" /\ edit.field = field
             /\ attachmentsTotal' = attachmentsTotal
    <3>1. Leaves(l, m, r, 0) /\ SameSizes(l, m)
      BY <1>11, <1>12, <1>14, <2>2, FieldReordered
    <3>2. 0 = attachmentsTotal - attachmentsTotal'
      BY <1>11, <2>2
    <3>. QED  BY <1>11, <2>2, <3>1, <3>2
  <2>3. CASE /\ edit.name = "DUPLICATE" /\ edit.field.globalId = None
             /\ SizeOf(edit.field) = SizeOf(field)
             /\ \/ /\ attachmentsTotal >= SizeOf(field)
                   /\ attachmentsTotal' = attachmentsTotal - SizeOf(field)
                \/ /\ attachmentsTotal' = attachmentsTotal
                   /\ SizeOf(field) = 0 \/ purpose = "uncharged"
    <3>1. Leaves(l, m, r, SizeOf(edit.field)) /\ SameSizes(l, m)
      BY <1>11, <1>14, <2>3, FieldAdded
    <3>2. /\ SizeOf(edit.field) = attachmentsTotal - attachmentsTotal'
          /\ attachmentsTotal' \in Nat
      BY <1>9, <1>11, <1>13, <2>3
    <3>. QED  BY <3>1, <3>2
  <2>. QED  BY <1>2, <2>1, <2>2, <2>3
<1>17. myform' \in Form /\ FieldsOf(myform') = FieldsOf(myform)
  BY <1>4, PageForm
<1>. QED  BY <1>4, <1>5, <1>6, <1>7, <1>10, <1>15, <1>16, <1>17, FieldsSend

(* The modal saves its field.                                              *)
LEMMA FieldsSaved ==
  ASSUME FieldsCalm, MadeInv, "overlap" \notin lapses', SaveField
  PROVE  FieldsInv'
<1>1. CalmInv
  BY DEF FieldsCalm
<1>2. /\ modal \in Modals /\ ~modal.saveInProgress /\ modal # None
      /\ myform # None /\ myform' = myform
      /\ modal' # None /\ modal'.saveInProgress
  BY <1>1, FieldSaved
<1>3. PICK edit \in Edits :
         /\ edit \in FieldEdits /\ edit # None
         /\ edit.name = IF modal.field.globalId = None THEN "CREATE"
                                                       ELSE "UPDATE"
         /\ edit.field.globalId = modal.field.globalId
         /\ SizeOf(edit.field) \in Nat
         /\ SizeOf(edit.field) = 0
               \/ SizeOf(edit.field) <= modal.attachmentSize
         /\ attachmentsTotal'
               = attachmentsTotal - SizeOf(edit.field) + modal.previous
         /\ Send("modal", EditBody(edit))
  BY <1>1, FieldSaved
<1>4. PICK body : body = EditBody(edit)
  OBVIOUS
<1>5. waiting = {} /\ \E q \in Requests : Sends(q, "modal", body)
  BY <1>3, <1>4, SendAlone
<1>6. PICK r \in Requests : Sends(r, "modal", body)
  BY <1>5
<1>7. IsSendable(Update(body))
  <2>1. \E shown : shown \in Settings
    BY <1>1, <1>2, OpenSettings DEF PageOpen
  <2>2. Plain(body)
    BY <1>3, <1>4 DEF Plain, EditBody
  <2>. QED  BY <2>1, <2>2, PlainBody
<1>8. stage[r] = "unsent"
  BY <1>1, <1>6, <1>7, Sending
<1>9. PICK m : m = FieldsOf(myform)
  OBVIOUS
<1>10. /\ m \in Seq(FormField) /\ Distinct(m) /\ attachmentsTotal \in Nat
       /\ Foreseen(m)
       /\ \A i \in DOMAIN m : m[i].globalId # r
  BY <1>2, <1>5, <1>8, <1>9, FieldsIdle
<1>11. PICK size \in Nat : size = modal.previous
  BY <1>2 DEF Modals
<1>12. /\ modal.attachmentSize = attachmentsTotal + size
       /\ modal.field.globalId = None => size = 0
  BY <1>2, <1>11 DEF FieldsCalm, FieldsInv, FieldsOpen, ModalCounts
<1>13. attachmentsTotal' \in Nat
       /\ attachmentsTotal - attachmentsTotal' = SizeOf(edit.field) - size
  BY <1>3, <1>10, <1>11, <1>12
<1>14. PICK l : l = EditedFormFields(m, edit, r)
  OBVIOUS
<1>15. l = NextFields(m, body, r)
  BY <1>3, <1>4, <1>14 DEF NextFields, EditBody, Body
<1>16. Inapplicable(myform'.lists, body)
          \/ Leaves(l, m, r, attachmentsTotal - attachmentsTotal')
  <2>1. CASE modal.field.globalId = None
    <3>1. edit.name \in {"CREATE", "DUPLICATE"} /\ edit.field.globalId = None
      BY <1>3, <2>1
    <3>2. Leaves(l, m, r, SizeOf(edit.field))
      BY <1>10, <1>14, <3>1, FieldAdded
    <3>3. attachmentsTotal - attachmentsTotal' = SizeOf(edit.field)
      BY <1>3, <1>12, <1>13, <2>1
    <3>. QED  BY <3>2, <3>3
  <2>2. CASE modal.field.globalId # None /\ ~Inapplicable(myform'.lists, body)
    <3>1. edit.name = "UPDATE" /\ edit.field.globalId # None
      BY <1>3, <2>2
    <3>2. ~EditError(m, edit)
      BY <1>2, <1>3, <1>4, <1>9, <2>2
         DEF Inapplicable, EditBody, Body, FieldsOf
    <3>3. \A i \in DOMAIN m :
             m[i].globalId = edit.field.globalId => SizeOf(m[i]) = size
      BY <1>2, <1>3, <1>10, <1>11 DEF Foreseen
    <3>4. Leaves(l, m, r, SizeOf(edit.field) - size)
      BY <1>10, <1>14, <3>1, <3>2, <3>3, FieldUpdated
    <3>. QED  BY <1>13, <3>4
  <2>. QED  BY <2>1, <2>2
<1>17. myform' \in Form /\ FieldsOf(myform') = FieldsOf(myform)
  BY <1>2, PageForm
<1>. QED  BY <1>2, <1>5, <1>6, <1>7, <1>9, <1>13, <1>15, <1>16, <1>17,
             FieldsSend

(* The rules, the collaborators and the settings.                          *)
LEMMA OthersSent ==
  ASSUME FieldsCalm, MadeInv, "overlap" \notin lapses',
         \/ \E rules \in SUBSET Rules : SaveLogic(rules)
         \/ \E user \in Collaborators, permission \in Permissions :
               SaveCollaborator(user, permission)
         \/ \E setting \in SettingNames :
               \E value \in SettingValues[setting] : ChangeSetting(setting, value)
         \/ ToggleStatus
         \/ ChecksPass
  PROVE  FieldsInv'
<1>1. CalmInv
  BY DEF FieldsCalm
<1>2. CASE \/ \E rules \in SUBSET Rules : SaveLogic(rules)
           \/ \E user \in Collaborators, permission \in Permissions :
                 SaveCollaborator(user, permission)
  <2>1. /\ IsFree /\ UNCHANGED <<fieldVars, settingVars>>
        /\ myform' \in Form /\ FieldsOf(myform') = FieldsOf(myform)
    BY <1>1, <1>2, ArraySent
  <2>2. PICK purpose \in {"logic", "collaborators"} :
           \E b : Plain(b) /\ b.editFormField = None /\ Send(purpose, b)
    BY <1>1, <1>2, ArraySent
  <2>3. PICK body : /\ Plain(body) /\ body.editFormField = None
                    /\ Send(purpose, body)
    BY <2>2
  <2>4. waiting = {} /\ \E r \in Requests : Sends(r, purpose, body)
    BY <2>3, SendAlone
  <2>5. myform # None /\ UNCHANGED <<attachmentsTotal, modal>>
    BY <2>1 DEF IsFree, fieldVars
  <2>6. IsSendable(Update(body))
    <3>1. \E shown : shown \in Settings
      BY <1>1, <2>5, OpenSettings DEF PageOpen
    <3>. QED  BY <2>3, <3>1, PlainBody
  <2>. QED  BY <2>1, <2>3, <2>4, <2>5, <2>6, FieldsUntouched
<1>3. CASE \/ \E setting \in SettingNames :
                 \E value \in SettingValues[setting] : ChangeSetting(setting, value)
           \/ ToggleStatus
           \/ ChecksPass
  <2>1. waiting = {}
    BY <1>3, SendAlone
       DEF ChangeSetting, ToggleStatus, ChecksPass, UpdateFormStatusAndSave,
           SendSettings
  <2>2. PICK purpose, body : SettingSent(purpose, body)
    BY <1>1, <1>3, <2>1, SettingsSent
  <2>3. /\ Send(purpose, body) /\ myform # None
        /\ UNCHANGED <<myform, attachmentsTotal, modal>>
        /\ body.editFormField = None
    BY <2>2 DEF SettingSent, fieldVars, Body
  <2>4. \E r \in Requests : Sends(r, purpose, body)
    BY <2>3, SendAlone
  <2>5. IsSendable(Update(body))
    BY <1>1, <2>1, <2>2, SettingBody
  <2>6. myform' \in Form /\ FieldsOf(myform') = FieldsOf(myform)
    BY <2>3, PageForm
  <2>. QED  BY <2>1, <2>3, <2>4, <2>5, <2>6, FieldsUntouched
<1>. QED  BY <1>2, <1>3
-----------------------------------------------------------------------------
(* What the server does for the page, and the fields *)

(* The handler of the one request that the page waits for goes on, and     *)
(* the lists that are expected stay expected.                              *)
LEMMA ForeseenStays ==
  ASSUME UNCHANGED <<myform, attachmentsTotal, modal, waiting>>,
         \A p \in Requests : stage[p] = "done" => stage'[p] = "done",
         NEW l, Foreseen(l)
  PROVE  Foreseen(l)'
<1>1. FieldsOf(myform)' = FieldsOf(myform)
  BY DEF FieldsOf
<1>. QED  BY <1>1 DEF Foreseen

(* A save that the page does not know of, or waits for.                    *)
LEMMA FieldsWritten ==
  ASSUME FieldsCalm, NEW r \in waiting, stage[r] = "saving", Write(r),
         NEW l, l = NextFields(FieldsOf(myform), request[r].body, r)
  PROVE  /\ FieldsOf(Database') = l
         /\ Foreseen(l)
         /\ ~Inapplicable(myform.lists, request[r].body)
         /\ TotalSize(l) <= attachmentsMax
         /\ copy[r].lists = Database'.lists
<1>1. CalmInv
  BY DEF FieldsCalm
<1>2. r \in Requests /\ myform # None /\ ~Succeeded(r)
  BY <1>1, WaitingFor DEF Succeeded
<1>3. FieldsOpen /\ FieldsPending(r) /\ FieldsOf(Database) = FieldsOf(myform)
  BY <1>2 DEF FieldsCalm, FieldsInv, FieldsOpen, FieldsPending
<1>4. PICK body : body = request[r].body
  OBVIOUS
<1>5. /\ Database'.lists = EditedLists(Database.lists, body, r)
      /\ ~Inapplicable(Database.lists, body)
      /\ copy[r].lists = Database'.lists
  BY <1>1, <1>4, PageSavedInTime
<1>6. ~Inapplicable(myform.lists, body)
  BY <1>3, <1>5 DEF Inapplicable, FieldsOf
<1>7. Foreseen(l)
  BY <1>3, <1>4, <1>6 DEF FieldsPending
<1>8. EditedLists(Database.lists, body, r).form_fields
         = NextFields(FieldsOf(Database), body, r)
  <2>1. PICK lists \in Lists : lists = Database.lists
    BY <1>1, FormTyped DEF CalmInv
  <2>2. EditedLists(lists, body, r).form_fields
           = NextFields(lists.form_fields, body, r)
    BY DEF EditedLists, NextFields, Lists
  <2>. QED  BY <2>1, <2>2 DEF FieldsOf
<1>9. FieldsOf(Database') = l
  BY <1>3, <1>4, <1>5, <1>8 DEF FieldsOf
<1>10. TotalSize(l) <= attachmentsMax
  <2>1. TotalSize(l) = attachmentsMax - attachmentsTotal
    BY <1>7 DEF Foreseen
  <2>2. attachmentsTotal \in Nat
    BY <1>3 DEF FieldsOpen
  <2>. QED  BY <2>1, <2>2, BuilderAssumption
<1>. QED  BY <1>4, <1>5, <1>6, <1>7, <1>9, <1>10

(* Only the request that the page waits for has a handler at work.         *)
LEMMA OnlyWaited ==
  ASSUME FieldsCalm, NEW r \in Requests, Handle(r)
  PROVE  /\ r \in waiting /\ waiting = {r} /\ myform # None
         /\ ~Succeeded(r)
         /\ \A q \in Requests \ {r} : stage[q] \in {"unsent", "done"}
<1>1. CalmInv /\ stage[r] \notin {"unsent", "done"}
  BY PageHandled DEF FieldsCalm
<1>2. r \in waiting
  BY <1>1 DEF FieldsCalm, FieldsInv
<1>3. waiting = {r} /\ myform # None
  BY <1>1, <1>2, WaitingFor
<1>. QED  BY <1>1, <1>2, <1>3 DEF FieldsCalm, FieldsInv, Succeeded

LEMMA FieldsHandled ==
  ASSUME FieldsCalm, NEW r \in Requests, Handle(r), ~IsUnnoticed(r),
         UNCHANGED <<myform, fieldVars, settingVars, waiting, made>>
  PROVE  FieldsInv'
<1>1. CalmInv
  BY DEF FieldsCalm
<1>2. /\ UNCHANGED request
      /\ \A q \in Requests \ {r} :
            stage'[q] = stage[q] /\ seen'[q] = seen[q]
            /\ copy'[q] = copy[q] /\ reply'[q] = reply[q]
      /\ stage[r] \notin {"unsent", "done"}
  BY <1>1, PageHandled
<1>3. /\ r \in waiting /\ waiting = {r} /\ myform # None /\ ~Succeeded(r)
      /\ \A q \in Requests \ {r} : stage[q] \in {"unsent", "done"}
  BY OnlyWaited
<1>4. FieldsOpen /\ FieldsPending(r)
  BY <1>3 DEF FieldsCalm, FieldsInv, FieldsOpen
<1>5. UNCHANGED <<myform, attachmentsTotal, modal, waiting, made>>
      /\ FieldsOf(myform)' = FieldsOf(myform)
  BY DEF fieldVars, FieldsOf
<1>6. \A p \in Requests : stage[p] = "done" => stage'[p] = "done"
  BY <1>2
<1>7. \A q \in Requests \ waiting' : stage'[q] \in {"unsent", "done"}
  BY <1>2, <1>3, <1>5
<1>8. PICK l : l = NextFields(FieldsOf(myform), request[r].body, r)
  OBVIOUS
<1>9. l = NextFields(FieldsOf(myform), request[r].body, r)'
  BY <1>2, <1>5, <1>8
<1>10. ~Inapplicable(myform.lists, request[r].body)' => Foreseen(l)'
  <2>1. ~Inapplicable(myform.lists, request[r].body) => Foreseen(l)
    BY <1>4, <1>8 DEF FieldsPending
  <2>. QED  BY <1>2, <1>5, <1>6, <2>1, ForeseenStays
<1>11. modal' # None /\ ~modal'.saveInProgress => ModalCounts'
  BY <1>4, <1>5 DEF FieldsOpen, ModalCounts
<1>12. ASSUME StoredFields',
              Succeeded(r)' =>
                 /\ copy'[r].lists = Database'.lists
                 /\ ~Inapplicable(myform.lists, request[r].body)
                 /\ FieldsOf(Database)' = l,
              ~Succeeded(r)' => FieldsOf(Database)' = FieldsOf(myform)
       PROVE  FieldsInv'
  <2>1. FieldsPending(r)'
    BY <1>2, <1>5, <1>9, <1>10, <1>12 DEF FieldsPending
  <2>2. FieldsOpen'
    BY <1>3, <1>4, <1>5, <1>11, <2>1 DEF FieldsOpen
  <2>. QED  BY <1>7, <1>12, <2>2 DEF FieldsInv
<1>13. ASSUME UNCHANGED forms, ~Succeeded(r)'
       PROVE  FieldsInv'
  <2>1. Database' = Database /\ FieldsOf(Database)' = FieldsOf(Database)
    BY <1>13 DEF Database, FieldsOf
  <2>2. StoredFields'
    BY <1>6, <2>1 DEF FieldsCalm, FieldsInv, StoredFields
  <2>3. FieldsOf(Database)' = FieldsOf(myform)
    BY <1>3, <1>4, <2>1 DEF FieldsPending
  <2>. QED  BY <1>12, <1>13, <2>2, <2>3
<1>14. CASE UNCHANGED forms /\ stage'[r] = "saving"
  BY <1>13, <1>14 DEF Succeeded
<1>15. ASSUME NEW status \in Replies \ {"none"}, Ending(r, status),
              stage'[r] = "done", reply'[r] = status, status = "OK" => Save(r)
       PROVE  FieldsInv'
  <2>1. CASE status # "OK"
    <3>1. UNCHANGED forms
      BY <1>15, <2>1 DEF IsUnnoticed
    <3>. QED  BY <1>13, <1>15, <2>1, <3>1 DEF Succeeded
  <2>2. CASE status = "OK"
    <3>1. stage[r] = "saving" /\ Write(r) /\ copy' = copy
      BY <1>15, <2>2 DEF Save, Answer
    <3>2. /\ FieldsOf(Database') = l /\ Foreseen(l)
          /\ ~Inapplicable(myform.lists, request[r].body)
          /\ TotalSize(l) <= attachmentsMax
          /\ copy[r].lists = Database'.lists
      BY <1>3, <1>8, <3>1, FieldsWritten
    <3>3. FieldsOf(Database)' = l
      BY <3>2 DEF FieldsOf
    <3>4. \A i \in DOMAIN l, q \in Requests :
             l[i].globalId = q => stage'[q] = "done"
      BY <1>3, <1>6, <1>15, <3>2 DEF Foreseen
    <3>5. StoredFields'
      BY <3>2, <3>3, <3>4 DEF StoredFields, Foreseen
    <3>6. Succeeded(r)'
      BY <1>15, <2>2 DEF Succeeded
    <3>. QED  BY <1>12, <3>1, <3>2, <3>3, <3>5, <3>6
  <2>. QED  BY <2>1, <2>2
<1>. QED  BY <1>1, <1>14, <1>15, PageHandled

LEMMA FieldsStep ==
  ASSUME FieldsCalm, MadeInv, BuilderNext, lapses' = {}, NoUncharged'
  PROVE  FieldsInv'
<1>1. "overlap" \notin lapses' /\ "failure" \notin lapses'
      /\ "unnoticed" \notin lapses'
  OBVIOUS
<1>2. CASE ViewForm
  BY <1>2, FieldsViewed
<1>3. CASE \/ \E type \in {"text", "attachment", "myInfo"} : AddNewField(type)
           \/ \E field \in PageFields : OpenEditModal(field)
  BY <1>3, FieldsOpened
<1>4. CASE CancelField \/ OpenActivateFormModal \/ CloseActivateFormModal
  BY <1>4, FieldsClosed
<1>5. CASE SaveField
  BY <1>1, <1>5, FieldsSaved
<1>6. ASSUME NEW field \in PageFields,
             \/ DeleteField(field) \/ DuplicateField(field)
             \/ DuplicateLogicField(field)
             \/ \E position \in Positions : ReorderField(field, position)
      PROVE  FieldsInv'
  BY <1>1, <1>6, FieldsEditedOnPage
<1>7. CASE \/ \E rules \in SUBSET Rules : SaveLogic(rules)
           \/ \E user \in Collaborators, permission \in Permissions :
                 SaveCollaborator(user, permission)
           \/ \E setting \in SettingNames :
                 \E value \in SettingValues[setting] : ChangeSetting(setting, value)
           \/ ToggleStatus
           \/ ChecksPass
  BY <1>1, <1>7, OthersSent
<1>8. ASSUME NEW r \in Requests, ReceiveSuccess(r)
      PROVE  FieldsInv'
  BY <1>8, FieldsSucceed
<1>9. ASSUME NEW r \in Requests
      PROVE  ~ReceiveFailure(r)
  BY <1>1 DEF ReceiveFailure
<1>10. CASE LeavePage
  BY <1>1, <1>10, FieldsLeft
<1>11. CASE HandleForPage
  BY <1>1, <1>11, FieldsHandled DEF HandleForPage
<1>. QED  BY <1>2, <1>3, <1>4, <1>5, <1>6, <1>7, <1>8, <1>9, <1>10, <1>11
          DEF BuilderNext
-----------------------------------------------------------------------------
(* The invariant is one *)

LEMMA HandlesUnderWay ==
  ASSUME NEW r \in Requests, Handle(r)
  PROVE  /\ stage[r] \in {"sent", "duplicating", "saving"}
         /\ \E st : st # "unsent" /\ stage' = [stage EXCEPT ![r] = st]
BY HandleCases DEF ReadForUpdate, ReadForDelete, ReadForDuplicate, Duplicate,
                   Create, Ending, Answer

LEMMA MadeStep ==
  ASSUME MadeInv, [BuilderNext]_builderVars
  PROVE  MadeInv' /\ (NoUncharged' => NoUncharged)
<1>1. ASSUME NEW purpose, NEW body, Send(purpose, body)
      PROVE  MadeInv' /\ (NoUncharged' => NoUncharged)
  <2>1. PICK r \in Requests : /\ stage[r] = "unsent"
                              /\ stage' = [stage EXCEPT ![r] = "sent"]
                              /\ made' = [made EXCEPT ![r] = purpose]
    BY <1>1 DEF Send, Post
  <2>2. \A q \in Requests : q # r => stage'[q] = stage[q] /\ made'[q] = made[q]
    BY <2>1 DEF MadeInv
  <2>3. stage'[r] = "sent" /\ made[r] = "none"
    BY <2>1 DEF MadeInv
  <2>. QED  BY <2>1, <2>2, <2>3 DEF MadeInv, NoUncharged
<1>2. ASSUME NEW r \in Requests, Handle(r), made' = made
      PROVE  MadeInv' /\ (NoUncharged' => NoUncharged)
  <2>1. PICK st : st # "unsent" /\ stage' = [stage EXCEPT ![r] = st]
    BY <1>2, HandlesUnderWay
  <2>. QED  BY <1>2, <2>1 DEF MadeInv, NoUncharged
<1>3. CASE UNCHANGED <<stage, made>>
  BY <1>3 DEF MadeInv, NoUncharged
<1>4. CASE BuilderNext
  BY <1>1, <1>2, <1>3, <1>4, StepKinds
     DEF ReceiveSuccess, ReceiveFailure, LeavePage, HandleForPage, vars,
         handlerVars
<1>5. CASE UNCHANGED builderVars
  BY <1>3, <1>5 DEF builderVars, pageVars, vars, handlerVars
<1>. QED  BY <1>4, <1>5

(* A save that the page is told failed.                                    *)
LEMMA SavedUnnoticed ==
  ASSUME FieldsCalm, BuilderNext, lapses = {}, lapses' = {"unnoticed"}
  PROVE  StuckInv'
<1>1. HandleForPage
  <2>1. \A purpose, body : Send(purpose, body) => "unnoticed" \notin lapses'
    BY DEF Send
  <2>2. \A r \in Requests : ~(ReceiveSuccess(r) \/ ReceiveFailure(r))
    BY DEF ReceiveSuccess, ReceiveFailure
  <2>3. ~LeavePage
    BY DEF LeavePage
  <2>. QED  BY <2>1, <2>2, <2>3, StepKinds
<1>2. PICK r \in Requests : Handle(r) /\ IsUnnoticed(r)
  BY <1>1 DEF HandleForPage
<1>3. waiting' = waiting
  BY <1>1 DEF HandleForPage
<1>4. /\ r \in waiting /\ waiting = {r} /\ myform # None
      /\ \A q \in Requests \ {r} : stage[q] \in {"unsent", "done"}
  BY <1>2, OnlyWaited
<1>5. forms' # forms /\ reply'[r] # "OK"
  BY <1>2, <1>4 DEF IsUnnoticed
<1>6. CalmInv /\ HandlerInv
  BY DEF FieldsCalm, CalmInv
<1>7. PICK status : Ending(r, status) /\ stage[r] = "saving" /\ Write(r)
  BY <1>2, <1>5, <1>6, FormsChange
<1>8. stage'[r] = "done" /\ \A q \in Requests \ {r} : stage'[q] = stage[q]
  BY <1>2, <1>6, <1>7, HandlerEnds, PageHandled
<1>9. PICK l : l = NextFields(FieldsOf(myform), request[r].body, r)
  OBVIOUS
<1>10. FieldsOf(Database') = l /\ TotalSize(l) <= attachmentsMax
  BY <1>4, <1>7, <1>9, FieldsWritten
<1>11. FieldsOf(Database)' = l
  BY <1>10 DEF FieldsOf
<1>12. \A q \in Requests : stage'[q] \in {"unsent", "done"}
  BY <1>4, <1>8
<1>. QED  BY <1>3, <1>4, <1>5, <1>10, <1>11, <1>12 DEF StuckInv

LEMMA StuckStep ==
  ASSUME StuckInv, BuilderNext, lapses' = {"unnoticed"}
  PROVE  StuckInv'
<1>1. \A purpose, body : ~Send(purpose, body)
  BY DEF Send, StuckInv
<1>2. \A r \in Requests : ~(ReceiveSuccess(r) \/ ReceiveFailure(r))
  BY DEF ReceiveSuccess, ReceiveFailure, StuckInv
<1>3. ~LeavePage
  BY DEF LeavePage, StuckInv
<1>4. ~HandleForPage
  BY HandlesUnderWay DEF HandleForPage, StuckInv
<1>5. UNCHANGED <<vars, made, waiting, lapses>>
  BY <1>1, <1>2, <1>3, <1>4, StepKinds
<1>6. FieldsOf(Database)' = FieldsOf(Database) /\ UNCHANGED <<stage, reply, waiting>>
  BY <1>5 DEF FieldsOf, Database, vars, handlerVars
<1>. QED  BY <1>6 DEF StuckInv

LEMMA BuildStutters ==
  ASSUME BuildInv, UNCHANGED builderVars
  PROVE  BuildInv'
<1>1. /\ UNCHANGED vars
      /\ UNCHANGED <<forms, request, stage, seen, copy, reply, overwritten>>
      /\ UNCHANGED <<myform, tempForm, attachmentsTotal, modal, activating,
                     waiting, made, lapses>>
  BY DEF builderVars, pageVars, fieldVars, settingVars, vars, handlerVars
<1>2. MadeInv'
  BY MadeStep DEF BuildInv
<1>3. Database' = Database /\ FieldsOf(myform)' = FieldsOf(myform)
      /\ FieldsOf(Database)' = FieldsOf(Database)
  BY <1>1 DEF Database, FieldsOf
<1>4. ASSUME CalmInv
      PROVE  CalmInv'
  <2>1. \A q \in waiting : SettingsPending(q) => SettingsPending(q)'
    BY <1>1, <1>3 DEF SettingsPending, Succeeded
  <2>2. PageInv'
    BY <1>1, <1>3, <1>4, <2>1 DEF CalmInv, PageInv, PageOpen, PageClosed
  <2>. QED  BY <1>1, <1>4, <2>2, CalmAtPage
<1>5. ASSUME FieldsInv
      PROVE  FieldsInv'
  <2>1. ASSUME NEW l, Foreseen(l)
        PROVE  Foreseen(l)'
    BY <1>1, <2>1, ForeseenStays
  <2>2. ASSUME NEW r \in waiting, FieldsPending(r)
        PROVE  FieldsPending(r)'
    <3>1. PICK l : l = NextFields(FieldsOf(myform), request[r].body, r)
      OBVIOUS
    <3>2. l = NextFields(FieldsOf(myform), request[r].body, r)'
      BY <1>1, <1>3, <3>1
    <3>3. ~Inapplicable(myform.lists, request[r].body)' => Foreseen(l)'
      BY <1>1, <2>1, <2>2, <3>1 DEF FieldsPending
    <3>. QED  BY <1>1, <1>3, <2>2, <3>1, <3>2, <3>3 DEF FieldsPending, Succeeded
  <2>3. PICK m : m = FieldsOf(myform)
    OBVIOUS
  <2>4. Foreseen(m) => Foreseen(m)'
    BY <2>1
  <2>5. FieldsOpen => FieldsOpen'
    BY <1>1, <1>3, <2>2, <2>3, <2>4 DEF FieldsOpen, ModalCounts
  <2>6. StoredFields'
    BY <1>1, <1>3, <1>5 DEF FieldsInv, StoredFields
  <2>. QED  BY <1>1, <1>5, <2>5, <2>6 DEF FieldsInv
<1>6. StuckInv => StuckInv'
  BY <1>1, <1>3 DEF StuckInv
<1>7. NoUncharged' => NoUncharged
  BY <1>1 DEF NoUncharged
<1>. QED  BY <1>1, <1>2, <1>4, <1>5, <1>6, <1>7 DEF BuildInv

LEMMA BuildStep ==
  ASSUME BuildInv, [BuilderNext]_builderVars
  PROVE  BuildInv'
<1>1. CASE BuilderNext
  <2>1. MadeInv /\ MadeInv' /\ (NoUncharged' => NoUncharged)
    BY MadeStep DEF BuildInv
  <2>2. lapses \subseteq lapses'
    BY <1>1, LapsesStay
  <2>3. ASSUME lapses' \subseteq {"failure"}
        PROVE  CalmInv'
    BY <1>1, <2>1, <2>2, <2>3, CalmStep DEF BuildInv
  <2>4. ASSUME lapses' = {}, NoUncharged'
        PROVE  FieldsInv'
    <3>1. FieldsCalm
      BY <2>1, <2>2, <2>4 DEF BuildInv, FieldsCalm
    <3>. QED  BY <1>1, <2>1, <2>4, <3>1, FieldsStep
  <2>5. ASSUME lapses' = {"unnoticed"}, NoUncharged'
        PROVE  StuckInv'
    <3>1. CASE lapses = {}
      <4>1. FieldsCalm
        BY <2>1, <2>5, <3>1 DEF BuildInv, FieldsCalm
      <4>. QED  BY <1>1, <2>5, <3>1, <4>1, SavedUnnoticed
    <3>2. CASE lapses = {"unnoticed"}
      BY <1>1, <2>1, <2>5, <3>2, StuckStep DEF BuildInv
    <3>. QED  BY <2>2, <2>5, <3>1, <3>2
  <2>. QED  BY <2>1, <2>3, <2>4, <2>5 DEF BuildInv
<1>. QED  BY <1>1, BuildStutters

LEMMA BuildInit ==
  ASSUME BuilderInit
  PROVE  BuildInv
<1>1. Init /\ HandlerInv
  BY HandlerInit DEF BuilderInit
<1>2. theForm \in FormIds /\ theForm \notin Requests
  BY BuilderAssumption, DocumentAssumption DEF FormIds
<1>3. Database \in InitialForms
  BY <1>1, <1>2 DEF Init, Database
<1>4. Database \in Form
  BY <1>3, EditingAssumption
<1>5. MadeInv
  BY <1>1 DEF MadeInv, Init, BuilderInit
<1>6. CalmInv
  <2>1. PageInv
    BY DEF BuilderInit, PageInv, PageClosed
  <2>2. \A r \in Requests : OwnRequest(r)
    BY <1>1 DEF Init, OwnRequest
  <2>. QED  BY <1>1, <1>4, <2>1, <2>2 DEF CalmInv, BuilderInit
<1>7. FieldsInv
  <2>1. PICK l : l = FieldsOf(Database)
    OBVIOUS
  <2>2. /\ \A i \in DOMAIN l : l[i].globalId \in OriginalFields
        /\ \A i, j \in DOMAIN l : l[i].globalId = l[j].globalId => i = j
        /\ AttachmentsSize(Database) <= attachmentsMax
    BY <1>3, <2>1, InitialFormsAssumption DEF FieldsOf
  <2>3. AttachmentsSize(Database) = TotalSize(l)
    BY <1>4, <2>1, SizeOfForm
  <2>4. \A i \in DOMAIN l : l[i].globalId \notin Requests
    BY <2>2, DocumentAssumption
  <2>5. StoredFields
    BY <2>1, <2>2, <2>3, <2>4 DEF StoredFields, Distinct
  <2>. QED  BY <1>1, <2>5 DEF FieldsInv, Init, BuilderInit
<1>. QED  BY <1>5, <1>6, <1>7 DEF BuildInv, BuilderInit

LEMMA BuildInOrder ==
  ASSUME BuildInv
  PROVE  PageInOrder
<1>1. ASSUME lapses \subseteq {"unnoticed"}, NoUncharged
      PROVE  AttachmentsSize(forms[theForm]) <= attachmentsMax
  <2>1. lapses = {} \/ lapses = {"unnoticed"}
    BY <1>1
  <2>2. TotalSize(FieldsOf(Database)) <= attachmentsMax
    BY <1>1, <2>1 DEF BuildInv, FieldsInv, StoredFields, StuckInv
  <2>3. AttachmentsSize(forms[theForm]) = TotalSize(FieldsOf(Database))
    BY DEF AttachmentsSize, TotalSize, FieldsOf, Database
  <2>. QED  BY <2>2, <2>3
<1>2. ASSUME lapses = {}, NoUncharged, myform # None, waiting = {}
      PROVE  /\ myform.lists = forms[theForm].lists
             /\ tempForm = forms[theForm].settings
             /\ attachmentsTotal
                  = attachmentsMax - AttachmentsSize(forms[theForm])
  <2>1. CalmInv /\ FieldsOpen
    BY <1>2 DEF BuildInv, FieldsInv
  <2>2. tempForm = Database.settings
    BY <1>2, <2>1, OpenSettings
  <2>3. myform.lists = Database.lists /\ Foreseen(FieldsOf(myform))
    BY <1>2, <2>1 DEF FieldsOpen
  <2>4. FieldsOf(myform) = FieldsOf(Database)
    BY <2>3 DEF FieldsOf
  <2>5. /\ AttachmentsSize(Database) = TotalSize(FieldsOf(myform))
        /\ TotalSize(FieldsOf(myform)) \in Nat
    BY <2>1, <2>4, SizeOfForm DEF CalmInv
  <2>6. attachmentsTotal = attachmentsMax - AttachmentsSize(Database)
    <3>1. TotalSize(FieldsOf(myform)) = attachmentsMax - attachmentsTotal
      BY <2>3 DEF Foreseen
    <3>2. attachmentsTotal \in Nat
      BY <2>1 DEF FieldsOpen
    <3>. QED  BY <2>5, <3>1, <3>2, BuilderAssumption
  <2>. QED  BY <2>2, <2>3, <2>6 DEF Database
<1>. QED  BY <1>1, <1>2 DEF PageInOrder, AttachmentsFit, PageShowsForm

-----------------------------------------------------------------------------
(* The page agrees with the database: its budget is what the attachments   *)
(* of the form leave, its copy the form, and its inputs the settings, as   *)
(* long as none of the lapses has happened that PageInOrder bears.         *)
THEOREM PageAgrees == AdminSpec => []PageInOrder
<1>1. AdminInit => BuildInv
  BY BuildInit DEF AdminInit
<1>2. BuildInv /\ [AdminNext]_adminVars => BuildInv'
  <2>1. [AdminNext]_adminVars => [BuilderNext]_builderVars
    BY DEF AdminNext, adminVars
  <2>. QED  BY <2>1, BuildStep
<1>3. BuildInv => PageInOrder
  BY BuildInOrder
<1>. QED  BY <1>1, <1>2, <1>3, PTL DEF AdminSpec

(* A save changes the setting that the admin has just changed.             *)
THEOREM SettingsAsMeant == AdminSpec => SettingsOnPurpose
<1>1. AdminInit => BuildInv
  BY BuildInit DEF AdminInit
<1>2. BuildInv /\ [AdminNext]_adminVars
         => BuildInv' /\ [SettingsOnPurposeStep]_builderVars
  <2>1. [AdminNext]_adminVars => [BuilderNext]_builderVars
    BY DEF AdminNext, adminVars
  <2>. QED  BY <2>1, BuildStep, BuilderOnPurpose
<1>3. SettingsOnPurpose <=> [][SettingsOnPurposeStep]_builderVars
  BY PTL DEF SettingsOnPurpose, SettingsOnPurposeStep
<1>. QED  BY <1>1, <1>2, <1>3, PTL DEF AdminSpec

-----------------------------------------------------------------------------
(* The modal of a field: what each kind of field has *)

Options == TypedOptions \cup ToSet(OptionTexts)

Optional(S) == S \cup {Absent}

PlainFields ==
    [fieldType : {"section", "statement", "nric", "yes_no"},
     required : BOOLEAN]

TextFields ==
    [fieldType : {"textfield", "textarea", "number"}, required : BOOLEAN,
     selectedValidation : Optional({"Maximum", "Minimum", "Exact"}),
     customVal : Optional(Limits), customMin : Optional(Limits),
     customMax : Optional(Limits)]

DecimalFields ==
    [fieldType : {"decimal"}, required : BOOLEAN, validateByValue : BOOLEAN,
     customMin : Optional(Limits), customMax : Optional(Limits)]

DropdownFields ==
    [fieldType : {"dropdown"}, required : BOOLEAN, fieldOptions : Seq(Options)]

RadioFields ==
    [fieldType : {"radiobutton"}, required : BOOLEAN,
     fieldOptions : Seq(Options), othersRadioButton : BOOLEAN]

CheckboxFields ==
    [fieldType : {"checkbox"}, required : BOOLEAN, boxes : Int,
     fieldOptions : Seq(Options), othersRadioButton : BOOLEAN,
     validateByValue : BOOLEAN,
     customMin : Optional(Limits), customMax : Optional(Limits)]

RatingFields ==
    [fieldType : {"rating"}, required : BOOLEAN, steps : 1 .. 10]

DateFields ==
    [fieldType : {"date"}, required : BOOLEAN,
     selectedDateValidation : Answers!DateValidations,
     customMinDate : Optional({-1, 0, 1}), customMaxDate : Optional({-1, 0, 1})]

Columns ==
    [columnType : Answers!ColumnTypes, required : BOOLEAN, titled : BOOLEAN,
     fieldOptions : Seq(Options)]

TableFields ==
    [fieldType : {"table"}, required : BOOLEAN,
     minimumRows : Optional(1 .. MaxRows), maximumRows : Optional(Int),
     addMoreRows : BOOLEAN, additionalRowCount : Nat, columns : Seq(Columns)]

ImageFields ==
    [fieldType : {"image"}, required : BOOLEAN, url : Optional(Images),
     fileMd5Hash : Optional(Images), named : BOOLEAN]

EmailFields ==
    [fieldType : {"email"}, required : BOOLEAN, hasAutoReply : BOOLEAN,
     includeFormSummary : BOOLEAN, colonInSender : BOOLEAN,
     responseMode : Modes]

AttachmentFields ==
    [fieldType : {"attachment"}, required : BOOLEAN, left : Nat,
     attachmentSize : Answers!AttachmentSizesMb]

PhoneFields ==
    [fieldType : {"mobile", "homeno"}, required : BOOLEAN,
     allowIntlNumbers : BOOLEAN]

FieldKinds ==
    {PlainFields, TextFields, DecimalFields, DropdownFields, RadioFields,
     CheckboxFields, RatingFields, DateFields, TableFields, ImageFields,
     EmailFields, AttachmentFields, PhoneFields}

EditedFields == UNION FieldKinds

LEMMA KindOfField ==
  ASSUME NEW f \in EditedFields
  PROVE  /\ f.fieldType \in Answers!BasicFieldType
         /\ f.fieldType \in {"section", "statement", "nric", "yes_no"}
               <=> f \in PlainFields
         /\ f.fieldType \in {"textfield", "textarea", "number"}
               <=> f \in TextFields
         /\ f.fieldType = "decimal" <=> f \in DecimalFields
         /\ f.fieldType = "dropdown" <=> f \in DropdownFields
         /\ f.fieldType = "radiobutton" <=> f \in RadioFields
         /\ f.fieldType = "checkbox" <=> f \in CheckboxFields
         /\ f.fieldType = "rating" <=> f \in RatingFields
         /\ f.fieldType = "date" <=> f \in DateFields
         /\ f.fieldType = "table" <=> f \in TableFields
         /\ f.fieldType = "image" <=> f \in ImageFields
         /\ f.fieldType = "email" <=> f \in EmailFields
         /\ f.fieldType = "attachment" <=> f \in AttachmentFields
         /\ f.fieldType \in {"mobile", "homeno"} <=> f \in PhoneFields
<1>1. /\ \A g \in PlainFields :
            g.fieldType \in {"section", "statement", "nric", "yes_no"}
      /\ \A g \in TextFields :
            g.fieldType \in {"textfield", "textarea", "number"}
      /\ \A g \in DecimalFields : g.fieldType = "decimal"
      /\ \A g \in DropdownFields : g.fieldType = "dropdown"
      /\ \A g \in RadioFields : g.fieldType = "radiobutton"
      /\ \A g \in CheckboxFields : g.fieldType = "checkbox"
      /\ \A g \in RatingFields : g.fieldType = "rating"
      /\ \A g \in DateFields : g.fieldType = "date"
      /\ \A g \in TableFields : g.fieldType = "table"
      /\ \A g \in ImageFields : g.fieldType = "image"
      /\ \A g \in EmailFields : g.fieldType = "email"
      /\ \A g \in AttachmentFields : g.fieldType = "attachment"
      /\ \A g \in PhoneFields : g.fieldType \in {"mobile", "homeno"}
  BY DEF PlainFields, TextFields, DecimalFields, DropdownFields, RadioFields,
         CheckboxFields, RatingFields, DateFields, TableFields, ImageFields,
         EmailFields, AttachmentFields, PhoneFields
<1>2. \/ f \in PlainFields \/ f \in TextFields \/ f \in DecimalFields
      \/ f \in DropdownFields \/ f \in RadioFields \/ f \in CheckboxFields
      \/ f \in RatingFields \/ f \in DateFields \/ f \in TableFields
      \/ f \in ImageFields \/ f \in EmailFields \/ f \in AttachmentFields
      \/ f \in PhoneFields
  BY DEF EditedFields, FieldKinds
<1>. QED  BY <1>1, <1>2 DEF Answers!BasicFieldType

(* The limits are those of the kind of limit that is selected.             *)
LimitsOf(f) ==
    /\ f.fieldType \in {"textfield", "textarea", "number"} =>
          /\ f.customMax = (IF f.selectedValidation \in {"Maximum", "Exact"}
                            THEN f.customVal ELSE Absent)
          /\ f.customMin = (IF f.selectedValidation \in {"Minimum", "Exact"}
                            THEN f.customVal ELSE Absent)
    /\ f.fieldType \in {"decimal", "checkbox"} /\ ~f.validateByValue =>
          f.customMin = Absent /\ f.customMax = Absent
    /\ f.fieldType = "date" /\ f.selectedDateValidation # "Custom date range"
          => f.customMinDate = Absent /\ f.customMaxDate = Absent

(* A field as the inputs leave it.                                         *)
WellEdited(f) ==
    /\ f \in EditedFields
    /\ LimitsOf(f)
    /\ f.fieldType = "checkbox" => f.boxes = Len(f.fieldOptions) + 1

(* Its picture is in the bucket.                                           *)
PictureKept(f) ==
    f.fieldType = "image" /\ f.named =>
        f.url \in bucket /\ f.fileMd5Hash = f.url

CanBeSaved(f) == ~disableSave(f) /\ ~FormInvalid(f)

-----------------------------------------------------------------------------
(* A new field *)

LEMMA DefaultPlain ==
  ASSUME NEW type \in {"section", "statement", "nric", "yes_no"}
  PROVE  /\ DefaultFields(type) = {DefaultData(type)}
         /\ DefaultData(type) \in PlainFields
BY DEF DefaultFields, DefaultData, PlainFields

LEMMA FirstOption == <<OptionTexts[1]>> \in Seq(Options)
<1>1. Len(OptionTexts) \in Nat \ {0} /\ OptionTexts \in Seq(ToSet(OptionTexts))
  BY EditorAssumption
<1>. QED  BY <1>1 DEF Options

LEMMA DefaultText ==
  ASSUME NEW type \in {"textfield", "textarea", "number"},
         NEW f \in DefaultFields(type)
  PROVE  f \in TextFields /\ WellEdited(f) /\ PictureKept(f)
<1>1. f = With(DefaultData(type), CustomValidation)
  BY DEF DefaultFields
<1>2. f = [fieldType |-> type, required |-> TRUE,
           selectedValidation |-> Absent, customVal |-> Absent,
           customMin |-> Absent, customMax |-> Absent]
  BY <1>1 DEF With, DefaultData, CustomValidation
<1>3. f \in TextFields
  BY <1>2 DEF TextFields, Optional
<1>4. LimitsOf(f) /\ PictureKept(f)
  BY <1>2 DEF LimitsOf, PictureKept
<1>5. f.fieldType = "checkbox" => f.boxes = Len(f.fieldOptions) + 1
  BY <1>2
<1>. QED  BY <1>3, <1>4, <1>5 DEF WellEdited, EditedFields, FieldKinds

LEMMA DefaultDecimal ==
  ASSUME NEW type \in {"decimal"},
         NEW f \in DefaultFields(type)
  PROVE  f \in DecimalFields /\ WellEdited(f) /\ PictureKept(f)
<1>1. f = With(DefaultData(type), RangeValidation)
  BY DEF DefaultFields
<1>2. f = [fieldType |-> type, required |-> TRUE,
           customMin |-> Absent, customMax |-> Absent,
           validateByValue |-> FALSE]
  BY <1>1 DEF With, DefaultData, RangeValidation
<1>3. f \in DecimalFields
  BY <1>2 DEF DecimalFields, Optional
<1>4. LimitsOf(f) /\ PictureKept(f)
  BY <1>2 DEF LimitsOf, PictureKept
<1>5. f.fieldType = "checkbox" => f.boxes = Len(f.fieldOptions) + 1
  BY <1>2
<1>. QED  BY <1>3, <1>4, <1>5 DEF WellEdited, EditedFields, FieldKinds

LEMMA DefaultDropdown ==
  ASSUME NEW type \in {"dropdown"},
         NEW f \in DefaultFields(type)
  PROVE  f \in DropdownFields /\ WellEdited(f) /\ PictureKept(f)
<1>1. f = With(DefaultData(type), DropdownData)
  BY DEF DefaultFields
<1>2. f = [fieldType |-> type, required |-> TRUE,
           fieldOptions |-> <<OptionTexts[1]>>]
  BY <1>1 DEF With, DefaultData, DropdownData
<1>3. f \in DropdownFields
  BY <1>2, FirstOption DEF DropdownFields
<1>4. LimitsOf(f) /\ PictureKept(f)
  BY <1>2 DEF LimitsOf, PictureKept
<1>5. f.fieldType = "checkbox" => f.boxes = Len(f.fieldOptions) + 1
  BY <1>2
<1>. QED  BY <1>3, <1>4, <1>5 DEF WellEdited, EditedFields, FieldKinds

LEMMA DefaultRadio ==
  ASSUME NEW type \in {"radiobutton"},
         NEW f \in DefaultFields(type)
  PROVE  f \in RadioFields /\ WellEdited(f) /\ PictureKept(f)
<1>1. f = With(DefaultData(type), RadioData)
  BY DEF DefaultFields
<1>2. f = [fieldType |-> type, required |-> TRUE,
           fieldOptions |-> <<OptionTexts[1]>>,
           othersRadioButton |-> FALSE]
  BY <1>1 DEF With, DefaultData, RadioData
<1>3. f \in RadioFields
  BY <1>2, FirstOption DEF RadioFields
<1>4. LimitsOf(f) /\ PictureKept(f)
  BY <1>2 DEF LimitsOf, PictureKept
<1>5. f.fieldType = "checkbox" => f.boxes = Len(f.fieldOptions) + 1
  BY <1>2
<1>. QED  BY <1>3, <1>4, <1>5 DEF WellEdited, EditedFields, FieldKinds

LEMMA DefaultCheckbox ==
  ASSUME NEW type \in {"checkbox"},
         NEW f \in DefaultFields(type)
  PROVE  f \in CheckboxFields /\ WellEdited(f) /\ PictureKept(f)
<1>1. f = With(DefaultData(type), CheckboxData)
  BY DEF DefaultFields
<1>2. f = [fieldType |-> type, required |-> TRUE,
           boxes |-> 2,
           fieldOptions |-> <<OptionTexts[1]>>, othersRadioButton |-> FALSE,
           customMin |-> Absent, customMax |-> Absent,
           validateByValue |-> FALSE]
  BY <1>1 DEF With, DefaultData, CheckboxData, RadioData, RangeValidation
<1>3. f \in CheckboxFields
  BY <1>2, FirstOption DEF CheckboxFields, Optional
<1>4. LimitsOf(f) /\ PictureKept(f)
  BY <1>2 DEF LimitsOf, PictureKept
<1>5. f.fieldType = "checkbox" => f.boxes = Len(f.fieldOptions) + 1
  BY <1>2
<1>. QED  BY <1>3, <1>4, <1>5 DEF WellEdited, EditedFields, FieldKinds

LEMMA DefaultRating ==
  ASSUME NEW type \in {"rating"},
         NEW f \in DefaultFields(type)
  PROVE  f \in RatingFields /\ WellEdited(f) /\ PictureKept(f)
<1>1. f = With(DefaultData(type), RatingData)
  BY DEF DefaultFields
<1>2. f = [fieldType |-> type, required |-> TRUE,
           steps |-> 5]
  BY <1>1 DEF With, DefaultData, RatingData
<1>3. f \in RatingFields
  BY <1>2 DEF RatingFields
<1>4. LimitsOf(f) /\ PictureKept(f)
  BY <1>2 DEF LimitsOf, PictureKept
<1>5. f.fieldType = "checkbox" => f.boxes = Len(f.fieldOptions) + 1
  BY <1>2
<1>. QED  BY <1>3, <1>4, <1>5 DEF WellEdited, EditedFields, FieldKinds

LEMMA DefaultDate ==
  ASSUME NEW type \in {"date"},
         NEW f \in DefaultFields(type)
  PROVE  f \in DateFields /\ WellEdited(f) /\ PictureKept(f)
<1>1. f = With(DefaultData(type), DateData)
  BY DEF DefaultFields
<1>2. f = [fieldType |-> type, required |-> TRUE,
           selectedDateValidation |-> Absent,
           customMinDate |-> Absent, customMaxDate |-> Absent]
  BY <1>1 DEF With, DefaultData, DateData
<1>3. f \in DateFields
  BY <1>2 DEF DateFields, Optional, Answers!DateValidations
<1>4. LimitsOf(f) /\ PictureKept(f)
  BY <1>2 DEF LimitsOf, PictureKept
<1>5. f.fieldType = "checkbox" => f.boxes = Len(f.fieldOptions) + 1
  BY <1>2
<1>. QED  BY <1>3, <1>4, <1>5 DEF WellEdited, EditedFields, FieldKinds

LEMMA DefaultTable ==
  ASSUME NEW type \in {"table"},
         NEW f \in DefaultFields(type)
  PROVE  f \in TableFields /\ WellEdited(f) /\ PictureKept(f)
<1>1. f = With(DefaultData(type), TableData)
  BY DEF DefaultFields
<1>2. f = [fieldType |-> type, required |-> TRUE,
           minimumRows |-> 2, maximumRows |-> Absent, addMoreRows |-> FALSE,
           additionalRowCount |-> 0, columns |-> <<DefaultColumn>>]
  BY <1>1 DEF With, DefaultData, TableData
<1>3. f \in TableFields
  <2>1. DefaultColumn \in Columns
    BY DEF DefaultColumn, Columns, Answers!ColumnTypes
  <2>2. <<DefaultColumn>> \in Seq(Columns)
    BY <2>1
  <2>3. 2 \in 1 .. MaxRows
    <3>1. MaxRows \in Nat \ {0, 1}
      BY RespondentsAssumption
    <3>. QED  BY <3>1
  <2>. QED  BY <1>2, <2>2, <2>3 DEF TableFields, Optional
<1>4. LimitsOf(f) /\ PictureKept(f)
  BY <1>2 DEF LimitsOf, PictureKept
<1>5. f.fieldType = "checkbox" => f.boxes = Len(f.fieldOptions) + 1
  BY <1>2
<1>. QED  BY <1>3, <1>4, <1>5 DEF WellEdited, EditedFields, FieldKinds

LEMMA DefaultImage ==
  ASSUME NEW type \in {"image"},
         NEW f \in DefaultFields(type)
  PROVE  f \in ImageFields /\ WellEdited(f) /\ PictureKept(f)
<1>1. f = With(DefaultData(type), ImageData)
  BY DEF DefaultFields
<1>2. f = [fieldType |-> type, required |-> TRUE,
           url |-> Absent, fileMd5Hash |-> Absent, named |-> FALSE]
  BY <1>1 DEF With, DefaultData, ImageData
<1>3. f \in ImageFields
  BY <1>2 DEF ImageFields, Optional
<1>4. LimitsOf(f) /\ PictureKept(f)
  BY <1>2 DEF LimitsOf, PictureKept
<1>5. f.fieldType = "checkbox" => f.boxes = Len(f.fieldOptions) + 1
  BY <1>2
<1>. QED  BY <1>3, <1>4, <1>5 DEF WellEdited, EditedFields, FieldKinds

LEMMA DefaultPhone ==
  ASSUME NEW type \in {"mobile", "homeno"},
         NEW f \in DefaultFields(type)
  PROVE  f \in PhoneFields /\ WellEdited(f) /\ PictureKept(f)
<1>1. f = With(DefaultData(type), [allowIntlNumbers |-> FALSE])
  BY DEF DefaultFields
<1>2. f = [fieldType |-> type, required |-> TRUE,
           allowIntlNumbers |-> FALSE]
  BY <1>1 DEF With, DefaultData
<1>3. f \in PhoneFields
  BY <1>2 DEF PhoneFields
<1>4. LimitsOf(f) /\ PictureKept(f)
  BY <1>2 DEF LimitsOf, PictureKept
<1>5. f.fieldType = "checkbox" => f.boxes = Len(f.fieldOptions) + 1
  BY <1>2
<1>. QED  BY <1>3, <1>4, <1>5 DEF WellEdited, EditedFields, FieldKinds

LEMMA DefaultEmail ==
  ASSUME NEW f \in DefaultFields("email")
  PROVE  f \in EmailFields /\ WellEdited(f) /\ PictureKept(f)
<1>1. PICK mode \in Modes : f = With(DefaultData("email"), EmailData(mode))
  BY DEF DefaultFields
<1>2. f = [fieldType |-> "email", required |-> TRUE, hasAutoReply |-> FALSE,
           includeFormSummary |-> FALSE, colonInSender |-> FALSE,
           responseMode |-> mode]
  BY <1>1 DEF With, DefaultData, EmailData
<1>3. f \in EmailFields
  BY <1>2 DEF EmailFields
<1>. QED  BY <1>2, <1>3 DEF WellEdited, LimitsOf, PictureKept, EditedFields,
                            FieldKinds

LEMMA DefaultAttachment ==
  ASSUME NEW f \in DefaultFields("attachment")
  PROVE  f \in AttachmentFields /\ WellEdited(f) /\ PictureKept(f)
<1>1. PICK left \in {0, 1, 3, 7} :
         f = With(DefaultData("attachment"), AttachmentData(left))
  BY DEF DefaultFields
<1>2. f = [fieldType |-> "attachment", required |-> TRUE,
           attachmentSize |-> 1, left |-> left]
  BY <1>1 DEF With, DefaultData, AttachmentData
<1>3. f \in AttachmentFields
  BY <1>2 DEF AttachmentFields, Answers!AttachmentSizesMb
<1>. QED  BY <1>2, <1>3 DEF WellEdited, LimitsOf, PictureKept, EditedFields,
                            FieldKinds

LEMMA DefaultWellEdited ==
  ASSUME NEW type \in FieldTypes, NEW f \in DefaultFields(type)
  PROVE  WellEdited(f) /\ PictureKept(f)
<1>1. type \in Answers!BasicFieldType
  BY EditorAssumption
<1>2. CASE type \in {"section", "statement", "nric", "yes_no"}
  <2>1. f = DefaultData(type) /\ f \in PlainFields
    BY <1>2, DefaultPlain
  <2>2. f.fieldType = type
    BY <2>1 DEF DefaultData
  <2>3. LimitsOf(f) /\ PictureKept(f) /\ type # "checkbox"
    BY <1>2, <2>2 DEF LimitsOf, PictureKept
  <2>. QED  BY <2>1, <2>2, <2>3 DEF WellEdited, EditedFields, FieldKinds
<1>3. CASE type \in {"textfield", "textarea", "number", "decimal"}
  BY <1>3, DefaultText, DefaultDecimal
<1>4. CASE type \in {"dropdown", "radiobutton", "checkbox"}
  BY <1>4, DefaultDropdown, DefaultRadio, DefaultCheckbox
<1>5. CASE type \in {"rating", "date", "table", "image"}
  BY <1>5, DefaultRating, DefaultDate, DefaultTable, DefaultImage
<1>6. CASE type \in {"email", "attachment", "mobile", "homeno"}
  BY <1>6, DefaultEmail, DefaultAttachment, DefaultPhone
<1>. QED  BY <1>1, <1>2, <1>3, <1>4, <1>5, <1>6 DEF Answers!BasicFieldType

-----------------------------------------------------------------------------
(* The invariant of the modal *)

Uploads ==
    [step : {"none", "hash", "sign", "post", "kept"},
     image : Optional(Images), cancelled : BOOLEAN]

UploadInv ==
    /\ upload \in Uploads
    /\ upload.step # "none" =>
          /\ upload.image \in Images
          /\ edited # Absent =>
                edited.fieldType = "image" /\ ~HasPicture(edited)
    /\ upload.step = "kept" => upload.image \in bucket

EditorInv ==
    /\ edited # Absent => WellEdited(edited) /\ PictureKept(edited)
    /\ saved # Absent =>
          WellEdited(saved) /\ PictureKept(saved) /\ CanBeSaved(saved)
    /\ saving \in BOOLEAN
    /\ saving => edited # Absent /\ CanBeSaved(edited)
    /\ edited # Absent /\ edited.fieldType = "table" =>
          components \in Seq({AddedRow(edited)})
    /\ UploadInv

LEMMA ChangeStep ==
  ASSUME EditorInv, edited # Absent, ~saving,
         NEW g, Change(g), WellEdited(g), PictureKept(g),
         g.fieldType = edited.fieldType,
         g.fieldType = "table" => AddedRow(g) = AddedRow(edited),
         g.fieldType = "image" => ~HasPicture(g)
  PROVE  EditorInv'
<1>1. /\ edited' = g
      /\ UNCHANGED <<components, saving, saved, upload, bucket>>
  BY DEF Change, imageVars
<1>2. UploadInv'
  BY <1>1 DEF EditorInv, UploadInv
<1>3. PictureKept(g)'
  BY <1>1 DEF PictureKept
<1>4. (saved # Absent =>
          WellEdited(saved) /\ PictureKept(saved) /\ CanBeSaved(saved))'
  BY <1>1 DEF EditorInv, PictureKept
<1>5. (edited # Absent /\ edited.fieldType = "table" =>
          components \in Seq({AddedRow(edited)}))'
  BY <1>1 DEF EditorInv
<1>. QED  BY <1>1, <1>2, <1>3, <1>4, <1>5 DEF EditorInv, PictureKept

(* The inputs that no other depends on.                                    *)
LEMMA RequiredStep ==
  ASSUME EditorInv, ToggleRequired
  PROVE  EditorInv'
<1>1. edited # Absent /\ ~saving /\ WellEdited(edited)
  BY DEF ToggleRequired, Is, EditorInv
<1>2. PICK g : g = [edited EXCEPT !.required = ~@] /\ Change(g)
  BY DEF ToggleRequired
<1>3. edited.fieldType \notin {"statement", "section", "table", "image"}
  BY DEF ToggleRequired, Is
<1>4. edited \in EditedFields
  BY <1>1 DEF WellEdited
<1>5. CASE edited \in PlainFields
  <2>1. g \in PlainFields /\ g.fieldType = edited.fieldType
    BY <1>2, <1>5 DEF PlainFields
  <2>2. g.fieldType \notin {"table", "image"} /\ LimitsOf(g)
    BY <1>1, <1>2, <1>5, <2>1 DEF PlainFields, LimitsOf, WellEdited
  <2>3. g.fieldType = "checkbox" => g.boxes = Len(g.fieldOptions) + 1
    BY <1>1, <1>2, <1>5, <2>1 DEF PlainFields, WellEdited
  <2>. QED  BY <1>1, <1>2, <2>1, <2>2, <2>3, ChangeStep
            DEF WellEdited, PictureKept, EditedFields, FieldKinds
<1>6. CASE edited \in TextFields
  <2>1. g \in TextFields /\ g.fieldType = edited.fieldType
    BY <1>2, <1>6 DEF TextFields
  <2>2. g.fieldType \notin {"table", "image"} /\ LimitsOf(g)
    BY <1>1, <1>2, <1>6, <2>1 DEF TextFields, LimitsOf, WellEdited
  <2>3. g.fieldType = "checkbox" => g.boxes = Len(g.fieldOptions) + 1
    BY <1>1, <1>2, <1>6, <2>1 DEF TextFields, WellEdited
  <2>. QED  BY <1>1, <1>2, <2>1, <2>2, <2>3, ChangeStep
            DEF WellEdited, PictureKept, EditedFields, FieldKinds
<1>7. CASE edited \in DecimalFields
  <2>1. g \in DecimalFields /\ g.fieldType = edited.fieldType
    BY <1>2, <1>7 DEF DecimalFields
  <2>2. g.fieldType \notin {"table", "image"} /\ LimitsOf(g)
    BY <1>1, <1>2, <1>7, <2>1 DEF DecimalFields, LimitsOf, WellEdited
  <2>3. g.fieldType = "checkbox" => g.boxes = Len(g.fieldOptions) + 1
    BY <1>1, <1>2, <1>7, <2>1 DEF DecimalFields, WellEdited
  <2>. QED  BY <1>1, <1>2, <2>1, <2>2, <2>3, ChangeStep
            DEF WellEdited, PictureKept, EditedFields, FieldKinds
<1>8. CASE edited \in DropdownFields
  <2>1. g \in DropdownFields /\ g.fieldType = edited.fieldType
    BY <1>2, <1>8 DEF DropdownFields
  <2>2. g.fieldType \notin {"table", "image"} /\ LimitsOf(g)
    BY <1>1, <1>2, <1>8, <2>1 DEF DropdownFields, LimitsOf, WellEdited
  <2>3. g.fieldType = "checkbox" => g.boxes = Len(g.fieldOptions) + 1
    BY <1>1, <1>2, <1>8, <2>1 DEF DropdownFields, WellEdited
  <2>. QED  BY <1>1, <1>2, <2>1, <2>2, <2>3, ChangeStep
            DEF WellEdited, PictureKept, EditedFields, FieldKinds
<1>9. CASE edited \in RadioFields
  <2>1. g \in RadioFields /\ g.fieldType = edited.fieldType
    BY <1>2, <1>9 DEF RadioFields
  <2>2. g.fieldType \notin {"table", "image"} /\ LimitsOf(g)
    BY <1>1, <1>2, <1>9, <2>1 DEF RadioFields, LimitsOf, WellEdited
  <2>3. g.fieldType = "checkbox" => g.boxes = Len(g.fieldOptions) + 1
    BY <1>1, <1>2, <1>9, <2>1 DEF RadioFields, WellEdited
  <2>. QED  BY <1>1, <1>2, <2>1, <2>2, <2>3, ChangeStep
            DEF WellEdited, PictureKept, EditedFields, FieldKinds
<1>10. CASE edited \in CheckboxFields
  <2>1. g \in CheckboxFields /\ g.fieldType = edited.fieldType
    BY <1>2, <1>10 DEF CheckboxFields
  <2>2. g.fieldType \notin {"table", "image"} /\ LimitsOf(g)
    BY <1>1, <1>2, <1>10, <2>1 DEF CheckboxFields, LimitsOf, WellEdited
  <2>3. g.fieldType = "checkbox" => g.boxes = Len(g.fieldOptions) + 1
    BY <1>1, <1>2, <1>10, <2>1 DEF CheckboxFields, WellEdited
  <2>. QED  BY <1>1, <1>2, <2>1, <2>2, <2>3, ChangeStep
            DEF WellEdited, PictureKept, EditedFields, FieldKinds
<1>11. CASE edited \in RatingFields
  <2>1. g \in RatingFields /\ g.fieldType = edited.fieldType
    BY <1>2, <1>11 DEF RatingFields
  <2>2. g.fieldType \notin {"table", "image"} /\ LimitsOf(g)
    BY <1>1, <1>2, <1>11, <2>1 DEF RatingFields, LimitsOf, WellEdited
  <2>3. g.fieldType = "checkbox" => g.boxes = Len(g.fieldOptions) + 1
    BY <1>1, <1>2, <1>11, <2>1 DEF RatingFields, WellEdited
  <2>. QED  BY <1>1, <1>2, <2>1, <2>2, <2>3, ChangeStep
            DEF WellEdited, PictureKept, EditedFields, FieldKinds
<1>12. CASE edited \in DateFields
  <2>1. g \in DateFields /\ g.fieldType = edited.fieldType
    BY <1>2, <1>12 DEF DateFields
  <2>2. g.fieldType \notin {"table", "image"} /\ LimitsOf(g)
    BY <1>1, <1>2, <1>12, <2>1 DEF DateFields, LimitsOf, WellEdited
  <2>3. g.fieldType = "checkbox" => g.boxes = Len(g.fieldOptions) + 1
    BY <1>1, <1>2, <1>12, <2>1 DEF DateFields, WellEdited
  <2>. QED  BY <1>1, <1>2, <2>1, <2>2, <2>3, ChangeStep
            DEF WellEdited, PictureKept, EditedFields, FieldKinds
<1>13. CASE edited \in EmailFields
  <2>1. g \in EmailFields /\ g.fieldType = edited.fieldType
    BY <1>2, <1>13 DEF EmailFields
  <2>2. g.fieldType \notin {"table", "image"} /\ LimitsOf(g)
    BY <1>1, <1>2, <1>13, <2>1 DEF EmailFields, LimitsOf, WellEdited
  <2>3. g.fieldType = "checkbox" => g.boxes = Len(g.fieldOptions) + 1
    BY <1>1, <1>2, <1>13, <2>1 DEF EmailFields, WellEdited
  <2>. QED  BY <1>1, <1>2, <2>1, <2>2, <2>3, ChangeStep
            DEF WellEdited, PictureKept, EditedFields, FieldKinds
<1>14. CASE edited \in AttachmentFields
  <2>1. g \in AttachmentFields /\ g.fieldType = edited.fieldType
    BY <1>2, <1>14 DEF AttachmentFields
  <2>2. g.fieldType \notin {"table", "image"} /\ LimitsOf(g)
    BY <1>1, <1>2, <1>14, <2>1 DEF AttachmentFields, LimitsOf, WellEdited
  <2>3. g.fieldType = "checkbox" => g.boxes = Len(g.fieldOptions) + 1
    BY <1>1, <1>2, <1>14, <2>1 DEF AttachmentFields, WellEdited
  <2>. QED  BY <1>1, <1>2, <2>1, <2>2, <2>3, ChangeStep
            DEF WellEdited, PictureKept, EditedFields, FieldKinds
<1>15. CASE edited \in PhoneFields
  <2>1. g \in PhoneFields /\ g.fieldType = edited.fieldType
    BY <1>2, <1>15 DEF PhoneFields
  <2>2. g.fieldType \notin {"table", "image"} /\ LimitsOf(g)
    BY <1>1, <1>2, <1>15, <2>1 DEF PhoneFields, LimitsOf, WellEdited
  <2>3. g.fieldType = "checkbox" => g.boxes = Len(g.fieldOptions) + 1
    BY <1>1, <1>2, <1>15, <2>1 DEF PhoneFields, WellEdited
  <2>. QED  BY <1>1, <1>2, <2>1, <2>2, <2>3, ChangeStep
            DEF WellEdited, PictureKept, EditedFields, FieldKinds
<1>. QED  BY <1>3, <1>4, <1>5, <1>6, <1>7, <1>8, <1>9, <1>10, <1>11, <1>12, <1>13, <1>14, <1>15, KindOfField
          DEF Answers!BasicFieldType

LEMMA PhoneStep ==
  ASSUME EditorInv, ToggleInternational
  PROVE  EditorInv'
<1>1. edited # Absent /\ ~saving /\ WellEdited(edited)
  BY DEF ToggleInternational, Is, EditorInv
<1>2. PICK g : g = [edited EXCEPT !.allowIntlNumbers = ~@] /\ Change(g)
  BY DEF ToggleInternational
<1>3. edited \in PhoneFields
  BY <1>1, KindOfField DEF ToggleInternational, Is, WellEdited
<1>4. g \in PhoneFields /\ g.fieldType = edited.fieldType
  BY <1>2, <1>3 DEF PhoneFields
<1>5. g.fieldType \notin {"checkbox", "table", "image"} /\ LimitsOf(g)
  BY <1>4 DEF PhoneFields, LimitsOf
<1>. QED  BY <1>1, <1>2, <1>4, <1>5, ChangeStep
          DEF WellEdited, PictureKept, EditedFields, FieldKinds

LEMMA StepsStep ==
  ASSUME EditorInv, ChooseSteps
  PROVE  EditorInv'
<1>1. edited # Absent /\ ~saving /\ WellEdited(edited)
  BY DEF ChooseSteps, Is, EditorInv
<1>2. PICK g : /\ \E n \in {1, 10} : g = [edited EXCEPT !.steps = n]
               /\ Change(g)
  BY DEF ChooseSteps
<1>3. edited \in RatingFields
  BY <1>1, KindOfField DEF ChooseSteps, Is, WellEdited
<1>4. g \in RatingFields /\ g.fieldType = edited.fieldType
  BY <1>2, <1>3 DEF RatingFields
<1>5. g.fieldType \notin {"checkbox", "table", "image"} /\ LimitsOf(g)
  BY <1>4 DEF RatingFields, LimitsOf
<1>. QED  BY <1>1, <1>2, <1>4, <1>5, ChangeStep
          DEF WellEdited, PictureKept, EditedFields, FieldKinds

LEMMA AttachmentStep ==
  ASSUME EditorInv, ChooseAttachmentSize
  PROVE  EditorInv'
<1>1. edited # Absent /\ ~saving /\ WellEdited(edited)
  BY DEF ChooseAttachmentSize, Is, EditorInv
<1>2. PICK g : /\ \E size \in Answers!AttachmentSizesMb :
                     g = [edited EXCEPT !.attachmentSize = size]
               /\ Change(g)
  BY DEF ChooseAttachmentSize
<1>3. edited \in AttachmentFields
  BY <1>1, KindOfField DEF ChooseAttachmentSize, Is, WellEdited
<1>4. g \in AttachmentFields /\ g.fieldType = edited.fieldType
  BY <1>2, <1>3 DEF AttachmentFields
<1>5. g.fieldType \notin {"checkbox", "table", "image"} /\ LimitsOf(g)
  BY <1>4 DEF AttachmentFields, LimitsOf
<1>. QED  BY <1>1, <1>2, <1>4, <1>5, ChangeStep
          DEF WellEdited, PictureKept, EditedFields, FieldKinds

LEMMA AutoReplyStep ==
  ASSUME EditorInv, EditAutoReply
  PROVE  EditorInv'
<1>1. edited # Absent /\ ~saving /\ WellEdited(edited)
  BY DEF EditAutoReply, Is, EditorInv
<1>2. PICK g :
         /\ \/ g = [edited EXCEPT !.hasAutoReply = ~@, !.colonInSender = FALSE]
            \/ g = [edited EXCEPT !.includeFormSummary = ~@]
            \/ g = [edited EXCEPT !.colonInSender = ~@]
         /\ Change(g)
  BY DEF EditAutoReply
<1>3. edited \in EmailFields
  BY <1>1, KindOfField DEF EditAutoReply, Is, WellEdited
<1>4. g \in EmailFields /\ g.fieldType = edited.fieldType
  BY <1>2, <1>3 DEF EmailFields
<1>5. g.fieldType \notin {"checkbox", "table", "image"} /\ LimitsOf(g)
  BY <1>4 DEF EmailFields, LimitsOf
<1>. QED  BY <1>1, <1>2, <1>4, <1>5, ChangeStep
          DEF WellEdited, PictureKept, EditedFields, FieldKinds

-----------------------------------------------------------------------------
(* The inputs of limits *)

LEMMA TextLimitStep ==
  ASSUME EditorInv, SelectValidation \/ TypeLimit
  PROVE  EditorInv'
<1>1. edited # Absent /\ ~saving /\ WellEdited(edited)
  BY DEF SelectValidation, TypeLimit, Is, EditorInv
<1>2. edited \in TextFields
  BY <1>1, KindOfField DEF SelectValidation, TypeLimit, Is, WellEdited
<1>3. PICK g : /\ \/ \E selected \in Optional({"Maximum", "Minimum", "Exact"}) :
                        g = ResetValidation(edited, selected)
                  \/ \E val \in Optional(Limits) : g = ChangeFxn(edited, val)
               /\ Change(g)
  BY DEF SelectValidation, TypeLimit, Optional
<1>4. /\ g \in TextFields /\ g.fieldType = edited.fieldType
      /\ g.customMax = (IF g.selectedValidation \in {"Maximum", "Exact"}
                        THEN g.customVal ELSE Absent)
      /\ g.customMin = (IF g.selectedValidation \in {"Minimum", "Exact"}
                        THEN g.customVal ELSE Absent)
  <2>1. CASE \E selected \in Optional({"Maximum", "Minimum", "Exact"}) :
                g = ResetValidation(edited, selected)
    BY <1>2, <2>1 DEF TextFields, ResetValidation, Optional
  <2>2. CASE \E val \in Optional(Limits) : g = ChangeFxn(edited, val)
    <3>1. PICK val \in Optional(Limits) : g = ChangeFxn(edited, val)
      BY <2>2
    <3>2. PICK selected, max, min :
             /\ selected = edited.selectedValidation
             /\ max = IF selected \in {"Maximum", "Exact"} THEN val ELSE Absent
             /\ min = IF selected \in {"Minimum", "Exact"} THEN val ELSE Absent
      OBVIOUS
    <3>3. g = [edited EXCEPT !.customVal = val, !.customMax = max,
                             !.customMin = min]
      BY <3>1, <3>2 DEF ChangeFxn
    <3>4. {val, max, min} \subseteq Optional(Limits)
      BY <3>2 DEF Optional
    <3>5. /\ g \in TextFields /\ g.fieldType = edited.fieldType
          /\ g.customVal = val /\ g.customMax = max /\ g.customMin = min
          /\ g.selectedValidation = selected
      BY <1>2, <3>2, <3>3, <3>4 DEF TextFields
    <3>. QED  BY <3>2, <3>5
  <2>. QED  BY <1>3, <2>1, <2>2
<1>5. g.fieldType \notin {"checkbox", "table", "image"} /\ LimitsOf(g)
  BY <1>4 DEF TextFields, LimitsOf
<1>. QED  BY <1>1, <1>3, <1>4, <1>5, ChangeStep
          DEF WellEdited, PictureKept, EditedFields, FieldKinds

LEMMA RangeStep ==
  ASSUME EditorInv, ToggleRange \/ TypeRange
  PROVE  EditorInv'
<1>1. edited # Absent /\ ~saving /\ WellEdited(edited)
  BY DEF ToggleRange, TypeRange, Is, EditorInv
<1>2. edited \in DecimalFields \/ edited \in CheckboxFields
  BY <1>1, KindOfField DEF ToggleRange, TypeRange, Is, WellEdited
<1>3. PICK g :
         /\ \/ g = [edited EXCEPT !.validateByValue = ~@,
                                  !.customMin = Absent, !.customMax = Absent]
            \/ /\ edited.validateByValue
               /\ \E val \in Optional(Limits) :
                     \/ g = [edited EXCEPT !.customMin = val]
                     \/ g = [edited EXCEPT !.customMax = val]
         /\ Change(g)
  BY DEF ToggleRange, TypeRange, Optional
<1>4. /\ g \in DecimalFields \/ g \in CheckboxFields
      /\ g.fieldType = edited.fieldType
      /\ ~g.validateByValue => g.customMin = Absent /\ g.customMax = Absent
      /\ g.fieldType = "checkbox" => g.boxes = Len(g.fieldOptions) + 1
  <2>1. CASE edited \in DecimalFields
    BY <1>3, <2>1 DEF DecimalFields, Optional
  <2>2. CASE edited \in CheckboxFields
    <3>1. edited.boxes = Len(edited.fieldOptions) + 1
      BY <1>1, <2>2 DEF WellEdited, CheckboxFields
    <3>. QED  BY <1>3, <2>2, <3>1 DEF CheckboxFields, Optional
  <2>. QED  BY <1>2, <2>1, <2>2
<1>5. g.fieldType \notin {"table", "image"} /\ LimitsOf(g)
  BY <1>4 DEF DecimalFields, CheckboxFields, LimitsOf
<1>. QED  BY <1>1, <1>3, <1>4, <1>5, ChangeStep
          DEF WellEdited, PictureKept, EditedFields, FieldKinds

LEMMA DateLimitStep ==
  ASSUME EditorInv, SelectDateValidation \/ PickDate
  PROVE  EditorInv'
<1>1. edited # Absent /\ ~saving /\ WellEdited(edited)
  BY DEF SelectDateValidation, PickDate, Is, EditorInv
<1>2. edited \in DateFields
  BY <1>1, KindOfField DEF SelectDateValidation, PickDate, Is, WellEdited
<1>3. PICK g :
         /\ \/ \E selected \in Answers!DateValidations :
                  g = [edited EXCEPT !.selectedDateValidation = selected,
                                     !.customMinDate = Absent,
                                     !.customMaxDate = Absent]
            \/ /\ edited.selectedDateValidation = "Custom date range"
               /\ \E day \in Optional({-1, 0, 1}) :
                     \/ g = [edited EXCEPT !.customMinDate = day]
                     \/ g = [edited EXCEPT !.customMaxDate = day]
         /\ Change(g)
  BY DEF SelectDateValidation, PickDate, Optional
<1>4. /\ g \in DateFields /\ g.fieldType = edited.fieldType
      /\ g.selectedDateValidation # "Custom date range" =>
            g.customMinDate = Absent /\ g.customMaxDate = Absent
  BY <1>2, <1>3 DEF DateFields, Optional
<1>5. g.fieldType \notin {"checkbox", "table", "image"} /\ LimitsOf(g)
  BY <1>4 DEF DateFields, LimitsOf
<1>. QED  BY <1>1, <1>3, <1>4, <1>5, ChangeStep
          DEF WellEdited, PictureKept, EditedFields, FieldKinds

-----------------------------------------------------------------------------
(* The inputs of options *)

LEMMA RemovedAt ==
  ASSUME NEW S, NEW s \in Seq(S), NEW i \in DOMAIN s
  PROVE  /\ RemoveAt(s, i) \in Seq(S)
         /\ Len(RemoveAt(s, i)) = Len(s) - 1
         /\ \A k \in DOMAIN RemoveAt(s, i) :
               RemoveAt(s, i)[k] = IF k < i THEN s[k] ELSE s[k + 1]
<1>1. i \in 1 .. Len(s) /\ Len(s) \in Nat
  OBVIOUS
<1>. DEFINE a == SubSeq(s, 1, i - 1)
            b == SubSeq(s, i + 1, Len(s))
<1>2. /\ a \in Seq(S) /\ Len(a) = i - 1
      /\ \A k \in 1 .. i - 1 : a[k] = s[k]
  BY <1>1
<1>3. /\ b \in Seq(S) /\ Len(b) = Len(s) - i
      /\ \A k \in 1 .. Len(s) - i : b[k] = s[i + k]
  BY <1>1
<1>. HIDE DEF a, b
<1>4. /\ a \o b \in Seq(S) /\ Len(a \o b) = Len(a) + Len(b)
      /\ \A k \in 1 .. Len(a) + Len(b) :
            (a \o b)[k] = IF k <= Len(a) THEN a[k] ELSE b[k - Len(a)]
  BY <1>2, <1>3, ConcatProperties
<1>5. RemoveAt(s, i) = a \o b
  BY DEF RemoveAt, a, b
<1>6. Len(a) + Len(b) = Len(s) - 1
  BY <1>1, <1>2, <1>3
<1>7. ASSUME NEW k \in 1 .. Len(s) - 1
      PROVE  (a \o b)[k] = IF k < i THEN s[k] ELSE s[k + 1]
  <2>1. CASE k < i
    <3>1. k <= Len(a) /\ k \in 1 .. i - 1
      BY <1>1, <1>2, <2>1
    <3>2. k \in 1 .. Len(a) + Len(b)
      BY <1>6
    <3>. QED  BY <1>2, <1>4, <2>1, <3>1, <3>2
  <2>2. CASE ~(k < i)
    <3>1. k - Len(a) \in 1 .. Len(s) - i /\ i + (k - Len(a)) = k + 1
      BY <1>1, <1>2, <2>2
    <3>2. (a \o b)[k] = b[k - Len(a)]
      <4>1. ~(k <= Len(a))
        BY <1>1, <1>2, <2>2
      <4>2. k \in 1 .. Len(a) + Len(b)
        BY <1>6
      <4>. QED  BY <1>4, <4>1, <4>2
    <3>. QED  BY <1>3, <2>2, <3>1, <3>2
  <2>. QED  BY <2>1, <2>2
<1>8. DOMAIN (a \o b) = 1 .. Len(s) - 1
  BY <1>4, <1>6
<1>. QED  BY <1>4, <1>5, <1>6, <1>7, <1>8

LEMMA SelectedInSeq ==
  ASSUME NEW s, DOMAIN s = 1 .. Len(s), Len(s) \in Nat, NEW e \in ToSet(s)
  PROVE  SelectInSeq(s, LAMBDA o : o = e) \in DOMAIN s
<1>. DEFINE I == {i \in 1 .. Len(s) : s[i] = e}
<1>1. I # {} /\ I \in SUBSET Nat
  BY DEF ToSet
<1>2. SelectInSeq(s, LAMBDA o : o = e) = Min(I)
  BY <1>1 DEF SelectInSeq
<1>3. \E n \in I : \A m \in I : n <= m
  <2>. HIDE DEF I
  <2>. QED  BY <1>1, LeastExists
<1>4. Min(I) \in I
  <2>. HIDE DEF I
  <2>. QED  BY <1>3 DEF Min
<1>. QED  BY <1>2, <1>4

(* The fields with a box or a line for each option.                        *)
OptionsKept(g, f, n) ==
    /\ g.fieldType = f.fieldType
    /\ \/ /\ f \in RadioFields /\ g \in RadioFields
       \/ /\ f \in CheckboxFields /\ g \in CheckboxFields
          /\ g.boxes = f.boxes + n
          /\ Len(g.fieldOptions) = Len(f.fieldOptions) + n
          /\ g.validateByValue = f.validateByValue
          /\ g.customMin = f.customMin /\ g.customMax = f.customMax

LEMMA OptionsStep ==
  ASSUME EditorInv, edited # Absent, ~saving,
         NEW g, NEW n \in {-1, 0, 1}, Change(g), OptionsKept(g, edited, n)
  PROVE  EditorInv'
<1>1. WellEdited(edited)
  BY DEF EditorInv
<1>2. /\ g \in RadioFields \/ g \in CheckboxFields
      /\ g.fieldType = edited.fieldType
  BY DEF OptionsKept
<1>3. g.fieldType \in {"radiobutton", "checkbox"}
  BY <1>2 DEF RadioFields, CheckboxFields
<1>4. /\ g.fieldType = "checkbox" => g.boxes = Len(g.fieldOptions) + 1
      /\ g.fieldType = "checkbox" /\ ~g.validateByValue
            => g.customMin = Absent /\ g.customMax = Absent
  <2>1. CASE g \in RadioFields
    BY <2>1 DEF RadioFields
  <2>2. CASE g \in CheckboxFields
    <3>1. g.fieldType = "checkbox" /\ edited.fieldType = "checkbox"
      BY <1>2, <2>2 DEF CheckboxFields
    <3>2. /\ edited \in CheckboxFields /\ g.boxes = edited.boxes + n
          /\ Len(g.fieldOptions) = Len(edited.fieldOptions) + n
          /\ g.validateByValue = edited.validateByValue
          /\ g.customMin = edited.customMin /\ g.customMax = edited.customMax
      BY <3>1 DEF OptionsKept, RadioFields
    <3>3. edited.boxes \in Int /\ Len(edited.fieldOptions) \in Nat
      BY <3>2 DEF CheckboxFields
    <3>. QED  BY <1>1, <3>1, <3>2, <3>3 DEF WellEdited, LimitsOf
  <2>. QED  BY <1>2, <2>1, <2>2
<1>5. LimitsOf(g)
  BY <1>3, <1>4 DEF LimitsOf
<1>. QED  BY <1>2, <1>3, <1>4, <1>5, ChangeStep
          DEF WellEdited, PictureKept, EditedFields, FieldKinds

LEMMA IsOptions ==
  ASSUME EditorInv, Is({"radiobutton", "checkbox"})
  PROVE  /\ edited # Absent /\ ~saving
         /\ edited \in RadioFields \/ edited \in CheckboxFields
         /\ edited.fieldType = "radiobutton" <=> edited \in RadioFields
         /\ edited.fieldType = "checkbox" <=> edited \in CheckboxFields
         /\ edited.fieldOptions \in Seq(Options)
<1>1. edited # Absent /\ ~saving /\ edited \in EditedFields
  BY DEF Is, EditorInv, WellEdited
<1>2. /\ edited \in RadioFields \/ edited \in CheckboxFields
      /\ edited.fieldType = "radiobutton" <=> edited \in RadioFields
      /\ edited.fieldType = "checkbox" <=> edited \in CheckboxFields
  BY <1>1, KindOfField DEF Is
<1>. QED  BY <1>1, <1>2 DEF RadioFields, CheckboxFields

LEMMA AddOptionStep ==
  ASSUME EditorInv, AddOption
  PROVE  EditorInv'
<1>1. Is({"radiobutton", "checkbox"})
  BY DEF AddOption
<1>. DEFINE n == Len(edited.fieldOptions)
            options == Append(edited.fieldOptions, OptionTexts[n + 1])
            added == [edited EXCEPT !.fieldOptions = options]
<1>2. PICK g :
         /\ g = IF edited.fieldType = "checkbox"
                THEN [added EXCEPT !.boxes = @ + 1] ELSE added
         /\ Change(g)
  BY DEF AddOption
<1>3. n < MaxOptions
  BY DEF AddOption
<1>4. OptionTexts[n + 1] \in Options
  <2>1. n \in Nat
    BY <1>1, IsOptions
  <2>2. n + 1 \in 1 .. Len(OptionTexts)
    BY <1>3, <2>1, EditorAssumption
  <2>3. OptionTexts \in Seq(ToSet(OptionTexts))
    BY EditorAssumption
  <2>. HIDE DEF n
  <2>. QED  BY <2>2, <2>3 DEF Options
<1>5. options \in Seq(Options) /\ Len(options) = n + 1
  BY <1>1, <1>4, IsOptions
<1>6. OptionsKept(g, edited, 1)
  <2>. HIDE DEF options, n
  <2>1. CASE edited \in RadioFields
    <3>1. edited.fieldType = "radiobutton"
      BY <2>1 DEF RadioFields
    <3>2. g = added
      BY <1>2, <3>1
    <3>. QED  BY <1>5, <2>1, <3>2 DEF RadioFields, OptionsKept
  <2>2. CASE edited \in CheckboxFields
    <3>1. edited.fieldType = "checkbox"
      BY <2>2 DEF CheckboxFields
    <3>2. g = [added EXCEPT !.boxes = @ + 1]
      BY <1>2, <3>1
    <3>3. g \in CheckboxFields /\ g.boxes = edited.boxes + 1
      <4>1. edited.boxes \in Int /\ edited.boxes + 1 \in Int
        BY <2>2 DEF CheckboxFields
      <4>2. added \in CheckboxFields /\ added.boxes = edited.boxes
        BY <1>5, <2>2 DEF CheckboxFields
      <4>3. g.boxes = edited.boxes + 1
        BY <3>2, <4>2 DEF CheckboxFields
      <4>. HIDE DEF added
      <4>. QED  BY <3>2, <4>1, <4>2, <4>3 DEF CheckboxFields
    <3>4. /\ g.fieldOptions = options /\ g.fieldType = edited.fieldType
          /\ g.validateByValue = edited.validateByValue
          /\ g.customMin = edited.customMin /\ g.customMax = edited.customMax
      BY <2>2, <3>2 DEF CheckboxFields
    <3>. QED  BY <1>5, <2>2, <3>3, <3>4 DEF OptionsKept, n
  <2>. QED  BY <1>1, <2>1, <2>2, IsOptions
<1>. QED
  <2>1. edited # Absent /\ ~saving
    BY <1>1 DEF Is
  <2>. HIDE DEF added
  <2>. QED  BY <1>2, <1>6, <2>1, OptionsStep

LEMMA DeleteOptionStep ==
  ASSUME EditorInv, DeleteOption
  PROVE  EditorInv'
<1>1. Is({"radiobutton", "checkbox"})
  BY DEF DeleteOption
<1>2. PICK option \in ToSet(edited.fieldOptions) :
         LET at == SelectInSeq(edited.fieldOptions, LAMBDA o : o = option)
             rest == [edited EXCEPT !.fieldOptions = RemoveAt(@, at)]
         IN  Change(IF edited.fieldType = "checkbox"
                    THEN [rest EXCEPT !.boxes = @ - 1] ELSE rest)
  BY DEF DeleteOption
<1>. DEFINE at == SelectInSeq(edited.fieldOptions, LAMBDA o : o = option)
            options == RemoveAt(edited.fieldOptions, at)
            rest == [edited EXCEPT !.fieldOptions = options]
<1>3. PICK g :
         /\ g = IF edited.fieldType = "checkbox"
                THEN [rest EXCEPT !.boxes = @ - 1] ELSE rest
         /\ Change(g)
  BY <1>2
<1>4. at \in DOMAIN edited.fieldOptions
  <2>1. edited.fieldOptions \in Seq(Options)
    BY <1>1, IsOptions
  <2>2. /\ DOMAIN edited.fieldOptions = 1 .. Len(edited.fieldOptions)
        /\ Len(edited.fieldOptions) \in Nat
    BY <2>1
  <2>. QED  BY <1>2, <2>2, SelectedInSeq
<1>5. options \in Seq(Options) /\ Len(options) = Len(edited.fieldOptions) - 1
  <2>. HIDE DEF at
  <2>. QED  BY <1>1, <1>4, IsOptions, RemovedAt
<1>6. OptionsKept(g, edited, -1)
  <2>. HIDE DEF options, at
  <2>1. CASE edited \in RadioFields
    <3>1. edited.fieldType = "radiobutton"
      BY <2>1 DEF RadioFields
    <3>2. g = rest
      BY <1>3, <3>1
    <3>. QED  BY <1>5, <2>1, <3>2 DEF RadioFields, OptionsKept
  <2>2. CASE edited \in CheckboxFields
    <3>1. edited.fieldType = "checkbox"
      BY <2>2 DEF CheckboxFields
    <3>2. g = [rest EXCEPT !.boxes = @ - 1]
      BY <1>3, <3>1
    <3>3. g \in CheckboxFields /\ g.boxes = edited.boxes + (-1)
      <4>1. /\ edited.boxes \in Int /\ edited.boxes - 1 \in Int
            /\ edited.boxes - 1 = edited.boxes + (-1)
        BY <2>2 DEF CheckboxFields
      <4>2. rest \in CheckboxFields /\ rest.boxes = edited.boxes
        BY <1>5, <2>2 DEF CheckboxFields
      <4>3. g.boxes = edited.boxes - 1
        BY <3>2, <4>2 DEF CheckboxFields
      <4>. HIDE DEF rest
      <4>. QED  BY <3>2, <4>1, <4>2, <4>3 DEF CheckboxFields
    <3>4. /\ g.fieldOptions = options /\ g.fieldType = edited.fieldType
          /\ g.validateByValue = edited.validateByValue
          /\ g.customMin = edited.customMin /\ g.customMax = edited.customMax
      BY <2>2, <3>2 DEF CheckboxFields
    <3>5. Len(options) = Len(edited.fieldOptions) + (-1)
      BY <1>5, <2>2 DEF CheckboxFields
    <3>. QED  BY <2>2, <3>3, <3>4, <3>5 DEF OptionsKept
  <2>. QED  BY <1>1, <2>1, <2>2, IsOptions
<1>. QED
  <2>1. edited # Absent /\ ~saving
    BY <1>1 DEF Is
  <2>. HIDE DEF rest
  <2>. QED  BY <1>3, <1>6, <2>1, OptionsStep

LEMMA TypeOptionStep ==
  ASSUME EditorInv, TypeOption \/ ToggleOthers
  PROVE  EditorInv'
<1>1. Is({"radiobutton", "checkbox"})
  BY DEF TypeOption, ToggleOthers
<1>2. PICK g :
         /\ \/ \E i \in DOMAIN edited.fieldOptions, option \in TypedOptions :
                  g = [edited EXCEPT !.fieldOptions =
                          [edited.fieldOptions EXCEPT ![i] = option]]
            \/ g = [edited EXCEPT !.othersRadioButton = ~@]
         /\ Change(g)
  BY DEF TypeOption, ToggleOthers
<1>3. \A i \in DOMAIN edited.fieldOptions, option \in TypedOptions :
         LET s == [edited.fieldOptions EXCEPT ![i] = option]
         IN  s \in Seq(Options) /\ Len(s) = Len(edited.fieldOptions)
  BY <1>1, IsOptions DEF Options
<1>4. PICK options \in Seq(Options) :
         /\ Len(options) = Len(edited.fieldOptions)
         /\ \/ g = [edited EXCEPT !.fieldOptions = options]
            \/ g = [edited EXCEPT !.othersRadioButton = ~@]
  BY <1>1, <1>2, <1>3, IsOptions
<1>5. OptionsKept(g, edited, 0)
  <2>1. CASE edited \in RadioFields
    BY <1>4, <2>1 DEF RadioFields, OptionsKept
  <2>2. CASE edited \in CheckboxFields
    <3>1. g \in CheckboxFields /\ g.boxes = edited.boxes + 0
      <4>1. edited.boxes \in Int /\ edited.boxes + 0 = edited.boxes
        BY <2>2 DEF CheckboxFields
      <4>2. g.boxes = edited.boxes
        BY <1>4, <2>2 DEF CheckboxFields
      <4>3. g \in CheckboxFields
        BY <1>4, <2>2 DEF CheckboxFields
      <4>. QED  BY <4>1, <4>2, <4>3
    <3>2. /\ Len(g.fieldOptions) = Len(edited.fieldOptions)
          /\ g.fieldType = edited.fieldType
          /\ g.validateByValue = edited.validateByValue
          /\ g.customMin = edited.customMin /\ g.customMax = edited.customMax
      BY <1>4, <2>2 DEF CheckboxFields
    <3>3. Len(edited.fieldOptions) = Len(edited.fieldOptions) + 0
      BY <2>2 DEF CheckboxFields
    <3>. QED  BY <2>2, <3>1, <3>2, <3>3 DEF OptionsKept
  <2>. QED  BY <1>1, <2>1, <2>2, IsOptions
<1>. QED
  <2>1. edited # Absent /\ ~saving
    BY <1>1 DEF Is
  <2>. QED  BY <1>2, <1>5, <2>1, OptionsStep

LEMMA LinesAreOptions ==
  ASSUME NEW lines \in TypedLines
  PROVE  lines \in Seq(Options)
<1>1. PICK m \in 0 .. MaxOptions : lines \in [1 .. m -> TypedOptions]
  BY DEF TypedLines, SeqOf
<1>2. m \in Nat
  BY <1>1, EditorAssumption
<1>. QED  BY <1>1, <1>2 DEF Options

LEMMA DropdownStep ==
  ASSUME EditorInv, TypeDropdownOptions
  PROVE  EditorInv'
<1>1. edited # Absent /\ ~saving /\ WellEdited(edited)
  BY DEF TypeDropdownOptions, Is, EditorInv
<1>2. edited \in DropdownFields
  BY <1>1, KindOfField DEF TypeDropdownOptions, Is, WellEdited
<1>3. PICK g : /\ \E lines \in Seq(Options) :
                     g = [edited EXCEPT !.fieldOptions = lines]
               /\ Change(g)
  BY LinesAreOptions DEF TypeDropdownOptions
<1>4. g \in DropdownFields /\ g.fieldType = edited.fieldType
  BY <1>2, <1>3 DEF DropdownFields
<1>5. g.fieldType \notin {"checkbox", "table", "image"} /\ LimitsOf(g)
  BY <1>4 DEF DropdownFields, LimitsOf
<1>. QED  BY <1>1, <1>3, <1>4, <1>5, ChangeStep
          DEF WellEdited, PictureKept, EditedFields, FieldKinds

-----------------------------------------------------------------------------
(* The rows and the columns of a table *)

LEMMA IsTable ==
  ASSUME EditorInv, Is({"table"})
  PROVE  /\ edited # Absent /\ ~saving
         /\ edited \in TableFields
         /\ components \in Seq({AddedRow(edited)})
BY KindOfField DEF Is, EditorInv, WellEdited

LEMMA TableStep ==
  ASSUME EditorInv, Is({"table"}),
         NEW g \in TableFields, edited' = g,
         components' \in Seq({AddedRow(g)}),
         UNCHANGED <<saving, saved, imageVars>>
  PROVE  EditorInv'
<1>1. edited # Absent /\ ~saving /\ edited.fieldType = "table"
  BY DEF Is
<1>2. g.fieldType = "table"
  BY DEF TableFields
<1>3. upload.step = "none"
  BY <1>1 DEF EditorInv, UploadInv
<1>4. UploadInv'
  BY <1>3 DEF EditorInv, UploadInv, imageVars
<1>5. WellEdited(g) /\ PictureKept(g)'
  BY <1>2 DEF WellEdited, LimitsOf, PictureKept, EditedFields, FieldKinds
<1>6. (saved # Absent =>
          WellEdited(saved) /\ PictureKept(saved) /\ CanBeSaved(saved))'
  BY DEF EditorInv, PictureKept, imageVars
<1>7. (edited # Absent => WellEdited(edited) /\ PictureKept(edited))'
  BY <1>5 DEF PictureKept
<1>8. ~saving'
  BY <1>1
<1>. QED  BY <1>1, <1>4, <1>6, <1>7, <1>8 DEF EditorInv

(* The cells of a row are those of the columns.                            *)
LEMMA RowCells ==
  ASSUME NEW f \in TableFields
  PROVE  /\ f.columns \in Seq(Columns)
         /\ AddedRow(f) \in Seq({CellOf(column) : column \in Columns})
         /\ Len(AddedRow(f)) = Len(f.columns)
         /\ AddedRow(f) = [c \in 1 .. Len(f.columns) |-> CellOf(f.columns[c])]
<1>1. f.columns \in Seq(Columns)
  BY DEF TableFields
<1>2. AddedRow(f) = [c \in 1 .. Len(f.columns) |-> CellOf(f.columns[c])]
  BY <1>1 DEF AddedRow
<1>3. \A c \in 1 .. Len(f.columns) :
         CellOf(f.columns[c]) \in {CellOf(column) : column \in Columns}
  BY <1>1
<1>4. Len(f.columns) \in Nat
  BY <1>1
<1>. QED  BY <1>1, <1>2, <1>3, <1>4

LEMMA RenderedRows ==
  ASSUME NEW f \in TableFields
  PROVE  Rendered(f) \in Seq({AddedRow(f)})
<1>1. f.fieldType = "table"
  BY DEF TableFields
<1>2. CASE f.minimumRows = Absent
  BY <1>1, <1>2 DEF Rendered
<1>3. CASE f.minimumRows # Absent
  <2>1. f.minimumRows \in 1 .. MaxRows
    BY <1>3 DEF TableFields, Optional
  <2>2. Rendered(f) = [i \in 1 .. f.minimumRows |-> AddedRow(f)]
    BY <1>1, <1>3 DEF Rendered
  <2>3. f.minimumRows \in Nat
    <3>1. MaxRows \in Nat \ {0, 1}
      BY RespondentsAssumption
    <3>. QED  BY <2>1, <3>1
  <2>. QED  BY <2>2, <2>3
<1>. QED  BY <1>2, <1>3

(* The rows that have had one change each are those of the new columns.    *)
LEMMA ChangedRows ==
  ASSUME NEW old, NEW rows \in Seq({old}), NEW new,
         NEW changed, changed = [i \in DOMAIN rows |-> new]
  PROVE  changed \in Seq({new})
OBVIOUS

LEMMA RowsStep ==
  ASSUME EditorInv, \/ ToggleAddMoreRows \/ TypeMinimumRows
                    \/ TypeMaximumRows \/ AddPreviewRow \/ DeletePreviewRow
  PROVE  EditorInv'
<1>1. Is({"table"})
  BY DEF ToggleAddMoreRows, TypeMinimumRows, TypeMaximumRows, AddPreviewRow,
         DeletePreviewRow
<1>2. /\ edited # Absent /\ edited \in TableFields
      /\ components \in Seq({AddedRow(edited)})
  BY <1>1, IsTable
<1>3. /\ edited.minimumRows = Absent \/ edited.minimumRows \in Nat \ {0}
      /\ edited.additionalRowCount \in Nat
  <2>1. MaxRows \in Nat \ {0, 1}
    BY RespondentsAssumption
  <2>. QED  BY <1>2, <2>1 DEF TableFields, Optional
<1>4. CASE ToggleAddMoreRows
  <2>1. PICK g :
           /\ g = IF edited.addMoreRows
                  THEN [edited EXCEPT !.addMoreRows = FALSE,
                                      !.maximumRows = Absent]
                  ELSE [edited EXCEPT
                          !.addMoreRows = TRUE,
                          !.maximumRows = 1 + (IF edited.minimumRows = Absent
                                               THEN 0 ELSE edited.minimumRows),
                          !.additionalRowCount = 0]
           /\ Change(g)
    BY <1>4 DEF ToggleAddMoreRows
  <2>2. 1 + (IF edited.minimumRows = Absent THEN 0 ELSE edited.minimumRows)
           \in Int
    BY <1>3
  <2>3. g \in TableFields /\ g.columns = edited.columns
    BY <1>2, <2>1, <2>2 DEF TableFields, Optional
  <2>4. AddedRow(g) = AddedRow(edited)
    BY <2>3 DEF AddedRow
  <2>. QED  BY <1>1, <1>2, <2>1, <2>3, <2>4, TableStep DEF Change
<1>5. CASE TypeMinimumRows
  <2>1. PICK g : /\ \E n \in Optional(1 .. MaxRows) :
                       g = [edited EXCEPT !.minimumRows = n]
                 /\ ChangeTable(g, Rendered(g))
    BY <1>5 DEF TypeMinimumRows, Optional
  <2>2. g \in TableFields
    BY <1>2, <2>1 DEF TableFields
  <2>. QED  BY <1>1, <2>1, <2>2, RenderedRows, TableStep DEF ChangeTable
<1>6. CASE TypeMaximumRows
  <2>1. PICK g : /\ \E n \in Optional(Int) :
                       g = [edited EXCEPT !.maximumRows = n]
                 /\ Change(g)
    BY <1>6, EditorAssumption DEF TypeMaximumRows, Optional
  <2>2. g \in TableFields /\ g.columns = edited.columns
    BY <1>2, <2>1 DEF TableFields
  <2>3. AddedRow(g) = AddedRow(edited)
    BY <2>2 DEF AddedRow
  <2>. QED  BY <1>1, <1>2, <2>1, <2>2, <2>3, TableStep DEF Change
<1>7. CASE AddPreviewRow
  <2>1. PICK g : /\ g = [edited EXCEPT !.additionalRowCount = @ + 1]
                 /\ ChangeTable(g, Append(components, AddedRow(edited)))
    BY <1>7 DEF AddPreviewRow
  <2>2. g \in TableFields /\ g.columns = edited.columns
    <3>1. edited.additionalRowCount + 1 \in Nat
      BY <1>3
    <3>. QED  BY <1>2, <2>1, <3>1 DEF TableFields
  <2>3. AddedRow(g) = AddedRow(edited)
    BY <2>2 DEF AddedRow
  <2>4. Append(components, AddedRow(edited)) \in Seq({AddedRow(g)})
    BY <1>2, <2>3
  <2>. QED  BY <1>1, <2>1, <2>2, <2>4, TableStep DEF ChangeTable
<1>8. CASE DeletePreviewRow
  <2>1. PICK n \in 1 + NumRows - edited.additionalRowCount .. NumRows :
           ChangeTable([edited EXCEPT !.additionalRowCount = @ - 1],
                       IF n > Len(components) THEN components
                       ELSE RemoveAt(components, n))
    BY <1>8 DEF DeletePreviewRow
  <2>2. edited.additionalRowCount > 0
    BY <1>8 DEF DeletePreviewRow
  <2>3. PICK g : /\ g = [edited EXCEPT !.additionalRowCount = @ - 1]
                 /\ ChangeTable(g, IF n > Len(components) THEN components
                                   ELSE RemoveAt(components, n))
    BY <2>1
  <2>4. g \in TableFields /\ g.columns = edited.columns
    <3>1. edited.additionalRowCount - 1 \in Nat
      BY <1>3, <2>2
    <3>. QED  BY <1>2, <2>3, <3>1 DEF TableFields
  <2>5. AddedRow(g) = AddedRow(edited)
    BY <2>4 DEF AddedRow
  <2>6. n \in Int /\ n >= 1
    <3>1. NumRows \in Nat /\ NumRows >= edited.additionalRowCount
      BY <1>3 DEF NumRows
    <3>. QED  BY <1>3, <3>1
  <2>7. (IF n > Len(components) THEN components ELSE RemoveAt(components, n))
           \in Seq({AddedRow(g)})
    <3>1. CASE n > Len(components)
      BY <1>2, <2>5, <3>1
    <3>2. CASE ~(n > Len(components))
      <4>1. n \in DOMAIN components
        BY <1>2, <2>6, <3>2
      <4>2. RemoveAt(components, n) \in Seq({AddedRow(edited)})
        BY <1>2, <4>1, RemovedAt
      <4>. QED  BY <2>5, <3>2, <4>2
    <3>. QED  BY <3>1, <3>2
  <2>. QED  BY <1>1, <2>3, <2>4, <2>7, TableStep DEF ChangeTable
<1>. QED  BY <1>4, <1>5, <1>6, <1>7, <1>8

LEMMA AddColumnStep ==
  ASSUME EditorInv, AddTableColumn
  PROVE  EditorInv'
<1>1. Is({"table"}) /\ AddColumn
  BY DEF AddTableColumn
<1>2. edited \in TableFields /\ components \in Seq({AddedRow(edited)})
  BY <1>1, IsTable
<1>. DEFINE columns == Append(edited.columns, DefaultColumn)
<1>3. PICK g : /\ g = [edited EXCEPT !.columns = columns]
               /\ ChangeTable(g, SplicedColumn(columns, Len(columns)))
  BY <1>1 DEF AddColumn
<1>4. DefaultColumn \in Columns
  BY DEF DefaultColumn, Columns, Answers!ColumnTypes
<1>5. /\ columns \in Seq(Columns) /\ Len(columns) = Len(edited.columns) + 1
      /\ \A c \in 1 .. Len(columns) :
            columns[c] = IF c = Len(columns) THEN DefaultColumn
                         ELSE edited.columns[c]
  <2>1. edited.columns \in Seq(Columns)
    BY <1>2 DEF TableFields
  <2>. QED  BY <1>4, <2>1
<1>. HIDE DEF columns
<1>6. g \in TableFields /\ g.columns = columns
  BY <1>2, <1>3, <1>5 DEF TableFields
<1>7. Append(AddedRow(edited), CellOf(columns[Len(columns)])) = AddedRow(g)
  <2>1. /\ AddedRow(edited) \in Seq({CellOf(column) : column \in Columns})
        /\ Len(AddedRow(edited)) = Len(edited.columns)
        /\ \A c \in 1 .. Len(edited.columns) :
              AddedRow(edited)[c] = CellOf(edited.columns[c])
        /\ Len(edited.columns) \in Nat
    <3>1. /\ edited.columns \in Seq(Columns)
          /\ AddedRow(edited) \in Seq({CellOf(column) : column \in Columns})
          /\ Len(AddedRow(edited)) = Len(edited.columns)
          /\ AddedRow(edited)
               = [c \in 1 .. Len(edited.columns) |-> CellOf(edited.columns[c])]
      BY <1>2, RowCells
    <3>2. Len(edited.columns) \in Nat
      BY <3>1
    <3>. QED  BY <3>1, <3>2
  <2>2. AddedRow(g) = [c \in 1 .. Len(columns) |-> CellOf(columns[c])]
    BY <1>6, RowCells
  <2>. QED  BY <1>5, <2>1, <2>2
<1>8. SplicedColumn(columns, Len(columns))
         = [i \in DOMAIN components |-> AddedRow(g)]
  <2>1. \A i \in DOMAIN components : components[i] = AddedRow(edited)
    BY <1>2
  <2>2. Len(columns) > Len(AddedRow(edited))
    <3>1. Len(AddedRow(edited)) = Len(edited.columns)
      BY <1>2, RowCells
    <3>2. Len(edited.columns) \in Nat
      BY <1>2 DEF TableFields
    <3>. QED  BY <1>5, <3>1, <3>2
  <2>. QED  BY <1>7, <2>1, <2>2 DEF SplicedColumn
<1>. QED  BY <1>1, <1>2, <1>3, <1>6, <1>8, ChangedRows, TableStep
          DEF ChangeTable

LEMMA DeleteColumnStep ==
  ASSUME EditorInv, DeleteTableColumn
  PROVE  EditorInv'
<1>1. Is({"table"})
  BY DEF DeleteTableColumn
<1>2. edited \in TableFields /\ components \in Seq({AddedRow(edited)})
  BY <1>1, IsTable
<1>3. PICK c \in DOMAIN edited.columns : DeleteColumn(c)
  BY DEF DeleteTableColumn
<1>. DEFINE columns == RemoveAt(edited.columns, c)
<1>4. PICK g :
         /\ g = [edited EXCEPT !.columns = columns]
         /\ ChangeTable(g, [i \in DOMAIN components |->
                               RemoveAt(components[i], c)])
  BY <1>3 DEF DeleteColumn
<1>5. /\ columns \in Seq(Columns) /\ Len(columns) = Len(edited.columns) - 1
      /\ \A k \in DOMAIN columns :
            columns[k] = IF k < c THEN edited.columns[k]
                         ELSE edited.columns[k + 1]
      /\ edited.columns \in Seq(Columns)
  <2>1. edited.columns \in Seq(Columns)
    BY <1>2 DEF TableFields
  <2>. QED  BY <2>1, RemovedAt
<1>. HIDE DEF columns
<1>6. g \in TableFields /\ g.columns = columns
  BY <1>2, <1>4, <1>5 DEF TableFields
<1>7. RemoveAt(AddedRow(edited), c) = AddedRow(g)
  <2>. DEFINE Cells == {CellOf(column) : column \in Columns}
              row == AddedRow(edited)
  <2>1. /\ row \in Seq(Cells) /\ Len(row) = Len(edited.columns)
        /\ row = [k \in 1 .. Len(edited.columns) |-> CellOf(edited.columns[k])]
    BY <1>2, RowCells
  <2>2. c \in DOMAIN row
    BY <1>5, <2>1
  <2>. HIDE DEF Cells, row
  <2>3. /\ RemoveAt(row, c) \in Seq(Cells)
        /\ Len(RemoveAt(row, c)) = Len(row) - 1
        /\ \A k \in DOMAIN RemoveAt(row, c) :
              RemoveAt(row, c)[k] = IF k < c THEN row[k] ELSE row[k + 1]
    BY <2>1, <2>2, RemovedAt
  <2>4. AddedRow(g) = [k \in 1 .. Len(columns) |-> CellOf(columns[k])]
    BY <1>6, RowCells
  <2>5. c \in 1 .. Len(edited.columns) /\ Len(edited.columns) \in Nat
    BY <1>5
  <2>6. DOMAIN RemoveAt(row, c) = 1 .. Len(columns)
    BY <1>5, <2>1, <2>3, <2>5
  <2>7. ASSUME NEW k \in 1 .. Len(columns)
        PROVE  RemoveAt(row, c)[k] = CellOf(columns[k])
    <3>1. k \in 1 .. Len(edited.columns) /\ k + 1 \in 1 .. Len(edited.columns)
      BY <1>5, <2>5
    <3>2. k \in DOMAIN columns
      BY <1>5
    <3>. QED  BY <1>5, <2>1, <2>3, <2>6, <3>1, <3>2
  <2>8. RemoveAt(row, c) = [k \in 1 .. Len(columns) |-> RemoveAt(row, c)[k]]
    BY <2>3, <2>6
  <2>. QED  BY <2>4, <2>7, <2>8 DEF row
<1>8. [i \in DOMAIN components |-> RemoveAt(components[i], c)]
         = [i \in DOMAIN components |-> AddedRow(g)]
  <2>1. \A i \in DOMAIN components : components[i] = AddedRow(edited)
    BY <1>2
  <2>. QED  BY <1>7, <2>1
<1>. QED  BY <1>1, <1>2, <1>4, <1>6, <1>8, ChangedRows, TableStep
          DEF ChangeTable

LEMMA ChangeColumnStep ==
  ASSUME EditorInv, Is({"table"}), NEW c \in DOMAIN edited.columns,
         NEW column \in Columns, ChangeColumn(c, column)
  PROVE  EditorInv'
<1>2. edited \in TableFields /\ components \in Seq({AddedRow(edited)})
  BY IsTable
<1>. DEFINE columns == [edited.columns EXCEPT ![c] = column]
<1>3. PICK g : /\ g = [edited EXCEPT !.columns = columns]
               /\ ChangeTable(g, SplicedColumn(columns, c))
  BY DEF ChangeColumn
<1>4. edited.columns \in Seq(Columns)
  BY <1>2 DEF TableFields
<1>5. /\ columns \in Seq(Columns) /\ Len(columns) = Len(edited.columns)
      /\ \A k \in 1 .. Len(columns) :
            columns[k] = IF k = c THEN column ELSE edited.columns[k]
      /\ c \in 1 .. Len(columns)
  BY <1>4
<1>. HIDE DEF columns
<1>6. g \in TableFields /\ g.columns = columns
  BY <1>2, <1>3, <1>5 DEF TableFields
<1>7. /\ [AddedRow(edited) EXCEPT ![c] = CellOf(columns[c])] = AddedRow(g)
      /\ ~(c > Len(AddedRow(edited)))
  <2>1. /\ AddedRow(edited)
             = [k \in 1 .. Len(columns) |-> CellOf(edited.columns[k])]
        /\ Len(AddedRow(edited)) = Len(columns)
    BY <1>2, <1>5, RowCells
  <2>2. AddedRow(g) = [k \in 1 .. Len(columns) |-> CellOf(columns[k])]
    BY <1>6, RowCells
  <2>3. ~(c > Len(AddedRow(edited)))
    BY <1>5, <2>1
  <2>. QED  BY <1>5, <2>1, <2>2, <2>3
<1>8. SplicedColumn(columns, c) = [i \in DOMAIN components |-> AddedRow(g)]
  <2>1. \A i \in DOMAIN components : components[i] = AddedRow(edited)
    BY <1>2
  <2>. QED  BY <1>7, <2>1 DEF SplicedColumn
<1>. QED  BY <1>2, <1>3, <1>6, <1>8, ChangedRows, TableStep DEF ChangeTable

LEMMA ColumnsStep ==
  ASSUME EditorInv, UpdateColumnType \/ UpdateColumnOptions \/ EditColumn
  PROVE  EditorInv'
<1>1. Is({"table"})
  BY DEF UpdateColumnType, UpdateColumnOptions, EditColumn
<1>2. /\ edited \in TableFields /\ components \in Seq({AddedRow(edited)})
      /\ edited.columns \in Seq(Columns)
  BY <1>1, IsTable DEF TableFields
<1>3. CASE UpdateColumnType
  <2>1. PICK c \in DOMAIN edited.columns, type \in Answers!ColumnTypes :
           ChangeColumn(c, [edited.columns[c] EXCEPT !.columnType = type])
    BY <1>3 DEF UpdateColumnType
  <2>2. edited.columns[c] \in Columns
    BY <1>2
  <2>3. [edited.columns[c] EXCEPT !.columnType = type] \in Columns
    BY <2>2 DEF Columns
  <2>. QED  BY <1>1, <2>1, <2>3, ChangeColumnStep
<1>4. CASE UpdateColumnOptions
  <2>1. PICK c \in DOMAIN edited.columns, lines \in TypedLines :
           ChangeColumn(c, [edited.columns[c] EXCEPT !.fieldOptions = lines])
    BY <1>4 DEF UpdateColumnOptions
  <2>2. edited.columns[c] \in Columns /\ lines \in Seq(Options)
    BY <1>2, LinesAreOptions
  <2>3. [edited.columns[c] EXCEPT !.fieldOptions = lines] \in Columns
    BY <2>2 DEF Columns
  <2>. QED  BY <1>1, <2>1, <2>3, ChangeColumnStep
<1>5. CASE EditColumn
  <2>1. PICK c \in DOMAIN edited.columns :
           \/ Change([edited EXCEPT !.columns[c].required = ~@])
           \/ Change([edited EXCEPT !.columns[c].titled = ~@])
    BY <1>5 DEF EditColumn
  <2>2. edited.columns[c] \in Columns
    BY <1>2
  <2>3. PICK column :
           /\ \/ column = [edited.columns[c] EXCEPT !.required = ~@]
              \/ column = [edited.columns[c] EXCEPT !.titled = ~@]
           /\ Change([edited EXCEPT !.columns =
                         [edited.columns EXCEPT ![c] = column]])
    BY <2>1
  <2>4. column \in Columns /\ CellOf(column) = CellOf(edited.columns[c])
    BY <2>2, <2>3 DEF Columns, CellOf
  <2>5. PICK g : /\ g = [edited EXCEPT !.columns =
                            [edited.columns EXCEPT ![c] = column]]
                 /\ Change(g)
    BY <2>3
  <2>6. g \in TableFields /\ g.columns = [edited.columns EXCEPT ![c] = column]
    <3>1. [edited.columns EXCEPT ![c] = column] \in Seq(Columns)
      BY <1>2, <2>4
    <3>. QED  BY <1>2, <2>5, <3>1 DEF TableFields
  <2>7. AddedRow(g) = AddedRow(edited)
    <3>1. DOMAIN g.columns = DOMAIN edited.columns
      BY <2>6
    <3>2. \A k \in DOMAIN edited.columns :
             CellOf(g.columns[k]) = CellOf(edited.columns[k])
      BY <2>4, <2>6
    <3>. QED  BY <3>1, <3>2 DEF AddedRow
  <2>. QED  BY <1>1, <1>2, <2>5, <2>6, <2>7, TableStep DEF Change
<1>. QED  BY <1>3, <1>4, <1>5

-----------------------------------------------------------------------------
(* Opening and saving a field, and its picture *)

LEMMA OpenStep ==
  ASSUME EditorInv, edited = Absent, NEW f, Open(f),
         WellEdited(f), PictureKept(f)
  PROVE  EditorInv'
<1>1. /\ edited' = f /\ saved' = Absent /\ upload' = NoUpload
      /\ components' = Rendered(f) /\ UNCHANGED <<saving, bucket>>
  BY DEF Open
<1>2. UploadInv'
  BY <1>1 DEF UploadInv, NoUpload, Uploads, Optional
<1>3. f.fieldType = "table" => Rendered(f) \in Seq({AddedRow(f)})
  BY KindOfField, RenderedRows DEF WellEdited
<1>4. ~saving /\ saving \in BOOLEAN
  BY DEF EditorInv
<1>. QED  BY <1>1, <1>2, <1>3, <1>4 DEF EditorInv, PictureKept

(* What is being uploaded changes nothing but the upload and the bucket.   *)
LEMMA UploadStep ==
  ASSUME EditorInv, UNCHANGED <<edited, components, saving, saved>>,
         UploadInv', bucket \subseteq bucket'
  PROVE  EditorInv'
BY DEF EditorInv, PictureKept

LEMMA UploadsStep ==
  ASSUME EditorInv, \/ UploadImage \/ CancelUpload \/ HashRead \/ PostSigned
                    \/ ImageKept \/ UploadFails
  PROVE  EditorInv'
<1>1. UploadInv /\ upload \in Uploads
  BY DEF EditorInv, UploadInv
<1>2. CASE UploadImage
  <2>1. edited.fieldType = "image"
    BY <1>2 DEF UploadImage, Is
  <2>. QED  BY <1>1, <1>2, <2>1, UploadStep
            DEF UploadImage, UploadInv, Uploads, Optional
<1>3. CASE CancelUpload
  BY <1>1, <1>3, UploadStep DEF CancelUpload, UploadInv, Uploads
<1>4. CASE HashRead
  BY <1>1, <1>4, UploadStep DEF HashRead, UploadInv, Uploads
<1>5. CASE PostSigned
  BY <1>1, <1>5, UploadStep DEF PostSigned, UploadInv, Uploads
<1>6. CASE UploadFails
  BY <1>1, <1>6, UploadStep
     DEF UploadFails, NoUpload, UploadInv, Uploads, Optional
<1>7. CASE ImageKept
  BY <1>1, <1>7, UploadStep DEF ImageKept, UploadInv, Uploads
<1>. QED  BY <1>2, <1>3, <1>4, <1>5, <1>6, <1>7

LEMMA UploadedStep ==
  ASSUME EditorInv, UploadSucceeds
  PROVE  EditorInv'
<1>1. /\ upload \in Uploads /\ upload.step = "kept"
      /\ upload.image \in Images /\ upload.image \in bucket
      /\ edited # Absent => edited.fieldType = "image"
  BY DEF EditorInv, UploadInv, UploadSucceeds, ShowsPicture
<1>2. UploadInv'
  BY DEF UploadSucceeds, UploadInv, NoUpload, Uploads, Optional
<1>3. (saved # Absent =>
          WellEdited(saved) /\ PictureKept(saved) /\ CanBeSaved(saved))'
  BY DEF UploadSucceeds, EditorInv, PictureKept
<1>4. CASE edited = Absent
  BY <1>2, <1>3, <1>4 DEF UploadSucceeds, EditorInv
<1>5. CASE edited # Absent
  <2>1. edited \in ImageFields /\ edited.fieldType = "image"
    BY <1>1, <1>5, KindOfField DEF EditorInv, WellEdited
  <2>2. PICK g : /\ g = [edited EXCEPT !.url = upload.image,
                                       !.fileMd5Hash = upload.image,
                                       !.named = TRUE]
                 /\ edited' = g
    BY <1>5 DEF UploadSucceeds
  <2>3. /\ g \in ImageFields /\ g.fieldType = "image"
        /\ g.url \in bucket /\ g.fileMd5Hash = g.url
        /\ g.url = upload.image /\ g.named
    BY <1>1, <2>1, <2>2 DEF ImageFields, Optional
  <2>4. WellEdited(g) /\ PictureKept(g)
    BY <2>3 DEF WellEdited, LimitsOf, PictureKept, EditedFields, FieldKinds
  <2>5. ~saving /\ saving \in BOOLEAN
    BY <1>1, <1>5, <2>1 DEF EditorInv, UploadInv, CanBeSaved, disableSave
  <2>. QED  BY <1>2, <1>3, <2>2, <2>3, <2>4, <2>5
            DEF UploadSucceeds, EditorInv, PictureKept
<1>. QED  BY <1>4, <1>5

LEMMA RemoveImageStep ==
  ASSUME EditorInv, RemoveImage
  PROVE  EditorInv'
<1>1. edited # Absent /\ ~saving /\ WellEdited(edited)
  BY DEF RemoveImage, Is, EditorInv
<1>2. edited \in ImageFields
  BY <1>1, KindOfField DEF RemoveImage, Is, WellEdited
<1>3. PICK g : /\ g = [edited EXCEPT !.fileMd5Hash = Absent, !.named = FALSE]
               /\ Change(g)
  BY DEF RemoveImage
<1>4. g \in ImageFields /\ g.fieldType = edited.fieldType /\ ~g.named
  BY <1>2, <1>3 DEF ImageFields, Optional
<1>5. /\ g.fieldType \notin {"checkbox", "table"} /\ LimitsOf(g)
      /\ ~HasPicture(g)
  BY <1>4 DEF ImageFields, LimitsOf, HasPicture
<1>. QED  BY <1>1, <1>3, <1>4, <1>5, ChangeStep
          DEF WellEdited, PictureKept, EditedFields, FieldKinds

(* A field that can be saved can be when it is read again.                 *)
LEMMA RereadWell ==
  ASSUME NEW f, WellEdited(f), PictureKept(f), CanBeSaved(f)
  PROVE  WellEdited(Reread(f)) /\ PictureKept(Reread(f)) /\ CanBeSaved(Reread(f))
<1>1. f \in EditedFields
  BY DEF WellEdited
<1>2. CASE f.fieldType = "table"
  <2>1. f \in TableFields
    BY <1>1, <1>2, KindOfField
  <2>2. PICK g : g = [f EXCEPT !.additionalRowCount = 0] /\ g = Reread(f)
    BY <1>2 DEF Reread
  <2>3. /\ g \in TableFields /\ g.fieldType = "table"
        /\ g.minimumRows = f.minimumRows /\ g.maximumRows = f.maximumRows
        /\ g.addMoreRows = f.addMoreRows /\ g.columns = f.columns
        /\ g.additionalRowCount = 0
    BY <1>2, <2>1, <2>2 DEF TableFields
  <2>4. WellEdited(g) /\ PictureKept(g)
    BY <2>3 DEF WellEdited, LimitsOf, PictureKept, EditedFields, FieldKinds
  <2>5. ~RowsError(f) /\ ~ColumnsInvalid(f)
    BY <1>2 DEF CanBeSaved, disableSave
  <2>6. ~ColumnsInvalid(g)
    BY <2>3, <2>5 DEF ColumnsInvalid
  <2>7. ~RowsError(g)
    <3>1. f.minimumRows # Absent
      BY <2>5 DEF RowsError
    <3>2. f.minimumRows \in Int
      <4>1. MaxRows \in Nat \ {0, 1}
        BY RespondentsAssumption
      <4>. QED  BY <2>1, <3>1, <4>1 DEF TableFields, Optional
    <3>3. ASSUME g.addMoreRows, g.maximumRows # Absent
          PROVE  ~(g.maximumRows <= g.minimumRows)
      BY <2>3, <2>5, <3>3 DEF RowsError
    <3>4. g.maximumRows # Absent => g.maximumRows \in Int
      BY <2>1, <2>3 DEF TableFields, Optional
    <3>. QED  BY <2>3, <3>1, <3>2, <3>3, <3>4 DEF RowsError
  <2>. QED  BY <2>2, <2>3, <2>4, <2>6, <2>7 DEF CanBeSaved, disableSave, FormInvalid
<1>3. CASE f.fieldType = "email"
  <2>1. f \in EmailFields
    BY <1>1, <1>3, KindOfField
  <2>2. PICK g :
           /\ g = [f EXCEPT !.includeFormSummary =
                      Answers!SetIncludeFormSummary(f, f.responseMode)]
           /\ g = Reread(f)
    BY <1>3 DEF Reread
  <2>3. /\ g \in EmailFields /\ g.fieldType = "email"
        /\ g.colonInSender = f.colonInSender
    BY <1>3, <2>1, <2>2 DEF EmailFields, Answers!SetIncludeFormSummary
  <2>4. WellEdited(g) /\ PictureKept(g)
    BY <2>3 DEF WellEdited, LimitsOf, PictureKept, EditedFields, FieldKinds
  <2>5. ~f.colonInSender
    BY <1>3 DEF CanBeSaved, FormInvalid
  <2>. QED  BY <2>2, <2>3, <2>4, <2>5 DEF CanBeSaved, disableSave, FormInvalid
<1>4. CASE f.fieldType \notin {"table", "email"}
  BY <1>4 DEF Reread
<1>. QED  BY <1>2, <1>3, <1>4

LEMMA SavingStep ==
  ASSUME EditorInv, saveField \/ SaveSucceeds \/ SaveRefused \/ cancel
  PROVE  EditorInv'
<1>1. saving \in BOOLEAN /\ UploadInv
  BY DEF EditorInv
<1>2. CASE saveField
  BY <1>1, <1>2 DEF saveField, EditorInv, CanBeSaved, UploadInv, PictureKept,
                    imageVars
<1>3. CASE SaveSucceeds
  <2>1. PICK f : f = edited /\ saved' = Reread(f)
    BY <1>3 DEF SaveSucceeds
  <2>2. WellEdited(f) /\ PictureKept(f) /\ CanBeSaved(f)
    BY <1>3, <2>1 DEF SaveSucceeds, EditorInv
  <2>3. PICK g : g = Reread(f)
    OBVIOUS
  <2>4. WellEdited(g) /\ PictureKept(g) /\ CanBeSaved(g)
    BY <2>2, <2>3, RereadWell
  <2>. QED  BY <1>1, <1>3, <2>1, <2>3, <2>4
            DEF SaveSucceeds, EditorInv, UploadInv, PictureKept, imageVars
<1>4. CASE SaveRefused
  BY <1>1, <1>4 DEF SaveRefused, EditorInv, UploadInv, PictureKept, imageVars
<1>5. CASE cancel
  BY <1>1, <1>5 DEF cancel, EditorInv, UploadInv, PictureKept, imageVars
<1>. QED  BY <1>2, <1>3, <1>4, <1>5

-----------------------------------------------------------------------------
(* What the modal lets the admin save is accepted by the database *)

LEMMA OptionsAreFinite ==
  ASSUME NEW s \in Seq(Options)
  PROVE  IsFiniteSet(ToSet(s))
<1>1. Len(s) \in Nat /\ DOMAIN s = 1 .. Len(s)
  OBVIOUS
<1>2. IsFiniteSet(1 .. Len(s))
  BY <1>1, FS_Interval
<1>3. s \in Surjection(1 .. Len(s), ToSet(s))
  BY <1>1 DEF Surjection, ToSet
<1>. QED  BY <1>2, <1>3, FS_Surjection

(* A limit is a number, or none.                                           *)
LEMMA LimitsAreNumbers ==
  ASSUME NEW n \in Optional(Limits)
  PROVE  Answers!IsNumberOrNull(n) /\ (n # Absent => n \in Int)
BY EditorAssumption DEF Optional, Answers!IsNumberOrNull

LEMMA PlainAccepted ==
  ASSUME NEW f \in PlainFields
  PROVE  Accepted(f)
<1>1. /\ f.fieldType \in {"section", "statement", "nric", "yes_no"}
      /\ Posted(f) = f
  BY DEF PlainFields, Posted
<1>2. Answers!Accepts(f)
  BY <1>1 DEF Answers!Accepts, Answers!BasicFieldType
<1>. QED  BY <1>1, <1>2 DEF Accepted

LEMMA TextAccepted ==
  ASSUME NEW f \in TextFields
  PROVE  Accepted(f)
<1>1. /\ f.fieldType \in {"textfield", "textarea", "number"}
      /\ f.selectedValidation \in Optional({"Maximum", "Minimum", "Exact"})
      /\ Posted(f) = f
  BY DEF TextFields, Posted
<1>2. f.selectedValidation \in Answers!TextValidations
  BY <1>1 DEF Answers!TextValidations, Optional
<1>3. Answers!Accepts(f)
  BY <1>1, <1>2 DEF Answers!Accepts, Answers!BasicFieldType,
     Answers!ShortTextSchema, Answers!LongTextSchema, Answers!NumberSchema
<1>. QED  BY <1>1, <1>3 DEF Accepted

LEMMA DecimalAccepted ==
  ASSUME NEW f \in DecimalFields
  PROVE  Accepted(f)
<1>1. /\ f.fieldType = "decimal" /\ Posted(f) = f
      /\ f.customMin \in Optional(Limits) /\ f.customMax \in Optional(Limits)
  BY DEF DecimalFields, Posted
<1>2. Answers!DecimalSchema(f)
  BY <1>1, LimitsAreNumbers DEF Answers!DecimalSchema
<1>3. Answers!Accepts(f)
  BY <1>1, <1>2 DEF Answers!Accepts, Answers!BasicFieldType
<1>. QED  BY <1>1, <1>3 DEF Accepted

(* The options of a field are posted as a set.                             *)
LEMMA OptionsPosted ==
  ASSUME NEW f \in DropdownFields \cup RadioFields \cup CheckboxFields
  PROVE  /\ f.fieldType \in {"dropdown", "radiobutton", "checkbox"}
         /\ f.fieldOptions \in Seq(Options)
         /\ Posted(f) = [f EXCEPT !.fieldOptions = ToSet(f.fieldOptions)]
         /\ Posted(f).fieldType = f.fieldType
         /\ Posted(f).required = f.required
         /\ Posted(f).fieldOptions = ToSet(f.fieldOptions)
         /\ f \in RadioFields \cup CheckboxFields =>
               Posted(f).othersRadioButton = f.othersRadioButton
         /\ f \in CheckboxFields =>
               /\ Posted(f).validateByValue = f.validateByValue
               /\ Posted(f).customMin = f.customMin
               /\ Posted(f).customMax = f.customMax
<1>1. /\ f.fieldType \in {"dropdown", "radiobutton", "checkbox"}
      /\ f.fieldOptions \in Seq(Options)
  BY DEF DropdownFields, RadioFields, CheckboxFields
<1>2. PICK p : p = Posted(f)
  OBVIOUS
<1>3. p = [f EXCEPT !.fieldOptions = ToSet(f.fieldOptions)]
  BY <1>1, <1>2 DEF Posted
<1>4. CASE f \in DropdownFields
  BY <1>1, <1>2, <1>3, <1>4 DEF DropdownFields, RadioFields, CheckboxFields
<1>5. CASE f \in RadioFields
  BY <1>1, <1>2, <1>3, <1>5 DEF DropdownFields, RadioFields, CheckboxFields
<1>6. CASE f \in CheckboxFields
  BY <1>1, <1>2, <1>3, <1>6 DEF DropdownFields, RadioFields, CheckboxFields
<1>. QED  BY <1>4, <1>5, <1>6

LEMMA FinitePosted ==
  ASSUME NEW f \in DropdownFields \cup RadioFields \cup CheckboxFields
  PROVE  Answers!IsFiniteSet(Posted(f).fieldOptions)
<1>1. IsFiniteSet(ToSet(f.fieldOptions))
  BY OptionsPosted, OptionsAreFinite
<1>. QED  BY <1>1, OptionsPosted DEF IsFiniteSet, Answers!IsFiniteSet

LEMMA OptionsAccepted ==
  ASSUME NEW f \in DropdownFields \cup RadioFields \cup CheckboxFields
  PROVE  Accepted(f)
<1>1. PICK p : p = Posted(f)
  OBVIOUS
<1>2. /\ p.fieldType = f.fieldType
      /\ p.fieldType \in {"dropdown", "radiobutton", "checkbox"}
      /\ Answers!IsFiniteSet(p.fieldOptions)
  BY <1>1, OptionsPosted, FinitePosted
<1>3. p.fieldType = "dropdown" => Answers!DropdownSchema(p)
  BY <1>2 DEF Answers!DropdownSchema
<1>4. p.fieldType = "radiobutton" => Answers!RadioSchema(p)
  <2>1. f.fieldType = "radiobutton" => f \in RadioFields
    BY DEF DropdownFields, RadioFields, CheckboxFields
  <2>. QED
    BY <1>1, <1>2, <2>1, OptionsPosted DEF RadioFields, Answers!RadioSchema
<1>5. p.fieldType = "checkbox" => Answers!CheckboxSchema(p)
  <2>1. f.fieldType = "checkbox" => f \in CheckboxFields
    BY DEF DropdownFields, RadioFields, CheckboxFields
  <2>2. ASSUME f \in CheckboxFields
        PROVE  /\ {p.othersRadioButton, p.validateByValue} \subseteq BOOLEAN
               /\ p.customMin \in Optional(Limits)
               /\ p.customMax \in Optional(Limits)
    BY <1>1, <2>2, OptionsPosted DEF CheckboxFields
  <2>. QED
    BY <1>2, <2>1, <2>2, LimitsAreNumbers DEF Answers!CheckboxSchema
<1>6. Answers!Accepts(p)
  BY <1>2, <1>3, <1>4, <1>5 DEF Answers!Accepts, Answers!BasicFieldType
<1>. QED  BY <1>1, <1>2, <1>6 DEF Accepted

LEMMA RatingAccepted ==
  ASSUME NEW f \in RatingFields
  PROVE  Accepted(f)
<1>1. /\ f.fieldType = "rating" /\ f.steps \in 1 .. 10 /\ Posted(f) = f
  BY DEF RatingFields, Posted
<1>2. Answers!Accepts(f)
  BY <1>1 DEF Answers!Accepts, Answers!BasicFieldType, Answers!RatingSchema
<1>. QED  BY <1>1, <1>2 DEF Accepted

LEMMA DateAccepted ==
  ASSUME NEW f \in DateFields
  PROVE  Accepted(f)
<1>1. /\ f.fieldType = "date" /\ Posted(f) = f
      /\ f.selectedDateValidation \in Answers!DateValidations
      /\ f.customMinDate \in Optional({-1, 0, 1})
      /\ f.customMaxDate \in Optional({-1, 0, 1})
  BY DEF DateFields, Posted
<1>2. Answers!DateSchema(f)
  BY <1>1 DEF Answers!DateSchema, Answers!IsNumberOrNull, Optional
<1>3. Answers!Accepts(f)
  BY <1>1, <1>2 DEF Answers!Accepts, Answers!BasicFieldType
<1>. QED  BY <1>1, <1>3 DEF Accepted

LEMMA PhoneAccepted ==
  ASSUME NEW f \in PhoneFields
  PROVE  Accepted(f)
<1>1. /\ f.fieldType \in {"mobile", "homeno"} /\ Posted(f) = f
      /\ f.allowIntlNumbers \in BOOLEAN
  BY DEF PhoneFields, Posted
<1>2. Answers!Accepts(f)
  BY <1>1 DEF Answers!Accepts, Answers!BasicFieldType, Answers!MobileSchema,
              Answers!HomenoSchema
<1>. QED  BY <1>1, <1>2 DEF Accepted

LEMMA AttachmentAccepted ==
  ASSUME NEW f \in AttachmentFields
  PROVE  Accepted(f)
<1>1. /\ f.fieldType = "attachment" /\ Posted(f) = f
      /\ f.attachmentSize \in Answers!AttachmentSizesMb
  BY DEF AttachmentFields, Posted
<1>2. Answers!Accepts(f)
  BY <1>1 DEF Answers!Accepts, Answers!BasicFieldType, Answers!AttachmentSchema
<1>. QED  BY <1>1, <1>2 DEF Accepted

(* A sender with a colon cannot be saved, and the setter drops the summary *)
(* that a form in storage mode cannot send.                                *)
LEMMA EmailAccepted ==
  ASSUME NEW f \in EmailFields, CanBeSaved(f)
  PROVE  Accepted(f)
<1>1. f.fieldType = "email" /\ Posted(f) = f
  BY DEF EmailFields, Posted
<1>2. Answers!Accepts(f)
  BY <1>1 DEF Answers!Accepts, Answers!BasicFieldType
<1>3. Answers!EmailSchema(f, f.responseMode)
  BY <1>1 DEF Answers!EmailSchema, Answers!SetIncludeFormSummary, CanBeSaved,
              FormInvalid
<1>. QED  BY <1>1, <1>2, <1>3 DEF Accepted

LEMMA ImageAccepted ==
  ASSUME NEW f \in ImageFields, CanBeSaved(f), PictureKept(f)
  PROVE  Accepted(f)
<1>1. f.fieldType = "image" /\ Posted(f) = f
  BY DEF ImageFields, Posted
<1>2. Answers!Accepts(f)
  BY <1>1 DEF Answers!Accepts, Answers!BasicFieldType
<1>3. Answers!ImageSchema(f)
  BY <1>1 DEF Answers!ImageSchema, CanBeSaved, disableSave, HasPicture,
              PictureKept
<1>. QED  BY <1>1, <1>2, <1>3 DEF Accepted

LEMMA TableAccepted ==
  ASSUME NEW f \in TableFields, CanBeSaved(f)
  PROVE  Accepted(f)
<1>1. /\ f.fieldType = "table" /\ f.addMoreRows \in BOOLEAN
      /\ f.minimumRows \in Optional(1 .. MaxRows)
      /\ f.maximumRows \in Optional(Int) /\ f.columns \in Seq(Columns)
  BY DEF TableFields
<1>2. PICK p : p = Posted(f)
  OBVIOUS
<1>3. /\ p.fieldType = "table" /\ p.minimumRows = f.minimumRows
      /\ p.maximumRows = f.maximumRows /\ p.addMoreRows = f.addMoreRows
  <2>1. p = [f EXCEPT !.columns =
                [c \in DOMAIN f.columns |-> f.columns[c].required]]
    BY <1>1, <1>2 DEF Posted
  <2>. QED  BY <1>1, <2>1 DEF TableFields
<1>4. ~RowsError(f) /\ ~ColumnsInvalid(f)
  BY <1>1 DEF CanBeSaved, disableSave
<1>5. /\ f.minimumRows # Absent /\ f.minimumRows \in Int
      /\ f.minimumRows >= 1
  <2>1. MaxRows \in Nat \ {0, 1}
    BY RespondentsAssumption
  <2>. QED  BY <1>1, <1>4, <2>1 DEF RowsError, Optional
<1>6. ASSUME f.addMoreRows, f.maximumRows # Absent
      PROVE  f.maximumRows >= 2 /\ f.maximumRows > f.minimumRows
  <2>1. ~(f.maximumRows <= f.minimumRows)
    BY <1>4, <1>6 DEF RowsError
  <2>2. f.maximumRows \in Int
    BY <1>1, <1>6 DEF Optional
  <2>. QED  BY <1>5, <2>1, <2>2
<1>7. Answers!RowsSchema(p)
  BY <1>3, <1>5, <1>6 DEF Answers!RowsSchema
<1>8. Answers!Accepts(p)
  BY <1>3, <1>7 DEF Answers!Accepts, Answers!BasicFieldType
<1>9. \A c \in DOMAIN f.columns : Answers!ColumnSchema(f.columns[c])
  <2>1. \A c \in DOMAIN f.columns : f.columns[c] \in Columns
    BY <1>1
  <2>. QED  BY <1>4, <2>1 DEF ColumnsInvalid, Answers!ColumnSchema, Columns
<1>. QED  BY <1>1, <1>2, <1>8, <1>9 DEF Accepted

LEMMA IsAccepted ==
  ASSUME NEW f, WellEdited(f), PictureKept(f), CanBeSaved(f)
  PROVE  Accepted(f)
<1>1. \/ f \in PlainFields \/ f \in TextFields \/ f \in DecimalFields
      \/ f \in DropdownFields \cup RadioFields \cup CheckboxFields
      \/ f \in RatingFields \/ f \in DateFields \/ f \in TableFields
      \/ f \in ImageFields \/ f \in EmailFields \/ f \in AttachmentFields
      \/ f \in PhoneFields
  BY DEF WellEdited, EditedFields, FieldKinds
<1>. QED
  BY <1>1, PlainAccepted, TextAccepted, DecimalAccepted, OptionsAccepted,
     RatingAccepted, DateAccepted, TableAccepted, ImageAccepted, EmailAccepted,
     AttachmentAccepted, PhoneAccepted

-----------------------------------------------------------------------------
(* Whatever was saved can be answered: an answer for each kind of field *)

LEMMA AnsweredWith ==
  ASSUME NEW f, NEW p, p = Posted(f),
         NEW v, v \in Answers!PossibleValues(p),
         NEW a, a = Answers!Answer(f, v),
         ~Answers!isValueEmpty(p, a),
         Answers!PageValid(p, v, Absent, 0),
         Answers!isFilledAnswerValid(p, a, Absent, TRUE, 0, 0)
  PROVE  CanBeAnswered(f)
<1>1. Answers!isAnswerValid(p, a, Absent, TRUE, 0, 0)
  BY DEF Answers!isAnswerValid
<1>. QED  BY <1>1 DEF CanBeAnswered

LEMMA DisplayedWell ==
  ASSUME NEW p, p.fieldType \notin {"table", "attachment"}, NEW v,
         ~Answers!NothingChosen(p, v), ~Answers!OthersMissing(p, v),
         Answers!PageFilled(p, v, 0)
  PROVE  Answers!PageValid(p, v, Absent, 0)
BY DEF Answers!PageValid

LEMMA BoundsOfTyping ==
  /\ MaxLength \in Nat /\ MaxLength >= 1
  /\ MaxNumber \in Nat /\ LastDay \in Nat /\ LastDay >= 1
  /\ \A n \in Limits : n \in Int /\ -1 <= n /\ n <= MaxNumber /\ n <= MaxLength
<1>1. {MaxLength, MaxNumber, LastDay} \subseteq Nat \ {0}
  BY RespondentsAssumption
<1>2. \A n \in Limits : n \in -1 .. MaxNumber /\ n <= MaxLength
  BY RespondentsAssumption
<1>3. MaxNumber \in Nat
  BY <1>1
<1>. QED  BY <1>1, <1>2, <1>3

LEMMA TextValues ==
  ASSUME NEW f, f.fieldType \in {"textfield", "textarea", "number"}
  PROVE  Answers!PossibleValues(f) = Answers!Texts
<1>1. CASE f.fieldType = "textfield"
  BY <1>1 DEF Answers!PossibleValues
<1>2. CASE f.fieldType = "textarea"
  BY <1>2 DEF Answers!PossibleValues
<1>3. CASE f.fieldType = "number"
  BY <1>3 DEF Answers!PossibleValues
<1>. QED  BY <1>1, <1>2, <1>3

LEMMA MobileValues ==
  ASSUME NEW f, f.fieldType = "mobile"
  PROVE  Answers!PossibleValues(f) = Answers!Phones
BY DEF Answers!PossibleValues

LEMMA HomeValues ==
  ASSUME NEW f, f.fieldType = "homeno"
  PROVE  Answers!PossibleValues(f) = Answers!Phones
BY DEF Answers!PossibleValues

LEMMA NricValues ==
  ASSUME NEW f, f.fieldType = "nric"
  PROVE  Answers!PossibleValues(f) = {"", "wellFormed", "invalid"}
BY DEF Answers!PossibleValues

LEMMA YesNoValues ==
  ASSUME NEW f, f.fieldType = "yes_no"
  PROVE  Answers!PossibleValues(f) = {"", "Yes", "No"}
BY DEF Answers!PossibleValues

LEMMA DropdownValues ==
  ASSUME NEW f, f.fieldType = "dropdown"
  PROVE  Answers!PossibleValues(f) = {""} \cup f.fieldOptions
BY DEF Answers!PossibleValues

LEMMA RadioValues ==
  ASSUME NEW f, f.fieldType = "radiobutton", NEW o \in f.fieldOptions
  PROVE  Answers!Choice(o, FALSE) \in Answers!PossibleValues(f)
<1>. DEFINE A == {""} \cup f.fieldOptions \cup
                   (IF f.othersRadioButton THEN {"radioButtonOthers"} ELSE {})
            B == {FALSE, f.othersRadioButton}
<1>1. f.fieldOptions \subseteq A /\ FALSE \in B
  OBVIOUS
<1>2. PICK t : t = FALSE
  OBVIOUS
<1>3. o \in A /\ t \in B
  BY <1>1, <1>2
<1>4. Answers!RadioValues(f) = {Answers!Choice(c, d) : c \in A, d \in B}
  BY Z3 DEF Answers!RadioValues
<1>. HIDE DEF A, B
<1>5. Answers!Choice(o, t) \in Answers!RadioValues(f)
  BY <1>3, <1>4
<1>. QED  BY <1>2, <1>5 DEF Answers!PossibleValues

LEMMA CheckboxValues ==
  ASSUME NEW f, f.fieldType = "checkbox"
  PROVE  Answers!PossibleValues(f) = Answers!CheckboxValues(f)
BY DEF Answers!PossibleValues

LEMMA TableValues ==
  ASSUME NEW f, f.fieldType = "table"
  PROVE  Answers!PossibleValues(f) = Answers!TableValues(f)
BY DEF Answers!PossibleValues

LEMMA PlainAnswered ==
  ASSUME NEW f \in PlainFields, f.fieldType \in {"nric", "yes_no"}
  PROVE  CanBeAnswered(f)
<1>1. Posted(f) = f
  BY DEF Posted
<1>2. PICK v : v = IF f.fieldType = "nric" THEN "wellFormed" ELSE "Yes"
  OBVIOUS
<1>3. v \in Answers!PossibleValues(f)
  BY <1>2, NricValues, YesNoValues
<1>4. Answers!Answer(f, v) = v
  BY DEF Answers!Answer
<1>5. v # "" /\ Answers!EmptyValue(f) = ""
  BY <1>2 DEF Answers!EmptyValue
<1>6. ~Answers!isValueEmpty(f, v) /\ ~Answers!NothingChosen(f, v)
  BY <1>5 DEF Answers!isValueEmpty, Answers!NothingChosen, Answers!PageEmpty
<1>7. ~Answers!OthersMissing(f, v) /\ Answers!PageFilled(f, v, 0)
  BY <1>2 DEF Answers!OthersMissing, Answers!PageFilled
<1>8. Answers!isFilledAnswerValid(f, v, Absent, TRUE, 0, 0)
  BY <1>2 DEF Answers!isFilledAnswerValid, Answers!isNricValid,
              Answers!isYesNoValid
<1>9. Answers!PageValid(f, v, Absent, 0)
  BY <1>6, <1>7, DisplayedWell
<1>. QED  BY <1>1, <1>3, <1>4, <1>6, <1>8, <1>9, AnsweredWith

LEMMA EmailAnswered ==
  ASSUME NEW f \in EmailFields
  PROVE  CanBeAnswered(f)
<1>1. f.fieldType = "email" /\ Posted(f) = f
  BY DEF Posted, EmailFields
<1>2. PICK v : v = "wellFormed"
  OBVIOUS
<1>3. v \in Answers!PossibleValues(f)
  BY <1>1, <1>2 DEF Answers!PossibleValues
<1>4. Answers!Answer(f, v) = v
  BY <1>1 DEF Answers!Answer
<1>5. v # "" /\ Answers!EmptyValue(f) = ""
  BY <1>1, <1>2 DEF Answers!EmptyValue
<1>6. ~Answers!isValueEmpty(f, v) /\ ~Answers!NothingChosen(f, v)
  BY <1>1, <1>5 DEF Answers!isValueEmpty, Answers!NothingChosen,
                    Answers!PageEmpty
<1>7. ~Answers!OthersMissing(f, v) /\ Answers!PageFilled(f, v, 0)
  BY <1>1, <1>2 DEF Answers!OthersMissing, Answers!PageFilled
<1>8. Answers!isFilledAnswerValid(f, v, Absent, TRUE, 0, 0)
  BY <1>1, <1>2 DEF Answers!isFilledAnswerValid, Answers!isEmailValid
<1>9. Answers!PageValid(f, v, Absent, 0)
  BY <1>1, <1>6, <1>7, DisplayedWell
<1>. QED  BY <1>1, <1>3, <1>4, <1>6, <1>8, <1>9, AnsweredWith

LEMMA PhoneAnswered ==
  ASSUME NEW f \in PhoneFields
  PROVE  CanBeAnswered(f)
<1>1. f.fieldType \in {"mobile", "homeno"} /\ Posted(f) = f
  BY DEF Posted, PhoneFields
<1>2. PICK v : v = IF f.fieldType = "mobile" THEN "sgMobile" ELSE "sgHome"
  OBVIOUS
<1>3. v \in Answers!PossibleValues(f)
  BY <1>1, <1>2, MobileValues, HomeValues DEF Answers!Phones
<1>4. Answers!Answer(f, v) = v
  BY <1>1 DEF Answers!Answer
<1>5. v # "" /\ Answers!EmptyValue(f) = ""
  BY <1>1, <1>2 DEF Answers!EmptyValue
<1>6. ~Answers!isValueEmpty(f, v) /\ ~Answers!NothingChosen(f, v)
  BY <1>1, <1>5 DEF Answers!isValueEmpty, Answers!NothingChosen,
                    Answers!PageEmpty
<1>7. ~Answers!OthersMissing(f, v) /\ Answers!PageFilled(f, v, 0)
  BY <1>1, <1>2 DEF Answers!OthersMissing, Answers!PageFilled, Answers!isPhone
<1>8. Answers!isFilledAnswerValid(f, v, Absent, TRUE, 0, 0)
  BY <1>1, <1>2 DEF Answers!isFilledAnswerValid, Answers!isMobileValid,
                    Answers!isHomeNoValid
<1>9. Answers!PageValid(f, v, Absent, 0)
  BY <1>1, <1>6, <1>7, DisplayedWell
<1>. QED  BY <1>1, <1>3, <1>4, <1>6, <1>8, <1>9, AnsweredWith

LEMMA RatingAnswered ==
  ASSUME NEW f \in RatingFields
  PROVE  CanBeAnswered(f)
<1>1. /\ f.fieldType = "rating" /\ Posted(f) = f
      /\ f.steps \in 1 .. 10
  BY DEF Posted, RatingFields
<1>3. 1 \in Answers!PossibleValues(f)
  BY <1>1 DEF Answers!PossibleValues
<1>4. Answers!Answer(f, 1) = 1
  BY <1>1 DEF Answers!Answer
<1>5. Answers!EmptyValue(f) = 0
  BY <1>1 DEF Answers!EmptyValue
<1>6. ~Answers!isValueEmpty(f, 1) /\ ~Answers!NothingChosen(f, 1)
  BY <1>1, <1>5 DEF Answers!isValueEmpty, Answers!NothingChosen,
                    Answers!PageEmpty
<1>7. ~Answers!OthersMissing(f, 1) /\ Answers!PageFilled(f, 1, 0)
  BY <1>1 DEF Answers!OthersMissing, Answers!PageFilled
<1>8. Answers!isFilledAnswerValid(f, 1, Absent, TRUE, 0, 0)
  BY <1>1 DEF Answers!isFilledAnswerValid, Answers!isRatingValid
<1>9. Answers!PageValid(f, 1, Absent, 0)
  BY <1>1, <1>6, <1>7, DisplayedWell
<1>. QED  BY <1>1, <1>3, <1>4, <1>6, <1>8, <1>9, AnsweredWith

(* A text that is as long as the limit, or that has one character.         *)
LEMMA TextAnswered ==
  ASSUME NEW f \in TextFields, LimitsOf(f), CanBeSaved(f)
  PROVE  CanBeAnswered(f)
<1>1. /\ f.fieldType \in {"textfield", "textarea", "number"} /\ Posted(f) = f
      /\ f.customVal \in Optional(Limits)
  BY DEF Posted, TextFields
<1>2. PICK n : n = IF f.customVal = Absent THEN 1 ELSE f.customVal
  OBVIOUS
<1>3. n \in 1 .. MaxLength
  <2>1. MaxLength \in Nat /\ MaxLength >= 1
    BY BoundsOfTyping
  <2>2. CASE f.customVal # Absent
    <3>1. ~(f.customVal < 1)
      BY <1>1, <2>2 DEF CanBeSaved, FormInvalid
    <3>2. f.customVal \in Limits
      BY <1>1, <2>2 DEF Optional
    <3>3. f.customVal \in Int /\ f.customVal <= MaxLength
      BY <3>2, BoundsOfTyping
    <3>. QED  BY <1>2, <2>1, <2>2, <3>1, <3>3
  <2>. QED  BY <1>2, <2>1, <2>2
<1>4. PICK v : v = [length |-> n, digits |-> TRUE]
  OBVIOUS
<1>5. v.length = n /\ v.digits = TRUE
  BY <1>4
<1>6. v \in Answers!PossibleValues(f)
  <2>1. v \in Answers!Texts
    BY <1>3, <1>4 DEF Answers!Texts
  <2>. QED  BY <1>1, <2>1, TextValues
<1>7. Answers!Answer(f, v) = v
  BY <1>1 DEF Answers!Answer
<1>8. v # Answers!EmptyValue(f)
  <2>1. PICK e : e = Answers!EmptyValue(f)
    OBVIOUS
  <2>2. e = [length |-> 0, digits |-> TRUE]
    BY <1>1, <2>1 DEF Answers!EmptyValue
  <2>3. e.length = 0
    BY <2>2
  <2>. QED  BY <1>3, <1>5, <2>1, <2>3
<1>9. ~Answers!isValueEmpty(f, v) /\ ~Answers!NothingChosen(f, v)
  BY <1>1, <1>8 DEF Answers!isValueEmpty, Answers!NothingChosen,
                    Answers!PageEmpty
<1>10. /\ Answers!ValidationOptions(f).selectedValidation
             = f.selectedValidation
       /\ Answers!ValidationOptions(f).customVal = f.customVal
       /\ Answers!ValidationOptions(f).customMin \in {f.customVal, Absent}
       /\ Answers!ValidationOptions(f).customMax \in {f.customVal, Absent}
  BY DEF Answers!ValidationOptions
<1>11. \A m \in {f.customVal, Absent} :
          /\ Answers!AtLeast(n, m) /\ Answers!AtMost(n, m)
          /\ m # Absent => n = m
  BY <1>2, <1>3 DEF Answers!AtLeast, Answers!AtMost
<1>12. ~Answers!OthersMissing(f, v) /\ Answers!PageFilled(f, v, 0)
  BY <1>1, <1>5, <1>10, <1>11 DEF Answers!OthersMissing, Answers!PageFilled
<1>13. /\ Answers!isNumberOfCharactersValid(f, v)
       /\ Answers!validateLengthOfAnswer(f, v)
  BY <1>5, <1>10, <1>11 DEF Answers!isNumberOfCharactersValid,
                            Answers!validateLengthOfAnswer
<1>14. Answers!isFilledAnswerValid(f, v, Absent, TRUE, 0, 0)
  BY <1>1, <1>5, <1>13 DEF Answers!isFilledAnswerValid, Answers!isNumberValid
<1>15. Answers!PageValid(f, v, Absent, 0)
  BY <1>1, <1>9, <1>12, DisplayedWell
<1>. QED  BY <1>1, <1>6, <1>7, <1>9, <1>14, <1>15, AnsweredWith

(* A number at one end of the range, or 0.                                 *)
LEMMA DecimalAnswered ==
  ASSUME NEW f \in DecimalFields, CanBeSaved(f)
  PROVE  CanBeAnswered(f)
<1>1. /\ f.fieldType = "decimal" /\ Posted(f) = f
      /\ f.customMin \in Optional(Limits) /\ f.customMax \in Optional(Limits)
  BY DEF Posted, DecimalFields
<1>2. PICK n : n = IF f.customMin # Absent THEN f.customMin
                   ELSE IF f.customMax # Absent THEN f.customMax ELSE 0
  OBVIOUS
<1>3. n \in -1 .. MaxNumber /\ n \in Int
  <2>1. n \in Limits \/ n = 0
    BY <1>1, <1>2 DEF Optional
  <2>. QED  BY <2>1, BoundsOfTyping
<1>4. Answers!AtLeast(n, f.customMin) /\ Answers!AtMost(n, f.customMax)
  <2>1. ~RangeInvalid(f)
    BY <1>1 DEF CanBeSaved, FormInvalid
  <2>2. {f.customMin, f.customMax} \ {Absent} \subseteq Int
    BY <1>1, LimitsAreNumbers
  <2>3. Absent \notin {f.customMin, f.customMax} =>
           ~(f.customMax < f.customMin)
    BY <2>1 DEF RangeInvalid
  <2>. QED  BY <1>2, <2>2, <2>3 DEF Answers!AtLeast, Answers!AtMost
<1>5. PICK v : v = [number |-> n, exponent |-> FALSE]
  OBVIOUS
<1>6. v.number = n /\ v.exponent = FALSE
  BY <1>5
<1>7. v \in Answers!Numbers
  BY <1>3, <1>5 DEF Answers!Numbers
<1>8. v \in Answers!PossibleValues(f)
  BY <1>1, <1>7 DEF Answers!PossibleValues
<1>9. Answers!Answer(f, v) = v
  BY <1>1 DEF Answers!Answer
<1>10. v # Absent /\ Answers!EmptyValue(f) = Absent
  BY <1>1, <1>7, RespondentsAssumption DEF Answers!EmptyValue
<1>11. ~Answers!isValueEmpty(f, v) /\ ~Answers!NothingChosen(f, v)
  BY <1>1, <1>10 DEF Answers!isValueEmpty, Answers!NothingChosen,
                     Answers!PageEmpty
<1>12. ~Answers!OthersMissing(f, v) /\ Answers!PageFilled(f, v, 0)
  BY <1>1, <1>4, <1>6 DEF Answers!OthersMissing, Answers!PageFilled
<1>13. Answers!isFilledAnswerValid(f, v, Absent, TRUE, 0, 0)
  BY <1>1, <1>4, <1>6 DEF Answers!isFilledAnswerValid,
     Answers!isDecimalValid, Answers!isFloatAndWithinRange
<1>14. Answers!PageValid(f, v, Absent, 0)
  BY <1>1, <1>11, <1>12, DisplayedWell
<1>. QED  BY <1>1, <1>8, <1>9, <1>11, <1>13, <1>14, AnsweredWith

(* A day at one end of the range, or today.                                *)
LEMMA DateAnswered ==
  ASSUME NEW f \in DateFields, LimitsOf(f), CanBeSaved(f)
  PROVE  CanBeAnswered(f)
<1>1. /\ f.fieldType = "date" /\ Posted(f) = f
      /\ f.customMinDate \in Optional({-1, 0, 1})
      /\ f.customMaxDate \in Optional({-1, 0, 1})
  BY DEF Posted, DateFields
<1>2. f.selectedDateValidation # "Custom date range" =>
         f.customMinDate = Absent /\ f.customMaxDate = Absent
  BY <1>1 DEF LimitsOf
<1>3. PICK v : v = IF f.customMinDate # Absent THEN f.customMinDate
                   ELSE IF f.customMaxDate # Absent THEN f.customMaxDate ELSE 0
  OBVIOUS
<1>4. v \in {-1, 0, 1} /\ v # Absent
  BY <1>1, <1>3, EditorAssumption DEF Optional
<1>5. Answers!AtLeast(v, f.customMinDate) /\ Answers!AtMost(v, f.customMaxDate)
  <2>1. ~DateRangeError(f)
    BY <1>1 DEF CanBeSaved, disableSave
  <2>2. Absent \notin {f.customMinDate, f.customMaxDate} =>
           ~(f.customMaxDate < f.customMinDate)
    BY <2>1 DEF DateRangeError
  <2>. QED  BY <1>1, <1>3, <2>2 DEF Answers!AtLeast, Answers!AtMost, Optional
<1>6. f.selectedDateValidation # "Custom date range" => v = 0
  BY <1>2, <1>3
<1>7. v \in Answers!PossibleValues(f)
  <2>1. Answers!PossibleValues(f) = Answers!Dates
    BY <1>1 DEF Answers!PossibleValues
  <2>. QED  BY <1>4, <2>1, BoundsOfTyping DEF Answers!Dates
<1>8. Answers!Answer(f, v) = v
  BY <1>1 DEF Answers!Answer
<1>9. Answers!EmptyValue(f) = Absent
  BY <1>1 DEF Answers!EmptyValue
<1>10. ~Answers!isValueEmpty(f, v) /\ ~Answers!NothingChosen(f, v)
  BY <1>1, <1>4, <1>9 DEF Answers!isValueEmpty, Answers!NothingChosen,
                          Answers!PageEmpty
<1>11. ~Answers!isDateInvalid(f, v, 0)
  <2>1. f.selectedDateValidation \in {"Disallow past dates",
                                     "Disallow future dates"} =>
           Answers!AtLeast(v, 0) /\ Answers!AtMost(v, 0)
    <3>1. Answers!AtLeast(0, 0) /\ Answers!AtMost(0, 0)
      BY DEF Answers!AtLeast, Answers!AtMost
    <3>. QED  BY <1>6, <3>1
  <2>2. Answers!AtLeast(v, Absent) /\ Answers!AtMost(v, Absent)
    BY DEF Answers!AtLeast, Answers!AtMost
  <2>. QED  BY <1>5, <2>1, <2>2, Zenon DEF Answers!isDateInvalid
<1>12. ~Answers!OthersMissing(f, v) /\ Answers!PageFilled(f, v, 0)
  BY <1>1, <1>11 DEF Answers!OthersMissing, Answers!PageFilled
<1>13. Answers!isDateValid(f, v, 0, 0)
  <2>1. f.selectedDateValidation \in {"Disallow past dates",
                                     "Disallow future dates"} =>
           v >= 0 /\ v <= 0
    <3>1. 0 >= 0 /\ 0 <= 0
      OBVIOUS
    <3>. QED  BY <1>6, <3>1
  <2>. QED  BY <1>5, <2>1, Zenon DEF Answers!isDateValid
<1>14. Answers!isFilledAnswerValid(f, v, Absent, TRUE, 0, 0)
  BY <1>1, <1>13 DEF Answers!isFilledAnswerValid
<1>15. Answers!PageValid(f, v, Absent, 0)
  BY <1>1, <1>10, <1>12, DisplayedWell
<1>. QED  BY <1>1, <1>7, <1>8, <1>10, <1>14, <1>15, AnsweredWith

-----------------------------------------------------------------------------
(* The fields that have options *)

LEMMA OptionsInOrder ==
  ASSUME NEW f \in DropdownFields \cup RadioFields \cup CheckboxFields,
         CanBeSaved(f)
  PROVE  /\ f.fieldOptions # <<>> /\ Len(f.fieldOptions) \in Nat \ {0}
         /\ DOMAIN f.fieldOptions = 1 .. Len(f.fieldOptions)
         /\ 1 \in DOMAIN f.fieldOptions
         /\ IsInjective(f.fieldOptions)
         /\ "" \notin ToSet(f.fieldOptions)
         /\ ToSet(f.fieldOptions) \subseteq Options
<1>1. f.fieldOptions \in Seq(Options)
  BY OptionsPosted
<1>2. /\ f.fieldOptions # <<>> /\ ~HasDuplicates(f.fieldOptions)
      /\ "" \notin ToSet(f.fieldOptions)
  BY OptionsPosted DEF CanBeSaved, disableSave
<1>3. ToSet(f.fieldOptions) \subseteq Options
  BY <1>1 DEF ToSet
<1>4. PICK s : s = f.fieldOptions
  OBVIOUS
<1>5. Len(s) \in Nat \ {0} /\ DOMAIN s = 1 .. Len(s)
  <2>1. s \in Seq(Options) /\ s # <<>>
    BY <1>1, <1>2, <1>4
  <2>. QED  BY <2>1
<1>6. 1 \in 1 .. Len(s)
  BY <1>5
<1>. QED  BY <1>2, <1>3, <1>4, <1>5, <1>6 DEF HasDuplicates

LEMMA OthersAreNoOption ==
  ASSUME NEW s \in Options
  PROVE  s # "radioButtonOthers"
BY RespondentsAssumption DEF Options

LEMMA DropdownAnswered ==
  ASSUME NEW f \in DropdownFields, CanBeSaved(f)
  PROVE  CanBeAnswered(f)
<1>1. PICK p : p = Posted(f)
  OBVIOUS
<1>2. /\ f.fieldType = "dropdown" /\ p.fieldType = "dropdown"
      /\ p.fieldOptions = ToSet(f.fieldOptions)
  BY <1>1, OptionsPosted DEF DropdownFields
<1>3. PICK v : v = f.fieldOptions[1]
  OBVIOUS
<1>4. v \in p.fieldOptions /\ v # ""
  <2>1. 1 \in DOMAIN f.fieldOptions /\ "" \notin ToSet(f.fieldOptions)
    BY OptionsInOrder
  <2>2. v \in ToSet(f.fieldOptions)
    BY <1>3, <2>1 DEF ToSet
  <2>. QED  BY <1>2, <2>1, <2>2
<1>5. v \in Answers!PossibleValues(p)
  BY <1>2, <1>4, DropdownValues
<1>6. Answers!Answer(f, v) = v
  BY <1>2 DEF Answers!Answer
<1>7. Answers!EmptyValue(p) = ""
  BY <1>2 DEF Answers!EmptyValue
<1>8. ~Answers!isValueEmpty(p, v) /\ ~Answers!NothingChosen(p, v)
  BY <1>2, <1>4, <1>7 DEF Answers!isValueEmpty, Answers!NothingChosen,
                          Answers!PageEmpty
<1>9. ~Answers!OthersMissing(p, v) /\ Answers!PageFilled(p, v, 0)
  BY <1>2 DEF Answers!OthersMissing, Answers!PageFilled
<1>10. Answers!isFilledAnswerValid(p, v, Absent, TRUE, 0, 0)
  BY <1>2, <1>4 DEF Answers!isFilledAnswerValid, Answers!isDropdownValid,
                    Answers!isOneOfOptions
<1>11. Answers!PageValid(p, v, Absent, 0)
  BY <1>2, <1>8, <1>9, DisplayedWell
<1>. QED  BY <1>1, <1>5, <1>6, <1>8, <1>10, <1>11, AnsweredWith

LEMMA RadioAnswered ==
  ASSUME NEW f \in RadioFields, CanBeSaved(f)
  PROVE  CanBeAnswered(f)
<1>1. PICK p : p = Posted(f)
  OBVIOUS
<1>2. /\ f.fieldType = "radiobutton" /\ p.fieldType = "radiobutton"
      /\ p.fieldOptions = ToSet(f.fieldOptions)
  BY <1>1, OptionsPosted DEF RadioFields
<1>3. PICK o : o = f.fieldOptions[1]
  OBVIOUS
<1>4. o \in p.fieldOptions /\ o # "" /\ o # "radioButtonOthers"
  <2>1. 1 \in DOMAIN f.fieldOptions /\ "" \notin ToSet(f.fieldOptions)
        /\ ToSet(f.fieldOptions) \subseteq Options
    BY OptionsInOrder
  <2>2. o \in ToSet(f.fieldOptions)
    BY <1>3, <2>1 DEF ToSet
  <2>. QED  BY <1>2, <2>1, <2>2, OthersAreNoOption
<1>5. PICK v : v = Answers!Choice(o, FALSE)
  OBVIOUS
<1>6. v.option = o /\ v.others = FALSE
  BY <1>5 DEF Answers!Choice
<1>7. v \in Answers!PossibleValues(p)
  BY <1>2, <1>4, <1>5, RadioValues
<1>8. Answers!Answer(f, v) = o
  BY <1>2, <1>4, <1>6 DEF Answers!Answer, Answers!RadioAnswer
<1>9. ~Answers!isValueEmpty(p, o) /\ ~Answers!NothingChosen(p, v)
  BY <1>2, <1>4, <1>6 DEF Answers!isValueEmpty, Answers!NothingChosen
<1>10. ~Answers!OthersMissing(p, v) /\ Answers!PageFilled(p, v, 0)
  BY <1>2, <1>4, <1>6 DEF Answers!OthersMissing, Answers!PageFilled
<1>11. Answers!isFilledAnswerValid(p, o, Absent, TRUE, 0, 0)
  BY <1>2, <1>4 DEF Answers!isFilledAnswerValid, Answers!isRadioValid,
                    Answers!isOneOfOptions
<1>12. Answers!PageValid(p, v, Absent, 0)
  BY <1>2, <1>9, <1>10, DisplayedWell
<1>. QED  BY <1>1, <1>7, <1>8, <1>9, <1>11, <1>12, AnsweredWith

(* The options that are ticked are sent in some order, each once.          *)
LEMMA TickedInOrder ==
  ASSUME NEW S, IsFiniteSet(S)
  PROVE  /\ Answers!SetToSeq(S) \in [1 .. Cardinality(S) -> S]
         /\ \A i, j \in 1 .. Cardinality(S) :
               Answers!SetToSeq(S)[i] = Answers!SetToSeq(S)[j] => i = j
         /\ Answers!Cardinality(S) = Cardinality(S)
         /\ Cardinality(S) \in Nat
<1>1. Answers!Cardinality(S) = Cardinality(S)
  BY DEF Cardinality, Answers!Cardinality
<1>2. Cardinality(S) \in Nat /\ ExistsBijection(1 .. Cardinality(S), S)
  BY FS_CardinalityType
<1>3. PICK n : n = Cardinality(S)
  OBVIOUS
<1>4. PICK f : f \in Bijection(1 .. n, S)
  BY <1>2, <1>3 DEF ExistsBijection
<1>5. f \in [1 .. n -> S] /\ Answers!IsInjective(f)
  BY <1>4 DEF Bijection, Injection, Answers!IsInjective, IsInjective
<1>6. PICK g : g = Answers!SetToSeq(S)
  OBVIOUS
<1>7. g = CHOOSE h \in [1 .. n -> S] : Answers!IsInjective(h)
  BY <1>1, <1>3, <1>6 DEF Answers!SetToSeq
<1>8. g \in [1 .. n -> S] /\ Answers!IsInjective(g)
  BY <1>5, <1>7
<1>. QED  BY <1>1, <1>2, <1>3, <1>6, <1>8 DEF Answers!IsInjective

(* As many of the options as are asked for can be ticked.                  *)
LEMMA FirstOptions ==
  ASSUME NEW s, DOMAIN s = 1 .. Len(s), Len(s) \in Nat, IsInjective(s),
         NEW k \in 0 .. Len(s)
  PROVE  LET S == {s[i] : i \in 1 .. k}
         IN  S \subseteq ToSet(s) /\ IsFiniteSet(S) /\ Cardinality(S) = k
<1>. DEFINE S == {s[i] : i \in 1 .. k}
            t == [i \in 1 .. k |-> s[i]]
<1>1. \A i \in 1 .. k : i \in DOMAIN s
  OBVIOUS
<1>2. t \in Injection(1 .. k, S)
  BY <1>1 DEF Injection, IsInjective
<1>3. t \in Surjection(1 .. k, S)
  BY DEF Surjection
<1>4. IsFiniteSet(1 .. k) /\ Cardinality(1 .. k) = k
  BY FS_Interval
<1>5. IsFiniteSet(S) /\ Cardinality(S) = k
  <2>. HIDE DEF t, S
  <2>. QED  BY <1>2, <1>3, <1>4, FS_Surjection
<1>. QED  BY <1>1, <1>5 DEF ToSet

LEMMA WithOneMore ==
  ASSUME NEW S, NEW s \in Seq(S), NEW e, NEW m, m = Len(s)
  PROVE  /\ Len(s \o <<e>>) = m + 1
         /\ DOMAIN (s \o <<e>>) = 1 .. (m + 1)
         /\ \A i \in 1 .. m : (s \o <<e>>)[i] = s[i]
         /\ (s \o <<e>>)[m + 1] = e
<1>. DEFINE T == S \cup {e}
<1>1. s \in Seq(T) /\ <<e>> \in Seq(T) /\ m \in Nat /\ Len(<<e>>) = 1
  OBVIOUS
<1>2. PICK b : b = <<e>>
  OBVIOUS
<1>3. b \in Seq(T) /\ Len(b) = 1 /\ b[1] = e
  BY <1>1, <1>2
<1>. HIDE DEF T
<1>4. PICK a : a = s \o b
  OBVIOUS
<1>5. /\ a \in Seq(T) /\ Len(a) = m + 1
      /\ \A i \in 1 .. m + 1 : a[i] = IF i <= m THEN s[i] ELSE b[i - m]
  <2>1. /\ s \o b \in Seq(T) /\ Len(s \o b) = Len(s) + Len(b)
        /\ \A i \in 1 .. Len(s) + Len(b) :
             (s \o b)[i] = IF i <= Len(s) THEN s[i] ELSE b[i - Len(s)]
    BY <1>1, <1>3, ConcatProperties
  <2>2. Len(s) + Len(b) = m + 1 /\ Len(s) = m
    BY <1>1, <1>3
  <2>. QED  BY <1>4, <2>1, <2>2
<1>6. DOMAIN a = 1 .. (m + 1)
  BY <1>5
<1>7. \A i \in 1 .. m : a[i] = s[i]
  <2>1. \A i \in 1 .. m : i \in 1 .. m + 1 /\ i <= m
    BY <1>1
  <2>. QED  BY <1>5, <2>1
<1>8. a[m + 1] = b[1]
  <2>1. m + 1 \in 1 .. m + 1 /\ ~(m + 1 <= m) /\ (m + 1) - m = 1
    BY <1>1
  <2>. QED  BY <1>5, <2>1
<1>. QED  BY <1>2, <1>3, <1>4, <1>5, <1>6, <1>7, <1>8

(* Ticks: the options that are ticked, and "Others" if they are not enough.*)
LEMMA CheckboxTicked ==
  ASSUME NEW f \in CheckboxFields, CanBeSaved(f),
         NEW S, S \subseteq ToSet(f.fieldOptions), IsFiniteSet(S),
         NEW ticked \in {FALSE, f.othersRadioButton},
         NEW n, n = Cardinality(S) + (IF ticked THEN 1 ELSE 0), n \in Nat \ {0},
         Answers!AtLeast(n, f.customMin), Answers!AtMost(n, f.customMax)
  PROVE  CanBeAnswered(f)
<1>1. PICK p : p = Posted(f)
  OBVIOUS
<1>2. /\ f.fieldType = "checkbox" /\ p.fieldType = "checkbox"
      /\ p.fieldOptions = ToSet(f.fieldOptions)
      /\ p.othersRadioButton = f.othersRadioButton
      /\ p.customMin = f.customMin /\ p.customMax = f.customMax
      /\ f.othersRadioButton \in BOOLEAN /\ ticked \in BOOLEAN
  BY <1>1, OptionsPosted DEF CheckboxFields
<1>3. PICK v : v = [options |-> S, checked |-> ticked, others |-> ticked]
  OBVIOUS
<1>4. v.options = S /\ v.checked = ticked /\ v.others = ticked
  BY <1>3
<1>5. v \in Answers!PossibleValues(p)
  <2>1. v \in [options : SUBSET p.fieldOptions,
               checked : {FALSE, p.othersRadioButton},
               others : {FALSE, p.othersRadioButton}]
    BY <1>2, <1>3
  <2>. QED  BY <1>2, <2>1, CheckboxValues DEF Answers!CheckboxValues
<1>6. PICK s, m : s = Answers!SetToSeq(S) /\ m = Cardinality(S)
  OBVIOUS
<1>7. /\ s \in [1 .. m -> S] /\ m \in Nat /\ Answers!Cardinality(S) = m
      /\ \A i, j \in 1 .. m : s[i] = s[j] => i = j
  BY <1>6, TickedInOrder
<1>8. s \in Seq(S) /\ Len(s) = m
  BY <1>7
<1>9. PICK a : a = s \o (IF ticked THEN <<"Others: text">> ELSE <<>>)
  OBVIOUS
<1>10. Answers!Answer(f, v) = a
  BY <1>2, <1>4, <1>6, <1>9 DEF Answers!Answer, Answers!CheckboxAnswers
<1>11. /\ Len(a) = n /\ DOMAIN a = 1 .. n
       /\ \A i \in 1 .. n : a[i] = IF i <= m THEN s[i] ELSE "Others: text"
       /\ \A i \in 1 .. n : i > m => ticked /\ i = n
  <2>1. n = m + (IF ticked THEN 1 ELSE 0)
    BY <1>6
  <2>2. CASE ticked
    <3>1. a = s \o <<"Others: text">> /\ n = m + 1
      BY <1>9, <2>1, <2>2
    <3>2. /\ Len(a) = m + 1 /\ DOMAIN a = 1 .. (m + 1)
          /\ \A i \in 1 .. m : a[i] = s[i]
          /\ a[m + 1] = "Others: text"
      <4>1. Len(s) = m /\ s \in Seq(S)
        BY <1>8
      <4>2. PICK b : b = "Others: text"
        OBVIOUS
      <4>3. a = s \o <<b>>
        BY <3>1, <4>2
      <4>4. /\ Len(s \o <<b>>) = m + 1
            /\ DOMAIN (s \o <<b>>) = 1 .. (m + 1)
            /\ \A i \in 1 .. m : (s \o <<b>>)[i] = s[i]
            /\ (s \o <<b>>)[m + 1] = b
        BY <4>1, WithOneMore
      <4>. QED  BY <4>2, <4>3, <4>4
    <3>3. \A i \in 1 .. (m + 1) :
             \/ i \in 1 .. m /\ i <= m
             \/ i = m + 1 /\ ~(i <= m) /\ i > m
      BY <1>7
    <3>4. \A i \in 1 .. n : i > m => i = n
      <4>1. \A i \in 1 .. (m + 1) : i > m => i = m + 1
        BY <1>7
      <4>. QED  BY <3>1, <4>1
    <3>. QED  BY <2>2, <3>1, <3>2, <3>3, <3>4
  <2>3. CASE ~ticked
    <3>1. a = s /\ n = m
      BY <1>7, <1>8, <1>9, <2>1, <2>3
    <3>2. \A i \in 1 .. m : i <= m /\ ~(i > m)
      BY <1>7
    <3>3. Len(a) = m /\ DOMAIN a = 1 .. m
      BY <1>8, <3>1
    <3>. QED  BY <3>1, <3>2, <3>3
  <2>. QED  BY <2>2, <2>3
<1>12. \A i \in 1 .. m : s[i] \in ToSet(f.fieldOptions) /\ s[i] \in Options
  BY <1>7, OptionsInOrder
<1>13. PICK others : others = IF ticked THEN n ELSE 0
  OBVIOUS
<1>14. /\ others \in {0} \cup DOMAIN a
       /\ others # 0 => Answers!isOtherOption(p, a[others])
  <2>1. CASE ticked
    <3>1. n \in 1 .. n
      OBVIOUS
    <3>2. n = m + 1
      BY <1>6, <2>1
    <3>3. ~(n <= m)
      BY <1>7, <3>2
    <3>4. a[n] = "Others: text"
      BY <1>11, <3>1, <3>3
    <3>5. p.othersRadioButton
      BY <1>2, <2>1
    <3>. QED  BY <1>11, <1>13, <2>1, <3>1, <3>4, <3>5
              DEF Answers!isOtherOption
  <2>2. CASE ~ticked
    BY <1>13, <2>2
  <2>. QED  BY <2>1, <2>2
<1>15. ASSUME NEW i \in DOMAIN a \ {others}
       PROVE  /\ Answers!isOneOfOptions(p, a[i])
              /\ \A j \in DOMAIN a \ {others} : a[i] = a[j] => i = j
  <2>1. \A j \in DOMAIN a \ {others} : j \in 1 .. m /\ a[j] = s[j]
    <3>1. SUFFICES ASSUME NEW j \in DOMAIN a \ {others}
                   PROVE  j \in 1 .. m /\ a[j] = s[j]
      OBVIOUS
    <3>2. j \in 1 .. n
      BY <1>11, <3>1
    <3>3. ~(j > m)
      BY <1>11, <1>13, <3>2
    <3>4. j <= m /\ j \in 1 .. m
      BY <1>7, <3>2, <3>3
    <3>. QED  BY <1>11, <3>2, <3>4
  <2>2. i \in 1 .. m /\ a[i] = s[i]
    BY <1>15, <2>1
  <2>. QED  BY <1>2, <1>7, <1>12, <2>1, <2>2 DEF Answers!isOneOfOptions
<1>16. Answers!isCheckboxValid(p, a)
  BY <1>2, <1>11, <1>14, <1>15 DEF Answers!isCheckboxValid
<1>17. Answers!isFilledAnswerValid(p, a, Absent, TRUE, 0, 0)
  BY <1>2, <1>16 DEF Answers!isFilledAnswerValid
<1>18. ~Answers!isValueEmpty(p, a)
  BY <1>2, <1>11 DEF Answers!isValueEmpty
<1>19. ~Answers!NothingChosen(p, v)
  <2>1. S = {} => Cardinality(S) = 0
    BY FS_EmptySet
  <2>. QED  BY <1>2, <1>4, <2>1 DEF Answers!NothingChosen
<1>20. Answers!Boxes(v) = n
  BY <1>4, <1>6, <1>7 DEF Answers!Boxes
<1>21. ~Answers!OthersMissing(p, v) /\ Answers!PageFilled(p, v, 0)
  BY <1>2, <1>4, <1>20 DEF Answers!OthersMissing, Answers!PageFilled,
                           Answers!validateCheckbox
<1>22. Answers!PageValid(p, v, Absent, 0)
  BY <1>2, <1>19, <1>21, DisplayedWell
<1>. QED  BY <1>1, <1>5, <1>10, <1>17, <1>18, <1>22, AnsweredWith

LEMMA CheckboxAnswered ==
  ASSUME NEW f \in CheckboxFields, CanBeSaved(f)
  PROVE  CanBeAnswered(f)
<1>1. /\ f.fieldType = "checkbox" /\ f.othersRadioButton \in BOOLEAN
      /\ f.customMin \in Optional(Limits) /\ f.customMax \in Optional(Limits)
  BY DEF CheckboxFields
<1>. DEFINE s == f.fieldOptions
            boxes == Len(s) + (IF f.othersRadioButton THEN 1 ELSE 0)
<1>2. /\ Len(s) \in Nat \ {0} /\ DOMAIN s = 1 .. Len(s)
      /\ IsInjective(s)
  BY OptionsInOrder
<1>3. ~RangeInvalid(f)
  BY <1>1 DEF CanBeSaved, FormInvalid
<1>4. /\ \A m \in {f.customMin, f.customMax} \ {Absent} : m \in 1 .. boxes
      /\ Absent \notin {f.customMin, f.customMax} =>
            ~(f.customMax < f.customMin)
  BY <1>1, <1>3 DEF RangeInvalid
<1>5. PICK n : n = IF f.customMin # Absent THEN f.customMin
                   ELSE IF f.customMax # Absent THEN f.customMax ELSE 1
  OBVIOUS
<1>6. /\ n \in 1 .. boxes /\ boxes \in Nat
      /\ Answers!AtLeast(n, f.customMin) /\ Answers!AtMost(n, f.customMax)
  <2>1. boxes \in Nat /\ 1 \in 1 .. boxes
    <3>1. PICK l \in Nat \ {0} : l = Len(s)
      BY <1>2
    <3>2. boxes = l + 1 \/ boxes = l
      <4>1. boxes = l + (IF f.othersRadioButton THEN 1 ELSE 0)
        BY <3>1
      <4>2. l + 0 = l
        OBVIOUS
      <4>. HIDE DEF boxes
      <4>. QED  BY <1>1, <4>1, <4>2
    <3>. HIDE DEF boxes
    <3>. QED  BY <3>2
  <2>. HIDE DEF boxes
  <2>2. n \in 1 .. boxes
    BY <1>4, <1>5, <2>1
  <2>. QED  BY <1>4, <1>5, <2>1, <2>2 DEF Answers!AtLeast, Answers!AtMost
<1>7. CASE n <= Len(s)
  <2>1. n \in 0 .. Len(s) /\ n \in Nat \ {0}
    BY <1>2, <1>6, <1>7
  <2>2. PICK S : S = {s[i] : i \in 1 .. n}
    OBVIOUS
  <2>3. S \subseteq ToSet(s) /\ IsFiniteSet(S) /\ Cardinality(S) = n
    BY <1>2, <2>1, <2>2, FirstOptions
  <2>4. n = Cardinality(S) + (IF FALSE THEN 1 ELSE 0)
    BY <2>1, <2>3
  <2>. QED  BY <1>6, <2>1, <2>3, <2>4, CheckboxTicked
<1>8. CASE n > Len(s)
  <2>1. n = Len(s) + 1 /\ f.othersRadioButton /\ n \in Nat \ {0}
    <3>1. PICK l \in Nat \ {0} : l = Len(s)
      BY <1>2
    <3>2. boxes = IF f.othersRadioButton THEN l + 1 ELSE l
      <4>1. boxes = l + (IF f.othersRadioButton THEN 1 ELSE 0)
        BY <3>1
      <4>2. l + 0 = l
        OBVIOUS
      <4>. HIDE DEF boxes
      <4>. QED  BY <1>1, <4>1, <4>2
    <3>. HIDE DEF boxes
    <3>3. n \in Nat /\ n <= boxes /\ n > l
      BY <1>6, <1>8, <3>1
    <3>. QED  BY <3>1, <3>2, <3>3
  <2>2. PICK S : S = {s[i] : i \in 1 .. Len(s)}
    OBVIOUS
  <2>3. S \subseteq ToSet(s) /\ IsFiniteSet(S) /\ Cardinality(S) = Len(s)
    <3>1. Len(s) \in 0 .. Len(s)
      BY <1>2
    <3>. QED  BY <1>2, <2>2, <3>1, FirstOptions
  <2>4. n = Cardinality(S) + (IF TRUE THEN 1 ELSE 0)
    BY <2>1, <2>3
  <2>5. TRUE \in {FALSE, f.othersRadioButton}
    BY <1>1, <2>1
  <2>. QED  BY <1>6, <2>1, <2>3, <2>4, <2>5, CheckboxTicked
<1>. QED  BY <1>2, <1>6, <1>7, <1>8

-----------------------------------------------------------------------------
(* A table: all the cells of as many rows as there have to be *)

LEMMA TableAnswered ==
  ASSUME NEW f \in TableFields, CanBeSaved(f)
  PROVE  CanBeAnswered(f)
<1>1. /\ f.fieldType = "table" /\ f.addMoreRows \in BOOLEAN
      /\ f.minimumRows \in Optional(1 .. MaxRows)
      /\ f.maximumRows \in Optional(Int) /\ f.columns \in Seq(Columns)
  BY DEF TableFields
<1>2. PICK p : p = Posted(f)
  OBVIOUS
<1>3. /\ p.fieldType = "table" /\ p.minimumRows = f.minimumRows
      /\ p.maximumRows = f.maximumRows /\ p.addMoreRows = f.addMoreRows
  <2>1. p = [f EXCEPT !.columns =
                [c \in DOMAIN f.columns |-> f.columns[c].required]]
    BY <1>1, <1>2 DEF Posted
  <2>. QED  BY <1>1, <2>1 DEF TableFields
<1>4. MaxRows \in Nat
  BY RespondentsAssumption
<1>5. PICK n : n = f.minimumRows
  OBVIOUS
<1>6. ~RowsError(f)
  BY <1>1 DEF CanBeSaved, disableSave
<1>7. n \in 1 .. MaxRows /\ n \in Nat \ {0} /\ n \in 0 .. MaxRows
  BY <1>1, <1>4, <1>5, <1>6 DEF RowsError, Optional
<1>8. PICK row : row = [c \in DOMAIN p.columns |-> TRUE]
  OBVIOUS
<1>9. PICK rows : rows = [i \in 1 .. n |-> row]
  OBVIOUS
<1>10. PICK v : v = [components |-> rows, additionalRowCount |-> 0]
  OBVIOUS
<1>11. v.components = rows
  BY <1>10
<1>12. v \in Answers!PossibleValues(p)
  <2>1. row \in [DOMAIN p.columns -> BOOLEAN]
    BY <1>8
  <2>2. rows \in [1 .. n -> [DOMAIN p.columns -> BOOLEAN]]
    BY <1>9, <2>1
  <2>3. rows \in Answers!SeqOf([DOMAIN p.columns -> BOOLEAN], MaxRows)
    <3>. DEFINE R == [DOMAIN p.columns -> BOOLEAN]
    <3>. HIDE DEF R
    <3>1. rows \in [1 .. n -> R]
      BY <2>2 DEF R
    <3>2. rows \in Answers!SeqOf(R, MaxRows)
      BY <1>7, <3>1 DEF Answers!SeqOf
    <3>. QED  BY <3>2 DEF R
  <2>4. v \in [components : Answers!SeqOf([DOMAIN p.columns -> BOOLEAN],
                                          MaxRows),
               additionalRowCount : 0 .. MaxRows]
    BY <1>4, <1>10, <2>3
  <2>. QED  BY <1>3, <2>4, TableValues DEF Answers!TableValues
<1>13. Answers!Answer(f, v) = rows
  BY <1>1, <1>11 DEF Answers!Answer
<1>14. /\ rows \in Seq({row}) /\ Len(rows) = n /\ DOMAIN rows = 1 .. n
       /\ \A i \in 1 .. n : rows[i] = row
  BY <1>7, <1>9
<1>15. ~Answers!isValueEmpty(p, rows)
  BY <1>3, <1>7, <1>14 DEF Answers!isValueEmpty
<1>16. Answers!PageValid(p, v, Absent, 0)
  BY <1>3, <1>8, <1>11, <1>14 DEF Answers!PageValid
<1>17. p.addMoreRows => Answers!AtMost(Len(rows), p.maximumRows)
  <2>1. f.addMoreRows /\ f.maximumRows # Absent =>
           ~(f.maximumRows <= f.minimumRows) /\ f.maximumRows \in Int
    BY <1>1, <1>6 DEF RowsError, Optional
  <2>. QED  BY <1>3, <1>5, <1>7, <1>14, <2>1 DEF Answers!AtMost
<1>18. Answers!isTableValid(p, rows, TRUE)
  <2>1. Len(rows) >= p.minimumRows /\ Len(rows) = p.minimumRows
    BY <1>3, <1>5, <1>7, <1>14
  <2>2. \A i \in DOMAIN rows, c \in DOMAIN p.columns : rows[i][c]
    BY <1>8, <1>14
  <2>. QED  BY <1>17, <2>1, <2>2 DEF Answers!isTableValid
<1>19. Answers!isFilledAnswerValid(p, rows, Absent, TRUE, 0, 0)
  BY <1>3, <1>18 DEF Answers!isFilledAnswerValid
<1>. QED  BY <1>2, <1>12, <1>13, <1>15, <1>16, <1>19, AnsweredWith

LEMMA IsAnswered ==
  ASSUME NEW f, WellEdited(f), CanBeSaved(f),
         f.fieldType \notin {"section", "statement", "image", "attachment"}
  PROVE  CanBeAnswered(f)
<1>1. f \in EditedFields /\ LimitsOf(f)
  BY DEF WellEdited
<1>2. \/ f \in PlainFields /\ f.fieldType \in {"nric", "yes_no"}
      \/ f \in TextFields \/ f \in DecimalFields
      \/ f \in DropdownFields \/ f \in RadioFields \/ f \in CheckboxFields
      \/ f \in RatingFields \/ f \in DateFields \/ f \in TableFields
      \/ f \in EmailFields \/ f \in PhoneFields
  BY <1>1, KindOfField DEF Answers!BasicFieldType
<1>. QED
  BY <1>1, <1>2, PlainAnswered, TextAnswered, DecimalAnswered,
     DropdownAnswered, RadioAnswered, CheckboxAnswered, RatingAnswered,
     DateAnswered, TableAnswered, EmailAnswered, PhoneAnswered

-----------------------------------------------------------------------------
(* Every step of the modal *)

LEMMA OpensStep ==
  ASSUME EditorInv, OpenNewField \/ OpenSavedField
  PROVE  EditorInv'
<1>1. CASE OpenNewField
  <2>1. PICK type \in FieldTypes : \E field \in DefaultFields(type) : Open(field)
    BY <1>1 DEF OpenNewField
  <2>2. PICK f \in DefaultFields(type) : Open(f)
    BY <2>1
  <2>. QED  BY <1>1, <2>2, DefaultWellEdited, OpenStep DEF OpenNewField
<1>2. CASE OpenSavedField
  <2>1. PICK f : f = saved /\ Open(f)
    BY <1>2 DEF OpenSavedField
  <2>2. WellEdited(f) /\ PictureKept(f)
    BY <1>2, <2>1 DEF OpenSavedField, EditorInv
  <2>. QED  BY <1>2, <2>1, <2>2, OpenStep DEF OpenSavedField
<1>. QED  BY <1>1, <1>2

LEMMA EditorInitial ==
  ASSUME EditorInit
  PROVE  EditorInv
BY DEF EditorInit, EditorInv, UploadInv, NoUpload, Uploads, Optional

LEMMA EditorStep ==
  ASSUME EditorInv, [EditorNext]_editorVars
  PROVE  EditorInv'
<1>1. CASE UNCHANGED editorVars
  BY <1>1 DEF editorVars, imageVars, EditorInv, UploadInv, PictureKept
<1>2. CASE OpenNewField \/ OpenSavedField
  BY <1>2, OpensStep
<1>3. CASE \/ ToggleRequired \/ ToggleInternational \/ ChooseSteps
           \/ ChooseAttachmentSize \/ EditAutoReply
  BY <1>3, RequiredStep, PhoneStep, StepsStep, AttachmentStep, AutoReplyStep
<1>4. CASE \/ SelectValidation \/ TypeLimit \/ ToggleRange \/ TypeRange
           \/ SelectDateValidation \/ PickDate
  BY <1>4, TextLimitStep, RangeStep, DateLimitStep
<1>5. CASE \/ AddOption \/ DeleteOption \/ TypeOption \/ ToggleOthers
           \/ TypeDropdownOptions
  BY <1>5, AddOptionStep, DeleteOptionStep, TypeOptionStep, DropdownStep
<1>6. CASE \/ ToggleAddMoreRows \/ TypeMinimumRows \/ TypeMaximumRows
           \/ AddPreviewRow \/ DeletePreviewRow
  BY <1>6, RowsStep
<1>7. CASE \/ AddTableColumn \/ DeleteTableColumn \/ UpdateColumnType
           \/ UpdateColumnOptions \/ EditColumn
  BY <1>7, AddColumnStep, DeleteColumnStep, ColumnsStep
<1>8. CASE \/ UploadImage \/ CancelUpload \/ HashRead \/ PostSigned
           \/ ImageKept \/ UploadFails
  BY <1>8, UploadsStep
<1>9. CASE UploadSucceeds \/ RemoveImage
  BY <1>9, UploadedStep, RemoveImageStep
<1>10. CASE saveField \/ SaveSucceeds \/ SaveRefused \/ cancel
  BY <1>10, SavingStep
<1>. QED
  BY <1>1, <1>2, <1>3, <1>4, <1>5, <1>6, <1>7, <1>8, <1>9, <1>10
     DEF EditorNext

(* What the invariant says of the field in the modal, and of a saved one.  *)
LEMMA LimitsInOrder ==
  ASSUME EditorInv
  PROVE  LimitsAsSelected
<1>. SUFFICES ASSUME edited # Absent
              PROVE  LimitsAsSelected
  BY DEF LimitsAsSelected
<1>1. PICK f : f = edited
  OBVIOUS
<1>2. LimitsOf(f)
  BY <1>1 DEF EditorInv, WellEdited
<1>3. CASE f.fieldType \in {"textfield", "textarea", "number"}
  <2>1. /\ f.customMax = IF f.selectedValidation \in {"Maximum", "Exact"}
                         THEN f.customVal ELSE Absent
        /\ f.customMin = IF f.selectedValidation \in {"Minimum", "Exact"}
                         THEN f.customVal ELSE Absent
    BY <1>2, <1>3 DEF LimitsOf
  <2>2. [selectedValidation |-> f.selectedValidation,
         customVal |-> f.customVal, customMax |-> f.customMax,
         customMin |-> f.customMin] = Answers!ValidationOptions(f)
    BY <2>1 DEF Answers!ValidationOptions
  <2>. QED  BY <1>1, <1>3, <2>2 DEF LimitsAsSelected
<1>4. CASE f.fieldType \in {"decimal", "checkbox"}
  BY <1>1, <1>2, <1>4 DEF LimitsOf, LimitsAsSelected
<1>5. CASE f.fieldType = "date"
  BY <1>1, <1>2, <1>5 DEF LimitsOf, LimitsAsSelected
<1>. QED  BY <1>1, <1>3, <1>4, <1>5 DEF LimitsAsSelected

LEMMA EditedInOrder ==
  ASSUME EditorInv
  PROVE  FieldInOrder
<1>1. PreviewShowsColumns
  <2>1. ASSUME edited # Absent, edited.fieldType = "table",
               NEW i \in DOMAIN components
        PROVE  components[i] = AddedRow(edited)
    <3>1. PICK row : row = AddedRow(edited)
      OBVIOUS
    <3>2. components \in Seq({row})
      BY <2>1, <3>1 DEF EditorInv
    <3>. QED  BY <3>1, <3>2
  <2>. QED  BY <2>1 DEF PreviewShowsColumns
<1>2. LimitsAsSelected
  BY LimitsInOrder
<1>3. BoxForEachOption
  BY DEF BoxForEachOption, EditorInv, WellEdited
<1>4. SavedIsAccepted
  BY IsAccepted DEF SavedIsAccepted, EditorInv
<1>5. SavedCanBeAnswered
  BY IsAnswered DEF SavedCanBeAnswered, EditorInv
<1>6. PictureIsKept
  BY DEF PictureIsKept, EditorInv, PictureKept, CanBeSaved, disableSave,
         HasPicture
<1>. QED  BY <1>1, <1>2, <1>3, <1>4, <1>5, <1>6 DEF FieldInOrder

-----------------------------------------------------------------------------
(* Whatever was typed, cleared, deleted and uploaded in the modal of a     *)
(* field: its preview and its limits agree with the field, and what it     *)
(* lets the admin save passes the schemas of the database and can be       *)
(* answered by whoever sees it.                                            *)
THEOREM FieldsInOrder == AdminSpec => []FieldInOrder
<1>1. AdminInit => EditorInv
  BY EditorInitial DEF AdminInit
<1>2. EditorInv /\ [AdminNext]_adminVars => EditorInv'
  <2>1. [AdminNext]_adminVars => [EditorNext]_editorVars
    BY DEF AdminNext, adminVars
  <2>. QED  BY <2>1, EditorStep
<1>3. EditorInv => FieldInOrder
  BY EditedInOrder
<1>. QED  BY <1>1, <1>2, <1>3, PTL DEF AdminSpec
===============================================================================
