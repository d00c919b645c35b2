------------------------ MODULE ResponseBrowsing_proofs ------------------------
(***************************************************************************)
(* Proofs about ResponseDownload and ResponseBrowsing, for any responses,  *)
(* any size of a page and any number of workers.                           *)
(*                                                                         *)
(* The export first: however the network cuts the server's text, whichever *)
(* worker answers first and whatever goes wrong outside of the page, the   *)
(* file is that of the responses.  The proof goes from the data to the     *)
(* steps: folds, the cutting of text into lines, the merged headers, the   *)
(* columns and the table, the workers' inboxes; then the inductive         *)
(* invariant, DownloadInv, and one lemma for each kind of step.            *)
(*                                                                         *)
(* Then the tab: the list, the view of a response and the export beside    *)
(* one another.                                                            *)
(***************************************************************************)
EXTENDS ResponseBrowsing, SequenceTheorems, FiniteSetTheorems,
        WellFoundedInduction, TLAPS

-----------------------------------------------------------------------------
(* Folds.  A fold of the library is a function on sets of positions, which *)
(* takes the last of them first; on the sets 1..k it is the recursion that *)
(* one reads from left to right.                                           *)

LessThan == {p \in Nat \X Nat : p[1] < p[2]}

(* Every set of numbers has a least one.                                   *)
LEMMA LeastExists ==
  ASSUME NEW T \in SUBSET Nat, T # {}
  PROVE  \E n \in T : \A m \in T : n <= m
<1>1. IsWellFoundedOn(LessThan, Nat)
  BY NatLessThanWellFounded DEF OpToRel, LessThan
<1>2. PICK n \in T : \A m \in T : <<m, n>> \notin LessThan
  BY <1>1, WFMin
<1>3. ASSUME NEW m \in T
      PROVE  n <= m
  <2>1. m \in Nat /\ n \in Nat
    OBVIOUS
  <2>2. CASE m < n
    BY <1>2, <2>1, <2>2 DEF LessThan
  <2>. QED  BY <2>1, <2>2
<1>. QED  BY <1>3

(* A set with 0 that has the successor of each of its numbers up to n.     *)
LEMMA CountsUp ==
  ASSUME NEW n \in Nat, NEW T, 0 \in T,
         \A k \in 0..n : k \in T /\ k # n => k + 1 \in T
  PROVE  0..n \subseteq T
<1>. DEFINE Bad == {k \in 0..n : k \notin T}
<1>1. SUFFICES ASSUME Bad # {}
               PROVE  FALSE
  OBVIOUS
<1>2. PICK k \in Bad : \A m \in Bad : k <= m
  <2>1. Bad \in SUBSET Nat
    OBVIOUS
  <2>. QED
    <3>. HIDE DEF Bad
    <3>. QED  BY <1>1, <2>1, LeastExists
<1>3. k \in 0..n /\ k \notin T /\ k # 0
  OBVIOUS
<1>4. k - 1 \in 0..n /\ k - 1 # n /\ k = (k - 1) + 1
  BY <1>3
<1>5. k - 1 \notin Bad
  BY <1>2, <1>4
<1>6. k - 1 \in T
  BY <1>4, <1>5
<1>. QED  BY <1>3, <1>4, <1>6

(* The greatest number of 1..k is k.                                       *)
LEMMA MaxOfInterval ==
  ASSUME NEW k \in Nat \ {0}
  PROVE  /\ Max(1..k) = k
         /\ (1..k) \ {k} = 1..(k - 1)
         /\ 1..k # {}
<1>1. k \in 1..k /\ \A m \in 1..k : k >= m
  OBVIOUS
<1>2. \A m \in 1..k : (\A i \in 1..k : m >= i) => m = k
  OBVIOUS
<1>3. Max(1..k) = k
  BY <1>1, <1>2 DEF Max
<1>4. (1..k) \ {k} = 1..(k - 1)
  <2>1. \A m : m \in 1..k /\ m # k <=> m \in 1..(k - 1)
    OBVIOUS
  <2>. QED  BY <2>1
<1>. QED  BY <1>1, <1>3, <1>4

LEMMA MaxOfPositions ==
  ASSUME NEW n \in Nat, NEW s \in SUBSET (1..n), s # {}
  PROVE  Max(s) \in s /\ \A m \in s : Max(s) >= m
<1>. DEFINE Above == {n - i : i \in s}
<1>1. Above \in SUBSET Nat /\ Above # {}
  <2>1. \A i \in s : n - i \in Nat
    OBVIOUS
  <2>2. \A a \in Above : a \in Nat
    BY <2>1
  <2>3. PICK i : i \in s
    OBVIOUS
  <2>4. n - i \in Above
    BY <2>3
  <2>. QED  BY <2>2, <2>4
<1>2. PICK d \in Above : \A e \in Above : d <= e
  <2>. HIDE DEF Above
  <2>. QED  BY <1>1, LeastExists
<1>3. PICK x \in s : d = n - x
  OBVIOUS
<1>4. \A m \in s : x >= m
  <2>1. SUFFICES ASSUME NEW m \in s
                 PROVE  x >= m
    OBVIOUS
  <2>2. n - m \in Above
    OBVIOUS
  <2>3. n - x <= n - m
    BY <1>2, <1>3, <2>2
  <2>. QED  BY <2>3
<1>. QED  BY <1>3, <1>4 DEF Max

(* There is a function that folds the steps F.                             *)
IsFold(f, n, F, base) ==
    \A s \in SUBSET (1..n) :
        f[s] = IF s = {} THEN base ELSE F[Max(s)][f[s \ {Max(s)}]]

LEMMA FoldExists ==
  ASSUME NEW S, NEW base \in S, NEW n \in Nat, NEW F \in [1..n -> [S -> S]]
  PROVE  \E f \in [SUBSET (1..n) -> S] : IsFold(f, n, F, base)
<1>. DEFINE Has(k) == \E f \in [SUBSET (1..k) -> S] : IsFold(f, k, F, base)
            T == {k \in 0..n : Has(k)}
<1>1. 0 \in T
  <2>. DEFINE f == [s \in SUBSET (1..0) |-> base]
  <2>1. 1..0 = {} /\ f \in [SUBSET (1..0) -> S]
    OBVIOUS
  <2>2. IsFold(f, 0, F, base)
    BY <2>1 DEF IsFold
  <2>. QED  BY <2>1, <2>2
<1>2. ASSUME NEW k \in 0..n, k \in T, k # n
      PROVE  k + 1 \in T
  <2>1. PICK f \in [SUBSET (1..k) -> S] : IsFold(f, k, F, base)
    BY <1>2
  <2>2. k + 1 \in 1..n /\ k \in Nat
    BY <1>2
  <2>. DEFINE g == [s \in SUBSET (1..(k + 1)) |->
                       IF k + 1 \in s THEN F[k + 1][f[s \ {k + 1}]] ELSE f[s]]
  <2>3. \A s \in SUBSET (1..(k + 1)) :
           /\ s \ {k + 1} \in SUBSET (1..k)
           /\ k + 1 \notin s => s \in SUBSET (1..k)
    BY <2>2
  <2>4. g \in [SUBSET (1..(k + 1)) -> S]
    BY <2>2, <2>3
  <2>5. ASSUME NEW s \in SUBSET (1..(k + 1)), s # {}
        PROVE  g[s] = F[Max(s)][g[s \ {Max(s)}]]
    <3>1. Max(s) \in s /\ \A m \in s : Max(s) >= m
      <4>1. k + 1 \in Nat
        BY <2>2
      <4>. QED
        <5>. HIDE DEF g
        <5>. QED  BY <2>5, <4>1, MaxOfPositions
    <3>2. CASE k + 1 \in s
      <4>1. Max(s) = k + 1
        <5>1. \A m \in 1..(k + 1) : m >= k + 1 => m = k + 1
          BY <2>2
        <5>. QED
          <6>. HIDE DEF g
          <6>. QED  BY <3>1, <3>2, <5>1
      <4>2. g[s \ {k + 1}] = f[s \ {k + 1}]
        BY <2>3
      <4>. QED  BY <3>2, <4>1, <4>2
    <3>3. CASE k + 1 \notin s
      <4>1. s \in SUBSET (1..k) /\ s \ {Max(s)} \in SUBSET (1..k)
        BY <2>3, <3>3
      <4>2. f[s] = F[Max(s)][f[s \ {Max(s)}]]
        BY <2>1, <2>5, <4>1 DEF IsFold
      <4>3. g[s] = f[s] /\ g[s \ {Max(s)}] = f[s \ {Max(s)}]
        BY <3>3
      <4>. QED  BY <4>2, <4>3
    <3>. QED  BY <3>2, <3>3
  <2>6. g[{}] = base
    <3>1. f[{}] = base
      BY <2>1 DEF IsFold
    <3>. QED  BY <3>1
  <2>7. IsFold(g, k + 1, F, base)
    <3>. HIDE DEF g
    <3>. QED  BY <2>5, <2>6 DEF IsFold
  <2>8. Has(k + 1)
    <3>. HIDE DEF g
    <3>. QED  BY <2>4, <2>7
  <2>9. k + 1 \in 0..n
    BY <2>2
  <2>. QED  BY <2>8, <2>9
<1>3. 0..n \subseteq T
  <2>. HIDE DEF T
  <2>. QED  BY <1>1, <1>2, CountsUp
<1>4. n \in T
  <2>. HIDE DEF T
  <2>. QED  BY <1>3
<1>. QED  BY <1>4

-----------------------------------------------------------------------------
(* The stream: the texts of the records, with a line feed between two, as  *)
(* if there were one after each of endlessly many.                         *)

Chars == (Nat \cup {None}) \X {"begins", "ends", "newline", "message"}
Splits == [ended : Seq(Seq(Chars)), rest : Seq(Chars)]

Unsplit == [ended |-> <<>>, rest |-> <<>>]

SplitAt(split, c) ==
    IF c = Newline THEN [ended |-> Ended(split), rest |-> <<>>]
    ELSE [split EXCEPT !.rest = Append(@, c)]

LEMMA SplitAtType ==
  ASSUME NEW split \in Splits, NEW c \in Chars
  PROVE  SplitAt(split, c) \in Splits
<1>1. split.ended \in Seq(Seq(Chars)) /\ split.rest \in Seq(Chars)
  BY DEF Splits
<1>2. Ended(split) \in Seq(Seq(Chars))
  BY <1>1, AppendProperties DEF Ended
<1>3. Append(split.rest, c) \in Seq(Chars) /\ <<>> \in Seq(Chars)
  BY <1>1, AppendProperties, EmptySeq
<1>. QED  BY <1>2, <1>3 DEF SplitAt, Splits

(* Split takes one character after the other.                              *)
LEMMA SplitSteps ==
  ASSUME NEW text \in Seq(Chars)
  PROVE  \E h : /\ h[0] = Unsplit
                /\ \A k \in 1..Len(text) : h[k] = SplitAt(h[k - 1], text[k])
                /\ Split(text) = h[Len(text)]
<1>. DEFINE n == Len(text)
            Folds(f) == f = [s \in SUBSET DOMAIN text |->
                                IF s = {} THEN Unsplit
                                ELSE SplitAt(f[s \ {Max(s)}], text[Max(s)])]
            F == [i \in 1..n |-> [s \in Splits |-> SplitAt(s, text[i])]]
<1>1. Split(text) = (CHOOSE f : Folds(f))[DOMAIN text]
  BY DEF Split, FoldLeft, MapThenFoldSet, SplitAt, Unsplit
<1>2. n \in Nat /\ DOMAIN text = 1..n /\ \A i \in 1..n : text[i] \in Chars
  OBVIOUS
<1>3. Unsplit \in Splits
  BY EmptySeq DEF Unsplit, Splits
<1>4. F \in [1..n -> [Splits -> Splits]]
  <2>1. \A i \in 1..n : [s \in Splits |-> SplitAt(s, text[i])] \in [Splits -> Splits]
    BY <1>2, SplitAtType
  <2>. QED  BY <2>1
<1>5. PICK f \in [SUBSET (1..n) -> Splits] : IsFold(f, n, F, Unsplit)
  <2>. HIDE DEF F
  <2>. QED  BY <1>2, <1>3, <1>4, FoldExists
<1>6. Folds(f)
  <2>1. ASSUME NEW s \in SUBSET (1..n), s # {}
        PROVE  f[s] = SplitAt(f[s \ {Max(s)}], text[Max(s)])
    <3>1. Max(s) \in 1..n
      BY <1>2, <2>1, MaxOfPositions
    <3>2. f[s \ {Max(s)}] \in Splits
      BY <1>5
    <3>3. F[Max(s)][f[s \ {Max(s)}]] = SplitAt(f[s \ {Max(s)}], text[Max(s)])
      BY <3>1, <3>2
    <3>4. f[s] = F[Max(s)][f[s \ {Max(s)}]]
      <4>. HIDE DEF F
      <4>. QED  BY <1>5, <2>1 DEF IsFold
    <3>. QED  BY <3>3, <3>4
  <2>2. f[{}] = Unsplit
    BY <1>5 DEF IsFold
  <2>3. f = [s \in SUBSET (1..n) |-> f[s]]
    BY <1>5
  <2>4. [s \in SUBSET (1..n) |-> f[s]]
          = [s \in SUBSET (1..n) |->
                IF s = {} THEN Unsplit
                ELSE SplitAt(f[s \ {Max(s)}], text[Max(s)])]
    <3>. HIDE DEF F
    <3>. QED  BY <2>1, <2>2
  <2>. QED  BY <1>2, <2>3, <2>4
<1>7. PICK g : Folds(g) /\ g = CHOOSE f_1 : Folds(f_1)
  <2>. HIDE DEF Folds
  <2>. QED  BY <1>6
<1>8. \A s \in SUBSET (1..n) :
         g[s] = IF s = {} THEN Unsplit
                ELSE SplitAt(g[s \ {Max(s)}], text[Max(s)])
  BY <1>2, <1>7
<1>. DEFINE h == [k \in 0..n |-> g[1..k]]
<1>9. h[0] = Unsplit
  <2>1. 1..0 = {} /\ 0 \in 0..n
    BY <1>2
  <2>. QED  BY <1>8, <2>1
<1>10. ASSUME NEW k \in 1..n
       PROVE  h[k] = SplitAt(h[k - 1], text[k])
  <2>1. k \in 0..n /\ k - 1 \in 0..n /\ 1..k \in SUBSET (1..n) /\ k \in Nat \ {0}
    BY <1>2
  <2>2. /\ Max(1..k) = k /\ (1..k) \ {k} = 1..(k - 1) /\ 1..k # {}
    BY <2>1, MaxOfInterval
  <2>3. g[1..k] = SplitAt(g[1..(k - 1)], text[k])
    BY <1>8, <2>1, <2>2
  <2>. QED  BY <2>1, <2>3
<1>11. Split(text) = h[n]
  <2>1. n \in 0..n
    BY <1>2
  <2>. HIDE DEF Folds
  <2>. QED  BY <1>1, <1>2, <1>7, <2>1
<1>. QED
  <2>. HIDE DEF h
  <2>. QED  BY <1>9, <1>10, <1>11

Stream(a) ==
    LET r == (a + 2) \div 3
    IN  CASE a % 3 = 1 -> <<r, "begins">>
          [] a % 3 = 2 -> <<r, "ends">>
          [] OTHER -> Newline

Segment(a, m) == [i \in 1..m |-> Stream(a + i)]

(* The first p characters of the text of r.                                *)
Begun(r, p) == [i \in 1..p |-> Text(r)[i]]

LEMMA StreamChars ==
  ASSUME NEW r \in Nat
  PROVE  /\ Stream(3 * r + 1) = <<r + 1, "begins">>
         /\ Stream(3 * r + 2) = <<r + 1, "ends">>
         /\ Stream(3 * r + 3) = Newline
         /\ Stream(3 * r + 1) # Newline
         /\ Stream(3 * r + 2) # Newline
<1>1. /\ (3 * r + 1) % 3 = 1 /\ (3 * r + 2) % 3 = 2 /\ (3 * r + 3) % 3 = 0
      /\ (3 * r + 3) \div 3 = r + 1 /\ (3 * r + 4) \div 3 = r + 1
  OBVIOUS
<1>2. /\ Stream(3 * r + 1) = <<r + 1, "begins">>
      /\ Stream(3 * r + 2) = <<r + 1, "ends">>
      /\ Stream(3 * r + 3) = Newline
  BY <1>1 DEF Stream
<1>3. <<r + 1, "begins">> # Newline /\ <<r + 1, "ends">> # Newline
  BY DEF Newline
<1>. QED  BY <1>2, <1>3

LEMMA BegunTexts ==
  ASSUME NEW r
  PROVE  /\ Begun(r, 0) = <<>>
         /\ Append(Begun(r, 0), <<r, "begins">>) = Begun(r, 1)
         /\ Append(Begun(r, 1), <<r, "ends">>) = Begun(r, 2)
         /\ Begun(r, 2) = Text(r)
         /\ Begun(r, 1) # <<>> /\ Begun(r, 2) # <<>>
<1>. DEFINE C == {<<r, "begins">>, <<r, "ends">>}
<1>1. Text(r) \in Seq(C) /\ Len(Text(r)) = 2
      /\ Text(r)[1] = <<r, "begins">> /\ Text(r)[2] = <<r, "ends">>
  BY DEF Text
<1>2. Begun(r, 0) = <<>>
  BY DEF Begun
<1>3. Begun(r, 1) \in Seq(C) /\ Len(Begun(r, 1)) = 1
      /\ Begun(r, 1)[1] = <<r, "begins">>
  BY <1>1 DEF Begun
<1>4. Begun(r, 2) \in Seq(C) /\ Len(Begun(r, 2)) = 2
      /\ Begun(r, 2)[1] = <<r, "begins">> /\ Begun(r, 2)[2] = <<r, "ends">>
  BY <1>1 DEF Begun
<1>. HIDE DEF C
<1>5. Begun(r, 2) = Text(r)
  <2>1. \A i \in 1..2 : Begun(r, 2)[i] = Text(r)[i]
    BY DEF Begun
  <2>. QED  BY <1>1, <1>4, <2>1, SeqEqual
<1>6. Append(<<>>, <<r, "begins">>) = Begun(r, 1)
  <2>1. /\ Append(<<>>, <<r, "begins">>) \in Seq(C)
        /\ Len(Append(<<>>, <<r, "begins">>)) = 1
        /\ Append(<<>>, <<r, "begins">>)[1] = <<r, "begins">>
    BY DEF C
  <2>2. \A i \in 1..1 : i = 1
    OBVIOUS
  <2>. QED  BY <1>3, <2>1, <2>2, SeqEqual
<1>7. Append(Begun(r, 1), <<r, "ends">>) = Begun(r, 2)
  <2>1. /\ Append(Begun(r, 1), <<r, "ends">>) \in Seq(C)
        /\ Len(Append(Begun(r, 1), <<r, "ends">>)) = 2
        /\ Append(Begun(r, 1), <<r, "ends">>)[1] = <<r, "begins">>
        /\ Append(Begun(r, 1), <<r, "ends">>)[2] = <<r, "ends">>
    <3>1. <<r, "ends">> \in C
      BY DEF C
    <3>. QED  BY <1>3, <3>1, AppendProperties
  <2>2. \A i \in 1..2 : i = 1 \/ i = 2
    OBVIOUS
  <2>. QED  BY <1>4, <2>1, <2>2, SeqEqual
<1>. QED  BY <1>2, <1>3, <1>4, <1>5, <1>6, <1>7

(* A part of the stream that begins with a line is split into its lines.   *)
LinesFrom(l, q) == [i \in 1..q |-> Text(l + i)]

LEMMA SplitSegment ==
  ASSUME NEW l \in Nat, NEW m \in Nat
  PROVE  /\ Segment(3 * l, m) \in Seq(Chars)
         /\ Split(Segment(3 * l, m))
              = [ended |-> LinesFrom(l, m \div 3),
                 rest |-> Begun(l + (m \div 3) + 1, m % 3)]
<1>. DEFINE text == Segment(3 * l, m)
            At(k) == [ended |-> LinesFrom(l, k \div 3),
                      rest |-> Begun(l + (k \div 3) + 1, k % 3)]
<1>1. \A a \in Nat \ {0} : Stream(a) \in Chars
  <2>1. \A a \in Nat \ {0} : (a + 2) \div 3 \in Nat
    OBVIOUS
  <2>. QED  BY <2>1 DEF Stream, Chars, Newline
<1>2. text \in Seq(Chars) /\ Len(text) = m
      /\ \A k \in 1..m : text[k] = Stream(3 * l + k)
  BY <1>1 DEF Segment
<1>3. PICK h : /\ h[0] = Unsplit
               /\ \A k \in 1..m : h[k] = SplitAt(h[k - 1], text[k])
               /\ Split(text) = h[m]
  <2>. HIDE DEF text
  <2>. QED  BY <1>2, SplitSteps
<1>4. h[0] = At(0)
  <2>1. 0 \div 3 = 0 /\ 0 % 3 = 0 /\ LinesFrom(l, 0) = <<>>
    BY DEF LinesFrom
  <2>. QED  BY <1>3, <2>1, BegunTexts DEF Unsplit
<1>5. ASSUME NEW k \in 0..m, h[k] = At(k), k # m
      PROVE  h[k + 1] = At(k + 1)
  <2>. DEFINE q == k \div 3
              r == l + q + 1
  <2>1. q \in Nat /\ k + 1 \in 1..m /\ k \in Nat /\ r \in Nat
    BY <1>5
  <2>2. h[k + 1] = SplitAt(At(k), Stream(3 * l + k + 1))
    <3>1. h[k + 1] = SplitAt(h[k], text[k + 1])
      BY <1>3, <2>1
    <3>2. text[k + 1] = Stream(3 * l + k + 1)
      BY <1>2, <2>1
    <3>. QED  BY <1>5, <3>1, <3>2
  <2>3. /\ Stream(3 * (l + q) + 1) = <<r, "begins">>
        /\ Stream(3 * (l + q) + 2) = <<r, "ends">>
        /\ Stream(3 * (l + q) + 3) = Newline
        /\ <<r, "begins">> # Newline /\ <<r, "ends">> # Newline
    <3>1. l + q \in Nat
      BY <2>1
    <3>. HIDE DEF q
    <3>. QED  BY <3>1, StreamChars
  <2>4. CASE k % 3 = 0
    <3>1. k = 3 * q /\ (k + 1) \div 3 = q /\ (k + 1) % 3 = 1
      BY <2>1, <2>4
    <3>2. 3 * l + k + 1 = 3 * (l + q) + 1
      BY <2>1, <3>1
    <3>3. h[k + 1] = [At(k) EXCEPT !.rest = Append(@, <<r, "begins">>)]
      BY <2>2, <2>3, <3>2 DEF SplitAt
    <3>4. Append(Begun(r, 0), <<r, "begins">>) = Begun(r, 1)
      BY BegunTexts
    <3>. QED  BY <2>4, <3>1, <3>3, <3>4
  <2>5. CASE k % 3 = 1
    <3>1. k = 3 * q + 1 /\ (k + 1) \div 3 = q /\ (k + 1) % 3 = 2
      BY <2>1, <2>5
    <3>2. 3 * l + k + 1 = 3 * (l + q) + 2
      BY <2>1, <3>1
    <3>3. h[k + 1] = [At(k) EXCEPT !.rest = Append(@, <<r, "ends">>)]
      BY <2>2, <2>3, <3>2 DEF SplitAt
    <3>4. Append(Begun(r, 1), <<r, "ends">>) = Begun(r, 2)
      BY BegunTexts
    <3>. QED  BY <2>5, <3>1, <3>3, <3>4
  <2>6. CASE k % 3 = 2
    <3>1. k = 3 * q + 2 /\ (k + 1) \div 3 = q + 1 /\ (k + 1) % 3 = 0
      BY <2>1, <2>6
    <3>2. 3 * l + k + 1 = 3 * (l + q) + 3
      BY <2>1, <3>1
    <3>3. h[k + 1] = [ended |-> Append(LinesFrom(l, q), Text(r)), rest |-> <<>>]
      <4>1. Begun(r, 2) = Text(r) /\ Begun(r, 2) # <<>>
        BY BegunTexts
      <4>2. At(k) = [ended |-> LinesFrom(l, q), rest |-> Text(r)] /\ Text(r) # <<>>
        BY <2>6, <4>1
      <4>3. Ended(At(k)) = Append(LinesFrom(l, q), Text(r))
        <5>. HIDE DEF At
        <5>. QED  BY <4>2 DEF Ended
      <4>. QED  BY <2>2, <2>3, <3>2, <4>3 DEF SplitAt
    <3>4. Append(LinesFrom(l, q), Text(r)) = LinesFrom(l, q + 1)
      <4>. DEFINE T == {Text(l + i) : i \in 1..(q + 1)}
      <4>0. \A i \in 1..(q + 1) : Text(l + i) \in T
        OBVIOUS
      <4>. HIDE DEF T, q
      <4>1. LinesFrom(l, q) \in Seq(T) /\ Len(LinesFrom(l, q)) = q
            /\ \A i \in 1..q : LinesFrom(l, q)[i] = Text(l + i)
        BY <2>1, <4>0 DEF LinesFrom
      <4>2. LinesFrom(l, q + 1) \in Seq(T) /\ Len(LinesFrom(l, q + 1)) = q + 1
            /\ \A i \in 1..(q + 1) : LinesFrom(l, q + 1)[i] = Text(l + i)
        BY <2>1, <4>0 DEF LinesFrom
      <4>3. Text(r) \in T /\ r = l + (q + 1)
        BY <2>1, <4>0
      <4>. HIDE DEF r
      <4>4. /\ Append(LinesFrom(l, q), Text(r)) \in Seq(T)
            /\ Len(Append(LinesFrom(l, q), Text(r))) = q + 1
            /\ \A i \in 1..q :
                  Append(LinesFrom(l, q), Text(r))[i] = Text(l + i)
            /\ Append(LinesFrom(l, q), Text(r))[q + 1] = Text(r)
        BY <2>1, <4>1, <4>3, AppendProperties
      <4>5. \A i \in 1..(q + 1) : i \in 1..q \/ i = q + 1
        BY <2>1
      <4>. QED  BY <4>2, <4>3, <4>4, <4>5, SeqEqual
    <3>5. Begun(l + (q + 1) + 1, 0) = <<>>
      BY BegunTexts
    <3>. QED  BY <3>1, <3>3, <3>4, <3>5
  <2>7. k % 3 \in 0..2
    BY <2>1
  <2>. QED  BY <2>4, <2>5, <2>6, <2>7
<1>6. h[m] = At(m)
  <2>. DEFINE T == {k \in 0..m : h[k] = At(k)}
  <2>. HIDE DEF At
  <2>1. 0 \in T
    BY <1>4
  <2>2. \A k \in 0..m : k \in T /\ k # m => k + 1 \in T
    BY <1>5
  <2>3. 0..m \subseteq T
    <3>. HIDE DEF T
    <3>. QED  BY <2>1, <2>2, CountsUp
  <2>. QED  BY <2>3
<1>. QED  BY <1>2, <1>3, <1>6

-----------------------------------------------------------------------------
(* The merged headers: what they know of the answers in P, pairs of a      *)
(* record and the index of an answer.                                      *)

AllAnswers ==
    UNION {{records[s].content[i] : i \in DOMAIN records[s].content} :
               s \in DOMAIN records}
Ids == {a.id : a \in AllAnswers}
Entries ==
    [id : Ids, created : Nat, question : {a.question : a \in AllAnswers}]
Generators ==
    [unprocessed : Seq(Nat), fieldIdToQuestion : Seq(Entries),
     fieldIdToNumCols : UNION {[D -> Nat] : D \in SUBSET Ids}]

(* The index of an answer that is a question's, not a heading.             *)
IsQuestion(s, i) ==
    /\ s \in DOMAIN records
    /\ i \in DOMAIN records[s].content
    /\ ~records[s].content[i].isHeader

OneEntryPerId(questions) ==
    \A x, y \in 1..Len(questions) : questions[x].id = questions[y].id => x = y

(* Each answer has an entry as late as its record, and columns enough.     *)
Merged(g, P) ==
    \A s \in Nat, i \in Nat :
        (<<s, i>> \in P /\ IsQuestion(s, i)) =>
            LET a == records[s].content[i]
            IN  /\ \E x \in 1..Len(g.fieldIdToQuestion) :
                      /\ g.fieldIdToQuestion[x].id = a.id
                      /\ g.fieldIdToQuestion[x].created >= s
                /\ a.id \in DOMAIN g.fieldIdToNumCols
                /\ g.fieldIdToNumCols[a.id] >= a.numCols

(* Each entry is that of an answer.                                        *)
Founded(g, P) ==
    \A x \in 1..Len(g.fieldIdToQuestion) :
        LET q == g.fieldIdToQuestion[x]
        IN  /\ q.id \in DOMAIN g.fieldIdToNumCols
            /\ \E i \in Nat :
                  /\ <<q.created, i>> \in P /\ IsQuestion(q.created, i)
                  /\ records[q.created].content[i].id = q.id
                  /\ records[q.created].content[i].question = q.question

Follows(g, P) ==
    OneEntryPerId(g.fieldIdToQuestion) /\ Merged(g, P) /\ Founded(g, P)

LEMMA RecordFacts ==
  ASSUME records \in Histories, NEW r \in DOMAIN records
  PROVE  /\ DOMAIN records = 1..Len(records) /\ Len(records) \in Nat
         /\ r \in Nat \ {0}
         /\ records[r].content \in Seq(AllAnswers)
         /\ DOMAIN records[r].content = 1..Len(records[r].content)
         /\ \A i \in DOMAIN records[r].content :
               /\ records[r].content[i] \in AllAnswers
               /\ records[r].content[i].numCols \in Nat \ {0}
               /\ records[r].content[i].isHeader \in BOOLEAN
<1>1. records \in Seq(ToSet(records))
  BY DownloadAssumption
<1>2. DOMAIN records = 1..Len(records) /\ Len(records) \in Nat
  BY <1>1, LenProperties
<1>3. ToSet(records[r].content) \subseteq AllAnswers
  BY DEF ToSet, AllAnswers
<1>4. records[r].content \in Seq(ToSet(records[r].content))
  BY DownloadAssumption
<1>5. records[r].content \in Seq(AllAnswers)
  BY <1>3, <1>4, SeqMonotonic
<1>6. DOMAIN records[r].content = 1..Len(records[r].content)
  BY <1>5, LenProperties
<1>7. \A i \in DOMAIN records[r].content :
               /\ records[r].content[i] \in AllAnswers
               /\ records[r].content[i].numCols \in Nat \ {0}
               /\ records[r].content[i].isHeader \in BOOLEAN
  BY DownloadAssumption DEF AllAnswers
<1>8. r \in Nat \ {0}
  BY <1>2
<1>. QED  BY <1>2, <1>5, <1>6, <1>7, <1>8

(* What is looked up is the entry of the id, and 0 if it has none.         *)
LEMMA EntryFound ==
  ASSUME NEW questions \in Seq(Entries), NEW id
  PROVE  LET at == SelectInSeq(questions, LAMBDA q : q.id = id)
         IN  \/ /\ at = 0
                /\ \A i \in 1..Len(questions) : questions[i].id # id
             \/ /\ at \in 1..Len(questions)
                /\ questions[at].id = id
<1>. DEFINE at == SelectInSeq(questions, LAMBDA q : q.id = id)
            I == {i \in 1..Len(questions) : questions[i].id = id}
<1>1. at = IF I # {} THEN CHOOSE x \in I : \A y \in I : x <= y ELSE 0
  BY DEF SelectInSeq, Min
<1>2. CASE I = {}
  BY <1>1, <1>2
<1>3. CASE I # {}
  <2>1. \E n \in I : \A m \in I : n <= m
    <3>1. I \in SUBSET Nat
      OBVIOUS
    <3>. QED  BY <1>3, <3>1, LeastExists
  <2>2. at \in I
    <3>. HIDE DEF I, at
    <3>. QED  BY <1>1, <1>3, <2>1
  <2>. QED  BY <2>2
<1>. QED  BY <1>2, <1>3

EntryOf(a, r) == [id |-> a.id, created |-> r, question |-> a.question]

(* The questions once a has been added: an entry is kept, replaced by one  *)
(* that is no earlier, or appended.                                        *)
Grown(questions, next, a, r) ==
    /\ next \in Seq(Entries)
    /\ Len(next) >= Len(questions)
    /\ OneEntryPerId(next)
    /\ \A x \in 1..Len(questions) :
          \/ next[x] = questions[x]
          \/ /\ questions[x].id = a.id
             /\ next[x] = EntryOf(a, r)
             /\ r >= questions[x].created
    /\ \A x \in 1..Len(next) :
          x \notin 1..Len(questions) => next[x] = EntryOf(a, r)
    /\ \E x \in 1..Len(next) : next[x].id = a.id /\ next[x].created >= r

LEMMA QuestionKept ==
  ASSUME NEW questions \in Seq(Entries), NEW a \in AllAnswers, NEW r \in Nat,
         OneEntryPerId(questions)
  PROVE  Grown(questions, WithQuestion(questions, a, r), a, r)
<1>. DEFINE at == SelectInSeq(questions, LAMBDA q : q.id = a.id)
            entry == EntryOf(a, r)
            next == WithQuestion(questions, a, r)
<1>0. SUFFICES Grown(questions, next, a, r)
  OBVIOUS
<1>1. next = IF at = 0 THEN Append(questions, entry)
             ELSE IF r > questions[at].created
             THEN [questions EXCEPT ![at] = entry]
             ELSE questions
  BY DEF WithQuestion, IsLater, EntryOf
<1>2. \/ at = 0 /\ \A i \in 1..Len(questions) : questions[i].id # a.id
      \/ at \in 1..Len(questions) /\ questions[at].id = a.id
  BY EntryFound
<1>3. entry \in Entries
  BY DEF Entries, Ids, EntryOf
<1>4. /\ Len(questions) \in Nat
      /\ \A x \in 1..Len(questions) : questions[x].created \in Nat
  <2>1. \A x \in 1..Len(questions) : questions[x] \in Entries
    OBVIOUS
  <2>. QED  BY <2>1 DEF Entries
<1>7. entry.id = a.id /\ entry.created = r
  BY DEF EntryOf
<1>. HIDE DEF at, next, entry
<1>5. CASE at = 0
  <2>1. /\ next \in Seq(Entries) /\ Len(next) = Len(questions) + 1
        /\ \A x \in 1..Len(questions) : next[x] = questions[x]
        /\ next[Len(questions) + 1] = entry
    BY <1>1, <1>3, <1>5, AppendProperties
  <2>2. \A i \in 1..Len(questions) : questions[i].id # a.id
    BY <1>2, <1>4, <1>5
  <2>3. \A x \in 1..Len(next) : x \in 1..Len(questions) \/ x = Len(questions) + 1
    BY <1>4, <2>1
  <2>4. Len(questions) + 1 \in 1..Len(next)
    BY <1>4, <2>1
  <2>5. OneEntryPerId(next)
    BY <1>7, <2>1, <2>2, <2>3 DEF OneEntryPerId
  <2>6. /\ Len(next) >= Len(questions)
        /\ \A x \in 1..Len(next) : x \notin 1..Len(questions) => next[x] = entry
    BY <1>4, <2>1, <2>3
  <2>7. \E x \in 1..Len(next) : next[x].id = a.id /\ next[x].created >= r
    BY <1>7, <2>1, <2>4
  <2>. QED  BY <2>1, <2>5, <2>6, <2>7 DEF Grown, entry
<1>6. CASE at # 0
  <2>1. at \in 1..Len(questions) /\ questions[at].id = a.id
    BY <1>2, <1>6
  <2>2. CASE r > questions[at].created
    <3>1. next = [questions EXCEPT ![at] = entry]
      BY <1>1, <1>6, <2>2
    <3>2. /\ next \in Seq(Entries) /\ Len(next) = Len(questions)
          /\ \A x \in 1..Len(questions) :
                next[x] = IF x = at THEN entry ELSE questions[x]
      BY <1>3, <2>1, <3>1, ExceptSeq
    <3>4. OneEntryPerId(next)
      BY <1>7, <2>1, <3>2 DEF OneEntryPerId
    <3>5. r >= questions[at].created
      BY <1>4, <2>1, <2>2
    <3>6. \E x \in 1..Len(next) : next[x].id = a.id /\ next[x].created >= r
      BY <1>7, <2>1, <3>2
    <3>7. \A x \in 1..Len(questions) :
             \/ next[x] = questions[x]
             \/ /\ questions[x].id = a.id
                /\ next[x] = entry
                /\ r >= questions[x].created
      BY <2>1, <3>2, <3>5
    <3>. QED  BY <1>4, <3>2, <3>4, <3>6, <3>7 DEF Grown, entry
  <2>3. CASE ~(r > questions[at].created)
    <3>1. next = questions
      BY <1>1, <1>6, <2>3
    <3>2. questions[at].created >= r
      BY <1>4, <2>1, <2>3
    <3>. QED  BY <1>4, <2>1, <3>1, <3>2 DEF Grown
  <2>. QED  BY <2>2, <2>3
<1>. QED  BY <1>5, <1>6

MergedGenerators == {g \in Generators : OneEntryPerId(g.fieldIdToQuestion)}

LEMMA ColumnsWidened ==
  ASSUME NEW D \in SUBSET Ids, NEW numCols \in [D -> Nat],
         NEW a \in AllAnswers, a.numCols \in Nat
  PROVE  /\ Widened(numCols, a) \in [D \cup {a.id} -> Nat]
         /\ D \cup {a.id} \in SUBSET Ids
         /\ Widened(numCols, a)[a.id] >= a.numCols
         /\ \A id \in D : Widened(numCols, a)[id] >= numCols[id]
BY DEF Widened, Ids

LEMMA AnswerTypes ==
  ASSUME NEW g \in MergedGenerators, NEW a \in AllAnswers, NEW r \in Nat,
         a.numCols \in Nat
  PROVE  WithAnswer(g, a, r) \in MergedGenerators
<1>1. CASE a.isHeader
  BY <1>1 DEF WithAnswer
<1>2. CASE ~a.isHeader
  <2>1. PICK D \in SUBSET Ids : g.fieldIdToNumCols \in [D -> Nat]
    BY DEF MergedGenerators, Generators
  <2>2. /\ g.fieldIdToQuestion \in Seq(Entries) /\ g.unprocessed \in Seq(Nat)
        /\ OneEntryPerId(g.fieldIdToQuestion) /\ g \in Generators
    BY DEF MergedGenerators, Generators
  <2>3. Grown(g.fieldIdToQuestion, WithQuestion(g.fieldIdToQuestion, a, r), a, r)
    BY <2>2, QuestionKept
  <2>4. Widened(g.fieldIdToNumCols, a) \in [D \cup {a.id} -> Nat]
        /\ D \cup {a.id} \in SUBSET Ids
    BY <2>1, ColumnsWidened
  <2>5. Widened(g.fieldIdToNumCols, a) \in UNION {[E -> Nat] : E \in SUBSET Ids}
    BY <2>4
  <2>6. WithAnswer(g, a, r)
          = [unprocessed |-> g.unprocessed,
             fieldIdToQuestion |-> WithQuestion(g.fieldIdToQuestion, a, r),
             fieldIdToNumCols |-> Widened(g.fieldIdToNumCols, a)]
    BY <1>2, <2>2 DEF WithAnswer, Generators
  <2>7. /\ WithQuestion(g.fieldIdToQuestion, a, r) \in Seq(Entries)
        /\ OneEntryPerId(WithQuestion(g.fieldIdToQuestion, a, r))
    BY <2>3 DEF Grown
  <2>. QED  BY <2>2, <2>5, <2>6, <2>7 DEF MergedGenerators, Generators
<1>. QED  BY <1>1, <1>2

LEMMA AnswerMerged ==
  ASSUME records \in Histories, NEW r \in DOMAIN records,
         NEW k \in DOMAIN records[r].content,
         NEW g \in MergedGenerators, NEW P, Follows(g, P)
  PROVE  LET h == WithAnswer(g, records[r].content[k], r)
         IN  h.unprocessed = g.unprocessed /\ Follows(h, P \cup {<<r, k>>})
<1>. DEFINE a == records[r].content[k]
            h == WithAnswer(g, a, r)
            Q == P \cup {<<r, k>>}
<1>1. /\ a \in AllAnswers /\ a.numCols \in Nat /\ a.isHeader \in BOOLEAN
      /\ r \in Nat
  BY RecordFacts
<1>1a. k \in Nat
  <2>1. DOMAIN records[r].content = 1..Len(records[r].content)
        /\ Len(records[r].content) \in Nat
    BY RecordFacts, LenProperties
  <2>. QED  BY <2>1
<1>2. CASE a.isHeader
  <2>1. h = g
    BY <1>2 DEF WithAnswer
  <2>2. \A s \in Nat, i \in Nat : IsQuestion(s, i) => <<s, i>> # <<r, k>>
    BY <1>2 DEF IsQuestion
  <2>3. Merged(g, Q)
    BY <2>2 DEF Follows, Merged
  <2>4. Founded(g, Q)
    BY DEF Follows, Founded
  <2>. QED  BY <2>1, <2>3, <2>4 DEF Follows
<1>3. CASE ~a.isHeader
  <2>. DEFINE old == g.fieldIdToQuestion
              new == WithQuestion(old, a, r)
  <2>1. PICK D \in SUBSET Ids : g.fieldIdToNumCols \in [D -> Nat]
    BY DEF MergedGenerators, Generators
  <2>2. /\ old \in Seq(Entries) /\ OneEntryPerId(old) /\ g \in Generators
    BY DEF MergedGenerators, Generators
  <2>3. Grown(old, new, a, r)
    BY <1>1, <2>2, QuestionKept
  <2>4. /\ Widened(g.fieldIdToNumCols, a) \in [D \cup {a.id} -> Nat]
        /\ Widened(g.fieldIdToNumCols, a)[a.id] >= a.numCols
        /\ \A id \in D :
              Widened(g.fieldIdToNumCols, a)[id] >= g.fieldIdToNumCols[id]
    BY <1>1, <2>1, ColumnsWidened
  <2>5. /\ h.unprocessed = g.unprocessed
        /\ h.fieldIdToQuestion = new
        /\ h.fieldIdToNumCols = Widened(g.fieldIdToNumCols, a)
    <3>1. h = [unprocessed |-> g.unprocessed, fieldIdToQuestion |-> new,
               fieldIdToNumCols |-> Widened(g.fieldIdToNumCols, a)]
      BY <1>3, <2>2 DEF WithAnswer, Generators
    <3>. QED  BY <3>1
  <2>6. /\ Len(old) \in Nat /\ Len(new) \in Nat /\ Len(new) >= Len(old)
        /\ \A x \in 1..Len(old) : old[x].created \in Nat
        /\ \A x \in 1..Len(new) : new[x].created \in Nat
    <3>1. /\ \A x \in 1..Len(old) : old[x] \in Entries
          /\ \A x \in 1..Len(new) : new[x] \in Entries
      BY <2>2, <2>3 DEF Grown
    <3>. QED  BY <2>2, <2>3, <3>1 DEF Grown, Entries
  <2>7. IsQuestion(r, k)
    BY <1>3 DEF IsQuestion
  <2>. HIDE DEF h, new, old, a
  <2>8. Merged(h, Q)
    <3>1. SUFFICES ASSUME NEW s \in Nat, NEW i \in Nat,
                          <<s, i>> \in Q, IsQuestion(s, i)
                   PROVE  LET b == records[s].content[i]
                          IN  /\ \E x \in 1..Len(new) :
                                    new[x].id = b.id /\ new[x].created >= s
                              /\ b.id \in DOMAIN h.fieldIdToNumCols
                              /\ h.fieldIdToNumCols[b.id] >= b.numCols
      BY <2>5 DEF Merged
    <3>. DEFINE b == records[s].content[i]
    <3>2. CASE <<s, i>> = <<r, k>>
      <4>1. s = r /\ i = k /\ b = a
        BY <3>2 DEF a
      <4>2. \E x \in 1..Len(new) : new[x].id = a.id /\ new[x].created >= r
        BY <2>3 DEF Grown
      <4>3. a.id \in DOMAIN h.fieldIdToNumCols
            /\ h.fieldIdToNumCols[a.id] >= a.numCols
        BY <2>4, <2>5
      <4>. QED  BY <4>1, <4>2, <4>3
    <3>3. CASE <<s, i>> \in P
      <4>1. PICK x \in 1..Len(old) : old[x].id = b.id /\ old[x].created >= s
        BY <3>1, <3>3 DEF Follows, Merged, old
      <4>2. b.id \in D /\ g.fieldIdToNumCols[b.id] >= b.numCols
        BY <2>1, <3>1, <3>3 DEF Follows, Merged
      <4>3. b.numCols \in Nat
        BY <3>1, RecordFacts DEF IsQuestion
      <4>4. h.fieldIdToNumCols[b.id] >= b.numCols
        <5>1. h.fieldIdToNumCols[b.id] >= g.fieldIdToNumCols[b.id]
              /\ h.fieldIdToNumCols[b.id] \in Nat
              /\ g.fieldIdToNumCols[b.id] \in Nat
          BY <2>1, <2>4, <2>5, <4>2
        <5>. HIDE DEF b
        <5>. QED  BY <4>2, <4>3, <5>1
      <4>5. x \in 1..Len(new)
        BY <2>6
      <4>6. new[x].id = b.id /\ new[x].created >= s
        <5>1. CASE new[x] = old[x]
          BY <4>1, <5>1
        <5>2. CASE /\ old[x].id = a.id /\ new[x] = EntryOf(a, r)
                   /\ r >= old[x].created
          <6>1. new[x].id = a.id /\ new[x].created = r
            BY <5>2 DEF EntryOf
          <6>. HIDE DEF b
          <6>. QED  BY <1>1, <2>6, <4>1, <5>2, <6>1
        <5>. QED  BY <2>3, <5>1, <5>2 DEF Grown
      <4>7. b.id \in DOMAIN h.fieldIdToNumCols
        BY <2>4, <2>5, <4>2
      <4>. QED  BY <4>4, <4>5, <4>6, <4>7
    <3>. QED  BY <3>1, <3>2, <3>3
  <2>9. Founded(h, Q)
    <3>1. SUFFICES ASSUME NEW x \in 1..Len(new)
                   PROVE  /\ new[x].id \in DOMAIN h.fieldIdToNumCols
                          /\ \E i \in Nat :
                                /\ <<new[x].created, i>> \in Q
                                /\ IsQuestion(new[x].created, i)
                                /\ records[new[x].created].content[i].id
                                     = new[x].id
                                /\ records[new[x].created].content[i].question
                                     = new[x].question
      BY <2>5 DEF Founded
    <3>2. CASE x \in 1..Len(old) /\ new[x] = old[x]
      <4>1. old[x].id \in DOMAIN g.fieldIdToNumCols
        BY <3>2 DEF Follows, Founded, old
      <4>2. \E i \in Nat : /\ <<old[x].created, i>> \in P
                           /\ IsQuestion(old[x].created, i)
                           /\ records[old[x].created].content[i].id = old[x].id
                           /\ records[old[x].created].content[i].question
                                = old[x].question
        BY <3>2 DEF Follows, Founded, old
      <4>. QED  BY <2>1, <2>4, <2>5, <3>2, <4>1, <4>2
    <3>3. CASE new[x] = EntryOf(a, r)
      <4>1. /\ new[x].id = a.id /\ new[x].created = r
            /\ new[x].question = a.question
        BY <3>3 DEF EntryOf
      <4>. QED  BY <1>1a, <2>4, <2>5, <2>7, <4>1 DEF a
    <3>. QED  BY <2>3, <3>2, <3>3 DEF Grown
  <2>10. OneEntryPerId(new)
    BY <2>3 DEF Grown
  <2>. QED  BY <2>5, <2>8, <2>9, <2>10 DEF Follows, h, a
<1>. QED  BY <1>1, <1>2, <1>3

(* AddRecord takes one answer after the other.                             *)
Listed(g, r) == [g EXCEPT !.unprocessed = Append(@, r)]

LEMMA AddRecordSteps ==
  ASSUME records \in Histories, NEW r \in DOMAIN records,
         NEW g \in MergedGenerators
  PROVE  LET content == records[r].content
         IN  \E h : /\ h[0] = Listed(g, r) /\ h[0] \in MergedGenerators
                    /\ \A k \in 1..Len(content) :
                          /\ h[k - 1] \in MergedGenerators
                          /\ h[k] = WithAnswer(h[k - 1], content[k], r)
                    /\ h[Len(content)] \in MergedGenerators
                    /\ AddRecord(g, r) = h[Len(content)]
<1>. DEFINE content == records[r].content
            n == Len(content)
            base == Listed(g, r)
            Folds(f) == f = [s \in SUBSET DOMAIN content |->
                                IF s = {} THEN base
                                ELSE WithAnswer(f[s \ {Max(s)}],
                                                content[Max(s)], r)]
            F == [i \in 1..n |-> [h \in MergedGenerators |->
                                     WithAnswer(h, content[i], r)]]
<1>1. AddRecord(g, r) = (CHOOSE f : Folds(f))[DOMAIN content]
  BY DEF AddRecord, FoldLeft, MapThenFoldSet, Listed
<1>2. /\ n \in Nat /\ DOMAIN content = 1..n /\ r \in Nat
      /\ \A i \in 1..n : content[i] \in AllAnswers /\ content[i].numCols \in Nat
  BY RecordFacts, LenProperties
<1>3. base \in MergedGenerators
  <2>1. Append(g.unprocessed, r) \in Seq(Nat)
    BY <1>2, AppendProperties DEF MergedGenerators, Generators
  <2>. QED  BY <2>1 DEF Listed, MergedGenerators, Generators
<1>. HIDE DEF content
<1>4. F \in [1..n -> [MergedGenerators -> MergedGenerators]]
  <2>1. \A i \in 1..n :
           [h \in MergedGenerators |-> WithAnswer(h, content[i], r)]
              \in [MergedGenerators -> MergedGenerators]
    BY <1>2, AnswerTypes
  <2>. QED  BY <2>1
<1>5. PICK f \in [SUBSET (1..n) -> MergedGenerators] : IsFold(f, n, F, base)
  <2>. HIDE DEF F, base
  <2>. QED  BY <1>2, <1>3, <1>4, FoldExists
<1>6. Folds(f)
  <2>1. ASSUME NEW s \in SUBSET (1..n), s # {}
        PROVE  f[s] = WithAnswer(f[s \ {Max(s)}], content[Max(s)], r)
    <3>1. Max(s) \in 1..n
      BY <1>2, <2>1, MaxOfPositions
    <3>2. f[s \ {Max(s)}] \in MergedGenerators
      BY <1>5
    <3>3. F[Max(s)][f[s \ {Max(s)}]]
            = WithAnswer(f[s \ {Max(s)}], content[Max(s)], r)
      BY <3>1, <3>2
    <3>4. f[s] = F[Max(s)][f[s \ {Max(s)}]]
      <4>. HIDE DEF F
      <4>. QED  BY <1>5, <2>1 DEF IsFold
    <3>. QED  BY <3>3, <3>4
  <2>2. f[{}] = base
    BY <1>5 DEF IsFold
  <2>3. f = [s \in SUBSET (1..n) |-> f[s]]
    BY <1>5
  <2>4. [s \in SUBSET (1..n) |-> f[s]]
          = [s \in SUBSET (1..n) |->
                IF s = {} THEN base
                ELSE WithAnswer(f[s \ {Max(s)}], content[Max(s)], r)]
    <3>. HIDE DEF F, base
    <3>. QED  BY <2>1, <2>2
  <2>. QED  BY <1>2, <2>3, <2>4
<1>7. PICK e : Folds(e) /\ e = CHOOSE f_1 : Folds(f_1)
  <2>. HIDE DEF Folds
  <2>. QED  BY <1>6
<1>8. \A s \in SUBSET (1..n) :
         e[s] = IF s = {} THEN base
                ELSE WithAnswer(e[s \ {Max(s)}], content[Max(s)], r)
  BY <1>2, <1>7
<1>. DEFINE h == [k \in 0..n |-> e[1..k]]
<1>. HIDE DEF base
<1>9. h[0] = base
  <2>1. 1..0 = {} /\ 0 \in 0..n
    BY <1>2
  <2>. QED  BY <1>8, <2>1
<1>10. ASSUME NEW k \in 1..n
       PROVE  h[k] = WithAnswer(h[k - 1], content[k], r)
  <2>1. k \in 0..n /\ k - 1 \in 0..n /\ 1..k \in SUBSET (1..n) /\ k \in Nat \ {0}
    BY <1>2
  <2>2. /\ Max(1..k) = k /\ (1..k) \ {k} = 1..(k - 1) /\ 1..k # {}
    BY <2>1, MaxOfInterval
  <2>3. e[1..k] = WithAnswer(e[1..(k - 1)], content[k], r)
    BY <1>8, <2>1, <2>2
  <2>. QED  BY <2>1, <2>3
<1>11. AddRecord(g, r) = h[n]
  <2>1. n \in 0..n
    BY <1>2
  <2>. HIDE DEF Folds
  <2>. QED  BY <1>1, <1>2, <1>7, <2>1
<1>12. \A k \in 0..n : h[k] \in MergedGenerators
  <2>. DEFINE T == {k \in 0..n : h[k] \in MergedGenerators}
  <2>. HIDE DEF h
  <2>1. 0 \in T
    BY <1>2, <1>3, <1>9
  <2>2. \A k \in 0..n : k \in T /\ k # n => k + 1 \in T
    <3>1. SUFFICES ASSUME NEW k \in 0..n, k \in T, k # n
                   PROVE  k + 1 \in T
      OBVIOUS
    <3>2. k + 1 \in 1..n /\ (k + 1) - 1 = k /\ k + 1 \in 0..n
      <4>1. n \in Nat /\ k \in 0..n /\ k # n
        BY <1>2, <3>1
      <4>. HIDE DEF n, T
      <4>. QED  BY <4>1
    <3>3. h[k + 1] = WithAnswer(h[k], content[k + 1], r)
      BY <1>10, <3>2
    <3>4. h[k + 1] \in MergedGenerators
      <4>1. /\ content[k + 1] \in AllAnswers /\ r \in Nat
            /\ content[k + 1].numCols \in Nat
        BY <1>2, <3>2
      <4>2. h[k] \in MergedGenerators
        BY <3>1
      <4>. HIDE DEF n, T
      <4>3. WithAnswer(h[k], content[k + 1], r) \in MergedGenerators
        BY <4>1, <4>2, AnswerTypes
      <4>. QED  BY <3>3, <4>3
    <3>. QED  BY <3>2, <3>4
  <2>3. 0..n \subseteq T
    <3>. HIDE DEF T
    <3>. QED  BY <1>2, <2>1, <2>2, CountsUp
  <2>. QED  BY <2>3
<1>13. \A k \in 1..n : k - 1 \in 0..n
  BY <1>2
<1>14. n \in 0..n /\ 0 \in 0..n
  BY <1>2
<1>. QED
  <2>. HIDE DEF h
  <2>. QED  BY <1>9, <1>10, <1>11, <1>12, <1>13, <1>14 DEF base, content

(* All the answers of the records s in R.                                  *)
AnswersOf(R) == {p \in Nat \X Nat : p[1] \in R}

(* The headers follow from two parts of a generator.                       *)
LEMMA FollowsFrom ==
  ASSUME NEW g, NEW h, NEW P, Follows(g, P),
         h.fieldIdToQuestion = g.fieldIdToQuestion,
         h.fieldIdToNumCols = g.fieldIdToNumCols
  PROVE  Follows(h, P)
<1>1. OneEntryPerId(h.fieldIdToQuestion)
  BY DEF Follows
<1>2. Merged(h, P)
  BY DEF Follows, Merged
<1>3. Founded(h, P)
  BY DEF Follows, Founded
<1>. QED  BY <1>1, <1>2, <1>3 DEF Follows

LEMMA RecordMerged ==
  ASSUME records \in Histories, NEW r \in DOMAIN records,
         NEW g \in MergedGenerators, NEW R, Follows(g, AnswersOf(R))
  PROVE  /\ AddRecord(g, r) \in MergedGenerators
         /\ AddRecord(g, r).unprocessed = Append(g.unprocessed, r)
         /\ Follows(AddRecord(g, r), AnswersOf(R \cup {r}))
<1>. DEFINE content == records[r].content
            n == Len(content)
            P(k) == AnswersOf(R) \cup {<<r, i>> : i \in 1..k}
<1>1. PICK h : /\ h[0] = Listed(g, r) /\ h[0] \in MergedGenerators
               /\ \A k \in 1..n :
                     /\ h[k - 1] \in MergedGenerators
                     /\ h[k] = WithAnswer(h[k - 1], content[k], r)
               /\ h[n] \in MergedGenerators
               /\ AddRecord(g, r) = h[n]
  BY AddRecordSteps
<1>2. /\ n \in Nat /\ DOMAIN content = 1..n /\ r \in Nat
  BY RecordFacts, LenProperties
<1>. DEFINE T == {k \in 0..n : /\ h[k].unprocessed = Append(g.unprocessed, r)
                               /\ Follows(h[k], P(k))}
<1>3. 0 \in T
  <2>1. /\ h[0].unprocessed = Append(g.unprocessed, r)
        /\ h[0].fieldIdToQuestion = g.fieldIdToQuestion
        /\ h[0].fieldIdToNumCols = g.fieldIdToNumCols
    BY <1>1 DEF Listed, MergedGenerators, Generators
  <2>2. P(0) = AnswersOf(R)
    OBVIOUS
  <2>3. Follows(h[0], P(0))
    <3>. HIDE DEF P
    <3>. QED  BY <2>1, <2>2, FollowsFrom
  <2>. QED  BY <1>2, <2>1, <2>3
<1>4. \A k \in 0..n : k \in T /\ k # n => k + 1 \in T
  <2>1. SUFFICES ASSUME NEW k \in 0..n, k \in T, k # n
                 PROVE  k + 1 \in T
    OBVIOUS
  <2>2. k + 1 \in 1..n /\ (k + 1) - 1 = k /\ k + 1 \in 0..n
    BY <1>2, <2>1
  <2>3. h[k] \in MergedGenerators /\ h[k + 1] = WithAnswer(h[k], content[k + 1], r)
    BY <1>1, <2>2
  <2>4. P(k + 1) = P(k) \cup {<<r, k + 1>>}
    <3>1. \A i : i \in 1..(k + 1) <=> i \in 1..k \/ i = k + 1
      BY <2>2
    <3>. QED  BY <3>1
  <2>5. Follows(h[k], P(k)) /\ h[k].unprocessed = Append(g.unprocessed, r)
    BY <2>1
  <2>6. /\ h[k + 1].unprocessed = h[k].unprocessed
        /\ Follows(h[k + 1], P(k) \cup {<<r, k + 1>>})
    <3>1. k + 1 \in DOMAIN records[r].content
      BY <1>2, <2>2
    <3>. HIDE DEF P
    <3>2. LET next == WithAnswer(h[k], records[r].content[k + 1], r)
          IN  /\ next.unprocessed = h[k].unprocessed
              /\ Follows(next, P(k) \cup {<<r, k + 1>>})
      BY <2>3, <2>5, <3>1, AnswerMerged
    <3>. QED  BY <2>3, <3>2
  <2>. QED
    <3>. HIDE DEF P
    <3>. QED  BY <2>2, <2>4, <2>5, <2>6
<1>5. n \in T
  <2>1. 0..n \subseteq T
    <3>. HIDE DEF T
    <3>. QED  BY <1>2, <1>3, <1>4, CountsUp
  <2>2. n \in 0..n
    BY <1>2
  <2>. QED
    <3>. HIDE DEF T
    <3>. QED  BY <2>1, <2>2
<1>6. Follows(h[n], P(n)) /\ h[n].unprocessed = Append(g.unprocessed, r)
  BY <1>5
<1>7. Follows(h[n], AnswersOf(R \cup {r}))
  <2>1. \A s \in Nat, i \in Nat :
           <<s, i>> \in AnswersOf(R \cup {r}) /\ IsQuestion(s, i)
              => <<s, i>> \in P(n)
    BY <1>2 DEF IsQuestion, AnswersOf
  <2>2. P(n) \subseteq AnswersOf(R \cup {r})
    BY <1>2 DEF AnswersOf
  <2>. HIDE DEF P
  <2>3. Merged(h[n], AnswersOf(R \cup {r}))
    BY <1>6, <2>1 DEF Follows, Merged
  <2>4. Founded(h[n], AnswersOf(R \cup {r}))
    BY <1>6, <2>2 DEF Follows, Founded
  <2>. QED  BY <1>6, <2>3, <2>4 DEF Follows
<1>. QED  BY <1>1, <1>6, <1>7

-----------------------------------------------------------------------------
(* The columns: sequences one after the other *)

LEMMA FlattenSteps ==
  ASSUME NEW S, NEW seqs \in Seq(Seq(S)), seqs # <<>>
  PROVE  \E h : /\ h[1] = seqs[1]
                /\ \A k \in 1..Len(seqs) : h[k] \in Seq(S)
                /\ \A k \in 1..Len(seqs) : k # 1 => h[k] = h[k - 1] \o seqs[k]
                /\ FlattenSeq(seqs) = h[Len(seqs)]
<1>. DEFINE n == Len(seqs)
            F == [i \in 1..n |-> [s \in Seq(S) |-> s \o seqs[i]]]
            Flattens(f) == f = [i \in 1..n |-> IF i = 1 THEN seqs[i]
                                               ELSE f[i - 1] \o seqs[i]]
<1>1. /\ n \in Nat \ {0} /\ <<>> \in Seq(S)
      /\ \A i \in 1..n : seqs[i] \in Seq(S)
  BY EmptySeq, ElementOfSeq
<1>2. FlattenSeq(seqs) = (CHOOSE f : Flattens(f))[n]
  BY <1>1 DEF FlattenSeq
<1>3. F \in [1..n -> [Seq(S) -> Seq(S)]]
  <2>1. \A i \in 1..n : [s \in Seq(S) |-> s \o seqs[i]] \in [Seq(S) -> Seq(S)]
    BY <1>1, ConcatProperties
  <2>. QED  BY <2>1
<1>4. PICK f \in [SUBSET (1..n) -> Seq(S)] : IsFold(f, n, F, <<>>)
  <2>. HIDE DEF F
  <2>. QED  BY <1>1, <1>3, FoldExists
<1>. DEFINE h == [k \in 1..n |-> f[1..k]]
<1>5. ASSUME NEW k \in 1..n
      PROVE  f[1..k] = f[1..(k - 1)] \o seqs[k]
  <2>1. k \in Nat \ {0} /\ 1..k \in SUBSET (1..n) /\ 1..(k - 1) \in SUBSET (1..n)
    BY <1>1
  <2>2. Max(1..k) = k /\ (1..k) \ {k} = 1..(k - 1) /\ 1..k # {}
    BY <2>1, MaxOfInterval
  <2>3. f[1..k] = F[k][f[1..(k - 1)]]
    <3>. HIDE DEF F
    <3>. QED  BY <1>4, <2>1, <2>2 DEF IsFold
  <2>4. f[1..(k - 1)] \in Seq(S)
    BY <2>1
  <2>. QED  BY <2>3, <2>4
<1>6. f[1..1] = seqs[1]
  <2>1. 1..(1 - 1) = {} /\ 1 \in 1..n
    BY <1>1
  <2>2. f[{}] = <<>>
    BY <1>4 DEF IsFold
  <2>3. <<>> \o seqs[1] = seqs[1]
    BY <1>1, <2>1, ConcatEmptySeq
  <2>. QED  BY <1>5, <2>1, <2>2, <2>3
<1>7. Flattens(h)
  <2>1. \A i \in 1..n : h[i] = IF i = 1 THEN seqs[i] ELSE h[i - 1] \o seqs[i]
    <3>1. SUFFICES ASSUME NEW i \in 1..n, i # 1
                   PROVE  h[i] = h[i - 1] \o seqs[i]
      BY <1>6
    <3>2. i - 1 \in 1..n
      BY <3>1
    <3>. QED  BY <1>5, <3>1, <3>2
  <2>2. h = [i \in 1..n |-> h[i]]
    OBVIOUS
  <2>. QED
    <3>. HIDE DEF h
    <3>. QED  BY <2>1, <2>2
<1>8. PICK e : Flattens(e) /\ e = CHOOSE e_1 : Flattens(e_1)
  <2>. HIDE DEF Flattens, h
  <2>. QED  BY <1>7
<1>9. \A i \in 1..n : e[i] = IF i = 1 THEN seqs[i] ELSE e[i - 1] \o seqs[i]
  BY <1>8
<1>10. \A k \in 1..n : e[k] \in Seq(S)
  <2>. DEFINE T == {k \in 0..n : k # 0 => e[k] \in Seq(S)}
  <2>1. 0 \in T
    BY <1>1
  <2>2. \A k \in 0..n : k \in T /\ k # n => k + 1 \in T
    <3>1. SUFFICES ASSUME NEW k \in 0..n, k \in T, k # n
                   PROVE  k + 1 \in 0..n /\ e[k + 1] \in Seq(S)
      OBVIOUS
    <3>2. k + 1 \in 1..n /\ (k + 1) - 1 = k /\ k + 1 \in 0..n
      <4>. HIDE DEF T, n
      <4>. QED  BY <1>1, <3>1
    <3>3. CASE k = 0
      BY <1>1, <1>9, <3>2, <3>3
    <3>4. CASE k # 0
      <4>1. e[k] \in Seq(S) /\ k + 1 # 1 /\ seqs[k + 1] \in Seq(S)
        BY <1>1, <3>1, <3>2, <3>4
      <4>2. e[k + 1] = e[k] \o seqs[k + 1]
        BY <1>9, <3>2, <4>1
      <4>. QED  BY <3>2, <4>1, <4>2, ConcatProperties
    <3>. QED  BY <3>3, <3>4
  <2>3. 0..n \subseteq T
    <3>. HIDE DEF T
    <3>. QED  BY <1>1, <2>1, <2>2, CountsUp
  <2>4. \A k \in 1..n : k \in 0..n /\ k # 0
    <3>. HIDE DEF n
    <3>. QED  BY <1>1
  <2>. QED  BY <2>3, <2>4
<1>11. FlattenSeq(seqs) = e[n]
  <2>. HIDE DEF Flattens
  <2>. QED  BY <1>2, <1>8
<1>12. e[1] = seqs[1] /\ \A k \in 1..n : k # 1 => e[k] = e[k - 1] \o seqs[k]
  <2>1. 1 \in 1..n
    BY <1>1
  <2>. HIDE DEF n
  <2>. QED  BY <1>9, <2>1
<1>. HIDE DEF Flattens, F, h
<1>. QED  BY <1>10, <1>11, <1>12

(* With all elements distinct, each has one place in the whole.            *)
Elements(seqs, k) == UNION {{seqs[i][c] : c \in 1..Len(seqs[i])} : i \in 1..k}

LEMMA FlattenDistinct ==
  ASSUME NEW S, NEW seqs \in Seq(Seq(S)),
         \A i, j \in 1..Len(seqs) :
            \A c \in 1..Len(seqs[i]), d \in 1..Len(seqs[j]) :
               seqs[i][c] = seqs[j][d] => i = j /\ c = d
  PROVE  LET flat == FlattenSeq(seqs)
         IN  /\ DOMAIN flat = 1..Len(flat) /\ Len(flat) \in Nat
             /\ \A i, j \in DOMAIN flat : flat[i] = flat[j] => i = j
             /\ {flat[j] : j \in DOMAIN flat} = Elements(seqs, Len(seqs))
<1>. DEFINE n == Len(seqs)
            Flat(flat, k) ==
                /\ flat \in Seq(S)
                /\ \A i, j \in 1..Len(flat) : flat[i] = flat[j] => i = j
                /\ {flat[j] : j \in 1..Len(flat)} = Elements(seqs, k)
<1>0. n \in Nat /\ \A i \in 1..n : seqs[i] \in Seq(S) /\ Len(seqs[i]) \in Nat
  BY ElementOfSeq, LenProperties
<1>1. SUFFICES Flat(FlattenSeq(seqs), n)
  <2>1. FlattenSeq(seqs) \in Seq(S)
          => /\ DOMAIN FlattenSeq(seqs) = 1..Len(FlattenSeq(seqs))
             /\ Len(FlattenSeq(seqs)) \in Nat
    BY LenProperties
  <2>. QED  BY <2>1
<1>2. CASE seqs = <<>>
  <2>1. Len(seqs) = 0 /\ FlattenSeq(seqs) = <<>>
    BY <1>2 DEF FlattenSeq
  <2>2. <<>> \in Seq(S) /\ Len(<<>>) = 0
    BY EmptySeq
  <2>3. {<<>>[j] : j \in 1..Len(<<>>)} = {} /\ Elements(seqs, 0) = {}
    BY <2>2 DEF Elements
  <2>. QED  BY <2>1, <2>2, <2>3
<1>3. CASE seqs # <<>>
  <2>1. PICK h : /\ h[1] = seqs[1]
                 /\ \A k \in 1..n : h[k] \in Seq(S)
                 /\ \A k \in 1..n : k # 1 => h[k] = h[k - 1] \o seqs[k]
                 /\ FlattenSeq(seqs) = h[n]
    BY <1>3, FlattenSteps
  <2>2. n \in Nat \ {0}
    BY <1>3, EmptySeq
  <2>. DEFINE T == {k \in 0..n : k # 0 => Flat(h[k], k)}
  <2>3. 0 \in T
    BY <2>2
  <2>4. ASSUME NEW k \in 0..n, k \in T, k # n
        PROVE  k + 1 \in T
    <3>1. /\ k + 1 \in 1..n /\ (k + 1) - 1 = k /\ k + 1 \in 0..n
          /\ k \in Nat /\ \A p \in 1..k : p \in 1..n /\ p # k + 1
      <4>. HIDE DEF T, n
      <4>. QED  BY <2>2, <2>4
    <3>. DEFINE last == seqs[k + 1]
                Added == {last[c] : c \in 1..Len(last)}
    <3>2. last \in Seq(S) /\ Len(last) \in Nat
      BY <1>0, <3>1
    <3>3. Elements(seqs, k + 1) = Elements(seqs, k) \cup Added
      <4>1. \A i : i \in 1..(k + 1) <=> i \in 1..k \/ i = k + 1
        BY <3>1
      <4>. DEFINE Of(i) == {seqs[i][c] : c \in 1..Len(seqs[i])}
      <4>2. /\ Elements(seqs, k + 1) = UNION {Of(i) : i \in 1..(k + 1)}
            /\ Elements(seqs, k) = UNION {Of(i) : i \in 1..k}
            /\ Added = Of(k + 1)
        BY DEF Elements
      <4>. HIDE DEF Of, Added
      <4>. QED  BY <4>1, <4>2
    <3>4. \A c, d \in 1..Len(last) : last[c] = last[d] => c = d
      BY <3>1
    <3>5. CASE k = 0
      <4>1. h[k + 1] = last
        BY <2>1, <3>5
      <4>2. Elements(seqs, k) = {}
        BY <3>5 DEF Elements
      <4>3. Flat(h[k + 1], k + 1)
        <5>. HIDE DEF last
        <5>. QED  BY <3>2, <3>3, <3>4, <4>1, <4>2
      <4>. QED
        <5>. HIDE DEF Flat
        <5>. QED  BY <3>1, <4>3
    <3>6. CASE k # 0
      <4>1. Flat(h[k], k)
        BY <2>4, <3>6
      <4>2. h[k + 1] = h[k] \o last
        <5>1. k + 1 # 1
          BY <3>1, <3>6
        <5>. HIDE DEF n
        <5>. QED  BY <2>1, <3>1, <5>1
      <4>. DEFINE m == Len(h[k])
                  whole == h[k + 1]
      <4>3. m \in Nat
        BY <4>1, LenProperties
      <4>4. /\ whole \in Seq(S) /\ Len(whole) = m + Len(last)
            /\ \A i \in 1..(m + Len(last)) :
                  whole[i] = IF i <= m THEN h[k][i] ELSE last[i - m]
        <5>1. h[k] \in Seq(S)
          BY <4>1
        <5>2. Len(h[k] \o last) = m + Len(last)
          <6>. HIDE DEF last
          <6>. QED  BY <3>2, <5>1, ConcatProperties
        <5>3. \A i \in 1..(m + Len(last)) :
                 (h[k] \o last)[i] = IF i <= m THEN h[k][i] ELSE last[i - m]
          <6>. HIDE DEF last
          <6>. QED  BY <3>2, <5>1, ConcatProperties
        <5>4. h[k] \o last \in Seq(S)
          <6>. HIDE DEF last
          <6>. QED  BY <3>2, <5>1, ConcatProperties
        <5>. HIDE DEF last, m
        <5>. QED  BY <4>2, <5>2, <5>3, <5>4
      <4>5. \A i \in 1..m, c \in 1..Len(last) : h[k][i] # last[c]
        <5>1. SUFFICES ASSUME NEW i \in 1..m, NEW c \in 1..Len(last),
                              h[k][i] = last[c]
                       PROVE  FALSE
          OBVIOUS
        <5>2. h[k][i] \in Elements(seqs, k)
          BY <4>1
        <5>3. PICK p \in 1..k : \E d \in 1..Len(seqs[p]) : h[k][i] = seqs[p][d]
          BY <5>2 DEF Elements
        <5>4. p \in 1..n /\ p # k + 1
          BY <3>1
        <5>. QED  BY <3>1, <5>1, <5>3, <5>4
      <4>. HIDE DEF last, m, whole
      <4>6. \A p \in 1..Len(whole) :
               /\ p <= m => p \in 1..m /\ whole[p] = h[k][p]
               /\ p > m => p - m \in 1..Len(last) /\ whole[p] = last[p - m]
        <5>1. SUFFICES ASSUME NEW p \in 1..Len(whole)
                       PROVE  /\ p <= m => p \in 1..m /\ whole[p] = h[k][p]
                              /\ p > m => /\ p - m \in 1..Len(last)
                                         /\ whole[p] = last[p - m]
          OBVIOUS
        <5>2. p \in 1..(m + Len(last)) /\ p \in Nat /\ p > 0
          BY <3>2, <4>3, <4>4
        <5>3. whole[p] = IF p <= m THEN h[k][p] ELSE last[p - m]
          BY <4>4, <5>2
        <5>4. p <= m => p \in 1..m
          BY <4>3, <5>2
        <5>5. p > m => p - m \in 1..Len(last) /\ ~(p <= m)
          BY <3>2, <4>3, <5>2
        <5>. QED  BY <5>3, <5>4, <5>5
      <4>7. ASSUME NEW i \in 1..Len(whole), NEW j \in 1..Len(whole),
                   whole[i] = whole[j]
            PROVE  i = j
        <5>1. /\ i <= m => i \in 1..m /\ whole[i] = h[k][i]
              /\ i > m => i - m \in 1..Len(last) /\ whole[i] = last[i - m]
              /\ j <= m => j \in 1..m /\ whole[j] = h[k][j]
              /\ j > m => j - m \in 1..Len(last) /\ whole[j] = last[j - m]
          BY <4>6
        <5>2. \A p, q \in 1..m : h[k][p] = h[k][q] => p = q
          BY <4>1 DEF m
        <5>3. i - m = j - m => i = j
          BY <4>3
        <5>4. i <= m \/ i > m
          BY <4>3
        <5>5. j <= m \/ j > m
          BY <4>3
        <5>. QED  BY <3>4, <4>5, <4>7, <5>1, <5>2, <5>3, <5>4, <5>5
      <4>8. {whole[j] : j \in 1..Len(whole)} = Elements(seqs, k + 1)
        <5>1. {h[k][j] : j \in 1..m} = Elements(seqs, k)
          BY <4>1 DEF m
        <5>2. ASSUME NEW j \in 1..m
              PROVE  j \in 1..Len(whole) /\ whole[j] = h[k][j]
          <6>1. j \in 1..Len(whole) /\ j <= m
            BY <3>2, <4>3, <4>4
          <6>. QED  BY <4>6, <6>1
        <5>3. ASSUME NEW c \in 1..Len(last)
              PROVE  m + c \in 1..Len(whole) /\ whole[m + c] = last[c]
          <6>1. m + c \in 1..Len(whole) /\ m + c > m /\ (m + c) - m = c
            BY <3>2, <4>3, <4>4
          <6>. QED  BY <4>6, <6>1
        <5>4. \A j \in 1..Len(whole) :
                 \/ j \in 1..m
                 \/ \E c \in 1..Len(last) : whole[j] = last[c]
          <6>1. \A j \in 1..Len(whole) : j <= m \/ j > m
            BY <4>3, <4>4
          <6>. QED  BY <4>6, <6>1
        <5>5. Elements(seqs, k + 1) = {h[k][j] : j \in 1..m} \cup Added
          BY <3>3, <5>1
        <5>6. \A e : e \in {whole[j] : j \in 1..Len(whole)}
                       <=> e \in {h[k][j] : j \in 1..m} \cup Added
          <6>1. ASSUME NEW e \in {whole[j] : j \in 1..Len(whole)}
                PROVE  e \in {h[k][j] : j \in 1..m} \cup Added
            <7>1. PICK j \in 1..Len(whole) : e = whole[j]
              BY <6>1
            <7>. QED  BY <5>2, <5>4, <7>1
          <6>2. ASSUME NEW e \in {h[k][j] : j \in 1..m}
                PROVE  e \in {whole[j] : j \in 1..Len(whole)}
            <7>1. PICK j \in 1..m : e = h[k][j]
              BY <6>2
            <7>2. j \in 1..Len(whole) /\ e = whole[j]
              BY <5>2, <7>1
            <7>. QED  BY <7>2
          <6>3. ASSUME NEW e \in Added
                PROVE  e \in {whole[j] : j \in 1..Len(whole)}
            BY <5>3, <6>3
          <6>. QED  BY <6>1, <6>2, <6>3
        <5>. QED  BY <5>5, <5>6
      <4>9. Flat(whole, k + 1)
        BY <4>4, <4>7, <4>8
      <4>. QED
        <5>. HIDE DEF Flat
        <5>. QED  BY <3>1, <4>9 DEF whole
    <3>. QED  BY <3>5, <3>6
  <2>5. 0..n \subseteq T
    <3>. HIDE DEF T
    <3>. QED  BY <2>2, <2>3, <2>4, CountsUp
  <2>6. Flat(h[n], n)
    <3>1. n \in T /\ n # 0
      BY <2>2, <2>5
    <3>. HIDE DEF Flat
    <3>. QED  BY <3>1
  <2>. QED
    <3>. HIDE DEF Flat
    <3>. QED  BY <2>1, <2>6
<1>. QED  BY <1>2, <1>3

-----------------------------------------------------------------------------
(* The table.  The entry of an answer's id has the question of the latest  *)
(* record with that id, and each of its columns stands in one place.       *)

Having(id, R) == {s \in R : \E a \in Answers(s) : a.id = id /\ ~a.isHeader}

LEMMA AnswerIndex ==
  ASSUME records \in Histories, NEW s \in DOMAIN records, NEW a \in Answers(s)
  PROVE  \E i \in Nat : /\ i \in DOMAIN records[s].content
                        /\ a = records[s].content[i]
                        /\ a.isHeader \/ IsQuestion(s, i)
<1>1. PICK i \in DOMAIN records[s].content : a = records[s].content[i]
  BY DEF Answers, Range
<1>2. /\ DOMAIN records[s].content = 1..Len(records[s].content)
      /\ Len(records[s].content) \in Nat
  BY RecordFacts, LenProperties
<1>3. i \in Nat
  BY <1>2
<1>. QED  BY <1>1, <1>3 DEF IsQuestion

LEMMA EntryIsLatest ==
  ASSUME records \in Histories, NEW R \in SUBSET DOMAIN records,
         NEW g \in MergedGenerators, Follows(g, AnswersOf(R)),
         NEW r \in R, NEW a \in Answers(r), ~a.isHeader
  PROVE  \E x \in 1..Len(g.fieldIdToQuestion) :
            LET q == g.fieldIdToQuestion[x]
            IN  /\ q.id = a.id
                /\ a.id \in DOMAIN g.fieldIdToNumCols
                /\ g.fieldIdToNumCols[a.id] >= a.numCols
                /\ q.question = (CHOOSE b \in Answers(Max(Having(a.id, R))) :
                                    b.id = a.id).question
<1>. DEFINE qs == g.fieldIdToQuestion
            H == Having(a.id, R)
<1>1. \A s \in R : s \in Nat /\ s \in DOMAIN records
  BY RecordFacts
<1>2. ASSUME NEW s \in R, NEW b \in Answers(s), b.id = a.id, ~b.isHeader
      PROVE  /\ \E x \in 1..Len(qs) : qs[x].id = a.id /\ qs[x].created >= s
             /\ a.id \in DOMAIN g.fieldIdToNumCols
             /\ g.fieldIdToNumCols[a.id] >= b.numCols
  <2>1. PICK i \in Nat : /\ b = records[s].content[i]
                         /\ IsQuestion(s, i)
    BY <1>1, <1>2, AnswerIndex
  <2>2. <<s, i>> \in AnswersOf(R) /\ s \in Nat
    BY <1>1 DEF AnswersOf
  <2>. QED  BY <1>2, <2>1, <2>2 DEF Follows, Merged
<1>3. PICK x \in 1..Len(qs) : qs[x].id = a.id /\ qs[x].created >= r
  BY <1>2
<1>. DEFINE q == qs[x]
<1>4. q \in Entries
  <2>1. qs \in Seq(Entries)
    BY DEF MergedGenerators, Generators
  <2>. QED  BY <2>1, ElementOfSeq
<1>5. PICK i \in Nat : /\ <<q.created, i>> \in AnswersOf(R)
                       /\ IsQuestion(q.created, i)
                       /\ records[q.created].content[i].id = q.id
                       /\ records[q.created].content[i].question = q.question
  BY DEF Follows, Founded
<1>. DEFINE b == records[q.created].content[i]
<1>6. q.created \in R /\ b \in Answers(q.created) /\ ~b.isHeader
  BY <1>5 DEF AnswersOf, Answers, Range, IsQuestion
<1>7. q.created \in H
  <2>1. b.id = a.id
    BY <1>3, <1>5
  <2>. HIDE DEF b, q
  <2>. QED  BY <1>6, <2>1 DEF Having
<1>8. ASSUME NEW s \in H
      PROVE  q.created >= s
  <2>1. s \in R /\ \E c \in Answers(s) : c.id = a.id /\ ~c.isHeader
    BY DEF Having
  <2>2. PICK y \in 1..Len(qs) : qs[y].id = a.id /\ qs[y].created >= s
    BY <1>2, <2>1
  <2>3. y = x
    BY <1>3, <2>2 DEF Follows, OneEntryPerId
  <2>. QED  BY <2>2, <2>3
<1>9. Max(H) = q.created
  <2>1. q.created \in Nat /\ H \subseteq Nat
    BY <1>1, <1>6 DEF Having
  <2>2. \A m \in H : (\A s \in H : m >= s) => m = q.created
    <3>. HIDE DEF H, q
    <3>. QED  BY <1>7, <1>8, <2>1
  <2>3. PICK m \in H : /\ m = Max(H)
                       /\ \A s \in H : m >= s
    <3>. HIDE DEF H, q
    <3>. QED  BY <1>7, <1>8 DEF Max
  <2>. QED  BY <2>2, <2>3
<1>10. \A c \in Answers(q.created) : c.id = a.id => c = b
  <2>1. SUFFICES ASSUME NEW c \in Answers(q.created), c.id = a.id
                 PROVE  c = b
    OBVIOUS
  <2>2. PICK j \in DOMAIN records[q.created].content :
           c = records[q.created].content[j]
    BY DEF Answers, Range
  <2>3. i \in DOMAIN records[q.created].content /\ q.created \in DOMAIN records
    BY <1>5 DEF IsQuestion
  <2>4. i = j
    <3>1. records[q.created].content[i].id = records[q.created].content[j].id
      BY <1>3, <1>5, <2>1, <2>2
    <3>. HIDE DEF q, b
    <3>. QED  BY <2>3, <3>1, DownloadAssumption
  <2>. QED  BY <2>2, <2>4
<1>11. (CHOOSE c \in Answers(q.created) : c.id = a.id) = b
  <2>1. b.id = a.id
    BY <1>3, <1>5
  <2>. HIDE DEF b, q
  <2>. QED  BY <1>6, <1>10, <2>1
<1>12. /\ a.id \in DOMAIN g.fieldIdToNumCols
       /\ g.fieldIdToNumCols[a.id] >= a.numCols
  BY <1>2
<1>13. q.question = (CHOOSE c \in Answers(Max(H)) : c.id = a.id).question
  <2>1. b.question = q.question
    BY <1>5
  <2>. HIDE DEF b, q, H
  <2>. QED  BY <1>9, <1>11, <2>1
<1>. QED  BY <1>3, <1>12, <1>13

ColumnOf(q, c) == [id |-> q.id, question |-> q.question, col |-> c]

LEMMA ColumnPlaces ==
  ASSUME generator \in MergedGenerators,
         \A x \in 1..Len(generator.fieldIdToQuestion) :
            generator.fieldIdToQuestion[x].id
                \in DOMAIN generator.fieldIdToNumCols
  PROVE  LET qs == generator.fieldIdToQuestion
             numCols == generator.fieldIdToNumCols
         IN  /\ \A i, j \in DOMAIN Columns : Columns[i] = Columns[j] => i = j
             /\ \A j \in DOMAIN Columns :
                   \E x \in 1..Len(qs) :
                      \E c \in 1..numCols[qs[x].id] :
                         Columns[j] = ColumnOf(qs[x], c)
             /\ \A x \in 1..Len(qs) : \A c \in 1..numCols[qs[x].id] :
                   \E j \in DOMAIN Columns : Columns[j] = ColumnOf(qs[x], c)
<1>. DEFINE qs == generator.fieldIdToQuestion
            numCols == generator.fieldIdToNumCols
            n == Len(qs)
            S == {ColumnOf(q, c) : q \in Entries, c \in Nat}
            seqs == [i \in 1..n |->
                        [c \in 1..numCols[qs[i].id] |-> ColumnOf(qs[i], c)]]
<1>1. qs \in Seq(Entries) /\ OneEntryPerId(qs)
  BY DEF MergedGenerators, Generators
<1>2. n \in Nat /\ DOMAIN qs = 1..n /\ \A i \in 1..n : qs[i] \in Entries
  BY <1>1, ElementOfSeq, LenProperties
<1>3. \A i \in 1..n : numCols[qs[i].id] \in Nat
  <2>1. PICK D \in SUBSET Ids : numCols \in [D -> Nat]
    BY DEF MergedGenerators, Generators
  <2>. QED  BY <2>1
<1>4. Columns = FlattenSeq(seqs)
  <2>1. Columns = FlattenSeq([i \in DOMAIN qs |->
                      [c \in 1..numCols[qs[i].id] |-> ColumnOf(qs[i], c)]])
    BY DEF Columns, ColumnOf
  <2>. HIDE DEF n
  <2>. QED  BY <1>2, <2>1
<1>5. \A i \in 1..n :
         /\ seqs[i] \in Seq(S)
         /\ Len(seqs[i]) = numCols[qs[i].id]
         /\ \A c \in 1..Len(seqs[i]) : seqs[i][c] = ColumnOf(qs[i], c)
  <2>1. SUFFICES ASSUME NEW i \in 1..n
                 PROVE  /\ seqs[i] \in Seq(S)
                        /\ Len(seqs[i]) = numCols[qs[i].id]
                        /\ \A c \in 1..Len(seqs[i]) :
                              seqs[i][c] = ColumnOf(qs[i], c)
    <3>. HIDE DEF seqs, n, qs, numCols, S
    <3>. QED  OBVIOUS
  <2>. DEFINE m == numCols[qs[i].id]
              col == [c \in 1..m |-> ColumnOf(qs[i], c)]
  <2>2. seqs[i] = col /\ m \in Nat
    BY <1>3, <2>1
  <2>3. \A c \in 1..m : ColumnOf(qs[i], c) \in S
    BY <1>2, <2>1
  <2>4. col \in Seq(S) /\ Len(col) = m
    <3>. HIDE DEF m, S
    <3>. QED  BY <2>2, <2>3
  <2>5. \A c \in 1..m : col[c] = ColumnOf(qs[i], c)
    <3>. HIDE DEF m, qs
    <3>. QED  OBVIOUS
  <2>. HIDE DEF col, m, seqs
  <2>6. Len(seqs[i]) = m
    BY <2>2, <2>4
  <2>. QED  BY <2>2, <2>4, <2>5, <2>6 DEF m
<1>6. seqs \in Seq(Seq(S)) /\ Len(seqs) = n
  <2>1. \A i \in 1..n :
           [c \in 1..numCols[qs[i].id] |-> ColumnOf(qs[i], c)] \in Seq(S)
    <3>1. \A i \in 1..n :
             seqs[i] = [c \in 1..numCols[qs[i].id] |-> ColumnOf(qs[i], c)]
      <4>. HIDE DEF n, qs, numCols
      <4>. QED  OBVIOUS
    <3>. HIDE DEF n, seqs, S, qs, numCols
    <3>. QED  BY <1>5, <3>1
  <2>. HIDE DEF n, S, qs, numCols
  <2>. QED  BY <1>2, <2>1
<1>7. \A i, j \in 1..Len(seqs) :
         \A c \in 1..Len(seqs[i]), d \in 1..Len(seqs[j]) :
            seqs[i][c] = seqs[j][d] => i = j /\ c = d
  <2>1. SUFFICES ASSUME NEW i \in 1..n, NEW j \in 1..n,
                        NEW c \in 1..Len(seqs[i]), NEW d \in 1..Len(seqs[j]),
                        seqs[i][c] = seqs[j][d]
                 PROVE  i = j /\ c = d
    <3>. HIDE DEF seqs, n
    <3>. QED  BY <1>6
  <2>2. ColumnOf(qs[i], c) = ColumnOf(qs[j], d)
    <3>1. seqs[i][c] = ColumnOf(qs[i], c) /\ seqs[j][d] = ColumnOf(qs[j], d)
      <4>. HIDE DEF seqs, qs, S, n, numCols
      <4>. QED  BY <1>5, <2>1
    <3>. HIDE DEF seqs, qs
    <3>. QED  BY <2>1, <3>1
  <2>3. qs[i].id = qs[j].id /\ c = d
    <3>1. ColumnOf(qs[i], c).id = qs[i].id /\ ColumnOf(qs[i], c).col = c
      BY DEF ColumnOf
    <3>2. ColumnOf(qs[j], d).id = qs[j].id /\ ColumnOf(qs[j], d).col = d
      BY DEF ColumnOf
    <3>. QED  BY <2>2, <3>1, <3>2
  <2>. QED  BY <1>1, <2>3 DEF OneEntryPerId
<1>8. /\ \A i, j \in DOMAIN Columns : Columns[i] = Columns[j] => i = j
      /\ {Columns[j] : j \in DOMAIN Columns} = Elements(seqs, n)
  <2>. HIDE DEF seqs, S, n, qs
  <2>. QED  BY <1>4, <1>6, <1>7, FlattenDistinct
<1>9. ASSUME NEW e
      PROVE  e \in Elements(seqs, n)
               <=> \E x \in 1..n : \E c \in 1..numCols[qs[x].id] :
                      e = ColumnOf(qs[x], c)
  <2>1. e \in Elements(seqs, n)
          <=> \E x \in 1..n : \E c \in 1..Len(seqs[x]) : e = seqs[x][c]
    <3>. HIDE DEF seqs, n
    <3>. QED  BY DEF Elements
  <2>2. \A x \in 1..n : /\ Len(seqs[x]) = numCols[qs[x].id]
                        /\ \A c \in 1..Len(seqs[x]) :
                              seqs[x][c] = ColumnOf(qs[x], c)
    <3>. HIDE DEF seqs, n, qs, numCols, S
    <3>. QED  BY <1>5
  <2>. HIDE DEF seqs, n, qs, numCols
  <2>. QED  BY <2>1, <2>2
<1>10. \A j \in DOMAIN Columns :
          \E x \in 1..n : \E c \in 1..numCols[qs[x].id] :
             Columns[j] = ColumnOf(qs[x], c)
  <2>. HIDE DEF seqs, n, qs, numCols
  <2>. QED  BY <1>8, <1>9
<1>11. \A x \in 1..n : \A c \in 1..numCols[qs[x].id] :
          \E j \in DOMAIN Columns : Columns[j] = ColumnOf(qs[x], c)
  <2>1. SUFFICES ASSUME NEW x \in 1..n, NEW c \in 1..numCols[qs[x].id]
                 PROVE  \E j \in DOMAIN Columns : Columns[j] = ColumnOf(qs[x], c)
    OBVIOUS
  <2>2. ColumnOf(qs[x], c) \in Elements(seqs, n)
    <3>. HIDE DEF seqs, n, qs, numCols
    <3>. QED  BY <1>9, <2>1
  <2>. HIDE DEF seqs, n, qs, numCols
  <2>. QED  BY <1>8, <2>2
<1>. QED  BY <1>8, <1>10, <1>11

LEMMA TableAligned ==
  ASSUME records \in Histories, generator \in MergedGenerators,
         Range(generator.unprocessed) \subseteq DOMAIN records,
         Follows(generator, AnswersOf(Range(generator.unprocessed)))
  PROVE  CsvAligned
<1>. DEFINE qs == generator.fieldIdToQuestion
            numCols == generator.fieldIdToNumCols
            R == Range(generator.unprocessed)
            question(id) == (CHOOSE a \in Answers(Max(Having(id, R))) :
                                a.id = id).question
<1>1. SUFFICES
         ASSUME NEW i \in DOMAIN generator.unprocessed,
                NEW a \in Answers(generator.unprocessed[i]), ~a.isHeader,
                NEW c \in 1..a.numCols
         PROVE  LET at == {j \in DOMAIN Header :
                              Rows[i][j] = [record |-> generator.unprocessed[i],
                                            id |-> a.id, col |-> c]}
                IN  /\ Cardinality(at) = 1
                    /\ \A j \in at : Header[j] = question(a.id)
  BY DEF CsvAligned, Having
<1>. DEFINE r == generator.unprocessed[i]
            cell == [record |-> r, id |-> a.id, col |-> c]
            at == {j \in DOMAIN Header : Rows[i][j] = cell}
<1>2. r \in R /\ r \in DOMAIN records /\ r \in Nat
  <2>1. r \in R
    BY DEF Range
  <2>. QED  BY <2>1, RecordFacts
<1>3. PICK x \in 1..Len(qs) :
         /\ qs[x].id = a.id /\ a.id \in DOMAIN numCols
         /\ numCols[a.id] >= a.numCols
         /\ qs[x].question = question(a.id)
  <2>. HIDE DEF r
  <2>. QED  BY <1>1, <1>2, EntryIsLatest DEF r
<1>4. c \in Nat /\ c \in 1..numCols[qs[x].id]
  <2>1. PICK k \in Nat : k \in DOMAIN records[r].content
                         /\ a = records[r].content[k]
    BY <1>1, <1>2, AnswerIndex
  <2>2. a.numCols \in Nat
    BY <1>2, <2>1, RecordFacts
  <2>3. numCols[a.id] \in Nat
    <3>1. PICK D \in SUBSET Ids : numCols \in [D -> Nat]
      BY DEF MergedGenerators, Generators
    <3>. QED  BY <1>3, <3>1
  <2>. HIDE DEF numCols, qs
  <2>. QED  BY <1>3, <2>2, <2>3
<1>5. /\ \A j, k \in DOMAIN Columns : Columns[j] = Columns[k] => j = k
      /\ \A j \in DOMAIN Columns :
            \E y \in 1..Len(qs) :
               \E d \in 1..numCols[qs[y].id] :
                  Columns[j] = ColumnOf(qs[y], d)
      /\ \A y \in 1..Len(qs) : \A d \in 1..numCols[qs[y].id] :
            \E j \in DOMAIN Columns : Columns[j] = ColumnOf(qs[y], d)
  <2>1. \A y \in 1..Len(qs) : qs[y].id \in DOMAIN numCols
    BY DEF Follows, Founded
  <2>. QED  BY <2>1, ColumnPlaces
<1>6. PICK j0 \in DOMAIN Columns : Columns[j0] = ColumnOf(qs[x], c)
  BY <1>4, <1>5
<1>7. /\ DOMAIN Header = DOMAIN Columns
      /\ \A j \in DOMAIN Columns :
            /\ Header[j] = Columns[j].question
            /\ Rows[i][j] = Cell(r, Columns[j].id, Columns[j].col)
  BY DEF Header, Rows, Row
<1>8. Cell(r, a.id, c) = cell
  <2>1. \E b \in Answers(r) : b.id = a.id /\ ~b.isHeader /\ c <= b.numCols
    <3>1. c <= a.numCols
      BY <1>1
    <3>. QED  BY <1>1, <3>1
  <2>. QED  BY <2>1 DEF Cell
<1>9. cell # None
  <2>1. PICK k \in Nat : k \in DOMAIN records[r].content
                         /\ a = records[r].content[k]
    BY <1>1, <1>2, AnswerIndex
  <2>2. None \notin [record : Nat, id : {a.id}, col : Nat]
    <3>. HIDE DEF r
    <3>. QED  BY <1>2, <2>1, DownloadAssumption
  <2>3. cell \in [record : Nat, id : {a.id}, col : Nat]
    <3>. HIDE DEF r
    <3>. QED  BY <1>2, <1>4
  <2>. QED  BY <2>2, <2>3
<1>10. j0 \in at
  <2>1. Columns[j0].id = a.id /\ Columns[j0].col = c
    BY <1>3, <1>6 DEF ColumnOf
  <2>. HIDE DEF cell, r
  <2>. QED  BY <1>6, <1>7, <1>8, <2>1
<1>11. ASSUME NEW j \in at
       PROVE  j = j0
  <2>1. j \in DOMAIN Columns /\ Cell(r, Columns[j].id, Columns[j].col) = cell
    <3>. HIDE DEF cell, r
    <3>. QED  BY <1>7, <1>11
  <2>2. cell = [record |-> r, id |-> Columns[j].id, col |-> Columns[j].col]
    <3>. HIDE DEF cell, r
    <3>. QED  BY <1>9, <2>1 DEF Cell
  <2>3. Columns[j].id = a.id /\ Columns[j].col = c
    BY <2>2
  <2>4. PICK y \in 1..Len(qs) : \E d \in 1..numCols[qs[y].id] :
                                   Columns[j] = ColumnOf(qs[y], d)
    BY <1>5, <2>1
  <2>5. PICK d \in 1..numCols[qs[y].id] : Columns[j] = ColumnOf(qs[y], d)
    BY <2>4
  <2>6. d = c /\ qs[y].id = a.id
    <3>1. ColumnOf(qs[y], d).id = qs[y].id /\ ColumnOf(qs[y], d).col = d
      BY DEF ColumnOf
    <3>. HIDE DEF qs
    <3>. QED  BY <2>3, <2>5, <3>1
  <2>7. y = x
    <3>1. OneEntryPerId(qs)
      BY DEF Follows
    <3>. HIDE DEF qs
    <3>. QED  BY <1>3, <2>6, <3>1 DEF OneEntryPerId
  <2>. HIDE DEF qs
  <2>. QED  BY <1>5, <1>6, <2>1, <2>5, <2>6, <2>7
<1>12. at = {j0}
  <2>. HIDE DEF at
  <2>. QED  BY <1>10, <1>11
<1>13. Cardinality(at) = 1
  BY <1>12, FS_Singleton
<1>14. Header[j0] = question(a.id)
  <2>1. Columns[j0].question = qs[x].question
    BY <1>6 DEF ColumnOf
  <2>. HIDE DEF question, qs
  <2>. QED  BY <1>3, <1>6, <1>7, <2>1
<1>15. \A j \in at : Header[j] = question(a.id)
  <2>. HIDE DEF at, question
  <2>. QED  BY <1>12, <1>14
<1>. QED  BY <1>13, <1>15

-----------------------------------------------------------------------------
(* The stream, cut and put together                                        *)

LEMMA SegmentType ==
  ASSUME NEW a \in Nat, NEW m \in Nat
  PROVE  /\ Segment(a, m) \in Seq(Chars)
         /\ Len(Segment(a, m)) = m
         /\ \A i \in 1..m : Segment(a, m)[i] = Stream(a + i)
<1>1. \A b \in Nat \ {0} : Stream(b) \in Chars
  <2>1. SUFFICES ASSUME NEW b \in Nat \ {0}
                 PROVE  Stream(b) \in Chars
    OBVIOUS
  <2>2. (b + 2) \div 3 \in Nat
    OBVIOUS
  <2>3. Stream(b) \in {<<(b + 2) \div 3, "begins">>, <<(b + 2) \div 3, "ends">>,
                       Newline}
    <3>1. b % 3 = 1 \/ b % 3 = 2 \/ (b % 3 # 1 /\ b % 3 # 2)
      OBVIOUS
    <3>. QED  BY <3>1 DEF Stream
  <2>. QED  BY <2>2, <2>3 DEF Chars, Newline
<1>2. \A i \in 1..m : a + i \in Nat \ {0} /\ Stream(a + i) \in Chars
  BY <1>1
<1>3. Segment(a, m) \in Seq(Chars) /\ Len(Segment(a, m)) = m
  BY <1>2 DEF Segment
<1>. QED  BY <1>3 DEF Segment

LEMMA SegmentsJoined ==
  ASSUME NEW a \in Nat, NEW m \in Nat, NEW n \in Nat
  PROVE  Segment(a, m) \o Segment(a + m, n) = Segment(a, m + n)
<1>1. a + m \in Nat /\ m + n \in Nat
  OBVIOUS
<1>. DEFINE s == Segment(a, m)
            t == Segment(a + m, n)
            joined == s \o t
<1>2. /\ s \in Seq(Chars) /\ Len(s) = m
      /\ \A i \in 1..m : s[i] = Stream(a + i)
  BY SegmentType
<1>3. /\ t \in Seq(Chars) /\ Len(t) = n
      /\ \A i \in 1..n : t[i] = Stream((a + m) + i)
  BY <1>1, SegmentType
<1>4. /\ joined \in Seq(Chars) /\ Len(joined) = m + n
      /\ \A i \in 1..(m + n) :
            joined[i] = IF i <= m THEN s[i] ELSE t[i - m]
  <2>. HIDE DEF s, t
  <2>. QED  BY <1>2, <1>3, ConcatProperties
<1>5. \A i \in 1..(m + n) : joined[i] = Stream(a + i)
  <2>1. SUFFICES ASSUME NEW i \in 1..(m + n)
                 PROVE  joined[i] = Stream(a + i)
    OBVIOUS
  <2>2. i <= m => i \in 1..m
    OBVIOUS
  <2>3. ~(i <= m) => i - m \in 1..n /\ (a + m) + (i - m) = a + i
    OBVIOUS
  <2>. HIDE DEF joined, s, t
  <2>. QED  BY <1>2, <1>3, <1>4, <2>2, <2>3
<1>6. /\ Segment(a, m + n) \in Seq(Chars) /\ Len(Segment(a, m + n)) = m + n
      /\ \A i \in 1..(m + n) : Segment(a, m + n)[i] = Stream(a + i)
  BY <1>1, SegmentType
<1>. HIDE DEF joined
<1>7. joined = Segment(a, m + n)
  BY <1>4, <1>5, <1>6, SeqEqual
<1>. QED  BY <1>7 DEF joined

LEMMA SegmentCut ==
  ASSUME NEW a \in Nat, NEW m \in Nat, NEW n \in 1..m
  PROVE  /\ SubSeq(Segment(a, m), 1, n) = Segment(a, n)
         /\ SubSeq(Segment(a, m), n + 1, Len(Segment(a, m)))
              = Segment(a + n, m - n)
<1>1. n \in Nat /\ m - n \in Nat /\ a + n \in Nat
  OBVIOUS
<1>. DEFINE s == Segment(a, m)
<1>2. /\ s \in Seq(Chars) /\ Len(s) = m
      /\ \A i \in 1..m : s[i] = Stream(a + i) /\ s[i] \in Chars
  BY SegmentType, ElementOfSeq
<1>. HIDE DEF s
<1>3. SubSeq(s, 1, n) = Segment(a, n)
  <2>. DEFINE cut == SubSeq(s, 1, n)
  <2>1. \A i \in 1..n : s[i] \in Chars
    BY <1>2
  <2>2. /\ cut \in Seq(Chars) /\ Len(cut) = n
        /\ \A i \in 1..n : cut[i] = s[i]
    <3>1. /\ cut \in Seq(Chars)
          /\ Len(cut) = IF 1 <= n THEN n - 1 + 1 ELSE 0
          /\ \A i \in 1..(n - 1 + 1) : cut[i] = s[1 + i - 1]
      BY <1>1, <2>1, SubSeqProperties
    <3>. HIDE DEF cut
    <3>. QED  BY <1>1, <3>1
  <2>3. \A i \in 1..n : cut[i] = Stream(a + i)
    BY <1>2, <2>2
  <2>. HIDE DEF cut
  <2>4. cut = Segment(a, n)
    <3>. DEFINE t == Segment(a, n)
    <3>1. /\ t \in Seq(Chars) /\ Len(t) = n
          /\ \A i \in 1..(n) : t[i] = Stream((a) + i)
      BY <1>1, SegmentType
    <3>. HIDE DEF t
    <3>2. cut = t
      BY <2>2, <2>3, <3>1, SeqEqual
    <3>. QED  BY <3>2 DEF t
  <2>. QED  BY <2>4 DEF cut
<1>4. SubSeq(s, n + 1, m) = Segment(a + n, m - n)
  <2>. DEFINE cut == SubSeq(s, n + 1, m)
  <2>1. \A i \in (n + 1)..m : s[i] \in Chars
    BY <1>2
  <2>2. /\ cut \in Seq(Chars) /\ Len(cut) = m - n
        /\ \A i \in 1..(m - n) : cut[i] = s[n + i]
    <3>1. /\ cut \in Seq(Chars)
          /\ Len(cut) = IF n + 1 <= m THEN m - (n + 1) + 1 ELSE 0
          /\ \A i \in 1..(m - (n + 1) + 1) : cut[i] = s[(n + 1) + i - 1]
      BY <1>1, <2>1, SubSeqProperties
    <3>. HIDE DEF cut
    <3>. QED  BY <1>1, <3>1
  <2>3. \A i \in 1..(m - n) : cut[i] = Stream((a + n) + i)
    <3>1. \A i \in 1..(m - n) : n + i \in 1..m /\ a + (n + i) = (a + n) + i
      OBVIOUS
    <3>. HIDE DEF cut
    <3>. QED  BY <1>2, <2>2, <3>1
  <2>. HIDE DEF cut
  <2>4. cut = Segment(a + n, m - n)
    <3>. DEFINE t == Segment(a + n, m - n)
    <3>1. /\ t \in Seq(Chars) /\ Len(t) = m - n
          /\ \A i \in 1..(m - n) : t[i] = Stream((a + n) + i)
      BY <1>1, SegmentType
    <3>. HIDE DEF t
    <3>2. cut = t
      BY <2>2, <2>3, <3>1, SeqEqual
    <3>. QED  BY <3>2 DEF t
  <2>. QED  BY <2>4 DEF cut
<1>. QED  BY <1>2, <1>3, <1>4 DEF s

LEMMA TextSegments ==
  ASSUME NEW l \in Nat
  PROVE  /\ \A d \in 0..2 : Begun(l + 1, d) = Segment(3 * l, d)
         /\ Text(l + 1) = Segment(3 * l, 2)
         /\ <<Newline>> = Segment(3 * l + 2, 1)
         /\ Segment(3 * l, 0) = <<>>
<1>1. /\ Stream(3 * l + 1) = <<l + 1, "begins">>
      /\ Stream(3 * l + 2) = <<l + 1, "ends">>
      /\ Stream(3 * l + 3) = Newline
  BY StreamChars
<1>2. 3 * l \in Nat /\ 3 * l + 2 \in Nat
  OBVIOUS
<1>3. ASSUME NEW d \in 0..2
      PROVE  Begun(l + 1, d) = Segment(3 * l, d)
  <2>1. \A i \in 1..d : Text(l + 1)[i] = Stream(3 * l + i)
    <3>1. \A i \in 1..d : i = 1 \/ i = 2
      OBVIOUS
    <3>. QED  BY <1>1, <3>1 DEF Text
  <2>. QED  BY <2>1 DEF Begun, Segment
<1>4. Text(l + 1) = Segment(3 * l, 2)
  BY <1>3, BegunTexts
<1>5. <<Newline>> = Segment(3 * l + 2, 1)
  <2>1. /\ Segment(3 * l + 2, 1) \in Seq(Chars)
        /\ Len(Segment(3 * l + 2, 1)) = 1
        /\ Segment(3 * l + 2, 1)[1] = Stream((3 * l + 2) + 1)
    <3>1. 1 \in Nat /\ 1 \in 1..1
      OBVIOUS
    <3>. QED  BY <1>2, <3>1, SegmentType
  <2>2. (3 * l + 2) + 1 = 3 * l + 3
    OBVIOUS
  <2>3. <<Newline>> \in Seq(Chars) /\ Len(<<Newline>>) = 1
        /\ <<Newline>>[1] = Newline
    BY DEF Chars, Newline
  <2>4. \A i \in 1..1 : i = 1
    OBVIOUS
  <2>. HIDE DEF Newline
  <2>. QED  BY <1>1, <2>1, <2>2, <2>3, <2>4, SeqEqual
<1>6. Segment(3 * l, 0) = <<>>
  BY <1>2, SegmentType, EmptySeq
<1>. QED  BY <1>3, <1>4, <1>5, <1>6

(* A chunk of the stream, behind what was left of the last one.            *)
LEMMA ChunkSplit ==
  ASSUME NEW l \in Nat, NEW d \in 0..2, NEW m \in Nat, NEW n \in 1..m
  PROVE  LET q == (d + n) \div 3
             chunk == SubSeq(Segment(3 * l + d, m), 1, n)
         IN  Split(Begun(l + 1, d) \o chunk)
               = [ended |-> LinesFrom(l, q),
                  rest |-> Begun(l + q + 1, (d + n) % 3)]
<1>1. 3 * l \in Nat /\ d \in Nat /\ n \in Nat /\ 3 * l + d \in Nat /\ d + n \in Nat
  OBVIOUS
<1>2. SubSeq(Segment(3 * l + d, m), 1, n) = Segment(3 * l + d, n)
  BY <1>1, SegmentCut
<1>3. Begun(l + 1, d) = Segment(3 * l, d)
  BY TextSegments
<1>4. Segment(3 * l, d) \o Segment(3 * l + d, n) = Segment(3 * l, d + n)
  <2>1. PICK b \in Nat : b = 3 * l
    BY <1>1
  <2>2. Segment(b, d) \o Segment(b + d, n) = Segment(b, d + n)
    <3>. HIDE <2>1
    <3>. QED  BY <1>1, SegmentsJoined
  <2>. QED  BY <2>1, <2>2
<1>. QED  BY <1>1, <1>2, <1>3, <1>4, SplitSegment

-----------------------------------------------------------------------------
(* Lines *)

LEMMA TextFacts ==
  /\ \A r \in Nat : Text(r) \in Seq(Chars) /\ Len(Text(r)) = 2
                    /\ Text(r)[1][1] = r /\ Text(r) # Message /\ Text(r) # <<>>
  /\ \A r, s \in Nat : Text(r) = Text(s) => r = s
  /\ Message \in Seq(Chars) /\ Len(Message) = 1
  /\ Message[1] = <<None, "message">> /\ Message # <<>>
<1>1. \A r \in Nat : Text(r) \in Seq(Chars) /\ Len(Text(r)) = 2
                     /\ Text(r)[1] = <<r, "begins">>
  BY DEF Text, Chars
<1>2. \A r \in Nat : Text(r)[1][1] = r
  BY DEF Text
<1>3. Message \in Seq(Chars) /\ Len(Message) = 1
      /\ Message[1] = <<None, "message">>
  BY DEF Message, Chars
<1>4. Len(<<>>) = 0
  BY EmptySeq
<1>5. \A r, s \in Nat : Text(r) = Text(s) => r = s
  <2>. HIDE DEF Text
  <2>. QED  BY <1>2
<1>6. \A r \in Nat : Text(r) # Message /\ Text(r) # <<>>
  BY <1>1, <1>3, <1>4
<1>7. Message # <<>>
  BY DEF Message
<1>. QED  BY <1>1, <1>2, <1>3, <1>5, <1>6, <1>7

LEMMA LinesFacts ==
  ASSUME NEW a \in Nat, NEW n \in Nat
  PROVE  /\ LinesFrom(a, n) \in Seq(Seq(Chars))
         /\ Len(LinesFrom(a, n)) = n
         /\ \A i \in 1..n : LinesFrom(a, n)[i] = Text(a + i)
         /\ n = 0 => LinesFrom(a, n) = <<>>
<1>1. \A i \in 1..n : a + i \in Nat /\ Text(a + i) \in Seq(Chars)
  BY TextFacts
<1>2. LinesFrom(a, n) \in Seq(Seq(Chars)) /\ Len(LinesFrom(a, n)) = n
  <2>. HIDE DEF Chars
  <2>1. [i \in 1..n |-> Text(a + i)] \in Seq(Seq(Chars))
    <3>. DEFINE S == Seq(Chars)
                e(i) == Text(a + i)
    <3>1. \A i \in 1..n : e(i) \in S
      BY <1>1
    <3>. HIDE DEF S, e
    <3>2. [i \in 1..n |-> e(i)] \in Seq(S)
      BY <3>1
    <3>. QED  BY <3>2 DEF S, e
  <2>2. Len([i \in 1..n |-> Text(a + i)]) = n
    OBVIOUS
  <2>. QED  BY <2>1, <2>2 DEF LinesFrom
<1>. QED  BY <1>2, EmptySeq DEF LinesFrom

LEMMA LinesJoined ==
  ASSUME NEW a \in Nat, NEW m \in Nat, NEW n \in Nat
  PROVE  LinesFrom(a, m) \o LinesFrom(a + m, n) = LinesFrom(a, m + n)
<1>1. a + m \in Nat /\ m + n \in Nat
  OBVIOUS
<1>. DEFINE s == LinesFrom(a, m)
            t == LinesFrom(a + m, n)
            joined == s \o t
<1>2. /\ s \in Seq(Seq(Chars)) /\ Len(s) = m
      /\ \A i \in 1..m : s[i] = Text(a + i)
  BY LinesFacts
<1>3. /\ t \in Seq(Seq(Chars)) /\ Len(t) = n
      /\ \A i \in 1..n : t[i] = Text((a + m) + i)
  BY <1>1, LinesFacts
<1>4. /\ joined \in Seq(Seq(Chars)) /\ Len(joined) = m + n
      /\ \A i \in 1..(m + n) :
            joined[i] = IF i <= m THEN s[i] ELSE t[i - m]
  <2>. HIDE DEF s, t
  <2>. QED  BY <1>2, <1>3, ConcatProperties
<1>5. \A i \in 1..(m + n) : joined[i] = Text(a + i)
  <2>1. SUFFICES ASSUME NEW i \in 1..(m + n)
                 PROVE  joined[i] = Text(a + i)
    OBVIOUS
  <2>2. i <= m => i \in 1..m
    OBVIOUS
  <2>3. ~(i <= m) => i - m \in 1..n /\ (a + m) + (i - m) = a + i
    OBVIOUS
  <2>. HIDE DEF joined, s, t
  <2>. QED  BY <1>2, <1>3, <1>4, <2>2, <2>3
<1>6. /\ LinesFrom(a, m + n) \in Seq(Seq(Chars))
      /\ Len(LinesFrom(a, m + n)) = m + n
      /\ \A i \in 1..(m + n) : LinesFrom(a, m + n)[i] = Text(a + i)
  BY <1>1, LinesFacts
<1>. HIDE DEF joined
<1>7. joined = LinesFrom(a, m + n)
  BY <1>4, <1>5, <1>6, SeqEqual
<1>. QED  BY <1>7 DEF joined

LEMMA LineTaken ==
  ASSUME NEW a \in Nat, NEW n \in Nat, LinesFrom(a, n) # <<>>
  PROVE  /\ n # 0
         /\ Head(LinesFrom(a, n)) = Text(a + 1)
         /\ Tail(LinesFrom(a, n)) = LinesFrom(a + 1, n - 1)
<1>. DEFINE s == LinesFrom(a, n)
            t == LinesFrom(a + 1, n - 1)
<1>1. n # 0 /\ a + 1 \in Nat /\ n - 1 \in Nat
  BY LinesFacts
<1>2. /\ s \in Seq(Seq(Chars)) /\ Len(s) = n
      /\ \A i \in 1..n : s[i] = Text(a + i)
  BY LinesFacts
<1>3. /\ t \in Seq(Seq(Chars)) /\ Len(t) = n - 1
      /\ \A i \in 1..(n - 1) : t[i] = Text((a + 1) + i)
  BY <1>1, LinesFacts
<1>. HIDE DEF s, t
<1>4. /\ Tail(s) \in Seq(Seq(Chars)) /\ Len(Tail(s)) = n - 1
      /\ \A i \in 1..(n - 1) : Tail(s)[i] = s[i + 1]
  BY <1>2, HeadTailProperties DEF s
<1>5. \A i \in 1..(n - 1) : i + 1 \in 1..n /\ a + (i + 1) = (a + 1) + i
  BY <1>1
<1>6. \A i \in 1..(n - 1) : Tail(s)[i] = t[i]
  BY <1>2, <1>3, <1>4, <1>5
<1>7. Tail(s) = t
  BY <1>3, <1>4, <1>6, SeqEqual
<1>8. Head(s) = Text(a + 1)
  <2>1. Head(s) = s[1] /\ 1 \in 1..n
    BY <1>1, <1>2
  <2>. QED  BY <1>2, <2>1
<1>. QED  BY <1>1, <1>7, <1>8 DEF s, t

-----------------------------------------------------------------------------
(* The inboxes: their places, and how many there are                       *)

Places(box) == {p \in Workers \X Nat : p[2] \in 1..Len(box[p[1]])}
At(box, p) == box[p[1]][p[2]]

Boxes == [Workers -> Seq(Seq(Chars))]

PlacesOf(box, s) == {p \in Places(box) : p[1] \in s}

LEMMA BoxFacts ==
  ASSUME NEW box \in Boxes, NEW w \in Workers
  PROVE  /\ box[w] \in Seq(Seq(Chars)) /\ Len(box[w]) \in Nat
         /\ \A i : <<w, i>> \in Places(box) <=> i \in 1..Len(box[w])
<1>1. box[w] \in Seq(Seq(Chars)) /\ Len(box[w]) \in Nat
  BY LenProperties DEF Boxes
<1>. QED  BY <1>1 DEF Places

LEMMA PlacesOfOne ==
  ASSUME NEW box \in Boxes, NEW w \in Workers
  PROVE  /\ IsFiniteSet(PlacesOf(box, {w}))
         /\ Cardinality(PlacesOf(box, {w})) = Len(box[w])
<1>. DEFINE n == Len(box[w])
            f == [i \in 1..n |-> <<w, i>>]
<1>1. n \in Nat
  BY BoxFacts
<1>2. PlacesOf(box, {w}) = {<<w, i>> : i \in 1..n}
  <2>1. ASSUME NEW p \in PlacesOf(box, {w})
        PROVE  p \in {<<w, i>> : i \in 1..n}
    <3>1. p = <<p[1], p[2]>> /\ p[1] = w /\ p[2] \in 1..n
      BY DEF PlacesOf, Places
    <3>. QED  BY <3>1
  <2>2. ASSUME NEW i \in 1..n
        PROVE  <<w, i>> \in PlacesOf(box, {w})
    <3>1. <<w, i>> \in Places(box)
      BY BoxFacts
    <3>. QED  BY <3>1 DEF PlacesOf
  <2>. QED  BY <2>1, <2>2
<1>3. f \in Bijection(1..n, PlacesOf(box, {w}))
  <2>. HIDE DEF n
  <2>. QED  BY <1>2 DEF Bijection, Injection, Surjection, IsInjective
<1>4. ExistsBijection(1..n, PlacesOf(box, {w}))
  BY <1>3 DEF ExistsBijection
<1>5. IsFiniteSet(1..n) /\ Cardinality(1..n) = n
  <2>1. Cardinality(1..n) = IF 1 > n THEN 0 ELSE n - 1 + 1
    <3>1. 1 \in Int /\ n \in Int
      BY <1>1
    <3>. HIDE DEF n
    <3>. QED  BY <3>1, FS_Interval
  <2>2. IsFiniteSet(1..n)
    <3>1. 1 \in Int /\ n \in Int
      BY <1>1
    <3>. HIDE DEF n
    <3>. QED  BY <3>1, FS_Interval
  <2>. HIDE DEF n
  <2>. QED  BY <1>1, <2>1, <2>2
<1>. HIDE DEF n
<1>. QED  BY <1>4, <1>5, FS_Bijection DEF n

LEMMA PlacesFinite ==
  ASSUME NEW box \in Boxes
  PROVE  /\ IsFiniteSet(Workers) /\ IsFiniteSet(Places(box))
         /\ \A s \in SUBSET Workers :
               /\ IsFiniteSet(PlacesOf(box, s))
               /\ Cardinality(PlacesOf(box, s)) \in Nat
<1>1. IsFiniteSet(Workers)
  <2>1. 0 \in Int /\ numWorkers - 1 \in Int
    BY DownloadAssumption
  <2>. QED  BY <2>1, FS_Interval DEF Workers
<1>. DEFINE parts == {PlacesOf(box, {w}) : w \in Workers}
            f == [w \in Workers |-> PlacesOf(box, {w})]
<1>2. IsFiniteSet(parts)
  <2>1. f \in Surjection(Workers, parts)
    BY DEF Surjection
  <2>. HIDE DEF f, parts
  <2>. QED  BY <1>1, <2>1, FS_Surjection
<1>3. \A T \in parts : IsFiniteSet(T)
  BY PlacesOfOne
<1>4. IsFiniteSet(UNION parts)
  <2>. HIDE DEF parts
  <2>. QED  BY <1>2, <1>3, FS_UNION
<1>5. Places(box) \subseteq UNION parts
  BY DEF PlacesOf, Places
<1>6. IsFiniteSet(Places(box))
  <2>. HIDE DEF parts
  <2>. QED  BY <1>4, <1>5, FS_Subset
<1>7. \A s : PlacesOf(box, s) \in SUBSET Places(box)
  BY DEF PlacesOf
<1>. QED  BY <1>1, <1>6, <1>7, FS_Subset, FS_CardinalityType

(* The fold of MapThenSumSet, as a function of the set of workers.         *)
IsTotal(f, box) ==
    f = [s \in SUBSET Workers |->
            IF s = {} THEN 0
            ELSE LET w == CHOOSE w \in s : TRUE
                 IN  Len(box[w]) + f[s \ {w}]]

LEMMA TotalUnfolded ==
  ASSUME NEW box
  PROVE  MapThenSumSet(LAMBDA w : Len(box[w]), Workers)
           = (CHOOSE f : IsTotal(f, box))[Workers]
BY DEF MapThenSumSet, MapThenFoldSet, IsTotal

LEMMA TotalUnique ==
  ASSUME NEW box, IsFiniteSet(Workers), NEW f, NEW g,
         IsTotal(f, box), IsTotal(g, box)
  PROVE  f[Workers] = g[Workers]
<1>. DEFINE Bad == {s \in SUBSET Workers : f[s] # g[s]}
            Sizes == {Cardinality(s) : s \in Bad}
<1>1. \A s \in SUBSET Workers : IsFiniteSet(s) /\ Cardinality(s) \in Nat
  BY FS_Subset, FS_CardinalityType
<1>2. \A s \in SUBSET Workers :
          /\ f[s] = IF s = {} THEN 0
                    ELSE LET w == CHOOSE w \in s : TRUE
                         IN  Len(box[w]) + f[s \ {w}]
          /\ g[s] = IF s = {} THEN 0
                    ELSE LET w == CHOOSE w \in s : TRUE
                         IN  Len(box[w]) + g[s \ {w}]
  BY DEF IsTotal
<1>3. ASSUME Bad # {}
      PROVE  FALSE
  <2>1. Sizes \in SUBSET Nat /\ Sizes # {}
    BY <1>1, <1>3
  <2>2. \E n \in Sizes : \A m \in Sizes : n <= m
    <3>. HIDE DEF Sizes
    <3>. QED  BY <2>1, LeastExists
  <2>3. PICK s \in Bad : \A t \in Bad : Cardinality(s) <= Cardinality(t)
    BY <2>2
  <2>4. s \in SUBSET Workers /\ f[s] # g[s] /\ s # {}
    BY <1>2, <2>3
  <2>5. PICK w : w = CHOOSE y \in s : TRUE
    OBVIOUS
  <2>6. w \in s
    BY <2>4, <2>5
  <2>7. f[s \ {w}] # g[s \ {w}] /\ s \ {w} \in SUBSET Workers
    <3>1. f[s] = Len(box[w]) + f[s \ {w}] /\ g[s] = Len(box[w]) + g[s \ {w}]
      BY <1>2, <2>4, <2>5
    <3>. QED  BY <2>4, <3>1
  <2>8. Cardinality(s \ {w}) = Cardinality(s) - 1
    BY <1>1, <2>4, <2>6, FS_RemoveElement
  <2>9. Cardinality(s) <= Cardinality(s \ {w}) /\ Cardinality(s) \in Nat
    BY <1>1, <2>3, <2>4, <2>7
  <2>. QED  BY <2>8, <2>9
<1>. QED  BY <1>3

LEMMA InboxTotal ==
  ASSUME NEW box \in Boxes
  PROVE  MapThenSumSet(LAMBDA w : Len(box[w]), Workers)
           = Cardinality(Places(box))
<1>. DEFINE g == [s \in SUBSET Workers |-> Cardinality(PlacesOf(box, s))]
<1>1. ASSUME NEW s \in SUBSET Workers
      PROVE  Cardinality(PlacesOf(box, s)) =
                IF s = {} THEN 0
                ELSE LET w == CHOOSE w \in s : TRUE
                     IN  Len(box[w]) + Cardinality(PlacesOf(box, s \ {w}))
  <2>1. CASE s = {}
    <3>1. PlacesOf(box, s) = {}
      BY <2>1 DEF PlacesOf
    <3>. QED  BY <2>1, <3>1, FS_EmptySet
  <2>2. CASE s # {}
    <3>1. PICK w : w = CHOOSE y \in s : TRUE
      OBVIOUS
    <3>2. w \in s /\ w \in Workers
      BY <2>2, <3>1
    <3>. DEFINE A == PlacesOf(box, {w})
                B == PlacesOf(box, s \ {w})
    <3>3. PlacesOf(box, s) = A \cup B /\ A \cap B = {}
      BY <3>2 DEF PlacesOf
    <3>4. /\ IsFiniteSet(A) /\ IsFiniteSet(B) /\ Cardinality(A) \in Nat
          /\ Cardinality(B) \in Nat /\ Cardinality(A) = Len(box[w])
      BY <3>2, PlacesFinite, PlacesOfOne
    <3>5. Cardinality(A \cup B)
            = Cardinality(A) + Cardinality(B) - Cardinality(A \cap B)
      <4>. HIDE DEF A, B
      <4>. QED  BY <3>4, FS_Union
    <3>6. Cardinality(A \cap B) = 0
      BY <3>3, FS_EmptySet
    <3>. HIDE DEF A, B
    <3>7. Cardinality(PlacesOf(box, s)) = Len(box[w]) + Cardinality(B)
      BY <3>3, <3>4, <3>5, <3>6
    <3>. QED  BY <2>2, <3>1, <3>7 DEF B
  <2>. QED  BY <2>1, <2>2
<1>2. IsTotal(g, box)
  BY <1>1 DEF IsTotal
<1>3. IsTotal(CHOOSE f : IsTotal(f, box), box)
  <2>. HIDE DEF g
  <2>. QED  BY <1>2
<1>4. IsFiniteSet(Workers)
  BY PlacesFinite
<1>5. (CHOOSE f : IsTotal(f, box))[Workers] = g[Workers]
  <2>1. PICK f : f = CHOOSE h : IsTotal(h, box)
    OBVIOUS
  <2>. HIDE DEF g
  <2>. QED  BY <1>2, <1>3, <1>4, <2>1, TotalUnique
<1>6. PlacesOf(box, Workers) = Places(box)
  BY DEF PlacesOf, Places
<1>7. g[Workers] = Cardinality(Places(box))
  BY <1>6
<1>. HIDE DEF g
<1>8. MapThenSumSet(LAMBDA w : Len(box[w]), Workers)
        = (CHOOSE f : IsTotal(f, box))[Workers]
  BY TotalUnfolded
<1>. QED  BY <1>5, <1>7, <1>8

LEMMA NoPlaces ==
  ASSUME NEW box \in Boxes
  PROVE  /\ Cardinality(Places(box)) \in Nat
         /\ Cardinality(Places(box)) = 0 <=> Places(box) = {}
         /\ box = [w \in Workers |-> <<>>] => Places(box) = {}
<1>1. IsFiniteSet(Places(box))
  BY PlacesFinite
<1>2. ASSUME box = [w \in Workers |-> <<>>]
      PROVE  Places(box) = {}
  <2>1. \A w \in Workers : Len(box[w]) = 0
    BY <1>2, EmptySeq
  <2>. QED  BY <2>1 DEF Places
<1>. QED  BY <1>1, <1>2, FS_CardinalityType, FS_EmptySet

LEMMA BoxFilled ==
  ASSUME NEW box \in Boxes, NEW w \in Workers, NEW line \in Seq(Chars)
  PROVE  LET next == [box EXCEPT ![w] = Append(@, line)]
         IN  /\ next \in Boxes /\ next[w] = Append(box[w], line)
             /\ \A v \in Workers : v # w => next[v] = box[v]
<1>. DEFINE S == Seq(Chars)
<1>1. box[w] \in Seq(S) /\ line \in S
  BY BoxFacts
<1>2. Append(box[w], line) \in Seq(S)
  <2>. HIDE DEF S
  <2>. QED  BY <1>1, AppendProperties
<1>. HIDE DEF S
<1>. QED  BY <1>2 DEF Boxes, S

LEMMA PlaceAdded ==
  ASSUME NEW box \in Boxes, NEW w \in Workers, NEW line \in Seq(Chars),
         NEW next \in Boxes, next[w] = Append(box[w], line),
         \A v \in Workers : v # w => next[v] = box[v],
         NEW place, place = <<w, Len(box[w]) + 1>>
  PROVE  /\ place \notin Places(box)
         /\ Places(next) = Places(box) \cup {place}
         /\ \A p \in Places(box) : At(next, p) = At(box, p)
         /\ At(next, place) = line
         /\ Cardinality(Places(next)) = Cardinality(Places(box)) + 1
<1>. DEFINE n == Len(box[w])
            S == Seq(Chars)
<1>1. box[w] \in Seq(S) /\ n \in Nat
  BY BoxFacts
<1>2. /\ Append(box[w], line) \in Seq(S)
      /\ Len(Append(box[w], line)) = n + 1
      /\ \A i \in 1..n : Append(box[w], line)[i] = box[w][i]
      /\ Append(box[w], line)[n + 1] = line
  <2>1. line \in S
    OBVIOUS
  <2>. HIDE DEF S, n
  <2>. QED  BY <1>1, <2>1, AppendProperties DEF n
<1>. HIDE DEF S
<1>4. place \notin Places(box)
  BY <1>1, BoxFacts
<1>5. ASSUME NEW p
      PROVE  p \in Places(next) <=> p \in Places(box) \/ p = place
  <2>1. CASE p \in Workers \X Nat /\ p[1] = w
    <3>1. p = <<w, p[2]>> /\ p[2] \in Nat
      BY <2>1
    <3>2. p[2] \in 1..(n + 1) <=> p[2] \in 1..n \/ p[2] = n + 1
      <4>. HIDE DEF n
      <4>. QED  BY <1>1, <3>1
    <3>3. p = place <=> p[2] = n + 1
      BY <3>1
    <3>4. p \in Places(next) <=> p[2] \in 1..(n + 1)
      BY <1>2, <2>1 DEF Places
    <3>5. p \in Places(box) <=> p[2] \in 1..n
      BY <2>1 DEF Places
    <3>. QED  BY <3>2, <3>3, <3>4, <3>5
  <2>2. CASE p \in Workers \X Nat /\ p[1] # w
    BY <2>2 DEF Places
  <2>3. CASE p \notin Workers \X Nat
    <3>1. place \in Workers \X Nat
      BY <1>1
    <3>. QED  BY <2>3, <3>1 DEF Places
  <2>. QED  BY <2>1, <2>2, <2>3
<1>6. Places(next) = Places(box) \cup {place}
  BY <1>5
<1>7. ASSUME NEW p \in Places(box)
      PROVE  At(next, p) = At(box, p)
  <2>1. p[1] \in Workers /\ p[2] \in 1..Len(box[p[1]])
    BY DEF Places
  <2>2. CASE p[1] = w
    BY <1>2, <2>1, <2>2 DEF At
  <2>3. CASE p[1] # w
    BY <2>1, <2>3 DEF At
  <2>. QED  BY <2>2, <2>3
<1>8. At(next, place) = line
  BY <1>2 DEF At
<1>9. Cardinality(Places(next)) = Cardinality(Places(box)) + 1
  <2>1. IsFiniteSet(Places(box))
    BY PlacesFinite
  <2>2. PICK c : c = place
    OBVIOUS
  <2>3. PICK P : P = Places(box)
    OBVIOUS
  <2>4. Cardinality(P \cup {c}) = Cardinality(P) + 1
    BY <1>4, <2>1, <2>2, <2>3, FS_AddElement, Zenon
  <2>. QED  BY <1>6, <2>2, <2>3, <2>4
<1>. QED  BY <1>4, <1>6, <1>7, <1>8, <1>9

LEMMA PlaceTaken ==
  ASSUME NEW box \in Boxes, NEW w \in Workers, box[w] # <<>>
  PROVE  LET next == [box EXCEPT ![w] = Tail(@)]
             was(p) == IF p[1] = w THEN <<w, p[2] + 1>> ELSE p
         IN  /\ next \in Boxes
             /\ <<w, 1>> \in Places(box) /\ At(box, <<w, 1>>) = Head(box[w])
             /\ Head(box[w]) \in Seq(Chars)
             /\ \A p \in Places(next) :
                   /\ was(p) \in Places(box) /\ was(p) # <<w, 1>>
                   /\ At(box, was(p)) = At(next, p)
             /\ \A p, q \in Places(next) : was(p) = was(q) => p = q
             /\ \A q \in Places(box) : q # <<w, 1>> =>
                   \E p \in Places(next) : q = was(p)
             /\ Cardinality(Places(box)) = Cardinality(Places(next)) + 1
<1>. DEFINE next == [box EXCEPT ![w] = Tail(@)]
            was(p) == IF p[1] = w THEN <<w, p[2] + 1>> ELSE p
            n == Len(box[w])
            S == Seq(Chars)
            first == <<w, 1>>
<1>1. box[w] \in Seq(S) /\ n \in Nat \ {0}
  BY BoxFacts, EmptySeq
<1>2. /\ Tail(box[w]) \in Seq(S) /\ Len(Tail(box[w])) = n - 1
      /\ Head(box[w]) \in S /\ Head(box[w]) = box[w][1]
      /\ \A i \in 1..(n - 1) : Tail(box[w])[i] = box[w][i + 1]
  <2>1. Head(box[w]) = box[w][1]
    <3>. HIDE DEF S
    <3>. QED  BY <1>1
  <2>. HIDE DEF S
  <2>. QED  BY <1>1, <2>1, HeadTailProperties
<1>3. /\ next \in Boxes /\ next[w] = Tail(box[w])
      /\ \A v \in Workers : v # w => next[v] = box[v]
  <2>. HIDE DEF S
  <2>. QED  BY <1>2 DEF Boxes, S
<1>. HIDE DEF next
<1>4. first \in Places(box) /\ At(box, first) = Head(box[w])
  <2>1. 1 \in 1..n
    <3>. HIDE DEF n
    <3>. QED  BY <1>1
  <2>. QED  BY <1>2, <2>1, BoxFacts DEF At
<1>5. ASSUME NEW p \in Places(next)
      PROVE  /\ was(p) \in Places(box) /\ was(p) # first
             /\ At(box, was(p)) = At(next, p)
             /\ p[1] = w => p = <<w, p[2]>> /\ p[2] \in 1..(n - 1)
  <2>1. p \in Workers \X Nat /\ p[2] \in 1..Len(next[p[1]])
        /\ p = <<p[1], p[2]>>
    BY DEF Places
  <2>2. CASE p[1] = w
    <3>1. p[2] \in 1..(n - 1)
      BY <1>2, <1>3, <2>1, <2>2
    <3>2. p[2] + 1 \in 1..n /\ p[2] + 1 # 1 /\ p[2] + 1 \in Nat
      <4>. HIDE DEF n
      <4>. QED  BY <1>1, <3>1
    <3>3. was(p) = <<w, p[2] + 1>>
      BY <2>2
    <3>4. was(p) \in Places(box) /\ was(p) # first
      BY <3>2, <3>3, BoxFacts
    <3>5. At(box, was(p)) = At(next, p)
      <4>1. At(box, was(p)) = box[w][p[2] + 1]
        BY <3>3 DEF At
      <4>2. At(next, p) = Tail(box[w])[p[2]]
        BY <1>3, <2>2 DEF At
      <4>. QED  BY <1>2, <3>1, <4>1, <4>2
    <3>. QED  BY <2>1, <2>2, <3>1, <3>4, <3>5
  <2>3. CASE p[1] # w
    <3>1. was(p) = p /\ next[p[1]] = box[p[1]] /\ p # first
      BY <1>3, <2>1, <2>3
    <3>. QED  BY <2>1, <2>3, <3>1 DEF Places, At
  <2>. QED  BY <2>2, <2>3
<1>6. ASSUME NEW p \in Places(next), NEW q \in Places(next), was(p) = was(q)
      PROVE  p = q
  <2>1. was(p)[1] = p[1] /\ was(q)[1] = q[1]
    OBVIOUS
  <2>2. p[1] = q[1]
    BY <1>6, <2>1
  <2>3. CASE p[1] = w
    <3>1. p[2] + 1 = q[2] + 1 /\ p[2] \in Nat /\ q[2] \in Nat
      BY <1>6, <2>2, <2>3 DEF Places
    <3>2. p[2] = q[2]
      BY <3>1
    <3>. QED  BY <1>5, <2>2, <2>3, <3>2
  <2>4. CASE p[1] # w
    BY <1>6, <2>2, <2>4
  <2>. QED  BY <2>3, <2>4
<1>7. ASSUME NEW q \in Places(box), q # first
      PROVE  \E p \in Places(next) : q = was(p)
  <2>1. q \in Workers \X Nat /\ q[2] \in 1..Len(box[q[1]])
        /\ q = <<q[1], q[2]>>
    BY DEF Places
  <2>2. CASE q[1] = w
    <3>1. q[2] \in 1..n /\ q[2] # 1
      BY <1>7, <2>1, <2>2
    <3>2. q[2] - 1 \in 1..(n - 1) /\ (q[2] - 1) + 1 = q[2]
      <4>. HIDE DEF n
      <4>. QED  BY <1>1, <3>1
    <3>3. <<w, q[2] - 1>> \in Places(next)
      <4>1. Len(next[w]) = n - 1
        BY <1>2, <1>3
      <4>. QED  BY <1>3, <3>2, <4>1, BoxFacts
    <3>4. was(<<w, q[2] - 1>>) = q
      BY <2>1, <2>2, <3>2
    <3>. QED  BY <3>3, <3>4
  <2>3. CASE q[1] # w
    <3>1. q \in Places(next)
      BY <1>3, <2>1, <2>3 DEF Places
    <3>. QED  BY <2>3, <3>1
  <2>. QED  BY <2>2, <2>3
<1>8. Cardinality(Places(box)) = Cardinality(Places(next)) + 1
  <2>. DEFINE f == [p \in Places(next) |-> was(p)]
              rest == Places(box) \ {first}
  <2>1. f \in Bijection(Places(next), rest)
    <3>1. \A p \in Places(next) : was(p) \in rest
      BY <1>5
    <3>2. \A q \in rest : \E p \in Places(next) : q = was(p)
      BY <1>7
    <3>3. \A p, q \in Places(next) : was(p) = was(q) => p = q
      BY <1>6
    <3>. HIDE DEF was, rest
    <3>. QED  BY <3>1, <3>2, <3>3 DEF Bijection, Injection, Surjection,
                                      IsInjective
  <2>2. IsFiniteSet(Places(next)) /\ IsFiniteSet(Places(box))
    BY <1>3, PlacesFinite
  <2>3. Cardinality(rest) = Cardinality(Places(next))
    <3>. HIDE DEF f, rest
    <3>1. ExistsBijection(Places(next), rest)
      BY <2>1 DEF ExistsBijection
    <3>. QED  BY <2>2, <3>1, FS_Bijection
  <2>4. Cardinality(rest) = Cardinality(Places(box)) - 1
    BY <1>4, <2>2, FS_RemoveElement
  <2>5. Cardinality(Places(box)) \in Nat
    BY <2>2, FS_CardinalityType
  <2>. QED  BY <2>3, <2>4, <2>5
<1>. QED  BY <1>2, <1>3, <1>4, <1>5, <1>6, <1>7, <1>8 DEF next

-----------------------------------------------------------------------------
(* The invariant *)

Refused == "refused" \in lapses

(* The lines that the first k records make, up to their last character.    *)
EndOf(k) == IF k = 0 THEN 0 ELSE 3 * k - 1

DownloadTypes ==
    /\ records \in Histories
    /\ stored \in 0..Len(records)
    /\ status \in Statuses
    /\ expected \in 0..stored
    /\ received \in Nat
    /\ inbox \in Boxes
    /\ lines \in Seq(Seq(Chars))
    /\ errorCount \in Nat
    /\ unverifiedCount \in Nat
    /\ generator \in MergedGenerators

(* Before the records are asked for there is nothing.                      *)
Untouched ==
    /\ sending = None
    /\ wire = <<>> /\ data_buf = <<>> /\ lines = <<>>
    /\ received = 0
    /\ inbox = [w \in Workers |-> <<>>]
    /\ errorCount = 0 /\ unverifiedCount = 0
    /\ generator = EmptyGenerator
    /\ ~Refused

InOrder ==
    /\ status \in {"idle", "counting", "fetching"} => Untouched
    /\ status \in {"idle", "counting"} => expected = 0
    /\ status \in {"fetching", "waiting", "polling", "downloaded"}
           => expected # 0
    /\ (expected # 0 /\ "submitted" \notin lapses) => stored = expected

(* An answer that is no stream is one line, which is of no record.         *)
MessageArrives ==
    /\ sending # None => sending.open = FALSE
    /\ \/ wire = Message /\ data_buf = <<>>
       \/ wire = <<>> /\ data_buf \in {<<>>, Message}
    /\ \A i \in 1..Len(lines) : lines[i] = Message

(* Of the first k records' text, the lines from received to l are read     *)
(* next, d characters of the line after wait for the others, and the rest  *)
(* is under way.                                                           *)
IsUnderWay(k, l, d) ==
    /\ l >= received
    /\ lines = LinesFrom(received, l - received)
    /\ data_buf = Begun(l + 1, d)
    /\ 3 * l + d <= EndOf(k)
    /\ wire = Segment(3 * l + d, EndOf(k) - (3 * l + d))

TextArrives ==
    IF sending = None
    THEN /\ wire = <<>> /\ data_buf = <<>>
         /\ \E l \in 0..stored : /\ l >= received
                                 /\ lines = LinesFrom(received, l - received)
    ELSE /\ sending \in [next : 1..(stored + 1), open : BOOLEAN]
         /\ \E l \in 0..stored : \E d \in 0..2 :
               IsUnderWay(sending.next - 1, l, d)

Arrives == IF Refused THEN MessageArrives ELSE TextArrives

IsWaiting(r) == \E p \in Places(inbox) : At(inbox, p) = Text(r)

(* Each record whose line was read waits in one place, or is one of the    *)
(* records to be downloaded, unless it was counted otherwise.              *)
TextDealt ==
    /\ \A p \in Places(inbox) : \E l \in 1..received : At(inbox, p) = Text(l)
    /\ \A p, q \in Places(inbox) : At(inbox, p) = At(inbox, q) => p = q
    /\ IsInjective(generator.unprocessed)
    /\ \A r \in Range(generator.unprocessed) :
          r \in 1..received /\ records[r].seal = "OK" /\ ~IsWaiting(r)
    /\ status \in {"waiting", "polling"} =>
          \A r \in 1..received :
             records[r].seal = "OK" =>
                r \in Range(generator.unprocessed) \/ IsWaiting(r)

MessageDealt ==
    /\ \A p \in Places(inbox) : At(inbox, p) = Message
    /\ generator.unprocessed = <<>>

Dealt == IF Refused THEN MessageDealt ELSE TextDealt

AllCounted ==
    status \in {"waiting", "polling"} =>
        received = Decided + Cardinality(Places(inbox))

HeadersFollow == Follows(generator, AnswersOf(Range(generator.unprocessed)))

DownloadInv ==
    /\ DownloadTypes
    /\ InOrder
    /\ Arrives
    /\ Dealt
    /\ AllCounted
    /\ HeadersFollow
    /\ CsvComplete
    /\ FailedMeansNone

LEMMA HistoryFacts ==
  ASSUME records \in Histories
  PROVE  DOMAIN records = 1..Len(records) /\ Len(records) \in Nat
<1>1. records \in Seq(ToSet(records))
  BY DownloadAssumption
<1>. QED  BY <1>1, LenProperties

LEMMA EmptyGeneratorFacts ==
  /\ EmptyGenerator \in MergedGenerators
  /\ EmptyGenerator.unprocessed = <<>>
  /\ \A P : Follows(EmptyGenerator, P) <=> Merged(EmptyGenerator, P)
  /\ Range(<<>>) = {} /\ Len(<<>>) = 0 /\ IsInjective(<<>>)
<1>1. Len(<<>>) = 0 /\ \A S : <<>> \in Seq(S)
  BY EmptySeq
<1>2. DOMAIN <<>> = {}
  OBVIOUS
<1>3. <<>> \in [{} -> Nat] /\ {} \in SUBSET Ids
  BY <1>2
<1>4. /\ EmptyGenerator.unprocessed = <<>>
      /\ EmptyGenerator.fieldIdToQuestion = <<>>
      /\ EmptyGenerator.fieldIdToNumCols = <<>>
  BY DEF EmptyGenerator
<1>5. \A x : x \notin 1..Len(EmptyGenerator.fieldIdToQuestion)
  BY <1>1, <1>4
<1>6. EmptyGenerator \in Generators
  <2>1. <<>> \in UNION {[D -> Nat] : D \in SUBSET Ids}
    BY <1>3
  <2>. QED  BY <1>1, <2>1 DEF EmptyGenerator, Generators
<1>7. OneEntryPerId(EmptyGenerator.fieldIdToQuestion)
  BY <1>5 DEF OneEntryPerId
<1>8. \A P : Founded(EmptyGenerator, P)
  BY <1>5 DEF Founded
<1>9. Range(<<>>) = {} /\ IsInjective(<<>>)
  BY <1>2 DEF Range, IsInjective
<1>. QED  BY <1>1, <1>4, <1>6, <1>7, <1>8, <1>9 DEF MergedGenerators, Follows

LEMMA ReceivedFromStored ==
  ASSUME DownloadInv, ~Refused
  PROVE  received <= stored
BY DEF DownloadInv, Arrives, TextArrives, IsUnderWay, DownloadTypes

(* The records to be downloaded are among those that have come.            *)
LEMMA RowsAreRecords ==
  ASSUME DownloadInv
  PROVE  Range(generator.unprocessed) \subseteq 1..stored
<1>1. CASE Refused
  BY <1>1, EmptyGeneratorFacts DEF DownloadInv, Dealt, MessageDealt
<1>2. CASE ~Refused
  <2>1. received <= stored /\ received \in Nat /\ stored \in Nat
    BY <1>2, HistoryFacts, ReceivedFromStored DEF DownloadInv, DownloadTypes
  <2>2. \A r \in Range(generator.unprocessed) : r \in 1..received
    BY <1>2 DEF DownloadInv, Dealt, TextDealt
  <2>. QED  BY <2>1, <2>2
<1>. QED  BY <1>1, <1>2

LEMMA DownloadInvIsCorrect ==
  ASSUME DownloadInv
  PROVE  ExportCorrect
<1>1. EachLineCountedOnce
  <2>1. MapThenSumSet(LAMBDA w : Len(inbox[w]), Workers)
          = Cardinality(Places(inbox))
    BY InboxTotal DEF DownloadInv, DownloadTypes
  <2>2. AllCounted
    BY DEF DownloadInv
  <2>. QED  BY <2>1, <2>2 DEF EachLineCountedOnce, AllCounted
<1>2. CsvAligned
  <2>1. records \in Histories /\ generator \in MergedGenerators
        /\ stored \in 0..Len(records)
    BY DEF DownloadInv, DownloadTypes
  <2>2. Range(generator.unprocessed) \subseteq DOMAIN records
    <3>1. Range(generator.unprocessed) \subseteq 1..stored
      BY RowsAreRecords
    <3>. QED  BY <2>1, <3>1, HistoryFacts
  <2>3. Follows(generator, AnswersOf(Range(generator.unprocessed)))
    BY DEF DownloadInv, HeadersFollow
  <2>. QED  BY <2>1, <2>2, <2>3, TableAligned
<1>. QED  BY <1>1, <1>2 DEF DownloadInv, ExportCorrect

LEMMA DownloadInvInit ==
  ASSUME Init
  PROVE  DownloadInv
<1>1. /\ records \in Histories /\ stored \in 0..Len(records)
      /\ status = "idle" /\ expected = 0 /\ received = 0
      /\ errorCount = 0 /\ unverifiedCount = 0 /\ lapses = {}
      /\ sending = None /\ wire = <<>> /\ data_buf = <<>> /\ lines = <<>>
      /\ inbox = [w \in Workers |-> <<>>] /\ generator = EmptyGenerator
  BY DEF Init
<1>2. Len(records) \in Nat
  BY <1>1, HistoryFacts
<1>3. inbox \in Boxes /\ lines \in Seq(Seq(Chars))
  BY <1>1, EmptySeq DEF Boxes
<1>4. DownloadTypes
  BY <1>1, <1>2, <1>3, EmptyGeneratorFacts DEF DownloadTypes, Statuses
<1>5. InOrder
  BY <1>1 DEF InOrder, Untouched, Refused
<1>6. Arrives
  <2>1. LinesFrom(0, 0) = <<>>
    BY LinesFacts
  <2>2. 0 \in 0..stored /\ 0 >= received /\ 0 - received = 0
    BY <1>1, <1>2
  <2>. QED  BY <1>1, <2>1, <2>2 DEF Arrives, TextArrives, Refused
<1>7. Places(inbox) = {} /\ Cardinality(Places(inbox)) = 0
  BY <1>1, <1>3, NoPlaces
<1>8. Dealt
  BY <1>1, <1>7, EmptyGeneratorFacts DEF Dealt, TextDealt, Refused
<1>9. HeadersFollow
  <2>1. Merged(EmptyGenerator, AnswersOf({}))
    BY DEF Merged, AnswersOf
  <2>. QED  BY <1>1, <2>1, EmptyGeneratorFacts DEF HeadersFollow
<1>10. AllCounted /\ CsvComplete /\ FailedMeansNone
  BY <1>1 DEF AllCounted, CsvComplete, FailedMeansNone
<1>. QED  BY <1>4, <1>5, <1>6, <1>8, <1>9, <1>10 DEF DownloadInv

-----------------------------------------------------------------------------
(* The steps.  Most of them leave alone what has arrived, or what was      *)
(* counted, or both.                                                       *)

Awaiting == status \in {"waiting", "polling"}

LEMMA DownloadFacts ==
  ASSUME DownloadInv
  PROVE  /\ records \in Histories /\ DOMAIN records = 1..Len(records)
         /\ Len(records) \in Nat /\ stored \in Nat /\ stored <= Len(records)
         /\ expected \in Nat /\ expected <= stored
         /\ received \in Nat /\ inbox \in Boxes
         /\ lines \in Seq(Seq(Chars))
         /\ errorCount \in Nat /\ unverifiedCount \in Nat
         /\ generator \in MergedGenerators
         /\ generator.unprocessed \in Seq(Nat)
         /\ Len(generator.unprocessed) \in Nat
         /\ Cardinality(Places(inbox)) \in Nat
<1>1. records \in Histories /\ inbox \in Boxes /\ generator \in MergedGenerators
  BY DEF DownloadInv, DownloadTypes
<1>2. generator.unprocessed \in Seq(Nat)
  BY <1>1 DEF MergedGenerators, Generators
<1>3. Len(generator.unprocessed) \in Nat
  BY <1>2, LenProperties
<1>4. DOMAIN records = 1..Len(records) /\ Len(records) \in Nat
  BY <1>1, HistoryFacts
<1>5. Cardinality(Places(inbox)) \in Nat
  BY <1>1, NoPlaces
<1>. QED  BY <1>1, <1>2, <1>3, <1>4, <1>5 DEF DownloadInv, DownloadTypes

LEMMA NoneIsNoRecord ==
  ASSUME NEW next \in Nat, NEW open \in BOOLEAN
  PROVE  [next |-> next, open |-> open] # None
BY DownloadAssumption

LEMMA GeneratorsKept ==
  ASSUME records' = records
  PROVE  MergedGenerators' = MergedGenerators
BY DEF MergedGenerators, Generators, Entries, Ids, AllAnswers

LEMMA HeadersKept ==
  ASSUME HeadersFollow, UNCHANGED <<records, generator>>
  PROVE  HeadersFollow'
<1>1. records' = records /\ generator' = generator
  OBVIOUS
<1>2. PICK P : /\ P = AnswersOf(Range(generator.unprocessed))
               /\ Follows(generator, P)
  BY DEF HeadersFollow
<1>3. AnswersOf(Range(generator.unprocessed))' = P
  BY <1>1, <1>2 DEF AnswersOf
<1>4. OneEntryPerId(generator.fieldIdToQuestion)'
  BY <1>1, <1>2 DEF Follows, OneEntryPerId
<1>5. Merged(generator, P)'
  <2>1. Merged(generator, P)
    BY <1>2 DEF Follows
  <2>. QED  BY <1>1, <2>1 DEF Merged, IsQuestion
<1>6. Founded(generator, P)'
  <2>1. Founded(generator, P)
    BY <1>2 DEF Follows
  <2>. QED  BY <1>1, <2>1 DEF Founded, IsQuestion
<1>. QED  BY <1>3, <1>4, <1>5, <1>6 DEF HeadersFollow, Follows

(* What was dealt and counted stays, if nothing is dealt and counted.      *)
LEMMA CountedKept ==
  ASSUME DownloadInv,
         UNCHANGED <<records, received, inbox, resultVars>>,
         Refused' <=> Refused,
         Awaiting' => Awaiting \/ Untouched
  PROVE  Dealt' /\ AllCounted' /\ HeadersFollow'
<1>1. /\ records' = records /\ received' = received /\ inbox' = inbox
      /\ errorCount' = errorCount /\ unverifiedCount' = unverifiedCount
      /\ generator' = generator
  BY DEF resultVars
<1>2. HeadersFollow'
  BY <1>1, HeadersKept DEF DownloadInv
<1>3. Untouched => /\ received = 0 /\ Places(inbox) = {}
                   /\ Cardinality(Places(inbox)) = 0 /\ Decided = 0
  <2>1. SUFFICES ASSUME Untouched
                 PROVE  /\ received = 0 /\ Places(inbox) = {}
                        /\ Cardinality(Places(inbox)) = 0 /\ Decided = 0
    OBVIOUS
  <2>2. Places(inbox) = {} /\ Cardinality(Places(inbox)) = 0
    BY <2>1, DownloadFacts, NoPlaces DEF Untouched
  <2>3. Decided = 0
    BY <2>1, EmptyGeneratorFacts DEF Untouched, Decided, successCount
  <2>. QED  BY <2>1, <2>2, <2>3 DEF Untouched
<1>4. AllCounted'
  <2>1. Awaiting => received = Decided + Cardinality(Places(inbox))
    BY DEF DownloadInv, AllCounted, Awaiting
  <2>2. Decided' = Decided /\ Places(inbox)' = Places(inbox)
    BY <1>1 DEF Decided, successCount
  <2>3. Awaiting' => received = Decided + Cardinality(Places(inbox))
    BY <1>3, <2>1
  <2>. QED  BY <1>1, <2>2, <2>3 DEF AllCounted, Awaiting
<1>5. Dealt'
  <2>1. CASE Refused
    <3>1. MessageDealt
      BY <2>1 DEF DownloadInv, Dealt
    <3>2. MessageDealt'
      BY <1>1, <3>1 DEF MessageDealt, At
    <3>. QED  BY <2>1, <3>2 DEF Dealt
  <2>2. CASE ~Refused
    <3>1. TextDealt
      BY <2>2 DEF DownloadInv, Dealt
    <3>2. \A r : IsWaiting(r)' <=> IsWaiting(r)
      BY <1>1 DEF IsWaiting, At
    <3>3. Awaiting' => \A r \in 1..received :
                          records[r].seal = "OK" =>
                             r \in Range(generator.unprocessed) \/ IsWaiting(r)
      <4>1. Untouched => 1..received = {}
        BY <1>3
      <4>2. Awaiting => \A r \in 1..received :
                          records[r].seal = "OK" =>
                             r \in Range(generator.unprocessed) \/ IsWaiting(r)
        BY <3>1 DEF TextDealt, Awaiting
      <4>. QED  BY <4>1, <4>2
    <3>4. TextDealt'
      BY <1>1, <3>1, <3>2, <3>3 DEF TextDealt, At, Awaiting
    <3>. QED  BY <2>2, <3>4 DEF Dealt
  <2>. QED  BY <2>1, <2>2
<1>. QED  BY <1>2, <1>4, <1>5

LEMMA IntervalsGrow ==
  ASSUME NEW m \in Nat, NEW n \in Nat, m <= n
  PROVE  0..m \subseteq 0..n /\ 1..(m + 1) \subseteq 1..(n + 1)
OBVIOUS

(* What has arrived stays, if nothing is sent, arrives or is read.         *)
LEMMA ArrivedKept ==
  ASSUME DownloadInv, UNCHANGED <<sending, wire, streamVars, received>>,
         stored' \in Nat, stored <= stored', Refused' <=> Refused
  PROVE  Arrives'
<1>1. /\ sending' = sending /\ wire' = wire /\ data_buf' = data_buf
      /\ lines' = lines /\ received' = received
  BY DEF streamVars
<1>2. stored \in Nat /\ 0..stored \subseteq 0..stored'
      /\ 1..(stored + 1) \subseteq 1..(stored' + 1)
  <2>1. stored \in Nat
    BY DownloadFacts
  <2>. QED  BY <2>1, IntervalsGrow
<1>3. CASE Refused
  <2>1. MessageArrives
    BY <1>3 DEF DownloadInv, Arrives
  <2>2. MessageArrives'
    BY <1>1, <2>1 DEF MessageArrives
  <2>. QED  BY <1>3, <2>2 DEF Arrives
<1>4. CASE ~Refused
  <2>1. TextArrives
    BY <1>4 DEF DownloadInv, Arrives
  <2>2. TextArrives'
    BY <1>1, <1>2, <2>1 DEF TextArrives, IsUnderWay
  <2>. QED  BY <1>4, <2>2 DEF Arrives
<1>. QED  BY <1>3, <1>4

LEMMA SubmitKeepsInv ==
  ASSUME DownloadInv, Submit
  PROVE  DownloadInv'
<1>1. /\ stored < Len(records) /\ stored' = stored + 1
      /\ lapses' = IF expected = 0 THEN lapses ELSE lapses \cup {"submitted"}
      /\ UNCHANGED <<records, status, expected, sending, wire, streamVars,
                     received, inbox, resultVars>>
      /\ lines' = lines /\ data_buf' = data_buf
      /\ errorCount' = errorCount /\ unverifiedCount' = unverifiedCount
      /\ generator' = generator
  BY DEF Submit, poolVars, streamVars, resultVars
<1>2. Refused' <=> Refused
  BY <1>1 DEF Refused
<1>3. DownloadTypes'
  BY <1>1, DownloadFacts, GeneratorsKept DEF DownloadInv, DownloadTypes
<1>4. InOrder'
  BY <1>1, <1>2 DEF DownloadInv, InOrder, Untouched
<1>5. Dealt' /\ AllCounted' /\ HeadersFollow'
  BY <1>1, <1>2, CountedKept DEF Awaiting
<1>6. Arrives'
  BY <1>1, <1>2, DownloadFacts, ArrivedKept
<1>7. CsvComplete' /\ FailedMeansNone'
  BY <1>1 DEF DownloadInv, CsvComplete, FailedMeansNone, successCount
<1>. QED  BY <1>3, <1>4, <1>5, <1>6, <1>7 DEF DownloadInv

(* The steps up to the answer of the server.                               *)
LEMMA EarlyStepKeepsInv ==
  ASSUME DownloadInv, ExportCsv \/ Count \/ CountFails \/ OpenStream
  PROVE  DownloadInv'
<1>0. UNCHANGED <<records, stored, wire, streamVars, poolVars, resultVars,
                  lapses>>
  BY DEF ExportCsv, Count, CountFails, OpenStream, serverVars
<1>1. /\ UNCHANGED <<records, received, inbox, resultVars>>
      /\ stored' = stored /\ wire' = wire /\ lapses' = lapses
      /\ lines' = lines /\ data_buf' = data_buf /\ received' = received
      /\ errorCount' = errorCount /\ unverifiedCount' = unverifiedCount
      /\ generator' = generator /\ inbox' = inbox
  BY <1>0 DEF poolVars, streamVars, resultVars
<1>2. Refused' <=> Refused
  BY <1>1 DEF Refused
<1>3. status \in {"idle", "counting", "fetching"} /\ Untouched
  BY DEF DownloadInv, InOrder, ExportCsv, Count, CountFails, OpenStream
<1>4. Dealt' /\ AllCounted' /\ HeadersFollow'
  BY <1>1, <1>2, <1>3, CountedKept
<1>5. status' # "downloaded" /\ (status' = "failed" => successCount' = 0)
  <2>1. successCount' = 0
    BY <1>1, <1>3, EmptyGeneratorFacts DEF Untouched, successCount
  <2>2. status' # "downloaded"
    BY DEF ExportCsv, Count, CountFails, OpenStream
  <2>. QED  BY <2>1, <2>2
<1>6. CsvComplete' /\ FailedMeansNone'
  BY <1>5 DEF CsvComplete, FailedMeansNone
<1>7. DownloadTypes' /\ InOrder' /\ Arrives'
  <2>1. CASE OpenStream
    <3>1. /\ status = "fetching" /\ sending' = [next |-> 1, open |-> TRUE]
          /\ status' = "waiting" /\ expected' = expected
      BY <2>1 DEF OpenStream
    <3>2. DownloadTypes'
      BY <1>1, <3>1, GeneratorsKept DEF DownloadInv, DownloadTypes, Statuses
    <3>3. InOrder'
      BY <1>1, <3>1 DEF DownloadInv, InOrder
    <3>4. TextArrives'
      <4>1. sending' # None
        BY <3>1, NoneIsNoRecord
      <4>2. stored \in Nat /\ 0 \in 0..stored /\ 1 \in 1..(stored + 1)
        BY DownloadFacts
      <4>3. LinesFrom(0, 0) = <<>> /\ Begun(0 + 1, 0) = <<>>
            /\ Segment(3 * 0, 0) = <<>>
        BY LinesFacts, BegunTexts, TextSegments
      <4>4. /\ received' = 0 /\ lines' = <<>> /\ data_buf' = <<>> /\ wire' = <<>>
            /\ sending'.next - 1 = 0
            /\ sending' \in [next : 1..(stored' + 1), open : BOOLEAN]
        BY <1>1, <1>3, <3>1, <4>2 DEF Untouched
      <4>5. IsUnderWay(0, 0, 0)'
        <5>1. EndOf(0) = 0
          BY DEF EndOf
        <5>. QED  BY <4>3, <4>4, <5>1 DEF IsUnderWay
      <4>. QED  BY <1>1, <4>1, <4>2, <4>4, <4>5 DEF TextArrives
    <3>. QED  BY <1>2, <1>3, <3>2, <3>3, <3>4 DEF Arrives, Untouched
  <2>2. CASE ExportCsv \/ Count \/ CountFails
    <3>1. sending' = sending
      BY <2>2 DEF ExportCsv, Count, CountFails, serverVars
    <3>2. DownloadTypes'
      BY <1>1, <2>2, DownloadFacts, GeneratorsKept
      DEF DownloadInv, DownloadTypes, Statuses, ExportCsv, Count, CountFails
    <3>3. Untouched'
      BY <1>1, <1>2, <1>3, <3>1 DEF Untouched
    <3>4. InOrder'
      <4>1. CASE ExportCsv
        BY <1>1, <3>3, <4>1 DEF DownloadInv, InOrder, ExportCsv
      <4>2. CASE Count
        BY <1>1, <3>3, <4>2 DEF DownloadInv, InOrder, Count
      <4>3. CASE CountFails
        BY <1>1, <3>3, <4>3 DEF DownloadInv, InOrder, CountFails
      <4>. QED  BY <2>2, <4>1, <4>2, <4>3
    <3>5. Arrives'
      BY <1>1, <1>2, <3>1, DownloadFacts, ArrivedKept DEF streamVars
    <3>. QED  BY <3>2, <3>4, <3>5
  <2>. QED  BY <2>1, <2>2
<1>. QED  BY <1>4, <1>6, <1>7 DEF DownloadInv

LEMMA RefuseKeepsInv ==
  ASSUME DownloadInv, RefuseStream
  PROVE  DownloadInv'
<1>1. /\ status = "fetching" /\ sending' = [next |-> 1, open |-> FALSE]
      /\ wire' = Message /\ status' = "waiting"
      /\ lapses' = lapses \cup {"refused"}
      /\ UNCHANGED <<records, stored, received, inbox, expected>>
      /\ lines' = lines /\ data_buf' = data_buf
      /\ errorCount' = errorCount /\ unverifiedCount' = unverifiedCount
      /\ generator' = generator
  BY DEF RefuseStream, poolVars, streamVars, resultVars
<1>2. Untouched /\ Refused'
  BY <1>1 DEF DownloadInv, InOrder, Refused
<1>3. DownloadTypes'
  BY <1>1, GeneratorsKept DEF DownloadInv, DownloadTypes, Statuses
<1>4. InOrder'
  BY <1>1 DEF DownloadInv, InOrder
<1>5. Arrives'
  <2>1. MessageArrives'
    BY <1>1, <1>2, EmptyGeneratorFacts DEF MessageArrives, Untouched
  <2>. QED  BY <1>2, <2>1 DEF Arrives
<1>6. Places(inbox) = {} /\ Cardinality(Places(inbox)) = 0
  BY <1>2, DownloadFacts, NoPlaces DEF Untouched
<1>7. Dealt'
  <2>1. MessageDealt'
    BY <1>1, <1>2, <1>6, EmptyGeneratorFacts DEF MessageDealt, Untouched
  <2>. QED  BY <1>2, <2>1 DEF Dealt
<1>8. AllCounted'
  <2>1. Decided' = 0 /\ received' = 0
    BY <1>1, <1>2, EmptyGeneratorFacts DEF Untouched, Decided, successCount
  <2>. QED  BY <1>1, <1>6, <2>1 DEF AllCounted
<1>9. HeadersFollow'
  BY <1>1, HeadersKept DEF DownloadInv
<1>10. CsvComplete' /\ FailedMeansNone'
  BY <1>1 DEF CsvComplete, FailedMeansNone
<1>. QED  BY <1>3, <1>4, <1>5, <1>7, <1>8, <1>9, <1>10 DEF DownloadInv

(* The steps that change nothing in the page.                              *)
LEMMA SentKeepsInv ==
  ASSUME DownloadInv, Arrives',
         UNCHANGED <<records, stored, status, expected, streamVars, poolVars,
                     resultVars>>,
         lapses' \in {lapses, lapses \cup {"lagging"}},
         sending # None
  PROVE  DownloadInv'
<1>1. /\ UNCHANGED <<records, received, inbox, resultVars>>
      /\ stored' = stored /\ status' = status /\ expected' = expected
      /\ lines' = lines /\ data_buf' = data_buf /\ received' = received
      /\ errorCount' = errorCount /\ unverifiedCount' = unverifiedCount
      /\ generator' = generator /\ inbox' = inbox /\ records' = records
  BY DEF poolVars, streamVars, resultVars
<1>2. (Refused' <=> Refused) /\ ("submitted" \in lapses' <=> "submitted" \in lapses)
      /\ (lapses' = {} => lapses = {})
  BY DEF Refused
<1>3. DownloadTypes'
  BY <1>1, GeneratorsKept DEF DownloadInv, DownloadTypes
<1>4. InOrder'
  BY <1>1, <1>2 DEF DownloadInv, InOrder, Untouched
<1>5. Dealt' /\ AllCounted' /\ HeadersFollow'
  BY <1>1, <1>2, CountedKept DEF Awaiting
<1>6. CsvComplete' /\ FailedMeansNone'
  BY <1>1, <1>2 DEF DownloadInv, CsvComplete, FailedMeansNone, successCount
<1>. QED  BY <1>3, <1>4, <1>5, <1>6 DEF DownloadInv

LEMMA SendKeepsInv ==
  ASSUME DownloadInv, SendRecord
  PROVE  DownloadInv'
<1>1. /\ sending # None /\ sending.open /\ sending.next <= stored
      /\ wire' = wire \o (IF sending.next = 1 THEN <<>> ELSE <<Newline>>)
                      \o Text(sending.next)
      /\ sending' = [sending EXCEPT !.next = @ + 1]
      /\ UNCHANGED <<records, stored, status, expected, streamVars, poolVars,
                     resultVars, lapses>>
      /\ lines' = lines /\ data_buf' = data_buf /\ received' = received
      /\ stored' = stored
  BY DEF SendRecord, streamVars, poolVars
<1>2. (Refused' <=> Refused) /\ ~Refused
  BY <1>1 DEF Refused, DownloadInv, Arrives, MessageArrives
<1>3. sending \in [next : 1..(stored + 1), open : BOOLEAN]
  BY <1>1, <1>2 DEF DownloadInv, Arrives, TextArrives
<1>4. PICK l \in 0..stored, d \in 0..2 : IsUnderWay(sending.next - 1, l, d)
  BY <1>1, <1>2 DEF DownloadInv, Arrives, TextArrives
<1>5. PICK k \in Nat : sending.next = k + 1
  <2>1. sending.next - 1 \in Nat /\ sending.next = (sending.next - 1) + 1
    BY <1>3
  <2>. QED  BY <2>1
<1>. DEFINE a == 3 * l + d
            m == EndOf(k) - a
<1>6. /\ stored \in Nat /\ k + 1 <= stored /\ sending.next - 1 = k
       /\ l \in Nat /\ d \in Nat /\ IsUnderWay(k, l, d)
  <2>1. sending.next - 1 = k /\ stored \in Nat
    BY <1>5, DownloadFacts
  <2>2. IsUnderWay(k, l, d)
    BY <1>4, <2>1
  <2>. QED  BY <1>1, <1>5, <2>1, <2>2
<1>7. /\ a <= EndOf(k) /\ wire = Segment(a, m) /\ a \in Nat
      /\ EndOf(k) \in Nat /\ m \in Nat
  <2>1. EndOf(k) \in Nat
    <3>. HIDE DEF a
    <3>. QED  BY <1>5, <1>6 DEF EndOf
  <2>2. a <= EndOf(k) /\ wire = Segment(a, m)
    BY <1>6 DEF IsUnderWay
  <2>. QED  BY <1>5, <1>6, <2>1, <2>2
<1>8. /\ sending' = [next |-> k + 2, open |-> sending.open]
      /\ sending' \in [next : 1..(stored + 1), open : BOOLEAN]
      /\ sending' # None /\ sending'.next - 1 = k + 1
  <2>1. sending' = [next |-> k + 2, open |-> sending.open]
    <3>1. sending.next + 1 = k + 2
      <4>. HIDE DEF a
      <4>. QED  BY <1>5, <1>6
    <3>. HIDE DEF a
    <3>. QED  BY <1>1, <1>3, <3>1
  <2>2. k + 2 \in 1..(stored + 1) /\ k + 2 \in Nat /\ (k + 2) - 1 = k + 1
    <3>. HIDE DEF a
    <3>. QED  BY <1>5, <1>6
  <2>3. sending.open \in BOOLEAN
    BY <1>3
  <2>. HIDE DEF a
  <2>. QED  BY <2>1, <2>2, <2>3, NoneIsNoRecord
<1>9. wire' = Segment(a, EndOf(k + 1) - a) /\ a <= EndOf(k + 1)
  <2>1. \A x, y, z \in Nat :
           Segment(x, y) \o Segment(x + y, z) = Segment(x, y + z)
    BY SegmentsJoined
  <2>2. 1 \in Nat /\ 2 \in Nat
    OBVIOUS
  <2>3. Text(k + 1) = Segment(3 * k, 2) /\ EndOf(k + 1) = 3 * k + 2
    BY <1>5, <1>6, TextSegments DEF EndOf
  <2>4. CASE k = 0
    <3>1. a = 0 /\ m = 0 /\ EndOf(k) = 0
      <4>1. EndOf(k) = 0
        BY <2>4 DEF EndOf
      <4>. HIDE DEF a
      <4>. QED  BY <1>7, <4>1
    <3>2. wire = <<>>
      BY <1>7, <3>1, SegmentType, EmptySeq
    <3>3. wire' = Text(1)
      <4>1. Text(1) \in Seq(Chars)
        BY TextFacts
      <4>. QED  BY <1>1, <1>5, <1>6, <2>4, <3>2, <4>1, EmptySeq, ConcatEmptySeq
    <3>. HIDE DEF a, m
    <3>. QED  BY <2>3, <2>4, <3>1, <3>3
  <2>5. CASE k # 0
    <3>1. EndOf(k) = 3 * k - 1 /\ a + m = 3 * k - 1 /\ k - 1 \in Nat
      <4>. HIDE DEF a
      <4>. QED  BY <1>5, <1>6, <1>7, <2>5 DEF EndOf
    <3>2. <<Newline>> = Segment(3 * k - 1, 1)
      <4>1. 3 * (k - 1) + 2 = 3 * k - 1
        BY <1>5, <1>6
      <4>. QED  BY <3>1, <4>1, TextSegments
    <3>3. wire' = (wire \o <<Newline>>) \o Text(k + 1)
      <4>1. sending.next # 1 /\ sending.next = k + 1
        BY <1>5, <1>6, <2>5
      <4>. QED  BY <1>1, <4>1
    <3>4. wire \o <<Newline>> = Segment(a, m + 1)
      <4>. HIDE DEF a, m
      <4>1. Segment(a + m, 1) = <<Newline>>
        BY <3>1, <3>2
      <4>2. Segment(a, m) \o Segment(a + m, 1) = Segment(a, m + 1)
        <5>1. a \in Nat /\ m \in Nat /\ 1 \in Nat
          BY <1>7
        <5>. QED  BY <5>1, SegmentsJoined
      <4>. QED  BY <1>7, <4>1, <4>2
    <3>5. Segment(a, m + 1) \o Segment(3 * k, 2) = Segment(a, m + 3)
      <4>1. a + (m + 1) = 3 * k /\ (m + 1) + 2 = m + 3 /\ m + 1 \in Nat
        <5>. HIDE DEF a, m
        <5>. QED  BY <1>5, <1>6, <1>7, <3>1
      <4>. HIDE DEF a, m
      <4>2. Segment(a, m + 1) \o Segment(a + (m + 1), 2)
              = Segment(a, (m + 1) + 2)
        <5>1. a \in Nat /\ m + 1 \in Nat /\ 2 \in Nat
          BY <1>7, <4>1
        <5>. QED  BY <5>1, SegmentsJoined
      <4>. QED  BY <4>1, <4>2
    <3>6. m + 3 = (3 * k + 2) - a /\ a <= 3 * k + 2
      <4>. HIDE DEF a, m
      <4>. QED  BY <1>5, <1>6, <1>7, <3>1
    <3>. HIDE DEF a, m
    <3>. QED  BY <2>3, <3>3, <3>4, <3>5, <3>6
  <2>. QED  BY <2>4, <2>5
<1>10. IsUnderWay(k + 1, l, d)'
  <2>1. /\ l >= received' /\ lines' = LinesFrom(received', l - received')
        /\ data_buf' = Begun(l + 1, d)
    BY <1>1, <1>4 DEF IsUnderWay
  <2>. QED  BY <1>9, <2>1 DEF IsUnderWay
<1>11. Arrives'
  <2>1. IsUnderWay(sending.next - 1, l, d)'
    BY <1>8, <1>10 DEF IsUnderWay
  <2>2. TextArrives'
    BY <1>1, <1>8, <2>1 DEF TextArrives
  <2>. QED  BY <1>2, <2>2 DEF Arrives
<1>. QED  BY <1>1, <1>11, SentKeepsInv

LEMMA EndKeepsInv ==
  ASSUME DownloadInv, EndStream \/ EndStreamEarly
  PROVE  DownloadInv'
<1>1. /\ sending # None /\ sending.open
      /\ sending' = [sending EXCEPT !.open = FALSE]
      /\ lapses' \in {lapses, lapses \cup {"lagging"}}
      /\ UNCHANGED <<records, stored, status, expected, streamVars, poolVars,
                     resultVars>>
      /\ lines' = lines /\ data_buf' = data_buf /\ received' = received
      /\ stored' = stored /\ wire' = wire
  BY DEF EndStream, EndStreamEarly, streamVars, poolVars
<1>2. (Refused' <=> Refused) /\ ~Refused
  BY <1>1 DEF Refused, DownloadInv, Arrives, MessageArrives
<1>3. sending \in [next : 1..(stored + 1), open : BOOLEAN]
  BY <1>1, <1>2 DEF DownloadInv, Arrives, TextArrives
<1>4. PICK l \in 0..stored, d \in 0..2 : IsUnderWay(sending.next - 1, l, d)
  BY <1>1, <1>2 DEF DownloadInv, Arrives, TextArrives
<1>5. /\ sending' \in [next : 1..(stored' + 1), open : BOOLEAN]
      /\ sending'.next = sending.next /\ sending' # None
  <2>1. sending' = [next |-> sending.next, open |-> FALSE]
        /\ sending.next \in 1..(stored + 1)
    BY <1>1, <1>3
  <2>2. sending.next \in Nat
    BY <2>1, DownloadFacts
  <2>. QED  BY <1>1, <2>1, <2>2, NoneIsNoRecord
<1>6. IsUnderWay(sending.next - 1, l, d)'
  BY <1>1, <1>4, <1>5 DEF IsUnderWay
<1>7. Arrives'
  <2>1. TextArrives'
    BY <1>1, <1>5, <1>6 DEF TextArrives
  <2>. QED  BY <1>2, <2>1 DEF Arrives
<1>. QED  BY <1>1, <1>7, SentKeepsInv

(* The steps that bring lines, and read none.                              *)
LEMMA ArrivalKeepsInv ==
  ASSUME DownloadInv, Arrives', lines' \in Seq(Seq(Chars)),
         UNCHANGED <<records, stored, status, expected, poolVars, resultVars,
                     lapses>>,
         Awaiting
  PROVE  DownloadInv'
<1>1. /\ UNCHANGED <<records, received, inbox, resultVars>>
      /\ stored' = stored /\ status' = status /\ expected' = expected
      /\ received' = received /\ lapses' = lapses
      /\ errorCount' = errorCount /\ unverifiedCount' = unverifiedCount
      /\ generator' = generator /\ inbox' = inbox /\ records' = records
  BY DEF poolVars, resultVars
<1>2. Refused' <=> Refused
  BY <1>1 DEF Refused
<1>3. DownloadTypes'
  BY <1>1, GeneratorsKept DEF DownloadInv, DownloadTypes
<1>4. InOrder'
  BY <1>1 DEF DownloadInv, InOrder, Awaiting
<1>5. Dealt' /\ AllCounted' /\ HeadersFollow'
  BY <1>1, <1>2, CountedKept DEF Awaiting
<1>6. CsvComplete' /\ FailedMeansNone'
  BY <1>1 DEF DownloadInv, CsvComplete, FailedMeansNone, successCount
<1>. QED  BY <1>3, <1>4, <1>5, <1>6 DEF DownloadInv

LEMMA MessageSplit ==
  Split(Message) = [ended |-> <<>>, rest |-> Message]
<1>1. Message \in Seq(Chars) /\ Len(Message) = 1
      /\ Message[1] = <<None, "message">>
  BY TextFacts
<1>2. PICK h : /\ h[0] = Unsplit
               /\ \A k \in 1..1 : h[k] = SplitAt(h[k - 1], Message[k])
               /\ Split(Message) = h[1]
  BY <1>1, SplitSteps
<1>3. h[1] = SplitAt(Unsplit, <<None, "message">>)
  <2>1. 1 \in 1..1 /\ 1 - 1 = 0
    OBVIOUS
  <2>. QED  BY <1>1, <1>2, <2>1
<1>4. <<None, "message">> # Newline
  BY DEF Newline
<1>5. Append(<<>>, <<None, "message">>) = Message
  BY DEF Message
<1>6. SplitAt(Unsplit, <<None, "message">>) = [ended |-> <<>>, rest |-> Message]
  BY <1>4, <1>5 DEF SplitAt, Unsplit
<1>. QED  BY <1>2, <1>3, <1>6

LEMMA ReceiveChunkKeepsInv ==
  ASSUME DownloadInv, ReceiveChunk
  PROVE  DownloadInv'
<1>1. PICK n \in 1..Len(wire) :
         LET split == Split(Buffered(SubSeq(wire, 1, n)))
         IN  /\ wire' = SubSeq(wire, n + 1, Len(wire))
             /\ lines' = lines \o split.ended
             /\ data_buf' = split.rest
  BY DEF ReceiveChunk
<1>2. /\ Awaiting /\ UNCHANGED <<records, stored, sending, poolVars, resultVars,
                                 status, expected, lapses>>
      /\ stored' = stored /\ sending' = sending /\ received' = received
      /\ lapses' = lapses
  BY DEF ReceiveChunk, Awaiting, poolVars
<1>3. lines \in Seq(Seq(Chars))
  BY DownloadFacts
<1>4. CASE Refused
  <2>1. MessageArrives /\ Len(<<>>) = 0
    BY <1>4, EmptySeq DEF DownloadInv, Arrives
  <2>2. wire = Message /\ data_buf = <<>>
    BY <2>1 DEF MessageArrives
  <2>3. Len(wire) = 1 /\ n = 1 /\ Message \in Seq(Chars)
    BY <2>2, TextFacts
  <2>4. SubSeq(wire, 1, 1) = Message /\ SubSeq(wire, 1 + 1, 1) = <<>>
    <3>1. SubSeq(Message, 1, Len(Message)) = Message
      BY <2>3, SubSeqFull
    <3>2. SubSeq(Message, 2, 1) = <<>>
      BY SubSeqEmpty
    <3>. QED  BY <2>2, <2>3, <3>1, <3>2
  <2>5. <<>> \o Message = Message /\ lines \o <<>> = lines
    BY <1>3, <2>3, ConcatEmptySeq
  <2>6. Buffered(SubSeq(wire, 1, n)) = Message
    BY <2>2, <2>3, <2>4, <2>5 DEF Buffered
  <2>7. wire' = <<>> /\ lines' = lines /\ data_buf' = Message
    <3>1. Split(Buffered(SubSeq(wire, 1, n))).ended = <<>>
          /\ Split(Buffered(SubSeq(wire, 1, n))).rest = Message
      BY <2>6, MessageSplit
    <3>2. wire' = SubSeq(wire, 1 + 1, 1)
      BY <1>1, <2>3
    <3>3. lines' = lines \o <<>> /\ data_buf' = Message
      BY <1>1, <3>1
    <3>. QED  BY <2>4, <2>5, <3>2, <3>3
  <2>8. MessageArrives'
    BY <1>2, <2>1, <2>7 DEF MessageArrives
  <2>9. Arrives'
    BY <1>2, <1>4, <2>8 DEF Arrives, Refused
  <2>. QED  BY <1>2, <1>3, <2>7, <2>9, ArrivalKeepsInv
<1>5. CASE ~Refused
  <2>1. TextArrives
    BY <1>5 DEF DownloadInv, Arrives
  <2>2. sending # None
    <3>1. ASSUME wire = <<>>
          PROVE  FALSE
      <4>1. Len(wire) = 0
        BY <3>1, EmptySeq
      <4>. QED  BY <4>1
    <3>. QED  BY <2>1, <3>1 DEF TextArrives
  <2>3. PICK l \in 0..stored, d \in 0..2 : IsUnderWay(sending.next - 1, l, d)
    BY <2>1, <2>2 DEF TextArrives
  <2>4. sending \in [next : 1..(stored + 1), open : BOOLEAN]
    BY <2>1, <2>2 DEF TextArrives
  <2>5. PICK k \in 0..stored : k = sending.next - 1
    <3>1. stored \in Nat
      BY DownloadFacts
    <3>. QED  BY <2>4, <3>1
  <2>. DEFINE a == 3 * l + d
              m == EndOf(k) - a
              q == (d + n) \div 3
              e == (d + n) % 3
  <2>6. /\ l >= received /\ lines = LinesFrom(received, l - received)
        /\ data_buf = Begun(l + 1, d)
        /\ a <= EndOf(k) /\ wire = Segment(a, m)
    BY <2>3, <2>5 DEF IsUnderWay
  <2>7. /\ stored \in Nat /\ received \in Nat /\ l \in Nat /\ d \in Nat
        /\ k \in Nat /\ a \in Nat /\ l - received \in Nat
    <3>1. stored \in Nat /\ received \in Nat
      BY DownloadFacts
    <3>2. l \in Nat /\ d \in Nat /\ k \in Nat
      BY <3>1
    <3>3. l >= received
      BY <2>6
    <3>. QED  BY <3>1, <3>2, <3>3
  <2>8. EndOf(k) \in Nat /\ EndOf(k) <= 3 * k /\ m \in Nat
    <3>1. EndOf(k) \in Nat /\ EndOf(k) <= 3 * k
      BY <2>7 DEF EndOf
    <3>. HIDE DEF a
    <3>. QED  BY <2>6, <2>7, <3>1
  <2>9. Len(wire) = m /\ n \in 1..m
    <3>. HIDE DEF a, m
    <3>. QED  BY <2>6, <2>7, <2>8, SegmentType
  <2>10. wire' = Segment(a + n, m - n)
    <3>1. SubSeq(Segment(a, m), n + 1, Len(Segment(a, m)))
            = Segment(a + n, m - n)
      <4>1. a \in Nat /\ m \in Nat /\ n \in 1..m
        BY <2>7, <2>8, <2>9
      <4>. HIDE DEF a, m
      <4>. QED  BY <4>1, SegmentCut
    <3>. HIDE DEF a, m
    <3>. QED  BY <1>1, <2>6, <3>1
  <2>11. Split(Buffered(SubSeq(wire, 1, n)))
           = [ended |-> LinesFrom(l, q), rest |-> Begun(l + q + 1, e)]
    <3>1. Split(Begun(l + 1, d) \o SubSeq(Segment(3 * l + d, m), 1, n))
            = [ended |-> LinesFrom(l, q), rest |-> Begun(l + q + 1, e)]
      <4>1. l \in Nat /\ d \in 0..2 /\ m \in Nat /\ n \in 1..m
        BY <2>7, <2>8, <2>9
      <4>. HIDE DEF m
      <4>. QED  BY <4>1, ChunkSplit
    <3>. HIDE DEF m, q, e
    <3>. QED  BY <2>6, <3>1 DEF Buffered
  <2>12. lines' = LinesFrom(received, l - received) \o LinesFrom(l, q)
         /\ data_buf' = Begun(l + q + 1, e)
    <3>. HIDE DEF q, e
    <3>. DEFINE split == Split(Buffered(SubSeq(wire, 1, n)))
    <3>1. lines' = lines \o split.ended /\ data_buf' = split.rest
      BY <1>1
    <3>2. split.ended = LinesFrom(l, q) /\ split.rest = Begun(l + q + 1, e)
      BY <2>11
    <3>3. lines = LinesFrom(received, l - received)
      BY <2>6
    <3>. HIDE DEF split
    <3>. QED  BY <3>1, <3>2, <3>3
  <2>13. q \in Nat /\ e \in 0..2 /\ 3 * q + e = d + n /\ n \in Nat
    <3>1. n \in Nat
      <4>. HIDE DEF m
      <4>. QED  BY <2>9
    <3>. QED  BY <2>7, <3>1
  <2>14. /\ l + q \in Nat /\ l + q >= received
         /\ (l - received) + q = (l + q) - received
         /\ 3 * (l + q) + e = a + n
    <3>. HIDE DEF q, e, m
    <3>. QED  BY <2>6, <2>7, <2>13
  <2>15. lines' = LinesFrom(received, (l + q) - received)
         /\ lines' \in Seq(Seq(Chars))
    <3>1. LinesFrom(received, l - received)
            \o LinesFrom(received + (l - received), q)
            = LinesFrom(received, (l - received) + q)
      <4>1. PICK b \in Nat : b = l - received
        BY <2>7
      <4>2. q \in Nat
        BY <2>13
      <4>. HIDE DEF q
      <4>3. LinesFrom(received, b) \o LinesFrom(received + b, q)
              = LinesFrom(received, b + q)
        <5>1. received \in Nat
          BY <2>7
        <5>. QED  BY <4>1, <4>2, <5>1, LinesJoined
      <4>. QED  BY <4>1, <4>3
    <3>2. received + (l - received) = l
      BY <2>7
    <3>. HIDE DEF q
    <3>3. lines' = LinesFrom(received, (l + q) - received)
      BY <2>12, <2>14, <3>1, <3>2
    <3>4. (l + q) - received \in Nat
      BY <2>7, <2>14
    <3>5. LinesFrom(received, (l + q) - received) \in Seq(Seq(Chars))
      BY <2>7, <3>4, LinesFacts
    <3>. QED  BY <3>3, <3>5
  <2>16. /\ 3 * (l + q) + e <= EndOf(k)
         /\ wire' = Segment(3 * (l + q) + e, EndOf(k) - (3 * (l + q) + e))
         /\ l + q \in 0..stored
    <3>1. a + n <= EndOf(k) /\ m - n = EndOf(k) - (a + n)
      <4>. HIDE DEF a
      <4>. QED  BY <2>7, <2>8, <2>9, <2>13
    <3>2. l + q \in 0..stored
      <4>. HIDE DEF a, m, q, e
      <4>. QED  BY <2>7, <2>8, <2>13, <2>14, <3>1
    <3>. HIDE DEF a, m, q, e
    <3>. QED  BY <2>10, <2>14, <3>1, <3>2
  <2>17. \E l1 \in 0..stored, e1 \in 0..2 :
            /\ l1 >= received /\ lines' = LinesFrom(received, l1 - received)
            /\ data_buf' = Begun(l1 + 1, e1) /\ 3 * l1 + e1 <= EndOf(k)
            /\ wire' = Segment(3 * l1 + e1, EndOf(k) - (3 * l1 + e1))
    <3>. HIDE DEF a, m, q, e
    <3>. QED  BY <2>12, <2>13, <2>14, <2>15, <2>16
  <2>18. PICK l1 \in 0..stored, e1 \in 0..2 : IsUnderWay(k, l1, e1)'
    <3>. HIDE DEF a, m, q, e
    <3>. QED  BY <1>2, <2>17 DEF IsUnderWay
  <2>19. TextArrives'
    <3>1. IsUnderWay(sending.next - 1, l1, e1)'
      BY <1>2, <2>5, <2>18 DEF IsUnderWay
    <3>. QED  BY <1>2, <2>2, <2>4, <3>1 DEF TextArrives
  <2>20. Arrives'
    BY <1>2, <1>5, <2>19 DEF Arrives, Refused
  <2>. QED  BY <1>2, <2>15, <2>20, ArrivalKeepsInv
<1>. QED  BY <1>4, <1>5

LEMMA ReceiveEndKeepsInv ==
  ASSUME DownloadInv, ReceiveEnd
  PROVE  DownloadInv'
<1>1. /\ Awaiting /\ sending # None /\ wire = <<>>
      /\ lines' = lines \o LastLine /\ data_buf' = <<>> /\ sending' = None
      /\ UNCHANGED <<records, stored, wire, poolVars, resultVars, status,
                     expected, lapses>>
      /\ stored' = stored /\ wire' = wire /\ received' = received
      /\ lapses' = lapses
  BY DEF ReceiveEnd, HasEnded, Awaiting, poolVars
<1>2. lines \in Seq(Seq(Chars)) /\ lines \o <<>> = lines
  BY DownloadFacts, ConcatEmptySeq
<1>3. CASE Refused
  <2>1. MessageArrives
    BY <1>3 DEF DownloadInv, Arrives
  <2>2. data_buf \in {<<>>, Message}
    BY <2>1 DEF MessageArrives
  <2>3. LastLine \in {<<>>, <<Message>>}
    BY <2>2 DEF LastLine
  <2>4. /\ lines' \in Seq(Seq(Chars))
        /\ \A i \in 1..Len(lines') : lines'[i] = Message
    <3>1. CASE LastLine = <<>>
      BY <1>1, <1>2, <2>1, <3>1 DEF MessageArrives
    <3>2. CASE LastLine = <<Message>>
      <4>. DEFINE S == Seq(Chars)
      <4>1. Message \in S /\ <<Message>> \in Seq(S) /\ Len(<<Message>>) = 1
            /\ <<Message>>[1] = Message /\ Len(lines) \in Nat
            /\ lines \in Seq(S)
        BY <1>2, TextFacts, LenProperties
      <4>. HIDE DEF S
      <4>2. /\ lines' \in Seq(S) /\ Len(lines') = Len(lines) + 1
            /\ \A i \in 1..(Len(lines) + 1) :
                  lines'[i] = IF i <= Len(lines) THEN lines[i]
                              ELSE <<Message>>[i - Len(lines)]
        BY <1>1, <3>2, <4>1, ConcatProperties
      <4>3. \A i \in 1..(Len(lines) + 1) :
               \/ i <= Len(lines) /\ i \in 1..Len(lines)
               \/ ~(i <= Len(lines)) /\ i - Len(lines) = 1
        BY <4>1
      <4>4. \A i \in 1..Len(lines) : lines[i] = Message
        BY <2>1 DEF MessageArrives
      <4>. QED  BY <4>1, <4>2, <4>3, <4>4 DEF S
    <3>. QED  BY <2>3, <3>1, <3>2
  <2>5. MessageArrives'
    BY <1>1, <2>1, <2>4 DEF MessageArrives
  <2>6. Arrives'
    BY <1>1, <1>3, <2>5 DEF Arrives, Refused
  <2>. QED  BY <1>1, <2>4, <2>6, ArrivalKeepsInv
<1>4. CASE ~Refused
  <2>1. TextArrives
    BY <1>4 DEF DownloadInv, Arrives
  <2>2. PICK l \in 0..stored, d \in 0..2 : IsUnderWay(sending.next - 1, l, d)
    BY <1>1, <2>1 DEF TextArrives
  <2>3. stored \in Nat /\ received \in Nat
    BY DownloadFacts
  <2>4. PICK k \in 0..stored : k = sending.next - 1
    <3>1. sending \in [next : 1..(stored + 1), open : BOOLEAN]
      BY <1>1, <2>1 DEF TextArrives
    <3>. QED  BY <2>3, <3>1
  <2>5. /\ l >= received /\ lines = LinesFrom(received, l - received)
        /\ data_buf = Begun(l + 1, d) /\ 3 * l + d <= EndOf(k)
        /\ wire = Segment(3 * l + d, EndOf(k) - (3 * l + d))
    BY <2>2, <2>4 DEF IsUnderWay
  <2>6. l \in Nat /\ d \in Nat /\ k \in Nat /\ l - received \in Nat
    BY <2>3, <2>5
  <2>7. EndOf(k) \in Nat
    BY <2>6 DEF EndOf
  <2>8. 3 * l + d = EndOf(k)
    <3>1. EndOf(k) - (3 * l + d) \in Nat /\ 3 * l + d \in Nat
      BY <2>5, <2>6, <2>7
    <3>2. Len(wire) = EndOf(k) - (3 * l + d)
      <4>1. PICK a \in Nat : a = 3 * l + d
        BY <3>1
      <4>2. PICK m \in Nat : m = EndOf(k) - a
        BY <3>1, <4>1
      <4>3. wire = Segment(a, m)
        BY <2>5, <4>1, <4>2
      <4>4. Len(wire) = m
        BY <4>3, SegmentType
      <4>. QED  BY <4>1, <4>2, <4>4
    <3>3. Len(wire) = 0
      BY <1>1, EmptySeq
    <3>. QED  BY <2>7, <3>1, <3>2, <3>3
  <2>9. \E l1 \in 0..stored : /\ l1 >= received
                              /\ lines' = LinesFrom(received, l1 - received)
    <3>1. CASE k = 0
      <4>1. d = 0
        BY <2>6, <2>8, <3>1 DEF EndOf
      <4>2. LastLine = <<>>
        BY <2>5, <4>1, BegunTexts DEF LastLine
      <4>. QED  BY <1>1, <1>2, <2>5, <4>2
    <3>2. CASE k # 0
      <4>1. d = 2 /\ l + 1 = k
        BY <2>6, <2>8, <3>2 DEF EndOf
      <4>2. LastLine = <<Text(l + 1)>>
        BY <2>5, <4>1, BegunTexts DEF LastLine
      <4>3. <<Text(l + 1)>> = LinesFrom(l, 1)
        BY DEF LinesFrom
      <4>4. LinesFrom(received, l - received)
              \o LinesFrom(received + (l - received), 1)
              = LinesFrom(received, (l - received) + 1)
        BY <2>3, <2>6, LinesJoined
      <4>5. received + (l - received) = l
            /\ (l - received) + 1 = (l + 1) - received
            /\ l + 1 \in 0..stored /\ l + 1 >= received
        BY <2>3, <2>5, <2>6, <4>1
      <4>6. lines' = LinesFrom(received, (l + 1) - received)
        BY <1>1, <2>5, <4>2, <4>3, <4>4, <4>5
      <4>. QED  BY <4>5, <4>6
    <3>. QED  BY <3>1, <3>2
  <2>10. lines' \in Seq(Seq(Chars))
    <3>1. PICK l1 \in 0..stored : /\ l1 >= received
                                  /\ lines' = LinesFrom(received, l1 - received)
      BY <2>9
    <3>2. l1 - received \in Nat
      BY <2>3, <3>1
    <3>. QED  BY <2>3, <3>1, <3>2, LinesFacts
  <2>11. TextArrives'
    BY <1>1, <2>9 DEF TextArrives
  <2>12. Arrives'
    BY <1>1, <1>4, <2>11 DEF Arrives, Refused
  <2>. QED  BY <1>1, <2>10, <2>12, ArrivalKeepsInv
<1>. QED  BY <1>3, <1>4

(* The steps that only change the status.                                  *)
LEMMA StatusStepKeepsInv ==
  ASSUME DownloadInv, BreakConnection \/ ReadEnd
  PROVE  DownloadInv'
<1>1. /\ status \in {"fetching", "waiting", "polling"}
      /\ status' \in {"waiting", "polling"}
      /\ status' = "polling" => status \in {"waiting", "polling"}
      /\ status = "fetching" => Untouched
      /\ lapses' \in {lapses, lapses \cup {"broken"}}
      /\ UNCHANGED <<serverVars, streamVars, poolVars, resultVars, expected>>
  BY DEF BreakConnection, ReadEnd, DownloadInv, InOrder
<1>2. /\ UNCHANGED <<records, received, inbox, resultVars>>
      /\ UNCHANGED <<sending, wire, streamVars, received>>
      /\ stored' = stored /\ expected' = expected
      /\ lines' = lines /\ data_buf' = data_buf /\ received' = received
      /\ errorCount' = errorCount /\ unverifiedCount' = unverifiedCount
      /\ generator' = generator /\ inbox' = inbox /\ records' = records
  BY <1>1 DEF serverVars, streamVars, poolVars, resultVars
<1>3. (Refused' <=> Refused)
      /\ ("submitted" \in lapses' <=> "submitted" \in lapses)
  BY <1>1 DEF Refused
<1>4. DownloadTypes'
  BY <1>1, <1>2, GeneratorsKept DEF DownloadInv, DownloadTypes, Statuses
<1>5. InOrder'
  BY <1>1, <1>2, <1>3 DEF DownloadInv, InOrder
<1>6. Arrives'
  BY <1>2, <1>3, DownloadFacts, ArrivedKept
<1>7. Dealt' /\ AllCounted' /\ HeadersFollow'
  BY <1>1, <1>2, <1>3, CountedKept DEF Awaiting
<1>8. CsvComplete' /\ FailedMeansNone'
  BY <1>1 DEF CsvComplete, FailedMeansNone
<1>. QED  BY <1>4, <1>5, <1>6, <1>7, <1>8 DEF DownloadInv

LEMMA HeadersNext ==
  ASSUME records' = records, NEW g, generator' = g,
         Follows(g, AnswersOf(Range(g.unprocessed)))
  PROVE  HeadersFollow'
BY DEF HeadersFollow, Follows, Merged, Founded, IsQuestion, AnswersOf

LEMMA ReadLineKeepsInv ==
  ASSUME DownloadInv, ReadLine
  PROVE  DownloadInv'
<1>1. PICK w \in Workers : w = received % numWorkers
  BY DownloadAssumption, DownloadFacts DEF Workers
<1>. DEFINE line == Head(lines)
            place == <<w, Len(inbox[w]) + 1>>
<1>2. /\ Awaiting /\ Awaiting' /\ status' = "polling" /\ lines # <<>>
      /\ inbox' = [inbox EXCEPT ![w] = Append(@, line)]
      /\ received' = received + 1 /\ lines' = Tail(lines)
      /\ records' = records /\ stored' = stored /\ sending' = sending
      /\ wire' = wire /\ data_buf' = data_buf /\ expected' = expected
      /\ errorCount' = errorCount /\ unverifiedCount' = unverifiedCount
      /\ generator' = generator /\ lapses' = lapses
  BY <1>1 DEF ReadLine, Awaiting, serverVars, resultVars
<1>3. /\ line \in Seq(Chars) /\ Tail(lines) \in Seq(Seq(Chars))
      /\ Len(lines) \in Nat \ {0} /\ line = lines[1]
      /\ Len(Tail(lines)) = Len(lines) - 1
      /\ \A i \in 1..(Len(lines) - 1) : Tail(lines)[i] = lines[i + 1]
  <2>. DEFINE S == Seq(Chars)
  <2>1. lines \in Seq(S)
    BY DownloadFacts
  <2>2. Head(lines) = lines[1]
    OBVIOUS
  <2>. HIDE DEF S
  <2>3. Len(lines) \in Nat \ {0}
    BY <1>2, <2>1, EmptySeq
  <2>4. /\ Head(lines) \in S /\ Tail(lines) \in Seq(S)
        /\ Len(Tail(lines)) = Len(lines) - 1
        /\ \A i \in 1..Len(Tail(lines)) : Tail(lines)[i] = lines[i + 1]
    BY <1>2, <2>1, HeadTailProperties
  <2>. QED  BY <2>2, <2>3, <2>4 DEF S
<1>. HIDE DEF line
<1>4. /\ inbox' \in Boxes /\ place \notin Places(inbox)
      /\ Places(inbox') = Places(inbox) \cup {place}
      /\ \A p \in Places(inbox) : At(inbox', p) = At(inbox, p)
      /\ At(inbox', place) = line
      /\ Cardinality(Places(inbox')) = Cardinality(Places(inbox)) + 1
  <2>. DEFINE next == [inbox EXCEPT ![w] = Append(@, line)]
  <2>1. inbox \in Boxes /\ line \in Seq(Chars)
    BY <1>3, DownloadFacts
  <2>2. /\ next \in Boxes /\ place \notin Places(inbox)
        /\ Places(next) = Places(inbox) \cup {place}
        /\ \A p \in Places(inbox) : At(next, p) = At(inbox, p)
        /\ At(next, place) = line
        /\ Cardinality(Places(next)) = Cardinality(Places(inbox)) + 1
    <3>1. PICK e \in Seq(Chars) : e = line
      BY <2>1
    <3>2. PICK box \in Boxes : box = inbox
      BY <2>1
    <3>3. next = [box EXCEPT ![w] = Append(@, e)] /\ place = <<w, Len(box[w]) + 1>>
      BY <3>1, <3>2
    <3>4. /\ next \in Boxes /\ next[w] = Append(box[w], e)
          /\ \A v \in Workers : v # w => next[v] = box[v]
      BY <1>1, <3>1, <3>2, BoxFilled
    <3>. HIDE DEF next, place
    <3>5. PICK n, c : n \in Boxes /\ n = next /\ c = place
      BY <3>4
    <3>6. /\ n[w] = Append(box[w], e) /\ c = <<w, Len(box[w]) + 1>>
          /\ \A v \in Workers : v # w => n[v] = box[v]
      BY <3>3, <3>4, <3>5
    <3>7. n \in Boxes /\ box \in Boxes /\ w \in Workers /\ e \in Seq(Chars)
      BY <1>1, <3>1, <3>2, <3>5
    <3>8. /\ c \notin Places(box) /\ Places(n) = Places(box) \cup {c}
          /\ \A p \in Places(box) : At(n, p) = At(box, p)
          /\ At(n, c) = e /\ Cardinality(Places(n)) = Cardinality(Places(box)) + 1
      BY <3>6, <3>7, PlaceAdded
    <3>. QED  BY <3>1, <3>2, <3>4, <3>5, <3>8
  <2>3. inbox' = next
    BY <1>2
  <2>. HIDE DEF next
  <2>. QED  BY <2>2, <2>3
<1>. HIDE DEF place
<1>5. Refused' <=> Refused
  BY <1>2 DEF Refused
<1>6. DownloadTypes'
  BY <1>2, <1>3, <1>4, DownloadFacts, GeneratorsKept
  DEF DownloadInv, DownloadTypes, Statuses
<1>7. InOrder'
  BY <1>2 DEF DownloadInv, InOrder, Awaiting
<1>8. AllCounted'
  <2>1. received = Decided + Cardinality(Places(inbox))
    BY <1>2 DEF DownloadInv, AllCounted, Awaiting
  <2>2. Decided' = Decided /\ Decided \in Nat
    <3>1. /\ successCount' = successCount /\ errorCount' = errorCount
          /\ unverifiedCount' = unverifiedCount
      BY <1>2 DEF successCount
    <3>2. /\ successCount \in Nat /\ errorCount \in Nat
          /\ unverifiedCount \in Nat
      BY DownloadFacts DEF successCount
    <3>. QED  BY <3>1, <3>2 DEF Decided
  <2>3. received' = Decided' + Cardinality(Places(inbox'))
    BY <1>2, <1>4, <2>1, <2>2, DownloadFacts
  <2>. QED  BY <2>3 DEF AllCounted
<1>9. HeadersFollow'
  BY <1>2 DEF DownloadInv, HeadersFollow, Follows, Merged, Founded, IsQuestion,
              AnswersOf
<1>10. CsvComplete' /\ FailedMeansNone'
  BY <1>2 DEF CsvComplete, FailedMeansNone
<1>11. Arrives' /\ Dealt'
  <2>1. CASE Refused
    <3>1. MessageArrives /\ MessageDealt
      BY <2>1 DEF DownloadInv, Arrives, Dealt
    <3>2. line = Message /\ \A i \in 1..Len(lines') : lines'[i] = Message
      <4>1. \A i \in 1..Len(lines) : lines[i] = Message
        BY <3>1 DEF MessageArrives
      <4>2. 1 \in 1..Len(lines)
            /\ \A i \in 1..(Len(lines) - 1) : i + 1 \in 1..Len(lines)
        BY <1>3
      <4>. QED  BY <1>2, <1>3, <4>1, <4>2
    <3>3. MessageArrives'
      BY <1>2, <3>1, <3>2 DEF MessageArrives
    <3>4. MessageDealt'
      BY <1>2, <1>4, <3>1, <3>2 DEF MessageDealt
    <3>. QED  BY <1>5, <2>1, <3>3, <3>4 DEF Arrives, Dealt
  <2>2. CASE ~Refused
    <3>1. TextArrives /\ TextDealt
      BY <2>2 DEF DownloadInv, Arrives, Dealt
    <3>2. received \in Nat /\ stored \in Nat /\ received' = received + 1
      BY <1>2, DownloadFacts
    <3>3. ASSUME NEW l \in 0..stored, l >= received,
                 lines = LinesFrom(received, l - received)
          PROVE  /\ l >= received' /\ line = Text(received + 1)
                 /\ lines' = LinesFrom(received', l - received')
      <4>1. PICK m \in Nat : m = l - received
        BY <3>2, <3>3
      <4>2. lines = LinesFrom(received, m) /\ LinesFrom(received, m) # <<>>
        BY <1>2, <3>3, <4>1
      <4>3. /\ m # 0 /\ Head(lines) = Text(received + 1)
            /\ Tail(lines) = LinesFrom(received + 1, m - 1)
        BY <3>2, <4>2, LineTaken
      <4>4. m - 1 = l - received' /\ l >= received'
        BY <3>2, <4>1, <4>3
      <4>. QED  BY <1>2, <3>2, <4>3, <4>4 DEF line
    <3>4. line = Text(received + 1)
      BY <3>1, <3>3 DEF TextArrives, IsUnderWay
    <3>5. TextArrives'
      BY <1>2, <3>1, <3>3 DEF TextArrives, IsUnderWay
    <3>6. /\ 1..received \subseteq 1..received' /\ received + 1 \in 1..received'
          /\ \A r \in 1..received' : r \in 1..received \/ r = received + 1
          /\ \A r \in 1..received : r # received + 1 /\ r \in Nat
      BY <3>2
    <3>7. \A r \in 1..received : Text(r) # line
      BY <3>2, <3>4, <3>6, TextFacts
    <3>8. \A p \in Places(inbox) : At(inbox, p) # line
      BY <3>1, <3>7 DEF TextDealt
    <3>9. \A r \in 1..received : IsWaiting(r)' <=> IsWaiting(r)
      BY <1>4, <3>7 DEF IsWaiting
    <3>10. PICK c : c = received + 1
      OBVIOUS
    <3>11. IsWaiting(c)'
      BY <1>4, <3>4, <3>10 DEF IsWaiting
    <3>12. \A p \in Places(inbox') :
              \E l \in 1..received' : At(inbox', p) = Text(l)
      BY <1>4, <3>1, <3>4, <3>6 DEF TextDealt
    <3>13. \A p, q \in Places(inbox') : At(inbox', p) = At(inbox', q) => p = q
      BY <1>4, <3>1, <3>8 DEF TextDealt
    <3>14. \A r \in Range(generator.unprocessed) :
              r \in 1..received' /\ records[r].seal = "OK" /\ ~IsWaiting(r)'
      BY <3>1, <3>6, <3>9 DEF TextDealt
    <3>15. \A r \in 1..received' :
              records[r].seal = "OK" =>
                 r \in Range(generator.unprocessed) \/ IsWaiting(r)'
      BY <1>2, <3>1, <3>6, <3>9, <3>10, <3>11 DEF TextDealt, Awaiting
    <3>16. TextDealt'
      BY <1>2, <3>1, <3>12, <3>13, <3>14, <3>15 DEF TextDealt
    <3>. QED  BY <1>5, <2>2, <3>5, <3>16 DEF Arrives, Dealt
  <2>. QED  BY <2>1, <2>2
<1>. QED  BY <1>6, <1>7, <1>8, <1>9, <1>10, <1>11 DEF DownloadInv

LEMMA StatusOfLines ==
  ASSUME DownloadInv
  PROVE  /\ StatusOf(Message) = "ERROR"
         /\ \A r \in DOMAIN records :
               /\ Parsed(Text(r)) = r /\ StatusOf(Text(r)) = records[r].seal
               /\ records[r].seal \in {"OK", "UNVERIFIED", "ERROR"}
<1>1. DOMAIN records \subseteq Nat /\ records \in Histories
  BY DownloadFacts
<1>2. Parsed(Message) = None
  BY <1>1, TextFacts DEF Parsed
<1>3. ASSUME NEW r \in DOMAIN records
      PROVE  Parsed(Text(r)) = r /\ r # None
  <2>1. r \in Nat /\ Text(r)[1][1] = r
    BY <1>1, TextFacts
  <2>2. r # None
    BY <2>1, DownloadAssumption
  <2>. QED  BY <2>1, <2>2 DEF Parsed
<1>4. \A r \in DOMAIN records :
         records[r].seal \in {"OK", "UNVERIFIED", "ERROR"}
  BY <1>1, DownloadAssumption
<1>. QED  BY <1>2, <1>3, <1>4 DEF StatusOf

LEMMA RangeOfAppend ==
  ASSUME NEW s \in Seq(Nat), NEW r \in Nat
  PROVE  /\ Range(Append(s, r)) = Range(s) \cup {r}
         /\ Len(Append(s, r)) = Len(s) + 1
         /\ (IsInjective(s) /\ r \notin Range(s)) => IsInjective(Append(s, r))
<1>1. Len(s) \in Nat /\ DOMAIN s = 1..Len(s)
  BY LenProperties
<1>2. /\ Append(s, r) \in Seq(Nat) /\ Len(Append(s, r)) = Len(s) + 1
      /\ \A i \in 1..Len(s) : Append(s, r)[i] = s[i]
      /\ Append(s, r)[Len(s) + 1] = r
  BY AppendProperties
<1>3. DOMAIN Append(s, r) = 1..(Len(s) + 1)
  BY <1>2, LenProperties
<1>4. \A i : i \in 1..(Len(s) + 1) <=> i \in 1..Len(s) \/ i = Len(s) + 1
  BY <1>1
<1>5. Range(Append(s, r)) = Range(s) \cup {r}
  BY <1>1, <1>2, <1>3, <1>4 DEF Range
<1>6. ASSUME IsInjective(s), r \notin Range(s)
      PROVE  IsInjective(Append(s, r))
  <2>1. \A i \in 1..Len(s) : s[i] # r
    BY <1>1, <1>6 DEF Range
  <2>. QED  BY <1>1, <1>2, <1>3, <1>4, <1>6, <2>1 DEF IsInjective
<1>. QED  BY <1>2, <1>5, <1>6

LEMMA WorkerAnswersKeepsInv ==
  ASSUME DownloadInv, NEW w \in Workers, WorkerAnswers(w)
  PROVE  DownloadInv'
<1>. DEFINE was(p) == IF p[1] = w THEN <<w, p[2] + 1>> ELSE p
<1>1. PICK line, result : line = Head(inbox[w]) /\ result = StatusOf(line)
  OBVIOUS
<1>2. /\ status = "polling" /\ inbox[w] # <<>>
      /\ errorCount' = errorCount + (IF result = "ERROR" THEN 1 ELSE 0)
      /\ unverifiedCount' =
             unverifiedCount + (IF result = "UNVERIFIED" THEN 1 ELSE 0)
      /\ generator' = IF result = "OK"
                      THEN AddRecord(generator, Parsed(line))
                      ELSE generator
      /\ inbox' = [inbox EXCEPT ![w] = Tail(@)]
      /\ status' = status /\ expected' = expected /\ lapses' = lapses
      /\ records' = records /\ stored' = stored /\ sending' = sending
      /\ wire' = wire /\ data_buf' = data_buf /\ lines' = lines
      /\ received' = received
  BY <1>1 DEF WorkerAnswers, serverVars, streamVars
<1>3. /\ inbox' \in Boxes
      /\ <<w, 1>> \in Places(inbox) /\ At(inbox, <<w, 1>>) = line
      /\ \A p \in Places(inbox') :
            /\ was(p) \in Places(inbox) /\ was(p) # <<w, 1>>
            /\ At(inbox, was(p)) = At(inbox', p)
      /\ \A p, q \in Places(inbox') : was(p) = was(q) => p = q
      /\ \A q \in Places(inbox) : q # <<w, 1>> =>
            \E p \in Places(inbox') : q = was(p)
      /\ Cardinality(Places(inbox)) = Cardinality(Places(inbox')) + 1
  <2>. DEFINE next == [inbox EXCEPT ![w] = Tail(@)]
  <2>1. inbox \in Boxes /\ inbox' = next
    BY <1>2, DownloadFacts
  <2>2. /\ next \in Boxes
        /\ <<w, 1>> \in Places(inbox) /\ At(inbox, <<w, 1>>) = Head(inbox[w])
        /\ \A p \in Places(next) :
              /\ was(p) \in Places(inbox) /\ was(p) # <<w, 1>>
              /\ At(inbox, was(p)) = At(next, p)
        /\ \A p, q \in Places(next) : was(p) = was(q) => p = q
        /\ \A q \in Places(inbox) : q # <<w, 1>> =>
              \E p \in Places(next) : q = was(p)
        /\ Cardinality(Places(inbox)) = Cardinality(Places(next)) + 1
    BY <1>2, <2>1, PlaceTaken
  <2>. HIDE DEF next, was
  <2>. QED  BY <1>1, <2>1, <2>2
<1>4. (Refused' <=> Refused)
  BY <1>2 DEF Refused
<1>5. \/ Refused /\ line = Message /\ result = "ERROR"
      \/ ~Refused /\ \E r \in 1..received :
            /\ r \in DOMAIN records /\ line = Text(r) /\ Parsed(line) = r
            /\ result = records[r].seal
  <2>1. CASE Refused
    <3>1. line = Message
      BY <1>3, <2>1 DEF DownloadInv, Dealt, MessageDealt
    <3>. QED  BY <1>1, <2>1, <3>1, StatusOfLines
  <2>2. CASE ~Refused
    <3>1. PICK r \in 1..received : line = Text(r)
      BY <1>3, <2>2 DEF DownloadInv, Dealt, TextDealt
    <3>2. r \in DOMAIN records
      BY <2>2, DownloadFacts, ReceivedFromStored
    <3>. QED  BY <1>1, <2>2, <3>1, <3>2, StatusOfLines
  <2>. QED  BY <2>1, <2>2
<1>6. result \in {"OK", "UNVERIFIED", "ERROR"}
  BY <1>5, StatusOfLines
<1>7. CASE result = "OK"
  <2>1. PICK r \in 1..received :
           /\ ~Refused /\ r \in DOMAIN records /\ line = Text(r)
           /\ Parsed(line) = r /\ records[r].seal = "OK"
    BY <1>5, <1>7
  <2>2. generator' = AddRecord(generator, r) /\ r \in Nat
        /\ errorCount' = errorCount /\ unverifiedCount' = unverifiedCount
    BY <1>2, <1>7, <2>1, DownloadFacts
  <2>3. /\ AddRecord(generator, r) \in MergedGenerators
        /\ AddRecord(generator, r).unprocessed
              = Append(generator.unprocessed, r)
        /\ Follows(AddRecord(generator, r),
                   AnswersOf(Range(generator.unprocessed) \cup {r}))
    <3>1. PICK R : R = Range(generator.unprocessed)
      OBVIOUS
    <3>2. Follows(generator, AnswersOf(R)) /\ generator \in MergedGenerators
          /\ records \in Histories
      BY <3>1, DownloadFacts DEF DownloadInv, HeadersFollow
    <3>. QED  BY <2>1, <3>1, <3>2, RecordMerged
  <2>4. TextDealt /\ IsWaiting(r)
    BY <1>3, <2>1 DEF DownloadInv, Dealt, IsWaiting
  <2>5. r \notin Range(generator.unprocessed)
    BY <2>4 DEF TextDealt
  <2>6. PICK rows : rows = generator.unprocessed
    OBVIOUS
  <2>7. /\ generator'.unprocessed = Append(rows, r)
        /\ Range(Append(rows, r)) = Range(rows) \cup {r}
        /\ Len(Append(rows, r)) = Len(rows) + 1
        /\ IsInjective(Append(rows, r)) /\ Len(rows) \in Nat
    BY <2>2, <2>3, <2>4, <2>5, <2>6, DownloadFacts, RangeOfAppend DEF TextDealt
  <2>8. DownloadTypes'
    BY <1>2, <1>3, <2>2, <2>3, DownloadFacts, GeneratorsKept
    DEF DownloadInv, DownloadTypes
  <2>9. AllCounted'
    <3>1. received = Decided + Cardinality(Places(inbox))
      BY <1>2 DEF DownloadInv, AllCounted
    <3>2. Decided' = Decided + 1 /\ Decided \in Nat
      <4>1. Len(generator'.unprocessed) = Len(generator.unprocessed) + 1
        BY <2>6, <2>7
      <4>2. /\ errorCount \in Nat /\ unverifiedCount \in Nat
            /\ Len(generator.unprocessed) \in Nat
        BY DownloadFacts
      <4>. QED  BY <2>2, <4>1, <4>2 DEF Decided, successCount
    <3>3. Cardinality(Places(inbox')) \in Nat
      BY <1>3, NoPlaces
    <3>4. /\ received' = received
          /\ Cardinality(Places(inbox)) = Cardinality(Places(inbox')) + 1
      BY <1>2, <1>3
    <3>5. received' = Decided' + Cardinality(Places(inbox'))
      BY <3>1, <3>2, <3>3, <3>4
    <3>. QED  BY <3>5 DEF AllCounted
  <2>10. HeadersFollow'
    <3>1. PICK g : g = AddRecord(generator, r)
      OBVIOUS
    <3>2. Follows(g, AnswersOf(Range(g.unprocessed)))
      BY <2>2, <2>3, <2>6, <2>7, <3>1
    <3>3. generator' = g /\ records' = records
      BY <1>2, <2>2, <3>1
    <3>. QED  BY <3>2, <3>3, HeadersNext
  <2>11. \A p \in Places(inbox') : At(inbox', p) # Text(r)
    BY <1>3, <2>1, <2>4 DEF TextDealt
  <2>12. \A s \in 1..received :
            s # r => (IsWaiting(s)' <=> IsWaiting(s))
    <3>1. \A s \in 1..received : s # r => Text(s) # line
      <4>1. \A s \in 1..received : s \in Nat
        BY DownloadFacts
      <4>. QED  BY <2>1, <2>2, <4>1, TextFacts
    <3>. HIDE DEF was
    <3>2. \A s : IsWaiting(s)' => IsWaiting(s)
      BY <1>3 DEF IsWaiting
    <3>3. \A s : IsWaiting(s) /\ Text(s) # line => IsWaiting(s)'
      BY <1>3 DEF IsWaiting
    <3>. QED  BY <3>1, <3>2, <3>3
  <2>13. ~IsWaiting(r)'
    BY <2>11 DEF IsWaiting
  <2>14. TextDealt'
    <3>1. \A p \in Places(inbox') : \E l \in 1..received : At(inbox', p) = Text(l)
      <4>. HIDE DEF was
      <4>. QED  BY <1>3, <2>4 DEF TextDealt
    <3>2. \A p, q \in Places(inbox') : At(inbox', p) = At(inbox', q) => p = q
      <4>. HIDE DEF was
      <4>. QED  BY <1>3, <2>4 DEF TextDealt
    <3>3. \A s \in Range(rows) \cup {r} :
             s \in 1..received /\ records[s].seal = "OK" /\ ~IsWaiting(s)'
      BY <2>1, <2>4, <2>6, <2>12, <2>13 DEF TextDealt
    <3>4. \A s \in 1..received :
             records[s].seal = "OK" =>
                s \in Range(rows) \cup {r} \/ IsWaiting(s)'
      BY <1>2, <2>4, <2>6, <2>12 DEF TextDealt
    <3>. QED  BY <1>2, <2>7, <3>1, <3>2, <3>3, <3>4 DEF TextDealt
  <2>15. Dealt'
    BY <1>4, <2>1, <2>14 DEF Dealt
  <2>16. Arrives'
    BY <1>2, <1>4, DownloadFacts, ArrivedKept DEF streamVars
  <2>17. InOrder'
    BY <1>2 DEF DownloadInv, InOrder
  <2>18. CsvComplete' /\ FailedMeansNone'
    BY <1>2 DEF CsvComplete, FailedMeansNone
  <2>. QED  BY <2>8, <2>9, <2>10, <2>15, <2>16, <2>17, <2>18 DEF DownloadInv
<1>8. CASE result # "OK"
  <2>1. generator' = generator
        /\ errorCount' + unverifiedCount' = errorCount + unverifiedCount + 1
        /\ errorCount' \in Nat /\ unverifiedCount' \in Nat
    <3>1. result = "UNVERIFIED" \/ result = "ERROR"
      BY <1>6, <1>8
    <3>2. /\ generator' = generator
          /\ errorCount' = errorCount + (IF result = "ERROR" THEN 1 ELSE 0)
          /\ unverifiedCount' =
                 unverifiedCount + (IF result = "UNVERIFIED" THEN 1 ELSE 0)
      BY <1>2, <1>8
    <3>3. errorCount \in Nat /\ unverifiedCount \in Nat
      BY DownloadFacts
    <3>4. CASE result = "UNVERIFIED"
      BY <3>2, <3>3, <3>4
    <3>5. CASE result = "ERROR"
      BY <3>2, <3>3, <3>5
    <3>. QED  BY <3>1, <3>4, <3>5
  <2>2. DownloadTypes'
    BY <1>2, <1>3, <2>1, DownloadFacts, GeneratorsKept
    DEF DownloadInv, DownloadTypes
  <2>3. AllCounted'
    <3>1. received = Decided + Cardinality(Places(inbox))
      BY <1>2 DEF DownloadInv, AllCounted
    <3>2. Decided' = Decided + 1 /\ Decided \in Nat
      <4>1. /\ errorCount \in Nat /\ unverifiedCount \in Nat
            /\ Len(generator.unprocessed) \in Nat
        BY DownloadFacts
      <4>2. PICK n \in Nat : n = Len(generator.unprocessed)
        BY <4>1
      <4>3. PICK e \in Nat, u \in Nat : e = errorCount' /\ u = unverifiedCount'
        BY <2>1
      <4>4. Decided = n + errorCount + unverifiedCount
        BY <4>2 DEF Decided, successCount
      <4>5. Decided' = n + e + u
        BY <2>1, <4>2, <4>3 DEF Decided, successCount
      <4>6. e + u = errorCount + unverifiedCount + 1
        BY <2>1, <4>3
      <4>. QED  BY <4>1, <4>4, <4>5, <4>6
    <3>3. Cardinality(Places(inbox')) \in Nat
      BY <1>3, NoPlaces
    <3>4. /\ received' = received
          /\ Cardinality(Places(inbox)) = Cardinality(Places(inbox')) + 1
      BY <1>2, <1>3
    <3>5. received' = Decided' + Cardinality(Places(inbox'))
      BY <3>1, <3>2, <3>3, <3>4
    <3>. QED  BY <3>5 DEF AllCounted
  <2>4. HeadersFollow'
    <3>1. PICK g : g = generator
      OBVIOUS
    <3>2. Follows(g, AnswersOf(Range(g.unprocessed)))
      BY <3>1 DEF DownloadInv, HeadersFollow
    <3>3. generator' = g /\ records' = records
      BY <1>2, <2>1, <3>1
    <3>. QED  BY <3>2, <3>3, HeadersNext
  <2>5. Dealt'
    <3>. HIDE DEF was
    <3>1. CASE Refused
      <4>1. MessageDealt'
        BY <1>3, <2>1, <3>1 DEF DownloadInv, Dealt, MessageDealt
      <4>. QED  BY <1>4, <3>1, <4>1 DEF Dealt
    <3>2. CASE ~Refused
      <4>1. TextDealt
        BY <3>2 DEF DownloadInv, Dealt
      <4>2. \A s \in 1..received :
               records[s].seal = "OK" => (IsWaiting(s)' <=> IsWaiting(s))
        <5>1. PICK r \in 1..received : line = Text(r) /\ result = records[r].seal
          BY <1>5, <3>2
        <5>2. \A s \in 1..received : records[s].seal = "OK" => Text(s) # line
          <6>1. \A s \in 1..received : s \in Nat
            BY DownloadFacts
          <6>. QED  BY <1>8, <5>1, <6>1, TextFacts
        <5>3. \A s : IsWaiting(s)' => IsWaiting(s)
          BY <1>3 DEF IsWaiting
        <5>4. \A s : IsWaiting(s) /\ Text(s) # line => IsWaiting(s)'
          BY <1>3 DEF IsWaiting
        <5>. QED  BY <5>2, <5>3, <5>4
      <4>3. \A p \in Places(inbox') :
               \E l \in 1..received : At(inbox', p) = Text(l)
        BY <1>3, <4>1 DEF TextDealt
      <4>4. \A p, q \in Places(inbox') : At(inbox', p) = At(inbox', q) => p = q
        BY <1>3, <4>1 DEF TextDealt
      <4>5. TextDealt'
        BY <1>2, <2>1, <4>1, <4>2, <4>3, <4>4 DEF TextDealt
      <4>. QED  BY <1>4, <3>2, <4>5 DEF Dealt
    <3>. QED  BY <3>1, <3>2
  <2>6. Arrives'
    BY <1>2, <1>4, DownloadFacts, ArrivedKept DEF streamVars
  <2>7. InOrder'
    BY <1>2 DEF DownloadInv, InOrder
  <2>8. CsvComplete' /\ FailedMeansNone'
    BY <1>2 DEF CsvComplete, FailedMeansNone
  <2>. QED  BY <2>2, <2>3, <2>4, <2>5, <2>6, <2>7, <2>8 DEF DownloadInv
<1>. QED  BY <1>7, <1>8

(* The timer: when it has seen as many results as responses were counted.  *)
LEMMA CheckKeepsInv ==
  ASSUME DownloadInv, RejectDownload \/ DownloadCsv
  PROVE  DownloadInv'
<1>1. /\ status = "polling" /\ status' \in {"failed", "downloaded"}
      /\ status' = "failed" => AllFailed
      /\ status' = "downloaded" => Decided >= expected
      /\ inbox' = [w \in Workers |-> <<>>]
      /\ UNCHANGED <<sending, wire, streamVars, received>>
      /\ records' = records /\ stored' = stored /\ expected' = expected
      /\ lapses' = lapses /\ received' = received /\ lines' = lines
      /\ errorCount' = errorCount /\ unverifiedCount' = unverifiedCount
      /\ generator' = generator
  BY DEF RejectDownload, DownloadCsv, Stop, serverVars, streamVars, resultVars
<1>2. (Refused' <=> Refused)
  BY <1>1 DEF Refused
<1>3. inbox' \in Boxes /\ Places(inbox') = {}
  <2>1. inbox' \in Boxes
    BY <1>1, EmptySeq DEF Boxes
  <2>. QED  BY <1>1, <2>1, NoPlaces
<1>4. DownloadTypes'
  BY <1>1, <1>3, GeneratorsKept DEF DownloadInv, DownloadTypes, Statuses
<1>5. InOrder'
  BY <1>1 DEF DownloadInv, InOrder
<1>6. Arrives'
  BY <1>1, <1>2, DownloadFacts, ArrivedKept
<1>7. Dealt'
  <2>1. CASE Refused
    <3>1. MessageDealt'
      BY <1>1, <1>3, <2>1 DEF DownloadInv, Dealt, MessageDealt
    <3>. QED  BY <1>2, <2>1, <3>1 DEF Dealt
  <2>2. CASE ~Refused
    <3>1. TextDealt
      BY <2>2 DEF DownloadInv, Dealt
    <3>2. \A r : ~IsWaiting(r)'
      BY <1>3 DEF IsWaiting
    <3>3. TextDealt'
      BY <1>1, <1>3, <3>1, <3>2 DEF TextDealt
    <3>. QED  BY <1>2, <2>2, <3>3 DEF Dealt
  <2>. QED  BY <2>1, <2>2
<1>8. AllCounted'
  BY <1>1 DEF AllCounted
<1>9. HeadersFollow'
  BY <1>1, HeadersKept DEF DownloadInv
<1>10. received = Decided + Cardinality(Places(inbox)) /\ Decided \in Nat
  <2>1. Decided \in Nat
    BY DownloadFacts DEF Decided, successCount
  <2>. QED  BY <1>1, <2>1 DEF DownloadInv, AllCounted
<1>11. ASSUME "submitted" \notin lapses, ~Refused
       PROVE  received <= expected
  <2>1. expected # 0 /\ stored = expected
    BY <1>1, <1>11 DEF DownloadInv, InOrder
  <2>. QED  BY <1>11, <2>1, ReceivedFromStored
<1>12. FailedMeansNone'
  <2>1. SUFFICES ASSUME AllFailed, "submitted" \notin lapses
                 PROVE  successCount = 0
    BY <1>1 DEF FailedMeansNone, successCount
  <2>2. CASE Refused
    BY <2>2, EmptyGeneratorFacts DEF DownloadInv, Dealt, MessageDealt, successCount
  <2>3. CASE ~Refused
    <3>1. received <= expected
      BY <1>11, <2>1, <2>3
    <3>2. /\ Cardinality(Places(inbox)) \in Nat /\ successCount \in Nat
          /\ errorCount \in Nat /\ unverifiedCount \in Nat
          /\ expected \in Nat /\ received \in Nat
      BY DownloadFacts DEF successCount
    <3>3. /\ errorCount + unverifiedCount = expected
          /\ received = (successCount + errorCount + unverifiedCount)
                           + Cardinality(Places(inbox))
      BY <1>10, <2>1 DEF AllFailed, Decided
    <3>. QED  BY <3>1, <3>2, <3>3
  <2>. QED  BY <2>2, <2>3
<1>13. CsvComplete'
  <2>1. SUFFICES ASSUME Decided >= expected, lapses = {}
                 PROVE  /\ IsInjective(generator.unprocessed)
                        /\ Range(generator.unprocessed) =
                               {r \in 1..expected : records[r].seal = "OK"}
    BY <1>1 DEF CsvComplete
  <2>2. ~Refused /\ "submitted" \notin lapses
    BY <2>1 DEF Refused
  <2>3. TextDealt
    BY <2>2 DEF DownloadInv, Dealt
  <2>4. received = expected /\ Cardinality(Places(inbox)) = 0
    <3>1. received <= expected
      BY <1>11, <2>2
    <3>. QED  BY <1>10, <2>1, <3>1, DownloadFacts
  <2>5. \A r : ~IsWaiting(r)
    BY <2>4, DownloadFacts, NoPlaces DEF IsWaiting
  <2>. QED  BY <1>1, <2>3, <2>4, <2>5 DEF TextDealt
<1>. QED  BY <1>4, <1>5, <1>6, <1>7, <1>8, <1>9, <1>12, <1>13 DEF DownloadInv

LEMMA DownloadInvNext ==
  ASSUME DownloadInv, [Next]_vars
  PROVE  DownloadInv'
<1>1. CASE UNCHANGED vars
  <2>1. /\ UNCHANGED <<records, received, inbox, resultVars>>
        /\ UNCHANGED <<sending, wire, streamVars, received>>
        /\ stored' = stored /\ expected' = expected /\ status' = status
        /\ lines' = lines /\ data_buf' = data_buf /\ lapses' = lapses
        /\ errorCount' = errorCount /\ unverifiedCount' = unverifiedCount
        /\ generator' = generator /\ inbox' = inbox /\ records' = records
    BY <1>1 DEF vars, serverVars, streamVars, poolVars, resultVars
  <2>2. Refused' <=> Refused
    BY <2>1 DEF Refused
  <2>3. Dealt' /\ AllCounted' /\ HeadersFollow'
    BY <2>1, <2>2, CountedKept DEF Awaiting
  <2>4. Arrives'
    BY <2>1, <2>2, DownloadFacts, ArrivedKept
  <2>5. DownloadTypes'
    BY <2>1, GeneratorsKept DEF DownloadInv, DownloadTypes
  <2>6. InOrder'
    BY <2>1, <2>2 DEF DownloadInv, InOrder, Untouched
  <2>7. CsvComplete' /\ FailedMeansNone'
    BY <2>1 DEF DownloadInv, CsvComplete, FailedMeansNone, successCount
  <2>. QED  BY <2>3, <2>4, <2>5, <2>6, <2>7 DEF DownloadInv
<1>. QED
  BY <1>1, SubmitKeepsInv, EarlyStepKeepsInv, RefuseKeepsInv, SendKeepsInv,
     EndKeepsInv, ReceiveChunkKeepsInv, ReceiveEndKeepsInv, StatusStepKeepsInv,
     ReadLineKeepsInv, WorkerAnswersKeepsInv, CheckKeepsInv
  DEF Next

(* However the text is cut, the answers are interleaved, the connection    *)
(* breaks or the server falls short: each line that was read is counted    *)
(* once, an undisturbed file has one row for each response that can be     *)
(* decrypted, each answer stands in one cell under its own question, and   *)
(* an admin who is told of a failure misses no response.                   *)
THEOREM ExportIsCorrect == Spec => []ExportCorrect
<1>1. Init => DownloadInv
  BY DownloadInvInit
<1>2. DownloadInv /\ [Next]_vars => DownloadInv'
  BY DownloadInvNext
<1>3. DownloadInv => ExportCorrect
  BY DownloadInvIsCorrect
<1>. QED  BY <1>1, <1>2, <1>3, PTL DEF Spec

-----------------------------------------------------------------------------
(***************************************************************************)
(* A page of the table, by the number of responses that it was cut from.   *)
(***************************************************************************)

Before(p) == (p - 1) * pageSize

RowsOf(count, p) ==
    IF count - Before(p) < pageSize THEN count - Before(p) ELSE pageSize

LEMMA BeforePage ==
  ASSUME NEW p \in Nat \ {0}
  PROVE  /\ Before(p) \in Nat
         /\ Before(p + 1) = Before(p) + pageSize
         /\ p # 1 => p - 1 \in Nat \ {0} /\ Before(p) = Before(p - 1) + pageSize
<1>1. pageSize \in Nat
  BY BrowsingAssumption
<1>2. Before(p) \in Nat
  BY <1>1 DEF Before
<1>3. Before(p + 1) = Before(p) + pageSize
  BY <1>1 DEF Before
<1>4. ASSUME p # 1
      PROVE  p - 1 \in Nat \ {0} /\ Before(p) = Before(p - 1) + pageSize
  BY <1>1, <1>4 DEF Before
<1>. QED  BY <1>2, <1>3, <1>4

LEMMA PageRows ==
  ASSUME NEW count \in Nat, NEW p \in Nat \ {0}, Before(p) < count
  PROVE  /\ RowsOf(count, p) \in 1..pageSize
         /\ DOMAIN PageOf(count, p) = 1..RowsOf(count, p)
         /\ Len(PageOf(count, p)) = RowsOf(count, p)
         /\ \A row \in 1..RowsOf(count, p) :
               /\ PageOf(count, p)[row]
                     = [refNo |-> count - Before(p) - row + 1,
                        number |-> count - Before(p) - row + 1]
               /\ count - Before(p) - row + 1 \in 1..count
<1>1. pageSize \in Nat \ {0} /\ Before(p) \in Nat
  BY BrowsingAssumption, BeforePage
<1>. DEFINE n == RowsOf(count, p)
<1>2. n \in 1..pageSize
  BY <1>1 DEF RowsOf
<1>3. PageOf(count, p)
         = [row \in 1..n |-> [refNo |-> count - Before(p) - row + 1,
                              number |-> count - Before(p) - row + 1]]
  BY DEF PageOf, NumberOf, RowsOf, Before
<1>4. n \in Nat /\ n <= count - Before(p)
  BY <1>1, <1>2 DEF RowsOf
<1>. HIDE DEF n
<1>5. PageOf(count, p) \in Seq([refNo : Int, number : Int])
  BY <1>1, <1>3, <1>4
<1>6. Len(PageOf(count, p)) = n /\ DOMAIN PageOf(count, p) = 1..n
  BY <1>3, <1>4, <1>5
<1>7. \A row \in 1..n : count - Before(p) - row + 1 \in 1..count
  BY <1>1, <1>4
<1>. QED  BY <1>2, <1>3, <1>6, <1>7 DEF n

(***************************************************************************)
(* The tab.  The table is a page of as many responses as a count has told  *)
(* of, the response that was asked for is in it while it is open, and      *)
(* nothing else is under way unless a count came early.                    *)
(***************************************************************************)

Responses == [refNo : Nat, number : Nat]

Counted == responsesCount \in Nat /\ stored \in Nat /\ responsesCount <= stored

TableCut ==
    /\ page \in Nat \ {0}
    /\ view = 1 => table = <<>>
    /\ table # <<>> =>
          \E count \in 1..responsesCount :
              Before(page) < count /\ table = PageOf(count, page)

RightlyNumbered(response) ==
    response \in Responses /\ response.refNo = response.number

OpenedIsInTable ==
    /\ current # None =>
          current \in [index : Nat, number : 1..responsesCount]
    /\ view = 3 => /\ current # None
                   /\ table # <<>>
                   /\ current.index \in DOMAIN table
                   /\ table[current.index].number = current.number

TurnedFrom ==
    turning # None =>
        /\ view = 3
        /\ \/ /\ turning = [page |-> page + 1, row |-> 1, by |-> "next"]
              /\ current.number > 1
              /\ current.index = Len(table)
           \/ /\ turning = [page |-> page - 1, row |-> pageSize,
                            by |-> "previous"]
              /\ current.index = 1

OneFetched ==
    ~hasty =>
        /\ turning # None => loading /\ fetching = {}
        /\ fetching # {} => view = 3 /\ loading
        /\ \A f, g \in fetching : f = g
        /\ \A f \in fetching : f.number = current.number
        /\ view = 3 /\ ~loading =>
              shown # None /\ shown.number = current.number

BrowseInv ==
    /\ view \in 1..3 /\ loading \in BOOLEAN /\ hasty \in BOOLEAN
    /\ onTab \in BOOLEAN /\ countAsked \in BOOLEAN
    /\ Counted
    /\ TableCut
    /\ shown # None => RightlyNumbered(shown)
    /\ \A response \in fetching : RightlyNumbered(response)
    /\ OpenedIsInTable
    /\ TurnedFrom
    /\ OneFetched

LEMMA TableRows ==
  ASSUME Counted, TableCut, table # <<>>
  PROVE  \E count \in 1..responsesCount :
            /\ Before(page) < count /\ table = PageOf(count, page)
            /\ Before(page) \in Nat
            /\ RowsOf(count, page) \in 1..pageSize
            /\ DOMAIN table = 1..RowsOf(count, page)
            /\ Len(table) = RowsOf(count, page)
            /\ \A row \in DOMAIN table :
                  /\ RightlyNumbered(table[row])
                  /\ table[row].number = count - Before(page) - row + 1
                  /\ table[row].number \in 1..count
<1>1. PICK count \in 1..responsesCount :
         Before(page) < count /\ table = PageOf(count, page)
  BY DEF TableCut
<1>2. count \in Nat /\ page \in Nat \ {0}
  BY DEF Counted, TableCut
<1>3. Before(page) \in Nat
  BY <1>2, BeforePage
<1>4. /\ RowsOf(count, page) \in 1..pageSize
      /\ DOMAIN table = 1..RowsOf(count, page)
      /\ Len(table) = RowsOf(count, page)
      /\ \A row \in DOMAIN table :
            /\ table[row] = [refNo |-> count - Before(page) - row + 1,
                             number |-> count - Before(page) - row + 1]
            /\ count - Before(page) - row + 1 \in 1..count
  BY <1>1, <1>2, PageRows
<1>5. ASSUME NEW row \in DOMAIN table
      PROVE  /\ RightlyNumbered(table[row])
             /\ table[row].number = count - Before(page) - row + 1
             /\ table[row].number \in 1..count
  <2>1. table[row] = [refNo |-> count - Before(page) - row + 1,
                      number |-> count - Before(page) - row + 1]
    BY <1>4, <1>5
  <2>2. count - Before(page) - row + 1 \in 1..count
    BY <1>4, <1>5
  <2>3. count - Before(page) - row + 1 \in Nat
    BY <1>2, <2>2
  <2>. QED  BY <2>1, <2>2, <2>3 DEF RightlyNumbered, Responses
<1>. QED  BY <1>1, <1>3, <1>4, <1>5

LEMMA BrowseInvShows ==
  ASSUME BrowseInv
  PROVE  ShownAsNumbered
<1>1. ASSUME NEW row \in DOMAIN table
      PROVE  /\ table[row].refNo \in 1..stored
             /\ table[row].refNo = table[row].number
  <2>1. table # <<>>
    OBVIOUS
  <2>2. PICK count \in 1..responsesCount :
           \A i \in DOMAIN table : /\ RightlyNumbered(table[i])
                                   /\ table[i].number \in 1..count
    BY <2>1, TableRows DEF BrowseInv
  <2>3. RightlyNumbered(table[row]) /\ table[row].number \in 1..count
    BY <2>2
  <2>. QED  BY <2>3 DEF RightlyNumbered, BrowseInv, Counted
<1>2. NumbersAreRanks
  BY <1>1 DEF NumbersAreRanks, BrowseInv, OpenedIsInTable, RightlyNumbered
<1>3. ShownWasAskedFor
  BY DEF ShownWasAskedFor, BrowseInv, OneFetched
<1>. QED  BY <1>2, <1>3 DEF ShownAsNumbered

(***************************************************************************)
(* The steps.                                                              *)
(***************************************************************************)

(* A table that has been filled.                                           *)
LEMMA Filled ==
  ASSUME BrowseInv, NEW p \in Nat \ {0}, Before(p) < stored, FillTable(p),
         stored' = stored, view' \in {2, 3}
  PROVE  /\ Counted' /\ TableCut' /\ table' # <<>>
         /\ table' = PageOf(stored, p)
         /\ responsesCount \in 0..responsesCount'
         /\ DOMAIN table' = 1..RowsOf(stored, p)
         /\ \A row \in DOMAIN table' :
               /\ RightlyNumbered(table'[row])
               /\ table'[row].number = stored - Before(p) - row + 1
               /\ table'[row].number \in 1..responsesCount'
<1>1. stored \in Nat /\ responsesCount \in Nat /\ responsesCount <= stored
  BY DEF BrowseInv, Counted
<1>2. table' = PageOf(stored, p) /\ responsesCount' = stored /\ page' = p
  BY DEF FillTable
<1>3. Counted'
  BY <1>1, <1>2 DEF Counted
<1>4. Before(p) \in Nat
  BY BeforePage
<1>5. table' # <<>>
  <2>1. RowsOf(stored, p) \in 1..pageSize /\ Len(table') = RowsOf(stored, p)
    BY <1>1, <1>2, PageRows
  <2>. QED  BY <2>1
<1>6. stored \in 1..responsesCount'
  BY <1>1, <1>2, <1>4
<1>7. TableCut'
  BY <1>2, <1>5, <1>6 DEF TableCut
<1>8. /\ DOMAIN table' = 1..RowsOf(stored, p)
      /\ \A row \in DOMAIN table' :
            /\ table'[row] = [refNo |-> stored - Before(p) - row + 1,
                              number |-> stored - Before(p) - row + 1]
            /\ stored - Before(p) - row + 1 \in 1..stored
  BY <1>1, <1>2, PageRows
<1>9. ASSUME NEW row \in DOMAIN table'
      PROVE  /\ RightlyNumbered(table'[row])
             /\ table'[row].number = stored - Before(p) - row + 1
             /\ table'[row].number \in 1..responsesCount'
  <2>1. table'[row] = [refNo |-> stored - Before(p) - row + 1,
                       number |-> stored - Before(p) - row + 1]
    BY <1>8, <1>9
  <2>2. stored - Before(p) - row + 1 \in 1..stored
    BY <1>8, <1>9
  <2>3. stored - Before(p) - row + 1 \in Nat
    BY <1>1, <2>2
  <2>. QED  BY <1>2, <2>1, <2>2, <2>3 DEF RightlyNumbered, Responses
<1>. QED  BY <1>1, <1>2, <1>3, <1>5, <1>7, <1>8, <1>9

(* A row that has been opened.                                             *)
LEMMA Opened ==
  ASSUME BrowseInv, Counted', TableCut', table' # <<>>,
         responsesCount \in 0..responsesCount',
         NEW row \in DOMAIN table', Open(row, table'), row \in Nat,
         RightlyNumbered(table'[row]),
         table'[row].number \in 1..responsesCount',
         ~hasty => fetching = {}, hasty' = hasty, turning' = None,
         shown' = shown, onTab' \in BOOLEAN, countAsked' \in BOOLEAN
  PROVE  BrowseInv'
<1>1. /\ current' = [index |-> row, number |-> table'[row].number]
      /\ fetching' = fetching \cup {table'[row]}
      /\ loading' = TRUE /\ view' = 3
  BY DEF Open
<1>2. table'[row].number \in Nat
  BY DEF RightlyNumbered, Responses
<1>3. current' \in [index : Nat, number : Nat]
  BY <1>1, <1>2
<1>4. current' # None
  BY <1>3, BrowsingAssumption
<1>5. OpenedIsInTable'
  BY <1>1, <1>2, <1>4 DEF OpenedIsInTable
<1>6. OneFetched'
  BY <1>1 DEF OneFetched
<1>7. TurnedFrom'
  BY DEF TurnedFrom
<1>8. \A response \in fetching' : RightlyNumbered(response)
  BY <1>1 DEF BrowseInv
<1>. QED  BY <1>1, <1>5, <1>6, <1>7, <1>8 DEF BrowseInv

LEMMA UnlockInOrder ==
  ASSUME BrowseInv, Unlock
  PROVE  BrowseInv'
<1>1. /\ loading = FALSE /\ responsesCount > 0 /\ view = 1 /\ turning = None
      /\ view' = 2 /\ FillTable(1) /\ stored' = stored
      /\ UNCHANGED <<loading, onTab, countAsked, turning, current, fetching,
                     shown, hasty>>
  BY DEF Unlock, Clickable, BrowseInv, vars, serverVars
<1>2. Before(1) = 0 /\ stored > 0
  BY <1>1, BrowsingAssumption DEF Before, BrowseInv, Counted
<1>3. /\ Counted' /\ TableCut' /\ responsesCount \in 0..responsesCount'
  BY <1>1, <1>2, Filled
<1>4. OpenedIsInTable'
  BY <1>1, <1>3 DEF BrowseInv, OpenedIsInTable, Counted
<1>5. OneFetched' /\ TurnedFrom'
  BY <1>1 DEF BrowseInv, OneFetched, TurnedFrom
<1>. QED  BY <1>1, <1>3, <1>4, <1>5 DEF BrowseInv

LEMMA LastPage ==
  ASSUME NEW n \in Nat,
         NEW p \in 1..((n + pageSize - 1) \div pageSize)
  PROVE  p \in Nat \ {0} /\ Before(p) < n
<1>1. pageSize \in Nat \ {0}
  BY BrowsingAssumption
<1>. DEFINE q == (n + pageSize - 1) \div pageSize
<1>2. q \in Nat /\ q * pageSize <= n + pageSize - 1
  BY <1>1
<1>. HIDE DEF q
<1>3. p \in Nat \ {0} /\ p <= q
  BY <1>2 DEF q
<1>4. p * pageSize <= q * pageSize
  BY <1>1, <1>2, <1>3
<1>5. Before(p) = p * pageSize - pageSize
  BY <1>1, <1>3 DEF Before
<1>. QED  BY <1>1, <1>2, <1>3, <1>4, <1>5

LEMMA TurnTableInOrder ==
  ASSUME BrowseInv, TurnTable
  PROVE  BrowseInv'
<1>1. PICK p \in 1..((responsesCount + pageSize - 1) \div pageSize) \ {page} :
         FillTable(p)
  BY DEF TurnTable
<1>2. /\ ~loading /\ view = 2 /\ turning = None /\ stored' = stored
      /\ UNCHANGED <<view, loading, onTab, countAsked, turning, current,
                     fetching, shown, hasty>>
  BY DEF TurnTable, Clickable, vars, serverVars
<1>3. /\ responsesCount \in Nat /\ stored \in Nat
      /\ responsesCount <= stored
  BY DEF BrowseInv, Counted
<1>4. p \in Nat \ {0} /\ Before(p) < stored
  <2>1. p \in Nat \ {0} /\ Before(p) < responsesCount
    BY <1>3, LastPage
  <2>. QED  BY <1>3, <2>1, BeforePage
<1>5. Counted' /\ TableCut' /\ responsesCount \in 0..responsesCount'
  BY <1>1, <1>2, <1>4, Filled
<1>6. OpenedIsInTable'
  BY <1>2, <1>5 DEF BrowseInv, OpenedIsInTable, Counted
<1>7. OneFetched' /\ TurnedFrom'
  BY <1>2 DEF BrowseInv, OneFetched, TurnedFrom
<1>. QED  BY <1>2, <1>5, <1>6, <1>7 DEF BrowseInv

(* A row of the table as it is.                                            *)
LEMMA RowOpened ==
  ASSUME BrowseInv, UNCHANGED <<stored, tableVars, hasty, turning, shown>>,
         turning = None, ~loading, table # <<>>,
         NEW row \in DOMAIN table, Open(row, table),
         onTab' \in BOOLEAN, countAsked' \in BOOLEAN
  PROVE  BrowseInv'
<1>1. UNCHANGED <<stored, responsesCount, page, table, hasty, turning, shown>>
  BY DEF tableVars
<1>2. PICK count \in 1..responsesCount :
         /\ RowsOf(count, page) \in 1..pageSize
         /\ DOMAIN table = 1..RowsOf(count, page)
         /\ \A i \in DOMAIN table : /\ RightlyNumbered(table[i])
                                 /\ table[i].number \in 1..count
  BY TableRows DEF BrowseInv
<1>3. responsesCount \in Nat
  BY DEF BrowseInv, Counted
<1>4. table[row].number \in 1..responsesCount /\ row \in Nat
  BY <1>2, <1>3
<1>5. view' = 3
  BY DEF Open
<1>6. Counted' /\ TableCut'
  BY <1>1, <1>5 DEF BrowseInv, Counted, TableCut
<1>7. ~hasty => fetching = {}
  BY DEF BrowseInv, OneFetched
<1>8. responsesCount \in 0..responsesCount'
  BY <1>1, <1>3
<1>9. table' # <<>> /\ row \in DOMAIN table' /\ Open(row, table')
      /\ RightlyNumbered(table'[row])
      /\ table'[row].number \in 1..responsesCount'
  BY <1>1, <1>2, <1>4
<1>. QED  BY <1>1, <1>4, <1>6, <1>7, <1>8, <1>9, Opened

LEMMA RowOnClickInOrder ==
  ASSUME BrowseInv, RowOnClick
  PROVE  BrowseInv'
<1>1. PICK row \in DOMAIN table : Open(row, table)
  BY DEF RowOnClick
<1>2. /\ ~loading /\ turning = None
      /\ UNCHANGED <<stored, onTab, countAsked, tableVars, turning, shown, hasty>>
  BY DEF RowOnClick, Clickable, vars, serverVars
<1>3. table # <<>>
  OBVIOUS
<1>. QED  BY <1>1, <1>2, <1>3, RowOpened DEF BrowseInv

LEMMA BackToListInOrder ==
  ASSUME BrowseInv, BackToList
  PROVE  BrowseInv'
<1>1. /\ ~loading /\ turning = None /\ view = 3 /\ view' = 2
      /\ UNCHANGED <<stored, responsesCount, page, table, loading, onTab,
                     countAsked, turning, current, fetching, shown, hasty>>
  BY DEF BackToList, Clickable, vars, serverVars, tableVars
<1>2. Counted' /\ TableCut' /\ OpenedIsInTable'
  BY <1>1 DEF BrowseInv, Counted, TableCut, OpenedIsInTable
<1>3. TurnedFrom' /\ OneFetched'
  BY <1>1 DEF BrowseInv, TurnedFrom, OneFetched
<1>. QED  BY <1>1, <1>2, <1>3 DEF BrowseInv

(* What is open is a row of the table, and has the number of its row.      *)
LEMMA OpenRow ==
  ASSUME BrowseInv, view = 3
  PROVE  \E count \in 1..responsesCount :
            /\ Before(page) \in Nat /\ Before(page) < count
            /\ table = PageOf(count, page) /\ table # <<>>
            /\ RowsOf(count, page) \in 1..pageSize
            /\ DOMAIN table = 1..RowsOf(count, page)
            /\ Len(table) = RowsOf(count, page)
            /\ current.index \in DOMAIN table
            /\ current.number = count - Before(page) - current.index + 1
            /\ \A row \in DOMAIN table :
                  table[row].number = count - Before(page) - row + 1
BY TableRows DEF BrowseInv, OpenedIsInTable

(* The page is turned.                                                     *)
LEMMA Turned ==
  ASSUME BrowseInv, view = 3, ~loading, turning = None,
         loading' = TRUE, TurnedFrom', turning' # None,
         UNCHANGED <<view, fetching, current, stored, onTab, countAsked,
                     tableVars, shown, hasty>>
  PROVE  BrowseInv'
<1>1. UNCHANGED <<responsesCount, page, table>>
  BY DEF tableVars
<1>2. Counted' /\ TableCut' /\ OpenedIsInTable'
  BY <1>1 DEF BrowseInv, Counted, TableCut, OpenedIsInTable
<1>3. OneFetched'
  BY DEF BrowseInv, OneFetched
<1>. QED  BY <1>1, <1>2, <1>3 DEF BrowseInv

LEMMA NextInOrder ==
  ASSUME BrowseInv, NextRespondent
  PROVE  BrowseInv'
<1>1. /\ ~loading /\ view = 3 /\ turning = None /\ current.number > 1
      /\ UNCHANGED <<stored, onTab, countAsked, tableVars, shown, hasty>>
  BY DEF NextRespondent, Clickable, vars, serverVars
<1>2. PICK count \in 1..responsesCount :
         /\ RowsOf(count, page) \in 1..pageSize
         /\ DOMAIN table = 1..RowsOf(count, page)
         /\ Len(table) = RowsOf(count, page)
         /\ current.index \in DOMAIN table
         /\ table # <<>>
  BY <1>1, OpenRow
<1>3. CASE IsLastRow(current.index)
  <2>1. /\ turning' = [page |-> page + 1, row |-> 1, by |-> "next"]
        /\ loading' = TRUE /\ UNCHANGED <<view, fetching, current>>
    BY <1>3 DEF NextRespondent
  <2>2. current.index = Len(table)
    BY <1>2, <1>3, BrowsingAssumption DEF IsLastRow
  <2>3. page \in Nat
    BY DEF BrowseInv, TableCut
  <2>4. turning' # None
    BY <2>1, <2>3, BrowsingAssumption
  <2>5. TurnedFrom'
    BY <1>1, <2>1, <2>2 DEF TurnedFrom, tableVars
  <2>. QED  BY <1>1, <2>1, <2>4, <2>5, Turned
<1>4. CASE ~IsLastRow(current.index)
  <2>1. Open(current.index + 1, table) /\ UNCHANGED turning
    BY <1>4 DEF NextRespondent
  <2>2. current.index + 1 \in DOMAIN table
    BY <1>2, <1>4, BrowsingAssumption DEF IsLastRow
  <2>. QED  BY <1>1, <1>2, <2>1, <2>2, RowOpened DEF BrowseInv
<1>. QED  BY <1>3, <1>4

LEMMA PreviousInOrder ==
  ASSUME BrowseInv, PreviousRespondent
  PROVE  BrowseInv'
<1>1. /\ ~loading /\ view = 3 /\ turning = None
      /\ UNCHANGED <<stored, onTab, countAsked, tableVars, shown, hasty>>
  BY DEF PreviousRespondent, Clickable, vars, serverVars
<1>2. PICK count \in 1..responsesCount :
         /\ RowsOf(count, page) \in 1..pageSize
         /\ DOMAIN table = 1..RowsOf(count, page)
         /\ current.index \in DOMAIN table
         /\ table # <<>>
  BY <1>1, OpenRow
<1>3. CASE current.index = 1
  <2>1. /\ turning' = [page |-> page - 1, row |-> pageSize,
                       by |-> "previous"]
        /\ loading' = TRUE /\ UNCHANGED <<view, fetching, current>>
    BY <1>3 DEF PreviousRespondent, LastRow
  <2>2. page - 1 \in Nat /\ pageSize \in Nat
    BY BrowsingAssumption DEF BrowseInv, TableCut
  <2>3. turning' # None
    BY <2>1, <2>2, BrowsingAssumption
  <2>4. TurnedFrom'
    BY <1>1, <1>3, <2>1 DEF TurnedFrom, tableVars
  <2>. QED  BY <1>1, <2>1, <2>3, <2>4, Turned
<1>4. CASE current.index # 1
  <2>1. Open(current.index - 1, table) /\ UNCHANGED turning
    BY <1>4 DEF PreviousRespondent
  <2>2. current.index - 1 \in DOMAIN table
    BY <1>2, <1>4, BrowsingAssumption
  <2>. QED  BY <1>1, <1>2, <2>1, <2>2, RowOpened DEF BrowseInv
<1>. QED  BY <1>3, <1>4

(* The page that a turn brings has the row that is opened, and how its     *)
(* number compares with the one that was open.                             *)
LEMMA TurnBrings ==
  ASSUME BrowseInv, turning # None, turning.page > 0
  PROVE  /\ turning.page \in Nat \ {0} /\ Before(turning.page) < stored
         /\ turning.row \in 1..RowsOf(stored, turning.page)
         /\ turning.by = "next" =>
               current.number - 1
                  <= stored - Before(turning.page) - turning.row + 1
         /\ table = PageOf(stored, page) =>
               stored - Before(turning.page) - turning.row + 1
                  = IF turning.by = "next" THEN current.number - 1
                    ELSE current.number + 1
<1>1. view = 3 /\ page \in Nat \ {0} /\ stored \in Nat
      /\ responsesCount \in Nat /\ responsesCount <= stored
  BY DEF BrowseInv, TurnedFrom, TableCut, Counted
<1>2. PICK count \in 1..responsesCount :
         /\ Before(page) \in Nat /\ Before(page) < count
         /\ table = PageOf(count, page) /\ table # <<>>
         /\ RowsOf(count, page) \in 1..pageSize
         /\ DOMAIN table = 1..RowsOf(count, page)
         /\ Len(table) = RowsOf(count, page)
         /\ current.index \in DOMAIN table
         /\ current.number = count - Before(page) - current.index + 1
         /\ \A row \in DOMAIN table :
               table[row].number = count - Before(page) - row + 1
  BY <1>1, OpenRow
<1>3. pageSize \in Nat \ {0} /\ count \in Nat /\ count <= stored
  BY <1>1, <1>2, BrowsingAssumption
<1>4. table = PageOf(stored, page) => count = stored
  <2>. SUFFICES ASSUME table = PageOf(stored, page)
                PROVE  count = stored
    OBVIOUS
  <2>1. Before(page) < stored
    BY <1>1, <1>2, <1>3
  <2>2. RowsOf(stored, page) \in 1..pageSize
    BY <1>1, <2>1, PageRows
  <2>3. 1 \in 1..RowsOf(stored, page) /\ 1 \in 1..RowsOf(count, page)
    BY <1>2, <1>3, <2>2
  <2>4. PageOf(stored, page)[1]
           = [refNo |-> stored - Before(page) - 1 + 1,
              number |-> stored - Before(page) - 1 + 1]
    BY <1>1, <2>1, <2>3, PageRows
  <2>5. table[1].number = count - Before(page) - 1 + 1
    BY <1>2, <2>3
  <2>. QED  BY <1>1, <1>2, <1>3, <2>4, <2>5
<1>5. CASE /\ turning = [page |-> page + 1, row |-> 1, by |-> "next"]
           /\ current.number > 1
           /\ current.index = Len(table)
  <2>1. Before(page + 1) = Before(page) + pageSize /\ page + 1 \in Nat \ {0}
    BY <1>1, BeforePage
  <2>2. RowsOf(count, page) = pageSize
    BY <1>2, <1>3, <1>5 DEF RowsOf
  <2>3. current.number = count - Before(page) - pageSize + 1
    BY <1>2, <1>5, <2>2
  <2>4. Before(page + 1) < stored
    BY <1>1, <1>2, <1>3, <1>5, <2>1, <2>3
  <2>5. RowsOf(stored, page + 1) \in 1..pageSize
    BY <1>1, <2>1, <2>4, PageRows
  <2>6. 1 \in 1..RowsOf(stored, page + 1)
    BY <1>3, <2>5
  <2>7. turning.page = page + 1 /\ turning.row = 1 /\ turning.by = "next"
    BY <1>5
  <2>8. /\ current.number - 1 <= stored - Before(page + 1) - 1 + 1
        /\ table = PageOf(stored, page) =>
              stored - Before(page + 1) - 1 + 1 = current.number - 1
    BY <1>1, <1>2, <1>3, <1>4, <2>1, <2>3
  <2>. QED  BY <1>1, <2>1, <2>4, <2>6, <2>7, <2>8
<1>6. CASE /\ turning = [page |-> page - 1, row |-> pageSize,
                         by |-> "previous"]
           /\ current.index = 1
  <2>1. page # 1
    BY <1>1, <1>6
  <2>2. Before(page) = Before(page - 1) + pageSize /\ page - 1 \in Nat \ {0}
    BY <1>1, <2>1, BeforePage
  <2>3. Before(page - 1) \in Nat
    BY <2>2, BeforePage
  <2>4. current.number = count - Before(page)
    BY <1>2, <1>3, <1>6
  <2>5. Before(page - 1) < stored
    BY <1>1, <1>2, <1>3, <2>2, <2>3
  <2>6. RowsOf(stored, page - 1) = pageSize
    BY <1>1, <1>2, <1>3, <2>2, <2>3 DEF RowsOf
  <2>7. pageSize \in 1..RowsOf(stored, page - 1)
    BY <1>3, <2>6
  <2>. QED  BY <1>1, <1>2, <1>3, <1>4, <1>6, <2>2, <2>3, <2>4, <2>5, <2>7
<1>. QED  BY <1>5, <1>6 DEF BrowseInv, TurnedFrom

LEMMA ReloadTableInOrder ==
  ASSUME BrowseInv, ReloadTable
  PROVE  BrowseInv'
<1>1. /\ turning # None /\ turning.page > 0 /\ FillTable(turning.page)
      /\ Open(turning.row, table') /\ turning' = None
      /\ UNCHANGED <<stored, onTab, countAsked, shown, hasty>>
  BY DEF ReloadTable, vars, serverVars
<1>2. /\ turning.page \in Nat \ {0} /\ Before(turning.page) < stored
      /\ turning.row \in 1..RowsOf(stored, turning.page)
  BY <1>1, TurnBrings
<1>3. view' = 3 /\ stored \in Nat
  BY <1>1 DEF Open, BrowseInv, Counted
<1>4. /\ Counted' /\ TableCut' /\ table' # <<>>
      /\ responsesCount \in 0..responsesCount'
      /\ DOMAIN table' = 1..RowsOf(stored, turning.page)
      /\ \A row \in DOMAIN table' :
            /\ RightlyNumbered(table'[row])
            /\ table'[row].number \in 1..responsesCount'
  BY <1>1, <1>2, <1>3, Filled
<1>5. turning.row \in Nat /\ turning.row \in DOMAIN table'
  BY <1>2, <1>4
<1>6. ~hasty => fetching = {}
  BY <1>1 DEF BrowseInv, OneFetched
<1>. QED  BY <1>1, <1>4, <1>5, <1>6, Opened DEF BrowseInv

LEMMA ReceiveResponseInOrder ==
  ASSUME BrowseInv, ReceiveResponse
  PROVE  BrowseInv'
<1>1. PICK response \in fetching :
         shown' = response /\ fetching' = fetching \ {response}
  BY DEF ReceiveResponse
<1>2. /\ loading' = FALSE
      /\ UNCHANGED <<stored, responsesCount, page, table, view, onTab,
                     countAsked, turning, current, hasty>>
  BY DEF ReceiveResponse, vars, serverVars, tableVars
<1>3. RightlyNumbered(response) /\ response # None
  BY BrowsingAssumption DEF BrowseInv, RightlyNumbered, Responses
<1>4. Counted' /\ TableCut' /\ OpenedIsInTable' /\ TurnedFrom'
  BY <1>2
  DEF BrowseInv, Counted, TableCut, OpenedIsInTable, TurnedFrom
<1>5. OneFetched'
  BY <1>1, <1>2, <1>3 DEF BrowseInv, OneFetched
<1>. QED  BY <1>1, <1>2, <1>3, <1>4, <1>5 DEF BrowseInv

LEMMA LoseResponseInOrder ==
  ASSUME BrowseInv, LoseResponse
  PROVE  BrowseInv'
<1>1. PICK response \in fetching : fetching' = fetching \ {response}
  BY DEF LoseResponse
<1>2. UNCHANGED <<stored, responsesCount, page, table, view, loading, onTab,
                  countAsked, turning, current, shown, hasty>>
  BY DEF LoseResponse, vars, serverVars, tableVars
<1>3. Counted' /\ TableCut' /\ OpenedIsInTable' /\ TurnedFrom'
  BY <1>2
  DEF BrowseInv, Counted, TableCut, OpenedIsInTable, TurnedFrom
<1>4. OneFetched'
  BY <1>1, <1>2 DEF BrowseInv, OneFetched
<1>. QED  BY <1>1, <1>2, <1>3, <1>4 DEF BrowseInv

LEMMA SwitchTabInOrder ==
  ASSUME BrowseInv, SwitchTab
  PROVE  BrowseInv'
<1>1. /\ UNCHANGED <<stored, responsesCount, page, table, view, loading,
                     turning, current, fetching, shown, hasty>>
      /\ onTab' = ~onTab /\ countAsked' \in BOOLEAN
  BY DEF SwitchTab, vars, serverVars, tableVars
<1>2. Counted' /\ TableCut' /\ OpenedIsInTable' /\ TurnedFrom'
  BY <1>1
  DEF BrowseInv, Counted, TableCut, OpenedIsInTable, TurnedFrom
<1>3. OneFetched'
  BY <1>1 DEF BrowseInv, OneFetched
<1>. QED  BY <1>1, <1>2, <1>3 DEF BrowseInv

LEMMA ReceiveCountInOrder ==
  ASSUME BrowseInv, ReceiveCount
  PROVE  BrowseInv'
<1>1. /\ UNCHANGED <<stored, page, table, view, onTab, turning, current,
                     fetching, shown>>
      /\ countAsked' = FALSE /\ responsesCount' = stored /\ loading' = FALSE
      /\ hasty' = (hasty \/ (loading /\ current # None))
  BY DEF ReceiveCount, vars, serverVars
<1>2. /\ stored \in Nat /\ responsesCount \in Nat
      /\ responsesCount <= stored
  BY DEF BrowseInv, Counted
<1>3. Counted' /\ TableCut'
  BY <1>1, <1>2 DEF BrowseInv, Counted, TableCut
<1>4. OpenedIsInTable' /\ TurnedFrom'
  BY <1>1, <1>2 DEF BrowseInv, OpenedIsInTable, TurnedFrom
<1>5. OneFetched'
  <2>1. current = None => view # 3 /\ turning = None
    BY DEF BrowseInv, OpenedIsInTable, TurnedFrom
  <2>2. ~hasty' => /\ ~hasty /\ (~loading \/ current = None)
    BY <1>1 DEF BrowseInv
  <2>. QED  BY <1>1, <2>1, <2>2 DEF BrowseInv, OneFetched
<1>. QED  BY <1>1, <1>3, <1>4, <1>5 DEF BrowseInv

(* What happens besides the reading of responses.                          *)
LEMMA Unread ==
  ASSUME BrowseInv, UNCHANGED browseVars, stored' \in {stored, stored + 1}
  PROVE  BrowseInv'
<1>1. UNCHANGED <<responsesCount, page, table, view, loading, onTab,
                  countAsked, turning, current, fetching, shown, hasty>>
  BY DEF browseVars, tableVars
<1>2. Counted'
  BY <1>1 DEF BrowseInv, Counted
<1>3. TableCut' /\ OpenedIsInTable' /\ TurnedFrom' /\ OneFetched'
  BY <1>1
  DEF BrowseInv, TableCut, OpenedIsInTable, TurnedFrom, OneFetched
<1>4. /\ shown' # None => RightlyNumbered(shown')
      /\ \A response \in fetching' : RightlyNumbered(response)
  BY <1>1 DEF BrowseInv
<1>. QED  BY <1>1, <1>2, <1>3, <1>4 DEF BrowseInv

LEMMA StoredUnlessSubmitted ==
  ASSUME \/ ExportCsv \/ Count \/ CountFails \/ OpenStream \/ RefuseStream
         \/ SendRecord \/ EndStream \/ EndStreamEarly \/ BreakConnection
         \/ ReceiveChunk \/ ReceiveEnd \/ ReadLine \/ ReadEnd
         \/ \E w \in Workers : WorkerAnswers(w)
         \/ RejectDownload \/ DownloadCsv
  PROVE  UNCHANGED <<records, stored>>
BY DEF ExportCsv, Count, CountFails, OpenStream, RefuseStream, SendRecord,
       EndStream, EndStreamEarly, BreakConnection, ReceiveChunk, ReceiveEnd,
       ReadLine, ReadEnd, WorkerAnswers, RejectDownload, DownloadCsv, Stop,
       serverVars

LEMMA BrowseNextInv ==
  BrowseInv /\ [TabNext]_tabVars => BrowseInv'
<1>. SUFFICES ASSUME BrowseInv, [TabNext]_tabVars
              PROVE  BrowseInv'
  OBVIOUS
<1>1. CASE \/ Reads(SwitchTab) \/ Reads(ReceiveCount) \/ Reads(Unlock)
           \/ Reads(TurnTable) \/ Reads(RowOnClick) \/ Reads(BackToList)
           \/ Reads(NextRespondent) \/ Reads(PreviousRespondent)
           \/ Reads(ReloadTable) \/ Reads(ReceiveResponse)
           \/ Reads(LoseResponse)
  BY <1>1, SwitchTabInOrder, ReceiveCountInOrder, UnlockInOrder,
     TurnTableInOrder, RowOnClickInOrder, BackToListInOrder, NextInOrder,
     PreviousInOrder, ReloadTableInOrder, ReceiveResponseInOrder,
     LoseResponseInOrder
  DEF Reads
<1>2. CASE Submit /\ UNCHANGED browseVars
  BY <1>2, Unread DEF Submit
<1>3. CASE UNCHANGED tabVars
  BY <1>3, Unread DEF tabVars, vars, serverVars
<1>4. CASE \/ Exports(ExportCsv) \/ Exports(Count) \/ Exports(CountFails)
           \/ Exports(OpenStream) \/ Exports(RefuseStream)
           \/ Exports(SendRecord) \/ Exports(EndStream)
           \/ Exports(EndStreamEarly) \/ Exports(BreakConnection)
           \/ Exports(ReceiveChunk) \/ Exports(ReceiveEnd)
           \/ Exports(ReadLine) \/ Exports(ReadEnd)
           \/ \E w \in Workers : Exports(WorkerAnswers(w))
           \/ Exports(RejectDownload) \/ Exports(DownloadCsv)
  BY <1>4, Unread, StoredUnlessSubmitted DEF Exports
<1>. QED  BY <1>1, <1>2, <1>3, <1>4 DEF TabNext

LEMMA BrowseInit ==
  TabInit => BrowseInv
<1>. SUFFICES ASSUME TabInit
              PROVE  BrowseInv
  OBVIOUS
<1>1. stored \in Nat
  <2>1. records \in Histories /\ stored \in 0..Len(records)
    BY DEF TabInit, Init
  <2>2. Len(records) \in Nat
    BY <2>1, DownloadAssumption
  <2>. QED  BY <2>1, <2>2
<1>2. Counted /\ TableCut
  BY <1>1 DEF TabInit, Counted, TableCut
<1>3. OpenedIsInTable /\ TurnedFrom /\ OneFetched
  BY DEF TabInit, OpenedIsInTable, TurnedFrom, OneFetched
<1>4. /\ view = 1 /\ loading = TRUE /\ hasty = FALSE /\ onTab = TRUE
      /\ countAsked = TRUE /\ shown = None /\ fetching = {}
  BY DEF TabInit
<1>5. /\ loading \in BOOLEAN /\ hasty \in BOOLEAN
      /\ onTab \in BOOLEAN /\ countAsked \in BOOLEAN
  BY <1>4, Zenon
<1>6. /\ shown # None => RightlyNumbered(shown)
      /\ \A response \in fetching : RightlyNumbered(response)
  BY <1>4
<1>7. view \in 1..3
  BY <1>4
<1>. QED  BY <1>2, <1>3, <1>5, <1>6, <1>7 DEF BrowseInv

(* Stepping to the neighbour: what the step leads to.                      *)
LEMMA StepLeads ==
  ASSUME BrowseInv, NEW by \in {"next", "previous"}, IsStep(by)
  PROVE  /\ by = "next" => current'.number >= current.number - 1
         /\ TableIsUpToDate =>
               current'.number = IF by = "next" THEN current.number - 1
                                 ELSE current.number + 1
<1>1. CASE by = "next" /\ NextRespondent /\ current' # current
  <2>1. view = 3 /\ Open(current.index + 1, table)
        /\ ~IsLastRow(current.index)
    BY <1>1 DEF NextRespondent, Clickable
  <2>2. PICK count \in 1..responsesCount :
           /\ Before(page) \in Nat
           /\ RowsOf(count, page) \in 1..pageSize
           /\ DOMAIN table = 1..RowsOf(count, page)
           /\ Len(table) = RowsOf(count, page)
           /\ current.index \in DOMAIN table
           /\ current.number = count - Before(page) - current.index + 1
           /\ \A row \in DOMAIN table :
                 table[row].number = count - Before(page) - row + 1
    BY <2>1, OpenRow
  <2>3. current.index + 1 \in DOMAIN table
    BY <2>1, <2>2, BrowsingAssumption DEF IsLastRow
  <2>4. current'.number = table[current.index + 1].number
    BY <2>1 DEF Open
  <2>5. count \in Nat /\ current.index \in Nat
    BY <2>2, BrowsingAssumption DEF BrowseInv, Counted
  <2>6. current'.number = current.number - 1
    BY <2>2, <2>3, <2>4, <2>5
  <2>. QED  BY <1>1, <2>2, <2>5, <2>6
<1>2. CASE by = "previous" /\ PreviousRespondent /\ current' # current
  <2>1. view = 3 /\ Open(current.index - 1, table) /\ current.index # 1
    BY <1>2 DEF PreviousRespondent, Clickable
  <2>2. PICK count \in 1..responsesCount :
           /\ Before(page) \in Nat
           /\ RowsOf(count, page) \in 1..pageSize
           /\ DOMAIN table = 1..RowsOf(count, page)
           /\ current.index \in DOMAIN table
           /\ current.number = count - Before(page) - current.index + 1
           /\ \A row \in DOMAIN table :
                 table[row].number = count - Before(page) - row + 1
    BY <2>1, OpenRow
  <2>3. current.index - 1 \in DOMAIN table
    BY <2>1, <2>2, BrowsingAssumption
  <2>4. current'.number = table[current.index - 1].number
    BY <2>1 DEF Open
  <2>5. count \in Nat /\ current.index \in Nat
    BY <2>2, BrowsingAssumption DEF BrowseInv, Counted
  <2>6. current'.number = current.number + 1
    BY <2>2, <2>3, <2>4, <2>5
  <2>. QED  BY <1>2, <2>6
<1>3. CASE turning # None /\ turning.by = by /\ ReloadTable
  <2>1. /\ turning.page > 0 /\ FillTable(turning.page)
        /\ Open(turning.row, table') /\ stored' = stored
    BY <1>3 DEF ReloadTable, vars, serverVars
  <2>2. view' = 3
    BY <2>1 DEF Open
  <2>3. /\ turning.page \in Nat \ {0} /\ Before(turning.page) < stored
        /\ turning.row \in 1..RowsOf(stored, turning.page)
        /\ turning.by = "next" =>
              current.number - 1
                 <= stored - Before(turning.page) - turning.row + 1
        /\ table = PageOf(stored, page) =>
              stored - Before(turning.page) - turning.row + 1
                 = IF turning.by = "next" THEN current.number - 1
                   ELSE current.number + 1
    BY <1>3, <2>1, TurnBrings
  <2>4. current'.number = stored - Before(turning.page) - turning.row + 1
    <3>1. /\ turning.row \in DOMAIN table'
          /\ table'[turning.row].number
                = stored - Before(turning.page) - turning.row + 1
      BY <2>1, <2>2, <2>3, Filled
    <3>. QED  BY <2>1, <3>1 DEF Open
  <2>. QED  BY <1>3, <2>3, <2>4 DEF TableIsUpToDate
<1>. QED  BY <1>1, <1>2, <1>3 DEF IsStep

(* An admin who reads the responses one by one is shown what the number    *)
(* beside a response says, and misses none by stepping, however many are   *)
(* submitted meanwhile.                                                    *)
THEOREM ResponsesBrowsed ==
  TabSpec => BrowsedInOrder
<1>1. BrowseInv /\ [TabNext]_tabVars
        => [/\ IsStep("next") =>
                 /\ current'.number >= current.number - 1
                 /\ TableIsUpToDate => current'.number = current.number - 1
            /\ (IsStep("previous") /\ TableIsUpToDate)
                 => current'.number = current.number + 1]_tabVars
  BY StepLeads
<1>2. BrowseInv => ShownAsNumbered
  BY BrowseInvShows
<1>. QED
  BY <1>1, <1>2, BrowseInit, BrowseNextInv, PTL
  DEF TabSpec, BrowsedInOrder, StepsToNeighbour

-----------------------------------------------------------------------------
(* The export from the page.  Every step of the page takes one of the      *)
(* export's steps or none of them.                                         *)

LEMMA TabStepExports ==
  ASSUME [TabNext]_tabVars
  PROVE  [Next]_vars
<1>1. CASE TabNext
  <2>1. ASSUME \/ SwitchTab \/ ReceiveCount \/ Unlock \/ TurnTable
               \/ RowOnClick \/ BackToList \/ NextRespondent
               \/ PreviousRespondent \/ ReloadTable \/ ReceiveResponse
               \/ LoseResponse
        PROVE  UNCHANGED vars
    BY <2>1 DEF SwitchTab, ReceiveCount, Unlock, TurnTable, RowOnClick,
                BackToList, NextRespondent, PreviousRespondent, ReloadTable,
                ReceiveResponse, LoseResponse
  <2>. QED  BY <1>1, <2>1 DEF TabNext, Reads, Exports, Next
<1>2. CASE UNCHANGED tabVars
  BY <1>2 DEF tabVars
<1>. QED  BY <1>1, <1>2

(* The file is as right for an admin who has browsed the responses before, *)
(* on the same page and with the same database.                            *)
THEOREM TabExportIsCorrect == TabSpec => []ExportCorrect
<1>1. TabInit => DownloadInv
  BY DownloadInvInit DEF TabInit
<1>2. DownloadInv /\ [TabNext]_tabVars => DownloadInv'
  BY TabStepExports, DownloadInvNext
<1>3. DownloadInv => ExportCorrect
  BY DownloadInvIsCorrect
<1>. QED  BY <1>1, <1>2, <1>3, PTL DEF TabSpec

================================================================================
