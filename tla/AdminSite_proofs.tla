---------------------------- MODULE AdminSite_proofs ----------------------------
(***************************************************************************)
(* Proofs about the pages of an admin apart from the builder: what they    *)
(* show, count and export is what the database holds.                      *)
(***************************************************************************)
EXTENDS AdminSite, FormEditing_proofs

-----------------------------------------------------------------------------
(* The feedback *)

(* Those who may still post feedback to the form.                          *)
Pending == {v \in Visitors \ Previewers : visit[v] \in {"rating", "posting"}}

FeedbackTypes ==
    /\ submissionCount \in Nat
    /\ formFeedback \in Seq([from : Visitors, rating : Ratings])
    /\ visit \in [Visitors -> {"open", "rating", "posting", "OK", "thanked",
                               "failed"}]
    /\ rating \in [Visitors -> Ratings \cup {Unset}]
    /\ shown \in [submissionCount : Nat, feedbackCount : Nat,
                  sum : {shown.sum}, overtaken : BOOLEAN]
    /\ exported \in [expected : Nat, lines : Nat]

Stored(v) == \E i \in DOMAIN formFeedback : formFeedback[i].from = v

(* Each feedback that is stored has used up one submission, and one that   *)
(* may still be posted another.                                            *)
FeedbackInv ==
    /\ FeedbackTypes
    /\ \A v \in Visitors : visit[v] = "posting" => rating[v] \in Ratings
    /\ \A i, j \in DOMAIN formFeedback :
          formFeedback[i].from = formFeedback[j].from => i = j
    /\ \A v \in Visitors :
          /\ Stored(v) => visit[v] \in {"OK", "thanked", "failed"}
          /\ Stored(v) => v \notin Previewers
          /\ visit[v] \in {"OK", "thanked"} /\ v \notin Previewers => Stored(v)
    /\ IsFiniteSet(Pending)
    /\ Len(formFeedback) + Cardinality(Pending) <= submissionCount
    /\ tab = "counted" /\ ~shown.overtaken =>
          shown.submissionCount = submissionCount
    /\ TabAddsUp
    /\ csv = "counted" => exported.expected <= Len(formFeedback)
    /\ ExportHasNoBlanks

LEMMA FeedbackInvInit ==
  ASSUME FeedbackInit
  PROVE  FeedbackInv
<1>1. FeedbackTypes
  BY DEF FeedbackInit, FeedbackTypes, NothingRead
<1>2. Pending = {}
  BY DEF FeedbackInit, Pending
<1>3. IsFiniteSet(Pending) /\ Cardinality(Pending) = 0
  BY <1>2, FS_EmptySet
<1>. QED  BY <1>1, <1>3 DEF FeedbackInit, FeedbackInv, Stored, TabAddsUp,
            ExportHasNoBlanks

(* Storing a feedback, and what a visitor does before and after it.        *)
LEMMA FeedbackStored ==
  ASSUME FeedbackInv, NEW v \in Visitors, StoreFeedback(v)
  PROVE  FeedbackInv'
<1>1. PICK entry \in [from : Visitors, rating : Ratings] :
         /\ entry.from = v
         /\ formFeedback' = Append(formFeedback, entry)
  BY DEF StoreFeedback, FeedbackInv
<1>2. /\ v \in Visitors \ Previewers /\ visit[v] = "posting"
      /\ visit' = [visit EXCEPT ![v] = "OK"]
      /\ UNCHANGED <<submissionCount, rating, tab, shown, csv, exported>>
  BY DEF StoreFeedback, tabVars
<1>3. /\ formFeedback \in Seq([from : Visitors, rating : Ratings])
      /\ formFeedback' \in Seq([from : Visitors, rating : Ratings])
      /\ Len(formFeedback') = Len(formFeedback) + 1
      /\ DOMAIN formFeedback = 1..Len(formFeedback)
      /\ DOMAIN formFeedback' = 1..(Len(formFeedback) + 1)
      /\ \A i \in 1..Len(formFeedback) : formFeedback'[i] = formFeedback[i]
      /\ formFeedback'[Len(formFeedback) + 1] = entry
  BY <1>1 DEF FeedbackInv, FeedbackTypes
<1>4. FeedbackTypes'
  BY <1>2, <1>3 DEF FeedbackInv, FeedbackTypes
<1>5. ~Stored(v)
  BY <1>2 DEF FeedbackInv
<1>6. \A u \in Visitors : Stored(u)' <=> Stored(u) \/ u = v
  <2>1. Stored(v)'
    BY <1>1, <1>3 DEF Stored
  <2>2. ASSUME NEW u \in Visitors, u # v
        PROVE  Stored(u)' <=> Stored(u)
    BY <1>1, <1>3, <2>2 DEF Stored
  <2>. QED  BY <2>1, <2>2
<1>7. \A i, j \in DOMAIN formFeedback' :
          formFeedback'[i].from = formFeedback'[j].from => i = j
  <2>1. \A i \in 1..Len(formFeedback) : formFeedback[i].from # v
    BY <1>3, <1>5 DEF Stored
  <2>2. \A i, j \in 1..Len(formFeedback) :
            formFeedback[i].from = formFeedback[j].from => i = j
    BY <1>3 DEF FeedbackInv
  <2>3. Len(formFeedback) \in Nat
    BY <1>3
  <2>4. \A i \in DOMAIN formFeedback' :
            i \in 1..Len(formFeedback) \/ i = Len(formFeedback) + 1
    BY <1>3, <2>3
  <2>. QED  BY <1>1, <1>3, <2>1, <2>2, <2>4
<1>8. /\ IsFiniteSet(Pending')
      /\ Cardinality(Pending') = Cardinality(Pending) - 1
      /\ Cardinality(Pending) \in Nat
  <2>1. Pending' = Pending \ {v} /\ v \in Pending
    BY <1>2 DEF Pending, FeedbackInv, FeedbackTypes
  <2>2. IsFiniteSet(Pending)
    BY DEF FeedbackInv
  <2>. QED  BY <2>1, <2>2, FS_RemoveElement, FS_CardinalityType
<1>9. \A u \in Visitors :
          /\ visit'[u] = IF u = v THEN "OK" ELSE visit[u]
          /\ rating'[u] = rating[u]
  BY <1>2 DEF FeedbackInv, FeedbackTypes
<1>10. Len(formFeedback') + Cardinality(Pending') <= submissionCount'
  BY <1>2, <1>3, <1>8 DEF FeedbackInv, FeedbackTypes
<1>11. (csv = "counted" => exported.expected <= Len(formFeedback))'
  BY <1>2, <1>3 DEF FeedbackInv, FeedbackTypes
<1>. QED  BY <1>2, <1>4, <1>6, <1>7, <1>8, <1>9, <1>10, <1>11
       DEF FeedbackInv, TabAddsUp, ExportHasNoBlanks

LEMMA VisitorGoesOn ==
  ASSUME FeedbackInv, NEW v \in Visitors,
         NEW st \in {"rating", "posting", "OK", "thanked", "failed"},
         visit' = [visit EXCEPT ![v] = st],
         Stored(v) => st \in {"OK", "thanked", "failed"},
         st \in {"OK", "thanked"} /\ v \notin Previewers => Stored(v),
         rating' \in [Visitors -> Ratings \cup {Unset}],
         \A u \in Visitors \ {v} : rating'[u] = rating[u],
         st = "posting" => rating'[v] \in Ratings,
         shown' = shown, submissionCount' = submissionCount,
         st \in {"rating", "posting"} => visit[v] \in {"rating", "posting"},
         UNCHANGED <<formFeedback, tab, csv, exported>>
  PROVE  FeedbackInv'
<1>1. FeedbackTypes'
  BY DEF FeedbackInv, FeedbackTypes
<1>2. \A u \in Visitors :
          /\ visit'[u] = IF u = v THEN st ELSE visit[u]
          /\ Stored(u)' <=> Stored(u)
  BY DEF FeedbackInv, FeedbackTypes, Stored
<1>3. /\ IsFiniteSet(Pending) /\ IsFiniteSet(Pending')
      /\ Cardinality(Pending') <= Cardinality(Pending)
      /\ Cardinality(Pending) \in Nat /\ Cardinality(Pending') \in Nat
  <2>1. Pending' \subseteq Pending
    BY <1>2 DEF Pending
  <2>2. IsFiniteSet(Pending)
    BY DEF FeedbackInv
  <2>. QED  BY <2>1, <2>2, FS_Subset, FS_CardinalityType
<1>4. Len(formFeedback') + Cardinality(Pending') <= submissionCount'
  BY <1>3 DEF FeedbackInv, FeedbackTypes
<1>5. \A u \in Visitors :
          /\ visit'[u] = "posting" => rating'[u] \in Ratings
          /\ Stored(u)' => visit'[u] \in {"OK", "thanked", "failed"}
          /\ Stored(u)' => u \notin Previewers
          /\ visit'[u] \in {"OK", "thanked"} /\ u \notin Previewers
                => Stored(u)'
  BY <1>2 DEF FeedbackInv
<1>. QED  BY <1>1, <1>3, <1>4, <1>5
       DEF FeedbackInv, TabAddsUp, ExportHasNoBlanks

LEMMA FormSubmitted ==
  ASSUME FeedbackInv, NEW v \in Visitors, SubmitForm(v)
  PROVE  FeedbackInv'
<1>1. /\ visit' = [visit EXCEPT ![v] = "rating"] /\ visit[v] = "open"
      /\ UNCHANGED <<formFeedback, rating, tab, csv, exported>>
      /\ submissionCount' = IF v \in Previewers THEN submissionCount
                                               ELSE submissionCount + 1
      /\ shown' = IF tab = "counted" THEN [shown EXCEPT !.overtaken = TRUE]
                                     ELSE shown
  BY DEF SubmitForm
<1>2. /\ shown' \in [submissionCount : Nat, feedbackCount : Nat,
                     sum : {shown'.sum}, overtaken : BOOLEAN]
      /\ tab = "counted" => shown'.overtaken
  BY <1>1 DEF FeedbackInv, FeedbackTypes
<1>3. FeedbackTypes'
  BY <1>1, <1>2 DEF FeedbackInv, FeedbackTypes
<1>4. \A u \in Visitors :
          /\ visit'[u] = IF u = v THEN "rating" ELSE visit[u]
          /\ Stored(u)' <=> Stored(u)
  BY <1>1 DEF FeedbackInv, FeedbackTypes, Stored
<1>5. ~Stored(v)
  BY <1>1 DEF FeedbackInv
<1>6. IsFiniteSet(Pending) /\ Cardinality(Pending) \in Nat
  BY FS_CardinalityType DEF FeedbackInv
<1>7. /\ IsFiniteSet(Pending')
      /\ Len(formFeedback') + Cardinality(Pending') <= submissionCount'
  <2>1. CASE v \in Previewers
    <3>1. Pending' = Pending
      BY <1>4, <2>1 DEF Pending
    <3>. QED  BY <1>1, <1>6, <2>1, <3>1 DEF FeedbackInv, FeedbackTypes
  <2>2. CASE v \notin Previewers
    <3>1. Pending' = Pending \cup {v} /\ v \notin Pending
      BY <1>1, <1>4, <2>2 DEF Pending
    <3>2. IsFiniteSet(Pending') /\ Cardinality(Pending') = Cardinality(Pending) + 1
      BY <1>6, <3>1, FS_AddElement
    <3>. QED  BY <1>1, <1>6, <2>2, <3>2 DEF FeedbackInv, FeedbackTypes
  <2>. QED  BY <2>1, <2>2
<1>8. \A u \in Visitors :
          /\ visit'[u] = "posting" => rating'[u] \in Ratings
          /\ Stored(u)' => visit'[u] \in {"OK", "thanked", "failed"}
          /\ Stored(u)' => u \notin Previewers
          /\ visit'[u] \in {"OK", "thanked"} /\ u \notin Previewers
                => Stored(u)'
  BY <1>1, <1>4, <1>5 DEF FeedbackInv
<1>9. TabAddsUp'
  BY <1>1 DEF FeedbackInv, TabAddsUp
<1>. QED  BY <1>1, <1>2, <1>3, <1>7, <1>8, <1>9
       DEF FeedbackInv, ExportHasNoBlanks

LEMMA TabReads ==
  ASSUME FeedbackInv, CountSubmissions \/ GetFeedback \/ ReadingFails
  PROVE  FeedbackInv'
<1>1. UNCHANGED <<submissionCount, formFeedback, visit, rating, csv, exported>>
  BY DEF CountSubmissions, GetFeedback, ReadingFails, respondentVars
<1>2. /\ shown' \in [submissionCount : Nat, feedbackCount : Nat,
                     sum : {shown'.sum}, overtaken : BOOLEAN]
      /\ tab' = "counted" => shown'.submissionCount = submissionCount
      /\ TabAddsUp'
  <2>1. CASE CountSubmissions \/ ReadingFails
    <3>1. PICK n \in Nat :
             /\ shown' = [submissionCount |-> n, feedbackCount |-> 0, sum |-> 0,
                          overtaken |-> FALSE]
             /\ tab' = "counted" => n = submissionCount
             /\ tab' # "shown"
      <4>1. CASE CountSubmissions
        BY <4>1 DEF CountSubmissions, NothingRead, FeedbackInv, FeedbackTypes
      <4>2. CASE ReadingFails
        BY <4>2 DEF ReadingFails, NothingRead
      <4>. QED  BY <2>1, <4>1, <4>2
    <3>. QED  BY <3>1 DEF TabAddsUp
  <2>2. CASE GetFeedback
    <3>1. PICK sum : shown' = [shown EXCEPT
                 !.feedbackCount = IF shown.submissionCount > 0
                                   THEN Len(formFeedback) ELSE 0,
                 !.sum = sum]
      BY <2>2 DEF GetFeedback
    <3>2. Len(formFeedback) \in Nat
      BY DEF FeedbackInv, FeedbackTypes
    <3>3. /\ shown' \in [submissionCount : Nat, feedbackCount : Nat,
                         sum : {sum}, overtaken : BOOLEAN]
          /\ shown'.submissionCount = shown.submissionCount
          /\ shown'.overtaken = shown.overtaken
          /\ shown'.feedbackCount = IF shown.submissionCount > 0
                                    THEN Len(formFeedback) ELSE 0
      BY <3>1, <3>2 DEF FeedbackInv, FeedbackTypes
    <3>4. Len(formFeedback) <= submissionCount
      <4>1. Cardinality(Pending) \in Nat
        BY FS_CardinalityType DEF FeedbackInv
      <4>. QED  BY <3>2, <4>1 DEF FeedbackInv, FeedbackTypes
    <3>5. tab = "counted" /\ tab' = "shown"
      BY <2>2 DEF GetFeedback
    <3>6. TabAddsUp'
      <4>1. SUFFICES ASSUME ~shown.overtaken
                     PROVE  shown'.feedbackCount <= shown'.submissionCount
        BY <3>3, <3>5 DEF TabAddsUp
      <4>2. shown.submissionCount = submissionCount
        BY <3>5, <4>1 DEF FeedbackInv
      <4>. QED  BY <3>2, <3>3, <3>4, <4>2 DEF FeedbackInv, FeedbackTypes
    <3>. QED  BY <3>3, <3>5, <3>6
  <2>. QED  BY <2>1, <2>2
<1>3. FeedbackTypes'
  BY <1>1, <1>2 DEF FeedbackInv, FeedbackTypes
<1>4. Pending' = Pending /\ \A v \in Visitors : Stored(v)' <=> Stored(v)
  BY <1>1 DEF Pending, Stored
<1>. QED  BY <1>1, <1>2, <1>3, <1>4 DEF FeedbackInv, ExportHasNoBlanks

LEMMA TabExports ==
  ASSUME FeedbackInv, CountFeedback \/ DownloadFeedback \/ DownloadFails
  PROVE  FeedbackInv'
<1>1. UNCHANGED <<submissionCount, formFeedback, visit, rating, tab, shown>>
  BY DEF CountFeedback, DownloadFeedback, DownloadFails, respondentVars
<1>2. Len(formFeedback) \in Nat
  BY DEF FeedbackInv, FeedbackTypes
<1>3. /\ exported' \in [expected : Nat, lines : Nat]
      /\ csv' = "counted" => exported'.expected <= Len(formFeedback)
      /\ ExportHasNoBlanks'
  BY <1>2 DEF CountFeedback, DownloadFeedback, DownloadFails, FeedbackInv,
              FeedbackTypes, ExportHasNoBlanks
<1>4. FeedbackTypes'
  BY <1>1, <1>3 DEF FeedbackInv, FeedbackTypes
<1>5. Pending' = Pending /\ \A v \in Visitors : Stored(v)' <=> Stored(v)
  BY <1>1 DEF Pending, Stored
<1>. QED  BY <1>1, <1>3, <1>4, <1>5 DEF FeedbackInv, TabAddsUp

LEMMA FeedbackInvStep ==
  ASSUME FeedbackInv, [FeedbackNext]_feedbackVars
  PROVE  FeedbackInv'
<1>1. CASE CloseForm \/ UNCHANGED feedbackVars
  <2>1. UNCHANGED <<submissionCount, formFeedback, visit, rating, tab, shown,
                    csv, exported>>
    BY <1>1 DEF CloseForm, feedbackVars, respondentVars, tabVars
  <2>2. FeedbackTypes'
    BY <2>1 DEF FeedbackInv, FeedbackTypes
  <2>3. Pending' = Pending /\ \A v \in Visitors : Stored(v)' <=> Stored(v)
    BY <2>1 DEF Pending, Stored
  <2>. QED  BY <2>1, <2>2, <2>3
         DEF FeedbackInv, TabAddsUp, ExportHasNoBlanks
<1>2. ASSUME NEW v \in Visitors, SubmitForm(v)
      PROVE  FeedbackInv'
  BY <1>2, FormSubmitted
<1>3. ASSUME NEW v \in Visitors, NEW stars \in Ratings, SubmitFeedback(v, stars)
      PROVE  FeedbackInv'
  <2>1. /\ visit[v] = "rating" /\ ~Stored(v)
        /\ visit' = [visit EXCEPT ![v] = "posting"]
        /\ rating' = [rating EXCEPT ![v] = stars]
        /\ UNCHANGED <<submissionCount, formFeedback, tab, shown, csv, exported>>
    BY <1>3 DEF SubmitFeedback, tabVars, FeedbackInv
  <2>2. /\ rating' \in [Visitors -> Ratings \cup {Unset}]
        /\ rating'[v] \in Ratings
        /\ \A u \in Visitors \ {v} : rating'[u] = rating[u]
    BY <2>1 DEF FeedbackInv, FeedbackTypes
  <2>. QED  BY <2>1, <2>2, VisitorGoesOn
<1>4. ASSUME NEW v \in Visitors,
             PassThroughFeedback(v) \/ ReceiveThanks(v) \/ FeedbackFails(v)
      PROVE  FeedbackInv'
  <2>1. PICK st \in {"OK", "thanked", "failed"} :
           /\ visit' = [visit EXCEPT ![v] = st]
           /\ st \in {"OK", "thanked"} /\ v \notin Previewers => Stored(v)
           /\ UNCHANGED <<submissionCount, formFeedback, rating, tab, shown,
                          csv, exported>>
    BY <1>4 DEF PassThroughFeedback, ReceiveThanks, FeedbackFails, tabVars,
                FeedbackInv
  <2>2. /\ rating' \in [Visitors -> Ratings \cup {Unset}]
        /\ \A u \in Visitors \ {v} : rating'[u] = rating[u]
    BY <2>1 DEF FeedbackInv, FeedbackTypes
  <2>. QED  BY <2>1, <2>2, VisitorGoesOn
<1>5. ASSUME NEW v \in Visitors, StoreFeedback(v)
      PROVE  FeedbackInv'
  BY <1>5, FeedbackStored
<1>. QED  BY <1>1, <1>2, <1>3, <1>4, <1>5, TabReads, TabExports DEF FeedbackNext

LEMMA FeedbackInvTells ==
  ASSUME FeedbackInv
  PROVE  FeedbackTold
<1>1. ASSUME NEW v \in Visitors
      PROVE  LET times == Cardinality({i \in DOMAIN formFeedback :
                                           formFeedback[i].from = v})
             IN  /\ times <= 1
                 /\ visit[v] = "thanked" => (times = 1 <=> v \notin Previewers)
  <2>. DEFINE I == {i \in DOMAIN formFeedback : formFeedback[i].from = v}
  <2>1. CASE ~Stored(v)
    <3>1. I = {}
      BY <2>1 DEF Stored
    <3>2. Cardinality(I) = 0
      BY <3>1, FS_EmptySet
    <3>. QED  BY <2>1, <3>2 DEF FeedbackInv
  <2>2. CASE Stored(v)
    <3>1. PICK i \in DOMAIN formFeedback : formFeedback[i].from = v
      BY <2>2 DEF Stored
    <3>2. I = {i}
      BY <3>1 DEF FeedbackInv
    <3>3. Cardinality(I) = 1
      BY <3>2, FS_Singleton
    <3>. QED  BY <2>2, <3>3 DEF FeedbackInv
  <2>. QED  BY <2>1, <2>2
<1>. QED  BY <1>1 DEF FeedbackInv, FeedbackTold, StoredOnce

(* Whoever the visitors are, and whatever request fails or is answered in  *)
(* vain: a visitor's feedback is stored once if he is thanked for it, and  *)
(* the tab and its export never tell of more than there is.                *)
THEOREM FeedbackIsTold == SiteSpec => []FeedbackTold
<1>1. SiteInit => FeedbackInv
  BY FeedbackInvInit DEF SiteInit
<1>2. FeedbackInv /\ [SiteNext]_siteVars => FeedbackInv'
  <2>1. [SiteNext]_siteVars => [FeedbackNext]_feedbackVars
    BY DEF SiteNext, siteVars
  <2>. QED  BY <2>1, FeedbackInvStep
<1>3. FeedbackInv => FeedbackTold
  BY FeedbackInvTells
<1>. QED  BY <1>1, <1>2, <1>3, PTL DEF SiteSpec

-----------------------------------------------------------------------------
(* The bill *)

Matching(id, period) ==
    {i \in DOMAIN logins : logins[i].esrvcId = id /\ logins[i].period = period}

(* The fold of SumTotal, as a function of the set of rows.                 *)
IsSum(f, stats) ==
    f = [s \in SUBSET stats |->
            IF s = {} THEN 0
            ELSE LET x == CHOOSE x \in s : TRUE IN x.total + f[s \ {x}]]

LEMMA SumUnfolded ==
  ASSUME NEW stats
  PROVE  SumTotal(stats) = (CHOOSE f : IsSum(f, stats))[stats]
BY DEF SumTotal, MapThenSumSet, MapThenFoldSet, IsSum

(* A function that satisfies the equation of the fold is the only one.     *)
LEMMA SumUnique ==
  ASSUME NEW stats, IsFiniteSet(stats), NEW f, NEW g,
         IsSum(f, stats), IsSum(g, stats)
  PROVE  f[stats] = g[stats]
<1>. DEFINE Bad == {s \in SUBSET stats : f[s] # g[s]}
            Sizes == {Cardinality(s) : s \in Bad}
<1>1. \A s \in SUBSET stats : IsFiniteSet(s) /\ Cardinality(s) \in Nat
  BY FS_Subset, FS_CardinalityType
<1>2. \A s \in SUBSET stats :
          /\ f[s] = IF s = {} THEN 0
                    ELSE LET x == CHOOSE x \in s : TRUE
                         IN  x.total + f[s \ {x}]
          /\ g[s] = IF s = {} THEN 0
                    ELSE LET x == CHOOSE x \in s : TRUE
                         IN  x.total + g[s \ {x}]
  BY DEF IsSum
<1>3. ASSUME Bad # {}
      PROVE  FALSE
  <2>1. Sizes \in SUBSET Nat /\ Sizes # {}
    BY <1>1, <1>3
  <2>2. \E n \in Sizes : \A m \in Sizes : n <= m
    <3>. HIDE DEF Sizes
    <3>. QED  BY <2>1, LeastExists
  <2>3. PICK s \in Bad : \A t \in Bad : Cardinality(s) <= Cardinality(t)
    BY <2>2
  <2>4. s \in SUBSET stats /\ f[s] # g[s] /\ s # {}
    BY <1>2, <2>3
  <2>5. PICK x : x = CHOOSE y \in s : TRUE
    OBVIOUS
  <2>6. x \in s
    BY <2>4, <2>5
  <2>7. f[s \ {x}] # g[s \ {x}] /\ s \ {x} \in SUBSET stats
    <3>1. f[s] = x.total + f[s \ {x}] /\ g[s] = x.total + g[s \ {x}]
      BY <1>2, <2>4, <2>5
    <3>. QED  BY <2>4, <3>1
  <2>8. Cardinality(s \ {x}) = Cardinality(s) - 1
    BY <1>1, <2>4, <2>6, FS_RemoveElement
  <2>9. Cardinality(s) <= Cardinality(s \ {x}) /\ Cardinality(s) \in Nat
    BY <1>1, <2>3, <2>4, <2>7
  <2>. QED  BY <2>8, <2>9
<1>. QED  BY <1>3

(* The rows of the bill add up to the logins that they are of.             *)
LEMMA RowsAddUp ==
  ASSUME IsFiniteSet(DOMAIN logins), NEW id, NEW period
  PROVE  SumTotal(LoginStats(id, period)) = Cardinality(Matching(id, period))
<1>. DEFINE M == Matching(id, period)
            By(form) == {i \in M : logins[i].form = form}
            row(form) == [formId |-> form, total |-> Cardinality(By(form))]
            forms_ == {logins[i].form : i \in M}
            stats == LoginStats(id, period)
            Of(s) == {i \in M : \E x \in s : x.formId = logins[i].form}
            g == [s \in SUBSET stats |-> Cardinality(Of(s))]
<1>1. IsFiniteSet(M) /\ \A S \in SUBSET M : IsFiniteSet(S)
                                            /\ Cardinality(S) \in Nat
  BY FS_Subset, FS_CardinalityType DEF Matching
<1>2. stats = {row(form) : form \in forms_}
  BY DEF LoginStats, Matching
<1>3. IsFiniteSet(stats)
  <2>1. IsFiniteSet(forms_)
    <3>1. DEFINE h == [i \in M |-> logins[i].form]
    <3>2. h \in Surjection(M, forms_)
      BY DEF Surjection
    <3>. HIDE DEF h, M, forms_
    <3>. QED  BY <1>1, <3>2, FS_Surjection
  <2>2. DEFINE k == [form \in forms_ |-> row(form)]
  <2>3. k \in Surjection(forms_, stats)
    BY <1>2 DEF Surjection
  <2>. HIDE DEF k, forms_, stats
  <2>. QED  BY <2>1, <2>3, FS_Surjection
<1>4. IsSum(g, stats)
  <2>1. ASSUME NEW s \in SUBSET stats
        PROVE  Cardinality(Of(s)) =
                  IF s = {} THEN 0
                  ELSE LET x == CHOOSE x \in s : TRUE
                       IN  x.total + Cardinality(Of(s \ {x}))
    <3>1. CASE s = {}
      <4>1. Of(s) = {}
        BY <3>1
      <4>. QED  BY <3>1, <4>1, FS_EmptySet
    <3>2. CASE s # {}
      <4>1. PICK x : x = CHOOSE y \in s : TRUE
        OBVIOUS
      <4>2. x \in s
        BY <3>2, <4>1
      <4>3. PICK form \in forms_ : x = row(form)
        BY <1>2, <4>2
      <4>4. Of(s) = By(form) \cup Of(s \ {x})
        BY <4>2, <4>3
      <4>5. By(form) \cap Of(s \ {x}) = {}
        <5>1. ASSUME NEW y \in s \ {x}
              PROVE  y.formId # form
          <6>1. PICK other \in forms_ : y = row(other)
            BY <1>2
          <6>. QED  BY <4>3, <6>1
        <5>. QED  BY <5>1
      <4>6. By(form) \in SUBSET M /\ Of(s \ {x}) \in SUBSET M
        OBVIOUS
      <4>7. Cardinality(Of(s)) = Cardinality(By(form)) + Cardinality(Of(s \ {x}))
        <5>1. PICK A \in SUBSET M : A = By(form)
          OBVIOUS
        <5>2. PICK B \in SUBSET M : B = Of(s \ {x})
          OBVIOUS
        <5>3. /\ IsFiniteSet(A) /\ IsFiniteSet(B)
              /\ Cardinality(A) \in Nat /\ Cardinality(B) \in Nat
          BY <1>1
        <5>4. Cardinality(A \cup B)
                = Cardinality(A) + Cardinality(B) - Cardinality(A \cap B)
          BY <5>3, FS_Union
        <5>5. Cardinality(A \cap B) = 0
          BY <4>5, <5>1, <5>2, FS_EmptySet
        <5>6. Cardinality(A \cup B) = Cardinality(A) + Cardinality(B)
          BY <5>3, <5>4, <5>5
        <5>. QED  BY <4>4, <5>1, <5>2, <5>6, Zenon
      <4>8. x.total = Cardinality(By(form))
        BY <4>3
      <4>. QED  BY <3>2, <4>1, <4>7, <4>8
    <3>. QED  BY <3>1, <3>2
  <2>. HIDE DEF M, stats, Of
  <2>. QED  BY <2>1 DEF IsSum
<1>5. IsSum(CHOOSE f : IsSum(f, stats), stats)
  <2>. HIDE DEF g, stats
  <2>. QED  BY <1>4
<1>6. SumTotal(stats) = g[stats]
  <2>1. PICK f : f = CHOOSE h : IsSum(h, stats)
    OBVIOUS
  <2>. HIDE DEF g, stats
  <2>. QED  BY <1>3, <1>4, <1>5, <2>1, SumUnfolded, SumUnique
<1>7. Of(stats) = M
  <2>1. ASSUME NEW i \in M
        PROVE  i \in Of(stats)
    <3>1. row(logins[i].form) \in stats
      BY <1>2
    <3>. QED  BY <3>1
  <2>. QED  BY <2>1
<1>. QED  BY <1>6, <1>7


LEMMA MonthIsNumber ==
  ASSUME NEW date \in Dates
  PROVE  MonthOf(date) \in Int /\ date.day \in Int
<1>1. date.year \in Nat /\ date.month \in 0..11 /\ date.day \in 1..31
  BY BillAssumption
<1>. QED  BY <1>1 DEF MonthOf

(* On the days that every month has, no month is skipped.                  *)
LEMMA NoMonthSkipped ==
  ASSUME today \in Dates
  PROVE  MonthsOffered
<1>1. SUFFICES ASSUME today.day <= 28
               PROVE  TimePeriods = [i \in 0..8 |-> MonthOf(today) - i]
  BY DEF MonthsOffered
<1>2. MonthOf(today) \in Int /\ today.day \in Int
  BY MonthIsNumber
<1>3. ASSUME NEW period \in Int
      PROVE  DaysIn(period) \in {28, 29, 30, 31}
  <2>1. period % 12 \in 0..11
    OBVIOUS
  <2>2. period % 12 \in {0, 2, 4, 6, 7, 9, 11} \cup {3, 5, 8, 10} \cup {1}
    BY <2>1
  <2>. QED  BY <2>2 DEF DaysIn
<1>4. ASSUME NEW period \in Int
      PROVE  ~(today.day > DaysIn(period))
  BY <1>1, <1>2, <1>3
<1>. QED  BY <1>2, <1>4 DEF TimePeriods, numDisplayedMonths

BillLogin == ToSet(InitialLogins)
             \cup [form : BilledForms, esrvcId : EsrvcIds, period : Int]

(* While nothing went wrong since the search began, there is one request   *)
(* at most.  It asks for the id in the input and the month that is         *)
(* selected, and the page loads until its answer, which is the statistics  *)
(* of that id and month as they still are, is in the table.                *)
OneSearch ==
    \/ calls = <<>> /\ loading
    \/ /\ calls = <<>>
       /\ currLoginStats # Missing
       /\ currLoginStats = LoginStats(input, selectedTimePeriod)
    \/ /\ loading
       /\ \E stats, received :
             /\ calls = <<[period |-> selectedTimePeriod, esrvcId |-> input,
                           stats |-> stats, received |-> received]>>
             /\ stats # Missing => stats = LoginStats(input, selectedTimePeriod)
             /\ received \in BOOLEAN
             /\ received => stats # Missing

BillInv ==
    /\ today \in Dates
    /\ logins \in Seq(BillLogin)
    /\ troubles = {} => OneSearch

LEMMA BillInvInit ==
  ASSUME BillInit
  PROVE  BillInv
<1>1. logins \in Seq(BillLogin)
  <2>1. ToSet(InitialLogins) \subseteq BillLogin
    BY DEF BillLogin
  <2>2. Seq(ToSet(InitialLogins)) \subseteq Seq(BillLogin)
    BY <2>1, SeqMonotonic
  <2>. QED  BY <2>2, BillAssumption DEF BillInit
<1>. QED  BY <1>1 DEF BillInit, BillInv, OneSearch

LEMMA SearchBegins ==
  ASSUME BillInv, NEW period, NEW id, NEW named \in BOOLEAN,
         GetBilling(period, id, named), named => id = input
  PROVE  BillInv'
<1>1. today' = today /\ logins' = logins /\ input' = input
  BY DEF GetBilling
<1>2. ASSUME troubles' = {}
      PROVE  OneSearch'
  <2>1. calls = <<>> /\ named
    BY <1>2 DEF GetBilling
  <2>2. calls' = <<[period |-> selectedTimePeriod', esrvcId |-> input,
                    stats |-> Missing, received |-> FALSE]>>
    BY <2>1 DEF GetBilling
  <2>3. loading'
    BY DEF GetBilling
  <2>. QED  BY <1>1, <2>2, <2>3 DEF OneSearch
<1>. QED  BY <1>1, <1>2 DEF BillInv

LEMMA CallGoesOn ==
  ASSUME BillInv, NEW c \in DOMAIN calls,
         CountLogins(c) \/ ReceiveStats(c) \/ UpdateTable(c) \/ ReceiveError(c)
  PROVE  BillInv'
<1>1. /\ today' = today /\ logins' = logins
      /\ selectedTimePeriod' = selectedTimePeriod /\ input' = input
  BY DEF CountLogins, ReceiveStats, UpdateTable, ReceiveError
<1>2. SUFFICES ASSUME troubles' = {}
               PROVE  OneSearch'
  BY <1>1 DEF BillInv
<1>3. troubles = {} /\ ~ReceiveError(c)
  BY <1>2 DEF CountLogins, ReceiveStats, UpdateTable, ReceiveError
<1>4. ~(calls = <<>>)
  OBVIOUS
<1>5. PICK stats, received :
         /\ calls = <<[period |-> selectedTimePeriod, esrvcId |-> input,
                       stats |-> stats, received |-> received]>>
         /\ stats # Missing => stats = LoginStats(input, selectedTimePeriod)
         /\ received \in BOOLEAN
         /\ received => stats # Missing
  BY <1>3, <1>4 DEF BillInv, OneSearch
<1>6. loading
  BY <1>3, <1>4 DEF BillInv, OneSearch
<1>7. c = 1
  BY <1>5
<1>8. LoginStats(input, selectedTimePeriod)'
        = LoginStats(input, selectedTimePeriod)
  BY <1>1 DEF LoginStats
<1>9. CASE CountLogins(c)
  <2>1. calls' = <<[period |-> selectedTimePeriod, esrvcId |-> input,
                    stats |-> LoginStats(input, selectedTimePeriod),
                    received |-> received]>>
    BY <1>5, <1>7, <1>9 DEF CountLogins
  <2>2. stats = Missing /\ ~received
    BY <1>5, <1>7, <1>9 DEF CountLogins
  <2>3. loading'
    BY <1>6, <1>9 DEF CountLogins
  <2>. QED  BY <1>1, <1>8, <2>1, <2>2, <2>3, <1>5 DEF OneSearch
<1>10. CASE ReceiveStats(c)
  <2>1. calls' = <<[period |-> selectedTimePeriod, esrvcId |-> input,
                    stats |-> stats, received |-> TRUE]>>
    <3>1. PICK call : /\ call = [period |-> selectedTimePeriod, esrvcId |-> input,
                               stats |-> stats, received |-> received]
                      /\ calls = <<call>>
      BY <1>5
    <3>2. PICK next : next = [call EXCEPT !.received = TRUE]
      OBVIOUS
    <3>3. calls' = [calls EXCEPT ![1].received = TRUE]
      BY <1>7, <1>10 DEF ReceiveStats
    <3>4. calls' = <<next>>
      <4>1. calls[1] = call
        BY <3>1
      <4>2. calls' = [calls EXCEPT ![1] = next]
        BY <3>2, <3>3, <4>1
      <4>. QED  BY <3>1, <4>2
    <3>5. next = [period |-> selectedTimePeriod, esrvcId |-> input,
                  stats |-> stats, received |-> TRUE]
      BY <3>1, <3>2
    <3>. QED  BY <3>4, <3>5
  <2>2. stats # Missing
    BY <1>5, <1>7, <1>10 DEF ReceiveStats
  <2>3. loading'
    BY <1>6, <1>10 DEF ReceiveStats
  <2>. QED  BY <1>1, <1>5, <1>8, <2>1, <2>2, <2>3 DEF OneSearch
<1>11. CASE UpdateTable(c)
  <2>1. calls' = <<>>
    BY <1>5, <1>7, <1>11 DEF UpdateTable, RemoveAt
  <2>2. currLoginStats' = stats /\ stats # Missing
    BY <1>5, <1>7, <1>11 DEF UpdateTable
  <2>. QED  BY <1>1, <1>5, <1>8, <2>1, <2>2 DEF OneSearch
<1>. QED  BY <1>3, <1>9, <1>10, <1>11

LEMMA BillInvStep ==
  ASSUME BillInv, [BillNext]_billVars
  PROVE  BillInv'
<1>1. CASE UNCHANGED billVars
  <2>1. LoginStats(input, selectedTimePeriod)'
          = LoginStats(input, selectedTimePeriod)
    BY <1>1 DEF LoginStats, billVars
  <2>. QED  BY <1>1, <2>1 DEF BillInv, OneSearch, billVars
<1>2. ASSUME NEW id \in EsrvcIds \cup {Missing}, EnterEsrvcId(id)
      PROVE  BillInv'
  BY <1>2 DEF EnterEsrvcId, BillInv
<1>3. ASSUME NEW form \in BilledForms, NEW id \in EsrvcIds, LogIn(form, id)
      PROVE  BillInv'
  <2>1. today' = today /\ troubles' # {}
    BY <1>3 DEF LogIn
  <2>2. MonthOf(today) \in Int
    BY MonthIsNumber DEF BillInv
  <2>3. [form |-> form, esrvcId |-> id, period |-> MonthOf(today)] \in BillLogin
    BY <2>2 DEF BillLogin
  <2>4. logins' \in Seq(BillLogin)
    BY <1>3, <2>3 DEF LogIn, BillInv
  <2>. QED  BY <2>1, <2>4 DEF BillInv
<1>4. CASE SearchBillingRecords
  <2>1. PICK id : id = IF input = Missing THEN esrvcId ELSE input
    OBVIOUS
  <2>2. GetBilling(selectedTimePeriod, id, input # Missing)
    BY <1>4, <2>1 DEF SearchBillingRecords
  <2>. QED  BY <2>1, <2>2, SearchBegins
<1>5. ASSUME NEW i \in Chosen, SelectTimePeriod(i)
      PROVE  BillInv'
  BY <1>5, SearchBegins DEF SelectTimePeriod
<1>. QED  BY <1>1, <1>2, <1>3, <1>4, <1>5, CallGoesOn DEF BillNext

(* Whatever is searched for and in whatever order the answers come: the    *)
(* page offers the nine months, and a bill that it exports while nothing   *)
(* went wrong is the number of the logins for the e-service id and the     *)
(* month that the file is named after (downloadBilling).                   *)
THEOREM BillsAreRight == SiteSpec => []BillIsRight
<1>1. SiteInit => BillInv
  BY BillInvInit DEF SiteInit
<1>2. BillInv /\ [SiteNext]_siteVars => BillInv'
  <2>1. [SiteNext]_siteVars => [BillNext]_billVars
    BY DEF SiteNext, siteVars
  <2>. QED  BY <2>1, BillInvStep
<1>3. BillInv => BillIsRight
  <2>1. SUFFICES ASSUME BillInv, CanExport, troubles = {}
                 PROVE  /\ currLoginStats # Missing
                        /\ SumTotal(currLoginStats) =
                              Cardinality(Matching(input, selectedTimePeriod))
    BY NoMonthSkipped
       DEF BillIsRight, BilledAsNamed, ExportedFile, Matching, BillInv
  <2>2. /\ currLoginStats # Missing
        /\ currLoginStats = LoginStats(input, selectedTimePeriod)
    BY <2>1 DEF BillInv, OneSearch, CanExport
  <2>3. IsFiniteSet(DOMAIN logins)
    <3>1. DOMAIN logins = 1..Len(logins) /\ Len(logins) \in Nat
      BY <2>1 DEF BillInv
    <3>. QED  BY <3>1, FS_Interval
  <2>. QED  BY <2>2, <2>3, RowsAddUp
<1>. QED  BY <1>1, <1>2, <1>3, PTL DEF SiteSpec

-----------------------------------------------------------------------------
(* The examples *)

LEMMA RankingsAreSequences ==
  ASSUME NEW key, IsFiniteSet(DOMAIN key)
  PROVE  \A ranking \in Rankings(key) : ranking \in Seq(DOMAIN key)
<1>1. Cardinality(DOMAIN key) \in Nat
  BY FS_CardinalityType
<1>. QED  BY <1>1 DEF Rankings

SubmissionType == [form : Examples, created : Nat]

(* What a member aggregates is finite.                                     *)
StoreOK(store) ==
    /\ store.submissions \in Seq(SubmissionType)
    /\ IsFiniteSet(store.statistics)

CollectionsOK ==
    /\ StoreOK(Primary)
    /\ secondaries = [member \in Secondaries |-> secondaries[member]]
    /\ \A member \in Secondaries : StoreOK(secondaries[member])

LEMMA SubmissionsFinite ==
  ASSUME NEW subs \in Seq(SubmissionType)
  PROVE  IsFiniteSet(DOMAIN subs)
<1>1. DOMAIN subs = 1..Len(subs) /\ Len(subs) \in Nat
  OBVIOUS
<1>. QED  BY <1>1, FS_Interval

LEMMA GroupsFinite ==
  ASSUME NEW subs \in Seq(SubmissionType)
  PROVE  IsFiniteSet(GroupSubmissionsByFormId(subs))
<1>. DEFINE group(form) ==
                [_id |-> form, count |-> Cardinality(SubmissionsTo(subs, form)),
                 lastSubmission |->
                     subs[Max(SubmissionsTo(subs, form))].created]
            h == [i \in DOMAIN subs |-> group(subs[i].form)]
<1>1. h \in Surjection(DOMAIN subs, GroupSubmissionsByFormId(subs))
  <2>1. GroupSubmissionsByFormId(subs)
           = {group(subs[i].form) : i \in DOMAIN subs}
    BY DEF GroupSubmissionsByFormId
  <2>. HIDE DEF group
  <2>. QED  BY <2>1 DEF Surjection
<1>. HIDE DEF h
<1>. QED  BY <1>1, SubmissionsFinite, FS_Surjection

LEMMA TotalsFinite ==
  ASSUME NEW subs \in Seq(SubmissionType)
  PROVE  IsFiniteSet({[formId |-> doc._id, totalCount |-> doc.count,
                       lastSubmission |-> doc.lastSubmission] :
                          doc \in GroupSubmissionsByFormId(subs)})
<1>. DEFINE G == GroupSubmissionsByFormId(subs)
            total(doc) == [formId |-> doc._id, totalCount |-> doc.count,
                           lastSubmission |-> doc.lastSubmission]
            Totals == {total(doc) : doc \in G}
            h == [doc \in G |-> total(doc)]
<1>1. IsFiniteSet(G)
  BY GroupsFinite
<1>2. IsFiniteSet(Totals)
  <2>. HIDE DEF G, total
  <2>1. h \in Surjection(G, Totals)
    BY DEF Surjection
  <2>. HIDE DEF h, Totals
  <2>. QED  BY <1>1, <2>1, FS_Surjection
<1>. QED  BY <1>2

LEMMA ProjectionFinite ==
  ASSUME NEW totals, IsFiniteSet(totals)
  PROVE  IsFiniteSet(ProjectSubmissionInfo(totals))
<1>. DEFINE doc(total) == [_id |-> total.formId, count |-> total.totalCount,
                           lastSubmission |-> total.lastSubmission]
            h == [total \in totals |-> doc(total)]
<1>1. h \in Surjection(totals, ProjectSubmissionInfo(totals))
  <2>1. ProjectSubmissionInfo(totals) = {doc(total) : total \in totals}
    BY DEF ProjectSubmissionInfo
  <2>. HIDE DEF doc
  <2>. QED  BY <2>1 DEF Surjection
<1>. HIDE DEF h
<1>. QED  BY <1>1, FS_Surjection

(* Only forms with submissions are looked up.                              *)
LEMMA LookupFinite ==
  ASSUME NEW store, StoreOK(store), NEW docs
  PROVE  /\ IsFiniteSet(LookupSubmissionInfo(store, docs))
         /\ \A info \in LookupSubmissionInfo(store, docs) :
               \E doc \in docs : doc._id = info._id
<1>. DEFINE subs == store.submissions
            info(form) ==
                [_id |-> form, count |-> Cardinality(SubmissionsTo(subs, form)),
                 lastSubmission |->
                     Max({subs[i].created : i \in SubmissionsTo(subs, form)})]
            found == {d \in docs : SubmissionsTo(subs, d._id) # {}}
            all == {info(subs[i].form) : i \in DOMAIN subs}
            h == [i \in DOMAIN subs |-> info(subs[i].form)]
<1>1. LookupSubmissionInfo(store, docs) = {info(doc._id) : doc \in found}
  BY DEF LookupSubmissionInfo
<1>2. ASSUME NEW doc \in found
      PROVE  info(doc._id) \in all
  <2>1. PICK i \in DOMAIN subs : subs[i].form = doc._id
    BY DEF SubmissionsTo
  <2>. HIDE DEF info
  <2>. QED  BY <2>1
<1>3. \A form : info(form)._id = form
  OBVIOUS
<1>4. IsFiniteSet(all)
  <2>1. h \in Surjection(DOMAIN subs, all)
    <3>. HIDE DEF info, subs
    <3>. QED  BY DEF Surjection
  <2>2. IsFiniteSet(DOMAIN subs)
    BY SubmissionsFinite DEF StoreOK
  <2>. HIDE DEF h, all, subs
  <2>. QED  BY <2>1, <2>2, FS_Surjection
<1>5. LookupSubmissionInfo(store, docs) \subseteq all
  <2>. HIDE DEF info, found, all
  <2>. QED  BY <1>1, <1>2
<1>6. \A x \in LookupSubmissionInfo(store, docs) :
          \E doc \in docs : doc._id = x._id
  <2>. HIDE DEF info
  <2>. QED  BY <1>1, <1>3
<1>. QED  BY <1>4, <1>5, <1>6, FS_Subset

(* The forms that a query with these parameters is about.                  *)
Wanted(agency, term, form) ==
    /\ agency # Null => agencyOf[form] = agency
    /\ term # Null => textScore[term][form] > 0

(* A ranking is a sequence, of forms that the query is about.              *)
LEMMA ResultsWanted ==
  ASSUME NEW store, StoreOK(store), NEW params,
         NEW ranking \in Results(store, params)
  PROVE  /\ \E S : ranking \in Seq(S)
         /\ \A i \in DOMAIN ranking :
               Wanted(params.agency, params.searchTerm, ranking[i]._id)
<1>1. \E key : /\ IsFiniteSet(DOMAIN key)
               /\ Results(store, params) = Rankings(key)
               /\ \A doc \in DOMAIN key :
                     Wanted(params.agency, params.searchTerm, doc._id)
  <2>1. CASE params.searchTerm = Null
    <3>1. PICK found : found = FilterByAgency(params.agency,
                                   FilterInactiveAndUnlistedForms(store,
                                       FilterBySubmissionCount(
                                           SubmissionInfo(store))))
      OBVIOUS
    <3>2. found \subseteq SubmissionInfo(store)
      BY <3>1 DEF FilterByAgency, FilterInactiveAndUnlistedForms,
                  FilterBySubmissionCount
    <3>3. IsFiniteSet(SubmissionInfo(store))
      BY GroupsFinite, ProjectionFinite DEF SubmissionInfo, StoreOK
    <3>4. IsFiniteSet(found)
      BY <3>2, <3>3, FS_Subset
    <3>5. Results(store, params)
             = Rankings([doc \in found |-> doc.lastSubmission])
      BY <2>1, <3>1 DEF Results, GeneralQuery
    <3>6. \A doc \in found : params.agency # Null =>
                                agencyOf[doc._id] = params.agency
      BY <3>1 DEF FilterByAgency
    <3>. QED  BY <2>1, <3>4, <3>5, <3>6 DEF Wanted
  <2>2. CASE params.searchTerm # Null
    <3>1. PICK found : found = FilterByAgency(params.agency,
                                   FilterInactiveAndUnlistedForms(store,
                                       SearchFormsForText(params.searchTerm)))
      OBVIOUS
    <3>2. PICK info : info = IF aggregateStats
                             THEN LookupFormStatisticsInfo(store, found)
                             ELSE LookupSubmissionInfo(store, found)
      OBVIOUS
    <3>3. /\ IsFiniteSet(info)
          /\ \A x \in info : \E doc \in found : doc._id = x._id
      <4>1. CASE aggregateStats
        <5>1. IsFiniteSet(ProjectSubmissionInfo(store.statistics))
          BY ProjectionFinite DEF StoreOK
        <5>. QED  BY <3>2, <4>1, <5>1, FS_Subset
                  DEF LookupFormStatisticsInfo
      <4>2. CASE ~aggregateStats
        BY <3>2, <4>2, LookupFinite
      <4>. QED  BY <4>1, <4>2
    <3>4. PICK counted : counted = FilterBySubmissionCount(info)
      OBVIOUS
    <3>5. counted \subseteq info /\ IsFiniteSet(counted)
      BY <3>3, <3>4, FS_Subset DEF FilterBySubmissionCount
    <3>6. Results(store, params)
             = Rankings([doc \in counted |->
                            textScore[params.searchTerm][doc._id]])
      BY <2>2, <3>1, <3>2, <3>4 DEF Results, SearchQuery
    <3>7. \A doc \in found :
              /\ params.agency # Null => agencyOf[doc._id] = params.agency
              /\ textScore[params.searchTerm][doc._id] > 0
      BY <3>1 DEF FilterByAgency, FilterInactiveAndUnlistedForms,
                  SearchFormsForText
    <3>8. \A x \in counted : Wanted(params.agency, params.searchTerm, x._id)
      <4>1. ASSUME NEW x \in counted
            PROVE  Wanted(params.agency, params.searchTerm, x._id)
        <5>1. PICK doc \in found : doc._id = x._id
          BY <3>3, <3>5
        <5>. QED  BY <3>7, <5>1 DEF Wanted
      <4>. QED  BY <4>1
    <3>. QED  BY <3>5, <3>6, <3>8
  <2>. QED  BY <2>1, <2>2
<1>2. PICK key : /\ IsFiniteSet(DOMAIN key)
                 /\ Results(store, params) = Rankings(key)
                 /\ \A doc \in DOMAIN key :
                       Wanted(params.agency, params.searchTerm, doc._id)
  BY <1>1
<1>3. ranking \in Seq(DOMAIN key)
  BY <1>2, RankingsAreSequences
<1>. QED  BY <1>2, <1>3

(* A page of a ranking, at any place of it or behind its end.              *)
LEMMA PageCut ==
  ASSUME NEW S, NEW ranking \in Seq(S), NEW pageNo \in Nat
  PROVE  LET k == pageNo * PAGE_SIZE
             slice == PageResults(ranking, pageNo)
         IN  /\ \E C : slice \in Seq(C)
             /\ Len(slice) \in 0..PAGE_SIZE
             /\ \A i \in 1..Len(slice) :
                   /\ k + i <= Len(ranking)
                   /\ slice[i] = CardInfo(ranking[k + i])
             /\ Len(slice) < PAGE_SIZE => k + Len(slice) >= Len(ranking)
<1>1. PICK k : k = pageNo * PAGE_SIZE
  OBVIOUS
<1>2. k \in Nat /\ PAGE_SIZE \in Nat \ {0} /\ Len(ranking) \in Nat
  BY <1>1, ExamplesAssumption
<1>. DEFINE slice == PageResults(ranking, pageNo)
            left == IF k <= Len(ranking) THEN Len(ranking) - k ELSE 0
            m == IF left < PAGE_SIZE THEN left ELSE PAGE_SIZE
<1>3. \A i \in Int : i \in DOMAIN ranking <=> i >= 1 /\ i <= Len(ranking)
  OBVIOUS
<1>4. /\ m \in 0..PAGE_SIZE /\ m \in Nat
      /\ \A i \in 1..m : k + i <= Len(ranking)
      /\ m < PAGE_SIZE => k + m >= Len(ranking)
  BY <1>2
<1>5. slice = [i \in 1..m |-> CardInfo(ranking[k + i])]
  <2>1. {j \in 1..PAGE_SIZE : k + j \in DOMAIN ranking} = 1..m
    <3>. HIDE DEF slice
    <3>. QED  BY <1>2, <1>3
  <2>. QED  BY <1>1, <2>1 DEF PageResults
<1>6. slice \in Seq({slice[i] : i \in 1..m}) /\ Len(slice) = m
  <2>. HIDE DEF m
  <2>1. DOMAIN slice = 1..m
    BY <1>5
  <2>2. slice = [i \in 1..m |-> slice[i]]
    BY <1>5
  <2>. HIDE DEF slice
  <2>. QED  BY <1>4, <2>1, <2>2
<1>7. \A i \in 1..m : slice[i] = CardInfo(ranking[k + i])
  <2>. HIDE DEF m
  <2>. QED  BY <1>5
<1>. HIDE DEF slice, m
<1>. QED  BY <1>1, <1>4, <1>6, <1>7 DEF slice

Query(A) ==
    [agency : {ownAgency, Null}, pageNo : Nat,
     searchTerm : SearchTerms \cup {Null},
     shouldGetTotalNumResults : BOOLEAN, outdated : BOOLEAN, answer : A]

ExampleTypes ==
    /\ searchParams \in [pageNo : Nat, filterByAgency : BOOLEAN,
                         searchTerm : SearchTerms \cup {Null}]
    /\ \E C, T, N : uiState \in [forms : C,
                                 searchInput : SearchTerms \cup {Null},
                                 loadingState : {"free", "busy", "complete"},
                                 totalNumResults : T,
                                 numResultsLoadedSoFar : N]
    /\ \E A : queries \in Seq(Query(A))
    /\ \A ranking \in ranked : \E S : ranking \in Seq(S)

Agency(params) == IF params.filterByAgency THEN ownAgency ELSE Null

(* What the page asks for next, and what it may have been answered out of  *)
(* the rankings R.                                                         *)
AsksFor(query, R, params) ==
    /\ query.agency = Agency(params)
    /\ query.searchTerm = params.searchTerm
    /\ query.pageNo = params.pageNo
    /\ query.shouldGetTotalNumResults
          <=> params.pageNo = 0 /\ params.searchTerm # Null
    /\ query.answer # Null =>
          \E ranking \in R :
             /\ query.answer.forms = PageResults(ranking, params.pageNo)
             /\ query.shouldGetTotalNumResults =>
                   query.answer.totalNumResults = Len(ranking)

(* A search has one request under way at most, while the page is busy.     *)
OnePageAsked(R, qs, ui, params) ==
    \A q \in DOMAIN qs : ~qs[q].outdated =>
        /\ ui.loadingState = "busy"
        /\ AsksFor(qs[q], R, params)
        /\ \A p \in DOMAIN qs : ~qs[p].outdated => p = q

(* The places of the cards on the page.                                    *)
CardsPlaced(R, ui, params) ==
    /\ \E C : ui.forms \in Seq(C)
    /\ \A i \in DOMAIN ui.forms : \E ranking \in R :
          i <= Len(ranking) /\ ui.forms[i] = CardInfo(ranking[i])
    /\ ui.numResultsLoadedSoFar = Len(ui.forms)
    /\ IF ui.loadingState = "complete"
       THEN \E ranking \in R : Len(ui.forms) >= Len(ranking)
       ELSE Len(ui.forms) = params.pageNo * PAGE_SIZE
    /\ ui.forms # <<>> /\ params.searchTerm # Null =>
          \E ranking \in R : ui.totalNumResults = Len(ranking)

RankedWanted(R, params) ==
    \A ranking \in R : \A i \in DOMAIN ranking :
        Wanted(Agency(params), params.searchTerm, ranking[i]._id)

(* While nothing went wrong since the search began.                        *)
SearchInOrder(R, qs, ui, params) ==
    /\ OnePageAsked(R, qs, ui, params)
    /\ CardsPlaced(R, ui, params)
    /\ RankedWanted(R, params)

ExampleInv ==
    /\ CollectionsOK
    /\ ExampleTypes
    /\ mishaps = {} => SearchInOrder(ranked, queries, uiState, searchParams)

LEMMA ExampleInvShows ==
  ASSUME ExampleInv
  PROVE  ShownAsRanked
<1>1. SUFFICES ASSUME mishaps = {}
               PROVE  \A i \in DOMAIN uiState.forms :
                          Selected(uiState.forms[i]._id)
  BY DEF ShownAsRanked, ExampleInv, SearchInOrder, CardsPlaced
<1>2. SUFFICES ASSUME NEW i \in DOMAIN uiState.forms
               PROVE  Selected(uiState.forms[i]._id)
  OBVIOUS
<1>3. PICK ranking \in ranked : /\ i <= Len(ranking)
                                /\ uiState.forms[i] = CardInfo(ranking[i])
  BY <1>1 DEF ExampleInv, SearchInOrder, CardsPlaced
<1>4. i \in DOMAIN ranking
  <2>1. PICK S : ranking \in Seq(S)
    BY DEF ExampleInv, ExampleTypes
  <2>2. PICK C : uiState.forms \in Seq(C)
    BY <1>1 DEF ExampleInv, SearchInOrder, CardsPlaced
  <2>. QED  BY <1>3, <2>1, <2>2
<1>5. Wanted(Agency(searchParams), searchParams.searchTerm, ranking[i]._id)
  BY <1>1, <1>4 DEF ExampleInv, SearchInOrder, RankedWanted
<1>6. uiState.forms[i]._id = ranking[i]._id
  BY <1>3 DEF CardInfo
<1>. QED  BY <1>5, <1>6, ExamplesAssumption DEF Wanted, Agency, Selected

(* The page that comes is put behind those that are there.                 *)
LEMMA PageShown ==
  ASSUME NEW R, NEW ranking \in R, NEW S, ranking \in Seq(S),
         NEW ui,
         NEW params, params.pageNo \in Nat,
         CardsPlaced(R, ui, params), ui.loadingState = "busy",
         NEW slice, slice = PageResults(ranking, params.pageNo),
         NEW ui2, NEW params2,
         ui2.forms = ui.forms \o slice,
         ui2.numResultsLoadedSoFar = ui.numResultsLoadedSoFar + Len(slice),
         ui2.loadingState = IF Len(slice) < PAGE_SIZE THEN "complete" ELSE "free",
         IF params.pageNo = 0 /\ params.searchTerm # Null
         THEN ui2.totalNumResults = Len(ranking)
         ELSE ui2.totalNumResults = ui.totalNumResults,
         params2.searchTerm = params.searchTerm,
         params2.pageNo = IF Len(slice) < PAGE_SIZE THEN params.pageNo
                                                   ELSE params.pageNo + 1
  PROVE  CardsPlaced(R, ui2, params2)
<1>0. PICK C : ui.forms \in Seq(C)
  BY DEF CardsPlaced
<1>1. PICK k : k = params.pageNo * PAGE_SIZE
  OBVIOUS
<1>2. /\ k \in Nat /\ PAGE_SIZE \in Nat \ {0} /\ Len(ranking) \in Nat
      /\ params.pageNo # 0 => k # 0
  BY <1>1, ExamplesAssumption
<1>3. PICK m : m = Len(slice)
  OBVIOUS
<1>4. /\ \E D : slice \in Seq(D)
      /\ m \in 0..PAGE_SIZE
      /\ \A i \in 1..m : /\ k + i <= Len(ranking)
                         /\ slice[i] = CardInfo(ranking[k + i])
      /\ m < PAGE_SIZE => k + m >= Len(ranking)
  BY <1>1, <1>3, PageCut
<1>5. PICK D : slice \in Seq(D)
  BY <1>4
<1>6. /\ Len(ui.forms) = k
      /\ \A i \in 1..k : \E r \in R :
            i <= Len(r) /\ ui.forms[i] = CardInfo(r[i])
      /\ ui.numResultsLoadedSoFar = k
  <2>1. Len(ui.forms) = k /\ ui.numResultsLoadedSoFar = k
    BY <1>1 DEF CardsPlaced
  <2>2. DOMAIN ui.forms = 1..k
    BY <1>0, <2>1
  <2>. QED  BY <2>1, <2>2 DEF CardsPlaced
<1>7. PICK f, g : f = ui.forms /\ g = ui2.forms
  OBVIOUS
<1>8. f \in Seq(C \cup D) /\ slice \in Seq(C \cup D) /\ g = f \o slice
  <2>1. Seq(C) \subseteq Seq(C \cup D) /\ Seq(D) \subseteq Seq(C \cup D)
    BY SeqMonotonic
  <2>. QED  BY <1>0, <1>5, <1>7, <2>1
<1>9. /\ g \in Seq(C \cup D) /\ Len(g) = k + m
      /\ \A i \in 1..k : g[i] = f[i]
      /\ \A i \in 1..m : g[k + i] = slice[i]
      /\ DOMAIN g = 1..(k + m)
  <2>1. m \in Nat /\ Len(f) = k /\ Len(slice) = m
    BY <1>2, <1>3, <1>4, <1>6, <1>7
  <2>2. g \in Seq(C \cup D) /\ Len(g) = k + m
    <3>1. PICK E : E = C \cup D
      OBVIOUS
    <3>2. f \in Seq(E) /\ slice \in Seq(E)
      BY <1>8, <3>1
    <3>3. f \o slice \in Seq(E) /\ Len(f \o slice) = Len(f) + Len(slice)
      BY <3>2
    <3>. QED  BY <1>8, <2>1, <3>1, <3>3
  <2>3. DOMAIN g = 1..(k + m)
    BY <2>2
  <2>4. ASSUME NEW i \in 1..k
        PROVE  g[i] = f[i]
    <3>1. i \in 1..(k + m) /\ i <= k
      BY <1>2, <2>1
    <3>. QED  BY <1>8, <2>1, <3>1
  <2>5. ASSUME NEW i \in 1..m
        PROVE  g[k + i] = slice[i]
    <3>1. k + i \in 1..(k + m) /\ k + i > k /\ (k + i) - k = i
      BY <1>2, <2>1
    <3>. QED  BY <1>8, <2>1, <3>1
  <2>. QED  BY <2>2, <2>3, <2>4, <2>5
<1>10. ASSUME NEW i \in DOMAIN g
       PROVE  \E r \in R : i <= Len(r) /\ g[i] = CardInfo(r[i])
  <2>1. i \in Int /\ i >= 1 /\ i <= k + m /\ m \in Nat
    BY <1>2, <1>4, <1>9
  <2>2. CASE i <= k
    <3>1. i \in 1..k
      BY <1>2, <2>1, <2>2
    <3>. QED  BY <1>6, <1>7, <1>9, <3>1
  <2>3. CASE i > k
    <3>1. PICK j : j = i - k
      OBVIOUS
    <3>2. j \in 1..m /\ i = k + j
      BY <1>2, <2>1, <2>3, <3>1
    <3>3. i <= Len(ranking) /\ g[i] = CardInfo(ranking[i])
      BY <1>4, <1>9, <3>2
    <3>. QED  BY <3>3
  <2>. QED  BY <1>2, <2>1, <2>2, <2>3
<1>11. ui2.numResultsLoadedSoFar = Len(ui2.forms)
  BY <1>3, <1>6, <1>7, <1>9
<1>12. IF ui2.loadingState = "complete"
       THEN \E r \in R : Len(ui2.forms) >= Len(r)
       ELSE Len(ui2.forms) = params2.pageNo * PAGE_SIZE
  <2>1. CASE m < PAGE_SIZE
    <3>1. Len(g) >= Len(ranking) /\ ui2.loadingState = "complete"
      BY <1>3, <1>4, <1>9, <2>1
    <3>. QED  BY <1>7, <3>1
  <2>2. CASE ~(m < PAGE_SIZE)
    <3>1. m = PAGE_SIZE
      BY <1>2, <1>4, <2>2
    <3>2. params2.pageNo = params.pageNo + 1 /\ ui2.loadingState = "free"
      BY <1>3, <2>2
    <3>3. (params.pageNo + 1) * PAGE_SIZE = params.pageNo * PAGE_SIZE + PAGE_SIZE
      BY <1>2
    <3>. QED  BY <1>1, <1>7, <1>9, <3>1, <3>2, <3>3
  <2>. QED  BY <2>1, <2>2
<1>13. ASSUME params2.searchTerm # Null
       PROVE  \E r \in R : ui2.totalNumResults = Len(r)
  <2>1. CASE params.pageNo = 0
    BY <1>13, <2>1
  <2>2. CASE params.pageNo # 0
    <3>1. ui.forms # <<>>
      BY <1>0, <1>2, <1>6, <2>2
    <3>2. ui2.totalNumResults = ui.totalNumResults
      BY <2>2
    <3>. QED  BY <1>13, <3>1, <3>2 DEF CardsPlaced
  <2>. QED  BY <2>1, <2>2
<1>14. \A i \in DOMAIN ui2.forms : \E r \in R :
          i <= Len(r) /\ ui2.forms[i] = CardInfo(r[i])
  BY <1>7, <1>10
<1>. QED  BY <1>7, <1>9, <1>11, <1>12, <1>13, <1>14 DEF CardsPlaced

LEMMA QueryRemoved ==
  ASSUME NEW S, NEW s \in Seq(S), NEW q \in DOMAIN s
  PROVE  /\ RemoveAt(s, q) \in Seq(S)
         /\ \A j \in DOMAIN RemoveAt(s, q) :
               \E p \in DOMAIN s \ {q} : RemoveAt(s, q)[j] = s[p]
<1>1. PICK n, r : n = Len(s) /\ r = RemoveAt(s, q)
  OBVIOUS
<1>2. n \in Nat /\ DOMAIN s = 1..n /\ q \in 1..n
  BY <1>1
<1>3. /\ r \in Seq(S) /\ Len(r) = n - 1
      /\ \A j \in 1..(n - 1) : r[j] = s[IF j < q THEN j ELSE j + 1]
  BY <1>1, <1>2, Removed
<1>4. DOMAIN r = 1..(n - 1)
  BY <1>2, <1>3
<1>5. ASSUME NEW j \in 1..(n - 1)
      PROVE  (IF j < q THEN j ELSE j + 1) \in DOMAIN s \ {q}
  BY <1>2
<1>. QED  BY <1>1, <1>3, <1>4, <1>5

(* A page without cards.                                                   *)
EmptyPage(ui, params) ==
    /\ ui.forms = <<>> /\ ui.numResultsLoadedSoFar = 0
    /\ ui.loadingState # "complete"
    /\ params.pageNo = 0

LEMMA EmptyInOrder ==
  ASSUME NEW ui, NEW params, EmptyPage(ui, params)
  PROVE  CardsPlaced({}, ui, params) /\ RankedWanted({}, params)
<1>1. 0 * PAGE_SIZE = 0
  BY ExamplesAssumption
<1>2. /\ ui.forms = <<>> /\ Len(ui.forms) = 0 /\ DOMAIN ui.forms = {}
      /\ ui.forms \in Seq({})
  BY DEF EmptyPage
<1>. QED  BY <1>1, <1>2 DEF EmptyPage, CardsPlaced, RankedWanted

LEMMA CollectionsKept ==
  ASSUME CollectionsOK, UNCHANGED serverVars
  PROVE  CollectionsOK'
BY DEF CollectionsOK, StoreOK, Primary, serverVars, primaryVars

(* What asking for the next page adds to requests of earlier searches.     *)
LEMMA NextPageAsked ==
  ASSUME NEW A, NEW pending \in Seq(Query(A)),
         \A q \in DOMAIN pending : pending[q].outdated,
         NEW params \in [pageNo : Nat, filterByAgency : BOOLEAN,
                         searchTerm : SearchTerms \cup {Null}],
         AskForPage(pending, params), NEW R,
         NEW ui, ui.loadingState = "busy"
  PROVE  /\ \E B : queries' \in Seq(Query(B))
         /\ OnePageAsked(R, queries', ui, params)
<1>1. PICK new : new = [agency |-> Agency(params), pageNo |-> params.pageNo,
                        searchTerm |-> params.searchTerm,
                        shouldGetTotalNumResults |->
                            (params.pageNo = 0 /\ params.searchTerm # Null),
                        outdated |-> FALSE, answer |-> Null]
  OBVIOUS
<1>2. queries' = Append(pending, new)
  BY <1>1 DEF AskForPage, Agency
<1>3. PICK B : B = A \cup {Null}
  OBVIOUS
<1>4. pending \in Seq(Query(B))
  <2>1. Query(A) \subseteq Query(B)
    BY <1>3 DEF Query
  <2>. QED  BY <2>1, SeqMonotonic
<1>5. new \in Query(B)
  BY <1>1, <1>3 DEF Query, Agency
<1>6. PICK n : n = Len(pending)
  OBVIOUS
<1>7. PICK S : S = Query(B)
  OBVIOUS
<1>8. /\ n \in Nat /\ DOMAIN pending = 1..n
      /\ queries' \in Seq(S) /\ DOMAIN queries' = 1..(n + 1)
      /\ \A q \in 1..n : queries'[q] = pending[q]
      /\ queries'[n + 1] = new
  BY <1>2, <1>4, <1>5, <1>6, <1>7
<1>9. AsksFor(new, R, params) /\ ~new.outdated
  BY <1>1 DEF AsksFor
<1>10. \A q \in DOMAIN queries' : ~queries'[q].outdated => q = n + 1
  BY <1>8
<1>11. OnePageAsked(R, queries', ui, params)
  BY <1>8, <1>9, <1>10 DEF OnePageAsked
<1>. QED  BY <1>7, <1>8, <1>11

LEMMA NewPageOpened ==
  ASSUME ExampleInv, UNCHANGED serverVars, uiState' = NoForms,
         searchParams' = [pageNo |-> 0, filterByAgency |-> FALSE,
                          searchTerm |-> Null],
         queries' = <<>>, ranked' = {}
  PROVE  ExampleInv'
<1>1. CollectionsOK'
  BY CollectionsKept DEF ExampleInv
<1>2. uiState' \in [forms : {<<>>}, searchInput : SearchTerms \cup {Null},
                    loadingState : {"free", "busy", "complete"},
                    totalNumResults : {0}, numResultsLoadedSoFar : {0}]
  BY DEF NoForms
<1>3. queries' \in Seq(Query({}))
  OBVIOUS
<1>4. ExampleTypes'
  BY <1>2, <1>3 DEF ExampleTypes
<1>5. PICK ui, params : ui = uiState' /\ params = searchParams'
  OBVIOUS
<1>6. EmptyPage(ui, params)
  BY <1>5 DEF EmptyPage, NoForms
<1>7. OnePageAsked({}, queries', ui, params)
  BY DEF OnePageAsked
<1>8. SearchInOrder({}, queries', ui, params)
  BY <1>6, <1>7, EmptyInOrder DEF SearchInOrder
<1>9. SearchInOrder(ranked, queries, uiState, searchParams)'
  BY <1>5, <1>8 DEF SearchInOrder, OnePageAsked, CardsPlaced, RankedWanted,
                    AsksFor, Agency, Wanted
<1>. QED  BY <1>1, <1>4, <1>9 DEF ExampleInv

LEMMA ExampleInvInit ==
  ASSUME ExamplesInit
  PROVE  ExampleInv
<1>1. submissions \in Seq(SubmissionType)
  BY ExamplesAssumption DEF ExamplesInit, SubmissionType
<1>2. IsFiniteSet(statistics)
  BY <1>1, TotalsFinite DEF ExamplesInit
<1>3. StoreOK(Primary)
  BY <1>1, <1>2 DEF StoreOK, Primary
<1>4. CollectionsOK
  BY <1>3 DEF ExamplesInit, CollectionsOK
<1>5. uiState \in [forms : {<<>>}, searchInput : SearchTerms \cup {Null},
                   loadingState : {"free", "busy", "complete"},
                   totalNumResults : {0}, numResultsLoadedSoFar : {0}]
  BY DEF ExamplesInit, NoForms
<1>6. queries \in Seq(Query({})) /\ queries = <<>> /\ ranked = {}
  BY DEF ExamplesInit
<1>7. ExampleTypes
  BY <1>5, <1>6 DEF ExampleTypes, ExamplesInit
<1>8. EmptyPage(uiState, searchParams)
  BY DEF ExamplesInit, EmptyPage, NoForms
<1>9. OnePageAsked({}, queries, uiState, searchParams)
  BY <1>6 DEF OnePageAsked
<1>10. SearchInOrder(ranked, queries, uiState, searchParams)
  BY <1>6, <1>8, <1>9, EmptyInOrder DEF SearchInOrder
<1>. QED  BY <1>4, <1>7, <1>10 DEF ExampleInv

(* A step of the page, by what it makes of the search.                     *)
LEMMA SearchKept ==
  ASSUME ExampleInv, UNCHANGED serverVars, ExampleTypes',
         NEW R, NEW qs, NEW ui, NEW params,
         R = ranked', qs = queries', ui = uiState', params = searchParams',
         mishaps' = {} => SearchInOrder(R, qs, ui, params)
  PROVE  ExampleInv'
<1>1. CollectionsOK'
  BY CollectionsKept DEF ExampleInv
<1>2. mishaps' = {} => SearchInOrder(ranked, queries, uiState, searchParams)'
  BY DEF SearchInOrder, OnePageAsked, CardsPlaced, RankedWanted, AsksFor,
         Agency, Wanted
<1>. QED  BY <1>1, <1>2 DEF ExampleInv

LEMMA SelectionUpdated ==
  ASSUME ExampleInv, NEW filter \in BOOLEAN,
         NEW term \in SearchTerms \cup {Null},
         NEW entered \in SearchTerms \cup {Null},
         UpdateSelection(filter, term, entered)
  PROVE  ExampleInv'
<1>1. PICK params, pending :
         /\ params = [pageNo |-> 0, filterByAgency |-> filter,
                      searchTerm |-> term]
         /\ pending = [q \in DOMAIN queries |->
                          [queries[q] EXCEPT !.outdated = TRUE]]
  OBVIOUS
<1>2. /\ searchParams' = params
      /\ uiState' = [uiState EXCEPT !.forms = <<>>,
                                    !.numResultsLoadedSoFar = 0,
                                    !.searchInput = entered,
                                    !.loadingState = "busy"]
      /\ AskForPage(pending, params)
      /\ ranked' = {}
      /\ UNCHANGED serverVars
  BY <1>1 DEF UpdateSelection
<1>3. params \in [pageNo : Nat, filterByAgency : BOOLEAN,
                  searchTerm : SearchTerms \cup {Null}]
  BY <1>1
<1>4. PICK T : uiState' \in [forms : {<<>>}, searchInput : {entered},
                             loadingState : {"busy"}, totalNumResults : T,
                             numResultsLoadedSoFar : {0}]
  BY <1>2 DEF ExampleInv, ExampleTypes
<1>5. PICK A : queries \in Seq(Query(A))
  BY DEF ExampleInv, ExampleTypes
<1>6. /\ pending \in Seq(Query(A))
      /\ \A q \in DOMAIN pending : pending[q].outdated
  <2>1. ASSUME NEW query \in Query(A)
        PROVE  /\ [query EXCEPT !.outdated = TRUE] \in Query(A)
               /\ [query EXCEPT !.outdated = TRUE].outdated
    BY DEF Query
  <2>2. PICK S : S = Query(A)
    OBVIOUS
  <2>3. PICK n : n = Len(queries)
    OBVIOUS
  <2>4. /\ n \in Nat /\ DOMAIN queries = 1..n
        /\ \A q \in 1..n : queries[q] \in Query(A)
    BY <1>5, <2>2, <2>3
  <2>5. \A q \in 1..n : pending[q] \in Query(A) /\ pending[q].outdated
    BY <1>1, <2>1, <2>4
  <2>6. DOMAIN pending = 1..n /\ pending = [q \in 1..n |-> pending[q]]
    BY <1>1, <2>4
  <2>. QED  BY <2>2, <2>4, <2>5, <2>6
<1>7. PICK ui : ui = uiState'
  OBVIOUS
<1>8. /\ \E B : queries' \in Seq(Query(B))
      /\ OnePageAsked({}, queries', ui, params)
  BY <1>2, <1>3, <1>4, <1>6, <1>7, NextPageAsked
<1>9. ExampleTypes'
  <2>1. uiState' \in [forms : {<<>>}, searchInput : SearchTerms \cup {Null},
                      loadingState : {"free", "busy", "complete"},
                      totalNumResults : T, numResultsLoadedSoFar : {0}]
    <3>1. {entered} \subseteq SearchTerms \cup {Null}
      OBVIOUS
    <3>. QED  BY <1>4, <3>1
  <2>. QED  BY <1>2, <1>3, <1>8, <2>1 DEF ExampleTypes
<1>10. SearchInOrder({}, queries', ui, params)
  <2>1. EmptyPage(ui, params)
    BY <1>1, <1>4, <1>7 DEF EmptyPage
  <2>. QED  BY <1>8, <2>1, EmptyInOrder DEF SearchInOrder
<1>. QED  BY <1>2, <1>7, <1>9, <1>10, SearchKept

LEMMA NextPageLoaded ==
  ASSUME ExampleInv, LoadNextPage
  PROVE  ExampleInv'
<1>1. /\ uiState.loadingState = "free"
      /\ AskForPage(queries, searchParams)
      /\ uiState' = [uiState EXCEPT !.loadingState = "busy"]
      /\ UNCHANGED serverVars /\ mishaps' = mishaps /\ ranked' = ranked
      /\ searchParams' = searchParams
  BY DEF LoadNextPage, historyVars
<1>2. PICK C, T, N :
         uiState \in [forms : C, searchInput : SearchTerms \cup {Null},
                      loadingState : {"free", "busy", "complete"},
                      totalNumResults : T, numResultsLoadedSoFar : N]
  BY DEF ExampleInv, ExampleTypes
<1>3. /\ uiState' \in [forms : C, searchInput : SearchTerms \cup {Null},
                       loadingState : {"free", "busy", "complete"},
                       totalNumResults : T, numResultsLoadedSoFar : N]
      /\ uiState'.loadingState = "busy"
      /\ uiState'.forms = uiState.forms
      /\ uiState'.numResultsLoadedSoFar = uiState.numResultsLoadedSoFar
      /\ uiState'.totalNumResults = uiState.totalNumResults
  BY <1>1, <1>2
<1>4. PICK A : queries \in Seq(Query(A))
  BY DEF ExampleInv, ExampleTypes
<1>5. PICK new : queries' = Append(queries, new) /\ new \in Query({Null})
  <2>1. PICK new : new = [agency |-> Agency(searchParams),
                          pageNo |-> searchParams.pageNo,
                          searchTerm |-> searchParams.searchTerm,
                          shouldGetTotalNumResults |->
                              (/\ searchParams.pageNo = 0
                               /\ searchParams.searchTerm # Null),
                          outdated |-> FALSE, answer |-> Null]
    OBVIOUS
  <2>2. queries' = Append(queries, new)
    BY <1>1, <2>1 DEF AskForPage, Agency
  <2>3. /\ searchParams.pageNo \in Nat
        /\ searchParams.searchTerm \in SearchTerms \cup {Null}
    BY DEF ExampleInv, ExampleTypes
  <2>4. new \in Query({Null})
    BY <2>1, <2>3 DEF Query, Agency
  <2>. QED  BY <2>2, <2>4
<1>6. \E B : queries' \in Seq(Query(B))
  <2>1. PICK B : B = A \cup {Null}
    OBVIOUS
  <2>2. Query(A) \subseteq Query(B) /\ Query({Null}) \subseteq Query(B)
    BY <2>1 DEF Query
  <2>3. queries \in Seq(Query(B)) /\ new \in Query(B)
    BY <1>4, <1>5, <2>2, SeqMonotonic
  <2>4. queries' \in Seq(Query(B))
    BY <1>5, <2>3
  <2>. QED  BY <2>4
<1>7. ExampleTypes'
  BY <1>1, <1>3, <1>6 DEF ExampleTypes, ExampleInv
<1>8. PICK ui : ui = uiState'
  OBVIOUS
<1>9. ASSUME mishaps = {}
      PROVE  SearchInOrder(ranked, queries', ui, searchParams)
  <2>1. SearchInOrder(ranked, queries, uiState, searchParams)
    BY <1>9 DEF ExampleInv
  <2>2. \A q \in DOMAIN queries : queries[q].outdated
    BY <1>1, <2>1 DEF SearchInOrder, OnePageAsked
  <2>3. searchParams \in [pageNo : Nat, filterByAgency : BOOLEAN,
                          searchTerm : SearchTerms \cup {Null}]
    BY DEF ExampleInv, ExampleTypes
  <2>4. OnePageAsked(ranked, queries', ui, searchParams)
    BY <1>1, <1>3, <1>4, <1>8, <2>2, <2>3, NextPageAsked
  <2>5. CardsPlaced(ranked, ui, searchParams)
    BY <1>1, <1>3, <1>8, <2>1 DEF SearchInOrder, CardsPlaced
  <2>. QED  BY <2>1, <2>4, <2>5 DEF SearchInOrder
<1>. QED  BY <1>1, <1>7, <1>8, <1>9, SearchKept

LEMMA SearchEntered ==
  ASSUME ExampleInv, NEW term \in SearchTerms \cup {Null}, EnterSearch(term)
  PROVE  ExampleInv'
<1>1. /\ uiState' = [uiState EXCEPT !.searchInput = term]
      /\ UNCHANGED serverVars /\ mishaps' = mishaps /\ ranked' = ranked
      /\ searchParams' = searchParams /\ queries' = queries
  BY DEF EnterSearch, historyVars
<1>2. PICK C, T, N :
         uiState \in [forms : C, searchInput : SearchTerms \cup {Null},
                      loadingState : {"free", "busy", "complete"},
                      totalNumResults : T, numResultsLoadedSoFar : N]
  BY DEF ExampleInv, ExampleTypes
<1>3. /\ uiState' \in [forms : C, searchInput : SearchTerms \cup {Null},
                       loadingState : {"free", "busy", "complete"},
                       totalNumResults : T, numResultsLoadedSoFar : N]
      /\ uiState'.loadingState = uiState.loadingState
      /\ uiState'.forms = uiState.forms
      /\ uiState'.numResultsLoadedSoFar = uiState.numResultsLoadedSoFar
      /\ uiState'.totalNumResults = uiState.totalNumResults
  BY <1>1, <1>2
<1>4. ExampleTypes'
  BY <1>1, <1>3 DEF ExampleTypes, ExampleInv
<1>5. PICK ui : ui = uiState'
  OBVIOUS
<1>6. ASSUME mishaps = {}
      PROVE  SearchInOrder(ranked, queries, ui, searchParams)
  <2>1. SearchInOrder(ranked, queries, uiState, searchParams)
    BY <1>6 DEF ExampleInv
  <2>. QED  BY <1>3, <1>5, <2>1 DEF SearchInOrder, OnePageAsked, CardsPlaced
<1>. QED  BY <1>1, <1>4, <1>5, <1>6, SearchKept

LEMMA PageServed ==
  ASSUME ExampleInv, NEW q \in DOMAIN queries, Serve(q)
  PROVE  ExampleInv'
<1>0. PICK member \in Secondaries :
         \E ranking \in Results(secondaries[member], queries[q]) :
            /\ queries' = [queries EXCEPT ![q].answer =
                              ExampleFormsAnswer(queries[q], ranking)]
            /\ ranked' = IF queries[q].outdated THEN ranked
                         ELSE ranked \cup {ranking}
  BY DEF Serve
<1>1. PICK ranking \in Results(secondaries[member], queries[q]) :
         /\ queries' = [queries EXCEPT ![q].answer =
                           ExampleFormsAnswer(queries[q], ranking)]
         /\ ranked' = IF queries[q].outdated THEN ranked
                      ELSE ranked \cup {ranking}
         /\ UNCHANGED serverVars /\ mishaps' = mishaps
         /\ searchParams' = searchParams /\ uiState' = uiState
  BY <1>0 DEF Serve
<1>2. StoreOK(secondaries[member])
  BY DEF ExampleInv, CollectionsOK
<1>3. /\ \E S : ranking \in Seq(S)
      /\ \A i \in DOMAIN ranking :
            Wanted(queries[q].agency, queries[q].searchTerm, ranking[i]._id)
  BY <1>2, ResultsWanted
<1>4. PICK A : queries \in Seq(Query(A))
  BY DEF ExampleInv, ExampleTypes
<1>5. PICK query, new, next :
         /\ query = queries[q]
         /\ new = ExampleFormsAnswer(query, ranking)
         /\ next = [query EXCEPT !.answer = new]
  OBVIOUS
<1>6. query \in Query(A)
  BY <1>4, <1>5
<1>7. /\ next \in Query(A \cup {new}) /\ next.answer = new
      /\ next.agency = query.agency /\ next.searchTerm = query.searchTerm
      /\ next.pageNo = query.pageNo /\ (next.outdated <=> query.outdated)
      /\ next.shouldGetTotalNumResults <=> query.shouldGetTotalNumResults
  BY <1>5, <1>6 DEF Query
<1>8. queries' = [queries EXCEPT ![q] = next]
  BY <1>1, <1>5
<1>9. /\ queries' \in Seq(Query(A \cup {new}))
      /\ DOMAIN queries' = DOMAIN queries
      /\ queries'[q] = next
      /\ \A p \in DOMAIN queries \ {q} : queries'[p] = queries[p]
  <2>1. Query(A) \subseteq Query(A \cup {new})
    BY DEF Query
  <2>2. PICK S : S = Query(A \cup {new})
    OBVIOUS
  <2>3. queries \in Seq(S) /\ next \in S
    BY <1>4, <1>7, <2>1, <2>2, SeqMonotonic
  <2>4. queries' \in Seq(S)
    BY <1>8, <2>3
  <2>. QED  BY <1>8, <2>2, <2>4
<1>10. \A r \in ranked' : \E S : r \in Seq(S)
  BY <1>1, <1>3 DEF ExampleInv, ExampleTypes
<1>11. ExampleTypes'
  BY <1>1, <1>9, <1>10 DEF ExampleTypes, ExampleInv
<1>12. PICK R : R = ranked'
  OBVIOUS
<1>13. ASSUME mishaps = {}
       PROVE  SearchInOrder(R, queries', uiState, searchParams)
  <2>1. SearchInOrder(ranked, queries, uiState, searchParams)
    BY <1>13 DEF ExampleInv
  <2>2. ranked \subseteq R
    BY <1>1, <1>12
  <2>3. CardsPlaced(R, uiState, searchParams)
    BY <2>1, <2>2 DEF SearchInOrder, CardsPlaced
  <2>4. ASSUME NEW p \in DOMAIN queries, NEW r0, AsksFor(queries[p], r0, searchParams),
               r0 \subseteq R
        PROVE  AsksFor(queries[p], R, searchParams)
    BY <2>4 DEF AsksFor
  <2>5. CASE query.outdated
    <3>1. R = ranked
      BY <1>1, <1>5, <1>12, <2>5
    <3>2. OnePageAsked(R, queries, uiState, searchParams)
      BY <2>1, <3>1 DEF SearchInOrder
    <3>3. queries'[q].outdated /\ queries[q].outdated
      BY <1>5, <1>7, <1>9, <2>5
    <3>4. \A p \in DOMAIN queries' : ~queries'[p].outdated =>
              p \in DOMAIN queries /\ ~queries[p].outdated
              /\ queries'[p] = queries[p]
      BY <1>9, <3>3
    <3>5. OnePageAsked(R, queries', uiState, searchParams)
      BY <3>2, <3>4 DEF OnePageAsked
    <3>. QED  BY <2>1, <2>3, <3>1, <3>5 DEF SearchInOrder
  <2>6. CASE ~query.outdated
    <3>1. R = ranked \cup {ranking}
      BY <1>1, <1>5, <1>12, <2>6
    <3>2. /\ uiState.loadingState = "busy"
          /\ AsksFor(query, ranked, searchParams)
          /\ \A p \in DOMAIN queries : ~queries[p].outdated => p = q
      BY <1>5, <2>1, <2>6 DEF SearchInOrder, OnePageAsked
    <3>3. AsksFor(next, R, searchParams)
      <4>1. /\ new.forms = PageResults(ranking, query.pageNo)
            /\ query.shouldGetTotalNumResults =>
                  new.totalNumResults = Len(ranking)
        BY <1>5 DEF ExampleFormsAnswer
      <4>. QED  BY <1>7, <3>1, <3>2, <4>1 DEF AsksFor
    <3>4. OnePageAsked(R, queries', uiState, searchParams)
      BY <1>9, <3>2, <3>3 DEF OnePageAsked
    <3>5. RankedWanted(R, searchParams)
      BY <1>3, <1>5, <2>1, <3>1, <3>2
      DEF SearchInOrder, RankedWanted, AsksFor
    <3>. QED  BY <2>3, <3>4, <3>5 DEF SearchInOrder
  <2>. QED  BY <2>5, <2>6
<1>. QED  BY <1>1, <1>11, <1>12, <1>13, SearchKept

LEMMA PageReceived ==
  ASSUME ExampleInv, NEW q \in DOMAIN queries, ReceivePage(q)
  PROVE  ExampleInv'
<1>1. PICK query, cards : query = queries[q] /\ cards = query.answer.forms
  OBVIOUS
<1>2. PICK f, num, total, state :
         /\ f = uiState.forms \o cards
         /\ num = uiState.numResultsLoadedSoFar + Len(cards)
         /\ total = IF query.shouldGetTotalNumResults
                    THEN query.answer.totalNumResults
                    ELSE uiState.totalNumResults
         /\ state = IF Len(cards) < PAGE_SIZE THEN "complete" ELSE "free"
  OBVIOUS
<1>3. /\ UNCHANGED serverVars /\ ranked' = ranked
      /\ query.answer # Null
      /\ queries' = RemoveAt(queries, q)
      /\ uiState' = [uiState EXCEPT !.forms = f,
                                    !.numResultsLoadedSoFar = num,
                                    !.totalNumResults = total,
                                    !.loadingState = state]
      /\ searchParams' = IF Len(cards) < PAGE_SIZE THEN searchParams
                         ELSE [searchParams EXCEPT !.pageNo = @ + 1]
      /\ mishaps' = IF query.outdated THEN mishaps \cup {"overlap"}
                    ELSE mishaps
  BY <1>1, <1>2 DEF ReceivePage
<1>4. PICK C, T, N :
         uiState \in [forms : C, searchInput : SearchTerms \cup {Null},
                      loadingState : {"free", "busy", "complete"},
                      totalNumResults : T, numResultsLoadedSoFar : N]
  BY DEF ExampleInv, ExampleTypes
<1>5. /\ uiState' \in [forms : {f}, searchInput : SearchTerms \cup {Null},
                       loadingState : {state}, totalNumResults : {total},
                       numResultsLoadedSoFar : {num}]
      /\ state \in {"free", "complete"}
  BY <1>2, <1>3, <1>4
<1>6. searchParams' \in [pageNo : Nat, filterByAgency : BOOLEAN,
                         searchTerm : SearchTerms \cup {Null}]
      /\ searchParams'.filterByAgency = searchParams.filterByAgency
      /\ searchParams'.searchTerm = searchParams.searchTerm
      /\ searchParams'.pageNo = IF Len(cards) < PAGE_SIZE
                                THEN searchParams.pageNo
                                ELSE searchParams.pageNo + 1
  BY <1>3 DEF ExampleInv, ExampleTypes
<1>7. PICK A : queries \in Seq(Query(A))
  BY DEF ExampleInv, ExampleTypes
<1>8. /\ queries' \in Seq(Query(A))
      /\ \A j \in DOMAIN queries' :
            \E p \in DOMAIN queries \ {q} : queries'[j] = queries[p]
  <2>1. PICK S : S = Query(A)
    OBVIOUS
  <2>. QED  BY <1>3, <1>7, <2>1, QueryRemoved
<1>9. ExampleTypes'
  <2>1. \A r \in ranked' : \E S : r \in Seq(S)
    BY <1>3 DEF ExampleInv, ExampleTypes
  <2>2. uiState' \in [forms : {f}, searchInput : SearchTerms \cup {Null},
                      loadingState : {"free", "busy", "complete"},
                      totalNumResults : {total}, numResultsLoadedSoFar : {num}]
    <3>1. {state} \subseteq {"free", "busy", "complete"}
      BY <1>5
    <3>. QED  BY <1>5, <3>1
  <2>. QED  BY <1>6, <1>8, <2>1, <2>2 DEF ExampleTypes
<1>10. PICK ui, params : ui = uiState' /\ params = searchParams'
  OBVIOUS
<1>11. PICK ui0, params0 : ui0 = uiState /\ params0 = searchParams
  OBVIOUS
<1>12. ASSUME mishaps' = {}
       PROVE  SearchInOrder(ranked, queries', ui, params)
  <2>1. mishaps = {} /\ ~query.outdated
    BY <1>3, <1>12
  <2>2. SearchInOrder(ranked, queries, ui0, params0)
    BY <1>11, <2>1 DEF ExampleInv
  <2>3. /\ ui0.loadingState = "busy"
        /\ AsksFor(query, ranked, params0)
        /\ \A p \in DOMAIN queries : ~queries[p].outdated => p = q
    BY <1>1, <2>1, <2>2 DEF SearchInOrder, OnePageAsked
  <2>4. PICK ranking \in ranked :
           /\ cards = PageResults(ranking, params0.pageNo)
           /\ query.shouldGetTotalNumResults =>
                 query.answer.totalNumResults = Len(ranking)
    BY <1>1, <1>3, <2>3 DEF AsksFor
  <2>5. PICK S : ranking \in Seq(S)
    BY DEF ExampleInv, ExampleTypes
  <2>6. /\ ui.forms = f /\ ui.numResultsLoadedSoFar = num
        /\ ui.totalNumResults = total /\ ui.loadingState = state
    BY <1>5, <1>10
  <2>7. IF params0.pageNo = 0 /\ params0.searchTerm # Null
        THEN ui.totalNumResults = Len(ranking)
        ELSE ui.totalNumResults = ui0.totalNumResults
    BY <1>2, <1>11, <2>3, <2>4, <2>6 DEF AsksFor
  <2>8. /\ ui.forms = ui0.forms \o cards
        /\ ui.numResultsLoadedSoFar = ui0.numResultsLoadedSoFar + Len(cards)
        /\ ui.loadingState = IF Len(cards) < PAGE_SIZE THEN "complete"
                                                      ELSE "free"
    BY <1>2, <1>11, <2>6
  <2>9. /\ params.searchTerm = params0.searchTerm
        /\ params.filterByAgency = params0.filterByAgency
        /\ params.pageNo = IF Len(cards) < PAGE_SIZE THEN params0.pageNo
                                                    ELSE params0.pageNo + 1
        /\ params0.pageNo \in Nat
    BY <1>6, <1>10, <1>11 DEF ExampleInv, ExampleTypes
  <2>10. CardsPlaced(ranked, ui0, params0)
    BY <2>2 DEF SearchInOrder
  <2>11. CardsPlaced(ranked, ui, params)
    BY <2>3, <2>4, <2>5, <2>7, <2>8, <2>9, <2>10, PageShown
  <2>12. RankedWanted(ranked, params)
    BY <2>2, <2>9 DEF SearchInOrder, RankedWanted, Agency
  <2>13. OnePageAsked(ranked, queries', ui, params)
    <3>1. \A j \in DOMAIN queries' : queries'[j].outdated
      BY <1>8, <2>3
    <3>. QED  BY <3>1 DEF OnePageAsked
  <2>. QED  BY <2>11, <2>12, <2>13 DEF SearchInOrder
<1>. QED  BY <1>3, <1>9, <1>10, <1>12, SearchKept

(* Nothing is claimed of the page after a mishap.                          *)
LEMMA Mishap ==
  ASSUME ExampleInv, mishaps' # {}, UNCHANGED serverVars, ExampleTypes'
  PROVE  ExampleInv'
BY CollectionsKept DEF ExampleInv

LEMMA NoPageReceived ==
  ASSUME ExampleInv, NEW q \in DOMAIN queries, ReceiveNoPage(q)
  PROVE  ExampleInv'
<1>1. /\ UNCHANGED <<serverVars, searchParams, ranked>>
      /\ uiState' = [uiState EXCEPT !.loadingState = "complete",
                                    !.totalNumResults = 0,
                                    !.numResultsLoadedSoFar = 0]
      /\ queries' = RemoveAt(queries, q)
      /\ mishaps' # {}
  BY DEF ReceiveNoPage
<1>2. PICK C : uiState' \in [forms : C,
                             searchInput : SearchTerms \cup {Null},
                             loadingState : {"free", "busy", "complete"},
                             totalNumResults : {0},
                             numResultsLoadedSoFar : {0}]
  BY <1>1 DEF ExampleInv, ExampleTypes
<1>3. \E A : queries' \in Seq(Query(A))
  <2>1. PICK A : queries \in Seq(Query(A))
    BY DEF ExampleInv, ExampleTypes
  <2>2. PICK S : S = Query(A)
    OBVIOUS
  <2>. QED  BY <1>1, <2>1, <2>2, QueryRemoved
<1>4. ExampleTypes'
  BY <1>1, <1>2, <1>3 DEF ExampleInv, ExampleTypes
<1>. QED  BY <1>1, <1>4, Mishap

(* What others do to the database changes nothing on the page.             *)
LEMMA DatabaseChanged ==
  ASSUME ExampleInv, UNCHANGED browseVars, CollectionsOK'
  PROVE  ExampleInv'
<1>1. UNCHANGED <<searchParams, uiState, queries, ranked, mishaps>>
  BY DEF browseVars, historyVars
<1>2. ExampleTypes'
  BY <1>1 DEF ExampleInv, ExampleTypes
<1>3. SearchInOrder(ranked, queries, uiState, searchParams)'
        <=> SearchInOrder(ranked, queries, uiState, searchParams)
  BY <1>1 DEF SearchInOrder, OnePageAsked, CardsPlaced, RankedWanted,
              AsksFor, Agency, Wanted
<1>. QED  BY <1>1, <1>2, <1>3 DEF ExampleInv

LEMMA DatabaseSteps ==
  ASSUME CollectionsOK,
         \/ \E form \in Examples : SubmitExample(form) \/ Unlist(form)
         \/ AggregateStatistics
         \/ \E member \in Secondaries : Replicate(member)
  PROVE  CollectionsOK' /\ UNCHANGED browseVars
<1>1. ASSUME UNCHANGED <<secondaries, browseVars>>,
             submissions' \in Seq(SubmissionType), IsFiniteSet(statistics')
      PROVE  CollectionsOK'
  BY <1>1 DEF CollectionsOK, StoreOK, Primary
<1>2. submissions \in Seq(SubmissionType) /\ IsFiniteSet(statistics)
  BY DEF CollectionsOK, StoreOK, Primary
<1>3. ASSUME NEW form \in Examples, SubmitExample(form)
      PROVE  CollectionsOK' /\ UNCHANGED browseVars
  <2>1. [form |-> form, created |-> Today] \in SubmissionType
    BY ExamplesAssumption DEF SubmissionType
  <2>2. submissions' \in Seq(SubmissionType)
    BY <1>2, <1>3, <2>1 DEF SubmitExample
  <2>. QED  BY <1>1, <1>2, <1>3, <2>2 DEF SubmitExample
<1>4. ASSUME NEW form \in Examples, Unlist(form)
      PROVE  CollectionsOK' /\ UNCHANGED browseVars
  BY <1>1, <1>2, <1>4 DEF Unlist
<1>5. ASSUME AggregateStatistics
      PROVE  CollectionsOK' /\ UNCHANGED browseVars
  <2>1. IsFiniteSet(statistics')
    BY <1>2, <1>5, TotalsFinite DEF AggregateStatistics
  <2>. QED  BY <1>1, <1>2, <1>5, <2>1 DEF AggregateStatistics
<1>6. ASSUME NEW member \in Secondaries, Replicate(member)
      PROVE  CollectionsOK' /\ UNCHANGED browseVars
  <2>1. /\ secondaries' = [secondaries EXCEPT ![member] = Primary]
        /\ UNCHANGED <<primaryVars, browseVars>>
    BY <1>6 DEF Replicate
  <2>2. PICK P : P = Primary
    OBVIOUS
  <2>3. Primary' = P /\ StoreOK(P)
    BY <2>1, <2>2 DEF Primary, primaryVars, CollectionsOK
  <2>4. PICK new : new = secondaries'
    OBVIOUS
  <2>5. new = [m \in Secondaries |-> IF m = member THEN P ELSE secondaries[m]]
    BY <2>1, <2>2, <2>4 DEF CollectionsOK
  <2>6. /\ new = [m \in Secondaries |-> new[m]]
        /\ \A m \in Secondaries : StoreOK(new[m])
    BY <2>3, <2>5 DEF CollectionsOK
  <2>7. StoreOK(Primary)'
    BY <2>3 DEF StoreOK
  <2>8. (\A m \in Secondaries : StoreOK(secondaries[m]))'
    BY <2>4, <2>6 DEF StoreOK
  <2>. QED  BY <2>1, <2>4, <2>6, <2>7, <2>8 DEF CollectionsOK
<1>. QED  BY <1>3, <1>4, <1>5, <1>6

LEMMA ExampleInvStep ==
  ASSUME ExampleInv, [ExamplesNext]_exampleVars
  PROVE  ExampleInv'
<1>1. ASSUME UNCHANGED <<serverVars, searchParams, uiState, queries, ranked,
                         mishaps>>
      PROVE  ExampleInv'
  <2>1. ExampleTypes'
    BY <1>1 DEF ExampleInv, ExampleTypes
  <2>2. mishaps = {} =>
            SearchInOrder(ranked, queries, uiState, searchParams)
    BY DEF ExampleInv
  <2>. QED  BY <1>1, <2>1, <2>2, SearchKept
<1>2. CASE \/ \E form \in Examples : SubmitExample(form) \/ Unlist(form)
           \/ AggregateStatistics
           \/ \E member \in Secondaries : Replicate(member)
  BY <1>2, DatabaseSteps, DatabaseChanged DEF ExampleInv
<1>3. CASE \/ UNCHANGED exampleVars
           \/ \E i \in DOMAIN uiState.forms : OpenTemplateModal(i)
  BY <1>1, <1>3 DEF exampleVars, browseVars, historyVars, OpenTemplateModal
<1>4. CASE \E form \in Examples : FollowTemplateLink(form)
  <2>1. queries' = <<>>
    BY <1>4 DEF FollowTemplateLink
  <2>. QED  BY <1>4, <2>1, NewPageOpened DEF FollowTemplateLink
<1>5. CASE CloseTemplateModal
  <2>1. CASE templateForm.autoOpenModal
    BY <1>5, <2>1, NewPageOpened DEF CloseTemplateModal
  <2>2. CASE ~templateForm.autoOpenModal
    BY <1>1, <1>5, <2>2 DEF CloseTemplateModal, historyVars
  <2>. QED  BY <2>1, <2>2
<1>6. CASE (\E b \in BOOLEAN : FilterSelection(b)) \/ SearchForms \/ ResetSearch
  <2>1. /\ searchParams.searchTerm \in SearchTerms \cup {Null}
        /\ searchParams.filterByAgency \in BOOLEAN
        /\ uiState.searchInput \in SearchTerms \cup {Null}
    BY DEF ExampleInv, ExampleTypes
  <2>. QED  BY <1>6, <2>1, SelectionUpdated
         DEF FilterSelection, SearchForms, ResetSearch
<1>. QED  BY <1>2, <1>3, <1>4, <1>5, <1>6, NextPageLoaded, SearchEntered,
             PageServed, PageReceived, NoPageReceived DEF ExamplesNext

(* Whatever forms there are, whatever the admin filters and searches, and  *)
(* however far each secondary is behind: each card on the page is of a     *)
(* form that was asked for, at the place that a ranking read by this       *)
(* search gives it, no page is skipped, and the end is one of them         *)
(* (getExampleFormsUsing, loadNextPage), unless the answer to an earlier   *)
(* search came or a request failed.                                        *)
THEOREM ExamplesInOrder == SiteSpec => []ShownAsRanked
<1>1. SiteInit => ExampleInv
  BY ExampleInvInit DEF SiteInit
<1>2. ExampleInv /\ [SiteNext]_siteVars => ExampleInv'
  <2>1. [SiteNext]_siteVars => [ExamplesNext]_exampleVars
    BY DEF SiteNext, siteVars
  <2>. QED  BY <2>1, ExampleInvStep
<1>3. ExampleInv => ShownAsRanked
  BY ExampleInvShows
<1>. QED  BY <1>1, <1>2, <1>3, PTL DEF SiteSpec

-----------------------------------------------------------------------------
(* The list of an admin's forms *)

(* A form that has been saved since has a newer version, or else the same  *)
(* lists.                                                                  *)
Since(old, new) ==
    old.__v <= new.__v /\ (old.__v = new.__v => old.lists = new.lists)

LEMMA FormsGrow ==
  ASSUME HandlerInv, [EditNext]_vars, NEW id \in FormIds, forms[id] # None
  PROVE  /\ forms'[id] # None
         /\ overwritten \subseteq overwritten'
         /\ \A old \in Form : Since(old, forms[id]) => Since(old, forms'[id])
<1>1. forms[id] \in Form
  BY DEF HandlerInv, TypeOK
<1>2. ASSUME forms'[id] = forms[id], overwritten' = overwritten
      PROVE  /\ forms'[id] # None
             /\ overwritten \subseteq overwritten'
             /\ \A old \in Form : Since(old, forms[id]) => Since(old, forms'[id])
  BY <1>2
<1>3. CASE UNCHANGED vars
  BY <1>2, <1>3 DEF vars
<1>4. ASSUME NEW r \in Requests, GoodPost(r) \/ Handle(r)
      PROVE  /\ forms'[id] # None
             /\ overwritten \subseteq overwritten'
             /\ \A old \in Form : Since(old, forms[id]) => Since(old, forms'[id])
  <2>1. CASE UNCHANGED <<forms, overwritten>>
    BY <1>2, <2>1
  <2>2. CASE stage[r] = "saving" /\ Write(r)
    <3>1. overwritten \subseteq overwritten'
      BY <2>2 DEF Write
    <3>2. CASE id # SavedAt(r)
      <4>1. forms'[id] = forms[id]
        BY <2>2, <3>2, Writing
      <4>. QED  BY <3>1, <4>1
    <3>3. CASE id = SavedAt(r)
      <4>1. forms'[id] = Written(r) /\ Written(r) \in Form
        BY <2>2, <3>3, Writing, WrittenForm
      <4>2. seen[r] # None
        BY <2>2, <3>3, WrittenForm DEF HandlerInv, Handling
      <4>3. \/ Written(r).__v = forms[id].__v + 1
            \/ /\ Written(r).lists = forms[id].lists
               /\ Written(r).__v = forms[id].__v
        BY <2>2, <3>3, <4>2, WrittenForm
      <4>4. forms[id].__v \in Nat
        BY <1>1, FormTyped
      <4>5. ASSUME NEW old \in Form, Since(old, forms[id])
            PROVE  Since(old, Written(r))
        <5>1. old.__v \in Nat
          BY FormTyped
        <5>. QED  BY <4>3, <4>4, <4>5, <5>1 DEF Since
      <4>6. Written(r) # None
        BY <4>1, DocumentAssumption
      <4>. QED  BY <3>1, <4>1, <4>5, <4>6
    <3>. QED  BY <3>2, <3>3
  <2>. QED  BY <1>4, <2>1, <2>2, FormsChange
<1>. QED  BY <1>3, <1>4 DEF EditNext

AskedRecord == [formIndex : Nat, preview : Form \cup {None}, live : BOOLEAN]

IsTitle(t) == t.copies \in Seq(Nat) /\ t = [name |-> t.name, copies |-> t.copies]

ModalShape(m) ==
    /\ m \in [mode : {"create", "duplicate", "copy"},
              id : FormIds \cup {None}, preview : Form \cup {None},
              title : {m.title}, isEncryptModeEnabled : BOOLEAN,
              formStatus : {1, 2, 3}, hasSavedKey : BOOLEAN,
              request : Requests \cup {None}]
    /\ m.mode = "create" <=> m.id = None
    /\ m.preview # None => m.id # None
    /\ m.title = None \/ IsTitle(m.title)
    /\ m.isEncryptModeEnabled =>
          m.preview = None \/ ~PreventStorageModeDuplication(m.preview)
    /\ m.formStatus = 2 /\ m.request = None => m.isEncryptModeEnabled
    /\ m.formStatus = 3 => m.request = None /\ m.isEncryptModeEnabled

Places == {"loading", "list", "examples", "builder", "error"}

WorkspaceTypes ==
    /\ place \in Places
    /\ myforms \in Seq(FormIds)
    /\ IsInjective(myforms)
    /\ titles = [id \in FormIds |-> titles[id]]
    /\ \A id \in FormIds : IsTitle(titles[id])
    /\ asked \in [Requests -> AskedRecord \cup {None}]
    /\ deleteModal # None =>
          deleteModal \in [currForm : FormIds, formIndex : Nat,
                          requests : SUBSET Requests]
    /\ createModal # None => ModalShape(createModal)
    /\ previewing # None =>
          previewing.mode \in {"duplicate", "copy"} /\ previewing.id \in FormIds
    /\ place = "loading" =>
          deleteModal = None /\ createModal = None /\ previewing = None

(* A request of the page, and what the list holds until it is answered.    *)
AskedFor(r) ==
    /\ stage[r] # "unsent"
    /\ request[r].user = owner
    /\ request[r].method \in {"delete", "duplicate", "copy", "create"}
    /\ request[r].method = "delete" => asked[r].preview = None
    /\ asked[r].live => r \notin ToSet(myforms)
    /\ request[r].method = "duplicate" /\ reply[r] = "OK" => forms[r] # None

(* A duplicate that cannot be saved is of a form that has changed since it *)
(* was shown.                                                              *)
PreviewKept(r) ==
    asked[r].preview # None =>
        LET id == request[r].id
            preview == asked[r].preview
        IN  /\ request[r].method \in {"duplicate", "copy"}
            /\ forms[id] # None /\ Since(preview, forms[id])
            /\ request[r].responseMode = "encrypt" =>
                  ~PreventStorageModeDuplication(preview)
            /\ (\/ stage[r] = "saving" /\ ~Validates(copy[r])
                \/ reply[r] = "UNPROCESSABLE_ENTITY")
                  => id \in overwritten \/ preview.__v < forms[id].__v

RequestsKept ==
    \A r \in Requests : asked[r] # None => AskedFor(r) /\ PreviewKept(r)

ListKept == \A id \in ToSet(myforms) : forms[id] # None

ModalKept ==
    createModal # None /\ createModal.preview # None =>
        /\ forms[createModal.id] # None
        /\ Since(createModal.preview, forms[createModal.id])

(* The list is the one in the database but for what is still to be heard.  *)
ListFollows ==
    /\ NothingAsked => ToSet(myforms) = ListOf(owner)
    /\ \A r \in Requests : asked[r] # None =>
          /\ request[r].method = "delete" =>
                /\ asked[r].formIndex \in DOMAIN myforms
                /\ myforms[asked[r].formIndex] = request[r].id
                /\ reply[r] = "OK" =>
                      ListOf(owner) = ToSet(myforms) \ {request[r].id}
          /\ request[r].method = "duplicate" /\ reply[r] = "OK" =>
                ListOf(owner) = ToSet(myforms) \cup {r}
          /\ request[r].method \in {"delete", "duplicate"}
             /\ reply[r] \notin Failures \cup {"OK"} =>
                ListOf(owner) = ToSet(myforms)

OneAfterTheOther ==
    /\ \A r \in Requests : asked[r] = None => stage[r] \in {"unsent", "done"}
    /\ \A r, q \in Requests : asked[r] # None /\ asked[q] # None => r = q
    /\ \A r \in Requests : asked[r] # None =>
          /\ asked[r].live
          /\ stage[r] = "saving" /\ seen[r] # None =>
                seen[r] = forms[request[r].id]

DeletesNamed ==
    deleteModal # None /\ deleteModal.requests = {} =>
        /\ NothingAsked /\ previewing = None /\ createModal = None
        /\ deleteModal.formIndex \in DOMAIN myforms
        /\ myforms[deleteModal.formIndex] = deleteModal.currForm

TitleIsNew ==
    createModal # None /\ createModal.mode = "duplicate"
    /\ createModal.request = None =>
        /\ NothingAsked
        /\ \A i \in DOMAIN myforms : titles[myforms[i]] # createModal.title

ListInStep ==
    /\ OneAfterTheOther
    /\ place = "list" => ListFollows
    /\ DeletesNamed
    /\ TitleIsNew

WorkspaceInv ==
    /\ EditInv
    /\ WorkspaceTypes
    /\ RequestsKept
    /\ ListKept
    /\ ModalKept
    /\ lapses = {} => ListInStep

LEMMA WorkspaceInvShows ==
  ASSUME WorkspaceInv
  PROVE  WorkspaceInOrder
<1>1. WorkspaceTypes /\ RequestsKept /\ (lapses = {} => ListInStep)
  BY DEF WorkspaceInv
<1>2. ListIsCurrent
  BY <1>1 DEF ListIsCurrent, Undisturbed, ListInStep, ListFollows,
              WorkspaceTypes
<1>3. TitlesDiffer
  BY <1>1 DEF TitlesDiffer, ListInStep, TitleIsNew
<1>4. NamedIsDeleted
  BY <1>1 DEF NamedIsDeleted, ListInStep, DeletesNamed
<1>5. ASSUME NEW r \in Requests, asked[r] # None, asked[r].preview # None,
             reply[r] = "UNPROCESSABLE_ENTITY",
             request[r].id \notin overwritten
      PROVE  forms[request[r].id] # asked[r].preview
  <2>1. PreviewKept(r) /\ asked[r] \in AskedRecord
    BY <1>1, <1>5 DEF RequestsKept, WorkspaceTypes
  <2>2. asked[r].preview \in Form
    BY <1>5, <2>1 DEF AskedRecord
  <2>3. asked[r].preview.__v < forms[request[r].id].__v
    BY <1>5, <2>1 DEF PreviewKept
  <2>4. asked[r].preview.__v \in Nat
    BY <2>2, FormTyped
  <2>. QED  BY <2>3, <2>4
<1>. QED  BY <1>2, <1>3, <1>4, <1>5
          DEF WorkspaceInOrder, RefusedOnlyIfChanged

(* All that the page sends can be sent.                                    *)
LEMMA OwnersCall ==
  ASSUME NEW method \in Methods, NEW id \in FormIds,
         NEW mode \in {"email", "encrypt"}
  PROVE  /\ IsSendable(Call(method, id, mode))
         /\ Call(method, id, mode).user = owner
         /\ Call(method, id, mode).method = method
         /\ Call(method, id, mode).id = id
         /\ Call(method, id, mode).responseMode = mode
<1>1. Call(method, id, mode) # None /\ owner \in Users
  BY WorkspaceAssumption
<1>2. PICK body : body = [editFormField |-> None, form_logics |-> None,
                          permissionList |-> None, settings |-> <<>>]
  OBVIOUS
<1>3. /\ body.editFormField = None /\ body.form_logics = None
      /\ body.permissionList = None /\ DOMAIN body.settings = {}
  BY <1>2
<1>4. IsUpdate(body)
  BY <1>3 DEF IsUpdate
<1>5. Call(method, id, mode) = [user |-> owner, method |-> method, id |-> id,
                                responseMode |-> mode, body |-> body]
  BY <1>2 DEF Call
<1>6. PICK call : call = Call(method, id, mode)
  OBVIOUS
<1>7. /\ call.user = owner /\ call.method = method /\ call.id = id
      /\ call.responseMode = mode /\ call.body = body
  BY <1>5, <1>6
<1>8. IsSendable(call)
  BY <1>1, <1>3, <1>4, <1>6, <1>7 DEF IsSendable, IsCall
<1>. QED  BY <1>6, <1>7, <1>8

(* What a request of the page leaves of the handlers' state.               *)
Sends(r, call) ==
    /\ IsSendable(call)
    /\ Post(r, call)

LEMMA Sent ==
  ASSUME HandlerInv, NEW r \in Requests, NEW call, Sends(r, call)
  PROVE  /\ GoodPost(r)
         /\ request'[r] = call /\ stage'[r] = "sent" /\ stage[r] = "unsent"
         /\ forms[r] = None /\ reply'[r] = "none"
         /\ UNCHANGED <<forms, seen, copy, reply, overwritten>>
         /\ \A q \in Requests \ {r} :
               request'[q] = request[q] /\ stage'[q] = stage[q]
BY DEF Sends, Post, GoodPost, HandlerInv, TypeOK, Handling

LEMMA FormToDelete ==
  ASSUME WorkspaceTypes, NEW r \in Requests, DeleteForm(r)
  PROVE  \E id \in FormIds :
            /\ id = myforms[deleteModal.formIndex]
            /\ Sends(r, Call("delete", id, "email"))
<1>1. myforms[deleteModal.formIndex] \in FormIds
  BY DEF DeleteForm, WorkspaceTypes
<1>2. "delete" \in Methods /\ "email" \in {"email", "encrypt"}
  BY DEF Methods
<1>. QED  BY <1>1, <1>2, OwnersCall DEF DeleteForm, Sends

LEMMA FormToCreate ==
  ASSUME WorkspaceTypes, NEW r \in Requests, CreateNewForm(r)
  PROVE  \E id \in FormIds, mode \in {"email", "encrypt"} :
            /\ id = IF createModal.id = None THEN r ELSE createModal.id
            /\ mode = "encrypt" => createModal.formStatus = 3
            /\ createModal.mode \in Methods
            /\ Sends(r, Call(createModal.mode, id, mode))
<1>1. ModalShape(createModal) /\ r \in FormIds
  BY DEF CreateNewForm, WorkspaceTypes, FormIds
<1>2. /\ createModal.mode \in Methods
      /\ createModal.id \in FormIds \cup {None}
  BY <1>1 DEF ModalShape, Methods
<1>3. PICK mode \in {"email", "encrypt"} :
         mode = IF createModal.formStatus = 3 THEN "encrypt" ELSE "email"
  OBVIOUS
<1>4. PICK id \in FormIds :
         id = IF createModal.id = None THEN r ELSE createModal.id
  BY <1>1, <1>2
<1>5. Post(r, Call(createModal.mode, id, mode))
  BY <1>3, <1>4 DEF CreateNewForm
<1>6. IsSendable(Call(createModal.mode, id, mode))
  BY <1>2, OwnersCall
<1>. QED  BY <1>2, <1>3, <1>4, <1>5, <1>6 DEF Sends

(* The steps of the page that are none of the handlers'.                   *)
AtPage ==
    \/ ListForms \/ ListFails
    \/ \E p \in {"loading", "examples", "builder"} : GoTo(p)
    \/ \E index \in DOMAIN myforms :
          OpenDeleteModal(index) \/ DuplicateForm(index)
    \/ CancelDelete \/ OpenCreateModal \/ PreviewShown \/ PreviewFails
    \/ \E id \in OriginalForms : UseTemplate(id)
    \/ CloseCreateModal \/ ChooseStorageMode \/ KeysGenerated
    \/ DownloadFile
    \/ \E r \in Requests :
          \/ FormDeleted(r) \/ FormNotDeleted(r)
          \/ FormDuplicated(r) \/ FormNotDuplicated(r)
          \/ FormCreated(r)

LEMMA AtPageOnly ==
  ASSUME AtPage
  PROVE  UNCHANGED vars
BY DEF AtPage, ListForms, ListFails, GoTo, OpenDeleteModal, DuplicateForm,
       CancelDelete, OpenCreateModal, PreviewShown, PreviewFails, UseTemplate,
       CloseCreateModal, ChooseStorageMode, KeysGenerated, DownloadFile,
       InModal, FormDeleted, FormNotDeleted, FormDuplicated,
       FormNotDuplicated, FormCreated, Heard

LEMMA PageSteps ==
  ASSUME PageNext
  PROVE  \/ AtPage
         \/ \E r \in Requests :
               \/ DeleteForm(r) \/ CreateNewForm(r) \/ Meanwhile(r)
               \/ Handle(r) /\ UNCHANGED pageVars
BY DEF PageNext, AtPage

(* Whatever the page does is edited as from elsewhere.                     *)
LEMMA PageEdits ==
  ASSUME HandlerInv, WorkspaceTypes, PageNext
  PROVE  [EditNext]_vars
<1>1. CASE AtPage
  BY <1>1, AtPageOnly
<1>2. ASSUME NEW r \in Requests, DeleteForm(r)
      PROVE  GoodPost(r)
  BY <1>2, FormToDelete, Sent
<1>3. ASSUME NEW r \in Requests, CreateNewForm(r)
      PROVE  GoodPost(r)
  BY <1>3, FormToCreate, Sent
<1>4. ASSUME NEW r \in Requests, Meanwhile(r)
      PROVE  GoodPost(r)
  BY <1>4, WorkspaceAssumption, Sent DEF Meanwhile, Sends
<1>. QED  BY <1>1, <1>2, <1>3, <1>4, PageSteps DEF EditNext

-----------------------------------------------------------------------------
(* The steps of the page alone *)

LEMMA RequestsStay ==
  ASSUME RequestsKept, UNCHANGED vars,
         \A r \in Requests : asked'[r] # None =>
            /\ asked[r] # None
            /\ asked'[r].preview = asked[r].preview
            /\ asked'[r].live => r \notin ToSet(myforms')
  PROVE  RequestsKept'
<1>. SUFFICES ASSUME NEW r \in Requests, asked'[r] # None
              PROVE  AskedFor(r)' /\ PreviewKept(r)'
  BY DEF RequestsKept
<1>1. AskedFor(r) /\ PreviewKept(r)
  BY DEF RequestsKept
<1>2. UNCHANGED <<forms, request, stage, copy, reply, overwritten>>
  BY DEF vars, handlerVars
<1>3. AskedFor(r)'
  BY <1>1, <1>2 DEF AskedFor
<1>4. PreviewKept(r)'
  BY <1>1, <1>2 DEF PreviewKept
<1>. QED  BY <1>3, <1>4

(* Nothing asked and nothing heard: another place, or another modal.       *)
LEMMA QuietStep ==
  ASSUME WorkspaceInv, UNCHANGED <<vars, myforms, titles, asked>>,
         WorkspaceTypes', ModalKept', lapses \subseteq lapses',
         place' = "list" => place = "list",
         ListInStep /\ lapses' = {} => DeletesNamed' /\ TitleIsNew'
  PROVE  WorkspaceInv'
<1>1. UNCHANGED vars /\ myforms' = myforms /\ asked' = asked
  OBVIOUS
<1>2. EditInv'
  BY <1>1, EditInvStep DEF WorkspaceInv
<1>3. RequestsKept'
  <2>1. RequestsKept
    BY DEF WorkspaceInv
  <2>2. ASSUME NEW r \in Requests, asked'[r] # None, asked'[r].live
        PROVE  r \notin ToSet(myforms')
    BY <1>1, <2>1, <2>2 DEF RequestsKept, AskedFor
  <2>. QED  BY <1>1, <2>1, <2>2, RequestsStay
<1>4. UNCHANGED <<forms, request, stage, seen, copy, reply>>
  BY <1>1 DEF vars, handlerVars
<1>5. ListKept'
  BY <1>1, <1>4 DEF WorkspaceInv, ListKept
<1>6. ASSUME lapses' = {}
      PROVE  ListInStep'
  <2>1. ListInStep
    BY <1>6 DEF WorkspaceInv
  <2>2. OneAfterTheOther'
    BY <1>1, <1>4, <2>1 DEF ListInStep, OneAfterTheOther
  <2>3. place' = "list" => ListFollows'
    <3>1. ListOf(owner)' = ListOf(owner) /\ NothingAsked' = NothingAsked
      BY <1>1, <1>4 DEF ListOf, IsActive, CanRead, NothingAsked
    <3>. QED  BY <1>1, <1>4, <2>1, <3>1 DEF ListInStep, ListFollows
  <2>. QED  BY <1>6, <2>1, <2>2, <2>3 DEF ListInStep
<1>. QED  BY <1>2, <1>3, <1>5, <1>6 DEF WorkspaceInv

(* An answer is heard, after which the page has nothing more to wait for,  *)
(* if it has made its requests one after the other.                        *)
LEMMA HeardStep ==
  ASSUME WorkspaceInv, NEW r \in Requests, asked[r] # None, stage[r] = "done",
         Heard(r), WorkspaceTypes', UNCHANGED <<titles, previewing>>,
         createModal' \in {None, createModal},
         deleteModal' \in {None, deleteModal},
         ToSet(myforms') \subseteq ToSet(myforms) \cup {r},
         r \in ToSet(myforms') /\ r \notin ToSet(myforms) => forms[r] # None,
         ListInStep /\ lapses' = {} /\ place' = "list" =>
            ToSet(myforms') = ListOf(owner)
  PROVE  WorkspaceInv'
<1>1. /\ UNCHANGED vars /\ lapses \subseteq lapses'
      /\ asked' = [asked EXCEPT ![r] = None]
      /\ asked \in [Requests -> AskedRecord \cup {None}]
  BY DEF Heard, WorkspaceInv, WorkspaceTypes
<1>2. EditInv'
  BY <1>1, EditInvStep DEF WorkspaceInv
<1>3. RequestsKept'
  <2>1. RequestsKept
    BY DEF WorkspaceInv
  <2>2. ASSUME NEW q \in Requests, asked'[q] # None
        PROVE  /\ asked[q] # None /\ asked'[q] = asked[q]
               /\ asked'[q].live => q \notin ToSet(myforms')
    <3>1. q # r /\ asked'[q] = asked[q]
      BY <1>1, <2>2
    <3>2. AskedFor(q)
      BY <2>1, <2>2, <3>1 DEF RequestsKept
    <3>. QED  BY <2>2, <3>1, <3>2 DEF AskedFor
  <2>. QED  BY <1>1, <2>1, <2>2, RequestsStay
<1>4. UNCHANGED <<forms, request, stage, seen, copy, reply>>
  BY <1>1 DEF vars, handlerVars
<1>5. ListKept'
  BY <1>4 DEF WorkspaceInv, ListKept
<1>6. ModalKept'
  BY <1>4 DEF WorkspaceInv, ModalKept
<1>7. ASSUME lapses' = {}
      PROVE  ListInStep'
  <2>1. ListInStep
    BY <1>1, <1>7 DEF WorkspaceInv
  <2>2. \A q \in Requests : asked'[q] = None
    BY <1>1, <2>1 DEF ListInStep, OneAfterTheOther
  <2>3. OneAfterTheOther'
    BY <1>1, <1>4, <2>1, <2>2 DEF ListInStep, OneAfterTheOther
  <2>4. ListOf(owner)' = ListOf(owner)
    BY <1>4 DEF ListOf, IsActive, CanRead
  <2>5. place' = "list" => ListFollows'
    BY <1>7, <2>1, <2>2, <2>4 DEF ListFollows
  <2>6. ~NothingAsked
    BY DEF NothingAsked
  <2>7. DeletesNamed'
    BY <2>1, <2>6 DEF ListInStep, DeletesNamed
  <2>8. TitleIsNew'
    BY <2>1, <2>6 DEF ListInStep, TitleIsNew
  <2>. QED  BY <2>3, <2>5, <2>7, <2>8 DEF ListInStep
<1>. QED  BY <1>2, <1>3, <1>5, <1>6, <1>7 DEF WorkspaceInv

(* A sequence of the elements of a finite set, each once.                  *)
LEMMA Listed ==
  ASSUME NEW S, IsFiniteSet(S), NEW list \in SetToSeqs(S)
  PROVE  list \in Seq(S) /\ IsInjective(list) /\ ToSet(list) = S
<1>1. PICK n \in Nat : n = Cardinality(S)
  BY FS_CardinalityType
<1>2. /\ list \in [1..n -> S]
      /\ \A i, j \in 1..n : i # j => list[i] # list[j]
  BY <1>1 DEF SetToSeqs
<1>3. list \in Injection(1..n, S)
  BY <1>2 DEF Injection, IsInjective
<1>4. Cardinality(1..n) = n /\ IsFiniteSet(1..n)
  BY FS_Interval
<1>5. list \in Surjection(1..n, S)
  BY <1>1, <1>3, <1>4, FS_Injection
<1>. QED  BY <1>2, <1>3, <1>5 DEF Injection, Surjection, ToSet

LEMMA ListIsRead ==
  ASSUME WorkspaceInv, ListForms
  PROVE  WorkspaceInv'
<1>1. /\ UNCHANGED <<titles, modalVars>> /\ UNCHANGED vars
      /\ place = "loading" /\ place' = "list"
      /\ asked' = [r \in Requests |->
                     IF asked[r] = None THEN None
                     ELSE [asked[r] EXCEPT !.live = FALSE]]
  BY DEF ListForms
<1>2. myforms' \in SetToSeqs(ListOf(owner))
  BY DEF ListForms
<1>3. IsFiniteSet(ListOf(owner)) /\ ListOf(owner) \subseteq FormIds
  BY WorkspaceAssumption, FS_Subset DEF ListOf
<1>4. /\ myforms' \in Seq(FormIds) /\ IsInjective(myforms')
      /\ ToSet(myforms') = ListOf(owner)
  <2>1. PICK list : list = myforms'
    OBVIOUS
  <2>2. list \in Seq(ListOf(owner)) /\ IsInjective(list)
        /\ ToSet(list) = ListOf(owner)
    BY <1>2, <1>3, <2>1, Listed
  <2>3. list \in Seq(FormIds)
    BY <1>3, <2>2
  <2>. QED  BY <2>1, <2>2, <2>3
<1>5. WorkspaceTypes /\ RequestsKept
  BY DEF WorkspaceInv
<1>6. \A r \in Requests :
         asked'[r] # None =>
            /\ asked[r] # None
            /\ asked'[r] \in AskedRecord
            /\ asked'[r].preview = asked[r].preview
            /\ asked'[r].live = FALSE
  <2>. SUFFICES ASSUME NEW r \in Requests, asked'[r] # None
                PROVE  /\ asked[r] # None
                       /\ asked'[r] \in AskedRecord
                       /\ asked'[r].preview = asked[r].preview
                       /\ asked'[r].live = FALSE
    OBVIOUS
  <2>1. asked[r] \in AskedRecord /\ asked[r] # None
    BY <1>1, <1>5 DEF WorkspaceTypes
  <2>2. asked'[r] = [asked[r] EXCEPT !.live = FALSE]
    BY <1>1, <2>1
  <2>. QED  BY <2>1, <2>2 DEF AskedRecord
<1>7. EditInv'
  BY <1>1, EditInvStep DEF WorkspaceInv
<1>8. RequestsKept'
  BY <1>1, <1>5, <1>6, RequestsStay
<1>9. /\ UNCHANGED <<forms, request, stage, seen, copy, reply>>
      /\ deleteModal = None /\ createModal = None /\ previewing = None
      /\ deleteModal' = None /\ createModal' = None /\ previewing' = None
      /\ titles' = titles
  BY <1>1, <1>5 DEF vars, handlerVars, modalVars, WorkspaceTypes
<1>10. WorkspaceTypes'
  <2>1. asked' \in [Requests -> AskedRecord \cup {None}]
    BY <1>1, <1>6
  <2>. QED  BY <1>1, <1>4, <1>5, <1>9, <2>1 DEF WorkspaceTypes, Places
<1>11. ListOf(owner)' = ListOf(owner)
  BY <1>9 DEF ListOf, IsActive, CanRead
<1>12. ListKept'
  BY <1>4, <1>9 DEF ListKept, ListOf, IsActive
<1>13. ModalKept'
  BY <1>9 DEF ModalKept
<1>14. ASSUME lapses' = {}
       PROVE  ListInStep'
  <2>1. NothingUnderWay
    BY <1>14 DEF ListForms
  <2>2. \A r \in Requests : asked'[r] = None /\ stage'[r] \in {"unsent", "done"}
    BY <1>1, <1>9, <2>1 DEF NothingUnderWay, NothingAsked
  <2>3. OneAfterTheOther'
    BY <2>2 DEF OneAfterTheOther
  <2>4. ListFollows'
    BY <1>4, <1>11, <2>2 DEF ListFollows
  <2>. QED  BY <1>9, <2>3, <2>4 DEF ListInStep, DeletesNamed, TitleIsNew
<1>. QED  BY <1>7, <1>8, <1>10, <1>12, <1>13, <1>14 DEF WorkspaceInv

LEMMA PlaceChanged ==
  ASSUME WorkspaceInv,
         \/ ListFails
         \/ \E p \in {"loading", "examples", "builder"} : GoTo(p)
  PROVE  WorkspaceInv'
<1>1. /\ UNCHANGED <<vars, myforms, titles, asked>>
      /\ UNCHANGED <<deleteModal, previewing, createModal, lapses>>
      /\ place' \in Places \ {"list"}
      /\ place' = "loading" =>
            deleteModal = None /\ createModal = None /\ previewing = None
  BY DEF ListFails, GoTo, modalVars, Places, Clickable
<1>2. WorkspaceTypes'
  BY <1>1 DEF WorkspaceInv, WorkspaceTypes
<1>3. UNCHANGED forms
  BY <1>1 DEF vars
<1>4. ModalKept'
  BY <1>1, <1>3 DEF WorkspaceInv, ModalKept
<1>5. ListInStep => DeletesNamed' /\ TitleIsNew'
  <2>1. NothingAsked' = NothingAsked
    BY <1>1 DEF NothingAsked
  <2>. QED  BY <1>1, <2>1 DEF ListInStep, DeletesNamed, TitleIsNew
<1>. QED  BY <1>1, <1>2, <1>4, <1>5, QuietStep

(* The modals, before anything is asked with them.                         *)

LEMMA DeleteModalMoves ==
  ASSUME WorkspaceInv,
         \/ \E index \in DOMAIN myforms : OpenDeleteModal(index)
         \/ CancelDelete
  PROVE  WorkspaceInv'
<1>1. /\ UNCHANGED <<vars, myforms, titles, asked>>
      /\ UNCHANGED <<place, previewing, createModal>>
      /\ lapses \subseteq lapses'
  BY DEF OpenDeleteModal, CancelDelete
<1>2. \/ deleteModal' = None /\ deleteModal # None
      \/ \E index \in DOMAIN myforms :
            /\ deleteModal' = [currForm |-> myforms[index],
                               formIndex |-> index, requests |-> {}]
            /\ createModal = None /\ place = "list"
            /\ lapses' = lapses \cup Overlap
  BY DEF OpenDeleteModal, CancelDelete, Clickable
<1>3. WorkspaceTypes'
  <2>1. WorkspaceTypes
    BY DEF WorkspaceInv
  <2>2. ASSUME NEW index \in DOMAIN myforms
        PROVE  [currForm |-> myforms[index], formIndex |-> index,
                requests |-> {}]
                 \in [currForm : FormIds, formIndex : Nat,
                      requests : SUBSET Requests]
    BY <2>1 DEF WorkspaceTypes
  <2>. QED  BY <1>1, <1>2, <2>1, <2>2 DEF WorkspaceTypes
<1>4. UNCHANGED forms
  BY <1>1 DEF vars
<1>5. ModalKept'
  BY <1>1, <1>4 DEF WorkspaceInv, ModalKept
<1>6. ASSUME ListInStep, lapses' = {}
      PROVE  DeletesNamed' /\ TitleIsNew'
  <2>1. NothingAsked' = NothingAsked
    BY <1>1 DEF NothingAsked
  <2>2. TitleIsNew'
    BY <1>1, <1>6, <2>1 DEF ListInStep, TitleIsNew
  <2>3. DeletesNamed'
    <3>. SUFFICES ASSUME deleteModal' # None
                  PROVE  DeletesNamed'
      BY DEF DeletesNamed
    <3>1. PICK index \in DOMAIN myforms :
             /\ deleteModal' = [currForm |-> myforms[index],
                                formIndex |-> index, requests |-> {}]
             /\ createModal = None
             /\ lapses' = lapses \cup Overlap
      BY <1>2
    <3>2. NothingAsked /\ previewing = None
      BY <1>6, <3>1 DEF Overlap
    <3>. QED  BY <1>1, <2>1, <3>1, <3>2 DEF DeletesNamed
  <2>. QED  BY <2>2, <2>3
<1>. QED  BY <1>1, <1>3, <1>5, <1>6, QuietStep

LEMMA NewFormShape ==
  ASSUME NEW mode \in {"create", "duplicate", "copy"},
         NEW id \in FormIds \cup {None}, NEW preview \in Form \cup {None},
         NEW title, title = None \/ IsTitle(title),
         mode = "create" <=> id = None, preview # None => id # None
  PROVE  /\ ModalShape(NewForm(mode, id, preview, title))
         /\ NewForm(mode, id, preview, title).mode = mode
         /\ NewForm(mode, id, preview, title).id = id
         /\ NewForm(mode, id, preview, title).preview = preview
         /\ NewForm(mode, id, preview, title).title = title
         /\ NewForm(mode, id, preview, title).request = None
<1>1. PICK enabled \in BOOLEAN :
         enabled = (preview = None \/ ~PreventStorageModeDuplication(preview))
  OBVIOUS
<1>2. NewForm(mode, id, preview, title)
        = [mode |-> mode, id |-> id, preview |-> preview, title |-> title,
           isEncryptModeEnabled |-> enabled, formStatus |-> 1,
           hasSavedKey |-> FALSE, request |-> None]
  BY <1>1 DEF NewForm
<1>3. PICK m : m = NewForm(mode, id, preview, title)
  OBVIOUS
<1>4. /\ m.mode = mode /\ m.id = id /\ m.preview = preview
      /\ m.title = title /\ m.isEncryptModeEnabled = enabled
      /\ m.formStatus = 1 /\ m.hasSavedKey = FALSE /\ m.request = None
  BY <1>2, <1>3
<1>5. m \in [mode : {"create", "duplicate", "copy"},
             id : FormIds \cup {None}, preview : Form \cup {None},
             title : {m.title}, isEncryptModeEnabled : BOOLEAN,
             formStatus : {1, 2, 3}, hasSavedKey : BOOLEAN,
             request : Requests \cup {None}]
  BY <1>2, <1>3, <1>4
<1>6. ModalShape(m)
  BY <1>1, <1>4, <1>5 DEF ModalShape
<1>. QED  BY <1>3, <1>4, <1>6

LEMMA ModalPrepared ==
  ASSUME WorkspaceInv,
         \/ OpenCreateModal \/ PreviewFails
         \/ \E index \in DOMAIN myforms : DuplicateForm(index)
         \/ \E id \in OriginalForms : UseTemplate(id)
  PROVE  WorkspaceInv'
<1>1. /\ UNCHANGED <<vars, myforms, titles, asked>>
      /\ UNCHANGED <<deleteModal, lapses>>
      /\ UNCHANGED forms
  BY DEF OpenCreateModal, DuplicateForm, UseTemplate, PreviewFails, vars
<1>2. WorkspaceTypes /\ ModalKept
  BY DEF WorkspaceInv
<1>3. NothingAsked' = NothingAsked
  BY <1>1 DEF NothingAsked
<1>4. CASE OpenCreateModal
  <2>1. PICK m : m = NewForm("create", None, None, None)
    OBVIOUS
  <2>2. /\ place' = place /\ place = "list" /\ deleteModal = None
        /\ previewing' = previewing /\ createModal' = m
    BY <1>4, <2>1 DEF OpenCreateModal, Clickable
  <2>3. ModalShape(m) /\ m.preview = None /\ m.mode = "create"
    BY <2>1, NewFormShape
  <2>4. WorkspaceTypes'
    BY <1>1, <1>2, <2>2, <2>3 DEF WorkspaceTypes
  <2>5. ModalKept'
    BY <2>2, <2>3 DEF ModalKept
  <2>6. DeletesNamed' /\ TitleIsNew'
    BY <1>1, <2>2, <2>3 DEF DeletesNamed, TitleIsNew
  <2>. QED  BY <1>1, <2>2, <2>4, <2>5, <2>6, QuietStep
<1>5. CASE PreviewFails
  <2>1. place' = "error" /\ previewing' = None /\ createModal' = createModal
    BY <1>5 DEF PreviewFails
  <2>2. WorkspaceTypes'
    BY <1>1, <1>2, <2>1 DEF WorkspaceTypes, Places
  <2>3. ModalKept'
    BY <1>1, <1>2, <2>1 DEF ModalKept
  <2>4. ListInStep => DeletesNamed' /\ TitleIsNew'
    BY <1>1, <1>3, <2>1 DEF ListInStep, DeletesNamed, TitleIsNew
  <2>. QED  BY <1>1, <2>1, <2>2, <2>3, <2>4, QuietStep
<1>6. ASSUME NEW mode \in {"duplicate", "copy"}, NEW id \in FormIds,
             previewing' = [mode |-> mode, id |-> id],
             UNCHANGED <<place, createModal>>,
             place \in {"list", "examples"}, deleteModal = None
      PROVE  WorkspaceInv'
  <2>1. WorkspaceTypes'
    BY <1>1, <1>2, <1>6 DEF WorkspaceTypes
  <2>2. ModalKept'
    BY <1>1, <1>2, <1>6 DEF ModalKept
  <2>3. ListInStep => DeletesNamed' /\ TitleIsNew'
    BY <1>1, <1>3, <1>6 DEF ListInStep, DeletesNamed, TitleIsNew
  <2>. QED  BY <1>1, <1>6, <2>1, <2>2, <2>3, QuietStep
<1>7. ASSUME NEW index \in DOMAIN myforms, DuplicateForm(index)
      PROVE  WorkspaceInv'
  <2>1. myforms[index] \in FormIds
    BY <1>2 DEF WorkspaceTypes
  <2>. QED  BY <1>6, <1>7, <2>1 DEF DuplicateForm, Clickable
<1>8. ASSUME NEW id \in OriginalForms, UseTemplate(id)
      PROVE  WorkspaceInv'
  BY <1>6, <1>8 DEF UseTemplate, Clickable, FormIds
<1>. QED  BY <1>4, <1>5, <1>7, <1>8

LEMMA ModalMoves ==
  ASSUME WorkspaceInv,
         \/ CloseCreateModal \/ ChooseStorageMode \/ KeysGenerated
         \/ DownloadFile
  PROVE  WorkspaceInv'
<1>1. /\ UNCHANGED <<vars, myforms, titles, asked>>
      /\ UNCHANGED <<place, deleteModal, previewing, lapses>>
      /\ UNCHANGED forms
      /\ createModal # None
  BY DEF CloseCreateModal, ChooseStorageMode, KeysGenerated, DownloadFile,
         InModal, vars
<1>2. WorkspaceTypes /\ ModalKept
  BY DEF WorkspaceInv
<1>3. NothingAsked' = NothingAsked
  BY <1>1 DEF NothingAsked
<1>4. CASE CloseCreateModal
  <2>1. createModal' = None
    BY <1>4 DEF CloseCreateModal
  <2>2. WorkspaceTypes'
    BY <1>1, <1>2, <2>1 DEF WorkspaceTypes
  <2>3. ModalKept'
    BY <2>1 DEF ModalKept
  <2>4. ListInStep => DeletesNamed' /\ TitleIsNew'
    BY <1>1, <1>3, <2>1 DEF ListInStep, DeletesNamed, TitleIsNew
  <2>. QED  BY <1>1, <2>2, <2>3, <2>4, QuietStep
<1>5. CASE ChooseStorageMode \/ KeysGenerated \/ DownloadFile
  <2>1. PICK status \in {2, 3}, saved \in BOOLEAN :
           /\ createModal' = [createModal EXCEPT !.formStatus = status,
                                                 !.hasSavedKey = saved]
           /\ status = 2 => createModal.isEncryptModeEnabled
           /\ status = 3 => \/ /\ createModal.formStatus = 2
                               /\ createModal.request = None
                            \/ createModal.formStatus = 3
    <3>1. CASE ChooseStorageMode
      <4>1. createModal' = [createModal EXCEPT !.formStatus = 2,
                                               !.hasSavedKey = FALSE]
        BY <3>1 DEF ChooseStorageMode, InModal
      <4>. WITNESS 2 \in {2, 3}, FALSE \in BOOLEAN
      <4>. QED  BY <3>1, <4>1 DEF ChooseStorageMode
    <3>2. CASE KeysGenerated
      <4>1. createModal' = [createModal EXCEPT !.formStatus = 3,
                                               !.hasSavedKey = FALSE]
        BY <3>2 DEF KeysGenerated, InModal
      <4>. WITNESS 3 \in {2, 3}, FALSE \in BOOLEAN
      <4>. QED  BY <3>2, <4>1 DEF KeysGenerated
    <3>3. CASE DownloadFile
      <4>1. createModal' = [createModal EXCEPT !.formStatus = 3,
                                               !.hasSavedKey = TRUE]
        BY <3>3 DEF DownloadFile, InModal
      <4>. WITNESS 3 \in {2, 3}, TRUE \in BOOLEAN
      <4>. QED  BY <3>3, <4>1 DEF DownloadFile
    <3>. QED  BY <1>5, <3>1, <3>2, <3>3
  <2>2. PICK m : m = createModal
    OBVIOUS
  <2>3. ModalShape(m)
    BY <1>1, <1>2, <2>2 DEF WorkspaceTypes
  <2>4. PICK n : n = [m EXCEPT !.formStatus = status, !.hasSavedKey = saved]
    OBVIOUS
  <2>5. /\ n \in [mode : {"create", "duplicate", "copy"},
                  id : FormIds \cup {None}, preview : Form \cup {None},
                  title : {m.title}, isEncryptModeEnabled : BOOLEAN,
                  formStatus : {1, 2, 3}, hasSavedKey : BOOLEAN,
                  request : Requests \cup {None}]
        /\ n.mode = m.mode /\ n.id = m.id /\ n.preview = m.preview
        /\ n.title = m.title /\ n.request = m.request
        /\ n.isEncryptModeEnabled = m.isEncryptModeEnabled
        /\ n.formStatus = status
    BY <2>3, <2>4 DEF ModalShape
  <2>6. ModalShape(n)
    BY <2>1, <2>2, <2>3, <2>5 DEF ModalShape
  <2>7. createModal' = n
    BY <2>1, <2>2, <2>4
  <2>8. WorkspaceTypes'
    BY <1>1, <1>2, <2>6, <2>7 DEF WorkspaceTypes
  <2>9. ModalKept'
    BY <1>1, <1>2, <2>2, <2>5, <2>7 DEF ModalKept
  <2>10. ListInStep => DeletesNamed' /\ TitleIsNew'
    BY <1>1, <1>3, <2>2, <2>5, <2>7 DEF ListInStep, DeletesNamed, TitleIsNew
  <2>. QED  BY <1>1, <2>8, <2>9, <2>10, QuietStep
<1>. QED  BY <1>4, <1>5

-----------------------------------------------------------------------------
(* The title of a duplicate *)

LEMMA TitleNumbered ==
  ASSUME NEW title, IsTitle(title), NEW n \in Nat
  PROVE  /\ IsTitle([title EXCEPT !.copies = Append(@, n)])
         /\ [title EXCEPT !.copies = Append(@, n)].copies
              = Append(title.copies, n)
<1>1. /\ title.copies \in Seq(Nat)
      /\ title = [name |-> title.name, copies |-> title.copies]
  BY DEF IsTitle
<1>2. PICK t : t = [title EXCEPT !.copies = Append(@, n)]
  OBVIOUS
<1>3. t = [name |-> title.name, copies |-> Append(title.copies, n)]
  BY <1>1, <1>2
<1>4. t.copies = Append(title.copies, n) /\ t.name = title.name
  BY <1>3
<1>5. t.copies \in Seq(Nat)
  BY <1>1, <1>4
<1>. QED  BY <1>2, <1>3, <1>4, <1>5 DEF IsTitle

LEMMA SameLast ==
  ASSUME NEW S, NEW s \in Seq(S), NEW x \in S, NEW y \in S,
         Append(s, x) = Append(s, y)
  PROVE  x = y
<1>1. Append(s, x)[Len(s) + 1] = x /\ Append(s, y)[Len(s) + 1] = y
  OBVIOUS
<1>. QED  BY <1>1

(* Among one more number than there are forms, one is not taken.           *)
LEMMA DuplicateTitleIsNew ==
  ASSUME WorkspaceTypes, NEW title, IsTitle(title)
  PROVE  /\ IsTitle(DuplicateTitle(title))
         /\ \A i \in DOMAIN myforms :
               titles[myforms[i]] # DuplicateTitle(title)
<1>. DEFINE Numbered(n) == [title EXCEPT !.copies = Append(@, n)]
            taken(n) == \E i \in DOMAIN myforms :
                           titles[myforms[i]] = Numbered(n)
            N == Len(myforms)
            Free == {n \in 1..(N + 1) : ~taken(n)}
            number == CHOOSE n \in 1..(N + 1) :
                         ~taken(n) /\ \A m \in 1..(n - 1) : taken(m)
<1>1. N \in Nat /\ DOMAIN myforms = 1..N
  BY DEF WorkspaceTypes
<1>2. \A n, m \in Nat : Numbered(n) = Numbered(m) => n = m
  <2>. SUFFICES ASSUME NEW n \in Nat, NEW m \in Nat, Numbered(n) = Numbered(m)
                PROVE  n = m
    OBVIOUS
  <2>1. Append(title.copies, n) = Append(title.copies, m)
    BY TitleNumbered
  <2>2. title.copies \in Seq(Nat)
    BY DEF IsTitle
  <2>. QED  BY <2>1, <2>2, SameLast
<1>3. Free # {}
  <2>. SUFFICES ASSUME \A n \in 1..(N + 1) : taken(n)
                PROVE  FALSE
    OBVIOUS
  <2>. DEFINE at == [n \in 1..(N + 1) |->
                        CHOOSE i \in 1..N : titles[myforms[i]] = Numbered(n)]
  <2>1. \A n \in 1..(N + 1) :
           at[n] \in 1..N /\ titles[myforms[at[n]]] = Numbered(n)
    <3>. HIDE DEF Numbered
    <3>. QED  BY <1>1
  <2>2. at \in [1..(N + 1) -> 1..N]
    BY <2>1
  <2>. HIDE DEF at, Numbered, N
  <2>3. /\ IsFiniteSet(1..N) /\ Cardinality(1..N) = N
        /\ IsFiniteSet(1..(N + 1)) /\ Cardinality(1..(N + 1)) = N + 1
    <3>1. N \in Int /\ N + 1 \in Int /\ 1 \in Int /\ ~(1 > N + 1)
          /\ (1 > N => N = 0)
      BY <1>1
    <3>2. IsFiniteSet(1..N) /\ IsFiniteSet(1..(N + 1))
      BY <3>1, FS_Interval
    <3>3. Cardinality(1..(N + 1)) = (N + 1) - 1 + 1
      BY <3>1, FS_Interval
    <3>4. Cardinality(1..N) = IF 1 > N THEN 0 ELSE N - 1 + 1
      BY <3>1, FS_Interval
    <3>. QED  BY <1>1, <3>2, <3>3, <3>4
  <2>4. PICK S : S = 1..(N + 1)
    OBVIOUS
  <2>5. PICK T : T = 1..N
    OBVIOUS
  <2>6. Cardinality(T) < Cardinality(S)
    BY <1>1, <2>3, <2>4, <2>5
  <2>7. IsFiniteSet(S) /\ IsFiniteSet(T) /\ at \in [S -> T]
    BY <2>2, <2>3, <2>4, <2>5
  <2>8. PICK x, y \in S : x # y /\ at[x] = at[y]
    BY <2>6, <2>7, FS_PigeonHole
  <2>9. Numbered(x) = Numbered(y)
    BY <2>1, <2>4, <2>8
  <2>. QED  BY <1>1, <1>2, <2>4, <2>8, <2>9
<1>4. PICK n \in Free : \A m \in Free : n <= m
  <2>1. Free \in SUBSET Nat
    BY <1>1
  <2>. HIDE DEF Free
  <2>. QED  BY <1>3, <2>1, LeastExists
<1>5. n \in 1..(N + 1) /\ ~taken(n) /\ \A m \in 1..(n - 1) : taken(m)
  <2>1. ASSUME NEW m \in 1..(n - 1)
        PROVE  taken(m)
    <3>1. m \in 1..(N + 1) /\ ~(n <= m)
      BY <1>1
    <3>. HIDE DEF taken, N
    <3>. QED  BY <1>4, <3>1
  <2>. QED  BY <2>1
<1>6. number \in 1..(N + 1) /\ ~taken(number)
  <2>. HIDE DEF taken, N
  <2>. QED  BY <1>5
<1>7. DuplicateTitle(title) = Numbered(number)
  BY DEF DuplicateTitle
<1>8. number \in Nat
  BY <1>1, <1>6
<1>. HIDE DEF number
<1>9. IsTitle(Numbered(number))
  BY <1>8, TitleNumbered
<1>. QED  BY <1>6, <1>7, <1>9

LEMMA PreviewIsShown ==
  ASSUME WorkspaceInv, PreviewShown
  PROVE  WorkspaceInv'
<1>1. /\ UNCHANGED <<vars, myforms, titles, asked>>
      /\ UNCHANGED <<place, deleteModal, forms>>
      /\ previewing # None /\ previewing' = None
      /\ lapses \subseteq lapses' /\ (lapses' = {} => NothingAsked)
  BY DEF PreviewShown, vars
<1>2. WorkspaceTypes
  BY DEF WorkspaceInv
<1>3. PICK mode \in {"duplicate", "copy"}, id \in FormIds :
         mode = previewing.mode /\ id = previewing.id
  BY <1>1, <1>2 DEF WorkspaceTypes
<1>4. PICK title : title = CreatedTitle(mode, titles[id])
  OBVIOUS
<1>5. PICK form : form = forms[id]
  OBVIOUS
<1>6. PICK m : m = NewForm(mode, id, form, title)
  OBVIOUS
<1>7. IsActive(form) /\ createModal' = m
  BY <1>3, <1>4, <1>5, <1>6 DEF PreviewShown, CanPreview
<1>8. form \in Form /\ form # None /\ id # None
  BY <1>5, <1>7, DocumentAssumption
     DEF WorkspaceInv, EditInv, HandlerInv, TypeOK, IsActive
<1>9. IsTitle(titles[id])
  BY <1>2 DEF WorkspaceTypes
<1>10. IsTitle(title)
  <2>1. CASE mode = "duplicate"
    BY <1>2, <1>4, <1>9, <2>1, DuplicateTitleIsNew DEF CreatedTitle
  <2>2. CASE mode = "copy"
    <3>1. title = [titles[id] EXCEPT !.name = <<"Template_", @>>]
      BY <1>4, <2>2 DEF CreatedTitle
    <3>2. PICK t : t = titles[id]
      OBVIOUS
    <3>3. t = [name |-> t.name, copies |-> t.copies] /\ t.copies \in Seq(Nat)
      BY <1>9, <3>2 DEF IsTitle
    <3>4. title = [name |-> <<"Template_", t.name>>, copies |-> t.copies]
      BY <3>1, <3>2, <3>3
    <3>5. title.name = <<"Template_", t.name>> /\ title.copies = t.copies
      BY <3>4
    <3>. QED  BY <3>3, <3>4, <3>5 DEF IsTitle
  <2>. QED  BY <2>1, <2>2
<1>11. /\ ModalShape(m) /\ m.mode = mode /\ m.id = id /\ m.preview = form
       /\ m.title = title /\ m.request = None
  BY <1>6, <1>8, <1>10, NewFormShape
<1>12. WorkspaceTypes'
  BY <1>1, <1>2, <1>7, <1>11 DEF WorkspaceTypes
<1>13. ModalKept'
  <2>1. form.__v \in Nat
    BY <1>8, FormTyped
  <2>2. Since(form, form)
    BY <2>1 DEF Since
  <2>. QED  BY <1>1, <1>5, <1>7, <1>8, <1>11, <2>2 DEF ModalKept
<1>14. ASSUME ListInStep, lapses' = {}
       PROVE  DeletesNamed' /\ TitleIsNew'
  <2>1. NothingAsked'
    BY <1>1, <1>14 DEF NothingAsked
  <2>2. DeletesNamed'
    BY <1>1, <1>14 DEF ListInStep, DeletesNamed
  <2>3. ASSUME mode = "duplicate", NEW i \in DOMAIN myforms
        PROVE  titles[myforms[i]] # title
    BY <1>2, <1>4, <1>9, <2>3, DuplicateTitleIsNew DEF CreatedTitle
  <2>. QED  BY <1>1, <1>7, <1>11, <2>1, <2>2, <2>3 DEF TitleIsNew
<1>. QED  BY <1>1, <1>12, <1>13, <1>14, QuietStep

-----------------------------------------------------------------------------
(* The answers that the page hears *)

LEMMA RemovedFromList ==
  ASSUME NEW S, NEW s \in Seq(S), IsInjective(s), NEW i \in DOMAIN s
  PROVE  /\ RemoveAt(s, i) \in Seq(S)
         /\ IsInjective(RemoveAt(s, i))
         /\ ToSet(RemoveAt(s, i)) = ToSet(s) \ {s[i]}
<1>1. PICK n \in Nat : n = Len(s) /\ DOMAIN s = 1..n
  OBVIOUS
<1>2. i \in 1..n
  BY <1>1
<1>3. PICK t : t = RemoveAt(s, i)
  OBVIOUS
<1>4. /\ t \in Seq(S) /\ Len(t) = n - 1
      /\ \A j \in 1..(n - 1) : t[j] = s[IF j < i THEN j ELSE j + 1]
  BY <1>1, <1>2, <1>3, Removed
<1>5. DOMAIN t = 1..(n - 1)
  BY <1>4
<1>6. \A j, k \in 1..n : s[j] = s[k] => j = k
  BY <1>1 DEF IsInjective
<1>7. IsInjective(t)
  <2>. SUFFICES ASSUME NEW j \in 1..(n - 1), NEW k \in 1..(n - 1), t[j] = t[k]
                PROVE  j = k
    BY <1>5 DEF IsInjective
  <2>1. PICK a \in 1..n : a = (IF j < i THEN j ELSE j + 1) /\ t[j] = s[a]
    BY <1>2, <1>4
  <2>2. PICK b \in 1..n : b = (IF k < i THEN k ELSE k + 1) /\ t[k] = s[b]
    BY <1>2, <1>4
  <2>3. a = b
    BY <1>6, <2>1, <2>2
  <2>. QED  BY <1>2, <2>1, <2>2, <2>3
<1>8. ASSUME NEW x \in ToSet(t)
      PROVE  x \in ToSet(s) \ {s[i]}
  <2>1. PICK j \in 1..(n - 1) : x = t[j]
    BY <1>5 DEF ToSet
  <2>2. PICK a \in 1..n : a = (IF j < i THEN j ELSE j + 1) /\ t[j] = s[a]
    BY <1>2, <1>4
  <2>3. a # i
    BY <1>2, <2>2
  <2>. QED  BY <1>1, <1>2, <1>6, <2>1, <2>2, <2>3 DEF ToSet
<1>9. ASSUME NEW x \in ToSet(s) \ {s[i]}
      PROVE  x \in ToSet(t)
  <2>1. PICK a \in 1..n : x = s[a]
    BY <1>1 DEF ToSet
  <2>2. a # i
    BY <2>1
  <2>3. PICK j \in 1..(n - 1) : a = (IF j < i THEN j ELSE j + 1)
    <3>1. CASE a < i
      <4>1. a \in 1..(n - 1)
        BY <1>2, <3>1
      <4>. QED  BY <3>1, <4>1
    <3>2. CASE a > i
      <4>1. a - 1 \in 1..(n - 1) /\ ~(a - 1 < i) /\ a = (a - 1) + 1
        BY <1>2, <3>2
      <4>. QED  BY <4>1
    <3>. QED  BY <1>2, <2>2, <3>1, <3>2
  <2>4. t[j] = s[a]
    BY <1>4, <2>3
  <2>. QED  BY <1>5, <2>1, <2>4 DEF ToSet
<1>. QED  BY <1>3, <1>4, <1>7, <1>8, <1>9

LEMMA PutBeforeList ==
  ASSUME NEW S, NEW s \in Seq(S), IsInjective(s), NEW e \in S, e \notin ToSet(s)
  PROVE  /\ <<e>> \o s \in Seq(S)
         /\ IsInjective(<<e>> \o s)
         /\ ToSet(<<e>> \o s) = ToSet(s) \cup {e}
<1>1. PICK n \in Nat : n = Len(s) /\ DOMAIN s = 1..n
  OBVIOUS
<1>2. PICK t : t = <<e>> \o s
  OBVIOUS
<1>3. t \in Seq(S) /\ Len(t) = n + 1 /\ DOMAIN t = 1..(n + 1)
  BY <1>1, <1>2
<1>4. t[1] = e /\ \A j \in 1..n : t[j + 1] = s[j]
  BY <1>1, <1>2
<1>5. \A j \in 1..n : s[j] # e
  BY <1>1 DEF ToSet
<1>6. \A j, k \in 1..n : s[j] = s[k] => j = k
  BY <1>1 DEF IsInjective
<1>7. \A a \in 1..(n + 1) : a = 1 \/ \E j \in 1..n : a = j + 1
  <2>. SUFFICES ASSUME NEW a \in 1..(n + 1), a # 1
                PROVE  \E j \in 1..n : a = j + 1
    OBVIOUS
  <2>1. a - 1 \in 1..n /\ a = (a - 1) + 1
    OBVIOUS
  <2>. QED  BY <2>1
<1>8. IsInjective(t)
  <2>. SUFFICES ASSUME NEW a \in 1..(n + 1), NEW b \in 1..(n + 1), t[a] = t[b]
                PROVE  a = b
    BY <1>3 DEF IsInjective
  <2>1. CASE a = 1
    <3>1. ASSUME NEW k \in 1..n, b = k + 1
          PROVE  FALSE
      BY <1>4, <1>5, <2>1, <3>1
    <3>. QED  BY <1>7, <2>1, <3>1
  <2>2. CASE b = 1
    <3>1. ASSUME NEW j \in 1..n, a = j + 1
          PROVE  FALSE
      BY <1>4, <1>5, <2>2, <3>1
    <3>. QED  BY <1>7, <2>2, <3>1
  <2>3. ASSUME NEW j \in 1..n, NEW k \in 1..n, a = j + 1, b = k + 1
        PROVE  a = b
    <3>1. s[j] = s[k]
      BY <1>4, <2>3
    <3>. QED  BY <1>6, <2>3, <3>1
  <2>. QED  BY <1>7, <2>1, <2>2, <2>3
<1>9. ToSet(t) = ToSet(s) \cup {e}
  <2>1. ASSUME NEW x \in ToSet(t)
        PROVE  x \in ToSet(s) \cup {e}
    <3>1. PICK a \in 1..(n + 1) : x = t[a]
      BY <1>3 DEF ToSet
    <3>2. ASSUME NEW j \in 1..n, a = j + 1
          PROVE  x \in ToSet(s)
      <4>1. x = s[j] /\ j \in DOMAIN s
        BY <1>1, <1>4, <3>1, <3>2
      <4>. QED  BY <4>1 DEF ToSet
    <3>. QED  BY <1>4, <1>7, <3>1, <3>2
  <2>2. e \in ToSet(t)
    <3>1. 1 \in 1..(n + 1)
      OBVIOUS
    <3>. QED  BY <1>3, <1>4, <3>1 DEF ToSet
  <2>3. ASSUME NEW x \in ToSet(s)
        PROVE  x \in ToSet(t)
    <3>1. PICK j \in 1..n : x = s[j]
      BY <1>1 DEF ToSet
    <3>2. j + 1 \in 1..(n + 1)
      OBVIOUS
    <3>. QED  BY <1>3, <1>4, <3>1, <3>2 DEF ToSet
  <2>. QED  BY <2>1, <2>2, <2>3
<1>. QED  BY <1>2, <1>3, <1>8, <1>9

LEMMA DeletionHeard ==
  ASSUME WorkspaceInv, NEW r \in Requests,
         FormDeleted(r) \/ FormNotDeleted(r)
  PROVE  WorkspaceInv'
<1>1. /\ Heard(r) /\ asked[r] # None /\ stage[r] = "done"
      /\ request[r].method = "delete"
      /\ UNCHANGED <<place, titles, previewing, createModal>>
      /\ deleteModal' \in {None, deleteModal}
      /\ lapses \subseteq lapses'
      /\ asked' = [asked EXCEPT ![r] = None]
      /\ lapses' = {} => reply[r] \notin Failures
  BY DEF FormDeleted, FormNotDeleted, Answered, Heard, Failed, modalVars
<1>2. WorkspaceTypes /\ (lapses' = {} => ListInStep)
  BY <1>1 DEF WorkspaceInv
<1>3. \/ myforms' = myforms /\ ~(FormDeleted(r) /\ asked[r].live
                                 /\ asked[r].formIndex \in DOMAIN myforms)
      \/ /\ FormDeleted(r) /\ asked[r].formIndex \in DOMAIN myforms
         /\ myforms' = RemoveAt(myforms, asked[r].formIndex)
  BY DEF FormDeleted, FormNotDeleted
<1>4. /\ myforms' \in Seq(FormIds) /\ IsInjective(myforms')
      /\ ToSet(myforms') \subseteq ToSet(myforms)
      /\ FormDeleted(r) /\ asked[r].live
         /\ asked[r].formIndex \in DOMAIN myforms =>
            ToSet(myforms') = ToSet(myforms) \ {myforms[asked[r].formIndex]}
  BY <1>2, <1>3, RemovedFromList DEF WorkspaceTypes
<1>5. WorkspaceTypes'
  <2>1. asked' \in [Requests -> AskedRecord \cup {None}]
    BY <1>1, <1>2 DEF WorkspaceTypes
  <2>. QED  BY <1>1, <1>2, <1>4, <2>1 DEF WorkspaceTypes
<1>6. ASSUME ListInStep, lapses' = {}, place' = "list"
      PROVE  ToSet(myforms') = ListOf(owner)
  <2>1. ListFollows /\ OneAfterTheOther
    BY <1>1, <1>6 DEF ListInStep
  <2>2. /\ asked[r].live /\ asked[r].formIndex \in DOMAIN myforms
        /\ myforms[asked[r].formIndex] = request[r].id
    BY <1>1, <2>1 DEF ListFollows, OneAfterTheOther
  <2>3. CASE FormDeleted(r)
    <3>1. reply[r] = "OK"
      BY <2>3 DEF FormDeleted
    <3>. QED  BY <1>1, <1>4, <2>1, <2>2, <2>3, <3>1 DEF ListFollows
  <2>4. CASE FormNotDeleted(r)
    <3>1. reply[r] # "OK" /\ myforms' = myforms
      BY <2>4 DEF FormNotDeleted
    <3>2. reply[r] \notin Failures \cup {"OK"}
      BY <1>1, <1>6, <3>1
    <3>. QED  BY <1>1, <2>1, <3>1, <3>2 DEF ListFollows
  <2>. QED  BY <2>3, <2>4
<1>7. ToSet(myforms') \subseteq ToSet(myforms) \cup {r}
      /\ ~(r \in ToSet(myforms') /\ r \notin ToSet(myforms))
  BY <1>4
<1>. QED  BY <1>1, <1>5, <1>6, <1>7, HeardStep

LEMMA CreationHeard ==
  ASSUME WorkspaceInv, NEW r \in Requests,
         FormDuplicated(r) \/ FormNotDuplicated(r) \/ FormCreated(r)
  PROVE  WorkspaceInv'
<1>1. /\ Heard(r) /\ asked[r] # None /\ stage[r] = "done"
      /\ UNCHANGED <<titles, previewing, deleteModal>>
      /\ createModal' \in {None, createModal}
      /\ lapses \subseteq lapses'
      /\ asked' = [asked EXCEPT ![r] = None]
      /\ lapses' = {} => reply[r] \notin Failures
      /\ place' \in {place, "builder", "error"}
  BY DEF FormDuplicated, FormNotDuplicated, FormCreated, Answered, Heard,
         Failed, modalVars, ModalClosed
<1>2. /\ WorkspaceTypes /\ AskedFor(r) /\ r \in FormIds
      /\ lapses' = {} => ListInStep
  BY <1>1 DEF WorkspaceInv, RequestsKept, FormIds
<1>3. \/ myforms' = myforms /\ ~(FormDuplicated(r) /\ asked[r].live)
      \/ /\ FormDuplicated(r) /\ asked[r].live
         /\ myforms' = <<r>> \o myforms
  BY DEF FormDuplicated, FormNotDuplicated, FormCreated
<1>4. /\ myforms' \in Seq(FormIds) /\ IsInjective(myforms')
      /\ ToSet(myforms') \subseteq ToSet(myforms) \cup {r}
      /\ FormDuplicated(r) /\ asked[r].live =>
            ToSet(myforms') = ToSet(myforms) \cup {r}
  <2>1. asked[r].live => r \notin ToSet(myforms)
    BY <1>2 DEF AskedFor
  <2>2. myforms \in Seq(FormIds) /\ IsInjective(myforms)
    BY <1>2 DEF WorkspaceTypes
  <2>3. CASE asked[r].live
    <3>1. /\ <<r>> \o myforms \in Seq(FormIds)
          /\ IsInjective(<<r>> \o myforms)
          /\ ToSet(<<r>> \o myforms) = ToSet(myforms) \cup {r}
      BY <1>2, <2>1, <2>2, <2>3, PutBeforeList
    <3>2. PICK t : t = <<r>> \o myforms
      OBVIOUS
    <3>. QED  BY <1>3, <2>2, <3>1, <3>2
  <2>. QED  BY <1>3, <2>2, <2>3
<1>5. WorkspaceTypes'
  <2>1. asked' \in [Requests -> AskedRecord \cup {None}]
    BY <1>1, <1>2 DEF WorkspaceTypes
  <2>. QED  BY <1>1, <1>2, <1>4, <2>1 DEF WorkspaceTypes, Places
<1>6. r \in ToSet(myforms') /\ r \notin ToSet(myforms) => forms[r] # None
  <2>1. FormDuplicated(r) => request[r].method = "duplicate" /\ reply[r] = "OK"
    BY DEF FormDuplicated, Answered
  <2>. QED  BY <1>2, <1>3, <2>1 DEF AskedFor
<1>7. ASSUME ListInStep, lapses' = {}, place' = "list"
      PROVE  ToSet(myforms') = ListOf(owner)
  <2>1. place = "list" /\ ~FormCreated(r)
    BY <1>1, <1>7 DEF FormCreated
  <2>2. ListFollows /\ OneAfterTheOther
    BY <1>7, <2>1 DEF ListInStep
  <2>3. CASE FormDuplicated(r)
    <3>1. /\ reply[r] = "OK" /\ request[r].method = "duplicate"
          /\ asked[r].live
      BY <1>1, <2>2, <2>3 DEF FormDuplicated, Answered, OneAfterTheOther
    <3>. QED  BY <1>1, <1>4, <2>2, <2>3, <3>1 DEF ListFollows
  <2>4. CASE FormNotDuplicated(r)
    <3>1. /\ reply[r] # "OK" /\ request[r].method = "duplicate"
          /\ myforms' = myforms
      BY <2>4 DEF FormNotDuplicated, Answered
    <3>2. reply[r] \notin Failures \cup {"OK"}
      BY <1>1, <1>7, <3>1
    <3>. QED  BY <1>1, <2>2, <3>1, <3>2 DEF ListFollows
  <2>. QED  BY <2>1, <2>3, <2>4
<1>. QED  BY <1>1, <1>4, <1>5, <1>6, <1>7, HeardStep

LEMMA AtPageStep ==
  ASSUME WorkspaceInv, AtPage
  PROVE  WorkspaceInv'
BY ListIsRead, PlaceChanged, DeleteModalMoves, ModalPrepared, ModalMoves,
   PreviewIsShown, DeletionHeard, CreationHeard DEF AtPage

-----------------------------------------------------------------------------
(* The requests that are sent *)

(* Those of others change nothing that the page remembers.                 *)
LEMMA RequestsWait ==
  ASSUME WorkspaceInv, NEW r \in Requests, NEW call, Sends(r, call),
         UNCHANGED myforms, \A q \in Requests \ {r} : asked'[q] = asked[q],
         asked'[r] # None => AskedFor(r)' /\ PreviewKept(r)'
  PROVE  RequestsKept'
<1>1. HandlerInv /\ RequestsKept
  BY DEF WorkspaceInv, EditInv
<1>2. /\ UNCHANGED <<forms, seen, copy, reply, overwritten>>
      /\ \A q \in Requests \ {r} :
            request'[q] = request[q] /\ stage'[q] = stage[q]
  BY <1>1, Sent
<1>. SUFFICES ASSUME NEW q \in Requests \ {r}, asked'[q] # None
              PROVE  AskedFor(q)' /\ PreviewKept(q)'
  BY DEF RequestsKept
<1>3. AskedFor(q) /\ PreviewKept(q)
  BY <1>1 DEF RequestsKept
<1>4. AskedFor(q)'
  BY <1>2, <1>3 DEF AskedFor
<1>5. PreviewKept(q)'
  BY <1>2, <1>3 DEF PreviewKept
<1>. QED  BY <1>4, <1>5

LEMMA SentInStep ==
  ASSUME WorkspaceInv, NEW r \in Requests, NEW call, Sends(r, call),
         UNCHANGED <<place, myforms>>, lapses' = lapses \cup Overlap,
         asked' = [asked EXCEPT ![r] = asked'[r]],
         asked'[r] # None, asked'[r].live,
         place = "list" /\ call.method = "delete" =>
            /\ asked'[r].formIndex \in DOMAIN myforms
            /\ myforms[asked'[r].formIndex] = call.id,
         ListInStep => DeletesNamed' /\ TitleIsNew',
         lapses' = {}
  PROVE  ListInStep'
<1>1. /\ HandlerInv /\ ListInStep /\ NothingAsked
      /\ asked \in [Requests -> AskedRecord \cup {None}]
  BY DEF WorkspaceInv, EditInv, Overlap, WorkspaceTypes
<1>2. /\ UNCHANGED <<forms, seen, reply>> /\ reply[r] = "none"
      /\ request'[r] = call /\ stage'[r] = "sent"
      /\ \A q \in Requests \ {r} :
            request'[q] = request[q] /\ stage'[q] = stage[q]
  BY <1>1, Sent
<1>3. \A q \in Requests \ {r} : asked'[q] = None
  BY <1>1 DEF NothingAsked
<1>4. OneAfterTheOther'
  <2>1. \A q \in Requests \ {r} : stage'[q] \in {"unsent", "done"}
    BY <1>1, <1>2 DEF ListInStep, OneAfterTheOther, NothingAsked
  <2>. QED  BY <1>2, <1>3, <2>1 DEF OneAfterTheOther
<1>5. place' = "list" => ListFollows'
  <2>. SUFFICES ASSUME place = "list"
                PROVE  ListFollows'
    OBVIOUS
  <2>1. ListOf(owner) = ToSet(myforms)
    BY <1>1 DEF ListInStep, ListFollows
  <2>2. ListOf(owner)' = ListOf(owner)
    BY <1>2 DEF ListOf, IsActive, CanRead
  <2>3. ~NothingAsked'
    BY DEF NothingAsked
  <2>. QED  BY <1>2, <1>3, <2>1, <2>2, <2>3 DEF ListFollows
<1>. QED  BY <1>1, <1>4, <1>5 DEF ListInStep

LEMMA DeletionSent ==
  ASSUME WorkspaceInv, NEW r \in Requests, DeleteForm(r)
  PROVE  WorkspaceInv'
<1>1. WorkspaceTypes /\ HandlerInv /\ ListKept
  BY DEF WorkspaceInv, EditInv
<1>2. PICK id \in FormIds :
         /\ id = myforms[deleteModal.formIndex]
         /\ Sends(r, Call("delete", id, "email"))
  BY <1>1, FormToDelete
<1>3. PICK call : call = Call("delete", id, "email")
  OBVIOUS
<1>4. /\ call.user = owner /\ call.method = "delete" /\ call.id = id
      /\ Sends(r, call)
  <2>1. "delete" \in Methods /\ "email" \in {"email", "encrypt"}
    BY DEF Methods
  <2>. QED  BY <1>2, <1>3, <2>1, OwnersCall
<1>5. PICK index \in DOMAIN myforms : index = deleteModal.formIndex
  BY DEF DeleteForm
<1>6. PICK rec : rec = [formIndex |-> index, preview |-> None, live |-> TRUE]
  OBVIOUS
<1>7. /\ rec \in AskedRecord /\ rec # None /\ rec.formIndex = index
      /\ rec.preview = None /\ rec.live
  <2>1. index \in Nat
    BY <1>1, <1>5 DEF WorkspaceTypes
  <2>2. rec \in AskedRecord
    BY <1>6, <2>1 DEF AskedRecord
  <2>3. None \notin AskedRecord
    BY WorkspaceAssumption DEF AskedRecord
  <2>. QED  BY <1>6, <2>2, <2>3
<1>8. /\ asked' = [asked EXCEPT ![r] = rec]
      /\ UNCHANGED <<place, myforms, titles, previewing, createModal>>
      /\ lapses' = lapses \cup Overlap
      /\ deleteModal # None /\ createModal = None
      /\ deleteModal' = [deleteModal EXCEPT !.requests = @ \cup {r}]
  BY <1>5, <1>6 DEF DeleteForm
<1>9. asked'[r] = rec /\ asked' \in [Requests -> AskedRecord \cup {None}]
      /\ asked' = [asked EXCEPT ![r] = asked'[r]]
      /\ \A q \in Requests \ {r} : asked'[q] = asked[q]
  BY <1>1, <1>7, <1>8 DEF WorkspaceTypes
<1>10. /\ UNCHANGED <<forms, seen, copy, reply, overwritten>>
       /\ request'[r] = call /\ stage'[r] = "sent" /\ forms[r] = None
       /\ [EditNext]_vars
  BY <1>1, <1>4, Sent DEF EditNext
<1>11. EditInv'
  BY <1>10, EditInvStep DEF WorkspaceInv
<1>12. /\ deleteModal' \in [currForm : FormIds, formIndex : Nat,
                            requests : SUBSET Requests]
       /\ deleteModal'.requests # {}
  <2>1. deleteModal \in [currForm : FormIds, formIndex : Nat,
                         requests : SUBSET Requests]
    BY <1>1, <1>8 DEF WorkspaceTypes
  <2>. QED  BY <1>8, <2>1
<1>13. WorkspaceTypes'
  BY <1>1, <1>8, <1>9, <1>12 DEF WorkspaceTypes
<1>14. RequestsKept'
  <2>1. r \notin ToSet(myforms)
    BY <1>1, <1>10 DEF ListKept
  <2>2. AskedFor(r)'
    BY <1>4, <1>7, <1>8, <1>9, <1>10, <2>1 DEF AskedFor
  <2>3. PreviewKept(r)'
    BY <1>7, <1>9 DEF PreviewKept
  <2>. QED  BY <1>4, <1>8, <1>9, <2>2, <2>3, RequestsWait
<1>15. ListKept' /\ ModalKept'
  BY <1>8, <1>10 DEF WorkspaceInv, ListKept, ModalKept
<1>16. lapses' = {} => ListInStep'
  <2>1. DeletesNamed' /\ TitleIsNew'
    BY <1>8, <1>12 DEF DeletesNamed, TitleIsNew
  <2>2. /\ asked'[r] # None /\ asked'[r].live
        /\ asked'[r].formIndex \in DOMAIN myforms
        /\ myforms[asked'[r].formIndex] = call.id
    BY <1>2, <1>4, <1>5, <1>7, <1>9
  <2>. QED  BY <1>4, <1>8, <1>9, <2>1, <2>2, SentInStep
<1>. QED  BY <1>11, <1>13, <1>14, <1>15, <1>16 DEF WorkspaceInv

LEMMA CreationSent ==
  ASSUME WorkspaceInv, NEW r \in Requests, CreateNewForm(r)
  PROVE  WorkspaceInv'
<1>1. WorkspaceTypes /\ HandlerInv /\ ListKept /\ ModalKept
  BY DEF WorkspaceInv, EditInv
<1>2. PICK id \in FormIds, mode \in {"email", "encrypt"} :
         /\ id = IF createModal.id = None THEN r ELSE createModal.id
         /\ mode = "encrypt" => createModal.formStatus = 3
         /\ createModal.mode \in Methods
         /\ Sends(r, Call(createModal.mode, id, mode))
  BY <1>1, FormToCreate
<1>3. PICK m : m = createModal
  OBVIOUS
<1>4. ModalShape(m) /\ createModal # None
  BY <1>1, <1>3 DEF CreateNewForm, WorkspaceTypes
<1>5. PICK call : call = Call(m.mode, id, mode)
  OBVIOUS
<1>6. /\ call.user = owner /\ call.method = m.mode /\ call.id = id
      /\ call.responseMode = mode /\ Sends(r, call)
  BY <1>2, <1>3, <1>5, OwnersCall
<1>7. PICK rec : rec = [formIndex |-> 0, live |-> TRUE, preview |-> m.preview]
  OBVIOUS
<1>8. /\ rec \in AskedRecord /\ rec # None
      /\ rec.preview = m.preview /\ rec.live
  <2>1. m.preview \in Form \cup {None}
    BY <1>4 DEF ModalShape
  <2>2. rec \in AskedRecord
    BY <1>7, <2>1 DEF AskedRecord
  <2>3. None \notin AskedRecord
    BY WorkspaceAssumption DEF AskedRecord
  <2>. QED  BY <1>7, <2>2, <2>3
<1>9. PICK n : n = [m EXCEPT !.formStatus = 2, !.request = r]
  OBVIOUS
<1>10. /\ asked' = [asked EXCEPT ![r] = rec]
       /\ UNCHANGED <<place, myforms, deleteModal, previewing>>
       /\ lapses' = lapses \cup Overlap
       /\ createModal' = n
       /\ titles' = IF m.title = None THEN titles
                    ELSE [titles EXCEPT ![r] = m.title]
  BY <1>3, <1>7, <1>9 DEF CreateNewForm
<1>11. asked'[r] = rec /\ asked' \in [Requests -> AskedRecord \cup {None}]
      /\ asked' = [asked EXCEPT ![r] = asked'[r]]
      /\ \A q \in Requests \ {r} : asked'[q] = asked[q]
  BY <1>1, <1>8, <1>10 DEF WorkspaceTypes
<1>12. /\ UNCHANGED <<forms, seen, copy, reply, overwritten>>
       /\ request'[r] = call /\ stage'[r] = "sent" /\ forms[r] = None
       /\ reply'[r] = "none"
       /\ [EditNext]_vars
  BY <1>1, <1>6, Sent DEF EditNext
<1>13. EditInv'
  BY <1>12, EditInvStep DEF WorkspaceInv
<1>14. r # None /\ r \in FormIds
  BY DocumentAssumption DEF FormIds
<1>15. /\ ModalShape(n) /\ n.request = r /\ n.preview = m.preview /\ n.id = m.id
  <2>1. /\ n \in [mode : {"create", "duplicate", "copy"},
                  id : FormIds \cup {None}, preview : Form \cup {None},
                  title : {m.title}, isEncryptModeEnabled : BOOLEAN,
                  formStatus : {1, 2, 3}, hasSavedKey : BOOLEAN,
                  request : Requests \cup {None}]
        /\ n.mode = m.mode /\ n.id = m.id /\ n.preview = m.preview
        /\ n.title = m.title /\ n.request = r
        /\ n.isEncryptModeEnabled = m.isEncryptModeEnabled
        /\ n.formStatus = 2
    BY <1>4, <1>9 DEF ModalShape
  <2>. QED  BY <1>4, <1>14, <2>1 DEF ModalShape
<1>16. WorkspaceTypes'
  <2>1. /\ titles' = [x \in FormIds |-> titles'[x]]
        /\ \A x \in FormIds : IsTitle(titles'[x])
    BY <1>1, <1>4, <1>10, <1>14 DEF WorkspaceTypes, ModalShape
  <2>2. place # "loading"
    BY <1>1, <1>4 DEF WorkspaceTypes
  <2>. QED  BY <1>1, <1>10, <1>11, <1>15, <2>1, <2>2 DEF WorkspaceTypes
<1>17. RequestsKept'
  <2>1. r \notin ToSet(myforms)
    BY <1>1, <1>12 DEF ListKept
  <2>2. m.mode \in {"create", "duplicate", "copy"}
    BY <1>4 DEF ModalShape
  <2>3. AskedFor(r)'
    BY <1>6, <1>8, <1>10, <1>11, <1>12, <2>1, <2>2 DEF AskedFor
  <2>4. PreviewKept(r)'
    <3>. SUFFICES ASSUME m.preview # None
                  PROVE  PreviewKept(r)'
      BY <1>8, <1>11 DEF PreviewKept
    <3>1. m.id # None /\ m.mode # "create" /\ id = m.id
      BY <1>2, <1>3, <1>4 DEF ModalShape
    <3>2. forms[id] # None /\ Since(m.preview, forms[id])
      BY <1>1, <1>3, <1>4, <3>1 DEF ModalKept
    <3>3. mode = "encrypt" => ~PreventStorageModeDuplication(m.preview)
      BY <1>2, <1>3, <1>4 DEF ModalShape
    <3>. QED  BY <1>6, <1>8, <1>11, <1>12, <2>2, <3>1, <3>2, <3>3
              DEF PreviewKept
  <2>. QED  BY <1>6, <1>10, <1>11, <2>3, <2>4, RequestsWait
<1>18. ListKept' /\ ModalKept'
  BY <1>1, <1>3, <1>4, <1>10, <1>12, <1>15 DEF ListKept, ModalKept
<1>19. lapses' = {} => ListInStep'
  <2>1. ListInStep => DeletesNamed' /\ TitleIsNew'
    BY <1>4, <1>10, <1>14, <1>15 DEF ListInStep, DeletesNamed, TitleIsNew
  <2>2. call.method # "delete"
    BY <1>4, <1>6 DEF ModalShape
  <2>. QED  BY <1>6, <1>8, <1>10, <1>11, <2>1, <2>2, SentInStep
<1>. QED  BY <1>13, <1>16, <1>17, <1>18, <1>19 DEF WorkspaceInv

LEMMA SentElsewhere ==
  ASSUME WorkspaceInv, NEW r \in Requests, Meanwhile(r)
  PROVE  WorkspaceInv'
<1>1. WorkspaceTypes /\ HandlerInv /\ RequestsKept
  BY DEF WorkspaceInv, EditInv
<1>2. PICK call \in Elsewhere : Sends(r, call)
  BY WorkspaceAssumption DEF Meanwhile, Sends
<1>3. /\ UNCHANGED <<place, myforms, titles, asked>>
      /\ UNCHANGED <<deleteModal, previewing, createModal>>
      /\ lapses' # {}
  BY DEF Meanwhile, modalVars
<1>4. UNCHANGED forms /\ stage[r] = "unsent" /\ [EditNext]_vars
  BY <1>1, <1>2, Sent DEF EditNext
<1>5. EditInv'
  BY <1>4, EditInvStep DEF WorkspaceInv
<1>6. WorkspaceTypes'
  BY <1>1, <1>3 DEF WorkspaceTypes
<1>7. asked'[r] = None
  BY <1>1, <1>3, <1>4 DEF RequestsKept, AskedFor
<1>8. RequestsKept'
  BY <1>2, <1>3, <1>7, RequestsWait
<1>9. ListKept' /\ ModalKept'
  BY <1>3, <1>4 DEF WorkspaceInv, ListKept, ModalKept
<1>. QED  BY <1>3, <1>5, <1>6, <1>8, <1>9 DEF WorkspaceInv

-----------------------------------------------------------------------------
(* The handlers' steps, under the page's requests *)

(* What the answer tells of the forms.                                     *)
LEMMA AnswerTells ==
  ASSUME HandlerInv, NEW r \in Requests, Handle(r)
  PROVE  /\ stage[r] \notin {"unsent", "done"} /\ reply[r] = "none"
         /\ UNCHANGED request
         /\ \/ UNCHANGED <<forms, overwritten>>
            \/ Save(r)
            \/ stage'[r] = "done" /\ reply'[r] \in Failures
         /\ reply'[r] = "OK" => Save(r)
         /\ reply'[r] = "UNPROCESSABLE_ENTITY" =>
               stage[r] = "saving" /\ ~Validates(copy[r])
<1>1. /\ stage[r] \notin {"unsent", "done"} /\ UNCHANGED request
  BY DEF Handle, FormNotFound, NotPermitted, InvalidUpdate, ReadForUpdate,
         ReadForDelete, ReadForDuplicate, Duplicate, Create, SaveRejected,
         SaveConflicts, Save, SaveFails, HandlerFails, Refuse
<1>2. reply[r] = "none"
  BY <1>1 DEF HandlerInv, Handling
<1>3. CASE Save(r)
  <2>1. reply'[r] = "OK"
    BY <1>3 DEF Save, Answer, HandlerInv, TypeOK
  <2>. QED  BY <1>1, <1>2, <1>3, <2>1
<1>4. CASE \/ ReadForUpdate(r) \/ ReadForDelete(r) \/ ReadForDuplicate(r)
           \/ Duplicate(r) \/ Create(r)
  <2>1. reply' = reply /\ UNCHANGED <<forms, overwritten>>
    BY <1>4 DEF ReadForUpdate, ReadForDelete, ReadForDuplicate, Duplicate,
                Create
  <2>. QED  BY <1>1, <1>2, <2>1
<1>5. ASSUME NEW status \in {"NOT_FOUND", "FORBIDDEN", "BAD_REQUEST",
                             "CONFLICT"},
             Refuse(r, status)
      PROVE  reply'[r] = status /\ UNCHANGED <<forms, overwritten>>
  BY <1>5 DEF Refuse, Answer, HandlerInv, TypeOK
<1>6. CASE FormNotFound(r) \/ NotPermitted(r) \/ InvalidUpdate(r)
           \/ SaveConflicts(r)
  <2>1. \E status \in {"NOT_FOUND", "FORBIDDEN", "BAD_REQUEST", "CONFLICT"} :
           Refuse(r, status)
    BY <1>6 DEF FormNotFound, NotPermitted, InvalidUpdate, SaveConflicts
  <2>. QED  BY <1>1, <1>2, <1>5, <2>1
<1>7. CASE SaveRejected(r)
  <2>1. reply'[r] = "UNPROCESSABLE_ENTITY" /\ UNCHANGED <<forms, overwritten>>
    BY <1>7 DEF SaveRejected, Refuse, Answer, HandlerInv, TypeOK
  <2>. QED  BY <1>1, <1>2, <1>7, <2>1 DEF SaveRejected
<1>8. ASSUME NEW status \in Failures,
             SaveFails(r, status) \/ HandlerFails(r, status)
      PROVE  reply'[r] = status /\ stage'[r] = "done"
  BY <1>8 DEF SaveFails, HandlerFails, Refuse, Answer, HandlerInv, TypeOK
<1>9. CASE \E status \in Failures :
              SaveFails(r, status) \/ HandlerFails(r, status)
  BY <1>1, <1>2, <1>8, <1>9, EditingAssumption
<1>. QED  BY <1>3, <1>4, <1>6, <1>7, <1>9 DEF Handle

(* A saved deletion takes the form from the list, unless it was made from  *)
(* an older state of it; a saved duplicate is added to its admin's.        *)
LEMMA SaveListed ==
  ASSUME HandlerInv, NEW r \in Requests, Save(r), request[r].user = owner
  PROVE  /\ request[r].method = "delete" /\ seen[r] = forms[request[r].id] =>
               ListOf(owner)' = ListOf(owner) \ {request[r].id}
         /\ request[r].method = "duplicate" =>
               /\ forms'[r] # None
               /\ ListOf(owner)' = ListOf(owner) \cup {r}
<1>1. /\ stage[r] = "saving" /\ Write(r) /\ Handling(r)
      /\ copy[r] \in Form
  BY DEF Save, HandlerInv, Handling
<1>2. /\ forms'[SavedAt(r)] = Written(r)
      /\ \A id \in FormIds \ {SavedAt(r)} : forms'[id] = forms[id]
      /\ Written(r) \in Form /\ SavedAt(r) \in FormIds
  BY <1>1, Writing, WrittenForm
<1>3. Written(r) # None
  BY <1>2, DocumentAssumption
<1>4. ASSUME request[r].method = "delete", seen[r] = forms[request[r].id]
      PROVE  ListOf(owner)' = ListOf(owner) \ {request[r].id}
  <2>1. seen[r] # None /\ CopyMade(r)
    BY <1>1, <1>4 DEF Handling, NewFormMade
  <2>2. SavedAt(r) = request[r].id /\ seen[r] \in Form
    BY <1>1, <2>1, CopyShape
  <2>3. copy[r] = Archived(seen[r])
    BY <1>4, <2>1 DEF CopyMade
  <2>4. copy[r].settings.status = "ARCHIVED"
    <3>1. /\ seen[r].settings \in Settings
          /\ copy[r].settings = [seen[r].settings EXCEPT !.status = "ARCHIVED"]
      BY <2>2, <2>3, FormArchived, FormTyped
    <3>. QED  BY <3>1 DEF Settings
  <2>5. forms'[request[r].id].settings.status = "ARCHIVED"
    BY <1>1, <1>2, <1>4, <2>2, <2>4, WrittenForm
  <2>. QED  BY <1>2, <2>2, <2>5 DEF ListOf, IsActive, CanRead
<1>5. ASSUME request[r].method = "duplicate"
      PROVE  /\ forms'[r] # None
             /\ ListOf(owner)' = ListOf(owner) \cup {r}
  <2>1. seen[r] = None /\ NewFormMade(r)
    BY <1>1, <1>5 DEF Handling, CopyMade
  <2>2. SavedAt(r) = r /\ Written(r) = copy[r]
    BY <1>1, <2>1, WrittenForm
  <2>3. forms'[r] = copy[r] /\ copy[r] # None /\ r \in FormIds
    BY <1>2, <1>3, <2>2
  <2>4. copy[r].lists.admin = owner /\ copy[r].settings.status = "PRIVATE"
    BY <2>1 DEF NewFormMade, NewLists
  <2>5. IsActive(forms'[r]) /\ CanRead(forms'[r].lists, owner)
    BY <2>3, <2>4 DEF IsActive, CanRead
  <2>. QED  BY <1>2, <2>2, <2>3, <2>5 DEF ListOf, IsActive, CanRead
<1>. QED  BY <1>4, <1>5

(* A duplicate in a mode that the modal offered validates, unless the form *)
(* has been saved over or has changed since.                               *)
LEMMA DuplicateValidates ==
  ASSUME NEW form \in Form, NEW preview \in Form, NEW u \in Users,
         NEW mode \in {"email", "encrypt"}, Validates(form),
         form.lists = preview.lists,
         mode = "encrypt" => ~PreventStorageModeDuplication(preview)
  PROVE  Validates(Duplicated(form, u, mode))
<1>1. PICK d : d = Duplicated(form, u, mode)
  OBVIOUS
<1>2. /\ d.lists.form_fields = form.lists.form_fields
      /\ d.lists.permissionList = [v \in Users |-> "none"]
      /\ d.settings.authType = form.settings.authType
      /\ d.settings.webhook = FALSE
      /\ d.responseMode = mode
  BY <1>1 DEF Duplicated
<1>3. MyInfoAllowed(d)
  <2>. SUFFICES ASSUME Has(d, "myInfo")
                PROVE  d.settings.authType = "SP" /\ d.responseMode = "email"
    BY DEF MyInfoAllowed
  <2>1. Has(form, "myInfo")
    BY <1>2 DEF Has
  <2>2. form.settings.authType = "SP"
    BY <2>1 DEF Validates, MyInfoAllowed
  <2>3. PreventStorageModeDuplication(preview)
    BY <2>1 DEF Has, PreventStorageModeDuplication
  <2>. QED  BY <1>2, <2>2, <2>3
<1>4. AttachmentsAllowed(d)
  BY <1>2 DEF AttachmentsAllowed
<1>5. CollaboratorsAllowed(d)
  BY <1>2 DEF CollaboratorsAllowed
<1>. QED  BY <1>1, <1>3, <1>4, <1>5 DEF Validates

(* The preview of a request is still older than the form, or the same.     *)
LEMMA PreviewStays ==
  ASSUME EditInv, NEW r \in Requests, Handle(r), UNCHANGED asked,
         NEW q \in Requests, asked[q] \in AskedRecord, stage[q] # "unsent",
         PreviewKept(q)
  PROVE  PreviewKept(q)'
<1>. SUFFICES ASSUME asked[q].preview # None
              PROVE  PreviewKept(q)'
  BY DEF PreviewKept
<1>1. HandlerInv /\ [EditNext]_vars /\ asked[q].preview \in Form
  BY DEF EditInv, EditNext, AskedRecord
<1>2. PICK preview \in Form : preview = asked[q].preview
  BY <1>1
<1>3. PICK call : call = request[q]
  OBVIOUS
<1>4. request'[q] = call
  BY <1>1, <1>3, AnswerTells
<1>5. PICK id \in FormIds : id = call.id
  BY <1>1, <1>3 DEF HandlerInv, Handling, TypeOK, IsCall
<1>6. /\ call.method \in {"duplicate", "copy"}
      /\ forms[id] # None /\ Since(preview, forms[id])
      /\ call.responseMode = "encrypt" =>
            ~PreventStorageModeDuplication(preview)
      /\ (\/ stage[q] = "saving" /\ ~Validates(copy[q])
          \/ reply[q] = "UNPROCESSABLE_ENTITY")
            => id \in overwritten \/ preview.__v < forms[id].__v
  BY <1>2, <1>3, <1>5 DEF PreviewKept
<1>7. /\ forms'[id] # None /\ overwritten \subseteq overwritten'
      /\ Since(preview, forms'[id]) /\ Since(forms[id], forms'[id])
  <2>1. forms[id] \in Form
    BY <1>1, <1>6 DEF HandlerInv, TypeOK
  <2>2. Since(forms[id], forms[id])
    BY <2>1, FormTyped DEF Since
  <2>. QED  BY <1>1, <1>6, <2>1, <2>2, FormsGrow
<1>8. id \in overwritten \/ preview.__v < forms[id].__v
      => id \in overwritten' \/ preview.__v < forms'[id].__v
  <2>1. forms[id] \in Form /\ forms'[id] \in Form
    <3>1. HandlerInv'
      BY <1>1, HandlerStep
    <3>. QED  BY <1>1, <1>6, <1>7, <3>1 DEF HandlerInv, TypeOK
  <2>2. preview.__v \in Nat /\ forms[id].__v \in Nat /\ forms'[id].__v \in Nat
    BY <2>1, FormTyped
  <2>3. forms[id].__v <= forms'[id].__v
    BY <1>7 DEF Since
  <2>. QED  BY <1>7, <2>2, <2>3
<1>9. ASSUME \/ stage'[q] = "saving" /\ ~Validates(copy'[q])
             \/ reply'[q] = "UNPROCESSABLE_ENTITY"
      PROVE  id \in overwritten' \/ preview.__v < forms'[id].__v
  <2>1. CASE q # r
    <3>1. stage'[q] = stage[q] /\ copy'[q] = copy[q] /\ reply'[q] = reply[q]
      BY <1>1, <2>1, OthersUndisturbed
    <3>. QED  BY <1>6, <1>8, <1>9, <3>1
  <2>2. CASE q = r /\ reply'[r] = "UNPROCESSABLE_ENTITY"
    <3>1. stage[r] = "saving" /\ ~Validates(copy[r])
      BY <1>1, <2>2, AnswerTells
    <3>. QED  BY <1>6, <1>8, <2>2, <3>1
  <2>3. CASE q = r /\ stage'[r] = "saving" /\ ~Validates(copy'[r])
    <3>1. Duplicate(r)
      <4>1. ~ReadForUpdate(r) /\ ~ReadForDelete(r) /\ ~Create(r)
        BY <1>3, <1>6, <2>3 DEF ReadForUpdate, ReadForDelete, Create
      <4>2. ~ReadForDuplicate(r)
        BY <1>1, <2>3 DEF ReadForDuplicate, HandlerInv, TypeOK
      <4>3. ~\E status : Ending(r, status)
        BY <1>1, <2>3, HandlerEnds
      <4>. QED  BY <4>1, <4>2, <4>3, HandleCases
    <3>2. /\ forms[id] \in Form
          /\ call.user \in Users /\ call.responseMode \in {"email", "encrypt"}
          /\ UNCHANGED <<forms, overwritten>>
          /\ copy'[r] = Duplicated(forms[id], call.user, call.responseMode)
      <4>1. IsCall(call)
        BY <1>1, <1>3, <2>3, <3>1, Reading DEF Duplicate
      <4>2. copy' = [copy EXCEPT ![r] = Duplicated(forms[id], call.user,
                                                   call.responseMode)]
        BY <1>3, <1>5, <2>3, <3>1 DEF Duplicate, Target
      <4>3. copy'[r] = Duplicated(forms[id], call.user, call.responseMode)
        BY <1>1, <4>2 DEF HandlerInv, TypeOK
      <4>. QED  BY <1>1, <1>6, <3>1, <4>1, <4>3
                DEF Duplicate, IsCall, HandlerInv, TypeOK
    <3>3. SUFFICES ASSUME id \notin overwritten,
                          ~(preview.__v < forms[id].__v)
                   PROVE  FALSE
      BY <3>2
    <3>4. Validates(forms[id])
      BY <1>6, <3>3 DEF EditInv, FormInOrder
    <3>5. forms[id].lists = preview.lists
      <4>1. preview.__v \in Nat /\ forms[id].__v \in Nat
        BY <3>2, FormTyped
      <4>2. preview.__v = forms[id].__v
        BY <1>6, <3>3, <4>1 DEF Since
      <4>. QED  BY <1>6, <4>2 DEF Since
    <3>6. Validates(copy'[r])
      BY <1>6, <3>2, <3>4, <3>5, DuplicateValidates
    <3>. QED  BY <2>3, <3>6
  <2>. QED  BY <1>9, <2>1, <2>2, <2>3
<1>. QED  BY <1>2, <1>4, <1>5, <1>6, <1>7, <1>9 DEF PreviewKept

LEMMA HandledInStep ==
  ASSUME WorkspaceInv, ListInStep, NEW r \in Requests, Handle(r),
         UNCHANGED pageVars, lapses = {}
  PROVE  ListInStep'
<1>1. /\ HandlerInv /\ RequestsKept /\ OneAfterTheOther
      /\ UNCHANGED <<place, myforms, titles, deleteModal, previewing,
                     createModal, asked, request>>
      /\ NothingAsked' = NothingAsked
  BY AnswerTells DEF WorkspaceInv, EditInv, ListInStep, pageVars, modalVars,
                     NothingAsked
<1>2. /\ stage[r] \notin {"unsent", "done"} /\ reply[r] = "none"
      /\ \/ UNCHANGED <<forms, overwritten>>
         \/ Save(r)
         \/ stage'[r] = "done" /\ reply'[r] \in Failures
      /\ reply'[r] = "OK" => Save(r)
  BY <1>1, AnswerTells
<1>3. /\ asked[r] # None /\ ~NothingAsked
      /\ \A q \in Requests \ {r} : asked[q] = None
  BY <1>1, <1>2 DEF OneAfterTheOther, NothingAsked
<1>4. AskedFor(r)
  BY <1>1, <1>3 DEF RequestsKept
<1>5. OneAfterTheOther'
  <2>1. \A q \in Requests \ {r} : stage'[q] = stage[q]
    BY <1>1, OthersUndisturbed
  <2>2. stage'[r] = "saving" /\ seen'[r] # None =>
           seen'[r] = forms'[request[r].id]
    <3>1. CASE ReadForUpdate(r) \/ ReadForDelete(r)
      <4>1. seen'[r] = Target(r) /\ UNCHANGED forms
        BY <1>1, <3>1, HandlerReads DEF ReadForUpdate, ReadForDelete
      <4>. QED  BY <4>1 DEF Target
    <3>2. CASE ~(ReadForUpdate(r) \/ ReadForDelete(r))
      <4>1. seen'[r] = None
        BY <1>1, <3>2, HandleCases, HandlerFounds, HandlerEnds
      <4>. QED  BY <4>1
    <3>. QED  BY <3>1, <3>2
  <2>. QED  BY <1>1, <1>3, <2>1, <2>2 DEF OneAfterTheOther
<1>6. ASSUME place = "list"
      PROVE  ListFollows'
  <2>1. ListFollows /\ reply[r] \notin Failures \cup {"OK"}
    BY <1>2, <1>6, EditingAssumption DEF ListInStep
  <2>2. request[r].method \in {"delete", "duplicate"} =>
           ListOf(owner) = ToSet(myforms)
    BY <1>3, <2>1 DEF ListFollows
  <2>3. ASSUME request[r].method = "delete"
        PROVE  /\ asked[r].formIndex \in DOMAIN myforms
               /\ myforms[asked[r].formIndex] = request[r].id
               /\ reply'[r] = "OK" =>
                     ListOf(owner)' = ToSet(myforms) \ {request[r].id}
    <3>1. /\ asked[r].formIndex \in DOMAIN myforms
          /\ myforms[asked[r].formIndex] = request[r].id
      BY <1>3, <2>1, <2>3 DEF ListFollows
    <3>2. ASSUME reply'[r] = "OK"
          PROVE  ListOf(owner)' = ToSet(myforms) \ {request[r].id}
      <4>1. Save(r) /\ stage[r] = "saving"
        BY <1>2, <3>2 DEF Save
      <4>2. seen[r] # None
        BY <1>1, <2>3, <4>1 DEF HandlerInv, Handling, NewFormMade
      <4>3. seen[r] = forms[request[r].id]
        BY <1>1, <1>3, <4>1, <4>2 DEF OneAfterTheOther
      <4>4. ListOf(owner)' = ListOf(owner) \ {request[r].id}
        BY <1>1, <1>4, <2>3, <4>1, <4>3, SaveListed DEF AskedFor
      <4>. QED  BY <2>2, <2>3, <4>4
    <3>. QED  BY <3>1, <3>2
  <2>4. ASSUME request[r].method = "duplicate", reply'[r] = "OK"
        PROVE  ListOf(owner)' = ToSet(myforms) \cup {r}
    <3>1. ListOf(owner)' = ListOf(owner) \cup {r}
      BY <1>1, <1>2, <1>4, <2>4, SaveListed DEF AskedFor
    <3>. QED  BY <2>2, <2>4, <3>1
  <2>5. ASSUME request[r].method \in {"delete", "duplicate"},
               reply'[r] \notin Failures \cup {"OK"}
        PROVE  ListOf(owner)' = ToSet(myforms)
    <3>1. ~Save(r)
      BY <1>1, <2>5 DEF Save, Answer, HandlerInv, TypeOK
    <3>2. UNCHANGED forms
      BY <1>2, <2>5, <3>1
    <3>3. ListOf(owner)' = ListOf(owner)
      BY <3>2 DEF ListOf, IsActive, CanRead
    <3>. QED  BY <2>2, <2>5, <3>3
  <2>6. ~NothingAsked'
    BY <1>1, <1>3
  <2>. QED  BY <1>1, <1>3, <2>3, <2>4, <2>5, <2>6 DEF ListFollows
<1>7. DeletesNamed'
  BY <1>1, <1>3 DEF ListInStep, DeletesNamed
<1>8. TitleIsNew'
  BY <1>1, <1>3 DEF ListInStep, TitleIsNew
<1>. QED  BY <1>1, <1>5, <1>6, <1>7, <1>8 DEF ListInStep

LEMMA HandledStep ==
  ASSUME WorkspaceInv, NEW r \in Requests, Handle(r), UNCHANGED pageVars
  PROVE  WorkspaceInv'
<1>1. /\ HandlerInv /\ WorkspaceTypes /\ RequestsKept /\ ListKept
      /\ ModalKept /\ EditInv
      /\ UNCHANGED <<place, myforms, titles, deleteModal, previewing,
                     createModal, asked, lapses, request>>
      /\ [EditNext]_vars
  BY AnswerTells DEF WorkspaceInv, EditInv, pageVars, modalVars, EditNext
<1>2. EditInv'
  BY <1>1, EditInvStep
<1>3. WorkspaceTypes'
  BY <1>1 DEF WorkspaceTypes
<1>4. RequestsKept'
  <2>. SUFFICES ASSUME NEW q \in Requests, asked[q] # None
                PROVE  AskedFor(q)' /\ PreviewKept(q)'
    BY <1>1 DEF RequestsKept
  <2>1. AskedFor(q) /\ PreviewKept(q) /\ asked[q] \in AskedRecord
    BY <1>1 DEF RequestsKept, WorkspaceTypes
  <2>2. stage'[q] # "unsent"
    <3>1. CASE q = r
      <4>1. HandlerInv' /\ request[r] # None
        BY <1>1, <2>1, <3>1, HandlerStep DEF HandlerInv, Handling, AskedFor
      <4>. QED  BY <1>1, <3>1, <4>1 DEF HandlerInv, Handling
    <3>2. CASE q # r
      BY <1>1, <2>1, <3>2, OthersUndisturbed DEF AskedFor
    <3>. QED  BY <3>1, <3>2
  <2>3. request[q].method = "duplicate" /\ reply'[q] = "OK" => forms'[q] # None
    <3>1. CASE q = r
      BY <1>1, <2>1, <3>1, AnswerTells, SaveListed DEF AskedFor
    <3>2. CASE q # r
      <4>1. reply'[q] = reply[q] /\ q \in FormIds
        BY <1>1, <3>2, OthersUndisturbed DEF FormIds
      <4>. QED  BY <1>1, <2>1, <4>1, FormsGrow DEF AskedFor
    <3>. QED  BY <3>1, <3>2
  <2>4. AskedFor(q)'
    BY <1>1, <2>1, <2>2, <2>3 DEF AskedFor
  <2>5. PreviewKept(q)'
    BY <1>1, <2>1, PreviewStays DEF AskedFor
  <2>. QED  BY <2>4, <2>5
<1>5. ListKept'
  <2>1. \A id \in ToSet(myforms) : id \in FormIds
    BY <1>1 DEF WorkspaceTypes, ToSet
  <2>. QED  BY <1>1, <2>1, FormsGrow DEF ListKept
<1>6. ModalKept'
  <2>. SUFFICES ASSUME createModal # None, createModal.preview # None
                PROVE  /\ forms'[createModal.id] # None
                       /\ Since(createModal.preview, forms'[createModal.id])
    BY <1>1 DEF ModalKept
  <2>1. createModal.id \in FormIds /\ createModal.preview \in Form
    BY <1>1 DEF WorkspaceTypes, ModalShape
  <2>. QED  BY <1>1, <2>1, FormsGrow DEF ModalKept
<1>7. lapses' = {} => ListInStep'
  BY <1>1, HandledInStep DEF WorkspaceInv
<1>. QED  BY <1>2, <1>3, <1>4, <1>5, <1>6, <1>7 DEF WorkspaceInv

LEMMA WorkspaceInvStep ==
  ASSUME WorkspaceInv, PageNext
  PROVE  WorkspaceInv'
BY PageSteps, AtPageStep, DeletionSent, CreationSent, SentElsewhere, HandledStep

LEMMA WorkspaceInvInit ==
  ASSUME Init, PageInit
  PROVE  WorkspaceInv
<1>1. EditInv
  BY EditInvInit
<1>2. \A r \in Requests : asked[r] = None /\ stage[r] = "unsent"
  BY DEF Init, PageInit
<1>3. place = "loading" /\ deleteModal = None /\ createModal = None
      /\ previewing = None /\ myforms = <<>>
  BY DEF PageInit
<1>4. WorkspaceTypes
  <2>1. myforms \in Seq(FormIds) /\ IsInjective(myforms)
    BY <1>3 DEF IsInjective
  <2>2. asked \in [Requests -> AskedRecord \cup {None}]
    BY DEF PageInit
  <2>3. ASSUME NEW id \in FormIds
        PROVE  IsTitle(titles[id])
    <3>1. titles[id] = [name |-> id, copies |-> <<>>]
      BY DEF PageInit
    <3>2. PICK t : t = titles[id]
      OBVIOUS
    <3>3. t.name = id /\ t.copies = <<>> /\ t = [name |-> id, copies |-> <<>>]
      BY <3>1, <3>2
    <3>4. t.copies \in Seq(Nat)
      BY <3>3
    <3>. QED  BY <3>2, <3>3, <3>4 DEF IsTitle
  <2>4. titles = [id \in FormIds |-> titles[id]]
    BY DEF PageInit
  <2>. QED  BY <1>3, <2>1, <2>2, <2>3, <2>4 DEF WorkspaceTypes, Places
<1>5. RequestsKept
  BY <1>2 DEF RequestsKept
<1>6. ListKept /\ ModalKept
  BY <1>3 DEF ListKept, ModalKept, ToSet
<1>7. ListInStep
  BY <1>2, <1>3 DEF ListInStep, OneAfterTheOther, DeletesNamed, TitleIsNew
<1>. QED  BY <1>1, <1>4, <1>5, <1>6, <1>7 DEF WorkspaceInv

(* On the pages that are not the list's, it has not been opened.           *)
NotOpened ==
    /\ page = "requests"
    /\ EditInv /\ PageInit

LEMMA NotOpenedShows ==
  ASSUME NotOpened
  PROVE  WorkspaceInOrder
BY DEF NotOpened, PageInit, WorkspaceInOrder, ListIsCurrent, TitlesDiffer,
       NamedIsDeleted, RefusedOnlyIfChanged

LEMMA SiteWorkspaceStep ==
  ASSUME NotOpened \/ (page # "requests" /\ WorkspaceInv), [SiteNext]_siteVars
  PROVE  (NotOpened \/ (page # "requests" /\ WorkspaceInv))'
<1>1. CASE UNCHANGED workspaceVars /\ UNCHANGED page
  <2>1. UNCHANGED vars /\ UNCHANGED pageVars
    BY <1>1 DEF workspaceVars
  <2>2. UNCHANGED <<place, myforms, titles, deleteModal, previewing,
                    createModal, asked, lapses>>
    BY <2>1 DEF pageVars, modalVars
  <2>3. UNCHANGED <<forms, request, stage, seen, copy, reply, overwritten>>
    BY <2>1 DEF vars, handlerVars
  <2>4. CASE NotOpened
    <3>1. EditInv'
      BY <2>1, <2>4, EditInvStep DEF NotOpened
    <3>2. PageInit'
      BY <2>2, <2>4 DEF NotOpened, PageInit
    <3>. QED  BY <1>1, <2>4, <3>1, <3>2 DEF NotOpened
  <2>5. CASE page # "requests" /\ WorkspaceInv
    <3>1. WorkspaceTypes'
      BY <2>2, <2>5 DEF WorkspaceInv, WorkspaceTypes
    <3>2. ModalKept'
      BY <2>2, <2>3, <2>5 DEF WorkspaceInv, ModalKept
    <3>3. ListInStep /\ lapses' = {} => DeletesNamed' /\ TitleIsNew'
      BY <2>2 DEF ListInStep, DeletesNamed, TitleIsNew, NothingAsked
    <3>4. WorkspaceInv'
      BY <2>1, <2>2, <2>5, <3>1, <3>2, <3>3, QuietStep
    <3>. QED  BY <1>1, <2>5, <3>4
  <2>. QED  BY <2>4, <2>5
<1>2. CASE /\ page = "requests"
           /\ UNCHANGED <<pageVars, exampleVars, billVars, feedbackVars, page>>
           /\ Next
  <2>1. NotOpened /\ UNCHANGED pageVars /\ page' = page
    BY <1>2
  <2>2. EditInv'
    <3>1. HandlerInv /\ [Next]_vars
      BY <1>2, <2>1 DEF NotOpened, EditInv
    <3>. QED  BY <2>1, <3>1, NextIsEditNext, EditInvStep DEF NotOpened
  <2>3. PageInit'
    BY <2>1 DEF NotOpened, PageInit, pageVars, modalVars
  <2>. QED  BY <1>2, <2>1, <2>2, <2>3 DEF NotOpened
<1>3. CASE /\ page = "forms" /\ PageNext
           /\ UNCHANGED <<exampleVars, billVars, feedbackVars, page>>
  <2>1. WorkspaceInv /\ page' = page
    BY <1>3 DEF NotOpened
  <2>. QED  BY <1>3, <2>1, WorkspaceInvStep
<1>4. CASE page \in {"examples", "bill", "feedback"} /\ SiteNext
  BY <1>1, <1>4 DEF SiteNext
<1>5. CASE UNCHANGED siteVars
  BY <1>1, <1>5 DEF siteVars
<1>. QED  BY <1>2, <1>3, <1>4, <1>5 DEF SiteNext

(* The page with the forms of an admin agrees with the server: its list is *)
(* the one in the database, a duplicate gets a title of its own, the form  *)
(* that is deleted is the one that was named, and what the modal offers is *)
(* not refused.                                                            *)
THEOREM WorkspaceAgrees == SiteSpec => []WorkspaceInOrder
<1>. DEFINE Inv == NotOpened \/ (page # "requests" /\ WorkspaceInv)
<1>1. SiteInit => Inv
  BY WorkspaceInvInit DEF SiteInit, NotOpened, WorkspaceInv
<1>2. Inv /\ [SiteNext]_siteVars => Inv'
  BY SiteWorkspaceStep
<1>3. Inv => WorkspaceInOrder
  BY NotOpenedShows, WorkspaceInvShows
<1>. QED  BY <1>1, <1>2, <1>3, PTL DEF SiteSpec
=============================================================================
