----------------------------- MODULE ExampleForms -----------------------------
(***************************************************************************)
(* The examples page, on which an admin browses the public forms of all    *)
(* agencies (examples-list.client.controller.js), and the aggregations     *)
(* that it is served from (admin-console.server.controller.js).            *)
(*                                                                         *)
(* The result of an aggregation is ranked and cut into pages, and each     *)
(* page is the work of a query of its own.  Queries read from a secondary  *)
(* of the database, which may be behind the primary and the other ones: a  *)
(* search is put together from answers that were computed at different     *)
(* times and out of different data, and that may overtake each other.  The *)
(* variables ranked and mishaps tell what happened since it began.         *)
(***************************************************************************)
EXTENDS Naturals, SequencesExt, FiniteSetsExt

CONSTANTS
    Examples,       \* the forms that may be listed
    agencyOf,       \* the agency of the admin of each form
    ownAgency,      \* that of the admin who browses
    SearchTerms,
    textScore,      \* how well a form matches a term, 0 if it does not
    PAGE_SIZE,
    MIN_SUB_COUNT,
    Today,          \* in days; no submission is younger
    InitialSubmissions,
    Secondaries,    \* the members that are not the primary
    MaxQueries,     \* bound: HTTP requests of the page under way at once
    MaxSubmissions, \* bound: how many submissions there are in the end
    Null

ASSUME ExamplesAssumption ==
    /\ agencyOf \in [Examples -> {agencyOf[f] : f \in Examples}]
    /\ textScore \in [SearchTerms -> [Examples -> Nat]]
    /\ Null # ownAgency
    /\ PAGE_SIZE \in Nat \ {0}
    /\ MIN_SUB_COUNT \in Nat
    /\ Today \in Nat
    /\ InitialSubmissions \in Seq([form : Examples, created : Nat])

VARIABLES
    listed,         \* the forms that are public and isListed
    submissions,    \* each with its form, and the day on which it was created
    statistics,     \* the collection formStatisticsTotal
    secondaries,    \* what each of them has of the three above
    aggregateStats, \* the feature is enabled: statistics are used
    searchParams,   \* of the page: pageNo, filterByAgency, searchTerm
    uiState,        \* forms, searchInput, loadingState, totalNumResults,
                    \* numResultsLoadedSoFar
    queries,        \* the requests under way, in the order of asking
    templateForm,   \* the form of the card that is open, Null if none is
    ranked,         \* history: the rankings that pages were cut from
    mishaps         \* history: an answer to an earlier search, or none

primaryVars == <<listed, submissions, statistics>>
serverVars == <<primaryVars, secondaries, aggregateStats>>
historyVars == <<ranked, mishaps>>
browseVars == <<searchParams, uiState, queries, templateForm, historyVars>>
exampleVars == <<serverVars, browseVars>>

-----------------------------------------------------------------------------
(* The steps of the aggregations, on documents with the fields _id, count  *)
(* and lastSubmission                                                      *)

Primary == [listed |-> listed, submissions |-> submissions,
            statistics |-> statistics]

SubmissionsTo(subs, form) == {i \in DOMAIN subs : subs[i].form = form}

(* $last of submissions that were not sorted: the one stored last.         *)
GroupSubmissionsByFormId(subs) ==
    {[_id |-> form, count |-> Cardinality(SubmissionsTo(subs, form)),
      lastSubmission |-> subs[Max(SubmissionsTo(subs, form))].created] :
        form \in {subs[i].form : i \in DOMAIN subs}}

ProjectSubmissionInfo(totals) ==
    {[_id |-> total.formId, count |-> total.totalCount,
      lastSubmission |-> total.lastSubmission] : total \in totals}

SubmissionInfo(store) ==
    IF aggregateStats THEN ProjectSubmissionInfo(store.statistics)
                      ELSE GroupSubmissionsByFormId(store.submissions)

(* In a search these are looked up for the forms that were found.  A form  *)
(* without them is gone ($unwind).  Here the submissions are sorted by the *)
(* time of their creation before the last is taken.                        *)
LookupSubmissionInfo(store, docs) ==
    LET subs == store.submissions
    IN  {[_id |-> doc._id,
          count |-> Cardinality(SubmissionsTo(subs, doc._id)),
          lastSubmission |->
              Max({subs[i].created : i \in SubmissionsTo(subs, doc._id)})] :
            doc \in {d \in docs : SubmissionsTo(subs, d._id) # {}}}

LookupFormStatisticsInfo(store, docs) ==
    {info \in ProjectSubmissionInfo(store.statistics) :
        \E doc \in docs : doc._id = info._id}

FilterBySubmissionCount(docs) == {doc \in docs : doc.count > MIN_SUB_COUNT}

FilterInactiveAndUnlistedForms(store, docs) ==
    {doc \in docs : doc._id \in store.listed}

(* No agency asks for no filter.                                           *)
FilterByAgency(agency, docs) ==
    {doc \in docs : agency \in {Null, agencyOf[doc._id]}}

SearchFormsForText(term) ==
    {[_id |-> form] : form \in {f \in Examples : textScore[term][f] > 0}}

(* $sort by what key tells of each form; it leaves the order of equals     *)
(* open.                                                                   *)
Rankings(key) ==
    {ranking \in [1..Cardinality(DOMAIN key) -> DOMAIN key] :
        /\ \A i \in DOMAIN ranking \ {1} :
              key[ranking[i - 1]] >= key[ranking[i]]
        /\ \A doc \in DOMAIN key : \E i \in DOMAIN ranking : ranking[i] = doc}

(* createGeneralQuery: sortByLastSubmitted                                 *)
GeneralQuery(store, agency) ==
    LET found == FilterByAgency(agency,
                     FilterInactiveAndUnlistedForms(store,
                         FilterBySubmissionCount(SubmissionInfo(store))))
    IN  Rankings([doc \in found |-> doc.lastSubmission])

(* createSearchQuery: sortByRelevance                                      *)
SearchQuery(store, agency, term) ==
    LET found == FilterByAgency(agency,
                     FilterInactiveAndUnlistedForms(store,
                         SearchFormsForText(term)))
        info == IF aggregateStats THEN LookupFormStatisticsInfo(store, found)
                                  ELSE LookupSubmissionInfo(store, found)
    IN  Rankings([doc \in FilterBySubmissionCount(info) |->
                     textScore[term][doc._id]])

Results(store, params) ==
    IF params.searchTerm = Null
    THEN GeneralQuery(store, params.agency)
    ELSE SearchQuery(store, params.agency, params.searchTerm)

(* parseTime: whole days, of which the first two read alike.               *)
TimeText(day) ==
    CASE Today - day <= 1 -> "less than 1 day ago"
      [] Today - day \in 2..29 -> "days ago"
      [] OTHER -> "date"

(* selectAndProjectCardInfo *)
CardInfo(doc) == [_id |-> doc._id, count |-> doc.count,
                  timeText |-> TimeText(doc.lastSubmission)]

(* Mutant: pages are counted from one.                                     *)
PageResults_FromOne(ranking, pageNo) ==
    LET offset == (pageNo - 1) * PAGE_SIZE
    IN  [i \in {j \in 1..PAGE_SIZE : offset + j \in DOMAIN ranking} |->
            CardInfo(ranking[offset + i])]

PageResults(ranking, pageNo) ==
    LET offset == pageNo * PAGE_SIZE
    IN  [i \in {j \in 1..PAGE_SIZE : offset + j \in DOMAIN ranking} |->
            CardInfo(ranking[offset + i])]

(* getExampleFormsUsing *)
ExampleFormsAnswer(params, ranking) ==
    [forms |-> PageResults(ranking, params.pageNo),
     totalNumResults |-> IF params.shouldGetTotalNumResults
                         THEN Len(ranking) ELSE Null]

(* searchSubmissionsForForm: the parameter is not in brackets, so that it  *)
(* is a field named "key" that is compared, and no document has one.       *)
SearchSubmissionsForForm(form, docs) ==
    {doc \in docs : "key" \in DOMAIN doc /\ doc["key"] = form}

(* getSingleExampleFormUsing: the form is read from the primary and its    *)
(* statistics from a secondary; Null is no such form.                      *)
SingleExampleForm(store, form) ==
    LET details == SearchSubmissionsForForm(form, SubmissionInfo(store))
    IN  CASE form \notin listed -> Null
          [] form \in listed /\ details = {} ->
                [_id |-> form, count |-> 0, timeText |-> "-"]
          [] OTHER -> CardInfo(CHOOSE doc \in details : TRUE)

-----------------------------------------------------------------------------
(* Other people, who write to the primary                                  *)

(* New forms come to be listed by their first submissions.                 *)
SubmitExample(form) ==
    /\ Len(submissions) < MaxSubmissions
    /\ form \in listed
    /\ submissions' = Append(submissions, [form |-> form, created |-> Today])
    /\ UNCHANGED <<listed, statistics, secondaries, aggregateStats,
                   browseVars>>

(* The collection is written by a job outside this program.                *)
AggregateStatistics ==
    LET totals == {[formId |-> doc._id, totalCount |-> doc.count,
                    lastSubmission |-> doc.lastSubmission] :
                        doc \in GroupSubmissionsByFormId(submissions)}
    IN  /\ totals # statistics
        /\ statistics' = totals
        /\ UNCHANGED <<listed, submissions, secondaries, aggregateStats,
                       browseVars>>

Unlist(form) ==
    /\ form \in listed
    /\ listed' = listed \ {form}
    /\ UNCHANGED <<submissions, statistics, secondaries, aggregateStats,
                   browseVars>>

(* A secondary has applied all that was written.  One that has applied     *)
(* some of it did so before the rest was written: nothing tells the        *)
(* difference.                                                             *)
Replicate(member) ==
    /\ secondaries[member] # Primary
    /\ secondaries' = [secondaries EXCEPT ![member] = Primary]
    /\ UNCHANGED <<primaryVars, aggregateStats, browseVars>>

-----------------------------------------------------------------------------
(* The page *)

NoForms == [forms |-> <<>>, searchInput |-> Null, loadingState |-> "free",
            totalNumResults |-> 0, numResultsLoadedSoFar |-> 0]

ExamplesInit ==
    /\ listed = Examples
    /\ submissions = InitialSubmissions
    /\ statistics = {[formId |-> doc._id, totalCount |-> doc.count,
                      lastSubmission |-> doc.lastSubmission] :
                         doc \in GroupSubmissionsByFormId(submissions)}
    /\ secondaries = [member \in Secondaries |-> Primary]
    /\ aggregateStats \in BOOLEAN
    /\ searchParams = [pageNo |-> 0, filterByAgency |-> FALSE,
                       searchTerm |-> Null]
    /\ uiState = NoForms
    /\ queries = <<>>
    /\ templateForm = Null
    /\ ranked = {} /\ mishaps = {}

(* loadNextPage, once it is free to.  That a query is of an earlier search *)
(* (outdated) is history, which the page does not know.                    *)
AskForPage(pending, params) ==
    /\ Len(pending) < MaxQueries
    /\ queries' = Append(pending,
           [agency |-> IF params.filterByAgency THEN ownAgency ELSE Null,
            pageNo |-> params.pageNo,
            searchTerm |-> params.searchTerm,
            shouldGetTotalNumResults |->
                params.pageNo = 0 /\ params.searchTerm # Null,
            outdated |-> FALSE,
            answer |-> Null])

(* The list is scrolled to its end, or has been empty so far.              *)
LoadNextPage ==
    /\ uiState.loadingState = "free"
    /\ AskForPage(queries, searchParams)
    /\ uiState' = [uiState EXCEPT !.loadingState = "busy"]
    /\ UNCHANGED <<serverVars, searchParams, templateForm, historyVars>>

(* Bound: not while a page is under way, with which it has nothing to do.  *)
EnterSearch(term) ==
    /\ templateForm = Null
    /\ queries = <<>>
    /\ uiState.searchInput # term
    /\ uiState' = [uiState EXCEPT !.searchInput = term]
    /\ UNCHANGED <<serverVars, searchParams, queries, templateForm,
                   historyVars>>

(* updateSelection: it does not wait for a page that is under way, and     *)
(* does not tell its answer apart from that to the new search.             *)
UpdateSelection(filterByAgency, searchTerm, searchInput) ==
    LET params == [pageNo |-> 0, filterByAgency |-> filterByAgency,
                   searchTerm |-> searchTerm]
        pending == [q \in DOMAIN queries |->
                       [queries[q] EXCEPT !.outdated = TRUE]]
    IN  /\ templateForm = Null
        /\ searchParams' = params
        /\ uiState' = [uiState EXCEPT !.forms = <<>>,
                                      !.numResultsLoadedSoFar = 0,
                                      !.searchInput = searchInput,
                                      !.loadingState = "busy"]
        /\ AskForPage(pending, params)
        /\ ranked' = {} /\ mishaps' = {}
        /\ UNCHANGED <<serverVars, templateForm>>

FilterSelection(filterByAgency) ==
    UpdateSelection(filterByAgency, searchParams.searchTerm,
                    uiState.searchInput)

SearchForms ==
    UpdateSelection(searchParams.filterByAgency, uiState.searchInput,
                    uiState.searchInput)

ResetSearch ==
    /\ searchParams.searchTerm # Null
    /\ UpdateSelection(FALSE, Null, Null)

(* read('secondary'): any of them may answer.                              *)
Serve(q) ==
    /\ queries[q].answer = Null
    /\ \E member \in Secondaries :
       \E ranking \in Results(secondaries[member], queries[q]) :
          /\ queries' = [queries EXCEPT ![q].answer =
                            ExampleFormsAnswer(queries[q], ranking)]
          /\ ranked' = IF queries[q].outdated THEN ranked
                       ELSE ranked \cup {ranking}
    /\ UNCHANGED <<serverVars, searchParams, uiState, templateForm, mishaps>>

(* A page that is not full is the last.                                    *)
ReceivePage(q) ==
    /\ queries[q].answer # Null
    /\ LET forms == queries[q].answer.forms
           isLast == Len(forms) < PAGE_SIZE
       IN  /\ uiState' = [uiState EXCEPT
                  !.forms = @ \o forms,
                  !.numResultsLoadedSoFar = @ + Len(forms),
                  !.totalNumResults =
                      IF queries[q].shouldGetTotalNumResults
                      THEN queries[q].answer.totalNumResults ELSE @,
                  !.loadingState = IF isLast THEN "complete" ELSE "free"]
           /\ searchParams' = IF isLast THEN searchParams
                              ELSE [searchParams EXCEPT !.pageNo = @ + 1]
    /\ queries' = RemoveAt(queries, q)
    /\ mishaps' = IF queries[q].outdated THEN mishaps \cup {"overlap"}
                  ELSE mishaps
    /\ UNCHANGED <<serverVars, templateForm, ranked>>

(* The forms stay on the page, of which it says that there are none.       *)
ReceiveNoPage(q) ==
    /\ uiState' = [uiState EXCEPT !.loadingState = "complete",
                                  !.totalNumResults = 0,
                                  !.numResultsLoadedSoFar = 0]
    /\ queries' = RemoveAt(queries, q)
    /\ mishaps' = mishaps \cup {"failure"}
    /\ UNCHANGED <<serverVars, searchParams, templateForm, ranked>>

(* openTemplateModal of a card on the page; the same bound.                *)
OpenTemplateModal(i) ==
    /\ templateForm = Null
    /\ queries = <<>>
    /\ i \in DOMAIN uiState.forms
    /\ templateForm' = [card |-> uiState.forms[i], autoOpenModal |-> FALSE]
    /\ UNCHANGED <<serverVars, searchParams, uiState, queries, historyVars>>

(* The admin follows a link to /use-template: a new page with the card of  *)
(* one form, which opens by itself.                                        *)
FollowTemplateLink(form) ==
    /\ templateForm = Null
    /\ queries = <<>>
    /\ \E member \in Secondaries :
          LET card == SingleExampleForm(secondaries[member], form)
          IN  /\ card # Null
              /\ templateForm' = [card |-> card, autoOpenModal |-> TRUE]
    /\ searchParams' = [pageNo |-> 0, filterByAgency |-> FALSE,
                        searchTerm |-> Null]
    /\ uiState' = NoForms
    /\ ranked' = {} /\ mishaps' = {}
    /\ UNCHANGED <<serverVars, queries>>

(* Such a page is left for a new one.                                      *)
CloseTemplateModal ==
    /\ templateForm # Null
    /\ templateForm' = Null
    /\ IF templateForm.autoOpenModal
       THEN /\ searchParams' = [pageNo |-> 0, filterByAgency |-> FALSE,
                                searchTerm |-> Null]
            /\ uiState' = NoForms
            /\ queries' = <<>>
            /\ ranked' = {} /\ mishaps' = {}
       ELSE UNCHANGED <<searchParams, uiState, queries, historyVars>>
    /\ UNCHANGED serverVars

ExamplesNext ==
    \/ \E form \in Examples : SubmitExample(form) \/ Unlist(form)
    \/ AggregateStatistics
    \/ \E member \in Secondaries : Replicate(member)
    \/ LoadNextPage
    \/ \E term \in SearchTerms \cup {Null} : EnterSearch(term)
    \/ \E b \in BOOLEAN : FilterSelection(b)
    \/ SearchForms
    \/ ResetSearch
    \/ \E q \in DOMAIN queries : Serve(q) \/ ReceivePage(q) \/ ReceiveNoPage(q)
    \/ \E i \in DOMAIN uiState.forms : OpenTemplateModal(i)
    \/ \E form \in Examples : FollowTemplateLink(form)
    \/ CloseTemplateModal

-----------------------------------------------------------------------------
(* Properties *)

(* The page and the requests have the shape that the code gives them.      *)
ExamplesTypeOK ==
    /\ listed \subseteq Examples
    /\ searchParams \in [pageNo : Nat, filterByAgency : BOOLEAN,
                         searchTerm : SearchTerms \cup {Null}]
    /\ uiState.loadingState \in {"free", "busy", "complete"}
    /\ \A i \in DOMAIN uiState.forms : uiState.forms[i]._id \in Examples
    /\ \A member \in Secondaries :
          secondaries[member].listed \subseteq Examples
    /\ mishaps \subseteq {"overlap", "failure"}

(* The forms that the admin asks for.                                      *)
Selected(form) ==
    /\ searchParams.filterByAgency => agencyOf[form] = ownAgency
    /\ searchParams.searchTerm # Null =>
           textScore[searchParams.searchTerm][form] > 0

(* Each card is of a form that the admin asks for, and at the place that a *)
(* ranking read by this search has for it; the page says that there are no *)
(* more cards only if such a ranking has no more; it asks next for what    *)
(* follows; and the number of results is that of a ranking.  So if the     *)
(* search read one ranking only, then the admin has seen its best forms,   *)
(* each once; while forms change, ties are broken anew, or another         *)
(* secondary answers, a form can be seen twice or not at all, but never    *)
(* out of these places.  This holds unless the answer to an earlier search *)
(* came, or an error.                                                      *)
ShownAsRanked ==
    LET shown == uiState.forms
    IN  mishaps = {} =>
            /\ \A i \in DOMAIN shown :
                  /\ Selected(shown[i]._id)
                  /\ \E ranking \in ranked :
                        i <= Len(ranking) /\ shown[i] = CardInfo(ranking[i])
            /\ uiState.numResultsLoadedSoFar = Len(shown)
            /\ IF uiState.loadingState = "complete"
               THEN \E ranking \in ranked : Len(shown) >= Len(ranking)
               ELSE Len(shown) = searchParams.pageNo * PAGE_SIZE
            /\ shown # <<>> /\ searchParams.searchTerm # Null =>
                  \E ranking \in ranked :
                      uiState.totalNumResults = Len(ranking)
=============================================================================
