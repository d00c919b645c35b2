---------------------------- MODULE ResponseBrowsing ----------------------------
(***************************************************************************)
(* The tab in which an admin reads the responses of an encrypt form: one   *)
(* page of a table, the latest response first, and one response at a time  *)
(* (view-responses.client.controller.js); and the export of all of them,   *)
(* ResponseDownload.                                                       *)
(*                                                                         *)
(* The table is a page of what the database held when it was fetched       *)
(* (getMetadata), and a step to the neighbouring response goes by the row  *)
(* of the table: responses that are submitted meanwhile shift the rows of  *)
(* the pages that are fetched later.                                       *)
(***************************************************************************)
EXTENDS ResponseDownload

CONSTANT pageSize   \* 10

ASSUME BrowsingAssumption ==
    /\ pageSize \in Nat \ {0}
    /\ None \notin [refNo : Nat, number : Nat]
    /\ None \notin [index : Nat, number : Nat]
    /\ None \notin [page : Nat, row : Nat, by : {"next", "previous"}]

VARIABLES
    view,           \* 1: locked, 2: the table, 3: one response
    loading,
    onTab,          \* the Responses tab is shown, not the one of Feedback
    countAsked,     \* a count is under way, which ends loading
    responsesCount,
    page,           \* of the table
    table,          \* its rows: the numbers of responses
    turning,        \* the page that was asked for, and the row to open
    current,        \* index and number of the response that was asked for
    fetching,       \* the responses that were asked for, with their numbers
    shown,          \* decryptedResponse
    hasty           \* a count has ended loading before a response had come

tableVars == <<responsesCount, page, table>>
browseVars == <<view, loading, onTab, countAsked, tableVars, turning,
                current, fetching, shown, hasty>>
tabVars == <<vars, browseVars>>

TabInit ==
    /\ Init
    /\ view = 1
    /\ loading = TRUE
    /\ onTab = TRUE
    /\ countAsked = TRUE
    /\ responsesCount = 0
    /\ page = 1
    /\ table = <<>>
    /\ turning = None
    /\ current = None
    /\ fetching = {}
    /\ shown = None
    /\ hasty = FALSE

(* The watch of activeResultsTab.                                          *)
SwitchTab ==
    /\ onTab' = ~onTab
    /\ countAsked' = (countAsked \/ (~onTab /\ loading))
    /\ UNCHANGED <<vars, view, loading, tableVars, turning, current,
                   fetching, shown, hasty>>

ReceiveCount ==
    /\ countAsked
    /\ countAsked' = FALSE
    /\ responsesCount' = stored
    /\ loading' = FALSE
    /\ hasty' = (hasty \/ (loading /\ current # None))
    /\ UNCHANGED <<vars, view, onTab, page, table, turning, current,
                   fetching, shown>>

(* What can be clicked on: nothing while the page is loading.  Bound:      *)
(* nothing while a page is turned, even if a count has ended loading.      *)
Clickable(v) ==
    onTab /\ ~loading /\ responsesCount > 0 /\ view = v /\ turning = None

-----------------------------------------------------------------------------
(* getMetadata *)

NumberOf(count, p, row) == count - (p - 1) * pageSize - row + 1

(* The responses of page p are sorted by created, the latest first.  Each  *)
(* row has the response, by its place in the order of submission, and the  *)
(* number that it is given.                                                *)
PageOf(count, p) ==
    LET first == count - (p - 1) * pageSize
        length == IF first < pageSize THEN first ELSE pageSize
    IN  [row \in 1..length |->
            [refNo |-> first - row + 1, number |-> NumberOf(count, p, row)]]

FillTable(p) ==
    /\ page' = p
    /\ table' = PageOf(stored, p)
    /\ responsesCount' = stored

(* unlock, loadResponses                                                   *)
Unlock ==
    /\ Clickable(1)
    /\ view' = 2
    /\ FillTable(1)
    /\ UNCHANGED <<vars, loading, onTab, countAsked, turning, current,
                   fetching, shown, hasty>>

(* The pager of the table.                                                 *)
TurnTable ==
    /\ Clickable(2)
    /\ \E p \in 1..((responsesCount + pageSize - 1) \div pageSize) \ {page} :
          FillTable(p)
    /\ UNCHANGED <<vars, view, loading, onTab, countAsked, turning,
                   current, fetching, shown, hasty>>

-----------------------------------------------------------------------------
(* rowOnClick, updateResponseShown *)

Open(row, rows) ==
    /\ current' = [index |-> row, number |-> rows[row].number]
    /\ fetching' = fetching \cup {rows[row]}
    /\ loading' = TRUE
    /\ view' = 3

RowOnClick ==
    /\ Clickable(2)
    /\ \E row \in DOMAIN table : Open(row, table)
    /\ UNCHANGED <<vars, onTab, countAsked, tableVars, turning, shown, hasty>>

BackToList ==
    /\ Clickable(3)
    /\ view' = 2
    /\ UNCHANGED <<vars, loading, onTab, countAsked, tableVars, turning,
                   current, fetching, shown, hasty>>

IsLastRow(row) == row >= Len(table)

NextRespondent ==
    /\ Clickable(3)
    /\ current.number > 1
    /\ IF IsLastRow(current.index)
       THEN /\ turning' = [page |-> page + 1, row |-> 1, by |-> "next"]
            /\ loading' = TRUE
            /\ UNCHANGED <<view, fetching, current>>
       ELSE /\ Open(current.index + 1, table)
            /\ UNCHANGED turning
    /\ UNCHANGED <<vars, onTab, countAsked, tableVars, shown, hasty>>

(* Mutant: a page that is turned back is opened at its top.                *)
LastRow_First == 1

LastRow == pageSize

PreviousRespondent ==
    /\ Clickable(3)
    /\ current.number < responsesCount
    /\ IF current.index = 1
       THEN /\ turning' = [page |-> page - 1, row |-> LastRow,
                           by |-> "previous"]
            /\ loading' = TRUE
            /\ UNCHANGED <<view, fetching, current>>
       ELSE /\ Open(current.index - 1, table)
            /\ UNCHANGED turning
    /\ UNCHANGED <<vars, onTab, countAsked, tableVars, shown, hasty>>

(* The page has come, and its row is opened.  Page 0 never comes: it is    *)
(* asked for if a count has told of newer responses than the table has.    *)
ReloadTable ==
    /\ turning # None
    /\ turning.page > 0
    /\ FillTable(turning.page)
    /\ Open(turning.row, table')
    /\ turning' = None
    /\ UNCHANGED <<vars, onTab, countAsked, shown, hasty>>

ReceiveResponse ==
    /\ \E response \in fetching :
          /\ shown' = response
          /\ fetching' = fetching \ {response}
    /\ loading' = FALSE
    /\ UNCHANGED <<vars, view, onTab, countAsked, tableVars, turning,
                   current, hasty>>

(* Nothing catches the error: the page goes on loading.                    *)
LoseResponse ==
    /\ \E response \in fetching : fetching' = fetching \ {response}
    /\ UNCHANGED <<vars, view, loading, onTab, countAsked, tableVars, turning,
                   current, shown, hasty>>

-----------------------------------------------------------------------------
(* Bound: the responses are read or they are exported, as soon as the      *)
(* table shows; the two have nothing in common but the database.           *)
Reads(A) == status = "idle" /\ A
Exports(A) ==
    /\ status = "idle" => Clickable(2) /\ current = None /\ page = 1
    /\ A
    /\ UNCHANGED browseVars

TabNext ==
    \/ Reads(SwitchTab)
    \/ Reads(ReceiveCount)
    \/ Reads(Unlock)
    \/ Reads(TurnTable)
    \/ Reads(RowOnClick)
    \/ Reads(BackToList)
    \/ Reads(NextRespondent)
    \/ Reads(PreviousRespondent)
    \/ Reads(ReloadTable)
    \/ Reads(ReceiveResponse)
    \/ Reads(LoseResponse)
    \/ Submit /\ UNCHANGED browseVars
    \/ Exports(ExportCsv)
    \/ Exports(Count)
    \/ Exports(CountFails)
    \/ Exports(OpenStream)
    \/ Exports(RefuseStream)
    \/ Exports(SendRecord)
    \/ Exports(EndStream)
    \/ Exports(EndStreamEarly)
    \/ Exports(BreakConnection)
    \/ Exports(ReceiveChunk)
    \/ Exports(ReceiveEnd)
    \/ Exports(ReadLine)
    \/ Exports(ReadEnd)
    \/ \E w \in Workers : Exports(WorkerAnswers(w))
    \/ Exports(RejectDownload)
    \/ Exports(DownloadCsv)

TabSpec == TabInit /\ [][TabNext]_tabVars

FairTabSpec == TabSpec /\ Fairness

-----------------------------------------------------------------------------
(* Properties *)

(* The table, the response that was asked for and the one that is shown    *)
(* all have the number that the place of the response among all of them    *)
(* gives it, and a row that is opened exists.                              *)
NumbersAreRanks ==
    /\ view \in 1..3
    /\ \A row \in DOMAIN table :
          table[row].refNo \in 1..stored /\ table[row].refNo = table[row].number
    /\ shown # None => shown.refNo = shown.number
    /\ current # None => current.number \in 1..responsesCount

(* The response that is shown is the one that was asked for last, unless   *)
(* the admin went to the Feedback tab and back while it was loading.       *)
ShownWasAskedFor ==
    (view = 3 /\ ~loading /\ ~hasty)
        => shown # None /\ shown.number = current.number

(* What the admin is shown is what the number beside it says.              *)
ShownAsNumbered == NumbersAreRanks /\ ShownWasAskedFor

(* Stepping from response to response misses none: a step back in time     *)
(* goes to the response before, or, if others were submitted since, not    *)
(* beyond it; a step forward goes to the next one, unless others were.     *)
IsStep(by) ==
    \/ by = "next" /\ NextRespondent /\ current' # current
    \/ by = "previous" /\ PreviousRespondent /\ current' # current
    \/ turning # None /\ turning.by = by /\ ReloadTable

TableIsUpToDate == table = PageOf(stored, page)

StepsToNeighbour ==
    [][/\ IsStep("next") =>
             /\ current'.number >= current.number - 1
             /\ TableIsUpToDate => current'.number = current.number - 1
       /\ (IsStep("previous") /\ TableIsUpToDate)
             => current'.number = current.number + 1]_tabVars

(* Reading the responses one by one, the admin reads what is numbered so,  *)
(* and all of them.                                                        *)
BrowsedInOrder == []ShownAsNumbered /\ StepsToNeighbour
=============================================================================
