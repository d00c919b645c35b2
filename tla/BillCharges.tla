------------------------------ MODULE BillCharges ------------------------------
(***************************************************************************)
(* The billing page (billing.client.controller.js): how often respondents  *)
(* logged in with an e-service id in a month, as getLoginStats in          *)
(* admin-console.server.controller.js counts it.                           *)
(*                                                                         *)
(* The page offers nine months, works on one month and one e-service id at *)
(* a time, and exports what its table holds.  A month may be chosen while  *)
(* the answer for another is under way, and an answer is put in the table  *)
(* a second after it came.                                                 *)
(***************************************************************************)
EXTENDS Integers, SequencesExt

CONSTANTS
    EsrvcIds,
    BilledForms,    \* forms that respondents log in to
    Dates,          \* what today may be: year, month from 0, day
    InitialLogins,
    Chosen,         \* bound: the periods that are chosen, by their place
    MaxBillCalls,   \* bound: requests of the page under way at once
    MaxLogins,      \* bound: how many logins there are in the end
    Missing

ASSUME BillAssumption ==
    /\ Missing \notin EsrvcIds
    /\ Chosen \subseteq 0..8
    /\ \A date \in Dates :
          date.year \in Nat /\ date.month \in 0..11 /\ date.day \in 1..31
    /\ InitialLogins \in Seq(ToSet(InitialLogins))

VARIABLES
    logins,             \* each with its form, esrvcId and period
    today,
    selectedTimePeriod,
    esrvcId,            \* that of the table
    input,              \* of the search
    loading,
    searchError,
    currLoginStats,     \* the table, and what it was asked for
    calls,              \* the requests under way, in the order of asking
    troubles            \* since the last request: see BilledAsNamed

billVars == <<logins, today, selectedTimePeriod, esrvcId, input, loading,
              searchError, currLoginStats, calls, troubles>>

(* A period is the number of its month: yr * 12 + mth.                     *)
MonthOf(date) == date.year * 12 + date.month

IsLeapYear(year) ==
    year % 4 = 0 /\ (year % 100 # 0 \/ year % 400 = 0)

DaysIn(period) ==
    LET mth == period % 12
    IN  CASE mth \in {0, 2, 4, 6, 7, 9, 11} -> 31
          [] mth \in {3, 5, 8, 10} -> 30
          [] mth = 1 -> IF IsLeapYear(period \div 12) THEN 29 ELSE 28

numDisplayedMonths == 8

(* generateTimePeriods: setMonth keeps the day of the month, and a day     *)
(* that the month lacks falls in the next one.                             *)
TimePeriods ==
    [i \in 0..numDisplayedMonths |->
        LET period == MonthOf(today) - i
        IN  IF today.day > DaysIn(period) THEN period + 1 ELSE period]

(* getLoginStats: the groups of logins with their totals                   *)
LoginStats(id, period) ==
    LET matching == {i \in DOMAIN logins : /\ logins[i].esrvcId = id
                                           /\ logins[i].period = period}
    IN  {[formId |-> form,
          total |-> Cardinality({i \in matching : logins[i].form = form})] :
            form \in {logins[i].form : i \in matching}}

SumTotal(stats) == MapThenSumSet(LAMBDA stat : stat.total, stats)

-----------------------------------------------------------------------------

BillInit ==
    /\ logins = InitialLogins
    /\ today \in Dates
    /\ selectedTimePeriod = TimePeriods[0]
    /\ esrvcId = Missing
    /\ input = Missing
    /\ loading = TRUE
    /\ searchError = FALSE
    /\ currLoginStats = Missing
    /\ calls = <<>>
    /\ troubles = {}

(* A respondent logs in, this month.                                       *)
LogIn(form, id) ==
    /\ Len(logins) < MaxLogins
    /\ logins' = Append(logins, [form |-> form, esrvcId |-> id,
                                 period |-> MonthOf(today)])
    /\ troubles' = troubles \cup {"login"}
    /\ UNCHANGED <<today, selectedTimePeriod, esrvcId, input, loading,
                   searchError, currLoginStats, calls>>

(* The admin edits the input, or empties it by opening or closing the      *)
(* search.                                                                 *)
EnterEsrvcId(id) ==
    /\ input # id
    /\ input' = id
    /\ troubles' = troubles \cup {"edited"}
    /\ UNCHANGED <<logins, today, selectedTimePeriod, esrvcId, loading,
                   searchError, currLoginStats, calls>>

(* getBillingForTimePeriod; whether the input named what the admin wants   *)
(* is for the history.                                                     *)
GetBilling(period, id, named) ==
    /\ selectedTimePeriod' = period
    /\ loading' = TRUE
    /\ searchError' = FALSE
    /\ Len(calls) < MaxBillCalls
    /\ calls' = Append(calls, [period |-> period, esrvcId |-> id,
                               stats |-> Missing, received |-> FALSE])
    /\ troubles' = (IF calls = <<>> THEN {} ELSE troubles \cup {"overlap"})
                   \cup (IF named THEN {} ELSE {"edited"})
    /\ UNCHANGED <<logins, today, esrvcId, input, currLoginStats>>

(* Mutant: the id of the table goes before that of the input.              *)
SearchBillingRecords_TableFirst ==
    LET id == IF esrvcId = Missing THEN input ELSE esrvcId
    IN  /\ id # Missing
        /\ GetBilling(selectedTimePeriod, id, input # Missing)

(* An empty search repeats the last one.                                   *)
SearchBillingRecords ==
    LET id == IF input = Missing THEN esrvcId ELSE input
    IN  /\ id # Missing
        /\ GetBilling(selectedTimePeriod, id, input # Missing)

SelectTimePeriod(i) ==
    /\ esrvcId # Missing
    /\ TimePeriods[i] # selectedTimePeriod
    /\ GetBilling(TimePeriods[i], esrvcId, input = esrvcId)

CountLogins(c) ==
    /\ calls[c].stats = Missing
    /\ calls' = [calls EXCEPT ![c].stats =
                    LoginStats(calls[c].esrvcId, calls[c].period)]
    /\ UNCHANGED <<logins, today, selectedTimePeriod, esrvcId, input, loading,
                   searchError, currLoginStats, troubles>>

(* The loader stays for another second.                                    *)
ReceiveStats(c) ==
    /\ calls[c].stats # Missing
    /\ ~calls[c].received
    /\ calls' = [calls EXCEPT ![c].received = TRUE]
    /\ UNCHANGED <<logins, today, selectedTimePeriod, esrvcId, input, loading,
                   searchError, currLoginStats, troubles>>

UpdateTable(c) ==
    /\ calls[c].received
    /\ currLoginStats' = calls[c].stats
    /\ esrvcId' = calls[c].esrvcId
    /\ loading' = FALSE
    /\ calls' = RemoveAt(calls, c)
    /\ UNCHANGED <<logins, today, selectedTimePeriod, input, searchError,
                   troubles>>

(* The table that the page has is kept.                                    *)
ReceiveError(c) ==
    /\ ~calls[c].received
    /\ loading' = FALSE
    /\ searchError' = TRUE
    /\ calls' = RemoveAt(calls, c)
    /\ troubles' = troubles \cup {"failure"}
    /\ UNCHANGED <<logins, today, selectedTimePeriod, esrvcId, input,
                   currLoginStats>>

(* The export button is disabled by a sum of zero; before the first table  *)
(* there is no sum.                                                        *)
CanExport ==
    ~loading /\ (currLoginStats = Missing \/ SumTotal(currLoginStats) # 0)

(* downloadBilling, which throws if there is no table.  The file is named  *)
(* after what is in the input and the month that is selected, and not      *)
(* after what its rows were asked for.                                     *)
ExportedFile == [esrvcId |-> input, period |-> selectedTimePeriod,
                 rows |-> currLoginStats]

BillNext ==
    \/ \E form \in BilledForms, id \in EsrvcIds : LogIn(form, id)
    \/ \E id \in EsrvcIds \cup {Missing} : EnterEsrvcId(id)
    \/ SearchBillingRecords
    \/ \E i \in Chosen : SelectTimePeriod(i)
    \/ \E c \in DOMAIN calls :
          CountLogins(c) \/ ReceiveStats(c) \/ UpdateTable(c) \/ ReceiveError(c)

-----------------------------------------------------------------------------
(* Properties *)

(* The page's variables have their types.                                  *)
BillTypeOK ==
    /\ selectedTimePeriod \in Nat
    /\ esrvcId \in EsrvcIds \cup {Missing}
    /\ input \in EsrvcIds \cup {Missing}
    /\ loading \in BOOLEAN /\ searchError \in BOOLEAN
    /\ troubles \subseteq {"login", "overlap", "failure", "edited"}

(* On the days that every month has, the page offers this month and the    *)
(* eight before it, also across the turn of the year.                      *)
MonthsOffered ==
    today.day <= 28 =>
        TimePeriods = [i \in 0..8 |-> MonthOf(today) - i]

(* A file that the page exports is the bill for the e-service id and the   *)
(* month that it is named after: the sum of its rows is the number of      *)
(* their logins.  This holds unless, since the request for the table,      *)
(* somebody logged in, another request was under way, one failed, or the   *)
(* input was edited; or unless the request was a search without input, or  *)
(* for a month of the table while the input said another id.  Then the     *)
(* table of one month or id can be exported under the name of another.     *)
BilledAsNamed ==
    CanExport /\ troubles = {} =>
        /\ ExportedFile.rows # Missing
        /\ SumTotal(ExportedFile.rows) =
              Cardinality({i \in DOMAIN logins :
                              /\ logins[i].esrvcId = ExportedFile.esrvcId
                              /\ logins[i].period = ExportedFile.period})

(* Both of them, which is what an admin relies on for a bill.              *)
BillIsRight == MonthsOffered /\ BilledAsNamed
=============================================================================
