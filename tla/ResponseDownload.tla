---------------------------- MODULE ResponseDownload ----------------------------
(***************************************************************************)
(* The export of an encrypt form's responses as a CSV file.                *)
(*                                                                         *)
(* The page asks how many responses there are (count), and then for all of *)
(* them, which the server streams from a secondary of the database, one    *)
(* line of JSON each (streamEncryptedResponses).  The bytes come in chunks *)
(* that need not end where lines do; ndjsonStream makes lines of them; the *)
(* lines are dealt to a pool of workers, which decrypt them and check      *)
(* their signatures; their answers are counted and collected.  A timer     *)
(* compares the counts with the number that was expected, and when they    *)
(* have reached it, the collected records are put under merged headers.    *)
(***************************************************************************)
EXTENDS Naturals, SequencesExt, FiniteSetsExt

CONSTANTS
    Histories,      \* sequences of responses that respondents may submit
    numWorkers,     \* the size of the pool
    None

ASSUME DownloadAssumption ==
    /\ numWorkers \in Nat \ {0}
    /\ \A h \in Histories : h \in Seq(ToSet(h))
    /\ \A h \in Histories : \A r \in DOMAIN h :
          /\ h[r].seal \in {"OK", "UNVERIFIED", "ERROR"}
          /\ h[r].content \in Seq(ToSet(h[r].content))
          /\ \A i \in DOMAIN h[r].content :
                /\ h[r].content[i].numCols \in Nat \ {0}
                /\ h[r].content[i].isHeader \in BOOLEAN
                /\ None \notin [record : Nat, id : {h[r].content[i].id},
                                col : Nat]
          /\ \A i, j \in DOMAIN h[r].content :
                h[r].content[i].id = h[r].content[j].id => i = j
    /\ None \notin Nat
    /\ None \notin [next : Nat, open : BOOLEAN]

VARIABLES
    records,        \* the responses, in the order of their submission
    stored,         \* how many of them are in the database
    status,         \* of the download
    expected,       \* expectedNumResponses
    sending,        \* the server's answer: who it sends, and has sent
    wire,           \* what it has sent and has not arrived
    data_buf,       \* the line that has not arrived as a whole
    lines,          \* the lines that were not read yet
    received,       \* receivedRecordCount
    inbox,          \* the messages that wait for each worker
    errorCount,
    unverifiedCount,
    generator,      \* CsvMergedHeadersGenerator
    lapses          \* what has gone wrong outside of the page

serverVars == <<records, stored, sending, wire>>
streamVars == <<data_buf, lines>>
poolVars == <<received, inbox>>
resultVars == <<errorCount, unverifiedCount, generator>>
vars == <<serverVars, streamVars, poolVars, resultVars,
          status, expected, lapses>>

(* seal: whether a record can be decrypted, and its signatures verified.   *)
(* content: the answers.  numCols is 1, or the rows of a table; verified   *)
(* content (processDecryptedContent) follows as answers of its own.        *)
Answers(r) == Range(records[r].content)

Workers == 0..(numWorkers - 1)

(* The text of a line, cut anywhere inside, and the line feed.             *)
Newline == <<None, "newline">>
Text(r) == << <<r, "begins">>, <<r, "ends">> >>

(* The text of an answer that is no stream: its status is not looked at.   *)
Message == << <<None, "message">> >>

EmptyGenerator ==
    [unprocessed |-> <<>>, fieldIdToQuestion |-> <<>>,
     fieldIdToNumCols |-> <<>>]

Init ==
    /\ records \in Histories
    /\ stored \in 0..Len(records)
    /\ status = "idle"
    /\ expected = 0
    /\ sending = None
    /\ wire = <<>>
    /\ data_buf = <<>>
    /\ lines = <<>>
    /\ received = 0
    /\ inbox = [w \in Workers |-> <<>>]
    /\ errorCount = 0
    /\ unverifiedCount = 0
    /\ generator = EmptyGenerator
    /\ lapses = {}

(* A respondent submits the form.                                          *)
Submit ==
    /\ stored < Len(records)
    /\ stored' = stored + 1
    /\ lapses' = IF expected = 0 THEN lapses ELSE lapses \cup {"submitted"}
    /\ UNCHANGED <<records, status, expected, sending, wire, streamVars, poolVars,
                   resultVars>>

-----------------------------------------------------------------------------
(* The server *)

(* exportCsv, downloadEncryptedResponses; the button is disabled until the *)
(* download has ended, and one download is modelled.                       *)
ExportCsv ==
    /\ status = "idle"
    /\ status' = "counting"
    /\ UNCHANGED <<serverVars, streamVars, poolVars, resultVars, expected,
                   lapses>>

(* count, of the primary; without responses nothing is downloaded.         *)
Count ==
    /\ status = "counting"
    /\ expected' = stored
    /\ status' = IF stored = 0 THEN "empty" ELSE "fetching"
    /\ UNCHANGED <<serverVars, streamVars, poolVars, resultVars, lapses>>

CountFails ==
    /\ status = "counting"
    /\ status' = "failed"
    /\ UNCHANGED <<serverVars, streamVars, poolVars, resultVars, expected,
                   lapses>>

(* streamEncryptedResponses opens a cursor.                                *)
OpenStream ==
    /\ status = "fetching"
    /\ sending' = [next |-> 1, open |-> TRUE]
    /\ status' = "waiting"
    /\ UNCHANGED <<records, stored, wire, streamVars, poolVars, resultVars, expected,
                   lapses>>

(* The session has ended, or the form was archived, or the database fails. *)
RefuseStream ==
    /\ status = "fetching"
    /\ sending' = [next |-> 1, open |-> FALSE]
    /\ wire' = Message
    /\ status' = "waiting"
    /\ lapses' = lapses \cup {"refused"}
    /\ UNCHANGED <<records, stored, streamVars, poolVars, resultVars, expected>>

(* The elements are separated by line feeds; none follows the last.        *)
SendRecord ==
    /\ sending # None
    /\ sending.open
    /\ sending.next <= stored
    /\ wire' = wire \o (IF sending.next = 1 THEN <<>> ELSE <<Newline>>)
                    \o Text(sending.next)
    /\ sending' = [sending EXCEPT !.next = @ + 1]
    /\ UNCHANGED <<records, stored, status, expected, streamVars, poolVars, resultVars,
                   lapses>>

(* A record that was stored after the cursor had been opened may be found  *)
(* or not.                                                                 *)
EndStream ==
    /\ sending # None
    /\ sending.open
    /\ sending.next > expected
    /\ sending' = [sending EXCEPT !.open = FALSE]
    /\ UNCHANGED <<records, stored, wire, status, expected, streamVars, poolVars,
                   resultVars, lapses>>

(* The secondary has not replicated the last records yet.                  *)
EndStreamEarly ==
    /\ sending # None
    /\ sending.open
    /\ sending.next <= expected
    /\ sending' = [sending EXCEPT !.open = FALSE]
    /\ lapses' = lapses \cup {"lagging"}
    /\ UNCHANGED <<records, stored, wire, status, expected, streamVars, poolVars,
                   resultVars>>

-----------------------------------------------------------------------------
(* The network, and ndjsonStream *)

Buffered(chunk) == data_buf \o chunk

(* What split makes of it, character by character: the lines that have     *)
(* ended, without blank ones, and the rest.                                *)
Ended(split) ==
    IF split.rest = <<>> THEN split.ended ELSE Append(split.ended, split.rest)

Split(text) ==
    FoldLeft(LAMBDA split, c :
                 IF c = Newline THEN [ended |-> Ended(split), rest |-> <<>>]
                 ELSE [split EXCEPT !.rest = Append(@, c)],
             [ended |-> <<>>, rest |-> <<>>], text)

ReceiveChunk ==
    \E n \in 1..Len(wire) :
        LET split == Split(Buffered(SubSeq(wire, 1, n)))
        IN  /\ status \in {"waiting", "polling"}
            /\ "broken" \notin lapses
            /\ wire' = SubSeq(wire, n + 1, Len(wire))
            /\ lines' = lines \o split.ended
            /\ data_buf' = split.rest
            /\ UNCHANGED <<records, stored, sending, poolVars, resultVars, status,
                           expected, lapses>>

(* Mutant: a last line that no line feed ends is dropped.                  *)
LastLine_Dropped == <<>>

LastLine == IF data_buf = <<>> THEN <<>> ELSE <<data_buf>>

HasEnded == sending # None /\ ~sending.open /\ wire = <<>>

(* The stream is closed: the reader is told once it has read every line.   *)
IsClosed == sending = None

ReceiveEnd ==
    /\ status \in {"waiting", "polling"}
    /\ "broken" \notin lapses
    /\ HasEnded
    /\ lines' = lines \o LastLine
    /\ data_buf' = <<>>
    /\ sending' = None
    /\ UNCHANGED <<records, stored, wire, poolVars, resultVars, status, expected, lapses>>

(* The connection fails, or the server does in the midst of its answer.    *)
(* The promise that ndjsonStream then breaks is nobody's: the page goes on *)
(* waiting for lines.  An error before the answer is handled as little.    *)
BreakConnection ==
    /\ \/ status = "fetching"
       \/ status \in {"waiting", "polling"} /\ sending # None
    /\ lapses' = lapses \cup {"broken"}
    /\ status' = IF status = "fetching" THEN "waiting" ELSE status
    /\ UNCHANGED <<serverVars, streamVars, poolVars, resultVars, expected>>

-----------------------------------------------------------------------------
(* The page: the reader, the workers and the timer *)

(* The timer is started when the first read has come back.                 *)
ReadLine ==
    /\ status \in {"waiting", "polling"}
    /\ lines # <<>>
    /\ inbox' = [inbox EXCEPT ![received % numWorkers] =
                     Append(@, Head(lines))]
    /\ received' = received + 1
    /\ lines' = Tail(lines)
    /\ status' = "polling"
    /\ UNCHANGED <<serverVars, data_buf, resultVars, expected, lapses>>

(* An answer with no line at all: the first read is told of the end.       *)
ReadEnd ==
    /\ status = "waiting"
    /\ IsClosed
    /\ "broken" \notin lapses
    /\ lines = <<>>
    /\ status' = "polling"
    /\ UNCHANGED <<serverVars, streamVars, poolVars, resultVars, expected,
                   lapses>>

(* decryptIntoCsv: what does not parse, or has nothing to decrypt, is an   *)
(* error.                                                                  *)
Parsed(line) ==
    IF \E r \in DOMAIN records : line = Text(r) THEN line[1][1] ELSE None

StatusOf(line) ==
    IF Parsed(line) = None THEN "ERROR" ELSE records[Parsed(line)].seal

(* Mutant: the question that was collected first stays.                    *)
IsLater_Never(created, entry) == FALSE

IsLater(created, entry) == created > entry.created

Widened(numCols, a) ==
    LET current == IF a.id \in DOMAIN numCols THEN numCols[a.id] ELSE 0
        widest == IF current > a.numCols THEN current ELSE a.numCols
    IN  [id \in DOMAIN numCols \cup {a.id} |->
            IF id = a.id THEN widest ELSE numCols[id]]

(* fieldIdToQuestion is a Map, which remembers the order of insertion.     *)
WithQuestion(questions, a, r) ==
    LET at == SelectInSeq(questions, LAMBDA q : q.id = a.id)
        entry == [id |-> a.id, created |-> r, question |-> a.question]
    IN  IF at = 0 THEN Append(questions, entry)
        ELSE IF IsLater(r, questions[at]) THEN [questions EXCEPT ![at] = entry]
        ELSE questions

(* addRecord *)
WithAnswer(g, a, r) ==
    IF a.isHeader THEN g
    ELSE [g EXCEPT !.fieldIdToQuestion = WithQuestion(@, a, r),
                   !.fieldIdToNumCols = Widened(@, a)]

AddRecord(g, r) ==
    FoldLeft(LAMBDA h, a : WithAnswer(h, a, r),
             [g EXCEPT !.unprocessed = Append(@, r)], records[r].content)

(* A worker decrypts a line, and its message is handled.                   *)
WorkerAnswers(w) ==
    /\ status = "polling"
    /\ inbox[w] # <<>>
    /\ LET line == Head(inbox[w])
           result == StatusOf(line)
       IN  /\ errorCount' = errorCount + (IF result = "ERROR" THEN 1 ELSE 0)
           /\ unverifiedCount' =
                  unverifiedCount + (IF result = "UNVERIFIED" THEN 1 ELSE 0)
           /\ generator' = IF result = "OK"
                           THEN AddRecord(generator, Parsed(line))
                           ELSE generator
    /\ inbox' = [inbox EXCEPT ![w] = Tail(@)]
    /\ UNCHANGED <<serverVars, streamVars, received, status, expected, lapses>>

successCount == Len(generator.unprocessed)

Decided == successCount + errorCount + unverifiedCount

AllFailed == errorCount + unverifiedCount = expected

(* killWorkers; what still arrives is not waited for.                      *)
Stop ==
    /\ inbox' = [w \in Workers |-> <<>>]
    /\ UNCHANGED <<serverVars, streamVars, received, resultVars, expected,
                   lapses>>

(* checkComplete *)
RejectDownload ==
    /\ status = "polling"
    /\ AllFailed
    /\ status' = "failed"
    /\ Stop

DownloadCsv ==
    /\ status = "polling"
    /\ ~AllFailed
    /\ Decided >= expected
    /\ status' = "downloaded"
    /\ Stop

-----------------------------------------------------------------------------
(* process: the table of a download.  The columns of a field stand beside  *)
(* each other; a cell is empty if the record has no such answer, or fewer  *)
(* rows in its table.                                                      *)

Columns ==
    FlattenSeq([i \in DOMAIN generator.fieldIdToQuestion |->
        LET q == generator.fieldIdToQuestion[i]
        IN  [c \in 1..generator.fieldIdToNumCols[q.id] |->
                [id |-> q.id, question |-> q.question, col |-> c]]])

Header == [j \in DOMAIN Columns |-> Columns[j].question]

(* getAnswer *)
Cell(r, id, col) ==
    IF \E a \in Answers(r) : a.id = id /\ ~a.isHeader /\ col <= a.numCols
    THEN [record |-> r, id |-> id, col |-> col] ELSE None

Row(r) == [j \in DOMAIN Columns |-> Cell(r, Columns[j].id, Columns[j].col)]

Rows == [i \in DOMAIN generator.unprocessed |-> Row(generator.unprocessed[i])]

-----------------------------------------------------------------------------
Server == Count \/ OpenStream \/ SendRecord \/ EndStream
Page == ReceiveChunk \/ ReceiveEnd \/ ReadLine \/ ReadEnd
Check == RejectDownload \/ DownloadCsv

Next ==
    \/ Submit
    \/ ExportCsv
    \/ Count
    \/ CountFails
    \/ OpenStream
    \/ RefuseStream
    \/ SendRecord
    \/ EndStream
    \/ EndStreamEarly
    \/ BreakConnection
    \/ ReceiveChunk
    \/ ReceiveEnd
    \/ ReadLine
    \/ ReadEnd
    \/ \E w \in Workers : WorkerAnswers(w)
    \/ RejectDownload
    \/ DownloadCsv

Spec == Init /\ [][Next]_vars

(* The server answers, what it sends arrives and is read, every worker     *)
(* works and the timer fires.                                              *)
Fairness ==
    /\ WF_vars(Server)
    /\ WF_vars(Page)
    /\ \A w \in Workers : WF_vars(WorkerAnswers(w))
    /\ WF_vars(Check)

FairSpec == Spec /\ Fairness

-----------------------------------------------------------------------------
(* Properties *)

Statuses == {"idle", "counting", "fetching", "waiting", "polling",
             "downloaded", "failed", "empty"}
IsLine(l) == l \in {Text(r) : r \in 1..stored} \cup {Message}

(* However the network cuts the text, what reaches a worker is a line as   *)
(* the server sent it.                                                     *)
TypeOK ==
    /\ records \in Histories
    /\ stored \in 0..Len(records)
    /\ status \in Statuses
    /\ expected \in 0..stored
    /\ \A i \in DOMAIN lines : IsLine(lines[i])
    /\ \A w \in Workers : \A i \in DOMAIN inbox[w] : IsLine(inbox[w][i])
    /\ generator.unprocessed \in Seq(1..stored)

(* Every line that was dealt to a worker waits in its inbox or has been    *)
(* counted, once, as a record, an error or an unverified response.         *)
EachLineCountedOnce ==
    status \in {"waiting", "polling"} =>
        received = Decided + MapThenSumSet(LAMBDA w : Len(inbox[w]), Workers)

(* The file of an export that nothing has disturbed has one row for each   *)
(* response that can be decrypted and verified, in whatever order the      *)
(* workers finished.                                                       *)
CsvComplete ==
    (status = "downloaded" /\ lapses = {}) =>
        /\ IsInjective(generator.unprocessed)
        /\ Range(generator.unprocessed) =
               {r \in 1..expected : records[r].seal = "OK"}

(* Each answer of each row stands in just one cell, under the question     *)
(* that the latest of the rows with this field has.                        *)
CsvAligned ==
    status = "downloaded" =>
        \A i \in DOMAIN generator.unprocessed :
            LET r == generator.unprocessed[i]
                having(id) == {s \in Range(generator.unprocessed) :
                                  \E a \in Answers(s) :
                                      a.id = id /\ ~a.isHeader}
                question(id) == (CHOOSE a \in Answers(Max(having(id))) :
                                    a.id = id).question
            IN  \A a \in Answers(r) : \A c \in 1..a.numCols :
                    ~a.isHeader =>
                        LET at == {j \in DOMAIN Header :
                                      Rows[i][j] = [record |-> r, id |-> a.id,
                                                    col |-> c]}
                        IN  /\ Cardinality(at) = 1
                            /\ \A j \in at : Header[j] = question(a.id)

(* If no response was submitted while the download went on, an admin who   *)
(* is told that it failed misses no response that could be decrypted.      *)
FailedMeansNone ==
    (status = "failed" /\ "submitted" \notin lapses) => successCount = 0

(* The file is that of the responses: the lines counted, the rows and the  *)
(* columns are right, and a failure is told of only when there are none.   *)
ExportCorrect ==
    EachLineCountedOnce /\ CsvComplete /\ CsvAligned /\ FailedMeansNone

IsOver == status \in {"downloaded", "failed", "empty"}

(* A download ends, with a file or an error, if the connection holds and   *)
(* the server sends all the records that were counted.                     *)
DownloadEnds ==
    status = "counting" ~>
        (IsOver \/ lapses \cap {"broken", "lagging", "refused"} # {})

=============================================================================
