-------------------------- MODULE MCResponseDownload --------------------------
(* Histories of up to four responses: a table that grows, a question that *)
(* was renamed, a field that was added, a heading, and responses that are  *)
(* not decrypted or not verified.                                          *)
EXTENDS ResponseBrowsing

AnAnswer(id, question, numCols) ==
    [id |-> id, question |-> question, numCols |-> numCols, isHeader |-> FALSE]
Heading == [AnAnswer("heading", "Part", 1) EXCEPT !.isHeader = TRUE]
ARecord(seal, content) == [seal |-> seal, content |-> content]

Early == ARecord("OK", <<Heading, AnAnswer("name", "Name", 1),
                         AnAnswer("table", "Table", 1)>>)
Late == ARecord("OK", <<AnAnswer("age", "Age", 1),
                        AnAnswer("name", "Full name", 1),
                        AnAnswer("table", "Table", 2)>>)
Wide == ARecord("OK", <<AnAnswer("table", "Table", 2)>>)
Garbled == ARecord("ERROR", <<>>)
Forged == ARecord("UNVERIFIED", <<AnAnswer("name", "Name", 1)>>)

MCHistories ==
    {<<Early, Late, Forged, Wide>>, <<Wide, Early, Garbled, Late>>,
     <<Garbled, Forged, Late, Early>>, <<Late, Garbled, Early, Forged>>}
=============================================================================
