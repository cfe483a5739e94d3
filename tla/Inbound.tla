-------------------------------- MODULE Inbound --------------------------------
(***************************************************************************)
(* Received mail: SES puts a message into S3 and tells of it; a transfer   *)
(* moves it into file storage and deletes it at S3 (ses/inboundMessages.ts, *)
(* ses/inboundTransfer.ts), a parse makes the received email of it         *)
(* (receivedParse.ts, received.ts).  A week later its row is deleted, and  *)
(* may be made once more by a late notification (retention.ts); thirty     *)
(* days from its row, the received email expires.                          *)
(*                                                                         *)
(* Transfers and parses are actions of a pool that starts them again when  *)
(* they fail or die, so several of one row may be under way, each between  *)
(* any two of its steps.  A transfer enqueues at most one parse, which     *)
(* goes by its transfer's number.                                          *)
(***************************************************************************)
EXTENDS Integers, FiniteSets

CONSTANTS
    Messages,           \* objects SES puts into the bucket
    Rows,               \* ids of the inboundMessages rows, in the order they are made
    MessageOf,          \* the object a row would be of
    TransferAttempts,   \* attempts of a transfer (12 in the code)
    ParseAttempts,      \* attempts of a parse (5 in the code)
    MaxTransfers        \* bound: transfers of one message, over all its rows

ASSUME InboundAssumption ==
    /\ {TransferAttempts, ParseAttempts} \subseteq Nat \ {0}
    /\ MaxTransfers \in Nat
    /\ Rows \subseteq Nat
    /\ MessageOf \in [Rows -> Messages]

Transfers == 1..MaxTransfers
RowsOf(m) == {r \in Rows : MessageOf[r] = m}

\* A file is named by the attempt that stored it.
Raw(r, i, a) == <<r, "raw", i, a>>
Attached(r, i, a) == <<r, "attached", i, a>>
Files == {Raw(r, i, a) : r \in Rows, i \in Transfers, a \in 1..TransferAttempts}
         \cup {Attached(r, i, a) : r \in Rows, i \in Transfers, a \in 1..ParseAttempts}
NoFile == <<>>

VARIABLES
    big,        \* messages over 40 MiB
    object,     \* messages whose object is at S3
    row,        \* the inboundMessages rows
    received,   \* the receivedEmails rows
    files,      \* what is in file storage, and known to somebody
    transfer,   \* transfers of each row
    parse,      \* parses of each row
    retired     \* whether the team was deleted

\* History.
VARIABLES
    arrivals,   \* received emails (and email.received events) ever made of a row
    lapsed,     \* messages S3's lifecycle deleted
    unparsed,   \* rows a parse of which was given up
    outlived,   \* messages still at S3 when the row of their email was deleted
    robbed      \* rows whose email lost its attachments to a lost answer

history == <<arrivals, lapsed, unparsed, outlived, robbed>>
vars == <<big, object, row, received, files, transfer, parse, retired, history>>

Row == [status : {"none", "there", "gone"}, file : Files \cup {NoFile},
        parsed : BOOLEAN, deleted : BOOLEAN, rejected : BOOLEAN, error : BOOLEAN]
NoRow == [status |-> "none", file |-> NoFile,
          parsed |-> FALSE, deleted |-> FALSE, rejected |-> FALSE, error |-> FALSE]

Received == [there : BOOLEAN, raw : Files \cup {NoFile}, attached : SUBSET Files]
NoReceived == [there |-> FALSE, raw |-> NoFile, attached |-> {}]

TransferPhase == {"none", "start", "fetch", "body", "file", "delete", "mark",
                  "reject", "failed", "done"}
ParsePhase == {"none", "start", "read", "attach", "complete", "answer", "discard",
               "done"}
Transfer == [phase : TransferPhase, attempt : 0..TransferAttempts]
Parse == [phase : ParsePhase, attempt : 0..ParseAttempts, source : Files \cup {NoFile}]

TypeOK ==
    /\ big \subseteq Messages
    /\ object \subseteq Messages
    /\ row \in [Rows -> Row]
    /\ \A r \in Rows :
         row[r].status # "there" => row[r] = [NoRow EXCEPT !.status = row[r].status]
    /\ received \in [Rows -> Received]
    /\ files \subseteq Files
    /\ transfer \in [Rows -> [Transfers -> Transfer]]
    /\ parse \in [Rows -> [Transfers -> Parse]]
    /\ retired \in BOOLEAN
    /\ arrivals \in [Rows -> Nat]
    /\ lapsed \cup outlived \subseteq Messages
    /\ unparsed \cup robbed \subseteq Rows

NoTransfer == [phase |-> "none", attempt |-> 0]
NoParse == [phase |-> "none", attempt |-> 0, source |-> NoFile]

\* SES has stored the messages, and told nobody yet.
Init ==
    /\ big \in SUBSET Messages
    /\ object = Messages
    /\ row = [r \in Rows |-> NoRow]
    /\ received = [r \in Rows |-> NoReceived]
    /\ files = {}
    /\ transfer = [r \in Rows |-> [i \in Transfers |-> NoTransfer]]
    /\ parse = [r \in Rows |-> [i \in Transfers |-> NoParse]]
    /\ retired = FALSE
    /\ arrivals = [r \in Rows |-> 0]
    /\ lapsed = {}
    /\ unparsed = {}
    /\ outlived = {}
    /\ robbed = {}

There(r) == row[r].status = "there"

\* The handlers' view of a row: of a team that is not retired.
Visible(r) == There(r) /\ ~retired
-----------------------------------------------------------------------------
(***************************************************************************)
(* Notifications and the operator.                                         *)
(***************************************************************************)
Taken(m) == {x \in RowsOf(m) \X Transfers : transfer[x[1]][x[2]].phase # "none"}

\* enqueue, within the bound.
Enqueue(r) ==
    /\ Cardinality(Taken(MessageOf[r])) < MaxTransfers
    /\ \E i \in Transfers :
         /\ transfer[r][i].phase = "none"
         /\ \A j \in 1..i - 1 : transfer[r][j].phase # "none"
         /\ transfer' = [transfer EXCEPT ![r][i] = [phase |-> "start", attempt |-> 1]]

\* verifySns: notifications are turned away after 25 days, which no received
\* email expires before.
Fresh(m) == \A r \in RowsOf(m) : arrivals[r] > 0 => received[r].there

\* Mutant of Known: a message that is stored already is not looked for.
KnownUnparsed(m) == \E r \in RowsOf(m) : There(r) /\ ~row[r].parsed

\* ingest: the notification, or its object, has a row.
Known(m) == \E r \in RowsOf(m) : There(r)

\* ingest, of a message whose domain receives: the first notification, or a late
\* one that finds no row any more.
Ingest(m) ==
    /\ ~Known(m)
    /\ Fresh(m)
    /\ ~retired
    /\ \E r \in RowsOf(m) :
         /\ row[r].status = "none"
         /\ \A q \in RowsOf(m) : q < r => row[q].status # "none"
         /\ row' = [row EXCEPT ![r].status = "there"]
         /\ Enqueue(r)
    /\ UNCHANGED <<big, object, received, files, parse, retired, history>>

Transferable(r) == Visible(r) /\ ~row[r].rejected /\ ~row[r].deleted

\* ingest, of a notification SNS delivers again after its transfer was given up.
IngestAgain(r) ==
    /\ Transferable(r)
    /\ Fresh(MessageOf[r])
    /\ row[r].error
    /\ row' = [row EXCEPT ![r].error = FALSE]
    /\ Enqueue(r)
    /\ UNCHANGED <<big, object, received, files, parse, retired, history>>

\* retry, by an operator, whatever other transfers there are.
Retry(r) ==
    /\ Transferable(r)
    /\ Enqueue(r)
    /\ UNCHANGED <<big, object, row, received, files, parse, retired, history>>
-----------------------------------------------------------------------------
(***************************************************************************)
(* A transfer.                                                             *)
(***************************************************************************)
Done == [NoTransfer EXCEPT !.phase = "done"]

Go(r, i, phase) ==
    transfer' = [transfer EXCEPT ![r][i] =
        IF phase = "done" THEN Done ELSE [@ EXCEPT !.phase = phase]]

At(r, i, phase) == transfer[r][i].phase = phase

\* get: the row as this attempt will know it.
Get(r, i) ==
    /\ At(r, i, "start")
    /\ Go(r, i, IF ~Transferable(r) THEN "done"
                ELSE IF row[r].file = NoFile THEN "fetch" ELSE "delete")
    /\ UNCHANGED <<big, object, row, received, files, parse, retired, history>>

\* GetObject, of an object that is still there.
Fetch(r, i) ==
    /\ At(r, i, "fetch")
    /\ MessageOf[r] \in object
    /\ Go(r, i, IF MessageOf[r] \in big THEN "reject" ELSE "body")
    /\ UNCHANGED <<big, object, row, received, files, parse, retired, history>>

Reject(r, i) ==
    /\ At(r, i, "reject")
    /\ Go(r, i, "done")
    /\ row' = IF There(r) THEN [row EXCEPT ![r].rejected = TRUE, ![r].error = TRUE] ELSE row
    /\ UNCHANGED <<big, object, received, files, parse, retired, history>>

InHand(r, i) == Raw(r, i, transfer[r][i].attempt)

Store(r, i) ==
    /\ At(r, i, "body")
    /\ Go(r, i, "file")
    /\ files' = files \cup {InHand(r, i)}
    /\ UNCHANGED <<big, object, row, received, parse, retired, history>>

\* Mutant of Unwanted: mail that expired is stored once more.
UnwantedGone(r) == ~Visible(r)

\* stored: the row is gone, its team is, or its mail was parsed and expired.
Unwanted(r) == ~Visible(r) \/ (row[r].parsed /\ row[r].file = NoFile)

\* Mutant of Redundant: the file the row has is thrown away, not the second.
RedundantOld(r, f) == row[r].file

\* stored: the file of the two that goes.
Redundant(r, f) == f

\* stored: the first file of a message is kept, every later one deleted.
Stored(r, i) ==
    LET f == InHand(r, i) IN
    /\ At(r, i, "file")
    /\ Go(r, i, "delete")
    /\ IF Unwanted(r) THEN
            /\ files' = files \ {f}
            /\ UNCHANGED row
       ELSE IF row[r].file # NoFile THEN
            /\ files' = files \ {Redundant(r, f)}
            /\ UNCHANGED row
       ELSE /\ row' = [row EXCEPT ![r].file = f, ![r].error = FALSE]
            /\ UNCHANGED files
    /\ parse' = IF Unwanted(r) \/ row[r].parsed THEN parse
                ELSE [parse EXCEPT ![r][i] = [NoParse EXCEPT !.phase = "start", !.attempt = 1]]
    /\ UNCHANGED <<big, object, received, retired, history>>

\* DeleteObject, which succeeds on an object that is gone.
Delete(r, i) ==
    /\ At(r, i, "delete")
    /\ Go(r, i, "mark")
    /\ object' = object \ {MessageOf[r]}
    /\ UNCHANGED <<big, row, received, files, parse, retired, history>>

\* Mutant of Deleted: a row that was erased is written.
DeletedBlind(r, i) ==
    /\ At(r, i, "mark")
    /\ Go(r, i, "done")
    /\ row' = [row EXCEPT ![r].deleted = TRUE, ![r].error = FALSE]
    /\ UNCHANGED <<big, object, received, files, parse, retired, history>>

Deleted(r, i) ==
    /\ At(r, i, "mark")
    /\ Go(r, i, "done")
    /\ row' = IF There(r) THEN [row EXCEPT ![r].deleted = TRUE, ![r].error = FALSE] ELSE row
    /\ UNCHANGED <<big, object, received, files, parse, retired, history>>

\* A step of an attempt fails, or its action dies: the pool tries again.  A file
\* it had in its hands stays in storage, where nobody will ever find it.
Fail(r, i) ==
    /\ transfer[r][i].phase \notin {"none", "failed", "done"}
    /\ transfer' = [transfer EXCEPT ![r][i] =
           IF @.attempt < TransferAttempts
           THEN [phase |-> "start", attempt |-> @.attempt + 1]
           ELSE [NoTransfer EXCEPT !.phase = "failed"]]
    /\ files' = IF At(r, i, "file") THEN files \ {InHand(r, i)} ELSE files
    /\ UNCHANGED <<big, object, row, received, parse, retired, history>>

\* Mutant of TransferDone: attempts that ran out leave no mark.
TransferDoneQuietly(r, i) ==
    /\ At(r, i, "failed")
    /\ Go(r, i, "done")
    /\ UNCHANGED <<big, object, row, received, files, parse, retired, history>>

\* transferDone, of a transfer whose attempts ran out.
TransferDone(r, i) ==
    /\ At(r, i, "failed")
    /\ Go(r, i, "done")
    /\ row' = IF There(r) THEN [row EXCEPT ![r].error = TRUE] ELSE row
    /\ UNCHANGED <<big, object, received, files, parse, retired, history>>
-----------------------------------------------------------------------------
(***************************************************************************)
(* A parse.                                                                *)
(***************************************************************************)
ParseDone == [NoParse EXCEPT !.phase = "done"]

ParseGo(r, i, phase) ==
    parse' = [parse EXCEPT ![r][i] =
        IF phase = "done" THEN ParseDone ELSE [@ EXCEPT !.phase = phase]]

ParseAt(r, i, phase) == parse[r][i].phase = phase

\* parseSource.
ParseSource(r, i) ==
    /\ ParseAt(r, i, "start")
    /\ parse' = [parse EXCEPT ![r][i] =
           IF ~Visible(r) \/ row[r].parsed \/ row[r].file = NoFile
           THEN ParseDone
           ELSE [@ EXCEPT !.phase = "read", !.source = row[r].file]]
    /\ UNCHANGED <<big, object, row, received, files, transfer, retired, history>>

Read(r, i) ==
    /\ ParseAt(r, i, "read")
    /\ parse[r][i].source \in files
    /\ ParseGo(r, i, "attach")
    /\ UNCHANGED <<big, object, row, received, files, transfer, retired, history>>

Extra(r, i) == Attached(r, i, parse[r][i].attempt)

\* The attachments, one standing for all, are stored, if there are any.
Attach(r, i) ==
    /\ ParseAt(r, i, "attach")
    /\ ParseGo(r, i, "complete")
    /\ files' \in {files, files \cup {Extra(r, i)}}
    /\ UNCHANGED <<big, object, row, received, transfer, retired, history>>

\* Mutant of Completable: a message that was parsed meanwhile is parsed again.
CompletableAgain(r) == Visible(r) /\ row[r].file # NoFile

Completable(r) == Visible(r) /\ row[r].file # NoFile /\ ~row[r].parsed

\* complete, its answer on the way: an answer of null leaves the attachments to
\* be discarded.
Complete(r, i) ==
    /\ ParseAt(r, i, "complete")
    /\ IF Completable(r) THEN
            /\ ParseGo(r, i, "answer")
            /\ row' = [row EXCEPT ![r].parsed = TRUE]
            /\ received' = [received EXCEPT ![r] =
                   [there |-> TRUE, raw |-> row[r].file, attached |-> files \cap {Extra(r, i)}]]
            /\ arrivals' = [arrivals EXCEPT ![r] = @ + 1]
       ELSE /\ ParseGo(r, i, "discard")
            /\ UNCHANGED <<row, received, arrivals>>
    /\ UNCHANGED <<big, object, files, transfer, retired, lapsed, unparsed, outlived, robbed>>

\* parse, told that its email was made.
Committed(r, i) ==
    /\ ParseAt(r, i, "answer")
    /\ ParseGo(r, i, "done")
    /\ UNCHANGED <<big, object, row, received, files, transfer, retired, history>>

\* parse, its last block.
Discard(r, i) ==
    /\ ParseAt(r, i, "discard")
    /\ ParseGo(r, i, "done")
    /\ files' = files \ {Extra(r, i)}
    /\ UNCHANGED <<big, object, row, received, transfer, retired, history>>

ParseAgain(r, i) ==
    /\ parse' = [parse EXCEPT ![r][i] =
           IF @.attempt < ParseAttempts
           THEN [NoParse EXCEPT !.phase = "start", !.attempt = parse[r][i].attempt + 1]
           ELSE ParseDone]
    /\ unparsed' = IF parse[r][i].attempt < ParseAttempts THEN unparsed ELSE unparsed \cup {r}

\* An attempt throws, through that block, or dies without it and leaves its files
\* where nobody will find them; nothing follows the last.
ParseFail(r, i) ==
    /\ parse[r][i].phase \notin {"none", "answer", "done"}
    /\ ParseAgain(r, i)
    /\ files' = files \ {Extra(r, i)}
    /\ UNCHANGED <<big, object, row, received, transfer, retired,
                   arrivals, lapsed, outlived, robbed>>

\* An attempt dies before the answer of complete.
AnswerDies(r, i) ==
    /\ ParseAt(r, i, "answer")
    /\ ParseAgain(r, i)
    /\ UNCHANGED <<big, object, row, received, files, transfer, retired,
                   arrivals, lapsed, outlived, robbed>>

\* The answer of complete is lost: that block discards what the email has.
AnswerLost(r, i) ==
    /\ ParseAt(r, i, "answer")
    /\ ParseAgain(r, i)
    /\ files' = files \ {Extra(r, i)}
    /\ robbed' = IF Extra(r, i) \in received[r].attached THEN robbed \cup {r} ELSE robbed
    /\ UNCHANGED <<big, object, row, received, transfer, retired,
                   arrivals, lapsed, outlived>>
-----------------------------------------------------------------------------
(***************************************************************************)
(* Time and the team's end.                                                *)
(***************************************************************************)
\* The bucket's lifecycle rule.
Lapse(m) ==
    /\ m \in object
    /\ object' = object \ {m}
    /\ lapsed' = lapsed \cup {m}
    /\ UNCHANGED <<big, row, received, files, transfer, parse, retired,
                   arrivals, unparsed, outlived, robbed>>

\* retention.inbound: a week after the parse, the row goes.
Retain(r) ==
    /\ There(r)
    /\ row[r].parsed
    /\ row' = [row EXCEPT ![r] = [NoRow EXCEPT !.status = "gone"]]
    /\ outlived' = outlived \cup ({MessageOf[r]} \cap object)
    /\ UNCHANGED <<big, object, received, files, transfer, parse, retired,
                   arrivals, lapsed, unparsed, robbed>>

\* The files of a received email.
Belongings(r) == {received[r].raw} \cup received[r].attached

\* deleteReceived, thirty days on (prune) or by the purge of the team: the row, if
\* it is still there, loses its file.
DeleteReceived(r) ==
    /\ received[r].there
    /\ received' = [received EXCEPT ![r] = NoReceived]
    /\ files' = files \ Belongings(r)
    /\ row' = IF There(r) THEN [row EXCEPT ![r].file = NoFile] ELSE row
    /\ UNCHANGED <<big, object, transfer, parse, retired, history>>

Retire ==
    /\ ~retired
    /\ retired' = TRUE
    /\ UNCHANGED <<big, object, row, received, files, transfer, parse, history>>

\* purge of the team: the messages go after the received emails, with the file
\* of one that was not parsed.
PurgeMessage(r) ==
    /\ retired
    /\ \A q \in Rows : ~received[q].there
    /\ There(r)
    /\ row' = [row EXCEPT ![r] = [NoRow EXCEPT !.status = "gone"]]
    /\ files' = files \ {row[r].file}
    /\ UNCHANGED <<big, object, received, transfer, parse, retired, history>>
-----------------------------------------------------------------------------
TransferStep(r, i) ==
    \/ Get(r, i)
    \/ Fetch(r, i)
    \/ Reject(r, i)
    \/ Store(r, i)
    \/ Stored(r, i)
    \/ Delete(r, i)
    \/ Deleted(r, i)
    \/ Fail(r, i)
    \/ TransferDone(r, i)

ParseStep(r, i) ==
    \/ ParseSource(r, i)
    \/ Read(r, i)
    \/ Attach(r, i)
    \/ Complete(r, i)
    \/ Committed(r, i)
    \/ Discard(r, i)
    \/ ParseFail(r, i)
    \/ AnswerDies(r, i)
    \/ AnswerLost(r, i)

RowStep(r) ==
    \/ IngestAgain(r)
    \/ Retry(r)
    \/ \E i \in Transfers : TransferStep(r, i) \/ ParseStep(r, i)
    \/ Retain(r)
    \/ DeleteReceived(r)
    \/ PurgeMessage(r)

Next ==
    \/ \E m \in Messages : Ingest(m) \/ Lapse(m)
    \/ \E r \in Rows : RowStep(r)
    \/ Retire

Spec == Init /\ [][Next]_vars
-----------------------------------------------------------------------------
UnderWay(r) == \E i \in Transfers : transfer[r][i].phase \notin {"none", "done"}
BeingParsed(r) == \E i \in Transfers : parse[r][i].phase \notin {"none", "done"}

\* Mail that was accepted is not lost, whatever dies, however transfers of it
\* overlap and whether or not its row was deleted meanwhile: it is at S3, or in
\* storage, or a received email was made of it; and until a row is through,
\* somebody is at work on it or it says that nobody is: "Failures leave the
\* source object available for retry. Exhausted jobs retain transferError"
\* (docs/self-hosting.md; stored, transferDone, transfer, retention.inbound).
MailKept ==
    /\ ~retired =>
         \A m \in Messages :
            \/ m \in object \cup lapsed
            \/ \E r \in RowsOf(m) : row[r].file \in files \/ arrivals[r] > 0
    /\ \A r \in Rows :
         Visible(r) =>
            /\ UnderWay(r) \/ row[r].deleted \/ row[r].error
            /\ row[r].file # NoFile /\ ~row[r].parsed => BeingParsed(r) \/ r \in unparsed

\* "SNS retries and parser reruns do not duplicate received rows or
\* email.received webhooks" (docs/rest-api.md; ingest, complete), but for a
\* message that outlived its row at S3; and the files of a received email are
\* there as long as it is, but for attachments a lost answer took from it.
ReceivedOnce ==
    /\ \A r \in Rows :
         /\ arrivals[r] <= 1
         /\ received[r].there =>
              /\ received[r].raw \in files
              /\ received[r].attached \subseteq files \/ r \in robbed
    /\ \A q, r \in Rows :
         q # r /\ MessageOf[q] = MessageOf[r] /\ arrivals[q] > 0 /\ arrivals[r] > 0
         => MessageOf[r] \in outlived

\* No file is left that nothing points to, those of an action that died with them
\* in its hands aside, and no raw mail outlives its received email (stored,
\* parse, deleteReceived, purge).
FilesAccounted ==
    /\ \A f \in files :
         \E r \in Rows :
            \/ f = row[r].file
            \/ f \in Belongings(r)
            \/ \E i \in Transfers :
                 \/ At(r, i, "file") /\ f = InHand(r, i)
                 \/ parse[r][i].phase \in {"complete", "discard"} /\ f = Extra(r, i)
    /\ \A r \in Rows :
         /\ row[r].file # NoFile => row[r].file \in files
         /\ row[r].file # NoFile /\ row[r].parsed => received[r].there
=============================================================================
