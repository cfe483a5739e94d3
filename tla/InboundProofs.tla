----------------------------- MODULE InboundProofs -----------------------------
(***************************************************************************)
(* Theorems about received mail, for any number of messages, rows of each, *)
(* transfers of each and attempts of each transfer and parse.              *)
(*                                                                         *)
(* Rows share nothing but the file storage, and every file is named for    *)
(* its row: a step about one row cannot disturb what holds within another. *)
(* So the inductive invariant has two layers.  The first is a statement    *)
(* about one row, and each action has to be looked at for its own row      *)
(* only.  The second is what the rows of one message owe each other, now   *)
(* that a row may be deleted and its message told of again: it asks little *)
(* of a step, and most steps are gentle enough to keep it.                 *)
(***************************************************************************)
EXTENDS Inbound, TLAPS

(***************************************************************************)
(* The inductive invariant.                                                *)
(***************************************************************************)
FilesOf(r) ==
    {Raw(r, i, a) : i \in Transfers, a \in 1..TransferAttempts}
    \cup {Attached(r, i, a) : i \in Transfers, a \in 1..ParseAttempts}

\* The transfer is beyond the attempt that stored the file the row has, so no
\* attempt to come will take that file for its own.
Past(r, i, a) ==
    \/ transfer[r][i].attempt > a
    \/ transfer[r][i].attempt = a /\ transfer[r][i].phase \in {"delete", "mark"}
    \/ transfer[r][i].phase \in {"failed", "done"}

\* The parse is beyond the attempt that attached what the received email has, or has
\* yet to hear that it was the one.
ParsePast(r, i, a) ==
    \/ parse[r][i].attempt > a
    \/ parse[r][i].attempt = a /\ parse[r][i].phase = "answer"
    \/ parse[r][i].phase = "done"

RowFits(r) ==
    /\ arrivals[r] <= 1
    /\ row[r].status = "none" \/ (There(r) /\ ~row[r].parsed) => arrivals[r] = 0
    /\ There(r) /\ row[r].parsed => arrivals[r] = 1
    /\ row[r].rejected => MessageOf[r] \in big /\ row[r].error
    /\ MessageOf[r] \in big => row[r].file = NoFile /\ ~row[r].parsed
    /\ row[r].file # NoFile =>
         /\ row[r].file \in files
         /\ \E i \in Transfers, a \in 1..TransferAttempts :
              row[r].file = Raw(r, i, a) /\ Past(r, i, a)
         /\ row[r].parsed => received[r].there

\* A received email has the raw mail, the row's while there is a row, and what its
\* one parse attached, unless a lost answer took that.
ReceivedFits(r) ==
    /\ received[r].there =>
         /\ arrivals[r] = 1
         /\ received[r].raw \in files
         /\ \E i \in Transfers, a \in 1..TransferAttempts :
              received[r].raw = Raw(r, i, a) /\ Past(r, i, a)
         /\ There(r) => row[r].parsed /\ row[r].file = received[r].raw
    /\ ~received[r].there => received[r].raw = NoFile /\ received[r].attached = {}
    /\ \A f \in received[r].attached :
         /\ f \in files \/ r \in robbed
         /\ \E i \in Transfers, a \in 1..ParseAttempts :
              f = Attached(r, i, a) /\ ParsePast(r, i, a)

\* Who deletes the object knows the mail is stored; a transfer that stores it
\* has not enqueued its parse; whose work is in vain, it was done by another.
RunFits(r, i) ==
    LET t == transfer[r][i]
        p == parse[r][i]
    IN  /\ row[r].status = "none" => t.phase = "none" /\ p.phase = "none"
        /\ t.phase = "none" => t.attempt = 0
        /\ t.phase \notin {"none", "failed", "done"} => t.attempt > 0
        /\ p.phase \notin {"none", "done"} => p.attempt > 0
        /\ t.phase \in {"body", "file", "delete", "mark"} => MessageOf[r] \notin big
        /\ t.phase = "reject" => MessageOf[r] \in big
        /\ Visible(r) =>
             /\ t.phase = "delete" \/ p.phase # "none" =>
                  row[r].file # NoFile \/ row[r].parsed
             /\ t.phase \in {"fetch", "body", "file"} /\ p.phase # "none" => row[r].parsed
             /\ p.phase \in {"answer", "discard"} => row[r].parsed

RunsFit(r) == \A i \in Transfers : RunFits(r, i)

HasInHand(r, i, f) ==
    \/ At(r, i, "file") /\ f = InHand(r, i)
    \/ parse[r][i].phase \in {"complete", "discard"} /\ f = Extra(r, i)

HandsFull(r) == \A i \in Transfers : At(r, i, "file") => InHand(r, i) \in files

FilesOwned(r) ==
    \A f \in files :
        f \in FilesOf(r) =>
            \/ f = row[r].file
            \/ f \in Belongings(r)
            \/ \E i \in Transfers : HasInHand(r, i, f)

Kept(r) ==
    Visible(r) =>
        /\ UnderWay(r) \/ row[r].deleted \/ row[r].error
        /\ row[r].file # NoFile /\ ~row[r].parsed => BeingParsed(r) \/ r \in unparsed

AllFits(r) ==
    /\ RowFits(r)
    /\ ReceivedFits(r)
    /\ RunsFit(r)
    /\ HandsFull(r)
    /\ FilesOwned(r)
    /\ Kept(r)

\* Another row of the message will not find the object, or the object outlived the
\* row of its email.
Spent(m) == m \in outlived \/ m \notin object

\* The row has the mail, or a transfer of it does.
Holds(r) ==
    \/ row[r].file # NoFile
    \/ arrivals[r] > 0
    \/ \E i \in Transfers : transfer[r][i].phase \in {"body", "file"}

\* A row goes after its email was made, and another of its message comes after it,
\* so that two rows have the mail only if the object outlived one of them.
MessageFits(m) ==
    /\ ~retired =>
         /\ \A r \in RowsOf(m) : row[r].status = "gone" => arrivals[r] > 0 /\ Spent(m)
         /\ \/ m \in object \cup lapsed
            \/ \E r \in RowsOf(m) : row[r].file # NoFile \/ arrivals[r] > 0
    /\ \A q, r \in RowsOf(m) :
         q # r =>
            /\ ~(There(q) /\ There(r))
            /\ row[q].status # "none" /\ row[r].status # "none" => Spent(m)
            /\ Holds(q) /\ Holds(r) => m \in outlived

InboundInv ==
    /\ TypeOK
    /\ \A r \in Rows : AllFits(r)
    /\ \A m \in Messages : MessageFits(m)

(***************************************************************************)
(* Files and rows are apart.                                               *)
(***************************************************************************)
LEMMA FilesDiffer ==
    \A r, q, i, j, a, b :
        /\ Raw(r, i, a) # NoFile /\ Attached(r, i, a) # NoFile
        /\ Raw(r, i, a) # Attached(q, j, b)
        /\ Raw(r, i, a) = Raw(q, j, b) => r = q /\ i = j /\ a = b
        /\ Attached(r, i, a) = Attached(q, j, b) => r = q /\ i = j /\ a = b
  BY DEF Raw, Attached, NoFile

LEMMA FilesApart ==
    ASSUME NEW r, NEW q, r # q, NEW f \in FilesOf(q)
    PROVE  f \notin FilesOf(r) /\ f # NoFile
  BY FilesDiffer DEF FilesOf

LEMMA FilesOfFiles ==
    ASSUME NEW r \in Rows
    PROVE  FilesOf(r) \subseteq Files /\ NoFile \notin FilesOf(r)
  BY FilesDiffer DEF FilesOf, Files

LEMMA NoFileIsNone == NoFile \notin Files
  <1> SUFFICES ASSUME NEW f \in Files PROVE f # NoFile
    OBVIOUS
  <1>1. \/ \E r \in Rows, i \in Transfers, a \in 1..TransferAttempts : f = Raw(r, i, a)
        \/ \E r \in Rows, i \in Transfers, a \in 1..ParseAttempts : f = Attached(r, i, a)
    BY DEF Files
  <1> QED
    BY <1>1, FilesDiffer

\* A step about row r.
Local(r) ==
    /\ big' = big
    /\ retired => retired'
    /\ \A q \in Rows \ {r} :
         /\ row'[q] = row[q]
         /\ received'[q] = received[q]
         /\ transfer'[q] = transfer[q]
         /\ parse'[q] = parse[q]
         /\ arrivals'[q] = arrivals[q]
         /\ q \in unparsed => q \in unparsed'
         /\ q \in robbed => q \in robbed'
    /\ \A f \in Files \ FilesOf(r) : f \in files' <=> f \in files

LEMMA FilesNamed ==
    ASSUME NEW q \in Rows, RowFits(q), ReceivedFits(q)
    PROVE  /\ row[q].file # NoFile => row[q].file \in FilesOf(q)
           /\ received[q].there => received[q].raw \in FilesOf(q)
           /\ received[q].attached \subseteq FilesOf(q)
  BY DEF RowFits, ReceivedFits, FilesOf

LEMMA HandsNamed ==
    ASSUME TypeOK, NEW r \in Rows, NEW i \in Transfers, RunFits(r, i), At(r, i, "file")
    PROVE  InHand(r, i) \in FilesOf(r)
  <1>1. transfer[r][i].attempt \in 1..TransferAttempts
    BY DEF TypeOK, Transfer, RunFits, At
  <1> QED
    BY <1>1 DEF InHand, FilesOf

\* The file a transfer has in its hands is neither the row's nor its email's.
LEMMA HandsApart ==
    ASSUME TypeOK, NEW r \in Rows, RowFits(r), ReceivedFits(r),
           NEW j \in Transfers, At(r, j, "file")
    PROVE  InHand(r, j) # row[r].file /\ InHand(r, j) \notin Belongings(r)
  <1>0. transfer[r][j].attempt \in Nat /\ transfer[r][j].phase = "file"
    BY DEF TypeOK, Transfer, At
  <1>1. ASSUME NEW f, NEW i \in Transfers, NEW a \in 1..TransferAttempts,
               f = Raw(r, i, a), Past(r, i, a)
        PROVE  InHand(r, j) # f
    <2>1. ~Past(r, j, transfer[r][j].attempt)
      BY <1>0 DEF Past
    <2> QED
      BY <1>1, <2>1, FilesDiffer DEF InHand
  <1>2. InHand(r, j) # NoFile
    BY FilesDiffer DEF InHand
  <1>3. InHand(r, j) # row[r].file
    BY <1>1, <1>2 DEF RowFits
  <1>4. InHand(r, j) # received[r].raw
    BY <1>1, <1>2 DEF ReceivedFits
  <1>5. InHand(r, j) \notin received[r].attached
    BY FilesDiffer DEF ReceivedFits, InHand
  <1> QED
    BY <1>3, <1>4, <1>5 DEF Belongings

LEMMA OthersFit ==
    ASSUME TypeOK, NEW r \in Rows, Local(r), NEW q \in Rows, q # r, AllFits(q)
    PROVE  AllFits(q)'
  <1>0. /\ row'[q] = row[q] /\ received'[q] = received[q] /\ transfer'[q] = transfer[q]
        /\ parse'[q] = parse[q] /\ arrivals'[q] = arrivals[q] /\ big' = big
        /\ q \in unparsed => q \in unparsed'
        /\ q \in robbed => q \in robbed'
        /\ Visible(q)' => Visible(q)
    BY DEF Local, Visible, There
  <1>1. /\ RowFits(q) /\ ReceivedFits(q) /\ RunsFit(q) /\ HandsFull(q) /\ FilesOwned(q)
        /\ Kept(q)
    BY DEF AllFits
  <1>2. \A f \in FilesOf(q) : f \in files' <=> f \in files
    BY FilesApart, FilesOfFiles DEF Local
  <1>3. /\ row[q].file # NoFile => row[q].file \in FilesOf(q)
        /\ received[q].there => received[q].raw \in FilesOf(q)
        /\ received[q].attached \subseteq FilesOf(q)
    BY <1>1, FilesNamed
  <1>4. RowFits(q)'
    BY <1>0, <1>1, <1>2, <1>3 DEF RowFits, There, Past
  <1>5. ReceivedFits(q)'
    <2>1. received'[q].there => received'[q].raw \in files'
      BY <1>0, <1>1, <1>2, <1>3 DEF ReceivedFits
    <2>2. \A f \in received'[q].attached : f \in files' \/ q \in robbed'
      BY <1>0, <1>1, <1>2, <1>3 DEF ReceivedFits
    <2> QED
      BY <1>0, <1>1, <2>1, <2>2 DEF ReceivedFits, There, Past, ParsePast
  <1>6. RunsFit(q)'
    BY <1>0, <1>1 DEF RunsFit, RunFits
  <1>7. HandsFull(q)' /\ FilesOwned(q)'
    <2>1. HandsFull(q)'
      BY <1>0, <1>1, <1>2, HandsNamed DEF HandsFull, RunsFit, At, InHand
    <2>2. FilesOwned(q)'
      BY <1>0, <1>1, <1>2 DEF FilesOwned, FilesOf, HasInHand, At, InHand, Extra, Belongings
    <2> QED
      BY <2>1, <2>2
  <1>8. Kept(q)'
    BY <1>0, <1>1 DEF Kept, UnderWay, BeingParsed
  <1> QED
    BY <1>4, <1>5, <1>6, <1>7, <1>8 DEF AllFits

(***************************************************************************)
(* Rows of one message.                                                    *)
(***************************************************************************)
\* A step that takes the mail up from S3 if at all, lets go of it, or of the object,
\* only when the row has it in another way, and leaves the row where it is.
Gentle(r) ==
    LET m == MessageOf[r]
    IN  /\ retired' = retired /\ outlived' = outlived /\ lapsed' = lapsed
        /\ row'[r].status = row[r].status
        /\ arrivals[r] > 0 => arrivals'[r] > 0
        /\ Holds(r)' => Holds(r) \/ (m \in object /\ row[r].status # "none")
        /\ row[r].file # NoFile => row'[r].file # NoFile \/ arrivals'[r] > 0
        /\ object' \subseteq object /\ object \ {m} \subseteq object'
        /\ m \in object /\ m \notin object' /\ ~retired =>
             row'[r].file # NoFile \/ arrivals'[r] > 0

LEMMA MessagesFit ==
    ASSUME InboundInv, NEW r \in Rows, Local(r), Gentle(r), NEW m \in Messages
    PROVE  MessageFits(m)'
  <1>0. MessageFits(m) /\ retired' = retired
    BY DEF InboundInv, Gentle
  <1>1. ASSUME NEW q \in Rows
        PROVE  /\ row'[q].status = row[q].status /\ (There(q)' <=> There(q))
               /\ arrivals[q] > 0 => arrivals'[q] > 0
               /\ row[q].file # NoFile => row'[q].file # NoFile \/ arrivals'[q] > 0
    BY DEF Local, Gentle, There
  <1>2. ASSUME NEW q \in RowsOf(m), Holds(q)'
        PROVE  Holds(q) \/ (q = r /\ m \in object /\ row[q].status # "none")
    BY <1>2 DEF Local, Gentle, Holds, RowsOf
  <1>3. Spent(m) => Spent(m)'
    BY DEF Spent, Gentle
  <1>4. ASSUME NEW q \in Rows, Holds(q)
        PROVE  row[q].status # "none"
    <2>1. AllFits(q) /\ TypeOK
      BY DEF InboundInv
    <2>2. CASE row[q].status = "none"
      <3>1. row[q] = [NoRow EXCEPT !.status = "none"]
        BY <2>1, <2>2 DEF TypeOK
      <3>2. row[q].file = NoFile
        BY <3>1 DEF NoRow
      <3>3. arrivals[q] = 0 /\ \A i \in Transfers : transfer[q][i].phase = "none"
        BY <2>1, <2>2 DEF AllFits, RowFits, RunsFit, RunFits
      <3> QED
        BY <1>4, <3>2, <3>3 DEF Holds
    <2> QED
      BY <2>2
  <1>5. ~retired =>
          \A q \in RowsOf(m) : row'[q].status = "gone" => arrivals'[q] > 0 /\ Spent(m)'
    BY <1>0, <1>1, <1>3 DEF MessageFits, RowsOf
  <1>6. ~retired => \/ m \in object' \cup lapsed'
                    \/ \E q \in RowsOf(m) : row'[q].file # NoFile \/ arrivals'[q] > 0
    <2>1. CASE m \in object /\ m \notin object' /\ ~retired
      BY <2>1 DEF Gentle, RowsOf
    <2>2. CASE m \in lapsed
      BY <2>2 DEF Gentle
    <2>3. CASE m \notin object /\ m \notin lapsed
      BY <1>0, <1>1, <2>3 DEF MessageFits, RowsOf
    <2> QED
      BY <2>1, <2>2, <2>3
  <1>7. ASSUME NEW p \in RowsOf(m), NEW q \in RowsOf(m), p # q
        PROVE  /\ ~(There(p)' /\ There(q)')
               /\ row'[p].status # "none" /\ row'[q].status # "none" => Spent(m)'
               /\ Holds(p)' /\ Holds(q)' => m \in outlived'
    <2>1. p \in Rows /\ q \in Rows /\ outlived' = outlived
      BY DEF RowsOf, Gentle
    <2>2. /\ ~(There(p) /\ There(q))
          /\ row[p].status # "none" /\ row[q].status # "none" => Spent(m)
          /\ Holds(p) /\ Holds(q) => m \in outlived
      BY <1>0, <1>7 DEF MessageFits
    <2>3. Holds(p)' /\ Holds(q)' => m \in outlived
      <3>1. CASE Holds(p) /\ Holds(q)
        BY <2>2, <3>1
      <3>2. CASE Holds(p)' /\ Holds(q)' /\ ~(Holds(p) /\ Holds(q))
        <4>1. m \in object /\ row[p].status # "none" /\ row[q].status # "none"
          BY <1>2, <1>4, <2>1, <3>2
        <4> QED
          BY <2>2, <4>1 DEF Spent
      <3> QED
        BY <3>1, <3>2
    <2> QED
      BY <1>1, <1>3, <2>1, <2>2, <2>3
  <1> QED
    BY <1>0, <1>5, <1>6, <1>7 DEF MessageFits

\* A step is about one row, so that one is left to look at.
LEMMA OneRow ==
    ASSUME InboundInv, TypeOK', NEW r \in Rows, Local(r), Gentle(r), AllFits(r)'
    PROVE  InboundInv'
  <1>1. \A q \in Rows : AllFits(q)'
    BY OthersFit DEF InboundInv
  <1>2. \A m \in Messages : MessageFits(m)'
    BY MessagesFit
  <1> QED
    BY <1>1, <1>2 DEF InboundInv

LEMMA RetireKeeps ==
    ASSUME InboundInv, Retire
    PROVE  InboundInv'
  <1>1. TypeOK'
    BY DEF Retire, history, InboundInv, TypeOK
  <1>2. ASSUME NEW q \in Rows
        PROVE  AllFits(q)'
    <2>1. /\ RowFits(q) /\ ReceivedFits(q) /\ RunsFit(q) /\ HandsFull(q) /\ FilesOwned(q)
          /\ ~Visible(q)'
          /\ UNCHANGED <<big, object, row, received, files, transfer, parse, history>>
      BY DEF InboundInv, AllFits, Retire, Visible
    <2> QED
      BY <2>1 DEF AllFits, RowFits, ReceivedFits, RunsFit, RunFits, FilesOwned, FilesOf,
                  HandsFull, Kept, There, Past, ParsePast, HasInHand, At, InHand, Extra,
                  Belongings, history
  <1>3. ASSUME NEW m \in Messages
        PROVE  MessageFits(m)'
    <2>1. MessageFits(m) /\ retired' /\ UNCHANGED <<object, row, transfer, history>>
      BY DEF InboundInv, Retire
    <2> QED
      BY <2>1 DEF MessageFits, Holds, Spent, There, RowsOf, history
  <1> QED
    BY <1>1, <1>2, <1>3 DEF InboundInv

(***************************************************************************)
(* Moves of one transfer and of one parse.                                 *)
(***************************************************************************)
TransferMoves(r, i, t) ==
    /\ transfer' \in [Rows -> [Transfers -> Transfer]]
    /\ transfer'[r][i] = t
    /\ \A j \in Transfers \ {i} : transfer'[r][j] = transfer[r][j]
    /\ \A q \in Rows \ {r} : transfer'[q] = transfer[q]

LEMMA MoveTransfer ==
    ASSUME TypeOK, NEW r \in Rows, NEW i \in Transfers, NEW t \in Transfer,
           transfer' = [transfer EXCEPT ![r][i] = t]
    PROVE  TransferMoves(r, i, t)
  BY DEF TypeOK, TransferMoves

LEMMA GoMoves ==
    ASSUME TypeOK, NEW r \in Rows, NEW i \in Transfers, NEW phase \in TransferPhase,
           Go(r, i, phase)
    PROVE  \E t \in Transfer :
              /\ TransferMoves(r, i, t)
              /\ t.phase = phase
              /\ phase # "done" => t.attempt = transfer[r][i].attempt
  <1>0. transfer[r][i] \in Transfer
    BY DEF TypeOK
  <1>1. CASE phase = "done"
    <2>1. Done \in Transfer /\ Done.phase = "done"
      BY InboundAssumption DEF Done, NoTransfer, Transfer, TransferPhase
    <2>2. transfer' = [transfer EXCEPT ![r][i] = Done]
      BY <1>1 DEF Go
    <2> QED
      BY <1>1, <2>1, <2>2, MoveTransfer
  <1>2. CASE phase # "done"
    <2> DEFINE t == [transfer[r][i] EXCEPT !.phase = phase]
    <2>1. t \in Transfer /\ t.phase = phase /\ t.attempt = transfer[r][i].attempt
      BY <1>0 DEF Transfer
    <2>2. transfer' = [transfer EXCEPT ![r][i] = t]
      BY <1>2 DEF Go
    <2> HIDE DEF t
    <2> QED
      BY <2>1, <2>2, MoveTransfer
  <1> QED
    BY <1>1, <1>2

ParseMoves(r, i, p) ==
    /\ parse' \in [Rows -> [Transfers -> Parse]]
    /\ parse'[r][i] = p
    /\ \A j \in Transfers \ {i} : parse'[r][j] = parse[r][j]
    /\ \A q \in Rows \ {r} : parse'[q] = parse[q]

LEMMA MoveParse ==
    ASSUME TypeOK, NEW r \in Rows, NEW i \in Transfers, NEW p \in Parse,
           parse' = [parse EXCEPT ![r][i] = p]
    PROVE  ParseMoves(r, i, p)
  BY DEF TypeOK, ParseMoves

LEMMA DoneIsParse == ParseDone \in Parse /\ ParseDone.phase = "done"
  BY InboundAssumption DEF ParseDone, NoParse, Parse, ParsePhase

LEMMA ParseGoMoves ==
    ASSUME TypeOK, NEW r \in Rows, NEW i \in Transfers, NEW phase \in ParsePhase,
           ParseGo(r, i, phase)
    PROVE  \E p \in Parse :
              /\ ParseMoves(r, i, p)
              /\ p.phase = phase
              /\ phase # "done" => p.attempt = parse[r][i].attempt
  <1>0. parse[r][i] \in Parse
    BY DEF TypeOK
  <1>1. CASE phase = "done"
    <2>1. parse' = [parse EXCEPT ![r][i] = ParseDone]
      BY <1>1 DEF ParseGo
    <2> QED
      BY <1>1, <2>1, DoneIsParse, MoveParse
  <1>2. CASE phase # "done"
    <2> DEFINE p == [parse[r][i] EXCEPT !.phase = phase]
    <2>1. p \in Parse /\ p.phase = phase /\ p.attempt = parse[r][i].attempt
      BY <1>0 DEF Parse
    <2>2. parse' = [parse EXCEPT ![r][i] = p]
      BY <1>2 DEF ParseGo
    <2> HIDE DEF p
    <2> QED
      BY <2>1, <2>2, MoveParse
  <1> QED
    BY <1>1, <1>2

\* The row of message r is written.
RowMoves(r, x) ==
    /\ row' \in [Rows -> Row]
    /\ row'[r] = x
    /\ \A q \in Rows \ {r} : row'[q] = row[q]

LEMMA MoveRow ==
    ASSUME TypeOK, NEW r \in Rows, NEW x \in Row,
           row' = [row EXCEPT ![r] = x]
    PROVE  RowMoves(r, x)
  BY DEF TypeOK, RowMoves

(***************************************************************************)
(* Transfers.                                                              *)
(***************************************************************************)
\* A transfer moves on and keeps no file; what it writes to the row are flags.
TransferGoesOn(r, i, t) ==
    LET was == transfer[r][i]
    IN  /\ TransferMoves(r, i, t)
        /\ UNCHANGED <<big, received, parse, retired, history>>
        /\ files' = IF was.phase = "file" THEN files \ {InHand(r, i)} ELSE files
        /\ RowMoves(r, row'[r])
        /\ row[r].status # "none"
        /\ row'[r].status = row[r].status
        /\ row'[r].file = row[r].file
        /\ row'[r].parsed <=> row[r].parsed
        /\ row'[r].rejected => MessageOf[r] \in big /\ row'[r].error
        /\ ~There(r) => row'[r] = row[r]
        /\ object \ {MessageOf[r]} \subseteq object' /\ object' \subseteq object
        /\ MessageOf[r] \in object => MessageOf[r] \in object' \/ was.phase = "delete"
        /\ t.phase = "body" => MessageOf[r] \in object
        /\ t.phase \notin {"file", "none"}
        /\ t.attempt > 0 \/ t.phase \in {"failed", "done"}
        /\ t.phase \notin {"failed", "done"} =>
             /\ was.phase \notin {"failed", "done"}
             /\ \/ t.attempt > was.attempt
                \/ /\ t.attempt = was.attempt
                   /\ was.phase \in {"delete", "mark"} => t.phase \in {"delete", "mark"}
        /\ t.phase \in {"body", "delete", "mark"} => MessageOf[r] \notin big
        /\ t.phase = "reject" => MessageOf[r] \in big
        /\ Visible(r) =>
             /\ t.phase = "delete" => row[r].file # NoFile \/ row[r].parsed
             /\ t.phase \in {"fetch", "body"} /\ parse[r][i].phase # "none" => row[r].parsed
             /\ t.phase # "done" \/ row'[r].deleted \/ row'[r].error

LEMMA TransferKeeps ==
    ASSUME InboundInv, NEW r \in Rows, NEW i \in Transfers, NEW t \in Transfer,
           TransferGoesOn(r, i, t)
    PROVE  InboundInv'
  <1> DEFINE was == transfer[r][i]
  <1>0. /\ TypeOK /\ was \in Transfer /\ was.attempt \in Nat /\ t.attempt \in Nat
        /\ \A j \in Transfers : transfer[r][j].attempt \in Nat
        /\ RowFits(r) /\ ReceivedFits(r) /\ RunsFit(r) /\ HandsFull(r) /\ FilesOwned(r)
        /\ Kept(r)
    BY DEF InboundInv, TypeOK, Transfer, AllFits
  <1>1. /\ TransferMoves(r, i, t) /\ RowMoves(r, row'[r])
        /\ UNCHANGED <<big, received, parse, retired, arrivals, lapsed, unparsed,
                       outlived, robbed>>
        /\ row[r].status # "none"
        /\ row'[r].status = row[r].status /\ row'[r].file = row[r].file
        /\ row'[r].parsed <=> row[r].parsed
        /\ Visible(r)' <=> Visible(r)
        /\ There(r)' <=> There(r)
    BY DEF TransferGoesOn, Visible, There, history
  <1>2. TypeOK'
    <2>1. ASSUME NEW q \in Rows, row'[q].status # "there"
          PROVE  row'[q] = [NoRow EXCEPT !.status = row'[q].status]
      <3>1. row'[q] = row[q]
        BY <1>1, <2>1 DEF RowMoves, TransferGoesOn, There
      <3> QED
        BY <1>0, <2>1, <3>1 DEF TypeOK
    <2>2. object' \subseteq Messages
      BY <1>0 DEF TypeOK, TransferGoesOn
    <2>3. files' \subseteq Files
      BY <1>0 DEF TypeOK, TransferGoesOn
    <2> QED
      BY <1>0, <1>1, <2>1, <2>2, <2>3 DEF TypeOK, TransferMoves, RowMoves
  <1>2a. /\ files' \subseteq files
         /\ \A f \in files \ files' :
              f \in FilesOf(r) /\ f = InHand(r, i) /\ was.phase = "file"
         /\ row[r].file \in files => row[r].file \in files'
         /\ \A f \in Belongings(r) : f \in files => f \in files'
    <2>1. CASE was.phase = "file"
      <3>1. files' = files \ {InHand(r, i)}
        BY <2>1 DEF TransferGoesOn
      <3>2. InHand(r, i) \in FilesOf(r)
        <4>1. was.attempt \in 1..TransferAttempts
          BY <1>0, <2>1 DEF RunsFit, RunFits, Transfer
        <4> QED
          BY <4>1 DEF InHand, FilesOf
      <3>3. row[r].file # InHand(r, i)
        BY <1>0, <2>1, HandsApart DEF At
      <3>4. InHand(r, i) \notin Belongings(r)
        BY <1>0, <2>1, HandsApart DEF At
      <3> QED
        BY <2>1, <3>1, <3>2, <3>3, <3>4
    <2>2. CASE was.phase # "file"
      BY <2>2 DEF TransferGoesOn
    <2> QED
      BY <2>1, <2>2
  <1>3. Local(r)
    BY <1>1, <1>2a DEF Local, TransferGoesOn, TransferMoves, RowMoves
  <1>3a. ASSUME NEW j \in Transfers, NEW a \in 1..TransferAttempts, Past(r, j, a)
         PROVE  Past(r, j, a)'
    <2>1. CASE j # i
      BY <1>1, <1>3a, <2>1 DEF Past, TransferMoves
    <2>2. CASE j = i
      <3>1. transfer'[r][i] = t
        BY <1>1 DEF TransferMoves
      <3>2. CASE t.phase \in {"failed", "done"}
        BY <2>2, <3>1, <3>2 DEF Past
      <3>3. CASE t.phase \notin {"failed", "done"}
        <4>1. t.attempt > a \/ (t.attempt = a /\ t.phase \in {"delete", "mark"})
          BY <1>0, <1>3a, <2>2, <3>3 DEF Past, TransferGoesOn
        <4> QED
          BY <2>2, <3>1, <4>1 DEF Past
      <3> QED
        BY <3>2, <3>3
    <2> QED
      BY <2>1, <2>2
  <1>4. RowFits(r)'
    <2>1. row'[r].rejected => MessageOf[r] \in big /\ row'[r].error
      BY DEF TransferGoesOn
    <2> QED
      BY <1>0, <1>1, <1>2a, <1>3a, <2>1 DEF RowFits
  <1>5. ReceivedFits(r)'
    BY <1>0, <1>1, <1>2a, <1>3a DEF ReceivedFits, Belongings, ParsePast
  <1>6. RunsFit(r)'
    <2>1. RunFits(r, i)'
      <3>1. transfer'[r][i] = t /\ RunFits(r, i)
        BY <1>0, <1>1 DEF TransferMoves, RunsFit
      <3> QED
        BY <1>1, <3>1 DEF RunFits, TransferGoesOn
    <2>2. ASSUME NEW j \in Transfers \ {i}
          PROVE  RunFits(r, j)'
      BY <1>0, <1>1 DEF RunFits, RunsFit, TransferMoves
    <2> QED
      BY <2>1, <2>2 DEF RunsFit
  <1>h. HandsFull(r)'
    <2>1. ASSUME NEW j \in Transfers, At(r, j, "file")'
          PROVE  InHand(r, j)' \in files'
      <3>1. j # i /\ At(r, j, "file") /\ InHand(r, j)' = InHand(r, j)
        BY <1>1, <2>1 DEF At, TransferMoves, InHand, TransferGoesOn
      <3>2. InHand(r, j) \in files /\ InHand(r, j) # InHand(r, i)
        BY <1>0, <3>1, FilesDiffer DEF HandsFull, InHand
      <3> QED
        BY <1>2a, <3>1, <3>2
    <2> QED
      BY <2>1 DEF HandsFull
  <1>7. FilesOwned(r)'
    <2>1. ASSUME NEW j \in Transfers, NEW f \in files', HasInHand(r, j, f)
          PROVE  HasInHand(r, j, f)'
      <3>1. CASE j = i /\ was.phase = "file" /\ f = InHand(r, i)
        BY <3>1 DEF TransferGoesOn
      <3>2. CASE ~(j = i /\ was.phase = "file" /\ f = InHand(r, i))
        BY <1>1, <2>1, <3>2 DEF HasInHand, At, InHand, Extra, TransferMoves
      <3> QED
        BY <3>1, <3>2
    <2> QED
      BY <1>0, <1>1, <1>2a, <2>1 DEF FilesOwned, FilesOf, Belongings
  <1>8. Kept(r)'
    <2> SUFFICES ASSUME Visible(r)
                 PROVE  Kept(r)'
      BY <1>1 DEF Kept
    <2>2. UnderWay(r)' \/ row'[r].deleted \/ row'[r].error
      BY <1>1 DEF TransferGoesOn, UnderWay, TransferMoves
    <2>3. row'[r].file # NoFile /\ ~row'[r].parsed => BeingParsed(r)' \/ r \in unparsed'
      BY <1>0, <1>1 DEF Kept, BeingParsed
    <2> QED
      BY <2>2, <2>3 DEF Kept
  <1>9. Gentle(r)
    <2>1. MessageFits(MessageOf[r]) /\ r \in RowsOf(MessageOf[r])
      BY InboundAssumption DEF InboundInv, RowsOf
    <2>2. Holds(r)' => Holds(r) \/ (MessageOf[r] \in object /\ row[r].status # "none")
      <3>1. transfer'[r][i] = t /\ t.phase # "file"
        BY <1>1 DEF TransferMoves, TransferGoesOn
      <3>2. t.phase = "body" => MessageOf[r] \in object
        BY DEF TransferGoesOn
      <3>3. \A j \in Transfers \ {i} : transfer'[r][j] = transfer[r][j]
        BY <1>1 DEF TransferMoves
      <3> QED
        BY <1>1, <3>1, <3>2, <3>3 DEF Holds
    <2>3. ASSUME MessageOf[r] \in object, MessageOf[r] \notin object', ~retired
          PROVE  row[r].file # NoFile \/ arrivals[r] > 0
      <3>1. was.phase = "delete"
        BY <2>3 DEF TransferGoesOn
      <3>2. CASE There(r)
        <4>1. row[r].file # NoFile \/ row[r].parsed
          BY <1>0, <2>3, <3>1, <3>2 DEF RunsFit, RunFits, Visible
        <4>2. row[r].parsed => arrivals[r] = 1
          BY <1>0, <3>2 DEF RowFits
        <4> QED
          BY <4>1, <4>2
      <3>3. CASE ~There(r)
        <4>1. row[r].status = "gone"
          BY <1>0, <1>1, <3>3 DEF There, TypeOK, Row
        <4> QED
          BY <2>1, <2>3, <4>1 DEF MessageFits
      <3> QED
        BY <3>2, <3>3
    <2>4. /\ object' \subseteq object /\ object \ {MessageOf[r]} \subseteq object'
          /\ outlived' = outlived /\ lapsed' = lapsed
      BY DEF TransferGoesOn, history
    <2> QED
      BY <1>1, <2>2, <2>3, <2>4 DEF Gentle
  <1> QED
    BY <1>2, <1>3, <1>4, <1>5, <1>6, <1>h, <1>7, <1>8, <1>9, OneRow DEF AllFits

\* The flags a step writes to the row of a message.
LEMMA RowSame ==
    ASSUME TypeOK, NEW r \in Rows, row' = row
    PROVE  RowMoves(r, row'[r])
  BY DEF RowMoves, TypeOK

LEMMA EnqueueMoves ==
    ASSUME InboundInv, NEW r \in Rows, Enqueue(r)
    PROVE  \E i \in Transfers, t \in Transfer :
              /\ TransferMoves(r, i, t)
              /\ t.phase = "start" /\ t.attempt = 1
              /\ transfer[r][i].phase = "none" /\ transfer[r][i].attempt = 0
  <1>1. PICK i \in Transfers :
           /\ transfer[r][i].phase = "none"
           /\ transfer' = [transfer EXCEPT ![r][i] = [phase |-> "start", attempt |-> 1]]
    BY DEF Enqueue
  <1>2. PICK t : t = [phase |-> "start", attempt |-> 1]
    OBVIOUS
  <1>3. t \in Transfer /\ t.phase = "start" /\ t.attempt = 1
    BY <1>2, InboundAssumption DEF Transfer, TransferPhase
  <1>4. transfer[r][i].attempt = 0
    BY <1>1 DEF InboundInv, AllFits, RunsFit, RunFits
  <1>5. TransferMoves(r, i, t)
    BY <1>1, <1>2, <1>3, MoveTransfer DEF InboundInv
  <1> QED
    BY <1>1, <1>3, <1>4, <1>5

LEMMA EnqueueKeeps ==
    ASSUME InboundInv, NEW r \in Rows, IngestAgain(r) \/ Retry(r)
    PROVE  InboundInv'
  <1>1. PICK i \in Transfers, t \in Transfer :
           /\ TransferMoves(r, i, t)
           /\ t.phase = "start" /\ t.attempt = 1
           /\ transfer[r][i].phase = "none" /\ transfer[r][i].attempt = 0
    BY EnqueueMoves DEF IngestAgain, Retry
  <1>2. /\ Transferable(r) /\ TypeOK /\ row[r] \in Row
        /\ UNCHANGED <<big, object, received, files, parse, retired, history>>
    BY DEF IngestAgain, Retry, InboundInv, TypeOK
  <1>3. /\ RowMoves(r, row'[r])
        /\ row'[r].status = row[r].status /\ row'[r].file = row[r].file
        /\ row'[r].parsed <=> row[r].parsed
        /\ row'[r].rejected <=> row[r].rejected
    <2>1. CASE IngestAgain(r)
      <3> DEFINE x == [row[r] EXCEPT !.error = FALSE]
      <3>1. row' = [row EXCEPT ![r] = x]
        BY <2>1 DEF IngestAgain
      <3>2. /\ x \in Row /\ x.status = row[r].status /\ x.file = row[r].file
            /\ x.parsed <=> row[r].parsed
            /\ x.rejected <=> row[r].rejected
        BY <1>2 DEF Row
      <3> HIDE DEF x
      <3>3. RowMoves(r, x)
        BY <1>2, <3>1, <3>2, MoveRow
      <3> QED
        BY <3>2, <3>3 DEF RowMoves
    <2>2. CASE Retry(r)
      BY <1>2, <2>2, RowSame DEF Retry
    <2> QED
      BY <2>1, <2>2
  <1>4. TransferGoesOn(r, i, t)
    BY <1>1, <1>2, <1>3 DEF TransferGoesOn, Transferable, Visible, There
  <1> QED
    BY <1>4, TransferKeeps

LEMMA GetKeeps ==
    ASSUME InboundInv, NEW r \in Rows, NEW i \in Transfers,
           Get(r, i) \/ Fetch(r, i) \/ Delete(r, i)
    PROVE  InboundInv'
  <1> DEFINE was == transfer[r][i]
  <1>0. /\ TypeOK /\ was.attempt \in Nat /\ RowFits(r) /\ RunFits(r, i)
        /\ UNCHANGED <<big, row, received, files, parse, retired, history>>
        /\ RowMoves(r, row'[r])
    BY RowSame DEF InboundInv, TypeOK, Transfer, AllFits, RunsFit, Get, Fetch, Delete
  <1>1. CASE Get(r, i)
    <2>1. PICK phase \in {"done", "fetch", "delete"} :
            /\ Go(r, i, phase)
            /\ phase = "done" <=> ~Transferable(r)
            /\ phase = "fetch" => row[r].file = NoFile
            /\ phase = "delete" => row[r].file # NoFile
      BY <1>1 DEF Get
    <2>2. PICK t \in Transfer :
            /\ TransferMoves(r, i, t) /\ t.phase = phase
            /\ phase # "done" => t.attempt = was.attempt
      BY <1>0, <2>1, GoMoves DEF TransferPhase
    <2>3. was.phase = "start" /\ was.attempt > 0 /\ object' = object
      BY <1>0, <1>1 DEF Get, At, RunFits
    <2>4. Visible(r) =>
             /\ t.phase = "delete" => row[r].file # NoFile \/ row[r].parsed
             /\ t.phase \in {"fetch", "body"} /\ parse[r][i].phase # "none" => row[r].parsed
             /\ t.phase # "done" \/ row'[r].deleted \/ row'[r].error
      BY <1>0, <2>1, <2>2 DEF RunFits, Transferable, RowFits
    <2>5. TransferGoesOn(r, i, t)
      BY <1>0, <2>1, <2>2, <2>3, <2>4 DEF TransferGoesOn, RowFits, RunFits
    <2> QED
      BY <2>5, TransferKeeps
  <1>2. CASE Fetch(r, i)
    <2>1. PICK t \in Transfer :
            /\ TransferMoves(r, i, t) /\ t.phase = IF MessageOf[r] \in big THEN "reject" ELSE "body"
            /\ t.attempt = was.attempt
      BY <1>0, <1>2, GoMoves DEF Fetch, TransferPhase
    <2>2. was.phase = "fetch" /\ was.attempt > 0 /\ object' = object /\ MessageOf[r] \in object
      BY <1>0, <1>2 DEF Fetch, At, RunFits
    <2>3. TransferGoesOn(r, i, t)
      BY <1>0, <2>1, <2>2 DEF TransferGoesOn, RowFits, RunFits
    <2> QED
      BY <2>3, TransferKeeps
  <1>3. CASE Delete(r, i)
    <2>1. PICK t \in Transfer :
            /\ TransferMoves(r, i, t) /\ t.phase = "mark"
            /\ t.attempt = was.attempt
      BY <1>0, <1>3, GoMoves DEF Delete, TransferPhase
    <2>2. was.phase = "delete" /\ was.attempt > 0 /\ object' = object \ {MessageOf[r]}
      BY <1>0, <1>3 DEF Delete, At, RunFits
    <2>3. TransferGoesOn(r, i, t)
      BY <1>0, <2>1, <2>2 DEF TransferGoesOn, RowFits, RunFits
    <2> QED
      BY <2>3, TransferKeeps
  <1> QED
    BY <1>1, <1>2, <1>3

\* A transfer ends and says so in the row, if that is still there.
LEMMA EndKeeps ==
    ASSUME InboundInv, NEW r \in Rows, NEW i \in Transfers,
           Reject(r, i) \/ Deleted(r, i) \/ TransferDone(r, i)
    PROVE  InboundInv'
  <1> DEFINE was == transfer[r][i]
  <1>0. /\ TypeOK /\ was.attempt \in Nat /\ RowFits(r) /\ RunFits(r, i) /\ row[r] \in Row
        /\ UNCHANGED <<big, object, received, files, parse, retired, history>>
        /\ Go(r, i, "done")
        /\ was.phase \in {"reject", "mark", "failed"}
    BY DEF InboundInv, TypeOK, Transfer, AllFits, RunsFit, Reject, Deleted, TransferDone,
           At
  <1>1. PICK t \in Transfer : TransferMoves(r, i, t) /\ t.phase = "done"
    BY <1>0, GoMoves DEF TransferPhase
  <1>2. /\ RowMoves(r, row'[r])
        /\ row'[r].status = row[r].status /\ row'[r].file = row[r].file
        /\ row'[r].parsed <=> row[r].parsed
        /\ row'[r].rejected => MessageOf[r] \in big /\ row'[r].error
        /\ ~There(r) => row'[r] = row[r]
        /\ There(r) => row'[r].deleted \/ row'[r].error
    <2>1. CASE ~There(r)
      BY <1>0, <2>1, RowSame DEF Reject, Deleted, TransferDone, RowFits
    <2>2. CASE There(r)
      <3>1. \E x \in Row :
              /\ row' = [row EXCEPT ![r] = x]
              /\ x.status = row[r].status /\ x.file = row[r].file
              /\ x.parsed <=> row[r].parsed
              /\ x.rejected => MessageOf[r] \in big /\ x.error
              /\ x.deleted \/ x.error
        <4>1. CASE Reject(r, i)
          <5> DEFINE x == [row[r] EXCEPT !.rejected = TRUE, !.error = TRUE]
          <5>1. row' = [row EXCEPT ![r] = x] /\ MessageOf[r] \in big
            BY <1>0, <2>2, <4>1 DEF Reject, At, RunFits
          <5>2. /\ x \in Row /\ x.status = row[r].status /\ x.file = row[r].file
                /\ x.parsed <=> row[r].parsed
                /\ x.error
            BY <1>0 DEF Row
          <5> HIDE DEF x
          <5> QED
            BY <5>1, <5>2
        <4>2. CASE Deleted(r, i)
          <5> DEFINE x == [row[r] EXCEPT !.deleted = TRUE, !.error = FALSE]
          <5>1. row' = [row EXCEPT ![r] = x] /\ MessageOf[r] \notin big
            BY <1>0, <2>2, <4>2 DEF Deleted, At, RunFits
          <5>2. /\ x \in Row /\ x.status = row[r].status /\ x.file = row[r].file
                /\ x.parsed <=> row[r].parsed
                /\ x.rejected <=> row[r].rejected
                /\ x.deleted
            BY <1>0 DEF Row
          <5> HIDE DEF x
          <5> QED
            BY <1>0, <5>1, <5>2 DEF RowFits
        <4>3. CASE TransferDone(r, i)
          <5> DEFINE x == [row[r] EXCEPT !.error = TRUE]
          <5>1. row' = [row EXCEPT ![r] = x]
            BY <2>2, <4>3 DEF TransferDone
          <5>2. /\ x \in Row /\ x.status = row[r].status /\ x.file = row[r].file
                /\ x.parsed <=> row[r].parsed
                /\ x.rejected <=> row[r].rejected
                /\ x.error
            BY <1>0 DEF Row
          <5> HIDE DEF x
          <5> QED
            BY <1>0, <5>1, <5>2 DEF RowFits
        <4> QED
          BY <4>1, <4>2, <4>3
      <3>2. PICK x \in Row :
              /\ row' = [row EXCEPT ![r] = x]
              /\ x.status = row[r].status /\ x.file = row[r].file
              /\ x.parsed <=> row[r].parsed
              /\ x.rejected => MessageOf[r] \in big /\ x.error
              /\ x.deleted \/ x.error
        BY <3>1
      <3>3. RowMoves(r, x)
        BY <1>0, <3>2, MoveRow
      <3> QED
        BY <2>2, <3>2, <3>3 DEF RowMoves
    <2> QED
      BY <2>1, <2>2
  <1>3. row[r].status # "none"
    BY <1>0 DEF RunFits
  <1>4. TransferGoesOn(r, i, t)
    BY <1>0, <1>1, <1>2, <1>3 DEF TransferGoesOn, Visible
  <1> QED
    BY <1>4, TransferKeeps

LEMMA FailKeeps ==
    ASSUME InboundInv, NEW r \in Rows, NEW i \in Transfers, Fail(r, i)
    PROVE  InboundInv'
  <1> DEFINE was == transfer[r][i]
  <1>0. /\ TypeOK /\ was \in Transfer /\ was.attempt \in Nat /\ RowFits(r) /\ RunFits(r, i)
        /\ UNCHANGED <<big, object, row, received, parse, retired, history>>
        /\ was.phase \notin {"none", "failed", "done"}
        /\ RowMoves(r, row'[r])
    BY RowSame DEF InboundInv, TypeOK, Transfer, AllFits, RunsFit, Fail
  <1>1. \E t \in Transfer :
          /\ transfer' = [transfer EXCEPT ![r][i] = t]
          /\ \/ t.phase = "start" /\ t.attempt = was.attempt + 1
             \/ t.phase = "failed"
    <2>1. CASE was.attempt < TransferAttempts
      <3>1. PICK t : t = [phase |-> "start", attempt |-> was.attempt + 1]
        OBVIOUS
      <3>2. t \in Transfer /\ t.phase = "start" /\ t.attempt = was.attempt + 1
        BY <1>0, <2>1, <3>1, InboundAssumption DEF Transfer, TransferPhase
      <3>3. transfer' = [transfer EXCEPT ![r][i] = t]
        BY <2>1, <3>1 DEF Fail
      <3> QED
        BY <3>2, <3>3
    <2>2. CASE ~(was.attempt < TransferAttempts)
      <3>1. PICK t : t = [NoTransfer EXCEPT !.phase = "failed"]
        OBVIOUS
      <3>2. t \in Transfer /\ t.phase = "failed"
        BY <3>1, InboundAssumption DEF NoTransfer, Transfer, TransferPhase
      <3>3. transfer' = [transfer EXCEPT ![r][i] = t]
        BY <2>2, <3>1 DEF Fail
      <3> QED
        BY <3>2, <3>3
    <2> QED
      BY <2>1, <2>2
  <1>2. PICK t \in Transfer :
          /\ transfer' = [transfer EXCEPT ![r][i] = t]
          /\ \/ t.phase = "start" /\ t.attempt = was.attempt + 1
             \/ t.phase = "failed"
    BY <1>1
  <1>3. TransferMoves(r, i, t)
    BY <1>0, <1>2, MoveTransfer
  <1>4. files' = IF was.phase = "file" THEN files \ {InHand(r, i)} ELSE files
    BY DEF Fail, At
  <1>5. t.attempt > 0 \/ t.phase = "failed"
    BY <1>0, <1>2
  <1>6. TransferGoesOn(r, i, t)
    BY <1>0, <1>2, <1>3, <1>4, <1>5 DEF TransferGoesOn, RowFits, RunFits, There
  <1> QED
    BY <1>6, TransferKeeps

\* A new row has nothing, and any other of its message is gone, with its email made.
LEMMA IngestKeeps ==
    ASSUME InboundInv, NEW m \in Messages, Ingest(m)
    PROVE  InboundInv'
  <1>0. PICK r \in Rows :
           /\ MessageOf[r] = m
           /\ row[r].status = "none"
           /\ row' = [row EXCEPT ![r].status = "there"]
           /\ Enqueue(r)
    BY DEF Ingest, RowsOf
  <1>1. /\ TypeOK /\ row[r] = NoRow /\ Belongings(r) = {NoFile} /\ ~received[r].there
        /\ received[r].raw = NoFile /\ received[r].attached = {}
        /\ arrivals[r] = 0 /\ RunsFit(r) /\ FilesOwned(r)
        /\ \A i \in Transfers : transfer[r][i].phase = "none" /\ parse[r][i].phase = "none"
        /\ UNCHANGED <<big, object, received, files, parse, retired, history>>
    <2>1. row[r].status = "none" /\ AllFits(r) /\ TypeOK
      BY <1>0 DEF InboundInv
    <2>2. row[r] = NoRow
      BY <2>1 DEF TypeOK, NoRow
    <2>3. /\ arrivals[r] = 0 /\ ~received[r].there
          /\ received[r].raw = NoFile /\ received[r].attached = {}
      BY <2>1 DEF AllFits, RowFits, ReceivedFits
    <2>4. RunsFit(r) /\ FilesOwned(r)
      BY <2>1 DEF AllFits
    <2>5. \A i \in Transfers : transfer[r][i].phase = "none" /\ parse[r][i].phase = "none"
      BY <2>1, <2>4 DEF RunsFit, RunFits
    <2> QED
      BY <2>1, <2>2, <2>3, <2>4, <2>5 DEF Belongings, Ingest
  <1>2. PICK i \in Transfers, t \in Transfer :
           TransferMoves(r, i, t) /\ t.phase = "start" /\ t.attempt = 1
    BY <1>0, EnqueueMoves
  <1>3. /\ RowMoves(r, row'[r])
        /\ row'[r] \in Row /\ row'[r].status = "there" /\ row'[r].file = NoFile
        /\ ~row'[r].parsed /\ ~row'[r].rejected
    <2> DEFINE x == [NoRow EXCEPT !.status = "there"]
    <2>1. /\ x \in Row /\ x.status = "there" /\ x.file = NoFile
          /\ ~x.parsed /\ ~x.rejected
      BY DEF NoRow, Row
    <2>2. row' = [row EXCEPT ![r] = x]
      BY <1>0, <1>1
    <2> HIDE DEF x
    <2>3. RowMoves(r, x)
      BY <1>1, <2>1, <2>2, MoveRow
    <2> QED
      BY <2>1, <2>3 DEF RowMoves
  <1>4. TypeOK'
    <2>1. ASSUME NEW q \in Rows, row'[q].status # "there"
          PROVE  row'[q] = [NoRow EXCEPT !.status = row'[q].status]
      BY <1>1, <1>3, <2>1 DEF RowMoves, TypeOK
    <2> QED
      BY <1>1, <1>2, <1>3, <2>1 DEF TypeOK, TransferMoves, RowMoves, history
  <1>5. Local(r)
    BY <1>1, <1>2, <1>3 DEF Local, TransferMoves, RowMoves, history
  <1>6. RowFits(r)' /\ ReceivedFits(r)'
    <2>1. RowFits(r)'
      BY <1>1, <1>3 DEF RowFits, There, history
    <2> QED
      BY <1>1, <2>1 DEF ReceivedFits, history
  <1>7. RunsFit(r)'
    BY <1>1, <1>2, <1>3 DEF RunsFit, RunFits, TransferMoves
  <1>8. HandsFull(r)'
    BY <1>1, <1>2 DEF HandsFull, At, TransferMoves
  <1>9. FilesOwned(r)'
    <2>1. NoFile \notin FilesOf(r)
      BY FilesOfFiles
    <2>2. \A f \in files : f \notin FilesOf(r)
      BY <1>1, <2>1 DEF FilesOwned, HasInHand, At, NoRow
    <2> QED
      BY <1>1, <2>2 DEF FilesOwned, FilesOf
  <1>10. Kept(r)'
    BY <1>2, <1>3 DEF Kept, UnderWay, TransferMoves
  <1>11. \A q \in Rows : AllFits(q)'
    BY <1>1, <1>5, <1>6, <1>7, <1>8, <1>9, <1>10, OthersFit DEF InboundInv, AllFits
  <1>12. ASSUME NEW n \in Messages
         PROVE  MessageFits(n)'
    <2>1. MessageFits(n) /\ ~retired
      BY DEF InboundInv, Ingest
    <2>2. /\ ~Holds(r)'
          /\ row'[r].status = "there" /\ There(r)'
          /\ UNCHANGED <<object, retired, outlived, lapsed>>
      BY <1>1, <1>2, <1>3 DEF Holds, TransferMoves, There, history
    <2>3. ASSUME NEW q \in Rows, q # r
          PROVE  /\ row'[q] = row[q] /\ arrivals'[q] = arrivals[q]
                 /\ There(q)' <=> There(q)
                 /\ Holds(q)' <=> Holds(q)
      BY <1>5, <2>3 DEF Local, There, Holds
    <2>4. Spent(n)' <=> Spent(n)
      BY <2>2 DEF Spent
    <2>5. \A q \in RowsOf(n) :
             row'[q].status = "gone" => arrivals'[q] > 0 /\ Spent(n)'
      BY <2>1, <2>2, <2>3, <2>4 DEF MessageFits, RowsOf
    <2>6. \/ n \in object' \cup lapsed'
          \/ \E q \in RowsOf(n) : row'[q].file # NoFile \/ arrivals'[q] > 0
      <3>1. row[r].file = NoFile /\ arrivals[r] = 0
        BY <1>1 DEF NoRow
      <3> QED
        BY <2>1, <2>2, <2>3, <3>1 DEF MessageFits, RowsOf
    <2>7. ASSUME NEW q \in RowsOf(n), q # r, r \in RowsOf(n)
          PROVE  ~There(q) /\ (row[q].status # "none" => Spent(n))
      <3>1. n = m /\ q \in Rows
        BY <1>0, <2>7 DEF RowsOf
      <3>2. ~There(q)
        BY <2>7, <3>1 DEF Ingest, Known, RowsOf
      <3>3. row[q].status \in {"none", "gone"}
        BY <1>1, <3>1, <3>2 DEF There, TypeOK, Row
      <3> QED
        BY <2>1, <2>7, <3>2, <3>3 DEF MessageFits
    <2>8. ASSUME NEW q \in RowsOf(n), NEW p \in RowsOf(n), q # p
          PROVE  /\ ~(There(q)' /\ There(p)')
                 /\ row'[q].status # "none" /\ row'[p].status # "none" => Spent(n)'
                 /\ Holds(q)' /\ Holds(p)' => n \in outlived'
      <3>1. q \in Rows /\ p \in Rows
        BY DEF RowsOf
      <3>2. CASE q # r /\ p # r
        BY <2>1, <2>2, <2>3, <2>4, <2>8, <3>1, <3>2 DEF MessageFits
      <3>3. CASE q = r
        BY <2>2, <2>3, <2>4, <2>7, <2>8, <3>1, <3>3
      <3>4. CASE p = r
        BY <2>2, <2>3, <2>4, <2>7, <2>8, <3>1, <3>4
      <3> QED
        BY <3>2, <3>3, <3>4
    <2> QED
      BY <2>5, <2>6, <2>8 DEF MessageFits
  <1> QED
    BY <1>4, <1>11, <1>12 DEF InboundInv

LEMMA StoreKeeps ==
    ASSUME InboundInv, NEW r \in Rows, NEW i \in Transfers, Store(r, i)
    PROVE  InboundInv'
  <1> DEFINE was == transfer[r][i]
             f == InHand(r, i)
  <1>0. /\ TypeOK /\ was \in Transfer
        /\ RowFits(r) /\ ReceivedFits(r) /\ RunsFit(r) /\ HandsFull(r) /\ FilesOwned(r)
        /\ Kept(r)
        /\ was.phase = "body" /\ was.attempt > 0
        /\ UNCHANGED <<big, object, row, received, parse, retired, history>>
        /\ files' = files \cup {f}
    <2>1. TypeOK /\ AllFits(r) /\ was.phase = "body" /\ was \in Transfer
      BY DEF InboundInv, Store, At, TypeOK
    <2>2. was.attempt > 0
      BY <2>1 DEF AllFits, RunsFit, RunFits
    <2> QED
      BY <2>1, <2>2 DEF AllFits, Store
  <1>1. PICK t \in Transfer :
          TransferMoves(r, i, t) /\ t.phase = "file" /\ t.attempt = was.attempt
    BY <1>0, GoMoves DEF Store, TransferPhase
  <1>2. f \in FilesOf(r)
    <2>1. was.attempt \in 1..TransferAttempts
      BY <1>0 DEF Transfer
    <2> QED
      BY <2>1 DEF InHand, FilesOf
  <1> HIDE DEF f
  <1>3. TypeOK'
    BY <1>0, <1>1, <1>2, FilesOfFiles DEF TypeOK, TransferMoves, history
  <1>4. Local(r)
    BY <1>0, <1>1, <1>2 DEF Local, TransferMoves, history
  <1>5. RowFits(r)' /\ ReceivedFits(r)'
    <2>1. ASSUME NEW j \in Transfers, NEW a \in 1..TransferAttempts, Past(r, j, a)
          PROVE  Past(r, j, a)'
      BY <1>0, <1>1, <2>1 DEF Past, TransferMoves
    <2> QED
      BY <1>0, <2>1 DEF RowFits, ReceivedFits, There, ParsePast, history
  <1>6. RunsFit(r)'
    BY <1>0, <1>1 DEF RunsFit, RunFits, TransferMoves, Visible, There
  <1>7. HandsFull(r)' /\ FilesOwned(r)'
    <2>1. ASSUME NEW j \in Transfers, NEW g, HasInHand(r, j, g)
          PROVE  HasInHand(r, j, g)'
      BY <1>0, <1>1, <2>1 DEF HasInHand, At, InHand, Extra, TransferMoves
    <2>2. ASSUME NEW g, g = f
          PROVE  HasInHand(r, i, g)'
      BY <1>0, <1>1, <2>2 DEF HasInHand, At, InHand, TransferMoves, f
    <2>3. HandsFull(r)'
      BY <1>0, <1>1 DEF HandsFull, At, InHand, TransferMoves, f
    <2>4. FilesOwned(r)'
      <3>1. ASSUME NEW g \in files', g \in FilesOf(r)
            PROVE  \/ g = row[r].file
                   \/ g \in Belongings(r)
                   \/ \E j \in Transfers : HasInHand(r, j, g)'
        <4>1. CASE g = f
          BY <2>2, <4>1
        <4>2. CASE g \in files
          <5>1. \/ g = row[r].file
                \/ g \in Belongings(r)
                \/ \E j \in Transfers : HasInHand(r, j, g)
            BY <1>0, <3>1, <4>2 DEF FilesOwned
          <5> QED
            BY <2>1, <5>1
        <4> QED
          BY <1>0, <3>1, <4>1, <4>2
      <3> QED
        BY <1>0, <3>1 DEF FilesOwned, FilesOf, Belongings
    <2> QED
      BY <2>3, <2>4
  <1>8. Kept(r)'
    BY <1>0, <1>1 DEF Kept, UnderWay, BeingParsed, TransferMoves, Visible, There, history
  <1>9. Gentle(r)
    BY <1>0, <1>1 DEF Gentle, Holds, TransferMoves, history
  <1> QED
    BY <1>3, <1>4, <1>5, <1>6, <1>7, <1>8, <1>9, OneRow DEF AllFits

\* What came out of stored for a message that is wanted: it has a file, and a parse
\* unless it was parsed.
LEMMA StoredKeeps ==
    ASSUME InboundInv, NEW r \in Rows, NEW i \in Transfers, Stored(r, i)
    PROVE  InboundInv'
  <1> DEFINE was == transfer[r][i]
             f == InHand(r, i)
  <1>0. /\ TypeOK /\ was \in Transfer /\ row[r] \in Row
        /\ \A j \in Transfers : transfer[r][j].attempt \in Nat
        /\ RowFits(r) /\ ReceivedFits(r) /\ RunsFit(r) /\ HandsFull(r) /\ FilesOwned(r)
        /\ RunFits(r, i) /\ f \in files
        /\ was.phase = "file" /\ was.attempt > 0 /\ MessageOf[r] \notin big
        /\ UNCHANGED <<big, object, received, retired, history>>
    <2>1. TypeOK /\ AllFits(r) /\ was.phase = "file"
      BY DEF InboundInv, Stored, At
    <2>2. /\ was \in Transfer /\ row[r] \in Row
          /\ \A j \in Transfers : transfer[r][j].attempt \in Nat
      BY <2>1 DEF TypeOK, Transfer
    <2>3. RunFits(r, i) /\ f \in files
      BY <2>1 DEF AllFits, RunsFit, HandsFull, At
    <2>4. was.attempt > 0 /\ MessageOf[r] \notin big
      BY <2>1, <2>3 DEF RunFits
    <2> HIDE DEF f, was
    <2> QED
      BY <2>1, <2>2, <2>3, <2>4 DEF AllFits, Stored
  <1>1. PICK t \in Transfer :
          TransferMoves(r, i, t) /\ t.phase = "delete" /\ t.attempt = was.attempt
    BY <1>0, GoMoves DEF Stored, TransferPhase
  <1>2. was.attempt \in 1..TransferAttempts
    BY <1>0 DEF Transfer
  <1>3. f \in FilesOf(r) /\ f # NoFile /\ f = Raw(r, i, was.attempt)
    BY <1>2, FilesDiffer DEF InHand, FilesOf
  <1>4. CASE Unwanted(r)
    <2>1. /\ files' = files \ {f} /\ UNCHANGED <<row, parse>>
      BY <1>4 DEF Stored
    <2>2. RowMoves(r, row'[r])
      BY <1>0, <2>1, RowSame
    <2>3. Visible(r) => row[r].parsed
      BY <1>4 DEF Unwanted
    <2>4. row[r].status # "none"
      BY <1>0 DEF RunFits
    <2>5. TransferGoesOn(r, i, t)
      BY <1>0, <1>1, <2>1, <2>2, <2>3, <2>4 DEF TransferGoesOn, RowFits
    <2> QED
      BY <2>5, TransferKeeps
  <1>5. CASE ~Unwanted(r)
    <2>0. /\ There(r) /\ Visible(r)
          /\ row[r].parsed => row[r].file # NoFile
          /\ ~row[r].parsed => parse[r][i].phase = "none"
      BY <1>0, <1>5 DEF Unwanted, Visible, RunFits
    <2>1. row[r].file # f
      BY <1>0, <1>3, FilesDiffer DEF RowFits, Past
    <2>2. /\ RowMoves(r, row'[r])
          /\ row'[r].status = "there"
          /\ row'[r].parsed <=> row[r].parsed
          /\ row'[r].rejected <=> row[r].rejected
          /\ \/ /\ row[r].file # NoFile /\ row'[r] = row[r]
                /\ files' = files \ {f}
             \/ /\ row[r].file = NoFile /\ row'[r].file = f /\ ~row[r].parsed
                /\ files' = files
      <3>1. CASE row[r].file # NoFile
        <4>1. row' = row /\ files' = files \ {f}
          BY <1>5, <3>1 DEF Stored, Redundant
        <4> QED
          BY <1>0, <2>0, <3>1, <4>1, RowSame DEF There
      <3>2. CASE row[r].file = NoFile
        <4> DEFINE x == [row[r] EXCEPT !.file = f, !.error = FALSE]
        <4>1. row' = [row EXCEPT ![r] = x] /\ files' = files
          BY <1>5, <3>2 DEF Stored
        <4>2. /\ x \in Row /\ x.status = row[r].status /\ x.file = f
              /\ x.parsed <=> row[r].parsed
              /\ x.rejected <=> row[r].rejected
          <5>1. f \in Files
            BY <1>3, FilesOfFiles
          <5> HIDE DEF f
          <5> QED
            BY <1>0, <5>1 DEF Row
        <4> HIDE DEF x
        <4>3. RowMoves(r, x)
          BY <1>0, <4>1, <4>2, MoveRow
        <4> QED
          BY <2>0, <3>2, <4>1, <4>2, <4>3 DEF RowMoves, There
      <3> QED
        BY <3>1, <3>2
    <2>3. \E p \in Parse :
            /\ ParseMoves(r, i, p)
            /\ row[r].parsed => p = parse[r][i]
            /\ ~row[r].parsed => p.phase = "start" /\ p.attempt = 1
      <3>1. CASE row[r].parsed
        <4>1. parse' = parse /\ parse[r][i] \in Parse
          BY <1>0, <3>1 DEF Stored, TypeOK
        <4> QED
          BY <1>0, <3>1, <4>1 DEF ParseMoves, TypeOK
      <3>2. CASE ~row[r].parsed
        <4>1. PICK p : p = [NoParse EXCEPT !.phase = "start", !.attempt = 1]
          OBVIOUS
        <4>2. p \in Parse /\ p.phase = "start" /\ p.attempt = 1
          <5>1. p = [phase |-> "start", attempt |-> 1, source |-> NoFile]
            BY <4>1 DEF NoParse
          <5>2. 1 \in 0..ParseAttempts
            BY InboundAssumption
          <5> QED
            BY <5>1, <5>2 DEF Parse, ParsePhase
        <4>3. parse' = [parse EXCEPT ![r][i] = p]
          BY <1>5, <3>2, <4>1 DEF Stored
        <4> QED
          BY <1>0, <3>2, <4>2, <4>3, MoveParse
      <3> QED
        BY <3>1, <3>2
    <2>4. PICK p \in Parse :
            /\ ParseMoves(r, i, p)
            /\ row[r].parsed => p = parse[r][i]
            /\ ~row[r].parsed => p.phase = "start" /\ p.attempt = 1
      BY <2>3
    <2> HIDE DEF f
    <2>5. f \notin Belongings(r) /\ (~row[r].parsed => ~received[r].there)
      <3>1. f \notin Belongings(r)
        BY <1>0, HandsApart DEF f, At
      <3> QED
        BY <1>0, <2>0, <3>1 DEF ReceivedFits
    <2>6. /\ row'[r].file # NoFile /\ row'[r].file \in files'
          /\ \A g \in Belongings(r) : g \in files => g \in files'
          /\ There(r)' /\ Visible(r)'
      <3>1. row'[r].file # NoFile /\ row'[r].file \in files'
        BY <1>0, <1>3, <2>1, <2>2 DEF RowFits
      <3>2. \A g \in Belongings(r) : g \in files => g \in files'
        BY <2>2, <2>5
      <3> QED
        BY <1>0, <2>0, <2>2, <3>1, <3>2 DEF There, Visible
    <2>6a. row[r].parsed => /\ row'[r] = row[r] /\ files' = files \ {f}
                            /\ parse'[r][i] = parse[r][i]
      BY <2>0, <2>2, <2>4 DEF ParseMoves
    <2>7. TypeOK'
      <3>1. ASSUME NEW q \in Rows, row'[q].status # "there"
            PROVE  row'[q] = [NoRow EXCEPT !.status = row'[q].status]
        BY <1>0, <2>2, <3>1 DEF RowMoves, TypeOK
      <3>2. files' \subseteq Files
        BY <1>0, <2>2 DEF TypeOK
      <3> QED
        BY <1>0, <1>1, <2>2, <2>4, <3>1, <3>2
           DEF TypeOK, TransferMoves, RowMoves, ParseMoves, history
    <2>8. Local(r)
      BY <1>0, <1>1, <1>3, <2>2, <2>4 DEF Local, TransferMoves, RowMoves, ParseMoves, history
    <2>8a. ASSUME NEW j \in Transfers, NEW a \in 1..TransferAttempts, Past(r, j, a)
           PROVE  Past(r, j, a)'
      BY <1>0, <1>1, <2>8a DEF Past, TransferMoves
    <2>9. RowFits(r)'
      <3>1. ASSUME NEW a, a = was.attempt
            PROVE  Past(r, i, a)'
        BY <1>1, <3>1 DEF Past, TransferMoves
      <3>2. \E j \in Transfers, a \in 1..TransferAttempts :
               row'[r].file = Raw(r, j, a) /\ Past(r, j, a)'
        <4>1. CASE row'[r].file = f
          <5>1. PICK a \in 1..TransferAttempts : a = was.attempt
            BY <1>2
          <5>2. row'[r].file = Raw(r, i, a) /\ Past(r, i, a)'
            BY <1>3, <3>1, <4>1, <5>1
          <5> QED
            BY <5>2
        <4>2. CASE row'[r] = row[r]
          BY <1>0, <2>6, <2>8a, <4>2 DEF RowFits
        <4> QED
          BY <2>2, <4>1, <4>2
      <3>3. row'[r].parsed => received[r].there
        BY <1>0, <2>0, <2>2 DEF RowFits
      <3>4. ~row'[r].rejected
        BY <1>0, <2>2 DEF RowFits
      <3>5. /\ arrivals[r] <= 1
            /\ ~row'[r].parsed => arrivals[r] = 0
            /\ row'[r].parsed => arrivals[r] = 1
        BY <1>0, <2>0, <2>2 DEF RowFits
      <3>6. arrivals' = arrivals
        BY <1>0 DEF history
      <3> QED
        BY <1>0, <2>2, <2>6, <3>2, <3>3, <3>4, <3>5, <3>6 DEF RowFits
    <2>10. ReceivedFits(r)'
      <3>1. arrivals' = arrivals /\ robbed' = robbed /\ received' = received
        BY <1>0 DEF history
      <3>2. CASE row[r].parsed
        <4>1. \A j \in Transfers : parse'[r][j] = parse[r][j]
          BY <2>4, <2>6a, <3>2 DEF ParseMoves
        <4> QED
          BY <1>0, <2>0, <2>6, <2>6a, <2>8a, <3>1, <3>2, <4>1
             DEF ReceivedFits, Belongings, ParsePast
      <3>3. CASE ~row[r].parsed
        BY <1>0, <2>5, <3>1, <3>3 DEF ReceivedFits
      <3> QED
        BY <3>2, <3>3
    <2>11. RunsFit(r)'
      <3>1. RunFits(r, i)'
        <4>1. transfer'[r][i] = t /\ parse'[r][i] = p
          BY <1>1, <2>4 DEF TransferMoves, ParseMoves
        <4>2. CASE row[r].parsed
          BY <1>0, <1>1, <2>2, <2>4, <2>6, <4>1, <4>2 DEF RunFits
        <4>3. CASE ~row[r].parsed
          BY <1>0, <1>1, <2>2, <2>4, <2>6, <4>1, <4>3 DEF RunFits
        <4> QED
          BY <4>2, <4>3
      <3>2. ASSUME NEW j \in Transfers \ {i}
            PROVE  RunFits(r, j)'
        <4>1. transfer'[r][j] = transfer[r][j] /\ parse'[r][j] = parse[r][j] /\ RunFits(r, j)
          BY <1>0, <1>1, <2>4 DEF TransferMoves, ParseMoves, RunsFit
        <4> QED
          BY <1>0, <2>0, <2>2, <2>6, <4>1 DEF RunFits
      <3> QED
        BY <3>1, <3>2 DEF RunsFit
    <2>12. HandsFull(r)'
      <3>1. ASSUME NEW j \in Transfers, At(r, j, "file")'
            PROVE  InHand(r, j)' \in files'
        <4>1. j # i /\ At(r, j, "file") /\ InHand(r, j)' = InHand(r, j)
          BY <1>1, <3>1 DEF At, TransferMoves, InHand
        <4>2. InHand(r, j) \in files /\ InHand(r, j) # f
          BY <1>0, <1>3, <4>1, FilesDiffer DEF HandsFull, InHand
        <4> QED
          BY <2>2, <4>1, <4>2
      <3> QED
        BY <3>1 DEF HandsFull
    <2>13. FilesOwned(r)'
      <3> SUFFICES ASSUME NEW g \in files', g \in FilesOf(r)
                   PROVE  \/ g = row'[r].file
                          \/ g \in Belongings(r)
                          \/ \E j \in Transfers : HasInHand(r, j, g)'
        BY <1>0 DEF FilesOwned, FilesOf, Belongings
      <3>1. CASE g = f
        BY <2>2, <3>1
      <3>2. CASE g # f /\ g = row[r].file
        <4>1. row[r].file # NoFile
          BY <3>2, FilesOfFiles
        <4> QED
          BY <2>2, <3>2, <4>1
      <3>3. ASSUME NEW j \in Transfers, HasInHand(r, j, g), g # f
            PROVE  HasInHand(r, j, g)'
        <4>1. CASE j # i
          BY <1>1, <2>4, <3>3, <4>1
             DEF HasInHand, At, InHand, Extra, TransferMoves, ParseMoves
        <4>2. CASE j = i
          <5>1. parse[r][i].phase \in {"complete", "discard"} /\ g = Extra(r, i)
            BY <3>3, <4>2 DEF HasInHand, f
          <5>2. parse'[r][i] = parse[r][i]
            BY <2>0, <2>6a, <5>1
          <5> QED
            BY <4>2, <5>1, <5>2 DEF HasInHand, Extra
        <4> QED
          BY <4>1, <4>2
      <3> QED
        BY <1>0, <2>2, <3>1, <3>2, <3>3 DEF FilesOwned
    <2>14. Kept(r)'
      <3>1. UnderWay(r)'
        BY <1>1 DEF UnderWay, TransferMoves
      <3>2. ~row'[r].parsed => BeingParsed(r)'
        BY <2>2, <2>4 DEF BeingParsed, ParseMoves
      <3> QED
        BY <2>6, <3>1, <3>2 DEF Kept
    <2>15. Gentle(r)
      <3>1. Holds(r)
        BY <1>0 DEF Holds
      <3> QED
        BY <1>0, <2>0, <2>2, <2>6, <3>1 DEF Gentle, There, history
    <2> QED
      BY <2>7, <2>8, <2>9, <2>10, <2>11, <2>12, <2>13, <2>14, <2>15, OneRow DEF AllFits
  <1> QED
    BY <1>4, <1>5

(***************************************************************************)
(* Parses.                                                                 *)
(***************************************************************************)
\* A parse moves on; it may store or delete what it attached, and touches no row.
ParseGoesOn(r, i, p) ==
    LET was == parse[r][i]
    IN  /\ ParseMoves(r, i, p)
        /\ UNCHANGED <<big, object, row, received, transfer, retired,
                       arrivals, lapsed, outlived>>
        /\ unparsed' \in {unparsed, unparsed \cup {r}}
        /\ robbed' \in {robbed, robbed \cup {r}}
        /\ was.phase \notin {"none", "done"}
        /\ p.phase # "none"
        /\ p.phase # "done" =>
             /\ p.attempt > 0
             /\ \/ p.attempt > was.attempt
                \/ p.attempt = was.attempt /\ was.phase # "answer"
        /\ files \ {Extra(r, i)} \subseteq files'
        /\ files' \subseteq files \cup {Extra(r, i)}
        /\ Extra(r, i) \in files' =>
             \/ p.phase \in {"complete", "discard"} /\ p.attempt = was.attempt
             \/ was.phase \notin {"complete", "discard"} /\ files' = files
        /\ was.phase = "answer" /\ Extra(r, i) \in received[r].attached =>
             files' = files \/ r \in robbed'
        /\ Visible(r) =>
             /\ p.phase \in {"answer", "discard"} => row[r].parsed
             /\ p.phase = "done" =>
                  row[r].parsed \/ row[r].file = NoFile \/ r \in unparsed'

LEMMA ParseKeeps ==
    ASSUME InboundInv, NEW r \in Rows, NEW i \in Transfers, NEW p \in Parse,
           ParseGoesOn(r, i, p)
    PROVE  InboundInv'
  <1> DEFINE was == parse[r][i]
             x == Extra(r, i)
  <1>0. /\ TypeOK /\ was \in Parse
        /\ RowFits(r) /\ ReceivedFits(r) /\ RunsFit(r) /\ HandsFull(r) /\ FilesOwned(r)
        /\ Kept(r) /\ RunFits(r, i)
    BY DEF InboundInv, TypeOK, AllFits, RunsFit
  <1>1. /\ ParseMoves(r, i, p)
        /\ UNCHANGED <<big, object, row, received, transfer, retired,
                       arrivals, lapsed, outlived>>
        /\ was.phase \notin {"none", "done"}
        /\ files \ {x} \subseteq files' /\ files' \subseteq files \cup {x}
    BY DEF ParseGoesOn
  <1>2. x \in FilesOf(r) /\ x = Attached(r, i, was.attempt)
    <2>1. was.attempt \in 1..ParseAttempts
      BY <1>0, <1>1 DEF Parse, RunFits
    <2> QED
      BY <2>1 DEF Extra, FilesOf
  <1>3. /\ x # row[r].file /\ x # received[r].raw
        /\ x \in received[r].attached => was.phase = "answer"
    <2>1. x # row[r].file
      BY <1>0, <1>2, FilesDiffer DEF RowFits
    <2>2. x # received[r].raw
      BY <1>0, <1>2, FilesDiffer DEF ReceivedFits
    <2>3. ASSUME x \in received[r].attached
          PROVE  was.phase = "answer"
      <3>1. PICK j \in Transfers, a \in 1..ParseAttempts :
               x = Attached(r, j, a) /\ ParsePast(r, j, a)
        BY <1>0, <2>3 DEF ReceivedFits
      <3>2. j = i /\ a = was.attempt
        <4>1. Attached(r, i, was.attempt) = Attached(r, j, a)
          BY <1>2, <3>1
        <4> QED
          BY <4>1 DEF Attached
      <3> QED
        BY <1>0, <1>1, <3>1, <3>2 DEF ParsePast, Parse
    <2> QED
      BY <2>1, <2>2, <2>3
  <1>4. \A j \in Transfers : At(r, j, "file") => InHand(r, j) # x
    BY <1>2, FilesDiffer DEF InHand
  <1> HIDE DEF x
  <1>5. TypeOK'
    <2>1. files' \subseteq Files
      BY <1>0, <1>1, <1>2, FilesOfFiles DEF TypeOK
    <2>2. unparsed' \subseteq Rows /\ robbed' \subseteq Rows
      BY <1>0 DEF TypeOK, ParseGoesOn
    <2> QED
      BY <1>0, <1>1, <2>1, <2>2 DEF TypeOK, ParseMoves
  <1>6. Local(r)
    BY <1>1, <1>2 DEF Local, ParseMoves, ParseGoesOn
  <1>7. RowFits(r)'
    BY <1>0, <1>1, <1>3 DEF RowFits, There, Past
  <1>8. ReceivedFits(r)'
    <2>1. ASSUME NEW j \in Transfers, NEW a \in 1..ParseAttempts, ParsePast(r, j, a)
          PROVE  ParsePast(r, j, a)'
      <3>1. CASE j # i
        BY <1>1, <2>1, <3>1 DEF ParseMoves, ParsePast
      <3>2. CASE j = i
        <4>1. parse'[r][i] = p /\ was.attempt \in Nat /\ p.attempt \in Nat
          BY <1>0, <1>1 DEF ParseMoves, Parse
        <4>2. p.phase = "done" \/ p.attempt > a
          BY <1>1, <2>1, <3>2, <4>1 DEF ParsePast, ParseGoesOn
        <4> QED
          BY <3>2, <4>1, <4>2 DEF ParsePast
      <3> QED
        BY <3>1, <3>2
    <2>2. ASSUME NEW f \in received[r].attached
          PROVE  f \in files' \/ r \in robbed'
      <3>1. f \in files \/ r \in robbed
        BY <1>0, <2>2 DEF ReceivedFits
      <3>2. r \in robbed => r \in robbed'
        BY DEF ParseGoesOn
      <3>3. CASE f = x
        BY <1>3, <2>2, <3>1, <3>2, <3>3 DEF ParseGoesOn, x
      <3>4. CASE f # x
        BY <1>1, <3>1, <3>2, <3>4
      <3> QED
        BY <3>3, <3>4
    <2>3. received[r].raw \in files => received[r].raw \in files'
      BY <1>1, <1>3
    <2> QED
      BY <1>0, <1>1, <2>1, <2>2, <2>3 DEF ReceivedFits, There, Past
  <1>9. RunsFit(r)'
    <2>1. RunFits(r, i)'
      <3>1. parse'[r][i] = p
        BY <1>1 DEF ParseMoves
      <3> QED
        BY <1>0, <1>1, <3>1 DEF RunFits, ParseGoesOn, Visible, There
    <2>2. ASSUME NEW j \in Transfers \ {i}
          PROVE  RunFits(r, j)'
      BY <1>0, <1>1 DEF RunFits, RunsFit, ParseMoves, Visible, There
    <2> QED
      BY <2>1, <2>2 DEF RunsFit
  <1>10. HandsFull(r)'
    BY <1>0, <1>1, <1>4 DEF HandsFull, At, InHand
  <1>11. FilesOwned(r)'
    <2>1. ASSUME NEW f \in files', f \in FilesOf(r)
          PROVE  \/ f = row[r].file
                 \/ f \in Belongings(r)
                 \/ \E j \in Transfers : HasInHand(r, j, f)'
      <3>1. CASE f = x /\ p.phase \in {"complete", "discard"} /\ p.attempt = was.attempt
        <4>1. HasInHand(r, i, f)'
          BY <1>1, <1>2, <3>1 DEF HasInHand, Extra, ParseMoves
        <4> QED
          BY <4>1
      <3>2. CASE ~(f = x /\ p.phase \in {"complete", "discard"} /\ p.attempt = was.attempt)
        <4>1. f \in files /\ ~(f = x /\ was.phase \in {"complete", "discard"})
          BY <1>1, <2>1, <3>2 DEF ParseGoesOn, x
        <4>2. \/ f = row[r].file
              \/ f \in Belongings(r)
              \/ \E j \in Transfers : HasInHand(r, j, f)
          BY <1>0, <2>1, <4>1 DEF FilesOwned
        <4>3. ASSUME NEW j \in Transfers, HasInHand(r, j, f)
              PROVE  HasInHand(r, j, f)'
          BY <1>1, <4>1, <4>3 DEF HasInHand, At, InHand, Extra, ParseMoves, x
        <4> QED
          BY <4>2, <4>3
      <3> QED
        BY <3>1, <3>2
    <2> QED
      BY <1>1, <2>1 DEF FilesOwned, FilesOf, Belongings
  <1>12. Kept(r)'
    <2> SUFFICES ASSUME Visible(r)
                 PROVE  Kept(r)'
      BY <1>1 DEF Kept, Visible, There
    <2>1. row[r].file # NoFile /\ ~row[r].parsed => BeingParsed(r)' \/ r \in unparsed'
      <3>1. p.phase # "done" => BeingParsed(r)'
        BY <1>1 DEF BeingParsed, ParseMoves, ParseGoesOn
      <3> QED
        BY <3>1 DEF ParseGoesOn
    <2> QED
      BY <1>0, <1>1, <2>1 DEF Kept, UnderWay
  <1>13. Gentle(r)
    BY <1>1 DEF Gentle, Holds
  <1> QED
    BY <1>5, <1>6, <1>7, <1>8, <1>9, <1>10, <1>11, <1>12, <1>13, OneRow DEF AllFits

\* parseSource, the parse that reads and the one that stores what it found.
LEMMA WorkKeeps ==
    ASSUME InboundInv, NEW r \in Rows, NEW i \in Transfers,
           ParseSource(r, i) \/ Read(r, i) \/ Attach(r, i)
    PROVE  InboundInv'
  <1> DEFINE was == parse[r][i]
  <1>0. /\ TypeOK /\ was \in Parse /\ RunFits(r, i) /\ row[r] \in Row
    BY DEF InboundInv, AllFits, RunsFit, TypeOK
  <1>1. CASE ParseSource(r, i)
    <2>1. was.phase = "start" /\ was.attempt > 0
      BY <1>0, <1>1 DEF ParseSource, ParseAt, RunFits
    <2>2. CASE ~Visible(r) \/ row[r].parsed \/ row[r].file = NoFile
      <3>1. parse' = [parse EXCEPT ![r][i] = ParseDone]
        BY <1>1, <2>2 DEF ParseSource
      <3>2. ParseMoves(r, i, ParseDone)
        BY <1>0, <3>1, DoneIsParse, MoveParse
      <3>3. ParseGoesOn(r, i, ParseDone)
        BY <1>1, <2>1, <2>2, <3>2, DoneIsParse DEF ParseGoesOn, ParseSource, history
      <3> QED
        BY <3>3, DoneIsParse, ParseKeeps
    <2>3. CASE ~(~Visible(r) \/ row[r].parsed \/ row[r].file = NoFile)
      <3>1. PICK p : p = [was EXCEPT !.phase = "read", !.source = row[r].file]
        OBVIOUS
      <3>2. p \in Parse /\ p.phase = "read" /\ p.attempt = was.attempt
        BY <1>0, <3>1 DEF Parse, ParsePhase, Row
      <3>3. parse' = [parse EXCEPT ![r][i] = p]
        BY <1>1, <2>3, <3>1 DEF ParseSource
      <3>4. ParseMoves(r, i, p)
        BY <1>0, <3>2, <3>3, MoveParse
      <3>5. ParseGoesOn(r, i, p)
        BY <1>1, <2>1, <3>2, <3>4 DEF ParseGoesOn, ParseSource, history
      <3> QED
        BY <3>2, <3>5, ParseKeeps
    <2> QED
      BY <2>2, <2>3
  <1>2. CASE Read(r, i)
    <2>1. PICK p \in Parse :
            ParseMoves(r, i, p) /\ p.phase = "attach" /\ p.attempt = was.attempt
      BY <1>0, <1>2, ParseGoMoves DEF Read, ParsePhase
    <2>2. was.phase = "read" /\ was.attempt > 0
      BY <1>0, <1>2 DEF Read, ParseAt, RunFits
    <2>3. ParseGoesOn(r, i, p)
      BY <1>2, <2>1, <2>2 DEF ParseGoesOn, Read, history
    <2> QED
      BY <2>3, ParseKeeps
  <1>3. CASE Attach(r, i)
    <2>1. PICK p \in Parse :
            ParseMoves(r, i, p) /\ p.phase = "complete" /\ p.attempt = was.attempt
      BY <1>0, <1>3, ParseGoMoves DEF Attach, ParsePhase
    <2>2. was.phase = "attach" /\ was.attempt > 0
      BY <1>0, <1>3 DEF Attach, ParseAt, RunFits
    <2>3. ParseGoesOn(r, i, p)
      BY <1>3, <2>1, <2>2 DEF ParseGoesOn, Attach, history
    <2> QED
      BY <2>3, ParseKeeps
  <1> QED
    BY <1>1, <1>2, <1>3

\* A parse that comes too late, one that discards what it attached, one that hears it
\* was in time, and one that fails or loses that answer.
LEMMA VainKeeps ==
    ASSUME InboundInv, NEW r \in Rows, NEW i \in Transfers,
           \/ Complete(r, i) /\ ~Completable(r)
           \/ Discard(r, i)
           \/ Committed(r, i)
           \/ ParseFail(r, i)
           \/ AnswerDies(r, i)
           \/ AnswerLost(r, i)
    PROVE  InboundInv'
  <1> DEFINE was == parse[r][i]
  <1>0. TypeOK /\ was \in Parse /\ RunFits(r, i)
    BY DEF InboundInv, AllFits, RunsFit, TypeOK
  <1>1. CASE Complete(r, i) /\ ~Completable(r)
    <2>1. PICK p \in Parse :
            ParseMoves(r, i, p) /\ p.phase = "discard" /\ p.attempt = was.attempt
      BY <1>0, <1>1, ParseGoMoves DEF Complete, ParsePhase
    <2>2. was.phase = "complete" /\ was.attempt > 0
      BY <1>0, <1>1 DEF Complete, ParseAt, RunFits
    <2>3. Visible(r) => row[r].parsed
      BY <1>0, <1>1, <2>2 DEF RunFits, Completable
    <2>4. ParseGoesOn(r, i, p)
      BY <1>1, <2>1, <2>2, <2>3 DEF ParseGoesOn, Complete, history
    <2> QED
      BY <2>4, ParseKeeps
  <1>2. CASE Discard(r, i)
    <2>1. PICK p \in Parse : ParseMoves(r, i, p) /\ p.phase = "done"
      BY <1>0, <1>2, ParseGoMoves DEF Discard, ParsePhase
    <2>2. was.phase = "discard"
      BY <1>2 DEF Discard, ParseAt
    <2>3. Visible(r) => row[r].parsed
      BY <1>0, <2>2 DEF RunFits
    <2>4. ParseGoesOn(r, i, p)
      BY <1>2, <2>1, <2>2, <2>3 DEF ParseGoesOn, Discard, history
    <2> QED
      BY <2>4, ParseKeeps
  <1>3. CASE Committed(r, i)
    <2>1. PICK p \in Parse : ParseMoves(r, i, p) /\ p.phase = "done"
      BY <1>0, <1>3, ParseGoMoves DEF Committed, ParsePhase
    <2>2. was.phase = "answer"
      BY <1>3 DEF Committed, ParseAt
    <2>3. Visible(r) => row[r].parsed
      BY <1>0, <2>2 DEF RunFits
    <2>4. ParseGoesOn(r, i, p)
      BY <1>3, <2>1, <2>2, <2>3 DEF ParseGoesOn, Committed, history
    <2> QED
      BY <2>4, ParseKeeps
  <1>4. CASE ParseFail(r, i) \/ AnswerDies(r, i) \/ AnswerLost(r, i)
    <2>1. /\ was.phase \notin {"none", "done"} /\ was.attempt > 0 /\ was.attempt \in Nat
          /\ ParseAgain(r, i)
      BY <1>0, <1>4 DEF ParseFail, AnswerDies, AnswerLost, ParseAt, RunFits, Parse
    <2>2. /\ UNCHANGED <<big, object, row, received, transfer, retired,
                         arrivals, lapsed, outlived>>
          /\ robbed' \in {robbed, robbed \cup {r}}
          /\ \/ files' = files \ {Extra(r, i)}
             \/ files' = files /\ was.phase = "answer"
          /\ was.phase = "answer" /\ Extra(r, i) \in received[r].attached =>
               files' = files \/ r \in robbed'
      <3>1. CASE ParseFail(r, i)
        BY <3>1 DEF ParseFail
      <3>2. CASE AnswerDies(r, i)
        BY <3>2 DEF AnswerDies, ParseAt
      <3>3. CASE AnswerLost(r, i)
        BY <3>3 DEF AnswerLost
      <3> QED
        BY <1>4, <3>1, <3>2, <3>3
    <2>3. CASE was.attempt < ParseAttempts
      <3>1. PICK p : p = [NoParse EXCEPT !.phase = "start", !.attempt = was.attempt + 1]
        OBVIOUS
      <3>2. p = [phase |-> "start", attempt |-> was.attempt + 1, source |-> NoFile]
        BY <3>1 DEF NoParse
      <3>3. p \in Parse /\ p.phase = "start" /\ p.attempt > 0 /\ p.attempt > was.attempt
        <4>1. /\ was.attempt + 1 \in 0..ParseAttempts
              /\ was.attempt + 1 > 0 /\ was.attempt + 1 > was.attempt
          BY <1>0, <2>1, <2>3, InboundAssumption DEF Parse
        <4> QED
          BY <3>2, <4>1 DEF Parse, ParsePhase
      <3>4. parse' = [parse EXCEPT ![r][i] = p] /\ unparsed' = unparsed
        BY <2>1, <2>3, <3>1 DEF ParseAgain
      <3>5. ParseMoves(r, i, p)
        BY <1>0, <3>3, <3>4, MoveParse
      <3>6. ParseGoesOn(r, i, p)
        BY <2>1, <2>2, <3>3, <3>4, <3>5 DEF ParseGoesOn
      <3> QED
        BY <3>3, <3>6, ParseKeeps
    <2>4. CASE ~(was.attempt < ParseAttempts)
      <3>1. parse' = [parse EXCEPT ![r][i] = ParseDone] /\ unparsed' = unparsed \cup {r}
        BY <2>1, <2>4 DEF ParseAgain
      <3>2. ParseMoves(r, i, ParseDone)
        BY <1>0, <3>1, DoneIsParse, MoveParse
      <3>3. ParseGoesOn(r, i, ParseDone)
        BY <2>1, <2>2, <3>1, <3>2, DoneIsParse DEF ParseGoesOn
      <3> QED
        BY <3>3, DoneIsParse, ParseKeeps
    <2> QED
      BY <2>3, <2>4
  <1> QED
    BY <1>1, <1>2, <1>3, <1>4

\* The one parse that completes makes the received email: nobody made one before it,
\* since the row is not parsed, and nobody will, since it is.
LEMMA CompleteKeeps ==
    ASSUME InboundInv, NEW r \in Rows, NEW i \in Transfers,
           Complete(r, i), Completable(r)
    PROVE  InboundInv'
  <1> DEFINE was == parse[r][i]
             x == Extra(r, i)
             z == [row[r] EXCEPT !.parsed = TRUE]
             e == [there |-> TRUE, raw |-> row[r].file, attached |-> files \cap {x}]
  <1>0. /\ TypeOK /\ was \in Parse /\ row[r] \in Row /\ arrivals[r] \in Nat
        /\ RowFits(r) /\ ReceivedFits(r) /\ RunsFit(r) /\ HandsFull(r) /\ FilesOwned(r)
        /\ Kept(r) /\ RunFits(r, i)
    BY DEF InboundInv, TypeOK, AllFits, RunsFit
  <1>1. /\ was.phase = "complete"
        /\ There(r) /\ Visible(r) /\ row[r].file # NoFile /\ ~row[r].parsed
        /\ row' = [row EXCEPT ![r] = z]
        /\ received' = [received EXCEPT ![r] = e]
        /\ arrivals' = [arrivals EXCEPT ![r] = @ + 1]
        /\ UNCHANGED <<big, object, files, transfer, retired, lapsed, unparsed,
                       outlived, robbed>>
    BY DEF Complete, Completable, ParseAt, Visible
  <1>2. PICK p \in Parse : ParseMoves(r, i, p) /\ p.phase = "answer" /\ p.attempt = was.attempt
    BY <1>0, ParseGoMoves DEF Complete, ParsePhase
  <1>3. x = Attached(r, i, was.attempt) /\ was.attempt \in 1..ParseAttempts
    BY <1>0, <1>1 DEF Extra, Parse, RunFits
  <1>4. /\ z \in Row /\ z.status = "there" /\ z.file = row[r].file /\ z.parsed
        /\ z.rejected = row[r].rejected /\ z.error = row[r].error
        /\ z.deleted = row[r].deleted
    BY <1>0, <1>1 DEF Row, There
  <1>5. row[r].file \in files
    BY <1>0, <1>1 DEF RowFits
  <1>6. e \in Received /\ e.there /\ e.raw = row[r].file /\ e.attached = files \cap {x}
    BY <1>0, <1>5 DEF TypeOK, Received
  <1> HIDE DEF z, e, x
  <1>7. RowMoves(r, z)
    BY <1>0, <1>1, <1>4, MoveRow
  <1>8. /\ received' \in [Rows -> Received] /\ received'[r] = e
        /\ \A q \in Rows \ {r} : received'[q] = received[q]
    BY <1>0, <1>1, <1>6 DEF TypeOK
  <1>9. /\ arrivals' \in [Rows -> Nat] /\ arrivals'[r] = 1
        /\ \A q \in Rows \ {r} : arrivals'[q] = arrivals[q]
    <2>1. arrivals[r] = 0
      BY <1>0, <1>1 DEF RowFits
    <2> QED
      BY <1>0, <1>1, <2>1 DEF TypeOK
  <1>10. TypeOK'
    <2>1. ASSUME NEW q \in Rows, row'[q].status # "there"
          PROVE  row'[q] = [NoRow EXCEPT !.status = row'[q].status]
      BY SMTT(30), <1>0, <1>4, <1>7, <2>1 DEF RowMoves, TypeOK
    <2> QED
      BY <1>0, <1>1, <1>2, <1>7, <1>8, <1>9, <2>1 DEF TypeOK, RowMoves, ParseMoves
  <1>11. Local(r)
    BY <1>1, <1>2, <1>7, <1>8, <1>9 DEF Local, RowMoves, ParseMoves
  <1>12. RowFits(r)'
    BY <1>0, <1>1, <1>4, <1>6, <1>7, <1>8, <1>9 DEF RowFits, RowMoves, There, Past
  <1>13. ReceivedFits(r)'
    <2>1. ASSUME NEW f \in e.attached
          PROVE  /\ f \in files
                 /\ \E j \in Transfers, a \in 1..ParseAttempts :
                      f = Attached(r, j, a) /\ ParsePast(r, j, a)'
      <3>1. f \in files /\ f = x
        BY <1>6, <2>1
      <3>2. PICK a \in 1..ParseAttempts : a = was.attempt
        BY <1>3
      <3>3. f = Attached(r, i, a)
        BY <1>3, <3>1, <3>2
      <3>4. ParsePast(r, i, a)'
        BY <1>2, <3>2 DEF ParsePast, ParseMoves
      <3> QED
        BY <3>1, <3>3, <3>4
    <2>2. \E j \in Transfers, a \in 1..TransferAttempts :
             row[r].file = Raw(r, j, a) /\ Past(r, j, a)
      BY <1>0, <1>1 DEF RowFits
    <2>3. \E j \in Transfers, a \in 1..TransferAttempts :
             e.raw = Raw(r, j, a) /\ Past(r, j, a)'
      BY <1>1, <1>6, <2>2 DEF Past
    <2> QED
      BY <1>1, <1>4, <1>5, <1>6, <1>7, <1>8, <1>9, <2>1, <2>3
         DEF ReceivedFits, RowMoves, There
  <1>14. RunsFit(r)'
    <2>1. RunFits(r, i)'
      BY <1>0, <1>1, <1>2, <1>4, <1>7 DEF RunFits, RowMoves, ParseMoves
    <2>2. ASSUME NEW j \in Transfers \ {i}
          PROVE  RunFits(r, j)'
      BY <1>0, <1>1, <1>2, <1>4, <1>7 DEF RunFits, RunsFit, RowMoves, ParseMoves
    <2> QED
      BY <2>1, <2>2 DEF RunsFit
  <1>15. HandsFull(r)'
    BY <1>0, <1>1 DEF HandsFull, At, InHand
  <1>16. FilesOwned(r)'
    <2>0. received[r].raw = NoFile /\ received[r].attached = {} /\ NoFile \notin FilesOf(r)
      BY <1>0, <1>1, FilesOfFiles DEF ReceivedFits
    <2>1. ASSUME NEW f \in files, f \in FilesOf(r)
          PROVE  \/ f = row[r].file
                 \/ f \in {e.raw} \cup e.attached
                 \/ \E j \in Transfers : HasInHand(r, j, f)'
      <3>1. \/ f = row[r].file
            \/ \E j \in Transfers : HasInHand(r, j, f)
        BY <1>0, <1>1, <2>0, <2>1 DEF FilesOwned, Belongings
      <3>2. ASSUME NEW j \in Transfers, HasInHand(r, j, f), f # x
            PROVE  HasInHand(r, j, f)'
        BY <1>1, <1>2, <3>2 DEF HasInHand, At, InHand, Extra, ParseMoves, x
      <3>3. f = x => f \in {e.raw} \cup e.attached
        BY <1>6, <2>1
      <3> QED
        BY <3>1, <3>2, <3>3
    <2> QED
      BY <1>1, <1>4, <1>7, <1>8, <2>1 DEF FilesOwned, FilesOf, RowMoves, Belongings
  <1>17. Kept(r)'
    BY <1>0, <1>1, <1>4, <1>5, <1>7 DEF Kept, UnderWay, RowMoves
  <1>18. Gentle(r)
    <2>1. Holds(r)
      BY <1>1 DEF Holds
    <2> QED
      BY <1>1, <1>4, <1>7, <1>9, <2>1 DEF Gentle, RowMoves, There
  <1> QED
    BY <1>10, <1>11, <1>12, <1>13, <1>14, <1>15, <1>16, <1>17, <1>18, OneRow DEF AllFits

(***************************************************************************)
(* Time and the end of the team.                                           *)
(***************************************************************************)
LEMMA LapseKeeps ==
    ASSUME InboundInv, NEW n \in Messages, Lapse(n)
    PROVE  InboundInv'
  <1>0. /\ TypeOK
        /\ object' = object \ {n} /\ lapsed' = lapsed \cup {n}
        /\ UNCHANGED <<big, row, received, files, transfer, parse, retired,
                       arrivals, unparsed, outlived, robbed>>
    BY DEF InboundInv, Lapse
  <1>1. TypeOK'
    BY <1>0 DEF TypeOK
  <1>2. ASSUME NEW r \in Rows
        PROVE  AllFits(r)'
    <2>0. /\ RowFits(r) /\ ReceivedFits(r) /\ RunsFit(r) /\ HandsFull(r) /\ FilesOwned(r)
          /\ Kept(r)
      BY DEF InboundInv, AllFits
    <2>1. RowFits(r)' /\ ReceivedFits(r)'
      BY <1>0, <2>0 DEF RowFits, ReceivedFits, There, Past, ParsePast
    <2>2. RunsFit(r)' /\ HandsFull(r)'
      BY <1>0, <2>0 DEF RunsFit, RunFits, Visible, There, HandsFull, At, InHand
    <2>3. FilesOwned(r)'
      BY <1>0, <2>0 DEF FilesOwned, FilesOf, HasInHand, At, InHand, Extra, Belongings
    <2>4. Kept(r)'
      BY <1>0, <2>0 DEF Kept, Visible, There, UnderWay, BeingParsed
    <2> QED
      BY <2>1, <2>2, <2>3, <2>4 DEF AllFits
  <1>3. ASSUME NEW m \in Messages
        PROVE  MessageFits(m)'
    <2>1. MessageFits(m) /\ (Spent(m) => Spent(m)')
      BY <1>0 DEF InboundInv, Spent
    <2> QED
      BY <1>0, <2>1 DEF MessageFits, Holds, There, RowsOf
  <1> QED
    BY <1>1, <1>2, <1>3 DEF InboundInv

\* The row goes: the received email has its file, and if the object is at S3 still, it
\* has outlived the row.
LEMMA RetainKeeps ==
    ASSUME InboundInv, NEW r \in Rows, Retain(r)
    PROVE  InboundInv'
  <1> DEFINE z == [NoRow EXCEPT !.status = "gone"]
  <1>0. /\ TypeOK
        /\ RowFits(r) /\ ReceivedFits(r) /\ RunsFit(r) /\ HandsFull(r) /\ FilesOwned(r)
        /\ There(r) /\ row[r].parsed
        /\ row' = [row EXCEPT ![r] = z]
        /\ outlived' = outlived \cup ({MessageOf[r]} \cap object)
        /\ UNCHANGED <<big, object, received, files, transfer, parse, retired,
                       arrivals, lapsed, unparsed, robbed>>
    BY DEF InboundInv, AllFits, Retain
  <1>1. /\ z \in Row /\ z.status = "gone" /\ z.file = NoFile /\ ~z.parsed /\ ~z.rejected
        /\ z = [NoRow EXCEPT !.status = z.status]
    BY DEF NoRow, Row
  <1> HIDE DEF z
  <1>2. RowMoves(r, z)
    BY <1>0, <1>1, MoveRow
  <1>3. TypeOK'
    <2>1. ASSUME NEW q \in Rows, row'[q].status # "there"
          PROVE  row'[q] = [NoRow EXCEPT !.status = row'[q].status]
      BY <1>0, <1>1, <1>2, <2>1 DEF RowMoves, TypeOK
    <2> QED
      BY <1>0, <1>2, <2>1 DEF TypeOK, RowMoves
  <1>4. Local(r)
    BY <1>0, <1>2 DEF Local, RowMoves
  <1>5. RowFits(r)'
    BY <1>0, <1>1, <1>2 DEF RowFits, RowMoves, There
  <1>6. ReceivedFits(r)'
    BY <1>0, <1>1, <1>2 DEF ReceivedFits, RowMoves, There, Past, ParsePast
  <1>7. RunsFit(r)'
    <2>1. ASSUME NEW j \in Transfers
          PROVE  RunFits(r, j)'
      BY <1>0, <1>1, <1>2 DEF RunFits, RunsFit, RowMoves, There, Visible
    <2> QED
      BY <2>1 DEF RunsFit
  <1>8. HandsFull(r)'
    BY <1>0 DEF HandsFull, At, InHand
  <1>9. FilesOwned(r)'
    <2>1. ASSUME NEW f \in files, f \in FilesOf(r), f = row[r].file
          PROVE  f \in Belongings(r)
      BY <1>0, <2>1, FilesOfFiles DEF RowFits, ReceivedFits, Belongings
    <2> QED
      BY <1>0, <2>1 DEF FilesOwned, FilesOf, HasInHand, At, InHand, Extra, Belongings
  <1>10. Kept(r)'
    BY <1>1, <1>2 DEF Kept, Visible, There, RowMoves
  <1>11. \A q \in Rows : AllFits(q)'
    BY <1>0, <1>4, <1>5, <1>6, <1>7, <1>8, <1>9, <1>10, OthersFit DEF InboundInv, AllFits
  <1>12. ASSUME NEW n \in Messages
         PROVE  MessageFits(n)'
    <2>1. MessageFits(n)
      BY DEF InboundInv
    <2>2. arrivals[r] = 1 /\ row[r].status = "there"
      BY <1>0 DEF RowFits, There
    <2>3. /\ Spent(n) => Spent(n)'
          /\ r \in RowsOf(n) => Spent(n)'
      BY <1>0 DEF Spent, RowsOf
    <2>4. ASSUME NEW q \in Rows
          PROVE  /\ There(q)' => There(q)
                 /\ row'[q].status # "none" => row[q].status # "none"
                 /\ Holds(q)' => Holds(q)
                 /\ q # r => row'[q] = row[q]
      BY <1>0, <1>1, <1>2, <2>2 DEF RowMoves, There, Holds
    <2>5. ~retired' =>
            \A q \in RowsOf(n) :
               row'[q].status = "gone" => arrivals'[q] > 0 /\ Spent(n)'
      BY <1>0, <2>1, <2>2, <2>3, <2>4 DEF MessageFits, RowsOf
    <2>6. ~retired' =>
            \/ n \in object' \cup lapsed'
            \/ \E q \in RowsOf(n) : row'[q].file # NoFile \/ arrivals'[q] > 0
      BY <1>0, <2>1, <2>2, <2>4 DEF MessageFits, RowsOf
    <2>7. ASSUME NEW p \in RowsOf(n), NEW q \in RowsOf(n), p # q
          PROVE  /\ ~(There(p)' /\ There(q)')
                 /\ row'[p].status # "none" /\ row'[q].status # "none" => Spent(n)'
                 /\ Holds(p)' /\ Holds(q)' => n \in outlived'
      BY <1>0, <2>1, <2>3, <2>4, <2>7 DEF MessageFits, RowsOf
    <2> QED
      BY <2>5, <2>6, <2>7 DEF MessageFits
  <1> QED
    BY <1>3, <1>11, <1>12 DEF InboundInv

\* Mail expires: no transfer has its file in its hands, being past the attempt that
\* stored it, and the row, if it is there, is parsed.
LEMMA DeleteReceivedKeeps ==
    ASSUME InboundInv, NEW r \in Rows, DeleteReceived(r)
    PROVE  InboundInv'
  <1> DEFINE z == [row[r] EXCEPT !.file = NoFile]
  <1>0. /\ TypeOK /\ row[r] \in Row
        /\ RowFits(r) /\ ReceivedFits(r) /\ RunsFit(r) /\ HandsFull(r) /\ FilesOwned(r)
        /\ Kept(r)
    BY DEF InboundInv, AllFits, TypeOK
  <1>1. /\ received' = [received EXCEPT ![r] = NoReceived]
        /\ files' = files \ Belongings(r)
        /\ UNCHANGED <<big, object, transfer, parse, retired, history>>
        /\ received[r].there
    BY DEF DeleteReceived
  <1>2. /\ arrivals[r] = 1
        /\ received[r].raw \in Belongings(r)
        /\ There(r) => row[r].parsed /\ row[r].file = received[r].raw
    BY <1>0, <1>1 DEF ReceivedFits, Belongings
  <1>3. ~There(r) => row[r].file = NoFile
    BY <1>0 DEF TypeOK, There, NoRow
  <1>4. /\ RowMoves(r, row'[r])
        /\ row'[r].status = row[r].status /\ row'[r].file = NoFile
        /\ row'[r].parsed <=> row[r].parsed
        /\ row'[r].rejected <=> row[r].rejected
        /\ row'[r].error <=> row[r].error
        /\ row'[r].deleted <=> row[r].deleted
        /\ ~There(r) => row'[r] = row[r]
    <2>1. CASE There(r)
      <3>1. row' = [row EXCEPT ![r] = z]
        BY <2>1 DEF DeleteReceived
      <3>2. /\ z \in Row /\ z.status = row[r].status /\ z.file = NoFile
            /\ z.parsed = row[r].parsed /\ z.rejected = row[r].rejected
            /\ z.error = row[r].error /\ z.deleted = row[r].deleted
        BY <1>0 DEF Row
      <3> HIDE DEF z
      <3>3. RowMoves(r, z)
        BY <1>0, <3>1, <3>2, MoveRow
      <3> QED
        BY <2>1, <3>2, <3>3 DEF RowMoves
    <2>2. CASE ~There(r)
      <3>1. row' = row
        BY <2>2 DEF DeleteReceived
      <3> QED
        BY <1>0, <1>3, <2>2, <3>1, RowSame
    <2> QED
      BY <2>1, <2>2
  <1>5. /\ received' \in [Rows -> Received]
        /\ ~received'[r].there /\ received'[r].raw = NoFile /\ received'[r].attached = {}
        /\ \A q \in Rows \ {r} : received'[q] = received[q]
    <2>1. /\ NoReceived \in Received /\ ~NoReceived.there
          /\ NoReceived.raw = NoFile /\ NoReceived.attached = {}
      BY DEF NoReceived, Received
    <2> QED
      BY <1>0, <1>1, <2>1 DEF TypeOK
  <1>6. Belongings(r) \subseteq FilesOf(r)
    BY <1>0, <1>1, FilesNamed DEF Belongings
  <1>7. TypeOK'
    <2>1. ASSUME NEW q \in Rows, row'[q].status # "there"
          PROVE  row'[q] = [NoRow EXCEPT !.status = row'[q].status]
      <3>1. row'[q] = row[q]
        BY <1>4, <2>1 DEF RowMoves, There
      <3> QED
        BY <1>0, <2>1, <3>1 DEF TypeOK
    <2> QED
      BY <1>0, <1>1, <1>4, <1>5, <2>1 DEF TypeOK, RowMoves, history
  <1>8. Local(r)
    BY <1>1, <1>4, <1>5, <1>6 DEF Local, RowMoves, history
  <1>9. RowFits(r)' /\ ReceivedFits(r)'
    <2>1. arrivals' = arrivals /\ big' = big
      BY <1>1 DEF history
    <2>2. RowFits(r)'
      BY <1>0, <1>4, <2>1 DEF RowFits, There
    <2> QED
      BY <1>5, <2>2 DEF ReceivedFits
  <1>10. RunsFit(r)'
    <2>1. ASSUME NEW j \in Transfers
          PROVE  RunFits(r, j)'
      BY <1>0, <1>1, <1>2, <1>4 DEF RunFits, RunsFit, RowMoves, There, Visible
    <2> QED
      BY <2>1 DEF RunsFit
  <1>11. HandsFull(r)'
    <2>1. ASSUME NEW j \in Transfers, At(r, j, "file")
          PROVE  InHand(r, j) \in files'
      BY <1>0, <1>1, <2>1, HandsApart DEF HandsFull
    <2> QED
      BY <1>1, <2>1 DEF HandsFull, At, InHand
  <1>12. FilesOwned(r)'
    <2>1. ASSUME NEW f \in files', f \in FilesOf(r)
          PROVE  \E j \in Transfers : HasInHand(r, j, f)
      BY <1>0, <1>1, <1>2, <1>3, <2>1, FilesOfFiles DEF FilesOwned
    <2> QED
      BY <1>1, <2>1 DEF FilesOwned, FilesOf, HasInHand, At, InHand, Extra
  <1>13. Kept(r)'
    BY <1>0, <1>1, <1>4 DEF Kept, Visible, There, UnderWay
  <1>14. Gentle(r)
    BY <1>1, <1>2, <1>4 DEF Gentle, Holds, history
  <1> QED
    BY <1>7, <1>8, <1>9, <1>10, <1>11, <1>12, <1>13, <1>14, OneRow DEF AllFits

LEMMA PurgeMessageKeeps ==
    ASSUME InboundInv, NEW r \in Rows, PurgeMessage(r)
    PROVE  InboundInv'
  <1> DEFINE z == [NoRow EXCEPT !.status = "gone"]
  <1>0. /\ TypeOK
        /\ RowFits(r) /\ ReceivedFits(r) /\ RunsFit(r) /\ HandsFull(r) /\ FilesOwned(r)
        /\ There(r) /\ retired /\ ~received[r].there
        /\ received[r].raw = NoFile /\ received[r].attached = {}
        /\ row' = [row EXCEPT ![r] = z]
        /\ files' = files \ {row[r].file}
        /\ UNCHANGED <<big, object, received, transfer, parse, retired, history>>
    BY DEF InboundInv, AllFits, PurgeMessage, ReceivedFits
  <1>1. /\ z \in Row /\ z.status = "gone" /\ z.file = NoFile /\ ~z.parsed /\ ~z.rejected
        /\ z = [NoRow EXCEPT !.status = z.status]
    BY DEF NoRow, Row
  <1> HIDE DEF z
  <1>2. RowMoves(r, z)
    BY <1>0, <1>1, MoveRow
  <1>3. row[r].file # NoFile => row[r].file \in FilesOf(r)
    BY <1>0, FilesNamed
  <1>4. TypeOK'
    <2>1. ASSUME NEW q \in Rows, row'[q].status # "there"
          PROVE  row'[q] = [NoRow EXCEPT !.status = row'[q].status]
      BY <1>0, <1>1, <1>2, <2>1 DEF RowMoves, TypeOK
    <2> QED
      BY <1>0, <1>2, <2>1 DEF TypeOK, RowMoves, history
  <1>5. Local(r)
    BY <1>0, <1>2, <1>3, NoFileIsNone DEF Local, RowMoves, history
  <1>6. RowFits(r)' /\ ReceivedFits(r)'
    <2>1. arrivals' = arrivals /\ big' = big /\ received' = received
      BY <1>0 DEF history
    <2>2. RowFits(r)'
      BY <1>0, <1>1, <1>2, <2>1 DEF RowFits, RowMoves, There
    <2> QED
      BY <1>0, <2>1, <2>2 DEF ReceivedFits
  <1>7. RunsFit(r)'
    <2>1. ASSUME NEW j \in Transfers
          PROVE  RunFits(r, j)'
      BY <1>0, <1>1, <1>2 DEF RunFits, RunsFit, RowMoves, There, Visible
    <2> QED
      BY <2>1 DEF RunsFit
  <1>8. HandsFull(r)'
    <2>1. ASSUME NEW j \in Transfers, At(r, j, "file")
          PROVE  InHand(r, j) \in files'
      BY <1>0, <2>1, HandsApart DEF HandsFull
    <2> QED
      BY <1>0, <2>1 DEF HandsFull, At, InHand
  <1>9. FilesOwned(r)'
    <2>1. ASSUME NEW f \in files', f \in FilesOf(r)
          PROVE  \E j \in Transfers : HasInHand(r, j, f)
      BY <1>0, <2>1, FilesOfFiles DEF FilesOwned, Belongings
    <2> QED
      BY <1>0, <2>1 DEF FilesOwned, FilesOf, HasInHand, At, InHand, Extra
  <1>10. Kept(r)'
    BY <1>0 DEF Kept, Visible
  <1>11. \A q \in Rows : AllFits(q)'
    BY <1>0, <1>5, <1>6, <1>7, <1>8, <1>9, <1>10, OthersFit DEF InboundInv, AllFits
  <1>12. ASSUME NEW n \in Messages
         PROVE  MessageFits(n)'
    <2>1. MessageFits(n) /\ retired'
      BY <1>0 DEF InboundInv
    <2>2. Spent(n) <=> Spent(n)'
      BY <1>0 DEF Spent, history
    <2>3. ASSUME NEW q \in Rows
          PROVE  /\ There(q)' => There(q)
                 /\ row'[q].status # "none" => row[q].status # "none"
                 /\ Holds(q)' => Holds(q)
      BY <1>0, <1>1, <1>2 DEF RowMoves, There, Holds, history
    <2>4. ASSUME NEW p \in RowsOf(n), NEW q \in RowsOf(n), p # q
          PROVE  /\ ~(There(p)' /\ There(q)')
                 /\ row'[p].status # "none" /\ row'[q].status # "none" => Spent(n)'
                 /\ Holds(p)' /\ Holds(q)' => n \in outlived'
      BY <1>0, <2>1, <2>2, <2>3, <2>4 DEF MessageFits, RowsOf, history
    <2> QED
      BY <2>1, <2>4 DEF MessageFits
  <1> QED
    BY <1>4, <1>11, <1>12 DEF InboundInv

(***************************************************************************)
(* The theorems.                                                           *)
(***************************************************************************)
LEMMA InboundInit ==
    ASSUME Init
    PROVE  InboundInv
  <1>1. /\ \A r \in Rows : row[r] = NoRow /\ received[r] = NoReceived /\ arrivals[r] = 0
        /\ \A r \in Rows, i \in Transfers :
             transfer[r][i] = NoTransfer /\ parse[r][i] = NoParse
        /\ files = {} /\ object = Messages
    BY DEF Init
  <1>2. TypeOK
    <2>1. NoRow \in Row /\ NoRow = [NoRow EXCEPT !.status = NoRow.status]
      BY DEF NoRow, Row
    <2>2. NoReceived \in Received
      BY DEF NoReceived, Received
    <2>3. NoTransfer \in Transfer /\ NoParse \in Parse
      BY InboundAssumption
         DEF NoTransfer, Transfer, TransferPhase, NoParse, Parse, ParsePhase
    <2> QED
      BY <2>1, <2>2, <2>3 DEF Init, TypeOK
  <1>3. ASSUME NEW r \in Rows
        PROVE  /\ row[r].status = "none" /\ row[r].file = NoFile /\ ~row[r].parsed
               /\ ~row[r].rejected /\ ~There(r) /\ ~Visible(r)
               /\ ~received[r].there
               /\ received[r].raw = NoFile /\ received[r].attached = {}
               /\ \A i \in Transfers :
                    transfer[r][i].phase = "none" /\ transfer[r][i].attempt = 0
               /\ \A i \in Transfers : parse[r][i].phase = "none"
    BY <1>1 DEF NoRow, NoReceived, NoTransfer, NoParse, There, Visible
  <1>4. ASSUME NEW r \in Rows
        PROVE  AllFits(r)
    <2>1. RowFits(r) /\ ReceivedFits(r)
      BY <1>1, <1>3 DEF RowFits, ReceivedFits
    <2>2. RunsFit(r)
      BY <1>3 DEF RunsFit, RunFits
    <2>3. HandsFull(r) /\ FilesOwned(r) /\ Kept(r)
      BY <1>1, <1>3 DEF HandsFull, FilesOwned, Kept, At
    <2> QED
      BY <2>1, <2>2, <2>3 DEF AllFits
  <1>5. ASSUME NEW m \in Messages
        PROVE  MessageFits(m)
    BY <1>1, <1>3 DEF MessageFits, Holds, RowsOf
  <1> QED
    BY <1>2, <1>4, <1>5 DEF InboundInv

LEMMA InboundNext ==
    ASSUME InboundInv, [Next]_vars
    PROVE  InboundInv'
  <1>1. ASSUME NEW r \in Rows, NEW i \in Transfers, TransferStep(r, i)
        PROVE  InboundInv'
    BY <1>1, GetKeeps, EndKeeps, StoreKeeps, StoredKeeps, FailKeeps DEF TransferStep
  <1>2. ASSUME NEW r \in Rows, NEW i \in Transfers, ParseStep(r, i)
        PROVE  InboundInv'
    BY <1>2, WorkKeeps, CompleteKeeps, VainKeeps DEF ParseStep
  <1>3. ASSUME NEW r \in Rows, RowStep(r)
        PROVE  InboundInv'
    BY <1>1, <1>2, <1>3, EnqueueKeeps, RetainKeeps, DeleteReceivedKeeps, PurgeMessageKeeps
       DEF RowStep
  <1>4. ASSUME NEW m \in Messages, Ingest(m) \/ Lapse(m)
        PROVE  InboundInv'
    BY <1>4, IngestKeeps, LapseKeeps
  <1>5. CASE Retire
    BY <1>5, RetireKeeps
  <1>6. CASE UNCHANGED vars
    <2>1. TypeOK'
      BY <1>6 DEF vars, history, InboundInv, TypeOK
    <2>2. ASSUME NEW r \in Rows
          PROVE  AllFits(r)'
      <3>1. /\ RowFits(r) /\ ReceivedFits(r) /\ RunsFit(r) /\ HandsFull(r) /\ FilesOwned(r)
            /\ Kept(r)
            /\ UNCHANGED <<big, object, row, received, files, transfer, parse, retired, history>>
        BY <1>6 DEF InboundInv, AllFits, vars
      <3> QED
        BY <3>1 DEF AllFits, RowFits, ReceivedFits, RunsFit, RunFits, FilesOwned, FilesOf,
                    HandsFull, Kept, Past, ParsePast, There, Visible, HasInHand, At, InHand,
                    Extra, Belongings, UnderWay, BeingParsed, history
    <2>3. ASSUME NEW m \in Messages
          PROVE  MessageFits(m)'
      BY <1>6 DEF InboundInv, MessageFits, Holds, Spent, There, RowsOf, vars, history
    <2> QED
      BY <2>1, <2>2, <2>3 DEF InboundInv
  <1> QED
    BY <1>3, <1>4, <1>5, <1>6 DEF Next

\* Every row fits in every state, and so do the rows of every message: a row, its
\* received email, its transfers and parses and its files agree, whatever dies, however
\* transfers overlap and whether retention has deleted the row or a late notification
\* made another; and two rows of a message have its mail only if the object outlived
\* the first at S3.
THEOREM InboundInvariant == Spec => []InboundInv
  <1>1. Init => InboundInv
    BY InboundInit
  <1>2. InboundInv /\ [Next]_vars => InboundInv'
    BY InboundNext
  <1> QED
    BY <1>1, <1>2, PTL DEF Spec

\* The variables have their types: the row that retention or a purge leaves and the
\* row that was never made have nothing but their status.
THEOREM InboundTypeCorrect == Spec => []TypeOK
  <1>1. InboundInv => TypeOK
    BY DEF InboundInv
  <1> QED
    BY <1>1, InboundInvariant, PTL

\* Mail that was accepted is not lost: it is at S3, in storage, or a received email was
\* made of it, though its row be deleted and made again; and until a row is through,
\* somebody is at work on it or it says that nobody is.
THEOREM MailKeptAlways == Spec => []MailKept
  <1>1. ASSUME InboundInv, ~retired, NEW m \in Messages
        PROVE  \/ m \in object \cup lapsed
               \/ \E r \in RowsOf(m) : row[r].file \in files \/ arrivals[r] > 0
    BY <1>1 DEF InboundInv, MessageFits, AllFits, RowFits, RowsOf
  <1>2. InboundInv => MailKept
    BY <1>1 DEF InboundInv, AllFits, Kept, MailKept
  <1> QED
    BY <1>2, InboundInvariant, PTL

\* Transfers that overlap, notifications that come again and parses that are run again
\* make one received email and one event of a row, and of a message too unless its
\* object outlived the row at S3; and the files of a received email stay with it, but
\* for attachments a lost answer took.
THEOREM ReceivedOnceAlways == Spec => []ReceivedOnce
  <1>1. ASSUME InboundInv, NEW r \in Rows
        PROVE  /\ arrivals[r] <= 1
               /\ received[r].there =>
                    /\ received[r].raw \in files
                    /\ received[r].attached \subseteq files \/ r \in robbed
    BY <1>1 DEF InboundInv, AllFits, RowFits, ReceivedFits
  <1>2. ASSUME InboundInv, NEW q \in Rows, NEW r \in Rows,
               q # r, MessageOf[q] = MessageOf[r], arrivals[q] > 0, arrivals[r] > 0
        PROVE  MessageOf[r] \in outlived
    <2>1. /\ MessageFits(MessageOf[r])
          /\ q \in RowsOf(MessageOf[r]) /\ r \in RowsOf(MessageOf[r])
      BY <1>2, InboundAssumption DEF InboundInv, RowsOf
    <2> QED
      BY <1>2, <2>1 DEF MessageFits, Holds
  <1>3. InboundInv => ReceivedOnce
    BY <1>1, <1>2 DEF ReceivedOnce
  <1> QED
    BY <1>3, InboundInvariant, PTL

\* No file is left that nothing points to, and no raw mail outlives its received email.
THEOREM FilesAccountedAlways == Spec => []FilesAccounted
  <1>1. ASSUME InboundInv, NEW f \in files
        PROVE  \E r \in Rows :
                  \/ f = row[r].file
                  \/ f \in Belongings(r)
                  \/ \E i \in Transfers : HasInHand(r, i, f)
    <2>1. PICK r \in Rows : f \in FilesOf(r)
      <3>1. f \in Files
        BY <1>1 DEF InboundInv, TypeOK
      <3> QED
        BY <3>1 DEF Files, FilesOf
    <2> QED
      BY <1>1, <2>1 DEF InboundInv, AllFits, FilesOwned
  <1>2. InboundInv => FilesAccounted
    BY <1>1 DEF InboundInv, AllFits, RowFits, FilesAccounted, HasInHand
  <1> QED
    BY <1>2, InboundInvariant, PTL

=============================================================================
