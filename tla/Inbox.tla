------------------------------- MODULE Inbox -------------------------------
(***************************************************************************)
(* The messages of one dongle and their rows (internal/devops sms.go,      *)
(* store/repo_sms.go, httpapi/admin_sms.go).  A list is read from the      *)
(* dongle and laid down row by row afterwards, while other requests delete *)
(* messages or mark them read, first on the dongle and then in the rows.   *)
(* The dongle gives the index of a deleted message to the next one.  What   *)
(* is told of new messages (publishSMS) changes nothing and is left out.    *)
(***************************************************************************)
EXTENDS Naturals, FiniteSets

CONSTANTS
    Indexes,        \* places the dongle has for messages of one box
    Texts,          \* what messages say
    Readers,        \* requests that list the box: SMSList, SyncSMS
    Writers         \* requests that delete a message or mark it read

VARIABLES
    stick,      \* the box on the dongle
    rows,       \* its rows in the sms table
    reader,     \* each reader: what it has read, what is left to lay down
    writer,     \* each writer: what it has done on the dongle
    quiet       \* nothing new happens on the dongle, and nothing fails, from here on

inboxVars == <<stick, rows, reader, writer, quiet>>

NoSMS == [text |-> "none", read |-> FALSE]
Message == [text : Texts, read : BOOLEAN]
Box == [Indexes -> Message \cup {NoSMS}]
EmptyBox == [i \in Indexes |-> NoSMS]
There(box) == {i \in Indexes : box[i] # NoSMS}

IdleReader == [pc |-> "idle", msgs |-> EmptyBox, left |-> {}]
IdleWriter == [pc |-> "idle", index |-> 0]

InboxTypeOK ==
    /\ stick \in Box /\ rows \in Box /\ quiet \in BOOLEAN
    /\ reader \in [Readers -> [pc: {"idle", "lay"}, msgs: Box, left: SUBSET Indexes]]
    /\ writer \in [Writers -> [pc: {"idle", "delete", "mark"}, index: Indexes \cup {0}]]

InboxInit ==
    /\ stick = EmptyBox /\ rows = EmptyBox /\ quiet = FALSE
    /\ reader = [r \in Readers |-> IdleReader] /\ writer = [w \in Writers |-> IdleWriter]
-----------------------------------------------------------------------------
(* The readers.                                                            *)

\* SMSList and SyncSMS: the dongle first; when it does not answer the rows are
\* served as they are.  persist has nothing to do for an empty box.
SMSList(r) ==
    /\ reader[r].pc = "idle"
    /\ reader' = IF There(stick) = {} THEN reader
                 ELSE [reader EXCEPT ![r] = [pc |-> "lay", msgs |-> stick, left |-> There(stick)]]
    /\ UNCHANGED <<stick, rows, writer, quiet>>

\* A message there is a row of is left as it is.
Bug_Upsert(i, m) == rows' = IF rows[i] = NoSMS THEN [rows EXCEPT ![i] = m] ELSE rows

\* smsRepo.Upsert: by dongle, box and index, all that is in the message.
Upsert(i, m) == rows' = [rows EXCEPT ![i] = m]

\* persist of one message of the list, in the order of the dongle; a row that
\* fails is left out.
Persist(r) ==
    /\ reader[r].pc = "lay" /\ reader[r].left # {}
    /\ LET i == CHOOSE j \in reader[r].left : \A k \in reader[r].left : j <= k
       IN  /\ Upsert(i, reader[r].msgs[i]) \/ (~quiet /\ UNCHANGED rows)
           /\ reader' = [reader EXCEPT ![r].left = @ \ {i}]
    /\ UNCHANGED <<stick, writer, quiet>>

ReaderEnds(r) ==
    /\ reader[r].pc = "lay" /\ reader[r].left = {} /\ reader' = [reader EXCEPT ![r] = IdleReader]
    /\ UNCHANGED <<stick, rows, writer, quiet>>
-----------------------------------------------------------------------------
(* The writers: the dongle first, and nothing else when it refuses.        *)

SMSDelete(w) ==
    /\ ~quiet /\ writer[w].pc = "idle"
    /\ \E i \in There(stick) :
          stick' = [stick EXCEPT ![i] = NoSMS] /\ writer' = [writer EXCEPT ![w] = [pc |-> "delete", index |-> i]]
    /\ UNCHANGED <<rows, reader, quiet>>

SMSMarkRead(w) ==
    /\ ~quiet /\ writer[w].pc = "idle"
    /\ \E i \in There(stick) :
          stick' = [stick EXCEPT ![i].read = TRUE] /\ writer' = [writer EXCEPT ![w] = [pc |-> "mark", index |-> i]]
    /\ UNCHANGED <<rows, reader, quiet>>

DeleteRow(i) == rows' = [rows EXCEPT ![i] = NoSMS]
MarkReadRow(i) == rows' = [rows EXCEPT ![i].read = rows[i] # NoSMS]

\* smsRepo.Delete and MarkRead, of whatever row has the index by now; no row is
\* no error (forEachBox), and the database may fail.
WriteRow(w) ==
    /\ writer[w].pc # "idle"
    /\ LET i == writer[w].index
       IN  \/ writer[w].pc = "delete" /\ DeleteRow(i)
           \/ writer[w].pc = "mark" /\ MarkReadRow(i)
           \/ ~quiet /\ UNCHANGED rows
    /\ writer' = [writer EXCEPT ![w] = IdleWriter]
    /\ UNCHANGED <<stick, reader, quiet>>
-----------------------------------------------------------------------------
\* The network delivers a message, at the first index that is free.
Arrives ==
    /\ ~quiet /\ There(stick) # Indexes
    /\ LET i == CHOOSE j \in Indexes \ There(stick) : \A k \in Indexes \ There(stick) : j <= k
       IN  \E t \in Texts : stick' = [stick EXCEPT ![i] = [text |-> t, read |-> FALSE]]
    /\ UNCHANGED <<rows, reader, writer, quiet>>

\* Somebody deletes a message on the page of the dongle itself.
LostOnStick ==
    /\ ~quiet /\ \E i \in There(stick) : stick' = [stick EXCEPT ![i] = NoSMS]
    /\ UNCHANGED <<rows, reader, writer, quiet>>

InboxCalms == ~quiet /\ quiet' = TRUE /\ UNCHANGED <<stick, rows, reader, writer>>

InboxNext ==
    \/ \E r \in Readers : SMSList(r) \/ Persist(r) \/ ReaderEnds(r)
    \/ \E w \in Writers : SMSDelete(w) \/ SMSMarkRead(w) \/ WriteRow(w)
    \/ Arrives \/ LostOnStick \/ InboxCalms

\* A request that has begun goes on, and somebody looks at the box again and again.
InboxFairness ==
    /\ \A r \in Readers : WF_inboxVars(SMSList(r)) /\ WF_inboxVars(Persist(r) \/ ReaderEnds(r))
    /\ \A w \in Writers : WF_inboxVars(WriteRow(w))

InboxSpec == InboxInit /\ [][InboxNext]_inboxVars /\ InboxFairness
-----------------------------------------------------------------------------
(* What the rows promise.                                                  *)

\* Once nothing new happens on the dongle, every message that is on it comes to
\* stand in the rows as it is, whatever was laid down from older lists or
\* deleted under a reader before: an index that was used again, a message read
\* meanwhile (persist, Upsert).
InboxCatchesUp ==
    <>quiet => <>[](\A i \in There(stick) : rows[i] = stick[i])
=============================================================================
