------------------------------ MODULE Messages ------------------------------
(***************************************************************************)
(* The rows of messages and message_read_receipts, and the requests that   *)
(* work on them: MessageController and ReadReceiptController (REST), the   *)
(* message handlers of ChatGateway, ReadReceiptService.  A handler loads   *)
(* entities, checks them, and writes after another await; in between other *)
(* requests, of this or of another replica, go on.  TypeORM's find skips   *)
(* soft deleted rows; its save reads the row again, deleted or not, and    *)
(* writes each column in which the entity that was loaded differs from it. *)
(*                                                                         *)
(* Who may enter a planet and when it may be written in is the subject of  *)
(* TravelMembership and ChatRooms.  Handlers that never get as far as a    *)
(* write have no action here: message:send (the database has no type TEXT, *)
(* only text), message:restore (its find skips what could be restored).    *)
(***************************************************************************)
EXTENDS Naturals

CONSTANTS
  Messages,
  Plain,       \* the messages of type TEXT; the others are files and images
  Texts, NoText,
  Blank,       \* the text that counts as none: the column may hold '' or null
  Sent,        \* stands for edit marks that an author sent, see StartMark
  Users,
  Author,      \* senderId of each message, once it is posted
  Requests,    \* the requests being handled at a time
  Bodies       \* bulk bodies: how often each names each message

ASSUME MessagesAssumption ==
  /\ Plain \subseteq Messages
  /\ {NoText, Blank, Sent} \cap Texts = {}
  /\ NoText # Blank /\ NoText # Sent /\ Blank # Sent
  /\ Author \in [Messages -> Users]
  /\ Bodies \subseteq [Messages -> Nat]

VARIABLES
  rows,       \* the table messages
  receipts,   \* the table message_read_receipts, unique per user and message
  open,       \* the messages of type TEXT posted less than 15 minutes ago
  request,    \* what each request holds in memory
  first,      \* history: the text each message was posted with
  emptied     \* history: messages an update was to empty before any edit

vars == <<rows, receipts, open, request, first, emptied>>

Contents == Texts \cup {Blank}

Row == [state    : {"none", "live", "deleted"},
        text     : Contents \cup {NoText},
        edited   : BOOLEAN,
        original : Contents \cup {NoText, Sent}]

NoRow == [state |-> "none", text |-> NoText, edited |-> FALSE, original |-> NoText]

Idle == [kind |-> "idle"]

Answers == [kind : {"answered"}, handler : {"single", "bulk", "multiple"}, user : Users,
            body : [Messages -> Nat], missed : BOOLEAN, ok : BOOLEAN]

RequestStates ==
  {Idle} \cup Answers
    \cup [kind : {"post"}, user : Users]
    \cup [kind : {"edit"}, message : Messages, row : Row]
    \cup [kind : {"delete"}, message : Messages]
    \cup [kind : {"read"}, user : Users, message : Messages, new : BOOLEAN]
    \cup [kind : {"bulk"}, user : Users, body : [Messages -> Nat],
          left : [Messages -> Nat], at : SUBSET Messages, new : [Messages -> Nat]]

TypeOK ==
  /\ rows \in [Messages -> Row]
  /\ receipts \subseteq Users \X Messages
  /\ open \subseteq Messages
  /\ request \in [Requests -> RequestStates]
  /\ first \in [Messages -> Contents \cup {NoText}]
  /\ emptied \subseteq Messages

Init ==
  /\ rows = [m \in Messages |-> NoRow]
  /\ receipts = {}
  /\ open = {}
  /\ request = [r \in Requests |-> Idle]
  /\ first = [m \in Messages |-> NoText]
  /\ emptied = {}

\* What a find by id returns.
Found(m) == rows[m].state = "live"

Begin(r, state) == request[r] = Idle /\ request' = [request EXCEPT ![r] = state]
Proceed(r, state) == request' = [request EXCEPT ![r] = state]

-----------------------------------------------------------------------------
(* Posting: beforeCreate validates, then the row is inserted                 *)

\* A reply is to a message that is found; which one is not kept here.
StartPost(r, u) ==
  /\ Begin(r, [kind |-> "post", user |-> u])
  /\ UNCHANGED <<rows, receipts, open, first, emptied>>

\* validateMessageType: a message of type TEXT has a text, another one may.
InsertMessage(r, m, t) ==
  /\ request[r].kind = "post"
  /\ m \in Plain => t # Blank
  /\ rows[m] = NoRow /\ Author[m] = request[r].user
  /\ rows' = [rows EXCEPT ![m] = [NoRow EXCEPT !.state = "live", !.text = t]]
  /\ open' = open \cup ({m} \cap Plain)
  /\ first' = [first EXCEPT ![m] = t]
  /\ Proceed(r, Idle)
  /\ UNCHANGED <<receipts, emptied>>

-----------------------------------------------------------------------------
(* Editing                                                                   *)

\* Variant: the time limit of 15 minutes is not checked.
MayEditLate(m) == Found(m)

\* canEdit, isTextMessage; the author is the only one it is about.
MayEdit(m) == Found(m) /\ m \in open

Expire(m) ==
  /\ m \in open
  /\ open' = open \ {m}
  /\ UNCHANGED <<rows, receipts, request, first, emptied>>

\* Variant: the text before the edit is kept each time.
KeepLast(row, t) == [row EXCEPT !.text = t, !.edited = TRUE, !.original = row.text]

Edited(row, t) ==
  [row EXCEPT !.text = t, !.edited = TRUE,
              !.original = IF row.edited THEN row.original ELSE row.text]

\* The request goes on with a copy of the row, changed.
Copy(r, m, row) ==
  /\ Begin(r, [kind |-> "edit", message |-> m, row |-> row])
  /\ UNCHANGED <<rows, receipts, open, first>>

\* handleEditMessage, up to its save; the new text may be Blank.
StartEdit(r, m, t) ==
  /\ MayEdit(m)
  /\ Copy(r, m, Edited(rows[m], t))
  /\ UNCHANGED emptied

\* beforeUpdate, given a text: the message must be one of text, the update in time,
\* and it is an edit if it is another text than the one before.
StartUpdate(r, m, t) ==
  /\ MayEdit(m)
  /\ Copy(r, m, IF t = rows[m].text THEN rows[m] ELSE Edited(rows[m], t))
  /\ UNCHANGED emptied

\* Given the text Blank, or none where it is Blank already, beforeUpdate looks at
\* nothing more: it is written at any time, and is no edit.
StartEmpty(r, m) ==
  /\ Found(m)
  /\ Copy(r, m, [rows[m] EXCEPT !.text = Blank])
  /\ emptied' = IF rows[m].edited THEN emptied ELSE emptied \cup {m}

\* An update may carry isEdited and originalContent as well.  What they are from
\* then on, also after later edits, depends on what was sent and is not kept:
\* the row stands as edited, with the original Sent, for good.
StartMark(r, m, t) ==
  /\ IF t = Blank THEN Found(m) ELSE MayEdit(m)
  /\ Copy(r, m, [rows[m] EXCEPT !.text = t, !.edited = TRUE, !.original = Sent])
  /\ UNCHANGED emptied

\* save: also deletedAt is written back as it was when the row was loaded.
SaveEdit(r) ==
  /\ request[r].kind = "edit"
  /\ rows' = [rows EXCEPT ![request[r].message] = request[r].row]
  /\ Proceed(r, Idle)
  /\ UNCHANGED <<receipts, open, first, emptied>>

-----------------------------------------------------------------------------
(* Deleting                                                                  *)

\* handleDeleteMessage, beforeDestroy: found, and the author's own.
StartDelete(r, m) ==
  /\ Found(m)
  /\ Begin(r, [kind |-> "delete", message |-> m])
  /\ UNCHANGED <<rows, receipts, open, first, emptied>>

\* softRemove writes deletedAt and no other column.
SoftRemove(r) ==
  /\ request[r].kind = "delete"
  /\ rows' = [rows EXCEPT ![request[r].message].state = "deleted"]
  /\ Proceed(r, Idle)
  /\ UNCHANGED <<receipts, open, first, emptied>>

-----------------------------------------------------------------------------
(* Reading one message: markMessageAsRead, beforeCreate of one receipt       *)

Reading(u, m, new) == [kind |-> "read", user |-> u, message |-> m, new |-> new]

Once(m) == [n \in Messages |-> IF n = m THEN 1 ELSE 0]

Answer(r, handler, u, body, missed, ok) ==
  Proceed(r, [kind |-> "answered", handler |-> handler, user |-> u, body |-> body,
              missed |-> missed, ok |-> ok])

StartRead(r, u, m) ==
  /\ Found(m)
  /\ Begin(r, Reading(u, m, FALSE))
  /\ UNCHANGED <<rows, receipts, open, first, emptied>>

\* The receipt that exists is returned (REST: with a new readAt).
FindReceipt(r) ==
  LET q == request[r]
  IN  /\ q.kind = "read" /\ ~q.new
      /\ IF <<q.user, q.message>> \in receipts
         THEN Answer(r, "single", q.user, Once(q.message), FALSE, TRUE)
         ELSE Proceed(r, Reading(q.user, q.message, TRUE))
      /\ UNCHANGED <<rows, receipts, open, first, emptied>>

\* The unique index refuses a second receipt, and the error is the answer.
InsertReceipt(r) ==
  LET q == request[r]
      pair == <<q.user, q.message>>
  IN  /\ q.kind = "read" /\ q.new
      /\ receipts' = receipts \cup {pair}
      /\ Answer(r, "single", q.user, Once(q.message), FALSE, pair \notin receipts)
      /\ UNCHANGED <<rows, open, first, emptied>>

-----------------------------------------------------------------------------
(* Reading many: beforeCreate of an array, markMultipleMessagesAsRead        *)

BulkReading(u, body, left, at, new) ==
  [kind |-> "bulk", user |-> u, body |-> body, left |-> left, at |-> at, new |-> new]

None == [m \in Messages |-> 0]

StartBulk(r, u, body) ==
  /\ Begin(r, BulkReading(u, body, body, {}, None))
  /\ UNCHANGED <<rows, receipts, open, first, emptied>>

\* One turn of the loop first looks for the message ...
FindItem(r, m) ==
  LET q == request[r]
  IN  /\ q.kind = "bulk" /\ q.at = {} /\ q.left[m] > 0
      /\ Found(m)
      /\ Proceed(r, BulkReading(q.user, q.body, [q.left EXCEPT ![m] = @ - 1], {m}, q.new))
      /\ UNCHANGED <<rows, receipts, open, first, emptied>>

\* ... then for the receipt; an item without one is left to the insert.
FindExisting(r, m) ==
  LET q == request[r]
  IN  /\ q.kind = "bulk" /\ q.at = {m}
      /\ Proceed(r, BulkReading(q.user, q.body, q.left, {},
                   [q.new EXCEPT ![m] = IF <<q.user, m>> \in receipts THEN @ ELSE @ + 1]))
      /\ UNCHANGED <<rows, receipts, open, first, emptied>>

\* The loop throws: what it updated before stays, nothing is inserted.
MissItem(r, m) ==
  LET q == request[r]
  IN  /\ q.kind = "bulk" /\ q.at = {} /\ q.left[m] > 0
      /\ ~Found(m)
      /\ Answer(r, "bulk", q.user, q.body, TRUE, FALSE)
      /\ UNCHANGED <<rows, receipts, open, first, emptied>>

\* Variant: nothing is left to insert once one of the items has a receipt.
NewUnlessSome(q) == {m \in Messages : q.new = q.body /\ q.new[m] > 0}

\* processedReceipts: the messages the insert names.
New(q) == {m \in Messages : q.new[m] > 0}

Conflict(q) == \E m \in New(q) : q.new[m] > 1 \/ <<q.user, m>> \in receipts

\* One transaction for all of them.
InsertBulk(r) ==
  LET q == request[r]
  IN  /\ q.kind = "bulk" /\ q.at = {} /\ q.left = None
      /\ receipts' = IF Conflict(q) THEN receipts ELSE receipts \cup ({q.user} \X New(q))
      /\ Answer(r, "bulk", q.user, q.body, FALSE, ~Conflict(q))
      /\ UNCHANGED <<rows, open, first, emptied>>

\* messages:read_multiple and planet:read_all: the array in the where clause,
\* or the column isDeleted, makes the first query fail.
ReadMultiple(r, u) ==
  /\ request[r] = Idle
  /\ Answer(r, "multiple", u, None, FALSE, FALSE)
  /\ UNCHANGED <<rows, receipts, open, first, emptied>>

-----------------------------------------------------------------------------

\* The client has its answer; or the replica died, or the database refused a
\* statement, whichever step the request had come to.
Leave(r) ==
  /\ request[r] # Idle
  /\ Proceed(r, Idle)
  /\ UNCHANGED <<rows, receipts, open, first, emptied>>

EditStep(r) ==
  \/ \E m \in Messages :
       \/ \E t \in Texts : StartUpdate(r, m, t)
       \/ \E t \in Contents : StartEdit(r, m, t) \/ StartMark(r, m, t)
       \/ StartEmpty(r, m)
  \/ SaveEdit(r)

ReadStep(r) ==
  \/ \E u \in Users :
       \/ \E m \in Messages : StartRead(r, u, m)
       \/ \E body \in Bodies : StartBulk(r, u, body)
       \/ ReadMultiple(r, u)
  \/ FindReceipt(r) \/ InsertReceipt(r) \/ InsertBulk(r)
  \/ \E m \in Messages : FindItem(r, m) \/ FindExisting(r, m) \/ MissItem(r, m)

RequestStep(r) ==
  \/ \E u \in Users : StartPost(r, u)
  \/ \E m \in Messages, t \in Contents : InsertMessage(r, m, t)
  \/ \E m \in Messages : StartDelete(r, m)
  \/ SoftRemove(r)
  \/ EditStep(r) \/ ReadStep(r)
  \/ Leave(r)

Next == \/ \E r \in Requests : RequestStep(r)
        \/ \E m \in Messages : Expire(m)

Spec == Init /\ [][Next]_vars

-----------------------------------------------------------------------------
(* Properties                                                                *)

\* The messages a bulk has found so far.
Reached(q) == {m \in Messages : q.left[m] < q.body[m]}

\* The request accepted, as the board sees it.
Task(q) ==
  CASE q.kind = "post" -> [to |-> "post", by |-> q.user, about |-> {}]
    [] q.kind = "edit" ->
         [to |-> IF q.row.text = Blank THEN "empty" ELSE "edit",
          by |-> Author[q.message], about |-> {q.message}]
    [] q.kind = "read" -> [to |-> "read", by |-> q.user, about |-> {q.message}]
    [] q.kind = "bulk" -> [to |-> "read", by |-> q.user, about |-> Reached(q)]
    [] OTHER -> [to |-> "nothing"]

Board == INSTANCE MessageBoard WITH
  Clients <- Requests,
  text <- [m \in Messages |-> rows[m].text],
  visible <- {m \in Messages : rows[m].state = "live"},
  readers <- [m \in Messages |-> {u \in Users : <<u, m>> \in receipts}],
  task <- [r \in Requests |-> Task(request[r])]

\* The tables and their requests keep what the board promises, however the
\* requests interleave: in particular the save of an edit may undo a deletion,
\* but only one that the edit did not see when it was checked; neither a late
\* edit nor a late receipt is for a message that was gone at its start; and what
\* an author may do after 15 minutes is to empty a message, no more.
KeepsBoard == Board!BoardSpec

\* However many edits race, an edited message remembers the text it was posted
\* with, and one that is not edited still shows it; unless its author sent
\* another isEdited or originalContent in an update, which accepts both, or
\* emptied it in an update before any edit, which keeps no original: then the
\* message may show Blank, and a later edit may keep that for the original.
OriginalKept ==
  \A m \in Messages :
    rows[m].original # Sent =>
      LET kept == IF rows[m].edited THEN rows[m].original ELSE rows[m].text
      IN  kept = first[m] \/ (kept = Blank /\ m \in emptied)

\* A reader who is told it worked has a receipt for every message named; one
\* who is told it failed named a message that is gone, or twice, or one that is
\* read already (by another device), in which case nothing is lost but the rest
\* of an array; messages:read_multiple and planet:read_all fail in any case.
ReadsAnswered ==
  \A r \in Requests :
    LET q == request[r]
        named == {m \in Messages : q.body[m] > 0}
    IN  q.kind = "answered" /\ q.handler # "multiple" =>
          IF q.ok THEN \A m \in named : <<q.user, m>> \in receipts
          ELSE \/ q.missed
               \/ \E m \in named : q.body[m] > 1 \/ <<q.user, m>> \in receipts
=============================================================================
