--------------------------- MODULE MessagesProofs ---------------------------
(***************************************************************************)
(* Proofs about Messages, for any number of messages, users and requests   *)
(* and any bulk bodies.                                                    *)
(*                                                                         *)
(* What makes the invariants inductive is what requests hold in memory: a  *)
(* copy that will be written back is of a posted message, is not deleted,  *)
(* and remembers the first text as the row does (EditHeld); an item of a   *)
(* bulk is still to be looked at, or is being looked at, or is to be       *)
(* inserted, or has a receipt (BulkHeld).                                  *)
(***************************************************************************)
EXTENDS Messages, TLAPS

\* A row of m, or a copy of it, that still tells with which text m was posted,
\* unless an update was to empty it.
Remembers(row, m) ==
  IF row.original = Sent THEN row.edited
  ELSE LET kept == IF row.edited THEN row.original ELSE row.text
       IN  kept = first[m] \/ (kept = Blank /\ m \in emptied)

EditHeld(q) ==
  q.kind = "edit" =>
    /\ rows[q.message] # NoRow
    /\ q.row.state = "live"
    /\ q.row.text \in Contents
    /\ Remembers(q.row, q.message)

BulkHeld(q) ==
  q.kind = "bulk" =>
    \A m \in Messages :
      /\ q.new[m] + q.left[m] <= q.body[m]
      /\ m \in q.at => q.new[m] + q.left[m] < q.body[m]
      /\ q.body[m] > 0 /\ q.left[m] = 0 /\ q.new[m] = 0
           => m \in q.at \/ <<q.user, m>> \in receipts

\* What a reader has been told.
Answered(q) ==
  q.kind = "answered" /\ q.handler # "multiple" =>
    /\ q.ok => \A m \in Messages : q.body[m] > 0 => <<q.user, m>> \in receipts
    /\ ~q.ok /\ ~q.missed =>
         \E m \in Messages : q.body[m] > 0 /\ (q.body[m] > 1 \/ <<q.user, m>> \in receipts)

Held(q) == EditHeld(q) /\ BulkHeld(q) /\ Answered(q)

IInv ==
  /\ TypeOK
  /\ \A m \in Messages : Remembers(rows[m], m)
  /\ \A r \in Requests : Held(request[r])
  /\ \A m \in Messages : Found(m) => rows[m].text \in Contents

----------------------------------------------------------------------------
(* What the kinds of request hold                                          *)

\* Every kind of request has the fields of its kind.
LEMMA Kinds ==
  ASSUME NEW q \in RequestStates
  PROVE  /\ q.kind = "post" => q.user \in Users
         /\ q.kind = "edit" => q.message \in Messages /\ q.row \in Row
         /\ q.kind = "delete" => q.message \in Messages
         /\ q.kind = "read" => q.user \in Users /\ q.message \in Messages
         /\ q.kind = "bulk" => /\ q.user \in Users
                               /\ q.body \in [Messages -> Nat]
                               /\ q.left \in [Messages -> Nat]
                               /\ q.at \subseteq Messages
                               /\ q.new \in [Messages -> Nat]
         /\ q.kind = "answered" => q.user \in Users /\ q.body \in [Messages -> Nat]
BY DEF RequestStates, Idle, Answers

\* A request that goes on changes its own state and no other one's.
LEMMA ProceedType ==
  ASSUME TypeOK, NEW r \in Requests, NEW q \in RequestStates, Proceed(r, q)
  PROVE  /\ request' \in [Requests -> RequestStates]
         /\ request'[r] = q
         /\ \A s \in Requests \ {r} : request'[s] = request[s]
BY DEF TypeOK, Proceed

\* The states that requests go through are request states.
LEMMA MadeStates ==
  /\ Idle \in RequestStates
  /\ \A u \in Users : [kind |-> "post", user |-> u] \in RequestStates
  /\ \A m \in Messages, row \in Row :
       [kind |-> "edit", message |-> m, row |-> row] \in RequestStates
  /\ \A m \in Messages : [kind |-> "delete", message |-> m] \in RequestStates
  /\ \A u \in Users, m \in Messages, new \in BOOLEAN :
       [kind |-> "read", user |-> u, message |-> m, new |-> new] \in RequestStates
  /\ \A u \in Users, body, left, new \in [Messages -> Nat], at \in SUBSET Messages :
       [kind |-> "bulk", user |-> u, body |-> body, left |-> left, at |-> at, new |-> new]
         \in RequestStates
  /\ \A h \in {"single", "bulk", "multiple"}, u \in Users, body \in [Messages -> Nat],
        missed, ok \in BOOLEAN :
       [kind |-> "answered", handler |-> h, user |-> u, body |-> body,
        missed |-> missed, ok |-> ok] \in RequestStates
BY DEF RequestStates, Answers

\* An edit keeps the first text, as its row or the text before it had it.
LEMMA EditedRow ==
  ASSUME NEW m \in Messages, NEW row \in Row, NEW t \in Contents,
         row.state = "live", row.text \in Contents
  PROVE  /\ Edited(row, t) \in Row
         /\ Edited(row, t).state = "live"
         /\ Edited(row, t).text = t
         /\ Remembers(row, m) => Remembers(Edited(row, t), m)
<1> DEFINE e == Edited(row, t)
<1>1. e \in Row /\ e.state = "live" /\ e.text = t
  BY DEF Edited, Row
<1>2. e.edited = TRUE /\ e.original = IF row.edited THEN row.original ELSE row.text
  BY DEF Edited, Row
<1>3. row.text # Sent
  BY MessagesAssumption DEF Row, Contents
<1>4. ASSUME Remembers(row, m)
      PROVE  Remembers(e, m)
  BY <1>1, <1>2, <1>3, <1>4 DEF Remembers
<1>5. QED
  BY <1>1, <1>4

----------------------------------------------------------------------------
(* The invariant                                                           *)

LEMMA InitInv == Init => IInv
<1> SUFFICES ASSUME Init
             PROVE  IInv
  OBVIOUS
<1>1. TypeOK
  BY MessagesAssumption DEF Init, TypeOK, Row, NoRow, RequestStates
<1>2. \A m \in Messages : Remembers(rows[m], m)
  BY MessagesAssumption DEF Init, Remembers, NoRow
<1>3. \A r \in Requests : Held(request[r])
  BY DEF Init, Idle, Held, EditHeld, BulkHeld, Answered
<1>4. \A m \in Messages : Found(m) => rows[m].text \in Contents
  BY DEF Init, Found, NoRow
<1>5. QED
  BY <1>1, <1>2, <1>3, <1>4 DEF IInv

\* A step that leaves both tables alone keeps the invariant if the request it
\* moves holds what it should.
LEMMA MoveInv ==
  ASSUME IInv, NEW r \in Requests, NEW q \in RequestStates, Proceed(r, q),
         Held(q)', UNCHANGED <<rows, receipts, open, first>>,
         emptied \subseteq emptied', emptied' \subseteq Messages
  PROVE  IInv'
<1>1. TypeOK'
  BY ProceedType DEF IInv, TypeOK
<1>2. request'[r] = q /\ \A s \in Requests \ {r} : Held(request[s]) /\ request'[s] = request[s]
  BY ProceedType DEF IInv
<1>3. \A s \in Requests \ {r} : EditHeld(request[s])'
  BY <1>2 DEF Held, EditHeld, Remembers
<1>4. \A s \in Requests \ {r} : BulkHeld(request[s])' /\ Answered(request[s])'
  BY <1>2 DEF Held, BulkHeld, Answered
<1>5. Held(request[r])'
  BY <1>2 DEF Held, EditHeld, BulkHeld, Answered, Remembers
<1>6. \A m \in Messages : Remembers(rows[m], m)' /\ (Found(m) => rows[m].text \in Contents)'
  BY DEF IInv, Remembers, Found
<1>7. QED
  BY <1>1, <1>3, <1>4, <1>5, <1>6 DEF IInv, Held

\* The same for a step that adds receipts.
LEMMA ReceiptInv ==
  ASSUME IInv, NEW r \in Requests, NEW q \in RequestStates, Proceed(r, q),
         Held(q)', receipts \subseteq receipts', receipts' \subseteq Users \X Messages,
         UNCHANGED <<rows, open, first, emptied>>
  PROVE  IInv'
<1>1. TypeOK'
  BY ProceedType DEF IInv, TypeOK
<1>2. \A s \in Requests : Held(request[s])'
  <2>1. \A s \in Requests \ {r} : Held(request[s]) /\ request'[s] = request[s]
    BY ProceedType DEF IInv
  <2>2. \A s \in Requests \ {r} : EditHeld(request[s])'
    BY <2>1 DEF Held, EditHeld, Remembers
  <2>3. \A s \in Requests \ {r} : BulkHeld(request[s])'
    BY <2>1 DEF Held, BulkHeld
  <2>4. ASSUME NEW s \in Requests \ {r}
        PROVE  Answered(request[s])'
    BY <2>1 DEF Held, Answered
  <2>5. Held(request[r])'
    BY ProceedType DEF IInv, Held, EditHeld, BulkHeld, Answered, Remembers
  <2>6. QED
    BY <2>2, <2>3, <2>4, <2>5 DEF Held
<1>3. \A m \in Messages : Remembers(rows[m], m)' /\ (Found(m) => rows[m].text \in Contents)'
  BY DEF IInv, Remembers, Found
<1>4. QED
  BY <1>1, <1>2, <1>3 DEF IInv

\* The same for a step that writes the row of one message.  A request that holds
\* a copy of that message, which was posted, still holds one of its first text.
LEMMA RowInv ==
  ASSUME IInv, NEW r \in Requests, Proceed(r, Idle),
         NEW m \in Messages, NEW row \in Row, row # NoRow,
         rows' = [rows EXCEPT ![m] = row],
         NEW t \in Contents \cup {NoText}, first' = [first EXCEPT ![m] = t],
         Remembers(row, m)', row.state = "live" => row.text \in Contents,
         t = first[m] \/ rows[m] = NoRow,
         open' \subseteq Messages, UNCHANGED <<receipts, emptied>>
  PROVE  IInv'
<1>1. TypeOK'
  BY ProceedType, MadeStates DEF IInv, TypeOK
<1>2. \A n \in Messages : Remembers(rows[n], n)'
  BY DEF IInv, TypeOK, Remembers
<1>3. \A s \in Requests \ {r} : Held(request[s]) /\ request'[s] = request[s]
  BY ProceedType, MadeStates DEF IInv
<1>4. ASSUME NEW s \in Requests \ {r}
      PROVE  EditHeld(request[s])'
  <2> DEFINE q == request[s]
  <2> SUFFICES ASSUME q.kind = "edit"
               PROVE  EditHeld(q)'
    BY <1>3 DEF EditHeld
  <2>1. q \in RequestStates /\ q.message \in Messages
    BY Kinds DEF IInv, TypeOK
  <2>2. /\ rows[q.message] # NoRow
        /\ q.row.state = "live" /\ q.row.text \in Contents
        /\ Remembers(q.row, q.message)
    BY <1>3 DEF Held, EditHeld
  <2>3. rows'[q.message] # NoRow
    BY <2>1, <2>2 DEF IInv, TypeOK
  <2>4. first'[q.message] = first[q.message]
    BY <2>1, <2>2 DEF IInv, TypeOK
  <2>5. QED
    BY <1>3, <2>2, <2>3, <2>4 DEF EditHeld, Remembers
<1>5. \A s \in Requests \ {r} : BulkHeld(request[s])' /\ Answered(request[s])'
  BY <1>3 DEF Held, BulkHeld, Answered
<1>6. Held(request[r])'
  BY ProceedType, MadeStates DEF IInv, Held, EditHeld, BulkHeld, Answered, Idle
<1>7. \A n \in Messages : (Found(n) => rows[n].text \in Contents)'
  BY DEF IInv, TypeOK, Found
<1>8. QED
  BY <1>1, <1>2, <1>4, <1>5, <1>6, <1>7 DEF IInv, Held

----------------------------------------------------------------------------
(* One step at a time                                                      *)

LEMMA PostInv ==
  ASSUME IInv, NEW r \in Requests,
         \/ \E u \in Users : StartPost(r, u)
         \/ \E m \in Messages, t \in Contents : InsertMessage(r, m, t)
  PROVE  IInv'
<1>1. ASSUME NEW u \in Users, StartPost(r, u)
      PROVE  IInv'
  <2> DEFINE q == [kind |-> "post", user |-> u]
  <2>1. Held(q)' /\ q \in RequestStates
    BY MadeStates DEF Held, EditHeld, BulkHeld, Answered
  <2>2. QED
    BY <1>1, <2>1, MoveInv DEF StartPost, Begin, Proceed, IInv, TypeOK
<1>2. ASSUME NEW m \in Messages, NEW t \in Contents, InsertMessage(r, m, t)
      PROVE  IInv'
  <2> DEFINE row == [NoRow EXCEPT !.state = "live", !.text = t]
  <2>1. row \in Row /\ row # NoRow /\ row.text = t
    BY MessagesAssumption DEF Row, NoRow
  <2>2. Remembers(row, m)'
    <3>1. row.edited = FALSE /\ row.original = NoText /\ first'[m] = t
      BY <1>2 DEF InsertMessage, NoRow, IInv, TypeOK
    <3>2. QED
      BY <2>1, <3>1, MessagesAssumption DEF Remembers
  <2>3. open' \subseteq Messages
    BY <1>2 DEF InsertMessage, IInv, TypeOK
  <2>4. QED
    BY <1>2, <2>1, <2>3, <2>2, RowInv DEF InsertMessage
<1>3. QED
  BY <1>1, <1>2

LEMMA EditInv ==
  ASSUME IInv, NEW r \in Requests, EditStep(r)
  PROVE  IInv'
<1>1. ASSUME NEW m \in Messages, Found(m), NEW row \in Row, row.state = "live",
             row.text \in Contents, Remembers(row, m)', Copy(r, m, row),
             emptied \subseteq emptied', emptied' \subseteq Messages
      PROVE  IInv'
  <2> DEFINE q == [kind |-> "edit", message |-> m, row |-> row]
  <2>1. rows[m] # NoRow /\ UNCHANGED rows
    BY <1>1 DEF Copy, Found, NoRow
  <2>2. Held(q)' /\ q \in RequestStates
    BY <1>1, <2>1, MadeStates DEF Held, EditHeld, BulkHeld, Answered, Remembers
  <2>3. QED
    BY <1>1, <2>2, MoveInv DEF Copy, Begin, Proceed
<1>2. ASSUME NEW m \in Messages, Found(m)
      PROVE  /\ rows[m] \in Row /\ rows[m].state = "live" /\ rows[m].text \in Contents
             /\ Remembers(rows[m], m)
  BY <1>2 DEF IInv, TypeOK, Found
<1>3. emptied \subseteq Messages
  BY DEF IInv, TypeOK
<1>4. ASSUME NEW m \in Messages, Found(m), NEW row \in Row, row.state = "live",
             row.text \in Contents, Remembers(row, m), Copy(r, m, row), UNCHANGED emptied
      PROVE  IInv'
  <2>1. Remembers(row, m)'
    BY <1>4 DEF Copy, Remembers
  <2>2. QED
    BY <1>1, <1>3, <1>4, <2>1
<1>5. ASSUME NEW m \in Messages, NEW t \in Contents, StartEdit(r, m, t)
      PROVE  IInv'
  BY <1>2, <1>4, <1>5, EditedRow DEF StartEdit, MayEdit
<1>6. ASSUME NEW m \in Messages, NEW t \in Texts, StartUpdate(r, m, t)
      PROVE  IInv'
  <2>1. Found(m) /\ t \in Contents /\ UNCHANGED emptied
    BY <1>6 DEF StartUpdate, MayEdit, Contents
  <2>2. CASE t = rows[m].text
    BY <1>2, <1>4, <1>6, <2>1, <2>2 DEF StartUpdate
  <2>3. CASE t # rows[m].text
    BY <1>2, <1>4, <1>6, <2>1, <2>3, EditedRow DEF StartUpdate
  <2>4. QED
    BY <2>2, <2>3
<1>7. ASSUME NEW m \in Messages, StartEmpty(r, m)
      PROVE  IInv'
  <2>1. /\ Found(m) /\ Copy(r, m, [rows[m] EXCEPT !.text = Blank])
        /\ emptied' = IF rows[m].edited THEN emptied ELSE emptied \cup {m}
    BY <1>7 DEF StartEmpty
  <2>2. PICK row \in Row : row = [rows[m] EXCEPT !.text = Blank]
    BY <1>2, <2>1 DEF Row, Contents
  <2>3. /\ row.state = "live" /\ row.text = Blank /\ Blank \in Contents
        /\ row.edited = rows[m].edited /\ row.original = rows[m].original
    BY <1>2, <2>1, <2>2 DEF Row, Contents
  <2>4. emptied \subseteq emptied' /\ emptied' \subseteq Messages /\ first' = first
    BY <1>3, <2>1 DEF Copy
  <2>5. Remembers(row, m)'
    BY <1>2, <2>1, <2>3, <2>4 DEF Remembers
  <2>6. QED
    BY <1>1, <2>1, <2>2, <2>3, <2>4, <2>5
<1>8. ASSUME NEW m \in Messages, NEW t \in Contents, StartMark(r, m, t)
      PROVE  IInv'
  <2> DEFINE row == [rows[m] EXCEPT !.text = t, !.edited = TRUE, !.original = Sent]
  <2>1. Found(m) /\ Copy(r, m, row) /\ UNCHANGED emptied
    BY <1>8 DEF StartMark, MayEdit
  <2>2. row \in Row /\ row.state = "live" /\ row.text \in Contents /\ Remembers(row, m)
    BY <1>2, <2>1 DEF Row, Remembers
  <2>3. QED
    BY <1>4, <2>1, <2>2
<1>9. ASSUME SaveEdit(r)
      PROVE  IInv'
  <2>1. PICK m \in Messages, row \in Row : m = request[r].message /\ row = request[r].row
    BY <1>9, Kinds DEF SaveEdit, IInv, TypeOK
  <2>2. row.state = "live" /\ row.text \in Contents /\ Remembers(row, m)
    BY <1>9, <2>1 DEF SaveEdit, IInv, Held, EditHeld
  <2>3. first' = [first EXCEPT ![m] = first[m]] /\ first[m] \in Contents \cup {NoText}
    BY <1>9, <2>1 DEF SaveEdit, IInv, TypeOK
  <2>4. row # NoRow /\ Remembers(row, m)'
    BY <1>9, <2>2 DEF SaveEdit, NoRow, Remembers
  <2>5. QED
    BY <1>9, <2>1, <2>2, <2>3, <2>4, RowInv DEF SaveEdit, IInv, TypeOK
<1>10. QED
  BY <1>5, <1>9, <1>6, <1>7, <1>8 DEF EditStep

LEMMA DeleteInv ==
  ASSUME IInv, NEW r \in Requests,
         SoftRemove(r) \/ \E m \in Messages : StartDelete(r, m)
  PROVE  IInv'
<1>1. ASSUME NEW m \in Messages, StartDelete(r, m)
      PROVE  IInv'
  <2> DEFINE q == [kind |-> "delete", message |-> m]
  <2>1. Held(q)' /\ q \in RequestStates
    BY MadeStates DEF Held, EditHeld, BulkHeld, Answered
  <2>2. QED
    BY <1>1, <2>1, MoveInv DEF StartDelete, Begin, Proceed, IInv, TypeOK
<1>2. ASSUME SoftRemove(r)
      PROVE  IInv'
  <2>1. PICK m \in Messages : m = request[r].message
    BY <1>2, Kinds DEF SoftRemove, IInv, TypeOK
  <2>2. rows[m] \in Row /\ Remembers(rows[m], m)
    BY DEF IInv, TypeOK
  <2>3. PICK row \in Row : row = [rows[m] EXCEPT !.state = "deleted"]
    BY <2>2 DEF Row
  <2>4. /\ row.state = "deleted" /\ row # NoRow
        /\ row.text = rows[m].text /\ row.edited = rows[m].edited
        /\ row.original = rows[m].original
    BY <2>2, <2>3 DEF Row, NoRow
  <2>5. Remembers(row, m)'
    BY <1>2, <2>2, <2>4 DEF SoftRemove, Remembers
  <2>6. first' = [first EXCEPT ![m] = first[m]] /\ first[m] \in Contents \cup {NoText}
    BY <1>2 DEF SoftRemove, IInv, TypeOK
  <2>7. rows' = [rows EXCEPT ![m] = row]
    BY <1>2, <2>1, <2>3 DEF SoftRemove, IInv, TypeOK
  <2>8. open' \subseteq Messages
    BY <1>2 DEF SoftRemove, IInv, TypeOK
  <2>9. QED
    BY <1>2, <2>1, <2>4, <2>5, <2>6, <2>7, <2>8, RowInv DEF SoftRemove
<1>3. QED
  BY <1>1, <1>2

\* An answer about receipts that are there already, or just added.
LEMMA AnswerInv ==
  ASSUME IInv, NEW r \in Requests, NEW h \in {"single", "bulk", "multiple"},
         NEW u \in Users, NEW body \in [Messages -> Nat],
         NEW missed \in BOOLEAN, NEW ok \in BOOLEAN,
         Answer(r, h, u, body, missed, ok),
         receipts \subseteq receipts', receipts' \subseteq Users \X Messages,
         h # "multiple" =>
           /\ ok => \A m \in Messages : body[m] > 0 => <<u, m>> \in receipts'
           /\ ~ok /\ ~missed =>
                \E m \in Messages : body[m] > 0 /\ (body[m] > 1 \/ <<u, m>> \in receipts'),
         UNCHANGED <<rows, open, first, emptied>>
  PROVE  IInv'
<1> DEFINE q == [kind |-> "answered", handler |-> h, user |-> u, body |-> body,
                 missed |-> missed, ok |-> ok]
<1>1. q \in RequestStates
  BY MadeStates
<1>2. EditHeld(q)' /\ BulkHeld(q)'
  BY DEF EditHeld, BulkHeld
<1>3. Answered(q)'
  BY DEF Answered
<1>4. QED
  BY <1>1, <1>2, <1>3, ReceiptInv DEF Answer, Held

LEMMA SingleInv ==
  ASSUME IInv, NEW r \in Requests,
         \/ \E u \in Users, m \in Messages : StartRead(r, u, m)
         \/ FindReceipt(r) \/ InsertReceipt(r)
  PROVE  IInv'
<1> DEFINE q == request[r]
<1>1. ASSUME NEW u \in Users, NEW m \in Messages, NEW new \in BOOLEAN,
             Proceed(r, Reading(u, m, new)),
             UNCHANGED <<rows, receipts, open, first, emptied>>
      PROVE  IInv'
  <2> DEFINE p == Reading(u, m, new)
  <2>1. p \in RequestStates /\ Held(p)'
    BY MadeStates DEF Reading, Held, EditHeld, BulkHeld, Answered
  <2>2. QED
    BY <1>1, <2>1, MoveInv DEF IInv, TypeOK
<1>2. ASSUME NEW u \in Users, NEW m \in Messages, StartRead(r, u, m)
      PROVE  IInv'
  BY <1>1, <1>2 DEF StartRead, Begin, Proceed
<1>3. ASSUME q.kind = "read"
      PROVE  /\ q.user \in Users /\ q.message \in Messages
             /\ Once(q.message) \in [Messages -> Nat]
             /\ \A m \in Messages : Once(q.message)[m] > 0 <=> m = q.message
  <2>1. q \in RequestStates
    BY DEF IInv, TypeOK
  <2>2. q \in [kind : {"read"}, user : Users, message : Messages, new : BOOLEAN]
    BY <1>3, <2>1 DEF RequestStates, Idle, Answers
  <2>3. q.user \in Users /\ q.message \in Messages
    BY <2>2
  <2>4. /\ Once(q.message) \in [Messages -> Nat]
        /\ \A m \in Messages : Once(q.message)[m] > 0 <=> m = q.message
    BY DEF Once
  <2>5. QED
    BY <2>3, <2>4
<1>4. receipts \subseteq Users \X Messages
  BY DEF IInv, TypeOK
<1>5. ASSUME FindReceipt(r)
      PROVE  IInv'
  <2>1. CASE <<q.user, q.message>> \in receipts
    <3>1. Answer(r, "single", q.user, Once(q.message), FALSE, TRUE)
      BY <1>5, <2>1 DEF FindReceipt
    <3>2. UNCHANGED <<rows, receipts, open, first, emptied>> /\ q.kind = "read"
      BY <1>5 DEF FindReceipt
    <3>3. QED
      BY <1>3, <1>4, <2>1, <3>1, <3>2, AnswerInv
  <2>2. CASE <<q.user, q.message>> \notin receipts
    BY <1>1, <1>3, <1>5, <2>2 DEF FindReceipt
  <2>3. QED
    BY <2>1, <2>2
<1>6. ASSUME InsertReceipt(r)
      PROVE  IInv'
  <2> DEFINE ok == <<q.user, q.message>> \notin receipts
  <2>1. /\ q.kind = "read"
        /\ receipts' = receipts \cup {<<q.user, q.message>>}
        /\ Answer(r, "single", q.user, Once(q.message), FALSE, ok)
        /\ UNCHANGED <<rows, open, first, emptied>>
    BY <1>6 DEF InsertReceipt
  <2>2. ok \in BOOLEAN
    OBVIOUS
  <2>3. <<q.user, q.message>> \in receipts' /\ receipts' \subseteq Users \X Messages
    BY <1>3, <1>4, <2>1
  <2>4. \A m \in Messages : Once(q.message)[m] > 0 => <<q.user, m>> \in receipts'
    BY <1>3, <2>1, <2>3
  <2>5. \E m \in Messages : Once(q.message)[m] > 0 /\ <<q.user, m>> \in receipts'
    BY <1>3, <2>1, <2>3
  <2> HIDE DEF ok
  <2>6. q.user \in Users /\ Once(q.message) \in [Messages -> Nat]
    BY <1>3, <2>1
  <2>7. receipts \subseteq receipts'
    BY <2>1
  <2> HIDE DEF q
  <2>8. QED
    BY <2>1, <2>2, <2>3, <2>4, <2>5, <2>6, <2>7, AnswerInv
<1>7. QED
  BY <1>2, <1>5, <1>6

LEMMA BulkInv ==
  ASSUME IInv, NEW r \in Requests,
         \/ \E u \in Users, body \in Bodies : StartBulk(r, u, body)
         \/ \E u \in Users : ReadMultiple(r, u)
         \/ \E m \in Messages : FindItem(r, m) \/ FindExisting(r, m) \/ MissItem(r, m)
         \/ InsertBulk(r)
  PROVE  IInv'
<1> DEFINE q == request[r]
<1> USE DEF None
<1>1. None \in [Messages -> Nat]
  OBVIOUS
<1>2. receipts \subseteq Users \X Messages
  BY DEF IInv, TypeOK
<1>3. ASSUME q.kind = "bulk"
      PROVE  /\ q.user \in Users
             /\ q.body \in [Messages -> Nat]
             /\ q.left \in [Messages -> Nat] /\ q.new \in [Messages -> Nat]
             /\ q.at \subseteq Messages
             /\ \A m \in Messages :
                  /\ q.new[m] + q.left[m] <= q.body[m]
                  /\ m \in q.at => q.new[m] + q.left[m] < q.body[m]
                  /\ q.body[m] > 0 /\ q.left[m] = 0 /\ q.new[m] = 0
                       => m \in q.at \/ <<q.user, m>> \in receipts
  <2>1. q \in RequestStates /\ BulkHeld(q)
    BY DEF IInv, TypeOK, Held
  <2>2. QED
    BY <1>3, <2>1, Kinds DEF BulkHeld
<1>4. ASSUME NEW u \in Users, NEW body \in [Messages -> Nat],
             NEW left \in [Messages -> Nat], NEW at \in SUBSET Messages,
             NEW new \in [Messages -> Nat],
             \A m \in Messages :
               /\ new[m] + left[m] <= body[m]
               /\ m \in at => new[m] + left[m] < body[m]
               /\ body[m] > 0 /\ left[m] = 0 /\ new[m] = 0
                    => m \in at \/ <<u, m>> \in receipts,
             Proceed(r, BulkReading(u, body, left, at, new)),
             UNCHANGED <<rows, receipts, open, first, emptied>>
      PROVE  IInv'
  <2> DEFINE p == BulkReading(u, body, left, at, new)
  <2>1. p \in RequestStates
    BY MadeStates DEF BulkReading
  <2>2. EditHeld(p)' /\ Answered(p)'
    BY DEF BulkReading, EditHeld, Answered
  <2>3. BulkHeld(p)'
    BY <1>4 DEF BulkReading, BulkHeld
  <2>4. emptied \subseteq emptied' /\ emptied' \subseteq Messages
    BY <1>4 DEF IInv, TypeOK
  <2>5. QED
    BY <1>4, <2>1, <2>2, <2>3, <2>4, MoveInv DEF Held
<1>5. ASSUME NEW u \in Users, NEW body \in Bodies, StartBulk(r, u, body)
      PROVE  IInv'
  <2>1. body \in [Messages -> Nat]
    BY MessagesAssumption
  <2>2. ASSUME NEW m \in Messages
        PROVE  None[m] + body[m] <= body[m] /\ ~(body[m] > 0 /\ body[m] = 0)
    <3>1. body[m] \in Nat /\ None[m] = 0
      BY <2>1
    <3>2. QED
      BY <3>1
  <2>3. /\ Proceed(r, BulkReading(u, body, body, {}, None))
        /\ UNCHANGED <<rows, receipts, open, first, emptied>>
    BY <1>5 DEF StartBulk, Begin, Proceed
  <2> HIDE DEF None
  <2>4. QED
    BY <1>1, <1>4, <2>1, <2>2, <2>3
<1>6. ASSUME NEW m \in Messages, FindItem(r, m)
      PROVE  IInv'
  <2> DEFINE left == [q.left EXCEPT ![m] = @ - 1]
  <2>1. /\ q.kind = "bulk" /\ q.at = {} /\ q.left[m] > 0
        /\ UNCHANGED <<rows, receipts, open, first, emptied>>
    BY <1>6 DEF FindItem
  <2>2. left \in [Messages -> Nat]
    BY <1>3, <2>1
  <2>3. ASSUME NEW n \in Messages
        PROVE  /\ q.new[n] + left[n] <= q.body[n]
               /\ n \in {m} => q.new[n] + left[n] < q.body[n]
               /\ q.body[n] > 0 /\ left[n] = 0 /\ q.new[n] = 0
                    => n \in {m} \/ <<q.user, n>> \in receipts
    <3>1. /\ q.body[n] \in Nat /\ q.left[n] \in Nat /\ q.new[n] \in Nat
          /\ q.new[n] + q.left[n] <= q.body[n]
          /\ q.body[n] > 0 /\ q.left[n] = 0 /\ q.new[n] = 0 => <<q.user, n>> \in receipts
      BY <1>3, <2>1
    <3>2. left[n] = IF n = m THEN q.left[n] - 1 ELSE q.left[n]
      BY <1>3, <2>1
    <3>3. QED
      BY <2>1, <3>1, <3>2
  <2>4. Proceed(r, BulkReading(q.user, q.body, left, {m}, q.new))
    BY <1>6 DEF FindItem
  <2> HIDE DEF left
  <2>5. q.user \in Users /\ q.body \in [Messages -> Nat] /\ q.new \in [Messages -> Nat]
    BY <1>3, <2>1
  <2>6. {m} \in SUBSET Messages
    OBVIOUS
  <2> HIDE DEF q
  <2>7. QED
    BY <1>4, <2>1, <2>2, <2>3, <2>4, <2>5, <2>6
<1>7. ASSUME NEW m \in Messages, FindExisting(r, m)
      PROVE  IInv'
  <2> DEFINE new == [q.new EXCEPT ![m] = IF <<q.user, m>> \in receipts THEN @ ELSE @ + 1]
  <2>1. /\ q.kind = "bulk" /\ q.at = {m}
        /\ UNCHANGED <<rows, receipts, open, first, emptied>>
    BY <1>7 DEF FindExisting
  <2>2. new \in [Messages -> Nat]
    BY <1>3, <2>1
  <2>3. ASSUME NEW n \in Messages
        PROVE  /\ new[n] + q.left[n] <= q.body[n]
               /\ q.body[n] > 0 /\ q.left[n] = 0 /\ new[n] = 0 => <<q.user, n>> \in receipts
    <3>1. /\ q.body[n] \in Nat /\ q.left[n] \in Nat /\ q.new[n] \in Nat
          /\ q.new[n] + q.left[n] <= q.body[n]
          /\ n = m => q.new[n] + q.left[n] < q.body[n]
          /\ q.body[n] > 0 /\ q.left[n] = 0 /\ q.new[n] = 0
               => n = m \/ <<q.user, n>> \in receipts
      BY <1>3, <2>1
    <3>2. CASE n # m
      <4>1. new[n] = q.new[n]
        BY <1>3, <2>1, <3>2
      <4>2. QED
        BY <3>1, <3>2, <4>1
    <3>3. CASE n = m
      <4>1. new[n] = IF <<q.user, n>> \in receipts THEN q.new[n] ELSE q.new[n] + 1
        BY <1>3, <2>1, <3>3
      <4>2. QED
        BY <3>1, <3>3, <4>1
    <3>4. QED
      BY <3>2, <3>3
  <2>4. Proceed(r, BulkReading(q.user, q.body, q.left, {}, new))
    BY <1>7 DEF FindExisting
  <2> HIDE DEF new
  <2>5. q.user \in Users /\ q.body \in [Messages -> Nat] /\ q.left \in [Messages -> Nat]
    BY <1>3, <2>1
  <2> HIDE DEF q
  <2>6. QED
    BY <1>4, <2>1, <2>2, <2>3, <2>4, <2>5
<1>8. ASSUME NEW m \in Messages, MissItem(r, m)
      PROVE  IInv'
  <2>1. /\ q.kind = "bulk" /\ Answer(r, "bulk", q.user, q.body, TRUE, FALSE)
        /\ UNCHANGED <<rows, receipts, open, first, emptied>>
    BY <1>8 DEF MissItem
  <2>2. QED
    BY <1>2, <1>3, <2>1, AnswerInv
<1>9. ASSUME InsertBulk(r)
      PROVE  IInv'
  <2>1. /\ q.kind = "bulk" /\ q.at = {} /\ q.left = None
        /\ receipts' = IF Conflict(q) THEN receipts ELSE receipts \cup ({q.user} \X New(q))
        /\ Answer(r, "bulk", q.user, q.body, FALSE, ~Conflict(q))
        /\ UNCHANGED <<rows, open, first, emptied>>
    BY <1>9 DEF InsertBulk
  <2>2. \A m \in Messages : q.left[m] = 0
    BY <2>1
  <2>3. CASE Conflict(q)
    <3>1. PICK m \in New(q) : q.new[m] > 1 \/ <<q.user, m>> \in receipts
      BY <2>3 DEF Conflict
    <3>2. m \in Messages /\ q.new[m] > 0 /\ q.new[m] <= q.body[m]
      BY <1>3, <2>1, <2>2, <3>1 DEF New
    <3>3. q.body[m] > 0 /\ (q.body[m] > 1 \/ <<q.user, m>> \in receipts)
      BY <1>3, <2>1, <3>1, <3>2
    <3>4. Answer(r, "bulk", q.user, q.body, FALSE, FALSE) /\ receipts' = receipts
      BY <2>1, <2>3
    <3>5. QED
      BY <1>2, <1>3, <2>1, <3>2, <3>3, <3>4, AnswerInv
  <2>4. CASE ~Conflict(q)
    <3>1. /\ Answer(r, "bulk", q.user, q.body, FALSE, TRUE)
          /\ receipts' = receipts \cup ({q.user} \X New(q))
      BY <2>1, <2>4
    <3>2. New(q) \subseteq Messages
      BY DEF New
    <3>3. \A m \in Messages : q.body[m] > 0 => m \in New(q) \/ <<q.user, m>> \in receipts
      BY <1>3, <2>1, <2>2 DEF New
    <3>4. receipts \subseteq receipts' /\ receipts' \subseteq Users \X Messages
      BY <1>2, <1>3, <2>1, <3>1, <3>2
    <3>5. \A m \in Messages : q.body[m] > 0 => <<q.user, m>> \in receipts'
      BY <3>1, <3>3
    <3>6. QED
      BY <1>3, <2>1, <3>1, <3>4, <3>5, AnswerInv
  <2>5. QED
    BY <2>3, <2>4
<1>10. ASSUME NEW u \in Users, ReadMultiple(r, u)
      PROVE  IInv'
  BY <1>1, <1>2, <1>10, AnswerInv DEF ReadMultiple
<1>11. QED
  BY <1>5, <1>6, <1>8, <1>9, <1>10, <1>7

LEMMA LeaveInv ==
  ASSUME IInv, NEW r \in Requests, Leave(r)
  PROVE  IInv'
<1>1. Held(Idle)'
  BY DEF Held, EditHeld, BulkHeld, Answered, Idle
<1>2. QED
  BY <1>1, MadeStates, MoveInv DEF Leave, IInv, TypeOK

LEMMA ExpireInv ==
  ASSUME IInv, NEW m \in Messages, Expire(m)
  PROVE  IInv'
<1>1. TypeOK'
  BY DEF IInv, TypeOK, Expire
<1>2. \A r \in Requests : Held(request[r])'
  BY DEF IInv, Expire, Held, EditHeld, BulkHeld, Answered, Remembers
<1>3. \A n \in Messages : Remembers(rows[n], n)' /\ (Found(n) => rows[n].text \in Contents)'
  BY DEF IInv, Expire, Remembers, Found
<1>4. QED
  BY <1>1, <1>2, <1>3 DEF IInv

LEMMA NextInv == IInv /\ [Next]_vars => IInv'
<1> SUFFICES ASSUME IInv, [Next]_vars
             PROVE  IInv'
  OBVIOUS
<1>1. ASSUME NEW r \in Requests, RequestStep(r)
      PROVE  IInv'
  BY <1>1, PostInv, EditInv, DeleteInv, SingleInv, BulkInv, LeaveInv DEF RequestStep, ReadStep
<1>2. ASSUME NEW m \in Messages, Expire(m)
      PROVE  IInv'
  BY <1>2, ExpireInv
<1>3. CASE UNCHANGED vars
  <2>1. TypeOK'
    BY <1>3 DEF vars, IInv, TypeOK
  <2>2. \A r \in Requests : Held(request[r])'
    BY <1>3 DEF vars, IInv, Held, EditHeld, BulkHeld, Answered, Remembers
  <2>3. \A n \in Messages : Remembers(rows[n], n)' /\ (Found(n) => rows[n].text \in Contents)'
    BY <1>3 DEF vars, IInv, Remembers, Found
  <2>4. QED
    BY <2>1, <2>2, <2>3 DEF IInv
<1>4. QED
  BY <1>1, <1>2, <1>3 DEF Next

THEOREM Invariant == Spec => []IInv
BY InitInv, NextInv, PTL DEF Spec

----------------------------------------------------------------------------
(* What follows from it                                                    *)

\* The tables, the requests and the history keep their types.
THEOREM MessagesTyped == Spec => []TypeOK
<1>1. IInv => TypeOK
  BY DEF IInv
<1>2. QED
  BY <1>1, Invariant, PTL

\* The first text of a message is never lost to racing edits, for any number of
\* requests: only an update that empties the message, or one that says itself
\* what the original is, makes it go.
THEOREM TextKept == Spec => []OriginalKept
<1>1. IInv => OriginalKept
  BY DEF IInv, OriginalKept, Remembers
<1>2. QED
  BY <1>1, Invariant, PTL

\* Every answer about receipts is borne out by them, for any bodies and any
\* number of devices.
THEOREM ReadersInformed == Spec => []ReadsAnswered
<1>1. ASSUME IInv
      PROVE  ReadsAnswered
  <2> SUFFICES ASSUME NEW r \in Requests, request[r].kind = "answered",
                      request[r].handler # "multiple"
               PROVE  LET q == request[r]
                          named == {m \in Messages : q.body[m] > 0}
                      IN  IF q.ok THEN \A m \in named : <<q.user, m>> \in receipts
                          ELSE \/ q.missed
                               \/ \E m \in named : q.body[m] > 1 \/ <<q.user, m>> \in receipts
    BY DEF ReadsAnswered
  <2>1. Answered(request[r])
    BY <1>1 DEF IInv, Held
  <2>2. request[r].ok \in BOOLEAN /\ request[r].missed \in BOOLEAN
    BY <1>1 DEF IInv, TypeOK, RequestStates, Idle, Answers
  <2>3. QED
    BY <2>1, <2>2 DEF Answered
<1>2. QED
  BY <1>1, Invariant, PTL

----------------------------------------------------------------------------
(* Messages implements MessageBoard: what the board sees of a step         *)

\* The tasks, the texts, the messages on the board, and their readers.
Tasks == [s \in Requests |-> Task(request[s])]
Shown == [m \in Messages |-> rows[m].text]
OnBoard == {m \in Messages : rows[m].state = "live"}
Readers == [m \in Messages |-> {u \in Users : <<u, m>> \in receipts}]

BoardVars == <<Shown, OnBoard, open, Readers, Tasks>>

\* The task of each kind of request, and of the states that requests move to.
LEMMA TaskHeld ==
  ASSUME NEW r \in Requests
  PROVE  LET q == request[r]
         IN  /\ Tasks[r] = Task(q)
             /\ q.kind = "post" => Tasks[r] = [to |-> "post", by |-> q.user, about |-> {}]
             /\ q.kind = "edit" =>
                  Tasks[r] = [to |-> IF q.row.text = Blank THEN "empty" ELSE "edit",
                              by |-> Author[q.message], about |-> {q.message}]
             /\ q.kind = "delete" => Tasks[r] = [to |-> "nothing"]
             /\ q.kind = "read" =>
                  Tasks[r] = [to |-> "read", by |-> q.user, about |-> {q.message}]
             /\ q.kind = "bulk" =>
                  Tasks[r] = [to |-> "read", by |-> q.user, about |-> Reached(q)]
BY DEF Tasks, Task

LEMMA TaskNone ==
  /\ Task(Idle) = [to |-> "nothing"]
  /\ \A m : Task([kind |-> "delete", message |-> m]) = [to |-> "nothing"]
  /\ \A h, u, body, missed, ok :
       Task([kind |-> "answered", handler |-> h, user |-> u, body |-> body,
             missed |-> missed, ok |-> ok]) = [to |-> "nothing"]
BY DEF Task, Idle

LEMMA TaskPost ==
  ASSUME NEW u
  PROVE  Task([kind |-> "post", user |-> u]) = [to |-> "post", by |-> u, about |-> {}]
BY DEF Task

LEMMA TaskEdit ==
  ASSUME NEW m, NEW row
  PROVE  Task([kind |-> "edit", message |-> m, row |-> row])
           = [to |-> IF row.text = Blank THEN "empty" ELSE "edit",
              by |-> Author[m], about |-> {m}]
BY DEF Task

LEMMA TaskRead ==
  ASSUME NEW u, NEW m, NEW new
  PROVE  Task(Reading(u, m, new)) = [to |-> "read", by |-> u, about |-> {m}]
BY DEF Task, Reading

LEMMA TaskBulk ==
  ASSUME NEW u, NEW body, NEW left, NEW at, NEW new
  PROVE  Task(BulkReading(u, body, left, at, new))
           = [to |-> "read", by |-> u, about |-> {m \in Messages : left[m] < body[m]}]
BY DEF Task, BulkReading, Reached

\* One request moves, and so does its task.
LEMMA TaskMoves ==
  ASSUME TypeOK, NEW r \in Requests, NEW q, Proceed(r, q)
  PROVE  /\ Tasks' = [Tasks EXCEPT ![r] = Task(q)]
         /\ Task(q) = Task(request[r]) => Tasks' = Tasks
<1>1. request' = [request EXCEPT ![r] = q] /\ request \in [Requests -> RequestStates]
  BY DEF TypeOK, Proceed
<1>2. request'[r] = q /\ \A s \in Requests \ {r} : request'[s] = request[s]
  BY <1>1
<1>3. Tasks' = [s \in Requests |-> Task(request'[s])]
  BY DEF Tasks, Task, Reached
<1>4. Tasks' = [s \in Requests |-> IF s = r THEN Task(q) ELSE Task(request[s])]
  BY <1>2, <1>3
<1>5. QED
  BY <1>4 DEF Tasks

\* One request comes to its end.
LEMMA TaskEnds ==
  ASSUME TypeOK, NEW r \in Requests, NEW q, Proceed(r, q), Task(q) = [to |-> "nothing"]
  PROVE  Tasks' = [Tasks EXCEPT ![r] = [to |-> "nothing"]]
BY TaskMoves

\* A request whose task does not change leaves the board as it is.
LEMMA Unseen ==
  ASSUME TypeOK, NEW r \in Requests, NEW q, Proceed(r, q),
         Task(q) = Task(request[r]), UNCHANGED <<rows, receipts, open>>
  PROVE  UNCHANGED BoardVars
<1>1. UNCHANGED Tasks
  BY TaskMoves
<1>2. UNCHANGED <<Shown, OnBoard, Readers>>
  BY DEF Shown, OnBoard, Readers
<1>3. QED
  BY <1>1, <1>2 DEF BoardVars

\* A request that gives up its task without a write is a Drop.
LEMMA GivenUp ==
  ASSUME TypeOK, NEW r \in Requests, NEW q, Proceed(r, q),
         Task(q) = [to |-> "nothing"], UNCHANGED <<rows, receipts, open>>
  PROVE  Board!BoardNext \/ UNCHANGED BoardVars
<1>1. CASE Task(request[r]) = [to |-> "nothing"]
  BY <1>1, Unseen
<1>2. CASE Task(request[r]) # [to |-> "nothing"]
  <2>1. Tasks' = [Tasks EXCEPT ![r] = [to |-> "nothing"]] /\ Tasks[r] # [to |-> "nothing"]
    BY <1>2, TaskEnds, TaskHeld
  <2>2. Board!Drop(r)
    BY <2>1 DEF Board!Drop, Board!End, Board!Nothing, Tasks, Shown, OnBoard, Readers
  <2>3. QED
    BY <2>2 DEF Board!BoardNext
<1>3. QED
  BY <1>1, <1>2

\* A request that begins is accepted for messages that are on the board.
LEMMA Accepted ==
  ASSUME TypeOK, NEW r \in Requests, NEW q, Begin(r, q),
         NEW u \in Users, NEW about \in SUBSET OnBoard,
         \/ Task(q) = [to |-> "post", by |-> u, about |-> {}]
         \/ Task(q) = [to |-> "read", by |-> u, about |-> about]
         \/ /\ Task(q) = [to |-> "edit", by |-> u, about |-> about]
            /\ \A m \in about : m \in open /\ Author[m] = u
         \/ /\ Task(q) = [to |-> "empty", by |-> u, about |-> about]
            /\ \A m \in about : Author[m] = u,
         UNCHANGED <<rows, receipts, open>>
  PROVE  Board!BoardNext
<1>1. Tasks' = [Tasks EXCEPT ![r] = Task(q)] /\ Tasks[r] = [to |-> "nothing"]
  BY TaskMoves, TaskHeld, TaskNone DEF Begin, Proceed
<1>2. UNCHANGED <<Shown, OnBoard, open, Readers>>
  BY DEF Shown, OnBoard, Readers
<1>3. \E v \in Users, a \in SUBSET OnBoard :
        \/ Tasks' = [Tasks EXCEPT ![r] = [to |-> "post", by |-> v, about |-> {}]]
        \/ Tasks' = [Tasks EXCEPT ![r] = [to |-> "read", by |-> v, about |-> a]]
        \/ /\ \A m \in a : Author[m] = v
           /\ \/ /\ a \subseteq open
                 /\ Tasks' = [Tasks EXCEPT ![r] = [to |-> "edit", by |-> v, about |-> a]]
              \/ Tasks' = [Tasks EXCEPT ![r] = [to |-> "empty", by |-> v, about |-> a]]
  <2>1. CASE Task(q) = [to |-> "edit", by |-> u, about |-> about] /\ \A m \in about : m \in open
    <3>1. about \subseteq open
      BY <2>1
    <3>2. QED
      BY <1>1, <2>1, <3>1
  <2>2. QED
    BY <1>1, <2>1
<1>4. Board!Accept(r)
  BY <1>1, <1>2, <1>3 DEF Board!Accept, Board!Nothing, Tasks, Shown, OnBoard, Readers
<1>5. QED
  BY <1>4 DEF Board!BoardNext

\* A user comes to have read messages, some of which were read before: a Read.
LEMMA ReadShown ==
  ASSUME NEW r \in Requests, NEW u \in Users, NEW about \in SUBSET Messages,
         Tasks[r] = [to |-> "read", by |-> u, about |-> about],
         Tasks' = [Tasks EXCEPT ![r] = [to |-> "nothing"]],
         NEW new \in SUBSET about, receipts' = receipts \cup ({u} \X new),
         \A m \in about \ new : <<u, m>> \in receipts,
         UNCHANGED <<rows, open>>
  PROVE  Board!BoardNext
<1>1. ASSUME NEW m \in Messages
      PROVE  {v \in Users : <<v, m>> \in receipts'}
               = IF m \in about THEN Readers[m] \cup {u} ELSE Readers[m]
  BY DEF Readers
<1>2. Readers' = [m \in Messages |-> IF m \in about THEN Readers[m] \cup {u} ELSE Readers[m]]
  BY <1>1 DEF Readers
<1>3. UNCHANGED <<Shown, OnBoard, open>>
  BY DEF Shown, OnBoard
<1>4. Board!Read(r)
  BY <1>2, <1>3 DEF Board!Read, Board!End, Board!Nothing, Tasks, Shown, OnBoard, Readers
<1>5. QED
  BY <1>4 DEF Board!BoardNext

LEMMA PostShown ==
  ASSUME IInv, NEW r \in Requests,
         \/ \E u \in Users : StartPost(r, u)
         \/ \E m \in Messages, t \in Contents : InsertMessage(r, m, t)
  PROVE  Board!BoardNext
<1> TypeOK
  BY DEF IInv
<1>1. ASSUME NEW u \in Users, StartPost(r, u)
      PROVE  Board!BoardNext
  <2>1. Task([kind |-> "post", user |-> u]) = [to |-> "post", by |-> u, about |-> {}]
    BY TaskPost
  <2>2. QED
    BY <1>1, <2>1, Accepted DEF StartPost
<1>2. ASSUME NEW m \in Messages, NEW t \in Contents, InsertMessage(r, m, t)
      PROVE  Board!BoardNext
  <2>1. Tasks' = [Tasks EXCEPT ![r] = [to |-> "nothing"]]
    BY <1>2, TaskNone, TaskEnds DEF InsertMessage
  <2>2. Tasks[r] = [to |-> "post", by |-> request[r].user, about |-> {}]
    BY <1>2, TaskHeld DEF InsertMessage
  <2>3. Shown[m] = NoText /\ Author[m] = Tasks[r].by /\ Tasks[r].to = "post"
    <3>1. rows[m] = NoRow /\ Author[m] = request[r].user
      BY <1>2 DEF InsertMessage
    <3>2. NoRow.text = NoText
      BY DEF NoRow
    <3>3. QED
      BY <2>2, <3>1, <3>2 DEF Shown
  <2>4. rows'[m].state = "live" /\ rows'[m].text = t /\ t \in Texts \cup {Blank}
        /\ \A n \in Messages \ {m} : rows'[n] = rows[n]
    BY <1>2 DEF InsertMessage, TypeOK, NoRow, Contents
  <2>5. Shown' = [Shown EXCEPT ![m] = t] /\ OnBoard' = OnBoard \cup {m}
    BY <2>4 DEF Shown, OnBoard
  <2>6. open' \in {open, open \cup {m}} /\ UNCHANGED Readers
    <3>1. open' = open \cup ({m} \cap Plain) /\ UNCHANGED receipts
      BY <1>2 DEF InsertMessage
    <3>2. {m} \cap Plain = {m} \/ {m} \cap Plain = {}
      OBVIOUS
    <3>3. UNCHANGED Readers
      BY <3>1 DEF Readers
    <3>4. open' = open \/ open' = open \cup {m}
      BY <3>1, <3>2
    <3>5. QED
      BY <3>3, <3>4
  <2>7. Board!Post(r)
    BY <2>1, <2>3, <2>4, <2>5, <2>6
    DEF Board!Post, Board!End, Board!Nothing, Tasks, Shown, OnBoard, Readers
  <2>8. QED
    BY <2>7 DEF Board!BoardNext
<1>3. QED
  BY <1>1, <1>2

LEMMA EditShown ==
  ASSUME IInv, NEW r \in Requests, EditStep(r)
  PROVE  Board!BoardNext
<1> TypeOK
  BY DEF IInv
<1>1. ASSUME NEW m \in Messages, Found(m), NEW row, Copy(r, m, row),
             row.text = Blank \/ MayEdit(m)
      PROVE  Board!BoardNext
  <2>1. Task([kind |-> "edit", message |-> m, row |-> row])
          = [to |-> IF row.text = Blank THEN "empty" ELSE "edit",
             by |-> Author[m], about |-> {m}]
    BY TaskEdit
  <2>2. Author[m] \in Users /\ {m} \in SUBSET OnBoard
    BY <1>1, MessagesAssumption DEF Found, OnBoard
  <2>3. row.text # Blank => m \in open
    BY <1>1 DEF MayEdit
  <2>4. QED
    BY <1>1, <2>1, <2>2, <2>3, Accepted DEF Copy
<1>2. ASSUME NEW m \in Messages, MayEdit(m), NEW row, Copy(r, m, row)
      PROVE  Board!BoardNext
  BY <1>1, <1>2 DEF MayEdit
<1>3. ASSUME NEW m \in Messages, NEW t, StartEdit(r, m, t) \/ StartUpdate(r, m, t)
      PROVE  Board!BoardNext
  BY <1>2, <1>3 DEF StartEdit, StartUpdate
<1>4. ASSUME NEW m \in Messages, Found(m)
      PROVE  rows[m] \in Row
  BY DEF TypeOK
<1>5. ASSUME NEW m \in Messages, StartEmpty(r, m)
      PROVE  Board!BoardNext
  <2>1. Found(m) /\ Copy(r, m, [rows[m] EXCEPT !.text = Blank])
    BY <1>5 DEF StartEmpty
  <2>2. [rows[m] EXCEPT !.text = Blank].text = Blank
    BY <1>4, <2>1 DEF Row
  <2>3. QED
    BY <1>1, <2>1, <2>2
<1>6. ASSUME NEW m \in Messages, NEW t \in Contents, StartMark(r, m, t)
      PROVE  Board!BoardNext
  <2> DEFINE row == [rows[m] EXCEPT !.text = t, !.edited = TRUE, !.original = Sent]
  <2>1. Found(m) /\ Copy(r, m, row) /\ (t = Blank \/ MayEdit(m))
    BY <1>6 DEF StartMark, MayEdit
  <2>2. row.text = t
    BY <1>4, <2>1 DEF Row
  <2>3. QED
    BY <1>1, <2>1, <2>2
<1>7. ASSUME SaveEdit(r)
      PROVE  Board!BoardNext
  <2> DEFINE q == request[r]
             m == q.message
  <2>1. m \in Messages
    BY <1>7, Kinds DEF SaveEdit, TypeOK
  <2>2. q.row.state = "live" /\ q.row.text \in Contents
    BY <1>7 DEF IInv, SaveEdit, Held, EditHeld
  <2>3. Tasks' = [Tasks EXCEPT ![r] = [to |-> "nothing"]]
    BY <1>7, TaskNone, TaskEnds DEF SaveEdit
  <2>4. Tasks[r] = [to |-> IF q.row.text = Blank THEN "empty" ELSE "edit",
                    by |-> Author[m], about |-> {m}]
    BY <1>7, TaskHeld DEF SaveEdit
  <2>5. rows'[m] = q.row /\ \A n \in Messages \ {m} : rows'[n] = rows[n]
    BY <1>7, <2>1 DEF SaveEdit, TypeOK
  <2>6. Shown' = [Shown EXCEPT ![m] = q.row.text] /\ OnBoard' = OnBoard \cup {m}
    BY <2>1, <2>2, <2>5 DEF Shown, OnBoard
  <2>7. UNCHANGED <<open, Readers>>
    BY <1>7 DEF SaveEdit, Readers
  <2>8. Board!Edit(r)
    <3>1. /\ Tasks[r].to \in {"edit", "empty"} /\ m \in Tasks[r].about
          /\ q.row.text \in IF Tasks[r].to = "edit" THEN Texts ELSE {Blank}
      BY <2>2, <2>4, MessagesAssumption DEF Contents
    <3> HIDE DEF m, q
    <3>2. QED
      BY <2>3, <2>6, <2>7, <3>1
      DEF Board!Edit, Board!End, Board!Nothing, Tasks, Shown, OnBoard, Readers
  <2>9. QED
    BY <2>8 DEF Board!BoardNext
<1>8. QED
  BY <1>7, <1>3, <1>5, <1>6 DEF EditStep

LEMMA DeleteShown ==
  ASSUME IInv, NEW r \in Requests,
         SoftRemove(r) \/ \E m \in Messages : StartDelete(r, m)
  PROVE  Board!BoardNext \/ UNCHANGED BoardVars
<1> TypeOK
  BY DEF IInv
<1>1. ASSUME NEW m \in Messages, StartDelete(r, m)
      PROVE  Board!BoardNext \/ UNCHANGED BoardVars
  <2>1. Task([kind |-> "delete", message |-> m]) = [to |-> "nothing"]
    BY TaskNone
  <2>2. QED
    BY <1>1, <2>1, GivenUp DEF StartDelete, Begin, Proceed
<1>2. ASSUME SoftRemove(r)
      PROVE  Board!BoardNext \/ UNCHANGED BoardVars
  <2> DEFINE m == request[r].message
  <2>1. m \in Messages
    BY <1>2, Kinds DEF SoftRemove, TypeOK
  <2>2. Tasks' = Tasks
    <3>1. Task(request[r]) = [to |-> "nothing"] /\ Task(Idle) = [to |-> "nothing"]
      BY <1>2, TaskHeld, TaskNone DEF SoftRemove
    <3>2. QED
      BY <1>2, <3>1, TaskMoves DEF SoftRemove
  <2>3. /\ rows'[m].state = "deleted" /\ rows'[m].text = rows[m].text
        /\ \A n \in Messages \ {m} : rows'[n] = rows[n]
    BY <1>2, <2>1 DEF SoftRemove, TypeOK, Row
  <2>4. Shown' = Shown /\ OnBoard' = OnBoard \ {m}
    BY <2>1, <2>3 DEF Shown, OnBoard
  <2>5. UNCHANGED <<open, Readers>>
    BY <1>2 DEF SoftRemove, Readers
  <2>6. CASE m \in OnBoard
    <3>1. PICK n \in Messages : n = m
      BY <2>1
    <3>2. Board!TakeDown(n)
      BY <2>2, <2>4, <2>5, <2>6, <3>1 DEF Board!TakeDown, Tasks, Shown, OnBoard, Readers
    <3>3. QED
      BY <3>2 DEF Board!BoardNext
  <2>7. CASE m \notin OnBoard
    <3>1. OnBoard' = OnBoard
      BY <2>4, <2>7
    <3>2. QED
      BY <2>2, <2>4, <2>5, <3>1 DEF BoardVars
  <2>8. QED
    BY <2>6, <2>7
<1>3. QED
  BY <1>1, <1>2

LEMMA SingleShown ==
  ASSUME IInv, NEW r \in Requests,
         \/ \E u \in Users, m \in Messages : StartRead(r, u, m)
         \/ FindReceipt(r) \/ InsertReceipt(r)
  PROVE  Board!BoardNext \/ UNCHANGED BoardVars
<1> TypeOK
  BY DEF IInv
<1> DEFINE q == request[r]
<1>1. ASSUME NEW u \in Users, NEW m \in Messages, StartRead(r, u, m)
      PROVE  Board!BoardNext
  <2>1. Task(Reading(u, m, FALSE)) = [to |-> "read", by |-> u, about |-> {m}]
    BY TaskRead
  <2>2. {m} \in SUBSET OnBoard
    BY <1>1 DEF StartRead, Found, OnBoard
  <2>3. QED
    BY <1>1, <2>1, <2>2, Accepted DEF StartRead
<1>2. ASSUME FindReceipt(r)
      PROVE  Board!BoardNext \/ UNCHANGED BoardVars
  <2>1. CASE <<q.user, q.message>> \in receipts
    BY <1>2, <2>1, TaskNone, GivenUp DEF FindReceipt, Answer
  <2>2. CASE <<q.user, q.message>> \notin receipts
    <3>1. Task(Reading(q.user, q.message, TRUE))
            = [to |-> "read", by |-> q.user, about |-> {q.message}]
      BY TaskRead
    <3>2. Task(q) = [to |-> "read", by |-> q.user, about |-> {q.message}]
      BY <1>2, TaskHeld DEF FindReceipt
    <3>3. QED
      BY <1>2, <2>2, <3>1, <3>2, Unseen DEF FindReceipt
  <2>3. QED
    BY <2>1, <2>2
<1>3. ASSUME InsertReceipt(r)
      PROVE  Board!BoardNext
  <2>1. Tasks' = [Tasks EXCEPT ![r] = [to |-> "nothing"]]
    BY <1>3, TaskNone, TaskEnds DEF InsertReceipt, Answer
  <2>2. Tasks[r] = [to |-> "read", by |-> q.user, about |-> {q.message}]
    BY <1>3, TaskHeld DEF InsertReceipt
  <2>3. q.user \in Users /\ q.message \in Messages
    BY <1>3, Kinds DEF InsertReceipt, TypeOK
  <2>4. /\ receipts' = receipts \cup ({q.user} \X {q.message})
        /\ {q.message} \in SUBSET {q.message}
    BY <1>3 DEF InsertReceipt
  <2>5. UNCHANGED <<rows, open>> /\ {q.message} \in SUBSET Messages
    BY <1>3, <2>3 DEF InsertReceipt
  <2> HIDE DEF q
  <2>6. QED
    BY <2>1, <2>2, <2>3, <2>4, <2>5, ReadShown
<1>4. QED
  BY <1>1, <1>2, <1>3

LEMMA BulkShown ==
  ASSUME IInv, NEW r \in Requests,
         \/ \E u \in Users, body \in Bodies : StartBulk(r, u, body)
         \/ \E u \in Users : ReadMultiple(r, u)
         \/ \E m \in Messages : FindItem(r, m) \/ FindExisting(r, m) \/ MissItem(r, m)
         \/ InsertBulk(r)
  PROVE  Board!BoardNext \/ UNCHANGED BoardVars
<1> TypeOK
  BY DEF IInv
<1> DEFINE q == request[r]
<1>1. ASSUME NEW u \in Users, NEW body \in Bodies, StartBulk(r, u, body)
      PROVE  Board!BoardNext
  <2>1. {m \in Messages : body[m] < body[m]} = {}
    BY MessagesAssumption
  <2>2. Task(BulkReading(u, body, body, {}, None)) = [to |-> "read", by |-> u, about |-> {}]
    BY <2>1, TaskBulk
  <2>3. QED
    BY <1>1, <2>2, Accepted DEF StartBulk
<1>2. ASSUME NEW m \in Messages, FindItem(r, m)
      PROVE  Board!BoardNext
  <2> DEFINE left == [q.left EXCEPT ![m] = @ - 1]
             next == BulkReading(q.user, q.body, left, {m}, q.new)
  <2>1. /\ q.kind = "bulk" /\ q.left[m] > 0 /\ q.at = {}
        /\ Found(m) /\ Proceed(r, next) /\ UNCHANGED <<rows, receipts, open>>
    BY <1>2 DEF FindItem
  <2>2. /\ q.body \in [Messages -> Nat] /\ q.left \in [Messages -> Nat]
        /\ q.left[m] <= q.body[m]
    <3>1. BulkHeld(q) /\ q.new \in [Messages -> Nat]
          /\ q.body \in [Messages -> Nat] /\ q.left \in [Messages -> Nat]
      BY <2>1, Kinds DEF IInv, Held, TypeOK
    <3>2. q.new[m] + q.left[m] <= q.body[m]
      BY <2>1, <3>1 DEF BulkHeld
    <3>3. QED
      BY <3>1, <3>2
  <2>3. Tasks[r] = [to |-> "read", by |-> q.user, about |-> Reached(q)]
    BY <2>1, TaskHeld
  <2>4. Task(next) = [to |-> "read", by |-> q.user,
                      about |-> {n \in Messages : left[n] < q.body[n]}]
    <3> HIDE DEF q, left
    <3>1. QED
      BY TaskBulk
  <2>5. {n \in Messages : left[n] < q.body[n]} = Reached(q) \cup {m}
    BY <2>1, <2>2 DEF Reached
  <2>6. Tasks' = [Tasks EXCEPT ![r] = [to |-> "read", by |-> q.user,
                                       about |-> Reached(q) \cup {m}]]
    BY <2>1, <2>4, <2>5, TaskMoves
  <2>7. m \in OnBoard /\ UNCHANGED <<Shown, OnBoard, open, Readers>>
    BY <2>1 DEF Found, OnBoard, Shown, Readers
  <2>8. /\ Tasks[r].to = "read"
        /\ Tasks' = [Tasks EXCEPT ![r] = [to |-> "read", by |-> Tasks[r].by,
                                          about |-> Tasks[r].about \cup {m}]]
    BY <2>3, <2>6
  <2>9. Board!ReadMore(r)
    BY <2>7, <2>8 DEF Board!ReadMore, Tasks, Shown, OnBoard, Readers
  <2>10. QED
    BY <2>9 DEF Board!BoardNext
<1>3. ASSUME NEW m \in Messages, FindExisting(r, m)
      PROVE  Board!BoardNext \/ UNCHANGED BoardVars
  <2> DEFINE new  == [q.new EXCEPT ![m] = IF <<q.user, m>> \in receipts THEN @ ELSE @ + 1]
             next == BulkReading(q.user, q.body, q.left, {}, new)
  <2>1. q.kind = "bulk" /\ Proceed(r, next) /\ UNCHANGED <<rows, receipts, open>>
    BY <1>3 DEF FindExisting
  <2>2. Task(q) = [to |-> "read", by |-> q.user, about |-> Reached(q)]
    BY <2>1, TaskHeld
  <2>3. Task(next) = [to |-> "read", by |-> q.user, about |-> Reached(q)]
    <3> HIDE DEF q, new
    <3>1. QED
      BY TaskBulk DEF Reached
  <2>4. QED
    BY <2>1, <2>2, <2>3, Unseen
<1>4. ASSUME NEW m \in Messages, MissItem(r, m)
      PROVE  Board!BoardNext \/ UNCHANGED BoardVars
  BY <1>4, TaskNone, GivenUp DEF MissItem, Answer
<1>5. ASSUME InsertBulk(r)
      PROVE  Board!BoardNext \/ UNCHANGED BoardVars
  <2>1. CASE Conflict(q)
    BY <1>5, <2>1, TaskNone, GivenUp DEF InsertBulk, Answer
  <2>2. CASE ~Conflict(q)
    <3>1. Tasks' = [Tasks EXCEPT ![r] = [to |-> "nothing"]]
      BY <1>5, TaskNone, TaskEnds DEF InsertBulk, Answer
    <3>2. Tasks[r] = [to |-> "read", by |-> q.user, about |-> Reached(q)]
      BY <1>5, TaskHeld DEF InsertBulk
    <3>3. /\ q.kind = "bulk" /\ q.at = {} /\ \A m \in Messages : q.left[m] = 0
          /\ q.user \in Users /\ BulkHeld(q)
          /\ q.body \in [Messages -> Nat] /\ q.new \in [Messages -> Nat]
      BY <1>5, Kinds DEF InsertBulk, TypeOK, None, IInv, Held
    <3>4. receipts' = receipts \cup ({q.user} \X New(q)) /\ UNCHANGED <<rows, open>>
      BY <1>5, <2>2 DEF InsertBulk
    <3> HIDE DEF q
    <3>5. ASSUME NEW m \in Messages
          PROVE  /\ m \in New(q) => m \in Reached(q)
                 /\ m \in Reached(q) \ New(q) => <<q.user, m>> \in receipts
      <4>1. /\ q.new[m] + q.left[m] <= q.body[m]
            /\ q.body[m] > 0 /\ q.left[m] = 0 /\ q.new[m] = 0 => <<q.user, m>> \in receipts
        BY <3>3 DEF BulkHeld
      <4>2. q.left[m] = 0 /\ q.new[m] \in Nat /\ q.body[m] \in Nat
        BY <3>3
      <4>3. /\ m \in New(q) <=> q.new[m] > 0
            /\ m \in Reached(q) <=> q.left[m] < q.body[m]
        BY DEF New, Reached
      <4>4. QED
        BY <4>1, <4>2, <4>3
    <3>6. New(q) \in SUBSET Reached(q) /\ Reached(q) \in SUBSET Messages
      BY <3>5 DEF New, Reached
    <3>7. \A m \in Reached(q) \ New(q) : <<q.user, m>> \in receipts
      BY <3>5, <3>6
    <3>8. q.user \in Users
      BY <3>3
    <3>9. QED
      BY <3>1, <3>2, <3>6, <3>7, <3>4, <3>8, ReadShown
  <2>3. QED
    BY <2>1, <2>2
<1>6. ASSUME NEW u \in Users, ReadMultiple(r, u)
      PROVE  Board!BoardNext \/ UNCHANGED BoardVars
  BY <1>6, TaskNone, GivenUp DEF ReadMultiple, Answer
<1>7. QED
  BY <1>1, <1>2, <1>4, <1>5, <1>6, <1>3

LEMMA NextShown == IInv /\ [Next]_vars => [Board!BoardNext]_BoardVars
<1> SUFFICES ASSUME IInv, [Next]_vars
             PROVE  Board!BoardNext \/ UNCHANGED BoardVars
  OBVIOUS
<1>1. ASSUME NEW r \in Requests, Leave(r)
      PROVE  Board!BoardNext \/ UNCHANGED BoardVars
  BY <1>1, TaskNone, GivenUp DEF Leave, IInv
<1>2. ASSUME NEW r \in Requests, RequestStep(r)
      PROVE  Board!BoardNext \/ UNCHANGED BoardVars
  BY <1>1, <1>2, PostShown, EditShown, DeleteShown, SingleShown, BulkShown
  DEF RequestStep, ReadStep
<1>3. ASSUME NEW m \in Messages, Expire(m)
      PROVE  Board!BoardNext
  <2>1. Board!Close(m)
    BY <1>3 DEF Expire, Board!Close
  <2>2. QED
    BY <2>1 DEF Board!BoardNext
<1>4. CASE UNCHANGED vars
  BY <1>4 DEF vars, BoardVars, Shown, OnBoard, Readers, Tasks
<1>5. QED
  BY <1>2, <1>3, <1>4 DEF Next

\* Messages implements MessageBoard: what the board promises holds for any
\* number of requests that interleave, of any users and replicas.
THEOREM BoardKept == Spec => KeepsBoard
<1>1. Init => Board!BoardInit
  BY TaskNone DEF Init, NoRow, Board!BoardInit, Board!Nothing
<1>2. IInv /\ [Next]_vars => [Board!BoardNext]_(Board!boardVars)
  BY NextShown DEF Board!boardVars, BoardVars, Shown, OnBoard, Readers, Tasks
<1>3. QED
  BY <1>1, <1>2, Invariant, PTL DEF Spec, KeepsBoard, Board!BoardSpec
=============================================================================
