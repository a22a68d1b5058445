---------------------------- MODULE MessageBoard ----------------------------
(***************************************************************************)
(* What the messages of a planet promise, without rows, copies, receipts   *)
(* or transactions: a message is posted once, is changed or counted as     *)
(* read only for a request that was accepted while the message was on the  *)
(* board, and is back on the board only for an edit that was accepted      *)
(* before it was taken down.  An author may change a message as long as it *)
(* is open, and empty it at any time.  A request accepted may be carried   *)
(* out at any later time, or never.                                        *)
(***************************************************************************)
CONSTANTS
  Messages,
  Texts, NoText,
  Blank,     \* the text of a message that has none, or was emptied
  Users,
  Author,    \* who posts each message
  Clients    \* those who make requests, one at a time

VARIABLES
  text,      \* the text of each message, NoText before it is posted
  visible,   \* the messages on the board
  open,      \* the messages that their author may still change
  readers,   \* who has read each message
  task       \* the request of each client that was accepted

boardVars == <<text, visible, open, readers, task>>

Nothing == [to |-> "nothing"]

BoardInit ==
  /\ text = [m \in Messages |-> NoText]
  /\ visible = {}
  /\ open = {}
  /\ readers = [m \in Messages |-> {}]
  /\ task = [c \in Clients |-> Nothing]

\* A request is about messages on the board: an edit, about ones of its author
\* that are open; the emptying of messages, about any of its author; a reading,
\* about any; a post, about none.
Accept(c) ==
  /\ task[c] = Nothing
  /\ \E u \in Users, about \in SUBSET visible :
       \/ task' = [task EXCEPT ![c] = [to |-> "post", by |-> u, about |-> {}]]
       \/ task' = [task EXCEPT ![c] = [to |-> "read", by |-> u, about |-> about]]
       \/ /\ \A m \in about : Author[m] = u
          /\ \/ /\ about \subseteq open
                /\ task' = [task EXCEPT ![c] = [to |-> "edit", by |-> u, about |-> about]]
             \/ task' = [task EXCEPT ![c] = [to |-> "empty", by |-> u, about |-> about]]
  /\ UNCHANGED <<text, visible, open, readers>>

ReadMore(c) ==
  /\ task[c].to = "read"
  /\ \E m \in visible :
       task' = [task EXCEPT ![c] = [to |-> "read", by |-> task[c].by,
                                    about |-> task[c].about \cup {m}]]
  /\ UNCHANGED <<text, visible, open, readers>>

End(c) == task' = [task EXCEPT ![c] = Nothing]

Drop(c) ==
  /\ task[c] # Nothing
  /\ End(c)
  /\ UNCHANGED <<text, visible, open, readers>>

Post(c) ==
  /\ task[c].to = "post"
  /\ End(c)
  /\ \E m \in Messages, t \in Texts \cup {Blank} :
       /\ text[m] = NoText /\ Author[m] = task[c].by
       /\ text' = [text EXCEPT ![m] = t]
       /\ visible' = visible \cup {m}
       /\ open' \in {open, open \cup {m}}
  /\ UNCHANGED readers

\* The message gets the text, and is on the board even if it was taken down
\* since the edit was accepted.
Edit(c) ==
  /\ task[c].to \in {"edit", "empty"}
  /\ End(c)
  /\ \E m \in task[c].about, t \in IF task[c].to = "edit" THEN Texts ELSE {Blank} :
       /\ text' = [text EXCEPT ![m] = t]
       /\ visible' = visible \cup {m}
  /\ UNCHANGED <<open, readers>>

Read(c) ==
  /\ task[c].to = "read"
  /\ End(c)
  /\ readers' = [m \in Messages |->
                   IF m \in task[c].about THEN readers[m] \cup {task[c].by} ELSE readers[m]]
  /\ UNCHANGED <<text, visible, open>>

TakeDown(m) ==
  /\ m \in visible
  /\ visible' = visible \ {m}
  /\ UNCHANGED <<text, open, readers, task>>

Close(m) ==
  /\ m \in open
  /\ open' = open \ {m}
  /\ UNCHANGED <<text, visible, readers, task>>

BoardNext ==
  \/ \E c \in Clients : Accept(c) \/ ReadMore(c) \/ Drop(c) \/ Post(c) \/ Edit(c) \/ Read(c)
  \/ \E m \in Messages : TakeDown(m) \/ Close(m)

BoardSpec == BoardInit /\ [][BoardNext]_boardVars
=============================================================================
