------------------------------ MODULE ChatRooms ------------------------------
(***************************************************************************)
(* Who is in which chat room, as one server process keeps it               *)
(* (WebSocketRoomService), driven by ChatGateway's handleConnection,       *)
(* handleDisconnect, room:join and room:leave.                             *)
(*                                                                         *)
(* userRooms holds one entry per user, an object made by the user's latest *)
(* connection; roomMembers holds the users per room.  joinRoom takes the   *)
(* user's entry, awaits the permission queries, and then updates the entry *)
(* it took and roomMembers, whatever happened to the user meanwhile.  The  *)
(* other awaits of the service resolve without leaving the microtask       *)
(* queue, so leaveRoom and handleUserDisconnection are one action each.    *)
(*                                                                         *)
(* The guard of every message sets client.userId too.  It awaits a query,  *)
(* so a message may authenticate its socket before handleConnection does,  *)
(* and its handler may run after the socket closed.                        *)
(*                                                                         *)
(* An entry is named by the socket whose connection made it.  The answer   *)
(* of the database to a permission query is a choice.                      *)
(***************************************************************************)
EXTENDS Naturals, FiniteSets

CONSTANTS
  Users,       \* user ids
  Sockets,     \* Socket.IO sockets
  Rooms,       \* room ids, travel:<id> and planet:<id>
  NoUser,      \* client.userId is not set
  NoSocket,    \* no entry in userRooms
  NoRoom,      \* no permission query pending
  MaxRequests  \* bound: room:join messages waiting for a permission at once

ASSUME RoomsAssumption ==
  /\ MaxRequests \in Nat
  /\ NoUser \notin Users
  /\ NoSocket \notin Sockets
  /\ NoRoom \notin Rooms

VARIABLES
  link,         \* Socket.IO's view of each socket
  userId,       \* client.userId, set by WebSocketAuthGuard
  phase,        \* where each socket's handleConnection is
  todo,         \* the authorized rooms it has yet to join
  asking,       \* its joinRoom call: the room, and the entry taken
  requests,     \* the joinRoom calls of room:join messages
  userRooms,    \* userId -> the user's entry
  rooms,        \* the set `rooms' of each entry
  roomMembers,  \* roomId -> the users in it
  excused       \* history: users that lost an entry with rooms, or for whom a
                \* join went on after its entry was gone

joinVars == <<phase, todo, asking, requests>>
roomVars == <<userRooms, rooms, roomMembers>>
vars == <<link, userId, phase, todo, asking, requests, userRooms, rooms,
          roomMembers, excused>>

\* auth: canActivate; travels, planets: the two queries of the user's rooms;
\* travelRooms, planetRooms: a joinRoom call for one of the rooms found.
Made == {"travels", "travelRooms", "planets", "planetRooms", "connected"}
Joining == {"travelRooms", "planetRooms"}
Phases == {"idle", "auth", "failed"} \cup Made
Ask == [room : Rooms, entry : Sockets]
NoAsk == [room |-> NoRoom, entry |-> NoSocket]

\* Every call works on an entry that was there when it began, and a handler
\* awaits a permission exactly while it is joining.
TypeOK ==
  /\ link \in [Sockets -> {"new", "open", "closed"}]
  /\ userId \in [Sockets -> Users \cup {NoUser}]
  /\ phase \in [Sockets -> Phases]
  /\ todo \in [Sockets -> SUBSET Rooms]
  /\ asking \in [Sockets -> Ask \cup {NoAsk}]
  /\ requests \in SUBSET [socket : Sockets, room : Rooms, entry : Sockets]
  /\ userRooms \in [Users -> Sockets \cup {NoSocket}]
  /\ rooms \in [Sockets -> SUBSET Rooms]
  /\ roomMembers \in [Rooms -> SUBSET Users]
  /\ excused \in SUBSET Users
  /\ \A s \in Sockets : asking[s] # NoAsk <=> phase[s] \in Joining

Init ==
  /\ link = [s \in Sockets |-> "new"]
  /\ userId = [s \in Sockets |-> NoUser]
  /\ phase = [s \in Sockets |-> "idle"]
  /\ todo = [s \in Sockets |-> {}]
  /\ asking = [s \in Sockets |-> NoAsk]
  /\ requests = {}
  /\ userRooms = [u \in Users |-> NoSocket]
  /\ rooms = [s \in Sockets |-> {}]
  /\ roomMembers = [r \in Rooms |-> {}]
  /\ excused = {}

----------------------------------------------------------------------------
(* handleConnection and handleUserConnection                               *)

Connect(s) ==
  /\ link[s] = "new"
  /\ link' = [link EXCEPT ![s] = "open"]
  /\ phase' = [phase EXCEPT ![s] = "auth"]
  /\ UNCHANGED <<userId, todo, asking, requests, roomVars, excused>>

\* The guard attaches the user, and the user gets a fresh entry, whether or
\* not there is one already and whether or not the socket is still open.
Authenticate(s, u) ==
  /\ phase[s] = "auth"
  /\ userId[s] \in {u, NoUser}
  /\ phase' = [phase EXCEPT ![s] = "travels"]
  /\ userId' = [userId EXCEPT ![s] = u]
  /\ userRooms' = [userRooms EXCEPT ![u] = s]
  /\ excused' = IF userRooms[u] # NoSocket /\ rooms[userRooms[u]] # {}
                THEN excused \cup {u} ELSE excused
  /\ UNCHANGED <<link, todo, asking, requests, rooms, roomMembers>>

\* The guard of a message attaches the user: it may be the first to do so.
GuardMessage(s, u) ==
  /\ link[s] # "new"
  /\ userId[s] = NoUser
  /\ userId' = [userId EXCEPT ![s] = u]
  /\ UNCHANGED <<link, joinVars, roomVars, excused>>

\* joinUserToAuthorizedRooms goes on to one of the rooms left, with the entry
\* the user has now, or else to what follows the loop.  Without an entry,
\* joinRoom refuses every room at once.
AskNext(s, left) ==
  LET entry == userRooms[userId[s]]
      travels == phase[s] \in {"travels", "travelRooms"}
  IN
  \/ /\ left = {} \/ entry = NoSocket
     /\ phase' = [phase EXCEPT ![s] = IF travels THEN "planets" ELSE "connected"]
     /\ todo' = [todo EXCEPT ![s] = {}]
     /\ asking' = [asking EXCEPT ![s] = NoAsk]
  \/ \E r \in left :
       /\ entry # NoSocket
       /\ phase' = [phase EXCEPT ![s] = IF travels THEN "travelRooms"
                                        ELSE "planetRooms"]
       /\ todo' = [todo EXCEPT ![s] = left \ {r}]
       /\ asking' = [asking EXCEPT ![s] = [room |-> r, entry |-> entry]]

\* The user's travels, then the user's planets, are read.
ListRooms(s, found) ==
  /\ phase[s] \in {"travels", "planets"}
  /\ AskNext(s, found)
  /\ UNCHANGED <<link, userId, requests, roomVars, excused>>

\* A failed query ends the automatic joins; the connection is announced.
ListFails(s) ==
  /\ phase[s] \in {"travels", "planets"}
  /\ phase' = [phase EXCEPT ![s] = "connected"]
  /\ UNCHANGED <<link, userId, todo, asking, requests, roomVars, excused>>

\* joinRoom after the permission was granted: the entry it took, which may be
\* replaced or gone, and roomMembers.
Enter(u, r, entry) ==
  /\ rooms' = [rooms EXCEPT ![entry] = @ \cup {r}]
  /\ roomMembers' = [roomMembers EXCEPT ![r] = @ \cup {u}]
  /\ excused' = IF userRooms[u] # entry THEN excused \cup {u} ELSE excused

AutoJoin(s) ==
  /\ phase[s] \in Joining
  /\ Enter(userId[s], asking[s].room, asking[s].entry)
  /\ AskNext(s, todo[s])
  /\ UNCHANGED <<link, userId, requests, userRooms>>

AutoJoinDenied(s) ==
  /\ phase[s] \in Joining
  /\ AskNext(s, todo[s])
  /\ UNCHANGED <<link, userId, requests, roomVars, excused>>

----------------------------------------------------------------------------
(* room:join and room:leave, after their guard                             *)

\* Variant: joinRoom does not test the entry.
RequestJoinUntested(s, r) ==
  /\ userId[s] # NoUser
  /\ Cardinality(requests) < MaxRequests
  /\ requests' = requests \cup
       {[socket |-> s, room |-> r, entry |-> userRooms[userId[s]]]}
  /\ UNCHANGED <<link, userId, phase, todo, asking, roomVars, excused>>

RequestJoin(s, r) ==
  LET entry == userRooms[userId[s]] IN
  /\ userId[s] # NoUser
  /\ entry # NoSocket
  /\ Cardinality(requests) < MaxRequests
  /\ requests' = requests \cup {[socket |-> s, room |-> r, entry |-> entry]}
  /\ UNCHANGED <<link, userId, phase, todo, asking, roomVars, excused>>

RequestGranted(q) ==
  /\ q \in requests
  /\ requests' = requests \ {q}
  /\ Enter(userId[q.socket], q.room, q.entry)
  /\ UNCHANGED <<link, userId, phase, todo, asking, userRooms>>

RequestDenied(q) ==
  /\ q \in requests
  /\ requests' = requests \ {q}
  /\ UNCHANGED <<link, userId, phase, todo, asking, roomVars, excused>>

\* Variants: the entry keeps the room, and the entry goes with its last room.
LeaveMembersOnly(s, r) ==
  /\ userId[s] # NoUser
  /\ userRooms[userId[s]] # NoSocket
  /\ roomMembers' = [roomMembers EXCEPT ![r] = @ \ {userId[s]}]
  /\ UNCHANGED <<link, userId, joinVars, userRooms, rooms, excused>>

LeaveLastRoom(s, r) ==
  LET entry == userRooms[userId[s]] IN
  /\ userId[s] # NoUser
  /\ entry # NoSocket
  /\ rooms' = [rooms EXCEPT ![entry] = @ \ {r}]
  /\ roomMembers' = [roomMembers EXCEPT ![r] = @ \ {userId[s]}]
  /\ userRooms' = IF rooms[entry] \subseteq {r}
                  THEN [userRooms EXCEPT ![userId[s]] = NoSocket] ELSE userRooms
  /\ UNCHANGED <<link, userId, joinVars, excused>>

LeaveRoom(s, r) ==
  LET entry == userRooms[userId[s]] IN
  /\ userId[s] # NoUser
  /\ entry # NoSocket
  /\ rooms' = [rooms EXCEPT ![entry] = @ \ {r}]
  /\ roomMembers' = [roomMembers EXCEPT ![r] = @ \ {userId[s]}]
  /\ UNCHANGED <<link, userId, joinVars, userRooms, excused>>

----------------------------------------------------------------------------
(* handleDisconnect: without a user nothing is done; with one, the user's  *)
(* current entry is emptied and removed, whichever socket made it.         *)

\* Variant: the rooms are not left.
ForgetEntry(u) ==
  /\ userRooms[u] # NoSocket
  /\ userRooms' = [userRooms EXCEPT ![u] = NoSocket]
  /\ UNCHANGED <<rooms, roomMembers>>

ForgetUser(u) ==
  LET entry == userRooms[u] IN
  /\ entry # NoSocket
  /\ rooms' = [rooms EXCEPT ![entry] = {}]
  /\ roomMembers' = [r \in Rooms |-> IF r \in rooms[entry]
                                     THEN roomMembers[r] \ {u}
                                     ELSE roomMembers[r]]
  /\ userRooms' = [userRooms EXCEPT ![u] = NoSocket]

\* The socket closes, and handleDisconnect runs.
Close(s) ==
  /\ link' = [link EXCEPT ![s] = "closed"]
  /\ \/ userId[s] # NoUser /\ ForgetUser(userId[s])
     \/ /\ userId[s] # NoUser => userRooms[userId[s]] = NoSocket
        /\ UNCHANGED roomVars

Disconnect(s) ==
  /\ link[s] = "open"
  /\ Close(s)
  /\ UNCHANGED <<userId, joinVars, excused>>

\* No token, no such user, a banned one, a failed query: auth_error, and the
\* server disconnects the socket if it is not closed yet.
Reject(s) ==
  /\ phase[s] = "auth"
  /\ phase' = [phase EXCEPT ![s] = "failed"]
  /\ \/ link[s] = "open" /\ Close(s)
     \/ link[s] = "closed" /\ UNCHANGED <<link, roomVars>>
  /\ UNCHANGED <<userId, todo, asking, requests, excused>>

Next ==
  \/ \E s \in Sockets :
       \/ Connect(s)
       \/ \E u \in Users : Authenticate(s, u) \/ GuardMessage(s, u)
       \/ Reject(s) \/ ListFails(s)
       \/ \E found \in SUBSET Rooms : ListRooms(s, found)
       \/ AutoJoin(s) \/ AutoJoinDenied(s)
       \/ \E r \in Rooms : RequestJoin(s, r) \/ LeaveRoom(s, r)
       \/ Disconnect(s)
  \/ \E q \in requests : RequestGranted(q) \/ RequestDenied(q)

Spec == Init /\ [][Next]_vars

----------------------------------------------------------------------------
(* Properties                                                              *)

\* The rooms a user's entry lists all list the user: what a user sees as its
\* rooms (the "connected" message, getUserRooms) is what the room's members
\* see, through reconnections and joins that end on a replaced entry.
TrackedAreListed ==
  \A u \in Users : userRooms[u] # NoSocket =>
    \A r \in rooms[userRooms[u]] : u \in roomMembers[r]

\* Conversely a room lists a user without the user's entry knowing (a ghost
\* that no disconnection removes) for two reasons only: a second connection
\* replaced an entry that had rooms, or a permission arrived after the entry
\* it was asked with was replaced or removed.
GhostsExplained ==
  \A r \in Rooms : \A u \in roomMembers[r] :
    \/ userRooms[u] # NoSocket /\ r \in rooms[userRooms[u]]
    \/ u \in excused

\* A connection that is open and past handleConnection's guard has an entry
\* for its user, so that it can join rooms, unless another connection of the
\* same user was closed: that one took the entry with it.
StrandedByAnother ==
  \A s \in Sockets :
    link[s] = "open" /\ phase[s] \in Made /\ userRooms[userId[s]] = NoSocket =>
      \E t \in Sockets : userId[t] = userId[s] /\ link[t] = "closed"
============================================================================
