--------------------------- MODULE ChatRoomsProofs ---------------------------
(***************************************************************************)
(* Proofs about ChatRooms, for any number of users, sockets and rooms.     *)
(*                                                                         *)
(* What makes the properties inductive is that entries are not shared: a   *)
(* user's entry, and the entry any joinRoom call works on, was made by a   *)
(* connection of the same user that is past its guard (EntryInv), and an   *)
(* entry that has not been made yet has no rooms.                          *)
(***************************************************************************)
EXTENDS ChatRooms, TLAPS

EntryInv ==
  /\ \A u \in Users : userRooms[u] # NoSocket =>
       userId[userRooms[u]] = u /\ phase[userRooms[u]] \in Made
  /\ \A s \in Sockets : phase[s] \notin Made => rooms[s] = {}
  /\ \A s \in Sockets : link[s] = "new" => phase[s] = "idle"
  /\ \A s \in Sockets : phase[s] \in Made => userId[s] # NoUser
  /\ \A s \in Sockets : phase[s] \in Joining =>
       userId[asking[s].entry] = userId[s] /\ phase[asking[s].entry] \in Made
  /\ \A q \in requests : /\ userId[q.socket] # NoUser
                         /\ userId[q.entry] = userId[q.socket]
                         /\ phase[q.entry] \in Made

IInv == TypeOK /\ EntryInv /\ TrackedAreListed /\ GhostsExplained /\ StrandedByAnother

----------------------------------------------------------------------------
(* Type correctness                                                        *)

\* A pending question names a room and an entry, and is not NoAsk.
LEMMA AskType ==
  /\ \A r \in Rooms, e \in Sockets :
       /\ [room |-> r, entry |-> e] \in Ask
       /\ [room |-> r, entry |-> e] # NoAsk
  /\ \A a \in Ask : a.room \in Rooms /\ a.entry \in Sockets
<1>1. \A r \in Rooms : r # NoRoom
  BY RoomsAssumption
<1>2. \A r \in Rooms, e \in Sockets : [room |-> r, entry |-> e].room # NoAsk.room
  BY <1>1 DEF NoAsk
<1>3. QED
  BY <1>2 DEF Ask

\* Going on to the next room keeps the types of the handler's state.
LEMMA AskNextType ==
  ASSUME TypeOK, NEW s \in Sockets, userId[s] # NoUser,
         NEW left \in SUBSET Rooms, AskNext(s, left)
  PROVE  /\ phase' \in [Sockets -> Phases]
         /\ todo' \in [Sockets -> SUBSET Rooms]
         /\ asking' \in [Sockets -> Ask \cup {NoAsk}]
         /\ \A t \in Sockets : asking'[t] # NoAsk <=> phase'[t] \in Joining
         /\ \A t \in Sockets : t # s => phase'[t] = phase[t] /\ asking'[t] = asking[t]
         /\ phase'[s] \in Made
         /\ phase'[s] \in Joining =>
              /\ asking'[s].entry = userRooms[userId[s]]
              /\ userRooms[userId[s]] # NoSocket
<1> DEFINE entry == userRooms[userId[s]]
           travels == phase[s] \in {"travels", "travelRooms"}
           over == IF travels THEN "planets" ELSE "connected"
           asks == IF travels THEN "travelRooms" ELSE "planetRooms"
<1>1. userId[s] \in Users /\ entry \in Sockets \cup {NoSocket}
  BY DEF TypeOK
<1>2. /\ over \in Made /\ over \notin Joining /\ over \in Phases
      /\ asks \in Made /\ asks \in Joining /\ asks \in Phases
  BY DEF Made, Joining, Phases
<1>3. AskNext(s, left) =>
        \/ /\ phase' = [phase EXCEPT ![s] = over]
           /\ todo' = [todo EXCEPT ![s] = {}]
           /\ asking' = [asking EXCEPT ![s] = NoAsk]
        \/ \E r \in left :
             /\ entry # NoSocket
             /\ phase' = [phase EXCEPT ![s] = asks]
             /\ todo' = [todo EXCEPT ![s] = left \ {r}]
             /\ asking' = [asking EXCEPT ![s] = [room |-> r, entry |-> entry]]
  BY DEF AskNext
<1> HIDE DEF travels, over, asks
<1>4. CASE /\ phase' = [phase EXCEPT ![s] = over]
           /\ todo' = [todo EXCEPT ![s] = {}]
           /\ asking' = [asking EXCEPT ![s] = NoAsk]
  BY <1>2, <1>4 DEF TypeOK
<1>5. ASSUME NEW r \in left, entry # NoSocket,
             phase' = [phase EXCEPT ![s] = asks],
             todo' = [todo EXCEPT ![s] = left \ {r}],
             asking' = [asking EXCEPT ![s] = [room |-> r, entry |-> entry]]
      PROVE  /\ phase' \in [Sockets -> Phases]
             /\ todo' \in [Sockets -> SUBSET Rooms]
             /\ asking' \in [Sockets -> Ask \cup {NoAsk}]
             /\ \A t \in Sockets : asking'[t] # NoAsk <=> phase'[t] \in Joining
             /\ \A t \in Sockets : t # s => phase'[t] = phase[t] /\ asking'[t] = asking[t]
             /\ phase'[s] \in Made
             /\ asking'[s].entry = entry
  <2>1. [room |-> r, entry |-> entry] \in Ask /\ [room |-> r, entry |-> entry] # NoAsk
    BY <1>1, <1>5, AskType
  <2>2. asking' \in [Sockets -> Ask \cup {NoAsk}] /\ asking'[s] = [room |-> r, entry |-> entry]
    BY <1>5, <2>1 DEF TypeOK
  <2>3. \A t \in Sockets : t # s => phase'[t] = phase[t] /\ asking'[t] = asking[t]
    BY <1>5 DEF TypeOK
  <2>4. phase' \in [Sockets -> Phases] /\ phase'[s] = asks
    BY <1>2, <1>5 DEF TypeOK
  <2>5. todo' \in [Sockets -> SUBSET Rooms]
    BY <1>5 DEF TypeOK
  <2>6. asking'[s].entry = entry
    BY <2>2
  <2>7. \A t \in Sockets : asking'[t] # NoAsk <=> phase'[t] \in Joining
    BY <1>2, <2>1, <2>2, <2>3, <2>4 DEF TypeOK
  <2>8. QED
    BY <1>2, <2>2, <2>3, <2>4, <2>5, <2>6, <2>7
<1>6. QED
  BY <1>3, <1>4, <1>5

\* Entering a room keeps the types of the rooms.
LEMMA EnterType ==
  ASSUME TypeOK, NEW u \in Users, NEW r \in Rooms, NEW e \in Sockets, Enter(u, r, e)
  PROVE  /\ rooms' \in [Sockets -> SUBSET Rooms]
         /\ roomMembers' \in [Rooms -> SUBSET Users]
         /\ excused' \in SUBSET Users
  BY DEF Enter, TypeOK

\* A pending question of a handler has a room, an entry and a user.
LEMMA AskingType ==
  ASSUME TypeOK, EntryInv, NEW s \in Sockets, phase[s] \in Joining
  PROVE  /\ userId[s] \in Users
         /\ asking[s].room \in Rooms
         /\ asking[s].entry \in Sockets
<1>1. asking[s] \in Ask
  BY DEF TypeOK
<1>2. QED
  BY <1>1, AskType DEF TypeOK, EntryInv, Made, Joining

\* Every step keeps the types.
LEMMA NextType ==
  ASSUME TypeOK, EntryInv, Next
  PROVE  TypeOK'
<1>1. ASSUME NEW s \in Sockets, Connect(s)
      PROVE  TypeOK'
  BY <1>1 DEF Connect, TypeOK, EntryInv, Phases, Made, Joining, roomVars
<1>2. ASSUME NEW s \in Sockets, NEW u \in Users, Authenticate(s, u)
      PROVE  TypeOK'
  BY <1>2 DEF Authenticate, TypeOK, Phases, Made, Joining
<1>3. ASSUME NEW s \in Sockets, NEW u \in Users, GuardMessage(s, u)
      PROVE  TypeOK'
  BY <1>3 DEF GuardMessage, TypeOK, joinVars, roomVars
<1>4. ASSUME NEW s \in Sockets, NEW found \in SUBSET Rooms, ListRooms(s, found)
      PROVE  TypeOK'
  <2>1. userId[s] # NoUser
    BY <1>4 DEF ListRooms, EntryInv, Made
  <2>2. QED
    BY <1>4, <2>1, AskNextType DEF ListRooms, TypeOK, roomVars
<1>5. ASSUME NEW s \in Sockets, AutoJoin(s) \/ AutoJoinDenied(s)
      PROVE  TypeOK'
  <2>1. /\ phase[s] \in Joining /\ userId[s] # NoUser /\ todo[s] \in SUBSET Rooms
        /\ AskNext(s, todo[s])
    BY <1>5 DEF AutoJoin, AutoJoinDenied, EntryInv, TypeOK, Made, Joining
  <2>2. /\ rooms' \in [Sockets -> SUBSET Rooms]
        /\ roomMembers' \in [Rooms -> SUBSET Users]
        /\ excused' \in SUBSET Users
    BY <1>5, <2>1, AskingType, EnterType DEF AutoJoin, AutoJoinDenied, roomVars, TypeOK
  <2>3. UNCHANGED <<link, userId, requests, userRooms>>
    BY <1>5 DEF AutoJoin, AutoJoinDenied, roomVars
  <2>4. QED
    BY <2>1, <2>2, <2>3, AskNextType DEF TypeOK
<1>6. ASSUME NEW s \in Sockets, NEW r \in Rooms, RequestJoin(s, r)
      PROVE  TypeOK'
  BY <1>6 DEF RequestJoin, TypeOK, roomVars
<1>7. ASSUME NEW q \in requests, RequestGranted(q) \/ RequestDenied(q)
      PROVE  TypeOK'
  <2>1. userId[q.socket] \in Users /\ q.room \in Rooms /\ q.entry \in Sockets
    BY DEF EntryInv, TypeOK
  <2>2. /\ rooms' \in [Sockets -> SUBSET Rooms]
        /\ roomMembers' \in [Rooms -> SUBSET Users]
        /\ excused' \in SUBSET Users
    BY <1>7, <2>1, EnterType DEF RequestGranted, RequestDenied, roomVars, TypeOK
  <2>3. QED
    BY <1>7, <2>2 DEF RequestGranted, RequestDenied, roomVars, TypeOK
<1>8. ASSUME NEW s \in Sockets, NEW r \in Rooms, LeaveRoom(s, r)
      PROVE  TypeOK'
  BY <1>8 DEF LeaveRoom, TypeOK, joinVars
<1>9. ASSUME NEW s \in Sockets, Close(s)
      PROVE  /\ link' \in [Sockets -> {"new", "open", "closed"}]
             /\ userRooms' \in [Users -> Sockets \cup {NoSocket}]
             /\ rooms' \in [Sockets -> SUBSET Rooms]
             /\ roomMembers' \in [Rooms -> SUBSET Users]
  BY <1>9 DEF Close, ForgetUser, TypeOK, roomVars
<1>10. ASSUME NEW s \in Sockets, Disconnect(s)
      PROVE  TypeOK'
  BY <1>9, <1>10 DEF Disconnect, TypeOK, joinVars
<1>11. ASSUME NEW s \in Sockets, Reject(s)
      PROVE  TypeOK'
  <2>1. /\ phase' \in [Sockets -> Phases]
        /\ \A t \in Sockets : asking[t] # NoAsk <=> phase'[t] \in Joining
    BY <1>11 DEF Reject, TypeOK, Phases, Made, Joining
  <2>2. QED
    BY <1>9, <1>11, <2>1 DEF Reject, TypeOK, roomVars
<1>12. ASSUME NEW s \in Sockets, ListFails(s)
      PROVE  TypeOK'
  BY <1>12 DEF ListFails, TypeOK, Phases, Made, Joining, roomVars
<1>13. QED
  BY <1>1, <1>2, <1>3, <1>4, <1>5, <1>6, <1>7, <1>8, <1>10, <1>11, <1>12 DEF Next
----------------------------------------------------------------------------
(* Whose entry is whose                                                    *)

\* Every step keeps entries apart.
LEMMA NextEntry ==
  ASSUME TypeOK, EntryInv, Next
  PROVE  EntryInv'
<1> USE DEF EntryInv
<1>1. ASSUME NEW s \in Sockets, Connect(s)
      PROVE  EntryInv'
  BY <1>1 DEF Connect, TypeOK, roomVars, Made, Joining
<1>2. ASSUME NEW s \in Sockets, NEW u \in Users,
             userId[s] \in {u, NoUser},
             userId' = [userId EXCEPT ![s] = u],
             \A t \in Sockets : phase[t] \in Made => phase'[t] \in Made,
             UNCHANGED <<asking, requests>>,
             \A t \in Sockets : phase'[t] \in Joining <=> phase[t] \in Joining
      PROVE  /\ \A t \in Sockets, v \in Users : userId[t] = v => userId'[t] = v
             /\ \A t \in Sockets : phase'[t] \in Joining =>
                  userId'[asking'[t].entry] = userId'[t] /\ phase'[asking'[t].entry] \in Made
             /\ \A q \in requests' : /\ userId'[q.socket] # NoUser
                                     /\ userId'[q.entry] = userId'[q.socket]
                                     /\ phase'[q.entry] \in Made
  <2>1. \A t \in Sockets : userId'[t] = IF t = s THEN u ELSE userId[t]
    BY <1>2 DEF TypeOK
  <2>2. \A t \in Sockets, v \in Users : userId[t] = v => userId'[t] = v
    BY <1>2, <2>1, RoomsAssumption
  <2>3. ASSUME NEW t \in Sockets, phase'[t] \in Joining
        PROVE  userId'[asking'[t].entry] = userId'[t] /\ phase'[asking'[t].entry] \in Made
    <3>1. userId[t] \in Users /\ asking[t].entry \in Sockets
      BY <1>2, <2>3, AskingType
    <3>2. QED
      BY <1>2, <2>2, <2>3, <3>1
  <2>4. ASSUME NEW q \in requests
        PROVE  /\ userId'[q.socket] # NoUser
               /\ userId'[q.entry] = userId'[q.socket]
               /\ phase'[q.entry] \in Made
    <3>1. q.socket \in Sockets /\ q.entry \in Sockets /\ userId[q.socket] \in Users
      BY DEF TypeOK
    <3>2. QED
      BY <1>2, <2>2, <3>1, RoomsAssumption
  <2>5. QED
    BY <1>2, <2>2, <2>3, <2>4
<1>3. ASSUME NEW s \in Sockets, NEW u \in Users, Authenticate(s, u)
      PROVE  EntryInv'
  <2>1. \A t \in Sockets : userId'[t] = IF t = s THEN u ELSE userId[t]
    BY <1>3 DEF Authenticate, TypeOK
  <2>2. \A t \in Sockets : phase'[t] = IF t = s THEN "travels" ELSE phase[t]
    BY <1>3 DEF Authenticate, TypeOK
  <2>3. phase[s] = "auth" /\ UNCHANGED <<link, asking, requests, rooms>>
    BY <1>3 DEF Authenticate
  <2>4. \A v \in Users : userRooms'[v] = IF v = u THEN s ELSE userRooms[v]
    BY <1>3 DEF Authenticate, TypeOK
  <2>5. \A t \in Sockets : phase[t] \in Made => phase'[t] \in Made
    BY <2>2 DEF Made
  <2>6. \A t \in Sockets : phase'[t] \in Joining <=> phase[t] \in Joining
    BY <2>2, <2>3 DEF Joining
  <2>7. /\ \A t \in Sockets, v \in Users : userId[t] = v => userId'[t] = v
        /\ \A t \in Sockets : phase'[t] \in Joining =>
             userId'[asking'[t].entry] = userId'[t] /\ phase'[asking'[t].entry] \in Made
        /\ \A q \in requests' : /\ userId'[q.socket] # NoUser
                                /\ userId'[q.entry] = userId'[q.socket]
                                /\ phase'[q.entry] \in Made
    BY <1>2, <1>3, <2>3, <2>5, <2>6 DEF Authenticate
  <2>8. \A v \in Users : userRooms'[v] # NoSocket =>
          userId'[userRooms'[v]] = v /\ phase'[userRooms'[v]] \in Made
    BY <2>1, <2>2, <2>4, <2>5, <2>7 DEF TypeOK, Made
  <2>9. \A t \in Sockets : phase'[t] \notin Made => rooms'[t] = {}
    BY <2>3, <2>5
  <2>10. \A t \in Sockets : /\ link'[t] = "new" => phase'[t] = "idle"
                            /\ phase'[t] \in Made => userId'[t] # NoUser
    BY <2>1, <2>2, <2>3, RoomsAssumption
  <2>11. QED
    BY <2>7, <2>8, <2>9, <2>10
<1>4. ASSUME NEW s \in Sockets, NEW u \in Users, GuardMessage(s, u)
      PROVE  EntryInv'
  <2>1. UNCHANGED <<link, phase, asking, requests, userRooms, rooms>>
    BY <1>4 DEF GuardMessage, joinVars, roomVars
  <2>2. /\ \A t \in Sockets, v \in Users : userId[t] = v => userId'[t] = v
        /\ \A t \in Sockets : phase'[t] \in Joining =>
             userId'[asking'[t].entry] = userId'[t] /\ phase'[asking'[t].entry] \in Made
        /\ \A q \in requests' : /\ userId'[q.socket] # NoUser
                                /\ userId'[q.entry] = userId'[q.socket]
                                /\ phase'[q.entry] \in Made
    BY <1>2, <1>4, <2>1 DEF GuardMessage
  <2>3. \A v \in Users : userRooms[v] # NoSocket => userId'[userRooms[v]] = v
    BY <2>2 DEF TypeOK
  <2>4. \A t \in Sockets : phase[t] \in Made => userId'[t] # NoUser
    BY <2>2, RoomsAssumption DEF TypeOK
  <2>5. QED
    BY <2>1, <2>2, <2>3, <2>4
<1>5. ASSUME NEW s \in Sockets, NEW left \in SUBSET Rooms, AskNext(s, left),
             phase[s] \in Made,
             UNCHANGED <<link, userId, requests, userRooms>>,
             \A e \in Sockets : rooms'[e] # rooms[e] => phase[e] \in Made
      PROVE  EntryInv'
  <2>1. userId[s] # NoUser /\ userId[s] \in Users
    BY <1>5 DEF TypeOK
  <2>2. /\ \A t \in Sockets : t # s => phase'[t] = phase[t] /\ asking'[t] = asking[t]
        /\ phase'[s] \in Made
        /\ phase'[s] \in Joining => /\ asking'[s].entry = userRooms[userId[s]]
                                    /\ userRooms[userId[s]] # NoSocket
    BY <1>5, <2>1, AskNextType
  <2>3. \A t \in Sockets : phase[t] \in Made => phase'[t] \in Made
    BY <1>5, <2>2
  <2>4. \A v \in Users : userRooms[v] # NoSocket => userRooms[v] \in Sockets
    BY DEF TypeOK
  <2>5. \A t \in Sockets : phase[t] \in Joining => asking[t].entry \in Sockets
    BY AskingType
  <2>6. \A q \in requests : q.entry \in Sockets
    BY DEF TypeOK
  <2>7. \A t \in Sockets : phase'[t] \in Joining =>
          userId[asking'[t].entry] = userId[t] /\ phase'[asking'[t].entry] \in Made
    BY <2>1, <2>2, <2>3, <2>4, <2>5
  <2>8. \A t \in Sockets : link[t] = "new" => phase'[t] = "idle"
    BY <1>5, <2>2 DEF Made
  <2>9. QED
    BY <1>5, <2>1, <2>2, <2>3, <2>4, <2>6, <2>7, <2>8
<1>6. ASSUME NEW s \in Sockets, NEW found \in SUBSET Rooms, ListRooms(s, found)
      PROVE  EntryInv'
  <2>1. phase[s] \in Made
    BY <1>6 DEF ListRooms, Made
  <2>2. QED
    BY <1>5, <1>6, <2>1 DEF ListRooms, roomVars
<1>7. ASSUME NEW s \in Sockets, AutoJoin(s) \/ AutoJoinDenied(s)
      PROVE  EntryInv'
  <2>1. phase[s] \in Joining /\ AskNext(s, todo[s]) /\ todo[s] \in SUBSET Rooms
        /\ UNCHANGED <<link, userId, requests, userRooms>>
    BY <1>7 DEF AutoJoin, AutoJoinDenied, roomVars, TypeOK
  <2>2. asking[s].entry \in Sockets /\ phase[asking[s].entry] \in Made
    BY <2>1, AskingType
  <2>3. \A e \in Sockets : rooms'[e] # rooms[e] => phase[e] \in Made
    BY <1>7, <2>2 DEF AutoJoin, AutoJoinDenied, Enter, roomVars, TypeOK
  <2>4. phase[s] \in Made
    BY <2>1 DEF Made, Joining
  <2>5. QED
    BY <1>5, <2>1, <2>3, <2>4
<1>8. ASSUME NEW s \in Sockets, NEW r \in Rooms, RequestJoin(s, r)
      PROVE  EntryInv'
  <2>1. userId[s] \in Users /\ userRooms[userId[s]] # NoSocket
    BY <1>8 DEF RequestJoin, TypeOK
  <2>2. /\ userId[userRooms[userId[s]]] = userId[s]
        /\ phase[userRooms[userId[s]]] \in Made
    BY <2>1
  <2>3. QED
    BY <1>8, <2>1, <2>2 DEF RequestJoin, roomVars
<1>9. ASSUME NEW q \in requests, RequestGranted(q) \/ RequestDenied(q)
      PROVE  EntryInv'
  <2>1. q.entry \in Sockets /\ phase[q.entry] \in Made
    BY DEF TypeOK
  <2>2. \A e \in Sockets : rooms'[e] # rooms[e] => phase[e] \in Made
    BY <1>9, <2>1 DEF RequestGranted, RequestDenied, Enter, roomVars, TypeOK
  <2>3. QED
    BY <1>9, <2>2 DEF RequestGranted, RequestDenied, roomVars
<1>10. ASSUME NEW s \in Sockets, NEW r \in Rooms, LeaveRoom(s, r)
      PROVE  EntryInv'
  <2>1. \A e \in Sockets : rooms'[e] \subseteq rooms[e]
    BY <1>10 DEF LeaveRoom, TypeOK
  <2>2. QED
    BY <1>10, <2>1 DEF LeaveRoom, joinVars
<1>11. ASSUME NEW s \in Sockets, Close(s)
      PROVE  /\ \A e \in Sockets : rooms'[e] \subseteq rooms[e]
             /\ \A v \in Users : userRooms'[v] = userRooms[v] \/ userRooms'[v] = NoSocket
             /\ \A t \in Sockets : link'[t] = "new" => link[t] = "new"
  BY <1>11 DEF Close, ForgetUser, TypeOK, roomVars
<1>12. ASSUME NEW s \in Sockets, Disconnect(s)
      PROVE  EntryInv'
  BY <1>11, <1>12 DEF Disconnect, joinVars
<1>13. ASSUME NEW s \in Sockets, Reject(s)
      PROVE  EntryInv'
  <2>1. \A t \in Sockets : phase'[t] = IF t = s THEN "failed" ELSE phase[t]
    BY <1>13 DEF Reject, TypeOK
  <2>2. phase[s] = "auth"
    BY <1>13 DEF Reject
  <2>3. \A t \in Sockets : /\ phase'[t] \in Made <=> phase[t] \in Made
                           /\ phase'[t] \in Joining <=> phase[t] \in Joining
    BY <2>1, <2>2 DEF Made, Joining
  <2>4. /\ \A e \in Sockets : rooms'[e] \subseteq rooms[e]
        /\ \A v \in Users : userRooms'[v] = userRooms[v] \/ userRooms'[v] = NoSocket
        /\ \A t \in Sockets : link'[t] = "new" => link[t] = "new"
    BY <1>11, <1>13 DEF Reject, roomVars
  <2>5. UNCHANGED <<userId, asking, requests>>
    BY <1>13 DEF Reject
  <2>6. \A v \in Users : userRooms[v] # NoSocket => userRooms[v] \in Sockets
    BY DEF TypeOK
  <2>7. \A t \in Sockets : phase[t] \in Joining => asking[t].entry \in Sockets
    BY AskingType
  <2>8. \A q \in requests : q.entry \in Sockets
    BY DEF TypeOK
  <2>9. QED
    BY <2>1, <2>2, <2>3, <2>4, <2>5, <2>6, <2>7, <2>8
<1>14. ASSUME NEW s \in Sockets, ListFails(s)
      PROVE  EntryInv'
  <2>1. \A t \in Sockets : phase'[t] = IF t = s THEN "connected" ELSE phase[t]
    BY <1>14 DEF ListFails, TypeOK
  <2>2. \A t \in Sockets : /\ phase'[t] \in Made <=> phase[t] \in Made
                           /\ phase'[t] \in Joining => phase[t] \in Joining
                           /\ phase'[t] = "idle" <=> phase[t] = "idle"
    BY <1>14, <2>1 DEF ListFails, Made, Joining
  <2>3. UNCHANGED <<link, userId, asking, requests, userRooms, rooms>>
    BY <1>14 DEF ListFails, roomVars
  <2>4. \A v \in Users : userRooms[v] # NoSocket => userRooms[v] \in Sockets
    BY DEF TypeOK
  <2>5. \A t \in Sockets : phase[t] \in Joining => asking[t].entry \in Sockets
    BY AskingType
  <2>6. \A q \in requests : q.entry \in Sockets
    BY DEF TypeOK
  <2>7. QED
    BY <2>2, <2>3, <2>4, <2>5, <2>6
<1>15. QED
  BY <1>1, <1>3, <1>4, <1>6, <1>7, <1>8, <1>9, <1>10, <1>12, <1>13, <1>14 DEF Next
----------------------------------------------------------------------------
(* The rooms of an entry and the members of a room                         *)

Rooming == TrackedAreListed /\ GhostsExplained

\* Entering a room, with the entry of whoever asked, keeps the two in step.
LEMMA EnterRooming ==
  ASSUME TypeOK, EntryInv, Rooming,
         NEW u \in Users, NEW r \in Rooms, NEW e \in Sockets, userId[e] = u,
         Enter(u, r, e), UNCHANGED userRooms
  PROVE  Rooming'
<1>1. \A x \in Rooms : roomMembers'[x] = IF x = r THEN roomMembers[x] \cup {u}
                                         ELSE roomMembers[x]
  BY DEF Enter, TypeOK
<1>2. \A t \in Sockets : rooms'[t] = IF t = e THEN rooms[t] \cup {r} ELSE rooms[t]
  BY DEF Enter, TypeOK
<1>3. excused \subseteq excused' /\ (userRooms[u] # e => u \in excused')
  BY DEF Enter
<1>4. TrackedAreListed'
  <2>1. \A v \in Users : userRooms[v] # NoSocket =>
          userRooms[v] \in Sockets /\ userId[userRooms[v]] = v
    BY DEF TypeOK, EntryInv
  <2>2. \A v \in Users : userRooms[v] = e /\ userRooms[v] # NoSocket => v = u
    BY <2>1
  <2>3. ASSUME NEW v \in Users, userRooms[v] # NoSocket,
               NEW x \in rooms'[userRooms[v]]
        PROVE  v \in roomMembers'[x]
    <3>1. CASE x \in rooms[userRooms[v]]
      <4>1. v \in roomMembers[x]
        BY <2>3, <3>1 DEF Rooming, TrackedAreListed
      <4>2. x \in Rooms
        BY <2>1, <2>3, <3>1 DEF TypeOK
      <4>3. QED
        BY <1>1, <4>1, <4>2
    <3>2. CASE x \notin rooms[userRooms[v]]
      <4>0. userRooms[v] \in Sockets /\ userId[userRooms[v]] = v
        BY <2>1, <2>3
      <4>1. userRooms[v] = e /\ x = r
        <5>1. rooms'[userRooms[v]] = IF userRooms[v] = e THEN rooms[userRooms[v]] \cup {r}
                                                        ELSE rooms[userRooms[v]]
          BY <1>2, <4>0
        <5>2. QED
          BY <2>3, <3>2, <5>1
      <4>2. v = u
        BY <4>0, <4>1
      <4>3. roomMembers'[r] = roomMembers[r] \cup {u}
        BY <1>1
      <4>4. QED
        BY <4>1, <4>2, <4>3
    <3>3. QED
      BY <3>1, <3>2
  <2>4. QED
    BY <2>3 DEF TrackedAreListed
<1>5. GhostsExplained'
  <2>1. ASSUME NEW x \in Rooms, NEW v \in roomMembers'[x]
        PROVE  \/ userRooms[v] # NoSocket /\ x \in rooms'[userRooms[v]]
               \/ v \in excused'
    <3>1. CASE v \in roomMembers[x]
      <4>1. v \in Users
        BY <3>1 DEF TypeOK
      <4>2. userRooms[v] # NoSocket => userRooms[v] \in Sockets
        BY <4>1 DEF TypeOK
      <4>3. \/ userRooms[v] # NoSocket /\ x \in rooms[userRooms[v]]
            \/ v \in excused
        BY <3>1 DEF Rooming, GhostsExplained
      <4>4. QED
        BY <1>2, <1>3, <4>2, <4>3
    <3>2. CASE v = u /\ x = r
      BY <1>2, <1>3, <3>2, RoomsAssumption
    <3>3. QED
      BY <1>1, <2>1, <3>1, <3>2
  <2>2. QED
    BY <2>1 DEF GhostsExplained
<1>6. QED
  BY <1>4, <1>5 DEF Rooming

\* Every step keeps the two in step.
LEMMA NextRooming ==
  ASSUME TypeOK, EntryInv, Rooming, Next
  PROVE  Rooming'
<1>1. ASSUME UNCHANGED <<roomVars, excused>>
      PROVE  Rooming'
  BY <1>1 DEF Rooming, TrackedAreListed, GhostsExplained, roomVars
<1>2. ASSUME NEW s \in Sockets, NEW u \in Users, Authenticate(s, u)
      PROVE  Rooming'
  <2>1. rooms[s] = {} /\ UNCHANGED <<rooms, roomMembers>>
    BY <1>2 DEF Authenticate, EntryInv, Made
  <2>2. \A v \in Users : userRooms'[v] = IF v = u THEN s ELSE userRooms[v]
    BY <1>2 DEF Authenticate, TypeOK
  <2>3. /\ excused \subseteq excused'
        /\ userRooms[u] # NoSocket /\ rooms[userRooms[u]] # {} => u \in excused'
    BY <1>2 DEF Authenticate
  <2>4. TrackedAreListed'
    BY <2>1, <2>2 DEF Rooming, TrackedAreListed
  <2>5. ASSUME NEW x \in Rooms, NEW v \in roomMembers[x]
        PROVE  \/ userRooms'[v] # NoSocket /\ x \in rooms[userRooms'[v]]
               \/ v \in excused'
    <3>1. v \in Users
      BY DEF TypeOK
    <3>2. \/ userRooms[v] # NoSocket /\ x \in rooms[userRooms[v]]
          \/ v \in excused
      BY DEF Rooming, GhostsExplained
    <3>3. QED
      BY <2>2, <2>3, <3>1, <3>2
  <2>6. GhostsExplained'
    BY <2>1, <2>5 DEF GhostsExplained
  <2>7. QED
    BY <2>4, <2>6 DEF Rooming
<1>3. ASSUME NEW s \in Sockets, AutoJoin(s)
      PROVE  Rooming'
  <2>1. phase[s] \in Joining /\ UNCHANGED userRooms
    BY <1>3 DEF AutoJoin
  <2>2. userId[asking[s].entry] = userId[s]
    BY <2>1 DEF EntryInv
  <2>3. QED
    BY <1>3, <2>1, <2>2, AskingType, EnterRooming DEF AutoJoin
<1>4. ASSUME NEW q \in requests, RequestGranted(q)
      PROVE  Rooming'
  <2>1. userId[q.socket] \in Users /\ q.room \in Rooms /\ q.entry \in Sockets
    BY DEF EntryInv, TypeOK
  <2>2. userId[q.entry] = userId[q.socket]
    BY DEF EntryInv
  <2>3. QED
    BY <1>4, <2>1, <2>2, EnterRooming DEF RequestGranted
<1>5. ASSUME NEW s \in Sockets, NEW r \in Rooms, LeaveRoom(s, r)
      PROVE  Rooming'
  <2> DEFINE u == userId[s]
             e == userRooms[u]
  <2>1. u \in Users /\ e \in Sockets /\ e # NoSocket
    BY <1>5 DEF LeaveRoom, TypeOK
  <2>2. \A t \in Sockets : rooms'[t] = IF t = e THEN rooms[t] \ {r} ELSE rooms[t]
    BY <1>5 DEF LeaveRoom, TypeOK
  <2>3. \A x \in Rooms : roomMembers'[x] = IF x = r THEN roomMembers[x] \ {u}
                                           ELSE roomMembers[x]
    BY <1>5 DEF LeaveRoom, TypeOK
  <2>4. UNCHANGED <<userRooms, excused>>
    BY <1>5 DEF LeaveRoom
  <2>5. \A v \in Users : userRooms[v] # NoSocket =>
          userRooms[v] \in Sockets /\ userId[userRooms[v]] = v
    BY DEF TypeOK, EntryInv
  <2> HIDE DEF u, e
  <2>6. \A v \in Users : userRooms[v] # NoSocket =>
          \A x \in rooms'[userRooms[v]] : v \in roomMembers'[x]
    <3>1. ASSUME NEW v \in Users, userRooms[v] # NoSocket,
                 NEW x \in rooms'[userRooms[v]]
          PROVE  v \in roomMembers'[x]
      <4>1. x \in rooms[userRooms[v]] /\ x \in Rooms
        BY <2>2, <2>5, <3>1 DEF TypeOK
      <4>2. v \in roomMembers[x]
        BY <3>1, <4>1 DEF Rooming, TrackedAreListed
      <4>3. v = u => x # r
        BY <2>2, <2>5, <3>1, <2>1 DEF e
      <4>4. QED
        BY <2>3, <4>1, <4>2, <4>3
    <3>2. QED
      BY <3>1
  <2>7. TrackedAreListed'
    BY <2>4, <2>6 DEF TrackedAreListed
  <2>8. ASSUME NEW x \in Rooms, NEW v \in roomMembers'[x]
        PROVE  \/ userRooms[v] # NoSocket /\ x \in rooms'[userRooms[v]]
               \/ v \in excused
    <3>1. v \in roomMembers[x] /\ v \in Users /\ (v = u => x # r)
      BY <2>3 DEF TypeOK
    <3>2. \/ userRooms[v] # NoSocket /\ x \in rooms[userRooms[v]]
          \/ v \in excused
      BY <3>1 DEF Rooming, GhostsExplained
    <3>3. userRooms[v] = e /\ userRooms[v] # NoSocket => v = u
      BY <2>1, <2>5, <3>1 DEF e
    <3>4. QED
      BY <2>2, <2>5, <3>1, <3>2, <3>3
  <2>9. GhostsExplained'
    BY <2>4, <2>8 DEF GhostsExplained
  <2>10. QED
    BY <2>7, <2>9 DEF Rooming
<1>6. ASSUME NEW s \in Sockets, userId[s] # NoUser, ForgetUser(userId[s]),
             UNCHANGED excused
      PROVE  Rooming'
  <2> DEFINE u == userId[s]
             e == userRooms[u]
  <2>1. u \in Users /\ e \in Sockets /\ e # NoSocket
    BY <1>6 DEF ForgetUser, TypeOK
  <2>2. \A t \in Sockets : rooms'[t] = IF t = e THEN {} ELSE rooms[t]
    BY <1>6 DEF ForgetUser, TypeOK
  <2>3. \A x \in Rooms : roomMembers'[x] = IF x \in rooms[e] THEN roomMembers[x] \ {u}
                                           ELSE roomMembers[x]
    BY <1>6 DEF ForgetUser
  <2>4. \A v \in Users : userRooms'[v] = IF v = u THEN NoSocket ELSE userRooms[v]
    BY <1>6 DEF ForgetUser, TypeOK
  <2>5. \A v \in Users : userRooms[v] # NoSocket =>
          userRooms[v] \in Sockets /\ userId[userRooms[v]] = v
    BY DEF TypeOK, EntryInv
  <2>6. u \in Users /\ e # NoSocket => userRooms[u] = e
    OBVIOUS
  <2> HIDE DEF u, e
  <2>7. \A v \in Users : v # u /\ userRooms[v] # NoSocket => userRooms[v] # e
    BY <2>1, <2>5, <2>6
  <2>8. ASSUME NEW v \in Users, userRooms'[v] # NoSocket,
               NEW x \in rooms'[userRooms'[v]]
        PROVE  v \in roomMembers'[x]
    <3>1. v # u /\ userRooms'[v] = userRooms[v] /\ userRooms[v] # NoSocket
      BY <2>4, <2>8
    <3>2. x \in rooms[userRooms[v]] /\ x \in Rooms
      BY <2>2, <2>5, <2>8, <3>1 DEF TypeOK
    <3>3. v \in roomMembers[x]
      BY <3>1, <3>2 DEF Rooming, TrackedAreListed
    <3>4. QED
      BY <2>3, <3>1, <3>2, <3>3
  <2>9. TrackedAreListed'
    BY <2>8 DEF TrackedAreListed
  <2>10. ASSUME NEW x \in Rooms, NEW v \in roomMembers'[x]
         PROVE  \/ userRooms'[v] # NoSocket /\ x \in rooms'[userRooms'[v]]
                \/ v \in excused
    <3>1. v \in roomMembers[x] /\ v \in Users /\ (v = u => x \notin rooms[e])
      BY <2>3 DEF TypeOK
    <3>2. \/ userRooms[v] # NoSocket /\ x \in rooms[userRooms[v]]
          \/ v \in excused
      BY <3>1 DEF Rooming, GhostsExplained
    <3>3. CASE v = u
      BY <2>1, <2>6, <3>1, <3>2, <3>3
    <3>4. CASE v # u
      BY <2>2, <2>4, <2>5, <2>7, <3>1, <3>2, <3>4
    <3>5. QED
      BY <3>3, <3>4
  <2>11. GhostsExplained'
    BY <1>6, <2>10 DEF GhostsExplained
  <2>12. QED
    BY <2>9, <2>11 DEF Rooming
<1>7. ASSUME NEW s \in Sockets, Disconnect(s) \/ Reject(s)
      PROVE  Rooming'
  BY <1>1, <1>6, <1>7 DEF Disconnect, Reject, Close, roomVars
<1>8. QED
  BY <1>1, <1>2, <1>3, <1>4, <1>5, <1>7
     DEF Next, Connect, GuardMessage, ListRooms, ListFails, AutoJoinDenied,
         RequestJoin, RequestDenied

----------------------------------------------------------------------------
(* Connections without an entry                                            *)

\* Only a disconnection takes an entry away, and a closed socket stays closed.
LEMMA NextStranded ==
  ASSUME TypeOK, EntryInv, StrandedByAnother, Next
  PROVE  StrandedByAnother'
<1>1. ASSUME NEW s \in Sockets, Close(s), UNCHANGED userId,
             \A t \in Sockets : phase'[t] \in Made => phase[t] \in Made
      PROVE  StrandedByAnother'
  <2>1. \A t \in Sockets : link'[t] = IF t = s THEN "closed" ELSE link[t]
    BY <1>1 DEF Close, TypeOK
  <2>2. \A v \in Users : v # userId[s] => userRooms'[v] = userRooms[v]
    BY <1>1 DEF Close, ForgetUser, TypeOK, roomVars
  <2>3. \A t \in Sockets : phase[t] \in Made => userId[t] \in Users
    BY DEF EntryInv, TypeOK
  <2>4. QED
    BY <1>1, <2>1, <2>2, <2>3 DEF StrandedByAnother
<1>2. ASSUME NEW s \in Sockets, Disconnect(s)
      PROVE  StrandedByAnother'
  BY <1>1, <1>2 DEF Disconnect, joinVars
<1>3. ASSUME NEW s \in Sockets, Reject(s)
      PROVE  StrandedByAnother'
  <2>1. /\ UNCHANGED userId
        /\ \A t \in Sockets : phase'[t] \in Made => phase[t] \in Made
    BY <1>3 DEF Reject, TypeOK, Made
  <2>2. CASE UNCHANGED <<link, roomVars>>
    BY <2>1, <2>2 DEF StrandedByAnother, roomVars
  <2>3. QED
    BY <1>1, <1>3, <2>1, <2>2 DEF Reject
<1>4. ASSUME NEW s \in Sockets, Connect(s)
      PROVE  StrandedByAnother'
  <2>1. \A t \in Sockets : phase'[t] \in Made => t # s /\ phase[t] \in Made
    BY <1>4 DEF Connect, TypeOK, Made
  <2>2. \A t \in Sockets : link[t] = "closed" => link'[t] = "closed"
    BY <1>4 DEF Connect, TypeOK
  <2>3. \A t \in Sockets : t # s => link'[t] = link[t]
    BY <1>4 DEF Connect, TypeOK
  <2>4. UNCHANGED <<userId, userRooms>>
    BY <1>4 DEF Connect, roomVars
  <2>5. QED
    BY <2>1, <2>2, <2>3, <2>4 DEF StrandedByAnother
<1>5. ASSUME NEW s \in Sockets, NEW u \in Users, Authenticate(s, u)
      PROVE  StrandedByAnother'
  <2>1. u # NoUser /\ s # NoSocket
    BY RoomsAssumption
  <2>2. \A t \in Sockets : userId'[t] = IF t = s THEN u ELSE userId[t]
    BY <1>5 DEF Authenticate, TypeOK
  <2>3. \A v \in Users : userRooms'[v] = IF v = u THEN s ELSE userRooms[v]
    BY <1>5 DEF Authenticate, TypeOK
  <2>4. \A t \in Sockets : phase'[t] = IF t = s THEN "travels" ELSE phase[t]
    BY <1>5 DEF Authenticate, TypeOK
  <2>5. UNCHANGED link /\ userId[s] \in {u, NoUser}
    BY <1>5 DEF Authenticate
  <2>6. \A t \in Sockets : phase[t] \in Made => userId[t] \in Users
    BY DEF EntryInv, TypeOK
  <2>7. ASSUME NEW t \in Sockets, link[t] = "open", phase'[t] \in Made,
               userRooms'[userId'[t]] = NoSocket
        PROVE  \E x \in Sockets : userId'[x] = userId'[t] /\ link[x] = "closed"
    <3>1. t # s /\ userId'[t] = userId[t]
      BY <2>1, <2>2, <2>3, <2>7
    <3>2. phase[t] \in Made /\ userId[t] \in Users
      BY <2>4, <2>6, <2>7, <3>1
    <3>3. userRooms[userId[t]] = NoSocket
      BY <2>1, <2>3, <2>7, <3>1, <3>2
    <3>4. PICK x \in Sockets : userId[x] = userId[t] /\ link[x] = "closed"
      BY <2>7, <3>2, <3>3 DEF StrandedByAnother
    <3>5. userId'[x] = userId[x]
      BY <2>2, <2>5, <3>2, <3>4, RoomsAssumption
    <3>6. QED
      BY <3>1, <3>4, <3>5
  <2>8. QED
    BY <2>5, <2>7 DEF StrandedByAnother
<1>6. ASSUME NEW s \in Sockets, NEW u \in Users, GuardMessage(s, u)
      PROVE  StrandedByAnother'
  <2>1. UNCHANGED <<link, phase, userRooms>>
    BY <1>6 DEF GuardMessage, joinVars, roomVars
  <2>2. \A t \in Sockets : userId[t] # NoUser => userId'[t] = userId[t]
    BY <1>6 DEF GuardMessage, TypeOK
  <2>3. \A t \in Sockets : phase[t] \in Made => userId[t] # NoUser
    BY DEF EntryInv
  <2>4. QED
    BY <2>1, <2>2, <2>3 DEF StrandedByAnother
<1>7. ASSUME UNCHANGED <<link, userId, userRooms>>,
             \A t \in Sockets : phase'[t] \in Made => phase[t] \in Made
      PROVE  StrandedByAnother'
  BY <1>7 DEF StrandedByAnother
<1>8. ASSUME NEW s \in Sockets,
             ListFails(s) \/ (\E found \in SUBSET Rooms : ListRooms(s, found))
               \/ AutoJoin(s) \/ AutoJoinDenied(s)
      PROVE  StrandedByAnother'
  <2>1. phase[s] \in Made
    BY <1>8 DEF ListFails, ListRooms, AutoJoin, AutoJoinDenied, Made, Joining
  <2>2. \A t \in Sockets : t # s => phase'[t] = phase[t]
    BY <1>8 DEF ListFails, ListRooms, AutoJoin, AutoJoinDenied, AskNext, TypeOK
  <2>3. UNCHANGED <<link, userId, userRooms>>
    BY <1>8 DEF ListFails, ListRooms, AutoJoin, AutoJoinDenied, roomVars
  <2>4. QED
    BY <1>7, <2>1, <2>2, <2>3
<1>9. QED
  BY <1>2, <1>3, <1>4, <1>5, <1>6, <1>7, <1>8
     DEF Next, RequestJoin, RequestGranted, RequestDenied, LeaveRoom, joinVars, roomVars

----------------------------------------------------------------------------
(* The theorems                                                            *)

\* Initially there are no connections.
LEMMA InitIInv == Init => IInv
<1> SUFFICES ASSUME Init PROVE IInv
  OBVIOUS
<1>1. TypeOK
  BY DEF Init, TypeOK, Phases, Made, Joining
<1>2. EntryInv
  BY DEF Init, EntryInv, Made, Joining
<1>3. TrackedAreListed /\ GhostsExplained /\ StrandedByAnother
  BY DEF Init, TrackedAreListed, GhostsExplained, StrandedByAnother, Made
<1>4. QED
  BY <1>1, <1>2, <1>3 DEF IInv

\* Every step keeps the invariant.
LEMMA NextIInv == IInv /\ [Next]_vars => IInv'
<1>1. CASE UNCHANGED vars
  BY <1>1 DEF vars, IInv, TypeOK, EntryInv, TrackedAreListed, GhostsExplained,
              StrandedByAnother
<1>2. CASE Next
  BY <1>2, NextType, NextEntry, NextRooming, NextStranded DEF IInv, Rooming
<1>3. QED
  BY <1>1, <1>2

\* The inductive invariant holds in every reachable state.
THEOREM Invariance == Spec => []IInv
  BY InitIInv, NextIInv, PTL DEF Spec

\* Every reachable state is well typed.
THEOREM TypeCorrect == Spec => []TypeOK
<1>1. IInv => TypeOK
  BY DEF IInv
<1>2. QED
  BY <1>1, Invariance, PTL

\* The rooms a user's entry lists all list the user.
THEOREM TrackedAlwaysListed == Spec => []TrackedAreListed
<1>1. IInv => TrackedAreListed
  BY DEF IInv
<1>2. QED
  BY <1>1, Invariance, PTL

\* Ghosts come from replaced entries and late permissions only.
THEOREM GhostsAlwaysExplained == Spec => []GhostsExplained
<1>1. IInv => GhostsExplained
  BY DEF IInv
<1>2. QED
  BY <1>1, Invariance, PTL

\* A live connection only loses its entry to another connection of its user.
THEOREM StrandedAlwaysByAnother == Spec => []StrandedByAnother
<1>1. IInv => StrandedByAnother
  BY DEF IInv
<1>2. QED
  BY <1>1, Invariance, PTL
============================================================================
