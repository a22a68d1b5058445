------------------------- MODULE ConnectionManager -------------------------
(***************************************************************************)
(* The in-memory connection registry of one server process                 *)
(* (ConnectionManagerService) and the part of Socket.IO it relies on.      *)
(*                                                                         *)
(* The service keeps three maps, userConnections, socketToUser and         *)
(* deviceConnections, and changes them in synchronous code, so each method *)
(* is one action.  A call socket.disconnect(true) made from such a method  *)
(* runs the gateway's handleDisconnect, and with it unregisterConnection,  *)
(* before it returns: closing a socket is therefore part of the method     *)
(* that closes it (operator Drop, and the `kicked' sockets of              *)
(* RegisterConnection).                                                    *)
(*                                                                         *)
(* The gateway registers a socket some time after it connected, when its   *)
(* asynchronous handshake is over; nothing stops the socket from closing   *)
(* in between.  The handshake itself is in EnhancedGateway, which          *)
(* implements this module.                                                 *)
(***************************************************************************)

CONSTANTS
  Users,     \* user ids
  Sockets,   \* Socket.IO sockets; a reconnecting client gets a new one
  Devices,   \* device ids sent in the handshake query
  NoUser,    \* "no entry" in socketToUser
  NoSocket,  \* "no entry" in deviceConnections
  NoDevice   \* a handshake without a deviceId

ASSUME ConnectionAssumption ==
  /\ NoUser \notin Users
  /\ NoSocket \notin Sockets
  /\ NoDevice \notin Devices

VARIABLES
  link,              \* Socket.IO's view of each socket: new, open or closed
  owner,             \* the user the socket's token names
  device,            \* the handshake's deviceId
  admitted,          \* sockets whose socket.data.user is set
  userConnections,   \* userId -> set of sockets (no entry = the empty set)
  socketToUser,      \* socket -> userId
  deviceConnections  \* deviceId -> socket

socketVars == <<link, owner, device, admitted>>
registry == <<userConnections, socketToUser, deviceConnections>>
vars == <<link, owner, device, admitted,
          userConnections, socketToUser, deviceConnections>>

Links == {"new", "open", "closed"}

\* Every variable holds a value of its kind; in particular the maps have no
\* key outside their domains (a handshake without a device has no entry).
TypeOK ==
  /\ link \in [Sockets -> Links]
  /\ owner \in [Sockets -> Users \cup {NoUser}]
  /\ device \in [Sockets -> Devices \cup {NoDevice}]
  /\ admitted \in SUBSET Sockets
  /\ userConnections \in [Users -> SUBSET Sockets]
  /\ socketToUser \in [Sockets -> Users \cup {NoUser}]
  /\ deviceConnections \in [Devices -> Sockets \cup {NoSocket}]

Init ==
  /\ link = [s \in Sockets |-> "new"]
  /\ owner = [s \in Sockets |-> NoUser]
  /\ device = [s \in Sockets |-> NoDevice]
  /\ admitted = {}
  /\ userConnections = [u \in Users |-> {}]
  /\ socketToUser = [s \in Sockets |-> NoUser]
  /\ deviceConnections = [d \in Devices |-> NoSocket]

----------------------------------------------------------------------------
(* unregisterConnection, for every socket of the set gone.                 *)

UsersWithout(gone) ==
  [u \in Users |-> userConnections[u] \ {s \in gone : socketToUser[s] = u}]

\* Variant: the reverse map is forgotten.
SocketsKept(gone) == socketToUser

SocketsWithout(gone) ==
  [s \in Sockets |-> IF s \in gone THEN NoUser ELSE socketToUser[s]]

\* Variant: the device map is forgotten.
DevicesKept(gone) == deviceConnections

DevicesWithout(gone) ==
  [d \in Devices |-> IF \E s \in gone : device[s] = d /\ deviceConnections[d] = s
                     THEN NoSocket ELSE deviceConnections[d]]

Closed(S) == [s \in Sockets |-> IF s \in S THEN "closed" ELSE link[s]]

\* The sockets of S are disconnected; handleDisconnect unregisters those that
\* have socket.data.user and ignores the others ("Unknown client").
Drop(S) ==
  /\ link' = Closed(S)
  /\ userConnections' = UsersWithout(S \cap admitted)
  /\ socketToUser' = SocketsWithout(S \cap admitted)
  /\ deviceConnections' = DevicesWithout(S \cap admitted)
  /\ UNCHANGED <<owner, device, admitted>>

----------------------------------------------------------------------------
(* A client connects with user u's token and device d (or NoDevice).       *)
Connect(s, u, d) ==
  /\ link[s] = "new"
  /\ link' = [link EXCEPT ![s] = "open"]
  /\ owner' = [owner EXCEPT ![s] = u]
  /\ device' = [device EXCEPT ![s] = d]
  /\ UNCHANGED <<admitted, registry>>

\* Variant: a new connection does not disconnect the device's previous one.
KickedNone(s) == {}

\* The socket that holds the device of s and is to be disconnected: a second
\* disconnect of a closed socket does nothing.
Kicked(s) ==
  {t \in Sockets : /\ device[s] \in Devices
                   /\ deviceConnections[device[s]] = t
                   /\ t # s
                   /\ link[t] = "open"}

\* Variant: no test for a missing deviceId.
RegisterAnyDevice(s) ==
  /\ link[s] # "new"
  /\ s \notin admitted
  /\ admitted' = admitted \cup {s}
  /\ link' = Closed(Kicked(s))
  /\ userConnections' =
       [UsersWithout(Kicked(s)) EXCEPT ![owner[s]] = @ \cup {s}]
  /\ socketToUser' = [SocketsWithout(Kicked(s)) EXCEPT ![s] = owner[s]]
  /\ deviceConnections' =
       [d \in Devices \cup {device[s]} |->
          IF d = device[s] THEN s ELSE deviceConnections[d]]
  /\ UNCHANGED <<owner, device>>

(* registerConnection, once per socket, whether or not it is still open.   *)
RegisterConnection(s) ==
  LET kicked == Kicked(s) IN
  /\ link[s] # "new"
  /\ s \notin admitted
  /\ admitted' = admitted \cup {s}
  /\ link' = Closed(kicked)
  /\ userConnections' =
       [UsersWithout(kicked) EXCEPT ![owner[s]] = @ \cup {s}]
  /\ socketToUser' = [SocketsWithout(kicked) EXCEPT ![s] = owner[s]]
  /\ deviceConnections' =
       [d \in Devices |-> IF d = device[s] THEN s ELSE DevicesWithout(kicked)[d]]
  /\ UNCHANGED <<owner, device>>

(* A socket closes: network loss, client disconnect, or the server's       *)
(* socket.disconnect() on a failed handshake.                              *)
Disconnect(s) ==
  /\ link[s] = "open"
  /\ Drop({s})

\* Variant: the device entries are left to the disconnected sockets.
ForceDisconnectOpen(u) ==
  LET gone == {s \in userConnections[u] : link[s] = "open"} IN
  /\ userConnections[u] # {}
  /\ link' = Closed(gone)
  /\ userConnections' = [UsersWithout(gone) EXCEPT ![u] = {}]
  /\ socketToUser' = [s \in Sockets |-> IF socketToUser[s] = u THEN NoUser
                                         ELSE SocketsWithout(gone)[s]]
  /\ deviceConnections' = DevicesWithout(gone)
  /\ UNCHANGED <<owner, device, admitted>>

(* forceDisconnectUser: close what the user has open, then delete every    *)
(* entry of the user from the three maps.                                  *)
ForceDisconnectUser(u) ==
  LET gone == {s \in userConnections[u] : link[s] = "open"} IN
  /\ userConnections[u] # {}
  /\ link' = Closed(gone)
  /\ userConnections' = [UsersWithout(gone) EXCEPT ![u] = {}]
  /\ socketToUser' =
       [s \in Sockets |-> IF socketToUser[s] = u THEN NoUser
                          ELSE SocketsWithout(gone)[s]]
  /\ deviceConnections' =
       [d \in Devices |-> IF \E s \in Sockets : /\ deviceConnections[d] = s
                                                /\ owner[s] = u
                          THEN NoSocket ELSE DevicesWithout(gone)[d]]
  /\ UNCHANGED <<owner, device, admitted>>

(* forceDisconnectDevice: only closes the socket; its handleDisconnect     *)
(* unregisters it.  A closed socket that still holds the device stays.     *)
ForceDisconnectDevice(d) ==
  \E s \in Sockets :
    /\ deviceConnections[d] = s
    /\ link[s] = "open"
    /\ Drop({s})

(* cleanup, on SIGTERM: close every registered socket, empty the maps.     *)
Cleanup ==
  /\ \E u \in Users : userConnections[u] # {}
  /\ link' = Closed({s \in UNION {userConnections[u] : u \in Users} :
                        link[s] = "open"})
  /\ userConnections' = [u \in Users |-> {}]
  /\ socketToUser' = [s \in Sockets |-> NoUser]
  /\ deviceConnections' = [d \in Devices |-> NoSocket]
  /\ UNCHANGED <<owner, device, admitted>>

Next ==
  \/ \E s \in Sockets, u \in Users, d \in Devices \cup {NoDevice} :
       Connect(s, u, d)
  \/ \E s \in Sockets : RegisterConnection(s)
  \/ \E s \in Sockets : Disconnect(s)
  \/ \E u \in Users : ForceDisconnectUser(u)
  \/ \E d \in Devices : ForceDisconnectDevice(d)
  \/ Cleanup

Spec == Init /\ [][Next]_vars

----------------------------------------------------------------------------
(* Properties                                                              *)

\* The two directions of the user map agree: a socket is in a user's set
\* exactly if the reverse map names that user, and it is its token's user.
\* unregisterConnection finds the set to clean through the reverse map.
MapsAgree ==
  \A s \in Sockets, u \in Users :
    /\ s \in userConnections[u] <=> socketToUser[s] = u
    /\ socketToUser[s] = u => owner[s] = u

\* An open socket that has finished its registration is registered, and it
\* is the one its device maps to: two open connections never share a device
\* and forced disconnection by user or by device reaches every one of them.
LiveOwnsDevice ==
  \A s \in admitted :
    link[s] = "open" =>
      /\ socketToUser[s] = owner[s]
      /\ device[s] \in Devices => deviceConnections[device[s]] = s

\* A step that closes a socket leaves no trace of it in the registry, however
\* it closes it: as the previous holder of a device, on its own, by a forced
\* disconnection or at shutdown.
ClosingUnregisters ==
  [][\A s \in Sockets : link[s] = "open" /\ link'[s] = "closed" =>
       /\ socketToUser'[s] = NoUser
       /\ \A u \in Users : s \notin userConnections'[u]
       /\ \A d \in Devices : deviceConnections'[d] # s]_vars

\* Forced disconnection of a user closes every open registered connection of
\* that user, closes no other user's, and leaves none of the user's entries.
ForceDisconnectComplete ==
  [][\A u \in Users : ForceDisconnectUser(u) =>
       /\ \A s \in admitted : owner[s] = u => link'[s] = "closed"
       /\ \A s \in Sockets : owner[s] # u => link'[s] = link[s]
       /\ \A d \in Devices, s \in Sockets :
            deviceConnections'[d] = s => owner[s] # u]_vars

\* What the service's comment says of the map: the registered connections are
\* the user's active ones.  A registration after the socket closed breaks it.
ActiveMeansConnected ==
  \A u \in Users : \A s \in userConnections[u] : link[s] = "open"
============================================================================
