--------------------------- MODULE EnhancedGateway ---------------------------
(***************************************************************************)
(* The connection life cycle of EnhancedWebSocketGateway: handleConnection *)
(* split at its awaits, handleDisconnect, and what changes the same state  *)
(* meanwhile (bans, the token and user blacklists, forced disconnection,   *)
(* shutdown).  The registry is changed by actions of ConnectionManager     *)
(* only.  The Redis commands of createSession and updateSessionActivity are *)
(* in SessionManager: here createSession is an await that returns or throws. *)
(***************************************************************************)
EXTENDS ConnectionManager

VARIABLES
  pc,           \* where each socket's handleConnection is
  banned,       \* users.isBanned
  blacklisted,  \* blacklist:user:<u>:all
  barred        \* history: what should stop a handshake, per socket

rules == <<banned, blacklisted, barred>>
gatewayVars == <<vars, pc, rules>>

Steps == {"idle", "token", "user", "lookup", "found", "creating",
          "established", "rejected"}

\* Each handshake is at one of its awaits, and has set socket.data.user exactly
\* if it got as far as createSession.
GatewayTypeOK ==
  /\ TypeOK
  /\ pc \in [Sockets -> Steps]
  /\ banned \in SUBSET Users
  /\ blacklisted \in SUBSET Users
  /\ barred \in [Sockets -> SUBSET {"ban", "blacklist"}]
  /\ \A s \in Sockets :
       /\ pc[s] \in {"creating", "established"} => s \in admitted
       /\ s \in admitted => pc[s] \in {"creating", "established", "rejected"}

GatewayInit ==
  /\ Init
  /\ pc = [s \in Sockets |-> "idle"]
  /\ banned = {}
  /\ blacklisted = {}
  /\ barred = [s \in Sockets |-> {}]

\* socket.disconnect(): a second one does nothing.
CloseIfOpen(s) ==
  IF link[s] = "open" THEN Disconnect(s) ELSE UNCHANGED vars

Await(s, from, to) ==
  /\ pc[s] = from
  /\ pc' = [pc EXCEPT ![s] = to]

----------------------------------------------------------------------------
(* handleConnection.                                                       *)

HandleConnection(s, u, d) ==
  /\ Connect(s, u, d)
  /\ Await(s, "idle", "token")
  /\ barred' = [barred EXCEPT ![s] =
                  {b \in {"ban", "blacklist"} :
                     \/ b = "ban" /\ u \in banned
                     \/ b = "blacklist" /\ u \in blacklisted}]
  /\ UNCHANGED <<banned, blacklisted>>

\* isTokenBlacklisted answers no (or fails, which reads as no) and the token
\* verifies.
TokenAccepted(s) ==
  /\ Await(s, "token", "user")
  /\ UNCHANGED <<vars, rules>>

\* isUserBlacklisted reads the flag and answers no.
UserAccepted(s) ==
  /\ Await(s, "user", "lookup")
  /\ owner[s] \notin blacklisted
  /\ UNCHANGED <<vars, rules>>

\* isUserBlacklisted cannot reach Redis: it answers no.
UserUnchecked(s) ==
  /\ Await(s, "user", "lookup")
  /\ barred' = [barred EXCEPT ![s] = @ \ {"blacklist"}]
  /\ UNCHANGED <<vars, banned, blacklisted>>

\* Variant: isBanned is not read.
UserLoadedUnasked(s) ==
  /\ Await(s, "lookup", "found")
  /\ UNCHANGED <<vars, rules>>

\* User.findOne returns a user that is not banned.
UserLoaded(s) ==
  /\ Await(s, "lookup", "found")
  /\ owner[s] \notin banned
  /\ UNCHANGED <<vars, rules>>

\* The token is missing, invalid or blacklisted, a check says no, the user
\* does not exist or the query fails: the socket is disconnected.
HandshakeRejected(s) ==
  /\ \/ Await(s, "token", "rejected")
     \/ Await(s, "user", "rejected") /\ owner[s] \in blacklisted
     \/ Await(s, "lookup", "rejected")
  /\ CloseIfOpen(s)
  /\ UNCHANGED rules

\* Variant: the socket is not registered.
AdmitUnregistered(s) ==
  /\ Await(s, "found", "creating")
  /\ UNCHANGED <<vars, rules>>

\* Steps 6 and 7: socket.data.user is set and the socket is registered,
\* without asking whether it is still connected.
Admit(s) ==
  /\ Await(s, "found", "creating")
  /\ RegisterConnection(s)
  /\ UNCHANGED rules

\* Steps 8 to 12: createSession returned; the connection is announced.
Establish(s) ==
  /\ Await(s, "creating", "established")
  /\ UNCHANGED <<vars, rules>>

\* Variant: the error is only logged.
SessionFailedOpen(s) ==
  /\ Await(s, "creating", "rejected")
  /\ UNCHANGED <<vars, rules>>

\* createSession threw: the catch block disconnects the socket.
SessionFailed(s) ==
  /\ Await(s, "creating", "rejected")
  /\ CloseIfOpen(s)
  /\ UNCHANGED rules

Handshake(s) ==
  \/ TokenAccepted(s) \/ UserAccepted(s) \/ UserUnchecked(s) \/ UserLoaded(s)
  \/ HandshakeRejected(s) \/ Admit(s) \/ Establish(s) \/ SessionFailed(s)

----------------------------------------------------------------------------
(* The client, operators, and other services.                              *)

\* handleDisconnect, when the client or the transport closes the socket.
HandleDisconnect(s) ==
  /\ Disconnect(s)
  /\ UNCHANGED <<pc, rules>>

\* User.banUser and unbanUser: they write the row and tell nobody.
SetBan(u) ==
  /\ banned' = IF u \in banned THEN banned \ {u} ELSE banned \cup {u}
  /\ barred' = [s \in Sockets |-> IF owner[s] = u THEN barred[s] \ {"ban"}
                                  ELSE barred[s]]
  /\ UNCHANGED <<vars, pc, blacklisted>>

\* blacklistUserSessions, and removeFromBlacklist or the end of its 7 days.
SetBlacklist(u) ==
  /\ blacklisted' = IF u \in blacklisted THEN blacklisted \ {u}
                    ELSE blacklisted \cup {u}
  /\ barred' = [s \in Sockets |-> IF owner[s] = u THEN barred[s] \ {"blacklist"}
                                  ELSE barred[s]]
  /\ UNCHANGED <<vars, pc, banned>>

\* forceDisconnectUser is also the handler of user.sessions.invalidated,
\* user.banned and user.force.logout; cleanup runs on SIGTERM.
ForcedClose ==
  /\ \/ \E u \in Users : ForceDisconnectUser(u)
     \/ \E d \in Devices : ForceDisconnectDevice(d)
     \/ Cleanup
  /\ UNCHANGED <<pc, rules>>

GatewayNext ==
  \/ \E s \in Sockets :
       \/ \E u \in Users, d \in Devices \cup {NoDevice} : HandleConnection(s, u, d)
       \/ TokenAccepted(s) \/ UserAccepted(s) \/ UserUnchecked(s)
       \/ UserLoaded(s) \/ HandshakeRejected(s) \/ Admit(s)
       \/ Establish(s) \/ SessionFailed(s) \/ HandleDisconnect(s)
  \/ \E u \in Users : SetBan(u) \/ SetBlacklist(u)
  \/ ForcedClose

\* Every await of a handshake returns or throws (ioredis and the database
\* driver give up in the end), and the event loop runs what follows it.
GatewaySpec ==
  GatewayInit /\ [][GatewayNext]_gatewayVars /\ \A s \in Sockets : WF_gatewayVars(Handshake(s))

----------------------------------------------------------------------------
(* Properties                                                              *)

\* A user who was banned or blacklisted when the handshake began, and still
\* is, is never registered, unless the blacklist could not be read.
BarredNeverAdmitted ==
  [][\A s \in admitted' \ admitted : barred[s] = {}]_gatewayVars

\* A connection that was announced to its client and is open can be reached
\* through the registry, whatever was disconnected in the meantime.
AnnouncedReachable ==
  \A s \in Sockets :
    pc[s] = "established" /\ link[s] = "open" =>
      /\ s \in userConnections[owner[s]]
      /\ device[s] # NoDevice => deviceConnections[device[s]] = s

\* No handshake hangs: every one ends in an announced connection or a
\* disconnection, whatever happens to its socket and user meanwhile.
HandshakeSettles ==
  \A s \in Sockets :
    pc[s] # "idle" ~> pc[s] = "established" \/ link[s] = "closed"
============================================================================
