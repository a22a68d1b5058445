-------------------------- MODULE ConnectionProofs --------------------------
(***************************************************************************)
(* TLAPS proofs about ConnectionManager and about EnhancedGateway, which   *)
(* fills and empties it, for any sets of users, sockets and devices.  The  *)
(* first part is about the registry alone; the second shows that the       *)
(* gateway implements it, and uses what the first one proves.              *)
(***************************************************************************)
EXTENDS EnhancedGateway, TLAPS

(***************************************************************************)
(* The registry                                                            *)
(***************************************************************************)

\* A socket that has connected has a token naming a user, and only a socket
\* that has connected is ever registered.
OwnerKnown ==
  \A s \in Sockets :
    /\ link[s] # "new" => owner[s] \in Users
    /\ link[s] = "new" => s \notin admitted

\* Whatever is in the registry went through registerConnection.
EntriesAdmitted ==
  \A s \in Sockets : socketToUser[s] # NoUser => s \in admitted

\* A device entry is a registered socket that named that device.
DeviceEntryRegistered ==
  \A d \in Devices, s \in Sockets :
    deviceConnections[d] = s => device[s] = d /\ socketToUser[s] # NoUser

\* The inductive invariant: LiveOwnsDevice alone is not inductive, because
\* kicking the previous holder of a device is done through its own entries.
IInv ==
  /\ TypeOK
  /\ OwnerKnown
  /\ EntriesAdmitted
  /\ DeviceEntryRegistered
  /\ MapsAgree
  /\ LiveOwnsDevice

----------------------------------------------------------------------------
USE ConnectionAssumption

LEMMA InitIInv == Init => IInv
BY DEF Init, IInv, TypeOK, Links, OwnerKnown, EntriesAdmitted,
       DeviceEntryRegistered, MapsAgree, LiveOwnsDevice

\* Dropping open sockets preserves the invariant.
LEMMA DropIInv ==
  ASSUME IInv, NEW S \in SUBSET Sockets, \A s \in S : link[s] = "open", Drop(S)
  PROVE  IInv'
<1> USE DEF IInv, TypeOK, Links, Drop, Closed, UsersWithout, SocketsWithout,
            DevicesWithout
<1>1. TypeOK'
  OBVIOUS
<1>2. OwnerKnown'
  BY DEF OwnerKnown
<1>3. EntriesAdmitted'
  BY DEF EntriesAdmitted
<1>4. DeviceEntryRegistered'
  BY DEF DeviceEntryRegistered
<1>5. MapsAgree'
  BY DEF MapsAgree
<1>6. LiveOwnsDevice'
  BY DEF LiveOwnsDevice
<1> QED
  BY <1>1, <1>2, <1>3, <1>4, <1>5, <1>6

LEMMA ConnectIInv ==
  ASSUME IInv, NEW s \in Sockets, NEW u \in Users,
         NEW d \in Devices \cup {NoDevice}, Connect(s, u, d)
  PROVE  IInv'
<1> USE DEF IInv, TypeOK, Links, Connect, registry
<1>1. TypeOK'
  OBVIOUS
<1>2. OwnerKnown'
  BY DEF OwnerKnown
<1>3. EntriesAdmitted'
  BY DEF EntriesAdmitted
<1>4. DeviceEntryRegistered'
  BY DEF DeviceEntryRegistered, OwnerKnown, EntriesAdmitted
<1>5. MapsAgree'
  BY DEF MapsAgree, OwnerKnown, EntriesAdmitted
<1>6. LiveOwnsDevice'
  BY DEF LiveOwnsDevice, OwnerKnown
<1> QED
  BY <1>1, <1>2, <1>3, <1>4, <1>5, <1>6

LEMMA RegisterIInv ==
  ASSUME IInv, NEW s \in Sockets, RegisterConnection(s)
  PROVE  IInv'
<1> USE DEF IInv, TypeOK, Links
<1> DEFINE K == Kicked(s)
<1>0. /\ K \in SUBSET Sockets
      /\ s \notin K
      /\ \A t \in K : /\ link[t] = "open"
                      /\ device[s] \in Devices
                      /\ deviceConnections[device[s]] = t
                      /\ device[t] = device[s]
                      /\ t \in admitted
  BY DEF Kicked, DeviceEntryRegistered, EntriesAdmitted
<1>1. /\ owner[s] \in Users
      /\ s \notin admitted
      /\ admitted' = admitted \cup {s}
      /\ link' = [t \in Sockets |-> IF t \in K THEN "closed" ELSE link[t]]
      /\ owner' = owner /\ device' = device
  BY DEF RegisterConnection, OwnerKnown, Closed
<1>2. /\ userConnections' \in [Users -> SUBSET Sockets]
      /\ \A t \in Sockets, u \in Users :
           t \in userConnections'[u] <=>
             \/ t = s /\ u = owner[s]
             \/ t \in userConnections[u] /\ ~(t \in K /\ socketToUser[t] = u)
  <2> DEFINE W == UsersWithout(K)
  <2>1. /\ W \in [Users -> SUBSET Sockets]
        /\ \A t \in Sockets, u \in Users :
             t \in W[u] <=>
               t \in userConnections[u] /\ ~(t \in K /\ socketToUser[t] = u)
    BY <1>0 DEF UsersWithout
  <2>2. userConnections' = [W EXCEPT ![owner[s]] = @ \cup {s}]
    BY DEF RegisterConnection
  <2> HIDE DEF W
  <2>3. userConnections' \in [Users -> SUBSET Sockets]
    BY <2>1, <2>2, <1>1
  <2>4. \A u \in Users : userConnections'[u] =
                            IF u = owner[s] THEN W[u] \cup {s} ELSE W[u]
    BY <2>1, <2>2, <1>1
  <2> QED
    BY <2>1, <2>3, <2>4, <1>1
<1>3. socketToUser' =
        [t \in Sockets |-> IF t = s THEN owner[s]
                           ELSE IF t \in K THEN NoUser ELSE socketToUser[t]]
  BY <1>1 DEF RegisterConnection, SocketsWithout
<1>4. deviceConnections' =
        [d \in Devices |-> IF d = device[s] THEN s ELSE deviceConnections[d]]
  BY <1>0 DEF RegisterConnection, DevicesWithout
<1> HIDE DEF K
<1>5. TypeOK'
  BY <1>0, <1>1, <1>2, <1>3, <1>4
<1>6. OwnerKnown'
  BY <1>0, <1>1 DEF OwnerKnown, RegisterConnection
<1>7. EntriesAdmitted'
  BY <1>1, <1>3 DEF EntriesAdmitted
<1>8. DeviceEntryRegistered'
  BY <1>0, <1>1, <1>3, <1>4 DEF DeviceEntryRegistered
<1>9. MapsAgree'
  <2> SUFFICES ASSUME NEW t \in Sockets, NEW u \in Users
               PROVE  /\ t \in userConnections'[u] <=> socketToUser'[t] = u
                      /\ socketToUser'[t] = u => owner'[t] = u
    BY DEF MapsAgree
  <2>1. CASE t = s
    BY <2>1, <1>0, <1>1, <1>2, <1>3 DEF MapsAgree, EntriesAdmitted
  <2>2. CASE t # s /\ t \in K
    BY <2>2, <1>0, <1>1, <1>2, <1>3 DEF MapsAgree
  <2>3. CASE t # s /\ t \notin K
    BY <2>3, <1>0, <1>1, <1>2, <1>3 DEF MapsAgree
  <2> QED
    BY <2>1, <2>2, <2>3
<1>10. LiveOwnsDevice'
  <2> SUFFICES ASSUME NEW t \in admitted', link'[t] = "open"
               PROVE  /\ socketToUser'[t] = owner'[t]
                      /\ device'[t] \in Devices =>
                           deviceConnections'[device'[t]] = t
    BY DEF LiveOwnsDevice
  <2>1. CASE t = s
    BY <2>1, <1>1, <1>3, <1>4
  <2>2. CASE t # s
    <3>1. t \in admitted /\ t \in Sockets /\ t \notin K /\ link[t] = "open"
      BY <2>2, <1>1
    <3>2. device[t] \in Devices => device[t] # device[s]
      BY <2>2, <3>1 DEF LiveOwnsDevice, K, Kicked
    <3> QED
      BY <2>2, <3>1, <3>2, <1>1, <1>3, <1>4 DEF LiveOwnsDevice
  <2> QED
    BY <2>1, <2>2
<1> QED
  BY <1>5, <1>6, <1>7, <1>8, <1>9, <1>10

LEMMA ForceDisconnectUserIInv ==
  ASSUME IInv, NEW u \in Users, ForceDisconnectUser(u)
  PROVE  IInv'
<1> USE DEF IInv, TypeOK, Links
<1> DEFINE G == {s \in userConnections[u] : link[s] = "open"}
<1>0. \A s \in Sockets : s \in userConnections[u] <=> socketToUser[s] = u
  BY DEF MapsAgree
<1>1. /\ admitted' = admitted /\ owner' = owner /\ device' = device
      /\ link' = [s \in Sockets |-> IF socketToUser[s] = u /\ link[s] = "open"
                                    THEN "closed" ELSE link[s]]
  BY <1>0 DEF ForceDisconnectUser, Closed
<1>2. /\ userConnections' \in [Users -> SUBSET Sockets]
      /\ \A v \in Users : userConnections'[v] = IF v = u THEN {}
                                                ELSE userConnections[v]
  <2>1. UsersWithout(G) \in [Users -> SUBSET Sockets]
    BY DEF UsersWithout
  <2>2. userConnections' = [UsersWithout(G) EXCEPT ![u] = {}]
    BY DEF ForceDisconnectUser
  <2>3. \A v \in Users : v # u => UsersWithout(G)[v] = userConnections[v]
    BY <1>0 DEF UsersWithout
  <2> QED
    BY <2>1, <2>2, <2>3
<1>3. socketToUser' = [s \in Sockets |-> IF socketToUser[s] = u THEN NoUser
                                         ELSE socketToUser[s]]
  BY <1>0 DEF ForceDisconnectUser, SocketsWithout
<1>4. deviceConnections' =
        [d \in Devices |-> IF \E s \in Sockets : /\ deviceConnections[d] = s
                                                 /\ socketToUser[s] = u
                           THEN NoSocket ELSE deviceConnections[d]]
  BY <1>0 DEF ForceDisconnectUser, DevicesWithout, DeviceEntryRegistered,
              MapsAgree
<1>5. TypeOK'
  BY <1>1, <1>2, <1>3, <1>4
<1>6. OwnerKnown'
  BY <1>1 DEF OwnerKnown
<1>7. EntriesAdmitted'
  BY <1>1, <1>3 DEF EntriesAdmitted
<1>8. DeviceEntryRegistered'
  BY <1>1, <1>3, <1>4 DEF DeviceEntryRegistered
<1>9. MapsAgree'
  BY <1>1, <1>2, <1>3 DEF MapsAgree
<1>10. LiveOwnsDevice'
  BY <1>1, <1>3, <1>4 DEF LiveOwnsDevice
<1> QED
  BY <1>5, <1>6, <1>7, <1>8, <1>9, <1>10

LEMMA CleanupIInv ==
  ASSUME IInv, Cleanup
  PROVE  IInv'
<1> USE DEF IInv, TypeOK, Links, Cleanup, Closed
<1>1. TypeOK'
  OBVIOUS
<1>2. OwnerKnown'
  BY DEF OwnerKnown
<1>3. EntriesAdmitted' /\ DeviceEntryRegistered' /\ MapsAgree'
  BY DEF EntriesAdmitted, DeviceEntryRegistered, MapsAgree
<1>4. LiveOwnsDevice'
  <2>1. \A s \in admitted : link[s] = "open" =>
          s \in UNION {userConnections[u] : u \in Users}
    BY DEF LiveOwnsDevice, MapsAgree, OwnerKnown
  <2> QED
    BY <2>1 DEF LiveOwnsDevice
<1> QED
  BY <1>1, <1>2, <1>3, <1>4

LEMMA NextIInv == IInv /\ [Next]_vars => IInv'
<1> SUFFICES ASSUME IInv, [Next]_vars
             PROVE  IInv'
  OBVIOUS
<1>1. ASSUME NEW s \in Sockets, NEW u \in Users,
             NEW d \in Devices \cup {NoDevice}, Connect(s, u, d)
      PROVE  IInv'
  BY <1>1, ConnectIInv
<1>2. ASSUME NEW s \in Sockets, RegisterConnection(s)
      PROVE  IInv'
  BY <1>2, RegisterIInv
<1>3. ASSUME NEW s \in Sockets, Disconnect(s)
      PROVE  IInv'
  BY <1>3, DropIInv DEF Disconnect
<1>4. ASSUME NEW u \in Users, ForceDisconnectUser(u)
      PROVE  IInv'
  BY <1>4, ForceDisconnectUserIInv
<1>5. ASSUME NEW d \in Devices, ForceDisconnectDevice(d)
      PROVE  IInv'
  BY <1>5, DropIInv DEF ForceDisconnectDevice
<1>6. CASE Cleanup
  BY <1>6, CleanupIInv
<1>7. CASE UNCHANGED vars
  BY <1>7 DEF vars, IInv, TypeOK, Links, OwnerKnown, EntriesAdmitted,
              DeviceEntryRegistered, MapsAgree, LiveOwnsDevice
<1> QED
  BY <1>1, <1>2, <1>3, <1>4, <1>5, <1>6, <1>7 DEF Next

\* The inductive invariant holds in every reachable state.
THEOREM Invariance == Spec => []IInv
BY InitIInv, NextIInv, PTL DEF Spec

\* Type correctness of the registry.
THEOREM TypeCorrect == Spec => []TypeOK
<1>1. IInv => TypeOK
  BY DEF IInv
<1> QED
  BY Invariance, <1>1, PTL

\* The user map and its reverse map never disagree.
THEOREM MapsAlwaysAgree == Spec => []MapsAgree
<1>1. IInv => MapsAgree
  BY DEF IInv
<1> QED
  BY Invariance, <1>1, PTL

\* Every open connection that was registered holds its device.
THEOREM LiveAlwaysOwnsDevice == Spec => []LiveOwnsDevice
<1>1. IInv => LiveOwnsDevice
  BY DEF IInv
<1> QED
  BY Invariance, <1>1, PTL

----------------------------------------------------------------------------
(* What a step may do to a socket it closes.  The maps agree after the     *)
(* step as well, so it is enough to follow the reverse map.                *)

LEMMA DropUnregisters ==
  ASSUME IInv, NEW S \in SUBSET Sockets, Drop(S),
         NEW s \in Sockets, link[s] = "open", link'[s] = "closed"
  PROVE  socketToUser'[s] = NoUser
BY DEF IInv, TypeOK, EntriesAdmitted, Drop, Closed, SocketsWithout

LEMMA CloseUnregisters ==
  ASSUME IInv, Next, NEW s \in Sockets, link[s] = "open", link'[s] = "closed"
  PROVE  socketToUser'[s] = NoUser
<1> USE DEF IInv, TypeOK
<1>1. ASSUME NEW t \in Sockets, NEW u \in Users,
             NEW d \in Devices \cup {NoDevice}, Connect(t, u, d)
      PROVE  FALSE
  BY <1>1 DEF Connect
<1>2. ASSUME NEW t \in Sockets, RegisterConnection(t)
      PROVE  socketToUser'[s] = NoUser
  <2>1. s \in Kicked(t) /\ s # t
    BY <1>2 DEF RegisterConnection, Closed, Kicked
  <2> QED
    BY <1>2, <2>1 DEF RegisterConnection, SocketsWithout
<1>3. ASSUME NEW t \in Sockets, Disconnect(t)
      PROVE  socketToUser'[s] = NoUser
  BY <1>3, DropUnregisters DEF Disconnect
<1>4. ASSUME NEW u \in Users, ForceDisconnectUser(u)
      PROVE  socketToUser'[s] = NoUser
  BY <1>4 DEF ForceDisconnectUser, Closed, SocketsWithout, MapsAgree
<1>5. ASSUME NEW d \in Devices, ForceDisconnectDevice(d)
      PROVE  socketToUser'[s] = NoUser
  BY <1>5, DropUnregisters DEF ForceDisconnectDevice
<1>6. CASE Cleanup
  BY <1>6 DEF Cleanup
<1> QED
  BY <1>1, <1>2, <1>3, <1>4, <1>5, <1>6 DEF Next

\* However a socket is closed, it is gone from all three maps when the method
\* that closed it returns.
THEOREM ClosingAlwaysUnregisters == Spec => ClosingUnregisters
<1>1. ASSUME IInv, IInv', [Next]_vars
      PROVE  [\A s \in Sockets : link[s] = "open" /\ link'[s] = "closed" =>
                /\ socketToUser'[s] = NoUser
                /\ \A u \in Users : s \notin userConnections'[u]
                /\ \A d \in Devices : deviceConnections'[d] # s]_vars
  <2>1. CASE UNCHANGED vars
    BY <2>1
  <2>2. CASE Next
    <3> SUFFICES ASSUME NEW s \in Sockets,
                        link[s] = "open", link'[s] = "closed"
                 PROVE  /\ socketToUser'[s] = NoUser
                        /\ \A u \in Users : s \notin userConnections'[u]
                        /\ \A d \in Devices : deviceConnections'[d] # s
      OBVIOUS
    <3>1. socketToUser'[s] = NoUser
      BY <1>1, <2>2, CloseUnregisters
    <3>2. \A u \in Users : s \notin userConnections'[u]
      BY <1>1, <3>1 DEF IInv, MapsAgree
    <3>3. \A d \in Devices : deviceConnections'[d] # s
      BY <1>1, <3>1 DEF IInv, DeviceEntryRegistered
    <3> QED
      BY <3>1, <3>2, <3>3
  <2> QED
    BY <1>1, <2>1, <2>2
<1> QED
  BY <1>1, Invariance, PTL DEF Spec, ClosingUnregisters

\* A forced disconnection of a user is complete and touches nobody else.
THEOREM ForceDisconnectAlwaysComplete == Spec => ForceDisconnectComplete
<1>1. ASSUME IInv, NEW u \in Users, ForceDisconnectUser(u)
      PROVE  /\ \A s \in admitted : owner[s] = u => link'[s] = "closed"
             /\ \A s \in Sockets : owner[s] # u => link'[s] = link[s]
             /\ \A d \in Devices, s \in Sockets :
                  deviceConnections'[d] = s => owner[s] # u
  <2> USE DEF IInv, TypeOK
  <2>1. \A s \in Sockets : s \in userConnections[u] => owner[s] = u
    BY <1>1 DEF MapsAgree
  <2>2. \A s \in admitted : link[s] = "open" /\ owner[s] = u =>
                              s \in userConnections[u]
    BY <1>1 DEF MapsAgree, LiveOwnsDevice
  <2>3. \A s \in admitted : link[s] # "new"
    BY <1>1 DEF OwnerKnown
  <2>4. link' = Closed({s \in userConnections[u] : link[s] = "open"})
    BY <1>1 DEF ForceDisconnectUser
  <2>5. \A s \in admitted : owner[s] = u => link'[s] = "closed"
    BY <1>1, <2>2, <2>3, <2>4 DEF Closed, Links
  <2>6. \A s \in Sockets : owner[s] # u => link'[s] = link[s]
    BY <1>1, <2>1, <2>4 DEF Closed
  <2>7. \A d \in Devices, s \in Sockets :
          deviceConnections'[d] = s => owner[s] # u
    BY <1>1 DEF ForceDisconnectUser, DevicesWithout
  <2> QED
    BY <2>5, <2>6, <2>7
<1>2. ASSUME IInv, [Next]_vars
      PROVE  [\A u \in Users : ForceDisconnectUser(u) =>
                /\ \A s \in admitted : owner[s] = u => link'[s] = "closed"
                /\ \A s \in Sockets : owner[s] # u => link'[s] = link[s]
                /\ \A d \in Devices, s \in Sockets :
                     deviceConnections'[d] = s => owner[s] # u]_vars
  BY <1>1, <1>2
<1> QED
  BY <1>2, Invariance, PTL DEF Spec, ForceDisconnectComplete

(***************************************************************************)
(* The gateway                                                             *)
(***************************************************************************)

\* Initially the registry is in its initial state.
LEMMA InitRefines == GatewayInit => Init
  BY DEF GatewayInit

\* Every step is a step of the registry or leaves it alone.
LEMMA StepRefines == [GatewayNext]_gatewayVars => [Next]_vars
<1> SUFFICES ASSUME [GatewayNext]_gatewayVars PROVE [Next]_vars
  OBVIOUS
<1>1. CASE UNCHANGED vars
  BY <1>1 DEF vars
<1>2. ASSUME NEW s \in Sockets, NEW u \in Users, NEW d \in Devices \cup {NoDevice},
             HandleConnection(s, u, d)
      PROVE  Next
  BY <1>2 DEF HandleConnection, Next
<1>3. ASSUME NEW s \in Sockets, CloseIfOpen(s)
      PROVE  [Next]_vars
  BY <1>3 DEF CloseIfOpen, vars, Next
<1>4. ASSUME NEW s \in Sockets, Admit(s) \/ HandleDisconnect(s)
      PROVE  Next
  BY <1>4 DEF Admit, HandleDisconnect, Next
<1>5. CASE ForcedClose
  BY <1>5 DEF ForcedClose, Next
<1>6. QED
  BY <1>1, <1>2, <1>3, <1>4, <1>5
     DEF GatewayNext, gatewayVars, TokenAccepted, UserAccepted, UserUnchecked, UserLoaded,
         HandshakeRejected, Establish, SessionFailed, SetBan, SetBlacklist

----------------------------------------------------------------------------
(* The checks of a handshake                                               *)

Bars == {"ban", "blacklist"}

\* What a handshake has passed no longer bars it, and what bars it still holds.
BarInv ==
  /\ pc \in [Sockets -> Steps]
  /\ barred \in [Sockets -> SUBSET Bars]
  /\ \A s \in Sockets : pc[s] # "idle" =>
       /\ "ban" \in barred[s] => owner[s] \in banned
       /\ "blacklist" \in barred[s] => owner[s] \in blacklisted
  /\ \A s \in Sockets : pc[s] \in {"lookup", "found"} => "blacklist" \notin barred[s]
  /\ \A s \in Sockets : pc[s] = "found" => "ban" \notin barred[s]
  /\ owner \in [Sockets -> Users \cup {NoUser}]

\* The registry's operations leave the tokens alone, and only a registration
\* admits.
LEMMA ClosingKeepsOwner ==
  /\ \A s \in Sockets : CloseIfOpen(s) => UNCHANGED <<owner, admitted>>
  /\ \A s \in Sockets : Disconnect(s) => UNCHANGED <<owner, admitted>>
  /\ \A s \in Sockets : RegisterConnection(s) =>
       UNCHANGED owner /\ admitted' = admitted \cup {s}
  /\ ForcedClose => UNCHANGED <<owner, admitted>>
  BY DEF CloseIfOpen, vars, ForcedClose, Disconnect, Drop,
         RegisterConnection, ForceDisconnectUser, ForceDisconnectDevice,
         Cleanup

\* Initially no handshake is in progress.
LEMMA InitBarInv == GatewayInit => BarInv
  BY DEF GatewayInit, BarInv, Init, Steps, Bars

\* Every step keeps the checks that were passed.
LEMMA NextBarInv == BarInv /\ [GatewayNext]_gatewayVars => BarInv'
<1> SUFFICES ASSUME BarInv, [GatewayNext]_gatewayVars PROVE BarInv'
  OBVIOUS
<1>1. CASE UNCHANGED gatewayVars
  BY <1>1 DEF gatewayVars, vars, rules, BarInv
<1>2. ASSUME NEW s \in Sockets, NEW u \in Users, NEW d \in Devices \cup {NoDevice},
             HandleConnection(s, u, d)
      PROVE  BarInv'
  <2>1. /\ \A t \in Sockets : owner'[t] = IF t = s THEN u ELSE owner[t]
        /\ owner' \in [Sockets -> Users \cup {NoUser}]
    BY <1>2 DEF HandleConnection, Connect, BarInv
  <2>2. /\ \A t \in Sockets : pc'[t] = IF t = s THEN "token" ELSE pc[t]
        /\ pc' \in [Sockets -> Steps]
    BY <1>2 DEF HandleConnection, Await, BarInv, Steps
  <2>3. /\ \A t \in Sockets : t # s => barred'[t] = barred[t]
        /\ barred' \in [Sockets -> SUBSET Bars]
        /\ "ban" \in barred'[s] => u \in banned
        /\ "blacklist" \in barred'[s] => u \in blacklisted
    BY <1>2 DEF HandleConnection, BarInv, Bars
  <2>4. UNCHANGED <<banned, blacklisted>>
    BY <1>2 DEF HandleConnection
  <2>5. QED
    BY <2>1, <2>2, <2>3, <2>4 DEF BarInv
<1>3. ASSUME NEW s \in Sockets,
             TokenAccepted(s) \/ UserAccepted(s) \/ UserLoaded(s) \/ Establish(s)
      PROVE  BarInv'
  BY <1>3 DEF TokenAccepted, UserAccepted, UserLoaded, Establish, Await, vars, rules,
              BarInv, Steps
<1>4. ASSUME NEW s \in Sockets, UserUnchecked(s)
      PROVE  BarInv'
  BY <1>4 DEF UserUnchecked, Await, vars, BarInv, Steps, Bars
<1>5. ASSUME NEW s \in Sockets, HandshakeRejected(s) \/ SessionFailed(s)
      PROVE  BarInv'
  <2>1. UNCHANGED <<owner, rules>>
    BY <1>5, ClosingKeepsOwner DEF HandshakeRejected, SessionFailed
  <2>2. pc' = [pc EXCEPT ![s] = "rejected"]
    BY <1>5 DEF HandshakeRejected, SessionFailed, Await
  <2>3. pc[s] # "idle"
    BY <1>5 DEF HandshakeRejected, SessionFailed, Await
  <2>4. QED
    BY <2>1, <2>2, <2>3 DEF rules, BarInv, Steps
<1>6. ASSUME NEW s \in Sockets, Admit(s)
      PROVE  BarInv'
  <2>1. UNCHANGED <<owner, rules>>
    BY <1>6, ClosingKeepsOwner DEF Admit
  <2>2. pc[s] = "found" /\ pc' = [pc EXCEPT ![s] = "creating"]
    BY <1>6 DEF Admit, Await
  <2>3. QED
    BY <2>1, <2>2 DEF rules, BarInv, Steps
<1>7. ASSUME NEW s \in Sockets, HandleDisconnect(s)
      PROVE  BarInv'
  BY <1>7, ClosingKeepsOwner DEF HandleDisconnect, rules, BarInv
<1>8. ASSUME NEW u \in Users, SetBan(u)
      PROVE  BarInv'
  <2>1. /\ \A t \in Sockets : owner[t] # u => barred'[t] = barred[t]
        /\ \A t \in Sockets : owner[t] = u => barred'[t] = barred[t] \ {"ban"}
        /\ barred' \in [Sockets -> SUBSET Bars]
    BY <1>8 DEF SetBan, BarInv
  <2>2. \A v \in Users : v # u => (v \in banned' <=> v \in banned)
    BY <1>8 DEF SetBan
  <2>3. \A t \in Sockets : "ban" \in barred'[t] =>
          owner[t] # u /\ "ban" \in barred[t]
    BY <2>1
  <2>4. \A t \in Sockets : "blacklist" \in barred'[t] => "blacklist" \in barred[t]
    BY <2>1
  <2>5. UNCHANGED <<owner, pc, blacklisted>>
    BY <1>8 DEF SetBan, vars
  <2>6. \A v : v # u => (v \in banned => v \in banned')
    BY <1>8 DEF SetBan
  <2>7. QED
    BY <2>1, <2>3, <2>4, <2>5, <2>6 DEF BarInv
<1>9. ASSUME NEW u \in Users, SetBlacklist(u)
      PROVE  BarInv'
  <2>1. /\ \A t \in Sockets : owner[t] # u => barred'[t] = barred[t]
        /\ \A t \in Sockets : owner[t] = u => barred'[t] = barred[t] \ {"blacklist"}
        /\ barred' \in [Sockets -> SUBSET Bars]
    BY <1>9 DEF SetBlacklist, BarInv
  <2>2. \A v : v # u => (v \in blacklisted => v \in blacklisted')
    BY <1>9 DEF SetBlacklist
  <2>3. \A t \in Sockets : "blacklist" \in barred'[t] =>
          owner[t] # u /\ "blacklist" \in barred[t]
    BY <2>1
  <2>4. \A t \in Sockets : "ban" \in barred'[t] => "ban" \in barred[t]
    BY <2>1
  <2>5. UNCHANGED <<owner, pc, banned>>
    BY <1>9 DEF SetBlacklist, vars
  <2>6. QED
    BY <2>1, <2>2, <2>3, <2>4, <2>5 DEF BarInv
<1>10. CASE ForcedClose
  <2>1. UNCHANGED <<owner, pc, rules>>
    BY <1>10, ClosingKeepsOwner DEF ForcedClose
  <2>2. QED
    BY <2>1 DEF rules, BarInv
<1>11. QED
  BY <1>1, <1>2, <1>3, <1>4, <1>5, <1>6, <1>7, <1>8, <1>9, <1>10 DEF GatewayNext

\* A user who was banned or blacklisted from before the handshake on is not
\* registered, unless the blacklist could not be read.
THEOREM BarredStayOut == GatewaySpec => BarredNeverAdmitted
<1>1. BarInv /\ [GatewayNext]_gatewayVars => [\A s \in admitted' \ admitted : barred[s] = {}]_gatewayVars
  <2> SUFFICES ASSUME BarInv, GatewayNext PROVE \A s \in admitted' \ admitted : barred[s] = {}
    OBVIOUS
  <2>1. ASSUME NEW s \in Sockets, Admit(s)
        PROVE  \A t \in admitted' \ admitted : barred[t] = {}
    <3>1. admitted' = admitted \cup {s} /\ pc[s] = "found"
      BY <2>1, ClosingKeepsOwner DEF Admit, Await
    <3>2. barred[s] = {}
      BY <3>1 DEF BarInv, Bars
    <3>3. QED
      BY <3>1, <3>2
  <2>2. ASSUME UNCHANGED admitted
        PROVE  \A t \in admitted' \ admitted : barred[t] = {}
    BY <2>2
  <2>3. ASSUME NEW s \in Sockets, HandshakeRejected(s) \/ SessionFailed(s)
                                   \/ HandleDisconnect(s)
        PROVE  UNCHANGED admitted
    BY <2>3, ClosingKeepsOwner DEF HandshakeRejected, SessionFailed, HandleDisconnect
  <2>4. CASE ForcedClose
    BY <2>2, <2>4, ClosingKeepsOwner
  <2>5. QED
    BY <2>1, <2>2, <2>3, <2>4
       DEF GatewayNext, HandleConnection, Connect, TokenAccepted, UserAccepted,
           UserUnchecked, UserLoaded, Establish, SetBan, SetBlacklist, vars
<1>2. QED
  BY InitBarInv, NextBarInv, <1>1, PTL DEF GatewaySpec, BarredNeverAdmitted

----------------------------------------------------------------------------
(* How far a handshake is, and what the registry holds of its socket       *)

\* The handshake's own part of GatewayTypeOK, which is inductive by itself.
StepInv ==
  /\ pc \in [Sockets -> Steps]
  /\ banned \in SUBSET Users
  /\ blacklisted \in SUBSET Users
  /\ barred \in [Sockets -> SUBSET Bars]
  /\ \A s \in Sockets :
       /\ pc[s] \in {"creating", "established"} => s \in admitted
       /\ s \in admitted => pc[s] \in {"creating", "established", "rejected"}

\* Initially every socket is idle and none is admitted.
LEMMA InitStepInv == GatewayInit => StepInv
  BY DEF GatewayInit, Init, StepInv, Steps, Bars

\* A step of one handshake that admits nobody, to a place where it may be.
LEMMA AwaitStepInv ==
  ASSUME StepInv, NEW s \in Sockets, NEW from, NEW to \in Steps,
         Await(s, from, to), UNCHANGED <<admitted, banned, blacklisted>>,
         barred' \in [Sockets -> SUBSET Bars],
         from \in {"idle", "token", "user", "lookup"} => to \notin {"creating", "established"},
         from \in {"creating", "established"} => to \in {"established", "rejected"},
         from # "found", from # "rejected"
  PROVE  StepInv'
<1>1. pc[s] = from /\ pc' = [pc EXCEPT ![s] = to]
  BY DEF Await
<1>2. pc' \in [Sockets -> Steps]
  BY <1>1 DEF StepInv
<1>3. \A t \in Sockets :
        /\ pc'[t] \in {"creating", "established"} => t \in admitted
        /\ t \in admitted => pc'[t] \in {"creating", "established", "rejected"}
  BY <1>1 DEF StepInv, Steps
<1>4. QED
  BY <1>2, <1>3 DEF StepInv

\* Every step keeps it.
LEMMA NextStepInv == StepInv /\ [GatewayNext]_gatewayVars => StepInv'
<1> SUFFICES ASSUME StepInv, [GatewayNext]_gatewayVars PROVE StepInv'
  OBVIOUS
<1>1. CASE UNCHANGED gatewayVars
  BY <1>1 DEF gatewayVars, vars, rules, StepInv
<1>2. ASSUME NEW s \in Sockets, NEW u \in Users, NEW d \in Devices \cup {NoDevice},
             HandleConnection(s, u, d)
      PROVE  StepInv'
  <2>1. Await(s, "idle", "token") /\ UNCHANGED <<admitted, banned, blacklisted>>
    BY <1>2 DEF HandleConnection, Connect
  <2>2. barred' \in [Sockets -> SUBSET Bars]
    BY <1>2 DEF HandleConnection, StepInv, Bars
  <2>3. QED
    BY <2>1, <2>2, AwaitStepInv DEF Steps
<1>3. ASSUME NEW s \in Sockets,
             TokenAccepted(s) \/ UserAccepted(s) \/ UserUnchecked(s) \/ UserLoaded(s)
               \/ Establish(s)
      PROVE  StepInv'
  <2>1. UNCHANGED <<admitted, banned, blacklisted>> /\ barred' \in [Sockets -> SUBSET Bars]
    BY <1>3 DEF TokenAccepted, UserAccepted, UserUnchecked, UserLoaded, Establish, vars,
                rules, StepInv
  <2>2. \/ Await(s, "token", "user") \/ Await(s, "user", "lookup")
        \/ Await(s, "lookup", "found") \/ Await(s, "creating", "established")
    BY <1>3 DEF TokenAccepted, UserAccepted, UserUnchecked, UserLoaded, Establish
  <2>3. QED
    BY <2>1, <2>2, AwaitStepInv DEF Steps
<1>4. ASSUME NEW s \in Sockets, HandshakeRejected(s) \/ SessionFailed(s)
      PROVE  StepInv'
  <2>1. UNCHANGED <<admitted, banned, blacklisted, barred>>
    BY <1>4, ClosingKeepsOwner DEF HandshakeRejected, SessionFailed, rules
  <2>2. barred' \in [Sockets -> SUBSET Bars]
    BY <2>1 DEF StepInv
  <2>3. \/ Await(s, "token", "rejected") \/ Await(s, "user", "rejected")
        \/ Await(s, "lookup", "rejected") \/ Await(s, "creating", "rejected")
    BY <1>4 DEF HandshakeRejected, SessionFailed
  <2>4. QED
    BY <2>1, <2>2, <2>3, AwaitStepInv DEF Steps
<1>5. ASSUME NEW s \in Sockets, Admit(s)
      PROVE  StepInv'
  <2>1. admitted' = admitted \cup {s} /\ UNCHANGED rules
    BY <1>5, ClosingKeepsOwner DEF Admit
  <2>2. pc' = [pc EXCEPT ![s] = "creating"]
    BY <1>5 DEF Admit, Await
  <2>3. QED
    BY <2>1, <2>2 DEF StepInv, Steps, rules
<1>6. ASSUME NEW s \in Sockets, HandleDisconnect(s)
      PROVE  StepInv'
  BY <1>6, ClosingKeepsOwner DEF HandleDisconnect, rules, StepInv
<1>7. ASSUME NEW u \in Users, SetBan(u) \/ SetBlacklist(u)
      PROVE  StepInv'
  <2>1. banned' \in SUBSET Users /\ blacklisted' \in SUBSET Users
    BY <1>7 DEF SetBan, SetBlacklist, StepInv
  <2>2. barred' \in [Sockets -> SUBSET Bars]
    BY <1>7 DEF SetBan, SetBlacklist, StepInv
  <2>3. UNCHANGED <<pc, admitted>>
    BY <1>7 DEF SetBan, SetBlacklist, vars
  <2>4. QED
    BY <2>1, <2>2, <2>3 DEF StepInv
<1>8. CASE ForcedClose
  BY <1>8, ClosingKeepsOwner DEF ForcedClose, rules, StepInv
<1>9. QED
  BY <1>1, <1>2, <1>3, <1>4, <1>5, <1>6, <1>7, <1>8 DEF GatewayNext

\* Both invariants hold of the gateway: the registry's, because the gateway
\* implements it, and the handshake's.
THEOREM GatewayInvariance == GatewaySpec => [](IInv /\ StepInv)
<1>1. GatewayInit => IInv /\ StepInv
  BY InitRefines, InitIInv, InitStepInv
<1>2. IInv /\ StepInv /\ [GatewayNext]_gatewayVars => (IInv /\ StepInv)'
  BY StepRefines, NextIInv, NextStepInv
<1>3. QED
  BY <1>1, <1>2, PTL DEF GatewaySpec

\* Type correctness of the gateway; in particular socket.data.user is set on
\* exactly the handshakes that got as far as createSession.
THEOREM GatewayTypeCorrect == GatewaySpec => []GatewayTypeOK
<1>1. IInv /\ StepInv => GatewayTypeOK
  BY DEF IInv, StepInv, GatewayTypeOK, Bars
<1>2. QED
  BY GatewayInvariance, <1>1, PTL

\* Whatever was disconnected in the meantime, an announced connection that is
\* open is found by its user and by its device.
THEOREM AnnouncedAlwaysReachable == GatewaySpec => []AnnouncedReachable
<1>1. ASSUME IInv, StepInv, NEW s \in Sockets,
             pc[s] = "established", link[s] = "open"
      PROVE  /\ s \in userConnections[owner[s]]
             /\ device[s] # NoDevice => deviceConnections[device[s]] = s
  <2>1. s \in admitted
    BY <1>1 DEF StepInv
  <2>2. owner[s] \in Users /\ device[s] \in Devices \cup {NoDevice}
    BY <1>1 DEF IInv, OwnerKnown, TypeOK
  <2>3. /\ socketToUser[s] = owner[s]
        /\ device[s] \in Devices => deviceConnections[device[s]] = s
    BY <1>1, <2>1 DEF IInv, LiveOwnsDevice
  <2>4. s \in userConnections[owner[s]]
    BY <1>1, <2>2, <2>3 DEF IInv, MapsAgree
  <2>5. QED
    BY <2>2, <2>3, <2>4
<1>2. IInv /\ StepInv => AnnouncedReachable
  BY <1>1 DEF AnnouncedReachable
<1>3. QED
  BY GatewayInvariance, <1>2, PTL
=============================================================================
