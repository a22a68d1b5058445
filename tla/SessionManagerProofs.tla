------------------------ MODULE SessionManagerProofs ------------------------
(***************************************************************************)
(* TLAPS proofs about SessionManager, for any number of sessions, users    *)
(* and devices, and any interleaving of the Redis commands of their calls. *)
(***************************************************************************)
EXTENDS SessionManager, TLAPS

USE SessionAssumption

\* Nothing is known of a session before createSession has stored it, and its
\* body is known from then on.
StartedInv ==
  \A i \in Sessions :
    /\ creating[i] = "idle" =>
         /\ i \notin stored \cup touching \cup purge.snapshot
         /\ removing[i] = "idle"
         /\ \A u \in SessionUsers : i \notin userSessions[u]
    /\ creating[i] \in {"stored", "listed", "done"} => body[i] \in Body

\* invalidateSession has deleted the key: if it is there, it was written back.
RemovalInv ==
  \A i \in Sessions :
    removing[i] \in {"deleted", "unlisted"} /\ i \in stored => i \in revived

\* So has invalidateUserSessions with what its loop has passed; and it works
\* on the set of one user.
PurgeInv ==
  /\ purge.todo \subseteq purge.snapshot
  /\ purge.step = "emit" => purge.todo = {}
  /\ purge.step # "idle" => purge.user \in SessionUsers
  /\ purge.step \in {"found", "deleted"} => purge.cur \in Sessions
  /\ purge.step # "idle" =>
       \A i \in purge.snapshot \ purge.todo :
         i \in stored => \/ i \in revived
                         \/ purge.step = "found" /\ purge.cur = i

\* LostOnlyToRaces is not inductive: a session is unlisted by calls that have
\* deleted its key before, which the last two parts remember.
SessionIInv ==
  /\ SessionTypeOK
  /\ StartedInv
  /\ RemovalInv
  /\ PurgeInv
  /\ LostOnlyToRaces

\* Every command keeps the types.
LEMMA NextTyped ==
  ASSUME SessionIInv, SessionNext
  PROVE  SessionTypeOK'
<1> USE DEF SessionIInv, redisVars, history
<1>1. ASSUME NEW i \in Sessions, NEW u \in SessionUsers, NEW d \in SessionDevices,
             StoreSession(i, u, d)
      PROVE  SessionTypeOK'
  BY <1>1 DEF StoreSession, SessionTypeOK, StartedInv, PurgeInv, Body,
     CreateSteps, RemoveSteps, PurgeSteps, NoPurge
<1>2. ASSUME NEW i \in Sessions,
             ListSession(i) \/ MapDevice(i) \/ FailCreate(i)
      PROVE  SessionTypeOK'
  BY <1>2 DEF ListSession, MapDevice, FailCreate, SessionTypeOK, StartedInv,
     PurgeInv, Body, CreateSteps, RemoveSteps, PurgeSteps, NoPurge
<1>3. ASSUME NEW i \in Sessions,
             ReadActivity(i) \/ WriteActivity(i) \/ FailActivity(i)
      PROVE  SessionTypeOK'
  BY <1>3 DEF ReadActivity, WriteActivity, FailActivity, SessionTypeOK,
     StartedInv, PurgeInv, Body, CreateSteps, RemoveSteps, PurgeSteps, NoPurge
<1>4. ASSUME NEW i \in Sessions,
             FindSession(i) \/ DeleteSession(i) \/ UnlistSession(i)
             \/ UnmapSession(i) \/ FailRemove(i)
      PROVE  SessionTypeOK'
  BY <1>4 DEF FindSession, DeleteSession, UnlistSession, UnmapSession,
     FailRemove, SessionTypeOK, StartedInv, PurgeInv, Body, CreateSteps,
     RemoveSteps, PurgeSteps, NoPurge
<1>5. ASSUME NEW u \in SessionUsers,
             PurgeStart(u)
      PROVE  SessionTypeOK'
  BY <1>5 DEF PurgeStart, SessionTypeOK, StartedInv, PurgeInv, Body,
     CreateSteps, RemoveSteps, PurgeSteps, NoPurge
<1>6. ASSUME NEW i \in Sessions,
             PurgeGet(i)
      PROVE  SessionTypeOK'
  BY <1>6 DEF PurgeGet, SessionTypeOK, StartedInv, PurgeInv, Body, CreateSteps,
     RemoveSteps, PurgeSteps, NoPurge
<1>7. CASE PurgeDelete \/ PurgeUnmap \/ PurgeEmit \/ PurgeFail
  <2>1. CASE PurgeDelete
    BY <2>1 DEF PurgeDelete, SessionTypeOK, StartedInv, PurgeInv, Body,
       CreateSteps, RemoveSteps, PurgeSteps, NoPurge
  <2>2. CASE PurgeUnmap
    BY <2>2 DEF PurgeUnmap, SessionTypeOK, StartedInv, PurgeInv, Body,
       CreateSteps, RemoveSteps, PurgeSteps, NoPurge
  <2>3. CASE PurgeEmit
    BY <2>3 DEF PurgeEmit, SessionTypeOK, StartedInv, PurgeInv, Body,
       CreateSteps, RemoveSteps, PurgeSteps, NoPurge
  <2>4. CASE PurgeFail
    BY <2>4 DEF PurgeFail, SessionTypeOK, StartedInv, PurgeInv, Body,
       CreateSteps, RemoveSteps, PurgeSteps, NoPurge
  <2>5. QED
    BY <1>7, <2>1, <2>2, <2>3, <2>4
<1>8. CASE PurgeClear
  <2>1. /\ purge' = [purge EXCEPT !.step = "emit"]
        /\ userSessions' = [userSessions EXCEPT ![purge.user] = {}]
        /\ missed' = missed \cup (userSessions[purge.user] \ purge.snapshot)
        /\ UNCHANGED <<body, creating, stored, deviceSession, touching, removing, revived>>
    BY <1>8 DEF PurgeClear
  <2>2. purge.user \in SessionUsers
    BY <1>8 DEF PurgeClear, PurgeInv
  <2>3. QED
    BY <2>1, <2>2 DEF SessionTypeOK, PurgeSteps
<1>9. ASSUME NEW i \in Sessions,
             ExpireSession(i)
      PROVE  SessionTypeOK'
  BY <1>9 DEF ExpireSession, SessionTypeOK, StartedInv, PurgeInv, Body,
     CreateSteps, RemoveSteps, PurgeSteps, NoPurge
<1>10. ASSUME NEW d \in SessionDevices,
             ExpireDevice(d)
      PROVE  SessionTypeOK'
  BY <1>10 DEF ExpireDevice, SessionTypeOK, StartedInv, PurgeInv, Body,
     CreateSteps, RemoveSteps, PurgeSteps, NoPurge
<1>11. QED
  BY <1>1, <1>2, <1>3, <1>4, <1>5, <1>6, <1>7, <1>8, <1>9, <1>10 DEF SessionNext

\* Every command leaves alone what createSession has not stored yet.
LEMMA NextStarted ==
  ASSUME SessionIInv, SessionNext
  PROVE  StartedInv'
<1> USE DEF SessionIInv, redisVars, history
<1>1. ASSUME NEW i \in Sessions, NEW u \in SessionUsers, NEW d \in SessionDevices,
             StoreSession(i, u, d)
      PROVE  StartedInv'
  BY <1>1 DEF StoreSession, SessionTypeOK, StartedInv, Body, NoPurge
<1>2. ASSUME NEW i \in Sessions,
             ListSession(i) \/ MapDevice(i) \/ FailCreate(i)
      PROVE  StartedInv'
  BY <1>2 DEF ListSession, MapDevice, FailCreate, SessionTypeOK, StartedInv,
     Body, NoPurge
<1>3. ASSUME NEW i \in Sessions,
             ReadActivity(i) \/ WriteActivity(i) \/ FailActivity(i)
      PROVE  StartedInv'
  BY <1>3 DEF ReadActivity, WriteActivity, FailActivity, SessionTypeOK,
     StartedInv, Body, NoPurge
<1>4. ASSUME NEW i \in Sessions,
             FindSession(i) \/ DeleteSession(i) \/ UnlistSession(i)
             \/ UnmapSession(i) \/ FailRemove(i)
      PROVE  StartedInv'
  BY <1>4 DEF FindSession, DeleteSession, UnlistSession, UnmapSession,
     FailRemove, SessionTypeOK, StartedInv, Body, NoPurge
<1>5. ASSUME NEW u \in SessionUsers,
             PurgeStart(u)
      PROVE  StartedInv'
  BY <1>5 DEF PurgeStart, SessionTypeOK, StartedInv, Body, NoPurge
<1>6. ASSUME NEW i \in Sessions,
             PurgeGet(i)
      PROVE  StartedInv'
  BY <1>6 DEF PurgeGet, SessionTypeOK, StartedInv, Body, NoPurge
<1>7. CASE PurgeDelete \/ PurgeUnmap \/ PurgeEmit \/ PurgeFail
  <2>1. CASE PurgeDelete
    BY <2>1 DEF PurgeDelete, SessionTypeOK, StartedInv, Body, NoPurge
  <2>2. CASE PurgeUnmap
    BY <2>2 DEF PurgeUnmap, SessionTypeOK, StartedInv, Body, NoPurge
  <2>3. CASE PurgeEmit
    BY <2>3 DEF PurgeEmit, SessionTypeOK, StartedInv, Body, NoPurge
  <2>4. CASE PurgeFail
    BY <2>4 DEF PurgeFail, SessionTypeOK, StartedInv, Body, NoPurge
  <2>5. QED
    BY <1>7, <2>1, <2>2, <2>3, <2>4
<1>8. CASE PurgeClear
  BY <1>8 DEF PurgeClear, SessionTypeOK, StartedInv, Body, NoPurge
<1>9. ASSUME NEW i \in Sessions,
             ExpireSession(i)
      PROVE  StartedInv'
  BY <1>9 DEF ExpireSession, SessionTypeOK, StartedInv, Body, NoPurge
<1>10. ASSUME NEW d \in SessionDevices,
             ExpireDevice(d)
      PROVE  StartedInv'
  BY <1>10 DEF ExpireDevice, SessionTypeOK, StartedInv, Body, NoPurge
<1>11. QED
  BY <1>1, <1>2, <1>3, <1>4, <1>5, <1>6, <1>7, <1>8, <1>9, <1>10 DEF SessionNext

\* A key that invalidateSession deleted comes back by updateSessionActivity only.
LEMMA NextRemoval ==
  ASSUME SessionIInv, SessionNext
  PROVE  RemovalInv'
<1> USE DEF SessionIInv, redisVars, history
<1>1. ASSUME NEW i \in Sessions, NEW u \in SessionUsers, NEW d \in SessionDevices,
             StoreSession(i, u, d)
      PROVE  RemovalInv'
  BY <1>1 DEF StoreSession, SessionTypeOK, StartedInv, RemovalInv, RemoveSteps
<1>2. ASSUME NEW i \in Sessions,
             ListSession(i) \/ MapDevice(i) \/ FailCreate(i)
      PROVE  RemovalInv'
  BY <1>2 DEF ListSession, MapDevice, FailCreate, SessionTypeOK, StartedInv,
     RemovalInv, RemoveSteps
<1>3. ASSUME NEW i \in Sessions,
             ReadActivity(i) \/ WriteActivity(i) \/ FailActivity(i)
      PROVE  RemovalInv'
  BY <1>3 DEF ReadActivity, WriteActivity, FailActivity, SessionTypeOK,
     StartedInv, RemovalInv, RemoveSteps
<1>4. ASSUME NEW i \in Sessions,
             FindSession(i) \/ DeleteSession(i) \/ UnlistSession(i)
             \/ UnmapSession(i) \/ FailRemove(i)
      PROVE  RemovalInv'
  <2>1. CASE FindSession(i)
    BY <2>1 DEF FindSession, SessionTypeOK, StartedInv, RemovalInv, RemoveSteps
  <2>2. CASE DeleteSession(i)
    BY <2>2 DEF DeleteSession, SessionTypeOK, StartedInv, RemovalInv,
       RemoveSteps
  <2>3. CASE UnlistSession(i)
    BY <2>3 DEF UnlistSession, SessionTypeOK, StartedInv, RemovalInv,
       RemoveSteps
  <2>4. CASE UnmapSession(i)
    BY <2>4 DEF UnmapSession, SessionTypeOK, StartedInv, RemovalInv,
       RemoveSteps
  <2>5. CASE FailRemove(i)
    BY <2>5 DEF FailRemove, SessionTypeOK, StartedInv, RemovalInv, RemoveSteps
  <2>6. QED
    BY <1>4, <2>1, <2>2, <2>3, <2>4, <2>5
<1>5. ASSUME NEW u \in SessionUsers,
             PurgeStart(u)
      PROVE  RemovalInv'
  BY <1>5 DEF PurgeStart, SessionTypeOK, StartedInv, RemovalInv, RemoveSteps
<1>6. ASSUME NEW i \in Sessions,
             PurgeGet(i)
      PROVE  RemovalInv'
  BY <1>6 DEF PurgeGet, SessionTypeOK, StartedInv, RemovalInv, RemoveSteps
<1>7. CASE PurgeDelete \/ PurgeUnmap \/ PurgeEmit \/ PurgeFail
  BY <1>7 DEF PurgeDelete, PurgeUnmap, PurgeEmit, PurgeFail, SessionTypeOK,
     StartedInv, RemovalInv, RemoveSteps
<1>8. CASE PurgeClear
  BY <1>8 DEF PurgeClear, SessionTypeOK, StartedInv, RemovalInv, RemoveSteps
<1>9. ASSUME NEW i \in Sessions,
             ExpireSession(i)
      PROVE  RemovalInv'
  BY <1>9 DEF ExpireSession, SessionTypeOK, StartedInv, RemovalInv, RemoveSteps
<1>10. ASSUME NEW d \in SessionDevices,
             ExpireDevice(d)
      PROVE  RemovalInv'
  BY <1>10 DEF ExpireDevice, SessionTypeOK, StartedInv, RemovalInv, RemoveSteps
<1>11. QED
  BY <1>1, <1>2, <1>3, <1>4, <1>5, <1>6, <1>7, <1>8, <1>9, <1>10 DEF SessionNext

\* So does a key that the loop of invalidateUserSessions has passed.
LEMMA NextPurge ==
  ASSUME SessionIInv, SessionNext
  PROVE  PurgeInv'
<1> USE DEF SessionIInv, redisVars, history
<1>1. ASSUME NEW i \in Sessions, NEW u \in SessionUsers, NEW d \in SessionDevices,
             StoreSession(i, u, d)
      PROVE  PurgeInv'
  BY <1>1 DEF StoreSession, SessionTypeOK, StartedInv, PurgeInv, NoPurge
<1>2. ASSUME NEW i \in Sessions,
             ListSession(i) \/ MapDevice(i) \/ FailCreate(i)
      PROVE  PurgeInv'
  BY <1>2 DEF ListSession, MapDevice, FailCreate, SessionTypeOK, StartedInv,
     PurgeInv, NoPurge
<1>3. ASSUME NEW i \in Sessions,
             ReadActivity(i) \/ WriteActivity(i) \/ FailActivity(i)
      PROVE  PurgeInv'
  BY <1>3 DEF ReadActivity, WriteActivity, FailActivity, SessionTypeOK,
     StartedInv, PurgeInv, NoPurge
<1>4. ASSUME NEW i \in Sessions,
             FindSession(i) \/ DeleteSession(i) \/ UnlistSession(i)
             \/ UnmapSession(i) \/ FailRemove(i)
      PROVE  PurgeInv'
  BY <1>4 DEF FindSession, DeleteSession, UnlistSession, UnmapSession,
     FailRemove, SessionTypeOK, StartedInv, PurgeInv, NoPurge
<1>5. ASSUME NEW u \in SessionUsers,
             PurgeStart(u)
      PROVE  PurgeInv'
  BY <1>5 DEF PurgeStart, SessionTypeOK, StartedInv, PurgeInv, NoPurge
<1>6. ASSUME NEW i \in Sessions,
             PurgeGet(i)
      PROVE  PurgeInv'
  BY <1>6 DEF PurgeGet, SessionTypeOK, StartedInv, PurgeInv, NoPurge
<1>7. CASE PurgeDelete \/ PurgeUnmap \/ PurgeEmit \/ PurgeFail
  <2>1. CASE PurgeDelete
    BY <2>1 DEF PurgeDelete, SessionTypeOK, StartedInv, PurgeInv, NoPurge
  <2>2. CASE PurgeUnmap
    BY <2>2 DEF PurgeUnmap, SessionTypeOK, StartedInv, PurgeInv, NoPurge
  <2>3. CASE PurgeEmit
    BY <2>3 DEF PurgeEmit, SessionTypeOK, StartedInv, PurgeInv, NoPurge
  <2>4. CASE PurgeFail
    BY <2>4 DEF PurgeFail, SessionTypeOK, StartedInv, PurgeInv, NoPurge
  <2>5. QED
    BY <1>7, <2>1, <2>2, <2>3, <2>4
<1>8. CASE PurgeClear
  BY <1>8 DEF PurgeClear, SessionTypeOK, StartedInv, PurgeInv, NoPurge
<1>9. ASSUME NEW i \in Sessions,
             ExpireSession(i)
      PROVE  PurgeInv'
  BY <1>9 DEF ExpireSession, SessionTypeOK, StartedInv, PurgeInv, NoPurge
<1>10. ASSUME NEW d \in SessionDevices,
             ExpireDevice(d)
      PROVE  PurgeInv'
  BY <1>10 DEF ExpireDevice, SessionTypeOK, StartedInv, PurgeInv, NoPurge
<1>11. QED
  BY <1>1, <1>2, <1>3, <1>4, <1>5, <1>6, <1>7, <1>8, <1>9, <1>10 DEF SessionNext

\* No command but those of the two races takes a session out of its user's set.
LEMMA NextLost ==
  ASSUME SessionIInv, SessionNext
  PROVE  LostOnlyToRaces'
<1> USE DEF SessionIInv, redisVars, history
<1>1. ASSUME NEW i \in Sessions, NEW u \in SessionUsers, NEW d \in SessionDevices,
             StoreSession(i, u, d)
      PROVE  LostOnlyToRaces'
  BY <1>1 DEF StoreSession, SessionTypeOK, StartedInv, RemovalInv, PurgeInv,
     LostOnlyToRaces, Body
<1>2. ASSUME NEW i \in Sessions,
             ListSession(i) \/ MapDevice(i) \/ FailCreate(i)
      PROVE  LostOnlyToRaces'
  BY <1>2 DEF ListSession, MapDevice, FailCreate, SessionTypeOK, StartedInv,
     RemovalInv, PurgeInv, LostOnlyToRaces, Body
<1>3. ASSUME NEW i \in Sessions,
             ReadActivity(i) \/ WriteActivity(i) \/ FailActivity(i)
      PROVE  LostOnlyToRaces'
  BY <1>3 DEF ReadActivity, WriteActivity, FailActivity, SessionTypeOK,
     StartedInv, RemovalInv, PurgeInv, LostOnlyToRaces, Body
<1>4. ASSUME NEW i \in Sessions,
             FindSession(i) \/ DeleteSession(i) \/ UnlistSession(i)
             \/ UnmapSession(i) \/ FailRemove(i)
      PROVE  LostOnlyToRaces'
  BY <1>4 DEF FindSession, DeleteSession, UnlistSession, UnmapSession,
     FailRemove, SessionTypeOK, StartedInv, RemovalInv, PurgeInv, LostOnlyToRaces,
     Body
<1>5. ASSUME NEW u \in SessionUsers,
             PurgeStart(u)
      PROVE  LostOnlyToRaces'
  BY <1>5 DEF PurgeStart, SessionTypeOK, StartedInv, RemovalInv, PurgeInv,
     LostOnlyToRaces, Body
<1>6. ASSUME NEW i \in Sessions,
             PurgeGet(i)
      PROVE  LostOnlyToRaces'
  BY <1>6 DEF PurgeGet, SessionTypeOK, StartedInv, RemovalInv, PurgeInv,
     LostOnlyToRaces, Body
<1>7. CASE PurgeDelete \/ PurgeUnmap \/ PurgeEmit \/ PurgeFail
  BY <1>7 DEF PurgeDelete, PurgeUnmap, PurgeEmit, PurgeFail, SessionTypeOK,
     StartedInv, RemovalInv, PurgeInv, LostOnlyToRaces, Body
<1>8. CASE PurgeClear
  BY <1>8 DEF PurgeClear, SessionTypeOK, StartedInv, RemovalInv, PurgeInv,
     LostOnlyToRaces, Body
<1>9. ASSUME NEW i \in Sessions,
             ExpireSession(i)
      PROVE  LostOnlyToRaces'
  BY <1>9 DEF ExpireSession, SessionTypeOK, StartedInv, RemovalInv, PurgeInv,
     LostOnlyToRaces, Body
<1>10. ASSUME NEW d \in SessionDevices,
             ExpireDevice(d)
      PROVE  LostOnlyToRaces'
  BY <1>10 DEF ExpireDevice, SessionTypeOK, StartedInv, RemovalInv, PurgeInv,
     LostOnlyToRaces, Body
<1>11. QED
  BY <1>1, <1>2, <1>3, <1>4, <1>5, <1>6, <1>7, <1>8, <1>9, <1>10 DEF SessionNext

\* Initially no key exists and no call is in progress.
LEMMA InitSession == SessionInit => SessionIInv
  BY DEF SessionInit, SessionIInv, SessionTypeOK, StartedInv, RemovalInv, PurgeInv,
         LostOnlyToRaces, CreateSteps, RemoveSteps, PurgeSteps, NoPurge

\* The inductive invariant holds in every reachable state.
THEOREM SessionInvariance == SessionSpec => []SessionIInv
<1>1. ASSUME SessionIInv, [SessionNext]_sessionVars
      PROVE  SessionIInv'
  <2>1. CASE SessionNext
    BY <1>1, <2>1, NextTyped, NextStarted, NextRemoval, NextPurge, NextLost
       DEF SessionIInv
  <2>2. CASE UNCHANGED sessionVars
    BY <1>1, <2>2 DEF sessionVars, SessionIInv, SessionTypeOK, StartedInv, RemovalInv,
                      PurgeInv, LostOnlyToRaces
  <2>3. QED
    BY <1>1, <2>1, <2>2
<1>2. QED
  BY InitSession, <1>1, PTL DEF SessionSpec

\* Every reachable state of the three families of keys, and of the calls on
\* them, is well typed.
THEOREM SessionTyped == SessionSpec => []SessionTypeOK
<1>1. SessionIInv => SessionTypeOK
  BY DEF SessionIInv
<1>2. QED
  BY SessionInvariance, <1>1, PTL

\* A session whose key exists is in its user's set, whatever calls fail half
\* way and however their commands interleave, but for the two races.
THEOREM LostToRacesOnly == SessionSpec => []LostOnlyToRaces
<1>1. SessionIInv => LostOnlyToRaces
  BY DEF SessionIInv
<1>2. QED
  BY SessionInvariance, <1>1, PTL

\* When invalidateUserSessions reports success, what it set out to delete is
\* gone, or was written back by an activity update.
THEOREM PurgeDeletesAll == SessionSpec => PurgeDeletesSnapshot
<1>1. ASSUME SessionIInv, PurgeEmit
      PROVE  \A i \in purge.snapshot : i \in stored => i \in revived
  BY <1>1 DEF SessionIInv, PurgeInv, PurgeEmit
<1>2. SessionIInv =>
        [PurgeEmit => \A i \in purge.snapshot : i \in stored => i \in revived]_sessionVars
  BY <1>1
<1>3. QED
  BY SessionInvariance, <1>2, PTL DEF PurgeDeletesSnapshot
=============================================================================
