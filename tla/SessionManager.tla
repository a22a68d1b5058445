--------------------------- MODULE SessionManager ---------------------------
(***************************************************************************)
(* The Redis side of SessionManagerService.  Every method is a sequence of *)
(* awaited Redis commands, so one command is one action and commands of    *)
(* different calls interleave.  Three families of keys:                    *)
(*   session:<id>            JSON body, 24 h, refreshed by activity        *)
(*   user:<u>:sessions       set of ids, no TTL                            *)
(*   device:<d>:session      id, 24 h, never refreshed                     *)
(* A session id is a fresh UUID: an element of Sessions is created once.   *)
(***************************************************************************)

CONSTANTS
  Sessions,        \* session ids (UUIDs)
  SessionUsers,    \* user ids
  SessionDevices,  \* device ids, the fallback socket.id included
  NoSession        \* an absent key or an unset local

ASSUME SessionAssumption == NoSession \notin Sessions \cup SessionUsers
                                              \cup SessionDevices

VARIABLES
  body,           \* what createSession serialised: user and device
  creating,       \* progress of the createSession call of each id
  stored,         \* ids whose session:<id> key exists
  userSessions,   \* user:<u>:sessions
  deviceSession,  \* device:<d>:session
  touching,       \* ids read by an updateSessionActivity that has yet to write
  removing,       \* progress of an invalidateSession call of each id
  purge,          \* the invalidateUserSessions call in progress
  revived,        \* history: ids written back after their key was deleted
  missed          \* history: ids a purge unlisted without having seen them

redisVars == <<stored, userSessions, deviceSession>>
history == <<revived, missed>>
sessionVars == <<body, creating, stored, userSessions, deviceSession,
                 touching, removing, purge, revived, missed>>

Body == [user : SessionUsers, device : SessionDevices]
CreateSteps == {"idle", "stored", "listed", "done", "failed"}
RemoveSteps == {"idle", "found", "deleted", "unlisted"}
PurgeSteps == {"idle", "scan", "found", "deleted", "emit"}

NoPurge == [step |-> "idle", user |-> NoSession, snapshot |-> {}, todo |-> {},
            cur |-> NoSession]

\* Every key holds a value of its kind and every call is at one of its awaits.
SessionTypeOK ==
  /\ body \in [Sessions -> Body \cup {NoSession}]
  /\ creating \in [Sessions -> CreateSteps]
  /\ stored \in SUBSET Sessions
  /\ userSessions \in [SessionUsers -> SUBSET Sessions]
  /\ deviceSession \in [SessionDevices -> Sessions \cup {NoSession}]
  /\ touching \in SUBSET Sessions
  /\ removing \in [Sessions -> RemoveSteps]
  /\ purge \in [step : PurgeSteps, user : SessionUsers \cup {NoSession},
                snapshot : SUBSET Sessions, todo : SUBSET Sessions,
                cur : Sessions \cup {NoSession}]
  /\ revived \in SUBSET Sessions
  /\ missed \in SUBSET Sessions

SessionInit ==
  /\ body = [i \in Sessions |-> NoSession]
  /\ creating = [i \in Sessions |-> "idle"]
  /\ stored = {}
  /\ userSessions = [u \in SessionUsers |-> {}]
  /\ deviceSession = [d \in SessionDevices |-> NoSession]
  /\ touching = {}
  /\ removing = [i \in Sessions |-> "idle"]
  /\ purge = NoPurge
  /\ revived = {}
  /\ missed = {}

----------------------------------------------------------------------------
(* createSession: SETEX the body, SADD to the user's set, SET the device   *)
(* mapping.  A rejected command throws; what was written stays.            *)

StoreSession(i, u, d) ==
  /\ creating[i] = "idle"
  /\ body' = [body EXCEPT ![i] = [user |-> u, device |-> d]]
  /\ creating' = [creating EXCEPT ![i] = "stored"]
  /\ stored' = stored \cup {i}
  /\ UNCHANGED <<userSessions, deviceSession, touching, removing, purge, history>>

\* Variant: the user's set is replaced by the new id.
ListOnlySession(i) ==
  /\ creating[i] = "stored"
  /\ creating' = [creating EXCEPT ![i] = "listed"]
  /\ userSessions' = [userSessions EXCEPT ![body[i].user] = {i}]
  /\ UNCHANGED <<body, stored, deviceSession, touching, removing, purge, history>>

ListSession(i) ==
  /\ creating[i] = "stored"
  /\ creating' = [creating EXCEPT ![i] = "listed"]
  /\ userSessions' = [userSessions EXCEPT ![body[i].user] = @ \cup {i}]
  /\ UNCHANGED <<body, stored, deviceSession, touching, removing, purge, history>>

\* Variant: the device is mapped to the user id.
MapDeviceToUser(i) ==
  /\ creating[i] = "listed"
  /\ creating' = [creating EXCEPT ![i] = "done"]
  /\ deviceSession' = [deviceSession EXCEPT ![body[i].device] = body[i].user]
  /\ UNCHANGED <<body, stored, userSessions, touching, removing, purge, history>>

MapDevice(i) ==
  /\ creating[i] = "listed"
  /\ creating' = [creating EXCEPT ![i] = "done"]
  /\ deviceSession' = [deviceSession EXCEPT ![body[i].device] = i]
  /\ UNCHANGED <<body, stored, userSessions, touching, removing, purge, history>>

FailCreate(i) ==
  /\ creating[i] \in {"idle", "stored", "listed"}
  /\ creating' = [creating EXCEPT ![i] = "failed"]
  /\ UNCHANGED <<body, redisVars, touching, removing, purge, history>>

----------------------------------------------------------------------------
(* updateSessionActivity: GET, then SETEX of the body it read.  An absent  *)
(* key or a rejected command ends the call, with no other effect.          *)

ReadActivity(i) ==
  /\ i \in stored
  /\ touching' = touching \cup {i}
  /\ UNCHANGED <<body, creating, redisVars, removing, purge, history>>

WriteActivity(i) ==
  /\ i \in touching
  /\ touching' = touching \ {i}
  /\ stored' = stored \cup {i}
  /\ revived' = IF i \in stored THEN revived ELSE revived \cup {i}
  /\ UNCHANGED <<body, creating, userSessions, deviceSession, removing, purge,
                 missed>>

FailActivity(i) ==
  /\ i \in touching
  /\ touching' = touching \ {i}
  /\ UNCHANGED <<body, creating, redisVars, removing, purge, history>>

----------------------------------------------------------------------------
(* invalidateSession: GET, DEL, SREM, DEL of the device mapping, whichever *)
(* session that mapping names by now.  A rejected command skips the rest.  *)

FindSession(i) ==
  /\ removing[i] = "idle"
  /\ i \in stored
  /\ removing' = [removing EXCEPT ![i] = "found"]
  /\ UNCHANGED <<body, creating, redisVars, touching, purge, history>>

DeleteSession(i) ==
  /\ removing[i] = "found"
  /\ removing' = [removing EXCEPT ![i] = "deleted"]
  /\ stored' = stored \ {i}
  /\ UNCHANGED <<body, creating, userSessions, deviceSession, touching, purge,
                 history>>

UnlistSession(i) ==
  /\ removing[i] = "deleted"
  /\ removing' = [removing EXCEPT ![i] = "unlisted"]
  /\ userSessions' = [userSessions EXCEPT ![body[i].user] = @ \ {i}]
  /\ UNCHANGED <<body, creating, stored, deviceSession, touching, purge, history>>

UnmapSession(i) ==
  /\ removing[i] = "unlisted"
  /\ removing' = [removing EXCEPT ![i] = "idle"]
  /\ deviceSession' = [deviceSession EXCEPT ![body[i].device] = NoSession]
  /\ UNCHANGED <<body, creating, stored, userSessions, touching, purge, history>>

FailRemove(i) ==
  /\ removing[i] # "idle"
  /\ removing' = [removing EXCEPT ![i] = "idle"]
  /\ UNCHANGED <<body, creating, redisVars, touching, purge, history>>

----------------------------------------------------------------------------
(* invalidateUserSessions: SMEMBERS, then for each id GET, DEL and DEL of  *)
(* the device mapping, then DEL of the user's set, then the event          *)
(* user.sessions.invalidated.  A rejected command skips the rest, the      *)
(* event included.  One call at a time is modelled.                        *)

PurgeStart(u) ==
  /\ purge.step = "idle"
  /\ purge' = [step |-> "scan", user |-> u, snapshot |-> userSessions[u],
               todo |-> userSessions[u], cur |-> NoSession]
  /\ UNCHANGED <<body, creating, redisVars, touching, removing, history>>

PurgeGet(i) ==
  /\ purge.step = "scan"
  /\ i \in purge.todo
  /\ purge' = IF i \in stored
              THEN [purge EXCEPT !.step = "found", !.todo = @ \ {i}, !.cur = i]
              ELSE [purge EXCEPT !.todo = @ \ {i}]
  /\ UNCHANGED <<body, creating, redisVars, touching, removing, history>>

PurgeDelete ==
  /\ purge.step = "found"
  /\ purge' = [purge EXCEPT !.step = "deleted"]
  /\ stored' = stored \ {purge.cur}
  /\ UNCHANGED <<body, creating, userSessions, deviceSession, touching, removing,
                 history>>

PurgeUnmap ==
  /\ purge.step = "deleted"
  /\ purge' = [purge EXCEPT !.step = "scan", !.cur = NoSession]
  /\ deviceSession' = [deviceSession EXCEPT ![body[purge.cur].device] = NoSession]
  /\ UNCHANGED <<body, creating, stored, userSessions, touching, removing, history>>

\* Variant: the loop over the snapshot is not awaited.
PurgeClearEarly ==
  /\ purge.step = "scan"
  /\ purge' = [purge EXCEPT !.step = "emit"]
  /\ userSessions' = [userSessions EXCEPT ![purge.user] = {}]
  /\ missed' = missed \cup (userSessions[purge.user] \ purge.snapshot)
  /\ UNCHANGED <<body, creating, stored, deviceSession, touching, removing, revived>>

PurgeClear ==
  /\ purge.step = "scan"
  /\ purge.todo = {}
  /\ purge' = [purge EXCEPT !.step = "emit"]
  /\ userSessions' = [userSessions EXCEPT ![purge.user] = {}]
  /\ missed' = missed \cup (userSessions[purge.user] \ purge.snapshot)
  /\ UNCHANGED <<body, creating, stored, deviceSession, touching, removing, revived>>

PurgeEmit ==
  /\ purge.step = "emit"
  /\ purge' = NoPurge
  /\ UNCHANGED <<body, creating, redisVars, touching, removing, history>>

PurgeFail ==
  /\ purge.step \in {"scan", "found", "deleted"}
  /\ purge' = NoPurge
  /\ UNCHANGED <<body, creating, redisVars, touching, removing, history>>

----------------------------------------------------------------------------
(* Redis drops a key whose TTL ran out.                                    *)

ExpireSession(i) ==
  /\ i \in stored
  /\ stored' = stored \ {i}
  /\ UNCHANGED <<body, creating, userSessions, deviceSession, touching, removing,
                 purge, history>>

ExpireDevice(d) ==
  /\ deviceSession[d] # NoSession
  /\ deviceSession' = [deviceSession EXCEPT ![d] = NoSession]
  /\ UNCHANGED <<body, creating, stored, userSessions, touching, removing, purge,
                 history>>

SessionNext ==
  \/ \E i \in Sessions :
       \/ \E u \in SessionUsers, d \in SessionDevices : StoreSession(i, u, d)
       \/ ListSession(i) \/ MapDevice(i) \/ FailCreate(i)
       \/ ReadActivity(i) \/ WriteActivity(i) \/ FailActivity(i)
       \/ FindSession(i) \/ DeleteSession(i) \/ UnlistSession(i) \/ UnmapSession(i)
       \/ FailRemove(i)
       \/ PurgeGet(i) \/ ExpireSession(i)
  \/ \E u \in SessionUsers : PurgeStart(u)
  \/ PurgeDelete \/ PurgeUnmap \/ PurgeClear \/ PurgeEmit \/ PurgeFail
  \/ \E d \in SessionDevices : ExpireDevice(d)

SessionSpec == SessionInit /\ [][SessionNext]_sessionVars

----------------------------------------------------------------------------
(* Properties                                                              *)

\* When invalidateUserSessions reports success, every session it set out to
\* delete is gone, except one that a concurrent activity update wrote back.
PurgeDeletesSnapshot ==
  [][PurgeEmit => \A i \in purge.snapshot : i \in stored => i \in revived]_sessionVars

\* A created session whose key exists is found from its user's set.  It is
\* lost from it in two ways only: a purge took its snapshot before the session
\* was listed and then deleted the whole set, or an activity update wrote the
\* key back after a removal.
LostOnlyToRaces ==
  \A i \in Sessions :
    /\ i \in stored
    /\ creating[i] \in {"listed", "done"}
    /\ i \notin revived \cup missed
    => i \in userSessions[body[i].user]
============================================================================
