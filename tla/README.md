# A verification project for connecto-nest

connecto-nest is the backend of a travel-chat service: NestJS, TypeORM on
PostgreSQL, Redis, BullMQ and Socket.IO, run as several replicas of one Node.js
process. This directory holds TLA+ modules of the parts where its correctness
depends on the order of events, TLC configurations that check them on small
instances, and TLAPS proofs for every instance.

All paths are below `src/src/modules/` unless they begin with `src/`.
`PROJECT.json` maps every definition to the lines it stands for.

## 1. The system

A Node.js process runs JavaScript on one thread. Between two `await`s that
leave the microtask queue (a query, a Redis command, an HTTP call) nothing else
runs; at each of them any other handler may. So in every module **an action is
the code between two such awaits**, and interleaving happens at awaits only.
Replicas share the database and Redis; a module about tables or Redis keys
therefore holds for any number of replicas, one about in-memory maps is about one
process.

| Component | State | Operations | Interacts with |
|---|---|---|---|
| Connection registry `websocket/services/connection-manager.service.ts` | three maps: user to sockets, socket to user, device to socket (memory) | register, unregister, force-disconnect user or device, clean up | called by the gateway; its `disconnect` calls re-enter the gateway's `handleDisconnect` synchronously; listens to `user.sessions.invalidated`, `user.banned`, `user.force.logout` |
| WebSocket gateway `websocket/websocket.gateway.ts` | `socket.data` | handshake, disconnect, relayed room messages | blacklist, users table, registry, sessions |
| Sessions `auth/services/session-manager.service.ts` | Redis: `session:<id>`, `user:<u>:sessions`, `device:<d>:session` | create, touch, invalidate one, invalidate all, clean up | gateway; emits `user.sessions.invalidated` |
| Blacklist `auth/services/token-blacklist.service.ts` | Redis flags with TTL | blacklist a token or user, check, remove | gateway |
| Chat rooms `websocket/services/websocket-room.service.ts` | two maps: user to entry (its rooms), room to users (memory) | connect, disconnect, join, leave | chat gateway; permission queries |
| Chat gateway `websocket/chat.gateway.ts` | `client.userId` | connect, disconnect, rooms, messages | guard, room service, messages, rate limits |
| Travel membership `travel-user/`, `planet-user/` | tables `travel_users`, `planet_users` | join with its hooks, ban, unban | travels, planets |
| Rate limits `websocket/services/rate-limit.service.ts` | Redis counters and blocks | check, reset, statistics | chat gateway's guard |
| Messages `message/` | table `messages` (soft delete) | post, edit, delete (REST, gateway), paginate | gateway, REST, read receipts |
| Read receipts `read-receipt/` | table of receipts, unique per user and message | mark one, an array, a planet; unread counts | REST, gateway |
| Files `file-upload/`, `storage/`, `queue/processors/file-cleanup.processor.ts` | table `file_uploads`, object storage | upload, confirm, delete, clean up | BullMQ jobs |
| Planets `planet/` | table `planets` (`status`, `timeRestriction`) | chat allowed now, next chat time | chat gateway, REST, memberships |
| Travel life cycle `travel/`, `scheduler/`, `queue/` | `travels.status`, Redis markers, job queues | create, expire, announce the end | planets, the list `notifications:queue` |
| Notifications `notification/`, `push-token/` | tables, FCM tokens | send, mark read, prune tokens | queue |
| Distributed events and cache `events/`, `cache/` | Redis pub/sub and keys | publish, receive, invalidate | all replicas |
| Authentication `auth/auth.service.ts`, `user/` | tables `users` | sign in, refresh, ban | guards |
| Migrations and start-up `src/src/migrations/`, `src/scripts/`, `config/` | schema, `migrations_history` | run, revert, start a replica | TypeORM, every entity |
| The rest: missions, reports, moderation, profiles, accommodation, schema, i18n, admin | tables | CRUD | |

### What is hard in it

* **Handshakes are long.** The gateway awaits three answers before it registers a
  socket and one more before it announces it. The socket can close, the user can
  be banned, and the same device can connect again in between.
* **Closing a socket re-enters.** `socket.disconnect(true)` runs `handleDisconnect`
  before it returns, in the middle of the method that called it.
* **Multi-command updates in Redis and in the database** without transactions:
  sessions (three keys), joins (a count, a row, a row per planet), rate limits,
  notification markers. Any of them can stop half-way.
* **State read before an await and used after it**: the room service's entry, the
  session body, the entity a job or an edit saves (TypeORM's `save` writes every
  column in which the copy differs from the row, `deletedAt` included).
* **Several replicas start at once**, and each migrates the database before it serves.
* **One user, several sockets**, where the code keeps one entry per user.
* **Errors that are swallowed**: `afterCreate`, the blacklist checks, the room
  service.

### What makes each component correct

* Registry: its maps agree; an open registered socket is reachable by user and by
  device; closing, by whatever way, leaves nothing behind.
* Gateway: a barred user is not registered; every handshake ends; an announced
  live connection is reachable by a forced disconnection.
* Sessions: invalidating a user's sessions deletes them; a valid session can be
  found from its user.
* Rooms: an entry's rooms and the rooms' members say the same.
* Membership: the capacity is kept but for a known overshoot; a ban lasts; one
  join per user; members of a planet are members of the travel.
* Files: no upload that was completed is lost, no object stays without a row, but by
  the failures and the races that are named; what failed is collected.
* Rate limits: a burst exceeds the limit by no more than the messages that are checked
  at the same time; a block holds; a lockout ends.
* Messages and receipts: what a planet shows changes only for a request that was
  accepted while the message was there; an edited message remembers its first text;
  a reader is told the truth.
* Chat hours: a refused user is told the first time at which the planet opens.
* Jobs: what has expired is deactivated some day, nothing else is; a notice is queued once.
* Deployment: the schema is always that of a release, and only a whole one is served.

## 2. The modules

### ConnectionManager (with ConnectionProofs, MCConnectionManager)

The registry and the little of Socket.IO it needs. The maps keep their names;
"no entry" is the empty set, `NoUser` or `NoSocket`. `link` is the socket's
state, `owner` and `device` are what the handshake carries, and `admitted` are
the sockets with `socket.data.user`. Each method is synchronous and is one action.
Nested disconnections are inside: `RegisterConnection` closes the device's
previous socket (`Kicked`) and unregisters it before it goes on, as
`registerConnection` does at line 49. `RegisterConnection` does not ask whether
its socket is open, because the code does not.

| Property | Meaning |
|---|---|
| `MapsAgree` | the two directions of the user map agree |
| `LiveOwnsDevice` | an open registered socket is listed, and holds its device |
| `ClosingUnregisters` | a step that closes a socket removes it from all maps |
| `ForceDisconnectComplete` | forced disconnection closes all of the user's open connections, nobody else's |
| `ActiveMeansConnected` | what `isUserConnected`'s comment says; **violated** by a late registration |

### EnhancedGateway (with ConnectionProofs, MCEnhancedGateway)

`handleConnection` as the steps between its awaits (`pc`): the token check, the
user check, the user query, registration followed by `createSession`, the
announcement. The module extends ConnectionManager and changes the registry by its
actions only, so what is invariant in the registry is invariant here. `barred` is a
history variable: for each handshake, the bars (ban, blacklist) that held when it began
and have held ever since, less the blacklist if Redis could not be read.

| Property | Meaning |
|---|---|
| `AnnouncedReachable` | an open connection that was announced is found by its user and its device, whoever else is disconnected |
| `BarredNeverAdmitted` | a user barred throughout the handshake is not registered |
| `HandshakeSettles` | every handshake ends, announced or disconnected |

A user who is barred between the check and the registration is admitted, and nothing
closes the connection: `BarredNeverAdmitted` says nothing of that window.

`HandshakeSettles` is a liveness property. **Fairness**: weak fairness of
`Handshake(s)` for each socket, which says that an await in progress returns or
throws and that the event loop then runs what follows. ioredis and the database
driver give up on a command in the end, and JavaScript callbacks are not starved.
Nothing is assumed of clients, bans or disconnections.

### SessionManager (with SessionManagerProofs, MCSessionManager)

One Redis command is one action, and calls of every kind interleave:
`createSession` (three writes, may fail after any), `updateSessionActivity` (GET,
then SETEX of what was read), `invalidateSession`, `invalidateUserSessions`
(SMEMBERS, a loop, DEL of the set, the event), and expiry. Two history variables,
`revived` (a key written back after its deletion) and `missed` (unlisted by a purge
that did not see it), name the two races the code has; the properties say that
there are no others.

### ChatRooms (with ChatRoomsProofs, MCChatRooms)

The two maps of the room service. A user's entry is an object made by a connection
(`userRooms` names that connection's socket), because `joinRoom` keeps a reference
to the entry across its permission query. The other awaits in the service resolve in
the microtask queue, so leaving and disconnecting are single actions.
`joinUserToAuthorizedRooms` is two queries with a loop of joins after each.
`GuardMessage` is the guard of a message, which may authenticate a socket before
`handleConnection` does, and whose handler may run after the socket closed.
`excused` is a history variable: users that lost an entry with rooms, or for whom a
join went on with an entry that was no longer theirs.

| Property | Meaning |
|---|---|
| `TrackedAreListed` | each room of a user's entry lists the user |
| `GhostsExplained` | a room's member without an entry for the room is `excused` |
| `StrandedByAnother` | a live connection has no entry only if another connection of its user closed |

### TravelMembership (with TravelMembershipProofs, MCTravelMembership)

`POST /travel-users` for one travel: `beforeCreate` (three queries), the CRUD
library's INSERT, `afterCreate` (a query and a save per group planet), with any
number of requests, bans, changes of the travel and of its planets, and failure
or death of the server between any two calls. The unique constraint on
(travel, user) is the only thing enforced at the INSERT.

| Property | Meaning |
|---|---|
| `OvershootBounded` | at most `MaxMembers - 1 + Cardinality(Requests)` members (unbanned ones aside) |
| `OneJoinPerUser` | one join per user gets past the INSERT |
| `BannedStaysOut` | only an unban ends a ban |
| `PlanetMembersAreListed` | a planet's member has a row in the travel |
| `JoinEntersAllGroups` | what the controller's documentation says; **violated** by a swallowed error |

### FileLifecycle (with FileLifecycleProofs, MCFileLifecycle)

The table `file_uploads` and the objects in the storage. `row` is the row's status,
`object` the files whose key exists in the storage. The client uploads with the URL
it was given, on its own (`PutBegins`, `PutEnds`): an upload that begins in time may
end after anything the server does. Requests are cut at their queries and storage
commands (`req`), and so is the job `cleanup-large-files` on each worker: `phase`
is its loop, `todo` what the loop has still to visit, `current` the file whose object is
deleted and whose row is next. The job `cleanup-failed-uploads` is its first loop
(`JobEnds` may follow). TypeORM's `save()` inserts a row that is gone: `CompleteSave`
and `CancelSave` can bring a deleted row back. Two history variables: `doubtful`, the
files completed without an object or while somebody was about to delete it, and
`leaked`, the objects without a row that a failed deletion or a late upload left.

| Property | Meaning |
|---|---|
| `LossExplained` | a completed file without an object is `doubtful`, or an old one in `temp` |
| `LeftoversExplained` | an object without a row is `leaked`, or the request that removed the row is about to delete it |
| `CleanerSparesLive` | the orphan cleaner, which reads the storage before the table, holds no live file in its list, unless a save brought its row back |
| `FailedCollected` | a row that is failed for a day goes away |

The code asks neither the storage nor the status when it completes an upload, so a
stronger claim than `LossExplained` is false; the property says that nothing else loses
one. An orphan beyond the hundred keys of a listing, or in another folder than
`uploads`, is never found, and nothing is claimed of when the others go.

**Fairness** (`JobFairness`): BullMQ's repeatable jobs start again and again, and no
step of the job on the same file fails for ever (strong fairness, because a failure
or a death of the worker takes the job back to the start). Nothing is assumed of
clients and requests.

### RateLimiter (with RateLimiterProofs, MCRateLimiter)

One pair of Redis keys, a counter and a block, and any number of messages of one user
that are checked against it (`check`). Each action is a Redis command with what
the code does with its answer, and for each there is what happens if it fails: the
check goes on as if nothing were there (`failed`). `Tick` is time: keys expire. The
histories: `blind`, how much of the counter comes from checks that could not read it;
`burst`, the messages passed with less than a window between one and the next, and
`quiet`, the time until it is over; `late`, the messages passed during a block.

| Property | Meaning |
|---|---|
| `BurstBounded` | a burst has fewer messages than the limit and the concurrent checks together, for however many windows it lasts |
| `LateBounded` | during a block pass only messages that were already being checked |
| `LockoutEnds` | a used-up counter that has an expiry goes back to 0 |
| `TypingLimited` | the limit of the constants for typing; **violated**, its key is never looked up |

**Fairness**: time passes (`WF_vars(Tick)`). `LockoutEnds` does not cover a counter whose
EXPIRE was lost: it never expires, and the user stays locked out, because a refused
message does not set an expiry. It depends on the bound `MaxBlind`: checks that
cannot read the counter but do increment it renew its expiry.

### Messages over MessageBoard (with MessagesProofs, MCMessages)

MessageBoard is the **abstract specification**: messages with a text, which of them
are on the board, which are still open to their author, who has read which, and the
request of each client that was accepted. It has no rows, copies, receipts or
transactions. A message changes, or counts as read, only for a request that was
accepted while the message was on the board; an accepted request may be carried out at
any later time, or never. An author may change a message as long as it is open, and
empty it at any time.

Messages is the code: the tables `messages` and `message_read_receipts`, and what each
request holds in memory between its awaits (`request`). REST and socket handlers are
actions of one module, because they race on one table. `StartEdit`, `StartUpdate` and
`StartMark` are the three ways to a copy that `SaveEdit` writes back; a PATCH may
carry `isEdited` and `originalContent` (`StartMark`), and what is then kept as
the original is the author's (`Sent`). A fourth, `StartEmpty`, is a PATCH whose text is
`''` or null: `beforeUpdate` runs the type check, the check of the 15 minutes and the
keeping of the original only if the new text is truthy, so such a PATCH empties any
message (`Blank`) at any time and marks nothing. `Plain` are the messages of type TEXT,
the only ones that are posted with a text for certain and that may be edited; `emptied`
is a history variable, the messages an update was to empty before any edit. A bulk of
receipts is a loop of two queries per item (`FindItem` or `MissItem`, `FindExisting`)
and one transaction (`InsertBulk`). `ReadMultiple` is two handlers whose
first query always fails. `Leave` is the client's answer, a death of the replica or a
refused statement, at any step.

| Property | Meaning |
|---|---|
| `KeepsBoard` | the code implements `MessageBoard`; the mapping forgets copies and receipts, and takes a request's accepted task from what it holds |
| `OriginalKept` | whatever edits race, a message's first text is in its row, unless its author sent another, or emptied it before any edit |
| `ReadsAnswered` | told "read", a reader has every receipt; told "failed", one of three named reasons holds |

So the code does not keep what two of its comments say, that an edit is possible for
15 minutes (`수정 시간 제한 확인`) and that the original is preserved (`원본 보존`); the
properties show that emptying a message is the only exception to either, and what an
author sends as the original the only other one to the second.

`KeepsBoard` allows a deletion to be undone by an edit that was accepted before it,
because the code does that: `MessageBoard!Edit` makes the message visible. No other
step brings a message back.

### Deployment over Migrations and Entities, ExpiryJobs, ChatHours, Operations (with OperationsProofs, MCOperations)

*Migrations* has the 43 migrations as data: for each, `up` and `down` as lists of
statements on tables and columns, in time stamp order. A schema is a set of pairs of a
table and a column, and a statement fails if a column it names is missing or one it
adds is there (`IF EXISTS` where the code has it). `Releases` are the schemas that
the lists add up to. *Entities* has the columns that each entity maps.
*Deployment* is the replicas: `migration:run` as TypeORM does it (read the history, one
transaction, an `up` and its record at a time, commit), the two scripts that start the
application after it, a crash at any step, and an operator's `migration:revert`.

| Property | Meaning |
|---|---|
| `SchemaIsARelease` | the committed schema is that of the migrations recorded, unless one of five named downs was executed |
| `StartsOnWholeSchema` | `deploy:prod` starts the application only on a schema that has every column the entities map, but for the four entities that no release satisfies |

At the end of the module, `MigrationFacts` is what the proofs take from the 43
migrations: which databases runs and reverts can lead to (`Databases`), and what
becomes of a replica that runs migrations again because its list is out of date
(`Repeats`). It is an ASSUME, but assumes nothing: no constant or variable occurs in
it, and TLC evaluates it in full in every run of Operations.

The five downs and the four entities (`missions`, `mission_travels`,
`mission_submissions`, `profiles`) are what the model says of the code as it is: the
last release has no column `active`, the entities have no `isActive`, and no
migration adds the time stamps that `BaseActiveRecord` maps to three of them. An empty
database can run none of the first three migrations, which sort before the one that
creates the tables. `start:prod:migrate` starts after a failure as well, since
`migration.js` exits with 0; `StartsOnWholeSchema` is about the other script.

*ExpiryJobs* is the queue `expired-travel` with a worker per replica. Dates are `far`,
`soon` or `past`. A job is a loop over the copies it found; `SaveExpired` writes its
copy back. Redis fails quietly: a lost LPUSH or SET looks like one that was done, and a
GET that fails says that there is no marker, so that a job announces once more
(`GetMarker`). BullMQ gives a job out again after a crash, and while its worker still has
it if the worker stalls; a job that throws is tried again. `stale` (the travels changed
since a job found them) and `doubtful` (the notices a fault left in doubt) are history.
A doubt about a notice ends with its 24 hours, unless two workers have both found no
marker and are still to announce.

| Property | Meaning |
|---|---|
| `OngoingEndsOnlyByRace` | a travel that goes on is deactivated only by a job whose copy is stale |
| `NoticesExplained` | a deactivated travel has its notice, and no travel is announced twice a day or marked without a notice, except where a fault fell between two steps or two workers had one job |
| `ExpiredIsDeactivated` | a travel past its end is deactivated, or its end is moved |

**Fairness** (`ExpiryFairness`): Redis repeats the jobs each day, and BullMQ hands them
to a worker, which runs on. Faults are finite (`MaxFaults`), for a query that fails on
every day expires nothing.

*ChatHours* is when a planet takes messages. `isChatAllowed` and `getNextChatTime` of
`planet/planet.entity.ts` are each an operator on a planet and an instant, with one
more for each kind of restriction. A user who sends while the planet is closed is refused and told a time
(`Refuse`), and the clock goes on (`Tick`).

| Property | Meaning |
|---|---|
| `PromiseKept` | the time a refused user was told is the first at which the planet is open; who was told "N/A" is never let in later |

It is stated for a `Plain` planet. Outside it the code promises wrongly: an inactive
planet stays closed, a window that begins after it ends (22:00 to 06:00) never opens,
a weekly one without `endTime` opens at midnight and not at `startTime`, one without
`startTime` opens although the answer was N/A, and a schedule that ends before it
begins is announced and never opens. No code that is called rules these out
(`IsValidTimeRestriction` decorates nothing, and lets a window cross midnight).

*Operations* puts the three side by side. They share no state, and a behaviour is one of
one of them: interleaving them would only multiply the states.

### Variants

An operator whose comment begins with "Variant" is not part of the model. It is a
form its neighbour could have had by mistake (a dropped test, a missing reset, an
off-by-one). Replacing the neighbour's body by a use of it makes a property fail,
which shows that the property speaks about that code.

## 3. The runs

| Run | Instance | Shows |
|---|---|---|
| `connection_manager` | 2 users, 4 sockets, 2 devices | the registry's properties |
| `connections_active` | the same | finding: late registration |
| `enhanced_gateway` | 2 users, 2 sockets, 1 device | the handshake's properties, termination |
| `session_manager` | 1 user, 2 sessions, 2 devices | the session races are the two named ones |
| `chat_rooms` | 2 users, 2 sockets, 2 rooms, 2 pending joins | the room maps |
| `travel_membership` | 3 users, 2 requests, 2 planets, 1 place | capacity, bans, double joins |
| `travel_groups` | the same | finding: swallowed error |
| `file_lifecycle` | 1 file, 2 requests, 1 worker, 2 folders | losses and leftovers are the named ones; what failed is collected |
| `rate_limiter` | 3 checks, limits 1 and 2, window 2, block 3 | the excess is the concurrency; lockouts end |
| `typing_limit` | 2 checks | finding: a limit under the wrong key |
| `messages` | 2 messages (a text and a file), 1 text and `Blank`, 2 requests of 1 user | the code implements the board; edits, emptyings and receipts |
| `operations` | 43 migrations, 2 replicas, 2 reverts, 15 starting releases; 2 travels, 2 workers, a query limit of 1, 2 attempts, 1 extension, 1 fault; 197 planets, days of 3 minutes, 2 weeks and more | migrations and start; expiry and its notices; chat hours |

**Why the bounds suffice.** Four sockets allow a device to change hands three
times while an earlier holder is still registered, and two users to hold two each.
The gateway's handshakes meet only through a user, a device and the bars, and two
sockets are enough for each to be shared. A session has its own keys, so a race
needs two sessions of one user and a device they share or do not. Chat rooms of
different users do not touch each other's entries: two sockets are one user with two
connections, or two users. The travel has one place and two requests for it, which is
its boundary; a third user is the one who stays outside. Users, sockets, rooms,
planets and requests are interchangeable and declared symmetric, except where
liveness is checked. Files meet only in the listing and in
the order of a loop, so the run has one, with two requests and a job on it. Two files
have more states than liveness can be checked on; so the run does not cut off a listing or
a batch, which the theorems cover for any number of files and any limits.
`FailedCollected` is meant for no more failed files than a batch holds: the query has
no order, and one that the storage refuses could be in every batch. The limits
of the rate limiter are small enough to be reached by fewer messages than are checked
at a time, and by more; the block outlives the window, as it does in the code's table.
Requests on messages meet in a row, a receipt or a bulk; two requests make every race of
two, and two messages make a bulk that misses one and finds the other. With one text
besides `Blank`, an edit changes a message by emptying it or by filling it again. A user with two
devices is enough for the races of receipts, and the theorems cover all users. The
database starts at no release, at the last, and on either side of each migration that
fails or whose down does not restore the release before; two replicas can each hold
the transaction while the other waits with its old list. A limit of one travel
per query, with two travels, is the limit reached; one fault in all is enough for each
fault to be met alone, and an extension can fall between a query and its save.
Days of three minutes have a time before, in and after a window; two weeks (`Horizon`)
let every promise made in the first one fall due, since none is longer than a week.
`MaxBlind` bounds the counts of checks that Redis failed, `MaxBurst` the messages that no
limit stops. Named bounds otherwise: `MaxRequests` (ChatRooms; a client may have
any number) and one purge at a time (SessionManager). Deadlock is not checked where the
instance has nothing left to do once every socket is used, every session made, every
replica up. Messages is checked for it: a request can always leave.

## 4. The proofs

The theorems hold for every value of the constants under the assumptions the
modules name (a "no entry" value is not an element; finite sets where counted).

* **ConnectionProofs** (ConnectionManager and EnhancedGateway). `MapsAgree` and
  `LiveOwnsDevice` are not inductive by themselves. `IInv` adds that the set, the reverse
  map and the device map name admitted sockets only, each with its own user and device,
  so that what `DevicesWithout` and `UsersWithout` delete is just what belongs to the
  closed sockets. The action properties follow from it. Each action of the gateway is one of
  the registry or leaves it alone, so `IInv` holds of the gateway too, and together with
  how far each handshake is (`StepInv`: an announced socket is admitted) it gives
  `AnnouncedReachable`, that a connection stays in the registry until it is closed,
  whoever else is disconnected. `BarredStayOut`: a handshake at its last checks has
  passed those whose bar it has (`BarInv`): if `barred[s]` holds a blacklist, the
  handshake is not past the user check, and if it holds a ban, not past the user query.
* **SessionManagerProofs.** `LostOnlyToRaces` is not inductive: a session is taken off
  its user's set by calls that deleted its key several commands earlier. `RemovalInv` and
  `PurgeInv` remember it: a key that an `invalidateSession` past its DEL, or a purge
  past that session, would leave behind has been written back (`revived`).
  `StartedInv` says that nothing of a session exists before `createSession` stored it.
  `PurgeDeletesSnapshot` is `PurgeInv` when the loop has nothing left to do.
* **ChatRoomsProofs.** Entries are not shared: a user's entry, and the entry any
  pending join works on, was made by a connection of the same user that is past its
  guard (`EntryInv`). A join can therefore only affect rooms of the user it is for.
* **TravelMembershipProofs.** The count is a cardinality. `CapacityInv` counts the
  unrestored active members together with the requests that have passed the count
  and not inserted yet: the sum is at most `MaxMembers - 1 + Cardinality(Requests)`
  because a request passes only if there is a free place, and each request adds at
  most one. `RowsInv` ties the users of requests past the INSERT to their rows.
* **FileLifecycleProofs.** The invariant adds what each step of a request or a job knows:
  who is about to delete an object read its row as not completed, and if the row is
  completed by now, it became so while it was being deleted and is `doubtful`; a worker
  with a `current` file has deleted its object. `CleanerSparesLive` needs that a row
  is only created before its upload begins, so that an object in the listing without a
  row in the table had its row removed.
* **RateLimiterProofs.** `UsageInv`: the burst and the blind counts together are at most
  the counter, as long as the burst does not outlive the counter (`quiet <= ttl`), and the
  counter together with the checks that are about to increment it is at most
  `MaxLimit - 1 + Cardinality(Checks) + blind`. `BlockInv` counts the late messages
  with the checks that went past the block; the check that begins a block is not one
  of them. Assumed: the checks are finitely many, the limits are at most `MaxLimit`.

* **MessagesProofs.** What makes `OriginalKept` inductive is `EditHeld`: the copy that an
  edit will write is of a posted message, is not deleted, and remembers the first text
  as the row does. Two edits that both loaded the message unedited hold the same
  original, since until one of them saves the row's text is its first, or the message is
  `emptied`. `BulkHeld` says of
  each item of a bulk that it is still to be looked at, is to be inserted, or has a
  receipt; `ReadsAnswered` follows from it and the answers. **`BoardKept` is the
  refinement**, for any number of messages, users and requests: the lemmas named
  `...Shown` map each action to a step of the board (`Accept`, `ReadMore`, `Drop`, `Post`,
  `Edit`, `Read`, `TakeDown`, `Close`) or to a stutter. An edit's save needs
  `EditHeld` to be a step of `Edit`, and a bulk that inserts nothing becomes a `Drop`.
* **OperationsProofs.**
  - *Deployment.* The committed schema and record are one of `Databases`, and a release
    unless an irreversible down was executed (`Whole`). A replica's list of pending
    migrations is `k .. Latest` for some `k`, and what its transaction works on has
    everything before `k` recorded (`Fresh`), or else another replica has finished and
    it repeats migrations on the last release (`Repeating`). Nothing in TypeORM stops
    such a replica; it never commits because, whatever the `k`, one of the repeated
    migrations adds a column that is there or names one that is not
    (`NeverRepeats`), and is refused. The proof needs the migrations only through
    `MigrationFacts`.
  - *Jobs.* `CopiesInv` (what a clean-up holds has ended, or is `stale`) gives
    `OngoingEndsOnlyByRace`. For `NoticesExplained`, `Undisturbed` says of a travel that
    is not in doubt that one worker at most is between its lookup of the marker and the
    marker, that it is the first to announce it, and that a notice without a marker has
    a worker about to set one. The first attempt at this proof failed: a day could pass
    and end the doubt while two workers were both about to announce, which takes two
    faults, and the run has one. `DayPasses` now keeps that doubt.
  - *Hours.* `NextChatTimeIsFirst` holds for every plain planet, any length of the day
    and any instant: the answer is an instant at which the planet is open, and at none
    from now to it was it open; if it is N/A, it never opens. It rests on lemmas that take
    instants apart into days and times (`Split`, `Compose`, `DaysInOrder`), on the loop
    over the days ahead covering each day of the week once (`WithinAWeek`), and on
    `MinExists`, which takes a least element from the well-foundedness of the naturals.
    `HoursIInv` carries the answer along the clock.

The theorems state every invariant and action property that the passing runs check, and
the refinement of MessageBoard. Assumptions on constants are the named ones of the modules, which
the runs evaluate: finite and disjoint sets, bounds in `Nat`; `HoursAssumption` says
that the times of a window are times of day and that `Missing` and `Never` are not
numbers.

Only model-checked: the liveness properties `ExpiredIsDeactivated`, `HandshakeSettles`,
`FailedCollected` and `LockoutEnds` (liveness under fairness
needs ENABLED, which is outside what TLAPS proves here), and `MigrationFacts`, which is
a computation on data with nothing to generalise. The three violations are
counterexamples of TLC.

## 5. Not modelled

Message texts, logging, statistics, Socket.IO's own delivery and rooms, and what a
permission depends on (an answer is a choice). Of the components:

* *Distributed events, DistributedCacheService*: nothing in `src/` calls them.
* *Notifications and push*: nothing in `src/` creates or sends one, and the list that
  the expiry jobs fill has no reader.
* *Pagination, unread counts, statistics*: queries that keep nothing.
* *Reports, missions, profiles, accommodations*: generic CRUD on single rows; their
  tables and columns are in Migrations and Entities.
* *message:send and message:restore*: the first inserts a type the database refuses, the
  second looks for the deleted message with a query that skips deleted ones. Neither
  writes, so neither is an action.
* *Tokens*: functions of the clock and of a secret, without state.
* Of a migration, everything but tables and columns: types, defaults, indexes,
  constraints, enum values and rows.

## 6. What is left

1. Composition: SessionManager's purge with EnhancedGateway, so that
   `user.sessions.invalidated` meets a handshake in progress.
2. The dynamic limits of a planet, which may change the window between two checks.
3. An abstract specification of a file that FileLifecycle implements, as MessageBoard is
   one of messages.
