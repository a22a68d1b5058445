-------------------------- MODULE TravelMembership --------------------------
(***************************************************************************)
(* Joining one travel: POST /travel-users (TravelUserController), with the *)
(* hooks the CRUD library runs around its INSERT, for any number of        *)
(* concurrent requests.  Each database call of the handler is awaited, so  *)
(* each is an action of its own:                                           *)
(*                                                                         *)
(*   FindTravel, FindMember, CountMembers   beforeCreate                   *)
(*   Insert                                 the library's INSERT           *)
(*   FindPlanets, SavePlanet*               afterCreate                    *)
(*   Respond                                afterCreate returns the row    *)
(*                                                                         *)
(* A check is made on what the database held at the time; only the unique  *)
(* constraint on (travelId, userId) is enforced at the INSERT.             *)
(***************************************************************************)
EXTENDS Naturals, FiniteSets

CONSTANTS
  Users,       \* user ids
  Requests,    \* slots for requests the servers handle at the same time
  Planets,     \* ids of the travel's planets of type GROUP
  MaxMembers,  \* maxMembers: 100
  NoUser       \* a free slot

ASSUME MembershipAssumption ==
  /\ IsFiniteSet(Users)
  /\ IsFiniteSet(Requests)
  /\ MaxMembers \in Nat \ {0}
  /\ NoUser \notin Users

VARIABLES
  travelOpen,     \* travel.status = ACTIVE and not travel.isExpired()
  travelUsers,    \* travel_users: the row's status per user
  activePlanets,  \* the planets of Planets whose row is there and ACTIVE
  planetUsers,    \* planet_users: the users with a row, per planet
  pc,             \* the call each request is to make next
  requester,      \* request.user of each request in progress
  todo,           \* afterCreate: the planets found and not saved yet
  restored        \* history: users that a ban's end made active again

joinVars == <<pc, requester, todo>>
tables == <<travelUsers, planetUsers>>
vars == <<travelOpen, travelUsers, activePlanets, planetUsers, pc, requester,
          todo, restored>>

Calls == {"idle", "travel", "member", "count", "insert", "planets", "saving"}
RowStatus == {"none", "active", "banned"}

Active == {u \in Users : travelUsers[u] = "active"}

\* Every row and every request is in a state the code knows, and a slot is
\* free exactly if it has no user.
TypeOK ==
  /\ travelOpen \in BOOLEAN
  /\ travelUsers \in [Users -> RowStatus]
  /\ activePlanets \in SUBSET Planets
  /\ planetUsers \in [Planets -> SUBSET Users]
  /\ pc \in [Requests -> Calls]
  /\ requester \in [Requests -> Users \cup {NoUser}]
  /\ todo \in [Requests -> SUBSET Planets]
  /\ restored \in SUBSET Users
  /\ \A r \in Requests : pc[r] = "idle" <=> requester[r] = NoUser

Init ==
  /\ travelOpen = TRUE
  /\ travelUsers = [u \in Users |-> "none"]
  /\ activePlanets = Planets
  /\ planetUsers = [p \in Planets |-> {}]
  /\ pc = [r \in Requests |-> "idle"]
  /\ requester = [r \in Requests |-> NoUser]
  /\ todo = [r \in Requests |-> {}]
  /\ restored = {}

----------------------------------------------------------------------------
(* beforeCreate                                                            *)

Call(r, from, to) ==
  /\ pc[r] = from
  /\ pc' = [pc EXCEPT ![r] = to]

\* The request is answered, with the row or with an error.
Answer(r) ==
  /\ pc' = [pc EXCEPT ![r] = "idle"]
  /\ requester' = [requester EXCEPT ![r] = NoUser]
  /\ todo' = [todo EXCEPT ![r] = {}]

BeginJoin(r, u) ==
  /\ Call(r, "idle", "travel")
  /\ requester' = [requester EXCEPT ![r] = u]
  /\ UNCHANGED <<travelOpen, tables, activePlanets, todo, restored>>

FindTravel(r) ==
  /\ Call(r, "travel", "member")
  /\ travelOpen
  /\ UNCHANGED <<travelOpen, tables, activePlanets, requester, todo, restored>>

FindMember(r) ==
  /\ Call(r, "member", "count")
  /\ travelUsers[requester[r]] = "none"
  /\ UNCHANGED <<travelOpen, tables, activePlanets, requester, todo, restored>>

\* Variant: the maximum itself passes.
CountMembersAtMost(r) ==
  /\ Call(r, "count", "insert")
  /\ Cardinality(Active) <= MaxMembers
  /\ UNCHANGED <<travelOpen, tables, activePlanets, requester, todo, restored>>

CountMembers(r) ==
  /\ Call(r, "count", "insert")
  /\ Cardinality(Active) < MaxMembers
  /\ UNCHANGED <<travelOpen, tables, activePlanets, requester, todo, restored>>

\* Variants: an upsert, and a row that waits for an approval.
Upsert(r) ==
  /\ Call(r, "insert", "planets")
  /\ travelUsers' = [travelUsers EXCEPT ![requester[r]] = "active"]
  /\ UNCHANGED <<travelOpen, activePlanets, planetUsers, requester, todo, restored>>

InsertPending(r) ==
  /\ Call(r, "insert", "planets")
  /\ travelUsers[requester[r]] = "none"
  /\ travelUsers' = [travelUsers EXCEPT ![requester[r]] = "pending"]
  /\ UNCHANGED <<travelOpen, activePlanets, planetUsers, requester, todo, restored>>

\* INSERT of an active row; it fails (see Refuse) if the user has a row.
Insert(r) ==
  /\ Call(r, "insert", "planets")
  /\ travelUsers[requester[r]] = "none"
  /\ travelUsers' = [travelUsers EXCEPT ![requester[r]] = "active"]
  /\ UNCHANGED <<travelOpen, activePlanets, planetUsers, requester, todo,
                 restored>>

\* No such travel, not active or expired, already a member, banned, full, the
\* unique constraint, a failed query, a server that dies: no row is written.
Refuse(r) ==
  /\ pc[r] \in {"travel", "member", "count", "insert"}
  /\ Answer(r)
  /\ UNCHANGED <<travelOpen, tables, activePlanets, restored>>

----------------------------------------------------------------------------
(* afterCreate                                                             *)

FindPlanets(r) ==
  /\ Call(r, "planets", "saving")
  /\ todo' = [todo EXCEPT ![r] = activePlanets]
  /\ UNCHANGED <<travelOpen, tables, activePlanets, requester, restored>>

SavePlanet(r, p) ==
  /\ pc[r] = "saving"
  /\ p \in todo[r]
  /\ requester[r] \notin planetUsers[p]
  /\ planetUsers' = [planetUsers EXCEPT ![p] = @ \cup {requester[r]}]
  /\ todo' = [todo EXCEPT ![r] = @ \ {p}]
  /\ UNCHANGED <<travelOpen, travelUsers, activePlanets, pc, requester, restored>>

Respond(r) ==
  /\ pc[r] = "saving"
  /\ todo[r] = {}
  /\ Answer(r)
  /\ UNCHANGED <<travelOpen, tables, activePlanets, restored>>

\* Planet.find or a save throws: the catch block logs it and returns the row
\* as if all had gone well.  (Or the server dies; the row is there as well.)
CutShort(r) ==
  /\ pc[r] \in {"planets", "saving"}
  /\ Answer(r)
  /\ UNCHANGED <<travelOpen, tables, activePlanets, restored>>

----------------------------------------------------------------------------
(* What operators do to the same rows meanwhile.                           *)

\* Variant: the row is deleted (removeMember).
BanDeletesRow(u) ==
  /\ travelUsers[u] = "active"
  /\ travelUsers' = [travelUsers EXCEPT ![u] = "none"]
  /\ UNCHANGED <<travelOpen, activePlanets, planetUsers, joinVars, restored>>

\* TravelUser.banUser and unbanUser, saved: no count, no planet_users row.
Ban(u) ==
  /\ travelUsers[u] = "active"
  /\ travelUsers' = [travelUsers EXCEPT ![u] = "banned"]
  /\ UNCHANGED <<travelOpen, activePlanets, planetUsers, joinVars, restored>>

Unban(u) ==
  /\ travelUsers[u] = "banned"
  /\ travelUsers' = [travelUsers EXCEPT ![u] = "active"]
  /\ restored' = restored \cup {u}
  /\ UNCHANGED <<travelOpen, activePlanets, planetUsers, joinVars>>

\* The travel expires or is deactivated, or is reactivated.
SwitchTravel ==
  /\ travelOpen' = ~travelOpen
  /\ UNCHANGED <<tables, activePlanets, joinVars, restored>>

\* Planet.createPlanet and updateStatus of a GROUP planet.
SwitchPlanet(p) ==
  /\ activePlanets' = IF p \in activePlanets THEN activePlanets \ {p}
                      ELSE activePlanets \cup {p}
  /\ UNCHANGED <<travelOpen, tables, joinVars, restored>>

Handler(r) ==
  \/ FindTravel(r) \/ FindMember(r) \/ CountMembers(r) \/ Insert(r) \/ Refuse(r)
  \/ FindPlanets(r) \/ (\E p \in Planets : SavePlanet(r, p))
  \/ Respond(r) \/ CutShort(r)

Next ==
  \/ \E r \in Requests : (\E u \in Users : BeginJoin(r, u)) \/ Handler(r)
  \/ \E u \in Users : Ban(u) \/ Unban(u)
  \/ SwitchTravel
  \/ \E p \in Planets : SwitchPlanet(p)

Spec == Init /\ [][Next]_vars

----------------------------------------------------------------------------
(* Properties                                                              *)

\* The capacity check and the INSERT are not atomic, so concurrent joins can
\* exceed MaxMembers; but only by the requests handled at the same time less
\* one, whatever the order of the calls.  A ban's end makes a member active
\* without a check, so those members are not counted.
OvershootBounded ==
  Cardinality(Active \ restored) <= MaxMembers - 1 + Cardinality(Requests)

\* A banned member stays banned until the end of the ban: no join overwrites
\* the row, not even one whose membership check was made before the ban or before the row.
BannedStaysOut ==
  [][\A u \in Users :
       travelUsers[u] = "banned" /\ travelUsers'[u] # "banned" => Unban(u)]_vars

\* Of concurrent requests of one user (a double tap, a retry) at most one gets
\* past the INSERT, and its planet rows never meet rows that are there already.
OneJoinPerUser ==
  \A r \in Requests : pc[r] \in {"planets", "saving"} =>
    /\ \A q \in Requests : pc[q] \in {"planets", "saving"} /\ q # r =>
         requester[q] # requester[r]
    /\ \A p \in todo[r] : requester[r] \notin planetUsers[p]

\* A user in a group planet has a row in the travel, so every planet member is
\* subject to the travel's bans: no join enters a planet before, or without,
\* its row.
PlanetMembersAreListed ==
  \A p \in Planets : \A u \in planetUsers[p] : travelUsers[u] # "none"

\* What the controller's documentation says: joining a travel joins all its
\* group planets.  It need not: an error in afterCreate is swallowed, and the
\* user cannot join again.
JoinEntersAllGroups ==
  [][\A r \in Requests :
       pc[r] \in {"planets", "saving"} /\ pc'[r] = "idle" =>
         \A p \in activePlanets : requester[r] \in planetUsers'[p]]_vars
============================================================================
