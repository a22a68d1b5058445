----------------------- MODULE TravelMembershipProofs -----------------------
(***************************************************************************)
(* Proofs about TravelMembership, for any number of users, requests and    *)
(* planets.                                                                *)
(*                                                                         *)
(* The bound on the members is not inductive: what has to be counted with  *)
(* the members are the requests that have passed the count and not yet     *)
(* inserted (CapacityInv).  That a join meets no planet row of its user    *)
(* needs the order of the two tables' rows (RowsInv).                      *)
(***************************************************************************)
EXTENDS TravelMembership, FiniteSetTheorems, TLAPS

Counted == Active \ restored
Passing == {r \in Requests : pc[r] = "insert"}
Entering(r) == pc[r] \in {"planets", "saving"}

CapacityInv ==
  Cardinality(Counted) + Cardinality(Passing)
    <= MaxMembers - 1 + Cardinality(Requests)

RowsInv ==
  /\ PlanetMembersAreListed
  /\ OneJoinPerUser
  /\ \A r \in Requests : Entering(r) => travelUsers[requester[r]] # "none"
  /\ \A r \in Requests : pc[r] = "planets" =>
       \A p \in Planets : requester[r] \notin planetUsers[p]

IInv == TypeOK /\ CapacityInv /\ RowsInv

----------------------------------------------------------------------------
(* Type correctness                                                        *)

\* The initial state is well typed.
LEMMA InitTypeOK == Init => TypeOK
  BY MembershipAssumption DEF Init, TypeOK, RowStatus, Calls

\* Every call of a handler keeps the types, and frees a slot with its user.
LEMMA HandlerTypeOK ==
  ASSUME TypeOK, NEW r \in Requests, Handler(r)
  PROVE  TypeOK'
<1>1. requester[r] # NoUser => requester[r] \in Users
  BY DEF TypeOK
<1>2. CASE FindTravel(r) \/ FindMember(r) \/ CountMembers(r)
  BY <1>2 DEF FindTravel, FindMember, CountMembers, Call, TypeOK, Calls, tables
<1>3. CASE Insert(r)
  BY <1>3 DEF Insert, Call, TypeOK, Calls, RowStatus
<1>4. CASE Refuse(r) \/ Respond(r) \/ CutShort(r)
  BY <1>4 DEF Refuse, Respond, CutShort, Answer, TypeOK, Calls, tables
<1>5. CASE FindPlanets(r)
  BY <1>5 DEF FindPlanets, Call, TypeOK, Calls, tables
<1>6. CASE \E p \in Planets : SavePlanet(r, p)
  BY <1>1, <1>6 DEF SavePlanet, TypeOK
<1>7. QED
  BY <1>2, <1>3, <1>4, <1>5, <1>6 DEF Handler

\* Every step keeps the types.
LEMMA NextTypeOK == TypeOK /\ [Next]_vars => TypeOK'
<1> SUFFICES ASSUME TypeOK, [Next]_vars PROVE TypeOK'
  OBVIOUS
<1>1. CASE UNCHANGED vars
  BY <1>1 DEF vars, TypeOK
<1>2. ASSUME NEW r \in Requests, NEW u \in Users, BeginJoin(r, u)
      PROVE  TypeOK'
  BY <1>2, MembershipAssumption DEF BeginJoin, Call, TypeOK, Calls, tables
<1>3. ASSUME NEW r \in Requests, Handler(r)
      PROVE  TypeOK'
  BY <1>3, HandlerTypeOK
<1>4. ASSUME NEW u \in Users, Ban(u) \/ Unban(u)
      PROVE  TypeOK'
  BY <1>4 DEF Ban, Unban, joinVars, TypeOK, RowStatus
<1>5. CASE SwitchTravel \/ \E p \in Planets : SwitchPlanet(p)
  BY <1>5 DEF SwitchTravel, SwitchPlanet, tables, joinVars, TypeOK
<1>6. QED
  BY <1>1, <1>2, <1>3, <1>4, <1>5 DEF Next

\* Every reachable state is well typed.
THEOREM TypeCorrect == Spec => []TypeOK
  BY InitTypeOK, NextTypeOK, PTL DEF Spec

----------------------------------------------------------------------------
(* The capacity bound                                                      *)

\* The sets that are counted are finite.
LEMMA CountedFinite ==
  /\ IsFiniteSet(Counted) /\ Cardinality(Counted) \in Nat
  /\ IsFiniteSet(Passing) /\ Cardinality(Passing) \in Nat
  /\ IsFiniteSet(Active) /\ Cardinality(Active) \in Nat
  /\ Cardinality(Counted) <= Cardinality(Active)
  /\ Cardinality(Passing) <= Cardinality(Requests)
  /\ Cardinality(Requests) \in Nat
  /\ MaxMembers \in Nat /\ MaxMembers >= 1
<1>1. IsFiniteSet(Users) /\ IsFiniteSet(Requests) /\ MaxMembers \in Nat \ {0}
  BY MembershipAssumption
<1>2. Active \subseteq Users /\ Counted \subseteq Active /\ Passing \subseteq Requests
  BY DEF Active, Counted, Passing
<1>3. IsFiniteSet(Active) /\ IsFiniteSet(Counted) /\ IsFiniteSet(Passing)
  BY <1>1, <1>2, FS_Subset
<1>4. /\ Cardinality(Counted) <= Cardinality(Active)
      /\ Cardinality(Passing) <= Cardinality(Requests)
  BY <1>1, <1>2, <1>3, FS_Subset
<1>5. QED
  BY <1>1, <1>3, <1>4, FS_CardinalityType

\* A step that counts nobody new and passes no request keeps the bound.
LEMMA CapacityMonotone ==
  ASSUME CapacityInv, Counted' \subseteq Counted, Passing' \subseteq Passing
  PROVE  CapacityInv'
<1>1. /\ Cardinality(Counted') <= Cardinality(Counted)
      /\ Cardinality(Passing') <= Cardinality(Passing)
      /\ Cardinality(Counted') \in Nat
      /\ Cardinality(Passing') \in Nat
  BY CountedFinite, FS_Subset, FS_CardinalityType
<1>2. Cardinality(Counted)' = Cardinality(Counted')
      /\ Cardinality(Passing)' = Cardinality(Passing')
  OBVIOUS
<1>3. QED
  BY <1>1, <1>2, CountedFinite DEF CapacityInv

\* A request passes the count only below the maximum, and at most all pass.
LEMMA CountCapacity ==
  ASSUME TypeOK, CapacityInv, NEW r \in Requests, CountMembers(r)
  PROVE  CapacityInv'
<1>1. Counted' = Counted
  BY DEF CountMembers, tables, Counted, Active
<1>2. Cardinality(Counted) <= MaxMembers - 1
  BY CountedFinite DEF CountMembers
<1>3. IsFiniteSet(Requests) /\ Passing' \subseteq Requests
  BY MembershipAssumption DEF Passing
<1>4. Cardinality(Passing') <= Cardinality(Requests) /\ Cardinality(Passing') \in Nat
  BY <1>3, FS_Subset, FS_CardinalityType
<1>5. QED
  BY <1>1, <1>2, <1>4, CountedFinite DEF CapacityInv

\* The INSERT counts one more member and one request less.
LEMMA InsertCapacity ==
  ASSUME TypeOK, CapacityInv, NEW r \in Requests, Insert(r)
  PROVE  CapacityInv'
<1> DEFINE u == requester[r]
<1>1. u \in Users
  BY DEF Insert, Call, TypeOK
<1>2. Counted' \subseteq Counted \cup {u}
  BY <1>1 DEF Insert, Counted, Active, TypeOK
<1>3. /\ IsFiniteSet(Counted \cup {u})
      /\ Cardinality(Counted \cup {u}) \in Nat
      /\ Cardinality(Counted \cup {u}) <= Cardinality(Counted) + 1
  <2>1. IsFiniteSet(Counted)
    BY CountedFinite
  <2>2. /\ IsFiniteSet(Counted \cup {u})
        /\ \/ Cardinality(Counted \cup {u}) = Cardinality(Counted)
           \/ Cardinality(Counted \cup {u}) = Cardinality(Counted) + 1
    BY <2>1, FS_AddElement
  <2>3. QED
    BY <2>2, CountedFinite
<1>4. Cardinality(Counted') <= Cardinality(Counted) + 1 /\ Cardinality(Counted') \in Nat
  <2>1. /\ IsFiniteSet(Counted')
        /\ Cardinality(Counted') <= Cardinality(Counted \cup {u})
    BY <1>2, <1>3, FS_Subset
  <2>2. Cardinality(Counted') \in Nat
    BY <2>1, FS_CardinalityType
  <2>3. QED
    BY <1>3, <2>1, <2>2, CountedFinite
<1>5. r \in Passing /\ Passing' = Passing \ {r}
  BY DEF Insert, Call, Passing, TypeOK
<1>6. Cardinality(Passing') = Cardinality(Passing) - 1
  BY <1>5, CountedFinite, FS_RemoveElement
<1>7. QED
  BY <1>4, <1>6, CountedFinite DEF CapacityInv

\* Every step keeps the bound.
LEMMA NextCapacity == TypeOK /\ CapacityInv /\ [Next]_vars => CapacityInv'
<1> SUFFICES ASSUME TypeOK, CapacityInv, [Next]_vars PROVE CapacityInv'
  OBVIOUS
<1>1. CASE UNCHANGED vars
  BY <1>1, CapacityMonotone DEF vars, Counted, Active, Passing
<1>2. ASSUME NEW r \in Requests, NEW u \in Users, BeginJoin(r, u)
      PROVE  CapacityInv'
  BY <1>2, CapacityMonotone
     DEF BeginJoin, Call, tables, Counted, Active, Passing, TypeOK
<1>3. ASSUME NEW r \in Requests, Handler(r)
      PROVE  CapacityInv'
  <2>1. CASE CountMembers(r)
    BY <2>1, CountCapacity
  <2>2. CASE Insert(r)
    BY <2>2, InsertCapacity
  <2>3. CASE FindTravel(r) \/ FindMember(r) \/ FindPlanets(r)
    BY <2>3, CapacityMonotone
       DEF FindTravel, FindMember, FindPlanets, Call, tables, Counted, Active,
           Passing, TypeOK
  <2>4. CASE Refuse(r) \/ Respond(r) \/ CutShort(r)
    BY <2>4, CapacityMonotone
       DEF Refuse, Respond, CutShort, Answer, tables, Counted, Active, Passing,
           TypeOK
  <2>5. CASE \E p \in Planets : SavePlanet(r, p)
    BY <2>5, CapacityMonotone DEF SavePlanet, Counted, Active, Passing
  <2>6. QED
    BY <1>3, <2>1, <2>2, <2>3, <2>4, <2>5 DEF Handler
<1>4. ASSUME NEW u \in Users, Ban(u) \/ Unban(u)
      PROVE  CapacityInv'
  BY <1>4, CapacityMonotone
     DEF Ban, Unban, joinVars, Counted, Active, Passing, TypeOK
<1>5. CASE SwitchTravel \/ \E p \in Planets : SwitchPlanet(p)
  BY <1>5, CapacityMonotone
     DEF SwitchTravel, SwitchPlanet, tables, joinVars, Counted, Active, Passing
<1>6. QED
  BY <1>1, <1>2, <1>3, <1>4, <1>5 DEF Next

\* Initially nobody is counted.
LEMMA InitCapacity == Init => CapacityInv
<1> SUFFICES ASSUME Init PROVE CapacityInv
  OBVIOUS
<1>1. Counted = {} /\ Passing = {}
  BY DEF Init, Counted, Active, Passing
<1>2. QED
  BY <1>1, CountedFinite, FS_EmptySet DEF CapacityInv

----------------------------------------------------------------------------
(* The order of the rows                                                   *)

\* Initially there are no rows and no requests.
LEMMA InitRows == Init => RowsInv
  BY DEF Init, RowsInv, PlanetMembersAreListed, OneJoinPerUser, Entering

\* A handler's call keeps the order of the rows.
LEMMA HandlerRows ==
  ASSUME TypeOK, TypeOK', RowsInv, NEW r \in Requests, Handler(r)
  PROVE  RowsInv'
<1> USE DEF RowsInv, PlanetMembersAreListed, OneJoinPerUser, Entering
<1>1. CASE FindTravel(r) \/ FindMember(r) \/ CountMembers(r)
  BY <1>1 DEF FindTravel, FindMember, CountMembers, Call, TypeOK, tables
<1>2. CASE Insert(r)
  <2>1. travelUsers[requester[r]] = "none" /\ requester[r] \in Users
    BY <1>2 DEF Insert, Call, TypeOK
  <2>2. \A p \in Planets : requester[r] \notin planetUsers[p]
    BY <2>1
  <2>3. \A q \in Requests : Entering(q) => requester[q] # requester[r]
    BY <2>1
  <2>4. \A u \in Users : travelUsers[u] # "none" => travelUsers'[u] # "none"
    BY <1>2 DEF Insert, TypeOK
  <2>5. travelUsers'[requester[r]] # "none"
    BY <1>2, <2>1 DEF Insert, TypeOK
  <2>6. \A q \in Requests : Entering(q)' <=> Entering(q) \/ q = r
    BY <1>2 DEF Insert, Call, TypeOK
  <2>7. UNCHANGED <<planetUsers, requester, todo>>
    BY <1>2 DEF Insert
  <2>8. PlanetMembersAreListed'
    BY <2>4, <2>7 DEF TypeOK
  <2>9. \A q \in Requests : Entering(q)' => requester[q] \in Users
    BY <2>1, <2>6 DEF TypeOK
  <2>10. OneJoinPerUser'
    BY <2>2, <2>3, <2>6, <2>7 DEF TypeOK
  <2>11. \A q \in Requests : Entering(q)' => travelUsers'[requester'[q]] # "none"
    BY <2>4, <2>5, <2>6, <2>7, <2>9
  <2>12. \A q \in Requests : pc'[q] = "planets" => pc[q] = "planets" \/ q = r
    BY <1>2 DEF Insert, Call, TypeOK
  <2>13. QED
    BY <2>2, <2>7, <2>8, <2>10, <2>11, <2>12
<1>3. CASE Refuse(r) \/ Respond(r) \/ CutShort(r)
  BY <1>3 DEF Refuse, Respond, CutShort, Answer, TypeOK, tables
<1>4. CASE FindPlanets(r)
  BY <1>4 DEF FindPlanets, Call, TypeOK, tables
<1>5. ASSUME NEW p \in Planets, SavePlanet(r, p)
      PROVE  RowsInv'
  <2>1. pc[r] = "saving" /\ travelUsers[requester[r]] # "none"
    BY <1>5 DEF SavePlanet
  <2>2. \A x \in Planets : planetUsers'[x] \subseteq planetUsers[x] \cup {requester[r]}
    BY <1>5 DEF SavePlanet, TypeOK
  <2>3. \A x \in Planets : x # p => planetUsers'[x] = planetUsers[x]
    BY <1>5 DEF SavePlanet, TypeOK
  <2>4. \A q \in Requests : todo'[q] = IF q = r THEN todo[q] \ {p} ELSE todo[q]
    BY <1>5 DEF SavePlanet, TypeOK
  <2>5. UNCHANGED <<travelUsers, pc, requester>>
    BY <1>5 DEF SavePlanet
  <2>6. \A q \in Requests : Entering(q) /\ q # r => requester[q] # requester[r]
    BY <2>1
  <2>7. PlanetMembersAreListed'
    BY <2>1, <2>2, <2>5
  <2>8. OneJoinPerUser'
    BY <2>2, <2>3, <2>4, <2>5, <2>6 DEF TypeOK
  <2>9. QED
    BY <2>1, <2>2, <2>5, <2>6, <2>7, <2>8
<1>6. QED
  BY <1>1, <1>2, <1>3, <1>4, <1>5 DEF Handler

\* Every step keeps the order of the rows.
LEMMA NextRows == TypeOK /\ RowsInv /\ [Next]_vars => RowsInv'
<1> SUFFICES ASSUME TypeOK, RowsInv, [Next]_vars PROVE RowsInv'
  OBVIOUS
<1>0. TypeOK'
  BY NextTypeOK
<1> USE DEF RowsInv, PlanetMembersAreListed, OneJoinPerUser, Entering
<1>1. CASE UNCHANGED vars
  BY <1>1 DEF vars
<1>2. ASSUME NEW r \in Requests, NEW u \in Users, BeginJoin(r, u)
      PROVE  RowsInv'
  BY <1>2 DEF BeginJoin, Call, TypeOK, tables
<1>3. ASSUME NEW r \in Requests, Handler(r)
      PROVE  RowsInv'
  BY <1>0, <1>3, HandlerRows
<1>4. ASSUME NEW u \in Users, Ban(u) \/ Unban(u)
      PROVE  RowsInv'
  BY <1>4 DEF Ban, Unban, joinVars, TypeOK
<1>5. CASE SwitchTravel \/ \E p \in Planets : SwitchPlanet(p)
  BY <1>5 DEF SwitchTravel, SwitchPlanet, tables, joinVars
<1>6. QED
  BY <1>1, <1>2, <1>3, <1>4, <1>5 DEF Next

----------------------------------------------------------------------------
(* The theorems                                                            *)

\* The inductive invariant holds in every reachable state.
THEOREM Invariance == Spec => []IInv
<1>1. Init => IInv
  BY InitTypeOK, InitCapacity, InitRows DEF IInv
<1>2. IInv /\ [Next]_vars => IInv'
  BY NextTypeOK, NextCapacity, NextRows DEF IInv
<1>3. QED
  BY <1>1, <1>2, PTL DEF Spec

\* Concurrent joins exceed the maximum by fewer members than there are
\* requests handled at the same time.
THEOREM CapacityHolds == Spec => []OvershootBounded
<1>1. IInv => OvershootBounded
  BY CountedFinite DEF IInv, CapacityInv, Counted, OvershootBounded
<1>2. QED
  BY <1>1, Invariance, PTL

\* At most one request of a user gets past the INSERT.
THEOREM OneJoinHolds == Spec => []OneJoinPerUser
<1>1. IInv => OneJoinPerUser
  BY DEF IInv, RowsInv
<1>2. QED
  BY <1>1, Invariance, PTL

\* No user is in a group planet without a row in the travel.
THEOREM PlanetMembersHold == Spec => []PlanetMembersAreListed
<1>1. IInv => PlanetMembersAreListed
  BY DEF IInv, RowsInv
<1>2. QED
  BY <1>1, Invariance, PTL

\* No join ends a ban.
THEOREM BansHold == Spec => BannedStaysOut
<1> DEFINE Kept(u) == travelUsers[u] = "banned" /\ travelUsers'[u] # "banned"
                        => Unban(u)
<1>1. ASSUME TypeOK, Next, NEW u \in Users
      PROVE  Kept(u)
  <2>1. CASE \E r \in Requests : Insert(r)
    BY <2>1 DEF Insert, TypeOK
  <2>2. CASE \E v \in Users : Ban(v)
    BY <2>2, <1>1 DEF Ban, TypeOK
  <2>3. CASE \E v \in Users : Unban(v)
    BY <2>3, <1>1 DEF Unban, TypeOK
  <2>4. CASE UNCHANGED travelUsers
    BY <2>4
  <2>5. QED
    BY <1>1, <2>1, <2>2, <2>3, <2>4
       DEF Next, Handler, BeginJoin, FindTravel, FindMember, CountMembers, Refuse,
           FindPlanets, SavePlanet, Respond, CutShort, SwitchTravel, SwitchPlanet,
           tables
<1>2. TypeOK /\ [Next]_vars => [\A u \in Users :
        travelUsers[u] = "banned" /\ travelUsers'[u] # "banned" => Unban(u)]_vars
  BY <1>1
<1>3. QED
  BY <1>2, TypeCorrect, PTL DEF Spec, BannedStaysOut
============================================================================
