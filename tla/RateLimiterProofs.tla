-------------------------- MODULE RateLimiterProofs --------------------------
(***************************************************************************)
(* Proofs about RateLimiter, for any number of checks, any limits, windows *)
(* and block times.                                                        *)
(*                                                                         *)
(* Neither bound is inductive.  The burst never exceeds what the counter   *)
(* holds from checks that could read it, as long as it does not outlive    *)
(* the counter; and the counter has to be bounded together with the checks *)
(* that are about to increment it (UsageInv).  The late messages have to   *)
(* be counted with the checks that went past the block (BlockInv).         *)
(***************************************************************************)
EXTENDS RateLimiter, FiniteSetTheorems, TLAPS

Counting == {c \in Checks : check[c].step = "increment" /\ ~check[c].failed}
Past == {c \in Checks : check[c].step \in {"usage", "increment"} /\ ~check[c].failed}

UsageInv == key \in Configured =>
  /\ quiet <= ttl
  /\ burst + blind <= usage
  /\ usage + Cardinality(Counting) <= MaxLimit - 1 + Cardinality(Checks) + blind

BlockInv ==
  /\ block = 0 => late = 0
  /\ block > 0 => late + Cardinality(Past) <= Cardinality(Checks) - 1

UnlimitedInv == key \notin Configured =>
  /\ block = 0
  /\ \A c \in Checks : check[c] = Idle

IInv == TypeOK /\ UsageInv /\ BlockInv /\ UnlimitedInv

----------------------------------------------------------------------------
(* Type correctness                                                        *)

\* What the constants are.
LEMMA Constants ==
  /\ IsFiniteSet(Checks) /\ Cardinality(Checks) \in Nat /\ Cardinality(Checks) >= 1
  /\ MaxLimit \in Nat /\ MaxLimit >= 1
  /\ Window \in Nat /\ Window >= 1
  /\ BlockTime \in Nat
  /\ \A t \in Types : Limit[t] \in Nat /\ Limit[t] <= MaxLimit
<1>1. IsFiniteSet(Checks) /\ Checks # {}
  BY LimiterAssumption
<1>2. Cardinality(Checks) \in Nat /\ Cardinality(Checks) # 0
  BY <1>1, FS_CardinalityType, FS_EmptySet
<1>3. QED
  BY <1>1, <1>2, LimiterAssumption

\* The initial state is well typed.
LEMMA InitTypeOK == Init => TypeOK
  BY Constants DEF Init, TypeOK, NoExpiry

\* A check that is under way is of a type.
LEMMA UnderWay ==
  ASSUME TypeOK, NEW c \in Checks, check[c].step # "idle"
  PROVE  /\ check[c].step \in {"usage", "block", "increment"}
         /\ check[c].type \in Types
         /\ check[c].failed \in BOOLEAN
         /\ check[c] \in [step : {"usage", "block", "increment"}, type : Types, failed : BOOLEAN]
  BY DEF TypeOK, Idle

\* A check that goes on or is over keeps the types.
LEMMA GoOnType ==
  ASSUME TypeOK, NEW c \in Checks,
         NEW from \in {"usage", "block", "increment"},
         NEW to \in {"usage", "block", "increment"},
         GoOn(c, from, to) \/ Finish(c, from)
  PROVE  check' \in [Checks -> {Idle} \cup
            [step : {"usage", "block", "increment"}, type : Types, failed : BOOLEAN]]
<1>1. check[c] \in [step : {"usage", "block", "increment"}, type : Types, failed : BOOLEAN]
  BY UnderWay DEF GoOn, Finish
<1>2. CASE GoOn(c, from, to)
  BY <1>1, <1>2 DEF GoOn, TypeOK
<1>3. CASE Finish(c, from)
  BY <1>3 DEF Finish, TypeOK
<1>4. QED
  BY <1>2, <1>3

\* Every step of a check keeps the types.
LEMMA CheckTypeOK ==
  ASSUME TypeOK, NEW c \in Checks, Check(c)
  PROVE  TypeOK'
<1>1. CASE Unlimited(c)
  BY <1>1, Constants DEF Unlimited, Pass, TypeOK, redis
<1>2. ASSUME NEW t \in Types, IsUserBlocked(c, t)
      PROVE  TypeOK'
  <2>1. PICK failed \in IF BlockTime > 0 THEN BOOLEAN ELSE {FALSE} :
          check' = [check EXCEPT ![c] = [step |-> "usage", type |-> t, failed |-> failed]]
    BY <1>2 DEF IsUserBlocked
  <2>2. failed \in BOOLEAN
    BY <2>1
  <2>3. [step |-> "usage", type |-> t, failed |-> failed]
          \in [step : {"usage", "block", "increment"}, type : Types, failed : BOOLEAN]
    BY <2>2
  <2>4. UNCHANGED <<key, redis, history>>
    BY <1>2 DEF IsUserBlocked
  <2>5. QED
    BY <2>1, <2>3, <2>4 DEF TypeOK, redis, history
<1>3. CASE GetCurrentUsage(c)
  BY <1>3, GoOnType DEF GetCurrentUsage, Refuse, TypeOK, redis, history
<1>4. CASE GetUsageFails(c)
  <2>1. CASE Limit[check[c].type] = 0
    BY <1>4, <2>1, GoOnType DEF GetUsageFails, Refuse, TypeOK, redis, history
  <2>2. CASE Limit[check[c].type] # 0
    BY <1>4, <2>2, UnderWay DEF GetUsageFails, TypeOK, redis, history
  <2>3. QED
    BY <2>1, <2>2
<1>5. CASE BlockUser(c)
  BY <1>5, GoOnType, Constants DEF BlockUser, TypeOK
<1>6. CASE IncrementUsage(c)
  BY <1>6, GoOnType, Constants DEF IncrementUsage, Pass, TypeOK, NoExpiry
<1>7. CASE IncrementFails(c)
  BY <1>7, GoOnType, Constants DEF IncrementFails, TypeOK, NoExpiry
<1>8. CASE CheckDies(c)
  BY <1>8 DEF CheckDies, TypeOK, redis, history
<1>9. QED
  BY <1>1, <1>2, <1>3, <1>4, <1>5, <1>6, <1>7, <1>8 DEF Check

\* Time keeps the types.
LEMMA TickTypeOK == TypeOK /\ Tick => TypeOK'
  BY Constants DEF Tick, TypeOK, NoExpiry, Less

\* Every step keeps the types.
LEMMA NextTypeOK == TypeOK /\ [Next]_vars => TypeOK'
<1>1. TypeOK /\ UNCHANGED vars => TypeOK'
  BY DEF vars, redis, history, TypeOK
<1>2. QED
  BY <1>1, CheckTypeOK, TickTypeOK DEF Next

\* Every reachable state is well typed.
THEOREM TypeCorrect == Spec => []TypeOK
<1>1. Init /\ [][Next]_vars => []TypeOK
  BY InitTypeOK, NextTypeOK, PTL
<1>2. QED
  BY <1>1, PTL DEF Spec


----------------------------------------------------------------------------
(* Without a configuration nothing happens to the keys                     *)

\* The pair does not change, and its checks stay idle if it is not configured.
LEMMA NextUnlimited == TypeOK /\ UnlimitedInv /\ [Next]_vars => UnlimitedInv'
<1> SUFFICES ASSUME TypeOK, UnlimitedInv, [Next]_vars PROVE UnlimitedInv'
  OBVIOUS
<1>1. CASE UNCHANGED vars
  BY <1>1 DEF vars, redis, UnlimitedInv, Configured
<1>2. CASE Tick
  BY <1>2, Constants DEF Tick, Less, UnlimitedInv, Configured
<1>3. ASSUME NEW c \in Checks, Check(c) PROVE UnlimitedInv'
  <2>1. key' = key
    BY <1>3 DEF Check, Unlimited, IsUserBlocked, GetCurrentUsage, GetUsageFails,
                BlockUser, IncrementUsage, IncrementFails, CheckDies
  <2>2. CASE Unlimited(c)
    BY <2>2 DEF Unlimited, redis, UnlimitedInv, Configured
  <2>3. CASE ~Unlimited(c)
    <3>1. ASSUME key \notin Configured PROVE FALSE
      <4>1. check[c] = Idle /\ check[c].step = "idle"
        <5>1. check[c] = Idle
          BY <3>1 DEF UnlimitedInv
        <5>2. QED
          BY <5>1 DEF Idle
      <4>2. ~(\E t \in Types : IsUserBlocked(c, t))
        BY <3>1 DEF IsUserBlocked
      <4>3. ~(GetCurrentUsage(c) \/ GetUsageFails(c) \/ BlockUser(c) \/ CheckDies(c))
        BY <4>1 DEF GetCurrentUsage, GetUsageFails, BlockUser, CheckDies, Finish
      <4>4. ~(IncrementUsage(c) \/ IncrementFails(c))
        BY <4>1 DEF IncrementUsage, IncrementFails, Finish
      <4>5. QED
        BY <1>3, <2>3, <4>2, <4>3, <4>4 DEF Check
    <3>2. QED
      BY <2>1, <3>1 DEF UnlimitedInv, Configured
  <2>4. QED
    BY <2>2, <2>3
<1>4. QED
  BY <1>1, <1>2, <1>3 DEF Next

----------------------------------------------------------------------------
(* The burst                                                               *)

\* The checks that are counted are finitely many.
LEMMA CountingFinite ==
  /\ IsFiniteSet(Counting) /\ Cardinality(Counting) \in Nat
  /\ Cardinality(Counting) <= Cardinality(Checks)
  /\ IsFiniteSet(Past) /\ Cardinality(Past) \in Nat
  /\ Cardinality(Past) <= Cardinality(Checks)
<1>1. Counting \subseteq Checks /\ Past \subseteq Checks
  BY DEF Counting, Past
<1>2. QED
  BY <1>1, Constants, FS_Subset, FS_CardinalityType

\* A subset of a finite set is not larger.
LEMMA NotLarger ==
  ASSUME NEW S, NEW T, IsFiniteSet(S), T \subseteq S
  PROVE  Cardinality(T) \in Nat /\ Cardinality(S) \in Nat /\ Cardinality(T) <= Cardinality(S)
  BY FS_Subset, FS_CardinalityType

\* A set without one of its elements has one less.
LEMMA OneLess ==
  ASSUME NEW S, NEW T, NEW e \in S, IsFiniteSet(S), T \subseteq S \ {e}
  PROVE  Cardinality(T) \in Nat /\ Cardinality(S) \in Nat
         /\ Cardinality(T) <= Cardinality(S) - 1
<1>1. /\ IsFiniteSet(S \ {e}) /\ Cardinality(S \ {e}) = Cardinality(S) - 1
      /\ Cardinality(S) \in Nat
  BY FS_RemoveElement, FS_CardinalityType
<1>2. QED
  BY <1>1, NotLarger

(* What a check does to the two sets, by the step it is at. *)

\* A check that is over, at the block or not yet past it counts nobody new.
LEMMA Leaves ==
  ASSUME TypeOK, NEW c \in Checks, NEW from \in {"usage", "block", "increment"},
         Finish(c, from) \/ GoOn(c, from, "block")
  PROVE  /\ Counting' \subseteq Counting \ {c}
         /\ Past' \subseteq Past \ {c}
<1>1. check' \in [Checks -> {check'[d] : d \in Checks}] /\ check'[c].step \in {"idle", "block"}
  BY DEF TypeOK, Finish, GoOn, Idle
<1>2. \A d \in Checks \ {c} : check'[d] = check[d]
  BY DEF TypeOK, Finish, GoOn
<1>3. QED
  BY <1>1, <1>2 DEF Counting, Past

\* A check that goes on to the increment was past the block before.
LEMMA GoesToIncrement ==
  ASSUME TypeOK, NEW c \in Checks, GoOn(c, "usage", "increment")
  PROVE  Past' = Past
<1>1. check'[c].step = "increment" /\ check'[c].failed = check[c].failed
  BY DEF TypeOK, GoOn
<1>2. \A d \in Checks \ {c} : check'[d] = check[d]
  BY DEF TypeOK, GoOn
<1>3. QED
  BY <1>1, <1>2 DEF Past, GoOn

\* A check that Redis fails is not counted.
LEMMA FailsUsage ==
  ASSUME TypeOK, NEW c \in Checks, GetUsageFails(c)
  PROVE  /\ Counting' \subseteq Counting
         /\ Past' \subseteq Past
<1>1. CASE Limit[check[c].type] = 0
  BY <1>1, Leaves DEF GetUsageFails, Refuse
<1>2. CASE Limit[check[c].type] # 0
  <2>1. check' = [check EXCEPT ![c].step = "increment", ![c].failed = TRUE]
    BY <1>2 DEF GetUsageFails
  <2>2. check'[c].failed /\ \A d \in Checks \ {c} : check'[d] = check[d]
    BY <2>1, UnderWay DEF TypeOK, GetUsageFails
  <2>3. QED
    BY <2>2 DEF Counting, Past
<1>3. QED
  BY <1>1, <1>2

\* A check that begins is not about to increment, and past a block only by a failure.
LEMMA Begins ==
  ASSUME TypeOK, NEW c \in Checks, NEW t \in Types, IsUserBlocked(c, t)
  PROVE  /\ Counting' \subseteq Counting
         /\ block > 0 => Past' \subseteq Past
<1>1. PICK failed \in IF BlockTime > 0 THEN BOOLEAN ELSE {FALSE} :
        /\ ~failed => block = 0
        /\ check' = [check EXCEPT ![c] = [step |-> "usage", type |-> t, failed |-> failed]]
  BY DEF IsUserBlocked
<1>2. \A d \in Checks \ {c} : check'[d] = check[d]
  BY <1>1 DEF TypeOK
<1>3. check'[c].step = "usage" /\ check'[c].failed = failed
  BY <1>1 DEF TypeOK
<1>4. Counting' \subseteq Counting
  BY <1>2, <1>3 DEF Counting
<1>5. ASSUME block > 0 PROVE Past' \subseteq Past
  BY <1>1, <1>2, <1>3, <1>5, Constants DEF Past, TypeOK
<1>6. QED
  BY <1>4, <1>5

\* A server that dies counts nobody new.
LEMMA Dies ==
  ASSUME TypeOK, NEW c \in Checks, CheckDies(c)
  PROVE  Counting' \subseteq Counting /\ Past' \subseteq Past
<1>1. check'[c] = Idle /\ \A d \in Checks \ {c} : check'[d] = check[d]
  BY DEF CheckDies, TypeOK
<1>2. QED
  BY <1>1 DEF Counting, Past, Idle

----------------------------------------------------------------------------
(* The burst                                                               *)

\* A step that leaves the counter alone and counts nobody new keeps the bound.
LEMMA UsageKept ==
  ASSUME TypeOK, UsageInv, Counting' \subseteq Counting,
         UNCHANGED <<key, usage, ttl, blind, burst, quiet>>
  PROVE  UsageInv'
<1>1. /\ Cardinality(Counting') \in Nat
      /\ Cardinality(Counting') <= Cardinality(Counting)
  BY CountingFinite, NotLarger
<1>2. QED
  BY <1>1, CountingFinite, Constants DEF UsageInv, TypeOK, Configured

\* A check passes only below the limit, and at most all of them do.
LEMMA PassesUsage ==
  ASSUME TypeOK, UsageInv, NEW c \in Checks, GetCurrentUsage(c)
  PROVE  UsageInv'
<1>1. CASE UsedUp(check[c].type)
  <2>1. Counting' \subseteq Counting
    BY <1>1, Leaves DEF GetCurrentUsage, Refuse
  <2>2. QED
    BY <2>1, UsageKept DEF GetCurrentUsage, redis, history
<1>2. CASE ~UsedUp(check[c].type)
  <2>1. check[c].type \in Types
    BY UnderWay DEF GetCurrentUsage
  <2>2. usage <= MaxLimit - 1
    BY <1>2, <2>1, Constants DEF UsedUp, TypeOK
  <2>3. Counting' \subseteq Checks
    BY DEF Counting
  <2>4. /\ Cardinality(Counting') \in Nat
        /\ Cardinality(Counting') <= Cardinality(Checks)
    BY <2>3, Constants, NotLarger
  <2>5. QED
    BY <2>2, <2>4, Constants DEF GetCurrentUsage, UsageInv, TypeOK, Configured, redis, history
<1>3. QED
  BY <1>1, <1>2

\* The increment counts what passes, and is no longer about to.
LEMMA IncrementUsageInv ==
  ASSUME TypeOK, UsageInv, NEW c \in Checks, IncrementUsage(c)
  PROVE  UsageInv'
<1>1. Counting' \subseteq Counting \ {c}
  BY Leaves DEF IncrementUsage
<1>2. /\ Cardinality(Counting') \in Nat
      /\ Cardinality(Counting') <= Cardinality(Counting)
  BY <1>1, CountingFinite, NotLarger
<1>3. CASE check[c].failed
  BY <1>2, <1>3, CountingFinite, Constants
     DEF IncrementUsage, UsageInv, TypeOK, Configured, NoExpiry
<1>4. CASE ~check[c].failed
  <2>1. c \in Counting
    BY <1>4 DEF IncrementUsage, Finish, Counting
  <2>2. Cardinality(Counting') <= Cardinality(Counting) - 1
    BY <1>1, <2>1, CountingFinite, OneLess
  <2>3. QED
    BY <1>2, <1>4, <2>2, CountingFinite, Constants
       DEF IncrementUsage, Pass, UsageInv, TypeOK, Configured, NoExpiry
<1>5. QED
  BY <1>3, <1>4

\* A pipeline that breaks counts at most what is blind.
LEMMA IncrementFailsInv ==
  ASSUME TypeOK, UsageInv, NEW c \in Checks, IncrementFails(c)
  PROVE  UsageInv'
<1>1. Counting' \subseteq Counting
  BY Leaves DEF IncrementFails
<1>2. /\ Cardinality(Counting') \in Nat
      /\ Cardinality(Counting') <= Cardinality(Counting)
  BY <1>1, CountingFinite, NotLarger
<1>3. CASE UNCHANGED <<usage, ttl, blind>>
  BY <1>1, <1>3, UsageKept DEF IncrementFails
<1>4. CASE /\ usage' = usage + 1
           /\ ttl' = IF ttl = 0 THEN NoExpiry ELSE ttl
           /\ blind' = blind + 1
  BY <1>2, <1>4, CountingFinite, Constants
     DEF IncrementFails, UsageInv, TypeOK, Configured, NoExpiry
<1>5. QED
  BY <1>3, <1>4 DEF IncrementFails

\* A counter that expires takes the burst with it.
LEMMA TickUsage ==
  ASSUME TypeOK, UsageInv, Tick
  PROVE  UsageInv'
<1>1. Counting' = Counting
  BY DEF Tick, Counting
<1>2. QED
  BY <1>1, CountingFinite, Constants DEF Tick, Less, UsageInv, TypeOK, Configured, NoExpiry

\* Every step keeps the burst below the counter, and the counter bounded.
LEMMA NextUsage == TypeOK /\ UsageInv /\ [Next]_vars => UsageInv'
<1> SUFFICES ASSUME TypeOK, UsageInv, [Next]_vars PROVE UsageInv'
  OBVIOUS
<1>1. CASE UNCHANGED vars
  BY <1>1, UsageKept DEF vars, redis, history, Counting
<1>2. ASSUME NEW c \in Checks, Check(c) PROVE UsageInv'
  <2>1. CASE Unlimited(c)
    BY <2>1 DEF Unlimited, UsageInv, Configured
  <2>2. CASE \E t \in Types : IsUserBlocked(c, t)
    BY <2>2, Begins, UsageKept DEF IsUserBlocked, redis, history
  <2>3. CASE GetCurrentUsage(c)
    BY <2>3, PassesUsage
  <2>4. CASE GetUsageFails(c)
    BY <2>4, FailsUsage, UsageKept DEF GetUsageFails, redis, history
  <2>5. CASE BlockUser(c)
    BY <2>5, Leaves, UsageKept DEF BlockUser
  <2>6. CASE IncrementUsage(c) \/ IncrementFails(c)
    BY <2>6, IncrementUsageInv, IncrementFailsInv
  <2>7. CASE CheckDies(c)
    BY <2>7, Dies, UsageKept DEF CheckDies, redis, history
  <2>8. QED
    BY <1>2, <2>1, <2>2, <2>3, <2>4, <2>5, <2>6, <2>7 DEF Check
<1>3. QED
  BY <1>1, <1>2, TickUsage DEF Next

----------------------------------------------------------------------------
(* The block                                                               *)

\* A step that passes nobody and lets nobody past the block keeps the bound.
LEMMA BlockKept ==
  ASSUME TypeOK, BlockInv, UNCHANGED <<block, late>>,
         block > 0 => Past' \subseteq Past
  PROVE  BlockInv'
<1>1. CASE block = 0
  BY <1>1 DEF BlockInv
<1>2. CASE block > 0
  <2>1. /\ Cardinality(Past') \in Nat
        /\ Cardinality(Past') <= Cardinality(Past)
    BY <1>2, CountingFinite, NotLarger
  <2>2. QED
    BY <1>2, <2>1, CountingFinite, Constants DEF BlockInv, TypeOK
<1>3. QED
  BY <1>1, <1>2, Constants DEF TypeOK

\* The check that begins a block is not past it.
LEMMA BlockUserBlock ==
  ASSUME TypeOK, BlockInv, NEW c \in Checks, BlockUser(c)
  PROVE  BlockInv'
<1>1. Past' \subseteq Past \ {c}
  BY Leaves DEF BlockUser
<1>2. CASE UNCHANGED <<block, late>>
  BY <1>1, <1>2, BlockKept
<1>3. CASE block' = BlockTime /\ late' = IF block = 0 THEN 0 ELSE late
  <2>1. Past' \subseteq Checks \ {c}
    BY <1>1 DEF Past
  <2>2. /\ Cardinality(Past') \in Nat
        /\ Cardinality(Past') <= Cardinality(Checks) - 1
    BY <2>1, Constants, OneLess
  <2>3. Cardinality(Past') <= Cardinality(Past)
    BY <1>1, CountingFinite, NotLarger
  <2>4. CASE block = 0
    BY <1>3, <2>2, <2>4, Constants DEF BlockInv
  <2>5. CASE block > 0
    BY <1>3, <2>2, <2>3, <2>5, CountingFinite, Constants DEF BlockInv, TypeOK
  <2>6. QED
    BY <2>4, <2>5, Constants DEF TypeOK
<1>4. QED
  BY <1>2, <1>3 DEF BlockUser

\* A late message was past the block, and is no longer.
LEMMA IncrementBlock ==
  ASSUME TypeOK, BlockInv, NEW c \in Checks, IncrementUsage(c)
  PROVE  BlockInv'
<1>1. Past' \subseteq Past \ {c}
  BY Leaves DEF IncrementUsage
<1>2. CASE check[c].failed
  BY <1>1, <1>2, BlockKept DEF IncrementUsage
<1>3. CASE ~check[c].failed
  <2>1. c \in Past
    BY <1>3 DEF IncrementUsage, Finish, Past
  <2>2. /\ Cardinality(Past') \in Nat
        /\ Cardinality(Past') <= Cardinality(Past) - 1
    BY <1>1, <2>1, CountingFinite, OneLess
  <2>3. block' = block /\ late' = IF block > 0 THEN late + 1 ELSE late
    BY <1>3 DEF IncrementUsage, Pass
  <2>4. QED
    BY <2>2, <2>3, CountingFinite, Constants DEF BlockInv, TypeOK
<1>4. QED
  BY <1>2, <1>3

\* Every step keeps the late messages and the checks past the block in bounds.
LEMMA NextBlock == TypeOK /\ UnlimitedInv /\ BlockInv /\ [Next]_vars => BlockInv'
<1> SUFFICES ASSUME TypeOK, UnlimitedInv, BlockInv, [Next]_vars PROVE BlockInv'
  OBVIOUS
<1>1. CASE UNCHANGED vars
  BY <1>1, BlockKept DEF vars, redis, history, Past
<1>2. CASE Tick
  <2>1. Past' = Past
    BY <1>2 DEF Tick, Past
  <2>2. QED
    BY <1>2, <2>1, CountingFinite, Constants DEF Tick, Less, BlockInv, TypeOK
<1>3. ASSUME NEW c \in Checks, Check(c) PROVE BlockInv'
  <2>1. CASE Unlimited(c)
    <3>1. block = 0 /\ block' = block /\ late' = late
      BY <2>1 DEF Unlimited, Pass, redis, UnlimitedInv
    <3>2. QED
      BY <3>1, BlockKept
  <2>2. CASE \E t \in Types : IsUserBlocked(c, t)
    BY <2>2, Begins, BlockKept DEF IsUserBlocked, redis, history
  <2>3. CASE GetCurrentUsage(c)
    <3>1. Past' \subseteq Past
      BY <2>3, Leaves, GoesToIncrement DEF GetCurrentUsage, Refuse
    <3>2. QED
      BY <2>3, <3>1, BlockKept DEF GetCurrentUsage, redis, history
  <2>4. CASE GetUsageFails(c)
    BY <2>4, FailsUsage, BlockKept DEF GetUsageFails, redis, history
  <2>5. CASE BlockUser(c)
    BY <2>5, BlockUserBlock
  <2>6. CASE IncrementUsage(c)
    BY <2>6, IncrementBlock
  <2>7. CASE IncrementFails(c)
    BY <2>7, Leaves, BlockKept DEF IncrementFails
  <2>8. CASE CheckDies(c)
    BY <2>8, Dies, BlockKept DEF CheckDies, redis, history
  <2>9. QED
    BY <1>3, <2>1, <2>2, <2>3, <2>4, <2>5, <2>6, <2>7, <2>8 DEF Check
<1>4. QED
  BY <1>1, <1>2, <1>3 DEF Next

----------------------------------------------------------------------------
(* The bounds                                                              *)

\* The invariant holds in every reachable state.
THEOREM LimiterInvariant == Spec => []IInv
<1>1. Init => IInv
  <2>1. ASSUME Init PROVE Counting = {} /\ Past = {} /\ \A c \in Checks : check[c] = Idle
    BY <2>1 DEF Init, Counting, Past, Idle
  <2>2. Cardinality({}) = 0
    BY FS_EmptySet
  <2>3. QED
    <3> SUFFICES ASSUME Init PROVE IInv
      OBVIOUS
    <3>1. UsageInv
      BY <2>1, <2>2, Constants DEF Init, UsageInv
    <3>2. BlockInv
      BY <2>1, <2>2, Constants DEF Init, BlockInv
    <3>3. UnlimitedInv
      BY <2>1 DEF Init, UnlimitedInv
    <3>4. QED
      BY <3>1, <3>2, <3>3, InitTypeOK DEF IInv
<1>2. IInv /\ [Next]_vars => IInv'
  BY NextTypeOK, NextUsage, NextBlock, NextUnlimited DEF IInv
<1>3. QED
  BY <1>1, <1>2, PTL DEF Spec

\* A burst has fewer messages than the limit and the checks together.
THEOREM BurstIsBounded == Spec => []BurstBounded
<1>1. IInv => BurstBounded
  BY CountingFinite, Constants DEF IInv, UsageInv, BurstBounded, TypeOK, Configured
<1>2. QED
  BY <1>1, LimiterInvariant, PTL

\* A block lets pass only messages that were being checked, and not the one
\* that began it.
THEOREM LateIsBounded == Spec => []LateBounded
<1>1. IInv => LateBounded
  BY CountingFinite, Constants DEF IInv, BlockInv, LateBounded, TypeOK
<1>2. QED
  BY <1>1, LimiterInvariant, PTL

=============================================================================
