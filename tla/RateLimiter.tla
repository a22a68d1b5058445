----------------------------- MODULE RateLimiter -----------------------------
(***************************************************************************)
(* The limit on what a user may do in the chat.  The guard of a message    *)
(* asks RateLimitService, which keeps two Redis keys for a user, a scope,   *)
(* an action and an entity: a counter that expires, and a block.  Different *)
(* keys do not touch each other; the module is about one pair of them, any  *)
(* number of messages of the user being checked at a time, on any replica.  *)
(*                                                                         *)
(* An action is what one Redis command does with its answer.  Every failure *)
(* of Redis lets the message pass; RedisService answers "nothing there"     *)
(* when it is not connected.                                               *)
(***************************************************************************)
EXTENDS Naturals, FiniteSets

CONSTANTS
    Checks,     \* messages that may be checked at one time
    Types,      \* types of messages
    Limit,      \* for each type, floor(limit * multiplier)
    MaxLimit,   \* the largest of them
    Window,     \* life of the counter, in ticks
    BlockTime,  \* life of a block, in ticks; 0 when the configuration has none
    Keys,       \* pairs <<scope, action>> that decorators of handlers name
    MaxBlind,   \* bound: counts by checks that could not read the counter
    MaxBurst,   \* bound: messages without a configuration
    NoType      \* "none"

ASSUME LimiterAssumption ==
    /\ IsFiniteSet(Checks) /\ Checks # {}
    /\ NoType \notin Types
    /\ Limit \in [Types -> Nat]
    /\ MaxLimit \in Nat \ {0}
    /\ \A t \in Types : Limit[t] <= MaxLimit
    /\ Window \in Nat \ {0}
    /\ BlockTime \in Nat
    /\ {MaxBlind, MaxBurst} \subseteq Nat

VARIABLES
    key,        \* the pair the behaviour is about
    usage,      \* the counter, 0 without one
    ttl,        \* ticks until it expires; NoExpiry when it was given no expiry
    block,      \* ticks until the block ends, 0 without one
    check,      \* where each check is, for which type, and whether Redis failed it
    blind,      \* history: how much of usage comes from checks that Redis failed
    burst,      \* history: messages passed with less than a window between them
    quiet,      \* history: ticks until the burst is over
    late        \* history: messages passed during the block

redis == <<usage, ttl, block>>
history == <<blind, burst, quiet, late>>
vars == <<key, redis, check, history>>

NoExpiry == Window + 1

Idle == [step |-> "idle", type |-> NoType, failed |-> FALSE]

TypeOK ==
    /\ key \in Keys
    /\ usage \in Nat
    /\ ttl \in 0 .. NoExpiry
    /\ block \in 0 .. BlockTime
    /\ check \in [Checks -> {Idle} \cup
          [step : {"usage", "block", "increment"}, type : Types, failed : BOOLEAN]]
    /\ blind \in Nat
    /\ burst \in Nat
    /\ quiet \in 0 .. Window
    /\ late \in Nat

Init ==
    /\ key \in Keys
    /\ usage = 0 /\ ttl = 0 /\ block = 0
    /\ check = [c \in Checks |-> Idle]
    /\ blind = 0 /\ burst = 0 /\ quiet = 0 /\ late = 0

(* The keys of DEFAULT_RATE_LIMITS.  The one for typing is PLANET_TYPING, and *)
(* the action's name is typing_indicator.                                     *)
Configured ==
    {<<"global", "message_send">>, <<"global", "file_upload">>,
     <<"travel", "message_send">>, <<"planet", "message_send">>,
     <<"planet", "file_upload">>, <<"planet", "typing">>,
     <<"global", "message_edit">>, <<"global", "message_delete">>,
     <<"global", "room_join">>}

GoOn(c, from, to) ==
    /\ check[c].step = from
    /\ check' = [check EXCEPT ![c].step = to]

Finish(c, from) ==
    /\ check[c].step = from
    /\ check' = [check EXCEPT ![c] = Idle]

(* A message passes that Redis did not fail. *)
Pass ==
    /\ burst' = burst + 1
    /\ quiet' = Window
    /\ late' = IF block > 0 THEN late + 1 ELSE late

(* Without a configuration nothing is counted. *)
Unlimited(c) ==
    /\ key \notin Configured
    /\ burst < MaxBurst
    /\ Pass
    /\ UNCHANGED <<key, redis, check, blind>>

(* Variant: the block is not looked at. *)
IsNobodyBlocked(c, t) ==
    /\ key \in Configured
    /\ check[c] = Idle
    /\ check' = [check EXCEPT ![c] = [step |-> "usage", type |-> t, failed |-> FALSE]]
    /\ UNCHANGED <<key, redis, history>>

(* isUserBlocked is FALSE without a block duration, and when Redis fails.  A *)
(* message found blocked is refused, or passes because the TTL it should be  *)
(* told cannot be read; neither leaves a trace.                              *)
IsUserBlocked(c, t) ==
    /\ key \in Configured
    /\ check[c] = Idle
    /\ \E failed \in IF BlockTime > 0 THEN BOOLEAN ELSE {FALSE} :
          /\ ~failed => block = 0
          /\ check' = [check EXCEPT ![c] = [step |-> "usage", type |-> t, failed |-> failed]]
    /\ UNCHANGED <<key, redis, history>>

(* Variant: one too many. *)
MoreThanUsedUp(t) == usage > Limit[t]

UsedUp(t) == usage >= Limit[t]

(* Whoever has used up the limit is refused and, if the configuration says *)
(* so, blocked.                                                            *)
Refuse(c) ==
    IF BlockTime > 0 THEN GoOn(c, "usage", "block") ELSE Finish(c, "usage")

(* Variant: a refused message, too, renews the window. *)
GetUsageRenewing(c) ==
    /\ check[c].step = "usage"
    /\ IF UsedUp(check[c].type)
       THEN Refuse(c) /\ ttl' = IF ttl > 0 THEN Window ELSE ttl
       ELSE GoOn(c, "usage", "increment") /\ UNCHANGED ttl
    /\ UNCHANGED <<key, usage, block, history>>

GetCurrentUsage(c) ==
    /\ check[c].step = "usage"
    /\ IF UsedUp(check[c].type) THEN Refuse(c) ELSE GoOn(c, "usage", "increment")
    /\ UNCHANGED <<key, redis, history>>

(* Without an answer the counter is taken for 0. *)
GetUsageFails(c) ==
    /\ check[c].step = "usage"
    /\ blind < MaxBlind
    /\ IF Limit[check[c].type] = 0
       THEN Refuse(c)
       ELSE check' = [check EXCEPT ![c].step = "increment", ![c].failed = TRUE]
    /\ UNCHANGED <<key, redis, history>>

BlockUser(c) ==
    /\ Finish(c, "block")
    /\ \/ /\ block' = BlockTime
          /\ late' = IF block = 0 THEN 0 ELSE late
       \/ UNCHANGED <<block, late>>
    /\ UNCHANGED <<key, usage, ttl, blind, burst, quiet>>

(* INCR and EXPIRE in one pipeline: every message passed renews the window. *)
IncrementUsage(c) ==
    /\ Finish(c, "increment")
    /\ usage' = usage + 1
    /\ ttl' = Window
    /\ IF check[c].failed
       THEN blind' = blind + 1 /\ UNCHANGED <<burst, quiet, late>>
       ELSE Pass /\ UNCHANGED blind
    /\ UNCHANGED <<key, block>>

(* The pipeline breaks before or after the INCR; the message passes. *)
IncrementFails(c) ==
    /\ Finish(c, "increment")
    /\ \/ UNCHANGED <<usage, ttl, blind>>
       \/ /\ usage' = usage + 1
          /\ ttl' = IF ttl = 0 THEN NoExpiry ELSE ttl
          /\ blind' = blind + 1
    /\ UNCHANGED <<key, block, burst, quiet, late>>

(* The server dies; the message is neither passed nor refused. *)
CheckDies(c) ==
    /\ check[c] # Idle
    /\ check' = [check EXCEPT ![c] = Idle]
    /\ UNCHANGED <<key, redis, history>>

Less(n) == IF n > 0 THEN n - 1 ELSE 0

(* Time passes; keys whose time is over are gone. *)
Tick ==
    /\ ttl \in 1 .. Window \/ block > 0 \/ quiet > 0
    /\ ttl' = IF ttl = NoExpiry THEN ttl ELSE Less(ttl)
    /\ block' = Less(block)
    /\ quiet' = Less(quiet)
    /\ IF ttl' = 0 THEN usage' = 0 /\ blind' = 0 ELSE UNCHANGED <<usage, blind>>
    /\ burst' = IF quiet' = 0 THEN 0 ELSE burst
    /\ late' = IF block' = 0 THEN 0 ELSE late
    /\ UNCHANGED <<key, check>>

Check(c) ==
    \/ Unlimited(c)
    \/ \E t \in Types : IsUserBlocked(c, t)
    \/ GetCurrentUsage(c) \/ GetUsageFails(c)
    \/ BlockUser(c)
    \/ IncrementUsage(c) \/ IncrementFails(c)
    \/ CheckDies(c)

Next == Tick \/ \E c \in Checks : Check(c)

(* Time passes; nothing is assumed of clients and of Redis. *)
Spec == Init /\ [][Next]_vars /\ WF_vars(Tick)

(***************************************************************************)
(* Properties.                                                             *)
(***************************************************************************)

(* A burst, in which less than a window lies between a message and the next, *)
(* has fewer messages than the limit and the checks of one moment together:  *)
(* a check does not see what another has not counted yet, and that is all.   *)
BurstBounded == key \in Configured => burst < MaxLimit + Cardinality(Checks)

(* A block stops all but the messages that were being checked when it began. *)
LateBounded == late < Cardinality(Checks)

(* Who has used up the limit is let in again, unless a broken pipeline left  *)
(* the counter without an expiry: then nobody counts, and it stays for ever. *)
(* MaxBlind matters: checks that cannot read the counter renew its expiry.   *)
LockoutEnds == (usage >= MaxLimit /\ ttl \in 1 .. Window) ~> (usage = 0)

(* "Limit on the typing indicator ... 10 in a minute"                        *)
(* (rate-limit.constants.ts:59-64): it is never found, and nothing limits it. *)
TypingLimited ==
    key = <<"planet", "typing_indicator">> => burst < MaxLimit + Cardinality(Checks)

=============================================================================
