----------------------------- MODULE RateTable -----------------------------
(***************************************************************************)
(* The rate limits of the HTTP API, internal/api/middleware/ratelimit.go:  *)
(* one token bucket for all requests, then one per client address, kept in *)
(* a sync.Map from which a goroutine removes the idle ones.                *)
(*                                                                         *)
(* serveHTTP calls Wait with a context it has cancelled: a request that    *)
(* finds no token reserves one, is refused and leaves the reservation.     *)
(* The select of that Wait can still find its timer fired, when the        *)
(* goroutine was held up before it.  A step is one access to the map or    *)
(* what happens under the mutex of a bucket.                               *)
(*                                                                         *)
(* Module Limiter is the bucket by itself; GlobalIsLimiter says that the   *)
(* global one is used as Limiter has it.  Times are in ticks.              *)
(***************************************************************************)
EXTENDS Integers, FiniteSets, Sequences

CONSTANTS
    Requests,                          \* goroutines of the HTTP server
    Addrs,                             \* client addresses
    GlobalRate, AuthRate, UnauthRate,  \* ticks between two tokens, 0: no limit
    GlobalBurst, AuthBurst, UnauthBurst,
    Expiry,                            \* entryExpiry
    MaxTime,                           \* the last tick
    MaxRequests                        \* requests ever made

ASSUME RatesAssumption ==
    GlobalRate \in Nat \ {0} /\ AuthRate \in Nat /\ UnauthRate \in Nat
ASSUME BurstsAssumption ==
    GlobalBurst \in Int /\ AuthBurst \in Int /\ UnauthBurst \in Int
ASSUME RequestsAssumption == IsFiniteSet(Requests)
ASSUME MaxAssumption == MaxTime \in Nat /\ MaxRequests \in Nat /\ Expiry \in Nat

AtLeastOne(n) == IF n < 1 THEN 1 ELSE n

Interval == [global |-> GlobalRate, auth |-> AuthRate, unauth |-> UnauthRate]
Capacity == [global |-> AtLeastOne(GlobalBurst),
             auth   |-> AtLeastOne(AuthBurst), unauth |-> AtLeastOne(UnauthBurst)]
Kinds    == {"auth", "unauth"}

\* An idle bucket fills up before its entry expires: 10 minutes are enough for
\* the burst at any rate that is not absurdly low.
ASSUME ExpiryAssumption == \A k \in Kinds : Capacity[k] * Interval[k] <= Expiry

VARIABLES
    now,          \* the clock
    global,       \* rl.global: tokens and last
    bucket,       \* the limiters made so far, with the lastAccess of their entries
    table,        \* rl.ipLimiters: the bucket of an address, or 0
    pc, addr, kind,
    mine,         \* the bucket getOrCreateLimiter returns
    due, timer,   \* what the timers of its two Waits are set to
    sweeper,      \* the cleanup goroutine: "off", "range", "delete", "dead"
    at, todo,     \* its "now", the addresses Range has not come to
    victim,       \* the address it is about to delete
    arrived, granted, lastGrant, refused,  \* history of the global bucket
    served,       \* history: requests passed on
    stored        \* history: Stores for an address since it had no entry

requests == <<pc, addr, kind, mine, due, timer, arrived>>
cleaner  == <<sweeper, at, todo, victim>>
history  == <<granted, lastGrant, refused>>
vars     == <<now, global, bucket, table, requests, cleaner, history, served, stored>>

Init ==
    /\ now = 0
    /\ global = [kind |-> "global", tokens |-> Capacity.global, last |-> 0]
    /\ bucket = <<>> /\ table = [a \in Addrs |-> 0]
    /\ pc = [r \in Requests |-> "idle"]
    /\ addr \in [Requests -> Addrs] /\ kind = [r \in Requests |-> "auth"]
    /\ mine = [r \in Requests |-> 0] /\ due = [r \in Requests |-> 0]
    /\ timer = [r \in Requests |-> 0]
    /\ sweeper = "off" /\ at = 0 /\ todo = {} /\ victim \in Addrs
    /\ arrived = 0 /\ granted = 0 /\ lastGrant = 0 /\ refused = 0
    /\ served = 0 /\ stored = [a \in Addrs |-> 0]

Tick ==
    /\ now < MaxTime
    /\ now' = now + 1
    /\ UNCHANGED <<global, bucket, table, requests, cleaner, history, served, stored>>

-----------------------------------------------------------------------------
(* A bucket, as in Limiter.                                                *)

Earned(b) == (now - b.last) \div Interval[b.kind]

\* Faulty variant: tokens are added and the time they were earned in is kept.
RefilledTwice(b) ==
    IF Earned(b) <= 0 THEN b
    ELSE LET sum == b.tokens + Earned(b) IN
         [b EXCEPT !.tokens = IF sum > Capacity[b.kind] THEN Capacity[b.kind] ELSE sum]

\* Wait first adds the tokens earned since last, up to the burst.
Refilled(b) ==
    IF Earned(b) <= 0 THEN b
    ELSE LET sum == b.tokens + Earned(b) IN
         [b EXCEPT !.tokens = IF sum > Capacity[b.kind] THEN Capacity[b.kind] ELSE sum,
                   !.last = now]

\* It then takes a token, or reserves the next one.
Taken(b)    == [Refilled(b) EXCEPT !.tokens = @ - 1]
Reserved(b) == [Refilled(b) EXCEPT !.last = @ + Interval[b.kind]]

-----------------------------------------------------------------------------
(* serveHTTP.                                                              *)

\* The request is answered: its locals are gone.
Answered(r) ==
    /\ pc' = [pc EXCEPT ![r] = "idle"] /\ kind' = [kind EXCEPT ![r] = "auth"]
    /\ mine' = [mine EXCEPT ![r] = 0] /\ timer' = [timer EXCEPT ![r] = 0]

\* next.ServeHTTP
PassedOn(r) == Answered(r) /\ served' = served + 1

\* What comes after the global bucket; without a limit for its kind the request
\* is passed on.
PassGlobal(r, k) ==
    /\ granted' = granted + 1 /\ lastGrant' = now
    /\ IF Interval[k] > 0
       THEN /\ pc' = [pc EXCEPT ![r] = "load"]
            /\ kind' = [kind EXCEPT ![r] = k]
            /\ UNCHANGED <<mine, timer, served>>
       ELSE PassedOn(r)

\* A request comes, with an API key or without, and meets the global bucket.
WaitGlobal(r, a, k) ==
    /\ pc[r] = "idle" /\ arrived < MaxRequests
    /\ arrived' = arrived + 1
    /\ addr' = [addr EXCEPT ![r] = a]
    /\ \/ /\ Refilled(global).tokens > 0
          /\ global' = Taken(global)
          /\ PassGlobal(r, k)
          /\ UNCHANGED <<due, refused>>
       \/ /\ Refilled(global).tokens <= 0
          /\ global' = Reserved(global)
          /\ due' = [due EXCEPT ![r] = Reserved(global).last]
          /\ pc' = [pc EXCEPT ![r] = "select global"]
          /\ kind' = [kind EXCEPT ![r] = k]
          /\ UNCHANGED <<mine, timer, served, history>>
    /\ UNCHANGED <<now, bucket, table, cleaner, stored>>

\* Faulty variant: the error of Wait is answered and the request goes on.
SelectGlobalNoReturn(r) ==
    /\ pc[r] = "select global"
    /\ \/ due[r] <= now /\ PassGlobal(r, kind[r]) /\ UNCHANGED refused
       \/ /\ PassedOn(r)
          /\ refused' = refused + 1
          /\ UNCHANGED <<granted, lastGrant>>
    /\ UNCHANGED <<now, global, bucket, table, addr, due, arrived, cleaner, stored>>

\* The context is done; the timer may have fired as well.
SelectGlobal(r) ==
    /\ pc[r] = "select global"
    /\ \/ due[r] <= now /\ PassGlobal(r, kind[r]) /\ UNCHANGED refused
       \/ /\ Answered(r)
          /\ refused' = refused + 1
          /\ UNCHANGED <<granted, lastGrant, served>>
    /\ UNCHANGED <<now, global, bucket, table, addr, due, arrived, cleaner, stored>>

\* NewLimiter and the entry around it.
NewBucket(k) ==
    [kind |-> k, tokens |-> Capacity[k], last |-> now,
     access |-> now, used |-> now, born |-> now, grants |-> 0]

\* Faulty variant: the entry is never found.
LoadMiss(r) ==
    /\ pc[r] = "load"
    /\ bucket' = Append(bucket, NewBucket(kind[r]))
    /\ mine' = [mine EXCEPT ![r] = Len(bucket) + 1]
    /\ pc' = [pc EXCEPT ![r] = "store"]
    /\ UNCHANGED <<now, global, table, addr, kind, due, timer, arrived, cleaner>>
    /\ UNCHANGED <<history, served, stored>>

\* getOrCreateLimiter finds the entry, whatever rate it was made for, or makes
\* a limiter of this request's rate.
Load(r) ==
    /\ pc[r] = "load"
    /\ LET b == table[addr[r]] IN
       \/ /\ b # 0
          /\ bucket' = [bucket EXCEPT ![b].access = now]
          /\ mine' = [mine EXCEPT ![r] = b]
          /\ pc' = [pc EXCEPT ![r] = "wait"]
       \/ /\ b = 0
          /\ bucket' = Append(bucket, NewBucket(kind[r]))
          /\ mine' = [mine EXCEPT ![r] = Len(bucket) + 1]
          /\ pc' = [pc EXCEPT ![r] = "store"]
    /\ UNCHANGED <<now, global, table, addr, kind, due, timer, arrived, cleaner>>
    /\ UNCHANGED <<history, served, stored>>

\* Store replaces an entry another request has stored since.
Store(r) ==
    /\ pc[r] = "store"
    /\ table' = [table EXCEPT ![addr[r]] = mine[r]]
    /\ stored' = [stored EXCEPT ![addr[r]] = @ + 1]
    /\ pc' = [pc EXCEPT ![r] = "wait"]
    /\ UNCHANGED <<now, global, bucket, addr, kind, mine, due, timer, arrived, cleaner>>
    /\ UNCHANGED <<history, served>>

Wait(r) ==
    /\ pc[r] = "wait"
    /\ LET b == bucket[mine[r]] IN
       \/ /\ Refilled(b).tokens > 0
          /\ bucket' = [bucket EXCEPT ![mine[r]] =
                            [Taken(b) EXCEPT !.used = now, !.grants = @ + 1]]
          /\ PassedOn(r)
       \/ /\ Refilled(b).tokens <= 0
          /\ bucket' = [bucket EXCEPT ![mine[r]] = [Reserved(b) EXCEPT !.used = now]]
          /\ timer' = [timer EXCEPT ![r] = Reserved(b).last]
          /\ pc' = [pc EXCEPT ![r] = "select"]
          /\ UNCHANGED <<kind, mine, served>>
    /\ UNCHANGED <<now, global, table, addr, due, arrived, cleaner, history, stored>>

Select(r) ==
    /\ pc[r] = "select"
    /\ \/ /\ timer[r] <= now
          /\ bucket' = [bucket EXCEPT ![mine[r]].grants = @ + 1]
          /\ PassedOn(r)
       \/ Answered(r) /\ UNCHANGED <<bucket, served>>
    /\ UNCHANGED <<now, global, table, addr, due, arrived, cleaner, history, stored>>

-----------------------------------------------------------------------------
(* cleanup.                                                                *)

\* The ticker fires.
StartSweep ==
    /\ sweeper = "off"
    /\ sweeper' = "range" /\ at' = now /\ todo' = Addrs
    /\ UNCHANGED <<now, global, bucket, table, requests, victim, history, served, stored>>

\* Faulty variant: an entry not used at this very moment expires.
ExpiredAtOnce(b) == at - b.access > 0

Expired(b) == at - b.access > Expiry

\* Range comes to an entry, and decides under its mutex.
CheckEntry(a) ==
    /\ sweeper = "range"
    /\ a \in todo /\ table[a] # 0
    /\ todo' = todo \ {a}
    /\ IF Expired(bucket[table[a]]) THEN sweeper' = "delete" /\ victim' = a
                                    ELSE UNCHANGED <<sweeper, victim>>
    /\ UNCHANGED <<now, global, bucket, table, requests, at, history, served, stored>>

\* After the unlock: whatever entry the address has by now.
DeleteEntry ==
    /\ sweeper = "delete"
    /\ table' = [table EXCEPT ![victim] = 0]
    /\ stored' = [stored EXCEPT ![victim] = 0]
    /\ sweeper' = "range"
    /\ UNCHANGED <<now, global, bucket, requests, at, todo, victim, history, served>>

\* There is no entry, or one used since the sweep began.
Newer(a) == IF table[a] = 0 THEN TRUE ELSE bucket[table[a]].access >= at

\* Faulty variant: the loop is left after a sweep.
EndSweepForGood ==
    /\ sweeper = "range"
    /\ \A a \in todo : Newer(a)
    /\ sweeper' = "dead" /\ todo' = {} /\ at' = 0
    /\ UNCHANGED <<now, global, bucket, table, requests, victim>>
    /\ UNCHANGED <<history, served, stored>>

\* Range has come to every entry there was when it began; of those stored since
\* it may leave some out.
EndSweep ==
    /\ sweeper = "range"
    /\ \A a \in todo : Newer(a)
    /\ sweeper' = "off" /\ todo' = {} /\ at' = 0
    /\ UNCHANGED <<now, global, bucket, table, requests, victim>>
    /\ UNCHANGED <<history, served, stored>>

Sweep == StartSweep \/ (\E a \in Addrs : CheckEntry(a)) \/ DeleteEntry \/ EndSweep

ServeHTTP(r) ==
    \/ \E a \in Addrs, k \in Kinds : WaitGlobal(r, a, k)
    \/ SelectGlobal(r) \/ Load(r) \/ Store(r) \/ Wait(r) \/ Select(r)

Next == Tick \/ (\E r \in Requests : ServeHTTP(r)) \/ Sweep

Spec == Init /\ [][Next]_vars

\* The cleanup goroutine runs for as long as the program.
FairSpec == Spec /\ WF_vars(Sweep)

-----------------------------------------------------------------------------

Buckets == [kind: Kinds, tokens: Nat, last: Nat, access: Nat, used: Nat,
            born: Nat, grants: Nat]

TypeOK ==
    /\ now \in Nat
    /\ global \in [kind: {"global"}, tokens: Nat, last: Nat]
    /\ bucket \in Seq(Buckets)
    /\ table \in [Addrs -> 0..Len(bucket)]
    /\ pc \in [Requests -> {"idle", "select global", "load", "store",
                            "wait", "select"}]
    /\ addr \in [Requests -> Addrs] /\ kind \in [Requests -> Kinds]
    /\ mine \in [Requests -> 0..Len(bucket)] /\ due \in [Requests -> Nat]
    /\ timer \in [Requests -> Nat]
    /\ \A r \in Requests : pc[r] \in {"store", "wait", "select"} => mine[r] # 0
    /\ sweeper \in {"off", "range", "delete"}
    /\ at \in Nat /\ todo \subseteq Addrs /\ victim \in Addrs
    /\ arrived \in Nat /\ granted \in Nat /\ lastGrant \in Nat /\ refused \in Nat
    /\ served \in Nat /\ stored \in [Addrs -> Nat]

\* The global bucket, seen through the requests that are in its Wait, is the one
\* of Limiter: everything shown there holds of the API's total rate.
Global == INSTANCE Limiter WITH
    Callers <- Requests, Rate <- GlobalRate, Burst <- GlobalBurst,
    MaxCancels <- MaxRequests,
    tokens <- global.tokens, lastUpdate <- global.last,
    sleeping <- {r \in Requests : pc[r] = "select global"},
    cancels <- refused

GlobalIsLimiter == Global!Spec

ServedBound == served * GlobalRate <= now + Capacity.global * GlobalRate

BucketRate == \A i \in 1..Len(bucket) : LET b == bucket[i] IN
    b.grants * Interval[b.kind] <= now - b.born + Capacity[b.kind] * Interval[b.kind]

\* However requests interleave and are refused by one bucket or the other, no
\* more are passed on than the global burst and one per GlobalRate; and a bucket
\* of an address lets through its burst and one request per interval since it
\* was made, also while the cleanup and later requests compete for its entry.
RatesHold == ServedBound /\ BucketRate

\* First requests of one address that run at the same time may each make a
\* bucket, and the burst with it; but only one per goroutine, until the entry
\* expires: whoever comes after the first Store finds an entry.
BucketsBounded == \A a \in Addrs : stored[a] <= Cardinality(Requests)

\* The cleanup gives nobody tokens he has not earned: the bucket it forgets is
\* full, as a new one would be, unless a request came to the entry after the
\* sweep began, or was held up between finding the entry and its Wait, or the
\* bucket had been driven into debt by refused requests.
ForgetsOnlyFull == [][\A a \in Addrs : (table[a] # 0 /\ table'[a] = 0) =>
    LET b == bucket[table[a]] IN
        \/ Refilled(b).tokens = Capacity[b.kind]
        \/ b.access >= at
        \/ b.used > b.access
        \/ b.last > b.used]_vars

Idle(a) == IF table[a] = 0 THEN FALSE ELSE now - bucket[table[a]].access > Expiry

\* An entry nobody uses is not kept for ever.
IdleForgotten == \A a \in Addrs :
    Idle(a) ~> ~Idle(a)
=============================================================================
