------------------------------ MODULE TTLCache ------------------------------
(***************************************************************************)
(* internal/cache/ttl_cache.go: the cache in front of the parents table.   *)
(*                                                                         *)
(* The mutex covers the map and nothing else: Get decides that an entry is *)
(* expired after it has released the lock, SetWithTTL and cleanup read the *)
(* clock before they take it.  A step is what happens under one lock.      *)
(*                                                                         *)
(* Values are left out: what matters of an entry is when it expires.  The  *)
(* owner of the cache calls StartCleanup and Stop, one at a time, and does *)
(* not Stop a stopped cache, which would panic.  A loop that reads stopCh  *)
(* while StartCleanup replaces it gets the old or the new channel, as if   *)
(* it had entered its select before or after.                              *)
(***************************************************************************)
EXTENDS Naturals

CONSTANTS
    Keys,
    Threads,      \* goroutines that use the cache
    TTL,          \* a positive time to live
    Absent,       \* no entry
    MaxTime,      \* the last tick
    MaxStarts     \* cleanup goroutines ever started

ASSUME TTLAssumption == TTL \in Nat \ {0}
ASSUME MaxAssumption == MaxTime \in Nat /\ MaxStarts \in Nat
ASSUME AbsentAssumption == Absent \notin Nat

Never   == 0                    \* the zero time.Time: the entry never expires
Entries == Nat \cup {Absent}    \* expiration
Loops   == 1..MaxStarts

VARIABLES
    now,          \* the clock
    store,        \* c.store: the expiration of each entry, or Absent
    pc,           \* goroutines: "idle", "check", "remove", "store"
    key, exp,     \* their local variables: the key, the expiration
    chan,         \* which of the channels made so far c.stopCh is
    closed,       \* it has been closed
    loop,         \* cleanup goroutines: "off", "enter", "select", "sweep"
    watch,        \* the channel the select of each one waits on
    at,           \* its "now := time.Now()"
    asked         \* history: StartCleanup has been called since the last Stop

threads == <<pc, key, exp>>
cleaner == <<chan, closed, loop, watch, at, asked>>
vars    == <<now, store, threads, cleaner>>

Init ==
    /\ now = 1
    /\ store = [k \in Keys |-> Absent]
    /\ pc = [t \in Threads |-> "idle"]
    /\ key \in [Threads -> Keys]
    /\ exp = [t \in Threads |-> Never]
    /\ chan = 0 /\ closed = FALSE
    /\ loop = [l \in Loops |-> "off"]
    /\ watch = [l \in Loops |-> 0]
    /\ at = [l \in Loops |-> 0]
    /\ asked = FALSE

Tick ==
    /\ now < MaxTime
    /\ now' = now + 1
    /\ UNCHANGED <<store, threads, cleaner>>

\* Faulty variant: an entry that never expires counts as expired.
DueWithoutZeroCheck(e, time) == e # Absent /\ time > e

\* !e.expiration.IsZero() && time.After(e.expiration)
Due(e, time) == e # Absent /\ e # Never /\ time > e

-----------------------------------------------------------------------------
(* The callers.                                                            *)

\* Get, under the read lock; a key that is not there is a miss at once.
Get(t, k) ==
    /\ pc[t] = "idle"
    /\ store[k] # Absent
    /\ pc' = [pc EXCEPT ![t] = "check"]
    /\ key' = [key EXCEPT ![t] = k]
    /\ exp' = [exp EXCEPT ![t] = store[k]]
    /\ UNCHANGED <<now, store, cleaner>>

\* Get, after the unlock: a hit, or the entry has expired.
Check(t) ==
    /\ pc[t] = "check"
    /\ pc' = [pc EXCEPT ![t] = IF Due(exp[t], now) THEN "remove" ELSE "idle"]
    /\ exp' = [exp EXCEPT ![t] = Never]
    /\ UNCHANGED <<now, store, key, cleaner>>

\* Get, for an expired entry: c.Delete(key), whatever is there by now.
Remove(t) ==
    /\ pc[t] = "remove"
    /\ store' = [store EXCEPT ![key[t]] = Absent]
    /\ pc' = [pc EXCEPT ![t] = "idle"]
    /\ UNCHANGED <<now, key, exp, cleaner>>

\* SetWithTTL before the lock; ttl <= 0 is an entry that never expires.
SetWithTTL(t, k, ttl) ==
    /\ pc[t] = "idle"
    /\ pc' = [pc EXCEPT ![t] = "store"]
    /\ key' = [key EXCEPT ![t] = k]
    /\ exp' = [exp EXCEPT ![t] = IF ttl > 0 THEN now + ttl ELSE Never]
    /\ UNCHANGED <<now, store, cleaner>>

Store(t) ==
    /\ pc[t] = "store"
    /\ store' = [store EXCEPT ![key[t]] = exp[t]]
    /\ pc' = [pc EXCEPT ![t] = "idle"]
    /\ exp' = [exp EXCEPT ![t] = Never]
    /\ UNCHANGED <<now, key, cleaner>>

\* Delete, DeleteIf and Clear: the keys a caller names, those its predicate
\* holds for, or all of them.
DeleteKeys(K) ==
    /\ store' = [k \in Keys |-> IF k \in K THEN Absent ELSE store[k]]
    /\ UNCHANGED <<now, threads, cleaner>>

-----------------------------------------------------------------------------
(* The cleanup goroutine.                                                  *)

\* Faulty variant: without a new channel.
StartCleanupSameChannel ==
    /\ asked' = TRUE
    /\ closed /\ chan < MaxStarts
    /\ loop' = [loop EXCEPT ![chan + 1] = "enter"]
    /\ UNCHANGED <<now, store, threads, chan, closed, watch, at>>

\* StartCleanup only goes past its select when stopCh has been closed.
StartCleanup ==
    /\ asked' = TRUE
    /\ \/ /\ closed /\ chan < MaxStarts
          /\ chan' = chan + 1 /\ closed' = FALSE
          /\ loop' = [loop EXCEPT ![chan + 1] = "enter"]
       \/ ~closed /\ UNCHANGED <<chan, closed, loop>>
    /\ UNCHANGED <<now, store, threads, watch, at>>

Stop ==
    /\ ~closed
    /\ closed' = TRUE /\ asked' = FALSE
    /\ UNCHANGED <<now, store, threads, chan, loop, watch, at>>

\* cleanupLoop reads c.stopCh each time it enters its select.
EnterSelect(l) ==
    /\ loop[l] = "enter"
    /\ loop' = [loop EXCEPT ![l] = "select"]
    /\ watch' = [watch EXCEPT ![l] = chan]
    /\ UNCHANGED <<now, store, threads, chan, closed, at, asked>>

\* The ticker fires: cleanup reads the clock.
TickerFires(l) ==
    /\ loop[l] = "select"
    /\ loop' = [loop EXCEPT ![l] = "sweep"]
    /\ at' = [at EXCEPT ![l] = now]
    /\ UNCHANGED <<now, store, threads, chan, closed, watch, asked>>

\* Faulty variant: break in place of return, which leaves the select only.
StopBreaks(l) ==
    /\ loop[l] = "select"
    /\ watch[l] < chan \/ closed
    /\ loop' = [loop EXCEPT ![l] = "enter"]
    /\ UNCHANGED <<now, store, threads, chan, closed, watch, at, asked>>

\* The channel the select waits on is closed: an older one always is.
StopSeen(l) ==
    /\ loop[l] = "select"
    /\ watch[l] < chan \/ closed
    /\ loop' = [loop EXCEPT ![l] = "off"]
    /\ UNCHANGED <<now, store, threads, chan, closed, watch, at, asked>>

\* Faulty variant: without the for loop.
SweepOnce(l) ==
    /\ loop[l] = "sweep"
    /\ store' = [k \in Keys |-> IF Due(store[k], at[l]) THEN Absent ELSE store[k]]
    /\ loop' = [loop EXCEPT ![l] = "off"]
    /\ at' = [at EXCEPT ![l] = 0]
    /\ UNCHANGED <<now, threads, chan, closed, watch, asked>>

Sweep(l) ==
    /\ loop[l] = "sweep"
    /\ store' = [k \in Keys |-> IF Due(store[k], at[l]) THEN Absent ELSE store[k]]
    /\ loop' = [loop EXCEPT ![l] = "enter"]
    /\ at' = [at EXCEPT ![l] = 0]
    /\ UNCHANGED <<now, threads, chan, closed, watch, asked>>

Loop(l) == EnterSelect(l) \/ TickerFires(l) \/ StopSeen(l) \/ Sweep(l)

Call(t) ==
    \/ \E k \in Keys : Get(t, k) \/ \E ttl \in {0, TTL} : SetWithTTL(t, k, ttl)
    \/ Check(t) \/ Remove(t) \/ Store(t)

Next ==
    \/ Tick
    \/ \E t \in Threads : Call(t)
    \/ \E K \in SUBSET Keys : DeleteKeys(K)
    \/ StartCleanup \/ Stop
    \/ \E l \in Loops : Loop(l)

Spec == Init /\ [][Next]_vars

\* Goroutines run, calls return, the ticker fires, and a select with a closed
\* channel takes it sooner or later: it chooses at random among the ready cases.
FairSpec ==
    /\ Spec
    /\ \A t \in Threads : WF_vars(Check(t) \/ Remove(t) \/ Store(t))
    /\ \A l \in Loops : WF_vars(Loop(l)) /\ SF_vars(StopSeen(l))

-----------------------------------------------------------------------------

Running == \E l \in Loops : loop[l] # "off"

TypeOK ==
    /\ now \in Nat
    /\ store \in [Keys -> Entries]
    /\ pc \in [Threads -> {"idle", "check", "remove", "store"}]
    /\ key \in [Threads -> Keys]
    /\ exp \in [Threads -> Nat]
    /\ chan \in 0..MaxStarts /\ closed \in BOOLEAN
    /\ loop \in [Loops -> {"off", "enter", "select", "sweep"}]
    /\ watch \in [Loops -> 0..chan] /\ at \in [Loops -> 0..now]
    /\ asked \in BOOLEAN /\ (asked => ~closed)
    /\ \A l \in Loops : l > chan => loop[l] = "off"

\* Nothing but a Delete, a DeleteIf, a Clear or the tail of a Get takes away an
\* entry that has not expired, or that never does: the cleanup goroutine reads
\* the clock before it waits for the lock and still only sweeps what is due.
FreshKept == [][\A k \in Keys :
    (store[k] # Absent /\ ~ (store[k] # Never /\ now > store[k]) /\ store'[k] = Absent)
        => (\E K \in SUBSET Keys : DeleteKeys(K)) \/ \E t \in Threads : Remove(t)]_vars

\* While a cleanup goroutine runs and nobody stops it, no expired entry stays.
ExpiredGo == \A k \in Keys :
    (Due(store[k], now) /\ Running /\ ~closed) ~> (~Due(store[k], now) \/ closed)

\* Stop ends every cleanup goroutine, those an earlier Stop missed included,
\* unless the cleanup is started again.
StopEnds == closed ~> (~closed \/ ~Running)

\* "StartCleanup starts a background goroutine that periodically removes expired
\* entries."  module.go calls it on a new cache.
CleanupStarts == \A k \in Keys :
    (asked /\ Due(store[k], now)) ~> (~asked \/ ~Due(store[k], now))
=============================================================================
