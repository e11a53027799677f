--------------------------- MODULE TTLCacheProofs ---------------------------
(***************************************************************************)
(* The types of the cache and what its cleanup may remove, for any number  *)
(* of keys, goroutines and cleanup goroutines.                             *)
(***************************************************************************)
EXTENDS TTLCache, TLAPS

CallerTypes ==
    /\ store \in [Keys -> Entries]
    /\ pc \in [Threads -> {"idle", "check", "remove", "store"}]
    /\ key \in [Threads -> Keys]
    /\ exp \in [Threads -> Nat]

CleanerTypes ==
    /\ chan \in 0..MaxStarts
    /\ loop \in [Loops -> {"off", "enter", "select", "sweep"}]
    /\ watch \in [Loops -> 0..chan] /\ at \in [Loops -> 0..now]
    /\ \A l \in Loops : l > chan => loop[l] = "off"

Flags == closed \in BOOLEAN /\ asked \in BOOLEAN /\ (asked => ~closed)

LEMMA Parts == TypeOK <=> now \in Nat /\ CallerTypes /\ CleanerTypes /\ Flags
BY DEF TypeOK, CallerTypes, CleanerTypes, Flags

LEMMA PartsNext == now' \in Nat /\ CallerTypes' /\ CleanerTypes' /\ Flags' => TypeOK'
BY DEF TypeOK, CallerTypes, CleanerTypes, Flags

LEMMA InitTypes == Init => TypeOK
<1>. SUFFICES ASSUME Init PROVE TypeOK
  OBVIOUS
<1>1. now \in Nat
  BY DEF Init
<1>2. CallerTypes
  BY DEF Init, CallerTypes, Entries, Never
<1>3. CleanerTypes
  BY MaxAssumption DEF Init, CleanerTypes, Loops
<1>4. Flags
  BY DEF Init, Flags
<1>. QED  BY <1>1, <1>2, <1>3, <1>4, Parts


LEMMA TickTypes == ASSUME TypeOK, Tick PROVE TypeOK'
<1>1. /\ now \in Nat /\ now' = now + 1
      /\ UNCHANGED <<store, pc, key, exp, chan, closed, loop, watch, at, asked>>
  BY DEF TypeOK, Tick, threads, cleaner
<1>2. CallerTypes' /\ Flags'
  BY <1>1, Parts DEF CallerTypes, Flags
<1>3. at' \in [Loops -> 0..now']
  BY <1>1, Parts DEF CleanerTypes
<1>4. CleanerTypes'
  BY <1>1, <1>3, Parts DEF CleanerTypes
<1>. QED  BY <1>1, <1>2, <1>4, PartsNext

\* What callers do leaves the cleanup goroutines alone.
LEMMA CallerStep ==
    ASSUME TypeOK, UNCHANGED <<now, cleaner>>, CallerTypes'
    PROVE  TypeOK'
<1>1. CleanerTypes' /\ Flags'
  BY Parts DEF CleanerTypes, Flags, cleaner
<1>. QED  BY <1>1, Parts, PartsNext

LEMMA CallTypes == ASSUME TypeOK, NEW t \in Threads, Call(t) PROVE TypeOK'
<1>1. CallerTypes /\ now \in Nat
  BY Parts
<1>2. ASSUME NEW k \in Keys, Get(t, k) PROVE TypeOK'
  <2>1. store[k] \in Nat
    BY <1>1, <1>2 DEF Get, CallerTypes, Entries
  <2>. QED  BY <1>1, <1>2, <2>1, CallerStep DEF Get, CallerTypes
<1>3. ASSUME NEW k \in Keys, NEW ttl \in {0, TTL}, SetWithTTL(t, k, ttl) PROVE TypeOK'
  BY <1>1, <1>3, TTLAssumption, CallerStep DEF SetWithTTL, CallerTypes, Never
<1>4. CASE Check(t)
  BY <1>1, <1>4, CallerStep DEF Check, CallerTypes, Never
<1>5. CASE Remove(t)
  BY <1>1, <1>5, CallerStep DEF Remove, CallerTypes, Entries
<1>6. CASE Store(t)
  BY <1>1, <1>6, CallerStep DEF Store, CallerTypes, Entries, Never
<1>. QED  BY <1>2, <1>3, <1>4, <1>5, <1>6 DEF Call

LEMMA DeleteTypes == ASSUME TypeOK, NEW K \in SUBSET Keys, DeleteKeys(K) PROVE TypeOK'
<1>1. CallerTypes
  BY Parts
<1>2. store' \in [Keys -> Entries]
  BY <1>1 DEF DeleteKeys, CallerTypes, Entries
<1>. QED  BY <1>1, <1>2, CallerStep DEF DeleteKeys, CallerTypes, threads

\* StartCleanup and Stop leave the entries and their users alone.
LEMMA OwnerStep ==
    ASSUME TypeOK, UNCHANGED <<now, store, threads>>, CleanerTypes', Flags'
    PROVE  TypeOK'
<1>1. CallerTypes'
  BY Parts DEF CallerTypes, threads
<1>. QED  BY <1>1, Parts, PartsNext

LEMMA StartTypes == ASSUME TypeOK, StartCleanup PROVE TypeOK'
<1>1. CleanerTypes /\ Flags
  BY Parts
<1>2. UNCHANGED <<now, store, threads, watch, at>> /\ asked' = TRUE
  BY DEF StartCleanup
<1>3. CASE /\ closed /\ chan < MaxStarts /\ chan' = chan + 1 /\ closed' = FALSE
           /\ loop' = [loop EXCEPT ![chan + 1] = "enter"]
  <2>1. chan' \in 0..MaxStarts /\ chan \in Nat
    BY <1>1, <1>3, MaxAssumption DEF CleanerTypes
  <2>2. watch' \in [Loops -> 0..chan']
    BY <1>1, <1>2, <1>3, <2>1 DEF CleanerTypes
  <2>3. loop' \in [Loops -> {"off", "enter", "select", "sweep"}]
    BY <1>1, <1>3 DEF CleanerTypes
  <2>4. \A l \in Loops : l > chan' => loop'[l] = "off"
    BY <1>1, <1>3, <2>1 DEF CleanerTypes, Loops
  <2>5. CleanerTypes'
    BY <1>1, <1>2, <2>1, <2>2, <2>3, <2>4 DEF CleanerTypes
  <2>6. Flags'
    BY <1>2, <1>3 DEF Flags
  <2>. QED  BY <1>2, <2>5, <2>6, OwnerStep
<1>4. CASE ~closed /\ UNCHANGED <<chan, closed, loop>>
  <2>1. CleanerTypes'
    BY <1>1, <1>2, <1>4 DEF CleanerTypes
  <2>2. Flags'
    BY <1>1, <1>2, <1>4 DEF Flags
  <2>. QED  BY <1>2, <2>1, <2>2, OwnerStep
<1>. QED  BY <1>3, <1>4 DEF StartCleanup

LEMMA StopTypes == ASSUME TypeOK, Stop PROVE TypeOK'
<1>1. CleanerTypes'
  BY Parts DEF Stop, CleanerTypes
<1>2. Flags'
  BY DEF Stop, Flags
<1>. QED  BY <1>1, <1>2, OwnerStep DEF Stop

LEMMA LoopTypes == ASSUME TypeOK, NEW l \in Loops, Loop(l) PROVE TypeOK'
<1>0. CallerTypes /\ CleanerTypes /\ Flags /\ now \in Nat /\ now' = now
  BY Parts DEF Loop, EnterSelect, TickerFires, StopSeen, Sweep
<1>1. UNCHANGED <<chan, closed, asked, threads>>
  BY DEF Loop, EnterSelect, TickerFires, StopSeen, Sweep
<1>2. Flags'
  BY <1>0, <1>1 DEF Flags
<1>3. store' \in [Keys -> Entries]
  BY <1>0 DEF Loop, EnterSelect, TickerFires, StopSeen, Sweep, CallerTypes, Entries
<1>4. CallerTypes'
  BY <1>0, <1>1, <1>3 DEF CallerTypes, threads
<1>5. PICK s \in {"off", "enter", "select", "sweep"} : loop' = [loop EXCEPT ![l] = s]
  BY DEF Loop, EnterSelect, TickerFires, StopSeen, Sweep
<1>6. loop[l] # "off"
  BY DEF Loop, EnterSelect, TickerFires, StopSeen, Sweep
<1>7. watch' = watch \/ watch' = [watch EXCEPT ![l] = chan]
  BY DEF Loop, EnterSelect, TickerFires, StopSeen, Sweep
<1>8. at' = at \/ at' = [at EXCEPT ![l] = now] \/ at' = [at EXCEPT ![l] = 0]
  BY DEF Loop, EnterSelect, TickerFires, StopSeen, Sweep
<1>9. watch' \in [Loops -> 0..chan']
  BY <1>0, <1>1, <1>7, MaxAssumption DEF CleanerTypes
<1>10. at' \in [Loops -> 0..now']
  BY <1>0, <1>8 DEF CleanerTypes
<1>11. loop' \in [Loops -> {"off", "enter", "select", "sweep"}]
  BY <1>0, <1>5 DEF CleanerTypes
<1>12. \A m \in Loops : m > chan => loop'[m] = "off"
  BY <1>0, <1>5, <1>6 DEF CleanerTypes
<1>13. CleanerTypes'
  BY <1>0, <1>1, <1>9, <1>10, <1>11, <1>12 DEF CleanerTypes
<1>. QED  BY <1>0, <1>2, <1>4, <1>13, PartsNext

LEMMA NextTypes == TypeOK /\ [Next]_vars => TypeOK'
<1>. SUFFICES ASSUME TypeOK, [Next]_vars PROVE TypeOK'
  OBVIOUS
<1>1. ASSUME UNCHANGED vars PROVE TypeOK'
  BY <1>1 DEF vars, threads, cleaner, TypeOK
<1>. QED  BY <1>1, TickTypes, CallTypes, DeleteTypes, StartTypes, StopTypes, LoopTypes DEF Next

\* The types of the cache; among them that a cleanup has read the clock before
\* now, and that no loop runs for a channel that is yet to be made.
THEOREM TypeCorrect == Spec => []TypeOK
BY InitTypes, NextTypes, PTL DEF Spec

-----------------------------------------------------------------------------

Fresh(k) == store[k] # Absent /\ ~ (store[k] # Never /\ now > store[k])

FreshStep ==
    \A k \in Keys : (Fresh(k) /\ store'[k] = Absent)
        => (\E K \in SUBSET Keys : DeleteKeys(K)) \/ \E t \in Threads : Remove(t)

\* at is not later than now: what is due at the time a sweep read is due now.
LEMMA SweepKeepsFresh ==
    ASSUME TypeOK, NEW l \in Loops, Sweep(l), NEW k \in Keys, Fresh(k)
    PROVE  store'[k] # Absent
<1>1. now \in Nat /\ at[l] \in Nat /\ at[l] <= now /\ store[k] \in Nat
  BY DEF TypeOK, Fresh, Entries
<1>2. ~Due(store[k], at[l])
  BY <1>1 DEF Due, Fresh
<1>3. store'[k] = store[k]
  BY <1>2 DEF Sweep
<1>. QED  BY <1>3 DEF Fresh

LEMMA StoreKeepsFresh ==
    ASSUME TypeOK, NEW t \in Threads, Store(t), NEW k \in Keys, Fresh(k)
    PROVE  store'[k] # Absent
<1>1. exp[t] \in Nat /\ exp[t] # Absent
  BY AbsentAssumption DEF TypeOK
<1>. QED  BY <1>1 DEF TypeOK, Store, Fresh

LEMMA NextFresh == TypeOK /\ [Next]_vars => FreshStep
<1>. SUFFICES ASSUME TypeOK, [Next]_vars, NEW k \in Keys, Fresh(k), store'[k] = Absent
              PROVE  (\E K \in SUBSET Keys : DeleteKeys(K)) \/ \E t \in Threads : Remove(t)
  BY DEF FreshStep
<1>1. store' # store
  BY DEF Fresh
<1>2. ~(Tick \/ StartCleanup \/ Stop \/ UNCHANGED vars)
  BY <1>1 DEF Tick, StartCleanup, Stop, vars
<1>3. ASSUME NEW l \in Loops, Loop(l) PROVE FALSE
  BY <1>1, <1>3, SweepKeepsFresh DEF Loop, EnterSelect, TickerFires, StopSeen
<1>4. ASSUME NEW t \in Threads, Call(t) PROVE Remove(t)
  <2>1. ~Check(t) /\ ~Store(t)
    BY <1>1, StoreKeepsFresh DEF Check
  <2>2. \A j \in Keys : ~Get(t, j) /\ \A ttl \in {0, TTL} : ~SetWithTTL(t, j, ttl)
    BY <1>1 DEF Get, SetWithTTL
  <2>. QED  BY <1>4, <2>1, <2>2 DEF Call
<1>. QED  BY <1>2, <1>3, <1>4 DEF Next

\* Whatever falls between the clock a cleanup reads and the lock it waits for,
\* an entry that has not expired goes only by a Delete, a DeleteIf, a Clear or
\* the tail of a Get that had found the entry before it.
THEOREM FreshCorrect == Spec => FreshKept
<1>1. Spec => []TypeOK
  BY TypeCorrect
<1>2. TypeOK /\ [Next]_vars => [FreshStep]_vars
  BY NextFresh
<1>3. FreshStep <=> \A k \in Keys :
        (store[k] # Absent /\ ~ (store[k] # Never /\ now > store[k]) /\ store'[k] = Absent)
            => (\E K \in SUBSET Keys : DeleteKeys(K)) \/ \E t \in Threads : Remove(t)
  BY DEF FreshStep, Fresh
<1>. QED  BY <1>1, <1>2, <1>3, PTL DEF Spec, FreshKept
=============================================================================
