-------------------------- MODULE RateTableProofs --------------------------
(***************************************************************************)
(* What the rate limits of the API promise for any number of requests,     *)
(* addresses, rates and bursts.  The global bucket is shown to be the one  *)
(* of Limiter, and the bound proved there is then a bound for the API.     *)
(* The bound of the bucket of one address, which requests may hold when    *)
(* the table has forgotten it, and what the cleanup forgets come last.     *)
(***************************************************************************)
EXTENDS RateTable, FiniteSetTheorems, TLAPS

Stages == {"idle", "select global", "load", "store", "wait", "select"}

InGlobal == {r \in Requests : pc[r] = "select global"}

\* What the global bucket depends on.
GlobalTyped ==
    /\ now \in Nat
    /\ global \in [kind: {"global"}, tokens: Int, last: Int]
    /\ pc \in [Requests -> Stages]
    /\ arrived \in Nat /\ refused \in Nat

\* Whoever is in the Wait of the global bucket has arrived, and is not counted
\* as refused yet: Limiter's bound on cancelled waits is never in the way.
NoneLost ==
    /\ arrived <= MaxRequests
    /\ refused + Cardinality(InGlobal) <= arrived

GlobalInv == GlobalTyped /\ NoneLost

LEMMA GlobalConstants ==
    /\ Interval.global = GlobalRate
    /\ Capacity.global = Global!Capacity /\ Capacity.global \in Nat
    /\ GlobalRate \in Nat \ {0}
<1>1. Capacity.global = AtLeastOne(GlobalBurst)
  BY DEF Capacity
<1>. QED  BY <1>1, RatesAssumption, BurstsAssumption DEF Interval, AtLeastOne, Global!Capacity

\* Replenishing the global bucket is what Limiter does.
LEMMA GlobalRefilled ==
    ASSUME GlobalTyped
    PROVE  /\ Refilled(global) \in [kind: {"global"}, tokens: Int, last: Int]
           /\ Refilled(global).tokens = Global!Filled
           /\ Refilled(global).last = Global!Base
<1>1. /\ global.kind = "global" /\ global.tokens \in Int /\ global.last \in Int
      /\ global = [kind |-> "global", tokens |-> global.tokens, last |-> global.last]
  BY DEF GlobalTyped
<1>2. Interval[global.kind] = GlobalRate /\ Capacity[global.kind] = Global!Capacity
  BY <1>1, GlobalConstants
<1>3. Earned(global) = Global!NewTokens /\ Earned(global) \in Int
  BY <1>1, <1>2, GlobalConstants DEF Earned, Global!NewTokens, GlobalTyped
<1>4. CASE Earned(global) <= 0
  BY <1>1, <1>3, <1>4 DEF Refilled, Global!Filled, Global!Base
<1>5. CASE Earned(global) > 0
  <2>. DEFINE sum == global.tokens + Earned(global)
              t   == IF sum > Global!Capacity THEN Global!Capacity ELSE sum
  <2>1. Refilled(global) = [global EXCEPT !.tokens = t, !.last = now]
    BY <1>2, <1>3, <1>5 DEF Refilled
  <2>2. t = Global!Filled /\ now = Global!Base
    BY <1>1, <1>3, <1>5, GlobalConstants DEF Global!Filled, Global!Base
  <2>3. t \in Int
    BY <1>1, <1>3, GlobalConstants
  <2>4. now \in Int
    BY DEF GlobalTyped
  <2>. HIDE DEF t
  <2>5. Refilled(global) = [kind |-> "global", tokens |-> t, last |-> now]
    BY <1>1, <2>1
  <2>. QED  BY <2>2, <2>3, <2>4, <2>5
<1>. QED  BY <1>3, <1>4, <1>5

LEMMA GlobalTaken ==
    ASSUME GlobalTyped
    PROVE  /\ Taken(global) \in [kind: {"global"}, tokens: Int, last: Int]
           /\ Taken(global).tokens = Global!Filled - 1
           /\ Taken(global).last = Global!Base
           /\ Reserved(global) \in [kind: {"global"}, tokens: Int, last: Int]
           /\ Reserved(global).tokens = Global!Filled
           /\ Reserved(global).last = Global!Base + GlobalRate
<1>1. Interval[global.kind] = GlobalRate
  BY GlobalConstants DEF GlobalTyped
<1>. QED  BY <1>1, GlobalRefilled, GlobalConstants DEF Taken, Reserved

-----------------------------------------------------------------------------
(* One request enters or leaves the Wait of the global bucket.             *)

LEMMA InGlobalFinite == IsFiniteSet(InGlobal) /\ Cardinality(InGlobal) \in Nat
<1>1. InGlobal \subseteq Requests
  BY DEF InGlobal
<1>. QED  BY <1>1, RequestsAssumption, FS_Subset, FS_CardinalityType

\* The steps that do not concern it.
LEMMA PcElsewhere ==
    ASSUME pc \in [Requests -> Stages], NEW r \in Requests, NEW p \in Stages,
           pc[r] # "select global", p # "select global", pc' = [pc EXCEPT ![r] = p]
    PROVE  InGlobal' = InGlobal /\ pc' \in [Requests -> Stages]
BY DEF InGlobal, Stages

LEMMA PcEnters ==
    ASSUME pc \in [Requests -> Stages], NEW r \in Requests,
           pc[r] # "select global", pc' = [pc EXCEPT ![r] = "select global"]
    PROVE  /\ r \notin InGlobal /\ InGlobal' = InGlobal \cup {r}
           /\ Cardinality(InGlobal') = Cardinality(InGlobal) + 1
           /\ pc' \in [Requests -> Stages]
<1>1. r \notin InGlobal /\ InGlobal' = InGlobal \cup {r}
  BY DEF InGlobal
<1>2. pc' \in [Requests -> Stages]
  BY DEF Stages
<1>. QED  BY <1>1, <1>2, InGlobalFinite, FS_AddElement

LEMMA PcLeaves ==
    ASSUME pc \in [Requests -> Stages], NEW r \in Requests, NEW p \in Stages,
           pc[r] = "select global", p # "select global", pc' = [pc EXCEPT ![r] = p]
    PROVE  /\ r \in InGlobal /\ InGlobal' = InGlobal \ {r}
           /\ Cardinality(InGlobal') = Cardinality(InGlobal) - 1
           /\ pc' \in [Requests -> Stages]
<1>1. r \in InGlobal /\ InGlobal' = InGlobal \ {r}
  BY DEF InGlobal
<1>. QED  BY <1>1, InGlobalFinite, FS_RemoveElement

\* Past the global bucket a request is loading its entry or answered.
LEMMA PassedPc ==
    ASSUME NEW r \in Requests, NEW k, PassGlobal(r, k)
    PROVE  \E p \in {"load", "idle"} : pc' = [pc EXCEPT ![r] = p]
BY DEF PassGlobal, PassedOn, Answered

-----------------------------------------------------------------------------
(* The refinement.                                                         *)

LEMMA InitGlobal == Init => GlobalInv /\ Global!Init
<1>. SUFFICES ASSUME Init PROVE GlobalInv /\ Global!Init
  OBVIOUS
<1>1. InGlobal = {}
  BY DEF Init, InGlobal
<1>2. Cardinality(InGlobal) = 0
  BY <1>1, FS_EmptySet
<1>3. global = [kind |-> "global", tokens |-> Capacity.global, last |-> 0]
  BY DEF Init
<1>4. GlobalTyped
  BY <1>3, GlobalConstants DEF Init, GlobalTyped, Stages
<1>5. NoneLost
  BY <1>2, MaxAssumption DEF Init, NoneLost
<1>6. Global!Init
  <2>1. global.tokens = Global!Capacity /\ global.last = 0
    BY <1>3, GlobalConstants
  <2>2. /\ now = 0 /\ due = [r \in Requests |-> 0]
        /\ granted = 0 /\ lastGrant = 0 /\ refused = 0
    BY DEF Init
  <2>. QED  BY <1>1, <2>1, <2>2 DEF Global!Init, InGlobal
<1>. QED  BY <1>4, <1>5, <1>6 DEF GlobalInv

LEMMA Unconcerned ==
    ASSUME GlobalInv, UNCHANGED <<now, global, due, arrived, history>>,
           InGlobal' = InGlobal, pc' \in [Requests -> Stages]
    PROVE  GlobalInv' /\ UNCHANGED Global!vars
<1>1. UNCHANGED Global!vars
  BY DEF Global!vars, history, InGlobal
<1>. QED  BY <1>1 DEF GlobalInv, GlobalTyped, NoneLost, history

LEMMA TickGlobal ==
    ASSUME GlobalInv, Tick
    PROVE  GlobalInv' /\ [Global!Next]_Global!vars
<1>1. /\ now < MaxTime /\ now' = now + 1
      /\ UNCHANGED <<global, pc, due, arrived, granted, lastGrant, refused>>
  BY DEF Tick, requests, history
<1>2. InGlobal' = InGlobal
  BY <1>1 DEF InGlobal
<1>3. Global!Tick
  BY <1>1, <1>2 DEF Global!Tick, InGlobal
<1>4. GlobalInv'
  BY <1>1, <1>2 DEF GlobalInv, GlobalTyped, NoneLost
<1>. QED  BY <1>3, <1>4 DEF Global!Next

LEMMA WaitGlobalStep ==
    ASSUME GlobalInv, NEW r \in Requests, NEW a \in Addrs, NEW k \in Kinds,
           WaitGlobal(r, a, k)
    PROVE  GlobalInv' /\ [Global!Next]_Global!vars
<1>1. /\ pc[r] = "idle" /\ arrived < MaxRequests /\ arrived' = arrived + 1
      /\ now' = now
  BY DEF WaitGlobal
<1>2. GlobalTyped /\ NoneLost /\ pc \in [Requests -> Stages]
  BY DEF GlobalInv, GlobalTyped
<1>3. r \notin InGlobal
  BY <1>1 DEF InGlobal
<1>4. CASE /\ Refilled(global).tokens > 0 /\ global' = Taken(global)
           /\ PassGlobal(r, k) /\ UNCHANGED <<due, refused>>
  <2>1. PICK p \in {"load", "idle"} : pc' = [pc EXCEPT ![r] = p]
    BY <1>4, PassedPc
  <2>2. InGlobal' = InGlobal /\ pc' \in [Requests -> Stages]
    BY <1>1, <1>2, <2>1, PcElsewhere DEF Stages
  <2>3. granted' = granted + 1 /\ lastGrant' = now
    BY <1>4 DEF PassGlobal
  <2>4. Global!WaitGranted(r)
    BY <1>1, <1>2, <1>3, <1>4, <2>2, <2>3, GlobalRefilled, GlobalTaken
    DEF Global!WaitGranted, InGlobal
  <2>5. GlobalTyped'
    BY <1>1, <1>2, <1>4, <2>2, GlobalTaken DEF GlobalTyped
  <2>6. NoneLost'
    BY <1>1, <1>2, <1>4, <2>2, InGlobalFinite, MaxAssumption DEF NoneLost, GlobalTyped
  <2>. QED  BY <2>4, <2>5, <2>6 DEF Global!Next, GlobalInv
<1>5. CASE /\ Refilled(global).tokens <= 0 /\ global' = Reserved(global)
           /\ due' = [due EXCEPT ![r] = Reserved(global).last]
           /\ pc' = [pc EXCEPT ![r] = "select global"]
           /\ UNCHANGED history
  <2>1. /\ InGlobal' = InGlobal \cup {r} /\ pc' \in [Requests -> Stages]
        /\ Cardinality(InGlobal') = Cardinality(InGlobal) + 1
    BY <1>1, <1>2, <1>5, PcEnters
  <2>2. granted' = granted /\ lastGrant' = lastGrant /\ refused' = refused
    BY <1>5 DEF history
  <2>3. Global!WaitReserves(r)
    BY <1>1, <1>2, <1>3, <1>5, <2>1, <2>2, GlobalRefilled, GlobalTaken
    DEF Global!WaitReserves, InGlobal
  <2>4. GlobalTyped'
    <3>1. global' \in [kind: {"global"}, tokens: Int, last: Int]
      BY <1>2, <1>5, GlobalTaken
    <3>. QED  BY <1>1, <1>2, <2>1, <2>2, <3>1 DEF GlobalTyped
  <2>5. NoneLost'
    BY <1>1, <1>2, <2>1, <2>2, InGlobalFinite, MaxAssumption DEF NoneLost, GlobalTyped
  <2>. QED  BY <2>3, <2>4, <2>5 DEF Global!Next, GlobalInv
<1>. QED  BY <1>4, <1>5 DEF WaitGlobal

LEMMA SelectGlobalStep ==
    ASSUME GlobalInv, NEW r \in Requests, SelectGlobal(r)
    PROVE  GlobalInv' /\ [Global!Next]_Global!vars
<1>1. /\ pc[r] = "select global"
      /\ UNCHANGED <<now, global, due, arrived>>
  BY DEF SelectGlobal
<1>2. GlobalTyped /\ NoneLost /\ pc \in [Requests -> Stages]
  BY DEF GlobalInv, GlobalTyped
<1>3. CASE due[r] <= now /\ PassGlobal(r, kind[r]) /\ UNCHANGED refused
  <2>1. PICK p \in {"load", "idle"} : pc' = [pc EXCEPT ![r] = p]
    BY <1>3, PassedPc
  <2>2. /\ r \in InGlobal /\ InGlobal' = InGlobal \ {r} /\ pc' \in [Requests -> Stages]
        /\ Cardinality(InGlobal') = Cardinality(InGlobal) - 1
    BY <1>1, <1>2, <2>1, PcLeaves DEF Stages
  <2>3. granted' = granted + 1 /\ lastGrant' = now
    BY <1>3 DEF PassGlobal
  <2>4. Global!Wake(r)
    BY <1>1, <1>3, <2>2, <2>3 DEF Global!Wake, InGlobal
  <2>5. GlobalTyped'
    BY <1>1, <1>2, <1>3, <2>2 DEF GlobalTyped
  <2>6. NoneLost'
    <3>1. arrived' = arrived /\ refused' = refused
      BY <1>1, <1>3
    <3>. QED  BY <1>2, <2>2, <3>1, InGlobalFinite, MaxAssumption DEF NoneLost, GlobalTyped
  <2>. QED  BY <2>4, <2>5, <2>6 DEF Global!Next, GlobalInv
<1>4. CASE /\ Answered(r) /\ refused' = refused + 1
           /\ UNCHANGED <<granted, lastGrant>>
  <2>1. pc' = [pc EXCEPT ![r] = "idle"]
    BY <1>4 DEF Answered
  <2>2. /\ r \in InGlobal /\ InGlobal' = InGlobal \ {r} /\ pc' \in [Requests -> Stages]
        /\ Cardinality(InGlobal') = Cardinality(InGlobal) - 1
    BY <1>1, <1>2, <2>1, PcLeaves DEF Stages
  <2>3. Cardinality(InGlobal) >= 1
    BY <2>2, InGlobalFinite, FS_EmptySet
  <2>4. refused < MaxRequests
    BY <1>2, <2>3, InGlobalFinite, MaxAssumption DEF NoneLost, GlobalTyped
  <2>5. Global!Cancel(r)
    BY <1>1, <1>4, <2>2, <2>4 DEF Global!Cancel, InGlobal
  <2>6. arrived' = arrived /\ refused' = refused + 1 /\ UNCHANGED <<now, global>>
    BY <1>1, <1>4
  <2>7. GlobalTyped'
    BY <1>2, <2>2, <2>6 DEF GlobalTyped
  <2>8. NoneLost'
    BY <1>2, <2>2, <2>6, InGlobalFinite, MaxAssumption DEF NoneLost, GlobalTyped
  <2>. QED  BY <2>5, <2>7, <2>8 DEF Global!Next, GlobalInv
<1>. QED  BY <1>3, <1>4 DEF SelectGlobal

\* The steps on the bucket of an address.
LEMMA OtherSteps ==
    ASSUME GlobalInv, NEW r \in Requests, Load(r) \/ Store(r) \/ Wait(r) \/ Select(r)
    PROVE  GlobalInv' /\ UNCHANGED Global!vars
<1>1. /\ pc[r] # "select global"
      /\ UNCHANGED <<now, global, due, arrived, history>>
  BY DEF Load, Store, Wait, Select
<1>2. \E p \in {"idle", "store", "wait", "select"} : pc' = [pc EXCEPT ![r] = p]
  BY DEF Load, Store, Wait, Select, PassedOn, Answered
<1>3. pc \in [Requests -> Stages]
  BY DEF GlobalInv, GlobalTyped
<1>4. InGlobal' = InGlobal /\ pc' \in [Requests -> Stages]
  BY <1>1, <1>2, <1>3, PcElsewhere DEF Stages
<1>. QED  BY <1>1, <1>4, Unconcerned

LEMMA SweepStep ==
    ASSUME GlobalInv, Sweep
    PROVE  GlobalInv' /\ UNCHANGED Global!vars
<1>1. UNCHANGED <<now, global, due, arrived, history, pc>>
  BY DEF Sweep, StartSweep, CheckEntry, DeleteEntry, EndSweep, requests
<1>2. InGlobal' = InGlobal /\ pc' \in [Requests -> Stages]
  BY <1>1 DEF InGlobal, GlobalInv, GlobalTyped
<1>. QED  BY <1>1, <1>2, Unconcerned

LEMMA NextGlobal ==
    ASSUME GlobalInv, [Next]_vars
    PROVE  GlobalInv' /\ [Global!Next]_Global!vars
<1>1. CASE Tick
  BY <1>1, TickGlobal
<1>2. ASSUME NEW r \in Requests, ServeHTTP(r)
      PROVE  GlobalInv' /\ [Global!Next]_Global!vars
  BY <1>2, WaitGlobalStep, SelectGlobalStep, OtherSteps DEF ServeHTTP
<1>3. CASE Sweep
  BY <1>3, SweepStep
<1>4. CASE UNCHANGED vars
  <2>1. UNCHANGED <<now, global, due, arrived, history, pc>>
    BY <1>4 DEF vars, requests, history
  <2>2. InGlobal' = InGlobal /\ pc' \in [Requests -> Stages]
    BY <2>1 DEF InGlobal, GlobalInv, GlobalTyped
  <2>. QED  BY <2>1, <2>2, Unconcerned
<1>. QED  BY <1>1, <1>2, <1>3, <1>4 DEF Next

\* The requests of the API use the global bucket as the callers of Limiter use
\* theirs: serveHTTP's Wait with a cancelled context is a Wait followed by a
\* Cancel, and between them comes whatever the other requests do.
THEOREM GlobalRefines == Spec => GlobalIsLimiter
<1>1. Init => GlobalInv /\ Global!Init
  BY InitGlobal
<1>2. GlobalInv /\ [Next]_vars => GlobalInv' /\ [Global!Next]_Global!vars
  BY NextGlobal
<1>. QED  BY <1>1, <1>2, PTL DEF Spec, GlobalIsLimiter, Global!Spec

-----------------------------------------------------------------------------
(* What was proved of Limiter, for the API.                                *)

Proved == INSTANCE LimiterProofs WITH
    Callers <- Requests, Rate <- GlobalRate, Burst <- GlobalBurst,
    MaxCancels <- MaxRequests,
    tokens <- global.tokens, lastUpdate <- global.last,
    sleeping <- {r \in Requests : pc[r] = "select global"},
    cancels <- refused

LEMMA GrantedBound == Spec => [](granted * GlobalRate <= now + Capacity.global * GlobalRate)
<1>1. Proved!IsFiniteSet(Requests)
  BY RequestsAssumption DEF Proved!IsFiniteSet, IsFiniteSet
<1>2. Proved!Spec => []Proved!RateBound
  BY <1>1, Proved!RateCorrect, RatesAssumption, BurstsAssumption, RequestsAssumption,
     MaxAssumption
<1>3. Proved!Spec <=> Global!Spec
  <2>1. Proved!Init <=> Global!Init
    BY DEF Proved!Init, Global!Init, Proved!Capacity, Global!Capacity
  <2>2. [Proved!Next]_Proved!vars <=> [Global!Next]_Global!vars
    BY DEF Proved!Next, Global!Next, Proved!vars, Global!vars, Proved!Tick, Global!Tick,
           Proved!WaitGranted, Global!WaitGranted, Proved!WaitReserves,
           Global!WaitReserves, Proved!Wake, Global!Wake, Proved!Cancel, Global!Cancel,
           Proved!Filled, Global!Filled, Proved!Base, Global!Base,
           Proved!NewTokens, Global!NewTokens, Proved!Capacity, Global!Capacity
  <2>. QED  BY <2>1, <2>2, PTL DEF Proved!Spec, Global!Spec
<1>4. Proved!RateBound => granted * GlobalRate <= now + Capacity.global * GlobalRate
  BY GlobalConstants DEF Proved!RateBound, Proved!Capacity, Global!Capacity
<1>. QED  BY <1>2, <1>3, <1>4, GlobalRefines, PTL DEF GlobalIsLimiter

-----------------------------------------------------------------------------
(* Every request that is passed on was granted by the global bucket.       *)

Inside == {"load", "store", "wait", "select"}

InAddress == {r \in Requests : pc[r] \in Inside}

GrantedFirst ==
    /\ granted \in Nat /\ served \in Nat /\ pc \in [Requests -> Stages]
    /\ served + Cardinality(InAddress) <= granted

LEMMA InAddressFinite == IsFiniteSet(InAddress) /\ Cardinality(InAddress) \in Nat
<1>1. InAddress \subseteq Requests
  BY DEF InAddress
<1>. QED  BY <1>1, RequestsAssumption, FS_Subset, FS_CardinalityType

\* The account of grants and answers: whoever comes to an address's bucket has
\* just been granted, whoever leaves it may be passed on, and whoever does
\* neither is passed on with the grant.
LEMMA Comes ==
    ASSUME GrantedFirst, NEW r \in Requests, NEW p \in Inside, pc[r] \notin Inside,
           pc' = [pc EXCEPT ![r] = p], granted' = granted + 1, served' = served
    PROVE  GrantedFirst'
<1>1. pc \in [Requests -> Stages] /\ p \in Stages
  BY DEF GrantedFirst, Inside, Stages
<1>2. pc' \in [Requests -> Stages]
  BY <1>1
<1>3. InAddress' = InAddress \cup {r} /\ r \notin InAddress
  BY <1>1 DEF InAddress
<1>4. Cardinality(InAddress') = Cardinality(InAddress) + 1
  BY <1>3, InAddressFinite, FS_AddElement
<1>. QED  BY <1>2, <1>4, InAddressFinite DEF GrantedFirst

LEMMA Leaves ==
    ASSUME GrantedFirst, NEW r \in Requests, pc[r] \in Inside,
           pc' = [pc EXCEPT ![r] = "idle"], granted' = granted,
           served' = served \/ served' = served + 1
    PROVE  GrantedFirst'
<1>1. pc \in [Requests -> Stages] /\ "idle" \notin Inside
  BY DEF GrantedFirst, Inside
<1>2. pc' \in [Requests -> Stages]
  BY <1>1 DEF Stages
<1>3. InAddress' = InAddress \ {r} /\ r \in InAddress
  BY <1>1 DEF InAddress
<1>4. Cardinality(InAddress') = Cardinality(InAddress) - 1
  BY <1>3, InAddressFinite, FS_RemoveElement
<1>. QED  BY <1>2, <1>4, InAddressFinite DEF GrantedFirst

LEMMA Stays ==
    ASSUME GrantedFirst, NEW r \in Requests, NEW p \in Stages,
           pc' = [pc EXCEPT ![r] = p],
           \/ pc[r] \in Inside /\ p \in Inside
           \/ pc[r] \notin Inside /\ p \notin Inside,
           \/ granted' = granted /\ served' = served
           \/ granted' = granted + 1 /\ served' = served + 1
           \/ granted' = granted + 1 /\ served' = served
    PROVE  GrantedFirst'
<1>1. pc \in [Requests -> Stages]
  BY DEF GrantedFirst
<1>2. pc' \in [Requests -> Stages]
  BY <1>1
<1>3. InAddress' = InAddress
  BY <1>1 DEF InAddress
<1>4. Cardinality(InAddress') = Cardinality(InAddress)
  BY <1>3
<1>. QED  BY <1>2, <1>4, InAddressFinite DEF GrantedFirst

LEMMA GrantedFirstInit == Init => GrantedFirst
<1>. SUFFICES ASSUME Init PROVE GrantedFirst
  OBVIOUS
<1>1. InAddress = {}
  BY DEF Init, InAddress, Inside
<1>2. Cardinality(InAddress) = 0
  BY <1>1, FS_EmptySet
<1>. QED  BY <1>2 DEF Init, GrantedFirst, Stages

LEMMA PassedGlobal ==
    ASSUME GrantedFirst, NEW r \in Requests, NEW k, pc[r] \notin Inside, PassGlobal(r, k)
    PROVE  GrantedFirst'
<1>1. granted' = granted + 1
  BY DEF PassGlobal
<1>2. CASE Interval[k] > 0
  <2>1. pc' = [pc EXCEPT ![r] = "load"] /\ served' = served
    BY <1>2 DEF PassGlobal
  <2>2. "load" \in Inside
    BY DEF Inside
  <2>. QED  BY <1>1, <2>1, <2>2, Comes
<1>3. CASE ~(Interval[k] > 0)
  <2>1. pc' = [pc EXCEPT ![r] = "idle"] /\ served' = served + 1
    BY <1>3 DEF PassGlobal, PassedOn, Answered
  <2>2. "idle" \in Stages \ Inside
    BY DEF Inside, Stages
  <2>. QED  BY <1>1, <2>1, <2>2, Stays
<1>. QED  BY <1>2, <1>3

LEMMA ServeGranted ==
    ASSUME GrantedFirst, NEW r \in Requests, ServeHTTP(r)
    PROVE  GrantedFirst'
<1>0. /\ {"idle", "select global"} \subseteq Stages \ Inside
      /\ {"store", "wait", "select"} \subseteq Stages \cap Inside
  BY DEF Inside, Stages
<1>1. ASSUME NEW a \in Addrs, NEW k \in Kinds, WaitGlobal(r, a, k)
      PROVE  GrantedFirst'
  <2>1. pc[r] \notin Inside
    BY <1>1 DEF WaitGlobal, Inside
  <2>2. CASE PassGlobal(r, k)
    BY <2>1, <2>2, PassedGlobal
  <2>3. CASE pc' = [pc EXCEPT ![r] = "select global"] /\ UNCHANGED <<served, history>>
    <3>1. granted' = granted /\ served' = served
      BY <2>3 DEF history
    <3>. QED  BY <1>0, <2>1, <2>3, <3>1, Stays
  <2>. QED  BY <1>1, <2>2, <2>3 DEF WaitGlobal
<1>2. CASE SelectGlobal(r)
  <2>1. pc[r] \notin Inside
    BY <1>2 DEF SelectGlobal, Inside
  <2>2. CASE PassGlobal(r, kind[r])
    BY <2>1, <2>2, PassedGlobal
  <2>3. CASE pc' = [pc EXCEPT ![r] = "idle"] /\ UNCHANGED <<granted, served>>
    <3>1. granted' = granted /\ served' = served
      BY <2>3
    <3>. QED  BY <1>0, <2>1, <2>3, <3>1, Stays
  <2>. QED  BY <1>2, <2>2, <2>3 DEF SelectGlobal, Answered
<1>3. CASE Load(r) \/ Store(r)
  <2>1. pc[r] \in Inside /\ granted' = granted /\ served' = served
    BY <1>3 DEF Load, Store, Inside, history
  <2>2. PICK p \in {"store", "wait"} : pc' = [pc EXCEPT ![r] = p]
    BY <1>3 DEF Load, Store
  <2>. QED  BY <1>0, <2>1, <2>2, Stays
<1>4. CASE Wait(r) \/ Select(r)
  <2>1. pc[r] \in Inside /\ granted' = granted
    BY <1>4 DEF Wait, Select, Inside, history
  <2>2. CASE Answered(r) /\ (served' = served \/ served' = served + 1)
    BY <2>1, <2>2, Leaves DEF Answered
  <2>3. CASE pc' = [pc EXCEPT ![r] = "select"] /\ served' = served
    BY <1>0, <2>1, <2>3, Stays
  <2>. QED  BY <1>4, <2>2, <2>3 DEF Wait, Select, PassedOn
<1>. QED  BY <1>1, <1>2, <1>3, <1>4 DEF ServeHTTP

LEMMA NextGranted == GrantedFirst /\ [Next]_vars => GrantedFirst'
<1>. SUFFICES ASSUME GrantedFirst, [Next]_vars PROVE GrantedFirst'
  OBVIOUS
<1>1. ASSUME UNCHANGED <<pc, granted, served>> PROVE GrantedFirst'
  BY <1>1 DEF GrantedFirst, InAddress
<1>2. Tick \/ Sweep \/ UNCHANGED vars => UNCHANGED <<pc, granted, served>>
  BY DEF Tick, Sweep, StartSweep, CheckEntry, DeleteEntry, EndSweep, vars, requests, history
<1>. QED  BY <1>1, <1>2, ServeGranted DEF Next

\* The first half of RatesHold: however many addresses there are, and whatever
\* the cleanup removes, the API passes on no more requests than the global burst
\* and one per interval.
THEOREM ServedCorrect == Spec => []ServedBound
<1>1. Spec => []GrantedFirst
  BY GrantedFirstInit, NextGranted, PTL DEF Spec
<1>2. /\ GrantedFirst
      /\ granted * GlobalRate <= now + Capacity.global * GlobalRate
      /\ GlobalInv
      => ServedBound
  <2>. SUFFICES ASSUME GrantedFirst, GlobalInv,
                       granted * GlobalRate <= now + Capacity.global * GlobalRate
                PROVE  ServedBound
    OBVIOUS
  <2>1. granted \in Nat /\ served \in Nat /\ served <= granted
    BY InAddressFinite DEF GrantedFirst
  <2>2. now \in Nat /\ GlobalRate \in Nat /\ Capacity.global \in Nat
    BY GlobalConstants DEF GlobalInv, GlobalTyped
  <2>3. served * GlobalRate <= granted * GlobalRate
    BY <2>1, <2>2
  <2>4. /\ served * GlobalRate \in Nat /\ granted * GlobalRate \in Nat
        /\ Capacity.global * GlobalRate \in Nat
    BY <2>1, <2>2
  <2>. QED  BY <2>2, <2>3, <2>4 DEF ServedBound
<1>3. Spec => []GlobalInv
  BY InitGlobal, NextGlobal, PTL DEF Spec
<1>. QED  BY <1>1, <1>2, <1>3, GrantedBound, PTL

-----------------------------------------------------------------------------
(* The buckets of one address.                                             *)

\* Requests that have made a bucket for a and not stored it yet.
Storing(a) == {r \in Requests : pc[r] = "store" /\ addr[r] = a}

IsSeq(s) == \E S : s \in Seq(S)

TableTyped ==
    /\ IsSeq(bucket)
    /\ pc \in [Requests -> Stages] /\ addr \in [Requests -> Addrs]
    /\ table \in [Addrs -> Nat] /\ mine \in [Requests -> Nat]
    /\ stored \in [Addrs -> Nat]
    /\ \A r \in Requests : pc[r] = "store" => mine[r] # 0

\* Only requests that found no entry make a bucket: when there is none yet,
\* each request can have made one, and later ones make no more.
StoresCounted == \A a \in Addrs :
    /\ table[a] = 0 => stored[a] = 0
    /\ stored[a] + Cardinality(Storing(a)) <= Cardinality(Requests)

TableInv == TableTyped /\ StoresCounted

LEMMA StoringFinite ==
    ASSUME NEW a
    PROVE  /\ IsFiniteSet(Storing(a)) /\ Cardinality(Storing(a)) \in Nat
           /\ Cardinality(Storing(a)) <= Cardinality(Requests)
           /\ Cardinality(Requests) \in Nat
<1>1. Storing(a) \subseteq Requests
  BY DEF Storing
<1>. QED  BY <1>1, RequestsAssumption, FS_Subset, FS_CardinalityType

LEMMA SeqExcept ==
    ASSUME NEW s, IsSeq(s), NEW i, NEW v
    PROVE  IsSeq([s EXCEPT ![i] = v]) /\ Len(s) \in Nat
<1>1. PICK S : s \in Seq(S)
  BY DEF IsSeq
<1>2. s \in Seq(S \cup {v})
  BY <1>1
<1>. DEFINE t == [s EXCEPT ![i] = v]
<1>3. DOMAIN t = 1..Len(s) /\ Len(s) \in Nat
  BY <1>2
<1>4. \A j \in 1..Len(s) : t[j] \in S \cup {v}
  BY <1>2
<1>5. t = [j \in 1..Len(s) |-> t[j]]
  BY <1>3
<1>6. t \in Seq(S \cup {v})
  <2>. HIDE DEF t
  <2>. QED  BY <1>3, <1>4, <1>5
<1>. QED  BY <1>1, <1>6 DEF IsSeq

LEMMA SeqAppend ==
    ASSUME NEW s, IsSeq(s), NEW v
    PROVE  IsSeq(Append(s, v)) /\ Len(s) \in Nat
<1>1. PICK S : s \in Seq(S)
  BY DEF IsSeq
<1>2. Append(s, v) \in Seq(S \cup {v})
  BY <1>1
<1>. QED  BY <1>1, <1>2 DEF IsSeq

LEMMA TableInit == Init => TableInv
<1>. SUFFICES ASSUME Init PROVE TableInv
  OBVIOUS
<1>1. IsSeq(bucket)
  <2>1. bucket \in Seq({})
    BY DEF Init
  <2>. QED  BY <2>1 DEF IsSeq
<1>2. TableTyped
  BY <1>1 DEF Init, TableTyped, Stages
<1>3. ASSUME NEW a \in Addrs
      PROVE  stored[a] = 0 /\ 0 + Cardinality(Storing(a)) <= Cardinality(Requests)
  BY StoringFinite DEF Init
<1>4. StoresCounted
  BY <1>3 DEF StoresCounted
<1>. QED  BY <1>2, <1>4 DEF TableInv

\* A step after which no more requests have a bucket to store.
LEMMA NoMoreStoring ==
    ASSUME TableInv, TableTyped', table' = table, stored' = stored,
           \A r \in Requests : pc'[r] = "store" => pc[r] = "store" /\ addr'[r] = addr[r]
    PROVE  TableInv'
<1>1. ASSUME NEW a \in Addrs
      PROVE  /\ table'[a] = 0 => stored'[a] = 0
             /\ stored'[a] + Cardinality(Storing(a)') <= Cardinality(Requests)
  <2>1. Storing(a)' \subseteq Storing(a)
    BY DEF Storing
  <2>2. IsFiniteSet(Storing(a)) /\ Cardinality(Storing(a)) \in Nat
    BY StoringFinite
  <2>3. Cardinality(Storing(a)') \in Nat /\ Cardinality(Storing(a)') <= Cardinality(Storing(a))
    BY <2>1, <2>2, FS_Subset, FS_CardinalityType
  <2>4. /\ table[a] = 0 => stored[a] = 0
        /\ stored[a] + Cardinality(Storing(a)) <= Cardinality(Requests)
        /\ stored[a] \in Nat
    BY DEF TableInv, StoresCounted, TableTyped
  <2>. QED  BY <2>2, <2>3, <2>4, StoringFinite
<1>2. StoresCounted'
  BY <1>1 DEF StoresCounted
<1>. QED  BY <1>2 DEF TableInv

LEMMA AnsweredTable ==
    ASSUME TableInv, NEW r \in Requests, Answered(r), IsSeq(bucket'),
           UNCHANGED <<table, stored, addr>>
    PROVE  TableInv'
<1>1. pc' = [pc EXCEPT ![r] = "idle"] /\ mine' = [mine EXCEPT ![r] = 0]
  BY DEF Answered
<1>2. TableTyped
  BY DEF TableInv
<1>3. pc' \in [Requests -> Stages] /\ mine' \in [Requests -> Nat]
  BY <1>1, <1>2 DEF TableTyped, Stages
<1>4. \A q \in Requests : pc'[q] = "store" => pc[q] = "store" /\ mine'[q] = mine[q]
  BY <1>1, <1>2 DEF TableTyped
<1>5. TableTyped'
  BY <1>2, <1>3, <1>4 DEF TableTyped
<1>. QED  BY <1>4, <1>5, NoMoreStoring

\* A request goes on to another stage than storing.
LEMMA StageTable ==
    ASSUME TableInv, NEW r \in Requests, NEW p \in Stages, p # "store",
           pc' = [pc EXCEPT ![r] = p], IsSeq(bucket'), mine' \in [Requests -> Nat],
           \A q \in Requests : q # r => mine'[q] = mine[q] /\ addr'[q] = addr[q],
           addr' \in [Requests -> Addrs], UNCHANGED <<table, stored>>
    PROVE  TableInv'
<1>2. TableTyped
  BY DEF TableInv
<1>3. pc' \in [Requests -> Stages]
  BY <1>2 DEF TableTyped
<1>4. \A q \in Requests : pc'[q] = "store" =>
          pc[q] = "store" /\ mine'[q] = mine[q] /\ addr'[q] = addr[q]
  BY <1>2 DEF TableTyped
<1>5. TableTyped'
  BY <1>2, <1>3, <1>4 DEF TableTyped
<1>. QED  BY <1>4, <1>5, NoMoreStoring

LEMMA LoadTable ==
    ASSUME TableInv, NEW r \in Requests, Load(r)
    PROVE  TableInv'
<1>1. TableTyped /\ StoresCounted
  BY DEF TableInv
<1>2. /\ UNCHANGED <<table, stored, addr>> /\ pc[r] = "load"
      /\ addr[r] \in Addrs /\ table[addr[r]] \in Nat
  BY <1>1 DEF Load, TableTyped
<1>3. CASE /\ table[addr[r]] # 0
           /\ bucket' = [bucket EXCEPT ![table[addr[r]]].access = now]
           /\ mine' = [mine EXCEPT ![r] = table[addr[r]]]
           /\ pc' = [pc EXCEPT ![r] = "wait"]
  <2>1. IsSeq(bucket')
    BY <1>1, <1>3, SeqExcept DEF TableTyped
  <2>2. mine' \in [Requests -> Nat] /\ \A q \in Requests : q # r => mine'[q] = mine[q]
    BY <1>1, <1>2, <1>3 DEF TableTyped
  <2>3. "wait" \in Stages
    BY DEF Stages
  <2>4. addr' \in [Requests -> Addrs]
    BY <1>1, <1>2 DEF TableTyped
  <2>. QED  BY <1>2, <1>3, <2>1, <2>2, <2>3, <2>4, StageTable
<1>4. CASE /\ table[addr[r]] = 0
           /\ bucket' = Append(bucket, NewBucket(kind[r]))
           /\ mine' = [mine EXCEPT ![r] = Len(bucket) + 1]
           /\ pc' = [pc EXCEPT ![r] = "store"]
  <2>1. IsSeq(bucket') /\ Len(bucket) + 1 \in Nat \ {0}
    BY <1>1, <1>4, SeqAppend DEF TableTyped
  <2>2. pc' \in [Requests -> Stages] /\ mine' \in [Requests -> Nat]
    BY <1>1, <1>4, <2>1 DEF TableTyped, Stages
  <2>3. \A q \in Requests : pc'[q] = "store" => mine'[q] # 0
    BY <1>1, <1>4, <2>1 DEF TableTyped
  <2>4. TableTyped'
    BY <1>1, <1>2, <2>1, <2>2, <2>3 DEF TableTyped
  <2>5. ASSUME NEW a \in Addrs
        PROVE  /\ table'[a] = 0 => stored'[a] = 0
               /\ stored'[a] + Cardinality(Storing(a)') <= Cardinality(Requests)
    <3>1. /\ table[a] = 0 => stored[a] = 0
          /\ stored[a] + Cardinality(Storing(a)) <= Cardinality(Requests)
      BY <1>1 DEF StoresCounted
    <3>2. CASE a = addr[r]
      <4>1. stored'[a] = 0
        BY <1>2, <1>4, <3>1, <3>2
      <4>2. Storing(a)' \subseteq Requests
        BY DEF Storing
      <4>3. Cardinality(Storing(a)') \in Nat /\ Cardinality(Storing(a)') <= Cardinality(Requests)
        BY <4>2, RequestsAssumption, FS_Subset, FS_CardinalityType
      <4>. QED  BY <4>1, <4>3
    <3>3. CASE a # addr[r]
      <4>1. Storing(a)' = Storing(a)
        BY <1>1, <1>2, <1>4, <3>3 DEF Storing, TableTyped
      <4>. QED  BY <1>2, <3>1, <4>1
    <3>. QED  BY <3>2, <3>3
  <2>. QED  BY <2>4, <2>5 DEF TableInv, StoresCounted
<1>. QED  BY <1>3, <1>4 DEF Load

LEMMA StoreTable ==
    ASSUME TableInv, NEW r \in Requests, Store(r)
    PROVE  TableInv'
<1>1. TableTyped /\ StoresCounted
  BY DEF TableInv
<1>2. /\ pc[r] = "store" /\ addr[r] \in Addrs /\ mine[r] \in Nat \ {0}
      /\ table' = [table EXCEPT ![addr[r]] = mine[r]]
      /\ stored' = [stored EXCEPT ![addr[r]] = stored[addr[r]] + 1]
      /\ pc' = [pc EXCEPT ![r] = "wait"]
      /\ UNCHANGED <<bucket, addr, mine>>
  BY <1>1 DEF Store, TableTyped
<1>3. TableTyped'
  <2>1. pc' \in [Requests -> Stages]
    BY <1>1, <1>2 DEF TableTyped, Stages
  <2>2. table' \in [Addrs -> Nat]
    BY <1>1, <1>2 DEF TableTyped
  <2>3. stored' \in [Addrs -> Nat]
    BY <1>1, <1>2 DEF TableTyped
  <2>4. \A q \in Requests : pc'[q] = "store" => mine'[q] # 0
    BY <1>1, <1>2 DEF TableTyped
  <2>. QED  BY <1>1, <1>2, <2>1, <2>2, <2>3, <2>4 DEF TableTyped
<1>4. ASSUME NEW a \in Addrs
      PROVE  /\ table'[a] = 0 => stored'[a] = 0
             /\ stored'[a] + Cardinality(Storing(a)') <= Cardinality(Requests)
  <2>1. /\ table[a] = 0 => stored[a] = 0
        /\ stored[a] + Cardinality(Storing(a)) <= Cardinality(Requests)
        /\ stored[a] \in Nat
    BY <1>1 DEF StoresCounted, TableTyped
  <2>2. CASE a = addr[r]
    <3>1. r \in Storing(a) /\ Storing(a)' = Storing(a) \ {r}
      BY <1>1, <1>2, <2>2 DEF Storing, TableTyped
    <3>2. Cardinality(Storing(a)') = Cardinality(Storing(a)) - 1
      BY <3>1, StoringFinite, FS_RemoveElement
    <3>3. table'[a] # 0 /\ stored'[a] = stored[a] + 1
      BY <1>1, <1>2, <2>2 DEF TableTyped
    <3>. QED  BY <2>1, <3>2, <3>3, StoringFinite
  <2>3. CASE a # addr[r]
    <3>1. Storing(a)' = Storing(a)
      BY <1>1, <1>2, <2>3 DEF Storing, TableTyped
    <3>2. table'[a] = table[a] /\ stored'[a] = stored[a]
      BY <1>1, <1>2, <2>3 DEF TableTyped
    <3>. QED  BY <2>1, <3>1, <3>2
  <2>. QED  BY <2>2, <2>3
<1>. QED  BY <1>3, <1>4 DEF TableInv, StoresCounted

LEMMA ServeTable ==
    ASSUME TableInv, NEW r \in Requests, ServeHTTP(r)
    PROVE  TableInv'
<1>0. TableTyped /\ IsSeq(bucket)
  BY DEF TableInv, TableTyped
<1>1. {"idle", "load", "wait", "select", "select global"} \subseteq Stages \ {"store"}
  BY DEF Stages
<1>2. mine \in [Requests -> Nat] /\ addr \in [Requests -> Addrs]
  BY <1>0 DEF TableTyped
<1>3. ASSUME NEW a \in Addrs, NEW k \in Kinds, WaitGlobal(r, a, k)
      PROVE  TableInv'
  <2>1. /\ addr' = [addr EXCEPT ![r] = a] /\ UNCHANGED <<bucket, table, stored>>
    BY <1>3 DEF WaitGlobal
  <2>2. addr' \in [Requests -> Addrs] /\ \A q \in Requests : q # r => addr'[q] = addr[q]
    BY <1>2, <2>1
  <2>3. \E p \in {"idle", "load", "select global"} : pc' = [pc EXCEPT ![r] = p]
    BY <1>3 DEF WaitGlobal, PassGlobal, PassedOn, Answered
  <2>4. mine' = mine \/ mine' = [mine EXCEPT ![r] = 0]
    BY <1>3 DEF WaitGlobal, PassGlobal, PassedOn, Answered
  <2>5. mine' \in [Requests -> Nat] /\ \A q \in Requests : q # r => mine'[q] = mine[q]
    BY <1>2, <2>4
  <2>. QED  BY <1>0, <1>1, <2>1, <2>2, <2>3, <2>5, StageTable
<1>4. CASE SelectGlobal(r)
  <2>1. UNCHANGED <<addr, bucket, table, stored>>
    BY <1>4 DEF SelectGlobal
  <2>2. CASE Answered(r)
    BY <1>0, <2>1, <2>2, AnsweredTable
  <2>3. CASE pc' = [pc EXCEPT ![r] = "load"] /\ mine' = mine
    BY <1>0, <1>1, <1>2, <2>1, <2>3, StageTable
  <2>. QED  BY <1>4, <2>2, <2>3 DEF SelectGlobal, PassGlobal, PassedOn
<1>5. CASE Wait(r) \/ Select(r)
  <2>1. UNCHANGED <<addr, table, stored>>
    BY <1>5 DEF Wait, Select
  <2>2. IsSeq(bucket')
    <3>1. bucket' = bucket \/ \E v : bucket' = [bucket EXCEPT ![mine[r]] = v]
      BY <1>5 DEF Wait, Select
    <3>. QED  BY <1>0, <3>1, SeqExcept
  <2>3. CASE Answered(r)
    BY <2>1, <2>2, <2>3, AnsweredTable
  <2>4. CASE pc' = [pc EXCEPT ![r] = "select"] /\ mine' = mine
    BY <1>1, <1>2, <2>1, <2>2, <2>4, StageTable
  <2>. QED  BY <1>5, <2>3, <2>4 DEF Wait, Select, PassedOn
<1>. QED  BY <1>3, <1>4, <1>5, LoadTable, StoreTable DEF ServeHTTP

LEMMA DeleteTable ==
    ASSUME TableInv, DeleteEntry
    PROVE  TableInv'
<1>1. TableTyped /\ StoresCounted
  BY DEF TableInv
<1>2. /\ table' = [table EXCEPT ![victim] = 0] /\ stored' = [stored EXCEPT ![victim] = 0]
      /\ UNCHANGED <<bucket, pc, addr, mine>>
  BY DEF DeleteEntry, requests
<1>3. table' \in [Addrs -> Nat]
  BY <1>1, <1>2 DEF TableTyped
<1>4. stored' \in [Addrs -> Nat]
  BY <1>1, <1>2 DEF TableTyped
<1>5. TableTyped'
  BY <1>1, <1>2, <1>3, <1>4 DEF TableTyped
<1>6. ASSUME NEW a \in Addrs
      PROVE  /\ table'[a] = 0 => stored'[a] = 0
             /\ stored'[a] + Cardinality(Storing(a)') <= Cardinality(Requests)
  <2>1. Storing(a)' = Storing(a)
    BY <1>2 DEF Storing
  <2>2. /\ table[a] = 0 => stored[a] = 0
        /\ stored[a] + Cardinality(Storing(a)) <= Cardinality(Requests)
    BY <1>1 DEF StoresCounted
  <2>3. CASE a = victim
    <3>1. stored'[a] = 0
      BY <1>1, <1>2, <2>3 DEF TableTyped
    <3>. QED  BY <2>1, <3>1, StoringFinite
  <2>4. CASE a # victim
    <3>1. table'[a] = table[a] /\ stored'[a] = stored[a]
      BY <1>1, <1>2, <2>4 DEF TableTyped
    <3>. QED  BY <2>1, <2>2, <3>1
  <2>. QED  BY <2>3, <2>4
<1>. QED  BY <1>5, <1>6 DEF TableInv, StoresCounted

LEMMA NextTable == TableInv /\ [Next]_vars => TableInv'
<1>. SUFFICES ASSUME TableInv, [Next]_vars PROVE TableInv'
  OBVIOUS
<1>1. ASSUME UNCHANGED <<bucket, table, pc, addr, mine, stored>> PROVE TableInv'
  BY <1>1 DEF TableInv, TableTyped, StoresCounted, Storing
<1>2. Tick \/ StartSweep \/ (\E a \in Addrs : CheckEntry(a)) \/ EndSweep \/ UNCHANGED vars
          => UNCHANGED <<bucket, table, pc, addr, mine, stored>>
  BY DEF Tick, StartSweep, CheckEntry, EndSweep, vars, requests
<1>. QED  BY <1>1, <1>2, ServeTable, DeleteTable DEF Next, Sweep

\* The load and the store of an entry are two steps, and the bursts that cost
\* are one per goroutine.
THEOREM BucketsCorrect == Spec => []BucketsBounded
<1>1. TableInv => BucketsBounded
  <2>. SUFFICES ASSUME TableInv, NEW a \in Addrs PROVE stored[a] <= Cardinality(Requests)
    BY DEF BucketsBounded
  <2>1. stored[a] \in Nat /\ stored[a] + Cardinality(Storing(a)) <= Cardinality(Requests)
    BY DEF TableInv, TableTyped, StoresCounted
  <2>. QED  BY <2>1, StoringFinite
<1>. QED  BY <1>1, TableInit, NextTable, PTL DEF Spec

-----------------------------------------------------------------------------
(* The buckets: what they depend on.                                       *)

Held == {"store", "wait", "select"}

Proper(b) ==
    b \in Buckets /\ Interval[b.kind] > 0 /\ b.tokens <= Capacity[b.kind]

Typed ==
    /\ now \in Nat /\ at \in 0..now /\ victim \in Addrs
    /\ bucket \in Seq(Buckets)
    /\ table \in [Addrs -> 0..Len(bucket)]
    /\ pc \in [Requests -> Stages]
    /\ addr \in [Requests -> Addrs] /\ kind \in [Requests -> Kinds]
    /\ mine \in [Requests -> 0..Len(bucket)] /\ timer \in [Requests -> Nat]
    /\ \A r \in Requests : /\ pc[r] \in Held => mine[r] # 0
                           /\ pc[r] = "load" => Interval[kind[r]] > 0
    /\ \A i \in 1..Len(bucket) : Proper(bucket[i])

LEMMA Sizes == \A k \in Kinds : Interval[k] \in Nat /\ Capacity[k] \in Nat \ {0}
BY RatesAssumption, BurstsAssumption DEF Kinds, Interval, Capacity, AtLeastOne

LEMMA Divided ==
    ASSUME NEW n \in Int, NEW d \in Nat, d > 0
    PROVE  /\ n \div d \in Int /\ (n \div d) * d <= n
           /\ n \div d <= 0 => n < d
           /\ n \div d > 0 => n >= d
OBVIOUS

LEMMA SeqPut ==
    ASSUME NEW S, NEW s \in Seq(S), NEW i \in 1..Len(s), NEW v \in S
    PROVE  /\ [s EXCEPT ![i] = v] \in Seq(S) /\ Len([s EXCEPT ![i] = v]) = Len(s)
           /\ [s EXCEPT ![i] = v][i] = v
           /\ \A j \in 1..Len(s) : j # i => [s EXCEPT ![i] = v][j] = s[j]
OBVIOUS

LEMMA SeqAdd ==
    ASSUME NEW S, NEW s \in Seq(S), NEW v \in S
    PROVE  /\ Append(s, v) \in Seq(S) /\ Len(Append(s, v)) = Len(s) + 1
           /\ Len(s) \in Nat /\ Append(s, v)[Len(s) + 1] = v
           /\ \A j \in 1..Len(s) : Append(s, v)[j] = s[j]
OBVIOUS

\* Replenishing adds at most the tokens of the time that went by.
LEMMA RefilledIs ==
    ASSUME now \in Nat, NEW b, Proper(b)
    PROVE  /\ Refilled(b) \in Buckets
           /\ Refilled(b).tokens <= Capacity[b.kind]
           /\ Refilled(b) = [b EXCEPT !.tokens = Refilled(b).tokens, !.last = Refilled(b).last]
           /\ \/ Earned(b) <= 0 /\ Refilled(b) = b /\ now < b.last + Interval[b.kind]
              \/ /\ Earned(b) > 0 /\ Refilled(b).tokens > 0
                 /\ Refilled(b).last = now /\ b.last <= now
                 /\ Refilled(b).tokens >= b.tokens
                 /\ (Refilled(b).tokens - b.tokens) * Interval[b.kind] <= now - b.last
<1>. DEFINE I == Interval[b.kind]
            c == Capacity[b.kind]
            e == Earned(b)
            t == IF b.tokens + e > c THEN c ELSE b.tokens + e
<1>0. b \in Buckets /\ Interval[b.kind] > 0 /\ b.tokens <= Capacity[b.kind]
  BY DEF Proper
<1>1. /\ b.kind \in Kinds /\ b.tokens \in Nat /\ b.last \in Nat /\ b.access \in Nat
      /\ b.used \in Nat /\ b.born \in Nat /\ b.grants \in Nat
      /\ b = [kind |-> b.kind, tokens |-> b.tokens, last |-> b.last, access |-> b.access,
              used |-> b.used, born |-> b.born, grants |-> b.grants]
  BY <1>0 DEF Buckets
<1>2. I \in Nat /\ I > 0 /\ c \in Nat \ {0}
  BY <1>0, <1>1, Sizes
<1>3. /\ e \in Int /\ e * I <= now - b.last
      /\ e <= 0 => now - b.last < I
      /\ e > 0 => now - b.last >= I
  <2>1. now - b.last \in Int
    BY <1>1
  <2>. HIDE DEF I
  <2>2. e = (now - b.last) \div I
    BY DEF Earned, I
  <2>. QED  BY <1>2, <2>1, <2>2, Divided
<1>4. CASE e <= 0
  <2>1. Refilled(b) = b
    BY <1>4 DEF Refilled
  <2>2. now < b.last + I
    BY <1>1, <1>2, <1>3, <1>4
  <2>3. b = [b EXCEPT !.tokens = b.tokens, !.last = b.last]
    BY <1>1
  <2>. QED  BY <1>0, <1>4, <2>1, <2>2, <2>3
<1>5. CASE e > 0
  <2>1. Refilled(b) = [b EXCEPT !.tokens = t, !.last = now]
    BY <1>3, <1>5 DEF Refilled
  <2>2. t \in Nat /\ t > 0 /\ t <= c /\ t - b.tokens <= e /\ t >= b.tokens
    BY <1>0, <1>1, <1>2, <1>3, <1>5
  <2>3. (t - b.tokens) * I <= e * I
    BY <1>1, <1>2, <1>3, <2>2
  <2>4. b.last <= now /\ (t - b.tokens) * I <= now - b.last
    BY <1>1, <1>2, <1>3, <1>5, <2>2, <2>3
  <2>. HIDE DEF t, e, I, c
  <2>5. Refilled(b) = [kind |-> b.kind, tokens |-> t, last |-> now, access |-> b.access,
                       used |-> b.used, born |-> b.born, grants |-> b.grants]
    BY <1>1, <2>1
  <2>6. Refilled(b) \in Buckets
    BY <1>1, <2>2, <2>5 DEF Buckets
  <2>7. Refilled(b).tokens = t /\ Refilled(b).last = now
    BY <2>5
  <2>. QED  BY <1>5, <2>1, <2>2, <2>4, <2>6, <2>7 DEF e, c, I
<1>. QED  BY <1>3, <1>4, <1>5

-----------------------------------------------------------------------------
(* What a request does to the buckets.                                     *)

\* Nothing but the locals of r changes in the table of requests.
OnlyOf(r) == \A q \in Requests : q # r =>
    pc'[q] = pc[q] /\ mine'[q] = mine[q] /\ timer'[q] = timer[q]

\* It is not at a bucket, before or after, or gets hold of one it does not use.
Passes(r) ==
    /\ bucket' = bucket
    /\ pc[r] \notin {"wait", "select"} /\ pc'[r] # "select"
    /\ pc'[r] \in Held => pc[r] = "store" /\ pc'[r] = "wait" /\ mine'[r] = mine[r]

Finds(r) ==
    LET i == table[addr[r]] IN
    /\ i # 0 /\ pc[r] = "load" /\ pc'[r] = "wait" /\ mine'[r] = i
    /\ bucket' = [bucket EXCEPT ![i] = [bucket[i] EXCEPT !.access = now]]

Makes(r) ==
    /\ table[addr[r]] = 0
    /\ pc[r] = "load" /\ pc'[r] = "store" /\ mine'[r] = Len(bucket) + 1
    /\ bucket' = Append(bucket, NewBucket(kind[r]))

Uses(r, b, p) ==
    /\ pc[r] = "wait" /\ pc'[r] = p
    /\ bucket' = [bucket EXCEPT ![mine[r]] = b]

TakesOne(r) == LET b == bucket[mine[r]] IN
    /\ Refilled(b).tokens > 0
    /\ Uses(r, [Taken(b) EXCEPT !.used = now, !.grants = @ + 1], "idle")

ReservesOne(r) == LET b == bucket[mine[r]] IN
    /\ Refilled(b).tokens <= 0
    /\ Uses(r, [Reserved(b) EXCEPT !.used = now], "select")
    /\ mine'[r] = mine[r] /\ timer'[r] = Reserved(b).last

Fires(r) ==
    /\ pc[r] = "select" /\ pc'[r] = "idle" /\ timer[r] <= now
    /\ bucket' = [bucket EXCEPT ![mine[r]] = [bucket[mine[r]] EXCEPT !.grants = @ + 1]]

GivesUp(r) == pc[r] = "select" /\ pc'[r] = "idle" /\ bucket' = bucket

\* The entry of its address is the bucket it has made.
Enters(r) ==
    /\ pc[r] = "store" /\ bucket' = bucket
    /\ table' = [table EXCEPT ![addr[r]] = mine[r]]

AtBucket(r) ==
    Passes(r) \/ Finds(r) \/ Makes(r) \/ TakesOne(r) \/ ReservesOne(r) \/ Fires(r) \/ GivesUp(r)

LEMMA AnsweredOnly ==
    ASSUME Typed, NEW r \in Requests, Answered(r)
    PROVE  /\ OnlyOf(r) /\ pc'[r] = "idle"
           /\ pc' \in [Requests -> Stages] /\ kind' \in [Requests -> Kinds]
           /\ mine' \in [Requests -> 0..Len(bucket)] /\ timer' \in [Requests -> Nat]
           /\ \A q \in Requests : q # r => kind'[q] = kind[q]
<1>1. /\ pc' = [pc EXCEPT ![r] = "idle"] /\ kind' = [kind EXCEPT ![r] = "auth"]
      /\ mine' = [mine EXCEPT ![r] = 0] /\ timer' = [timer EXCEPT ![r] = 0]
  BY DEF Answered
<1>2. /\ pc \in [Requests -> Stages] /\ kind \in [Requests -> Kinds]
      /\ mine \in [Requests -> 0..Len(bucket)] /\ timer \in [Requests -> Nat]
      /\ Len(bucket) \in Nat
  BY DEF Typed
<1>3. pc' \in [Requests -> Stages] /\ pc'[r] = "idle"
  BY <1>1, <1>2 DEF Stages
<1>4. kind' \in [Requests -> Kinds]
  BY <1>1, <1>2 DEF Kinds
<1>5. mine' \in [Requests -> 0..Len(bucket)]
  BY <1>1, <1>2
<1>6. timer' \in [Requests -> Nat]
  BY <1>1, <1>2
<1>7. OnlyOf(r) /\ \A q \in Requests : q # r => kind'[q] = kind[q]
  BY <1>1, <1>2 DEF OnlyOf
<1>. QED  BY <1>3, <1>4, <1>5, <1>6, <1>7

LEMMA ServeAtBucket ==
    ASSUME Typed, NEW r \in Requests, ServeHTTP(r)
    PROVE  /\ AtBucket(r) /\ OnlyOf(r) /\ UNCHANGED <<now, at, victim, sweeper>>
           /\ table' = table \/ Enters(r)
<1>0. /\ pc \in [Requests -> Stages] /\ mine \in [Requests -> 0..Len(bucket)]
      /\ timer \in [Requests -> Nat]
  BY DEF Typed
<1>1. ASSUME NEW k, PassGlobal(r, k)
      PROVE  /\ pc'[r] \in {"load", "idle"} /\ OnlyOf(r)
  BY <1>0, <1>1, AnsweredOnly DEF PassGlobal, PassedOn, OnlyOf
<1>2. UNCHANGED <<now, at, victim, sweeper>>
  BY DEF ServeHTTP, WaitGlobal, SelectGlobal, Load, Store, Wait, Select, cleaner
<1>9. table' = table \/ Enters(r)
  BY DEF ServeHTTP, WaitGlobal, SelectGlobal, Load, Store, Wait, Select, Enters
<1>3. ASSUME NEW a, NEW k, WaitGlobal(r, a, k) PROVE AtBucket(r) /\ OnlyOf(r)
  <2>1. pc[r] = "idle" /\ bucket' = bucket
    BY <1>3 DEF WaitGlobal
  <2>2. CASE PassGlobal(r, k)
    <3>1. Passes(r)
      BY <1>1, <2>1, <2>2 DEF Passes, Held
    <3>. QED  BY <1>1, <2>2, <3>1, Zenon DEF AtBucket
  <2>3. CASE pc' = [pc EXCEPT ![r] = "select global"] /\ UNCHANGED <<mine, timer>>
    <3>1. OnlyOf(r) /\ Passes(r)
      BY <1>0, <2>1, <2>3 DEF Passes, OnlyOf, Held
    <3>. QED  BY <3>1, Zenon DEF AtBucket
  <2>. QED  BY <1>3, <2>2, <2>3 DEF WaitGlobal
<1>4. ASSUME SelectGlobal(r) PROVE AtBucket(r) /\ OnlyOf(r)
  <2>1. pc[r] = "select global" /\ bucket' = bucket
    BY <1>4 DEF SelectGlobal
  <2>2. CASE PassGlobal(r, kind[r])
    <3>1. Passes(r)
      BY <1>1, <2>1, <2>2 DEF Passes, Held
    <3>. QED  BY <1>1, <2>2, <3>1, Zenon DEF AtBucket
  <2>3. CASE Answered(r)
    <3>1. OnlyOf(r) /\ pc'[r] = "idle"
      BY <2>3, AnsweredOnly
    <3>2. Passes(r)
      BY <2>1, <3>1 DEF Passes, Held
    <3>. QED  BY <3>1, <3>2, Zenon DEF AtBucket
  <2>. QED  BY <1>4, <2>2, <2>3 DEF SelectGlobal
<1>5. ASSUME Load(r) PROVE AtBucket(r) /\ OnlyOf(r)
  <2>. DEFINE i == table[addr[r]]
  <2>1. pc[r] = "load"
    BY <1>5 DEF Load
  <2>2. CASE i # 0
    <3>1. /\ bucket' = [bucket EXCEPT ![i].access = now]
          /\ mine' = [mine EXCEPT ![r] = i] /\ pc' = [pc EXCEPT ![r] = "wait"]
          /\ timer' = timer
      BY <1>5, <2>2 DEF Load
    <3>2. bucket' = [bucket EXCEPT ![i] = [bucket[i] EXCEPT !.access = now]]
      BY <3>1
    <3>3. pc'[r] = "wait" /\ mine'[r] = i /\ OnlyOf(r)
      BY <1>0, <3>1 DEF OnlyOf
    <3>4. Finds(r)
      BY <2>1, <2>2, <3>2, <3>3 DEF Finds
    <3>. QED  BY <3>3, <3>4, Zenon DEF AtBucket
  <2>3. CASE i = 0
    <3>1. /\ bucket' = Append(bucket, NewBucket(kind[r]))
          /\ mine' = [mine EXCEPT ![r] = Len(bucket) + 1]
          /\ pc' = [pc EXCEPT ![r] = "store"] /\ timer' = timer
      BY <1>5, <2>3 DEF Load
    <3>2. pc'[r] = "store" /\ mine'[r] = Len(bucket) + 1 /\ OnlyOf(r)
      BY <1>0, <3>1 DEF OnlyOf
    <3>3. Makes(r)
      BY <2>1, <2>3, <3>1, <3>2 DEF Makes
    <3>. QED  BY <3>2, <3>3, Zenon DEF AtBucket
  <2>. QED  BY <2>2, <2>3
<1>6. ASSUME Store(r) PROVE AtBucket(r) /\ OnlyOf(r)
  <2>1. /\ pc[r] = "store" /\ pc' = [pc EXCEPT ![r] = "wait"]
        /\ UNCHANGED <<bucket, mine, timer>>
    BY <1>6 DEF Store
  <2>2. pc'[r] = "wait" /\ OnlyOf(r)
    BY <1>0, <2>1 DEF OnlyOf
  <2>3. Passes(r)
    BY <2>1, <2>2 DEF Passes, Held
  <2>. QED  BY <2>2, <2>3, Zenon DEF AtBucket
<1>7. ASSUME Wait(r) PROVE AtBucket(r) /\ OnlyOf(r)
  <2>. DEFINE b == bucket[mine[r]]
  <2>1. pc[r] = "wait"
    BY <1>7 DEF Wait
  <2>4. Proper(b) /\ now \in Nat
    BY <2>1 DEF Typed, Held
  <2>5. Refilled(b).tokens \in Nat
    BY <2>4, RefilledIs DEF Buckets
  <2>2. CASE Refilled(b).tokens > 0
    <3>1. /\ bucket' = [bucket EXCEPT ![mine[r]] =
                            [Taken(b) EXCEPT !.used = now, !.grants = @ + 1]]
          /\ Answered(r)
      BY <1>7, <2>2, <2>5 DEF Wait, PassedOn
    <3>2. pc'[r] = "idle" /\ OnlyOf(r)
      BY <3>1, AnsweredOnly
    <3>3. TakesOne(r)
      BY <2>1, <2>2, <3>1, <3>2, Zenon DEF TakesOne, Uses
    <3>. QED  BY <3>2, <3>3, Zenon DEF AtBucket
  <2>3. CASE Refilled(b).tokens <= 0
    <3>1. /\ bucket' = [bucket EXCEPT ![mine[r]] = [Reserved(b) EXCEPT !.used = now]]
          /\ timer' = [timer EXCEPT ![r] = Reserved(b).last]
          /\ pc' = [pc EXCEPT ![r] = "select"] /\ mine' = mine
      BY <1>7, <2>3, <2>5 DEF Wait
    <3>2. pc'[r] = "select" /\ mine'[r] = mine[r] /\ timer'[r] = Reserved(b).last
      BY <1>0, <3>1 DEF Stages
    <3>3. OnlyOf(r)
      BY <1>0, <3>1 DEF OnlyOf
    <3>4. ReservesOne(r)
      BY <2>1, <2>3, <3>1, <3>2, Zenon DEF ReservesOne, Uses
    <3>. QED  BY <3>3, <3>4, Zenon DEF AtBucket
  <2>. QED  BY <2>2, <2>3, <2>5
<1>8. ASSUME Select(r) PROVE AtBucket(r) /\ OnlyOf(r)
  <2>1. pc[r] = "select" /\ Answered(r)
    BY <1>8 DEF Select, PassedOn
  <2>2. pc'[r] = "idle" /\ OnlyOf(r)
    BY <2>1, AnsweredOnly
  <2>3. CASE timer[r] <= now /\ bucket' = [bucket EXCEPT ![mine[r]].grants = @ + 1]
    <3>1. bucket' = [bucket EXCEPT ![mine[r]] = [bucket[mine[r]] EXCEPT !.grants = @ + 1]]
      BY <2>3
    <3>2. Fires(r)
      BY <2>1, <2>2, <2>3, <3>1 DEF Fires
    <3>. QED  BY <2>2, <3>2, Zenon DEF AtBucket
  <2>4. CASE bucket' = bucket
    <3>1. GivesUp(r)
      BY <2>1, <2>2, <2>4 DEF GivesUp
    <3>. QED  BY <2>2, <3>1, Zenon DEF AtBucket
  <2>. QED  BY <1>8, <2>3, <2>4 DEF Select
<1>. QED  BY <1>2, <1>3, <1>4, <1>5, <1>6, <1>7, <1>8, <1>9 DEF ServeHTTP

-----------------------------------------------------------------------------
(* One bucket at a time: D[x] is how many of its timers fire by x.         *)

FitsAt(t, b, D) == \A x \in Nat : (x >= t \/ x >= b.last) =>
    (b.grants + b.tokens + D[x]) * Interval[b.kind]
        <= x - b.born + Capacity[b.kind] * Interval[b.kind]

LEMMA Splits ==
    ASSUME NEW m \in Int, NEW n \in Int, NEW k \in Int
    PROVE  (m + n) * k = m * k + n * k /\ m * k \in Int /\ n * k \in Int
OBVIOUS

LEMMA OneMore ==
    ASSUME NEW n \in Int, NEW k \in Int
    PROVE  (n + 1) * k = n * k + k /\ n * k \in Int
OBVIOUS

LEMMA Scales == ASSUME NEW m \in Int, NEW n \in Int, NEW k \in Nat, m <= n
                PROVE  m * k <= n * k /\ m * k \in Int /\ n * k \in Int
OBVIOUS

LEMMA ProperIs ==
    ASSUME NEW b, Proper(b)
    PROVE  /\ b.kind \in Kinds /\ b.tokens \in Nat /\ b.last \in Nat /\ b.access \in Nat
           /\ b.used \in Nat /\ b.born \in Nat /\ b.grants \in Nat
           /\ b = [kind |-> b.kind, tokens |-> b.tokens, last |-> b.last,
                   access |-> b.access, used |-> b.used, born |-> b.born,
                   grants |-> b.grants]
           /\ Interval[b.kind] \in Nat \ {0} /\ Capacity[b.kind] \in Nat \ {0}
           /\ Capacity[b.kind] * Interval[b.kind] \in Nat
<1>1. b \in Buckets /\ Interval[b.kind] > 0
  BY DEF Proper
<1>2. /\ b.kind \in Kinds /\ b.tokens \in Nat /\ b.last \in Nat /\ b.access \in Nat
      /\ b.used \in Nat /\ b.born \in Nat /\ b.grants \in Nat
      /\ b = [kind |-> b.kind, tokens |-> b.tokens, last |-> b.last,
              access |-> b.access, used |-> b.used, born |-> b.born,
              grants |-> b.grants]
  BY <1>1 DEF Buckets
<1>3. Interval[b.kind] \in Nat \ {0} /\ Capacity[b.kind] \in Nat \ {0}
  BY <1>1, <1>2, Sizes
<1>. QED  BY <1>2, <1>3

LEMMA NewIs ==
    ASSUME now \in Nat, NEW k \in Kinds, Interval[k] > 0
    PROVE  /\ Proper(NewBucket(k)) /\ NewBucket(k).tokens = Capacity[k]
           /\ NewBucket(k).kind = k /\ NewBucket(k).last = now
           /\ NewBucket(k).born = now /\ NewBucket(k).grants = 0
BY Sizes DEF NewBucket, Proper, Buckets

LEMMA FoundIs ==
    ASSUME now \in Nat, NEW b, Proper(b), NEW v, v = [b EXCEPT !.access = now]
    PROVE  /\ Proper(v) /\ v.access = now
           /\ v.tokens = b.tokens /\ v.last = b.last /\ v.kind = b.kind
           /\ v.born = b.born /\ v.grants = b.grants
BY ProperIs DEF Proper, Buckets

LEMMA FiredIs ==
    ASSUME NEW b, Proper(b), NEW v, v = [b EXCEPT !.grants = @ + 1]
    PROVE  /\ Proper(v) /\ v.grants = b.grants + 1
           /\ v.tokens = b.tokens /\ v.last = b.last /\ v.kind = b.kind
           /\ v.born = b.born /\ v.access = b.access /\ v.used = b.used
BY ProperIs DEF Proper, Buckets

LEMMA InBuckets ==
    ASSUME NEW k \in Kinds, NEW t \in Nat, NEW l \in Nat, NEW a \in Nat, NEW u \in Nat,
           NEW n \in Nat, NEW g \in Nat, Interval[k] > 0, t <= Capacity[k]
    PROVE  Proper([kind |-> k, tokens |-> t, last |-> l, access |-> a, used |-> u,
                   born |-> n, grants |-> g])
BY DEF Proper, Buckets

LEMMA UsedOnly ==
    ASSUME NEW k, NEW t, NEW l, NEW a, NEW u, NEW n, NEW g, NEW x, NEW b,
           b = [kind |-> k, tokens |-> t, last |-> l, access |-> a, used |-> u,
                born |-> n, grants |-> g],
           NEW v, v = [b EXCEPT !.used = x]
    PROVE  v = [kind |-> k, tokens |-> t, last |-> l, access |-> a, used |-> x,
                born |-> n, grants |-> g]
OBVIOUS

LEMMA TakenIs ==
    ASSUME now \in Nat, NEW b, Proper(b), Refilled(b).tokens > 0
    PROVE  LET v == [Taken(b) EXCEPT !.used = now, !.grants = @ + 1] IN
           /\ Proper(v) /\ v.tokens = Refilled(b).tokens - 1 /\ v.last = Refilled(b).last
           /\ v.grants = b.grants + 1 /\ v.used = now
           /\ v.kind = b.kind /\ v.born = b.born /\ v.access = b.access
<1>. DEFINE t == Refilled(b).tokens
            l == Refilled(b).last
            v == [Taken(b) EXCEPT !.used = now, !.grants = Taken(b).grants + 1]
<1>1. /\ Refilled(b) \in Buckets /\ t <= Capacity[b.kind]
      /\ Refilled(b) = [b EXCEPT !.tokens = t, !.last = l]
  BY RefilledIs
<1>2. t \in Nat /\ l \in Nat
  BY <1>1 DEF Buckets
<1>5. t > 0
  OBVIOUS
<1>. HIDE DEF t, l
<1>3. Refilled(b) = [kind |-> b.kind, tokens |-> t, last |-> l, access |-> b.access,
                     used |-> b.used, born |-> b.born, grants |-> b.grants]
  BY <1>1, ProperIs
<1>4. Taken(b) = [kind |-> b.kind, tokens |-> t - 1, last |-> l, access |-> b.access,
                  used |-> b.used, born |-> b.born, grants |-> b.grants]
  BY <1>3 DEF Taken
<1>6. Taken(b).grants = b.grants
  BY <1>4
<1>7. v = [kind |-> b.kind, tokens |-> t - 1, last |-> l, access |-> b.access,
           used |-> now, born |-> b.born, grants |-> b.grants + 1]
  <2>. DEFINE T == Taken(b)
  <2>1. v = [f \in DOMAIN T |-> IF f = "used" THEN now
                                ELSE IF f = "grants" THEN b.grants + 1 ELSE T[f]]
    BY <1>4, <1>6
  <2>2. DOMAIN T = {"kind", "tokens", "last", "access", "used", "born", "grants"}
    BY <1>4
  <2>. HIDE DEF v
  <2>. QED  BY <1>4, <2>1, <2>2
<1>8. t - 1 \in Nat /\ t - 1 <= Capacity[b.kind] /\ b.grants + 1 \in Nat
  BY <1>1, <1>2, <1>5, ProperIs
<1>. HIDE DEF v
<1>11. Interval[b.kind] > 0
  BY DEF Proper
<1>9. Proper(v)
  BY <1>2, <1>7, <1>8, <1>11, ProperIs, InBuckets, Zenon
<1>10. /\ v.tokens = t - 1 /\ v.last = l /\ v.grants = b.grants + 1 /\ v.used = now
       /\ v.kind = b.kind /\ v.born = b.born /\ v.access = b.access
  BY <1>7
<1>. QED  BY <1>9, <1>10 DEF t, l, v

\* A token is reserved when none was earned: the bucket is empty, and its last
\* is less than an interval behind the clock or ahead of it.
LEMMA ReservedIs ==
    ASSUME now \in Nat, NEW b, Proper(b), Refilled(b).tokens <= 0
    PROVE  LET v == [Reserved(b) EXCEPT !.used = now] IN
           /\ Proper(v) /\ v.tokens = b.tokens /\ v.last = b.last + Interval[b.kind]
           /\ v.grants = b.grants /\ v.used = now /\ Reserved(b).last = v.last
           /\ v.kind = b.kind /\ v.born = b.born /\ v.access = b.access
<1>. DEFINE v == [Reserved(b) EXCEPT !.used = now]
<1>1. Refilled(b) = b
  <2>1. Refilled(b) = b \/ Refilled(b).tokens > 0
    BY RefilledIs, Zenon
  <2>2. Refilled(b) \in Buckets
    BY RefilledIs, Zenon
  <2>3. Refilled(b).tokens \in Nat
    BY <2>2 DEF Buckets
  <2>. QED  BY <2>1, <2>3
<1>2. Reserved(b) = [kind |-> b.kind, tokens |-> b.tokens,
                     last |-> b.last + Interval[b.kind], access |-> b.access,
                     used |-> b.used, born |-> b.born, grants |-> b.grants]
  BY <1>1, ProperIs DEF Reserved
<1>3. v = [kind |-> b.kind, tokens |-> b.tokens,
           last |-> b.last + Interval[b.kind], access |-> b.access,
           used |-> now, born |-> b.born, grants |-> b.grants]
  <2>1. v = [Reserved(b) EXCEPT !.used = now]
    OBVIOUS
  <2>. HIDE DEF v
  <2>. QED  BY <1>2, <2>1, UsedOnly
<1>4. b.last + Interval[b.kind] \in Nat /\ b.tokens <= Capacity[b.kind]
  BY ProperIs DEF Proper
<1>5. Reserved(b).last = b.last + Interval[b.kind]
  BY <1>2
<1>. HIDE DEF v
<1>8. Interval[b.kind] > 0
  BY DEF Proper
<1>6. Proper(v)
  BY <1>3, <1>4, <1>8, ProperIs, InBuckets, Zenon
<1>7. /\ v.tokens = b.tokens /\ v.last = b.last + Interval[b.kind]
      /\ v.grants = b.grants /\ v.used = now
      /\ v.kind = b.kind /\ v.born = b.born /\ v.access = b.access
  BY <1>3
<1>. QED  BY <1>5, <1>6, <1>7 DEF v

\* The clock has not gone back.
LEMMA FitsLater ==
    ASSUME NEW t \in Nat, NEW u \in Nat, t <= u, NEW b, NEW D, FitsAt(t, b, D)
    PROVE  FitsAt(u, b, D)
BY DEF FitsAt

\* What has been granted, may be granted and will be granted is not more.
LEMMA FitsLess ==
    ASSUME NEW t \in Nat, NEW b, Proper(b), NEW v, Proper(v),
           v.last = b.last, v.kind = b.kind, v.born = b.born,
           NEW D \in [Nat -> Nat], NEW E \in [Nat -> Nat], FitsAt(t, b, D),
           \A x \in Nat : (x >= t \/ x >= b.last) =>
               v.grants + v.tokens + E[x] <= b.grants + b.tokens + D[x]
    PROVE  FitsAt(t, v, E)
<1>. SUFFICES ASSUME NEW x \in Nat, x >= t \/ x >= v.last
              PROVE  (v.grants + v.tokens + E[x]) * Interval[v.kind]
                        <= x - v.born + Capacity[v.kind] * Interval[v.kind]
  BY DEF FitsAt
<1>. DEFINE m == v.grants + v.tokens + E[x]
            n == b.grants + b.tokens + D[x]
<1>1. m \in Int /\ n \in Int /\ m <= n /\ Interval[b.kind] \in Nat
  BY ProperIs
<1>2. n * Interval[b.kind] <= x - b.born + Capacity[b.kind] * Interval[b.kind]
  BY DEF FitsAt
<1>. HIDE DEF m, n
<1>3. /\ m * Interval[b.kind] <= n * Interval[b.kind]
      /\ m * Interval[b.kind] \in Int /\ n * Interval[b.kind] \in Int
  BY <1>1, Scales
<1>4. m * Interval[b.kind] <= x - b.born + Capacity[b.kind] * Interval[b.kind]
  BY <1>2, <1>3, ProperIs
<1>. QED  BY <1>4 DEF m

LEMMA FitsTaken ==
    ASSUME now \in Nat, NEW b, Proper(b), Refilled(b).tokens > 0,
           NEW v, v = [Taken(b) EXCEPT !.used = now, !.grants = @ + 1],
           NEW D \in [Nat -> Nat], FitsAt(now, b, D),
           \A x \in Nat : x >= b.last => D[x] = D[b.last]
    PROVE  FitsAt(now, v, D)
<1>1. /\ Proper(v) /\ v.tokens = Refilled(b).tokens - 1 /\ v.last = Refilled(b).last
      /\ v.grants = b.grants + 1 /\ v.kind = b.kind /\ v.born = b.born
  BY TakenIs
<1>2. Refilled(b).tokens \in Nat /\ Refilled(b).last \in Nat
  BY RefilledIs DEF Buckets
<1>3. CASE Refilled(b) = b
  <2>1. v.last = b.last /\ v.grants + v.tokens = b.grants + b.tokens
    BY <1>1, <1>3, ProperIs
  <2>2. \A x \in Nat : (x >= now \/ x >= b.last) =>
            v.grants + v.tokens + D[x] <= b.grants + b.tokens + D[x]
    BY <2>1, ProperIs
  <2>4. v.last = b.last /\ v.kind = b.kind /\ v.born = b.born /\ Proper(v)
    BY <1>1, <2>1
  <2>. QED  BY <2>2, <2>4, FitsLess
<1>4. CASE /\ Refilled(b).last = now /\ b.last <= now
           /\ Refilled(b).tokens >= b.tokens
           /\ (Refilled(b).tokens - b.tokens) * Interval[b.kind] <= now - b.last
  <2>. SUFFICES ASSUME NEW x \in Nat, x >= now
                PROVE  (v.grants + v.tokens + D[x]) * Interval[v.kind]
                          <= x - v.born + Capacity[v.kind] * Interval[v.kind]
    BY <1>1, <1>4 DEF FitsAt
  <2>. DEFINE n == b.grants + b.tokens + D[b.last]
              g == Refilled(b).tokens - b.tokens
              k == Interval[b.kind]
  <2>1. n \in Int /\ g \in Int /\ k \in Int /\ D[x] = D[b.last] /\ b.last \in Nat
    BY <1>2, <1>4, ProperIs
  <2>2. v.grants + v.tokens + D[x] = n + g
    <3>1. /\ v.grants = b.grants + 1 /\ v.tokens = Refilled(b).tokens - 1
          /\ D[x] = D[b.last] /\ D[b.last] \in Nat
          /\ b.grants \in Nat /\ b.tokens \in Nat /\ Refilled(b).tokens \in Nat
      BY <1>1, <1>2, <2>1, ProperIs
    <3>. QED  BY <3>1
  <2>3. n * k <= b.last - b.born + Capacity[b.kind] * k
    BY <2>1 DEF FitsAt
  <2>4. g * k <= now - b.last
    BY <1>4
  <2>. HIDE DEF n, g
  <2>5. (n + g) * k = n * k + g * k /\ n * k \in Int /\ g * k \in Int
    BY <2>1, Splits
  <2>6. (n + g) * k <= x - b.born + Capacity[b.kind] * k
    BY <2>3, <2>4, <2>5, ProperIs
  <2>. QED  BY <1>1, <2>2, <2>6
<1>. QED  BY <1>3, <1>4, RefilledIs

LEMMA FitsReserved ==
    ASSUME now \in Nat, NEW b, Proper(b), Refilled(b).tokens <= 0,
           NEW v, v = [Reserved(b) EXCEPT !.used = now],
           NEW D \in [Nat -> Nat], NEW E \in [Nat -> Nat], FitsAt(now, b, D),
           \A x \in Nat : x >= b.last => D[x] = D[b.last],
           \A x \in Nat : E[x] = IF x >= b.last + Interval[b.kind] THEN D[x] + 1 ELSE D[x]
    PROVE  FitsAt(now, v, E)
<1>1. /\ v.tokens = b.tokens /\ v.last = b.last + Interval[b.kind]
      /\ v.grants = b.grants /\ v.kind = b.kind /\ v.born = b.born
  BY ReservedIs
<1>. SUFFICES ASSUME NEW x \in Nat, x >= now \/ x >= b.last + Interval[b.kind]
              PROVE  (b.grants + b.tokens + E[x]) * Interval[b.kind]
                        <= x - b.born + Capacity[b.kind] * Interval[b.kind]
  BY <1>1 DEF FitsAt
<1>2. CASE x < b.last + Interval[b.kind]
  <2>1. x >= now /\ E[x] = D[x]
    BY <1>2, ProperIs
  <2>. QED  BY <2>1 DEF FitsAt
<1>3. CASE x >= b.last + Interval[b.kind]
  <2>. DEFINE y == x - Interval[b.kind]
              n == b.grants + b.tokens + D[y]
              k == Interval[b.kind]
  <2>1. y \in Nat /\ y >= b.last /\ x >= b.last /\ b.last \in Nat
    BY <1>3, ProperIs
  <2>2. D[x] = D[b.last] /\ D[y] = D[b.last]
    BY <2>1
  <2>3. E[x] = D[y] + 1
    BY <1>3, <2>2
  <2>4. b.grants + b.tokens + E[x] = n + 1 /\ n \in Int /\ k \in Int
    BY <2>1, <2>3, ProperIs
  <2>5. n * k <= y - b.born + Capacity[b.kind] * k
    BY <2>1 DEF FitsAt
  <2>. HIDE DEF n
  <2>6. (n + 1) * k = n * k + k /\ n * k \in Int
    BY <2>4, OneMore
  <2>7. (n + 1) * k <= x - b.born + Capacity[b.kind] * k
    BY <2>1, <2>4, <2>5, <2>6, ProperIs
  <2>. QED  BY <2>4, <2>7
<1>. QED  BY <1>2, <1>3, ProperIs

LEMMA FitsNew ==
    ASSUME now \in Nat, NEW k \in Kinds, Interval[k] > 0, NEW D \in [Nat -> Nat],
           \A x \in Nat : D[x] = 0
    PROVE  FitsAt(now, NewBucket(k), D)
<1>. DEFINE v == NewBucket(k)
<1>. SUFFICES ASSUME NEW x \in Nat, x >= now
              PROVE  (v.grants + v.tokens + D[x]) * Interval[v.kind]
                        <= x - v.born + Capacity[v.kind] * Interval[v.kind]
  BY NewIs DEF FitsAt
<1>1. v.grants + v.tokens + D[x] = Capacity[k] /\ v.kind = k /\ v.born = now
  BY NewIs, Sizes
<1>2. Capacity[k] * Interval[k] \in Int
  BY Sizes
<1>. QED  BY <1>1, <1>2

-----------------------------------------------------------------------------
(* All buckets.                                                            *)

\* The requests whose timer on bucket i has fired by x.
Due(i, x) == {r \in Requests : pc[r] = "select" /\ mine[r] = i /\ timer[r] <= x}

Count(i) == [x \in Nat |-> Cardinality(Due(i, x))]

Timed == \A r \in Requests : pc[r] = "select" => timer[r] <= bucket[mine[r]].last

Fit == \A i \in 1..Len(bucket) : FitsAt(now, bucket[i], Count(i))

RateInv == Typed /\ Timed /\ Fit

LEMMA DueFinite == \A i, x : IsFiniteSet(Due(i, x)) /\ Cardinality(Due(i, x)) \in Nat
<1>1. ASSUME NEW i, NEW x PROVE Due(i, x) \subseteq Requests
  BY DEF Due
<1>. QED  BY <1>1, RequestsAssumption, FS_Subset, FS_CardinalityType

LEMMA CountIs == \A i : /\ Count(i) \in [Nat -> Nat]
                        /\ \A x \in Nat : Count(i)[x] = Cardinality(Due(i, x))
BY DueFinite DEF Count

LEMMA InRange ==
    ASSUME Typed, NEW r \in Requests, pc[r] \in Held
    PROVE  mine[r] \in 1..Len(bucket) /\ Proper(bucket[mine[r]])
BY DEF Typed

LEMMA CountFlat ==
    ASSUME Typed, Timed, NEW i \in 1..Len(bucket)
    PROVE  /\ bucket[i].last \in Nat
           /\ \A x \in Nat : x >= bucket[i].last => Count(i)[x] = Count(i)[bucket[i].last]
<1>. DEFINE l == bucket[i].last
<1>1. l \in Nat
  BY ProperIs DEF Typed
<1>2. ASSUME NEW x \in Nat, x >= l PROVE Due(i, x) = Due(i, l)
  <2>1. \A r \in Requests : pc[r] = "select" /\ mine[r] = i => timer[r] \in Nat /\ timer[r] <= l
    BY DEF Typed, Timed
  <2>. HIDE DEF l
  <2>. QED  BY <1>1, <1>2, <2>1 DEF Due
<1>. QED  BY <1>1, <1>2, CountIs

LEMMA CountSame ==
    ASSUME NEW r \in Requests, OnlyOf(r), NEW i,
           ~ (pc[r] = "select" /\ mine[r] = i), ~ (pc'[r] = "select" /\ mine'[r] = i)
    PROVE  Count(i)' = Count(i)
<1>1. ASSUME NEW x PROVE Due(i, x)' = Due(i, x)
  BY DEF Due, OnlyOf
<1>. QED  BY <1>1 DEF Count

LEMMA CountAdds ==
    ASSUME NEW r \in Requests, OnlyOf(r), NEW i, pc[r] # "select",
           pc'[r] = "select", mine'[r] = i, timer'[r] \in Nat
    PROVE  /\ Count(i)' \in [Nat -> Nat]
           /\ \A x \in Nat :
                Count(i)'[x] = IF x >= timer'[r] THEN Count(i)[x] + 1 ELSE Count(i)[x]
<1>1. ASSUME NEW x \in Nat
      PROVE  Cardinality(Due(i, x)') =
                IF x >= timer'[r] THEN Cardinality(Due(i, x)) + 1 ELSE Cardinality(Due(i, x))
  <2>1. CASE x >= timer'[r]
    <3>1. Due(i, x)' = Due(i, x) \cup {r} /\ r \notin Due(i, x)
      BY <2>1 DEF Due, OnlyOf
    <3>. QED  BY <2>1, <3>1, DueFinite, FS_AddElement
  <2>2. CASE ~ (x >= timer'[r])
    <3>1. Due(i, x)' = Due(i, x)
      BY <2>2 DEF Due, OnlyOf
    <3>. QED  BY <2>2, <3>1
  <2>. QED  BY <2>1, <2>2
<1>2. Count(i)' = [x \in Nat |-> Cardinality(Due(i, x)')]
  BY DEF Count
<1>3. \A x \in Nat : Cardinality(Due(i, x)') \in Nat
  BY <1>1, DueFinite
<1>. QED  BY <1>1, <1>2, <1>3, CountIs

LEMMA CountDrops ==
    ASSUME NEW r \in Requests, OnlyOf(r), NEW i, pc[r] = "select", mine[r] = i,
           timer[r] \in Nat, pc'[r] # "select"
    PROVE  /\ Count(i)' \in [Nat -> Nat]
           /\ \A x \in Nat :
                Count(i)'[x] = IF x >= timer[r] THEN Count(i)[x] - 1 ELSE Count(i)[x]
<1>1. ASSUME NEW x \in Nat
      PROVE  /\ Cardinality(Due(i, x)') \in Nat
             /\ Cardinality(Due(i, x)') =
                  IF x >= timer[r] THEN Cardinality(Due(i, x)) - 1 ELSE Cardinality(Due(i, x))
  <2>1. CASE x >= timer[r]
    <3>1. Due(i, x)' = Due(i, x) \ {r} /\ r \in Due(i, x)
      BY <2>1 DEF Due, OnlyOf
    <3>2. /\ Cardinality(Due(i, x) \ {r}) = Cardinality(Due(i, x)) - 1
          /\ IsFiniteSet(Due(i, x) \ {r})
      BY <3>1, DueFinite, FS_RemoveElement
    <3>. QED  BY <2>1, <3>1, <3>2, FS_CardinalityType
  <2>2. CASE ~ (x >= timer[r])
    <3>1. Due(i, x)' = Due(i, x)
      BY <2>2 DEF Due, OnlyOf
    <3>. QED  BY <2>2, <3>1, DueFinite
  <2>. QED  BY <2>1, <2>2
<1>2. Count(i)' = [x \in Nat |-> Cardinality(Due(i, x)')]
  BY DEF Count
<1>. QED  BY <1>1, <1>2, CountIs

\* What is kept of the buckets.
Kept ==
    /\ bucket' \in Seq(Buckets) /\ Len(bucket') \in Nat /\ Len(bucket') >= Len(bucket)
    /\ \A i \in 1..Len(bucket') : Proper(bucket'[i])
    /\ \A i \in 1..Len(bucket) : bucket'[i].kind = bucket[i].kind
    /\ Timed' /\ Fit'

\* One request changes one bucket to v.
LEMMA BucketTo ==
    ASSUME RateInv, NEW r \in Requests, OnlyOf(r), now' = now,
           NEW i \in 1..Len(bucket), NEW v, Proper(v), v.kind = bucket[i].kind,
           v.last >= bucket[i].last, bucket' = [bucket EXCEPT ![i] = v],
           pc[r] = "select" => mine[r] = i,
           pc'[r] = "select" => mine'[r] = i /\ timer'[r] <= v.last,
           FitsAt(now, v, Count(i)')
    PROVE  Kept
<1>0. Typed /\ Timed /\ Fit /\ bucket \in Seq(Buckets) /\ v \in Buckets
  BY DEF RateInv, Typed, Proper
<1>1. /\ bucket' \in Seq(Buckets) /\ Len(bucket') = Len(bucket) /\ Len(bucket) \in Nat
      /\ bucket'[i] = v /\ \A j \in 1..Len(bucket) : j # i => bucket'[j] = bucket[j]
  BY <1>0, SeqPut
<1>2. \A j \in 1..Len(bucket') : Proper(bucket'[j])
  BY <1>0, <1>1 DEF Typed
<1>3. Timed'
  <2>. SUFFICES ASSUME NEW q \in Requests, pc'[q] = "select"
                PROVE  timer'[q] <= bucket'[mine'[q]].last
    BY DEF Timed
  <2>1. CASE q = r
    BY <1>1, <2>1
  <2>2. CASE q # r
    <3>1. pc[q] = "select" /\ mine'[q] = mine[q] /\ timer'[q] = timer[q]
      BY <2>2 DEF OnlyOf
    <3>2. timer[q] <= bucket[mine[q]].last /\ mine[q] \in 1..Len(bucket)
      BY <1>0, <3>1, InRange DEF Timed, Held
    <3>3. timer[q] \in Nat /\ bucket[i].last \in Nat /\ v.last \in Nat
      BY <1>0, ProperIs DEF Typed
    <3>. QED  BY <1>1, <3>1, <3>2, <3>3
  <2>. QED  BY <2>1, <2>2
<1>4. Fit'
  <2>. SUFFICES ASSUME NEW j \in 1..Len(bucket)
                PROVE  FitsAt(now, bucket'[j], Count(j)')
    BY <1>1 DEF Fit
  <2>1. CASE j = i
    BY <1>1, <2>1
  <2>2. CASE j # i
    <3>1. Count(j)' = Count(j)
      BY <2>2, CountSame
    <3>. QED  BY <1>0, <1>1, <2>2, <3>1 DEF Fit
  <2>. QED  BY <2>1, <2>2
<1>5. \A j \in 1..Len(bucket) : bucket'[j].kind = bucket[j].kind
  BY <1>1
<1>. QED  BY <1>1, <1>2, <1>3, <1>4, <1>5 DEF Kept

LEMMA PassesKept ==
    ASSUME RateInv, NEW r \in Requests, OnlyOf(r), now' = now, Passes(r)
    PROVE  Kept
<1>0. /\ Typed /\ Timed /\ Fit /\ bucket \in Seq(Buckets) /\ bucket' = bucket
      /\ pc[r] # "select" /\ pc'[r] # "select"
  BY DEF RateInv, Typed, Passes
<1>1. Timed'
  BY <1>0 DEF Timed, OnlyOf
<1>2. \A j : Count(j)' = Count(j)
  BY <1>0, CountSame
<1>3. Fit'
  BY <1>0, <1>2 DEF Fit
<1>. QED  BY <1>0, <1>1, <1>3 DEF Kept, Typed

LEMMA FindsKept ==
    ASSUME RateInv, NEW r \in Requests, OnlyOf(r), now' = now, Finds(r)
    PROVE  Kept
<1>a. PICK i : i = table[addr[r]]
  OBVIOUS
<1>. DEFINE v == [bucket[i] EXCEPT !.access = now]
<1>0. /\ Typed /\ Timed /\ Fit /\ now \in Nat /\ i \in 1..Len(bucket)
      /\ pc[r] = "load" /\ pc'[r] = "wait" /\ bucket' = [bucket EXCEPT ![i] = v]
  BY <1>a DEF RateInv, Typed, Finds
<1>1. Proper(bucket[i]) /\ FitsAt(now, bucket[i], Count(i)) /\ bucket[i].last \in Nat
  BY <1>0, ProperIs DEF Typed, Fit
<1>2. /\ Proper(v) /\ v.tokens = bucket[i].tokens /\ v.last = bucket[i].last
      /\ v.kind = bucket[i].kind /\ v.born = bucket[i].born /\ v.grants = bucket[i].grants
  BY <1>0, <1>1, FoundIs
<1>3. Count(i)' = Count(i)
  <2>1. pc[r] # "select" /\ pc'[r] # "select"
    BY <1>0
  <2>. QED  BY <2>1, CountSame
<1>. HIDE DEF v
<1>4. FitsAt(now, v, Count(i))
  BY <1>1, <1>2 DEF FitsAt
<1>5. v.last >= bucket[i].last
  BY <1>1, <1>2
<1>. QED  BY <1>0, <1>2, <1>3, <1>4, <1>5, <1>a, BucketTo

LEMMA TakesKept ==
    ASSUME RateInv, NEW r \in Requests, OnlyOf(r), now' = now, TakesOne(r)
    PROVE  Kept
<1>a. PICK i : i = mine[r]
  OBVIOUS
<1>. DEFINE b == bucket[i]
            v == [Taken(b) EXCEPT !.used = now, !.grants = @ + 1]
<1>0. /\ Typed /\ Timed /\ Fit /\ now \in Nat /\ Refilled(b).tokens > 0
      /\ pc[r] = "wait" /\ pc'[r] = "idle" /\ bucket' = [bucket EXCEPT ![i] = v]
  BY <1>a DEF RateInv, Typed, TakesOne, Uses
<1>1. i \in 1..Len(bucket) /\ Proper(b)
  BY <1>0, <1>a, InRange DEF Held
<1>2. FitsAt(now, b, Count(i)) /\ Count(i) \in [Nat -> Nat] /\ b.last \in Nat
  BY <1>0, <1>1, CountIs, ProperIs DEF Fit
<1>3. \A x \in Nat : x >= b.last => Count(i)[x] = Count(i)[b.last]
  BY <1>0, <1>1, CountFlat
<1>4. Count(i)' = Count(i)
  <2>1. pc[r] # "select" /\ pc'[r] # "select"
    BY <1>0
  <2>. QED  BY <2>1, CountSame
<1>5. v = [Taken(b) EXCEPT !.used = now, !.grants = @ + 1]
  OBVIOUS
<1>6. Proper(v) /\ v.last = Refilled(b).last /\ v.kind = b.kind
  BY <1>0, <1>1, TakenIs
<1>7. Refilled(b).last >= b.last
  <2>. HIDE DEF b
  <2>1. Refilled(b) = b \/ (Refilled(b).last = now /\ b.last <= now)
    BY <1>0, <1>1, RefilledIs, Zenon
  <2>. QED  BY <1>0, <1>2, <2>1
<1>. HIDE DEF v, b
<1>8. FitsAt(now, v, Count(i))
  BY <1>0, <1>1, <1>2, <1>3, <1>5, FitsTaken
<1>. QED  BY <1>0, <1>1, <1>4, <1>6, <1>7, <1>8, <1>a, BucketTo DEF b

LEMMA ReservesKept ==
    ASSUME RateInv, NEW r \in Requests, OnlyOf(r), now' = now, ReservesOne(r)
    PROVE  Kept
<1>a. PICK i : i = mine[r]
  OBVIOUS
<1>. DEFINE b == bucket[i]
            v == [Reserved(b) EXCEPT !.used = now]
<1>0. /\ Typed /\ Timed /\ Fit /\ now \in Nat /\ Refilled(b).tokens <= 0
      /\ pc[r] = "wait" /\ pc'[r] = "select" /\ bucket' = [bucket EXCEPT ![i] = v]
      /\ mine'[r] = i /\ timer'[r] = Reserved(b).last
  BY <1>a DEF RateInv, Typed, ReservesOne, Uses
<1>1. i \in 1..Len(bucket) /\ Proper(b)
  BY <1>0, <1>a, InRange DEF Held
<1>2. /\ FitsAt(now, b, Count(i)) /\ Count(i) \in [Nat -> Nat] /\ b.last \in Nat
      /\ Interval[b.kind] \in Nat
  BY <1>0, <1>1, CountIs, ProperIs DEF Fit
<1>3. \A x \in Nat : x >= b.last => Count(i)[x] = Count(i)[b.last]
  BY <1>0, <1>1, CountFlat
<1>5. v = [Reserved(b) EXCEPT !.used = now]
  OBVIOUS
<1>6. /\ Proper(v) /\ v.last = b.last + Interval[b.kind] /\ v.kind = b.kind
      /\ Reserved(b).last = v.last
  BY <1>0, <1>1, ReservedIs
<1>. HIDE DEF v, b
<1>7. timer'[r] = b.last + Interval[b.kind] /\ timer'[r] \in Nat
  BY <1>0, <1>2, <1>6
<1>8. /\ Count(i)' \in [Nat -> Nat]
      /\ \A x \in Nat : Count(i)'[x] = IF x >= b.last + Interval[b.kind]
                                       THEN Count(i)[x] + 1 ELSE Count(i)[x]
  <2>1. pc[r] # "select"
    BY <1>0
  <2>. QED  BY <1>0, <1>a, <1>7, <2>1, CountAdds
<1>9. FitsAt(now, v, Count(i)')
  BY <1>0, <1>1, <1>2, <1>3, <1>5, <1>8, FitsReserved
<1>10. v.last >= b.last /\ timer'[r] <= v.last
  BY <1>2, <1>6, <1>7
<1>. QED  BY <1>0, <1>1, <1>6, <1>9, <1>10, <1>a, BucketTo DEF b

LEMMA FiresKept ==
    ASSUME RateInv, NEW r \in Requests, OnlyOf(r), now' = now, Fires(r)
    PROVE  Kept
<1>a. PICK i : i = mine[r]
  OBVIOUS
<1>. DEFINE b == bucket[i]
            v == [b EXCEPT !.grants = @ + 1]
<1>0. /\ Typed /\ Timed /\ Fit /\ now \in Nat /\ timer[r] <= now /\ timer[r] \in Nat
      /\ pc[r] = "select" /\ pc'[r] = "idle" /\ bucket' = [bucket EXCEPT ![i] = v]
  BY <1>a DEF RateInv, Typed, Fires
<1>1. i \in 1..Len(bucket) /\ Proper(b) /\ timer[r] <= b.last
  BY <1>0, <1>a, InRange DEF Held, Timed
<1>2. FitsAt(now, b, Count(i)) /\ Count(i) \in [Nat -> Nat]
  BY <1>0, <1>1, CountIs DEF Fit
<1>3. /\ Count(i)' \in [Nat -> Nat]
      /\ \A x \in Nat : Count(i)'[x] = IF x >= timer[r] THEN Count(i)[x] - 1 ELSE Count(i)[x]
  <2>1. pc'[r] # "select"
    BY <1>0
  <2>. QED  BY <1>0, <1>a, <2>1, CountDrops
<1>4. /\ Proper(v) /\ v.grants = b.grants + 1 /\ v.tokens = b.tokens /\ v.last = b.last
      /\ v.kind = b.kind /\ v.born = b.born
  BY <1>1, FiredIs
<1>. HIDE DEF v, b
<1>5. b.last \in Nat /\ b.grants \in Nat /\ b.tokens \in Nat
  BY <1>1, ProperIs
<1>6. \A x \in Nat : (x >= now \/ x >= b.last) =>
          v.grants + v.tokens + Count(i)'[x] <= b.grants + b.tokens + Count(i)[x]
  <2>. SUFFICES ASSUME NEW x \in Nat, x >= now \/ x >= b.last
                PROVE  v.grants + v.tokens + Count(i)'[x] <= b.grants + b.tokens + Count(i)[x]
    OBVIOUS
  <2>1. x >= timer[r]
    BY <1>0, <1>1, <1>5
  <2>2. Count(i)'[x] = Count(i)[x] - 1 /\ Count(i)[x] \in Nat
    BY <1>2, <1>3, <2>1
  <2>. QED  BY <1>4, <1>5, <2>2
<1>7. FitsAt(now, v, Count(i)')
  BY <1>0, <1>1, <1>2, <1>3, <1>4, <1>6, FitsLess
<1>8. v.last >= b.last
  BY <1>4, <1>5
<1>. QED  BY <1>0, <1>1, <1>4, <1>7, <1>8, <1>a, BucketTo DEF b

LEMMA GivesUpKept ==
    ASSUME RateInv, NEW r \in Requests, OnlyOf(r), now' = now, GivesUp(r)
    PROVE  Kept
<1>a. PICK i : i = mine[r]
  OBVIOUS
<1>. DEFINE b == bucket[i]
<1>0. /\ Typed /\ Timed /\ Fit /\ now \in Nat /\ timer[r] \in Nat
      /\ pc[r] = "select" /\ pc'[r] = "idle" /\ bucket' = bucket
  BY <1>a DEF RateInv, Typed, GivesUp
<1>1. i \in 1..Len(bucket) /\ Proper(b)
  BY <1>0, <1>a, InRange DEF Held
<1>2. FitsAt(now, b, Count(i)) /\ Count(i) \in [Nat -> Nat]
  BY <1>0, <1>1, CountIs DEF Fit
<1>3. /\ Count(i)' \in [Nat -> Nat]
      /\ \A x \in Nat : Count(i)'[x] = IF x >= timer[r] THEN Count(i)[x] - 1 ELSE Count(i)[x]
  <2>1. pc'[r] # "select"
    BY <1>0
  <2>. QED  BY <1>0, <1>a, <2>1, CountDrops
<1>4. bucket' = [bucket EXCEPT ![i] = b]
  BY <1>0, <1>1 DEF Typed
<1>. HIDE DEF b
<1>5. b.last \in Nat /\ b.grants \in Nat /\ b.tokens \in Nat
  BY <1>1, ProperIs
<1>6. \A x \in Nat : b.grants + b.tokens + Count(i)'[x] <= b.grants + b.tokens + Count(i)[x]
  BY <1>2, <1>3, <1>5
<1>7. FitsAt(now, b, Count(i)')
  BY <1>0, <1>1, <1>2, <1>3, <1>6, FitsLess
<1>8. b.last >= b.last
  BY <1>5
<1>. QED  BY <1>0, <1>1, <1>4, <1>7, <1>8, <1>a, BucketTo DEF b

LEMMA MakesKept ==
    ASSUME RateInv, NEW r \in Requests, OnlyOf(r), now' = now, Makes(r)
    PROVE  Kept
<1>. DEFINE n == Len(bucket) + 1
            v == NewBucket(kind[r])
<1>0. /\ Typed /\ Timed /\ Fit /\ now \in Nat /\ kind[r] \in Kinds
      /\ pc[r] = "load" /\ pc'[r] = "store" /\ bucket' = Append(bucket, v)
      /\ Interval[kind[r]] > 0 /\ bucket \in Seq(Buckets)
  BY DEF RateInv, Typed, Makes
<1>1. Proper(v)
  BY <1>0, NewIs
<1>2. v \in Buckets
  BY <1>1 DEF Proper
<1>3. /\ bucket' \in Seq(Buckets) /\ Len(bucket') = n /\ Len(bucket) \in Nat
      /\ bucket'[n] = v /\ \A j \in 1..Len(bucket) : bucket'[j] = bucket[j]
  BY <1>0, <1>2, SeqAdd
<1>4. \A j : Count(j)' = Count(j)
  BY <1>0, CountSame
<1>5. Timed'
  <2>. SUFFICES ASSUME NEW q \in Requests, pc'[q] = "select"
                PROVE  timer'[q] <= bucket'[mine'[q]].last
    BY DEF Timed
  <2>1. q # r
    BY <1>0
  <2>2. pc[q] = "select" /\ mine'[q] = mine[q] /\ timer'[q] = timer[q]
    BY <2>1 DEF OnlyOf
  <2>3. timer[q] <= bucket[mine[q]].last /\ mine[q] \in 1..Len(bucket)
    BY <1>0, <2>2, InRange DEF Timed, Held
  <2>. QED  BY <1>3, <2>2, <2>3
<1>6. Fit'
  <2>. SUFFICES ASSUME NEW j \in 1..n PROVE FitsAt(now, bucket'[j], Count(j)')
    BY <1>3 DEF Fit
  <2>1. CASE j \in 1..Len(bucket)
    BY <1>0, <1>3, <1>4, <2>1 DEF Fit
  <2>2. CASE j = n
    <3>1. \A x \in Nat : Due(n, x) = {}
      BY <1>3 DEF Due, Typed, RateInv
    <3>2. \A x \in Nat : Count(n)[x] = 0
      BY <3>1, CountIs, FS_EmptySet
    <3>3. Count(n) \in [Nat -> Nat]
      BY CountIs
    <3>4. FitsAt(now, v, Count(n))
      BY <1>0, <3>2, <3>3, FitsNew
    <3>. QED  BY <1>3, <1>4, <2>2, <3>4
  <2>. QED  BY <1>3, <2>1, <2>2
<1>7. \A j \in 1..Len(bucket') : Proper(bucket'[j])
  BY <1>0, <1>1, <1>3 DEF Typed
<1>. QED  BY <1>3, <1>5, <1>6, <1>7 DEF Kept

LEMMA ServeKept ==
    ASSUME RateInv, NEW r \in Requests, ServeHTTP(r)
    PROVE  Kept
<1>1. AtBucket(r) /\ OnlyOf(r) /\ now' = now
  BY ServeAtBucket DEF RateInv
<1>. QED  BY <1>1, PassesKept, FindsKept, TakesKept, ReservesKept, FiresKept, GivesUpKept,
             MakesKept DEF AtBucket

-----------------------------------------------------------------------------
(* The locals of the requests.                                             *)

LocalsTyped ==
    /\ table \in [Addrs -> 0..Len(bucket)]
    /\ pc \in [Requests -> Stages]
    /\ addr \in [Requests -> Addrs] /\ kind \in [Requests -> Kinds]
    /\ mine \in [Requests -> 0..Len(bucket)] /\ timer \in [Requests -> Nat]

LocalsSet == \A r \in Requests : /\ pc[r] \in Held => mine[r] # 0
                                 /\ pc[r] = "load" => Interval[kind[r]] > 0

LEMMA TypedParts ==
    Typed <=> /\ now \in Nat /\ at \in 0..now /\ victim \in Addrs
              /\ bucket \in Seq(Buckets)
              /\ \A i \in 1..Len(bucket) : Proper(bucket[i])
              /\ LocalsTyped /\ LocalsSet
BY DEF Typed, LocalsTyped, LocalsSet

LEMMA AnsweredLocals ==
    ASSUME Typed, Kept, NEW r \in Requests, Answered(r), table' = table,
           addr' \in [Requests -> Addrs]
    PROVE  LocalsTyped' /\ LocalsSet'
<1>1. /\ OnlyOf(r) /\ pc'[r] = "idle"
      /\ pc' \in [Requests -> Stages] /\ kind' \in [Requests -> Kinds]
      /\ mine' \in [Requests -> 0..Len(bucket)] /\ timer' \in [Requests -> Nat]
      /\ \A q \in Requests : q # r => kind'[q] = kind[q]
  BY AnsweredOnly
<1>2. Len(bucket) \in Nat /\ Len(bucket') \in Nat /\ Len(bucket') >= Len(bucket)
  BY DEF Typed, Kept
<1>3. table \in [Addrs -> 0..Len(bucket)]
  BY DEF Typed
<1>4. 0..Len(bucket) \subseteq 0..Len(bucket')
  BY <1>2
<1>5. LocalsTyped'
  BY <1>1, <1>3, <1>4 DEF LocalsTyped
<1>6. LocalsSet'
  BY <1>1 DEF LocalsSet, OnlyOf, Typed, Held
<1>. QED  BY <1>5, <1>6

\* Request r goes on to stage p, with a bucket of its own or without.
LEMMA StageLocals ==
    ASSUME Typed, Kept, NEW r \in Requests, NEW p \in Stages, OnlyOf(r),
           pc' = [pc EXCEPT ![r] = p], addr' \in [Requests -> Addrs],
           NEW k \in Kinds, kind' = [kind EXCEPT ![r] = k], p = "load" => Interval[k] > 0,
           mine' \in [Requests -> 0..Len(bucket')], p \in Held => mine'[r] # 0,
           timer' \in [Requests -> Nat], table' \in [Addrs -> 0..Len(bucket')]
    PROVE  LocalsTyped' /\ LocalsSet'
<1>1. pc \in [Requests -> Stages] /\ kind \in [Requests -> Kinds]
  BY DEF Typed
<1>2. pc' \in [Requests -> Stages] /\ kind' \in [Requests -> Kinds]
  BY <1>1
<1>3. /\ pc'[r] = p /\ kind'[r] = k
      /\ \A q \in Requests : q # r => kind'[q] = kind[q]
  BY <1>1
<1>4. LocalsTyped'
  BY <1>2 DEF LocalsTyped
<1>5. LocalsSet'
  BY <1>3 DEF LocalsSet, OnlyOf, Typed
<1>. QED  BY <1>4, <1>5

LEMMA PassLocals ==
    ASSUME Typed, Kept, NEW r \in Requests, NEW k \in Kinds, OnlyOf(r), PassGlobal(r, k),
           addr' \in [Requests -> Addrs], bucket' = bucket, table' = table
    PROVE  LocalsTyped' /\ LocalsSet'
<1>1. CASE Interval[k] > 0
  <2>1. pc' = [pc EXCEPT ![r] = "load"] /\ kind' = [kind EXCEPT ![r] = k]
        /\ mine' = mine /\ timer' = timer
    BY <1>1 DEF PassGlobal
  <2>2. "load" \in Stages /\ "load" \notin Held
    BY DEF Stages, Held
  <2>3. /\ mine' \in [Requests -> 0..Len(bucket')] /\ timer' \in [Requests -> Nat]
        /\ table' \in [Addrs -> 0..Len(bucket')]
    BY <2>1 DEF Typed
  <2>. QED  BY <1>1, <2>1, <2>2, <2>3, StageLocals
<1>2. CASE ~ (Interval[k] > 0)
  BY <1>2, AnsweredLocals DEF PassGlobal, PassedOn
<1>. QED  BY <1>1, <1>2

LEMMA ServeLocals ==
    ASSUME RateInv, NEW r \in Requests, ServeHTTP(r)
    PROVE  LocalsTyped' /\ LocalsSet'
<1>0. /\ Typed /\ Kept /\ OnlyOf(r) /\ Len(bucket) \in Nat /\ Len(bucket') \in Nat
      /\ Len(bucket') >= Len(bucket)
  BY ServeKept, ServeAtBucket DEF RateInv, Typed, Kept
<1>1. /\ pc \in [Requests -> Stages] /\ kind \in [Requests -> Kinds]
      /\ addr \in [Requests -> Addrs] /\ mine \in [Requests -> 0..Len(bucket)]
      /\ timer \in [Requests -> Nat] /\ table \in [Addrs -> 0..Len(bucket)]
      /\ mine \in [Requests -> 0..Len(bucket')] /\ table \in [Addrs -> 0..Len(bucket')]
  <2>1. 0..Len(bucket) \subseteq 0..Len(bucket')
    BY <1>0
  <2>. QED  BY <1>0, <2>1 DEF Typed
<1>2. ASSUME NEW p \in Stages, pc' = [pc EXCEPT ![r] = p], p # "load", addr' = addr,
             kind' = kind, mine' \in [Requests -> 0..Len(bucket')],
             p \in Held => mine'[r] # 0, timer' \in [Requests -> Nat],
             table' \in [Addrs -> 0..Len(bucket')]
      PROVE  LocalsTyped' /\ LocalsSet'
  <2>1. kind' = [kind EXCEPT ![r] = kind[r]] /\ kind[r] \in Kinds
    BY <1>1, <1>2
  <2>2. addr' \in [Requests -> Addrs]
    BY <1>1, <1>2
  <2>. QED  BY <1>0, <1>2, <2>1, <2>2, StageLocals
<1>3. ASSUME NEW a \in Addrs, NEW k \in Kinds, WaitGlobal(r, a, k)
      PROVE  LocalsTyped' /\ LocalsSet'
  <2>1. addr' \in [Requests -> Addrs] /\ bucket' = bucket /\ table' = table
    BY <1>1, <1>3 DEF WaitGlobal
  <2>2. CASE PassGlobal(r, k)
    BY <1>0, <2>1, <2>2, PassLocals
  <2>3. CASE /\ pc' = [pc EXCEPT ![r] = "select global"] /\ kind' = [kind EXCEPT ![r] = k]
             /\ UNCHANGED <<mine, timer>>
    <3>1. "select global" \in Stages /\ "select global" \notin Held
      BY DEF Stages, Held
    <3>2. /\ mine' \in [Requests -> 0..Len(bucket')] /\ timer' \in [Requests -> Nat]
          /\ table' \in [Addrs -> 0..Len(bucket')]
      BY <1>1, <2>1, <2>3
    <3>. QED  BY <1>0, <2>1, <2>3, <3>1, <3>2, StageLocals
  <2>. QED  BY <1>3, <2>2, <2>3 DEF WaitGlobal
<1>4. CASE SelectGlobal(r)
  <2>1. addr' \in [Requests -> Addrs] /\ bucket' = bucket /\ table' = table
    BY <1>1, <1>4 DEF SelectGlobal
  <2>2. kind[r] \in Kinds
    BY <1>1
  <2>3. CASE PassGlobal(r, kind[r])
    BY <1>0, <2>1, <2>2, <2>3, PassLocals
  <2>4. CASE Answered(r)
    BY <1>0, <2>1, <2>4, AnsweredLocals
  <2>. QED  BY <1>4, <2>3, <2>4 DEF SelectGlobal
<1>5. CASE Load(r)
  <2>1. /\ table' = table /\ addr' = addr /\ kind' = kind /\ timer' = timer
        /\ "wait" \in Stages /\ "store" \in Stages /\ addr[r] \in Addrs
    BY <1>1, <1>5 DEF Load, Stages
  <2>2. CASE /\ table[addr[r]] # 0 /\ mine' = [mine EXCEPT ![r] = table[addr[r]]]
             /\ pc' = [pc EXCEPT ![r] = "wait"]
    <3>1. table[addr[r]] \in 0..Len(bucket')
      BY <1>1, <2>1
    <3>2. mine' \in [Requests -> 0..Len(bucket')] /\ mine'[r] # 0
      BY <1>1, <2>2, <3>1
    <3>. QED  BY <1>1, <1>2, <2>1, <2>2, <3>2
  <2>3. CASE /\ bucket' = Append(bucket, NewBucket(kind[r]))
             /\ mine' = [mine EXCEPT ![r] = Len(bucket) + 1]
             /\ pc' = [pc EXCEPT ![r] = "store"]
    <3>1. Len(bucket') = Len(bucket) + 1
      BY <1>0, <2>3 DEF Typed
    <3>2. mine' \in [Requests -> 0..Len(bucket')] /\ mine'[r] # 0
      <4>1. Len(bucket) + 1 \in 0..Len(bucket') /\ Len(bucket) + 1 # 0
        BY <1>0, <3>1
      <4>. QED  BY <1>1, <2>3, <4>1
    <3>. QED  BY <1>1, <1>2, <2>1, <2>3, <3>2
  <2>. QED  BY <1>5, <2>2, <2>3 DEF Load
<1>6. CASE Store(r)
  <2>1. /\ bucket' = bucket /\ addr' = addr /\ kind' = kind /\ timer' = timer /\ mine' = mine
        /\ table' = [table EXCEPT ![addr[r]] = mine[r]] /\ pc[r] = "store"
        /\ pc' = [pc EXCEPT ![r] = "wait"] /\ "wait" \in Stages
    BY <1>6 DEF Store, Stages
  <2>2. mine[r] \in 0..Len(bucket') /\ mine[r] # 0
    BY <1>0, <1>1, <2>1 DEF Typed, Held
  <2>3. table' \in [Addrs -> 0..Len(bucket')]
    BY <1>1, <2>1, <2>2
  <2>. QED  BY <1>1, <1>2, <2>1, <2>2, <2>3
<1>7. CASE Wait(r)
  <2>1. addr' = addr /\ table' = table /\ pc[r] = "wait" /\ addr' \in [Requests -> Addrs]
    BY <1>1, <1>7 DEF Wait
  <2>2. CASE Answered(r)
    BY <1>0, <2>1, <2>2, AnsweredLocals
  <2>3. CASE /\ timer' = [timer EXCEPT ![r] = Reserved(bucket[mine[r]]).last]
             /\ Refilled(bucket[mine[r]]).tokens <= 0
             /\ pc' = [pc EXCEPT ![r] = "select"] /\ UNCHANGED <<kind, mine>>
    <3>1. Proper(bucket[mine[r]]) /\ mine[r] # 0 /\ now \in Nat
      BY <1>0, <2>1, InRange DEF Held, Typed
    <3>2. Reserved(bucket[mine[r]]).last \in Nat
      <4>. DEFINE b == bucket[mine[r]]
      <4>1. Reserved(b).last = b.last + Interval[b.kind]
        BY <2>3, <3>1, ReservedIs
      <4>. QED  BY <3>1, <4>1, ProperIs
    <3>3. timer' \in [Requests -> Nat]
      BY <1>1, <2>3, <3>2
    <3>4. "select" \in Stages
      BY DEF Stages
    <3>. QED  BY <1>1, <1>2, <2>1, <2>3, <3>1, <3>3, <3>4
  <2>. QED  BY <1>7, <2>2, <2>3 DEF Wait, PassedOn
<1>8. CASE Select(r)
  <2>1. addr' \in [Requests -> Addrs] /\ table' = table /\ Answered(r)
    BY <1>1, <1>8 DEF Select, PassedOn
  <2>. QED  BY <1>0, <2>1, AnsweredLocals
<1>. QED  BY <1>3, <1>4, <1>5, <1>6, <1>7, <1>8 DEF ServeHTTP

LEMMA RateInit == Init => RateInv
<1>. SUFFICES ASSUME Init PROVE RateInv
  OBVIOUS
<1>1. /\ now = 0 /\ at = 0 /\ victim \in Addrs /\ bucket = <<>>
      /\ table = [a \in Addrs |-> 0] /\ pc = [r \in Requests |-> "idle"]
      /\ addr \in [Requests -> Addrs] /\ kind = [r \in Requests |-> "auth"]
      /\ mine = [r \in Requests |-> 0] /\ timer = [r \in Requests |-> 0]
  BY DEF Init
<1>2. bucket \in Seq(Buckets) /\ Len(bucket) = 0
  BY <1>1
<1>3. LocalsTyped
  BY <1>1, <1>2 DEF LocalsTyped, Stages, Kinds
<1>4. LocalsSet
  BY <1>1 DEF LocalsSet, Held
<1>5. Typed
  BY <1>1, <1>2, <1>3, <1>4, TypedParts
<1>6. Timed /\ Fit
  BY <1>1, <1>2 DEF Timed, Fit
<1>. QED  BY <1>5, <1>6 DEF RateInv

\* What is not about a request: the clock goes on, entries are removed.
LEMMA ElsewhereKept ==
    ASSUME RateInv, now' \in Nat, now' >= now, at' \in 0..now', victim' \in Addrs,
           UNCHANGED <<bucket, pc, addr, kind, mine, timer>>,
           table' \in [Addrs -> 0..Len(bucket)]
    PROVE  RateInv'
<1>1. Typed /\ Timed /\ Fit /\ now \in Nat
  BY DEF RateInv, Typed
<1>2. LocalsTyped' /\ LocalsSet' /\ bucket' \in Seq(Buckets)
      /\ \A i \in 1..Len(bucket') : Proper(bucket'[i])
  BY <1>1, TypedParts DEF LocalsTyped, LocalsSet
<1>3. Typed'
  BY <1>2 DEF Typed, LocalsTyped, LocalsSet
<1>4. Timed'
  BY <1>1 DEF Timed
<1>5. \A i : Count(i)' = Count(i)
  BY DEF Count, Due
<1>6. Fit'
  BY <1>1, <1>5, FitsLater DEF Fit
<1>. QED  BY <1>3, <1>4, <1>6 DEF RateInv

LEMMA NextRate == RateInv /\ [Next]_vars => RateInv'
<1>. SUFFICES ASSUME RateInv, [Next]_vars PROVE RateInv'
  OBVIOUS
<1>0. /\ Typed /\ now \in Nat /\ at \in 0..now /\ victim \in Addrs
      /\ table \in [Addrs -> 0..Len(bucket)] /\ Len(bucket) \in Nat
  BY DEF RateInv, Typed
<1>1. ASSUME NEW r \in Requests, ServeHTTP(r) PROVE RateInv'
  <2>1. Kept /\ LocalsTyped' /\ LocalsSet' /\ UNCHANGED <<now, at, victim, sweeper>>
    BY <1>0, <1>1, ServeKept, ServeLocals, ServeAtBucket
  <2>2. Typed'
    BY <1>0, <2>1 DEF Typed, Kept, LocalsTyped, LocalsSet
  <2>. QED  BY <2>1, <2>2 DEF RateInv, Kept
<1>2. CASE Tick
  BY <1>0, <1>2, ElsewhereKept DEF Tick, requests, cleaner
<1>3. CASE StartSweep
  BY <1>0, <1>3, ElsewhereKept DEF StartSweep, requests
<1>4. ASSUME NEW a \in Addrs, CheckEntry(a) PROVE RateInv'
  BY <1>0, <1>4, ElsewhereKept DEF CheckEntry, requests
<1>5. CASE DeleteEntry
  <2>1. /\ table' = [table EXCEPT ![victim] = 0] /\ UNCHANGED <<now, at, victim>>
        /\ UNCHANGED <<bucket, pc, addr, kind, mine, timer>>
    BY <1>5 DEF DeleteEntry, requests
  <2>2. table' \in [Addrs -> 0..Len(bucket)]
    BY <1>0, <2>1
  <2>. QED  BY <1>0, <2>1, <2>2, ElsewhereKept
<1>6. CASE EndSweep
  BY <1>0, <1>6, ElsewhereKept DEF EndSweep, requests
<1>7. CASE UNCHANGED vars
  BY <1>0, <1>7, ElsewhereKept DEF vars, requests, cleaner
<1>. QED  BY <1>1, <1>2, <1>3, <1>4, <1>5, <1>6, <1>7 DEF Next, Sweep

\* Each bucket, however many requests share it, are refused by it or still hold
\* it when its entry is gone, keeps to its burst and its rate; and with
\* ServedCorrect all of them together to the global ones.
THEOREM RatesCorrect == Spec => []RatesHold
<1>1. RateInv => BucketRate
  <2>. SUFFICES ASSUME RateInv, NEW i \in 1..Len(bucket)
                PROVE  bucket[i].grants * Interval[bucket[i].kind]
                         <= now - bucket[i].born
                              + Capacity[bucket[i].kind] * Interval[bucket[i].kind]
    BY DEF BucketRate
  <2>. DEFINE b == bucket[i]
              n == b.grants + b.tokens + Count(i)[now]
  <2>1. Proper(b) /\ FitsAt(now, b, Count(i)) /\ now \in Nat
    BY DEF RateInv, Typed, Fit
  <2>. HIDE DEF b
  <2>2. n * Interval[b.kind] <= now - b.born + Capacity[b.kind] * Interval[b.kind]
    BY <2>1 DEF FitsAt
  <2>3. n \in Nat /\ b.grants \in Nat /\ b.grants <= n /\ Interval[b.kind] \in Nat
    <3>1. Count(i)[now] \in Nat
      BY <2>1, CountIs
    <3>2. b.grants \in Nat /\ b.tokens \in Nat /\ Interval[b.kind] \in Nat
      BY <2>1, ProperIs
    <3>. QED  BY <3>1, <3>2
  <2>. HIDE DEF n
  <2>4. /\ b.grants * Interval[b.kind] <= n * Interval[b.kind]
        /\ b.grants * Interval[b.kind] \in Int /\ n * Interval[b.kind] \in Int
    BY <2>3, Scales
  <2>5. b.grants * Interval[b.kind]
            <= now - b.born + Capacity[b.kind] * Interval[b.kind]
    BY <2>1, <2>2, <2>4, ProperIs
  <2>. QED  BY <2>5 DEF b
<1>2. Spec => []RateInv
  BY RateInit, NextRate, PTL DEF Spec
<1>3. ServedBound /\ BucketRate => RatesHold
  BY DEF RatesHold
<1>. QED  BY <1>1, <1>2, <1>3, ServedCorrect, PTL

-----------------------------------------------------------------------------
(* What the cleanup forgets.                                               *)

\* A bucket that is not stored yet is full, and nobody else has it.
StoringFresh == \A r \in Requests : pc[r] = "store" =>
    /\ bucket[mine[r]].tokens = Capacity[bucket[mine[r]].kind]
    /\ \A q \in Requests : q # r /\ pc[q] \in Held => mine[q] # mine[r]
    /\ \A a \in Addrs : table[a] # mine[r]

Excused(b) ==
    \/ b.tokens = Capacity[b.kind] \/ b.access >= at
    \/ b.used > b.access \/ at - b.access > Expiry

\* Between the check of an entry and its removal.
Spared == sweeper = "delete" /\ table[victim] # 0 => Excused(bucket[table[victim]])

ForgetInv == RateInv /\ StoringFresh /\ Spared

\* A request may use up a bucket, but not unseen.
LEMMA ExcusedServe ==
    ASSUME RateInv, NEW r \in Requests, AtBucket(r), now' = now,
           NEW i \in 1..Len(bucket), Excused(bucket[i])
    PROVE  Excused(bucket'[i])
<1>0. /\ Typed /\ now \in Nat /\ at \in Nat /\ at <= now /\ bucket \in Seq(Buckets)
      /\ Proper(bucket[i])
  BY DEF RateInv, Typed
<1>1. CASE bucket' = bucket
  BY <1>1
<1>2. CASE Finds(r)
  <2>. DEFINE j == table[addr[r]]
              v == [bucket[j] EXCEPT !.access = now]
  <2>1. j \in 1..Len(bucket) /\ bucket' = [bucket EXCEPT ![j] = v]
    BY <1>0, <1>2 DEF Finds, Typed
  <2>2. Proper(v) /\ v.access = now
    BY <1>0, <2>1, FoundIs DEF Typed
  <2>3. v \in Buckets
    BY <2>2 DEF Proper
  <2>4. bucket'[i] = v \/ bucket'[i] = bucket[i]
    BY <1>0, <2>1, <2>3, SeqPut
  <2>. HIDE DEF v
  <2>. QED  BY <1>0, <2>2, <2>4 DEF Excused
<1>3. CASE Makes(r)
  <2>1. Interval[kind[r]] > 0 /\ kind[r] \in Kinds /\ bucket' = Append(bucket, NewBucket(kind[r]))
    BY <1>0, <1>3 DEF Makes, Typed
  <2>2. NewBucket(kind[r]) \in Buckets
    BY <1>0, <2>1, NewIs DEF Proper
  <2>3. bucket'[i] = bucket[i]
    BY <1>0, <2>1, <2>2, SeqAdd
  <2>. QED  BY <2>3
<1>4. ASSUME NEW v, Proper(v), bucket' = [bucket EXCEPT ![mine[r]] = v], pc[r] \in Held,
             v.access = bucket[mine[r]].access,
             \/ v.used = now
             \/ /\ v.used = bucket[mine[r]].used /\ v.tokens = bucket[mine[r]].tokens
                /\ v.kind = bucket[mine[r]].kind
      PROVE  Excused(bucket'[i])
  <2>1. mine[r] \in 1..Len(bucket) /\ v \in Buckets
    BY <1>0, <1>4, InRange DEF Proper
  <2>2. CASE i # mine[r]
    <3>1. bucket'[i] = bucket[i]
      BY <1>0, <1>4, <2>1, <2>2, SeqPut
    <3>. QED  BY <3>1
  <2>3. CASE i = mine[r]
    <3>1. bucket'[i] = v /\ bucket[i].access \in Nat
      BY <1>0, <1>4, <2>1, <2>3, SeqPut, ProperIs
    <3>. QED  BY <1>0, <1>4, <2>3, <3>1 DEF Excused
  <2>. QED  BY <2>2, <2>3
<1>5. CASE TakesOne(r)
  <2>. DEFINE b == bucket[mine[r]]
              v == [Taken(b) EXCEPT !.used = now, !.grants = @ + 1]
  <2>1. pc[r] \in Held /\ Refilled(b).tokens > 0 /\ bucket' = [bucket EXCEPT ![mine[r]] = v]
    BY <1>5 DEF TakesOne, Uses, Held
  <2>2. Proper(b)
    BY <1>0, <2>1, InRange
  <2>3. Proper(v) /\ v.used = now /\ v.access = b.access
    BY <1>0, <2>1, <2>2, TakenIs
  <2>. HIDE DEF v
  <2>. QED  BY <1>4, <2>1, <2>3
<1>6. CASE ReservesOne(r)
  <2>. DEFINE b == bucket[mine[r]]
              v == [Reserved(b) EXCEPT !.used = now]
  <2>1. pc[r] \in Held /\ Refilled(b).tokens <= 0 /\ bucket' = [bucket EXCEPT ![mine[r]] = v]
    BY <1>6 DEF ReservesOne, Uses, Held
  <2>2. Proper(b)
    BY <1>0, <2>1, InRange
  <2>3. Proper(v) /\ v.used = now /\ v.access = b.access
    BY <1>0, <2>1, <2>2, ReservedIs
  <2>. HIDE DEF v
  <2>. QED  BY <1>4, <2>1, <2>3
<1>7. CASE Fires(r)
  <2>. DEFINE b == bucket[mine[r]]
              v == [b EXCEPT !.grants = @ + 1]
  <2>1. pc[r] \in Held /\ bucket' = [bucket EXCEPT ![mine[r]] = v]
    BY <1>7 DEF Fires, Held
  <2>2. Proper(b)
    BY <1>0, <2>1, InRange
  <2>3. Proper(v) /\ v.used = b.used /\ v.access = b.access /\ v.tokens = b.tokens
        /\ v.kind = b.kind
    BY <2>2, FiredIs
  <2>. HIDE DEF v
  <2>. QED  BY <1>4, <2>1, <2>3
<1>. QED  BY <1>1, <1>2, <1>3, <1>5, <1>6, <1>7 DEF AtBucket, Passes, GivesUp

\* Nobody touches a bucket that is not stored yet.
LEMMA FreshServe ==
    ASSUME RateInv, StoringFresh, NEW r \in Requests, AtBucket(r), OnlyOf(r), now' = now,
           table' = table \/ Enters(r)
    PROVE  StoringFresh'
<1>0. /\ Typed /\ now \in Nat /\ bucket \in Seq(Buckets) /\ Len(bucket) \in Nat
      /\ table \in [Addrs -> 0..Len(bucket)]
  BY DEF RateInv, Typed
<1>1. ASSUME NEW s \in Requests, s # r, pc[s] = "store",
             bucket'[mine[s]] = bucket[mine[s]],
             pc'[r] \in Held => mine'[r] # mine[s]
      PROVE  /\ bucket'[mine'[s]].tokens = Capacity[bucket'[mine'[s]].kind]
             /\ \A q \in Requests : q # s /\ pc'[q] \in Held => mine'[q] # mine'[s]
             /\ \A a \in Addrs : table'[a] # mine'[s]
  <2>1. pc'[s] = "store" /\ mine'[s] = mine[s]
    BY <1>1 DEF OnlyOf
  <2>2. /\ bucket[mine[s]].tokens = Capacity[bucket[mine[s]].kind]
        /\ \A q \in Requests : q # s /\ pc[q] \in Held => mine[q] # mine[s]
        /\ \A a \in Addrs : table[a] # mine[s]
    BY <1>1 DEF StoringFresh
  <2>3. \A q \in Requests : q # s /\ pc'[q] \in Held => mine'[q] # mine'[s]
    BY <1>1, <2>1, <2>2 DEF OnlyOf
  <2>4. \A a \in Addrs : table'[a] # mine'[s]
    BY <1>0, <1>1, <2>1, <2>2 DEF Enters, Held
  <2>. QED  BY <1>1, <2>1, <2>2, <2>3, <2>4
<1>2. ASSUME \A s \in Requests : s # r /\ pc[s] = "store" =>
                 /\ bucket'[mine[s]] = bucket[mine[s]]
                 /\ pc'[r] \in Held => mine'[r] # mine[s],
             pc'[r] # "store"
      PROVE  StoringFresh'
  BY <1>1, <1>2 DEF StoringFresh, OnlyOf
<1>3. \A s \in Requests : s # r /\ pc[s] = "store" =>
          /\ mine[s] \in 1..Len(bucket)
          /\ pc[r] \in Held => mine[r] # mine[s]
          /\ \A a \in Addrs : table[a] # mine[s]
  BY <1>0, InRange DEF StoringFresh, Held
<1>4. CASE Passes(r)
  BY <1>2, <1>3, <1>4 DEF Passes, Held
<1>5. CASE Finds(r)
  <2>1. /\ addr[r] \in Addrs /\ pc'[r] = "wait" /\ mine'[r] = table[addr[r]]
        /\ bucket' = [bucket EXCEPT ![table[addr[r]]] =
                          [bucket[table[addr[r]]] EXCEPT !.access = now]]
    BY <1>0, <1>5 DEF Finds, Typed
  <2>2. \A s \in Requests : s # r /\ pc[s] = "store" =>
            bucket'[mine[s]] = bucket[mine[s]] /\ mine'[r] # mine[s]
    BY <1>0, <1>3, <2>1
  <2>. QED  BY <1>2, <2>1, <2>2
<1>6. ASSUME NEW v, bucket' = [bucket EXCEPT ![mine[r]] = v], pc[r] \in Held,
             pc'[r] # "store", pc'[r] \in Held => mine'[r] = mine[r]
      PROVE  StoringFresh'
  <2>1. \A s \in Requests : s # r /\ pc[s] = "store" => bucket'[mine[s]] = bucket[mine[s]]
    BY <1>0, <1>3, <1>6
  <2>. QED  BY <1>2, <1>3, <1>6, <2>1
<1>7. CASE TakesOne(r)
  <2>1. pc[r] \in Held /\ pc'[r] # "store" /\ pc'[r] \notin Held
    BY <1>7 DEF TakesOne, Uses, Held
  <2>. QED  BY <1>6, <1>7, <2>1 DEF TakesOne, Uses
<1>8. CASE ReservesOne(r)
  <2>1. pc[r] \in Held /\ pc'[r] # "store" /\ mine'[r] = mine[r]
    BY <1>8 DEF ReservesOne, Uses, Held
  <2>. QED  BY <1>6, <1>8, <2>1 DEF ReservesOne, Uses
<1>9. CASE Fires(r)
  <2>1. pc[r] \in Held /\ pc'[r] # "store" /\ pc'[r] \notin Held
    BY <1>9 DEF Fires, Held
  <2>. QED  BY <1>6, <1>9, <2>1 DEF Fires
<1>10. CASE GivesUp(r)
  BY <1>2, <1>10 DEF GivesUp, Held
<1>11. CASE Makes(r)
  <2>. DEFINE n == Len(bucket) + 1
              v == NewBucket(kind[r])
  <2>1. /\ pc[r] = "load" /\ pc'[r] = "store" /\ mine'[r] = n /\ bucket' = Append(bucket, v)
        /\ kind[r] \in Kinds /\ Interval[kind[r]] > 0
    BY <1>0, <1>11 DEF Makes, Typed
  <2>2. v \in Buckets /\ v.tokens = Capacity[v.kind]
    BY <1>0, <2>1, NewIs DEF Proper
  <2>. HIDE DEF v
  <2>3. bucket'[n] = v /\ \A j \in 1..Len(bucket) : bucket'[j] = bucket[j]
    BY <1>0, <2>1, <2>2, SeqAdd
  <2>4. table' = table
    BY <2>1 DEF Enters
  <2>5. \A q \in Requests : q # r => mine'[q] # n
    BY <1>0 DEF Typed, OnlyOf
  <2>6. \A a \in Addrs : table'[a] # n
    BY <1>0, <2>4
  <2>7. \A s \in Requests : s # r /\ pc[s] = "store" =>
            /\ bucket'[mine[s]] = bucket[mine[s]]
            /\ pc'[r] \in Held => mine'[r] # mine[s]
    BY <1>0, <1>3, <2>1, <2>3
  <2>. SUFFICES ASSUME NEW s \in Requests, pc'[s] = "store"
                PROVE  /\ bucket'[mine'[s]].tokens = Capacity[bucket'[mine'[s]].kind]
                       /\ \A q \in Requests : q # s /\ pc'[q] \in Held => mine'[q] # mine'[s]
                       /\ \A a \in Addrs : table'[a] # mine'[s]
    BY DEF StoringFresh
  <2>8. CASE s = r
    BY <2>1, <2>2, <2>3, <2>5, <2>6, <2>8
  <2>9. CASE s # r
    BY <1>1, <2>7, <2>9 DEF OnlyOf
  <2>. QED  BY <2>8, <2>9
<1>. QED  BY <1>4, <1>5, <1>7, <1>8, <1>9, <1>10, <1>11 DEF AtBucket

LEMMA SparedServe ==
    ASSUME ForgetInv, NEW r \in Requests, ServeHTTP(r)
    PROVE  StoringFresh' /\ Spared'
<1>0. /\ RateInv /\ Typed /\ StoringFresh /\ Spared /\ victim \in Addrs
      /\ table \in [Addrs -> 0..Len(bucket)] /\ Len(bucket) \in Nat
  BY DEF ForgetInv, RateInv, Typed
<1>1. /\ AtBucket(r) /\ OnlyOf(r) /\ UNCHANGED <<now, at, victim, sweeper>>
      /\ table' = table \/ Enters(r)
  BY <1>0, ServeAtBucket
<1>2. StoringFresh'
  BY <1>0, <1>1, FreshServe
<1>3. ASSUME sweeper = "delete", table'[victim] # 0
      PROVE  Excused(bucket'[table'[victim]])
  <2>1. CASE table'[victim] = table[victim]
    <3>1. table[victim] \in 1..Len(bucket) /\ Excused(bucket[table[victim]])
      BY <1>0, <1>3, <2>1 DEF Spared
    <3>. QED  BY <1>0, <1>1, <2>1, <3>1, ExcusedServe
  <2>2. CASE table'[victim] # table[victim]
    <3>1. /\ pc[r] = "store" /\ bucket' = bucket /\ table'[victim] = mine[r]
      BY <1>0, <1>1, <2>2 DEF Enters
    <3>2. bucket[mine[r]].tokens = Capacity[bucket[mine[r]].kind]
      BY <1>0, <3>1 DEF StoringFresh
    <3>. QED  BY <3>1, <3>2 DEF Excused
  <2>. QED  BY <2>1, <2>2
<1>. QED  BY <1>1, <1>2, <1>3 DEF Spared, Excused

LEMMA Enough ==
    ASSUME NEW n \in Int, NEW d \in Nat, d > 0, NEW c \in Nat, c * d <= n
    PROVE  n \div d >= c
<1>. DEFINE q == n \div d
<1>1. q \in Int /\ n < (q + 1) * d /\ (q + 1) * d \in Int /\ c * d \in Int
  OBVIOUS
<1>. HIDE DEF q
<1>2. CASE q + 1 <= c
  <2>1. (q + 1) * d <= c * d
    BY <1>1, <1>2, Scales
  <2>. QED  BY <1>1, <2>1
<1>. QED  BY <1>1, <1>2 DEF q

\* Nobody drew on the bucket after the entry was last found, and that is longer
\* ago than it takes to fill up.
LEMMA FullAgain ==
    ASSUME RateInv, NEW i \in 1..Len(bucket), Excused(bucket[i])
    PROVE  LET b == bucket[i] IN
           \/ Refilled(b).tokens = Capacity[b.kind] \/ b.access >= at
           \/ b.used > b.access \/ b.last > b.used
<1>. DEFINE b == bucket[i]
<1>0. Proper(b) /\ now \in Nat /\ at \in Nat /\ at <= now /\ Expiry \in Nat
  BY MaxAssumption DEF RateInv, Typed
<1>. HIDE DEF b
<1>1. /\ b.kind \in Kinds /\ b.tokens \in Nat /\ b.last \in Nat /\ b.access \in Nat
      /\ b.used \in Nat /\ Interval[b.kind] \in Nat \ {0} /\ Capacity[b.kind] \in Nat \ {0}
      /\ Capacity[b.kind] * Interval[b.kind] \in Nat
      /\ b.tokens <= Capacity[b.kind]
  BY <1>0, ProperIs DEF Proper
<1>2. CASE b.tokens = Capacity[b.kind]
  <2>1. Refilled(b) = b \/ Refilled(b).tokens >= b.tokens
    BY <1>0, RefilledIs, Zenon
  <2>2. Refilled(b) \in Buckets /\ Refilled(b).tokens <= Capacity[b.kind]
    BY <1>0, RefilledIs, Zenon
  <2>3. Refilled(b).tokens \in Nat
    BY <2>2 DEF Buckets
  <2>4. Refilled(b).tokens = Capacity[b.kind]
    BY <1>1, <1>2, <2>1, <2>2, <2>3
  <2>. QED  BY <2>4 DEF b
<1>3. CASE at - b.access > Expiry /\ b.used <= b.access /\ b.last <= b.used
  <2>0. Capacity[b.kind] * Interval[b.kind] <= Expiry
    BY <1>1, ExpiryAssumption
  <2>1. now - b.last >= Expiry /\ Capacity[b.kind] * Interval[b.kind] <= Expiry
    <3>1. b.last <= b.access /\ at - b.access > Expiry /\ at <= now
      BY <1>0, <1>1, <1>3
    <3>2. now - b.last >= Expiry
      BY <1>0, <1>1, <3>1
    <3>. QED  BY <2>0, <3>2
  <2>2. Capacity[b.kind] * Interval[b.kind] <= now - b.last /\ now - b.last \in Int
    BY <1>0, <1>1, <2>1
  <2>. DEFINE k == Interval[b.kind]
              c == Capacity[b.kind]
              d == now - b.last
  <2>3. k \in Nat /\ k > 0 /\ c \in Nat /\ c * k <= d /\ d \in Int
    BY <1>1, <2>2
  <2>4. Earned(b) = d \div k
    BY DEF Earned
  <2>. HIDE DEF k, c, d
  <2>5. d \div k >= c /\ d \div k \in Int
    BY <2>3, Enough, Divided
  <2>6. Earned(b) >= Capacity[b.kind] /\ Earned(b) \in Int
    BY <2>4, <2>5 DEF c
  <2>7. Refilled(b) = [b EXCEPT !.tokens = Capacity[b.kind], !.last = now]
    <3>1. ~ (Earned(b) <= 0)
      BY <1>1, <2>6
    <3>2. (IF b.tokens + Earned(b) > Capacity[b.kind] THEN Capacity[b.kind]
           ELSE b.tokens + Earned(b)) = Capacity[b.kind]
      BY <1>1, <2>6
    <3>. QED  BY <3>1, <3>2 DEF Refilled
  <2>8. Refilled(b).tokens = Capacity[b.kind]
    <3>1. b \in Buckets
      BY <1>0 DEF Proper
    <3>. QED  BY <2>7, <3>1 DEF Buckets
  <2>. QED  BY <2>8 DEF b
<1>4. Excused(b)
  BY DEF b
<1>5. \/ b.tokens = Capacity[b.kind] \/ b.access >= at \/ b.used > b.access
      \/ b.last > b.used
      \/ at - b.access > Expiry /\ b.used <= b.access /\ b.last <= b.used
  BY <1>0, <1>1, <1>4 DEF Excused
<1>. QED  BY <1>2, <1>3, <1>5 DEF b

LEMMA ForgetInit == Init => ForgetInv
BY RateInit DEF Init, ForgetInv, StoringFresh, Spared

LEMMA NextForget == ForgetInv /\ [Next]_vars => ForgetInv'
<1>. SUFFICES ASSUME ForgetInv, [Next]_vars PROVE ForgetInv'
  OBVIOUS
<1>0. /\ RateInv /\ RateInv' /\ StoringFresh /\ Spared /\ victim \in Addrs
      /\ table \in [Addrs -> 0..Len(bucket)] /\ bucket \in Seq(Buckets)
  BY NextRate DEF ForgetInv, RateInv, Typed
<1>1. ASSUME UNCHANGED <<bucket, table, pc, mine>> PROVE StoringFresh'
  BY <1>0, <1>1 DEF StoringFresh
<1>2. ASSUME NEW r \in Requests, ServeHTTP(r) PROVE StoringFresh' /\ Spared'
  BY <1>2, SparedServe
<1>3. CASE Tick \/ UNCHANGED vars
  <2>1. UNCHANGED <<bucket, table, pc, mine, sweeper, at, victim>>
    BY <1>3 DEF Tick, vars, requests, cleaner
  <2>. QED  BY <1>0, <1>1, <2>1 DEF Spared, Excused, ForgetInv
<1>4. CASE StartSweep \/ EndSweep
  <2>1. UNCHANGED <<bucket, table, pc, mine>> /\ sweeper' # "delete"
    BY <1>4 DEF StartSweep, EndSweep, requests
  <2>. QED  BY <1>0, <1>1, <2>1 DEF Spared, ForgetInv
<1>5. ASSUME NEW a \in Addrs, CheckEntry(a) PROVE ForgetInv'
  <2>1. /\ UNCHANGED <<bucket, table, pc, mine, at>>
        /\ sweeper' = "delete" => victim' = a /\ at - bucket[table[a]].access > Expiry
    BY <1>5 DEF CheckEntry, Expired, requests
  <2>2. Spared'
    BY <2>1 DEF Spared, Excused
  <2>. QED  BY <1>0, <1>1, <2>1, <2>2 DEF ForgetInv
<1>6. CASE DeleteEntry
  <2>1. /\ UNCHANGED <<bucket, pc, mine>> /\ sweeper' = "range"
        /\ table' = [table EXCEPT ![victim] = 0]
    BY <1>6 DEF DeleteEntry, requests
  <2>2. \A r \in Requests : pc[r] = "store" => mine[r] # 0
    BY <1>0 DEF RateInv, Typed, Held
  <2>3. \A a \in Addrs : table'[a] = table[a] \/ table'[a] = 0
    BY <1>0, <2>1
  <2>4. StoringFresh'
    BY <1>0, <2>1, <2>2, <2>3 DEF StoringFresh
  <2>. QED  BY <1>0, <2>1, <2>4 DEF Spared, ForgetInv
<1>. QED  BY <1>0, <1>2, <1>3, <1>4, <1>5, <1>6 DEF Next, Sweep, ForgetInv

\* The cleanup is not atomic with the requests, and nobody gains tokens by it:
\* for any number of addresses and requests, any rates and bursts that fill up
\* within the expiry.
THEOREM ForgetsCorrect == Spec => ForgetsOnlyFull
<1>1. ForgetInv /\ [Next]_vars =>
        [\A a \in Addrs : (table[a] # 0 /\ table'[a] = 0) =>
            LET b == bucket[table[a]] IN
                \/ Refilled(b).tokens = Capacity[b.kind]
                \/ b.access >= at
                \/ b.used > b.access
                \/ b.last > b.used]_vars
  <2>. SUFFICES ASSUME ForgetInv, Next, NEW a \in Addrs, table[a] # 0, table'[a] = 0
                PROVE  LET b == bucket[table[a]] IN
                       \/ Refilled(b).tokens = Capacity[b.kind] \/ b.access >= at
                       \/ b.used > b.access \/ b.last > b.used
    OBVIOUS
  <2>0. /\ RateInv /\ Typed /\ Spared /\ table \in [Addrs -> 0..Len(bucket)]
        /\ Len(bucket) \in Nat
    BY DEF ForgetInv, RateInv, Typed
  <2>1. sweeper = "delete" /\ a = victim
    <3>1. ASSUME NEW r \in Requests, ServeHTTP(r) PROVE FALSE
      <4>1. table' = table \/ Enters(r)
        BY <2>0, <3>1, ServeAtBucket
      <4>2. pc[r] = "store" => mine[r] # 0
        BY <2>0 DEF Typed, Held
      <4>. QED  BY <2>0, <4>1, <4>2 DEF Enters
    <3>2. ~ Tick /\ ~ StartSweep /\ (\A c \in Addrs : ~ CheckEntry(c)) /\ ~ EndSweep
      BY DEF Tick, StartSweep, CheckEntry, EndSweep
    <3>3. DeleteEntry
      BY <3>1, <3>2 DEF Next, Sweep
    <3>. QED  BY <2>0, <3>3 DEF DeleteEntry
  <2>2. table[a] \in 1..Len(bucket) /\ Excused(bucket[table[a]])
    BY <2>0, <2>1 DEF Spared
  <2>. QED  BY <2>0, <2>2, FullAgain
<1>. QED  BY <1>1, ForgetInit, NextForget, PTL DEF Spec, ForgetsOnlyFull
=============================================================================
