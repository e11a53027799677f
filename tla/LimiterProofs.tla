--------------------------- MODULE LimiterProofs ---------------------------
(***************************************************************************)
(* What Limiter promises for any number of callers, any rate, any burst    *)
(* and any history of cancelled waits.                                     *)
(***************************************************************************)
EXTENDS Limiter, FiniteSetTheorems, TLAPS

\* The calls that time x at the latest lets through: the sleepers due by x.
Held(x) == {c \in sleeping : due[c] <= x}

\* What has been granted, may be granted at once and will be granted by time x
\* fits in the burst and the tokens earned by x.  Reservations make lastUpdate
\* run ahead of the clock, so the bound is kept from either of them on.
Bounded == \A x \in Nat : (x >= now \/ x >= lastUpdate) =>
    (granted + tokens + Cardinality(Held(x))) * Rate <= x + Capacity * Rate

\* Without a cancelled wait, lastUpdate is ahead of the clock only for somebody
\* who still sleeps, and an empty bucket with no sleeper has just given a token.
Earned ==
    /\ tokens > 0 => lastUpdate <= now
    /\ cancels = 0 =>
          /\ lastUpdate <= now \/ \E c \in sleeping : due[c] = lastUpdate
          /\ sleeping = {} /\ tokens = 0 => lastUpdate <= lastGrant

-----------------------------------------------------------------------------
(* Arithmetic and the bucket's operators.                                  *)

LEMMA Distribute == ASSUME NEW a \in Int, NEW b \in Int, NEW r \in Int
                    PROVE  (a + b) * r = a * r + b * r
OBVIOUS

LEMMA Scale == ASSUME NEW a \in Int, NEW b \in Int, NEW r \in Nat, a <= b
               PROVE  a * r <= b * r
OBVIOUS

LEMMA Quotient == ASSUME NEW n \in Int, NEW r \in Nat \ {0}
                  PROVE  /\ n \div r \in Int
                         /\ (n \div r) * r <= n
                         /\ n \div r <= 0 => n < r
                         /\ n \div r > 0 => n >= r
OBVIOUS

LEMMA CapacityType == Capacity \in Nat \ {0}
BY BurstAssumption DEF Capacity

\* A reservation is only made when no time has been earned.
LEMMA Empty == ASSUME TypeOK, Filled <= 0
               PROVE  /\ tokens = 0 /\ Filled = 0
                      /\ NewTokens <= 0
                      /\ Base = lastUpdate
                      /\ now < lastUpdate + Rate
<1>1. NewTokens \in Int /\ (NewTokens <= 0 => now - lastUpdate < Rate)
  BY Quotient, RateAssumption DEF NewTokens, TypeOK
<1>2. NewTokens <= 0
  BY <1>1, CapacityType DEF Filled, TypeOK
<1>3. tokens = 0 /\ Filled = 0 /\ Base = lastUpdate
  BY <1>1, <1>2, CapacityType DEF Filled, Base, TypeOK
<1>. QED  BY <1>1, <1>2, <1>3, RateAssumption DEF TypeOK

\* Replenishing adds at most the tokens of the time that went by.
LEMMA Replenished == ASSUME TypeOK
    PROVE  /\ NewTokens \in Int /\ Filled \in 0..Capacity
           /\ Base \in Nat /\ Base >= lastUpdate
           /\ \/ NewTokens <= 0 /\ Filled = tokens /\ Base = lastUpdate
              \/ /\ NewTokens > 0 /\ Base = now /\ lastUpdate <= now
                 /\ (Filled - tokens) * Rate <= now - lastUpdate
<1>1. NewTokens \in Int /\ NewTokens * Rate <= now - lastUpdate
      /\ (NewTokens > 0 => now - lastUpdate >= Rate)
  BY Quotient, RateAssumption DEF NewTokens, TypeOK
<1>2. CASE NewTokens <= 0
  BY <1>1, <1>2, CapacityType DEF Filled, Base, TypeOK
<1>3. CASE NewTokens > 0
  <2>1. Base = now /\ lastUpdate <= now
    BY <1>1, <1>3, RateAssumption DEF Base, TypeOK
  <2>2. Filled \in 0..Capacity /\ Filled - tokens <= NewTokens
    BY <1>1, <1>3, CapacityType DEF Filled, TypeOK
  <2>3. (Filled - tokens) * Rate <= NewTokens * Rate
    BY <1>1, <2>2, Scale, CapacityType, RateAssumption DEF TypeOK
  <2>4. (Filled - tokens) * Rate \in Int /\ NewTokens * Rate \in Int
    BY <1>1, <2>2, CapacityType, RateAssumption DEF TypeOK
  <2>. QED  BY <1>1, <1>3, <2>1, <2>2, <2>3, <2>4 DEF TypeOK
<1>. QED  BY <1>1, <1>2, <1>3

LEMMA HeldFinite == ASSUME sleeping \subseteq Callers, NEW x \in Int
    PROVE  IsFiniteSet(sleeping) /\ IsFiniteSet(Held(x)) /\ Cardinality(Held(x)) \in Nat
BY FS_Subset, FS_CardinalityType, CallersAssumption DEF Held

-----------------------------------------------------------------------------
(* The type invariant and the spacing of the timers.                       *)

LEMMA InitInv == Init => TypeOK /\ ReservedApart /\ Bounded /\ Earned
<1>. SUFFICES ASSUME Init PROVE TypeOK /\ ReservedApart /\ Bounded /\ Earned
  OBVIOUS
<1>1. TypeOK /\ ReservedApart /\ Earned
  BY CapacityType DEF Init, TypeOK, ReservedApart, Earned
<1>2. ASSUME NEW x \in Nat
      PROVE  (granted + tokens + Cardinality(Held(x))) * Rate <= x + Capacity * Rate
  <2>1. Cardinality(Held(x)) = 0
    BY FS_EmptySet DEF Init, Held
  <2>2. granted + tokens + Cardinality(Held(x)) = Capacity
    BY <2>1, CapacityType DEF Init
  <2>3. Capacity * Rate \in Int
    BY CapacityType, RateAssumption
  <2>. QED  BY <2>2, <2>3
<1>. QED  BY <1>1, <1>2 DEF Bounded

LEMMA TypeStep == TypeOK /\ [Next]_vars => TypeOK'
<1>. SUFFICES ASSUME TypeOK, [Next]_vars PROVE TypeOK'
  OBVIOUS
<1>. USE RateAssumption, CapacityType
<1>1. CASE Tick
  BY <1>1 DEF TypeOK, Tick
<1>2. ASSUME NEW c \in Callers, WaitGranted(c) PROVE TypeOK'
  <2>1. Filled - 1 \in 0..Capacity /\ Base \in Nat /\ Base >= lastUpdate
    BY <1>2, Replenished DEF WaitGranted
  <2>. QED  BY <1>2, <2>1 DEF TypeOK, WaitGranted
<1>3. ASSUME NEW c \in Callers, WaitReserves(c) PROVE TypeOK'
  <2>1. Filled = 0 /\ Base = lastUpdate
    BY <1>3, Empty DEF WaitReserves
  <2>2. /\ now' = now /\ lastUpdate' = lastUpdate + Rate /\ tokens' = 0
        /\ due' = [due EXCEPT ![c] = lastUpdate + Rate]
        /\ sleeping' = sleeping \cup {c}
        /\ UNCHANGED <<granted, lastGrant, cancels>>
    BY <1>3, <2>1 DEF WaitReserves
  <2>3. due' \in [Callers -> Nat] /\ lastUpdate' \in Nat
    BY <2>2 DEF TypeOK
  <2>4. \A d \in sleeping' : due'[d] <= lastUpdate'
    BY <2>2, <2>3 DEF TypeOK
  <2>. QED  BY <2>2, <2>3, <2>4 DEF TypeOK
<1>4. ASSUME NEW c \in Callers, Wake(c) PROVE TypeOK'
  BY <1>4 DEF TypeOK, Wake
<1>5. ASSUME NEW c \in Callers, Cancel(c) PROVE TypeOK'
  BY <1>5 DEF TypeOK, Cancel
<1>6. CASE UNCHANGED vars
  BY <1>6 DEF TypeOK, vars
<1>. QED  BY <1>1, <1>2, <1>3, <1>4, <1>5, <1>6 DEF Next

LEMMA ApartStep == TypeOK /\ ReservedApart /\ [Next]_vars => ReservedApart'
<1>. SUFFICES ASSUME TypeOK, ReservedApart, [Next]_vars PROVE ReservedApart'
  OBVIOUS
<1>1. ASSUME NEW c \in Callers, WaitReserves(c) PROVE ReservedApart'
  <2>1. Base = lastUpdate
    BY <1>1, Empty DEF WaitReserves
  <2>2. \A d \in sleeping : due'[d] = due[d] /\ d # c /\ due[d] <= lastUpdate
    BY <1>1 DEF WaitReserves, TypeOK
  <2>3. due'[c] = lastUpdate + Rate /\ sleeping' = sleeping \cup {c}
    BY <1>1, <2>1 DEF WaitReserves, TypeOK
  <2>4. \A d \in sleeping : due[d] \in Nat /\ due'[c] >= due'[d] + Rate
    BY <2>2, <2>3, RateAssumption DEF TypeOK
  <2>. QED  BY <2>2, <2>3, <2>4 DEF ReservedApart
<1>2. ASSUME sleeping' \subseteq sleeping, due' = due PROVE ReservedApart'
  BY <1>2 DEF ReservedApart
<1>3. CASE \E c \in Callers : WaitGranted(c) \/ Wake(c) \/ Cancel(c)
  BY <1>2, <1>3 DEF WaitGranted, Wake, Cancel
<1>4. CASE Tick \/ UNCHANGED vars
  BY <1>2, <1>4 DEF Tick, vars
<1>. QED  BY <1>1, <1>3, <1>4 DEF Next

-----------------------------------------------------------------------------
(* The bound on the calls granted.                                         *)

LEMMA BoundedStep == TypeOK /\ Bounded /\ [Next]_vars => Bounded'
<1>. SUFFICES ASSUME TypeOK, Bounded, [Next]_vars,
                     NEW x \in Nat, x >= now' \/ x >= lastUpdate'
              PROVE  ((granted + tokens + Cardinality(Held(x))) * Rate <= x + Capacity * Rate)'
  BY DEF Bounded
<1>. DEFINE n(y) == granted + tokens + Cardinality(Held(y))
<1>. USE RateAssumption, CapacityType
<1>0. /\ Capacity * Rate \in Int
      /\ \A y \in Nat : /\ Cardinality(Held(y)) \in Nat
                        /\ n(y) \in Nat /\ n(y) * Rate \in Nat
                        /\ (y >= now \/ y >= lastUpdate) => n(y) * Rate <= y + Capacity * Rate
  BY HeldFinite DEF Bounded, TypeOK
<1>1. CASE Tick
  <2>1. n(x)' = n(x) /\ (x >= now \/ x >= lastUpdate)
    BY <1>1 DEF Tick, Held, TypeOK
  <2>. QED  BY <1>0, <2>1
<1>2. ASSUME NEW c \in Callers, WaitGranted(c) PROVE (n(x) * Rate <= x + Capacity * Rate)'
  <2>1. granted' = granted + 1 /\ tokens' = Filled - 1 /\ lastUpdate' = Base
        /\ Held(x)' = Held(x) /\ now' = now
    BY <1>2 DEF WaitGranted, Held
  <2>2. CASE NewTokens <= 0
    <3>1. Filled = tokens /\ Base = lastUpdate
      BY <2>2, Replenished
    <3>2. n(x)' = n(x)
      BY <2>1, <3>1, <1>0 DEF TypeOK
    <3>. QED  BY <1>0, <2>1, <3>1, <3>2
  <2>3. CASE NewTokens > 0
    <3>1. /\ Base = now /\ lastUpdate <= now /\ Filled \in 0..Capacity
          /\ (Filled - tokens) * Rate <= now - lastUpdate
      BY <2>3, Replenished
    <3>2. x >= now
      BY <2>1, <3>1
    <3>3. Held(x) = Held(lastUpdate)
      BY <3>1, <3>2 DEF Held, TypeOK
    <3>4. n(x)' = n(lastUpdate) + (Filled - tokens)
      BY <2>1, <3>1, <3>3, <1>0 DEF TypeOK
    <3>5. n(x)' * Rate = n(lastUpdate) * Rate + (Filled - tokens) * Rate
      BY <3>1, <3>4, <1>0, Distribute DEF TypeOK
    <3>6. n(lastUpdate) * Rate <= lastUpdate + Capacity * Rate
      BY <1>0 DEF TypeOK
    <3>7. (Filled - tokens) * Rate \in Int /\ n(lastUpdate) * Rate \in Int
      BY <3>1, <1>0 DEF TypeOK
    <3>. QED  BY <1>0, <3>1, <3>2, <3>5, <3>6, <3>7 DEF TypeOK
  <2>. QED  BY <2>2, <2>3, Replenished
<1>3. ASSUME NEW c \in Callers, WaitReserves(c) PROVE (n(x) * Rate <= x + Capacity * Rate)'
  <2>1. tokens = 0 /\ Filled = 0 /\ Base = lastUpdate
    BY <1>3, Empty DEF WaitReserves
  <2>2. /\ granted' = granted /\ tokens' = tokens /\ now' = now
        /\ lastUpdate' = lastUpdate + Rate /\ c \notin sleeping
        /\ sleeping' = sleeping \cup {c} /\ due' = [due EXCEPT ![c] = lastUpdate + Rate]
    BY <1>3, <2>1 DEF WaitReserves
  <2>3. due'[c] = lastUpdate + Rate /\ \A d \in sleeping : due'[d] = due[d] /\ d # c
    BY <2>2 DEF TypeOK
  <2>4. CASE x < lastUpdate + Rate
    <3>1. Held(x)' = Held(x)
      BY <2>2, <2>3, <2>4 DEF Held, TypeOK
    <3>. QED  BY <1>0, <2>2, <2>4, <3>1 DEF TypeOK
  <2>5. CASE x >= lastUpdate + Rate
    <3>. DEFINE y == x - Rate
    <3>1. y \in Nat /\ y >= lastUpdate
      BY <2>5 DEF TypeOK
    <3>2. Held(x)' = Held(y) \cup {c} /\ c \notin Held(y)
      BY <2>2, <2>3, <2>5, <3>1 DEF Held, TypeOK
    <3>. HIDE DEF y
    <3>3. Cardinality(Held(x)') = Cardinality(Held(y)) + 1
      <4>1. IsFiniteSet(Held(y))
        BY <3>1, HeldFinite DEF TypeOK
      <4>2. Cardinality(Held(y) \cup {c}) = Cardinality(Held(y)) + 1
        BY <3>2, <4>1, FS_AddElement, Zenon
      <4>. QED  BY <3>2, <4>2
    <3>4. n(x)' = n(y) + 1
      BY <2>2, <3>1, <3>3, <1>0 DEF TypeOK
    <3>5. n(x)' * Rate = n(y) * Rate + Rate
      BY <3>1, <3>4, <1>0, Distribute
    <3>6. n(y) * Rate <= y + Capacity * Rate
      BY <3>1, <1>0
    <3>7. y = x - Rate /\ n(y) * Rate \in Int
      BY <3>1, <1>0 DEF y
    <3>. QED  BY <1>0, <3>1, <3>5, <3>6, <3>7 DEF TypeOK
  <2>. QED  BY <2>4, <2>5 DEF TypeOK
<1>4. ASSUME NEW c \in Callers, Wake(c) PROVE (n(x) * Rate <= x + Capacity * Rate)'
  <2>1. /\ granted' = granted + 1 /\ tokens' = tokens /\ now' = now
        /\ lastUpdate' = lastUpdate /\ due[c] <= now /\ c \in sleeping
        /\ sleeping' = sleeping \ {c} /\ due' = due
    BY <1>4 DEF Wake
  <2>2. due[c] <= x
    BY <2>1 DEF TypeOK
  <2>3. Held(x)' = Held(x) \ {c} /\ c \in Held(x)
    BY <2>1, <2>2 DEF Held
  <2>4. Cardinality(Held(x)') = Cardinality(Held(x)) - 1
    <3>1. IsFiniteSet(Held(x))
      BY HeldFinite DEF TypeOK
    <3>2. Cardinality(Held(x) \ {c}) = Cardinality(Held(x)) - 1
      BY <2>3, <3>1, FS_RemoveElement, Zenon
    <3>. QED  BY <2>3, <3>2
  <2>5. n(x)' = n(x)
    BY <2>1, <2>4, <1>0 DEF TypeOK
  <2>. QED  BY <1>0, <2>1, <2>5
<1>5. ASSUME NEW c \in Callers, Cancel(c) PROVE (n(x) * Rate <= x + Capacity * Rate)'
  <2>1. /\ granted' = granted /\ tokens' = tokens /\ now' = now
        /\ lastUpdate' = lastUpdate /\ sleeping' = sleeping \ {c} /\ due' = due
    BY <1>5 DEF Cancel
  <2>2. Held(x)' \subseteq Held(x)
    BY <2>1 DEF Held
  <2>3. Cardinality(Held(x)') \in Nat /\ Cardinality(Held(x)') <= Cardinality(Held(x))
    <3>1. IsFiniteSet(Held(x))
      BY HeldFinite DEF TypeOK
    <3>2. IsFiniteSet(Held(x)') /\ Cardinality(Held(x)') <= Cardinality(Held(x))
      BY <2>2, <3>1, FS_Subset, Zenon
    <3>. QED  BY <3>2, FS_CardinalityType, Zenon
  <2>4. n(x)' \in Nat /\ n(x)' <= n(x)
    BY <2>1, <2>3, <1>0 DEF TypeOK
  <2>5. n(x)' * Rate <= n(x) * Rate
    BY <2>4, <1>0, Scale
  <2>6. n(x)' * Rate \in Nat
    BY <2>4
  <2>. QED  BY <1>0, <2>1, <2>5, <2>6
<1>6. CASE UNCHANGED vars
  <2>1. n(x)' = n(x) /\ now' = now /\ lastUpdate' = lastUpdate
    BY <1>6 DEF vars, Held
  <2>. QED  BY <1>0, <2>1
<1>. QED  BY <1>1, <1>2, <1>3, <1>4, <1>5, <1>6 DEF Next

-----------------------------------------------------------------------------
(* When a caller is held back.                                             *)

LEMMA EarnedStep == TypeOK /\ Earned /\ [Next]_vars => Earned'
<1>. SUFFICES ASSUME TypeOK, Earned, [Next]_vars PROVE Earned'
  OBVIOUS
<1>. USE RateAssumption
<1>1. CASE Tick
  BY <1>1 DEF TypeOK, Earned, Tick
<1>2. ASSUME NEW c \in Callers, WaitGranted(c) PROVE Earned'
  <2>1. /\ Filled \in Nat /\ Base \in Nat /\ Filled > 0
        /\ NewTokens <= 0 => Filled = tokens /\ Base = lastUpdate
        /\ NewTokens > 0 => Base = now
        /\ NewTokens \in Int
    BY <1>2, Replenished, CapacityType DEF WaitGranted
  <2>2. Base <= now
    BY <2>1 DEF Earned, TypeOK
  <2>. QED  BY <1>2, <2>1, <2>2 DEF TypeOK, Earned, WaitGranted
<1>3. ASSUME NEW c \in Callers, WaitReserves(c) PROVE Earned'
  <2>1. Filled = 0 /\ Base = lastUpdate
    BY <1>3, Empty DEF WaitReserves
  <2>2. tokens' = 0 /\ c \in sleeping' /\ due'[c] = lastUpdate'
    BY <1>3, <2>1 DEF WaitReserves, TypeOK
  <2>. QED  BY <2>2 DEF Earned
<1>4. ASSUME NEW c \in Callers, Wake(c) PROVE Earned'
  <2>1. cancels = 0 => lastUpdate <= now \/ \E d \in sleeping' : due[d] = lastUpdate
    BY <1>4 DEF Earned, Wake
  <2>. QED  BY <1>4, <2>1 DEF TypeOK, Earned, Wake
<1>5. ASSUME NEW c \in Callers, Cancel(c) PROVE Earned'
  BY <1>5 DEF TypeOK, Earned, Cancel
<1>6. CASE UNCHANGED vars
  BY <1>6 DEF Earned, vars
<1>. QED  BY <1>1, <1>2, <1>3, <1>4, <1>5, <1>6 DEF Next

LEMMA PromptStep == TypeOK /\ Earned /\ [Next]_vars =>
    (cancels = 0 => \A c \in sleeping' \ sleeping : sleeping # {} \/ now < lastGrant + Rate)
<1>. SUFFICES ASSUME TypeOK, Earned, [Next]_vars, cancels = 0,
                     NEW c \in sleeping' \ sleeping, sleeping = {}
              PROVE  now < lastGrant + Rate
  OBVIOUS
<1>1. PICK d \in Callers : WaitReserves(d)
  BY DEF Next, Tick, WaitGranted, Wake, Cancel, vars
<1>2. tokens = 0 /\ now < lastUpdate + Rate
  BY <1>1, Empty DEF WaitReserves
<1>3. lastUpdate <= lastGrant
  BY <1>2 DEF Earned
<1>. QED  BY <1>2, <1>3, RateAssumption DEF TypeOK

-----------------------------------------------------------------------------
(* The theorems.                                                           *)

IInv == TypeOK /\ ReservedApart /\ Bounded /\ Earned

LEMMA Invariant == Spec => []IInv
<1>1. Init => IInv
  BY InitInv DEF IInv
<1>2. IInv /\ [Next]_vars => IInv'
  BY TypeStep, ApartStep, BoundedStep, EarnedStep DEF IInv
<1>. QED  BY <1>1, <1>2, PTL DEF Spec

\* The bucket never holds more than the burst (NewLimiter, Wait) and no timer is
\* set beyond the last reservation, whatever the rate, the burst and the callers.
THEOREM TypeCorrect == Spec => []TypeOK
<1>1. IInv => TypeOK
  BY DEF IInv
<1>. QED  BY <1>1, Invariant, PTL

\* Callers that Wait has put to sleep are never due less than Rate apart.
THEOREM ApartCorrect == Spec => []ReservedApart
<1>1. IInv => ReservedApart
  BY DEF IInv
<1>. QED  BY <1>1, Invariant, PTL

\* In any execution Wait returns nil at most Capacity times and once more for
\* each Rate that goes by, although reservations are taken ahead of the clock.
THEOREM RateCorrect == Spec => []RateBound
<1>1. IInv => RateBound
  <2>. SUFFICES ASSUME IInv PROVE RateBound
    OBVIOUS
  <2>. USE DEF IInv
  <2>1. Cardinality(Held(now)) \in Nat
    BY HeldFinite DEF TypeOK
  <2>2. (granted + tokens + Cardinality(Held(now))) * Rate <= now + Capacity * Rate
    BY DEF Bounded, TypeOK
  <2>3. granted * Rate <= (granted + tokens + Cardinality(Held(now))) * Rate
    BY <2>1, Scale, RateAssumption, CapacityType DEF TypeOK
  <2>4. /\ granted * Rate \in Int /\ Capacity * Rate \in Int
        /\ (granted + tokens + Cardinality(Held(now))) * Rate \in Int
    BY <2>1, RateAssumption, CapacityType DEF TypeOK
  <2>. QED  BY <2>2, <2>3, <2>4 DEF RateBound, TypeOK
<1>. QED  BY <1>1, Invariant, PTL

\* Until a wait is cancelled, nobody is held back without somebody waiting or a
\* token given less than Rate ago.
THEOREM PromptCorrect == Spec => PromptUncancelled
<1>1. IInv /\ [Next]_vars =>
      [cancels = 0 => \A c \in sleeping' \ sleeping :
          sleeping # {} \/ now < lastGrant + Rate]_vars
  BY PromptStep DEF IInv
<1>. QED  BY <1>1, Invariant, PTL DEF Spec, PromptUncancelled

-----------------------------------------------------------------------------
(* How far lastUpdate can be ahead of the clock.                           *)

\* The sleepers that time x does not wake.
Late(x) == {c \in sleeping : due[c] > x}

\* Who wakes is no longer counted, and need not be: each moment from now on is
\* behind lastUpdate by at most what its own sleepers and the cancelled owe.
Owed == \A x \in Nat : x >= now => lastUpdate <= x + Rate * (Cardinality(Late(x)) + cancels)

LEMMA LateFinite == ASSUME sleeping \subseteq Callers, NEW x \in Int
    PROVE  IsFiniteSet(Late(x)) /\ Cardinality(Late(x)) \in Nat
BY FS_Subset, FS_CardinalityType, CallersAssumption DEF Late

LEMMA OwedStep == TypeOK /\ Owed /\ [Next]_vars => Owed'
<1>. SUFFICES ASSUME TypeOK, Owed, [Next]_vars, NEW x \in Nat, x >= now'
              PROVE  lastUpdate' <= x + Rate * (Cardinality(Late(x)') + cancels')
  BY DEF Owed
<1>0. /\ now \in Nat /\ lastUpdate \in Nat /\ cancels \in Nat /\ Rate \in Nat \ {0}
      /\ sleeping \subseteq Callers /\ due \in [Callers -> Nat]
      /\ Cardinality(Late(x)) \in Nat /\ IsFiniteSet(Late(x))
  BY RateAssumption, LateFinite DEF TypeOK
<1>1. x >= now => lastUpdate <= x + Rate * (Cardinality(Late(x)) + cancels)
  BY DEF Owed
<1>2. ASSUME now' \in Nat, now <= now', lastUpdate' = lastUpdate,
             Late(x)' = Late(x), cancels' = cancels
      PROVE  lastUpdate' <= x + Rate * (Cardinality(Late(x)') + cancels')
  BY <1>0, <1>1, <1>2
<1>3. CASE Tick
  <2>1. Late(x)' = Late(x)
    BY <1>3 DEF Tick, Late
  <2>. QED  BY <1>0, <1>2, <1>3, <2>1 DEF Tick
<1>4. ASSUME NEW c \in Callers, WaitGranted(c)
      PROVE  lastUpdate' <= x + Rate * (Cardinality(Late(x)') + cancels')
  <2>1. UNCHANGED <<now, sleeping, due, cancels>> /\ lastUpdate' = Base
    BY <1>4 DEF WaitGranted
  <2>2. Late(x)' = Late(x)
    BY <2>1 DEF Late
  <2>3. CASE Base = lastUpdate
    BY <1>0, <1>2, <2>1, <2>2, <2>3
  <2>4. CASE Base = now
    <3>1. Rate * (Cardinality(Late(x)) + cancels) \in Nat
      BY <1>0
    <3>. QED  BY <1>0, <2>1, <2>2, <2>4, <3>1
  <2>. QED  BY <2>3, <2>4 DEF Base
<1>5. ASSUME NEW c \in Callers, WaitReserves(c)
      PROVE  lastUpdate' <= x + Rate * (Cardinality(Late(x)') + cancels')
  <2>1. /\ UNCHANGED <<now, cancels>> /\ lastUpdate' = lastUpdate + Rate
        /\ due' = [due EXCEPT ![c] = lastUpdate + Rate]
        /\ sleeping' = sleeping \cup {c} /\ c \notin sleeping
    BY <1>5, Empty DEF WaitReserves
  <2>2. CASE lastUpdate + Rate <= x
    <3>1. Late(x)' = Late(x)
      BY <1>0, <2>1, <2>2 DEF Late
    <3>2. Rate * (Cardinality(Late(x)) + cancels) \in Nat
      BY <1>0
    <3>. QED  BY <1>0, <2>1, <2>2, <3>1, <3>2
  <2>3. CASE lastUpdate + Rate > x
    <3>1. Late(x)' = Late(x) \cup {c} /\ c \notin Late(x)
      BY <1>0, <2>1, <2>3 DEF Late
    <3>2. Cardinality(Late(x)') = Cardinality(Late(x)) + 1
      BY <1>0, <3>1, FS_AddElement
    <3>3. Rate * ((Cardinality(Late(x)) + 1) + cancels)
              = Rate * (Cardinality(Late(x)) + cancels) + Rate
      BY <1>0
    <3>4. Rate * (Cardinality(Late(x)) + cancels) \in Nat
      BY <1>0
    <3>. QED  BY <1>0, <1>1, <2>1, <3>2, <3>3, <3>4
  <2>. QED  BY <1>0, <2>2, <2>3
<1>6. ASSUME NEW c \in Callers, Wake(c)
      PROVE  lastUpdate' <= x + Rate * (Cardinality(Late(x)') + cancels')
  <2>1. /\ UNCHANGED <<now, lastUpdate, due, cancels>> /\ sleeping' = sleeping \ {c}
        /\ c \in sleeping /\ due[c] <= now
    BY <1>6 DEF Wake
  <2>2. ~(due[c] > x)
    BY <1>0, <2>1
  <2>3. Late(x)' = Late(x)
    BY <2>1, <2>2 DEF Late
  <2>. QED  BY <1>0, <1>2, <2>1, <2>3
<1>7. ASSUME NEW c \in Callers, Cancel(c)
      PROVE  lastUpdate' <= x + Rate * (Cardinality(Late(x)') + cancels')
  <2>1. /\ UNCHANGED <<now, lastUpdate, due>> /\ sleeping' = sleeping \ {c}
        /\ c \in sleeping /\ cancels' = cancels + 1
    BY <1>7 DEF Cancel
  <2>2. Late(x)' = Late(x) \ {c}
    BY <2>1 DEF Late
  <2>3. Cardinality(Late(x)') \in Nat /\ Cardinality(Late(x)') >= Cardinality(Late(x)) - 1
    <3>1. CASE c \in Late(x)
      <4>1. Cardinality(Late(x)') = Cardinality(Late(x)) - 1 /\ IsFiniteSet(Late(x)')
        BY <1>0, <2>2, <3>1, FS_RemoveElement
      <4>2. Cardinality(Late(x)') \in Nat
        BY <4>1, FS_CardinalityType
      <4>. QED  BY <1>0, <4>1, <4>2
    <3>2. CASE c \notin Late(x)
      <4>1. Late(x)' = Late(x)
        BY <2>2, <3>2
      <4>2. Cardinality(Late(x)') = Cardinality(Late(x))
        BY <4>1
      <4>. QED  BY <1>0, <4>2
    <3>. QED  BY <3>1, <3>2
  <2>4. (Cardinality(Late(x)) + cancels) * Rate <= (Cardinality(Late(x)') + cancels') * Rate
    BY <1>0, <2>1, <2>3, Scale
  <2>5. /\ (Cardinality(Late(x)) + cancels) * Rate \in Nat
        /\ (Cardinality(Late(x)') + cancels') * Rate \in Nat
        /\ (Cardinality(Late(x)) + cancels) * Rate = Rate * (Cardinality(Late(x)) + cancels)
        /\ (Cardinality(Late(x)') + cancels') * Rate = Rate * (Cardinality(Late(x)') + cancels')
    BY <1>0, <2>1, <2>3
  <2>. QED  BY <1>0, <1>1, <2>1, <2>4, <2>5
<1>8. CASE UNCHANGED vars
  <2>1. Late(x)' = Late(x) /\ UNCHANGED <<now, lastUpdate, cancels>>
    BY <1>8 DEF vars, Late
  <2>. QED  BY <1>0, <1>2, <2>1
<1>. QED  BY <1>3, <1>4, <1>5, <1>6, <1>7, <1>8 DEF Next

\* A new caller is held back by at most Rate for each sleeper and each cancelled
\* wait before it, for any rate and any number of them.
THEOREM DebtCorrect == Spec => []DebtBounded
<1>1. Init => Owed
  <2>. SUFFICES ASSUME Init, NEW x \in Nat
                PROVE  lastUpdate <= x + Rate * (Cardinality(Late(x)) + cancels)
    BY DEF Owed
  <2>1. Cardinality(Late(x)) \in Nat
    BY LateFinite DEF Init
  <2>2. Rate * (Cardinality(Late(x)) + cancels) \in Nat
    BY <2>1, RateAssumption DEF Init
  <2>. QED  BY <2>2 DEF Init
<1>2. TypeOK /\ Owed => DebtBounded
  <2>. SUFFICES ASSUME TypeOK, Owed PROVE DebtBounded
    OBVIOUS
  <2>1. Late(now) \subseteq sleeping /\ IsFiniteSet(sleeping)
    BY FS_Subset, CallersAssumption DEF Late, TypeOK
  <2>2. /\ Cardinality(Late(now)) \in Nat /\ Cardinality(sleeping) \in Nat
        /\ Cardinality(Late(now)) <= Cardinality(sleeping)
    BY <2>1, FS_Subset, FS_CardinalityType
  <2>3. now \in Nat /\ lastUpdate \in Nat /\ cancels \in Nat /\ Rate \in Nat
    BY RateAssumption DEF TypeOK
  <2>4. lastUpdate <= now + Rate * (Cardinality(Late(now)) + cancels)
    BY <2>3 DEF Owed
  <2>5. (Cardinality(Late(now)) + cancels) * Rate <= (Cardinality(sleeping) + cancels) * Rate
    BY <2>2, <2>3, Scale
  <2>6. /\ (Cardinality(Late(now)) + cancels) * Rate = Rate * (Cardinality(Late(now)) + cancels)
        /\ (Cardinality(sleeping) + cancels) * Rate = Rate * (Cardinality(sleeping) + cancels)
        /\ Rate * (Cardinality(Late(now)) + cancels) \in Nat
        /\ Rate * (Cardinality(sleeping) + cancels) \in Nat
    BY <2>2, <2>3
  <2>. QED  BY <2>3, <2>4, <2>5, <2>6 DEF DebtBounded
<1>. QED  BY <1>1, <1>2, OwedStep, TypeCorrect, PTL DEF Spec
=============================================================================
