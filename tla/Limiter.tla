------------------------------ MODULE Limiter ------------------------------
(***************************************************************************)
(* The token bucket of internal/bot/ratelimit, used before calls to        *)
(* Discord (Manager.Wait) and for HTTP clients (middleware.RateLimit).     *)
(*                                                                         *)
(* A caller that finds no token reserves the next one by moving lastUpdate *)
(* into the future, releases the mutex and sleeps until then or until its  *)
(* context is cancelled.  A cancelled caller does not give its reservation *)
(* back.  The middleware cancels the context before it calls Wait, so each *)
(* request it rejects is a Wait followed by a Cancel.                      *)
(*                                                                         *)
(* Wait up to the unlock is one step: l.mu is held throughout.  Limiters   *)
(* are only made for a positive rate, so Rate, the time between two        *)
(* tokens, is positive.                                                    *)
(***************************************************************************)
EXTENDS Integers, FiniteSets

CONSTANTS
    Callers,      \* goroutines that share the limiter
    Rate,         \* ticks between two tokens
    Burst,        \* the burst asked for
    MaxTime,      \* the last tick
    MaxCancels    \* cancelled waits

ASSUME RateAssumption == Rate \in Nat \ {0}
ASSUME BurstAssumption == Burst \in Int
ASSUME CallersAssumption == IsFiniteSet(Callers)
ASSUME BoundsAssumption == MaxTime \in Nat /\ MaxCancels \in Nat

VARIABLES
    now,          \* the clock
    tokens,       \* l.tokens
    lastUpdate,   \* l.lastUpdate, in the future when tokens are reserved
    sleeping,     \* callers between the unlock and the end of the select
    due,          \* what the timer of each sleeping caller is set to
    granted,      \* history: Waits that returned nil
    lastGrant,    \* history: when the last of them returned
    cancels       \* history: Waits that returned ctx.Err()

vars == <<now, tokens, lastUpdate, sleeping, due, granted, lastGrant, cancels>>

\* NewLimiter: a burst below 1 is 1.
Capacity == IF Burst < 1 THEN 1 ELSE Burst

Init ==
    /\ now = 0 /\ lastUpdate = 0
    /\ tokens = Capacity
    /\ sleeping = {} /\ due = [c \in Callers |-> 0]
    /\ granted = 0 /\ lastGrant = 0 /\ cancels = 0

Tick ==
    /\ now < MaxTime
    /\ now' = now + 1
    /\ UNCHANGED <<tokens, lastUpdate, sleeping, due, granted, lastGrant, cancels>>

\* Faulty variant: the first interval earns nothing.
NewTokensLate == (now - lastUpdate) \div Rate - 1

\* The tokens earned since lastUpdate; none when it lies in the future.
NewTokens == (now - lastUpdate) \div Rate

\* Faulty variant: without the cap.
FilledPastBurst == IF NewTokens > 0 THEN tokens + NewTokens ELSE tokens

Filled ==
    IF NewTokens <= 0 THEN tokens
    ELSE IF tokens + NewTokens > Capacity THEN Capacity ELSE tokens + NewTokens

\* Faulty variant: lastUpdate is not moved when tokens are added.
BaseUnmoved == lastUpdate

\* The fraction of a token earned since lastUpdate is dropped.
Base == IF NewTokens > 0 THEN now ELSE lastUpdate

\* Wait finds a token.
WaitGranted(c) ==
    /\ c \notin sleeping
    /\ Filled > 0
    /\ tokens' = Filled - 1
    /\ lastUpdate' = Base
    /\ granted' = granted + 1 /\ lastGrant' = now
    /\ UNCHANGED <<now, sleeping, due, cancels>>

\* Faulty variant: lastUpdate is not moved to the reserved token.
WaitReservesSame(c) ==
    /\ c \notin sleeping
    /\ Filled <= 0
    /\ tokens' = Filled
    /\ lastUpdate' = Base
    /\ due' = [due EXCEPT ![c] = Base + Rate]
    /\ sleeping' = sleeping \cup {c}
    /\ UNCHANGED <<now, granted, lastGrant, cancels>>

\* Faulty variant: two tokens are reserved.
WaitReservesTwo(c) ==
    /\ c \notin sleeping
    /\ Filled <= 0
    /\ tokens' = Filled
    /\ lastUpdate' = Base + 2 * Rate
    /\ due' = [due EXCEPT ![c] = Base + Rate]
    /\ sleeping' = sleeping \cup {c}
    /\ UNCHANGED <<now, granted, lastGrant, cancels>>

\* Wait finds none and reserves the next.
WaitReserves(c) ==
    /\ c \notin sleeping
    /\ Filled <= 0
    /\ tokens' = Filled
    /\ lastUpdate' = Base + Rate
    /\ due' = [due EXCEPT ![c] = Base + Rate]
    /\ sleeping' = sleeping \cup {c}
    /\ UNCHANGED <<now, granted, lastGrant, cancels>>

\* The timer fires first.
Wake(c) ==
    /\ c \in sleeping
    /\ due[c] <= now
    /\ sleeping' = sleeping \ {c}
    /\ granted' = granted + 1 /\ lastGrant' = now
    /\ UNCHANGED <<now, tokens, lastUpdate, due, cancels>>

\* The context is done first: the reservation stays.
Cancel(c) ==
    /\ c \in sleeping
    /\ cancels < MaxCancels
    /\ sleeping' = sleeping \ {c}
    /\ cancels' = cancels + 1
    /\ UNCHANGED <<now, tokens, lastUpdate, due, granted, lastGrant>>

Next ==
    \/ Tick
    \/ \E c \in Callers : WaitGranted(c) \/ WaitReserves(c) \/ Wake(c) \/ Cancel(c)

Spec == Init /\ [][Next]_vars

-----------------------------------------------------------------------------

\* The bucket never holds more than the burst, and no timer is set beyond the
\* last token reserved.
TypeOK ==
    /\ now \in Nat /\ lastUpdate \in Nat
    /\ tokens \in 0..Capacity
    /\ sleeping \subseteq Callers
    /\ due \in [Callers -> Nat]
    /\ \A c \in sleeping : due[c] <= lastUpdate
    /\ granted \in Nat /\ lastGrant \in 0..now /\ cancels \in Nat

\* However many callers wait, reserve and are cancelled, at most the burst and
\* one token per Rate have been granted: (granted - Capacity) * Rate <= now.
RateBound == granted * Rate <= now + Capacity * Rate

\* Two sleeping callers never wait for the same token: their timers are at
\* least Rate apart, so the calls they hold back are spread out.
ReservedApart == \A c, d \in sleeping :
    c # d => due[c] >= due[d] + Rate \/ due[d] >= due[c] + Rate

\* Callers that wait or were cancelled push lastUpdate ahead of the clock by at
\* most Rate each: a new caller is never held back for longer than that.
DebtBounded == lastUpdate <= now + Rate * (Cardinality(sleeping) + cancels)

\* As long as no wait was cancelled, a caller is held back only if another one
\* already waits or the last token was given out less than Rate ago: the token
\* of the moment is never withheld.
PromptUncancelled == [][cancels = 0 => \A c \in sleeping' \ sleeping :
    sleeping # {} \/ now < lastGrant + Rate]_vars
=============================================================================
