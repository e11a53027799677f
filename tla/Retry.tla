------------------------------- MODULE Retry -------------------------------
(***************************************************************************)
(* db.WithRetry around one statement, internal/db/retry.go.                *)
(*                                                                         *)
(* An attempt can fail before it reaches the database, after it was        *)
(* applied, or while the server still works on it: the connection is lost  *)
(* and the statement is applied later, beside the next attempt.  The error *)
(* has one of the retryable codes or it has not.  A statement is an insert *)
(* under a primary key, refused when the row is there, or one that can be  *)
(* repeated: an upsert or a deletion.  The caller can cancel its context.  *)
(* What WithRetry waits is in quarters, so that the jitter of 25 percent   *)
(* is exact.                                                               *)
(***************************************************************************)
EXTENDS Integers

CONSTANTS
    MaxAttempts,          \* config.MaxAttempts
    BaseDelay, MaxDelay,  \* config.BaseDelay, config.MaxDelay
    Half                  \* 2^63: a time.Duration is an int64

ASSUME AttemptsAssumption == MaxAttempts \in Nat \ {0}
ASSUME DelaysAssumption ==
    BaseDelay \in Nat \ {0} /\ MaxDelay \in Nat /\ BaseDelay <= MaxDelay

\* All callers take DefaultRetryConfig: three attempts, 100 milliseconds and 5
\* seconds.  Before the last attempt no delay comes near the width.
ASSUME WidthAssumption ==
    /\ Half \in Nat /\ 5 * MaxDelay < 4 * Half
    /\ \A n \in 1..(MaxAttempts - 1) : BaseDelay * 2 ^ (n - 1) < Half

VARIABLES
    kind,        \* "insert" or "repeatable"
    stage,       \* "call", "backoff", "done"
    attempt,
    cancelled,   \* ctx.Done
    delay,       \* what time.After was given, in quarters
    answer,      \* what WithRetry returns: "pending", "ok", "error"
    effects,     \* how often the effect has happened
    inflight,    \* attempts given up by the client, not by the server
    last         \* history: the error of the last attempt: "none", "retryable", "other"

RetryVars == <<kind, stage, attempt, cancelled, delay, answer, effects, inflight, last>>

\* Faulty variant: the jitter is only added.
JitterUp(d) == (4 * d)..(6 * d)

\* What an int64 keeps of an integer.
Signed(x) == ((x + Half) % (2 * Half)) - Half

\* exponentialBackoff, before and after the jitter, which comes after the cap.
Backoff(n) == LET d == Signed(BaseDelay * 2 ^ (n - 1))
              IN  IF d > MaxDelay THEN MaxDelay ELSE d
Jitter(d)  == (3 * d)..(5 * d)

RetryInit ==
    /\ kind \in {"insert", "repeatable"}
    /\ stage = "call" /\ attempt = 1 /\ cancelled = FALSE /\ delay = 0
    /\ answer = "pending" /\ effects = 0 /\ inflight = 0 /\ last = "none"

Return(a) ==
    /\ stage' = "done" /\ answer' = a
    /\ UNCHANGED <<attempt, delay>>

Sleep ==
    /\ stage' = "backoff"
    /\ delay' \in Jitter(Backoff(attempt))
    /\ UNCHANGED <<attempt, answer>>

\* Faulty variants: the last attempt is not made; the last error is forgotten
\* when the attempts are used up.
FailedEarly(e) ==
    /\ last' = e
    /\ IF e = "other" \/ attempt >= MaxAttempts - 1 THEN Return("error") ELSE Sleep
FailedForgets(e) ==
    /\ last' = e
    /\ IF e = "other" THEN Return("error")
       ELSE IF attempt = MaxAttempts THEN Return("ok") ELSE Sleep

\* What WithRetry does with the error of an attempt.
Failed(e) ==
    /\ last' = e
    /\ IF e = "other" \/ attempt = MaxAttempts THEN Return("error") ELSE Sleep

\* The statement runs: a second insert is refused, and so is one that waits for
\* a duplicate key; that error is not in RetryableErrs.
Refused == kind = "insert" /\ effects > 0
Effect  == effects' = IF effects = 0 THEN 1 ELSE effects

Attempt ==
    /\ stage = "call" /\ ~cancelled
    /\ \/ ~Refused /\ Effect /\ last' = "none" /\ Return("ok") /\ UNCHANGED inflight
       \/ Refused /\ Failed("other") /\ UNCHANGED <<effects, inflight>>
    /\ UNCHANGED <<kind, cancelled>>

\* The attempt fails on its way, with a retryable code or another error: not
\* applied, applied, or given up.
AttemptLost ==
    /\ stage = "call"
    /\ \E e \in {"retryable", "other"} : Failed(e) /\ (cancelled => e = "other")
    /\ \/ UNCHANGED <<effects, inflight>>
       \/ ~Refused /\ Effect /\ UNCHANGED inflight
       \/ inflight' = inflight + 1 /\ UNCHANGED effects
    /\ UNCHANGED <<kind, cancelled>>

\* The server comes to a statement nobody waits for any more.
AppliedLate ==
    /\ inflight > 0
    /\ inflight' = inflight - 1
    /\ Effect
    /\ UNCHANGED <<kind, stage, attempt, cancelled, delay, answer, last>>

\* The server drops it with the connection.
DroppedLate ==
    /\ inflight > 0
    /\ inflight' = inflight - 1
    /\ UNCHANGED <<kind, stage, attempt, cancelled, delay, answer, effects, last>>

\* Faulty variant: the timer starts the same attempt again.
WakeSame ==
    /\ stage = "backoff"
    /\ stage' = "call"
    /\ UNCHANGED <<kind, attempt, cancelled, delay, answer, effects, inflight, last>>

\* The timer fires.
Wake ==
    /\ stage = "backoff"
    /\ stage' = "call" /\ attempt' = attempt + 1
    /\ UNCHANGED <<kind, cancelled, delay, answer, effects, inflight, last>>

\* ctx.Done in the select.
GiveUp ==
    /\ stage = "backoff" /\ cancelled
    /\ Return("error")
    /\ UNCHANGED <<kind, cancelled, effects, inflight, last>>

Cancel ==
    /\ ~cancelled /\ answer = "pending"
    /\ cancelled' = TRUE
    /\ UNCHANGED <<kind, stage, attempt, delay, answer, effects, inflight, last>>

WithRetry == Attempt \/ AttemptLost \/ Wake \/ GiveUp

RetryNext == WithRetry \/ AppliedLate \/ DroppedLate \/ Cancel

RetrySpec == RetryInit /\ [][RetryNext]_RetryVars

\* Calls to the database return and timers fire.
RetryFairSpec == RetrySpec /\ WF_RetryVars(WithRetry)

-----------------------------------------------------------------------------

RetryTypeOK ==
    /\ kind \in {"insert", "repeatable"}
    /\ stage \in {"call", "backoff", "done"}
    /\ attempt \in 1..MaxAttempts
    /\ cancelled \in BOOLEAN
    /\ delay \in Int
    /\ answer \in {"pending", "ok", "error"} /\ (stage = "done" <=> answer # "pending")
    /\ effects \in 0..1 /\ inflight \in Nat
    /\ last \in {"none", "retryable", "other"}

Promise == INSTANCE Statement WITH applied <- effects > 0

\* Through lost answers, repeated attempts and statements applied behind the
\* caller's back, WithRetry keeps the promise of Statement.
KeepsPromise == Promise!Spec

\* Every call returns.
Returns == <>(answer # "pending")

\* A transient failure is not reported to a caller that still waits while
\* there are attempts left.
TransientRetried ==
    (answer = "error" /\ last = "retryable" /\ ~cancelled) => attempt = MaxAttempts

\* With the jitter a delay exceeds MaxDelay, but by no more than a quarter, and
\* no retry comes sooner than three quarters of BaseDelay.
DelayBounded ==
    /\ delay <= 5 * MaxDelay
    /\ stage = "backoff" => delay >= 3 * BaseDelay
=============================================================================
