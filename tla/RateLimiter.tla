---------------------------- MODULE RateLimiter ----------------------------
(***************************************************************************)
(* The sliding log that throttles sign-ins: one key of it, and the         *)
(* requests that share the key.  A request asks for budget, verifies a     *)
(* password, and then reports a failure or a success; the lock of the      *)
(* limiter covers each of these calls and not what lies between them, so   *)
(* requests overlap.  Time is counted in half seconds, the delay told to a *)
(* refused caller in whole ones.  Keys share nothing, and the collection   *)
(* of keys whose failures have all aged out changes no answer: one key     *)
(* stands for all.                                                         *)
(***************************************************************************)
EXTENDS Integers, Sequences, FiniteSets

CONSTANTS
    Callers,      \* requests that may be in flight together
    MaxAttempts,  \* max_attempts
    Window,       \* window_seconds, in half seconds
    MaxTime       \* bound on the clock

VARIABLES
    now,
    hits,         \* the deque of the key
    calls,        \* requests between check and their verdict
    promise       \* the last refusal: until when, or none

\* What the constructor refuses to go without, and finitely many requests.
Configured ==
    /\ MaxAttempts \in Nat \ {0}
    /\ Window \in Nat \ {0}
    /\ IsFiniteSet(Callers)
    /\ MaxTime \in Nat

vars == <<now, hits, calls, promise>>

NoPromise == 0

Init ==
    /\ now = 0
    /\ hits = <<>>
    /\ calls = {}
    /\ promise = NoPromise

\* Timestamps go from the left for as long as they have aged out of the window.
Aged(log) == {i \in DOMAIN log : \A j \in 1 .. i : log[j] <= now - Window}
Prune(log) == SubSeq(log, Cardinality(Aged(log)) + 1, Len(log))

\* Whole seconds, rounded up to the next and never none.
RetryAfter(log) ==
    LET left == Head(log) + Window - now
    IN  IF left \div 2 + 1 < 1 THEN 1 ELSE left \div 2 + 1

AdmittedLate(log) == Len(log) <= MaxAttempts
Admitted(log) == Len(log) < MaxAttempts

\* What a refused caller may rely on: the delay counts the oldest failure
\* only, so it means nothing once requests that overlapped have overdrawn the
\* budget.
Promised(log) == IF Len(log) = MaxAttempts THEN now + 2 * RetryAfter(log) ELSE NoPromise

Check(c) ==
    /\ c \notin calls
    /\ hits' = Prune(hits)
    /\ \/ Admitted(Prune(hits)) /\ calls' = calls \cup {c} /\ UNCHANGED promise
       \/ ~Admitted(Prune(hits)) /\ promise' = Promised(Prune(hits)) /\ UNCHANGED calls
    /\ UNCHANGED now

\* A later failure of somebody else takes the promise back.
RecordFailure(c) ==
    /\ c \in calls
    /\ hits' = Append(Prune(hits), now)
    /\ calls' = calls \ {c}
    /\ promise' = NoPromise
    /\ UNCHANGED now

Reset(c) ==
    /\ c \in calls
    /\ hits' = <<>>
    /\ calls' = calls \ {c}
    /\ promise' = NoPromise
    /\ UNCHANGED now

Tick == now < MaxTime /\ now' = now + 1 /\ UNCHANGED <<hits, calls, promise>>

Next == Tick \/ \E c \in Callers : Check(c) \/ RecordFailure(c) \/ Reset(c)

Spec == Init /\ [][Next]_vars

TypeOK ==
    /\ now \in 0 .. MaxTime
    /\ \A i \in 1 .. Len(hits) : hits[i] \in 0 .. now
    /\ calls \subseteq Callers
    /\ promise \in 0 .. MaxTime + Window + 2

\* However the requests overlap, the failures of a window since the last
\* success are fewer than the budget, plus those in flight when it ran out,
\* and a caller who waits as long as it was told is let in.
BudgetHolds ==
    LET live == Cardinality({i \in DOMAIN hits : hits[i] > now - Window})
    IN  /\ live < MaxAttempts + Cardinality(Callers \ calls)
        /\ promise # NoPromise /\ now >= promise => Admitted(Prune(hits))

(***************************************************************************)
(* Why the budget holds                                                    *)
(***************************************************************************)

\* Every failure in the log was let in by a check that found room, or was in
\* flight when the room ran out.
FailuresWereLetIn ==
    /\ hits \in Seq(Nat)
    /\ Len(hits) < MaxAttempts + Cardinality(Callers \ calls)

\* A caller that was told to wait was told to wait for the oldest failure to
\* age out, or there is room already.
WaitCoversTheOldest ==
    promise # NoPromise =>
        /\ Len(hits) <= MaxAttempts
        /\ Len(hits) = MaxAttempts => hits[1] + Window < promise

=============================================================================
