----------------------------- MODULE FlowControl -----------------------------
(***************************************************************************)
(* Calls of the Wildberries API: APIClient.Execute with its attempts and    *)
(* back-off, and the limiter of one cabinet and bucket that every attempt   *)
(* passes (core/transport/wb/client, core/transport/wb/flowcontrol).        *)
(*                                                                          *)
(* Time is counted in ticks and kept relative: every timer holds the ticks  *)
(* that remain.  Goroutines are prompt, so a tick waits for every step that *)
(* is due.  The token bucket of golang.org/x/time/rate is external: credit  *)
(* counts ticks, Interval of them are a token, and a reservation may take   *)
(* it below zero.                                                           *)
(***************************************************************************)
EXTENDS Integers, FiniteSets

CONSTANTS
    Callers,        \* goroutines that call Execute
    Interval,       \* BucketSpec.Interval, in ticks
    Burst,          \* BucketSpec.Burst
    MaxWaiters,     \* BucketSpec.MaxWaiters
    Operations,     \* kinds of operations called, a subset of {"read", "write"}
    ReadAttempts,   \* policy.DefaultMaxReadAttempts
    Timeout,        \* httpClient.Timeout, in ticks
    BaseDelay,      \* Backoff.baseDelay, in ticks
    Statuses,       \* statuses Wildberries answers with
    Retries,        \* values of a retry header: ticks, Absent or Malformed
    Remainings,     \* values of X-Ratelimit-Remaining: tokens or Absent
    Absent, Malformed, \* a header that is missing or cannot be parsed
    Cancels         \* whether callers are cancelled from outside

ASSUME ConstantsAssumption ==
    /\ {Interval, Burst, MaxWaiters, ReadAttempts, Timeout, BaseDelay} \subseteq Nat \ {0}
    /\ Operations \subseteq {"read", "write"}
    /\ Statuses \subseteq {"success", "limited", "unavailable", "refused", "broken"}
    /\ Retries \subseteq Nat \cup {Absent, Malformed}
    /\ Remainings \subseteq Nat \cup {Absent}
    /\ Cancels \in BOOLEAN

VARIABLES
    credit,     \* the token bucket, in ticks
    block,      \* blockedUntil: ticks left, 0 when it is past, -1 when it is zero
    waiters,    \* tokens in Limiter.waiters
    admission,  \* Limiter.admission holds its token
    call,       \* the Execute of each caller
    budget      \* reference: what a bucket of Burst tokens would still allow, up
                \* to the first 429

vars == <<credit, block, waiters, admission, call, budget>>

Full  == Burst * Interval
Clear == -1
Uncounted == Full + 1

Least(a, b)   == IF a < b THEN a ELSE b
Largest(a, b) == IF a > b THEN a ELSE b

Deliveries == {"not_dispatched", "response_received", "unknown_delivery"}

\* step; the operation; the attempt; ticks until the execution's and the
\* attempt's deadline and until the timer the step waits for; the result of the
\* last attempt; how many requests went on the wire, and whether the call was cancelled.
NoCall == [step |-> "idle", op |-> "read", attempt |-> 0, deadline |-> 0, attemptDeadline |-> 0,
           wake |-> 0, delivery |-> "not_dispatched", retryable |-> FALSE, retryAfter |-> 0,
           sent |-> 0, cancelled |-> FALSE]

Init ==
    /\ credit = Full /\ block = Clear
    /\ waiters = 0 /\ admission = TRUE
    /\ call = [c \in Callers |-> NoCall]
    /\ budget = Full

Set(c, next) == call' = [call EXCEPT ![c] = next]
At(c, s) == [call[c] EXCEPT !.step = s]

Expired(c) == call[c].deadline = 0 \/ call[c].cancelled

-----------------------------------------------------------------------------
(* The limiter. *)

\* Ceil of the tokens above what may remain, in ticks and at most the burst.
Surplus(remaining) ==
    LET ticks == credit - Least(remaining, Burst) * Interval
    IN  Least(((ticks + Interval - 1) \div Interval) * Interval, Full)

\* clampRemainingLocked
Clamped(remaining) ==
    IF credit <= Least(remaining, Burst) * Interval THEN credit ELSE credit - Surplus(remaining)

\* blockDelayLocked(now, remaining): a block that is over is forgotten, and the
\* bucket is cut to what may follow it.
Blocked == block > 0

AfterBlock(remaining) == IF block = 0 THEN Clamped(remaining) ELSE credit

ForgetBlock == IF block = 0 THEN Clear ELSE block

\* What Execute does with the result of an attempt or of a wait that failed.
Finish(c, delivery) ==
    Set(c, [call[c] EXCEPT !.step = "done", !.delivery = delivery])

\* Wait failed: NotDispatched for the first attempt, later the delivery of the
\* attempt before it (retryInterruptedResult).
WaitFailed(c) ==
    Finish(c, IF call[c].attempt > 1 THEN call[c].delivery ELSE "not_dispatched")

\* Wait succeeded: the attempt gets its share of the time that is left, and
\* never more than the timeout of the HTTP client.
Share(c, limit) == call[c].deadline \div (limit - call[c].attempt + 1)

MayRetry(op) == op = "read"

AttemptLimit(op) == IF MayRetry(op) THEN ReadAttempts ELSE 1

Granted(c) ==
    /\ budget' = IF budget = Uncounted THEN budget ELSE budget - Interval
    /\ Set(c, [call[c] EXCEPT !.step = "send", !.wake = 0,
                              !.attemptDeadline = Least(Timeout, Share(c, AttemptLimit(call[c].op)))])

\* Mutant: part of a token is enough.
AnyToken(now) == now > 0

WholeToken(now) == now >= Interval

\* tryAllowNow
TryAllow(c) ==
    LET now == AfterBlock(1)
    IN  /\ call[c].step = "allow"
        /\ \/ /\ Expired(c)
              /\ WaitFailed(c)
              /\ UNCHANGED <<credit, block, budget>>
           \/ /\ ~Expired(c) /\ Blocked
              /\ Set(c, At(c, "queue"))
              /\ UNCHANGED <<credit, block, budget>>
           \/ /\ ~Expired(c) /\ ~Blocked
              /\ block' = ForgetBlock
              /\ \/ /\ WholeToken(now)
                    /\ credit' = now - Interval
                    /\ Granted(c)
                 \/ /\ ~WholeToken(now)
                    /\ credit' = now
                    /\ Set(c, At(c, "queue"))
                    /\ UNCHANGED budget
        /\ UNCHANGED <<waiters, admission>>

PlaceFree == waiters < MaxWaiters

\* acquireWaiter: a place in the queue, or at once an error.
AcquireWaiter(c) ==
    /\ call[c].step = "queue"
    /\ \/ /\ PlaceFree
          /\ waiters' = waiters + 1
          /\ Set(c, At(c, "admission"))
       \/ /\ ~PlaceFree \/ Expired(c)
          /\ WaitFailed(c)
          /\ UNCHANGED waiters
    /\ UNCHANGED <<credit, block, admission, budget>>

AcquireAdmission(c) ==
    /\ call[c].step = "admission"
    /\ \/ /\ admission
          /\ admission' = FALSE
          /\ Set(c, At(c, "reserve"))
          /\ UNCHANGED waiters
       \/ /\ Expired(c)
          /\ WaitFailed(c)
          /\ waiters' = waiters - 1
          /\ UNCHANGED admission
    /\ UNCHANGED <<credit, block, budget>>

\* The deferred releaseAdmission and releaseWaiter.
Release == admission' = TRUE /\ waiters' = waiters - 1

\* reserveToken: wait out a block, or take a token of the present or the future.
ReserveToken(c) ==
    LET now == AfterBlock(1)
    IN  /\ call[c].step = "reserve"
        /\ \/ /\ Expired(c)
              /\ WaitFailed(c) /\ Release
              /\ UNCHANGED <<credit, block>>
           \/ /\ ~Expired(c) /\ Blocked
              /\ Set(c, [At(c, "blocked") EXCEPT !.wake = block])
              /\ UNCHANGED <<credit, block, admission, waiters>>
           \/ /\ ~Expired(c) /\ ~Blocked
              /\ block' = ForgetBlock
              /\ credit' = now - Interval
              /\ Set(c, [At(c, "reserved") EXCEPT !.wake = Largest(Interval - now, 0)])
              /\ UNCHANGED <<admission, waiters>>
        /\ UNCHANGED budget

BlockEnds(c) ==
    /\ call[c].step = "blocked"
    /\ \/ /\ call[c].wake = 0
          /\ Set(c, At(c, "reserve"))
          /\ UNCHANGED <<waiters, admission>>
       \/ /\ Expired(c)
          /\ WaitFailed(c) /\ Release
    /\ UNCHANGED <<credit, block, budget>>

\* Mutant: a cancelled waiter keeps its reservation.
KeepReservation == UNCHANGED credit

\* Reservation.CancelAt: the token goes back.
CancelReservation == credit' = Least(credit + Interval, Full)

\* waitReservation
ReservationDue(c) ==
    /\ call[c].step = "reserved"
    /\ \/ /\ call[c].wake = 0
          /\ Set(c, At(c, "server"))
          /\ UNCHANGED <<credit, waiters, admission>>
       \/ /\ call[c].wake > 0 /\ Expired(c)
          /\ CancelReservation
          /\ WaitFailed(c) /\ Release
    /\ UNCHANGED <<block, budget>>

\* Mutant: a reservation that is due is sent whatever the server said meanwhile.
NoServerBlock == FALSE

ServerBlock == Blocked

\* waitForServerBlock: a 429 may have come while the reservation was waited for.
WaitForServerBlock(c) ==
    /\ call[c].step = "server"
    /\ \/ /\ Expired(c)
          /\ WaitFailed(c) /\ Release
          /\ UNCHANGED <<credit, block, budget>>
       \/ /\ ~Expired(c) /\ ~ServerBlock
          /\ credit' = AfterBlock(0)
          /\ block' = ForgetBlock
          /\ Granted(c) /\ Release

-----------------------------------------------------------------------------
(* Observing an answer. *)

\* parseRetryAfterHeaders: the longer of X-Ratelimit-Retry and Retry-After.
ParseRetryAfter(wb, standard) ==
    IF Malformed \in {wb, standard} THEN Malformed
    ELSE IF wb = Absent THEN standard
    ELSE IF standard = Absent THEN wb
    ELSE Largest(wb, standard)

\* observe: a 429 blocks for the time asked for, or for an interval, and never
\* shortens a block.
ExtendBlock(ticks) == block' = Largest(block, ticks)

Observe(status, retry, remaining) ==
    \/ /\ status = "limited"
       /\ ExtendBlock(IF retry \in {Absent, Malformed, 0} THEN Interval ELSE retry)
       /\ credit' = Clamped(0)
    \/ /\ status # "limited"
       /\ credit' = IF retry = Malformed \/ remaining = Absent THEN credit ELSE Clamped(remaining)
       /\ UNCHANGED block

-----------------------------------------------------------------------------
(* Execute. *)

Start(c, op) ==
    /\ call[c].step \in {"idle", "done"}
    /\ Set(c, [NoCall EXCEPT !.step = "allow", !.op = op, !.attempt = 1,
                             !.deadline = Timeout * AttemptLimit(op)])
    /\ UNCHANGED <<credit, block, waiters, admission, budget>>

\* The caller's own context ends.
Cancel(c) ==
    /\ Cancels
    /\ call[c].step \notin {"idle", "done"} /\ ~call[c].cancelled
    /\ Set(c, [call[c] EXCEPT !.cancelled = TRUE])
    /\ UNCHANGED <<credit, block, waiters, admission, budget>>

AttemptExpired(c) == call[c].attemptDeadline = 0 \/ Expired(c)

\* shouldRetry, then the back-off; otherwise the result is final.
EndAttempt(c, delivery, retryable, retryAfter) ==
    LET a == call[c].attempt
        again == /\ ~Expired(c) /\ retryable
                 /\ a < AttemptLimit(call[c].op) /\ MayRetry(call[c].op)
        delay == Largest(BaseDelay * 2 ^ (a - 1), retryAfter)
    IN  IF again
        THEN Set(c, [call[c] EXCEPT !.step = "backoff", !.wake = delay, !.delivery = delivery])
        ELSE Finish(c, delivery)

\* The request goes on the wire; WroteRequest is called when all of it is written.
BeginWrite(c) ==
    /\ call[c].step = "send" /\ ~AttemptExpired(c)
    /\ Set(c, [At(c, "writing") EXCEPT !.sent = @ + 1])
    /\ UNCHANGED <<credit, block, waiters, admission, budget>>

WroteRequest(c) ==
    /\ call[c].step = "writing"
    /\ Set(c, At(c, "written"))
    /\ UNCHANGED <<credit, block, waiters, admission, budget>>

\* transportErrorResult: nothing was written when the request was not traced.
DeliveryWithoutResponse(c) ==
    IF call[c].step = "written" THEN "unknown_delivery" ELSE "not_dispatched"

\* httpClient.Do fails without an answer: the connection breaks or is refused,
\* or the context ends, which the transport reports without waiting for the
\* goroutine that writes.  A deadline is worth another attempt, a cancellation not.
TransportError(c) ==
    /\ call[c].step \in {"send", "writing", "written"}
    /\ \/ /\ AttemptExpired(c)
          /\ EndAttempt(c, DeliveryWithoutResponse(c), ~call[c].cancelled, 0)
       \/ /\ call[c].step \in {"send", "written"}
          /\ \E retryable \in BOOLEAN : EndAttempt(c, DeliveryWithoutResponse(c), retryable, 0)
    /\ UNCHANGED <<credit, block, waiters, admission, budget>>

\* responseResult: the headers are observed before the body is read; "broken"
\* is a body cut off on its way, "refused" every status not worth a retry.
Answer(c, status, wb, standard, remaining) ==
    LET retry == ParseRetryAfter(wb, standard)
        after == IF retry \in {Absent, Malformed} THEN 0 ELSE retry
    IN  /\ call[c].step = "written" /\ ~AttemptExpired(c)
        /\ Observe(status, retry, remaining)
        /\ EndAttempt(c, "response_received", status \in {"limited", "unavailable", "broken"}, after)
        /\ budget' = IF status = "limited" THEN Uncounted ELSE budget
        /\ UNCHANGED <<waiters, admission>>

\* Backoff.Wait, then the next attempt.
BackoffEnds(c) ==
    /\ call[c].step = "backoff"
    /\ \/ /\ call[c].wake = 0 /\ ~Expired(c)
          /\ Set(c, [At(c, "allow") EXCEPT !.attempt = @ + 1])
       \/ /\ Expired(c)
          /\ Finish(c, call[c].delivery)
    /\ UNCHANGED <<credit, block, waiters, admission, budget>>

-----------------------------------------------------------------------------
\* Nobody has a step to take now: time may pass.
Waits(c) ==
    \/ call[c].step \in {"idle", "done"}
    \/ /\ ~Expired(c)
       /\ \/ call[c].step = "admission" /\ ~admission
          \/ call[c].step \in {"blocked", "reserved", "backoff"} /\ call[c].wake > 0
          \/ call[c].step = "server" /\ ServerBlock
          \/ call[c].step \in {"send", "writing", "written"} /\ ~AttemptExpired(c)

Down(n) == IF n > 0 THEN n - 1 ELSE n

Tick ==
    /\ \A c \in Callers : Waits(c)
    /\ credit' = Least(credit + 1, Full)
    /\ budget' = IF budget = Uncounted THEN budget ELSE Least(budget + 1, Full)
    /\ block' = Down(block)
    /\ call' = [c \in Callers |->
                  [call[c] EXCEPT !.deadline = Down(@), !.attemptDeadline = Down(@), !.wake = Down(@)]]
    /\ UNCHANGED <<waiters, admission>>

CallerStep(c) ==
    \/ TryAllow(c) \/ AcquireWaiter(c) \/ AcquireAdmission(c) \/ ReserveToken(c)
    \/ BlockEnds(c) \/ ReservationDue(c) \/ WaitForServerBlock(c)
    \/ BeginWrite(c) \/ WroteRequest(c) \/ TransportError(c) \/ BackoffEnds(c)
    \/ \E status \in Statuses, wb, standard \in Retries, remaining \in Remainings :
         Answer(c, status, wb, standard, remaining)

Next ==
    \/ Tick
    \/ \E c \in Callers : CallerStep(c) \/ Cancel(c) \/ \E op \in Operations : Start(c, op)

Spec == Init /\ [][Next]_vars

-----------------------------------------------------------------------------
Queued   == {"admission", "reserve", "blocked", "reserved", "server"}
Admitted == Queued \ {"admission"}

\* Every variable has its type; the bucket holds at most Burst tokens.
TypeOK ==
    /\ credit \in -3 * Interval .. Full
    /\ block \in Int /\ block >= Clear
    /\ waiters \in 0..MaxWaiters /\ admission \in BOOLEAN
    /\ \A c \in Callers :
         /\ call[c].step \in Queued \cup {"idle", "allow", "queue", "send", "writing",
                                          "written", "backoff", "done"}
         /\ call[c].delivery \in Deliveries
         /\ call[c].attempt \in 0..ReadAttempts

\* However callers overtake, cancel and time out, the requests let through before
\* the first 429 stay within Burst plus one per Interval in every stretch of time:
\* a reference bucket that pays for each of them is never overdrawn (tryAllowNow
\* lets a newcomer pass callers that wait with a reservation).  At the end of a
\* block the bound is exceeded: a reservation older than the block goes together
\* with the newcomer that takes the token of the bucket cut to one.
RateIsRespected == budget >= 0

\* No request is let through while a block is running, also not one that had its
\* reservation before the 429 came (waitForServerBlock).
BlockIsRespected ==
    [][\A c \in Callers : call'[c].step = "send" /\ call[c].step # "send" => ~Blocked]_vars

\* Only time shortens a block: not an answer that asks for less, nor a caller
\* that finds it running (observe, blockDelayLocked).
BlockIsKept ==
    [][Tick \/ (block > 0 => block' >= block)]_vars

\* The debt of the bucket belongs to callers that wait for it: cancelled and
\* expired callers gave their reservations back (waitReservation), so nobody
\* waits for a request that will not be sent.
DebtIsHeld ==
    credit > -Interval * (1 + Cardinality({c \in Callers : call[c].step = "reserved"}))

\* The places in the queue and the admission are held by callers that are in the
\* limiter, whichever way the others left it.
SlotsAreReturned ==
    /\ waiters = Cardinality({c \in Callers : call[c].step \in Queued})
    /\ admission <=> \A c \in Callers : call[c].step \notin Admitted

\* A write goes on the wire at most once, whatever is answered and however the
\* limiter and the back-off delay it.
WritesAreSentOnce ==
    \A c \in Callers : call[c].op = "write" => call[c].sent <= 1

\* The limiter is sound: places, admission and reserved tokens are held by
\* callers that wait, and by no one who was cancelled or has gone on.
LimiterIsSound == TypeOK /\ SlotsAreReturned /\ DebtIsHeld

\* What goes on the wire is bounded: by the rate of the bucket, and for a write
\* by its one attempt.
RequestsAreBounded == RateIsRespected /\ WritesAreSentOnce

\* A block by the server holds until its time is over: no answer shortens it
\* and no caller passes it.
BlockHolds == BlockIsRespected /\ BlockIsKept

=============================================================================
