--------------------------- MODULE FlowControlProofs ---------------------------
(***************************************************************************)
(* Theorems about FlowControl, for any callers, bucket and limits: places,  *)
(* admission and reserved tokens are held by callers that wait for them,    *)
(* the rate is kept up to the first 429, a write goes out once, and a block *)
(* holds.                                                                   *)
(*                                                                          *)
(* The inductive invariant has one part for the record of each call, one    *)
(* for the queue, one for the bucket and one for the reference bucket; each *)
(* action has a lemma.                                                      *)
(***************************************************************************)
EXTENDS FlowControl, FiniteSetTheorems, TLAPS

Fields == {"step", "op", "attempt", "deadline", "attemptDeadline", "wake", "delivery",
           "retryable", "retryAfter", "sent", "cancelled"}

Steps == Queued \cup {"idle", "allow", "queue", "send", "writing", "written", "backoff", "done"}

\* What a call record says by itself.  A write has one attempt, which has put
\* nothing on the wire before it writes.
CallOk(r) ==
    /\ DOMAIN r = Fields
    /\ r.step \in Steps
    /\ r.op \in {"read", "write"}
    /\ r.attempt \in Nat /\ r.attempt <= ReadAttempts
    /\ r.step = "backoff" => r.op = "read" /\ r.attempt < ReadAttempts
    /\ r.delivery \in Deliveries
    /\ r.sent \in Nat
    /\ r.step = "reserved" => r.wake \in Nat
    /\ r.op = "write" => /\ r.sent <= 1
                         /\ r.step \notin {"writing", "written", "done"} => r.sent = 0

CallsOk ==
    /\ DOMAIN call = Callers
    /\ \A c \in Callers : CallOk(call[c])

InQueue == {c \in Callers : call[c].step \in Queued}

\* Places and admission; at most one caller is admitted.
SlotsOk ==
    /\ IsFiniteSet(InQueue)
    /\ waiters = Cardinality(InQueue)
    /\ waiters <= MaxWaiters
    /\ admission \in BOOLEAN
    /\ admission <=> \A c \in Callers : call[c].step \notin Admitted
    /\ \A c, d \in Callers : call[c].step \in Admitted /\ call[d].step \in Admitted => c = d

Reserving == \E c \in Callers : call[c].step = "reserved"

\* The debt of the bucket: less than one token, and one more for the caller that
\* has a reservation; when its wait is over it has been paid back.
BucketOk ==
    /\ credit \in Int /\ credit <= Full
    /\ block \in Int /\ block >= Clear
    /\ credit > -Interval - Interval
    /\ ~Reserving => credit > -Interval
    /\ \A c \in Callers : call[c].step = "reserved" => credit + call[c].wake > -Interval

Holding == \E c \in Callers : call[c].step \in {"reserved", "server"}

\* Up to the first 429 the reference bucket is ahead of the code's bucket by the
\* token of the caller that has reserved it and has not been let through.
BudgetOk ==
    \/ budget = Uncounted
    \/ /\ budget \in Nat /\ budget <= Full
       /\ block = Clear
       /\ credit <= budget
       /\ Holding => credit + Interval <= budget
       /\ \A c \in Callers :
            /\ call[c].step = "server" => Interval <= budget
            /\ call[c].step = "reserved" => /\ Interval <= budget + call[c].wake
                                            /\ call[c].wake > 0 => credit + call[c].wake <= 0

Inv == CallsOk /\ SlotsOk /\ BucketOk /\ BudgetOk

-----------------------------------------------------------------------------
(* Arithmetic. *)

LEMMA Numbers ==
    /\ Interval \in Nat /\ Interval > 0
    /\ MaxWaiters \in Nat /\ MaxWaiters > 0
    /\ ReadAttempts \in Nat /\ ReadAttempts > 0
    /\ Full \in Nat /\ Full >= Interval
    /\ Uncounted = Full + 1
    /\ Clear = -1
<1>1. /\ Interval \in Nat /\ Interval > 0
      /\ MaxWaiters \in Nat /\ MaxWaiters > 0
      /\ ReadAttempts \in Nat /\ ReadAttempts > 0
      /\ Burst \in Nat /\ Burst > 0
  BY ConstantsAssumption
<1>2. Burst * Interval \in Nat /\ Burst * Interval >= Interval
  <2>1. Burst * Interval \in Nat
    BY <1>1
  <2>2. (Burst - 1) * Interval \in Nat
    BY <1>1
  <2>3. Burst * Interval = (Burst - 1) * Interval + Interval
    BY <1>1
  <2> QED  BY <1>1, <2>1, <2>2, <2>3
<1> QED  BY <1>1, <1>2 DEF Full, Uncounted, Clear

\* Rounding up to whole tokens adds less than a token.
LEMMA RoundedUp ==
    ASSUME NEW n \in Int, n > 0
    PROVE  LET r == ((n + Interval - 1) \div Interval) * Interval
           IN  r \in Int /\ n <= r /\ r < n + Interval
<1> DEFINE m == n + Interval - 1
           q == m \div Interval
<1>1. Interval \in Int /\ Interval > 0 /\ m \in Int
  BY Numbers
<1>2. q \in Int /\ m = q * Interval + (m % Interval) /\ m % Interval \in 0..Interval - 1
  BY <1>1
<1>3. q * Interval \in Int
  BY <1>1, <1>2
<1> HIDE DEF q
<1> QED  BY <1>1, <1>2, <1>3 DEF q

\* Cutting the bucket takes tokens away, and leaves no debt that was not there.
LEMMA ClampedBounds ==
    ASSUME NEW remaining \in Nat, credit \in Int
    PROVE  /\ Clamped(remaining) \in Int
           /\ Clamped(remaining) <= credit
           /\ Clamped(remaining) = credit \/ Clamped(remaining) > -Interval
<1> DEFINE limit == Least(remaining, Burst) * Interval
           r == ((credit - limit + Interval - 1) \div Interval) * Interval
<1>1. limit \in Nat
  BY ConstantsAssumption, Numbers DEF Least
<1>2. CASE credit <= limit
  BY <1>1, <1>2 DEF Clamped
<1>3. CASE ~(credit <= limit)
  <2>1. r \in Int /\ credit - limit <= r /\ r < credit - limit + Interval
    BY <1>1, <1>3, RoundedUp
  <2>2. Clamped(remaining) = credit - Least(r, Full)
    BY <1>3 DEF Clamped, Surplus
  <2> HIDE DEF r, limit
  <2> QED  BY <1>1, <1>3, <2>1, <2>2, Numbers DEF Least
<1> QED  BY <1>2, <1>3
\* The bucket as it is after a block that is over.
LEMMA AfterBlockBounds ==
    ASSUME NEW remaining \in Nat, credit \in Int
    PROVE  /\ AfterBlock(remaining) \in Int
           /\ AfterBlock(remaining) <= credit
           /\ AfterBlock(remaining) = credit \/ AfterBlock(remaining) > -Interval
           /\ block = Clear => AfterBlock(remaining) = credit
BY ClampedBounds DEF AfterBlock, Clear

-----------------------------------------------------------------------------
(* Records and slots. *)

\* A step of one caller.
LEMMA NextCalls ==
    ASSUME CallsOk, NEW c \in Callers, NEW r, CallOk(r), Set(c, r)
    PROVE  /\ CallsOk'
           /\ call'[c] = r
           /\ \A d \in Callers : d # c => call'[d] = call[d]
BY DEF CallsOk, Set

\* Moving a call to another step; only "backoff" and "writing" ask for more.
LEMMA MovedOk ==
    ASSUME NEW r, CallOk(r), NEW s \in Steps \ {"backoff", "reserved"},
           r.op = "write" /\ r.step \in {"writing", "written", "done"}
               => s \in {"writing", "written", "done"}
    PROVE  CallOk([r EXCEPT !.step = s])
BY DEF CallOk, Fields

LEMMA DoneOk ==
    ASSUME NEW r, CallOk(r), NEW delivery \in Deliveries
    PROVE  CallOk([r EXCEPT !.step = "done", !.delivery = delivery])
BY DEF CallOk, Fields, Steps

LEMMA WaitFailedOk ==
    ASSUME CallsOk, NEW c \in Callers, WaitFailed(c)
    PROVE  /\ CallsOk'
           /\ call'[c].step = "done"
           /\ \A d \in Callers : d # c => call'[d] = call[d]
<1> DEFINE delivery == IF call[c].attempt > 1 THEN call[c].delivery ELSE "not_dispatched"
           r == [call[c] EXCEPT !.step = "done", !.delivery = delivery]
<1>1. CallOk(call[c]) /\ delivery \in Deliveries
  BY DEF CallsOk, CallOk, Deliveries
<1>2. CallOk(r) /\ r.step = "done"
  BY <1>1, DoneOk DEF CallOk, Fields
<1>3. Set(c, r)
  BY DEF WaitFailed, Finish
<1> HIDE DEF r
<1> QED  BY <1>2, <1>3, NextCalls

LEMMA GrantedOk ==
    ASSUME CallsOk, NEW c \in Callers, Granted(c),
           call[c].op = "write" => call[c].sent = 0
    PROVE  /\ CallsOk'
           /\ call'[c].step = "send"
           /\ \A d \in Callers : d # c => call'[d] = call[d]
<1> DEFINE deadline == Least(Timeout, Share(c, AttemptLimit(call[c].op)))
           r == [call[c] EXCEPT !.step = "send", !.wake = 0, !.attemptDeadline = deadline]
<1>1. CallOk(call[c])
  BY DEF CallsOk
<1>2. Set(c, r)
  BY DEF Granted
<1> HIDE DEF deadline
<1>3. CallOk(r) /\ r.step = "send"
  BY <1>1 DEF CallOk, Fields, Steps
<1> HIDE DEF r
<1> QED  BY <1>2, <1>3, NextCalls

\* A caller takes a place in the queue, or gives it back.
LEMMA PlaceTaken ==
    ASSUME IsFiniteSet(InQueue), waiters = Cardinality(InQueue), waiters < MaxWaiters,
           NEW c, c \notin InQueue, InQueue' = InQueue \cup {c}, waiters' = waiters + 1
    PROVE  /\ IsFiniteSet(InQueue)' /\ waiters' = Cardinality(InQueue)'
           /\ waiters' <= MaxWaiters
<1>1. waiters \in Nat
  BY FS_CardinalityType
<1> QED  BY <1>1, FS_AddElement, Numbers

LEMMA PlaceLeft ==
    ASSUME IsFiniteSet(InQueue), waiters = Cardinality(InQueue), waiters <= MaxWaiters,
           NEW c, c \in InQueue, InQueue' = InQueue \ {c}, waiters' = waiters - 1
    PROVE  /\ IsFiniteSet(InQueue)' /\ waiters' = Cardinality(InQueue)'
           /\ waiters' <= MaxWaiters
<1>1. waiters \in Nat
  BY FS_CardinalityType
<1> QED  BY <1>1, FS_RemoveElement, Numbers

\* A step that neither enters nor leaves the limiter.
LEMMA SlotsKept ==
    ASSUME SlotsOk, UNCHANGED <<waiters, admission>>,
           \A c \in Callers : /\ call'[c].step \in Queued <=> call[c].step \in Queued
                              /\ call'[c].step \in Admitted <=> call[c].step \in Admitted
    PROVE  SlotsOk'
<1>1. InQueue' = InQueue
  BY DEF InQueue
<1> QED  BY <1>1 DEF SlotsOk

\* An admitted caller leaves the limiter.
LEMMA SlotsReleased ==
    ASSUME SlotsOk, NEW c \in Callers, call[c].step \in Admitted, Release,
           call'[c].step \notin Queued,
           \A d \in Callers : d # c => call'[d] = call[d]
    PROVE  SlotsOk'
<1>1. InQueue' = InQueue \ {c} /\ c \in InQueue
  BY DEF InQueue, Admitted
<1>2. /\ IsFiniteSet(InQueue)' /\ waiters' = Cardinality(InQueue)'
      /\ waiters' <= MaxWaiters
  BY <1>1, PlaceLeft DEF SlotsOk, Release
<1>3. \A d \in Callers : call'[d].step \notin Admitted
  BY DEF SlotsOk, Admitted
<1> QED  BY <1>2, <1>3 DEF SlotsOk, Release

\* A step of a caller that is not in the limiter, or stays where it is in it.
LEMMA OutsideLimiter ==
    ASSUME Inv, NEW c \in Callers, NEW r, CallOk(r), Set(c, r),
           UNCHANGED <<credit, block, waiters, admission, budget>>,
           \/ r.step = call[c].step /\ r.wake = call[c].wake
           \/ r.step \notin Queued /\ call[c].step \notin Queued
    PROVE  Inv'
<1>1. CallsOk' /\ call'[c] = r /\ \A d \in Callers : d # c => call'[d] = call[d]
  BY NextCalls DEF Inv
<1>2. SlotsOk'
  <2>1. \A d \in Callers : /\ call'[d].step \in Queued <=> call[d].step \in Queued
                           /\ call'[d].step \in Admitted <=> call[d].step \in Admitted
    BY <1>1 DEF Admitted
  <2> QED  BY <2>1, SlotsKept DEF Inv
<1>3. \A d \in Callers : \A s \in {"reserved", "server"} :
          /\ call'[d].step = s <=> call[d].step = s
          /\ call[d].step = s => call'[d].wake = call[d].wake
  BY <1>1 DEF Queued
<1>4. (Reserving' <=> Reserving) /\ (Holding' <=> Holding)
  BY <1>3 DEF Reserving, Holding
<1>5. BucketOk'
  BY <1>3, <1>4 DEF Inv, BucketOk
<1>6. BudgetOk'
  BY <1>3, <1>4 DEF Inv, BudgetOk
<1> QED  BY <1>1, <1>2, <1>5, <1>6 DEF Inv
\* The bucket is cut by a block that is over, or by what an answer says.
LEMMA BucketCut ==
    ASSUME Inv, NEW c \in Callers, CallsOk',
           call[c].step \notin Queued, call'[c].step \notin Queued,
           \A d \in Callers : d # c => call'[d] = call[d],
           UNCHANGED <<waiters, admission>>,
           credit' \in Int, credit' <= credit, credit' = credit \/ credit' > -Interval,
           block' \in Int, block' >= Clear,
           budget' = Uncounted \/ (budget' = budget /\ (block = Clear => block' = Clear))
    PROVE  Inv'
<1>1. SlotsOk'
  BY SlotsKept DEF Inv, Queued, Admitted
<1>2. \A d \in Callers : \A t \in {"reserved", "server"} :
          /\ call'[d].step = t <=> call[d].step = t
          /\ call[d].step = t => call'[d] = call[d]
  BY DEF Queued
<1>3. (Reserving' <=> Reserving) /\ (Holding' <=> Holding)
  BY <1>2 DEF Reserving, Holding
<1>4. \A d \in Callers : call'[d].step = "reserved" => call[d].wake \in Nat /\ call'[d].wake = call[d].wake
  BY <1>2 DEF Inv, CallsOk, CallOk
<1>5. BucketOk'
  BY <1>2, <1>3, <1>4, Numbers DEF Inv, BucketOk
<1>6. BudgetOk'
  BY <1>2, <1>3, <1>4, Numbers DEF Inv, BucketOk, BudgetOk
<1> QED  BY <1>1, <1>5, <1>6 DEF Inv

-----------------------------------------------------------------------------
(* The limiter. *)

\* A wait fails before the queue, or in it.
LEMMA GivesUpOutside ==
    ASSUME Inv, NEW c \in Callers, WaitFailed(c), call[c].step \notin Queued,
           UNCHANGED <<credit, block, waiters, admission, budget>>
    PROVE  Inv'
<1>1. CallsOk' /\ call'[c].step = "done" /\ \A d \in Callers : d # c => call'[d] = call[d]
  BY WaitFailedOk DEF Inv
<1>2. CallOk(call'[c]) /\ Set(c, call'[c])
  <2>1. \E r : call' = [call EXCEPT ![c] = r]
    BY DEF WaitFailed, Finish, Set
  <2> QED  BY <1>1, <2>1 DEF CallsOk, Set, Inv
<1> QED  BY <1>1, <1>2, OutsideLimiter DEF Queued

LEMMA GivesUpInside ==
    ASSUME Inv, NEW c \in Callers, WaitFailed(c), Release,
           call[c].step \in {"reserve", "blocked", "server"},
           UNCHANGED <<credit, block, budget>>
    PROVE  Inv'
<1>1. CallsOk' /\ call'[c].step = "done" /\ \A d \in Callers : d # c => call'[d] = call[d]
  BY WaitFailedOk DEF Inv
<1>2. SlotsOk'
  BY <1>1, SlotsReleased DEF Inv, Queued, Admitted
<1>3. \A d \in Callers : \A t \in {"reserved", "server"} :
          call'[d].step = t => call'[d] = call[d]
  BY <1>1
<1>4. (Reserving' <=> Reserving) /\ (Holding' => Holding)
  BY <1>1, <1>3 DEF Reserving, Holding
<1>5. BucketOk'
  BY <1>3, <1>4 DEF Inv, BucketOk
<1>6. BudgetOk'
  BY <1>3, <1>4 DEF Inv, BudgetOk
<1> QED  BY <1>1, <1>2, <1>5, <1>6 DEF Inv

\* A caller that is let through with a token of the bucket leaves a bucket and
\* a reference bucket that still agree.
LEMMA TryAllowInv ==
    ASSUME Inv, NEW c \in Callers, TryAllow(c)
    PROVE  Inv'
<1> DEFINE now == AfterBlock(1)
<1>1. /\ call[c].step = "allow"
      /\ CallOk(call[c])
      /\ UNCHANGED <<waiters, admission>>
  BY DEF TryAllow, Inv, CallsOk
<1>2. CASE UNCHANGED <<credit, block, budget>> /\ WaitFailed(c)
  BY <1>1, <1>2, GivesUpOutside DEF Queued
<1>3. CASE UNCHANGED <<credit, block, budget>> /\ Set(c, At(c, "queue"))
  <2>1. CallOk(At(c, "queue")) /\ At(c, "queue").step = "queue"
    BY <1>1, MovedOk DEF At, Steps, CallOk, Fields
  <2> QED  BY <1>1, <1>3, <2>1, OutsideLimiter DEF Queued
<1>4. CASE ~Blocked /\ block' = ForgetBlock /\ WholeToken(now) /\ credit' = now - Interval /\ Granted(c)
  <2>1. CallsOk' /\ call'[c].step = "send" /\ \A d \in Callers : d # c => call'[d] = call[d]
    BY <1>1, <1>4, GrantedOk DEF Inv, CallOk
  <2>2. SlotsOk'
    BY <1>1, <2>1, SlotsKept DEF Inv, Queued, Admitted
  <2>3. /\ now \in Int /\ now >= Interval /\ now <= credit
        /\ block = Clear => now = credit
    BY <1>4, AfterBlockBounds DEF WholeToken, Inv, BucketOk
  <2>4. \A d \in Callers : \A t \in {"reserved", "server"} :
            call'[d].step = t <=> call[d].step = t /\ d # c
    BY <1>1, <2>1
  <2>5. (Reserving' <=> Reserving) /\ (Holding' <=> Holding)
    BY <1>1, <2>4 DEF Reserving, Holding
  <2>6. \A d \in Callers : call'[d].step = "reserved" => call'[d].wake = call[d].wake /\ call[d].wake \in Nat
    BY <2>1, <2>4 DEF Inv, CallsOk, CallOk
  <2>7. BucketOk'
    <3>1. block' \in Int /\ block' >= Clear
      BY <1>4, Numbers DEF ForgetBlock, Inv, BucketOk
    <3>2. credit' \in Int /\ credit' <= Full /\ credit' >= 0
      BY <1>4, <2>3, Numbers DEF Inv, BucketOk
    <3> QED  BY <2>4, <2>6, <3>1, <3>2, Numbers DEF BucketOk
  <2>8. BudgetOk'
    <3>1. CASE budget = Uncounted
      BY <1>4, <3>1 DEF Granted, BudgetOk, Uncounted, Full
    <3>2. CASE budget # Uncounted
      <4>1. /\ budget \in Nat /\ budget <= Full /\ block = Clear
            /\ credit <= budget /\ (Holding => credit + Interval <= budget)
        BY <3>2 DEF Inv, BudgetOk
      <4>2. /\ budget' = budget - Interval /\ block' = Clear /\ credit' = credit - Interval
            /\ credit >= Interval
        BY <1>4, <2>3, <3>2, <4>1, Numbers DEF Granted, ForgetBlock
      <4>3. \A d \in Callers :
              /\ call'[d].step = "server" => Interval <= budget'
              /\ call'[d].step = "reserved" => /\ Interval <= budget' + call'[d].wake
                                               /\ call'[d].wake > 0 => credit' + call'[d].wake <= 0
        <5>1. TAKE d \in Callers
        <5>2. call'[d].step \in {"reserved", "server"} => Holding
          BY <2>4 DEF Holding
        <5>3. call'[d].step = "reserved" => ~(call[d].wake > 0)
          BY <2>4, <2>6, <3>2, <4>2, Numbers DEF Inv, BudgetOk, BucketOk
        <5> QED  BY <2>6, <4>1, <4>2, <5>2, <5>3, Numbers DEF Inv, BucketOk
      <4> QED  BY <2>5, <4>1, <4>2, <4>3, Numbers DEF BudgetOk, Inv, BucketOk
    <3> QED  BY <3>1, <3>2
  <2> QED  BY <2>1, <2>2, <2>7, <2>8 DEF Inv
<1>5. CASE ~Blocked /\ block' = ForgetBlock /\ credit' = now /\ Set(c, At(c, "queue")) /\ UNCHANGED budget
  <2>1. CallOk(At(c, "queue")) /\ At(c, "queue").step = "queue"
    BY <1>1, MovedOk DEF At, Steps, CallOk, Fields
  <2>2. CallsOk' /\ call'[c].step = "queue" /\ \A d \in Callers : d # c => call'[d] = call[d]
    BY <1>5, <2>1, NextCalls DEF Inv
  <2>3. /\ now \in Int /\ now <= credit /\ (now = credit \/ now > -Interval)
        /\ block' \in Int /\ block' >= Clear /\ (block = Clear => block' = Clear)
    BY <1>5, AfterBlockBounds, Numbers DEF Inv, BucketOk, ForgetBlock
  <2> HIDE DEF now
  <2> QED  BY <1>1, <1>5, <2>2, <2>3, BucketCut DEF Queued
<1> QED  BY <1>2, <1>3, <1>4, <1>5 DEF TryAllow
LEMMA AcquireWaiterInv ==
    ASSUME Inv, NEW c \in Callers, AcquireWaiter(c)
    PROVE  Inv'
<1>1. /\ call[c].step = "queue" /\ CallOk(call[c])
      /\ UNCHANGED <<credit, block, admission, budget>>
  BY DEF AcquireWaiter, Inv, CallsOk
<1>2. CASE PlaceFree /\ waiters' = waiters + 1 /\ Set(c, At(c, "admission"))
  <2>1. CallOk(At(c, "admission")) /\ At(c, "admission").step = "admission"
    BY <1>1, MovedOk DEF At, Steps, CallOk, Fields, Queued
  <2>2. CallsOk' /\ call'[c].step = "admission" /\ \A d \in Callers : d # c => call'[d] = call[d]
    BY <1>2, <2>1, NextCalls DEF Inv
  <2>3. SlotsOk'
    <3>1. InQueue' = InQueue \cup {c} /\ c \notin InQueue
      BY <1>1, <2>2 DEF InQueue, Queued
    <3>2. /\ IsFiniteSet(InQueue)' /\ waiters' = Cardinality(InQueue)'
          /\ waiters' <= MaxWaiters
      BY <1>2, <3>1, PlaceTaken DEF Inv, SlotsOk, PlaceFree
    <3>3. \A d \in Callers : call'[d].step \in Admitted <=> call[d].step \in Admitted
      BY <1>1, <2>2 DEF Admitted, Queued
    <3> QED  BY <1>1, <3>2, <3>3 DEF Inv, SlotsOk
  <2>4. \A d \in Callers : \A t \in {"reserved", "server"} :
            /\ call'[d].step = t <=> call[d].step = t
            /\ call'[d].step = t => call'[d] = call[d]
    BY <1>1, <2>2
  <2>5. (Reserving' <=> Reserving) /\ (Holding' <=> Holding)
    BY <2>4 DEF Reserving, Holding
  <2>6. BucketOk'
    BY <1>1, <2>4, <2>5 DEF Inv, BucketOk
  <2>7. BudgetOk'
    BY <1>1, <2>4, <2>5 DEF Inv, BudgetOk
  <2> QED  BY <2>2, <2>3, <2>6, <2>7 DEF Inv
<1>3. CASE WaitFailed(c) /\ UNCHANGED waiters
  BY <1>1, <1>3, GivesUpOutside DEF Queued
<1> QED  BY <1>2, <1>3 DEF AcquireWaiter

LEMMA AcquireAdmissionInv ==
    ASSUME Inv, NEW c \in Callers, AcquireAdmission(c)
    PROVE  Inv'
<1>1. /\ call[c].step = "admission" /\ CallOk(call[c])
      /\ UNCHANGED <<credit, block, budget>>
  BY DEF AcquireAdmission, Inv, CallsOk
<1>2. ASSUME CallsOk', SlotsOk', call'[c].step \notin {"reserved", "server"},
             \A d \in Callers : d # c => call'[d] = call[d]
      PROVE  Inv'
  <2>1. \A d \in Callers : \A t \in {"reserved", "server"} :
            /\ call'[d].step = t <=> call[d].step = t
            /\ call'[d].step = t => call'[d] = call[d]
    BY <1>1, <1>2
  <2>2. (Reserving' <=> Reserving) /\ (Holding' <=> Holding)
    BY <2>1 DEF Reserving, Holding
  <2>3. BucketOk'
    BY <1>1, <2>1, <2>2 DEF Inv, BucketOk
  <2>4. BudgetOk'
    BY <1>1, <2>1, <2>2 DEF Inv, BudgetOk
  <2> QED  BY <1>2, <2>3, <2>4 DEF Inv
<1>3. CASE admission /\ admission' = FALSE /\ Set(c, At(c, "reserve")) /\ UNCHANGED waiters
  <2>1. CallOk(At(c, "reserve")) /\ At(c, "reserve").step = "reserve"
    BY <1>1, MovedOk DEF At, Steps, CallOk, Fields, Queued
  <2>2. CallsOk' /\ call'[c].step = "reserve" /\ \A d \in Callers : d # c => call'[d] = call[d]
    BY <1>3, <2>1, NextCalls DEF Inv
  <2>3. SlotsOk'
    <3>1. InQueue' = InQueue
      BY <1>1, <2>2 DEF InQueue, Queued
    <3>2. \A d \in Callers : call[d].step \notin Admitted
      BY <1>3 DEF Inv, SlotsOk
    <3>3. \A d \in Callers : call'[d].step \in Admitted <=> d = c
      BY <2>2, <3>2 DEF Admitted, Queued
    <3> QED  BY <1>3, <3>1, <3>3 DEF Inv, SlotsOk
  <2> QED  BY <1>2, <2>2, <2>3
<1>4. CASE WaitFailed(c) /\ waiters' = waiters - 1 /\ UNCHANGED admission
  <2>1. CallsOk' /\ call'[c].step = "done" /\ \A d \in Callers : d # c => call'[d] = call[d]
    BY <1>4, WaitFailedOk DEF Inv
  <2>2. SlotsOk'
    <3>1. InQueue' = InQueue \ {c} /\ c \in InQueue
      BY <1>1, <2>1 DEF InQueue, Queued
    <3>2. /\ IsFiniteSet(InQueue)' /\ waiters' = Cardinality(InQueue)'
          /\ waiters' <= MaxWaiters
      BY <1>4, <3>1, PlaceLeft DEF Inv, SlotsOk
    <3>3. \A d \in Callers : call'[d].step \in Admitted <=> call[d].step \in Admitted
      BY <1>1, <2>1 DEF Admitted, Queued
    <3> QED  BY <1>4, <3>2, <3>3 DEF Inv, SlotsOk
  <2> QED  BY <1>2, <2>1, <2>2
<1> QED  BY <1>3, <1>4 DEF AcquireAdmission
\* The admitted caller is the only one that can have a reservation.
LEMMA OnlyAdmitted ==
    ASSUME SlotsOk, NEW c \in Callers, call[c].step \in Admitted
    PROVE  /\ \A d \in Callers : d # c => call[d].step \notin Admitted
           /\ \A t \in {"reserved", "server"} :
                 (\E d \in Callers : call[d].step = t) <=> call[c].step = t
BY DEF SlotsOk, Admitted, Queued

LEMMA ReserveTokenInv ==
    ASSUME Inv, NEW c \in Callers, ReserveToken(c)
    PROVE  Inv'
<1> DEFINE now == AfterBlock(1)
<1>1. /\ call[c].step = "reserve" /\ CallOk(call[c])
      /\ budget' = budget
      /\ \A d \in Callers : d # c => call[d].step \notin Admitted
  BY OnlyAdmitted DEF ReserveToken, Inv, CallsOk, Admitted, Queued
<1>2. ~Reserving /\ ~Holding
  BY <1>1 DEF Reserving, Holding, Admitted, Queued
<1>3. CASE WaitFailed(c) /\ Release /\ UNCHANGED <<credit, block>>
  BY <1>1, <1>3, GivesUpInside
<1>4. CASE Blocked /\ Set(c, [At(c, "blocked") EXCEPT !.wake = block])
                   /\ UNCHANGED <<credit, block, admission, waiters>>
  <2> DEFINE r == [At(c, "blocked") EXCEPT !.wake = block]
  <2>1. CallOk(r) /\ r.step = "blocked"
    BY <1>1 DEF At, Steps, CallOk, Fields, Queued
  <2> HIDE DEF r
  <2>2. CallsOk' /\ call'[c].step = "blocked" /\ \A d \in Callers : d # c => call'[d] = call[d]
    BY <1>4, <2>1, NextCalls DEF Inv, r
  <2>3. SlotsOk'
    BY <1>1, <1>4, <2>2, SlotsKept DEF Inv, Queued, Admitted
  <2>4. \A d \in Callers : call'[d].step \notin {"reserved", "server"}
    BY <1>1, <2>2 DEF Admitted, Queued
  <2>5. BucketOk'
    BY <1>2, <1>4, <2>4 DEF Inv, BucketOk
  <2>6. BudgetOk'
    BY <1>1, <1>4, <2>4 DEF Inv, BudgetOk, Holding
  <2> QED  BY <2>2, <2>3, <2>5, <2>6 DEF Inv
<1>5. CASE ~Blocked /\ block' = ForgetBlock /\ credit' = now - Interval
           /\ Set(c, [At(c, "reserved") EXCEPT !.wake = Largest(Interval - now, 0)])
           /\ UNCHANGED <<admission, waiters>>
  <2> DEFINE wait == Largest(Interval - now, 0)
             r == [At(c, "reserved") EXCEPT !.wake = wait]
  <2>1. /\ now \in Int /\ now <= credit /\ now > -Interval
        /\ block = Clear => now = credit
    BY <1>2, AfterBlockBounds DEF Inv, BucketOk
  <2>2. wait \in Nat /\ now + wait >= Interval /\ (wait > 0 => now + wait = Interval)
    <3> HIDE DEF now
    <3> QED  BY <2>1, Numbers DEF Largest
  <2> HIDE DEF wait
  <2>3. CallOk(r) /\ r.step = "reserved" /\ r.wake = wait
    BY <1>1, <2>2 DEF At, Steps, CallOk, Fields, Queued
  <2>4. Set(c, r)
    BY <1>5 DEF wait
  <2> HIDE DEF r, now
  <2>5. /\ CallsOk' /\ call'[c].step = "reserved" /\ call'[c].wake = wait
        /\ \A d \in Callers : d # c => call'[d] = call[d]
    BY <2>3, <2>4, NextCalls DEF Inv
  <2>6. SlotsOk'
    BY <1>1, <1>5, <2>5, SlotsKept DEF Inv, Queued, Admitted
  <2>7. \A d \in Callers : d # c => call'[d].step \notin {"reserved", "server"}
    BY <1>1, <2>5 DEF Admitted, Queued
  <2>8. BucketOk'
    <3>1. block' \in Int /\ block' >= Clear
      BY <1>5, Numbers DEF ForgetBlock, Inv, BucketOk
    <3>2. credit' \in Int /\ credit' <= Full /\ credit' > -Interval - Interval /\ credit' + wait > -Interval
      BY <1>5, <2>1, <2>2, Numbers DEF Inv, BucketOk
    <3>3. Reserving'
      BY <2>5 DEF Reserving
    <3> QED  BY <2>5, <2>7, <3>1, <3>2, <3>3 DEF BucketOk
  <2>9. BudgetOk'
    <3>1. CASE budget = Uncounted
      BY <1>1, <3>1 DEF BudgetOk, Uncounted, Full
    <3>2. CASE budget # Uncounted
      <4>1. /\ budget \in Nat /\ budget <= Full /\ block = Clear /\ now = credit
            /\ credit \in Int /\ credit <= budget
        BY <2>1, <3>2 DEF Inv, BudgetOk, BucketOk
      <4>2. /\ budget' = budget /\ block' = Clear /\ credit' + Interval <= budget'
            /\ Interval <= budget' + wait /\ (wait > 0 => credit' + wait <= 0)
            /\ credit' <= budget'
        BY <1>1, <1>5, <2>1, <2>2, <4>1, Numbers DEF ForgetBlock
      <4> QED  BY <2>5, <2>7, <4>1, <4>2 DEF BudgetOk
    <3> QED  BY <3>1, <3>2
  <2> QED  BY <2>5, <2>6, <2>8, <2>9 DEF Inv
<1> QED  BY <1>3, <1>4, <1>5 DEF ReserveToken

LEMMA BlockEndsInv ==
    ASSUME Inv, NEW c \in Callers, BlockEnds(c)
    PROVE  Inv'
<1>1. /\ call[c].step = "blocked" /\ CallOk(call[c])
      /\ UNCHANGED <<credit, block, budget>>
  BY DEF BlockEnds, Inv, CallsOk
<1>2. CASE Set(c, At(c, "reserve")) /\ UNCHANGED <<waiters, admission>>
  <2>1. CallOk(At(c, "reserve")) /\ At(c, "reserve").step = "reserve"
    BY <1>1, MovedOk DEF At, Steps, CallOk, Fields, Queued
  <2>2. CallsOk' /\ call'[c].step = "reserve" /\ \A d \in Callers : d # c => call'[d] = call[d]
    BY <1>2, <2>1, NextCalls DEF Inv
  <2>3. SlotsOk'
    BY <1>1, <1>2, <2>2, SlotsKept DEF Inv, Queued, Admitted
  <2>4. \A d \in Callers : \A t \in {"reserved", "server"} :
            /\ call'[d].step = t <=> call[d].step = t
            /\ call'[d].step = t => call'[d] = call[d]
    BY <1>1, <2>2
  <2>5. (Reserving' <=> Reserving) /\ (Holding' <=> Holding)
    BY <2>4 DEF Reserving, Holding
  <2>6. BucketOk'
    BY <1>1, <2>4, <2>5 DEF Inv, BucketOk
  <2>7. BudgetOk'
    BY <1>1, <2>4, <2>5 DEF Inv, BudgetOk
  <2> QED  BY <2>2, <2>3, <2>6, <2>7 DEF Inv
<1>3. CASE WaitFailed(c) /\ Release
  BY <1>1, <1>3, GivesUpInside
<1> QED  BY <1>2, <1>3 DEF BlockEnds

LEMMA ReservationDueInv ==
    ASSUME Inv, NEW c \in Callers, ReservationDue(c)
    PROVE  Inv'
<1>1. /\ call[c].step = "reserved" /\ CallOk(call[c]) /\ call[c].wake \in Nat
      /\ UNCHANGED <<block, budget>>
      /\ \A d \in Callers : d # c => call[d].step \notin Admitted
  BY OnlyAdmitted DEF ReservationDue, Inv, CallsOk, CallOk, Admitted, Queued
<1>2. Reserving /\ Holding
  BY <1>1 DEF Reserving, Holding
<1>3. CASE call[c].wake = 0 /\ Set(c, At(c, "server")) /\ UNCHANGED <<credit, waiters, admission>>
  <2>1. CallOk(At(c, "server")) /\ At(c, "server").step = "server"
    BY <1>1, MovedOk DEF At, Steps, CallOk, Fields, Queued
  <2>2. CallsOk' /\ call'[c].step = "server" /\ \A d \in Callers : d # c => call'[d] = call[d]
    BY <1>3, <2>1, NextCalls DEF Inv
  <2>3. SlotsOk'
    BY <1>1, <1>3, <2>2, SlotsKept DEF Inv, Queued, Admitted
  <2>4. \A d \in Callers : d # c => call'[d].step \notin {"reserved", "server"}
    BY <1>1, <2>2 DEF Admitted, Queued
  <2>5. BucketOk'
    <3>1. credit > -Interval
      BY <1>1, <1>3 DEF Inv, BucketOk
    <3> QED  BY <1>1, <1>3, <2>2, <2>4, <3>1 DEF Inv, BucketOk
  <2>6. BudgetOk'
    <3>1. budget # Uncounted => Interval <= budget
      BY <1>1, <1>3 DEF Inv, BudgetOk
    <3> QED  BY <1>1, <1>2, <1>3, <2>2, <2>4, <3>1 DEF Inv, BudgetOk
  <2> QED  BY <2>2, <2>3, <2>5, <2>6 DEF Inv
<1>4. CASE call[c].wake > 0 /\ CancelReservation /\ WaitFailed(c) /\ Release
  <2>1. CallsOk' /\ call'[c].step = "done" /\ \A d \in Callers : d # c => call'[d] = call[d]
    BY <1>4, WaitFailedOk DEF Inv
  <2>2. SlotsOk'
    BY <1>1, <1>4, <2>1, SlotsReleased DEF Inv, Queued, Admitted
  <2>3. \A d \in Callers : call'[d].step \notin {"reserved", "server"}
    BY <1>1, <2>1 DEF Admitted, Queued
  <2>4. BucketOk'
    <3>1. credit' \in Int /\ credit' <= Full /\ credit' > -Interval
      BY <1>4, Numbers DEF CancelReservation, Least, Inv, BucketOk
    <3> QED  BY <1>1, <2>3, <3>1, Numbers DEF Inv, BucketOk
  <2>5. BudgetOk'
    <3>1. budget # Uncounted => credit' <= budget
      BY <1>2, <1>4, Numbers DEF CancelReservation, Least, Inv, BucketOk, BudgetOk
    <3>2. ~Holding'
      BY <2>3 DEF Holding
    <3> QED  BY <1>1, <2>3, <3>1, <3>2 DEF Inv, BudgetOk
  <2> QED  BY <2>1, <2>2, <2>4, <2>5 DEF Inv
<1> QED  BY <1>3, <1>4 DEF ReservationDue

LEMMA WaitForServerBlockInv ==
    ASSUME Inv, NEW c \in Callers, WaitForServerBlock(c)
    PROVE  Inv'
<1>1. /\ call[c].step = "server" /\ CallOk(call[c])
      /\ \A d \in Callers : d # c => call[d].step \notin Admitted
  BY OnlyAdmitted DEF WaitForServerBlock, Inv, CallsOk, Admitted, Queued
<1>2. CASE WaitFailed(c) /\ Release /\ UNCHANGED <<credit, block, budget>>
  BY <1>1, <1>2, GivesUpInside
<1>3. CASE credit' = AfterBlock(0) /\ block' = ForgetBlock /\ Granted(c) /\ Release
  <2>1. CallsOk' /\ call'[c].step = "send" /\ \A d \in Callers : d # c => call'[d] = call[d]
    BY <1>1, <1>3, GrantedOk DEF Inv, CallOk
  <2>2. SlotsOk'
    BY <1>1, <1>3, <2>1, SlotsReleased DEF Inv, Queued, Admitted
  <2>3. \A d \in Callers : call'[d].step \notin {"reserved", "server"}
    BY <1>1, <2>1 DEF Admitted, Queued
  <2>4. ~Reserving /\ Holding
    BY <1>1 DEF Reserving, Holding, Admitted, Queued
  <2>5. BucketOk'
    <3>1. credit' \in Int /\ credit' <= Full /\ credit' > -Interval
      BY <1>3, <2>4, AfterBlockBounds, Numbers DEF Inv, BucketOk
    <3>2. block' \in Int /\ block' >= Clear
      BY <1>3, Numbers DEF ForgetBlock, Inv, BucketOk
    <3> QED  BY <2>3, <3>1, <3>2, Numbers DEF BucketOk
  <2>6. BudgetOk'
    <3>1. CASE budget = Uncounted
      BY <1>3, <3>1 DEF Granted, BudgetOk, Uncounted, Full
    <3>2. CASE budget # Uncounted
      <4>1. /\ budget \in Nat /\ budget <= Full /\ block = Clear
            /\ credit + Interval <= budget /\ Interval <= budget
        BY <1>1, <2>4, <3>2 DEF Inv, BudgetOk
      <4>2. /\ budget' = budget - Interval /\ block' = Clear /\ credit' = credit
        BY <1>3, <3>2, <4>1, AfterBlockBounds, Numbers DEF Granted, ForgetBlock, Inv, BucketOk
      <4>3. ~Holding'
        BY <2>3 DEF Holding
      <4> QED  BY <2>3, <4>1, <4>2, <4>3, Numbers DEF BudgetOk, Inv, BucketOk
    <3> QED  BY <3>1, <3>2
  <2> QED  BY <2>1, <2>2, <2>5, <2>6 DEF Inv
<1> QED  BY <1>2, <1>3 DEF WaitForServerBlock

-----------------------------------------------------------------------------
(* Execute. *)

LEMMA StartInv ==
    ASSUME Inv, NEW c \in Callers, NEW op \in Operations, Start(c, op)
    PROVE  Inv'
<1> DEFINE r == [NoCall EXCEPT !.step = "allow", !.op = op, !.attempt = 1,
                               !.deadline = Timeout * AttemptLimit(op)]
<1>1. op \in {"read", "write"}
  BY ConstantsAssumption
<1>2. CallOk(r) /\ r.step = "allow"
  BY <1>1, Numbers DEF CallOk, Fields, Steps, NoCall, Deliveries
<1>3. /\ Set(c, r) /\ call[c].step \notin Queued
      /\ UNCHANGED <<credit, block, waiters, admission, budget>>
  BY DEF Start, Queued
<1> HIDE DEF r
<1> QED  BY <1>2, <1>3, OutsideLimiter DEF Queued

LEMMA CancelInv ==
    ASSUME Inv, NEW c \in Callers, Cancel(c)
    PROVE  Inv'
<1> DEFINE r == [call[c] EXCEPT !.cancelled = TRUE]
<1>1. CallOk(call[c])
  BY DEF Inv, CallsOk
<1>2. CallOk(r) /\ r.step = call[c].step /\ r.wake = call[c].wake
  BY <1>1 DEF CallOk, Fields
<1>3. Set(c, r) /\ UNCHANGED <<credit, block, waiters, admission, budget>>
  BY DEF Cancel
<1> HIDE DEF r
<1> QED  BY <1>2, <1>3, OutsideLimiter

LEMMA BeginWriteInv ==
    ASSUME Inv, NEW c \in Callers, BeginWrite(c)
    PROVE  Inv'
<1> DEFINE r == [At(c, "writing") EXCEPT !.sent = @ + 1]
<1>1. CallOk(call[c]) /\ call[c].step = "send"
  BY DEF Inv, CallsOk, BeginWrite
<1>2. CallOk(r) /\ r.step = "writing"
  BY <1>1 DEF CallOk, Fields, At, Steps
<1>3. Set(c, r) /\ UNCHANGED <<credit, block, waiters, admission, budget>>
  BY DEF BeginWrite
<1> HIDE DEF r
<1> QED  BY <1>1, <1>2, <1>3, OutsideLimiter DEF Queued

LEMMA WroteRequestInv ==
    ASSUME Inv, NEW c \in Callers, WroteRequest(c)
    PROVE  Inv'
<1>1. CallOk(call[c]) /\ call[c].step = "writing"
  BY DEF Inv, CallsOk, WroteRequest
<1>2. CallOk(At(c, "written")) /\ At(c, "written").step = "written"
  BY <1>1, MovedOk DEF CallOk, Fields, At, Steps
<1>3. Set(c, At(c, "written")) /\ UNCHANGED <<credit, block, waiters, admission, budget>>
  BY DEF WroteRequest
<1> QED  BY <1>1, <1>2, <1>3, OutsideLimiter DEF Queued

\* The end of an attempt: only a read with attempts left goes to the back-off.
LEMMA EndAttemptOk ==
    ASSUME CallsOk, NEW c \in Callers, NEW delivery \in Deliveries, NEW retryable, NEW retryAfter,
           EndAttempt(c, delivery, retryable, retryAfter)
    PROVE  \E r : CallOk(r) /\ Set(c, r) /\ r.step \in {"backoff", "done"}
<1> DEFINE delay == Largest(BaseDelay * 2 ^ (call[c].attempt - 1), retryAfter)
           b == [call[c] EXCEPT !.step = "backoff", !.wake = delay, !.delivery = delivery]
           f == [call[c] EXCEPT !.step = "done", !.delivery = delivery]
<1>1. CallOk(call[c])
  BY DEF CallsOk
<1>2. CallOk(f) /\ f.step = "done"
  BY <1>1, DoneOk DEF CallOk, Fields
<1>3. \/ Set(c, f)
      \/ Set(c, b) /\ MayRetry(call[c].op) /\ call[c].attempt < AttemptLimit(call[c].op)
  BY DEF EndAttempt, Finish
<1>4. CASE Set(c, b) /\ MayRetry(call[c].op) /\ call[c].attempt < AttemptLimit(call[c].op)
  <2>1. call[c].op = "read" /\ call[c].attempt < ReadAttempts
    BY <1>4 DEF MayRetry, AttemptLimit
  <2> HIDE DEF delay
  <2>2. CallOk(b) /\ b.step = "backoff"
    BY <1>1, <2>1 DEF CallOk, Fields, Steps
  <2> HIDE DEF b
  <2> QED  BY <1>4, <2>2
<1> HIDE DEF f, b
<1> QED  BY <1>2, <1>3, <1>4

LEMMA TransportErrorInv ==
    ASSUME Inv, NEW c \in Callers, TransportError(c)
    PROVE  Inv'
<1>1. DeliveryWithoutResponse(c) \in Deliveries
  BY DEF DeliveryWithoutResponse, Deliveries
<1>2. \E r : CallOk(r) /\ Set(c, r) /\ r.step \in {"backoff", "done"}
  BY <1>1, EndAttemptOk DEF TransportError, Inv
<1>3. /\ call[c].step \notin Queued
      /\ UNCHANGED <<credit, block, waiters, admission, budget>>
  BY DEF TransportError, Queued
<1> QED  BY <1>2, <1>3, OutsideLimiter DEF Queued

LEMMA BackoffEndsInv ==
    ASSUME Inv, NEW c \in Callers, BackoffEnds(c)
    PROVE  Inv'
<1> DEFINE r == [At(c, "allow") EXCEPT !.attempt = @ + 1]
           f == [call[c] EXCEPT !.step = "done", !.delivery = call[c].delivery]
<1>1. CallOk(call[c]) /\ call[c].step = "backoff"
  BY DEF Inv, CallsOk, BackoffEnds
<1>2. /\ Set(c, r) \/ Set(c, f)
      /\ UNCHANGED <<credit, block, waiters, admission, budget>>
  BY DEF BackoffEnds, Finish
<1>3. CallOk(r) /\ r.step = "allow"
  BY <1>1, Numbers DEF CallOk, Fields, At, Steps
<1>4. CallOk(f) /\ f.step = "done"
  BY <1>1, DoneOk DEF CallOk, Fields
<1> HIDE DEF r, f
<1> QED  BY <1>1, <1>2, <1>3, <1>4, OutsideLimiter DEF Queued

\* The longer of the two times a server may ask for.
LEMMA RetryIsTime ==
    ASSUME NEW wb \in Retries, NEW standard \in Retries
    PROVE  ParseRetryAfter(wb, standard) \in Nat \cup {Absent, Malformed}
BY ConstantsAssumption DEF ParseRetryAfter, Largest

\* An answer may cut the bucket and extend the block; a 429 ends the count of
\* the reference bucket.
LEMMA AnswerInv ==
    ASSUME Inv, NEW c \in Callers, NEW status \in Statuses, NEW wb \in Retries,
           NEW standard \in Retries, NEW remaining \in Remainings,
           Answer(c, status, wb, standard, remaining)
    PROVE  Inv'
<1> DEFINE retry == ParseRetryAfter(wb, standard)
           ticks == IF retry \in {Absent, Malformed, 0} THEN Interval ELSE retry
           after == IF retry \in {Absent, Malformed} THEN 0 ELSE retry
           retryable == status \in {"limited", "unavailable", "broken"}
<1>1. /\ call[c].step = "written"
      /\ Observe(status, retry, remaining)
      /\ EndAttempt(c, "response_received", retryable, after)
      /\ budget' = IF status = "limited" THEN Uncounted ELSE budget
      /\ UNCHANGED <<waiters, admission>>
  BY DEF Answer
<1>2. \E r : CallOk(r) /\ Set(c, r) /\ r.step \in {"backoff", "done"}
  <2>1. "response_received" \in Deliveries
    BY DEF Deliveries
  <2> HIDE DEF retryable, after
  <2> QED  BY <1>1, <2>1, EndAttemptOk DEF Inv
<1>3. /\ CallsOk' /\ call'[c].step \in {"backoff", "done"}
      /\ \A d \in Callers : d # c => call'[d] = call[d]
  BY <1>2, NextCalls DEF Inv
<1>4. retry \in Nat \cup {Absent, Malformed}
  BY RetryIsTime
<1>5. ticks \in Nat
  BY <1>4, Numbers
<1>6. remaining \in Nat \/ remaining = Absent
  BY ConstantsAssumption
<1>7. credit \in Int /\ block \in Int /\ block >= Clear
  BY DEF Inv, BucketOk
<1> HIDE DEF retry
<1>8. /\ credit' \in Int /\ credit' <= credit /\ (credit' = credit \/ credit' > -Interval)
      /\ block' \in Int /\ block' >= Clear
      /\ status # "limited" => block' = block
  <2>1. CASE status = "limited"
    <3>1. credit' = Clamped(0) /\ block' = Largest(block, ticks)
      BY <1>1, <2>1 DEF Observe, ExtendBlock
    <3> HIDE DEF ticks
    <3> QED  BY <1>5, <1>7, <2>1, <3>1, ClampedBounds, Numbers DEF Largest
  <2>2. CASE status # "limited"
    <3>1. block' = block
      BY <1>1, <2>2 DEF Observe
    <3>2. credit' = credit \/ (remaining # Absent /\ credit' = Clamped(remaining))
      BY <1>1, <2>2 DEF Observe
    <3> QED  BY <1>6, <1>7, <3>1, <3>2, ClampedBounds
  <2> QED  BY <2>1, <2>2
<1>9. budget' = Uncounted \/ (budget' = budget /\ (block = Clear => block' = Clear))
  BY <1>1, <1>8
<1> QED  BY <1>1, <1>3, <1>8, <1>9, BucketCut DEF Queued

\* Time passes for the bucket, the reservation and the reference bucket alike,
\* and nobody whose step is due is waited past.
LEMMA TickInv ==
    ASSUME Inv, Tick
    PROVE  Inv'
<1>1. \A c \in Callers :
        /\ CallOk(call[c])
        /\ CallOk(call'[c]) /\ call'[c].step = call[c].step /\ call'[c].wake = Down(call[c].wake)
  <2> SUFFICES ASSUME NEW c \in Callers
               PROVE  /\ CallOk(call[c])
                      /\ CallOk(call'[c]) /\ call'[c].step = call[c].step
                      /\ call'[c].wake = Down(call[c].wake)
    OBVIOUS
  <2> DEFINE r == [call[c] EXCEPT !.deadline = Down(@), !.attemptDeadline = Down(@), !.wake = Down(@)]
  <2>1. CallOk(call[c])
    BY DEF Inv, CallsOk
  <2>2. call'[c] = r
    BY DEF Tick
  <2>3. CallOk(r) /\ r.step = call[c].step /\ r.wake = Down(call[c].wake)
    BY <2>1 DEF CallOk, Fields, Down
  <2> QED  BY <2>1, <2>2, <2>3
<1>2. CallsOk'
  <2>1. DOMAIN call' = Callers
    BY DEF Tick
  <2> QED  BY <1>1, <2>1 DEF CallsOk
<1>3. SlotsOk'
  BY <1>1, SlotsKept DEF Inv, Tick
<1>4. \A c \in Callers :
        /\ call[c].step = "reserved" => /\ call[c].wake \in Nat /\ call[c].wake > 0
                                        /\ call'[c].wake = call[c].wake - 1
        /\ call[c].step = "server" => block > 0
  BY <1>1, ZenonT(30) DEF Tick, Waits, CallOk, Down, ServerBlock, Blocked
<1>5. (Reserving' <=> Reserving) /\ (Holding' <=> Holding)
  BY <1>1 DEF Reserving, Holding
<1>6. /\ credit \in Int /\ credit <= Full
      /\ credit' = Least(credit + 1, Full)
      /\ block \in Int /\ block >= Clear /\ block' = Down(block)
  BY DEF Inv, BucketOk, Tick
<1>7. credit' \in Int /\ credit' <= Full /\ credit' >= credit /\ credit' <= credit + 1
  BY <1>6, Numbers DEF Least
<1>8. BucketOk'
  <2>1. block' \in Int /\ block' >= Clear
    BY <1>6, Numbers DEF Down
  <2>2. credit' > -Interval - Interval /\ (~Reserving' => credit' > -Interval)
    BY <1>5, <1>7, Numbers DEF Inv, BucketOk
  <2>3. \A c \in Callers : call'[c].step = "reserved" => credit' + call'[c].wake > -Interval
    <3>1. TAKE c \in Callers
    <3>2. CASE call[c].step = "reserved"
      <4>1. credit + call[c].wake > -Interval
        BY <3>2 DEF Inv, BucketOk
      <4>2. credit' = credit + 1 \/ credit' = Full
        BY <1>6 DEF Least
      <4> QED  BY <1>4, <1>6, <1>7, <3>2, <4>1, <4>2, Numbers
    <3> QED  BY <1>1, <3>2
  <2> QED  BY <1>7, <2>1, <2>2, <2>3 DEF BucketOk
<1>9. BudgetOk'
  <2>1. CASE budget = Uncounted
    BY <2>1 DEF Tick, BudgetOk, Uncounted, Full
  <2>2. CASE budget # Uncounted
    <3>1. /\ budget \in Nat /\ budget <= Full /\ block = Clear /\ credit <= budget
          /\ Holding => credit + Interval <= budget
          /\ budget' = Least(budget + 1, Full)
      BY <2>2 DEF Inv, BudgetOk, Tick
    <3>2. \A c \in Callers : call'[c].step # "server"
      BY <1>1, <1>4, <3>1, Numbers
    <3>3. block' = Clear
      BY <1>6, <3>1, Numbers DEF Down
    <3>4. /\ budget' \in Nat /\ budget' <= Full /\ credit' <= budget'
          /\ budget' >= budget /\ (budget' = budget + 1 \/ budget' = Full)
      BY <1>6, <3>1, Numbers DEF Least
    <3>5. Holding' => credit' + Interval <= budget'
      <4>1. ASSUME Holding PROVE credit + 1 <= 0 /\ credit + Interval <= budget
        <5>1. PICK c \in Callers : call[c].step = "reserved"
          BY <1>1, <3>2, <4>1 DEF Holding
        <5>2. credit + call[c].wake <= 0
          BY <1>4, <2>2, <5>1 DEF Inv, BudgetOk
        <5> QED  BY <1>4, <1>6, <3>1, <4>1, <5>1, <5>2
      <4> QED  BY <1>5, <1>7, <1>6, <3>1, <3>4, <4>1, Numbers
    <3>6. \A c \in Callers : call'[c].step = "reserved" =>
              /\ Interval <= budget' + call'[c].wake
              /\ call'[c].wake > 0 => credit' + call'[c].wake <= 0
      <4>1. TAKE c \in Callers
      <4>2. CASE call[c].step = "reserved"
        <5>1. /\ Interval <= budget + call[c].wake
              /\ credit + call[c].wake <= 0
          BY <1>4, <2>2, <4>2 DEF Inv, BudgetOk
        <5>2. Interval <= budget' + call'[c].wake
          BY <1>4, <3>1, <3>4, <4>2, <5>1, Numbers
        <5>3. credit' + call'[c].wake <= 0
          BY <1>4, <1>6, <1>7, <4>2, <5>1
        <5> QED  BY <5>2, <5>3
      <4> QED  BY <1>1, <4>2
    <3> QED  BY <3>2, <3>3, <3>4, <3>5, <3>6 DEF BudgetOk
  <2> QED  BY <2>1, <2>2
<1> QED  BY <1>2, <1>3, <1>8, <1>9 DEF Inv

-----------------------------------------------------------------------------
(* The invariant. *)

LEMMA InitInv ==
    ASSUME Init
    PROVE  Inv
<1>1. \A c \in Callers : call[c] = NoCall
  BY DEF Init
<1>2. CallOk(NoCall) /\ NoCall.step = "idle"
  BY Numbers DEF CallOk, Fields, Steps, NoCall, Deliveries
<1>3. CallsOk
  BY <1>1, <1>2 DEF CallsOk, Init
<1>4. SlotsOk
  <2>1. InQueue = {}
    BY <1>1, <1>2 DEF InQueue, Queued
  <2>2. IsFiniteSet(InQueue) /\ Cardinality(InQueue) = 0
    BY <2>1, FS_EmptySet
  <2> QED  BY <1>1, <1>2, <2>2, Numbers DEF Init, SlotsOk, Admitted, Queued
<1>5. BucketOk
  BY <1>1, <1>2, Numbers DEF Init, BucketOk
<1>6. BudgetOk
  BY <1>1, <1>2, Numbers DEF Init, BudgetOk, Holding
<1> QED  BY <1>3, <1>4, <1>5, <1>6 DEF Inv

LEMMA CallerStepInv ==
    ASSUME Inv, NEW c \in Callers, CallerStep(c)
    PROVE  Inv'
BY TryAllowInv, AcquireWaiterInv, AcquireAdmissionInv, ReserveTokenInv, BlockEndsInv,
   ReservationDueInv, WaitForServerBlockInv, BeginWriteInv, WroteRequestInv,
   TransportErrorInv, BackoffEndsInv, AnswerInv
   DEF CallerStep

LEMMA NextInv ==
    ASSUME Inv, [Next]_vars
    PROVE  Inv'
<1>1. CASE Tick
  BY <1>1, TickInv
<1>2. CASE \E c \in Callers : CallerStep(c) \/ Cancel(c) \/ \E op \in Operations : Start(c, op)
  BY <1>2, CallerStepInv, CancelInv, StartInv
<1>3. CASE UNCHANGED vars
  BY <1>3 DEF vars, Inv, CallsOk, SlotsOk, InQueue, BucketOk, Reserving, BudgetOk, Holding
<1> QED  BY <1>1, <1>2, <1>3 DEF Next

\* In every state that the calls of any number of goroutines reach, the records
\* of the calls, the queue, the bucket and the reference bucket agree (Limiter.Wait,
\* Limiter.Observe, APIClient.Execute).
THEOREM InvHolds == Spec => []Inv
<1>1. Init => Inv
  BY InitInv
<1>2. Inv /\ [Next]_vars => Inv'
  BY NextInv
<1> QED  BY <1>1, <1>2, PTL DEF Spec

\* The limiter is sound for any number of callers, any burst and any queue: its
\* places and its admission are held by exactly the callers that are in it, and
\* the debt of the bucket by the one that waits with a reservation, however the
\* others were cancelled or timed out (Limiter.Wait with its deferred releases,
\* waitReservation).
THEOREM LimiterStaysSound == Spec => []LimiterIsSound
<1>1. Inv => LimiterIsSound
  <2> SUFFICES ASSUME Inv PROVE LimiterIsSound
    OBVIOUS
  <2>1. waiters \in Nat
    BY FS_CardinalityType DEF Inv, SlotsOk
  <2>2. TypeOK
    <3>1. credit \in -3 * Interval .. Full
      BY Numbers DEF Inv, BucketOk
    <3>2. waiters \in 0..MaxWaiters /\ admission \in BOOLEAN
      BY <2>1, Numbers DEF Inv, SlotsOk
    <3>3. \A c \in Callers :
            /\ call[c].step \in Queued \cup {"idle", "allow", "queue", "send", "writing",
                                             "written", "backoff", "done"}
            /\ call[c].delivery \in Deliveries
            /\ call[c].attempt \in 0..ReadAttempts
      BY Numbers DEF Inv, CallsOk, CallOk, Steps
    <3> QED  BY <3>1, <3>2, <3>3 DEF TypeOK, Inv, BucketOk
  <2>3. SlotsAreReturned
    BY DEF Inv, SlotsOk, SlotsAreReturned, InQueue
  <2>4. DebtIsHeld
    <3> DEFINE R == {c \in Callers : call[c].step = "reserved"}
    <3>1. CASE Reserving
      <4>1. PICK c \in Callers : call[c].step = "reserved"
        BY <3>1 DEF Reserving
      <4>2. R = {c}
        BY <4>1 DEF Inv, SlotsOk, Admitted, Queued
      <4>3. Cardinality(R) = 1
        BY <4>2, FS_Singleton
      <4>4. credit \in Int /\ credit > -Interval * (1 + 1)
        BY Numbers DEF Inv, BucketOk
      <4> QED  BY <4>3, <4>4 DEF DebtIsHeld
    <3>2. CASE ~Reserving
      <4>1. R = {}
        BY <3>2 DEF Reserving
      <4>2. Cardinality(R) = 0
        BY <4>1, FS_EmptySet
      <4>3. credit \in Int /\ credit > -Interval * (1 + 0)
        BY <3>2, Numbers DEF Inv, BucketOk
      <4> QED  BY <4>2, <4>3 DEF DebtIsHeld
    <3> QED  BY <3>1, <3>2
  <2> QED  BY <2>2, <2>3, <2>4 DEF LimiterIsSound
<1> QED  BY <1>1, InvHolds, PTL

\* Up to the first 429 the requests let through stay within Burst plus one per
\* Interval, whatever callers overtake one another, and a write goes on the wire
\* at most once (tryAllowNow, reserveToken, shouldRetry).
THEOREM RequestsStayBounded == Spec => []RequestsAreBounded
<1>1. Inv => RequestsAreBounded
  BY Numbers DEF Inv, BudgetOk, CallsOk, CallOk, RequestsAreBounded, RateIsRespected, WritesAreSentOnce
<1> QED  BY <1>1, InvHolds, PTL

-----------------------------------------------------------------------------
(* Blocks by the server. *)

\* A step of one caller leaves the others where they are.
LEMMA SetOne ==
    ASSUME CallsOk, NEW c \in Callers, NEW r, Set(c, r)
    PROVE  call'[c] = r /\ \A d \in Callers : d # c => call'[d] = call[d]
BY DEF CallsOk, Set

\* A caller that starts to send was let through while no block was running.
LEMMA SendsUnblocked ==
    ASSUME Inv, Next, NEW d \in Callers, call'[d].step = "send", call[d].step # "send"
    PROVE  ~Blocked
<1>1. CASE Tick
  <2>1. DOMAIN call[d] = Fields
    BY DEF Inv, CallsOk, CallOk
  <2>2. call'[d].step = call[d].step
    BY <1>1, <2>1 DEF Tick, Fields
  <2> QED  BY <2>2
<1>2. ASSUME NEW c \in Callers, CallerStep(c) \/ Cancel(c) \/ \E op \in Operations : Start(c, op)
      PROVE  ~Blocked
  <2>1. DOMAIN call[c] = Fields /\ CallsOk
    BY DEF Inv, CallsOk, CallOk
  <2>2. ASSUME NEW r, Set(c, r), r.step # "send" \/ r.step = call[c].step
        PROVE  FALSE
    BY <2>1, <2>2, SetOne
  <2>3. \A s \in Steps \ {"send"} : At(c, s).step # "send"
    BY <2>1 DEF At, Fields
  <2>4. \A delivery : ~Finish(c, delivery)
    <3> SUFFICES ASSUME NEW delivery, Finish(c, delivery) PROVE FALSE
      OBVIOUS
    <3> DEFINE r == [call[c] EXCEPT !.step = "done", !.delivery = delivery]
    <3>1. r.step = "done" /\ Set(c, r)
      BY <2>1 DEF Finish, Fields
    <3> HIDE DEF r
    <3> QED  BY <2>2, <3>1
  <2>5. ~WaitFailed(c)
    BY <2>4 DEF WaitFailed
  <2>6. \A s \in Steps \ {"send"} : ~Set(c, At(c, s))
    BY <2>2, <2>3
  <2>7. \A s \in Steps \ {"send"} : \A w : ~Set(c, [At(c, s) EXCEPT !.wake = w])
    <3> SUFFICES ASSUME NEW s \in Steps \ {"send"}, NEW w, Set(c, [At(c, s) EXCEPT !.wake = w])
                 PROVE  FALSE
      OBVIOUS
    <3> DEFINE r == [At(c, s) EXCEPT !.wake = w]
    <3>1. r.step # "send"
      BY <2>1 DEF At, Fields
    <3> HIDE DEF r
    <3> QED  BY <2>2, <3>1 DEF r
  <2>8. \A delivery \in Deliveries : \A retryable, after : ~EndAttempt(c, delivery, retryable, after)
    <3> SUFFICES ASSUME NEW delivery \in Deliveries, NEW retryable, NEW after,
                        EndAttempt(c, delivery, retryable, after)
                 PROVE  FALSE
      OBVIOUS
    <3> QED  BY <2>1, <2>2, EndAttemptOk
  <2>9. CASE TryAllow(c) \/ WaitForServerBlock(c)
    BY <2>5, <2>6, <2>9 DEF TryAllow, WaitForServerBlock, ServerBlock, Steps
  <2>10. ~AcquireWaiter(c) /\ ~AcquireAdmission(c) /\ ~BlockEnds(c) /\ ~ReservationDue(c)
    BY <2>5, <2>6 DEF AcquireWaiter, AcquireAdmission, BlockEnds, ReservationDue, Steps, Queued
  <2>11. ~ReserveToken(c)
    BY <2>5, <2>7 DEF ReserveToken, Steps, Queued
  <2>12. ~WroteRequest(c)
    BY <2>6 DEF WroteRequest, Steps
  <2>13. ~BeginWrite(c)
    <3> SUFFICES ASSUME BeginWrite(c) PROVE FALSE
      OBVIOUS
    <3> DEFINE r == [At(c, "writing") EXCEPT !.sent = @ + 1]
    <3>1. r.step = "writing" /\ Set(c, r)
      BY <2>1 DEF BeginWrite, At, Fields
    <3> HIDE DEF r
    <3> QED  BY <2>2, <3>1
  <2>14. ~BackoffEnds(c)
    <3> SUFFICES ASSUME BackoffEnds(c) PROVE FALSE
      OBVIOUS
    <3> DEFINE r == [At(c, "allow") EXCEPT !.attempt = @ + 1]
    <3>1. r.step = "allow"
      BY <2>1 DEF At, Fields
    <3>2. Set(c, r)
      BY <2>4 DEF BackoffEnds
    <3> HIDE DEF r
    <3> QED  BY <2>2, <3>1, <3>2
  <2>15. ~TransportError(c)
    BY <2>8 DEF TransportError, DeliveryWithoutResponse, Deliveries
  <2>16. \A status, wb, standard, remaining : ~Answer(c, status, wb, standard, remaining)
    BY <2>8 DEF Answer, Deliveries
  <2>17. ~Cancel(c)
    <3> SUFFICES ASSUME Cancel(c) PROVE FALSE
      OBVIOUS
    <3> DEFINE r == [call[c] EXCEPT !.cancelled = TRUE]
    <3>1. r.step = call[c].step /\ Set(c, r)
      BY <2>1 DEF Cancel, Fields
    <3> HIDE DEF r
    <3> QED  BY <2>2, <3>1
  <2>18. \A op : ~Start(c, op)
    <3> SUFFICES ASSUME NEW op, Start(c, op) PROVE FALSE
      OBVIOUS
    <3> DEFINE r == [NoCall EXCEPT !.step = "allow", !.op = op, !.attempt = 1,
                                   !.deadline = Timeout * AttemptLimit(op)]
    <3>1. r.step = "allow" /\ Set(c, r)
      BY DEF Start, NoCall
    <3> HIDE DEF r
    <3> QED  BY <2>2, <3>1
  <2> QED  BY <1>2, <2>9, <2>10, <2>11, <2>12, <2>13, <2>14, <2>15, <2>16, <2>17, <2>18 DEF CallerStep
<1> QED  BY <1>1, <1>2 DEF Next

\* Only time shortens a block.
LEMMA BlockOnlyGrows ==
    ASSUME Inv, Next, ~Tick, block > 0
    PROVE  block' >= block
<1>1. block \in Int
  BY DEF Inv, BucketOk
<1>2. PICK c \in Callers : CallerStep(c) \/ Cancel(c) \/ \E op \in Operations : Start(c, op)
  BY DEF Next
<1>3. ASSUME block' = block PROVE block' >= block
  BY <1>1, <1>3
<1>4. CASE \/ TryAllow(c) \/ AcquireWaiter(c) \/ AcquireAdmission(c) \/ ReserveToken(c)
           \/ BlockEnds(c) \/ ReservationDue(c) \/ WaitForServerBlock(c)
  BY <1>1, <1>3, <1>4 DEF TryAllow, AcquireWaiter, AcquireAdmission, ReserveToken, BlockEnds,
                          ReservationDue, WaitForServerBlock, ForgetBlock
<1>5. CASE \/ BeginWrite(c) \/ WroteRequest(c) \/ TransportError(c) \/ BackoffEnds(c)
           \/ Cancel(c) \/ \E op \in Operations : Start(c, op)
  BY <1>3, <1>5 DEF BeginWrite, WroteRequest, TransportError, BackoffEnds, Cancel, Start
<1>6. ASSUME NEW status \in Statuses, NEW wb \in Retries, NEW standard \in Retries,
             NEW remaining \in Remainings, Answer(c, status, wb, standard, remaining)
      PROVE  block' >= block
  <2> DEFINE retry == ParseRetryAfter(wb, standard)
             ticks == IF retry \in {Absent, Malformed, 0} THEN Interval ELSE retry
  <2>1. block' = block \/ block' = Largest(block, ticks)
    BY <1>6 DEF Answer, Observe, ExtendBlock
  <2>2. ticks \in Nat
    BY RetryIsTime, Numbers
  <2> HIDE DEF ticks
  <2> QED  BY <1>1, <2>1, <2>2 DEF Largest
<1> QED  BY <1>2, <1>4, <1>5, <1>6 DEF CallerStep

\* A block by the server holds, whatever is reserved, answered or cancelled
\* meanwhile: no caller is let through while it runs, and only time shortens it
\* (blockDelayLocked, observe, waitForServerBlock).
THEOREM BlockStaysHeld == Spec => BlockHolds
<1>1. Inv /\ [Next]_vars =>
        [\A c \in Callers : call'[c].step = "send" /\ call[c].step # "send" => ~Blocked]_vars
  BY SendsUnblocked
<1>2. Inv /\ [Next]_vars => [Tick \/ (block > 0 => block' >= block)]_vars
  BY BlockOnlyGrows
<1>3. Spec => BlockIsRespected
  BY <1>1, InvHolds, PTL DEF Spec, BlockIsRespected
<1>4. Spec => BlockIsKept
  BY <1>2, InvHolds, PTL DEF Spec, BlockIsKept
<1> QED  BY <1>3, <1>4 DEF BlockHolds
=============================================================================
