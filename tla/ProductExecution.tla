--------------------------- MODULE ProductExecution ---------------------------
(***************************************************************************)
(* ProductDispatcher at work: it journals an attempt, calls Wildberries,   *)
(* records the answer, and reconciles what the answer left open against the*)
(* seller's catalogue and the Cards Error List.  The transactions are the  *)
(* operators of ProductJournal; this module adds what happens between them.*)
(*                                                                         *)
(* A job is the goroutine that handles one action in one pass: "decide"    *)
(* (it has read the catalogue), "send" (it has committed an attempt or a   *)
(* retry), "record" (it holds the answer).  ProcessPending runs under a    *)
(* mutex and waits for its jobs, and it records interrupted attempts before*)
(* it starts any job: so a pass begins in a state without jobs.  A crash   *)
(* loses every job.                                                        *)
(*                                                                         *)
(* Wildberries is external: a request that reached it is processed later,  *)
(* vendor code by vendor code, by creating a card or by listing an error;  *)
(* a request it answered with a full rejection, and one that never left    *)
(* the process, creates nothing.                                           *)
(*                                                                         *)
(* Abstracted: time is the two facts "the reconciliation deadline has      *)
(* passed" and "the retry is due"; a card in the trash, a second card, or  *)
(* one of another subject is "foreign".  The listing of candidates and the *)
(* reading of the catalogue are one step, because every decision locks and *)
(* checks the action again.  Media actions stay planned (MediaExecution).  *)
(***************************************************************************)
EXTENDS ProductJournal

CONSTANTS
    SellerVendors,   \* vendor codes the seller uses outside this service
    SharedVendors,   \* vendor codes that plans of further transfers name
    OtherUploads,    \* vendor codes of an upload made outside this service
    SentAnswers,     \* bound: the answers a call may get
    MaxAuths,        \* bound: authorizations per plan
    MaxCrashes       \* bound: crashes of the process

VARIABLES
    db,         \* the journal and the projections, see ProductJournal
    due,        \* action -> timers that have run out
    job,        \* action -> its goroutine
    card,       \* vendor code -> what the seller's catalogue shows
    listed,     \* vendor code -> error batches Wildberries lists
    stored,     \* vendor code -> error batches ErrorFeed has stored
    requests,   \* <<action, vendor code, call>> accepted and not processed
    made,       \* <<action, vendor code>> whose request made the card
    sends,      \* action -> calls that left the process
    outside,    \* vendor code -> the error batch of the upload made outside: none
                \* that counts, open (Wildberries has still to list it), listed
                \* and not stored, or counted for an attempt of this service
    crashes

vars == <<db, due, job, card, listed, stored, requests, made, sends, outside, crashes>>

remote == <<card, listed, requests, made, outside>>

Answers == {"accepted", "rejected", "uncertain", "empty", "unsent"}

ASSUME InstanceAssumption ==
    /\ SellerVendors \cup SharedVendors \cup OtherUploads \subseteq Vendors
    /\ SentAnswers \subseteq Answers
    /\ MaxAuths \in Nat

InFlightStates == {"dispatching", "reconciling"}

InFlight(a) == db.action[a].state \in InFlightStates

NothingSeen == [v \in Vendors |-> "absent"]

NoJob == [step |-> "none", kind |-> "dispatch", epoch |-> 0, seen |-> NothingSeen,
          due |-> {}, answer |-> "unsent"]

Idle(a) == job[a].step = "none"

-----------------------------------------------------------------------------
Init ==
    /\ db = PlannedJournal
    /\ due = [a \in Actions |-> {}]
    /\ job = [a \in Actions |-> NoJob]
    /\ card = NothingSeen
    /\ listed = [v \in Vendors |-> 0]
    /\ stored = [v \in Vendors |-> 0]
    /\ outside = [v \in Vendors |-> IF v \in OtherUploads THEN "open" ELSE "none"]
    /\ requests = {}
    /\ made = {}
    /\ sends = [a \in Actions |-> 0]
    /\ crashes = 0

-----------------------------------------------------------------------------
(* Authorization. *)

\* AutomaticAuthorizationProcessor.ProcessPending.
AuthorizePlan(t) ==
    /\ AuthorizeOk(db, t)
    /\ Len(db.auth[t]) < MaxAuths
    /\ db' = Authorize(db, t)
    /\ UNCHANGED <<due, job, stored, sends, crashes, remote>>

\* expires_at passes; the row changes only when somebody looks at it.
AuthorizationRunsOut(t) ==
    /\ \E e \in DOMAIN db.auth[t] :
          /\ db.auth[t][e] = "authorized"
          /\ db' = [db EXCEPT !.auth[t][e] = "overdue"]
    /\ UNCHANGED <<due, job, stored, sends, crashes, remote>>

-----------------------------------------------------------------------------
(* Dispatch. *)

EndJob(a) == job' = [job EXCEPT ![a] = NoJob]

SeenOf(vendors) ==
    [v \in Vendors |-> IF v \in vendors THEN card[v] ELSE "absent"]

\* ListDispatchableProductActions and the catalogue read of the batch.
ObserveDispatch(a) ==
    LET t == TransferOf[a] IN
    /\ Idle(a)
    /\ db.action[a].state = "planned"
    /\ db.plan[t] \in {"awaiting_authorization", "executing"}
    /\ IsRunning(db.rows[t], {"awaiting_authorization"} \cup ExecutingPhases)
    /\ \E e \in DOMAIN db.auth[t] :
          /\ db.auth[t][e] = "authorized"
          /\ job' = [job EXCEPT ![a] =
                [NoJob EXCEPT !.step = "decide", !.epoch = e,
                              !.seen = SeenOf(VendorCodes(a))]]
    /\ UNCHANGED <<db, due, stored, sends, crashes, remote>>

Dispatching(a) == job[a].step = "decide" /\ job[a].kind = "dispatch"

\* productDecisionStillStable.
DecisionStillStable(a) ==
    \A v \in VendorCodes(a) : job[a].seen[v] = "absent"

\* dispatch, the path that journals the attempt.  The error baseline is the cursor
\* that ErrorFeed has reached in its last poll, so that a batch listed since then
\* is counted for the attempt.
BeginAttempt(a) ==
    /\ Dispatching(a)
    /\ DecisionStillStable(a)
    /\ BeginProductAttemptOk(db, a, job[a].epoch)
    /\ db' = BeginProductAttempt(db, a, job[a].epoch, stored)
    /\ job' = [job EXCEPT ![a] = [NoJob EXCEPT !.step = "send"]]
    /\ outside' = [v \in Vendors |->
          IF v \in VendorCodes(a) /\ outside[v] = "listed" THEN "counted" ELSE outside[v]]
    /\ UNCHANGED <<due, card, listed, stored, requests, made, sends, crashes>>

\* dispatch, when LockValid finds the authorization expired.
StopExpired(a) ==
    /\ Dispatching(a)
    /\ DecisionStillStable(a)
    /\ db.auth[TransferOf[a]][job[a].epoch] = "overdue"
    /\ db' = ExpireAuthorization(db, TransferOf[a])
    /\ EndJob(a)
    /\ UNCHANGED <<due, stored, sends, crashes, remote>>

\* dispatch, when the catalogue changed before the first attempt of the plan.
WithdrawPlan(a) ==
    /\ Dispatching(a)
    /\ ~DecisionStillStable(a)
    /\ SupersedePlanOk(db, a, job[a].epoch)
    /\ db' = SupersedePlan(db, a, job[a].epoch)
    /\ EndJob(a)
    /\ UNCHANGED <<due, stored, sends, crashes, remote>>

\* dispatch, when it changed after an attempt of the plan.
StopPlan(a) ==
    /\ Dispatching(a)
    /\ ~DecisionStillStable(a)
    /\ AbortPlanOk(db, a)
    /\ db' = AbortPlan(db, a, job[a].epoch)
    /\ EndJob(a)
    /\ UNCHANGED <<due, stored, sends, crashes, remote>>

\* Any error before the commit: the catalogue could not be read, a row changed
\* since it was listed, the database failed.
GiveUp(a) ==
    /\ job[a].step = "decide"
    /\ EndJob(a)
    /\ UNCHANGED <<db, due, stored, sends, crashes, remote>>

-----------------------------------------------------------------------------
(* The call and its answer. *)

CallOf(a) == IF job[a].kind = "dispatch" THEN "attempt" ELSE "retry"

\* executeProductMutation.  An accepted request has reached Wildberries; one
\* without a usable answer may have.
Send(a, answer) ==
    LET all == {<<a, v, CallOf(a)>> : v \in VendorCodes(a)} IN
    /\ job[a].step = "send"
    /\ job' = [job EXCEPT ![a].step = "record", ![a].answer = answer]
    /\ sends' = [sends EXCEPT ![a] = IF answer = "unsent" THEN @ ELSE @ + 1]
    /\ CASE answer = "accepted" -> requests' = requests \cup all
         [] answer \in {"rejected", "unsent"} -> requests' = requests
         [] OTHER -> \E reached \in {{}, all} : requests' = requests \cup reached
    /\ UNCHANGED <<db, due, card, listed, stored, made, outside, crashes>>

\* recordSubmission after the call.
RecordAttempt(a) ==
    /\ job[a].step = "record"
    /\ job[a].kind = "dispatch"
    /\ RecordSubmissionOk(db, a, job[a].answer)
    /\ db' = RecordSubmission(db, a, job[a].answer)
    /\ EndJob(a)
    /\ UNCHANGED <<due, stored, sends, crashes, remote>>

\* recordProductRetry after the call.
RecordRetry(a) ==
    /\ job[a].step = "record"
    /\ job[a].kind = "reconcile"
    /\ RecordProductRetryOk(db, a)
    /\ db' = RecordProductRetry(db, a, job[a].answer)
    /\ EndJob(a)
    /\ UNCHANGED <<due, stored, sends, crashes, remote>>

\* The transaction fails and the answer is lost.
LoseAnswer(a) ==
    /\ job[a].step = "record"
    /\ EndJob(a)
    /\ UNCHANGED <<db, due, stored, sends, crashes, remote>>

\* Mutant: an interrupted attempt counts as one that Wildberries refused.
InterruptedAnswerUnsent == "rejected"

\* The disposition recordInterrupted gives an attempt without an answer.
InterruptedAnswer == "uncertain"

\* ProcessPending starts: recordInterrupted.
RecordInterrupted(a) ==
    /\ \A b \in Actions : Idle(b)
    /\ db.action[a].state = "dispatching"
    /\ RecordSubmissionOk(db, a, InterruptedAnswer)
    /\ db' = RecordSubmission(db, a, InterruptedAnswer)
    /\ UNCHANGED <<due, job, stored, sends, crashes, remote>>

-----------------------------------------------------------------------------
(* Reconciliation. *)

PendingVendors(a) == {VendorOf[i] : i \in PendingMembers(db, a)}

\* ListReconcilingProductActions and the catalogue read, which is one for all
\* candidates of a transfer target; the clock was read before both.
ObserveReconciling(t, candidates) ==
    /\ candidates \subseteq ActionsOf(t)
    /\ \A a \in candidates : Idle(a) /\ db.action[a].state = "reconciling"
    /\ job' = [a \in Actions |->
          IF a \in candidates
          THEN [NoJob EXCEPT !.step = "decide", !.kind = "reconcile",
                             !.seen = SeenOf(UNION {PendingVendors(b) : b \in candidates}),
                             !.due = due[a]]
          ELSE job[a]]
    /\ UNCHANGED <<db, due, stored, sends, crashes, remote>>

\* A retry without an answer is closed first, then reconcile goes on.
FinishInterruptedRetry(a) ==
    /\ job[a].step = "decide"
    /\ job[a].kind = "reconcile"
    /\ RecordProductRetryOk(db, a)
    /\ db' = RecordProductRetry(db, a, InterruptedAnswer)
    /\ UNCHANGED <<due, job, stored, sends, crashes, remote>>

Reconciling(a) ==
    /\ job[a].step = "decide"
    /\ job[a].kind = "reconcile"
    /\ db.action[a].state = "reconciling"
    /\ db.action[a].retry # "open"

\* Mutant: the baseline of the attempt is not looked at.
ErrorMatchesOfAll(a, v) == stored[v]

\* LoadErrorBatchMatches: batches stored past the attempt's baseline.
ErrorMatches(a, v) == stored[v] - db.action[a].baseline[v]

\* shouldRetryEmptyProductResponse; the catalogue must be empty for every
\* vendor code of the joint read.
ShouldRetry(a) ==
    /\ db.action[a].attempt = "empty"
    /\ db.action[a].retry = "none"
    /\ "retry" \in job[a].due
    /\ PendingMembers(db, a) = MembersOf[a]
    /\ \A v \in VendorCodes(a) : ErrorMatches(a, v) = 0
    /\ job[a].seen = NothingSeen

\* retryAfterEmptyResponse up to the call; the deadline counts from here.
BeginRetry(a) ==
    /\ Reconciling(a)
    /\ ShouldRetry(a)
    /\ BeginProductRetryOk(db, a)
    /\ db' = BeginProductRetry(db, a)
    /\ job' = [job EXCEPT ![a] = [NoJob EXCEPT !.step = "send", !.kind = "reconcile"]]
    /\ due' = [due EXCEPT ![a] = {}]
    /\ UNCHANGED <<stored, sends, crashes, remote>>

\* Mutant: the deadline is forgotten.
MemberVerdictNoTimeout(shown, matches, late) ==
    IF shown = "matching" /\ matches = 0 THEN "success"
    ELSE IF shown = "absent" /\ matches = 1 THEN "rejected"
    ELSE IF shown # "absent" \/ matches > 1 THEN "unresolved"
    ELSE NoClass

\* The switch of reconcileProductEvidence.
MemberVerdict(shown, matches, late) ==
    IF shown = "matching" /\ matches = 0 THEN "success"
    ELSE IF shown = "absent" /\ matches = 1 THEN "rejected"
    ELSE IF shown # "absent" \/ matches > 1 \/ late THEN "unresolved"
    ELSE NoClass

\* The verdict on a pending member; a rejected retry decides for all of them.
Verdict(a, i) ==
    LET v == VendorOf[i] IN
    IF db.action[a].retry = "rejected" THEN "rejected"
    ELSE MemberVerdict(job[a].seen[v], ErrorMatches(a, v), "deadline" \in job[a].due)

Verdicts(a) ==
    [i \in {j \in PendingMembers(db, a) : Verdict(a, j) # NoClass} |-> Verdict(a, i)]

\* recordIncompleteReconciliation.
PollReconciliation(a) ==
    /\ Reconciling(a)
    /\ ~ShouldRetry(a)
    /\ DOMAIN Verdicts(a) # PendingMembers(db, a)
    /\ RecordPollOk(db, a, Verdicts(a))
    /\ db' = RecordMembers(db, a, Verdicts(a))
    /\ EndJob(a)
    /\ UNCHANGED <<due, stored, sends, crashes, remote>>

\* reconcile, once every member has a verdict.
FinishReconciliation(a) ==
    /\ Reconciling(a)
    /\ ~ShouldRetry(a)
    /\ FinishReconciliationOk(db, a, Verdicts(a))
    /\ db' = FinishAction(db, a, Verdicts(a))
    /\ due' = [due EXCEPT ![a] = {}]
    /\ EndJob(a)
    /\ UNCHANGED <<stored, sends, crashes, remote>>

-----------------------------------------------------------------------------
(* The environment. *)

DeadlinePasses(a) ==
    /\ InFlight(a)
    /\ due' = [due EXCEPT ![a] = @ \cup {"deadline"}]
    /\ UNCHANGED <<db, job, stored, sends, crashes, remote>>

RetryFallsDue(a) ==
    /\ db.action[a].state = "reconciling"
    /\ db.action[a].attempt = "empty"
    /\ db.action[a].retry = "none"
    /\ due' = [due EXCEPT ![a] = @ \cup {"retry"}]
    /\ UNCHANGED <<db, job, stored, sends, crashes, remote>>

\* ErrorFeed.Refresh, complete.
StoreErrors ==
    /\ stored' = listed
    /\ outside' = [v \in Vendors |-> IF outside[v] = "listed" THEN "none" ELSE outside[v]]
    /\ UNCHANGED <<db, due, job, card, listed, requests, made, sends, crashes>>

\* Wildberries lists the error batch of the upload made outside.  It has no mark
\* of the upload: an attempt in flight takes it for its own.
OtherUploadRefused(v) ==
    /\ outside[v] = "open"
    /\ listed' = [listed EXCEPT ![v] = @ + 1]
    /\ outside' = [outside EXCEPT ![v] =
          IF \E a \in Actions : InFlight(a) /\ v \in VendorCodes(a) THEN "counted" ELSE "listed"]
    /\ UNCHANGED <<db, due, job, card, stored, requests, made, sends, crashes>>

\* Wildberries processes one vendor code of a request.
Process(r) ==
    /\ r \in requests
    /\ requests' = requests \ {r}
    /\ \/ /\ card[r[2]] = "absent"
          /\ card' = [card EXCEPT ![r[2]] = "matching"]
          /\ made' = made \cup {<<r[1], r[2]>>}
          /\ UNCHANGED listed
       \/ /\ listed' = [listed EXCEPT ![r[2]] = @ + 1]
          /\ UNCHANGED <<card, made>>
    /\ UNCHANGED <<db, due, job, stored, sends, outside, crashes>>

\* The seller creates, moves to the trash or changes a card.
SellerChanges(v) ==
    /\ card' = [card EXCEPT ![v] = "foreign"]
    /\ UNCHANGED <<db, due, job, listed, stored, requests, made, sends, outside, crashes>>

\* Another transfer's plan is saved with its view of the vendor code.
PlanElsewhere(v, state) ==
    /\ db' = [db EXCEPT !.identity[v] = UpsertedIdentity(@, state)]
    /\ UNCHANGED <<due, job, stored, sends, crashes, remote>>

Crash ==
    /\ crashes < MaxCrashes
    /\ crashes' = crashes + 1
    /\ job' = [a \in Actions |-> NoJob]
    /\ UNCHANGED <<db, due, stored, sends, remote>>

-----------------------------------------------------------------------------

Dispatch(a) ==
    \/ ObserveDispatch(a)
    \/ BeginAttempt(a)
    \/ StopExpired(a)
    \/ WithdrawPlan(a)
    \/ StopPlan(a)

Deliver(a) ==
    \/ \E answer \in SentAnswers : Send(a, answer)
    \/ RecordAttempt(a)
    \/ RecordRetry(a)
    \/ LoseAnswer(a)

Reconcile(a) ==
    \/ FinishInterruptedRetry(a)
    \/ BeginRetry(a)
    \/ PollReconciliation(a)
    \/ FinishReconciliation(a)

Next ==
    \/ \E t \in Transfers : AuthorizePlan(t) \/ AuthorizationRunsOut(t)
    \/ \E a \in Actions :
          \/ Dispatch(a)
          \/ Deliver(a)
          \/ GiveUp(a)
          \/ RecordInterrupted(a)
          \/ Reconcile(a)
          \/ DeadlinePasses(a)
          \/ RetryFallsDue(a)
    \/ \E t \in Transfers : \E candidates \in SUBSET ActionsOf(t) \ {{}} :
          ObserveReconciling(t, candidates)
    \/ StoreErrors
    \/ \E v \in OtherUploads : OtherUploadRefused(v)
    \/ \E r \in requests : Process(r)
    \/ \E v \in SellerVendors : SellerChanges(v)
    \/ \E v \in SharedVendors, state \in {"remote_missing", "remote_present"} :
          PlanElsewhere(v, state)
    \/ Crash

Spec == Init /\ [][Next]_vars

\* When Deliver, RecordInterrupted, Reconcile, DeadlinePasses and the listing of
\* an action are enabled.
CanDeliver(a) == job[a].step \in {"send", "record"}

CanRecordInterrupted(a) ==
    /\ \A b \in Actions : Idle(b)
    /\ db.action[a].state = "dispatching"
    /\ RecordSubmissionOk(db, a, InterruptedAnswer)

CanReconcile(a) ==
    \/ /\ job[a].step = "decide"
       /\ job[a].kind = "reconcile"
       /\ RecordProductRetryOk(db, a)
    \/ /\ Reconciling(a)
       /\ IF ShouldRetry(a) THEN BeginProductRetryOk(db, a)
          ELSE \/ DOMAIN Verdicts(a) # PendingMembers(db, a)
                  /\ RecordPollOk(db, a, Verdicts(a))
               \/ FinishReconciliationOk(db, a, Verdicts(a))

CanObserve(a) == Idle(a) /\ db.action[a].state = "reconciling"

CanBeLate(a) == InFlight(a) /\ "deadline" \notin due[a]

Observe(a) ==
    \E others \in SUBSET ActionsOf(TransferOf[a]) :
        ObserveReconciling(TransferOf[a], others \cup {a})

\* Passes go on for ever: a job that has committed a call makes it and records
\* or loses its answer, an action left reconciling is listed again, and what
\* pass after pass tries again (recording an interrupted attempt, reconciling
\* an action) succeeds at last.  Weak and strong fairness are written with the
\* enabling conditions above.
Fairness ==
    \A a \in Actions :
        /\ <>[]CanDeliver(a) => []<><<Deliver(a)>>_vars
        /\ <>[]CanObserve(a) => []<><<Observe(a)>>_vars
        /\ <>[]CanBeLate(a) => []<><<DeadlinePasses(a)>>_vars
        /\ []<>CanRecordInterrupted(a) => []<><<RecordInterrupted(a)>>_vars
        /\ []<>CanReconcile(a) => []<><<Reconcile(a)>>_vars

FairSpec == Spec /\ Fairness

-----------------------------------------------------------------------------
(* Properties. *)

CardStates == {"absent", "matching", "foreign"}

Classes == {"success", "skipped", "rejected", "unresolved", "internal_error"}

AuthStates == OpenAuthorization \cup {"expired", "superseded", "closed"}

JobType ==
    [step : {"none", "decide", "send", "record"}, kind : {"dispatch", "reconcile"},
     epoch : 0..MaxAuths, seen : [Vendors -> CardStates],
     due : SUBSET {"retry", "deadline"}, answer : Answers]

\* The columns of the journal hold values of their CHECKed domains, and no
\* identity is 'mutation_pending' without its action.
TypeOK ==
    /\ \A t \in Transfers :
          /\ db.plan[t] \in {"awaiting_authorization", "executing", "terminal", "superseded"}
          /\ \A e \in DOMAIN db.auth[t] : db.auth[t][e] \in AuthStates
    /\ \A a \in Actions :
          /\ db.action[a].state \in {"planned"} \cup InFlightStates \cup EndedStates
          /\ db.action[a].attempt \in {"none", "open"} \cup Answers
          /\ db.action[a].retry \in {"none", "open"} \cup Answers
          /\ job[a] \in JobType
    /\ db.member \in [Items -> Classes \cup {NoClass}]
    /\ db.media \in [Items -> {"none", "planned", "skipped", "superseded"}]
    /\ \A v \in Vendors :
          /\ db.identity[v].state \in {"remote_missing", "remote_present", "rejected",
                                       "mutation_pending", "blocked_uncertain"}
          /\ db.identity[v].state = "mutation_pending" => db.identity[v].active \in Actions
    /\ card \in [Vendors -> CardStates]
    /\ made \subseteq Actions \X Vendors
    /\ outside \in [Vendors -> {"none", "open", "listed", "counted"}]

\* Whatever is sent to Wildberries was journaled before, and an action is sent
\* at most twice: a second time only after an empty answer, as its one retry.
\* Crashes and lost answers between the commit and the call, or between the
\* call and the record, never lead to another call.
SendsAreJournaled ==
    \A a \in Actions :
        /\ sends[a] <= 2
        /\ sends[a] >= 1 => db.action[a].attempt # "none"
        /\ sends[a] = 2 => db.action[a].attempt = "empty" /\ db.action[a].retry # "none"

\* Every member without an outcome of an action in flight owns the identity of
\* its vendor code, whatever other transfers and plans did meanwhile.
\* Otherwise finishIdentity matches no row and the result is never recorded.
IdentityIsBound ==
    \A a \in Actions : InFlight(a) =>
        \A i \in PendingMembers(db, a) : db.identity[VendorOf[i]].active = a

\* The result of an action in flight is applicable, whichever it is: the
\* projection (transfer row, group rows, item rows) accepts it after any
\* sequence of results, aborted plans and expired authorizations.
ResultIsApplicable ==
    \A a \in Actions : InFlight(a) =>
        \A class \in [PendingMembers(db, a) -> {"success", "rejected", "unresolved"}] :
            FinishActionOk(db, a, class)

\* The items of the projection tell the same as the members of the journal:
\* an item has ended if and only if its action has, with the member's outcome,
\* also when the outcome was found by an earlier poll.
ProjectionFollowsJournal ==
    \A a \in Actions : \A i \in MembersOf[a] :
        LET row == db.rows[TransferOf[a]].item[i] IN
        CASE db.action[a].state = "terminal" ->
                row.state = "terminal" /\ row.class = db.member[i]
          [] db.action[a].state = "superseded" ->
                row.state = "running" /\ row.action = NoAction
          [] OTHER ->
                row.state = "running" /\ row.action = a

\* No action that shares the vendor code was sent a second time.
SentOnce(v) == \A a \in Actions : v \in VendorCodes(a) => db.action[a].retry = "none"

\* A product recorded as rejected was not created and will not be: no request
\* for it is still with Wildberries.  Error batches that were stored when the
\* attempt began, whoever's they are, and those of other actions are no proof.
\* Excepted is a vendor code of which a batch of an upload made outside came
\* between the baseline of an attempt and its end: the code counts it for the
\* attempt, and may record a rejection while the request is still under way.
RejectedWasNotCreated ==
    \A a \in Actions : \A i \in MembersOf[a] :
        LET v == VendorOf[i] IN
        (db.member[i] = "rejected" /\ SentOnce(v) /\ outside[v] # "counted") =>
            /\ <<a, v>> \notin made
            /\ <<a, v, "attempt">> \notin requests

\* A vendor code whose attempt ended without proof stays blocked, so that no
\* other transfer sends it while the first request may still take effect.
UncertainStaysBlocked ==
    \A a \in Actions : \A i \in MembersOf[a] :
        (db.action[a].attempt # "none" /\ db.member[i] = "unresolved") =>
            db.identity[VendorOf[i]] = [state |-> "blocked_uncertain", active |-> a]

\* A plan is over exactly when its last action is, products and media alike.
PlanEndsWithLastAction ==
    \A t \in Transfers :
        /\ db.plan[t] = "executing" => ~PlanActionsEnded(db, t)
        /\ db.plan[t] = "terminal" => PlanActionsEnded(db, t)

\* An action in flight ends, crashes and lost answers notwithstanding.
InFlightEnds == \A a \in Actions : InFlight(a) ~> ~InFlight(a)

\* A group waits only for media that is still to be uploaded: once its product
\* actions have ended, the projection awaits media only while the journal has a
\* media action of the group that is not over.
AwaitedMediaIsPending ==
    \A t \in Transfers : \A g \in DOMAIN db.rows[t].group :
        LET items == {i \in PublishedItems(t) : GroupOf[i] = g} IN
        (/\ db.rows[t].group[g].media = "running"
         /\ \A i \in items : db.action[ActionOf(i)].state = "terminal") =>
            \E i \in items : db.media[i] = "planned"

\* The journal is sound: its columns have their types, and what went to
\* Wildberries is in it.
JournalIsSound == TypeOK /\ SendsAreJournaled

\* The results of the actions of a plan reach the projection, also when the plan
\* was aborted or withdrawn around them.
ResultsReachProjection == ResultIsApplicable /\ ProjectionFollowsJournal

=============================================================================
