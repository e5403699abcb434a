---------------------------- MODULE MediaExecution ----------------------------
(***************************************************************************)
(* MediaDispatcher at work on the upload_media actions of a plan.          *)
(* ProcessPending lists them and hands each to a worker goroutine that     *)
(* locks the action, reads the catalogue, journals an attempt, uploads and *)
(* records the answer, while ProcessPending itself returns: unlike the     *)
(* product dispatcher, passes overlap with the workers of earlier passes.  *)
(* ProcessMediaVisibility, the other loop of RunMediaPolling, looks in the *)
(* catalogue whether the photos of an accepted or uncertain upload have    *)
(* appeared, under a lease, until a deadline.                              *)
(*                                                                         *)
(* The rows are those of ProductJournal; the product actions of the plan   *)
(* run along with coarse steps of ProductExecution.                        *)
(*                                                                         *)
(* Abstracted: an identity is 'remote_present' only with the nmID of the   *)
(* card; the compare-and-set on the revision of a visibility job is left   *)
(* out, because visibilityMu lets one pass at a time claim and check; an   *)
(* upload by links is one request, one by files a request for each file.   *)
(***************************************************************************)
EXTENDS ProductJournal, FiniteSets

CONSTANTS
    Replanned,       \* items with members in an earlier, superseded plan
    Files,           \* requests that one upload consists of
    Concurrency,     \* workers, and jobs of a visibility pass
    SellerItems,     \* bound: items whose cards the seller may change
    SharedItems,     \* bound: items that plans of other transfers name
    MaxAuths,        \* bound: authorizations per plan
    MaxCrashes       \* bound: crashes of the process

VARIABLES
    db,           \* the journal and the projections, see ProductJournal
    visibility,   \* item -> its row of publication_media_visibility
    enabled,      \* the configuration mediaEnabled of the running process
    worker,       \* item -> the goroutine that handles its action
    checker,      \* item -> the goroutine that checks its visibility
    card,         \* item -> whether the catalogue shows the attributed card
    received,     \* item -> files of the upload that Wildberries took
    sends,        \* item -> uploads that left the process
    crashes

vars == <<db, visibility, enabled, worker, checker, card, received, sends, crashes>>

remote == <<card, received, sends>>

MediaAnswers == {"accepted", "uncertain", "rejected", "unsent"}

NoJobRow == [open |-> FALSE, leased |-> FALSE, late |-> FALSE]

NoWorker == [step |-> "none", epoch |-> 0, stable |-> TRUE, answer |-> "unsent"]

NoChecker == [step |-> "none", visible |-> FALSE]

\* What the planner says of media: it plans an upload for an item of the transfer,
\* an item is published or exists already, a group target is of one transfer, and
\* the id of an action, here the item of a media action, is of one action only.
ASSUME MediaAssumption ==
    /\ MediaItems \subseteq UNION {TransferItems(t) : t \in Transfers}
    /\ SharedItems \subseteq Items
    /\ Items \cap Actions = {}
    /\ Free \notin Items
    /\ \A t \in Transfers : PublishedItems(t) \cap ExistingOf[t] = {}
    /\ \A t, u \in Transfers : \A i \in TransferItems(t), j \in TransferItems(u) :
          GroupOf[i] = GroupOf[j] => t = u
    /\ Files \in Nat \ {0}
    /\ MaxAuths \in Nat

TransferOfItem(i) == CHOOSE t \in Transfers : i \in TransferItems(t)

Init ==
    /\ db = PlannedJournal
    /\ visibility = [i \in Items |-> NoJobRow]
    /\ enabled \in BOOLEAN
    /\ worker = [i \in Items |-> NoWorker]
    /\ checker = [i \in Items |-> NoChecker]
    /\ card = [i \in Items |-> "matching"]
    /\ received = [i \in Items |-> 0]
    /\ sends = [i \in Items |-> 0]
    /\ crashes = 0

-----------------------------------------------------------------------------
(* Which action can be listed and locked.  Both queries join the media      *)
(* member with all members of the same item in the transfer: the media      *)
(* member itself, the member of the plan's product action and those of      *)
(* superseded plans, whose product_action is NULL because plan_id differs.  *)

JoinedRows(i) ==
    {"self"} \cup (IF i \in PublishedItems(TransferOfItem(i)) THEN {"product"} ELSE {})
             \cup (IF i \in Replanned THEN {"superseded"} ELSE {})

\* product_action.id IS NULL, or the product action has ended; the media action
\* itself has another kind.
RowMatches(d, i, row) ==
    \/ row = "superseded"
    \/ row = "product" /\ d.action[ActionOf(i)].state = "terminal"

IdentityOf(d, i) == d.identity[VendorOf[i]]

\* ListDispatchableMediaActions.
Dispatchable(d, i, e) ==
    LET t == TransferOfItem(i) IN
    /\ d.media[i] = "planned"
    /\ d.auth[t][e] = "authorized"
    /\ IdentityOf(d, i) = [state |-> "remote_present", active |-> Free]
    /\ \E row \in JoinedRows(i) :
          /\ RowMatches(d, i, row)
          /\ IF row = "product"
             THEN /\ d.plan[t] = "executing"
                  /\ IsRunning(d.rows[t], {"reconciling", "media"})
             ELSE /\ d.plan[t] \in {"awaiting_authorization", "executing"}
                  /\ IsRunning(d.rows[t], {"awaiting_authorization"} \cup ExecutingPhases)

\* ListPendingMediaActions: whatever state the last authorization is in, and
\* only items that have an attribution, since each has a member.
Skippable(d, i, e) ==
    LET t == TransferOfItem(i) IN
    /\ d.media[i] = "planned"
    /\ e = Len(d.auth[t])
    /\ IdentityOf(d, i) = [state |-> "remote_present", active |-> Free]
    /\ d.plan[t] = "executing"
    /\ IsRunning(d.rows[t], {"reconciling", "media"})
    /\ i \in d.attributed
    /\ d.action[ActionOf(i)].state = "terminal"

\* LockMediaAction reads one of the matching rows, and an attribution must go
\* with a product action; the identity is free, or bound to the action.
LockRowOk(d, i, row) ==
    /\ RowMatches(d, i, row)
    /\ row = "product" <=> i \in d.attributed
    /\ IdentityOf(d, i).state = "remote_present"
    /\ \/ d.media[i] = "planned" /\ IdentityOf(d, i).active = Free
       \/ d.media[i] \in {"dispatching", "reconciling"} /\ IdentityOf(d, i).active = i

LockMediaActionOk(d, i) == \E row \in JoinedRows(i) : LockRowOk(d, i, row)

-----------------------------------------------------------------------------
(* The transactions. *)

MediaOfGroup(d, i) ==
    {j \in TransferItems(TransferOfItem(i)) : GroupOf[j] = GroupOf[i] /\ d.media[j] # "none"}

GroupMediaEnded(d, i) ==
    \A j \in MediaOfGroup(d, i) : d.media[j] \notin OpenMediaStates

\* Mutant: an upload whose fate is unknown does not count.
GroupMediaClassLenient(d, i) ==
    LET classes == {d.media[j] : j \in MediaOfGroup(d, i)} IN
    IF "rejected" \in classes THEN "rejected"
    ELSE IF "success" \in classes THEN "success"
    ELSE "skipped"

\* The outcome of loadMediaGroupResult.
GroupMediaClass(d, i) ==
    LET classes == {d.media[j] : j \in MediaOfGroup(d, i)} IN
    IF classes \cap AttentionClasses # {} THEN "unresolved"
    ELSE IF "rejected" \in classes THEN "rejected"
    ELSE IF "success" \in classes THEN "success"
    ELSE "skipped"

\* applyGroupResult: the last media action of a group ends the group's media.
ProjectMediaOk(d, i) ==
    GroupMediaEnded(d, i) =>
        ApplyPublicationMediaResultOk(d.rows[TransferOfItem(i)], GroupOf[i])

ProjectMedia(d, i) ==
    IF GroupMediaEnded(d, i)
    THEN [d EXCEPT !.rows[TransferOfItem(i)] =
            ApplyPublicationMediaResult(@, GroupOf[i], GroupMediaClass(d, i))]
    ELSE d

\* finishMediaAction, which also releases the identity, and the reduction of the
\* plan; without an attempt the identity is not bound.
MediaEnded(d, i, class) ==
    ReducePlan([d EXCEPT !.media[i] = class, !.identity[VendorOf[i]].active = Free],
               TransferOfItem(i))

FinishMediaOk(d, i, class) ==
    LockMediaActionOk(d, i) /\ ProjectMediaOk(MediaEnded(d, i, class), i)

FinishMedia(d, i, class, e) ==
    CloseAuthorization(ProjectMedia(MediaEnded(d, i, class), i), TransferOfItem(i), e)

\* FinishMediaWithoutAttempt and BeginMediaWithin, and what follows the result.
WithMediaPhase(d, i) == [d EXCEPT !.rows[TransferOfItem(i)] = BeginPublicationMedia(@)]

SkipMediaActionOk(d, i) ==
    /\ d.media[i] = "planned"
    /\ BeginPublicationMediaOk(d.rows[TransferOfItem(i)])
    /\ FinishMediaOk(WithMediaPhase(d, i), i, "skipped")

SkipMediaAction(d, i, e) == FinishMedia(WithMediaPhase(d, i), i, "skipped", e)

\* LockValid, BeginMediaAttempt and BeginMediaWithin.
BeginMediaAttemptOk(d, i, e) ==
    LET t == TransferOfItem(i) IN
    /\ LockMediaActionOk(d, i)
    /\ d.media[i] = "planned"
    /\ d.auth[t][e] = "authorized"
    /\ d.plan[t] \in {"awaiting_authorization", "executing"}
    /\ BeginPublicationMediaOk(d.rows[t])

BeginMediaAttempt(d, i, e) ==
    LET t == TransferOfItem(i) IN
    [d EXCEPT !.identity[VendorOf[i]].active = i,
              !.media[i] = "dispatching",
              !.upload[i] = [auth |-> e, attempt |-> "open"],
              !.plan[t] = "executing",
              !.rows[t] = BeginPublicationMedia(@)]

\* ScheduleMediaVisibility takes these answers, RecordMediaResult the others.
AwaitedAnswers == {"accepted", "uncertain"}

AnswerClass(answer) == IF answer = "rejected" THEN "rejected" ELSE "internal_error"

WithUploadAnswer(d, i, answer) == [d EXCEPT !.upload[i].attempt = answer]

\* recordResult.
RecordResultOk(d, i, answer) ==
    /\ d.media[i] = "dispatching"
    /\ d.upload[i].attempt = "open"
    /\ IF answer \in AwaitedAnswers THEN LockMediaActionOk(d, i)
       ELSE FinishMediaOk(d, i, AnswerClass(answer))

RecordResult(d, i, answer) ==
    IF answer \in AwaitedAnswers
    THEN [WithUploadAnswer(d, i, answer) EXCEPT !.media[i] = "reconciling"]
    ELSE FinishMedia(WithUploadAnswer(d, i, answer), i, AnswerClass(answer),
                     d.upload[i].auth)

ScheduledRow(i, answer) ==
    IF answer \in AwaitedAnswers THEN [NoJobRow EXCEPT !.open = TRUE] ELSE visibility[i]

-----------------------------------------------------------------------------
(* The product actions of the plan and its authorization, coarsely. *)

others == <<visibility, enabled, worker, checker, crashes>>

AuthorizePlan(t) ==
    /\ AuthorizeOk(db, t)
    /\ Len(db.auth[t]) < MaxAuths
    /\ db' = Authorize(db, t)
    /\ UNCHANGED <<others, remote>>

AuthorizationRunsOut(t) ==
    /\ \E e \in DOMAIN db.auth[t] :
          /\ db.auth[t][e] = "authorized"
          /\ db' = [db EXCEPT !.auth[t][e] = "overdue"]
    /\ UNCHANGED <<others, remote>>

ProductBegins(a) ==
    /\ \E e \in DOMAIN db.auth[TransferOf[a]] :
          /\ BeginProductAttemptOk(db, a, e)
          /\ db' = BeginProductAttempt(db, a, e, [v \in Vendors |-> 0])
    /\ UNCHANGED <<others, remote>>

ProductIsAccepted(a) ==
    /\ AwaitReconciliationOk(db, a)
    /\ db' = AwaitReconciliation(db, a, "accepted")
    /\ UNCHANGED <<others, remote>>

ProductEnds(a) ==
    /\ \E class \in [PendingMembers(db, a) -> {"success", "rejected", "unresolved"}] :
          /\ FinishReconciliationOk(db, a, class)
          /\ db' = FinishAction(db, a, class)
    /\ UNCHANGED <<others, remote>>

\* The catalogue no longer fits the plan.
PlanStops(a) ==
    /\ \E e \in DOMAIN db.auth[TransferOf[a]] :
          \/ SupersedePlanOk(db, a, e) /\ db' = SupersedePlan(db, a, e)
          \/ AbortPlanOk(db, a) /\ db' = AbortPlan(db, a, e)
    /\ UNCHANGED <<others, remote>>

-----------------------------------------------------------------------------
(* ProcessPending and its workers. *)

InFlight == {i \in Items : worker[i].step # "none"}

\* Mutant: a worker that is still running looks interrupted.
NotInFlightIgnored(i) == TRUE

\* mediaActionInFlight is false.
NotInFlight(i) == i \notin InFlight

EndWorker(i) == worker' = [worker EXCEPT ![i] = NoWorker]

\* ProcessPending reserves the action; the worker locks it once and reads the
\* catalogue, or goes straight to skip.
ObserveMedia(i) ==
    /\ i \notin InFlight
    /\ Cardinality(InFlight) < Concurrency
    /\ \E e \in DOMAIN db.auth[TransferOfItem(i)] :
          /\ IF enabled THEN Dispatchable(db, i, e) ELSE Skippable(db, i, e)
          /\ LockMediaActionOk(db, i)
          /\ worker' = [worker EXCEPT ![i] =
                [NoWorker EXCEPT !.step = "decide", !.epoch = e,
                                 !.stable = enabled /\ card[i] = "matching"]]
    /\ UNCHANGED <<db, visibility, enabled, checker, crashes, remote>>

\* dispatch after an unstable recheck, and skip.
SkipUpload(i) ==
    /\ worker[i].step = "decide"
    /\ ~worker[i].stable
    /\ SkipMediaActionOk(db, i)
    /\ db' = SkipMediaAction(db, i, worker[i].epoch)
    /\ EndWorker(i)
    /\ UNCHANGED <<visibility, enabled, checker, crashes, remote>>

\* dispatch up to the commit of the attempt.
BeginUpload(i) ==
    /\ worker[i].step = "decide"
    /\ worker[i].stable
    /\ BeginMediaAttemptOk(db, i, worker[i].epoch)
    /\ db' = BeginMediaAttempt(db, i, worker[i].epoch)
    /\ worker' = [worker EXCEPT ![i].step = "send"]
    /\ UNCHANGED <<visibility, enabled, checker, crashes, remote>>

\* executeMediaMutation: the first failing request ends the upload, and what
\* was taken before makes it a partial upload.
UploadAnswer(taken, failure) ==
    IF taken = Files THEN "accepted"
    ELSE IF taken > 0 THEN "uncertain"
    ELSE failure

\* A request whose answer is unknown may have been taken as well.
Upload(i, taken, failure) ==
    /\ worker[i].step = "send"
    /\ worker' = [worker EXCEPT ![i].step = "record",
                                ![i].answer = UploadAnswer(taken, failure)]
    /\ \E more \in IF taken < Files /\ failure = "uncertain" THEN {0, 1} ELSE {0} :
          received' = [received EXCEPT ![i] = taken + more]
    /\ sends' = [sends EXCEPT ![i] = IF taken = 0 /\ failure = "unsent" THEN @ ELSE @ + 1]
    /\ UNCHANGED <<db, visibility, enabled, checker, card, crashes>>

RecordUpload(i) ==
    /\ worker[i].step = "record"
    /\ RecordResultOk(db, i, worker[i].answer)
    /\ db' = RecordResult(db, i, worker[i].answer)
    /\ visibility' = [visibility EXCEPT ![i] = ScheduledRow(i, worker[i].answer)]
    /\ EndWorker(i)
    /\ UNCHANGED <<enabled, checker, crashes, remote>>

\* An error ends the worker: before the attempt is committed nothing has
\* happened, afterwards the answer is lost.
WorkerFails(i) ==
    /\ worker[i].step \in {"decide", "record"}
    /\ EndWorker(i)
    /\ UNCHANGED <<db, visibility, enabled, checker, crashes, remote>>

\* Mutant: an interrupted attempt is taken back.
RecordInterruptedReplans(i) ==
    /\ NotInFlight(i)
    /\ RecordResultOk(db, i, "uncertain")
    /\ db' = [db EXCEPT !.media[i] = "planned", !.upload[i] = NoAttempt,
                        !.identity[VendorOf[i]].active = Free]
    /\ UNCHANGED <<visibility, enabled, worker, checker, crashes, remote>>

\* recordInterrupted.
RecordInterrupted(i) ==
    /\ NotInFlight(i)
    /\ RecordResultOk(db, i, "uncertain")
    /\ db' = RecordResult(db, i, "uncertain")
    /\ visibility' = [visibility EXCEPT ![i] = ScheduledRow(i, "uncertain")]
    /\ UNCHANGED <<enabled, worker, checker, crashes, remote>>

-----------------------------------------------------------------------------
(* ProcessMediaVisibility. *)

EndChecker(i) == checker' = [checker EXCEPT ![i] = NoChecker]

\* The due CTE of ClaimMediaVisibility; a lease that has run out is not one.
Claimable(row) == row.open /\ ~row.leased

\* ClaimMediaVisibility, under visibilityMu.
ClaimVisibility(jobs) ==
    /\ \A i \in Items : checker[i].step = "none"
    /\ jobs # {} /\ Cardinality(jobs) <= Concurrency
    /\ \A i \in jobs : Claimable(visibility[i])
    /\ visibility' = [i \in Items |->
          IF i \in jobs THEN [visibility[i] EXCEPT !.leased = TRUE] ELSE visibility[i]]
    /\ checker' = [i \in Items |->
          IF i \in jobs THEN [NoChecker EXCEPT !.step = "check"] ELSE NoChecker]
    /\ UNCHANGED <<db, enabled, worker, crashes, remote>>

\* The catalogue read of checkMediaVisibility, skipped after the deadline.
\* Wildberries shows the photos of a complete upload sooner or later, and a read
\* that fails shows nothing.
CheckVisibility(i) ==
    /\ checker[i].step = "check"
    /\ LockMediaActionOk(db, i)
    /\ \E visible \in BOOLEAN :
          /\ visible => received[i] = Files /\ card[i] = "matching" /\ ~visibility[i].late
          /\ checker' = [checker EXCEPT ![i] = [step |-> "record", visible |-> visible]]
    /\ UNCHANGED <<db, visibility, enabled, worker, crashes, remote>>

\* The outcome of a check, if it has one.
VisibilityOutcome(i) ==
    IF checker[i].visible THEN "success"
    ELSE IF visibility[i].late THEN "unresolved"
    ELSE NoClass

\* UpdateMediaVisibility and the transaction around it.
RecordVisibility(i) ==
    LET outcome == VisibilityOutcome(i) IN
    /\ checker[i].step = "record"
    /\ LockMediaActionOk(db, i)
    /\ db.media[i] = "reconciling"
    /\ IF outcome = NoClass
       THEN db' = db
       ELSE /\ FinishMediaOk(db, i, outcome)
            /\ db' = FinishMedia(db, i, outcome, db.upload[i].auth)
    /\ visibility' = [visibility EXCEPT ![i].open = (outcome = NoClass),
                                        ![i].leased = FALSE]
    /\ EndChecker(i)
    /\ UNCHANGED <<enabled, worker, crashes, remote>>

\* Any error of a check; the job keeps its lease.
CheckFails(i) ==
    /\ checker[i].step # "none"
    /\ EndChecker(i)
    /\ UNCHANGED <<db, visibility, enabled, worker, crashes, remote>>

\* Mutant: a lease is for ever.
LeaseEndsNever(i) == visibility[i].leased /\ UNCHANGED vars

\* leased_until passes, also when the process that claimed the job is gone.
LeaseEnds(i) ==
    /\ visibility[i].leased
    /\ checker[i].step = "none"
    /\ visibility' = [visibility EXCEPT ![i].leased = FALSE]
    /\ UNCHANGED <<db, enabled, worker, checker, crashes, remote>>

DeadlinePasses(i) ==
    /\ visibility[i].open
    /\ ~visibility[i].late
    /\ visibility' = [visibility EXCEPT ![i].late = TRUE]
    /\ UNCHANGED <<db, enabled, worker, checker, crashes, remote>>

-----------------------------------------------------------------------------
(* The environment. *)

\* The seller deletes or replaces a card that is there.
SellerChanges(i) ==
    /\ i \in db.attributed \cup ExistingOf[TransferOfItem(i)]
    /\ card' = [card EXCEPT ![i] = "changed"]
    /\ UNCHANGED <<db, others, received, sends>>

\* Another transfer's plan is saved with its view of the vendor code.
PlanElsewhere(i, state) ==
    /\ db' = [db EXCEPT !.identity[VendorOf[i]] = UpsertedIdentity(@, state)]
    /\ UNCHANGED <<others, remote>>

\* The process may come back with another configuration.
Crash ==
    /\ crashes < MaxCrashes
    /\ crashes' = crashes + 1
    /\ worker' = [i \in Items |-> NoWorker]
    /\ checker' = [i \in Items |-> NoChecker]
    /\ enabled' \in BOOLEAN
    /\ UNCHANGED <<db, visibility, remote>>

-----------------------------------------------------------------------------

Product(a) ==
    ProductBegins(a) \/ ProductIsAccepted(a) \/ ProductEnds(a) \/ PlanStops(a)

Uploading(i) ==
    \/ \E taken \in 0..Files, failure \in MediaAnswers \ {"accepted"} :
          Upload(i, taken, failure)
    \/ RecordUpload(i)

Checking(i) ==
    CheckVisibility(i) \/ RecordVisibility(i)

Next ==
    \/ \E t \in Transfers : AuthorizePlan(t) \/ AuthorizationRunsOut(t)
    \/ \E a \in Actions : Product(a)
    \/ \E i \in MediaItems :
          \/ ObserveMedia(i)
          \/ SkipUpload(i)
          \/ BeginUpload(i)
          \/ Uploading(i)
          \/ WorkerFails(i)
          \/ RecordInterrupted(i)
          \/ Checking(i)
          \/ CheckFails(i)
          \/ LeaseEnds(i)
          \/ DeadlinePasses(i)
    \/ \E jobs \in SUBSET MediaItems : ClaimVisibility(jobs)
    \/ \E i \in SellerItems : SellerChanges(i)
    \/ \E i \in SharedItems, state \in {"remote_missing", "remote_present"} :
          PlanElsewhere(i, state)
    \/ Crash

Spec == Init /\ [][Next]_vars

\* Claims in the order of next_check_at reach every job.
ClaimOf(i) == \E jobs \in SUBSET MediaItems : i \in jobs /\ ClaimVisibility(jobs)

CanClaim(i) ==
    Claimable(visibility[i]) /\ \A j \in Items : checker[j].step = "none"

CanCheck(i) == checker[i].step = "check" /\ LockMediaActionOk(db, i)

\* Both loops of RunMediaPolling run at every tick: a worker ends one way or the
\* other, an interrupted attempt is recorded, a check ends and time passes.  A
\* job that falls due again and again is claimed, and of the checks that are
\* possible again and again some get through to the catalogue and the database.
Fairness ==
    \A i \in MediaItems :
        /\ WF_vars(WorkerFails(i) \/ Uploading(i))
        /\ WF_vars(RecordInterrupted(i))
        /\ WF_vars(CheckFails(i) \/ Checking(i))
        /\ WF_vars(LeaseEnds(i))
        /\ WF_vars(DeadlinePasses(i))
        /\ []<>CanClaim(i) => []<><<ClaimOf(i)>>_vars
        /\ []<>CanCheck(i) => []<><<RecordVisibility(i)>>_vars

FairSpec == Spec /\ Fairness

-----------------------------------------------------------------------------
(* Properties. *)

MediaInFlight(i) == db.media[i] \in {"dispatching", "reconciling"}

\* The columns of a media action agree: an attempt goes with a state past
\* 'planned', an open visibility job with 'reconciling', and a job is leased
\* only while it is open.
TypeOK ==
    /\ db.media \in [Items -> OpenMediaStates \cup AttentionClasses
                        \cup {"none", "success", "skipped", "rejected", "superseded"}]
    /\ visibility \in [Items -> [open : BOOLEAN, leased : BOOLEAN, late : BOOLEAN]]
    /\ worker \in [Items -> [step : {"none", "decide", "send", "record"},
                             epoch : 0..MaxAuths, stable : BOOLEAN, answer : MediaAnswers]]
    /\ checker \in [Items -> [step : {"none", "check", "record"}, visible : BOOLEAN]]
    /\ \A i \in Items :
          /\ db.upload[i].attempt \in {"none", "open"} \cup MediaAnswers
          /\ db.upload[i].attempt = "open" <=> db.media[i] = "dispatching"
          /\ visibility[i].open <=> db.media[i] = "reconciling"
          /\ visibility[i].leased => visibility[i].open

\* An upload leaves the process at most once, whatever crashes, answers that are
\* lost, renewed authorizations and overlapping passes, and only when its
\* attempt is journaled.
UploadsAreJournaled ==
    \A i \in Items :
        /\ sends[i] <= 1
        /\ sends[i] = 1 => db.upload[i].attempt # "none"

\* Every transaction about an action in flight locks its identity as
\* 'remote_present'; the plan of another transfer may take that away.
IsPresent(i) == IdentityOf(db, i).state = "remote_present"

\* No other plan of the seller names the vendor code of the item.
OwnCode(i) ==
    \A j \in Items : VendorOf[j] = VendorOf[i] => j = i /\ j \notin SharedItems

\* The upload waits for the product action of its group, if there is one.  The
\* row of a superseded plan lets in an existing card of the group at any time,
\* and a new one as soon as another plan has written that it is there.
InOrder(i) ==
    \A a \in ActionsOf(TransferOfItem(i)) : GroupOf[i] \in GroupTargets(a) =>
        i \in MembersOf[a] /\ (i \in Replanned => OwnCode(i))

\* No pass takes the action of a running worker away: as long as a worker has
\* an answer to record, its transaction accepts it, unless the plan of another
\* transfer has overwritten the identity.
WorkerResultIsAccepted ==
    \A i \in MediaItems :
        worker[i].step \in {"send", "record"} /\ IsPresent(i) /\ InOrder(i) =>
            \A answer \in MediaAnswers : RecordResultOk(db, i, answer)

\* An action in flight owns the identity of its vendor code, and none that has
\* ended or not begun does.
MediaIdentityIsBound ==
    \A i \in MediaItems : MediaInFlight(i) <=> IdentityOf(db, i).active = i

\* The uploads of the group of i that were attempted.
AttemptedMedia(i) == {j \in MediaOfGroup(db, i) : db.upload[j].attempt # "none"}

\* An action that ends without an attempt is one of an aborted plan.
Aborted(t) ==
    \E a \in ActionsOf(t) : db.action[a].state = "terminal" /\ db.action[a].attempt = "none"

\* When the last upload of a group ends, in whatever order, the projection stops
\* waiting for it, unless the plan was aborted: its media status is 'succeeded'
\* only if every attempted upload of the group was seen, and an upload of unknown
\* fate shows.
MediaProjectionFollowsJournal ==
    \A i \in MediaItems :
        LET t == TransferOfItem(i)
            status == db.rows[t].group[GroupOf[i]].media
            classes == {db.media[j] : j \in AttemptedMedia(i)}
        IN  /\ classes # {}
            /\ GroupMediaEnded(db, i)
            /\ \A j \in MediaOfGroup(db, i) : InOrder(j)
            => \/ status = "running" /\ Aborted(t)
               \/ /\ status # "running"
                  /\ status = "succeeded" => classes = {"success"}
                  /\ status = "unresolved" <=> classes \cap AttentionClasses # {}

\* An upload recorded as rejected or as never sent has put nothing on the card.
RejectedLeftCardUntouched ==
    \A i \in Items : db.media[i] \in {"rejected", "internal_error"} => received[i] = 0

\* The plan is over when its last upload is, not before.
PlanWaitsForMedia ==
    \A t \in Transfers :
        LET open == {i \in TransferItems(t) : db.media[i] \in OpenMediaStates} IN
        /\ db.plan[t] = "terminal" => open = {}
        /\ db.plan[t] = "executing" /\ open = {} =>
              \E a \in ActionsOf(t) : db.action[a].state \notin EndedStates

\* An upload in flight ends, in spite of a crash that leaves a lease behind, as
\* long as its identity is not overwritten.
UploadEnds ==
    \A i \in MediaItems : MediaInFlight(i) ~> (~MediaInFlight(i) \/ ~IsPresent(i))

\* The journal of uploads is sound: its columns agree, an upload is made once and
\* under an attempt, and 'rejected' means that the card is untouched.
UploadJournalIsSound == TypeOK /\ UploadsAreJournaled /\ RejectedLeftCardUntouched

\* What the uploads of a plan come to agrees everywhere: in the media status of
\* the group, in the state of the plan and in the owner of the identity.
MediaOutcomesAgree ==
    MediaProjectionFollowsJournal /\ PlanWaitsForMedia /\ MediaIdentityIsBound

=============================================================================
