--------------------------- MODULE ProductJournal ---------------------------
(***************************************************************************)
(* The transactions that publish products, as operators on a value d that  *)
(* holds the rows they read and write:                                     *)
(*                                                                         *)
(*   d.rows        the projection of each transfer (module TransferRules)  *)
(*   d.plan        state of each transfer's row of publication_plans       *)
(*   d.auth        the plan's transfer_live_authorizations, in id order    *)
(*   d.action      the create_group / add_to_group rows of                 *)
(*                 publication_actions with their attempt and retry        *)
(*   d.member      outcome_class of each product member                    *)
(*   d.media       state of each item's upload_media action: planned,      *)
(*                 dispatching, reconciling, or its outcome_class          *)
(*   d.upload      the attempt of each item's upload_media action          *)
(*   d.attributed  items with a row in publication_attributions            *)
(*   d.identity    product_identities, by vendor code of the one seller    *)
(*                                                                         *)
(* As in TransferRules, OpOk is the condition under which the Go code      *)
(* commits and Op is the committed value; otherwise it returns an error    *)
(* and the transaction rolls back.                                         *)
(*                                                                         *)
(* Abstracted: a transfer has one plan, applied when the behaviour starts; *)
(* each item has at most one media action; an authorization that is past   *)
(* its expires_at but still in state 'authorized' is "overdue"; a submitted*)
(* attempt is its response_disposition, where an uncertain HTTP 200 with an*)
(* empty or unreadable body is "empty" and a call that never left the      *)
(* process (rejected_proven with internal_error members) is "unsent".      *)
(***************************************************************************)
EXTENDS TransferRules, Sequences

CONSTANTS
    Transfers, Items, Actions, Vendors,
    TransferOf,   \* product action -> its transfer
    MembersOf,    \* product action -> the items it publishes
    ExistingOf,   \* transfer -> its items whose cards existed at planning
    VendorOf,     \* item -> its vendor code
    MediaItems,   \* items with an upload_media action in the plan
    ThePlan,      \* the id of a transfer's plan
    Free          \* active_action_id IS NULL

ActionsOf(t) == {a \in Actions : TransferOf[a] = t}

ActionOf(i) == CHOOSE a \in Actions : i \in MembersOf[a]

PublishedItems(t) == UNION {MembersOf[a] : a \in ActionsOf(t)}

TransferItems(t) == PublishedItems(t) \cup ExistingOf[t]

\* ProductAction.VendorCodes and ProductAction.GroupTargetIDs.
VendorCodes(a) == {VendorOf[i] : i \in MembersOf[a]}

GroupTargets(a) == {GroupOf[i] : i \in MembersOf[a]}

\* ProductAction.PendingMembers.
PendingMembers(d, a) == {i \in MembersOf[a] : d.member[i] = NoClass}

\* What the schema and the planner say of a plan: ids are not null, an item is
\* of one transfer, and the planner makes at most one product action of a group
\* (decideGroup), so that two actions share neither items nor groups.
ASSUME JournalAssumption ==
    /\ TransferOf \in [Actions -> Transfers]
    /\ MembersOf \in [Actions -> (SUBSET Items) \ {{}}]
    /\ ExistingOf \in [Transfers -> SUBSET Items]
    /\ VendorOf \in [Items -> Vendors]
    /\ Free \notin Actions
    /\ NoAction \notin Actions
    /\ NoPlan # ThePlan
    /\ NoClass \notin {"success", "skipped", "rejected", "unresolved", "internal_error"}
    /\ \A t, u \in Transfers :
          t # u => TransferItems(t) \cap TransferItems(u) = {}
    /\ \A a, b \in Actions : a # b =>
          /\ MembersOf[a] \cap MembersOf[b] = {}
          /\ TransferOf[a] = TransferOf[b] => GroupTargets(a) \cap GroupTargets(b) = {}

EndedStates == {"terminal", "superseded"}

OpenMediaStates == {"planned", "dispatching", "reconciling"}

-----------------------------------------------------------------------------
(* The plan has just been saved and applied to the projection. *)

\* A group all of whose cards exist has nothing to publish.
PlannedStatus(t, g) ==
    IF \E i \in PublishedItems(t) : GroupOf[i] = g THEN "running" ELSE "skipped"

PlannedRows(t) ==
    [transfer |-> [phase |-> "awaiting_authorization", outcome |-> "running",
                   attention |-> FALSE],
     group |-> [g \in {GroupOf[i] : i \in TransferItems(t)} |->
        PlannedGroup([InitialGroup EXCEPT !.preparation = "succeeded"],
                     PlannedStatus(t, g),
                     \E i \in MediaItems : GroupOf[i] = g, ThePlan)],
     item |-> [i \in TransferItems(t) |->
        PlannedItem([InitialItem EXCEPT !.state = "running"],
                    IF i \in PublishedItems(t) THEN ActionOf(i) ELSE NoAction,
                    "skipped")]]

NoAttempt == [auth |-> 0, attempt |-> "none"]

\* The vendor codes whose cards the planner found.
ExistingVendors == {VendorOf[i] : i \in UNION {ExistingOf[t] : t \in Transfers}}

PlannedJournal ==
    [rows |-> [t \in Transfers |-> PlannedRows(t)],
     plan |-> [t \in Transfers |-> "awaiting_authorization"],
     auth |-> [t \in Transfers |-> <<>>],
     action |-> [a \in Actions |->
        [state |-> "planned", auth |-> 0, attempt |-> "none",
         retry |-> "none", baseline |-> [v \in Vendors |-> 0]]],
     member |-> [i \in Items |-> NoClass],
     media |-> [i \in Items |-> IF i \in MediaItems THEN "planned" ELSE "none"],
     upload |-> [i \in Items |-> NoAttempt],
     attributed |-> {},
     identity |-> [v \in Vendors |->
        [state |-> IF v \in ExistingVendors THEN "remote_present" ELSE "remote_missing",
         active |-> Free]]]

-----------------------------------------------------------------------------
(* The plan and its authorization. *)

\* PlanAttemptCount # 0.
PlanAttempted(d, t) ==
    \/ \E a \in ActionsOf(t) : d.action[a].attempt # "none"
    \/ \E i \in TransferItems(t) : d.upload[i].attempt # "none"

PlannedMedia(d, t) == {i \in TransferItems(t) : d.media[i] = "planned"}

PlanActionsEnded(d, t) ==
    /\ \A a \in ActionsOf(t) : d.action[a].state \in EndedStates
    /\ \A i \in TransferItems(t) : d.media[i] \notin OpenMediaStates

\* Mutant: the plan ends with its product actions.
ReducePlanIgnoresMedia(d, t) ==
    IF /\ d.plan[t] = "executing"
       /\ \A a \in ActionsOf(t) : d.action[a].state \in EndedStates
    THEN [d EXCEPT !.plan[t] = "terminal"]
    ELSE d

\* reducePublicationPlan.
ReducePlan(d, t) ==
    IF d.plan[t] = "executing" /\ PlanActionsEnded(d, t)
    THEN [d EXCEPT !.plan[t] = "terminal"]
    ELSE d

OpenAuthorization == {"authorized", "overdue"}

Expired(states) ==
    [e \in DOMAIN states |-> IF states[e] = "overdue" THEN "expired" ELSE states[e]]

\* AutomaticAuthorizationProcessor with ListAutomaticAuthorizationPlans and
\* LiveAuthorizationService.Authorize: requests and approves in one go, after
\* expiring the open authorization whose time is over.
AuthorizeOk(d, t) ==
    /\ IsRunning(d.rows[t], PipelinePhases)
    /\ d.plan[t] \in {"awaiting_authorization", "executing"}
    /\ \/ \E a \in ActionsOf(t) : d.action[a].state = "planned"
       \/ PlannedMedia(d, t) # {}
    /\ \A e \in DOMAIN d.auth[t] : d.auth[t][e] # "authorized"

Authorize(d, t) ==
    [d EXCEPT !.auth[t] = Append(Expired(@), "authorized")]

\* closeAuthorizationIfPlanTerminal: ChangeLiveState to 'closed', which leaves
\* an authorization that is no longer open alone.
CloseAuthorization(d, t, e) ==
    IF d.plan[t] = "terminal"
    THEN [d EXCEPT !.auth[t][e] =
            CASE @ = "authorized" -> "closed"
              [] @ = "overdue" -> "expired"
              [] OTHER -> @]
    ELSE d

\* LockValidLive of an authorization past its time commits its expiry.
ExpireAuthorization(d, t) == [d EXCEPT !.auth[t] = Expired(@)]

-----------------------------------------------------------------------------
(* The attempt. *)

\* Mutant: the identity may already belong to another action.
BindableAnyOwner(identity) == identity.state \in {"remote_missing", "mutation_pending"}

\* The WHERE clause of bindIdentities.
Bindable(identity) == identity.state = "remote_missing" /\ identity.active = Free

\* bindIdentities must match one row per member.
DistinctVendorCodes(a) ==
    \A i, j \in MembersOf[a] : VendorOf[i] = VendorOf[j] => i = j

\* LockValid, BeginProductAttempt and BeginWithin in one transaction.
BeginProductAttemptOk(d, a, e) ==
    LET t == TransferOf[a] IN
    /\ d.auth[t][e] = "authorized"
    /\ d.action[a].state = "planned"
    /\ d.plan[t] \in {"awaiting_authorization", "executing"}
    /\ BeginPublicationActionOk(d.rows[t])
    /\ DistinctVendorCodes(a)
    /\ \A v \in VendorCodes(a) : Bindable(d.identity[v])

BeginProductAttempt(d, a, e, baseline) ==
    LET t == TransferOf[a] IN
    [d EXCEPT
       !.identity = [v \in Vendors |->
            IF v \in VendorCodes(a)
            THEN [state |-> "mutation_pending", active |-> a]
            ELSE d.identity[v]],
       !.action[a] = [@ EXCEPT !.state = "dispatching", !.auth = e,
                               !.attempt = "open", !.baseline = baseline],
       !.plan[t] = "executing",
       !.rows[t] = BeginPublicationAction(@)]

\* The identity of a member whose outcome is recorded: a success and a
\* rejection release it, anything uncertain blocks it for other actions.
ReleasedIdentity(identity, class) ==
    CASE class = "rejected" -> [state |-> "rejected", active |-> Free]
      [] class = "success" -> [state |-> "remote_present", active |-> Free]
      [] OTHER -> [identity EXCEPT !.state = "blocked_uncertain"]

\* finishIdentity of both files matches one row per member or it is a conflict.
RecordMembersOk(d, a, class) ==
    \A i \in DOMAIN class :
        /\ d.member[i] = NoClass
        /\ d.identity[VendorOf[i]].active = a

\* recordProductReconciliationMembers, and the member loop of RecordSubmission.
RecordMembers(d, a, class) ==
    [d EXCEPT
       !.member = [i \in Items |->
            IF i \in DOMAIN class THEN class[i] ELSE d.member[i]],
       !.identity = [v \in Vendors |->
            IF \E i \in DOMAIN class : VendorOf[i] = v
            THEN ReleasedIdentity(d.identity[v],
                    class[CHOOSE i \in DOMAIN class : VendorOf[i] = v])
            ELSE d.identity[v]],
       !.attributed = @ \cup {i \in DOMAIN class : class[i] = "success"}]

\* finishPotentialMediaActions.
SkipPotentialMedia(d, a) ==
    [d EXCEPT !.media = [i \in Items |->
        IF i \in MembersOf[a] \ d.attributed /\ d.media[i] = "planned"
        THEN "skipped" ELSE d.media[i]]]

\* mediaGroupsToSkip: groups without a pending media action of the members.
MediaGroupsToSkip(d, a) ==
    GroupTargets(a) \ {GroupOf[i] : i \in {j \in MembersOf[a] : d.media[j] = "planned"}}

\* The rows of the journal once action a has ended with the given classes.
EndedAction(d, a, class) ==
    ReducePlan(
        [SkipPotentialMedia(RecordMembers(d, a, class), a)
            EXCEPT !.action[a].state = "terminal"],
        TransferOf[a])

\* The outcomes of all members, those recorded by earlier polls included.
MemberOutcomes(d, a) == [i \in MembersOf[a] |-> d.member[i]]

\* Mutant: what earlier polls recorded is reported as unresolved.
ProjectJournaledNewOnly(d, a, fresh) ==
    LET t == TransferOf[a] IN
    [d EXCEPT !.rows[t] = ApplyPublicationActionResult(
        @, [i \in MembersOf[a] |-> IF i \in fresh THEN d.member[i] ELSE "unresolved"],
        MediaGroupsToSkip(d, a))]

\* transferResults.ApplyWithin for an ended action.
ProjectJournaled(d, a, fresh) ==
    LET t == TransferOf[a] IN
    [d EXCEPT !.rows[t] = ApplyPublicationActionResult(
        @, MemberOutcomes(d, a), MediaGroupsToSkip(d, a))]

FinishActionOk(d, a, class) ==
    LET ended == EndedAction(d, a, class) IN
    /\ RecordMembersOk(d, a, class)
    /\ DOMAIN class = PendingMembers(d, a)
    /\ ApplyPublicationActionResultOk(d.rows[TransferOf[a]], a,
            MemberOutcomes(ended, a), MediaGroupsToSkip(ended, a))

FinishAction(d, a, class) ==
    CloseAuthorization(
        ProjectJournaled(EndedAction(d, a, class), a, DOMAIN class),
        TransferOf[a], d.action[a].auth)

-----------------------------------------------------------------------------
(* The answer of Wildberries to an attempt. *)

ProvenAnswers == {"rejected", "unsent"}

\* The class classifySubmissionEnvelope and internalNotDispatched give every
\* member of an attempt that ended with a proven answer.
ProvenClass(answer) == IF answer = "rejected" THEN "rejected" ELSE "internal_error"

\* recordSubmission, for an answer that needs reconciliation ...
AwaitReconciliationOk(d, a) ==
    /\ d.action[a].state = "dispatching"
    /\ MarkPublicationReconcilingOk(d.rows[TransferOf[a]])

AwaitReconciliation(d, a, answer) ==
    [d EXCEPT
       !.action[a] = [@ EXCEPT !.state = "reconciling", !.attempt = answer],
       !.identity = [v \in Vendors |->
            IF /\ answer # "accepted"
               /\ d.identity[v].active = a
               /\ d.identity[v].state = "mutation_pending"
            THEN [d.identity[v] EXCEPT !.state = "blocked_uncertain"]
            ELSE d.identity[v]],
       !.rows[TransferOf[a]] = MarkPublicationReconciling(@)]

\* ... and for one that proves what happened to every member.
ProvenOutcomes(a, answer) == [i \in MembersOf[a] |-> ProvenClass(answer)]

WithAnswer(d, a, answer) == [d EXCEPT !.action[a].attempt = answer]

RecordSubmissionOk(d, a, answer) ==
    IF answer \in ProvenAnswers
    THEN /\ d.action[a].state = "dispatching"
         /\ FinishActionOk(d, a, ProvenOutcomes(a, answer))
    ELSE AwaitReconciliationOk(d, a)

RecordSubmission(d, a, answer) ==
    IF answer \in ProvenAnswers
    THEN FinishAction(WithAnswer(d, a, answer), a, ProvenOutcomes(a, answer))
    ELSE AwaitReconciliation(d, a, answer)

\* RecordProductReconciliationPoll.
RecordPollOk(d, a, class) ==
    d.action[a].state = "reconciling" /\ RecordMembersOk(d, a, class)

\* FinishProductReconciliation and the transaction around it.
FinishReconciliationOk(d, a, class) ==
    d.action[a].state = "reconciling" /\ FinishActionOk(d, a, class)

\* BeginProductRetry.
BeginProductRetryOk(d, a) ==
    /\ d.action[a].state = "reconciling"
    /\ d.action[a].attempt = "empty"
    /\ d.action[a].retry = "none"

BeginProductRetry(d, a) == [d EXCEPT !.action[a].retry = "open"]

\* Mutant: an uncertain retry may be tried again.
RecordProductRetryReopens(d, a, answer) ==
    [d EXCEPT !.action[a].retry = IF answer = "uncertain" THEN "none" ELSE answer]

\* RecordProductRetry: only the retry's row changes.
RecordProductRetryOk(d, a) ==
    d.action[a].state = "reconciling" /\ d.action[a].retry = "open"

RecordProductRetry(d, a, answer) == [d EXCEPT !.action[a].retry = answer]

-----------------------------------------------------------------------------
(* The plan no longer fits the seller's catalogue. *)

PlannedActions(d, t) == {a \in ActionsOf(t) : d.action[a].state = "planned"}

\* SupersedeWithin, SupersedePlanBeforeDispatch and ResetPlanningWithin: the
\* plan is withdrawn as long as nothing of it was attempted.
SupersedePlanOk(d, a, e) ==
    LET t == TransferOf[a] IN
    /\ ~PlanAttempted(d, t)
    /\ d.auth[t][e] \in OpenAuthorization
    /\ PlannedActions(d, t) = ActionsOf(t)
    /\ \A i \in TransferItems(t) \cap MediaItems : d.media[i] = "planned"
    /\ d.plan[t] = "awaiting_authorization"
    /\ ResetPublicationPlanningOk(d.rows[t], ThePlan)

SupersedePlan(d, a, e) ==
    LET t == TransferOf[a] IN
    [d EXCEPT
       !.auth[t][e] = IF @ = "overdue" THEN "expired" ELSE "superseded",
       !.action = [b \in Actions |->
            IF b \in ActionsOf(t) THEN [d.action[b] EXCEPT !.state = "superseded"]
            ELSE d.action[b]],
       !.media = [i \in Items |->
            IF i \in PlannedMedia(d, t) THEN "superseded" ELSE d.media[i]],
       !.member = [i \in Items |->
            IF i \in TransferItems(t) THEN "skipped" ELSE d.member[i]],
       !.plan[t] = "superseded",
       !.rows[t] = ResetPublicationPlanning(@, ThePlan)]

\* The product actions AbortPlanAfterDispatch ends.
AbortedActions(d, t) == PlannedActions(d, t)

\* Mutant: the members of every action are finished, also of those under way.
AbortedItemsAll(d, t) == TransferItems(t)

AbortedItems(d, t) == UNION {MembersOf[a] : a \in AbortedActions(d, t)}

AbortedOutcomes(items) == [i \in items |-> "unresolved"]

\* AbortPlanAfterDispatch and ApplyWithin for each aborted action: what was not
\* attempted yet ends unresolved, every planned media action is skipped.
AbortPlanOk(d, a) ==
    LET t == TransferOf[a] IN
    /\ PlanAttempted(d, t)
    /\ d.action[a].state = "planned"
    /\ \A b \in AbortedActions(d, t) :
          ApplyPublicationActionResultOk(d.rows[t], b,
              AbortedOutcomes(MembersOf[b]), GroupTargets(b))

AbortedJournal(d, t) ==
    [d EXCEPT
       !.identity = [v \in Vendors |->
            IF /\ \E a \in AbortedActions(d, t) : v \in VendorCodes(a)
               /\ Bindable(d.identity[v])
            THEN [d.identity[v] EXCEPT !.state = "blocked_uncertain"]
            ELSE d.identity[v]],
       !.member = [i \in Items |->
            IF i \in AbortedItems(d, t) THEN "unresolved" ELSE d.member[i]],
       !.media = [i \in Items |->
            IF i \in PlannedMedia(d, t) THEN "skipped" ELSE d.media[i]],
       !.action = [b \in Actions |->
            IF b \in AbortedActions(d, t)
            THEN [d.action[b] EXCEPT !.state = "terminal"]
            ELSE d.action[b]]]

AbortPlan(d, a, e) ==
    LET t == TransferOf[a]
        groups == UNION {GroupTargets(b) : b \in AbortedActions(d, t)}
    IN  CloseAuthorization(
            [ReducePlan(AbortedJournal(d, t), t) EXCEPT
               !.rows[t] = ApplyPublicationActionResult(
                    @, AbortedOutcomes(AbortedItems(d, t)), groups)],
            t, e)

\* Mutant: the plan of another transfer overwrites any identity.
UpsertedIdentityAlways(identity, state) == [identity EXCEPT !.state = state]

\* upsertPlanIdentities, called when another transfer's plan is saved.
UpsertedIdentity(identity, state) ==
    IF identity.state \in {"mutation_pending", "blocked_uncertain"}
    THEN identity
    ELSE [identity EXCEPT !.state = state]

=============================================================================
