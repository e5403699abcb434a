------------------------- MODULE TransferProjection -------------------------
(***************************************************************************)
(* The stored projection of one transfer, changed by the transactions of   *)
(* TransferRules.  Initialization, preparation, planning and publication   *)
(* run on goroutines of their own and every operator below is one of their *)
(* transactions.  Transactions of one transfer happen one at a time, in any*)
(* order that the guards admit: the code locks the row of wb.transfers     *)
(* before it looks at other groups' rows (lockTransferByID and             *)
(* lockTransferForPipelineResult), and what it writes before that are rows *)
(* of the groups and items its own result is about.  The commands are the  *)
(* ones the callers build: the planner's for a plan, any complete set of   *)
(* member results for an action.                                           *)
(***************************************************************************)
EXTENDS TransferRules, FiniteSets

CONSTANTS
    Groups,     \* the transfer's group targets
    Items,      \* the transfer's item targets
    Slots,      \* names of the product actions within one plan
    MaxPlans    \* bound on the number of plans saved for the transfer

\* A transfer has groups, and every group target has an item target
\* (groups_count > 0, and a group of a batch is made of its items).
ASSUME GroupAssumption ==
    /\ Groups # {}
    /\ GroupOf \in [Items -> Groups]
    /\ \A g \in Groups : \E i \in Items : GroupOf[i] = g

ASSUME PlanAssumption == MaxPlans \in Nat /\ NoPlan \notin Nat

\* ResultClass without "partial", which no item gets.
Classes == {"success", "skipped", "rejected", "unresolved", "internal_error"}

\* A product action is named by its plan and its name within the plan.
ActionIds == Nat \X Slots

ASSUME ActionAssumption == NoAction \notin ActionIds /\ NoClass \notin Classes

VARIABLES transfer, group, item, lastPlan

vars == <<transfer, group, item, lastPlan>>

rows == [transfer |-> transfer, group |-> group, item |-> item]

\* The rows a committed transaction leaves behind.
Commit(s) ==
    /\ transfer' = s.transfer
    /\ group' = s.group
    /\ item' = s.item

-----------------------------------------------------------------------------
Statuses ==
    {"not_started", "running", "succeeded", "rejected", "unresolved", "skipped"}

TransferRow ==
    [phase : PipelinePhases \cup {"initializing", "finished"},
     outcome : {"running", "succeeded", "partial", "rejected", "unresolved",
                "failed"},
     attention : BOOLEAN]

GroupRow ==
    [preparation : Statuses, publication : Statuses, media : Statuses,
     overall : {"running", "partial"} \cup Classes,
     attention : BOOLEAN,
     plan : Nat \cup {NoPlan}]

ItemRow ==
    [state : {"pending", "running", "terminal"},
     class : Classes \cup {NoClass},
     action : ActionIds \cup {NoAction},
     closed : BOOLEAN]

\* The columns hold values their CHECK (... IN ...) clauses admit.
TypeOK ==
    /\ transfer \in TransferRow
    /\ group \in [Groups -> GroupRow]
    /\ item \in [Items -> ItemRow]
    /\ lastPlan \in Nat

Init ==
    /\ transfer = InitialTransfer
    /\ group = [g \in Groups |-> InitialGroup]
    /\ item = [i \in Items |-> InitialItem]
    /\ lastPlan = 0

-----------------------------------------------------------------------------
\* Planner.Build and Saver.Save: the command for a wave of prepared groups.
\* A group is running when some of its items is to be published by an action
\* (all items of a group by the same one), rejected on a conflict with the
\* seller's catalogue, otherwise skipped because its cards already exist.
PlanCommand(wave, publish, conflict, media, slot) ==
    [plan   |-> lastPlan + 1,
     status |-> [g \in wave |->
        IF g \in conflict THEN "rejected"
        ELSE IF \E i \in publish : GroupOf[i] = g THEN "running"
        ELSE "skipped"],
     media  |-> media,
     action |-> [i \in {j \in Items : GroupOf[j] \in wave} |->
        IF i \in publish THEN <<lastPlan + 1, slot[GroupOf[i]]>> ELSE NoAction],
     class  |-> [i \in {j \in Items : GroupOf[j] \in wave} |->
        IF GroupOf[i] \in conflict THEN "rejected" ELSE "skipped"]]

\* The groups ListAwaitingAuthorization and LoadPublicationPlanningSource
\* hand to the planner.
ReadyGroups ==
    {g \in Groups : /\ group[g].preparation = "succeeded"
                    /\ group[g].publication = "not_started"}

InitializeTransfer ==
    /\ InitializeOk(rows)
    /\ Commit(Initialize(rows))
    /\ UNCHANGED lastPlan

FailInitialization ==
    /\ MarkInitializationFailedOk(rows)
    /\ Commit(MarkInitializationFailed(rows))
    /\ UNCHANGED lastPlan

StartPreparation ==
    /\ BeginPreparationOk(rows)
    /\ Commit(BeginPreparation(rows))
    /\ UNCHANGED lastPlan

PrepareGroup(g, status) ==
    /\ ApplyPreparationResultOk(rows, g)
    /\ Commit(ApplyPreparationResult(rows, g, status))
    /\ UNCHANGED lastPlan

SavePlan(wave, publish, conflict, media, slot) ==
    LET cmd == PlanCommand(wave, publish, conflict, media, slot) IN
    /\ lastPlan < MaxPlans
    /\ ApplyPublicationPlanResultOk(rows, cmd)
    /\ Commit(ApplyPublicationPlanResult(rows, cmd))
    /\ lastPlan' = lastPlan + 1

PlanWave ==
    \E wave \in SUBSET ReadyGroups \ {{}} :
    \E conflict \in SUBSET wave :
    \E publish \in SUBSET {i \in Items : GroupOf[i] \in wave \ conflict} :
    \E media \in SUBSET (wave \ conflict) :
    \E slot \in [wave -> Slots] :
        SavePlan(wave, publish, conflict, media, slot)

BeginAction ==
    /\ BeginPublicationActionOk(rows)
    /\ Commit(BeginPublicationAction(rows))
    /\ UNCHANGED lastPlan

MarkReconciling ==
    /\ MarkPublicationReconcilingOk(rows)
    /\ Commit(MarkPublicationReconciling(rows))
    /\ UNCHANGED lastPlan

BeginMedia ==
    /\ BeginPublicationMediaOk(rows)
    /\ Commit(BeginPublicationMedia(rows))
    /\ UNCHANGED lastPlan

FinishAction(a, class, skip) ==
    /\ ApplyPublicationActionResultOk(rows, a, class, skip)
    /\ Commit(ApplyPublicationActionResult(rows, class, skip))
    /\ UNCHANGED lastPlan

ActionItems(a) == {i \in Items : item[i].action = a}

FinishSomeAction ==
    \E a \in (1..lastPlan) \X Slots :
    \E class \in [ActionItems(a) -> Classes \ {"skipped"}] :
    \E skip \in SUBSET {GroupOf[i] : i \in ActionItems(a)} :
        FinishAction(a, class, skip)

FinishMedia(g, class) ==
    /\ ApplyPublicationMediaResultOk(rows, g)
    /\ Commit(ApplyPublicationMediaResult(rows, g, class))
    /\ UNCHANGED lastPlan

ResetPlan(plan) ==
    /\ ResetPublicationPlanningOk(rows, plan)
    /\ Commit(ResetPublicationPlanning(rows, plan))
    /\ UNCHANGED lastPlan

CorrectItem(i, class, close) ==
    /\ CorrectPublicationItemResultOk(rows, i, class, close)
    /\ Commit(CorrectPublicationItemResult(rows, i, class, close))
    /\ UNCHANGED lastPlan

Next ==
    \/ InitializeTransfer
    \/ FailInitialization
    \/ StartPreparation
    \/ \E g \in Groups, status \in PreparationEnded : PrepareGroup(g, status)
    \/ PlanWave
    \/ BeginAction
    \/ MarkReconciling
    \/ BeginMedia
    \/ FinishSomeAction
    \/ \E g \in Groups, class \in Classes : FinishMedia(g, class)
    \/ \E plan \in 1..lastPlan : ResetPlan(plan)
    \/ \E i \in Items, class \in Classes, close \in BOOLEAN :
          CorrectItem(i, class, close)

Spec == Init /\ [][Next]_vars

-----------------------------------------------------------------------------
(* Properties. *)

\* The transfer runs the pipeline over its groups, or has run it.
Activated == transfer.phase # "initializing" /\ transfer.outcome # "failed"

\* A transfer is finished exactly when none of its groups is running.  The
\* result of the last group is applied by whichever of four code paths comes
\* last (a preparation result, a plan without actions, an action result or a
\* media result), and each must notice that it is the last: a transfer whose
\* groups are all terminal while it is still running is in no stage's listing
\* and would never finish.
FinishedIffNoGroupRuns ==
    Activated => (transfer.phase = "finished" <=> RunningGroups(rows) = {})

\* The outcome of a finished transfer is the aggregate of the outcomes its
\* groups have now, also after operators corrected items of some groups.
OutcomeAggregatesGroups ==
    (transfer.phase = "finished" /\ Activated) =>
        transfer.outcome = TransferOutcome(rows)

\* The outcome of a group that went through an action or a media upload is
\* the aggregate of its items and its media: overall_outcome is written in
\* three places, which must agree.
OutcomeAggregatesItems ==
    \A g \in Groups :
        (group[g].overall # "running" /\ group[g].plan # NoPlan) =>
            \/ group[g].overall = GroupVerdict(group[g].media, ClassesOf(rows, g))
            \/ /\ group[g].overall = "skipped"
               /\ ClassesOf(rows, g) = {"skipped"}

\* No item is left behind: when a group has ended all its items have ended.
EndedGroupHasEndedItems ==
    \A g \in Groups :
        group[g].overall # "running" => AllItemsTerminal(rows, g)

\* An item that waits for publication is owned by an action of the plan its
\* group is on, so exactly that action's result can end it.
WaitingItemHasAction ==
    \A i \in Items :
        LET g == GroupOf[i] IN
        (item[i].state = "running" /\ group[g].publication # "not_started") =>
            /\ group[g].publication = "running"
            /\ item[i].action # NoAction
            /\ item[i].action[1] = group[g].plan

\* An item whose result is open for an operator is announced by its group.
OpenItemIsAnnounced ==
    \A i \in Items :
        LET g == GroupOf[i] IN
        (/\ item[i].class \in AttentionClasses
         /\ ~item[i].closed
         /\ group[g].overall # "running") => group[g].attention

\* The row constraints of the schema: no transaction above ever offers the
\* database a row that a CHECK of transfers, transfer_group_targets or
\* transfer_item_targets would refuse (which would roll it back for ever).
CheckConstraints ==
    /\ (transfer.phase = "finished") <=> (transfer.outcome # "running")
    /\ transfer.outcome = "running" => ~transfer.attention
    /\ transfer.outcome = "failed" => transfer.attention
    /\ \A g \in Groups :
          /\ group[g].overall = "running" => ~group[g].attention
          /\ \/ group[g].publication = "not_started" /\ group[g].plan = NoPlan
             \/ group[g].publication # "not_started" /\ group[g].plan # NoPlan
             \/ /\ group[g].preparation \in {"rejected", "unresolved"}
                /\ group[g].publication = "skipped"
                /\ group[g].media = "skipped"
                /\ group[g].plan = NoPlan
    /\ \A i \in Items :
          /\ (item[i].state = "terminal") <=> (item[i].class # NoClass)
          /\ item[i].state = "pending" => item[i].action = NoAction
          /\ item[i].closed => item[i].class \in AttentionClasses

\* A finished transfer stays finished, and afterwards only the items that
\* asked for attention may change.
FinishedIsFinal ==
    [][transfer.phase = "finished" =>
         /\ transfer'.phase = "finished"
         /\ \A i \in Items :
               item[i].class \notin AttentionClasses => item'[i] = item[i]]_vars

\* "media" is left only by finishing: actions of another group that begin or
\* reconcile meanwhile do not take the phase back, since media results are
\* accepted in that phase alone.
MediaPhaseIsKept ==
    [][transfer.phase = "media" => transfer'.phase \in {"media", "finished"}]_vars

\* Every item is accounted for: the outcome of its group counts it, what is open
\* is announced, and while it waits the action that will end it is known.
ItemsAreAccountedFor ==
    OutcomeAggregatesItems /\ WaitingItemHasAction /\ OpenItemIsAnnounced

=============================================================================
