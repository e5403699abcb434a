---------------------------- MODULE TransferRules ----------------------------
(***************************************************************************)
(* The transaction bodies of internal/feature/transfer/repository/postgres *)
(* as operators on a value s that holds the rows of one transfer:          *)
(*                                                                         *)
(*   s.transfer   the row of wb.transfers                                  *)
(*   s.group      the rows of wb.transfer_group_targets, by id             *)
(*   s.item       the rows of wb.transfer_item_targets, by id              *)
(*                                                                         *)
(* Every operation Op is a pair: OpOk(s, ...) is the condition under which *)
(* the Go method returns nil with an effect, Op(s, ...) the rows after it. *)
(* When OpOk is false the method returns an error (the transaction rolls   *)
(* back) or is an idempotent no-op, and the rows stay as they are.  Because*)
(* the operations are functions of s, a caller that makes several of them  *)
(* in one database transaction is modelled by composing them.              *)
(*                                                                         *)
(* Abstracted: an attention code is TRUE when the column is not NULL, the  *)
(* result codes, timestamps, revisions and remote ids are left out.        *)
(***************************************************************************)
EXTENDS Naturals

CONSTANTS
    GroupOf,    \* item target -> the group target it belongs to
    NoPlan,     \* publication_plan_id IS NULL
    NoAction,   \* source_action_id IS NULL
    NoClass     \* outcome_class IS NULL

-----------------------------------------------------------------------------
(* The values of the CHECKed text columns. *)

\* Phases in which the publication of some group may be under way.
ExecutingPhases == {"publishing", "reconciling", "media"}

\* preparationPipelinePhase and publicationPlanningPhase accept the same set.
PipelinePhases ==
    {"preparing", "awaiting_authorization"} \cup ExecutingPhases

PreparationEnded == {"succeeded", "rejected", "unresolved"}

PublicationEnded == {"succeeded", "rejected", "unresolved", "skipped"}

\* Item classes that ask an operator to look at the item.
AttentionClasses == {"unresolved", "internal_error"}

AcceptedClasses == {"success", "skipped"}

InitialGroup ==
    [preparation |-> "not_started", publication |-> "not_started",
     media |-> "not_started", overall |-> "running",
     attention |-> FALSE, plan |-> NoPlan]

InitialItem ==
    [state |-> "pending", class |-> NoClass, action |-> NoAction,
     closed |-> FALSE]

InitialTransfer ==
    [phase |-> "initializing", outcome |-> "running", attention |-> FALSE]

-----------------------------------------------------------------------------
(* Aggregation of items into their group and of groups into the transfer. *)

ItemsOf(s, g) == {i \in DOMAIN s.item : GroupOf[i] = g}

\* The item_counts CTE: only which classes occur matters to its readers.
ClassesOf(s, g) == {s.item[i].class : i \in ItemsOf(s, g)}

AllItemsTerminal(s, g) ==
    /\ ItemsOf(s, g) # {}
    /\ \A i \in ItemsOf(s, g) : s.item[i].state = "terminal"

\* publication_status of a group whose items are all terminal.
PublicationStatus(classes) ==
    IF classes \cap AttentionClasses # {} THEN "unresolved"
    ELSE IF "rejected" \in classes THEN "rejected"
    ELSE "succeeded"

\* overall_outcome of a group whose items and media are all terminal.
GroupVerdict(media, classes) ==
    IF media = "unresolved" THEN "unresolved"
    ELSE IF media = "rejected" THEN "partial"
    ELSE IF classes \cap AttentionClasses # {} THEN "unresolved"
    ELSE IF classes = {"rejected"} THEN "rejected"
    ELSE IF "rejected" \in classes /\ classes \cap AcceptedClasses # {}
         THEN "partial"
    ELSE "success"

RunningGroups(s) == {g \in DOMAIN s.group : s.group[g].overall = "running"}

GroupNeedsAttention(s) ==
    \E g \in DOMAIN s.group : s.group[g].overall \in AttentionClasses

\* groupToTransferOutcomeExpression: the outcome of a transfer none of whose
\* groups is running.
TransferOutcome(s) ==
    IF GroupNeedsAttention(s) THEN "unresolved"
    ELSE IF \A g \in DOMAIN s.group : s.group[g].overall = "rejected"
         THEN "rejected"
    ELSE IF \E g \in DOMAIN s.group : s.group[g].overall \in {"rejected", "partial"}
         THEN "partial"
    ELSE "succeeded"

Finished(s) ==
    [phase |-> "finished", outcome |-> TransferOutcome(s),
     attention |-> GroupNeedsAttention(s)]

IsRunning(s, phases) ==
    s.transfer.phase \in phases /\ s.transfer.outcome = "running"

-----------------------------------------------------------------------------
(* Initialization. *)

\* Repository.Initialize: writes the group and item targets, whose columns
\* take their defaults, and activates the transfer.
InitializeOk(s) == IsRunning(s, {"initializing"})

Initialize(s) == [s EXCEPT !.transfer.phase = "preparing"]

\* Repository.MarkInitializationFailed.
MarkInitializationFailedOk(s) == IsRunning(s, {"initializing"})

MarkInitializationFailed(s) ==
    [s EXCEPT !.transfer =
        [phase |-> "finished", outcome |-> "failed", attention |-> TRUE]]

-----------------------------------------------------------------------------
(* Preparation. *)

\* Repository.BeginPreparation: activates every group and item that was not
\* started; outside phase "preparing" it changes nothing.
BeginPreparationOk(s) == s.transfer.phase = "preparing"

BeginPreparation(s) ==
    [s EXCEPT
       !.group = [g \in DOMAIN s.group |->
            IF s.group[g].preparation = "not_started"
            THEN [s.group[g] EXCEPT !.preparation = "running"]
            ELSE s.group[g]],
       !.item = [i \in DOMAIN s.item |->
            IF s.item[i].state = "pending"
            THEN [s.item[i] EXCEPT !.state = "running"]
            ELSE s.item[i]]]

\* Mutant: a transfer whose last group ends in preparation is not finished.
AdvanceAfterPreparationNeverFinishes(s) ==
    IF \/ ~IsRunning(s, PipelinePhases)
       \/ \E g \in DOMAIN s.group : s.group[g].preparation \notin PreparationEnded
    THEN s
    ELSE [s EXCEPT !.transfer.phase =
            IF @ = "preparing" THEN "awaiting_authorization" ELSE @]

\* advanceTransferAfterPreparation: an UPDATE that matches no row until the
\* preparation of the last group has ended, and is then not an error.
AdvanceAfterPreparation(s) ==
    IF \/ ~IsRunning(s, PipelinePhases)
       \/ \E g \in DOMAIN s.group : s.group[g].preparation \notin PreparationEnded
    THEN s
    ELSE IF RunningGroups(s) = {} THEN [s EXCEPT !.transfer = Finished(s)]
    ELSE [s EXCEPT !.transfer.phase =
            IF @ = "preparing" THEN "awaiting_authorization" ELSE @]

\* The row of an item that ends with a class.
EndedItem(row, class) == [row EXCEPT !.state = "terminal", !.class = class]

\* The row of a group and of its items once its preparation has ended.
PreparedGroup(row, status) ==
    IF status = "succeeded"
    THEN [row EXCEPT !.preparation = status, !.overall = "running",
                     !.attention = FALSE]
    ELSE [row EXCEPT !.preparation = status,
                     !.publication = "skipped",
                     !.media       = "skipped",
                     !.overall     = status,
                     !.attention   = (status = "unresolved")]

\* Mutant: the items of a group whose preparation is unresolved are not ended.
PreparedItemRejectedOnly(row, status) ==
    IF status = "rejected" /\ row.state = "running"
    THEN EndedItem(row, status)
    ELSE row

PreparedItem(row, status) ==
    IF status # "succeeded" /\ row.state = "running"
    THEN EndedItem(row, status)
    ELSE row

EndPreparation(s, g, status) ==
    [s EXCEPT
       !.group = [x \in DOMAIN s.group |->
            IF x = g THEN PreparedGroup(s.group[x], status) ELSE s.group[x]],
       !.item = [i \in DOMAIN s.item |->
            IF GroupOf[i] = g THEN PreparedItem(s.item[i], status) ELSE s.item[i]]]

\* Repository.ApplyPreparationResult.
ApplyPreparationResultOk(s, g) ==
    /\ IsRunning(s, PipelinePhases)
    /\ s.group[g].preparation = "running"

ApplyPreparationResult(s, g, status) ==
    AdvanceAfterPreparation(EndPreparation(s, g, status))

-----------------------------------------------------------------------------
(* Planning.  A command has the plan's id, the status the planner gave each *)
(* group of the wave ("running", "skipped" or "rejected"), the groups that  *)
(* have a media action, and for each item of the wave the product action    *)
(* that will publish it, or NoAction and the class it ends with at once.    *)

PlannedGroup(row, status, hasMedia, plan) ==
    [row EXCEPT
       !.publication = status,
       !.media       = IF hasMedia THEN "running" ELSE "skipped",
       !.overall     = IF hasMedia THEN "running" ELSE status,
       !.attention   = FALSE,
       !.plan        = plan]

PlannedItem(row, action, class) ==
    IF action = NoAction
    THEN EndedItem(row, class)
    ELSE [row EXCEPT !.action = action]

WithPlan(s, cmd) ==
    [s EXCEPT
       !.group = [g \in DOMAIN s.group |->
            IF g \in DOMAIN cmd.status
            THEN PlannedGroup(s.group[g], cmd.status[g], g \in cmd.media, cmd.plan)
            ELSE s.group[g]],
       !.item = [i \in DOMAIN s.item |->
            IF i \in DOMAIN cmd.action
            THEN PlannedItem(s.item[i], cmd.action[i], cmd.class[i])
            ELSE s.item[i]]]

\* command.ActionCount > 0
HasActions(cmd) ==
    cmd.media # {} \/ \E i \in DOMAIN cmd.action : cmd.action[i] # NoAction

\* reduceTransferAfterPlanning, for a plan without actions.
ReduceAfterPlanning(s) ==
    IF /\ RunningGroups(s) = {}
       /\ \A i \in DOMAIN s.item : s.item[i].state = "terminal"
    THEN [s EXCEPT !.transfer = Finished(s)]
    ELSE [s EXCEPT !.transfer.attention =
            RunningGroups(s) = {} /\ GroupNeedsAttention(s)]

\* Repository.ApplyPublicationPlanResult.
ApplyPublicationPlanResultOk(s, cmd) ==
    /\ IsRunning(s, PipelinePhases)
    /\ \A g \in DOMAIN cmd.status :
          /\ s.group[g].preparation = "succeeded"
          /\ s.group[g].publication = "not_started"
          /\ s.group[g].overall = "running"
    /\ \A i \in DOMAIN cmd.action :
          /\ s.item[i].state = "running"
          /\ s.item[i].action = NoAction

ApplyPublicationPlanResult(s, cmd) ==
    LET planned == WithPlan(s, cmd) IN
    IF HasActions(cmd)
    THEN [planned EXCEPT !.transfer.phase =
            IF @ = "preparing" THEN "awaiting_authorization" ELSE @]
    ELSE ReduceAfterPlanning(planned)

-----------------------------------------------------------------------------
(* Execution. *)

\* Mutant: the phase "media" is not protected.
BeginPublicationActionAlwaysPublishing(s) ==
    [s EXCEPT !.transfer.phase = "publishing"]

\* Repository.BeginPublicationAction: "media" is never left for "publishing".
BeginPublicationActionOk(s) ==
    IsRunning(s, {"awaiting_authorization"} \cup ExecutingPhases)

BeginPublicationAction(s) ==
    [s EXCEPT !.transfer.phase = IF @ = "media" THEN "media" ELSE "publishing"]

\* Repository.MarkPublicationReconciling.
MarkPublicationReconcilingOk(s) == IsRunning(s, ExecutingPhases)

MarkPublicationReconciling(s) ==
    [s EXCEPT !.transfer.phase = IF @ = "media" THEN "media" ELSE "reconciling"]

\* Repository.BeginPublicationMedia.
BeginPublicationMediaOk(s) ==
    IsRunning(s, {"awaiting_authorization"} \cup ExecutingPhases)

BeginPublicationMedia(s) == [s EXCEPT !.transfer.phase = "media"]

\* advanceOrFinishPublicationTransfer and finishPublicationTransfer.
AdvanceOrFinish(s, activePhase) ==
    IF RunningGroups(s) = {} THEN [s EXCEPT !.transfer = Finished(s)]
    ELSE [s EXCEPT !.transfer.phase = IF @ = "media" THEN "media" ELSE activePhase]

\* finishPublicationActionItems: class gives the class of each finished item.
FinishItems(s, class) ==
    [s EXCEPT !.item = [i \in DOMAIN s.item |->
        IF i \in DOMAIN class
        THEN EndedItem(s.item[i], class[i])
        ELSE s.item[i]]]

\* skipPublicationActionMedia.
SkipMedia(s, groups) ==
    [s EXCEPT !.group = [g \in DOMAIN s.group |->
        IF g \in groups THEN [s.group[g] EXCEPT !.media = "skipped"]
        ELSE s.group[g]]]

\* finishPublicationActionGroups: a group whose media is pending stays running.
ReducedGroup(row, classes) ==
    IF row.media \in {"not_started", "running"}
    THEN [row EXCEPT !.publication = PublicationStatus(classes),
                     !.media       = "running",
                     !.overall     = "running",
                     !.attention   = FALSE]
    ELSE [row EXCEPT !.publication = PublicationStatus(classes),
                     !.overall     = GroupVerdict(row.media, classes),
                     !.attention   = \/ row.media = "unresolved"
                                     \/ classes \cap AttentionClasses # {}]

ReduceGroups(s, groups) ==
    [s EXCEPT !.group = [g \in DOMAIN s.group |->
        IF g \in groups THEN ReducedGroup(s.group[g], ClassesOf(s, g))
        ELSE s.group[g]]]

AffectedGroups(class, skip) == {GroupOf[i] : i \in DOMAIN class} \cup skip

\* Repository.ApplyPublicationActionResult.
ApplyPublicationActionResultOk(s, a, class, skip) ==
    /\ IsRunning(s, ExecutingPhases)
    /\ DOMAIN class # {}
    /\ \A i \in DOMAIN class :
          s.item[i].action = a /\ s.item[i].state = "running"
    /\ \A g \in skip :
          s.group[g].media \in {"not_started", "running", "skipped"}
    /\ \A g \in AffectedGroups(class, skip) :
          /\ s.group[g].overall = "running"
          /\ AllItemsTerminal(FinishItems(s, class), g)

ApplyPublicationActionResult(s, class, skip) ==
    AdvanceOrFinish(
        ReduceGroups(SkipMedia(FinishItems(s, class), skip),
                     AffectedGroups(class, skip)),
        "reconciling")

\* mediaStatus of a media result.
MediaStatus(class) ==
    CASE class = "success" -> "succeeded"
      [] class \in {"skipped", "rejected"} -> class
      [] OTHER -> "unresolved"

\* Repository.ApplyPublicationMediaResult.
ApplyPublicationMediaResultOk(s, g) ==
    /\ IsRunning(s, {"media"})
    /\ s.group[g].media = "running"
    /\ s.group[g].overall = "running"
    /\ s.group[g].publication \in PublicationEnded
    /\ AllItemsTerminal(s, g)

\* Mutant: the outcome of the group is the media outcome alone.
MediaGroupIgnoresItems(row, status, classes) ==
    [row EXCEPT !.media     = status,
                !.overall   = GroupVerdict(status, {}),
                !.attention = \/ status = "unresolved"
                              \/ classes \cap AttentionClasses # {}]

MediaGroup(row, status, classes) ==
    [row EXCEPT !.media     = status,
                !.overall   = GroupVerdict(status, classes),
                !.attention = \/ status = "unresolved"
                              \/ classes \cap AttentionClasses # {}]

WithMedia(s, g, status) ==
    [s EXCEPT !.group = [x \in DOMAIN s.group |->
        IF x = g THEN MediaGroup(s.group[x], status, ClassesOf(s, x))
        ELSE s.group[x]]]

ApplyPublicationMediaResult(s, g, class) ==
    AdvanceOrFinish(WithMedia(s, g, MediaStatus(class)), "media")

-----------------------------------------------------------------------------
(* Re-planning and correction. *)

\* Repository.ResetPublicationPlanning.
PlanGroups(s, plan) ==
    {g \in DOMAIN s.group :
        s.group[g].plan = plan /\ s.group[g].preparation = "succeeded"}

ResetPublicationPlanningOk(s, plan) ==
    IsRunning(s, PipelinePhases) /\ PlanGroups(s, plan) # {}

\* Mutant: the group keeps the id of the superseded plan.
ResetPublicationPlanningKeepsPlan(s, plan) ==
    [s EXCEPT
       !.group = [g \in DOMAIN s.group |->
            IF g \in PlanGroups(s, plan)
            THEN [InitialGroup EXCEPT !.preparation = "succeeded", !.plan = plan]
            ELSE s.group[g]],
       !.item = [i \in DOMAIN s.item |->
            IF GroupOf[i] \in PlanGroups(s, plan)
            THEN [InitialItem EXCEPT !.state = "running"]
            ELSE s.item[i]]]

ResetPublicationPlanning(s, plan) ==
    [s EXCEPT
       !.group = [g \in DOMAIN s.group |->
            IF g \in PlanGroups(s, plan)
            THEN [InitialGroup EXCEPT !.preparation = "succeeded"]
            ELSE s.group[g]],
       !.item = [i \in DOMAIN s.item |->
            IF GroupOf[i] \in PlanGroups(s, plan)
            THEN [InitialItem EXCEPT !.state = "running"]
            ELSE s.item[i]]]

\* Mutant: the present class of the item is not checked.
CorrectPublicationItemResultOkAnyItem(s, i, class, close) ==
    /\ s.transfer.phase = "finished"
    /\ s.transfer.outcome \notin {"running", "failed"}
    /\ s.item[i].action # NoAction
    /\ s.item[i].state = "terminal"
    /\ IF close THEN class = s.item[i].class /\ ~s.item[i].closed
                ELSE class \in {"success", "rejected"}
    /\ s.group[GroupOf[i]].overall # "running"
    /\ AllItemsTerminal(s, GroupOf[i])
    /\ RunningGroups(s) = {}

\* Repository.CorrectPublicationItemResult with the item row it expects: it
\* either closes the attention of the item or replaces its class by evidence.
CorrectPublicationItemResultOk(s, i, class, close) ==
    /\ s.transfer.phase = "finished"
    /\ s.transfer.outcome \notin {"running", "failed"}
    /\ s.item[i].action # NoAction
    /\ s.item[i].state = "terminal"
    /\ s.item[i].class \in AttentionClasses
    /\ IF close THEN class = s.item[i].class /\ ~s.item[i].closed
                ELSE class \in {"success", "rejected"}
    /\ s.group[GroupOf[i]].overall # "running"
    /\ AllItemsTerminal(s, GroupOf[i])
    /\ RunningGroups(s) = {}

HasOpenItem(s, g) ==
    \E i \in ItemsOf(s, g) :
        s.item[i].class \in AttentionClasses /\ ~s.item[i].closed

\* reduceGroup of CorrectPublicationItemResult.
CorrectedGroup(row, classes, open) ==
    [row EXCEPT !.publication = PublicationStatus(classes),
                !.overall     = GroupVerdict(row.media, classes),
                !.attention   = open \/ row.media = "unresolved"]

\* Mutant: the outcome of the transfer is not recomputed.
CorrectedTransferKeepsOutcome(s) ==
    [s.transfer EXCEPT
       !.attention = \E g \in DOMAIN s.group :
            s.group[g].overall \in AttentionClasses /\ s.group[g].attention]

\* reduceTransfer of CorrectPublicationItemResult.
CorrectedTransfer(s) ==
    [s.transfer EXCEPT
       !.outcome   = TransferOutcome(s),
       !.attention = \E g \in DOMAIN s.group :
            s.group[g].overall \in AttentionClasses /\ s.group[g].attention]

WithCorrection(s, i, class, close) ==
    [s EXCEPT !.item = [j \in DOMAIN s.item |->
        IF j = i THEN [s.item[j] EXCEPT !.class = class, !.closed = close]
        ELSE s.item[j]]]

ReduceCorrected(s, g) ==
    [s EXCEPT !.group = [x \in DOMAIN s.group |->
        IF x = g THEN CorrectedGroup(s.group[x], ClassesOf(s, x), HasOpenItem(s, x))
        ELSE s.group[x]]]

CorrectPublicationItemResult(s, i, class, close) ==
    LET reduced == ReduceCorrected(WithCorrection(s, i, class, close), GroupOf[i])
    IN  [reduced EXCEPT !.transfer = CorrectedTransfer(reduced)]

=============================================================================
