---------------------- MODULE TransferProjectionProofs ----------------------
(***************************************************************************)
(* Proofs about TransferProjection for any transfer: any sets of groups,   *)
(* items and action names and any number of plans.  The inductive invariant*)
(* Consistent says of the rows of one transfer that each is consistent     *)
(* (RowConsistent, ItemConsistent), that each item agrees with its group   *)
(* (LinkConsistent) and that the transfer agrees with its groups           *)
(* (TransferConsistent).  Every transaction of TransferRules preserves it  *)
(* (the lemmas ...Good), hence so does every step, and each property is a  *)
(* consequence.  A second invariant, Accounted, which rests on the first,  *)
(* says of the items of each group what its columns do not: whose they are,*)
(* what their classes add up to and that an open one is announced.         *)
(***************************************************************************)
EXTENDS TransferProjection, TLAPS

\* The rows of a transfer, as TransferRules passes them around.
Rows == [transfer : TransferRow, group : [Groups -> GroupRow],
         item : [Items -> ItemRow]]

\* The CASE expressions that reduce the item classes of a group (the item_counts
\* reductions) only yield statuses the columns admit.
LEMMA VerdictType ==
    ASSUME NEW media, NEW classes
    PROVE  /\ PublicationStatus(classes) \in {"succeeded", "rejected", "unresolved"}
           /\ GroupVerdict(media, classes) \in
                {"success", "partial", "rejected", "unresolved"}
BY DEF PublicationStatus, GroupVerdict

\* finishPublicationTransfer writes a transfer row whose outcome is the aggregate.
LEMMA FinishedType ==
    ASSUME NEW s
    PROVE  /\ Finished(s) \in TransferRow
           /\ TransferOutcome(s) \in {"succeeded", "partial", "rejected", "unresolved"}
           /\ Finished(s).phase = "finished"
           /\ Finished(s).outcome = TransferOutcome(s)
           /\ GroupNeedsAttention(s) \in BOOLEAN
BY DEF Finished, TransferOutcome, TransferRow, PipelinePhases, ExecutingPhases,
       GroupNeedsAttention

\* Every UPDATE of a group target yields a row with admissible columns.
LEMMA GroupRowType ==
    ASSUME NEW row \in GroupRow
    PROVE  /\ \A status \in PreparationEnded : PreparedGroup(row, status) \in GroupRow
           /\ \A status \in {"running", "skipped", "rejected"}, m \in BOOLEAN,
                 plan \in Nat : PlannedGroup(row, status, m, plan) \in GroupRow
           /\ \A classes : ReducedGroup(row, classes) \in GroupRow
           /\ \A status \in Statuses : \A classes : MediaGroup(row, status, classes) \in GroupRow
<1>1. \A status \in PreparationEnded : PreparedGroup(row, status) \in GroupRow
  BY ZenonT(60) DEF PreparedGroup, PreparationEnded, GroupRow, Statuses, Classes
<1>2. \A status \in {"running", "skipped", "rejected"}, m \in BOOLEAN,
                 plan \in Nat : PlannedGroup(row, status, m, plan) \in GroupRow
  BY ZenonT(60) DEF PlannedGroup, GroupRow, Statuses, Classes
<1>3. \A classes : ReducedGroup(row, classes) \in GroupRow
  BY ZenonT(60), VerdictType DEF ReducedGroup, GroupRow, Statuses, Classes
<1>4. ASSUME NEW status \in Statuses, NEW classes
      PROVE  MediaGroup(row, status, classes) \in GroupRow
  <2> DEFINE verdict == GroupVerdict(status, classes)
             attention == status = "unresolved" \/ classes \cap AttentionClasses # {}
  <2>1. verdict \in {"running", "partial"} \cup Classes
    BY VerdictType DEF Classes
  <2>2. attention \in BOOLEAN
    OBVIOUS
  <2> HIDE DEF verdict, attention
  <2>3. [row EXCEPT !.media = status, !.overall = verdict,
                    !.attention = attention] \in GroupRow
    BY <2>1, <2>2 DEF GroupRow
  <2> QED  BY <2>3 DEF MediaGroup, verdict, attention
<1> QED  BY <1>1, <1>2, <1>3, <1>4

\* The same for the group UPDATE of CorrectPublicationItemResult.
LEMMA CorrectedGroupType ==
    ASSUME NEW row \in GroupRow, NEW classes, NEW open \in BOOLEAN
    PROVE  CorrectedGroup(row, classes, open) \in GroupRow
<1> DEFINE pub == PublicationStatus(classes)
           verdict == GroupVerdict(row.media, classes)
<1>1. pub \in Statuses /\ verdict \in {"running", "partial"} \cup Classes
  BY VerdictType DEF Statuses, Classes
<1>2. (open \/ row.media = "unresolved") \in BOOLEAN
  OBVIOUS
<1> HIDE DEF pub, verdict
<1>3. [row EXCEPT !.publication = pub, !.overall = verdict,
                  !.attention = (open \/ row.media = "unresolved")] \in GroupRow
  BY <1>1, <1>2 DEF GroupRow
<1> QED  BY <1>3 DEF CorrectedGroup, pub, verdict

\* Every UPDATE of an item target yields a row with admissible columns.
LEMMA ItemRowType ==
    ASSUME NEW row \in ItemRow
    PROVE  /\ \A status \in PreparationEnded : PreparedItem(row, status) \in ItemRow
           /\ \A class \in Classes, action \in ActionIds \cup {NoAction} :
                 PlannedItem(row, action, class) \in ItemRow
           /\ \A class \in Classes : EndedItem(row, class) \in ItemRow
           /\ \A class \in Classes, close \in BOOLEAN :
                 [row EXCEPT !.class = class, !.closed = close] \in ItemRow
<1>1. \A status \in PreparationEnded : PreparedItem(row, status) \in ItemRow
  BY DEF PreparedItem, EndedItem, ItemRow, PreparationEnded, Classes
<1>2. \A class \in Classes, action \in ActionIds \cup {NoAction} :
         PlannedItem(row, action, class) \in ItemRow
  BY DEF PlannedItem, EndedItem, ItemRow
<1>3. \A class \in Classes : EndedItem(row, class) \in ItemRow
  BY DEF EndedItem, ItemRow
<1>4. \A class \in Classes, close \in BOOLEAN :
         [row EXCEPT !.class = class, !.closed = close] \in ItemRow
  BY DEF ItemRow
<1> QED  BY <1>1, <1>2, <1>3, <1>4

-----------------------------------------------------------------------------
\* A group is published after it was prepared and before it ends.
RowConsistent(row) ==
    /\ row.preparation # "skipped"
    /\ row.preparation \in {"not_started", "running"} =>
          row.publication = "not_started"
    /\ row.publication = "not_started" =>
          /\ row.media = "not_started"
          /\ row.overall = "running"
          /\ row.plan = NoPlan
    /\ row.publication # "not_started" =>
          \/ row.plan # NoPlan
          \/ /\ row.preparation \in {"rejected", "unresolved"}
             /\ row.publication = "skipped"
             /\ row.media = "skipped"
    /\ row.overall # "running" => row.publication \in PublicationEnded
    /\ row.overall = "running" => ~row.attention

\* The columns of an item agree with each other.
ItemConsistent(row) ==
    /\ row.state = "terminal" <=> row.class # NoClass
    /\ row.state = "pending" => row.action = NoAction
    /\ row.closed => row.class \in AttentionClasses

\* An item starts with its group's preparation, has an action only under its
\* group's plan, and has ended when its group's publication has.
LinkConsistent(grow, irow) ==
    /\ irow.state = "pending" <=> grow.preparation = "not_started"
    /\ grow.publication = "not_started" =>
          irow.state # "terminal" /\ irow.action = NoAction
    /\ grow.plan = NoPlan => irow.action = NoAction
    /\ grow.publication \in PublicationEnded => irow.state = "terminal"

RowsConsistent(s) ==
    /\ \A g \in Groups : RowConsistent(s.group[g])
    /\ \A i \in Items : ItemConsistent(s.item[i])
    /\ \A i \in Items : LinkConsistent(s.group[GroupOf[i]], s.item[i])

\* The transfer row agrees with its group rows.
TransferConsistent(s) ==
    /\ s.transfer.phase = "finished" <=> s.transfer.outcome # "running"
    /\ s.transfer.outcome = "running" => ~s.transfer.attention
    /\ s.transfer.outcome = "failed" => s.transfer.attention
    /\ s.transfer.phase = "initializing" =>
          \A g \in Groups : s.group[g].overall = "running"
    /\ (s.transfer.phase # "initializing" /\ s.transfer.outcome # "failed") =>
          (s.transfer.phase = "finished" <=> RunningGroups(s) = {})
    /\ (s.transfer.phase = "finished" /\ s.transfer.outcome # "failed") =>
          s.transfer.outcome = TransferOutcome(s)

Good(s) == s \in Rows /\ RowsConsistent(s) /\ TransferConsistent(s)

\* Moving a running transfer to another pipeline phase keeps its rows consistent
\* (BeginPublicationAction, MarkPublicationReconciling, BeginPublicationMedia).
LEMMA NewPhase ==
    ASSUME NEW s, Good(s), IsRunning(s, PipelinePhases),
           NEW phase \in PipelinePhases
    PROVE  Good([s EXCEPT !.transfer.phase = phase])
<1> DEFINE t == [s EXCEPT !.transfer.phase = phase]
<1>1. /\ t \in Rows /\ t.group = s.group /\ t.item = s.item
      /\ t.transfer.phase = phase /\ t.transfer.outcome = s.transfer.outcome
      /\ t.transfer.attention = s.transfer.attention
  BY DEF Good, Rows, TransferRow
<1>2. RunningGroups(t) = RunningGroups(s) /\ TransferOutcome(t) = TransferOutcome(s)
  BY <1>1 DEF RunningGroups, TransferOutcome, GroupNeedsAttention
<1>3. RowsConsistent(t)
  BY <1>1 DEF RowsConsistent, Good
<1>4. TransferConsistent(t)
  BY <1>1, <1>2 DEF TransferConsistent, Good, IsRunning, PipelinePhases, ExecutingPhases
<1> QED  BY <1>1, <1>3, <1>4 DEF Good

\* Finishing a transfer none of whose groups is running makes its rows consistent.
LEMMA NewFinish ==
    ASSUME NEW s, s \in Rows, RowsConsistent(s), RunningGroups(s) = {}
    PROVE  Good([s EXCEPT !.transfer = Finished(s)])
<1> DEFINE t == [s EXCEPT !.transfer = Finished(s)]
<1>1. /\ t \in Rows /\ t.group = s.group /\ t.item = s.item
      /\ t.transfer = Finished(s)
  BY FinishedType DEF Rows
<1>2. RunningGroups(t) = {} /\ TransferOutcome(t) = TransferOutcome(s)
  BY <1>1 DEF RunningGroups, TransferOutcome, GroupNeedsAttention
<1>3. RowsConsistent(t)
  BY <1>1 DEF RowsConsistent
<1>4. TransferConsistent(t)
  BY <1>1, <1>2, FinishedType DEF TransferConsistent
<1> QED  BY <1>1, <1>3, <1>4 DEF Good

\* While the pipeline runs and some group runs, the transfer row is consistent.
LEMMA StillRunning ==
    ASSUME NEW s, s \in Rows, RowsConsistent(s), IsRunning(s, PipelinePhases),
           ~s.transfer.attention, RunningGroups(s) # {}
    PROVE  Good(s)
BY DEF Good, TransferConsistent, IsRunning, PipelinePhases, ExecutingPhases

\* advanceOrFinishPublicationTransfer restores consistency after the groups of a
\* result were reduced: it finishes the transfer exactly when no group is running.
LEMMA AdvanceOrFinishGood ==
    ASSUME NEW s, s \in Rows, RowsConsistent(s), IsRunning(s, ExecutingPhases),
           ~s.transfer.attention, NEW active \in {"reconciling", "media"}
    PROVE  Good(AdvanceOrFinish(s, active))
<1>1. CASE RunningGroups(s) = {}
  BY <1>1, NewFinish DEF AdvanceOrFinish
<1>2. CASE RunningGroups(s) # {}
  <2>1. Good(s) /\ IsRunning(s, PipelinePhases)
    BY <1>2, StillRunning DEF IsRunning, PipelinePhases
  <2>2. (IF s.transfer.phase = "media" THEN "media" ELSE active) \in PipelinePhases
    BY DEF PipelinePhases, ExecutingPhases
  <2> QED  BY <1>2, <2>1, <2>2, NewPhase DEF AdvanceOrFinish
<1> QED  BY <1>1, <1>2

\* advanceTransferAfterPreparation does the same after a preparation result.
LEMMA AdvanceAfterPreparationGood ==
    ASSUME NEW s, s \in Rows, RowsConsistent(s), IsRunning(s, PipelinePhases),
           ~s.transfer.attention
    PROVE  Good(AdvanceAfterPreparation(s))
<1>1. CASE RunningGroups(s) = {}
  <2>1. \A g \in DOMAIN s.group : s.group[g].preparation \in PreparationEnded
    BY <1>1 DEF RunningGroups, RowsConsistent, RowConsistent, Rows, GroupRow,
                Statuses, PreparationEnded, PublicationEnded
  <2> QED  BY <1>1, <2>1, NewFinish DEF AdvanceAfterPreparation
<1>2. CASE RunningGroups(s) # {}
  <2>1. Good(s)
    BY <1>2, StillRunning
  <2>2. (IF s.transfer.phase = "preparing" THEN "awaiting_authorization"
         ELSE s.transfer.phase) \in PipelinePhases
    BY DEF PipelinePhases, ExecutingPhases, IsRunning
  <2> QED  BY <1>2, <2>1, <2>2, NewPhase DEF AdvanceAfterPreparation
<1> QED  BY <1>1, <1>2

\* Ending an item that has not ended keeps its row consistent.
LEMMA EndItem ==
    ASSUME NEW row \in ItemRow, ItemConsistent(row), row.state # "terminal",
           NEW class \in Classes
    PROVE  /\ ItemConsistent(EndedItem(row, class))
           /\ EndedItem(row, class).state = "terminal"
           /\ EndedItem(row, class).action = row.action
<1> DEFINE new == EndedItem(row, class)
<1>1. row.class = NoClass /\ NoClass \notin Classes
  BY ActionAssumption DEF ItemConsistent
<1>2. row.closed = FALSE
  BY <1>1 DEF ItemConsistent, AttentionClasses, Classes, ItemRow
<1>3. /\ new.state = "terminal" /\ new.class = class /\ new.closed = FALSE
      /\ new.action = row.action
  BY <1>2 DEF ItemRow, EndedItem
<1>4. class # NoClass
  BY <1>1
<1> HIDE DEF new
<1>5. ItemConsistent(new)
  BY <1>3, <1>4 DEF ItemConsistent
<1> QED  BY <1>3, <1>5 DEF new

\* The group and item UPDATEs of ApplyPreparationResult keep the rows of the
\* transfer's groups and items consistent.
LEMMA EndPreparationRows ==
    ASSUME NEW s, s \in Rows, RowsConsistent(s), NEW g \in Groups,
           NEW status \in PreparationEnded, s.group[g].preparation = "running"
    PROVE  /\ EndPreparation(s, g, status) \in Rows
           /\ RowsConsistent(EndPreparation(s, g, status))
           /\ EndPreparation(s, g, status).transfer = s.transfer
<1> DEFINE t == EndPreparation(s, g, status)
<1>1. /\ t \in Rows /\ t.transfer = s.transfer
      /\ \A x \in Groups : t.group[x] =
            IF x = g THEN PreparedGroup(s.group[x], status) ELSE s.group[x]
      /\ \A i \in Items : t.item[i] =
            IF GroupOf[i] = g THEN PreparedItem(s.item[i], status) ELSE s.item[i]
  BY ItemRowType, GroupRowType DEF EndPreparation, Rows
<1> HIDE DEF t
<1>2. \A x \in Groups : RowConsistent(t.group[x])
  <2>1. RowConsistent(PreparedGroup(s.group[g], status))
    BY DEF RowConsistent, PreparedGroup, RowsConsistent, Rows, GroupRow,
           PreparationEnded, PublicationEnded
  <2> QED  BY <1>1, <2>1 DEF RowsConsistent
<1>3. ASSUME NEW i \in Items
      PROVE  ItemConsistent(t.item[i]) /\ LinkConsistent(t.group[GroupOf[i]], t.item[i])
  <2>1. GroupOf[i] \in Groups
    BY GroupAssumption
  <2>2. /\ ItemConsistent(s.item[i]) /\ LinkConsistent(s.group[GroupOf[i]], s.item[i])
        /\ RowConsistent(s.group[GroupOf[i]]) /\ s.item[i] \in ItemRow
        /\ s.group[GroupOf[i]] \in GroupRow
    BY <2>1 DEF RowsConsistent, Rows
  <2>3. CASE GroupOf[i] # g
    BY <1>1, <2>1, <2>2, <2>3
  <2>4. CASE GroupOf[i] = g
    <3>1. /\ t.item[i] = PreparedItem(s.item[i], status)
          /\ t.group[GroupOf[i]] = PreparedGroup(s.group[GroupOf[i]], status)
      BY <1>1, <2>4
    <3>2. s.item[i].state = "running"
      BY <2>2, <2>4 DEF LinkConsistent, RowConsistent, ItemRow
    <3>4. CASE status = "succeeded"
      BY <2>2, <2>4, <3>1, <3>2, <3>4
      DEF LinkConsistent, PreparedItem, PreparedGroup, GroupRow
    <3>5. CASE status # "succeeded"
      <4>1. t.item[i] = EndedItem(s.item[i], status)
        BY <3>1, <3>2, <3>5 DEF PreparedItem
      <4>2. /\ t.group[GroupOf[i]].publication = "skipped"
            /\ t.group[GroupOf[i]].preparation = status
            /\ t.group[GroupOf[i]].plan = s.group[GroupOf[i]].plan
        BY <2>2, <3>1, <3>5 DEF PreparedGroup, GroupRow
      <4>3. ItemConsistent(t.item[i])
        BY <2>2, <3>2, <3>5, <4>1, EndItem DEF PreparationEnded, Classes
      <4>4. LinkConsistent(t.group[GroupOf[i]], t.item[i])
        BY <2>2, <3>2, <3>5, <4>1, <4>2, EndItem
        DEF LinkConsistent, PreparationEnded, Classes
      <4> QED  BY <4>3, <4>4
    <3> QED  BY <3>4, <3>5
  <2> QED  BY <2>3, <2>4
<1> QED  BY <1>1, <1>2, <1>3 DEF RowsConsistent, t

\* ApplyPreparationResult keeps the stored transfer consistent.
LEMMA ApplyPreparationResultGood ==
    ASSUME NEW s, Good(s), NEW g \in Groups, NEW status \in PreparationEnded,
           ApplyPreparationResultOk(s, g)
    PROVE  Good(ApplyPreparationResult(s, g, status))
BY EndPreparationRows, AdvanceAfterPreparationGood
DEF ApplyPreparationResult, ApplyPreparationResultOk, Good, TransferConsistent, IsRunning

\* Initialize keeps the stored transfer consistent.
LEMMA InitializeGood ==
    ASSUME NEW s, Good(s), InitializeOk(s)
    PROVE  Good(Initialize(s))
<1> DEFINE t == Initialize(s)
<1>1. /\ t \in Rows /\ t.group = s.group /\ t.item = s.item
      /\ t.transfer.phase = "preparing" /\ t.transfer.outcome = s.transfer.outcome
      /\ t.transfer.attention = s.transfer.attention
  BY DEF Good, Rows, TransferRow, Initialize, PipelinePhases
<1>2. RunningGroups(t) # {}
  BY <1>1, GroupAssumption
  DEF RunningGroups, Good, Rows, TransferConsistent, InitializeOk, IsRunning
<1>3. RowsConsistent(t) /\ IsRunning(t, PipelinePhases) /\ ~t.transfer.attention
  BY <1>1
  DEF RowsConsistent, Good, IsRunning, InitializeOk, TransferConsistent, PipelinePhases
<1> QED  BY <1>1, <1>2, <1>3, StillRunning

\* MarkInitializationFailed keeps the stored transfer consistent.
LEMMA MarkInitializationFailedGood ==
    ASSUME NEW s, Good(s), MarkInitializationFailedOk(s)
    PROVE  Good(MarkInitializationFailed(s))
<1> DEFINE t == MarkInitializationFailed(s)
<1>1. /\ t \in Rows /\ t.group = s.group /\ t.item = s.item
      /\ t.transfer.phase = "finished" /\ t.transfer.outcome = "failed"
      /\ t.transfer.attention = TRUE
  BY DEF Good, Rows, TransferRow, MarkInitializationFailed
<1> HIDE DEF t
<1>2. RowsConsistent(t)
  BY <1>1 DEF RowsConsistent, Good
<1>3. TransferConsistent(t)
  BY <1>1 DEF TransferConsistent
<1> QED  BY <1>1, <1>2, <1>3 DEF Good, t

\* Operations that leave the transfer row alone and leave some group running.
LEMMA RowsOnly ==
    ASSUME NEW s, Good(s), IsRunning(s, PipelinePhases), NEW t, t \in Rows,
           t.transfer = s.transfer, RowsConsistent(t), RunningGroups(t) # {}
    PROVE  Good(t)
<1>1. IsRunning(t, PipelinePhases) /\ ~t.transfer.attention
  BY DEF Good, TransferConsistent, IsRunning
<1> QED  BY <1>1, StillRunning

\* BeginPreparation keeps the stored transfer consistent.
LEMMA BeginPreparationGood ==
    ASSUME NEW s, Good(s), BeginPreparationOk(s)
    PROVE  Good(BeginPreparation(s))
<1> DEFINE t == BeginPreparation(s)
           G(row) == IF row.preparation = "not_started"
                     THEN [row EXCEPT !.preparation = "running"] ELSE row
           I(row) == IF row.state = "pending"
                     THEN [row EXCEPT !.state = "running"] ELSE row
<1>1. /\ \A row \in GroupRow : G(row) \in GroupRow /\ G(row).overall = row.overall
      /\ \A row \in ItemRow : I(row) \in ItemRow
  BY DEF GroupRow, ItemRow, Statuses
<1>2. /\ t \in Rows /\ t.transfer = s.transfer
      /\ \A g \in Groups : t.group[g] = G(s.group[g])
      /\ \A i \in Items : t.item[i] = I(s.item[i])
  BY <1>1 DEF BeginPreparation, Good, Rows
<1>3. ASSUME NEW grow \in GroupRow, RowConsistent(grow)
      PROVE  RowConsistent(G(grow))
  BY <1>3 DEF RowConsistent, GroupRow, PublicationEnded
<1>4. ASSUME NEW grow \in GroupRow, RowConsistent(grow),
             NEW irow \in ItemRow, ItemConsistent(irow), LinkConsistent(grow, irow)
      PROVE  ItemConsistent(I(irow)) /\ LinkConsistent(G(grow), I(irow))
  <2>1. CASE irow.state = "pending"
    BY <1>4, <2>1 DEF ItemConsistent, LinkConsistent, GroupRow, ItemRow,
       RowConsistent, PublicationEnded
  <2>2. CASE irow.state # "pending"
    BY <1>4, <2>2 DEF ItemConsistent, LinkConsistent, GroupRow, ItemRow
  <2> QED  BY <2>1, <2>2
<1> HIDE DEF t, G, I
<1>5. RowsConsistent(t)
  BY <1>2, <1>3, <1>4, GroupAssumption DEF RowsConsistent, Good, Rows
<1>6. IsRunning(s, PipelinePhases) /\ RunningGroups(s) # {}
  BY DEF BeginPreparationOk, IsRunning, PipelinePhases, Good, TransferConsistent, Rows,
         TransferRow
<1>7. RunningGroups(t) # {}
  BY <1>1, <1>2, <1>6 DEF RunningGroups, Good, Rows
<1> QED  BY <1>2, <1>5, <1>6, <1>7, RowsOnly DEF t

-----------------------------------------------------------------------------
\* What every plan command has: it covers exactly the items of its groups,
\* and an item that an action publishes is in a running group.
PlannedCommand(cmd) ==
    /\ DOMAIN cmd.status \subseteq Groups
    /\ \A g \in DOMAIN cmd.status :
          cmd.status[g] \in {"running", "skipped", "rejected"}
    /\ cmd.media \subseteq DOMAIN cmd.status
    /\ DOMAIN cmd.action = {i \in Items : GroupOf[i] \in DOMAIN cmd.status}
    /\ \A i \in DOMAIN cmd.action :
          /\ cmd.action[i] \in ActionIds \cup {NoAction}
          /\ cmd.action[i] # NoAction => cmd.status[GroupOf[i]] = "running"
          /\ cmd.class[i] \in {"rejected", "skipped"}
    /\ cmd.plan \in Nat

\* The command of Saver.Save has the shape ApplyPublicationPlanResult relies on.
LEMMA PlanCommandPlanned ==
    ASSUME NEW wave \in SUBSET Groups, NEW conflict \in SUBSET wave,
           NEW publish \in SUBSET {i \in Items : GroupOf[i] \in wave \ conflict},
           NEW media \in SUBSET (wave \ conflict),
           NEW slot \in [wave -> Slots], lastPlan \in Nat
    PROVE  PlannedCommand(PlanCommand(wave, publish, conflict, media, slot))
<1> DEFINE cmd == PlanCommand(wave, publish, conflict, media, slot)
<1>1. /\ DOMAIN cmd.status = wave /\ cmd.media = media /\ cmd.plan = lastPlan + 1
      /\ DOMAIN cmd.action = {i \in Items : GroupOf[i] \in wave}
  BY DEF PlanCommand
<1>2. \A g \in wave : cmd.status[g] = IF g \in conflict THEN "rejected"
        ELSE IF \E i \in publish : GroupOf[i] = g THEN "running" ELSE "skipped"
  BY DEF PlanCommand
<1>3. \A i \in {j \in Items : GroupOf[j] \in wave} :
        /\ cmd.action[i] = IF i \in publish THEN <<lastPlan + 1, slot[GroupOf[i]]>>
                           ELSE NoAction
        /\ cmd.class[i] = IF GroupOf[i] \in conflict THEN "rejected" ELSE "skipped"
  BY DEF PlanCommand
<1>4. \A i \in publish : <<lastPlan + 1, slot[GroupOf[i]]>> \in ActionIds
  BY DEF ActionIds
<1> HIDE DEF cmd
<1>5. \A g \in DOMAIN cmd.status :
         cmd.status[g] \in {"running", "skipped", "rejected"}
  BY <1>1, <1>2
<1>6. ASSUME NEW i \in DOMAIN cmd.action
      PROVE  /\ cmd.action[i] \in ActionIds \cup {NoAction}
             /\ cmd.action[i] # NoAction => cmd.status[GroupOf[i]] = "running"
             /\ cmd.class[i] \in {"rejected", "skipped"}
  <2>1. i \in Items /\ GroupOf[i] \in wave
    BY <1>1
  <2>2. i \in publish => GroupOf[i] \notin conflict
    OBVIOUS
  <2>3. /\ cmd.action[i] = IF i \in publish THEN <<lastPlan + 1, slot[GroupOf[i]]>>
                           ELSE NoAction
        /\ cmd.class[i] = IF GroupOf[i] \in conflict THEN "rejected" ELSE "skipped"
    BY <1>3, <2>1
  <2>4. cmd.action[i] \in ActionIds \cup {NoAction}
    BY <1>4, <2>3
  <2>5. i \in publish => cmd.status[GroupOf[i]] = "running"
    BY <1>2, <2>1, <2>2
  <2>6. cmd.action[i] # NoAction => cmd.status[GroupOf[i]] = "running"
    BY <2>3, <2>5
  <2>7. cmd.class[i] \in {"rejected", "skipped"}
    BY <2>3
  <2> QED  BY <2>4, <2>6, <2>7
<1>7. PlannedCommand(cmd)
  BY <1>1, <1>5, <1>6 DEF PlannedCommand
<1> QED  BY <1>7 DEF cmd

\* updatePublicationPlanGroups and updatePublicationPlanItems keep the rows of
\* the groups and items consistent, and a plan with actions leaves a group running.
LEMMA WithPlanRows ==
    ASSUME NEW s, Good(s), NEW cmd, PlannedCommand(cmd),
           ApplyPublicationPlanResultOk(s, cmd)
    PROVE  /\ WithPlan(s, cmd) \in Rows
           /\ RowsConsistent(WithPlan(s, cmd))
           /\ WithPlan(s, cmd).transfer = s.transfer
           /\ HasActions(cmd) => RunningGroups(WithPlan(s, cmd)) # {}
<1> DEFINE t == WithPlan(s, cmd)
           G(g) == PlannedGroup(s.group[g], cmd.status[g], g \in cmd.media, cmd.plan)
           I(i) == PlannedItem(s.item[i], cmd.action[i], cmd.class[i])
<1>1. /\ t.transfer = s.transfer
      /\ t \in Rows
      /\ \A g \in Groups : t.group[g] = IF g \in DOMAIN cmd.status THEN G(g) ELSE s.group[g]
      /\ \A i \in Items : t.item[i] = IF i \in DOMAIN cmd.action THEN I(i) ELSE s.item[i]
  <2>1. ASSUME NEW g \in DOMAIN cmd.status  PROVE G(g) \in GroupRow
    <3>1. /\ s.group[g] \in GroupRow /\ cmd.plan \in Nat
          /\ (g \in cmd.media) \in BOOLEAN
          /\ cmd.status[g] \in {"running", "skipped", "rejected"}
      BY DEF PlannedCommand, Good, Rows
    <3> QED  BY <3>1, GroupRowType
  <2>2. \A i \in DOMAIN cmd.action : I(i) \in ItemRow
    BY ItemRowType DEF PlannedCommand, Good, Rows, Classes
  <2> HIDE DEF G, I
  <2>3. t = [s EXCEPT
              !.group = [g \in DOMAIN s.group |->
                            IF g \in DOMAIN cmd.status THEN G(g) ELSE s.group[g]],
              !.item = [i \in DOMAIN s.item |->
                            IF i \in DOMAIN cmd.action THEN I(i) ELSE s.item[i]]]
    BY DEF WithPlan, G, I
  <2> HIDE DEF t
  <2> QED  BY <2>1, <2>2, <2>3 DEF Good, Rows
<1>2. ASSUME NEW g \in DOMAIN cmd.status
      PROVE  /\ RowConsistent(G(g))
             /\ G(g).publication = cmd.status[g]
             /\ G(g).preparation = "succeeded" /\ G(g).plan # NoPlan
             /\ (g \in cmd.media \/ cmd.status[g] = "running") => G(g).overall = "running"
  <2>1. /\ s.group[g] \in GroupRow /\ s.group[g].preparation = "succeeded"
        /\ cmd.plan \in Nat /\ NoPlan \notin Nat
        /\ cmd.status[g] \in {"running", "skipped", "rejected"}
    BY PlanAssumption DEF PlannedCommand, Good, Rows, ApplyPublicationPlanResultOk
  <2> QED
    BY <2>1 DEF PlannedGroup, RowConsistent, GroupRow, PublicationEnded
<1>3. ASSUME NEW i \in DOMAIN cmd.action
      PROVE  /\ ItemConsistent(I(i))
             /\ I(i).state \in {"running", "terminal"}
             /\ cmd.status[GroupOf[i]] # "running" => I(i).state = "terminal"
  <2>1. /\ s.item[i] \in ItemRow /\ s.item[i].state = "running"
        /\ ItemConsistent(s.item[i]) /\ cmd.class[i] \in Classes
        /\ cmd.action[i] # NoAction => cmd.status[GroupOf[i]] = "running"
    BY DEF PlannedCommand, Good, Rows, RowsConsistent, ApplyPublicationPlanResultOk, Classes
  <2>2. CASE cmd.action[i] = NoAction
    BY <2>1, <2>2, EndItem DEF PlannedItem
  <2>3. CASE cmd.action[i] # NoAction
    BY <2>1, <2>3 DEF PlannedItem, ItemConsistent, ItemRow
  <2> QED  BY <2>2, <2>3
<1> HIDE DEF t, G, I
<1>4. \A g \in Groups : RowConsistent(t.group[g])
  BY <1>1, <1>2 DEF RowsConsistent, Good
<1>5. ASSUME NEW i \in Items
      PROVE  ItemConsistent(t.item[i]) /\ LinkConsistent(t.group[GroupOf[i]], t.item[i])
  <2>1. GroupOf[i] \in Groups
    BY GroupAssumption
  <2>2. CASE GroupOf[i] \in DOMAIN cmd.status
    <3>1. i \in DOMAIN cmd.action
      BY <2>2 DEF PlannedCommand
    <3>2. /\ cmd.status[GroupOf[i]] \in {"running", "skipped", "rejected"}
          /\ t.group[GroupOf[i]] = G(GroupOf[i]) /\ t.item[i] = I(i)
      BY <1>1, <2>1, <2>2, <3>1 DEF PlannedCommand
    <3> QED  BY <1>2, <1>3, <2>2, <3>1, <3>2 DEF LinkConsistent, PublicationEnded
  <2>3. CASE GroupOf[i] \notin DOMAIN cmd.status
    <3>1. i \notin DOMAIN cmd.action
      BY <2>3 DEF PlannedCommand
    <3> QED  BY <1>1, <2>1, <2>3, <3>1 DEF RowsConsistent, Good
  <2> QED  BY <2>2, <2>3
<1>6. HasActions(cmd) => RunningGroups(t) # {}
  <2>1. SUFFICES ASSUME HasActions(cmd)
                 PROVE  \E g \in DOMAIN cmd.status :
                            g \in cmd.media \/ cmd.status[g] = "running"
    BY <1>1, <1>2 DEF RunningGroups, PlannedCommand, Rows
  <2> QED  BY <2>1 DEF HasActions, PlannedCommand
<1> QED  BY <1>1, <1>4, <1>5, <1>6 DEF RowsConsistent, t

\* ApplyPublicationPlanResult keeps the stored transfer consistent.
LEMMA ApplyPublicationPlanResultGood ==
    ASSUME NEW s, Good(s), NEW cmd, PlannedCommand(cmd),
           ApplyPublicationPlanResultOk(s, cmd)
    PROVE  Good(ApplyPublicationPlanResult(s, cmd))
<1> DEFINE t == WithPlan(s, cmd)
<1>1. /\ t \in Rows /\ RowsConsistent(t) /\ t.transfer = s.transfer
      /\ HasActions(cmd) => RunningGroups(t) # {}
  BY WithPlanRows
<1>2. IsRunning(t, PipelinePhases) /\ t.transfer.attention = FALSE
  BY <1>1 DEF ApplyPublicationPlanResultOk, IsRunning, Good, TransferConsistent, Rows,
     TransferRow
<1> HIDE DEF t
<1>3. CASE HasActions(cmd)
  <2>1. Good(t)
    BY <1>1, <1>2, <1>3, StillRunning
  <2>2. (IF t.transfer.phase = "preparing" THEN "awaiting_authorization"
         ELSE t.transfer.phase) \in PipelinePhases
    BY <1>2 DEF PipelinePhases, IsRunning
  <2> QED  BY <1>2, <1>3, <2>1, <2>2, NewPhase DEF ApplyPublicationPlanResult, t
<1>4. CASE ~HasActions(cmd)
  <2>1. CASE RunningGroups(t) = {}
    <3>1. \A i \in DOMAIN t.item : t.item[i].state = "terminal"
      BY <1>1, <2>1, GroupAssumption
      DEF RunningGroups, RowsConsistent, LinkConsistent, RowConsistent, Rows
    <3> QED  BY <1>1, <1>4, <2>1, <3>1, NewFinish
             DEF ApplyPublicationPlanResult, ReduceAfterPlanning, t
  <2>2. CASE RunningGroups(t) # {}
    <3>1. [t EXCEPT !.transfer.attention = FALSE] = t
      BY <1>1, <1>2 DEF Rows, TransferRow
    <3>2. ReduceAfterPlanning(t) = t
      BY <2>2, <3>1 DEF ReduceAfterPlanning
    <3> QED  BY <1>1, <1>2, <1>4, <2>2, <3>2, StillRunning
             DEF ApplyPublicationPlanResult, t
  <2> QED  BY <2>1, <2>2
<1> QED  BY <1>3, <1>4

-----------------------------------------------------------------------------
\* The three operations that only move the phase keep the transfer consistent.
LEMMA PhaseOpsGood ==
    ASSUME NEW s, Good(s)
    PROVE  /\ BeginPublicationActionOk(s) => Good(BeginPublicationAction(s))
           /\ MarkPublicationReconcilingOk(s) => Good(MarkPublicationReconciling(s))
           /\ BeginPublicationMediaOk(s) => Good(BeginPublicationMedia(s))
<1>1. ASSUME IsRunning(s, {"awaiting_authorization"} \cup ExecutingPhases)
      PROVE  IsRunning(s, PipelinePhases)
  BY <1>1 DEF IsRunning, PipelinePhases
<1>2. ASSUME IsRunning(s, ExecutingPhases)
      PROVE  IsRunning(s, PipelinePhases)
  BY <1>2 DEF IsRunning, PipelinePhases
<1>3. \A p \in ExecutingPhases :
         (IF s.transfer.phase = "media" THEN "media" ELSE p) \in PipelinePhases
  BY DEF PipelinePhases, ExecutingPhases
<1>4. {"media", "reconciling", "publishing"} = ExecutingPhases
  BY DEF ExecutingPhases
<1>5. BeginPublicationActionOk(s) => Good(BeginPublicationAction(s))
  BY <1>1, <1>3, <1>4, NewPhase DEF BeginPublicationActionOk, BeginPublicationAction
<1>6. MarkPublicationReconcilingOk(s) => Good(MarkPublicationReconciling(s))
  BY <1>2, <1>3, <1>4, NewPhase
  DEF MarkPublicationReconcilingOk, MarkPublicationReconciling
<1>7. BeginPublicationMediaOk(s) => Good(BeginPublicationMedia(s))
  BY <1>1, NewPhase
  DEF BeginPublicationMediaOk, BeginPublicationMedia, PipelinePhases, ExecutingPhases
<1> QED  BY <1>5, <1>6, <1>7

\* A reduced group is consistent when its publication had begun.
LEMMA ReducedRow ==
    ASSUME NEW row \in GroupRow, RowConsistent(row),
           row.publication # "not_started", NEW classes
    PROVE  LET new == ReducedGroup(row, classes) IN
           /\ row.plan # NoPlan => RowConsistent(new)
           /\ new.publication \in PublicationEnded
           /\ new.preparation = row.preparation
           /\ new.plan = row.plan
<1> USE VerdictType DEF GroupRow, RowConsistent, PublicationEnded
<1>1. CASE row.media \in {"not_started", "running"}
  BY <1>1 DEF ReducedGroup
<1>2. CASE row.media \notin {"not_started", "running"}
  BY <1>2 DEF ReducedGroup
<1> QED  BY <1>1, <1>2

\* finishPublicationActionItems, skipPublicationActionMedia and
\* finishPublicationActionGroups together keep the rows consistent.
LEMMA FinishActionRows ==
    ASSUME NEW s, Good(s), NEW a, a \in ActionIds, NEW D \in SUBSET Items,
           NEW class \in [D -> Classes], NEW skip \in SUBSET Groups,
           skip \subseteq {GroupOf[i] : i \in D},
           ApplyPublicationActionResultOk(s, a, class, skip)
    PROVE  LET t == ReduceGroups(SkipMedia(FinishItems(s, class), skip),
                                 AffectedGroups(class, skip)) IN
           t \in Rows /\ RowsConsistent(t) /\ t.transfer = s.transfer
<1> DEFINE u == FinishItems(s, class)
           v == SkipMedia(u, skip)
           A == AffectedGroups(class, skip)
           t == ReduceGroups(v, A)
<1>1. /\ DOMAIN class = D /\ s \in Rows /\ RowsConsistent(s)
      /\ A = {GroupOf[i] : i \in D} /\ A \subseteq Groups
  BY GroupAssumption DEF Good, AffectedGroups
<1>2. \A i \in D : /\ class[i] \in Classes
                   /\ s.item[i].state = "running" /\ s.item[i].action = a
                   /\ s.item[i] \in ItemRow /\ ItemConsistent(s.item[i])
  BY <1>1 DEF ApplyPublicationActionResultOk, Rows, RowsConsistent
<1>3. /\ u \in Rows /\ u.transfer = s.transfer /\ u.group = s.group
      /\ \A i \in Items : u.item[i] =
            IF i \in D THEN EndedItem(s.item[i], class[i]) ELSE s.item[i]
  BY <1>1, <1>2, ItemRowType DEF FinishItems, Rows
<1>4. \A g \in A : AllItemsTerminal(u, g) /\ s.group[g].overall = "running"
  BY <1>1 DEF ApplyPublicationActionResultOk
<1> HIDE DEF u, A
<1>5. /\ v \in Rows /\ v.transfer = u.transfer /\ v.item = u.item
      /\ \A g \in Groups : v.group[g] =
            IF g \in skip THEN [u.group[g] EXCEPT !.media = "skipped"] ELSE u.group[g]
  <2>1. \A row \in GroupRow : [row EXCEPT !.media = "skipped"] \in GroupRow
    BY DEF GroupRow, Statuses
  <2> QED  BY <1>3, <2>1 DEF SkipMedia, Rows
<1> HIDE DEF v
<1>6. /\ t \in Rows /\ t.transfer = v.transfer /\ t.item = v.item
      /\ \A g \in Groups : t.group[g] =
            IF g \in A THEN ReducedGroup(v.group[g], ClassesOf(v, g)) ELSE v.group[g]
  BY <1>5, GroupRowType DEF ReduceGroups, Rows
<1> HIDE DEF t
<1>7. ASSUME NEW g \in A
      PROVE  /\ s.group[g].publication # "not_started"
             /\ s.group[g].plan # NoPlan
  <2>1. PICK i \in D : GroupOf[i] = g
    BY <1>1
  <2>2. LinkConsistent(s.group[g], s.item[i]) /\ RowConsistent(s.group[g])
    BY <1>1, <2>1 DEF RowsConsistent
  <2>3. s.item[i].state = "running" /\ s.item[i].action # NoAction
    BY <1>2, ActionAssumption
  <2> QED  BY <2>2, <2>3 DEF LinkConsistent, RowConsistent, PublicationEnded
<1>8. ASSUME NEW g \in A
      PROVE  /\ RowConsistent(t.group[g])
             /\ t.group[g].publication \in PublicationEnded
             /\ t.group[g].preparation = s.group[g].preparation
             /\ t.group[g].plan # NoPlan
  <2>1. /\ s.group[g] \in GroupRow /\ RowConsistent(s.group[g]) /\ g \in Groups
    BY <1>1 DEF Rows, RowsConsistent
  <2>2. /\ v.group[g] \in GroupRow /\ v.group[g].publication # "not_started"
        /\ v.group[g].plan # NoPlan /\ RowConsistent(v.group[g])
        /\ v.group[g].preparation = s.group[g].preparation
    <3>1. CASE g \in skip
      <4>1. v.group[g] = [s.group[g] EXCEPT !.media = "skipped"]
        BY <1>3, <1>5, <2>1, <3>1
      <4> QED  BY <1>7, <2>1, <4>1 DEF RowConsistent, GroupRow, Statuses
    <3>2. CASE g \notin skip
      BY <1>3, <1>5, <1>7, <2>1, <3>2
    <3> QED  BY <3>1, <3>2
  <2> QED  BY <1>6, <2>1, <2>2, ReducedRow
<1>9. ASSUME NEW g \in Groups, g \notin A
      PROVE  t.group[g] = s.group[g]
  BY <1>1, <1>3, <1>5, <1>6, <1>9
<1>10. ASSUME NEW i \in Items
       PROVE  ItemConsistent(t.item[i]) /\ LinkConsistent(t.group[GroupOf[i]], t.item[i])
  <2>1. /\ GroupOf[i] \in Groups /\ t.item[i] = u.item[i]
        /\ LinkConsistent(s.group[GroupOf[i]], s.item[i]) /\ ItemConsistent(s.item[i])
    BY <1>1, <1>5, <1>6, GroupAssumption DEF RowsConsistent
  <2>2. ItemConsistent(u.item[i])
    BY <1>2, <1>3, <2>1, EndItem
  <2>3. CASE GroupOf[i] \in A
    <3>1. u.item[i].state = "terminal"
      BY <1>3, <1>4, <2>3 DEF AllItemsTerminal, ItemsOf, Rows
    <3>2. s.item[i].state # "pending"
      BY <1>2, <1>3, <3>1
    <3> QED  BY <1>8, <2>1, <2>2, <2>3, <3>1, <3>2 DEF LinkConsistent, PublicationEnded
  <2>4. CASE GroupOf[i] \notin A
    <3>1. i \notin D
      BY <1>1, <2>4
    <3> QED  BY <1>3, <1>9, <2>1, <2>4, <3>1
  <2> QED  BY <2>2, <2>3, <2>4
<1>11. RowsConsistent(t)
  BY <1>1, <1>8, <1>9, <1>10 DEF RowsConsistent
<1> QED  BY <1>3, <1>5, <1>6, <1>11 DEF t, u, v, A

\* ApplyPublicationActionResult keeps the stored transfer consistent.
LEMMA ApplyPublicationActionResultGood ==
    ASSUME NEW s, Good(s), NEW a \in ActionIds, NEW D \in SUBSET Items,
           NEW class \in [D -> Classes], NEW skip \in SUBSET {GroupOf[i] : i \in D},
           ApplyPublicationActionResultOk(s, a, class, skip)
    PROVE  Good(ApplyPublicationActionResult(s, class, skip))
<1> DEFINE t == ReduceGroups(SkipMedia(FinishItems(s, class), skip),
                             AffectedGroups(class, skip))
<1>1. skip \in SUBSET Groups
  BY GroupAssumption
<1>2. t \in Rows /\ RowsConsistent(t) /\ t.transfer = s.transfer
  BY <1>1, FinishActionRows
<1>3. IsRunning(t, ExecutingPhases) /\ ~t.transfer.attention
  BY <1>2 DEF ApplyPublicationActionResultOk, IsRunning, Good, TransferConsistent
<1> HIDE DEF t
<1>4. Good(AdvanceOrFinish(t, "reconciling"))
  BY <1>2, <1>3, AdvanceOrFinishGood
<1> QED  BY <1>4 DEF ApplyPublicationActionResult, t

\* ApplyPublicationMediaResult keeps the stored transfer consistent.
LEMMA ApplyPublicationMediaResultGood ==
    ASSUME NEW s, Good(s), NEW g \in Groups, NEW class \in Classes,
           ApplyPublicationMediaResultOk(s, g)
    PROVE  Good(ApplyPublicationMediaResult(s, g, class))
<1> DEFINE t == WithMedia(s, g, MediaStatus(class))
           G(row) == MediaGroup(row, MediaStatus(class), ClassesOf(s, g))
<1>1. MediaStatus(class) \in {"succeeded", "skipped", "rejected", "unresolved"}
  BY DEF MediaStatus, Classes
<1>2. /\ s \in Rows /\ RowsConsistent(s) /\ s.group[g] \in GroupRow
      /\ RowConsistent(s.group[g]) /\ s.group[g].publication \in PublicationEnded
      /\ s.group[g].media = "running"
  BY DEF Good, Rows, RowsConsistent, ApplyPublicationMediaResultOk
<1>3. /\ G(s.group[g]) \in GroupRow
      /\ RowConsistent(G(s.group[g]))
      /\ G(s.group[g]).publication = s.group[g].publication
      /\ G(s.group[g]).preparation = s.group[g].preparation
      /\ G(s.group[g]).plan = s.group[g].plan
  <2>1. G(s.group[g]) \in GroupRow
    BY <1>1, <1>2, GroupRowType DEF Statuses
  <2>2. /\ G(s.group[g]).publication = s.group[g].publication
        /\ G(s.group[g]).preparation = s.group[g].preparation
        /\ G(s.group[g]).plan = s.group[g].plan
        /\ G(s.group[g]).overall # "running"
    BY <1>2, VerdictType DEF MediaGroup, GroupRow
  <2> HIDE DEF G
  <2> QED  BY <1>2, <2>1, <2>2 DEF RowConsistent, PublicationEnded
<1> HIDE DEF G
<1>4. /\ t \in Rows /\ t.transfer = s.transfer /\ t.item = s.item
      /\ \A x \in Groups : t.group[x] = IF x = g THEN G(s.group[g]) ELSE s.group[x]
  <2>1. t = [s EXCEPT !.group = [x \in DOMAIN s.group |->
                IF x = g THEN G(s.group[g]) ELSE s.group[x]]]
    BY DEF WithMedia, G
  <2> HIDE DEF t
  <2> QED  BY <1>2, <1>3, <2>1 DEF Rows
<1> HIDE DEF t
<1>5. \A x \in Groups : RowConsistent(t.group[x])
  BY <1>2, <1>3, <1>4 DEF RowsConsistent
<1>6. ASSUME NEW i \in Items
      PROVE  ItemConsistent(t.item[i]) /\ LinkConsistent(t.group[GroupOf[i]], t.item[i])
  <2>1. /\ GroupOf[i] \in Groups /\ ItemConsistent(s.item[i])
        /\ LinkConsistent(s.group[GroupOf[i]], s.item[i])
    BY <1>2, GroupAssumption DEF RowsConsistent
  <2> QED  BY <1>2, <1>3, <1>4, <2>1 DEF LinkConsistent, PublicationEnded
<1>7. RowsConsistent(t)
  BY <1>5, <1>6 DEF RowsConsistent
<1>8. IsRunning(t, ExecutingPhases) /\ ~t.transfer.attention
  BY <1>4
  DEF ApplyPublicationMediaResultOk, IsRunning, ExecutingPhases, Good, TransferConsistent
<1>9. Good(AdvanceOrFinish(t, "media"))
  BY <1>4, <1>7, <1>8, AdvanceOrFinishGood
<1> QED  BY <1>9 DEF ApplyPublicationMediaResult, t

\* ResetPublicationPlanning keeps the stored transfer consistent.
LEMMA ResetPublicationPlanningGood ==
    ASSUME NEW s, Good(s), NEW plan \in Nat, ResetPublicationPlanningOk(s, plan)
    PROVE  Good(ResetPublicationPlanning(s, plan))
<1> DEFINE t == ResetPublicationPlanning(s, plan)
           P == PlanGroups(s, plan)
           G == [InitialGroup EXCEPT !.preparation = "succeeded"]
           I == [InitialItem EXCEPT !.state = "running"]
<1>1. G \in GroupRow /\ RowConsistent(G) /\ G.overall = "running"
  BY DEF InitialGroup, GroupRow, Statuses, RowConsistent
<1>2. I \in ItemRow /\ ItemConsistent(I) /\ LinkConsistent(G, I)
  BY DEF InitialItem, InitialGroup, ItemRow, ItemConsistent, LinkConsistent,
     PublicationEnded
<1> HIDE DEF G, I
<1>3. P \subseteq Groups /\ P # {} /\ s \in Rows /\ RowsConsistent(s)
  BY DEF PlanGroups, Good, Rows, ResetPublicationPlanningOk
<1>4. /\ t \in Rows /\ t.transfer = s.transfer
      /\ \A g \in Groups : t.group[g] = IF g \in P THEN G ELSE s.group[g]
      /\ \A i \in Items : t.item[i] = IF GroupOf[i] \in P THEN I ELSE s.item[i]
  <2>1. t = [s EXCEPT
        !.group = [g \in DOMAIN s.group |-> IF g \in P THEN G ELSE s.group[g]],
        !.item = [i \in DOMAIN s.item |-> IF GroupOf[i] \in P THEN I ELSE s.item[i]]]
    BY DEF ResetPublicationPlanning, G, I
  <2> HIDE DEF t, P
  <2> QED  BY <1>1, <1>2, <1>3, <2>1 DEF Rows
<1> HIDE DEF t, P
<1>5. RowsConsistent(t)
  BY <1>1, <1>2, <1>3, <1>4, GroupAssumption DEF RowsConsistent
<1>6. RunningGroups(t) # {}
  BY <1>1, <1>3, <1>4 DEF RunningGroups, Rows
<1> QED  BY <1>4, <1>5, <1>6, RowsOnly DEF ResetPublicationPlanningOk, t

\* CorrectPublicationItemResult keeps the stored transfer consistent.
LEMMA CorrectPublicationItemResultGood ==
    ASSUME NEW s, Good(s), NEW i \in Items, NEW class \in Classes, NEW close \in BOOLEAN,
           CorrectPublicationItemResultOk(s, i, class, close)
    PROVE  Good(CorrectPublicationItemResult(s, i, class, close))
<1> DEFINE u == WithCorrection(s, i, class, close)
           g == GroupOf[i]
           v == ReduceCorrected(u, g)
           t == [v EXCEPT !.transfer = CorrectedTransfer(v)]
           I == [s.item[i] EXCEPT !.class = class, !.closed = close]
<1>1. /\ s \in Rows /\ RowsConsistent(s) /\ g \in Groups
      /\ s.item[i] \in ItemRow /\ s.item[i].state = "terminal"
      /\ s.group[g] \in GroupRow /\ s.group[g].overall # "running"
      /\ RowConsistent(s.group[g]) /\ LinkConsistent(s.group[g], s.item[i])
      /\ RunningGroups(s) = {}
  BY GroupAssumption DEF Good, Rows, RowsConsistent, CorrectPublicationItemResultOk
<1>2. I \in ItemRow /\ I.state = "terminal" /\ I.class = class /\ I.closed = close
        /\ I.action = s.item[i].action
  BY <1>1 DEF ItemRow
<1>3. ItemConsistent(I)
  <2>1. close => class \in AttentionClasses
    BY DEF CorrectPublicationItemResultOk
  <2>2. class # NoClass
    BY ActionAssumption
  <2> HIDE DEF I
  <2> QED  BY <1>2, <2>1, <2>2 DEF ItemConsistent
<1> HIDE DEF I
<1>4. /\ u \in Rows /\ u.transfer = s.transfer /\ u.group = s.group
      /\ \A j \in Items : u.item[j] = IF j = i THEN I ELSE s.item[j]
  <2>1. u = [s EXCEPT !.item = [j \in DOMAIN s.item |-> IF j = i THEN I ELSE s.item[j]]]
    BY DEF WithCorrection, I
  <2> HIDE DEF u
  <2> QED  BY <1>1, <1>2, <2>1 DEF Rows
<1> DEFINE G == CorrectedGroup(s.group[g], ClassesOf(u, g), HasOpenItem(u, g))
<1> HIDE DEF u
<1>5. HasOpenItem(u, g) \in BOOLEAN
  BY DEF HasOpenItem
<1>6. /\ G \in GroupRow
      /\ G.publication \in PublicationEnded /\ G.overall # "running"
      /\ G.preparation = s.group[g].preparation
      /\ G.plan = s.group[g].plan
  <2>1. s.group[g] \in GroupRow
    BY <1>1
  <2>2. G \in GroupRow
    BY <1>5, <2>1, CorrectedGroupType
  <2> QED  BY <2>1, <2>2, VerdictType DEF CorrectedGroup, GroupRow, PublicationEnded
<1>7. s.group[g].plan # NoPlan
  BY <1>1 DEF LinkConsistent, CorrectPublicationItemResultOk
<1> HIDE DEF G
<1>8. RowConsistent(G)
  BY <1>1, <1>6, <1>7 DEF RowConsistent, GroupRow, PublicationEnded
<1>9. /\ v \in Rows /\ v.transfer = s.transfer /\ v.item = u.item
      /\ \A x \in Groups : v.group[x] = IF x = g THEN G ELSE s.group[x]
  <2>1. v = [u EXCEPT !.group = [x \in DOMAIN u.group |->
                IF x = g THEN G ELSE u.group[x]]]
    BY <1>4 DEF ReduceCorrected, G
  <2> HIDE DEF v, g
  <2> QED  BY <1>4, <1>6, <2>1 DEF Rows
<1> HIDE DEF v
<1>10. ASSUME NEW j \in Items
       PROVE  ItemConsistent(v.item[j]) /\ LinkConsistent(v.group[GroupOf[j]], v.item[j])
  <2>1. /\ GroupOf[j] \in Groups /\ ItemConsistent(s.item[j])
        /\ LinkConsistent(s.group[GroupOf[j]], s.item[j])
        /\ RowConsistent(s.group[GroupOf[j]])
    BY <1>1, GroupAssumption DEF RowsConsistent
  <2>2. ItemConsistent(v.item[j])
    BY <1>3, <1>4, <1>9, <2>1
  <2>3. CASE GroupOf[j] = g
    <3>1. s.item[j].state = "terminal"
      BY <1>1, <2>1, <2>3 DEF LinkConsistent, RowConsistent
    <3>2. v.item[j].state = "terminal" /\ v.group[GroupOf[j]] = G
      BY <1>1, <1>2, <1>4, <1>9, <2>3, <3>1
    <3> QED  BY <1>6, <1>7, <2>1, <2>2, <2>3, <3>1, <3>2
             DEF LinkConsistent, PublicationEnded
  <2>4. CASE GroupOf[j] # g
    BY <1>4, <1>9, <2>1, <2>2, <2>4
  <2> QED  BY <2>3, <2>4
<1>11. RowsConsistent(v)
  BY <1>1, <1>8, <1>9, <1>10 DEF RowsConsistent
<1>12. RunningGroups(v) = {}
  BY <1>1, <1>6, <1>9 DEF RunningGroups, Rows
<1>13. /\ s.transfer.phase = "finished" /\ s.transfer \in TransferRow
       /\ TransferOutcome(v) \in {"succeeded", "partial", "rejected", "unresolved"}
  BY <1>1, FinishedType DEF CorrectPublicationItemResultOk, Rows
<1>14. CorrectedTransfer(v) \in TransferRow
         /\ CorrectedTransfer(v).phase = "finished"
         /\ CorrectedTransfer(v).outcome = TransferOutcome(v)
  BY <1>9, <1>13 DEF CorrectedTransfer, TransferRow
<1>15. /\ t \in Rows /\ t.group = v.group /\ t.item = v.item
       /\ t.transfer = CorrectedTransfer(v)
  BY <1>9, <1>14 DEF Rows
<1> HIDE DEF t
<1>16. RunningGroups(t) = {} /\ TransferOutcome(t) = TransferOutcome(v)
  BY <1>12, <1>15 DEF RunningGroups, TransferOutcome, GroupNeedsAttention
<1>17. RowsConsistent(t)
  BY <1>11, <1>15 DEF RowsConsistent
<1>18. TransferConsistent(t)
  BY <1>13, <1>14, <1>15, <1>16 DEF TransferConsistent
<1>19. Good(t)
  BY <1>15, <1>17, <1>18 DEF Good
<1> QED  BY <1>19 DEF CorrectPublicationItemResult, t, v, u

-----------------------------------------------------------------------------
(* The inductive invariant. *)

Consistent == Good(rows) /\ lastPlan \in Nat

\* The rows read by the transactions are the variables.
LEMMA RowsFields ==
    /\ rows.transfer = transfer
    /\ rows.group = group
    /\ rows.item = item
    /\ rows' = [transfer |-> transfer', group |-> group', item |-> item']
BY DEF rows

\* A committed transaction leaves exactly the rows it computed.
LEMMA CommitGood ==
    ASSUME NEW s, Good(s), Commit(s)
    PROVE  Good(rows')
<1>1. s \in Rows
  BY DEF Good
<1>2. s = [transfer |-> s.transfer, group |-> s.group, item |-> s.item]
  BY <1>1 DEF Rows
<1>3. rows' = s
  BY <1>2, RowsFields DEF Commit
<1> QED  BY <1>3

\* A transfer that was just created is consistent.
LEMMA InitConsistent == Init => Consistent
<1> SUFFICES ASSUME Init PROVE Consistent
  OBVIOUS
<1>1. /\ rows.transfer = InitialTransfer
      /\ rows.group = [g \in Groups |-> InitialGroup]
      /\ rows.item = [i \in Items |-> InitialItem]
  BY RowsFields DEF Init
<1>2. /\ InitialTransfer \in TransferRow /\ InitialGroup \in GroupRow
      /\ InitialItem \in ItemRow
  BY DEF InitialTransfer, InitialGroup, InitialItem, TransferRow, GroupRow,
     ItemRow, Statuses
<1>3. rows \in Rows
  BY <1>1, <1>2 DEF Rows, rows
<1>4. /\ RowConsistent(InitialGroup) /\ ItemConsistent(InitialItem)
      /\ LinkConsistent(InitialGroup, InitialItem)
  BY DEF InitialGroup, InitialItem, RowConsistent, ItemConsistent, LinkConsistent,
     PublicationEnded
<1>5. RowsConsistent(rows)
  BY <1>1, <1>4, GroupAssumption DEF RowsConsistent
<1>6. TransferConsistent(rows)
  BY <1>1 DEF TransferConsistent, InitialTransfer, InitialGroup
<1> QED  BY <1>3, <1>5, <1>6 DEF Consistent, Good, Init

\* No transaction makes a consistent transfer inconsistent: one step per action.
LEMMA NextConsistent == Consistent /\ [Next]_vars => Consistent'
<1> SUFFICES ASSUME Consistent, [Next]_vars PROVE Consistent'
  OBVIOUS
<1> USE DEF Consistent
<1>1. CASE InitializeTransfer
  BY <1>1, InitializeGood, CommitGood DEF InitializeTransfer
<1>2. CASE FailInitialization
  BY <1>2, MarkInitializationFailedGood, CommitGood DEF FailInitialization
<1>3. CASE StartPreparation
  BY <1>3, BeginPreparationGood, CommitGood DEF StartPreparation
<1>4. ASSUME NEW g \in Groups, NEW status \in PreparationEnded,
             PrepareGroup(g, status)
      PROVE  Consistent'
  BY <1>4, ApplyPreparationResultGood, CommitGood DEF PrepareGroup
<1>5. CASE PlanWave
  <2>a. PICK wave \in SUBSET ReadyGroups \ {{}} : \E conflict \in SUBSET wave :
          \E publish \in SUBSET {i \in Items : GroupOf[i] \in wave \ conflict} :
          \E media \in SUBSET (wave \ conflict) : \E slot \in [wave -> Slots] :
            SavePlan(wave, publish, conflict, media, slot)
    BY <1>5 DEF PlanWave
  <2>b. PICK conflict \in SUBSET wave :
          \E publish \in SUBSET {i \in Items : GroupOf[i] \in wave \ conflict} :
          \E media \in SUBSET (wave \ conflict) : \E slot \in [wave -> Slots] :
            SavePlan(wave, publish, conflict, media, slot)
    BY <2>a
  <2>1. PICK publish \in SUBSET {i \in Items : GroupOf[i] \in wave \ conflict},
             media \in SUBSET (wave \ conflict), slot \in [wave -> Slots] :
          SavePlan(wave, publish, conflict, media, slot)
    BY <2>b
  <2> DEFINE cmd == PlanCommand(wave, publish, conflict, media, slot)
  <2>2. wave \in SUBSET Groups
    BY DEF ReadyGroups
  <2>3. PlannedCommand(cmd)
    BY <2>2, PlanCommandPlanned
  <2>4. /\ ApplyPublicationPlanResultOk(rows, cmd)
        /\ Commit(ApplyPublicationPlanResult(rows, cmd))
        /\ lastPlan' = lastPlan + 1
    BY <2>1 DEF SavePlan
  <2> HIDE DEF cmd
  <2>5. Good(ApplyPublicationPlanResult(rows, cmd))
    BY <2>3, <2>4, ApplyPublicationPlanResultGood
  <2> QED  BY <2>4, <2>5, CommitGood
<1>6. CASE BeginAction
  BY <1>6, PhaseOpsGood, CommitGood DEF BeginAction
<1>7. CASE MarkReconciling
  BY <1>7, PhaseOpsGood, CommitGood DEF MarkReconciling
<1>8. CASE BeginMedia
  BY <1>8, PhaseOpsGood, CommitGood DEF BeginMedia
<1>9. CASE FinishSomeAction
  <2>a. PICK a \in (1..lastPlan) \X Slots :
          \E class \in [ActionItems(a) -> Classes \ {"skipped"}] :
          \E skip \in SUBSET {GroupOf[i] : i \in ActionItems(a)} :
            FinishAction(a, class, skip)
    BY <1>9 DEF FinishSomeAction
  <2>1. PICK class \in [ActionItems(a) -> Classes \ {"skipped"}],
             skip \in SUBSET {GroupOf[i] : i \in ActionItems(a)} :
          FinishAction(a, class, skip)
    BY <2>a
  <2>2. a \in ActionIds /\ ActionItems(a) \in SUBSET Items
    BY DEF ActionIds, ActionItems
  <2>3. class \in [ActionItems(a) -> Classes]
    OBVIOUS
  <2>4. Good(ApplyPublicationActionResult(rows, class, skip))
    BY <2>1, <2>2, <2>3, ApplyPublicationActionResultGood DEF FinishAction
  <2> QED  BY <2>1, <2>4, CommitGood DEF FinishAction
<1>10. ASSUME NEW g \in Groups, NEW class \in Classes, FinishMedia(g, class)
       PROVE  Consistent'
  BY <1>10, ApplyPublicationMediaResultGood, CommitGood DEF FinishMedia
<1>11. ASSUME NEW plan \in 1..lastPlan, ResetPlan(plan)
       PROVE  Consistent'
  BY <1>11, ResetPublicationPlanningGood, CommitGood DEF ResetPlan
<1>12. ASSUME NEW i \in Items, NEW class \in Classes, NEW close \in BOOLEAN,
              CorrectItem(i, class, close)
       PROVE  Consistent'
  BY <1>12, CorrectPublicationItemResultGood, CommitGood DEF CorrectItem
<1>13. CASE UNCHANGED vars
  <2>1. rows' = rows /\ lastPlan' = lastPlan
    BY <1>13 DEF vars, rows
  <2> QED  BY <2>1
<1> QED  BY <1>1, <1>2, <1>3, <1>4, <1>5, <1>6, <1>7, <1>8, <1>9, <1>10, <1>11,
            <1>12, <1>13 DEF Next

-----------------------------------------------------------------------------
(* Theorems. *)

\* The rows of a transfer are consistent in every reachable state, for any number
\* of groups, items, actions and plans.
THEOREM Invariance == Spec => []Consistent
<1>1. Init => Consistent
  BY InitConsistent
<1>2. Consistent /\ [Next]_vars => Consistent'
  BY NextConsistent
<1> QED  BY <1>1, <1>2, PTL DEF Spec

\* Every column holds a value its CHECK (... IN ...) clause admits, whatever
\* transactions committed.
THEOREM TypeCorrectness == Spec => []TypeOK
<1>1. Consistent => TypeOK
  BY RowsFields DEF Consistent, Good, Rows, TypeOK
<1> QED  BY <1>1, Invariance, PTL

\* A running pipeline has a running group, and a transfer none of whose groups is
\* running is finished: none of the four code paths that end a group misses that it
\* ended the last one.
THEOREM FinishedWhenLastGroupEnds == Spec => []FinishedIffNoGroupRuns
<1>1. Consistent => FinishedIffNoGroupRuns
  BY RowsFields DEF Consistent, Good, TransferConsistent, FinishedIffNoGroupRuns,
     Activated
<1> QED  BY <1>1, Invariance, PTL

\* The outcome of a finished transfer is the aggregate of its groups' outcomes, also
\* after CorrectPublicationItemResult changed some of them.
THEOREM OutcomeIsAggregate == Spec => []OutcomeAggregatesGroups
<1>1. Consistent => OutcomeAggregatesGroups
  BY RowsFields DEF Consistent, Good, TransferConsistent, OutcomeAggregatesGroups,
     Activated
<1> QED  BY <1>1, Invariance, PTL

\* When a group target has ended, all of its item targets have ended.
THEOREM NoItemLeftBehind == Spec => []EndedGroupHasEndedItems
<1>1. ASSUME Consistent, NEW g \in Groups, group[g].overall # "running"
      PROVE  AllItemsTerminal(rows, g)
  <2>1. /\ RowConsistent(rows.group[g]) /\ rows.group[g].overall # "running"
        /\ \A i \in Items : LinkConsistent(rows.group[GroupOf[i]], rows.item[i])
        /\ DOMAIN rows.item = Items
    BY <1>1, RowsFields DEF Consistent, Good, RowsConsistent, Rows
  <2>2. ItemsOf(rows, g) # {}
    BY <2>1, GroupAssumption DEF ItemsOf
  <2>3. \A i \in ItemsOf(rows, g) : rows.item[i].state = "terminal"
    BY <2>1 DEF ItemsOf, RowConsistent, LinkConsistent
  <2> QED  BY <2>2, <2>3 DEF AllItemsTerminal
<1>2. Consistent => EndedGroupHasEndedItems
  BY <1>1 DEF EndedGroupHasEndedItems
<1> QED  BY <1>2, Invariance, PTL

\* No transaction offers the database a row that a CHECK constraint of
\* wb.transfers, wb.transfer_group_targets or wb.transfer_item_targets refuses.
THEOREM RowsPassChecks == Spec => []CheckConstraints
<1>1. Consistent => CheckConstraints
  <2> SUFFICES ASSUME Consistent PROVE CheckConstraints
    OBVIOUS
  <2>1. /\ TransferConsistent(rows)
        /\ \A g \in Groups : RowConsistent(group[g])
        /\ \A i \in Items : ItemConsistent(item[i])
    BY RowsFields DEF Consistent, Good, RowsConsistent
  <2>2. ASSUME NEW g \in Groups
        PROVE  /\ group[g].overall = "running" => ~group[g].attention
               /\ \/ group[g].publication = "not_started" /\ group[g].plan = NoPlan
                  \/ group[g].publication # "not_started" /\ group[g].plan # NoPlan
                  \/ /\ group[g].preparation \in {"rejected", "unresolved"}
                     /\ group[g].publication = "skipped"
                     /\ group[g].media = "skipped"
                     /\ group[g].plan = NoPlan
    BY <2>1 DEF RowConsistent
  <2> QED  BY <2>1, <2>2, RowsFields
           DEF CheckConstraints, TransferConsistent, ItemConsistent
<1> QED  BY <1>1, Invariance, PTL

\* No transaction takes a finished transfer back into the pipeline or changes an
\* item of it that does not ask for attention.
THEOREM FinishedTransfersStay == Spec => FinishedIsFinal
<1> DEFINE Frozen == \A i \in Items :
             item[i].class \notin AttentionClasses => item'[i] = item[i]
<1>1. ASSUME Consistent, Next, transfer.phase = "finished"
      PROVE  transfer'.phase = "finished" /\ Frozen
  <2>1. transfer.outcome # "running"
    BY <1>1, RowsFields DEF Consistent, Good, TransferConsistent
  <2>2. \A phases : ~IsRunning(rows, phases)
    BY <2>1, RowsFields DEF IsRunning
  <2>3. PICK i \in Items, class \in Classes, close \in BOOLEAN :
          CorrectItem(i, class, close)
    BY <1>1, <2>2, RowsFields
    DEF Next, InitializeTransfer, InitializeOk, FailInitialization,
        MarkInitializationFailedOk, StartPreparation, BeginPreparationOk, PrepareGroup,
        ApplyPreparationResultOk, PlanWave, SavePlan, ApplyPublicationPlanResultOk,
        BeginAction, BeginPublicationActionOk, MarkReconciling,
        MarkPublicationReconcilingOk, BeginMedia, BeginPublicationMediaOk,
        FinishSomeAction, FinishAction, ApplyPublicationActionResultOk, FinishMedia,
        ApplyPublicationMediaResultOk, ResetPlan, ResetPublicationPlanningOk
  <2> DEFINE u == WithCorrection(rows, i, class, close)
             v == ReduceCorrected(u, GroupOf[i])
  <2>4. item[i].class \in AttentionClasses
    BY <2>3, RowsFields DEF CorrectItem, CorrectPublicationItemResultOk
  <2>5. rows \in Rows
    BY <1>1 DEF Consistent, Good
  <2>6. /\ transfer' = CorrectedTransfer(v) /\ item' = v.item
    BY <2>3, <2>5 DEF CorrectItem, Commit, CorrectPublicationItemResult,
       ReduceCorrected, WithCorrection, Rows
  <2>7. /\ v.transfer = transfer /\ DOMAIN item = Items
        /\ v.item = [j \in DOMAIN item |->
             IF j = i THEN [item[j] EXCEPT !.class = class, !.closed = close]
             ELSE item[j]]
    BY <2>5, RowsFields DEF ReduceCorrected, WithCorrection, Rows
  <2>8. transfer \in TransferRow
    BY <2>5, RowsFields DEF Rows
  <2> HIDE DEF v, u
  <2>9. CorrectedTransfer(v).phase = transfer.phase
    BY <2>7, <2>8 DEF CorrectedTransfer, TransferRow
  <2> QED  BY <1>1, <2>4, <2>6, <2>7, <2>9
<1>2. Consistent /\ [Next]_vars =>
        [transfer.phase = "finished" => transfer'.phase = "finished" /\ Frozen]_vars
  BY <1>1
<1> QED  BY <1>2, Invariance, PTL DEF Spec, FinishedIsFinal

\* What each operation does to the phase "media" of a running transfer.
LEMMA MediaPhaseRules ==
    ASSUME NEW s, s \in Rows, s.transfer.phase = "media"
    PROVE  /\ \A g, status : ApplyPreparationResult(s, g, status).transfer.phase
                 \in {"media", "finished"}
           /\ \A cmd : ApplyPublicationPlanResult(s, cmd).transfer.phase
                 \in {"media", "finished"}
           /\ BeginPublicationAction(s).transfer.phase = "media"
           /\ MarkPublicationReconciling(s).transfer.phase = "media"
           /\ BeginPublicationMedia(s).transfer.phase = "media"
           /\ \A class, skip : ApplyPublicationActionResult(s, class, skip).transfer.phase
                 \in {"media", "finished"}
           /\ \A g, class : ApplyPublicationMediaResult(s, g, class).transfer.phase
                 \in {"media", "finished"}
           /\ \A plan : ResetPublicationPlanning(s, plan).transfer.phase = "media"
<1> DEFINE HasMedia(t) == /\ t.transfer \in TransferRow
                          /\ "transfer" \in DOMAIN t
                          /\ t = [x \in DOMAIN t |-> t[x]]
                          /\ t.transfer.phase = "media"
<1>1. HasMedia(s)
  BY DEF Rows
<1>2. ASSUME NEW t, HasMedia(t)
      PROVE  /\ [t EXCEPT !.transfer = Finished(t)].transfer.phase = "finished"
             /\ \A phase : [t EXCEPT !.transfer.phase = phase].transfer.phase = phase
             /\ \A flag : [t EXCEPT !.transfer.attention = flag].transfer.phase = "media"
  <2>1. [t EXCEPT !.transfer = Finished(t)].transfer.phase = "finished"
    <3>1. Finished(t).phase = "finished"
      BY DEF Finished
    <3> QED  BY <1>2, <3>1
  <2>2. \A phase : [t EXCEPT !.transfer.phase = phase].transfer.phase = phase
    BY <1>2 DEF TransferRow
  <2>3. \A flag : [t EXCEPT !.transfer.attention = flag].transfer.phase = "media"
    BY <1>2 DEF TransferRow
  <2> QED  BY <2>1, <2>2, <2>3
<1>3. \A g, status : HasMedia(EndPreparation(s, g, status))
  BY ZenonT(60), <1>1 DEF EndPreparation, Rows
<1>4. \A cmd : HasMedia(WithPlan(s, cmd))
  BY ZenonT(60), <1>1 DEF WithPlan, Rows
<1>5. \A class, skip : HasMedia(ReduceGroups(SkipMedia(FinishItems(s, class), skip),
                                             AffectedGroups(class, skip)))
  <2>1. ASSUME NEW t, HasMedia(t)
        PROVE  /\ \A f : HasMedia([t EXCEPT !.group = f])
               /\ \A f : HasMedia([t EXCEPT !.item = f])
    BY <2>1
  <2> HIDE DEF HasMedia
  <2>2. \A class : HasMedia(FinishItems(s, class))
    BY <1>1, <2>1 DEF FinishItems
  <2>3. \A class, skip : HasMedia(SkipMedia(FinishItems(s, class), skip))
    BY <2>1, <2>2 DEF SkipMedia
  <2> QED  BY <2>1, <2>3 DEF ReduceGroups
<1>6. \A g, status : HasMedia(WithMedia(s, g, status))
  BY <1>1 DEF WithMedia, Rows
<1>7. \A plan : ResetPublicationPlanning(s, plan).transfer = s.transfer
  BY DEF ResetPublicationPlanning, Rows
<1>8. ASSUME NEW t, HasMedia(t)
      PROVE  /\ AdvanceAfterPreparation(t).transfer.phase \in {"media", "finished"}
             /\ ReduceAfterPlanning(t).transfer.phase \in {"media", "finished"}
             /\ \A phase : AdvanceOrFinish(t, phase).transfer.phase
                             \in {"media", "finished"}
  BY <1>2, <1>8 DEF AdvanceAfterPreparation, ReduceAfterPlanning, AdvanceOrFinish
<1> HIDE DEF HasMedia
<1>9. \A g, status : ApplyPreparationResult(s, g, status).transfer.phase
                 \in {"media", "finished"}
  BY <1>3, <1>8 DEF ApplyPreparationResult
<1>10. ASSUME NEW cmd
       PROVE  ApplyPublicationPlanResult(s, cmd).transfer.phase \in {"media", "finished"}
  <2>1. HasMedia(WithPlan(s, cmd)) /\ WithPlan(s, cmd).transfer.phase = "media"
    BY <1>4 DEF HasMedia
  <2> QED  BY <1>2, <1>8, <2>1 DEF ApplyPublicationPlanResult
<1>11. /\ BeginPublicationAction(s).transfer.phase = "media"
       /\ MarkPublicationReconciling(s).transfer.phase = "media"
       /\ BeginPublicationMedia(s).transfer.phase = "media"
  BY <1>1, <1>2
  DEF BeginPublicationAction, MarkPublicationReconciling, BeginPublicationMedia
<1>12. \A class, skip : ApplyPublicationActionResult(s, class, skip).transfer.phase
                 \in {"media", "finished"}
  BY <1>5, <1>8 DEF ApplyPublicationActionResult
<1>13. \A g, class : ApplyPublicationMediaResult(s, g, class).transfer.phase
                 \in {"media", "finished"}
  BY <1>6, <1>8 DEF ApplyPublicationMediaResult
<1> QED  BY <1>7, <1>9, <1>10, <1>11, <1>12, <1>13

\* No transaction takes a transfer from phase media back to an earlier phase, in
\* which ApplyPublicationMediaResult would refuse every later media result.
THEOREM MediaPhaseStays == Spec => MediaPhaseIsKept
<1>1. ASSUME Consistent, Next, transfer.phase = "media"
      PROVE  transfer'.phase \in {"media", "finished"}
  <2>1. rows \in Rows /\ rows.transfer.phase = "media"
    BY <1>1, RowsFields DEF Consistent, Good
  <2>2. CASE InitializeTransfer \/ FailInitialization \/ StartPreparation
    BY <2>1, <2>2 DEF InitializeTransfer, InitializeOk, FailInitialization,
       MarkInitializationFailedOk, StartPreparation, BeginPreparationOk, IsRunning
  <2>3. ASSUME NEW g \in Groups, NEW status \in PreparationEnded,
               PrepareGroup(g, status)
        PROVE  transfer'.phase \in {"media", "finished"}
    BY <2>1, <2>3, MediaPhaseRules DEF PrepareGroup, Commit
  <2>4. CASE PlanWave
    BY <2>1, <2>4, MediaPhaseRules DEF PlanWave, SavePlan, Commit
  <2>5. CASE BeginAction \/ MarkReconciling \/ BeginMedia
    BY <2>1, <2>5, MediaPhaseRules DEF BeginAction, MarkReconciling, BeginMedia, Commit
  <2>6. CASE FinishSomeAction
    BY <2>1, <2>6, MediaPhaseRules DEF FinishSomeAction, FinishAction, Commit
  <2>7. ASSUME NEW g \in Groups, NEW class \in Classes, FinishMedia(g, class)
        PROVE  transfer'.phase \in {"media", "finished"}
    BY <2>1, <2>7, MediaPhaseRules DEF FinishMedia, Commit
  <2>8. ASSUME NEW plan \in 1..lastPlan, ResetPlan(plan)
        PROVE  transfer'.phase \in {"media", "finished"}
    BY <2>1, <2>8, MediaPhaseRules DEF ResetPlan, Commit
  <2>9. ASSUME NEW i \in Items, NEW class \in Classes, NEW close \in BOOLEAN
        PROVE  ~CorrectItem(i, class, close)
    BY <2>1 DEF CorrectItem, CorrectPublicationItemResultOk
  <2> QED  BY <1>1, <2>2, <2>3, <2>4, <2>5, <2>6, <2>7, <2>8, <2>9 DEF Next
<1>2. Consistent /\ [Next]_vars =>
        [transfer.phase = "media" => transfer'.phase \in {"media", "finished"}]_vars
  BY <1>1
<1> QED  BY <1>2, Invariance, PTL DEF Spec, MediaPhaseIsKept

-----------------------------------------------------------------------------
(* Items and the outcome of their group.  The invariant Accounted says of   *)
(* every group that its outcome counts its items (Counted), that an item    *)
(* that waits is owned by an action of the group's plan (Owned) and that an *)
(* open item is announced (Announced); only its own rows matter to a group. *)

Counted(grow, classes) ==
    (grow.overall # "running" /\ grow.plan # NoPlan) =>
        \/ grow.overall = GroupVerdict(grow.media, classes)
        \/ grow.overall = "skipped" /\ classes = {"skipped"}

Owned(grow, irow) ==
    (irow.state = "running" /\ grow.publication # "not_started") =>
        /\ grow.publication = "running"
        /\ irow.action # NoAction
        /\ irow.action[1] = grow.plan

Announced(grow, irow) ==
    (irow.class \in AttentionClasses /\ ~irow.closed /\ grow.overall # "running") =>
        grow.attention

GroupAccounted(s, g) ==
    /\ Counted(s.group[g], ClassesOf(s, g))
    /\ \A i \in ItemsOf(s, g) : Owned(s.group[g], s.item[i]) /\ Announced(s.group[g], s.item[i])

Accounted(s) == \A g \in Groups : GroupAccounted(s, g)

\* The items of a group are the same in any rows of the transfer.
LEMMA ItemsOfRows ==
    ASSUME NEW s \in Rows, NEW g
    PROVE  /\ ItemsOf(s, g) = {i \in Items : GroupOf[i] = g}
           /\ ClassesOf(s, g) = {s.item[i].class : i \in {j \in Items : GroupOf[j] = g}}
BY DEF Rows, ItemsOf, ClassesOf

\* A transaction that leaves the rows of a group and of its items alone.
LEMMA SameGroup ==
    ASSUME NEW s \in Rows, NEW t \in Rows, NEW g, GroupAccounted(s, g),
           t.group[g] = s.group[g],
           \A i \in Items : GroupOf[i] = g => t.item[i] = s.item[i]
    PROVE  GroupAccounted(t, g)
<1> DEFINE J == {j \in Items : GroupOf[j] = g}
<1>1. ItemsOf(s, g) = J /\ ItemsOf(t, g) = J
  BY ItemsOfRows
<1>2. ClassesOf(t, g) = ClassesOf(s, g)
  <2>1. \A i \in J : t.item[i].class = s.item[i].class
    OBVIOUS
  <2> QED  BY <1>1, <2>1 DEF ClassesOf
<1> QED  BY <1>1, <1>2 DEF GroupAccounted

LEMMA SameRows ==
    ASSUME NEW s \in Rows, NEW t \in Rows, Accounted(s), t.group = s.group, t.item = s.item
    PROVE  Accounted(t)
BY SameGroup DEF Accounted

\* A group whose publication has not started owes nothing yet.
LEMMA FreshGroup ==
    ASSUME NEW s, NEW g, s.group[g].publication = "not_started", s.group[g].overall = "running"
    PROVE  GroupAccounted(s, g)
BY DEF GroupAccounted, Counted, Owned, Announced

\* The last UPDATE of a transaction, of the transfer row alone.
LEMMA AdvanceKeepsRows ==
    ASSUME NEW s \in Rows
    PROVE  /\ \A phase : /\ AdvanceOrFinish(s, phase).group = s.group
                         /\ AdvanceOrFinish(s, phase).item = s.item
           /\ AdvanceAfterPreparation(s).group = s.group
           /\ AdvanceAfterPreparation(s).item = s.item
           /\ ReduceAfterPlanning(s).group = s.group
           /\ ReduceAfterPlanning(s).item = s.item
BY DEF Rows, AdvanceOrFinish, AdvanceAfterPreparation, ReduceAfterPlanning

LEMMA BeginPreparationAccounted ==
    ASSUME NEW s, Good(s), Accounted(s), Good(BeginPreparation(s))
    PROVE  Accounted(BeginPreparation(s))
<1> DEFINE t == BeginPreparation(s)
<1>1. /\ s \in Rows /\ t \in Rows
      /\ \A g \in Groups : t.group[g] =
            IF s.group[g].preparation = "not_started"
            THEN [s.group[g] EXCEPT !.preparation = "running"] ELSE s.group[g]
      /\ \A i \in Items : s.item[i].state # "pending" => t.item[i] = s.item[i]
  BY DEF Good, Rows, BeginPreparation
<1> SUFFICES ASSUME NEW g \in Groups PROVE GroupAccounted(t, g)
  BY DEF Accounted
<1>2. /\ RowConsistent(s.group[g]) /\ s.group[g] \in GroupRow
      /\ \A i \in Items : GroupOf[i] = g => LinkConsistent(s.group[g], s.item[i])
  BY DEF Good, Rows, RowsConsistent
<1> HIDE DEF t
<1>3. CASE s.group[g].preparation = "not_started"
  <2>1. t.group[g].publication = "not_started" /\ t.group[g].overall = "running"
    BY <1>1, <1>2, <1>3 DEF RowConsistent, GroupRow
  <2> QED  BY <2>1, FreshGroup
<1>4. CASE s.group[g].preparation # "not_started"
  <2>1. \A i \in Items : GroupOf[i] = g => t.item[i] = s.item[i]
    BY <1>1, <1>2, <1>4 DEF LinkConsistent
  <2>2. t.group[g] = s.group[g] /\ s \in Rows /\ t \in Rows /\ GroupAccounted(s, g)
    BY <1>1, <1>4 DEF Accounted
  <2> QED  BY <2>1, <2>2, SameGroup
<1> QED  BY <1>3, <1>4

\* The items that end with the preparation of their group are announced by it.
LEMMA ApplyPreparationResultAccounted ==
    ASSUME NEW s, Good(s), Accounted(s), NEW g \in Groups, NEW status \in PreparationEnded,
           ApplyPreparationResultOk(s, g)
    PROVE  Accounted(ApplyPreparationResult(s, g, status))
<1> DEFINE t == EndPreparation(s, g, status)
<1>1. s \in Rows /\ RowsConsistent(s) /\ s.group[g].preparation = "running"
  BY DEF Good, ApplyPreparationResultOk
<1>2. t \in Rows
  BY <1>1, EndPreparationRows
<1>3. /\ \A x \in Groups : t.group[x] =
            IF x = g THEN PreparedGroup(s.group[x], status) ELSE s.group[x]
      /\ \A i \in Items : t.item[i] =
            IF GroupOf[i] = g THEN PreparedItem(s.item[i], status) ELSE s.item[i]
  BY <1>1 DEF EndPreparation, Rows
<1> HIDE DEF t
<1>4. ASSUME NEW x \in Groups PROVE GroupAccounted(t, x)
  <2>1. CASE x # g
    BY <1>1, <1>2, <1>3, <2>1, SameGroup DEF Accounted
  <2>2. CASE x = g
    <3>1. /\ RowConsistent(s.group[g]) /\ s.group[g] \in GroupRow
          /\ \A i \in Items : GroupOf[i] = g =>
                LinkConsistent(s.group[g], s.item[i]) /\ s.item[i] \in ItemRow
      BY <1>1 DEF RowsConsistent, Rows
    <3>2. CASE status = "succeeded"
      <4>1. t.group[g].publication = "not_started" /\ t.group[g].overall = "running"
        BY <1>1, <1>3, <3>1, <3>2 DEF PreparedGroup, RowConsistent, GroupRow
      <4> QED  BY <2>2, <4>1, FreshGroup
    <3>3. CASE status # "succeeded"
      <4>1. /\ t.group[g].plan = NoPlan /\ t.group[g].overall = status
            /\ t.group[g].attention = (status = "unresolved")
        BY <1>1, <1>3, <3>1, <3>3 DEF PreparedGroup, RowConsistent, GroupRow
      <4>2. \A i \in Items : GroupOf[i] = g => t.item[i].state = "terminal" /\ t.item[i].class = status
        <5>1. TAKE i \in Items
        <5>2. HAVE GroupOf[i] = g
        <5>3. s.item[i].state = "running"
          BY <1>1, <3>1, <5>2 DEF LinkConsistent, RowConsistent, ItemRow
        <5>4. s.item[i] \in ItemRow
          BY <3>1, <5>2
        <5> QED  BY <1>3, <3>3, <5>2, <5>3, <5>4 DEF PreparedItem, EndedItem, ItemRow
      <4>3. ItemsOf(t, g) = {i \in Items : GroupOf[i] = g}
        BY <1>2, ItemsOfRows
      <4>4. Counted(t.group[g], ClassesOf(t, g))
        BY <4>1 DEF Counted
      <4>5. \A i \in ItemsOf(t, g) : Owned(t.group[g], t.item[i])
        BY <4>2, <4>3 DEF Owned
      <4>6. \A i \in ItemsOf(t, g) : Announced(t.group[g], t.item[i])
        BY <3>3, <4>1, <4>2, <4>3 DEF Announced, PreparationEnded, AttentionClasses
      <4> QED  BY <2>2, <4>4, <4>5, <4>6 DEF GroupAccounted
    <3> QED  BY <3>2, <3>3
  <2> QED  BY <2>1, <2>2
<1>5. Accounted(t)
  BY <1>4 DEF Accounted
<1>6. Good(AdvanceAfterPreparation(t))
  BY ApplyPreparationResultGood DEF ApplyPreparationResult, t
<1> QED  BY <1>2, <1>5, <1>6, AdvanceKeepsRows, SameRows DEF ApplyPreparationResult, Good, t

\* What a plan command says of the items: an action of this plan publishes it,
\* or it ends at once with the status of its group.
CompleteCommand(cmd) ==
    \A i \in DOMAIN cmd.action :
        /\ cmd.action[i] # NoAction => cmd.action[i][1] = cmd.plan
        /\ cmd.status[GroupOf[i]] \in {"rejected", "skipped"} =>
              cmd.action[i] = NoAction /\ cmd.class[i] = cmd.status[GroupOf[i]]

LEMMA PlanCommandComplete ==
    ASSUME NEW wave \in SUBSET Groups, NEW conflict \in SUBSET wave,
           NEW publish \in SUBSET {i \in Items : GroupOf[i] \in wave \ conflict},
           NEW media \in SUBSET (wave \ conflict),
           NEW slot \in [wave -> Slots], lastPlan \in Nat
    PROVE  CompleteCommand(PlanCommand(wave, publish, conflict, media, slot))
<1> DEFINE cmd == PlanCommand(wave, publish, conflict, media, slot)
<1>1. /\ DOMAIN cmd.action = {i \in Items : GroupOf[i] \in wave} /\ cmd.plan = lastPlan + 1
      /\ \A g \in wave : cmd.status[g] = IF g \in conflict THEN "rejected"
           ELSE IF \E i \in publish : GroupOf[i] = g THEN "running" ELSE "skipped"
      /\ \A i \in {j \in Items : GroupOf[j] \in wave} :
           /\ cmd.action[i] = IF i \in publish THEN <<lastPlan + 1, slot[GroupOf[i]]>> ELSE NoAction
           /\ cmd.class[i] = IF GroupOf[i] \in conflict THEN "rejected" ELSE "skipped"
  BY DEF PlanCommand
<1> HIDE DEF cmd
<1> SUFFICES ASSUME NEW i \in DOMAIN cmd.action
             PROVE  /\ cmd.action[i] # NoAction => cmd.action[i][1] = cmd.plan
                    /\ cmd.status[GroupOf[i]] \in {"rejected", "skipped"} =>
                          cmd.action[i] = NoAction /\ cmd.class[i] = cmd.status[GroupOf[i]]
  BY DEF CompleteCommand, cmd
<1>2. i \in Items /\ GroupOf[i] \in wave
  BY <1>1
<1>3. i \in publish => GroupOf[i] \notin conflict
  OBVIOUS
<1>4. cmd.action[i] # NoAction => cmd.action[i][1] = cmd.plan
  <2> DEFINE id == <<lastPlan + 1, slot[GroupOf[i]]>>
  <2>1. id[1] = lastPlan + 1
    OBVIOUS
  <2>2. cmd.action[i] # NoAction => cmd.action[i] = id
    BY <1>1, <1>2
  <2>3. cmd.plan = lastPlan + 1
    BY <1>1
  <2> HIDE DEF id
  <2> QED  BY <2>1, <2>2, <2>3
<1>5. CASE i \in publish
  <2>1. cmd.status[GroupOf[i]] = "running"
    BY <1>1, <1>2, <1>3, <1>5
  <2> QED  BY <1>4, <2>1
<1>6. CASE i \notin publish
  BY <1>1, <1>2, <1>4, <1>6
<1> QED  BY <1>5, <1>6

\* A set of values that are all the same.
LEMMA OneClass ==
    ASSUME NEW s \in Rows, NEW g \in Groups, NEW class,
           \A i \in Items : GroupOf[i] = g => s.item[i].class = class
    PROVE  ClassesOf(s, g) = {class}
<1>1. \E i \in Items : GroupOf[i] = g
  BY GroupAssumption
<1> QED  BY <1>1, ItemsOfRows

\* A planned group without media ends with the class of its items, and an item
\* that waits is owned by an action of the plan.
LEMMA WithPlanAccounted ==
    ASSUME NEW s, Good(s), Accounted(s), NEW cmd, PlannedCommand(cmd), CompleteCommand(cmd),
           ApplyPublicationPlanResultOk(s, cmd)
    PROVE  WithPlan(s, cmd) \in Rows /\ Accounted(WithPlan(s, cmd))
<1> DEFINE t == WithPlan(s, cmd)
<1>1. s \in Rows /\ RowsConsistent(s) /\ t \in Rows
  BY WithPlanRows DEF Good
<1>2. /\ \A g \in Groups : t.group[g] =
            IF g \in DOMAIN cmd.status
            THEN PlannedGroup(s.group[g], cmd.status[g], g \in cmd.media, cmd.plan)
            ELSE s.group[g]
      /\ \A i \in Items : t.item[i] =
            IF i \in DOMAIN cmd.action
            THEN PlannedItem(s.item[i], cmd.action[i], cmd.class[i])
            ELSE s.item[i]
  BY <1>1 DEF WithPlan, Rows
<1> HIDE DEF t
<1>3. ASSUME NEW g \in Groups PROVE GroupAccounted(t, g)
  <2>1. CASE g \notin DOMAIN cmd.status
    <3>1. \A i \in Items : GroupOf[i] = g => t.item[i] = s.item[i]
      BY <1>2, <2>1 DEF PlannedCommand
    <3>2. t.group[g] = s.group[g] /\ GroupAccounted(s, g)
      BY <1>2, <2>1 DEF Accounted
    <3> QED  BY <1>1, <3>1, <3>2, SameGroup
  <2>2. CASE g \in DOMAIN cmd.status
    <3> DEFINE status == cmd.status[g]
    <3>1. /\ s.group[g] \in GroupRow
          /\ status \in {"running", "skipped", "rejected"}
      BY <1>1, <2>2 DEF Rows, PlannedCommand
    <3>2. /\ t.group[g].publication = status
          /\ t.group[g].plan = cmd.plan
          /\ t.group[g].overall # "running" =>
                status # "running" /\ t.group[g].overall = status /\ t.group[g].media = "skipped"
      BY <1>2, <2>2, <3>1 DEF PlannedGroup, GroupRow
    <3>3. ASSUME NEW i \in Items, GroupOf[i] = g
          PROVE  /\ cmd.action[i] # NoAction =>
                       /\ t.item[i].action = cmd.action[i]
                       /\ t.item[i].class = NoClass /\ status = "running"
                       /\ cmd.action[i][1] = cmd.plan
                 /\ cmd.action[i] = NoAction => t.item[i].state = "terminal"
                 /\ status # "running" => t.item[i].class = status
                 /\ t.item[i].class \notin AttentionClasses
      <4>1. i \in DOMAIN cmd.action
        BY <2>2, <3>3 DEF PlannedCommand
      <4>2. /\ s.item[i] \in ItemRow /\ s.item[i].state = "running" /\ s.item[i].class = NoClass
            /\ NoClass \notin AttentionClasses
        BY <1>1, <4>1, ActionAssumption
        DEF Rows, RowsConsistent, ItemConsistent, ApplyPublicationPlanResultOk, Classes, AttentionClasses
      <4>3. t.item[i] = PlannedItem(s.item[i], cmd.action[i], cmd.class[i])
        BY <1>2, <4>1
      <4>4. /\ cmd.action[i] # NoAction => status = "running" /\ cmd.action[i][1] = cmd.plan
            /\ status # "running" => cmd.action[i] = NoAction /\ cmd.class[i] = status
            /\ cmd.class[i] \in {"rejected", "skipped"}
        BY <3>1, <3>3, <4>1 DEF PlannedCommand, CompleteCommand
      <4>5. CASE cmd.action[i] = NoAction
        <5>1. t.item[i].state = "terminal" /\ t.item[i].class = cmd.class[i]
          BY <4>2, <4>3, <4>5 DEF PlannedItem, EndedItem, ItemRow
        <5> QED  BY <4>4, <4>5, <5>1 DEF AttentionClasses
      <4>6. CASE cmd.action[i] # NoAction
        <5>1. t.item[i].action = cmd.action[i] /\ t.item[i].class = NoClass
          BY <4>2, <4>3, <4>6 DEF PlannedItem, ItemRow
        <5> QED  BY <4>2, <4>4, <4>6, <5>1
      <4> QED  BY <4>5, <4>6
    <3> HIDE DEF status
    <3>4. ItemsOf(t, g) = {i \in Items : GroupOf[i] = g}
      BY <1>1, ItemsOfRows
    <3>5. Counted(t.group[g], ClassesOf(t, g))
      <4>1. SUFFICES ASSUME t.group[g].overall # "running"
                     PROVE  \/ t.group[g].overall = GroupVerdict(t.group[g].media, ClassesOf(t, g))
                            \/ t.group[g].overall = "skipped" /\ ClassesOf(t, g) = {"skipped"}
        BY DEF Counted
      <4>2. ClassesOf(t, g) = {status}
        BY <1>1, <3>2, <3>3, <4>1, OneClass
      <4> QED  BY <3>1, <3>2, <4>1, <4>2 DEF GroupVerdict, AttentionClasses
    <3>6. \A i \in ItemsOf(t, g) : Owned(t.group[g], t.item[i])
      BY <3>2, <3>3, <3>4 DEF Owned
    <3>7. \A i \in ItemsOf(t, g) : Announced(t.group[g], t.item[i])
      BY <3>3, <3>4 DEF Announced
    <3> QED  BY <3>5, <3>6, <3>7 DEF GroupAccounted
  <2> QED  BY <2>1, <2>2
<1> QED  BY <1>1, <1>3 DEF Accounted, t

LEMMA ApplyPublicationPlanResultAccounted ==
    ASSUME NEW s, Good(s), Accounted(s), NEW cmd, PlannedCommand(cmd), CompleteCommand(cmd),
           ApplyPublicationPlanResultOk(s, cmd)
    PROVE  Accounted(ApplyPublicationPlanResult(s, cmd))
<1> DEFINE t == WithPlan(s, cmd)
           r == ApplyPublicationPlanResult(s, cmd)
<1>1. t \in Rows /\ Accounted(t)
  BY WithPlanAccounted
<1>2. r \in Rows
  BY ApplyPublicationPlanResultGood DEF Good
<1>3. r.group = t.group /\ r.item = t.item
  BY <1>1, AdvanceKeepsRows DEF ApplyPublicationPlanResult, Rows
<1> HIDE DEF t
<1> QED  BY <1>1, <1>2, <1>3, SameRows

\* A reduced group counts the classes of its items, and announces the open ones.
LEMMA ReducedAccounted ==
    ASSUME NEW row \in GroupRow, NEW classes
    PROVE  LET new == ReducedGroup(row, classes) IN
           /\ Counted(new, classes)
           /\ new.overall # "running" =>
                 new.attention = (row.media = "unresolved" \/ classes \cap AttentionClasses # {})
BY DEF ReducedGroup, GroupRow, Counted

LEMMA FinishActionAccounted ==
    ASSUME NEW s, Good(s), Accounted(s), NEW a \in ActionIds, NEW D \in SUBSET Items,
           NEW class \in [D -> Classes], NEW skip \in SUBSET Groups,
           skip \subseteq {GroupOf[i] : i \in D},
           ApplyPublicationActionResultOk(s, a, class, skip)
    PROVE  Accounted(ReduceGroups(SkipMedia(FinishItems(s, class), skip),
                                  AffectedGroups(class, skip)))
<1> DEFINE u == FinishItems(s, class)
           v == SkipMedia(u, skip)
           A == AffectedGroups(class, skip)
           t == ReduceGroups(v, A)
<1>1. /\ s \in Rows /\ t \in Rows /\ DOMAIN class = D
      /\ A = {GroupOf[i] : i \in D} /\ A \subseteq Groups
  BY GroupAssumption, FinishActionRows DEF Good, AffectedGroups
<1>2. \A g \in A : AllItemsTerminal(u, g)
  BY DEF ApplyPublicationActionResultOk
<1>3. /\ DOMAIN u.item = Items /\ u.group = s.group
      /\ \A i \in Items \ D : u.item[i] = s.item[i]
  BY <1>1 DEF FinishItems, Rows
<1> HIDE DEF A
<1>4. /\ v.item = u.item /\ DOMAIN v.group = Groups
      /\ \A g \in Groups : v.group[g] \in GroupRow /\ (g \notin skip => v.group[g] = s.group[g])
  <2>1. \A row \in GroupRow : [row EXCEPT !.media = "skipped"] \in GroupRow
    BY DEF GroupRow, Statuses
  <2>2. DOMAIN s.group = Groups /\ \A g \in Groups : s.group[g] \in GroupRow
    BY <1>1 DEF Rows
  <2>3. v.item = u.item /\ v.group = [g \in Groups |->
          IF g \in skip THEN [s.group[g] EXCEPT !.media = "skipped"] ELSE s.group[g]]
    BY <1>1, <1>3, <2>2 DEF SkipMedia, FinishItems, Rows
  <2> HIDE DEF v, u
  <2> QED  BY <2>1, <2>2, <2>3
<1>5. /\ t.item = u.item
      /\ \A g \in Groups : t.group[g] =
            IF g \in A THEN ReducedGroup(v.group[g], ClassesOf(v, g)) ELSE v.group[g]
  <2>1. "item" \in DOMAIN v /\ "group" \in DOMAIN v
    BY <1>1 DEF SkipMedia, FinishItems, Rows
  <2> HIDE DEF v
  <2> QED  BY <1>4, <2>1 DEF ReduceGroups
<1> HIDE DEF t, u, v
<1>6. ASSUME NEW g \in Groups PROVE GroupAccounted(t, g)
  <2>1. ItemsOf(t, g) = {i \in Items : GroupOf[i] = g}
    BY <1>1, ItemsOfRows
  <2>2. CASE g \in A
    <3>1. ClassesOf(t, g) = ClassesOf(v, g)
      <4>1. t.item = v.item
        BY <1>4, <1>5
      <4> QED  BY <4>1 DEF ClassesOf, ItemsOf
    <3>2. t.group[g] = ReducedGroup(v.group[g], ClassesOf(t, g)) /\ v.group[g] \in GroupRow
      BY <1>4, <1>5, <2>2, <3>1
    <3>3. Counted(t.group[g], ClassesOf(t, g))
      BY <3>2, ReducedAccounted
    <3>4. \A i \in ItemsOf(t, g) : t.item[i].state = "terminal"
      BY <1>2, <1>3, <1>5, <2>1, <2>2, ZenonT(30) DEF AllItemsTerminal, ItemsOf
    <3>5. \A i \in ItemsOf(t, g) : Owned(t.group[g], t.item[i])
      BY <3>4 DEF Owned
    <3>6. \A i \in ItemsOf(t, g) : t.item[i].class \in ClassesOf(t, g)
      BY DEF ClassesOf
    <3>7. \A i \in ItemsOf(t, g) : Announced(t.group[g], t.item[i])
      BY <3>2, <3>6, ReducedAccounted DEF Announced
    <3> QED  BY <3>3, <3>5, <3>7 DEF GroupAccounted
  <2>3. CASE g \notin A
    <3>1. \A i \in Items : GroupOf[i] = g => t.item[i] = s.item[i]
      BY <1>1, <1>3, <1>5, <2>3
    <3>2. t.group[g] = s.group[g] /\ GroupAccounted(s, g)
      BY <1>1, <1>4, <1>5, <2>3 DEF Accounted
    <3> QED  BY <1>1, <3>1, <3>2, SameGroup
  <2> QED  BY <2>2, <2>3
<1> QED  BY <1>6 DEF Accounted, t, u, v, A

LEMMA ApplyPublicationActionResultAccounted ==
    ASSUME NEW s, Good(s), Accounted(s), NEW a \in ActionIds, NEW D \in SUBSET Items,
           NEW class \in [D -> Classes], NEW skip \in SUBSET {GroupOf[i] : i \in D},
           ApplyPublicationActionResultOk(s, a, class, skip)
    PROVE  Accounted(ApplyPublicationActionResult(s, class, skip))
<1> DEFINE t == ReduceGroups(SkipMedia(FinishItems(s, class), skip),
                             AffectedGroups(class, skip))
<1>1. skip \in SUBSET Groups
  BY GroupAssumption
<1>2. t \in Rows /\ Accounted(t)
  BY <1>1, FinishActionRows, FinishActionAccounted
<1>3. ApplyPublicationActionResult(s, class, skip) \in Rows
  BY ApplyPublicationActionResultGood DEF Good
<1>4. ApplyPublicationActionResult(s, class, skip) = AdvanceOrFinish(t, "reconciling")
  BY DEF ApplyPublicationActionResult
<1> HIDE DEF t
<1> QED  BY <1>2, <1>3, <1>4, AdvanceKeepsRows, SameRows

LEMMA ApplyPublicationMediaResultAccounted ==
    ASSUME NEW s, Good(s), Accounted(s), NEW g \in Groups, NEW class \in Classes,
           ApplyPublicationMediaResultOk(s, g)
    PROVE  Accounted(ApplyPublicationMediaResult(s, g, class))
<1> DEFINE status == MediaStatus(class)
           t == WithMedia(s, g, status)
           new == MediaGroup(s.group[g], status, ClassesOf(s, g))
<1>1. /\ s \in Rows /\ s.group[g] \in GroupRow
      /\ s.group[g].publication \in PublicationEnded
      /\ AllItemsTerminal(s, g)
  BY DEF Good, Rows, ApplyPublicationMediaResultOk
<1>2. status \in Statuses
  BY DEF MediaStatus, Classes, Statuses
<1> HIDE DEF status
<1>3. new \in GroupRow
  BY <1>1, <1>2, GroupRowType
<1>4. /\ new.media = status /\ new.overall = GroupVerdict(status, ClassesOf(s, g))
      /\ new.attention = (status = "unresolved" \/ ClassesOf(s, g) \cap AttentionClasses # {})
  BY <1>1 DEF MediaGroup, GroupRow
<1>5. /\ t \in Rows /\ t.item = s.item
      /\ \A x \in Groups : t.group[x] = IF x = g THEN new ELSE s.group[x]
  <2>1. t = [s EXCEPT !.group = [x \in DOMAIN s.group |-> IF x = g THEN new ELSE s.group[x]]]
    BY DEF WithMedia
  <2> HIDE DEF t, new
  <2> QED  BY <1>1, <1>3, <2>1 DEF Rows
<1> HIDE DEF t, new
<1>6. ASSUME NEW x \in Groups PROVE GroupAccounted(t, x)
  <2>1. CASE x # g
    BY <1>1, <1>5, <2>1, SameGroup DEF Accounted
  <2>2. CASE x = g
    <3>1. ItemsOf(t, g) = ItemsOf(s, g) /\ ClassesOf(t, g) = ClassesOf(s, g)
      BY <1>5 DEF ItemsOf, ClassesOf
    <3>2. t.group[g] = new
      BY <1>5
    <3>3. Counted(t.group[g], ClassesOf(t, g))
      BY <1>4, <3>1, <3>2 DEF Counted
    <3>4. \A i \in ItemsOf(t, g) : Owned(t.group[g], t.item[i])
      BY <1>1, <1>5, <3>1 DEF Owned, AllItemsTerminal
    <3>5. \A i \in ItemsOf(t, g) : t.item[i].class \in ClassesOf(s, g)
      BY <1>5, <3>1 DEF ClassesOf
    <3>6. \A i \in ItemsOf(t, g) : Announced(t.group[g], t.item[i])
      BY <1>4, <3>2, <3>5 DEF Announced
    <3> QED  BY <2>2, <3>3, <3>4, <3>6 DEF GroupAccounted
  <2> QED  BY <2>1, <2>2
<1>7. Accounted(t)
  BY <1>6 DEF Accounted
<1>8. /\ ApplyPublicationMediaResult(s, g, class) = AdvanceOrFinish(t, "media")
      /\ ApplyPublicationMediaResult(s, g, class) \in Rows
  BY ApplyPublicationMediaResultGood DEF ApplyPublicationMediaResult, Good, t, status
<1> QED  BY <1>5, <1>7, <1>8, AdvanceKeepsRows, SameRows

LEMMA ResetPublicationPlanningAccounted ==
    ASSUME NEW s, Good(s), Accounted(s), NEW plan \in Nat, ResetPublicationPlanningOk(s, plan)
    PROVE  Accounted(ResetPublicationPlanning(s, plan))
<1> DEFINE t == ResetPublicationPlanning(s, plan)
           P == PlanGroups(s, plan)
           G == [InitialGroup EXCEPT !.preparation = "succeeded"]
<1>1. s \in Rows /\ t \in Rows
  BY ResetPublicationPlanningGood DEF Good
<1>2. G.publication = "not_started" /\ G.overall = "running"
  BY DEF InitialGroup
<1> HIDE DEF G
<1>3. /\ \A g \in Groups : t.group[g] = IF g \in P THEN G ELSE s.group[g]
      /\ \A i \in Items : GroupOf[i] \notin P => t.item[i] = s.item[i]
  BY <1>1 DEF ResetPublicationPlanning, Rows, G
<1> HIDE DEF t, P
<1>4. ASSUME NEW g \in Groups PROVE GroupAccounted(t, g)
  <2>1. CASE g \in P
    BY <1>2, <1>3, <2>1, FreshGroup
  <2>2. CASE g \notin P
    BY <1>1, <1>3, <2>2, SameGroup DEF Accounted
  <2> QED  BY <2>1, <2>2
<1> QED  BY <1>4 DEF Accounted, t

\* A corrected item is counted anew, and its group announces what is still open.
LEMMA CorrectPublicationItemResultAccounted ==
    ASSUME NEW s, Good(s), Accounted(s), NEW i \in Items, NEW class \in Classes,
           NEW close \in BOOLEAN, CorrectPublicationItemResultOk(s, i, class, close)
    PROVE  Accounted(CorrectPublicationItemResult(s, i, class, close))
<1> DEFINE u == WithCorrection(s, i, class, close)
           g == GroupOf[i]
           v == ReduceCorrected(u, g)
           r == CorrectPublicationItemResult(s, i, class, close)
           new == CorrectedGroup(s.group[g], ClassesOf(u, g), HasOpenItem(u, g))
<1>1. /\ s \in Rows /\ r \in Rows /\ g \in Groups
      /\ AllItemsTerminal(s, g)
  BY GroupAssumption, CorrectPublicationItemResultGood DEF Good, CorrectPublicationItemResultOk
<1>2. /\ u \in Rows /\ u.group = s.group
      /\ \A j \in Items : j # i => u.item[j] = s.item[j]
      /\ u.item[i].state = "terminal"
  <2>1. /\ s.item[i] \in ItemRow /\ s.item[i].state = "terminal"
    BY <1>1 DEF Rows, CorrectPublicationItemResultOk
  <2> DEFINE new_item == [s.item[i] EXCEPT !.class = class, !.closed = close]
  <2>2. new_item \in ItemRow /\ new_item.state = "terminal"
    BY <2>1 DEF ItemRow
  <2>3. u = [s EXCEPT !.item = [j \in DOMAIN s.item |-> IF j = i THEN new_item ELSE s.item[j]]]
    BY DEF WithCorrection
  <2> HIDE DEF new_item, u
  <2> QED  BY <1>1, <2>2, <2>3 DEF Rows
<1> HIDE DEF u
<1>3. /\ r.item = u.item
      /\ \A x \in Groups : r.group[x] = IF x = g THEN new ELSE s.group[x]
  <2>1. /\ v.item = u.item /\ "transfer" \in DOMAIN v
        /\ \A x \in Groups : v.group[x] = IF x = g THEN new ELSE s.group[x]
    BY <1>2 DEF ReduceCorrected, Rows
  <2>2. r = [v EXCEPT !.transfer = CorrectedTransfer(v)]
    BY DEF CorrectPublicationItemResult, u
  <2> HIDE DEF v, r, new
  <2> QED  BY <2>1, <2>2
<1> HIDE DEF r, v
<1>4. /\ new.overall = GroupVerdict(new.media, ClassesOf(u, g))
      /\ new.attention = (HasOpenItem(u, g) \/ new.media = "unresolved")
  BY <1>1 DEF CorrectedGroup, Rows, GroupRow
<1> HIDE DEF new
<1>5. ASSUME NEW x \in Groups PROVE GroupAccounted(r, x)
  <2>1. CASE x # g
    BY <1>1, <1>2, <1>3, <2>1, SameGroup DEF Accounted
  <2>2. CASE x = g
    <3>1. ItemsOf(r, g) = ItemsOf(u, g) /\ ClassesOf(r, g) = ClassesOf(u, g)
      BY <1>3 DEF ItemsOf, ClassesOf
    <3>2. r.group[g] = new
      BY <1>1, <1>3
    <3>3. Counted(r.group[g], ClassesOf(r, g))
      BY <1>4, <3>1, <3>2 DEF Counted
    <3>4. \A j \in ItemsOf(r, g) : r.item[j].state = "terminal"
      BY <1>1, <1>2, <1>3, ItemsOfRows DEF AllItemsTerminal
    <3>5. \A j \in ItemsOf(r, g) : Owned(r.group[g], r.item[j])
      BY <3>4 DEF Owned
    <3>6. \A j \in ItemsOf(r, g) : Announced(r.group[g], r.item[j])
      BY <1>3, <1>4, <3>1, <3>2 DEF Announced, HasOpenItem
    <3> QED  BY <2>2, <3>3, <3>5, <3>6 DEF GroupAccounted
  <2> QED  BY <2>1, <2>2
<1> QED  BY <1>5 DEF Accounted, r

\* A committed transaction leaves exactly the rows it computed.
LEMMA CommitAccounted ==
    ASSUME NEW s, Good(s), Accounted(s), Commit(s)
    PROVE  Accounted(rows)'
<1>1. s \in Rows
  BY DEF Good
<1>2. s = [transfer |-> s.transfer, group |-> s.group, item |-> s.item]
  BY <1>1 DEF Rows
<1>3. rows' = s
  BY <1>2, RowsFields DEF Commit
<1>4. Accounted(rows') <=> Accounted(rows)'
  BY DEF Accounted, GroupAccounted, Counted, Owned, Announced, ClassesOf, ItemsOf
<1> QED  BY <1>3, <1>4

\* No transaction leaves an item of a consistent transfer unaccounted for: one
\* step per action.
LEMMA NextAccounted ==
    ASSUME Consistent, Accounted(rows), [Next]_vars
    PROVE  Accounted(rows)'
<1>1. Good(rows) /\ lastPlan \in Nat /\ rows \in Rows
  BY DEF Consistent, Good
<1>2. ASSUME NEW s, Good(s), s.group = rows.group, s.item = rows.item, Commit(s)
      PROVE  Accounted(rows)'
  BY <1>1, <1>2, SameRows, CommitAccounted DEF Good
<1>3. CASE InitializeTransfer
  BY <1>1, <1>2, <1>3, InitializeGood DEF InitializeTransfer, Initialize, Rows
<1>4. CASE FailInitialization
  BY <1>1, <1>2, <1>4, MarkInitializationFailedGood
  DEF FailInitialization, MarkInitializationFailed, Rows
<1>5. CASE StartPreparation
  BY <1>1, <1>5, BeginPreparationGood, BeginPreparationAccounted, CommitAccounted
  DEF StartPreparation
<1>6. ASSUME NEW g \in Groups, NEW status \in PreparationEnded, PrepareGroup(g, status)
      PROVE  Accounted(rows)'
  BY <1>1, <1>6, ApplyPreparationResultGood, ApplyPreparationResultAccounted, CommitAccounted
  DEF PrepareGroup
<1>7. CASE PlanWave
  <2>1. PICK wave \in SUBSET ReadyGroups \ {{}} : \E conflict \in SUBSET wave :
          \E publish \in SUBSET {i \in Items : GroupOf[i] \in wave \ conflict} :
          \E media \in SUBSET (wave \ conflict) : \E slot \in [wave -> Slots] :
            SavePlan(wave, publish, conflict, media, slot)
    BY <1>7 DEF PlanWave
  <2>2. PICK conflict \in SUBSET wave :
          \E publish \in SUBSET {i \in Items : GroupOf[i] \in wave \ conflict} :
          \E media \in SUBSET (wave \ conflict) : \E slot \in [wave -> Slots] :
            SavePlan(wave, publish, conflict, media, slot)
    BY <2>1
  <2>3. PICK publish \in SUBSET {i \in Items : GroupOf[i] \in wave \ conflict},
             media \in SUBSET (wave \ conflict), slot \in [wave -> Slots] :
          SavePlan(wave, publish, conflict, media, slot)
    BY <2>2
  <2> DEFINE cmd == PlanCommand(wave, publish, conflict, media, slot)
  <2>4. wave \in SUBSET Groups
    BY DEF ReadyGroups
  <2>5. PlannedCommand(cmd) /\ CompleteCommand(cmd)
    BY <1>1, <2>4, PlanCommandPlanned, PlanCommandComplete
  <2>6. /\ ApplyPublicationPlanResultOk(rows, cmd)
        /\ Commit(ApplyPublicationPlanResult(rows, cmd))
    BY <2>3 DEF SavePlan
  <2> HIDE DEF cmd
  <2>7. /\ Good(ApplyPublicationPlanResult(rows, cmd))
        /\ Accounted(ApplyPublicationPlanResult(rows, cmd))
    BY <1>1, <2>5, <2>6, ApplyPublicationPlanResultGood, ApplyPublicationPlanResultAccounted
  <2> QED  BY <2>6, <2>7, CommitAccounted
<1>8. CASE BeginAction
  BY <1>1, <1>2, <1>8, PhaseOpsGood DEF BeginAction, BeginPublicationAction, Rows
<1>9. CASE MarkReconciling
  BY <1>1, <1>2, <1>9, PhaseOpsGood DEF MarkReconciling, MarkPublicationReconciling, Rows
<1>10. CASE BeginMedia
  BY <1>1, <1>2, <1>10, PhaseOpsGood DEF BeginMedia, BeginPublicationMedia, Rows
<1>11. CASE FinishSomeAction
  <2>1. PICK a \in (1..lastPlan) \X Slots :
          \E class \in [ActionItems(a) -> Classes \ {"skipped"}] :
          \E skip \in SUBSET {GroupOf[i] : i \in ActionItems(a)} :
            FinishAction(a, class, skip)
    BY <1>11 DEF FinishSomeAction
  <2>2. PICK class \in [ActionItems(a) -> Classes \ {"skipped"}],
             skip \in SUBSET {GroupOf[i] : i \in ActionItems(a)} :
          FinishAction(a, class, skip)
    BY <2>1
  <2>3. a \in ActionIds /\ ActionItems(a) \in SUBSET Items
    BY <1>1 DEF ActionIds, ActionItems
  <2>4. class \in [ActionItems(a) -> Classes]
    OBVIOUS
  <2>5. /\ Good(ApplyPublicationActionResult(rows, class, skip))
        /\ Accounted(ApplyPublicationActionResult(rows, class, skip))
    BY <1>1, <2>2, <2>3, <2>4, ApplyPublicationActionResultGood,
       ApplyPublicationActionResultAccounted DEF FinishAction
  <2> QED  BY <2>2, <2>5, CommitAccounted DEF FinishAction
<1>12. ASSUME NEW g \in Groups, NEW class \in Classes, FinishMedia(g, class)
       PROVE  Accounted(rows)'
  BY <1>1, <1>12, ApplyPublicationMediaResultGood, ApplyPublicationMediaResultAccounted,
     CommitAccounted DEF FinishMedia
<1>13. ASSUME NEW plan \in 1..lastPlan, ResetPlan(plan)
       PROVE  Accounted(rows)'
  BY <1>1, <1>13, ResetPublicationPlanningGood, ResetPublicationPlanningAccounted,
     CommitAccounted DEF ResetPlan
<1>14. ASSUME NEW i \in Items, NEW class \in Classes, NEW close \in BOOLEAN,
              CorrectItem(i, class, close)
       PROVE  Accounted(rows)'
  BY <1>1, <1>14, CorrectPublicationItemResultGood, CorrectPublicationItemResultAccounted,
     CommitAccounted DEF CorrectItem
<1>15. CASE UNCHANGED vars
  <2>1. rows' = rows
    BY <1>15 DEF vars, rows
  <2> QED  BY <2>1 DEF Accounted, GroupAccounted, ClassesOf, ItemsOf
<1> QED  BY <1>3, <1>4, <1>5, <1>6, <1>7, <1>8, <1>9, <1>10, <1>11, <1>12, <1>13,
            <1>14, <1>15 DEF Next

\* Every item is accounted for, for any number of groups, items, actions and plans:
\* the outcome of an ended group is the aggregate of its items and its media, an
\* item that waits is owned by an action of its group's present plan, and an item
\* open for an operator is announced, whichever of the preparation, plan, action,
\* media and correction results wrote last.
THEOREM NoItemUnaccounted == Spec => []ItemsAreAccountedFor
<1>1. Init => Accounted(rows)
  <2> SUFFICES ASSUME Init, NEW g \in Groups PROVE GroupAccounted(rows, g)
    BY DEF Accounted
  <2>1. rows.group[g].publication = "not_started" /\ rows.group[g].overall = "running"
    BY RowsFields DEF Init, InitialGroup
  <2> QED  BY <2>1, FreshGroup
<1>2. Consistent /\ Consistent' /\ Accounted(rows) /\ [Next]_vars => Accounted(rows)'
  BY NextAccounted
<1>3. Consistent /\ Accounted(rows) => ItemsAreAccountedFor
  <2> SUFFICES ASSUME Consistent, Accounted(rows) PROVE ItemsAreAccountedFor
    OBVIOUS
  <2>1. rows \in Rows
    BY DEF Consistent, Good
  <2>2. \A g \in Groups : Counted(group[g], ClassesOf(rows, g))
    BY RowsFields DEF Accounted, GroupAccounted
  <2>3. \A i \in Items : /\ Owned(group[GroupOf[i]], item[i])
                         /\ Announced(group[GroupOf[i]], item[i])
    BY <2>1, RowsFields, ItemsOfRows, GroupAssumption DEF Accounted, GroupAccounted
  <2>4. OutcomeAggregatesItems
    BY <2>2 DEF OutcomeAggregatesItems, Counted
  <2>5. WaitingItemHasAction
    BY <2>3 DEF WaitingItemHasAction, Owned
  <2>6. OpenItemIsAnnounced
    BY <2>3 DEF OpenItemIsAnnounced, Announced
  <2> QED  BY <2>4, <2>5, <2>6 DEF ItemsAreAccountedFor
<1> QED  BY <1>1, <1>2, <1>3, Invariance, PTL DEF Spec
=============================================================================
