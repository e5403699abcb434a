------------------------- MODULE MediaExecutionProofs -------------------------
(***************************************************************************)
(* The media dispatcher, the visibility loop, crashes, the product actions *)
(* of the plan and the plans of other transfers leave uploads, identities, *)
(* plan and projection in agreement, for any plans that JournalAssumption  *)
(* and MediaAssumption allow.                                              *)
(*                                                                         *)
(* The inductive invariant Inv says, part by part:                         *)
(*   JournalOk, RemoteOk  the values of the columns and of the rest;       *)
(*   UploadsOk     an upload, its attempt, its visibility job, its worker  *)
(*                 and what left the process are in stages that go         *)
(*                 together;                                               *)
(*   OwnersOk      an upload in flight owns its identity, and was let in   *)
(*                 by the product action of its item or by an earlier      *)
(*                 plan;                                                   *)
(*   ActionsOk     an action under way has an attempt, and an upload that  *)
(*                 is in order has found its product action ended;         *)
(*   PlanOk        a plan ends with its last action, and nothing of a plan *)
(*                 that is withdrawn is open;                              *)
(*   ProjectionOk  what the rows of a transfer owe to all this: items and  *)
(*                 groups end with their product action, a group waits for *)
(*                 every upload that is open, and shows the worst of those *)
(*                 that ended.                                             *)
(* A worker's answer is accepted because its group still waits, and it     *)
(* waits because the upload began after the product action had reduced the *)
(* group: the order of the two is what the last three parts carry.         *)
(***************************************************************************)
EXTENDS MediaExecution, SequenceTheorems, TLAPS

-----------------------------------------------------------------------------
(* The inductive invariant. *)

Classes == {"success", "skipped", "rejected"} \cup AttentionClasses

PlanStates == {"awaiting_authorization", "executing", "terminal", "superseded"}

AuthStates == OpenAuthorization \cup {"expired", "closed", "superseded"}

UnderWay == {"dispatching", "reconciling"}

ActionRows ==
    [state : {"planned"} \cup UnderWay \cup EndedStates, auth : 0..MaxAuths,
     attempt : {"none", "open", "accepted"}, retry : {"none"}, baseline : [Vendors -> Nat]]

IdentityStates ==
    {"remote_missing", "remote_present", "rejected", "mutation_pending", "blocked_uncertain"}

IdentityRows == [state : IdentityStates, active : Actions \cup Items \cup {Free}]

\* The states of a media action with an attempt.
TriedStates == UnderWay \cup {"success", "rejected"} \cup AttentionClasses

MediaStates == TriedStates \cup {"none", "planned", "skipped", "superseded"}

UploadRows == [auth : 0..MaxAuths, attempt : {"none", "open"} \cup MediaAnswers]

\* The value d of ProductJournal has its nine fields.
IsJournal(d) ==
    d = [rows |-> d.rows, plan |-> d.plan, auth |-> d.auth, action |-> d.action,
         member |-> d.member, media |-> d.media, upload |-> d.upload,
         attributed |-> d.attributed, identity |-> d.identity]

\* The rows of the projection.
GroupTargetsOf(t) == {GroupOf[i] : i \in TransferItems(t)}

TransferRows ==
    [phase : {"awaiting_authorization", "finished"} \cup ExecutingPhases,
     outcome : {"running", "unresolved", "rejected", "partial", "succeeded"},
     attention : BOOLEAN]

GroupColumn == {"not_started", "running", "succeeded", "rejected", "unresolved", "skipped"}

GroupRows ==
    [preparation : GroupColumn, publication : GroupColumn, media : GroupColumn,
     overall : {"running", "unresolved", "rejected", "partial", "success", "succeeded", "skipped"},
     attention : BOOLEAN, plan : {ThePlan, NoPlan}]

ItemRows ==
    [state : {"pending", "running", "terminal"}, class : Classes \cup {NoClass},
     action : Actions \cup {NoAction}, closed : BOOLEAN]

RowsOk(s, t) ==
    /\ s = [transfer |-> s.transfer, group |-> s.group, item |-> s.item]
    /\ s.transfer \in TransferRows
    /\ s.group \in [GroupTargetsOf(t) -> GroupRows]
    /\ s.item \in [TransferItems(t) -> ItemRows]

AuthsOk(x) == x \in Seq(AuthStates) /\ Len(x) <= MaxAuths

\* The authorizations of each plan.
AuthColumn(auth) ==
    /\ auth = [t \in Transfers |-> auth[t]]
    /\ \A t \in Transfers : AuthsOk(auth[t])

JournalOk(d) ==
    /\ IsJournal(d)
    /\ d.rows = [t \in Transfers |-> d.rows[t]] /\ \A t \in Transfers : RowsOk(d.rows[t], t)
    /\ d.plan \in [Transfers -> PlanStates]
    /\ AuthColumn(d.auth)
    /\ d.action \in [Actions -> ActionRows]
    /\ d.member \in [Items -> Classes \cup {NoClass}]
    /\ d.media \in [Items -> MediaStates]
    /\ d.upload \in [Items -> UploadRows]
    /\ d.attributed \in SUBSET Items
    /\ d.identity \in [Vendors -> IdentityRows]

RemoteOk ==
    /\ visibility \in [Items -> [open : BOOLEAN, leased : BOOLEAN, late : BOOLEAN]]
    /\ worker \in [Items -> [step : {"none", "decide", "send", "record"},
                             epoch : 0..MaxAuths, stable : BOOLEAN, answer : MediaAnswers]]
    /\ checker \in [Items -> [step : {"none", "check", "record"}, visible : BOOLEAN]]
    /\ received \in [Items -> Nat]
    /\ sends \in [Items -> Nat]

\* A media action, its attempt and its visibility job.
StageOk(i) ==
    /\ i \notin MediaItems => db.media[i] = "none"
    /\ db.upload[i].attempt = "none" <=> db.media[i] \notin TriedStates
    /\ db.upload[i].attempt = "open" <=> db.media[i] = "dispatching"
    /\ visibility[i].open <=> db.media[i] = "reconciling"
    /\ visibility[i].leased => visibility[i].open

\* What has left the process.
SentOk(i) ==
    /\ sends[i] <= 1
    /\ db.upload[i].attempt = "none" => sends[i] = 0 /\ received[i] = 0
    /\ worker[i].step = "send" =>
          db.media[i] = "dispatching" /\ sends[i] = 0 /\ received[i] = 0
    /\ worker[i].step = "record" =>
          /\ db.media[i] = "dispatching"
          /\ worker[i].answer \in {"rejected", "unsent"} => received[i] = 0
    /\ db.media[i] \in {"rejected", "internal_error"} => received[i] = 0

UploadsOk == \A i \in Items : StageOk(i) /\ SentOk(i)

\* The owner of the identity of i, and what let i in.
OwnerOk(i) ==
    /\ MediaInFlight(i) <=> IdentityOf(db, i).active = i
    /\ MediaInFlight(i) => i \in db.attributed \cup Replanned

\* The card of an item whose vendor code no other plan names is there only once
\* the action that makes it has ended.
MadeBy(a) ==
    \A i \in MembersOf[a] :
        OwnCode(i) /\ IsPresent(i) => db.action[a].state = "terminal"

AttributedOk ==
    \A i \in db.attributed :
        \E a \in Actions : i \in MembersOf[a] /\ db.action[a].state = "terminal"

OwnersOk ==
    /\ \A i \in MediaItems : OwnerOk(i)
    /\ \A a \in Actions : MadeBy(a)
    /\ AttributedOk

\* The product actions of the group of i have ended.
Carried(i) ==
    \A a \in ActionsOf(TransferOfItem(i)) :
        GroupOf[i] \in GroupTargets(a) => db.action[a].state = "terminal"

ActionOk(a) ==
    /\ db.action[a].state = "planned" => db.action[a].attempt = "none"
    /\ db.action[a].state \in UnderWay => db.action[a].attempt # "none"

InTurn(i) == db.upload[i].attempt # "none" /\ InOrder(i) => Carried(i)

ActionsOk == (\A a \in Actions : ActionOk(a)) /\ \A i \in MediaItems : InTurn(i)

PlanOf(t) ==
    /\ db.plan[t] = "executing" => ~PlanActionsEnded(db, t)
    /\ db.plan[t] = "terminal" => PlanActionsEnded(db, t)
    /\ db.plan[t] = "superseded" =>
          /\ \A a \in ActionsOf(t) : db.action[a].state = "superseded"
          /\ \A i \in TransferItems(t) :
                db.upload[i].attempt = "none" /\ db.media[i] \notin OpenMediaStates

PlanOk == \A t \in Transfers : PlanOf(t)

\* Items end, and groups are reduced, with their product action.
PublishedOk(t) ==
    db.plan[t] # "superseded" =>
        /\ \A i \in TransferItems(t) :
              (\A a \in ActionsOf(t) : i \in MembersOf[a] => db.action[a].state = "terminal")
                 => db.rows[t].item[i].state = "terminal"
        /\ \A g \in GroupTargetsOf(t) :
              (\A a \in ActionsOf(t) : g \in GroupTargets(a) => db.action[a].state = "terminal")
                 => db.rows[t].group[g].publication \in PublicationEnded

GroupRowOf(i) == db.rows[TransferOfItem(i)].group[GroupOf[i]]

\* The group of i waits for its upload, in the phase that stays until then.
Awaited(i) ==
    InOrder(i) =>
        /\ db.media[i] \in OpenMediaStates =>
              GroupRowOf(i).media = "running" /\ GroupRowOf(i).overall = "running"
        /\ MediaInFlight(i) => IsRunning(db.rows[TransferOfItem(i)], {"media"})

\* The group of i shows what its uploads came to.
Settled(i) ==
    /\ AttemptedMedia(i) # {}
    /\ GroupMediaEnded(db, i)
    /\ \A j \in MediaOfGroup(db, i) : InOrder(j)
    => \/ GroupRowOf(i).media = "running" /\ Aborted(TransferOfItem(i))
       \/ GroupRowOf(i).media = MediaStatus(GroupMediaClass(db, i))

ProjectionOk ==
    /\ \A t \in Transfers : PublishedOk(t)
    /\ \A i \in MediaItems : Awaited(i) /\ Settled(i)

Inv ==
    /\ JournalOk(db)
    /\ RemoteOk
    /\ UploadsOk
    /\ OwnersOk
    /\ ActionsOk
    /\ PlanOk
    /\ ProjectionOk

-----------------------------------------------------------------------------
(* What the constants are. *)

\* Ids of the constants are not null.
LEMMA Assumed ==
    /\ TransferOf \in [Actions -> Transfers]
    /\ MembersOf \in [Actions -> SUBSET Items]
    /\ \A a \in Actions : MembersOf[a] # {}
    /\ ExistingOf \in [Transfers -> SUBSET Items]
    /\ VendorOf \in [Items -> Vendors]
    /\ Free \notin Actions /\ NoAction \notin Actions /\ Free \notin Items
    /\ NoClass \notin Classes
    /\ NoPlan # ThePlan
    /\ Items \cap Actions = {}
    /\ SharedItems \subseteq Items
    /\ Files \in Nat /\ Files # 0 /\ MaxAuths \in Nat
BY JournalAssumption, MediaAssumption DEF Classes, AttentionClasses

LEMMA OneOwner ==
    ASSUME NEW a \in Actions, NEW b \in Actions, NEW i \in MembersOf[a], i \in MembersOf[b]
    PROVE  a = b
BY JournalAssumption

LEMMA ActionOfMember ==
    ASSUME NEW a \in Actions, NEW i \in MembersOf[a]
    PROVE  ActionOf(i) = a
<1>1. \E b \in Actions : i \in MembersOf[b]
  OBVIOUS
<1>2. ActionOf(i) \in Actions /\ i \in MembersOf[ActionOf(i)]
  BY <1>1 DEF ActionOf
<1>3. QED
  BY <1>2, OneOwner

LEMMA ItemsOfTransfer ==
    ASSUME NEW t \in Transfers
    PROVE  TransferItems(t) \subseteq Items /\ ActionsOf(t) \subseteq Actions
BY Assumed DEF TransferItems, PublishedItems, ActionsOf

LEMMA MembersOfTransfer ==
    ASSUME NEW a \in Actions
    PROVE  /\ TransferOf[a] \in Transfers
           /\ a \in ActionsOf(TransferOf[a])
           /\ MembersOf[a] \subseteq PublishedItems(TransferOf[a])
           /\ MembersOf[a] \subseteq TransferItems(TransferOf[a])
           /\ MembersOf[a] \subseteq Items
           /\ \A i \in MembersOf[a] : VendorOf[i] \in Vendors
           /\ \A i \in MembersOf[a] : GroupOf[i] \in GroupTargets(a)
BY Assumed DEF ActionsOf, PublishedItems, TransferItems, GroupTargets

LEMMA TransferOfThe ==
    ASSUME NEW t \in Transfers, NEW i \in TransferItems(t)
    PROVE  TransferOfItem(i) = t
<1>1. \E u \in Transfers : i \in TransferItems(u)
  OBVIOUS
<1>2. TransferOfItem(i) \in Transfers /\ i \in TransferItems(TransferOfItem(i))
  BY <1>1 DEF TransferOfItem
<1>3. QED
  BY <1>2, JournalAssumption

\* An upload is for an item of one transfer.
LEMMA MediaItem ==
    ASSUME NEW i \in MediaItems
    PROVE  /\ TransferOfItem(i) \in Transfers
           /\ i \in TransferItems(TransferOfItem(i))
           /\ i \in Items
           /\ VendorOf[i] \in Vendors
           /\ GroupOf[i] \in GroupTargetsOf(TransferOfItem(i))
<1>1. PICK t \in Transfers : i \in TransferItems(t)
  BY MediaAssumption
<1>2. TransferOfItem(i) = t
  BY <1>1, TransferOfThe
<1>3. QED
  BY <1>1, <1>2, ItemsOfTransfer, Assumed DEF GroupTargetsOf

\* The action that publishes an item belongs to the transfer of the item.
LEMMA PublishedBy ==
    ASSUME NEW t \in Transfers, NEW i \in PublishedItems(t)
    PROVE  /\ ActionOf(i) \in ActionsOf(t)
           /\ i \in MembersOf[ActionOf(i)]
           /\ GroupOf[i] \in GroupTargets(ActionOf(i))
           /\ i \in TransferItems(t)
<1>1. PICK a \in ActionsOf(t) : i \in MembersOf[a]
  BY DEF PublishedItems
<1>2. a \in Actions
  BY <1>1 DEF ActionsOf
<1>3. ActionOf(i) = a
  BY <1>1, <1>2, ActionOfMember
<1>4. QED
  BY <1>1, <1>2, <1>3, MembersOfTransfer DEF TransferItems, GroupTargets

\* A group of a transfer has one product action at most.
LEMMA OneActionOfGroup ==
    ASSUME NEW t \in Transfers, NEW a \in ActionsOf(t), NEW b \in ActionsOf(t),
           NEW g, g \in GroupTargets(a), g \in GroupTargets(b)
    PROVE  a = b
BY JournalAssumption DEF ActionsOf

-----------------------------------------------------------------------------
(* The fields of the journal. *)

\* Unfolds the types of a journal for the provers.
LEMMA JournalTypes ==
    ASSUME NEW d, JournalOk(d)
    PROVE  /\ IsJournal(d)
           /\ d.rows = [t \in Transfers |-> d.rows[t]]
           /\ \A t \in Transfers : RowsOk(d.rows[t], t)
           /\ d.plan \in [Transfers -> PlanStates]
           /\ AuthColumn(d.auth)
           /\ \A t \in Transfers : AuthsOk(d.auth[t])
           /\ d.action \in [Actions -> ActionRows]
           /\ d.member \in [Items -> Classes \cup {NoClass}]
           /\ d.media \in [Items -> MediaStates]
           /\ d.upload \in [Items -> UploadRows]
           /\ d.attributed \in SUBSET Items
           /\ d.identity \in [Vendors -> IdentityRows]
BY DEF JournalOk, AuthColumn

\* The columns of e other than its rows are of the right types.
ColumnsOk(e) ==
    /\ IsJournal(e)
    /\ e.plan \in [Transfers -> PlanStates]
    /\ AuthColumn(e.auth)
    /\ e.action \in [Actions -> ActionRows]
    /\ e.member \in [Items -> Classes \cup {NoClass}]
    /\ e.media \in [Items -> MediaStates]
    /\ e.upload \in [Items -> UploadRows]
    /\ e.attributed \in SUBSET Items
    /\ e.identity \in [Vendors -> IdentityRows]

LEMMA ColumnsOfJournal ==
    ASSUME NEW d, JournalOk(d)
    PROVE  ColumnsOk(d)
BY DEF JournalOk, ColumnsOk

\* One transfer's projection is written.
OneRow(e, d, t, r) == e.rows = [d.rows EXCEPT ![t] = r]

LEMMA RowsWritten ==
    ASSUME NEW d, JournalOk(d), NEW t \in Transfers, NEW r, RowsOk(r, t),
           NEW e, ColumnsOk(e), OneRow(e, d, t, r)
    PROVE  /\ JournalOk(e)
           /\ e.rows[t] = r
           /\ \A u \in Transfers : u # t => e.rows[u] = d.rows[u]
<1>1. d.rows = [u \in Transfers |-> d.rows[u]] /\ \A u \in Transfers : RowsOk(d.rows[u], u)
  BY JournalTypes
<1>2. e.rows = [u \in Transfers |-> IF u = t THEN r ELSE d.rows[u]]
  BY <1>1 DEF OneRow
<1>3. \A u \in Transfers : RowsOk(e.rows[u], u)
  BY <1>1, <1>2
<1>4. e.rows = [u \in Transfers |-> e.rows[u]]
  BY <1>2
<1>5. QED
  BY <1>2, <1>3, <1>4 DEF JournalOk, ColumnsOk

LEMMA SameRows ==
    ASSUME NEW d, JournalOk(d), NEW e, ColumnsOk(e), e.rows = d.rows
    PROVE  JournalOk(e)
<1>1. d.rows = [u \in Transfers |-> d.rows[u]] /\ \A u \in Transfers : RowsOk(d.rows[u], u)
  BY JournalTypes
<1>2. QED
  BY <1>1 DEF JournalOk, ColumnsOk

-----------------------------------------------------------------------------
(* Steps that leave the journal alone. *)

LEMMA InvParts ==
    ASSUME Inv
    PROVE  /\ JournalOk(db) /\ RemoteOk /\ UploadsOk /\ OwnersOk
           /\ ActionsOk /\ PlanOk /\ ProjectionOk
BY DEF Inv

LEMMA InvPartsNext ==
    ASSUME JournalOk(db)', RemoteOk', UploadsOk', OwnersOk', ActionsOk', PlanOk', ProjectionOk'
    PROVE  Inv'
BY DEF Inv

\* The parts of the invariant that are about the journal alone.
LEMMA SameDb ==
    ASSUME Inv, db' = db, RemoteOk', UploadsOk'
    PROVE  Inv'
<1>1. JournalOk(db) /\ OwnersOk /\ ActionsOk /\ PlanOk /\ ProjectionOk
  BY InvParts
<1>2. JournalOk(db)'
  BY <1>1 DEF JournalOk, IsJournal, RowsOk
<1>3. OwnersOk'
  BY <1>1 DEF OwnersOk, OwnerOk, MadeBy, AttributedOk, MediaInFlight, IdentityOf, IsPresent
<1>4. ActionsOk'
  BY <1>1 DEF ActionsOk, ActionOk, InTurn, Carried
<1>5. PlanOk'
  BY <1>1 DEF PlanOk, PlanOf, PlanActionsEnded
<1>6. ProjectionOk'
  <2>1. \A t \in Transfers : PublishedOk(t)'
    BY <1>1 DEF ProjectionOk, PublishedOk
  <2>2. ASSUME NEW i \in MediaItems PROVE Awaited(i)'
    <3>1. Awaited(i)
      BY <1>1 DEF ProjectionOk
    <3>2. QED
      BY <3>1 DEF Awaited, GroupRowOf, MediaInFlight, IsRunning
  <2>3. ASSUME NEW i \in MediaItems PROVE Settled(i)'
    <3>1. Settled(i)
      BY <1>1 DEF ProjectionOk
    <3>2. /\ AttemptedMedia(i)' = AttemptedMedia(i) /\ GroupRowOf(i)' = GroupRowOf(i)
          /\ GroupMediaEnded(db, i)' = GroupMediaEnded(db, i)
          /\ MediaOfGroup(db, i)' = MediaOfGroup(db, i)
          /\ GroupMediaClass(db, i)' = GroupMediaClass(db, i)
          /\ Aborted(TransferOfItem(i))' = Aborted(TransferOfItem(i))
      BY DEF AttemptedMedia, GroupRowOf, GroupMediaEnded, MediaOfGroup, GroupMediaClass, Aborted
    <3>3. QED
      BY <3>1, <3>2 DEF Settled
  <2>4. QED
    BY <2>1, <2>2, <2>3 DEF ProjectionOk
<1>7. QED
  BY <1>2, <1>3, <1>4, <1>5, <1>6, InvPartsNext

\* An upload is left alone, or withdrawn while it is planned.
LEMMA UploadKept ==
    ASSUME NEW i, StageOk(i), SentOk(i),
           \/ db'.media[i] = db.media[i]
           \/ db.media[i] = "planned" /\ db'.media[i] \in {"skipped", "superseded"},
           db'.upload[i] = db.upload[i], visibility'[i] = visibility[i],
           worker'[i] = worker[i] \/ worker'[i].step \in {"none", "decide"},
           sends'[i] = sends[i], received'[i] = received[i]
    PROVE  StageOk(i)' /\ SentOk(i)'
<1>1. StageOk(i)'
  BY DEF StageOk, TriedStates, UnderWay, AttentionClasses
<1>2. SentOk(i)'
  BY DEF SentOk
<1>3. QED
  BY <1>1, <1>2

LEMMA OnlyWorker ==
    ASSUME Inv, NEW i \in Items, NEW row,
           row \in [step : {"none", "decide", "send", "record"},
                    epoch : 0..MaxAuths, stable : BOOLEAN, answer : MediaAnswers],
           worker' = [worker EXCEPT ![i] = row],
           UNCHANGED <<db, visibility, checker>>
    PROVE  /\ worker'[i] = row
           /\ \A j \in Items : j # i => worker'[j] = worker[j]
           /\ received' \in [Items -> Nat] /\ sends' \in [Items -> Nat] => RemoteOk'
<1>1. RemoteOk
  BY InvParts
<1>2. QED
  BY <1>1 DEF RemoteOk

LEMMA NoWorkerIsTyped ==
    /\ NoWorker.step = "none"
    /\ NoWorker \in [step : {"none", "decide", "send", "record"},
                     epoch : 0..MaxAuths, stable : BOOLEAN, answer : MediaAnswers]
BY Assumed DEF NoWorker, MediaAnswers

LEMMA ObserveMediaKeepsInv ==
    ASSUME Inv, NEW i \in MediaItems, ObserveMedia(i)
    PROVE  Inv'
<1>1. JournalOk(db) /\ RemoteOk /\ UploadsOk
  BY InvParts
<1>2. i \in Items /\ TransferOfItem(i) \in Transfers
  BY MediaItem
<1>3. PICK e \in DOMAIN db.auth[TransferOfItem(i)] :
         worker' = [worker EXCEPT ![i] =
                [NoWorker EXCEPT !.step = "decide", !.epoch = e,
                                 !.stable = enabled /\ card[i] = "matching"]]
  BY DEF ObserveMedia
<1>4. e \in 0..MaxAuths
  <2>1. AuthsOk(db.auth[TransferOfItem(i)])
    BY <1>1, <1>2, JournalTypes
  <2>2. QED
    BY <1>3, <2>1, Assumed DEF AuthsOk
<1>5. PICK row : row = [NoWorker EXCEPT !.step = "decide", !.epoch = e,
                                         !.stable = enabled /\ card[i] = "matching"]
  OBVIOUS
<1>6. /\ row = [step |-> row.step, epoch |-> row.epoch, stable |-> row.stable, answer |-> row.answer]
      /\ row.step = "decide" /\ row.epoch = e /\ row.stable \in BOOLEAN /\ row.answer = "unsent"
  BY <1>5 DEF NoWorker
<1>7. worker' = [worker EXCEPT ![i] = row]
  BY Zenon, <1>3, <1>5
<1>8. row \in [step : {"none", "decide", "send", "record"},
               epoch : 0..MaxAuths, stable : BOOLEAN, answer : MediaAnswers]
  BY <1>4, <1>5, <1>6 DEF MediaAnswers
<1>9. UNCHANGED <<db, visibility, checker, received, sends>>
  BY DEF ObserveMedia, remote
<1>10. /\ worker'[i] = row /\ \A j \in Items : j # i => worker'[j] = worker[j]
       /\ RemoteOk'
  BY <1>1, <1>2, <1>7, <1>8, <1>9, OnlyWorker DEF RemoteOk
<1>11. ASSUME NEW j \in Items PROVE StageOk(j)' /\ SentOk(j)'
  <2>1. StageOk(j) /\ SentOk(j)
    BY <1>1 DEF UploadsOk
  <2>2. worker'[j] = worker[j] \/ worker'[j].step \in {"none", "decide"}
    BY <1>6, <1>10
  <2>3. QED
    BY <1>9, <2>1, <2>2, UploadKept
<1>12. QED
  BY <1>9, <1>10, <1>11, SameDb DEF UploadsOk

LEMMA WorkerFailsKeepsInv ==
    ASSUME Inv, NEW i \in MediaItems, WorkerFails(i)
    PROVE  Inv'
<1>1. RemoteOk /\ UploadsOk
  BY InvParts
<1>2. i \in Items
  BY MediaItem
<1>3. worker' = [worker EXCEPT ![i] = NoWorker] /\ UNCHANGED <<db, visibility, checker, received, sends>>
  BY DEF WorkerFails, EndWorker, remote
<1>4. /\ worker'[i] = NoWorker /\ \A j \in Items : j # i => worker'[j] = worker[j]
      /\ RemoteOk'
  BY <1>1, <1>2, <1>3, OnlyWorker, NoWorkerIsTyped DEF RemoteOk
<1>5. ASSUME NEW j \in Items PROVE StageOk(j)' /\ SentOk(j)'
  <2>1. StageOk(j) /\ SentOk(j)
    BY <1>1 DEF UploadsOk
  <2>2. worker'[j] = worker[j] \/ worker'[j].step \in {"none", "decide"}
    BY <1>4, NoWorkerIsTyped
  <2>3. QED
    BY <1>3, <2>1, <2>2, UploadKept
<1>6. QED
  BY <1>3, <1>4, <1>5, SameDb DEF UploadsOk

LEMMA UploadKeepsInv ==
    ASSUME Inv, NEW i \in MediaItems, NEW taken \in 0..Files,
           NEW failure \in MediaAnswers \ {"accepted"}, Upload(i, taken, failure)
    PROVE  Inv'
<1>1. RemoteOk /\ UploadsOk
  BY InvParts
<1>2. i \in Items
  BY MediaItem
<1>3. PICK answer : answer = UploadAnswer(taken, failure)
  OBVIOUS
<1>4. /\ answer \in MediaAnswers
      /\ answer \in {"rejected", "unsent"} => taken = 0 /\ failure # "uncertain"
  BY <1>3, Assumed DEF UploadAnswer, MediaAnswers
<1>5. PICK row : row = [worker[i] EXCEPT !.step = "record", !.answer = answer]
  OBVIOUS
<1>6. /\ row \in [step : {"none", "decide", "send", "record"},
                  epoch : 0..MaxAuths, stable : BOOLEAN, answer : MediaAnswers]
      /\ row.step = "record" /\ row.answer = answer
  BY <1>1, <1>2, <1>4, <1>5 DEF RemoteOk
<1>7. worker' = [worker EXCEPT ![i] = row] /\ UNCHANGED <<db, visibility, checker>>
  BY <1>1, <1>2, <1>3, <1>5 DEF Upload, RemoteOk
<1>8. PICK more \in {0, 1} :
         /\ received' = [received EXCEPT ![i] = taken + more]
         /\ failure # "uncertain" => more = 0
  BY DEF Upload
<1>9. sends' = [sends EXCEPT ![i] = IF taken = 0 /\ failure = "unsent" THEN @ ELSE @ + 1]
  BY DEF Upload
<1>10. StageOk(i) /\ SentOk(i) /\ worker[i].step = "send"
  BY <1>1, <1>2 DEF UploadsOk, Upload
<1>11. sends[i] = 0 /\ received[i] = 0 /\ db.media[i] = "dispatching"
  BY <1>10 DEF SentOk
<1>12. sends \in [Items -> Nat] /\ received \in [Items -> Nat] /\ taken \in Nat /\ taken + more \in Nat
  BY <1>1, <1>8, Assumed DEF RemoteOk
<1>13. sends' \in [Items -> Nat] /\ received' \in [Items -> Nat] /\ sends'[i] <= 1
  BY <1>2, <1>8, <1>9, <1>11, <1>12
<1>14. /\ worker'[i] = row /\ \A j \in Items : j # i => worker'[j] = worker[j]
       /\ RemoteOk'
  BY <1>2, <1>6, <1>7, <1>13, OnlyWorker
<1>15. received'[i] = taken + more
  BY <1>2, <1>8, <1>12
<1>16. StageOk(i)' /\ SentOk(i)'
  <2>1. StageOk(i)'
    BY <1>7, <1>10 DEF StageOk
  <2>2. db.upload[i].attempt # "none"
    BY <1>10, <1>11 DEF StageOk, TriedStates, UnderWay
  <2>3. answer \in {"rejected", "unsent"} => received'[i] = 0
    BY <1>4, <1>8, <1>15
  <2>4. SentOk(i)'
    BY <1>6, <1>7, <1>11, <1>13, <1>14, <2>2, <2>3 DEF SentOk
  <2>5. QED
    BY <2>1, <2>4
<1>17. ASSUME NEW j \in Items, j # i PROVE StageOk(j)' /\ SentOk(j)'
  <2>1. StageOk(j) /\ SentOk(j)
    BY <1>1 DEF UploadsOk
  <2>2. sends'[j] = sends[j] /\ received'[j] = received[j] /\ worker'[j] = worker[j]
    BY <1>8, <1>9, <1>12, <1>14, <1>17
  <2>3. QED
    BY <1>7, <2>1, <2>2, UploadKept
<1>18. QED
  BY <1>7, <1>14, <1>16, <1>17, SameDb DEF UploadsOk

-----------------------------------------------------------------------------
(* The visibility loop, as far as it leaves the journal alone. *)

\* The jobs change, but none is opened or closed.
LEMMA OnlyVisibility ==
    ASSUME Inv, UNCHANGED <<db, worker, received, sends>>,
           checker' \in [Items -> [step : {"none", "check", "record"}, visible : BOOLEAN]],
           visibility' \in [Items -> [open : BOOLEAN, leased : BOOLEAN, late : BOOLEAN]],
           \A i \in Items : /\ visibility'[i].open <=> visibility[i].open
                            /\ visibility'[i].leased => visibility'[i].open
    PROVE  Inv'
<1>1. RemoteOk /\ UploadsOk
  BY InvParts
<1>2. RemoteOk'
  BY <1>1 DEF RemoteOk
<1>3. ASSUME NEW i \in Items PROVE StageOk(i)' /\ SentOk(i)'
  BY <1>1 DEF UploadsOk, StageOk, SentOk
<1>4. QED
  BY <1>2, <1>3, SameDb DEF UploadsOk

LEMMA ClaimKeepsInv ==
    ASSUME Inv, NEW jobs \in SUBSET MediaItems, ClaimVisibility(jobs)
    PROVE  Inv'
<1>1. RemoteOk /\ UploadsOk
  BY InvParts
<1>2. /\ visibility' = [i \in Items |->
          IF i \in jobs THEN [visibility[i] EXCEPT !.leased = TRUE] ELSE visibility[i]]
      /\ checker' = [i \in Items |->
          IF i \in jobs THEN [NoChecker EXCEPT !.step = "check"] ELSE NoChecker]
      /\ UNCHANGED <<db, worker, received, sends>>
      /\ \A i \in jobs : visibility[i].open
  BY DEF ClaimVisibility, Claimable, remote
<1>3. checker' \in [Items -> [step : {"none", "check", "record"}, visible : BOOLEAN]]
  BY <1>2 DEF NoChecker
<1>4. ASSUME NEW i \in Items
      PROVE  /\ visibility'[i] \in [open : BOOLEAN, leased : BOOLEAN, late : BOOLEAN]
             /\ visibility'[i].open <=> visibility[i].open
             /\ visibility'[i].leased => visibility'[i].open
  <2>1. visibility[i] \in [open : BOOLEAN, leased : BOOLEAN, late : BOOLEAN] /\ StageOk(i)
    BY <1>1 DEF RemoteOk, UploadsOk
  <2>2. CASE i \in jobs
    <3>1. visibility'[i] = [visibility[i] EXCEPT !.leased = TRUE]
      BY <1>2, <2>2
    <3>2. QED
      BY <1>2, <2>1, <2>2, <3>1
  <2>3. CASE i \notin jobs
    BY <1>2, <2>1, <2>3 DEF StageOk
  <2>4. QED
    BY <2>2, <2>3
<1>5. visibility' \in [Items -> [open : BOOLEAN, leased : BOOLEAN, late : BOOLEAN]]
  BY <1>2, <1>4
<1>6. QED
  BY <1>2, <1>3, <1>4, <1>5, OnlyVisibility

\* Nothing but the goroutine of one check changes.
LEMMA OnlyChecker ==
    ASSUME Inv, UNCHANGED <<db, visibility, worker, received, sends>>, NEW i, NEW row,
           row \in [step : {"none", "check", "record"}, visible : BOOLEAN],
           checker' = [checker EXCEPT ![i] = row]
    PROVE  Inv'
<1>1. RemoteOk /\ UploadsOk
  BY InvParts
<1>2. checker' \in [Items -> [step : {"none", "check", "record"}, visible : BOOLEAN]]
  BY <1>1 DEF RemoteOk
<1>3. visibility' \in [Items -> [open : BOOLEAN, leased : BOOLEAN, late : BOOLEAN]]
  BY <1>1 DEF RemoteOk
<1>4. \A j \in Items : visibility[j].leased => visibility[j].open
  BY <1>1 DEF UploadsOk, StageOk
<1>5. QED
  BY <1>2, <1>3, <1>4, OnlyVisibility

LEMMA CheckKeepsInv ==
    ASSUME Inv, NEW i \in MediaItems, CheckVisibility(i)
    PROVE  Inv'
<1>1. PICK visible \in BOOLEAN :
         checker' = [checker EXCEPT ![i] = [step |-> "record", visible |-> visible]]
  BY DEF CheckVisibility
<1>2. UNCHANGED <<db, visibility, worker, received, sends>>
  BY DEF CheckVisibility, remote
<1>3. [step |-> "record", visible |-> visible] \in
         [step : {"none", "check", "record"}, visible : BOOLEAN]
  OBVIOUS
<1>4. QED
  BY <1>1, <1>2, <1>3, OnlyChecker

LEMMA CheckFailsKeepsInv ==
    ASSUME Inv, NEW i \in MediaItems, CheckFails(i)
    PROVE  Inv'
<1>1. checker' = [checker EXCEPT ![i] = NoChecker] /\ UNCHANGED <<db, visibility, worker, received, sends>>
  BY DEF CheckFails, EndChecker, remote
<1>2. NoChecker \in [step : {"none", "check", "record"}, visible : BOOLEAN]
  BY DEF NoChecker
<1>3. QED
  BY <1>1, <1>2, OnlyChecker

LEMMA LeaseEndsKeepsInv ==
    ASSUME Inv, NEW i \in MediaItems, LeaseEnds(i) \/ DeadlinePasses(i)
    PROVE  Inv'
<1>1. RemoteOk /\ UploadsOk
  BY InvParts
<1>2. UNCHANGED <<db, worker, received, sends, checker>>
  BY DEF LeaseEnds, DeadlinePasses, remote
<1>3. \/ visibility' = [visibility EXCEPT ![i].leased = FALSE]
      \/ visibility' = [visibility EXCEPT ![i].late = TRUE]
  BY DEF LeaseEnds, DeadlinePasses
<1>4. \A j \in Items : visibility[j].leased => visibility[j].open
  BY <1>1 DEF UploadsOk, StageOk
<1>5. /\ visibility' \in [Items -> [open : BOOLEAN, leased : BOOLEAN, late : BOOLEAN]]
      /\ \A j \in Items : /\ visibility'[j].open <=> visibility[j].open
                          /\ visibility'[j].leased => visibility[j].leased
  <2>1. ASSUME NEW j \in Items
        PROVE  /\ visibility'[j] \in [open : BOOLEAN, leased : BOOLEAN, late : BOOLEAN]
               /\ visibility'[j].open <=> visibility[j].open
               /\ visibility'[j].leased => visibility[j].leased
    <3>1. /\ visibility \in [Items -> [open : BOOLEAN, leased : BOOLEAN, late : BOOLEAN]]
          /\ visibility[j] \in [open : BOOLEAN, leased : BOOLEAN, late : BOOLEAN]
      BY <1>1 DEF RemoteOk
    <3>2. \/ visibility'[j] = visibility[j]
          \/ visibility'[j] = [visibility[j] EXCEPT !.leased = FALSE]
          \/ visibility'[j] = [visibility[j] EXCEPT !.late = TRUE]
      BY <1>3, <3>1
    <3>3. QED
      BY <3>1, <3>2
  <2>2. DOMAIN visibility' = Items /\ visibility' = [j \in DOMAIN visibility' |-> visibility'[j]]
    BY <1>1, <1>3 DEF RemoteOk
  <2>3. QED
    BY <2>1, <2>2
<1>6. checker' \in [Items -> [step : {"none", "check", "record"}, visible : BOOLEAN]]
  BY <1>1, <1>2 DEF RemoteOk
<1>7. QED
  BY <1>2, <1>4, <1>5, <1>6, OnlyVisibility

\* The seller's changes are seen by the next read of the catalogue only.
LEMMA QuietStep ==
    ASSUME Inv, UNCHANGED <<db, visibility, worker, checker, received, sends>>
    PROVE  Inv'
<1>1. RemoteOk /\ UploadsOk
  BY InvParts
<1>2. RemoteOk'
  BY <1>1 DEF RemoteOk
<1>3. UploadsOk'
  BY <1>1 DEF UploadsOk, StageOk, SentOk
<1>4. QED
  BY <1>2, <1>3, SameDb

LEMMA CrashKeepsInv ==
    ASSUME Inv, Crash
    PROVE  Inv'
<1>1. RemoteOk /\ UploadsOk
  BY InvParts
<1>2. /\ worker' = [i \in Items |-> NoWorker] /\ checker' = [i \in Items |-> NoChecker]
      /\ UNCHANGED <<db, visibility, received, sends>>
  BY DEF Crash, remote
<1>3. RemoteOk'
  BY <1>1, <1>2, NoWorkerIsTyped DEF RemoteOk, NoChecker
<1>4. ASSUME NEW i \in Items PROVE StageOk(i)' /\ SentOk(i)'
  <2>1. StageOk(i) /\ SentOk(i)
    BY <1>1 DEF UploadsOk
  <2>2. worker'[i].step = "none"
    BY <1>2, NoWorkerIsTyped
  <2>3. QED
    BY <1>2, <2>1, <2>2, UploadKept
<1>5. QED
  BY <1>2, <1>3, <1>4, SameDb DEF UploadsOk

-----------------------------------------------------------------------------
(* Steps on authorizations and identities. *)

\* The parts that only read plan, actions, uploads, members and rows.
LEMMA SamePlan ==
    ASSUME ActionsOk, PlanOk, ProjectionOk,
           db'.rows = db.rows, db'.plan = db.plan, db'.action = db.action,
           db'.media = db.media, db'.upload = db.upload
    PROVE  ActionsOk' /\ PlanOk' /\ ProjectionOk'
<1>4. ActionsOk'
  BY DEF ActionsOk, ActionOk, InTurn, Carried
<1>5. PlanOk'
  BY DEF PlanOk, PlanOf, PlanActionsEnded
<1>6. ProjectionOk'
  <2>1. \A t \in Transfers : PublishedOk(t)'
    BY DEF ProjectionOk, PublishedOk
  <2>2. ASSUME NEW i \in MediaItems PROVE Awaited(i)'
    <3>1. Awaited(i)
      BY DEF ProjectionOk
    <3>2. QED
      BY <3>1 DEF Awaited, GroupRowOf, MediaInFlight, IsRunning
  <2>3. ASSUME NEW i \in MediaItems PROVE Settled(i)'
    <3>1. Settled(i)
      BY DEF ProjectionOk
    <3>2. /\ AttemptedMedia(i)' = AttemptedMedia(i) /\ GroupRowOf(i)' = GroupRowOf(i)
          /\ GroupMediaEnded(db, i)' = GroupMediaEnded(db, i)
          /\ MediaOfGroup(db, i)' = MediaOfGroup(db, i)
          /\ GroupMediaClass(db, i)' = GroupMediaClass(db, i)
          /\ Aborted(TransferOfItem(i))' = Aborted(TransferOfItem(i))
      BY DEF AttemptedMedia, GroupRowOf, GroupMediaEnded, MediaOfGroup, GroupMediaClass, Aborted
    <3>3. QED
      BY <3>1, <3>2 DEF Settled
  <2>4. QED
    BY <2>1, <2>2, <2>3 DEF ProjectionOk
<1>7. QED
  BY <1>4, <1>5, <1>6

\* Nothing in memory changes.
LEMMA SameMemory ==
    ASSUME Inv, UNCHANGED <<visibility, worker, checker, received, sends>>,
           db'.upload = db.upload,
           \A i \in Items :
              \/ db'.media[i] = db.media[i]
              \/ db.media[i] = "planned" /\ db'.media[i] \in {"skipped", "superseded"}
    PROVE  RemoteOk' /\ UploadsOk'
<1>1. RemoteOk /\ UploadsOk
  BY InvParts
<1>2. RemoteOk'
  BY <1>1 DEF RemoteOk
<1>3. ASSUME NEW i \in Items PROVE StageOk(i)' /\ SentOk(i)'
  <2>1. StageOk(i) /\ SentOk(i)
    BY <1>1 DEF UploadsOk
  <2>2. QED
    BY <2>1, UploadKept
<1>4. QED
  BY <1>2, <1>3 DEF UploadsOk

LEMMA ExpiredIsTyped ==
    ASSUME NEW s \in Seq(AuthStates)
    PROVE  Expired(s) \in Seq(AuthStates) /\ Len(Expired(s)) = Len(s)
<1>1. Len(s) \in Nat /\ DOMAIN s = 1..Len(s) /\ \A e \in 1..Len(s) : s[e] \in AuthStates
  OBVIOUS
<1>2. Expired(s) = [e \in 1..Len(s) |-> IF s[e] = "overdue" THEN "expired" ELSE s[e]]
  BY <1>1 DEF Expired
<1>3. \A e \in 1..Len(s) : Expired(s)[e] \in AuthStates
  BY <1>1, <1>2 DEF AuthStates
<1>4. Expired(s) \in [1..Len(s) -> AuthStates]
  BY <1>2, <1>3
<1>5. QED
  BY <1>1, <1>4, SeqDef

\* One authorization of a plan changes its state.
LEMMA EpisodeWritten ==
    ASSUME NEW s, AuthsOk(s), NEW n, NEW state, n \in DOMAIN s => state \in AuthStates,
           NEW x, x = [s EXCEPT ![n] = state]
    PROVE  AuthsOk(x)
<1>1. /\ s \in Seq(AuthStates) /\ Len(s) \in Nat /\ DOMAIN s = 1..Len(s)
      /\ \A m \in 1..Len(s) : s[m] \in AuthStates
  BY DEF AuthsOk
<1>2. PICK k \in Nat : k = Len(s)
  BY <1>1
<1>3. x = [m \in 1..k |-> IF m = n THEN state ELSE s[m]]
  BY <1>1, <1>2
<1>4. \A m \in 1..k : x[m] \in AuthStates
  BY <1>1, <1>2, <1>3
<1>5. x \in [1..k -> AuthStates]
  BY <1>3, <1>4
<1>6. x \in Seq(AuthStates)
  <2>1. PICK F : F = {[1..n2 -> AuthStates] : n2 \in Nat}
    OBVIOUS
  <2>2. Seq(AuthStates) = UNION F
    BY <2>1, SeqDef
  <2>3. [1..k -> AuthStates] \in F
    BY <1>2, <2>1
  <2>4. QED
    BY <1>5, <2>2, <2>3
<1>7. Len(x) = k
  BY <1>5, <1>6, k \in Nat
<1>8. QED
  BY <1>2, <1>6, <1>7 DEF AuthsOk

\* The authorizations of one plan are written, nothing else.
LEMMA AuthWritten ==
    ASSUME NEW d, JournalOk(d), NEW t \in Transfers, NEW x, AuthsOk(x),
           NEW e, e = [d EXCEPT !.auth[t] = x]
    PROVE  /\ JournalOk(e)
           /\ e.rows = d.rows /\ e.plan = d.plan /\ e.action = d.action /\ e.member = d.member
           /\ e.media = d.media /\ e.identity = d.identity /\ e.attributed = d.attributed
           /\ e.upload = d.upload
<1>1. PICK y : y = [d.auth EXCEPT ![t] = x]
  OBVIOUS
<1>2. e = [d EXCEPT !.auth = y]
  BY <1>1
<1>3. IsJournal(d) /\ d.auth = [u \in Transfers |-> d.auth[u]] /\ \A u \in Transfers : AuthsOk(d.auth[u])
  BY JournalTypes DEF AuthColumn
<1>4. y = [u \in Transfers |-> IF u = t THEN x ELSE d.auth[u]]
  BY <1>1, <1>3
<1>5. AuthColumn(y)
  BY <1>3, <1>4 DEF AuthColumn
<1>6. /\ IsJournal(e) /\ e.rows = d.rows /\ e.plan = d.plan /\ e.auth = y
      /\ e.action = d.action /\ e.member = d.member /\ e.media = d.media
      /\ e.upload = d.upload /\ e.attributed = d.attributed /\ e.identity = d.identity
  BY <1>2, <1>3 DEF IsJournal
<1>7. ColumnsOk(e)
  <2>1. ColumnsOk(d)
    BY ColumnsOfJournal
  <2>2. QED
    BY <1>5, <1>6, <2>1 DEF ColumnsOk
<1>8. QED
  BY <1>6, <1>7, SameRows

LEMMA AuthStep ==
    ASSUME Inv, NEW t \in Transfers, NEW x, AuthsOk(x), db' = [db EXCEPT !.auth[t] = x],
           UNCHANGED <<visibility, worker, checker, received, sends>>
    PROVE  Inv'
<1>1. JournalOk(db) /\ OwnersOk /\ ActionsOk /\ PlanOk /\ ProjectionOk
  BY InvParts
<1>2. /\ JournalOk(db')
      /\ db'.rows = db.rows /\ db'.plan = db.plan /\ db'.action = db.action /\ db'.member = db.member
      /\ db'.media = db.media /\ db'.identity = db.identity /\ db'.attributed = db.attributed
      /\ db'.upload = db.upload
  BY <1>1, AuthWritten
<1>3. JournalOk(db)'
  BY <1>2 DEF JournalOk, IsJournal, RowsOk
<1>4. RemoteOk' /\ UploadsOk'
  BY <1>2, SameMemory
<1>5. OwnersOk'
  BY <1>1, <1>2 DEF OwnersOk, OwnerOk, MadeBy, AttributedOk, MediaInFlight, IdentityOf, IsPresent
<1>6. QED
  BY <1>1, <1>2, <1>3, <1>4, <1>5, SamePlan, InvPartsNext

LEMMA AuthorizePlanKeepsInv ==
    ASSUME Inv, NEW t \in Transfers, AuthorizePlan(t)
    PROVE  Inv'
<1>1. AuthsOk(db.auth[t])
  BY InvParts, JournalTypes
<1>2. PICK x : x = Append(Expired(db.auth[t]), "authorized")
  OBVIOUS
<1>3. AuthsOk(x)
  <2>1. "authorized" \in AuthStates
    BY DEF AuthStates, OpenAuthorization
  <2>2. Expired(db.auth[t]) \in Seq(AuthStates) /\ Len(Expired(db.auth[t])) = Len(db.auth[t])
    BY <1>1, ExpiredIsTyped DEF AuthsOk
  <2>3. Len(db.auth[t]) < MaxAuths /\ MaxAuths \in Nat /\ Len(db.auth[t]) \in Nat
    BY <1>1, Assumed DEF AuthorizePlan, AuthsOk
  <2>4. x \in Seq(AuthStates) /\ Len(x) = Len(db.auth[t]) + 1
    BY <1>2, <2>1, <2>2, AppendProperties
  <2>5. QED
    BY <2>3, <2>4 DEF AuthsOk
<1>4. db' = [db EXCEPT !.auth[t] = x]
  BY <1>2 DEF AuthorizePlan, Authorize
<1>5. UNCHANGED <<visibility, worker, checker, received, sends>>
  BY DEF AuthorizePlan, others, remote
<1>6. QED
  BY <1>3, <1>4, <1>5, AuthStep

LEMMA RunsOutKeepsInv ==
    ASSUME Inv, NEW t \in Transfers, AuthorizationRunsOut(t)
    PROVE  Inv'
<1>1. AuthsOk(db.auth[t])
  BY InvParts, JournalTypes
<1>2. PICK e \in DOMAIN db.auth[t] : db' = [db EXCEPT !.auth[t][e] = "overdue"]
  BY DEF AuthorizationRunsOut
<1>3. PICK x : x = [db.auth[t] EXCEPT ![e] = "overdue"]
  OBVIOUS
<1>4. AuthsOk(x)
  BY <1>1, <1>3, EpisodeWritten DEF AuthStates, OpenAuthorization
<1>5. db' = [db EXCEPT !.auth[t] = x]
  BY <1>2, <1>3
<1>6. UNCHANGED <<visibility, worker, checker, received, sends>>
  BY DEF AuthorizationRunsOut, others, remote
<1>7. QED
  BY <1>4, <1>5, <1>6, AuthStep

LEMMA PlanElsewhereKeepsInv ==
    ASSUME Inv, NEW i \in SharedItems, NEW state \in {"remote_missing", "remote_present"},
           PlanElsewhere(i, state)
    PROVE  Inv'
<1>1. JournalOk(db) /\ OwnersOk /\ ActionsOk /\ PlanOk /\ ProjectionOk
  BY InvParts
<1>2. IsJournal(db) /\ db.identity \in [Vendors -> IdentityRows] /\ i \in Items /\ VendorOf[i] \in Vendors
  BY <1>1, JournalTypes, Assumed
<1>3. PICK row : row = UpsertedIdentity(db.identity[VendorOf[i]], state)
  OBVIOUS
<1>4. row \in IdentityRows /\ row.active = db.identity[VendorOf[i]].active
  <2>1. PICK old \in IdentityRows : old = db.identity[VendorOf[i]]
    BY <1>2
  <2>2. QED
    BY <1>3, <2>1 DEF UpsertedIdentity, IdentityRows, IdentityStates
<1>5. PICK identity : identity = [db.identity EXCEPT ![VendorOf[i]] = row]
  OBVIOUS
<1>6. /\ identity \in [Vendors -> IdentityRows]
      /\ \A v \in Vendors : identity[v].active = db.identity[v].active
      /\ \A v \in Vendors : v # VendorOf[i] => identity[v] = db.identity[v]
  BY <1>2, <1>4, <1>5
<1>7. db' = [db EXCEPT !.identity = identity]
  BY <1>3, <1>5 DEF PlanElsewhere
<1>8. /\ IsJournal(db') /\ db'.rows = db.rows /\ db'.plan = db.plan /\ db'.auth = db.auth
      /\ db'.action = db.action /\ db'.member = db.member /\ db'.media = db.media
      /\ db'.upload = db.upload /\ db'.attributed = db.attributed /\ db'.identity = identity
  BY <1>2, <1>7 DEF IsJournal
<1>9. JournalOk(db')
  <2>1. ColumnsOk(db)
    BY <1>1, ColumnsOfJournal
  <2>2. ColumnsOk(db')
    BY <1>6, <1>8, <2>1 DEF ColumnsOk
  <2>3. QED
    BY <1>1, <1>8, <2>2, SameRows
<1>10. JournalOk(db)'
  BY <1>9 DEF JournalOk, IsJournal, RowsOk
<1>11. RemoteOk' /\ UploadsOk'
  <2>1. UNCHANGED <<visibility, worker, checker, received, sends>>
    BY DEF PlanElsewhere, others, remote
  <2>2. QED
    BY <1>8, <2>1, SameMemory
<1>12. ASSUME NEW j \in MediaItems PROVE OwnerOk(j)'
  <2>1. OwnerOk(j) /\ VendorOf[j] \in Vendors
    BY <1>1, MediaItem DEF OwnersOk
  <2>2. QED
    BY <1>6, <1>8, <2>1 DEF OwnerOk, MediaInFlight, IdentityOf
<1>13. ASSUME NEW a \in Actions PROVE MadeBy(a)'
  <2>1. MadeBy(a)
    BY <1>1 DEF OwnersOk
  <2>2. ASSUME NEW j \in MembersOf[a], OwnCode(j) PROVE IsPresent(j)' => IsPresent(j)
    <3>1. VendorOf[j] \in Vendors /\ VendorOf[j] # VendorOf[i]
      BY <1>2, <2>2, MembersOfTransfer DEF OwnCode
    <3>2. QED
      BY <1>6, <1>8, <3>1 DEF IsPresent, IdentityOf
  <2>3. QED
    BY <1>8, <2>1, <2>2 DEF MadeBy
<1>14. AttributedOk'
  BY <1>1, <1>8 DEF OwnersOk, AttributedOk
<1>15. OwnersOk'
  BY <1>12, <1>13, <1>14 DEF OwnersOk
<1>16. QED
  BY <1>1, <1>8, <1>10, <1>11, <1>15, SamePlan, InvPartsNext

-----------------------------------------------------------------------------
(* Steps on one transfer. *)

\* What the invariant says of actions, plan and projection of one transfer.
TransferOk(t) ==
    /\ \A a \in ActionsOf(t) : ActionOk(a)
    /\ PlanOf(t)
    /\ PublishedOk(t)
    /\ \A i \in MediaItems : i \in TransferItems(t) => InTurn(i) /\ Awaited(i) /\ Settled(i)

LEMMA TransferParts ==
    ASSUME Inv, NEW t \in Transfers
    PROVE  TransferOk(t)
<1>1. ActionsOk /\ PlanOk /\ ProjectionOk
  BY InvParts
<1>2. QED
  BY <1>1 DEF TransferOk, ActionsOk, PlanOk, ProjectionOk, ActionsOf

LEMMA TransferPartsNext ==
    ASSUME \A t \in Transfers : TransferOk(t)'
    PROVE  ActionsOk' /\ PlanOk' /\ ProjectionOk'
<1>1. ASSUME NEW a \in Actions PROVE ActionOk(a)'
  BY MembersOfTransfer DEF TransferOk
<1>2. ASSUME NEW i \in MediaItems PROVE InTurn(i)' /\ Awaited(i)' /\ Settled(i)'
  BY MediaItem DEF TransferOk
<1>3. \A t \in Transfers : PlanOf(t)' /\ PublishedOk(t)'
  BY DEF TransferOk
<1>4. QED
  BY <1>1, <1>2, <1>3 DEF ActionsOk, PlanOk, ProjectionOk

\* Uploads, attempts and row of the group of i are as they were.
GroupKept(t, i) ==
    /\ \A j \in TransferItems(t) : GroupOf[j] = GroupOf[i] =>
          db'.media[j] = db.media[j] /\ db'.upload[j].attempt = db.upload[j].attempt
    /\ db'.rows[t].group[GroupOf[i]] = db.rows[t].group[GroupOf[i]]

LEMMA GroupReadings ==
    ASSUME NEW t \in Transfers, NEW i \in TransferItems(t), GroupKept(t, i)
    PROVE  /\ AttemptedMedia(i)' = AttemptedMedia(i) /\ MediaOfGroup(db, i)' = MediaOfGroup(db, i)
           /\ GroupMediaEnded(db, i)' = GroupMediaEnded(db, i)
           /\ GroupMediaClass(db, i)' = GroupMediaClass(db, i)
           /\ GroupRowOf(i)' = GroupRowOf(i)
<1>1. TransferOfItem(i) = t
  BY TransferOfThe
<1>2. /\ MediaOfGroup(db, i) = {j \in TransferItems(t) : GroupOf[j] = GroupOf[i] /\ db.media[j] # "none"}
      /\ MediaOfGroup(db, i)' = {j \in TransferItems(t) : GroupOf[j] = GroupOf[i] /\ db'.media[j] # "none"}
  BY <1>1 DEF MediaOfGroup
<1>3. MediaOfGroup(db, i)' = MediaOfGroup(db, i)
  BY <1>2 DEF GroupKept
<1>4. \A j \in MediaOfGroup(db, i) :
         db'.media[j] = db.media[j] /\ db'.upload[j].attempt = db.upload[j].attempt
  BY <1>2 DEF GroupKept
<1>5. AttemptedMedia(i)' = AttemptedMedia(i)
  BY <1>3, <1>4 DEF AttemptedMedia
<1>6. GroupMediaEnded(db, i)' = GroupMediaEnded(db, i)
  BY <1>3, <1>4 DEF GroupMediaEnded
<1>7. {db'.media[j] : j \in MediaOfGroup(db, i)'} = {db.media[j] : j \in MediaOfGroup(db, i)}
  BY <1>3, <1>4
<1>8. GroupMediaClass(db, i)' = GroupMediaClass(db, i)
  BY <1>7 DEF GroupMediaClass
<1>9. GroupRowOf(i)' = GroupRowOf(i)
  BY <1>1 DEF GroupRowOf, GroupKept
<1>10. QED
  BY <1>3, <1>5, <1>6, <1>8, <1>9

LEMMA SettledKept ==
    ASSUME NEW t \in Transfers, NEW i \in TransferItems(t), GroupKept(t, i), Settled(i),
           Aborted(t) => Aborted(t)'
    PROVE  Settled(i)'
<1>1. TransferOfItem(i) = t
  BY TransferOfThe
<1>2. Aborted(TransferOfItem(i)) => Aborted(TransferOfItem(i))'
  BY <1>1 DEF Aborted
<1>3. /\ AttemptedMedia(i)' = AttemptedMedia(i) /\ MediaOfGroup(db, i)' = MediaOfGroup(db, i)
      /\ GroupMediaEnded(db, i)' = GroupMediaEnded(db, i)
      /\ GroupMediaClass(db, i)' = GroupMediaClass(db, i)
      /\ GroupRowOf(i)' = GroupRowOf(i)
  BY GroupReadings
<1>4. QED
  BY <1>2, <1>3 DEF Settled

\* Nothing of the transfers other than t changes.
OnlyTransfer(t) ==
    /\ \A u \in Transfers : u # t => db'.rows[u] = db.rows[u] /\ db'.plan[u] = db.plan[u]
    /\ \A a \in Actions : TransferOf[a] # t => db'.action[a] = db.action[a]
    /\ \A i \in Items : i \notin TransferItems(t) =>
          db'.media[i] = db.media[i] /\ db'.upload[i] = db.upload[i]

LEMMA Elsewhere ==
    ASSUME Inv, NEW t \in Transfers, OnlyTransfer(t), NEW u \in Transfers, u # t
    PROVE  TransferOk(u)'
<1>1. TransferOk(u)
  BY TransferParts
<1>2. /\ db'.rows[u] = db.rows[u] /\ db'.plan[u] = db.plan[u]
      /\ \A a \in ActionsOf(u) : db'.action[a] = db.action[a]
      /\ \A i \in TransferItems(u) : db'.media[i] = db.media[i] /\ db'.upload[i] = db.upload[i]
  <2>1. TransferItems(u) \cap TransferItems(t) = {} /\ TransferItems(u) \subseteq Items
    BY ItemsOfTransfer, JournalAssumption
  <2>2. QED
    BY <2>1 DEF OnlyTransfer, ActionsOf
<1>3. \A a \in ActionsOf(u) : ActionOk(a)'
  BY <1>1, <1>2 DEF TransferOk, ActionOk
<1>4. PlanOf(u)'
  <2>1. PlanActionsEnded(db, u)' <=> PlanActionsEnded(db, u)
    BY <1>2 DEF PlanActionsEnded
  <2>2. PlanOf(u)
    BY <1>1 DEF TransferOk
  <2>3. QED
    BY <1>2, <2>1, <2>2 DEF PlanOf
<1>5. PublishedOk(u)'
  BY <1>1, <1>2 DEF TransferOk, PublishedOk
<1>6. ASSUME NEW i \in MediaItems, i \in TransferItems(u)
      PROVE  InTurn(i)' /\ Awaited(i)' /\ Settled(i)'
  <2>1. TransferOfItem(i) = u /\ InTurn(i) /\ Awaited(i) /\ Settled(i)
    BY <1>1, <1>6, TransferOfThe DEF TransferOk
  <2>2. InTurn(i)'
    BY <1>2, <1>6, <2>1 DEF InTurn, Carried
  <2>3. Awaited(i)'
    BY <1>2, <1>6, <2>1 DEF Awaited, GroupRowOf, MediaInFlight, IsRunning
  <2>4. GroupKept(u, i)
    BY <1>2 DEF GroupKept
  <2>5. Aborted(u) => Aborted(u)'
    BY <1>2 DEF Aborted
  <2>6. Settled(i)'
    BY <1>6, <2>1, <2>4, <2>5, SettledKept
  <2>7. QED
    BY <2>2, <2>3, <2>6
<1>7. QED
  BY <1>3, <1>4, <1>5, <1>6 DEF TransferOk

LEMMA OneTransfer ==
    ASSUME Inv, NEW t \in Transfers, OnlyTransfer(t), TransferOk(t)'
    PROVE  ActionsOk' /\ PlanOk' /\ ProjectionOk'
<1>1. \A u \in Transfers : TransferOk(u)'
  BY Elsewhere
<1>2. QED
  BY <1>1, TransferPartsNext

\* Identities of items whose upload is neither begun nor ended.
LEMMA OwnersKept ==
    ASSUME Inv,
           \A i \in Items : MediaInFlight(i)' <=> MediaInFlight(i),
           \A i \in MediaItems : \/ db'.identity[VendorOf[i]].active = db.identity[VendorOf[i]].active
                                 \/ /\ db'.identity[VendorOf[i]].active \in Actions \cup {Free}
                                    /\ db.identity[VendorOf[i]].active \in Actions \cup {Free},
           db.attributed \subseteq db'.attributed,
           \A i \in db'.attributed \ db.attributed :
              \E a \in Actions : i \in MembersOf[a] /\ db'.action[a].state = "terminal",
           \A a \in Actions : db.action[a].state = "terminal" => db'.action[a].state = "terminal",
           \A a \in Actions : \A i \in MembersOf[a] :
              OwnCode(i) /\ IsPresent(i)' => IsPresent(i) \/ db'.action[a].state = "terminal"
    PROVE  OwnersOk'
<1>1. OwnersOk
  BY InvParts
<1>2. ASSUME NEW i \in MediaItems PROVE OwnerOk(i)'
  <2>1. OwnerOk(i) /\ i \in Items
    BY <1>1, MediaItem DEF OwnersOk
  <2>2. i \notin Actions /\ i # Free
    BY <2>1, Assumed
  <2>3. IdentityOf(db, i)'.active = i <=> IdentityOf(db, i).active = i
    BY <2>2 DEF IdentityOf
  <2>4. QED
    BY <2>1, <2>3 DEF OwnerOk
<1>3. ASSUME NEW a \in Actions PROVE MadeBy(a)'
  <2>1. MadeBy(a)
    BY <1>1 DEF OwnersOk
  <2>2. QED
    BY <2>1 DEF MadeBy
<1>4. AttributedOk'
  BY <1>1 DEF OwnersOk, AttributedOk
<1>5. QED
  BY <1>2, <1>3, <1>4 DEF OwnersOk

-----------------------------------------------------------------------------
(* A product action gets under way. *)

AtPhase(r, s, p) == r = [s EXCEPT !.transfer.phase = p]

LEMMA PhaseWritten ==
    ASSUME NEW t \in Transfers, NEW s, RowsOk(s, t), NEW p \in ExecutingPhases,
           NEW r, AtPhase(r, s, p)
    PROVE  /\ RowsOk(r, t)
           /\ r.group = s.group /\ r.item = s.item
           /\ r.transfer.phase = p /\ r.transfer.outcome = s.transfer.outcome
<1>1. /\ s = [transfer |-> s.transfer, group |-> s.group, item |-> s.item]
      /\ s.transfer \in TransferRows
  BY DEF RowsOk
<1>2. PICK head : head = [s.transfer EXCEPT !.phase = p]
  OBVIOUS
<1>3. head \in TransferRows /\ head.phase = p /\ head.outcome = s.transfer.outcome
  BY <1>1, <1>2 DEF TransferRows
<1>4. r = [transfer |-> head, group |-> s.group, item |-> s.item]
  BY <1>1, <1>2 DEF AtPhase
<1>5. QED
  BY <1>3, <1>4 DEF RowsOk

\* Groups and items are as they were, and the phase "media" stays.
PhaseMoved(r, s) ==
    /\ r.group = s.group /\ r.item = s.item
    /\ r.transfer.outcome = s.transfer.outcome
    /\ s.transfer.phase = "media" => r.transfer.phase = "media"

\* The action gets, or keeps, an attempt; its groups and items wait.
LEMMA ActionUnderWay ==
    ASSUME Inv, NEW a \in Actions, NEW t \in Transfers, t = TransferOf[a],
           db.action[a].state \notin EndedStates,
           db'.media = db.media, db'.upload = db.upload,
           \A b \in Actions : b # a => db'.action[b] = db.action[b],
           db'.action[a].state \in UnderWay, db'.action[a].attempt # "none",
           db'.plan[t] \in {"awaiting_authorization", "executing"}, db.plan[t] # "superseded",
           PhaseMoved(db'.rows[t], db.rows[t])
    PROVE  TransferOk(t)'
<1>1. TransferOk(t) /\ a \in ActionsOf(t)
  BY TransferParts, MembersOfTransfer
<1>2. db.action[a].state # "terminal" /\ db'.action[a].state \notin EndedStates
  BY DEF EndedStates, UnderWay
<1>3. \A b \in ActionsOf(t) : ActionOk(b)'
  <2>1. \A b \in ActionsOf(t) : b \in Actions /\ ActionOk(b)
    BY <1>1 DEF TransferOk, ActionsOf
  <2>2. QED
    BY <2>1 DEF ActionOk, UnderWay
<1>4. PlanOf(t)'
  <2>1. ~PlanActionsEnded(db, t)'
    BY <1>1, <1>2 DEF PlanActionsEnded
  <2>2. QED
    BY <2>1 DEF PlanOf
<1>5. \A b \in ActionsOf(t) : db'.action[b].state = "terminal" <=> db.action[b].state = "terminal"
  BY <1>2 DEF ActionsOf, UnderWay
<1>6. PublishedOk(t)'
  BY <1>1, <1>5 DEF TransferOk, PublishedOk, PhaseMoved
<1>7. Aborted(t) => Aborted(t)'
  BY <1>2 DEF Aborted, ActionsOf
<1>8. ASSUME NEW i \in MediaItems, i \in TransferItems(t)
      PROVE  InTurn(i)' /\ Awaited(i)' /\ Settled(i)'
  <2>1. TransferOfItem(i) = t /\ InTurn(i) /\ Awaited(i) /\ Settled(i)
    BY <1>1, <1>8, TransferOfThe DEF TransferOk
  <2>2. InTurn(i)'
    BY <1>5, <2>1 DEF InTurn, Carried
  <2>3. Awaited(i)'
    BY <2>1 DEF Awaited, GroupRowOf, MediaInFlight, IsRunning, PhaseMoved
  <2>4. GroupKept(t, i)
    BY DEF GroupKept, PhaseMoved
  <2>5. Settled(i)'
    BY <1>7, <1>8, <2>1, <2>4, SettledKept
  <2>6. QED
    BY <2>2, <2>3, <2>5
<1>9. QED
  BY <1>3, <1>4, <1>6, <1>8 DEF TransferOk

\* BeginProductAttempt.
BegunAs(e, d, a, t) ==
    /\ JournalOk(e)
    /\ PhaseMoved(e.rows[t], d.rows[t])
    /\ \A u \in Transfers : u # t => e.rows[u] = d.rows[u] /\ e.plan[u] = d.plan[u]
    /\ e.plan[t] = "executing"
    /\ e.media = d.media /\ e.upload = d.upload /\ e.attributed = d.attributed
    /\ \A b \in Actions : b # a => e.action[b] = d.action[b]
    /\ e.action[a].state = "dispatching" /\ e.action[a].attempt = "open"
    /\ \A v \in Vendors : e.identity[v] =
          IF v \in VendorCodes(a) THEN [state |-> "mutation_pending", active |-> a]
          ELSE d.identity[v]

LEMMA BeginWritten ==
    ASSUME NEW d, JournalOk(d), NEW a \in Actions, NEW n, n \in 0..MaxAuths,
           NEW base, base \in [Vendors -> Nat],
           NEW e, e = BeginProductAttempt(d, a, n, base), NEW t, t = TransferOf[a]
    PROVE  BegunAs(e, d, a, t)
<1>0. PICK p : p = IF d.rows[t].transfer.phase = "media" THEN "media" ELSE "publishing"
  OBVIOUS
<1>1. t \in Transfers /\ p \in ExecutingPhases
  BY <1>0, MembersOfTransfer DEF ExecutingPhases
<1>2. /\ IsJournal(d) /\ d.action \in [Actions -> ActionRows] /\ d.plan \in [Transfers -> PlanStates]
      /\ d.identity \in [Vendors -> IdentityRows] /\ RowsOk(d.rows[t], t)
      /\ d.rows = [u \in Transfers |-> d.rows[u]]
  BY <1>1, JournalTypes
<1>3. PICK identity : identity = [v \in Vendors |->
            IF v \in VendorCodes(a)
            THEN [state |-> "mutation_pending", active |-> a]
            ELSE d.identity[v]]
  OBVIOUS
<1>4. identity \in [Vendors -> IdentityRows]
  BY <1>2, <1>3 DEF IdentityRows, IdentityStates
<1>5. PICK old \in ActionRows : old = d.action[a]
  BY <1>2
<1>6. PICK row : row = [old EXCEPT !.state = "dispatching", !.auth = n, !.attempt = "open",
                                   !.baseline = base]
  OBVIOUS
<1>7. row \in ActionRows /\ row.state = "dispatching" /\ row.attempt = "open"
  BY <1>5, <1>6 DEF ActionRows, UnderWay
<1>8. PICK action : action = [d.action EXCEPT ![a] = row]
  OBVIOUS
<1>9. PICK plan : plan = [d.plan EXCEPT ![t] = "executing"]
  OBVIOUS
<1>10. PICK r : r = [d.rows[t] EXCEPT !.transfer.phase = p]
  OBVIOUS
<1>11. PICK rows : rows = [d.rows EXCEPT ![t] = r]
  OBVIOUS
<1>12. r = BeginPublicationAction(d.rows[t])
  <2>1. d.rows[t].transfer \in TransferRows
        /\ d.rows[t] = [transfer |-> d.rows[t].transfer, group |-> d.rows[t].group, item |-> d.rows[t].item]
    BY <1>2 DEF RowsOk
  <2>2. QED
    BY <1>0, <1>10, <2>1 DEF BeginPublicationAction, TransferRows
<1>13. e = [d EXCEPT !.identity = identity, !.action = action, !.plan = plan, !.rows = rows]
  BY <1>2, <1>3, <1>5, <1>6, <1>8, <1>9, <1>11, <1>12 DEF BeginProductAttempt
<1>14. /\ IsJournal(e) /\ e.rows = rows /\ e.plan = plan /\ e.auth = d.auth
       /\ e.action = action /\ e.member = d.member /\ e.media = d.media
       /\ e.upload = d.upload /\ e.attributed = d.attributed /\ e.identity = identity
  BY <1>2, <1>13 DEF IsJournal
<1>15. RowsOk(r, t) /\ PhaseMoved(r, d.rows[t])
  <2>1. PICK was : was = d.rows[t]
    OBVIOUS
  <2>2. RowsOk(was, t) /\ AtPhase(r, was, p)
    BY <1>1, <1>2, <1>10, <2>1 DEF AtPhase
  <2>3. /\ RowsOk(r, t) /\ r.group = was.group /\ r.item = was.item
        /\ r.transfer.phase = p /\ r.transfer.outcome = was.transfer.outcome
    BY <1>1, <2>2, PhaseWritten
  <2>4. was.transfer.phase = "media" => p = "media"
    BY <1>0, <2>1
  <2>5. PhaseMoved(r, was)
    BY <2>3, <2>4 DEF PhaseMoved
  <2>6. QED
    BY <2>1, <2>3, <2>5
<1>16. ColumnsOk(e)
  <2>1. ColumnsOk(d)
    BY ColumnsOfJournal
  <2>2. action \in [Actions -> ActionRows] /\ plan \in [Transfers -> PlanStates]
    BY <1>2, <1>7, <1>8, <1>9 DEF PlanStates
  <2>3. QED
    BY <1>4, <1>14, <2>1, <2>2 DEF ColumnsOk
<1>17. JournalOk(e) /\ e.rows[t] = r /\ \A u \in Transfers : u # t => e.rows[u] = d.rows[u]
  <2>1. OneRow(e, d, t, r)
    BY <1>11, <1>14 DEF OneRow
  <2>2. QED
    BY <1>1, <1>15, <1>16, <2>1, RowsWritten
<1>18. QED
  BY <1>1, <1>2, <1>3, <1>7, <1>8, <1>9, <1>14, <1>15, <1>17 DEF BegunAs

LEMMA ProductBeginsKeepsInv ==
    ASSUME Inv, NEW a \in Actions, ProductBegins(a)
    PROVE  Inv'
<1>1. PICK t \in Transfers : t = TransferOf[a]
  BY MembersOfTransfer
<1>2. PICK n \in DOMAIN db.auth[t] :
         /\ BeginProductAttemptOk(db, a, n)
         /\ db' = BeginProductAttempt(db, a, n, [v \in Vendors |-> 0])
  BY <1>1 DEF ProductBegins
<1>3. JournalOk(db) /\ OwnersOk /\ AuthsOk(db.auth[t]) /\ db.identity \in [Vendors -> IdentityRows]
  BY InvParts, JournalTypes
<1>4. n \in 0..MaxAuths
  BY <1>2, <1>3, Assumed DEF AuthsOk
<1>6. BegunAs(db', db, a, t)
  <2>1. [v \in Vendors |-> 0] \in [Vendors -> Nat]
    OBVIOUS
  <2>2. QED
    BY <1>1, <1>2, <1>3, <1>4, <2>1, BeginWritten
<1>7. /\ JournalOk(db')
      /\ \A u \in Transfers : u # t => db'.rows[u] = db.rows[u] /\ db'.plan[u] = db.plan[u]
      /\ db'.plan[t] = "executing"
      /\ db'.media = db.media /\ db'.upload = db.upload /\ db'.attributed = db.attributed
      /\ \A b \in Actions : b # a => db'.action[b] = db.action[b]
      /\ db'.action[a].state = "dispatching" /\ db'.action[a].attempt = "open"
      /\ \A v \in Vendors : db'.identity[v] =
            IF v \in VendorCodes(a) THEN [state |-> "mutation_pending", active |-> a]
            ELSE db.identity[v]
  BY <1>6 DEF BegunAs
<1>8. /\ db.action[a].state = "planned" /\ db.plan[t] \in {"awaiting_authorization", "executing"}
      /\ \A v \in VendorCodes(a) : db.identity[v].active = Free
  BY <1>1, <1>2 DEF BeginProductAttemptOk, Bindable
<1>9. PhaseMoved(db'.rows[t], db.rows[t])
  BY <1>6 DEF BegunAs
<1>10. OnlyTransfer(t)
  BY <1>1, <1>7 DEF OnlyTransfer
<1>11. TransferOk(t)'
  BY <1>1, <1>7, <1>8, <1>9, ActionUnderWay DEF UnderWay, EndedStates
<1>12. RemoteOk' /\ UploadsOk'
  <2>1. UNCHANGED <<visibility, worker, checker, received, sends>>
    BY DEF ProductBegins, others, remote
  <2>2. QED
    BY <1>7, <2>1, SameMemory
<1>13. OwnersOk'
  <2>1. \A i \in Items : MediaInFlight(i)' <=> MediaInFlight(i)
    BY <1>7 DEF MediaInFlight
  <2>2. ASSUME NEW i \in MediaItems
        PROVE  \/ db'.identity[VendorOf[i]].active = db.identity[VendorOf[i]].active
               \/ /\ db'.identity[VendorOf[i]].active \in Actions \cup {Free}
                  /\ db.identity[VendorOf[i]].active \in Actions \cup {Free}
    <3>1. VendorOf[i] \in Vendors
      BY MediaItem
    <3>2. QED
      BY <1>7, <1>8, <3>1
  <2>3. \A b \in Actions : db.action[b].state = "terminal" => db'.action[b].state = "terminal"
    BY <1>7, <1>8
  <2>4. ASSUME NEW b \in Actions, NEW i \in MembersOf[b], IsPresent(i)' PROVE IsPresent(i)
    <3>1. VendorOf[i] \in Vendors /\ db'.identity[VendorOf[i]].state = "remote_present"
      BY <2>4, MembersOfTransfer DEF IsPresent, IdentityOf
    <3>2. VendorOf[i] \notin VendorCodes(a)
      BY <1>7, <3>1
    <3>3. QED
      BY <1>7, <3>1, <3>2 DEF IsPresent, IdentityOf
  <2>5. QED
    BY <1>7, <2>1, <2>2, <2>3, <2>4, OwnersKept
<1>14. ActionsOk' /\ PlanOk' /\ ProjectionOk'
  BY <1>10, <1>11, OneTransfer
<1>15. JournalOk(db)'
  BY <1>7 DEF JournalOk, IsJournal, RowsOk
<1>16. QED
  BY <1>12, <1>13, <1>14, <1>15, InvPartsNext

\* AwaitReconciliation of an accepted request.
AwaitedAs(e, d, a, t) ==
    /\ JournalOk(e)
    /\ PhaseMoved(e.rows[t], d.rows[t])
    /\ \A u \in Transfers : u # t => e.rows[u] = d.rows[u]
    /\ e.plan = d.plan
    /\ e.media = d.media /\ e.upload = d.upload /\ e.attributed = d.attributed
    /\ \A b \in Actions : b # a => e.action[b] = d.action[b]
    /\ e.action[a].state = "reconciling" /\ e.action[a].attempt = "accepted"
    /\ e.identity = d.identity

LEMMA AwaitWritten ==
    ASSUME NEW d, JournalOk(d), NEW a \in Actions,
           NEW e, e = AwaitReconciliation(d, a, "accepted"), NEW t, t = TransferOf[a]
    PROVE  AwaitedAs(e, d, a, t)
<1>0. PICK p : p = IF d.rows[t].transfer.phase = "media" THEN "media" ELSE "reconciling"
  OBVIOUS
<1>1. t \in Transfers /\ p \in ExecutingPhases
  BY <1>0, MembersOfTransfer DEF ExecutingPhases
<1>2. /\ IsJournal(d) /\ d.action \in [Actions -> ActionRows]
      /\ d.identity \in [Vendors -> IdentityRows] /\ RowsOk(d.rows[t], t)
  BY <1>1, JournalTypes
<1>3. PICK identity : identity = [v \in Vendors |->
            IF /\ "accepted" # "accepted"
               /\ d.identity[v].active = a
               /\ d.identity[v].state = "mutation_pending"
            THEN [d.identity[v] EXCEPT !.state = "blocked_uncertain"]
            ELSE d.identity[v]]
  OBVIOUS
<1>4. identity = d.identity
  BY <1>2, <1>3
<1>5. PICK old \in ActionRows : old = d.action[a]
  BY <1>2
<1>6. PICK row : row = [old EXCEPT !.state = "reconciling", !.attempt = "accepted"]
  OBVIOUS
<1>7. row \in ActionRows /\ row.state = "reconciling" /\ row.attempt = "accepted"
  BY <1>5, <1>6 DEF ActionRows, UnderWay
<1>8. PICK action : action = [d.action EXCEPT ![a] = row]
  OBVIOUS
<1>9. PICK r : r = [d.rows[t] EXCEPT !.transfer.phase = p]
  OBVIOUS
<1>10. PICK rows : rows = [d.rows EXCEPT ![t] = r]
  OBVIOUS
<1>11. r = MarkPublicationReconciling(d.rows[t])
  <2>1. d.rows[t].transfer \in TransferRows
        /\ d.rows[t] = [transfer |-> d.rows[t].transfer, group |-> d.rows[t].group, item |-> d.rows[t].item]
    BY <1>2 DEF RowsOk
  <2>2. QED
    BY <1>0, <1>9, <2>1 DEF MarkPublicationReconciling, TransferRows
<1>12. e = [d EXCEPT !.action = action, !.identity = identity, !.rows = rows]
  BY <1>2, <1>3, <1>5, <1>6, <1>8, <1>10, <1>11 DEF AwaitReconciliation
<1>13. /\ IsJournal(e) /\ e.rows = rows /\ e.plan = d.plan /\ e.auth = d.auth
       /\ e.action = action /\ e.member = d.member /\ e.media = d.media
       /\ e.upload = d.upload /\ e.attributed = d.attributed /\ e.identity = identity
  BY <1>2, <1>12 DEF IsJournal
<1>14. ColumnsOk(e)
  <2>1. ColumnsOk(d)
    BY ColumnsOfJournal
  <2>2. action \in [Actions -> ActionRows]
    BY <1>2, <1>7, <1>8
  <2>3. QED
    BY <1>4, <1>13, <2>1, <2>2 DEF ColumnsOk
<1>15. RowsOk(r, t) /\ PhaseMoved(r, d.rows[t])
  <2>1. PICK was : was = d.rows[t]
    OBVIOUS
  <2>2. RowsOk(was, t) /\ AtPhase(r, was, p)
    BY <1>1, <1>2, <1>9, <2>1 DEF AtPhase
  <2>3. /\ RowsOk(r, t) /\ r.group = was.group /\ r.item = was.item
        /\ r.transfer.phase = p /\ r.transfer.outcome = was.transfer.outcome
    BY <1>1, <2>2, PhaseWritten
  <2>4. was.transfer.phase = "media" => p = "media"
    BY <1>0, <2>1
  <2>5. PhaseMoved(r, was)
    BY <2>3, <2>4 DEF PhaseMoved
  <2>6. QED
    BY <2>1, <2>3, <2>5
<1>16. JournalOk(e) /\ e.rows[t] = r /\ \A u \in Transfers : u # t => e.rows[u] = d.rows[u]
  <2>1. OneRow(e, d, t, r)
    BY <1>10, <1>13 DEF OneRow
  <2>2. QED
    BY <1>1, <1>14, <1>15, <2>1, RowsWritten
<1>17. QED
  BY <1>2, <1>4, <1>7, <1>8, <1>13, <1>15, <1>16 DEF AwaitedAs

LEMMA ProductIsAcceptedKeepsInv ==
    ASSUME Inv, NEW a \in Actions, ProductIsAccepted(a)
    PROVE  Inv'
<1>1. PICK t \in Transfers : t = TransferOf[a]
  BY MembersOfTransfer
<1>2. JournalOk(db) /\ db.action[a].state = "dispatching" /\ db' = AwaitReconciliation(db, a, "accepted")
  BY InvParts DEF ProductIsAccepted, AwaitReconciliationOk
<1>4. AwaitedAs(db', db, a, t)
  BY <1>1, <1>2, AwaitWritten
<1>5. /\ JournalOk(db')
      /\ \A u \in Transfers : u # t => db'.rows[u] = db.rows[u]
      /\ db'.plan = db.plan
      /\ db'.media = db.media /\ db'.upload = db.upload /\ db'.attributed = db.attributed
      /\ \A b \in Actions : b # a => db'.action[b] = db.action[b]
      /\ db'.action[a].state = "reconciling" /\ db'.action[a].attempt = "accepted"
      /\ db'.identity = db.identity
  BY <1>4 DEF AwaitedAs
<1>6. db.plan[t] \in {"awaiting_authorization", "executing"}
  <2>1. db.plan[t] \in PlanStates /\ PlanOf(t) /\ a \in ActionsOf(t)
    BY <1>1, <1>2, JournalTypes, TransferParts, MembersOfTransfer DEF TransferOk
  <2>2. ~PlanActionsEnded(db, t)
    BY <1>2, <2>1 DEF PlanActionsEnded, EndedStates
  <2>3. QED
    BY <1>2, <2>1, <2>2 DEF PlanOf, PlanStates
<1>7. PhaseMoved(db'.rows[t], db.rows[t])
  BY <1>4 DEF AwaitedAs
<1>8. OnlyTransfer(t)
  BY <1>1, <1>5 DEF OnlyTransfer
<1>9. TransferOk(t)'
  BY <1>1, <1>2, <1>5, <1>6, <1>7, ActionUnderWay DEF UnderWay, EndedStates
<1>10. RemoteOk' /\ UploadsOk'
  <2>1. UNCHANGED <<visibility, worker, checker, received, sends>>
    BY DEF ProductIsAccepted, others, remote
  <2>2. QED
    BY <1>5, <2>1, SameMemory
<1>11. OwnersOk'
  <2>1. \A i \in Items : MediaInFlight(i)' <=> MediaInFlight(i)
    BY <1>5 DEF MediaInFlight
  <2>2. \A b \in Actions : db.action[b].state = "terminal" => db'.action[b].state = "terminal"
    BY <1>2, <1>5
  <2>3. \A i \in Items : IsPresent(i)' <=> IsPresent(i)
    BY <1>5 DEF IsPresent, IdentityOf
  <2>4. \A b \in Actions : MembersOf[b] \subseteq Items
    BY MembersOfTransfer
  <2>5. QED
    BY <1>5, <2>1, <2>2, <2>3, <2>4, OwnersKept
<1>12. ActionsOk' /\ PlanOk' /\ ProjectionOk'
  BY <1>8, <1>9, OneTransfer
<1>13. JournalOk(db)'
  BY <1>5 DEF JournalOk, IsJournal, RowsOk
<1>14. QED
  BY <1>10, <1>11, <1>12, <1>13, InvPartsNext

-----------------------------------------------------------------------------
(* A result reaches the projection. *)

GroupsOf(items) == {GroupOf[i] : i \in items}

ResultOf(r, s, class, skip) == r = ApplyPublicationActionResult(s, class, skip)

\* The rows r after a result for the items: they end, their groups are reduced and
\* wait for their media unless it is skipped, the others are left alone, and the
\* transfer finishes with its last group only.
Applied(r, s, t, items, skip) ==
    /\ RowsOk(r, t)
    /\ \A i \in TransferItems(t) :
          IF i \in items THEN r.item[i].state = "terminal" ELSE r.item[i] = s.item[i]
    /\ \A g \in GroupTargetsOf(t) :
          /\ g \notin GroupsOf(items) => r.group[g] = s.group[g]
          /\ g \in GroupsOf(items) => r.group[g].publication \in PublicationEnded
          /\ g \in GroupsOf(items) /\ g \notin skip /\ s.group[g].media = "running" =>
                r.group[g].media = "running" /\ r.group[g].overall = "running"
    /\ (\E g \in GroupTargetsOf(t) : r.group[g].overall = "running") =>
          /\ r.transfer.outcome = s.transfer.outcome
          /\ s.transfer.phase = "media" => r.transfer.phase = "media"

LEMMA ResultApplied ==
    ASSUME NEW t \in Transfers, NEW s, RowsOk(s, t),
           NEW items, items \subseteq TransferItems(t),
           NEW class \in [items -> Classes], NEW skip, skip \subseteq GroupsOf(items),
           NEW r, ResultOf(r, s, class, skip)
    PROVE  Applied(r, s, t, items, skip)
<1>1. /\ s = [transfer |-> s.transfer, group |-> s.group, item |-> s.item]
      /\ s.transfer \in TransferRows
      /\ s.group \in [GroupTargetsOf(t) -> GroupRows]
      /\ s.item \in [TransferItems(t) -> ItemRows]
  BY DEF RowsOk
<1>2. PICK item : item = [i \in TransferItems(t) |->
            IF i \in items THEN EndedItem(s.item[i], class[i]) ELSE s.item[i]]
  OBVIOUS
<1>3. PICK s1 : s1 = FinishItems(s, class)
  OBVIOUS
<1>4. s1 = [transfer |-> s.transfer, group |-> s.group, item |-> item]
  BY <1>1, <1>2, <1>3 DEF FinishItems
<1>5. PICK group2 : group2 = [g \in GroupTargetsOf(t) |->
            IF g \in skip THEN [s.group[g] EXCEPT !.media = "skipped"] ELSE s.group[g]]
  OBVIOUS
<1>6. PICK s2 : s2 = SkipMedia(s1, skip)
  OBVIOUS
<1>7. s2 = [transfer |-> s.transfer, group |-> group2, item |-> item]
  BY <1>1, <1>4, <1>5, <1>6 DEF SkipMedia
<1>8. AffectedGroups(class, skip) = GroupsOf(items)
  BY DEF AffectedGroups, GroupsOf
<1>9. PICK group3 : group3 = [g \in GroupTargetsOf(t) |->
            IF g \in GroupsOf(items) THEN ReducedGroup(group2[g], ClassesOf(s2, g)) ELSE group2[g]]
  OBVIOUS
<1>10. PICK s3 : s3 = ReduceGroups(s2, GroupsOf(items))
  OBVIOUS
<1>11. s3 = [transfer |-> s.transfer, group |-> group3, item |-> item]
  BY <1>5, <1>7, <1>9, <1>10 DEF ReduceGroups
<1>12. r = AdvanceOrFinish(s3, "reconciling")
  BY <1>3, <1>6, <1>8, <1>10 DEF ApplyPublicationActionResult, ResultOf
<1>13. item \in [TransferItems(t) -> ItemRows]
  <2>1. ASSUME NEW i \in TransferItems(t) PROVE item[i] \in ItemRows
    <3>1. s.item[i] \in ItemRows /\ (i \in items => class[i] \in Classes)
      BY <1>1
    <3>2. QED
      BY <1>2, <3>1 DEF ItemRows, EndedItem
  <2>2. QED
    BY <1>2, <2>1
<1>14. ASSUME NEW g \in GroupTargetsOf(t)
       PROVE  /\ group3[g] \in GroupRows
              /\ g \notin GroupsOf(items) => group3[g] = s.group[g]
              /\ g \in GroupsOf(items) => group3[g].publication \in PublicationEnded
              /\ g \in GroupsOf(items) /\ g \notin skip /\ s.group[g].media = "running" =>
                    group3[g].media = "running" /\ group3[g].overall = "running"
  <2>1. PICK row \in GroupRows : row = s.group[g]
    BY <1>1
  <2>2. PICK row2 : row2 = group2[g]
    OBVIOUS
  <2>3. row2 = IF g \in skip THEN [row EXCEPT !.media = "skipped"] ELSE row
    BY <1>5, <2>1, <2>2
  <2>4. /\ row2 \in GroupRows
        /\ g \notin GroupsOf(items) => row2 = row
        /\ g \notin skip => row2.media = row.media
    BY <2>1, <2>3 DEF GroupRows, GroupColumn
  <2>5. PICK classes : classes = ClassesOf(s2, g)
    OBVIOUS
  <2>6. PICK row3 : row3 = ReducedGroup(row2, classes)
    OBVIOUS
  <2>7. /\ row3 \in GroupRows /\ row3.publication \in PublicationEnded
        /\ row2.media = "running" => row3.media = "running" /\ row3.overall = "running"
    <3>1. PublicationStatus(classes) \in GroupColumn \cap PublicationEnded
      BY DEF PublicationStatus, GroupColumn, PublicationEnded
    <3>2. GroupVerdict(row2.media, classes) \in {"unresolved", "partial", "rejected", "success"}
      BY DEF GroupVerdict
    <3>3. PICK attention \in BOOLEAN :
             attention = (row2.media = "unresolved" \/ classes \cap AttentionClasses # {})
      OBVIOUS
    <3>4. CASE row2.media \in {"not_started", "running"}
      <4>1. row3 = [row2 EXCEPT !.publication = PublicationStatus(classes), !.media = "running",
                                !.overall = "running", !.attention = FALSE]
        BY <2>6, <3>4 DEF ReducedGroup
      <4>2. QED
        BY <2>4, <3>1, <4>1 DEF GroupRows, GroupColumn
    <3>5. CASE row2.media \notin {"not_started", "running"}
      <4>1. row3 = [row2 EXCEPT !.publication = PublicationStatus(classes),
                                !.overall = GroupVerdict(row2.media, classes),
                                !.attention = attention]
        BY <2>6, <3>3, <3>5 DEF ReducedGroup
      <4>2. QED
        BY <2>4, <3>5, <3>1, <3>2, <4>1 DEF GroupRows, GroupColumn
    <3>6. QED
      BY <3>4, <3>5
  <2>8. group3[g] = IF g \in GroupsOf(items) THEN row3 ELSE row2
    BY <1>9, <2>2, <2>5, <2>6
  <2>9. QED
    BY <2>1, <2>4, <2>7, <2>8
<1>15. group3 \in [GroupTargetsOf(t) -> GroupRows]
  BY <1>9, <1>14
<1>16. \A i \in TransferItems(t) :
          IF i \in items THEN item[i].state = "terminal" ELSE item[i] = s.item[i]
  <2>1. ASSUME NEW i \in items PROVE item[i].state = "terminal"
    <3>1. PICK old \in ItemRows : old = s.item[i]
      BY <1>1
    <3>2. item[i] = EndedItem(old, class[i])
      BY <1>2, <3>1
    <3>3. QED
      BY <3>1, <3>2 DEF EndedItem, ItemRows
  <2>2. QED
    BY <1>2, <2>1
<1>17. CASE RunningGroups(s3) = {}
  <2>1. PICK head : head = Finished(s3)
    OBVIOUS
  <2>2. head \in TransferRows
    <3>1. TransferOutcome(s3) \in {"unresolved", "rejected", "partial", "succeeded"}
      BY DEF TransferOutcome
    <3>2. GroupNeedsAttention(s3) \in BOOLEAN
      BY DEF GroupNeedsAttention
    <3>3. QED
      BY <2>1, <3>1, <3>2 DEF Finished, TransferRows
  <2>3. r = [s3 EXCEPT !.transfer = head]
    BY <1>12, <1>17, <2>1 DEF AdvanceOrFinish
  <2>4. r = [transfer |-> head, group |-> group3, item |-> item]
    BY <1>11, <2>3
  <2>5. RowsOk(r, t)
    BY <1>13, <1>15, <2>2, <2>4 DEF RowsOk
  <2>6. \A g \in GroupTargetsOf(t) : group3[g].overall # "running"
    BY <1>11, <1>15, <1>17 DEF RunningGroups
  <2>7. QED
    BY <1>2, <1>14, <1>16, <2>4, <2>5, <2>6 DEF Applied
<1>18. CASE RunningGroups(s3) # {}
  <2>1. PICK p : p = IF s.transfer.phase = "media" THEN "media" ELSE "reconciling"
    OBVIOUS
  <2>2. PICK head : head = [s.transfer EXCEPT !.phase = p]
    OBVIOUS
  <2>3. /\ head \in TransferRows /\ head.outcome = s.transfer.outcome
        /\ s.transfer.phase = "media" => head.phase = "media"
    BY <1>1, <2>1, <2>2 DEF TransferRows, ExecutingPhases
  <2>4. r = [s3 EXCEPT !.transfer = head]
    BY <1>11, <1>12, <1>18, <2>1, <2>2 DEF AdvanceOrFinish
  <2>5. r = [transfer |-> head, group |-> group3, item |-> item]
    BY <1>11, <2>4
  <2>6. RowsOk(r, t)
    BY <1>13, <1>15, <2>3, <2>5 DEF RowsOk
  <2>7. QED
    BY <1>2, <1>14, <1>16, <2>3, <2>5, <2>6 DEF Applied
<1>19. QED
  BY <1>17, <1>18

-----------------------------------------------------------------------------
(* What the parts of a transaction write. *)

LEMMA AuthorizationClosed ==
    ASSUME NEW d, JournalOk(d), NEW t \in Transfers, NEW n,
           NEW e, e = CloseAuthorization(d, t, n)
    PROVE  /\ JournalOk(e)
           /\ e.rows = d.rows /\ e.plan = d.plan /\ e.action = d.action /\ e.member = d.member
           /\ e.media = d.media /\ e.identity = d.identity /\ e.attributed = d.attributed
           /\ e.upload = d.upload
<1>1. CASE d.plan[t] # "terminal"
  BY <1>1 DEF CloseAuthorization
<1>2. CASE d.plan[t] = "terminal"
  <2>1. PICK old : old = d.auth[t][n]
    OBVIOUS
  <2>2. PICK state : state = CASE old = "authorized" -> "closed"
                               [] old = "overdue" -> "expired"
                               [] OTHER -> old
    OBVIOUS
  <2>3. PICK x : x = [d.auth[t] EXCEPT ![n] = state]
    OBVIOUS
  <2>4. e = [d EXCEPT !.auth[t] = x]
    BY <1>2, <2>1, <2>2, <2>3 DEF CloseAuthorization
  <2>5. PICK s : s = d.auth[t]
    OBVIOUS
  <2>6. AuthsOk(s)
    BY <2>5, JournalTypes
  <2>7. n \in DOMAIN s => state \in AuthStates
    <3>1. n \in DOMAIN s => old \in AuthStates
      BY <2>1, <2>5, <2>6 DEF AuthsOk
    <3>2. QED
      BY <2>2, <3>1 DEF AuthStates, OpenAuthorization
  <2>8. AuthsOk(x)
    <3>1. x = [s EXCEPT ![n] = state]
      BY <2>3, <2>5
    <3>2. QED
      BY <2>6, <2>7, <3>1, EpisodeWritten
  <2>9. QED
    BY <2>4, <2>8, AuthWritten
<1>3. QED
  BY <1>1, <1>2

LEMMA PlanReducedTo ==
    ASSUME NEW d, JournalOk(d), NEW t \in Transfers, NEW e, e = ReducePlan(d, t)
    PROVE  /\ JournalOk(e)
           /\ \A u \in Transfers : e.plan[u] =
                 IF u = t /\ d.plan[t] = "executing" /\ PlanActionsEnded(d, t)
                 THEN "terminal" ELSE d.plan[u]
           /\ e.rows = d.rows /\ e.action = d.action /\ e.member = d.member
           /\ e.media = d.media /\ e.identity = d.identity /\ e.attributed = d.attributed
           /\ e.upload = d.upload
<1>1. CASE ~(d.plan[t] = "executing" /\ PlanActionsEnded(d, t))
  BY <1>1 DEF ReducePlan
<1>2. CASE d.plan[t] = "executing" /\ PlanActionsEnded(d, t)
  <2>1. IsJournal(d) /\ d.plan \in [Transfers -> PlanStates]
    BY JournalTypes
  <2>2. PICK plan : plan = [d.plan EXCEPT ![t] = "terminal"]
    OBVIOUS
  <2>3. e = [d EXCEPT !.plan = plan]
    BY <1>2, <2>2 DEF ReducePlan
  <2>4. /\ IsJournal(e) /\ e.rows = d.rows /\ e.plan = plan /\ e.auth = d.auth
        /\ e.action = d.action /\ e.member = d.member /\ e.media = d.media
        /\ e.upload = d.upload /\ e.attributed = d.attributed /\ e.identity = d.identity
    BY <2>1, <2>3 DEF IsJournal
  <2>5. plan \in [Transfers -> PlanStates]
    BY <2>1, <2>2 DEF PlanStates
  <2>6. ColumnsOk(e)
    <3>1. ColumnsOk(d)
      BY ColumnsOfJournal
    <3>2. QED
      BY <2>4, <2>5, <3>1 DEF ColumnsOk
  <2>7. JournalOk(e)
    BY <2>4, <2>6, SameRows
  <2>8. QED
    BY <1>2, <2>1, <2>2, <2>4, <2>7
<1>3. QED
  BY <1>1, <1>2

OutcomeClasses == {"success", "rejected", "unresolved"}

\* What recordProductReconciliationMembers writes.
RecordedAs(e, d, class) ==
    /\ JournalOk(e)
    /\ e.rows = d.rows /\ e.plan = d.plan /\ e.action = d.action
    /\ e.media = d.media /\ e.upload = d.upload
    /\ \A i \in Items : e.member[i] = IF i \in DOMAIN class THEN class[i] ELSE d.member[i]
    /\ d.attributed \subseteq e.attributed /\ e.attributed \subseteq d.attributed \cup DOMAIN class
    /\ \A v \in Vendors :
          \/ e.identity[v] = d.identity[v]
          \/ \E i \in DOMAIN class :
                VendorOf[i] = v /\ e.identity[v].active \in {Free, d.identity[v].active}

LEMMA MembersRecorded ==
    ASSUME NEW d, JournalOk(d), NEW a \in Actions,
           NEW class, class \in [DOMAIN class -> OutcomeClasses], DOMAIN class \subseteq MembersOf[a],
           NEW e, e = RecordMembers(d, a, class)
    PROVE  RecordedAs(e, d, class)
<1> DEFINE chosen(v) == CHOOSE i \in DOMAIN class : VendorOf[i] = v
<1>1. /\ IsJournal(d) /\ d.member \in [Items -> Classes \cup {NoClass}]
      /\ d.identity \in [Vendors -> IdentityRows] /\ d.attributed \in SUBSET Items
  BY JournalTypes
<1>2. PICK member : member = [i \in Items |-> IF i \in DOMAIN class THEN class[i] ELSE d.member[i]]
  OBVIOUS
<1>3. PICK identity : identity = [v \in Vendors |->
            IF \E i \in DOMAIN class : VendorOf[i] = v
            THEN ReleasedIdentity(d.identity[v], class[chosen(v)])
            ELSE d.identity[v]]
  OBVIOUS
<1>4. PICK attributed : attributed = d.attributed \cup {i \in DOMAIN class : class[i] = "success"}
  OBVIOUS
<1>5. e = [d EXCEPT !.member = member, !.identity = identity, !.attributed = attributed]
  BY <1>2, <1>3, <1>4 DEF RecordMembers
<1>6. /\ IsJournal(e) /\ e.rows = d.rows /\ e.plan = d.plan /\ e.auth = d.auth
      /\ e.action = d.action /\ e.member = member /\ e.media = d.media
      /\ e.upload = d.upload /\ e.attributed = attributed /\ e.identity = identity
  BY <1>1, <1>5 DEF IsJournal
<1>7. MembersOf[a] \subseteq Items
  BY MembersOfTransfer
<1>8. member \in [Items -> Classes \cup {NoClass}]
  BY <1>1, <1>2 DEF OutcomeClasses, Classes, AttentionClasses
<1>9. attributed \in SUBSET Items /\ attributed \subseteq d.attributed \cup DOMAIN class
  BY <1>1, <1>4, <1>7
<1>10. ASSUME NEW v \in Vendors
       PROVE  /\ identity[v] \in IdentityRows
              /\ \/ identity[v] = d.identity[v]
                 \/ \E i \in DOMAIN class :
                       VendorOf[i] = v /\ identity[v].active \in {Free, d.identity[v].active}
  <2>1. PICK old \in IdentityRows : old = d.identity[v]
    BY <1>1
  <2>2. CASE \E i \in DOMAIN class : VendorOf[i] = v
    <3>1. chosen(v) \in DOMAIN class /\ VendorOf[chosen(v)] = v
      BY <2>2
    <3>2. PICK c \in OutcomeClasses : c = class[chosen(v)]
      BY <3>1
    <3>3. identity[v] = ReleasedIdentity(old, c)
      BY <1>3, <2>1, <2>2, <3>2
    <3>4. identity[v] \in IdentityRows /\ identity[v].active \in {Free, old.active}
      BY <2>1, <3>3 DEF ReleasedIdentity, IdentityRows, IdentityStates
    <3>5. QED
      BY <2>1, <3>1, <3>4
  <2>3. CASE ~ \E i \in DOMAIN class : VendorOf[i] = v
    BY <1>1, <1>3, <2>3
  <2>4. QED
    BY <2>2, <2>3
<1>11. identity \in [Vendors -> IdentityRows]
  BY <1>3, <1>10
<1>12. ColumnsOk(e)
  <2>1. ColumnsOk(d)
    BY ColumnsOfJournal
  <2>2. QED
    BY <1>6, <1>8, <1>9, <1>11, <2>1 DEF ColumnsOk
<1>13. JournalOk(e)
  BY <1>6, <1>12, SameRows
<1>14. QED
  BY <1>2, <1>4, <1>6, <1>9, <1>10, <1>13 DEF RecordedAs

-----------------------------------------------------------------------------
(* A product action ends. *)

\* What an action whose members have all got an outcome leaves behind.
FinishedAs(e, d, a, t) ==
    /\ JournalOk(e)
    /\ \E skip \in SUBSET GroupTargets(a) :
          /\ Applied(e.rows[t], d.rows[t], t, MembersOf[a], skip)
          /\ \A i \in MembersOf[a] : e.media[i] = "planned" => GroupOf[i] \notin skip
    /\ \A u \in Transfers : u # t => e.rows[u] = d.rows[u]
    /\ \A u \in Transfers : e.plan[u] =
          IF u = t /\ d.plan[t] = "executing" /\ PlanActionsEnded(e, t)
          THEN "terminal" ELSE d.plan[u]
    /\ e.action[a].state = "terminal" /\ e.action[a].attempt = d.action[a].attempt
    /\ \A b \in Actions : b # a => e.action[b] = d.action[b]
    /\ \A i \in Items : \/ e.media[i] = d.media[i]
                        \/ i \in MembersOf[a] /\ d.media[i] = "planned" /\ e.media[i] = "skipped"
    /\ e.upload = d.upload
    /\ d.attributed \subseteq e.attributed /\ e.attributed \subseteq d.attributed \cup MembersOf[a]
    /\ \A v \in Vendors :
          \/ e.identity[v] = d.identity[v]
          \/ \E i \in PendingMembers(d, a) :
                VendorOf[i] = v /\ e.identity[v].active \in {Free, d.identity[v].active}

LEMMA FinishWritten ==
    ASSUME NEW d, JournalOk(d), NEW a \in Actions,
           NEW class, class \in [DOMAIN class -> OutcomeClasses], DOMAIN class = PendingMembers(d, a),
           NEW e, e = FinishAction(d, a, class), NEW t, t = TransferOf[a]
    PROVE  FinishedAs(e, d, a, t)
<1>1. t \in Transfers /\ t = TransferOf[a]
  BY MembersOfTransfer
<1>2. DOMAIN class \subseteq MembersOf[a] /\ MembersOf[a] \subseteq Items
  BY MembersOfTransfer DEF PendingMembers
<1>3. PICK m : m = RecordMembers(d, a, class)
  OBVIOUS
<1>4. RecordedAs(m, d, class)
  BY <1>2, <1>3, MembersRecorded
<1>5. /\ JournalOk(m)
      /\ m.rows = d.rows /\ m.plan = d.plan /\ m.action = d.action
      /\ m.media = d.media /\ m.upload = d.upload
      /\ \A i \in Items : m.member[i] = IF i \in DOMAIN class THEN class[i] ELSE d.member[i]
  BY <1>4 DEF RecordedAs
<1>6. PICK media : media = [i \in Items |->
          IF i \in MembersOf[a] \ m.attributed /\ m.media[i] = "planned"
          THEN "skipped" ELSE m.media[i]]
  OBVIOUS
<1>7. PICK k : k = SkipPotentialMedia(m, a)
  OBVIOUS
<1>8. k = [m EXCEPT !.media = media]
  BY <1>6, <1>7 DEF SkipPotentialMedia
<1>9. /\ IsJournal(m) /\ m.media \in [Items -> MediaStates] /\ m.action \in [Actions -> ActionRows]
  BY <1>5, JournalTypes
<1>10. PICK old \in ActionRows : old = m.action[a]
  BY <1>9
<1>11. PICK row : row = [old EXCEPT !.state = "terminal"]
  OBVIOUS
<1>12. row \in ActionRows /\ row.state = "terminal" /\ row.attempt = old.attempt
  BY <1>10, <1>11 DEF ActionRows, EndedStates
<1>13. PICK action : action = [m.action EXCEPT ![a] = row]
  OBVIOUS
<1>14. PICK x : x = [k EXCEPT !.action[a].state = "terminal"]
  OBVIOUS
<1>15. /\ IsJournal(k) /\ k.rows = m.rows /\ k.plan = m.plan /\ k.auth = m.auth
       /\ k.action = m.action /\ k.member = m.member /\ k.media = media
       /\ k.upload = m.upload /\ k.attributed = m.attributed /\ k.identity = m.identity
  BY <1>8, <1>9 DEF IsJournal
<1>16. x = [k EXCEPT !.action = action]
  BY <1>10, <1>11, <1>13, <1>14, <1>15
<1>17. /\ IsJournal(x) /\ x.rows = m.rows /\ x.plan = m.plan /\ x.auth = m.auth
       /\ x.action = action /\ x.member = m.member /\ x.media = media
       /\ x.upload = m.upload /\ x.attributed = m.attributed /\ x.identity = m.identity
  BY <1>15, <1>16 DEF IsJournal
<1>18. JournalOk(x)
  <2>1. media \in [Items -> MediaStates]
    BY <1>6, <1>9 DEF MediaStates
  <2>2. action \in [Actions -> ActionRows]
    BY <1>9, <1>12, <1>13
  <2>3. ColumnsOk(m)
    BY <1>5, ColumnsOfJournal
  <2>4. ColumnsOk(x)
    BY <1>17, <2>1, <2>2, <2>3 DEF ColumnsOk
  <2>5. QED
    BY <1>5, <1>17, <2>4, SameRows
<1>19. PICK p : p = ReducePlan(x, t)
  OBVIOUS
<1>20. /\ JournalOk(p)
       /\ \A u \in Transfers : p.plan[u] =
             IF u = t /\ x.plan[t] = "executing" /\ PlanActionsEnded(x, t)
             THEN "terminal" ELSE x.plan[u]
       /\ p.rows = x.rows /\ p.action = x.action /\ p.member = x.member
       /\ p.media = x.media /\ p.identity = x.identity /\ p.attributed = x.attributed
       /\ p.upload = x.upload
  <2>1. t \in Transfers
    BY <1>1
  <2>2. QED
    BY <1>18, <1>19, <2>1, PlanReducedTo
<1>21. p = EndedAction(d, a, class)
  BY <1>1, <1>3, <1>7, <1>14, <1>19 DEF EndedAction
<1>22. PICK outcomes : outcomes = MemberOutcomes(p, a)
  OBVIOUS
<1>23. outcomes \in [MembersOf[a] -> Classes]
  <2>1. \A i \in MembersOf[a] : p.member[i] \in Classes
    <3>1. \A i \in MembersOf[a] : i \notin DOMAIN class => d.member[i] # NoClass
      BY DEF PendingMembers
    <3>2. d.member \in [Items -> Classes \cup {NoClass}] /\ OutcomeClasses \subseteq Classes
      BY JournalTypes DEF OutcomeClasses, Classes, AttentionClasses
    <3>3. \A i \in MembersOf[a] :
             p.member[i] = IF i \in DOMAIN class THEN class[i] ELSE d.member[i]
      BY <1>2, <1>5, <1>17, <1>20
    <3>4. \A i \in DOMAIN class : class[i] \in OutcomeClasses
      OBVIOUS
    <3>5. \A i \in MembersOf[a] : i \notin DOMAIN class => d.member[i] \in Classes
      BY <1>2, <3>1, <3>2
    <3>6. QED
      BY <3>2, <3>3, <3>4, <3>5
  <2>2. QED
    BY <1>22, <2>1 DEF MemberOutcomes
<1>24. PICK skip : skip = MediaGroupsToSkip(p, a)
  OBVIOUS
<1>25. /\ skip \in SUBSET GroupTargets(a)
       /\ \A i \in MembersOf[a] : p.media[i] = "planned" => GroupOf[i] \notin skip
  BY <1>24 DEF MediaGroupsToSkip
<1>26. PICK s : s = p.rows[t]
  OBVIOUS
<1>27. PICK r : r = ApplyPublicationActionResult(s, outcomes, skip)
  OBVIOUS
<1>28. Applied(r, s, t, MembersOf[a], skip)
  <2>1. RowsOk(s, t)
    BY <1>1, <1>20, <1>26, JournalTypes
  <2>2. GroupTargets(a) = GroupsOf(MembersOf[a])
    BY DEF GroupTargets, GroupsOf
  <2>3. skip \subseteq GroupsOf(MembersOf[a])
    BY <1>25, <2>2
  <2>4. MembersOf[a] \subseteq TransferItems(t)
    BY <1>1, MembersOfTransfer
  <2>5. ResultOf(r, s, outcomes, skip)
    BY <1>27 DEF ResultOf
  <2>6. QED
    BY <1>1, <1>23, <2>1, <2>3, <2>4, <2>5, ResultApplied
<1>29. PICK rows : rows = [p.rows EXCEPT ![t] = r]
  OBVIOUS
<1>30. PICK q : q = ProjectJournaled(p, a, DOMAIN class)
  OBVIOUS
<1>31. q = [p EXCEPT !.rows = rows]
  BY <1>1, <1>22, <1>24, <1>26, <1>27, <1>29, <1>30 DEF ProjectJournaled
<1>32. /\ IsJournal(q) /\ q.rows = rows /\ q.plan = p.plan /\ q.auth = p.auth
       /\ q.action = p.action /\ q.member = p.member /\ q.media = p.media
       /\ q.upload = p.upload /\ q.attributed = p.attributed /\ q.identity = p.identity
  <2>1. IsJournal(p)
    BY <1>20, JournalTypes
  <2>2. QED
    BY <1>31, <2>1 DEF IsJournal
<1>33. JournalOk(q) /\ q.rows[t] = r /\ \A u \in Transfers : u # t => q.rows[u] = p.rows[u]
  <2>1. ColumnsOk(p)
    BY <1>20, ColumnsOfJournal
  <2>2. ColumnsOk(q)
    BY <1>32, <2>1 DEF ColumnsOk
  <2>3. OneRow(q, p, t, r)
    BY <1>29, <1>32 DEF OneRow
  <2>4. RowsOk(r, t)
    BY <1>28 DEF Applied
  <2>5. QED
    BY <1>1, <1>20, <2>2, <2>3, <2>4, RowsWritten
<1>34. e = CloseAuthorization(q, t, d.action[a].auth)
  BY <1>1, <1>21, <1>30 DEF FinishAction
<1>35. /\ JournalOk(e)
       /\ e.rows = q.rows /\ e.plan = q.plan /\ e.action = q.action
       /\ e.media = q.media /\ e.identity = q.identity /\ e.attributed = q.attributed
       /\ e.upload = q.upload
  BY <1>1, <1>33, <1>34, AuthorizationClosed
<1>36. /\ e.plan = p.plan /\ e.action = action /\ e.media = media /\ e.identity = m.identity
       /\ e.attributed = m.attributed /\ e.upload = d.upload
       /\ e.rows[t] = r /\ \A u \in Transfers : u # t => e.rows[u] = d.rows[u]
  BY <1>5, <1>17, <1>20, <1>32, <1>33, <1>35
<1>37. s = d.rows[t]
  BY <1>5, <1>17, <1>20, <1>26
<1>38. \A u \in Transfers : e.plan[u] =
          IF u = t /\ d.plan[t] = "executing" /\ PlanActionsEnded(e, t)
          THEN "terminal" ELSE d.plan[u]
  <2>1. PlanActionsEnded(e, t) <=> PlanActionsEnded(x, t)
    BY <1>17, <1>36 DEF PlanActionsEnded
  <2>2. QED
    BY <1>5, <1>17, <1>20, <1>36, <2>1
<1>39. /\ e.action[a].state = "terminal" /\ e.action[a].attempt = d.action[a].attempt
       /\ \A b \in Actions : b # a => e.action[b] = d.action[b]
  BY <1>5, <1>9, <1>10, <1>12, <1>13, <1>36
<1>40. \A i \in Items : \/ e.media[i] = d.media[i]
                        \/ i \in MembersOf[a] /\ d.media[i] = "planned" /\ e.media[i] = "skipped"
  BY <1>5, <1>6, <1>36
<1>41. /\ d.attributed \subseteq e.attributed /\ e.attributed \subseteq d.attributed \cup MembersOf[a]
       /\ \A v \in Vendors :
             \/ e.identity[v] = d.identity[v]
             \/ \E i \in PendingMembers(d, a) :
                   VendorOf[i] = v /\ e.identity[v].active \in {Free, d.identity[v].active}
  BY <1>2, <1>4, <1>36 DEF RecordedAs
<1>42. \E groups \in SUBSET GroupTargets(a) :
          /\ Applied(e.rows[t], d.rows[t], t, MembersOf[a], groups)
          /\ \A i \in MembersOf[a] : e.media[i] = "planned" => GroupOf[i] \notin groups
  BY <1>17, <1>20, <1>25, <1>28, <1>36, <1>37
<1>43. QED
  BY <1>35, <1>36, <1>38, <1>39, <1>40, <1>41, <1>42 DEF FinishedAs

\* An upload has an attempt once it is past 'planned', and is known to the plan.
LEMMA Tried ==
    ASSUME Inv, NEW i \in Items
    PROVE  /\ MediaInFlight(i) => db.upload[i].attempt # "none"
           /\ db.media[i] # "none" => i \in MediaItems
<1>1. StageOk(i)
  BY InvParts DEF UploadsOk
<1>2. QED
  BY <1>1 DEF StageOk, MediaInFlight, TriedStates, UnderWay

\* The actions A of transfer t end, with members its, and some planned uploads are
\* skipped: those of the groups of its, or those of a plan that is aborted.
ActionsEnded(t, A, its, skip) ==
    /\ A \subseteq ActionsOf(t) /\ A # {}
    /\ \A i : i \in its <=> \E b \in A : i \in MembersOf[b]
    /\ \A b \in A : /\ db.action[b].state \notin EndedStates
                    /\ db'.action[b].state = "terminal"
    /\ \A b \in Actions : b \notin A => db'.action[b] = db.action[b]
    /\ db'.upload = db.upload
    /\ \A i \in Items : \/ db'.media[i] = db.media[i]
                        \/ /\ db.media[i] = "planned" /\ db'.media[i] = "skipped"
                           /\ i \in TransferItems(t)
                           /\ GroupOf[i] \in GroupsOf(its) \/ Aborted(t)'
    /\ Applied(db'.rows[t], db.rows[t], t, its, skip)
    /\ \A i \in its : db'.media[i] = "planned" => GroupOf[i] \notin skip
    /\ \A u \in Transfers : u # t => db'.rows[u] = db.rows[u]
    /\ \A u \in Transfers : db'.plan[u] =
          IF u = t /\ db.plan[t] = "executing" /\ PlanActionsEnded(db', t)
          THEN "terminal" ELSE db.plan[u]

LEMMA EndedKeepsTransfer ==
    ASSUME Inv, NEW t \in Transfers, NEW A, NEW its, NEW skip, ActionsEnded(t, A, its, skip)
    PROVE  TransferOk(t)' /\ OnlyTransfer(t)
<1>1. TransferOk(t) /\ JournalOk(db) /\ ActionsOf(t) \subseteq Actions /\ TransferItems(t) \subseteq Items
  BY TransferParts, InvParts, ItemsOfTransfer
<1>2. /\ A \subseteq ActionsOf(t) /\ A # {}
      /\ \A i : i \in its <=> \E b \in A : i \in MembersOf[b]
      /\ \A b \in A : /\ db.action[b].state \notin EndedStates
                      /\ db'.action[b].state = "terminal"
      /\ \A b \in Actions : b \notin A => db'.action[b] = db.action[b]
      /\ db'.upload = db.upload
  BY DEF ActionsEnded
<1>3. \A i \in Items : \/ db'.media[i] = db.media[i]
                       \/ /\ db.media[i] = "planned" /\ db'.media[i] = "skipped"
                          /\ i \in TransferItems(t)
                          /\ GroupOf[i] \in GroupsOf(its) \/ Aborted(t)'
  BY DEF ActionsEnded
<1>4. /\ Applied(db'.rows[t], db.rows[t], t, its, skip)
      /\ \A i \in its : db'.media[i] = "planned" => GroupOf[i] \notin skip
      /\ \A u \in Transfers : u # t => db'.rows[u] = db.rows[u]
      /\ \A u \in Transfers : db'.plan[u] =
            IF u = t /\ db.plan[t] = "executing" /\ PlanActionsEnded(db', t)
            THEN "terminal" ELSE db.plan[u]
  BY DEF ActionsEnded
<1>5. \A b \in ActionsOf(t) : db.action[b].state = "terminal" => db'.action[b].state = "terminal"
  BY <1>1, <1>2 DEF EndedStates
<1>6. \A b \in ActionsOf(t) : ActionOk(b)'
  <2>1. \A b \in ActionsOf(t) : ActionOk(b)
    BY <1>1 DEF TransferOk
  <2>2. QED
    BY <1>1, <1>2, <2>1 DEF ActionOk, UnderWay
<1>7. db.plan[t] # "superseded" /\ db.plan[t] # "terminal" /\ db.plan[t] \in PlanStates
  <2>1. PICK b \in A : TRUE
    BY <1>2
  <2>2. ~PlanActionsEnded(db, t) /\ db.action[b].state # "superseded"
    BY <1>2, <2>1 DEF PlanActionsEnded, EndedStates
  <2>3. PlanOf(t) /\ db.plan[t] \in PlanStates
    BY <1>1, JournalTypes DEF TransferOk
  <2>4. QED
    BY <1>2, <2>1, <2>2, <2>3 DEF PlanOf
<1>8. PlanOf(t)'
  <2>1. db'.plan[t] = IF db.plan[t] = "executing" /\ PlanActionsEnded(db', t)
                      THEN "terminal" ELSE db.plan[t]
    BY <1>4
  <2>2. PlanActionsEnded(db', t) <=> PlanActionsEnded(db, t)'
    BY DEF PlanActionsEnded
  <2>3. QED
    BY <1>7, <2>1, <2>2 DEF PlanOf
<1>9. \A i \in TransferItems(t) :
         IF i \in its THEN db'.rows[t].item[i].state = "terminal"
         ELSE db'.rows[t].item[i] = db.rows[t].item[i]
  BY <1>4 DEF Applied
<1>10. \A g \in GroupTargetsOf(t) :
          /\ g \notin GroupsOf(its) => db'.rows[t].group[g] = db.rows[t].group[g]
          /\ g \in GroupsOf(its) => db'.rows[t].group[g].publication \in PublicationEnded
          /\ g \in GroupsOf(its) /\ g \notin skip /\ db.rows[t].group[g].media = "running" =>
                db'.rows[t].group[g].media = "running" /\ db'.rows[t].group[g].overall = "running"
  BY <1>4 DEF Applied
<1>11. (\E g \in GroupTargetsOf(t) : db'.rows[t].group[g].overall = "running") =>
          /\ db'.rows[t].transfer.outcome = db.rows[t].transfer.outcome
          /\ db.rows[t].transfer.phase = "media" => db'.rows[t].transfer.phase = "media"
  BY <1>4 DEF Applied
<1>12. PublishedOk(t)'
  <2>1. /\ \A i \in TransferItems(t) :
              (\A a \in ActionsOf(t) : i \in MembersOf[a] => db.action[a].state = "terminal")
                 => db.rows[t].item[i].state = "terminal"
        /\ \A g \in GroupTargetsOf(t) :
              (\A a \in ActionsOf(t) : g \in GroupTargets(a) => db.action[a].state = "terminal")
                 => db.rows[t].group[g].publication \in PublicationEnded
    BY <1>1, <1>7 DEF TransferOk, PublishedOk
  <2>2. ASSUME NEW i \in TransferItems(t),
               \A a \in ActionsOf(t) : i \in MembersOf[a] => db'.action[a].state = "terminal"
        PROVE  db'.rows[t].item[i].state = "terminal"
    <3>1. CASE i \in its
      BY <1>9, <3>1
    <3>2. CASE i \notin its
      <4>1. \A a \in ActionsOf(t) : i \in MembersOf[a] => a \notin A
        BY <1>2, <3>2
      <4>2. \A a \in ActionsOf(t) : i \in MembersOf[a] => db.action[a].state = "terminal"
        BY <1>1, <1>2, <2>2, <4>1
      <4>3. QED
        BY <1>9, <2>1, <3>2, <4>2
    <3>3. QED
      BY <3>1, <3>2
  <2>3. ASSUME NEW g \in GroupTargetsOf(t),
               \A a \in ActionsOf(t) : g \in GroupTargets(a) => db'.action[a].state = "terminal"
        PROVE  db'.rows[t].group[g].publication \in PublicationEnded
    <3>1. CASE g \in GroupsOf(its)
      BY <1>10, <3>1
    <3>2. CASE g \notin GroupsOf(its)
      <4>1. \A a \in ActionsOf(t) : g \in GroupTargets(a) => a \notin A
        BY <1>2, <3>2 DEF GroupsOf, GroupTargets
      <4>2. \A a \in ActionsOf(t) : g \in GroupTargets(a) => db.action[a].state = "terminal"
        BY <1>1, <1>2, <2>3, <4>1
      <4>3. QED
        BY <1>10, <2>1, <3>2, <4>2
    <3>3. QED
      BY <3>1, <3>2
  <2>4. QED
    BY <2>2, <2>3 DEF PublishedOk
<1>13. Aborted(t) => Aborted(t)'
  BY <1>1, <1>2 DEF Aborted, EndedStates
<1>14. ASSUME NEW i \in MediaItems, i \in TransferItems(t), InOrder(i), GroupOf[i] \in GroupsOf(its)
       PROVE  db.upload[i].attempt = "none" /\ i \in its
  <2>1. TransferOfItem(i) = t
    BY <1>14, TransferOfThe
  <2>2. PICK b \in A : GroupOf[i] \in GroupTargets(b)
    BY <1>2, <1>14 DEF GroupsOf, GroupTargets
  <2>3. i \in MembersOf[b]
    BY <1>2, <1>14, <2>1, <2>2 DEF InOrder
  <2>4. db.action[b].state # "terminal" /\ b \in ActionsOf(t)
    BY <1>2, <2>2 DEF EndedStates
  <2>5. ~Carried(i)
    BY <2>1, <2>2, <2>4 DEF Carried
  <2>6. InTurn(i)
    BY <1>1, <1>14 DEF TransferOk
  <2>7. QED
    BY <1>2, <1>14, <2>3, <2>5, <2>6 DEF InTurn
<1>15. ASSUME NEW i \in MediaItems, i \in TransferItems(t) PROVE Awaited(i)'
  <2>1. /\ TransferOfItem(i) = t /\ Awaited(i) /\ i \in Items
        /\ GroupOf[i] \in GroupTargetsOf(t)
    BY <1>1, <1>15, TransferOfThe DEF TransferOk, GroupTargetsOf
  <2>2. SUFFICES ASSUME InOrder(i), db'.media[i] \in OpenMediaStates
                 PROVE  /\ GroupRowOf(i)'.media = "running" /\ GroupRowOf(i)'.overall = "running"
                        /\ MediaInFlight(i)' => IsRunning(db.rows[t], {"media"})'
    BY <2>1 DEF Awaited, MediaInFlight, OpenMediaStates
  <2>3. db'.media[i] = db.media[i]
    BY <1>3, <2>1, <2>2 DEF OpenMediaStates
  <2>4. /\ GroupRowOf(i).media = "running" /\ GroupRowOf(i).overall = "running"
        /\ MediaInFlight(i) => IsRunning(db.rows[t], {"media"})
    BY <2>1, <2>2, <2>3 DEF Awaited
  <2>5. GroupRowOf(i) = db.rows[t].group[GroupOf[i]] /\ GroupRowOf(i)' = db'.rows[t].group[GroupOf[i]]
    BY <2>1 DEF GroupRowOf
  <2>6. CASE GroupOf[i] \notin GroupsOf(its)
    <3>1. GroupRowOf(i)' = GroupRowOf(i)
      BY <1>10, <2>1, <2>5, <2>6
    <3>2. /\ db'.rows[t].transfer.outcome = db.rows[t].transfer.outcome
          /\ db.rows[t].transfer.phase = "media" => db'.rows[t].transfer.phase = "media"
      BY <1>11, <2>1, <2>4, <2>5, <3>1
    <3>3. MediaInFlight(i)' => MediaInFlight(i)
      BY <2>3 DEF MediaInFlight
    <3>4. QED
      BY <2>4, <3>1, <3>2, <3>3 DEF IsRunning
  <2>7. CASE GroupOf[i] \in GroupsOf(its)
    <3>1. db.upload[i].attempt = "none" /\ i \in its
      BY <1>14, <1>15, <2>2, <2>7
    <3>2. ~MediaInFlight(i)
      BY <2>1, <3>1, Tried
    <3>3. db'.media[i] = "planned" /\ ~MediaInFlight(i)'
      BY <2>2, <2>3, <3>2 DEF OpenMediaStates, MediaInFlight
    <3>4. GroupOf[i] \notin skip
      BY <1>4, <3>1, <3>3
    <3>5. QED
      BY <1>10, <2>1, <2>4, <2>5, <2>7, <3>3, <3>4
  <2>8. QED
    BY <2>6, <2>7
<1>16. ASSUME NEW i \in MediaItems, i \in TransferItems(t) PROVE Settled(i)'
  <2>1. TransferOfItem(i) = t /\ Settled(i) /\ i \in Items /\ GroupOf[i] \in GroupTargetsOf(t)
    BY <1>1, <1>16, TransferOfThe DEF TransferOk, GroupTargetsOf
  <2>2. SUFFICES ASSUME AttemptedMedia(i)' # {}, GroupMediaEnded(db, i)',
                        \A j \in MediaOfGroup(db, i)' : InOrder(j)
                 PROVE  Settled(i)'
    BY DEF Settled
  <2>3. MediaOfGroup(db, i)' = {j \in TransferItems(t) : GroupOf[j] = GroupOf[i] /\ db'.media[j] # "none"}
    BY <2>1 DEF MediaOfGroup
  <2>4. PICK j \in MediaOfGroup(db, i)' : db.upload[j].attempt # "none"
    BY <1>2, <2>2 DEF AttemptedMedia
  <2>5. GroupOf[i] \notin GroupsOf(its)
    <3>1. j \in TransferItems(t) /\ GroupOf[j] = GroupOf[i] /\ j \in Items /\ db'.media[j] # "none"
      BY <1>1, <2>3, <2>4
    <3>2. db.media[j] # "none"
      BY <1>3, <3>1
    <3>3. j \in MediaItems
      BY <3>1, <3>2, Tried
    <3>4. QED
      BY <1>14, <2>2, <2>4, <3>1, <3>3
  <2>6. db'.rows[t].group[GroupOf[i]] = db.rows[t].group[GroupOf[i]]
    BY <1>10, <2>1, <2>5
  <2>7. CASE \A k \in TransferItems(t) : GroupOf[k] = GroupOf[i] => db'.media[k] = db.media[k]
    <3>1. GroupKept(t, i)
      BY <1>2, <2>6, <2>7 DEF GroupKept
    <3>2. QED
      BY <1>13, <1>16, <2>1, <3>1, SettledKept
  <2>8. ASSUME NEW k \in TransferItems(t), GroupOf[k] = GroupOf[i], db'.media[k] # db.media[k]
        PROVE  Settled(i)'
    <3>1. k \in Items /\ db.media[k] = "planned" /\ db'.media[k] = "skipped" /\ Aborted(t)'
      BY <1>1, <1>3, <2>5, <2>8
    <3>2. k \in MediaItems /\ InOrder(k) /\ TransferOfItem(k) = t
      BY <2>2, <2>3, <2>8, <3>1, Tried, TransferOfThe
    <3>3. Awaited(k)
      BY <1>1, <2>8, <3>2 DEF TransferOk
    <3>4. db.rows[t].group[GroupOf[i]].media = "running"
      BY <2>8, <3>1, <3>2, <3>3 DEF Awaited, GroupRowOf, OpenMediaStates
    <3>5. GroupRowOf(i)'.media = "running"
      BY <2>1, <2>6, <3>4 DEF GroupRowOf
    <3>6. Aborted(TransferOfItem(i))'
      BY <2>1, <3>1 DEF Aborted
    <3>7. QED
      BY <3>5, <3>6 DEF Settled
  <2>9. QED
    BY <2>7, <2>8
<1>17. ASSUME NEW i \in MediaItems, i \in TransferItems(t) PROVE InTurn(i)'
  <2>1. TransferOfItem(i) = t /\ InTurn(i)
    BY <1>1, <1>17, TransferOfThe DEF TransferOk
  <2>2. QED
    BY <1>2, <1>5, <2>1 DEF InTurn, Carried
<1>18. TransferOk(t)'
  BY <1>6, <1>8, <1>12, <1>15, <1>16, <1>17 DEF TransferOk
<1>19. OnlyTransfer(t)
  BY <1>2, <1>3, <1>4 DEF OnlyTransfer, ActionsOf
<1>20. QED
  BY <1>18, <1>19

LEMMA ProductEndsKeepsInv ==
    ASSUME Inv, NEW a \in Actions, ProductEnds(a)
    PROVE  Inv'
<1>1. PICK t \in Transfers : t = TransferOf[a]
  BY MembersOfTransfer
<1>2. PICK class \in [PendingMembers(db, a) -> OutcomeClasses] :
         FinishReconciliationOk(db, a, class) /\ db' = FinishAction(db, a, class)
  BY DEF ProductEnds, OutcomeClasses
<1>3. JournalOk(db) /\ db.identity \in [Vendors -> IdentityRows]
  BY InvParts, JournalTypes
<1>4. /\ db.action[a].state = "reconciling"
      /\ \A i \in PendingMembers(db, a) : db.identity[VendorOf[i]].active = a
  BY <1>2 DEF FinishReconciliationOk, FinishActionOk, RecordMembersOk
<1>5. FinishedAs(db', db, a, t)
  <2>1. DOMAIN class = PendingMembers(db, a) /\ class \in [DOMAIN class -> OutcomeClasses]
    OBVIOUS
  <2>2. QED
    BY <1>1, <1>2, <1>3, <2>1, FinishWritten
<1>6. /\ JournalOk(db')
      /\ \A u \in Transfers : u # t => db'.rows[u] = db.rows[u]
      /\ \A u \in Transfers : db'.plan[u] =
            IF u = t /\ db.plan[t] = "executing" /\ PlanActionsEnded(db', t)
            THEN "terminal" ELSE db.plan[u]
      /\ db'.action[a].state = "terminal"
      /\ \A b \in Actions : b # a => db'.action[b] = db.action[b]
      /\ \A i \in Items : \/ db'.media[i] = db.media[i]
                          \/ i \in MembersOf[a] /\ db.media[i] = "planned" /\ db'.media[i] = "skipped"
      /\ db'.upload = db.upload
      /\ db.attributed \subseteq db'.attributed /\ db'.attributed \subseteq db.attributed \cup MembersOf[a]
      /\ \A v \in Vendors :
            \/ db'.identity[v] = db.identity[v]
            \/ \E i \in PendingMembers(db, a) :
                  VendorOf[i] = v /\ db'.identity[v].active \in {Free, db.identity[v].active}
  BY <1>5 DEF FinishedAs
<1>7. PICK skip \in SUBSET GroupTargets(a) :
         /\ Applied(db'.rows[t], db.rows[t], t, MembersOf[a], skip)
         /\ \A i \in MembersOf[a] : db'.media[i] = "planned" => GroupOf[i] \notin skip
  BY <1>5 DEF FinishedAs
<1>8. ActionsEnded(t, {a}, MembersOf[a], skip)
  <2>1. {a} \subseteq ActionsOf(t) /\ MembersOf[a] \subseteq TransferItems(t)
    BY <1>1, MembersOfTransfer
  <2>2. \A i \in MembersOf[a] : GroupOf[i] \in GroupsOf(MembersOf[a])
    BY DEF GroupsOf
  <2>3. QED
    BY <1>4, <1>6, <1>7, <2>1, <2>2 DEF ActionsEnded, EndedStates
<1>9. ActionsOk' /\ PlanOk' /\ ProjectionOk'
  BY <1>8, EndedKeepsTransfer, OneTransfer
<1>10. RemoteOk' /\ UploadsOk'
  <2>1. UNCHANGED <<visibility, worker, checker, received, sends>>
    BY DEF ProductEnds, others, remote
  <2>2. QED
    BY <1>6, <2>1, SameMemory
<1>11. OwnersOk'
  <2>1. \A i \in Items : MediaInFlight(i)' <=> MediaInFlight(i)
    BY <1>6 DEF MediaInFlight
  <2>2. ASSUME NEW i \in MediaItems
        PROVE  \/ db'.identity[VendorOf[i]].active = db.identity[VendorOf[i]].active
               \/ /\ db'.identity[VendorOf[i]].active \in Actions \cup {Free}
                  /\ db.identity[VendorOf[i]].active \in Actions \cup {Free}
    <3>1. VendorOf[i] \in Vendors
      BY MediaItem
    <3>2. QED
      BY <1>4, <1>6, <3>1
  <2>3. \A b \in Actions : db.action[b].state = "terminal" => db'.action[b].state = "terminal"
    BY <1>6
  <2>4. ASSUME NEW b \in Actions, NEW i \in MembersOf[b], OwnCode(i), IsPresent(i)'
        PROVE  IsPresent(i) \/ db'.action[b].state = "terminal"
    <3>1. VendorOf[i] \in Vendors /\ i \in Items
      BY MembersOfTransfer
    <3>2. CASE db'.identity[VendorOf[i]] = db.identity[VendorOf[i]]
      BY <2>4, <3>2 DEF IsPresent, IdentityOf
    <3>3. ASSUME NEW j \in PendingMembers(db, a), VendorOf[j] = VendorOf[i]
          PROVE  db'.action[b].state = "terminal"
      <4>1. j \in MembersOf[a] /\ j \in Items
        BY MembersOfTransfer DEF PendingMembers
      <4>2. j = i
        BY <2>4, <3>3, <4>1 DEF OwnCode
      <4>3. b = a
        BY <4>1, <4>2, OneOwner
      <4>4. QED
        BY <1>6, <4>3
    <3>4. QED
      BY <1>6, <3>1, <3>2, <3>3
  <2>5. \A i \in db'.attributed \ db.attributed :
           \E b \in Actions : i \in MembersOf[b] /\ db'.action[b].state = "terminal"
    BY <1>6
  <2>6. QED
    BY <1>6, <2>1, <2>2, <2>3, <2>4, <2>5, OwnersKept
<1>12. JournalOk(db)'
  BY <1>6 DEF JournalOk, IsJournal, RowsOk
<1>13. QED
  BY <1>9, <1>10, <1>11, <1>12, InvPartsNext

-----------------------------------------------------------------------------
(* The plan is aborted. *)

AbortedAs(m, d, t) ==
    /\ JournalOk(m)
    /\ m.rows = d.rows /\ m.plan = d.plan /\ m.upload = d.upload /\ m.attributed = d.attributed
    /\ \A v \in Vendors :
          /\ m.identity[v].active = d.identity[v].active
          /\ m.identity[v].state = "remote_present" => d.identity[v].state = "remote_present"
    /\ \A i \in Items :
          m.media[i] = IF i \in PlannedMedia(d, t) THEN "skipped" ELSE d.media[i]
    /\ \A b \in Actions :
          /\ m.action[b].attempt = d.action[b].attempt
          /\ b \in AbortedActions(d, t) => m.action[b].state = "terminal"
          /\ b \notin AbortedActions(d, t) => m.action[b] = d.action[b]

LEMMA AbortedIsTyped ==
    ASSUME NEW d, JournalOk(d), NEW t \in Transfers, NEW m, m = AbortedJournal(d, t)
    PROVE  AbortedAs(m, d, t)
<1>1. /\ IsJournal(d)
      /\ d.action \in [Actions -> ActionRows]
      /\ d.member \in [Items -> Classes \cup {NoClass}]
      /\ d.media \in [Items -> MediaStates]
      /\ d.identity \in [Vendors -> IdentityRows]
  BY JournalTypes
<1>2. PICK identity : identity = [v \in Vendors |->
            IF /\ \E a \in AbortedActions(d, t) : v \in VendorCodes(a)
               /\ Bindable(d.identity[v])
            THEN [d.identity[v] EXCEPT !.state = "blocked_uncertain"]
            ELSE d.identity[v]]
  OBVIOUS
<1>3. PICK member : member = [i \in Items |->
            IF i \in AbortedItems(d, t) THEN "unresolved" ELSE d.member[i]]
  OBVIOUS
<1>4. PICK media : media = [i \in Items |->
            IF i \in PlannedMedia(d, t) THEN "skipped" ELSE d.media[i]]
  OBVIOUS
<1>5. PICK action : action = [b \in Actions |->
            IF b \in AbortedActions(d, t)
            THEN [d.action[b] EXCEPT !.state = "terminal"]
            ELSE d.action[b]]
  OBVIOUS
<1>6. m = [d EXCEPT !.identity = identity, !.member = member, !.media = media, !.action = action]
  BY <1>2, <1>3, <1>4, <1>5 DEF AbortedJournal
<1>7. /\ IsJournal(m) /\ m.rows = d.rows /\ m.plan = d.plan /\ m.auth = d.auth
      /\ m.action = action /\ m.member = member /\ m.media = media
      /\ m.upload = d.upload /\ m.attributed = d.attributed /\ m.identity = identity
  BY <1>1, <1>6 DEF IsJournal
<1>8. ASSUME NEW v \in Vendors
      PROVE  /\ identity[v] \in IdentityRows
             /\ identity[v].active = d.identity[v].active
             /\ identity[v].state = "remote_present" => d.identity[v].state = "remote_present"
  <2>1. PICK old \in IdentityRows : old = d.identity[v]
    BY <1>1
  <2>2. identity[v] = old \/ identity[v] = [old EXCEPT !.state = "blocked_uncertain"]
    BY <1>2, <2>1
  <2>3. QED
    BY <2>1, <2>2 DEF IdentityRows, IdentityStates
<1>9. ASSUME NEW b \in Actions
      PROVE  /\ action[b] \in ActionRows
             /\ action[b].attempt = d.action[b].attempt
             /\ b \in AbortedActions(d, t) => action[b].state = "terminal"
             /\ b \notin AbortedActions(d, t) => action[b] = d.action[b]
  <2>1. PICK old \in ActionRows : old = d.action[b]
    BY <1>1
  <2>2. CASE b \in AbortedActions(d, t)
    <3>1. action[b] = [old EXCEPT !.state = "terminal"]
      BY <1>5, <2>1, <2>2
    <3>2. QED
      BY <2>1, <2>2, <3>1 DEF ActionRows, EndedStates
  <2>3. CASE b \notin AbortedActions(d, t)
    BY <1>5, <2>1, <2>3
  <2>4. QED
    BY <2>2, <2>3
<1>10. JournalOk(m)
  <2>1. identity \in [Vendors -> IdentityRows] /\ action \in [Actions -> ActionRows]
    BY <1>2, <1>5, <1>8, <1>9
  <2>2. member \in [Items -> Classes \cup {NoClass}]
    BY <1>1, <1>3 DEF Classes, AttentionClasses
  <2>3. media \in [Items -> MediaStates]
    BY <1>1, <1>4 DEF MediaStates
  <2>4. ColumnsOk(d)
    BY ColumnsOfJournal
  <2>5. ColumnsOk(m)
    BY <1>7, <2>1, <2>2, <2>3, <2>4 DEF ColumnsOk
  <2>6. QED
    BY <1>7, <2>5, SameRows
<1>11. QED
  BY <1>4, <1>7, <1>8, <1>9, <1>10 DEF AbortedAs

\* What an aborted plan leaves behind.
StoppedAs(e, d, t) ==
    /\ JournalOk(e)
    /\ \E skip : Applied(e.rows[t], d.rows[t], t, AbortedItems(d, t), skip)
    /\ \A u \in Transfers : u # t => e.rows[u] = d.rows[u]
    /\ \A u \in Transfers : e.plan[u] =
          IF u = t /\ d.plan[t] = "executing" /\ PlanActionsEnded(e, t)
          THEN "terminal" ELSE d.plan[u]
    /\ e.upload = d.upload /\ e.attributed = d.attributed
    /\ \A v \in Vendors :
          /\ e.identity[v].active = d.identity[v].active
          /\ e.identity[v].state = "remote_present" => d.identity[v].state = "remote_present"
    /\ \A i \in Items :
          e.media[i] = IF i \in PlannedMedia(d, t) THEN "skipped" ELSE d.media[i]
    /\ \A b \in Actions :
          /\ e.action[b].attempt = d.action[b].attempt
          /\ b \in AbortedActions(d, t) => e.action[b].state = "terminal"
          /\ b \notin AbortedActions(d, t) => e.action[b] = d.action[b]

LEMMA StopWritten ==
    ASSUME NEW d, JournalOk(d), NEW a \in Actions, NEW n, NEW e, e = AbortPlan(d, a, n),
           NEW t, t = TransferOf[a]
    PROVE  StoppedAs(e, d, t)
<1>1. t \in Transfers
  BY MembersOfTransfer
<1>2. PICK m : m = AbortedJournal(d, t)
  OBVIOUS
<1>3. AbortedAs(m, d, t)
  BY <1>1, <1>2, AbortedIsTyped
<1>4. JournalOk(m) /\ m.rows = d.rows /\ m.plan = d.plan
  BY <1>3 DEF AbortedAs
<1>5. PICK p : p = ReducePlan(m, t)
  OBVIOUS
<1>6. /\ JournalOk(p)
      /\ \A u \in Transfers : p.plan[u] =
            IF u = t /\ m.plan[t] = "executing" /\ PlanActionsEnded(m, t)
            THEN "terminal" ELSE m.plan[u]
      /\ p.rows = m.rows /\ p.action = m.action /\ p.member = m.member
      /\ p.media = m.media /\ p.identity = m.identity /\ p.attributed = m.attributed
      /\ p.upload = m.upload
  <2>1. JournalOk(m)
    BY <1>4
  <2>2. QED
    BY <1>1, <1>5, <2>1, PlanReducedTo
<1>7. PICK its : its = AbortedItems(d, t)
  OBVIOUS
<1>8. PICK class : class = AbortedOutcomes(its)
  OBVIOUS
<1>9. PICK groups : groups = UNION {GroupTargets(b) : b \in AbortedActions(d, t)}
  OBVIOUS
<1>10. PICK s : s = p.rows[t]
  OBVIOUS
<1>11. PICK r : r = ApplyPublicationActionResult(s, class, groups)
  OBVIOUS
<1>12. Applied(r, s, t, its, groups)
  <2>1. RowsOk(s, t)
    BY <1>1, <1>6, <1>10, JournalTypes
  <2>2. AbortedActions(d, t) \subseteq ActionsOf(t)
    BY DEF AbortedActions, PlannedActions
  <2>3. its \subseteq TransferItems(t)
    BY <1>7, <2>2 DEF AbortedItems, TransferItems, PublishedItems
  <2>4. groups \subseteq GroupsOf(its)
    BY <1>7, <1>9 DEF AbortedItems, GroupsOf, GroupTargets
  <2>5. class \in [its -> Classes]
    BY <1>8 DEF AbortedOutcomes, Classes, AttentionClasses
  <2>6. ResultOf(r, s, class, groups)
    BY <1>11 DEF ResultOf
  <2>7. QED
    BY <1>1, <2>1, <2>3, <2>4, <2>5, <2>6, ResultApplied
<1>13. PICK rows : rows = [p.rows EXCEPT ![t] = r]
  OBVIOUS
<1>14. PICK q : q = [p EXCEPT !.rows[t] = ApplyPublicationActionResult(@, class, groups)]
  OBVIOUS
<1>15. q = [p EXCEPT !.rows = rows]
  BY <1>10, <1>11, <1>13, <1>14
<1>16. /\ IsJournal(q) /\ q.rows = rows /\ q.plan = p.plan /\ q.auth = p.auth
       /\ q.action = p.action /\ q.member = p.member /\ q.media = p.media
       /\ q.upload = p.upload /\ q.attributed = p.attributed /\ q.identity = p.identity
  <2>1. IsJournal(p)
    BY <1>6, JournalTypes
  <2>2. QED
    BY <1>15, <2>1 DEF IsJournal
<1>17. JournalOk(q) /\ q.rows[t] = r /\ \A u \in Transfers : u # t => q.rows[u] = p.rows[u]
  <2>1. ColumnsOk(p)
    BY <1>6, ColumnsOfJournal
  <2>2. ColumnsOk(q)
    BY <1>16, <2>1 DEF ColumnsOk
  <2>3. OneRow(q, p, t, r)
    BY <1>13, <1>16 DEF OneRow
  <2>4. RowsOk(r, t)
    BY <1>12 DEF Applied
  <2>5. QED
    BY <1>1, <1>6, <2>2, <2>3, <2>4, RowsWritten
<1>18. e = CloseAuthorization(q, t, n)
  BY <1>2, <1>5, <1>7, <1>8, <1>9, <1>14 DEF AbortPlan
<1>19. /\ JournalOk(e)
       /\ e.rows = q.rows /\ e.plan = q.plan /\ e.action = q.action
       /\ e.media = q.media /\ e.identity = q.identity /\ e.attributed = q.attributed
       /\ e.upload = q.upload
  BY <1>1, <1>17, <1>18, AuthorizationClosed
<1>20. /\ e.plan = p.plan /\ e.action = m.action /\ e.media = m.media /\ e.identity = m.identity
       /\ e.attributed = m.attributed /\ e.upload = m.upload
       /\ e.rows[t] = r /\ s = d.rows[t] /\ \A u \in Transfers : u # t => e.rows[u] = d.rows[u]
  BY <1>4, <1>6, <1>10, <1>16, <1>17, <1>19
<1>21. \A u \in Transfers : e.plan[u] =
          IF u = t /\ d.plan[t] = "executing" /\ PlanActionsEnded(e, t)
          THEN "terminal" ELSE d.plan[u]
  <2>1. PlanActionsEnded(e, t) <=> PlanActionsEnded(m, t)
    BY <1>20 DEF PlanActionsEnded
  <2>2. QED
    BY <1>4, <1>6, <1>20, <2>1
<1>22. QED
  BY <1>3, <1>7, <1>12, <1>19, <1>20, <1>21 DEF StoppedAs, AbortedAs


LEMMA AbortKeepsInv ==
    ASSUME Inv, NEW a \in Actions, NEW n, AbortPlanOk(db, a), db' = AbortPlan(db, a, n),
           UNCHANGED <<visibility, worker, checker, received, sends>>
    PROVE  Inv'
<1>1. PICK t \in Transfers : t = TransferOf[a]
  BY MembersOfTransfer
<1>2. JournalOk(db) /\ TransferOk(t)
  BY <1>1, InvParts, TransferParts
<1>3. StoppedAs(db', db, t)
  BY <1>1, <1>2, StopWritten
<1>4. /\ JournalOk(db')
      /\ \A u \in Transfers : u # t => db'.rows[u] = db.rows[u]
      /\ \A u \in Transfers : db'.plan[u] =
            IF u = t /\ db.plan[t] = "executing" /\ PlanActionsEnded(db', t)
            THEN "terminal" ELSE db.plan[u]
      /\ db'.upload = db.upload /\ db'.attributed = db.attributed
      /\ \A v \in Vendors :
            /\ db'.identity[v].active = db.identity[v].active
            /\ db'.identity[v].state = "remote_present" => db.identity[v].state = "remote_present"
  BY <1>3 DEF StoppedAs
<1>5. /\ \A i \in Items :
            db'.media[i] = IF i \in PlannedMedia(db, t) THEN "skipped" ELSE db.media[i]
      /\ \A b \in Actions :
            /\ db'.action[b].attempt = db.action[b].attempt
            /\ b \in AbortedActions(db, t) => db'.action[b].state = "terminal"
            /\ b \notin AbortedActions(db, t) => db'.action[b] = db.action[b]
  BY <1>3 DEF StoppedAs
<1>6. PICK skip : Applied(db'.rows[t], db.rows[t], t, AbortedItems(db, t), skip)
  BY <1>3 DEF StoppedAs
<1>7. /\ a \in ActionsOf(t) /\ db.action[a].state = "planned"
      /\ a \in AbortedActions(db, t) /\ AbortedActions(db, t) \subseteq ActionsOf(t)
      /\ \A b \in AbortedActions(db, t) : db.action[b].state = "planned"
  BY <1>1, MembersOfTransfer DEF AbortPlanOk, AbortedActions, PlannedActions
<1>8. Aborted(t)'
  <2>1. db.action[a].attempt = "none"
    BY <1>2, <1>7 DEF TransferOk, ActionOk
  <2>2. QED
    BY <1>5, <1>7, <2>1 DEF Aborted
<1>9. AbortedItems(db, t) \subseteq TransferItems(t) /\ TransferItems(t) \subseteq Items
  BY <1>7, ItemsOfTransfer DEF AbortedItems, TransferItems, PublishedItems
<1>10. /\ \A i \in Items : i \in PlannedMedia(db, t) <=> i \in TransferItems(t) /\ db.media[i] = "planned"
       /\ \A i : i \in AbortedItems(db, t) <=> \E b \in AbortedActions(db, t) : i \in MembersOf[b]
  BY <1>9 DEF PlannedMedia, AbortedItems
<1>11. \A i \in AbortedItems(db, t) : db'.media[i] # "planned"
  BY <1>5, <1>9, <1>10
<1>12. \A i \in Items : \/ db'.media[i] = db.media[i]
                        \/ /\ db.media[i] = "planned" /\ db'.media[i] = "skipped"
                           /\ i \in TransferItems(t)
  BY <1>5, <1>10
<1>13. ActionsEnded(t, AbortedActions(db, t), AbortedItems(db, t), skip)
  <2>1. AbortedActions(db, t) \subseteq ActionsOf(t) /\ AbortedActions(db, t) # {}
    BY <1>7
  <2>2. \A b \in AbortedActions(db, t) :
           db.action[b].state \notin EndedStates /\ db'.action[b].state = "terminal"
    <3>1. AbortedActions(db, t) \subseteq Actions
      BY <1>7, ItemsOfTransfer
    <3>2. QED
      BY <1>5, <1>7, <3>1 DEF EndedStates
  <2>3. \A i \in Items : \/ db'.media[i] = db.media[i]
                         \/ /\ db.media[i] = "planned" /\ db'.media[i] = "skipped"
                            /\ i \in TransferItems(t)
                            /\ GroupOf[i] \in GroupsOf(AbortedItems(db, t)) \/ Aborted(t)'
    BY <1>8, <1>12
  <2>4. \A i \in AbortedItems(db, t) : db'.media[i] = "planned" => GroupOf[i] \notin skip
    BY <1>11
  <2>5. \A b \in Actions : b \notin AbortedActions(db, t) => db'.action[b] = db.action[b]
    BY <1>5
  <2>6. QED
    BY <1>4, <1>6, <1>10, <2>1, <2>2, <2>3, <2>4, <2>5 DEF ActionsEnded
<1>14. ActionsOk' /\ PlanOk' /\ ProjectionOk'
  BY <1>13, EndedKeepsTransfer, OneTransfer
<1>15. RemoteOk' /\ UploadsOk'
  BY <1>4, <1>12, SameMemory
<1>16. OwnersOk'
  <2>1. \A i \in Items : MediaInFlight(i)' <=> MediaInFlight(i)
    BY <1>12 DEF MediaInFlight
  <2>2. \A b \in Actions : db.action[b].state = "terminal" => db'.action[b].state = "terminal"
    BY <1>5
  <2>3. \A i \in Items : IsPresent(i)' => IsPresent(i)
    BY <1>4, Assumed DEF IsPresent, IdentityOf
  <2>4. \A b \in Actions : MembersOf[b] \subseteq Items
    BY MembersOfTransfer
  <2>5. \A i \in MediaItems : db'.identity[VendorOf[i]].active = db.identity[VendorOf[i]].active
    BY <1>4, MediaItem
  <2>6. QED
    BY <1>4, <2>1, <2>2, <2>3, <2>4, <2>5, OwnersKept
<1>17. JournalOk(db)'
  BY <1>4 DEF JournalOk, IsJournal, RowsOk
<1>18. QED
  BY <1>14, <1>15, <1>16, <1>17, InvPartsNext


-----------------------------------------------------------------------------
(* The plan is withdrawn. *)

\* ResetPublicationPlanning.
LEMMA PlanningReset ==
    ASSUME NEW t \in Transfers, NEW s, RowsOk(s, t),
           NEW r, r = ResetPublicationPlanning(s, ThePlan)
    PROVE  RowsOk(r, t)
<1> DEFINE freshGroup == [InitialGroup EXCEPT !.preparation = "succeeded"]
           freshItem == [InitialItem EXCEPT !.state = "running"]
<1>1. /\ s = [transfer |-> s.transfer, group |-> s.group, item |-> s.item]
      /\ s.transfer \in TransferRows
      /\ s.group \in [GroupTargetsOf(t) -> GroupRows]
      /\ s.item \in [TransferItems(t) -> ItemRows]
  BY DEF RowsOk
<1>2. PICK group : group = [g \in DOMAIN s.group |->
            IF g \in PlanGroups(s, ThePlan) THEN freshGroup ELSE s.group[g]]
  OBVIOUS
<1>3. PICK item : item = [i \in DOMAIN s.item |->
            IF GroupOf[i] \in PlanGroups(s, ThePlan) THEN freshItem ELSE s.item[i]]
  OBVIOUS
<1>4. r = [s EXCEPT !.group = group, !.item = item]
  BY <1>2, <1>3 DEF ResetPublicationPlanning
<1>5. r = [transfer |-> s.transfer, group |-> group, item |-> item]
  BY <1>1, <1>4
<1>6. freshGroup \in GroupRows
  BY DEF InitialGroup, GroupRows, GroupColumn
<1>7. freshItem \in ItemRows
  BY DEF InitialItem, ItemRows
<1>8. group \in [GroupTargetsOf(t) -> GroupRows]
  BY <1>1, <1>2, <1>6
<1>9. item \in [TransferItems(t) -> ItemRows]
  BY <1>1, <1>3, <1>7
<1>10. QED
  BY <1>1, <1>5, <1>8, <1>9 DEF RowsOk

\* What a plan that is withdrawn leaves behind.
WithdrawnAs(e, d, t) ==
    /\ JournalOk(e)
    /\ \A u \in Transfers : u # t => e.rows[u] = d.rows[u] /\ e.plan[u] = d.plan[u]
    /\ e.plan[t] = "superseded"
    /\ e.upload = d.upload /\ e.attributed = d.attributed /\ e.identity = d.identity
    /\ \A i \in Items :
          e.media[i] = IF i \in PlannedMedia(d, t) THEN "superseded" ELSE d.media[i]
    /\ \A b \in Actions :
          /\ b \in ActionsOf(t) => e.action[b].state = "superseded"
          /\ b \notin ActionsOf(t) => e.action[b] = d.action[b]

LEMMA WithdrawWritten ==
    ASSUME NEW d, JournalOk(d), NEW a \in Actions, NEW n, NEW e, e = SupersedePlan(d, a, n),
           NEW t, t = TransferOf[a]
    PROVE  WithdrawnAs(e, d, t)
<1>1. t \in Transfers
  BY MembersOfTransfer
<1>2. /\ IsJournal(d) /\ d.plan \in [Transfers -> PlanStates]
      /\ d.action \in [Actions -> ActionRows]
      /\ d.member \in [Items -> Classes \cup {NoClass}]
      /\ d.media \in [Items -> MediaStates]
      /\ d.rows = [u \in Transfers |-> d.rows[u]] /\ RowsOk(d.rows[t], t)
  BY <1>1, JournalTypes
<1>3. PICK state : state = IF d.auth[t][n] = "overdue" THEN "expired" ELSE "superseded"
  OBVIOUS
<1>4. PICK x : x = [d.auth[t] EXCEPT ![n] = state]
  OBVIOUS
<1>5. PICK auth : auth = [d.auth EXCEPT ![t] = x]
  OBVIOUS
<1>6. PICK action : action = [b \in Actions |->
            IF b \in ActionsOf(t) THEN [d.action[b] EXCEPT !.state = "superseded"]
            ELSE d.action[b]]
  OBVIOUS
<1>7. PICK media : media = [i \in Items |->
            IF i \in PlannedMedia(d, t) THEN "superseded" ELSE d.media[i]]
  OBVIOUS
<1>8. PICK member : member = [i \in Items |->
            IF i \in TransferItems(t) THEN "skipped" ELSE d.member[i]]
  OBVIOUS
<1>9. PICK plan : plan = [d.plan EXCEPT ![t] = "superseded"]
  OBVIOUS
<1>10. PICK r : r = ResetPublicationPlanning(d.rows[t], ThePlan)
  OBVIOUS
<1>11. PICK rows : rows = [d.rows EXCEPT ![t] = r]
  OBVIOUS
<1>12. e = [d EXCEPT !.auth = auth, !.action = action, !.media = media,
                     !.member = member, !.plan = plan, !.rows = rows]
  BY <1>3, <1>4, <1>5, <1>6, <1>7, <1>8, <1>9, <1>10, <1>11 DEF SupersedePlan
<1>13. /\ IsJournal(e) /\ e.rows = rows /\ e.plan = plan /\ e.auth = auth
       /\ e.action = action /\ e.member = member /\ e.media = media
       /\ e.upload = d.upload /\ e.attributed = d.attributed /\ e.identity = d.identity
  BY <1>2, <1>12 DEF IsJournal
<1>14. AuthColumn(auth)
  <2>1. PICK s : s = d.auth[t]
    OBVIOUS
  <2>2. AuthsOk(s) /\ state \in AuthStates
    BY <1>1, <1>3, <2>1, JournalTypes DEF AuthStates
  <2>3. AuthsOk(x)
    <3>1. x = [s EXCEPT ![n] = state]
      BY <1>4, <2>1
    <3>2. QED
      BY <2>2, <3>1, EpisodeWritten
  <2>4. PICK old : old = d.auth
    OBVIOUS
  <2>5. old = [u \in Transfers |-> old[u]] /\ \A u \in Transfers : AuthsOk(old[u])
    BY <2>4, JournalTypes DEF AuthColumn
  <2>6. auth = [u \in Transfers |-> IF u = t THEN x ELSE old[u]]
    BY <1>5, <2>4, <2>5
  <2>7. QED
    BY <2>3, <2>5, <2>6 DEF AuthColumn
<1>15. ASSUME NEW b \in Actions
       PROVE  /\ action[b] \in ActionRows
              /\ b \in ActionsOf(t) => action[b].state = "superseded"
              /\ b \notin ActionsOf(t) => action[b] = d.action[b]
  <2>1. PICK old \in ActionRows : old = d.action[b]
    BY <1>2
  <2>2. CASE b \in ActionsOf(t)
    <3>1. action[b] = [old EXCEPT !.state = "superseded"]
      BY <1>6, <2>1, <2>2
    <3>2. QED
      BY <2>1, <2>2, <3>1 DEF ActionRows, EndedStates
  <2>3. CASE b \notin ActionsOf(t)
    BY <1>6, <2>1, <2>3
  <2>4. QED
    BY <2>2, <2>3
<1>16. ColumnsOk(e)
  <2>1. ColumnsOk(d)
    BY ColumnsOfJournal
  <2>2. action \in [Actions -> ActionRows]
    BY <1>6, <1>15
  <2>3. plan \in [Transfers -> PlanStates]
    BY <1>2, <1>9 DEF PlanStates
  <2>4. media \in [Items -> MediaStates]
    BY <1>2, <1>7 DEF MediaStates
  <2>5. member \in [Items -> Classes \cup {NoClass}]
    BY <1>2, <1>8 DEF Classes
  <2>6. QED
    BY <1>13, <1>14, <2>1, <2>2, <2>3, <2>4, <2>5 DEF ColumnsOk
<1>17. JournalOk(e) /\ e.rows[t] = r /\ \A u \in Transfers : u # t => e.rows[u] = d.rows[u]
  <2>1. RowsOk(r, t)
    BY <1>1, <1>2, <1>10, PlanningReset
  <2>2. OneRow(e, d, t, r)
    BY <1>11, <1>13 DEF OneRow
  <2>3. QED
    BY <1>1, <1>16, <2>1, <2>2, RowsWritten
<1>18. QED
  BY <1>1, <1>2, <1>7, <1>9, <1>13, <1>15, <1>17 DEF WithdrawnAs

LEMMA WithdrawKeepsInv ==
    ASSUME Inv, NEW a \in Actions, NEW n, SupersedePlanOk(db, a, n), db' = SupersedePlan(db, a, n),
           UNCHANGED <<visibility, worker, checker, received, sends>>
    PROVE  Inv'
<1>1. PICK t \in Transfers : t = TransferOf[a]
  BY MembersOfTransfer
<1>2. JournalOk(db) /\ TransferItems(t) \subseteq Items /\ ActionsOf(t) \subseteq Actions
  BY <1>1, InvParts, ItemsOfTransfer
<1>3. WithdrawnAs(db', db, t)
  BY <1>1, <1>2, WithdrawWritten
<1>4. /\ JournalOk(db')
      /\ \A u \in Transfers : u # t => db'.rows[u] = db.rows[u] /\ db'.plan[u] = db.plan[u]
      /\ db'.plan[t] = "superseded"
      /\ db'.upload = db.upload /\ db'.attributed = db.attributed /\ db'.identity = db.identity
      /\ \A i \in Items :
            db'.media[i] = IF i \in PlannedMedia(db, t) THEN "superseded" ELSE db.media[i]
      /\ \A b \in Actions :
            /\ b \in ActionsOf(t) => db'.action[b].state = "superseded"
            /\ b \notin ActionsOf(t) => db'.action[b] = db.action[b]
  BY <1>3 DEF WithdrawnAs
<1>5. /\ \A i \in TransferItems(t) : db.upload[i].attempt = "none"
      /\ \A b \in ActionsOf(t) : db.action[b].state = "planned"
      /\ \A i \in TransferItems(t) \cap MediaItems : db.media[i] = "planned"
  BY <1>1 DEF SupersedePlanOk, PlanAttempted, PlannedActions
<1>6. \A i \in TransferItems(t) : db'.media[i] \notin OpenMediaStates
  <2>1. ASSUME NEW i \in TransferItems(t), i \notin MediaItems PROVE db.media[i] = "none"
    BY <1>2, <2>1, Tried
  <2>2. ASSUME NEW i \in TransferItems(t)
        PROVE  db'.media[i] = "superseded" \/ db'.media[i] = "none"
    BY <1>2, <1>4, <1>5, <2>1 DEF PlannedMedia
  <2>3. QED
    BY <2>2 DEF OpenMediaStates
<1>7. \A i \in Items : \/ db'.media[i] = db.media[i]
                       \/ /\ db.media[i] = "planned" /\ db'.media[i] = "superseded"
                          /\ i \in TransferItems(t)
  BY <1>4 DEF PlannedMedia
<1>8. TransferOk(t)'
  <2>1. \A b \in ActionsOf(t) : ActionOk(b)'
    BY <1>2, <1>4 DEF ActionOk, UnderWay
  <2>2. PlanOf(t)'
    BY <1>2, <1>4, <1>5, <1>6 DEF PlanOf
  <2>3. PublishedOk(t)'
    BY <1>4 DEF PublishedOk
  <2>4. ASSUME NEW i \in MediaItems, i \in TransferItems(t)
        PROVE  InTurn(i)' /\ Awaited(i)' /\ Settled(i)'
    <3>1. TransferOfItem(i) = t
      BY <2>4, TransferOfThe
    <3>2. InTurn(i)'
      BY <1>4, <1>5, <2>4 DEF InTurn
    <3>3. Awaited(i)'
      BY <1>6, <2>4 DEF Awaited, MediaInFlight, OpenMediaStates
    <3>4. AttemptedMedia(i)' = {}
      BY <1>4, <1>5, <3>1 DEF AttemptedMedia, MediaOfGroup
    <3>5. Settled(i)'
      BY <3>4 DEF Settled
    <3>6. QED
      BY <3>2, <3>3, <3>5
  <2>5. QED
    BY <2>1, <2>2, <2>3, <2>4 DEF TransferOk
<1>9. OnlyTransfer(t)
  BY <1>4, <1>7 DEF OnlyTransfer, ActionsOf
<1>10. ActionsOk' /\ PlanOk' /\ ProjectionOk'
  BY <1>8, <1>9, OneTransfer
<1>11. RemoteOk' /\ UploadsOk'
  BY <1>4, <1>7, SameMemory
<1>12. OwnersOk'
  <2>1. \A i \in Items : MediaInFlight(i)' <=> MediaInFlight(i)
    BY <1>7 DEF MediaInFlight
  <2>2. \A b \in Actions : db.action[b].state = "terminal" => db'.action[b].state = "terminal"
    BY <1>4, <1>5
  <2>3. \A i \in Items : IsPresent(i)' <=> IsPresent(i)
    BY <1>4 DEF IsPresent, IdentityOf
  <2>4. \A b \in Actions : MembersOf[b] \subseteq Items
    BY MembersOfTransfer
  <2>5. QED
    BY <1>4, <2>1, <2>2, <2>3, <2>4, OwnersKept
<1>13. JournalOk(db)'
  BY <1>4 DEF JournalOk, IsJournal, RowsOk
<1>14. QED
  BY <1>10, <1>11, <1>12, <1>13, InvPartsNext

LEMMA PlanStopsKeepsInv ==
    ASSUME Inv, NEW a \in Actions, PlanStops(a)
    PROVE  Inv'
<1>1. UNCHANGED <<visibility, worker, checker, received, sends>>
  BY DEF PlanStops, others, remote
<1>2. PICK n : \/ SupersedePlanOk(db, a, n) /\ db' = SupersedePlan(db, a, n)
               \/ AbortPlanOk(db, a) /\ db' = AbortPlan(db, a, n)
  BY DEF PlanStops
<1>3. CASE SupersedePlanOk(db, a, n) /\ db' = SupersedePlan(db, a, n)
  BY <1>1, <1>3, WithdrawKeepsInv
<1>4. CASE AbortPlanOk(db, a) /\ db' = AbortPlan(db, a, n)
  BY <1>1, <1>4, AbortKeepsInv
<1>5. QED
  BY <1>2, <1>3, <1>4


-----------------------------------------------------------------------------
(* An upload gets, or stays, under way. *)

\* The upload of i is written, and no other.
OnlyUpload(i) ==
    /\ \A j \in Items : j # i => db'.media[j] = db.media[j] /\ db'.upload[j] = db.upload[j]
    /\ db'.action = db.action
    /\ \A u \in Transfers : u # TransferOfItem(i) =>
          db'.rows[u] = db.rows[u] /\ db'.plan[u] = db.plan[u]

LEMMA OnlyUploadOfTransfer ==
    ASSUME NEW i \in MediaItems, OnlyUpload(i)
    PROVE  OnlyTransfer(TransferOfItem(i))
BY MediaItem DEF OnlyUpload, OnlyTransfer

LEMMA UploadUnderWay ==
    ASSUME Inv, NEW i \in MediaItems, NEW t \in Transfers, t = TransferOfItem(i),
           OnlyUpload(i), db.media[i] \in OpenMediaStates,
           db'.media[i] \in UnderWay, db'.upload[i].attempt # "none",
           db.plan[t] # "superseded", db'.plan[t] \notin {"terminal", "superseded"},
           PhaseMoved(db'.rows[t], db.rows[t]),
           InOrder(i) => Carried(i) /\ IsRunning(db'.rows[t], {"media"})
    PROVE  ActionsOk' /\ PlanOk' /\ ProjectionOk'
<1>1. /\ TransferOk(t) /\ i \in TransferItems(t)
      /\ TransferItems(t) \subseteq Items /\ ActionsOf(t) \subseteq Actions
  BY MediaItem, TransferParts, ItemsOfTransfer
<1>2. /\ \A j \in Items : j # i => db'.media[j] = db.media[j] /\ db'.upload[j] = db.upload[j]
      /\ db'.action = db.action
  BY DEF OnlyUpload
<1>3. \A b \in ActionsOf(t) : ActionOk(b)'
  BY <1>1, <1>2 DEF TransferOk, ActionOk
<1>4. PlanOf(t)'
  <2>1. ~PlanActionsEnded(db, t)'
    BY <1>1 DEF PlanActionsEnded, UnderWay, OpenMediaStates
  <2>2. QED
    BY <2>1 DEF PlanOf
<1>5. PublishedOk(t)'
  BY <1>1, <1>2 DEF TransferOk, PublishedOk, PhaseMoved
<1>6. ASSUME NEW j \in MediaItems, j \in TransferItems(t), j # i
      PROVE  InTurn(j)' /\ Awaited(j)'
  <2>1. TransferOfItem(j) = t /\ InTurn(j) /\ Awaited(j)
    BY <1>1, <1>6, TransferOfThe DEF TransferOk
  <2>2. db'.media[j] = db.media[j] /\ db'.upload[j] = db.upload[j]
    BY <1>1, <1>2, <1>6
  <2>3. InTurn(j)'
    BY <1>2, <2>1, <2>2 DEF InTurn, Carried
  <2>4. Awaited(j)'
    BY <2>1, <2>2 DEF Awaited, GroupRowOf, MediaInFlight, IsRunning, PhaseMoved
  <2>5. QED
    BY <2>3, <2>4
<1>7. InTurn(i)' /\ Awaited(i)'
  <2>1. InTurn(i)'
    BY <1>2 DEF InTurn, Carried
  <2>2. Awaited(i)
    BY <1>1 DEF TransferOk
  <2>3. InOrder(i) =>
           db.rows[t].group[GroupOf[i]].media = "running" /\ db.rows[t].group[GroupOf[i]].overall = "running"
    BY <2>2 DEF Awaited, GroupRowOf
  <2>4. db'.rows[t].group = db.rows[t].group
    BY DEF PhaseMoved
  <2>5. Awaited(i)'
    BY <2>3, <2>4 DEF Awaited, GroupRowOf, IsRunning
  <2>6. QED
    BY <2>1, <2>5
<1>8. ASSUME NEW j \in MediaItems, j \in TransferItems(t) PROVE Settled(j)'
  <2>1. TransferOfItem(j) = t /\ Settled(j)
    BY <1>1, <1>8, TransferOfThe DEF TransferOk
  <2>2. CASE GroupOf[j] = GroupOf[i]
    <3>1. i \in MediaOfGroup(db, j)'
      BY <1>1, <2>1, <2>2 DEF MediaOfGroup, UnderWay
    <3>2. ~GroupMediaEnded(db, j)'
      BY <3>1 DEF GroupMediaEnded, UnderWay, OpenMediaStates
    <3>3. QED
      BY <3>2 DEF Settled
  <2>3. CASE GroupOf[j] # GroupOf[i]
    <3>1. GroupKept(t, j)
      BY <1>1, <1>2, <2>3 DEF GroupKept, PhaseMoved
    <3>2. Aborted(t) => Aborted(t)'
      BY <1>2 DEF Aborted
    <3>3. QED
      BY <1>8, <2>1, <3>1, <3>2, SettledKept
  <2>4. QED
    BY <2>2, <2>3
<1>9. TransferOk(t)'
  BY <1>3, <1>4, <1>5, <1>6, <1>7, <1>8 DEF TransferOk
<1>10. QED
  BY <1>9, OnlyUploadOfTransfer, OneTransfer

\* BeginMediaAttempt.
UploadBegunAs(e, d, i, t) ==
    /\ JournalOk(e)
    /\ PhaseMoved(e.rows[t], d.rows[t]) /\ e.rows[t].transfer.phase = "media"
    /\ \A u \in Transfers : u # t => e.rows[u] = d.rows[u] /\ e.plan[u] = d.plan[u]
    /\ e.plan[t] = "executing"
    /\ e.action = d.action /\ e.attributed = d.attributed
    /\ e.media[i] = "dispatching" /\ e.upload[i].attempt = "open"
    /\ \A j \in Items : j # i => e.media[j] = d.media[j] /\ e.upload[j] = d.upload[j]
    /\ e.identity[VendorOf[i]].active = i
    /\ \A v \in Vendors : e.identity[v].state = d.identity[v].state
    /\ \A v \in Vendors : v # VendorOf[i] => e.identity[v] = d.identity[v]

LEMMA UploadBeginWritten ==
    ASSUME NEW d, JournalOk(d), NEW i \in MediaItems, NEW n \in 0..MaxAuths,
           NEW t, t = TransferOfItem(i), NEW e, e = BeginMediaAttempt(d, i, n)
    PROVE  UploadBegunAs(e, d, i, t)
<1>1. t \in Transfers /\ i \in Items /\ VendorOf[i] \in Vendors /\ "media" \in ExecutingPhases
  BY MediaItem DEF ExecutingPhases
<1>2. /\ IsJournal(d) /\ d.plan \in [Transfers -> PlanStates]
      /\ d.media \in [Items -> MediaStates] /\ d.upload \in [Items -> UploadRows]
      /\ d.identity \in [Vendors -> IdentityRows] /\ RowsOk(d.rows[t], t)
  BY <1>1, JournalTypes
<1>3. PICK old \in IdentityRows : old = d.identity[VendorOf[i]]
  BY <1>1, <1>2
<1>4. PICK row : row = [old EXCEPT !.active = i]
  OBVIOUS
<1>5. row \in IdentityRows /\ row.active = i /\ row.state = old.state
  BY <1>1, <1>3, <1>4 DEF IdentityRows
<1>6. PICK identity : identity = [d.identity EXCEPT ![VendorOf[i]] = row]
  OBVIOUS
<1>7. PICK media : media = [d.media EXCEPT ![i] = "dispatching"]
  OBVIOUS
<1>8. PICK attempt : attempt = [auth |-> n, attempt |-> "open"]
  OBVIOUS
<1>9. PICK upload : upload = [d.upload EXCEPT ![i] = attempt]
  OBVIOUS
<1>10. PICK plan : plan = [d.plan EXCEPT ![t] = "executing"]
  OBVIOUS
<1>11. PICK r : r = BeginPublicationMedia(d.rows[t])
  OBVIOUS
<1>12. PICK rows : rows = [d.rows EXCEPT ![t] = r]
  OBVIOUS
<1>13. e = [d EXCEPT !.identity = identity, !.media = media, !.upload = upload,
                     !.plan = plan, !.rows = rows]
  BY <1>3, <1>4, <1>6, <1>7, <1>8, <1>9, <1>10, <1>11, <1>12 DEF BeginMediaAttempt
<1>14. /\ IsJournal(e) /\ e.rows = rows /\ e.plan = plan /\ e.auth = d.auth
       /\ e.action = d.action /\ e.member = d.member /\ e.media = media
       /\ e.upload = upload /\ e.attributed = d.attributed /\ e.identity = identity
  BY <1>2, <1>13 DEF IsJournal
<1>15. RowsOk(r, t) /\ PhaseMoved(r, d.rows[t]) /\ r.transfer.phase = "media"
  <2>1. PICK s : s = d.rows[t]
    OBVIOUS
  <2>2. RowsOk(s, t) /\ AtPhase(r, s, "media")
    BY <1>2, <1>11, <2>1 DEF AtPhase, BeginPublicationMedia
  <2>3. /\ RowsOk(r, t) /\ r.group = s.group /\ r.item = s.item
        /\ r.transfer.phase = "media" /\ r.transfer.outcome = s.transfer.outcome
    BY <1>1, <2>2, PhaseWritten
  <2>4. QED
    BY <2>1, <2>3 DEF PhaseMoved
<1>16. ColumnsOk(e)
  <2>1. ColumnsOk(d)
    BY ColumnsOfJournal
  <2>2. identity \in [Vendors -> IdentityRows] /\ plan \in [Transfers -> PlanStates]
    BY <1>2, <1>5, <1>6, <1>10 DEF PlanStates
  <2>3. media \in [Items -> MediaStates]
    BY <1>2, <1>7 DEF MediaStates, TriedStates, UnderWay
  <2>4. upload \in [Items -> UploadRows]
    BY <1>2, <1>8, <1>9 DEF UploadRows
  <2>5. QED
    BY <1>14, <2>1, <2>2, <2>3, <2>4 DEF ColumnsOk
<1>17. JournalOk(e) /\ e.rows[t] = r /\ \A u \in Transfers : u # t => e.rows[u] = d.rows[u]
  <2>1. OneRow(e, d, t, r)
    BY <1>12, <1>14 DEF OneRow
  <2>2. QED
    BY <1>1, <1>15, <1>16, <2>1, RowsWritten
<1>18. /\ e.media[i] = "dispatching" /\ e.upload[i].attempt = "open" /\ e.plan[t] = "executing"
       /\ \A j \in Items : j # i => e.media[j] = d.media[j] /\ e.upload[j] = d.upload[j]
       /\ \A u \in Transfers : u # t => e.plan[u] = d.plan[u]
  BY <1>1, <1>2, <1>7, <1>8, <1>9, <1>10, <1>14
<1>19. /\ e.identity[VendorOf[i]].active = i
       /\ \A v \in Vendors : e.identity[v].state = d.identity[v].state
       /\ \A v \in Vendors : v # VendorOf[i] => e.identity[v] = d.identity[v]
  BY <1>1, <1>2, <1>3, <1>5, <1>6, <1>14
<1>20. QED
  BY <1>14, <1>15, <1>17, <1>18, <1>19 DEF UploadBegunAs


\* What the lock on the action has seen.
LEMMA Locked ==
    ASSUME NEW d, NEW i, LockMediaActionOk(d, i)
    PROVE  /\ IdentityOf(d, i).state = "remote_present"
           /\ i \in d.attributed \cup Replanned
           /\ d.media[i] \in OpenMediaStates
           /\ d.media[i] = "planned" => IdentityOf(d, i).active = Free
           /\ d.media[i] \in UnderWay => IdentityOf(d, i).active = i
           /\ i \in Replanned \/ d.action[ActionOf(i)].state = "terminal"
<1>1. PICK row \in JoinedRows(i) : LockRowOk(d, i, row)
  BY DEF LockMediaActionOk
<1>2. /\ RowMatches(d, i, row)
      /\ row = "product" <=> i \in d.attributed
      /\ IdentityOf(d, i).state = "remote_present"
      /\ \/ d.media[i] = "planned" /\ IdentityOf(d, i).active = Free
         \/ d.media[i] \in UnderWay /\ IdentityOf(d, i).active = i
  BY <1>1 DEF LockRowOk, UnderWay
<1>3. row = "superseded" => i \in Replanned
  BY <1>1 DEF JoinedRows
<1>4. row = "superseded" \/ (row = "product" /\ d.action[ActionOf(i)].state = "terminal")
  BY <1>2 DEF RowMatches
<1>5. QED
  BY <1>2, <1>3, <1>4 DEF UnderWay, OpenMediaStates

\* The lock lets no upload in before its turn, if it is in order.
LEMMA LockedInTurn ==
    ASSUME Inv, NEW i \in MediaItems, LockMediaActionOk(db, i), InOrder(i)
    PROVE  Carried(i)
<1>1. ASSUME NEW a \in ActionsOf(TransferOfItem(i)), GroupOf[i] \in GroupTargets(a)
      PROVE  db.action[a].state = "terminal"
  <2>1. i \in MembersOf[a] /\ (i \in Replanned => OwnCode(i))
    BY <1>1 DEF InOrder
  <2>2. a \in Actions /\ ActionOf(i) = a
    BY <1>1, <2>1, MediaItem, ItemsOfTransfer, ActionOfMember DEF ActionsOf
  <2>3. CASE i \in Replanned
    <3>1. IsPresent(i)
      BY Locked DEF IsPresent
    <3>2. MadeBy(a)
      BY <2>2, InvParts DEF OwnersOk
    <3>3. QED
      BY <2>1, <2>3, <3>1, <3>2 DEF MadeBy
  <2>4. CASE i \notin Replanned
    BY <2>2, <2>4, Locked
  <2>5. QED
    BY <2>3, <2>4
<1>2. QED
  BY <1>1 DEF Carried

LEMMA BeginUploadKeepsInv ==
    ASSUME Inv, NEW i \in MediaItems, BeginUpload(i)
    PROVE  Inv'
<1>1. PICK t \in Transfers : t = TransferOfItem(i)
  BY MediaItem
<1>2. /\ JournalOk(db) /\ RemoteOk /\ UploadsOk /\ OwnersOk
      /\ i \in Items /\ VendorOf[i] \in Vendors
  BY InvParts, MediaItem
<1>3. /\ worker[i].step = "decide"
      /\ LockMediaActionOk(db, i) /\ db.media[i] = "planned"
      /\ db.plan[t] \in {"awaiting_authorization", "executing"}
      /\ IsRunning(db.rows[t], {"awaiting_authorization"} \cup ExecutingPhases)
      /\ db' = BeginMediaAttempt(db, i, worker[i].epoch)
      /\ worker' = [worker EXCEPT ![i].step = "send"]
      /\ UNCHANGED <<visibility, checker, received, sends>>
  BY <1>1 DEF BeginUpload, BeginMediaAttemptOk, BeginPublicationMediaOk, remote
<1>4. PICK old : old = worker[i]
  OBVIOUS
<1>5. PICK row : row = [old EXCEPT !.step = "send"]
  OBVIOUS
<1>6. /\ old.epoch \in 0..MaxAuths
      /\ row \in [step : {"none", "decide", "send", "record"},
                  epoch : 0..MaxAuths, stable : BOOLEAN, answer : MediaAnswers]
      /\ row.step = "send"
  BY <1>2, <1>4, <1>5 DEF RemoteOk
<1>7. worker' = [worker EXCEPT ![i] = row]
  BY <1>3, <1>4, <1>5
<1>8. worker'[i] = row /\ \A j \in Items : j # i => worker'[j] = worker[j]
  BY <1>2, <1>7 DEF RemoteOk
<1>9. UploadBegunAs(db', db, i, t)
  BY <1>1, <1>2, <1>3, <1>4, <1>6, UploadBeginWritten
<1>10. /\ JournalOk(db')
       /\ PhaseMoved(db'.rows[t], db.rows[t]) /\ db'.rows[t].transfer.phase = "media"
       /\ \A u \in Transfers : u # t => db'.rows[u] = db.rows[u] /\ db'.plan[u] = db.plan[u]
       /\ db'.plan[t] = "executing"
       /\ db'.action = db.action /\ db'.attributed = db.attributed
       /\ db'.media[i] = "dispatching" /\ db'.upload[i].attempt = "open"
       /\ \A j \in Items : j # i => db'.media[j] = db.media[j] /\ db'.upload[j] = db.upload[j]
  BY <1>9 DEF UploadBegunAs
<1>11. /\ db'.identity[VendorOf[i]].active = i
       /\ \A v \in Vendors : db'.identity[v].state = db.identity[v].state
       /\ \A v \in Vendors : v # VendorOf[i] => db'.identity[v] = db.identity[v]
  BY <1>9 DEF UploadBegunAs
<1>12. ActionsOk' /\ PlanOk' /\ ProjectionOk'
  <2>1. OnlyUpload(i)
    BY <1>1, <1>10 DEF OnlyUpload
  <2>2. IsRunning(db'.rows[t], {"media"})
    BY <1>3, <1>10 DEF PhaseMoved, IsRunning
  <2>3. InOrder(i) => Carried(i)
    BY <1>3, LockedInTurn
  <2>4. db.media[i] \in OpenMediaStates /\ db'.media[i] \in UnderWay
    BY <1>3, <1>10 DEF OpenMediaStates, UnderWay
  <2>5. QED
    BY <1>1, <1>3, <1>10, <2>1, <2>2, <2>3, <2>4, UploadUnderWay
<1>13. RemoteOk'
  <2>1. worker' \in [Items -> [step : {"none", "decide", "send", "record"},
                               epoch : 0..MaxAuths, stable : BOOLEAN, answer : MediaAnswers]]
    BY <1>2, <1>6, <1>7 DEF RemoteOk
  <2>2. QED
    BY <1>2, <1>3, <2>1 DEF RemoteOk
<1>14. UploadsOk'
  <2>1. ASSUME NEW j \in Items, j # i PROVE StageOk(j)' /\ SentOk(j)'
    <3>1. StageOk(j) /\ SentOk(j)
      BY <1>2 DEF UploadsOk
    <3>2. QED
      BY <1>3, <1>8, <1>10, <2>1, <3>1, UploadKept
  <2>2. StageOk(i) /\ SentOk(i)
    BY <1>2 DEF UploadsOk
  <2>3. db.upload[i].attempt = "none"
    BY <1>3, <2>2 DEF StageOk, TriedStates, UnderWay, AttentionClasses
  <2>4. sends[i] = 0 /\ received[i] = 0
    BY <2>2, <2>3 DEF SentOk
  <2>5. StageOk(i)'
    BY <1>3, <1>10, <2>2 DEF StageOk, TriedStates, UnderWay
  <2>6. SentOk(i)'
    BY <1>3, <1>6, <1>8, <1>10, <2>4 DEF SentOk
  <2>7. QED
    BY <2>1, <2>5, <2>6 DEF UploadsOk
<1>15. OwnersOk'
  <2>1. /\ IdentityOf(db, i).active = Free
        /\ i \in db.attributed \cup Replanned
    BY <1>3, Locked
  <2>2. OwnerOk(i)'
    BY <1>10, <1>11, <2>1 DEF OwnerOk, MediaInFlight, IdentityOf
  <2>3. ASSUME NEW j \in MediaItems, j # i PROVE OwnerOk(j)'
    <3>1. OwnerOk(j) /\ j \in Items /\ VendorOf[j] \in Vendors /\ j # Free
      BY <1>2, <2>3, MediaItem, Assumed DEF OwnersOk
    <3>2. db'.media[j] = db.media[j]
      BY <1>10, <2>3, <3>1
    <3>3. CASE VendorOf[j] = VendorOf[i]
      BY <1>10, <1>11, <2>1, <2>3, <3>1, <3>2, <3>3 DEF OwnerOk, MediaInFlight, IdentityOf
    <3>4. CASE VendorOf[j] # VendorOf[i]
      BY <1>10, <1>11, <3>1, <3>2, <3>4 DEF OwnerOk, MediaInFlight, IdentityOf
    <3>5. QED
      BY <3>3, <3>4
  <2>4. ASSUME NEW a \in Actions PROVE MadeBy(a)'
    <3>1. MadeBy(a)
      BY <1>2 DEF OwnersOk
    <3>2. \A j \in MembersOf[a] : IsPresent(j)' <=> IsPresent(j)
      BY <1>11, MembersOfTransfer DEF IsPresent, IdentityOf
    <3>3. QED
      BY <1>10, <3>1, <3>2 DEF MadeBy
  <2>5. AttributedOk'
    BY <1>2, <1>10 DEF OwnersOk, AttributedOk
  <2>6. QED
    BY <2>2, <2>3, <2>4, <2>5 DEF OwnersOk
<1>16. JournalOk(db)'
  BY <1>10 DEF JournalOk, IsJournal, RowsOk
<1>17. QED
  BY <1>12, <1>13, <1>14, <1>15, <1>16, InvPartsNext

\* The answer, or the lack of one, awaits the catalogue.
LEMMA AwaitUpload ==
    ASSUME Inv, NEW i \in MediaItems, NEW answer \in AwaitedAnswers,
           RecordResultOk(db, i, answer), db' = RecordResult(db, i, answer),
           visibility' = [visibility EXCEPT ![i] = ScheduledRow(i, answer)],
           worker' = worker \/ worker' = [worker EXCEPT ![i] = NoWorker],
           worker[i].step # "none" => worker' # worker,
           UNCHANGED <<checker, received, sends>>
    PROVE  Inv'
<1>1. PICK t \in Transfers : t = TransferOfItem(i)
  BY MediaItem
<1>2. /\ JournalOk(db) /\ RemoteOk /\ UploadsOk /\ OwnersOk
      /\ i \in Items /\ VendorOf[i] \in Vendors /\ i \in TransferItems(t)
  BY <1>1, InvParts, MediaItem
<1>3. /\ db.media[i] = "dispatching" /\ db.upload[i].attempt = "open"
      /\ LockMediaActionOk(db, i)
  BY DEF RecordResultOk
<1>4. /\ IsJournal(db) /\ db.media \in [Items -> MediaStates] /\ db.upload \in [Items -> UploadRows]
  BY <1>2, JournalTypes
<1>5. PICK old \in UploadRows : old = db.upload[i]
  BY <1>2, <1>4
<1>6. PICK attempt : attempt = [old EXCEPT !.attempt = answer]
  OBVIOUS
<1>7. attempt \in UploadRows /\ attempt.attempt = answer /\ answer \notin {"none", "open"}
  BY <1>5, <1>6 DEF UploadRows, AwaitedAnswers, MediaAnswers
<1>8. PICK upload : upload = [db.upload EXCEPT ![i] = attempt]
  OBVIOUS
<1>9. PICK media : media = [db.media EXCEPT ![i] = "reconciling"]
  OBVIOUS
<1>10. db' = [db EXCEPT !.upload = upload, !.media = media]
  BY <1>5, <1>6, <1>8, <1>9 DEF RecordResult, WithUploadAnswer
<1>11. /\ IsJournal(db') /\ db'.rows = db.rows /\ db'.plan = db.plan /\ db'.auth = db.auth
       /\ db'.action = db.action /\ db'.member = db.member /\ db'.media = media
       /\ db'.upload = upload /\ db'.attributed = db.attributed /\ db'.identity = db.identity
  BY <1>4, <1>10 DEF IsJournal
<1>12. /\ db'.media[i] = "reconciling" /\ db'.upload[i].attempt = answer
       /\ \A j \in Items : j # i => db'.media[j] = db.media[j] /\ db'.upload[j] = db.upload[j]
  BY <1>2, <1>4, <1>7, <1>8, <1>9, <1>11
<1>13. JournalOk(db)'
  <2>1. ColumnsOk(db)
    BY <1>2, ColumnsOfJournal
  <2>2. upload \in [Items -> UploadRows] /\ media \in [Items -> MediaStates]
    BY <1>4, <1>7, <1>8, <1>9 DEF MediaStates, TriedStates, UnderWay
  <2>3. ColumnsOk(db')
    BY <1>11, <2>1, <2>2 DEF ColumnsOk
  <2>4. JournalOk(db')
    BY <1>2, <1>11, <2>3, SameRows
  <2>5. QED
    BY <2>4 DEF JournalOk, IsJournal, RowsOk
<1>14. ActionsOk' /\ PlanOk' /\ ProjectionOk'
  <2>1. OnlyUpload(i)
    BY <1>11, <1>12 DEF OnlyUpload
  <2>2. TransferOk(t)
    BY TransferParts
  <2>3. db.media[i] \in OpenMediaStates /\ db'.media[i] \in UnderWay /\ MediaInFlight(i)
    BY <1>3, <1>12 DEF OpenMediaStates, UnderWay, MediaInFlight
  <2>4. db.plan[t] \notin {"terminal", "superseded"}
    <3>1. ~PlanActionsEnded(db, t)
      BY <1>2, <2>3 DEF PlanActionsEnded
    <3>2. QED
      BY <1>2, <2>2, <2>3, <3>1 DEF TransferOk, PlanOf
  <2>5. InTurn(i) /\ Awaited(i)
    BY <1>2, <2>2 DEF TransferOk
  <2>6. InOrder(i) => Carried(i) /\ IsRunning(db'.rows[t], {"media"})
    BY <1>1, <1>3, <1>11, <2>3, <2>5 DEF InTurn, Awaited
  <2>7. PhaseMoved(db'.rows[t], db.rows[t])
    BY <1>11 DEF PhaseMoved
  <2>8. db'.upload[i].attempt # "none"
    BY <1>7, <1>12
  <2>9. QED
    BY <1>1, <1>11, <2>1, <2>3, <2>4, <2>6, <2>7, <2>8, UploadUnderWay
<1>15. /\ worker'[i].step = "none" /\ \A j \in Items : j # i => worker'[j] = worker[j]
       /\ worker' \in [Items -> [step : {"none", "decide", "send", "record"},
                                 epoch : 0..MaxAuths, stable : BOOLEAN, answer : MediaAnswers]]
  BY <1>2, NoWorkerIsTyped DEF RemoteOk
<1>16. PICK job : job = [NoJobRow EXCEPT !.open = TRUE]
  OBVIOUS
<1>17. /\ job \in [open : BOOLEAN, leased : BOOLEAN, late : BOOLEAN]
       /\ job.open = TRUE /\ job.leased = FALSE
  BY <1>16 DEF NoJobRow
<1>18. visibility' = [visibility EXCEPT ![i] = job]
  BY <1>16 DEF ScheduledRow
<1>19. /\ visibility' \in [Items -> [open : BOOLEAN, leased : BOOLEAN, late : BOOLEAN]]
       /\ visibility'[i] = job /\ \A j \in Items : j # i => visibility'[j] = visibility[j]
  BY <1>2, <1>17, <1>18 DEF RemoteOk
<1>20. RemoteOk'
  BY <1>2, <1>15, <1>19 DEF RemoteOk
<1>21. UploadsOk'
  <2>1. ASSUME NEW j \in Items, j # i PROVE StageOk(j)' /\ SentOk(j)'
    <3>1. StageOk(j) /\ SentOk(j)
      BY <1>2 DEF UploadsOk
    <3>2. QED
      BY <1>12, <1>15, <1>19, <2>1, <3>1, UploadKept
  <2>2. StageOk(i) /\ SentOk(i)
    BY <1>2 DEF UploadsOk
  <2>3. StageOk(i)'
    BY <1>7, <1>12, <1>17, <1>19, <2>2 DEF StageOk, TriedStates, UnderWay
  <2>4. SentOk(i)'
    BY <1>7, <1>12, <1>15, <2>2 DEF SentOk
  <2>5. QED
    BY <2>1, <2>3, <2>4 DEF UploadsOk
<1>22. OwnersOk'
  <2>1. \A j \in Items : MediaInFlight(j)' <=> MediaInFlight(j)
    BY <1>3, <1>12 DEF MediaInFlight
  <2>2. \A j \in Items : IsPresent(j)' <=> IsPresent(j)
    BY <1>11 DEF IsPresent, IdentityOf
  <2>3. \A b \in Actions : MembersOf[b] \subseteq Items
    BY MembersOfTransfer
  <2>4. QED
    BY <1>11, <2>1, <2>2, <2>3, OwnersKept
<1>23. QED
  BY <1>13, <1>14, <1>20, <1>21, <1>22, InvPartsNext

LEMMA RecordInterruptedKeepsInv ==
    ASSUME Inv, NEW i \in MediaItems, RecordInterrupted(i)
    PROVE  Inv'
<1>1. PICK answer \in AwaitedAnswers : answer = "uncertain"
  BY DEF AwaitedAnswers
<1>2. /\ RecordResultOk(db, i, answer) /\ db' = RecordResult(db, i, answer)
      /\ visibility' = [visibility EXCEPT ![i] = ScheduledRow(i, answer)]
      /\ UNCHANGED <<worker, checker, received, sends>>
  BY <1>1 DEF RecordInterrupted, remote
<1>3. worker[i].step = "none"
  BY MediaItem DEF RecordInterrupted, NotInFlight, InFlight
<1>4. QED
  BY <1>2, <1>3, AwaitUpload


-----------------------------------------------------------------------------
(* The media of a group end in the projection. *)

MediaResultOf(r, s, g, class) == r = ApplyPublicationMediaResult(s, g, class)

\* The media status of one group is written; the transfer finishes with its last
\* group only.
MediaApplied(r, s, t, g, class) ==
    /\ RowsOk(r, t)
    /\ r.item = s.item
    /\ \A x \in GroupTargetsOf(t) :
          /\ x # g => r.group[x] = s.group[x]
          /\ r.group[x].publication = s.group[x].publication
    /\ r.group[g].media = MediaStatus(class)
    /\ (\E x \in GroupTargetsOf(t) : r.group[x].overall = "running") =>
          /\ r.transfer.outcome = s.transfer.outcome
          /\ s.transfer.phase = "media" => r.transfer.phase = "media"

LEMMA MediaResultApplied ==
    ASSUME NEW t \in Transfers, NEW s, RowsOk(s, t), NEW g \in GroupTargetsOf(t),
           NEW class, NEW r, MediaResultOf(r, s, g, class)
    PROVE  MediaApplied(r, s, t, g, class)
<1>1. /\ s = [transfer |-> s.transfer, group |-> s.group, item |-> s.item]
      /\ s.transfer \in TransferRows
      /\ s.group \in [GroupTargetsOf(t) -> GroupRows]
      /\ s.item \in [TransferItems(t) -> ItemRows]
  BY DEF RowsOk
<1>2. PICK status : status = MediaStatus(class)
  OBVIOUS
<1>3. status \in {"succeeded", "skipped", "rejected", "unresolved"}
  BY <1>2 DEF MediaStatus
<1>4. PICK group : group = [x \in GroupTargetsOf(t) |->
            IF x = g THEN MediaGroup(s.group[x], status, ClassesOf(s, x)) ELSE s.group[x]]
  OBVIOUS
<1>5. PICK m : m = WithMedia(s, g, status)
  OBVIOUS
<1>6. m = [transfer |-> s.transfer, group |-> group, item |-> s.item]
  BY <1>1, <1>4, <1>5 DEF WithMedia
<1>7. r = AdvanceOrFinish(m, "media")
  BY <1>2, <1>5 DEF MediaResultOf, ApplyPublicationMediaResult
<1>8. /\ group[g] \in GroupRows /\ group[g].media = status
      /\ group[g].publication = s.group[g].publication
  <2>1. PICK row \in GroupRows : row = s.group[g]
    BY <1>1
  <2>2. PICK classes : classes = ClassesOf(s, g)
    OBVIOUS
  <2>3. PICK verdict : verdict = GroupVerdict(status, classes)
    OBVIOUS
  <2>4. verdict \in {"unresolved", "partial", "rejected", "success"}
    BY <2>3 DEF GroupVerdict
  <2>5. PICK attention \in BOOLEAN :
           attention = (status = "unresolved" \/ classes \cap AttentionClasses # {})
    OBVIOUS
  <2>6. group[g] = [row EXCEPT !.media = status, !.overall = verdict, !.attention = attention]
    <3>1. group[g] = MediaGroup(row, status, classes)
      BY <1>4, <2>1, <2>2
    <3>2. MediaGroup(row, status, classes)
            = [row EXCEPT !.media = status, !.overall = verdict, !.attention = attention]
      BY Zenon, <2>3, <2>5 DEF MediaGroup
    <3>3. QED
      BY <3>1, <3>2
  <2>7. row = [preparation |-> row.preparation, publication |-> row.publication,
               media |-> row.media, overall |-> row.overall,
               attention |-> row.attention, plan |-> row.plan]
    BY <2>1 DEF GroupRows
  <2>8. group[g] = [preparation |-> row.preparation, publication |-> row.publication,
                    media |-> status, overall |-> verdict,
                    attention |-> attention, plan |-> row.plan]
    BY <2>6, <2>7
  <2>9. /\ row.preparation \in GroupColumn /\ row.publication \in GroupColumn
        /\ row.plan \in {ThePlan, NoPlan}
    BY <2>1 DEF GroupRows
  <2>10. status \in GroupColumn
    BY <1>3 DEF GroupColumn
  <2>11. verdict \in {"running", "unresolved", "rejected", "partial", "success",
                      "succeeded", "skipped"}
    BY <2>4
  <2>12. group[g] \in GroupRows
    BY <2>5, <2>8, <2>9, <2>10, <2>11 DEF GroupRows
  <2>13. QED
    BY <2>1, <2>8, <2>12
<1>9. \A x \in GroupTargetsOf(t) : x # g => group[x] = s.group[x]
  BY <1>4
<1>10. group \in [GroupTargetsOf(t) -> GroupRows]
  BY <1>1, <1>4, <1>8, <1>9
<1>11. CASE RunningGroups(m) = {}
  <2>1. PICK head : head = Finished(m)
    OBVIOUS
  <2>2. head \in TransferRows
    <3>1. TransferOutcome(m) \in {"unresolved", "rejected", "partial", "succeeded"}
      BY DEF TransferOutcome
    <3>2. GroupNeedsAttention(m) \in BOOLEAN
      BY DEF GroupNeedsAttention
    <3>3. QED
      BY <2>1, <3>1, <3>2 DEF Finished, TransferRows
  <2>3. r = [m EXCEPT !.transfer = head]
    BY <1>7, <1>11, <2>1 DEF AdvanceOrFinish
  <2>4. r = [transfer |-> head, group |-> group, item |-> s.item]
    BY <1>6, <2>3
  <2>5. RowsOk(r, t)
    BY <1>1, <1>10, <2>2, <2>4 DEF RowsOk
  <2>6. \A x \in GroupTargetsOf(t) : group[x].overall # "running"
    BY <1>6, <1>10, <1>11 DEF RunningGroups
  <2>7. QED
    BY <1>2, <1>8, <1>9, <2>4, <2>5, <2>6 DEF MediaApplied
<1>12. CASE RunningGroups(m) # {}
  <2>1. PICK head : head = [s.transfer EXCEPT !.phase = "media"]
    OBVIOUS
  <2>2. head \in TransferRows /\ head.outcome = s.transfer.outcome /\ head.phase = "media"
    BY <1>1, <2>1 DEF TransferRows, ExecutingPhases
  <2>3. r = [m EXCEPT !.transfer = head]
    BY <1>6, <1>7, <1>12, <2>1 DEF AdvanceOrFinish
  <2>4. r = [transfer |-> head, group |-> group, item |-> s.item]
    BY <1>6, <2>3
  <2>5. RowsOk(r, t)
    BY <1>1, <1>10, <2>2, <2>4 DEF RowsOk
  <2>6. QED
    BY <1>2, <1>8, <1>9, <2>2, <2>4, <2>5 DEF MediaApplied
<1>13. QED
  BY <1>11, <1>12

\* What finishMediaAction and applyGroupResult leave behind.
MediaFinishedAs(e, d, i, class, t) ==
    /\ JournalOk(e)
    /\ e.media[i] = class /\ \A j \in Items : j # i => e.media[j] = d.media[j]
    /\ e.upload = d.upload /\ e.action = d.action /\ e.attributed = d.attributed
    /\ e.identity[VendorOf[i]].active = Free
    /\ \A v \in Vendors : e.identity[v].state = d.identity[v].state
    /\ \A v \in Vendors : v # VendorOf[i] => e.identity[v] = d.identity[v]
    /\ \A u \in Transfers : e.plan[u] =
          IF u = t /\ d.plan[t] = "executing" /\ PlanActionsEnded(e, t)
          THEN "terminal" ELSE d.plan[u]
    /\ \A u \in Transfers : u # t => e.rows[u] = d.rows[u]
    /\ GroupMediaEnded(e, i) =>
          MediaApplied(e.rows[t], d.rows[t], t, GroupOf[i], GroupMediaClass(e, i))
    /\ ~GroupMediaEnded(e, i) => e.rows[t] = d.rows[t]

LEMMA MediaFinishWritten ==
    ASSUME NEW d, JournalOk(d), NEW i \in MediaItems, NEW class \in Classes, NEW n,
           NEW t, t = TransferOfItem(i), NEW e, e = FinishMedia(d, i, class, n)
    PROVE  MediaFinishedAs(e, d, i, class, t)
<1>1. t \in Transfers /\ i \in Items /\ VendorOf[i] \in Vendors /\ GroupOf[i] \in GroupTargetsOf(t)
  BY MediaItem
<1>2. /\ IsJournal(d)
      /\ d.media \in [Items -> MediaStates]
      /\ d.identity \in [Vendors -> IdentityRows]
  BY JournalTypes
<1>3. PICK old \in IdentityRows : old = d.identity[VendorOf[i]]
  BY <1>1, <1>2
<1>4. PICK row : row = [old EXCEPT !.active = Free]
  OBVIOUS
<1>5. row \in IdentityRows /\ row.active = Free /\ row.state = old.state
  BY <1>3, <1>4 DEF IdentityRows
<1>6. PICK identity : identity = [d.identity EXCEPT ![VendorOf[i]] = row]
  OBVIOUS
<1>7. PICK media : media = [d.media EXCEPT ![i] = class]
  OBVIOUS
<1>8. PICK x : x = [d EXCEPT !.media[i] = class, !.identity[VendorOf[i]].active = Free]
  OBVIOUS
<1>9. x = [d EXCEPT !.media = media, !.identity = identity]
  BY <1>3, <1>4, <1>6, <1>7, <1>8
<1>10. /\ IsJournal(x) /\ x.rows = d.rows /\ x.plan = d.plan /\ x.auth = d.auth
       /\ x.action = d.action /\ x.member = d.member /\ x.media = media
       /\ x.upload = d.upload /\ x.attributed = d.attributed /\ x.identity = identity
  BY <1>2, <1>9 DEF IsJournal
<1>11. JournalOk(x)
  <2>1. ColumnsOk(d)
    BY ColumnsOfJournal
  <2>2. media \in [Items -> MediaStates] /\ identity \in [Vendors -> IdentityRows]
    BY <1>2, <1>5, <1>6, <1>7 DEF MediaStates, TriedStates, Classes
  <2>3. ColumnsOk(x)
    BY <1>10, <2>1, <2>2 DEF ColumnsOk
  <2>4. QED
    BY <1>10, <2>3, SameRows
<1>12. PICK p : p = ReducePlan(x, t)
  OBVIOUS
<1>13. /\ JournalOk(p)
       /\ \A u \in Transfers : p.plan[u] =
             IF u = t /\ x.plan[t] = "executing" /\ PlanActionsEnded(x, t)
             THEN "terminal" ELSE x.plan[u]
       /\ p.rows = x.rows /\ p.action = x.action /\ p.member = x.member
       /\ p.media = x.media /\ p.identity = x.identity /\ p.attributed = x.attributed
       /\ p.upload = x.upload
  BY <1>1, <1>11, <1>12, PlanReducedTo
<1>14. p = MediaEnded(d, i, class)
  BY <1>8, <1>12 DEF MediaEnded
<1>15. PICK q : q = ProjectMedia(p, i)
  OBVIOUS
<1>16. e = CloseAuthorization(q, t, n)
  BY <1>14, <1>15 DEF FinishMedia
<1>17. /\ JournalOk(q)
       /\ q.plan = p.plan /\ q.action = p.action /\ q.media = p.media /\ q.upload = p.upload
       /\ q.attributed = p.attributed /\ q.identity = p.identity
       /\ \A u \in Transfers : u # t => q.rows[u] = p.rows[u]
       /\ GroupMediaEnded(p, i) =>
             MediaApplied(q.rows[t], p.rows[t], t, GroupOf[i], GroupMediaClass(p, i))
       /\ ~GroupMediaEnded(p, i) => q.rows[t] = p.rows[t]
  <2>1. CASE ~GroupMediaEnded(p, i)
    BY <1>13, <1>15, <2>1 DEF ProjectMedia
  <2>2. CASE GroupMediaEnded(p, i)
    <3>1. PICK s : s = p.rows[t]
      OBVIOUS
    <3>2. PICK c : c = GroupMediaClass(p, i)
      OBVIOUS
    <3>3. PICK r : r = ApplyPublicationMediaResult(s, GroupOf[i], c)
      OBVIOUS
    <3>4. MediaApplied(r, s, t, GroupOf[i], c)
      <4>1. RowsOk(s, t)
        BY <1>1, <1>13, <3>1, JournalTypes
      <4>2. MediaResultOf(r, s, GroupOf[i], c)
        BY <3>3 DEF MediaResultOf
      <4>3. QED
        BY <1>1, <4>1, <4>2, MediaResultApplied
    <3>5. PICK rows : rows = [p.rows EXCEPT ![t] = r]
      OBVIOUS
    <3>6. q = [p EXCEPT !.rows = rows]
      BY <1>15, <2>2, <3>1, <3>2, <3>3, <3>5 DEF ProjectMedia
    <3>7. /\ IsJournal(q) /\ q.rows = rows /\ q.plan = p.plan /\ q.auth = p.auth
          /\ q.action = p.action /\ q.member = p.member /\ q.media = p.media
          /\ q.upload = p.upload /\ q.attributed = p.attributed /\ q.identity = p.identity
      <4>1. IsJournal(p)
        BY <1>13, JournalTypes
      <4>2. QED
        BY <3>6, <4>1 DEF IsJournal
    <3>8. JournalOk(q) /\ q.rows[t] = r /\ \A u \in Transfers : u # t => q.rows[u] = p.rows[u]
      <4>1. ColumnsOk(p)
        BY <1>13, ColumnsOfJournal
      <4>2. ColumnsOk(q)
        BY <3>7, <4>1 DEF ColumnsOk
      <4>3. OneRow(q, p, t, r)
        BY <3>5, <3>7 DEF OneRow
      <4>4. RowsOk(r, t)
        BY <3>4 DEF MediaApplied
      <4>5. QED
        BY <1>1, <1>13, <4>2, <4>3, <4>4, RowsWritten
    <3>9. MediaApplied(q.rows[t], p.rows[t], t, GroupOf[i], GroupMediaClass(p, i))
      BY <3>1, <3>2, <3>4, <3>8
    <3>10. QED
      BY <2>2, <3>7, <3>8, <3>9
  <2>3. QED
    BY <2>1, <2>2
<1>18. /\ JournalOk(e)
       /\ e.rows = q.rows /\ e.plan = q.plan /\ e.action = q.action
       /\ e.media = q.media /\ e.identity = q.identity /\ e.attributed = q.attributed
       /\ e.upload = q.upload
  BY <1>1, <1>16, <1>17, AuthorizationClosed
<1>19. /\ e.plan = p.plan /\ e.action = d.action /\ e.media = media /\ e.identity = identity
       /\ e.attributed = d.attributed /\ e.upload = d.upload
       /\ p.rows = d.rows /\ p.media = e.media
  BY <1>10, <1>13, <1>17, <1>18
<1>20. /\ GroupMediaEnded(p, i) <=> GroupMediaEnded(e, i)
       /\ GroupMediaClass(p, i) = GroupMediaClass(e, i)
  BY <1>19 DEF GroupMediaEnded, GroupMediaClass, MediaOfGroup
<1>21. /\ \A u \in Transfers : u # t => e.rows[u] = d.rows[u]
       /\ GroupMediaEnded(e, i) =>
             MediaApplied(e.rows[t], d.rows[t], t, GroupOf[i], GroupMediaClass(e, i))
       /\ ~GroupMediaEnded(e, i) => e.rows[t] = d.rows[t]
  BY <1>17, <1>18, <1>19, <1>20
<1>22. \A u \in Transfers : e.plan[u] =
          IF u = t /\ d.plan[t] = "executing" /\ PlanActionsEnded(e, t)
          THEN "terminal" ELSE d.plan[u]
  <2>1. PlanActionsEnded(e, t) <=> PlanActionsEnded(x, t)
    BY <1>10, <1>19 DEF PlanActionsEnded
  <2>2. QED
    BY <1>10, <1>13, <1>19, <2>1
<1>23. /\ e.media[i] = class /\ \A j \in Items : j # i => e.media[j] = d.media[j]
       /\ e.identity[VendorOf[i]].active = Free
       /\ \A v \in Vendors : e.identity[v].state = d.identity[v].state
       /\ \A v \in Vendors : v # VendorOf[i] => e.identity[v] = d.identity[v]
  BY <1>1, <1>2, <1>3, <1>5, <1>6, <1>7, <1>19
<1>24. QED
  BY <1>18, <1>19, <1>21, <1>22, <1>23 DEF MediaFinishedAs


-----------------------------------------------------------------------------
(* An upload ends. *)

\* The journal d that the end of upload i starts from: the answer is written, or
\* the transfer has got to its media.
MediaBase(d, i, t) ==
    /\ JournalOk(d)
    /\ d.media = db.media /\ d.action = db.action /\ d.plan = db.plan
    /\ d.attributed = db.attributed /\ d.identity = db.identity
    /\ \A j \in Items : j # i => d.upload[j] = db.upload[j]
    /\ d.upload[i].attempt = "none" <=> db.upload[i].attempt = "none"
    /\ PhaseMoved(d.rows[t], db.rows[t])
    /\ \A u \in Transfers : u # t => d.rows[u] = db.rows[u]

LEMMA MediaEndsInJournal ==
    ASSUME Inv, NEW i \in MediaItems, NEW t \in Transfers, t = TransferOfItem(i),
           NEW class \in Classes, NEW n, NEW d, MediaBase(d, i, t),
           LockMediaActionOk(db, i), db' = FinishMedia(d, i, class, n)
    PROVE  /\ JournalOk(db)' /\ OwnersOk' /\ ActionsOk' /\ PlanOk' /\ ProjectionOk'
           /\ db'.media[i] = class /\ db'.upload = d.upload
           /\ \A j \in Items : j # i => db'.media[j] = db.media[j] /\ db'.upload[j] = db.upload[j]
<1>1. /\ JournalOk(db) /\ OwnersOk /\ TransferOk(t)
      /\ i \in Items /\ VendorOf[i] \in Vendors /\ i \in TransferItems(t)
      /\ GroupOf[i] \in GroupTargetsOf(t)
      /\ TransferItems(t) \subseteq Items /\ ActionsOf(t) \subseteq Actions
  BY InvParts, TransferParts, MediaItem, ItemsOfTransfer
<1>2. /\ d.media = db.media /\ d.action = db.action /\ d.plan = db.plan
      /\ d.attributed = db.attributed /\ d.identity = db.identity
      /\ \A j \in Items : j # i => d.upload[j] = db.upload[j]
      /\ d.upload[i].attempt = "none" <=> db.upload[i].attempt = "none"
      /\ PhaseMoved(d.rows[t], db.rows[t])
      /\ \A u \in Transfers : u # t => d.rows[u] = db.rows[u]
  BY DEF MediaBase
<1>3. MediaFinishedAs(db', d, i, class, t)
  <2>1. JournalOk(d)
    BY DEF MediaBase
  <2>2. QED
    BY <2>1, MediaFinishWritten
<1>4. /\ JournalOk(db')
      /\ db'.media[i] = class /\ \A j \in Items : j # i => db'.media[j] = db.media[j]
      /\ db'.upload = d.upload /\ db'.action = db.action /\ db'.attributed = db.attributed
      /\ db'.identity[VendorOf[i]].active = Free
      /\ \A v \in Vendors : db'.identity[v].state = db.identity[v].state
      /\ \A v \in Vendors : v # VendorOf[i] => db'.identity[v] = db.identity[v]
      /\ \A u \in Transfers : u # t => db'.rows[u] = db.rows[u] /\ db'.plan[u] = db.plan[u]
      /\ db'.plan[t] = IF db.plan[t] = "executing" /\ PlanActionsEnded(db', t)
                       THEN "terminal" ELSE db.plan[t]
  BY <1>2, <1>3 DEF MediaFinishedAs
<1>5. /\ GroupMediaEnded(db', i) =>
            MediaApplied(db'.rows[t], d.rows[t], t, GroupOf[i], GroupMediaClass(db', i))
      /\ ~GroupMediaEnded(db', i) => db'.rows[t] = d.rows[t]
  BY <1>3 DEF MediaFinishedAs
<1>6. \A j \in Items : j # i => db'.media[j] = db.media[j] /\ db'.upload[j] = db.upload[j]
  BY <1>2, <1>4
<1>7. /\ db.media[i] \in OpenMediaStates /\ class \notin OpenMediaStates /\ class # "none"
      /\ IdentityOf(db, i).active \in {Free, i}
  BY Locked DEF Classes, AttentionClasses, OpenMediaStates, UnderWay
<1>8. OnlyUpload(i)
  BY <1>4, <1>6 DEF OnlyUpload
<1>9. db.plan[t] \notin {"terminal", "superseded"}
  <2>1. ~PlanActionsEnded(db, t)
    BY <1>1, <1>7 DEF PlanActionsEnded
  <2>2. QED
    BY <1>1, <1>7, <2>1 DEF TransferOk, PlanOf
\* Groups and items of the rows.
<1>10. /\ db'.rows[t].item = db.rows[t].item
       /\ \A x \in GroupTargetsOf(t) :
             db'.rows[t].group[x].publication = db.rows[t].group[x].publication
       /\ \A x \in GroupTargetsOf(t) : x # GroupOf[i] =>
             db'.rows[t].group[x] = db.rows[t].group[x]
       /\ (\E x \in GroupTargetsOf(t) : db'.rows[t].group[x].overall = "running") =>
             /\ db'.rows[t].transfer.outcome = db.rows[t].transfer.outcome
             /\ db.rows[t].transfer.phase = "media" => db'.rows[t].transfer.phase = "media"
  <2>1. /\ d.rows[t].group = db.rows[t].group /\ d.rows[t].item = db.rows[t].item
        /\ d.rows[t].transfer.outcome = db.rows[t].transfer.outcome
        /\ db.rows[t].transfer.phase = "media" => d.rows[t].transfer.phase = "media"
    BY <1>2 DEF PhaseMoved
  <2>2. CASE GroupMediaEnded(db', i)
    BY <1>5, <2>1, <2>2 DEF MediaApplied
  <2>3. CASE ~GroupMediaEnded(db', i)
    BY <1>5, <2>1, <2>3
  <2>4. QED
    BY <2>2, <2>3
<1>11. \A b \in ActionsOf(t) : ActionOk(b)'
  BY <1>1, <1>4 DEF TransferOk, ActionOk
<1>12. PlanOf(t)'
  <2>1. PlanActionsEnded(db', t) <=> PlanActionsEnded(db, t)'
    BY DEF PlanActionsEnded
  <2>2. QED
    BY <1>4, <1>9, <2>1 DEF PlanOf
<1>13. PublishedOk(t)'
  BY <1>1, <1>4, <1>9, <1>10 DEF TransferOk, PublishedOk
<1>14. ASSUME NEW j \in MediaItems, j \in TransferItems(t) PROVE InTurn(j)'
  <2>1. TransferOfItem(j) = t /\ InTurn(j) /\ j \in Items
    BY <1>1, <1>14, TransferOfThe DEF TransferOk
  <2>2. db'.upload[j].attempt # "none" => db.upload[j].attempt # "none"
    BY <1>2, <1>4, <1>6, <2>1
  <2>3. QED
    BY <1>4, <2>1, <2>2 DEF InTurn, Carried
<1>15. ASSUME NEW j \in MediaItems, j \in TransferItems(t) PROVE Awaited(j)'
  <2>1. /\ TransferOfItem(j) = t /\ Awaited(j) /\ j \in Items
        /\ GroupOf[j] \in GroupTargetsOf(t)
    BY <1>1, <1>15, TransferOfThe DEF TransferOk, GroupTargetsOf
  <2>2. SUFFICES ASSUME InOrder(j), db'.media[j] \in OpenMediaStates
                 PROVE  /\ GroupRowOf(j)'.media = "running" /\ GroupRowOf(j)'.overall = "running"
                        /\ MediaInFlight(j)' => IsRunning(db.rows[t], {"media"})'
    BY <2>1 DEF Awaited, MediaInFlight, OpenMediaStates
  <2>3. j # i /\ db'.media[j] = db.media[j]
    BY <1>4, <1>6, <1>7, <2>1, <2>2
  <2>4. /\ GroupRowOf(j).media = "running" /\ GroupRowOf(j).overall = "running"
        /\ MediaInFlight(j) => IsRunning(db.rows[t], {"media"})
    BY <2>1, <2>2, <2>3 DEF Awaited
  <2>5. GroupRowOf(j) = db.rows[t].group[GroupOf[j]] /\ GroupRowOf(j)' = db'.rows[t].group[GroupOf[j]]
    BY <2>1 DEF GroupRowOf
  <2>6. db'.rows[t].group[GroupOf[j]] = db.rows[t].group[GroupOf[j]]
    <3>1. CASE GroupOf[j] # GroupOf[i]
      BY <1>10, <2>1, <3>1
    <3>2. CASE GroupOf[j] = GroupOf[i]
      <4>1. j \in MediaOfGroup(db', i)
        BY <1>15, <2>2, <3>2 DEF MediaOfGroup, OpenMediaStates
      <4>2. ~GroupMediaEnded(db', i)
        BY <2>2, <4>1 DEF GroupMediaEnded
      <4>3. QED
        BY <1>2, <1>5, <4>2 DEF PhaseMoved
    <3>3. QED
      BY <3>1, <3>2
  <2>7. /\ db'.rows[t].transfer.outcome = db.rows[t].transfer.outcome
        /\ db.rows[t].transfer.phase = "media" => db'.rows[t].transfer.phase = "media"
    BY <1>10, <2>1, <2>4, <2>5, <2>6
  <2>8. MediaInFlight(j)' => MediaInFlight(j)
    BY <2>3 DEF MediaInFlight
  <2>9. QED
    BY <2>4, <2>5, <2>6, <2>7, <2>8 DEF IsRunning
<1>16. ASSUME NEW j \in MediaItems, j \in TransferItems(t) PROVE Settled(j)'
  <2>1. TransferOfItem(j) = t /\ Settled(j) /\ GroupOf[j] \in GroupTargetsOf(t)
    BY <1>1, <1>16, TransferOfThe DEF TransferOk, GroupTargetsOf
  <2>2. CASE GroupOf[j] = GroupOf[i]
    <3>1. SUFFICES ASSUME GroupMediaEnded(db, j)' PROVE Settled(j)'
      BY DEF Settled
    <3>2. MediaOfGroup(db, j)' = MediaOfGroup(db', i)
      BY <2>1, <2>2 DEF MediaOfGroup
    <3>3. /\ GroupMediaEnded(db', i)
          /\ GroupMediaClass(db, j)' = GroupMediaClass(db', i)
      BY <3>1, <3>2 DEF GroupMediaEnded, GroupMediaClass
    <3>4. db'.rows[t].group[GroupOf[i]].media = MediaStatus(GroupMediaClass(db', i))
      BY <1>5, <3>3 DEF MediaApplied
    <3>5. GroupRowOf(j)'.media = MediaStatus(GroupMediaClass(db, j)')
      BY <2>1, <2>2, <3>3, <3>4 DEF GroupRowOf
    <3>6. QED
      BY <3>5 DEF Settled, MediaStatus
  <2>3. CASE GroupOf[j] # GroupOf[i]
    <3>1. GroupKept(t, j)
      BY <1>1, <1>6, <1>10, <2>1, <2>3 DEF GroupKept
    <3>2. Aborted(t) => Aborted(t)'
      BY <1>4 DEF Aborted
    <3>3. QED
      BY <1>16, <2>1, <3>1, <3>2, SettledKept
  <2>4. QED
    BY <2>2, <2>3
<1>17. TransferOk(t)'
  BY <1>11, <1>12, <1>13, <1>14, <1>15, <1>16 DEF TransferOk
<1>18. ActionsOk' /\ PlanOk' /\ ProjectionOk'
  BY <1>8, <1>17, OnlyUploadOfTransfer, OneTransfer
<1>19. OwnersOk'
  <2>1. OwnerOk(i)'
    <3>1. i # Free
      BY <1>1, Assumed
    <3>2. QED
      BY <1>4, <1>7, <3>1 DEF OwnerOk, MediaInFlight, IdentityOf, OpenMediaStates
  <2>2. ASSUME NEW j \in MediaItems, j # i PROVE OwnerOk(j)'
    <3>1. OwnerOk(j) /\ j \in Items /\ VendorOf[j] \in Vendors /\ j # Free
      BY <1>1, <2>2, MediaItem, Assumed DEF OwnersOk
    <3>2. db'.media[j] = db.media[j]
      BY <1>6, <2>2, <3>1
    <3>3. CASE VendorOf[j] = VendorOf[i]
      BY <1>4, <1>7, <2>2, <3>1, <3>2, <3>3 DEF OwnerOk, MediaInFlight, IdentityOf
    <3>4. CASE VendorOf[j] # VendorOf[i]
      BY <1>4, <3>1, <3>2, <3>4 DEF OwnerOk, MediaInFlight, IdentityOf
    <3>5. QED
      BY <3>3, <3>4
  <2>3. ASSUME NEW a \in Actions PROVE MadeBy(a)'
    <3>1. MadeBy(a)
      BY <1>1 DEF OwnersOk
    <3>2. \A j \in MembersOf[a] : IsPresent(j)' <=> IsPresent(j)
      BY <1>4, MembersOfTransfer DEF IsPresent, IdentityOf
    <3>3. QED
      BY <1>4, <3>1, <3>2 DEF MadeBy
  <2>4. AttributedOk'
    BY <1>1, <1>4 DEF OwnersOk, AttributedOk
  <2>5. QED
    BY <2>1, <2>2, <2>3, <2>4 DEF OwnersOk
<1>20. JournalOk(db)'
  BY <1>4 DEF JournalOk, IsJournal, RowsOk
<1>21. QED
  BY <1>4, <1>6, <1>18, <1>19, <1>20


LEMMA SameLock ==
    ASSUME NEW d, NEW e, NEW i, LockMediaActionOk(d, i),
           e.media = d.media, e.action = d.action, e.attributed = d.attributed,
           e.identity = d.identity
    PROVE  LockMediaActionOk(e, i)
BY DEF LockMediaActionOk, LockRowOk, RowMatches, IdentityOf

LEMMA SkipUploadKeepsInv ==
    ASSUME Inv, NEW i \in MediaItems, SkipUpload(i)
    PROVE  Inv'
<1>1. PICK t \in Transfers : t = TransferOfItem(i)
  BY MediaItem
<1>2. JournalOk(db) /\ RemoteOk /\ UploadsOk /\ i \in Items
  BY InvParts, MediaItem
<1>3. PICK d : d = WithMediaPhase(db, i)
  OBVIOUS
<1>4. PICK class \in Classes : class = "skipped"
  BY DEF Classes
<1>5. PICK n : n = worker[i].epoch
  OBVIOUS
<1>6. /\ db.media[i] = "planned" /\ LockMediaActionOk(d, i)
      /\ db' = FinishMedia(d, i, class, n)
      /\ worker' = [worker EXCEPT ![i] = NoWorker]
      /\ UNCHANGED <<visibility, checker, received, sends>>
  BY <1>3, <1>4, <1>5
     DEF SkipUpload, SkipMediaActionOk, SkipMediaAction, FinishMediaOk, EndWorker, remote
<1>7. MediaBase(d, i, t)
  <2>1. PICK s : s = db.rows[t]
    OBVIOUS
  <2>2. PICK r : r = BeginPublicationMedia(s)
    OBVIOUS
  <2>3. PICK rows : rows = [db.rows EXCEPT ![t] = r]
    OBVIOUS
  <2>4. d = [db EXCEPT !.rows = rows]
    BY <1>1, <1>3, <2>1, <2>2, <2>3 DEF WithMediaPhase
  <2>5. /\ IsJournal(d) /\ d.rows = rows /\ d.plan = db.plan /\ d.auth = db.auth
        /\ d.action = db.action /\ d.member = db.member /\ d.media = db.media
        /\ d.upload = db.upload /\ d.attributed = db.attributed /\ d.identity = db.identity
    <3>1. IsJournal(db)
      BY <1>2, JournalTypes
    <3>2. QED
      BY <2>4, <3>1 DEF IsJournal
  <2>6. RowsOk(r, t) /\ PhaseMoved(r, s)
    <3>1. RowsOk(s, t) /\ AtPhase(r, s, "media") /\ "media" \in ExecutingPhases
      BY <1>2, <2>1, <2>2, JournalTypes DEF AtPhase, BeginPublicationMedia, ExecutingPhases
    <3>2. QED
      BY <3>1, PhaseWritten DEF PhaseMoved
  <2>7. JournalOk(d) /\ d.rows[t] = r /\ \A u \in Transfers : u # t => d.rows[u] = db.rows[u]
    <3>1. ColumnsOk(db)
      BY <1>2, ColumnsOfJournal
    <3>2. ColumnsOk(d)
      BY <2>5, <3>1 DEF ColumnsOk
    <3>3. OneRow(d, db, t, r)
      BY <2>3, <2>5 DEF OneRow
    <3>4. QED
      BY <1>2, <2>6, <3>2, <3>3, RowsWritten
  <2>8. QED
    BY <2>1, <2>5, <2>6, <2>7 DEF MediaBase
<1>8. LockMediaActionOk(db, i)
  BY <1>6, <1>7, SameLock DEF MediaBase
<1>9. /\ JournalOk(db)' /\ OwnersOk' /\ ActionsOk' /\ PlanOk' /\ ProjectionOk'
      /\ db'.media[i] = class /\ db'.upload = d.upload
      /\ \A j \in Items : j # i => db'.media[j] = db.media[j] /\ db'.upload[j] = db.upload[j]
  BY <1>1, <1>6, <1>7, <1>8, MediaEndsInJournal
<1>10. db'.upload = db.upload
  BY <1>3, <1>9 DEF WithMediaPhase, JournalOk, IsJournal, MediaBase
<1>11. /\ worker'[i].step = "none" /\ \A j \in Items : j # i => worker'[j] = worker[j]
       /\ worker' \in [Items -> [step : {"none", "decide", "send", "record"},
                                 epoch : 0..MaxAuths, stable : BOOLEAN, answer : MediaAnswers]]
  BY <1>2, <1>6, NoWorkerIsTyped DEF RemoteOk
<1>12. RemoteOk'
  BY <1>2, <1>6, <1>11 DEF RemoteOk
<1>13. UploadsOk'
  <2>1. ASSUME NEW j \in Items PROVE StageOk(j)' /\ SentOk(j)'
    <3>1. StageOk(j) /\ SentOk(j)
      BY <1>2 DEF UploadsOk
    <3>2. \/ db'.media[j] = db.media[j]
          \/ db.media[j] = "planned" /\ db'.media[j] \in {"skipped", "superseded"}
      BY <1>4, <1>6, <1>9
    <3>3. worker'[j] = worker[j] \/ worker'[j].step \in {"none", "decide"}
      BY <1>11
    <3>4. QED
      BY <1>6, <1>10, <3>1, <3>2, <3>3, UploadKept
  <2>2. QED
    BY <2>1 DEF UploadsOk
<1>14. QED
  BY <1>9, <1>12, <1>13, InvPartsNext

\* The answer proves that the upload put nothing on the card.
LEMMA ProvenUpload ==
    ASSUME Inv, NEW i \in MediaItems, RecordUpload(i), worker[i].answer \notin AwaitedAnswers
    PROVE  Inv'
<1>1. PICK t \in Transfers : t = TransferOfItem(i)
  BY MediaItem
<1>2. JournalOk(db) /\ RemoteOk /\ UploadsOk /\ i \in Items /\ StageOk(i) /\ SentOk(i)
  BY InvParts, MediaItem DEF UploadsOk
<1>3. PICK answer : answer = worker[i].answer
  OBVIOUS
<1>4. answer \in {"rejected", "unsent"} /\ answer \notin AwaitedAnswers
  <2>1. answer \in MediaAnswers
    BY <1>2, <1>3 DEF RemoteOk
  <2>2. QED
    BY <1>3, <2>1 DEF MediaAnswers, AwaitedAnswers
<1>5. PICK class \in {"rejected", "internal_error"} : class = AnswerClass(answer)
  BY DEF AnswerClass
<1>6. class \in Classes
  BY DEF Classes, AttentionClasses
<1>7. PICK d : d = WithUploadAnswer(db, i, answer)
  OBVIOUS
<1>8. PICK n : n = db.upload[i].auth
  OBVIOUS
<1>9. /\ worker[i].step = "record"
      /\ db.media[i] = "dispatching" /\ db.upload[i].attempt = "open"
      /\ LockMediaActionOk(db, i)
      /\ db' = FinishMedia(d, i, class, n)
      /\ visibility' = [visibility EXCEPT ![i] = visibility[i]]
      /\ worker' = [worker EXCEPT ![i] = NoWorker]
      /\ UNCHANGED <<checker, received, sends>>
  BY <1>3, <1>4, <1>5, <1>7, <1>8
     DEF RecordUpload, RecordResultOk, RecordResult, FinishMediaOk, ScheduledRow, EndWorker, remote
<1>10. PICK old \in UploadRows : old = db.upload[i]
  BY <1>2, JournalTypes
<1>11. PICK attempt : attempt = [old EXCEPT !.attempt = answer]
  OBVIOUS
<1>12. attempt \in UploadRows /\ attempt.attempt = answer
  BY <1>4, <1>10, <1>11 DEF UploadRows, MediaAnswers
<1>13. PICK upload : upload = [db.upload EXCEPT ![i] = attempt]
  OBVIOUS
<1>14. d = [db EXCEPT !.upload = upload]
  BY <1>7, <1>10, <1>11, <1>13 DEF WithUploadAnswer
<1>15. /\ IsJournal(d) /\ d.rows = db.rows /\ d.plan = db.plan /\ d.auth = db.auth
       /\ d.action = db.action /\ d.member = db.member /\ d.media = db.media
       /\ d.upload = upload /\ d.attributed = db.attributed /\ d.identity = db.identity
  <2>1. IsJournal(db)
    BY <1>2, JournalTypes
  <2>2. QED
    BY <1>14, <2>1 DEF IsJournal
<1>16. /\ upload \in [Items -> UploadRows] /\ upload[i].attempt = answer
       /\ \A j \in Items : j # i => upload[j] = db.upload[j]
  <2>1. db.upload \in [Items -> UploadRows]
    BY <1>2, JournalTypes
  <2>2. QED
    BY <1>2, <1>12, <1>13, <2>1
<1>17. MediaBase(d, i, t)
  <2>1. ColumnsOk(db)
    BY <1>2, ColumnsOfJournal
  <2>2. ColumnsOk(d)
    BY <1>15, <1>16, <2>1 DEF ColumnsOk
  <2>3. JournalOk(d)
    BY <1>2, <1>15, <2>2, SameRows
  <2>4. d.upload[i].attempt # "none" /\ db.upload[i].attempt # "none"
    BY <1>4, <1>9, <1>15, <1>16
  <2>5. QED
    BY <1>15, <1>16, <2>3, <2>4 DEF MediaBase, PhaseMoved
<1>18. /\ JournalOk(db)' /\ OwnersOk' /\ ActionsOk' /\ PlanOk' /\ ProjectionOk'
       /\ db'.media[i] = class /\ db'.upload = upload
       /\ \A j \in Items : j # i => db'.media[j] = db.media[j] /\ db'.upload[j] = db.upload[j]
  BY <1>1, <1>6, <1>9, <1>15, <1>17, MediaEndsInJournal
<1>19. /\ worker'[i].step = "none" /\ \A j \in Items : j # i => worker'[j] = worker[j]
       /\ worker' \in [Items -> [step : {"none", "decide", "send", "record"},
                                 epoch : 0..MaxAuths, stable : BOOLEAN, answer : MediaAnswers]]
  BY <1>2, <1>9, NoWorkerIsTyped DEF RemoteOk
<1>20. visibility' = visibility
  BY <1>2, <1>9 DEF RemoteOk
<1>21. RemoteOk'
  BY <1>2, <1>9, <1>19, <1>20 DEF RemoteOk
<1>22. UploadsOk'
  <2>1. ASSUME NEW j \in Items, j # i PROVE StageOk(j)' /\ SentOk(j)'
    <3>1. StageOk(j) /\ SentOk(j)
      BY <1>2 DEF UploadsOk
    <3>2. QED
      BY <1>9, <1>18, <1>19, <1>20, <2>1, <3>1, UploadKept
  <2>2. db'.upload[i].attempt = answer
    BY <1>16, <1>18
  <2>3. StageOk(i)'
    BY <1>2, <1>4, <1>9, <1>18, <1>20, <2>2 DEF StageOk, TriedStates, UnderWay, AttentionClasses
  <2>4. received[i] = 0
    BY <1>2, <1>3, <1>4, <1>9 DEF SentOk
  <2>5. SentOk(i)'
    BY <1>2, <1>4, <1>9, <1>19, <2>2, <2>4 DEF SentOk
  <2>6. QED
    BY <2>1, <2>3, <2>5 DEF UploadsOk
<1>23. QED
  BY <1>18, <1>21, <1>22, InvPartsNext

LEMMA RecordUploadKeepsInv ==
    ASSUME Inv, NEW i \in MediaItems, RecordUpload(i)
    PROVE  Inv'
<1>1. CASE worker[i].answer \in AwaitedAnswers
  <2>1. PICK answer \in AwaitedAnswers : answer = worker[i].answer
    BY <1>1
  <2>2. /\ RecordResultOk(db, i, answer) /\ db' = RecordResult(db, i, answer)
        /\ visibility' = [visibility EXCEPT ![i] = ScheduledRow(i, answer)]
        /\ worker' = [worker EXCEPT ![i] = NoWorker]
        /\ UNCHANGED <<checker, received, sends>>
    BY <2>1 DEF RecordUpload, EndWorker, remote
  <2>3. worker' # worker
    <3>1. worker'[i].step = "none"
      BY <2>2, InvParts, MediaItem, NoWorkerIsTyped DEF RemoteOk
    <3>2. worker[i].step = "record"
      BY DEF RecordUpload
    <3>3. QED
      BY <3>1, <3>2
  <2>4. QED
    BY <2>2, <2>3, AwaitUpload
<1>2. CASE worker[i].answer \notin AwaitedAnswers
  BY <1>2, ProvenUpload
<1>3. QED
  BY <1>1, <1>2

LEMMA RecordVisibilityKeepsInv ==
    ASSUME Inv, NEW i \in MediaItems, RecordVisibility(i)
    PROVE  Inv'
<1>1. PICK t \in Transfers : t = TransferOfItem(i)
  BY MediaItem
<1>2. JournalOk(db) /\ RemoteOk /\ UploadsOk /\ i \in Items /\ StageOk(i) /\ SentOk(i)
  BY InvParts, MediaItem DEF UploadsOk
<1>3. PICK outcome : outcome = VisibilityOutcome(i)
  OBVIOUS
<1>4. /\ outcome \in {"success", "unresolved", NoClass}
      /\ NoClass \notin {"success", "unresolved"}
  BY <1>3, JournalAssumption DEF VisibilityOutcome
<1>5. /\ LockMediaActionOk(db, i) /\ db.media[i] = "reconciling"
      /\ IF outcome = NoClass THEN db' = db
         ELSE db' = FinishMedia(db, i, outcome, db.upload[i].auth)
      /\ visibility' = [visibility EXCEPT ![i].open = (outcome = NoClass), ![i].leased = FALSE]
      /\ checker' = [checker EXCEPT ![i] = NoChecker]
      /\ UNCHANGED <<worker, received, sends>>
  BY <1>3 DEF RecordVisibility, EndChecker, remote
<1>6. PICK open \in BOOLEAN : open = (outcome = NoClass)
  OBVIOUS
<1>7. PICK old \in [open : BOOLEAN, leased : BOOLEAN, late : BOOLEAN] : old = visibility[i]
  BY <1>2 DEF RemoteOk
<1>8. PICK row : row = [old EXCEPT !.open = open, !.leased = FALSE]
  OBVIOUS
<1>9. /\ row \in [open : BOOLEAN, leased : BOOLEAN, late : BOOLEAN]
      /\ row.open = open /\ row.leased = FALSE
  BY <1>7, <1>8
<1>10. visibility' = [visibility EXCEPT ![i] = row]
  <2>1. visibility' = [visibility EXCEPT ![i].open = open, ![i].leased = FALSE]
    BY Zenon, <1>5, <1>6
  <2>2. QED
    BY <1>2, <1>7, <1>8, <2>1 DEF RemoteOk
<1>11. /\ visibility' \in [Items -> [open : BOOLEAN, leased : BOOLEAN, late : BOOLEAN]]
       /\ visibility'[i] = row /\ \A j \in Items : j # i => visibility'[j] = visibility[j]
  BY <1>2, <1>9, <1>10 DEF RemoteOk
<1>12. checker' \in [Items -> [step : {"none", "check", "record"}, visible : BOOLEAN]]
  BY <1>2, <1>5 DEF RemoteOk, NoChecker
<1>13. RemoteOk'
  BY <1>2, <1>5, <1>11, <1>12 DEF RemoteOk
<1>14. CASE outcome = NoClass
  <2>1. db' = db /\ open = TRUE /\ visibility[i].open = TRUE
    BY <1>2, <1>5, <1>6, <1>7, <1>14 DEF StageOk
  <2>2. \A j \in Items : visibility[j].leased => visibility[j].open
    BY <1>2 DEF UploadsOk, StageOk
  <2>3. QED
    BY <1>5, <1>9, <1>11, <1>12, <2>1, <2>2, OnlyVisibility
<1>15. CASE outcome # NoClass
  <2>1. PICK class \in Classes : class = outcome
    BY <1>4, <1>15 DEF Classes, AttentionClasses
  <2>2. PICK n : n = db.upload[i].auth
    OBVIOUS
  <2>3. db' = FinishMedia(db, i, class, n) /\ open = FALSE /\ class \in {"success", "unresolved"}
    BY <1>4, <1>5, <1>6, <1>15, <2>1, <2>2
  <2>4. MediaBase(db, i, t)
    BY <1>2 DEF MediaBase, PhaseMoved
  <2>5. /\ JournalOk(db)' /\ OwnersOk' /\ ActionsOk' /\ PlanOk' /\ ProjectionOk'
        /\ db'.media[i] = class /\ db'.upload = db.upload
        /\ \A j \in Items : j # i => db'.media[j] = db.media[j] /\ db'.upload[j] = db.upload[j]
    BY <1>1, <1>5, <2>3, <2>4, MediaEndsInJournal
  <2>6. ASSUME NEW j \in Items, j # i PROVE StageOk(j)' /\ SentOk(j)'
    <3>1. StageOk(j) /\ SentOk(j)
      BY <1>2 DEF UploadsOk
    <3>2. QED
      BY <1>5, <1>11, <2>5, <2>6, <3>1, UploadKept
  <2>7. StageOk(i)'
    BY <1>2, <1>5, <1>9, <1>11, <2>3, <2>5 DEF StageOk, TriedStates, UnderWay, AttentionClasses
  <2>8. SentOk(i)'
    BY <1>2, <1>5, <2>3, <2>5 DEF SentOk
  <2>9. UploadsOk'
    BY <2>6, <2>7, <2>8 DEF UploadsOk
  <2>10. QED
    BY <1>13, <2>5, <2>9, InvPartsNext
<1>16. QED
  BY <1>14, <1>15


-----------------------------------------------------------------------------
(* The initial states. *)

\* The projection of a plan that has just been applied.
LEMMA PlannedRowsOk ==
    ASSUME NEW t \in Transfers, NEW s, s = PlannedRows(t)
    PROVE  /\ RowsOk(s, t)
           /\ \A i \in TransferItems(t) \ PublishedItems(t) : s.item[i].state = "terminal"
           /\ \A g \in GroupTargetsOf(t) :
                 (\A i \in PublishedItems(t) : GroupOf[i] # g) => s.group[g].publication = "skipped"
           /\ \A g \in GroupTargetsOf(t) : \A i \in MediaItems : GroupOf[i] = g =>
                 s.group[g].media = "running" /\ s.group[g].overall = "running"
<1>1. PICK group : group = [g \in GroupTargetsOf(t) |->
          PlannedGroup([InitialGroup EXCEPT !.preparation = "succeeded"],
                       PlannedStatus(t, g), \E i \in MediaItems : GroupOf[i] = g, ThePlan)]
  OBVIOUS
<1>2. PICK item : item = [i \in TransferItems(t) |->
          PlannedItem([InitialItem EXCEPT !.state = "running"],
                      IF i \in PublishedItems(t) THEN ActionOf(i) ELSE NoAction, "skipped")]
  OBVIOUS
<1>3. PICK head : head = [phase |-> "awaiting_authorization", outcome |-> "running", attention |-> FALSE]
  OBVIOUS
<1>4. s = [transfer |-> head, group |-> group, item |-> item]
  BY <1>1, <1>2, <1>3 DEF PlannedRows, GroupTargetsOf
<1>5. head \in TransferRows
  BY <1>3 DEF TransferRows
<1>6. ASSUME NEW g \in GroupTargetsOf(t)
      PROVE  /\ group[g] \in GroupRows
             /\ (\A i \in PublishedItems(t) : GroupOf[i] # g) => group[g].publication = "skipped"
             /\ \A i \in MediaItems : GroupOf[i] = g =>
                   group[g].media = "running" /\ group[g].overall = "running"
  <2>1. PICK status : status = PlannedStatus(t, g)
    OBVIOUS
  <2>2. status \in {"running", "skipped"}
    BY <2>1 DEF PlannedStatus
  <2>3. PICK media \in BOOLEAN : media = \E i \in MediaItems : GroupOf[i] = g
    OBVIOUS
  <2>4. group[g] = [preparation |-> "succeeded", publication |-> status,
                    media |-> IF media THEN "running" ELSE "skipped",
                    overall |-> IF media THEN "running" ELSE status,
                    attention |-> FALSE, plan |-> ThePlan]
    BY <1>1, <2>1, <2>3 DEF PlannedGroup, InitialGroup
  <2>5. group[g] \in GroupRows
    BY <2>2, <2>4 DEF GroupRows, GroupColumn
  <2>6. (\A i \in PublishedItems(t) : GroupOf[i] # g) => group[g].publication = "skipped"
    BY <2>1, <2>4 DEF PlannedStatus
  <2>7. \A i \in MediaItems : GroupOf[i] = g =>
           group[g].media = "running" /\ group[g].overall = "running"
    BY <2>3, <2>4
  <2>8. QED
    BY <2>5, <2>6, <2>7
<1>7. ASSUME NEW i \in TransferItems(t)
      PROVE  /\ item[i] \in ItemRows
             /\ i \notin PublishedItems(t) => item[i].state = "terminal"
  <2>1. CASE i \notin PublishedItems(t)
    <3>1. item[i] = [state |-> "terminal", class |-> "skipped", action |-> NoAction, closed |-> FALSE]
      BY <1>2, <2>1 DEF PlannedItem, EndedItem, InitialItem
    <3>2. QED
      BY <3>1 DEF ItemRows, Classes
  <2>2. CASE i \in PublishedItems(t)
    <3>1. PICK a \in Actions : i \in MembersOf[a]
      BY <2>2 DEF PublishedItems, ActionsOf
    <3>2. ActionOf(i) = a /\ a # NoAction
      BY <3>1, ActionOfMember, Assumed
    <3>3. item[i] = [state |-> "running", class |-> NoClass, action |-> a, closed |-> FALSE]
      BY <1>2, <2>2, <3>2 DEF PlannedItem, InitialItem
    <3>4. QED
      BY <2>2, <3>3 DEF ItemRows
  <2>3. QED
    BY <2>1, <2>2
<1>8. group \in [GroupTargetsOf(t) -> GroupRows] /\ item \in [TransferItems(t) -> ItemRows]
  BY <1>1, <1>2, <1>6, <1>7
<1>9. RowsOk(s, t)
  BY <1>4, <1>5, <1>8 DEF RowsOk
<1>10. QED
  BY <1>4, <1>6, <1>7, <1>9

\* The journal of plans that have just been saved.
LEMMA PlannedJournalOk ==
    ASSUME NEW d, d = PlannedJournal
    PROVE  /\ JournalOk(d)
           /\ \A t \in Transfers : d.rows[t] = PlannedRows(t)
           /\ \A t \in Transfers : d.plan[t] = "awaiting_authorization"
           /\ \A a \in Actions : d.action[a].state = "planned" /\ d.action[a].attempt = "none"
           /\ \A i \in Items : d.media[i] = IF i \in MediaItems THEN "planned" ELSE "none"
           /\ \A i \in Items : d.upload[i].attempt = "none"
           /\ d.attributed = {}
           /\ \A v \in Vendors :
                 /\ d.identity[v].state = "remote_present" <=> v \in ExistingVendors
                 /\ d.identity[v].active = Free
<1>1. /\ IsJournal(d)
      /\ d.rows = [t \in Transfers |-> PlannedRows(t)]
      /\ d.plan = [t \in Transfers |-> "awaiting_authorization"]
      /\ d.auth = [t \in Transfers |-> <<>>]
      /\ d.action = [a \in Actions |->
            [state |-> "planned", auth |-> 0, attempt |-> "none",
             retry |-> "none", baseline |-> [v \in Vendors |-> 0]]]
      /\ d.member = [i \in Items |-> NoClass]
      /\ d.media = [i \in Items |-> IF i \in MediaItems THEN "planned" ELSE "none"]
      /\ d.upload = [i \in Items |-> NoAttempt]
      /\ d.attributed = {}
      /\ d.identity = [v \in Vendors |->
            [state |-> IF v \in ExistingVendors THEN "remote_present" ELSE "remote_missing",
             active |-> Free]]
  BY DEF PlannedJournal, IsJournal
<1>2. AuthColumn(d.auth)
  <2>1. <<>> \in Seq(AuthStates) /\ Len(<<>>) = 0 /\ MaxAuths \in Nat
    BY Assumed
  <2>2. AuthsOk(<<>>)
    BY <2>1 DEF AuthsOk
  <2>3. \A t \in Transfers : d.auth[t] = <<>>
    BY <1>1
  <2>4. d.auth = [t \in Transfers |-> d.auth[t]]
    BY <1>1
  <2>5. QED
    BY <2>2, <2>3, <2>4 DEF AuthColumn
<1>3. d.plan \in [Transfers -> PlanStates] /\ d.media \in [Items -> MediaStates]
      /\ d.member \in [Items -> Classes \cup {NoClass}]
  BY <1>1 DEF PlanStates, MediaStates
<1>4. d.action \in [Actions -> ActionRows]
  <2>1. [state |-> "planned", auth |-> 0, attempt |-> "none",
         retry |-> "none", baseline |-> [v \in Vendors |-> 0]] \in ActionRows
    BY Assumed DEF ActionRows
  <2>2. QED
    BY <1>1, <2>1
<1>5. d.upload \in [Items -> UploadRows]
  BY <1>1, Assumed DEF UploadRows, NoAttempt
<1>6. d.identity \in [Vendors -> IdentityRows]
  BY <1>1 DEF IdentityRows, IdentityStates
<1>7. \A t \in Transfers : d.rows[t] = PlannedRows(t) /\ RowsOk(d.rows[t], t)
  BY <1>1, PlannedRowsOk
<1>8. d.rows = [t \in Transfers |-> d.rows[t]]
  BY <1>1
<1>9. JournalOk(d)
  BY <1>1, <1>2, <1>3, <1>4, <1>5, <1>6, <1>7, <1>8 DEF JournalOk
<1>10. \A a \in Actions : d.action[a].state = "planned" /\ d.action[a].attempt = "none"
  BY <1>1
<1>11. \A i \in Items : d.upload[i].attempt = "none"
  BY <1>1 DEF NoAttempt
<1>12. \A v \in Vendors :
          /\ d.identity[v].state = "remote_present" <=> v \in ExistingVendors
          /\ d.identity[v].active = Free
  BY <1>1
<1>13. QED
  BY <1>1, <1>7, <1>9, <1>10, <1>11, <1>12

\* At first the identities of the existing cards only are there.
LEMMA NotThereYet ==
    ASSUME NEW a \in Actions, NEW i \in MembersOf[a], OwnCode(i)
    PROVE  VendorOf[i] \notin ExistingVendors
<1> SUFFICES ASSUME VendorOf[i] \in ExistingVendors PROVE FALSE
  OBVIOUS
<1>1. PICK t \in Transfers : \E j \in ExistingOf[t] : VendorOf[j] = VendorOf[i]
  BY DEF ExistingVendors
<1>2. PICK j \in ExistingOf[t] : VendorOf[j] = VendorOf[i]
  BY <1>1
<1>3. j \in Items
  BY Assumed
<1>4. j = i
  BY <1>2, <1>3 DEF OwnCode
<1>5. i \in TransferItems(t)
  BY <1>4 DEF TransferItems
<1>6. i \in TransferItems(TransferOf[a]) /\ TransferOf[a] \in Transfers
      /\ i \in PublishedItems(TransferOf[a])
  BY MembersOfTransfer
<1>7. TransferOf[a] = t
  BY <1>5, <1>6, TransferOfThe
<1>8. QED
  BY <1>4, <1>6, <1>7, MediaAssumption

LEMMA InitInv == Init => Inv
<1> SUFFICES ASSUME Init PROVE Inv
  OBVIOUS
<1>1. /\ db = PlannedJournal
      /\ visibility = [i \in Items |-> NoJobRow] /\ worker = [i \in Items |-> NoWorker]
      /\ checker = [i \in Items |-> NoChecker] /\ received = [i \in Items |-> 0]
      /\ sends = [i \in Items |-> 0]
  BY DEF Init
<1>2. /\ JournalOk(db)
      /\ \A t \in Transfers : db.rows[t] = PlannedRows(t)
      /\ \A t \in Transfers : db.plan[t] = "awaiting_authorization"
      /\ \A a \in Actions : db.action[a].state = "planned" /\ db.action[a].attempt = "none"
      /\ \A i \in Items : db.media[i] = IF i \in MediaItems THEN "planned" ELSE "none"
      /\ \A i \in Items : db.upload[i].attempt = "none"
      /\ db.attributed = {}
      /\ \A v \in Vendors :
            /\ db.identity[v].state = "remote_present" <=> v \in ExistingVendors
            /\ db.identity[v].active = Free
  BY <1>1, PlannedJournalOk
<1>3. RemoteOk
  BY <1>1, NoWorkerIsTyped DEF RemoteOk, NoJobRow, NoChecker
<1>4. ASSUME NEW i \in Items PROVE StageOk(i) /\ SentOk(i)
  <2>1. db.media[i] \in {"planned", "none"} /\ db.upload[i].attempt = "none"
    BY <1>2
  <2>2. i \notin MediaItems => db.media[i] = "none"
    BY <1>2
  <2>3. ~visibility[i].open /\ ~visibility[i].leased /\ sends[i] = 0 /\ received[i] = 0
    BY <1>1 DEF NoJobRow
  <2>4. worker[i].step = "none"
    BY <1>1 DEF NoWorker
  <2>5. StageOk(i)
    BY <2>1, <2>2, <2>3 DEF StageOk, TriedStates, UnderWay, AttentionClasses
  <2>6. SentOk(i)
    BY <2>1, <2>3, <2>4 DEF SentOk
  <2>7. QED
    BY <2>5, <2>6
<1>5. ASSUME NEW i \in MediaItems
      PROVE  db.media[i] = "planned" /\ ~MediaInFlight(i) /\ db.upload[i].attempt = "none"
  BY <1>2, MediaItem DEF MediaInFlight
<1>6. OwnersOk
  <2>1. ASSUME NEW i \in MediaItems PROVE OwnerOk(i)
    <3>1. IdentityOf(db, i).active = Free /\ i # Free
      BY <1>2, MediaItem, Assumed DEF IdentityOf
    <3>2. QED
      BY <1>5, <3>1 DEF OwnerOk
  <2>2. ASSUME NEW a \in Actions PROVE MadeBy(a)
    <3>1. ASSUME NEW i \in MembersOf[a], OwnCode(i) PROVE ~IsPresent(i)
      <4>1. VendorOf[i] \notin ExistingVendors /\ VendorOf[i] \in Vendors
        BY <3>1, NotThereYet, MembersOfTransfer
      <4>2. QED
        BY <1>2, <4>1 DEF IsPresent, IdentityOf
    <3>2. QED
      BY <3>1 DEF MadeBy
  <2>3. AttributedOk
    BY <1>2 DEF AttributedOk
  <2>4. QED
    BY <2>1, <2>2, <2>3 DEF OwnersOk
<1>7. ActionsOk
  <2>1. \A a \in Actions : ActionOk(a)
    BY <1>2 DEF ActionOk, UnderWay
  <2>2. \A i \in MediaItems : InTurn(i)
    BY <1>5 DEF InTurn
  <2>3. QED
    BY <2>1, <2>2 DEF ActionsOk
<1>8. PlanOk
  BY <1>2 DEF PlanOk, PlanOf
<1>9. ASSUME NEW t \in Transfers PROVE PublishedOk(t)
  <2>1. PICK s : s = db.rows[t]
    OBVIOUS
  <2>2. s = PlannedRows(t)
    BY <1>2, <2>1
  <2>3. /\ \A i \in TransferItems(t) \ PublishedItems(t) : s.item[i].state = "terminal"
        /\ \A g \in GroupTargetsOf(t) :
              (\A i \in PublishedItems(t) : GroupOf[i] # g) => s.group[g].publication = "skipped"
    BY <2>2, PlannedRowsOk
  <2>4. \A a \in ActionsOf(t) : db.action[a].state # "terminal"
    BY <1>2 DEF ActionsOf
  <2>5. ASSUME NEW i \in TransferItems(t),
               \A a \in ActionsOf(t) : i \in MembersOf[a] => db.action[a].state = "terminal"
        PROVE  s.item[i].state = "terminal"
    <3>1. i \notin PublishedItems(t)
      BY <2>4, <2>5 DEF PublishedItems
    <3>2. QED
      BY <2>3, <3>1
  <2>6. ASSUME NEW g \in GroupTargetsOf(t),
               \A a \in ActionsOf(t) : g \in GroupTargets(a) => db.action[a].state = "terminal"
        PROVE  s.group[g].publication \in PublicationEnded
    <3>1. \A i \in PublishedItems(t) : GroupOf[i] # g
      BY <2>4, <2>6 DEF PublishedItems, GroupTargets
    <3>2. s.group[g].publication = "skipped"
      BY <2>3, <3>1
    <3>3. QED
      BY <3>2 DEF PublicationEnded
  <2>7. QED
    BY <2>1, <2>5, <2>6 DEF PublishedOk
<1>10. ASSUME NEW i \in MediaItems PROVE Awaited(i) /\ Settled(i)
  <2>1. PICK t \in Transfers : t = TransferOfItem(i)
    BY MediaItem
  <2>2. PICK s : s = db.rows[t]
    OBVIOUS
  <2>3. s = PlannedRows(t)
    BY <1>2, <2>2
  <2>4. GroupOf[i] \in GroupTargetsOf(t)
    BY <2>1, MediaItem
  <2>5. s.group[GroupOf[i]].media = "running" /\ s.group[GroupOf[i]].overall = "running"
    BY <2>3, <2>4, PlannedRowsOk
  <2>6. Awaited(i)
    BY <1>5, <2>1, <2>2, <2>5 DEF Awaited, GroupRowOf
  <2>7. MediaOfGroup(db, i) \subseteq Items
    BY <2>1, ItemsOfTransfer DEF MediaOfGroup
  <2>8. AttemptedMedia(i) = {}
    BY <1>2, <2>7 DEF AttemptedMedia
  <2>9. QED
    BY <2>6, <2>8 DEF Settled
<1>11. QED
  BY <1>2, <1>3, <1>4, <1>6, <1>7, <1>8, <1>9, <1>10 DEF Inv, UploadsOk, ProjectionOk


-----------------------------------------------------------------------------
(* Every step. *)

\* One step per action of the module.
LEMMA NextKeepsInv == Inv /\ [Next]_vars => Inv'
<1> SUFFICES ASSUME Inv, [Next]_vars PROVE Inv'
  OBVIOUS
<1>1. ASSUME UNCHANGED vars PROVE Inv'
  <2>1. UNCHANGED <<db, visibility, worker, checker, received, sends>>
    BY <1>1 DEF vars
  <2>2. QED
    BY <2>1, QuietStep
<1>2. ASSUME NEW t \in Transfers, AuthorizePlan(t) \/ AuthorizationRunsOut(t) PROVE Inv'
  BY <1>2, AuthorizePlanKeepsInv, RunsOutKeepsInv
<1>3. ASSUME NEW a \in Actions, Product(a) PROVE Inv'
  BY <1>3, ProductBeginsKeepsInv, ProductIsAcceptedKeepsInv, ProductEndsKeepsInv,
     PlanStopsKeepsInv DEF Product
<1>4. ASSUME NEW i \in MediaItems, Uploading(i) PROVE Inv'
  BY <1>4, UploadKeepsInv, RecordUploadKeepsInv DEF Uploading
<1>5. ASSUME NEW i \in MediaItems, Checking(i) PROVE Inv'
  BY <1>5, CheckKeepsInv, RecordVisibilityKeepsInv DEF Checking
<1>6. ASSUME NEW i \in MediaItems,
             \/ ObserveMedia(i) \/ SkipUpload(i) \/ BeginUpload(i)
             \/ WorkerFails(i) \/ RecordInterrupted(i)
      PROVE  Inv'
  BY <1>6, ObserveMediaKeepsInv, SkipUploadKeepsInv, BeginUploadKeepsInv,
     WorkerFailsKeepsInv, RecordInterruptedKeepsInv
<1>7. ASSUME NEW i \in MediaItems, CheckFails(i) \/ LeaseEnds(i) \/ DeadlinePasses(i)
      PROVE  Inv'
  BY <1>7, CheckFailsKeepsInv, LeaseEndsKeepsInv
<1>8. ASSUME NEW jobs \in SUBSET MediaItems, ClaimVisibility(jobs) PROVE Inv'
  BY <1>8, ClaimKeepsInv
<1>9. ASSUME NEW i \in SellerItems, SellerChanges(i) PROVE Inv'
  <2>1. UNCHANGED <<db, visibility, worker, checker, received, sends>>
    BY <1>9 DEF SellerChanges, others
  <2>2. QED
    BY <2>1, QuietStep
<1>10. ASSUME NEW i \in SharedItems, NEW state \in {"remote_missing", "remote_present"},
              PlanElsewhere(i, state)
       PROVE  Inv'
  BY <1>10, PlanElsewhereKeepsInv
<1>11. ASSUME Crash PROVE Inv'
  BY <1>11, CrashKeepsInv
<1>12. QED
  BY <1>1, <1>2, <1>3, <1>4, <1>5, <1>6, <1>7, <1>8, <1>9, <1>10, <1>11 DEF Next

\* The inductive invariant holds of every behaviour of the media dispatcher, the
\* visibility loop and what goes on around them.
THEOREM InvHolds == Spec => []Inv
<1>1. Inv /\ [Next]_vars => Inv'
  BY NextKeepsInv
<1>2. QED
  BY <1>1, InitInv, PTL DEF Spec

-----------------------------------------------------------------------------
(* The journal of uploads. *)

LEMMA InvTypeOK == Inv => TypeOK
<1> SUFFICES ASSUME Inv PROVE TypeOK
  OBVIOUS
<1>1. JournalOk(db) /\ RemoteOk /\ UploadsOk
  BY InvParts
<1>2. db.media \in [Items -> MediaStates] /\ db.upload \in [Items -> UploadRows]
  BY <1>1, JournalTypes
<1>3. MediaStates \subseteq OpenMediaStates \cup AttentionClasses
                        \cup {"none", "success", "skipped", "rejected", "superseded"}
  BY DEF MediaStates, TriedStates, UnderWay, OpenMediaStates
<1>4. db.media \in [Items -> OpenMediaStates \cup AttentionClasses
                        \cup {"none", "success", "skipped", "rejected", "superseded"}]
  BY <1>2, <1>3
<1>5. ASSUME NEW i \in Items
      PROVE  /\ db.upload[i].attempt \in {"none", "open"} \cup MediaAnswers
             /\ db.upload[i].attempt = "open" <=> db.media[i] = "dispatching"
             /\ visibility[i].open <=> db.media[i] = "reconciling"
             /\ visibility[i].leased => visibility[i].open
  <2>1. StageOk(i)
    BY <1>1 DEF UploadsOk
  <2>2. db.upload[i] \in UploadRows
    BY <1>2
  <2>3. db.upload[i].attempt \in {"none", "open"} \cup MediaAnswers
    BY <2>2 DEF UploadRows
  <2>4. QED
    BY <2>1, <2>3 DEF StageOk
<1>6. QED
  BY <1>1, <1>4, <1>5 DEF TypeOK, RemoteOk

LEMMA InvJournalIsSound == Inv => UploadJournalIsSound
<1> SUFFICES ASSUME Inv PROVE UploadJournalIsSound
  OBVIOUS
<1>1. UploadsOk /\ RemoteOk
  BY InvParts
<1>2. ASSUME NEW i \in Items
      PROVE  /\ sends[i] <= 1 /\ (sends[i] = 1 => db.upload[i].attempt # "none")
             /\ db.media[i] \in {"rejected", "internal_error"} => received[i] = 0
  <2>1. SentOk(i)
    BY <1>1 DEF UploadsOk
  <2>2. QED
    BY <2>1 DEF SentOk
<1>3. UploadsAreJournaled
  BY <1>2 DEF UploadsAreJournaled
<1>4. RejectedLeftCardUntouched
  BY <1>2 DEF RejectedLeftCardUntouched
<1>5. QED
  BY <1>3, <1>4, InvTypeOK DEF UploadJournalIsSound

\* An upload leaves the process once, under a journaled attempt whose columns
\* agree, and 'rejected' is recorded only of a card that it has not touched,
\* whatever crashes, late answers and overlapping passes
\* (recordInterrupted, ScheduleMediaVisibility, RecordMediaResult).
THEOREM UploadJournalStaysSound == Spec => []UploadJournalIsSound
<1>1. Inv => UploadJournalIsSound
  BY InvJournalIsSound
<1>2. QED
  BY <1>1, InvHolds, PTL


-----------------------------------------------------------------------------
(* The answer of a worker. *)

\* The lock finds the row of an upload under way again, as long as its identity
\* is there.
LEMMA UnderWayIsLocked ==
    ASSUME Inv, NEW i \in MediaItems, MediaInFlight(i), IsPresent(i)
    PROVE  LockMediaActionOk(db, i)
<1>1. OwnerOk(i) /\ AttributedOk
  BY InvParts DEF OwnersOk
<1>2. /\ IdentityOf(db, i).active = i /\ IdentityOf(db, i).state = "remote_present"
      /\ db.media[i] \in {"dispatching", "reconciling"}
      /\ i \in db.attributed \cup Replanned
  BY <1>1 DEF OwnerOk, IsPresent, MediaInFlight
<1>3. CASE i \in db.attributed
  <2>1. PICK a \in Actions : i \in MembersOf[a] /\ db.action[a].state = "terminal"
    BY <1>1, <1>3 DEF AttributedOk
  <2>2. /\ TransferOf[a] \in Transfers /\ i \in TransferItems(TransferOf[a])
        /\ i \in PublishedItems(TransferOf[a])
    BY <2>1, MembersOfTransfer
  <2>3. TransferOfItem(i) = TransferOf[a] /\ ActionOf(i) = a
    BY <2>1, <2>2, TransferOfThe, ActionOfMember
  <2>4. "product" \in JoinedRows(i)
    BY <2>2, <2>3 DEF JoinedRows
  <2>5. RowMatches(db, i, "product")
    BY <2>1, <2>3 DEF RowMatches
  <2>6. LockRowOk(db, i, "product")
    BY <1>2, <1>3, <2>5 DEF LockRowOk
  <2>7. QED
    BY <2>4, <2>6 DEF LockMediaActionOk
<1>4. CASE i \notin db.attributed
  <2>1. "superseded" \in JoinedRows(i)
    BY <1>2, <1>4 DEF JoinedRows
  <2>2. LockRowOk(db, i, "superseded")
    BY <1>2, <1>4 DEF LockRowOk, RowMatches
  <2>3. QED
    BY <2>1, <2>2 DEF LockMediaActionOk
<1>5. QED
  BY <1>3, <1>4

\* Nor does the end of an upload touch the rows before they are projected.
LEMMA EndedRows ==
    ASSUME NEW d, JournalOk(d), NEW i \in MediaItems, NEW class
    PROVE  MediaEnded(d, i, class).rows = d.rows
<1>1. PICK media : media = [d.media EXCEPT ![i] = class]
  OBVIOUS
<1>2. PICK identity : identity = [d.identity EXCEPT ![VendorOf[i]].active = Free]
  OBVIOUS
<1>3. PICK e : e = [d EXCEPT !.media = media, !.identity = identity]
  OBVIOUS
<1>4. e = [d EXCEPT !.media[i] = class, !.identity[VendorOf[i]].active = Free]
  BY <1>1, <1>2, <1>3
<1>5. IsJournal(e) /\ e.rows = d.rows
  <2>1. IsJournal(d)
    BY JournalTypes
  <2>2. QED
    BY <1>3, <2>1 DEF IsJournal
<1>6. PICK t : t = TransferOfItem(i)
  OBVIOUS
<1>7. MediaEnded(d, i, class) = ReducePlan(e, t)
  BY <1>4, <1>6 DEF MediaEnded
<1>8. ReducePlan(e, t).rows = e.rows
  <2>1. PICK plan : plan = [e.plan EXCEPT ![t] = "terminal"]
    OBVIOUS
  <2>2. ReducePlan(e, t) = e \/ ReducePlan(e, t) = [e EXCEPT !.plan = plan]
    BY <2>1 DEF ReducePlan
  <2>3. QED
    BY <1>5, <2>2 DEF IsJournal
<1>9. QED
  BY <1>5, <1>7, <1>8

\* The projection takes the result of an upload in order: its group waits for it,
\* and the product action before it has reduced items and publication.
LEMMA ResultIsDue ==
    ASSUME Inv, NEW i \in MediaItems, MediaInFlight(i), InOrder(i), NEW class
    PROVE  ProjectMediaOk(MediaEnded(db, i, class), i)
<1>1. PICK t \in Transfers : t = TransferOfItem(i)
  BY MediaItem
<1>2. PICK g : g = GroupOf[i]
  OBVIOUS
<1>3. PICK s : s = db.rows[t]
  OBVIOUS
<1>4. /\ JournalOk(db) /\ InTurn(i) /\ Awaited(i) /\ PlanOf(t) /\ PublishedOk(t)
      /\ i \in TransferItems(t) /\ g \in GroupTargetsOf(t) /\ i \in Items
      /\ db.media[i] \in OpenMediaStates /\ db.upload[i].attempt # "none"
  <2>1. i \in Items /\ i \in TransferItems(t) /\ g \in GroupTargetsOf(t)
    BY <1>1, <1>2, MediaItem
  <2>2. db.media[i] \in OpenMediaStates /\ db.upload[i].attempt # "none"
    BY <2>1, Tried DEF MediaInFlight, OpenMediaStates
  <2>3. QED
    BY <2>1, <2>2, InvParts DEF ActionsOk, PlanOk, ProjectionOk
<1>5. db.plan[t] # "superseded"
  BY <1>4 DEF PlanOf
<1>6. \A a \in ActionsOf(t) : g \in GroupTargets(a) => db.action[a].state = "terminal"
  BY <1>1, <1>2, <1>4 DEF InTurn, Carried
<1>7. s.group[g].publication \in PublicationEnded
  BY <1>3, <1>4, <1>5, <1>6 DEF PublishedOk
<1>8. DOMAIN s.item = TransferItems(t)
  BY <1>3, <1>4, JournalTypes DEF RowsOk
<1>9. ASSUME NEW j \in TransferItems(t), GroupOf[j] = g
      PROVE  s.item[j].state = "terminal"
  <2>1. \A a \in ActionsOf(t) : j \in MembersOf[a] => db.action[a].state = "terminal"
    BY <1>6, <1>9 DEF GroupTargets
  <2>2. QED
    BY <1>3, <1>4, <1>5, <2>1 DEF PublishedOk
<1>10. AllItemsTerminal(s, g)
  <2>1. i \in ItemsOf(s, g)
    BY <1>2, <1>4, <1>8 DEF ItemsOf
  <2>2. QED
    BY <1>8, <1>9, <2>1 DEF AllItemsTerminal, ItemsOf
<1>11. /\ IsRunning(s, {"media"})
       /\ s.group[g].media = "running" /\ s.group[g].overall = "running"
  BY <1>1, <1>2, <1>3, <1>4 DEF Awaited, GroupRowOf
<1>12. ApplyPublicationMediaResultOk(s, g)
  BY <1>7, <1>10, <1>11 DEF ApplyPublicationMediaResultOk
<1>13. PICK d : d = MediaEnded(db, i, class)
  OBVIOUS
<1>14. d.rows = db.rows
  BY <1>4, <1>13, EndedRows
<1>15. ProjectMediaOk(d, i)
  BY <1>1, <1>2, <1>3, <1>12, <1>14 DEF ProjectMediaOk
<1>16. QED
  BY <1>13, <1>15

LEMMA InvResultIsAccepted == Inv => WorkerResultIsAccepted
<1> SUFFICES ASSUME Inv, NEW i \in MediaItems, worker[i].step \in {"send", "record"},
                    IsPresent(i), InOrder(i), NEW answer \in MediaAnswers
             PROVE  RecordResultOk(db, i, answer)
  BY DEF WorkerResultIsAccepted
<1>1. StageOk(i) /\ SentOk(i)
  BY InvParts, MediaItem DEF UploadsOk
<1>2. db.media[i] = "dispatching" /\ db.upload[i].attempt = "open"
  BY <1>1 DEF StageOk, SentOk
<1>3. MediaInFlight(i)
  BY <1>2 DEF MediaInFlight
<1>4. LockMediaActionOk(db, i)
  BY <1>3, UnderWayIsLocked
<1>5. FinishMediaOk(db, i, AnswerClass(answer))
  BY <1>3, <1>4, ResultIsDue DEF FinishMediaOk
<1>6. QED
  BY <1>2, <1>4, <1>5 DEF RecordResultOk

\* The transaction of a worker that has uploaded accepts its answer, whatever has
\* happened to authorization, plan and groups since, unless another plan took the
\* identity back or the upload began out of order (recordResult, finishMediaAction,
\* ApplyPublicationMediaResult).
THEOREM ResultStaysAccepted == Spec => []WorkerResultIsAccepted
<1>1. Inv => WorkerResultIsAccepted
  BY InvResultIsAccepted
<1>2. QED
  BY <1>1, InvHolds, PTL


-----------------------------------------------------------------------------
(* What the uploads come to. *)

\* Among the uploads of a group that has ended, the attempted ones decide: the
\* others were skipped or withdrawn.
LEMMA AttemptedDecide ==
    ASSUME Inv, NEW i \in MediaItems, AttemptedMedia(i) # {}, GroupMediaEnded(db, i),
           NEW classes, classes = {db.media[j] : j \in AttemptedMedia(i)},
           NEW status, status = MediaStatus(GroupMediaClass(db, i))
    PROVE  /\ status # "running"
           /\ status = "succeeded" => classes = {"success"}
           /\ status = "unresolved" <=> classes \cap AttentionClasses # {}
<1>1. MediaOfGroup(db, i) \subseteq Items
  BY MediaItem, ItemsOfTransfer DEF MediaOfGroup
<1>2. PICK all : all = {db.media[j] : j \in MediaOfGroup(db, i)}
  OBVIOUS
<1>3. AttemptedMedia(i) = {j \in MediaOfGroup(db, i) : db.upload[j].attempt # "none"}
  BY DEF AttemptedMedia
<1>4. ASSUME NEW j \in MediaOfGroup(db, i)
      PROVE  /\ j \in AttemptedMedia(i) =>
                   db.media[j] \in {"success", "rejected"} \cup AttentionClasses
             /\ j \notin AttemptedMedia(i) => db.media[j] \in {"skipped", "superseded"}
  <2>1. StageOk(j) /\ db.media[j] \in MediaStates
    BY <1>1, InvParts, JournalTypes DEF UploadsOk
  <2>2. db.media[j] \notin OpenMediaStates /\ db.media[j] # "none"
    BY DEF GroupMediaEnded, MediaOfGroup
  <2>3. j \in AttemptedMedia(i) <=> db.media[j] \in TriedStates
    BY <1>3, <2>1 DEF StageOk
  <2>4. QED
    BY <2>1, <2>2, <2>3 DEF MediaStates, TriedStates, UnderWay, OpenMediaStates
<1>5. classes \subseteq all /\ classes # {}
  BY <1>2, <1>3
<1>6. \A c \in classes : c \in {"success", "rejected"} \cup AttentionClasses
  BY <1>3, <1>4
<1>7. \A c \in all \ classes : c \in {"skipped", "superseded"}
  BY <1>2, <1>4
<1>8. all \cap AttentionClasses # {} <=> classes \cap AttentionClasses # {}
  BY <1>5, <1>7 DEF AttentionClasses
<1>9. "rejected" \in all <=> "rejected" \in classes
  BY <1>5, <1>7
<1>10. PICK class : class = GroupMediaClass(db, i)
  OBVIOUS
<1>11. class = IF all \cap AttentionClasses # {} THEN "unresolved"
               ELSE IF "rejected" \in all THEN "rejected"
               ELSE IF "success" \in all THEN "success"
               ELSE "skipped"
  BY <1>2, <1>10 DEF GroupMediaClass
<1>12. /\ status = "succeeded" <=> class = "success"
       /\ status = "unresolved" <=> class = "unresolved"
       /\ status # "running"
  BY <1>10, <1>11 DEF MediaStatus
<1>13. status = "unresolved" <=> classes \cap AttentionClasses # {}
  BY <1>8, <1>11, <1>12
<1>14. status = "succeeded" => classes = {"success"}
  <2>1. SUFFICES ASSUME status = "succeeded" PROVE classes = {"success"}
    OBVIOUS
  <2>2. classes \cap AttentionClasses = {} /\ "rejected" \notin classes
    BY <1>8, <1>9, <1>11, <1>12, <2>1
  <2>3. \A c \in classes : c = "success"
    BY <1>6, <2>2
  <2>4. QED
    BY <1>5, <2>3
<1>15. QED
  BY <1>12, <1>13, <1>14

LEMMA InvOutcomesAgree == Inv => MediaOutcomesAgree
<1> SUFFICES ASSUME Inv PROVE MediaOutcomesAgree
  OBVIOUS
<1>1. OwnersOk /\ PlanOk /\ ProjectionOk
  BY InvParts
<1>2. MediaProjectionFollowsJournal
  <2>1. ASSUME NEW i \in MediaItems, NEW t, t = TransferOfItem(i),
               NEW status, status = db.rows[t].group[GroupOf[i]].media,
               NEW classes, classes = {db.media[j] : j \in AttemptedMedia(i)},
               classes # {}, GroupMediaEnded(db, i),
               \A j \in MediaOfGroup(db, i) : InOrder(j)
        PROVE  \/ status = "running" /\ Aborted(t)
               \/ /\ status # "running"
                  /\ status = "succeeded" => classes = {"success"}
                  /\ status = "unresolved" <=> classes \cap AttentionClasses # {}
    <3>1. AttemptedMedia(i) # {}
      BY <2>1
    <3>2. Settled(i)
      BY <1>1 DEF ProjectionOk
    <3>3. GroupRowOf(i).media = status
      BY <2>1 DEF GroupRowOf
    <3>4. \/ status = "running" /\ Aborted(t)
          \/ status = MediaStatus(GroupMediaClass(db, i))
      BY <2>1, <3>1, <3>2, <3>3 DEF Settled
    <3>5. QED
      BY <2>1, <3>1, <3>4, AttemptedDecide
  <2>2. QED
    BY <2>1 DEF MediaProjectionFollowsJournal
<1>3. PlanWaitsForMedia
  <2>1. ASSUME NEW t \in Transfers, NEW open,
               open = {i \in TransferItems(t) : db.media[i] \in OpenMediaStates}
        PROVE  /\ db.plan[t] = "terminal" => open = {}
               /\ db.plan[t] = "executing" /\ open = {} =>
                     \E a \in ActionsOf(t) : db.action[a].state \notin EndedStates
    <3>1. PlanOf(t)
      BY <1>1 DEF PlanOk
    <3>2. open = {} <=> \A i \in TransferItems(t) : db.media[i] \notin OpenMediaStates
      BY <2>1
    <3>3. QED
      BY <3>1, <3>2 DEF PlanOf, PlanActionsEnded
  <2>2. QED
    BY <2>1 DEF PlanWaitsForMedia
<1>4. MediaIdentityIsBound
  BY <1>1 DEF OwnersOk, OwnerOk, MediaIdentityIsBound
<1>5. QED
  BY <1>2, <1>3, <1>4 DEF MediaOutcomesAgree

\* When the last upload of a group ends, in whatever order, the projection shows
\* the worst of the attempted ones; the plan is over with its last upload and not
\* before; and an upload in flight owns its identity (applyGroupResult,
\* reducePublicationPlan, finishMediaAction).
THEOREM OutcomesStayAgreed == Spec => []MediaOutcomesAgree
<1>1. Inv => MediaOutcomesAgree
  BY InvOutcomesAgree
<1>2. QED
  BY <1>1, InvHolds, PTL
=============================================================================
