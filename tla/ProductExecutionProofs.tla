------------------------ MODULE ProductExecutionProofs ------------------------
(***************************************************************************)
(* The dispatcher, Wildberries, the error feed, crashes and the plans of   *)
(* other transfers leave journal, identities and projection in agreement,  *)
(* for any plans that JournalAssumption allows.                            *)
(*                                                                         *)
(* The inductive invariant Inv says, part by part:                         *)
(*   JournalOk, RemoteOk  the values of the columns and of the rest;       *)
(*   StagesOk      an action, its attempt, its retry, its members and the  *)
(*                 calls it has made are in stages that go together;       *)
(*   JobsOk        a goroutine between two transactions finds its action   *)
(*                 in the state the first one left;                        *)
(*   OwnersOk      an identity belongs to the action that may still create *)
(*                 its product;                                            *)
(*   EvidenceOk    what the journal records of a product is true of        *)
(*                 Wildberries, including what is under way there;         *)
(*   PlanOk        a plan ends when its last action does;                  *)
(*   ProjectionOk  the rows of a transfer are those that its actions'      *)
(*                 stages lead to.                                         *)
(* The properties follow from the later parts, which are inductive only    *)
(* together with the earlier ones: what a transaction checks is a stage or *)
(* an owner, and what a goroutine concludes it concludes from what it saw. *)
(***************************************************************************)
EXTENDS ProductExecution, SequenceTheorems, TLAPS

-----------------------------------------------------------------------------
(* The inductive invariant. *)

PlanStates == {"awaiting_authorization", "executing", "terminal", "superseded"}

ActionStates == {"planned"} \cup InFlightStates \cup EndedStates

AttemptStates == {"none", "open"} \cup Answers

ActionRows ==
    [state : ActionStates, auth : 0..MaxAuths, attempt : AttemptStates,
     retry : AttemptStates, baseline : [Vendors -> Nat]]

IdentityStates ==
    {"remote_missing", "remote_present", "rejected", "mutation_pending", "blocked_uncertain"}

IdentityRows == [state : IdentityStates, active : Actions \cup {Free}]

MediaStates == {"none", "planned", "skipped", "superseded"}

\* The value d of ProductJournal has its nine fields.
IsJournal(d) ==
    d = [rows |-> d.rows, plan |-> d.plan, auth |-> d.auth, action |-> d.action,
         member |-> d.member, media |-> d.media, upload |-> d.upload,
         attributed |-> d.attributed, identity |-> d.identity]

JournalOk(d) ==
    /\ IsJournal(d)
    /\ d.plan \in [Transfers -> PlanStates]
    /\ d.auth \in [Transfers -> {s \in Seq(AuthStates) : Len(s) <= MaxAuths}]
    /\ d.action \in [Actions -> ActionRows]
    /\ d.member \in [Items -> Classes \cup {NoClass}]
    /\ d.media \in [Items -> MediaStates]
    /\ d.upload = [i \in Items |-> NoAttempt]
    /\ d.attributed \in SUBSET Items
    /\ d.identity \in [Vendors -> IdentityRows]

RemoteOk ==
    /\ job \in [Actions -> JobType]
    /\ due \in [Actions -> SUBSET {"retry", "deadline"}]
    /\ card \in [Vendors -> CardStates]
    /\ listed \in [Vendors -> Nat]
    /\ stored \in [Vendors -> Nat]
    /\ requests \subseteq Actions \X Vendors \X {"attempt", "retry"}
    /\ made \subseteq Actions \X Vendors
    /\ sends \in [Actions -> Nat]
    /\ outside \in [Vendors -> {"none", "open", "listed", "counted"}]

\* The action, its attempt and retry, its members and its job go together.
StageOk(a) ==
    LET row == db.action[a] IN
    /\ row.state \in {"planned", "superseded"} => row.attempt = "none"
    /\ row.state = "dispatching" <=> row.attempt = "open"
    /\ row.state = "reconciling" => row.attempt \in {"accepted", "uncertain", "empty"}
    /\ row.attempt = "none" => sends[a] = 0
    /\ row.retry # "none" => row.attempt = "empty"
    /\ row.retry = "open" => row.state = "reconciling"
    /\ row.state \in {"planned", "dispatching"} => PendingMembers(db, a) = MembersOf[a]
    /\ sends[a] <= 2
    /\ sends[a] = 2 => row.retry # "none"

JobOk(a) ==
    LET row == db.action[a] IN
    /\ (job[a].step = "decide" /\ job[a].kind = "reconcile") => row.state = "reconciling"
    /\ (job[a].step \in {"send", "record"} /\ job[a].kind = "dispatch") =>
          row.state = "dispatching"
    /\ (job[a].step \in {"send", "record"} /\ job[a].kind = "reconcile") =>
          row.retry = "open"
    /\ job[a].step = "send" => sends[a] <= (IF job[a].kind = "dispatch" THEN 0 ELSE 1)

Attempted(a) == db.action[a].attempt # "none"

\* Who owns the identity of a vendor code.
OwnerOk(a) ==
    Attempted(a) =>
        /\ DistinctVendorCodes(a)
        /\ \A i \in MembersOf[a] :
              LET identity == db.identity[VendorOf[i]] IN
              /\ InFlight(a) /\ db.member[i] = NoClass => identity.active = a
              /\ db.member[i] \in {"unresolved", "internal_error"} =>
                    identity = [state |-> "blocked_uncertain", active |-> a]

IdentityOk ==
    \A v \in Vendors :
        db.identity[v].state = "mutation_pending" => db.identity[v].active \in Actions

NoRequestsFor(v) == \A r \in requests : r[2] # v

\* A request was journaled first.
RequestOk(r) ==
    /\ r[2] \in VendorCodes(r[1])
    /\ Attempted(r[1])
    /\ r[3] = "retry" => db.action[r[1]].retry # "none"

\* Nothing of the attempt of a has reached Wildberries.
Untried(a) ==
    \/ ~Attempted(a)
    \/ /\ job[a].kind = "dispatch"
       /\ \/ job[a].step = "send"
          \/ job[a].step = "record" /\ job[a].answer \in ProvenAnswers

NothingOf(a) ==
    /\ \A r \in requests : r[1] # a
    /\ \A m \in made : m[1] # a

\* Since a was attempted at most one thing has happened to v, and it was of a.
OnlyOf(a, v) ==
    LET since == db.action[a].baseline[v] IN
    /\ \A r \in requests : r[2] = v => r = <<a, v, "attempt">>
    /\ \/ listed[v] = since /\ ~(<<a, v, "attempt">> \in requests /\ <<a, v>> \in made)
       \/ listed[v] = since + 1 /\ <<a, v, "attempt">> \notin requests /\ <<a, v>> \notin made

SawAbsent(a, v) ==
    /\ job[a].step = "decide"
    /\ job[a].kind = "reconcile"
    /\ job[a].seen[v] = "absent"

\* No batch of an upload made outside was counted for an attempt on v.
Uncounted(v) == outside[v] # "counted"

EvidenceOf(a, i) ==
    LET v == VendorOf[i] IN
    (InFlight(a) /\ db.member[i] = NoClass /\ SentOnce(v) /\ Uncounted(v)) =>
        /\ (card[v] = "absent" \/ SawAbsent(a, v)) => OnlyOf(a, v)
        /\ (card[v] = "absent" /\ Untried(a)) =>
              NoRequestsFor(v) /\ listed[v] = db.action[a].baseline[v]

VendorEvidence(v) ==
    /\ stored[v] <= listed[v]
    /\ \A a \in Actions : Attempted(a) => db.action[a].baseline[v] <= stored[v]
    /\ card[v] = "absent" => \A m \in made : m[2] # v
    /\ \A a \in Actions : job[a].seen[v] # "absent" => card[v] # "absent"
    /\ (card[v] = "absent" /\ SentOnce(v) /\ Uncounted(v) /\ db.identity[v].active = Free) =>
          NoRequestsFor(v) /\ (outside[v] = "listed" \/ listed[v] = stored[v])

RejectionOf(a, i) ==
    LET v == VendorOf[i] IN
    (db.member[i] = "rejected" /\ SentOnce(v) /\ Uncounted(v)) =>
        <<a, v>> \notin made /\ <<a, v, "attempt">> \notin requests

EvidenceOk ==
    /\ \A r \in requests : RequestOk(r)
    /\ \A v \in Vendors : VendorEvidence(v)
    /\ \A a \in Actions : Untried(a) => NothingOf(a)
    /\ \A a \in Actions : \A i \in MembersOf[a] : EvidenceOf(a, i)
    /\ \A a \in Actions : \A i \in MembersOf[a] : RejectionOf(a, i)

PlanOf(t) ==
    /\ db.plan[t] = "executing" => ~PlanActionsEnded(db, t)
    /\ db.plan[t] = "terminal" => PlanActionsEnded(db, t)

PlanOk == \A t \in Transfers : PlanOf(t)

\* The rows of the projection.
GroupTargetsOf(t) == {GroupOf[i] : i \in TransferItems(t)}

TransferRows ==
    [phase : {"awaiting_authorization", "finished"} \cup ExecutingPhases,
     outcome : {"running", "unresolved", "rejected", "partial", "succeeded"},
     attention : BOOLEAN]

GroupColumn == {"not_started", "running", "succeeded", "rejected", "unresolved", "skipped"}

GroupRows ==
    [preparation : GroupColumn, publication : GroupColumn, media : GroupColumn,
     overall : {"running", "unresolved", "rejected", "partial", "success", "succeeded", "skipped"},
     attention : BOOLEAN, plan : {ThePlan, NoPlan}]

ItemRows ==
    [state : {"pending", "running", "terminal"}, class : Classes \cup {NoClass},
     action : Actions \cup {NoAction}, closed : BOOLEAN]

RowsOk(s, t) ==
    /\ s = [transfer |-> s.transfer, group |-> s.group, item |-> s.item]
    /\ s.transfer \in TransferRows
    /\ s.group \in [GroupTargetsOf(t) -> GroupRows]
    /\ s.item \in [TransferItems(t) -> ItemRows]

NotEnded(a) == db.action[a].state \in {"planned"} \cup InFlightStates

\* What the projection of a transfer owes the actions of its plan.
ProjectionOf(t) ==
    LET s == db.rows[t] IN
    /\ RowsOk(s, t)
    /\ db.plan[t] # "superseded" =>
          /\ \A g \in GroupTargetsOf(t) :
                s.group[g].plan = ThePlan /\ s.group[g].preparation = "succeeded"
          /\ \A i \in TransferItems(t) \ PublishedItems(t) : s.item[i].state = "terminal"
    /\ \A a \in ActionsOf(t) :
          /\ db.action[a].state = "superseded" <=> db.plan[t] = "superseded"
          /\ NotEnded(a) =>
                /\ s.transfer.outcome = "running"
                /\ s.transfer.phase # "finished"
                /\ \A g \in GroupTargets(a) :
                      s.group[g].overall = "running" /\ s.group[g].media \in {"running", "skipped"}
          /\ InFlight(a) => s.transfer.phase \in ExecutingPhases

FollowsOf(a) ==
    \A i \in MembersOf[a] :
        LET row == db.rows[TransferOf[a]].item[i] IN
        CASE db.action[a].state = "terminal" ->
                row.state = "terminal" /\ row.class = db.member[i]
          [] db.action[a].state = "superseded" ->
                row.state = "running" /\ row.action = NoAction
          [] OTHER ->
                row.state = "running" /\ row.action = a

ProjectionOk ==
    /\ db.rows = [t \in Transfers |-> db.rows[t]]
    /\ \A t \in Transfers : ProjectionOf(t)
    /\ \A a \in Actions : FollowsOf(a)

StagesOk == \A a \in Actions : StageOk(a)

JobsOk == \A a \in Actions : JobOk(a)

OwnersOk == IdentityOk /\ \A a \in Actions : OwnerOk(a)

Inv ==
    /\ JournalOk(db)
    /\ RemoteOk
    /\ StagesOk
    /\ JobsOk
    /\ OwnersOk
    /\ EvidenceOk
    /\ PlanOk
    /\ ProjectionOk

-----------------------------------------------------------------------------
(* The fields of the journal. *)

\* Unfolds the types of a journal for the provers.
LEMMA JournalTypes ==
    ASSUME NEW d, JournalOk(d)
    PROVE  /\ IsJournal(d)
           /\ d.plan \in [Transfers -> PlanStates]
           /\ d.auth \in [Transfers -> {s \in Seq(AuthStates) : Len(s) <= MaxAuths}]
           /\ d.action \in [Actions -> ActionRows]
           /\ d.member \in [Items -> Classes \cup {NoClass}]
           /\ d.media \in [Items -> MediaStates]
           /\ d.upload = [i \in Items |-> NoAttempt]
           /\ d.attributed \in SUBSET Items
           /\ d.identity \in [Vendors -> IdentityRows]
BY DEF JournalOk

\* A journal is made of its fields.
LEMMA JournalFromFields ==
    ASSUME NEW d, NEW e, JournalOk(d), IsJournal(e), e.upload = d.upload,
           e.plan \in [Transfers -> PlanStates],
           e.auth \in [Transfers -> {s \in Seq(AuthStates) : Len(s) <= MaxAuths}],
           e.action \in [Actions -> ActionRows],
           e.member \in [Items -> Classes \cup {NoClass}],
           e.media \in [Items -> MediaStates],
           e.attributed \in SUBSET Items,
           e.identity \in [Vendors -> IdentityRows]
    PROVE  JournalOk(e)
BY DEF JournalOk

\* What an EXCEPT of one field leaves alone.
LEMMA SetRows ==
    ASSUME NEW d, IsJournal(d), NEW x, NEW e, e = [d EXCEPT !.rows = x]
    PROVE  /\ IsJournal(e) /\ e.rows = x /\ e.plan = d.plan /\ e.auth = d.auth
           /\ e.action = d.action /\ e.member = d.member /\ e.media = d.media
           /\ e.upload = d.upload /\ e.attributed = d.attributed /\ e.identity = d.identity
BY DEF IsJournal

LEMMA SetPlan ==
    ASSUME NEW d, IsJournal(d), NEW x, NEW e, e = [d EXCEPT !.plan = x]
    PROVE  /\ IsJournal(e) /\ e.rows = d.rows /\ e.plan = x /\ e.auth = d.auth
           /\ e.action = d.action /\ e.member = d.member /\ e.media = d.media
           /\ e.upload = d.upload /\ e.attributed = d.attributed /\ e.identity = d.identity
BY DEF IsJournal

LEMMA SetAuth ==
    ASSUME NEW d, IsJournal(d), NEW x, NEW e, e = [d EXCEPT !.auth = x]
    PROVE  /\ IsJournal(e) /\ e.rows = d.rows /\ e.plan = d.plan /\ e.auth = x
           /\ e.action = d.action /\ e.member = d.member /\ e.media = d.media
           /\ e.upload = d.upload /\ e.attributed = d.attributed /\ e.identity = d.identity
BY DEF IsJournal

LEMMA SetAction ==
    ASSUME NEW d, IsJournal(d), NEW x, NEW e, e = [d EXCEPT !.action = x]
    PROVE  /\ IsJournal(e) /\ e.rows = d.rows /\ e.plan = d.plan /\ e.auth = d.auth
           /\ e.action = x /\ e.member = d.member /\ e.media = d.media
           /\ e.upload = d.upload /\ e.attributed = d.attributed /\ e.identity = d.identity
BY DEF IsJournal

-----------------------------------------------------------------------------
(* What each part of the invariant depends on. *)

LEMMA InvParts ==
    ASSUME Inv
    PROVE  /\ JournalOk(db) /\ RemoteOk /\ StagesOk /\ JobsOk /\ OwnersOk
           /\ EvidenceOk /\ PlanOk /\ ProjectionOk
BY DEF Inv

LEMMA InvPartsNext ==
    ASSUME JournalOk(db)', RemoteOk', StagesOk', JobsOk', OwnersOk',
           EvidenceOk', PlanOk', ProjectionOk'
    PROVE  Inv'
BY DEF Inv

\* Ids of the constants are not null.
LEMMA Assumed ==
    /\ TransferOf \in [Actions -> Transfers]
    /\ MembersOf \in [Actions -> SUBSET Items]
    /\ \A a \in Actions : MembersOf[a] # {}
    /\ VendorOf \in [Items -> Vendors]
    /\ Free \notin Actions /\ NoAction \notin Actions /\ NoClass \notin Classes
    /\ NoPlan # ThePlan
BY JournalAssumption DEF Classes

LEMMA OneOwner ==
    ASSUME NEW a \in Actions, NEW b \in Actions, NEW i \in MembersOf[a], i \in MembersOf[b]
    PROVE  a = b
BY JournalAssumption

LEMMA MembersOfTransfer ==
    ASSUME NEW a \in Actions
    PROVE  /\ TransferOf[a] \in Transfers
           /\ a \in ActionsOf(TransferOf[a])
           /\ MembersOf[a] \subseteq PublishedItems(TransferOf[a])
           /\ MembersOf[a] \subseteq TransferItems(TransferOf[a])
           /\ MembersOf[a] \subseteq Items
           /\ VendorCodes(a) \subseteq Vendors
           /\ \A i \in MembersOf[a] : VendorOf[i] \in VendorCodes(a) /\ VendorOf[i] \in Vendors
BY Assumed DEF ActionsOf, PublishedItems, TransferItems, VendorCodes

LEMMA OtherTransfer ==
    ASSUME NEW a \in Actions, NEW t \in Transfers, t # TransferOf[a]
    PROVE  MembersOf[a] \cap TransferItems(t) = {}
<1>1. TransferItems(t) \cap TransferItems(TransferOf[a]) = {}
  BY MembersOfTransfer, JournalAssumption
<1>2. QED
  BY <1>1, MembersOfTransfer

LEMMA FollowsFrame ==
    ASSUME NEW a \in Actions, FollowsOf(a),
           db'.rows[TransferOf[a]].item = db.rows[TransferOf[a]].item,
           \/ db'.action[a].state = db.action[a].state
           \/ {db.action[a].state, db'.action[a].state} \cap EndedStates = {},
           db.action[a].state = "terminal" =>
               \A i \in MembersOf[a] : db'.member[i] = db.member[i]
    PROVE  FollowsOf(a)'
<1> SUFFICES ASSUME NEW i \in MembersOf[a]
             PROVE  LET row == db'.rows[TransferOf[a]].item[i] IN
                    CASE db'.action[a].state = "terminal" ->
                            row.state = "terminal" /\ row.class = db'.member[i]
                      [] db'.action[a].state = "superseded" ->
                            row.state = "running" /\ row.action = NoAction
                      [] OTHER ->
                            row.state = "running" /\ row.action = a
  BY DEF FollowsOf
<1>1. CASE db'.action[a].state = "terminal"
  BY <1>1 DEF FollowsOf, EndedStates
<1>2. CASE db'.action[a].state = "superseded"
  BY <1>2 DEF FollowsOf, EndedStates
<1>3. CASE db'.action[a].state \notin EndedStates
  BY <1>3 DEF FollowsOf, EndedStates
<1>4. QED
  BY <1>1, <1>2, <1>3 DEF EndedStates

LEMMA ProjectionFrame ==
    ASSUME NEW t \in Transfers, ProjectionOf(t), db'.rows[t] = db.rows[t],
           db'.plan[t] = "superseded" <=> db.plan[t] = "superseded",
           \A a \in ActionsOf(t) :
              /\ db'.action[a].state = "superseded" <=> db.action[a].state = "superseded"
              /\ NotEnded(a)' => NotEnded(a)
              /\ InFlight(a)' => InFlight(a)
    PROVE  ProjectionOf(t)'
<1>1. PICK s : s = db.rows[t]
  OBVIOUS
<1>2. db'.rows[t] = s
  BY <1>1
<1>3. /\ RowsOk(s, t)
      /\ db.plan[t] # "superseded" =>
            /\ \A g \in GroupTargetsOf(t) :
                  s.group[g].plan = ThePlan /\ s.group[g].preparation = "succeeded"
            /\ \A i \in TransferItems(t) \ PublishedItems(t) : s.item[i].state = "terminal"
  BY <1>1 DEF ProjectionOf
<1>4. ASSUME NEW a \in ActionsOf(t)
      PROVE  /\ db'.action[a].state = "superseded" <=> db'.plan[t] = "superseded"
             /\ NotEnded(a)' =>
                   /\ s.transfer.outcome = "running"
                   /\ s.transfer.phase # "finished"
                   /\ \A g \in GroupTargets(a) :
                         s.group[g].overall = "running" /\ s.group[g].media \in {"running", "skipped"}
             /\ InFlight(a)' => s.transfer.phase \in ExecutingPhases
  BY <1>1, <1>4 DEF ProjectionOf
<1>5. QED
  BY <1>2, <1>3, <1>4 DEF ProjectionOf

LEMMA PlanFrame ==
    ASSUME NEW t \in Transfers, PlanOf(t), db'.plan[t] = db.plan[t],
           \A a \in ActionsOf(t) :
              db'.action[a].state \in EndedStates <=> db.action[a].state \in EndedStates,
           \A i \in TransferItems(t) :
              db'.media[i] \in OpenMediaStates <=> db.media[i] \in OpenMediaStates
    PROVE  PlanOf(t)'
BY DEF PlanOf, PlanActionsEnded

\* A step that adds no evidence, frees no identity and leaves no more open.
LEMMA EvidenceFrame ==
    ASSUME EvidenceOk, RemoteOk, RemoteOk', UNCHANGED <<card, listed, stored, requests, made, outside>>,
           \A v \in Vendors : db'.identity[v].active = Free => db.identity[v].active = Free,
           \A a \in Actions :
              /\ Attempted(a)' <=> Attempted(a)
              /\ db'.action[a].baseline = db.action[a].baseline
              /\ db'.action[a].retry = "none" => db.action[a].retry = "none"
              /\ InFlight(a)' => InFlight(a)
              /\ Untried(a)' => Untried(a)
              /\ \A i \in MembersOf[a] :
                    /\ db'.member[i] = NoClass => db.member[i] = NoClass
                    /\ db'.member[i] = "rejected" => db.member[i] = "rejected"
                    /\ (InFlight(a)' /\ db'.member[i] = NoClass /\ SawAbsent(a, VendorOf[i])') =>
                          SawAbsent(a, VendorOf[i]) \/ card[VendorOf[i]] = "absent"
              /\ \A v \in Vendors :
                    job'[a].seen[v] # "absent" => job[a].seen[v] # "absent" \/ card[v] # "absent"
    PROVE  EvidenceOk'
<1>1. \A v \in Vendors : SentOnce(v)' => SentOnce(v)
  BY DEF SentOnce
<1>2. ASSUME NEW v \in Vendors PROVE VendorEvidence(v)'
  BY <1>1, <1>2 DEF EvidenceOk, VendorEvidence, NoRequestsFor, Uncounted
<1>3. ASSUME NEW a \in Actions, Untried(a)' PROVE NothingOf(a)'
  BY <1>3 DEF EvidenceOk, NothingOf
<1>4. ASSUME NEW a \in Actions, NEW i \in MembersOf[a] PROVE EvidenceOf(a, i)'
  <2> DEFINE v == VendorOf[i]
  <2>1. v \in Vendors
    BY MembersOfTransfer
  <2>2. EvidenceOf(a, i)
    BY DEF EvidenceOk
  <2>3. OnlyOf(a, v) => OnlyOf(a, v)'
    BY DEF OnlyOf
  <2>4. NoRequestsFor(v) => NoRequestsFor(v)'
    BY DEF NoRequestsFor
  <2>5. SentOnce(v)' => SentOnce(v)
    BY <1>1, <2>1
  <2>6. QED
    BY <2>1, <2>2, <2>3, <2>4, <2>5 DEF EvidenceOf, Uncounted
<1>5. ASSUME NEW a \in Actions, NEW i \in MembersOf[a] PROVE RejectionOf(a, i)'
  <2>1. VendorOf[i] \in Vendors
    BY MembersOfTransfer
  <2>2. RejectionOf(a, i)
    BY DEF EvidenceOk
  <2>3. QED
    BY <1>1, <2>1, <2>2 DEF RejectionOf, Uncounted
<1>6. ASSUME NEW r \in requests PROVE RequestOk(r)'
  <2>1. r[1] \in Actions /\ RequestOk(r)
    BY DEF RemoteOk, EvidenceOk
  <2>2. QED
    BY <2>1 DEF RequestOk
<1>7. QED
  BY <1>2, <1>3, <1>4, <1>5, <1>6 DEF EvidenceOk

LEMMA StageFrame ==
    ASSUME NEW a \in Actions, StageOk(a), db'.action[a] = db.action[a], sends'[a] = sends[a],
           \A i \in MembersOf[a] : db'.member[i] = db.member[i]
    PROVE  StageOk(a)'
<1>1. PendingMembers(db, a)' = PendingMembers(db, a)
  BY DEF PendingMembers
<1>2. QED
  BY <1>1 DEF StageOk

LEMMA OwnerFrame ==
    ASSUME NEW a \in Actions, OwnerOk(a),
           Attempted(a)' => Attempted(a), InFlight(a)' => InFlight(a),
           \A i \in MembersOf[a] :
              /\ db'.member[i] = db.member[i]
              /\ db'.identity[VendorOf[i]].active = a \/ db.identity[VendorOf[i]].active # a
              /\ db.identity[VendorOf[i]] = [state |-> "blocked_uncertain", active |-> a] =>
                    db'.identity[VendorOf[i]] = [state |-> "blocked_uncertain", active |-> a]
    PROVE  OwnerOk(a)'
BY DEF OwnerOk

LEMMA JobFrame ==
    ASSUME NEW a \in Actions, JobOk(a),
           \/ job'[a].step = "none"
           \/ job'[a] = job[a] /\ db'.action[a] = db.action[a] /\ sends'[a] = sends[a]
    PROVE  JobOk(a)'
BY DEF JobOk

\* The journal keeps everything but its authorizations and an attribution,
\* nothing happens to Wildberries, and no job claims more than before.
LEMMA QuietStep ==
    ASSUME Inv, JournalOk(db)', RemoteOk', JobsOk',
           db'.rows = db.rows, db'.plan = db.plan, db'.action = db.action,
           db'.member = db.member, db'.media = db.media, db'.identity = db.identity,
           UNCHANGED <<card, listed, stored, requests, made, sends, outside>>,
           \A a \in Actions :
              /\ Untried(a)' => Untried(a)
              /\ \A i \in PendingMembers(db, a) :
                    SawAbsent(a, VendorOf[i])' =>
                       SawAbsent(a, VendorOf[i]) \/ card[VendorOf[i]] = "absent"
              /\ \A v \in Vendors :
                    job'[a].seen[v] # "absent" => job[a].seen[v] # "absent" \/ card[v] # "absent"
    PROVE  Inv'
<1>1. StagesOk'
  BY InvParts, StageFrame DEF StagesOk
<1>2. OwnersOk'
  <2>1. IdentityOk'
    BY InvParts DEF OwnersOk, IdentityOk
  <2>2. ASSUME NEW a \in Actions PROVE OwnerOk(a)'
    <3>1. OwnerOk(a)
      BY InvParts DEF OwnersOk
    <3>2. (Attempted(a)' => Attempted(a)) /\ (InFlight(a)' => InFlight(a))
      BY DEF Attempted, InFlight
    <3>3. QED
      BY <3>1, <3>2, OwnerFrame
  <2>3. QED
    BY <2>1, <2>2 DEF OwnersOk
<1>3. EvidenceOk'
  <2>1. \A a \in Actions : (Attempted(a)' <=> Attempted(a)) /\ (InFlight(a)' => InFlight(a))
    BY DEF Attempted, InFlight
  <2>4. \A a \in Actions : \A i \in MembersOf[a] :
           db.member[i] = NoClass => i \in PendingMembers(db, a)
    BY DEF PendingMembers
  <2>2. EvidenceOk /\ RemoteOk
    BY InvParts
  <2>5. \A a \in Actions :
              /\ Attempted(a)' <=> Attempted(a)
              /\ db'.action[a].baseline = db.action[a].baseline
              /\ db'.action[a].retry = "none" => db.action[a].retry = "none"
              /\ InFlight(a)' => InFlight(a)
              /\ Untried(a)' => Untried(a)
              /\ \A i \in MembersOf[a] :
                    /\ db'.member[i] = NoClass => db.member[i] = NoClass
                    /\ db'.member[i] = "rejected" => db.member[i] = "rejected"
                    /\ (InFlight(a)' /\ db'.member[i] = NoClass /\ SawAbsent(a, VendorOf[i])') =>
                          SawAbsent(a, VendorOf[i]) \/ card[VendorOf[i]] = "absent"
              /\ \A v \in Vendors :
                    job'[a].seen[v] # "absent" => job[a].seen[v] # "absent" \/ card[v] # "absent"
    BY <2>1, <2>4
  <2>6. \A v \in Vendors : db'.identity[v].active = Free => db.identity[v].active = Free
    OBVIOUS
  <2>3. QED
    BY <2>2, <2>5, <2>6, EvidenceFrame
<1>4. PlanOk'
  <2>1. ASSUME NEW t \in Transfers PROVE PlanOf(t)'
    <3>1. PlanOf(t)
      BY InvParts DEF PlanOk
    <3>2. QED
      BY <3>1, PlanFrame
  <2>2. QED
    BY <2>1 DEF PlanOk
<1>5. ProjectionOk'
  <2>1. ASSUME NEW t \in Transfers PROVE ProjectionOf(t)'
    <3>1. ProjectionOf(t)
      BY InvParts DEF ProjectionOk
    <3>2. \A a \in ActionsOf(t) : (NotEnded(a)' => NotEnded(a)) /\ (InFlight(a)' => InFlight(a))
      BY DEF NotEnded, InFlight
    <3>3. QED
      BY <3>1, <3>2, ProjectionFrame
  <2>2. ASSUME NEW a \in Actions PROVE FollowsOf(a)'
    <3>1. FollowsOf(a)
      BY InvParts DEF ProjectionOk
    <3>2. QED
      BY <3>1, FollowsFrame
  <2>3. db'.rows = [t \in Transfers |-> db'.rows[t]]
    BY InvParts DEF ProjectionOk
  <2>4. QED
    BY <2>1, <2>2, <2>3 DEF ProjectionOk
<1>6. QED
  BY <1>1, <1>2, <1>3, <1>4, <1>5, InvPartsNext

\* Jobs that end or begin to decide; those of the other actions go on.
LEMMA JobStep ==
    ASSUME Inv, JournalOk(db)',
           db'.rows = db.rows, db'.plan = db.plan, db'.action = db.action,
           db'.member = db.member, db'.media = db.media, db'.identity = db.identity,
           UNCHANGED <<card, listed, stored, requests, made, sends, outside>>,
           due' \in [Actions -> SUBSET {"retry", "deadline"}],
           job' \in [Actions -> JobType],
           \A a \in Actions :
              \/ job'[a] = job[a]
              \/ job'[a] = NoJob
              \/ /\ job'[a].step = "decide"
                 /\ job'[a].kind = "reconcile" => db.action[a].state = "reconciling"
                 /\ \A v \in Vendors : job'[a].seen[v] \in {"absent", card[v]}
                 /\ job'[a].kind = "reconcile" =>
                       \A i \in PendingMembers(db, a) :
                          job'[a].seen[VendorOf[i]] = card[VendorOf[i]]
    PROVE  Inv'
<1>1. RemoteOk'
  BY InvParts DEF RemoteOk
<1>2. JobsOk'
  <2>1. ASSUME NEW a \in Actions PROVE JobOk(a)'
    <3>1. JobOk(a)
      BY InvParts DEF JobsOk
    <3>2. CASE job'[a].step = "decide" /\ (job'[a].kind = "reconcile" => db.action[a].state = "reconciling")
      BY <3>2 DEF JobOk
    <3>3. CASE job'[a] = NoJob
      BY <3>1, <3>3, JobFrame DEF NoJob
    <3>4. CASE job'[a] = job[a]
      BY <3>1, <3>4, JobFrame
    <3>5. QED
      BY <3>2, <3>3, <3>4
  <2>2. QED
    BY <2>1 DEF JobsOk
<1>3. ASSUME NEW a \in Actions
      PROVE  /\ Untried(a)' => Untried(a)
             /\ \A i \in PendingMembers(db, a) :
                   SawAbsent(a, VendorOf[i])' =>
                      SawAbsent(a, VendorOf[i]) \/ card[VendorOf[i]] = "absent"
             /\ \A v \in Vendors :
                   job'[a].seen[v] # "absent" => job[a].seen[v] # "absent" \/ card[v] # "absent"
  <2>1. CASE job'[a] = job[a]
    BY <2>1 DEF Untried, Attempted, SawAbsent
  <2>2. CASE job'[a] = NoJob
    BY <2>2 DEF Untried, Attempted, SawAbsent, NoJob, NothingSeen
  <2>3. CASE /\ job'[a].step = "decide"
             /\ \A v \in Vendors : job'[a].seen[v] \in {"absent", card[v]}
             /\ job'[a].kind = "reconcile" =>
                   \A i \in PendingMembers(db, a) :
                      job'[a].seen[VendorOf[i]] = card[VendorOf[i]]
    <3>1. Untried(a)' => Untried(a)
      BY <2>3 DEF Untried, Attempted
    <3>2. QED
      BY <2>3, <3>1 DEF SawAbsent
  <2>4. QED
    BY <2>1, <2>2, <2>3
<1>4. QED
  BY <1>1, <1>2, <1>3, QuietStep

-----------------------------------------------------------------------------
(* Steps that leave the actions alone. *)

LEMMA AuthWritten ==
    ASSUME NEW d, JournalOk(d), NEW t \in Transfers, NEW x \in Seq(AuthStates),
           Len(x) <= MaxAuths, NEW e, e = [d EXCEPT !.auth[t] = x]
    PROVE  /\ JournalOk(e)
           /\ e.rows = d.rows /\ e.plan = d.plan /\ e.action = d.action /\ e.member = d.member
           /\ e.media = d.media /\ e.identity = d.identity /\ e.attributed = d.attributed
           /\ e.upload = d.upload
<1>1. PICK y : y = [d.auth EXCEPT ![t] = x]
  OBVIOUS
<1>2. e = [d EXCEPT !.auth = y]
  BY <1>1
<1>3. IsJournal(d) /\ d.auth \in [Transfers -> {s \in Seq(AuthStates) : Len(s) <= MaxAuths}]
  BY JournalTypes
<1>4. y \in [Transfers -> {s \in Seq(AuthStates) : Len(s) <= MaxAuths}]
  BY <1>1, <1>3
<1>5. /\ IsJournal(e) /\ e.rows = d.rows /\ e.plan = d.plan /\ e.auth = y
      /\ e.action = d.action /\ e.member = d.member /\ e.media = d.media
      /\ e.upload = d.upload /\ e.attributed = d.attributed /\ e.identity = d.identity
  <2>1. IsJournal(d)
    BY <1>3
  <2>2. QED
    BY <1>2, <2>1 DEF IsJournal
<1>6. QED
  BY ZenonT(40), <1>4, <1>5, JournalTypes, JournalFromFields

LEMMA ExpiredIsTyped ==
    ASSUME NEW s \in Seq(AuthStates)
    PROVE  Expired(s) \in Seq(AuthStates) /\ Len(Expired(s)) = Len(s)
<1>1. Len(s) \in Nat /\ DOMAIN s = 1..Len(s) /\ \A e \in 1..Len(s) : s[e] \in AuthStates
  OBVIOUS
<1>2. Expired(s) = [e \in 1..Len(s) |-> IF s[e] = "overdue" THEN "expired" ELSE s[e]]
  BY <1>1 DEF Expired
<1>3. \A e \in 1..Len(s) : Expired(s)[e] \in AuthStates
  BY <1>1, <1>2 DEF AuthStates
<1>4. Expired(s) \in [1..Len(s) -> AuthStates]
  BY <1>2, <1>3
<1>5. QED
  BY <1>1, <1>4, SeqDef

LEMMA AuthorizePlanKeepsInv ==
    ASSUME Inv, NEW t \in Transfers, AuthorizePlan(t)
    PROVE  Inv'
<1>1. JournalOk(db) /\ RemoteOk
  BY InvParts
<1>2. db.auth[t] \in Seq(AuthStates)
  BY <1>1, JournalTypes
<1>3. PICK x : x = Append(Expired(db.auth[t]), "authorized")
  OBVIOUS
<1>4. x \in Seq(AuthStates) /\ Len(x) <= MaxAuths
  <2>1. "authorized" \in AuthStates
    BY DEF AuthStates, OpenAuthorization
  <2>2. Expired(db.auth[t]) \in Seq(AuthStates) /\ Len(Expired(db.auth[t])) = Len(db.auth[t])
    BY <1>2, ExpiredIsTyped
  <2>3. Len(db.auth[t]) < MaxAuths /\ MaxAuths \in Nat /\ Len(db.auth[t]) \in Nat
    BY <1>2, InstanceAssumption DEF AuthorizePlan
  <2>4. x \in Seq(AuthStates) /\ Len(x) = Len(db.auth[t]) + 1
    BY <1>3, <2>1, <2>2, AppendProperties
  <2>5. QED
    BY <2>3, <2>4
<1>5. db' = [db EXCEPT !.auth[t] = x]
  BY <1>3 DEF AuthorizePlan, Authorize
<1>6. UNCHANGED <<due, job, stored, sends, crashes, card, listed, requests, made, outside>>
  BY DEF AuthorizePlan, remote
<1>7. /\ JournalOk(db') /\ db'.rows = db.rows /\ db'.plan = db.plan /\ db'.action = db.action
      /\ db'.member = db.member /\ db'.media = db.media /\ db'.identity = db.identity
  BY <1>1, <1>4, <1>5, AuthWritten
<1>8. job' \in [Actions -> JobType] /\ due' \in [Actions -> SUBSET {"retry", "deadline"}]
  BY <1>1, <1>6 DEF RemoteOk
<1>9. QED
  BY <1>6, <1>7, <1>8, JobStep

LEMMA RunsOutKeepsInv ==
    ASSUME Inv, NEW t \in Transfers, AuthorizationRunsOut(t)
    PROVE  Inv'
<1>1. JournalOk(db) /\ RemoteOk
  BY InvParts
<1>2. db.auth[t] \in Seq(AuthStates) /\ Len(db.auth[t]) <= MaxAuths
  BY <1>1, JournalTypes
<1>3. PICK e \in DOMAIN db.auth[t] : db' = [db EXCEPT !.auth[t][e] = "overdue"]
  BY DEF AuthorizationRunsOut
<1>4. PICK x : x = [db.auth[t] EXCEPT ![e] = "overdue"]
  OBVIOUS
<1>5. x \in Seq(AuthStates) /\ Len(x) <= MaxAuths
  BY <1>2, <1>4 DEF AuthStates, OpenAuthorization
<1>6. db' = [db EXCEPT !.auth[t] = x]
  BY <1>3, <1>4
<1>7. UNCHANGED <<due, job, stored, sends, crashes, card, listed, requests, made, outside>>
  BY DEF AuthorizationRunsOut, remote
<1>8. /\ JournalOk(db') /\ db'.rows = db.rows /\ db'.plan = db.plan /\ db'.action = db.action
      /\ db'.member = db.member /\ db'.media = db.media /\ db'.identity = db.identity
  BY <1>1, <1>5, <1>6, AuthWritten
<1>9. job' \in [Actions -> JobType] /\ due' \in [Actions -> SUBSET {"retry", "deadline"}]
  BY <1>1, <1>7 DEF RemoteOk
<1>10. QED
  BY <1>7, <1>8, <1>9, JobStep

LEMMA NoJobIsTyped == NoJob \in JobType
BY InstanceAssumption DEF NoJob, JobType, NothingSeen, CardStates, Answers

LEMMA SeenIsTyped ==
    ASSUME card \in [Vendors -> CardStates], NEW vendors
    PROVE  /\ SeenOf(vendors) \in [Vendors -> CardStates]
           /\ \A v \in Vendors : SeenOf(vendors)[v] \in {"absent", card[v]}
           /\ \A v \in Vendors : v \in vendors => SeenOf(vendors)[v] = card[v]
BY DEF SeenOf, CardStates

LEMMA StopExpiredKeepsInv ==
    ASSUME Inv, NEW a \in Actions, StopExpired(a)
    PROVE  Inv'
<1> DEFINE t == TransferOf[a]
<1>1. JournalOk(db) /\ RemoteOk /\ t \in Transfers
  BY InvParts, MembersOfTransfer
<1>2. db.auth[t] \in Seq(AuthStates) /\ Len(db.auth[t]) <= MaxAuths
  BY <1>1, JournalTypes
<1>3. db' = [db EXCEPT !.auth[t] = Expired(db.auth[t])]
  BY DEF StopExpired, ExpireAuthorization
<1>4. UNCHANGED <<due, stored, sends, crashes, card, listed, requests, made, outside>>
  BY DEF StopExpired, remote
<1>5. Expired(db.auth[t]) \in Seq(AuthStates) /\ Len(Expired(db.auth[t])) <= MaxAuths
  BY <1>2, ExpiredIsTyped
<1>6. /\ JournalOk(db') /\ db'.rows = db.rows /\ db'.plan = db.plan /\ db'.action = db.action
      /\ db'.member = db.member /\ db'.media = db.media /\ db'.identity = db.identity
  BY <1>1, <1>3, <1>5, AuthWritten
<1>7. job' = [job EXCEPT ![a] = NoJob] /\ job \in [Actions -> JobType]
  BY <1>1 DEF StopExpired, EndJob, RemoteOk
<1>8. job' \in [Actions -> JobType] /\ due' \in [Actions -> SUBSET {"retry", "deadline"}]
  BY <1>1, <1>4, <1>7, NoJobIsTyped DEF RemoteOk
<1>9. \A b \in Actions : job'[b] = job[b] \/ job'[b] = NoJob
  BY <1>7
<1>10. QED
  BY <1>4, <1>6, <1>8, <1>9, JobStep

\* Steps that change only jobs and timers.
LEMMA OnlyJobs ==
    ASSUME Inv, UNCHANGED <<db, stored, sends, card, listed, requests, made, outside>>,
           due' \in [Actions -> SUBSET {"retry", "deadline"}],
           job' \in [Actions -> JobType],
           \A a \in Actions :
              \/ job'[a] = job[a]
              \/ job'[a] = NoJob
              \/ /\ job'[a].step = "decide"
                 /\ job'[a].kind = "reconcile" => db.action[a].state = "reconciling"
                 /\ \A v \in Vendors : job'[a].seen[v] \in {"absent", card[v]}
                 /\ job'[a].kind = "reconcile" =>
                       \A i \in PendingMembers(db, a) :
                          job'[a].seen[VendorOf[i]] = card[VendorOf[i]]
    PROVE  Inv'
<1>1. /\ JournalOk(db') /\ db'.rows = db.rows /\ db'.plan = db.plan /\ db'.action = db.action
      /\ db'.member = db.member /\ db'.media = db.media /\ db'.identity = db.identity
  BY InvParts
<1>2. QED
  BY <1>1, JobStep

LEMMA EndJobKeepsInv ==
    ASSUME Inv, UNCHANGED <<db, due, stored, sends, card, listed, requests, made, outside>>,
           \/ \E a \in Actions : EndJob(a)
           \/ job' = [a \in Actions |-> NoJob]
    PROVE  Inv'
<1>1. job \in [Actions -> JobType] /\ due \in [Actions -> SUBSET {"retry", "deadline"}]
  BY InvParts DEF RemoteOk
<1>2. job' \in [Actions -> JobType] /\ \A b \in Actions : job'[b] = job[b] \/ job'[b] = NoJob
  BY <1>1, NoJobIsTyped DEF EndJob
<1>3. QED
  BY <1>1, <1>2, OnlyJobs

LEMMA ObserveDispatchKeepsInv ==
    ASSUME Inv, NEW a \in Actions, ObserveDispatch(a)
    PROVE  Inv'
<1> DEFINE t == TransferOf[a]
           seen == SeenOf(VendorCodes(a))
<1>1. JournalOk(db) /\ RemoteOk /\ t \in Transfers
  BY InvParts, MembersOfTransfer
<1>2. db.auth[t] \in Seq(AuthStates) /\ Len(db.auth[t]) <= MaxAuths
  BY <1>1, JournalTypes
<1>3. PICK e \in DOMAIN db.auth[t] :
          job' = [job EXCEPT ![a] = [NoJob EXCEPT !.step = "decide", !.epoch = e, !.seen = seen]]
  BY DEF ObserveDispatch
<1>4. e \in 0..MaxAuths
  BY <1>2, InstanceAssumption
<1>5. UNCHANGED <<db, due, stored, sends, card, listed, requests, made, outside>>
  BY DEF ObserveDispatch, remote
<1>6. seen \in [Vendors -> CardStates] /\ \A v \in Vendors : seen[v] \in {"absent", card[v]}
  BY <1>1, SeenIsTyped DEF RemoteOk
<1>7. PICK s : s = seen
  OBVIOUS
<1>8. PICK new : new = [NoJob EXCEPT !.step = "decide", !.epoch = e, !.seen = s]
  OBVIOUS
<1>9. /\ new = [step |-> "decide", kind |-> "dispatch", epoch |-> e, seen |-> s,
               due |-> {}, answer |-> "unsent"]
  BY <1>8 DEF NoJob
<1>10. new \in JobType
  BY <1>4, <1>6, <1>7, <1>9 DEF JobType, Answers
<1>11. job' = [job EXCEPT ![a] = new]
  BY <1>3, <1>7, <1>8
<1>12. job' \in [Actions -> JobType] /\ due' \in [Actions -> SUBSET {"retry", "deadline"}]
  BY <1>1, <1>5, <1>10, <1>11 DEF RemoteOk
<1>13. new.step = "decide" /\ new.kind = "dispatch"
       /\ \A v \in Vendors : new.seen[v] \in {"absent", card[v]}
  BY <1>6, <1>7, <1>9
<1>14. \A b \in Actions : job'[b] = IF b = a THEN new ELSE job[b]
  BY <1>1, <1>11 DEF RemoteOk
<1>15. QED
  BY <1>5, <1>12, <1>13, <1>14, OnlyJobs

LEMMA ObserveReconcilingKeepsInv ==
    ASSUME Inv, NEW t \in Transfers, NEW candidates \in SUBSET ActionsOf(t),
           ObserveReconciling(t, candidates)
    PROVE  Inv'
<1>1. PICK s : s = SeenOf(UNION {PendingVendors(b) : b \in candidates})
  OBVIOUS
<1>2. RemoteOk
  BY InvParts
<1>3. UNCHANGED <<db, due, stored, sends, card, listed, requests, made, outside>>
  BY DEF ObserveReconciling, remote
<1>4. /\ s \in [Vendors -> CardStates] /\ \A v \in Vendors : s[v] \in {"absent", card[v]}
      /\ \A b \in candidates : \A v \in PendingVendors(b) : v \in Vendors => s[v] = card[v]
  BY <1>1, <1>2, SeenIsTyped DEF RemoteOk
<1>5. ASSUME NEW a \in candidates
      PROVE  [NoJob EXCEPT !.step = "decide", !.kind = "reconcile", !.seen = s, !.due = due[a]] =
             [step |-> "decide", kind |-> "reconcile", epoch |-> 0, seen |-> s,
              due |-> due[a], answer |-> "unsent"]
  <2>1. PICK late : late = due[a]
    OBVIOUS
  <2>2. PICK new : new = [NoJob EXCEPT !.step = "decide", !.kind = "reconcile", !.seen = s, !.due = late]
    OBVIOUS
  <2>3. new = [step |-> "decide", kind |-> "reconcile", epoch |-> 0, seen |-> s,
               due |-> late, answer |-> "unsent"]
    BY <2>2 DEF NoJob
  <2>4. QED
    BY <2>1, <2>2, <2>3
<1>6. job' = [a \in Actions |->
          IF a \in candidates
          THEN [step |-> "decide", kind |-> "reconcile", epoch |-> 0, seen |-> s,
                due |-> due[a], answer |-> "unsent"]
          ELSE job[a]]
  BY <1>1, <1>5 DEF ObserveReconciling
<1>7. ASSUME NEW a \in Actions PROVE job'[a] \in JobType
  <2>1. CASE a \in candidates
    <3>1. due[a] \in SUBSET {"retry", "deadline"}
      BY <1>2 DEF RemoteOk
    <3>2. QED
      BY <1>4, <1>6, <2>1, <3>1, InstanceAssumption DEF JobType, Answers
  <2>2. CASE a \notin candidates
    BY <1>2, <1>6, <2>2 DEF RemoteOk
  <2>3. QED
    BY <2>1, <2>2
<1>8. job' \in [Actions -> JobType] /\ due' \in [Actions -> SUBSET {"retry", "deadline"}]
  BY <1>2, <1>3, <1>6, <1>7 DEF RemoteOk
<1>9. ASSUME NEW a \in Actions
      PROVE  \/ job'[a] = job[a]
             \/ /\ job'[a].step = "decide"
                /\ job'[a].kind = "reconcile" => db.action[a].state = "reconciling"
                /\ \A v \in Vendors : job'[a].seen[v] \in {"absent", card[v]}
                /\ job'[a].kind = "reconcile" =>
                      \A i \in PendingMembers(db, a) :
                         job'[a].seen[VendorOf[i]] = card[VendorOf[i]]
  <2>1. CASE a \in candidates
    <3>1. db.action[a].state = "reconciling"
      BY <2>1 DEF ObserveReconciling
    <3>2. \A i \in PendingMembers(db, a) : VendorOf[i] \in PendingVendors(a) /\ VendorOf[i] \in Vendors
      BY MembersOfTransfer DEF PendingVendors, PendingMembers
    <3>3. QED
      BY <1>4, <1>6, <2>1, <3>1, <3>2
  <2>2. CASE a \notin candidates
    BY <1>6, <2>2
  <2>3. QED
    BY <2>1, <2>2
<1>10. QED
  BY <1>3, <1>8, <1>9, OnlyJobs

LEMMA TimerKeepsInv ==
    ASSUME Inv, NEW a \in Actions, DeadlinePasses(a) \/ RetryFallsDue(a)
    PROVE  Inv'
<1>1. job \in [Actions -> JobType] /\ due \in [Actions -> SUBSET {"retry", "deadline"}]
  BY InvParts DEF RemoteOk
<1>2. due' \in [Actions -> SUBSET {"retry", "deadline"}]
  BY <1>1 DEF DeadlinePasses, RetryFallsDue
<1>3. UNCHANGED <<db, job, stored, sends, card, listed, requests, made, outside>>
  BY DEF DeadlinePasses, RetryFallsDue, remote
<1>4. QED
  BY <1>1, <1>2, <1>3, OnlyJobs

-----------------------------------------------------------------------------
(* Steps of Wildberries, of the seller and of the error feed. *)

LEMMA RemoteStep ==
    ASSUME Inv, UNCHANGED <<db, job, sends>>, RemoteOk', EvidenceOk'
    PROVE  Inv'
<1>1. JournalOk(db)'
  BY InvParts DEF JournalOk
<1>2. StagesOk'
  BY InvParts, StageFrame DEF StagesOk
<1>3. JobsOk'
  BY InvParts, JobFrame DEF JobsOk
<1>4. OwnersOk'
  BY InvParts DEF OwnersOk, IdentityOk, OwnerOk, Attempted, InFlight
<1>5. PlanOk'
  BY InvParts DEF PlanOk, PlanOf
<1>6. ProjectionOk'
  <2>1. ASSUME NEW u \in Transfers PROVE ProjectionOf(u)'
    <3>1. ProjectionOf(u) /\ db'.rows[u] = db.rows[u] /\ db'.plan[u] = db.plan[u]
      BY InvParts DEF ProjectionOk
    <3>2. \A b \in ActionsOf(u) :
             /\ db'.action[b].state = db.action[b].state
             /\ NotEnded(b)' => NotEnded(b)
             /\ InFlight(b)' => InFlight(b)
      BY DEF NotEnded, InFlight
    <3>3. QED
      BY <3>1, <3>2, ProjectionFrame
  <2>2. ASSUME NEW b \in Actions PROVE FollowsOf(b)'
    <3>1. FollowsOf(b)
      BY InvParts DEF ProjectionOk
    <3>2. QED
      BY <3>1, FollowsFrame
  <2>3. db'.rows = [u \in Transfers |-> db'.rows[u]]
    BY InvParts DEF ProjectionOk
  <2>4. QED
    BY <2>1, <2>2, <2>3 DEF ProjectionOk
<1>7. QED
  BY <1>1, <1>2, <1>3, <1>4, <1>5, <1>6, InvPartsNext

LEMMA SameDb ==
    ASSUME UNCHANGED <<db, job>>
    PROVE  /\ \A v \in Vendors : SentOnce(v)' <=> SentOnce(v)
           /\ \A a \in Actions :
                 /\ Attempted(a)' <=> Attempted(a)
                 /\ InFlight(a)' <=> InFlight(a)
                 /\ Untried(a)' <=> Untried(a)
                 /\ \A v \in Vendors : SawAbsent(a, v)' <=> SawAbsent(a, v)
BY DEF SentOnce, Attempted, InFlight, Untried, SawAbsent

LEMMA StoreErrorsKeepsInv ==
    ASSUME Inv, StoreErrors
    PROVE  Inv'
<1>1. RemoteOk /\ EvidenceOk
  BY InvParts
<1>2. /\ stored' = listed /\ UNCHANGED <<db, due, job, sends, card, listed, requests, made>>
      /\ outside' = [v \in Vendors |-> IF outside[v] = "listed" THEN "none" ELSE outside[v]]
  BY DEF StoreErrors
<1>3. RemoteOk'
  BY <1>1, <1>2 DEF RemoteOk
<1>10. \A v \in Vendors : Uncounted(v)' <=> Uncounted(v)
  BY <1>2 DEF Uncounted
<1>4. ASSUME NEW v \in Vendors PROVE VendorEvidence(v)'
  <2>1. VendorEvidence(v) /\ listed[v] \in Nat /\ stored[v] \in Nat
    BY <1>1 DEF EvidenceOk, RemoteOk
  <2>2. ASSUME NEW a \in Actions PROVE db.action[a].baseline[v] \in Nat
    BY InvParts, JournalTypes DEF ActionRows
  <2>3. NoRequestsFor(v)' <=> NoRequestsFor(v)
    BY <1>2 DEF NoRequestsFor
  <2>4. stored'[v] = listed'[v]
    BY <1>2
  <2>5. \A a \in Actions : Attempted(a)' => db'.action[a].baseline[v] <= stored'[v]
    BY <1>2, <2>1, <2>2, SameDb DEF VendorEvidence
  <2>6. QED
    BY <1>2, <1>10, <2>1, <2>3, <2>4, <2>5, SameDb DEF VendorEvidence
<1>5. ASSUME NEW a \in Actions, NEW i \in MembersOf[a] PROVE EvidenceOf(a, i)' /\ RejectionOf(a, i)'
  <2>1. VendorOf[i] \in Vendors /\ EvidenceOf(a, i) /\ RejectionOf(a, i)
    BY <1>1, MembersOfTransfer DEF EvidenceOk
  <2>2. (OnlyOf(a, VendorOf[i])' <=> OnlyOf(a, VendorOf[i]))
        /\ (NoRequestsFor(VendorOf[i])' <=> NoRequestsFor(VendorOf[i]))
    BY <1>2 DEF NoRequestsFor, OnlyOf
  <2>3. QED
    BY <1>2, <1>10, <2>1, <2>2, SameDb DEF EvidenceOf, RejectionOf
<1>6. ASSUME NEW a \in Actions, Untried(a)' PROVE NothingOf(a)'
  BY <1>1, <1>2, <1>6, SameDb DEF EvidenceOk, NothingOf
<1>7. ASSUME NEW r \in requests' PROVE RequestOk(r)'
  BY <1>1, <1>2, <1>7 DEF EvidenceOk, RequestOk, Attempted
<1>8. EvidenceOk'
  BY <1>4, <1>5, <1>6, <1>7 DEF EvidenceOk
<1>9. QED
  BY <1>2, <1>3, <1>8, RemoteStep

LEMMA SellerChangesKeepsInv ==
    ASSUME Inv, NEW w \in SellerVendors, SellerChanges(w)
    PROVE  Inv'
<1>1. RemoteOk /\ EvidenceOk /\ w \in Vendors
  BY InvParts, InstanceAssumption
<1>2. /\ card' = [card EXCEPT ![w] = "foreign"]
      /\ UNCHANGED <<db, due, job, listed, stored, requests, made, sends, outside>>
  BY DEF SellerChanges
<1>3. RemoteOk'
  BY <1>1, <1>2 DEF RemoteOk, CardStates
<1>4. \A v \in Vendors : card'[v] = "absent" => card[v] = "absent"
  BY <1>1, <1>2 DEF RemoteOk
<1>5. ASSUME NEW v \in Vendors PROVE VendorEvidence(v)'
  <2>1. VendorEvidence(v)
    BY <1>1 DEF EvidenceOk
  <2>2. NoRequestsFor(v)' <=> NoRequestsFor(v)
    BY <1>2 DEF NoRequestsFor
  <2>3. QED
    BY <1>2, <1>4, <2>1, <2>2, SameDb DEF VendorEvidence, Uncounted
<1>6. ASSUME NEW a \in Actions, NEW i \in MembersOf[a] PROVE EvidenceOf(a, i)' /\ RejectionOf(a, i)'
  <2>1. VendorOf[i] \in Vendors /\ EvidenceOf(a, i) /\ RejectionOf(a, i)
    BY <1>1, MembersOfTransfer DEF EvidenceOk
  <2>2. (OnlyOf(a, VendorOf[i])' <=> OnlyOf(a, VendorOf[i]))
        /\ (NoRequestsFor(VendorOf[i])' <=> NoRequestsFor(VendorOf[i]))
    BY <1>2 DEF NoRequestsFor, OnlyOf
  <2>3. QED
    BY <1>2, <1>4, <2>1, <2>2, SameDb DEF EvidenceOf, RejectionOf, Uncounted
<1>7. ASSUME NEW a \in Actions, Untried(a)' PROVE NothingOf(a)'
  BY <1>1, <1>2, <1>7, SameDb DEF EvidenceOk, NothingOf
<1>8. ASSUME NEW r \in requests' PROVE RequestOk(r)'
  BY <1>1, <1>2, <1>8 DEF EvidenceOk, RequestOk, Attempted
<1>9. EvidenceOk'
  BY <1>5, <1>6, <1>7, <1>8 DEF EvidenceOk
<1>10. QED
  BY <1>2, <1>3, <1>9, RemoteStep

\* The part of a request that creates the card.
LEMMA CardMade ==
    ASSUME Inv, NEW r \in requests, requests' = requests \ {r}, card[r[2]] = "absent",
           card' = [card EXCEPT ![r[2]] = "matching"],
           made' = made \cup {<<r[1], r[2]>>},
           UNCHANGED <<listed, db, due, job, stored, sends, outside>>
    PROVE  Inv'
<1>1. RemoteOk /\ EvidenceOk
  BY InvParts
<1>2. PICK b \in Actions, w \in Vendors, call \in {"attempt", "retry"} : r = <<b, w, call>>
  BY <1>1 DEF RemoteOk
<1>3. /\ card' = [card EXCEPT ![w] = "matching"] /\ card[w] = "absent"
      /\ made' = made \cup {<<b, w>>} /\ requests' = requests \ {<<b, w, call>>}
      /\ <<b, w, call>> \in requests
  BY <1>2
<1>4. RemoteOk'
  BY <1>1, <1>3 DEF RemoteOk, CardStates
<1>5. \A v \in Vendors : card'[v] = "absent" => card[v] = "absent" /\ v # w
  BY <1>1, <1>3 DEF RemoteOk
<1>6. /\ w \in VendorCodes(b) /\ Attempted(b)
      /\ call = "retry" => db.action[b].retry # "none"
  BY <1>1, <1>2 DEF EvidenceOk, RequestOk
<1>7. SentOnce(w) => call = "attempt"
  BY <1>6 DEF SentOnce
<1>8. ASSUME NEW v \in Vendors PROVE VendorEvidence(v)'
  <2>1. VendorEvidence(v)
    BY <1>1 DEF EvidenceOk
  <2>2. NoRequestsFor(v) => NoRequestsFor(v)'
    BY <1>3 DEF NoRequestsFor
  <2>3. card'[v] = "absent" => \A m \in made' : m[2] # v
    BY <1>3, <1>5, <2>1 DEF VendorEvidence
  <2>4. QED
    BY <1>3, <1>5, <2>1, <2>2, <2>3, SameDb DEF VendorEvidence, Uncounted
<1>9. ASSUME NEW a \in Actions, NEW i \in MembersOf[a] PROVE EvidenceOf(a, i)'
  <2> DEFINE v == VendorOf[i]
  <2>1. v \in Vendors /\ EvidenceOf(a, i)
    BY <1>1, MembersOfTransfer DEF EvidenceOk
  <2>2. NoRequestsFor(v) => NoRequestsFor(v)'
    BY <1>3 DEF NoRequestsFor
  <2>3. OnlyOf(a, v) => OnlyOf(a, v)'
    <3>1. PICK x : x = v
      OBVIOUS
    <3>2. SUFFICES ASSUME OnlyOf(a, x) PROVE OnlyOf(a, x)'
      BY <3>1
    <3>3. /\ \A q \in requests : q[2] = x => q = <<a, x, "attempt">>
          /\ \/ listed[x] = db.action[a].baseline[x]
                /\ ~(<<a, x, "attempt">> \in requests /\ <<a, x>> \in made)
             \/ /\ listed[x] = db.action[a].baseline[x] + 1
                /\ <<a, x, "attempt">> \notin requests /\ <<a, x>> \notin made
      BY <3>2 DEF OnlyOf
    <3>4. CASE x = w
      <4>1. <<b, w, call>> = <<a, x, "attempt">>
        BY <1>3, <3>3, <3>4
      <4>2. <<a, x, "attempt">> \notin requests'
        BY <1>3, <4>1
      <4>3. listed[x] = db.action[a].baseline[x]
        BY <1>3, <3>3, <4>1
      <4>4. \A q \in requests' : q[2] = x => q = <<a, x, "attempt">>
        BY <1>3, <3>3
      <4>5. QED
        BY <4>2, <4>3, <4>4 DEF OnlyOf
    <3>5. CASE x # w
      <4>1. <<a, x>> \in made' <=> <<a, x>> \in made
        BY <1>3, <3>5
      <4>2. <<a, x, "attempt">> \in requests' <=> <<a, x, "attempt">> \in requests
        BY <1>3, <3>5
      <4>3. \A q \in requests' : q[2] = x => q = <<a, x, "attempt">>
        BY <1>3, <3>3
      <4>4. QED
        BY <3>3, <4>1, <4>2, <4>3 DEF OnlyOf
    <3>6. QED
      BY <3>4, <3>5
  <2>4. QED
    BY <1>5, <2>1, <2>2, <2>3, SameDb DEF EvidenceOf, Uncounted
<1>10. ASSUME NEW a \in Actions, NEW i \in MembersOf[a] PROVE RejectionOf(a, i)'
  <2>1. VendorOf[i] \in Vendors /\ RejectionOf(a, i)
    BY <1>1, MembersOfTransfer DEF EvidenceOk
  <2>2. SUFFICES ASSUME db.member[i] = "rejected", SentOnce(VendorOf[i]), Uncounted(VendorOf[i])
                 PROVE  <<a, VendorOf[i]>> \notin made' /\ <<a, VendorOf[i], "attempt">> \notin requests'
    BY <2>1, SameDb DEF RejectionOf, Uncounted
  <2>3. <<a, VendorOf[i]>> \notin made /\ <<a, VendorOf[i], "attempt">> \notin requests
    BY <2>1, <2>2 DEF RejectionOf
  <2>4. CASE <<a, VendorOf[i]>> = <<b, w>>
    BY <1>3, <1>7, <2>2, <2>3, <2>4
  <2>5. CASE <<a, VendorOf[i]>> # <<b, w>>
    BY <1>3, <2>3, <2>5
  <2>6. QED
    BY <2>4, <2>5
<1>11. ASSUME NEW a \in Actions, Untried(a)' PROVE NothingOf(a)'
  <2>1. NothingOf(a)
    BY <1>1, <1>11, SameDb DEF EvidenceOk
  <2>2. b # a
    BY <1>3, <2>1 DEF NothingOf
  <2>3. QED
    BY <1>3, <2>1, <2>2 DEF NothingOf
<1>12. ASSUME NEW q \in requests' PROVE RequestOk(q)'
  BY <1>1, <1>3, <1>12 DEF EvidenceOk, RequestOk, Attempted
<1>13. EvidenceOk'
  BY <1>8, <1>9, <1>10, <1>11, <1>12 DEF EvidenceOk
<1>14. QED
  BY <1>4, <1>13, RemoteStep

\* The part of a request that lists an error batch.
LEMMA ErrorListed ==
    ASSUME Inv, NEW r \in requests, requests' = requests \ {r},
           listed' = [listed EXCEPT ![r[2]] = @ + 1],
           UNCHANGED <<card, made, db, due, job, stored, sends, outside>>
    PROVE  Inv'
<1>1. RemoteOk /\ EvidenceOk
  BY InvParts
<1>2. PICK b \in Actions, w \in Vendors, call \in {"attempt", "retry"} : r = <<b, w, call>>
  BY <1>1 DEF RemoteOk
<1>3. /\ listed' = [listed EXCEPT ![w] = @ + 1] /\ requests' = requests \ {<<b, w, call>>}
      /\ <<b, w, call>> \in requests
  BY <1>2
<1>4. RemoteOk'
  BY <1>1, <1>3 DEF RemoteOk
<1>5. \A v \in Vendors : listed[v] \in Nat /\ stored[v] \in Nat
                         /\ listed'[v] = IF v = w THEN listed[v] + 1 ELSE listed[v]
  BY <1>1, <1>3 DEF RemoteOk
<1>6. ASSUME NEW v \in Vendors PROVE VendorEvidence(v)'
  <2>1. VendorEvidence(v)
    BY <1>1 DEF EvidenceOk
  <2>2. NoRequestsFor(v) => NoRequestsFor(v)' /\ v # w
    BY <1>3 DEF NoRequestsFor
  <2>3. stored[v] <= listed'[v]
    BY <1>5, <2>1 DEF VendorEvidence
  <2>4. QED
    BY <1>5, <2>1, <2>2, <2>3, SameDb DEF VendorEvidence, Uncounted
<1>7. ASSUME NEW a \in Actions, NEW i \in MembersOf[a] PROVE EvidenceOf(a, i)'
  <2> DEFINE v == VendorOf[i]
  <2>1. v \in Vendors /\ EvidenceOf(a, i)
    BY <1>1, MembersOfTransfer DEF EvidenceOk
  <2>2. NoRequestsFor(v) => NoRequestsFor(v)' /\ v # w
    BY <1>3 DEF NoRequestsFor
  <2>3. OnlyOf(a, v) => OnlyOf(a, v)'
    <3>1. PICK x \in Vendors : x = v
      BY <2>1
    <3>2. SUFFICES ASSUME OnlyOf(a, x) PROVE OnlyOf(a, x)'
      BY <3>1
    <3>3. /\ \A q \in requests : q[2] = x => q = <<a, x, "attempt">>
          /\ \/ listed[x] = db.action[a].baseline[x]
                /\ ~(<<a, x, "attempt">> \in requests /\ <<a, x>> \in made)
             \/ /\ listed[x] = db.action[a].baseline[x] + 1
                /\ <<a, x, "attempt">> \notin requests /\ <<a, x>> \notin made
      BY <3>2 DEF OnlyOf
    <3>4. CASE x = w
      <4>1. <<b, w, call>> = <<a, x, "attempt">>
        BY <1>3, <3>3, <3>4
      <4>2. <<a, x, "attempt">> \notin requests'
        BY <1>3, <4>1
      <4>3. listed'[x] = db.action[a].baseline[x] + 1 /\ <<a, x>> \notin made
        BY <1>3, <1>5, <3>3, <3>4, <4>1
      <4>4. \A q \in requests' : q[2] = x => q = <<a, x, "attempt">>
        BY <1>3, <3>3
      <4>5. QED
        BY <4>2, <4>3, <4>4 DEF OnlyOf
    <3>5. CASE x # w
      <4>1. <<a, x, "attempt">> \in requests' <=> <<a, x, "attempt">> \in requests
        BY <1>3, <3>5
      <4>2. \A q \in requests' : q[2] = x => q = <<a, x, "attempt">>
        BY <1>3, <3>3
      <4>3. listed'[x] = listed[x]
        BY <1>5, <3>5
      <4>4. QED
        BY <3>3, <4>1, <4>2, <4>3 DEF OnlyOf
    <3>6. QED
      BY <3>4, <3>5
  <2>4. QED
    BY <1>5, <2>1, <2>2, <2>3, SameDb DEF EvidenceOf, Uncounted
<1>8. ASSUME NEW a \in Actions, NEW i \in MembersOf[a] PROVE RejectionOf(a, i)'
  <2>1. VendorOf[i] \in Vendors /\ RejectionOf(a, i)
    BY <1>1, MembersOfTransfer DEF EvidenceOk
  <2>2. QED
    BY <1>3, <2>1, SameDb DEF RejectionOf, Uncounted
<1>9. ASSUME NEW a \in Actions, Untried(a)' PROVE NothingOf(a)'
  BY <1>1, <1>3, <1>9, SameDb DEF EvidenceOk, NothingOf
<1>10. ASSUME NEW q \in requests' PROVE RequestOk(q)'
  BY <1>1, <1>3, <1>10 DEF EvidenceOk, RequestOk, Attempted
<1>11. EvidenceOk'
  BY <1>6, <1>7, <1>8, <1>9, <1>10 DEF EvidenceOk
<1>12. QED
  BY <1>4, <1>11, RemoteStep

\* The batch of the upload made outside: an attempt in flight on the vendor code
\* has its evidence spoiled, and without one no evidence depends on it.
LEMMA OtherUploadRefusedKeepsInv ==
    ASSUME Inv, NEW w \in OtherUploads, OtherUploadRefused(w)
    PROVE  Inv'
<1>1. RemoteOk /\ EvidenceOk /\ w \in Vendors
  BY InvParts, InstanceAssumption
<1>2. PICK mark \in {"listed", "counted"} :
         /\ outside' = [outside EXCEPT ![w] = mark]
         /\ mark = "listed" => \A a \in Actions : ~(InFlight(a) /\ w \in VendorCodes(a))
  BY DEF OtherUploadRefused
<1>3. /\ outside[w] = "open" /\ listed' = [listed EXCEPT ![w] = @ + 1]
      /\ UNCHANGED <<db, due, job, card, stored, requests, made, sends>>
  BY DEF OtherUploadRefused
<1>4. RemoteOk'
  BY <1>1, <1>2, <1>3 DEF RemoteOk
<1>5. /\ listed'[w] = listed[w] + 1 /\ listed[w] \in Nat /\ stored[w] \in Nat
      /\ outside'[w] = mark
      /\ \A v \in Vendors : v # w => listed'[v] = listed[v] /\ outside'[v] = outside[v]
  BY <1>1, <1>2, <1>3 DEF RemoteOk
<1>6. \A v \in Vendors : Uncounted(v)' => Uncounted(v)
  BY <1>3, <1>5 DEF Uncounted
<1>7. ASSUME NEW v \in Vendors PROVE VendorEvidence(v)'
  <2>1. VendorEvidence(v)
    BY <1>1 DEF EvidenceOk
  <2>2. NoRequestsFor(v)' <=> NoRequestsFor(v)
    BY <1>3 DEF NoRequestsFor
  <2>3. stored[v] <= listed'[v]
    BY <1>5, <2>1 DEF VendorEvidence
  <2>4. Uncounted(v)' => outside'[v] = "listed" \/ v # w
    BY <1>2, <1>5 DEF Uncounted
  <2>5. (Uncounted(v)' /\ (outside[v] = "listed" \/ listed[v] = stored[v])) =>
            outside'[v] = "listed" \/ listed'[v] = stored[v]
    BY <1>5, <2>4
  <2>6. QED
    BY <1>3, <1>6, <2>1, <2>2, <2>3, <2>5, SameDb DEF VendorEvidence
<1>8. ASSUME NEW a \in Actions, NEW i \in MembersOf[a] PROVE EvidenceOf(a, i)'
  <2>1. PICK v \in Vendors : v = VendorOf[i]
    BY MembersOfTransfer
  <2>2. EvidenceOf(a, i) /\ v \in VendorCodes(a)
    BY <1>1, <2>1, MembersOfTransfer DEF EvidenceOk
  <2>3. CASE v = w
    <3>1. ~(InFlight(a)' /\ Uncounted(v)')
      BY <1>2, <1>3, <1>5, <2>2, <2>3, SameDb DEF Uncounted
    <3>2. QED
      BY <2>1, <3>1 DEF EvidenceOf
  <2>4. CASE v # w
    <3>1. OnlyOf(a, v)' <=> OnlyOf(a, v)
      BY <1>3, <1>5, <2>4 DEF OnlyOf
    <3>2. NoRequestsFor(v)' <=> NoRequestsFor(v)
      BY <1>3 DEF NoRequestsFor
    <3>3. QED
      BY <1>3, <1>5, <1>6, <2>1, <2>2, <2>4, <3>1, <3>2, SameDb DEF EvidenceOf
  <2>5. QED
    BY <2>3, <2>4
<1>9. ASSUME NEW a \in Actions, NEW i \in MembersOf[a] PROVE RejectionOf(a, i)'
  <2>1. VendorOf[i] \in Vendors /\ RejectionOf(a, i)
    BY <1>1, MembersOfTransfer DEF EvidenceOk
  <2>2. QED
    BY <1>3, <1>6, <2>1, SameDb DEF RejectionOf
<1>10. ASSUME NEW a \in Actions, Untried(a)' PROVE NothingOf(a)'
  BY <1>1, <1>3, <1>10, SameDb DEF EvidenceOk, NothingOf
<1>11. ASSUME NEW q \in requests' PROVE RequestOk(q)'
  BY <1>1, <1>3, <1>11 DEF EvidenceOk, RequestOk, Attempted
<1>12. EvidenceOk'
  BY <1>7, <1>8, <1>9, <1>10, <1>11 DEF EvidenceOk
<1>13. QED
  BY <1>3, <1>4, <1>12, RemoteStep

LEMMA ProcessKeepsInv ==
    ASSUME Inv, NEW r \in requests, Process(r)
    PROVE  Inv'
BY CardMade, ErrorListed DEF Process

-----------------------------------------------------------------------------
(* The plan of another transfer, and the call. *)

\* The journal keeps its book of actions, members, media and projection.
LEMMA SameBook ==
    ASSUME Inv, db'.rows = db.rows, db'.plan = db.plan, db'.action = db.action,
           db'.member = db.member, db'.media = db.media
    PROVE  /\ sends' = sends => StagesOk'
           /\ PlanOk'
           /\ ProjectionOk'
<1>1. sends' = sends => StagesOk'
  BY InvParts, StageFrame DEF StagesOk
<1>2. PlanOk'
  <2>1. ASSUME NEW t \in Transfers PROVE PlanOf(t)'
    <3>1. PlanOf(t)
      BY InvParts DEF PlanOk
    <3>2. QED
      BY <3>1, PlanFrame
  <2>2. QED
    BY <2>1 DEF PlanOk
<1>3. ProjectionOk'
  <2>1. ASSUME NEW t \in Transfers PROVE ProjectionOf(t)'
    <3>1. ProjectionOf(t)
      BY InvParts DEF ProjectionOk
    <3>2. \A a \in ActionsOf(t) : (NotEnded(a)' => NotEnded(a)) /\ (InFlight(a)' => InFlight(a))
      BY DEF NotEnded, InFlight
    <3>3. QED
      BY <3>1, <3>2, ProjectionFrame
  <2>2. ASSUME NEW a \in Actions PROVE FollowsOf(a)'
    <3>1. FollowsOf(a)
      BY InvParts DEF ProjectionOk
    <3>2. QED
      BY <3>1, FollowsFrame
  <2>3. db'.rows = [t \in Transfers |-> db'.rows[t]]
    BY InvParts DEF ProjectionOk
  <2>4. QED
    BY <2>1, <2>2, <2>3 DEF ProjectionOk
<1>4. QED
  BY <1>1, <1>2, <1>3

LEMMA PlanElsewhereKeepsInv ==
    ASSUME Inv, NEW w \in SharedVendors, NEW state \in {"remote_missing", "remote_present"},
           PlanElsewhere(w, state)
    PROVE  Inv'
<1>1. JournalOk(db) /\ RemoteOk /\ w \in Vendors
  BY InvParts, InstanceAssumption
<1>2. IsJournal(db) /\ db.identity \in [Vendors -> IdentityRows]
  BY <1>1, JournalTypes
<1>3. PICK row : row = UpsertedIdentity(db.identity[w], state)
  OBVIOUS
<1>4. db' = [db EXCEPT !.identity[w] = row]
  BY <1>3 DEF PlanElsewhere
<1>5. UNCHANGED <<due, job, stored, sends, card, listed, requests, made, outside>>
  BY DEF PlanElsewhere, remote
<1>6. /\ IsJournal(db') /\ db'.rows = db.rows /\ db'.plan = db.plan /\ db'.auth = db.auth
      /\ db'.action = db.action /\ db'.member = db.member /\ db'.media = db.media
      /\ db'.upload = db.upload /\ db'.attributed = db.attributed
      /\ db'.identity = [db.identity EXCEPT ![w] = row]
  BY <1>2, <1>4 DEF IsJournal
<1>7. /\ row \in IdentityRows /\ row.active = db.identity[w].active
      /\ row.state = "mutation_pending" => db.identity[w].state = "mutation_pending"
      /\ db.identity[w].state = "blocked_uncertain" => row = db.identity[w]
  <2>1. db.identity[w] \in IdentityRows
    BY <1>1, <1>2
  <2>2. QED
    BY <1>3, <2>1 DEF UpsertedIdentity, IdentityRows, IdentityStates
<1>8. JournalOk(db')
  <2>1. db'.identity \in [Vendors -> IdentityRows]
    BY <1>2, <1>6, <1>7
  <2>2. QED
    BY <1>1, <1>6, <2>1, JournalTypes, JournalFromFields
<1>9. \A v \in Vendors : db'.identity[v] = IF v = w THEN row ELSE db.identity[v]
  BY <1>2, <1>6
<1>10. StagesOk' /\ PlanOk' /\ ProjectionOk'
  BY <1>5, <1>6, SameBook
<1>11. JobsOk'
  BY <1>5, <1>6, InvParts, JobFrame DEF JobsOk
<1>12. \A a \in Actions :
          /\ Attempted(a)' <=> Attempted(a)
          /\ InFlight(a)' <=> InFlight(a)
          /\ Untried(a)' <=> Untried(a)
          /\ \A v \in Vendors : SawAbsent(a, v)' <=> SawAbsent(a, v)
  BY <1>5, <1>6 DEF Attempted, InFlight, Untried, SawAbsent
<1>13. OwnersOk'
  <2>1. ASSUME NEW a \in Actions PROVE OwnerOk(a)'
    <3>1. OwnerOk(a) /\ \A i \in MembersOf[a] : VendorOf[i] \in Vendors
      BY InvParts, MembersOfTransfer DEF OwnersOk
    <3>2. ASSUME NEW i \in MembersOf[a]
          PROVE  /\ db'.identity[VendorOf[i]].active = a \/ db.identity[VendorOf[i]].active # a
                 /\ db.identity[VendorOf[i]] = [state |-> "blocked_uncertain", active |-> a] =>
                       db'.identity[VendorOf[i]] = [state |-> "blocked_uncertain", active |-> a]
      BY <1>7, <1>9, <3>1
    <3>3. QED
      BY <1>6, <1>12, <3>1, <3>2, OwnerFrame
  <2>2. IdentityOk'
    BY <1>7, <1>9, InvParts DEF OwnersOk, IdentityOk
  <2>3. QED
    BY <2>1, <2>2 DEF OwnersOk
<1>14. EvidenceOk'
  <2>1. \A v \in Vendors : db'.identity[v].active = Free => db.identity[v].active = Free
    BY <1>7, <1>9
  <2>2. \A a \in Actions : \A i \in MembersOf[a] : VendorOf[i] \in Vendors
    BY MembersOfTransfer
  <2>3. EvidenceOk /\ RemoteOk /\ RemoteOk'
    BY <1>1, <1>5, InvParts DEF RemoteOk
  <2>4. \A a \in Actions :
              /\ Attempted(a)' <=> Attempted(a)
              /\ db'.action[a].baseline = db.action[a].baseline
              /\ db'.action[a].retry = "none" => db.action[a].retry = "none"
              /\ InFlight(a)' => InFlight(a)
              /\ Untried(a)' => Untried(a)
              /\ \A i \in MembersOf[a] :
                    /\ db'.member[i] = NoClass => db.member[i] = NoClass
                    /\ db'.member[i] = "rejected" => db.member[i] = "rejected"
                    /\ (InFlight(a)' /\ db'.member[i] = NoClass /\ SawAbsent(a, VendorOf[i])') =>
                          SawAbsent(a, VendorOf[i]) \/ card[VendorOf[i]] = "absent"
              /\ \A v \in Vendors :
                    job'[a].seen[v] # "absent" => job[a].seen[v] # "absent" \/ card[v] # "absent"
    BY <1>5, <1>6, <1>12, <2>2
  <2>5. QED
    BY <1>5, <2>1, <2>3, <2>4, EvidenceFrame
<1>15. QED
  BY <1>1, <1>5, <1>8, <1>10, <1>11, <1>13, <1>14, InvPartsNext DEF RemoteOk

\* The codes of an action whose job is about to call belong to it, or it is
\* the retry.
LEMMA CallerOwns ==
    ASSUME Inv, NEW a \in Actions, job[a].step = "send"
    PROVE  /\ Attempted(a) /\ InFlight(a)
           /\ job[a].kind = "dispatch" =>
                 /\ db.action[a].state = "dispatching"
                 /\ sends[a] <= 0
                 /\ \A i \in MembersOf[a] :
                       db.member[i] = NoClass /\ db.identity[VendorOf[i]].active = a
           /\ job[a].kind # "dispatch" =>
                 /\ db.action[a].retry = "open"
                 /\ sends[a] <= 1
                 /\ \A v \in VendorCodes(a) : ~SentOnce(v)
<1>1. StageOk(a) /\ JobOk(a) /\ OwnerOk(a) /\ job[a] \in JobType
  BY InvParts DEF StagesOk, JobsOk, OwnersOk, RemoteOk
<1>2. job[a].kind \in {"dispatch", "reconcile"}
  BY <1>1 DEF JobType
<1>3. CASE job[a].kind = "dispatch"
  <2>1. db.action[a].state = "dispatching" /\ sends[a] <= 0
    BY <1>1, <1>3 DEF JobOk
  <2>2. Attempted(a) /\ InFlight(a) /\ PendingMembers(db, a) = MembersOf[a]
    BY <1>1, <2>1 DEF StageOk, Attempted, InFlight, InFlightStates
  <2>3. \A i \in MembersOf[a] : db.member[i] = NoClass
    BY <2>2 DEF PendingMembers
  <2>4. QED
    BY <1>1, <1>3, <2>1, <2>2, <2>3 DEF OwnerOk
<1>4. CASE job[a].kind = "reconcile"
  <2>1. db.action[a].retry = "open" /\ sends[a] <= 1
    BY <1>1, <1>4 DEF JobOk
  <2>2. Attempted(a) /\ InFlight(a)
    BY <1>1, <2>1 DEF StageOk, Attempted, InFlight, InFlightStates
  <2>3. \A v \in VendorCodes(a) : ~SentOnce(v)
    BY <2>1 DEF SentOnce
  <2>4. QED
    BY <1>4, <2>1, <2>2, <2>3
<1>5. QED
  BY <1>2, <1>3, <1>4

LEMMA SendKeepsInv ==
    ASSUME Inv, NEW a \in Actions, NEW answer \in SentAnswers, Send(a, answer)
    PROVE  Inv'
<1> DEFINE all == {<<a, v, CallOf(a)>> : v \in VendorCodes(a)}
<1>1. /\ RemoteOk /\ EvidenceOk /\ StagesOk /\ JobsOk /\ OwnersOk /\ answer \in Answers
      /\ job[a].step = "send"
  BY InvParts, InstanceAssumption DEF Send
<1>2. PICK reached : /\ reached \subseteq all
                     /\ answer \in ProvenAnswers => reached = {}
                     /\ requests' = requests \cup reached
  <2>1. CASE answer = "accepted"
    BY <2>1 DEF Send, ProvenAnswers
  <2>2. CASE answer \in {"rejected", "unsent"}
    <3>1. requests' = requests
      BY <2>2 DEF Send
    <3>2. requests' = requests \cup {}
      BY <3>1
    <3>3. QED
      BY <3>2
  <2>3. CASE answer \notin {"accepted", "rejected", "unsent"}
    BY <2>3 DEF Send, ProvenAnswers
  <2>4. QED
    BY <2>1, <2>2, <2>3
<1>3. /\ job' = [job EXCEPT ![a] = [job[a] EXCEPT !.step = "record", !.answer = answer]]
      /\ sends' = [sends EXCEPT ![a] = IF answer = "unsent" THEN @ ELSE @ + 1]
      /\ UNCHANGED <<db, due, card, listed, stored, made, outside>>
      /\ \A v \in Vendors : Uncounted(v)' <=> Uncounted(v)
  BY DEF Send, Uncounted
<1>4. /\ Attempted(a) /\ InFlight(a)
      /\ job[a].kind = "dispatch" =>
            /\ db.action[a].state = "dispatching"
            /\ sends[a] <= 0
            /\ \A i \in MembersOf[a] :
                  db.member[i] = NoClass /\ db.identity[VendorOf[i]].active = a
      /\ job[a].kind # "dispatch" =>
            /\ db.action[a].retry = "open"
            /\ sends[a] <= 1
            /\ \A v \in VendorCodes(a) : ~SentOnce(v)
  BY <1>1, CallerOwns
<1>5. /\ job \in [Actions -> JobType] /\ sends \in [Actions -> Nat]
  BY <1>1 DEF RemoteOk
<1>6. PICK new : new = [job[a] EXCEPT !.step = "record", !.answer = answer]
  OBVIOUS
<1>7. /\ new \in JobType /\ new.step = "record" /\ new.answer = answer
      /\ new.kind = job[a].kind /\ new.seen = job[a].seen
  <2>1. job[a] \in JobType
    BY <1>5
  <2>2. QED
    BY <1>1, <1>6, <2>1 DEF JobType
<1>8. \A b \in Actions : job'[b] = IF b = a THEN new ELSE job[b]
  BY <1>3, <1>5, <1>6
<1>9. ASSUME NEW b \in Actions, b # a PROVE sends'[b] = sends[b] /\ job'[b] = job[b]
  BY <1>3, <1>5, <1>8, <1>9
<1>10. sends'[a] \in Nat /\ sends'[a] <= sends[a] + 1
  BY <1>3, <1>5
<1>11. VendorCodes(a) \subseteq Vendors /\ CallOf(a) \in {"attempt", "retry"}
       /\ (CallOf(a) = "retry" <=> job[a].kind # "dispatch")
  BY MembersOfTransfer DEF CallOf
<1>12. RemoteOk'
  <2>1. reached \subseteq Actions \X Vendors \X {"attempt", "retry"}
    BY <1>2, <1>11
  <2>2. job' \in [Actions -> JobType]
    BY <1>3, <1>5, <1>6, <1>7
  <2>3. sends' \in [Actions -> Nat]
    BY <1>3, <1>5
  <2>4. QED
    BY <1>1, <1>2, <1>3, <2>1, <2>2, <2>3 DEF RemoteOk
<1>13. StagesOk'
  <2>1. ASSUME NEW b \in Actions, b # a PROVE StageOk(b)'
    BY <1>1, <1>3, <1>9, <2>1, StageFrame DEF StagesOk
  <2>2. StageOk(a)'
    <3>1. StageOk(a)
      BY <1>1 DEF StagesOk
    <3>2. db.action[a].retry # "none" \/ sends'[a] <= 1
      BY <1>4, <1>5, <1>10
    <3>3. sends'[a] <= 2
      BY <1>4, <1>5, <1>10
    <3>4. QED
      BY <1>3, <1>4, <1>10, <3>1, <3>2, <3>3 DEF StageOk, Attempted, PendingMembers
  <2>3. QED
    BY <2>1, <2>2 DEF StagesOk
<1>14. JobsOk'
  <2>1. ASSUME NEW b \in Actions, b # a PROVE JobOk(b)'
    BY <1>1, <1>3, <1>9, <2>1, JobFrame DEF JobsOk
  <2>2. JobOk(a)'
    <3>1. JobOk(a)
      BY <1>1 DEF JobsOk
    <3>2. job'[a] = new
      BY <1>8
    <3>3. QED
      BY <1>1, <1>3, <1>7, <3>1, <3>2 DEF JobOk
  <2>3. QED
    BY <2>1, <2>2 DEF JobsOk
<1>15. JournalOk(db)' /\ OwnersOk' /\ PlanOk' /\ ProjectionOk'
  <2>1. JournalOk(db)'
    BY <1>3, InvParts
  <2>2. PlanOk' /\ ProjectionOk'
    BY <1>3, SameBook
  <2>3. OwnersOk'
    BY <1>1, <1>3 DEF OwnersOk, IdentityOk, OwnerOk, Attempted, InFlight
  <2>4. QED
    BY <2>1, <2>2, <2>3
<1>16. /\ \A v \in Vendors : SentOnce(v)' <=> SentOnce(v)
       /\ \A b \in Actions :
             /\ Attempted(b)' <=> Attempted(b)
             /\ InFlight(b)' <=> InFlight(b)
             /\ \A v \in Vendors : SawAbsent(b, v)' => b # a /\ SawAbsent(b, v)
             /\ b # a => (Untried(b)' <=> Untried(b))
  BY <1>3, <1>7, <1>8 DEF SentOnce, Attempted, InFlight, Untried, SawAbsent
<1>17. Untried(a)' => reached = {} /\ Untried(a)
  BY <1>1, <1>2, <1>3, <1>4, <1>7, <1>8 DEF Untried, Attempted
<1>18. ASSUME NEW q \in reached
       PROVE  /\ q[1] = a /\ q[2] \in VendorCodes(a) /\ q[3] = CallOf(a)
              /\ q = <<a, q[2], CallOf(a)>>
  BY <1>2, <1>18
<1>19. ASSUME NEW v \in VendorCodes(a), SentOnce(v)
       PROVE  /\ job[a].kind = "dispatch" /\ CallOf(a) = "attempt" /\ Untried(a)
              /\ db.identity[v].active = a
  <2>1. job[a].kind = "dispatch"
    BY <1>4, <1>19
  <2>2. PICK i \in MembersOf[a] : VendorOf[i] = v
    BY DEF VendorCodes
  <2>3. QED
    BY <1>1, <1>4, <2>1, <2>2 DEF CallOf, Untried
<1>20. ASSUME NEW v \in Vendors PROVE VendorEvidence(v)'
  <2>1. VendorEvidence(v)
    BY <1>1 DEF EvidenceOk
  <2>2. (SentOnce(v) /\ db.identity[v].active = Free /\ NoRequestsFor(v)) => NoRequestsFor(v)'
    <3>1. SUFFICES ASSUME SentOnce(v), db.identity[v].active = Free, NoRequestsFor(v),
                          NEW q \in reached, q[2] = v
                   PROVE  FALSE
      BY <1>2 DEF NoRequestsFor
    <3>2. QED
      BY <1>18, <1>19, <3>1, Assumed
  <2>3. \A b \in Actions : job'[b].seen = job[b].seen
    BY <1>7, <1>8
  <2>4. QED
    BY <1>3, <1>16, <2>1, <2>2, <2>3 DEF VendorEvidence
<1>21. ASSUME NEW b \in Actions, Untried(b)' PROVE NothingOf(b)'
  <2>1. CASE b = a
    BY <1>1, <1>2, <1>3, <1>17, <1>21, <2>1 DEF EvidenceOk, NothingOf
  <2>2. CASE b # a
    <3>1. NothingOf(b)
      BY <1>1, <1>16, <1>21, <2>2 DEF EvidenceOk
    <3>2. QED
      BY <1>2, <1>3, <1>18, <2>2, <3>1 DEF NothingOf
  <2>3. QED
    BY <2>1, <2>2
<1>22. ASSUME NEW b \in Actions, NEW i \in MembersOf[b] PROVE EvidenceOf(b, i)'
  <2>1. PICK v : v = VendorOf[i]
    OBVIOUS
  <2>2. v \in Vendors /\ EvidenceOf(b, i)
    BY <1>1, <2>1, MembersOfTransfer DEF EvidenceOk
  <2>3. SUFFICES ASSUME InFlight(b), db.member[i] = NoClass, SentOnce(v), Uncounted(v)
                 PROVE  /\ (card[v] = "absent" \/ SawAbsent(b, v)') => OnlyOf(b, v)'
                        /\ (card[v] = "absent" /\ Untried(b)') =>
                              NoRequestsFor(v)' /\ listed[v] = db.action[b].baseline[v]
    BY <1>3, <1>16, <2>1, <2>2 DEF EvidenceOf
  <2>4. /\ (card[v] = "absent" \/ SawAbsent(b, v)) => OnlyOf(b, v)
        /\ (card[v] = "absent" /\ Untried(b)) =>
              NoRequestsFor(v) /\ listed[v] = db.action[b].baseline[v]
    BY <2>1, <2>2, <2>3 DEF EvidenceOf
  <2>5. CASE \A q \in reached : q[2] # v
    <3>1. OnlyOf(b, v) => OnlyOf(b, v)'
      <4>1. <<b, v, "attempt">> \notin reached
        BY <2>5
      <4>2. QED
        BY <1>2, <1>3, <2>5, <4>1 DEF OnlyOf
    <3>2. NoRequestsFor(v) => NoRequestsFor(v)'
      BY <1>2, <2>5 DEF NoRequestsFor
    <3>3. Untried(b)' => Untried(b)
      BY <1>16, <1>17
    <3>4. QED
      BY <1>16, <2>2, <2>4, <3>1, <3>2, <3>3
  <2>6. CASE \E q \in reached : q[2] = v
    <3>1. v \in VendorCodes(a)
      BY <1>18, <2>6
    <3>2. /\ CallOf(a) = "attempt" /\ Untried(a) /\ db.identity[v].active = a
      BY <1>19, <2>3, <3>1
    <3>3. db.identity[v].active = b
      <4>1. OwnerOk(b) /\ StageOk(b)
        BY <1>1 DEF OwnersOk, StagesOk
      <4>2. Attempted(b)
        BY <2>3, <4>1 DEF StageOk, Attempted, InFlight, InFlightStates
      <4>3. QED
        BY <2>1, <2>3, <4>1, <4>2 DEF OwnerOk
    <3>4. b = a
      BY <3>2, <3>3
    <3>5. ~Untried(b)' /\ ~SawAbsent(b, v)'
      BY <1>16, <1>17, <2>2, <2>6, <3>4
    <3>6. ASSUME card[v] = "absent" PROVE OnlyOf(b, v)'
      <4>1. NoRequestsFor(v) /\ listed[v] = db.action[b].baseline[v]
        BY <2>4, <3>2, <3>4, <3>6
      <4>2. <<b, v>> \notin made
        BY <1>1, <3>2, <3>4 DEF EvidenceOk, NothingOf
      <4>3. \A q \in requests' : q[2] = v => q = <<b, v, "attempt">>
        BY <1>2, <1>18, <3>2, <3>4, <4>1 DEF NoRequestsFor
      <4>4. QED
        BY <1>3, <4>1, <4>2, <4>3 DEF OnlyOf
    <3>7. QED
      BY <3>5, <3>6
  <2>7. QED
    BY <2>5, <2>6
<1>23. ASSUME NEW b \in Actions, NEW i \in MembersOf[b] PROVE RejectionOf(b, i)'
  <2>1. VendorOf[i] \in Vendors /\ RejectionOf(b, i)
    BY <1>1, MembersOfTransfer DEF EvidenceOk
  <2>2. SUFFICES ASSUME db.member[i] = "rejected", SentOnce(VendorOf[i]), Uncounted(VendorOf[i])
                 PROVE  <<b, VendorOf[i], "attempt">> \notin reached
    BY <1>2, <1>3, <1>16, <2>1 DEF RejectionOf
  <2>3. SUFFICES ASSUME <<b, VendorOf[i], "attempt">> \in reached PROVE FALSE
    OBVIOUS
  <2>4. b = a /\ VendorOf[i] \in VendorCodes(a)
    BY <1>18, <2>3
  <2>5. db.member[i] = NoClass
    BY <1>4, <1>19, <2>2, <2>4
  <2>6. QED
    BY <2>2, <2>5, Assumed DEF Classes
<1>24. ASSUME NEW q \in requests' PROVE RequestOk(q)'
  <2>1. CASE q \in requests
    BY <1>1, <1>3, <2>1 DEF EvidenceOk, RequestOk, Attempted
  <2>2. CASE q \in reached
    BY <1>3, <1>4, <1>11, <1>18, <2>2 DEF RequestOk, Attempted
  <2>3. QED
    BY <1>2, <2>1, <2>2
<1>25. EvidenceOk'
  BY <1>20, <1>21, <1>22, <1>23, <1>24 DEF EvidenceOk
<1>26. QED
  BY <1>12, <1>13, <1>14, <1>15, <1>25, InvPartsNext


-----------------------------------------------------------------------------
(* The attempt and its doubtful answers. *)

\* BeginPublicationAction and MarkPublicationReconciling move the phase only.
LEMMA PhaseMoves ==
    ASSUME NEW t \in Transfers, ProjectionOf(t), NEW p \in ExecutingPhases,
           db'.rows[t] = [db.rows[t] EXCEPT !.transfer.phase = p],
           db'.plan[t] = "superseded" <=> db.plan[t] = "superseded",
           \A a \in ActionsOf(t) :
              /\ db'.action[a].state = "superseded" <=> db.action[a].state = "superseded"
              /\ NotEnded(a)' => NotEnded(a)
    PROVE  /\ ProjectionOf(t)'
           /\ db'.rows[t].item = db.rows[t].item
<1>1. PICK s : s = db.rows[t]
  OBVIOUS
<1>2. PICK r : r = db'.rows[t]
  OBVIOUS
<1>3. /\ s = [transfer |-> s.transfer, group |-> s.group, item |-> s.item]
      /\ s.transfer \in TransferRows
      /\ s.group \in [GroupTargetsOf(t) -> GroupRows]
      /\ s.item \in [TransferItems(t) -> ItemRows]
  BY <1>1 DEF ProjectionOf, RowsOk
<1>4. PICK head : head = [s.transfer EXCEPT !.phase = p]
  OBVIOUS
<1>5. head \in TransferRows /\ head.phase = p /\ head.outcome = s.transfer.outcome
  BY <1>3, <1>4 DEF TransferRows
<1>6. r = [s EXCEPT !.transfer = head]
  BY <1>1, <1>2, <1>4
<1>7. /\ r = [transfer |-> head, group |-> s.group, item |-> s.item]
  BY <1>3, <1>6
<1>8. RowsOk(r, t)
  BY <1>3, <1>5, <1>7 DEF RowsOk
<1>9. p # "finished"
  BY DEF ExecutingPhases
<1>10. ASSUME NEW a \in ActionsOf(t)
       PROVE  /\ db'.action[a].state = "superseded" <=> db'.plan[t] = "superseded"
              /\ NotEnded(a)' =>
                    /\ r.transfer.outcome = "running"
                    /\ r.transfer.phase # "finished"
                    /\ \A g \in GroupTargets(a) :
                          r.group[g].overall = "running" /\ r.group[g].media \in {"running", "skipped"}
              /\ InFlight(a)' => r.transfer.phase \in ExecutingPhases
  BY <1>1, <1>5, <1>7, <1>9, <1>10 DEF ProjectionOf
<1>11. db'.plan[t] # "superseded" =>
          /\ \A g \in GroupTargetsOf(t) :
                r.group[g].plan = ThePlan /\ r.group[g].preparation = "succeeded"
          /\ \A i \in TransferItems(t) \ PublishedItems(t) : r.item[i].state = "terminal"
  BY <1>1, <1>7 DEF ProjectionOf
<1>12. ProjectionOf(t)'
  <2>1. db'.rows[t] = r
    BY <1>2
  <2>2. QED
    BY ZenonT(60), <1>8, <1>10, <1>11, <2>1 DEF ProjectionOf
<1>13. QED
  BY <1>1, <1>2, <1>7, <1>12

LEMMA BeginAttemptKeepsInv ==
    ASSUME Inv, NEW a \in Actions, BeginAttempt(a)
    PROVE  Inv'
<1>1. PICK t \in Transfers : t = TransferOf[a]
  BY MembersOfTransfer
<1>2. PICK e : e = job[a].epoch
  OBVIOUS
<1>3. /\ JournalOk(db) /\ RemoteOk /\ StagesOk /\ JobsOk /\ OwnersOk
      /\ EvidenceOk /\ PlanOk /\ ProjectionOk
  BY InvParts
<1>4. /\ db.action[a].state = "planned"
      /\ db.plan[t] \in {"awaiting_authorization", "executing"}
      /\ DistinctVendorCodes(a)
      /\ \A v \in VendorCodes(a) : db.identity[v].state = "remote_missing" /\ db.identity[v].active = Free
      /\ UNCHANGED <<due, stored, sends, crashes, card, listed, requests, made>>
      /\ outside' = [v \in Vendors |->
            IF v \in VendorCodes(a) /\ outside[v] = "listed" THEN "counted" ELSE outside[v]]
  BY <1>1 DEF BeginAttempt, BeginProductAttemptOk, Bindable
<1>5. /\ IsJournal(db)
      /\ db.plan \in [Transfers -> PlanStates]
      /\ db.action \in [Actions -> ActionRows]
      /\ db.identity \in [Vendors -> IdentityRows]
  BY <1>3, JournalTypes
<1>6. /\ StageOk(a) /\ db.action[a].attempt = "none" /\ db.action[a].retry = "none" /\ sends[a] = 0
      /\ \A i \in MembersOf[a] : db.member[i] = NoClass
  BY <1>3, <1>4 DEF StagesOk, StageOk, PendingMembers
<1>7. e \in 0..MaxAuths /\ stored \in [Vendors -> Nat] /\ job \in [Actions -> JobType]
  BY <1>2, <1>3 DEF RemoteOk, JobType
<1>8. PICK row : row = [db.action[a] EXCEPT !.state = "dispatching", !.auth = e,
                                            !.attempt = "open", !.baseline = stored]
  OBVIOUS
<1>9. row = [state |-> "dispatching", auth |-> e, attempt |-> "open", retry |-> "none",
             baseline |-> stored]
  <2>1. db.action[a] \in ActionRows
    BY <1>5
  <2>2. QED
    BY <1>6, <1>8, <2>1 DEF ActionRows
<1>10. row \in ActionRows
  BY <1>7, <1>9 DEF ActionRows, ActionStates, InFlightStates, AttemptStates
<1>11. PICK identity : identity = [v \in Vendors |->
            IF v \in VendorCodes(a)
            THEN [state |-> "mutation_pending", active |-> a]
            ELSE db.identity[v]]
  OBVIOUS
<1>12. PICK p : p = IF db.rows[t].transfer.phase = "media" THEN "media" ELSE "publishing"
  OBVIOUS
<1>13. PICK s : s = [db.rows[t] EXCEPT !.transfer.phase = p]
  OBVIOUS
<1>14. p \in ExecutingPhases /\ s = BeginPublicationAction(db.rows[t])
  BY <1>12, <1>13 DEF ExecutingPhases, BeginPublicationAction
<1>15. db' = [db EXCEPT !.identity = identity, !.action[a] = row, !.plan[t] = "executing",
                        !.rows[t] = s]
  BY <1>1, <1>2, <1>8, <1>11, <1>14 DEF BeginAttempt, BeginProductAttempt
<1>16. /\ IsJournal(db')
       /\ db'.identity = identity
       /\ db'.action = [db.action EXCEPT ![a] = row]
       /\ db'.plan = [db.plan EXCEPT ![t] = "executing"]
       /\ db'.rows = [db.rows EXCEPT ![t] = s]
       /\ db'.auth = db.auth /\ db'.member = db.member /\ db'.media = db.media
       /\ db'.upload = db.upload /\ db'.attributed = db.attributed
  BY <1>5, <1>15 DEF IsJournal
<1>17. /\ \A b \in Actions : db'.action[b] = IF b = a THEN row ELSE db.action[b]
       /\ \A u \in Transfers : db'.plan[u] = IF u = t THEN "executing" ELSE db.plan[u]
       /\ \A u \in Transfers : db'.rows[u] = IF u = t THEN s ELSE db.rows[u]
       /\ \A v \in Vendors : db'.identity[v] =
             IF v \in VendorCodes(a) THEN [state |-> "mutation_pending", active |-> a]
             ELSE db.identity[v]
  <2>1. db.rows = [u \in Transfers |-> db.rows[u]]
    BY <1>3 DEF ProjectionOk
  <2>2. PICK rows : rows = db.rows
    OBVIOUS
  <2>3. rows = [u \in Transfers |-> rows[u]]
    BY <2>1, <2>2
  <2>4. \A u \in Transfers : db'.rows[u] = IF u = t THEN s ELSE db.rows[u]
    BY <1>16, <2>2, <2>3
  <2>5. QED
    BY <1>5, <1>11, <1>16, <2>4
<1>18. JournalOk(db')
  <2>1. db'.plan \in [Transfers -> PlanStates] /\ db'.action \in [Actions -> ActionRows]
    BY <1>5, <1>10, <1>16 DEF PlanStates
  <2>2. identity \in [Vendors -> IdentityRows]
    BY <1>5, <1>11 DEF IdentityRows, IdentityStates
  <2>3. QED
    BY <1>3, <1>16, <2>1, <2>2, JournalTypes, JournalFromFields
<1>19. PICK new : new = [NoJob EXCEPT !.step = "send"]
  OBVIOUS
<1>20. /\ new.step = "send" /\ new.kind = "dispatch" /\ new.seen = NothingSeen
       /\ new \in JobType
  BY <1>19, InstanceAssumption DEF NoJob, JobType, NothingSeen, CardStates, Answers
<1>21. \A b \in Actions : job'[b] = IF b = a THEN new ELSE job[b]
  BY <1>7, <1>19 DEF BeginAttempt
<1>22. RemoteOk'
  <2>1. job' \in [Actions -> JobType]
    BY <1>7, <1>19, <1>20 DEF BeginAttempt
  <2>2. QED
    BY <1>3, <1>4, <2>1 DEF RemoteOk
<1>23. StagesOk'
  <2>1. ASSUME NEW b \in Actions, b # a PROVE StageOk(b)'
    BY <1>3, <1>4, <1>16, <1>17, <2>1, StageFrame DEF StagesOk
  <2>2. StageOk(a)'
    <3>1. PendingMembers(db, a)' = MembersOf[a]
      BY <1>6, <1>16 DEF PendingMembers
    <3>2. db'.action[a].state = "dispatching" /\ db'.action[a].attempt = "open"
          /\ db'.action[a].retry = "none" /\ sends'[a] = 0
      BY <1>4, <1>6, <1>9, <1>17
    <3>3. QED
      BY <3>1, <3>2 DEF StageOk
  <2>3. QED
    BY <2>1, <2>2 DEF StagesOk
<1>24. JobsOk'
  <2>1. ASSUME NEW b \in Actions, b # a PROVE JobOk(b)'
    BY <1>3, <1>4, <1>17, <1>21, <2>1, JobFrame DEF JobsOk
  <2>2. JobOk(a)'
    BY <1>4, <1>6, <1>9, <1>17, <1>20, <1>21 DEF JobOk
  <2>3. QED
    BY <2>1, <2>2 DEF JobsOk
<1>25. OwnersOk'
  <2>1. IdentityOk'
    BY <1>3, <1>17 DEF OwnersOk, IdentityOk
  <2>2. ASSUME NEW b \in Actions, b # a PROVE OwnerOk(b)'
    <3>1. OwnerOk(b) /\ \A i \in MembersOf[b] : VendorOf[i] \in Vendors
      BY <1>3, MembersOfTransfer DEF OwnersOk
    <3>2. ASSUME NEW i \in MembersOf[b]
          PROVE  /\ db'.identity[VendorOf[i]].active = b \/ db.identity[VendorOf[i]].active # b
                 /\ db.identity[VendorOf[i]] = [state |-> "blocked_uncertain", active |-> b] =>
                       db'.identity[VendorOf[i]] = [state |-> "blocked_uncertain", active |-> b]
      <4>1. CASE VendorOf[i] \in VendorCodes(a)
        BY <1>4, <4>1, Assumed
      <4>2. CASE VendorOf[i] \notin VendorCodes(a)
        BY <1>17, <3>1, <4>2
      <4>3. QED
        BY <4>1, <4>2
    <3>3. (Attempted(b)' => Attempted(b)) /\ (InFlight(b)' => InFlight(b))
      BY <1>17, <2>2 DEF Attempted, InFlight
    <3>4. QED
      BY <1>16, <3>1, <3>2, <3>3, OwnerFrame
  <2>3. OwnerOk(a)'
    <3>1. ASSUME NEW i \in MembersOf[a]
          PROVE  db'.member[i] = NoClass /\ db'.identity[VendorOf[i]].active = a
      BY <1>6, <1>16, <1>17, MembersOfTransfer
    <3>2. QED
      BY <1>4, <3>1, Assumed DEF OwnerOk, Classes
  <2>4. QED
    BY <2>1, <2>2, <2>3 DEF OwnersOk
<1>26. /\ \A v \in Vendors : SentOnce(v)' <=> SentOnce(v)
       /\ \A b \in Actions : b # a =>
             /\ Attempted(b)' <=> Attempted(b)
             /\ InFlight(b)' <=> InFlight(b)
             /\ Untried(b)' <=> Untried(b)
             /\ \A v \in Vendors : SawAbsent(b, v)' <=> SawAbsent(b, v)
       /\ \A v \in Vendors : ~SawAbsent(a, v)'
       /\ ~Attempted(a) /\ Untried(a)
  <2>1. \A b \in Actions : db'.action[b].retry = db.action[b].retry
    BY <1>6, <1>9, <1>17
  <2>2. QED
    BY <1>6, <1>17, <1>20, <1>21, <2>1 DEF SentOnce, Attempted, InFlight, Untried, SawAbsent
<1>27. NothingOf(a)
  BY <1>3, <1>26 DEF EvidenceOk
<1>30. \A v \in Vendors :
          /\ Uncounted(v)' => Uncounted(v)
          /\ v \in VendorCodes(a) => (Uncounted(v)' => outside[v] # "listed")
          /\ v \notin VendorCodes(a) => outside'[v] = outside[v]
  BY <1>4 DEF Uncounted
<1>28. EvidenceOk'
  <2>1. ASSUME NEW v \in Vendors PROVE VendorEvidence(v)'
    <3>1. VendorEvidence(v)
      BY <1>3 DEF EvidenceOk
    <3>2. NoRequestsFor(v)' <=> NoRequestsFor(v)
      BY <1>4 DEF NoRequestsFor
    <3>3. \A b \in Actions : Attempted(b)' => db'.action[b].baseline[v] <= stored[v]
      <4>1. row.baseline[v] <= stored[v]
        BY <1>7, <1>9
      <4>2. QED
        BY <1>17, <1>26, <3>1, <4>1 DEF VendorEvidence
    <3>4. \A b \in Actions : job'[b].seen[v] # "absent" => card[v] # "absent"
      BY <1>20, <1>21, <3>1 DEF VendorEvidence, NothingSeen
    <3>5. db'.identity[v].active = Free => db.identity[v].active = Free
      BY <1>17, Assumed
    <3>6. db'.identity[v].active = Free => v \notin VendorCodes(a)
      BY <1>17, Assumed
    <3>7. QED
      BY <1>4, <1>26, <1>30, <3>1, <3>2, <3>3, <3>4, <3>5, <3>6 DEF VendorEvidence
  <2>2. ASSUME NEW b \in Actions, Untried(b)' PROVE NothingOf(b)'
    <3>1. NothingOf(b)
      BY <1>3, <1>26, <1>27, <2>2 DEF EvidenceOk
    <3>2. QED
      BY <1>4, <3>1 DEF NothingOf
  <2>3. ASSUME NEW b \in Actions, b # a, NEW i \in MembersOf[b] PROVE EvidenceOf(b, i)'
    <3>1. VendorOf[i] \in Vendors /\ EvidenceOf(b, i)
      BY <1>3, MembersOfTransfer DEF EvidenceOk
    <3>2. (OnlyOf(b, VendorOf[i])' <=> OnlyOf(b, VendorOf[i]))
          /\ (NoRequestsFor(VendorOf[i])' <=> NoRequestsFor(VendorOf[i]))
      BY <1>4, <1>17, <2>3 DEF NoRequestsFor, OnlyOf
    <3>3. QED
      BY <1>4, <1>16, <1>17, <1>26, <1>30, <2>3, <3>1, <3>2 DEF EvidenceOf
  <2>4. ASSUME NEW i \in MembersOf[a] PROVE EvidenceOf(a, i)'
    <3>1. PICK v : v = VendorOf[i]
      OBVIOUS
    <3>2. v \in Vendors /\ v \in VendorCodes(a) /\ db.identity[v].active = Free /\ VendorEvidence(v)
      BY <1>3, <1>4, <3>1, MembersOfTransfer DEF EvidenceOk
    <3>3. ASSUME card[v] = "absent", SentOnce(v), Uncounted(v)'
          PROVE  NoRequestsFor(v)' /\ listed'[v] = db'.action[a].baseline[v] /\ OnlyOf(a, v)'
      <4>1. NoRequestsFor(v) /\ listed[v] = stored[v]
        BY <1>30, <3>2, <3>3 DEF VendorEvidence
      <4>2. <<a, v>> \notin made
        BY <1>27 DEF NothingOf
      <4>3. db'.action[a].baseline[v] = stored[v]
        BY <1>9, <1>17
      <4>4. NoRequestsFor(v)'
        BY <1>4, <4>1 DEF NoRequestsFor
      <4>5. QED
        BY <1>4, <4>1, <4>2, <4>3, <4>4 DEF OnlyOf, NoRequestsFor
    <3>4. QED
      BY <1>4, <1>26, <3>1, <3>2, <3>3 DEF EvidenceOf
  <2>5. ASSUME NEW b \in Actions, NEW i \in MembersOf[b] PROVE RejectionOf(b, i)'
    <3>1. VendorOf[i] \in Vendors /\ RejectionOf(b, i)
      BY <1>3, MembersOfTransfer DEF EvidenceOk
    <3>2. QED
      BY <1>4, <1>16, <1>26, <1>30, <3>1 DEF RejectionOf
  <2>6. ASSUME NEW r \in requests' PROVE RequestOk(r)'
    <3>1. r \in requests /\ RequestOk(r) /\ r[1] \in Actions
      BY <1>3, <1>4, <2>6 DEF EvidenceOk, RemoteOk
    <3>2. r[1] # a
      BY <1>27, <3>1 DEF NothingOf
    <3>3. QED
      BY <1>17, <3>1, <3>2 DEF RequestOk, Attempted
  <2>7. QED
    BY <2>1, <2>2, <2>3, <2>4, <2>5, <2>6 DEF EvidenceOk
<1>29. PlanOk'
  <2>1. ASSUME NEW u \in Transfers, u # t PROVE PlanOf(u)'
    <3>1. PlanOf(u)
      BY <1>3 DEF PlanOk
    <3>2. a \notin ActionsOf(u)
      BY <1>1, <2>1 DEF ActionsOf
    <3>3. \A b \in ActionsOf(u) : db'.action[b] = db.action[b]
      BY <1>17, <3>2 DEF ActionsOf
    <3>4. QED
      BY <1>16, <1>17, <2>1, <3>1, <3>3, PlanFrame
  <2>2. PlanOf(t)'
    <3>1. a \in ActionsOf(t) /\ db'.plan[t] = "executing"
      BY <1>1, <1>17, MembersOfTransfer
    <3>2. db'.action[a].state \notin EndedStates
      BY <1>9, <1>17 DEF EndedStates
    <3>3. QED
      BY <3>1, <3>2 DEF PlanOf, PlanActionsEnded
  <2>3. QED
    BY <2>1, <2>2 DEF PlanOk
<1>31. ProjectionOk'
  <2>1. \A b \in Actions :
           /\ db'.action[b].state = "superseded" <=> db.action[b].state = "superseded"
           /\ NotEnded(b)' => NotEnded(b)
           /\ b # a => (InFlight(b)' => InFlight(b))
    BY <1>4, <1>9, <1>17 DEF NotEnded, InFlight
  <2>2. ASSUME NEW u \in Transfers, u # t PROVE ProjectionOf(u)'
    <3>1. ProjectionOf(u)
      BY <1>3 DEF ProjectionOk
    <3>2. ActionsOf(u) \subseteq Actions /\ a \notin ActionsOf(u)
      BY <1>1, <2>2 DEF ActionsOf
    <3>3. db'.rows[u] = db.rows[u] /\ db'.plan[u] = db.plan[u]
      BY <1>17, <2>2
    <3>4. QED
      BY <2>1, <3>1, <3>2, <3>3, ProjectionFrame
  <2>3. ProjectionOf(t)' /\ db'.rows[t].item = db.rows[t].item
    <3>1. ProjectionOf(t)
      BY <1>3 DEF ProjectionOk
    <3>2. ActionsOf(t) \subseteq Actions
      BY DEF ActionsOf
    <3>3. db'.plan[t] = "superseded" <=> db.plan[t] = "superseded"
      BY <1>4, <1>17
    <3>4. db'.rows[t] = [db.rows[t] EXCEPT !.transfer.phase = p]
      BY <1>13, <1>17
    <3>5. QED
      BY <1>14, <2>1, <3>1, <3>2, <3>3, <3>4, PhaseMoves
  <2>4. ASSUME NEW b \in Actions PROVE FollowsOf(b)'
    <3>1. FollowsOf(b) /\ TransferOf[b] \in Transfers
      BY <1>3, MembersOfTransfer DEF ProjectionOk
    <3>2. db'.rows[TransferOf[b]].item = db.rows[TransferOf[b]].item
      BY <1>17, <2>3, <3>1
    <3>3. \/ db'.action[b].state = db.action[b].state
          \/ {db.action[b].state, db'.action[b].state} \cap EndedStates = {}
      BY <1>4, <1>9, <1>17 DEF EndedStates
    <3>4. QED
      BY <1>16, <3>1, <3>2, <3>3, FollowsFrame
  <2>5. db'.rows = [u \in Transfers |-> db'.rows[u]]
    <3>1. PICK rows : rows = db.rows
      OBVIOUS
    <3>2. rows = [u \in Transfers |-> rows[u]]
      BY <1>3, <3>1 DEF ProjectionOk
    <3>3. QED
      BY <1>16, <3>1, <3>2
  <2>6. QED
    BY <2>2, <2>3, <2>4, <2>5 DEF ProjectionOk
<1>32. QED
  BY <1>18, <1>22, <1>23, <1>24, <1>25, <1>28, <1>29, <1>31, InvPartsNext


\* recordSubmission of an answer that needs reconciliation, by the job that
\* called or by the next pass.
LEMMA AwaitKeepsInv ==
    ASSUME Inv, NEW a \in Actions, NEW answer \in {"accepted", "uncertain", "empty"},
           AwaitReconciliationOk(db, a), db' = AwaitReconciliation(db, a, answer),
           UNCHANGED <<due, stored, sends, card, listed, requests, made, outside>>,
           job' \in [Actions -> JobType], job'[a].step = "none",
           \A b \in Actions : job'[b] = job[b] \/ job'[b] = NoJob
    PROVE  Inv'
<1>1. PICK t \in Transfers : t = TransferOf[a]
  BY MembersOfTransfer
<1>2. /\ JournalOk(db) /\ RemoteOk /\ StagesOk /\ JobsOk /\ OwnersOk
      /\ EvidenceOk /\ PlanOk /\ ProjectionOk
  BY InvParts
<1>3. /\ IsJournal(db)
      /\ db.action \in [Actions -> ActionRows]
      /\ db.identity \in [Vendors -> IdentityRows]
  BY <1>2, JournalTypes
<1>4. db.action[a].state = "dispatching" /\ db.action[a].attempt = "open"
      /\ db.action[a].retry = "none"
  BY <1>2 DEF AwaitReconciliationOk, StagesOk, StageOk
<1>5. PICK row : row = [db.action[a] EXCEPT !.state = "reconciling", !.attempt = answer]
  OBVIOUS
<1>6. /\ row = [state |-> "reconciling", auth |-> db.action[a].auth, attempt |-> answer,
                retry |-> "none", baseline |-> db.action[a].baseline]
      /\ row \in ActionRows
  <2>1. db.action[a] \in ActionRows
    BY <1>3
  <2>2. row = [state |-> "reconciling", auth |-> db.action[a].auth, attempt |-> answer,
               retry |-> "none", baseline |-> db.action[a].baseline]
    BY <1>4, <1>5, <2>1 DEF ActionRows
  <2>3. QED
    BY <2>1, <2>2 DEF ActionRows, ActionStates, InFlightStates, AttemptStates, Answers
<1>7. PICK identity : identity = [v \in Vendors |->
            IF /\ answer # "accepted"
               /\ db.identity[v].active = a
               /\ db.identity[v].state = "mutation_pending"
            THEN [db.identity[v] EXCEPT !.state = "blocked_uncertain"]
            ELSE db.identity[v]]
  OBVIOUS
<1>8. /\ identity \in [Vendors -> IdentityRows]
      /\ \A v \in Vendors :
            /\ identity[v].active = db.identity[v].active
            /\ identity[v].state = "mutation_pending" => db.identity[v].state = "mutation_pending"
            /\ db.identity[v].state = "blocked_uncertain" => identity[v] = db.identity[v]
  <2>1. ASSUME NEW v \in Vendors
        PROVE  /\ identity[v] \in IdentityRows
               /\ identity[v].active = db.identity[v].active
               /\ identity[v].state = "mutation_pending" => db.identity[v].state = "mutation_pending"
               /\ db.identity[v].state = "blocked_uncertain" => identity[v] = db.identity[v]
    <3>1. PICK old \in IdentityRows : old = db.identity[v]
      BY <1>3
    <3>2. identity[v] = IF answer # "accepted" /\ old.active = a /\ old.state = "mutation_pending"
                        THEN [old EXCEPT !.state = "blocked_uncertain"] ELSE old
      BY <1>7, <3>1
    <3>3. QED
      BY <3>1, <3>2 DEF IdentityRows, IdentityStates
  <2>2. QED
    BY <1>7, <2>1
<1>9. PICK p : p = IF db.rows[t].transfer.phase = "media" THEN "media" ELSE "reconciling"
  OBVIOUS
<1>10. PICK s : s = [db.rows[t] EXCEPT !.transfer.phase = p]
  OBVIOUS
<1>11. p \in ExecutingPhases /\ s = MarkPublicationReconciling(db.rows[t])
  BY <1>9, <1>10 DEF ExecutingPhases, MarkPublicationReconciling
<1>12. db' = [db EXCEPT !.action[a] = row, !.identity = identity, !.rows[t] = s]
  BY <1>1, <1>5, <1>7, <1>11 DEF AwaitReconciliation
<1>13. /\ IsJournal(db')
       /\ db'.identity = identity
       /\ db'.action = [db.action EXCEPT ![a] = row]
       /\ db'.rows = [db.rows EXCEPT ![t] = s]
       /\ db'.plan = db.plan
       /\ db'.auth = db.auth /\ db'.member = db.member /\ db'.media = db.media
       /\ db'.upload = db.upload /\ db'.attributed = db.attributed
  BY <1>3, <1>12 DEF IsJournal
<1>14. /\ \A b \in Actions : db'.action[b] = IF b = a THEN row ELSE db.action[b]
       /\ \A u \in Transfers : db'.rows[u] = IF u = t THEN s ELSE db.rows[u]
       /\ db'.rows = [u \in Transfers |-> db'.rows[u]]
  <2>1. PICK rows : rows = db.rows
    OBVIOUS
  <2>2. rows = [u \in Transfers |-> rows[u]]
    BY <1>2, <2>1 DEF ProjectionOk
  <2>3. /\ \A u \in Transfers : db'.rows[u] = IF u = t THEN s ELSE db.rows[u]
        /\ db'.rows = [u \in Transfers |-> db'.rows[u]]
    BY <1>13, <2>1, <2>2
  <2>4. QED
    BY <1>3, <1>13, <2>3
<1>15. JournalOk(db')
  <2>1. db'.action \in [Actions -> ActionRows]
    BY <1>3, <1>6, <1>13
  <2>2. QED
    BY <1>2, <1>8, <1>13, <2>1, JournalTypes, JournalFromFields
<1>16. RemoteOk'
  BY <1>2 DEF RemoteOk
<1>17. StagesOk'
  <2>1. ASSUME NEW b \in Actions, b # a PROVE StageOk(b)'
    BY <1>2, <1>13, <1>14, <2>1, StageFrame DEF StagesOk
  <2>2. StageOk(a)'
    <3>1. StageOk(a)
      BY <1>2 DEF StagesOk
    <3>2. db'.action[a].state = "reconciling" /\ db'.action[a].attempt = answer
          /\ db'.action[a].retry = "none" /\ sends'[a] = sends[a]
      BY <1>6, <1>14
    <3>3. QED
      BY <1>4, <3>1, <3>2 DEF StageOk
  <2>3. QED
    BY <2>1, <2>2 DEF StagesOk
<1>18. JobsOk'
  <2>1. ASSUME NEW b \in Actions PROVE JobOk(b)'
    <3>1. JobOk(b)
      BY <1>2 DEF JobsOk
    <3>2. CASE job'[b].step = "none"
      BY <3>1, <3>2, JobFrame
    <3>3. CASE job'[b] = job[b] /\ b # a
      BY <1>14, <3>1, <3>3, JobFrame
    <3>4. QED
      BY <3>2, <3>3 DEF NoJob
  <2>2. QED
    BY <2>1 DEF JobsOk
<1>19. ASSUME NEW b \in Actions
       PROVE  /\ Attempted(b)' <=> Attempted(b)
              /\ InFlight(b)' <=> InFlight(b)
              /\ NotEnded(b)' <=> NotEnded(b)
              /\ db'.action[b].baseline = db.action[b].baseline
              /\ db'.action[b].retry = db.action[b].retry
              /\ db'.action[b].state \in EndedStates <=> db.action[b].state \in EndedStates
              /\ db'.action[b].state = "superseded" <=> db.action[b].state = "superseded"
              /\ \/ db'.action[b].state = db.action[b].state
                 \/ {db.action[b].state, db'.action[b].state} \cap EndedStates = {}
  BY <1>4, <1>6, <1>14 DEF Attempted, InFlight, NotEnded, InFlightStates, EndedStates
<1>20. OwnersOk'
  <2>1. IdentityOk'
    BY <1>2, <1>8, <1>13 DEF OwnersOk, IdentityOk
  <2>2. ASSUME NEW b \in Actions PROVE OwnerOk(b)'
    <3>1. OwnerOk(b) /\ \A i \in MembersOf[b] : VendorOf[i] \in Vendors
      BY <1>2, MembersOfTransfer DEF OwnersOk
    <3>2. ASSUME NEW i \in MembersOf[b]
          PROVE  /\ db'.identity[VendorOf[i]].active = b \/ db.identity[VendorOf[i]].active # b
                 /\ db.identity[VendorOf[i]] = [state |-> "blocked_uncertain", active |-> b] =>
                       db'.identity[VendorOf[i]] = [state |-> "blocked_uncertain", active |-> b]
      BY <1>8, <1>13, <3>1
    <3>3. QED
      BY <1>13, <1>19, <3>1, <3>2, OwnerFrame
  <2>3. QED
    BY <2>1, <2>2 DEF OwnersOk
<1>21. EvidenceOk'
  <2>1. \A v \in Vendors : db'.identity[v].active = Free => db.identity[v].active = Free
    BY <1>8, <1>13
  <2>2. ASSUME NEW b \in Actions
        PROVE  /\ Untried(b)' => Untried(b)
               /\ \A i \in MembersOf[b] : SawAbsent(b, VendorOf[i])' => SawAbsent(b, VendorOf[i])
               /\ \A v \in Vendors : job'[b].seen[v] # "absent" => job[b].seen[v] # "absent"
    <3>1. CASE job'[b] = job[b] /\ b # a
      BY <1>14, <3>1 DEF Untried, Attempted, SawAbsent
    <3>2. CASE job'[b] = NoJob
      BY <1>19, <3>2 DEF Untried, SawAbsent, NoJob, NothingSeen
    <3>3. CASE job'[b] = job[b] /\ b = a
      BY <1>19, <3>3 DEF Untried, SawAbsent
    <3>4. QED
      BY <3>1, <3>2, <3>3
  <2>3. \A b \in Actions :
              /\ Attempted(b)' <=> Attempted(b)
              /\ db'.action[b].baseline = db.action[b].baseline
              /\ db'.action[b].retry = "none" => db.action[b].retry = "none"
              /\ InFlight(b)' => InFlight(b)
              /\ Untried(b)' => Untried(b)
              /\ \A i \in MembersOf[b] :
                    /\ db'.member[i] = NoClass => db.member[i] = NoClass
                    /\ db'.member[i] = "rejected" => db.member[i] = "rejected"
                    /\ (InFlight(b)' /\ db'.member[i] = NoClass /\ SawAbsent(b, VendorOf[i])') =>
                          SawAbsent(b, VendorOf[i]) \/ card[VendorOf[i]] = "absent"
              /\ \A v \in Vendors :
                    job'[b].seen[v] # "absent" => job[b].seen[v] # "absent" \/ card[v] # "absent"
    BY <1>13, <1>19, <2>2
  <2>4. EvidenceOk /\ RemoteOk /\ RemoteOk' /\ UNCHANGED <<card, listed, stored, requests, made, outside>>
    BY <1>2, <1>16
  <2>5. QED
    BY <2>1, <2>3, <2>4, EvidenceFrame
<1>22. PlanOk'
  <2>1. ASSUME NEW u \in Transfers PROVE PlanOf(u)'
    <3>1. PlanOf(u) /\ ActionsOf(u) \subseteq Actions
      BY <1>2 DEF PlanOk, ActionsOf
    <3>2. QED
      BY <1>13, <1>19, <3>1, PlanFrame
  <2>2. QED
    BY <2>1 DEF PlanOk
<1>23. ProjectionOk'
  <2>1. ASSUME NEW u \in Transfers, u # t PROVE ProjectionOf(u)'
    <3>1. ProjectionOf(u) /\ ActionsOf(u) \subseteq Actions
      BY <1>2 DEF ProjectionOk, ActionsOf
    <3>2. db'.rows[u] = db.rows[u] /\ db'.plan[u] = db.plan[u]
      BY <1>13, <1>14, <2>1
    <3>3. QED
      BY <1>19, <3>1, <3>2, ProjectionFrame
  <2>2. ProjectionOf(t)' /\ db'.rows[t].item = db.rows[t].item
    <3>1. ProjectionOf(t) /\ ActionsOf(t) \subseteq Actions
      BY <1>2 DEF ProjectionOk, ActionsOf
    <3>2. db'.plan[t] = "superseded" <=> db.plan[t] = "superseded"
      BY <1>13
    <3>3. db'.rows[t] = [db.rows[t] EXCEPT !.transfer.phase = p]
      BY <1>10, <1>14
    <3>4. QED
      BY <1>11, <1>19, <3>1, <3>2, <3>3, PhaseMoves
  <2>3. ASSUME NEW b \in Actions PROVE FollowsOf(b)'
    <3>1. FollowsOf(b) /\ TransferOf[b] \in Transfers
      BY <1>2, MembersOfTransfer DEF ProjectionOk
    <3>2. db'.rows[TransferOf[b]].item = db.rows[TransferOf[b]].item
      BY <1>14, <2>2, <3>1
    <3>3. QED
      BY <1>13, <1>19, <3>1, <3>2, FollowsFrame
  <2>4. QED
    BY <1>14, <2>1, <2>2, <2>3 DEF ProjectionOk
<1>24. QED
  BY <1>15, <1>16, <1>17, <1>18, <1>20, <1>21, <1>22, <1>23, InvPartsNext

-----------------------------------------------------------------------------
(* The retry. *)

LEMMA RetryMoves ==
    ASSUME Inv, NEW a \in Actions, NEW x \in {"open"} \cup Answers,
           db.action[a].state = "reconciling", db.action[a].attempt = "empty",
           db' = [db EXCEPT !.action[a].retry = x],
           UNCHANGED <<stored, sends, card, listed, requests, made, outside>>,
           RemoteOk', JobOk(a)',
           \A b \in Actions : b # a => job'[b] = job[b],
           job'[a] = job[a] \/ job'[a].step = "none" \/ job'[a].kind = "reconcile",
           \A v \in Vendors : SawAbsent(a, v)' => SawAbsent(a, v),
           \A v \in Vendors : job'[a].seen[v] # "absent" => job[a].seen[v] # "absent"
    PROVE  Inv'
<1>1. /\ JournalOk(db) /\ RemoteOk /\ StagesOk /\ JobsOk /\ OwnersOk
      /\ EvidenceOk /\ PlanOk /\ ProjectionOk
  BY InvParts
<1>2. IsJournal(db) /\ db.action \in [Actions -> ActionRows]
  BY <1>1, JournalTypes
<1>3. PICK row : row = [db.action[a] EXCEPT !.retry = x]
  OBVIOUS
<1>4. /\ row = [state |-> "reconciling", auth |-> db.action[a].auth, attempt |-> "empty",
                retry |-> x, baseline |-> db.action[a].baseline]
      /\ row \in ActionRows
  <2>1. db.action[a] \in ActionRows
    BY <1>2
  <2>2. row = [state |-> "reconciling", auth |-> db.action[a].auth, attempt |-> "empty",
               retry |-> x, baseline |-> db.action[a].baseline]
    BY <1>3, <2>1 DEF ActionRows
  <2>3. QED
    BY <2>1, <2>2 DEF ActionRows, ActionStates, InFlightStates, AttemptStates, Answers
<1>5. db' = [db EXCEPT !.action[a] = row]
  BY <1>3
<1>6. /\ IsJournal(db')
      /\ db'.action = [db.action EXCEPT ![a] = row]
      /\ db'.rows = db.rows /\ db'.plan = db.plan
      /\ db'.auth = db.auth /\ db'.member = db.member /\ db'.media = db.media
      /\ db'.upload = db.upload /\ db'.attributed = db.attributed
      /\ db'.identity = db.identity
  BY <1>2, <1>5 DEF IsJournal
<1>7. /\ \A b \in Actions : db'.action[b] = IF b = a THEN row ELSE db.action[b]
      /\ x # "none"
  BY <1>2, <1>6 DEF Answers
<1>8. JournalOk(db')
  <2>1. db'.action \in [Actions -> ActionRows]
    BY <1>2, <1>4, <1>6
  <2>2. QED
    BY ZenonT(40), <1>1, <1>6, <2>1, JournalTypes, JournalFromFields
<1>9. StagesOk'
  <2>1. ASSUME NEW b \in Actions, b # a PROVE StageOk(b)'
    BY <1>1, <1>6, <1>7, <2>1, StageFrame DEF StagesOk
  <2>2. StageOk(a)'
    <3>1. StageOk(a)
      BY <1>1 DEF StagesOk
    <3>2. db'.action[a].state = "reconciling" /\ db'.action[a].attempt = "empty"
          /\ db'.action[a].retry = x /\ sends'[a] = sends[a]
      BY <1>4, <1>7
    <3>3. QED
      BY <1>7, <3>1, <3>2 DEF StageOk
  <2>3. QED
    BY <2>1, <2>2 DEF StagesOk
<1>10. JobsOk'
  <2>1. ASSUME NEW b \in Actions, b # a PROVE JobOk(b)'
    BY <1>1, <1>7, <2>1, JobFrame DEF JobsOk
  <2>2. QED
    BY <2>1 DEF JobsOk
<1>11. ASSUME NEW b \in Actions
       PROVE  /\ Attempted(b)' <=> Attempted(b)
              /\ InFlight(b)' <=> InFlight(b)
              /\ NotEnded(b)' <=> NotEnded(b)
              /\ db'.action[b].state = db.action[b].state
              /\ db'.action[b].baseline = db.action[b].baseline
              /\ db'.action[b].retry = "none" => db.action[b].retry = "none"
              /\ Untried(b)' => Untried(b)
  BY <1>4, <1>7 DEF Attempted, InFlight, NotEnded, Untried
<1>12. OwnersOk'
  <2>1. IdentityOk'
    BY <1>1, <1>6 DEF OwnersOk, IdentityOk
  <2>2. ASSUME NEW b \in Actions PROVE OwnerOk(b)'
    <3>1. OwnerOk(b)
      BY <1>1 DEF OwnersOk
    <3>2. QED
      BY <1>6, <1>11, <3>1, OwnerFrame
  <2>3. QED
    BY <2>1, <2>2 DEF OwnersOk
<1>13. EvidenceOk'
  <2>1. \A v \in Vendors : db'.identity[v].active = Free => db.identity[v].active = Free
    BY <1>6
  <2>2. \A b \in Actions : \A i \in MembersOf[b] : VendorOf[i] \in Vendors
    BY MembersOfTransfer
  <2>3. \A b \in Actions : \A v \in Vendors :
           /\ SawAbsent(b, v)' => SawAbsent(b, v)
           /\ job'[b].seen[v] # "absent" => job[b].seen[v] # "absent"
    BY DEF SawAbsent
  <2>4. \A b \in Actions :
              /\ Attempted(b)' <=> Attempted(b)
              /\ db'.action[b].baseline = db.action[b].baseline
              /\ db'.action[b].retry = "none" => db.action[b].retry = "none"
              /\ InFlight(b)' => InFlight(b)
              /\ Untried(b)' => Untried(b)
              /\ \A i \in MembersOf[b] :
                    /\ db'.member[i] = NoClass => db.member[i] = NoClass
                    /\ db'.member[i] = "rejected" => db.member[i] = "rejected"
                    /\ (InFlight(b)' /\ db'.member[i] = NoClass /\ SawAbsent(b, VendorOf[i])') =>
                          SawAbsent(b, VendorOf[i]) \/ card[VendorOf[i]] = "absent"
              /\ \A v \in Vendors :
                    job'[b].seen[v] # "absent" => job[b].seen[v] # "absent" \/ card[v] # "absent"
    BY <1>6, <1>11, <2>2, <2>3
  <2>5. EvidenceOk /\ RemoteOk /\ RemoteOk' /\ UNCHANGED <<card, listed, stored, requests, made, outside>>
    BY <1>1
  <2>6. QED
    BY <2>1, <2>4, <2>5, EvidenceFrame
<1>14. PlanOk'
  <2>1. ASSUME NEW u \in Transfers PROVE PlanOf(u)'
    <3>1. PlanOf(u) /\ ActionsOf(u) \subseteq Actions
      BY <1>1 DEF PlanOk, ActionsOf
    <3>2. QED
      BY <1>6, <1>11, <3>1, PlanFrame
  <2>2. QED
    BY <2>1 DEF PlanOk
<1>15. ProjectionOk'
  <2>1. ASSUME NEW u \in Transfers PROVE ProjectionOf(u)'
    <3>1. ProjectionOf(u) /\ ActionsOf(u) \subseteq Actions
      BY <1>1 DEF ProjectionOk, ActionsOf
    <3>2. QED
      BY <1>6, <1>11, <3>1, ProjectionFrame
  <2>2. ASSUME NEW b \in Actions PROVE FollowsOf(b)'
    <3>1. FollowsOf(b)
      BY <1>1 DEF ProjectionOk
    <3>2. QED
      BY <1>6, <1>11, <3>1, FollowsFrame
  <2>3. db'.rows = [u \in Transfers |-> db'.rows[u]]
    BY <1>1, <1>6 DEF ProjectionOk
  <2>4. QED
    BY <2>1, <2>2, <2>3 DEF ProjectionOk
<1>16. QED
  BY <1>8, <1>9, <1>10, <1>12, <1>13, <1>14, <1>15, InvPartsNext

LEMMA RecordRetryKeepsInv ==
    ASSUME Inv, NEW a \in Actions, RecordRetry(a)
    PROVE  Inv'
<1>1. /\ RemoteOk /\ StageOk(a) /\ job \in [Actions -> JobType]
  BY InvParts DEF RemoteOk, StagesOk
<1>2. db.action[a].state = "reconciling" /\ db.action[a].attempt = "empty"
  BY <1>1 DEF RecordRetry, RecordProductRetryOk, StageOk
<1>3. job[a].answer \in Answers
  BY <1>1 DEF JobType
<1>4. /\ db' = [db EXCEPT !.action[a].retry = job[a].answer]
      /\ job' = [job EXCEPT ![a] = NoJob]
      /\ UNCHANGED <<due, stored, sends, card, listed, requests, made, outside>>
  BY DEF RecordRetry, RecordProductRetry, EndJob, remote
<1>5. \A b \in Actions : job'[b] = IF b = a THEN NoJob ELSE job[b]
  BY <1>1, <1>4
<1>6. RemoteOk'
  BY <1>1, <1>4, NoJobIsTyped DEF RemoteOk
<1>7. job'[a].step = "none" /\ JobOk(a)'
      /\ \A v \in Vendors : job'[a].seen[v] = "absent" /\ ~SawAbsent(a, v)'
  BY <1>5 DEF JobOk, SawAbsent, NoJob, NothingSeen
<1>8. /\ job[a].answer \in {"open"} \cup Answers
      /\ \A b \in Actions : b # a => job'[b] = job[b]
      /\ \A v \in Vendors : SawAbsent(a, v)' => SawAbsent(a, v)
      /\ \A v \in Vendors : job'[a].seen[v] # "absent" => job[a].seen[v] # "absent"
  BY <1>3, <1>5, <1>7
<1>9. QED
  BY <1>2, <1>4, <1>6, <1>7, <1>8, RetryMoves

LEMMA FinishInterruptedRetryKeepsInv ==
    ASSUME Inv, NEW a \in Actions, FinishInterruptedRetry(a)
    PROVE  Inv'
<1>1. /\ RemoteOk /\ StageOk(a) /\ JobOk(a) /\ job \in [Actions -> JobType]
      /\ db.action \in [Actions -> ActionRows] /\ IsJournal(db)
  BY InvParts, JournalTypes DEF RemoteOk, StagesOk, JobsOk
<1>2. db.action[a].state = "reconciling" /\ db.action[a].attempt = "empty"
  BY <1>1 DEF FinishInterruptedRetry, RecordProductRetryOk, StageOk
<1>3. /\ db' = [db EXCEPT !.action[a].retry = InterruptedAnswer]
      /\ UNCHANGED <<due, job, stored, sends, card, listed, requests, made, outside>>
      /\ job[a].step = "decide" /\ job[a].kind = "reconcile"
  BY DEF FinishInterruptedRetry, RecordProductRetry, remote
<1>4. RemoteOk'
  BY <1>1, <1>3 DEF RemoteOk
<1>5. db'.action[a].state = "reconciling"
  <2>1. PICK row : row = [db.action[a] EXCEPT !.retry = InterruptedAnswer]
    OBVIOUS
  <2>2. db' = [db EXCEPT !.action[a] = row]
    BY <1>3, <2>1
  <2>3. db'.action = [db.action EXCEPT ![a] = row]
    BY <1>1, <2>2 DEF IsJournal
  <2>4. db'.action[a] = row
    BY <1>1, <2>3
  <2>5. db.action[a] \in ActionRows
    BY <1>1
  <2>6. QED
    BY <1>2, <2>1, <2>4, <2>5 DEF ActionRows
<1>6. JobOk(a)'
  BY <1>3, <1>5 DEF JobOk
<1>7. \A v \in Vendors : (SawAbsent(a, v)' => SawAbsent(a, v))
  BY <1>3 DEF SawAbsent
<1>8. InterruptedAnswer \in {"open"} \cup Answers
  BY DEF InterruptedAnswer, Answers
<1>9. QED
  BY <1>2, <1>3, <1>4, <1>6, <1>7, <1>8, RetryMoves

LEMMA BeginRetryKeepsInv ==
    ASSUME Inv, NEW a \in Actions, BeginRetry(a)
    PROVE  Inv'
<1>1. /\ RemoteOk /\ StageOk(a) /\ job \in [Actions -> JobType]
      /\ due \in [Actions -> SUBSET {"retry", "deadline"}] /\ sends \in [Actions -> Nat]
      /\ db.action \in [Actions -> ActionRows] /\ IsJournal(db)
  BY InvParts, JournalTypes DEF RemoteOk, StagesOk
<1>2. db.action[a].state = "reconciling" /\ db.action[a].attempt = "empty"
      /\ db.action[a].retry = "none"
  BY DEF BeginRetry, BeginProductRetryOk
<1>3. PICK new : new = [NoJob EXCEPT !.step = "send", !.kind = "reconcile"]
  OBVIOUS
<1>4. /\ new.step = "send" /\ new.kind = "reconcile" /\ new.seen = NothingSeen
      /\ new \in JobType
  <2>1. PICK nothing : nothing = NothingSeen
    OBVIOUS
  <2>2. new = [step |-> "send", kind |-> "reconcile", epoch |-> 0, seen |-> nothing,
               due |-> {}, answer |-> "unsent"]
    BY <1>3, <2>1 DEF NoJob
  <2>3. nothing \in [Vendors -> CardStates]
    BY <2>1 DEF NothingSeen, CardStates
  <2>4. QED
    BY <2>1, <2>2, <2>3, InstanceAssumption DEF JobType, Answers
<1>5. /\ db' = [db EXCEPT !.action[a].retry = "open"]
      /\ job' = [job EXCEPT ![a] = new]
      /\ due' = [due EXCEPT ![a] = {}]
      /\ UNCHANGED <<stored, sends, card, listed, requests, made, outside>>
  BY <1>3 DEF BeginRetry, BeginProductRetry, remote
<1>6. \A b \in Actions : job'[b] = IF b = a THEN new ELSE job[b]
  BY <1>1, <1>5
<1>7. RemoteOk'
  <2>1. job' \in [Actions -> JobType] /\ due' \in [Actions -> SUBSET {"retry", "deadline"}]
    BY <1>1, <1>4, <1>5
  <2>2. QED
    BY <1>1, <1>5, <2>1 DEF RemoteOk
<1>8. db'.action[a].retry = "open"
  <2>1. PICK row : row = [db.action[a] EXCEPT !.retry = "open"]
    OBVIOUS
  <2>2. db' = [db EXCEPT !.action[a] = row]
    BY <1>5, <2>1
  <2>3. db'.action = [db.action EXCEPT ![a] = row]
    BY <1>1, <2>2 DEF IsJournal
  <2>4. db'.action[a] = row /\ db.action[a] \in ActionRows
    BY <1>1, <2>3
  <2>5. QED
    BY <2>1, <2>4 DEF ActionRows
<1>9. sends[a] <= 1
  <2>1. sends[a] \in Nat
    BY <1>1
  <2>2. QED
    BY <1>1, <1>2, <2>1 DEF StageOk
<1>10. JobOk(a)'
  BY <1>4, <1>5, <1>6, <1>8, <1>9 DEF JobOk
<1>11. /\ \A v \in Vendors : job'[a].seen[v] = "absent" /\ ~SawAbsent(a, v)'
       /\ job'[a].kind = "reconcile"
  BY <1>4, <1>6 DEF SawAbsent, NothingSeen
<1>12. QED
  BY <1>2, <1>5, <1>6, <1>7, <1>10, <1>11, RetryMoves


-----------------------------------------------------------------------------
(* Outcomes of members. *)

OutcomeClasses == {"success", "rejected", "unresolved", "internal_error"}

\* The vendor code can go to another action: nothing of it is under way.
Clean(v) ==
    (card[v] = "absent" /\ SentOnce(v) /\ Uncounted(v)) =>
        NoRequestsFor(v) /\ listed[v] = stored[v]

\* The product of member i was not made and will not be.
Uncreated(a, i) ==
    (SentOnce(VendorOf[i]) /\ Uncounted(VendorOf[i])) =>
        <<a, VendorOf[i]>> \notin made /\ <<a, VendorOf[i], "attempt">> \notin requests

\* A step that records outcomes for which there is evidence.
LEMMA EvidenceRecorded ==
    ASSUME EvidenceOk, RemoteOk, RemoteOk', UNCHANGED <<card, listed, stored, requests, made, outside>>,
           \A v \in Vendors :
              db'.identity[v].active = Free => db.identity[v].active = Free \/ Clean(v),
           \A a \in Actions :
              /\ Attempted(a)' <=> Attempted(a)
              /\ db'.action[a].baseline = db.action[a].baseline
              /\ db'.action[a].retry = db.action[a].retry
              /\ InFlight(a)' => InFlight(a)
              /\ Untried(a)' => Untried(a)
              /\ \A i \in MembersOf[a] :
                    /\ db'.member[i] = NoClass => db.member[i] = NoClass
                    /\ db'.member[i] = "rejected" => db.member[i] = "rejected" \/ Uncreated(a, i)
                    /\ SawAbsent(a, VendorOf[i])' => SawAbsent(a, VendorOf[i])
              /\ \A v \in Vendors :
                    job'[a].seen[v] # "absent" => job[a].seen[v] # "absent"
    PROVE  EvidenceOk'
<1>1. \A v \in Vendors : SentOnce(v)' <=> SentOnce(v)
  BY DEF SentOnce
<1>2. ASSUME NEW v \in Vendors PROVE VendorEvidence(v)'
  <2>1. VendorEvidence(v)
    BY DEF EvidenceOk
  <2>2. (card[v] = "absent" /\ SentOnce(v) /\ Uncounted(v) /\ db'.identity[v].active = Free) =>
            NoRequestsFor(v) /\ (outside[v] = "listed" \/ listed[v] = stored[v])
    BY <2>1 DEF VendorEvidence, Clean
  <2>3. NoRequestsFor(v)' <=> NoRequestsFor(v)
    BY DEF NoRequestsFor
  <2>4. QED
    BY <1>1, <2>1, <2>2, <2>3 DEF VendorEvidence, Uncounted
<1>3. ASSUME NEW a \in Actions, Untried(a)' PROVE NothingOf(a)'
  BY <1>3 DEF EvidenceOk, NothingOf
<1>4. ASSUME NEW a \in Actions, NEW i \in MembersOf[a] PROVE EvidenceOf(a, i)'
  <2> DEFINE v == VendorOf[i]
  <2>1. v \in Vendors
    BY MembersOfTransfer
  <2>2. EvidenceOf(a, i)
    BY DEF EvidenceOk
  <2>3. OnlyOf(a, v) => OnlyOf(a, v)'
    BY DEF OnlyOf
  <2>4. NoRequestsFor(v) => NoRequestsFor(v)'
    BY DEF NoRequestsFor
  <2>5. SentOnce(v)' => SentOnce(v)
    BY <1>1, <2>1
  <2>6. QED
    BY <2>1, <2>2, <2>3, <2>4, <2>5 DEF EvidenceOf, Uncounted
<1>5. ASSUME NEW a \in Actions, NEW i \in MembersOf[a] PROVE RejectionOf(a, i)'
  <2>1. VendorOf[i] \in Vendors
    BY MembersOfTransfer
  <2>2. RejectionOf(a, i)
    BY DEF EvidenceOk
  <2>3. QED
    BY <1>1, <2>1, <2>2 DEF RejectionOf, Uncreated, Uncounted
<1>6. ASSUME NEW r \in requests PROVE RequestOk(r)'
  <2>1. r[1] \in Actions /\ RequestOk(r)
    BY DEF RemoteOk, EvidenceOk
  <2>2. QED
    BY <2>1 DEF RequestOk
<1>7. QED
  BY <1>2, <1>3, <1>4, <1>5, <1>6 DEF EvidenceOk

LEMMA ReleasedIsTyped ==
    ASSUME NEW identity \in IdentityRows, NEW class \in OutcomeClasses
    PROVE  LET new == ReleasedIdentity(identity, class) IN
           /\ new \in IdentityRows
           /\ new.state # "mutation_pending"
           /\ class \in {"unresolved", "internal_error"} =>
                 new = [state |-> "blocked_uncertain", active |-> identity.active]
           /\ class \in {"success", "rejected"} => new.active = Free
BY DEF ReleasedIdentity, IdentityRows, IdentityStates, OutcomeClasses

\* What recordProductReconciliationMembers and RecordSubmission write.
LEMMA MembersRecorded ==
    ASSUME NEW d, JournalOk(d), NEW a \in Actions, DistinctVendorCodes(a),
           NEW class, class \in [DOMAIN class -> OutcomeClasses], DOMAIN class \subseteq MembersOf[a],
           NEW e, e = RecordMembers(d, a, class)
    PROVE  /\ JournalOk(e)
           /\ e.rows = d.rows /\ e.plan = d.plan /\ e.auth = d.auth /\ e.action = d.action
           /\ e.media = d.media /\ e.upload = d.upload
           /\ \A i \in Items : e.member[i] = IF i \in DOMAIN class THEN class[i] ELSE d.member[i]
           /\ \A i \in DOMAIN class :
                 e.identity[VendorOf[i]] = ReleasedIdentity(d.identity[VendorOf[i]], class[i])
           /\ \A v \in Vendors :
                 (\A i \in DOMAIN class : VendorOf[i] # v) => e.identity[v] = d.identity[v]
<1> DEFINE chosen(v) == CHOOSE i \in DOMAIN class : VendorOf[i] = v
<1>1. /\ IsJournal(d) /\ d.member \in [Items -> Classes \cup {NoClass}]
      /\ d.identity \in [Vendors -> IdentityRows] /\ d.attributed \in SUBSET Items
  BY JournalTypes
<1>2. PICK member : member = [i \in Items |-> IF i \in DOMAIN class THEN class[i] ELSE d.member[i]]
  OBVIOUS
<1>3. PICK identity : identity = [v \in Vendors |->
            IF \E i \in DOMAIN class : VendorOf[i] = v
            THEN ReleasedIdentity(d.identity[v], class[chosen(v)])
            ELSE d.identity[v]]
  OBVIOUS
<1>4. PICK attributed : attributed = d.attributed \cup {i \in DOMAIN class : class[i] = "success"}
  OBVIOUS
<1>5. e = [d EXCEPT !.member = member, !.identity = identity, !.attributed = attributed]
  BY <1>2, <1>3, <1>4 DEF RecordMembers
<1>6. /\ IsJournal(e) /\ e.member = member /\ e.identity = identity /\ e.attributed = attributed
      /\ e.rows = d.rows /\ e.plan = d.plan /\ e.auth = d.auth /\ e.action = d.action
      /\ e.media = d.media /\ e.upload = d.upload
  BY <1>1, <1>5 DEF IsJournal
<1>7. MembersOf[a] \subseteq Items /\ \A i \in MembersOf[a] : VendorOf[i] \in Vendors
  BY MembersOfTransfer
<1>8. member \in [Items -> Classes \cup {NoClass}]
  BY <1>1, <1>2 DEF OutcomeClasses, Classes
<1>9. attributed \in SUBSET Items
  BY <1>1, <1>4, <1>7
<1>10. ASSUME NEW i \in DOMAIN class PROVE chosen(VendorOf[i]) = i
  <2>1. chosen(VendorOf[i]) \in DOMAIN class /\ VendorOf[chosen(VendorOf[i])] = VendorOf[i]
    OBVIOUS
  <2>2. QED
    BY <2>1 DEF DistinctVendorCodes
<1>11. ASSUME NEW i \in DOMAIN class
       PROVE  identity[VendorOf[i]] = ReleasedIdentity(d.identity[VendorOf[i]], class[i])
  BY <1>3, <1>7, <1>10
<1>12. ASSUME NEW v \in Vendors, \A i \in DOMAIN class : VendorOf[i] # v
       PROVE  identity[v] = d.identity[v]
  BY <1>3, <1>12
<1>13. identity \in [Vendors -> IdentityRows]
  <2>1. ASSUME NEW v \in Vendors PROVE identity[v] \in IdentityRows
    <3>1. CASE \E i \in DOMAIN class : VendorOf[i] = v
      <4>1. PICK i \in DOMAIN class : VendorOf[i] = v
        BY <3>1
      <4>2. identity[v] = ReleasedIdentity(d.identity[v], class[i])
        BY <1>11, <4>1
      <4>3. d.identity[v] \in IdentityRows /\ class[i] \in OutcomeClasses
        BY <1>1
      <4>4. QED
        BY <4>2, <4>3, ReleasedIsTyped
    <3>2. CASE \A i \in DOMAIN class : VendorOf[i] # v
      BY <1>1, <1>12, <3>2
    <3>3. QED
      BY <3>1, <3>2
  <2>2. QED
    BY <1>3, <2>1
<1>14. JournalOk(e)
  BY <1>6, <1>8, <1>9, <1>13, JournalTypes, JournalFromFields
<1>15. QED
  BY <1>2, <1>6, <1>11, <1>12, <1>14

\* Who owns the identities after outcomes were recorded.
LEMMA OwnersRecorded ==
    ASSUME Inv, NEW a \in Actions, DistinctVendorCodes(a),
           NEW class, class \in [DOMAIN class -> OutcomeClasses], DOMAIN class \subseteq MembersOf[a],
           RecordMembersOk(db, a, class),
           \A b \in Actions : (Attempted(b)' => Attempted(b)) /\ (InFlight(b)' => InFlight(b)),
           \A i \in Items : db'.member[i] = IF i \in DOMAIN class THEN class[i] ELSE db.member[i],
           \A i \in DOMAIN class :
              db'.identity[VendorOf[i]] = ReleasedIdentity(db.identity[VendorOf[i]], class[i]),
           \A v \in Vendors :
              (\A i \in DOMAIN class : VendorOf[i] # v) => db'.identity[v] = db.identity[v]
    PROVE  OwnersOk'
<1>1. OwnersOk /\ db.identity \in [Vendors -> IdentityRows]
  BY InvParts, JournalTypes
<1>2. MembersOf[a] \subseteq Items /\ \A i \in MembersOf[a] : VendorOf[i] \in Vendors
  BY MembersOfTransfer
<1>3. ASSUME NEW i \in DOMAIN class
      PROVE  /\ db.member[i] = NoClass
             /\ db.identity[VendorOf[i]].active = a
             /\ db'.identity[VendorOf[i]].state # "mutation_pending"
             /\ class[i] # NoClass
             /\ class[i] \in {"unresolved", "internal_error"} =>
                   db'.identity[VendorOf[i]] = [state |-> "blocked_uncertain", active |-> a]
  <2>1. db.member[i] = NoClass /\ db.identity[VendorOf[i]].active = a
    BY DEF RecordMembersOk
  <2>2. db.identity[VendorOf[i]] \in IdentityRows /\ class[i] \in OutcomeClasses
    BY <1>1, <1>2
  <2>3. PICK new : new = ReleasedIdentity(db.identity[VendorOf[i]], class[i])
    OBVIOUS
  <2>4. /\ new.state # "mutation_pending"
        /\ class[i] \in {"unresolved", "internal_error"} =>
              new = [state |-> "blocked_uncertain", active |-> db.identity[VendorOf[i]].active]
    BY <2>2, <2>3, ReleasedIsTyped
  <2>5. class[i] # NoClass
    BY <2>2, Assumed DEF OutcomeClasses, Classes
  <2>6. QED
    BY <2>1, <2>3, <2>4, <2>5
<1>4. IdentityOk'
  <2>1. ASSUME NEW v \in Vendors, db'.identity[v].state = "mutation_pending"
        PROVE  db'.identity[v].active \in Actions
    <3>1. \A i \in DOMAIN class : VendorOf[i] # v
      BY <1>3, <2>1
    <3>2. db'.identity[v] = db.identity[v]
      BY <3>1
    <3>3. QED
      BY <1>1, <2>1, <3>2 DEF OwnersOk, IdentityOk
  <2>2. QED
    BY <2>1 DEF IdentityOk
<1>5. ASSUME NEW b \in Actions PROVE OwnerOk(b)'
  <2>1. OwnerOk(b) /\ MembersOf[b] \subseteq Items /\ \A i \in MembersOf[b] : VendorOf[i] \in Vendors
    BY <1>1, MembersOfTransfer DEF OwnersOk
  <2>2. ASSUME NEW i \in MembersOf[b], i \notin DOMAIN class, DistinctVendorCodes(b),
               db.identity[VendorOf[i]].active = b
        PROVE  db'.identity[VendorOf[i]] = db.identity[VendorOf[i]]
    <3>1. ASSUME NEW j \in DOMAIN class, VendorOf[j] = VendorOf[i] PROVE FALSE
      <4>1. b = a
        BY <1>3, <2>2, <3>1
      <4>2. i = j
        BY <2>2, <3>1, <4>1 DEF DistinctVendorCodes
      <4>3. QED
        BY <2>2, <4>2
    <3>2. QED
      BY <2>1, <3>1
  <2>3. SUFFICES ASSUME Attempted(b)
                 PROVE  \A i \in MembersOf[b] :
                           /\ InFlight(b)' /\ db'.member[i] = NoClass => db'.identity[VendorOf[i]].active = b
                           /\ db'.member[i] \in {"unresolved", "internal_error"} =>
                                 db'.identity[VendorOf[i]] = [state |-> "blocked_uncertain", active |-> b]
    BY <2>1 DEF OwnerOk
  <2>4. TAKE i \in MembersOf[b]
  <2>5. /\ DistinctVendorCodes(b)
        /\ InFlight(b) /\ db.member[i] = NoClass => db.identity[VendorOf[i]].active = b
        /\ db.member[i] \in {"unresolved", "internal_error"} =>
              db.identity[VendorOf[i]] = [state |-> "blocked_uncertain", active |-> b]
    BY <2>1, <2>3 DEF OwnerOk
  <2>6. CASE i \in DOMAIN class
    <3>1. b = a
      BY <2>6, OneOwner
    <3>2. db'.member[i] = class[i]
      BY <2>1, <2>6
    <3>3. QED
      BY <1>3, <2>6, <3>1, <3>2
  <2>7. CASE i \notin DOMAIN class
    <3>1. db'.member[i] = db.member[i]
      BY <2>1, <2>7
    <3>2. CASE db.identity[VendorOf[i]].active = b
      <4>1. db'.identity[VendorOf[i]] = db.identity[VendorOf[i]]
        BY <2>2, <2>5, <2>7, <3>2
      <4>2. QED
        BY <2>5, <3>1, <4>1
    <3>3. CASE db.identity[VendorOf[i]].active # b
      BY <2>5, <3>1, <3>3
    <3>4. QED
      BY <3>2, <3>3
  <2>8. QED
    BY <2>6, <2>7
<1>6. QED
  BY <1>4, <1>5 DEF OwnersOk

\* The identities that recorded outcomes free, and the rejections, are sound.
LEMMA ReleasedIsClean ==
    ASSUME NEW a \in Actions, NEW class, class \in [DOMAIN class -> OutcomeClasses],
           DOMAIN class \subseteq MembersOf[a],
           RecordMembersOk(db, a, class), db.identity \in [Vendors -> IdentityRows],
           \A i \in DOMAIN class : class[i] \in {"success", "rejected"} => Clean(VendorOf[i]),
           \A i \in DOMAIN class :
              db'.identity[VendorOf[i]] = ReleasedIdentity(db.identity[VendorOf[i]], class[i]),
           \A v \in Vendors :
              (\A i \in DOMAIN class : VendorOf[i] # v) => db'.identity[v] = db.identity[v]
    PROVE  \A v \in Vendors :
              db'.identity[v].active = Free => db.identity[v].active = Free \/ Clean(v)
<1> TAKE v \in Vendors
<1>1. CASE \A i \in DOMAIN class : VendorOf[i] # v
  BY <1>1
<1>2. CASE \E i \in DOMAIN class : VendorOf[i] = v
  <2>1. PICK i \in DOMAIN class : VendorOf[i] = v
    BY <1>2
  <2>2. db.identity[v].active = a /\ db.identity[v] \in IdentityRows /\ class[i] \in OutcomeClasses
    BY <2>1 DEF RecordMembersOk
  <2>3. PICK new : new = ReleasedIdentity(db.identity[v], class[i])
    OBVIOUS
  <2>4. class[i] \in {"unresolved", "internal_error"} =>
            new = [state |-> "blocked_uncertain", active |-> db.identity[v].active]
    BY <2>2, <2>3, ReleasedIsTyped
  <2>5. db'.identity[v] = new
    BY <2>1, <2>3
  <2>6. CASE class[i] \in {"unresolved", "internal_error"}
    BY <2>2, <2>4, <2>5, <2>6, Assumed
  <2>7. CASE class[i] \in {"success", "rejected"}
    BY <2>1, <2>7
  <2>8. QED
    BY <2>2, <2>6, <2>7 DEF OutcomeClasses
<1>3. QED
  BY <1>1, <1>2


\* What reconciliation concludes is borne out by what happened.
LEMMA VerdictIsSound ==
    ASSUME Inv, NEW a \in Actions, Reconciling(a), NEW i \in PendingMembers(db, a)
    PROVE  /\ Verdict(a, i) \in {"success", "rejected", "unresolved", NoClass}
           /\ Verdict(a, i) \in {"success", "rejected"} => Clean(VendorOf[i])
           /\ Verdict(a, i) = "rejected" => Uncreated(a, i)
<1>1. PICK v : v = VendorOf[i]
  OBVIOUS
<1>2. i \in MembersOf[a] /\ db.member[i] = NoClass
  BY DEF PendingMembers
<1>3. v \in Vendors /\ v \in VendorCodes(a) /\ VendorEvidence(v) /\ EvidenceOf(a, i)
  BY <1>1, <1>2, InvParts, MembersOfTransfer DEF EvidenceOk
<1>4. InFlight(a) /\ job[a].step = "decide" /\ job[a].kind = "reconcile"
  BY DEF Reconciling, InFlight, InFlightStates
<1>5. NoClass \notin {"success", "rejected", "unresolved"}
  BY Assumed DEF Classes
<1>6. /\ stored[v] \in Nat /\ listed[v] \in Nat /\ db.action[a].baseline[v] \in Nat
      /\ db.action \in [Actions -> ActionRows]
  BY <1>3, InvParts, JournalTypes DEF RemoteOk, ActionRows
<1>7. CASE db.action[a].retry = "rejected"
  <2>1. ~SentOnce(v)
    BY <1>3, <1>7 DEF SentOnce
  <2>2. Verdict(a, i) = "rejected"
    BY <1>7 DEF Verdict
  <2>3. QED
    BY <1>1, <2>1, <2>2 DEF Clean, Uncreated
<1>8. CASE db.action[a].retry # "rejected"
  <2>1. PICK verdict : verdict = Verdict(a, i)
    OBVIOUS
  <2>2. verdict = MemberVerdict(job[a].seen[v], ErrorMatches(a, v), "deadline" \in job[a].due)
    BY <1>1, <1>8, <2>1 DEF Verdict
  <2>3. /\ verdict \in {"success", "rejected", "unresolved", NoClass}
        /\ verdict = "success" => job[a].seen[v] = "matching"
        /\ verdict = "rejected" =>
              job[a].seen[v] = "absent" /\ stored[v] - db.action[a].baseline[v] = 1
    BY <1>5, <2>2 DEF MemberVerdict, ErrorMatches
  <2>4. ASSUME verdict = "success" PROVE Clean(v)
    BY <1>3, <2>3, <2>4 DEF Clean, VendorEvidence
  <2>5. ASSUME verdict = "rejected", SentOnce(v), Uncounted(v)
        PROVE  /\ NoRequestsFor(v) /\ listed[v] = stored[v]
               /\ <<a, v>> \notin made /\ <<a, v, "attempt">> \notin requests
    <3>1. OnlyOf(a, v)
      BY <1>1, <1>2, <1>3, <1>4, <2>3, <2>5 DEF EvidenceOf, SawAbsent
    <3>2. stored[v] = db.action[a].baseline[v] + 1 /\ stored[v] <= listed[v]
      BY <1>3, <1>6, <2>3, <2>5 DEF VendorEvidence
    <3>3. listed[v] # db.action[a].baseline[v]
      BY <1>6, <3>2
    <3>4. /\ listed[v] = db.action[a].baseline[v] + 1
          /\ <<a, v, "attempt">> \notin requests /\ <<a, v>> \notin made
          /\ \A r \in requests : r[2] = v => r = <<a, v, "attempt">>
      BY <3>1, <3>3 DEF OnlyOf
    <3>5. QED
      BY <3>2, <3>4 DEF NoRequestsFor
  <2>6. QED
    BY <1>1, <1>5, <2>1, <2>3, <2>4, <2>5 DEF Clean, Uncreated
<1>9. QED
  BY <1>7, <1>8

LEMMA VerdictsAreTyped ==
    ASSUME Inv, NEW a \in Actions, Reconciling(a)
    PROVE  LET class == Verdicts(a) IN
           /\ class \in [DOMAIN class -> OutcomeClasses]
           /\ DOMAIN class \subseteq PendingMembers(db, a)
           /\ \A i \in DOMAIN class :
                 /\ class[i] \in {"success", "rejected"} => Clean(VendorOf[i])
                 /\ class[i] = "rejected" => Uncreated(a, i)
           /\ Attempted(a) /\ InFlight(a) /\ DistinctVendorCodes(a)
           /\ db.action[a].state = "reconciling" /\ DOMAIN class \subseteq MembersOf[a]
<1> DEFINE dom == {j \in PendingMembers(db, a) : Verdict(a, j) # NoClass}
<1>1. Verdicts(a) = [i \in dom |-> Verdict(a, i)]
  BY DEF Verdicts
<1>2. \A i \in dom : Verdict(a, i) \in OutcomeClasses
  BY VerdictIsSound DEF OutcomeClasses
<1>3. db.action[a].state = "reconciling" /\ InFlight(a)
  BY DEF Reconciling, InFlight, InFlightStates
<1>4. StageOk(a) /\ OwnerOk(a)
  BY InvParts DEF StagesOk, OwnersOk
<1>5. Attempted(a) /\ DistinctVendorCodes(a)
  BY <1>3, <1>4 DEF StageOk, Attempted, OwnerOk
<1>6. dom \subseteq MembersOf[a]
  BY DEF PendingMembers
<1>7. PICK class : class = Verdicts(a)
  OBVIOUS
<1>8. DOMAIN class = dom /\ class \in [dom -> OutcomeClasses] /\ \A i \in dom : class[i] = Verdict(a, i)
  BY <1>1, <1>2, <1>7
<1>9. \A i \in dom :
         /\ class[i] \in {"success", "rejected"} => Clean(VendorOf[i])
         /\ class[i] = "rejected" => Uncreated(a, i)
  BY <1>8, VerdictIsSound
<1>10. QED
  BY <1>3, <1>5, <1>6, <1>7, <1>8, <1>9

LEMMA PollKeepsInv ==
    ASSUME Inv, NEW a \in Actions, PollReconciliation(a)
    PROVE  Inv'
<1>1. PICK class : class = Verdicts(a)
  OBVIOUS
<1>2. /\ class \in [DOMAIN class -> OutcomeClasses]
      /\ \A i \in DOMAIN class :
            /\ class[i] \in {"success", "rejected"} => Clean(VendorOf[i])
            /\ class[i] = "rejected" => Uncreated(a, i)
      /\ InFlight(a) /\ DistinctVendorCodes(a)
      /\ db.action[a].state = "reconciling" /\ DOMAIN class \subseteq MembersOf[a]
  BY <1>1, VerdictsAreTyped DEF PollReconciliation
<1>3. /\ RecordMembersOk(db, a, class) /\ db' = RecordMembers(db, a, class)
      /\ job' = [job EXCEPT ![a] = NoJob]
      /\ UNCHANGED <<due, stored, sends, card, listed, requests, made, outside>>
  BY <1>1 DEF PollReconciliation, RecordPollOk, EndJob, remote
<1>4. /\ JournalOk(db) /\ RemoteOk /\ StagesOk /\ JobsOk /\ OwnersOk
      /\ EvidenceOk /\ PlanOk /\ ProjectionOk
      /\ job \in [Actions -> JobType] /\ db.identity \in [Vendors -> IdentityRows]
  BY InvParts, JournalTypes DEF RemoteOk
<1>5. /\ JournalOk(db')
      /\ db'.rows = db.rows /\ db'.plan = db.plan /\ db'.auth = db.auth /\ db'.action = db.action
      /\ db'.media = db.media
      /\ \A i \in Items : db'.member[i] = IF i \in DOMAIN class THEN class[i] ELSE db.member[i]
      /\ \A i \in DOMAIN class :
            db'.identity[VendorOf[i]] = ReleasedIdentity(db.identity[VendorOf[i]], class[i])
      /\ \A v \in Vendors :
            (\A i \in DOMAIN class : VendorOf[i] # v) => db'.identity[v] = db.identity[v]
  BY <1>2, <1>3, <1>4, MembersRecorded
<1>6. \A b \in Actions : job'[b] = IF b = a THEN NoJob ELSE job[b]
  BY <1>3, <1>4
<1>7. RemoteOk'
  BY <1>3, <1>4, NoJobIsTyped DEF RemoteOk
<1>8. ASSUME NEW b \in Actions
      PROVE  /\ Attempted(b)' <=> Attempted(b)
             /\ InFlight(b)' <=> InFlight(b)
             /\ NotEnded(b)' <=> NotEnded(b)
             /\ Untried(b)' => Untried(b)
             /\ \A v \in Vendors : SawAbsent(b, v)' => SawAbsent(b, v)
             /\ \A v \in Vendors : job'[b].seen[v] # "absent" => job[b].seen[v] # "absent"
  BY <1>5, <1>6 DEF Attempted, InFlight, NotEnded, Untried, SawAbsent, NoJob, NothingSeen
<1>9. ASSUME NEW b \in Actions, b # a, NEW i \in MembersOf[b] PROVE db'.member[i] = db.member[i]
  <2>1. i \notin DOMAIN class
    BY <1>2, <1>9, OneOwner
  <2>2. QED
    BY <1>5, <2>1, MembersOfTransfer
<1>10. StagesOk'
  <2>1. ASSUME NEW b \in Actions, b # a PROVE StageOk(b)'
    BY <1>3, <1>4, <1>5, <1>9, <2>1, StageFrame DEF StagesOk
  <2>2. StageOk(a)'
    BY <1>2, <1>3, <1>4, <1>5 DEF StagesOk, StageOk
  <2>3. QED
    BY <2>1, <2>2 DEF StagesOk
<1>11. JobsOk'
  <2>1. ASSUME NEW b \in Actions PROVE JobOk(b)'
    <3>1. JobOk(b)
      BY <1>4 DEF JobsOk
    <3>2. job'[b].step = "none" \/ job'[b] = job[b]
      BY <1>6 DEF NoJob
    <3>3. QED
      BY <1>3, <1>5, <3>1, <3>2, JobFrame
  <2>2. QED
    BY <2>1 DEF JobsOk
<1>12. OwnersOk'
  BY <1>2, <1>3, <1>5, <1>8, OwnersRecorded
<1>13. EvidenceOk'
  <2>1. \A v \in Vendors :
           db'.identity[v].active = Free => db.identity[v].active = Free \/ Clean(v)
    BY <1>2, <1>3, <1>4, <1>5, ReleasedIsClean
  <2>2. ASSUME NEW b \in Actions, NEW i \in MembersOf[b]
        PROVE  /\ db'.member[i] = NoClass => db.member[i] = NoClass
               /\ db'.member[i] = "rejected" => db.member[i] = "rejected" \/ Uncreated(b, i)
               /\ SawAbsent(b, VendorOf[i])' => SawAbsent(b, VendorOf[i])
    <3>1. SawAbsent(b, VendorOf[i])' => SawAbsent(b, VendorOf[i])
      BY <1>8, MembersOfTransfer
    <3>2. CASE i \in DOMAIN class
      <4>1. b = a /\ db'.member[i] = class[i] /\ class[i] \in OutcomeClasses
        BY <1>2, <1>5, <3>2, OneOwner, MembersOfTransfer
      <4>2. class[i] # NoClass
        BY <4>1, Assumed DEF OutcomeClasses, Classes
      <4>3. QED
        BY <1>2, <3>1, <3>2, <4>1, <4>2
    <3>3. CASE i \notin DOMAIN class
      BY <1>5, <3>1, <3>3, MembersOfTransfer
    <3>4. QED
      BY <3>2, <3>3
  <2>3. \A b \in Actions :
              /\ Attempted(b)' <=> Attempted(b)
              /\ db'.action[b].baseline = db.action[b].baseline
              /\ db'.action[b].retry = db.action[b].retry
              /\ InFlight(b)' => InFlight(b)
              /\ Untried(b)' => Untried(b)
              /\ \A i \in MembersOf[b] :
                    /\ db'.member[i] = NoClass => db.member[i] = NoClass
                    /\ db'.member[i] = "rejected" => db.member[i] = "rejected" \/ Uncreated(b, i)
                    /\ SawAbsent(b, VendorOf[i])' => SawAbsent(b, VendorOf[i])
              /\ \A v \in Vendors :
                    job'[b].seen[v] # "absent" => job[b].seen[v] # "absent"
    BY <1>5, <1>8, <2>2
  <2>4. EvidenceOk /\ RemoteOk /\ RemoteOk' /\ UNCHANGED <<card, listed, stored, requests, made, outside>>
    BY <1>3, <1>4, <1>7
  <2>5. QED
    BY <2>1, <2>3, <2>4, EvidenceRecorded
<1>14. PlanOk'
  <2>1. ASSUME NEW u \in Transfers PROVE PlanOf(u)'
    <3>1. PlanOf(u)
      BY <1>4 DEF PlanOk
    <3>2. QED
      BY <1>5, <3>1, PlanFrame
  <2>2. QED
    BY <2>1 DEF PlanOk
<1>15. ProjectionOk'
  <2>1. ASSUME NEW u \in Transfers PROVE ProjectionOf(u)'
    <3>1. ProjectionOf(u) /\ ActionsOf(u) \subseteq Actions
      BY <1>4 DEF ProjectionOk, ActionsOf
    <3>2. QED
      BY <1>5, <1>8, <3>1, ProjectionFrame
  <2>2. ASSUME NEW b \in Actions PROVE FollowsOf(b)'
    <3>1. FollowsOf(b)
      BY <1>4 DEF ProjectionOk
    <3>2. db.action[b].state = "terminal" => \A i \in MembersOf[b] : db'.member[i] = db.member[i]
      BY <1>2, <1>9
    <3>3. QED
      BY <1>5, <3>1, <3>2, FollowsFrame
  <2>3. db'.rows = [u \in Transfers |-> db'.rows[u]]
    BY <1>4, <1>5 DEF ProjectionOk
  <2>4. QED
    BY <2>1, <2>2, <2>3 DEF ProjectionOk
<1>16. QED
  BY <1>5, <1>7, <1>10, <1>11, <1>12, <1>13, <1>14, <1>15, InvPartsNext


-----------------------------------------------------------------------------
(* A result reaches the projection. *)

GroupsOf(items) == {GroupOf[i] : i \in items}

\* The rows r after a result for the items: they end, their groups are reduced, the
\* others are left alone, and the transfer finishes with its last group only.
Applied(r, s, t, items, class) ==
    /\ RowsOk(r, t)
    /\ \A i \in TransferItems(t) :
          r.item[i] = IF i \in items THEN EndedItem(s.item[i], class[i]) ELSE s.item[i]
    /\ \A g \in GroupTargetsOf(t) :
          /\ r.group[g].plan = s.group[g].plan
          /\ r.group[g].preparation = s.group[g].preparation
          /\ g \notin GroupsOf(items) => r.group[g] = s.group[g]
    /\ (\E g \in GroupTargetsOf(t) : r.group[g].overall = "running") =>
          r.transfer.outcome = "running" /\ r.transfer.phase \in {"media", "reconciling"}

LEMMA ResultApplied ==
    ASSUME NEW t \in Transfers, NEW s, RowsOk(s, t), s.transfer.outcome = "running",
           NEW items, items \subseteq TransferItems(t),
           NEW class \in [items -> Classes], NEW skip, skip \subseteq GroupsOf(items),
           NEW r, r = ApplyPublicationActionResult(s, class, skip)
    PROVE  Applied(r, s, t, items, class)
<1>1. /\ s = [transfer |-> s.transfer, group |-> s.group, item |-> s.item]
      /\ s.transfer \in TransferRows
      /\ s.group \in [GroupTargetsOf(t) -> GroupRows]
      /\ s.item \in [TransferItems(t) -> ItemRows]
  BY DEF RowsOk
<1>2. PICK item : item = [i \in TransferItems(t) |->
            IF i \in items THEN EndedItem(s.item[i], class[i]) ELSE s.item[i]]
  OBVIOUS
<1>3. PICK s1 : s1 = FinishItems(s, class)
  OBVIOUS
<1>4. s1 = [transfer |-> s.transfer, group |-> s.group, item |-> item]
  BY <1>1, <1>2, <1>3 DEF FinishItems
<1>5. PICK group2 : group2 = [g \in GroupTargetsOf(t) |->
            IF g \in skip THEN [s.group[g] EXCEPT !.media = "skipped"] ELSE s.group[g]]
  OBVIOUS
<1>6. PICK s2 : s2 = SkipMedia(s1, skip)
  OBVIOUS
<1>7. s2 = [transfer |-> s.transfer, group |-> group2, item |-> item]
  BY <1>1, <1>4, <1>5, <1>6 DEF SkipMedia
<1>8. AffectedGroups(class, skip) = GroupsOf(items)
  BY DEF AffectedGroups, GroupsOf
<1>9. PICK group3 : group3 = [g \in GroupTargetsOf(t) |->
            IF g \in GroupsOf(items) THEN ReducedGroup(group2[g], ClassesOf(s2, g)) ELSE group2[g]]
  OBVIOUS
<1>10. PICK s3 : s3 = ReduceGroups(s2, GroupsOf(items))
  OBVIOUS
<1>11. s3 = [transfer |-> s.transfer, group |-> group3, item |-> item]
  BY <1>5, <1>7, <1>9, <1>10 DEF ReduceGroups
<1>12. r = AdvanceOrFinish(s3, "reconciling")
  BY <1>3, <1>6, <1>8, <1>10 DEF ApplyPublicationActionResult
<1>13. item \in [TransferItems(t) -> ItemRows]
  <2>1. ASSUME NEW i \in TransferItems(t) PROVE item[i] \in ItemRows
    <3>1. s.item[i] \in ItemRows /\ (i \in items => class[i] \in Classes)
      BY <1>1
    <3>2. QED
      BY <1>2, <3>1 DEF ItemRows, EndedItem
  <2>2. QED
    BY <1>2, <2>1
<1>14. ASSUME NEW g \in GroupTargetsOf(t)
       PROVE  /\ group3[g] \in GroupRows
              /\ group3[g].plan = s.group[g].plan
              /\ group3[g].preparation = s.group[g].preparation
              /\ g \notin GroupsOf(items) => group3[g] = s.group[g]
  <2>1. PICK row \in GroupRows : row = s.group[g]
    BY <1>1
  <2>2. PICK row2 : row2 = group2[g]
    OBVIOUS
  <2>3. row2 = IF g \in skip THEN [row EXCEPT !.media = "skipped"] ELSE row
    BY <1>5, <2>1, <2>2
  <2>4. /\ row2 \in GroupRows /\ row2.plan = row.plan /\ row2.preparation = row.preparation
        /\ g \notin GroupsOf(items) => row2 = row
    BY <2>1, <2>3 DEF GroupRows, GroupColumn
  <2>5. PICK classes : classes = ClassesOf(s2, g)
    OBVIOUS
  <2>6. PICK row3 : row3 = ReducedGroup(row2, classes)
    OBVIOUS
  <2>7. /\ row3 \in GroupRows /\ row3.plan = row2.plan /\ row3.preparation = row2.preparation
    <3>1. PublicationStatus(classes) \in GroupColumn
      BY DEF PublicationStatus, GroupColumn
    <3>2. GroupVerdict(row2.media, classes) \in {"unresolved", "partial", "rejected", "success"}
      BY DEF GroupVerdict
    <3>3. PICK attention \in BOOLEAN :
             attention = (row2.media = "unresolved" \/ classes \cap AttentionClasses # {})
      OBVIOUS
    <3>4. CASE row2.media \in {"not_started", "running"}
      <4>1. row3 = [row2 EXCEPT !.publication = PublicationStatus(classes), !.media = "running",
                                !.overall = "running", !.attention = FALSE]
        BY <2>6, <3>4 DEF ReducedGroup
      <4>2. QED
        BY <2>4, <3>1, <4>1 DEF GroupRows, GroupColumn
    <3>5. CASE row2.media \notin {"not_started", "running"}
      <4>1. row3 = [row2 EXCEPT !.publication = PublicationStatus(classes),
                                !.overall = GroupVerdict(row2.media, classes),
                                !.attention = attention]
        BY <2>6, <3>3, <3>5 DEF ReducedGroup
      <4>2. QED
        BY <2>4, <3>1, <3>2, <4>1 DEF GroupRows, GroupColumn
    <3>6. QED
      BY <3>4, <3>5
  <2>8. group3[g] = IF g \in GroupsOf(items) THEN row3 ELSE row2
    BY <1>9, <2>2, <2>5, <2>6
  <2>9. QED
    BY <2>1, <2>4, <2>7, <2>8
<1>15. group3 \in [GroupTargetsOf(t) -> GroupRows]
  BY <1>9, <1>14
<1>16. CASE RunningGroups(s3) = {}
  <2>1. PICK head : head = Finished(s3)
    OBVIOUS
  <2>2. head \in TransferRows
    <3>1. TransferOutcome(s3) \in {"unresolved", "rejected", "partial", "succeeded"}
      BY DEF TransferOutcome
    <3>2. GroupNeedsAttention(s3) \in BOOLEAN
      BY DEF GroupNeedsAttention
    <3>3. QED
      BY <2>1, <3>1, <3>2 DEF Finished, TransferRows
  <2>3. r = [s3 EXCEPT !.transfer = head]
    BY <1>12, <1>16, <2>1 DEF AdvanceOrFinish
  <2>4. r = [transfer |-> head, group |-> group3, item |-> item]
    BY <1>11, <2>3
  <2>5. RowsOk(r, t)
    BY <1>13, <1>15, <2>2, <2>4 DEF RowsOk
  <2>6. \A g \in GroupTargetsOf(t) : group3[g].overall # "running"
    BY <1>11, <1>15, <1>16 DEF RunningGroups
  <2>7. QED
    BY <1>2, <1>14, <2>4, <2>5, <2>6 DEF Applied
<1>17. CASE RunningGroups(s3) # {}
  <2>1. PICK p : p = IF s.transfer.phase = "media" THEN "media" ELSE "reconciling"
    OBVIOUS
  <2>2. PICK head : head = [s.transfer EXCEPT !.phase = p]
    OBVIOUS
  <2>3. head \in TransferRows /\ head.outcome = "running" /\ head.phase \in {"media", "reconciling"}
    BY <1>1, <2>1, <2>2 DEF TransferRows, ExecutingPhases
  <2>4. r = [s3 EXCEPT !.transfer = head]
    BY <1>11, <1>12, <1>17, <2>1, <2>2 DEF AdvanceOrFinish
  <2>5. r = [transfer |-> head, group |-> group3, item |-> item]
    BY <1>11, <2>4
  <2>6. RowsOk(r, t)
    BY <1>13, <1>15, <2>3, <2>5 DEF RowsOk
  <2>7. QED
    BY <1>2, <1>14, <2>3, <2>5, <2>6 DEF Applied
<1>18. QED
  BY <1>16, <1>17

\* The results of the actions A of transfer t, with members its, are in the journal,
\* and the projection of t is r.
ResultsWritten(t, A, its, class, skip, r) ==
    /\ A \subseteq ActionsOf(t) /\ A # {} /\ \A b \in A : NotEnded(b)
    /\ \A i : i \in its <=> \E b \in A : i \in MembersOf[b]
    /\ class \in [its -> Classes]
    /\ skip \subseteq GroupsOf(its)
    /\ r = ApplyPublicationActionResult(db.rows[t], class, skip)
    /\ db'.rows = [db.rows EXCEPT ![t] = r]
    /\ \A u \in Transfers : db'.plan[u] = "superseded" <=> db.plan[u] = "superseded"
    /\ \A b \in Actions :
          /\ b \in A => db'.action[b].state = "terminal"
          /\ b \notin A => db'.action[b].state = db.action[b].state
    /\ \A b \in Actions : \A i \in MembersOf[b] :
          /\ b \in A => db'.member[i] = class[i]
          /\ b \notin A => db'.member[i] = db.member[i]

\* The results of some actions of a transfer end these actions in the journal
\* and in the projection alike.
LEMMA ResultsProject ==
    ASSUME Inv, NEW t \in Transfers, NEW A, NEW its, NEW class, NEW skip, NEW r,
           ResultsWritten(t, A, its, class, skip, r)
    PROVE  ProjectionOk'
<1>a. /\ A \subseteq ActionsOf(t) /\ A # {} /\ \A b \in A : NotEnded(b)
      /\ its = UNION {MembersOf[b] : b \in A}
  BY DEF ResultsWritten
<1>b. /\ class \in [its -> Classes] /\ skip \subseteq GroupsOf(its)
      /\ r = ApplyPublicationActionResult(db.rows[t], class, skip)
      /\ db'.rows = [db.rows EXCEPT ![t] = r]
  BY DEF ResultsWritten
<1>c. /\ \A u \in Transfers : db'.plan[u] = "superseded" <=> db.plan[u] = "superseded"
      /\ \A b \in Actions :
            /\ b \in A => db'.action[b].state = "terminal"
            /\ b \notin A => db'.action[b].state = db.action[b].state
      /\ \A b \in Actions : \A i \in MembersOf[b] :
            /\ b \in A => db'.member[i] = class[i]
            /\ b \notin A => db'.member[i] = db.member[i]
  BY DEF ResultsWritten
<1>1. PICK s : s = db.rows[t]
  OBVIOUS
<1>2. ProjectionOk /\ ProjectionOf(t) /\ RowsOk(s, t) /\ A \subseteq Actions
  BY <1>a, <1>1, InvParts DEF ProjectionOk, ProjectionOf, ActionsOf
<1>3. PICK c \in A : TRUE
  BY <1>a
<1>4. s.transfer.outcome = "running"
  BY <1>a, <1>1, <1>2, <1>3 DEF ProjectionOf
<1>5. its \subseteq PublishedItems(t) /\ its \subseteq TransferItems(t)
  BY <1>a DEF PublishedItems, TransferItems
<1>7. class \in [its -> Classes] /\ skip \subseteq GroupsOf(its) /\ its \subseteq TransferItems(t)
      /\ r = ApplyPublicationActionResult(s, class, skip)
  BY <1>b, <1>1, <1>5
<1>8. /\ RowsOk(r, t)
      /\ \A i \in TransferItems(t) :
            r.item[i] = IF i \in its THEN EndedItem(s.item[i], class[i]) ELSE s.item[i]
      /\ \A g \in GroupTargetsOf(t) :
            /\ r.group[g].plan = s.group[g].plan
            /\ r.group[g].preparation = s.group[g].preparation
            /\ g \notin GroupsOf(its) => r.group[g] = s.group[g]
      /\ (\E g \in GroupTargetsOf(t) : r.group[g].overall = "running") =>
            r.transfer.outcome = "running" /\ r.transfer.phase \in {"media", "reconciling"}
  <2>1. /\ RowsOk(s, t) /\ s.transfer.outcome = "running" /\ its \subseteq TransferItems(t)
        /\ class \in [its -> Classes] /\ skip \subseteq GroupsOf(its)
        /\ r = ApplyPublicationActionResult(s, class, skip)
    BY <1>2, <1>4, <1>7
  <2>2. Applied(r, s, t, its, class)
    BY <2>1, ResultApplied
  <2>3. QED
    BY <2>2 DEF Applied
<1>9. /\ \A u \in Transfers : db'.rows[u] = IF u = t THEN r ELSE db.rows[u]
      /\ db'.rows = [u \in Transfers |-> db'.rows[u]]
  <2>1. PICK rows : rows = db.rows
    OBVIOUS
  <2>2. rows = [u \in Transfers |-> rows[u]]
    BY <1>2, <2>1 DEF ProjectionOk
  <2>3. QED
    BY <1>b, <2>1, <2>2
<1>10. c \in Actions /\ db.action[c].state # "superseded" /\ db.plan[t] # "superseded"
  <2>1. c \in ActionsOf(t) /\ c \in Actions /\ db.action[c].state # "superseded"
    BY <1>a, <1>2 DEF NotEnded, InFlightStates
  <2>2. QED
    BY <1>2, <2>1 DEF ProjectionOf
<1>11. ASSUME NEW b \in ActionsOf(t), b \notin A, NotEnded(b)
       PROVE  /\ r.transfer.outcome = "running"
              /\ r.transfer.phase \in {"media", "reconciling"}
              /\ \A g \in GroupTargets(b) :
                    r.group[g].overall = "running" /\ r.group[g].media \in {"running", "skipped"}
  <2>1. b \in Actions /\ TransferOf[b] = t
    BY <1>11 DEF ActionsOf
  <2>2. GroupTargets(b) \subseteq GroupTargetsOf(t)
    BY <2>1, MembersOfTransfer DEF GroupTargets, GroupTargetsOf
  <2>3. ASSUME NEW g \in GroupTargets(b) PROVE g \notin GroupsOf(its)
    <3>1. SUFFICES ASSUME g \in GroupsOf(its) PROVE FALSE
      OBVIOUS
    <3>2. PICK e \in A : \E i \in MembersOf[e] : GroupOf[i] = g
      BY <1>a, <3>1 DEF GroupsOf
    <3>3. g \in GroupTargets(e) /\ e # b /\ TransferOf[e] = t /\ e \in Actions
      BY <1>a, <1>2, <1>11, <3>2 DEF GroupTargets, ActionsOf
    <3>4. QED
      BY <2>1, <2>3, <3>3, JournalAssumption
  <2>4. \A g \in GroupTargets(b) :
           s.group[g].overall = "running" /\ s.group[g].media \in {"running", "skipped"}
    BY <1>1, <1>2, <1>11 DEF ProjectionOf
  <2>5. \A g \in GroupTargets(b) : r.group[g] = s.group[g]
    BY <1>8, <2>2, <2>3
  <2>6. \E g \in GroupTargets(b) : TRUE
    BY <2>1, Assumed DEF GroupTargets
  <2>7. QED
    BY <1>8, <2>2, <2>4, <2>5, <2>6
<1>12. ProjectionOf(t)'
  <2>1. db'.rows[t] = r /\ db'.plan[t] # "superseded"
    BY <1>c, <1>9, <1>10
  <2>2. \A g \in GroupTargetsOf(t) : r.group[g].plan = ThePlan /\ r.group[g].preparation = "succeeded"
    <3>1. \A g \in GroupTargetsOf(t) :
             s.group[g].plan = ThePlan /\ s.group[g].preparation = "succeeded"
      BY <1>1, <1>2, <1>10 DEF ProjectionOf
    <3>2. QED
      BY <1>8, <3>1
  <2>3. \A i \in TransferItems(t) \ PublishedItems(t) : r.item[i].state = "terminal"
    <3>1. \A i \in TransferItems(t) \ PublishedItems(t) : s.item[i].state = "terminal"
      BY <1>1, <1>2, <1>10 DEF ProjectionOf
    <3>2. its \subseteq PublishedItems(t)
      BY <1>5
    <3>3. QED
      BY <1>8, <3>1, <3>2
  <2>4. ASSUME NEW b \in ActionsOf(t)
        PROVE  /\ db'.action[b].state # "superseded"
               /\ NotEnded(b)' =>
                     /\ r.transfer.outcome = "running"
                     /\ r.transfer.phase # "finished"
                     /\ \A g \in GroupTargets(b) :
                           r.group[g].overall = "running" /\ r.group[g].media \in {"running", "skipped"}
               /\ InFlight(b)' => r.transfer.phase \in ExecutingPhases
    <3>1. b \in Actions
      BY DEF ActionsOf
    <3>2. CASE b \in A
      BY <1>c, <3>1, <3>2 DEF NotEnded, InFlight, InFlightStates
    <3>3. CASE b \notin A
      <4>1. db'.action[b].state = db.action[b].state
        BY <1>c, <3>1, <3>3
      <4>2. db.action[b].state # "superseded"
        BY <1>2, <1>10 DEF ProjectionOf
      <4>3. (NotEnded(b)' <=> NotEnded(b)) /\ (InFlight(b)' => NotEnded(b))
        BY <4>1 DEF NotEnded, InFlight
      <4>4. QED
        BY <1>11, <3>3, <4>1, <4>2, <4>3 DEF ExecutingPhases
    <3>4. QED
      BY <3>2, <3>3
  <2>5. QED
    BY <1>8, <2>1, <2>2, <2>3, <2>4 DEF ProjectionOf
<1>13. ASSUME NEW u \in Transfers, u # t PROVE ProjectionOf(u)'
  <2>1. ProjectionOf(u)
    BY <1>2 DEF ProjectionOk
  <2>2. \A b \in ActionsOf(u) : b \in Actions /\ b \notin A
    BY <1>a, <1>13 DEF ActionsOf
  <2>3. \A b \in ActionsOf(u) : db'.action[b].state = db.action[b].state
    BY <1>c, <2>2
  <2>4. \A b \in ActionsOf(u) : (NotEnded(b)' => NotEnded(b)) /\ (InFlight(b)' => InFlight(b))
    BY <2>3 DEF NotEnded, InFlight
  <2>5. db'.rows[u] = db.rows[u]
    BY <1>9, <1>13
  <2>6. QED
    BY <1>c, <2>1, <2>3, <2>4, <2>5, ProjectionFrame
<1>14. ASSUME NEW b \in Actions, b \in A PROVE FollowsOf(b)'
  <2>1. TransferOf[b] = t
    BY <1>a, <1>14 DEF ActionsOf
  <2>2. ASSUME NEW i \in MembersOf[b]
        PROVE  /\ db'.rows[t].item[i].state = "terminal"
               /\ db'.rows[t].item[i].class = db'.member[i]
    <3>1. i \in its /\ i \in TransferItems(t)
      BY <1>a, <1>5, <1>14
    <3>2. s.item[i] \in ItemRows
      BY <1>2, <3>1 DEF RowsOk
    <3>3. r.item[i] = EndedItem(s.item[i], class[i])
      BY <1>8, <3>1
    <3>4. r.item[i].state = "terminal" /\ r.item[i].class = class[i]
      BY <3>2, <3>3 DEF EndedItem, ItemRows
    <3>5. QED
      BY <1>c, <1>9, <1>14, <3>4
  <2>3. db'.action[b].state = "terminal"
    BY <1>c, <1>14
  <2>4. QED
    BY <2>1, <2>2, <2>3 DEF FollowsOf
<1>15. ASSUME NEW b \in Actions, b \notin A PROVE FollowsOf(b)'
  <2>1. FollowsOf(b)
    BY <1>2 DEF ProjectionOk
  <2>2. PICK u \in Transfers : u = TransferOf[b]
    BY MembersOfTransfer
  <2>3. ASSUME NEW i \in MembersOf[b]
        PROVE  db'.rows[u].item[i] = db.rows[u].item[i]
    <3>1. i \notin its
      <4>1. SUFFICES ASSUME NEW e \in A, i \in MembersOf[e] PROVE FALSE
        BY <1>a
      <4>2. e \in Actions
        BY <1>2
      <4>3. QED
        BY <1>15, <4>1, <4>2, OneOwner
    <3>2. CASE u = t
      <4>1. i \in TransferItems(t)
        BY <2>2, <3>2, MembersOfTransfer
      <4>2. QED
        BY <1>1, <1>8, <1>9, <3>1, <3>2, <4>1
    <3>3. CASE u # t
      BY <1>9, <3>3
    <3>4. QED
      BY <3>2, <3>3
  <2>4. db'.action[b].state = db.action[b].state /\ \A i \in MembersOf[b] : db'.member[i] = db.member[i]
    BY <1>c, <1>15
  <2>5. ASSUME NEW i \in MembersOf[b]
        PROVE  LET row == db'.rows[TransferOf[b]].item[i] IN
               CASE db'.action[b].state = "terminal" ->
                       row.state = "terminal" /\ row.class = db'.member[i]
                 [] db'.action[b].state = "superseded" ->
                       row.state = "running" /\ row.action = NoAction
                 [] OTHER ->
                       row.state = "running" /\ row.action = b
    <3>1. db'.rows[TransferOf[b]].item[i] = db.rows[TransferOf[b]].item[i]
      BY <2>2, <2>3
    <3>2. QED
      BY <2>1, <2>4, <3>1 DEF FollowsOf
  <2>6. QED
    BY <2>5 DEF FollowsOf
<1>16. QED
  BY <1>9, <1>12, <1>13, <1>14, <1>15 DEF ProjectionOk

\* reducePublicationPlan ends the plan with its last action.
LEMMA PlanReduced ==
    ASSUME Inv, NEW t \in Transfers, NEW c \in ActionsOf(t), NotEnded(c),
           \A u \in Transfers : db'.plan[u] =
              IF u = t /\ db.plan[t] = "executing" /\ PlanActionsEnded(db', t)
              THEN "terminal" ELSE db.plan[u],
           \A b \in Actions : TransferOf[b] # t => db'.action[b].state = db.action[b].state,
           \A u \in Transfers : u # t =>
              \A i \in TransferItems(u) :
                 db'.media[i] \in OpenMediaStates <=> db.media[i] \in OpenMediaStates
    PROVE  /\ PlanOk'
           /\ \A u \in Transfers : db'.plan[u] = "superseded" <=> db.plan[u] = "superseded"
<1>1. PlanOk
  BY InvParts
<1>2. ~PlanActionsEnded(db, t)
  BY DEF PlanActionsEnded, NotEnded, InFlightStates, EndedStates
<1>3. db.plan[t] # "terminal"
  BY <1>1, <1>2 DEF PlanOk, PlanOf
<1>4. PlanOf(t)'
  BY <1>3 DEF PlanOf
<1>5. ASSUME NEW u \in Transfers, u # t PROVE PlanOf(u)'
  <2>1. PlanOf(u) /\ db'.plan[u] = db.plan[u]
    BY <1>1, <1>5 DEF PlanOk
  <2>2. \A b \in ActionsOf(u) : db'.action[b].state = db.action[b].state
    BY <1>5 DEF ActionsOf
  <2>3. QED
    BY <1>5, <2>1, <2>2, PlanFrame
<1>6. QED
  BY <1>4, <1>5 DEF PlanOk


\* One authorization of a plan changes its state.
LEMMA EpisodeWritten ==
    ASSUME NEW s \in Seq(AuthStates), NEW n, NEW state, n \in DOMAIN s => state \in AuthStates,
           NEW x, x = [s EXCEPT ![n] = state]
    PROVE  x \in Seq(AuthStates) /\ Len(x) = Len(s)
<1>1. Len(s) \in Nat /\ DOMAIN s = 1..Len(s) /\ \A m \in 1..Len(s) : s[m] \in AuthStates
  OBVIOUS
<1>2. PICK k \in Nat : k = Len(s)
  BY <1>1
<1>3. x = [m \in 1..k |-> IF m = n THEN state ELSE s[m]]
  BY <1>1, <1>2
<1>4. \A m \in 1..k : x[m] \in AuthStates
  BY <1>1, <1>2, <1>3
<1>5. x \in [1..k -> AuthStates]
  BY <1>3, <1>4
<1>6. x \in Seq(AuthStates)
  BY <1>5, SeqDef
<1>7. Len(x) = k
  BY <1>5, <1>6, k \in Nat
<1>8. QED
  BY <1>2, <1>6, <1>7

LEMMA AuthorizationClosed ==
    ASSUME NEW d, JournalOk(d), NEW t \in Transfers, NEW n,
           NEW e, e = CloseAuthorization(d, t, n)
    PROVE  /\ JournalOk(e)
           /\ e.rows = d.rows /\ e.plan = d.plan /\ e.action = d.action /\ e.member = d.member
           /\ e.media = d.media /\ e.identity = d.identity
<1>1. CASE d.plan[t] # "terminal"
  BY <1>1 DEF CloseAuthorization
<1>2. CASE d.plan[t] = "terminal"
  <2>1. PICK old : old = d.auth[t][n]
    OBVIOUS
  <2>2. PICK state : state = CASE old = "authorized" -> "closed"
                               [] old = "overdue" -> "expired"
                               [] OTHER -> old
    OBVIOUS
  <2>3. PICK x : x = [d.auth[t] EXCEPT ![n] = state]
    OBVIOUS
  <2>6. e = [d EXCEPT !.auth[t] = x]
    BY <1>2, <2>1, <2>2, <2>3 DEF CloseAuthorization
  <2>4. n \in DOMAIN d.auth[t] => state \in AuthStates
    <3>1. d.auth[t] \in Seq(AuthStates)
      BY JournalTypes
    <3>2. n \in DOMAIN d.auth[t] => old \in AuthStates
      BY <2>1, <3>1
    <3>3. QED
      BY <2>2, <3>2 DEF AuthStates, OpenAuthorization
  <2>5. QED
    <3>1. PICK s : s = d.auth[t]
      OBVIOUS
    <3>2. s \in Seq(AuthStates) /\ Len(s) <= MaxAuths
      BY <3>1, JournalTypes
    <3>3. x = [s EXCEPT ![n] = state] /\ (n \in DOMAIN s => state \in AuthStates)
      BY <2>3, <2>4, <3>1
    <3>4. x \in Seq(AuthStates) /\ Len(x) <= MaxAuths
      BY <3>2, <3>3, EpisodeWritten
    <3>5. QED
      BY <2>6, <3>4, AuthWritten
<1>3. QED
  BY <1>1, <1>2

\* What reducePublicationPlan writes.
LEMMA PlanReducedTo ==
    ASSUME NEW d, JournalOk(d), NEW t \in Transfers, NEW e, e = ReducePlan(d, t)
    PROVE  /\ JournalOk(e)
           /\ \A u \in Transfers : e.plan[u] =
                 IF u = t /\ d.plan[t] = "executing" /\ PlanActionsEnded(d, t)
                 THEN "terminal" ELSE d.plan[u]
           /\ e.rows = d.rows /\ e.auth = d.auth /\ e.action = d.action /\ e.member = d.member
           /\ e.media = d.media /\ e.identity = d.identity
<1>1. CASE ~(d.plan[t] = "executing" /\ PlanActionsEnded(d, t))
  BY <1>1 DEF ReducePlan
<1>2. CASE d.plan[t] = "executing" /\ PlanActionsEnded(d, t)
  <2>1. IsJournal(d) /\ d.plan \in [Transfers -> PlanStates]
    BY JournalTypes
  <2>2. PICK plan : plan = [d.plan EXCEPT ![t] = "terminal"]
    OBVIOUS
  <2>3. e = [d EXCEPT !.plan = plan]
    BY <1>2, <2>2 DEF ReducePlan
  <2>4. /\ IsJournal(e) /\ e.rows = d.rows /\ e.plan = plan /\ e.auth = d.auth
        /\ e.action = d.action /\ e.member = d.member /\ e.media = d.media
        /\ e.upload = d.upload /\ e.attributed = d.attributed /\ e.identity = d.identity
    BY <2>1, <2>3 DEF IsJournal
  <2>5. plan \in [Transfers -> PlanStates]
    BY <2>1, <2>2 DEF PlanStates
  <2>6. JournalOk(e)
    BY <2>4, <2>5, JournalTypes, JournalFromFields
  <2>7. QED
    BY <1>2, <2>1, <2>2, <2>4, <2>6
<1>3. QED
  BY <1>1, <1>2

\* What an action whose members have all got an outcome leaves behind.
FinishedAs(e, d, a, t, class) ==
    /\ JournalOk(e)
    /\ \E skip \in SUBSET GroupTargets(a) :
          e.rows = [d.rows EXCEPT ![t] =
              ApplyPublicationActionResult(d.rows[t], [i \in MembersOf[a] |-> e.member[i]], skip)]
    /\ \A u \in Transfers : e.plan[u] =
          IF u = t /\ d.plan[t] = "executing" /\ PlanActionsEnded(e, t)
          THEN "terminal" ELSE d.plan[u]
    /\ \A b \in Actions : e.action[b] =
          IF b = a THEN [d.action[a] EXCEPT !.state = "terminal"] ELSE d.action[b]
    /\ \A i \in Items : i \notin MembersOf[a] => e.media[i] = d.media[i]
    /\ \A i \in Items : e.member[i] = IF i \in DOMAIN class THEN class[i] ELSE d.member[i]
    /\ \A i \in DOMAIN class :
          e.identity[VendorOf[i]] = ReleasedIdentity(d.identity[VendorOf[i]], class[i])
    /\ \A v \in Vendors :
          (\A i \in DOMAIN class : VendorOf[i] # v) => e.identity[v] = d.identity[v]

LEMMA FinishWritten ==
    ASSUME NEW d, JournalOk(d), NEW a \in Actions, DistinctVendorCodes(a),
           NEW class, class \in [DOMAIN class -> OutcomeClasses], DOMAIN class \subseteq MembersOf[a],
           NEW e, e = FinishAction(d, a, class), NEW t, t = TransferOf[a]
    PROVE  FinishedAs(e, d, a, t, class)
<1>1. t \in Transfers /\ t = TransferOf[a]
  BY MembersOfTransfer
<1>2. PICK m : m = RecordMembers(d, a, class)
  OBVIOUS
<1>3. /\ JournalOk(m)
      /\ m.rows = d.rows /\ m.plan = d.plan /\ m.auth = d.auth /\ m.action = d.action
      /\ m.media = d.media /\ m.upload = d.upload
      /\ \A i \in Items : m.member[i] = IF i \in DOMAIN class THEN class[i] ELSE d.member[i]
      /\ \A i \in DOMAIN class :
            m.identity[VendorOf[i]] = ReleasedIdentity(d.identity[VendorOf[i]], class[i])
      /\ \A v \in Vendors :
            (\A i \in DOMAIN class : VendorOf[i] # v) => m.identity[v] = d.identity[v]
  BY <1>2, MembersRecorded
<1>4. PICK media : media = [i \in Items |->
          IF i \in MembersOf[a] \ m.attributed /\ m.media[i] = "planned"
          THEN "skipped" ELSE m.media[i]]
  OBVIOUS
<1>5. PICK k : k = SkipPotentialMedia(m, a)
  OBVIOUS
<1>6. k = [m EXCEPT !.media = media]
  BY <1>4, <1>5 DEF SkipPotentialMedia
<1>7. /\ IsJournal(m) /\ m.media \in [Items -> MediaStates] /\ m.action \in [Actions -> ActionRows]
  BY <1>3, JournalTypes
<1>8. PICK row : row = [m.action[a] EXCEPT !.state = "terminal"]
  OBVIOUS
<1>9. row \in ActionRows
  <2>1. m.action[a] \in ActionRows
    BY <1>7
  <2>2. QED
    BY <1>8, <2>1 DEF ActionRows, ActionStates, EndedStates
<1>10. PICK action : action = [m.action EXCEPT ![a] = row]
  OBVIOUS
<1>11. PICK x : x = [k EXCEPT !.action[a].state = "terminal"]
  OBVIOUS
<1>12. /\ IsJournal(k) /\ k.action = m.action /\ k.media = media
       /\ k.rows = m.rows /\ k.plan = m.plan /\ k.auth = m.auth /\ k.member = m.member
       /\ k.upload = m.upload /\ k.attributed = m.attributed /\ k.identity = m.identity
  BY <1>6, <1>7 DEF IsJournal
<1>13. x = [k EXCEPT !.action = action]
  BY <1>8, <1>10, <1>11, <1>12
<1>14. /\ IsJournal(x) /\ x.action = action /\ x.media = media
       /\ x.rows = m.rows /\ x.plan = m.plan /\ x.auth = m.auth /\ x.member = m.member
       /\ x.upload = m.upload /\ x.attributed = m.attributed /\ x.identity = m.identity
  BY <1>12, <1>13 DEF IsJournal
<1>15. JournalOk(x)
  <2>1. media \in [Items -> MediaStates]
    BY <1>4, <1>7 DEF MediaStates
  <2>2. action \in [Actions -> ActionRows]
    BY <1>7, <1>9, <1>10
  <2>3. QED
    BY <1>3, <1>14, <2>1, <2>2, JournalTypes, JournalFromFields
<1>16. PICK p : p = ReducePlan(x, t)
  OBVIOUS
<1>17. /\ JournalOk(p)
       /\ \A u \in Transfers : p.plan[u] =
             IF u = t /\ x.plan[t] = "executing" /\ PlanActionsEnded(x, t)
             THEN "terminal" ELSE x.plan[u]
       /\ p.rows = x.rows /\ p.auth = x.auth /\ p.action = x.action /\ p.member = x.member
       /\ p.media = x.media /\ p.identity = x.identity
  <2>1. t \in Transfers
    BY <1>1
  <2>2. QED
    BY <2>1, <1>15, <1>16, PlanReducedTo
<1>18. p = EndedAction(d, a, class)
  BY <1>1, <1>2, <1>5, <1>11, <1>16 DEF EndedAction
<1>19. PICK outcomes : outcomes = [i \in MembersOf[a] |-> p.member[i]]
  OBVIOUS
<1>20. PICK skip : skip = MediaGroupsToSkip(p, a)
  OBVIOUS
<1>21. skip \in SUBSET GroupTargets(a)
  BY <1>20 DEF MediaGroupsToSkip
<1>22. PICK rows : rows = [p.rows EXCEPT ![t] = ApplyPublicationActionResult(p.rows[t], outcomes, skip)]
  OBVIOUS
<1>23. PICK q : q = ProjectJournaled(p, a, DOMAIN class)
  OBVIOUS
<1>24. q = [p EXCEPT !.rows = rows]
  BY <1>1, <1>19, <1>20, <1>22, <1>23 DEF ProjectJournaled, MemberOutcomes
<1>25. IsJournal(p)
  BY <1>17, JournalTypes
<1>26. /\ IsJournal(q) /\ q.rows = rows /\ q.plan = p.plan /\ q.auth = p.auth
       /\ q.action = p.action /\ q.member = p.member /\ q.media = p.media
       /\ q.upload = p.upload /\ q.attributed = p.attributed /\ q.identity = p.identity
  BY <1>24, <1>25 DEF IsJournal
<1>27. JournalOk(q)
  BY <1>17, <1>26, JournalTypes, JournalFromFields
<1>28. e = CloseAuthorization(q, t, d.action[a].auth)
  BY <1>1, <1>18, <1>23 DEF FinishAction
<1>29. /\ JournalOk(e)
       /\ e.rows = q.rows /\ e.plan = q.plan /\ e.action = q.action /\ e.member = q.member
       /\ e.media = q.media /\ e.identity = q.identity
  BY <1>1, <1>27, <1>28, AuthorizationClosed
<1>30. PlanActionsEnded(e, t) <=> PlanActionsEnded(x, t)
  BY <1>17, <1>26, <1>29 DEF PlanActionsEnded
<1>31. \A u \in Transfers : e.plan[u] =
          IF u = t /\ d.plan[t] = "executing" /\ PlanActionsEnded(e, t)
          THEN "terminal" ELSE d.plan[u]
  BY <1>3, <1>14, <1>17, <1>26, <1>29, <1>30
<1>32. e.rows = [d.rows EXCEPT ![t] =
           ApplyPublicationActionResult(d.rows[t], [i \in MembersOf[a] |-> e.member[i]], skip)]
  BY <1>3, <1>14, <1>17, <1>19, <1>22, <1>26, <1>29
<1>33. \A b \in Actions : e.action[b] =
          IF b = a THEN [d.action[a] EXCEPT !.state = "terminal"] ELSE d.action[b]
  BY <1>3, <1>7, <1>8, <1>10, <1>14, <1>17, <1>26, <1>29
<1>34. \A i \in Items : i \notin MembersOf[a] => e.media[i] = d.media[i]
  BY <1>3, <1>4, <1>14, <1>17, <1>26, <1>29
<1>35. e.member = m.member /\ e.identity = m.identity
  BY <1>14, <1>17, <1>26, <1>29
<1>36. \E groups \in SUBSET GroupTargets(a) :
          e.rows = [d.rows EXCEPT ![t] =
              ApplyPublicationActionResult(d.rows[t], [i \in MembersOf[a] |-> e.member[i]], groups)]
  BY <1>21, <1>32
<1>37. /\ \A i \in Items : e.member[i] = IF i \in DOMAIN class THEN class[i] ELSE d.member[i]
       /\ \A i \in DOMAIN class :
             e.identity[VendorOf[i]] = ReleasedIdentity(d.identity[VendorOf[i]], class[i])
       /\ \A v \in Vendors :
             (\A i \in DOMAIN class : VendorOf[i] # v) => e.identity[v] = d.identity[v]
  BY <1>3, <1>35
<1>38. QED
  BY <1>29, <1>31, <1>33, <1>34, <1>36, <1>37 DEF FinishedAs

\* The step that ends an action in flight with evidence for its outcomes.
LEMMA FinishKeepsInv ==
    ASSUME Inv, NEW a \in Actions, InFlight(a), db.action[a].retry # "open",
           DistinctVendorCodes(a), NEW class, class \in [DOMAIN class -> OutcomeClasses],
           DOMAIN class = PendingMembers(db, a), RecordMembersOk(db, a, class),
           \A i \in DOMAIN class :
              /\ class[i] \in {"success", "rejected"} => Clean(VendorOf[i])
              /\ class[i] = "rejected" => Uncreated(a, i),
           NEW d, JournalOk(d), d.rows = db.rows, d.plan = db.plan, d.media = db.media,
           d.member = db.member, d.identity = db.identity,
           \A b \in Actions : b # a => d.action[b] = db.action[b],
           NEW attempt \in Answers,
           d.action[a] = [db.action[a] EXCEPT !.attempt = attempt],
           db.action[a].retry # "none" => attempt = "empty",
           db' = FinishAction(d, a, class),
           job' = [job EXCEPT ![a] = NoJob],
           due' \in [Actions -> SUBSET {"retry", "deadline"}],
           UNCHANGED <<stored, sends, card, listed, requests, made, outside>>
    PROVE  Inv'
<1>1. PICK t \in Transfers : t = TransferOf[a]
  BY MembersOfTransfer
<1>2. /\ JournalOk(db) /\ RemoteOk /\ StagesOk /\ JobsOk /\ OwnersOk
      /\ EvidenceOk /\ PlanOk /\ ProjectionOk
      /\ job \in [Actions -> JobType] /\ db.identity \in [Vendors -> IdentityRows]
      /\ db.member \in [Items -> Classes \cup {NoClass}]
      /\ db.action \in [Actions -> ActionRows]
  BY InvParts, JournalTypes DEF RemoteOk
<1>3. DOMAIN class \subseteq MembersOf[a] /\ MembersOf[a] \subseteq Items
  BY MembersOfTransfer DEF PendingMembers
<1>4. FinishedAs(db', d, a, t, class)
  BY <1>1, <1>3, FinishWritten
<1>5. /\ JournalOk(db')
      /\ \A u \in Transfers : db'.plan[u] =
            IF u = t /\ db.plan[t] = "executing" /\ PlanActionsEnded(db', t)
            THEN "terminal" ELSE db.plan[u]
      /\ \A b \in Actions : db'.action[b] =
            IF b = a THEN [d.action[a] EXCEPT !.state = "terminal"] ELSE db.action[b]
      /\ \A i \in Items : i \notin MembersOf[a] => db'.media[i] = db.media[i]
      /\ \A i \in Items : db'.member[i] = IF i \in DOMAIN class THEN class[i] ELSE db.member[i]
      /\ \A i \in DOMAIN class :
            db'.identity[VendorOf[i]] = ReleasedIdentity(db.identity[VendorOf[i]], class[i])
      /\ \A v \in Vendors :
            (\A i \in DOMAIN class : VendorOf[i] # v) => db'.identity[v] = db.identity[v]
  BY <1>1, <1>4 DEF FinishedAs
<1>6. PICK skip \in SUBSET GroupTargets(a) :
          db'.rows = [db.rows EXCEPT ![t] =
              ApplyPublicationActionResult(db.rows[t], [i \in MembersOf[a] |-> db'.member[i]], skip)]
  BY <1>1, <1>4 DEF FinishedAs
<1>7. /\ db'.action[a].state = "terminal" /\ db'.action[a].attempt = attempt
      /\ db'.action[a].retry = db.action[a].retry
      /\ db'.action[a].baseline = db.action[a].baseline
      /\ \A b \in Actions : b # a => db'.action[b] = db.action[b]
  <2>1. PICK old \in ActionRows : old = db.action[a]
    BY <1>2
  <2>2. PICK new : new = db'.action[a]
    OBVIOUS
  <2>3. new = [[old EXCEPT !.attempt = attempt] EXCEPT !.state = "terminal"]
    BY <1>5, <2>1, <2>2
  <2>4. new.state = "terminal" /\ new.attempt = attempt /\ new.retry = old.retry
        /\ new.baseline = old.baseline
    BY <2>1, <2>3 DEF ActionRows
  <2>5. QED
    BY <1>5, <2>1, <2>2, <2>4
<1>8. StageOk(a) /\ OwnerOk(a) /\ Attempted(a)
  <2>1. StageOk(a) /\ OwnerOk(a)
    BY <1>2 DEF StagesOk, OwnersOk
  <2>2. QED
    BY <2>1 DEF StageOk, Attempted, InFlight, InFlightStates
<1>9. \A b \in Actions : job'[b] = IF b = a THEN NoJob ELSE job[b]
  BY <1>2
<1>10. RemoteOk'
  <2>1. job' \in [Actions -> JobType]
    BY <1>2, NoJobIsTyped
  <2>2. QED
    BY <1>2, <2>1 DEF RemoteOk
<1>11. ASSUME NEW b \in Actions
       PROVE  /\ Attempted(b)' <=> Attempted(b)
              /\ InFlight(b)' => InFlight(b)
              /\ NotEnded(b)' => NotEnded(b)
              /\ Untried(b)' => Untried(b)
              /\ db'.action[b].retry = db.action[b].retry
              /\ db'.action[b].baseline = db.action[b].baseline
              /\ \A v \in Vendors : SawAbsent(b, v)' => SawAbsent(b, v)
              /\ \A v \in Vendors : job'[b].seen[v] # "absent" => job[b].seen[v] # "absent"
  <2>1. Attempted(b)' <=> Attempted(b)
    BY <1>7, <1>8 DEF Attempted, Answers
  <2>2. /\ InFlight(b)' => InFlight(b)
        /\ NotEnded(b)' => NotEnded(b)
        /\ db'.action[b].retry = db.action[b].retry
        /\ db'.action[b].baseline = db.action[b].baseline
    BY <1>7 DEF InFlight, NotEnded, InFlightStates
  <2>3. CASE b = a
    BY <1>9, <2>1, <2>2, <2>3, <1>8 DEF Untried, SawAbsent, NoJob, NothingSeen
  <2>4. CASE b # a
    BY <1>9, <2>1, <2>2, <2>4 DEF Untried, SawAbsent
  <2>5. QED
    BY <2>3, <2>4
<1>12. ASSUME NEW b \in Actions, b # a, NEW i \in MembersOf[b] PROVE db'.member[i] = db.member[i]
  <2>1. i \notin DOMAIN class
    BY <1>3, <1>12, OneOwner
  <2>2. QED
    BY <1>5, <2>1, MembersOfTransfer
<1>13. StagesOk'
  <2>1. ASSUME NEW b \in Actions, b # a PROVE StageOk(b)'
    BY <1>2, <1>7, <1>12, <2>1, StageFrame DEF StagesOk
  <2>2. StageOk(a)'
    BY <1>7, <1>8 DEF StageOk, Attempted, Answers
  <2>3. QED
    BY <2>1, <2>2 DEF StagesOk
<1>14. JobsOk'
  <2>1. ASSUME NEW b \in Actions PROVE JobOk(b)'
    <3>1. JobOk(b)
      BY <1>2 DEF JobsOk
    <3>2. CASE b = a
      BY <1>9, <3>1, <3>2, JobFrame DEF NoJob
    <3>3. CASE b # a
      BY <1>7, <1>9, <3>1, <3>3, JobFrame
    <3>4. QED
      BY <3>2, <3>3
  <2>2. QED
    BY <2>1 DEF JobsOk
<1>15. OwnersOk'
  BY <1>3, <1>5, <1>11, OwnersRecorded
<1>16. EvidenceOk'
  <2>1. \A v \in Vendors :
           db'.identity[v].active = Free => db.identity[v].active = Free \/ Clean(v)
    BY <1>2, <1>3, <1>5, ReleasedIsClean
  <2>2. ASSUME NEW b \in Actions, NEW i \in MembersOf[b]
        PROVE  /\ db'.member[i] = NoClass => db.member[i] = NoClass
               /\ db'.member[i] = "rejected" => db.member[i] = "rejected" \/ Uncreated(b, i)
               /\ SawAbsent(b, VendorOf[i])' => SawAbsent(b, VendorOf[i])
    <3>1. SawAbsent(b, VendorOf[i])' => SawAbsent(b, VendorOf[i])
      BY <1>11, MembersOfTransfer
    <3>2. CASE i \in DOMAIN class
      <4>1. b = a /\ db'.member[i] = class[i] /\ class[i] \in OutcomeClasses
        BY <1>3, <1>5, <3>2, OneOwner
      <4>2. class[i] # NoClass
        BY <4>1, Assumed DEF OutcomeClasses, Classes
      <4>3. QED
        BY <3>1, <3>2, <4>1, <4>2
    <3>3. CASE i \notin DOMAIN class
      BY <1>5, <3>1, <3>3, MembersOfTransfer
    <3>4. QED
      BY <3>2, <3>3
  <2>3. \A b \in Actions :
              /\ Attempted(b)' <=> Attempted(b)
              /\ db'.action[b].baseline = db.action[b].baseline
              /\ db'.action[b].retry = db.action[b].retry
              /\ InFlight(b)' => InFlight(b)
              /\ Untried(b)' => Untried(b)
              /\ \A i \in MembersOf[b] :
                    /\ db'.member[i] = NoClass => db.member[i] = NoClass
                    /\ db'.member[i] = "rejected" => db.member[i] = "rejected" \/ Uncreated(b, i)
                    /\ SawAbsent(b, VendorOf[i])' => SawAbsent(b, VendorOf[i])
              /\ \A v \in Vendors :
                    job'[b].seen[v] # "absent" => job[b].seen[v] # "absent"
    BY <1>11, <2>2
  <2>4. EvidenceOk /\ RemoteOk /\ RemoteOk' /\ UNCHANGED <<card, listed, stored, requests, made, outside>>
    BY <1>2, <1>10
  <2>5. QED
    BY <2>1, <2>3, <2>4, EvidenceRecorded
<1>17. a \in ActionsOf(t) /\ NotEnded(a)
  BY <1>1, MembersOfTransfer DEF NotEnded, InFlight
<1>18. PlanOk' /\ \A u \in Transfers : db'.plan[u] = "superseded" <=> db.plan[u] = "superseded"
  <2>1. \A b \in Actions : TransferOf[b] # t => db'.action[b].state = db.action[b].state
    BY <1>1, <1>7
  <2>2. ASSUME NEW u \in Transfers, u # t, NEW i \in TransferItems(u)
        PROVE  db'.media[i] \in OpenMediaStates <=> db.media[i] \in OpenMediaStates
    <3>1. i \notin MembersOf[a] /\ i \in Items
      <4>1. i \notin MembersOf[a]
        BY <1>1, <2>2, OtherTransfer
      <4>2. TransferItems(u) \subseteq Items
        BY JournalAssumption, Assumed DEF TransferItems, PublishedItems, ActionsOf
      <4>3. QED
        BY <4>1, <4>2
    <3>2. QED
      BY <1>5, <3>1
  <2>3. QED
    BY <1>5, <1>17, <2>1, <2>2, PlanReduced
<1>19. ProjectionOk'
  <2>1. PICK A : A = {a}
    OBVIOUS
  <2>2. PICK outcomes : outcomes = [i \in MembersOf[a] |-> db'.member[i]]
    OBVIOUS
  <2>12. PICK its : its = UNION {MembersOf[b] : b \in A}
    OBVIOUS
  <2>3. its = MembersOf[a]
    BY <2>1, <2>12
  <2>4. outcomes \in [its -> Classes]
    <3>1. ASSUME NEW i \in MembersOf[a] PROVE db'.member[i] \in Classes
      <4>1. CASE i \in DOMAIN class
        BY <1>3, <1>5, <4>1 DEF OutcomeClasses, Classes
      <4>2. CASE i \notin DOMAIN class
        <5>1. db.member[i] # NoClass
          BY <4>2 DEF PendingMembers
        <5>2. QED
          BY <1>2, <1>3, <1>5, <4>2, <5>1
      <4>3. QED
        BY <4>1, <4>2
    <3>2. QED
      BY <2>2, <2>3, <3>1
  <2>5. skip \subseteq GroupsOf(its)
    BY <1>6, <2>3 DEF GroupsOf, GroupTargets
  <2>6. PICK r : r = ApplyPublicationActionResult(db.rows[t], outcomes, skip)
    OBVIOUS
  <2>7. db'.rows = [db.rows EXCEPT ![t] = r]
    BY <1>6, <2>2, <2>6
  <2>8. A \subseteq ActionsOf(t) /\ A # {} /\ \A b \in A : NotEnded(b)
    BY <1>17, <2>1
  <2>9. \A b \in Actions :
           /\ b \in A => db'.action[b].state = "terminal"
           /\ b \notin A => db'.action[b].state = db.action[b].state
    BY <1>7, <2>1
  <2>10. \A b \in Actions : \A i \in MembersOf[b] :
            /\ b \in A => db'.member[i] = outcomes[i]
            /\ b \notin A => db'.member[i] = db.member[i]
    BY <1>12, <2>1, <2>2
  <2>11. \A u \in Transfers : db'.plan[u] = "superseded" <=> db.plan[u] = "superseded"
    BY <1>18
  <2>13. QED
    <3>1. \A i : i \in its <=> \E b \in A : i \in MembersOf[b]
      BY <2>12
    <3>2. ResultsWritten(t, A, its, outcomes, skip, r)
      BY <2>4, <2>5, <2>6, <2>7, <2>8, <2>9, <2>10, <2>11, <3>1 DEF ResultsWritten
    <3>3. QED
      BY <1>1, <3>2, ResultsProject
<1>20. QED
  BY <1>5, <1>10, <1>13, <1>14, <1>15, <1>16, <1>18, <1>19, InvPartsNext


\* FinishKeepsInv for a reconciled action.
LEMMA FinishReconciliationKeepsInv ==
    ASSUME Inv, NEW a \in Actions, FinishReconciliation(a)
    PROVE  Inv'
<1>1. PICK class : class = Verdicts(a)
  OBVIOUS
<1>2. /\ class \in [DOMAIN class -> OutcomeClasses]
      /\ \A i \in DOMAIN class :
            /\ class[i] \in {"success", "rejected"} => Clean(VendorOf[i])
            /\ class[i] = "rejected" => Uncreated(a, i)
      /\ InFlight(a) /\ DistinctVendorCodes(a)
      /\ db.action[a].state = "reconciling"
  BY <1>1, VerdictsAreTyped DEF FinishReconciliation
<1>3. /\ RecordMembersOk(db, a, class) /\ DOMAIN class = PendingMembers(db, a)
      /\ db' = FinishAction(db, a, class)
      /\ job' = [job EXCEPT ![a] = NoJob]
      /\ due' = [due EXCEPT ![a] = {}]
      /\ UNCHANGED <<stored, sends, card, listed, requests, made, outside>>
      /\ db.action[a].retry # "open"
  BY <1>1 DEF FinishReconciliation, FinishReconciliationOk, FinishActionOk, EndJob, remote, Reconciling
<1>4. JournalOk(db) /\ db.action \in [Actions -> ActionRows] /\ StageOk(a) /\ RemoteOk
  BY InvParts, JournalTypes DEF StagesOk
<1>5. due' \in [Actions -> SUBSET {"retry", "deadline"}]
  BY <1>3, <1>4 DEF RemoteOk
<1>6. PICK attempt : attempt = db.action[a].attempt
  OBVIOUS
<1>7. attempt \in Answers /\ (db.action[a].retry # "none" => attempt = "empty")
  BY <1>2, <1>4, <1>6 DEF StageOk, Answers
<1>8. db.action[a] = [db.action[a] EXCEPT !.attempt = attempt]
  <2>1. PICK row \in ActionRows : row = db.action[a]
    BY <1>4
  <2>2. row = [row EXCEPT !.attempt = row.attempt]
    BY DEF ActionRows
  <2>3. QED
    BY <1>6, <2>1, <2>2
<1>9. PICK d : d = db
  OBVIOUS
<1>10. /\ JournalOk(d) /\ d.rows = db.rows /\ d.plan = db.plan /\ d.media = db.media
       /\ d.member = db.member /\ d.identity = db.identity
       /\ \A b \in Actions : b # a => d.action[b] = db.action[b]
       /\ d.action[a] = [db.action[a] EXCEPT !.attempt = attempt]
       /\ db' = FinishAction(d, a, class)
  BY <1>3, <1>4, <1>8, <1>9
<1>11. QED
  <2>1. /\ InFlight(a) /\ db.action[a].retry # "open" /\ DistinctVendorCodes(a)
        /\ class \in [DOMAIN class -> OutcomeClasses]
        /\ DOMAIN class = PendingMembers(db, a) /\ RecordMembersOk(db, a, class)
        /\ \A i \in DOMAIN class :
              /\ class[i] \in {"success", "rejected"} => Clean(VendorOf[i])
              /\ class[i] = "rejected" => Uncreated(a, i)
    BY <1>2, <1>3
  <2>2. /\ JournalOk(d) /\ d.rows = db.rows /\ d.plan = db.plan /\ d.media = db.media
        /\ d.member = db.member /\ d.identity = db.identity
        /\ \A b \in Actions : b # a => d.action[b] = db.action[b]
        /\ d.action[a] = [db.action[a] EXCEPT !.attempt = attempt]
        /\ attempt \in Answers /\ (db.action[a].retry # "none" => attempt = "empty")
    BY <1>7, <1>10
  <2>3. /\ db' = FinishAction(d, a, class)
        /\ job' = [job EXCEPT ![a] = NoJob]
        /\ due' \in [Actions -> SUBSET {"retry", "deadline"}]
        /\ UNCHANGED <<stored, sends, card, listed, requests, made, outside>>
    BY <1>3, <1>5, <1>10
  <2>4. QED
    BY <2>1, <2>2, <2>3, FinishKeepsInv

\* Nothing has reached Wildberries of an attempt that ended with a proven answer.
LEMMA ProvenIsSound ==
    ASSUME Inv, NEW a \in Actions, job[a].step = "record", job[a].kind = "dispatch",
           job[a].answer \in ProvenAnswers, NEW i \in MembersOf[a]
    PROVE  /\ db.member[i] = NoClass
           /\ Clean(VendorOf[i])
           /\ Uncreated(a, i)
<1>1. PICK v : v = VendorOf[i]
  OBVIOUS
<1>2. JobOk(a) /\ StageOk(a) /\ EvidenceOk /\ db.action \in [Actions -> ActionRows]
      /\ stored \in [Vendors -> Nat] /\ listed \in [Vendors -> Nat]
  BY InvParts, JournalTypes DEF JobsOk, StagesOk, RemoteOk
<1>3. db.action[a].state = "dispatching"
  BY <1>2 DEF JobOk
<1>4. InFlight(a) /\ Attempted(a) /\ db.member[i] = NoClass
  BY <1>2, <1>3 DEF InFlight, InFlightStates, StageOk, Attempted, PendingMembers
<1>5. Untried(a)
  BY DEF Untried
<1>6. NothingOf(a) /\ v \in Vendors /\ VendorEvidence(v) /\ EvidenceOf(a, i)
  BY <1>1, <1>2, <1>5, MembersOfTransfer DEF EvidenceOk
<1>7. db.action[a].baseline[v] \in Nat
  BY <1>2, <1>6 DEF ActionRows
<1>8. Clean(v)
  <2>1. SUFFICES ASSUME card[v] = "absent", SentOnce(v), Uncounted(v)
                 PROVE  NoRequestsFor(v) /\ listed[v] = stored[v]
    BY DEF Clean
  <2>2. NoRequestsFor(v) /\ listed[v] = db.action[a].baseline[v]
    BY <1>1, <1>4, <1>5, <1>6, <2>1 DEF EvidenceOf
  <2>3. stored[v] <= listed[v] /\ db.action[a].baseline[v] <= stored[v]
    BY <1>4, <1>6 DEF VendorEvidence
  <2>4. QED
    BY <1>2, <1>6, <1>7, <2>2, <2>3
<1>9. Uncreated(a, i)
  BY <1>6 DEF Uncreated, NothingOf
<1>10. QED
  BY <1>1, <1>4, <1>8, <1>9

LEMMA RecordAttemptKeepsInv ==
    ASSUME Inv, NEW a \in Actions, RecordAttempt(a)
    PROVE  Inv'
<1>1. PICK answer : answer = job[a].answer
  OBVIOUS
<1>2. /\ JournalOk(db) /\ RemoteOk /\ job \in [Actions -> JobType] /\ StageOk(a)
      /\ IsJournal(db) /\ db.action \in [Actions -> ActionRows]
  BY InvParts, JournalTypes DEF RemoteOk, StagesOk
<1>3. answer \in Answers
  BY <1>1, <1>2 DEF JobType
<1>4. /\ job[a].step = "record" /\ job[a].kind = "dispatch"
      /\ RecordSubmissionOk(db, a, answer) /\ db' = RecordSubmission(db, a, answer)
      /\ job' = [job EXCEPT ![a] = NoJob]
      /\ UNCHANGED <<due, stored, sends, card, listed, requests, made, outside>>
  BY <1>1 DEF RecordAttempt, EndJob, remote
<1>5. CASE answer \notin ProvenAnswers
  <2>1. answer \in {"accepted", "uncertain", "empty"}
    BY <1>3, <1>5 DEF Answers, ProvenAnswers
  <2>2. AwaitReconciliationOk(db, a) /\ db' = AwaitReconciliation(db, a, answer)
    BY <1>4, <1>5 DEF RecordSubmissionOk, RecordSubmission
  <2>3. /\ job' \in [Actions -> JobType] /\ job'[a].step = "none"
        /\ \A b \in Actions : job'[b] = job[b] \/ job'[b] = NoJob
    <3>1. NoJob \in JobType /\ NoJob.step = "none"
      BY NoJobIsTyped DEF NoJob
    <3>2. QED
      BY <1>2, <1>4, <3>1
  <2>4. QED
    BY <1>4, <2>1, <2>2, <2>3, AwaitKeepsInv
<1>6. CASE answer \in ProvenAnswers
  <2>1. PICK class : class = ProvenOutcomes(a, answer)
    OBVIOUS
  <2>2. PICK d : d = WithAnswer(db, a, answer)
    OBVIOUS
  <2>3. /\ db.action[a].state = "dispatching" /\ FinishActionOk(db, a, class)
        /\ db' = FinishAction(d, a, class)
    BY <1>4, <1>6, <2>1, <2>2 DEF RecordSubmissionOk, RecordSubmission
  <2>4. /\ RecordMembersOk(db, a, class) /\ DOMAIN class = PendingMembers(db, a)
    BY <2>3 DEF FinishActionOk
  <2>5. DOMAIN class = MembersOf[a] /\ class \in [DOMAIN class -> OutcomeClasses]
    BY <2>1 DEF ProvenOutcomes, ProvenClass, OutcomeClasses
  <2>6. \A i \in DOMAIN class :
           /\ class[i] \in {"success", "rejected"} => Clean(VendorOf[i])
           /\ class[i] = "rejected" => Uncreated(a, i)
    BY <1>1, <1>4, <1>6, <2>5, ProvenIsSound
  <2>7. InFlight(a) /\ db.action[a].retry = "none" /\ Attempted(a)
    BY <1>2, <2>3 DEF InFlight, InFlightStates, StageOk, Attempted
  <2>8. DistinctVendorCodes(a)
    BY <2>7, InvParts DEF OwnersOk, OwnerOk
  <2>9. PICK row : row = [db.action[a] EXCEPT !.attempt = answer]
    OBVIOUS
  <2>10. row \in ActionRows
    <3>1. db.action[a] \in ActionRows
      BY <1>2
    <3>2. QED
      BY <1>3, <2>9, <3>1 DEF ActionRows, AttemptStates
  <2>11. PICK action : action = [db.action EXCEPT ![a] = row]
    OBVIOUS
  <2>12. d = [db EXCEPT !.action = action]
    BY <2>2, <2>9, <2>11 DEF WithAnswer
  <2>13. action \in [Actions -> ActionRows]
    BY <1>2, <2>10, <2>11
  <2>14. /\ IsJournal(d) /\ d.rows = db.rows /\ d.plan = db.plan /\ d.auth = db.auth
         /\ d.action = action /\ d.member = db.member /\ d.media = db.media
         /\ d.upload = db.upload /\ d.attributed = db.attributed /\ d.identity = db.identity
    BY <1>2, <2>12, SetAction
  <2>15. JournalOk(d)
    BY <1>2, <2>13, <2>14, JournalTypes, JournalFromFields
  <2>16. /\ \A b \in Actions : b # a => d.action[b] = db.action[b]
         /\ d.action[a] = [db.action[a] EXCEPT !.attempt = answer]
    BY <1>2, <2>9, <2>11, <2>14
  <2>17. db.action[a].retry # "open" /\ (db.action[a].retry # "none" => answer = "empty")
    BY <2>7
  <2>18. due' \in [Actions -> SUBSET {"retry", "deadline"}]
    BY <1>2, <1>4 DEF RemoteOk
  <2>19. QED
    <3>1. /\ InFlight(a) /\ db.action[a].retry # "open" /\ DistinctVendorCodes(a)
          /\ class \in [DOMAIN class -> OutcomeClasses]
          /\ DOMAIN class = PendingMembers(db, a) /\ RecordMembersOk(db, a, class)
          /\ \A i \in DOMAIN class :
                /\ class[i] \in {"success", "rejected"} => Clean(VendorOf[i])
                /\ class[i] = "rejected" => Uncreated(a, i)
      BY <2>4, <2>5, <2>6, <2>7, <2>8
    <3>2. /\ JournalOk(d) /\ d.rows = db.rows /\ d.plan = db.plan /\ d.media = db.media
          /\ d.member = db.member /\ d.identity = db.identity
          /\ \A b \in Actions : b # a => d.action[b] = db.action[b]
          /\ d.action[a] = [db.action[a] EXCEPT !.attempt = answer]
          /\ answer \in Answers /\ (db.action[a].retry # "none" => answer = "empty")
      BY <1>3, <2>14, <2>15, <2>16, <2>17
    <3>3. /\ db' = FinishAction(d, a, class)
          /\ job' = [job EXCEPT ![a] = NoJob]
          /\ due' \in [Actions -> SUBSET {"retry", "deadline"}]
          /\ UNCHANGED <<stored, sends, card, listed, requests, made, outside>>
      BY <1>4, <2>3, <2>18
    <3>4. QED
      BY <3>1, <3>2, <3>3, FinishKeepsInv
<1>7. QED
  BY <1>5, <1>6

LEMMA RecordInterruptedKeepsInv ==
    ASSUME Inv, NEW a \in Actions, RecordInterrupted(a)
    PROVE  Inv'
<1>1. PICK answer : answer = InterruptedAnswer
  OBVIOUS
<1>2. answer = "uncertain" /\ answer \notin ProvenAnswers
  BY <1>1 DEF InterruptedAnswer, ProvenAnswers
<1>3. /\ AwaitReconciliationOk(db, a) /\ db' = AwaitReconciliation(db, a, answer)
      /\ job' = job /\ job[a].step = "none"
      /\ UNCHANGED <<due, stored, sends, card, listed, requests, made, outside>>
  BY <1>1, <1>2 DEF RecordInterrupted, RecordSubmissionOk, RecordSubmission, Idle, remote
<1>4. job' \in [Actions -> JobType] /\ \A b \in Actions : job'[b] = job[b] \/ job'[b] = NoJob
  BY <1>3, InvParts DEF RemoteOk
<1>5. answer \in {"accepted", "uncertain", "empty"} /\ job'[a].step = "none"
  BY <1>2, <1>3
<1>6. QED
  BY <1>3, <1>4, <1>5, AwaitKeepsInv


-----------------------------------------------------------------------------
(* The plan is withdrawn or stopped. *)

FreshGroup == [InitialGroup EXCEPT !.preparation = "succeeded"]

FreshItem == [InitialItem EXCEPT !.state = "running"]

\* ResetPublicationPlanning, when the plan was applied to every group.
LEMMA PlanningReset ==
    ASSUME NEW t \in Transfers, NEW s, RowsOk(s, t),
           \A g \in GroupTargetsOf(t) :
              s.group[g].plan = ThePlan /\ s.group[g].preparation = "succeeded",
           NEW r, r = ResetPublicationPlanning(s, ThePlan)
    PROVE  /\ RowsOk(r, t)
           /\ \A i \in TransferItems(t) : r.item[i].state = "running" /\ r.item[i].action = NoAction
<1>1. /\ s = [transfer |-> s.transfer, group |-> s.group, item |-> s.item]
      /\ s.transfer \in TransferRows
      /\ s.group \in [GroupTargetsOf(t) -> GroupRows]
      /\ s.item \in [TransferItems(t) -> ItemRows]
  BY DEF RowsOk
<1>2. PICK group : group = [g \in DOMAIN s.group |->
            IF g \in PlanGroups(s, ThePlan) THEN FreshGroup ELSE s.group[g]]
  OBVIOUS
<1>3. PICK item : item = [i \in DOMAIN s.item |->
            IF GroupOf[i] \in PlanGroups(s, ThePlan) THEN FreshItem ELSE s.item[i]]
  OBVIOUS
<1>4. r = [s EXCEPT !.group = group, !.item = item]
  BY <1>2, <1>3 DEF ResetPublicationPlanning, FreshGroup, FreshItem
<1>5. r = [transfer |-> s.transfer, group |-> group, item |-> item]
  BY <1>1, <1>4
<1>6. FreshGroup \in GroupRows
  BY DEF FreshGroup, InitialGroup, GroupRows, GroupColumn
<1>7. FreshItem \in ItemRows /\ FreshItem.state = "running" /\ FreshItem.action = NoAction
  BY DEF FreshItem, InitialItem, ItemRows
<1>8. group \in [GroupTargetsOf(t) -> GroupRows]
  BY <1>1, <1>2, <1>6
<1>9. PlanGroups(s, ThePlan) = GroupTargetsOf(t)
  BY <1>1 DEF PlanGroups
<1>10. item = [i \in TransferItems(t) |-> FreshItem]
  <2>1. \A i \in TransferItems(t) : GroupOf[i] \in GroupTargetsOf(t)
    BY DEF GroupTargetsOf
  <2>2. QED
    BY <1>1, <1>3, <1>9, <2>1
<1>11. item \in [TransferItems(t) -> ItemRows]
  BY <1>7, <1>10
<1>12. QED
  BY <1>1, <1>5, <1>7, <1>8, <1>10, <1>11 DEF RowsOk

LEMMA WithdrawPlanKeepsInv ==
    ASSUME Inv, NEW a \in Actions, WithdrawPlan(a)
    PROVE  Inv'
<1>1. PICK t \in Transfers : t = TransferOf[a]
  BY MembersOfTransfer
<1>2. PICK n : n = job[a].epoch
  OBVIOUS
<1>3. /\ JournalOk(db) /\ RemoteOk /\ StagesOk /\ JobsOk /\ OwnersOk
      /\ EvidenceOk /\ PlanOk /\ ProjectionOk
  BY InvParts
<1>4. /\ ~PlanAttempted(db, t)
      /\ db.auth[t][n] \in OpenAuthorization
      /\ PlannedActions(db, t) = ActionsOf(t)
      /\ db.plan[t] = "awaiting_authorization"
      /\ db' = SupersedePlan(db, a, n)
      /\ job' = [job EXCEPT ![a] = NoJob]
      /\ UNCHANGED <<due, stored, sends, crashes, card, listed, requests, made, outside>>
  BY <1>1, <1>2 DEF WithdrawPlan, SupersedePlanOk, EndJob, remote
<1>5. /\ IsJournal(db)
      /\ db.plan \in [Transfers -> PlanStates]
      /\ db.auth \in [Transfers -> {x \in Seq(AuthStates) : Len(x) <= MaxAuths}]
      /\ db.action \in [Actions -> ActionRows]
      /\ db.member \in [Items -> Classes \cup {NoClass}]
      /\ db.media \in [Items -> MediaStates]
      /\ db.identity \in [Vendors -> IdentityRows]
      /\ job \in [Actions -> JobType]
  BY <1>3, JournalTypes DEF RemoteOk
<1>6. \A b \in ActionsOf(t) :
         /\ b \in Actions /\ db.action[b].state = "planned" /\ db.action[b].attempt = "none"
         /\ db.action[b].retry # "open"
  <2>1. \A b \in ActionsOf(t) : b \in Actions /\ db.action[b].attempt = "none"
    BY <1>4 DEF PlanAttempted, ActionsOf
  <2>2. \A b \in ActionsOf(t) : db.action[b].state = "planned"
    BY <1>4 DEF PlannedActions
  <2>3. \A b \in ActionsOf(t) : StageOk(b)
    BY <1>3, <2>1 DEF StagesOk
  <2>4. QED
    BY <2>1, <2>2, <2>3 DEF StageOk
<1>7. PICK state : state = IF db.auth[t][n] = "overdue" THEN "expired" ELSE "superseded"
  OBVIOUS
<1>8. PICK x : x = [db.auth[t] EXCEPT ![n] = state]
  OBVIOUS
<1>9. PICK action : action = [b \in Actions |->
            IF b \in ActionsOf(t) THEN [db.action[b] EXCEPT !.state = "superseded"]
            ELSE db.action[b]]
  OBVIOUS
<1>10. PICK media : media = [i \in Items |->
            IF i \in PlannedMedia(db, t) THEN "superseded" ELSE db.media[i]]
  OBVIOUS
<1>11. PICK member : member = [i \in Items |->
            IF i \in TransferItems(t) THEN "skipped" ELSE db.member[i]]
  OBVIOUS
<1>12. PICK r : r = ResetPublicationPlanning(db.rows[t], ThePlan)
  OBVIOUS
<1>13. db' = [db EXCEPT !.auth[t] = x, !.action = action, !.media = media,
                        !.member = member, !.plan[t] = "superseded", !.rows[t] = r]
  BY <1>1, <1>4, <1>7, <1>8, <1>9, <1>10, <1>11, <1>12 DEF SupersedePlan
<1>14. /\ IsJournal(db')
       /\ db'.identity = db.identity
       /\ db'.action = action /\ db'.media = media /\ db'.member = member
       /\ db'.plan = [db.plan EXCEPT ![t] = "superseded"]
       /\ db'.rows = [db.rows EXCEPT ![t] = r]
       /\ db'.auth = [db.auth EXCEPT ![t] = x]
       /\ db'.upload = db.upload /\ db'.attributed = db.attributed
  BY <1>5, <1>13 DEF IsJournal
<1>15. \A b \in Actions :
          /\ db'.action[b].attempt = db.action[b].attempt
          /\ db'.action[b].retry = db.action[b].retry
          /\ db'.action[b].baseline = db.action[b].baseline
          /\ b \in ActionsOf(t) => db'.action[b].state = "superseded"
          /\ b \notin ActionsOf(t) => db'.action[b] = db.action[b]
          /\ db'.action[b] \in ActionRows
  <2>1. ASSUME NEW b \in Actions, b \in ActionsOf(t)
        PROVE  /\ action[b].attempt = db.action[b].attempt
               /\ action[b].retry = db.action[b].retry
               /\ action[b].baseline = db.action[b].baseline
               /\ action[b].state = "superseded"
               /\ action[b] \in ActionRows
    <3>1. PICK old \in ActionRows : old = db.action[b]
      BY <1>5
    <3>2. action[b] = [old EXCEPT !.state = "superseded"]
      BY <1>9, <2>1, <3>1
    <3>3. QED
      BY <3>1, <3>2 DEF ActionRows, ActionStates, EndedStates
  <2>2. ASSUME NEW b \in Actions, b \notin ActionsOf(t)
        PROVE  action[b] = db.action[b] /\ action[b] \in ActionRows
    BY <1>5, <1>9, <2>2
  <2>3. QED
    BY <1>14, <2>1, <2>2
<1>16. /\ \A u \in Transfers : db'.plan[u] = IF u = t THEN "superseded" ELSE db.plan[u]
       /\ \A u \in Transfers : db'.rows[u] = IF u = t THEN r ELSE db.rows[u]
       /\ db'.rows = [u \in Transfers |-> db'.rows[u]]
  <2>1. PICK rows : rows = db.rows
    OBVIOUS
  <2>2. rows = [u \in Transfers |-> rows[u]]
    BY <1>3, <2>1 DEF ProjectionOk
  <2>3. QED
    BY <1>5, <1>14, <2>1, <2>2
<1>17. JournalOk(db')
  <2>1. db.auth[t] \in Seq(AuthStates) /\ Len(db.auth[t]) <= MaxAuths
    BY <1>5
  <2>2. state \in AuthStates
    BY <1>7 DEF AuthStates
  <2>3. x \in Seq(AuthStates) /\ Len(x) <= MaxAuths
    <3>1. PICK old : old = db.auth[t]
      OBVIOUS
    <3>2. old \in Seq(AuthStates) /\ x = [old EXCEPT ![n] = state]
      BY <1>8, <2>1, <3>1
    <3>3. x \in Seq(AuthStates) /\ Len(x) = Len(old)
      BY <2>2, <3>2, EpisodeWritten
    <3>4. QED
      BY <2>1, <3>1, <3>3
  <2>4. db'.auth \in [Transfers -> {y \in Seq(AuthStates) : Len(y) <= MaxAuths}]
    BY <1>5, <1>14, <2>3
  <2>5. db'.plan \in [Transfers -> PlanStates]
    BY <1>5, <1>14 DEF PlanStates
  <2>6. db'.action \in [Actions -> ActionRows]
    BY <1>9, <1>14, <1>15
  <2>7. db'.media \in [Items -> MediaStates]
    BY <1>5, <1>10, <1>14 DEF MediaStates
  <2>8. db'.member \in [Items -> Classes \cup {NoClass}]
    BY <1>5, <1>11, <1>14 DEF Classes
  <2>9. db'.attributed \in SUBSET Items /\ db'.identity \in [Vendors -> IdentityRows]
    BY <1>3, <1>14, JournalTypes
  <2>10. QED
    BY <1>3, <1>14, <2>4, <2>5, <2>6, <2>7, <2>8, <2>9, JournalFromFields
<1>18. \A b \in Actions : job'[b] = IF b = a THEN NoJob ELSE job[b]
  BY <1>4, <1>5
<1>19. RemoteOk'
  <2>1. job' \in [Actions -> JobType]
    BY <1>4, <1>5, NoJobIsTyped
  <2>2. QED
    BY <1>3, <1>4, <2>1 DEF RemoteOk
<1>20. ASSUME NEW b \in Actions, b \notin ActionsOf(t), NEW i \in MembersOf[b]
       PROVE  i \notin TransferItems(t) /\ db'.member[i] = db.member[i] /\ db'.media[i] = db.media[i]
  <2>1. i \notin TransferItems(t) /\ i \in Items
    BY <1>20, OtherTransfer, MembersOfTransfer DEF ActionsOf
  <2>2. i \notin PlannedMedia(db, t)
    BY <2>1 DEF PlannedMedia
  <2>3. QED
    BY <1>10, <1>11, <1>14, <2>1, <2>2
<1>21. ASSUME NEW b \in Actions, b \in ActionsOf(t), NEW i \in MembersOf[b]
       PROVE  i \in TransferItems(t) /\ db'.member[i] = "skipped"
  <2>1. i \in TransferItems(t) /\ i \in Items
    BY <1>21, MembersOfTransfer DEF ActionsOf
  <2>2. QED
    BY <1>11, <1>14, <2>1
<1>22. StagesOk'
  <2>1. ASSUME NEW b \in Actions PROVE StageOk(b)'
    <3>1. StageOk(b) /\ sends'[b] = sends[b]
      BY <1>3, <1>4 DEF StagesOk
    <3>2. CASE b \in ActionsOf(t)
      BY <1>6, <1>15, <3>1, <3>2 DEF StageOk
    <3>3. CASE b \notin ActionsOf(t)
      BY <1>15, <1>20, <3>1, <3>3, StageFrame
    <3>4. QED
      BY <3>2, <3>3
  <2>2. QED
    BY <2>1 DEF StagesOk
<1>23. JobsOk'
  <2>1. ASSUME NEW b \in Actions PROVE JobOk(b)'
    <3>1. JobOk(b) /\ sends'[b] = sends[b]
      BY <1>3, <1>4 DEF JobsOk
    <3>2. CASE b = a
      BY <1>18, <3>1, <3>2, JobFrame DEF NoJob
    <3>3. CASE b # a /\ b \in ActionsOf(t)
      BY <1>6, <1>15, <1>18, <3>1, <3>3 DEF JobOk
    <3>4. CASE b # a /\ b \notin ActionsOf(t)
      BY <1>15, <1>18, <3>1, <3>4, JobFrame
    <3>5. QED
      BY <3>2, <3>3, <3>4
  <2>2. QED
    BY <2>1 DEF JobsOk
<1>24. ASSUME NEW b \in Actions
       PROVE  /\ Attempted(b)' <=> Attempted(b)
              /\ InFlight(b)' => InFlight(b)
              /\ NotEnded(b)' => NotEnded(b)
              /\ Untried(b)' => Untried(b)
              /\ \A v \in Vendors : SawAbsent(b, v)' => SawAbsent(b, v)
              /\ \A v \in Vendors : job'[b].seen[v] # "absent" => job[b].seen[v] # "absent"
  <2>1. Attempted(b)' <=> Attempted(b)
    BY <1>15 DEF Attempted
  <2>2. (InFlight(b)' => InFlight(b)) /\ (NotEnded(b)' => NotEnded(b))
    BY <1>15 DEF InFlight, NotEnded, InFlightStates
  <2>3. CASE b = a
    <3>1. a \in ActionsOf(t)
      BY <1>1, MembersOfTransfer
    <3>2. ~Attempted(a)
      BY <1>6, <3>1 DEF Attempted
    <3>3. QED
      BY <1>18, <2>1, <2>2, <2>3, <3>2 DEF Untried, SawAbsent, NoJob, NothingSeen
  <2>4. CASE b # a
    BY <1>18, <2>1, <2>2, <2>4 DEF Untried, SawAbsent
  <2>5. QED
    BY <2>3, <2>4
<1>25. OwnersOk'
  <2>1. IdentityOk'
    BY <1>3, <1>14 DEF OwnersOk, IdentityOk
  <2>2. ASSUME NEW b \in Actions PROVE OwnerOk(b)'
    <3>1. OwnerOk(b)
      BY <1>3 DEF OwnersOk
    <3>2. CASE b \in ActionsOf(t)
      BY <1>6, <1>15, <3>2 DEF OwnerOk, Attempted
    <3>3. CASE b \notin ActionsOf(t)
      BY <1>14, <1>20, <1>24, <3>1, <3>3, OwnerFrame
    <3>4. QED
      BY <3>2, <3>3
  <2>3. QED
    BY <2>1, <2>2 DEF OwnersOk
<1>26. EvidenceOk'
  <2>1. "skipped" # NoClass
    BY Assumed DEF Classes
  <2>2. ASSUME NEW b \in Actions, NEW i \in MembersOf[b]
        PROVE  /\ db'.member[i] = NoClass => db.member[i] = NoClass
               /\ db'.member[i] = "rejected" => db.member[i] = "rejected"
               /\ SawAbsent(b, VendorOf[i])' => SawAbsent(b, VendorOf[i])
    <3>1. SawAbsent(b, VendorOf[i])' => SawAbsent(b, VendorOf[i])
      BY <1>24, MembersOfTransfer
    <3>2. CASE b \in ActionsOf(t)
      BY <1>21, <2>1, <3>1, <3>2
    <3>3. CASE b \notin ActionsOf(t)
      BY <1>20, <3>1, <3>3
    <3>4. QED
      BY <3>2, <3>3
  <2>3. \A b \in Actions :
              /\ Attempted(b)' <=> Attempted(b)
              /\ db'.action[b].baseline = db.action[b].baseline
              /\ db'.action[b].retry = "none" => db.action[b].retry = "none"
              /\ InFlight(b)' => InFlight(b)
              /\ Untried(b)' => Untried(b)
              /\ \A i \in MembersOf[b] :
                    /\ db'.member[i] = NoClass => db.member[i] = NoClass
                    /\ db'.member[i] = "rejected" => db.member[i] = "rejected"
                    /\ (InFlight(b)' /\ db'.member[i] = NoClass /\ SawAbsent(b, VendorOf[i])') =>
                          SawAbsent(b, VendorOf[i]) \/ card[VendorOf[i]] = "absent"
              /\ \A v \in Vendors :
                    job'[b].seen[v] # "absent" => job[b].seen[v] # "absent" \/ card[v] # "absent"
    BY <1>15, <1>24, <2>2
  <2>4. \A v \in Vendors : db'.identity[v].active = Free => db.identity[v].active = Free
    BY <1>14
  <2>5. EvidenceOk /\ RemoteOk /\ RemoteOk' /\ UNCHANGED <<card, listed, stored, requests, made, outside>>
    BY <1>3, <1>4, <1>19
  <2>6. QED
    BY <2>3, <2>4, <2>5, EvidenceFrame
<1>27. PlanOk'
  <2>1. PlanOf(t)'
    BY <1>16 DEF PlanOf
  <2>2. ASSUME NEW u \in Transfers, u # t PROVE PlanOf(u)'
    <3>1. PlanOf(u) /\ db'.plan[u] = db.plan[u]
      BY <1>3, <1>16, <2>2 DEF PlanOk
    <3>2. \A b \in ActionsOf(u) : db'.action[b].state = db.action[b].state
      BY <1>15, <2>2 DEF ActionsOf
    <3>3. ASSUME NEW i \in TransferItems(u) PROVE db'.media[i] = db.media[i]
      <4>1. i \in Items /\ i \notin TransferItems(t)
        <5>1. TransferItems(u) \subseteq Items
          BY JournalAssumption, Assumed DEF TransferItems, PublishedItems, ActionsOf
        <5>2. TransferItems(u) \cap TransferItems(t) = {}
          BY <2>2, JournalAssumption
        <5>3. QED
          BY <5>1, <5>2
      <4>2. i \notin PlannedMedia(db, t)
        BY <4>1 DEF PlannedMedia
      <4>3. QED
        BY <1>10, <1>14, <4>1, <4>2
    <3>4. QED
      BY <3>1, <3>2, <3>3, PlanFrame
  <2>3. QED
    BY <2>1, <2>2 DEF PlanOk
<1>28. PICK s : s = db.rows[t]
  OBVIOUS
<1>29. /\ RowsOk(r, t)
       /\ \A i \in TransferItems(t) : r.item[i].state = "running" /\ r.item[i].action = NoAction
  <2>1. ProjectionOf(t) /\ db.plan[t] # "superseded"
    BY <1>3, <1>4 DEF ProjectionOk
  <2>2. /\ RowsOk(s, t)
        /\ \A g \in GroupTargetsOf(t) :
              s.group[g].plan = ThePlan /\ s.group[g].preparation = "succeeded"
    BY <1>28, <2>1 DEF ProjectionOf
  <2>3. r = ResetPublicationPlanning(s, ThePlan)
    BY <1>12, <1>28
  <2>4. QED
    BY <2>2, <2>3, PlanningReset
<1>30. ProjectionOk'
  <2>1. ProjectionOf(t)'
    <3>1. db'.rows[t] = r /\ db'.plan[t] = "superseded"
      BY <1>16
    <3>2. \A b \in ActionsOf(t) : db'.action[b].state = "superseded" /\ ~NotEnded(b)' /\ ~InFlight(b)'
      BY <1>6, <1>15 DEF NotEnded, InFlight, InFlightStates
    <3>3. QED
      BY <1>29, <3>1, <3>2 DEF ProjectionOf
  <2>2. ASSUME NEW u \in Transfers, u # t PROVE ProjectionOf(u)'
    <3>1. ProjectionOf(u) /\ db'.rows[u] = db.rows[u] /\ db'.plan[u] = db.plan[u]
      BY <1>3, <1>16, <2>2 DEF ProjectionOk
    <3>2. \A b \in ActionsOf(u) :
             /\ db'.action[b].state = db.action[b].state
             /\ NotEnded(b)' => NotEnded(b)
             /\ InFlight(b)' => InFlight(b)
      BY <1>15, <1>24, <2>2 DEF ActionsOf
    <3>3. QED
      BY <3>1, <3>2, ProjectionFrame
  <2>3. ASSUME NEW b \in Actions, b \in ActionsOf(t) PROVE FollowsOf(b)'
    <3>1. TransferOf[b] = t /\ db'.action[b].state = "superseded" /\ db'.rows[t] = r
      BY <1>15, <1>16, <2>3 DEF ActionsOf
    <3>2. \A i \in MembersOf[b] : r.item[i].state = "running" /\ r.item[i].action = NoAction
      BY <1>21, <1>29, <2>3
    <3>3. QED
      BY <3>1, <3>2 DEF FollowsOf
  <2>4. ASSUME NEW b \in Actions, b \notin ActionsOf(t) PROVE FollowsOf(b)'
    <3>1. FollowsOf(b) /\ TransferOf[b] \in Transfers /\ TransferOf[b] # t
      BY <1>3, <2>4, MembersOfTransfer DEF ProjectionOk, ActionsOf
    <3>2. db'.rows[TransferOf[b]] = db.rows[TransferOf[b]] /\ db'.action[b] = db.action[b]
      BY <1>15, <1>16, <2>4, <3>1
    <3>3. \A i \in MembersOf[b] : db'.member[i] = db.member[i]
      BY <1>20, <2>4
    <3>4. QED
      BY <3>1, <3>2, <3>3, FollowsFrame
  <2>5. QED
    BY <1>16, <2>1, <2>2, <2>3, <2>4 DEF ProjectionOk
<1>31. QED
  BY <1>17, <1>19, <1>22, <1>23, <1>25, <1>26, <1>27, <1>30, InvPartsNext


\* What AbortPlanAfterDispatch writes before the projection.
LEMMA AbortedIsTyped ==
    ASSUME NEW d, JournalOk(d), NEW t \in Transfers, NEW m, m = AbortedJournal(d, t)
    PROVE  /\ JournalOk(m)
           /\ m.rows = d.rows /\ m.plan = d.plan /\ m.auth = d.auth
           /\ \A v \in Vendors :
                 /\ m.identity[v].active = d.identity[v].active
                 /\ m.identity[v].state = "mutation_pending" => d.identity[v].state = "mutation_pending"
                 /\ d.identity[v].state = "blocked_uncertain" => m.identity[v] = d.identity[v]
           /\ \A i \in Items :
                 m.member[i] = IF i \in AbortedItems(d, t) THEN "unresolved" ELSE d.member[i]
           /\ \A i \in Items :
                 m.media[i] = IF i \in PlannedMedia(d, t) THEN "skipped" ELSE d.media[i]
           /\ \A b \in Actions :
                 /\ m.action[b].attempt = d.action[b].attempt
                 /\ m.action[b].retry = d.action[b].retry
                 /\ m.action[b].baseline = d.action[b].baseline
                 /\ b \in AbortedActions(d, t) => m.action[b].state = "terminal"
                 /\ b \notin AbortedActions(d, t) => m.action[b] = d.action[b]
<1>1. /\ IsJournal(d)
      /\ d.action \in [Actions -> ActionRows]
      /\ d.member \in [Items -> Classes \cup {NoClass}]
      /\ d.media \in [Items -> MediaStates]
      /\ d.identity \in [Vendors -> IdentityRows]
  BY JournalTypes
<1>2. PICK identity : identity = [v \in Vendors |->
            IF /\ \E a \in AbortedActions(d, t) : v \in VendorCodes(a)
               /\ Bindable(d.identity[v])
            THEN [d.identity[v] EXCEPT !.state = "blocked_uncertain"]
            ELSE d.identity[v]]
  OBVIOUS
<1>3. PICK member : member = [i \in Items |->
            IF i \in AbortedItems(d, t) THEN "unresolved" ELSE d.member[i]]
  OBVIOUS
<1>4. PICK media : media = [i \in Items |->
            IF i \in PlannedMedia(d, t) THEN "skipped" ELSE d.media[i]]
  OBVIOUS
<1>5. PICK action : action = [b \in Actions |->
            IF b \in AbortedActions(d, t)
            THEN [d.action[b] EXCEPT !.state = "terminal"]
            ELSE d.action[b]]
  OBVIOUS
<1>6. m = [d EXCEPT !.identity = identity, !.member = member, !.media = media, !.action = action]
  BY <1>2, <1>3, <1>4, <1>5 DEF AbortedJournal
<1>7. /\ IsJournal(m) /\ m.rows = d.rows /\ m.plan = d.plan /\ m.auth = d.auth
      /\ m.identity = identity /\ m.member = member /\ m.media = media /\ m.action = action
      /\ m.upload = d.upload /\ m.attributed = d.attributed
  BY <1>1, <1>6 DEF IsJournal
<1>8. ASSUME NEW v \in Vendors
      PROVE  /\ identity[v] \in IdentityRows
             /\ identity[v].active = d.identity[v].active
             /\ identity[v].state = "mutation_pending" => d.identity[v].state = "mutation_pending"
             /\ d.identity[v].state = "blocked_uncertain" => identity[v] = d.identity[v]
  <2>1. PICK old \in IdentityRows : old = d.identity[v]
    BY <1>1
  <2>2. identity[v] = old \/ (identity[v] = [old EXCEPT !.state = "blocked_uncertain"] /\ Bindable(old))
    BY <1>2, <2>1
  <2>3. QED
    BY <2>1, <2>2 DEF IdentityRows, IdentityStates, Bindable
<1>9. ASSUME NEW b \in Actions
      PROVE  /\ action[b] \in ActionRows
             /\ action[b].attempt = d.action[b].attempt
             /\ action[b].retry = d.action[b].retry
             /\ action[b].baseline = d.action[b].baseline
             /\ b \in AbortedActions(d, t) => action[b].state = "terminal"
             /\ b \notin AbortedActions(d, t) => action[b] = d.action[b]
  <2>1. PICK old \in ActionRows : old = d.action[b]
    BY <1>1
  <2>2. CASE b \in AbortedActions(d, t)
    <3>1. action[b] = [old EXCEPT !.state = "terminal"]
      BY <1>5, <2>1, <2>2
    <3>2. QED
      BY <2>1, <2>2, <3>1 DEF ActionRows, ActionStates, EndedStates
  <2>3. CASE b \notin AbortedActions(d, t)
    BY <1>5, <2>1, <2>3
  <2>4. QED
    BY <2>2, <2>3
<1>10. JournalOk(m)
  <2>1. identity \in [Vendors -> IdentityRows]
    BY <1>2, <1>8
  <2>2. action \in [Actions -> ActionRows]
    BY <1>5, <1>9
  <2>3. member \in [Items -> Classes \cup {NoClass}]
    BY <1>1, <1>3 DEF Classes
  <2>4. media \in [Items -> MediaStates]
    BY <1>1, <1>4 DEF MediaStates
  <2>5. QED
    BY <1>7, <2>1, <2>2, <2>3, <2>4, JournalTypes, JournalFromFields
<1>11. QED
  BY <1>3, <1>4, <1>7, <1>8, <1>9, <1>10

\* What a stopped plan leaves behind.
StoppedAs(e, d, t) ==
    /\ JournalOk(e)
    /\ e.rows = [d.rows EXCEPT ![t] =
          ApplyPublicationActionResult(d.rows[t], AbortedOutcomes(AbortedItems(d, t)),
              UNION {GroupTargets(b) : b \in AbortedActions(d, t)})]
    /\ \A u \in Transfers : e.plan[u] =
          IF u = t /\ d.plan[t] = "executing" /\ PlanActionsEnded(e, t)
          THEN "terminal" ELSE d.plan[u]
    /\ \A v \in Vendors :
          /\ e.identity[v].active = d.identity[v].active
          /\ e.identity[v].state = "mutation_pending" => d.identity[v].state = "mutation_pending"
          /\ d.identity[v].state = "blocked_uncertain" => e.identity[v] = d.identity[v]
    /\ \A i \in Items :
          e.member[i] = IF i \in AbortedItems(d, t) THEN "unresolved" ELSE d.member[i]
    /\ \A i \in Items :
          e.media[i] = IF i \in PlannedMedia(d, t) THEN "skipped" ELSE d.media[i]
    /\ \A b \in Actions :
          /\ e.action[b].attempt = d.action[b].attempt
          /\ e.action[b].retry = d.action[b].retry
          /\ e.action[b].baseline = d.action[b].baseline
          /\ b \in AbortedActions(d, t) => e.action[b].state = "terminal"
          /\ b \notin AbortedActions(d, t) => e.action[b] = d.action[b]

LEMMA StopWritten ==
    ASSUME NEW d, JournalOk(d), NEW a \in Actions, NEW n, NEW e, e = AbortPlan(d, a, n),
           NEW t, t = TransferOf[a]
    PROVE  StoppedAs(e, d, t)
<1>1. t \in Transfers
  BY MembersOfTransfer
<1>2. PICK m : m = AbortedJournal(d, t)
  OBVIOUS
<1>3. /\ JournalOk(m)
      /\ m.rows = d.rows /\ m.plan = d.plan /\ m.auth = d.auth
      /\ \A v \in Vendors :
            /\ m.identity[v].active = d.identity[v].active
            /\ m.identity[v].state = "mutation_pending" => d.identity[v].state = "mutation_pending"
            /\ d.identity[v].state = "blocked_uncertain" => m.identity[v] = d.identity[v]
      /\ \A i \in Items :
            m.member[i] = IF i \in AbortedItems(d, t) THEN "unresolved" ELSE d.member[i]
      /\ \A i \in Items :
            m.media[i] = IF i \in PlannedMedia(d, t) THEN "skipped" ELSE d.media[i]
      /\ \A b \in Actions :
            /\ m.action[b].attempt = d.action[b].attempt
            /\ m.action[b].retry = d.action[b].retry
            /\ m.action[b].baseline = d.action[b].baseline
            /\ b \in AbortedActions(d, t) => m.action[b].state = "terminal"
            /\ b \notin AbortedActions(d, t) => m.action[b] = d.action[b]
  BY <1>1, <1>2, AbortedIsTyped
<1>4. PICK p : p = ReducePlan(m, t)
  OBVIOUS
<1>5. /\ JournalOk(p)
      /\ \A u \in Transfers : p.plan[u] =
            IF u = t /\ m.plan[t] = "executing" /\ PlanActionsEnded(m, t)
            THEN "terminal" ELSE m.plan[u]
      /\ p.rows = m.rows /\ p.auth = m.auth /\ p.action = m.action /\ p.member = m.member
      /\ p.media = m.media /\ p.identity = m.identity
  <2>1. JournalOk(m)
    BY <1>3
  <2>2. QED
    BY <1>1, <1>4, <2>1, PlanReducedTo
<1>6. PICK class : class = AbortedOutcomes(AbortedItems(d, t))
  OBVIOUS
<1>7. PICK groups : groups = UNION {GroupTargets(b) : b \in AbortedActions(d, t)}
  OBVIOUS
<1>8. PICK rows : rows = [p.rows EXCEPT ![t] = ApplyPublicationActionResult(p.rows[t], class, groups)]
  OBVIOUS
<1>9. PICK q : q = [p EXCEPT !.rows[t] = ApplyPublicationActionResult(@, class, groups)]
  OBVIOUS
<1>10. q = [p EXCEPT !.rows = rows]
  BY <1>8, <1>9
<1>11. IsJournal(p)
  BY <1>5, JournalTypes
<1>12. /\ IsJournal(q) /\ q.rows = rows /\ q.plan = p.plan /\ q.auth = p.auth
       /\ q.action = p.action /\ q.member = p.member /\ q.media = p.media
       /\ q.upload = p.upload /\ q.attributed = p.attributed /\ q.identity = p.identity
  BY <1>10, <1>11 DEF IsJournal
<1>13. JournalOk(q)
  BY <1>5, <1>12, JournalTypes, JournalFromFields
<1>14. e = CloseAuthorization(q, t, n)
  BY <1>2, <1>4, <1>6, <1>7, <1>9 DEF AbortPlan
<1>15. /\ JournalOk(e)
       /\ e.rows = q.rows /\ e.plan = q.plan /\ e.action = q.action /\ e.member = q.member
       /\ e.media = q.media /\ e.identity = q.identity
  BY <1>1, <1>13, <1>14, AuthorizationClosed
<1>16. e.action = m.action /\ e.member = m.member /\ e.media = m.media /\ e.identity = m.identity
  BY <1>5, <1>12, <1>15
<1>17. PlanActionsEnded(e, t) <=> PlanActionsEnded(m, t)
  BY <1>16 DEF PlanActionsEnded
<1>18. \A u \in Transfers : e.plan[u] =
          IF u = t /\ d.plan[t] = "executing" /\ PlanActionsEnded(e, t)
          THEN "terminal" ELSE d.plan[u]
  BY <1>3, <1>5, <1>12, <1>15, <1>17
<1>19. e.rows = [d.rows EXCEPT ![t] = ApplyPublicationActionResult(d.rows[t], class, groups)]
  BY <1>3, <1>5, <1>8, <1>12, <1>15
<1>20. QED
  BY <1>3, <1>6, <1>7, <1>15, <1>16, <1>18, <1>19 DEF StoppedAs


LEMMA StopPlanKeepsInv ==
    ASSUME Inv, NEW a \in Actions, StopPlan(a)
    PROVE  Inv'
<1>1. PICK t \in Transfers : t = TransferOf[a]
  BY MembersOfTransfer
<1>2. /\ JournalOk(db) /\ RemoteOk /\ StagesOk /\ JobsOk /\ OwnersOk
      /\ EvidenceOk /\ PlanOk /\ ProjectionOk /\ job \in [Actions -> JobType]
      /\ db.identity \in [Vendors -> IdentityRows]
  BY InvParts, JournalTypes DEF RemoteOk
<1>3. /\ db.action[a].state = "planned"
      /\ db' = AbortPlan(db, a, job[a].epoch)
      /\ job' = [job EXCEPT ![a] = NoJob]
      /\ UNCHANGED <<due, stored, sends, crashes, card, listed, requests, made, outside>>
  BY DEF StopPlan, AbortPlanOk, EndJob, remote
<1>4. PICK A : A = AbortedActions(db, t)
  OBVIOUS
<1>5. PICK its : its = AbortedItems(db, t)
  OBVIOUS
<1>6. PICK class : class = AbortedOutcomes(its)
  OBVIOUS
<1>7. PICK skip : skip = UNION {GroupTargets(b) : b \in A}
  OBVIOUS
<1>8. PICK r : r = ApplyPublicationActionResult(db.rows[t], class, skip)
  OBVIOUS
<1>9. StoppedAs(db', db, t)
  BY <1>1, <1>2, <1>3, StopWritten
<1>10. /\ JournalOk(db')
       /\ db'.rows = [db.rows EXCEPT ![t] = r]
       /\ \A u \in Transfers : db'.plan[u] =
             IF u = t /\ db.plan[t] = "executing" /\ PlanActionsEnded(db', t)
             THEN "terminal" ELSE db.plan[u]
  BY <1>4, <1>5, <1>6, <1>7, <1>8, <1>9 DEF StoppedAs
<1>11. /\ \A v \in Vendors :
             /\ db'.identity[v].active = db.identity[v].active
             /\ db'.identity[v].state = "mutation_pending" => db.identity[v].state = "mutation_pending"
             /\ db.identity[v].state = "blocked_uncertain" => db'.identity[v] = db.identity[v]
       /\ \A i \in Items : db'.member[i] = IF i \in its THEN "unresolved" ELSE db.member[i]
       /\ \A i \in Items :
             db'.media[i] = IF i \in PlannedMedia(db, t) THEN "skipped" ELSE db.media[i]
  BY <1>5, <1>9 DEF StoppedAs
<1>12. \A b \in Actions :
          /\ db'.action[b].attempt = db.action[b].attempt
          /\ db'.action[b].retry = db.action[b].retry
          /\ db'.action[b].baseline = db.action[b].baseline
          /\ b \in A => db'.action[b].state = "terminal"
          /\ b \notin A => db'.action[b] = db.action[b]
  BY <1>4, <1>9 DEF StoppedAs
<1>13. /\ A \subseteq ActionsOf(t) /\ A \subseteq Actions /\ a \in A
       /\ \A b \in A :
             /\ db.action[b].state = "planned" /\ db.action[b].attempt = "none"
             /\ db.action[b].retry # "open"
  <2>1. A \subseteq ActionsOf(t) /\ A \subseteq Actions /\ \A b \in A : db.action[b].state = "planned"
    BY <1>4 DEF AbortedActions, PlannedActions, ActionsOf
  <2>2. a \in A
    BY <1>1, <1>3, <1>4, MembersOfTransfer DEF AbortedActions, PlannedActions
  <2>3. \A b \in A : StageOk(b)
    BY <1>2, <2>1 DEF StagesOk
  <2>4. QED
    BY <2>1, <2>2, <2>3 DEF StageOk
<1>14. \A i : i \in its <=> \E b \in A : i \in MembersOf[b]
  BY <1>4, <1>5 DEF AbortedItems
<1>15. \A b \in Actions : job'[b] = IF b = a THEN NoJob ELSE job[b]
  BY <1>2, <1>3
<1>16. RemoteOk'
  <2>1. job' \in [Actions -> JobType]
    BY <1>2, <1>3, NoJobIsTyped
  <2>2. QED
    BY <1>2, <1>3, <2>1 DEF RemoteOk
<1>17. ASSUME NEW b \in Actions, NEW i \in MembersOf[b]
       PROVE  /\ b \in A => i \in its /\ db'.member[i] = "unresolved"
              /\ b \notin A => db'.member[i] = db.member[i]
  <2>1. i \in Items
    BY MembersOfTransfer
  <2>2. b \in A => i \in its
    BY <1>14
  <2>3. ASSUME b \notin A PROVE i \notin its
    BY <1>13, <1>14, <2>3, OneOwner
  <2>4. QED
    BY <1>11, <2>1, <2>2, <2>3
<1>18. StagesOk'
  <2>1. ASSUME NEW b \in Actions PROVE StageOk(b)'
    <3>1. StageOk(b) /\ sends'[b] = sends[b]
      BY <1>2, <1>3 DEF StagesOk
    <3>2. CASE b \in A
      BY <1>12, <1>13, <3>1, <3>2 DEF StageOk
    <3>3. CASE b \notin A
      BY <1>12, <1>17, <3>1, <3>3, StageFrame
    <3>4. QED
      BY <3>2, <3>3
  <2>2. QED
    BY <2>1 DEF StagesOk
<1>19. JobsOk'
  <2>1. ASSUME NEW b \in Actions PROVE JobOk(b)'
    <3>1. JobOk(b) /\ sends'[b] = sends[b]
      BY <1>2, <1>3 DEF JobsOk
    <3>2. CASE b = a
      BY <1>15, <3>1, <3>2, JobFrame DEF NoJob
    <3>3. CASE b # a /\ b \in A
      BY <1>12, <1>13, <1>15, <3>1, <3>3 DEF JobOk
    <3>4. CASE b # a /\ b \notin A
      BY <1>12, <1>15, <3>1, <3>4, JobFrame
    <3>5. QED
      BY <3>2, <3>3, <3>4
  <2>2. QED
    BY <2>1 DEF JobsOk
<1>20. ASSUME NEW b \in Actions
       PROVE  /\ Attempted(b)' <=> Attempted(b)
              /\ InFlight(b)' => InFlight(b)
              /\ NotEnded(b)' => NotEnded(b)
              /\ Untried(b)' => Untried(b)
              /\ \A v \in Vendors : SawAbsent(b, v)' => SawAbsent(b, v)
              /\ \A v \in Vendors : job'[b].seen[v] # "absent" => job[b].seen[v] # "absent"
  <2>1. Attempted(b)' <=> Attempted(b)
    BY <1>12 DEF Attempted
  <2>2. (InFlight(b)' => InFlight(b)) /\ (NotEnded(b)' => NotEnded(b))
    BY <1>12 DEF InFlight, NotEnded, InFlightStates
  <2>3. CASE b = a
    <3>1. ~Attempted(a)
      BY <1>13 DEF Attempted
    <3>2. QED
      BY <1>15, <2>1, <2>2, <2>3, <3>1 DEF Untried, SawAbsent, NoJob, NothingSeen
  <2>4. CASE b # a
    BY <1>15, <2>1, <2>2, <2>4 DEF Untried, SawAbsent
  <2>5. QED
    BY <2>3, <2>4
<1>21. OwnersOk'
  <2>1. IdentityOk'
    BY <1>2, <1>11 DEF OwnersOk, IdentityOk
  <2>2. ASSUME NEW b \in Actions PROVE OwnerOk(b)'
    <3>1. OwnerOk(b)
      BY <1>2 DEF OwnersOk
    <3>2. CASE b \in A
      BY <1>12, <1>13, <3>2 DEF OwnerOk, Attempted
    <3>3. CASE b \notin A
      <4>1. ASSUME NEW i \in MembersOf[b]
            PROVE  /\ db'.member[i] = db.member[i]
                   /\ db'.identity[VendorOf[i]].active = b \/ db.identity[VendorOf[i]].active # b
                   /\ db.identity[VendorOf[i]] = [state |-> "blocked_uncertain", active |-> b] =>
                         db'.identity[VendorOf[i]] = [state |-> "blocked_uncertain", active |-> b]
        BY <1>11, <1>17, <3>3, MembersOfTransfer
      <4>2. QED
        BY <1>20, <3>1, <4>1, OwnerFrame
    <3>4. QED
      BY <3>2, <3>3
  <2>3. QED
    BY <2>1, <2>2 DEF OwnersOk
<1>22. EvidenceOk'
  <2>1. "unresolved" # NoClass
    BY Assumed DEF Classes
  <2>2. ASSUME NEW b \in Actions, NEW i \in MembersOf[b]
        PROVE  /\ db'.member[i] = NoClass => db.member[i] = NoClass
               /\ db'.member[i] = "rejected" => db.member[i] = "rejected"
               /\ SawAbsent(b, VendorOf[i])' => SawAbsent(b, VendorOf[i])
    <3>1. SawAbsent(b, VendorOf[i])' => SawAbsent(b, VendorOf[i])
      BY <1>20, MembersOfTransfer
    <3>2. QED
      BY <1>17, <2>1, <3>1
  <2>3. \A b \in Actions :
              /\ Attempted(b)' <=> Attempted(b)
              /\ db'.action[b].baseline = db.action[b].baseline
              /\ db'.action[b].retry = "none" => db.action[b].retry = "none"
              /\ InFlight(b)' => InFlight(b)
              /\ Untried(b)' => Untried(b)
              /\ \A i \in MembersOf[b] :
                    /\ db'.member[i] = NoClass => db.member[i] = NoClass
                    /\ db'.member[i] = "rejected" => db.member[i] = "rejected"
                    /\ (InFlight(b)' /\ db'.member[i] = NoClass /\ SawAbsent(b, VendorOf[i])') =>
                          SawAbsent(b, VendorOf[i]) \/ card[VendorOf[i]] = "absent"
              /\ \A v \in Vendors :
                    job'[b].seen[v] # "absent" => job[b].seen[v] # "absent" \/ card[v] # "absent"
    BY <1>12, <1>20, <2>2
  <2>4. \A v \in Vendors : db'.identity[v].active = Free => db.identity[v].active = Free
    BY <1>11
  <2>5. EvidenceOk /\ RemoteOk /\ RemoteOk' /\ UNCHANGED <<card, listed, stored, requests, made, outside>>
    BY <1>2, <1>3, <1>16
  <2>6. QED
    BY <2>3, <2>4, <2>5, EvidenceFrame
<1>23. PlanOk' /\ \A u \in Transfers : db'.plan[u] = "superseded" <=> db.plan[u] = "superseded"
  <2>1. \A b \in Actions : TransferOf[b] # t => db'.action[b].state = db.action[b].state
    BY <1>12, <1>13 DEF ActionsOf
  <2>2. ASSUME NEW u \in Transfers, u # t, NEW i \in TransferItems(u)
        PROVE  db'.media[i] \in OpenMediaStates <=> db.media[i] \in OpenMediaStates
    <3>1. i \in Items /\ i \notin TransferItems(t)
      <4>1. TransferItems(u) \subseteq Items
        BY JournalAssumption, Assumed DEF TransferItems, PublishedItems, ActionsOf
      <4>2. TransferItems(u) \cap TransferItems(t) = {}
        BY <2>2, JournalAssumption
      <4>3. QED
        BY <4>1, <4>2
    <3>2. i \notin PlannedMedia(db, t)
      BY <3>1 DEF PlannedMedia
    <3>3. QED
      BY <1>11, <3>1, <3>2
  <2>3. a \in ActionsOf(t) /\ NotEnded(a)
    BY <1>1, <1>3, MembersOfTransfer DEF NotEnded
  <2>4. QED
    BY <1>10, <2>1, <2>2, <2>3, PlanReduced
<1>24. ProjectionOk'
  <2>1. class \in [its -> Classes] /\ \A i \in its : class[i] = "unresolved"
    BY <1>6 DEF AbortedOutcomes, Classes
  <2>2. skip \subseteq GroupsOf(its)
    BY <1>7, <1>14 DEF GroupsOf, GroupTargets
  <2>3. A \subseteq ActionsOf(t) /\ A # {} /\ \A b \in A : NotEnded(b)
    BY <1>13 DEF NotEnded
  <2>4. \A b \in Actions :
           /\ b \in A => db'.action[b].state = "terminal"
           /\ b \notin A => db'.action[b].state = db.action[b].state
    BY <1>12
  <2>5. \A b \in Actions : \A i \in MembersOf[b] :
           /\ b \in A => db'.member[i] = class[i]
           /\ b \notin A => db'.member[i] = db.member[i]
    BY <1>17, <2>1
  <2>6. ResultsWritten(t, A, its, class, skip, r)
    BY <1>8, <1>10, <1>14, <1>23, <2>1, <2>2, <2>3, <2>4, <2>5 DEF ResultsWritten
  <2>7. QED
    BY <2>6, ResultsProject
<1>25. QED
  BY <1>10, <1>16, <1>18, <1>19, <1>21, <1>22, <1>23, <1>24, InvPartsNext


-----------------------------------------------------------------------------
(* The invariant holds of every behaviour. *)

\* The action of a member is the one that publishes it.
LEMMA ActionOfMember ==
    ASSUME NEW a \in Actions, NEW i \in MembersOf[a]
    PROVE  ActionOf(i) = a
<1>1. \A b \in Actions : i \in MembersOf[b] => b = a
  BY OneOwner
<1>2. ActionOf(i) \in Actions /\ i \in MembersOf[ActionOf(i)]
  BY DEF ActionOf
<1>3. QED
  BY <1>1, <1>2

\* The projection of a plan that has just been applied.
LEMMA PlannedRowsOk ==
    ASSUME NEW t \in Transfers, NEW s, s = PlannedRows(t)
    PROVE  /\ RowsOk(s, t)
           /\ s.transfer.outcome = "running" /\ s.transfer.phase = "awaiting_authorization"
           /\ \A g \in GroupTargetsOf(t) :
                 s.group[g].plan = ThePlan /\ s.group[g].preparation = "succeeded"
           /\ \A i \in TransferItems(t) \ PublishedItems(t) : s.item[i].state = "terminal"
           /\ \A a \in ActionsOf(t) : \A g \in GroupTargets(a) :
                 s.group[g].overall = "running" /\ s.group[g].media \in {"running", "skipped"}
           /\ \A a \in ActionsOf(t) : \A i \in MembersOf[a] :
                 s.item[i].state = "running" /\ s.item[i].action = a
<1>1. PICK group : group = [g \in GroupTargetsOf(t) |->
          PlannedGroup([InitialGroup EXCEPT !.preparation = "succeeded"],
                       PlannedStatus(t, g), \E i \in MediaItems : GroupOf[i] = g, ThePlan)]
  OBVIOUS
<1>2. PICK item : item = [i \in TransferItems(t) |->
          PlannedItem([InitialItem EXCEPT !.state = "running"],
                      IF i \in PublishedItems(t) THEN ActionOf(i) ELSE NoAction, "skipped")]
  OBVIOUS
<1>3. PICK head : head = [phase |-> "awaiting_authorization", outcome |-> "running", attention |-> FALSE]
  OBVIOUS
<1>4. s = [transfer |-> head, group |-> group, item |-> item]
  BY <1>1, <1>2, <1>3 DEF PlannedRows, GroupTargetsOf
<1>5. head \in TransferRows
  BY <1>3 DEF TransferRows
<1>6. ASSUME NEW g \in GroupTargetsOf(t)
      PROVE  /\ group[g] \in GroupRows
             /\ group[g].plan = ThePlan /\ group[g].preparation = "succeeded"
             /\ group[g].media \in {"running", "skipped"}
             /\ PlannedStatus(t, g) = "running" => group[g].overall = "running"
  <2>1. PICK status : status = PlannedStatus(t, g)
    OBVIOUS
  <2>2. status \in {"running", "skipped"}
    BY <2>1 DEF PlannedStatus
  <2>3. PICK media \in BOOLEAN : media = \E i \in MediaItems : GroupOf[i] = g
    OBVIOUS
  <2>4. group[g] = [preparation |-> "succeeded", publication |-> status,
                    media |-> IF media THEN "running" ELSE "skipped",
                    overall |-> IF media THEN "running" ELSE status,
                    attention |-> FALSE, plan |-> ThePlan]
    BY <1>1, <2>1, <2>3 DEF PlannedGroup, InitialGroup
  <2>5. QED
    BY <2>1, <2>2, <2>4 DEF GroupRows, GroupColumn
<1>7. ASSUME NEW i \in TransferItems(t)
      PROVE  /\ item[i] \in ItemRows
             /\ i \notin PublishedItems(t) => item[i].state = "terminal"
  <2>1. CASE i \notin PublishedItems(t)
    <3>1. item[i] = [state |-> "terminal", class |-> "skipped", action |-> NoAction, closed |-> FALSE]
      BY <1>2, <2>1 DEF PlannedItem, EndedItem, InitialItem
    <3>2. QED
      BY <3>1 DEF ItemRows, Classes
  <2>2. CASE i \in PublishedItems(t)
    <3>1. PICK a \in Actions : i \in MembersOf[a]
      BY <2>2 DEF PublishedItems, ActionsOf
    <3>2. ActionOf(i) = a /\ a # NoAction
      BY <3>1, ActionOfMember, Assumed
    <3>3. item[i] = [state |-> "running", class |-> NoClass, action |-> a, closed |-> FALSE]
      BY <1>2, <2>2, <3>2 DEF PlannedItem, InitialItem
    <3>4. QED
      BY <2>2, <3>3 DEF ItemRows
  <2>3. QED
    BY <2>1, <2>2
<1>8. ASSUME NEW a \in ActionsOf(t), NEW i \in MembersOf[a]
      PROVE  item[i].state = "running" /\ item[i].action = a
  <2>1. a \in Actions /\ i \in PublishedItems(t) /\ i \in TransferItems(t)
    BY DEF ActionsOf, PublishedItems, TransferItems
  <2>2. ActionOf(i) = a /\ a # NoAction
    BY <2>1, ActionOfMember, Assumed
  <2>3. item[i] = [state |-> "running", class |-> NoClass, action |-> a, closed |-> FALSE]
    BY <1>2, <2>1, <2>2 DEF PlannedItem, InitialItem
  <2>4. QED
    BY <2>3
<1>9. ASSUME NEW a \in ActionsOf(t), NEW g \in GroupTargets(a)
      PROVE  group[g].overall = "running" /\ group[g].media \in {"running", "skipped"}
  <2>1. PICK i \in MembersOf[a] : g = GroupOf[i]
    BY DEF GroupTargets
  <2>2. i \in PublishedItems(t) /\ i \in TransferItems(t)
    BY DEF PublishedItems, TransferItems
  <2>3. g \in GroupTargetsOf(t) /\ PlannedStatus(t, g) = "running"
    BY <2>1, <2>2 DEF GroupTargetsOf, PlannedStatus
  <2>4. QED
    BY <1>6, <2>3
<1>10. group \in [GroupTargetsOf(t) -> GroupRows] /\ item \in [TransferItems(t) -> ItemRows]
  BY <1>1, <1>2, <1>6, <1>7
<1>11. QED
  BY <1>3, <1>4, <1>5, <1>6, <1>7, <1>8, <1>9, <1>10 DEF RowsOk

LEMMA InitInv == Init => Inv
<1> SUFFICES ASSUME Init PROVE Inv
  OBVIOUS
<1>1. /\ db = PlannedJournal
      /\ due = [a \in Actions |-> {}] /\ job = [a \in Actions |-> NoJob]
      /\ card = NothingSeen /\ listed = [v \in Vendors |-> 0]
      /\ stored = [v \in Vendors |-> 0] /\ requests = {} /\ made = {}
      /\ outside = [v \in Vendors |-> IF v \in OtherUploads THEN "open" ELSE "none"]
      /\ sends = [a \in Actions |-> 0]
  BY DEF Init
<1>2. /\ IsJournal(db)
      /\ db.rows = [t \in Transfers |-> PlannedRows(t)]
      /\ db.plan = [t \in Transfers |-> "awaiting_authorization"]
      /\ db.auth = [t \in Transfers |-> <<>>]
      /\ db.action = [a \in Actions |->
            [state |-> "planned", auth |-> 0, attempt |-> "none",
             retry |-> "none", baseline |-> [v \in Vendors |-> 0]]]
      /\ db.member = [i \in Items |-> NoClass]
      /\ db.media = [i \in Items |-> IF i \in MediaItems THEN "planned" ELSE "none"]
      /\ db.upload = [i \in Items |-> NoAttempt]
      /\ db.attributed = {}
      /\ db.identity = [v \in Vendors |->
            [state |-> IF v \in ExistingVendors THEN "remote_present" ELSE "remote_missing",
             active |-> Free]]
  BY <1>1 DEF PlannedJournal, IsJournal
<1>3. \A a \in Actions :
         /\ db.action[a].state = "planned" /\ db.action[a].attempt = "none"
         /\ db.action[a].retry = "none" /\ sends[a] = 0 /\ job[a] = NoJob
         /\ ~Attempted(a) /\ ~InFlight(a)
         /\ db.action[a] \in ActionRows
  <2>1. MaxAuths \in Nat
    BY InstanceAssumption
  <2>2. [state |-> "planned", auth |-> 0, attempt |-> "none",
         retry |-> "none", baseline |-> [v \in Vendors |-> 0]] \in ActionRows
    BY <2>1 DEF ActionRows, ActionStates, AttemptStates
  <2>3. QED
    BY <1>1, <1>2, <2>2 DEF Attempted, InFlight, InFlightStates
<1>4. JournalOk(db)
  <2>1. <<>> \in Seq(AuthStates) /\ Len(<<>>) = 0 /\ MaxAuths \in Nat
    BY InstanceAssumption
  <2>2. db.auth \in [Transfers -> {s \in Seq(AuthStates) : Len(s) <= MaxAuths}]
    BY <1>2, <2>1
  <2>3. db.plan \in [Transfers -> PlanStates] /\ db.media \in [Items -> MediaStates]
        /\ db.member \in [Items -> Classes \cup {NoClass}]
    BY <1>2 DEF PlanStates, MediaStates
  <2>4. db.action \in [Actions -> ActionRows]
    BY <1>2, <1>3
  <2>5. db.identity \in [Vendors -> IdentityRows]
    BY <1>2 DEF IdentityRows, IdentityStates
  <2>6. QED
    BY <1>2, <2>2, <2>3, <2>4, <2>5 DEF JournalOk
<1>5. RemoteOk
  BY <1>1, NoJobIsTyped DEF RemoteOk, NothingSeen, CardStates
<1>6. StagesOk
  <2>1. ASSUME NEW a \in Actions PROVE StageOk(a)
    <3>1. PendingMembers(db, a) = MembersOf[a]
      BY <1>2, MembersOfTransfer DEF PendingMembers
    <3>2. QED
      BY <1>3, <3>1 DEF StageOk
  <2>2. QED
    BY <2>1 DEF StagesOk
<1>7. JobsOk
  BY <1>3 DEF JobsOk, JobOk, NoJob
<1>8. OwnersOk
  BY <1>2, <1>3 DEF OwnersOk, OwnerOk, IdentityOk
<1>9. EvidenceOk
  <2>1. \A v \in Vendors : VendorEvidence(v)
    <3>1. \A v \in Vendors : listed[v] = stored[v] /\ listed[v] \in Nat
      BY <1>1
    <3>2. \A a \in Actions : \A v \in Vendors : job[a].seen[v] = "absent"
      BY <1>3 DEF NoJob, NothingSeen
    <3>3. QED
      BY <1>1, <1>3, <3>1, <3>2 DEF VendorEvidence, NoRequestsFor
  <2>2. \A a \in Actions : NothingOf(a)
    BY <1>1 DEF NothingOf
  <2>3. \A a \in Actions : \A i \in MembersOf[a] : EvidenceOf(a, i)
    BY <1>3 DEF EvidenceOf
  <2>4. \A a \in Actions : \A i \in MembersOf[a] : RejectionOf(a, i)
    BY <1>1 DEF RejectionOf
  <2>5. QED
    BY <1>1, <2>1, <2>2, <2>3, <2>4 DEF EvidenceOk
<1>10. PlanOk
  BY <1>2 DEF PlanOk, PlanOf
<1>11. ProjectionOk
  <2>1. ASSUME NEW t \in Transfers PROVE ProjectionOf(t)
    <3>1. PICK s : s = db.rows[t]
      OBVIOUS
    <3>2. s = PlannedRows(t)
      BY <1>2, <3>1
    <3>3. /\ RowsOk(s, t)
          /\ s.transfer.outcome = "running" /\ s.transfer.phase = "awaiting_authorization"
          /\ \A g \in GroupTargetsOf(t) :
                s.group[g].plan = ThePlan /\ s.group[g].preparation = "succeeded"
          /\ \A i \in TransferItems(t) \ PublishedItems(t) : s.item[i].state = "terminal"
          /\ \A a \in ActionsOf(t) : \A g \in GroupTargets(a) :
                s.group[g].overall = "running" /\ s.group[g].media \in {"running", "skipped"}
      BY <3>2, PlannedRowsOk
    <3>4. /\ db.plan[t] = "awaiting_authorization"
          /\ \A a \in ActionsOf(t) : db.action[a].state = "planned" /\ ~InFlight(a)
      BY <1>2, <1>3 DEF ActionsOf
    <3>5. QED
      BY <3>1, <3>3, <3>4 DEF ProjectionOf
  <2>2. ASSUME NEW a \in Actions PROVE FollowsOf(a)
    <3>1. PICK t \in Transfers : t = TransferOf[a]
      BY MembersOfTransfer
    <3>2. a \in ActionsOf(t) /\ db.rows[t] = PlannedRows(t)
      BY <1>2, <3>1, MembersOfTransfer
    <3>3. \A i \in MembersOf[a] : db.rows[t].item[i].state = "running" /\ db.rows[t].item[i].action = a
      BY <3>2, PlannedRowsOk
    <3>4. db.action[a].state = "planned"
      BY <1>3
    <3>5. QED
      BY <3>1, <3>3, <3>4 DEF FollowsOf
  <2>3. db.rows = [t \in Transfers |-> db.rows[t]]
    BY <1>2
  <2>4. QED
    BY <2>1, <2>2, <2>3 DEF ProjectionOk
<1>12. QED
  BY <1>4, <1>5, <1>6, <1>7, <1>8, <1>9, <1>10, <1>11 DEF Inv


LEMMA StutterKeepsInv == Inv /\ UNCHANGED vars => Inv'
<1> SUFFICES ASSUME Inv, UNCHANGED vars PROVE Inv'
  OBVIOUS
<1>1. /\ UNCHANGED <<db, due, stored, sends, card, listed, requests, made, outside>> /\ job' = job
      /\ due' \in [Actions -> SUBSET {"retry", "deadline"}] /\ job' \in [Actions -> JobType]
      /\ JournalOk(db)'
  BY InvParts DEF vars, RemoteOk
<1>2. QED
  BY <1>1, JobStep

\* One step per action of the module.
LEMMA NextKeepsInv == Inv /\ [Next]_vars => Inv'
<1> SUFFICES ASSUME Inv, Next PROVE Inv'
  BY StutterKeepsInv
<1>1. ASSUME NEW t \in Transfers, AuthorizePlan(t) \/ AuthorizationRunsOut(t) PROVE Inv'
  BY <1>1, AuthorizePlanKeepsInv, RunsOutKeepsInv
<1>2. ASSUME NEW a \in Actions, Dispatch(a) PROVE Inv'
  BY <1>2, ObserveDispatchKeepsInv, BeginAttemptKeepsInv, StopExpiredKeepsInv,
     WithdrawPlanKeepsInv, StopPlanKeepsInv DEF Dispatch
<1>3. ASSUME NEW a \in Actions, LoseAnswer(a) \/ GiveUp(a) PROVE Inv'
  BY <1>3, EndJobKeepsInv DEF LoseAnswer, GiveUp, remote
<1>4. ASSUME NEW a \in Actions, Deliver(a) PROVE Inv'
  BY <1>3, <1>4, SendKeepsInv, RecordAttemptKeepsInv, RecordRetryKeepsInv DEF Deliver
<1>5. ASSUME NEW a \in Actions, Reconcile(a) PROVE Inv'
  BY <1>5, FinishInterruptedRetryKeepsInv, BeginRetryKeepsInv, PollKeepsInv,
     FinishReconciliationKeepsInv DEF Reconcile
<1>6. ASSUME NEW a \in Actions, RecordInterrupted(a) PROVE Inv'
  BY <1>6, RecordInterruptedKeepsInv
<1>7. ASSUME NEW a \in Actions, DeadlinePasses(a) \/ RetryFallsDue(a) PROVE Inv'
  BY <1>7, TimerKeepsInv
<1>8. ASSUME NEW t \in Transfers, NEW candidates \in SUBSET ActionsOf(t) \ {{}},
             ObserveReconciling(t, candidates)
      PROVE  Inv'
  <2>1. PICK chosen \in SUBSET ActionsOf(t) : chosen = candidates
    BY DEF ObserveReconciling
  <2>2. QED
    BY <1>8, <2>1, ObserveReconcilingKeepsInv
<1>9. ASSUME StoreErrors PROVE Inv'
  BY <1>9, StoreErrorsKeepsInv
<1>10. ASSUME NEW r \in requests, Process(r) PROVE Inv'
  BY <1>10, ProcessKeepsInv
<1>11. ASSUME NEW v \in SellerVendors, SellerChanges(v) PROVE Inv'
  BY <1>11, SellerChangesKeepsInv
<1>12. ASSUME NEW v \in SharedVendors, NEW state \in {"remote_missing", "remote_present"},
              PlanElsewhere(v, state)
       PROVE  Inv'
  BY <1>12, PlanElsewhereKeepsInv
<1>13. ASSUME Crash PROVE Inv'
  BY <1>13, EndJobKeepsInv DEF Crash, remote
<1>14. ASSUME NEW v \in OtherUploads, OtherUploadRefused(v) PROVE Inv'
  BY <1>14, OtherUploadRefusedKeepsInv
<1>15. QED
  BY <1>1, <1>2, <1>3, <1>4, <1>5, <1>6, <1>7, <1>8, <1>9, <1>10, <1>11, <1>12, <1>13,
     <1>14 DEF Next

\* The inductive invariant holds in every reachable state, for every plan, every
\* number of transfers, crashes and authorizations.
THEOREM InvHolds == Spec => []Inv
<1>1. QED
  BY InitInv, NextKeepsInv, PTL DEF Spec

-----------------------------------------------------------------------------
(* What follows for the properties of the module. *)

\* The journal keeps to its columns, and no call to Wildberries is made that it
\* does not hold, whenever the process crashes or an answer is lost.
THEOREM JournalStaysSound == Spec => []JournalIsSound
<1>1. Inv => TypeOK
  <2> SUFFICES ASSUME Inv PROVE TypeOK
    OBVIOUS
  <2>1. /\ db.plan \in [Transfers -> PlanStates]
        /\ db.auth \in [Transfers -> {s \in Seq(AuthStates) : Len(s) <= MaxAuths}]
        /\ db.action \in [Actions -> ActionRows]
        /\ db.member \in [Items -> Classes \cup {NoClass}]
        /\ db.media \in [Items -> MediaStates]
        /\ db.identity \in [Vendors -> IdentityRows]
        /\ job \in [Actions -> JobType] /\ card \in [Vendors -> CardStates]
        /\ made \subseteq Actions \X Vendors /\ IdentityOk
        /\ outside \in [Vendors -> {"none", "open", "listed", "counted"}]
    BY InvParts, JournalTypes DEF RemoteOk, OwnersOk
  <2>2. ASSUME NEW t \in Transfers
        PROVE  /\ db.plan[t] \in {"awaiting_authorization", "executing", "terminal", "superseded"}
               /\ \A e \in DOMAIN db.auth[t] : db.auth[t][e] \in AuthStates
    <3>1. PICK s \in Seq(AuthStates) : s = db.auth[t]
      BY <2>1
    <3>2. \A e \in DOMAIN s : s[e] \in AuthStates
      OBVIOUS
    <3>3. QED
      BY <2>1, <3>1, <3>2 DEF PlanStates
  <2>3. ASSUME NEW a \in Actions
        PROVE  /\ db.action[a].state \in {"planned"} \cup InFlightStates \cup EndedStates
               /\ db.action[a].attempt \in {"none", "open"} \cup Answers
               /\ db.action[a].retry \in {"none", "open"} \cup Answers
               /\ job[a] \in JobType
    BY <2>1 DEF ActionRows, ActionStates, AttemptStates
  <2>4. ASSUME NEW v \in Vendors
        PROVE  /\ db.identity[v].state \in {"remote_missing", "remote_present", "rejected",
                                            "mutation_pending", "blocked_uncertain"}
               /\ db.identity[v].state = "mutation_pending" => db.identity[v].active \in Actions
    BY <2>1 DEF IdentityRows, IdentityStates, IdentityOk
  <2>5. db.media \in [Items -> {"none", "planned", "skipped", "superseded"}]
    BY <2>1 DEF MediaStates
  <2>6. QED
    BY <2>1, <2>2, <2>3, <2>4, <2>5 DEF TypeOK
<1>2. Inv => SendsAreJournaled
  <2> SUFFICES ASSUME Inv, NEW a \in Actions
               PROVE  /\ sends[a] <= 2
                      /\ sends[a] >= 1 => db.action[a].attempt # "none"
                      /\ sends[a] = 2 => db.action[a].attempt = "empty" /\ db.action[a].retry # "none"
    BY DEF SendsAreJournaled
  <2>1. StageOk(a) /\ sends[a] \in Nat
    BY InvParts DEF StagesOk, RemoteOk
  <2>2. QED
    BY <2>1 DEF StageOk
<1>3. QED
  BY <1>1, <1>2, InvHolds, PTL DEF JournalIsSound

\* Whatever other plans and transfers do, finishIdentity finds the identities of
\* the members whose outcome is open.
LEMMA BoundByInv == Inv => IdentityIsBound
<1> SUFFICES ASSUME Inv, NEW a \in Actions, InFlight(a), NEW i \in PendingMembers(db, a)
             PROVE  db.identity[VendorOf[i]].active = a
  BY DEF IdentityIsBound
<1>1. StageOk(a) /\ OwnerOk(a)
  BY InvParts DEF StagesOk, OwnersOk
<1>2. Attempted(a)
  BY <1>1 DEF StageOk, Attempted, InFlight, InFlightStates
<1>3. QED
  BY <1>1, <1>2 DEF OwnerOk, PendingMembers

\* Whatever other plans and transfers do, finishIdentity finds the identities of
\* the members whose outcome is open.
THEOREM IdentityStaysBound == Spec => []IdentityIsBound
<1>1. QED
  BY BoundByInv, InvHolds, PTL

\* A vendor code whose attempt ended without proof goes to no other action.
THEOREM UncertainStaysOwned == Spec => []UncertainStaysBlocked
<1>1. Inv => UncertainStaysBlocked
  BY InvParts DEF UncertainStaysBlocked, OwnersOk, OwnerOk, Attempted
<1>2. QED
  BY <1>1, InvHolds, PTL

\* A product is recorded as rejected only when Wildberries has not made its card
\* and holds no request that could still make it: whatever error batches it lists,
\* except of a vendor code for which the code counted a batch of an upload made
\* outside.
THEOREM RejectedStaysUncreated == Spec => []RejectedWasNotCreated
<1>1. Inv => RejectedWasNotCreated
  BY InvParts DEF RejectedWasNotCreated, EvidenceOk, RejectionOf, Uncounted
<1>2. QED
  BY <1>1, InvHolds, PTL

\* reducePublicationPlan ends a plan with its last action, and every transaction
\* that ends an action calls it.
THEOREM PlanEndsInTime == Spec => []PlanEndsWithLastAction
<1>1. Inv => PlanEndsWithLastAction
  BY InvParts DEF PlanEndsWithLastAction, PlanOk, PlanOf
<1>2. QED
  BY <1>1, InvHolds, PTL

\* The projection never tells anything else of an item than the journal.
THEOREM ProjectionStaysTrue == Spec => []ProjectionFollowsJournal
<1>1. Inv => ProjectionFollowsJournal
  BY InvParts DEF ProjectionFollowsJournal, ProjectionOk, FollowsOf
<1>2. QED
  BY <1>1, InvHolds, PTL

\* The group of an action in flight has no item that could keep it open: those of
\* the action end with it, those of cards that existed ended with the planning.
LEMMA ResultEndsGroups ==
    ASSUME Inv, NEW a \in Actions, InFlight(a), NEW g \in GroupTargets(a),
           NEW t, t = TransferOf[a], NEW class, DOMAIN class = MembersOf[a]
    PROVE  AllItemsTerminal(FinishItems(db.rows[t], class), g)
<1>1. PICK s : s = db.rows[t]
  OBVIOUS
<1>2. t \in Transfers /\ ProjectionOf(t) /\ a \in ActionsOf(t)
  BY InvParts, MembersOfTransfer DEF ProjectionOk
<1>3. /\ s = [transfer |-> s.transfer, group |-> s.group, item |-> s.item]
      /\ s.item \in [TransferItems(t) -> ItemRows]
      /\ db.plan[t] # "superseded"
      /\ \A i \in TransferItems(t) \ PublishedItems(t) : s.item[i].state = "terminal"
  BY <1>1, <1>2 DEF ProjectionOf, RowsOk, InFlight, InFlightStates
<1>4. PICK item : item = [i \in TransferItems(t) |->
          IF i \in MembersOf[a] THEN EndedItem(s.item[i], class[i]) ELSE s.item[i]]
  OBVIOUS
<1>5. PICK f : f = FinishItems(s, class)
  OBVIOUS
<1>6. f = [s EXCEPT !.item = item]
  BY <1>3, <1>4, <1>5 DEF FinishItems
<1>7. f.item = item /\ DOMAIN f.item = TransferItems(t)
  BY <1>3, <1>4, <1>6
<1>8. ItemsOf(f, g) # {}
  <2>1. PICK i \in MembersOf[a] : g = GroupOf[i]
    BY DEF GroupTargets
  <2>2. i \in TransferItems(t)
    BY <2>1, MembersOfTransfer
  <2>3. QED
    BY <1>7, <2>1, <2>2 DEF ItemsOf
<1>9. ASSUME NEW i \in ItemsOf(f, g) PROVE f.item[i].state = "terminal"
  <2>1. i \in TransferItems(t) /\ GroupOf[i] = g
    BY <1>7 DEF ItemsOf
  <2>2. CASE i \in MembersOf[a]
    <3>1. s.item[i] \in ItemRows /\ item[i] = EndedItem(s.item[i], class[i])
      BY <1>3, <1>4, <2>1, <2>2
    <3>2. QED
      BY <1>7, <3>1 DEF EndedItem, ItemRows
  <2>3. CASE i \in PublishedItems(t) /\ i \notin MembersOf[a]
    <3>1. PICK b \in Actions : TransferOf[b] = t /\ i \in MembersOf[b]
      BY <2>3 DEF PublishedItems, ActionsOf
    <3>2. b # a /\ g \in GroupTargets(b)
      BY <2>1, <2>3, <3>1 DEF GroupTargets
    <3>3. QED
      BY <3>1, <3>2, JournalAssumption
  <2>4. CASE i \notin PublishedItems(t)
    <3>1. i \notin MembersOf[a]
      BY <2>4, MembersOfTransfer
    <3>2. QED
      BY <1>3, <1>4, <1>7, <2>1, <2>4, <3>1
  <2>5. QED
    BY <2>2, <2>3, <2>4
<1>10. QED
  BY <1>1, <1>5, <1>8, <1>9 DEF AllItemsTerminal

\* ApplyPublicationActionResult refuses no result of an action in flight.
LEMMA ApplicableByInv == Inv => ResultIsApplicable
<1> SUFFICES ASSUME Inv, NEW a \in Actions, InFlight(a),
                    NEW class \in [PendingMembers(db, a) -> {"success", "rejected", "unresolved"}]
             PROVE  FinishActionOk(db, a, class)
  BY DEF ResultIsApplicable
<1>1. PICK t : t = TransferOf[a]
  OBVIOUS
<1>2. t \in Transfers /\ a \in ActionsOf(t) /\ ProjectionOf(t) /\ FollowsOf(a) /\ NotEnded(a)
  BY <1>1, InvParts, MembersOfTransfer DEF ProjectionOk, NotEnded, InFlight
<1>3. RecordMembersOk(db, a, class)
  BY BoundByInv DEF RecordMembersOk, IdentityIsBound, PendingMembers
<1>4. PICK ended : ended = EndedAction(db, a, class)
  OBVIOUS
<1>5. PICK outcomes : outcomes = MemberOutcomes(ended, a)
  OBVIOUS
<1>6. PICK skip : skip = MediaGroupsToSkip(ended, a)
  OBVIOUS
<1>7. DOMAIN outcomes = MembersOf[a] /\ MembersOf[a] # {}
  BY <1>5, Assumed DEF MemberOutcomes
<1>8. skip \subseteq GroupTargets(a)
  BY <1>6 DEF MediaGroupsToSkip
<1>9. AffectedGroups(outcomes, skip) \subseteq GroupTargets(a)
  BY <1>7, <1>8 DEF AffectedGroups, GroupTargets
<1>10. PICK s : s = db.rows[t]
  OBVIOUS
<1>11. /\ s.transfer.outcome = "running" /\ s.transfer.phase \in ExecutingPhases
       /\ \A g \in GroupTargets(a) :
             s.group[g].overall = "running" /\ s.group[g].media \in {"running", "skipped"}
  BY <1>2, <1>10 DEF ProjectionOf
<1>12. \A i \in MembersOf[a] : s.item[i].action = a /\ s.item[i].state = "running"
  <2>1. db.action[a].state \notin EndedStates
    BY DEF InFlight, InFlightStates, EndedStates
  <2>2. QED
    BY <1>1, <1>2, <1>10, <2>1 DEF FollowsOf, EndedStates
<1>13. \A g \in GroupTargets(a) : AllItemsTerminal(FinishItems(s, outcomes), g)
  BY <1>1, <1>7, <1>10, ResultEndsGroups
<1>14. ApplyPublicationActionResultOk(s, a, outcomes, skip)
  BY <1>7, <1>8, <1>9, <1>11, <1>12, <1>13 DEF ApplyPublicationActionResultOk, IsRunning
<1>15. QED
  BY <1>1, <1>3, <1>4, <1>5, <1>6, <1>10, <1>14 DEF FinishActionOk

\* The result of every action in flight reaches the projection, after any sequence
\* of results, expired authorizations and stopped plans, and is what it then tells.
THEOREM ResultsStayApplicable == Spec => []ResultsReachProjection
<1>1. QED
  BY ApplicableByInv, ProjectionStaysTrue, InvHolds, PTL DEF ResultsReachProjection
=============================================================================
