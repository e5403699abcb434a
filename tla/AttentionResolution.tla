------------------------- MODULE AttentionResolution -------------------------
(***************************************************************************)
(* What happens to the items that publication left unresolved.  A checker  *)
(* (the loop RunAutoAttentionResolver, or an operator's "check in WB"      *)
(* button) lists them, looks each one up in the seller's catalogue and has *)
(* VerifiedCardResolver record the cards it finds.  An operator decides by *)
(* hand through ManualResolver: mark the card present, mark it rejected, or*)
(* close the item without another attempt.  Every decision locks the       *)
(* transfer and corrects the member, its identity, the action, the plan and*)
(* the projections in one transaction.                                     *)
(*                                                                         *)
(* The rows are those of ProductJournal; how they got there is taken in    *)
(* coarse steps (ProductExecution and MediaExecution interleave them).     *)
(*                                                                         *)
(* Abstracted: a catalogue card is "match" when its subject or its group   *)
(* fits the request and "foreign" when it does not; a post_submission      *)
(* observation is the set of vendor codes it shows with one fitting card   *)
(* and none in the trash, and its id is its place in the log; the revision *)
(* of an action counts the decisions about its members.  The Error List    *)
(* batch of mark_rejected is an input of the service: the Telegram screen  *)
(* takes it from a correlation, and no unresolved member ever has one.     *)
(***************************************************************************)
EXTENDS ProductJournal, SequencesExt

CONSTANTS
    Checkers,         \* concurrent passes over the attention list
    Callbacks,        \* bound: buttons pressed, each handled in its own goroutine
    Operators,        \* trusted actors
    Occupied,         \* vendor codes under which the seller may have a foreign card
    AttentionLimit    \* Limit of the AttentionFilter of a pass

VARIABLES
    db,           \* the journal and the projections, see ProductJournal
    outcome,      \* action -> outcome_class of its row
    planOutcome,  \* transfer -> outcome_class of its plan
    revision,     \* action -> decisions about its members
    started,      \* action -> length of the log when its attempt started
    observations, \* the log of post_submission observations
    errors,       \* vendor codes with an error batch after the baseline
    card,         \* vendor code -> what the catalogue shows
    finished,     \* the published items, the last ended first
    decisions,    \* rows of publication_manual_resolutions
    pass,         \* checker -> the rows it has still to check
    found,        \* checker -> what it found for the first of them
    call          \* callback -> the command it carries

vars == <<db, outcome, planOutcome, revision, started, observations, errors,
          card, finished, decisions, pass, found, call>>

journal == <<db, outcome, planOutcome, revision>>

resolvers == <<decisions, pass, found, call>>

TheEpoch == 1

NoCall == [step |-> "none"]

Init ==
    /\ db = [PlannedJournal EXCEPT !.auth = [t \in Transfers |-> <<"authorized">>]]
    /\ outcome = [a \in Actions |-> NoClass]
    /\ planOutcome = [t \in Transfers |-> NoClass]
    /\ revision = [a \in Actions |-> 0]
    /\ started = [a \in Actions |-> 0]
    /\ observations = <<>>
    /\ errors = {}
    /\ card = [v \in Vendors |-> "absent"]
    /\ finished = <<>>
    /\ decisions = {}
    /\ pass = [c \in Checkers |-> <<>>]
    /\ found = [c \in Checkers |-> "unknown"]
    /\ call = [b \in Callbacks |-> NoCall]

-----------------------------------------------------------------------------
(* The outcome of an action and of its plan. *)

MemberClasses(d, a) == {d.member[i] : i \in MembersOf[a]}

\* The classes of all actions of the plan, those that upload media included.
PlanClasses(d, results, t) ==
    {results[a] : a \in ActionsOf(t)}
        \cup {d.media[i] : i \in TransferItems(t) \cap MediaItems}

\* The four cases reconcileProductEvidence and reduceManualPublicationAction
\* tell apart.
ActionClass(classes) ==
    IF classes \cap AttentionClasses # {} THEN "unresolved"
    ELSE IF classes = {"rejected"} THEN "rejected"
    ELSE IF "rejected" \in classes THEN "partial"
    ELSE "success"

\* reducePublicationPlan, which does not count partial actions.
FirstPlanClass(classes) ==
    IF classes \cap AttentionClasses # {} THEN "unresolved"
    ELSE IF classes = {"rejected"} THEN "rejected"
    ELSE IF "rejected" \in classes /\ classes \cap AcceptedClasses # {} THEN "partial"
    ELSE "success"

\* reduceManualPublicationPlan.
CorrectedPlanClass(classes) ==
    IF classes \cap AttentionClasses # {} THEN "unresolved"
    ELSE IF classes = {"rejected"} THEN "rejected"
    ELSE IF classes \cap {"rejected", "partial"} # {} THEN "partial"
    ELSE "success"

\* The rows once actions have ended in journal d with the given classes.
EndActions(d, results) ==
    /\ db' = d
    /\ outcome' = results
    /\ planOutcome' = [t \in Transfers |->
          IF db.plan[t] # "terminal" /\ d.plan[t] = "terminal"
          THEN FirstPlanClass(PlanClasses(d, results, t))
          ELSE planOutcome[t]]
    /\ UNCHANGED revision

-----------------------------------------------------------------------------
(* Publication, in coarse steps. *)

NewestFirst(items) == SetToSeq(items) \o finished

\* dispatch and its answer: an attempt that never left the process ends with
\* internal errors, any other is reconciled.
SubmitAction(a, answer) ==
    LET begun == BeginProductAttempt(db, a, TheEpoch, [v \in Vendors |-> 0])
        ended == RecordSubmission(begun, a, answer)
    IN  /\ BeginProductAttemptOk(db, a, TheEpoch)
        /\ RecordSubmissionOk(begun, a, answer)
        /\ EndActions(ended, [outcome EXCEPT ![a] =
              IF answer = "unsent" THEN "internal_error" ELSE @])
        /\ finished' = IF answer = "unsent" THEN NewestFirst(MembersOf[a]) ELSE finished
        /\ started' = [started EXCEPT ![a] = Len(observations)]
        /\ UNCHANGED <<observations, errors, card, resolvers>>

\* Wildberries made a card of the attempt, or one of the seller is found.
CardAppears(v, kind) ==
    /\ card[v] = "absent"
    /\ kind = "foreign" => v \in Occupied
    /\ \E a \in Actions : v \in VendorCodes(a) /\ db.action[a].attempt = "uncertain"
    /\ card' = [card EXCEPT ![v] = kind]
    /\ UNCHANGED <<journal, started, observations, errors, finished, resolvers>>

ErrorListed(v) ==
    /\ v \notin errors
    /\ \E a \in Actions : v \in VendorCodes(a) /\ db.action[a].attempt = "uncertain"
    /\ errors' = errors \cup {v}
    /\ UNCHANGED <<journal, started, observations, card, finished, resolvers>>

\* reconcileProductEvidence past its deadline.
Evidence(v) ==
    CASE card[v] = "match" /\ v \notin errors  -> "success"
      [] card[v] = "absent" /\ v \in errors    -> "rejected"
      [] OTHER                                 -> "unresolved"

Observed(vendors) == {v \in vendors : card[v] = "match"}

ReconcileAction(a) ==
    LET class == [i \in MembersOf[a] |-> Evidence(VendorOf[i])] IN
    /\ FinishReconciliationOk(db, a, class)
    /\ EndActions(FinishAction(db, a, class),
                  [outcome EXCEPT ![a] = ActionClass({class[i] : i \in DOMAIN class})])
    /\ observations' = Append(observations, Observed(VendorCodes(a)))
    /\ finished' = NewestFirst(MembersOf[a])
    /\ UNCHANGED <<started, errors, card, resolvers>>

\* AbortPlanAfterDispatch: the catalogue no longer fits the rest of the plan.
StopPlan(a) ==
    LET aborted == AbortedActions(db, TransferOf[a]) IN
    /\ AbortPlanOk(db, a)
    /\ EndActions(AbortPlan(db, a, TheEpoch),
                  [b \in Actions |-> IF b \in aborted THEN "unresolved" ELSE outcome[b]])
    /\ finished' = NewestFirst(AbortedItems(db, TransferOf[a]))
    /\ UNCHANGED <<started, observations, errors, card, resolvers>>

\* The only media action of a group ends.
EndMedia(i, class) ==
    LET t == TransferOf[ActionOf(i)]
        rows == BeginPublicationMedia(db.rows[t])
        ended == [db EXCEPT !.media[i] = class,
                            !.rows[t] = ApplyPublicationMediaResult(rows, GroupOf[i], class)]
    IN  /\ db.media[i] = "planned"
        /\ i \in db.attributed
        /\ \A j \in MediaItems \ {i} :
              GroupOf[j] = GroupOf[i] => db.media[j] \notin OpenMediaStates
        /\ BeginPublicationMediaOk(db.rows[t])
        /\ ApplyPublicationMediaResultOk(rows, GroupOf[i])
        /\ EndActions(CloseAuthorization(ReducePlan(ended, t), t, TheEpoch), outcome)
        /\ UNCHANGED <<started, observations, errors, card, finished, resolvers>>

-----------------------------------------------------------------------------
(* Reading the attention list. *)

ItemRow(i) == db.rows[TransferOf[ActionOf(i)]].item[i]

\* The WHERE clause of ListAttention.
Listed(i) ==
    LET row == ItemRow(i) IN
    /\ row.state = "terminal"
    /\ row.class \in AttentionClasses
    /\ ~row.closed
    /\ row.action # NoAction

\* A row of the list; an action without an attempt has attempt id 0.
AttentionRow(i) ==
    [item |-> i, revision |-> revision[ActionOf(i)],
     attempted |-> db.action[ActionOf(i)].attempt # "none"]

Page(limit) ==
    LET rows == SelectSeq(finished, Listed) IN
    [n \in 1..Min({limit, Len(rows)}) |-> AttentionRow(rows[n])]

\* The observations after the attempt; the newest is the one the screen offers.
ObservationsAfterAttempt(a) == (started[a] + 1)..Len(observations)

-----------------------------------------------------------------------------
(* The decision. *)

Attempted(a) == db.action[a].attempt \notin {"none", "open"}

\* The switch on the state of the identity.
IdentityDecidable(i) ==
    LET identity == db.identity[VendorOf[i]] IN
    \/ identity.state = "blocked_uncertain" /\ identity.active = ActionOf(i)
    \/ identity.state = "remote_present" /\ identity.active = Free

\* Mutant: the revision of the action the decision is about is not compared.
LockResolutionSubjectAnyRevision(i, expected) ==
    LET a == ActionOf(i)
        t == TransferOf[a]
    IN  /\ db.action[a].state = "terminal"
        /\ outcome[a] \in AttentionClasses
        /\ db.member[i] \in AttentionClasses
        /\ ItemRow(i).class = db.member[i]
        /\ Attempted(a)
        /\ db.rows[t].transfer.phase = "finished"
        /\ db.rows[t].transfer.outcome = "unresolved"
        /\ IdentityDecidable(i)

\* LockResolutionSubject.
LockResolutionSubject(i, expected) ==
    LET a == ActionOf(i)
        t == TransferOf[a]
    IN  /\ revision[a] = expected
        /\ db.action[a].state = "terminal"
        /\ outcome[a] \in AttentionClasses
        /\ db.member[i] \in AttentionClasses
        /\ ItemRow(i).state = "terminal"
        /\ ItemRow(i).action = a
        /\ ItemRow(i).class = db.member[i]
        /\ Attempted(a)
        /\ db.rows[t].transfer.phase = "finished"
        /\ db.rows[t].transfer.outcome = "unresolved"
        /\ IdentityDecidable(i)

\* decideManualRemotePresent of a stored observation.
PresentEvidence(i, observation) == VendorOf[i] \in observation

DecidedClass(i, kind) ==
    CASE kind = "present"  -> "success"
      [] kind = "rejected" -> "rejected"
      [] OTHER             -> db.member[i]

\* Mutant: the identity of a rejected member stays with its action.
DecidedIdentityKept(identity, kind) ==
    IF kind = "present" THEN [state |-> "remote_present", active |-> Free] ELSE identity

\* The UPDATE of product_identities in applyManualMemberResult.
DecidedIdentity(identity, kind) ==
    CASE kind = "present"  -> [state |-> "remote_present", active |-> Free]
      [] kind = "rejected" ->
            [state |-> IF identity.state = "remote_present" THEN "remote_present"
                       ELSE "rejected",
             active |-> Free]
      [] OTHER -> identity

\* applyManualMemberResult and applyManualEvidence.
DecidedMember(i, kind) ==
    [db EXCEPT !.member[i] = DecidedClass(i, kind),
               !.identity[VendorOf[i]] = DecidedIdentity(@, kind),
               !.attributed = IF kind = "present" THEN @ \cup {i} ELSE @]

\* reduceManualPublicationAction.
DecidedActionClass(classes) == ActionClass(classes)

\* CorrectWithin of the transfer.
CorrectedRows(i, kind) ==
    CorrectPublicationItemResult(db.rows[TransferOf[ActionOf(i)]], i,
                                 DecidedClass(i, kind), kind = "close")

\* ApplyManualResolution, ApplyVerifiedCardResult and CorrectWithin.
ApplyDecisionOk(i, kind) ==
    LET t == TransferOf[ActionOf(i)] IN
    /\ db.plan[t] = "terminal"
    /\ PlanActionsEnded(db, t)
    /\ CorrectPublicationItemResultOk(db.rows[t], i, DecidedClass(i, kind), kind = "close")

ApplyDecision(i, kind) ==
    LET a == ActionOf(i)
        t == TransferOf[a]
        d == [DecidedMember(i, kind) EXCEPT !.rows[t] = CorrectedRows(i, kind)]
        results == [outcome EXCEPT ![a] = DecidedActionClass(MemberClasses(d, a))]
    IN  /\ db' = d
        /\ outcome' = results
        /\ revision' = [revision EXCEPT ![a] = @ + 1]
        /\ planOutcome' = [planOutcome EXCEPT
              ![t] = CorrectedPlanClass(PlanClasses(d, results, t))]

-----------------------------------------------------------------------------
(* A checker. *)

checking == <<started, errors, card, finished, decisions, call>>

\* processAttentionOnce and checkAllAttention: ListAttention.
StartPass(c) ==
    /\ pass[c] = <<>>
    /\ Page(AttentionLimit) # <<>>
    /\ pass' = [pass EXCEPT ![c] = Page(AttentionLimit)]
    /\ found' = [found EXCEPT ![c] = "unknown"]
    /\ UNCHANGED <<journal, observations, checking>>

NextRow(c) ==
    /\ pass' = [pass EXCEPT ![c] = Tail(@)]
    /\ found' = [found EXCEPT ![c] = "unknown"]

\* FindCardByVendorCode; nothing found, or an error, goes on to the next row.
FindCard(c) ==
    /\ pass[c] # <<>>
    /\ found[c] = "unknown"
    /\ IF card[VendorOf[Head(pass[c]).item]] = "absent"
       THEN NextRow(c)
       ELSE /\ found' = [found EXCEPT ![c] = card[VendorOf[Head(pass[c]).item]]]
            /\ UNCHANGED pass
    /\ UNCHANGED <<journal, observations, checking>>

\* VerifiedCardResolver.Resolve commits: the card it found is the evidence.
VerifyCardOk(c) ==
    LET row == Head(pass[c]) IN
    /\ row.attempted
    /\ found[c] = "match"
    /\ LockResolutionSubject(row.item, row.revision)
    /\ ApplyDecisionOk(row.item, "present")

VerifyCard(c) ==
    /\ pass[c] # <<>>
    /\ found[c] # "unknown"
    /\ VerifyCardOk(c)
    /\ ApplyDecision(Head(pass[c]).item, "present")
    /\ observations' = Append(observations, {VendorOf[Head(pass[c]).item]})
    /\ NextRow(c)
    /\ UNCHANGED checking

\* Mutant: a refusal ends the pass, the next one starts from the newest again.
VerifyFailsEndsPass(c) ==
    /\ pass[c] # <<>>
    /\ found[c] # "unknown"
    /\ ~VerifyCardOk(c)
    /\ pass' = [pass EXCEPT ![c] = <<>>]
    /\ found' = [found EXCEPT ![c] = "unknown"]
    /\ UNCHANGED <<journal, observations, checking>>

\* ... or refuses, which is logged.
VerifyFails(c) ==
    /\ pass[c] # <<>>
    /\ found[c] # "unknown"
    /\ ~VerifyCardOk(c)
    /\ NextRow(c)
    /\ UNCHANGED <<journal, observations, checking>>

-----------------------------------------------------------------------------
(* An operator's decision by hand. *)

deciding == <<started, observations, errors, card, finished, pass, found>>

\* resolve of the Telegram handler: the button's revision is still current.
PressButton(b, o, i, kind, evidence) ==
    /\ call[b].step = "none"
    /\ Listed(i)
    /\ kind = "present" => evidence \in ObservationsAfterAttempt(ActionOf(i))
    /\ kind # "present" => evidence = 0
    /\ kind = "rejected" => VendorOf[i] \in errors
    /\ call' = [call EXCEPT ![b] =
          [step |-> "decide", actor |-> o, item |-> i, kind |-> kind,
           evidence |-> evidence, revision |-> revision[ActionOf(i)]]]
    /\ UNCHANGED <<journal, decisions, deciding>>

\* The idempotency key of a callback.
Key(command) ==
    [kind |-> command.kind, item |-> command.item, evidence |-> command.evidence,
     revision |-> command.revision]

SameKey(command) == {r \in decisions : r.key = Key(command)}

\* decide: the conditions of the three kinds.
DecisionOk(command) ==
    LET i == command.item IN
    CASE command.kind = "present" ->
            PresentEvidence(i, observations[command.evidence])
      [] command.kind = "rejected" -> VendorOf[i] \in errors
      [] OTHER ->
            /\ ~ItemRow(i).closed
            /\ db.identity[VendorOf[i]].state = "blocked_uncertain"

\* The answer is shown.
EndCall(b) == call' = [call EXCEPT ![b] = [step |-> "done"]]

\* ManualResolver.Resolve commits a new decision ...
Decide(b) ==
    LET command == call[b] IN
    /\ command.step = "decide"
    /\ SameKey(command) = {}
    /\ LockResolutionSubject(command.item, command.revision)
    /\ DecisionOk(command)
    /\ ApplyDecisionOk(command.item, command.kind)
    /\ ApplyDecision(command.item, command.kind)
    /\ decisions' = decisions \cup {[key |-> Key(command), actor |-> command.actor]}
    /\ EndCall(b)
    /\ UNCHANGED deciding

\* ... or finds that the same actor's command was carried out already ...
ReplayDecision(b) ==
    LET command == call[b] IN
    /\ command.step = "decide"
    /\ [key |-> Key(command), actor |-> command.actor] \in decisions
    /\ EndCall(b)
    /\ UNCHANGED <<journal, decisions, deciding>>

\* ... or reports a conflict or invalid evidence.
RefuseDecision(b) ==
    LET command == call[b] IN
    /\ command.step = "decide"
    /\ \/ \E r \in SameKey(command) : r.actor # command.actor
       \/ /\ SameKey(command) = {}
          /\ ~(/\ LockResolutionSubject(command.item, command.revision)
               /\ DecisionOk(command)
               /\ ApplyDecisionOk(command.item, command.kind))
    /\ EndCall(b)
    /\ UNCHANGED <<journal, decisions, deciding>>

-----------------------------------------------------------------------------
Check(c) ==
    StartPass(c) \/ FindCard(c) \/ VerifyCard(c) \/ VerifyFails(c)

Handle(b) ==
    \/ \E o \in Operators, i \in Items, kind \in {"present", "rejected", "close"},
          evidence \in 0..Len(observations) : PressButton(b, o, i, kind, evidence)
    \/ Decide(b)
    \/ ReplayDecision(b)
    \/ RefuseDecision(b)

Publish ==
    \/ \E a \in Actions :
          \/ \E answer \in {"uncertain", "unsent"} : SubmitAction(a, answer)
          \/ ReconcileAction(a)
          \/ StopPlan(a)
    \/ \E v \in Vendors :
          \/ \E kind \in {"match", "foreign"} : CardAppears(v, kind)
          \/ ErrorListed(v)
    \/ \E i \in MediaItems, class \in {"success", "rejected"} : EndMedia(i, class)

Next ==
    \/ Publish
    \/ \E c \in Checkers : Check(c)
    \/ \E b \in Callbacks : Handle(b)

Spec == Init /\ [][Next]_vars

\* The loop over the attention list keeps running: while there is something to
\* list or to check, every checker goes on.
FairSpec ==
    /\ Spec
    /\ \A c \in Checkers :
          \/ []<>(pass[c] = <<>> /\ \A i \in Items : ~Listed(i))
          \/ []<><<pass'[c] # pass[c] \/ found'[c] # found[c]>>_<<pass, found>>

-----------------------------------------------------------------------------
(* Properties. *)

Kinds == {"present", "rejected", "close"}

\* Every row keeps its type, and an outcome is there exactly when the action or
\* the plan has ended.
TypeOK ==
    /\ outcome \in [Actions -> {NoClass, "success", "rejected", "partial",
                                "unresolved", "internal_error"}]
    /\ planOutcome \in [Transfers -> {NoClass, "success", "rejected", "partial", "unresolved"}]
    /\ \A a \in Actions : (outcome[a] = NoClass) = (db.action[a].state \notin EndedStates)
    /\ \A t \in Transfers : (planOutcome[t] = NoClass) = (db.plan[t] # "terminal")
    /\ revision \in [Actions -> 0..Cardinality(Items)]
    /\ observations \in Seq(SUBSET Vendors)
    /\ Range(finished) \subseteq Items
    /\ \A c \in Checkers : Len(pass[c]) <= AttentionLimit
    /\ \A r \in decisions : r.key.kind \in Kinds /\ r.actor \in Operators

\* The rejected media of a group hides what its items still ask for: the group is
\* 'partial', and such groups do not ask for the attention of the transfer.
MediaOutranks(i) ==
    db.rows[TransferOf[ActionOf(i)]].group[GroupOf[i]].media = "rejected"

\* A decision reaches every row that repeats the outcome: what the member says,
\* its item, its action, its plan, the identity and the transfer's attention
\* agree, whoever decided and however many members are still open.
DecisionReachesEveryRow ==
    \A a \in Actions :
        LET t == TransferOf[a] IN
        revision[a] > 0 =>
            /\ outcome[a] = ActionClass(MemberClasses(db, a))
            /\ planOutcome[t] = ActionClass(
                  {db.member[i] : i \in PublishedItems(t)}
                     \cup {db.media[i] : i \in TransferItems(t) \cap MediaItems})
            /\ \A i \in MembersOf[a] :
                  /\ ItemRow(i).class = db.member[i]
                  /\ (db.identity[VendorOf[i]].active = a) = (db.member[i] \in AttentionClasses)
            /\ (\E i \in TransferItems(t) : Listed(i) /\ ~MediaOutranks(i))
                  = db.rows[t].transfer.attention

\* A card is recorded as published only when a card that fits the request is in
\* the seller's catalogue.
SuccessHasFittingCard ==
    \A i \in Items : db.member[i] = "success" => card[VendorOf[i]] = "match"

\* What an operator was told is saved still stands when another operator, a
\* checker with an old list, or a repeated button acts on the same item.
SavedDecisionStands ==
    \A r \in decisions :
        LET i == r.key.item IN
        CASE r.key.kind = "present"  -> db.member[i] = "success"
          [] r.key.kind = "rejected" -> db.member[i] = "rejected"
          [] OTHER -> ItemRow(i).closed

\* An item whose card is in the catalogue leaves the attention list, unless the
\* media of its group hides it: another decision may then end the attention of the
\* transfer, and none about the item is possible any more.
Decidable(i) == Listed(i) /\ LockResolutionSubject(i, revision[ActionOf(i)])

FoundCardLeavesAttention ==
    \A i \in Items :
        (card[VendorOf[i]] = "match" /\ Decidable(i) /\ ~MediaOutranks(i)) ~> ~Listed(i)

\* All rows about an item agree: each has its type, and a decision reaches them all.
RowsAgree == TypeOK /\ DecisionReachesEveryRow

\* A decision rests on a fitting card, and stands once the operator was told so.
DecisionsStand == SuccessHasFittingCard /\ SavedDecisionStands

=============================================================================
