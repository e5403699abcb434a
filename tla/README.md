# Verification of wb-service

wb-service takes product cards from spreadsheets and publishes them in one or
more Wildberries seller cabinets. The specifications in this directory model
its parts that are hard to get right: the import of files, the pipeline that
carries a batch to published products over several goroutines, a relational
database and an API whose answers may be lost, the decisions of operators
about what stayed open, the credentials of the cabinets, and the rate limiter
every call passes.

    TransferRules              operators: the transactions on a transfer's projection
    TransferProjection         state machine of one transfer's projection
    TransferProjectionProofs   theorems about it (TLAPS)
    ProductJournal             operators: the transactions of publication, on top of TransferRules
    ProductExecution           ProductDispatcher and its environment, on top of ProductJournal
    ProductExecutionProofs     theorems about it
    MediaExecution             MediaDispatcher and the visibility loop, on top of ProductJournal
    MediaExecutionProofs       theorems about it
    AttentionResolution        operators' decisions and the automatic check, on top of ProductJournal
    AuthorizationContract      what a live authorization promises
    LiveAuthorization          the authorization service, which implements that
    LiveAuthorizationProofs    theorems about it, the refinement among them
    CardAggregation            operators: from the rows of a file to cards
    CardImport                 import sessions, files, recovery workers, buttons
    CardImportProofs           theorems about it and about CardAggregation
    BatchDiscovery             from a finalized batch to an initialized transfer
    BatchDiscoveryProofs       theorems about it
    WBCabinet                  credentials, clients, dialogue, restoration
    WBCabinetProofs            theorems about it
    FlowControl                Execute and the limiter of a bucket
    FlowControlProofs          theorems about it

Each state machine has a module `MC...` with its instances and one or more
configurations. `PROJECT.json` lists components, runs, mutants, hazards,
findings, theorems and, under `map`, the source lines every definition stands
for.

## 1. The system

### Parts and state

| Part | Source | State | Operations |
|---|---|---|---|
| Card import | `feature/cardimport` | sessions, files, parsed rows, finalized batches; in memory recovery states and jobs | open, cancel, add file, parse, continue, finalize, recover |
| Transfer workflow | `feature/transfer/service/workflow` | `wb.transfers`, targets; in memory the batch cursor | discover batches, start, initialize, resume |
| Transfer projection | `feature/transfer/repository/postgres` | `transfers`, `transfer_group_targets`, `transfer_item_targets` | initialize, begin and apply preparation, apply plan, begin, reconcile and apply actions and media, reset plan, correct item |
| Card preparation | `feature/cardprepare` | proposals, catalogue cache | prepare one group at a time |
| Publication planner | `feature/cardpublication/service/planning` | plans, actions, members, `product_identities` | observe catalogue, decide, save plan |
| Live authorization | `feature/transfer/service/authorization` | `transfer_live_authorizations`, journal of commands | request, approve, authorize, expire, supersede, close, revoke |
| Error feed | `feature/cardpublication/service/monitoring` | cursor and batches of the Cards Error List | refresh, capture baseline |
| Product dispatcher | `feature/cardpublication/service/execution/product_*` | attempts, retries, members, attributions, identities | dispatch, record, reconcile, retry, abort, supersede |
| Media dispatcher | `.../execution/media_*` | media actions, attempts, visibility jobs; in memory the actions of running workers | dispatch, skip, record, check visibility |
| Operator resolution | `.../service/resolution`, `feature/statistics` | manual resolutions, attention list | list, resolve, verify |
| Stage polling | `feature/transfer/server/polling.go` | wake channels | run every stage on startup, wake and tick |
| WB client, flow control | `core/transport/wb` | token buckets, server blocks, wait queues | wait, observe, execute |
| WB cabinets | `feature/wbcabinet` | credentials, active clients, restore queue, dialogues | add, delete, restore, retry |
| Users, Telegram | `feature/users`, `core/transport/telegram` | users, menus | queries, forms |

### Interaction

`main.go` starts one goroutine per pipeline stage: transfer workflow,
preparation, planning, error feed, automatic authorization, product dispatch;
media, cabinet restore, import recovery and the attention resolver have loops
of their own. A stage finds its work by querying the database, works in
transactions, and wakes the stages after it. Nothing is handed over in memory:
what one stage leaves for the next is a row in the right state, and a row in a
state that no stage lists is stuck. All stages write the same projection of a
transfer (phase and outcome of the transfer, statuses and outcome of each
group, state and class of each item), and every publication transaction also
writes the publication journal (plans, actions, members, attempts,
identities). The modules follow these seams: `ProductExecution`,
`MediaExecution` and `AttentionResolution` share the rows of `ProductJournal`,
which changes the projection by the operators of `TransferRules`;
`BatchDiscovery` begins where `CardImport` ends (a finalized batch) and ends
where `TransferProjection` begins (an initialized transfer).

### What is hard

* Four code paths can end the last group of a transfer.
* A call to Wildberries lies between two transactions: a crash or a failed
  commit leaves an attempt without an answer, of a product or of an upload.
* Wildberries creates cards later and says nothing: success and rejection are
  inferred from the seller's catalogue and the Cards Error List, with a
  deadline, and one retry after an empty answer.
* A vendor code is shared by everything that publishes for one seller: other
  actions, other transfers, the seller.
* A plan may stop fitting the catalogue while some of it has been sent.
* Media workers outlive the pass that started them.
* Commands come with old knowledge: a button of an old screen, a list read a
  while ago, an authorization read before it was locked, a job with the status
  a file had.
* The cursor of batch discovery, the clients of the cabinets and the recovery
  queue live in memory, the rows they belong to do not.

The list of hazards with their lines is in `PROJECT.json`.

## 2. The models

### TransferRules and TransferProjection

`TransferRules` has two operators per transaction of
`transfer/repository/postgres`: `OpOk`, the condition under which the Go code
commits (its status checks, the row counts it insists on), and `Op`, the
committed rows, reductions at the end of the transaction included
(`finishPublicationActionGroups`, `advanceOrFinishPublicationTransfer`,
`reduceTransferAfterPlanning` and so on). A row keeps its status columns.
Absent: revisions, times, digests, counters, message texts.

`TransferProjection` has the variables `transfer`, `group`, `item` and
`lastPlan` and one action per transaction:

| Action | Code |
|---|---|
| `InitializeTransfer`, `FailInitialization` | `Initialize`, `MarkInitializationFailed` |
| `StartPreparation`, `PrepareGroup` | `BeginPreparation`, `ApplyPreparationResult` |
| `PlanWave` | `Planner.Build`, `Saver.Save`, `ApplyPublicationPlanResult` |
| `BeginAction`, `MarkReconciling`, `FinishSomeAction` | `BeginPublicationAction`, `MarkPublicationReconciling`, `ApplyPublicationActionResult` |
| `BeginMedia`, `FinishMedia` | `BeginPublicationMedia`, `ApplyPublicationMediaResult` |
| `ResetPlan` | `ResetPublicationPlanning` |
| `CorrectItem` | `CorrectPublicationItemResult` |

A transaction is one step. The code runs at READ COMMITTED; it locks the row of
`wb.transfers` before it looks at rows of other groups, and what it writes
earlier are rows of the groups its result is about. Callers are as free as the
guards allow: results of actions come in any order and with any classes.

### ProductJournal and ProductExecution

`ProductJournal` adds the journal to the projection in the same style: one
value `d` holds the rows of plan, authorization, actions, members, media
actions, attributions and identities, and the projection of each transfer,
which it changes with the operators of `TransferRules`. `JournalAssumption` is
what schema and planner say of a plan: an item belongs to one transfer, and two
actions share no items and, within a transfer, no groups, since `decideGroup`
makes at most one product action of a group. Two members of one action may
have the same vendor code; `bindIdentities` refuses such an action
(`DistinctVendorCodes`).

`ProductExecution` runs it. A `job` is the goroutine that handles one action in
one pass, with the values it read before its transaction: the catalogue, the
authorization it was listed with, the timers that had run out. Its steps are
*decide* (catalogue read), *send* (attempt or retry committed) and *record*
(answer in hand).

| Action | Code |
|---|---|
| `AuthorizePlan`, `AuthorizationRunsOut` | `AutomaticAuthorizationProcessor`, `expires_at` |
| `ObserveDispatch` | `ListDispatchableProductActions`, `readProductCatalog` |
| `BeginAttempt`, `StopExpired`, `WithdrawPlan`, `StopPlan` | the four ends of the transaction in `dispatch` |
| `GiveUp` | any error before it commits |
| `Send` | `executeProductMutation` |
| `RecordAttempt`, `RecordRetry`, `LoseAnswer` | `recordSubmission`, `recordProductRetry`, and their failure |
| `RecordInterrupted` | `recordInterrupted` |
| `ObserveReconciling` | `ListReconcilingProductActions`, `readProductCatalog` |
| `FinishInterruptedRetry`, `BeginRetry`, `PollReconciliation`, `FinishReconciliation` | the ends of `reconcile` |
| `DeadlinePasses`, `RetryFallsDue` | time |
| `StoreErrors` | `ErrorFeed.Refresh` |
| `PlanElsewhere` | `upsertPlanIdentities` of another transfer |
| `Process`, `OtherUploadRefused`, `SellerChanges`, `Crash` | Wildberries (its answer to our requests, its error batch for an upload made outside), the seller, the operating system (external) |

Wildberries: a request that reached it is processed some time later, vendor
code by vendor code; each creates a card, if there is none, or lists an error
batch. A request answered with a full rejection, and one that never left the
process, has no effect; an uncertain or empty answer leaves open whether the
request arrived. `made`, `requests` and `sends` are history that the
properties use and the code cannot see. The baseline of an attempt is what the
last `StoreErrors` left, so batches may be listed and not yet stored when an
attempt begins. For a vendor code of `OtherUploads`, Wildberries lists an error
batch of an upload made outside this service, at any time: before the baseline
is stored, between listing and baseline, or while an attempt is in flight. The
history `outside` notes whether it came where the code counts it for an attempt.

Simplifications: one plan per transfer, applied before the behaviour starts;
media actions are planned, skipped or superseded and not uploaded here; at most
one upload made outside per vendor code; no retry of database errors within a
transaction.

### MediaExecution

The other half of a plan. The variables are the journal, the rows of
`publication_media_visibility`, the goroutines (`worker`, `checker`, one per
item, since an action in flight is reserved in memory) and what the seller's
card shows. `ObserveMedia`, `SkipUpload`, `BeginUpload`, `Upload`,
`RecordUpload` and `WorkerFails` are one worker, `RecordInterrupted` what a
later pass does with an attempt that has no worker, `ClaimVisibility`,
`CheckVisibility`, `RecordVisibility`, `CheckFails` and `LeaseEnds` the
visibility loop. Product actions run along in coarse steps. `Dispatchable`,
`Skippable` and `LockMediaActionOk` are the joins of the three queries, row by
row (`JoinedRows`), because which rows they join is where they can go wrong. An
upload of `Files` requests stops at the first that fails; one whose answer is
unknown may have been taken. A crash may change the configuration
`mediaEnabled`. `MediaAssumption` says what the planner and the tables say of
media: an upload is of an item of a transfer, an item is published or exists
already, and a group target belongs to one transfer.
`WorkerResultIsAccepted` and `MediaProjectionFollowsJournal` speak of uploads
that are in order (`InOrder`), the second also of plans that were not aborted;
section 5 says what happens to the others.

### LiveAuthorization and AuthorizationContract

`LiveAuthorization` has the authorizations and the journal of commands with
their idempotency keys. Commands of callers are messages that stay and may
arrive at any time and again; the automatic processor lists plans and
authorizes them later under a derived key; dispatchers read a candidate and
check, supersede or close its authorization later. `AuthorizationContract` is
what everyone relies on: for each plan, episodes that do not overlap, become
effective at most once and never change once they have ended. The refinement
maps the rows, in the order of their ids, to the sequence of episodes of all
plans (`Grants`); an expiry noticed by the transaction that opens the next
authorization is one step of the contract. `KeyAssumption` says that callers
choose other idempotency keys than those the service derives; nothing in the
code enforces it, but nobody in the repository calls with a derived key.

### CardAggregation and CardImport

`CardAggregation` is the loop of `AggregateParsedFile` as a recursive function
of the rows done, with its order (barcodes are remembered before a row is refused). `CardImport` applies
it to documents whose parsed rows are given for each parser version.
`ImportAssumption` says what a parser makes of a document (`IsParsedFile`): a
sequence of rows with finitely many barcodes each, and an issue if there is no
row (`parser.go:155`). Its state
is the tables, the recovery scheduler (`recovery`, `queue`, `listing`,
`worker`) and the user's screen with the button on it and what it showed. A
screen is read in two statements, a button carries the revision of its screen,
a job the status of its file. Restarts, failed attempts and repeated or old
updates are faults of one budget.

### AttentionResolution

Publication in coarse steps (submit, reconcile, abort, end of media) produces
every kind of item that asks for attention; a checker lists them, looks each
one up and records the card (`VerifiedCardResolver`), callbacks carry a
decision with its revision and evidence (`ManualResolver`). A decision
corrects member, identity, action, plan and projection in one step, as the
transaction does. The button *mark rejected* needs an Error List batch, which
no unresolved member can have by the way the screen looks for it, so the
decision is modelled at the boundary of the service. A restart forgets lists
and pressed buttons, which in the model is the same as never taking the step.

### BatchDiscovery

Batches are finalized by transactions whose start is their time; instances
(`poller`) resume, list a page after the cursor, read targets in two queries,
create the transfer and fill its matrix in pages. A page of a query is any
sequence that its ORDER BY and LIMIT allow (`PagesOf`), and rows selected from
a sequence keep its order (`ElementsAt`). `Damaged` are batches whose
rows were changed outside the program, the case `Initialize` fails for.
`Leaving` is an instance that a rolling deployment stops after its pass.
`MaxOpen` finalizing transactions may be open at a time and commit in any order.
A batch that commits when the discovery of an instance is past its place, by its
cursor or by the page in its hands (`GonePast`), is noted in the history
`overtaken` of that instance until it restarts; the properties except it by name
(section 5). A change of role is that of `changeRole`: an administrator's role
stays, the same role is not given again.

### WBCabinet

Rows, clients in memory, the retry list, the mutation mutex, the goroutines of
handlers and of the restorer, the dialogue of each owner with its lease. Faults
are kinds: *transient*, a ping that fails for a while; *unavailable*, an outage
answered by an HTTP status; *database*, a statement that fails, at every
statement of the code (the listing, the restorer's row, the lookup and the write
of `add`, the deletion, `MarkStatus`), as a timeout or not; *lost*, a commit
answered by an error, of an addition, a restoration or a deletion. `MarkStatus`
is a step of its own after the client and the entry of the retry list are gone.
Two histories name what the code loses: `missed`, cabinets that a restoration
gave up without remembering them (a row not read at startup, a `MarkStatus` that
failed), and `lost`, cabinets whose commit was answered to a user by an error.

### FlowControl

`Execute` with attempts, back-off and delivery states for concurrent callers,
and the limiter with queue, admission, reservations, block and reduced bucket.
Time is relative, and goroutines are prompt: a tick waits until every step that
is due has been taken. The token bucket of `x/time/rate` is external. `budget`
is a reference bucket up to the first 429, which the code may not overdraw.

## 3. What TLC checks

Every property has a mutant of the code that breaks it (`mutants` in
`PROJECT.json`); the mutants are the definitions marked `Mutant:` beside the
definitions they replace.

Properties that belong together are checked as one conjunction; its named
parts are in parentheses. `TypeOK` of `TransferProjection` is in no run, since
it is proved (section 4).

| Run | Instance | Properties |
|---|---|---|
| `transfer_projection` | two groups, three items, two plans with two action names; 127 038 states | `FinishedIffNoGroupRuns`, `OutcomeAggregatesGroups`, `EndedGroupHasEndedItems`, `ItemsAreAccountedFor` (`OutcomeAggregatesItems`, `WaitingItemHasAction`, `OpenItemIsAnnounced`), `CheckConstraints`, `FinishedIsFinal`, `MediaPhaseIsKept` |
| `product_pair` | one action with two items, one with media, the other's vendor code also used by the seller, one crash; 145 956 states | `JournalIsSound` (`TypeOK`, `SendsAreJournaled`), `ProjectionFollowsJournal`, `InFlightEnds` |
| `product_one_plan` | two actions of one plan in two groups, media for the first, seller changes, two authorizations, one crash; 725 441 states | `ResultsReachProjection` (`ResultIsApplicable`, `ProjectionFollowsJournal`), `PlanEndsWithLastAction` |
| `product_shared_vendor` | two transfers with the same vendor code, further plans that name it, and an upload made outside with it; 2 076 188 states | `IdentityIsBound`, `UncertainStaysBlocked`, `RejectedWasNotCreated` |
| `product_awaited_media` | two actions of one plan, media for the first | `AwaitedMediaIsPending` is violated |
| `media` | two uploads of one group, one item planned twice, the other's identity written by another plan, two files each, one worker, one crash; 96 788 states | `UploadJournalIsSound` (`TypeOK`, `UploadsAreJournaled`, `RejectedLeftCardUntouched`), `WorkerResultIsAccepted`, `MediaOutcomesAgree` (`MediaProjectionFollowsJournal`, `PlanWaitsForMedia`, `MediaIdentityIsBound`), `UploadEnds` |
| `authorization` | one plan with two actions, its author and a stranger, two keys, two commands, two authorizations; 91 681 states | `CommandJournalIsSound` (`TypeOK`, `EffectsAreJournaledOnce`, `AutomaticKeyIsFresh`), `AuthorityIsInForce` (`AttemptsAreAuthorized`, `EndedAuthorityIsUnused`), `ImplementsContract`, `PlanGetsAuthorized` |
| `import` | one session, two documents that collide, two parser versions, one worker, a queue of one, one fault; 242 907 states | `RecoveryIsSound` (`TypeOK`, `RecoveryIsExclusive`), `ConfirmedBatchIsClean` (`ReadyIsFinalizable`, `FinalizedAsConfirmed`, `BatchIsClean`), `ResultsAreKept` (`ContinueSkipsOnlyErrors`, `ClosedSessionIsFrozen`), `FileIsProcessed` |
| `attention` | two actions of one plan, one with media, two callbacks, one checker, a foreign card; 214 297 states | `RowsAgree` (`TypeOK`, `DecisionReachesEveryRow`), `DecisionsStand` (`SuccessHasFittingCard`, `SavedDecisionStands`), `FoundCardLeavesAttention` |
| `cabinet` | two owners, one seller, two tokens, one handler, every kind of fault, two faults, one crash; 578 074 states | `ClientsAreCurrent` (`TypeOK`, `ClientFollowsRow`, `ServedOrPending`), `StaleWorkIsHarmless` (`RestoreKeepsCredentials`, `StaleLeaseKeepsDialog`), `PendingIsSettled` |
| `batch` | two batches, one damaged, whose finalizations may overlap, two sellers, an instance and one that leaves, one fault, one change of roles or credentials; 729 572 states | `InitializationIsSound` (`TypeOK`, `MatrixIsComplete`, `FailedWasDamaged`), `CursorPassesOnlySettled`, `TransferIsKept`, `FinalizedIsSettled` |
| `flow` | two callers, reads and writes, a burst of one, a queue of one, 429 with and without a header, 503, cancellation; 1 030 000 states | `LimiterIsSound` (`TypeOK`, `SlotsAreReturned`, `DebtIsHeld`), `RequestsAreBounded` (`RateIsRespected`, `WritesAreSentOnce`), `BlockHolds` (`BlockIsRespected`, `BlockIsKept`) |

What the properties say is in the comment above each. What they come to:

* A transfer finishes with its last group whichever code path that is, its
  outcome and those of its groups agree with the items, and no transaction
  offers the database a row that a CHECK refuses.
* Nothing is sent to Wildberries without a journaled attempt, and nothing twice
  but the one retry after an empty answer, whatever crashes; no upload is made
  twice, and a write of the client goes on the wire once.
* A product recorded as rejected was not created and will not be (excepted are
  retries, and a batch from outside that the code counted for the attempt), an
  upload recorded as rejected put nothing on the card, and a product whose fate
  is unknown keeps its vendor code blocked.
* The projection tells the same as the journal, takes every result of an
  action in flight, and after a decision every row tells the same.
* Attempts begin only under an authorization in force at that moment;
  authorizations are episodes, and a plan with work gets the next one.
* What is finalized is what the user saw and confirmed, without duplicates or
  errors; closed sessions do not change.
* What the discovery cursor has passed is settled, unless it committed behind
  what the instance had listed; a transfer keeps its identity and targets with
  several instances.
* A client in memory is that of the stored token, and an active cabinet has its
  client or waits for the retry loop, except the three ways in which the code
  loses one; restoration never writes a credential.
* Actions in flight, uploads, files, batches, plans without authority, cabinets
  to restore and items whose card is there are not left for ever.

**Bounds.** Two groups are enough for "the last group" to differ from the one
that just ended, two items in a group for a partial result, two plans for a
plan that was withdrawn and replaced. Two actions or two transfers give every
pairwise interleaving of jobs. `MaxAuths`, `MaxRows`, `MaxCrashes`, `MaxFaults`,
`MaxPlans`, `MaxMessages`, `MaxDialogs`, `MaxChanges` and `Callbacks` cap what
is unbounded; two authorizations allow one to expire and be renewed, one crash
or fault reaches every point between two commits. `SentAnswers` leaves
*empty*, *uncertain* and *unsent* out of `product_one_plan`, which is about the
two actions of a plan; they are in the other runs. `product_shared_vendor` has
no crash and no changes of the seller: with the upload made outside it is the
largest run as it is, and `RejectedStaysUncreated` is proved for any of them.
Two batches are enough for one finalization to commit behind another. `MaxRevision` of an import
session stops it after four changes: two files, a Continue and one more; the
liveness property excepts sessions that have reached it. In `import` two
documents share a barcode and each version reads them differently, in `flow` a
queue of one is full with two callers, in `attention` the list fits the limit of
a pass. `flow` is symmetric in its callers and has no liveness property. Runs
with CHECK_DEADLOCK FALSE are those of systems that really stop: a finished
transfer, a closed session, a plan that has ended.

**Fairness.** `Polling.Run` runs each stage at startup and at every tick for as
long as the process lives, and its errors only end the pass.

* `ProductExecution`: a goroutine that committed a call makes it and records or
  loses its answer; an action in state *reconciling* is listed again; the clock
  reaches the deadline; and what each pass tries again, recording an
  interrupted attempt or reconciling an action, succeeds at some time if it is
  possible again and again. The last one is strong fairness and excludes a
  database that fails for ever. Nothing is assumed of Wildberries, the error
  feed or the authorization. The conditions are written with explicit enabling
  predicates (`CanDeliver`, `CanReconcile`, ...).
* `MediaExecution`: a worker ends one way or the other, interrupted attempts
  are recorded, leases and deadlines pass; jobs that are due again and again are
  claimed and some checks get through.
* `LiveAuthorization`: the processor lists available plans and goes through
  what it listed. `CardImport`: the scheduler ticks, workers go on, a parsing
  file gets stale; the failures of attempts are finitely many. `BatchDiscovery`:
  an instance that stays keeps taking steps, and an open finalization ends.
  `AttentionResolution`: the loop keeps going while something is listed.
* `WBCabinet`: ticker and goroutines go on, and the restorer gets the mutex
  that it waits for again and again (starvation mode of `sync.Mutex`).

The fairness of several modules is written with an action that stands for all
steps of a goroutine (`WorkerMoves`, `SettlePlan`, `ListingShrinks`) or as
"changes again and again", which is the same as fairness of those steps in
these models and cheaper to check.

**The finding.** `product_awaited_media`: the first action of a plan created its
product and its media upload is planned; then the second action's vendor code
turns up in the catalogue. `AbortPlanAfterDispatch` ends every planned action of
the plan, the first group's media too, but the projection is told only about
the second group. The first group keeps waiting for media that no action will
upload, and the transfer never finishes.

## 4. What is proved

TLC checks small instances; the theorems hold for every value of the constants
that satisfies the named assumptions of the module: any number of groups,
items, actions, plans, callers, cabinets, batches and instances, any limits and
page sizes. The bounds on faults, crashes and messages are constants like any
other, so they may be as large as one likes. Each module of proofs has the same
outline: what the rows and goroutines hold in every reachable state as a
conjunction of named parts, lemmas about the operators, a lemma for each action
that says it keeps those parts, `InvHolds` (in `TransferProjectionProofs`:
`Invariance`), and the theorems. TLC checked each inductive invariant on the
instance of section 3 before it was proved.

**TransferProjection**, from `GroupAssumption` (every group has an item and
every item a group), `PlanAssumption` and `ActionAssumption` (the null values
are not ids):

    Invariance                  Spec => []Consistent
    TypeCorrectness             Spec => []TypeOK
    FinishedWhenLastGroupEnds   Spec => []FinishedIffNoGroupRuns
    OutcomeIsAggregate          Spec => []OutcomeAggregatesGroups
    NoItemLeftBehind            Spec => []EndedGroupHasEndedItems
    RowsPassChecks              Spec => []CheckConstraints
    NoItemUnaccounted           Spec => []ItemsAreAccountedFor
    FinishedTransfersStay       Spec => FinishedIsFinal
    MediaPhaseStays             Spec => MediaPhaseIsKept

The properties are not inductive by themselves: that the transfer finishes with
its last group needs that a running group can be ended at all only in the right
phases, and that a group is reduced when all its items are terminal needs to
know which statuses go with which items. `Consistent` is the conjunction of the
row types, of what the columns of one group row and of one item row say
together, of the link between an item and its group, and of the link between
the transfer and its groups. `NoItemUnaccounted` has an invariant of its own on
top of it, `Accounted`: group by group, the verdict counts the classes of the
items, who waits is owned by an action and who is open is announced.
There is one lemma per transaction of `TransferRules` for each of the two
(`...Good`, `...Accounted`).

**ProductExecution**, from `JournalAssumption`, `InstanceAssumption` (the sets
of the instance are subsets) and the assumptions above:

    InvHolds                    Spec => []Inv
    JournalStaysSound           Spec => []JournalIsSound
    IdentityStaysBound          Spec => []IdentityIsBound
    UncertainStaysOwned         Spec => []UncertainStaysBlocked
    RejectedStaysUncreated      Spec => []RejectedWasNotCreated
    PlanEndsInTime              Spec => []PlanEndsWithLastAction
    ProjectionStaysTrue         Spec => []ProjectionFollowsJournal
    ResultsStayApplicable       Spec => []ResultsReachProjection

The properties relate what the database says to what happened at Wildberries,
and a step that breaks one of them is prepared several steps earlier. `Inv`
therefore says which stages of action, attempt, retry, members and calls go
together (`StagesOk`), what a goroutine between two transactions may rely on
(`JobsOk`), who owns an identity (`OwnersOk`), what the catalogue, the stored
error batches and the requests under way prove about a vendor code
(`EvidenceOk`), when a plan is over (`PlanOk`), and what the projection knows of
all this (`ProjectionOk`). `EvidenceOk` is the part that carries
`RejectedWasNotCreated`: since an attempt of a vendor code that is sent once,
either its request is still under way or it ended as one error batch, so an
error batch newer than the baseline together with an absent card excludes that
the card comes later. This is evidence as long as no batch from outside was
counted for an attempt on the vendor code (`Uncounted`): a batch from outside
that was listed but not stored when the attempt began, or that is listed before
the attempt has ended, is as new as the attempt's own (section 5).
Transactions on two actions of one plan are separated by `JournalAssumption`.

**MediaExecution**, from `JournalAssumption`, `MediaAssumption` and the
assumptions of `TransferRules`:

    InvHolds                    Spec => []Inv
    UploadJournalStaysSound     Spec => []UploadJournalIsSound
    ResultStaysAccepted         Spec => []WorkerResultIsAccepted
    OutcomesStayAgreed          Spec => []MediaOutcomesAgree

A worker's answer is accepted because its group still waits for media, has its
publication behind it and all its items ended. Nothing of this is checked when
the answer is recorded; it follows from the order of events: the lock lets an
upload in only after its product action ended, and that action had reduced
items and publication in the same transaction. `Inv` carries the order from one
end to the other. `UploadsOk` says which stages of upload, attempt, visibility
job, worker and request go together, `OwnersOk` who owns an identity and that
the card of a vendor code that no other plan names is there only once its own
action ended (`MadeBy`), `ActionsOk` that an attempted upload in order has found
the product actions of its group ended (`InTurn`), `PlanOk` when a plan is over
and that nothing of a withdrawn plan is open, and `ProjectionOk` that items and
publication end with their product action (`PublishedOk`), that a group and the
phase *media* last as long as an upload is open (`Awaited`), and that the group
then shows the worst of its uploads (`Settled`). The proof found the uploads out
of order of section 5: without `InOrder` the parts `InTurn` and `Awaited` are
not inductive, and TLC confirmed that the properties fail for them.

**LiveAuthorization**, from `PlanOfAssumption`, `AuthorOfAssumption`,
`KeyAssumption`:

    InvHolds                    Spec => []Inv
    JournalStaysSound           Spec => []CommandJournalIsSound
    AuthorityStaysInForce       Spec => AuthorityIsInForce
    ContractIsImplemented       Spec => ImplementsContract

The invariant says that keys are used once, that revision `n` of a row was made
by the one command whose effect it was (`EffectsAreSound`), that at most one row
of a plan is open, that what dispatchers and messages refer to exists
(`ReferencesAreSound`, `MessagesAreSound`) and that a listed plan's automatic
key is still fresh (`ListedIsSound`). `ContractIsImplemented` is the refinement:
initial states map to initial states, and each step of the service to a step of
`AuthorizationContract` or a stutter; the transaction that finds the last
authorization expired and opens another is `Contract`'s replacing step.

**BatchDiscovery**, from `ConstantsAssumption` (batches are finite and not
empty, the limits positive):

    InvHolds                    Spec => []Inv
    InitializationStaysSound    Spec => []InitializationIsSound
    TransferStaysKept           Spec => TransferIsKept
    CursorStaysBehind           Spec => []CursorPassesOnlySettled

`InitializationStaysSound` contains a proof of the algorithms: reading a batch
in pages gives its rows in order and a batch reads as consistent exactly when it
is not damaged (`SoundIsConsistent`), the groups of a command are the distinct
keys in the order of their first items (`CommandGroups`), and the row numbers by
which the rows of groups, items and targets are linked with `div` and `mod`
meet in the right rows (`CommandFillsMatrix`). `Inv` adds that a matrix is filled
in the same step that leaves the initialization, and that an instance in the
middle of a pass holds what is, or was, in the table. `CursorStaysBehind` has no
hypothesis: any number of finalizations may overlap and commit in any order. Its
invariant `CursorInv` says that an instance that discovers has before it, in
order, every finalized batch after its cursor, or will find it behind its page,
all but those that committed behind its place (`Searches`). A commit keeps this,
since a batch that is not behind the place of the instance lies after its page.

**WBCabinet**, from `ConstantsAssumption` (a token belongs to one seller, and
the null value is none of the others):

    InvHolds                    Spec => []Inv
    ClientsStayCurrent          Spec => []ClientsAreCurrent
    StaleWorkStaysHarmless      Spec => StaleWorkIsHarmless

Between the commit of a row and the change of the map of clients neither
property holds of the seller in hand; `Inv` says who has it in hand
(`Activating`, `Removing`) and that the mutation mutex admits one of them
(`MutexOk`), that what is under way below the mutex still holds of the rows
(`UnderWayOk`), and what the restorer's listing may be wrong about
(`ListingOk`, `TakenOverOk`). A cabinet whose client and entry are gone and
whose `MarkStatus` has still to be called is in hand as well (`Marking`).

**FlowControl**, from `ConstantsAssumption` (limits are positive):

    InvHolds                    Spec => []Inv
    LimiterStaysSound           Spec => []LimiterIsSound
    RequestsStayBounded         Spec => []RequestsAreBounded
    BlockStaysHeld              Spec => BlockHolds

`CallsOk`, `SlotsOk` and `BucketOk` say that the counters of the limiter are the
numbers of callers at the steps that hold a place, an admission or a token.
`BudgetOk` compares the bucket with the reference bucket: the debt of the
bucket is covered by what the reference still has and by the waits of the
callers that have reserved and not yet been let through.

**CardImport** and **CardAggregation**, from `ImportAssumption`:

    InvHolds                    Spec => []Inv
    RecoveryStaysSound          Spec => []RecoveryIsSound
    BatchStaysClean             Spec => []ConfirmedBatchIsClean
    ResultsStayKept             Spec => ResultsAreKept

Two thirds of the proof are about the tables. A file's status says what its
cards and issues are (`ResultOk`): those of an *invalid* file are the outcome of
some parser, those of a *valid* file are without error and have nothing in
common. `DocumentIsAggregated` is what the loop of `AggregateParsedFile` computes
for every document: one card per vendor code, with the rows, sizes and barcodes
that the definition over the whole document (`CardOfVendor`) gives it. It is
proved without induction over data, from a least row after which the result is
not what the rows so far say (`IsAfter`; the least element comes from the
well-foundedness of `<`). `NoCrossIssue` says that a session has no cross-file
issue exactly when no two of its files share a vendor code or barcode, and
`KeptAreApart` that Continue leaves no two such cards. Every step is about one
open session (`Advances`) or about none, and changes cards only with the
revision (`KeepsPace`), so that a screen whose revision is current shows the
cards of the table (`ScreenOk`); this is what makes the batch the confirmed one.
The rest is the recovery scheduler (`QueueAgrees`, `HoldersAgree`).

Only model-checked:

* liveness under fairness, which is beyond this prover: `InFlightEnds`,
  `UploadEnds`, `PlanGetsAuthorized`, `FileIsProcessed`,
  `FoundCardLeavesAttention`, `PendingIsSettled`, `FinalizedIsSettled`;
* `AttentionResolution`, whose `RowsAgree` and `DecisionsStand` have no proofs
  yet. The properties of the run also hold of a plan with two items in one group
  and a third in another, with one callback and a list of three (433 376
  states); that check takes longer than the run on one item per group.

## 5. Where the code does not do what is expected

The models follow the code, so the following behaviours are in them. The
properties of section 3 are stated so that they hold with them, or on instances
without them; each was seen as a counterexample of the property in italics.

* `media_dispatch.go:54`: the join that looks for the product member of a media
  member finds the media member itself, so media of a card that existed before
  the transfer is never listed and its group waits. *Ready media is listed.*
* `media_dispatch.go:54`, `media_lock.go:207`: the row of a superseded plan has
  no product action, so an upload that has one is let in although the product
  action of its group in the present plan has not ended. This takes an existing
  card in a group whose other cards are still published, or a new card whose
  vendor code the plan of another transfer wrote as *remote_present* meanwhile.
  A rejection of such an upload cannot be recorded before the product action
  ends, and the end of the product action or of the plan marks the upload
  *skipped* while it is in flight. *A worker's answer is accepted*; `InOrder`
  excepts these uploads from it.
* `product_plan_control.go:228` (the finding above): a group of an aborted plan
  may keep waiting for media; `Aborted` excepts it from
  `MediaProjectionFollowsJournal`.
* `media_lock.go:207`: after a plan was superseded the lock may read the row of
  the old plan and refuse an action that was just listed. *Listed media can be
  locked.*
* `plan.go:309`: the plan of another transfer may write *remote_missing* over
  the identity of an upload in flight, after which no transaction finds the
  action; `UploadEnds` and `WorkerResultIsAccepted` except it.
* `cardimport/repository/postgres/parse.go:41`, `transport/telegram/recovery.go:205`:
  a job listed before Continue parses the file again and brings the skipped
  errors back. *Skipped errors stay away.*
* `statistics/feature.go:91`: every pass reads the newest 100 items, so with a
  longer list older ones starve (`FoundCardLeavesAttention` with
  `AttentionLimit = 1`).
* `manual_resolution.go:140` and `:167`: an item of an action that was aborted
  without an attempt, and an unresolved item of a transfer that ended *partial*
  because media was rejected, are on the attention list and no decision about
  them succeeds. *What is listed can be decided*; `Decidable` excepts them.
* `transfer/repository/postgres/publication_execution.go:456`: rejected media
  makes a group *partial*, and only unresolved groups ask for the attention of
  their transfer; so after a decision about another group the transfer asks for
  none while an unresolved item of that group is listed, and when the decision
  was the last one possible the item stays there. *The transfer asks for
  attention when an item does*; `MediaOutranks` excepts it from
  `DecisionReachesEveryRow` and `FoundCardLeavesAttention`.
* `repository/postgres/errorfeed.go:142`, `product_dispatcher.go:316`,
  `product_reconciliation.go:136`: the baseline of an attempt is the cursor of the
  last poll, which is not refreshed before `CaptureBaseline`, and every batch past
  it that names the vendor code counts for the attempt. The batch of an upload
  made outside, listed after that poll or while the attempt is in flight, makes
  the reconciliation record a rejection although the attempt's request is still
  under way and may create the card. *A product recorded as rejected was not
  created*, in ten steps; `outside[v] = "counted"` excepts it from
  `RejectedWasNotCreated`.
* `wbcabinet/service/service.go:243`: `restoreCabinet` removes the client and the
  entry of the retry list before it calls `MarkStatus` (`:250`, and `:225` for an
  expired credential). If that statement fails, the row stays active: the cabinet
  is offered as a target, has no client, and no retry knows it until the process
  starts again. A statement of the restorer's own `add` that fails without a
  timeout takes the same path. *A target is served or remembered*; `missed`
  excepts it from `ServedOrPending` and `PendingIsSettled`.
* `wbcabinet/service/service.go:189` and `:213`: a row that cannot be read when the
  process starts is not put on the retry list, and has no client then; `missed`
  too. (In a later pass of the retry loop the entry stays.)
* `wbcabinet/service/service.go:153` and `:107`: a deletion or an addition that is
  committed and answered by an error returns before the client is removed or
  replaced. The old client stays in use, and an entry of the retry list with the
  old generation is passed over by every retry. *A client is that of its row*;
  `lost` excepts it from `ClientFollowsRow`, `ServedOrPending` and
  `PendingIsSettled` until a client follows.
* `wbcabinet/transport/wb/verifier.go:72`: an HTTP 5xx at restoration marks the
  cabinet `verification_failed`, as a rejected token would.
* `wbcabinet/service/errors.go:15`: three conflicts share one sentinel, and the
  first case of the switch in `menu.go` answers for all of them.
* `cardimport/repository/postgres/batch.go:60`: of two overlapping finalizations
  the one that began first and committed last may appear below the cursor, and
  the instance does not see it until it restarts. *What the cursor has passed is
  settled*; `overtaken` excepts exactly the batches that commit when the
  discovery of the instance is past their place, from `CursorPassesOnlySettled`
  and, if all instances that stay are past it (`OutOfSight`), from
  `FinalizedIsSettled`.
* `registry.go:66`: an owner whose role changes between the two queries is in
  the snapshot twice, and the batch is rejected for good. `workflow/polling.go:74`:
  a batch above the capacity is rejected in a log line only. Both count as
  `rejected` in `CursorPassesOnlySettled`.
* `limiter.go:274`: at the end of a block a caller with an older reservation
  goes together with the newcomer that takes the one token; `RateIsRespected`
  counts up to the first 429.
* `execute.go:243`: a request whose context ends while it is being written is
  reported as *not_dispatched*.
* A request of a caller that the automatic processor approves makes the next
  automatic key repeat (`RequestedByCaller`); no transport calls `Request`.
* `reducePublicationPlan` does not count *partial* actions, the reduction after
  a decision does (`FirstPlanClass`, `CorrectedPlanClass`).

## 6. Not modelled

* The planner's decisions and the preparation of characteristics: the result
  of either is nondeterministic where it enters a model.
* Error feed paging and its cursor: a refresh is one step. Paging and the cache
  of the catalogue reader: a read is one step.
* Wake channels of the stages: they shorten the wait for the next tick, which
  the fairness assumes anyway.
* XLSX parsing, encryption, payloads, menus, user records, read-only
  statistics: data or presentation that the properties do not depend on.

## 7. Plan

1. Inductive invariants and proofs for `AttentionResolution` (`RowsAgree`,
   `DecisionsStand`), with the lemmas about `CorrectPublicationItemResult` of
   `TransferProjectionProofs` and those about the rows of `ProductJournal` of
   `ProductExecutionProofs` and `MediaExecutionProofs`.
2. `ErrorFeed` with cursor, overlap and concurrent refreshes, and the abstract
   feed of `ProductExecution` as what it implements; `decideGroup` of the
   planner against a reference definition.
