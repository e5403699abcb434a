--------------------------- MODULE BatchDiscovery ---------------------------
(***************************************************************************)
(* From a finalized import batch to an initialized transfer: the first      *)
(* stage of the polling (transfer/service/workflow), which resumes the      *)
(* transfers that are still initializing, lists the finalized batches after *)
(* a cursor it keeps in memory, starts a transfer for each one (targets are *)
(* a snapshot of the cabinets of partners and admins) and fills its matrix  *)
(* of items and targets.                                                    *)
(*                                                                          *)
(* A batch becomes visible when the transaction of its finalization         *)
(* commits, but it is ordered by the time at which that transaction began.  *)
(***************************************************************************)
EXTENDS Naturals, FiniteSets, Sequences, SequencesExt

CONSTANTS
    Batches,       \* import sessions that may be finalized
    Items,         \* batch -> sequence of the source group keys of its items
    Damaged,       \* batches whose stored items no longer match their checksum
    Sellers,       \* sequence of cabinets, in the order of the target query
    OwnerOf,       \* seller -> owner of the cabinet
    InitialRole,   \* owner -> role at the start
    Pollers,       \* instances of the service
    Leaving,       \* instances that a deployment stops after the pass they are in
    PageSize,      \* pollingPageSize
    ItemPageSize,  \* initializationBatchPageSize
    MaxItemTargets,\* the capacity policy
    MaxOpen,       \* bound: finalizing transactions open at once
    MaxFaults,     \* bound: restarts, failing statements, commits whose answer is lost
    MaxChanges     \* bound: role changes of owners and expiries of credentials

Roles == {"user", "partner", "admin"}

ASSUME ConstantsAssumption ==
    /\ IsFiniteSet(Batches)
    /\ \A b \in Batches : Items[b] # <<>> /\ Items[b] \in Seq(ToSet(Items[b]))
    /\ Sellers \in Seq(ToSet(Sellers))
    /\ Damaged \subseteq Batches
    /\ {PageSize, ItemPageSize} \subseteq Nat \ {0}
    /\ Leaving \subseteq Pollers
    /\ {MaxItemTargets, MaxOpen, MaxFaults, MaxChanges} \subseteq Nat

VARIABLES
    session,   \* the import session of each batch, and the keys of the batch row
    clock,     \* database time
    lastID,    \* card_batches_id_seq
    transfer,  \* wb.transfers by batch_id, or NoTransfer
    matrix,    \* rows of groups, items, group targets and item targets, by batch_id
    lastTransfer, \* transfers_id_seq
    role, expired,
    cursor,    \* batchCursor of each instance: <<finalized_at, batch id>>
    poller,    \* what each instance is doing
    rejected,  \* batches whose start was rejected for good (logged only)
    overtaken, \* history: the batches each instance had gone past when they committed
    faults, changes

database == <<session, clock, lastID, transfer, matrix, lastTransfer>>
world    == <<role, expired, changes>>
vars     == <<database, world, cursor, poller, rejected, overtaken, faults>>

NoTransfer == [id |-> 0, phase |-> "none", outcome |-> "none", targets |-> <<>>]
NoMatrix   == [groups |-> {}, items |-> {}, groupTargets |-> {}, itemTargets |-> {}]
NoCursor   == <<0, 0>>

\* step: idle, resume (transfers to resume in todo), discover (batches in todo),
\* admins (partner cabinets read), create (snapshot taken), build, persist and
\* fail (the halves of Initialize).
Idle == [step |-> "idle", todo |-> <<>>, full |-> FALSE, after |-> 0,
         resumes |-> FALSE, snapshot |-> <<>>]

Init ==
    /\ session = [b \in Batches |-> [status |-> "collecting", at |-> 0, id |-> 0]]
    /\ clock = 1 /\ lastID = 0 /\ lastTransfer = 0
    /\ transfer = [b \in Batches |-> NoTransfer]
    /\ matrix = [b \in Batches |-> NoMatrix]
    /\ role = InitialRole /\ expired = {} /\ changes = 0
    /\ cursor = [p \in Pollers |-> NoCursor]
    /\ poller = [p \in Pollers |-> IF p \in Leaving THEN [Idle EXCEPT !.step = "resume"] ELSE Idle]
    /\ rejected = {} /\ faults = 0
    /\ overtaken = [p \in Pollers |-> {}]

Rank(i, places) == Cardinality({j \in places : j <= i})

\* The elements of a sequence at some of its places, in their order.
ElementsAt(sequence, places) ==
    [k \in 1..Cardinality(places) |->
        sequence[CHOOSE i \in places : Rank(i, places) = k]]

-----------------------------------------------------------------------------
(* Finalization: one transaction, whose start is the batch's finalized_at. *)

BeginFinalize(b) ==
    /\ session[b].status = "collecting"
    /\ Cardinality({c \in Batches : session[c].status \in {"begun", "inserted"}}) < MaxOpen
    /\ session' = [session EXCEPT ![b].status = "begun", ![b].at = clock]
    /\ \E tick \in {0, 1} : clock' = clock + tick
    /\ UNCHANGED <<lastID, transfer, matrix, lastTransfer, world, overtaken, cursor, poller, rejected, faults>>

KeyOf(b) == <<session[b].at, session[b].id>>

KeyLess(k, l) == k[1] < l[1] \/ (k[1] = l[1] /\ k[2] < l[2])

\* The discovery of an instance is past the place of a batch: its cursor is, or a
\* batch of the page it is working through.
GonePast(p, b) ==
    \/ ~KeyLess(cursor[p], KeyOf(b))
    \/ /\ ~poller[p].resumes
       /\ \E i \in DOMAIN poller[p].todo : ~KeyLess(KeyOf(poller[p].todo[i]), KeyOf(b))

InsertBatch(b) ==
    /\ session[b].status = "begun"
    /\ lastID' = lastID + 1
    /\ session' = [session EXCEPT ![b].status = "inserted", ![b].id = lastID + 1]
    /\ UNCHANGED <<clock, transfer, matrix, lastTransfer, world, overtaken, cursor, poller, rejected, faults>>

CommitFinalize(b) ==
    /\ session[b].status = "inserted"
    /\ session' = [session EXCEPT ![b].status = "finalized"]
    /\ overtaken' = [p \in Pollers |-> IF GonePast(p, b) THEN overtaken[p] \cup {b} ELSE overtaken[p]]
    /\ UNCHANGED <<clock, lastID, transfer, matrix, lastTransfer, world, cursor, poller, rejected, faults>>

Finalized == {b \in Batches : session[b].status = "finalized"}

-----------------------------------------------------------------------------
(* The cabinets. *)

\* An administrator's role is not changed, and a role is not given twice.
ChangeRole(o, r) ==
    /\ changes < MaxChanges /\ role[o] # "admin" /\ role[o] # r
    /\ role' = [role EXCEPT ![o] = r]
    /\ changes' = changes + 1
    /\ UNCHANGED <<database, expired, overtaken, cursor, poller, rejected, faults>>

Expire(s) ==
    /\ s \notin expired /\ changes < MaxChanges
    /\ expired' = expired \cup {s}
    /\ changes' = changes + 1
    /\ UNCHANGED <<database, role, overtaken, cursor, poller, rejected, faults>>

\* listTargets: the live cabinets of the owners with a role, in the query's order.
CredentialsByOwnerRole(r) ==
    ElementsAt(Sellers, {i \in DOMAIN Sellers : /\ role[OwnerOf[Sellers[i]]] = r
                                               /\ Sellers[i] \notin expired})

\* MutationTargetSnapshot.Validate: nobody twice, nobody expired by now.
ValidSnapshot(targets) ==
    /\ IsInjective(targets)
    /\ ToSet(targets) \cap expired = {}

CapacityAdmits(b, targets) == Len(Items[b]) * Len(targets) <= MaxItemTargets

-----------------------------------------------------------------------------
(* The initialization command and the rows it writes. *)

StoredItems(b) ==
    LET rows == [i \in 1..Len(Items[b]) |-> [position |-> i, group |-> Items[b][i]]]
    IN  IF b \in Damaged THEN Tail(rows) ELSE rows

Page(rows, after) ==
    ElementsAt(rows, {i \in DOMAIN rows : rows[i].position \in after + 1 .. after + ItemPageSize})

\* readAllBatchItems: pages until one is short.
ReadAllBatchItems(b) ==
    LET page(n) == Page(StoredItems(b), n * ItemPageSize)
        last == CHOOSE n \in 0..Len(StoredItems(b)) :
                    /\ Len(page(n)) < ItemPageSize
                    /\ \A m \in 0..n - 1 : Len(page(m)) = ItemPageSize
    IN  [i \in 1..last * ItemPageSize + Len(page(last)) |->
            page((i - 1) \div ItemPageSize)[((i - 1) % ItemPageSize) + 1]]

\* The batch can be initialized: contiguous positions, the count of the header
\* and the checksum, which stands for the whole content.
Consistent(b) ==
    LET items == ReadAllBatchItems(b)
    IN  /\ Len(items) = Len(Items[b])
        /\ \A i \in DOMAIN items : items[i].position = i /\ items[i].group = Items[b][i]

\* buildInitialization: the groups in the order of their first items, and the
\* position of each item's group, counted from 0.
InitializationGroups(items) ==
    ElementsAt([i \in DOMAIN items |-> items[i].group],
               {i \in DOMAIN items : \A j \in 1..i - 1 : items[j].group # items[i].group})

BuildInitialization(b) ==
    LET items  == ReadAllBatchItems(b)
        groups == InitializationGroups(items)
    IN  [groups |-> groups,
         items  |-> [i \in DOMAIN items |->
                       CHOOSE k \in 0..Len(groups) - 1 : groups[k + 1] = items[i].group]]

\* Mutant: the stride of the group targets is the number of groups.
GroupTargetPositionByGroups(group, target, groups, targets) == group * groups + target

GroupTargetPosition(group, target, groups, targets) == group * targets + target

\* copyInitialization*: a reserved id is the position in the reserved range,
\* all counted from 0.
InitializationRows(command, targets) ==
    LET G == Len(command.groups)
        N == Len(command.items)
        T == Len(targets)
    IN  [groups       |-> {<<g, command.groups[g + 1]>> : g \in 0..G - 1},
         items        |-> {<<i, command.items[i + 1]>> : i \in 0..N - 1},
         groupTargets |-> {<<k, k \div T, targets[(k % T) + 1]>> : k \in 0..G * T - 1},
         itemTargets  |-> {<<k \div T, GroupTargetPosition(command.items[k \div T + 1], k % T, G, T)>> :
                              k \in 0..N * T - 1}]

-----------------------------------------------------------------------------
(* One instance: ProcessPending under processMu. *)

Goto(p, step) == poller' = [poller EXCEPT ![p].step = step]

\* A pass that returns an error ends; the next tick begins another.
FailPass(p) == poller' = [poller EXCEPT ![p] = Idle]

\* The page of a query that finds these batches: at most PageSize, ordered, with
\* none left out that comes before another.
PagesOf(found, Before(_, _)) ==
    {page \in [1..(IF Cardinality(found) < PageSize THEN Cardinality(found) ELSE PageSize) -> found] :
        /\ \A i, j \in DOMAIN page : i < j => Before(page[i], page[j])
        /\ \A i \in DOMAIN page, b \in found \ ToSet(page) : Before(page[i], b)}

\* ListInitializing: a page of the initializing transfers after an id, by id.
ListInitializing(after) ==
    PagesOf({b \in Batches : transfer[b].phase = "initializing" /\ transfer[b].id > after},
            LAMBDA b, c : transfer[b].id < transfer[c].id)

\* ListFinalizedBatches: a page of the batches after the cursor.
ListFinalizedBatches(after) ==
    PagesOf({b \in Finalized : KeyLess(after, KeyOf(b))},
            LAMBDA b, c : KeyLess(KeyOf(b), KeyOf(c)))

Resume(p, after) ==
    \E page \in ListInitializing(after) :
        poller' = [poller EXCEPT ![p] = [Idle EXCEPT !.step = "resume", !.todo = page,
                                                     !.resumes = TRUE, !.full = (Len(page) = PageSize),
                                                     !.after = after]]

\* ProcessPending at startup, at a tick or at a wake: resumeInitializing lists first.
BeginPass(p) ==
    /\ poller[p].step = "idle" /\ p \notin Leaving
    /\ Resume(p, 0)
    /\ UNCHANGED <<database, world, overtaken, cursor, rejected, faults>>

Discover(p) ==
    \E page \in ListFinalizedBatches(cursor[p]) :
        poller' = [poller EXCEPT ![p] = [Idle EXCEPT !.step = "discover", !.todo = page,
                                                     !.full = (Len(page) = PageSize)]]

\* The page is done: the next page, or the discovery.
ResumeNext(p) ==
    /\ poller[p].step = "resume" /\ poller[p].todo = <<>>
    /\ IF poller[p].full THEN Resume(p, poller[p].after) ELSE Discover(p)
    /\ UNCHANGED <<database, world, overtaken, cursor, rejected, faults>>

\* The page is done: the next page, or the end of the pass.
DiscoverNext(p) ==
    /\ poller[p].step = "discover" /\ poller[p].todo = <<>>
    /\ IF poller[p].full THEN Discover(p) ELSE FailPass(p)
    /\ UNCHANGED <<database, world, overtaken, cursor, rejected, faults>>

\* start: a batch that has a transfer is only initialized; otherwise the
\* cabinets of the partners are read.
Start(p) ==
    /\ poller[p].step = "discover" /\ poller[p].todo # <<>>
    /\ LET b == Head(poller[p].todo)
       IN  poller' = [poller EXCEPT
               ![p].step = IF transfer[b] # NoTransfer THEN "build" ELSE "admins",
               ![p].snapshot = IF transfer[b] # NoTransfer THEN <<>>
                               ELSE CredentialsByOwnerRole("partner")]
    /\ UNCHANGED <<database, world, overtaken, cursor, rejected, faults>>

\* Mutant: a rejected batch is tried again before any other.
RejectWithoutAdvancing(p, b) ==
    /\ rejected' = rejected \cup {b}
    /\ UNCHANGED cursor

\* isDeterministicStartRejection: the cursor passes the batch although the pass fails.
Reject(p, b) ==
    /\ rejected' = rejected \cup {b}
    /\ cursor' = [cursor EXCEPT ![p] = KeyOf(b)]

\* The cabinets of the admins, snapshotForCredentials and the capacity check: an
\* empty list is an ordinary error, an invalid snapshot or an exceeded capacity a
\* rejection.
ReadAdmins(p) ==
    LET b == Head(poller[p].todo)
        targets == poller[p].snapshot \o CredentialsByOwnerRole("admin")
    IN  /\ poller[p].step = "admins"
        /\ \/ /\ targets = <<>>
              /\ FailPass(p)
              /\ UNCHANGED <<cursor, rejected>>
           \/ /\ targets # <<>>
              /\ ~ValidSnapshot(targets) \/ ~CapacityAdmits(b, targets)
              /\ Reject(p, b)
              /\ FailPass(p)
           \/ /\ targets # <<>> /\ ValidSnapshot(targets) /\ CapacityAdmits(b, targets)
              /\ poller' = [poller EXCEPT ![p].step = "create", ![p].snapshot = targets]
              /\ UNCHANGED <<cursor, rejected>>
        /\ UNCHANGED <<database, world, overtaken, faults>>

\* Mutant: the insertion overwrites what another instance created.
CreateOver(b, targets) ==
    /\ transfer' = [transfer EXCEPT ![b] = [id |-> lastTransfer + 1, phase |-> "initializing",
                                            outcome |-> "running", targets |-> targets]]
    /\ lastTransfer' = lastTransfer + 1

\* Create: ON CONFLICT (batch_id) DO NOTHING, then the row another instance made.
Create(b, targets) ==
    IF transfer[b] = NoTransfer
    THEN /\ transfer' = [transfer EXCEPT ![b] = [id |-> lastTransfer + 1, phase |-> "initializing",
                                                 outcome |-> "running", targets |-> targets]]
         /\ lastTransfer' = lastTransfer + 1
    ELSE UNCHANGED <<transfer, lastTransfer>>

\* A transaction commits and the caller goes on, or the answer of the commit is
\* lost: the change stands and the pass fails.
Answered(p, next) ==
    \/ next /\ UNCHANGED faults
    \/ /\ faults < MaxFaults
       /\ faults' = faults + 1
       /\ FailPass(p)
       /\ UNCHANGED cursor

CreateTransfer(p) ==
    /\ poller[p].step = "create"
    /\ Create(Head(poller[p].todo), poller[p].snapshot)
    /\ Answered(p, /\ poller' = [poller EXCEPT ![p].step = "build", ![p].snapshot = <<>>]
                   /\ UNCHANGED cursor)
    /\ UNCHANGED <<session, clock, lastID, matrix, world, overtaken, rejected>>

\* Mutant: the cursor moves to the end of the page at once.
AdvanceToLast(p) ==
    cursor' = [cursor EXCEPT ![p] = KeyOf(Last(poller[p].todo))]

AdvanceBatchCursor(p) ==
    cursor' = [cursor EXCEPT ![p] = KeyOf(Head(poller[p].todo))]

\* Initialize succeeded: the resumption keeps the transfer's id, the discovery
\* advances the cursor, and each goes to the next of its page.
InitializeDone(p) ==
    IF poller[p].resumes
    THEN /\ poller' = [poller EXCEPT ![p].step = "resume", ![p].todo = Tail(@),
                                     ![p].after = transfer[Head(poller[p].todo)].id]
         /\ UNCHANGED cursor
    ELSE /\ poller' = [poller EXCEPT ![p].step = "discover", ![p].todo = Tail(@)]
         /\ AdvanceBatchCursor(p)

\* The first half of Initialize: load the transfer, build the command.
BuildCommand(p) ==
    LET b == Head(poller[p].todo)
    IN  /\ \/ poller[p].step = "build"
           \/ poller[p].step = "resume" /\ poller[p].todo # <<>>
        /\ \/ transfer[b].phase # "initializing" /\ InitializeDone(p)
           \/ /\ transfer[b].phase = "initializing"
              /\ Goto(p, IF Consistent(b) THEN "persist" ELSE "fail")
              /\ UNCHANGED cursor
        /\ UNCHANGED <<database, world, overtaken, rejected, faults>>

\* The transaction of Repository.Initialize: nothing to do when another instance
\* was faster, otherwise all rows and the new phase.  Its conflicts compare the
\* command with counts Create took from the same frozen header, and cannot occur.
PersistInitialization(p) ==
    LET b == Head(poller[p].todo)
    IN  /\ poller[p].step = "persist"
        /\ IF transfer[b].phase # "initializing"
           THEN UNCHANGED <<transfer, matrix>>
           ELSE /\ matrix' = [matrix EXCEPT ![b] = InitializationRows(BuildInitialization(b),
                                                                      transfer[b].targets)]
                /\ transfer' = [transfer EXCEPT ![b].phase = "preparing"]
        /\ Answered(p, InitializeDone(p))
        /\ UNCHANGED <<session, clock, lastID, lastTransfer, world, overtaken, rejected>>

\* MarkInitializationFailed: only an initializing transfer; the same failure
\* stored by another instance is accepted.
MarkFailed(b) ==
    IF transfer[b].phase = "initializing"
    THEN transfer' = [transfer EXCEPT ![b].phase = "finished", ![b].outcome = "failed"]
    ELSE UNCHANGED transfer

MarkInitializationFailed(p) ==
    LET b == Head(poller[p].todo)
    IN  /\ poller[p].step = "fail"
        /\ MarkFailed(b)
        /\ IF transfer'[b].outcome = "failed"
           THEN Answered(p, InitializeDone(p))
           ELSE FailPass(p) /\ UNCHANGED <<cursor, faults>>
        /\ UNCHANGED <<session, clock, lastID, matrix, lastTransfer, world, overtaken, rejected>>

PassStep(p) ==
    \/ ResumeNext(p) \/ DiscoverNext(p) \/ Start(p) \/ ReadAdmins(p)
    \/ CreateTransfer(p) \/ BuildCommand(p) \/ PersistInitialization(p)
    \/ MarkInitializationFailed(p)

\* A statement fails: nothing is written and the pass ends.
StatementFails(p) ==
    /\ poller[p].step # "idle"
    /\ faults < MaxFaults
    /\ faults' = faults + 1
    /\ FailPass(p)
    /\ UNCHANGED <<database, world, overtaken, cursor, rejected>>

\* The instance restarts: the cursor was in memory.
Restart(p) ==
    /\ faults < MaxFaults /\ p \notin Leaving
    /\ faults' = faults + 1
    /\ FailPass(p)
    /\ cursor' = [cursor EXCEPT ![p] = NoCursor]
    /\ overtaken' = [overtaken EXCEPT ![p] = {}]
    /\ UNCHANGED <<database, world, rejected>>

FinalizeStep(b) == InsertBatch(b) \/ CommitFinalize(b)

Next ==
    \/ \E b \in Batches : BeginFinalize(b) \/ FinalizeStep(b)
    \/ \E o \in DOMAIN role, r \in Roles : ChangeRole(o, r)
    \/ \E s \in ToSet(Sellers) : Expire(s)
    \/ \E p \in Pollers : BeginPass(p) \/ PassStep(p) \/ StatementFails(p) \/ Restart(p)

Spec == Init /\ [][Next]_vars

\* The ticker begins a pass and its goroutine is scheduled: an instance that stays
\* can always take a step of BeginPass or PassStep, and takes them without end (the
\* faults, which also move the instance, are finitely many).  A transaction ends.
FairSpec ==
    /\ Spec
    /\ \A p \in Pollers \ Leaving : []<><<poller'[p] # poller[p]>>_vars
    /\ \A b \in Batches : WF_vars(FinalizeStep(b))

-----------------------------------------------------------------------------
Steps == {"idle", "resume", "discover", "admins", "create", "build", "persist", "fail"}

\* Every variable has its type: batches, transfers and passes are only ever in
\* the states the tables and the code know.
TypeOK ==
    /\ session \in [Batches -> [status : {"collecting", "begun", "inserted", "finalized"},
                                at : Nat, id : 0..Cardinality(Batches)]]
    /\ \A b \in Batches :
         <<transfer[b].phase, transfer[b].outcome>> \in
             {<<"none", "none">>, <<"initializing", "running">>,
              <<"preparing", "running">>, <<"finished", "failed">>}
    /\ lastTransfer \in 0..Cardinality(Batches)
    /\ \A p \in Pollers : poller[p].step \in Steps /\ cursor[p] \in Nat \X Nat
    /\ rejected \subseteq Batches
    /\ overtaken \in [Pollers -> SUBSET Batches]

Settled(b) == transfer[b].phase \in {"preparing", "finished"}

\* What the cursor has passed needs no further visit: every finalized batch at
\* or before it has an initialized or failed transfer, or its start was rejected
\* (discoverFinalizedBatches advances only then; the cursor is never stored, and
\* resumeInitializing cannot find a batch without a transfer).  The exception is
\* what the code allows: a finalization that began before another one and commits
\* after it (batch.go takes the time of the transaction's begin) may appear behind
\* what this instance has listed.
CursorPassesOnlySettled ==
    \A p \in Pollers, b \in Finalized :
        ~KeyLess(cursor[p], KeyOf(b)) => Settled(b) \/ b \in rejected \/ b \in overtaken[p]

\* The matrix is the product of the items and the targets: each item lies in the
\* group of its source key, and for each target has exactly one row, whose group
\* target is that of its group and that target (the index arithmetic of
\* copyInitializationGroupTargets and copyInitializationItemTargets).
MatrixIsComplete ==
    \A b \in Batches : transfer[b].phase = "preparing" =>
        LET rows == matrix[b]
            TargetsOf(i) == {u \in rows.groupTargets : <<i, u[1]>> \in rows.itemTargets}
            GroupOf(i) == CHOOSE g \in {row[2] : row \in rows.items} : <<i, g>> \in rows.items
        IN  /\ Cardinality(rows.items) = Len(Items[b])
            /\ \A i \in 0..Len(Items[b]) - 1 :
                 /\ <<GroupOf(i), Items[b][i + 1]>> \in rows.groups
                 /\ \A u \in TargetsOf(i) : u[2] = GroupOf(i)
                 /\ {u[3] : u \in TargetsOf(i)} = ToSet(transfer[b].targets)
                 /\ Cardinality(TargetsOf(i)) = Len(transfer[b].targets)
            /\ Cardinality(rows.itemTargets) = Len(Items[b]) * Len(transfer[b].targets)

\* Only a batch whose stored content changed fails to initialize: no retry, no
\* second instance and no page boundary turns a sound batch into a failed transfer.
FailedWasDamaged ==
    \A b \in Batches : transfer[b].outcome = "failed" => b \in Damaged

\* A transfer keeps the identity and the targets it was created with, and never
\* returns to an earlier phase, whichever instance meets it next (Create's ON
\* CONFLICT, the phase conditions of the updates).
TransferIsKept ==
    [][\A b \in Batches : transfer[b] # NoTransfer =>
          /\ transfer'[b].id = transfer[b].id
          /\ transfer'[b].targets = transfer[b].targets
          /\ Settled(b) => transfer'[b] = transfer[b]]_vars

\* No instance that stays will find the batch: it committed behind what each of
\* them had listed, and their cursors are past it.  A restart ends this.
OutOfSight(b) ==
    \A p \in Pollers \ Leaving : b \in overtaken[p] /\ ~KeyLess(cursor[p], KeyOf(b))

\* Every finalized batch is dealt with: its transfer is initialized or failed, or
\* its start was rejected, and neither a rejected neighbour, a restart, nor a
\* failed pass keeps the polling from it, as long as there is a cabinet to
\* transfer to and some instance has not gone past it before it committed.
FinalizedIsSettled ==
    \A b \in Batches : session[b].status = "finalized" ~>
        \/ Settled(b) \/ b \in rejected \/ OutOfSight(b)
        \/ \A s \in ToSet(Sellers) : s \in expired \/ role[OwnerOf[s]] = "user"

\* Initialization is sound: a transfer gets its whole matrix, or its batch was
\* damaged.
InitializationIsSound == TypeOK /\ MatrixIsComplete /\ FailedWasDamaged

=============================================================================
