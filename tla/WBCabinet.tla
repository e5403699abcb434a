------------------------------ MODULE WBCabinet ------------------------------
(***************************************************************************)
(* The cabinets of Wildberries sellers: the rows of wb.api_cabinets, the    *)
(* API clients kept in memory for them, the dialogue in which a user adds   *)
(* one, the deletion, and the restoration of the clients at startup and by  *)
(* the retry loop (internal/feature/wbcabinet, core/transport/wb).          *)
(*                                                                          *)
(* Every change runs under the service's mutationMu, but a change is        *)
(* several steps (read the row, ask Wildberries, commit, put the client in  *)
(* the map), the stored cabinets are listed outside of it, and the process  *)
(* may stop between any two steps.  A token stands for its client           *)
(* generation, which is its digest.                                         *)
(***************************************************************************)
EXTENDS Naturals, FiniteSets

CONSTANTS
    Owners, Sellers, Names, Tokens,
    Norm,          \* display name -> normalized_name
    SellerOf,      \* token -> the seller of its claims
    ContentTokens, \* tokens that may read and write Content
    Workers,       \* goroutines of Telegram handlers
    Restorer,      \* the goroutine of Restore, then of RunRestoreRetry
    None,
    Faults,        \* which faults may happen, a subset of FaultKinds
    MaxFaults,     \* bound: pings and statements that fail for a while
    MaxDialogs,    \* bound: dialogues begun, and deletions asked for
    MaxCrashes     \* bound: restarts of the process

\* transient, unavailable: how a ping fails; database: a statement fails, and
\* nothing is changed; lost: a change is committed and answered by an error.
FaultKinds == {"transient", "unavailable", "database", "lost"}

Statuses == {"active", "expired", "identity_mismatch", "verification_failed"}

ASSUME ConstantsAssumption ==
    /\ Norm \in [Names -> Names]
    /\ SellerOf \in [Tokens -> Sellers]
    /\ ContentTokens \subseteq Tokens
    /\ Restorer \notin Workers
    /\ None \notin Owners \cup Sellers \cup Names \cup Tokens \cup Workers \cup {Restorer}
    /\ None \notin [owner : Owners, name : Names, token : Tokens, status : Statuses]
    /\ Faults \subseteq FaultKinds
    /\ {MaxFaults, MaxDialogs, MaxCrashes} \subseteq Nat

VARIABLES
    row,       \* wb.api_cabinets by seller_id
    client,    \* Clientset.cabinets: the token of each seller's client
    pending,   \* Service.restorePending
    holder,    \* the goroutine inside mutationMu
    thread,    \* what each goroutine is doing
    snapshot,  \* the stored cabinets the restorer has still to visit
    phase,     \* the process: down, starting (Initialize), running
    dialog,    \* Handler.pending by owner
    begun,     \* StateStore.nextID, and the deletions asked for
    expired,   \* tokens past their exp claim
    revoked,   \* tokens Wildberries no longer accepts
    missed,    \* history: sellers that a restoration gave up without remembering,
               \* until a client follows
    lost,      \* history: sellers whose commit was answered to a user by an error,
               \* until a client follows
    faults, crashes

memory == <<client, pending, holder, thread, snapshot, dialog>>
world  == <<expired, revoked, missed, lost>>
counts == <<begun, faults, crashes>>
vars   == <<row, memory, phase, world, counts>>

Threads == Workers \cup {Restorer}

Idle == [step |-> "idle", op |-> "none", owner |-> None, name |-> None,
         token |-> None, seller |-> None, lease |-> 0, mark |-> None]

Stored == [seller : Sellers, owner : Owners, name : Names, token : Tokens]

\* The rows, the registry and the dialogues hold values of their types.
TypeOK ==
    /\ row \in [Sellers -> {None} \cup
                  [owner : Owners, name : Names, token : Tokens, status : Statuses]]
    /\ client \in [Sellers -> Tokens \cup {None}]
    /\ pending \in [Sellers -> Tokens \cup {None}]
    /\ holder \in Threads \cup {None}
    /\ \A t \in Threads :
         /\ thread[t].step \in {"idle", "queued", "check", "find", "ping", "upsert",
                                "activate", "mark", "delete", "remove"}
         /\ thread[t].op \in {"none", "add", "delete", "restore"}
    /\ snapshot \subseteq Stored
    /\ phase \in {"down", "starting", "running"}
    /\ \A o \in Owners :
         dialog[o] = None \/ (dialog[o].id \in 1..MaxDialogs /\ dialog[o].busy \in BOOLEAN)
    /\ expired \subseteq Tokens /\ revoked \subseteq Tokens
    /\ missed \subseteq Sellers /\ lost \subseteq Sellers
    /\ begun \in 0..MaxDialogs /\ faults \in 0..MaxFaults /\ crashes \in 0..MaxCrashes

-----------------------------------------------------------------------------
(* What the repository reads.                                               *)

\* FindByOwnerAndName, lockByOwnerAndName: at most one row has the name.
FindByOwnerAndName(o, n) ==
    {s \in Sellers : row[s] # None /\ row[s].owner = o /\ Norm[row[s].name] = Norm[n]}

GetByOwner(o, s) == IF row[s] # None /\ row[s].owner = o THEN row[s] ELSE None

ListStored ==
    {[seller |-> s, owner |-> row[s].owner, name |-> row[s].name, token |-> row[s].token] :
        s \in {x \in Sellers : row[x] # None}}

\* listTargets: the cabinets transfers may be sent to.
Targets == {s \in Sellers : /\ row[s] # None
                            /\ row[s].status = "active"
                            /\ row[s].token \in ContentTokens
                            /\ row[s].token \notin expired}

-----------------------------------------------------------------------------
(* The dialogue that adds a cabinet (StateStore, add.go).                   *)

\* startAdd: a new state replaces whatever the owner had.
StartAdd(o) ==
    /\ phase = "running" /\ begun < MaxDialogs
    /\ begun' = begun + 1
    /\ dialog' = [dialog EXCEPT ![o] =
                    [id |-> begun + 1, step |-> "name", name |-> None, busy |-> FALSE]]
    /\ UNCHANGED <<row, client, pending, holder, thread, snapshot, phase, world,
                   faults, crashes>>

\* cancelAdd, list and startDelete clear it, even while its token is verified;
\* a text that comes after the ten minutes finds it expired, unless it is busy.
EndDialog(o) ==
    /\ phase = "running" /\ dialog[o] # None
    /\ dialog' = [dialog EXCEPT ![o] = None]
    /\ UNCHANGED <<row, client, pending, holder, thread, snapshot, phase, world, counts>>

EnterName(o, n) ==
    /\ phase = "running" /\ dialog[o] # None
    /\ ~dialog[o].busy /\ dialog[o].step = "name"
    /\ dialog' = [dialog EXCEPT ![o].step = "token", ![o].name = n]
    /\ UNCHANGED <<row, client, pending, holder, thread, snapshot, phase, world, counts>>

\* The lease is claimed and the handler waits for mutationMu.
EnterToken(w, o, t) ==
    /\ phase = "running" /\ dialog[o] # None /\ thread[w].step = "idle"
    /\ ~dialog[o].busy /\ dialog[o].step = "token"
    /\ dialog' = [dialog EXCEPT ![o].busy = TRUE]
    /\ thread' = [thread EXCEPT ![w] =
                    [step |-> "queued", op |-> "add", owner |-> o, name |-> dialog[o].name,
                     token |-> t, seller |-> None, lease |-> dialog[o].id, mark |-> None]]
    /\ UNCHANGED <<row, client, pending, holder, snapshot, phase, world, counts>>

\* Mutant: Finish ends whatever dialogue the owner has now.
FinishAny(o, lease, retry) ==
    IF dialog[o] = None THEN None
    ELSE IF retry THEN [dialog[o] EXCEPT !.busy = FALSE] ELSE None

\* StateStore.Finish: only the state the lease was taken from is touched.
Finish(o, lease, retry) ==
    IF dialog[o] = None \/ (dialog[o] # None /\ (dialog[o].id # lease \/ ~dialog[o].busy))
      THEN dialog[o]
      ELSE IF retry THEN [dialog[o] EXCEPT !.busy = FALSE] ELSE None

\* deleteCabinet: the confirmed button names a cabinet of the owner.
AskDelete(w, o, s) ==
    /\ phase = "running" /\ thread[w].step = "idle" /\ begun < MaxDialogs
    /\ GetByOwner(o, s) # None
    /\ begun' = begun + 1
    /\ thread' = [thread EXCEPT ![w] =
                    [Idle EXCEPT !.step = "queued", !.op = "delete", !.owner = o, !.seller = s]]
    /\ UNCHANGED <<row, client, pending, holder, snapshot, phase, dialog, world,
                   faults, crashes>>

-----------------------------------------------------------------------------
(* mutationMu and the steps under it.                                       *)

MayEnter(t) == holder = None

Lock(w) ==
    /\ thread[w].step = "queued" /\ MayEnter(w)
    /\ holder' = w
    /\ thread' = [thread EXCEPT ![w].step = IF thread[w].op = "add" THEN "find" ELSE "delete"]
    /\ UNCHANGED <<row, client, pending, snapshot, phase, dialog, world, counts>>

\* The sentinel of an error: IdentityMismatch,
\* DuplicateSeller and CabinetNameTaken are one and the same ErrConflict.
Sentinel(err) == IF err \in {"conflict", "duplicate", "taken"} THEN "ErrConflict" ELSE err

\* A worker's Add or Delete returns: the mutex is released, the owner is told.
WorkerReturns(w, result) ==
    /\ holder' = None
    /\ thread' = [thread EXCEPT ![w] = Idle]
    /\ dialog' = IF thread[w].op = "delete" THEN dialog
                 ELSE [dialog EXCEPT ![thread[w].owner] =
                         Finish(thread[w].owner, thread[w].lease, result # "added")]

RestorerReturns ==
    /\ holder' = None
    /\ thread' = [thread EXCEPT ![Restorer] = Idle]
    /\ UNCHANGED dialog

\* IsTransientVerificationError: a failed ping is transient when no answer came
\* or it was a 429, an unexpected HTTP status is not; an error of the database is
\* when it is a timeout or comes from the network.
IsTransientVerificationError(err) == err = "transient"

DatabaseErrors == {"transient", "database"}

FailedStatus(err) ==
    CASE err = "expired" -> "expired"
      [] Sentinel(err) = "ErrConflict" -> "identity_mismatch"
      [] OTHER -> "verification_failed"

\* The restorer has still to call MarkStatus.
ToMark(status) ==
    /\ thread' = [thread EXCEPT ![Restorer].step = "mark", ![Restorer].mark = status]
    /\ UNCHANGED <<holder, dialog>>

\* Mutant: a transient failure is not remembered.
ForgetfulFailure(s, err) ==
    /\ client' = [client EXCEPT ![s] = None]
    /\ pending' = [pending EXCEPT ![s] = None]
    /\ IF IsTransientVerificationError(err) THEN RestorerReturns ELSE ToMark(FailedStatus(err))

\* restoreCabinet after add failed, up to its call of MarkStatus.
RestoreFailure(s, err) ==
    /\ client' = [client EXCEPT ![s] = None]
    /\ IF IsTransientVerificationError(err)
         THEN pending' = [pending EXCEPT ![s] = thread[Restorer].token] /\ RestorerReturns
         ELSE pending' = [pending EXCEPT ![s] = None] /\ ToMark(FailedStatus(err))

\* add returns an error.
AddFails(t, err) ==
    \/ thread[t].op = "add" /\ WorkerReturns(t, err) /\ UNCHANGED <<client, pending>>
    \/ thread[t].op = "restore" /\ RestoreFailure(thread[t].seller, err)

Fault(kind) == kind \in Faults /\ faults < MaxFaults /\ faults' = faults + 1

At(t, step) == thread[t].step = step

GoTo(t, step) == thread' = [thread EXCEPT ![t].step = step]

\* The checks of add before Wildberries is asked, in its order; None if all hold.
AddError(t) ==
    LET found == FindByOwnerAndName(thread[t].owner, thread[t].name)
        s == SellerOf[thread[t].token]
    IN  IF thread[t].token \in expired THEN "expired"
        ELSE IF thread[t].seller \notin {None, s} \/ found \notin {{}, {s}} THEN "conflict"
        ELSE IF thread[t].token \notin ContentTokens THEN "access"
        ELSE None

Find(t) ==
    /\ At(t, "find")
    /\ \/ /\ AddError(t) = None
          /\ GoTo(t, "ping")
          /\ UNCHANGED <<client, pending, holder, dialog, faults>>
       \/ AddError(t) # None /\ AddFails(t, AddError(t)) /\ UNCHANGED faults
       \/ Fault("database") /\ \E err \in DatabaseErrors : AddFails(t, err)
    /\ UNCHANGED <<row, snapshot, phase, world, begun, crashes>>

\* Verifier.Prepare asks Wildberries with a client of its own.
Ping(t) ==
    /\ At(t, "ping")
    /\ \/ /\ thread[t].token \notin revoked
          /\ GoTo(t, "upsert")
          /\ UNCHANGED <<client, pending, holder, dialog, faults>>
       \/ thread[t].token \in revoked /\ AddFails(t, "rejected") /\ UNCHANGED faults
       \/ Fault("transient") /\ AddFails(t, "transient")
       \/ Fault("unavailable") /\ AddFails(t, "rejected")
    /\ UNCHANGED <<row, snapshot, phase, world, begun, crashes>>

\* updateVerified or insertVerified.
Verified(t) == [owner |-> thread[t].owner, name |-> thread[t].name,
                token |-> thread[t].token, status |-> "active"]

UpsertError(t) ==
    LET found == FindByOwnerAndName(thread[t].owner, thread[t].name)
        s == SellerOf[thread[t].token]
    IN  IF found = {s} THEN None
        ELSE IF found # {} THEN "conflict"
        ELSE IF row[s] # None THEN "duplicate"
        ELSE None

UpsertVerified(t) ==
    LET s == SellerOf[thread[t].token] IN
    /\ At(t, "upsert")
    /\ \/ /\ UpsertError(t) = None
          /\ row' = [row EXCEPT ![s] = Verified(t)]
          /\ \/ /\ GoTo(t, "activate")
                /\ UNCHANGED <<client, pending, holder, dialog, faults, lost>>
             \/ /\ Fault("lost")
                /\ \E err \in DatabaseErrors : AddFails(t, err)
                /\ lost' = IF thread[t].op = "add" THEN lost \cup {s} ELSE lost
       \/ UpsertError(t) # None /\ AddFails(t, UpsertError(t)) /\ UNCHANGED <<row, faults, lost>>
       \/ /\ Fault("database")
          /\ \E err \in DatabaseErrors : AddFails(t, err)
          /\ UNCHANGED <<row, lost>>
    /\ UNCHANGED <<snapshot, phase, expired, revoked, missed, begun, crashes>>

\* prepared.Activate, and the cabinet is no longer pending.
Activate(t) ==
    LET s == SellerOf[thread[t].token] IN
    /\ At(t, "activate")
    /\ client' = [client EXCEPT ![s] = thread[t].token]
    /\ pending' = [pending EXCEPT ![s] = None]
    /\ \/ thread[t].op = "add" /\ WorkerReturns(t, "added")
       \/ thread[t].op = "restore" /\ RestorerReturns
    /\ missed' = missed \ {s} /\ lost' = lost \ {s}
    /\ UNCHANGED <<row, snapshot, phase, expired, revoked, counts>>

DeleteByOwner(w) ==
    LET s == thread[w].seller IN
    /\ At(w, "delete")
    /\ \/ /\ GetByOwner(thread[w].owner, s) # None
          /\ row' = [row EXCEPT ![s] = None]
          /\ \/ GoTo(w, "remove") /\ UNCHANGED <<holder, dialog, faults, lost>>
             \/ Fault("lost") /\ WorkerReturns(w, "database") /\ lost' = lost \cup {s}
       \/ /\ GetByOwner(thread[w].owner, s) = None
          /\ WorkerReturns(w, "not_found")
          /\ UNCHANGED <<row, faults, lost>>
       \/ Fault("database") /\ WorkerReturns(w, "database") /\ UNCHANGED <<row, lost>>
    /\ UNCHANGED <<client, pending, snapshot, phase, expired, revoked, missed, begun, crashes>>

RemoveClient(w) ==
    /\ At(w, "remove")
    /\ client' = [client EXCEPT ![thread[w].seller] = None]
    /\ pending' = [pending EXCEPT ![thread[w].seller] = None]
    /\ WorkerReturns(w, "deleted")
    /\ UNCHANGED <<row, snapshot, phase, world, counts>>

-----------------------------------------------------------------------------
(* Restore at startup, and the retry loop.                                  *)

\* Feature.Initialize lists the cabinets; if that fails the error is logged and
\* the process goes on.
Boot ==
    /\ phase = "down"
    /\ \/ phase' = "starting" /\ snapshot' = ListStored /\ UNCHANGED <<faults, missed>>
       \/ /\ Fault("database")
          /\ phase' = "running" /\ snapshot' = {}
          /\ missed' = {c.seller : c \in ListStored}
    /\ UNCHANGED <<row, client, pending, holder, thread, dialog, expired, revoked, lost,
                   begun, crashes>>

StartupDone ==
    /\ phase = "starting" /\ snapshot = {} /\ thread[Restorer].step = "idle"
    /\ phase' = "running"
    /\ UNCHANGED <<row, memory, world, counts>>

\* Mutant: the retry loop goes through the cabinets that have a client.
RetryTickServed ==
    /\ phase = "running" /\ snapshot = {} /\ thread[Restorer].step = "idle"
    /\ snapshot' = {c \in ListStored : client[c.seller] # None}
    /\ UNCHANGED <<row, client, pending, holder, thread, phase, dialog, world, counts>>

\* A tick of RunRestoreRetry: the cabinets are listed outside the mutex.
RetryTick ==
    /\ phase = "running" /\ snapshot = {} /\ thread[Restorer].step = "idle"
    /\ snapshot' = ListStored
    /\ UNCHANGED <<row, client, pending, holder, thread, phase, dialog, world, counts>>

RestoreNext ==
    /\ thread[Restorer].step = "idle" /\ MayEnter(Restorer)
    /\ \E c \in snapshot :
         /\ snapshot' = snapshot \ {c}
         /\ thread' = [thread EXCEPT ![Restorer] =
                         [step |-> "check", op |-> "restore", owner |-> c.owner,
                          name |-> c.name, token |-> c.token, seller |-> c.seller,
                          lease |-> 0, mark |-> None]]
    /\ holder' = Restorer
    /\ UNCHANGED <<row, client, pending, phase, dialog, world, counts>>

\* The row has not been changed since it was listed.
SameCredential(c, current) == current.token = c.token /\ current.name = c.name

\* restoreCabinet up to its call of add.
RestoreCheck ==
    LET c == thread[Restorer]
        current == GetByOwner(c.owner, c.seller)
        Forget == pending' = [pending EXCEPT ![c.seller] = None]
    IN
    /\ At(Restorer, "check")
    /\ \/ /\ current = None
          /\ Forget /\ RestorerReturns /\ UNCHANGED <<client, faults, missed>>
       \/ /\ current # None /\ ~SameCredential(c, current)
          /\ RestorerReturns /\ UNCHANGED <<client, pending, faults, missed>>
       \/ /\ current # None /\ SameCredential(c, current)
          /\ \/ /\ current.status # "active"
                /\ Forget /\ RestorerReturns /\ UNCHANGED client
             \/ /\ current.status = "active" /\ current.token \in expired
                /\ client' = [client EXCEPT ![c.seller] = None]
                /\ Forget /\ ToMark("expired")
             \/ /\ current.status = "active" /\ current.token \notin expired
                /\ phase = "running" /\ pending[c.seller] # current.token
                /\ RestorerReturns /\ UNCHANGED <<client, pending>>
             \/ /\ current.status = "active" /\ current.token \notin expired
                /\ phase = "starting" \/ pending[c.seller] = current.token
                /\ thread' = [thread EXCEPT ![Restorer].step = "find",
                                            ![Restorer].name = current.name]
                /\ UNCHANGED <<client, pending, holder, dialog>>
          /\ UNCHANGED <<faults, missed>>
       \/ \* the row cannot be read: what is pending stays so, at startup nothing is
          /\ Fault("database")
          /\ missed' = IF phase = "starting" THEN missed \cup {c.seller} ELSE missed
          /\ RestorerReturns /\ UNCHANGED <<client, pending>>
    /\ UNCHANGED <<row, snapshot, phase, expired, revoked, lost, begun, crashes>>

\* The end of restoreCabinet for a cabinet that is not to be restored again.  Its
\* client and its entry in restorePending are gone already: when the statement
\* fails the row stays active, and nobody comes back to it before a restart.
MarkStatus ==
    LET s == thread[Restorer].seller IN
    /\ At(Restorer, "mark")
    /\ \/ row' = [row EXCEPT ![s].status = thread[Restorer].mark] /\ UNCHANGED <<faults, missed>>
       \/ Fault("database") /\ missed' = missed \cup {s} /\ UNCHANGED row
    /\ RestorerReturns
    /\ UNCHANGED <<client, pending, snapshot, phase, expired, revoked, lost, begun, crashes>>

-----------------------------------------------------------------------------
(* The world around it.                                                     *)

Expire(t) ==
    /\ t \notin expired
    /\ expired' = expired \cup {t}
    /\ UNCHANGED <<row, memory, phase, revoked, missed, lost, counts>>

Revoke(t) ==
    /\ t \notin revoked
    /\ revoked' = revoked \cup {t}
    /\ UNCHANGED <<row, memory, phase, expired, missed, lost, counts>>

\* The process stops; what it kept in memory is gone.
Crash ==
    /\ phase # "down" /\ crashes < MaxCrashes
    /\ crashes' = crashes + 1
    /\ phase' = "down"
    /\ client' = [s \in Sellers |-> None]
    /\ pending' = [s \in Sellers |-> None]
    /\ holder' = None
    /\ thread' = [t \in Threads |-> Idle]
    /\ snapshot' = {}
    /\ dialog' = [o \in Owners |-> None]
    /\ missed' = {} /\ lost' = {}
    /\ UNCHANGED <<row, expired, revoked, begun, faults>>

Init ==
    /\ row = [s \in Sellers |-> None]
    /\ client = [s \in Sellers |-> None]
    /\ pending = [s \in Sellers |-> None]
    /\ holder = None
    /\ thread = [t \in Threads |-> Idle]
    /\ snapshot = {}
    /\ phase = "down"
    /\ dialog = [o \in Owners |-> None]
    /\ expired = {} /\ revoked = {} /\ missed = {} /\ lost = {}
    /\ begun = 0 /\ faults = 0 /\ crashes = 0

RestorerStep ==
    \/ RestoreNext \/ RestoreCheck \/ MarkStatus
    \/ Find(Restorer) \/ Ping(Restorer) \/ UpsertVerified(Restorer) \/ Activate(Restorer)

WorkerStep(w) ==
    \/ Lock(w)
    \/ Find(w) \/ Ping(w) \/ UpsertVerified(w) \/ Activate(w)
    \/ DeleteByOwner(w) \/ RemoveClient(w)

Next ==
    \/ \E o \in Owners :
         \/ StartAdd(o) \/ EndDialog(o)
         \/ \E n \in Names : EnterName(o, n)
         \/ \E w \in Workers, t \in Tokens : EnterToken(w, o, t)
         \/ \E w \in Workers, s \in Sellers : AskDelete(w, o, s)
    \/ \E w \in Workers : WorkerStep(w)
    \/ Boot \/ StartupDone \/ RetryTick \/ RestorerStep
    \/ \E t \in Tokens : Expire(t) \/ Revoke(t)
    \/ Crash

Spec == Init /\ [][Next]_vars

\* The ticker and the goroutines go on; sync.Mutex lets a goroutine that has
\* waited in (its starvation mode), hence strong fairness for the restorer's
\* turn.  Boot stands for the supervisor that starts the process again.
FairSpec ==
    /\ Spec
    /\ WF_vars(Boot) /\ WF_vars(StartupDone) /\ WF_vars(RetryTick) /\ SF_vars(RestorerStep)
    /\ \A w \in Workers : WF_vars(WorkerStep(w))

-----------------------------------------------------------------------------
(* Properties.                                                              *)

\* When no change is under way, a client in memory is that of an active row
\* and was built from the row's own token: neither a deleted nor a replaced
\* credential can be used, whatever the order of additions, deletions and
\* restorations (service.go, mutationMu).  Excepted is a cabinet whose addition or
\* deletion was committed and answered by an error: its old client stays.
ClientFollowsRow ==
    holder = None =>
        \A s \in Sellers : client[s] # None =>
            \/ s \in lost
            \/ row[s] # None /\ row[s].status = "active" /\ row[s].token = client[s]

\* In a process that has started, every cabinet offered as a transfer target
\* has a client of the generation the target carries, or is remembered for
\* the retry loop (restorePending): PinnedExecutor cannot refuse it for ever.
\* Excepted are the cabinets that the code does lose: an unanswered commit, a row
\* that could not be read at startup, and a MarkStatus that failed after the
\* client was removed, which restoreCabinet returns without remembering.
ServedOrPending ==
    phase = "running" /\ holder = None =>
        \A s \in Targets \ (missed \cup lost) : row[s].token \in {client[s], pending[s]}

\* Only a user's own verified token is ever written to a row: a restoration
\* working from an older listing neither brings back a deleted cabinet nor
\* puts an old token over a new one (TestRestoreCannotResurrectStaleOrDeletedCredentials).
RestoreKeepsCredentials ==
    [][\A s \in Sellers :
          row'[s] # None /\ (row[s] = None \/ row'[s].token # row[s].token) =>
              \E w \in Workers :
                  thread[w].step = "upsert" /\ thread'[w].step # "upsert"]_vars

\* A verification that ends after its dialogue was cancelled or begun anew
\* leaves the owner's present dialogue as it is (StateStore.Finish).
StaleLeaseKeepsDialog ==
    [][\A w \in Workers : \A o \in Owners :
          /\ thread[w].op = "add" /\ thread[w].owner = o /\ thread[w].step # "queued"
          /\ thread'[w].step = "idle" /\ phase' = "running"
          /\ dialog[o] # None /\ dialog[o].id # thread[w].lease
          => dialog'[o] = dialog[o]]_vars

\* A cabinet waiting for the retry loop does not wait for ever, and leaves it with
\* its client or is offered no more: it is marked or deleted, or the process stops.
\* Excepted are a cabinet whose MarkStatus failed, and one whose commit was
\* answered by an error: the retry loop passes it over, because it remembers the
\* token before that, or because the row is no longer listed.
PendingIsSettled ==
    \A s \in Sellers : pending[s] # None ~>
        \/ phase = "down" \/ s \in lost
        \/ /\ pending[s] = None
           /\ s \in Targets => row[s].token = client[s] \/ s \in missed

\* The clients in memory are current: none outlives its credential, and a
\* cabinet without its client is known to the retry loop.
ClientsAreCurrent == TypeOK /\ ClientFollowsRow /\ ServedOrPending

\* Work that goes on after its occasion is gone changes nothing: a restoration
\* from an old listing, a verification for a dialogue that has ended.
StaleWorkIsHarmless == RestoreKeepsCredentials /\ StaleLeaseKeepsDialog

=============================================================================
