--------------------------- MODULE WBCabinetProofs ---------------------------
(***************************************************************************)
(* Whatever the order of additions, deletions, restorations, failures and  *)
(* restarts, the clients in memory follow the rows, every transfer target  *)
(* is served or remembered, and work that outlives its occasion is         *)
(* harmless, for every number of owners, cabinets, tokens and goroutines.  *)
(***************************************************************************)
EXTENDS WBCabinet, TLAPS

Steps == {"idle", "queued", "check", "find", "ping", "upsert", "activate", "mark",
          "delete", "remove"}

Adding == {"find", "ping", "upsert", "activate"}

Deleting == {"delete", "remove"}

\* What the restorer may have in hand below the mutex.
Restoring == Adding \cup {"check", "mark"}

Job == [step : Steps, op : {"none", "add", "delete", "restore"}, owner : Owners \cup {None},
        name : Names \cup {None}, token : Tokens \cup {None}, seller : Sellers \cup {None},
        lease : Nat, mark : Statuses \cup {None}]

\* What a goroutine can be doing: a worker adds or deletes, the restorer restores.
ThreadOk(t, r) ==
    /\ r \in Job
    /\ r.step = "idle" <=> r.op = "none"
    /\ r.op = "add" => /\ t # Restorer
                       /\ r.step \in Adding \cup {"queued"}
                       /\ r.owner \in Owners /\ r.name \in Names /\ r.token \in Tokens
    /\ r.op = "delete" => /\ t # Restorer
                          /\ r.step \in Deleting \cup {"queued"}
                          /\ r.owner \in Owners /\ r.seller \in Sellers
    /\ r.op = "restore" => /\ t = Restorer
                           /\ r.step \in Restoring
                           /\ r.step = "mark" => r.mark \in Statuses \ {"active"}
                           /\ r.owner \in Owners /\ r.name \in Names
                           /\ r.token \in Tokens /\ r.seller \in Sellers

ThreadsOk == thread \in [Threads -> Job] /\ \A t \in Threads : ThreadOk(t, thread[t])

RowType == [owner : Owners, name : Names, token : Tokens, status : Statuses]

Dialog == [id : Nat, step : {"name", "token"}, name : Names \cup {None}, busy : BOOLEAN]

DialogsOk ==
    /\ dialog \in [Owners -> Dialog \cup {None}]
    /\ \A o \in Owners : dialog[o] # None =>
          /\ dialog[o].id \in 1..MaxDialogs
          /\ dialog[o].step = "token" => dialog[o].name \in Names

\* mutationMu is held by the goroutine that is past it, and by no other.
MutexOk ==
    /\ holder \in Threads \cup {None}
    /\ \A t \in Threads : thread[t].step \notin {"idle", "queued"} <=> holder = t

\* A process that is down keeps nothing; while it starts no handler runs.
PhaseOk ==
    /\ phase = "down" => /\ client = [s \in Sellers |-> None]
                         /\ pending = [s \in Sellers |-> None]
                         /\ snapshot = {}
                         /\ \A t \in Threads : thread[t].step = "idle"
    /\ phase = "starting" => \A w \in Workers : thread[w].step = "idle"

RowsOk == \A s \in Sellers : row[s] # None => SellerOf[row[s].token] = s

\* A listing has each seller once, and not the one that the restorer has in hand.
SnapshotOk ==
    /\ \A c, d \in snapshot : c.seller = d.seller => c = d
    /\ thread[Restorer].step # "idle" => \A c \in snapshot : c.seller # thread[Restorer].seller

\* The row is still what was listed.
Unchanged(c) ==
    /\ row[c.seller] # None
    /\ row[c.seller].owner = c.owner
    /\ row[c.seller].name = c.name
    /\ row[c.seller].token = c.token

\* A worker has committed the token of the seller and not yet put it in the map.
Activating(s) ==
    \E w \in Workers : thread[w].step = "activate" /\ SellerOf[thread[w].token] = s

\* A worker has deleted the row of the seller and not yet its client.
Removing(s) ==
    \E w \in Workers : thread[w].step = "remove" /\ thread[w].seller = s

\* The restorer has removed the client of the seller and not yet marked its row.
Marking(s) == thread[Restorer].step = "mark" /\ thread[Restorer].seller = s

Served(s) == row[s].token \in {client[s], pending[s]}

\* A row that another owner has taken over since it was listed has its client.
TakenOverOk(c) ==
    row[c.seller] # None /\ row[c.seller].owner # c.owner =>
        \/ row[c.seller].token = client[c.seller]
        \/ c.seller \in lost
        \/ Activating(c.seller)

ListingOk ==
    /\ \A c \in snapshot : TakenOverOk(c) /\ (phase = "starting" => Unchanged(c))
    /\ thread[Restorer].step = "check" =>
          /\ TakenOverOk(thread[Restorer])
          /\ phase = "starting" => Unchanged(thread[Restorer])

IsRowOf(s, t) ==
    /\ row[s] # None
    /\ row[s].status = "active"
    /\ row[s].token = thread[t].token

\* What is under way below the mutex still holds of the rows.
UnderWayOk ==
    /\ \A w \in Workers :
          /\ thread[w].step = "activate" => IsRowOf(SellerOf[thread[w].token], w)
          /\ thread[w].step = "remove" => row[thread[w].seller] = None
    /\ thread[Restorer].step \in Adding \cup {"mark"} =>
          /\ IsRowOf(thread[Restorer].seller, Restorer)
          /\ row[thread[Restorer].seller].owner = thread[Restorer].owner
    /\ thread[Restorer].step = "mark" => client[thread[Restorer].seller] = None

\* A client is that of the row of its seller, except between the two changes.
FollowsOk ==
    \A s \in Sellers : client[s] # None =>
        \/ s \in lost
        \/ row[s] # None /\ row[s].status = "active" /\ row[s].token = client[s]
        \/ Activating(s)
        \/ Removing(s)

\* A target is served or remembered, except between the two changes and before
\* the restoration at startup has come to it.
ServedOk ==
    phase # "down" =>
        \A s \in Targets \ (missed \cup lost) :
            \/ Served(s)
            \/ Activating(s)
            \/ Marking(s)
            \/ /\ phase = "starting"
               /\ \/ \E c \in snapshot : c.seller = s
                  \/ thread[Restorer].step # "idle" /\ thread[Restorer].seller = s

Inv ==
    /\ TypeOK /\ ThreadsOk /\ DialogsOk /\ MutexOk /\ PhaseOk /\ RowsOk
    /\ SnapshotOk /\ ListingOk /\ UnderWayOk /\ FollowsOk /\ ServedOk

-----------------------------------------------------------------------------
(* The state functions that the changes are built from.                     *)

LEMMA NoneIsOutside ==
    /\ None \notin Owners /\ None \notin Sellers /\ None \notin Names /\ None \notin Tokens
    /\ None \notin Threads /\ None \notin RowType
    /\ Restorer \notin Workers /\ Restorer \in Threads /\ Workers \subseteq Threads
    /\ Threads = Workers \cup {Restorer}
BY ConstantsAssumption DEF Threads, RowType

LEMMA SellerOfToken ==
    ASSUME NEW t \in Tokens PROVE SellerOf[t] \in Sellers
BY ConstantsAssumption

LEMMA RowIsTyped ==
    ASSUME TypeOK, NEW s \in Sellers, row[s] # None
    PROVE  row[s] \in RowType
BY DEF TypeOK, RowType

\* The goroutine inside the mutex is alone in it.
LEMMA Exclusive ==
    ASSUME MutexOk, NEW t \in Threads, thread[t].step \notin {"idle", "queued"}
    PROVE  /\ holder = t
           /\ \A u \in Threads : u # t => thread[u].step \in {"idle", "queued"}
BY DEF MutexOk

LEMMA Free ==
    ASSUME MutexOk, holder = None
    PROVE  \A u \in Threads : thread[u].step \in {"idle", "queued"}
BY NoneIsOutside DEF MutexOk

\* When a goroutine returns, its thread is idle and the mutex is free.
LEMMA ReturnFrees ==
    ASSUME MutexOk, ThreadsOk, NEW t \in Threads, thread[t].step \notin {"idle", "queued"},
           holder' = None, thread' = [thread EXCEPT ![t] = Idle]
    PROVE  /\ MutexOk' /\ ThreadsOk'
           /\ thread'[t] = Idle /\ thread'[t].step = "idle"
           /\ \A u \in Threads : u # t => thread'[u] = thread[u]
           /\ \A u \in Threads : thread'[u].step \in {"idle", "queued"}
<1>1. Idle \in Job /\ Idle.step = "idle" /\ Idle.op = "none"
  BY DEF Idle, Job, Steps
<1>2. /\ thread'[t] = Idle
      /\ \A u \in Threads : u # t => thread'[u] = thread[u]
  BY DEF ThreadsOk
<1>3. \A u \in Threads : u # t => thread[u].step \in {"idle", "queued"}
  BY Exclusive
<1>4. \A u \in Threads : thread'[u].step \in {"idle", "queued"}
  BY <1>1, <1>2, <1>3
<1>5. MutexOk'
  BY <1>4, NoneIsOutside DEF MutexOk
<1>6. \A u \in Threads : ThreadOk(u, thread'[u])
  <2> SUFFICES ASSUME NEW u \in Threads PROVE ThreadOk(u, thread'[u])
    OBVIOUS
  <2>1. CASE u = t
    BY <1>1, <1>2, <2>1 DEF ThreadOk
  <2>2. CASE u # t
    BY <1>2, <2>2 DEF ThreadsOk
  <2> QED
    BY <2>1, <2>2
<1>7. thread' \in [Threads -> Job]
  BY <1>1 DEF ThreadsOk
<1>8. ThreadsOk'
  BY <1>6, <1>7 DEF ThreadsOk, ThreadOk
<1> QED
  BY <1>1, <1>2, <1>4, <1>5, <1>8

\* Only one thread's step and what it holds change.
LEMMA StepKeepsMutex ==
    ASSUME MutexOk, ThreadsOk, NEW t \in Threads, NEW step \in Steps \ {"idle", "queued"},
           thread[t].step \notin {"idle", "queued"},
           thread' = [thread EXCEPT ![t].step = step], UNCHANGED holder
    PROVE  /\ MutexOk'
           /\ thread'[t] = [thread[t] EXCEPT !.step = step]
           /\ thread'[t] \in Job
           /\ \A u \in Threads : u # t => thread'[u] = thread[u]
<1>1. thread \in [Threads -> Job]
  BY DEF ThreadsOk
<1>2. /\ thread'[t] = [thread[t] EXCEPT !.step = step]
      /\ \A u \in Threads : u # t => thread'[u] = thread[u]
  BY <1>1
<1>3. thread'[t] \in Job /\ thread'[t].step = step
  BY <1>1, <1>2 DEF Job
<1> QED
  BY <1>2, <1>3 DEF MutexOk

-----------------------------------------------------------------------------
(* Steps of a worker that change neither a row nor a client.                *)

\* What the invariant says beside the types and the mutex.
Consistent ==
    PhaseOk /\ RowsOk /\ SnapshotOk /\ ListingOk /\ UnderWayOk /\ FollowsOk /\ ServedOk

LEMMA WorkingMeansRunning ==
    ASSUME TypeOK, PhaseOk, NEW w \in Workers, thread[w].step # "idle"
    PROVE  phase = "running"
BY NoneIsOutside DEF TypeOK, PhaseOk

\* A worker that is neither between committing and activating nor between
\* deleting and removing may go to any other such step.
LEMMA WorkerMoves ==
    ASSUME Inv, NEW w \in Workers, phase = "running",
           thread[w].step \notin {"activate", "remove"},
           thread'[w].step \notin {"activate", "remove"},
           \A u \in Threads : u # w => thread'[u] = thread[u],
           UNCHANGED <<row, client, pending, snapshot, phase, expired, missed, lost>>
    PROVE  Consistent'
<1>1. thread'[Restorer] = thread[Restorer]
  BY NoneIsOutside
<1>2. \A v \in Workers : thread'[v].step \in {"activate", "remove"}
                         \/ thread[v].step \in {"activate", "remove"} =>
                            v # w /\ thread'[v] = thread[v]
  BY NoneIsOutside
<1>3. ASSUME NEW s
      PROVE  (Activating(s)' <=> Activating(s)) /\ (Removing(s)' <=> Removing(s))
  BY <1>2 DEF Activating, Removing
<1>4. PhaseOk'
  BY DEF PhaseOk
<1>5. RowsOk' /\ SnapshotOk'
  BY <1>1 DEF Inv, RowsOk, SnapshotOk
<1>6. ListingOk'
  BY <1>1, <1>3 DEF Inv, ListingOk, TakenOverOk, Unchanged
<1>7. UnderWayOk'
  BY <1>1, <1>2 DEF Inv, UnderWayOk, IsRowOf
<1>8. FollowsOk'
  BY <1>3 DEF Inv, FollowsOk
<1>9. ServedOk'
  BY <1>1, <1>3 DEF Inv, ServedOk, Served, Marking, Targets
<1> QED
  BY <1>4, <1>5, <1>6, <1>7, <1>8, <1>9 DEF Consistent

LEMMA FinishIsTyped ==
    ASSUME DialogsOk, NEW o \in Owners, NEW lease, NEW retry
    PROVE  LET d == Finish(o, lease, retry)
           IN  /\ d \in Dialog \cup {None}
               /\ d # None => /\ d.id \in 1..MaxDialogs
                              /\ d.step = "token" => d.name \in Names
<1>1. dialog[o] \in Dialog \cup {None}
  BY DEF DialogsOk
<1>2. CASE dialog[o] = None
  BY <1>1, <1>2 DEF Finish
<1>3. CASE dialog[o] # None
  <2>1. dialog[o] \in Dialog /\ [dialog[o] EXCEPT !.busy = FALSE] \in Dialog
        /\ [dialog[o] EXCEPT !.busy = FALSE].id = dialog[o].id
        /\ [dialog[o] EXCEPT !.busy = FALSE].step = dialog[o].step
        /\ [dialog[o] EXCEPT !.busy = FALSE].name = dialog[o].name
    BY <1>1, <1>3 DEF Dialog
  <2> QED
    BY <1>3, <2>1 DEF Finish, DialogsOk
<1> QED
  BY <1>2, <1>3

\* A worker returns: its dialogue, if it still is the one, goes on or ends.
LEMMA WorkerReturnsOk ==
    ASSUME TypeOK, ThreadsOk, DialogsOk, MutexOk, NEW w \in Workers, NEW result,
           thread[w].step \in Adding \cup Deleting,
           WorkerReturns(w, result)
    PROVE  /\ DialogsOk' /\ MutexOk' /\ ThreadsOk'
           /\ thread'[w] = Idle /\ thread'[w].step = "idle"
           /\ \A u \in Threads : u # w => thread'[u] = thread[u]
           /\ thread' \in [Threads -> Job] /\ holder' = None
<1>1. w \in Threads /\ ThreadOk(w, thread[w])
  BY NoneIsOutside DEF ThreadsOk
<1>2. /\ MutexOk' /\ ThreadsOk'
      /\ thread'[w] = Idle /\ thread'[w].step = "idle"
      /\ \A u \in Threads : u # w => thread'[u] = thread[u]
  BY <1>1, ReturnFrees DEF WorkerReturns, Adding, Deleting
<1>3. DialogsOk'
  <2>1. CASE thread[w].op = "delete"
    BY <2>1 DEF WorkerReturns, DialogsOk
  <2>2. CASE thread[w].op # "delete"
    <3> DEFINE o == thread[w].owner
               d == Finish(o, thread[w].lease, result # "added")
    <3>1. o \in Owners
      BY <1>1, <2>2, NoneIsOutside DEF ThreadOk, Adding, Deleting, Job
    <3>2. dialog' = [dialog EXCEPT ![o] = d]
      BY <2>2 DEF WorkerReturns
    <3>3. d \in Dialog \cup {None}
          /\ (d # None => d.id \in 1..MaxDialogs /\ (d.step = "token" => d.name \in Names))
      BY <3>1, FinishIsTyped
    <3> HIDE DEF d, o
    <3> QED
      BY <3>1, <3>2, <3>3 DEF DialogsOk
  <2> QED
    BY <2>1, <2>2
<1> QED
  BY <1>2, <1>3 DEF ThreadsOk, WorkerReturns

-----------------------------------------------------------------------------
(* The steps of a worker.                                                   *)

\* The types of what is neither a thread nor a dialogue.
DataOk ==
    /\ row \in [Sellers -> {None} \cup RowType]
    /\ client \in [Sellers -> Tokens \cup {None}]
    /\ pending \in [Sellers -> Tokens \cup {None}]
    /\ snapshot \subseteq Stored
    /\ phase \in {"down", "starting", "running"}
    /\ expired \subseteq Tokens /\ revoked \subseteq Tokens
    /\ missed \subseteq Sellers /\ lost \subseteq Sellers
    /\ begun \in 0..MaxDialogs /\ faults \in 0..MaxFaults /\ crashes \in 0..MaxCrashes

LEMMA TypeOKParts ==
    /\ TypeOK => DataOk
    /\ DataOk /\ ThreadsOk /\ DialogsOk /\ MutexOk => TypeOK
<1>1. TypeOK => DataOk
  BY DEF TypeOK, DataOk, RowType
<1>2. ASSUME DataOk, ThreadsOk, DialogsOk, MutexOk PROVE TypeOK
  <2>1. \A t \in Threads : thread[t].step \in Steps
                           /\ thread[t].op \in {"none", "add", "delete", "restore"}
    BY <1>2 DEF ThreadsOk, Job
  <2>2. \A o \in Owners : dialog[o] = None \/ (dialog[o].id \in 1..MaxDialogs
                                               /\ dialog[o].busy \in BOOLEAN)
    BY <1>2 DEF DialogsOk, Dialog
  <2> QED
    BY <1>2, <2>1, <2>2 DEF TypeOK, DataOk, RowType, MutexOk, Steps
<1> QED
  BY <1>1, <1>2

\* The invariant, and its parts.
LEMMA InvParts ==
    Inv <=> DataOk /\ ThreadsOk /\ DialogsOk /\ MutexOk /\ Consistent
BY TypeOKParts DEF Inv, Consistent

LEMMA InvPartsNext ==
    Inv' <=> (DataOk /\ ThreadsOk /\ DialogsOk /\ MutexOk /\ Consistent)'
BY InvParts, PTL

\* The dialogue alone.
LEMMA DialogStepKeepsInv ==
    ASSUME Inv, DialogsOk', begun' \in 0..MaxDialogs,
           UNCHANGED <<row, client, pending, holder, thread, snapshot, phase, world,
                       faults, crashes>>
    PROVE  Inv'
<1>1. DataOk'
  BY TypeOKParts DEF Inv, DataOk, world
<1>2. ThreadsOk' /\ MutexOk'
  BY DEF Inv, ThreadsOk, ThreadOk, MutexOk
<1>3. Consistent'
  BY DEF Inv, Consistent, PhaseOk, RowsOk, SnapshotOk, ListingOk, UnderWayOk, FollowsOk, ServedOk,
         TakenOverOk, Unchanged, IsRowOf, Activating, Removing, Marking, Served, Targets, world
<1> QED
  BY <1>1, <1>2, <1>3, InvPartsNext

LEMMA DialogActionKeepsInv ==
    ASSUME Inv, NEW o \in Owners,
           StartAdd(o) \/ EndDialog(o) \/ \E n \in Names : EnterName(o, n)
    PROVE  Inv'
<1>1. DialogsOk /\ begun \in 0..MaxDialogs /\ MaxDialogs \in Nat
  BY ConstantsAssumption DEF Inv, TypeOK
<1>2. CASE StartAdd(o)
  <2> DEFINE d == [id |-> begun + 1, step |-> "name", name |-> None, busy |-> FALSE]
  <2>1. d \in Dialog /\ d.id \in 1..MaxDialogs /\ d.step # "token" /\ begun + 1 \in 0..MaxDialogs
    BY <1>1, <1>2 DEF StartAdd, Dialog
  <2>2. dialog' = [dialog EXCEPT ![o] = d]
    BY <1>2 DEF StartAdd
  <2> HIDE DEF d
  <2>3. DialogsOk'
    BY <1>1, <2>1, <2>2 DEF DialogsOk
  <2>4. begun' \in 0..MaxDialogs
    BY <1>2, <2>1 DEF StartAdd
  <2> QED
    BY <1>2, <2>3, <2>4, DialogStepKeepsInv DEF StartAdd
<1>3. CASE EndDialog(o)
  <2>1. DialogsOk'
    BY <1>1, <1>3 DEF EndDialog, DialogsOk
  <2> QED
    BY <1>1, <1>3, <2>1, DialogStepKeepsInv DEF EndDialog, counts
<1>4. ASSUME NEW n \in Names, EnterName(o, n)
      PROVE  Inv'
  <2> DEFINE d == [dialog[o] EXCEPT !.step = "token", !.name = n]
  <2>1. dialog[o] \in Dialog /\ dialog[o].id \in 1..MaxDialogs
    BY <1>1, <1>4 DEF EnterName, DialogsOk
  <2>2. d \in Dialog /\ d.id = dialog[o].id /\ d.name = n
    BY <2>1 DEF Dialog
  <2>3. dialog' = [dialog EXCEPT ![o] = d]
    BY <1>1, <1>4 DEF EnterName, DialogsOk
  <2> HIDE DEF d
  <2>4. DialogsOk'
    BY <1>1, <2>1, <2>2, <2>3 DEF DialogsOk
  <2> QED
    BY <1>1, <1>4, <2>4, DialogStepKeepsInv DEF EnterName, counts
<1> QED
  BY <1>2, <1>3, <1>4

\* A handler begins: its goroutine waits for the mutex.
LEMMA QueueKeepsInv ==
    ASSUME Inv, NEW w \in Workers, NEW r \in Job, thread[w].step = "idle", phase = "running",
           ThreadOk(w, r), r.step = "queued",
           thread' = [thread EXCEPT ![w] = r], DialogsOk', begun' \in 0..MaxDialogs,
           UNCHANGED <<row, client, pending, holder, snapshot, phase, world, faults, crashes>>
    PROVE  Inv'
<1>1. w \in Threads /\ ThreadsOk /\ MutexOk
  BY NoneIsOutside DEF Inv
<1>2. thread'[w] = r /\ \A u \in Threads : u # w => thread'[u] = thread[u]
  BY <1>1 DEF ThreadsOk
<1>3. ThreadsOk'
  <2>1. thread' \in [Threads -> Job]
    BY <1>1 DEF ThreadsOk
  <2>2. \A u \in Threads : ThreadOk(u, thread'[u])
    BY <1>1, <1>2 DEF ThreadsOk
  <2> QED
    BY <2>1, <2>2 DEF ThreadsOk, ThreadOk
<1>4. MutexOk'
  BY <1>1, <1>2 DEF MutexOk
<1>5. Consistent'
  BY <1>2, WorkerMoves DEF world
<1>6. DataOk'
  BY TypeOKParts DEF Inv, DataOk, world
<1> QED
  BY <1>3, <1>4, <1>5, <1>6, InvPartsNext

LEMMA EnterTokenKeepsInv ==
    ASSUME Inv, NEW w \in Workers, NEW o \in Owners, NEW t \in Tokens, EnterToken(w, o, t)
    PROVE  Inv'
<1> DEFINE r == [step |-> "queued", op |-> "add", owner |-> o, name |-> dialog[o].name,
                 token |-> t, seller |-> None, lease |-> dialog[o].id, mark |-> None]
           d == [dialog[o] EXCEPT !.busy = TRUE]
<1>1. /\ dialog[o] \in Dialog /\ dialog[o].name \in Names /\ dialog[o].id \in 1..MaxDialogs
      /\ DialogsOk /\ begun \in 0..MaxDialogs
  BY DEF EnterToken, Inv, DialogsOk, TypeOK
<1>2. d \in Dialog /\ d.id = dialog[o].id /\ d.name = dialog[o].name
  BY <1>1 DEF Dialog
<1>3. r \in Job /\ ThreadOk(w, r)
  BY <1>1, NoneIsOutside DEF Job, ThreadOk, Steps, Adding, Deleting, Dialog
<1>4. dialog' = [dialog EXCEPT ![o] = d] /\ thread' = [thread EXCEPT ![w] = r]
  BY <1>1 DEF EnterToken, DialogsOk
<1>5. DialogsOk'
  <2> HIDE DEF d, r
  <2> QED
    BY <1>1, <1>2, <1>4 DEF DialogsOk
<1>6. r.step = "queued"
  OBVIOUS
<1> HIDE DEF d, r
<1> QED
  BY <1>1, <1>3, <1>4, <1>5, <1>6, QueueKeepsInv DEF EnterToken, counts

LEMMA AskDeleteKeepsInv ==
    ASSUME Inv, NEW w \in Workers, NEW o \in Owners, NEW s \in Sellers, AskDelete(w, o, s)
    PROVE  Inv'
<1> DEFINE r == [Idle EXCEPT !.step = "queued", !.op = "delete", !.owner = o, !.seller = s]
<1>1. r = [step |-> "queued", op |-> "delete", owner |-> o, name |-> None,
           token |-> None, seller |-> s, lease |-> 0, mark |-> None]
  <2> DEFINE r1 == [Idle EXCEPT !.step = "queued"]
             r2 == [r1 EXCEPT !.op = "delete"]
             r3 == [r2 EXCEPT !.owner = o]
  <2>1. r1 = [step |-> "queued", op |-> "none", owner |-> None, name |-> None,
              token |-> None, seller |-> None, lease |-> 0, mark |-> None]
    BY DEF Idle
  <2>2. r = [r3 EXCEPT !.seller = s]
    OBVIOUS
  <2> HIDE DEF r1, r
  <2>3. r2 = [step |-> "queued", op |-> "delete", owner |-> None, name |-> None,
              token |-> None, seller |-> None, lease |-> 0, mark |-> None]
    BY <2>1
  <2> HIDE DEF r2
  <2>4. r3 = [step |-> "queued", op |-> "delete", owner |-> o, name |-> None,
              token |-> None, seller |-> None, lease |-> 0, mark |-> None]
    BY <2>3
  <2> HIDE DEF r3
  <2> QED
    BY <2>2, <2>4
<1>2. thread' = [thread EXCEPT ![w] = r] /\ DialogsOk' /\ begun' \in 0..MaxDialogs
  BY ConstantsAssumption DEF AskDelete, Inv, DialogsOk, TypeOK
<1> HIDE DEF r
<1>3. r \in Job /\ ThreadOk(w, r) /\ r.step = "queued"
  BY <1>1, NoneIsOutside DEF Job, ThreadOk, Steps, Adding, Deleting
<1> QED
  BY <1>2, <1>3, QueueKeepsInv DEF AskDelete

LEMMA LockKeepsInv ==
    ASSUME Inv, NEW w \in Workers, Lock(w)
    PROVE  Inv'
<1> DEFINE step == IF thread[w].op = "add" THEN "find" ELSE "delete"
           r == [thread[w] EXCEPT !.step = step]
<1>1. w \in Threads /\ ThreadsOk /\ MutexOk /\ ThreadOk(w, thread[w]) /\ thread[w] \in Job
  BY NoneIsOutside DEF Inv, ThreadsOk
<1>2. thread' = [thread EXCEPT ![w] = r] /\ holder' = w /\ holder = None
      /\ thread[w].step = "queued"
  BY <1>1 DEF Lock, MayEnter
<1>3. /\ r \in Job /\ r.step = step /\ r.op = thread[w].op /\ r.owner = thread[w].owner
      /\ r.name = thread[w].name /\ r.token = thread[w].token /\ r.seller = thread[w].seller
  BY <1>1 DEF Job, Steps
<1>4. ThreadOk(w, r)
  BY <1>1, <1>2, <1>3, NoneIsOutside DEF ThreadOk, Adding, Deleting, Job
<1>5. r.step \in {"find", "delete"}
  BY <1>3
<1> HIDE DEF r, step
<1>6. thread'[w] = r /\ \A u \in Threads : u # w => thread'[u] = thread[u]
  BY <1>1, <1>2 DEF ThreadsOk
<1>7. ThreadsOk'
  <2>1. thread' \in [Threads -> Job]
    BY <1>1, <1>2, <1>3 DEF ThreadsOk
  <2>2. \A u \in Threads : ThreadOk(u, thread'[u])
    BY <1>1, <1>4, <1>6 DEF ThreadsOk
  <2> QED
    BY <2>1, <2>2 DEF ThreadsOk, ThreadOk
<1>8. MutexOk'
  <2>1. \A u \in Threads : thread[u].step \in {"idle", "queued"}
    BY <1>1, <1>2, Free
  <2> QED
    BY <1>1, <1>2, <1>5, <1>6, <2>1 DEF MutexOk
<1>9. phase = "running"
  BY <1>2, WorkingMeansRunning DEF Inv
<1>10. Consistent'
  <2>1. UNCHANGED <<row, client, pending, snapshot, phase, expired, missed, lost>>
    BY DEF Lock, world
  <2>2. thread[w].step \notin {"activate", "remove"} /\ thread'[w].step \notin {"activate", "remove"}
    BY <1>2, <1>5, <1>6
  <2> QED
    BY <1>6, <1>9, <2>1, <2>2, WorkerMoves
<1>11. DataOk' /\ DialogsOk'
  BY TypeOKParts DEF Inv, Lock, DataOk, DialogsOk, world, counts
<1> QED
  BY <1>7, <1>8, <1>10, <1>11, InvPartsNext

\* What a worker that is past the mutex has in hand.
LEMMA WorkerInHand ==
    ASSUME Inv, NEW w \in Workers, thread[w].step \notin {"idle", "queued"}
    PROVE  /\ w \in Threads /\ w # Restorer /\ phase = "running"
           /\ thread[w].step \in Adding \cup Deleting
           /\ thread[w].step \in Adding => thread[w].op = "add"
           /\ thread[w].step \in Deleting => thread[w].op = "delete"
           /\ thread[w].op # "restore"
           /\ thread[w].owner \in Owners
           /\ thread[w].op = "add" => /\ thread[w].name \in Names /\ thread[w].token \in Tokens
                                      /\ SellerOf[thread[w].token] \in Sellers
           /\ thread[w].op = "delete" => thread[w].seller \in Sellers
           /\ \A u \in Threads : u # w => thread[u].step \in {"idle", "queued"}
<1>1. w \in Threads /\ w # Restorer /\ ThreadOk(w, thread[w])
  BY NoneIsOutside DEF Inv, ThreadsOk
<1>2. phase = "running"
  BY WorkingMeansRunning DEF Inv
<1>3. thread[w].step \in Adding \cup Deleting
      /\ (thread[w].step \in Adding => thread[w].op = "add")
      /\ (thread[w].step \in Deleting => thread[w].op = "delete")
  BY <1>1 DEF ThreadOk, Adding, Deleting, Job, Steps
<1>4. \A u \in Threads : u # w => thread[u].step \in {"idle", "queued"}
  BY <1>1, Exclusive DEF Inv
<1> QED
  BY <1>1, <1>2, <1>3, <1>4, SellerOfToken DEF ThreadOk

LEMMA WorkerGivesUpKeepsInv ==
    ASSUME Inv, NEW w \in Workers, thread[w].step \in {"find", "ping", "upsert", "delete"},
           NEW err, WorkerReturns(w, err), faults' \in 0..MaxFaults,
           UNCHANGED <<row, client, pending, snapshot, phase, world, begun, crashes>>
    PROVE  Inv'
<1>1. phase = "running" /\ thread[w].step \in Adding \cup Deleting
  BY WorkerInHand
<1>2. /\ DialogsOk' /\ MutexOk' /\ ThreadsOk' /\ thread'[w].step = "idle"
      /\ \A u \in Threads : u # w => thread'[u] = thread[u]
  BY <1>1, WorkerReturnsOk DEF Inv
<1>3. Consistent'
  BY <1>1, <1>2, WorkerMoves DEF world
<1>4. DataOk'
  BY TypeOKParts DEF Inv, DataOk, world
<1> QED
  BY <1>2, <1>3, <1>4, InvPartsNext

LEMMA WorkerFailsKeepsInv ==
    ASSUME Inv, NEW w \in Workers, thread[w].step \in {"find", "ping", "upsert"},
           NEW err, AddFails(w, err), faults' \in 0..MaxFaults,
           UNCHANGED <<row, snapshot, phase, world, begun, crashes>>
    PROVE  Inv'
<1>1. thread[w].op # "restore"
  BY WorkerInHand
<1> QED
  BY <1>1, WorkerGivesUpKeepsInv DEF AddFails

\* A worker goes on to ask Wildberries, or to write the row.
LEMMA WorkerGoesOnKeepsInv ==
    ASSUME Inv, NEW w \in Workers, thread[w].step \in {"find", "ping"},
           NEW step \in {"ping", "upsert"}, GoTo(w, step),
           UNCHANGED <<row, client, pending, holder, dialog, snapshot, phase, world, counts>>
    PROVE  Inv'
<1>1. w \in Threads /\ phase = "running" /\ thread[w].op = "add"
  BY WorkerInHand DEF Adding
<1>2. /\ MutexOk' /\ thread'[w] = [thread[w] EXCEPT !.step = step] /\ thread'[w] \in Job
      /\ \A u \in Threads : u # w => thread'[u] = thread[u]
  BY <1>1, StepKeepsMutex DEF Inv, GoTo, Steps
<1>3. thread[w] \in Job /\ ThreadOk(w, thread[w])
  BY <1>1 DEF Inv, ThreadsOk
<1>4. /\ thread'[w].step = step /\ thread'[w].op = thread[w].op
      /\ thread'[w].owner = thread[w].owner /\ thread'[w].name = thread[w].name
      /\ thread'[w].token = thread[w].token /\ thread'[w].seller = thread[w].seller
  BY <1>2, <1>3 DEF Job
<1>5. ThreadOk(w, thread'[w])
  BY <1>1, <1>2, <1>3, <1>4 DEF ThreadOk, Adding, Deleting
<1>6. ThreadsOk'
  <2>1. thread' \in [Threads -> Job]
    BY <1>2, <1>3 DEF GoTo, Inv, ThreadsOk
  <2>2. \A u \in Threads : ThreadOk(u, thread'[u])
    BY <1>2, <1>5 DEF Inv, ThreadsOk
  <2> QED
    BY <2>1, <2>2 DEF ThreadsOk, ThreadOk
<1>7. Consistent'
  BY <1>1, <1>2, <1>4, WorkerMoves DEF world
<1>8. DataOk' /\ DialogsOk'
  BY TypeOKParts DEF Inv, DataOk, DialogsOk, world, counts
<1> QED
  BY <1>2, <1>6, <1>7, <1>8, InvPartsNext

LEMMA FaultsStayBounded ==
    ASSUME Inv, NEW kind, Fault(kind)
    PROVE  faults' \in 0..MaxFaults
BY ConstantsAssumption DEF Inv, TypeOK, Fault

LEMMA WorkerFindKeepsInv ==
    ASSUME Inv, NEW w \in Workers, Find(w) PROVE Inv'
<1>1. /\ thread[w].step = "find" /\ faults \in 0..MaxFaults
      /\ UNCHANGED <<row, snapshot, phase, world, begun, crashes>>
  BY DEF Find, At, Inv, TypeOK
<1>2. CASE GoTo(w, "ping") /\ UNCHANGED <<client, pending, holder, dialog, faults>>
  BY <1>1, <1>2, WorkerGoesOnKeepsInv DEF counts
<1>3. CASE AddFails(w, AddError(w)) /\ UNCHANGED faults
  BY <1>1, <1>3, WorkerFailsKeepsInv
<1>4. CASE Fault("database") /\ \E err \in DatabaseErrors : AddFails(w, err)
  BY <1>1, <1>4, FaultsStayBounded, WorkerFailsKeepsInv
<1> QED
  BY <1>2, <1>3, <1>4 DEF Find

LEMMA WorkerPingKeepsInv ==
    ASSUME Inv, NEW w \in Workers, Ping(w) PROVE Inv'
<1>1. /\ thread[w].step = "ping" /\ faults \in 0..MaxFaults
      /\ UNCHANGED <<row, snapshot, phase, world, begun, crashes>>
  BY DEF Ping, At, Inv, TypeOK
<1>2. CASE GoTo(w, "upsert") /\ UNCHANGED <<client, pending, holder, dialog, faults>>
  BY <1>1, <1>2, WorkerGoesOnKeepsInv DEF counts
<1>3. ASSUME NEW err, AddFails(w, err), faults' \in 0..MaxFaults PROVE Inv'
  BY <1>1, <1>3, WorkerFailsKeepsInv
<1> QED
  BY <1>1, <1>2, <1>3, FaultsStayBounded DEF Ping

\* Nothing is under way below the mutex but what the worker has in hand.
LEMMA OnlyWorker ==
    ASSUME Inv, NEW w \in Workers, thread[w].step \notin {"idle", "queued"},
           \A u \in Threads : u # w => thread'[u] = thread[u]
    PROVE  /\ thread'[Restorer] = thread[Restorer]
           /\ thread[Restorer].step \in {"idle", "queued"}
           /\ \A v \in Workers : v # w => thread[v].step \in {"idle", "queued"}
                                          /\ thread'[v] = thread[v]
           /\ \A q : Activating(q)
                       <=> thread[w].step = "activate" /\ SellerOf[thread[w].token] = q
           /\ \A q : Activating(q)'
                       <=> thread'[w].step = "activate" /\ SellerOf[thread'[w].token] = q
           /\ \A q : Removing(q) <=> thread[w].step = "remove" /\ thread[w].seller = q
           /\ \A q : Removing(q)' <=> thread'[w].step = "remove" /\ thread'[w].seller = q
<1>1. \A u \in Threads : u # w => thread[u].step \in {"idle", "queued"}
  BY WorkerInHand
<1>2. \A v \in Workers : v # w => thread[v].step \in {"idle", "queued"}
                                  /\ thread'[v] = thread[v]
  BY <1>1, NoneIsOutside
<1> QED
  BY <1>1, <1>2, NoneIsOutside DEF Activating, Removing

LEMMA WorkerDeleteKeepsInv ==
    ASSUME Inv, NEW w \in Workers, DeleteByOwner(w) PROVE Inv'
<1>0. PICK s : s = thread[w].seller
  OBVIOUS
<1>1. /\ w \in Threads /\ w # Restorer /\ phase = "running" /\ thread[w].step = "delete"
      /\ thread[w].op = "delete" /\ s \in Sellers
      /\ thread[w] \in Job /\ ThreadOk(w, thread[w]) /\ faults \in 0..MaxFaults
  BY <1>0, WorkerInHand DEF DeleteByOwner, At, Deleting, Inv, ThreadsOk, TypeOK
<1>2. UNCHANGED <<client, pending, snapshot, phase, expired, revoked, missed, begun, crashes>>
  BY DEF DeleteByOwner
<1>3. ASSUME NEW err, WorkerReturns(w, err), faults' \in 0..MaxFaults, UNCHANGED <<row, lost>>
      PROVE  Inv'
  BY <1>1, <1>2, <1>3, WorkerGivesUpKeepsInv DEF world
<1>4. ASSUME row' = [row EXCEPT ![s] = None],
             \A u \in Threads : u # w => thread'[u] = thread[u],
             lost \subseteq lost', \A q \in lost' : q \in lost \/ q = s,
             \/ thread'[w].step = "remove" /\ thread'[w].seller = s
             \/ thread'[w].step = "idle" /\ s \in lost'
      PROVE  Consistent' /\ row' \in [Sellers -> {None} \cup RowType]
  <2>1. row'[s] = None /\ (\A q \in Sellers : q # s => row'[q] = row[q])
        /\ row' \in [Sellers -> {None} \cup RowType]
    BY <1>1, <1>4, TypeOKParts DEF Inv, DataOk
  <2>2. /\ thread'[Restorer] = thread[Restorer] /\ thread[Restorer].step \in {"idle", "queued"}
        /\ \A q : ~Activating(q) /\ ~Activating(q)' /\ ~Removing(q)
        /\ s \in lost' \/ Removing(s)'
        /\ \A v \in Workers : v # w => thread'[v].step \in {"idle", "queued"}
    BY <1>1, <1>4, OnlyWorker
  <2>3. PhaseOk' /\ RowsOk' /\ SnapshotOk'
    BY <1>1, <1>2, <2>1, <2>2 DEF Inv, PhaseOk, RowsOk, SnapshotOk
  <2>4. ListingOk'
    <3>1. \A c \in snapshot : c.seller \in Sellers
      BY DEF Inv, TypeOK, Stored
    <3>2. \A c \in snapshot : TakenOverOk(c)'
      BY <1>2, <1>4, <2>1, <2>2, <3>1 DEF Inv, ListingOk, TakenOverOk
    <3> QED
      BY <1>1, <1>2, <2>2, <3>2 DEF ListingOk
  <2>5. UnderWayOk'
    BY <1>4, <2>1, <2>2 DEF UnderWayOk, Adding
  <2>6. FollowsOk'
    BY <1>2, <1>4, <2>1, <2>2 DEF Inv, FollowsOk
  <2>7. ServedOk'
    BY <1>1, <1>2, <1>4, <2>1, <2>2 DEF Inv, ServedOk, Served, Marking, Targets
  <2> QED
    BY <2>1, <2>3, <2>4, <2>5, <2>6, <2>7 DEF Consistent
<1>5. CASE row' = [row EXCEPT ![s] = None] /\ GoTo(w, "remove")
           /\ UNCHANGED <<holder, dialog, faults, lost>>
  <2>1. /\ MutexOk' /\ thread'[w] = [thread[w] EXCEPT !.step = "remove"] /\ thread'[w] \in Job
        /\ \A u \in Threads : u # w => thread'[u] = thread[u]
    BY <1>1, <1>5, StepKeepsMutex DEF Inv, GoTo, Steps
  <2>2. /\ thread'[w].step = "remove" /\ thread'[w].op = thread[w].op
        /\ thread'[w].owner = thread[w].owner /\ thread'[w].seller = s
    BY <1>0, <1>1, <2>1 DEF Job
  <2>3. ThreadsOk'
    <3>1. ThreadOk(w, thread'[w])
      BY <1>1, <2>1, <2>2 DEF ThreadOk, Adding, Deleting
    <3>2. thread' \in [Threads -> Job]
      BY <1>1, <1>5, <2>1 DEF GoTo, Inv, ThreadsOk
    <3>3. \A u \in Threads : ThreadOk(u, thread'[u])
      BY <2>1, <3>1 DEF Inv, ThreadsOk
    <3> QED
      BY <3>2, <3>3 DEF ThreadsOk, ThreadOk
  <2>4. Consistent' /\ row' \in [Sellers -> {None} \cup RowType]
    BY <1>4, <1>5, <2>1, <2>2
  <2>5. DataOk' /\ DialogsOk'
    BY <1>2, <1>5, <2>4, TypeOKParts DEF Inv, DataOk, DialogsOk
  <2> QED
    BY <2>1, <2>3, <2>4, <2>5, InvPartsNext
<1>6. CASE row' = [row EXCEPT ![s] = None] /\ Fault("lost") /\ WorkerReturns(w, "database")
           /\ lost' = lost \cup {s}
  <2>1. /\ DialogsOk' /\ MutexOk' /\ ThreadsOk' /\ thread'[w].step = "idle"
        /\ \A u \in Threads : u # w => thread'[u] = thread[u]
    BY <1>1, <1>6, WorkerReturnsOk DEF Inv, Deleting
  <2>2. Consistent' /\ row' \in [Sellers -> {None} \cup RowType]
    BY <1>4, <1>6, <2>1
  <2>3. DataOk'
    BY <1>1, <1>2, <1>6, <2>2, TypeOKParts, FaultsStayBounded DEF Inv, DataOk
  <2> QED
    BY <2>1, <2>2, <2>3, InvPartsNext
<1> QED
  BY <1>0, <1>1, <1>3, <1>5, <1>6, FaultsStayBounded DEF DeleteByOwner

\* What add writes to the row of the seller of its token.
LEMMA VerifiedIsTyped ==
    ASSUME NEW w \in Threads, ThreadOk(w, thread[w]), thread[w].op \in {"add", "restore"}
    PROVE  /\ Verified(w) \in RowType /\ Verified(w) # None
           /\ Verified(w).token = thread[w].token /\ Verified(w).status = "active"
           /\ Verified(w).owner = thread[w].owner
<1>1. Verified(w) \in RowType
  BY DEF ThreadOk, RowType, Statuses, Verified
<1> QED
  BY <1>1, NoneIsOutside DEF Verified

LEMMA WorkerUpsertKeepsInv ==
    ASSUME Inv, NEW w \in Workers, UpsertVerified(w) PROVE Inv'
<1>0. PICK s : s = SellerOf[thread[w].token]
  OBVIOUS
<1>1. /\ w \in Threads /\ phase = "running" /\ thread[w].step = "upsert"
      /\ thread[w].op = "add" /\ thread[w].token \in Tokens /\ s \in Sellers
      /\ thread[w] \in Job /\ ThreadOk(w, thread[w]) /\ faults \in 0..MaxFaults
  BY <1>0, WorkerInHand DEF UpsertVerified, At, Adding, Inv, ThreadsOk, TypeOK
<1>2. UNCHANGED <<snapshot, phase, expired, revoked, missed, begun, crashes>>
  BY DEF UpsertVerified
<1>3. ASSUME NEW err, AddFails(w, err), faults' \in 0..MaxFaults, UNCHANGED <<row, lost>>
      PROVE  Inv'
  BY <1>1, <1>2, <1>3, WorkerFailsKeepsInv DEF world
<1>4. CASE row' = [row EXCEPT ![s] = Verified(w)] /\ UNCHANGED <<client, pending>>
           /\ \/ GoTo(w, "activate") /\ UNCHANGED <<holder, dialog, faults, lost>>
              \/ /\ Fault("lost") /\ \E err : WorkerReturns(w, err)
                 /\ lost' = lost \cup {s}
  <2>1. /\ row' = [row EXCEPT ![s] = Verified(w)]
        /\ UNCHANGED <<client, pending, snapshot, phase, expired, revoked, missed, begun, crashes>>
    BY <1>2, <1>4
  <2>2. /\ row'[s] \in RowType /\ row'[s] # None /\ row'[s].token = thread[w].token
        /\ row'[s].status = "active"
        /\ \A q \in Sellers : q # s => row'[q] = row[q]
        /\ row' \in [Sellers -> {None} \cup RowType]
    BY <1>1, <2>1, VerifiedIsTyped, TypeOKParts DEF Inv, DataOk
  <2>3. RowsOk'
    BY <1>0, <1>1, <2>2 DEF Inv, RowsOk
  <2>4. PhaseOk'
    BY <1>1, <2>1 DEF PhaseOk
  <2>5. \A c \in snapshot : c.seller \in Sellers
    BY DEF Inv, TypeOK, Stored
  <2>6. ASSUME \A u \in Threads : u # w => thread'[u] = thread[u],
               lost \subseteq lost',
               \A q \in lost' : q \in lost \/ q = s,
               \/ thread'[w].step = "activate" /\ thread'[w].token = thread[w].token
               \/ thread'[w].step = "idle" /\ s \in lost'
        PROVE  Consistent'
    <3>1. /\ thread'[Restorer] = thread[Restorer] /\ thread[Restorer].step \in {"idle", "queued"}
          /\ \A q : ~Activating(q) /\ ~Removing(q) /\ ~Removing(q)'
          /\ s \in lost' \/ Activating(s)'
          /\ \A v \in Workers : v # w => thread'[v].step \in {"idle", "queued"}
      BY <1>0, <1>1, <2>6, OnlyWorker
    <3>2. SnapshotOk'
      BY <2>1, <3>1 DEF Inv, SnapshotOk
    <3>3. ListingOk'
      <4>1. ASSUME NEW c \in snapshot PROVE TakenOverOk(c)'
        <5>1. CASE c.seller = s
          BY <3>1, <5>1 DEF TakenOverOk
        <5>2. CASE c.seller # s
          BY <2>1, <2>2, <2>5, <2>6, <3>1, <5>2 DEF Inv, ListingOk, TakenOverOk
        <5> QED
          BY <5>1, <5>2
      <4> QED
        BY <1>1, <2>1, <3>1, <4>1 DEF ListingOk
    <3>4. UnderWayOk'
      <4>1. ASSUME NEW v \in Workers, thread'[v].step = "activate"
            PROVE  IsRowOf(SellerOf[thread[v].token], v)'
        <5>1. v = w /\ thread'[v].token = thread[w].token
          BY <2>6, <3>1, <4>1
        <5> QED
          BY <1>0, <2>2, <5>1 DEF IsRowOf
      <4>2. \A v \in Workers : thread'[v].step # "remove"
        BY <2>6, <3>1
      <4> QED
        BY <3>1, <4>1, <4>2 DEF UnderWayOk, Adding
    <3>5. FollowsOk'
      <4> SUFFICES ASSUME NEW q \in Sellers, client'[q] # None
                   PROVE  \/ q \in lost'
                          \/ row'[q] # None /\ row'[q].status = "active" /\ row'[q].token = client'[q]
                          \/ Activating(q)'
                          \/ Removing(q)'
        BY DEF FollowsOk
      <4>1. CASE q = s
        BY <3>1, <4>1
      <4>2. CASE q # s
        BY <2>1, <2>2, <2>6, <3>1, <4>2 DEF Inv, FollowsOk
      <4> QED
        BY <4>1, <4>2
    <3>6. ServedOk'
      <4> SUFFICES ASSUME NEW q \in Targets' \ (missed' \cup lost')
                   PROVE  Served(q)' \/ Activating(q)'
        BY DEF ServedOk
      <4>1. q # s => q \in Targets \ (missed \cup lost) /\ row'[q] = row[q]
        BY <2>1, <2>2, <2>6 DEF Targets
      <4>2. CASE q = s
        BY <3>1, <4>2
      <4>3. CASE q # s
        BY <1>1, <2>1, <3>1, <4>1, <4>3 DEF Inv, ServedOk, Served, Marking
      <4> QED
        BY <4>2, <4>3
    <3> QED
      BY <2>3, <2>4, <3>2, <3>3, <3>4, <3>5, <3>6 DEF Consistent
  <2>7. CASE GoTo(w, "activate") /\ UNCHANGED <<holder, dialog, faults, lost>>
    <3>1. /\ MutexOk' /\ thread'[w] = [thread[w] EXCEPT !.step = "activate"]
          /\ thread'[w] \in Job
          /\ \A u \in Threads : u # w => thread'[u] = thread[u]
      BY <1>1, <2>7, StepKeepsMutex DEF Inv, GoTo, Steps
    <3>2. /\ thread'[w].step = "activate" /\ thread'[w].op = thread[w].op
          /\ thread'[w].owner = thread[w].owner /\ thread'[w].name = thread[w].name
          /\ thread'[w].token = thread[w].token /\ thread'[w].seller = thread[w].seller
      BY <1>1, <3>1 DEF Job
    <3>3. ThreadsOk'
      <4>1. ThreadOk(w, thread'[w])
        BY <1>1, <3>1, <3>2 DEF ThreadOk, Adding, Deleting
      <4>2. thread' \in [Threads -> Job]
        BY <1>1, <2>7, <3>1 DEF GoTo, Inv, ThreadsOk
      <4>3. \A u \in Threads : ThreadOk(u, thread'[u])
        BY <3>1, <4>1 DEF Inv, ThreadsOk
      <4> QED
        BY <4>2, <4>3 DEF ThreadsOk, ThreadOk
    <3>4. Consistent'
      BY <2>6, <2>7, <3>1, <3>2
    <3>5. DataOk' /\ DialogsOk'
      BY <2>1, <2>2, <2>7, TypeOKParts DEF Inv, DataOk, DialogsOk
    <3> QED
      BY <3>1, <3>3, <3>4, <3>5, InvPartsNext
  <2>8. ASSUME Fault("lost"), NEW err, WorkerReturns(w, err), lost' = lost \cup {s}
        PROVE  Inv'
    <3>1. /\ DialogsOk' /\ MutexOk' /\ ThreadsOk' /\ thread'[w].step = "idle"
          /\ \A u \in Threads : u # w => thread'[u] = thread[u]
      BY <1>1, <2>8, WorkerReturnsOk DEF Inv, Adding
    <3>2. Consistent'
      BY <2>6, <2>8, <3>1
    <3>3. DataOk'
      BY <1>1, <2>1, <2>2, <2>8, TypeOKParts, FaultsStayBounded DEF Inv, DataOk
    <3> QED
      BY <3>1, <3>2, <3>3, InvPartsNext
  <2> QED
    BY <1>4, <2>7, <2>8
<1> QED
  BY <1>0, <1>1, <1>3, <1>4, FaultsStayBounded DEF UpsertVerified, AddFails

LEMMA WorkerActivateKeepsInv ==
    ASSUME Inv, NEW w \in Workers, Activate(w) PROVE Inv'
<1> DEFINE s == SellerOf[thread[w].token]
<1>1. /\ w \in Threads /\ phase = "running" /\ thread[w].step = "activate"
      /\ thread[w].op = "add" /\ thread[w].token \in Tokens /\ s \in Sellers
      /\ IsRowOf(s, w)
  BY WorkerInHand DEF Activate, At, Adding, Inv, UnderWayOk
<1>2. /\ client' = [client EXCEPT ![s] = thread[w].token]
      /\ pending' = [pending EXCEPT ![s] = None]
      /\ WorkerReturns(w, "added") /\ missed' = missed \ {s} /\ lost' = lost \ {s}
      /\ UNCHANGED <<row, snapshot, phase, expired, revoked, counts>>
  BY <1>1 DEF Activate
<1>3. /\ DialogsOk' /\ MutexOk' /\ ThreadsOk' /\ thread'[w].step = "idle"
      /\ \A u \in Threads : u # w => thread'[u] = thread[u]
  BY <1>1, <1>2, WorkerReturnsOk DEF Inv, Adding
<1>4. /\ thread'[Restorer] = thread[Restorer] /\ thread[Restorer].step \in {"idle", "queued"}
      /\ \A q : Activating(q) => q = s
      /\ \A q : ~Activating(q)' /\ ~Removing(q) /\ ~Removing(q)'
      /\ \A v \in Workers : thread'[v].step \in {"idle", "queued"}
  BY <1>1, <1>3, OnlyWorker
<1>5. /\ client'[s] = thread[w].token /\ \A q \in Sellers : q # s => client'[q] = client[q]
      /\ pending'[s] = None /\ \A q \in Sellers : q # s => pending'[q] = pending[q]
  BY <1>1, <1>2 DEF Inv, TypeOK
<1>6. DataOk'
  BY <1>1, <1>2, TypeOKParts DEF Inv, DataOk, counts
<1>7. PhaseOk' /\ RowsOk' /\ SnapshotOk'
  BY <1>1, <1>2, <1>4 DEF Inv, PhaseOk, RowsOk, SnapshotOk
<1>8. ListingOk'
  <2>1. ASSUME NEW c \in snapshot PROVE TakenOverOk(c)'
    <3>1. c.seller \in Sellers
      BY DEF Inv, TypeOK, Stored
    <3>2. CASE c.seller = s
      BY <1>1, <1>2, <1>5, <3>2 DEF TakenOverOk, IsRowOf
    <3>3. CASE c.seller # s
      BY <1>2, <1>4, <1>5, <3>1, <3>3 DEF Inv, ListingOk, TakenOverOk
    <3> QED
      BY <3>2, <3>3
  <2> QED
    BY <1>1, <1>2, <1>4, <2>1 DEF ListingOk
<1>9. UnderWayOk'
  BY <1>4 DEF UnderWayOk, Adding
<1>10. FollowsOk'
  <2> SUFFICES ASSUME NEW q \in Sellers, client'[q] # None
               PROVE  \/ q \in lost'
                      \/ row'[q] # None /\ row'[q].status = "active" /\ row'[q].token = client'[q]
    BY DEF FollowsOk
  <2>1. CASE q = s
    BY <1>1, <1>2, <1>5, <2>1 DEF IsRowOf
  <2>2. CASE q # s
    BY <1>2, <1>4, <1>5, <2>2 DEF Inv, FollowsOk
  <2> QED
    BY <2>1, <2>2
<1>11. ServedOk'
  <2> SUFFICES ASSUME NEW q \in Targets' \ (missed' \cup lost')
               PROVE  Served(q)'
    BY DEF ServedOk
  <2>1. q \in Targets /\ q \in Sellers
    BY <1>2 DEF Targets
  <2>2. CASE q = s
    BY <1>1, <1>2, <1>5, <2>2 DEF IsRowOf, Served
  <2>3. CASE q # s
    BY <1>1, <1>2, <1>4, <1>5, <2>1, <2>3 DEF Inv, ServedOk, Served, Marking
  <2> QED
    BY <2>2, <2>3
<1> QED
  BY <1>3, <1>6, <1>7, <1>8, <1>9, <1>10, <1>11, InvPartsNext DEF Consistent

LEMMA WorkerRemoveKeepsInv ==
    ASSUME Inv, NEW w \in Workers, RemoveClient(w) PROVE Inv'
<1> DEFINE s == thread[w].seller
<1>1. /\ w \in Threads /\ phase = "running" /\ thread[w].step = "remove"
      /\ s \in Sellers /\ row[s] = None
  BY WorkerInHand DEF RemoveClient, At, Deleting, Inv, UnderWayOk
<1>2. /\ client' = [client EXCEPT ![s] = None] /\ pending' = [pending EXCEPT ![s] = None]
      /\ WorkerReturns(w, "deleted")
      /\ UNCHANGED <<row, snapshot, phase, world, counts>>
  BY DEF RemoveClient
<1>3. /\ DialogsOk' /\ MutexOk' /\ ThreadsOk' /\ thread'[w].step = "idle"
      /\ \A u \in Threads : u # w => thread'[u] = thread[u]
  BY <1>1, <1>2, WorkerReturnsOk DEF Inv, Deleting
<1>4. /\ thread'[Restorer] = thread[Restorer] /\ thread[Restorer].step \in {"idle", "queued"}
      /\ \A q : Removing(q) => q = s
      /\ \A q : ~Activating(q) /\ ~Activating(q)' /\ ~Removing(q)'
      /\ \A v \in Workers : thread'[v].step \in {"idle", "queued"}
  BY <1>1, <1>3, OnlyWorker
<1>5. /\ client'[s] = None /\ \A q \in Sellers : q # s => client'[q] = client[q]
      /\ \A q \in Sellers : q # s => pending'[q] = pending[q]
  BY <1>1, <1>2 DEF Inv, TypeOK
<1>6. DataOk'
  BY <1>1, <1>2, TypeOKParts DEF Inv, DataOk, counts, world
<1>7. PhaseOk' /\ RowsOk' /\ SnapshotOk'
  BY <1>1, <1>2, <1>4 DEF Inv, PhaseOk, RowsOk, SnapshotOk
<1>8. ListingOk'
  <2>1. ASSUME NEW c \in snapshot PROVE TakenOverOk(c)'
    <3>1. c.seller \in Sellers
      BY DEF Inv, TypeOK, Stored
    <3>2. CASE c.seller = s
      BY <1>1, <1>2, <3>2 DEF TakenOverOk
    <3>3. CASE c.seller # s
      BY <1>2, <1>4, <1>5, <3>1, <3>3 DEF Inv, ListingOk, TakenOverOk, world
    <3> QED
      BY <3>2, <3>3
  <2> QED
    BY <1>1, <1>2, <1>4, <2>1 DEF ListingOk
<1>9. UnderWayOk'
  BY <1>4 DEF UnderWayOk, Adding
<1>10. FollowsOk'
  BY <1>2, <1>4, <1>5 DEF Inv, FollowsOk, world
<1>11. ServedOk'
  <2> SUFFICES ASSUME NEW q \in Targets' \ (missed' \cup lost')
               PROVE  Served(q)'
    BY DEF ServedOk
  <2>1. q \in Targets \ (missed \cup lost) /\ q \in Sellers /\ q # s
    BY <1>1, <1>2 DEF Targets, world
  <2> QED
    BY <1>1, <1>2, <1>4, <1>5, <2>1 DEF Inv, ServedOk, Served, Marking
<1> QED
  BY <1>3, <1>6, <1>7, <1>8, <1>9, <1>10, <1>11, InvPartsNext DEF Consistent

-----------------------------------------------------------------------------
(* The steps of the restorer.                                               *)

LEMMA OnlyRestorer ==
    ASSUME Inv, thread[Restorer].step # "idle"
    PROVE  /\ thread[Restorer].step \in Restoring
           /\ thread[Restorer].step = "mark" => thread[Restorer].mark \in Statuses \ {"active"}
           /\ thread[Restorer].op = "restore"
           /\ thread[Restorer] \in Job /\ ThreadOk(Restorer, thread[Restorer])
           /\ thread[Restorer].owner \in Owners /\ thread[Restorer].name \in Names
           /\ thread[Restorer].token \in Tokens /\ thread[Restorer].seller \in Sellers
           /\ phase \in {"starting", "running"}
           /\ \A w \in Workers : thread[w].step \in {"idle", "queued"}
           /\ \A q : ~Activating(q) /\ ~Removing(q)
           /\ (\A w \in Workers : thread'[w] = thread[w]) =>
                 \A q : ~Activating(q)' /\ ~Removing(q)'
<1>1. ThreadOk(Restorer, thread[Restorer]) /\ thread[Restorer] \in Job
  BY NoneIsOutside DEF Inv, ThreadsOk
<1>2. thread[Restorer].op = "restore" /\ thread[Restorer].step \in Restoring
  BY <1>1 DEF ThreadOk, Job
<1>3. \A w \in Workers : thread[w].step \in {"idle", "queued"}
  BY <1>2, Exclusive, NoneIsOutside DEF Inv, Restoring, Adding
<1>4. phase \in {"starting", "running"}
  BY NoneIsOutside DEF Inv, PhaseOk, TypeOK
<1> QED
  BY <1>1, <1>2, <1>3, <1>4 DEF ThreadOk, Activating, Removing

\* The restorer is done with a cabinet, having changed at most its row and client.
LEMMA RestorerLeaves ==
    ASSUME Inv, thread[Restorer].step # "idle", RestorerReturns, DataOk',
           NEW s, s = thread[Restorer].seller,
           \A q \in Sellers : q # s =>
               /\ row'[q] = row[q] /\ client'[q] = client[q] /\ pending'[q] = pending[q]
               /\ q \in missed' <=> q \in missed
               /\ q \in lost' <=> q \in lost,
           UNCHANGED <<snapshot, phase, expired>>,
           row'[s] # None => SellerOf[row'[s].token] = s,
           client'[s] # None =>
               \/ s \in lost'
               \/ row'[s] # None /\ row'[s].status = "active" /\ row'[s].token = client'[s],
           s \in Targets' \ (missed' \cup lost') => Served(s)'
    PROVE  Inv'
<1>1. /\ Restorer \in Threads /\ s \in Sellers /\ phase # "down"
      /\ \A w \in Workers : thread[w].step \in {"idle", "queued"}
      /\ \A q : ~Activating(q) /\ ~Removing(q)
      /\ thread[Restorer].step \notin {"idle", "queued"}
  BY OnlyRestorer, NoneIsOutside DEF Restoring, Adding
<1>2. /\ MutexOk' /\ ThreadsOk' /\ thread'[Restorer].step = "idle"
      /\ \A u \in Threads : u # Restorer => thread'[u] = thread[u]
  BY <1>1, ReturnFrees DEF RestorerReturns, Inv
<1>3. \A w \in Workers : thread'[w] = thread[w]
  BY <1>2, NoneIsOutside
<1>4. \A q : ~Activating(q)' /\ ~Removing(q)'
  BY <1>3, OnlyRestorer
<1>5. DialogsOk'
  BY DEF Inv, RestorerReturns, DialogsOk
<1>6. PhaseOk'
  BY <1>1, <1>3 DEF Inv, PhaseOk
<1>7. RowsOk' /\ SnapshotOk'
  BY <1>2 DEF Inv, RowsOk, SnapshotOk
<1>8. ListingOk'
  <2>1. ASSUME NEW c \in snapshot
        PROVE  TakenOverOk(c)' /\ (phase = "starting" => Unchanged(c)')
    <3>1. c.seller \in Sellers /\ c.seller # s
      BY <1>1 DEF Inv, TypeOK, Stored, SnapshotOk
    <3> QED
      BY <1>1, <1>4, <3>1 DEF Inv, ListingOk, TakenOverOk, Unchanged
  <2> QED
    BY <1>2, <2>1 DEF ListingOk
<1>9. UnderWayOk'
  BY <1>1, <1>2, <1>3 DEF UnderWayOk, Adding
<1>10. FollowsOk'
  <2> SUFFICES ASSUME NEW q \in Sellers, client'[q] # None
               PROVE  \/ q \in lost'
                      \/ row'[q] # None /\ row'[q].status = "active" /\ row'[q].token = client'[q]
    BY DEF FollowsOk
  <2>1. CASE q # s
    BY <1>1, <2>1 DEF Inv, FollowsOk
  <2> QED
    BY <2>1
<1>11. ServedOk'
  <2> SUFFICES ASSUME NEW q \in Targets' \ (missed' \cup lost')
               PROVE  \/ Served(q)'
                      \/ phase' = "starting" /\ \E c \in snapshot' : c.seller = q
    BY DEF ServedOk
  <2>1. CASE q # s
    <3>1. q \in Targets \ (missed \cup lost) /\ q \in Sellers
      BY <2>1 DEF Targets
    <3> QED
      BY <1>1, <2>1, <3>1 DEF Inv, ServedOk, Served, Marking
  <2> QED
    BY <2>1
<1> QED
  BY <1>2, <1>5, <1>6, <1>7, <1>8, <1>9, <1>10, <1>11, InvPartsNext DEF Consistent

\* The restorer goes on, as job r, with a cabinet whose row is active and has its
\* token; when it is to be marked, its client is gone.
GoesOn(s, r) ==
    /\ thread[Restorer].step \notin {"idle", "mark"} /\ s = thread[Restorer].seller
    /\ r \in Job /\ thread' = [thread EXCEPT ![Restorer] = r]
    /\ r.step \in Adding \cup {"mark"} /\ r.op = "restore" /\ r.name \in Names
    /\ r.owner = thread[Restorer].owner /\ r.token = thread[Restorer].token /\ r.seller = s
    /\ row[s] # None /\ row[s].status = "active"
    /\ row[s].token = r.token /\ row[s].owner = r.owner
    /\ row'[s] # None /\ row'[s].status = "active"
    /\ row'[s].token = r.token /\ row'[s].owner = r.owner
    /\ \A q \in Sellers : q # s =>
          row'[q] = row[q] /\ client'[q] = client[q] /\ pending'[q] = pending[q]
    /\ r.step # "mark" => UNCHANGED <<client, pending>>
    /\ r.step = "mark" => r.mark \in Statuses \ {"active"} /\ client'[s] = None
    /\ UNCHANGED <<holder, dialog, missed, lost, snapshot, phase, expired>>

LEMMA RestorerGoesOn ==
    ASSUME Inv, DataOk', NEW s, NEW r, GoesOn(s, r)
    PROVE  Inv'
<1> USE DEF GoesOn
<1>1. /\ Restorer \in Threads /\ s \in Sellers /\ phase # "down"
      /\ \A w \in Workers : thread[w].step \in {"idle", "queued"}
      /\ \A q : ~Activating(q) /\ ~Removing(q)
      /\ thread[Restorer].step \notin {"idle", "queued"}
      /\ thread[Restorer].owner \in Owners /\ thread[Restorer].token \in Tokens
  BY OnlyRestorer, NoneIsOutside DEF Restoring, Adding
<1>2. thread'[Restorer] = r /\ \A u \in Threads : u # Restorer => thread'[u] = thread[u]
  BY <1>1 DEF Inv, ThreadsOk
<1>3. \A w \in Workers : thread'[w] = thread[w]
  BY <1>2, NoneIsOutside
<1>4. \A q : ~Activating(q)' /\ ~Removing(q)'
  BY <1>3, OnlyRestorer
<1>5. DialogsOk' /\ MutexOk'
  BY <1>1, <1>2 DEF Inv, DialogsOk, MutexOk, Restoring, Adding
<1>6. ThreadsOk'
  <2>1. ThreadOk(Restorer, r)
    BY <1>1 DEF ThreadOk, Restoring, Adding, Deleting
  <2>2. thread' \in [Threads -> Job]
    BY DEF Inv, ThreadsOk
  <2>3. \A u \in Threads : ThreadOk(u, thread'[u])
    BY <1>2, <2>1 DEF Inv, ThreadsOk
  <2> QED
    BY <2>2, <2>3 DEF ThreadsOk, ThreadOk
<1>7. PhaseOk'
  BY <1>1, <1>3 DEF Inv, PhaseOk
<1>8. RowsOk' /\ SnapshotOk'
  BY <1>1, <1>2 DEF Inv, RowsOk, SnapshotOk
<1>9. ListingOk'
  <2>1. ASSUME NEW c \in snapshot
        PROVE  TakenOverOk(c)' /\ (phase = "starting" => Unchanged(c)')
    <3>1. c.seller \in Sellers /\ c.seller # s
      BY <1>1 DEF Inv, TypeOK, Stored, SnapshotOk
    <3> QED
      BY <1>1, <1>4, <3>1 DEF Inv, ListingOk, TakenOverOk, Unchanged
  <2> QED
    BY <1>2, <2>1 DEF ListingOk, Restoring, Adding
<1>10. UnderWayOk'
  <2>1. \A w \in Workers : thread'[w].step \in {"idle", "queued"}
    BY <1>1, <1>3
  <2> QED
    BY <1>2, <2>1 DEF UnderWayOk, IsRowOf, Adding
<1>11. FollowsOk'
  <2> SUFFICES ASSUME NEW q \in Sellers, client'[q] # None
               PROVE  \/ q \in lost'
                      \/ row'[q] # None /\ row'[q].status = "active" /\ row'[q].token = client'[q]
    BY DEF FollowsOk
  <2> QED
    BY <1>1 DEF Inv, FollowsOk
<1>12. ServedOk'
  <2> SUFFICES ASSUME NEW q \in Targets' \ (missed' \cup lost')
               PROVE  \/ Served(q)'
                      \/ Marking(q)'
                      \/ /\ phase' = "starting"
                         /\ \/ \E c \in snapshot' : c.seller = q
                            \/ thread'[Restorer].step # "idle" /\ thread'[Restorer].seller = q
    BY DEF ServedOk
  <2>1. /\ q \in Targets \ (missed \cup lost) /\ q \in Sellers
        /\ row'[q].token = row[q].token /\ ~Marking(q)
    BY DEF Targets, Marking
  <2>2. CASE r.step = "mark" /\ q = s
    BY <1>2, <2>2 DEF Marking
  <2>3. CASE Served(q) /\ ~(r.step = "mark" /\ q = s)
    BY <2>1, <2>3 DEF Served
  <2>4. CASE /\ phase = "starting"
             /\ \/ \E c \in snapshot : c.seller = q
                \/ thread[Restorer].step # "idle" /\ thread[Restorer].seller = q
    BY <1>2, <2>4 DEF Adding
  <2> QED
    BY <1>1, <2>1, <2>2, <2>3, <2>4 DEF Inv, ServedOk
<1> QED
  BY <1>5, <1>6, <1>7, <1>8, <1>9, <1>10, <1>11, <1>12, InvPartsNext DEF Consistent

\* A cabinet that is not to be restored again loses its client, and its row is to
\* be marked.
LEMMA ToMarkKeepsInv ==
    ASSUME Inv, thread[Restorer].step \notin {"idle", "mark"},
           NEW s, s = thread[Restorer].seller, NEW status \in Statuses \ {"active"},
           ToMark(status),
           client' \in [Sellers -> Tokens \cup {None}],
           pending' \in [Sellers -> Tokens \cup {None}], client'[s] = None,
           \A q \in Sellers : q # s => client'[q] = client[q] /\ pending'[q] = pending[q],
           row[s] # None, row[s].status = "active",
           row[s].token = thread[Restorer].token, row[s].owner = thread[Restorer].owner,
           row' \in [Sellers -> {None} \cup RowType], faults' \in 0..MaxFaults,
           row'[s] # None, row'[s].status = "active",
           row'[s].token = thread[Restorer].token, row'[s].owner = thread[Restorer].owner,
           \A q \in Sellers : q # s => row'[q] = row[q],
           UNCHANGED <<snapshot, phase, world, begun, crashes>>
    PROVE  Inv'
<1> DEFINE half == [thread[Restorer] EXCEPT !.step = "mark"]
           r == [half EXCEPT !.mark = status]
<1>1. /\ thread[Restorer] \in Job /\ s \in Sellers /\ thread[Restorer].name \in Names
      /\ thread[Restorer].op = "restore"
  BY OnlyRestorer
<1>2. thread' = [thread EXCEPT ![Restorer] = r]
  BY NoneIsOutside DEF ToMark, Inv, ThreadsOk
<1>3. /\ half \in Job /\ half.step = "mark" /\ half.op = "restore"
      /\ half.owner = thread[Restorer].owner /\ half.name = thread[Restorer].name
      /\ half.token = thread[Restorer].token /\ half.seller = s
  BY <1>1 DEF Job, Steps
<1> HIDE DEF half
<1>4. /\ r \in Job /\ r.step = "mark" /\ r.op = "restore" /\ r.owner = thread[Restorer].owner
      /\ r.name = thread[Restorer].name /\ r.token = thread[Restorer].token /\ r.seller = s
      /\ r.mark = status
  BY <1>3 DEF Job
<1> HIDE DEF r
<1>5. DataOk'
  BY TypeOKParts DEF Inv, DataOk, world
<1>6. r.step \in Adding \cup {"mark"} /\ r.name \in Names /\ row[s].token = r.token
      /\ row[s].owner = r.owner /\ row'[s].token = r.token /\ row'[s].owner = r.owner
  BY <1>1, <1>4
<1>7. /\ \A q \in Sellers : q # s =>
            row'[q] = row[q] /\ client'[q] = client[q] /\ pending'[q] = pending[q]
      /\ UNCHANGED <<holder, dialog, missed, lost, snapshot, phase, expired>>
  BY DEF ToMark, world
<1>8. /\ r \in Job /\ r.op = "restore" /\ r.owner = thread[Restorer].owner
      /\ r.token = thread[Restorer].token /\ r.seller = s
  BY <1>4
<1>9. /\ r.step # "mark" => UNCHANGED <<client, pending>>
      /\ r.step = "mark" => r.mark \in Statuses \ {"active"} /\ client'[s] = None
  BY <1>4
<1>10. GoesOn(s, r)
  BY <1>2, <1>6, <1>7, <1>8, <1>9 DEF GoesOn
<1> QED
  BY <1>5, <1>10, RestorerGoesOn

\* The restoration of a cabinet fails: its client goes, and it is remembered or is
\* to be marked.  Its row may have been written, with the same token.
LEMMA RestorerFailsKeepsInv ==
    ASSUME Inv, thread[Restorer].step \in {"find", "ping", "upsert"},
           NEW err, AddFails(Restorer, err), faults' \in 0..MaxFaults,
           NEW s, s = thread[Restorer].seller,
           row' \in [Sellers -> {None} \cup RowType],
           row'[s] # None, row'[s].status = "active",
           row'[s].token = thread[Restorer].token, row'[s].owner = thread[Restorer].owner,
           \A q \in Sellers : q # s => row'[q] = row[q],
           UNCHANGED <<snapshot, phase, world, begun, crashes>>
    PROVE  Inv'
<1>1. /\ thread[Restorer].op = "restore" /\ s \in Sellers /\ RowsOk
      /\ row[s] # None /\ row[s].token = thread[Restorer].token /\ row[s].status = "active"
      /\ row[s].owner = thread[Restorer].owner /\ thread[Restorer].token \in Tokens
  BY OnlyRestorer DEF Inv, UnderWayOk, Adding, IsRowOf
<1>2. RestoreFailure(s, err)
  BY <1>1 DEF AddFails
<1>3. client' = [client EXCEPT ![s] = None]
  BY <1>2 DEF RestoreFailure
<1>4. /\ client'[s] = None /\ client' \in [Sellers -> Tokens \cup {None}]
      /\ \A q \in Sellers : q # s => client'[q] = client[q]
  BY <1>1, <1>3 DEF Inv, TypeOK
<1>5. CASE err = "transient"
  <2>1. pending' = [pending EXCEPT ![s] = thread[Restorer].token] /\ RestorerReturns
    BY <1>2, <1>5 DEF RestoreFailure, IsTransientVerificationError
  <2>2. /\ pending'[s] = row'[s].token /\ pending' \in [Sellers -> Tokens \cup {None}]
        /\ \A q \in Sellers : q # s => pending'[q] = pending[q]
    BY <1>1, <2>1 DEF Inv, TypeOK
  <2>3. DataOk'
    BY <1>4, <2>2, TypeOKParts DEF Inv, DataOk, world
  <2>4. Served(s)'
    BY <2>2 DEF Served
  <2>5. SellerOf[row'[s].token] = s
    BY <1>1 DEF RowsOk
  <2>6. /\ thread[Restorer].step # "idle"
        /\ \A q \in Sellers : q # s =>
              /\ row'[q] = row[q] /\ client'[q] = client[q] /\ pending'[q] = pending[q]
              /\ q \in missed' <=> q \in missed
              /\ q \in lost' <=> q \in lost
        /\ UNCHANGED <<snapshot, phase, expired>>
    BY <1>4, <2>2 DEF world
  <2> QED
    BY <1>4, <2>1, <2>3, <2>4, <2>5, <2>6, RestorerLeaves
<1>6. CASE err # "transient"
  <2>1. FailedStatus(err) \in Statuses \ {"active"}
    BY DEF FailedStatus, Statuses
  <2>2. pending' = [pending EXCEPT ![s] = None] /\ ToMark(FailedStatus(err))
    BY <1>2, <1>6 DEF RestoreFailure, IsTransientVerificationError
  <2>3. /\ pending' \in [Sellers -> Tokens \cup {None}]
        /\ \A q \in Sellers : q # s => client'[q] = client[q] /\ pending'[q] = pending[q]
    BY <1>1, <1>4, <2>2 DEF Inv, TypeOK
  <2> QED
    BY <1>1, <1>4, <2>1, <2>2, <2>3, ToMarkKeepsInv
<1> QED
  BY <1>5, <1>6

\* The restorer goes on without a change.
LEMMA RestorerStepsKeepsInv ==
    ASSUME Inv, thread[Restorer].step \in {"find", "ping"},
           NEW step \in {"ping", "upsert"}, GoTo(Restorer, step),
           UNCHANGED <<row, client, pending, holder, dialog, snapshot, phase, world, counts>>
    PROVE  Inv'
<1>1. PICK s : s = thread[Restorer].seller
  OBVIOUS
<1> DEFINE r == [thread[Restorer] EXCEPT !.step = step]
<1>2. /\ thread[Restorer].op = "restore" /\ s \in Sellers /\ thread[Restorer] \in Job
      /\ row[s] # None /\ row[s].token = thread[Restorer].token /\ row[s].status = "active"
      /\ row[s].owner = thread[Restorer].owner /\ thread[Restorer].name \in Names
  BY <1>1, OnlyRestorer DEF Inv, UnderWayOk, Adding, IsRowOf
<1>3. thread' = [thread EXCEPT ![Restorer] = r]
  BY NoneIsOutside DEF GoTo, Inv, ThreadsOk
<1>4. /\ r \in Job /\ r.step = step /\ r.op = "restore" /\ r.owner = thread[Restorer].owner
      /\ r.name = thread[Restorer].name /\ r.token = thread[Restorer].token /\ r.seller = s
  BY <1>1, <1>2 DEF Job, Steps
<1>5. DataOk'
  BY TypeOKParts DEF Inv, DataOk, world, counts
<1> HIDE DEF r
<1>6. /\ thread[Restorer].step \notin {"idle", "mark"} /\ r.step \in Adding \cup {"mark"}
      /\ r.step # "mark" /\ r.name \in Names
      /\ row[s].token = r.token /\ row[s].owner = r.owner
      /\ row'[s].token = r.token /\ row'[s].owner = r.owner
  BY <1>2, <1>4 DEF Adding
<1>7. /\ \A q \in Sellers : q # s =>
            row'[q] = row[q] /\ client'[q] = client[q] /\ pending'[q] = pending[q]
      /\ UNCHANGED <<client, pending>>
      /\ UNCHANGED <<holder, dialog, missed, lost, snapshot, phase, expired>>
      /\ row'[s] # None /\ row'[s].status = "active"
  BY <1>2 DEF world
<1>8. GoesOn(s, r)
  BY <1>1, <1>2, <1>3, <1>4, <1>6, <1>7 DEF GoesOn
<1> QED
  BY <1>5, <1>8, RestorerGoesOn

\* The restoration fails before anything is written.
LEMMA RestorerGivesUpKeepsInv ==
    ASSUME Inv, thread[Restorer].step \in {"find", "ping", "upsert"},
           NEW err, AddFails(Restorer, err), faults' \in 0..MaxFaults,
           UNCHANGED <<row, snapshot, phase, world, begun, crashes>>
    PROVE  Inv'
<1>1. PICK s : s = thread[Restorer].seller
  OBVIOUS
<1>2. /\ row[s] # None /\ row[s].token = thread[Restorer].token /\ row[s].status = "active"
      /\ row[s].owner = thread[Restorer].owner /\ row \in [Sellers -> {None} \cup RowType]
  BY <1>1, TypeOKParts DEF Inv, DataOk, UnderWayOk, Adding, IsRowOf
<1> QED
  BY <1>1, <1>2, RestorerFailsKeepsInv

LEMMA RestorerFindKeepsInv ==
    ASSUME Inv, Find(Restorer) PROVE Inv'
<1>1. /\ thread[Restorer].step = "find" /\ faults \in 0..MaxFaults
      /\ UNCHANGED <<row, snapshot, phase, world, begun, crashes>>
  BY DEF Find, At, Inv, TypeOK
<1>2. CASE GoTo(Restorer, "ping") /\ UNCHANGED <<client, pending, holder, dialog, faults>>
  BY <1>1, <1>2, RestorerStepsKeepsInv DEF counts
<1>3. CASE AddFails(Restorer, AddError(Restorer)) /\ UNCHANGED faults
  BY <1>1, <1>3, RestorerGivesUpKeepsInv
<1>4. CASE Fault("database") /\ \E err \in DatabaseErrors : AddFails(Restorer, err)
  BY <1>1, <1>4, FaultsStayBounded, RestorerGivesUpKeepsInv
<1> QED
  BY <1>2, <1>3, <1>4 DEF Find

LEMMA RestorerPingKeepsInv ==
    ASSUME Inv, Ping(Restorer) PROVE Inv'
<1>1. /\ thread[Restorer].step = "ping" /\ faults \in 0..MaxFaults
      /\ UNCHANGED <<row, snapshot, phase, world, begun, crashes>>
  BY DEF Ping, At, Inv, TypeOK
<1>2. CASE GoTo(Restorer, "upsert") /\ UNCHANGED <<client, pending, holder, dialog, faults>>
  BY <1>1, <1>2, RestorerStepsKeepsInv DEF counts
<1>3. ASSUME NEW err, AddFails(Restorer, err), faults' \in 0..MaxFaults PROVE Inv'
  BY <1>1, <1>3, RestorerGivesUpKeepsInv
<1> QED
  BY <1>1, <1>2, <1>3, FaultsStayBounded DEF Ping

LEMMA RestorerUpsertKeepsInv ==
    ASSUME Inv, UpsertVerified(Restorer) PROVE Inv'
<1>1. PICK s : s = thread[Restorer].seller
  OBVIOUS
<1>2. /\ thread[Restorer].op = "restore" /\ s \in Sellers /\ thread[Restorer] \in Job
      /\ ThreadOk(Restorer, thread[Restorer]) /\ thread[Restorer].step = "upsert"
      /\ row[s] # None /\ row[s].token = thread[Restorer].token /\ row[s].status = "active"
      /\ row[s].owner = thread[Restorer].owner /\ thread[Restorer].name \in Names
      /\ faults \in 0..MaxFaults
  BY <1>1, OnlyRestorer DEF UpsertVerified, At, Inv, UnderWayOk, Adding, IsRowOf, TypeOK
<1>3. SellerOf[thread[Restorer].token] = s
  BY <1>2 DEF Inv, RowsOk
<1>4. UNCHANGED <<snapshot, phase, expired, revoked, missed, begun, crashes>>
  BY DEF UpsertVerified
<1>5. ASSUME NEW err, AddFails(Restorer, err), faults' \in 0..MaxFaults, UNCHANGED <<row, lost>>
      PROVE  Inv'
  BY <1>2, <1>4, <1>5, RestorerGivesUpKeepsInv DEF world
<1>6. CASE /\ row' = [row EXCEPT ![s] = Verified(Restorer)]
           /\ \/ /\ GoTo(Restorer, "activate")
                 /\ UNCHANGED <<client, pending, holder, dialog, faults, lost>>
              \/ Fault("lost") /\ (\E err : AddFails(Restorer, err)) /\ UNCHANGED lost
  <2>1. /\ row'[s] \in RowType /\ row'[s] # None /\ row'[s].token = thread[Restorer].token
        /\ row'[s].status = "active" /\ row'[s].owner = thread[Restorer].owner
        /\ \A q \in Sellers : q # s => row'[q] = row[q]
        /\ row' \in [Sellers -> {None} \cup RowType]
    BY <1>2, <1>6, VerifiedIsTyped, TypeOKParts, NoneIsOutside DEF Inv, DataOk
  <2>2. CASE GoTo(Restorer, "activate") /\ UNCHANGED <<client, pending, holder, dialog, faults, lost>>
    <3> DEFINE r == [thread[Restorer] EXCEPT !.step = "activate"]
    <3>1. thread' = [thread EXCEPT ![Restorer] = r]
      BY <2>2, NoneIsOutside DEF GoTo, Inv, ThreadsOk
    <3>2. /\ r \in Job /\ r.step = "activate" /\ r.op = "restore"
          /\ r.owner = thread[Restorer].owner /\ r.name = thread[Restorer].name
          /\ r.token = thread[Restorer].token /\ r.seller = s
      BY <1>1, <1>2 DEF Job, Steps
    <3> HIDE DEF r
    <3>3. DataOk'
      BY <1>4, <2>1, <2>2, TypeOKParts DEF Inv, DataOk
    <3>4. /\ thread[Restorer].step \notin {"idle", "mark"} /\ r.step \in Adding \cup {"mark"}
          /\ r.name \in Names /\ r.step # "mark"
          /\ row[s].token = r.token /\ row[s].owner = r.owner
          /\ row'[s].token = r.token /\ row'[s].owner = r.owner
      BY <1>2, <2>1, <3>2 DEF Adding
    <3>5. /\ \A q \in Sellers : q # s =>
                row'[q] = row[q] /\ client'[q] = client[q] /\ pending'[q] = pending[q]
          /\ UNCHANGED <<client, pending>>
          /\ UNCHANGED <<holder, dialog, missed, lost, snapshot, phase, expired>>
      BY <1>4, <2>1, <2>2
    <3>6. GoesOn(s, r)
      BY <1>1, <1>2, <2>1, <3>1, <3>2, <3>4, <3>5 DEF GoesOn
    <3> QED
      BY <3>3, <3>6, RestorerGoesOn
  <2>3. ASSUME Fault("lost"), NEW err, AddFails(Restorer, err), UNCHANGED lost PROVE Inv'
    BY <1>1, <1>2, <1>4, <2>1, <2>3, FaultsStayBounded, RestorerFailsKeepsInv DEF world
  <2> QED
    BY <1>6, <2>2, <2>3
<1> QED
  BY <1>2, <1>3, <1>5, <1>6, FaultsStayBounded DEF UpsertVerified

LEMMA RestorerActivateKeepsInv ==
    ASSUME Inv, Activate(Restorer) PROVE Inv'
<1>1. PICK s : s = thread[Restorer].seller
  OBVIOUS
<1>2. /\ thread[Restorer].op = "restore" /\ s \in Sellers /\ thread[Restorer].step = "activate"
      /\ row[s] # None /\ row[s].token = thread[Restorer].token /\ row[s].status = "active"
      /\ thread[Restorer].token \in Tokens
  BY <1>1, OnlyRestorer DEF Activate, At, Inv, UnderWayOk, Adding, IsRowOf
<1>3. SellerOf[thread[Restorer].token] = s
  BY <1>2 DEF Inv, RowsOk
<1>4. /\ client' = [client EXCEPT ![s] = thread[Restorer].token]
      /\ pending' = [pending EXCEPT ![s] = None]
      /\ RestorerReturns /\ missed' = missed \ {s} /\ lost' = lost \ {s}
      /\ UNCHANGED <<row, snapshot, phase, expired, revoked, counts>>
  BY <1>2, <1>3 DEF Activate
<1>5. /\ client'[s] = row'[s].token
      /\ \A q \in Sellers : q # s => client'[q] = client[q] /\ pending'[q] = pending[q]
      /\ client' \in [Sellers -> Tokens \cup {None}]
      /\ pending' \in [Sellers -> Tokens \cup {None}]
  BY <1>2, <1>4 DEF Inv, TypeOK
<1>6. DataOk'
  BY <1>4, <1>5, TypeOKParts DEF Inv, DataOk, counts
<1>7. Served(s)'
  BY <1>5 DEF Served
<1> QED
  BY <1>1, <1>2, <1>3, <1>4, <1>5, <1>6, <1>7, RestorerLeaves

LEMMA RestoreNextKeepsInv ==
    ASSUME Inv, RestoreNext PROVE Inv'
<1>1. PICK c \in snapshot :
          /\ snapshot' = snapshot \ {c}
          /\ thread' = [thread EXCEPT ![Restorer] =
                          [step |-> "check", op |-> "restore", owner |-> c.owner,
                           name |-> c.name, token |-> c.token, seller |-> c.seller,
                           lease |-> 0, mark |-> None]]
  BY DEF RestoreNext
<1> DEFINE r == [step |-> "check", op |-> "restore", owner |-> c.owner, name |-> c.name,
                 token |-> c.token, seller |-> c.seller, lease |-> 0, mark |-> None]
<1>2. /\ thread[Restorer].step = "idle" /\ holder = None /\ holder' = Restorer
      /\ UNCHANGED <<row, client, pending, phase, dialog, world, counts>>
  BY DEF RestoreNext, MayEnter
<1>3. c \in Stored /\ c.seller \in Sellers /\ c.owner \in Owners /\ c.name \in Names
      /\ c.token \in Tokens
  BY DEF Inv, TypeOK, Stored
<1>4. r \in Job /\ ThreadOk(Restorer, r)
  BY <1>3 DEF Job, Steps, ThreadOk, Restoring, Adding
<1>5. /\ r.step = "check" /\ r.owner = c.owner /\ r.name = c.name
      /\ r.token = c.token /\ r.seller = c.seller
  OBVIOUS
<1> HIDE DEF r
<1>6. /\ thread'[Restorer] = r /\ \A u \in Threads : u # Restorer => thread'[u] = thread[u]
      /\ thread' \in [Threads -> Job]
  BY <1>1, <1>4, NoneIsOutside DEF Inv, ThreadsOk, r
<1>7. \A w \in Workers : thread'[w] = thread[w]
  BY <1>6, NoneIsOutside
<1>8. \A u \in Threads : thread[u].step \in {"idle", "queued"}
  BY <1>2, Free DEF Inv
<1>9. ThreadsOk'
  <2>1. \A u \in Threads : ThreadOk(u, thread'[u])
    BY <1>4, <1>6 DEF Inv, ThreadsOk
  <2> QED
    BY <1>6, <2>1 DEF ThreadsOk, ThreadOk
<1>10. MutexOk'
  BY <1>2, <1>5, <1>6, <1>8, NoneIsOutside DEF MutexOk
<1>11. \A q : ~Activating(q) /\ ~Activating(q)' /\ ~Removing(q) /\ ~Removing(q)'
  BY <1>7, <1>8, NoneIsOutside DEF Activating, Removing
<1>12. phase \in {"starting", "running"}
  BY DEF Inv, PhaseOk, TypeOK
<1>13. DataOk' /\ DialogsOk'
  BY <1>1, <1>2, TypeOKParts DEF Inv, DataOk, DialogsOk, world, counts
<1>14. PhaseOk'
  BY <1>2, <1>7, <1>12 DEF Inv, PhaseOk
<1>15. RowsOk'
  BY <1>2 DEF Inv, RowsOk
<1>16. SnapshotOk'
  BY <1>1, <1>5, <1>6 DEF Inv, SnapshotOk
<1>17. ListingOk'
  <2>1. \A d \in snapshot' : TakenOverOk(d)' /\ (phase' = "starting" => Unchanged(d)')
    BY <1>1, <1>2, <1>11 DEF Inv, ListingOk, TakenOverOk, Unchanged, world
  <2>2. TakenOverOk(c) /\ (phase = "starting" => Unchanged(c))
    BY DEF Inv, ListingOk
  <2>3. TakenOverOk(thread[Restorer])' /\ (phase' = "starting" => Unchanged(thread[Restorer])')
    BY <1>2, <1>5, <1>6, <1>11, <2>2 DEF TakenOverOk, Unchanged, world
  <2> QED
    BY <2>1, <2>3 DEF ListingOk
<1>18. UnderWayOk'
  <2>1. \A w \in Workers : thread'[w].step \in {"idle", "queued"}
    BY <1>7, <1>8, NoneIsOutside
  <2> QED
    BY <1>5, <1>6, <2>1 DEF UnderWayOk, Adding
<1>19. FollowsOk'
  BY <1>2, <1>11 DEF Inv, FollowsOk, world
<1>20. ServedOk'
  <2> SUFFICES ASSUME NEW q \in Targets' \ (missed' \cup lost')
               PROVE  \/ Served(q)'
                      \/ /\ phase' = "starting"
                         /\ \/ \E d \in snapshot' : d.seller = q
                            \/ thread'[Restorer].step # "idle" /\ thread'[Restorer].seller = q
    BY DEF ServedOk
  <2>1. q \in Targets \ (missed \cup lost)
    BY <1>2 DEF Targets, world
  <2>2. CASE Served(q)
    BY <1>2, <2>2 DEF Served
  <2>3. CASE phase = "starting" /\ \E d \in snapshot : d.seller = q
    BY <1>1, <1>2, <1>5, <1>6, <2>3
  <2> QED
    BY <1>2, <1>11, <1>12, <2>1, <2>2, <2>3 DEF Inv, ServedOk, Marking
<1> QED
  BY <1>9, <1>10, <1>13, <1>14, <1>15, <1>16, <1>17, <1>18, <1>19, <1>20, InvPartsNext
     DEF Consistent

\* The listed cabinet is not restored: it is forgotten, passed over or left.
LEMMA RestoreEndsKeepsInv ==
    ASSUME Inv, RestoreCheck, RestorerReturns PROVE Inv'
<1>1. PICK s : s = thread[Restorer].seller
  OBVIOUS
<1>2. PICK o, c : o = thread[Restorer].owner /\ c = thread[Restorer]
  OBVIOUS
<1>3. /\ thread[Restorer].step = "check" /\ thread[Restorer].step # "idle" /\ s \in Sellers
      /\ phase \in {"starting", "running"} /\ \A q : ~Activating(q)
      /\ UNCHANGED <<row, snapshot, phase, expired, revoked, lost, begun, crashes>>
  BY <1>1, OnlyRestorer DEF RestoreCheck, At
<1>4. /\ TakenOverOk(c) /\ (phase = "starting" => Unchanged(c)) /\ c.seller = s /\ c.owner = o
      /\ RowsOk /\ DataOk
  BY <1>1, <1>2, <1>3, TypeOKParts DEF Inv, ListingOk
<1>5. s \notin {d.seller : d \in snapshot}
  BY <1>1, <1>3 DEF Inv, SnapshotOk
<1>6. client[s] # None =>
          \/ s \in lost
          \/ row[s] # None /\ row[s].status = "active" /\ row[s].token = client[s]
  BY <1>3, OnlyRestorer DEF Inv, FollowsOk
<1>7. phase = "running" /\ s \in Targets \ (missed \cup lost) => Served(s)
  BY <1>3 DEF Inv, ServedOk, Marking
<1> DEFINE current == GetByOwner(o, s)
           Forget == pending' = [pending EXCEPT ![s] = None]
<1>8. Forget => /\ pending' \in [Sellers -> Tokens \cup {None}]
                /\ \A q \in Sellers : q # s => pending'[q] = pending[q]
  BY <1>3 DEF Inv, TypeOK
<1>9. row[s] # None => SellerOf[row[s].token] = s
  BY <1>3, <1>4 DEF RowsOk
<1>10. CASE current = None /\ Forget /\ UNCHANGED <<client, faults, missed>>
  <2>1. DataOk'
    BY <1>3, <1>4, <1>8, <1>10 DEF DataOk
  <2>2. s \in Targets' \ (missed' \cup lost') => Served(s)'
    <3>1. SUFFICES ASSUME s \in Targets \ (missed \cup lost) PROVE row[s].token = client[s]
      BY <1>3, <1>10 DEF Targets, Served
    <3>2. row[s] # None /\ row[s].owner # o
      BY <1>10, <3>1 DEF GetByOwner, Targets
    <3> QED
      BY <1>3, <1>4, <3>1, <3>2 DEF TakenOverOk
  <2> QED
    BY <1>1, <1>3, <1>6, <1>8, <1>9, <1>10, <2>1, <2>2, RestorerLeaves
<1>11. CASE UNCHANGED <<client, pending>> /\ Fault("database")
            /\ (missed' = missed \cup {s} \/ (missed' = missed /\ phase = "running"))
  <2>1. DataOk'
    BY <1>3, <1>4, <1>11, FaultsStayBounded DEF DataOk
  <2>2. s \in Targets' \ (missed' \cup lost') => Served(s)'
    BY <1>3, <1>7, <1>11 DEF Targets, Served
  <2> QED
    BY <1>1, <1>3, <1>6, <1>9, <1>11, <2>1, <2>2, RestorerLeaves
<1>12. ASSUME UNCHANGED <<client, pending, faults, missed>>, phase = "running"
       PROVE  Inv'
  <2>1. DataOk'
    BY <1>3, <1>4, <1>12 DEF DataOk
  <2>2. s \in Targets' \ (missed' \cup lost') => Served(s)'
    BY <1>3, <1>7, <1>12 DEF Targets, Served
  <2> QED
    BY <1>1, <1>3, <1>6, <1>9, <1>12, <2>1, <2>2, RestorerLeaves
<1>13. CASE current # None /\ ~SameCredential(c, current)
            /\ UNCHANGED <<client, pending, faults, missed>>
  <2>1. phase # "starting"
    BY <1>4, <1>13 DEF GetByOwner, SameCredential, Unchanged
  <2> QED
    BY <1>3, <1>12, <1>13, <2>1
<1>14. CASE current # None /\ current.status # "active" /\ Forget
            /\ UNCHANGED <<client, faults, missed>>
  <2>1. DataOk'
    BY <1>3, <1>4, <1>8, <1>14 DEF DataOk
  <2>2. s \notin Targets'
    BY <1>3, <1>14 DEF Targets, GetByOwner
  <2>3. s \in Targets' \ (missed' \cup lost') => Served(s)'
    BY <2>2
  <2>4. /\ UNCHANGED <<client, missed>>
        /\ \A q \in Sellers : q # s => pending'[q] = pending[q]
    BY <1>8, <1>14
  <2> QED
    BY <1>1, <1>3, <1>6, <1>9, <2>1, <2>3, <2>4, RestorerLeaves
<1>15. \A status : ~ToMark(status)
  <2>1. thread'[Restorer].step = "idle"
    BY NoneIsOutside DEF RestorerReturns, Inv, ThreadsOk, Idle
  <2>2. thread[Restorer] \in Job /\ Restorer \in DOMAIN thread
    BY NoneIsOutside DEF Inv, ThreadsOk
  <2> SUFFICES ASSUME NEW status, ToMark(status) PROVE FALSE
    OBVIOUS
  <2>3. thread'[Restorer] = [[thread[Restorer] EXCEPT !.step = "mark"] EXCEPT !.mark = status]
    BY <2>2 DEF ToMark
  <2> QED
    BY <2>1, <2>2, <2>3 DEF Job
<1>16. thread' # [thread EXCEPT ![Restorer].step = "find", ![Restorer].name = current.name]
  <2>1. thread'[Restorer].step = "idle"
    BY NoneIsOutside DEF RestorerReturns, Inv, ThreadsOk, Idle
  <2>2. [thread EXCEPT ![Restorer].step = "find",
                       ![Restorer].name = current.name][Restorer].step = "find"
    <3>1. thread[Restorer] \in Job /\ Restorer \in DOMAIN thread
      BY NoneIsOutside DEF Inv, ThreadsOk
    <3> QED
      BY <3>1 DEF Job
  <2> QED
    BY <2>1, <2>2
<1>17. current = GetByOwner(c.owner, c.seller)
  BY <1>4
<1> HIDE DEF current
<1>18. \/ current = None /\ Forget /\ UNCHANGED <<client, faults, missed>>
       \/ current # None /\ ~SameCredential(c, current)
          /\ UNCHANGED <<client, pending, faults, missed>>
       \/ current # None /\ current.status # "active" /\ Forget
          /\ UNCHANGED <<client, faults, missed>>
       \/ phase = "running" /\ UNCHANGED <<client, pending, faults, missed>>
       \/ UNCHANGED <<client, pending>> /\ Fault("database")
          /\ (missed' = missed \cup {s} \/ (missed' = missed /\ phase = "running"))
  BY <1>2, <1>3, <1>4, <1>15, <1>16, <1>17 DEF RestoreCheck
<1> QED
  BY <1>10, <1>11, <1>12, <1>13, <1>14, <1>18 DEF current

\* The listed cabinet is as it was listed, and its token is past its end.
LEMMA RestoreExpiresKeepsInv ==
    ASSUME Inv, RestoreCheck, ToMark("expired"),
           client' = [client EXCEPT ![thread[Restorer].seller] = None],
           pending' = [pending EXCEPT ![thread[Restorer].seller] = None],
           NEW current, current = GetByOwner(thread[Restorer].owner, thread[Restorer].seller),
           current # None, SameCredential(thread[Restorer], current), current.status = "active",
           UNCHANGED <<faults, missed>>
    PROVE  Inv'
<1>1. PICK s : s = thread[Restorer].seller
  OBVIOUS
<1>2. /\ thread[Restorer].step = "check" /\ s \in Sellers
      /\ UNCHANGED <<row, snapshot, phase, expired, revoked, lost, begun, crashes>>
  BY <1>1, OnlyRestorer DEF RestoreCheck, At
<1>3. /\ row[s] # None /\ row[s].status = "active" /\ row[s].token = thread[Restorer].token
      /\ row[s].owner = thread[Restorer].owner
  BY <1>1 DEF GetByOwner, SameCredential
<1>4. /\ client'[s] = None
      /\ \A q \in Sellers : q # s => client'[q] = client[q] /\ pending'[q] = pending[q]
      /\ client' \in [Sellers -> Tokens \cup {None}] /\ pending' \in [Sellers -> Tokens \cup {None}]
  BY <1>1, <1>2 DEF Inv, TypeOK
<1>5. faults' \in 0..MaxFaults /\ row' \in [Sellers -> {None} \cup RowType]
      /\ UNCHANGED <<snapshot, phase, world, begun, crashes>> /\ row' = row
  BY <1>2, TypeOKParts DEF Inv, DataOk, world
<1>6. "expired" \in Statuses \ {"active"}
  BY DEF Statuses
<1> QED
  BY <1>1, <1>2, <1>3, <1>4, <1>5, <1>6, ToMarkKeepsInv

\* The listed cabinet is as it was listed, and is restored.
LEMMA RestoreBeginsKeepsInv ==
    ASSUME Inv, RestoreCheck, ~RestorerReturns, ~ToMark("expired") PROVE Inv'
<1>1. PICK s, c : s = thread[Restorer].seller /\ c = thread[Restorer]
  OBVIOUS
<1> DEFINE current == GetByOwner(c.owner, s)
           half == [c EXCEPT !.step = "find"]
           r == [half EXCEPT !.name = current.name]
<1>2. /\ thread[Restorer].step = "check" /\ s \in Sellers /\ c \in Job /\ c.op = "restore"
      /\ c.seller = s
  BY <1>1, OnlyRestorer DEF RestoreCheck, At
<1>3. /\ current # None /\ SameCredential(c, current) /\ current.status = "active"
      /\ thread' = [thread EXCEPT ![Restorer].step = "find", ![Restorer].name = current.name]
      /\ UNCHANGED <<client, pending, holder, dialog, faults, missed>>
      /\ UNCHANGED <<row, snapshot, phase, expired, revoked, lost, begun, crashes>>
  BY <1>1 DEF RestoreCheck
<1>4. thread' = [thread EXCEPT ![Restorer] = r]
  BY <1>1, <1>3, NoneIsOutside DEF Inv, ThreadsOk
<1>5. /\ row[s] # None /\ row[s].status = "active" /\ row[s].token = c.token
      /\ row[s].owner = c.owner /\ current.name \in Names
  BY <1>2, <1>3, RowIsTyped DEF GetByOwner, SameCredential, Inv, RowType
<1> HIDE DEF current
<1>6. half \in Job /\ half.step = "find" /\ half.op = c.op /\ half.owner = c.owner
      /\ half.token = c.token /\ half.seller = c.seller
  BY <1>2 DEF Job, Steps
<1> HIDE DEF half
<1>7. r \in Job /\ r.step = "find" /\ r.op = c.op /\ r.owner = c.owner
      /\ r.token = c.token /\ r.seller = c.seller /\ r.name = current.name
  BY <1>5, <1>6 DEF Job
<1> HIDE DEF r
<1>8. DataOk'
  BY <1>3, TypeOKParts DEF Inv, DataOk
<1>9. r.step \in Adding \cup {"mark"} /\ r.step # "mark" /\ r.op = "restore" /\ r.owner = thread[Restorer].owner /\ r.name \in Names
      /\ r.token = thread[Restorer].token /\ r.seller = s
  BY <1>1, <1>2, <1>5, <1>7 DEF Adding
<1>10. /\ row[s].token = r.token /\ row[s].owner = r.owner
       /\ row'[s] # None /\ row'[s].status = "active" /\ row'[s].token = r.token
       /\ row'[s].owner = r.owner
  BY <1>3, <1>5, <1>7
<1>11. /\ \A q \in Sellers : q # s =>
             row'[q] = row[q] /\ client'[q] = client[q] /\ pending'[q] = pending[q]
       /\ UNCHANGED <<client, pending>>
       /\ UNCHANGED <<holder, dialog, missed, lost, snapshot, phase, expired>>
  BY <1>3
<1>12. /\ thread[Restorer].step \notin {"idle", "mark"} /\ s = thread[Restorer].seller /\ r \in Job
       /\ row[s] # None /\ row[s].status = "active"
  BY <1>1, <1>2, <1>5, <1>7
<1>13. GoesOn(s, r)
  BY <1>4, <1>9, <1>10, <1>11, <1>12 DEF GoesOn
<1> QED
  BY <1>8, <1>13, RestorerGoesOn

LEMMA RestoreCheckKeepsInv ==
    ASSUME Inv, RestoreCheck PROVE Inv'
<1>1. CASE RestorerReturns
  BY <1>1, RestoreEndsKeepsInv
<1>2. CASE ~RestorerReturns /\ ~ToMark("expired")
  BY <1>2, RestoreBeginsKeepsInv
<1>3. CASE ~RestorerReturns /\ ToMark("expired")
  <2> DEFINE current == GetByOwner(thread[Restorer].owner, thread[Restorer].seller)
  <2>1. thread' # [thread EXCEPT ![Restorer].step = "find", ![Restorer].name = current.name]
    <3>1. thread[Restorer] \in Job /\ Restorer \in DOMAIN thread
      BY NoneIsOutside DEF Inv, ThreadsOk
    <3>2. thread'[Restorer] = [[thread[Restorer] EXCEPT !.step = "mark"] EXCEPT !.mark = "expired"]
      BY <1>3, <3>1 DEF ToMark
    <3>3. [thread EXCEPT ![Restorer].step = "find", ![Restorer].name = current.name][Restorer]
            = [[thread[Restorer] EXCEPT !.step = "find"] EXCEPT !.name = current.name]
      BY <3>1
    <3> HIDE DEF current
    <3> QED
      BY <3>1, <3>2, <3>3 DEF Job
  <2>2. /\ current # None /\ SameCredential(thread[Restorer], current)
        /\ current.status = "active" /\ UNCHANGED <<faults, missed>>
        /\ client' = [client EXCEPT ![thread[Restorer].seller] = None]
        /\ pending' = [pending EXCEPT ![thread[Restorer].seller] = None]
    BY <1>3, <2>1 DEF RestoreCheck
  <2> QED
    BY <1>3, <2>2, RestoreExpiresKeepsInv
<1> QED
  BY <1>1, <1>2, <1>3

\* The row of the cabinet that was given up is marked, or stays active.
LEMMA MarkStatusKeepsInv ==
    ASSUME Inv, MarkStatus PROVE Inv'
<1>1. PICK s, status : s = thread[Restorer].seller /\ status = thread[Restorer].mark
  OBVIOUS
<1>2. /\ thread[Restorer].step = "mark" /\ s \in Sellers /\ RestorerReturns
      /\ status \in Statuses \ {"active"} /\ RowsOk /\ DataOk
      /\ UNCHANGED <<client, pending, snapshot, phase, expired, revoked, lost, begun, crashes>>
  BY <1>1, OnlyRestorer, TypeOKParts DEF MarkStatus, At, Inv
<1>3. client'[s] = None /\ row[s] # None /\ row[s] \in RowType
  BY <1>1, <1>2, RowIsTyped DEF Inv, UnderWayOk, IsRowOf
<1>4. CASE row' = [row EXCEPT ![s].status = status] /\ UNCHANGED <<faults, missed>>
  <2>1. row'[s] = [row[s] EXCEPT !.status = status]
        /\ \A q \in Sellers : q # s => row'[q] = row[q]
    BY <1>2, <1>4 DEF DataOk
  <2>2. row'[s] \in RowType /\ row'[s].status = status /\ row'[s].token = row[s].token
    BY <1>2, <1>3, <2>1 DEF RowType
  <2>3. row' \in [Sellers -> {None} \cup RowType]
    BY <1>2, <1>4, <2>1, <2>2 DEF DataOk
  <2>4. DataOk'
    BY <1>2, <1>4, <2>3 DEF DataOk
  <2>5. s \notin Targets'
    BY <1>2, <2>2 DEF Targets
  <2>6. SellerOf[row'[s].token] = s
    BY <1>2, <1>3, <2>2 DEF RowsOk
  <2>7. /\ thread[Restorer].step # "idle"
        /\ \A q \in Sellers : q # s =>
              /\ row'[q] = row[q] /\ client'[q] = client[q] /\ pending'[q] = pending[q]
              /\ q \in missed' <=> q \in missed
              /\ q \in lost' <=> q \in lost
    BY <1>2, <1>4, <2>1
  <2> QED
    BY <1>1, <1>2, <1>3, <2>4, <2>5, <2>6, <2>7, RestorerLeaves
<1>5. CASE Fault("database") /\ missed' = missed \cup {s} /\ UNCHANGED row
  <2>1. DataOk'
    BY <1>2, <1>5, FaultsStayBounded DEF DataOk
  <2>2. SellerOf[row'[s].token] = s
    BY <1>2, <1>3, <1>5 DEF RowsOk
  <2>3. /\ thread[Restorer].step # "idle" /\ s \in missed'
        /\ \A q \in Sellers : q # s =>
              /\ row'[q] = row[q] /\ client'[q] = client[q] /\ pending'[q] = pending[q]
              /\ q \in missed' <=> q \in missed
              /\ q \in lost' <=> q \in lost
    BY <1>2, <1>5
  <2> QED
    BY <1>1, <1>2, <1>3, <2>1, <2>2, <2>3, RestorerLeaves
<1> QED
  BY <1>1, <1>4, <1>5 DEF MarkStatus

\* A listing is what the rows say now, each seller once.
LEMMA ListStoredIs ==
    ASSUME TypeOK
    PROVE  /\ ListStored \subseteq Stored
           /\ \A c \in ListStored : Unchanged(c)
           /\ \A c, d \in ListStored : c.seller = d.seller => c = d
           /\ \A s \in Sellers : row[s] # None => \E c \in ListStored : c.seller = s
<1>1. \A s \in Sellers : row[s] # None => row[s] \in RowType
  BY RowIsTyped
<1> DEFINE Listed(s) == [seller |-> s, owner |-> row[s].owner, name |-> row[s].name,
                         token |-> row[s].token]
<1>2. ListStored = {Listed(s) : s \in {x \in Sellers : row[x] # None}}
  BY DEF ListStored
<1>3. ASSUME NEW s \in Sellers, row[s] # None
      PROVE  /\ Listed(s) \in Stored /\ Listed(s).seller = s /\ Unchanged(Listed(s))
             /\ Listed(s) \in ListStored
  <2>1. Listed(s) \in Stored
    BY <1>1, <1>3 DEF Stored, RowType
  <2>2. Unchanged(Listed(s)) /\ Listed(s).seller = s
    BY <1>3 DEF Unchanged
  <2> QED
    BY <1>2, <1>3, <2>1, <2>2
<1>4. \A c \in ListStored : \E s \in Sellers : row[s] # None /\ c = Listed(s)
  BY <1>2
<1> HIDE DEF Listed
<1> QED
  BY <1>3, <1>4

LEMMA BootKeepsInv ==
    ASSUME Inv, Boot PROVE Inv'
<1>1. /\ phase = "down" /\ phase' \in {"starting", "running"}
      /\ UNCHANGED <<row, client, pending, holder, thread, dialog, expired, revoked, lost, begun, crashes>>
      /\ client = [s \in Sellers |-> None] /\ pending = [s \in Sellers |-> None]
      /\ \A t \in Threads : thread[t].step = "idle"
  BY DEF Boot, Inv, PhaseOk
<1>2. /\ \A w \in Workers : thread'[w].step = "idle"
      /\ thread'[Restorer].step = "idle"
      /\ \A q : ~Activating(q)' /\ ~Removing(q)'
  BY <1>1, NoneIsOutside DEF Activating, Removing
<1>3. ThreadsOk' /\ DialogsOk' /\ MutexOk' /\ RowsOk' /\ PhaseOk' /\ UnderWayOk' /\ FollowsOk'
  <2>1. ThreadsOk' /\ DialogsOk' /\ MutexOk' /\ RowsOk'
    BY <1>1 DEF Inv, ThreadsOk, ThreadOk, DialogsOk, MutexOk, RowsOk
  <2>2. PhaseOk' /\ UnderWayOk'
    BY <1>1, <1>2 DEF PhaseOk, UnderWayOk, Adding
  <2>3. FollowsOk'
    BY <1>1 DEF FollowsOk
  <2> QED
    BY <2>1, <2>2, <2>3
<1>4. CASE phase' = "starting" /\ snapshot' = ListStored /\ UNCHANGED <<faults, missed>>
  <2>1. DataOk'
    BY <1>1, <1>4, ListStoredIs, TypeOKParts DEF Inv, DataOk
  <2>2. SnapshotOk'
    BY <1>2, <1>4, ListStoredIs DEF SnapshotOk, Inv
  <2>3. ListingOk'
    BY <1>1, <1>2, <1>4, ListStoredIs DEF ListingOk, Inv, Unchanged, TakenOverOk
  <2>4. ServedOk'
    BY <1>1, <1>4, ListStoredIs DEF ServedOk, Inv, Targets
  <2> QED
    BY <1>3, <2>1, <2>2, <2>3, <2>4, InvPartsNext DEF Consistent
<1>5. CASE /\ Fault("database")
           /\ phase' = "running" /\ snapshot' = {} /\ missed' = {c.seller : c \in ListStored}
  <2>1. DataOk'
    <3>1. missed' \subseteq Sellers
      BY <1>5, ListStoredIs DEF Inv, Stored
    <3> QED
      BY <1>1, <1>5, <3>1, FaultsStayBounded, TypeOKParts DEF Inv, DataOk
  <2>2. SnapshotOk' /\ ListingOk'
    BY <1>2, <1>5 DEF SnapshotOk, ListingOk
  <2>3. ServedOk'
    BY <1>1, <1>5, ListStoredIs DEF ServedOk, Inv, Targets
  <2> QED
    BY <1>3, <2>1, <2>2, <2>3, InvPartsNext DEF Consistent
<1> QED
  BY <1>4, <1>5 DEF Boot

LEMMA StartupDoneKeepsInv ==
    ASSUME Inv, StartupDone PROVE Inv'
<1>1. /\ phase = "starting" /\ snapshot = {} /\ thread[Restorer].step = "idle"
      /\ phase' = "running" /\ UNCHANGED <<row, memory, world, counts>>
  BY DEF StartupDone
<1>2. ThreadsOk' /\ DialogsOk' /\ MutexOk' /\ DataOk' /\ RowsOk'
  BY <1>1, TypeOKParts DEF Inv, ThreadsOk, ThreadOk, DialogsOk, MutexOk, DataOk, RowsOk,
     memory, world, counts
<1>3. \A q : (Activating(q)' <=> Activating(q)) /\ (Removing(q)' <=> Removing(q))
  BY <1>1 DEF Activating, Removing, memory
<1>4. PhaseOk' /\ SnapshotOk' /\ ListingOk' /\ UnderWayOk'
  BY <1>1 DEF Inv, PhaseOk, SnapshotOk, ListingOk, UnderWayOk, IsRowOf, memory
<1>5. FollowsOk'
  BY <1>1, <1>3 DEF Inv, FollowsOk, memory, world
<1>6. ServedOk'
  BY <1>1, <1>3 DEF Inv, ServedOk, Served, Marking, Targets, memory, world
<1> QED
  BY <1>2, <1>4, <1>5, <1>6, InvPartsNext DEF Consistent

LEMMA RetryTickKeepsInv ==
    ASSUME Inv, RetryTick PROVE Inv'
<1>1. /\ phase = "running" /\ thread[Restorer].step = "idle" /\ snapshot' = ListStored
      /\ UNCHANGED <<row, client, pending, holder, thread, phase, dialog, world, counts>>
  BY DEF RetryTick
<1>2. ThreadsOk' /\ DialogsOk' /\ MutexOk' /\ RowsOk'
  BY <1>1 DEF Inv, ThreadsOk, ThreadOk, DialogsOk, MutexOk, RowsOk
<1>3. DataOk'
  BY <1>1, ListStoredIs, TypeOKParts DEF Inv, DataOk, world, counts
<1>4. \A q : (Activating(q)' <=> Activating(q)) /\ (Removing(q)' <=> Removing(q))
  BY <1>1 DEF Activating, Removing
<1>5. PhaseOk' /\ UnderWayOk'
  BY <1>1 DEF Inv, PhaseOk, UnderWayOk, IsRowOf
<1>6. SnapshotOk' /\ ListingOk'
  BY <1>1, ListStoredIs DEF Inv, SnapshotOk, ListingOk, TakenOverOk, Unchanged
<1>7. FollowsOk'
  BY <1>1, <1>4 DEF Inv, FollowsOk, world
<1>8. ServedOk'
  BY <1>1, <1>4 DEF Inv, ServedOk, Served, Marking, Targets, world
<1> QED
  BY <1>2, <1>3, <1>5, <1>6, <1>7, <1>8, InvPartsNext DEF Consistent

LEMMA TokenEndsKeepsInv ==
    ASSUME Inv, NEW t \in Tokens, Expire(t) \/ Revoke(t) PROVE Inv'
<1>1. /\ UNCHANGED <<row, memory, phase, missed, lost, counts>>
      /\ expired \subseteq expired' /\ expired' \subseteq Tokens /\ revoked' \subseteq Tokens
  BY DEF Expire, Revoke, Inv, TypeOK
<1>2. ThreadsOk' /\ DialogsOk' /\ MutexOk' /\ DataOk' /\ RowsOk'
  BY <1>1, TypeOKParts DEF Inv, ThreadsOk, ThreadOk, DialogsOk, MutexOk, DataOk, RowsOk,
     memory, counts
<1>3. \A q : (Activating(q)' <=> Activating(q)) /\ (Removing(q)' <=> Removing(q))
  BY <1>1 DEF Activating, Removing, memory
<1>4. PhaseOk' /\ SnapshotOk' /\ UnderWayOk'
  BY <1>1 DEF Inv, PhaseOk, SnapshotOk, UnderWayOk, IsRowOf, memory
<1>5. ListingOk'
  BY <1>1, <1>3 DEF Inv, ListingOk, TakenOverOk, Unchanged, memory
<1>6. FollowsOk'
  BY <1>1, <1>3 DEF Inv, FollowsOk, memory
<1>7. ServedOk'
  <2>1. Targets' \subseteq Targets
    BY <1>1 DEF Targets
  <2> QED
    BY <1>1, <1>3, <2>1 DEF Inv, ServedOk, Served, Marking, memory
<1> QED
  BY <1>2, <1>4, <1>5, <1>6, <1>7, InvPartsNext DEF Consistent

\* A process that is down has no thread, client or dialogue.
LEMMA DownIsSound ==
    ASSUME DataOk, RowsOk, phase = "down", snapshot = {}, holder = None,
           client = [s \in Sellers |-> None], pending = [s \in Sellers |-> None],
           thread = [t \in Threads |-> Idle], dialog = [o \in Owners |-> None]
    PROVE  Inv
<1>1. Idle \in Job /\ Idle.step = "idle" /\ Idle.op = "none"
  BY DEF Idle, Job, Steps
<1>2. thread \in [Threads -> Job] /\ \A t \in Threads : thread[t] = Idle
  BY <1>1
<1>3. ThreadsOk
  BY <1>1, <1>2 DEF ThreadsOk, ThreadOk
<1>4. MutexOk /\ DialogsOk
  BY <1>1, <1>2, NoneIsOutside DEF MutexOk, DialogsOk
<1>5. PhaseOk /\ SnapshotOk /\ ListingOk /\ UnderWayOk /\ FollowsOk /\ ServedOk
  BY <1>1, <1>2, NoneIsOutside
     DEF PhaseOk, SnapshotOk, ListingOk, UnderWayOk, FollowsOk, ServedOk, Adding
<1> QED
  BY <1>3, <1>4, <1>5, TypeOKParts DEF Inv

LEMMA DownIsSoundNext ==
    (/\ DataOk /\ RowsOk /\ phase = "down" /\ snapshot = {} /\ holder = None
     /\ client = [s \in Sellers |-> None] /\ pending = [s \in Sellers |-> None]
     /\ thread = [t \in Threads |-> Idle] /\ dialog = [o \in Owners |-> None])' => Inv'
<1>1. (/\ DataOk /\ RowsOk /\ phase = "down" /\ snapshot = {} /\ holder = None
       /\ client = [s \in Sellers |-> None] /\ pending = [s \in Sellers |-> None]
       /\ thread = [t \in Threads |-> Idle] /\ dialog = [o \in Owners |-> None]) => Inv
  BY DownIsSound
<1> QED
  BY <1>1, PTL

LEMMA CrashKeepsInv ==
    ASSUME Inv, Crash PROVE Inv'
<1>1. crashes' \in 0..MaxCrashes
  BY ConstantsAssumption DEF Crash, Inv, TypeOK
<1>2. DataOk'
  BY <1>1, TypeOKParts DEF Crash, Inv, DataOk
<1>3. RowsOk'
  BY DEF Crash, Inv, RowsOk
<1> QED
  BY <1>2, <1>3, DownIsSoundNext DEF Crash

LEMMA InitIsSound ==
    ASSUME Init PROVE Inv
<1>1. DataOk /\ RowsOk
  BY ConstantsAssumption DEF Init, DataOk, RowsOk
<1> QED
  BY <1>1, DownIsSound DEF Init

LEMMA NextKeepsInv == Inv /\ [Next]_vars => Inv'
<1> SUFFICES ASSUME Inv, [Next]_vars PROVE Inv'
  OBVIOUS
<1>1. ASSUME NEW o \in Owners,
             \/ StartAdd(o) \/ EndDialog(o) \/ \E n \in Names : EnterName(o, n)
             \/ \E w \in Workers, t \in Tokens : EnterToken(w, o, t)
             \/ \E w \in Workers, s \in Sellers : AskDelete(w, o, s)
      PROVE  Inv'
  BY <1>1, DialogActionKeepsInv, EnterTokenKeepsInv, AskDeleteKeepsInv
<1>2. ASSUME NEW w \in Workers, WorkerStep(w) PROVE Inv'
  BY <1>2, LockKeepsInv, WorkerFindKeepsInv, WorkerPingKeepsInv, WorkerUpsertKeepsInv,
     WorkerActivateKeepsInv, WorkerDeleteKeepsInv, WorkerRemoveKeepsInv DEF WorkerStep
<1>3. CASE RestorerStep
  BY <1>3, RestoreNextKeepsInv, RestoreCheckKeepsInv, MarkStatusKeepsInv, RestorerFindKeepsInv,
     RestorerPingKeepsInv, RestorerUpsertKeepsInv, RestorerActivateKeepsInv DEF RestorerStep
<1>4. CASE Boot \/ StartupDone \/ RetryTick \/ Crash
  BY <1>4, BootKeepsInv, StartupDoneKeepsInv, RetryTickKeepsInv, CrashKeepsInv
<1>5. ASSUME NEW t \in Tokens, Expire(t) \/ Revoke(t) PROVE Inv'
  BY <1>5, TokenEndsKeepsInv
<1>6. CASE UNCHANGED vars
  <2>1. DialogsOk' /\ begun' \in 0..MaxDialogs
    BY <1>6 DEF vars, memory, counts, Inv, DialogsOk, TypeOK
  <2> QED
    BY <1>6, <2>1, DialogStepKeepsInv DEF vars, memory, counts
<1> QED
  BY <1>1, <1>2, <1>3, <1>4, <1>5, <1>6 DEF Next

\* The invariant.
THEOREM InvHolds == Spec => []Inv
<1>1. Init => Inv
  BY InitIsSound
<1>2. Inv /\ [Next]_vars => Inv'
  BY NextKeepsInv
<1> QED
  BY <1>1, <1>2, PTL DEF Spec

-----------------------------------------------------------------------------
(* The properties.                                                          *)

\* No client outlives its credential, and every cabinet offered as a target is
\* served by its own client or known to the retry loop.
THEOREM ClientsStayCurrent == Spec => []ClientsAreCurrent
<1>1. Inv => ClientsAreCurrent
  <2> SUFFICES ASSUME Inv PROVE ClientsAreCurrent
    OBVIOUS
  <2>1. ClientFollowsRow
    <3> SUFFICES ASSUME holder = None, NEW s \in Sellers, client[s] # None
                 PROVE  \/ s \in lost
                        \/ row[s] # None /\ row[s].status = "active" /\ row[s].token = client[s]
      BY DEF ClientFollowsRow
    <3>1. ~Activating(s) /\ ~Removing(s)
      BY Free, NoneIsOutside DEF Inv, Activating, Removing
    <3> QED
      BY <3>1 DEF Inv, FollowsOk
  <2>2. ServedOrPending
    <3> SUFFICES ASSUME phase = "running", holder = None, NEW s \in Targets \ (missed \cup lost)
                 PROVE  row[s].token \in {client[s], pending[s]}
      BY DEF ServedOrPending
    <3>1. ~Activating(s) /\ ~Marking(s)
      BY Free, NoneIsOutside DEF Inv, Activating, Marking
    <3> QED
      BY <3>1 DEF Inv, ServedOk, Served
  <2> QED
    BY <2>1, <2>2 DEF ClientsAreCurrent, Inv
<1> QED
  BY <1>1, InvHolds, PTL

\* A restoration that works from an older listing writes no credential, and a
\* verification that outlives its dialogue leaves the owner's present one alone.
THEOREM StaleWorkStaysHarmless == Spec => StaleWorkIsHarmless
<1> DEFINE KeepsCredentials ==
              \A s \in Sellers :
                  row'[s] # None /\ (row[s] = None \/ row'[s].token # row[s].token) =>
                      \E w \in Workers :
                          thread[w].step = "upsert" /\ thread'[w].step # "upsert"
           KeepsDialog ==
              \A w \in Workers : \A o \in Owners :
                  /\ thread[w].op = "add" /\ thread[w].owner = o /\ thread[w].step # "queued"
                  /\ thread'[w].step = "idle" /\ phase' = "running"
                  /\ dialog[o] # None /\ dialog[o].id # thread[w].lease
                  => dialog'[o] = dialog[o]
<1>1. Inv /\ Next => KeepsCredentials
  <2> SUFFICES ASSUME Inv, Next, NEW s \in Sellers, row'[s] # None,
                      row[s] = None \/ row'[s].token # row[s].token
               PROVE  \E w \in Workers :
                          thread[w].step = "upsert" /\ thread'[w].step # "upsert"
    OBVIOUS
  <2>1. row' # row
    OBVIOUS
  <2>2. \A q \in Sellers : row[q] # None => row[q] \in RowType
    BY RowIsTyped DEF Inv
  <2>3. row \in [Sellers -> {None} \cup RowType]
    BY TypeOKParts DEF Inv, DataOk
  <2>4. ASSUME NEW q \in Sellers, NEW status, row[q] # None,
               row' = [row EXCEPT ![q].status = status]
        PROVE  FALSE
    <3>1. row'[s] = IF s = q THEN [row[q] EXCEPT !.status = status] ELSE row[s]
      BY <2>3, <2>4
    <3>2. row[q] \in RowType
      BY <2>2, <2>4
    <3>3. [row[q] EXCEPT !.status = status].token = row[q].token
      BY <3>2 DEF RowType
    <3> QED
      BY <2>4, <3>1, <3>3
  <2>5. ASSUME NEW w \in Workers, NEW result, WorkerReturns(w, result)
        PROVE  thread'[w].step = "idle"
    BY <2>5, NoneIsOutside DEF WorkerReturns, Idle, Inv, ThreadsOk
  <2>6. ASSUME NEW w \in Workers, UpsertVerified(w)
        PROVE  thread[w].step = "upsert" /\ thread'[w].step # "upsert"
    <3>1. w \in Threads /\ thread[w].step = "upsert" /\ thread[w] \in Job
          /\ thread \in [Threads -> Job] /\ thread[w].op = "add"
      BY <2>6, WorkerInHand DEF UpsertVerified, At, Adding, Inv, ThreadsOk
    <3>2. ASSUME GoTo(w, "activate") PROVE thread'[w].step # "upsert"
      <4>1. thread'[w] = [thread[w] EXCEPT !.step = "activate"]
        BY <3>1, <3>2 DEF GoTo
      <4> QED
        BY <3>1, <4>1 DEF Job
    <3>3. ASSUME NEW err, AddFails(w, err) PROVE thread'[w].step # "upsert"
      BY <2>5, <3>1, <3>3 DEF AddFails
    <3> QED
      BY <2>6, <3>1, <3>2, <3>3 DEF UpsertVerified
  <2>7. ASSUME UpsertVerified(Restorer) PROVE FALSE
    <3>1. row' = [row EXCEPT ![SellerOf[thread[Restorer].token]] = Verified(Restorer)]
      BY <2>1, <2>7 DEF UpsertVerified
    <3>2. /\ row[thread[Restorer].seller] # None
          /\ row[thread[Restorer].seller].token = thread[Restorer].token
          /\ thread[Restorer].seller \in Sellers
      BY <2>7, OnlyRestorer DEF UpsertVerified, At, Inv, UnderWayOk, IsRowOf, Adding
    <3>3. SellerOf[thread[Restorer].token] = thread[Restorer].seller
      BY <3>2 DEF Inv, RowsOk
    <3>4. row'[s] = IF s = thread[Restorer].seller THEN Verified(Restorer) ELSE row[s]
      BY <2>3, <3>1, <3>2, <3>3
    <3> QED
      BY <3>2, <3>4 DEF Verified
  <2>8. ASSUME NEW w \in Workers, DeleteByOwner(w) PROVE FALSE
    <3>1. row' = [row EXCEPT ![thread[w].seller] = None]
      BY <2>1, <2>8 DEF DeleteByOwner
    <3>2. row'[s] = IF s = thread[w].seller THEN None ELSE row[s]
      BY <2>3, <3>1
    <3> QED
      BY <3>2
  <2>9. ASSUME MarkStatus PROVE FALSE
    <3>1. /\ row' = [row EXCEPT ![thread[Restorer].seller].status = thread[Restorer].mark]
          /\ thread[Restorer].step = "mark"
      BY <2>1, <2>9 DEF MarkStatus, At
    <3>2. thread[Restorer].seller \in Sellers /\ row[thread[Restorer].seller] # None
      BY <3>1, OnlyRestorer DEF Inv, UnderWayOk, IsRowOf
    <3> QED
      BY <2>4, <3>1, <3>2
  <2> QED
    BY <2>1, <2>6, <2>7, <2>8, <2>9, NoneIsOutside
       DEF Next, StartAdd, EndDialog, EnterName, EnterToken, AskDelete, WorkerStep, Lock, Find, Ping,
           Activate, RemoveClient, Boot, StartupDone, RetryTick, RestorerStep, RestoreNext,
           RestoreCheck, Expire, Revoke, Crash
<1>2. Inv /\ Next => KeepsDialog
  <2> SUFFICES ASSUME Inv, Next, NEW w \in Workers, NEW o \in Owners,
                      thread[w].op = "add", thread[w].owner = o, thread[w].step # "queued",
                      thread'[w].step = "idle", phase' = "running",
                      dialog[o] # None, dialog[o].id # thread[w].lease
               PROVE  dialog'[o] = dialog[o]
    OBVIOUS
  <2>1. /\ w \in Threads /\ w # Restorer /\ thread[w].step \notin {"idle", "queued"}
        /\ thread \in [Threads -> Job] /\ dialog \in [Owners -> Dialog \cup {None}]
        /\ \A u \in Threads : thread[u] \in Job
    <3>1. ThreadOk(w, thread[w])
      BY NoneIsOutside DEF Inv, ThreadsOk
    <3> QED
      BY <3>1, NoneIsOutside DEF ThreadOk, Inv, ThreadsOk, DialogsOk
  <2>2. thread'[w] # thread[w]
    BY <2>1
  <2>3. ASSUME NEW u \in Threads, NEW r, thread' = [thread EXCEPT ![u] = r]
        PROVE  u = w /\ r.step = "idle"
    BY <2>1, <2>2, <2>3
  <2>4. ASSUME NEW result, WorkerReturns(w, result) PROVE dialog'[o] = dialog[o]
    BY <2>1, <2>4 DEF WorkerReturns, Finish
  <2>5. ASSUME NEW v \in Workers, WorkerStep(v) PROVE dialog'[o] = dialog[o]
    <3>1. v \in Threads
      BY NoneIsOutside
    <3>2. ASSUME NEW result, WorkerReturns(v, result) PROVE dialog'[o] = dialog[o]
      BY <2>3, <2>4, <3>1, <3>2 DEF WorkerReturns
    <3>3. ASSUME NEW err, AddFails(v, err)
          PROVE  UNCHANGED dialog \/ \E result : WorkerReturns(v, result)
      BY <3>3 DEF AddFails, RestoreFailure, RestorerReturns, ToMark
    <3>4. UNCHANGED dialog \/ \E result : WorkerReturns(v, result)
      BY <2>5, <3>1, <3>3 DEF WorkerStep, Lock, Find, Ping, UpsertVerified, Activate,
           DeleteByOwner, RemoveClient, RestorerReturns
    <3> QED
      BY <3>2, <3>4
  <2>6. ASSUME RestorerStep PROVE dialog'[o] = dialog[o]
    <3>1. ASSUME NEW result, WorkerReturns(Restorer, result) PROVE FALSE
      BY <2>1, <2>3, <3>1, NoneIsOutside DEF WorkerReturns
    <3>2. ASSUME NEW err, AddFails(Restorer, err) PROVE UNCHANGED dialog
      BY <3>1, <3>2 DEF AddFails, RestoreFailure, RestorerReturns, ToMark
    <3> QED
      BY <2>6, <3>1, <3>2 DEF RestorerStep, RestoreNext, RestoreCheck, MarkStatus, Find, Ping,
           UpsertVerified, Activate, RestorerReturns, ToMark
  <2>7. ASSUME NEW q \in Owners, NEW v \in Workers,
               (\E t \in Tokens : EnterToken(v, q, t)) \/ (\E s \in Sellers : AskDelete(v, q, s))
        PROVE  FALSE
    <3>1. thread[v].step = "idle" /\ v \in Threads /\ v # w
      BY <2>1, <2>7, NoneIsOutside DEF EnterToken, AskDelete
    <3> QED
      BY <2>3, <2>7, <3>1 DEF EnterToken, AskDelete
  <2>8. ~Crash
    BY DEF Crash
  <2> QED
    BY <2>2, <2>5, <2>6, <2>7, <2>8
       DEF Next, StartAdd, EndDialog, EnterName, Boot, StartupDone, RetryTick, Expire, Revoke, memory
<1>3. Inv /\ [Next]_vars => [KeepsCredentials]_vars /\ [KeepsDialog]_vars
  BY <1>1, <1>2
<1> QED
  BY <1>3, InvHolds, PTL DEF Spec, StaleWorkIsHarmless, RestoreKeepsCredentials, StaleLeaseKeepsDialog
=============================================================================
