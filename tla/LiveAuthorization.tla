-------------------------- MODULE LiveAuthorization --------------------------
(***************************************************************************)
(* The authority to publish: transfer_live_authorizations and the journal  *)
(* of commands that changed them, as LiveAuthorizationService and its      *)
(* repository keep them.  The automatic processor requests and approves in *)
(* one transaction under a key derived from what it listed; commands that  *)
(* carry a key of the caller may arrive late, twice, or with a key used    *)
(* for another command; dispatchers check, supersede and close             *)
(* authorizations inside their own transactions.                           *)
(*                                                                         *)
(* Abstracted: a digest is the tuple of the fields it is computed from; an *)
(* actor is its Telegram id; a row whose expires_at has passed is `over';  *)
(* the plan's revision, part of the automatic key, is left out, so that a  *)
(* key is the same more often here than in the code.                       *)
(***************************************************************************)
EXTENDS Naturals, Sequences, FiniteSets

CONSTANTS
    Plans,
    Actions,
    PlanOf,          \* action -> its plan
    Actors,
    AuthorOf,        \* plan -> author of the import session
    Keys,            \* idempotency keys of callers of the service
    MaxRows,         \* bound: authorizations of a plan; the last one stays in force
    MaxMessages      \* bound: commands that callers issue

ASSUME PlanOfAssumption == PlanOf \in [Actions -> Plans]
ASSUME AuthorOfAssumption == AuthorOf \in [Plans -> Actors]

\* The keys that the service makes itself: of an expiry, a superseding or a
\* closing, and of a pass of the automatic processor.
SystemKeys == {"expire", "superseded", "closed"} \X Nat \X Nat

AutomaticKeys == {"auto"} \X Plans \X Nat

ApproveKeys == {"auto:approve"} \X AutomaticKeys

\* Callers do not use the prefixes "system:" and "auto:" of these keys.
ASSUME KeyAssumption ==
    \A key \in Keys : key \notin SystemKeys \cup AutomaticKeys \cup ApproveKeys

VARIABLES
    db,          \* [rows: authorizations in id order, commands: the journal]
    plan,        \* plan -> publication_plans.state
    action,      \* action -> its state and the authorization of its attempt
    candidate,   \* action -> what the dispatcher read of it
    listed,      \* plans the automatic processor listed, with the last id it saw
    messages     \* commands that callers issued; any may arrive at any time

vars == <<db, plan, action, candidate, listed, messages>>

OpenStates == {"requested", "authorized"}

RowStates == OpenStates \cup {"revoked", "expired", "superseded", "closed"}

None == [auth |-> 0, revision |-> 0]

Init ==
    /\ db = [rows |-> <<>>, commands |-> {}]
    /\ plan = [p \in Plans |-> "awaiting_authorization"]
    /\ action = [a \in Actions |-> [state |-> "planned", auth |-> 0]]
    /\ candidate = [a \in Actions |-> None]
    /\ listed = {}
    /\ messages = {}

-----------------------------------------------------------------------------
(* The journal of commands. *)

IsOpen(d, id) == d.rows[id].state \in OpenStates

Journaled(d, id, command) ==
    [d EXCEPT !.commands = @ \cup
        {[key |-> command.key, kind |-> command.kind, actor |-> command.actor,
          digest |-> command.digest, auth |-> id,
          state |-> d.rows[id].state, revision |-> d.rows[id].revision]}]

IsKnown(d, key) == \E c \in d.commands : c.key = key

Stored(d, key) == CHOOSE c \in d.commands : c.key = key

\* A known key must come with the command it was first used for; anything else
\* is ErrLiveIdempotency.
ReplayOk(d, command) ==
    LET stored == Stored(d, command.key) IN
    /\ stored.kind = command.kind
    /\ stored.actor = command.actor
    /\ stored.digest = command.digest

\* The state of an authorization changes with its revision, and the command
\* that changed it is journaled.
Changed(d, id, state, command) ==
    Journaled([d EXCEPT !.rows[id].state = state,
                        !.rows[id].revision = @ + 1], id, command)

IsOverdue(d, id) == IsOpen(d, id) /\ d.rows[id].over

\* Mutant: the lazy expiry leaves no trace in the journal.
ExpireSilently(d, id) ==
    IF IsOverdue(d, id)
    THEN [d EXCEPT !.rows[id].state = "expired", !.rows[id].revision = @ + 1]
    ELSE d

\* expireLiveAuthorization: whoever touches an open authorization whose time is
\* over ends it first.
Expire(d, id) ==
    IF IsOverdue(d, id)
    THEN Changed(d, id, "expired",
            [key |-> <<"expire", id, d.rows[id].revision>>, kind |-> "expire",
             actor |-> "system", digest |-> <<"expire", id, d.rows[id].revision>>])
    ELSE d

OpenRows(d, p) == {id \in DOMAIN d.rows : d.rows[id].plan = p /\ IsOpen(d, id)}

-----------------------------------------------------------------------------
(* The operations of the repository: Ok says when the operation returns     *)
(* without an error, so that its transaction commits.                       *)

RequestCommand(p, actor, key) ==
    [key |-> key, kind |-> "request", actor |-> actor, digest |-> <<"request", p>>]

NewRow(d, p, actor) ==
    [d EXCEPT !.rows = Append(@,
        [plan |-> p, actor |-> actor, state |-> "requested", revision |-> 0, over |-> FALSE])]

RequestLiveOk(d, p, actor, key) ==
    IF IsKnown(d, key)
    THEN ReplayOk(d, RequestCommand(p, actor, key))
    ELSE \A id \in OpenRows(d, p) : ~d.rows[id].over => d.rows[id].actor = actor

\* Mutant: an open authorization is not looked for.
RequestLiveAnew(d, p, actor, key) ==
    IF IsKnown(d, key)
    THEN LET id == Stored(d, key).auth IN [db |-> Expire(d, id), id |-> id]
    ELSE LET id == Len(d.rows) + 1
         IN  [db |-> Journaled(NewRow(d, p, actor), id, RequestCommand(p, actor, key)), id |-> id]

\* The authorization the request is answered with: the one of the first use of
\* the key, the open one, or a new one.
RequestLive(d, p, actor, key) ==
    LET command == RequestCommand(p, actor, key)
        open    == OpenRows(d, p)
        lasting == {id \in open : ~d.rows[id].over}
    IN  CASE IsKnown(d, key) ->
                LET id == Stored(d, key).auth IN [db |-> Expire(d, id), id |-> id]
          [] ~IsKnown(d, key) /\ lasting # {} ->
                LET id == CHOOSE id \in lasting : TRUE
                IN  [db |-> Journaled(d, id, command), id |-> id]
          [] OTHER ->
                LET d1 == IF open = {} THEN d ELSE Expire(d, CHOOSE id \in open : TRUE)
                    id == Len(d1.rows) + 1
                IN  [db |-> Journaled(NewRow(d1, p, actor), id, command), id |-> id]

ApproveCommand(id, revision, actor, key) ==
    [key |-> key, kind |-> "approve", actor |-> actor, digest |-> <<"approve", id, revision>>]

\* An authorization that runs out is returned as expired, and committed.
ApproveLiveOk(d, p, id, revision, actor, key) ==
    IF IsKnown(d, key)
    THEN ReplayOk(d, ApproveCommand(id, revision, actor, key))
    ELSE \/ IsOverdue(d, id)
         \/ /\ d.rows[id].plan = p
            /\ d.rows[id].revision = revision
            /\ d.rows[id].actor = actor
            /\ d.rows[id].state = "requested"

ApproveLive(d, p, id, revision, actor, key) ==
    IF IsKnown(d, key) \/ IsOverdue(d, id)
    THEN Expire(d, IF IsKnown(d, key) THEN Stored(d, key).auth ELSE id)
    ELSE Changed(d, id, "authorized", ApproveCommand(id, revision, actor, key))

RevokeCommand(id, revision, actor, key) ==
    [key |-> key, kind |-> "revoke", actor |-> actor, digest |-> <<"revoke", id, revision>>]

RevokeLiveOk(d, id, revision, actor, key) ==
    IF IsKnown(d, key)
    THEN ReplayOk(d, RevokeCommand(id, revision, actor, key))
    ELSE \/ IsOverdue(d, id)
         \/ /\ d.rows[id].revision = revision
            /\ d.rows[id].actor = actor
            /\ IsOpen(d, id)

RevokeLive(d, id, revision, actor, key) ==
    IF IsKnown(d, key) \/ IsOverdue(d, id)
    THEN Expire(d, IF IsKnown(d, key) THEN Stored(d, key).auth ELSE id)
    ELSE Changed(d, id, "revoked", RevokeCommand(id, revision, actor, key))

AttemptedActions(p) == {a \in Actions : PlanOf[a] = p /\ action[a].auth # 0}

UnfinishedActions(p) ==
    {a \in Actions : PlanOf[a] = p /\ action[a].state \notin {"terminal", "superseded"}}

\* ChangeLiveState with the revision that the same transaction read: closing
\* leaves an ended authorization alone, the others must be open.
ChangeLiveState(d, id, state) ==
    IF IsOverdue(d, id) \/ ~IsOpen(d, id)
    THEN Expire(d, id)
    ELSE Changed(d, id, state,
            [key |-> <<state, id, d.rows[id].revision>>,
             kind |-> IF state = "superseded" THEN "supersede" ELSE "close",
             actor |-> "system", digest |-> <<state, id, d.rows[id].revision>>])

-----------------------------------------------------------------------------
(* The automatic processor. *)

IsAvailable(p) ==
    /\ plan[p] \in {"awaiting_authorization", "executing"}
    /\ \E a \in Actions : PlanOf[a] = p /\ action[a].state = "planned"

\* LockAuthorizationPlan: the plan is available, and the actor is its author.
LockPlanOk(p, actor) == IsAvailable(p) /\ actor = AuthorOf[p]

RowsOf(d, p) == {id \in DOMAIN d.rows : d.rows[id].plan = p}

LatestAuthorization(d, p) ==
    IF RowsOf(d, p) = {} THEN 0
    ELSE CHOOSE id \in RowsOf(d, p) : \A other \in RowsOf(d, p) : other <= id

WithinBound(d) == \A p \in Plans : Cardinality(RowsOf(d, p)) <= MaxRows

IsAuthorized(p) ==
    \E id \in DOMAIN db.rows :
        /\ db.rows[id].plan = p
        /\ db.rows[id].state = "authorized"
        /\ ~db.rows[id].over

\* Mutant: an authorization whose time is over still counts.
ListPlanByState(p) ==
    /\ IsAvailable(p)
    /\ \A id \in RowsOf(db, p) : db.rows[id].state # "authorized"
    /\ \A s \in listed : s.plan # p
    /\ listed' = listed \cup {[plan |-> p, latest |-> LatestAuthorization(db, p)]}
    /\ UNCHANGED <<db, plan, action, candidate, messages>>

\* ListAutomaticAuthorizationPlans of a pass, one plan at a time.
ListPlan(p) ==
    /\ IsAvailable(p)
    /\ ~IsAuthorized(p)
    /\ \A s \in listed : s.plan # p
    /\ listed' = listed \cup {[plan |-> p, latest |-> LatestAuthorization(db, p)]}
    /\ UNCHANGED <<db, plan, action, candidate, messages>>

AutomaticKey(s) == <<"auto", s.plan, s.latest>>

AutomaticApproveKey(s) == <<"auto:approve", AutomaticKey(s)>>

\* Authorize: RequestLive, and ApproveLive unless it is authorized already.
AuthorizeOk(d, s) ==
    LET actor == AuthorOf[s.plan]
        asked == RequestLive(d, s.plan, actor, AutomaticKey(s))
    IN  /\ LockPlanOk(s.plan, actor)
        /\ RequestLiveOk(d, s.plan, actor, AutomaticKey(s))
        /\ \/ asked.db.rows[asked.id].state = "authorized"
           \/ ApproveLiveOk(asked.db, s.plan, asked.id, asked.db.rows[asked.id].revision,
                            actor, AutomaticApproveKey(s))

Authorize(d, s) ==
    LET actor == AuthorOf[s.plan]
        asked == RequestLive(d, s.plan, actor, AutomaticKey(s))
    IN  IF asked.db.rows[asked.id].state = "authorized"
        THEN asked.db
        ELSE ApproveLive(asked.db, s.plan, asked.id, asked.db.rows[asked.id].revision,
                         actor, AutomaticApproveKey(s))

AuthorizePlan(s) ==
    /\ AuthorizeOk(db, s)
    /\ WithinBound(Authorize(db, s))
    /\ db' = Authorize(db, s)
    /\ listed' = listed \ {s}
    /\ UNCHANGED <<plan, action, candidate, messages>>

\* The transaction fails; the next pass lists the plan again.
AuthorizeFails(s) ==
    /\ ~AuthorizeOk(db, s)
    /\ listed' = listed \ {s}
    /\ UNCHANGED <<db, plan, action, candidate, messages>>

TimePasses(id) ==
    /\ IsOpen(db, id) /\ ~db.rows[id].over
    /\ Cardinality(RowsOf(db, db.rows[id].plan)) < MaxRows
    /\ db' = [db EXCEPT !.rows[id].over = TRUE]
    /\ UNCHANGED <<plan, action, candidate, listed, messages>>

-----------------------------------------------------------------------------
(* Request, Approve and Revoke of the service, which no transport of the    *)
(* repository calls yet: a command carries what its caller read last.       *)

Issue(kind, actor, key) ==
    /\ Cardinality(messages) < MaxMessages
    /\ \/ /\ kind = "request"
          /\ \E p \in Plans : messages' = messages \cup
                {[kind |-> kind, actor |-> actor, key |-> key, plan |-> p, auth |-> 0, revision |-> 0]}
       \/ /\ kind \in {"approve", "revoke"}
          /\ \E id \in DOMAIN db.rows : messages' = messages \cup
                {[kind |-> kind, actor |-> actor, key |-> key, plan |-> db.rows[id].plan,
                  auth |-> id, revision |-> db.rows[id].revision]}
    /\ UNCHANGED <<db, plan, action, candidate, listed>>

Request(m) ==
    /\ m.kind = "request"
    /\ LockPlanOk(m.plan, m.actor)
    /\ RequestLiveOk(db, m.plan, m.actor, m.key)
    /\ db' = RequestLive(db, m.plan, m.actor, m.key).db
    /\ WithinBound(db')
    /\ UNCHANGED <<plan, action, candidate, listed, messages>>

Approve(m) ==
    /\ m.kind = "approve"
    /\ LockPlanOk(m.plan, m.actor)
    /\ ApproveLiveOk(db, m.plan, m.auth, m.revision, m.actor, m.key)
    /\ db' = ApproveLive(db, m.plan, m.auth, m.revision, m.actor, m.key)
    /\ UNCHANGED <<plan, action, candidate, listed, messages>>

Revoke(m) ==
    /\ m.kind = "revoke"
    /\ RevokeLiveOk(db, m.auth, m.revision, m.actor, m.key)
    /\ Cardinality(RowsOf(db, db.rows[m.auth].plan)) < MaxRows
    /\ db' = RevokeLive(db, m.auth, m.revision, m.actor, m.key)
    /\ UNCHANGED <<plan, action, candidate, listed, messages>>

-----------------------------------------------------------------------------
(* The dispatchers. *)

\* ListDispatchableProductActions, and LockProductAction, which reads the
\* revision without locking the authorization.
Observe(a) ==
    /\ action[a].state = "planned"
    /\ plan[PlanOf[a]] \in {"awaiting_authorization", "executing"}
    /\ \E id \in DOMAIN db.rows :
          /\ db.rows[id].plan = PlanOf[a]
          /\ db.rows[id].state = "authorized"
          /\ ~db.rows[id].over
          /\ candidate' = [candidate EXCEPT ![a] = [auth |-> id, revision |-> db.rows[id].revision]]
    /\ UNCHANGED <<db, plan, action, listed, messages>>

\* Mutant: the authorization is taken for what it was when the action was read.
LockValidLiveTrusting(a) == action[a].state = "planned"

LockValidLiveOk(a) ==
    LET row == db.rows[candidate[a].auth] IN
    /\ ~IsOverdue(db, candidate[a].auth)
    /\ row.revision = candidate[a].revision
    /\ row.state = "authorized"
    /\ action[a].state = "planned"
    /\ plan[PlanOf[a]] \in {"awaiting_authorization", "executing"}

BeginAttempt(a) ==
    /\ candidate[a] # None
    /\ LockValidLiveOk(a)
    /\ action' = [action EXCEPT ![a] = [state |-> "dispatching", auth |-> candidate[a].auth]]
    /\ plan' = [plan EXCEPT ![PlanOf[a]] = "executing"]
    /\ candidate' = [candidate EXCEPT ![a] = None]
    /\ UNCHANGED <<db, listed, messages>>

\* ErrLiveExpired ends the transaction without an error: the expiry is kept.
StopExpired(a) ==
    /\ candidate[a] # None
    /\ IsOverdue(db, candidate[a].auth)
    /\ db' = Expire(db, candidate[a].auth)
    /\ candidate' = [candidate EXCEPT ![a] = None]
    /\ UNCHANGED <<plan, action, listed, messages>>

GiveUp(a) ==
    /\ candidate[a] # None
    /\ ~LockValidLiveOk(a) /\ ~IsOverdue(db, candidate[a].auth)
    /\ candidate' = [candidate EXCEPT ![a] = None]
    /\ UNCHANGED <<db, plan, action, listed, messages>>

PlannedActions(p) == {a \in Actions : PlanOf[a] = p /\ action[a].state = "planned"}

\* The recheck is unstable and nothing was attempted: SupersedeWithin and
\* SupersedePlanBeforeDispatch.  An authorization that is no longer open makes
\* the transaction fail, one that just ran out does not.
SupersedePlan(a) ==
    LET p == PlanOf[a] IN
    /\ candidate[a] # None
    /\ action[a].state = "planned"
    /\ AttemptedActions(p) = {}
    /\ IsOpen(db, candidate[a].auth)
    /\ plan[p] = "awaiting_authorization"
    /\ db' = ChangeLiveState(db, candidate[a].auth, "superseded")
    /\ plan' = [plan EXCEPT ![p] = "superseded"]
    /\ action' = [b \in Actions |->
          IF b \in PlannedActions(p) THEN [action[b] EXCEPT !.state = "superseded"] ELSE action[b]]
    /\ candidate' = [candidate EXCEPT ![a] = None]
    /\ UNCHANGED <<listed, messages>>

\* closeAuthorizationIfPlanTerminal after the actions in `ended' are over: the
\* authorization of the action at hand is closed with the plan.
CloseWithPlan(p, ended, id) ==
    LET over == UnfinishedActions(p) \subseteq ended IN
    /\ action' = [b \in Actions |->
          IF b \in ended THEN [action[b] EXCEPT !.state = "terminal"] ELSE action[b]]
    /\ plan' = IF over THEN [plan EXCEPT ![p] = "terminal"] ELSE plan
    /\ db' = IF over THEN ChangeLiveState(db, id, "closed") ELSE db

\* AbortPlanAfterDispatch: the recheck is unstable after an attempt of the plan.
AbortPlan(a) ==
    /\ candidate[a] # None
    /\ action[a].state = "planned"
    /\ AttemptedActions(PlanOf[a]) # {}
    /\ CloseWithPlan(PlanOf[a], PlannedActions(PlanOf[a]), candidate[a].auth)
    /\ candidate' = [candidate EXCEPT ![a] = None]
    /\ UNCHANGED <<listed, messages>>

FinishAttempt(a) ==
    /\ action[a].state = "dispatching"
    /\ CloseWithPlan(PlanOf[a], {a}, action[a].auth)
    /\ UNCHANGED <<candidate, listed, messages>>

Next ==
    \/ \E p \in Plans : ListPlan(p)
    \/ \E s \in listed : AuthorizePlan(s) \/ AuthorizeFails(s)
    \/ \E id \in DOMAIN db.rows : TimePasses(id)
    \/ \E kind \in {"request", "approve", "revoke"}, actor \in Actors, key \in Keys :
          Issue(kind, actor, key)
    \/ \E m \in messages : Request(m) \/ Approve(m) \/ Revoke(m)
    \/ \E a \in Actions :
          \/ Observe(a) \/ BeginAttempt(a) \/ StopExpired(a) \/ GiveUp(a)
          \/ SupersedePlan(a) \/ AbortPlan(a) \/ FinishAttempt(a)

Spec == Init /\ [][Next]_vars

\* A listed plan is dealt with, which in Next is AuthorizePlan or AuthorizeFails.
SettlePlan(p) == \E s \in listed : s.plan = p /\ listed' = listed \ {s}

\* The authorization stage of RunProductPolling runs on every tick, and goes
\* through all plans that it listed.
FairSpec ==
    /\ Spec
    /\ \A p \in Plans : WF_listed(ListPlan(p)) /\ WF_listed(SettlePlan(p))

-----------------------------------------------------------------------------
(* Properties. *)

\* The columns of an authorization, an action and an attempt hold values of
\* their CHECKed domains, and what refers to an authorization finds its row.
TypeOK ==
    /\ db.rows \in Seq([plan : Plans, actor : Actors, state : RowStates,
                        revision : Nat, over : BOOLEAN])
    /\ \A c \in db.commands : c.auth \in DOMAIN db.rows
    /\ plan \in [Plans -> {"awaiting_authorization", "executing", "terminal", "superseded"}]
    /\ \A a \in Actions :
          /\ action[a].state \in {"planned", "dispatching", "terminal", "superseded"}
          /\ action[a].auth \in 0..Len(db.rows)
          /\ candidate[a].auth \in 0..Len(db.rows)

Effects(id) == {c \in db.commands : c.auth = id /\ c.kind # "request"}

\* The journal explains every authorization: each revision was made by exactly
\* one command with a key of its own, and the last of them left the state that
\* the row has.  A command that arrives twice, or an expiry that three callers
\* notice, takes effect once.
EffectsAreJournaledOnce ==
    /\ \A c, e \in db.commands : c.key = e.key => c = e
    /\ \A id \in DOMAIN db.rows :
          /\ {c.revision : c \in Effects(id)} = 1..db.rows[id].revision
          /\ Cardinality(Effects(id)) = db.rows[id].revision
          /\ \A c \in Effects(id) : c.revision = db.rows[id].revision => c.state = db.rows[id].state

\* A superseded authorization authorized nothing, and a closed one has nothing
\* left to authorize, although attempts and closings use revisions that were
\* read before the authorization was locked.
EndedAuthorityIsUnused ==
    \A id \in DOMAIN db.rows :
        /\ db.rows[id].state = "superseded" => \A a \in Actions : action[a].auth # id
        /\ db.rows[id].state = "closed" => UnfinishedActions(db.rows[id].plan) = {}

\* An attempt begins only under an authorization that is in force at that very
\* moment: no revocation, expiry or closing that was committed before it.
AttemptsAreAuthorized ==
    [][\A a \in Actions :
          (action[a].state = "planned" /\ action'[a].state = "dispatching") =>
              LET row == db.rows[action'[a].auth] IN
              /\ row.plan = PlanOf[a]
              /\ row.state = "authorized"
              /\ ~row.over]_vars

Grants == [id \in DOMAIN db.rows |-> [plan |-> db.rows[id].plan, state |-> db.rows[id].state]]

Contract == INSTANCE AuthorizationContract WITH grants <- Grants

\* The authorizations of a plan are episodes that never overlap and that never
\* come back to life once they have ended.
ImplementsContract == Contract!Spec

\* No transport calls Request.  A row that a caller requested and the automatic
\* processor approved leaves `latest' as it was when it ends, so that the next
\* automatic key is the one of that approval.
RequestedByCaller(p) ==
    \E c \in db.commands : c.kind = "request" /\ c.key \in Keys /\ db.rows[c.auth].plan = p

\* As long as only the processor requests authorizations of a plan, the key of a
\* pass was never used before, whatever was approved, revoked or run out since
\* the plan was listed: Authorize never meets its own earlier command.
AutomaticKeyIsFresh ==
    \A s \in listed :
        \/ RequestedByCaller(s.plan)
        \/ ~IsKnown(db, AutomaticKey(s)) /\ ~IsKnown(db, AutomaticApproveKey(s))

\* A plan with actions to dispatch gets authorized again and again, however
\* often its authorization runs out or is revoked.
PlanGetsAuthorized ==
    \A p \in Plans : IsAvailable(p) ~>
        (IsAuthorized(p) \/ ~IsAvailable(p) \/ RequestedByCaller(p))

\* The journal of commands is sound: it explains every authorization, and the
\* automatic processor never meets a key of its own again.
CommandJournalIsSound == TypeOK /\ EffectsAreJournaledOnce /\ AutomaticKeyIsFresh

\* Authority is in force when it is used and used up when it is closed, although
\* dispatchers act on what they read before they lock it.
AuthorityIsInForce == AttemptsAreAuthorized /\ []EndedAuthorityIsUnused

=============================================================================
