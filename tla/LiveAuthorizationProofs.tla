----------------------- MODULE LiveAuthorizationProofs -----------------------
(***************************************************************************)
(* The journal of commands explains every authorization, authority is in   *)
(* force when it is used, and LiveAuthorization implements                 *)
(* AuthorizationContract, for every number of plans, actions, callers and  *)
(* keys.                                                                   *)
(***************************************************************************)
EXTENDS LiveAuthorization, FiniteSetTheorems, SequenceTheorems, TLAPS

Row == [plan : Plans, actor : Actors, state : RowStates, revision : Nat, over : BOOLEAN]

-----------------------------------------------------------------------------
(* What holds of the database after every operation of the repository, also *)
(* in the middle of a transaction.                                          *)

IsDatabase(d) ==
    /\ d = [rows |-> d.rows, commands |-> d.commands]
    /\ d.rows \in Seq(Row)

KeysAreUnique(d) == \A c, e \in d.commands : c.key = e.key => c = e

EffectsOf(d, id) == {c \in d.commands : c.auth = id /\ c.kind # "request"}

EffectsAreSound(d) ==
    \A id \in DOMAIN d.rows :
        /\ IsFiniteSet(EffectsOf(d, id))
        /\ {c.revision : c \in EffectsOf(d, id)} = 1..d.rows[id].revision
        /\ Cardinality(EffectsOf(d, id)) = d.rows[id].revision
        /\ \A c \in EffectsOf(d, id) :
              c.revision = d.rows[id].revision => c.state = d.rows[id].state

ByCaller(d, p) ==
    \E c \in d.commands : c.kind = "request" /\ c.key \in Keys /\ d.rows[c.auth].plan = p

\* A key of the service names the authorization and the revision, or the plan and
\* the last authorization that the pass had seen; a digest names what the
\* command was about.
CommandIsSound(d, c) ==
    /\ c.auth \in DOMAIN d.rows
    /\ \A word \in {"expire", "superseded", "closed"}, id, revision \in Nat :
          c.key = <<word, id, revision>> =>
              c.kind # "request" /\ c.auth = id /\ c.revision = revision + 1
    /\ \A p \in Plans, latest \in Nat :
          c.key \in {<<"auto", p, latest>>, <<"auto:approve", <<"auto", p, latest>>>>} =>
              d.rows[c.auth].plan = p /\ (c.auth > latest \/ ByCaller(d, p))
    /\ c.kind = "approve" => c.digest[2] = c.auth
    /\ c.kind = "request" => c.digest[2] = d.rows[c.auth].plan

CommandsAreSound(d) == \A c \in d.commands : CommandIsSound(d, c)

OneOpenPerPlan(d) ==
    \A id, other \in DOMAIN d.rows :
        IsOpen(d, id) /\ IsOpen(d, other) /\ d.rows[id].plan = d.rows[other].plan => id = other

Sound(d) ==
    /\ IsDatabase(d)
    /\ KeysAreUnique(d)
    /\ EffectsAreSound(d)
    /\ CommandsAreSound(d)
    /\ OneOpenPerPlan(d)

\* Only a caller leaves an authorization requested.
RequestedIsSound(d) ==
    \A id \in DOMAIN d.rows : d.rows[id].state = "requested" => ByCaller(d, d.rows[id].plan)

\* What no transaction takes back.
Grows(d, e) ==
    /\ Len(d.rows) <= Len(e.rows)
    /\ d.commands \subseteq e.commands
    /\ \A id \in DOMAIN d.rows :
          /\ e.rows[id].plan = d.rows[id].plan
          /\ IsOpen(e, id) => IsOpen(d, id)
          /\ d.rows[id].over => e.rows[id].over

\* Nothing was superseded or closed.
KeepsEnded(d, e) ==
    \A id \in DOMAIN e.rows :
        e.rows[id].state \in {"superseded", "closed"} =>
            id \in DOMAIN d.rows /\ d.rows[id].state = e.rows[id].state

-----------------------------------------------------------------------------
(* Keys.                                                                    *)

LEMMA KeysDiffer ==
    ASSUME NEW word \in {"expire", "superseded", "closed"}, NEW id \in Nat, NEW revision \in Nat,
           NEW p \in Plans, NEW latest \in Nat
    PROVE  /\ <<word, id, revision>> # <<"auto", p, latest>>
           /\ <<word, id, revision>> # <<"auto:approve", <<"auto", p, latest>>>>
           /\ \A key \in Keys :
                 /\ key # <<word, id, revision>>
                 /\ key # <<"auto", p, latest>>
                 /\ key # <<"auto:approve", <<"auto", p, latest>>>>
<1>1. <<word, id, revision>> # <<"auto", p, latest>>
  OBVIOUS
<1>2. <<word, id, revision>> # <<"auto:approve", <<"auto", p, latest>>>>
  OBVIOUS
<1>3. <<word, id, revision>> \in SystemKeys
  BY DEF SystemKeys
<1>4. <<"auto", p, latest>> \in AutomaticKeys
  BY DEF AutomaticKeys
<1>5. <<"auto:approve", <<"auto", p, latest>>>> \in ApproveKeys
  BY <1>4 DEF ApproveKeys
<1> QED
  BY <1>1, <1>2, <1>3, <1>4, <1>5, KeyAssumption

LEMMA StoredCommand ==
    ASSUME NEW d, NEW key, IsKnown(d, key)
    PROVE  Stored(d, key) \in d.commands /\ Stored(d, key).key = key
BY DEF IsKnown, Stored

-----------------------------------------------------------------------------
(* The steps that operations are made of.                                   *)

Entry(d, id, command) ==
    [key |-> command.key, kind |-> command.kind, actor |-> command.actor,
     digest |-> command.digest, auth |-> id,
     state |-> d.rows[id].state, revision |-> d.rows[id].revision]

LEMMA JournaledIs ==
    ASSUME NEW d, IsDatabase(d), NEW id \in DOMAIN d.rows, NEW command
    PROVE  /\ Journaled(d, id, command).rows = d.rows
           /\ Journaled(d, id, command).commands = d.commands \cup {Entry(d, id, command)}
           /\ IsDatabase(Journaled(d, id, command))
<1> DEFINE e == [rows |-> d.rows, commands |-> d.commands \cup {Entry(d, id, command)}]
<1>1. d = [rows |-> d.rows, commands |-> d.commands]
  BY DEF IsDatabase
<1>2. [d EXCEPT !.commands = @ \cup {Entry(d, id, command)}] = e
  BY <1>1
<1>3. Journaled(d, id, command) = e
  BY <1>2 DEF Journaled, Entry
<1> QED
  BY <1>3 DEF IsDatabase

Revised(row, state) == [row EXCEPT !.state = state, !.revision = row.revision + 1]

LEMMA RevisedIs ==
    ASSUME NEW r \in Row, NEW state \in RowStates
    PROVE  /\ Revised(r, state) \in Row
           /\ Revised(r, state).plan = r.plan
           /\ Revised(r, state).actor = r.actor
           /\ Revised(r, state).state = state
           /\ Revised(r, state).revision = r.revision + 1
           /\ Revised(r, state).over = r.over
<1> DEFINE half == [r EXCEPT !.state = state]
<1>1. /\ half \in Row /\ half.plan = r.plan /\ half.actor = r.actor
      /\ half.state = state /\ half.revision = r.revision /\ half.over = r.over
  BY DEF Row
<1>2. Revised(r, state) = [half EXCEPT !.revision = r.revision + 1]
  BY DEF Revised
<1> HIDE DEF half
<1> QED
  BY <1>1, <1>2 DEF Row

LEMMA ChangedIs ==
    ASSUME NEW d, IsDatabase(d), NEW id \in DOMAIN d.rows, NEW state \in RowStates, NEW command
    PROVE  /\ IsDatabase(Changed(d, id, state, command))
           /\ Changed(d, id, state, command).rows
                = [d.rows EXCEPT ![id] = Revised(d.rows[id], state)]
           /\ Changed(d, id, state, command).commands = d.commands \cup
                {[key |-> command.key, kind |-> command.kind, actor |-> command.actor,
                  digest |-> command.digest, auth |-> id,
                  state |-> state, revision |-> d.rows[id].revision + 1]}
<1> DEFINE m == [d EXCEPT !.rows[id].state = state, !.rows[id].revision = @ + 1]
           n == [rows |-> [d.rows EXCEPT ![id] = Revised(d.rows[id], state)],
                 commands |-> d.commands]
<1>1. /\ d = [rows |-> d.rows, commands |-> d.commands]
      /\ d.rows \in Seq(Row)
  BY DEF IsDatabase
<1>2. d.rows[id] \in Row
  BY <1>1
<1>3. /\ Revised(d.rows[id], state) \in Row
      /\ Revised(d.rows[id], state).state = state
      /\ Revised(d.rows[id], state).revision = d.rows[id].revision + 1
  BY <1>2, RevisedIs
<1>4. m = n
  <2> DEFINE half == [d.rows[id] EXCEPT !.state = state]
             k == [rows |-> [d.rows EXCEPT ![id] = half], commands |-> d.commands]
  <2>1. [d EXCEPT !.rows[id].state = state] = k
    BY <1>1, SMTT(30)
  <2>2. k.rows[id] = half /\ half.revision = d.rows[id].revision
    BY <1>1, <1>2 DEF Row
  <2>3. [half EXCEPT !.revision = d.rows[id].revision + 1] = Revised(d.rows[id], state)
    BY DEF Revised
  <2>4. [k.rows EXCEPT ![id] = Revised(d.rows[id], state)]
           = [d.rows EXCEPT ![id] = Revised(d.rows[id], state)]
    BY <1>1
  <2>5. m = [k EXCEPT !.rows[id].revision = @ + 1]
    BY <2>1, ZenonT(90)
  <2>6. [k EXCEPT !.rows[id].revision = @ + 1]
          = [rows |-> [k.rows EXCEPT ![id] = [half EXCEPT !.revision = half.revision + 1]],
             commands |-> d.commands]
    BY <2>2
  <2> QED
    BY <2>2, <2>3, <2>4, <2>5, <2>6
<1>5. n.rows \in Seq(Row)
  BY <1>1, <1>3
<1>6. IsDatabase(n)
  BY <1>5 DEF IsDatabase
<1>7. id \in DOMAIN n.rows /\ n.rows[id] = Revised(d.rows[id], state)
  BY <1>1
<1>8. Changed(d, id, state, command) = Journaled(n, id, command)
  BY <1>4 DEF Changed
<1>9. /\ Journaled(n, id, command).rows = n.rows
      /\ Journaled(n, id, command).commands = n.commands \cup {Entry(n, id, command)}
      /\ IsDatabase(Journaled(n, id, command))
  BY <1>6, <1>7, JournaledIs
<1>10. Entry(n, id, command) =
          [key |-> command.key, kind |-> command.kind, actor |-> command.actor,
           digest |-> command.digest, auth |-> id,
           state |-> state, revision |-> d.rows[id].revision + 1]
  BY <1>3, <1>7 DEF Entry
<1> QED
  BY <1>8, <1>9, <1>10

\* An open authorization changes, and the command that changed it has a new key.
LEMMA ChangedIsSound ==
    ASSUME NEW d, Sound(d), NEW id \in DOMAIN d.rows, IsOpen(d, id),
           NEW state \in RowStates, NEW command,
           ~IsKnown(d, command.key), command.kind # "request",
           command.kind = "approve" => command.digest[2] = id,
           \A word \in {"expire", "superseded", "closed"}, i, r \in Nat :
               command.key = <<word, i, r>> => i = id /\ r = d.rows[id].revision,
           \A p \in Plans, latest \in Nat :
               command.key \in {<<"auto", p, latest>>, <<"auto:approve", <<"auto", p, latest>>>>} =>
                   d.rows[id].plan = p /\ (id > latest \/ ByCaller(d, p))
    PROVE  LET e == Changed(d, id, state, command)
           IN  /\ Sound(e)
               /\ Grows(d, e)
               /\ state \notin {"superseded", "closed"} => KeepsEnded(d, e)
<1> DEFINE e == Changed(d, id, state, command)
           entry == [key |-> command.key, kind |-> command.kind, actor |-> command.actor,
                     digest |-> command.digest, auth |-> id,
                     state |-> state, revision |-> d.rows[id].revision + 1]
<1>1. IsDatabase(d) /\ d.rows \in Seq(Row) /\ d.rows[id] \in Row /\ id \in Nat
  BY DEF Sound, IsDatabase
<1>2. /\ IsDatabase(e)
      /\ e.rows = [d.rows EXCEPT ![id] = Revised(d.rows[id], state)]
      /\ e.commands = d.commands \cup {entry}
  BY <1>1, ChangedIs
<1> HIDE DEF e
<1>3. /\ entry.key = command.key /\ entry.kind = command.kind /\ entry.auth = id
      /\ entry.digest = command.digest
      /\ entry.state = state /\ entry.revision = d.rows[id].revision + 1
  OBVIOUS
<1> HIDE DEF entry
<1>4. /\ DOMAIN e.rows = DOMAIN d.rows /\ Len(e.rows) = Len(d.rows)
      /\ e.rows[id].state = state /\ e.rows[id].revision = d.rows[id].revision + 1
      /\ \A j \in DOMAIN d.rows :
            /\ e.rows[j].plan = d.rows[j].plan
            /\ e.rows[j].over = d.rows[j].over
            /\ j # id => e.rows[j] = d.rows[j]
      /\ d.rows[id].revision \in Nat
  <2>1. e.rows[id] = Revised(d.rows[id], state)
    BY <1>1, <1>2
  <2>2. DOMAIN e.rows = DOMAIN d.rows /\ \A j \in DOMAIN d.rows : j # id => e.rows[j] = d.rows[j]
    BY <1>1, <1>2
  <2>3. Len(e.rows) = Len(d.rows)
    BY <1>1, <1>2
  <2>4. d.rows[id].revision \in Nat
    BY <1>1 DEF Row
  <2> QED
    BY <1>1, <2>1, <2>2, <2>3, <2>4, RevisedIs
<1>5. \A c \in d.commands : c.key # entry.key
  BY <1>3 DEF IsKnown
<1>6. KeysAreUnique(e)
  BY <1>2, <1>5 DEF KeysAreUnique, Sound
<1>7. \A c \in d.commands : c.auth \in DOMAIN d.rows
  BY DEF Sound, CommandsAreSound, CommandIsSound
<1>8. \A p : ByCaller(d, p) => ByCaller(e, p)
  BY <1>2, <1>4, <1>7 DEF ByCaller
<1>9. CommandsAreSound(e)
  <2>1. ASSUME NEW c \in d.commands
        PROVE  CommandIsSound(e, c)
    <3>1. CommandIsSound(d, c)
      BY DEF Sound, CommandsAreSound
    <3>2. c.auth \in DOMAIN e.rows /\ e.rows[c.auth].plan = d.rows[c.auth].plan
      BY <1>4, <1>7
    <3> QED
      BY <1>8, <3>1, <3>2 DEF CommandIsSound
  <2>2. CommandIsSound(e, entry)
    BY <1>3, <1>4, <1>8, SMTT(30) DEF CommandIsSound
  <2> QED
    BY <1>2, <2>1, <2>2 DEF CommandsAreSound
<1>10. OneOpenPerPlan(e)
  BY <1>4 DEF OneOpenPerPlan, Sound, IsOpen
<1>11. EffectsAreSound(e)
  <2>1. ASSUME NEW j \in DOMAIN d.rows, j # id
        PROVE  EffectsOf(e, j) = EffectsOf(d, j)
    BY <1>2, <1>3, <2>1 DEF EffectsOf
  <2>2. EffectsOf(e, id) = EffectsOf(d, id) \cup {entry}
    BY <1>2, <1>3 DEF EffectsOf
  <2>3. entry \notin EffectsOf(d, id)
    BY <1>5 DEF EffectsOf
  <2>4. /\ IsFiniteSet(EffectsOf(d, id))
        /\ {c.revision : c \in EffectsOf(d, id)} = 1..d.rows[id].revision
        /\ Cardinality(EffectsOf(d, id)) = d.rows[id].revision
    BY DEF Sound, EffectsAreSound
  <2>5. /\ IsFiniteSet(EffectsOf(e, id))
        /\ Cardinality(EffectsOf(e, id)) = d.rows[id].revision + 1
    BY <2>2, <2>3, <2>4, FS_AddElement
  <2>6. {c.revision : c \in EffectsOf(e, id)} = 1..(d.rows[id].revision + 1)
    <3>1. {c.revision : c \in EffectsOf(e, id)}
             = {c.revision : c \in EffectsOf(d, id)} \cup {d.rows[id].revision + 1}
      BY <1>3, <2>2
    <3>2. \A n \in Nat : (1..n) \cup {n + 1} = 1..(n + 1)
      OBVIOUS
    <3>3. (1..d.rows[id].revision) \cup {d.rows[id].revision + 1} = 1..(d.rows[id].revision + 1)
      BY <1>4, <3>2
    <3> QED
      BY <2>4, <3>1, <3>3, Zenon
  <2>7. ASSUME NEW c \in EffectsOf(e, id), c.revision = d.rows[id].revision + 1
        PROVE  c.state = state
    <3>1. CASE c = entry
      BY <1>3, <3>1
    <3>2. CASE c \in EffectsOf(d, id)
      <4>1. c.revision \in 1..d.rows[id].revision
        BY <2>4, <3>2
      <4> QED
        BY <1>4, <2>7, <4>1
    <3> QED
      BY <2>2, <3>1, <3>2
  <2>8. ASSUME NEW j \in DOMAIN d.rows, j # id
        PROVE  /\ IsFiniteSet(EffectsOf(e, j))
               /\ {c.revision : c \in EffectsOf(e, j)} = 1..e.rows[j].revision
               /\ Cardinality(EffectsOf(e, j)) = e.rows[j].revision
               /\ \A c \in EffectsOf(e, j) : c.revision = e.rows[j].revision => c.state = e.rows[j].state
    BY <1>4, <2>1, <2>8 DEF Sound, EffectsAreSound
  <2> QED
    BY <1>4, <2>5, <2>6, <2>7, <2>8 DEF EffectsAreSound
<1>12. Sound(e)
  BY <1>2, <1>6, <1>9, <1>10, <1>11 DEF Sound
<1>13. Grows(d, e)
  BY <1>2, <1>4, <1>1 DEF Grows, IsOpen
<1>14. ASSUME state \notin {"superseded", "closed"}
       PROVE  KeepsEnded(d, e)
  BY <1>4, <1>14 DEF KeepsEnded
<1> QED
  BY <1>12, <1>13, <1>14 DEF e

\* Grows is transitive, and so is KeepsEnded.
LEMMA GrowsTransitive ==
    ASSUME NEW d, NEW e, NEW f, IsDatabase(d), IsDatabase(e), IsDatabase(f),
           Grows(d, e), Grows(e, f)
    PROVE  Grows(d, f) /\ (KeepsEnded(d, e) /\ KeepsEnded(e, f) => KeepsEnded(d, f))
<1>1. /\ d.rows \in Seq(Row) /\ e.rows \in Seq(Row) /\ f.rows \in Seq(Row)
  BY DEF IsDatabase
<1>2. Len(d.rows) <= Len(e.rows) /\ Len(e.rows) <= Len(f.rows)
  BY DEF Grows
<1>3. DOMAIN d.rows \subseteq DOMAIN e.rows
  BY <1>1, <1>2
<1>4. Grows(d, f)
  BY <1>1, <1>2, <1>3 DEF Grows
<1>5. KeepsEnded(d, e) /\ KeepsEnded(e, f) => KeepsEnded(d, f)
  BY DEF KeepsEnded
<1> QED
  BY <1>4, <1>5

\* The key of the next change that the service makes itself was never used.
LEMMA SystemKeyIsFresh ==
    ASSUME NEW d, Sound(d), NEW id \in DOMAIN d.rows,
           NEW word \in {"expire", "superseded", "closed"}
    PROVE  ~IsKnown(d, <<word, id, d.rows[id].revision>>)
<1>1. id \in Nat /\ d.rows[id] \in Row
  BY DEF Sound, IsDatabase
<1>2. d.rows[id].revision \in Nat
  BY <1>1 DEF Row
<1>3. SUFFICES ASSUME NEW c \in d.commands, c.key = <<word, id, d.rows[id].revision>>
               PROVE  FALSE
  BY DEF IsKnown
<1>4. c.kind # "request" /\ c.auth = id /\ c.revision = d.rows[id].revision + 1
  BY <1>1, <1>2, <1>3 DEF Sound, CommandsAreSound, CommandIsSound
<1>5. c \in EffectsOf(d, id)
  BY <1>4 DEF EffectsOf
<1>6. {e.revision : e \in EffectsOf(d, id)} = 1..d.rows[id].revision
  BY DEF Sound, EffectsAreSound
<1>7. c.revision \in 1..d.rows[id].revision
  BY <1>5, <1>6
<1> QED
  BY <1>2, <1>4, <1>7

LEMMA OpenIsState == ASSUME NEW d, NEW id, IsOpen(d, id)
                     PROVE  d.rows[id].state \notin {"revoked", "expired", "superseded", "closed"}
BY DEF IsOpen, OpenStates

\* Commands that were journaled have one of the keys, or one of the service.
AddsKeys(d, e, keys) ==
    \A c \in e.commands : c \in d.commands \/ c.key \in SystemKeys \cup keys

\* The step from d to e is the next revision of an authorization.
Sets(d, e, id, state) == e.rows = [d.rows EXCEPT ![id] = Revised(d.rows[id], state)]

\* What the service journals of its own accord, whatever it is called.
LEMMA SystemChangeIsSound ==
    ASSUME NEW d, Sound(d), NEW id \in DOMAIN d.rows, IsOpen(d, id),
           NEW word \in {"expire", "superseded", "closed"},
           NEW state \in {"expired", "superseded", "closed"},
           NEW command,
           command.key = <<word, id, d.rows[id].revision>>,
           command.kind \notin {"request", "approve"}
    PROVE  LET e == Changed(d, id, state, command)
           IN  /\ Sound(e)
               /\ Grows(d, e)
               /\ state = "expired" => KeepsEnded(d, e)
               /\ Sets(d, e, id, state)
               /\ \A c \in e.commands : c \in d.commands \/ c.key = command.key
               /\ RequestedIsSound(d) => RequestedIsSound(e)
<1> DEFINE e == Changed(d, id, state, command)
<1>1. id \in Nat /\ d.rows[id] \in Row /\ IsDatabase(d)
  BY DEF Sound, IsDatabase
<1>2. d.rows[id].revision \in Nat
  BY <1>1 DEF Row
<1>3. state \in RowStates
  BY DEF RowStates
<1>4. ~IsKnown(d, command.key)
  BY SystemKeyIsFresh
<1>5. \A w \in {"expire", "superseded", "closed"}, i, r \in Nat :
         command.key = <<w, i, r>> => i = id /\ r = d.rows[id].revision
  OBVIOUS
<1>6. \A p \in Plans, latest \in Nat :
         command.key \notin {<<"auto", p, latest>>, <<"auto:approve", <<"auto", p, latest>>>>}
  BY <1>1, <1>2, KeysDiffer
<1>7. /\ Sound(e)
      /\ Grows(d, e)
      /\ state \notin {"superseded", "closed"} => KeepsEnded(d, e)
  BY <1>3, <1>4, <1>5, <1>6, ChangedIsSound
<1>8. /\ Sets(d, e, id, state)
      /\ \A c \in e.commands : c \in d.commands \/ c.key = command.key
      /\ Revised(d.rows[id], state).state = state
  BY <1>1, <1>3, ChangedIs, RevisedIs DEF Sets
<1> HIDE DEF e
<1>9. ASSUME RequestedIsSound(d)
      PROVE  RequestedIsSound(e)
  <2>1. SUFFICES ASSUME NEW j \in DOMAIN e.rows, e.rows[j].state = "requested"
                 PROVE  ByCaller(e, e.rows[j].plan)
    BY DEF RequestedIsSound
  <2>2. j # id /\ j \in DOMAIN d.rows /\ e.rows[j] = d.rows[j]
    BY <1>1, <1>8, <2>1 DEF Sets, IsDatabase
  <2>3. ByCaller(d, d.rows[j].plan)
    BY <1>9, <2>1, <2>2 DEF RequestedIsSound
  <2>4. \A c \in d.commands : c.auth \in DOMAIN d.rows
    BY DEF Sound, CommandsAreSound, CommandIsSound
  <2> QED
    BY <1>7, <2>2, <2>3, <2>4 DEF ByCaller, Grows
<1> QED
  BY <1>7, <1>8, <1>9 DEF e

LEMMA ExpireIsSound ==
    ASSUME NEW d, Sound(d), NEW id \in DOMAIN d.rows
    PROVE  LET e == Expire(d, id)
           IN  /\ Sound(e) /\ Grows(d, e) /\ KeepsEnded(d, e)
               /\ RequestedIsSound(d) => RequestedIsSound(e)
               /\ ~IsOverdue(d, id) => e = d
               /\ IsOverdue(d, id) => Sets(d, e, id, "expired")
               /\ \A c \in e.commands :
                     c \in d.commands \/ c.key = <<"expire", id, d.rows[id].revision>>
<1>1. CASE ~IsOverdue(d, id)
  <2>1. Expire(d, id) = d
    BY <1>1 DEF Expire
  <2>2. Grows(d, d) /\ KeepsEnded(d, d)
    BY DEF Grows, KeepsEnded, Sound, IsDatabase
  <2> QED
    BY <1>1, <2>1, <2>2
<1>2. CASE IsOverdue(d, id)
  <2> DEFINE command == [key |-> <<"expire", id, d.rows[id].revision>>, kind |-> "expire",
                         actor |-> "system", digest |-> <<"expire", id, d.rows[id].revision>>]
  <2>1. Expire(d, id) = Changed(d, id, "expired", command)
    BY <1>2 DEF Expire
  <2>2. command.key = <<"expire", id, d.rows[id].revision>> /\ command.kind = "expire"
    OBVIOUS
  <2> HIDE DEF command
  <2> DEFINE e == Changed(d, id, "expired", command)
  <2>3. IsOpen(d, id)
    BY <1>2 DEF IsOverdue
  <2>4. /\ Sound(e) /\ Grows(d, e) /\ KeepsEnded(d, e)
        /\ Sets(d, e, id, "expired")
        /\ \A c \in e.commands :
              c \in d.commands \/ c.key = <<"expire", id, d.rows[id].revision>>
        /\ RequestedIsSound(d) => RequestedIsSound(e)
    <3>1. "expire" \in {"expire", "superseded", "closed"}
      OBVIOUS
    <3>2. "expired" \in {"expired", "superseded", "closed"}
      OBVIOUS
    <3>3. command.kind \notin {"request", "approve"}
      BY <2>2
    <3> QED
      BY <2>2, <2>3, <3>1, <3>2, <3>3, SystemChangeIsSound
  <2> HIDE DEF e
  <2>5. Expire(d, id) = e
    BY <2>1 DEF e
  <2> QED
    BY <1>2, <2>4, <2>5
<1> QED
  BY <1>1, <1>2

-----------------------------------------------------------------------------
(* RequestLive.                                                             *)

\* The key of a request that is answered with authorization id of plan p.
IsRequestKey(d, p, id, key) ==
    \/ key \in Keys
    \/ \E latest \in Nat : key = <<"auto", p, latest>> /\ (id > latest \/ ByCaller(d, p))

LEMMA RequestJournaledIsSound ==
    ASSUME NEW d, Sound(d), NEW id \in DOMAIN d.rows, NEW p \in Plans, d.rows[id].plan = p,
           NEW actor, NEW key, ~IsKnown(d, key), IsRequestKey(d, p, id, key)
    PROVE  LET e == Journaled(d, id, RequestCommand(p, actor, key))
           IN  /\ Sound(e) /\ Grows(d, e) /\ KeepsEnded(d, e)
               /\ e.rows = d.rows
               /\ AddsKeys(d, e, {key})
               /\ RequestedIsSound(d) => RequestedIsSound(e)
               /\ key \in Keys => ByCaller(e, p)
<1> DEFINE command == RequestCommand(p, actor, key)
           e == Journaled(d, id, command)
           entry == Entry(d, id, command)
<1>1. IsDatabase(d) /\ d.rows \in Seq(Row) /\ id \in Nat
  BY DEF Sound, IsDatabase
<1>2. /\ IsDatabase(e)
      /\ e.rows = d.rows
      /\ e.commands = d.commands \cup {entry}
  BY <1>1, JournaledIs
<1>3. /\ entry.key = key /\ entry.kind = "request" /\ entry.auth = id
      /\ entry.digest[2] = p
  BY DEF Entry, RequestCommand
<1> HIDE DEF e, entry
<1>4. \A c \in d.commands : c.key # entry.key
  BY <1>3 DEF IsKnown
<1>5. KeysAreUnique(e)
  BY <1>2, <1>4 DEF KeysAreUnique, Sound
<1>6. \A c \in d.commands : c.auth \in DOMAIN d.rows
  BY DEF Sound, CommandsAreSound, CommandIsSound
<1>7. \A q : ByCaller(d, q) => ByCaller(e, q)
  BY <1>2, <1>6 DEF ByCaller
<1>8. CommandsAreSound(e)
  <2>1. ASSUME NEW c \in d.commands
        PROVE  CommandIsSound(e, c)
    <3>1. CommandIsSound(d, c)
      BY DEF Sound, CommandsAreSound
    <3> QED
      BY <1>2, <1>7, <3>1 DEF CommandIsSound
  <2>2. CommandIsSound(e, entry)
    <3>1. ASSUME NEW word \in {"expire", "superseded", "closed"}, NEW i \in Nat, NEW r \in Nat
          PROVE  key # <<word, i, r>>
      BY KeysDiffer, <3>1 DEF IsRequestKey
    <3>2. ASSUME NEW q \in Plans, NEW latest \in Nat,
                 key \in {<<"auto", q, latest>>, <<"auto:approve", <<"auto", q, latest>>>>}
          PROVE  p = q /\ (id > latest \/ ByCaller(d, q))
      <4>1. key \notin Keys
        BY <3>2, KeysDiffer
      <4>2. PICK l \in Nat : key = <<"auto", p, l>> /\ (id > l \/ ByCaller(d, p))
        BY <4>1 DEF IsRequestKey
      <4>3. key = <<"auto", q, latest>>
        BY <3>2, <4>2
      <4> QED
        BY <4>2, <4>3
    <3> QED
      BY <1>2, <1>3, <1>7, <3>1, <3>2 DEF CommandIsSound
  <2> QED
    BY <1>2, <2>1, <2>2 DEF CommandsAreSound
<1>9. OneOpenPerPlan(e)
  BY <1>2 DEF OneOpenPerPlan, Sound, IsOpen
<1>10. EffectsAreSound(e)
  <2>1. \A j : EffectsOf(e, j) = EffectsOf(d, j)
    BY <1>2, <1>3 DEF EffectsOf
  <2> QED
    BY <1>2, <2>1 DEF Sound, EffectsAreSound
<1>11. Sound(e)
  BY <1>2, <1>5, <1>8, <1>9, <1>10 DEF Sound
<1>12. Grows(d, e) /\ KeepsEnded(d, e)
  BY <1>1, <1>2 DEF Grows, KeepsEnded, IsOpen
<1>13. RequestedIsSound(d) => RequestedIsSound(e)
  BY <1>2, <1>7 DEF RequestedIsSound
<1>14. key \in Keys => ByCaller(e, p)
  BY <1>2, <1>3 DEF ByCaller
<1>15. AddsKeys(d, e, {key})
  BY <1>2, <1>3 DEF AddsKeys
<1> QED
  BY <1>2, <1>11, <1>12, <1>13, <1>14, <1>15 DEF e

FreshRow(p, actor) ==
    [plan |-> p, actor |-> actor, state |-> "requested", revision |-> 0, over |-> FALSE]

LEMMA NewRowIsSound ==
    ASSUME NEW d, Sound(d), NEW p \in Plans, NEW actor \in Actors, OpenRows(d, p) = {}
    PROVE  LET e == NewRow(d, p, actor)
           IN  /\ Sound(e) /\ Grows(d, e) /\ KeepsEnded(d, e)
               /\ e.rows = Append(d.rows, FreshRow(p, actor))
               /\ e.commands = d.commands
               /\ DOMAIN e.rows = DOMAIN d.rows \cup {Len(d.rows) + 1}
               /\ e.rows[Len(d.rows) + 1] = FreshRow(p, actor)
               /\ \A id \in DOMAIN d.rows : e.rows[id] = d.rows[id]
<1> DEFINE e == NewRow(d, p, actor)
           new == Len(d.rows) + 1
<1>1. d = [rows |-> d.rows, commands |-> d.commands] /\ d.rows \in Seq(Row)
  BY DEF Sound, IsDatabase
<1>2. FreshRow(p, actor) \in Row
  BY DEF FreshRow, Row, RowStates, OpenStates
<1>3. /\ e = [rows |-> Append(d.rows, FreshRow(p, actor)), commands |-> d.commands]
      /\ e.rows = Append(d.rows, FreshRow(p, actor))
      /\ e.commands = d.commands
  <2> DEFINE rows == Append(d.rows, FreshRow(p, actor))
  <2>1. e = [d EXCEPT !.rows = rows]
    BY DEF NewRow, FreshRow
  <2> HIDE DEF rows
  <2>2. [d EXCEPT !.rows = rows] = [rows |-> rows, commands |-> d.commands]
    BY <1>1
  <2> HIDE DEF e
  <2>3. e = [rows |-> rows, commands |-> d.commands]
    BY <2>1, <2>2
  <2> QED
    BY <2>3 DEF rows
<1> HIDE DEF e
<1>4. /\ e.rows \in Seq(Row)
      /\ Len(e.rows) = new
      /\ DOMAIN e.rows = DOMAIN d.rows \cup {new}
      /\ e.rows[new] = FreshRow(p, actor)
      /\ \A id \in DOMAIN d.rows : e.rows[id] = d.rows[id]
      /\ new \notin DOMAIN d.rows
  BY <1>1, <1>2, <1>3
<1>5. IsDatabase(e)
  BY <1>3, <1>4 DEF IsDatabase
<1>6. \A c \in d.commands : c.auth \in DOMAIN d.rows
  BY DEF Sound, CommandsAreSound, CommandIsSound
<1>7. \A q : ByCaller(d, q) => ByCaller(e, q)
  BY <1>3, <1>4, <1>6 DEF ByCaller
<1>8. CommandsAreSound(e)
  <2>1. SUFFICES ASSUME NEW c \in d.commands
                 PROVE  CommandIsSound(e, c)
    BY <1>3 DEF CommandsAreSound
  <2>2. CommandIsSound(d, c)
    BY DEF Sound, CommandsAreSound
  <2>3. c.auth \in DOMAIN e.rows /\ e.rows[c.auth] = d.rows[c.auth]
    BY <1>4, <1>6
  <2> QED
    BY <1>7, <2>2, <2>3 DEF CommandIsSound
<1>9. OneOpenPerPlan(e)
  <2>1. SUFFICES ASSUME NEW id \in DOMAIN e.rows, NEW other \in DOMAIN e.rows,
                        IsOpen(e, id), IsOpen(e, other), e.rows[id].plan = e.rows[other].plan
                 PROVE  id = other
    BY DEF OneOpenPerPlan
  <2>2. \A j \in DOMAIN d.rows : IsOpen(e, j) => e.rows[j].plan # p
    BY <1>4 DEF OpenRows, IsOpen
  <2>3. e.rows[new].plan = p
    BY <1>4 DEF FreshRow
  <2>4. id \in DOMAIN d.rows /\ other \in DOMAIN d.rows => id = other
    BY <1>4, <2>1 DEF Sound, OneOpenPerPlan, IsOpen
  <2> QED
    BY <1>4, <2>1, <2>2, <2>3, <2>4
<1>10. EffectsAreSound(e)
  <2>1. \A j \in DOMAIN d.rows : EffectsOf(e, j) = EffectsOf(d, j)
    BY <1>3 DEF EffectsOf
  <2>2. EffectsOf(e, new) = {}
    BY <1>3, <1>4, <1>6 DEF EffectsOf
  <2>3. e.rows[new].revision = 0
    BY <1>4 DEF FreshRow
  <2>4. /\ IsFiniteSet(EffectsOf(e, new))
        /\ Cardinality(EffectsOf(e, new)) = 0
    BY <2>2, FS_EmptySet
  <2>5. {c.revision : c \in EffectsOf(e, new)} = 1..0
    BY <2>2
  <2>6. ASSUME NEW j \in DOMAIN d.rows
        PROVE  /\ IsFiniteSet(EffectsOf(e, j))
               /\ {c.revision : c \in EffectsOf(e, j)} = 1..e.rows[j].revision
               /\ Cardinality(EffectsOf(e, j)) = e.rows[j].revision
               /\ \A c \in EffectsOf(e, j) : c.revision = e.rows[j].revision => c.state = e.rows[j].state
    BY <1>4, <2>1 DEF Sound, EffectsAreSound
  <2> QED
    BY <1>4, <2>2, <2>3, <2>4, <2>5, <2>6 DEF EffectsAreSound
<1>11. Sound(e)
  BY <1>3, <1>5, <1>8, <1>9, <1>10 DEF Sound, KeysAreUnique
<1>12. Grows(d, e)
  BY <1>1, <1>3, <1>4 DEF Grows, IsOpen
<1>13. KeepsEnded(d, e)
  BY <1>4 DEF KeepsEnded, FreshRow
<1> QED
  BY <1>3, <1>4, <1>11, <1>12, <1>13 DEF e

\* An authorization of plan p that is open and not over.
IsLasting(d, p, id) == d.rows[id].plan = p /\ IsOpen(d, id) /\ ~d.rows[id].over

\* The key that a request of plan p comes with: of a caller, or of a pass that saw
\* no authorization that still lasts.
IsKeyFor(d, p, key) ==
    \/ key \in Keys
    \/ \E latest \in 0..Len(d.rows) :
          /\ key = <<"auto", p, latest>>
          /\ ByCaller(d, p) \/ \A id \in DOMAIN d.rows : IsLasting(d, p, id) => id > latest

LEMMA RequestLiveAgain ==
    ASSUME NEW d, Sound(d), NEW p \in Plans, NEW actor \in Actors, NEW key,
           IsKnown(d, key), RequestLiveOk(d, p, actor, key)
    PROVE  LET asked == RequestLive(d, p, actor, key)
           IN  /\ asked.id \in DOMAIN d.rows
               /\ asked.db = Expire(d, asked.id)
               /\ d.rows[asked.id].plan = p
               /\ key \in Keys => ByCaller(d, p)
<1> DEFINE stored == Stored(d, key)
<1>1. stored \in d.commands /\ stored.key = key
  BY StoredCommand
<1>2. stored.kind = "request" /\ stored.digest = <<"request", p>>
  BY DEF RequestLiveOk, ReplayOk, RequestCommand
<1>3. /\ RequestLive(d, p, actor, key).id = stored.auth
      /\ RequestLive(d, p, actor, key).db = Expire(d, stored.auth)
  BY DEF RequestLive
<1>4. stored.auth \in DOMAIN d.rows /\ d.rows[stored.auth].plan = p
  BY <1>1, <1>2 DEF Sound, CommandsAreSound, CommandIsSound
<1> QED
  BY <1>1, <1>2, <1>3, <1>4 DEF ByCaller

LEMMA RequestLiveLasting ==
    ASSUME NEW d, Sound(d), NEW p \in Plans, NEW actor \in Actors, NEW key,
           ~IsKnown(d, key), IsKeyFor(d, p, key),
           {id \in OpenRows(d, p) : ~d.rows[id].over} # {}
    PROVE  LET asked == RequestLive(d, p, actor, key)
           IN  /\ asked.id \in DOMAIN d.rows
               /\ IsLasting(d, p, asked.id)
               /\ asked.db.rows = d.rows
               /\ Sound(asked.db) /\ Grows(d, asked.db) /\ KeepsEnded(d, asked.db)
               /\ AddsKeys(d, asked.db, {key})
               /\ RequestedIsSound(d) => RequestedIsSound(asked.db)
<1> DEFINE lasting == {id \in OpenRows(d, p) : ~d.rows[id].over}
           id == CHOOSE id \in lasting : TRUE
           e == Journaled(d, id, RequestCommand(p, actor, key))
<1>1. id \in lasting
  OBVIOUS
<1>2. id \in DOMAIN d.rows /\ IsLasting(d, p, id) /\ d.rows[id].plan = p
  BY <1>1 DEF OpenRows, IsLasting
<1>3. RequestLive(d, p, actor, key) = [db |-> e, id |-> id]
  BY DEF RequestLive
<1> HIDE DEF id
<1>4. IsRequestKey(d, p, id, key)
  <2>1. id \in Nat /\ d.rows \in Seq(Row)
    BY <1>2 DEF Sound, IsDatabase
  <2> QED
    BY <1>2, <2>1 DEF IsKeyFor, IsRequestKey
<1>5. /\ Sound(e) /\ Grows(d, e) /\ KeepsEnded(d, e)
      /\ e.rows = d.rows
      /\ AddsKeys(d, e, {key})
      /\ RequestedIsSound(d) => RequestedIsSound(e)
  <2>1. Sound(e)
    BY <1>2, <1>4, RequestJournaledIsSound
  <2>2. e.rows = d.rows
    BY <1>2, JournaledIs DEF Sound
  <2>3. Grows(d, e) /\ KeepsEnded(d, e)
    BY <1>2, <1>4, RequestJournaledIsSound
  <2>4. RequestedIsSound(d) => RequestedIsSound(e)
    BY <1>2, <1>4, RequestJournaledIsSound
  <2>5. AddsKeys(d, e, {key})
    BY <1>2, <1>4, RequestJournaledIsSound
  <2> QED
    BY <2>1, <2>2, <2>3, <2>4, <2>5
<1> HIDE DEF e
<1> QED
  BY <1>2, <1>3, <1>5

\* The open authorization of plan p has expired, and a new one was made.
Opens(d, e, p, actor) ==
    /\ DOMAIN e.rows = DOMAIN d.rows \cup {Len(d.rows) + 1}
    /\ Len(e.rows) = Len(d.rows) + 1
    /\ e.rows[Len(d.rows) + 1] = FreshRow(p, actor)
    /\ \A id \in DOMAIN d.rows :
          /\ e.rows[id].plan = d.rows[id].plan
          /\ e.rows[id].state =
                IF id \in OpenRows(d, p) THEN "expired" ELSE d.rows[id].state

LEMMA RequestLiveNew ==
    ASSUME NEW d, Sound(d), NEW p \in Plans, NEW actor \in Actors, NEW key,
           ~IsKnown(d, key), IsKeyFor(d, p, key),
           {id \in OpenRows(d, p) : ~d.rows[id].over} = {}
    PROVE  LET asked == RequestLive(d, p, actor, key)
           IN  /\ asked.id = Len(d.rows) + 1
               /\ Opens(d, asked.db, p, actor)
               /\ Sound(asked.db) /\ Grows(d, asked.db) /\ KeepsEnded(d, asked.db)
               /\ AddsKeys(d, asked.db, {key})
               /\ RequestedIsSound(d) =>
                     /\ \A id \in DOMAIN d.rows : asked.db.rows[id].state = "requested" =>
                           ByCaller(asked.db, asked.db.rows[id].plan)
                     /\ key \in Keys => RequestedIsSound(asked.db)
<1> DEFINE open == OpenRows(d, p)
           x == CHOOSE id \in open : TRUE
           d1 == IF open = {} THEN d ELSE Expire(d, x)
           d2 == NewRow(d1, p, actor)
           new == Len(d1.rows) + 1
           e == Journaled(d2, new, RequestCommand(p, actor, key))
<1>1. RequestLive(d, p, actor, key) = [db |-> e, id |-> new]
  BY DEF RequestLive
<1>2. IsDatabase(d) /\ d.rows \in Seq(Row) /\ \A id \in DOMAIN d.rows : id \in Nat
  BY DEF Sound, IsDatabase
<1>3. /\ Sound(d1) /\ Grows(d, d1) /\ KeepsEnded(d, d1)
      /\ RequestedIsSound(d) => RequestedIsSound(d1)
      /\ DOMAIN d1.rows = DOMAIN d.rows /\ Len(d1.rows) = Len(d.rows)
      /\ \A id \in DOMAIN d.rows :
            /\ d1.rows[id].plan = d.rows[id].plan
            /\ d1.rows[id].state = IF id \in open THEN "expired" ELSE d.rows[id].state
      /\ ~IsKnown(d1, key)
      /\ AddsKeys(d, d1, {})
  <2>1. CASE open = {}
    <3>1. d1 = d
      BY <2>1
    <3>2. Grows(d, d) /\ KeepsEnded(d, d) /\ AddsKeys(d, d, {})
      BY <1>2 DEF Grows, KeepsEnded, AddsKeys
    <3> QED
      BY <2>1, <3>1, <3>2
  <2>2. CASE open # {}
    <3>1. x \in open /\ x \in DOMAIN d.rows /\ d.rows[x].plan = p /\ IsOpen(d, x)
      BY <2>2 DEF OpenRows
    <3>2. d1 = Expire(d, x)
      BY <2>2
    <3>3. IsOverdue(d, x)
      BY <3>1 DEF IsOverdue
    <3> HIDE DEF x, d1
    <3>4. /\ Sound(d1) /\ Grows(d, d1) /\ KeepsEnded(d, d1)
          /\ RequestedIsSound(d) => RequestedIsSound(d1)
          /\ Sets(d, d1, x, "expired")
          /\ \A c \in d1.commands :
                c \in d.commands \/ c.key = <<"expire", x, d.rows[x].revision>>
      BY <3>1, <3>2, <3>3, ExpireIsSound
    <3>5. \A id \in open : id = x
      BY <3>1 DEF OpenRows, Sound, OneOpenPerPlan
    <3>6. /\ Revised(d.rows[x], "expired").plan = d.rows[x].plan
          /\ Revised(d.rows[x], "expired").state = "expired"
      <4>1. d.rows[x] \in Row /\ "expired" \in RowStates
        BY <1>2, <3>1 DEF RowStates
      <4> QED
        BY <4>1, RevisedIs
    <3>7. /\ DOMAIN d1.rows = DOMAIN d.rows /\ Len(d1.rows) = Len(d.rows)
          /\ d1.rows[x] = Revised(d.rows[x], "expired")
          /\ \A id \in DOMAIN d.rows : id # x => d1.rows[id] = d.rows[id]
      BY <1>2, <3>1, <3>4 DEF Sets
    <3>8. ~IsKnown(d1, key) /\ AddsKeys(d, d1, {})
      <4>1. x \in Nat /\ d.rows[x] \in Row
        BY <1>2, <3>1
      <4>2. d.rows[x].revision \in Nat
        BY <4>1 DEF Row
      <4>3. key # <<"expire", x, d.rows[x].revision>>
        BY <4>1, <4>2, KeysDiffer DEF IsKeyFor
      <4>4. <<"expire", x, d.rows[x].revision>> \in SystemKeys
        BY <4>1, <4>2 DEF SystemKeys
      <4> QED
        BY <3>4, <4>3, <4>4 DEF IsKnown, AddsKeys
    <3> HIDE DEF open
    <3> QED
      BY <3>1, <3>4, <3>5, <3>6, <3>7, <3>8
  <2> QED
    BY <2>1, <2>2
<1>4. OpenRows(d1, p) = {}
  BY <1>3, ZenonT(30) DEF OpenRows, IsOpen, OpenStates
<1> HIDE DEF d1
<1>5. /\ Sound(d2) /\ Grows(d1, d2) /\ KeepsEnded(d1, d2)
      /\ d2.commands = d1.commands
      /\ DOMAIN d2.rows = DOMAIN d1.rows \cup {new}
      /\ d2.rows = Append(d1.rows, FreshRow(p, actor))
      /\ d2.rows[new] = FreshRow(p, actor)
      /\ \A id \in DOMAIN d1.rows : d2.rows[id] = d1.rows[id]
  BY <1>3, <1>4, NewRowIsSound
<1> HIDE DEF d2
<1>6. new = Len(d.rows) + 1 /\ new \in DOMAIN d2.rows /\ d2.rows[new].plan = p
  BY <1>3, <1>5 DEF FreshRow
<1>7. \A id \in DOMAIN d.rows : d2.rows[id] = d1.rows[id]
  BY <1>3, <1>5
<1>8. \A c \in d1.commands : c.auth \in DOMAIN d1.rows
  BY <1>3 DEF Sound, CommandsAreSound, CommandIsSound
<1> HIDE DEF new
<1>9. IsDatabase(d1) /\ IsDatabase(d2)
  BY <1>3, <1>5 DEF Sound
<1>10. Grows(d, d2) /\ KeepsEnded(d, d2)
  BY <1>2, <1>3, <1>5, <1>9, GrowsTransitive
<1>11. \A q : ByCaller(d1, q) => ByCaller(d2, q)
  BY <1>5, <1>8 DEF ByCaller
<1>12. \A q : ByCaller(d, q) => ByCaller(d2, q)
  <2>1. \A c \in d.commands : c.auth \in DOMAIN d.rows
    BY DEF Sound, CommandsAreSound, CommandIsSound
  <2> QED
    BY <2>1, <1>10 DEF ByCaller, Grows
<1>13. ~IsKnown(d2, key)
  BY <1>3, <1>5 DEF IsKnown
<1>14. IsRequestKey(d2, p, new, key)
  <2>1. Len(d.rows) \in Nat
    BY <1>2
  <2> QED
    BY <1>6, <1>12, <2>1 DEF IsKeyFor, IsRequestKey
<1>15. /\ Sound(e) /\ Grows(d2, e) /\ KeepsEnded(d2, e)
       /\ e.rows = d2.rows
       /\ key \in Keys => ByCaller(e, p)
       /\ AddsKeys(d2, e, {key})
  <2>1. Sound(e)
    BY <1>5, <1>6, <1>13, <1>14, RequestJournaledIsSound
  <2>2. Grows(d2, e) /\ KeepsEnded(d2, e)
    BY <1>5, <1>6, <1>13, <1>14, RequestJournaledIsSound
  <2>3. e.rows = d2.rows
    BY <1>6, <1>9, JournaledIs
  <2>4. key \in Keys => ByCaller(e, p)
    BY <1>5, <1>6, <1>13, <1>14, RequestJournaledIsSound
  <2>5. AddsKeys(d2, e, {key})
    BY <1>5, <1>6, <1>13, <1>14, RequestJournaledIsSound
  <2> QED
    BY <2>1, <2>2, <2>3, <2>4, <2>5
<1> HIDE DEF e
<1>16. Grows(d, e) /\ KeepsEnded(d, e)
  BY <1>2, <1>9, <1>10, <1>15, GrowsTransitive DEF Sound
<1>17. AddsKeys(d, e, {key})
  BY <1>3, <1>5, <1>15 DEF AddsKeys
<1>18. Opens(d, e, p, actor)
  BY <1>2, <1>3, <1>5, <1>6, <1>7, <1>15 DEF Opens, Sound, IsDatabase
<1>19. ASSUME RequestedIsSound(d)
       PROVE  /\ \A id \in DOMAIN d.rows : e.rows[id].state = "requested" =>
                     ByCaller(e, e.rows[id].plan)
              /\ key \in Keys => RequestedIsSound(e)
  <2>1. \A q : ByCaller(d2, q) => ByCaller(e, q)
    <3>1. \A c \in d2.commands : c.auth \in DOMAIN d2.rows
      BY <1>5 DEF Sound, CommandsAreSound, CommandIsSound
    <3> QED
      BY <1>15, <3>1 DEF ByCaller, Grows
  <2>2. ASSUME NEW id \in DOMAIN d.rows, e.rows[id].state = "requested"
        PROVE  ByCaller(e, e.rows[id].plan)
    <3>1. d1.rows[id].state = "requested" /\ e.rows[id].plan = d1.rows[id].plan
      BY <1>7, <1>15, <2>2
    <3> QED
      BY <1>3, <1>11, <1>19, <2>1, <3>1 DEF RequestedIsSound
  <2>3. DOMAIN e.rows = DOMAIN d.rows \cup {new} /\ e.rows[new].plan = p
    BY <1>3, <1>5, <1>6, <1>15
  <2> QED
    BY <1>15, <2>2, <2>3 DEF RequestedIsSound
<1> QED
  BY <1>1, <1>6, <1>15, <1>16, <1>17, <1>18, <1>19

-----------------------------------------------------------------------------
(* ApproveLive, RevokeLive and ChangeLiveState.                             *)

\* The key of a command about authorization id: of a caller, or of a pass that had
\* the authorization requested.
IsCommandKey(d, id, key) ==
    \/ key \in Keys
    \/ \E p \in Plans, latest \in Nat :
          /\ key = <<"auto:approve", <<"auto", p, latest>>>>
          /\ d.rows[id].plan = p
          /\ id > latest \/ ByCaller(d, p)

\* A command of a caller or of a pass changes an open authorization.
LEMMA CommandChangeIsSound ==
    ASSUME NEW d, Sound(d), NEW id \in DOMAIN d.rows, IsOpen(d, id),
           NEW state \in {"authorized", "revoked"}, NEW command,
           ~IsKnown(d, command.key), IsCommandKey(d, id, command.key),
           command.kind # "request",
           command.kind = "approve" => command.digest[2] = id
    PROVE  LET e == Changed(d, id, state, command)
           IN  /\ Sound(e) /\ Grows(d, e) /\ KeepsEnded(d, e)
               /\ Sets(d, e, id, state)
               /\ AddsKeys(d, e, {command.key})
               /\ (\A j \in DOMAIN d.rows : d.rows[j].state = "requested" =>
                       j = id \/ ByCaller(d, d.rows[j].plan))
                    => RequestedIsSound(e)
<1> DEFINE e == Changed(d, id, state, command)
<1>1. IsDatabase(d) /\ d.rows \in Seq(Row)
  BY DEF Sound, IsDatabase
<1>2. state \in RowStates
  BY DEF RowStates, OpenStates
<1>3. \A word \in {"expire", "superseded", "closed"}, i, r \in Nat : command.key # <<word, i, r>>
  <2>1. SUFFICES ASSUME NEW word \in {"expire", "superseded", "closed"},
                        NEW i \in Nat, NEW r \in Nat, command.key = <<word, i, r>>
                 PROVE  FALSE
    OBVIOUS
  <2>2. d.rows[id] \in Row
    BY <1>1
  <2>3. d.rows[id].plan \in Plans
    BY <2>2 DEF Row
  <2>4. command.key \notin Keys
    BY <2>1, <2>3, KeysDiffer
  <2> QED
    BY <2>1, <2>4, KeysDiffer DEF IsCommandKey
<1>4. ASSUME NEW q \in Plans, NEW latest \in Nat,
             command.key \in {<<"auto", q, latest>>, <<"auto:approve", <<"auto", q, latest>>>>}
      PROVE  d.rows[id].plan = q /\ (id > latest \/ ByCaller(d, q))
  <2>1. command.key \notin Keys
    BY <1>4, KeysDiffer
  <2>2. PICK p \in Plans, l \in Nat :
          /\ command.key = <<"auto:approve", <<"auto", p, l>>>>
          /\ d.rows[id].plan = p
          /\ id > l \/ ByCaller(d, p)
    BY <2>1 DEF IsCommandKey
  <2>3. p = q /\ l = latest
    BY <1>4, <2>2
  <2> QED
    BY <2>2, <2>3
<1>5. /\ Sound(e)
      /\ Grows(d, e)
      /\ state \notin {"superseded", "closed"} => KeepsEnded(d, e)
  BY <1>2, <1>3, <1>4, ChangedIsSound
<1>6. Sets(d, e, id, state) /\ Revised(d.rows[id], state).state = state
  BY <1>1, <1>2, ChangedIs, RevisedIs DEF Sets
<1>7. AddsKeys(d, e, {command.key})
  <2> DEFINE entry == [key |-> command.key, kind |-> command.kind, actor |-> command.actor,
                       digest |-> command.digest, auth |-> id,
                       state |-> state, revision |-> d.rows[id].revision + 1]
  <2>1. /\ IsDatabase(e)
        /\ e.rows = [d.rows EXCEPT ![id] = Revised(d.rows[id], state)]
        /\ e.commands = d.commands \cup {entry}
    BY <1>1, <1>2, ChangedIs
  <2>2. entry.key = command.key
    OBVIOUS
  <2> HIDE DEF e, entry
  <2> QED
    BY <2>1, <2>2 DEF AddsKeys
<1> HIDE DEF e
<1>8. ASSUME \A j \in DOMAIN d.rows : d.rows[j].state = "requested" =>
                j = id \/ ByCaller(d, d.rows[j].plan)
      PROVE  RequestedIsSound(e)
  <2>1. SUFFICES ASSUME NEW j \in DOMAIN e.rows, e.rows[j].state = "requested"
                 PROVE  ByCaller(e, e.rows[j].plan)
    BY DEF RequestedIsSound
  <2>2. j # id /\ j \in DOMAIN d.rows /\ e.rows[j] = d.rows[j]
    BY <1>1, <1>6, <2>1 DEF Sets
  <2>3. ByCaller(d, d.rows[j].plan)
    BY <1>8, <2>1, <2>2
  <2>4. \A c \in d.commands : c.auth \in DOMAIN d.rows
    BY DEF Sound, CommandsAreSound, CommandIsSound
  <2> QED
    BY <1>5, <2>2, <2>3, <2>4 DEF ByCaller, Grows
<1>9. KeepsEnded(d, e)
  BY <1>5
<1> QED
  BY <1>5, <1>6, <1>7, <1>8, <1>9 DEF e

\* What ApproveLive, RevokeLive and ChangeLiveState do to one authorization: it is
\* left alone, expires, or changes while it is open.
Touches(d, e, id, state, keys) ==
    /\ Sound(e) /\ Grows(d, e) /\ AddsKeys(d, e, keys)
    /\ RequestedIsSound(d) => RequestedIsSound(e)
    /\ \/ e = d
       \/ IsOpen(d, id) /\ Sets(d, e, id, "expired")
       \/ IsOpen(d, id) /\ Sets(d, e, id, state)

LEMMA ExpireTouches ==
    ASSUME NEW d, Sound(d), NEW id \in DOMAIN d.rows, NEW state, NEW keys
    PROVE  Touches(d, Expire(d, id), id, state, keys) /\ KeepsEnded(d, Expire(d, id))
<1>1. IsOverdue(d, id) => IsOpen(d, id)
  BY DEF IsOverdue
<1>2. id \in Nat /\ d.rows[id] \in Row
  BY DEF Sound, IsDatabase
<1>3. d.rows[id].revision \in Nat
  BY <1>2 DEF Row
<1>4. <<"expire", id, d.rows[id].revision>> \in SystemKeys
  BY <1>2, <1>3 DEF SystemKeys
<1>5. AddsKeys(d, Expire(d, id), keys)
  BY <1>4, ExpireIsSound DEF AddsKeys
<1> QED
  BY <1>1, <1>5, ExpireIsSound DEF Touches

LEMMA ApproveLiveIsSound ==
    ASSUME NEW d, Sound(d), NEW id \in DOMAIN d.rows, NEW p, NEW revision, NEW actor, NEW key,
           ApproveLiveOk(d, p, id, revision, actor, key), IsCommandKey(d, id, key)
    PROVE  LET e == ApproveLive(d, p, id, revision, actor, key)
           IN  /\ KeepsEnded(d, e) /\ AddsKeys(d, e, {key})
               /\ \/ e = Expire(d, id) /\ (IsOverdue(d, id) \/ (IsKnown(d, key) /\ d.rows[id].revision # 0))
                  \/ /\ ~IsKnown(d, key) /\ d.rows[id].state = "requested"
                     /\ Sound(e) /\ Grows(d, e) /\ Sets(d, e, id, "authorized")
                     /\ (\A j \in DOMAIN d.rows : d.rows[j].state = "requested" =>
                            j = id \/ ByCaller(d, d.rows[j].plan))
                         => RequestedIsSound(e)
<1> DEFINE e == ApproveLive(d, p, id, revision, actor, key)
           command == ApproveCommand(id, revision, actor, key)
<1>1. CASE IsKnown(d, key)
  <2> DEFINE stored == Stored(d, key)
  <2>1. stored \in d.commands
    BY <1>1, StoredCommand
  <2>2. stored.kind = "approve" /\ stored.digest = <<"approve", id, revision>>
    BY <1>1 DEF ApproveLiveOk, ReplayOk, ApproveCommand
  <2>3. stored.auth = id
    BY <2>1, <2>2 DEF Sound, CommandsAreSound, CommandIsSound
  <2>4. stored \in EffectsOf(d, id)
    BY <2>1, <2>2, <2>3 DEF EffectsOf
  <2>5. d.rows[id].revision # 0
    <3>1. stored.revision \in 1..d.rows[id].revision
      BY <2>4 DEF Sound, EffectsAreSound
    <3> QED
      BY <3>1
  <2>6. e = Expire(d, id)
    BY <1>1, <2>3 DEF ApproveLive
  <2>7. KeepsEnded(d, Expire(d, id)) /\ AddsKeys(d, Expire(d, id), {key})
    BY ExpireTouches DEF Touches
  <2> HIDE DEF e
  <2> QED
    BY <1>1, <2>5, <2>6, <2>7 DEF e
<1>2. CASE ~IsKnown(d, key) /\ IsOverdue(d, id)
  <2>1. e = Expire(d, id)
    BY <1>2 DEF ApproveLive
  <2>2. KeepsEnded(d, Expire(d, id)) /\ AddsKeys(d, Expire(d, id), {key})
    BY ExpireTouches DEF Touches
  <2> HIDE DEF e
  <2> QED
    BY <1>2, <2>1, <2>2 DEF e
<1>3. CASE ~IsKnown(d, key) /\ ~IsOverdue(d, id)
  <2>1. d.rows[id].state = "requested" /\ IsOpen(d, id)
    BY <1>3 DEF ApproveLiveOk, IsOpen, OpenStates
  <2>2. e = Changed(d, id, "authorized", command)
    BY <1>3 DEF ApproveLive
  <2>3. command.key = key /\ command.kind = "approve" /\ command.digest[2] = id
    BY DEF ApproveCommand
  <2> HIDE DEF command
  <2>4. "authorized" \in {"authorized", "revoked"} /\ command.kind # "request"
    BY <2>3
  <2> DEFINE f == Changed(d, id, "authorized", command)
  <2>5. Sound(f) /\ Grows(d, f) /\ KeepsEnded(d, f)
    BY <1>3, <2>1, <2>3, <2>4, CommandChangeIsSound
  <2>6. Sets(d, f, id, "authorized") /\ AddsKeys(d, f, {key})
    BY <1>3, <2>1, <2>3, <2>4, CommandChangeIsSound
  <2>7. (\A j \in DOMAIN d.rows : d.rows[j].state = "requested" =>
            j = id \/ ByCaller(d, d.rows[j].plan))
         => RequestedIsSound(f)
    BY <1>3, <2>1, <2>3, <2>4, CommandChangeIsSound
  <2> HIDE DEF e, f
  <2>8. e = f
    BY <2>2 DEF f
  <2> QED
    BY <1>3, <2>1, <2>5, <2>6, <2>7, <2>8 DEF e
<1> QED
  BY <1>1, <1>2, <1>3

LEMMA RevokeLiveTouches ==
    ASSUME NEW d, Sound(d), NEW id \in DOMAIN d.rows, NEW revision, NEW actor, NEW key \in Keys,
           RevokeLiveOk(d, id, revision, actor, key)
    PROVE  LET e == RevokeLive(d, id, revision, actor, key)
           IN  /\ KeepsEnded(d, e)
               /\ \E j \in DOMAIN d.rows : Touches(d, e, j, "revoked", {key})
<1> DEFINE e == RevokeLive(d, id, revision, actor, key)
           command == RevokeCommand(id, revision, actor, key)
<1>1. CASE IsKnown(d, key) \/ IsOverdue(d, id)
  <2> DEFINE j == IF IsKnown(d, key) THEN Stored(d, key).auth ELSE id
  <2>1. j \in DOMAIN d.rows
    BY StoredCommand DEF Sound, CommandsAreSound, CommandIsSound
  <2>2. e = Expire(d, j)
    BY <1>1 DEF RevokeLive
  <2> HIDE DEF j, e
  <2>3. Touches(d, e, j, "revoked", {key}) /\ KeepsEnded(d, e)
    BY <2>1, <2>2, ExpireTouches
  <2> QED
    BY <2>1, <2>3 DEF e
<1>2. CASE ~IsKnown(d, key) /\ ~IsOverdue(d, id)
  <2>1. IsOpen(d, id)
    BY <1>2 DEF RevokeLiveOk
  <2>2. e = Changed(d, id, "revoked", command)
    BY <1>2 DEF RevokeLive
  <2>3. command.key = key /\ command.kind = "revoke"
    BY DEF RevokeCommand
  <2> HIDE DEF command
  <2>4. /\ "revoked" \in {"authorized", "revoked"}
        /\ command.kind # "request" /\ command.kind # "approve"
        /\ IsCommandKey(d, id, command.key)
    BY <2>3 DEF IsCommandKey
  <2> DEFINE f == Changed(d, id, "revoked", command)
  <2>5. Sound(f) /\ Grows(d, f) /\ KeepsEnded(d, f)
    BY <1>2, <2>1, <2>3, <2>4, CommandChangeIsSound
  <2>6. Sets(d, f, id, "revoked") /\ AddsKeys(d, f, {key})
    BY <1>2, <2>1, <2>3, <2>4, CommandChangeIsSound
  <2>7. (\A j \in DOMAIN d.rows : d.rows[j].state = "requested" =>
            j = id \/ ByCaller(d, d.rows[j].plan))
         => RequestedIsSound(f)
    BY <1>2, <2>1, <2>3, <2>4, CommandChangeIsSound
  <2> HIDE DEF e, f
  <2>8. e = f
    BY <2>2 DEF f
  <2>9. Touches(d, e, id, "revoked", {key})
    BY <2>1, <2>5, <2>6, <2>7, <2>8 DEF Touches, RequestedIsSound
  <2> QED
    BY <2>5, <2>8, <2>9 DEF e
<1> QED
  BY <1>1, <1>2

LEMMA ChangeLiveStateTouches ==
    ASSUME NEW d, Sound(d), NEW id \in DOMAIN d.rows, NEW state \in {"superseded", "closed"}
    PROVE  LET e == ChangeLiveState(d, id, state)
           IN  /\ Touches(d, e, id, state, {})
               /\ KeepsEnded(d, e) \/ Sets(d, e, id, state)
<1> DEFINE e == ChangeLiveState(d, id, state)
           command == [key |-> <<state, id, d.rows[id].revision>>,
                       kind |-> IF state = "superseded" THEN "supersede" ELSE "close",
                       actor |-> "system", digest |-> <<state, id, d.rows[id].revision>>]
<1>1. CASE IsOverdue(d, id) \/ ~IsOpen(d, id)
  <2>1. e = Expire(d, id)
    BY <1>1 DEF ChangeLiveState
  <2> HIDE DEF e
  <2> QED
    BY <2>1, ExpireTouches DEF e
<1>2. CASE ~IsOverdue(d, id) /\ IsOpen(d, id)
  <2>1. e = Changed(d, id, state, command)
    BY <1>2 DEF ChangeLiveState
  <2>2. /\ command.key = <<state, id, d.rows[id].revision>>
        /\ command.kind \notin {"request", "approve"}
    OBVIOUS
  <2> HIDE DEF command
  <2>3. /\ state \in {"expire", "superseded", "closed"}
        /\ state \in {"expired", "superseded", "closed"}
    OBVIOUS
  <2> DEFINE f == Changed(d, id, state, command)
  <2>4. Sound(f) /\ Grows(d, f)
    BY <1>2, <2>2, <2>3, SystemChangeIsSound
  <2>5. Sets(d, f, id, state)
    BY <1>2, <2>2, <2>3, SystemChangeIsSound
  <2>8. \A c \in f.commands : c \in d.commands \/ c.key = command.key
    BY <1>2, <2>2, <2>3, SystemChangeIsSound
  <2>9. AddsKeys(d, f, {})
    <3>1. id \in Nat /\ d.rows[id] \in Row
      BY DEF Sound, IsDatabase
    <3>2. d.rows[id].revision \in Nat
      BY <3>1 DEF Row
    <3>3. command.key \in SystemKeys
      BY <2>2, <3>1, <3>2 DEF SystemKeys
    <3> QED
      BY <2>8, <3>3 DEF AddsKeys
  <2>6. RequestedIsSound(d) => RequestedIsSound(f)
    BY <1>2, <2>2, <2>3, SystemChangeIsSound
  <2> HIDE DEF e, f
  <2>7. e = f
    BY <2>1 DEF f
  <2> QED
    BY <1>2, <2>4, <2>5, <2>6, <2>7, <2>9 DEF e, Touches
<1> QED
  BY <1>1, <1>2

-----------------------------------------------------------------------------
(* The invariant.                                                           *)

RefersTo(d, id, p) == id \in DOMAIN d.rows /\ d.rows[id].plan = p

TypesAreSound ==
    /\ plan \in [Plans -> {"awaiting_authorization", "executing", "terminal", "superseded"}]
    /\ action \in [Actions -> [state : {"planned", "dispatching", "terminal", "superseded"},
                               auth : Nat]]
    /\ candidate \in [Actions -> [auth : Nat, revision : Nat]]

\* An attempt and a candidate use an authorization of the plan of their action.
ReferencesAreSound ==
    \A a \in Actions :
        /\ action[a].state = "dispatching" => action[a].auth # 0
        /\ action[a].auth # 0 => RefersTo(db, action[a].auth, PlanOf[a])
        /\ candidate[a] # None => RefersTo(db, candidate[a].auth, PlanOf[a])

MessagesAreSound ==
    \A m \in messages :
        /\ m.actor \in Actors /\ m.key \in Keys /\ m.plan \in Plans
        /\ m.kind \in {"request", "approve", "revoke"}
        /\ m.kind # "request" => m.auth \in DOMAIN db.rows

\* The key of a listed plan is fresh, and an authorization of it that lasts was
\* made after the plan was listed.
IsFreshIn(d, s) ==
    \/ ByCaller(d, s.plan)
    \/ /\ ~IsKnown(d, AutomaticKey(s)) /\ ~IsKnown(d, AutomaticApproveKey(s))
       /\ \A id \in DOMAIN d.rows : IsLasting(d, s.plan, id) => id > s.latest

ListedIsSound ==
    /\ \A s \in listed :
          /\ s = [plan |-> s.plan, latest |-> s.latest]
          /\ s.plan \in Plans
          /\ s.latest \in 0..Len(db.rows)
          /\ IsFreshIn(db, s)
    /\ \A s, t \in listed : s.plan = t.plan => s = t

Inv ==
    /\ Sound(db)
    /\ RequestedIsSound(db)
    /\ TypesAreSound
    /\ ReferencesAreSound
    /\ MessagesAreSound
    /\ ListedIsSound
    /\ EndedAuthorityIsUnused

-----------------------------------------------------------------------------
(* What was listed.                                                         *)

\* A set of numbers below a bound has a largest one.
LEMMA LargestExists ==
    ASSUME NEW n \in Nat, NEW T \in SUBSET (1..n), T # {}
    PROVE  \E x \in T : \A y \in T : y <= x
<1> DEFINE R == OpToRel(<, Nat)
           U == {n - t : t \in T}
<1>1. IsWellFoundedOn(R, Nat)
  BY NatLessThanWellFounded
<1>2. \A x, y \in Nat : y < x => <<y, x>> \in R
  BY DEF OpToRel
<1>3. U \subseteq Nat /\ U # {}
  <2>1. \A t \in T : n - t \in Nat
    OBVIOUS
  <2> QED
    BY <2>1
<1> HIDE DEF R
<1>4. PICK u \in U : \A v \in U : ~(<<v, u>> \in R)
  BY <1>1, <1>3, WFMin
<1>5. PICK t \in T : u = n - t
  BY DEF U
<1>6. ASSUME NEW y \in T
      PROVE  y <= t
  <2>1. ~(n - y < n - t)
    BY <1>2, <1>3, <1>4, <1>5
  <2> QED
    BY <2>1
<1> QED
  BY <1>6

LEMMA LatestIsLast ==
    ASSUME NEW d, IsDatabase(d), NEW p
    PROVE  /\ LatestAuthorization(d, p) \in 0..Len(d.rows)
           /\ \A id \in RowsOf(d, p) : id <= LatestAuthorization(d, p)
<1>1. d.rows \in Seq(Row) /\ RowsOf(d, p) \in SUBSET (1..Len(d.rows)) /\ Len(d.rows) \in Nat
  BY DEF IsDatabase, RowsOf
<1>2. CASE RowsOf(d, p) = {}
  BY <1>1, <1>2 DEF LatestAuthorization
<1>3. CASE RowsOf(d, p) # {}
  <2>1. \E x \in RowsOf(d, p) : \A y \in RowsOf(d, p) : y <= x
    BY <1>1, <1>3, LargestExists
  <2>2. /\ LatestAuthorization(d, p) \in RowsOf(d, p)
        /\ \A id \in RowsOf(d, p) : id <= LatestAuthorization(d, p)
    BY <1>3, <2>1 DEF LatestAuthorization
  <2> QED
    BY <1>1, <2>2
<1> QED
  BY <1>2, <1>3

LEMMA ByCallerRemains ==
    ASSUME NEW d, NEW e, Sound(d), Grows(d, e), NEW p, ByCaller(d, p)
    PROVE  ByCaller(e, p)
<1>1. \A c \in d.commands : c.auth \in DOMAIN d.rows
  BY DEF Sound, CommandsAreSound, CommandIsSound
<1> QED
  BY <1>1 DEF ByCaller, Grows

\* A listed plan stays fresh until a pass uses its key.
LEMMA FreshRemains ==
    ASSUME NEW d, NEW e, Sound(d), Sound(e), Grows(d, e), NEW keys, AddsKeys(d, e, keys),
           NEW s, s.plan \in Plans, s.latest \in 0..Len(d.rows), IsFreshIn(d, s),
           AutomaticKey(s) \notin keys, AutomaticApproveKey(s) \notin keys
    PROVE  s.latest \in 0..Len(e.rows) /\ IsFreshIn(e, s)
<1>1. d.rows \in Seq(Row) /\ e.rows \in Seq(Row)
  BY DEF Sound, IsDatabase
<1>2. Len(d.rows) <= Len(e.rows) /\ Len(d.rows) \in Nat /\ Len(e.rows) \in Nat /\ s.latest \in Nat
  BY <1>1 DEF Grows
<1>3. s.latest \in 0..Len(e.rows)
  BY <1>2
<1>4. CASE ByCaller(d, s.plan)
  BY <1>3, <1>4, ByCallerRemains DEF IsFreshIn
<1>5. CASE ~ByCaller(d, s.plan)
  <2>1. AutomaticKey(s) \notin SystemKeys /\ AutomaticApproveKey(s) \notin SystemKeys
    BY <1>2, KeysDiffer DEF AutomaticKey, AutomaticApproveKey, SystemKeys
  <2>2. ~IsKnown(e, AutomaticKey(s)) /\ ~IsKnown(e, AutomaticApproveKey(s))
    BY <1>5, <2>1 DEF IsFreshIn, IsKnown, AddsKeys
  <2>3. ASSUME NEW id \in DOMAIN e.rows, IsLasting(e, s.plan, id)
        PROVE  id > s.latest
    <3>1. CASE id \in DOMAIN d.rows
      <4>1. e.rows[id] \in Row
        BY <1>1
      <4>2. IsLasting(d, s.plan, id)
        BY <2>3, <3>1 DEF IsLasting, Grows
      <4> QED
        BY <1>5, <3>1, <4>2 DEF IsFreshIn
    <3>2. CASE id \notin DOMAIN d.rows
      BY <1>1, <1>2, <2>3, <3>2
    <3> QED
      BY <3>1, <3>2
  <2> QED
    BY <1>3, <2>2, <2>3 DEF IsFreshIn
<1> QED
  BY <1>4, <1>5

LEMMA RefersRemains ==
    ASSUME NEW d, NEW e, IsDatabase(d), IsDatabase(e), Grows(d, e), NEW id \in DOMAIN d.rows
    PROVE  id \in DOMAIN e.rows /\ \A p : RefersTo(d, id, p) => RefersTo(e, id, p)
<1>1. d.rows \in Seq(Row) /\ e.rows \in Seq(Row)
  BY DEF IsDatabase
<1>2. Len(d.rows) <= Len(e.rows) /\ id \in 1..Len(d.rows) /\ id \in Nat
  BY <1>1 DEF Grows
<1>3. id \in DOMAIN e.rows
  BY <1>1, <1>2
<1> QED
  BY <1>3 DEF RefersTo, Grows

-----------------------------------------------------------------------------
(* Every transaction is a step of AuthorizationContract, or leaves its       *)
(* grants alone.                                                            *)

SameGrants(d, e) ==
    /\ DOMAIN e.rows = DOMAIN d.rows
    /\ \A id \in DOMAIN d.rows :
          e.rows[id].plan = d.rows[id].plan /\ e.rows[id].state = d.rows[id].state

EndsGrant(d, e) ==
    \E id \in DOMAIN d.rows, state \in {"revoked", "expired", "superseded", "closed"} :
        IsOpen(d, id) /\ Sets(d, e, id, state)

ApprovesGrant(d, e) ==
    \E id \in DOMAIN d.rows : d.rows[id].state = "requested" /\ Sets(d, e, id, "authorized")

OpensGrant(d, e) ==
    \E p \in Plans, state \in OpenStates :
        /\ DOMAIN e.rows = DOMAIN d.rows \cup {Len(d.rows) + 1}
        /\ Len(e.rows) = Len(d.rows) + 1
        /\ e.rows[Len(d.rows) + 1].plan = p
        /\ e.rows[Len(d.rows) + 1].state = state
        /\ \A id \in DOMAIN d.rows :
              /\ e.rows[id].plan = d.rows[id].plan
              /\ e.rows[id].state = IF id \in OpenRows(d, p) THEN "expired" ELSE d.rows[id].state

ContractStep(d, e) ==
    SameGrants(d, e) \/ EndsGrant(d, e) \/ ApprovesGrant(d, e) \/ OpensGrant(d, e)

\* What a transaction that neither supersedes nor closes leaves behind.
Transaction(d, e, keys) ==
    /\ Sound(e) /\ RequestedIsSound(e)
    /\ Grows(d, e) /\ KeepsEnded(d, e) /\ AddsKeys(d, e, keys)
    /\ ContractStep(d, e)

LEMMA TouchIsContractStep ==
    ASSUME NEW d, Sound(d), NEW e, NEW id \in DOMAIN d.rows, NEW keys,
           NEW state \in {"revoked", "expired", "superseded", "closed"},
           Touches(d, e, id, state, keys)
    PROVE  ContractStep(d, e)
<1>1. CASE e = d
  BY <1>1 DEF ContractStep, SameGrants
<1>2. CASE IsOpen(d, id) /\ Sets(d, e, id, "expired")
  BY <1>2 DEF ContractStep, EndsGrant
<1>3. CASE IsOpen(d, id) /\ Sets(d, e, id, state)
  BY <1>3 DEF ContractStep, EndsGrant
<1> QED
  BY <1>1, <1>2, <1>3 DEF Touches

LEMMA ExpireIsTransaction ==
    ASSUME NEW d, Sound(d), RequestedIsSound(d), NEW id \in DOMAIN d.rows, NEW keys
    PROVE  Transaction(d, Expire(d, id), keys)
<1>1. Touches(d, Expire(d, id), id, "expired", keys) /\ KeepsEnded(d, Expire(d, id))
  BY ExpireTouches
<1>2. ContractStep(d, Expire(d, id))
  BY <1>1, TouchIsContractStep
<1> QED
  BY <1>1, <1>2 DEF Touches, Transaction

LEMMA RequestIsTransaction ==
    ASSUME NEW d, Sound(d), RequestedIsSound(d), NEW p \in Plans, NEW actor \in Actors,
           NEW key \in Keys, RequestLiveOk(d, p, actor, key)
    PROVE  Transaction(d, RequestLive(d, p, actor, key).db, {key})
<1> DEFINE asked == RequestLive(d, p, actor, key)
<1>1. CASE IsKnown(d, key)
  <2>1. asked.id \in DOMAIN d.rows /\ asked.db = Expire(d, asked.id)
    BY <1>1, RequestLiveAgain
  <2> QED
    BY <2>1, ExpireIsTransaction
<1>2. IsKeyFor(d, p, key)
  BY DEF IsKeyFor
<1>3. CASE ~IsKnown(d, key) /\ {id \in OpenRows(d, p) : ~d.rows[id].over} # {}
  <2>1. /\ asked.db.rows = d.rows
        /\ Sound(asked.db) /\ Grows(d, asked.db) /\ KeepsEnded(d, asked.db)
        /\ AddsKeys(d, asked.db, {key})
        /\ RequestedIsSound(asked.db)
    BY <1>2, <1>3, RequestLiveLasting
  <2>2. ContractStep(d, asked.db)
    BY <2>1 DEF ContractStep, SameGrants
  <2> QED
    BY <2>1, <2>2 DEF Transaction
<1>4. CASE ~IsKnown(d, key) /\ {id \in OpenRows(d, p) : ~d.rows[id].over} = {}
  <2>1. /\ Opens(d, asked.db, p, actor)
        /\ Sound(asked.db) /\ Grows(d, asked.db) /\ KeepsEnded(d, asked.db)
        /\ AddsKeys(d, asked.db, {key})
        /\ RequestedIsSound(asked.db)
    BY <1>2, <1>4, RequestLiveNew
  <2>2. /\ FreshRow(p, actor).plan = p
        /\ FreshRow(p, actor).state = "requested" /\ "requested" \in OpenStates
    BY DEF FreshRow, OpenStates
  <2>3. ContractStep(d, asked.db)
    BY <2>1, <2>2 DEF ContractStep, OpensGrant, Opens
  <2> QED
    BY <2>1, <2>3 DEF Transaction
<1> QED
  BY <1>1, <1>3, <1>4

LEMMA ApproveIsTransaction ==
    ASSUME NEW d, Sound(d), RequestedIsSound(d), NEW id \in DOMAIN d.rows,
           NEW p, NEW revision, NEW actor, NEW key,
           ApproveLiveOk(d, p, id, revision, actor, key), IsCommandKey(d, id, key)
    PROVE  Transaction(d, ApproveLive(d, p, id, revision, actor, key), {key})
<1> DEFINE e == ApproveLive(d, p, id, revision, actor, key)
<1>1. CASE e = Expire(d, id)
  BY <1>1, ExpireIsTransaction
<1>2. CASE e # Expire(d, id)
  <2>1. /\ KeepsEnded(d, e) /\ AddsKeys(d, e, {key})
        /\ d.rows[id].state = "requested"
        /\ Sound(e) /\ Grows(d, e) /\ Sets(d, e, id, "authorized")
        /\ (\A j \in DOMAIN d.rows : d.rows[j].state = "requested" =>
               j = id \/ ByCaller(d, d.rows[j].plan))
            => RequestedIsSound(e)
    BY <1>2, ApproveLiveIsSound
  <2>2. RequestedIsSound(e)
    BY <2>1 DEF RequestedIsSound
  <2>3. ContractStep(d, e)
    BY <2>1 DEF ContractStep, ApprovesGrant
  <2> QED
    BY <2>1, <2>2, <2>3 DEF Transaction
<1> QED
  BY <1>1, <1>2

LEMMA RevokeIsTransaction ==
    ASSUME NEW d, Sound(d), RequestedIsSound(d), NEW id \in DOMAIN d.rows,
           NEW revision, NEW actor, NEW key \in Keys, RevokeLiveOk(d, id, revision, actor, key)
    PROVE  Transaction(d, RevokeLive(d, id, revision, actor, key), {key})
<1> DEFINE e == RevokeLive(d, id, revision, actor, key)
<1>1. PICK j \in DOMAIN d.rows : Touches(d, e, j, "revoked", {key}) /\ KeepsEnded(d, e)
  BY RevokeLiveTouches
<1>2. ContractStep(d, e)
  BY <1>1, TouchIsContractStep
<1> QED
  BY <1>1, <1>2 DEF Touches, Transaction

AuthorizeKeys(s) == {AutomaticKey(s), AutomaticApproveKey(s)}

\* A pass requests and approves in one transaction: it leaves no authorization
\* of its own requested.
LEMMA AuthorizeIsTransaction ==
    ASSUME NEW d, Sound(d), RequestedIsSound(d), NEW s, s.plan \in Plans,
           s.latest \in 0..Len(d.rows), IsFreshIn(d, s), AuthorizeOk(d, s)
    PROVE  Transaction(d, Authorize(d, s), AuthorizeKeys(s))
<1> DEFINE p == s.plan
           actor == AuthorOf[p]
           key == AutomaticKey(s)
           asked == RequestLive(d, p, actor, key)
           id == asked.id
           m == asked.db
           row == m.rows[id]
           approved == ApproveLive(m, p, id, row.revision, actor, AutomaticApproveKey(s))
           e == Authorize(d, s)
           isAuthorized == row.state = "authorized"
           approveOk == ApproveLiveOk(m, p, id, row.revision, actor, AutomaticApproveKey(s))
<1>1. actor \in Actors /\ p \in Plans
  BY AuthorOfAssumption
<1>2. /\ RequestLiveOk(d, p, actor, key)
      /\ isAuthorized \/ approveOk
  BY DEF AuthorizeOk
<1>3. e = IF isAuthorized THEN m ELSE approved
  BY DEF Authorize
<1>4. key \in AuthorizeKeys(s) /\ AutomaticApproveKey(s) \in AuthorizeKeys(s)
  BY DEF AuthorizeKeys
<1>5. IsKeyFor(d, p, key)
  BY DEF IsKeyFor, IsFreshIn, AutomaticKey
<1>6. s.latest \in Nat /\ Len(d.rows) \in Nat /\ IsDatabase(d)
  BY DEF Sound, IsDatabase
<1>7. ASSUME id \in DOMAIN m.rows, m.rows[id].plan = p, id > s.latest \/ ByCaller(m, p)
      PROVE  IsCommandKey(m, id, AutomaticApproveKey(s))
  BY <1>1, <1>6, <1>7 DEF IsCommandKey, AutomaticApproveKey, AutomaticKey
<1> SUFFICES Transaction(d, e, AuthorizeKeys(s))
  OBVIOUS
<1> HIDE DEF asked, e, key, actor, approved
<1>8. CASE IsKnown(d, key)
  <2>1. id \in DOMAIN d.rows /\ m = Expire(d, id) /\ d.rows[id].plan = p
    BY <1>1, <1>2, <1>8, RequestLiveAgain DEF asked
  <2>2. ByCaller(d, p)
    BY <1>8 DEF IsFreshIn, key
  <2>3. Transaction(d, m, AuthorizeKeys(s))
    BY <2>1, ExpireIsTransaction
  <2>4. id \in DOMAIN m.rows /\ m.rows[id].plan = p /\ ByCaller(m, p) /\ Sound(m) /\ RequestedIsSound(m)
    BY <2>1, <2>2, <2>3, RefersRemains, ByCallerRemains DEF Transaction, Sound, RefersTo
  <2>5. IsCommandKey(m, id, AutomaticApproveKey(s))
    BY <1>7, <2>4
  <2>6. CASE isAuthorized
    BY <1>3, <2>3, <2>6
  <2>7. CASE ~isAuthorized /\ IsOverdue(d, id)
    <3>1. Sets(d, m, id, "expired")
      BY <2>1, <2>7, ExpireIsSound
    <3>2. row.state = "expired"
      <4>1. d.rows \in Seq(Row) /\ d.rows[id] \in Row /\ "expired" \in RowStates
        BY <1>6, <2>1 DEF IsDatabase, RowStates
      <4>2. m.rows[id] = Revised(d.rows[id], "expired")
        BY <2>1, <3>1, <4>1 DEF Sets
      <4> QED
        BY <4>1, <4>2, RevisedIs
    <3>3. ~IsOverdue(m, id) /\ row.state # "requested"
      BY <3>2 DEF IsOverdue, IsOpen, OpenStates
    <3>4. approved = Expire(m, id)
      BY <1>2, <2>4, <2>5, <2>7, <3>3, ApproveLiveIsSound DEF approved
    <3>5. approved = m
      BY <3>3, <3>4 DEF Expire
    <3> QED
      BY <1>3, <2>3, <2>7, <3>5
  <2>8. CASE ~isAuthorized /\ ~IsOverdue(d, id)
    <3>1. m = d
      BY <2>1, <2>8 DEF Expire
    <3>2. Transaction(m, approved, {AutomaticApproveKey(s)})
      BY <1>2, <2>4, <2>5, <2>8, ApproveIsTransaction DEF approved
    <3> QED
      BY <1>3, <1>4, <2>8, <3>1, <3>2 DEF Transaction, AddsKeys
  <2> QED
    BY <2>6, <2>7, <2>8
<1>9. CASE ~IsKnown(d, key) /\ {j \in OpenRows(d, p) : ~d.rows[j].over} # {}
  <2>1. id \in DOMAIN d.rows /\ IsLasting(d, p, id) /\ m.rows = d.rows
    BY <1>1, <1>5, <1>9, RequestLiveLasting, ZenonT(30) DEF asked
  <2>2. Sound(m) /\ Grows(d, m) /\ KeepsEnded(d, m)
    BY <1>1, <1>5, <1>9, RequestLiveLasting DEF asked
  <2>3. AddsKeys(d, m, {key}) /\ RequestedIsSound(m)
    BY <1>1, <1>5, <1>9, RequestLiveLasting DEF asked
  <2>4. Transaction(d, m, AuthorizeKeys(s))
    BY <1>4, <2>1, <2>2, <2>3 DEF Transaction, AddsKeys, ContractStep, SameGrants
  <2>5. id > s.latest \/ ByCaller(m, p)
    BY <2>1, <2>2, ByCallerRemains DEF IsFreshIn
  <2>6. IsCommandKey(m, id, AutomaticApproveKey(s))
    BY <1>7, <2>1, <2>5 DEF IsLasting
  <2>7. CASE isAuthorized
    BY <1>3, <2>4, <2>7
  <2>8. CASE ~isAuthorized
    <3>1. Transaction(m, approved, {AutomaticApproveKey(s)})
      BY <1>2, <2>1, <2>2, <2>3, <2>6, <2>8, ApproveIsTransaction DEF approved
    <3>2. Grows(d, approved) /\ KeepsEnded(d, approved)
      BY <1>6, <2>2, <3>1, GrowsTransitive DEF Transaction, Sound
    <3>3. ContractStep(d, approved)
      <4>1. ContractStep(m, approved)
        BY <3>1 DEF Transaction
      <4>2. /\ SameGrants(m, approved) => SameGrants(d, approved)
            /\ EndsGrant(m, approved) => EndsGrant(d, approved)
            /\ ApprovesGrant(m, approved) => ApprovesGrant(d, approved)
        BY <2>1 DEF SameGrants, EndsGrant, ApprovesGrant, IsOpen, Sets
      <4>3. OpenRows(m, p) = OpenRows(d, p) /\ \A q : OpenRows(m, q) = OpenRows(d, q)
        BY <2>1 DEF OpenRows, IsOpen
      <4>4. OpensGrant(m, approved) => OpensGrant(d, approved)
        BY <2>1, <4>3 DEF OpensGrant
      <4> QED
        BY <4>1, <4>2, <4>4 DEF ContractStep
    <3>4. AddsKeys(d, approved, AuthorizeKeys(s))
      BY <1>4, <2>3, <3>1 DEF AddsKeys, Transaction
    <3> QED
      BY <1>3, <2>8, <3>1, <3>2, <3>3, <3>4 DEF Transaction
  <2> QED
    BY <2>7, <2>8
<1>10. CASE ~IsKnown(d, key) /\ {j \in OpenRows(d, p) : ~d.rows[j].over} = {}
  <2>1. id = Len(d.rows) + 1 /\ Opens(d, m, p, actor)
    BY <1>1, <1>5, <1>10, RequestLiveNew DEF asked
  <2>2. Sound(m) /\ Grows(d, m) /\ KeepsEnded(d, m)
    BY <1>1, <1>5, <1>10, RequestLiveNew DEF asked
  <2>3. AddsKeys(d, m, {key})
    BY <1>1, <1>5, <1>10, RequestLiveNew DEF asked
  <2>4. \A j \in DOMAIN d.rows : m.rows[j].state = "requested" => ByCaller(m, m.rows[j].plan)
    BY <1>1, <1>5, <1>10, RequestLiveNew DEF asked
  <2>5. /\ id \in DOMAIN m.rows /\ row = FreshRow(p, actor)
        /\ DOMAIN m.rows = DOMAIN d.rows \cup {id}
    BY <2>1 DEF Opens
  <2>6. row.plan = p /\ row.state = "requested" /\ row.revision = 0 /\ ~row.over
    BY <2>5 DEF FreshRow
  <2>7. ~isAuthorized /\ ~IsOverdue(m, id) /\ IsCommandKey(m, id, AutomaticApproveKey(s))
    BY <1>6, <1>7, <2>1, <2>5, <2>6 DEF IsOverdue
  <2>8. KeepsEnded(m, approved) /\ AddsKeys(m, approved, {AutomaticApproveKey(s)})
    BY <1>2, <2>2, <2>5, <2>7, ApproveLiveIsSound DEF approved
  <2>9. Sound(approved) /\ Grows(m, approved) /\ Sets(m, approved, id, "authorized")
    BY <1>2, <2>2, <2>5, <2>6, <2>7, ApproveLiveIsSound DEF approved
  <2>10. (\A j \in DOMAIN m.rows : m.rows[j].state = "requested" =>
             j = id \/ ByCaller(m, m.rows[j].plan))
          => RequestedIsSound(approved)
    BY <1>2, <2>2, <2>5, <2>6, <2>7, ApproveLiveIsSound DEF approved
  <2>11. RequestedIsSound(approved)
    BY <2>4, <2>5, <2>10
  <2>12. Grows(d, approved) /\ KeepsEnded(d, approved)
    BY <1>6, <2>2, <2>8, <2>9, GrowsTransitive DEF Sound
  <2>13. AddsKeys(d, approved, AuthorizeKeys(s))
    BY <1>4, <2>3, <2>8 DEF AddsKeys
  <2>14. ContractStep(d, approved)
    <3>1. m.rows \in Seq(Row) /\ m.rows[id] \in Row /\ "authorized" \in RowStates
      BY <2>2, <2>5 DEF Sound, IsDatabase, RowStates, OpenStates
    <3>2. /\ Revised(m.rows[id], "authorized").plan = p
          /\ Revised(m.rows[id], "authorized").state = "authorized"
      BY <2>6, <3>1, RevisedIs
    <3>3. /\ DOMAIN approved.rows = DOMAIN m.rows /\ Len(approved.rows) = Len(m.rows)
          /\ approved.rows[id] = Revised(m.rows[id], "authorized")
          /\ \A j \in DOMAIN m.rows : j # id => approved.rows[j] = m.rows[j]
      BY <2>5, <2>9, <3>1 DEF Sets
    <3>4. id \notin DOMAIN d.rows
      BY <1>6, <2>1 DEF IsDatabase
    <3>5. /\ DOMAIN approved.rows = DOMAIN d.rows \cup {Len(d.rows) + 1}
          /\ Len(approved.rows) = Len(d.rows) + 1
          /\ approved.rows[Len(d.rows) + 1].plan = p
          /\ approved.rows[Len(d.rows) + 1].state = "authorized"
          /\ \A j \in DOMAIN d.rows :
                /\ approved.rows[j].plan = d.rows[j].plan
                /\ approved.rows[j].state =
                      IF j \in OpenRows(d, p) THEN "expired" ELSE d.rows[j].state
      BY <2>1, <3>2, <3>3, <3>4 DEF Opens
    <3>6. "authorized" \in OpenStates
      BY DEF OpenStates
    <3>7. OpensGrant(d, approved)
      BY <1>1, <3>5, <3>6 DEF OpensGrant
    <3> QED
      BY <3>7 DEF ContractStep
  <2> QED
    BY <1>3, <2>7, <2>9, <2>11, <2>12, <2>13, <2>14 DEF Transaction
<1> QED
  BY <1>8, <1>9, <1>10

LEMMA TimeIsTransaction ==
    ASSUME NEW d, Sound(d), RequestedIsSound(d), NEW id \in DOMAIN d.rows, NEW e,
           e = [d EXCEPT !.rows[id].over = TRUE]
    PROVE  Transaction(d, e, {})
<1> DEFINE row == [d.rows[id] EXCEPT !.over = TRUE]
           rows == [d.rows EXCEPT ![id] = row]
<1>1. d = [rows |-> d.rows, commands |-> d.commands] /\ d.rows \in Seq(Row) /\ d.rows[id] \in Row
  BY DEF Sound, IsDatabase
<1>2. /\ row \in Row /\ row.plan = d.rows[id].plan /\ row.state = d.rows[id].state
      /\ row.revision = d.rows[id].revision /\ row.over = TRUE
  <2>1. \A r \in Row :
           LET s == [r EXCEPT !.over = TRUE]
           IN  /\ s \in Row /\ s.plan = r.plan /\ s.state = r.state
               /\ s.revision = r.revision /\ s.over = TRUE
    BY DEF Row
  <2> QED
    BY <1>1, <2>1
<1>3. e = [rows |-> rows, commands |-> d.commands]
  <2>1. e = [d EXCEPT !.rows = rows]
    OBVIOUS
  <2> HIDE DEF rows
  <2>2. [d EXCEPT !.rows = rows] = [rows |-> rows, commands |-> d.commands]
    BY <1>1
  <2> QED
    BY <2>1, <2>2
<1> HIDE DEF row
<1>4. /\ e.commands = d.commands /\ e.rows \in Seq(Row)
      /\ DOMAIN e.rows = DOMAIN d.rows /\ Len(e.rows) = Len(d.rows)
      /\ e.rows[id] = row
      /\ \A j \in DOMAIN d.rows : j # id => e.rows[j] = d.rows[j]
  <2>1. /\ rows \in Seq(Row)
        /\ DOMAIN rows = DOMAIN d.rows /\ Len(rows) = Len(d.rows)
        /\ rows[id] = row
        /\ \A j \in DOMAIN d.rows : j # id => rows[j] = d.rows[j]
    BY <1>1, <1>2
  <2> HIDE DEF rows
  <2>2. e.rows = rows /\ e.commands = d.commands
    BY <1>3
  <2> QED
    BY <2>1, <2>2
<1> HIDE DEF rows
<1>5. \A j \in DOMAIN d.rows :
          /\ e.rows[j].plan = d.rows[j].plan /\ e.rows[j].state = d.rows[j].state
          /\ e.rows[j].revision = d.rows[j].revision
          /\ d.rows[j].over => e.rows[j].over
  BY <1>2, <1>4
<1>6. \A c \in d.commands : c.auth \in DOMAIN d.rows
  BY DEF Sound, CommandsAreSound, CommandIsSound
<1>7. \A q : ByCaller(d, q) => ByCaller(e, q)
  BY <1>4, <1>5, <1>6 DEF ByCaller
<1>8. IsDatabase(e)
  BY <1>3, <1>4 DEF IsDatabase
<1>9. CommandsAreSound(e)
  <2>1. SUFFICES ASSUME NEW c \in d.commands
                 PROVE  CommandIsSound(e, c)
    BY <1>4 DEF CommandsAreSound
  <2>2. CommandIsSound(d, c) /\ c.auth \in DOMAIN e.rows /\ e.rows[c.auth].plan = d.rows[c.auth].plan
    BY <1>4, <1>5, <1>6 DEF Sound, CommandsAreSound
  <2> QED
    BY <1>7, <2>2 DEF CommandIsSound
<1>10. EffectsAreSound(e)
  <2>1. \A j : EffectsOf(e, j) = EffectsOf(d, j)
    BY <1>4 DEF EffectsOf
  <2>2. ASSUME NEW j \in DOMAIN d.rows
        PROVE  /\ IsFiniteSet(EffectsOf(e, j))
               /\ {c.revision : c \in EffectsOf(e, j)} = 1..e.rows[j].revision
               /\ Cardinality(EffectsOf(e, j)) = e.rows[j].revision
               /\ \A c \in EffectsOf(e, j) : c.revision = e.rows[j].revision => c.state = e.rows[j].state
    <3>1. e.rows[j].revision = d.rows[j].revision /\ e.rows[j].state = d.rows[j].state
      BY <1>5
    <3> QED
      BY <2>1, <3>1 DEF Sound, EffectsAreSound
  <2> QED
    BY <1>4, <2>2 DEF EffectsAreSound
<1>11. OneOpenPerPlan(e)
  BY <1>4, <1>5 DEF Sound, OneOpenPerPlan, IsOpen
<1>12. Sound(e)
  BY <1>4, <1>8, <1>9, <1>10, <1>11 DEF Sound, KeysAreUnique
<1>13. RequestedIsSound(e)
  BY <1>4, <1>5, <1>7 DEF RequestedIsSound
<1>14. Grows(d, e) /\ KeepsEnded(d, e) /\ AddsKeys(d, e, {})
  BY <1>1, <1>4, <1>5 DEF Grows, KeepsEnded, AddsKeys, IsOpen
<1>15. ContractStep(d, e)
  BY <1>4, <1>5 DEF ContractStep, SameGrants
<1> QED
  BY <1>12, <1>13, <1>14, <1>15 DEF Transaction

-----------------------------------------------------------------------------
(* The invariant is inductive.                                              *)

LEMMA InitIsSound == Init => Inv
<1>1. SUFFICES ASSUME Init PROVE Inv
  OBVIOUS
<1>2. db.rows = <<>> /\ db.commands = {} /\ db = [rows |-> <<>>, commands |-> {}]
  BY <1>1 DEF Init
<1>3. Sound(db)
  BY <1>2 DEF Sound, IsDatabase, KeysAreUnique, EffectsAreSound, CommandsAreSound, OneOpenPerPlan
<1>4. RequestedIsSound(db) /\ EndedAuthorityIsUnused
  BY <1>2 DEF RequestedIsSound, EndedAuthorityIsUnused
<1>5. TypesAreSound
  BY <1>1 DEF Init, TypesAreSound, None
<1>6. ReferencesAreSound
  BY <1>1 DEF Init, ReferencesAreSound
<1>7. MessagesAreSound /\ ListedIsSound
  BY <1>1 DEF Init, MessagesAreSound, ListedIsSound
<1> QED
  BY <1>3, <1>4, <1>5, <1>6, <1>7 DEF Inv

\* A transaction that neither supersedes nor closes, beside which only the
\* candidates change, and no listed plan has one of its keys.
LEMMA TransactionKeepsInv ==
    ASSUME Inv, NEW keys, Transaction(db, db', keys),
           UNCHANGED <<plan, action, messages>>,
           candidate' \in [Actions -> [auth : Nat, revision : Nat]],
           \A a \in Actions : candidate'[a] \in {candidate[a], None},
           listed' \subseteq listed,
           \A s \in listed' : AutomaticKey(s) \notin keys /\ AutomaticApproveKey(s) \notin keys
    PROVE  Inv'
<1>1. Sound(db) /\ Sound(db') /\ Grows(db, db') /\ KeepsEnded(db, db') /\ AddsKeys(db, db', keys)
  BY DEF Inv, Transaction
<1>2. IsDatabase(db) /\ IsDatabase(db')
  BY <1>1 DEF Sound
<1>3. \A id, p : RefersTo(db, id, p) => RefersTo(db', id, p)
  BY <1>1, <1>2, RefersRemains DEF RefersTo
<1>4. \A id \in DOMAIN db.rows : id \in DOMAIN db'.rows /\ db'.rows[id].plan = db.rows[id].plan
  BY <1>1, <1>2, RefersRemains DEF Grows
<1>5. TypesAreSound'
  BY DEF Inv, TypesAreSound
<1>6. ReferencesAreSound'
  BY <1>3 DEF Inv, ReferencesAreSound
<1>7. MessagesAreSound'
  BY <1>4 DEF Inv, MessagesAreSound
<1>8. ListedIsSound'
  <2>1. ASSUME NEW s \in listed'
        PROVE  s.latest \in 0..Len(db'.rows) /\ IsFreshIn(db', s)
    <3>1. s.plan \in Plans /\ s.latest \in 0..Len(db.rows) /\ IsFreshIn(db, s)
      BY <2>1 DEF Inv, ListedIsSound
    <3> QED
      BY <1>1, <2>1, <3>1, FreshRemains
  <2> QED
    BY <2>1 DEF Inv, ListedIsSound
<1>9. EndedAuthorityIsUnused'
  <2>1. SUFFICES ASSUME NEW id \in DOMAIN db'.rows, db'.rows[id].state \in {"superseded", "closed"}
                 PROVE  /\ db'.rows[id].state = "superseded" => \A a \in Actions : action[a].auth # id
                        /\ db'.rows[id].state = "closed" => UnfinishedActions(db'.rows[id].plan) = {}
    BY DEF EndedAuthorityIsUnused, UnfinishedActions
  <2>2. id \in DOMAIN db.rows /\ db.rows[id].state = db'.rows[id].state
    BY <1>1, <2>1 DEF KeepsEnded
  <2> QED
    BY <1>4, <2>2 DEF Inv, EndedAuthorityIsUnused
<1> QED
  BY <1>1, <1>5, <1>6, <1>7, <1>8, <1>9 DEF Inv, Transaction

LEMMA IdleIsTransaction ==
    ASSUME NEW d, Sound(d), RequestedIsSound(d)
    PROVE  Transaction(d, d, {})
<1>1. Grows(d, d) /\ KeepsEnded(d, d) /\ AddsKeys(d, d, {})
  BY DEF Grows, KeepsEnded, AddsKeys, Sound, IsDatabase
<1>2. ContractStep(d, d)
  BY DEF ContractStep, SameGrants
<1> QED
  BY <1>1, <1>2 DEF Transaction

LEMMA NoneIsCandidate == None \in [auth : Nat, revision : Nat]
BY DEF None

\* Key of a listed plan: of its own, and of no caller.
LEMMA ListedKeysDiffer ==
    ASSUME Inv, NEW s \in listed
    PROVE  /\ AutomaticKey(s) \notin Keys /\ AutomaticApproveKey(s) \notin Keys
           /\ \A t \in listed : t # s =>
                 AutomaticKey(t) \notin AuthorizeKeys(s) /\ AutomaticApproveKey(t) \notin AuthorizeKeys(s)
<1>1. s.plan \in Plans /\ s.latest \in Nat /\ s.latest \in 0..Len(db.rows)
  BY DEF Inv, ListedIsSound
<1>2. AutomaticKey(s) \notin Keys /\ AutomaticApproveKey(s) \notin Keys
  BY <1>1, KeysDiffer DEF AutomaticKey, AutomaticApproveKey
<1>3. ASSUME NEW t \in listed, t # s
      PROVE  AutomaticKey(t) \notin AuthorizeKeys(s) /\ AutomaticApproveKey(t) \notin AuthorizeKeys(s)
  <2>1. t.plan # s.plan
    BY <1>3 DEF Inv, ListedIsSound
  <2> QED
    BY <2>1 DEF AuthorizeKeys, AutomaticKey, AutomaticApproveKey
<1> QED
  BY <1>2, <1>3

LEMMA ListPlanKeepsInv ==
    ASSUME Inv, NEW p \in Plans, ListPlan(p)
    PROVE  Inv'
<1> DEFINE s == [plan |-> p, latest |-> LatestAuthorization(db, p)]
<1>1. /\ listed' = listed \cup {s} /\ \A t \in listed : t.plan # p
      /\ UNCHANGED <<db, plan, action, candidate, messages>>
      /\ ~IsAuthorized(p)
  BY DEF ListPlan
<1>2. Sound(db) /\ IsDatabase(db) /\ RequestedIsSound(db)
  BY DEF Inv, Sound
<1>3. /\ s.latest \in 0..Len(db.rows)
      /\ \A id \in RowsOf(db, p) : id <= s.latest
      /\ s.plan = p
  BY <1>2, LatestIsLast
<1>4. Len(db.rows) \in Nat /\ s.latest \in Nat /\ \A id \in DOMAIN db.rows : id \in Nat
  BY <1>2, <1>3 DEF IsDatabase
<1>5. AutomaticKey(s) = <<"auto", p, s.latest>>
      /\ AutomaticApproveKey(s) = <<"auto:approve", <<"auto", p, s.latest>>>>
  BY <1>3 DEF AutomaticKey, AutomaticApproveKey
<1> HIDE DEF s
<1>6. ASSUME ~ByCaller(db, p)
      PROVE  IsFreshIn(db, s)
  <2>1. ASSUME NEW c \in db.commands, c.key \in {AutomaticKey(s), AutomaticApproveKey(s)}
        PROVE  FALSE
    <3>1. c.auth \in DOMAIN db.rows /\ db.rows[c.auth].plan = p /\ c.auth > s.latest
      BY <1>2, <1>4, <1>5, <1>6, <2>1 DEF Sound, CommandsAreSound, CommandIsSound
    <3>2. c.auth \in RowsOf(db, p)
      BY <3>1 DEF RowsOf
    <3> QED
      BY <1>3, <1>4, <3>1, <3>2
  <2>2. ASSUME NEW id \in DOMAIN db.rows, IsLasting(db, p, id)
        PROVE  FALSE
    <3>1. db.rows[id].state # "authorized"
      BY <1>1, <2>2 DEF IsAuthorized, IsLasting
    <3>2. db.rows[id].state = "requested" /\ db.rows[id].plan = p
      BY <2>2, <3>1 DEF IsLasting, IsOpen, OpenStates
    <3> QED
      BY <1>2, <1>6, <3>2 DEF RequestedIsSound
  <2> QED
    BY <1>3, <2>1, <2>2 DEF IsFreshIn, IsKnown
<1>7. IsFreshIn(db, s)
  BY <1>3, <1>6 DEF IsFreshIn
<1>8. s = [plan |-> s.plan, latest |-> s.latest]
  BY DEF s
<1>9. ListedIsSound'
  BY <1>1, <1>3, <1>7, <1>8 DEF Inv, ListedIsSound
<1> QED
  BY <1>1, <1>9 DEF Inv, TypesAreSound, ReferencesAreSound, MessagesAreSound,
                    EndedAuthorityIsUnused, UnfinishedActions

LEMMA IssueKeepsInv ==
    ASSUME Inv, NEW kind \in {"request", "approve", "revoke"}, NEW actor \in Actors,
           NEW key \in Keys, Issue(kind, actor, key)
    PROVE  Inv'
<1>1. UNCHANGED <<db, plan, action, candidate, listed>>
  BY DEF Issue
<1>2. MessagesAreSound'
  <2>1. CASE kind = "request"
    <3>1. PICK p \in Plans : messages' = messages \cup
            {[kind |-> kind, actor |-> actor, key |-> key, plan |-> p, auth |-> 0, revision |-> 0]}
      BY <2>1 DEF Issue
    <3> QED
      BY <1>1, <2>1, <3>1 DEF Inv, MessagesAreSound
  <2>2. CASE kind \in {"approve", "revoke"}
    <3>1. PICK id \in DOMAIN db.rows : messages' = messages \cup
            {[kind |-> kind, actor |-> actor, key |-> key, plan |-> db.rows[id].plan,
              auth |-> id, revision |-> db.rows[id].revision]}
      BY <2>2 DEF Issue
    <3>2. db.rows[id].plan \in Plans
      <4>1. db.rows[id] \in Row
        BY DEF Inv, Sound, IsDatabase
      <4> QED
        BY <4>1 DEF Row
    <3> QED
      BY <1>1, <2>2, <3>1, <3>2 DEF Inv, MessagesAreSound
  <2> QED
    BY <2>1, <2>2
<1> QED
  BY <1>1, <1>2 DEF Inv, TypesAreSound, ReferencesAreSound, ListedIsSound,
                    EndedAuthorityIsUnused, UnfinishedActions

LEMMA AuthorizePlanKeepsInv ==
    ASSUME Inv, NEW s \in listed, AuthorizePlan(s)
    PROVE  Inv' /\ ContractStep(db, db')
<1>1. /\ AuthorizeOk(db, s) /\ db' = Authorize(db, s) /\ listed' = listed \ {s}
      /\ UNCHANGED <<plan, action, candidate, messages>>
  BY DEF AuthorizePlan
<1>2. s.plan \in Plans /\ s.latest \in 0..Len(db.rows) /\ IsFreshIn(db, s)
  BY DEF Inv, ListedIsSound
<1>3. Transaction(db, db', AuthorizeKeys(s))
  BY <1>1, <1>2, AuthorizeIsTransaction DEF Inv
<1>4. \A t \in listed' : AutomaticKey(t) \notin AuthorizeKeys(s) /\ AutomaticApproveKey(t) \notin AuthorizeKeys(s)
  BY <1>1, ListedKeysDiffer
<1>5. Inv'
  BY <1>1, <1>3, <1>4, TransactionKeepsInv DEF Inv, TypesAreSound
<1> QED
  BY <1>3, <1>5 DEF Transaction

LEMMA AuthorizeFailsKeepsInv ==
    ASSUME Inv, NEW s \in listed, AuthorizeFails(s)
    PROVE  Inv' /\ ContractStep(db, db')
<1>1. UNCHANGED <<db, plan, action, candidate, messages>> /\ listed' \subseteq listed
  BY DEF AuthorizeFails
<1>2. Transaction(db, db', {})
  BY <1>1, IdleIsTransaction DEF Inv
<1>3. Inv'
  BY <1>1, <1>2, TransactionKeepsInv DEF Inv, TypesAreSound
<1> QED
  BY <1>2, <1>3 DEF Transaction

LEMMA TimePassesKeepsInv ==
    ASSUME Inv, NEW id \in DOMAIN db.rows, TimePasses(id)
    PROVE  Inv' /\ ContractStep(db, db')
<1>1. UNCHANGED <<plan, action, candidate, listed, messages>>
  BY DEF TimePasses
<1>2. db' = [db EXCEPT !.rows[id].over = TRUE]
  BY DEF TimePasses
<1>3. Transaction(db, db', {})
  BY <1>2, TimeIsTransaction DEF Inv
<1>4. Inv'
  BY <1>1, <1>3, TransactionKeepsInv DEF Inv, TypesAreSound
<1> QED
  BY <1>3, <1>4 DEF Transaction

\* A command of a caller, whenever it arrives.
LEMMA MessageKeepsInv ==
    ASSUME Inv, NEW m \in messages, Request(m) \/ Approve(m) \/ Revoke(m)
    PROVE  Inv' /\ ContractStep(db, db')
<1>1. /\ m.actor \in Actors /\ m.key \in Keys /\ m.plan \in Plans
      /\ m.kind # "request" => m.auth \in DOMAIN db.rows
  BY DEF Inv, MessagesAreSound
<1>2. UNCHANGED <<plan, action, candidate, listed, messages>>
  BY DEF Request, Approve, Revoke
<1>3. Sound(db) /\ RequestedIsSound(db)
  BY DEF Inv
<1>4. ASSUME Transaction(db, db', {m.key})
      PROVE  Inv' /\ ContractStep(db, db')
  <2>1. \A s \in listed : AutomaticKey(s) \notin {m.key} /\ AutomaticApproveKey(s) \notin {m.key}
    BY <1>1, ListedKeysDiffer
  <2>2. Inv'
    BY <1>2, <1>4, <2>1, TransactionKeepsInv DEF Inv, TypesAreSound
  <2> QED
    BY <1>4, <2>2 DEF Transaction
<1>5. CASE Request(m)
  <2>1. RequestLiveOk(db, m.plan, m.actor, m.key) /\ db' = RequestLive(db, m.plan, m.actor, m.key).db
    BY <1>5 DEF Request
  <2>2. Transaction(db, db', {m.key})
    BY <1>1, <1>3, <2>1, RequestIsTransaction
  <2> QED
    BY <2>2, <1>4
<1>6. CASE Approve(m)
  <2>1. /\ m.auth \in DOMAIN db.rows
        /\ ApproveLiveOk(db, m.plan, m.auth, m.revision, m.actor, m.key)
        /\ db' = ApproveLive(db, m.plan, m.auth, m.revision, m.actor, m.key)
    BY <1>1, <1>6 DEF Approve
  <2>2. IsCommandKey(db, m.auth, m.key)
    BY <1>1 DEF IsCommandKey
  <2>3. Transaction(db, db', {m.key})
    BY <1>3, <2>1, <2>2, ApproveIsTransaction
  <2> QED
    BY <2>3, <1>4
<1>7. CASE Revoke(m)
  <2>1. /\ m.auth \in DOMAIN db.rows
        /\ RevokeLiveOk(db, m.auth, m.revision, m.actor, m.key)
        /\ db' = RevokeLive(db, m.auth, m.revision, m.actor, m.key)
    BY <1>1, <1>7 DEF Revoke
  <2>2. Transaction(db, db', {m.key})
    BY <1>1, <1>3, <2>1, RevokeIsTransaction
  <2> QED
    BY <2>2, <1>4
<1> QED
  BY <1>5, <1>6, <1>7

LEMMA StopExpiredKeepsInv ==
    ASSUME Inv, NEW a \in Actions, StopExpired(a)
    PROVE  Inv' /\ ContractStep(db, db')
<1>1. /\ UNCHANGED <<plan, action, listed, messages>>
      /\ candidate' = [candidate EXCEPT ![a] = None]
      /\ candidate[a] # None
      /\ db' = Expire(db, candidate[a].auth)
  BY DEF StopExpired
<1>2. candidate[a].auth \in DOMAIN db.rows
  BY <1>1 DEF Inv, ReferencesAreSound, RefersTo
<1>3. Transaction(db, db', {})
  BY <1>1, <1>2, ExpireIsTransaction DEF Inv
<1>4. candidate' \in [Actions -> [auth : Nat, revision : Nat]]
      /\ \A b \in Actions : candidate'[b] \in {candidate[b], None}
  BY <1>1, NoneIsCandidate DEF Inv, TypesAreSound
<1>5. Inv'
  BY <1>1, <1>3, <1>4, TransactionKeepsInv
<1> QED
  BY <1>3, <1>5 DEF Transaction

LEMMA GiveUpKeepsInv ==
    ASSUME Inv, NEW a \in Actions, GiveUp(a)
    PROVE  Inv' /\ ContractStep(db, db')
<1>1. /\ UNCHANGED <<db, plan, action, listed, messages>>
      /\ candidate' = [candidate EXCEPT ![a] = None]
  BY DEF GiveUp
<1>2. Transaction(db, db', {})
  BY <1>1, IdleIsTransaction DEF Inv
<1>3. candidate' \in [Actions -> [auth : Nat, revision : Nat]]
      /\ \A b \in Actions : candidate'[b] \in {candidate[b], None}
  BY <1>1, NoneIsCandidate DEF Inv, TypesAreSound
<1>4. Inv'
  BY <1>1, <1>2, <1>3, TransactionKeepsInv
<1> QED
  BY <1>2, <1>4 DEF Transaction

LEMMA ObserveKeepsInv ==
    ASSUME Inv, NEW a \in Actions, Observe(a)
    PROVE  Inv'
<1>1. UNCHANGED <<db, plan, action, listed, messages>>
  BY DEF Observe
<1>2. PICK id \in DOMAIN db.rows :
          /\ db.rows[id].plan = PlanOf[a]
          /\ candidate' = [candidate EXCEPT ![a] = [auth |-> id, revision |-> db.rows[id].revision]]
  BY DEF Observe
<1>3. id \in Nat /\ db.rows[id].revision \in Nat
  <2>1. id \in Nat /\ db.rows[id] \in Row
    BY DEF Inv, Sound, IsDatabase
  <2> QED
    BY <2>1 DEF Row
<1>4. TypesAreSound'
  BY <1>1, <1>2, <1>3 DEF Inv, TypesAreSound
<1>5. ReferencesAreSound'
  <2>1. SUFFICES ASSUME NEW b \in Actions, candidate'[b] # None
                 PROVE  RefersTo(db, candidate'[b].auth, PlanOf[b])
    BY <1>1 DEF Inv, ReferencesAreSound
  <2>2. CASE b = a
    BY <1>2, <2>2 DEF RefersTo, Inv, TypesAreSound
  <2>3. CASE b # a
    BY <1>2, <2>1, <2>3 DEF Inv, ReferencesAreSound, TypesAreSound
  <2> QED
    BY <2>2, <2>3
<1> QED
  BY <1>1, <1>4, <1>5 DEF Inv, MessagesAreSound, ListedIsSound, EndedAuthorityIsUnused,
                          UnfinishedActions

\* The action is still planned when its attempt begins, so that no authorization
\* of the plan is closed yet; and the authorization was not superseded.
LEMMA BeginAttemptKeepsInv ==
    ASSUME Inv, NEW a \in Actions, BeginAttempt(a)
    PROVE  Inv'
<1>1. /\ UNCHANGED <<db, listed, messages>>
      /\ action' = [action EXCEPT ![a] = [state |-> "dispatching", auth |-> candidate[a].auth]]
      /\ plan' = [plan EXCEPT ![PlanOf[a]] = "executing"]
      /\ candidate' = [candidate EXCEPT ![a] = None]
      /\ candidate[a] # None
      /\ action[a].state = "planned"
      /\ db.rows[candidate[a].auth].state = "authorized"
  BY DEF BeginAttempt, LockValidLiveOk
<1>2. RefersTo(db, candidate[a].auth, PlanOf[a])
  BY <1>1 DEF Inv, ReferencesAreSound
<1>3. candidate[a].auth \in Nat /\ candidate[a].auth # 0
  BY <1>2 DEF RefersTo, Inv, Sound, IsDatabase
<1>4. TypesAreSound'
  BY <1>1, <1>3, NoneIsCandidate, PlanOfAssumption DEF Inv, TypesAreSound
<1>5. ReferencesAreSound'
  <2>1. SUFFICES ASSUME NEW b \in Actions
                 PROVE  /\ action'[b].state = "dispatching" => action'[b].auth # 0
                        /\ action'[b].auth # 0 => RefersTo(db, action'[b].auth, PlanOf[b])
                        /\ candidate'[b] # None => RefersTo(db, candidate'[b].auth, PlanOf[b])
    BY <1>1 DEF ReferencesAreSound
  <2>2. CASE b = a
    BY <1>1, <1>2, <1>3, <2>2 DEF Inv, TypesAreSound
  <2>3. CASE b # a
    BY <1>1, <2>3 DEF Inv, TypesAreSound, ReferencesAreSound
  <2> QED
    BY <2>2, <2>3
<1>6. EndedAuthorityIsUnused'
  <2>1. SUFFICES ASSUME NEW id \in DOMAIN db.rows
                 PROVE  /\ db.rows[id].state = "superseded" => \A b \in Actions : action'[b].auth # id
                        /\ db.rows[id].state = "closed" => UnfinishedActions(db.rows[id].plan)' = {}
    BY <1>1 DEF EndedAuthorityIsUnused, UnfinishedActions
  <2>2. ASSUME db.rows[id].state = "superseded", NEW b \in Actions
        PROVE  action'[b].auth # id
    BY <1>1, <2>2 DEF Inv, TypesAreSound, EndedAuthorityIsUnused
  <2>3. ASSUME db.rows[id].state = "closed"
        PROVE  UnfinishedActions(db.rows[id].plan)' = {}
    <3>1. UnfinishedActions(db.rows[id].plan) = {}
      BY <2>3 DEF Inv, EndedAuthorityIsUnused
    <3>2. db.rows[id].plan # PlanOf[a]
      BY <1>1, <3>1 DEF UnfinishedActions
    <3> QED
      BY <1>1, <3>1, <3>2 DEF UnfinishedActions, Inv, TypesAreSound
  <2> QED
    BY <2>2, <2>3
<1> QED
  BY <1>1, <1>4, <1>5, <1>6 DEF Inv, MessagesAreSound, ListedIsSound

LEMMA TouchedRows ==
    ASSUME NEW d, Sound(d), NEW id \in DOMAIN d.rows, NEW state \in RowStates, NEW e, NEW keys,
           Touches(d, e, id, state, keys)
    PROVE  /\ DOMAIN e.rows = DOMAIN d.rows
           /\ \A j \in DOMAIN d.rows :
                 /\ e.rows[j].plan = d.rows[j].plan
                 /\ \/ e.rows[j].state = d.rows[j].state
                    \/ j = id /\ e.rows[j].state \in {"expired", state}
<1>1. d.rows \in Seq(Row) /\ d.rows[id] \in Row
  BY DEF Sound, IsDatabase
<1>2. ASSUME NEW s \in RowStates, s \in {"expired", state}, Sets(d, e, id, s)
      PROVE  /\ DOMAIN e.rows = DOMAIN d.rows
             /\ \A j \in DOMAIN d.rows :
                   /\ e.rows[j].plan = d.rows[j].plan
                   /\ \/ e.rows[j].state = d.rows[j].state
                      \/ j = id /\ e.rows[j].state \in {"expired", state}
  <2>1. Revised(d.rows[id], s).plan = d.rows[id].plan /\ Revised(d.rows[id], s).state = s
    BY <1>1, RevisedIs
  <2>2. /\ DOMAIN e.rows = DOMAIN d.rows
        /\ e.rows[id] = Revised(d.rows[id], s)
        /\ \A j \in DOMAIN d.rows : j # id => e.rows[j] = d.rows[j]
    BY <1>1, <1>2 DEF Sets
  <2> QED
    BY <1>2, <2>1, <2>2
<1>3. "expired" \in RowStates
  BY DEF RowStates
<1> QED
  BY <1>2, <1>3 DEF Touches

\* A dispatcher that ends attempts refers to no other authorization than before.
LEMMA DispatcherKeepsInv ==
    ASSUME Inv, NEW id \in DOMAIN db.rows, NEW state, Touches(db, db', id, state, {}),
           UNCHANGED <<listed, messages>>, TypesAreSound',
           \A a \in Actions :
               /\ action'[a].auth = action[a].auth
               /\ action'[a].state = "dispatching" => action[a].state = "dispatching"
               /\ candidate'[a] \in {candidate[a], None},
           EndedAuthorityIsUnused'
    PROVE  Inv'
<1>1. /\ Sound(db) /\ Sound(db') /\ Grows(db, db') /\ AddsKeys(db, db', {})
      /\ RequestedIsSound(db')
  BY DEF Inv, Touches
<1>2. IsDatabase(db) /\ IsDatabase(db')
  BY <1>1 DEF Sound
<1>3. \A i, p : RefersTo(db, i, p) => RefersTo(db', i, p)
  BY <1>1, <1>2, RefersRemains DEF RefersTo
<1>4. \A i \in DOMAIN db.rows : i \in DOMAIN db'.rows
  BY <1>1, <1>2, RefersRemains
<1>5. ReferencesAreSound'
  BY <1>3 DEF Inv, ReferencesAreSound
<1>6. MessagesAreSound'
  BY <1>4 DEF Inv, MessagesAreSound
<1>7. ListedIsSound'
  <2>1. ASSUME NEW s \in listed
        PROVE  s.latest \in 0..Len(db'.rows) /\ IsFreshIn(db', s)
    <3>1. s.plan \in Plans /\ s.latest \in 0..Len(db.rows) /\ IsFreshIn(db, s)
      BY <2>1 DEF Inv, ListedIsSound
    <3> QED
      BY <1>1, <2>1, <3>1, FreshRemains
  <2> QED
    BY <2>1 DEF Inv, ListedIsSound
<1> QED
  BY <1>1, <1>5, <1>6, <1>7 DEF Inv

LEMMA SupersedePlanKeepsInv ==
    ASSUME Inv, NEW a \in Actions, SupersedePlan(a)
    PROVE  Inv' /\ ContractStep(db, db')
<1> DEFINE p == PlanOf[a]
           id == candidate[a].auth
<1>1. /\ UNCHANGED <<listed, messages>>
      /\ AttemptedActions(p) = {}
      /\ candidate[a] # None
      /\ plan' = [plan EXCEPT ![p] = "superseded"]
      /\ action' = [b \in Actions |->
            IF b \in PlannedActions(p) THEN [action[b] EXCEPT !.state = "superseded"] ELSE action[b]]
      /\ candidate' = [candidate EXCEPT ![a] = None]
  BY DEF SupersedePlan
<1>2. db' = ChangeLiveState(db, id, "superseded")
  BY DEF SupersedePlan
<1>3. RefersTo(db, id, p) /\ id \in DOMAIN db.rows
  BY <1>1 DEF Inv, ReferencesAreSound, RefersTo
<1>4. Sound(db) /\ "superseded" \in RowStates
  BY DEF Inv, RowStates
<1>5. Touches(db, db', id, "superseded", {})
  BY <1>2, <1>3, <1>4, ChangeLiveStateTouches
<1>6. ContractStep(db, db')
  BY <1>3, <1>4, <1>5, TouchIsContractStep
<1>7. /\ DOMAIN db'.rows = DOMAIN db.rows
      /\ \A j \in DOMAIN db.rows :
            /\ db'.rows[j].plan = db.rows[j].plan
            /\ \/ db'.rows[j].state = db.rows[j].state
               \/ j = id /\ db'.rows[j].state \in {"expired", "superseded"}
  BY <1>3, <1>4, <1>5, TouchedRows
<1>8. \A b \in Actions :
         /\ action'[b] \in [state : {"planned", "dispatching", "terminal", "superseded"}, auth : Nat]
         /\ action'[b].auth = action[b].auth
         /\ action'[b].state = action[b].state \/ action'[b].state = "superseded"
  BY <1>1 DEF Inv, TypesAreSound
<1>9. TypesAreSound'
  <2>1. action' \in [Actions -> [state : {"planned", "dispatching", "terminal", "superseded"}, auth : Nat]]
    BY <1>1, <1>8
  <2> QED
    BY <1>1, <2>1, PlanOfAssumption, NoneIsCandidate DEF Inv, TypesAreSound
<1>10. \A b \in Actions :
          /\ action'[b].auth = action[b].auth
          /\ action'[b].state = "dispatching" => action[b].state = "dispatching"
          /\ candidate'[b] \in {candidate[b], None}
  BY <1>1, <1>8 DEF Inv, TypesAreSound
<1>11. EndedAuthorityIsUnused'
  <2>1. SUFFICES ASSUME NEW j \in DOMAIN db.rows
                 PROVE  /\ db'.rows[j].state = "superseded" => \A b \in Actions : action'[b].auth # j
                        /\ db'.rows[j].state = "closed" => UnfinishedActions(db.rows[j].plan)' = {}
    BY <1>7 DEF EndedAuthorityIsUnused, UnfinishedActions
  <2>2. ASSUME db'.rows[j].state = "superseded", NEW b \in Actions
        PROVE  action'[b].auth # j
    <3>1. CASE db.rows[j].state = "superseded"
      BY <1>8, <3>1 DEF Inv, EndedAuthorityIsUnused
    <3>2. CASE j = id
      <4>1. SUFFICES ASSUME action[b].auth = id PROVE FALSE
        BY <1>8, <3>2
      <4>2. id # 0
        BY <1>3 DEF Inv, Sound, IsDatabase
      <4>3. RefersTo(db, id, PlanOf[b])
        BY <4>1, <4>2 DEF Inv, ReferencesAreSound
      <4>4. PlanOf[b] = p
        BY <1>3, <4>3 DEF RefersTo
      <4> QED
        BY <1>1, <4>1, <4>2, <4>4 DEF AttemptedActions
    <3> QED
      BY <1>7, <2>2, <3>1, <3>2
  <2>3. ASSUME db'.rows[j].state = "closed"
        PROVE  UnfinishedActions(db.rows[j].plan)' = {}
    <3>1. db.rows[j].state = "closed"
      BY <1>7, <2>3
    <3>2. UnfinishedActions(db.rows[j].plan) = {}
      BY <3>1 DEF Inv, EndedAuthorityIsUnused
    <3> QED
      BY <1>7, <1>8, <3>2 DEF UnfinishedActions
  <2> QED
    BY <2>2, <2>3
<1> HIDE DEF id, p
<1>12. Inv'
  BY <1>1, <1>3, <1>5, <1>9, <1>10, <1>11, DispatcherKeepsInv
<1> QED
  BY <1>6, <1>12

\* The transaction that ends the last actions of a plan closes its authorization.
LEMMA CloseWithPlanKeepsInv ==
    ASSUME Inv, NEW p \in Plans, NEW ended \in SUBSET Actions, NEW id, RefersTo(db, id, p),
           CloseWithPlan(p, ended, id), UNCHANGED <<listed, messages>>,
           candidate' \in [Actions -> [auth : Nat, revision : Nat]],
           \A a \in Actions : candidate'[a] \in {candidate[a], None}
    PROVE  Inv' /\ ContractStep(db, db')
<1> DEFINE over == UnfinishedActions(p) \subseteq ended
<1>1. /\ action' = [b \in Actions |->
            IF b \in ended THEN [action[b] EXCEPT !.state = "terminal"] ELSE action[b]]
      /\ plan' = IF over THEN [plan EXCEPT ![p] = "terminal"] ELSE plan
  BY DEF CloseWithPlan
<1>2. db' = IF over THEN ChangeLiveState(db, id, "closed") ELSE db
  BY DEF CloseWithPlan
<1>3. id \in DOMAIN db.rows /\ db.rows[id].plan = p
  BY DEF RefersTo
<1>4. Sound(db) /\ RequestedIsSound(db) /\ "closed" \in RowStates
  BY DEF Inv, RowStates
<1>5. Touches(db, db', id, "closed", {}) /\ (~over => db' = db)
  <2>1. CASE over
    BY <1>2, <1>3, <1>4, <2>1, ChangeLiveStateTouches
  <2>2. CASE ~over
    <3>1. Grows(db, db) /\ AddsKeys(db, db, {})
      BY <1>4, IdleIsTransaction DEF Transaction
    <3> QED
      BY <1>2, <1>4, <2>2, <3>1 DEF Touches
  <2> QED
    BY <2>1, <2>2
<1>6. ContractStep(db, db')
  BY <1>3, <1>4, <1>5, TouchIsContractStep
<1>7. /\ DOMAIN db'.rows = DOMAIN db.rows
      /\ \A j \in DOMAIN db.rows :
            /\ db'.rows[j].plan = db.rows[j].plan
            /\ \/ db'.rows[j].state = db.rows[j].state
               \/ j = id /\ db'.rows[j].state \in {"expired", "closed"}
  BY <1>3, <1>4, <1>5, TouchedRows
<1>8. \A b \in Actions :
         /\ action'[b] \in [state : {"planned", "dispatching", "terminal", "superseded"}, auth : Nat]
         /\ action'[b].auth = action[b].auth
         /\ action'[b].state = action[b].state \/ action'[b].state = "terminal"
         /\ b \in ended => action'[b].state = "terminal"
  BY <1>1 DEF Inv, TypesAreSound
<1>9. TypesAreSound'
  <2>1. action' \in [Actions -> [state : {"planned", "dispatching", "terminal", "superseded"}, auth : Nat]]
    BY <1>1, <1>8
  <2> QED
    BY <1>1, <2>1 DEF Inv, TypesAreSound
<1>10. \A b \in Actions :
          /\ action'[b].auth = action[b].auth
          /\ action'[b].state = "dispatching" => action[b].state = "dispatching"
          /\ candidate'[b] \in {candidate[b], None}
  BY <1>8
<1>11. EndedAuthorityIsUnused'
  <2>1. SUFFICES ASSUME NEW j \in DOMAIN db.rows
                 PROVE  /\ db'.rows[j].state = "superseded" => \A b \in Actions : action'[b].auth # j
                        /\ db'.rows[j].state = "closed" => UnfinishedActions(db.rows[j].plan)' = {}
    BY <1>7 DEF EndedAuthorityIsUnused, UnfinishedActions
  <2>2. ASSUME db'.rows[j].state = "superseded", NEW b \in Actions
        PROVE  action'[b].auth # j
    <3>1. db.rows[j].state = "superseded"
      BY <1>7, <2>2
    <3> QED
      BY <1>8, <3>1 DEF Inv, EndedAuthorityIsUnused
  <2>3. ASSUME db'.rows[j].state = "closed"
        PROVE  UnfinishedActions(db.rows[j].plan)' = {}
    <3>1. CASE db.rows[j].state = "closed"
      <4>1. UnfinishedActions(db.rows[j].plan) = {}
        BY <3>1 DEF Inv, EndedAuthorityIsUnused
      <4> QED
        BY <1>7, <1>8, <4>1 DEF UnfinishedActions
    <3>2. CASE db.rows[j].state # "closed"
      <4>1. j = id /\ over
        BY <1>5, <1>7, <2>3, <3>2
      <4> QED
        BY <1>3, <1>7, <1>8, <4>1 DEF UnfinishedActions
    <3> QED
      BY <3>1, <3>2
  <2> QED
    BY <2>2, <2>3
<1>12. Inv'
  BY <1>3, <1>5, <1>9, <1>10, <1>11, DispatcherKeepsInv
<1> QED
  BY <1>6, <1>12

LEMMA AbortPlanKeepsInv ==
    ASSUME Inv, NEW a \in Actions, AbortPlan(a)
    PROVE  Inv' /\ ContractStep(db, db')
<1>1. /\ UNCHANGED <<listed, messages>>
      /\ CloseWithPlan(PlanOf[a], PlannedActions(PlanOf[a]), candidate[a].auth)
      /\ candidate[a] # None
      /\ candidate' = [candidate EXCEPT ![a] = None]
  BY DEF AbortPlan
<1>2. RefersTo(db, candidate[a].auth, PlanOf[a])
  BY <1>1 DEF Inv, ReferencesAreSound
<1>3. PlanOf[a] \in Plans /\ PlannedActions(PlanOf[a]) \in SUBSET Actions
  BY PlanOfAssumption DEF PlannedActions
<1>4. candidate' \in [Actions -> [auth : Nat, revision : Nat]]
      /\ \A b \in Actions : candidate'[b] \in {candidate[b], None}
  BY <1>1, NoneIsCandidate DEF Inv, TypesAreSound
<1> QED
  BY <1>1, <1>2, <1>3, <1>4, CloseWithPlanKeepsInv

LEMMA FinishAttemptKeepsInv ==
    ASSUME Inv, NEW a \in Actions, FinishAttempt(a)
    PROVE  Inv' /\ ContractStep(db, db')
<1>1. /\ UNCHANGED <<candidate, listed, messages>>
      /\ CloseWithPlan(PlanOf[a], {a}, action[a].auth)
      /\ action[a].state = "dispatching"
  BY DEF FinishAttempt
<1>2. RefersTo(db, action[a].auth, PlanOf[a])
  BY <1>1 DEF Inv, ReferencesAreSound
<1>3. PlanOf[a] \in Plans /\ {a} \in SUBSET Actions
  BY PlanOfAssumption
<1>4. candidate' \in [Actions -> [auth : Nat, revision : Nat]]
      /\ \A b \in Actions : candidate'[b] \in {candidate[b], None}
  BY <1>1 DEF Inv, TypesAreSound
<1> QED
  BY <1>1, <1>2, <1>3, <1>4, CloseWithPlanKeepsInv

LEMMA NextKeepsInv == Inv /\ [Next]_vars => Inv' /\ ContractStep(db, db')
<1> SUFFICES ASSUME Inv, [Next]_vars
             PROVE  Inv' /\ ContractStep(db, db')
  OBVIOUS
<1>1. ContractStep(db, db)
  BY DEF ContractStep, SameGrants
<1>2. ASSUME NEW p \in Plans, ListPlan(p)
      PROVE  Inv' /\ ContractStep(db, db')
  BY <1>1, <1>2, ListPlanKeepsInv DEF ListPlan
<1>3. ASSUME NEW s \in listed, AuthorizePlan(s) \/ AuthorizeFails(s)
      PROVE  Inv' /\ ContractStep(db, db')
  BY <1>3, AuthorizePlanKeepsInv, AuthorizeFailsKeepsInv
<1>4. ASSUME NEW id \in DOMAIN db.rows, TimePasses(id)
      PROVE  Inv' /\ ContractStep(db, db')
  BY <1>4, TimePassesKeepsInv
<1>5. ASSUME NEW kind \in {"request", "approve", "revoke"}, NEW actor \in Actors,
             NEW key \in Keys, Issue(kind, actor, key)
      PROVE  Inv' /\ ContractStep(db, db')
  <2>1. db' = db
    BY <1>5 DEF Issue
  <2> QED
    BY <1>1, <1>5, <2>1, IssueKeepsInv
<1>6. ASSUME NEW m \in messages, Request(m) \/ Approve(m) \/ Revoke(m)
      PROVE  Inv' /\ ContractStep(db, db')
  BY <1>6, MessageKeepsInv
<1>7. ASSUME NEW a \in Actions, Observe(a)
      PROVE  Inv' /\ ContractStep(db, db')
  BY <1>1, <1>7, ObserveKeepsInv DEF Observe
<1>8. ASSUME NEW a \in Actions, BeginAttempt(a)
      PROVE  Inv' /\ ContractStep(db, db')
  BY <1>1, <1>8, BeginAttemptKeepsInv DEF BeginAttempt
<1>9. ASSUME NEW a \in Actions, StopExpired(a) \/ GiveUp(a)
      PROVE  Inv' /\ ContractStep(db, db')
  BY <1>9, StopExpiredKeepsInv, GiveUpKeepsInv
<1>10. ASSUME NEW a \in Actions, SupersedePlan(a) \/ AbortPlan(a) \/ FinishAttempt(a)
       PROVE  Inv' /\ ContractStep(db, db')
  BY <1>10, SupersedePlanKeepsInv, AbortPlanKeepsInv, FinishAttemptKeepsInv
<1>11. CASE UNCHANGED vars
  BY <1>1, <1>11 DEF vars, Inv, TypesAreSound, ReferencesAreSound, MessagesAreSound,
                     ListedIsSound, EndedAuthorityIsUnused, UnfinishedActions
<1> QED
  BY <1>2, <1>3, <1>4, <1>5, <1>6, <1>7, <1>8, <1>9, <1>10, <1>11 DEF Next

\* The invariant.
THEOREM InvHolds == Spec => []Inv
<1>1. Init => Inv
  BY InitIsSound
<1>2. Inv /\ [Next]_vars => Inv'
  BY NextKeepsInv
<1> QED
  BY <1>1, <1>2, PTL DEF Spec

-----------------------------------------------------------------------------
(* The properties.                                                          *)

\* The journal of commands explains every authorization: each revision was made
\* by one command with a key of its own, and a pass never meets a key of its own.
THEOREM JournalStaysSound == Spec => []CommandJournalIsSound
<1>1. Inv => CommandJournalIsSound
  <2> SUFFICES ASSUME Inv PROVE CommandJournalIsSound
    OBVIOUS
  <2>1. /\ IsDatabase(db) /\ KeysAreUnique(db) /\ EffectsAreSound(db) /\ CommandsAreSound(db)
        /\ db.rows \in Seq(Row) /\ Len(db.rows) \in Nat
    BY DEF Inv, Sound, IsDatabase
  <2>2. TypeOK
    <3>1. \A c \in db.commands : c.auth \in DOMAIN db.rows
      BY <2>1 DEF CommandsAreSound, CommandIsSound
    <3>2. ASSUME NEW a \in Actions
          PROVE  /\ action[a].state \in {"planned", "dispatching", "terminal", "superseded"}
                 /\ action[a].auth \in 0..Len(db.rows)
                 /\ candidate[a].auth \in 0..Len(db.rows)
      <4>1. action[a].auth # 0 => action[a].auth \in 1..Len(db.rows)
        BY <2>1 DEF Inv, ReferencesAreSound, RefersTo
      <4>2. candidate[a] # None => candidate[a].auth \in 1..Len(db.rows)
        BY <2>1 DEF Inv, ReferencesAreSound, RefersTo
      <4>3. None.auth = 0
        BY DEF None
      <4> QED
        BY <2>1, <4>1, <4>2, <4>3 DEF Inv, TypesAreSound
    <3> QED
      BY <2>1, <3>1, <3>2 DEF TypeOK, Inv, TypesAreSound, Row
  <2>3. EffectsAreJournaledOnce
    <3>1. \A id : Effects(id) = EffectsOf(db, id)
      BY DEF Effects, EffectsOf
    <3> QED
      BY <2>1, <3>1 DEF EffectsAreJournaledOnce, KeysAreUnique, EffectsAreSound
  <2>4. AutomaticKeyIsFresh
    <3>1. ASSUME NEW s \in listed
          PROVE  \/ RequestedByCaller(s.plan)
                 \/ ~IsKnown(db, AutomaticKey(s)) /\ ~IsKnown(db, AutomaticApproveKey(s))
      <4>1. IsFreshIn(db, s)
        BY DEF Inv, ListedIsSound
      <4>2. ByCaller(db, s.plan) => RequestedByCaller(s.plan)
        BY DEF ByCaller, RequestedByCaller
      <4> QED
        BY <4>1, <4>2 DEF IsFreshIn
    <3> QED
      BY <3>1 DEF AutomaticKeyIsFresh
  <2> QED
    BY <2>2, <2>3, <2>4 DEF CommandJournalIsSound
<1> QED
  BY <1>1, InvHolds, PTL

\* An attempt begins only under an authorization in force, and an authorization is
\* superseded or closed only when nothing relies on it.
THEOREM AuthorityStaysInForce == Spec => AuthorityIsInForce
<1> DEFINE InForce ==
        \A a \in Actions :
            (action[a].state = "planned" /\ action'[a].state = "dispatching") =>
                LET row == db.rows[action'[a].auth] IN
                /\ row.plan = PlanOf[a]
                /\ row.state = "authorized"
                /\ ~row.over
<1>1. ASSUME Inv, Next
      PROVE  InForce
  <2>1. SUFFICES ASSUME NEW a \in Actions, action[a].state = "planned",
                        action'[a].state = "dispatching"
                 PROVE  /\ db.rows[action'[a].auth].plan = PlanOf[a]
                        /\ db.rows[action'[a].auth].state = "authorized"
                        /\ ~db.rows[action'[a].auth].over
    OBVIOUS
  <2>2. ASSUME NEW b \in Actions, BeginAttempt(b)
        PROVE  /\ db.rows[action'[a].auth].plan = PlanOf[a]
               /\ db.rows[action'[a].auth].state = "authorized"
               /\ ~db.rows[action'[a].auth].over
    <3>1. /\ action' = [action EXCEPT ![b] = [state |-> "dispatching", auth |-> candidate[b].auth]]
          /\ candidate[b] # None
          /\ ~IsOverdue(db, candidate[b].auth)
          /\ db.rows[candidate[b].auth].state = "authorized"
      BY <2>2 DEF BeginAttempt, LockValidLiveOk
    <3>2. b = a /\ action'[a].auth = candidate[a].auth
      BY <1>1, <2>1, <3>1 DEF Inv, TypesAreSound
    <3>3. RefersTo(db, candidate[a].auth, PlanOf[a])
      BY <1>1, <3>1, <3>2 DEF Inv, ReferencesAreSound
    <3> QED
      BY <3>1, <3>2, <3>3 DEF RefersTo, IsOverdue, IsOpen, OpenStates
  <2>3. ASSUME NEW b \in Actions, SupersedePlan(b)
        PROVE  FALSE
    <3>1. action'[a] = IF a \in PlannedActions(PlanOf[b]) THEN [action[a] EXCEPT !.state = "superseded"]
                       ELSE action[a]
      BY <2>3 DEF SupersedePlan
    <3>2. action[a].state = "planned" /\ action[a] \in
             [state : {"planned", "dispatching", "terminal", "superseded"}, auth : Nat]
      BY <1>1, <2>1 DEF Inv, TypesAreSound
    <3> QED
      BY <2>1, <3>1, <3>2
  <2>4. ASSUME NEW p, NEW ended, NEW id, CloseWithPlan(p, ended, id)
        PROVE  FALSE
    <3>1. action'[a] = IF a \in ended THEN [action[a] EXCEPT !.state = "terminal"] ELSE action[a]
      BY <2>4 DEF CloseWithPlan
    <3>2. action[a].state = "planned" /\ action[a] \in
             [state : {"planned", "dispatching", "terminal", "superseded"}, auth : Nat]
      BY <1>1, <2>1 DEF Inv, TypesAreSound
    <3> QED
      BY <2>1, <3>1, <3>2
  <2>5. action' # action
    BY <2>1
  <2> QED
    BY <1>1, <2>2, <2>3, <2>4, <2>5 DEF Next, ListPlan, AuthorizePlan, AuthorizeFails, TimePasses,
        Issue, Request, Approve, Revoke, Observe, StopExpired, GiveUp, AbortPlan, FinishAttempt
<1>2. Inv => EndedAuthorityIsUnused
  BY DEF Inv
<1>3. Inv /\ [Next]_vars => [InForce]_vars
  BY <1>1
<1> QED
  BY <1>2, <1>3, InvHolds, PTL DEF Spec, AuthorityIsInForce, AttemptsAreAuthorized


-----------------------------------------------------------------------------
(* The refinement: every transaction is a step of the contract.             *)

GrantOf(row) == [plan |-> row.plan, state |-> row.state]

GrantsOf(d) == [id \in DOMAIN d.rows |-> GrantOf(d.rows[id])]

LEMMA GrantsAreASequence ==
    ASSUME NEW d, IsDatabase(d)
    PROVE  /\ DOMAIN d.rows = 1..Len(d.rows)
           /\ Len(d.rows) \in Nat
           /\ GrantsOf(d) \in [1..Len(d.rows) -> [plan : Plans, state : RowStates]]
           /\ GrantsOf(d) \in Seq([plan : Plans, state : RowStates])
           /\ Len(GrantsOf(d)) = Len(d.rows)
           /\ DOMAIN GrantsOf(d) = DOMAIN d.rows
           /\ \A id \in DOMAIN d.rows : GrantsOf(d)[id] = GrantOf(d.rows[id])
<1>1. d.rows \in Seq(Row) /\ DOMAIN d.rows = 1..Len(d.rows) /\ Len(d.rows) \in Nat
  BY DEF IsDatabase
<1>2. \A id \in DOMAIN d.rows : d.rows[id] \in Row
  BY <1>1
<1>3. \A id \in 1..Len(d.rows) : GrantOf(d.rows[id]) \in [plan : Plans, state : RowStates]
  BY <1>1, <1>2 DEF Row, GrantOf
<1>4. GrantsOf(d) \in [1..Len(d.rows) -> [plan : Plans, state : RowStates]]
  BY <1>1, <1>3 DEF GrantsOf
<1>5. GrantsOf(d) \in Seq([plan : Plans, state : RowStates])
  <2> DEFINE Grant == [plan : Plans, state : RowStates]
  <2>1. \E n \in Nat : GrantsOf(d) \in [1..n -> Grant]
    BY <1>1, <1>4
  <2> HIDE DEF Grant
  <2>2. GrantsOf(d) \in Seq(Grant)
    BY <2>1, SeqDef
  <2> QED
    BY <2>2 DEF Grant
<1>6. DOMAIN GrantsOf(d) = DOMAIN d.rows
      /\ \A id \in DOMAIN d.rows : GrantsOf(d)[id] = GrantOf(d.rows[id])
  BY DEF GrantsOf
<1>7. Len(GrantsOf(d)) = Len(d.rows)
  BY <1>1, <1>5, <1>6
<1> QED
  BY <1>1, <1>4, <1>5, <1>6, <1>7

\* One row that takes another state is one grant that takes it.
LEMMA GrantTakesState ==
    ASSUME NEW d, NEW e, IsDatabase(d), NEW id \in DOMAIN d.rows, NEW state \in RowStates,
           Sets(d, e, id, state)
    PROVE  GrantsOf(e) = [GrantsOf(d) EXCEPT ![id].state = state]
<1>1. d.rows \in Seq(Row) /\ d.rows[id] \in Row
  BY DEF IsDatabase
<1>2. GrantOf(Revised(d.rows[id], state)) = [GrantOf(d.rows[id]) EXCEPT !.state = state]
  BY <1>1, RevisedIs DEF GrantOf
<1>3. /\ DOMAIN e.rows = DOMAIN d.rows
      /\ e.rows[id] = Revised(d.rows[id], state)
      /\ \A i \in DOMAIN d.rows : i # id => e.rows[i] = d.rows[i]
  BY <1>1 DEF Sets
<1>4. ASSUME NEW i \in DOMAIN d.rows
      PROVE  GrantOf(e.rows[i]) = IF i = id THEN [GrantOf(d.rows[id]) EXCEPT !.state = state]
                                  ELSE GrantOf(d.rows[i])
  BY <1>2, <1>3
<1>5. GrantsOf(e) = [i \in DOMAIN d.rows |->
                       IF i = id THEN [GrantOf(d.rows[id]) EXCEPT !.state = state]
                       ELSE GrantOf(d.rows[i])]
  BY <1>3, <1>4 DEF GrantsOf
<1>6. DOMAIN GrantsOf(d) = DOMAIN d.rows
      /\ \A i \in DOMAIN d.rows : GrantsOf(d)[i] = GrantOf(d.rows[i])
  BY DEF GrantsOf
<1> HIDE DEF GrantsOf, GrantOf
<1> QED
  BY <1>5, <1>6

\* The steps of the contract, between two sequences of grants.
Ends(g, h) ==
    \E id \in DOMAIN g, state \in {"revoked", "expired", "superseded", "closed"} :
        g[id].state \in OpenStates /\ h = [g EXCEPT ![id].state = state]

Approves(g, h) ==
    \E id \in DOMAIN g :
        g[id].state = "requested" /\ h = [g EXCEPT ![id].state = "authorized"]

OpensAnew(g, h) ==
    \E p \in Plans, state \in OpenStates :
        h = Append([id \in DOMAIN g |->
                      IF g[id].plan = p /\ g[id].state \in OpenStates
                      THEN [g[id] EXCEPT !.state = "expired"]
                      ELSE g[id]],
                   [plan |-> p, state |-> state])

LEMMA StepOfContract ==
    ASSUME NEW d, NEW e, IsDatabase(d), IsDatabase(e), ContractStep(d, e)
    PROVE  \/ GrantsOf(e) = GrantsOf(d)
           \/ Ends(GrantsOf(d), GrantsOf(e))
           \/ Approves(GrantsOf(d), GrantsOf(e))
           \/ OpensAnew(GrantsOf(d), GrantsOf(e))
<1>1. /\ DOMAIN GrantsOf(d) = DOMAIN d.rows
      /\ \A id \in DOMAIN d.rows : GrantsOf(d)[id] = GrantOf(d.rows[id])
      /\ \A id \in DOMAIN d.rows : GrantOf(d.rows[id]).plan = d.rows[id].plan
      /\ \A id \in DOMAIN d.rows : GrantOf(d.rows[id]).state = d.rows[id].state
  BY DEF GrantsOf, GrantOf
<1>2. CASE SameGrants(d, e)
  <2>1. GrantsOf(e) = GrantsOf(d)
    BY <1>2 DEF SameGrants, GrantsOf, GrantOf
  <2> QED
    BY <2>1
<1>3. CASE EndsGrant(d, e)
  <2>1. PICK id \in DOMAIN d.rows, state \in {"revoked", "expired", "superseded", "closed"} :
            IsOpen(d, id) /\ Sets(d, e, id, state)
    BY <1>3 DEF EndsGrant
  <2>2. GrantsOf(e) = [GrantsOf(d) EXCEPT ![id].state = state]
    BY <2>1, GrantTakesState DEF RowStates
  <2>3. id \in DOMAIN GrantsOf(d) /\ GrantsOf(d)[id].state \in OpenStates
    BY <1>1, <2>1 DEF IsOpen
  <2> QED
    BY <2>2, <2>3 DEF Ends
<1>4. CASE ApprovesGrant(d, e)
  <2>1. PICK id \in DOMAIN d.rows :
            d.rows[id].state = "requested" /\ Sets(d, e, id, "authorized")
    BY <1>4 DEF ApprovesGrant
  <2>2. GrantsOf(e) = [GrantsOf(d) EXCEPT ![id].state = "authorized"]
    BY <2>1, GrantTakesState DEF RowStates, OpenStates
  <2>3. id \in DOMAIN GrantsOf(d) /\ GrantsOf(d)[id].state = "requested"
    BY <1>1, <2>1
  <2> QED
    BY <2>2, <2>3 DEF Approves
<1>5. CASE OpensGrant(d, e)
  <2>1. PICK p \in Plans, state \in OpenStates :
            /\ DOMAIN e.rows = DOMAIN d.rows \cup {Len(d.rows) + 1}
            /\ Len(e.rows) = Len(d.rows) + 1
            /\ e.rows[Len(d.rows) + 1].plan = p
            /\ e.rows[Len(d.rows) + 1].state = state
            /\ \A id \in DOMAIN d.rows :
                  /\ e.rows[id].plan = d.rows[id].plan
                  /\ e.rows[id].state = IF id \in OpenRows(d, p) THEN "expired"
                                        ELSE d.rows[id].state
    BY <1>5 DEF OpensGrant
  <2> DEFINE n == Len(d.rows)
             new == [plan |-> p, state |-> state]
             before == [g \in DOMAIN GrantsOf(d) |->
                          IF GrantsOf(d)[g].plan = p /\ GrantsOf(d)[g].state \in OpenStates
                          THEN [GrantsOf(d)[g] EXCEPT !.state = "expired"]
                          ELSE GrantsOf(d)[g]]
  <2>2. DOMAIN d.rows = 1..n /\ n \in Nat /\ n + 1 \notin DOMAIN d.rows
    BY GrantsAreASequence
  <2>3. GrantOf(e.rows[n + 1]) = new
    BY <2>1 DEF GrantOf
  <2>4. ASSUME NEW g \in DOMAIN d.rows
        PROVE  GrantOf(e.rows[g]) = before[g]
    <3>1. g \in OpenRows(d, p)
            <=> GrantsOf(d)[g].plan = p /\ GrantsOf(d)[g].state \in OpenStates
      BY <1>1 DEF OpenRows, IsOpen
    <3>2. GrantsOf(d)[g] = [plan |-> d.rows[g].plan, state |-> d.rows[g].state]
      BY <1>1 DEF GrantOf
    <3>3. [GrantsOf(d)[g] EXCEPT !.state = "expired"] = [plan |-> d.rows[g].plan, state |-> "expired"]
      BY <3>2
    <3>4. before[g] = IF g \in OpenRows(d, p) THEN [GrantsOf(d)[g] EXCEPT !.state = "expired"]
                      ELSE GrantsOf(d)[g]
      BY <1>1, <3>1
    <3>5. GrantOf(e.rows[g]) = [plan |-> d.rows[g].plan,
                                state |-> IF g \in OpenRows(d, p) THEN "expired"
                                          ELSE d.rows[g].state]
      BY <2>1 DEF GrantOf
    <3> QED
      BY <3>2, <3>3, <3>4, <3>5
  <2>5. /\ DOMAIN before = 1..n
        /\ before \in Seq([plan : Plans, state : RowStates])
        /\ Len(before) = n
    <3>1. GrantsOf(d) \in [1..n -> [plan : Plans, state : RowStates]]
      BY GrantsAreASequence, <2>2
    <3>2. before \in [1..n -> [plan : Plans, state : RowStates]]
      BY <3>1 DEF RowStates
    <3> QED
      BY <2>2, <3>2
  <2>6. GrantsOf(e) = [g \in 1..(n + 1) |-> IF g = n + 1 THEN new ELSE before[g]]
    <3>1. DOMAIN e.rows = 1..(n + 1)
      BY <2>1, <2>2
    <3>2. \A g \in 1..(n + 1) : g \in DOMAIN d.rows \/ g = n + 1
      BY <2>2
    <3> HIDE DEF before, new
    <3> QED
      BY <2>2, <2>3, <2>4, <3>1, <3>2 DEF GrantsOf
  <2>7. GrantsOf(e) = Append(before, new)
    <3>1. new \in [plan : Plans, state : RowStates]
      BY DEF RowStates
    <3> HIDE DEF before, new
    <3>2. /\ Append(before, new) \in Seq([plan : Plans, state : RowStates])
          /\ Len(Append(before, new)) = n + 1
          /\ \A i \in 1..n : Append(before, new)[i] = before[i]
          /\ Append(before, new)[n + 1] = new
      BY <2>5, <3>1, AppendProperties
    <3>3. /\ Len(GrantsOf(e)) = n + 1
          /\ GrantsOf(e) \in Seq([plan : Plans, state : RowStates])
      BY <2>1, GrantsAreASequence
    <3>4. ASSUME NEW i \in 1..(n + 1)
          PROVE  GrantsOf(e)[i] = Append(before, new)[i]
      <4>1. i \in 1..n \/ i = n + 1
        BY <2>2
      <4>2. n + 1 \notin 1..n
        BY <2>2
      <4> QED
        BY <2>6, <3>2, <4>1, <4>2
    <3> QED
      BY <3>2, <3>3, <3>4, SeqEqual
  <2> QED
    BY <2>7 DEF OpensAnew
<1> QED
  BY <1>2, <1>3, <1>4, <1>5 DEF ContractStep

\* The commands, passes and expiries of the live authorizations keep the promise
\* that the dispatchers rely on: authority to publish a plan is granted in
\* episodes that do not overlap, become effective once and never reopen.
THEOREM ContractIsImplemented == Spec => ImplementsContract
<1>1. Grants = GrantsOf(db) /\ Grants' = GrantsOf(db')
  BY DEF Grants, GrantsOf, GrantOf
<1>2. Init => Contract!Init
  <2> SUFFICES ASSUME Init PROVE Grants = <<>>
    BY DEF Contract!Init
  <2>1. db.rows = <<>>
    BY DEF Init
  <2> QED
    BY <2>1 DEF Grants
<1>3. Inv /\ [Next]_vars => [Contract!Next]_Grants
  <2> SUFFICES ASSUME Inv, Inv', ContractStep(db, db')
               PROVE  [Contract!Next]_Grants
    BY NextKeepsInv
  <2>1. IsDatabase(db) /\ IsDatabase(db')
    BY DEF Inv, Sound
  <2>2. OpenStates = Contract!OpenGrants
        /\ Contract!EndedGrants = {"revoked", "expired", "superseded", "closed"}
    BY DEF OpenStates, Contract!OpenGrants, Contract!EndedGrants
  <2>3. CASE Grants' = Grants
    BY <2>3
  <2>4. CASE Ends(Grants, Grants')
    BY <2>2, <2>4 DEF Ends, Contract!Next, Contract!End
  <2>5. CASE Approves(Grants, Grants')
    BY <2>5 DEF Approves, Contract!Next, Contract!Approve
  <2>6. CASE OpensAnew(Grants, Grants')
    BY <2>2, <2>6 DEF OpensAnew, Contract!Next, Contract!Open, Contract!IsOpenFor
  <2>7. GrantsOf(db) = Grants /\ GrantsOf(db') = Grants'
    BY <1>1
  <2> QED
    BY <2>1, <2>3, <2>4, <2>5, <2>6, <2>7, StepOfContract
<1> QED
  BY <1>2, <1>3, InvHolds, PTL DEF Spec, ImplementsContract, Contract!Spec
=============================================================================
