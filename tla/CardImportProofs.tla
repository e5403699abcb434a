-------------------------- MODULE CardImportProofs --------------------------
(***************************************************************************)
(* Whatever the order of uploads, scans, attempts, restarts and presses of *)
(* old buttons, the recovery map, its channel and its workers agree, what  *)
(* is finalized is what was confirmed and holds no error, and nothing but  *)
(* what the user asked for changes the cards.                              *)
(***************************************************************************)
EXTENDS CardImport, FiniteSetTheorems, WellFoundedInduction, TLAPS

-----------------------------------------------------------------------------
(* The recovery scheduler.                                                 *)

\* The statuses a job can be queued with; the other one, 'none', is of no file.
JobStatuses == (FileStatuses \ {"none"}) \cup {"parsing_recently"}

Steps == {"download", "claim", "save", "conflict", "done"}

Work == [step : Steps, file : Files]

Listed == [file : Files, status : {"reserved", "stored", "parsing", "invalid"}]

SchedulerOk ==
    /\ recovery \in [Files -> [job : JobStatuses \cup {"none"}, queued : BOOLEAN,
                               running : BOOLEAN]]
    /\ queue \in Seq(Files) /\ Len(queue) <= QueueLimit
    /\ \A l \in listing : l \in Listed
    /\ worker \in [Workers -> Work \cup {Idle}]
    /\ version \in Versions

Holds(w, f) == worker[w] # Idle /\ worker[w].file = f

\* The map says of each file what the channel and the workers say.
QueueAgrees ==
    /\ \A i, j \in 1..Len(queue) : queue[i] = queue[j] => i = j
    /\ \A f \in Files : recovery[f].queued <=> \E i \in 1..Len(queue) : queue[i] = f
    /\ \A f \in Files : recovery[f].queued => recovery[f].job # "none"

HoldersAgree ==
    /\ \A w, u \in Workers, f \in Files : Holds(w, f) /\ Holds(u, f) => w = u
    /\ \A f \in Files : recovery[f].running <=> \E w \in Workers : Holds(w, f)
    /\ \A f \in Files : ~(recovery[f].queued /\ recovery[f].running)

-----------------------------------------------------------------------------
(* The tables.                                                             *)

SessionStatuses == {"none", "collecting", "cancelled", "finalized"}

SessionRow(b) == [status : SessionStatuses, revision : 0..MaxRevision + 1, batch : {b}]

FileRow == [status : FileStatuses, stale : BOOLEAN, old : BOOLEAN]

TablesOk ==
    /\ DOMAIN session = Sessions
    /\ \A s \in Sessions :
        /\ session[s] \in SessionRow(session[s].batch)
        /\ session[s].status \in {"none", "collecting"} => session[s].revision <= MaxRevision
    /\ file \in [Files -> FileRow]
    /\ DOMAIN items = Files
    /\ DOMAIN issues = Files
    /\ DOMAIN cross = Sessions

\* An error of the file is about the card.
Blames(found, c) == \E i \in found : i.row = 0 \/ i.row \in c.rows

\* The card is what the document says of its vendor code, without an error.
SaidBy(f, c, v) ==
    LET parsed == Parse(f[2], v)
    IN  /\ \E row \in ToSet(parsed.rows) : row.vendor = c.vendor
        /\ c = CardOfVendor(parsed, c.vendor)
        /\ ~Blames(ParsedAs(f, v).issues, c)

\* Cards of one file that can be confirmed together.
Apart(c, d) == c.vendor # d.vendor /\ Barcodes(c) \cap Barcodes(d) = {}

FitToConfirm(f, cards, found) ==
    /\ cards # {}
    /\ found = {}
    /\ \A c \in cards : ~RepeatsBarcode(c) /\ \E v \in Versions : SaidBy(f, c, v)
    /\ \A c, d \in cards : c # d => Apart(c, d)

IsOutcomeOf(f, v, cards, found) ==
    /\ cards = ToSet(ParsedAs(f, v).cards)
    /\ found = ParsedAs(f, v).issues

\* What a status says of the cards and the errors of its file.
ResultOk(f, status, cards, found) ==
    /\ status \in {"none", "reserved", "stored"} => cards = {} /\ found = {}
    /\ status = "valid" => FitToConfirm(f, cards, found)
    /\ status = "invalid" => \E v \in Versions : IsOutcomeOf(f, v, cards, found)
    /\ status = "abandoned" /\ IsCollecting(f[1]) => cards = {} /\ found = {}

\* What is frozen holds no card twice and none with an error.
CleanBatch(cards) ==
    /\ \A x, y \in cards : x # y => Apart(x[2], y[2])
    /\ \A x \in cards : \E v \in Versions : SaidBy(x[1], x[2], v)

\* A session's files hold what their statuses say, and its other tables hold
\* what follows from its files.
SessionOk(s) ==
    /\ session[s].status = "none" =>
        \A f \in FilesOf(s) : file[f].status = "none"
    /\ \A f \in FilesOf(s) : ResultOk(f, file[f].status, items[f], issues[f])
    /\ session[s].status = "none" => cross[s] = {}
    /\ IsCollecting(s) => cross[s] = CrossFileIssues(s, items)
    /\ session[s].batch.cards = session[s].batch.confirmed
    /\ session[s].status = "finalized" => CleanBatch(session[s].batch.cards)

\* The session row that a screen will show is not newer than the table.
ReadingOk ==
    \/ reading = NotReading
    \/ /\ reading.session \in Sessions
       /\ reading.revision \in 0..session[reading.session].revision

\* An offer that is still current shows the cards of the table.
ScreenOk ==
    \/ screen = NoButton
    \/ /\ screen.session \in Sessions
       /\ screen.revision \in 0..session[screen.session].revision
       /\ screen.press = "finalize" /\ session[screen.session].revision = screen.revision =>
            screen.cards = SourcedCards(screen.session, items)

Inv ==
    /\ SchedulerOk /\ QueueAgrees /\ HoldersAgree
    /\ TablesOk
    /\ \A s \in Sessions : SessionOk(s)
    /\ ReadingOk /\ ScreenOk

-----------------------------------------------------------------------------
LEMMA FileIsPair ==
    /\ \A s \in Sessions, d \in Documents : <<s, d>> \in Files
    /\ \A f \in Files : f[1] \in Sessions /\ f[2] \in Documents
BY DEF Files

LEMMA IdleIsNoWork ==
    /\ Idle \notin Work
    /\ \A r \in Work : r.step \in Steps /\ r.file \in Files
<1>1. Idle.step = "idle" /\ "idle" \notin Steps
  BY DEF Idle, Steps
<1>2. \A r \in Work : r.step \in Steps /\ r.file \in Files
  BY DEF Work
<1>3. QED
  BY <1>1, <1>2

\* What Enqueue does to the map and the channel keeps them in agreement.
LEMMA EnqueueKeeps ==
    ASSUME SchedulerOk, QueueAgrees, HoldersAgree,
           NEW f \in Files, NEW status \in JobStatuses,
           Enqueue(f, status), worker' = worker
    PROVE  /\ recovery' \in [Files -> [job : JobStatuses \cup {"none"}, queued : BOOLEAN,
                                       running : BOOLEAN]]
           /\ queue' \in Seq(Files) /\ Len(queue') <= QueueLimit
           /\ QueueAgrees' /\ HoldersAgree'
<1> USE DEF SchedulerOk
<1>0. QueueLimit \in Nat
  BY ImportAssumption
<1> DEFINE wanted == ~recovery[f].queued /\ ~recovery[f].running
           fits == Len(queue) < QueueLimit
<1>1. /\ recovery' \in [Files -> [job : JobStatuses \cup {"none"}, queued : BOOLEAN,
                                  running : BOOLEAN]]
      /\ \A g \in Files \ {f} : recovery'[g] = recovery[g]
      /\ recovery'[f].job = status
      /\ recovery'[f].queued <=> recovery[f].queued \/ (wanted /\ fits)
      /\ recovery'[f].running = recovery[f].running
  <2>1. recovery[f] \in [job : JobStatuses \cup {"none"}, queued : BOOLEAN, running : BOOLEAN]
    OBVIOUS
  <2>2. PICK r : r = [recovery[f] EXCEPT !.job = status]
    OBVIOUS
  <2>3. /\ r \in [job : JobStatuses \cup {"none"}, queued : BOOLEAN, running : BOOLEAN]
        /\ r.job = status /\ r.queued = recovery[f].queued /\ r.running = recovery[f].running
    BY <2>1, <2>2
  <2>4. PICK q : q = [r EXCEPT !.queued = @ \/ (wanted /\ fits)]
    OBVIOUS
  <2>5. /\ q \in [job : JobStatuses \cup {"none"}, queued : BOOLEAN, running : BOOLEAN]
        /\ q.job = status /\ (q.queued <=> recovery[f].queued \/ (wanted /\ fits))
        /\ q.running = recovery[f].running
    BY <2>3, <2>4
  <2>6. recovery' = [recovery EXCEPT ![f] = q]
    BY <2>2, <2>4 DEF Enqueue
  <2>7. QED
    BY <2>5, <2>6
<1>2. /\ wanted /\ fits => queue' = Append(queue, f)
      /\ ~(wanted /\ fits) => queue' = queue
  BY DEF Enqueue
<1>3. queue' \in Seq(Files) /\ Len(queue') <= QueueLimit
  BY <1>0, <1>2
<1>4. HoldersAgree'
  <2>1. \A w, g : Holds(w, g)' <=> Holds(w, g)
    BY DEF Holds
  <2>2. \A g \in Files : recovery'[g].running = recovery[g].running
    BY <1>1
  <2>3. \A g \in Files : ~(recovery'[g].queued /\ recovery'[g].running)
    BY <1>1 DEF HoldersAgree
  <2>4. QED
    BY <2>1, <2>2, <2>3 DEF HoldersAgree
<1>5. QueueAgrees'
  <2>1. CASE wanted /\ fits
    <3>1. /\ Len(queue') = Len(queue) + 1 /\ Len(queue) \in Nat
          /\ \A i \in 1..Len(queue) : queue'[i] = queue[i]
          /\ queue'[Len(queue) + 1] = f
      BY <1>2, <2>1
    <3>2. \A i \in 1..Len(queue) : queue[i] # f
      BY <2>1 DEF QueueAgrees
    <3>3. \A i, j \in 1..Len(queue') : queue'[i] = queue'[j] => i = j
      BY <3>1, <3>2 DEF QueueAgrees
    <3>4. ASSUME NEW g \in Files
          PROVE  recovery'[g].queued <=> \E i \in 1..Len(queue') : queue'[i] = g
      <4>1. CASE g = f
        <5>1. Len(queue) + 1 \in 1..Len(queue')
          BY <3>1
        <5>2. QED
          BY <1>1, <2>1, <3>1, <4>1, <5>1
      <4>2. CASE g # f
        <5>1. (\E i \in 1..Len(queue') : queue'[i] = g)
                <=> (\E i \in 1..Len(queue) : queue[i] = g)
          <6>1. \A i : i \in 1..Len(queue') <=> i \in 1..Len(queue) \/ i = Len(queue) + 1
            BY <3>1
          <6>2. QED
            BY <3>1, <4>2, <6>1
        <5>2. QED
          BY <1>1, <4>2, <5>1 DEF QueueAgrees
      <4>3. QED
        BY <4>1, <4>2
    <3>5. \A g \in Files : recovery'[g].queued => recovery'[g].job # "none"
      BY <1>1 DEF QueueAgrees, JobStatuses
    <3>6. QED
      BY <3>3, <3>4, <3>5 DEF QueueAgrees
  <2>2. CASE ~(wanted /\ fits)
    <3>1. queue' = queue /\ \A g \in Files : recovery'[g].queued = recovery[g].queued
      BY <1>1, <1>2, <2>2
    <3>2. \A g \in Files : recovery'[g].queued => recovery'[g].job # "none"
      BY <1>1, <3>1 DEF QueueAgrees, JobStatuses
    <3>3. QED
      BY <3>1, <3>2 DEF QueueAgrees
  <2>3. QED
    BY <2>1, <2>2
<1>6. QED
  BY <1>1, <1>3, <1>4, <1>5

\* The map, the channel and the workers, without what has been listed.
MapTyped ==
    /\ recovery \in [Files -> [job : JobStatuses \cup {"none"}, queued : BOOLEAN,
                               running : BOOLEAN]]
    /\ queue \in Seq(Files) /\ Len(queue) <= QueueLimit
    /\ worker \in [Workers -> Work \cup {Idle}]

\* A worker takes the file at the head of the channel.
LEMMA TakeKeeps ==
    ASSUME SchedulerOk, QueueAgrees, HoldersAgree, NEW w \in Workers, Take(w)
    PROVE  MapTyped' /\ QueueAgrees' /\ HoldersAgree'
<1>0. QueueLimit \in Nat
  BY ImportAssumption
<1>1. PICK f : f = Head(queue)
  OBVIOUS
<1>2. /\ worker[w] = Idle /\ queue # <<>>
      /\ recovery' = [recovery EXCEPT ![f].queued = FALSE, ![f].running = TRUE]
      /\ queue' = Tail(queue)
  BY <1>1 DEF Take
<1>3. /\ Len(queue) \in Nat /\ Len(queue) >= 1 /\ 1 \in 1..Len(queue)
      /\ f \in Files /\ queue[1] = f
      /\ queue' \in Seq(Files) /\ Len(queue') = Len(queue) - 1
      /\ \A i \in 1..Len(queue') : i + 1 \in 1..Len(queue) /\ queue'[i] = queue[i + 1]
  BY <1>1, <1>2 DEF SchedulerOk
<1>4. /\ recovery[f].queued /\ ~recovery[f].running
      /\ recovery[f].job \in JobStatuses
  <2>1. recovery[f].queued
    BY <1>3 DEF QueueAgrees
  <2>2. QED
    BY <1>3, <2>1 DEF HoldersAgree, QueueAgrees, SchedulerOk
<1>5. PICK step \in StepsFor(recovery[f].job) :
        worker' = [worker EXCEPT ![w] = [step |-> step, file |-> f]]
  BY <1>1 DEF Take
<1>6. step \in Steps
  BY <1>4, <1>5 DEF StepsFor, Steps, JobStatuses, FileStatuses
<1>7. [step |-> step, file |-> f] \in Work
  BY <1>3, <1>6 DEF Work
<1>8. /\ worker' \in [Workers -> Work \cup {Idle}]
      /\ worker'[w] = [step |-> step, file |-> f]
      /\ \A u \in Workers \ {w} : worker'[u] = worker[u]
  BY <1>5, <1>7 DEF SchedulerOk
<1>9. /\ recovery' \in [Files -> [job : JobStatuses \cup {"none"}, queued : BOOLEAN,
                                  running : BOOLEAN]]
      /\ ~recovery'[f].queued /\ recovery'[f].running
      /\ \A g \in Files \ {f} : recovery'[g] = recovery[g]
  <2>1. PICK r : r = [recovery[f] EXCEPT !.queued = FALSE]
    OBVIOUS
  <2>2. /\ r \in [job : JobStatuses \cup {"none"}, queued : BOOLEAN, running : BOOLEAN]
        /\ r.queued = FALSE
    BY <1>3, <2>1 DEF SchedulerOk
  <2>3. recovery' = [recovery EXCEPT ![f] = [r EXCEPT !.running = TRUE]]
    BY <1>2, <1>3, <2>1 DEF SchedulerOk
  <2>4. QED
    BY <1>3, <2>2, <2>3 DEF SchedulerOk
<1>10. MapTyped'
  BY <1>0, <1>3, <1>8, <1>9 DEF MapTyped, SchedulerOk
<1>11. QueueAgrees'
  <2>1. \A i, j \in 1..Len(queue') : queue'[i] = queue'[j] => i = j
    <3>1. SUFFICES ASSUME NEW i \in 1..Len(queue'), NEW j \in 1..Len(queue'),
                          queue'[i] = queue'[j]
                   PROVE  i = j
      OBVIOUS
    <3>2. /\ i + 1 \in 1..Len(queue) /\ j + 1 \in 1..Len(queue)
          /\ queue[i + 1] = queue[j + 1]
      BY <1>3, <3>1
    <3>3. i + 1 = j + 1
      BY <3>2 DEF QueueAgrees
    <3>4. QED
      BY <1>3, <3>3
  <2>2. ASSUME NEW g \in Files
        PROVE  recovery'[g].queued <=> \E i \in 1..Len(queue') : queue'[i] = g
    <3>1. ASSUME NEW i \in 1..Len(queue'), queue'[i] = g PROVE recovery'[g].queued
      <4>1. queue[i + 1] = g /\ i + 1 \in 1..Len(queue)
        BY <1>3, <3>1
      <4>2. g # f
        <5>1. i + 1 # 1
          BY <1>3
        <5>2. QED
          BY <1>3, <4>1, <5>1 DEF QueueAgrees
      <4>3. QED
        BY <1>9, <4>1, <4>2 DEF QueueAgrees
    <3>2. ASSUME recovery'[g].queued PROVE \E i \in 1..Len(queue') : queue'[i] = g
      <4>1. g # f /\ recovery[g].queued
        BY <1>9, <3>2
      <4>2. PICK i \in 1..Len(queue) : queue[i] = g
        BY <4>1 DEF QueueAgrees
      <4>3. i # 1
        BY <1>3, <4>1, <4>2
      <4>4. i - 1 \in 1..Len(queue') /\ (i - 1) + 1 = i
        BY <1>3, <4>3
      <4>5. queue'[i - 1] = g
        BY <1>3, <4>2, <4>4
      <4>6. QED
        BY <4>4, <4>5
    <3>3. QED
      BY <3>1, <3>2
  <2>3. \A g \in Files : recovery'[g].queued => recovery'[g].job # "none"
    BY <1>9 DEF QueueAgrees
  <2>4. QED
    BY <2>1, <2>2, <2>3 DEF QueueAgrees
<1>12. HoldersAgree'
  <2>1. \A u \in Workers, g \in Files : Holds(u, g)' <=> Holds(u, g) \/ (u = w /\ g = f)
    <3>1. ASSUME NEW u \in Workers, NEW g \in Files
          PROVE  Holds(u, g)' <=> Holds(u, g) \/ (u = w /\ g = f)
      <4>1. worker'[w] # Idle
        BY <1>7, <1>8, IdleIsNoWork
      <4>2. QED
        BY <1>2, <1>8, <4>1 DEF Holds
    <3>2. QED
      BY <3>1
  <2>2. \A u \in Workers : ~Holds(u, f)
    BY <1>3, <1>4 DEF HoldersAgree
  <2>3. \A u, t \in Workers, g \in Files : Holds(u, g)' /\ Holds(t, g)' => u = t
    BY <2>1, <2>2 DEF HoldersAgree
  <2>4. \A g \in Files : recovery'[g].running <=> \E u \in Workers : Holds(u, g)'
    BY <1>9, <2>1 DEF HoldersAgree
  <2>5. \A g \in Files : ~(recovery'[g].queued /\ recovery'[g].running)
    BY <1>9 DEF HoldersAgree
  <2>6. QED
    BY <2>3, <2>4, <2>5 DEF HoldersAgree
<1>13. QED
  BY <1>10, <1>11, <1>12

\* A worker lets go of its file.
LEMMA FinishKeeps ==
    ASSUME SchedulerOk, QueueAgrees, HoldersAgree, NEW w \in Workers, worker[w] # Idle,
           NEW ok \in BOOLEAN, Finished(w, ok), queue' = queue
    PROVE  MapTyped' /\ QueueAgrees' /\ HoldersAgree'
<1>1. PICK f : f = worker[w].file
  OBVIOUS
<1>2. f \in Files
  BY <1>1, IdleIsNoWork DEF SchedulerOk
<1>3. Holds(w, f) /\ recovery[f].running /\ ~recovery[f].queued
  BY <1>1, <1>2 DEF Holds, HoldersAgree
<1>4. /\ worker' \in [Workers -> Work \cup {Idle}]
      /\ worker'[w] = Idle
      /\ \A u \in Workers \ {w} : worker'[u] = worker[u]
  BY DEF Finished, SchedulerOk
<1>5. /\ recovery' \in [Files -> [job : JobStatuses \cup {"none"}, queued : BOOLEAN,
                                  running : BOOLEAN]]
      /\ ~recovery'[f].queued /\ ~recovery'[f].running
      /\ \A g \in Files \ {f} : recovery'[g] = recovery[g]
  <2>1. PICK r : r = (IF ok THEN NoJob ELSE [recovery[f] EXCEPT !.running = FALSE])
    OBVIOUS
  <2>2. /\ r \in [job : JobStatuses \cup {"none"}, queued : BOOLEAN, running : BOOLEAN]
        /\ r.queued = FALSE /\ r.running = FALSE
    <3>1. CASE ok
      BY <2>1, <3>1 DEF NoJob
    <3>2. CASE ~ok
      BY <1>2, <1>3, <2>1, <3>2 DEF SchedulerOk
    <3>3. QED
      BY <3>1, <3>2
  <2>3. recovery' = [recovery EXCEPT ![f] = r]
    BY <1>1, <1>2, <2>1 DEF Finished, SchedulerOk
  <2>4. QED
    BY <1>2, <2>2, <2>3 DEF SchedulerOk
<1>6. MapTyped'
  BY <1>4, <1>5 DEF MapTyped, SchedulerOk
<1>7. QueueAgrees'
  BY <1>2, <1>3, <1>5 DEF QueueAgrees
<1>8. HoldersAgree'
  <2>1. \A u \in Workers, g \in Files : Holds(u, g)' <=> Holds(u, g) /\ u # w
    BY <1>4 DEF Holds
  <2>2. \A u \in Workers : Holds(u, f) => u = w
    BY <1>2, <1>3 DEF HoldersAgree
  <2>3. \A g \in Files \ {f} : ~Holds(w, g)
    BY <1>1 DEF Holds
  <2>4. \A u, t \in Workers, g \in Files : Holds(u, g)' /\ Holds(t, g)' => u = t
    BY <2>1 DEF HoldersAgree
  <2>5. \A g \in Files : recovery'[g].running <=> \E u \in Workers : Holds(u, g)'
    BY <1>5, <2>1, <2>2, <2>3 DEF HoldersAgree
  <2>6. \A g \in Files : ~(recovery'[g].queued /\ recovery'[g].running)
    BY <1>5 DEF HoldersAgree
  <2>7. QED
    BY <2>4, <2>5, <2>6 DEF HoldersAgree
<1>9. QED
  BY <1>6, <1>7, <1>8

\* A worker goes on with the file it has.
LEMMA StepKeeps ==
    ASSUME SchedulerOk, QueueAgrees, HoldersAgree, NEW w \in Workers, worker[w] # Idle,
           NEW step \in Steps, worker' = [worker EXCEPT ![w].step = step],
           recovery' = recovery, queue' = queue
    PROVE  MapTyped' /\ QueueAgrees' /\ HoldersAgree'
<1>1. worker[w] \in Work
  BY DEF SchedulerOk
<1>2. PICK r : r = [worker[w] EXCEPT !.step = step]
  OBVIOUS
<1>3. r \in Work /\ r.file = worker[w].file
  BY <1>1, <1>2 DEF Work
<1>4. /\ worker' \in [Workers -> Work \cup {Idle}]
      /\ worker'[w] = r
      /\ \A u \in Workers \ {w} : worker'[u] = worker[u]
  BY <1>2, <1>3 DEF SchedulerOk
<1>5. \A u \in Workers, g \in Files : Holds(u, g)' <=> Holds(u, g)
  BY <1>3, <1>4, IdleIsNoWork DEF Holds
<1>6. QED
  BY <1>4, <1>5 DEF MapTyped, SchedulerOk, QueueAgrees, HoldersAgree


-----------------------------------------------------------------------------
(* What the actions do to a session.                                       *)

\* The session s gets a status and a revision, and keeps its batch; the others
\* stay as they are.
SessionMoves(s, status, n) ==
    /\ DOMAIN session' = Sessions
    /\ session'[s] \in SessionRow(session'[s].batch)
    /\ session'[s].status = status
    /\ session'[s].revision = n
    /\ \A t \in Sessions \ {s} : session'[t] = session[t]

LEMMA BeginMoves ==
    ASSUME TablesOk, NEW s \in Sessions, Begin(s)
    PROVE  /\ SessionMoves(s, "collecting", session[s].revision)
           /\ session'[s].batch = session[s].batch
<1>1. PICK r : r = [session[s] EXCEPT !.status = "collecting"]
  OBVIOUS
<1>2. /\ r \in SessionRow(session[s].batch)
      /\ r.status = "collecting" /\ r.revision = session[s].revision
      /\ r.batch = session[s].batch
  BY <1>1 DEF TablesOk, SessionRow, SessionStatuses
<1>3. session' = [session EXCEPT ![s] = r]
  BY <1>1 DEF Begin, TablesOk
<1>4. session'[s] = r /\ DOMAIN session' = Sessions
      /\ \A t \in Sessions \ {s} : session'[t] = session[t]
  BY <1>3 DEF TablesOk
<1>5. QED
  BY <1>2, <1>4 DEF SessionMoves

\* The revision of a collecting session can be counted up once more.
LEMMA RevisionMoves ==
    ASSUME TablesOk, NEW s \in Sessions, session[s].revision < MaxRevision,
           session' = [session EXCEPT ![s].revision = @ + 1]
    PROVE  /\ SessionMoves(s, session[s].status, session[s].revision + 1)
           /\ session'[s].batch = session[s].batch
<1>0. MaxRevision \in Nat
  BY ImportAssumption
<1>1. PICK r : r = [session[s] EXCEPT !.revision = session[s].revision + 1]
  OBVIOUS
<1>2. /\ r \in SessionRow(session[s].batch)
      /\ r.status = session[s].status /\ r.revision = session[s].revision + 1
      /\ r.batch = session[s].batch
  BY <1>0, <1>1 DEF TablesOk, SessionRow
<1>3. session' = [session EXCEPT ![s] = r]
  BY <1>1 DEF TablesOk
<1>4. session'[s] = r /\ DOMAIN session' = Sessions
      /\ \A t \in Sessions \ {s} : session'[t] = session[t]
  BY <1>3 DEF TablesOk
<1>5. QED
  BY <1>2, <1>4 DEF SessionMoves

LEMMA CancelMoves ==
    ASSUME TablesOk, NEW s \in Sessions, CancelSession(s)
    PROVE  /\ SessionMoves(s, "cancelled", session[s].revision + 1)
           /\ session'[s].batch = session[s].batch
<1>0. MaxRevision \in Nat
  BY ImportAssumption
<1>1. PICK q : q = [session[s] EXCEPT !.status = "cancelled"]
  OBVIOUS
<1>2. /\ q \in SessionRow(session[s].batch)
      /\ q.status = "cancelled" /\ q.revision = session[s].revision
      /\ q.batch = session[s].batch
  BY <1>1 DEF TablesOk, SessionRow, SessionStatuses
<1>3. PICK r : r = [q EXCEPT !.revision = session[s].revision + 1]
  OBVIOUS
<1>4. /\ r \in SessionRow(session[s].batch)
      /\ r.status = "cancelled" /\ r.revision = session[s].revision + 1
      /\ r.batch = session[s].batch
  BY <1>0, <1>2, <1>3 DEF TablesOk, SessionRow, CancelSession
<1>5. session' = [session EXCEPT ![s] = r]
  BY <1>1, <1>2, <1>3 DEF CancelSession, TablesOk
<1>6. session'[s] = r /\ DOMAIN session' = Sessions
      /\ \A t \in Sessions \ {s} : session'[t] = session[t]
  BY <1>5 DEF TablesOk
<1>7. QED
  BY <1>4, <1>6 DEF SessionMoves

LEMMA FinalizeMoves ==
    ASSUME TablesOk, NEW s \in Sessions, IsCollecting(s),
           session' = [session EXCEPT ![s] =
                [status |-> "finalized", revision |-> @.revision + 1,
                 batch |-> FrozenBatch(s)]]
    PROVE  /\ SessionMoves(s, "finalized", session[s].revision + 1)
           /\ session'[s].batch = FrozenBatch(s)
<1>0. MaxRevision \in Nat
  BY ImportAssumption
<1>1. PICK r : r = [status |-> "finalized", revision |-> session[s].revision + 1,
                    batch |-> FrozenBatch(s)]
  OBVIOUS
<1>2. /\ r \in SessionRow(FrozenBatch(s))
      /\ r.status = "finalized" /\ r.revision = session[s].revision + 1
      /\ r.batch = FrozenBatch(s)
  BY <1>0, <1>1 DEF TablesOk, SessionRow, SessionStatuses, IsCollecting
<1>3. session'[s] = r /\ DOMAIN session' = Sessions
      /\ \A t \in Sessions \ {s} : session'[t] = session[t]
  BY <1>1 DEF TablesOk
<1>4. QED
  BY <1>2, <1>3 DEF SessionMoves


-----------------------------------------------------------------------------
(* The scheduler: every step keeps the map, the channel and the workers in  *)
(* agreement.                                                              *)

LEMMA SchedulerFromParts ==
    ASSUME MapTyped', \A l \in listing' : l \in Listed, version' \in Versions
    PROVE  SchedulerOk'
BY DEF MapTyped, SchedulerOk

LEMMA TouchedRow ==
    ASSUME NEW status \in FileStatuses
    PROVE  Touched(status) \in FileRow /\ Touched(status).status = status
BY DEF Touched, FileRow

\* A document that is delivered again changes no row.
LEMMA ReserveChanges ==
    ASSUME NEW s, NEW d, ReserveFile(s, d)
    PROVE  /\ IsCollecting(s)
           /\ \/ /\ file[<<s, d>>].status = "none"
                 /\ file' = [file EXCEPT ![<<s, d>>] = Touched("reserved")]
              \/ file[<<s, d>>].status # "none" /\ file' = file
BY ZenonT(30) DEF ReserveFile

\* What a scan lists can be queued.
LEMMA ListedFile ==
    ASSUME TablesOk, NEW f \in Files, IsRecoverable(f) \/ IsReparsed(f)
    PROVE  [file |-> f, status |-> file[f].status] \in Listed
BY DEF IsRecoverable, IsReparsed, Listed

LEMMA SchedulerStep ==
    ASSUME SchedulerOk, QueueAgrees, HoldersAgree, TablesOk, [Next]_vars
    PROVE  SchedulerOk' /\ QueueAgrees' /\ HoldersAgree'
<1>0. MapTyped /\ QueueLimit \in Nat
  BY ImportAssumption DEF MapTyped, SchedulerOk
<1>1. ASSUME UNCHANGED <<recovery, queue, worker, version>>, \A l \in listing' : l \in Listed
      PROVE  SchedulerOk' /\ QueueAgrees' /\ HoldersAgree'
  <2>1. (MapTyped /\ QueueAgrees /\ HoldersAgree)'
    BY <1>0, <1>1 DEF MapTyped, QueueAgrees, HoldersAgree, Holds
  <2>2. version' \in Versions
    BY <1>1 DEF SchedulerOk
  <2>3. QED
    BY <1>1, <2>1, <2>2, SchedulerFromParts
<1>2. ASSUME UNCHANGED <<recovery, queue, worker, version, listing>>
      PROVE  SchedulerOk' /\ QueueAgrees' /\ HoldersAgree'
  BY <1>1, <1>2 DEF SchedulerOk
<1>3. ASSUME UNCHANGED <<version, listing>>, MapTyped' /\ QueueAgrees' /\ HoldersAgree'
      PROVE  SchedulerOk' /\ QueueAgrees' /\ HoldersAgree'
  <2>1. version' \in Versions /\ \A l \in listing' : l \in Listed
    BY <1>3 DEF SchedulerOk
  <2>2. QED
    BY <1>3, <2>1, SchedulerFromParts
<1>4. CASE UserNext
  <2>1. ASSUME NEW s \in Sessions, Begin(s) \/ CancelSession(s) \/ ReadSession(s)
        PROVE  SchedulerOk' /\ QueueAgrees' /\ HoldersAgree'
    BY <1>2, <2>1 DEF Begin, CancelSession, ReadSession, process
  <2>2. ASSUME NEW s \in Sessions, ResumeFiles(s)
        PROVE  SchedulerOk' /\ QueueAgrees' /\ HoldersAgree'
    <3>1. \A f \in FilesOf(s) : f \in Files
      BY DEF FilesOf
    <3>2. \A f \in FilesOf(s) : IsRecoverable(f) => [file |-> f, status |-> file[f].status] \in Listed
      BY <3>1, ListedFile
    <3>3. \A l \in listing' : l \in listing \/ \E f \in FilesOf(s) :
                IsRecoverable(f) /\ l = [file |-> f, status |-> file[f].status]
      BY <2>2 DEF ResumeFiles
    <3>4. \A l \in listing' : l \in Listed
      BY <3>2, <3>3 DEF SchedulerOk
    <3>5. QED
      BY <1>1, <2>2, <3>4 DEF ResumeFiles
  <2>3. ASSUME NEW s \in Sessions, NEW d \in Documents, ReceiveDocument(s, d)
        PROVE  SchedulerOk' /\ QueueAgrees' /\ HoldersAgree'
    <3>1. PICK f : f = <<s, d>>
      OBVIOUS
    <3>2. f \in Files
      BY <3>1, FileIsPair
    <3>3. file'[f] \in FileRow /\ file'[f].status # "none"
      <4>1. \/ file[f].status = "none" /\ file' = [file EXCEPT ![f] = Touched("reserved")]
            \/ file[f].status # "none" /\ file' = file
        BY <2>3, <3>1, ReserveChanges DEF ReceiveDocument
      <4>2. Touched("reserved") \in FileRow /\ Touched("reserved").status # "none"
        BY TouchedRow DEF FileStatuses
      <4>3. QED
        BY <3>2, <4>1, <4>2 DEF TablesOk
    <3>4. PICK status : status = (IF file'[f].status = "parsing" /\ ~file'[f].stale
                                  THEN "parsing_recently" ELSE file'[f].status)
      OBVIOUS
    <3>5. status \in JobStatuses
      BY <3>3, <3>4 DEF JobStatuses, FileRow
    <3>6. Enqueue(f, status) /\ worker' = worker /\ UNCHANGED <<version, listing>>
      BY <2>3, <3>1, <3>4 DEF ReceiveDocument
    <3>7. MapTyped' /\ QueueAgrees' /\ HoldersAgree'
      BY <3>2, <3>5, <3>6, EnqueueKeeps DEF MapTyped, SchedulerOk
    <3>8. QED
      BY <1>3, <3>6, <3>7
  <2>4. ASSUME ShowSession \/ ContinueAfterErrors \/ Finalize
        PROVE  SchedulerOk' /\ QueueAgrees' /\ HoldersAgree'
    BY <1>2, <2>4 DEF ShowSession, ContinueAfterErrors, Finalize, process
  <2>5. QED
    BY <1>4, <2>1, <2>2, <2>3, <2>4 DEF UserNext
<1>5. CASE SchedulerNext
  <2>1. ASSUME Scan
        PROVE  SchedulerOk' /\ QueueAgrees' /\ HoldersAgree'
    <3>1. \A l \in listing' : \E f \in Files : /\ IsRecoverable(f) \/ IsReparsed(f)
                                               /\ l = [file |-> f, status |-> file[f].status]
      BY <2>1 DEF Scan
    <3>2. \A l \in listing' : l \in Listed
      BY <3>1, ListedFile
    <3>3. QED
      BY <1>1, <2>1, <3>2 DEF Scan
  <2>2. ASSUME NEW l \in listing, EnqueueListed(l)
        PROVE  SchedulerOk' /\ QueueAgrees' /\ HoldersAgree'
    <3>1. l \in Listed
      BY DEF SchedulerOk
    <3>2. l.file \in Files /\ l.status \in JobStatuses
      BY <3>1 DEF Listed, JobStatuses, FileStatuses
    <3>3. Enqueue(l.file, l.status) /\ worker' = worker /\ version' = version
      BY <2>2 DEF EnqueueListed
    <3>4. MapTyped' /\ QueueAgrees' /\ HoldersAgree'
      BY <3>2, <3>3, EnqueueKeeps DEF MapTyped, SchedulerOk
    <3>5. \A k \in listing' : k \in Listed
      BY <2>2 DEF EnqueueListed, SchedulerOk
    <3>6. version' \in Versions
      BY <3>3 DEF SchedulerOk
    <3>7. QED
      BY <3>4, <3>5, <3>6, SchedulerFromParts
  <2>3. QED
    BY <1>5, <2>1, <2>2 DEF SchedulerNext
<1>6. ASSUME NEW w \in Workers, WorkerNext(w) \/ Fail(w)
      PROVE  SchedulerOk' /\ QueueAgrees' /\ HoldersAgree'
  <2>1. CASE Take(w)
    <3>1. MapTyped' /\ QueueAgrees' /\ HoldersAgree'
      BY <2>1, TakeKeeps
    <3>2. QED
      BY <1>3, <2>1, <3>1 DEF Take
  <2>2. ASSUME NEW step \in Steps, worker[w] # Idle, worker' = [worker EXCEPT ![w].step = step],
               UNCHANGED <<recovery, queue, version, listing>>
        PROVE  SchedulerOk' /\ QueueAgrees' /\ HoldersAgree'
    <3>1. MapTyped' /\ QueueAgrees' /\ HoldersAgree'
      BY <2>2, StepKeeps
    <3>2. QED
      BY <1>3, <2>2, <3>1
  <2>3. CASE Store(w)
    <3>1. "claim" \in Steps /\ worker[w] # Idle
      BY <2>3 DEF Store, AtStep, Steps
    <3>2. QED
      BY <2>2, <2>3, <3>1 DEF Store
  <2>4. CASE ClaimFileForParsing(w)
    <3>1. "save" \in Steps /\ worker[w] # Idle
      BY <2>4 DEF ClaimFileForParsing, AtStep, Steps
    <3>2. QED
      BY <2>2, <2>4, <3>1 DEF ClaimFileForParsing
  <2>5. ASSUME NEW ok \in BOOLEAN, worker[w] # Idle, Finished(w, ok),
               UNCHANGED <<queue, version, listing>>
        PROVE  SchedulerOk' /\ QueueAgrees' /\ HoldersAgree'
    <3>1. MapTyped' /\ QueueAgrees' /\ HoldersAgree'
      BY <2>5, FinishKeeps
    <3>2. QED
      BY <1>3, <2>5, <3>1
  <2>6. CASE SaveParsedFile(w) \/ NothingToDo(w)
    <3>1. worker[w] # Idle /\ Finished(w, TRUE) /\ UNCHANGED <<queue, version, listing>>
      BY <2>6 DEF SaveParsedFile, NothingToDo, AtStep
    <3>2. QED
      BY <2>5, <3>1
  <2>7. CASE Conflict(w) \/ Fail(w)
    <3>1. worker[w] # Idle /\ Finished(w, FALSE) /\ UNCHANGED <<queue, version, listing>>
      BY <2>7 DEF Conflict, Fail
    <3>2. QED
      BY <2>5, <3>1
  <2>8. QED
    BY <1>6, <2>1, <2>3, <2>4, <2>6, <2>7 DEF WorkerNext
<1>7. ASSUME NEW f \in Files, ParsingGetsStale(f)
      PROVE  SchedulerOk' /\ QueueAgrees' /\ HoldersAgree'
  BY <1>2, <1>7 DEF ParsingGetsStale, process
<1>8. CASE Restart
  <2>1. /\ recovery' = [f \in Files |-> NoJob]
        /\ queue' = <<>>
        /\ worker' = [w \in Workers |-> Idle]
        /\ listing' = {}
        /\ version' \in Versions
    BY <1>8 DEF Restart
  <2>2. MapTyped'
    BY <1>0, <2>1 DEF MapTyped, NoJob
  <2>3. QueueAgrees' /\ HoldersAgree'
    BY <2>1 DEF QueueAgrees, HoldersAgree, Holds, NoJob
  <2>4. QED
    BY <2>1, <2>2, <2>3, SchedulerFromParts
<1>9. CASE UNCHANGED vars
  BY <1>2, <1>9 DEF vars, process
<1>10. QED
  BY <1>4, <1>5, <1>6, <1>7, <1>8, <1>9 DEF Next


-----------------------------------------------------------------------------
(* Which session a step is about.                                          *)

\* Nothing of the session changes, the age of its files aside.
StaysAsItIs(s) ==
    /\ session'[s] = session[s]
    /\ cross'[s] = cross[s]
    /\ \A f \in FilesOf(s) : /\ file'[f].status = file[f].status
                             /\ items'[f] = items[f]
                             /\ issues'[f] = issues[f]

\* A step is about at most the session s.
IsAbout(s) == \A t \in Sessions \ {s} : StaysAsItIs(t)

LEMMA FilesOfPairs ==
    /\ \A s, f : f \in FilesOf(s) <=> f \in Files /\ f[1] = s
    /\ \A s \in Sessions, d \in Documents : <<s, d>> \in FilesOf(s)
BY FileIsPair DEF FilesOf

LEMMA TablesFromSession ==
    ASSUME TablesOk, NEW s \in Sessions, NEW status \in SessionStatuses,
           NEW n \in 0..MaxRevision + 1, SessionMoves(s, status, n),
           status \in {"none", "collecting"} => n <= MaxRevision,
           file' \in [Files -> FileRow],
           DOMAIN items' = Files, DOMAIN issues' = Files, DOMAIN cross' = Sessions
    PROVE  TablesOk'
<1>1. \A t \in Sessions \ {s} :
        /\ session'[t] \in SessionRow(session'[t].batch)
        /\ session'[t].status \in {"none", "collecting"} => session'[t].revision <= MaxRevision
  BY DEF TablesOk, SessionMoves
<1>2. /\ session'[s] \in SessionRow(session'[s].batch)
      /\ session'[s].status \in {"none", "collecting"} => session'[s].revision <= MaxRevision
  BY DEF SessionMoves
<1>3. DOMAIN session' = Sessions
  BY DEF SessionMoves
<1>4. QED
  BY <1>1, <1>2, <1>3 DEF TablesOk

LEMMA TablesFromFiles ==
    ASSUME TablesOk, session' = session, file' \in [Files -> FileRow],
           items' = items, issues' = issues, cross' = cross
    PROVE  TablesOk'
BY DEF TablesOk

LEMMA BeginIsAbout ==
    ASSUME TablesOk, NEW s \in Sessions, Begin(s)
    PROVE  TablesOk' /\ IsAbout(s)
<1>0. session[s].status = "none" /\ session[s].revision \in 0..MaxRevision + 1
      /\ session[s].revision <= MaxRevision
  BY DEF Begin, TablesOk, SessionRow
<1>1. /\ SessionMoves(s, "collecting", session[s].revision)
      /\ UNCHANGED <<file, items, issues, cross>>
  BY BeginMoves DEF Begin
<1>2. "collecting" \in SessionStatuses
  BY DEF SessionStatuses
<1>3. /\ file' \in [Files -> FileRow]
      /\ DOMAIN items' = Files /\ DOMAIN issues' = Files /\ DOMAIN cross' = Sessions
  BY <1>1 DEF TablesOk
<1>4. TablesOk'
  BY <1>0, <1>1, <1>2, <1>3, TablesFromSession
<1>5. QED
  BY <1>1, <1>4 DEF IsAbout, StaysAsItIs, SessionMoves

LEMMA CancelIsAbout ==
    ASSUME TablesOk, NEW s \in Sessions, CancelSession(s)
    PROVE  TablesOk' /\ IsAbout(s)
<1>0. /\ MaxRevision \in Nat /\ session[s].revision < MaxRevision
      /\ session[s].revision + 1 \in 0..MaxRevision + 1
  BY ImportAssumption DEF CancelSession, TablesOk, SessionRow
<1>1. /\ SessionMoves(s, "cancelled", session[s].revision + 1)
      /\ UNCHANGED <<items, issues, cross>>
  BY CancelMoves DEF CancelSession
<1>2. "cancelled" \in SessionStatuses
  BY DEF SessionStatuses
<1>3. Touched("abandoned") \in FileRow
  BY TouchedRow DEF FileStatuses
<1>4. /\ file' \in [Files -> FileRow]
      /\ \A f \in Files : f[1] # s => file'[f] = file[f]
  BY <1>3, FilesOfPairs DEF CancelSession, ActiveFiles, TablesOk
<1>5. DOMAIN items' = Files /\ DOMAIN issues' = Files /\ DOMAIN cross' = Sessions
  BY <1>1 DEF TablesOk
<1>6. TablesOk'
  BY <1>0, <1>1, <1>2, <1>4, <1>5, TablesFromSession
<1>7. QED
  BY <1>1, <1>4, <1>6, FilesOfPairs DEF IsAbout, StaysAsItIs, SessionMoves

\* A step that only changes the row of one file.
LEMMA FileIsAbout ==
    ASSUME TablesOk, NEW f \in Files, NEW r \in FileRow, file' = [file EXCEPT ![f] = r],
           UNCHANGED <<session, items, issues, cross>>
    PROVE  /\ TablesOk' /\ IsAbout(f[1])
           /\ file'[f] = r /\ \A g \in Files \ {f} : file'[g] = file[g]
<1>1. /\ file' \in [Files -> FileRow] /\ file'[f] = r
      /\ \A g \in Files \ {f} : file'[g] = file[g]
  BY DEF TablesOk
<1>2. TablesOk'
  BY <1>1, TablesFromFiles
<1>3. QED
  BY <1>1, <1>2, FilesOfPairs DEF IsAbout, StaysAsItIs

LEMMA ReceiveIsAbout ==
    ASSUME TablesOk, NEW s \in Sessions, NEW d \in Documents, ReceiveDocument(s, d)
    PROVE  TablesOk' /\ IsAbout(s)
<1>1. PICK f : f = <<s, d>>
  OBVIOUS
<1>2. f \in Files /\ f[1] = s
  BY <1>1, FileIsPair
<1>3. UNCHANGED <<session, items, issues, cross>>
  BY DEF ReceiveDocument
<1>4. CASE file' = [file EXCEPT ![f] = Touched("reserved")]
  <2>1. Touched("reserved") \in FileRow
    BY TouchedRow DEF FileStatuses
  <2>2. QED
    BY <1>2, <1>3, <1>4, <2>1, FileIsAbout
<1>5. CASE file' = file
  BY <1>3, <1>5 DEF TablesOk, IsAbout, StaysAsItIs
<1>6. QED
  BY <1>1, <1>4, <1>5, ReserveChanges DEF ReceiveDocument

\* A worker holds a file.
LEMMA HeldFile ==
    ASSUME SchedulerOk, NEW w \in Workers, worker[w] # Idle
    PROVE  worker[w].file \in Files /\ worker[w].file[1] \in Sessions
BY IdleIsNoWork, FileIsPair DEF SchedulerOk

LEMMA StoreIsAbout ==
    ASSUME TablesOk, SchedulerOk, NEW w \in Workers, Store(w),
           NEW f, f = worker[w].file
    PROVE  /\ f \in Files /\ IsCollecting(f[1])
           /\ TablesOk' /\ IsAbout(f[1])
           /\ file'[f].status = "stored" /\ file[f].status \in {"reserved", "stored"}
           /\ \A g \in Files \ {f} : file'[g] = file[g]
           /\ UNCHANGED <<session, items, issues, cross>>
<1>1. f \in Files
  BY HeldFile DEF Store, AtStep
<1>2. Touched("stored") \in FileRow /\ Touched("stored").status = "stored"
  BY TouchedRow DEF FileStatuses
<1>3. /\ IsCollecting(f[1]) /\ file[f].status \in {"reserved", "stored"}
      /\ file' = [file EXCEPT ![f] = Touched("stored")]
      /\ UNCHANGED <<session, items, issues, cross>>
  BY DEF Store, StoreFileOk
<1>4. QED
  BY <1>1, <1>2, <1>3, FileIsAbout

LEMMA ClaimIsAbout ==
    ASSUME TablesOk, SchedulerOk, NEW w \in Workers, ClaimFileForParsing(w),
           NEW f, f = worker[w].file
    PROVE  /\ f \in Files /\ IsCollecting(f[1])
           /\ TablesOk' /\ IsAbout(f[1])
           /\ file'[f].status = "parsing"
           /\ \A g \in Files \ {f} : file'[g] = file[g]
           /\ UNCHANGED <<session, items, issues, cross>>
<1>1. f \in Files
  BY HeldFile DEF ClaimFileForParsing, AtStep
<1>2. Touched("parsing") \in FileRow /\ Touched("parsing").status = "parsing"
  BY TouchedRow DEF FileStatuses
<1>3. /\ IsCollecting(f[1])
      /\ file' = [file EXCEPT ![f] = Touched("parsing")]
      /\ UNCHANGED <<session, items, issues, cross>>
  BY DEF ClaimFileForParsing, ClaimOk
<1>4. QED
  BY <1>1, <1>2, <1>3, FileIsAbout


\* The result of a parse of the file f is saved.
Saves(f, result) ==
    /\ f \in Files /\ f[1] \in Sessions /\ IsCollecting(f[1])
    /\ TablesOk' /\ IsAbout(f[1])
    /\ file'[f].status = IF result.issues = {} THEN "valid" ELSE "invalid"
    /\ items'[f] = ToSet(result.cards) /\ issues'[f] = result.issues
    /\ \A g \in Files \ {f} : /\ file'[g] = file[g]
                              /\ items'[g] = items[g]
                              /\ issues'[g] = issues[g]
    /\ cross'[f[1]] = CrossFileIssues(f[1], items')
    /\ SessionMoves(f[1], "collecting", session[f[1]].revision + 1)
    /\ session'[f[1]].batch = session[f[1]].batch

LEMMA SaveIsAbout ==
    ASSUME TablesOk, SchedulerOk, NEW w \in Workers, SaveParsedFile(w),
           NEW f, f = worker[w].file, NEW result, result = ParsedAs(f, version)
    PROVE  Saves(f, result)
<1>0. MaxRevision \in Nat
  BY ImportAssumption
<1>1. f \in Files /\ f[1] \in Sessions
  BY HeldFile DEF SaveParsedFile, AtStep
<1>2. /\ IsCollecting(f[1]) /\ session[f[1]].revision < MaxRevision
      /\ items' = ReplacedItems(f, result) /\ issues' = ReplacedIssues(f, result)
      /\ cross' = [cross EXCEPT ![f[1]] = CrossFileIssues(f[1], items')]
      /\ file' = [file EXCEPT ![f] = FinishParsingFile(result)]
      /\ session' = [session EXCEPT ![f[1]].revision = @ + 1]
  BY DEF SaveParsedFile, LockParsingFile
<1>3. /\ SessionMoves(f[1], "collecting", session[f[1]].revision + 1)
      /\ session'[f[1]].batch = session[f[1]].batch
  BY <1>1, <1>2, RevisionMoves DEF IsCollecting
<1>4. /\ DOMAIN items' = Files
      /\ items'[f] = ToSet(result.cards)
      /\ \A g \in Files \ {f} : items'[g] = items[g]
  BY <1>1, <1>2 DEF ReplacedItems, TablesOk
<1>5. /\ DOMAIN issues' = Files
      /\ issues'[f] = result.issues
      /\ \A g \in Files \ {f} : issues'[g] = issues[g]
  BY <1>1, <1>2 DEF ReplacedIssues, TablesOk
<1>6. /\ DOMAIN cross' = Sessions
      /\ cross'[f[1]] = CrossFileIssues(f[1], items')
      /\ \A t \in Sessions \ {f[1]} : cross'[t] = cross[t]
  BY <1>1, <1>2 DEF TablesOk
<1>7. /\ file' \in [Files -> FileRow]
      /\ file'[f].status = IF result.issues = {} THEN "valid" ELSE "invalid"
      /\ \A g \in Files \ {f} : file'[g] = file[g]
  <2>1. PICK status : status = IF result.issues = {} THEN "valid" ELSE "invalid"
    OBVIOUS
  <2>2. Touched(status) \in FileRow /\ Touched(status).status = status
    BY <2>1, TouchedRow DEF FileStatuses
  <2>3. file' = [file EXCEPT ![f] = Touched(status)]
    BY <1>2, <2>1 DEF FinishParsingFile
  <2>4. QED
    BY <1>1, <2>1, <2>2, <2>3 DEF TablesOk
<1>8. TablesOk'
  <2>1. /\ "collecting" \in SessionStatuses
        /\ session[f[1]].revision + 1 \in 0..MaxRevision + 1
        /\ session[f[1]].revision + 1 <= MaxRevision
    BY <1>0, <1>1, <1>2 DEF SessionStatuses, TablesOk, SessionRow
  <2>2. QED
    BY <1>1, <1>3, <1>4, <1>5, <1>6, <1>7, <2>1, TablesFromSession
<1>9. IsAbout(f[1])
  <2>1. ASSUME NEW t \in Sessions \ {f[1]} PROVE StaysAsItIs(t)
    <3>1. session'[t] = session[t] /\ cross'[t] = cross[t]
      BY <1>3, <1>6 DEF SessionMoves
    <3>2. \A g \in FilesOf(t) : g \in Files \ {f}
      BY FilesOfPairs
    <3>3. QED
      BY <1>4, <1>5, <1>7, <3>1, <3>2 DEF StaysAsItIs
  <2>2. QED
    BY <2>1 DEF IsAbout
<1>10. \A g \in Files \ {f} :
            file'[g] = file[g] /\ items'[g] = items[g] /\ issues'[g] = issues[g]
  BY <1>4, <1>5, <1>7
<1>11. /\ file'[f].status = IF result.issues = {} THEN "valid" ELSE "invalid"
       /\ items'[f] = ToSet(result.cards) /\ issues'[f] = result.issues
  BY <1>4, <1>5, <1>7
<1>12. QED
  BY Zenon, <1>1, <1>2, <1>3, <1>6, <1>8, <1>9, <1>10, <1>11 DEF Saves

\* The errors of the session s are skipped, which leaves the cards kept.
Continues(s, kept) ==
    /\ IsCollecting(s) /\ session[s].revision = screen.revision
    /\ TablesOk' /\ IsAbout(s)
    /\ items' = kept
    /\ \A f \in FilesOf(s) :
         /\ issues'[f] = {}
         /\ file'[f].status =
             IF file[f].status \in {"valid", "invalid"}
             THEN (IF kept[f] # {} THEN "valid" ELSE "abandoned")
             ELSE file[f].status
    /\ cross'[s] = CrossFileIssues(s, items')
    /\ SessionMoves(s, "collecting", session[s].revision + 1)
    /\ session'[s].batch = session[s].batch

LEMMA ContinueIsAbout ==
    ASSUME TablesOk, ContinueAfterErrors, NEW s \in Sessions, s = screen.session,
           NEW kept, kept = WithoutLaterBarcodes(s,
                                WithoutLaterVendors(s, WithoutErrorRows(s)))
    PROVE  Continues(s, kept)
<1>0. MaxRevision \in Nat
  BY ImportAssumption
<1>1. /\ IsCollecting(s) /\ session[s].revision = screen.revision
      /\ session[s].revision < MaxRevision
      /\ items' = kept
      /\ file' = [f \in Files |->
                    IF f[1] = s /\ file[f].status \in {"valid", "invalid"}
                    THEN Touched(IF kept[f] # {} THEN "valid" ELSE "abandoned")
                    ELSE file[f]]
      /\ issues' = [f \in Files |-> IF f[1] = s THEN {} ELSE issues[f]]
      /\ cross' = [cross EXCEPT ![s] = CrossFileIssues(s, kept)]
      /\ session' = [session EXCEPT ![s].revision = @ + 1]
  BY DEF ContinueAfterErrors, IsCurrent
<1>2. /\ SessionMoves(s, "collecting", session[s].revision + 1)
      /\ session'[s].batch = session[s].batch
  BY <1>1, RevisionMoves DEF IsCollecting
<1>3. /\ DOMAIN items' = Files
      /\ \A f \in Files : f[1] # s => items'[f] = items[f]
  <2>1. PICK its : its = WithoutErrorRows(s)
    OBVIOUS
  <2>2. DOMAIN its = Files /\ \A f \in Files : f[1] # s => its[f] = items[f]
    BY <2>1 DEF WithoutErrorRows
  <2>3. PICK once : once = WithoutLaterVendors(s, its)
    OBVIOUS
  <2>4. DOMAIN once = Files /\ \A f \in Files : f[1] # s => once[f] = its[f]
    BY <2>3 DEF WithoutLaterVendors
  <2>5. kept = WithoutLaterBarcodes(s, once)
    BY <2>1, <2>3
  <2>6. DOMAIN kept = Files /\ \A f \in Files : f[1] # s => kept[f] = once[f]
    BY <2>5 DEF WithoutLaterBarcodes
  <2>7. QED
    BY <1>1, <2>2, <2>4, <2>6
<1>4. /\ DOMAIN issues' = Files
      /\ \A f \in Files : f[1] # s => issues'[f] = issues[f]
      /\ \A f \in FilesOf(s) : issues'[f] = {}
  BY <1>1, FilesOfPairs
<1>5. /\ DOMAIN cross' = Sessions
      /\ cross'[s] = CrossFileIssues(s, items')
      /\ \A t \in Sessions \ {s} : cross'[t] = cross[t]
  BY <1>1 DEF TablesOk
<1>6. /\ file' \in [Files -> FileRow]
      /\ \A f \in Files : f[1] # s => file'[f] = file[f]
      /\ \A f \in FilesOf(s) :
            file'[f].status = IF file[f].status \in {"valid", "invalid"}
                              THEN (IF kept[f] # {} THEN "valid" ELSE "abandoned")
                              ELSE file[f].status
  <2>1. /\ Touched("valid") \in FileRow /\ Touched("valid").status = "valid"
        /\ Touched("abandoned") \in FileRow /\ Touched("abandoned").status = "abandoned"
    BY TouchedRow DEF FileStatuses
  <2>2. \A f \in Files : file[f] \in FileRow
    BY DEF TablesOk
  <2>3. \A f \in Files :
            \/ /\ f[1] = s /\ file[f].status \in {"valid", "invalid"}
               /\ \/ kept[f] # {} /\ file'[f] = Touched("valid")
                  \/ kept[f] = {} /\ file'[f] = Touched("abandoned")
            \/ ~(f[1] = s /\ file[f].status \in {"valid", "invalid"}) /\ file'[f] = file[f]
    BY <1>1
  <2>4. \A f \in Files : file'[f] \in FileRow
    BY <2>1, <2>2, <2>3
  <2>5. file' \in [Files -> FileRow]
    BY <1>1, <2>4
  <2>6. QED
    BY <2>1, <2>3, <2>5, FilesOfPairs
<1>7. TablesOk'
  <2>1. /\ "collecting" \in SessionStatuses
        /\ session[s].revision + 1 \in 0..MaxRevision + 1
        /\ session[s].revision + 1 <= MaxRevision
    BY <1>0, <1>1 DEF SessionStatuses, TablesOk, SessionRow
  <2>2. QED
    BY <1>2, <1>3, <1>4, <1>5, <1>6, <2>1, TablesFromSession
<1>8. IsAbout(s)
  BY <1>2, <1>3, <1>4, <1>5, <1>6, FilesOfPairs DEF IsAbout, StaysAsItIs, SessionMoves
<1>9. QED
  BY <1>1, <1>2, <1>4, <1>5, <1>6, <1>7, <1>8 DEF Continues

\* The session s is finalized.
Finalizes(s) ==
    /\ IsCollecting(s) /\ session[s].revision = screen.revision
    /\ FinalizeReadiness(s) /\ BarcodesAreUnique(s)
    /\ TablesOk' /\ IsAbout(s)
    /\ UNCHANGED <<file, items, issues, cross>>
    /\ SessionMoves(s, "finalized", session[s].revision + 1)
    /\ session'[s].batch = FrozenBatch(s)

LEMMA FinalizeIsAbout ==
    ASSUME TablesOk, Finalize, NEW s \in Sessions, s = screen.session
    PROVE  Finalizes(s)
<1>0. MaxRevision \in Nat
  BY ImportAssumption
<1>1. /\ IsCollecting(s) /\ session[s].revision = screen.revision
      /\ FinalizeReadiness(s) /\ BarcodesAreUnique(s)
      /\ UNCHANGED <<file, items, issues, cross>>
      /\ session' = [session EXCEPT ![s] =
                [status |-> "finalized", revision |-> @.revision + 1,
                 batch |-> FrozenBatch(s)]]
  BY DEF Finalize, IsCurrent
<1>2. /\ SessionMoves(s, "finalized", session[s].revision + 1)
      /\ session'[s].batch = FrozenBatch(s)
  BY <1>1, FinalizeMoves
<1>3. TablesOk'
  <2>1. /\ "finalized" \in SessionStatuses
        /\ session[s].revision + 1 \in 0..MaxRevision + 1
    BY <1>0, <1>1 DEF SessionStatuses, TablesOk, SessionRow, IsCollecting
  <2>2. /\ file' \in [Files -> FileRow] /\ DOMAIN items' = Files /\ DOMAIN issues' = Files
        /\ DOMAIN cross' = Sessions
    BY <1>1 DEF TablesOk
  <2>3. QED
    BY <1>2, <2>1, <2>2, TablesFromSession
<1>4. IsAbout(s)
  BY <1>1, <1>2 DEF IsAbout, StaysAsItIs, SessionMoves
<1>5. QED
  BY <1>1, <1>2, <1>3, <1>4 DEF Finalizes

\* Steps that change no table, or only the age of files.
LEMMA OthersAreAboutNothing ==
    ASSUME TablesOk,
           \/ UNCHANGED tables
           \/ \E f \in Files : ParsingGetsStale(f)
           \/ Restart
    PROVE  TablesOk' /\ \A s \in Sessions : StaysAsItIs(s)
<1>1. CASE UNCHANGED tables
  BY <1>1 DEF tables, TablesOk, StaysAsItIs
<1>2. ASSUME NEW f \in Files, ParsingGetsStale(f)
      PROVE  TablesOk' /\ \A s \in Sessions : StaysAsItIs(s)
  <2>1. PICK r : r = [file[f] EXCEPT !.stale = TRUE]
    OBVIOUS
  <2>2. r \in FileRow /\ r.status = file[f].status
    BY <2>1 DEF TablesOk, FileRow
  <2>3. file' = [file EXCEPT ![f] = r] /\ UNCHANGED <<session, items, issues, cross>>
    BY <1>2, <2>1 DEF ParsingGetsStale, TablesOk
  <2>4. /\ TablesOk' /\ file'[f] = r
        /\ \A g \in Files \ {f} : file'[g] = file[g]
    BY <2>2, <2>3, FileIsAbout
  <2>5. QED
    BY <2>2, <2>3, <2>4, FilesOfPairs DEF StaysAsItIs
<1>3. CASE Restart
  <2>1. \A f \in Files : /\ file'[f] = [file[f] EXCEPT !.old = file[f].status # "none"]
                         /\ file[f] \in FileRow
    BY <1>3 DEF Restart, TablesOk
  <2>2. \A f \in Files : file'[f] \in FileRow /\ file'[f].status = file[f].status
    BY <2>1 DEF FileRow
  <2>3. /\ file' \in [Files -> FileRow]
        /\ UNCHANGED <<session, items, issues, cross>>
    BY <1>3, <2>2 DEF Restart
  <2>4. TablesOk'
    BY <2>3, TablesFromFiles
  <2>5. QED
    BY <2>2, <2>3, <2>4, FilesOfPairs DEF StaysAsItIs
<1>4. QED
  BY <1>1, <1>2, <1>3


-----------------------------------------------------------------------------
(* Cross-file issues.                                                      *)

\* Two cards of different files have something in common.
InTwoFiles(s, its, f, c, g, d) ==
    /\ f \in FilesOf(s) /\ g \in FilesOf(s) /\ f # g
    /\ c \in its[f] /\ d \in its[g]

LEMMA CardsInFiles ==
    ASSUME NEW s, NEW its
    PROVE  \A c : c \in CardsIn(s, its) <=> \E f \in FilesOf(s) : c \in its[f]
BY DEF CardsIn

LEMMA CrossOfSameItems ==
    ASSUME NEW s, NEW its, NEW others, \A f \in FilesOf(s) : its[f] = others[f]
    PROVE  CrossFileIssues(s, its) = CrossFileIssues(s, others)
<1>1. CardsIn(s, its) = CardsIn(s, others)
  BY CardsInFiles
<1>2. QED
  BY <1>1 DEF CrossFileIssues

LEMMA NoCrossIssue ==
    ASSUME NEW s, NEW its
    PROVE  CrossFileIssues(s, its) = {} <=>
            \A f, g, c, d : InTwoFiles(s, its, f, c, g, d) => Apart(c, d)
<1> DEFINE vendors == {k \in UNION {{c.vendor} : c \in CardsIn(s, its)} :
                        \E f, g \in FilesOf(s) :
                           /\ f # g
                           /\ \E c \in its[f] : k \in {c.vendor}
                           /\ \E c \in its[g] : k \in {c.vendor}}
           codes == {k \in UNION {Barcodes(c) : c \in CardsIn(s, its)} :
                        \E f, g \in FilesOf(s) :
                           /\ f # g
                           /\ \E c \in its[f] : k \in Barcodes(c)
                           /\ \E c \in its[g] : k \in Barcodes(c)}
<1>1. CrossFileIssues(s, its) =
        {[key |-> k, code |-> "vendor_code_across_files"] : k \in vendors}
            \cup {[key |-> k, code |-> "barcode_across_files"] : k \in codes}
  BY DEF CrossFileIssues
<1>2. CrossFileIssues(s, its) = {} <=> vendors = {} /\ codes = {}
  <2> HIDE DEF vendors, codes
  <2>1. QED
    BY <1>1
<1>3. ASSUME vendors = {}, codes = {}, NEW f, NEW g, NEW c, NEW d,
             InTwoFiles(s, its, f, c, g, d)
      PROVE  Apart(c, d)
  <2>1. f \in FilesOf(s) /\ g \in FilesOf(s) /\ f # g /\ c \in its[f] /\ d \in its[g]
    BY <1>3 DEF InTwoFiles
  <2>2. c \in CardsIn(s, its)
    BY <2>1, CardsInFiles
  <2>3. c.vendor # d.vendor
    <3>1. SUFFICES ASSUME c.vendor = d.vendor PROVE FALSE
      OBVIOUS
    <3>2. c.vendor \in vendors
      BY <2>1, <2>2, <3>1
    <3>3. QED
      BY <1>3, <3>2
  <2>4. ASSUME NEW k, k \in Barcodes(c), k \in Barcodes(d) PROVE FALSE
    <3>1. k \in codes
      BY <2>1, <2>2, <2>4
    <3>2. QED
      BY <1>3, <3>1
  <2>5. QED
    BY <2>3, <2>4 DEF Apart
<1>4. ASSUME \A f, g, c, d : InTwoFiles(s, its, f, c, g, d) => Apart(c, d)
      PROVE  vendors = {} /\ codes = {}
  <2>1. ASSUME NEW k \in vendors PROVE FALSE
    <3>1. PICK f \in FilesOf(s), g \in FilesOf(s) :
                f # g /\ (\E c \in its[f] : k = c.vendor) /\ (\E c \in its[g] : k = c.vendor)
      BY <2>1
    <3>2. PICK c \in its[f], d \in its[g] : c.vendor = d.vendor
      BY <3>1
    <3>3. QED
      BY <1>4, <3>1, <3>2 DEF InTwoFiles, Apart
  <2>2. ASSUME NEW k \in codes PROVE FALSE
    <3>1. PICK f \in FilesOf(s), g \in FilesOf(s) :
                f # g /\ (\E c \in its[f] : k \in Barcodes(c)) /\ (\E c \in its[g] : k \in Barcodes(c))
      BY <2>2
    <3>2. PICK c \in its[f], d \in its[g] : k \in Barcodes(c) /\ k \in Barcodes(d)
      BY <3>1
    <3>3. InTwoFiles(s, its, f, c, g, d)
      BY <3>1, <3>2 DEF InTwoFiles
    <3>4. Apart(c, d)
      BY <1>4, <3>3
    <3>5. QED
      BY <3>2, <3>4 DEF Apart
  <2>3. QED
    BY <2>1, <2>2
<1>5. QED
  <2> HIDE DEF vendors, codes
  <2>1. QED
    BY <1>2, <1>3, <1>4


-----------------------------------------------------------------------------
(* Aggregation: after n rows the cards are what those rows say.            *)

LEMMA LeastNatural ==
    ASSUME NEW S, S \subseteq Nat, S # {}
    PROVE  \E m \in S : \A n \in S : m <= n
<1>1. PICK R : R = OpToRel(<, Nat)
  OBVIOUS
<1>2. IsWellFoundedOn(R, Nat)
  BY <1>1, NatLessThanWellFounded
<1>3. PICK m \in S : \A n \in S : ~(<<n, m>> \in R)
  BY <1>2, WFMin
<1>4. ASSUME NEW n \in S PROVE m <= n
  <2>1. n \in Nat /\ m \in Nat /\ <<n, m>> \in Nat \X Nat
    OBVIOUS
  <2>2. n < m => <<n, m>> \in R
    BY <1>1, <2>1 DEF OpToRel
  <2>3. QED
    BY <1>3, <2>1, <2>2
<1>5. QED
  BY <1>4

\* What AggregateParsedFile has made of the first n rows.
AfterRows(parsed, g, n) ==
    g = [k \in 0..n |-> IF k = 0 THEN Start(parsed) ELSE AddRow(g[k - 1], parsed.rows[k])]

LEMMA RowsCanBeAdded ==
    ASSUME NEW parsed, NEW N \in Nat
    PROVE  \E g : AfterRows(parsed, g, N)
<1> DEFINE bad == {n \in 0..N : ~\E g : AfterRows(parsed, g, n)}
<1>1. SUFFICES ASSUME bad # {} PROVE FALSE
  <2>1. N \in 0..N
    OBVIOUS
  <2>2. QED
    BY <2>1
<1>2. PICK m \in bad : \A n \in bad : m <= n
  <2>1. bad \subseteq Nat
    OBVIOUS
  <2> HIDE DEF bad
  <2>2. QED
    BY <1>1, <2>1, LeastNatural
<1>3. m \in 0..N /\ ~\E g : AfterRows(parsed, g, m)
  BY <1>2
<1>4. CASE m = 0
  <2>1. PICK g : g = [k \in 0..0 |-> Start(parsed)]
    OBVIOUS
  <2>2. AfterRows(parsed, g, 0)
    BY <2>1 DEF AfterRows
  <2>3. QED
    BY <1>3, <1>4, <2>2
<1>5. CASE m # 0
  <2>1. m - 1 \in 0..N /\ ~(m <= m - 1)
    BY <1>3, <1>5
  <2>2. m - 1 \notin bad
    BY <1>2, <2>1
  <2>3. PICK h : AfterRows(parsed, h, m - 1)
    BY <2>1, <2>2
  <2>4. PICK g : g = [k \in 0..m |-> IF k = m THEN AddRow(h[m - 1], parsed.rows[m]) ELSE h[k]]
    OBVIOUS
  <2>5. AfterRows(parsed, g, m)
    <3>1. \A k \in 0..m : k # m => k \in 0..m - 1
      BY <1>3
    <3>2. \A k \in 0..m : k # 0 => k - 1 \in 0..m /\ k - 1 # m
      BY <1>3
    <3>3. ASSUME NEW k \in 0..m
          PROVE  g[k] = IF k = 0 THEN Start(parsed) ELSE AddRow(g[k - 1], parsed.rows[k])
      <4>1. CASE k = m
        <5>1. g[k - 1] = h[k - 1]
          BY <1>5, <2>4, <3>2, <4>1
        <5>2. QED
          BY <1>5, <2>4, <4>1, <5>1
      <4>2. CASE k # m /\ k = 0
        <5>1. g[k] = h[k] /\ k \in 0..m - 1
          BY <2>4, <3>1, <4>2
        <5>2. h[k] = Start(parsed)
          BY <2>3, <4>2, <5>1 DEF AfterRows
        <5>3. QED
          BY <4>2, <5>1, <5>2
      <4>3. CASE k # m /\ k # 0
        <5>1. g[k] = h[k] /\ k \in 0..m - 1 /\ g[k - 1] = h[k - 1]
          BY <2>4, <3>1, <3>2, <4>3
        <5>2. h[k] = AddRow(h[k - 1], parsed.rows[k])
          BY <2>3, <4>3, <5>1 DEF AfterRows
        <5>3. QED
          BY <4>3, <5>1, <5>2
      <4>4. QED
        BY <4>1, <4>2, <4>3
    <3>4. g = [k \in 0..m |-> g[k]]
      BY <2>4
    <3>5. QED
      BY <3>3, <3>4 DEF AfterRows
  <2>6. QED
    BY <1>3, <2>5
<1>6. QED
  BY <1>4, <1>5

\* The result of the whole file is reached by adding one row after the other.
LEMMA AggregationByRows ==
    ASSUME NEW parsed, Len(parsed.rows) \in Nat
    PROVE  \E g : /\ AfterRows(parsed, g, Len(parsed.rows))
                  /\ AggregateParsedFile(parsed) = g[Len(parsed.rows)]
<1>1. PICK N : N = Len(parsed.rows)
  OBVIOUS
<1>2. PICK h : AfterRows(parsed, h, N)
  BY <1>1, RowsCanBeAdded
<1> DEFINE g == CHOOSE g : g = [k \in 0..N |-> IF k = 0 THEN Start(parsed)
                                               ELSE AddRow(g[k - 1], parsed.rows[k])]
<1>3. g = [k \in 0..N |-> IF k = 0 THEN Start(parsed) ELSE AddRow(g[k - 1], parsed.rows[k])]
  BY <1>2 DEF AfterRows
<1>4. AfterRows(parsed, g, N)
  <2> HIDE DEF g
  <2>1. QED
    BY <1>3 DEF AfterRows
<1>5. AggregateParsedFile(parsed) = g[N]
  BY <1>1 DEF AggregateParsedFile
<1>6. QED
  BY <1>1, <1>4, <1>5


VendorsUpTo(parsed, n) == {parsed.rows[i].vendor : i \in 1..n}

IsFirstRow(parsed, k) == \A j \in 1..k - 1 : parsed.rows[j].vendor # parsed.rows[k].vendor

\* Of the first n rows, those of the card that row k starts.
RowsOfCard(parsed, n, k) ==
    {i \in 1..n : /\ parsed.rows[i].vendor = parsed.rows[k].vendor
                  /\ parsed.rows[i].fields = parsed.rows[k].fields}

NumbersOf(parsed, places) == {parsed.rows[i].row : i \in places}

SkusOf(parsed, places) == UNION {{parsed.rows[i].size} \X parsed.rows[i].codes : i \in places}

\* The card that row k starts, as the first n rows tell it.
CardAt(parsed, n, k) ==
    [pos |-> Cardinality(VendorsUpTo(parsed, k)),
     rows |-> NumbersOf(parsed, RowsOfCard(parsed, n, k)),
     vendor |-> parsed.rows[k].vendor, fields |-> parsed.rows[k].fields,
     skus |-> SkusOf(parsed, RowsOfCard(parsed, n, k))]

CodesApart(parsed, n) ==
    \A i, j \in 1..n : i # j => parsed.rows[i].codes \cap parsed.rows[j].codes = {}

\* Barcodes are remembered and a repeated one is an issue.
AreChecked(parsed, n, seen, found) ==
    /\ \A i \in 1..n : \A x \in parsed.rows[i].codes : x \in seen
    /\ found = {} => parsed.issues = {} /\ CodesApart(parsed, n)

CardsAre(parsed, n, cards) ==
    \A i \in 1..Len(cards) : \E k \in 1..n :
        IsFirstRow(parsed, k) /\ cards[i] = CardAt(parsed, n, k) /\ cards[i].pos = i

HasCardOfEveryRow(parsed, n, cards) ==
    \A k \in 1..n : \E i \in 1..Len(cards) : cards[i].vendor = parsed.rows[k].vendor

Result(cards, issues_, seen) == [cards |-> cards, issues |-> issues_, seen |-> seen]

\* The result after n rows.
IsAfter(parsed, n, r) ==
    /\ r = Result(r.cards, r.issues, r.seen)
    /\ \E S : r.cards \in Seq(S)
    /\ IsFiniteSet(VendorsUpTo(parsed, n))
    /\ Len(r.cards) = Cardinality(VendorsUpTo(parsed, n))
    /\ CardsAre(parsed, n, r.cards)
    /\ HasCardOfEveryRow(parsed, n, r.cards)
    /\ AreChecked(parsed, n, r.seen, r.issues)
    /\ \A i \in 1..Len(r.cards) : IsFiniteSet(r.cards[i].skus)

LEMMA OneMore ==
    ASSUME NEW n \in Nat
    PROVE  /\ n + 1 \in Nat /\ n + 1 \in 1..n + 1 /\ (n + 1) - 1 = n
           /\ \A i : i \in 1..n + 1 <=> i \in 1..n \/ i = n + 1
           /\ n + 1 \notin 1..n
OBVIOUS

LEMMA VendorsGrow ==
    ASSUME NEW parsed, NEW n \in Nat
    PROVE  VendorsUpTo(parsed, n + 1) = VendorsUpTo(parsed, n) \cup {parsed.rows[n + 1].vendor}
<1>1. PICK m : m = n + 1
  OBVIOUS
<1>2. \A i : i \in 1..m <=> i \in 1..n \/ i = m
  BY <1>1, OneMore
<1>3. VendorsUpTo(parsed, m) = VendorsUpTo(parsed, n) \cup {parsed.rows[m].vendor}
  BY <1>2 DEF VendorsUpTo
<1>4. QED
  BY <1>1, <1>3

LEMMA NoPlaces ==
    ASSUME NEW parsed
    PROVE  VendorsUpTo(parsed, 0) = {} /\ IsFiniteSet({}) /\ Cardinality({}) = 0
<1>1. \A i : i \notin 1..0
  OBVIOUS
<1>2. VendorsUpTo(parsed, 0) = {}
  BY <1>1 DEF VendorsUpTo
<1>3. QED
  BY <1>2, FS_EmptySet

\* Row n + 1 is not of the card.
LEMMA CardStays ==
    ASSUME NEW parsed, NEW n \in Nat, NEW k \in 1..n,
           ~(/\ parsed.rows[n + 1].vendor = parsed.rows[k].vendor
             /\ parsed.rows[n + 1].fields = parsed.rows[k].fields)
    PROVE  CardAt(parsed, n + 1, k) = CardAt(parsed, n, k)
<1>1. RowsOfCard(parsed, n + 1, k) = RowsOfCard(parsed, n, k)
  BY OneMore DEF RowsOfCard
<1>2. QED
  BY <1>1 DEF CardAt

LEMMA JoinedFields ==
    ASSUME NEW c, NEW row,
           c = [pos |-> c.pos, rows |-> c.rows, vendor |-> c.vendor, fields |-> c.fields,
                skus |-> c.skus]
    PROVE  Joined(c, row) =
            [pos |-> c.pos, rows |-> c.rows \cup {row.row}, vendor |-> c.vendor,
             fields |-> c.fields, skus |-> c.skus \cup ({row.size} \X row.codes)]
<1>1. PICK p, rs, v, fs, ks : /\ p = c.pos /\ rs = c.rows /\ v = c.vendor
                              /\ fs = c.fields /\ ks = c.skus
  OBVIOUS
<1>2. c = [pos |-> p, rows |-> rs, vendor |-> v, fields |-> fs, skus |-> ks]
  BY <1>1
<1>3. Joined(c, row) = [pos |-> p, rows |-> rs \cup {row.row}, vendor |-> v,
                        fields |-> fs, skus |-> ks \cup ({row.size} \X row.codes)]
  <2>1. PICK d : d = [c EXCEPT !.rows = c.rows \cup {row.row}]
    OBVIOUS
  <2>2. d = [pos |-> p, rows |-> rs \cup {row.row}, vendor |-> v, fields |-> fs, skus |-> ks]
    BY <1>2, <2>1
  <2>3. Joined(c, row) = [d EXCEPT !.skus = ks \cup ({row.size} \X row.codes)]
    BY <1>2, <2>1 DEF Joined
  <2>4. QED
    BY <2>2, <2>3
<1>4. QED
  BY <1>1, <1>3

\* Row n + 1 is of the card.
LEMMA CardGrows ==
    ASSUME NEW parsed, NEW n \in Nat, NEW k \in 1..n,
           parsed.rows[n + 1].vendor = parsed.rows[k].vendor,
           parsed.rows[n + 1].fields = parsed.rows[k].fields
    PROVE  CardAt(parsed, n + 1, k) = Joined(CardAt(parsed, n, k), parsed.rows[n + 1])
<1>0. PICK row, c : row = parsed.rows[n + 1] /\ c = CardAt(parsed, n, k)
  OBVIOUS
<1>1. PICK old : old = RowsOfCard(parsed, n, k)
  OBVIOUS
<1>2. RowsOfCard(parsed, n + 1, k) = old \cup {n + 1}
  BY <1>1, OneMore DEF RowsOfCard
<1>3. NumbersOf(parsed, old \cup {n + 1}) = NumbersOf(parsed, old) \cup {row.row}
  BY <1>0 DEF NumbersOf
<1>4. SkusOf(parsed, old \cup {n + 1}) = SkusOf(parsed, old) \cup ({row.size} \X row.codes)
  <2> DEFINE skus(i) == {parsed.rows[i].size} \X parsed.rows[i].codes
  <2>1. {skus(i) : i \in old \cup {n + 1}} = {skus(i) : i \in old} \cup {skus(n + 1)}
    <3> HIDE DEF skus
    <3>1. QED
      OBVIOUS
  <2>2. skus(n + 1) = {row.size} \X row.codes
    BY <1>0
  <2>3. SkusOf(parsed, old \cup {n + 1}) = UNION {skus(i) : i \in old \cup {n + 1}}
        /\ SkusOf(parsed, old) = UNION {skus(i) : i \in old}
    BY DEF SkusOf
  <2> HIDE DEF skus
  <2>4. UNION ({skus(i) : i \in old} \cup {skus(n + 1)})
            = (UNION {skus(i) : i \in old}) \cup skus(n + 1)
    OBVIOUS
  <2>5. QED
    BY <2>1, <2>2, <2>3, <2>4
<1>5. CardAt(parsed, n + 1, k) =
        [pos |-> c.pos, rows |-> c.rows \cup {row.row}, vendor |-> c.vendor,
         fields |-> c.fields, skus |-> c.skus \cup ({row.size} \X row.codes)]
  BY <1>0, <1>1, <1>2, <1>3, <1>4 DEF CardAt
<1>6. c = [pos |-> c.pos, rows |-> c.rows, vendor |-> c.vendor, fields |-> c.fields,
           skus |-> c.skus]
  BY <1>0 DEF CardAt
<1>7. Joined(c, row) =
        [pos |-> c.pos, rows |-> c.rows \cup {row.row}, vendor |-> c.vendor,
         fields |-> c.fields, skus |-> c.skus \cup ({row.size} \X row.codes)]
  BY <1>6, JoinedFields
<1>8. QED
  BY <1>0, <1>5, <1>7

\* Row n + 1 starts a card.
LEMMA CardStarts ==
    ASSUME NEW parsed, NEW n \in Nat,
           \A j \in 1..n : parsed.rows[j].vendor # parsed.rows[n + 1].vendor,
           IsFiniteSet(VendorsUpTo(parsed, n))
    PROVE  /\ IsFirstRow(parsed, n + 1)
           /\ CardAt(parsed, n + 1, n + 1)
                = CardOf(parsed.rows[n + 1], Cardinality(VendorsUpTo(parsed, n)) + 1)
<1>0. PICK row : row = parsed.rows[n + 1]
  OBVIOUS
<1>1. IsFirstRow(parsed, n + 1)
  BY OneMore DEF IsFirstRow
<1>2. RowsOfCard(parsed, n + 1, n + 1) = {n + 1}
  BY OneMore DEF RowsOfCard
<1>3. NumbersOf(parsed, {n + 1}) = {row.row}
  BY <1>0 DEF NumbersOf
<1>4. SkusOf(parsed, {n + 1}) = {row.size} \X row.codes
  <2> DEFINE skus(i) == {parsed.rows[i].size} \X parsed.rows[i].codes
  <2>1. SkusOf(parsed, {n + 1}) = UNION {skus(i) : i \in {n + 1}}
    BY DEF SkusOf
  <2>2. skus(n + 1) = {row.size} \X row.codes
    BY <1>0
  <2> HIDE DEF skus
  <2>3. UNION {skus(i) : i \in {n + 1}} = skus(n + 1)
    OBVIOUS
  <2>4. QED
    BY <2>1, <2>2, <2>3
<1>5. Cardinality(VendorsUpTo(parsed, n + 1)) = Cardinality(VendorsUpTo(parsed, n)) + 1
  <2>1. row.vendor \notin VendorsUpTo(parsed, n)
    BY <1>0 DEF VendorsUpTo
  <2>2. VendorsUpTo(parsed, n + 1) = VendorsUpTo(parsed, n) \cup {row.vendor}
    BY <1>0, VendorsGrow
  <2>3. Cardinality(VendorsUpTo(parsed, n) \cup {row.vendor})
            = Cardinality(VendorsUpTo(parsed, n)) + 1
    BY <2>1, FS_AddElement
  <2>4. QED
    BY <2>2, <2>3
<1>6. QED
  BY <1>0, <1>1, <1>2, <1>3, <1>4, <1>5 DEF CardAt, CardOf


\* The three outcomes of a turn of the loop.
Outcome(cards, more, seen, row, next) ==
    \/ /\ \A i \in 1..Len(cards) : cards[i].vendor # row.vendor
       /\ next = Result(Append(cards, CardOf(row, Len(cards) + 1)), more, seen \cup row.codes)
    \/ \E i \in 1..Len(cards) :
        /\ cards[i].vendor = row.vendor /\ cards[i].fields # row.fields
        /\ next = Result(cards, more \cup
                    {[row |-> row.row, code |-> "vendor_code_fields_conflict"]},
                    seen \cup row.codes)
    \/ \E i \in 1..Len(cards) :
        /\ cards[i].vendor = row.vendor /\ cards[i].fields = row.fields
        /\ next = Result([cards EXCEPT ![i] = Joined(cards[i], row)], more,
                         seen \cup row.codes)

LEMMA AddRowCases ==
    ASSUME NEW r, NEW row, NEW S, r.cards \in Seq(S),
           r = Result(r.cards, r.issues, r.seen)
    PROVE  Outcome(r.cards, r.issues \cup DuplicateBarcodeIssues(r, row), r.seen, row,
                   AddRow(r, row))
<1>0. PICK cards, seen, more, next :
        /\ cards = r.cards /\ seen = r.seen /\ next = AddRow(r, row)
        /\ more = r.issues \cup DuplicateBarcodeIssues(r, row)
  OBVIOUS
<1>1. PICK checked : checked = [r EXCEPT
            !.issues = @ \cup DuplicateBarcodeIssues(r, row),
            !.seen = @ \cup row.codes]
  OBVIOUS
<1>2. checked = Result(cards, more, seen \cup row.codes)
  BY <1>0, <1>1 DEF Result
<1>3. r.cards = cards /\ DOMAIN cards = 1..Len(cards)
  BY <1>0
<1>4. \A i : i \in CardIndex(r, row) <=> i \in 1..Len(cards) /\ cards[i].vendor = row.vendor
  BY <1>3 DEF CardIndex
<1>5. CASE CardIndex(r, row) = {}
  <2>1. next = [checked EXCEPT !.cards = Append(@, CardOf(row, Len(@) + 1))]
    BY <1>0, <1>1, <1>5 DEF AddRow
  <2>2. next = Result(Append(cards, CardOf(row, Len(cards) + 1)), more, seen \cup row.codes)
    BY <1>2, <2>1 DEF Result
  <2>3. QED
    BY <1>0, <1>4, <1>5, <2>2 DEF Outcome
<1>6. CASE CardIndex(r, row) # {}
  <2>1. PICK i : i = CHOOSE j \in CardIndex(r, row) : TRUE
    OBVIOUS
  <2>2. i \in CardIndex(r, row)
    BY <1>6, <2>1
  <2>3. CASE ConflictingCardFields(cards[i], row)
    <3>1. next = [checked EXCEPT !.issues = @ \cup
                        {[row |-> row.row, code |-> "vendor_code_fields_conflict"]}]
      BY <1>0, <1>1, <1>3, <1>6, <2>1, <2>3 DEF AddRow
    <3>2. next = Result(cards, more \cup
                    {[row |-> row.row, code |-> "vendor_code_fields_conflict"]},
                    seen \cup row.codes)
      BY <1>2, <3>1 DEF Result
    <3>3. QED
      BY <1>0, <1>4, <2>2, <2>3, <3>2 DEF ConflictingCardFields, Outcome
  <2>4. CASE ~ConflictingCardFields(cards[i], row)
    <3>1. next = [checked EXCEPT !.cards[i] = Joined(@, row)]
      BY <1>0, <1>1, <1>3, <1>6, <2>1, <2>4 DEF AddRow
    <3>2. next = Result([cards EXCEPT ![i] = Joined(cards[i], row)], more,
                        seen \cup row.codes)
      <4>1. checked.cards = cards /\ i \in DOMAIN cards
        BY <1>2, <1>3, <1>4, <2>2 DEF Result
      <4>2. next = [checked EXCEPT !.cards = [cards EXCEPT ![i] = Joined(cards[i], row)]]
        BY <1>2, <3>1, <4>1 DEF Result
      <4>3. QED
        BY <1>2, <4>2 DEF Result
    <3>3. QED
      BY <1>0, <1>4, <2>2, <2>4, <3>2 DEF ConflictingCardFields, Outcome
  <2>5. QED
    BY <2>3, <2>4
<1>7. QED
  BY <1>5, <1>6


\* The vendor codes of the cards are those of the rows, each once.
LEMMA CardsByVendor ==
    ASSUME NEW parsed, NEW n \in Nat, NEW cards, Len(cards) \in Nat,
           CardsAre(parsed, n, cards), HasCardOfEveryRow(parsed, n, cards)
    PROVE  /\ \A i, j \in 1..Len(cards) : cards[i].vendor = cards[j].vendor => i = j
           /\ \A v : (\A i \in 1..Len(cards) : cards[i].vendor # v)
                        => \A k \in 1..n : parsed.rows[k].vendor # v
<1>1. ASSUME NEW i \in 1..Len(cards), NEW j \in 1..Len(cards), cards[i].vendor = cards[j].vendor
      PROVE  i = j
  <2>1. PICK k \in 1..n : /\ IsFirstRow(parsed, k) /\ cards[i] = CardAt(parsed, n, k)
                          /\ cards[i].pos = i
    BY DEF CardsAre
  <2>2. PICK l \in 1..n : /\ IsFirstRow(parsed, l) /\ cards[j] = CardAt(parsed, n, l)
                          /\ cards[j].pos = j
    BY DEF CardsAre
  <2>3. parsed.rows[k].vendor = parsed.rows[l].vendor
    BY <1>1, <2>1, <2>2 DEF CardAt
  <2>4. k = l
    BY <2>1, <2>2, <2>3 DEF IsFirstRow
  <2>5. QED
    BY <2>1, <2>2, <2>4
<1>2. ASSUME NEW v, \A i \in 1..Len(cards) : cards[i].vendor # v, NEW k \in 1..n
      PROVE  parsed.rows[k].vendor # v
  BY <1>2 DEF HasCardOfEveryRow
<1>3. QED
  BY <1>1, <1>2

LEMMA CodesAreChecked ==
    ASSUME NEW parsed, NEW n \in Nat, NEW r, IsAfter(parsed, n, r)
    PROVE  AreChecked(parsed, n + 1, r.seen \cup parsed.rows[n + 1].codes,
                      r.issues \cup DuplicateBarcodeIssues(r, parsed.rows[n + 1]))
<1> USE DEF AreChecked
<1>0. PICK row, more : /\ row = parsed.rows[n + 1]
                       /\ more = r.issues \cup DuplicateBarcodeIssues(r, row)
  OBVIOUS
<1>1. \A i \in 1..n + 1 : \A x \in parsed.rows[i].codes : x \in r.seen \cup row.codes
  BY <1>0, OneMore DEF IsAfter
<1>2. ASSUME more = {} PROVE parsed.issues = {} /\ CodesApart(parsed, n + 1)
  <2>1. r.issues = {} /\ DuplicateBarcodeIssues(r, row) = {}
    BY <1>0, <1>2
  <2>2. row.codes \cap r.seen = {}
    BY <2>1 DEF DuplicateBarcodeIssues
  <2>3. \A i \in 1..n : parsed.rows[i].codes \cap row.codes = {}
    BY <2>2 DEF IsAfter
  <2>4. CodesApart(parsed, n + 1)
    BY <1>0, <2>1, <2>3, OneMore DEF CodesApart, IsAfter
  <2>5. QED
    BY <2>1, <2>4 DEF IsAfter
<1>3. QED
  BY <1>0, <1>1, <1>2

LEMMA OneProduct ==
    ASSUME NEW x, NEW T, IsFiniteSet(T)
    PROVE  IsFiniteSet({x} \X T)
<1>1. IsFiniteSet({x})
  BY FS_Singleton
<1>2. QED
  BY <1>1, FS_Product

LEMMA AddRowKeeps ==
    ASSUME NEW parsed, NEW n \in Nat, NEW r, IsAfter(parsed, n, r),
           IsFiniteSet(parsed.rows[n + 1].codes)
    PROVE  IsAfter(parsed, n + 1, AddRow(r, parsed.rows[n + 1]))
<1>0. PICK row, next : row = parsed.rows[n + 1] /\ next = AddRow(r, row)
  OBVIOUS
<1> DEFINE joins == {row.size} \X row.codes
<1>19. IsFiniteSet(joins)
  <2>1. IsFiniteSet(row.codes)
    BY <1>0
  <2>2. QED
    BY <2>1, OneProduct
<1> HIDE DEF joins
<1>1. PICK cards, found, seen, more :
        /\ cards = r.cards /\ found = r.issues /\ seen = r.seen
        /\ more = found \cup DuplicateBarcodeIssues(r, row)
  OBVIOUS
<1>2. r = Result(cards, found, seen)
  BY <1>1 DEF IsAfter
<1>3. PICK S : cards \in Seq(S)
  BY <1>1 DEF IsAfter
<1>4. PICK vendors : vendors = VendorsUpTo(parsed, n)
  OBVIOUS
<1>5. /\ IsFiniteSet(vendors) /\ Len(cards) = Cardinality(vendors)
      /\ Len(cards) \in Nat /\ DOMAIN cards = 1..Len(cards)
      /\ CardsAre(parsed, n, cards) /\ HasCardOfEveryRow(parsed, n, cards)
      /\ \A i \in 1..Len(cards) : IsFiniteSet(cards[i].skus)
  BY <1>1, <1>3, <1>4 DEF IsAfter
<1>6. AreChecked(parsed, n + 1, seen \cup row.codes, more)
  BY <1>0, <1>1, CodesAreChecked
<1>7. VendorsUpTo(parsed, n + 1) = vendors \cup {row.vendor}
  BY <1>0, <1>4, VendorsGrow
<1>8. /\ \A i, j \in 1..Len(cards) : cards[i].vendor = cards[j].vendor => i = j
      /\ \A v : (\A i \in 1..Len(cards) : cards[i].vendor # v)
                   => \A k \in 1..n : parsed.rows[k].vendor # v
  BY <1>5, CardsByVendor
<1>9. \A k \in 1..n : k \in 1..n + 1
  BY OneMore
<1> DEFINE GoesOn(all, news) ==
        /\ \E T : all \in Seq(T)
        /\ next = Result(all, news, seen \cup row.codes)
        /\ news = {} => more = {}
        /\ Len(all) = Cardinality(vendors \cup {row.vendor})
        /\ IsFiniteSet(vendors \cup {row.vendor})
        /\ CardsAre(parsed, n + 1, all) /\ HasCardOfEveryRow(parsed, n + 1, all)
        /\ \A i \in 1..Len(all) : IsFiniteSet(all[i].skus)
<1>10. ASSUME NEW all, NEW news, GoesOn(all, news)
       PROVE  IsAfter(parsed, n + 1, next)
  <2>1. next.cards = all /\ next.issues = news /\ next.seen = seen \cup row.codes
    BY <1>10 DEF Result
  <2>2. next = Result(next.cards, next.issues, next.seen)
    BY <1>10, <2>1
  <2>3. AreChecked(parsed, n + 1, next.seen, next.issues)
    BY <1>6, <1>10, <2>1 DEF AreChecked
  <2>4. QED
    BY <1>7, <1>10, <2>1, <2>2, <2>3 DEF IsAfter
<1> HIDE DEF GoesOn
<1>11. ASSUME NEW i \in 1..Len(cards), cards[i].vendor = row.vendor
       PROVE  vendors \cup {row.vendor} = vendors
  <2>1. PICK k \in 1..n : cards[i] = CardAt(parsed, n, k)
    BY <1>5 DEF CardsAre
  <2>2. row.vendor = parsed.rows[k].vendor
    BY <1>11, <2>1 DEF CardAt
  <2>3. row.vendor \in vendors
    BY <1>4, <2>2 DEF VendorsUpTo
  <2>4. QED
    BY <2>3
<1>18. ASSUME NEW i \in 1..Len(cards), cards[i].vendor = row.vendor,
              NEW all, Len(all) = Len(cards),
              \A j \in 1..Len(cards) : all[j].vendor = cards[j].vendor
       PROVE  HasCardOfEveryRow(parsed, n + 1, all)
  <2>1. \A l \in 1..n : \E j \in 1..Len(all) : all[j].vendor = parsed.rows[l].vendor
    BY <1>5, <1>18 DEF HasCardOfEveryRow
  <2>2. \E j \in 1..Len(all) : all[j].vendor = parsed.rows[n + 1].vendor
    BY <1>0, <1>18
  <2>3. QED
    BY <2>1, <2>2, OneMore DEF HasCardOfEveryRow
<1>12. ASSUME \A i \in 1..Len(cards) : cards[i].vendor # row.vendor,
              next = Result(Append(cards, CardOf(row, Len(cards) + 1)), more, seen \cup row.codes)
       PROVE  IsAfter(parsed, n + 1, next)
  <2>1. PICK card, all : card = CardOf(row, Len(cards) + 1) /\ all = Append(cards, card)
    OBVIOUS
  <2>2. /\ all \in Seq(S \cup {card})
        /\ Len(all) = Len(cards) + 1
        /\ \A i \in 1..Len(cards) : all[i] = cards[i]
        /\ all[Len(cards) + 1] = card
    BY <1>3, <1>5, <2>1
  <2>3. \A i : i \in 1..Len(all) <=> i \in 1..Len(cards) \/ i = Len(cards) + 1
    BY <1>5, <2>2
  <2>4. \A k \in 1..n : parsed.rows[k].vendor # row.vendor
    BY <1>8, <1>12
  <2>5. /\ IsFirstRow(parsed, n + 1)
        /\ CardAt(parsed, n + 1, n + 1) = card
    BY <1>0, <1>4, <1>5, <2>1, <2>4, CardStarts
  <2>6. /\ card.pos = Len(cards) + 1 /\ card.vendor = row.vendor
        /\ card.skus = {row.size} \X row.codes
    BY <2>1 DEF CardOf
  <2>7. /\ Len(all) = Cardinality(vendors \cup {row.vendor})
        /\ IsFiniteSet(vendors \cup {row.vendor})
    <3>1. row.vendor \notin vendors
      BY <1>4, <2>4 DEF VendorsUpTo
    <3>2. /\ IsFiniteSet(vendors \cup {row.vendor})
          /\ Cardinality(vendors \cup {row.vendor}) = Cardinality(vendors) + 1
      BY <1>5, <3>1, FS_AddElement
    <3>3. QED
      BY <1>5, <2>2, <3>2
  <2>8. CardsAre(parsed, n + 1, all)
    <3>1. ASSUME NEW i \in 1..Len(cards)
          PROVE  \E k \in 1..n + 1 : /\ IsFirstRow(parsed, k)
                                     /\ all[i] = CardAt(parsed, n + 1, k) /\ all[i].pos = i
      <4>1. PICK k \in 1..n : /\ IsFirstRow(parsed, k) /\ cards[i] = CardAt(parsed, n, k)
                              /\ cards[i].pos = i
        BY <1>5 DEF CardsAre
      <4>2. CardAt(parsed, n + 1, k) = CardAt(parsed, n, k)
        <5>1. parsed.rows[n + 1].vendor # parsed.rows[k].vendor
          BY <1>0, <2>4
        <5>2. QED
          BY <5>1, CardStays
      <4>3. QED
        BY <1>9, <2>2, <4>1, <4>2
    <3>2. \E k \in 1..n + 1 : /\ IsFirstRow(parsed, k)
                              /\ all[Len(cards) + 1] = CardAt(parsed, n + 1, k)
                              /\ all[Len(cards) + 1].pos = Len(cards) + 1
      BY <2>2, <2>5, <2>6, OneMore
    <3>3. QED
      BY <2>3, <3>1, <3>2 DEF CardsAre
  <2>9. HasCardOfEveryRow(parsed, n + 1, all)
    <3>1. ASSUME NEW k \in 1..n
          PROVE  \E i \in 1..Len(all) : all[i].vendor = parsed.rows[k].vendor
      <4>1. PICK i \in 1..Len(cards) : cards[i].vendor = parsed.rows[k].vendor
        BY <1>5 DEF HasCardOfEveryRow
      <4>2. QED
        BY <2>2, <2>3, <4>1
    <3>2. \E i \in 1..Len(all) : all[i].vendor = parsed.rows[n + 1].vendor
      BY <1>0, <2>2, <2>3, <2>6
    <3>3. QED
      BY <3>1, <3>2, OneMore DEF HasCardOfEveryRow
  <2>10. \A i \in 1..Len(all) : IsFiniteSet(all[i].skus)
    <3>1. IsFiniteSet(card.skus)
      BY <1>19, <2>6 DEF joins
    <3>2. \A i \in 1..Len(cards) : IsFiniteSet(all[i].skus)
      BY <1>5, <2>2
    <3>3. QED
      BY <2>2, <2>3, <3>1, <3>2
  <2>11. next = Result(all, more, seen \cup row.codes)
    BY <1>12, <2>1
  <2>12. GoesOn(all, more)
    BY <2>2, <2>7, <2>8, <2>9, <2>10, <2>11 DEF GoesOn
  <2>13. QED
    BY <1>10, <2>12
<1>13. ASSUME NEW i \in 1..Len(cards), cards[i].vendor = row.vendor, cards[i].fields # row.fields,
              next = Result(cards, more \cup
                        {[row |-> row.row, code |-> "vendor_code_fields_conflict"]},
                        seen \cup row.codes)
       PROVE  IsAfter(parsed, n + 1, next)
  <2>1. CardsAre(parsed, n + 1, cards)
    <3>1. ASSUME NEW j \in 1..Len(cards)
          PROVE  \E k \in 1..n + 1 : /\ IsFirstRow(parsed, k)
                                     /\ cards[j] = CardAt(parsed, n + 1, k) /\ cards[j].pos = j
      <4>1. PICK k \in 1..n : /\ IsFirstRow(parsed, k) /\ cards[j] = CardAt(parsed, n, k)
                              /\ cards[j].pos = j
        BY <1>5 DEF CardsAre
      <4>2. cards[j].vendor = parsed.rows[k].vendor /\ cards[j].fields = parsed.rows[k].fields
        BY <4>1 DEF CardAt
      <4>3. ~(/\ parsed.rows[n + 1].vendor = parsed.rows[k].vendor
              /\ parsed.rows[n + 1].fields = parsed.rows[k].fields)
        BY <1>0, <1>8, <1>13, <4>2
      <4>4. CardAt(parsed, n + 1, k) = CardAt(parsed, n, k)
        BY <4>3, CardStays
      <4>5. QED
        BY <1>9, <4>1, <4>4
    <3>2. QED
      BY <3>1 DEF CardsAre
  <2>2. vendors \cup {row.vendor} = vendors /\ HasCardOfEveryRow(parsed, n + 1, cards)
    BY <1>11, <1>13, <1>18
  <2>3. PICK news : news = more \cup {[row |-> row.row, code |-> "vendor_code_fields_conflict"]}
    OBVIOUS
  <2>4. news # {}
    BY <2>3
  <2>5. next = Result(cards, news, seen \cup row.codes)
    BY <1>13, <2>3
  <2>6. /\ Len(cards) = Cardinality(vendors \cup {row.vendor})
        /\ IsFiniteSet(vendors \cup {row.vendor})
    BY <1>5, <2>2
  <2>7. GoesOn(cards, news)
    BY <1>3, <1>5, <2>1, <2>2, <2>4, <2>5, <2>6 DEF GoesOn
  <2>8. QED
    BY <1>10, <2>7
<1>14. ASSUME NEW i \in 1..Len(cards), cards[i].vendor = row.vendor, cards[i].fields = row.fields,
              next = Result([cards EXCEPT ![i] = Joined(cards[i], row)], more, seen \cup row.codes)
       PROVE  IsAfter(parsed, n + 1, next)
  <2>1. PICK card, all : card = Joined(cards[i], row) /\ all = [cards EXCEPT ![i] = card]
    OBVIOUS
  <2>2. PICK k \in 1..n : /\ IsFirstRow(parsed, k) /\ cards[i] = CardAt(parsed, n, k)
                          /\ cards[i].pos = i
    BY <1>5 DEF CardsAre
  <2>3. cards[i].vendor = parsed.rows[k].vendor /\ cards[i].fields = parsed.rows[k].fields
    BY <2>2 DEF CardAt
  <2>4. card = CardAt(parsed, n + 1, k)
    <3>1. /\ parsed.rows[n + 1].vendor = parsed.rows[k].vendor
          /\ parsed.rows[n + 1].fields = parsed.rows[k].fields
      BY <1>0, <1>14, <2>3
    <3>2. CardAt(parsed, n + 1, k) = Joined(CardAt(parsed, n, k), row)
      BY <1>0, <3>1, CardGrows
    <3>3. QED
      BY <2>1, <2>2, <3>2
  <2>5. /\ card.pos = i /\ card.vendor = cards[i].vendor
        /\ card.skus = cards[i].skus \cup ({row.size} \X row.codes)
    <3>1. cards[i] = [pos |-> cards[i].pos, rows |-> cards[i].rows, vendor |-> cards[i].vendor,
                      fields |-> cards[i].fields, skus |-> cards[i].skus]
      BY <2>2 DEF CardAt
    <3>2. QED
      BY <2>1, <2>2, <3>1 DEF Joined
  <2>6. /\ all \in Seq(S \cup {card}) /\ Len(all) = Len(cards)
        /\ all[i] = card
        /\ \A j \in 1..Len(cards) : j # i => all[j] = cards[j]
    BY <1>3, <1>5, <2>1
  <2>7. CardsAre(parsed, n + 1, all)
    <3>1. ASSUME NEW j \in 1..Len(cards), j # i
          PROVE  \E l \in 1..n + 1 : /\ IsFirstRow(parsed, l)
                                     /\ all[j] = CardAt(parsed, n + 1, l) /\ all[j].pos = j
      <4>1. PICK l \in 1..n : /\ IsFirstRow(parsed, l) /\ cards[j] = CardAt(parsed, n, l)
                              /\ cards[j].pos = j
        BY <1>5 DEF CardsAre
      <4>2. cards[j].vendor = parsed.rows[l].vendor
        BY <4>1 DEF CardAt
      <4>3. parsed.rows[n + 1].vendor # parsed.rows[l].vendor
        BY <1>0, <1>8, <1>14, <3>1, <4>2
      <4>4. CardAt(parsed, n + 1, l) = CardAt(parsed, n, l)
        BY <4>3, CardStays
      <4>5. QED
        BY <1>9, <2>6, <3>1, <4>1, <4>4
    <3>2. \E l \in 1..n + 1 : /\ IsFirstRow(parsed, l)
                              /\ all[i] = CardAt(parsed, n + 1, l) /\ all[i].pos = i
      BY <1>9, <2>2, <2>4, <2>5, <2>6
    <3>3. QED
      BY <2>6, <3>1, <3>2 DEF CardsAre
  <2>8. \A j \in 1..Len(cards) : all[j].vendor = cards[j].vendor
    BY <2>5, <2>6
  <2>9. vendors \cup {row.vendor} = vendors /\ HasCardOfEveryRow(parsed, n + 1, all)
    BY <1>11, <1>14, <1>18, <2>6, <2>8
  <2>10. \A j \in 1..Len(all) : IsFiniteSet(all[j].skus)
    <3>1. IsFiniteSet(card.skus)
      <4>1. IsFiniteSet(cards[i].skus) /\ IsFiniteSet({row.size} \X row.codes)
        BY <1>5, <1>19 DEF joins
      <4>2. IsFiniteSet(cards[i].skus \cup ({row.size} \X row.codes))
        BY <4>1, FS_Union
      <4>3. QED
        BY <2>5, <4>2
    <3>2. QED
      BY <1>5, <2>6, <3>1
  <2>11. next = Result(all, more, seen \cup row.codes)
    BY <1>14, <2>1
  <2>12. /\ Len(all) = Cardinality(vendors \cup {row.vendor})
         /\ IsFiniteSet(vendors \cup {row.vendor})
    BY <1>5, <2>6, <2>9
  <2>13. GoesOn(all, more)
    BY <2>6, <2>7, <2>9, <2>10, <2>11, <2>12 DEF GoesOn
  <2>14. QED
    BY <1>10, <2>13
<1>15. Outcome(cards, more, seen, row, next)
  BY <1>0, <1>1, <1>2, <1>3, AddRowCases
<1>16. IsAfter(parsed, n + 1, next)
  BY <1>12, <1>13, <1>14, <1>15 DEF Outcome
<1>17. QED
  BY <1>0, <1>16


LEMMA StartIsAfterNoRow ==
    ASSUME NEW parsed
    PROVE  IsAfter(parsed, 0, Start(parsed))
<1>1. PICK r : r = Start(parsed)
  OBVIOUS
<1>2. r.cards = <<>> /\ r.issues = parsed.issues /\ r = Result(r.cards, r.issues, r.seen)
  BY <1>1 DEF Start, Result
<1>3. \A i : i \notin 1..0
  OBVIOUS
<1>4. r.cards \in Seq({}) /\ Len(r.cards) = 0
  BY <1>2
<1>5. IsFiniteSet(VendorsUpTo(parsed, 0)) /\ Cardinality(VendorsUpTo(parsed, 0)) = 0
  BY NoPlaces
<1>6. IsAfter(parsed, 0, r)
  BY <1>2, <1>3, <1>4, <1>5 DEF IsAfter, AreChecked, CodesApart, CardsAre, HasCardOfEveryRow
<1>7. QED
  BY <1>1, <1>6

LEMMA Aggregated ==
    ASSUME NEW parsed, IsParsedFile(parsed)
    PROVE  IsAfter(parsed, Len(parsed.rows), AggregateParsedFile(parsed))
<1>1. PICK N : N = Len(parsed.rows)
  OBVIOUS
<1>2. /\ N \in Nat
      /\ \A n \in 1..N : IsFiniteSet(parsed.rows[n].codes)
  BY <1>1 DEF IsParsedFile
<1>3. PICK g : AfterRows(parsed, g, N) /\ AggregateParsedFile(parsed) = g[N]
  BY <1>1, <1>2, AggregationByRows
<1> DEFINE bad == {n \in 0..N : ~IsAfter(parsed, n, g[n])}
<1>4. ASSUME bad # {} PROVE FALSE
  <2>1. PICK m \in bad : \A n \in bad : m <= n
    <3>1. bad \subseteq Nat
      BY <1>2
    <3> HIDE DEF bad
    <3>2. QED
      BY <1>4, <3>1, LeastNatural
  <2>2. m \in 0..N /\ ~IsAfter(parsed, m, g[m])
    OBVIOUS
  <2>3. CASE m = 0
    <3>1. g[0] = Start(parsed)
      BY <1>2, <1>3 DEF AfterRows
    <3>2. QED
      BY <2>2, <2>3, <3>1, StartIsAfterNoRow
  <2>4. CASE m # 0
    <3>1. PICK n \in Nat : m = n + 1
      <4>1. m - 1 \in Nat /\ m = (m - 1) + 1
        BY <1>2, <2>2, <2>4
      <4>2. QED
        BY <4>1
    <3>2. n \in 0..N /\ ~(m <= n) /\ n + 1 \in 1..N /\ m \in 0..N /\ m - 1 = n
      BY <1>2, <2>2, <3>1
    <3>3. IsAfter(parsed, n, g[n])
      BY <2>1, <3>2
    <3>4. g[m] = AddRow(g[n], parsed.rows[n + 1])
      BY <1>3, <2>4, <3>1, <3>2 DEF AfterRows
    <3>5. IsFiniteSet(parsed.rows[n + 1].codes)
      BY <1>2, <3>2
    <3>6. IsAfter(parsed, n + 1, AddRow(g[n], parsed.rows[n + 1]))
      BY <3>3, <3>5, AddRowKeeps
    <3>7. QED
      BY <2>2, <3>1, <3>4, <3>6
  <2>5. QED
    BY <2>3, <2>4
<1>5. N \in 0..N
  BY <1>2
<1>6. IsAfter(parsed, N, g[N])
  BY <1>4, <1>5
<1>7. QED
  BY <1>1, <1>3, <1>6

\* The card of a first row, after all rows, is what the document says of its
\* vendor code.
LEMMA WholeCard ==
    ASSUME NEW parsed, IsParsedFile(parsed), NEW k \in 1..Len(parsed.rows),
           IsFirstRow(parsed, k)
    PROVE  CardAt(parsed, Len(parsed.rows), k) = CardOfVendor(parsed, parsed.rows[k].vendor)
<1>1. PICK N, v : N = Len(parsed.rows) /\ v = parsed.rows[k].vendor
  OBVIOUS
<1>2. N \in Nat /\ DOMAIN parsed.rows = 1..N /\ k \in 1..N
  BY <1>1 DEF IsParsedFile
<1>3. parsed.rows[k].vendor = v /\ \A j \in 1..k - 1 : parsed.rows[j].vendor # v
  BY <1>1 DEF IsFirstRow
<1>4. (CHOOSE i \in DOMAIN parsed.rows : parsed.rows[i].vendor = v /\ \A j \in 1..i - 1 : parsed.rows[j].vendor # v) = k
  <2>1. ASSUME NEW i \in 1..N, parsed.rows[i].vendor = v, \A j \in 1..i - 1 : parsed.rows[j].vendor # v
        PROVE  i = k
    <3>1. ~(i < k)
      BY <1>2, <1>3, <2>1
    <3>2. ~(k < i)
      BY <1>2, <1>3, <2>1
    <3>3. QED
      BY <1>2, <3>1, <3>2
  <2>2. QED
    BY <1>2, <1>3, <2>1
<1>5. {i \in DOMAIN parsed.rows : parsed.rows[i].vendor = v /\ parsed.rows[i].fields = parsed.rows[k].fields}
        = RowsOfCard(parsed, N, k)
  BY <1>1, <1>2 DEF RowsOfCard
<1> DEFINE mine == RowsOfCard(parsed, N, k)
<1>6. CardOfVendor(parsed, v) =
        [pos |-> Cardinality({parsed.rows[i].vendor : i \in 1..k}),
         rows |-> {parsed.rows[i].row : i \in mine}, vendor |-> v, fields |-> parsed.rows[k].fields,
         skus |-> UNION {{parsed.rows[i].size} \X parsed.rows[i].codes : i \in mine}]
  <2> DEFINE first == CHOOSE i \in DOMAIN parsed.rows :
                    parsed.rows[i].vendor = v /\ \A j \in 1..i - 1 : parsed.rows[j].vendor # v
             same == {i \in DOMAIN parsed.rows : /\ parsed.rows[i].vendor = v
                                                 /\ parsed.rows[i].fields = parsed.rows[first].fields}
  <2>1. CardOfVendor(parsed, v) =
        [pos |-> Cardinality({parsed.rows[i].vendor : i \in 1..first}),
         rows |-> {parsed.rows[i].row : i \in same}, vendor |-> v,
         fields |-> parsed.rows[first].fields,
         skus |-> UNION {{parsed.rows[i].size} \X parsed.rows[i].codes : i \in same}]
    BY DEF CardOfVendor
  <2>2. first = k
    BY <1>4
  <2>3. same = mine
    <3> HIDE DEF first
    <3>1. QED
      BY <1>5, <2>2
  <2> HIDE DEF first, same, mine
  <2>4. QED
    BY <2>1, <2>2, <2>3
<1>7. /\ {parsed.rows[i].vendor : i \in 1..k} = VendorsUpTo(parsed, k)
      /\ {parsed.rows[i].row : i \in mine} = NumbersOf(parsed, mine)
      /\ UNION {{parsed.rows[i].size} \X parsed.rows[i].codes : i \in mine} = SkusOf(parsed, mine)
  <2> HIDE DEF mine
  <2>1. QED
    BY <1>1 DEF VendorsUpTo, NumbersOf, SkusOf
<1>8. QED
  BY <1>1, <1>6, <1>7 DEF CardAt


LEMMA NoRepeatedBarcode ==
    ASSUME NEW card, IsFiniteSet(card.skus),
           \A s, t \in card.skus : s[2] = t[2] => s = t
    PROVE  ~RepeatsBarcode(card)
<1>1. PICK f : f = [s \in card.skus |-> s[2]]
  OBVIOUS
<1>2. \A x : x \in Barcodes(card) <=> \E s \in card.skus : x = s[2]
  BY DEF Barcodes
<1>3. f \in Surjection(card.skus, Barcodes(card))
  BY <1>1, <1>2 DEF Surjection
<1>4. f \in Injection(card.skus, Barcodes(card))
  BY <1>1, <1>3 DEF Injection, Surjection, IsInjective
<1>5. Cardinality(Barcodes(card)) = Cardinality(card.skus)
  BY <1>3, <1>4, FS_Surjection
<1>6. QED
  BY <1>5 DEF RepeatsBarcode

\* What is known of the cards of a document.
CardsOfDocument(parsed, cards, found) ==
    /\ \A c \in cards : /\ \E row \in ToSet(parsed.rows) : row.vendor = c.vendor
                        /\ c = CardOfVendor(parsed, c.vendor)
                        /\ c.pos \in Nat
    /\ \A c, d \in cards : c # d => c.vendor # d.vendor /\ c.pos # d.pos
    /\ found = {} => /\ cards # {}
                     /\ \A c \in cards : ~RepeatsBarcode(c)
                     /\ \A c, d \in cards : c # d => Barcodes(c) \cap Barcodes(d) = {}

LEMMA SkuOfRow ==
    ASSUME NEW parsed, NEW places, NEW s \in SkusOf(parsed, places)
    PROVE  \E i \in places : /\ s = <<parsed.rows[i].size, s[2]>>
                             /\ s[2] \in parsed.rows[i].codes
<1>1. PICK i \in places : s \in {parsed.rows[i].size} \X parsed.rows[i].codes
  BY DEF SkusOf
<1>2. QED
  BY <1>1

LEMMA DocumentIsAggregated ==
    ASSUME NEW parsed, IsParsedFile(parsed)
    PROVE  CardsOfDocument(parsed, ToSet(AggregateParsedFile(parsed).cards),
                           AggregateParsedFile(parsed).issues)
<1>1. PICK N, r, seq : N = Len(parsed.rows) /\ r = AggregateParsedFile(parsed) /\ seq = r.cards
  OBVIOUS
<1>2. N \in Nat /\ DOMAIN parsed.rows = 1..N /\ (N = 0 => parsed.issues # {})
  BY <1>1 DEF IsParsedFile
<1>3. IsAfter(parsed, N, r)
  BY <1>1, Aggregated
<1>4. PICK S : seq \in Seq(S)
  BY <1>1, <1>3 DEF IsAfter
<1>5. /\ DOMAIN seq = 1..Len(seq) /\ Len(seq) \in Nat
      /\ CardsAre(parsed, N, seq) /\ HasCardOfEveryRow(parsed, N, seq)
      /\ AreChecked(parsed, N, r.seen, r.issues)
      /\ \A i \in 1..Len(seq) : IsFiniteSet(seq[i].skus)
  BY <1>1, <1>3, <1>4 DEF IsAfter
<1>6. PICK cards : cards = ToSet(seq)
  OBVIOUS
<1>7. \A c \in cards : \E i \in 1..Len(seq) : c = seq[i]
  BY <1>5, <1>6 DEF ToSet
<1>8. ASSUME NEW i \in 1..Len(seq)
      PROVE  /\ \E row \in ToSet(parsed.rows) : row.vendor = seq[i].vendor
             /\ seq[i] = CardOfVendor(parsed, seq[i].vendor)
             /\ seq[i].pos = i
  <2>1. PICK k \in 1..N : /\ IsFirstRow(parsed, k) /\ seq[i] = CardAt(parsed, N, k)
                          /\ seq[i].pos = i
    BY <1>5 DEF CardsAre
  <2>2. seq[i].vendor = parsed.rows[k].vendor
    BY <2>1 DEF CardAt
  <2>3. parsed.rows[k] \in ToSet(parsed.rows)
    BY <1>2 DEF ToSet
  <2>4. CardAt(parsed, N, k) = CardOfVendor(parsed, parsed.rows[k].vendor)
    BY <1>1, <2>1, WholeCard
  <2>5. QED
    BY <2>1, <2>2, <2>3, <2>4
<1>9. \A c, d \in cards : c # d => c.vendor # d.vendor /\ c.pos # d.pos
  <2>1. \A i, j \in 1..Len(seq) : seq[i].vendor = seq[j].vendor => i = j
    BY <1>2, <1>5, CardsByVendor
  <2>2. \A i, j \in 1..Len(seq) : i # j => seq[i].vendor # seq[j].vendor /\ seq[i].pos # seq[j].pos
    BY <1>8, <2>1
  <2>3. QED
    BY <1>7, <2>2
<1>10. \A c \in cards : /\ \E row \in ToSet(parsed.rows) : row.vendor = c.vendor
                        /\ c = CardOfVendor(parsed, c.vendor)
                        /\ c.pos \in Nat
  <2>1. \A i \in 1..Len(seq) : i \in Nat
    OBVIOUS
  <2>2. QED
    BY <1>7, <1>8, <2>1
<1>11. ASSUME r.issues = {}
       PROVE  /\ cards # {}
              /\ \A c \in cards : ~RepeatsBarcode(c)
              /\ \A c, d \in cards : c # d => Barcodes(c) \cap Barcodes(d) = {}
  <2>1. parsed.issues = {} /\ CodesApart(parsed, N)
    BY <1>5, <1>11 DEF AreChecked
  <2>2. cards # {}
    <3>1. 1 \in 1..N
      BY <1>2, <2>1
    <3>2. PICK i \in 1..Len(seq) : seq[i].vendor = parsed.rows[1].vendor
      BY <1>5, <3>1 DEF HasCardOfEveryRow
    <3>3. seq[i] \in cards
      BY <1>5, <1>6 DEF ToSet
    <3>4. QED
      BY <3>3
  <2>3. ASSUME NEW i \in 1..Len(seq)
        PROVE  \E k \in 1..N : seq[i].skus = SkusOf(parsed, RowsOfCard(parsed, N, k))
                                /\ seq[i].vendor = parsed.rows[k].vendor
    BY <1>5 DEF CardsAre, CardAt
  <2>4. ASSUME NEW i \in 1..Len(seq) PROVE ~RepeatsBarcode(seq[i])
    <3>1. PICK k \in 1..N : seq[i].skus = SkusOf(parsed, RowsOfCard(parsed, N, k))
      BY <2>3
    <3>2. ASSUME NEW s \in seq[i].skus, NEW t \in seq[i].skus, s[2] = t[2]
          PROVE  s = t
      <4>1. PICK p \in 1..N : s = <<parsed.rows[p].size, s[2]>> /\ s[2] \in parsed.rows[p].codes
        BY <3>1, SkuOfRow DEF RowsOfCard
      <4>2. PICK q \in 1..N : t = <<parsed.rows[q].size, t[2]>> /\ t[2] \in parsed.rows[q].codes
        BY <3>1, SkuOfRow DEF RowsOfCard
      <4>3. p = q
        BY <2>1, <3>2, <4>1, <4>2 DEF CodesApart
      <4>4. QED
        BY <3>2, <4>1, <4>2, <4>3
    <3>3. IsFiniteSet(seq[i].skus)
      BY <1>5
    <3>4. QED
      BY <3>2, <3>3, NoRepeatedBarcode
  <2>5. ASSUME NEW c \in cards, NEW d \in cards, c # d,
               NEW x, x \in Barcodes(c), x \in Barcodes(d)
        PROVE  FALSE
    <3>1. PICK i \in 1..Len(seq), j \in 1..Len(seq) : c = seq[i] /\ d = seq[j]
      BY <1>7
    <3>2. PICK k \in 1..N : /\ seq[i].skus = SkusOf(parsed, RowsOfCard(parsed, N, k))
                            /\ seq[i].vendor = parsed.rows[k].vendor
      BY <2>3
    <3>3. PICK l \in 1..N : /\ seq[j].skus = SkusOf(parsed, RowsOfCard(parsed, N, l))
                            /\ seq[j].vendor = parsed.rows[l].vendor
      BY <2>3
    <3>4. PICK p \in 1..N : x \in parsed.rows[p].codes /\ parsed.rows[p].vendor = c.vendor
      <4>1. PICK s \in seq[i].skus : s[2] = x
        BY <2>5, <3>1 DEF Barcodes
      <4>2. QED
        BY <3>1, <3>2, <4>1, SkuOfRow DEF RowsOfCard
    <3>5. PICK q \in 1..N : x \in parsed.rows[q].codes /\ parsed.rows[q].vendor = d.vendor
      <4>1. PICK s \in seq[j].skus : s[2] = x
        BY <2>5, <3>1 DEF Barcodes
      <4>2. QED
        BY <3>1, <3>3, <4>1, SkuOfRow DEF RowsOfCard
    <3>6. p = q
      BY <2>1, <3>4, <3>5 DEF CodesApart
    <3>7. QED
      BY <1>9, <2>5, <3>4, <3>5, <3>6
  <2>6. \A c, d \in cards : c # d => Barcodes(c) \cap Barcodes(d) = {}
    BY <2>5
  <2>7. QED
    BY <1>7, <2>2, <2>4, <2>6
<1>12. CardsOfDocument(parsed, cards, r.issues)
  BY <1>9, <1>10, <1>11 DEF CardsOfDocument
<1>13. QED
  BY <1>1, <1>6, <1>12


-----------------------------------------------------------------------------
(* Every step keeps what the tables say of each session.                   *)

LEMMA StaysOk ==
    ASSUME NEW s \in Sessions, SessionOk(s), StaysAsItIs(s)
    PROVE  SessionOk(s)'
<1>1. \A f \in FilesOf(s) : /\ f[1] = s
                            /\ file'[f].status = file[f].status
                            /\ items'[f] = items[f] /\ issues'[f] = issues[f]
  BY FilesOfPairs DEF StaysAsItIs
<1>2. session'[s] = session[s] /\ cross'[s] = cross[s]
  BY DEF StaysAsItIs
<1>3. CrossFileIssues(s, items') = CrossFileIssues(s, items)
  BY <1>1, CrossOfSameItems
<1>4. \A f \in FilesOf(s) : ResultOk(f, file[f].status, items[f], issues[f])'
  <2>1. ASSUME NEW f \in FilesOf(s)
        PROVE  ResultOk(f, file[f].status, items[f], issues[f])'
    <3>1. ResultOk(f, file[f].status, items[f], issues[f])
      BY DEF SessionOk
    <3>2. IsCollecting(f[1])' <=> IsCollecting(f[1])
      BY <1>1, <1>2 DEF IsCollecting
    <3>3. QED
      BY <1>1, <3>1, <3>2 DEF ResultOk
  <2>2. QED
    BY <2>1
<1>5. CrossFileIssues(s, items)' = CrossFileIssues(s, items')
  OBVIOUS
<1>6. QED
  BY <1>1, <1>2, <1>3, <1>4 DEF SessionOk, IsCollecting

\* Only the file f of a collecting session changes, and not its results.
LEMMA FileMoves ==
    ASSUME NEW f \in Files, SessionOk(f[1]), IsCollecting(f[1]),
           UNCHANGED <<session, items, issues, cross>>,
           \A g \in Files \ {f} : file'[g] = file[g],
           ResultOk(f, file'[f].status, items[f], issues[f])
    PROVE  SessionOk(f[1])'
<1>1. PICK s : s = f[1]
  OBVIOUS
<1>2. session'[s].status = "collecting" /\ session[s].status = "collecting"
  BY <1>1 DEF IsCollecting
<1>3. \A g \in FilesOf(s) : ResultOk(g, file[g].status, items[g], issues[g])'
  <2>1. ASSUME NEW g \in FilesOf(s)
        PROVE  ResultOk(g, file[g].status, items[g], issues[g])'
    <3>1. ResultOk(g, file'[g].status, items[g], issues[g])
      <4>1. CASE g = f
        BY <4>1
      <4>2. CASE g # f
        <5>1. file'[g] = file[g]
          BY <4>2, FilesOfPairs
        <5>2. QED
          BY <1>1, <5>1 DEF SessionOk
      <4>3. QED
        BY <4>1, <4>2
    <3>2. IsCollecting(g[1])' <=> IsCollecting(g[1])
      BY DEF IsCollecting
    <3>3. QED
      BY <3>1, <3>2 DEF ResultOk
  <2>2. QED
    BY <2>1
<1>4. SessionOk(s)'
  BY <1>1, <1>2, <1>3 DEF SessionOk, IsCollecting
<1>5. QED
  BY <1>1, <1>4

LEMMA BeginOk ==
    ASSUME TablesOk, NEW s \in Sessions, SessionOk(s), Begin(s)
    PROVE  SessionOk(s)'
<1>1. /\ session[s].status = "none"
      /\ session'[s].status = "collecting" /\ session'[s].batch = session[s].batch
      /\ UNCHANGED <<file, items, issues, cross>>
  BY BeginMoves DEF Begin, SessionMoves
<1>2. \A f \in FilesOf(s) : file[f].status = "none" /\ items[f] = {} /\ issues[f] = {}
  BY <1>1 DEF SessionOk, ResultOk
<1>3. cross'[s] = CrossFileIssues(s, items')
  <2>1. \A f, g, c, d : ~InTwoFiles(s, items, f, c, g, d)
    BY <1>2 DEF InTwoFiles
  <2>2. CrossFileIssues(s, items) = {}
    BY <2>1, NoCrossIssue
  <2>3. QED
    BY <1>1, <2>2 DEF SessionOk
<1>4. \A f \in FilesOf(s) : ResultOk(f, file[f].status, items[f], issues[f])'
  BY <1>1, <1>2 DEF ResultOk
<1>5. QED
  BY <1>1, <1>3, <1>4 DEF SessionOk

LEMMA CancelOk ==
    ASSUME TablesOk, NEW s \in Sessions, SessionOk(s), CancelSession(s)
    PROVE  SessionOk(s)'
<1>1. /\ session'[s].status = "cancelled" /\ session'[s].batch = session[s].batch
      /\ UNCHANGED <<items, issues, cross>>
  BY CancelMoves DEF CancelSession, SessionMoves
<1>2. \A f \in FilesOf(s) : ResultOk(f, file[f].status, items[f], issues[f])'
  <2>1. ASSUME NEW f \in FilesOf(s)
        PROVE  ResultOk(f, file[f].status, items[f], issues[f])'
    <3>1. f \in Files /\ f[1] = s
      BY FilesOfPairs
    <3>2. ~IsCollecting(f[1])'
      BY <1>1, <3>1 DEF IsCollecting
    <3>3. file'[f] = IF f \in ActiveFiles(s) THEN Touched("abandoned") ELSE file[f]
      BY <3>1 DEF CancelSession
    <3>4. CASE file[f].status \in {"none", "abandoned"}
      <4>1. file'[f] = file[f]
        BY <3>3, <3>4 DEF ActiveFiles
      <4>2. ResultOk(f, file[f].status, items[f], issues[f])
        BY DEF SessionOk
      <4>3. QED
        BY <1>1, <3>2, <4>1, <4>2 DEF ResultOk
    <3>5. CASE file[f].status \notin {"none", "abandoned"}
      <4>1. file'[f].status = "abandoned"
        BY <3>3, <3>5 DEF ActiveFiles, Touched
      <4>2. QED
        BY <3>2, <4>1 DEF ResultOk
    <3>6. QED
      BY <3>4, <3>5
  <2>2. QED
    BY <2>1
<1>3. QED
  BY <1>1, <1>2 DEF SessionOk, IsCollecting

LEMMA ReceiveOk ==
    ASSUME TablesOk, NEW s \in Sessions, NEW d \in Documents, SessionOk(s),
           ReceiveDocument(s, d)
    PROVE  SessionOk(s)'
<1>1. PICK f : f = <<s, d>>
  OBVIOUS
<1>2. f \in Files /\ f[1] = s /\ f \in FilesOf(s)
  BY <1>1, FileIsPair, FilesOfPairs
<1>3. UNCHANGED <<session, items, issues, cross>>
  BY DEF ReceiveDocument
<1>4. /\ IsCollecting(s)
      /\ \/ file[f].status = "none" /\ file' = [file EXCEPT ![f] = Touched("reserved")]
         \/ file' = file
  BY <1>1, ReserveChanges DEF ReceiveDocument
<1>5. ResultOk(f, file[f].status, items[f], issues[f])
  BY <1>2 DEF SessionOk
<1>6. CASE file[f].status = "none" /\ file' = [file EXCEPT ![f] = Touched("reserved")]
  <2>1. file'[f].status = "reserved" /\ \A g \in Files \ {f} : file'[g] = file[g]
    BY <1>2, <1>6 DEF TablesOk, Touched
  <2>2. items[f] = {} /\ issues[f] = {}
    BY <1>5, <1>6 DEF ResultOk
  <2>3. ResultOk(f, file'[f].status, items[f], issues[f])
    BY <2>1, <2>2 DEF ResultOk
  <2>4. QED
    BY <1>2, <1>3, <1>4, <2>1, <2>3, FileMoves
<1>7. CASE file' = file
  <2>1. StaysAsItIs(s)
    BY <1>3, <1>7 DEF StaysAsItIs
  <2>2. QED
    BY <2>1, StaysOk
<1>8. QED
  BY <1>4, <1>6, <1>7

LEMMA StoreOk ==
    ASSUME TablesOk, SchedulerOk, NEW w \in Workers, Store(w), NEW f, f = worker[w].file,
           SessionOk(f[1])
    PROVE  SessionOk(f[1])'
<1>1. /\ f \in Files /\ IsCollecting(f[1])
      /\ file'[f].status = "stored" /\ file[f].status \in {"reserved", "stored"}
      /\ \A g \in Files \ {f} : file'[g] = file[g]
      /\ UNCHANGED <<session, items, issues, cross>>
  BY StoreIsAbout
<1>2. ResultOk(f, file[f].status, items[f], issues[f])
  BY <1>1, FilesOfPairs DEF SessionOk
<1>3. items[f] = {} /\ issues[f] = {}
  BY <1>1, <1>2 DEF ResultOk
<1>4. ResultOk(f, file'[f].status, items[f], issues[f])
  BY <1>1, <1>3 DEF ResultOk
<1>5. QED
  BY <1>1, <1>4, FileMoves

LEMMA ClaimOkKeeps ==
    ASSUME TablesOk, SchedulerOk, NEW w \in Workers, ClaimFileForParsing(w),
           NEW f, f = worker[w].file, SessionOk(f[1])
    PROVE  SessionOk(f[1])'
<1>1. /\ f \in Files /\ IsCollecting(f[1])
      /\ file'[f].status = "parsing"
      /\ \A g \in Files \ {f} : file'[g] = file[g]
      /\ UNCHANGED <<session, items, issues, cross>>
  BY ClaimIsAbout
<1>2. ResultOk(f, file'[f].status, items[f], issues[f])
  BY <1>1 DEF ResultOk
<1>3. QED
  BY <1>1, <1>2, FileMoves

\* What the parser of a version made of the document of a file.
LEMMA ParsedDocument ==
    ASSUME NEW f \in Files, NEW v \in Versions
    PROVE  CardsOfDocument(Parse(f[2], v), ToSet(ParsedAs(f, v).cards), ParsedAs(f, v).issues)
<1>1. IsParsedFile(Parse(f[2], v))
  BY FileIsPair, ImportAssumption
<1>2. QED
  BY <1>1, DocumentIsAggregated DEF ParsedAs

\* A card without an error about its rows is what the document says.
LEMMA FaultlessIsSaid ==
    ASSUME NEW f \in Files, NEW v \in Versions, NEW c \in ToSet(ParsedAs(f, v).cards),
           ~Blames(ParsedAs(f, v).issues, c)
    PROVE  SaidBy(f, c, v)
BY ParsedDocument DEF CardsOfDocument, SaidBy

LEMMA FaultlessFile ==
    ASSUME NEW f \in Files, NEW v \in Versions, ParsedAs(f, v).issues = {}
    PROVE  FitToConfirm(f, ToSet(ParsedAs(f, v).cards), {})
<1>1. \A c \in ToSet(ParsedAs(f, v).cards) : SaidBy(f, c, v)
  BY FaultlessIsSaid DEF Blames
<1>2. QED
  BY <1>1, ParsedDocument DEF CardsOfDocument, FitToConfirm, Apart

LEMMA SaveOk ==
    ASSUME TablesOk, SchedulerOk, NEW w \in Workers, SaveParsedFile(w),
           NEW s, SessionOk(s)
    PROVE  worker[w].file[1] = s => SessionOk(s)'
<1>0. SUFFICES ASSUME worker[w].file[1] = s PROVE SessionOk(s)'
  OBVIOUS
<1>1. PICK f, result : /\ f = worker[w].file /\ f[1] = s
                       /\ result = ParsedAs(f, version)
  BY <1>0
<1>2. /\ f \in Files /\ s \in Sessions /\ IsCollecting(s)
      /\ file'[f].status = IF result.issues = {} THEN "valid" ELSE "invalid"
      /\ items'[f] = ToSet(result.cards) /\ issues'[f] = result.issues
      /\ \A g \in Files \ {f} : /\ file'[g] = file[g]
                                /\ items'[g] = items[g]
                                /\ issues'[g] = issues[g]
      /\ cross'[s] = CrossFileIssues(s, items')
      /\ session'[s].status = "collecting"
      /\ session'[s].batch = session[s].batch
  <2>1. Saves(f, result)
    BY <1>1, SaveIsAbout
  <2>2. QED
    BY <1>1, <2>1 DEF Saves, SessionMoves
<1>3. version \in Versions
  BY DEF SchedulerOk
<1>4. ResultOk(f, file'[f].status, items'[f], issues'[f])
  <2>1. CASE result.issues = {}
    BY <1>1, <1>2, <1>3, <2>1, FaultlessFile DEF ResultOk
  <2>2. CASE result.issues # {}
    <3>1. IsOutcomeOf(f, version, items'[f], issues'[f])
      BY <1>1, <1>2 DEF IsOutcomeOf
    <3>2. QED
      BY <1>2, <1>3, <2>2, <3>1 DEF ResultOk
  <2>3. QED
    BY <2>1, <2>2
<1>5. \A g \in FilesOf(s) : ResultOk(g, file[g].status, items[g], issues[g])'
  <2>1. ASSUME NEW g \in FilesOf(s)
        PROVE  ResultOk(g, file[g].status, items[g], issues[g])'
    <3>1. IsCollecting(g[1])' /\ IsCollecting(g[1])
      BY <1>2, FilesOfPairs DEF IsCollecting
    <3>2. ResultOk(g, file'[g].status, items'[g], issues'[g])
      <4>1. CASE g = f
        BY <1>4, <4>1
      <4>2. CASE g # f
        <5>1. ResultOk(g, file[g].status, items[g], issues[g])
          BY <1>1 DEF SessionOk
        <5>2. QED
          BY <1>2, <4>2, <5>1, FilesOfPairs
      <4>3. QED
        BY <4>1, <4>2
    <3>3. QED
      BY <3>1, <3>2 DEF ResultOk
  <2>2. QED
    BY <2>1
<1>6. QED
  BY <1>2, <1>5 DEF SessionOk, IsCollecting

\* What Continue keeps of the cards of each file.
CardsKept(s) == WithoutLaterBarcodes(s, WithoutLaterVendors(s, WithoutErrorRows(s)))

\* E are the cards without errors of their own, V those of them that are the
\* first with their vendor code.
AreKept(s, E, V) ==
    /\ \A f \in FilesOf(s) : \A c : c \in E[f] <=>
        c \in items[f] /\ (file[f].status = "invalid" => ~Blames(issues[f], c))
    /\ \A f \in FilesOf(s) : \A c : c \in V[f] <=>
        /\ c \in E[f]
        /\ \A g \in FilesOf(s) : \A d \in E[g] :
            ~(ComesBefore(g, d, f, c) /\ d.vendor = c.vendor)
    /\ \A f \in FilesOf(s) : \A c : c \in CardsKept(s)[f] <=>
        /\ c \in V[f]
        /\ ~RepeatsBarcode(c)
        /\ \A g \in FilesOf(s) : \A d \in V[g] :
            ~(ComesBefore(g, d, f, c) /\ Barcodes(c) \cap Barcodes(d) # {})

LEMMA KeptCards ==
    ASSUME NEW s
    PROVE  \E E, V : AreKept(s, E, V)
<1>1. PICK E : E = WithoutErrorRows(s)
  OBVIOUS
<1>2. PICK V : V = WithoutLaterVendors(s, E)
  OBVIOUS
<1>3. CardsKept(s) = WithoutLaterBarcodes(s, V)
  BY <1>1, <1>2 DEF CardsKept
<1>4. ASSUME NEW f \in FilesOf(s), NEW c
      PROVE  c \in E[f] <=>
              c \in items[f] /\ (file[f].status = "invalid" => ~Blames(issues[f], c))
  BY <1>1, FilesOfPairs DEF WithoutErrorRows, Blames
<1>5. ASSUME NEW f \in FilesOf(s), NEW c
      PROVE  c \in V[f] <=>
              /\ c \in E[f]
              /\ \A g \in FilesOf(s) : \A d \in E[g] :
                  ~(ComesBefore(g, d, f, c) /\ d.vendor = c.vendor)
  BY <1>2, FilesOfPairs DEF WithoutLaterVendors
<1>6. ASSUME NEW f \in FilesOf(s), NEW c
      PROVE  c \in CardsKept(s)[f] <=>
              /\ c \in V[f]
              /\ ~RepeatsBarcode(c)
              /\ \A g \in FilesOf(s) : \A d \in V[g] :
                  ~(ComesBefore(g, d, f, c) /\ Barcodes(c) \cap Barcodes(d) # {})
  BY <1>3, FilesOfPairs DEF WithoutLaterBarcodes
<1>7. AreKept(s, E, V)
  BY <1>4, <1>5, <1>6 DEF AreKept
<1>8. QED
  BY <1>7

\* What is kept is part of what there was.
LEMMA KeptIsPart ==
    ASSUME NEW s, NEW f \in FilesOf(s), NEW c \in CardsKept(s)[f]
    PROVE  /\ c \in items[f] /\ ~RepeatsBarcode(c)
           /\ file[f].status = "invalid" => ~Blames(issues[f], c)
BY KeptCards DEF AreKept

\* Two cards of which one comes before the other are not both kept unless they
\* have nothing in common.
LEMMA KeptAreApart ==
    ASSUME NEW s, NEW f \in FilesOf(s), NEW g \in FilesOf(s),
           NEW c \in CardsKept(s)[f], NEW d \in CardsKept(s)[g],
           f[2] # g[2] \/ (f = g /\ c.pos \in Nat /\ d.pos \in Nat /\ c.pos # d.pos)
    PROVE  Apart(c, d)
<1>1. ComesBefore(f, c, g, d) \/ ComesBefore(g, d, f, c)
  <2>1. f[2] \in Nat /\ g[2] \in Nat
    BY FilesOfPairs, FileIsPair, ImportAssumption
  <2>2. QED
    BY <2>1 DEF ComesBefore
<1>2. ASSUME NEW h \in FilesOf(s), NEW k \in FilesOf(s),
             NEW a \in CardsKept(s)[h], NEW b \in CardsKept(s)[k], ComesBefore(h, a, k, b)
      PROVE  a.vendor # b.vendor /\ Barcodes(b) \cap Barcodes(a) = {}
  BY <1>2, KeptCards DEF AreKept
<1>3. QED
  BY <1>1, <1>2 DEF Apart

\* A card that goes has an error, or shares something with one before it.
LEMMA DroppedForAReason ==
    ASSUME NEW s, NEW f \in FilesOf(s), NEW c \in items[f], c \notin CardsKept(s)[f]
    PROVE  \/ Blames(issues[f], c)
           \/ RepeatsBarcode(c)
           \/ \E g \in FilesOf(s) : \E d \in items[g] :
                /\ ComesBefore(g, d, f, c)
                /\ d.vendor = c.vendor \/ Barcodes(d) \cap Barcodes(c) # {}
<1>1. PICK E, V : AreKept(s, E, V)
  BY KeptCards
<1>2. \A g \in FilesOf(s) : \A d : (d \in V[g] => d \in E[g]) /\ (d \in E[g] => d \in items[g])
  BY <1>1 DEF AreKept
<1>3. CASE c \notin E[f]
  BY <1>1, <1>3 DEF AreKept
<1>4. CASE c \in E[f] /\ c \notin V[f]
  BY <1>1, <1>2, <1>4 DEF AreKept
<1>5. CASE c \in V[f] /\ ~RepeatsBarcode(c)
  <2>1. PICK g \in FilesOf(s) : \E d \in V[g] :
          ComesBefore(g, d, f, c) /\ Barcodes(c) \cap Barcodes(d) # {}
    BY <1>1, <1>5 DEF AreKept
  <2>2. PICK d \in V[g] : ComesBefore(g, d, f, c) /\ Barcodes(c) \cap Barcodes(d) # {}
    BY <2>1
  <2>3. d \in items[g] /\ Barcodes(d) \cap Barcodes(c) # {}
    BY <1>2, <2>2
  <2>4. QED
    BY <2>2, <2>3
<1>6. QED
  BY <1>3, <1>4, <1>5

LEMMA FilesDiffer ==
    ASSUME NEW s, NEW f \in FilesOf(s), NEW g \in FilesOf(s), f # g
    PROVE  f[2] # g[2]
BY DEF FilesOf, Files

\* What is kept of a file can be confirmed, if the file is parsed.
LEMMA KeptIsFit ==
    ASSUME NEW s \in Sessions, SessionOk(s), NEW f \in FilesOf(s),
           file[f].status \in {"valid", "invalid"}, CardsKept(s)[f] # {}
    PROVE  FitToConfirm(f, CardsKept(s)[f], {})
<1>1. ResultOk(f, file[f].status, items[f], issues[f])
  BY DEF SessionOk
<1>2. f \in Files
  BY FilesOfPairs
<1>3. CASE file[f].status = "valid"
  <2>1. FitToConfirm(f, items[f], issues[f])
    BY <1>1, <1>3 DEF ResultOk
  <2>2. \A c \in CardsKept(s)[f] : c \in items[f]
    BY KeptIsPart
  <2>3. QED
    BY <2>1, <2>2 DEF FitToConfirm
<1>4. CASE file[f].status = "invalid"
  <2>1. PICK v \in Versions : IsOutcomeOf(f, v, items[f], issues[f])
    BY <1>1, <1>4 DEF ResultOk
  <2>2. CardsOfDocument(Parse(f[2], v), items[f], issues[f])
    BY <1>2, <2>1, ParsedDocument DEF IsOutcomeOf
  <2>3. \A c \in CardsKept(s)[f] :
            c \in items[f] /\ ~RepeatsBarcode(c) /\ ~Blames(issues[f], c)
    BY <1>4, KeptIsPart
  <2>4. \A c \in CardsKept(s)[f] : SaidBy(f, c, v)
    BY <1>2, <2>1, <2>3, FaultlessIsSaid DEF IsOutcomeOf
  <2>5. ASSUME NEW c \in CardsKept(s)[f], NEW d \in CardsKept(s)[f], c # d
        PROVE  Apart(c, d)
    <3>1. c.pos \in Nat /\ d.pos \in Nat /\ c.pos # d.pos
      BY <2>2, <2>3, <2>5 DEF CardsOfDocument
    <3>2. QED
      BY <3>1, KeptAreApart
  <2>6. QED
    BY <2>3, <2>4, <2>5 DEF FitToConfirm
<1>5. QED
  BY <1>3, <1>4

\* No cross-file issue is left among the cards kept.
LEMMA KeptHaveNoCrossIssue ==
    ASSUME NEW s
    PROVE  CrossFileIssues(s, CardsKept(s)) = {}
<1>1. ASSUME NEW f, NEW g, NEW c, NEW d, InTwoFiles(s, CardsKept(s), f, c, g, d)
      PROVE  Apart(c, d)
  <2>1. /\ f \in FilesOf(s) /\ g \in FilesOf(s) /\ f # g
        /\ c \in CardsKept(s)[f] /\ d \in CardsKept(s)[g]
    BY <1>1 DEF InTwoFiles
  <2>2. f[2] # g[2]
    BY <2>1, FilesDiffer
  <2>3. QED
    BY <2>1, <2>2, KeptAreApart
<1>2. QED
  BY <1>1, NoCrossIssue

LEMMA ContinueOk ==
    ASSUME TablesOk, ContinueAfterErrors, NEW s \in Sessions, SessionOk(s)
    PROVE  screen.session = s => SessionOk(s)'
<1>0. SUFFICES ASSUME screen.session = s PROVE SessionOk(s)'
  OBVIOUS
<1>1. Continues(s, CardsKept(s))
  BY <1>0, ContinueIsAbout DEF CardsKept
<1>2. /\ IsCollecting(s)
      /\ items' = CardsKept(s)
      /\ \A f \in FilesOf(s) :
           /\ issues'[f] = {}
           /\ file'[f].status =
               IF file[f].status \in {"valid", "invalid"}
               THEN (IF CardsKept(s)[f] # {} THEN "valid" ELSE "abandoned")
               ELSE file[f].status
      /\ cross'[s] = CrossFileIssues(s, items')
      /\ session'[s].status = "collecting"
      /\ session'[s].batch = session[s].batch
  BY <1>1 DEF Continues, SessionMoves
<1>3. \A f \in FilesOf(s) : ResultOk(f, file[f].status, items[f], issues[f])'
  <2>1. ASSUME NEW f \in FilesOf(s)
        PROVE  ResultOk(f, file[f].status, items[f], issues[f])'
    <3>1. IsCollecting(f[1])' /\ IsCollecting(f[1])
      BY <1>2, FilesOfPairs DEF IsCollecting
    <3>2. ResultOk(f, file[f].status, items[f], issues[f])
      BY DEF SessionOk
    <3>3. issues'[f] = {} /\ items'[f] = CardsKept(s)[f]
      BY <1>2
    <3>4. ResultOk(f, file'[f].status, items'[f], issues'[f])
      <4>1. CASE file[f].status \in {"valid", "invalid"} /\ CardsKept(s)[f] # {}
        <5>1. file'[f].status = "valid" /\ FitToConfirm(f, items'[f], issues'[f])
          BY <1>2, <3>3, <4>1, KeptIsFit
        <5>2. QED
          BY <5>1 DEF ResultOk
      <4>2. CASE file[f].status \in {"valid", "invalid"} /\ CardsKept(s)[f] = {}
        <5>1. file'[f].status = "abandoned"
          BY <1>2, <4>2
        <5>2. QED
          BY <3>3, <4>2, <5>1 DEF ResultOk
      <4>3. CASE file[f].status \notin {"valid", "invalid"}
        <5>1. file'[f].status = file[f].status
          BY <1>2, <4>3
        <5>2. items[f] = {} => items'[f] = {}
          BY <3>3, KeptIsPart
        <5>3. QED
          BY <3>1, <3>2, <3>3, <4>3, <5>1, <5>2 DEF ResultOk
      <4>4. QED
        BY <4>1, <4>2, <4>3
    <3>5. QED
      BY <3>1, <3>4 DEF ResultOk
  <2>2. QED
    BY <2>1
<1>4. QED
  BY <1>2, <1>3 DEF SessionOk, IsCollecting

LEMMA SourcedCard ==
    ASSUME NEW s, NEW its, NEW x \in SourcedCards(s, its)
    PROVE  /\ x[1] \in FilesOf(s) /\ x[2] \in its[x[1]]
           /\ x = <<x[1], x[2]>>
BY DEF SourcedCards

LEMMA CardIsSourced ==
    ASSUME NEW s, NEW its, NEW f \in FilesOf(s), NEW c \in its[f]
    PROVE  <<f, c>> \in SourcedCards(s, its)
BY CardsInFiles DEF SourcedCards

\* A session without errors, whose files are valid.
ReadyForBatch(s) == IsCollecting(s) /\ AllValid(s) /\ ErrorsOf(s) = {}

LEMMA CardOfReadySession ==
    ASSUME TablesOk, NEW s \in Sessions, SessionOk(s), ReadyForBatch(s),
           NEW f \in FilesOf(s), items[f] # {}
    PROVE  FitToConfirm(f, items[f], issues[f])
<1>1. ResultOk(f, file[f].status, items[f], issues[f])
  BY DEF SessionOk
<1>2. f \in Files /\ f[1] = s
  BY FilesOfPairs
<1>3. file[f].status \notin {"none", "abandoned"}
  BY <1>1, <1>2 DEF ResultOk, ReadyForBatch
<1>4. file[f].status = "valid"
  BY <1>3 DEF ReadyForBatch, AllValid, ActiveFiles
<1>5. QED
  BY <1>1, <1>4 DEF ResultOk

\* The cards of such a session can be frozen.
LEMMA ReadyCardsAreClean ==
    ASSUME TablesOk, NEW s \in Sessions, SessionOk(s), ReadyForBatch(s)
    PROVE  CleanBatch(SourcedCards(s, items)) /\ BarcodesAreUnique(s)
<1>1. cross[s] = {} /\ cross[s] = CrossFileIssues(s, items)
  BY DEF ReadyForBatch, ErrorsOf, SessionOk
<1>2. ASSUME NEW x \in SourcedCards(s, items), NEW y \in SourcedCards(s, items), x # y
      PROVE  Apart(x[2], y[2])
  <2>1. /\ x[1] \in FilesOf(s) /\ x[2] \in items[x[1]] /\ x = <<x[1], x[2]>>
        /\ y[1] \in FilesOf(s) /\ y[2] \in items[y[1]] /\ y = <<y[1], y[2]>>
    BY SourcedCard
  <2>2. CASE x[1] # y[1]
    <3>1. InTwoFiles(s, items, x[1], x[2], y[1], y[2])
      BY <2>1, <2>2 DEF InTwoFiles
    <3>2. QED
      BY <1>1, <3>1, NoCrossIssue
  <2>3. CASE x[1] = y[1]
    <3>1. x[2] # y[2]
      BY <1>2, <2>1, <2>3
    <3>2. FitToConfirm(x[1], items[x[1]], issues[x[1]])
      BY <2>1, CardOfReadySession
    <3>3. QED
      BY <2>1, <2>3, <3>1, <3>2 DEF FitToConfirm
  <2>4. QED
    BY <2>2, <2>3
<1>3. ASSUME NEW x \in SourcedCards(s, items)
      PROVE  ~RepeatsBarcode(x[2]) /\ \E v \in Versions : SaidBy(x[1], x[2], v)
  <2>1. x[1] \in FilesOf(s) /\ x[2] \in items[x[1]]
    BY SourcedCard
  <2>2. FitToConfirm(x[1], items[x[1]], issues[x[1]])
    BY <2>1, CardOfReadySession
  <2>3. QED
    BY <2>1, <2>2 DEF FitToConfirm
<1>4. CleanBatch(SourcedCards(s, items))
  BY <1>2, <1>3 DEF CleanBatch
<1>5. BarcodesAreUnique(s)
  BY <1>2, <1>3 DEF BarcodesAreUnique, Apart
<1>6. QED
  BY <1>4, <1>5

LEMMA FinalizeOk ==
    ASSUME TablesOk, ScreenOk, Finalize, NEW s \in Sessions, SessionOk(s)
    PROVE  screen.session = s => SessionOk(s)'
<1>0. SUFFICES ASSUME screen.session = s PROVE SessionOk(s)'
  OBVIOUS
<1>1. Finalizes(s)
  BY <1>0, FinalizeIsAbout
<1>2. /\ IsCollecting(s) /\ session[s].revision = screen.revision
      /\ FinalizeReadiness(s)
      /\ UNCHANGED <<file, items, issues, cross>>
      /\ session'[s].status = "finalized"
      /\ session'[s].batch = FrozenBatch(s)
  BY <1>1 DEF Finalizes, SessionMoves
<1>3. screen.cards = SourcedCards(s, items)
  <2>1. screen.press = "finalize"
    BY DEF Finalize
  <2>2. screen # NoButton
    BY <2>1 DEF NoButton
  <2>3. QED
    BY <1>0, <1>2, <2>1, <2>2 DEF ScreenOk
<1>4. /\ session'[s].batch.cards = SourcedCards(s, items)
      /\ session'[s].batch.confirmed = SourcedCards(s, items)
  BY <1>2, <1>3 DEF FrozenBatch
<1>5. CleanBatch(SourcedCards(s, items))
  BY <1>2, ReadyCardsAreClean DEF FinalizeReadiness, ReadyForBatch
<1>6. CleanBatch(session[s].batch.cards)'
  BY <1>4, <1>5 DEF CleanBatch
<1>7. \A f \in FilesOf(s) : ResultOk(f, file[f].status, items[f], issues[f])'
  <2>1. ASSUME NEW f \in FilesOf(s)
        PROVE  ResultOk(f, file[f].status, items[f], issues[f])'
    <3>1. ResultOk(f, file[f].status, items[f], issues[f])
      BY DEF SessionOk
    <3>2. IsCollecting(f[1])
      BY <1>2, FilesOfPairs
    <3>3. QED
      BY <1>2, <3>1, <3>2 DEF ResultOk
  <2>2. QED
    BY <2>1
<1>8. QED
  BY <1>2, <1>4, <1>6, <1>7 DEF SessionOk, IsCollecting

-----------------------------------------------------------------------------
(* A step is about one open session, or about none.                        *)

\* The cards of a session do not change unless its revision grows.
KeepsPace(s) ==
    /\ session[s].revision \in Nat /\ session'[s].revision \in Nat
    /\ session'[s].revision >= session[s].revision
    /\ session'[s].revision = session[s].revision =>
        SourcedCards(s, items') = SourcedCards(s, items)

IsClosed(s) == session[s].status \in {"finalized", "cancelled"}

Advances(s) ==
    /\ s \in Sessions /\ ~IsClosed(s)
    /\ TablesOk' /\ IsAbout(s) /\ KeepsPace(s)

IsQuiet ==
    \/ UNCHANGED tables
    \/ \E f \in Files : ParsingGetsStale(f)
    \/ Restart

LEMMA RevisionIsNat ==
    ASSUME TablesOk, NEW s \in Sessions
    PROVE  session[s].revision \in Nat
BY ImportAssumption DEF TablesOk, SessionRow

LEMMA SameItemsSameCards ==
    ASSUME NEW s, NEW its, NEW others, \A f \in FilesOf(s) : its[f] = others[f]
    PROVE  SourcedCards(s, its) = SourcedCards(s, others)
<1>1. CardsIn(s, its) = CardsIn(s, others)
  BY CardsInFiles
<1>2. \A x \in FilesOf(s) \X CardsIn(s, its) : x[2] \in its[x[1]] <=> x[2] \in others[x[1]]
  OBVIOUS
<1>3. QED
  BY <1>1, <1>2 DEF SourcedCards

LEMMA StaysKeepsPace ==
    ASSUME TablesOk, NEW s \in Sessions, StaysAsItIs(s)
    PROVE  KeepsPace(s)
<1>1. session[s].revision \in Nat /\ session'[s] = session[s]
  BY RevisionIsNat DEF StaysAsItIs
<1>2. SourcedCards(s, items') = SourcedCards(s, items)
  BY SameItemsSameCards DEF StaysAsItIs
<1>3. QED
  BY <1>1, <1>2 DEF KeepsPace

LEMMA GrowsKeepsPace ==
    ASSUME TablesOk, NEW s \in Sessions, NEW status,
           SessionMoves(s, status, session[s].revision + 1)
    PROVE  KeepsPace(s)
BY RevisionIsNat DEF SessionMoves, KeepsPace

LEMMA SameKeepsPace ==
    ASSUME TablesOk, NEW s \in Sessions, session'[s].revision = session[s].revision,
           items' = items
    PROVE  KeepsPace(s)
<1>1. SourcedCards(s, items') = SourcedCards(s, items)
  OBVIOUS
<1>2. QED
  BY <1>1, RevisionIsNat DEF KeepsPace

LEMMA TableSteps ==
    ASSUME [Next]_vars
    PROVE  \/ IsQuiet
           \/ \E s \in Sessions : Begin(s) \/ CancelSession(s)
           \/ \E s \in Sessions, d \in Documents : ReceiveDocument(s, d)
           \/ ContinueAfterErrors
           \/ Finalize
           \/ \E w \in Workers : Store(w) \/ ClaimFileForParsing(w) \/ SaveParsedFile(w)
<1>1. CASE UserNext
  BY <1>1 DEF UserNext, IsQuiet, ReadSession, ResumeFiles, ShowSession
<1>2. CASE SchedulerNext
  BY <1>2 DEF SchedulerNext, IsQuiet, Scan, EnqueueListed
<1>3. ASSUME NEW w \in Workers, WorkerNext(w) \/ Fail(w)
      PROVE  IsQuiet \/ Store(w) \/ ClaimFileForParsing(w) \/ SaveParsedFile(w)
  BY <1>3 DEF WorkerNext, IsQuiet, Take, NothingToDo, Conflict, Fail
<1>4. CASE UNCHANGED vars
  BY <1>4 DEF vars, IsQuiet
<1>5. QED
  BY <1>1, <1>2, <1>3, <1>4 DEF Next, IsQuiet

LEMMA SceneSteps ==
    ASSUME [Next]_vars
    PROVE  \/ UNCHANGED <<reading, screen>>
           \/ ShowSession
           \/ \E s \in Sessions : ReadSession(s)
           \/ reading' = NotReading /\ screen' = screen
<1>1. CASE UserNext
  BY <1>1 DEF UserNext, Begin, CancelSession, ResumeFiles, ReceiveDocument,
              ContinueAfterErrors, Finalize, process
<1>2. CASE SchedulerNext
  BY <1>2 DEF SchedulerNext, Scan, EnqueueListed
<1>3. ASSUME NEW w \in Workers, WorkerNext(w) \/ Fail(w)
      PROVE  UNCHANGED <<reading, screen>>
  BY <1>3 DEF WorkerNext, Take, Store, ClaimFileForParsing, SaveParsedFile,
              NothingToDo, Conflict, Fail
<1>4. CASE UNCHANGED vars
  BY <1>4 DEF vars, process
<1>5. CASE Restart \/ \E f \in Files : ParsingGetsStale(f)
  BY <1>5 DEF Restart, ParsingGetsStale, process
<1>6. QED
  BY <1>1, <1>2, <1>3, <1>4, <1>5 DEF Next

LEMMA BeginAdvances ==
    ASSUME TablesOk, NEW s \in Sessions, Begin(s)
    PROVE  Advances(s)
<1>1. /\ session[s].status = "none" /\ items' = items
      /\ session'[s].revision = session[s].revision
  BY BeginMoves DEF Begin, SessionMoves
<1>2. KeepsPace(s)
  BY <1>1, SameKeepsPace
<1>3. QED
  BY <1>1, <1>2, BeginIsAbout DEF Advances, IsClosed

LEMMA CancelAdvances ==
    ASSUME TablesOk, NEW s \in Sessions, CancelSession(s)
    PROVE  Advances(s)
<1>1. session[s].status = "collecting"
  BY DEF CancelSession, IsCollecting
<1>2. KeepsPace(s)
  BY CancelMoves, GrowsKeepsPace
<1>3. QED
  BY <1>1, <1>2, CancelIsAbout DEF Advances, IsClosed

LEMMA ReceiveAdvances ==
    ASSUME TablesOk, NEW s \in Sessions, NEW d \in Documents, ReceiveDocument(s, d)
    PROVE  Advances(s)
<1>1. session[s].status = "collecting" /\ items' = items /\ session' = session
  BY DEF ReceiveDocument, ReserveFile, IsCollecting
<1>2. KeepsPace(s)
  BY <1>1, SameKeepsPace
<1>3. QED
  BY <1>1, <1>2, ReceiveIsAbout DEF Advances, IsClosed

LEMMA ContinueAdvances ==
    ASSUME TablesOk, ContinueAfterErrors, screen.session \in Sessions
    PROVE  Advances(screen.session)
<1>1. PICK s \in Sessions : s = screen.session
  OBVIOUS
<1>2. Continues(s, CardsKept(s))
  BY <1>1, ContinueIsAbout DEF CardsKept
<1>3. KeepsPace(s)
  BY <1>2, GrowsKeepsPace DEF Continues
<1>4. Advances(s)
  BY <1>2, <1>3 DEF Advances, IsClosed, Continues, IsCollecting
<1>5. QED
  BY <1>1, <1>4

LEMMA FinalizeAdvances ==
    ASSUME TablesOk, Finalize, screen.session \in Sessions
    PROVE  Advances(screen.session)
<1>1. PICK s \in Sessions : s = screen.session
  OBVIOUS
<1>2. Finalizes(s)
  BY <1>1, FinalizeIsAbout
<1>3. KeepsPace(s)
  BY <1>2, GrowsKeepsPace DEF Finalizes
<1>4. Advances(s)
  BY <1>2, <1>3 DEF Advances, IsClosed, Finalizes, IsCollecting
<1>5. QED
  BY <1>1, <1>4

\* Storing and claiming change the row of one file.
LEMMA StoreAdvances ==
    ASSUME TablesOk, SchedulerOk, NEW w \in Workers, Store(w) \/ ClaimFileForParsing(w)
    PROVE  \E s \in Sessions : s = worker[w].file[1] /\ Advances(s)
<1>1. PICK f : f = worker[w].file
  OBVIOUS
<1>2. /\ f \in Files /\ IsCollecting(f[1])
      /\ TablesOk' /\ IsAbout(f[1])
      /\ UNCHANGED <<session, items, issues, cross>>
  <2>1. CASE Store(w)
    BY <1>1, <2>1, StoreIsAbout
  <2>2. CASE ClaimFileForParsing(w)
    BY <1>1, <2>2, ClaimIsAbout
  <2>3. QED
    BY <2>1, <2>2
<1>3. f[1] \in Sessions
  BY <1>2, FileIsPair
<1>4. KeepsPace(f[1])
  BY <1>2, <1>3, SameKeepsPace
<1>5. Advances(f[1])
  BY <1>2, <1>3, <1>4 DEF Advances, IsClosed, IsCollecting
<1>6. QED
  BY <1>1, <1>3, <1>5

LEMMA SaveAdvances ==
    ASSUME TablesOk, SchedulerOk, NEW w \in Workers, SaveParsedFile(w)
    PROVE  \E s \in Sessions : s = worker[w].file[1] /\ Advances(s)
<1>1. PICK f, result : f = worker[w].file /\ result = ParsedAs(f, version)
  OBVIOUS
<1>2. Saves(f, result)
  BY <1>1, SaveIsAbout
<1>3. KeepsPace(f[1])
  BY <1>2, GrowsKeepsPace DEF Saves
<1>4. Advances(f[1])
  BY <1>2, <1>3 DEF Advances, IsClosed, Saves, IsCollecting
<1>5. QED
  BY <1>1, <1>2, <1>4 DEF Saves

\* What a step does to the tables.
LEMMA TablesAdvance ==
    ASSUME SchedulerOk, TablesOk, ScreenOk, \A s \in Sessions : SessionOk(s), [Next]_vars
    PROVE  /\ TablesOk'
           /\ \/ \A s \in Sessions : StaysAsItIs(s)
              \/ \E s \in Sessions : Advances(s) /\ SessionOk(s)'
<1>1. CASE IsQuiet
  BY <1>1, OthersAreAboutNothing DEF IsQuiet
<1>2. ASSUME NEW s \in Sessions, Begin(s)
      PROVE  Advances(s) /\ SessionOk(s)'
  BY <1>2, BeginAdvances, BeginOk
<1>3. ASSUME NEW s \in Sessions, CancelSession(s)
      PROVE  Advances(s) /\ SessionOk(s)'
  BY <1>3, CancelAdvances, CancelOk
<1>4. ASSUME NEW s \in Sessions, NEW d \in Documents, ReceiveDocument(s, d)
      PROVE  Advances(s) /\ SessionOk(s)'
  BY <1>4, ReceiveAdvances, ReceiveOk
<1>5. ASSUME ContinueAfterErrors \/ Finalize
      PROVE  \E s \in Sessions : Advances(s) /\ SessionOk(s)'
  <2>1. screen # NoButton
    BY <1>5 DEF ContinueAfterErrors, Finalize, NoButton
  <2>2. PICK s \in Sessions : s = screen.session
    BY <2>1 DEF ScreenOk
  <2>3. SessionOk(s)'
    BY <1>5, <2>2, ContinueOk, FinalizeOk
  <2>4. Advances(s)
    BY <1>5, <2>2, ContinueAdvances, FinalizeAdvances
  <2>5. QED
    BY <2>3, <2>4
<1>6. ASSUME NEW w \in Workers, Store(w) \/ ClaimFileForParsing(w) \/ SaveParsedFile(w)
      PROVE  \E s \in Sessions : Advances(s) /\ SessionOk(s)'
  <2>1. PICK s \in Sessions : s = worker[w].file[1] /\ Advances(s)
    BY <1>6, StoreAdvances, SaveAdvances
  <2>2. SessionOk(s)'
    BY <1>6, <2>1, StoreOk, ClaimOkKeeps, SaveOk
  <2>3. QED
    BY <2>1, <2>2
<1>7. QED
  <2>1. \A s : Advances(s) => TablesOk'
    BY DEF Advances
  <2>2. QED
    BY <1>1, <1>2, <1>3, <1>4, <1>5, <1>6, <2>1, TableSteps

-----------------------------------------------------------------------------
(* The invariant.                                                          *)

LEMMA InitInv == Init => Inv
<1>0. SUFFICES ASSUME Init PROVE Inv
  OBVIOUS
<1>1. MaxRevision \in Nat /\ QueueLimit \in Nat /\ 1 \in Versions
  BY ImportAssumption
<1>2. SchedulerOk
  BY <1>0, <1>1 DEF Init, SchedulerOk, NoJob
<1>3. QueueAgrees /\ HoldersAgree
  BY <1>0 DEF Init, QueueAgrees, HoldersAgree, Holds, NoJob
<1>4. TablesOk
  BY <1>0, <1>1 DEF Init, TablesOk, SessionRow, SessionStatuses, FileRow, FileStatuses, NoFile
<1>5. ASSUME NEW s \in Sessions PROVE SessionOk(s)
  <2>1. session[s].status = "none" /\ session[s].batch = NoBatch /\ cross[s] = {}
    BY <1>0 DEF Init
  <2>2. \A f \in FilesOf(s) : file[f].status = "none" /\ items[f] = {} /\ issues[f] = {}
    BY <1>0, FilesOfPairs DEF Init, NoFile
  <2>3. QED
    BY <2>1, <2>2 DEF SessionOk, IsCollecting, ResultOk, NoBatch
<1>6. ReadingOk /\ ScreenOk
  BY <1>0 DEF Init, ReadingOk, ScreenOk
<1>7. QED
  BY <1>2, <1>3, <1>4, <1>5, <1>6 DEF Inv

\* What has been read of a session is still not newer than the session, and an
\* offer that is still current still shows its cards.
LEMMA SceneStep ==
    ASSUME TablesOk, ReadingOk, ScreenOk, \A s \in Sessions : KeepsPace(s), [Next]_vars
    PROVE  ReadingOk' /\ ScreenOk'
<1>1. ASSUME screen' = screen PROVE ScreenOk'
  <2>1. CASE screen = NoButton
    BY <1>1, <2>1 DEF ScreenOk
  <2>2. CASE screen # NoButton
    <3>1. PICK s \in Sessions : s = screen.session
      BY <2>2 DEF ScreenOk
    <3>2. /\ screen.revision \in 0..session[s].revision
          /\ screen.press = "finalize" /\ session[s].revision = screen.revision =>
                screen.cards = SourcedCards(s, items)
      BY <2>2, <3>1 DEF ScreenOk
    <3>3. screen.revision \in 0..session'[s].revision
      BY <3>2 DEF KeepsPace
    <3>4. ASSUME screen.press = "finalize", session'[s].revision = screen.revision
          PROVE  screen.cards = SourcedCards(s, items')
      BY <3>2, <3>4 DEF KeepsPace
    <3>5. QED
      BY <1>1, <3>1, <3>3, <3>4 DEF ScreenOk
  <2>3. QED
    BY <2>1, <2>2
<1>2. ASSUME reading' = reading PROVE ReadingOk'
  <2>1. ASSUME reading.session \in Sessions,
               reading.revision \in 0..session[reading.session].revision
        PROVE  reading.revision \in 0..session'[reading.session].revision
    BY <2>1 DEF KeepsPace
  <2>2. QED
    BY <1>2, <2>1 DEF ReadingOk
<1>3. ASSUME NEW s \in Sessions, ReadSession(s) PROVE ReadingOk' /\ ScreenOk'
  <2>1. reading'.session = s /\ reading'.revision = session[s].revision
        /\ screen' = screen /\ session' = session
    BY <1>3 DEF ReadSession, tables
  <2>2. reading'.revision \in 0..session'[s].revision
    BY <2>1, RevisionIsNat
  <2>3. QED
    BY <1>1, <2>1, <2>2 DEF ReadingOk
<1>4. ASSUME ShowSession PROVE ReadingOk' /\ ScreenOk'
  <2>1. PICK s, ready : /\ s = reading.session
                        /\ ready = (/\ reading.status = "collecting"
                                    /\ ActiveFiles(s) # {}
                                    /\ AllValid(s)
                                    /\ ErrorsOf(s) = {})
    OBVIOUS
  <2>2. /\ reading # NotReading /\ reading' = NotReading
        /\ screen' = [press |-> ButtonOf(s, ready), session |-> s,
                      revision |-> reading.revision,
                      cards |-> IF ready THEN SourcedCards(s, items) ELSE {}]
        /\ UNCHANGED tables
    BY <1>4, <2>1 DEF ShowSession
  <2>3. /\ screen'.press = ButtonOf(s, ready) /\ screen'.session = s
        /\ screen'.revision = reading.revision
        /\ ready => screen'.cards = SourcedCards(s, items)
    BY <2>2
  <2>4. screen'.press = "finalize" => screen'.cards = SourcedCards(s, items)
    BY <2>3 DEF ButtonOf
  <2>5. s \in Sessions /\ reading.revision \in 0..session[s].revision
    BY <2>1, <2>2 DEF ReadingOk
  <2>6. session' = session /\ items' = items
    BY <2>2 DEF tables
  <2>7. QED
    BY <2>2, <2>3, <2>4, <2>5, <2>6 DEF ReadingOk, ScreenOk
<1>5. ASSUME reading' = NotReading PROVE ReadingOk'
  BY <1>5 DEF ReadingOk
<1>6. QED
  BY <1>1, <1>2, <1>3, <1>4, <1>5, SceneSteps

LEMMA InvStep == Inv /\ [Next]_vars => Inv'
<1>0. SUFFICES ASSUME Inv, [Next]_vars PROVE Inv'
  OBVIOUS
<1>1. /\ SchedulerOk /\ QueueAgrees /\ HoldersAgree /\ TablesOk
      /\ \A s \in Sessions : SessionOk(s)
      /\ ReadingOk /\ ScreenOk
  BY <1>0 DEF Inv
<1>2. SchedulerOk' /\ QueueAgrees' /\ HoldersAgree'
  BY <1>0, <1>1, SchedulerStep
<1>3. TablesOk'
  BY <1>0, <1>1, TablesAdvance
<1>4. /\ \A s \in Sessions : KeepsPace(s)
      /\ \A s \in Sessions : SessionOk(s)'
  <2>1. CASE \A s \in Sessions : StaysAsItIs(s)
    BY <1>1, <2>1, StaysOk, StaysKeepsPace
  <2>2. ASSUME NEW s \in Sessions, Advances(s), SessionOk(s)',
               NEW t \in Sessions
        PROVE  KeepsPace(t) /\ SessionOk(t)'
    <3>1. CASE t = s
      BY <2>2, <3>1 DEF Advances
    <3>2. CASE t # s
      <4>1. StaysAsItIs(t)
        BY <2>2, <3>2 DEF Advances, IsAbout
      <4>2. QED
        BY <1>1, <4>1, StaysOk, StaysKeepsPace
    <3>3. QED
      BY <3>1, <3>2
  <2>3. QED
    BY <1>0, <1>1, <2>1, <2>2, TablesAdvance
<1>5. ReadingOk' /\ ScreenOk'
  BY <1>0, <1>1, <1>4, SceneStep
<1>6. QED
  BY <1>2, <1>3, <1>4, <1>5 DEF Inv

\* The invariant holds of every state: the recovery map, its channel and its
\* workers agree, each file holds what its status says, and a screen that is
\* current shows the cards of the table.
THEOREM InvHolds == Spec => []Inv
<1>1. Init => Inv
  BY InitInv
<1>2. Inv /\ [Next]_vars => Inv'
  BY InvStep
<1>3. QED
  BY <1>1, <1>2, PTL DEF Spec

-----------------------------------------------------------------------------
(* The recovery scheduler is sound.                                        *)

LEMMA TypesFromInv ==
    ASSUME SchedulerOk, TablesOk
    PROVE  TypeOK
<1>1. ASSUME NEW s \in Sessions
      PROVE  /\ session[s].status \in {"none", "collecting", "cancelled", "finalized"}
             /\ session[s].revision \in 0..MaxRevision + 1
  BY DEF TablesOk, SessionRow, SessionStatuses
<1>2. ASSUME NEW f \in Files
      PROVE  /\ file[f] \in [status : FileStatuses, stale : BOOLEAN, old : BOOLEAN]
             /\ recovery[f] \in [job : FileStatuses \cup {"parsing_recently"},
                                 queued : BOOLEAN, running : BOOLEAN]
  <2>1. recovery[f] \in [job : JobStatuses \cup {"none"}, queued : BOOLEAN,
                         running : BOOLEAN]
    BY DEF SchedulerOk
  <2>2. JobStatuses \cup {"none"} = FileStatuses \cup {"parsing_recently"}
    BY DEF JobStatuses, FileStatuses
  <2>3. QED
    BY <2>1, <2>2 DEF TablesOk, FileRow
<1>3. queue \in Seq(Files) /\ Len(queue) <= QueueLimit /\ version \in Versions
  BY DEF SchedulerOk
<1>4. QED
  BY <1>1, <1>2, <1>3 DEF TypeOK

\* A set with one element or none.
LEMMA AtMostOne ==
    ASSUME NEW S, \A x, y \in S : x = y
    PROVE  Cardinality(S) = IF S # {} THEN 1 ELSE 0
<1>1. CASE S = {}
  BY <1>1, FS_EmptySet
<1>2. CASE S # {}
  <2>1. PICK x : S = {x}
    BY <1>2
  <2>2. Cardinality({x}) = 1
    BY FS_Singleton
  <2>3. QED
    BY <1>2, <2>1, <2>2
<1>3. QED
  BY <1>1, <1>2

LEMMA ExclusiveFromInv ==
    ASSUME SchedulerOk, QueueAgrees, HoldersAgree
    PROVE  RecoveryIsExclusive
<1>1. DOMAIN queue = 1..Len(queue)
  BY DEF SchedulerOk
<1>2. ASSUME NEW f \in Files
      PROVE  LET waiting == Cardinality({i \in DOMAIN queue : queue[i] = f})
                 holders == Cardinality({w \in Workers :
                            worker[w] # Idle /\ worker[w].file = f})
             IN  /\ waiting = IF recovery[f].queued THEN 1 ELSE 0
                 /\ holders = IF recovery[f].running THEN 1 ELSE 0
                 /\ waiting + holders <= 1
  <2>1. PICK Q, H : /\ Q = {i \in DOMAIN queue : queue[i] = f}
                    /\ H = {w \in Workers : worker[w] # Idle /\ worker[w].file = f}
    OBVIOUS
  <2>2. Cardinality(Q) = IF Q # {} THEN 1 ELSE 0
    BY <1>1, <2>1, AtMostOne DEF QueueAgrees
  <2>3. Cardinality(H) = IF H # {} THEN 1 ELSE 0
    BY <2>1, AtMostOne DEF HoldersAgree, Holds
  <2>4. recovery[f].queued <=> Q # {}
    BY <1>1, <2>1 DEF QueueAgrees
  <2>5. recovery[f].running <=> H # {}
    BY <2>1 DEF HoldersAgree, Holds
  <2>6. ~(recovery[f].queued /\ recovery[f].running)
    BY DEF HoldersAgree
  <2>7. /\ Cardinality(Q) = IF recovery[f].queued THEN 1 ELSE 0
        /\ Cardinality(H) = IF recovery[f].running THEN 1 ELSE 0
    BY <2>2, <2>3, <2>4, <2>5
  <2>8. Cardinality(Q) + Cardinality(H) <= 1
    BY <2>6, <2>7
  <2>9. QED
    BY <2>1, <2>7, <2>8
<1>3. QED
  BY <1>2 DEF RecoveryIsExclusive

\* A file waits in the channel at most once and is in the hands of at most one
\* worker, exactly when the recovery map says so, through every restart, full
\* channel and repeated scan.
THEOREM RecoveryStaysSound == Spec => []RecoveryIsSound
<1>1. Inv => RecoveryIsSound
  BY TypesFromInv, ExclusiveFromInv DEF Inv, RecoveryIsSound
<1>2. QED
  BY <1>1, InvHolds, PTL

-----------------------------------------------------------------------------
(* The batch is clean.                                                     *)

LEMMA ReadyFromInv ==
    ASSUME TablesOk, \A s \in Sessions : SessionOk(s)
    PROVE  ReadyIsFinalizable
<1>1. ASSUME NEW s \in Sessions, IsReady(s)
      PROVE  FinalizeReadiness(s) /\ BarcodesAreUnique(s)
  <2>1. /\ IsCollecting(s) /\ ActiveFiles(s) # {} /\ AllValid(s) /\ ErrorsOf(s) = {}
    BY <1>1 DEF IsReady
  <2>2. BarcodesAreUnique(s)
    BY <2>1, ReadyCardsAreClean DEF ReadyForBatch
  <2>3. CardsIn(s, items) # {}
    <3>1. PICK f \in ActiveFiles(s) : file[f].status = "valid"
      BY <2>1 DEF AllValid
    <3>2. f \in FilesOf(s)
      BY DEF ActiveFiles
    <3>3. ResultOk(f, file[f].status, items[f], issues[f])
      BY <3>2 DEF SessionOk
    <3>4. items[f] # {}
      BY <3>1, <3>3 DEF ResultOk, FitToConfirm
    <3>5. QED
      BY <3>2, <3>4, CardsInFiles
  <2>4. QED
    BY <2>1, <2>2, <2>3 DEF FinalizeReadiness
<1>2. QED
  BY <1>1 DEF ReadyIsFinalizable

LEMMA CleanFromInv ==
    ASSUME \A s \in Sessions : SessionOk(s)
    PROVE  FinalizedAsConfirmed /\ BatchIsClean
<1>1. FinalizedAsConfirmed
  BY DEF SessionOk, FinalizedAsConfirmed
<1>2. ASSUME NEW s \in Sessions, session[s].status = "finalized"
      PROVE  CleanBatch(session[s].batch.cards)
  BY <1>2 DEF SessionOk
<1>3. BatchIsClean
  BY <1>2 DEF BatchIsClean, CleanBatch, Apart, SaidBy, Blames
<1>4. QED
  BY <1>1, <1>3

\* Whatever is offered for confirmation can be finalized, and whatever has been
\* finalized is what the user confirmed: each card what its document says of its
\* vendor code, without an error, no vendor code or barcode twice.
THEOREM BatchStaysClean == Spec => []ConfirmedBatchIsClean
<1>1. Inv => ConfirmedBatchIsClean
  BY ReadyFromInv, CleanFromInv DEF Inv, ConfirmedBatchIsClean
<1>2. QED
  BY <1>1, InvHolds, PTL

-----------------------------------------------------------------------------
(* Results are kept.                                                       *)

\* The two action properties as actions.
SkipsOnlyErrors ==
    ContinueAfterErrors =>
        LET s == screen.session IN
            /\ ErrorsOf(s)' = {}
            /\ \A x \in SourcedCards(s, items) :
                \/ x \in SourcedCards(s, items')
                \/ \E i \in issues[x[1]] : i.row = 0 \/ i.row \in x[2].rows
                \/ RepeatsBarcode(x[2])
                \/ \E y \in SourcedCards(s, items) :
                    /\ ComesBefore(y[1], y[2], x[1], x[2])
                    /\ \/ y[2].vendor = x[2].vendor
                       \/ Barcodes(y[2]) \cap Barcodes(x[2]) # {}

ClosedStays ==
    \A s \in Sessions : session[s].status \in {"finalized", "cancelled"} =>
        /\ session'[s] = session[s]
        /\ cross'[s] = cross[s]
        /\ \A f \in FilesOf(s) :
            /\ file'[f].status = file[f].status
            /\ items'[f] = items[f]
            /\ issues'[f] = issues[f]

LEMMA ClosedStaysInStep ==
    ASSUME Inv, [Next]_vars
    PROVE  ClosedStays
<1>1. ASSUME NEW s \in Sessions, IsClosed(s) PROVE StaysAsItIs(s)
  BY <1>1, TablesAdvance DEF Inv, Advances, IsAbout
<1>2. QED
  BY <1>1 DEF ClosedStays, StaysAsItIs, IsClosed

LEMMA ContinueSkips ==
    ASSUME Inv, ContinueAfterErrors
    PROVE  SkipsOnlyErrors
<1>1. screen.session \in Sessions
  <2>1. screen # NoButton
    BY DEF ContinueAfterErrors, NoButton
  <2>2. QED
    BY <2>1 DEF Inv, ScreenOk
<1>2. PICK s \in Sessions : s = screen.session
  BY <1>1
<1>3. Continues(s, CardsKept(s))
  BY <1>2, ContinueIsAbout DEF CardsKept, Inv
<1>4. /\ items' = CardsKept(s)
      /\ \A f \in FilesOf(s) : issues'[f] = {}
      /\ cross'[s] = CrossFileIssues(s, items')
  BY <1>3 DEF Continues
<1>5. cross'[s] = {}
  BY <1>4, KeptHaveNoCrossIssue
<1>6. (cross'[s] \cup UNION {issues'[f] : f \in FilesOf(s)}) = {}
  BY <1>4, <1>5
<1>7. ASSUME NEW x \in SourcedCards(s, items), x \notin SourcedCards(s, items')
      PROVE  \/ \E i \in issues[x[1]] : i.row = 0 \/ i.row \in x[2].rows
             \/ RepeatsBarcode(x[2])
             \/ \E y \in SourcedCards(s, items) :
                    /\ ComesBefore(y[1], y[2], x[1], x[2])
                    /\ \/ y[2].vendor = x[2].vendor
                       \/ Barcodes(y[2]) \cap Barcodes(x[2]) # {}
  <2>1. PICK f, c : x = <<f, c>> /\ f \in FilesOf(s) /\ c \in items[f] /\ f = x[1] /\ c = x[2]
    BY SourcedCard
  <2>2. c \notin CardsKept(s)[f]
    BY <1>4, <1>7, <2>1, CardIsSourced
  <2>3. CASE \E g \in FilesOf(s) : \E d \in items[g] :
                /\ ComesBefore(g, d, f, c)
                /\ d.vendor = c.vendor \/ Barcodes(d) \cap Barcodes(c) # {}
    <3>1. PICK g \in FilesOf(s) : \E d \in items[g] :
                /\ ComesBefore(g, d, f, c)
                /\ d.vendor = c.vendor \/ Barcodes(d) \cap Barcodes(c) # {}
      BY <2>3
    <3>2. PICK d \in items[g] :
                /\ ComesBefore(g, d, f, c)
                /\ d.vendor = c.vendor \/ Barcodes(d) \cap Barcodes(c) # {}
      BY <3>1
    <3>3. PICK y : y = <<g, d>>
      OBVIOUS
    <3>4. y \in SourcedCards(s, items)
      BY <3>3, CardIsSourced
    <3>5. QED
      BY <2>1, <3>2, <3>3, <3>4
  <2>4. QED
    BY <2>1, <2>2, <2>3, DroppedForAReason DEF Blames
<1>8. screen'.session = s
  BY <1>2 DEF ContinueAfterErrors
<1>9. ErrorsOf(screen.session)' = {}
  BY <1>6, <1>8 DEF ErrorsOf
<1>10. QED
  BY <1>2, <1>7, <1>9 DEF SkipsOnlyErrors

\* Continue leaves no error and drops no card but those with an error or with
\* something in common with an earlier one; no late worker, job or button
\* changes a session that is finalized or cancelled.
THEOREM ResultsStayKept == Spec => ResultsAreKept
<1>1. Inv /\ [Next]_vars => [SkipsOnlyErrors]_vars
  BY ContinueSkips DEF SkipsOnlyErrors
<1>2. Inv /\ [Next]_vars => [ClosedStays]_vars
  BY ClosedStaysInStep
<1>3. Spec => [][SkipsOnlyErrors]_vars
  BY <1>1, InvHolds, PTL DEF Spec
<1>4. Spec => [][ClosedStays]_vars
  BY <1>2, InvHolds, PTL DEF Spec
<1>5. QED
  BY <1>3, <1>4 DEF ResultsAreKept, ContinueSkipsOnlyErrors, ClosedSessionIsFrozen,
                    SkipsOnlyErrors, ClosedStays
=============================================================================
