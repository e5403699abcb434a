----------------------------- MODULE CardImport -----------------------------
(***************************************************************************)
(* The import of XLSX files through Telegram (internal/feature/cardimport):*)
(* a user collects files in a session, a recovery scheduler and its        *)
(* workers download, store and parse them, the user skips what is wrong    *)
(* ('Continue') and confirms the cards ('Finalize'), which freezes them as *)
(* a batch.  One user is modelled: sessions of different users share no    *)
(* row, and a partial unique index allows each one collecting session.     *)
(*                                                                         *)
(* A button carries the revision of the screen it was on and can be        *)
(* pressed at any later time, more than once.  A screen is read in two     *)
(* statements that are not one transaction.  A job carries the file as it  *)
(* was when it was listed.  The process can restart between two steps.     *)
(***************************************************************************)
EXTENDS CardAggregation

CONSTANTS
    MaxSessions,    \* sessions the user opens
    Documents,      \* 1..n: the documents, numbered in the order they arrive
    Versions,       \* 1..n: parser versions; a restart may install the next
    Parse(_, _),    \* what the parser of a version makes of a document
    Workers,        \* cardimportRecoveryWorkers (2 in the code)
    QueueLimit,     \* capacity of recoveryJobs (256 in the code)
    MaxFaults,      \* bound: restarts of the process, attempts of a worker that
                    \* fail, updates delivered again or from old messages
    MaxRevision     \* bound: revision of a session

\* A parser reads some rows, or says why there are none.
IsParsedFile(parsed) ==
    /\ Len(parsed.rows) \in Nat
    /\ DOMAIN parsed.rows = 1..Len(parsed.rows)
    /\ \A i \in DOMAIN parsed.rows : IsFiniteSet(parsed.rows[i].codes)
    /\ Len(parsed.rows) = 0 => parsed.issues # {}

ASSUME ImportAssumption ==
    /\ MaxSessions \in Nat
    /\ Documents \subseteq Nat
    /\ Versions \subseteq Nat /\ 1 \in Versions
    /\ \A d \in Documents, v \in Versions : IsParsedFile(Parse(d, v))
    /\ QueueLimit \in Nat
    /\ MaxFaults \in Nat
    /\ MaxRevision \in Nat

Sessions == 1..MaxSessions
Files == Sessions \X Documents      \* <<session, document>>; ids grow with it

VARIABLES
    session,    \* card_import_sessions
    file,       \* card_import_files: status, and the age of updated_at
    items,      \* card_import_items of each file
    issues,     \* card_import_issues of each file
    cross,      \* issues of a session without a file
    recovery,   \* recoveryStates: job (status listed), queued, running
    queue,      \* recoveryJobs
    listing,    \* files a scan has read and not yet enqueued
    worker,     \* what each recovery worker is doing
    reading,    \* a screen whose session row has been read
    screen,     \* the user's screen: its button, and what it showed
    version,    \* parser version of the running process
    faults

tables == <<session, file, items, issues, cross>>
process == <<recovery, queue, listing, worker, reading, version>>
vars == <<tables, process, screen, faults>>

NoBatch == [cards |-> {}, confirmed |-> {}]
NoFile == [status |-> "none", stale |-> FALSE, old |-> FALSE]
NoJob == [job |-> "none", queued |-> FALSE, running |-> FALSE]
Idle == [step |-> "idle"]
NotReading == [session |-> 0]
NoButton == [press |-> "none"]

Init ==
    /\ session = [s \in Sessions |->
                    [status |-> "none", revision |-> 0, batch |-> NoBatch]]
    /\ file = [f \in Files |-> NoFile]
    /\ items = [f \in Files |-> {}]
    /\ issues = [f \in Files |-> {}]
    /\ cross = [s \in Sessions |-> {}]
    /\ recovery = [f \in Files |-> NoJob]
    /\ queue = <<>>
    /\ listing = {}
    /\ worker = [w \in Workers |-> Idle]
    /\ reading = NotReading
    /\ screen = NoButton
    /\ version = 1
    /\ faults = 0
-----------------------------------------------------------------------------
FilesOf(s) == {f \in Files : f[1] = s}
IsCollecting(s) == session[s].status = "collecting"
Collecting == {s \in Sessions : IsCollecting(s)}
Touched(status) == [status |-> status, stale |-> FALSE, old |-> FALSE]
CardsIn(s, its) == UNION {its[f] : f \in FilesOf(s)}
SourcedCards(s, its) == {x \in FilesOf(s) \X CardsIn(s, its) : x[2] \in its[x[1]]}
ErrorsOf(s) == cross[s] \cup UNION {issues[f] : f \in FilesOf(s)}

\* Startup and 'Begin': GetOrCreateCollectingSession inserts a session unless
\* the user has one.
Begin(s) ==
    /\ Collecting = {}
    /\ session[s].status = "none"
    /\ \A t \in 1..s-1 : session[t].status # "none"
    /\ session' = [session EXCEPT ![s].status = "collecting"]
    /\ UNCHANGED <<file, items, issues, cross, process, screen, faults>>

(***************************************************************************)
(* Cross-file issues: a vendor code or a barcode in two files.             *)
(***************************************************************************)
CrossFileIssues(s, its) ==
    LET across(Keys(_), code) ==
            {[key |-> k, code |-> code] : k \in
                {k \in UNION {Keys(c) : c \in CardsIn(s, its)} :
                    \E f, g \in FilesOf(s) :
                        /\ f # g
                        /\ \E c \in its[f] : k \in Keys(c)
                        /\ \E c \in its[g] : k \in Keys(c)}}
    IN  across(LAMBDA c : {c.vendor}, "vendor_code_across_files")
            \cup across(Barcodes, "barcode_across_files")
-----------------------------------------------------------------------------
(* The recovery queue.                                                     *)

\* Mutant: a file that a worker holds is queued again.
EnqueueRunning(f, status) ==
    LET wanted == ~recovery[f].queued
        fits == Len(queue) < QueueLimit
    IN  /\ recovery' = [recovery EXCEPT
                ![f].job = status, ![f].queued = @ \/ (wanted /\ fits)]
        /\ queue' = IF wanted /\ fits THEN Append(queue, f) ELSE queue

\* enqueueRecovery: remember the job, queue the file unless it is queued or
\* running; a full channel takes the mark back and wakes the scheduler (which
\* may scan at any time here).  Backoff only delays the next scan.
Enqueue(f, status) ==
    LET wanted == ~recovery[f].queued /\ ~recovery[f].running
        fits == Len(queue) < QueueLimit
    IN  /\ recovery' = [recovery EXCEPT
                ![f].job = status, ![f].queued = @ \/ (wanted /\ fits)]
        /\ queue' = IF wanted /\ fits THEN Append(queue, f) ELSE queue

\* ReserveFile: a new row, or the row of a document that is delivered again.
\* MaxFilesPerSession is 0: no limit.
ReserveFile(s, d) ==
    /\ IsCollecting(s)
    /\ IF file[<<s, d>>].status = "none"
       THEN /\ \A e \in Documents : e > d => file[<<s, e>>].status = "none"
            /\ file' = [file EXCEPT ![<<s, d>>] = Touched("reserved")]
            /\ UNCHANGED faults
       ELSE /\ faults < MaxFaults
            /\ faults' = faults + 1
            /\ UNCHANGED file

\* receiveDocument: reserve the document in the session that was read, and
\* enqueue the file it returns.
ReceiveDocument(s, d) ==
    /\ ReserveFile(s, d)
    /\ LET row == file'[<<s, d>>] IN
        Enqueue(<<s, d>>, IF row.status = "parsing" /\ ~row.stale
                          THEN "parsing_recently" ELSE row.status)
    /\ UNCHANGED <<session, items, issues, cross, listing, worker, reading,
                   version, screen>>

\* Mutant: a file left 'parsing' by a worker that died is never listed.
IsUnparsed(f) == file[f].status \in {"reserved", "stored"}

IsRecoverable(f) ==
    \/ file[f].status \in {"reserved", "stored"}
    \/ file[f].status = "parsing" /\ file[f].stale

\* A file whose price errors a newer parser may no longer find.
IsReparsed(f) ==
    /\ file[f].status = "invalid"
    /\ file[f].old
    /\ \E i \in issues[f] : i.code = "price_invalid"

\* scanRecoverableFiles, the query.
Scan ==
    /\ listing = {}
    /\ listing' = {[file |-> f, status |-> file[f].status] :
                    f \in {f \in Files : /\ IsCollecting(f[1])
                                         /\ IsRecoverable(f) \/ IsReparsed(f)}}
    /\ listing' # {}
    /\ UNCHANGED <<tables, recovery, queue, worker, reading, version, screen,
                   faults>>

\* resumeFiles: the files of the session on the screen, in the goroutine of
\* the callback; the button is on no screen any more, only in old messages.
ResumeFiles(s) ==
    /\ faults < MaxFaults
    /\ faults' = faults + 1
    /\ listing' = listing \cup
            {[file |-> f, status |-> file[f].status] :
                f \in {f \in FilesOf(s) : IsRecoverable(f)}}
    /\ listing' # listing
    /\ UNCHANGED <<tables, recovery, queue, worker, reading, version, screen>>

\* scanRecoverableFiles, the loop over what the query returned.
EnqueueListed(l) ==
    /\ l \in listing
    /\ listing' = listing \ {l}
    /\ Enqueue(l.file, l.status)
    /\ UNCHANGED <<tables, worker, reading, version, screen, faults>>

\* A file is old enough to be claimed again: five minutes against the ninety
\* seconds a worker may take, so no worker is at it.
ParsingGetsStale(f) ==
    /\ file[f].status = "parsing"
    /\ ~file[f].stale
    /\ \A w \in Workers : worker[w] # Idle => worker[w].file # f
    /\ file' = [file EXCEPT ![f].stale = TRUE]
    /\ UNCHANGED <<session, items, issues, cross, process, screen, faults>>
-----------------------------------------------------------------------------
(* A recovery worker: processRecoveryJob and processFile.                  *)

\* What processing starts with, by the status in the job.  A job listed as
\* 'parsing' within the last five minutes is a conflict unless it has waited
\* that long in the queue; 'valid' only reads the session again.
StepsFor(status) ==
    CASE status = "reserved" -> {"download"}
      [] status \in {"stored", "parsing", "invalid"} -> {"claim"}
      [] status = "parsing_recently" -> {"claim", "conflict"}
      [] status = "valid" -> {"done"}
      [] status = "abandoned" -> {"conflict"}

\* takeRecovery: the job is the one remembered last.
Take(w) ==
    /\ worker[w] = Idle
    /\ queue # <<>>
    /\ LET f == Head(queue) IN
        /\ recovery' = [recovery EXCEPT ![f].queued = FALSE, ![f].running = TRUE]
        /\ \E step \in StepsFor(recovery[f].job) :
            worker' = [worker EXCEPT ![w] = [step |-> step, file |-> f]]
    /\ queue' = Tail(queue)
    /\ UNCHANGED <<tables, listing, reading, version, screen, faults>>

AtStep(w, step) == worker[w] # Idle /\ worker[w].step = step

\* finishRecovery.
Finished(w, ok) ==
    /\ worker' = [worker EXCEPT ![w] = Idle]
    /\ recovery' = [recovery EXCEPT ![worker[w].file] =
                        IF ok THEN NoJob ELSE [@ EXCEPT !.running = FALSE]]

StoreFileOk(f) == IsCollecting(f[1]) /\ file[f].status \in {"reserved", "stored"}

\* The blob is downloaded and StoreFile accepts it.
Store(w) ==
    /\ AtStep(w, "download")
    /\ StoreFileOk(worker[w].file)
    /\ file' = [file EXCEPT ![worker[w].file] = Touched("stored")]
    /\ worker' = [worker EXCEPT ![w].step = "claim"]
    /\ UNCHANGED <<session, items, issues, cross, recovery, queue, listing,
                   reading, version, screen, faults>>

ClaimOk(f) ==
    /\ IsCollecting(f[1])
    /\ \/ file[f].status \in {"stored", "valid", "invalid"}
       \/ file[f].status = "parsing" /\ file[f].stale

\* ClaimFileForParsing: a file that has been parsed can be parsed again.
ClaimFileForParsing(w) ==
    /\ AtStep(w, "claim")
    /\ LET f == worker[w].file IN
        /\ ClaimOk(f)
        /\ file' = [file EXCEPT ![f] = Touched("parsing")]
    /\ worker' = [worker EXCEPT ![w].step = "save"]
    /\ UNCHANGED <<session, items, issues, cross, recovery, queue, listing,
                   reading, version, screen, faults>>

\* The rest of ParseFile: the claimed blob is parsed and aggregated.
ParsedAs(f, v) == AggregateParsedFile(Parse(f[2], v))

\* clearPreviousParseResult with copyCards, and copyIssues.
ReplacedItems(f, result) == [items EXCEPT ![f] = ToSet(result.cards)]
ReplacedIssues(f, result) == [issues EXCEPT ![f] = result.issues]

FinishParsingFile(result) ==
    Touched(IF result.issues = {} THEN "valid" ELSE "invalid")

LockParsingFile(f) ==
    /\ IsCollecting(f[1])
    /\ file[f].status = "parsing"
    /\ session[f[1]].revision < MaxRevision

\* Mutant: the revision does not count the new cards.
SaveWithoutRevision(w) ==
    /\ AtStep(w, "save")
    /\ LET f == worker[w].file
           result == ParsedAs(f, version)
       IN
        /\ LockParsingFile(f)
        /\ items' = ReplacedItems(f, result)
        /\ issues' = ReplacedIssues(f, result)
        /\ cross' = [cross EXCEPT ![f[1]] = CrossFileIssues(f[1], items')]
        /\ file' = [file EXCEPT ![f] = FinishParsingFile(result)]
    /\ Finished(w, TRUE)
    /\ UNCHANGED <<session, queue, listing, reading, version, screen, faults>>

SaveParsedFile(w) ==
    /\ AtStep(w, "save")
    /\ LET f == worker[w].file
           result == ParsedAs(f, version)
       IN
        /\ LockParsingFile(f)
        /\ items' = ReplacedItems(f, result)
        /\ issues' = ReplacedIssues(f, result)
        /\ cross' = [cross EXCEPT ![f[1]] = CrossFileIssues(f[1], items')]
        /\ file' = [file EXCEPT ![f] = FinishParsingFile(result)]
        /\ session' = [session EXCEPT ![f[1]].revision = @ + 1]
    /\ Finished(w, TRUE)
    /\ UNCHANGED <<queue, listing, reading, version, screen, faults>>

NothingToDo(w) ==
    /\ AtStep(w, "done")
    /\ Finished(w, TRUE)
    /\ UNCHANGED <<tables, queue, listing, reading, version, screen, faults>>

\* A failed download or statement, or the end of the attempt's ninety seconds:
\* the job stays known and the next scan tries again.
Fail(w) ==
    /\ worker[w] # Idle
    /\ worker[w].step # "done"
    /\ faults < MaxFaults
    /\ faults' = faults + 1
    /\ Finished(w, FALSE)
    /\ UNCHANGED <<tables, queue, listing, reading, version, screen>>

\* The database refuses the step: the file or its session has moved on.
Conflict(w) ==
    /\ worker[w] # Idle
    /\ LET f == worker[w].file IN
        \/ worker[w].step = "conflict"
        \/ worker[w].step = "download" /\ ~StoreFileOk(f)
        \/ worker[w].step = "claim" /\ ~ClaimOk(f)
        \/ worker[w].step = "save" /\ ~(IsCollecting(f[1]) /\ file[f].status = "parsing")
    /\ Finished(w, FALSE)
    /\ UNCHANGED <<tables, queue, listing, reading, version, screen, faults>>

\* The process ends and starts again, perhaps with the next parser.  Every row
\* is now older than recoveryStartedAt.
Restart ==
    /\ faults < MaxFaults
    /\ faults' = faults + 1
    /\ version' \in {version, version + 1} \cap Versions
    /\ file' = [f \in Files |-> [file[f] EXCEPT !.old = file[f].status # "none"]]
    /\ recovery' = [f \in Files |-> NoJob]
    /\ queue' = <<>>
    /\ listing' = {}
    /\ worker' = [w \in Workers |-> Idle]
    /\ reading' = NotReading
    /\ UNCHANGED <<session, items, issues, cross, screen>>
-----------------------------------------------------------------------------
(* The user's screen and its buttons.                                      *)

ActiveFiles(s) == {f \in FilesOf(s) : file[f].status \notin {"none", "abandoned"}}

AllValid(s) == \A f \in ActiveFiles(s) : file[f].status = "valid"

\* loadSessionView, the Ready flag of what one moment's rows say.
IsReady(s) ==
    /\ IsCollecting(s)
    /\ ActiveFiles(s) # {}
    /\ AllValid(s)
    /\ ErrorsOf(s) = {}

\* getSession of GetSessionView.
ReadSession(s) ==
    /\ reading = NotReading
    /\ session[s].status # "none"
    /\ reading' = [session |-> s, status |-> session[s].status,
                   revision |-> session[s].revision]
    /\ UNCHANGED <<tables, recovery, queue, listing, worker, version, screen,
                   faults>>

UnfinishedFiles(s) ==
    {f \in ActiveFiles(s) : file[f].status \in {"reserved", "stored", "parsing"}}

\* sessionView: a Finalize button, a Continue button or neither.
ButtonOf(s, ready) ==
    IF ready THEN "finalize"
    ELSE IF ErrorsOf(s) # {} /\ UnfinishedFiles(s) = {} THEN "continue"
    ELSE "none"

\* loadSessionView; the screen replaces the one before.
ShowSession ==
    /\ reading # NotReading
    /\ LET s == reading.session
           ready == /\ reading.status = "collecting"
                    /\ ActiveFiles(s) # {}
                    /\ AllValid(s)
                    /\ ErrorsOf(s) = {}
       IN screen' = [press |-> ButtonOf(s, ready), session |-> s,
                     revision |-> reading.revision,
                     cards |-> IF ready THEN SourcedCards(s, items) ELSE {}]
    /\ reading' = NotReading
    /\ UNCHANGED <<tables, recovery, queue, listing, worker, version, faults>>

\* The check of the expected revision, in ContinueAfterErrors and, after
\* lockFinalizeSession, in Finalize.  On a session that is finalized already the
\* same Finalize returns the stored batch and any other is a conflict: nothing
\* changes.
IsCurrent(s) == IsCollecting(s) /\ session[s].revision = screen.revision

\* CancelSession; a repeated press changes nothing.
CancelSession(s) ==
    /\ IsCollecting(s)
    /\ session[s].revision < MaxRevision
    /\ session' = [session EXCEPT ![s].status = "cancelled", ![s].revision = @ + 1]
    /\ file' = [f \in Files |-> IF f \in ActiveFiles(s) THEN Touched("abandoned")
                                ELSE file[f]]
    /\ UNCHANGED <<items, issues, cross, process, screen, faults>>
-----------------------------------------------------------------------------
(* ContinueAfterErrors.                                                    *)

ComesBefore(f, c, g, d) == f[2] < g[2] \/ (f = g /\ c.pos < d.pos)

WithoutErrorRows(s) ==
    [f \in Files |->
        IF f[1] = s /\ file[f].status = "invalid"
        THEN {c \in items[f] : \A i \in issues[f] : i.row # 0 /\ i.row \notin c.rows}
        ELSE items[f]]

WithoutLaterVendors(s, its) ==
    [f \in Files |-> {c \in its[f] : f[1] = s =>
        \A g \in FilesOf(s) : \A d \in its[g] :
            ~(ComesBefore(g, d, f, c) /\ d.vendor = c.vendor)}]

\* Mutant: a card that shares a barcode is dropped with the card it repeats.
WithoutSharedBarcodes(s, its) ==
    [f \in Files |-> {c \in its[f] : f[1] = s =>
        /\ ~RepeatsBarcode(c)
        /\ \A g \in FilesOf(s) : \A d \in its[g] :
            \/ <<g, d>> = <<f, c>>
            \/ Barcodes(c) \cap Barcodes(d) = {}}]

WithoutLaterBarcodes(s, its) ==
    [f \in Files |-> {c \in its[f] : f[1] = s =>
        /\ ~RepeatsBarcode(c)
        /\ \A g \in FilesOf(s) : \A d \in its[g] :
            ~(ComesBefore(g, d, f, c) /\ Barcodes(c) \cap Barcodes(d) # {})}]

ContinueAfterErrors ==
    /\ screen.press = "continue"
    /\ LET s == screen.session
           kept == WithoutLaterBarcodes(s,
                        WithoutLaterVendors(s, WithoutErrorRows(s)))
       IN
        /\ IsCurrent(s)
        /\ ErrorsOf(s) # {}
        /\ session[s].revision < MaxRevision
        /\ items' = kept
        /\ file' = [f \in Files |->
                    IF f[1] = s /\ file[f].status \in {"valid", "invalid"}
                    THEN Touched(IF kept[f] # {} THEN "valid" ELSE "abandoned")
                    ELSE file[f]]
        /\ issues' = [f \in Files |-> IF f[1] = s THEN {} ELSE issues[f]]
        /\ cross' = [cross EXCEPT ![s] = CrossFileIssues(s, kept)]
        /\ session' = [session EXCEPT ![s].revision = @ + 1]
    /\ UNCHANGED <<process, screen, faults>>
-----------------------------------------------------------------------------
(* Finalize.                                                               *)

\* loadFrozenItems: no barcode stands twice.
BarcodesAreUnique(s) ==
    \A x, y \in SourcedCards(s, items) :
        IF x = y THEN ~RepeatsBarcode(x[2])
        ELSE Barcodes(x[2]) \cap Barcodes(y[2]) = {}

\* validateFinalizeReadiness.
FinalizeReadiness(s) ==
    /\ ActiveFiles(s) # {}
    /\ AllValid(s)
    /\ ErrorsOf(s) = {}
    /\ CardsIn(s, items) # {}

\* The batch and copyFrozenItems, with the cards of the screen beside it.
FrozenBatch(s) == [cards |-> SourcedCards(s, items), confirmed |-> screen.cards]

Finalize ==
    /\ screen.press = "finalize"
    /\ LET s == screen.session IN
        /\ IsCurrent(s)
        /\ FinalizeReadiness(s)
        /\ BarcodesAreUnique(s)
        /\ session' = [session EXCEPT ![s] =
                [status |-> "finalized", revision |-> @.revision + 1,
                 batch |-> FrozenBatch(s)]]
    /\ UNCHANGED <<file, items, issues, cross, process, screen, faults>>
-----------------------------------------------------------------------------
UserNext ==
    \/ \E s \in Sessions : Begin(s) \/ CancelSession(s) \/ ReadSession(s)
                                    \/ ResumeFiles(s)
    \/ \E s \in Sessions, d \in Documents : ReceiveDocument(s, d)
    \/ ShowSession
    \/ ContinueAfterErrors
    \/ Finalize

WorkerNext(w) ==
    Take(w) \/ Store(w) \/ ClaimFileForParsing(w) \/ SaveParsedFile(w)
            \/ NothingToDo(w) \/ Conflict(w)

SchedulerNext ==
    Scan \/ (\E l \in listing : EnqueueListed(l))

Next ==
    \/ UserNext
    \/ SchedulerNext
    \/ \E w \in Workers : WorkerNext(w) \/ Fail(w)
    \/ \E f \in Files : ParsingGetsStale(f)
    \/ Restart

Spec == Init /\ [][Next]_vars

(***************************************************************************)
(* Fairness.  The scheduler ticks every five seconds and goes through what *)
(* it listed; a worker's attempt ends within ninety seconds, and of the    *)
(* attempts, repeated for ever with a backoff of at most five minutes,     *)
(* only finitely many fail to reach Telegram or the database (MaxFaults).  *)
(* The user owes nothing.                                                  *)
(***************************************************************************)
\* A listed file is dealt with, which in Next is EnqueueListed.
ListingShrinks == \E l \in listing : listing' = listing \ {l}

\* A worker takes a file or a step with the one it has, which in Next is
\* WorkerNext: nothing blocks it, except the bound of the revision.
WorkerMoves(w) ==
    \/ /\ worker[w] = Idle /\ queue # <<>>
       /\ \E step \in {"download", "claim", "conflict", "done"} :
            worker' = [worker EXCEPT ![w] = [step |-> step, file |-> Head(queue)]]
    \/ /\ worker[w] # Idle
       /\ worker[w].step = "save" => session[worker[w].file[1]].revision < MaxRevision
       /\ \/ worker' = [worker EXCEPT ![w] = Idle]
          \/ \E step \in {"claim", "save"} : worker' = [worker EXCEPT ![w].step = step]

Fairness ==
    /\ WF_listing(Scan) /\ WF_listing(ListingShrinks)
    /\ \A w \in Workers : WF_worker(WorkerMoves(w))
    /\ \A f \in Files : WF_file(ParsingGetsStale(f))

FairSpec == Spec /\ Fairness
-----------------------------------------------------------------------------
FileStatuses == {"none", "reserved", "stored", "parsing", "valid", "invalid",
                 "abandoned"}

\* The columns of sessions, batches, files and jobs hold values of their CHECKed
\* domains.
TypeOK ==
    /\ \A s \in Sessions :
        /\ session[s].status \in {"none", "collecting", "cancelled", "finalized"}
        /\ session[s].revision \in 0..MaxRevision + 1
    /\ \A f \in Files :
        /\ file[f] \in [status : FileStatuses, stale : BOOLEAN, old : BOOLEAN]
        /\ recovery[f] \in [job : FileStatuses \cup {"parsing_recently"},
                            queued : BOOLEAN, running : BOOLEAN]
    /\ queue \in Seq(Files)
    /\ Len(queue) <= QueueLimit
    /\ version \in Versions

(***************************************************************************)
(* A file is in the hands of at most one worker, and waits in the channel  *)
(* at most once, exactly when its state in recoveryStates says so: the     *)
(* branch of takeRecovery that drops a job is never taken and no file is   *)
(* lost between the map and the channel.                                   *)
(***************************************************************************)
RecoveryIsExclusive ==
    \A f \in Files :
        LET waiting == Cardinality({i \in DOMAIN queue : queue[i] = f})
            holders == Cardinality({w \in Workers :
                            worker[w] # Idle /\ worker[w].file = f})
        IN  /\ waiting = IF recovery[f].queued THEN 1 ELSE 0
            /\ holders = IF recovery[f].running THEN 1 ELSE 0
            /\ waiting + holders <= 1

(***************************************************************************)
(* A batch is what the user confirmed: the cards frozen by Finalize are    *)
(* the cards of the screen whose button was pressed, whatever the workers  *)
(* and other buttons did between the screen and the press.                 *)
(***************************************************************************)
FinalizedAsConfirmed ==
    \A s \in Sessions : session[s].batch.cards = session[s].batch.confirmed

\* What a document says of a vendor code, seen as a whole: the rows that agree
\* with the first of that code are its card, in the order of first rows.
CardOfVendor(parsed, v) ==
    LET rows  == parsed.rows
        first == CHOOSE i \in DOMAIN rows :
                    rows[i].vendor = v /\ \A j \in 1..i-1 : rows[j].vendor # v
        mine  == {i \in DOMAIN rows : rows[i].vendor = v /\ rows[i].fields = rows[first].fields}
    IN  [pos |-> Cardinality({rows[i].vendor : i \in 1..first}),
         rows |-> {rows[i].row : i \in mine}, vendor |-> v, fields |-> rows[first].fields,
         skus |-> UNION {{rows[i].size} \X rows[i].codes : i \in mine}]

(***************************************************************************)
(* A batch holds no card twice and no card with an error: each of its      *)
(* cards is what its document says of the vendor code as some parser read  *)
(* it, without an error about its rows, and no vendor code or barcode      *)
(* stands in two of them.                                                  *)
(***************************************************************************)
BatchIsClean ==
    \A s \in Sessions : session[s].status = "finalized" =>
        /\ \A x, y \in session[s].batch.cards : x # y =>
            /\ x[2].vendor # y[2].vendor
            /\ Barcodes(x[2]) \cap Barcodes(y[2]) = {}
        /\ \A x \in session[s].batch.cards : \E v \in Versions :
            LET parsed == Parse(x[1][2], v)
            IN  /\ \E row \in ToSet(parsed.rows) : row.vendor = x[2].vendor
                /\ x[2] = CardOfVendor(parsed, x[2].vendor)
                /\ \A i \in ParsedAs(x[1], v).issues : i.row # 0 /\ i.row \notin x[2].rows

(***************************************************************************)
(* A screen that offers the Finalize button tells the truth: a session     *)
(* that is Ready passes every check of Finalize.                           *)
(***************************************************************************)
ReadyIsFinalizable ==
    \A s \in Sessions :
        IsReady(s) => FinalizeReadiness(s) /\ BarcodesAreUnique(s)

(***************************************************************************)
(* Continue leaves no error behind, and a card without an error of its own *)
(* that shares its vendor code and barcodes with no other card survives.   *)
(***************************************************************************)
ContinueSkipsOnlyErrors ==
    [][ContinueAfterErrors =>
        LET s == screen.session IN
            /\ ErrorsOf(s)' = {}
            /\ \A x \in SourcedCards(s, items) :
                \/ x \in SourcedCards(s, items')
                \/ \E i \in issues[x[1]] : i.row = 0 \/ i.row \in x[2].rows
                \/ RepeatsBarcode(x[2])
                \/ \E y \in SourcedCards(s, items) :
                    /\ ComesBefore(y[1], y[2], x[1], x[2])
                    /\ \/ y[2].vendor = x[2].vendor
                       \/ Barcodes(y[2]) \cap Barcodes(x[2]) # {}]_vars

(***************************************************************************)
(* A session that is finalized or cancelled is closed: no late worker, job *)
(* or button changes it, its files' results or its batch.                  *)
(***************************************************************************)
ClosedSessionIsFrozen ==
    [][\A s \in Sessions : session[s].status \in {"finalized", "cancelled"} =>
        /\ session'[s] = session[s]
        /\ cross'[s] = cross[s]
        /\ \A f \in FilesOf(s) :
            /\ file'[f].status = file[f].status
            /\ items'[f] = items[f]
            /\ issues'[f] = issues[f]]_vars

(***************************************************************************)
(* The bot promises to carry on by itself after a network failure: every   *)
(* file that was received is parsed, unless the user gives it up.          *)
(***************************************************************************)
FileIsProcessed ==
    \A f \in Files :
        file[f].status \in {"reserved", "stored", "parsing"} ~>
            \/ file[f].status \in {"valid", "invalid", "abandoned"}
            \/ session[f[1]].revision = MaxRevision

(***************************************************************************)
(* The recovery scheduler is sound: its map, its channel and its workers   *)
(* agree about every file.                                                 *)
(***************************************************************************)
RecoveryIsSound == TypeOK /\ RecoveryIsExclusive

(***************************************************************************)
(* What is offered for confirmation can be finalized, and what is          *)
(* finalized is what was confirmed, without repeated or wrong cards.       *)
(***************************************************************************)
ConfirmedBatchIsClean ==
    ReadyIsFinalizable /\ FinalizedAsConfirmed /\ BatchIsClean

(***************************************************************************)
(* Cards and results change only as the user asked: Continue drops nothing *)
(* but errors, and a closed session stays as it is.                        *)
(***************************************************************************)
ResultsAreKept == ContinueSkipsOnlyErrors /\ ClosedSessionIsFrozen

=============================================================================
