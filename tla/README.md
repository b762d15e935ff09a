# A verification project for tex-ls

tex-ls is a language server, formatter and linter for TeX, written in Rust.  This
directory holds TLA+ models of its concurrent and stateful core, the TLC runs that
check them on small instances, and TLAPS proofs of the results that hold for every
instance.  Definitions keep the names of the code where TLA+ allows it; `PROJECT.json`
gives the source lines behind each of them.

Paths below are relative to the repository.  `lsp/` is `src/lsp/`, `incremental/` is
`crates/tex-ls-analysis/src/incremental/`, `protocol/` is `crates/tex-ls-protocol/src/`.

## 1. Inventory

The server is a handful of threads around one database:

```
 editor <-> main loop ---- jobs ----> worker (owns the database) ---- plans ----> acquisition thread
              ^  |  ledger (lock)       |   ^                 ^------ completions ----'
              |  '--- cancel ---------- | --'--- done ---- readers (pool, one snapshot each)
              '------- outbound <-------'------------------------'
                                   installed index (mutex) <--> refresh thread, watcher
```

| Component | State it keeps | Operations | Talks to | What is hard | What makes it correct |
| --- | --- | --- | --- | --- | --- |
| Request ledger (`lsp/request_ids.rs`, `protocol/lifecycle.rs`) | pending calls, cancellation flags, two maps between wire and internal identifiers, lifecycle | receive, cancel, complete, drain | main loop, worker and readers, under a lock | a wire identifier is reused while the reader of its first call still runs; shutdown races late results | every call answered exactly once, at its own identifier; the four tables agree |
| Main loop (`lsp/event_loop.rs`, `requests.rs`, `synchronization.rs`) | documents, settings, `diagnostic_stamp`, `discovery_stamp`, edit contexts, refreshes | one arm per channel: editor, worker, IPC, ledger boundary | every other part | results computed from what the editor no longer has | nothing stale is forwarded; every stale result is made up for |
| Worker (`lsp/worker.rs`, `worker/dispatch.rs`, `worker/acquisition.rs`) | the database, `pending_reads`, `deferred_files`, the analysis slot and queue, `files_inflight`, acquisition keys | one handler per job, completions, admission tick | pool, acquisition thread, main loop | a write cancels every reader and waits for them; jobs are deferred, queued, resumed and cancelled in any order | no job lost or doubled, no deadlock, no starvation |
| Read pool (`lsp/task_pool.rs`, `responses.rs`) | permits, threads | reserve, run, return, drop | worker, main loop | a permit lost on one of the exit paths | permits and readers always add up |
| Acquisition thread (`lsp/file_acquisition.rs`) | a FIFO of plans, physical identities | read a plan, report | worker, disk | reads race programs that write | a superseded batch never wins |
| Push diagnostics (worker, main loop) | queue, slot, stamps | enqueue, start, cancel, publish, forward, relint | editor | coalescing, supersession, waiting for files and permits | what is shown is current; a quiet server is up to date |
| Incremental source storage (`incremental/source_layers.rs`, `host.rs`, `database.rs`, `external_inputs.rs`) | layers and memberships of sources, stamps, revision, epoch, acquisition tokens | set backing, open/replace/close overlay, write, edit, move, remove, create/remove project, begin/apply acquisition | worker, browser host | projects share bytes; tokens outlive what they stand for | layers describe instances; no stale token is accepted, no fresh one refused |
| Installed TeX index (`src/texmf.rs`) | the index, its fingerprint, epoch and flags; a cache file | ask, watched change, refresh (capture, fingerprint, walk, recheck, save, publish) | worker, readers, watcher, other programs | the walk is not atomic, the watcher is late, the cache outlives the process | an index is the tree of one moment, never goes back, converges |
| Project registry (`protocol/projects.rs`) | roots, overlapping projects, associations | update roots, move documents, associate | worker, browser host | overlapping roots, moves across projects | a document has one owner per selection |
| Compiler artifact acquisition (`lsp/compiler_acquisition.rs`, `lsp/state.rs`, `lsp/watching.rs`) | contexts, dirty and in-flight batches, retired sources, counted watches, the scope and last scan of the polling watcher | prepare, invalidate, read, complete, retire, clear, replace watches, scan | worker, acquisition thread, main loop | batches complete after their contexts changed or went; paths are watched only once they were read | counts agree with rows; no superseded batch is published; at rest the database has what is on disk |
| Edit admission (`lsp/event_loop.rs`) | stamps of requests that return edits | admit, re-stamp on `ReadStarted`, discard | readers | relies on the order of one channel | edits never apply to text they were not computed from |
| Semantic token store (`protocol/semantic_token_store.rs`) | baselines by document, sequence, total size | full, delta, forget, evict | readers | eviction at its limits, reopened documents | a delta applies to what the client holds |
| Requests to the client (`lsp/refresh.rs`, `loading.rs`, `client_requests.rs`) | outstanding refreshes, progress token, configuration scopes | send, answer, give up | editor, worker | answers in any order, or refusals; what changed while an answer is out | begin/end match; no refresh lost; newest settings win |
| Browser host (`crates/tex-ls-browser`) | a session over the same storage and ledger | transactions | JavaScript | partial transactions | all or nothing |
| Inverse/forward search, IPC, CLI, config | little | I/O | files, sockets | | |
| Parser, formatter, linter rules, language features, salsa queries | none of their own | pure functions | | size of the input space | round trip, idempotence, stable results |

The hazards behind this table are listed, each at its line, in `PROJECT.json`.

The models stand for about 3% of the repository's 138,000 lines.  The other lines are,
nearly all, the last row of the table with its tests: a lexer, a grammar, a formatter, lint
rules, completion, hover, and data about packages.  They run to the end on one thread over
an immutable snapshot, so there are no steps to interleave and no state to relate; what could
be wrong with them is what they say of a text, of which a small instance tells little.

## 2. Plan

Most important behaviour first.  "Done" says what this project has now.

1. `RequestSession`, `Requests`, `RequestsProofs`: the life of a request through every
   thread, implementing an abstract session.  *Done.*
2. `Diagnostics`, `DiagnosticsProofs`: from a notification to what the editor shows.
   *Done.*
3. `InstalledIndex`, `InstalledIndexProofs`: the shared index and its refreshes.  *Done.*
4. `SourceLayers`, `SourceLayersProofs`: the writer of the database.  *Done.*
5. `EditAdmission`, `EditAdmissionProofs`: stamps, discovery and `ReadStarted` for requests
   that return edits.  *Done.*
6. `CompilerArtifacts`, `CompilerArtifactsProofs`: contexts, batches, retired sources, the
   counted watches of the main loop and the watcher that scans them.  *Done.*
7. `SemanticTokens`, `SemanticTokensProofs`: baselines with eviction against a client that
   applies edits.  *Done.*
8. `ClientRequests`, `ClientRequestsProofs`: refreshes, progress tokens, configuration.
   *Done.*
9. Deferral of code actions for the installed index, with its anchors and the tick that
   resumes them; the registry's associations and roots; pull diagnostics across projects;
   panics outside the readers.  *Not begun*; section 6 says what each needs.

`EditAdmission` and `CompilerArtifacts` each compose the main loop, the worker and the
acquisition thread for their own messages; they share no state, so that one module with all
messages would multiply states and add no behaviour.

## 3. Modules

### RequestSession (abstract)

What an editor is promised: a wire identifier names at most one open call, each open call
is answered at most once and at the identifier it arrived with, a shutdown answers all open
calls in the step that ends the session, and an editor that leaves ends it without answers.

### Requests

Four groups of actions, one per kind of thread.

* Ledger: `LedgerReceive`, `LedgerComplete`, `LedgerDrain` are the operations of
  `RequestIds`, each under its lock; a cancellation is a completion whose answer says
  "cancelled".  `cancellation` holds the flags that the ledger still owns, `raised` the
  flags readers see.
* Main loop: `Receive`, `Cancel`, `Shutdown`, `Exit`, `TakeResponse`, `TakeOutbound`,
  `Change`.  Requests that arrive outside a running session are refused without an effect
  and are not modelled.
* Worker: `wpc` is its place in the loop of `Worker::run`.  `Handle` is `handle_job`;
  `Execute` and `HandleRequest` keep its order of checks (cancelled, inputs missing,
  inputs to acquire, permit).  `Writes` splits a database write in two: salsa first raises
  cancellation, then blocks until no snapshot is left (`WorkerFinishWrite`).  A plan is
  a count: `live` for plans some project waits for, `dead` for plans whose project was
  removed.
* Readers: `ReaderStart` (the lookup in the ledger), `ReaderFinish` (one response, whatever
  happened, a panic included), `ReaderReturn` (the permit).

What a response says is left out.  Requests differ by how they are served (`AllKinds`).

### Diagnostics

One project with documents that live in the editor and one file on disk which they include.
The main loop stamps (`DidOpen`, `DidChange`, `DidClose`, `DidChangeWatchedFile`) and
forwards (`ForwardDiagnostics`, `ForwardRelint`); the worker handles the job at the head of
its channel in one step unless it writes, in which case it cancels first (`WorkerCancel`)
and handles the job when the snapshots are gone.  `TryDispatch` is `decide` with
`try_dispatch`, `StartAnalyze` keeps the two reasons for which a request stays queued.
A plan of the acquisition thread reads at a moment of its own (`ReadPlan`), so that a
watched change can supersede it.  An analysis carries the snapshot it read; the properties
compare snapshots, not diagnostics.

### EditAdmission

The channels, the worker's loop and the acquisition thread of `Diagnostics`, with requests
in the place of analyses.  `Receive` takes the context of a request that returns edits;
`HandleRequest`, `WorkerResume` and `WorkerDispatchRead` are the ways to a reader, each of
which sends `ReadStarted` in the step that takes the snapshot (`Start`); `TakeOutbound`
re-stamps or raises the stamps, `TakeResponse` admits or refuses.  A response passes two
channels: what a relint or a `ReadStarted` finds in the stamp depends on their order.

The editor pulls its diagnostics, so that a relint sends no jobs.  A document that is closed
has no text of its own (`NoText`), and what its backing file says is not modelled: closing
refreshes the one file of the project.  The contents of the file are the number of its
changes; the changes in `Absent` remove it, because a removal is believed at once and
announced without a plan.  Cancelled requests, and the permit that comes back after the
answer, are in `Requests`.  `context.told` and `relinted` are history: what clients had said
when the request arrived, and the contents behind the last relint the main loop took.

### InstalledIndex

`IndexState` field by field, one action per step of `refresh` between which the mutex is
free or the file system is read.  The tree is the sequence of its contents, so that "the
tree at some moment" can be said; `Walk` reads it one file at a time, in any order.
Assumed: a tree without a filename database, in which every change alters the fingerprint
(directory times) and the fingerprint is taken at once; roots found at most once.
`explicit` covers both kinds of configuration.

### SourceLayers

The writer's calls are atomic, so each is one action.  `Stage` is `stage_layers` followed
by `finish_layer_batch`, `Rebuild` is `rebuild`, `ApplyProjectChange` the plain writer.
The state has one field per structure of the code that must agree with the others: layers,
memberships, texts and stamps of instances, incarnations of sources, epoch.  Clients keep
two kinds of tokens, a source version and acquisitions; `undisturbed` and `gone` are
history, computed from what each call leaves behind, never from its arguments.
Abstractions: stamps given out by one call are one stamp; the plain writer gets a text that
is unsaved only for an overlay owner, as in the native host's edit handler; batches of
moves are the constant `Renames` (a move across projects, one inside a project, a swap of
two sources that also swaps projects, and two sources onto one path).

### SemanticTokens

`SemanticTokenStore` and the lifetimes that the main loop gives to documents.  A request
remembers the lifetime of its document (`Request`); its response may come at any time, after
any number of notifications, and goes to the store only in the same lifetime (`TakeTokens`),
with any array of `Tokens`.  `EditOf` is the comparison of arrays from both ends, `Kept`
says which baselines eviction leaves, by the order of their numbers, instead of how the loop
takes them one by one.  `Size` counts the integers of some baselines by their places, which
adds up without a sum over a set.  `received` is history: what the client has under each identifier,
which is what it gets from applying an edit *to the result that it named*; a client may name
any result that it ever received, for any document.  `late` is history as well.

### CompilerArtifacts

One project.  `project` is its entry in `CompilerAcquisition.projects`, field by field, with
`known` for its being there; `Submit` is `submit`, and every handler ends with it, as in the
code, so that it is part of each action.  `WorkEdit` acquires a source, `WorkWatched` asks
`Concerns`, `CompleteFiles` retires contexts and computes the members again, `WorkRename`
clears, `Complete` accepts or rejects.  A generation is reserved by a submission and by an
invalidation, so that the latter also rejects the batch in flight.

The main loop keeps a row of watched paths per source with a count per path
(`ReplaceArtifactWatches`).  The watcher of `lsp/watching.rs` adopts the union of the rows
(`AdoptScope`) and scans (`Scan`): a path of which it has no earlier scan and no file is no
event.  Contents are numbered and odd when there is a file; an artifact with contents
includes its `Inputs`, which is what makes a batch name paths that no context names.

Four histories name what the code lets go, and a property makes an exception for it only
where the code does, and by name:

* `overlooked`: changes the worker dropped because neither a context nor the last accepted
  batch had named the path, until a batch reads it (see the finding);
* `unseen`: files that vanished before the first scan that would have seen them, of which the
  watcher has no event to send;
* `forgotten`: sources that a rename made the worker forget; their rows stay in the main loop
  until they are acquired again, as `docs/development/architecture.md:354` describes;
* `reported`: the contents when the worker last heard of a path.

### ClientRequests

The four senders of the main loop with the channel on which it sends to itself, and a client
that answers what it has in any order, refuses, and changes its settings and folders
meanwhile.  `Update` and `Poll` are `LoadingProgress`, `TakeToken` its answer; `Flush` is
`flush_refreshes`; `RequestConfiguration` asks for the settings of all folders at once, and
`HandleClientResponse` takes only the answer to the last request (`Awaits`).  A response to
an unknown request changes nothing.  `owed`, `loading` and `refused` are history.  A session
has one of `Workloads`, the numbers of refreshes, loads and changes it meets: they bound the
worker and the client together.

### MC modules

`MCRequests`, `MCDiagnostics`, `MCEditAdmission`, `MCInstalledIndex`, `MCSourceLayers`,
`MCSemanticTokens`, `MCCompilerArtifacts` and `MCClientRequests` only name model values and
small sets.  Operators whose comment begins with "Mutant:" are plausible faults of the
definition below them; no specification uses them.

## 4. Runs

| Run | Bounds | Shows |
| --- | --- | --- |
| `requests_safety` | 2 wire identifiers, 2 calls and the shutdown, pool of 1, 1 change, 1 acquisition, 1 further round of settings | `LedgerConsistent`, `AnsweredOnce`, `NothingLost`, `PermitsAccounted`, `NoStrandedDeferral`; `Requests` implements `RequestSession` |
| `requests_liveness` | the same with 1 wire identifier | `EveryRequestEnds`, `WritesFinish`, `SessionEnds` |
| `diagnostics_documents` | 2 documents with 1 text, 2 notifications, pool of 1 | `ClosedShowsNothing`, `QuietIsUpToDate`, `ComesToRest` across documents |
| `diagnostics_file` | 1 document with 2 texts, the file with 2 contents, pool of 2, texts symmetric | types, `ShownIsCurrent`, `QuietIsUpToDate` when files change |
| `diagnostics_cancelled` | 2 documents | a disagreement, see findings |
| `edit_admission` | 2 requests, 1 document, 2 notifications, the file with 2 contents of which the second removes it, 1 plan for missing inputs, pool of 1 | `EditsAreCurrent`, `NoSpuriousRefusal` |
| `installed_index` | 2 files, 2 thread identities, 3 changes, sessions with a watcher that reports each change and with one that merges them | `IndexIsOneMoment`, `CacheIsTrue`, `ServedKnowsDelivered` (of the watcher that does not merge), `IndexAdvances`, `WaitEnds`, `Converges` |
| `source_layers` | 2 paths, 2 projects, 1 text on disk, 1 unsaved, 4 batches of moves, 5 revisions, 1 acquisition per project | `LayersDescribeInstances`, `UnsavedIsNeverBacking`, `StaleVersionsFail`, `UnrelatedWritesKeepVersions`, `RemovalIsFinal` |
| `semantic_tokens` | 3 documents, 2 calls, 4 arrays, budget of 2 baselines and 4 integers, 3 results, 3 openings or renames | `ClientHasComputed`, `BaselinesAreCurrent`, `RetentionIsBounded` |
| `compiler_artifacts` | 3 sources of 2 documents, 2 artifacts of which one includes the other, 1 change of an artifact, 1 document opened, closed or renamed | `CountsMatchRows`, `PublishedIsCurrent`, `RowsFollowContexts`, `NothingStranded`, `SupersededNeverPublished` |
| `compiler_overlooked` | the same | a disagreement, see findings |
| `client_requests` | 2 features, 1 folder, 6 workloads: 3 refreshes, 3 loads or 2 changes alone, and each two of them once | `NoRefreshLost`, `ProgressMeansLoading`, `ProgressFollowsProtocol`, `SettledConfiguration` |

Why the bounds are enough for the cases that matter:

* Two calls and one pool thread give a full pool, a queue behind it, a deferral, a reuse of
  an identifier while its first reader runs, and a shutdown over all of them.  One change
  suffices for a write that waits for readers; `MaxAcquisitions` bounds plans submitted,
  `MaxRounds` how often a workspace report meets files that it has no settings for.
* Two notifications open two documents, or open and change or close one; `MaxChanges` and
  `MaxDisk` bound the editor and the disk, never the server.  Only with a second pool
  thread can two analyses run at once, only with a second text can an edit change nothing.
* Two requests put one behind the other for the permit and let one be deferred while the
  other runs; two notifications and one removal race discovery on its way to the main loop.
  `MaxPlans` bounds how often a request finds inputs missing.
* Three changes of two files give a removal and a recreation, with one change more between
  them; a second thread identity lets a refresh start while another ends, were it possible.
  `MaxMutations` bounds programs outside the server.
* Three results fill the budget and evict one baseline or both; the longest array is
  oversized, and the others insert and delete at either end and between equal integers.
  Three lifetimes close and reopen a document, or swap two, under a request.
  `MaxResponses` and `MaxLifetimes` bound the client.
* Five revisions open a source in one project, back it in another, move both, remove one and
  attach it again.  `MaxRevision` stops the clients.
* A removal and a recreation seen by a watcher that merges are one event, which the code may
  ignore: the index then lacks both until it is five seconds old.  `ServedKnowsDelivered`
  therefore speaks of the other watcher; `Converges` holds of both.
* One change of an artifact and one rename are enough for a batch to be superseded, dropped,
  rejected or overlooked; a second source of the document gives contexts that share
  artifacts, the included artifact gives paths that only a batch knows, and the third source
  is what a file is renamed to.  `MaxWrites` and `MaxSwitches` bound the disk and the editor.
* Three refreshes mark a feature again while its answer is out, three loads stop and start
  again while a token is pending, two changes supersede a request for settings.  The three
  machines meet only in the channels, hence workloads with one of each two and none with
  many of all.

`CHECK_DEADLOCK FALSE` is in four runs, `source_layers`, `client_requests` and the two of
`CompilerArtifacts`, whose bounds end what clients and disk do and whose processes then have
nothing left to do.  All other runs check deadlock, and their stuttering actions
(`Terminated`, `Wait`) are enabled only where the process may end or has nothing to do.

### Fairness

* `Requests`, `Diagnostics`: every thread is scheduled; crossbeam's `select!` picks at random
  among ready arms and so serves each sooner or later; the worker's admission tick comes
  every 5 ms while something waits; plans end, for reads of the disk do.  Nothing is assumed
  of the editor, nor of whoever writes files.
* `InstalledIndex`: the worker polls the index every second (`lsp/worker.rs:331`), which is
  `ReadyIndex`; five seconds pass; refresh threads run; the watcher delivers what it has.
* `RequestSession`, `EditAdmission`, `SourceLayers`, `SemanticTokens`, `CompilerArtifacts` and
  `ClientRequests` state no fairness: that requests end is shown of `Requests`, and a client
  need not answer.  What `CompilerArtifacts` and `ClientRequests` owe in the end is said of
  the states at rest (`Quiet`, nothing under way) instead.

Only weak fairness is used.

### Findings

* `diagnostics_cancelled`: `decide` never cancels an analysis for another document, as its
  comment and a test say, but the edit handler writes to the database first, and a write
  cancels every snapshot.  The analysis of the other document publishes nothing and is not
  queued again.  `QuietIsUpToDate` therefore makes an exception for documents whose last
  analysis was cancelled (`lost`), and no other.
* `compiler_overlooked`: "Dirty dependencies and watcher events trigger acquisition"
  (`docs/development/architecture.md:241`).  After a rename the project has no watches until
  a batch is accepted, while the main loop still has the rows and the watcher still reports.
  A change of an included AUX file that comes between the read of that batch and its
  completion is dropped by `watched` (`lsp/compiler_acquisition.rs:187`), and the old
  contents stay until another event.  `PublishedIsCurrent` makes an exception for such paths
  (`overlooked`), and for those that vanished unseen.

## 5. Proofs

Each of these modules proves its theorems for all values of the constants, from the one
assumption that the component's module states about them.

### RequestsProofs

For any set of identifiers, any pool and any bounds, from `ConstantsAssumption`.

* `TypeCorrect`: `TypeOK` is inductive; one step per action, and lemmas for the handlers
  that several actions share (`ExecuteTypes`, `HandleTypes`).
* `LedgerInvariant`: `LedgerInv`, the conjunction of the ledger's types, `LedgerConsistent`
  and `AnsweredOnce`.  Neither of the last two is inductive alone: an answer goes to
  `original[c]`, which is the right identifier only because the tables agree, and that the
  tables agree after a shutdown needs to know which calls are open.  `LedgerSteps` first
  reduces all actions to four kinds (receive, complete, drain, nothing), so that the
  invariant is proved against four steps and not against the whole of `Next`.
  `LedgerIsConsistent` and `AnswersAreUnique` follow.
* `Refinement`: `Spec => ImplementsSession`, by the same four kinds of steps and the
  refinement mapping `SessionState`, `SessionAnswer`; the invariant gives that the mapping
  never reaches "broken".
* `DeferredAreResumed`: a job is deferred only when a plan is in flight, or submits one.
* `PendingAreSomewhere`: that no call is lost is not inductive, for a call that is in two
  places may leave one and never be missed.  `PlacesInv` therefore counts: `Places(c)` is how
  often a call occurs in the five queues and the batch, plus one while a reader has it, and
  is exactly 1 for every pending call (`Unanswered`); calls not received yet are nowhere
  (`Unused`).  Each action moves one occurrence.
* `PermitsAreConserved`: readers are spawned with a permit, return it, or stay
  (`ReaderSpawned`, `ReaderReturned`, `ReadersStay`), and the busy readers with the free
  permits are the pool.

### InstalledIndexProofs

For any files, any number of refresh threads, changes of the tree and delivered changes,
from `InstalledIndexAssumption`.  `IndexInv` joins `IndexIsOneMoment` and `CacheIsTrue`
with what makes them inductive:

* what a refresh knows where it stands (`Knows`): the fingerprint it holds is that of a
  moment of the tree, and between the walk and the recheck its listing is right *if* the
  tree is still that of the fingerprint, for each file already visited; the recheck turns the
  "if" into a fact, which later changes no longer disturb;
* that one thread at most is past its capture (`OneRefresh`), so that the moment published
  never precedes the one published before.

`MutateKeeps` treats a change of the tree at any point of a walk, `RefreshKeeps` has one
step per action of a thread.  `IndexIsConsistent`, `CacheIsConsistent` and
`IndexNeverGoesBack` follow.

`ServedIsCaughtUp` needs more, `DeliveryInv`: the events on their way are the changes since
the last delivered one, in order (`EventsInv`), and a file has not changed between its last
delivered change and the last delivered change of all (`DeliveredInv`).  This is what makes
it right to ignore a creation of a file that the index has: the index has then seen that
creation.  A refresh of the present epoch has its fingerprint from after every delivered
change (`CaughtUpInv`), because every change that is not ignored raises the epoch.

### SourceLayersProofs

For any paths, projects, texts and batches of moves, from `SourceLayersAssumption` (which
keeps texts on disk and unsaved texts apart).  All calls of the writer are one of three
kinds of write: staged layers, a rebuild, a plain write.  `StageWrites` and its two
companions show that each of them leaves every source `Written`: its layers well formed,
its instances one text, its stamps and its incarnation given out in order.  The rest of the
proof is against `Written`, and not against the calls.

* `StorageOK`: types, sources and stamps.  A layer is `WellFormed` when it has contents as
  long as a project holds it and no unsaved text is its backing; without that, a move that
  merges two sources could not be followed.
* `HeldOK`: a version that was disturbed is `Spent`: its source has another incarnation, or
  its project no longer holds it, or the stamp is newer than the version.  Each of the three
  lasts, because revisions only grow; "not accepted" alone does not last.
* `ReadsOK`: an acquisition that saw a source leave its project is of an earlier epoch.

`StorageTyped`, `LayersAgree`, `UnsavedStaysUnsaved`, `StaleVersionsAreRefused`,
`VersionsAreKept` and `RemovalsAreFinal` follow from `LayersInv`, their conjunction.

### SemanticTokensProofs

For any documents, any set of arrays of naturals and any bounds, from
`SemanticTokensAssumption`.  `EditReconstructs` is about the algorithm alone: the common
start is common (`LeadingAgrees`), the common end of what is left is common
(`TrailingAgrees`, both by the least place where the arrays differ), so the three parts of
the result are the new array, place by place.  `TokensInv` joins the two safety properties
with what tells late responses: a late request has a lifetime that its document no longer
has (`Told`), because lifetimes are never given out twice.  `TokensTyped`, `EditsFit` and
`BaselinesStayCurrent` follow; in `EditsFit`, that the baseline is what the client has under
its identifier comes from `BaselinesAreCurrent`, and that the edit fits from
`EditReconstructs`.

`RetentionStaysBounded` is of `SizeInv`: the places of all baselines are finitely many, and
the counter is their number.  What is forgotten and what stays split the places
(`SplitPlaces`), a new baseline adds as many as it has integers (`AddedPlaces`), and what
eviction keeps leaves room for it (`KeptLeaveRoom`), because forgetting everything does.

### EditAdmissionProofs

For any documents, any pool and any bounds, from `EditAdmissionAssumption`.  The stamp a
request is compared with is raised by what clients say and by what the server discovers, and
`ReadStarted` takes discoveries out of the comparison.  The proof follows the difference
`stamp - discovery`, which counts what clients said: a re-stamping never changes the
difference of a request, so a request whose stamp is the present one is `Fresh`, nobody having
said anything since it arrived (`ContextsInv`).  Then no notification is behind it in the
channel (`OrderInv`), and when it is read, all notifications have been worked off: the
overlays are the editor's texts (`TextInv`) and the file is at least what was reported
(`FileInv`), with one obligation per stage of a plan that a watched change supersedes.  What
its reader saw is therefore still current when its answer passes the two channels
(`ReadInv`).  `EditsAreOfNow` and `TypeCorrect` follow from `EditInv`, their conjunction.

`RefusalsHaveAReason` is the other direction, and rests on the order of one channel.  If
nothing was said since a request arrived, it is `Fresh` (`ToldInv`), so that only discoveries
can part its stamp from the present one.  `RefusalInv` follows such a request from its
snapshot: only requests are left on the worker's channel, its `ReadStarted` is either still
on its way, with nothing behind it but relints of newer contents than it read
(`StartAhead`), or was taken, and then the stamps agree unless such a relint came
(`StartTaken`).  That a relint sent later is newer needs that a plan which may still be
applied has read nothing older than the database has (`PastInv`).  Newer contents need not
be a later change of the disk: a request whose reader started before the file was ever read
is refused when the plan of another request reads what was there all along, and its relint
is taken first.

### DiagnosticsProofs

For any documents, texts, pool and bounds, from `DiagnosticsAssumption`.

* `TypeCorrect`, `ClosedStaysEmpty`: `TypeInv`, with the types of all channels; a closed
  document has version 0, which no result has.
* `ShowsThePresent`: `PresentInv` follows a stamp.  A job that carries the present one was
  sent after the last notification, so that after it all jobs repeat texts the database will
  have (`JobsInv`: handling the jobs up to it leads to the texts of the main loop,
  `Reaches`); its request in the queue finds the database up to date (`QueueInv`); what the
  watcher reported is in the database or still awaited (`FileInv`), so that no
  snapshot is taken before; and a result that still has the present stamp when it is
  forwarded carries the editor's texts (`SnapshotInv`, `Carries`).
* `QuietShowsAll`: a server that is at rest owes nothing (`OwedInv`: each open document is
  `lost`, has something under way, or is `Fresh`).  What must not happen is that a request or
  a result goes without another one coming.  A result of an old stamp brings new jobs; of the
  others `FlowInv` says why they are not missed: a stamp identifies a version
  (`TraceInv`), requests of a document come in the order of their stamps (`OrderInv`), what
  started is older than what comes unless it is in the slot (`StartedInv`), and the analysis
  in the slot ends once (`SlotInv`).  Hence a result of the present stamp has the present
  version and is shown, and the end of the analysis in the slot frees it after its result.

### CompilerArtifactsProofs

For any sources, artifacts and bounds, from `CompilerArtifactsAssumption`.  `TypeCorrect`
has the fact that no batch in flight has a generation not reserved yet.  `CountsFollowRows`
is inductive by itself once rows are finite; `ReplaceKeepsCounts` is the counting.
`NoSupersededBatch` needs `BatchInv`: tokens on their way are in order and at most the last
generation (`TokensInOrder`), what was reported is not newer than the disk (`ReportedIsPast`),
and a batch *of the last generation* has everything the worker heard of and did not drop
(`LastIsCurrent`); an invalidation reserves a generation, so that for older batches nothing
need be known.

`AcquisitionCompletes`, `RowsAgree` and `PublishedAgrees` speak of the system at rest, and
follow from `AtRestInv`, which says of each moment what still has to come:

* a batch in flight has its plan or its result in a channel (`PendingInv`), and only that one
  is `Awaited`; it was read for the present contexts (`PlansInv`, `BatchesInv`);
* each path of a batch that is awaited, and of what is published while nothing is pending,
  has the contents of the disk or a change of it is `Outstanding`: in an event, in a job, not
  yet scanned, or among those that the code lets go (`overlooked`, `unseen`);
* taking the reports on their way makes the row of each context what its closure asks for,
  and the rows of all other sources empty (`Settles`, `RestInv`, `RowsInv`).  The report that
  counts is the last one of a source, so that this is said of a position in the channel.

### ClientRequestsProofs

For any features, folders and workloads, from `ClientRequestsAssumption`.

* `RefreshesAreNotLost`: a refresh in flight is still to be sent, or its answer is awaited
  and with the client or on its way back (`Travelling`).  The invariant is kept feature by
  feature (`Told`), because an answer removes the one request it names.
* `ShownProgressIsLoading`, `ProgressKeepsProtocol`: `ProgressInv` says of the token in use
  in which stage the client has it (`TokenInUse`) and of all others that they are over or
  not yet begun (`ClientFollows`); the protocol then holds by one step per action.
* `SettlesOnNewest`: the request awaited is the newest one and asks for the present folders
  (`NewestIsAsked`); a change of the client's folders or settings that the main loop does
  not know is announced in a channel (`FoldersAreTold`, `SettingsAreTold`).  With nothing
  under way, all three say that the settings are those of the client.

### Model-checked only

Liveness (`EveryRequestEnds`, `WritesFinish`, `SessionEnds`, `ComesToRest`, `WaitEnds`,
`Converges`), which is out of the prover's reach: it needs fairness and `ENABLED`.  Every
invariant and every action property of a passing run is the statement of a theorem.  The
properties of the two runs that expect a violation are false of the code.

## 6. Not modelled

* Parser, formatter, linter rules and language features: pure functions of texts of any
  shape.  The repository has property tests, corpora and fuzzing for them.
* Salsa itself and its queries: external; modelled by what a write does to snapshots.
* Inverse and forward search, IPC, command line: I/O with no shared state beyond the
  components above.
* Formats of filename databases and discovery of TeX roots.
* Deferral of code actions for the installed index (`lsp/worker.rs:362`): it waits for a tick
  that looks at the current anchors, which come from what a search of TeX roots finds.
* Panics on the worker and on the acquisition thread (`lsp/worker.rs:658`,
  `lsp/file_acquisition.rs:62`): nothing catches them, so that a model would only say that
  the thread is gone; which inputs make one is a question about the parsers.
* What the rounds of a workspace diagnostic report, and the registry's associations and
  roots: they choose documents and projects, and what is said of each is a language feature.
* Two open documents that refer to each other (`lsp/worker/dispatch.rs:269`): `Diagnostics`
  has references to files on disk only.
* The browser host: one thread over the storage of `SourceLayers`.
* Editor extensions, benchmarks, scripts, distribution.
