---------------------------- MODULE Diagnostics ----------------------------
(***************************************************************************)
(* Push diagnostics, from an editor's notification to the squiggles it     *)
(* shows: the main loop stamps and forwards (event_loop.rs, requests.rs,   *)
(* synchronization.rs), the one worker writes the database, queues and     *)
(* starts analyses (worker.rs, worker/dispatch.rs, worker/acquisition.rs), *)
(* readers analyse a snapshot that any write cancels, and the acquisition  *)
(* thread reads sources from disk (file_acquisition.rs).                   *)
(*                                                                         *)
(* There is one project: documents the editor opens, whose text lives only *)
(* in the editor, and one file on disk that they include.  A text is a     *)
(* member of a small set, the contents of the file a counter.              *)
(***************************************************************************)
EXTENDS Integers, Sequences, FiniteSets, SequencesExt

CONSTANTS
  Docs,        (* documents of the editor                                  *)
  Texts,       (* contents a document may have                             *)
  PoolSize,    (* threads of the read pool, and its permits                *)
  MaxChanges,  (* bound: document notifications from the editor            *)
  MaxDisk      (* bound: contents the included file goes through           *)

NoText == 0    (* of a document that is not open, or not in the database   *)
NoFile == 0    (* of a file that was not read yet                          *)

ASSUME DiagnosticsAssumption ==
  /\ NoText \notin Texts
  /\ PoolSize \in Nat \ {0}
  /\ MaxChanges \in Nat
  /\ MaxDisk \in Nat \ {0}

VARIABLES
  docs,       (* GlobalState.documents: version (0: not open) and text     *)
  stamp,      (* GlobalState.diagnostic_stamp                              *)
  changes,    (* document notifications so far                             *)
  reported,   (* contents of the file at its last watcher notification     *)
  disk,       (* contents of the file now                                  *)
  jobs,       (* the channel from the main loop to the worker              *)
  out,        (* the channel from worker and readers to the main loop      *)
  done,       (* the channel from readers to the worker                    *)
  wpc,        (* where the worker is in its loop                           *)
  overlay,    (* the database: effective text of each document             *)
  file,       (* the database: contents of the file                        *)
  inflight,   (* Worker.inflight                                           *)
  queue,      (* Worker.pending: the latest request of each document       *)
  wanted,     (* Worker.extra_sources and pending_scans                    *)
  seeded,     (* Worker.seeded_dirs                                        *)
  generation, (* the latest file acquisition reserved                      *)
  plan,       (* the plan in flight (files_inflight), and its result       *)
  readers,    (* the analyses on the pool                                  *)
  shown,      (* what the editor shows for each document                   *)
  lost        (* history: documents whose last analysis was cancelled      *)

main == <<docs, stamp, changes, reported>>
database == <<overlay, file>>
acquisition == <<wanted, seeded, generation, plan>>
scheduler == <<inflight, queue>>
vars == <<main, disk, jobs, out, done, wpc, database, scheduler,
          acquisition, readers, shown, lost>>

Closed == [version |-> 0, text |-> NoText]
Nothing == [version |-> 0]
NoRequest == [version |-> 0, stamp |-> 0]
Idle == [phase |-> "idle"]
NoPlan == [state |-> "none"]

Open(d) == docs[d].version > 0
OpenDocs == {d \in Docs : Open(d)}

Init ==
  /\ docs = [d \in Docs |-> Closed]
  /\ stamp = 0
  /\ changes = 0
  /\ reported = NoFile
  /\ disk = 1
  /\ jobs = <<>>
  /\ out = <<>>
  /\ done = <<>>
  /\ wpc = "select"
  /\ overlay = [d \in Docs |-> NoText]
  /\ file = NoFile
  /\ inflight = Nothing
  /\ queue = [d \in Docs |-> NoRequest]
  /\ wanted = {}
  /\ seeded = FALSE
  /\ generation = 0
  /\ plan = NoPlan
  /\ readers = [s \in 1 .. PoolSize |-> Idle]
  /\ shown = [d \in Docs |-> Nothing]
  /\ lost = {}

-----------------------------------------------------------------------------
(* The main loop.  A document notification raises the stamp first, whether  *)
(* or not its handler then accepts it.                                      *)

EditJob(d, opened, document, at) ==
  [type |-> "edit", doc |-> d, opened |-> opened, text |-> document.text,
   version |-> document.version, stamp |-> at]

Accept(d, document, job) ==
  /\ changes < MaxChanges
  /\ changes' = changes + 1
  /\ stamp' = stamp + 1
  /\ docs' = [docs EXCEPT ![d] = document]
  /\ jobs' = Append(jobs, job)

(* textDocument/didOpen: an editor numbers a new attachment from one again. *)
DidOpen(d, text) ==
  LET document == [version |-> 1, text |-> text] IN
  /\ ~Open(d)
  /\ Accept(d, document, EditJob(d, TRUE, document, stamp + 1))
  /\ UNCHANGED <<reported, disk, out, done, wpc, database, scheduler,
                 acquisition, readers, shown, lost>>

(* textDocument/didChange, with a newer version of an open document.  The   *)
(* text may turn out to be the one it replaces.                             *)
DidChange(d, text) ==
  LET document == [version |-> docs[d].version + 1, text |-> text] IN
  /\ Open(d)
  /\ Accept(d, document, EditJob(d, FALSE, document, stamp + 1))
  /\ UNCHANGED <<reported, disk, out, done, wpc, database, scheduler,
                 acquisition, readers, shown, lost>>

(* A change its handler drops: of a closed document, or not newer.          *)
DidChangeIgnored ==
  /\ changes < MaxChanges
  /\ changes' = changes + 1
  /\ stamp' = stamp + 1
  /\ UNCHANGED <<docs, reported, disk, jobs, out, done, wpc, database,
                 scheduler, acquisition, readers, shown, lost>>

(* textDocument/didClose, which also clears what the editor shows.          *)
DidClose(d) ==
  /\ Open(d)
  /\ Accept(d, Closed, [type |-> "close", doc |-> d])
  /\ shown' = [shown EXCEPT ![d] = Nothing]
  /\ UNCHANGED <<reported, disk, out, done, wpc, database, scheduler,
                 acquisition, readers, lost>>

(* Some program writes the included file.                                   *)
DiskChange ==
  /\ disk < MaxDisk
  /\ disk' = disk + 1
  /\ UNCHANGED <<main, jobs, out, done, wpc, database, scheduler,
                 acquisition, readers, shown, lost>>

(* workspace/didChangeWatchedFiles for the file, which is not open.         *)
DidChangeWatchedFile ==
  /\ reported < disk
  /\ reported' = disk
  /\ stamp' = stamp + 1
  /\ jobs' = Append(jobs, [type |-> "watched"])
  /\ UNCHANGED <<docs, changes, disk, out, done, wpc, database, scheduler,
                 acquisition, readers, shown, lost>>

(* relint_all_open: every open document is analysed again as it is.         *)
RelintAllOpen(at) ==
  \E order \in SetToSeqs(OpenDocs) :
    jobs' = jobs \o [i \in DOMAIN order |-> EditJob(order[i], FALSE, docs[order[i]], at)]

(* Mutant: diagnostics are matched with their document by version alone.    *)
ForwardDiagnostics_ByVersion(m) ==
  /\ shown' = IF docs[m.doc].version = m.version
              THEN [shown EXCEPT ![m.doc] = [version |-> m.version, snapshot |-> m.snapshot]]
              ELSE shown
  /\ UNCHANGED <<stamp, jobs>>

(* Mutant: stale diagnostics are dropped without a new analysis.            *)
ForwardDiagnostics_DropsStale(m) ==
  /\ shown' = IF m.stamp = stamp /\ docs[m.doc].version = m.version
              THEN [shown EXCEPT ![m.doc] = [version |-> m.version, snapshot |-> m.snapshot]]
              ELSE shown
  /\ UNCHANGED <<stamp, jobs>>

(* Mutant: the new analyses carry the stamp that was already stale.         *)
ForwardDiagnostics_ReusesStamp(m) ==
  /\ IF m.stamp # stamp
     THEN /\ RelintAllOpen(m.stamp)
          /\ UNCHANGED shown
     ELSE /\ shown' = IF docs[m.doc].version = m.version
                      THEN [shown EXCEPT ![m.doc] = [version |-> m.version, snapshot |-> m.snapshot]]
                      ELSE shown
          /\ UNCHANGED jobs
  /\ UNCHANGED stamp

(* Mutant: the version gate does not look whether the document is open.     *)
ForwardDiagnostics_Always(m) ==
  /\ shown' = [shown EXCEPT ![m.doc] = [version |-> m.version, snapshot |-> m.snapshot]]
  /\ UNCHANGED <<stamp, jobs>>

(* forward_outbound, Outbound::Diagnostics.                                 *)
ForwardDiagnostics(m) ==
  /\ IF m.stamp # stamp
     THEN /\ RelintAllOpen(stamp)
          /\ UNCHANGED shown
     ELSE /\ shown' = IF docs[m.doc].version = m.version
                      THEN [shown EXCEPT ![m.doc] = [version |-> m.version, snapshot |-> m.snapshot]]
                      ELSE shown
          /\ UNCHANGED jobs
  /\ UNCHANGED stamp

(* forward_outbound, Outbound::RelintAll.                                   *)
ForwardRelint ==
  /\ stamp' = stamp + 1
  /\ RelintAllOpen(stamp + 1)
  /\ UNCHANGED shown

(* The main loop takes what the worker or a reader sent.                    *)
TakeOutbound ==
  /\ out # <<>>
  /\ out' = Tail(out)
  /\ \/ Head(out).type = "diagnostics" /\ ForwardDiagnostics(Head(out))
     \/ Head(out).type = "relint" /\ ForwardRelint
  /\ UNCHANGED <<docs, changes, reported, disk, done, wpc, database, scheduler,
                 acquisition, readers, lost>>

-----------------------------------------------------------------------------
(* The worker.  A write first raises the cancellation of every snapshot,    *)
(* then waits until all are released, and only then changes the database.   *)

Holders == {s \in DOMAIN readers : readers[s].phase = "running"}

WritesJob(job) ==
  \/ job.type = "edit" /\ (job.opened \/ overlay[job.doc] # job.text)
  \/ job.type = "close" /\ overlay[job.doc] # NoText

Applied == plan.token = generation
NewContents == Applied /\ "file" \in plan.sources /\ file # plan.file
WritesFiles == NewContents \/ (Applied /\ plan.observed)

(* The worker handles a job at the head of its channel, or completed files, *)
(* at once, unless that writes while there are snapshots.                   *)
Handles(type) ==
  /\ jobs # <<>>
  /\ Head(jobs).type = type
  /\ \/ wpc \in {"select", "drain"} /\ (WritesJob(Head(jobs)) => Holders = {})
     \/ wpc = "write" /\ Holders = {}

HandlesFiles ==
  /\ plan.state = "read"
  /\ \/ wpc = "select" /\ (WritesFiles => Holders = {})
     \/ wpc = "write files" /\ Holders = {}

(* A write begins: every snapshot is cancelled, then the worker waits.      *)
WorkerCancel ==
  /\ Holders # {}
  /\ \/ /\ wpc \in {"select", "drain"}
        /\ jobs # <<>>
        /\ WritesJob(Head(jobs))
        /\ wpc' = "write"
     \/ /\ wpc = "select"
        /\ plan.state = "read"
        /\ WritesFiles
        /\ wpc' = "write files"
  /\ readers' = [s \in DOMAIN readers |->
       IF s \in Holders THEN [readers[s] EXCEPT !.cancelled = TRUE] ELSE readers[s]]
  /\ UNCHANGED <<main, disk, jobs, out, done, database, scheduler, acquisition, shown, lost>>

(* acquire_files: hand the wanted sources to the acquisition thread, unless *)
(* a plan of the project is in flight.                                      *)
AcquireFiles(want, reserved, current) ==
  IF current # NoPlan \/ want = {}
  THEN /\ wanted' = want
       /\ generation' = reserved
       /\ plan' = current
  ELSE /\ wanted' = {}
       /\ generation' = reserved + 1
       /\ plan' = [state |-> "queued", token |-> reserved + 1, sources |-> want]

(* Mutant: a source is not read again while a plan is in flight.            *)
RefreshBacking_SkipsWhileLoading(source) ==
  IF plan # NoPlan THEN UNCHANGED <<wanted, generation, plan>>
  ELSE AcquireFiles(wanted \cup {source}, generation + 1, plan)

(* refresh_backing: supersede the plan in flight and read the source again. *)
RefreshBacking(source) == AcquireFiles(wanted \cup {source}, generation + 1, plan)

(* enqueue: the latest version of a document waits for the slot.            *)
Enqueue(d, version, at) ==
  queue' = IF queue[d].version >= version THEN queue
           ELSE [queue EXCEPT ![d] = [version |-> version, stamp |-> at]]

(* WorkerJob::Edit.  Text that is new to the database may ask for sources   *)
(* of its own; the first edit asks for the directory.                       *)
HandleEdit(grows) ==
  LET job == Head(jobs)
      own == IF job.opened \/ grows THEN {"document"} ELSE {}
      scan == IF seeded THEN {} ELSE {"file"}
  IN
  /\ Handles("edit")
  /\ grows => ~job.opened /\ overlay[job.doc] # job.text
  /\ overlay' = [overlay EXCEPT ![job.doc] = job.text]
  /\ seeded' = TRUE
  /\ AcquireFiles(wanted \cup own \cup scan, generation, plan)
  /\ Enqueue(job.doc, job.version, job.stamp)
  /\ jobs' = Tail(jobs)
  /\ wpc' = "drain"
  /\ UNCHANGED <<main, disk, out, done, file, inflight, readers, shown, lost>>

(* WorkerJob::Close.  Requests queued for the document stay queued.         *)
HandleClose ==
  LET job == Head(jobs) IN
  /\ Handles("close")
  /\ RefreshBacking("document")
  /\ overlay' = [overlay EXCEPT ![job.doc] = NoText]
  /\ out' = IF WritesJob(job) THEN Append(out, [type |-> "relint"]) ELSE out
  /\ jobs' = Tail(jobs)
  /\ wpc' = "drain"
  /\ UNCHANGED <<main, disk, done, file, scheduler, seeded, readers, shown, lost>>

(* WorkerJob::WatchedChange of a file that exists.                          *)
HandleWatched ==
  /\ Handles("watched")
  /\ RefreshBacking("file")
  /\ jobs' = Tail(jobs)
  /\ wpc' = "drain"
  /\ UNCHANGED <<main, disk, out, done, database, scheduler, seeded, readers, shown, lost>>

(* complete_files.  A superseded batch is read again, an applied one looks  *)
(* for what was wanted in the meantime; changed contents relint everything. *)
CompleteFiles ==
  /\ HandlesFiles
  /\ file' = IF NewContents THEN plan.file ELSE file
  /\ AcquireFiles(wanted \cup (IF Applied THEN {} ELSE plan.sources), generation, NoPlan)
  /\ out' = IF NewContents THEN Append(out, [type |-> "relint"]) ELSE out
  /\ wpc' = "dispatch"
  /\ UNCHANGED <<main, disk, jobs, done, overlay, scheduler, seeded, readers, shown, lost>>

(* start_analyze: run a request on a snapshot of its own, when files and a  *)
(* permit allow; otherwise it stays queued and the slot stays free.         *)
StartAnalyze(d) ==
  LET idle == {s \in DOMAIN readers : readers[s] = Idle}
      request == [doc |-> d, version |-> queue[d].version, stamp |-> queue[d].stamp]
  IN IF plan # NoPlan \/ idle = {}
     THEN /\ inflight' = Nothing
          /\ UNCHANGED <<queue, readers, lost>>
     ELSE /\ inflight' = request
          /\ queue' = [queue EXCEPT ![d] = NoRequest]
          /\ readers' = [readers EXCEPT ![CHOOSE s \in idle : TRUE] =
               [phase |-> "running", request |-> request, cancelled |-> FALSE,
                snapshot |-> [texts |-> overlay, file |-> file]]]
          /\ lost' = lost \ {d}

(* Mutant: a free slot goes to any document, queued or not.                 *)
TryDispatch_Unqueued(current) ==
  IF current = Nothing THEN \E d \in Docs : StartAnalyze(d)
  ELSE /\ inflight' = current
       /\ UNCHANGED <<queue, readers, lost>>

(* decide and try_dispatch, given the analysis in the slot.                 *)
TryDispatch(current) ==
  LET ready == {d \in Docs :
        /\ queue[d].version > 0
        /\ current = Nothing \/ (current.doc = d /\ queue[d].version > current.version)}
  IN IF ready = {}
     THEN /\ inflight' = current
          /\ UNCHANGED <<queue, readers, lost>>
     ELSE \E d \in ready : StartAnalyze(d)

(* The end of a batch, or of a completion.                                  *)
WorkerDispatch ==
  /\ wpc = "dispatch" \/ (wpc = "drain" /\ jobs = <<>>)
  /\ TryDispatch(inflight)
  /\ wpc' = "select"
  /\ UNCHANGED <<main, disk, jobs, out, done, database, acquisition, shown>>

(* recv(admission), when it has an effect.                                  *)
WorkerTick ==
  /\ wpc = "select"
  /\ TryDispatch(inflight)
  /\ inflight' # inflight
  /\ UNCHANGED <<main, disk, jobs, out, done, wpc, database, acquisition, shown>>

(* recv(done_rx): only the analysis in the slot frees it.                   *)
WorkerDone ==
  /\ wpc = "select"
  /\ done # <<>>
  /\ done' = Tail(done)
  /\ TryDispatch(IF inflight = Head(done) THEN Nothing ELSE inflight)
  /\ UNCHANGED <<main, disk, jobs, out, wpc, database, acquisition, shown>>

-----------------------------------------------------------------------------
(* The acquisition thread reads what a plan asks for.  Apart from contents, *)
(* it may observe something of the file system that is new to the database. *)
ReadPlan(observed) ==
  /\ plan.state = "queued"
  /\ plan' = [state |-> "read", token |-> plan.token, sources |-> plan.sources,
              file |-> disk, observed |-> observed]
  /\ UNCHANGED <<main, disk, jobs, out, done, wpc, database, scheduler,
                 wanted, seeded, generation, readers, shown, lost>>

(* What a reader does when its analysis ends, but for the diagnostics: it   *)
(* releases the snapshot, reports to the worker, and returns its permit in  *)
(* a later step.  Holding the snapshot a little longer only delays a write. *)
Finish(s) ==
  /\ done' = Append(done, readers[s].request)
  /\ readers' = [readers EXCEPT ![s] = [phase |-> "returning"]]

(* An analysis completes; it may not have noticed that it was cancelled.    *)
Publish(s) ==
  LET r == readers[s] IN
  /\ r.phase = "running"
  /\ out' = Append(out, [type |-> "diagnostics", doc |-> r.request.doc,
                         version |-> r.request.version, stamp |-> r.request.stamp,
                         snapshot |-> r.snapshot])
  /\ Finish(s)
  /\ UNCHANGED <<main, disk, jobs, wpc, database, scheduler, acquisition, shown, lost>>

(* salsa::Cancelled unwinds an analysis, which publishes nothing.           *)
Unwind(s) ==
  LET r == readers[s] IN
  /\ r.phase = "running"
  /\ r.cancelled
  /\ Finish(s)
  /\ lost' = IF inflight = r.request THEN lost \cup {r.request.doc} ELSE lost
  /\ UNCHANGED <<main, disk, jobs, out, wpc, database, scheduler, acquisition, shown>>

(* The closure of a reader returns, and with it the permit.                 *)
Return(s) ==
  /\ readers[s].phase = "returning"
  /\ readers' = [readers EXCEPT ![s] = Idle]
  /\ UNCHANGED <<main, disk, jobs, out, done, wpc, database, scheduler,
                 acquisition, shown, lost>>

(* Nothing is under way anywhere in the server.                             *)
Quiet ==
  /\ jobs = <<>> /\ out = <<>> /\ done = <<>>
  /\ wpc = "select"
  /\ plan = NoPlan
  /\ \A d \in Docs : queue[d] = NoRequest
  /\ \A s \in DOMAIN readers : readers[s] = Idle

(* A quiet server waits for the editor.                                     *)
Wait == Quiet /\ UNCHANGED vars

Editor ==
  \/ \E d \in Docs, text \in Texts : DidOpen(d, text) \/ DidChange(d, text)
  \/ DidChangeIgnored
  \/ \E d \in Docs : DidClose(d)
  \/ DiskChange
  \/ DidChangeWatchedFile

Work ==
  \/ WorkerCancel
  \/ \E grows \in BOOLEAN : HandleEdit(grows)
  \/ HandleClose
  \/ HandleWatched
  \/ CompleteFiles
  \/ WorkerDispatch
  \/ WorkerTick
  \/ WorkerDone

Read(s) == Publish(s) \/ Unwind(s) \/ Return(s)

Next ==
  \/ Editor
  \/ TakeOutbound
  \/ Work
  \/ \E observed \in BOOLEAN : ReadPlan(observed)
  \/ \E s \in 1 .. PoolSize : Read(s)
  \/ Wait

Spec == Init /\ [][Next]_vars

(* Threads are scheduled and reads of the disk end.  The editor owes        *)
(* nothing, and neither does whoever writes the file.                       *)
Fairness ==
  /\ WF_vars(TakeOutbound)
  /\ WF_vars(Work)
  /\ WF_vars(\E observed \in BOOLEAN : ReadPlan(observed))
  /\ \A s \in 1 .. PoolSize : WF_vars(Read(s))

FairSpec == Spec /\ Fairness

-----------------------------------------------------------------------------
EditJobs == [type : {"edit"}, doc : Docs, opened : BOOLEAN, text : Texts,
             version : Nat \ {0}, stamp : Nat]
Jobs == EditJobs \cup [type : {"close"}, doc : Docs] \cup [type : {"watched"}]
Snapshots == [texts : [Docs -> Texts \cup {NoText}], file : Nat]
Requests == [doc : Docs, version : Nat \ {0}, stamp : Nat]
Outbound ==
  [type : {"diagnostics"}, doc : Docs, version : Nat \ {0}, stamp : Nat, snapshot : Snapshots]
    \cup [type : {"relint"}]
Sources == {"file", "document"}
Plans ==
  {NoPlan} \cup [state : {"queued"}, token : Nat, sources : SUBSET Sources]
    \cup [state : {"read"}, token : Nat, sources : SUBSET Sources, file : Nat, observed : BOOLEAN]
Readers ==
  {Idle} \cup [phase : {"returning"}]
    \cup [phase : {"running"}, request : Requests, cancelled : BOOLEAN, snapshot : Snapshots]

(* The state of every variable.                                             *)
TypeOK ==
  /\ docs \in [Docs -> {Closed} \cup [version : Nat \ {0}, text : Texts]]
  /\ stamp \in Nat
  /\ changes \in 0 .. MaxChanges
  /\ reported \in 0 .. MaxDisk
  /\ disk \in 1 .. MaxDisk
  /\ jobs \in Seq(Jobs)
  /\ out \in Seq(Outbound)
  /\ done \in Seq(Requests)
  /\ wpc \in {"select", "drain", "write", "write files", "dispatch"}
  /\ overlay \in [Docs -> Texts \cup {NoText}]
  /\ file \in Nat
  /\ inflight \in {Nothing} \cup Requests
  /\ queue \in [Docs -> {NoRequest} \cup [version : Nat \ {0}, stamp : Nat]]
  /\ wanted \subseteq Sources
  /\ seeded \in BOOLEAN
  /\ generation \in Nat
  /\ plan \in Plans
  /\ readers \in [1 .. PoolSize -> Readers]
  /\ shown \in [Docs -> {Nothing} \cup [version : Nat \ {0}, snapshot : Snapshots]]
  /\ lost \subseteq Docs

(* What the editor shows next was computed from its own present: every      *)
(* document, open or closed, as the editor has it now, and contents of the  *)
(* file no older than the last the watcher reported.  The stamp alone       *)
(* guarantees this across the queue, the scheduler, a cancellation that     *)
(* went unnoticed, and a reopened document that reuses a version.           *)
ShownIsCurrent ==
  [][\A d \in Docs : shown'[d] # shown[d] /\ shown'[d] # Nothing =>
       /\ \A e \in Docs : shown'[d].snapshot.texts[e] = docs[e].text
       /\ shown'[d].snapshot.file >= reported]_vars

(* A late result never repaints a document the editor has closed, although  *)
(* its request may still be queued or running then.                         *)
ClosedShowsNothing == \A d \in Docs : ~Open(d) => shown[d] = Nothing

UpToDate(d) ==
  /\ shown[d].version = docs[d].version
  /\ shown[d].snapshot.texts[d] = docs[d].text
  /\ shown[d].snapshot.file >= reported

(* Once the server is quiet, a document whose last analysis was not         *)
(* cancelled shows the diagnostics of its text.  Coalescing requests,       *)
(* dropping stale results, waiting for files, for the slot and for a permit *)
(* lose nothing between them.                                               *)
QuietIsUpToDate ==
  Quiet => \A d \in Docs : Open(d) => d \in lost \/ UpToDate(d)

(* New analyses follow stale results, and discovery follows edits, but not  *)
(* for ever: the server always comes to rest.                               *)
ComesToRest == []<>Quiet

(* "A different pending URI must never cancel the in-flight one": an edit   *)
(* cancels the analysis in the slot only when it is of the same document.   *)
(* The scheduler holds to it, but the write of the edit comes first.        *)
AnotherDocumentNeverCancels ==
  [][wpc' = "write" /\ Head(jobs).type = "edit" =>
       \A r \in Holders : readers[r].request = inflight /\ readers'[r].cancelled
         => inflight.doc = Head(jobs).doc]_vars
=============================================================================
