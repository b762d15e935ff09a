--------------------------- MODULE EditAdmission ---------------------------
(***************************************************************************)
(* Requests whose answers are edits (rename, renaming of files, code       *)
(* actions, color presentations), from the stamp they get on arrival to    *)
(* the check that admits or refuses their answer (event_loop.rs,           *)
(* synchronization.rs).  In between the worker defers and queues them      *)
(* (worker.rs), takes snapshots for readers that later writes cancel       *)
(* (worker/dispatch.rs, responses.rs), and discovers contents of files     *)
(* that the editor knows nothing of (worker/acquisition.rs).               *)
(*                                                                         *)
(* The editor pulls its diagnostics, so that a relint sends no jobs.       *)
(* There is one project: documents, whose text lives in the editor, and    *)
(* one file on disk.  The contents of the file are the number of changes   *)
(* it went through; after some of them it does not exist.  Cancellation    *)
(* of requests is left to Requests, and so is the return of a permit after *)
(* the answer.                                                             *)
(***************************************************************************)
EXTENDS Integers, Sequences, FiniteSets

CONSTANTS
  Docs,         (* documents of the editor                                 *)
  PoolSize,     (* permits of the read pool                                *)
  Absent,       (* the changes of the file that remove it                  *)
  MaxRequests,  (* bound: requests                                         *)
  MaxChanges,   (* bound: notifications of the editor about documents      *)
  MaxDisk,      (* bound: changes of the file                              *)
  MaxPlans      (* bound: plans submitted for inputs that were missing     *)

ASSUME EditAdmissionAssumption ==
  /\ PoolSize \in Nat \ {0}
  /\ MaxRequests \in Nat /\ MaxChanges \in Nat /\ MaxDisk \in Nat \ {0} /\ MaxPlans \in Nat
  /\ Absent \subseteq 2 .. MaxDisk

VARIABLES
  docs,       (* GlobalState.documents: version (0: not open) and text     *)
  stamp,      (* GlobalState.diagnostic_stamp                              *)
  discovery,  (* GlobalState.discovery_stamp                               *)
  context,    (* edit_contexts                                             *)
  received,   (* requests that arrived                                     *)
  changes,    (* notifications about documents so far                      *)
  reported,   (* contents of the file at its last watcher notification     *)
  relinted,   (* history: contents behind the last relint that was taken   *)
  disk,       (* contents of the file now                                  *)
  jobs,       (* the channel from the main loop to the worker              *)
  out,        (* the channel from worker and readers to the main loop      *)
  boundary,   (* responses on their way to the editor                      *)
  wpc,        (* where the worker is in its loop                           *)
  overlay,    (* the database: effective text of each document             *)
  file,       (* the database: contents of the file, 0 if never read       *)
  wanted,     (* Worker.extra_sources holds the file                       *)
  generation, (* the latest file acquisition reserved                      *)
  plans,      (* plans submitted for missing inputs so far                 *)
  plan,       (* the plan in flight (files_inflight), and its result       *)
  deferred,   (* Worker.deferred_files                                     *)
  batch,      (* deferred jobs being resumed                               *)
  queued,     (* Worker.pending_reads                                      *)
  reader,     (* the reader of each request                                *)
  answer      (* what the editor got for each request                      *)

main == <<docs, stamp, discovery, context, received, changes, reported, relinted>>
acquisition == <<wanted, generation, plans, plan>>
waiting == <<deferred, batch, queued>>
worker == <<wpc, overlay, file, acquisition, waiting>>
vars == <<main, disk, jobs, out, boundary, worker, reader, answer>>

Requests == 1 .. MaxRequests

NoText == 0
Closed == [version |-> 0, text |-> NoText]
NoPlan == [state |-> "none"]
NoReader == [state |-> "none"]
NoContext == [stamp |-> 0, discovery |-> 0, versions |-> [d \in Docs |-> 0], told |-> 0]
NoAnswer == [kind |-> "none"]
Refused == [kind |-> "refused"]
Failed == [kind |-> "failed"]

Exists(contents) == contents # 0 /\ contents \notin Absent

Init ==
  /\ docs = [d \in Docs |-> Closed]
  /\ stamp = 0
  /\ discovery = 0
  /\ context = [r \in Requests |-> NoContext]
  /\ received = 0
  /\ changes = 0
  /\ reported = 0
  /\ relinted = 0
  /\ disk = 1
  /\ jobs = <<>>
  /\ out = <<>>
  /\ boundary = <<>>
  /\ wpc = "select"
  /\ overlay = [d \in Docs |-> NoText]
  /\ file = 0
  /\ wanted = FALSE
  /\ generation = 0
  /\ plans = 0
  /\ plan = NoPlan
  /\ deferred = <<>>
  /\ batch = <<>>
  /\ queued = <<>>
  /\ reader = [r \in Requests |-> NoReader]
  /\ answer = [r \in Requests |-> NoAnswer]

-----------------------------------------------------------------------------
(* The editor and the main loop.                                            *)

Versions == [d \in Docs |-> docs[d].version]

(* What clients told the main loop: notifications that raise the stamp.     *)
Told == changes + reported

(* A notification about documents raises the stamp before its handler.      *)
Notify(document, d, job) ==
  /\ changes < MaxChanges
  /\ changes' = changes + 1
  /\ stamp' = stamp + 1
  /\ docs' = [docs EXCEPT ![d] = document]
  /\ jobs' = Append(jobs, job)
  /\ UNCHANGED <<discovery, context, received, reported, relinted, disk, out, boundary,
                 worker, reader, answer>>

(* The text of an opened document is new; a changed one may get the text    *)
(* it had.                                                                  *)
DidOpen(d) ==
  /\ docs[d] = Closed
  /\ Notify([version |-> 1, text |-> changes + 1], d,
            [type |-> "edit", doc |-> d, opened |-> TRUE, text |-> changes + 1])

DidChange(d, text) ==
  /\ docs[d] # Closed
  /\ Notify([version |-> docs[d].version + 1, text |-> text], d,
            [type |-> "edit", doc |-> d, opened |-> FALSE, text |-> text])

DidClose(d) ==
  /\ docs[d] # Closed
  /\ Notify(Closed, d, [type |-> "close", doc |-> d])

(* Some program writes or removes the file.                                 *)
DiskChange ==
  /\ disk < MaxDisk
  /\ disk' = disk + 1
  /\ UNCHANGED <<main, jobs, out, boundary, worker, reader, answer>>

(* workspace/didChangeWatchedFiles for the file, which is not open.  It is  *)
(* sent for changes only.                                                   *)
DidChangeWatchedFile ==
  /\ reported < disk /\ disk > 1
  /\ reported' = disk
  /\ stamp' = stamp + 1
  /\ jobs' = Append(jobs, [type |-> "watched", at |-> disk])
  /\ UNCHANGED <<docs, discovery, context, received, changes, relinted, disk, out,
                 boundary, worker, reader, answer>>

(* A request that returns edits gets its context.                           *)
Receive ==
  LET r == received + 1 IN
  /\ received < MaxRequests
  /\ received' = r
  /\ context' = [context EXCEPT ![r] =
       [stamp |-> stamp, discovery |-> discovery, versions |-> Versions, told |-> Told]]
  /\ jobs' = Append(jobs, [type |-> "request", id |-> r])
  /\ UNCHANGED <<docs, stamp, discovery, changes, reported, relinted, disk, out, boundary,
                 worker, reader, answer>>

(* Mutant: the versions of the documents decide alone.                      *)
ReadStarted_ByVersions(r) ==
  context' = IF context[r].versions = Versions
             THEN [context EXCEPT ![r].stamp = stamp, ![r].discovery = discovery]
             ELSE context

(* Mutant: the stamp of the arrival is the one that counts.                 *)
ReadStarted_Ignored(r) == UNCHANGED context

(* Outbound::ReadStarted: discovery that ended before the read is absorbed  *)
(* if nothing else raised the stamp (only_discovery_advanced).              *)
ReadStarted(r) ==
  LET c == context[r]
      absorbs == /\ stamp - c.stamp = discovery - c.discovery
                 /\ c.versions = Versions
  IN context' = IF absorbs
                THEN [context EXCEPT ![r].stamp = stamp, ![r].discovery = discovery]
                ELSE context

(* The main loop takes what the worker or a reader sent; a response goes    *)
(* through one more channel.                                                *)
TakeOutbound ==
  LET m == Head(out) IN
  /\ out # <<>>
  /\ out' = Tail(out)
  /\ \/ /\ m.type = "started"
        /\ ReadStarted(m.id)
        /\ UNCHANGED <<stamp, discovery, relinted, boundary>>
     \/ /\ m.type = "relint"
        /\ stamp' = stamp + 1
        /\ discovery' = discovery + 1
        /\ relinted' = m.file
        /\ UNCHANGED <<context, boundary>>
     \/ /\ m.type = "response"
        /\ boundary' = Append(boundary, m)
        /\ UNCHANGED <<stamp, discovery, context, relinted>>
  /\ UNCHANGED <<docs, received, changes, reported, disk, jobs, worker, reader, answer>>

(* Edits are admitted if the stamp is still theirs, with the versions of    *)
(* the documents as they were when the request arrived.                     *)
TakeResponse ==
  LET m == Head(boundary)
      c == context[m.id]
  IN
  /\ boundary # <<>>
  /\ boundary' = Tail(boundary)
  /\ answer' = [answer EXCEPT ![m.id] =
       IF ~m.ok THEN Failed
       ELSE IF c.stamp # stamp THEN Refused
       ELSE [kind |-> "edits", versions |-> c.versions, snapshot |-> m.snapshot]]
  /\ UNCHANGED <<main, disk, jobs, out, worker, reader>>

-----------------------------------------------------------------------------
(* The worker.                                                              *)

Holders == {r \in Requests : reader[r].state = "running"}
Available == Cardinality(Holders) < PoolSize
InFlight == plan # NoPlan

WritesJob(job) ==
  \/ job.type = "edit" /\ (job.opened \/ overlay[job.doc] # job.text)
  \/ job.type = "close" /\ overlay[job.doc] # NoText
  \/ job.type = "watched" /\ job.at \in Absent /\ Exists(file)

Applied == plan.token = generation
NewContents == Applied /\ file # plan.file /\ (Exists(file) \/ Exists(plan.file))

(* The worker handles a job at the head of its channel, or completed files, *)
(* at once, unless that writes while there are snapshots.                   *)
Handles(type) ==
  /\ jobs # <<>>
  /\ Head(jobs).type = type
  /\ \/ wpc \in {"select", "drain"} /\ (WritesJob(Head(jobs)) => Holders = {})
     \/ wpc = "write" /\ Holders = {}

HandlesFiles ==
  /\ plan.state = "read"
  /\ \/ wpc = "select" /\ (NewContents => Holders = {})
     \/ wpc = "write files" /\ Holders = {}

(* A write begins: every snapshot is cancelled, then the worker waits.      *)
WorkerCancel ==
  /\ Holders # {}
  /\ \/ /\ wpc \in {"select", "drain"}
        /\ jobs # <<>>
        /\ WritesJob(Head(jobs))
        /\ wpc' = "write"
     \/ /\ wpc = "select"
        /\ plan.state = "read"
        /\ NewContents
        /\ wpc' = "write files"
  /\ reader' = [r \in Requests |->
       IF r \in Holders THEN [reader[r] EXCEPT !.cancelled = TRUE] ELSE reader[r]]
  /\ UNCHANGED <<main, disk, jobs, out, boundary, overlay, file, acquisition, waiting, answer>>

(* acquire_files: hand what is wanted to the acquisition thread, unless a   *)
(* plan of the project is in flight.                                        *)
AcquireFiles(want, reserved, current) ==
  IF current # NoPlan \/ ~want
  THEN /\ wanted' = want
       /\ generation' = reserved
       /\ plan' = current
  ELSE /\ wanted' = FALSE
       /\ generation' = reserved + 1
       /\ plan' = [state |-> "queued", token |-> reserved + 1]

(* refresh_backing: supersede the plan in flight and read the file again.   *)
RefreshBacking == AcquireFiles(TRUE, generation + 1, plan)

Relint(contents) == Append(out, [type |-> "relint", file |-> contents])

(* WorkerJob::Edit.  Text that is new to the database may need the file.    *)
HandleEdit(needs) ==
  LET job == Head(jobs) IN
  /\ Handles("edit")
  /\ needs => job.opened \/ overlay[job.doc] # job.text
  /\ overlay' = [overlay EXCEPT ![job.doc] = job.text]
  /\ AcquireFiles(wanted \/ needs, generation, plan)
  /\ jobs' = Tail(jobs)
  /\ wpc' = "drain"
  /\ UNCHANGED <<main, disk, out, boundary, file, plans, waiting, reader, answer>>

(* WorkerJob::Close                                                         *)
HandleClose ==
  LET job == Head(jobs) IN
  /\ Handles("close")
  /\ RefreshBacking
  /\ overlay' = [overlay EXCEPT ![job.doc] = NoText]
  /\ out' = IF WritesJob(job) THEN Relint(file) ELSE out
  /\ jobs' = Tail(jobs)
  /\ wpc' = "drain"
  /\ UNCHANGED <<main, disk, boundary, file, plans, waiting, reader, answer>>

(* WorkerJob::WatchedChange.  A removal is believed at once.                *)
HandleWatched ==
  LET job == Head(jobs) IN
  /\ Handles("watched")
  /\ RefreshBacking
  /\ IF job.at \in Absent
     THEN file' = job.at /\ out' = Relint(job.at)
     ELSE UNCHANGED <<file, out>>
  /\ jobs' = Tail(jobs)
  /\ wpc' = "drain"
  /\ UNCHANGED <<main, disk, boundary, overlay, plans, waiting, reader, answer>>

(* complete_files.  A superseded batch is read again; changed contents are  *)
(* announced before the jobs that waited for them are resumed.              *)
CompleteFiles ==
  /\ HandlesFiles
  /\ file' = IF Applied THEN plan.file ELSE file
  /\ AcquireFiles(wanted \/ ~Applied, generation, NoPlan)
  /\ out' = IF NewContents THEN Relint(plan.file) ELSE out
  /\ batch' = deferred
  /\ deferred' = <<>>
  /\ wpc' = "resume"
  /\ UNCHANGED <<main, disk, jobs, boundary, overlay, plans, queued, reader, answer>>

(* The read of a request starts: ReadStarted, and a snapshot.               *)
Start(r) ==
  /\ out' = Append(out, [type |-> "started", id |-> r])
  /\ reader' = [reader EXCEPT ![r] = [state |-> "running", cancelled |-> FALSE,
                  snapshot |-> [texts |-> overlay, file |-> file]]]

(* execute_job_guarded, with a permit: wait for inputs, or start.           *)
ExecuteRequest(r) ==
  IF InFlight
  THEN /\ deferred' = Append(deferred, r)
       /\ UNCHANGED <<out, reader>>
  ELSE /\ Start(r)
       /\ UNCHANGED deferred

(* handle_job_guarded: a request may find inputs missing and submit a plan; *)
(* it waits for plans first, then behind other reads for a permit.          *)
HandleRequest(r) ==
  \/ /\ ~InFlight /\ plans < MaxPlans
     /\ plans' = plans + 1
     /\ AcquireFiles(TRUE, generation, plan)
     /\ deferred' = Append(deferred, r)
     /\ UNCHANGED <<out, queued, reader>>
  \/ /\ InFlight
     /\ deferred' = Append(deferred, r)
     /\ UNCHANGED <<acquisition, out, queued, reader>>
  \/ /\ ~InFlight
     /\ queued # <<>> \/ ~Available
     /\ queued' = Append(queued, r)
     /\ UNCHANGED <<acquisition, out, deferred, reader>>
  \/ /\ ~InFlight /\ queued = <<>> /\ Available
     /\ ExecuteRequest(r)
     /\ UNCHANGED <<acquisition, queued>>

WorkerRequest ==
  /\ Handles("request")
  /\ HandleRequest(Head(jobs).id)
  /\ jobs' = Tail(jobs)
  /\ wpc' = "drain"
  /\ UNCHANGED <<main, disk, boundary, overlay, file, batch, answer>>

(* resume_deferred, one job at a time.                                      *)
WorkerResume ==
  /\ wpc = "resume"
  /\ batch # <<>>
  /\ HandleRequest(Head(batch))
  /\ batch' = Tail(batch)
  /\ UNCHANGED <<main, disk, jobs, boundary, wpc, overlay, file, answer>>

(* dispatch_reads, one read at a time.                                      *)
WorkerDispatchRead ==
  /\ wpc = "dispatch"
  /\ queued # <<>> /\ Available
  /\ ExecuteRequest(Head(queued))
  /\ queued' = Tail(queued)
  /\ UNCHANGED <<main, disk, jobs, boundary, wpc, overlay, file, acquisition, batch, answer>>

(* From a drained channel, resumed jobs or a tick to the dispatch, and back *)
(* when no read or no permit is left.                                       *)
WorkerTurns ==
  /\ \/ /\ \/ wpc = "drain" /\ jobs = <<>>
           \/ wpc = "resume" /\ batch = <<>>
           \/ wpc = "select" /\ queued # <<>> /\ Available
        /\ wpc' = "dispatch"
     \/ /\ wpc = "dispatch"
        /\ queued = <<>> \/ ~Available
        /\ wpc' = "select"
  /\ UNCHANGED <<main, disk, jobs, out, boundary, overlay, file, acquisition, waiting,
                 reader, answer>>

(* The acquisition thread reads the file at a time of its own.              *)
ReadPlan ==
  /\ plan.state = "queued"
  /\ plan' = [state |-> "read", token |-> plan.token, file |-> disk]
  /\ UNCHANGED <<main, disk, jobs, out, boundary, wpc, overlay, file, wanted, generation,
                 plans, waiting, reader, answer>>

Respond(r, response) ==
  /\ reader[r].state = "running"
  /\ out' = Append(out, response)
  /\ reader' = [reader EXCEPT ![r] = NoReader]
  /\ UNCHANGED <<main, disk, jobs, boundary, worker, answer>>

(* A reader computes its edits; it may not have noticed that it was         *)
(* cancelled.                                                               *)
Compute(r) ==
  Respond(r, [type |-> "response", id |-> r, ok |-> TRUE, snapshot |-> reader[r].snapshot])

(* salsa::Cancelled becomes an error.                                       *)
Unwind(r) ==
  /\ reader[r] # NoReader /\ reader[r].cancelled
  /\ Respond(r, [type |-> "response", id |-> r, ok |-> FALSE])

(* Nothing is under way, nothing waits: the server waits for the editor.    *)
Wait ==
  /\ jobs = <<>> /\ out = <<>> /\ boundary = <<>>
  /\ wpc = "select" /\ ~InFlight
  /\ deferred = <<>> /\ queued = <<>>
  /\ Holders = {}
  /\ UNCHANGED vars

Editor ==
  \/ \E d \in Docs : DidOpen(d) \/ DidClose(d)
  \/ \E d \in Docs : \E text \in {docs[d].text, changes + 1} : DidChange(d, text)
  \/ DiskChange
  \/ DidChangeWatchedFile
  \/ Receive

Work ==
  \/ WorkerCancel
  \/ \E needs \in BOOLEAN : HandleEdit(needs)
  \/ HandleClose
  \/ HandleWatched
  \/ CompleteFiles
  \/ WorkerRequest
  \/ WorkerResume
  \/ WorkerDispatchRead
  \/ WorkerTurns

Next ==
  \/ Editor
  \/ TakeOutbound
  \/ TakeResponse
  \/ Work
  \/ ReadPlan
  \/ \E r \in Requests : Compute(r) \/ Unwind(r)
  \/ Wait

Spec == Init /\ [][Next]_vars

-----------------------------------------------------------------------------
Snapshots == [texts : [Docs -> Nat], file : Nat]
Jobs ==
  [type : {"edit"}, doc : Docs, opened : BOOLEAN, text : Nat]
    \cup [type : {"close"}, doc : Docs] \cup [type : {"watched"}, at : Nat]
    \cup [type : {"request"}, id : Requests]
Responses ==
  [type : {"response"}, id : Requests, ok : {TRUE}, snapshot : Snapshots]
    \cup [type : {"response"}, id : Requests, ok : {FALSE}]

(* The state of every variable.                                             *)
TypeOK ==
  /\ docs \in [Docs -> [version : Nat, text : Nat]]
  /\ stamp \in Nat /\ discovery \in Nat
  /\ context \in [Requests -> [stamp : Nat, discovery : Nat, versions : [Docs -> Nat], told : Nat]]
  /\ received \in 0 .. MaxRequests
  /\ changes \in Nat /\ reported \in Nat /\ relinted \in Nat /\ disk \in Nat
  /\ jobs \in Seq(Jobs)
  /\ out \in Seq([type : {"started"}, id : Requests] \cup [type : {"relint"}, file : Nat] \cup Responses)
  /\ boundary \in Seq(Responses)
  /\ wpc \in {"select", "drain", "resume", "dispatch", "write", "write files"}
  /\ overlay \in [Docs -> Nat]
  /\ file \in Nat
  /\ wanted \in BOOLEAN
  /\ generation \in Nat /\ plans \in Nat
  /\ plan \in {NoPlan} \cup [state : {"queued"}, token : Nat]
                \cup [state : {"read"}, token : Nat, file : Nat]
  /\ deferred \in Seq(Requests) /\ batch \in Seq(Requests) /\ queued \in Seq(Requests)
  /\ reader \in [Requests -> {NoReader} \cup
       [state : {"running"}, cancelled : BOOLEAN, snapshot : Snapshots]]
  /\ answer \in [Requests -> {NoAnswer, Refused, Failed} \cup
       [kind : {"edits"}, versions : [Docs -> Nat], snapshot : Snapshots]]

Answered(r) == answer[r] = NoAnswer /\ answer'[r] # NoAnswer

(* Edits that are admitted were computed from what the editor has: the text *)
(* of every document, under the version attached to it, and contents of the *)
(* file no older than the last the watcher reported.  Discovery that was    *)
(* absorbed never hides a change that came with it.                         *)
EditsAreCurrent ==
  [][\A r \in Requests : Answered(r) /\ answer'[r].kind = "edits" =>
       /\ answer'[r].versions = Versions
       /\ \A d \in Docs : answer'[r].snapshot.texts[d] = docs[d].text
       /\ answer'[r].snapshot.file >= reported]_vars

(* "Worker discovery notifications precede ReadStarted on the same FIFO     *)
(* channel": edits are refused only if the editor or the watcher said       *)
(* something since the request arrived, or discovery found newer contents   *)
(* than their reader had seen, for another request perhaps and unchanged on *)
(* disk since long; what the server itself discovered in order to serve a   *)
(* request never refuses it.                                                *)
NoSpuriousRefusal ==
  [][\A r \in Requests : Answered(r) /\ answer'[r] = Refused =>
       \/ Told # context[r].told
       \/ relinted > Head(boundary).snapshot.file]_vars
=============================================================================
