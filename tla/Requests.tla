------------------------------ MODULE Requests ------------------------------
(***************************************************************************)
(* The life of a request in the language server: the request ledger        *)
(* (request_ids.rs, lifecycle.rs), the arms of the main loop that receive, *)
(* cancel, answer and shut down (event_loop.rs), the single worker thread  *)
(* that owns the database (worker.rs), and the pool of readers             *)
(* (task_pool.rs, responses.rs).                                           *)
(*                                                                         *)
(* Each thread steps at the points where it can see or be seen: a channel  *)
(* operation, the ledger lock, a permit, the release of a snapshot.  What  *)
(* a response says is abstracted: a result, an error and a cancellation    *)
(* are all one answer.                                                     *)
(***************************************************************************)
EXTENDS Integers, Sequences, FiniteSets

CONSTANTS
  Wire,             (* identifiers an editor puts on a request             *)
  NoWire,           (* no identifier                                       *)
  Kinds,            (* how the offered requests are served, see AllKinds   *)
  PoolSize,         (* threads of the read pool, and its permits           *)
  MaxCalls,         (* bound: requests accepted before the shutdown        *)
  MaxChanges,       (* bound: edits and root changes sent by the editor    *)
  MaxAcquisitions,  (* bound: plans handed to the acquisition thread       *)
  MaxRounds         (* bound: reports that meet files they have no settings for *)

(***************************************************************************)
(* "immediate": answered by the main loop's handler (invalid parameters,   *)
(* unknown method).  "read": needs a snapshot and a permit.  "inspect":    *)
(* answered on the worker, never queued.  "workspace": a workspace         *)
(* diagnostic, which first asks the main loop for settings.                *)
(***************************************************************************)
AllKinds == {"immediate", "read", "inspect", "workspace"}

ASSUME ConstantsAssumption ==
  /\ NoWire \notin Wire
  /\ Kinds \subseteq AllKinds
  /\ PoolSize \in Nat \ {0}
  /\ MaxCalls \in Nat
  /\ MaxChanges \in Nat
  /\ MaxAcquisitions \in Nat
  /\ MaxRounds \in Nat

Calls == 1 .. MaxCalls + 1       (* the last one is left for the shutdown *)
Analyze == 0                     (* the pool entry of the diagnostics job *)
PoolIds == Calls \cup {Analyze}

VARIABLES
  lifecycle,    (* Lifecycle                                               *)
  next,         (* RequestIds.next                                         *)
  pending,      (* Requests.pending                                        *)
  cancellation, (* calls RequestIds.cancellation still holds a flag for    *)
  raised,       (* calls whose flag readers see raised                     *)
  original,     (* RequestIds.original, NoWire where it has no entry       *)
  current,      (* RequestIds.current, 0 where it has no entry             *)
  jobs,         (* the channel from the main loop to the worker            *)
  respq,        (* responses on their way to the ledger boundary           *)
  outq,         (* the channel from worker and readers to the main loop    *)
  wpc,          (* where the worker is in its loop                         *)
  then,         (* where it goes after a write or a guarded job            *)
  batch,        (* deferred jobs being resumed                             *)
  pendingReads, (* Worker.pending_reads                                    *)
  deferred,     (* Worker.deferred_files                                   *)
  live,         (* acquisitions some project is waiting for                *)
  dead,         (* acquisitions whose project gave up its claim            *)
  analyze,      (* Worker.pending holds an analysis to start               *)
  permits,      (* free permits of the read pool                           *)
  pool,         (* state of the reader serving a call                      *)
  changes,      (* edits and root changes so far                           *)
  acquisitions, (* plans submitted so far                                  *)
  rounds,       (* settings asked for a second time so far                 *)
  owner,        (* history: the wire identifier a call arrived with        *)
  answers       (* history: where the answers to a call were sent          *)

ledger == <<next, pending, cancellation, raised, original, current, owner, answers>>
worker == <<batch, pendingReads, deferred, live, dead, analyze, acquisitions, rounds>>
reader == <<permits, pool>>
vars == <<lifecycle, ledger, jobs, respq, outq, wpc, then, worker, reader, changes>>

Job(t, c) == [type |-> t, call |-> c]
RequestTypes == {"read", "inspect", "workspace", "report"}
RequestJobs == [type : RequestTypes, call : Calls]
Jobs == RequestJobs \cup [type : {"edit", "roots"}, call : {0}]
Outbound == [type : {"response", "settings"}, call : Calls]

Running == lifecycle = "Running"

Init ==
  /\ lifecycle = "Running"
  /\ next = 0
  /\ pending = {}
  /\ cancellation = {}
  /\ raised = {}
  /\ original = [c \in Calls |-> NoWire]
  /\ current = [w \in Wire |-> 0]
  /\ jobs = <<>>
  /\ respq = <<>>
  /\ outq = <<>>
  /\ wpc = "select"
  /\ then = "select"
  /\ batch = <<>>
  /\ pendingReads = <<>>
  /\ deferred = <<>>
  /\ live = 0
  /\ dead = 0
  /\ analyze = FALSE
  /\ permits = PoolSize
  /\ pool = [c \in PoolIds |-> "none"]
  /\ changes = 0
  /\ acquisitions = 0
  /\ rounds = 0
  /\ owner = [c \in Calls |-> NoWire]
  /\ answers = [c \in Calls |-> <<>>]

-----------------------------------------------------------------------------
(* The ledger.  Every operation runs under its lock.                        *)

(* RequestIds::receive, for a wire identifier that is not in use.  A        *)
(* duplicate of one in use is discarded without any effect.                 *)
LedgerReceive(w) ==
  LET c == next + 1 IN
  /\ current[w] = 0
  /\ next' = c
  /\ pending' = pending \cup {c}
  /\ cancellation' = cancellation \cup {c}
  /\ original' = [original EXCEPT ![c] = w]
  /\ current' = [current EXCEPT ![w] = c]
  /\ owner' = [owner EXCEPT ![c] = w]
  /\ UNCHANGED <<raised, answers>>

(* Mutant: the wire identifier stays reserved after the call is over.       *)
LedgerComplete_KeepsCurrent(c) ==
  /\ c \in pending
  /\ pending' = pending \ {c}
  /\ cancellation' = cancellation \ {c}
  /\ raised' = raised \cup {c}
  /\ original' = [original EXCEPT ![c] = NoWire]
  /\ answers' = [answers EXCEPT ![c] = Append(@, original[c])]
  /\ UNCHANGED <<next, owner, current>>

(* Mutant: a completed call keeps its entry, so a shutdown answers it again. *)
LedgerComplete_KeepsOriginal(c) ==
  /\ c \in pending
  /\ pending' = pending \ {c}
  /\ cancellation' = cancellation \ {c}
  /\ raised' = raised \cup {c}
  /\ current' = [current EXCEPT ![original[c]] = 0]
  /\ answers' = [answers EXCEPT ![c] = Append(@, original[c])]
  /\ UNCHANGED <<next, owner, original>>

(* RequestIds::complete, and the answer its caller sends to the identifier  *)
(* complete returned.                                                       *)
LedgerComplete(c) ==
  /\ c \in pending
  /\ pending' = pending \ {c}
  /\ cancellation' = cancellation \ {c}
  /\ raised' = IF c \in cancellation THEN raised \cup {c} ELSE raised
  /\ original' = [original EXCEPT ![c] = NoWire]
  /\ current' = [current EXCEPT ![original[c]] = 0]
  /\ answers' = [answers EXCEPT ![c] = Append(@, original[c])]
  /\ UNCHANGED <<next, owner>>

(* Mutant: the ledger is drained but only the shutdown itself is answered.  *)
LedgerDrain_AnswersShutdownOnly(c, w) ==
  /\ current[w] = 0
  /\ next' = c
  /\ pending' = {}
  /\ cancellation' = {}
  /\ raised' = raised \cup cancellation \cup {c}
  /\ original' = [d \in Calls |-> NoWire]
  /\ current' = [v \in Wire |-> 0]
  /\ owner' = [owner EXCEPT ![c] = w]
  /\ answers' = [answers EXCEPT ![c] = Append(@, w)]

(* The shutdown request c: receive, complete, then RequestIds::drain; the   *)
(* drained identifiers and the shutdown's own are all answered.             *)
LedgerDrain(c, w) ==
  /\ current[w] = 0
  /\ next' = c
  /\ pending' = {}
  /\ cancellation' = {}
  /\ raised' = raised \cup cancellation \cup {c}
  /\ original' = [d \in Calls |-> NoWire]
  /\ current' = [v \in Wire |-> 0]
  /\ owner' = [owner EXCEPT ![c] = w]
  /\ LET to(d) == IF d = c THEN w ELSE original[d] IN
     answers' = [d \in Calls |->
       IF to(d) = NoWire THEN answers[d] ELSE Append(answers[d], to(d))]

-----------------------------------------------------------------------------
(* The main loop.  A request that arrives when the session is not running   *)
(* is refused at once and never enters the ledger.                          *)

Receive(w, kind) ==
  /\ Running
  /\ next < MaxCalls
  /\ LedgerReceive(w)
  /\ IF kind = "immediate"
     THEN respq' = Append(respq, next') /\ UNCHANGED jobs
     ELSE jobs' = Append(jobs, Job(kind, next')) /\ UNCHANGED respq
  /\ UNCHANGED <<lifecycle, outq, wpc, then, worker, reader, changes>>

Shutdown(w) ==
  /\ Running
  /\ lifecycle' = "ShuttingDown"
  /\ LedgerDrain(next + 1, w)
  /\ UNCHANGED <<jobs, respq, outq, wpc, then, worker, reader, changes>>

(* The exit notification, or the editor closing the connection: the loop    *)
(* ends, its end of the job channel is dropped and the worker is joined.    *)
Exit ==
  /\ lifecycle # "Exited"
  /\ lifecycle' = "Exited"
  /\ UNCHANGED <<ledger, jobs, respq, outq, wpc, then, worker, reader, changes>>

Cancel(w) ==
  /\ lifecycle # "Exited"
  /\ current[w] # 0
  /\ LedgerComplete(current[w])
  /\ UNCHANGED <<lifecycle, jobs, respq, outq, wpc, then, worker, reader, changes>>

(* A response reaches the boundary; one for a completed call is discarded.  *)
TakeResponse ==
  /\ lifecycle # "Exited"
  /\ respq # <<>>
  /\ respq' = Tail(respq)
  /\ IF Running /\ Head(respq) \in pending
     THEN LedgerComplete(Head(respq))
     ELSE UNCHANGED ledger
  /\ UNCHANGED <<lifecycle, jobs, outq, wpc, then, worker, reader, changes>>

(* forward_outbound: a response goes to the boundary, a request for         *)
(* settings returns to the worker as the second half of the diagnostic.     *)
TakeOutbound ==
  /\ lifecycle # "Exited"
  /\ outq # <<>>
  /\ outq' = Tail(outq)
  /\ \/ ~Running /\ UNCHANGED <<jobs, respq>>
     \/ /\ Running /\ Head(outq).type = "response"
        /\ respq' = Append(respq, Head(outq).call)
        /\ UNCHANGED jobs
     \/ /\ Running /\ Head(outq).type = "settings"
        /\ jobs' = Append(jobs, Job("report", Head(outq).call))
        /\ UNCHANGED respq
  /\ UNCHANGED <<lifecycle, ledger, wpc, then, worker, reader, changes>>

(* A document edit, or a change of the workspace folders.                   *)
Change(t) ==
  /\ Running
  /\ changes < MaxChanges
  /\ changes' = changes + 1
  /\ jobs' = Append(jobs, Job(t, 0))
  /\ UNCHANGED <<lifecycle, ledger, respq, outq, wpc, then, worker, reader>>

-----------------------------------------------------------------------------
(* The worker.                                                              *)

Goes(back) == wpc' = back /\ UNCHANGED then

(* A database write starts: the worker waits until no reader holds a        *)
(* snapshot and goes on from there.                                         *)
Writes(back) == wpc' = "writing" /\ then' = back

Gone(j) == j.call \notin pending

(* waits_for_project_inputs                                                 *)
Waits(j) == live > 0 /\ j.type # "inspect"

(* Mutant: the job that needs the plan is not put among the deferred ones.  *)
Acquire_Forgets(j, back) ==
  /\ j.type \in {"read", "report"}
  /\ acquisitions < MaxAcquisitions
  /\ acquisitions' = acquisitions + 1
  /\ live' = live + 1
  /\ Writes(back)
  /\ UNCHANGED <<deferred, outq, reader, rounds>>

(* acquire_files or acquire_compiler finds inputs missing and submits a     *)
(* plan; the job that needs them joins the deferred ones.                   *)
Acquire(j, back) ==
  /\ j.type \in {"read", "report"}
  /\ acquisitions < MaxAcquisitions
  /\ acquisitions' = acquisitions + 1
  /\ live' = live + 1
  /\ deferred' = Append(deferred, j)
  /\ Writes(back)
  /\ UNCHANGED <<outq, reader, rounds>>

Send(type, c) ==
  /\ outq' = Append(outq, [type |-> type, call |-> c])
  /\ UNCHANGED reader

(* Spawner::reserve blocks until there is a permit.                         *)
Spawn(c) ==
  /\ permits > 0
  /\ permits' = permits - 1
  /\ pool' = [pool EXCEPT ![c] = "queued"]
  /\ UNCHANGED outq

(* handle_job, for a job that carries a request.  A panic while the job is  *)
(* prepared is caught and answered, and a permit it held is free again.     *)
Serve(j) ==
  \/ j.type = "inspect" /\ Send("response", j.call) /\ UNCHANGED rounds
  \/ j.type \in {"read", "report"} /\ Spawn(j.call) /\ UNCHANGED rounds
  \/ j.type \in {"read", "report"} /\ Send("response", j.call) /\ UNCHANGED rounds
  \/ j.type = "workspace" /\ Send("settings", j.call) /\ UNCHANGED rounds
  \/ /\ j.type = "report"
     /\ rounds < MaxRounds
     /\ rounds' = rounds + 1
     /\ Send("settings", j.call)

(* execute_job_guarded                                                      *)
Execute(j, back) ==
  \/ /\ Gone(j)
     /\ Goes(back)
     /\ UNCHANGED <<outq, reader, deferred, live, acquisitions, rounds>>
  \/ /\ ~Gone(j)
     /\ Waits(j)
     /\ deferred' = Append(deferred, j)
     /\ Goes(back)
     /\ UNCHANGED <<outq, reader, live, acquisitions, rounds>>
  \/ ~Gone(j) /\ ~Waits(j) /\ Acquire(j, back)
  \/ /\ ~Gone(j)
     /\ ~Waits(j)
     /\ Serve(j)
     /\ Goes(back)
     /\ UNCHANGED <<deferred, live, acquisitions>>

(* handle_job_guarded queues a read behind the others when there is no      *)
(* permit, unless preparing it already submitted a plan.                    *)
Queues(j) == ~Gone(j) /\ ~Waits(j) /\ j.type # "inspect" /\ (pendingReads # <<>> \/ permits = 0)

HandleRequest(j, back) ==
  \/ Queues(j) /\ Acquire(j, back) /\ UNCHANGED pendingReads
  \/ /\ Queues(j)
     /\ pendingReads' = Append(pendingReads, j)
     /\ Goes(back)
     /\ UNCHANGED <<outq, reader, deferred, live, acquisitions, rounds>>
  \/ ~Queues(j) /\ Execute(j, back) /\ UNCHANGED pendingReads

(* Edit: the write, perhaps a plan for inputs the text newly needs, and an  *)
(* analysis to run.                                                         *)
HandleEdit(back) ==
  /\ Writes(back)
  /\ analyze' = TRUE
  /\ \/ UNCHANGED <<live, acquisitions>>
     \/ /\ acquisitions < MaxAcquisitions
        /\ acquisitions' = acquisitions + 1
        /\ live' = live + 1
  /\ UNCHANGED <<dead, deferred, pendingReads, outq, reader, rounds>>

(* Mutant: the plans of removed projects are discarded with their claims.   *)
HandleRoots_DropsPlans(back) ==
  /\ Writes(back)
  /\ \E n \in 0 .. live : live' = live - n
  /\ UNCHANGED <<dead, analyze, deferred, pendingReads, acquisitions, outq, reader, rounds>>

(* WorkspaceRoots: removed projects give up their claims, the plans they    *)
(* submitted still complete.                                                *)
HandleRoots(back) ==
  /\ Writes(back)
  /\ \E n \in 0 .. live : live' = live - n /\ dead' = dead + n
  /\ UNCHANGED <<analyze, deferred, pendingReads, acquisitions, outq, reader, rounds>>

Handle(j, back) ==
  \/ j.type \in RequestTypes /\ HandleRequest(j, back) /\ UNCHANGED <<analyze, dead>>
  \/ j.type = "edit" /\ HandleEdit(back)
  \/ j.type = "roots" /\ HandleRoots(back)

(* The job arm of run, and its try_recv loop.                               *)
WorkerTake ==
  /\ wpc \in {"select", "drain"}
  /\ jobs # <<>>
  /\ jobs' = Tail(jobs)
  /\ Handle(Head(jobs), "drain")
  /\ UNCHANGED <<lifecycle, ledger, respq, batch, changes>>

WorkerDrained ==
  /\ wpc = "drain"
  /\ jobs = <<>>
  /\ wpc' = "dispatch"
  /\ UNCHANGED <<lifecycle, ledger, jobs, respq, outq, then, worker, reader, changes>>

(* dispatch_reads, one read at a time.                                      *)
WorkerDispatchRead ==
  /\ wpc = "dispatch"
  /\ pendingReads # <<>>
  /\ permits > 0
  /\ pendingReads' = Tail(pendingReads)
  /\ Execute(Head(pendingReads), "dispatch")
  /\ UNCHANGED <<lifecycle, ledger, jobs, respq, batch, dead, analyze, changes>>

CanAnalyze == analyze /\ pool[Analyze] = "none" /\ live = 0 /\ permits > 0

(* try_dispatch, once no read is left or no permit is.                      *)
WorkerTryDispatch ==
  /\ wpc = "dispatch"
  /\ pendingReads = <<>> \/ permits = 0
  /\ wpc' = "select"
  /\ IF CanAnalyze
     THEN Spawn(Analyze) /\ analyze' = FALSE
     ELSE UNCHANGED <<outq, reader, analyze>>
  /\ UNCHANGED <<lifecycle, ledger, jobs, respq, then, batch, pendingReads, deferred,
                 live, dead, acquisitions, rounds, changes>>

(* Mutant: the tick starts analyses only; queued reads wait for a job.      *)
WorkerTick_NoReads ==
  /\ wpc = "select"
  /\ CanAnalyze
  /\ wpc' = "dispatch"
  /\ UNCHANGED <<lifecycle, ledger, jobs, respq, outq, then, worker, reader, changes>>

(* The admission tick and the done arm, when there is something to do.      *)
WorkerTick ==
  /\ wpc = "select"
  /\ CanAnalyze \/ (pendingReads # <<>> /\ permits > 0)
  /\ wpc' = "dispatch"
  /\ UNCHANGED <<lifecycle, ledger, jobs, respq, outq, then, worker, reader, changes>>

(* complete_files, or the compiler arm: an acquisition ends, its inputs are *)
(* written, perhaps what they reveal is acquired next, and every deferred   *)
(* job is handled again.                                                    *)
WorkerComplete ==
  /\ wpc = "select"
  /\ \/ live > 0 /\ live' = live - 1 /\ UNCHANGED <<dead, acquisitions>>
     \/ dead > 0 /\ dead' = dead - 1 /\ UNCHANGED <<live, acquisitions>>
     \/ /\ live > 0
        /\ acquisitions < MaxAcquisitions
        /\ acquisitions' = acquisitions + 1
        /\ UNCHANGED <<live, dead>>
  /\ batch' = deferred
  /\ deferred' = <<>>
  /\ Writes("resume")
  /\ UNCHANGED <<lifecycle, ledger, jobs, respq, outq, pendingReads, analyze, rounds, reader, changes>>

(* resume_deferred                                                          *)
WorkerResume ==
  /\ wpc = "resume"
  /\ batch # <<>>
  /\ batch' = Tail(batch)
  /\ Handle(Head(batch), "resume")
  /\ UNCHANGED <<lifecycle, ledger, jobs, respq, changes>>

WorkerResumed ==
  /\ wpc = "resume"
  /\ batch = <<>>
  /\ wpc' = "dispatch"
  /\ UNCHANGED <<lifecycle, ledger, jobs, respq, outq, then, worker, reader, changes>>

Snapshots == {c \in PoolIds : pool[c] \in {"queued", "running"}}

WorkerFinishWrite ==
  /\ wpc = "writing"
  /\ Snapshots = {}
  /\ wpc' = then
  /\ UNCHANGED <<lifecycle, ledger, jobs, respq, outq, then, worker, reader, changes>>

(* Mutant: the job channel is dropped by the shutdown request only.         *)
WorkerStop_AfterShutdownOnly ==
  /\ wpc = "select"
  /\ lifecycle = "ShuttingDown"
  /\ jobs = <<>>
  /\ wpc' = "stopped"
  /\ UNCHANGED <<lifecycle, ledger, jobs, respq, outq, then, worker, reader, changes>>

(* The main loop dropped its end of the job channel and nothing is left.    *)
WorkerStop ==
  /\ wpc = "select"
  /\ lifecycle = "Exited"
  /\ jobs = <<>>
  /\ wpc' = "stopped"
  /\ UNCHANGED <<lifecycle, ledger, jobs, respq, outq, then, worker, reader, changes>>

-----------------------------------------------------------------------------
(* A reader looks the call up before it computes anything.                  *)
ReaderStart(c) ==
  /\ pool[c] = "queued"
  /\ pool' = [pool EXCEPT ![c] = IF c = Analyze \/ c \in pending THEN "running" ELSE "done"]
  /\ UNCHANGED <<lifecycle, ledger, jobs, respq, outq, wpc, then, worker, permits, changes>>

(* Mutant: the reader hands its result to a worker that must be listening.  *)
ReaderFinish_Rendezvous(c) ==
  /\ pool[c] = "running"
  /\ wpc = "select"
  /\ pool' = [pool EXCEPT ![c] = "done"]
  /\ outq' = IF c = Analyze THEN outq ELSE Append(outq, [type |-> "response", call |-> c])
  /\ UNCHANGED <<lifecycle, ledger, jobs, respq, wpc, then, worker, permits, changes>>

(* One response, whatever happened to the computation; then the snapshot    *)
(* is dropped.                                                              *)
ReaderFinish(c) ==
  /\ pool[c] = "running"
  /\ pool' = [pool EXCEPT ![c] = "done"]
  /\ outq' = IF c = Analyze THEN outq ELSE Append(outq, [type |-> "response", call |-> c])
  /\ UNCHANGED <<lifecycle, ledger, jobs, respq, wpc, then, worker, permits, changes>>

(* Mutant: a reader whose call was cancelled before it started keeps its    *)
(* permit.                                                                  *)
ReaderReturn_LeaksCancelled(c) ==
  /\ pool[c] = "done"
  /\ pool' = [pool EXCEPT ![c] = "none"]
  /\ permits' = IF c \in raised THEN permits ELSE permits + 1
  /\ UNCHANGED <<lifecycle, ledger, jobs, respq, outq, wpc, then, worker, changes>>

(* ReadPermit::drop                                                         *)
ReaderReturn(c) ==
  /\ pool[c] = "done"
  /\ pool' = [pool EXCEPT ![c] = "none"]
  /\ permits' = permits + 1
  /\ UNCHANGED <<lifecycle, ledger, jobs, respq, outq, wpc, then, worker, changes>>

(* The process may end: the worker was joined and the pool is empty.        *)
Terminated ==
  /\ wpc = "stopped"
  /\ \A c \in PoolIds : pool[c] = "none"
  /\ UNCHANGED vars

Main ==
  \/ \E w \in Wire, kind \in Kinds : Receive(w, kind)
  \/ \E w \in Wire : Cancel(w) \/ Shutdown(w)
  \/ \E t \in {"edit", "roots"} : Change(t)
  \/ Exit
  \/ TakeResponse
  \/ TakeOutbound

Work ==
  \/ WorkerTake
  \/ WorkerDrained
  \/ WorkerDispatchRead
  \/ WorkerTryDispatch
  \/ WorkerTick
  \/ WorkerComplete
  \/ WorkerResume
  \/ WorkerResumed
  \/ WorkerFinishWrite
  \/ WorkerStop

Read(c) == ReaderStart(c) \/ ReaderFinish(c) \/ ReaderReturn(c)

Next == Main \/ Work \/ (\E c \in PoolIds : Read(c)) \/ Terminated

Spec == Init /\ [][Next]_vars

(* crossbeam's select! serves every ready arm sooner or later, each thread  *)
(* is scheduled, and the acquisition thread finishes every plan.  Nothing   *)
(* is assumed of the editor.                                                *)
Fairness ==
  /\ WF_vars(TakeResponse)
  /\ WF_vars(TakeOutbound)
  /\ WF_vars(WorkerTake \/ WorkerDrained \/ WorkerDispatchRead \/ WorkerTryDispatch
             \/ WorkerResume \/ WorkerResumed \/ WorkerFinishWrite)
  /\ WF_vars(WorkerTick)
  /\ WF_vars(WorkerComplete)
  /\ WF_vars(WorkerStop)
  /\ \A c \in PoolIds : WF_vars(Read(c))

FairSpec == Spec /\ Fairness

-----------------------------------------------------------------------------
LedgerTypeOK ==
  /\ lifecycle \in {"Running", "ShuttingDown", "Exited"}
  /\ next \in 0 .. MaxCalls + 1
  /\ pending \subseteq Calls
  /\ cancellation \subseteq Calls
  /\ raised \subseteq Calls
  /\ original \in [Calls -> Wire \cup {NoWire}]
  /\ current \in [Wire -> Calls \cup {0}]
  /\ owner \in [Calls -> Wire \cup {NoWire}]
  /\ answers \in [Calls -> Seq(Wire)]

(* What handling a job may change.                                          *)
HandlerTypeOK ==
  /\ outq \in Seq(Outbound)
  /\ wpc \in {"select", "drain", "resume", "dispatch", "writing", "stopped"}
  /\ then \in {"select", "drain", "resume", "dispatch"}
  /\ pendingReads \in Seq(RequestJobs)
  /\ deferred \in Seq(RequestJobs)
  /\ live \in Nat
  /\ dead \in Nat
  /\ analyze \in BOOLEAN
  /\ permits \in Nat
  /\ pool \in [PoolIds -> {"none", "queued", "running", "done"}]
  /\ acquisitions \in Nat
  /\ rounds \in Nat

(* The state of every variable.                                             *)
TypeOK ==
  /\ LedgerTypeOK
  /\ HandlerTypeOK
  /\ jobs \in Seq(Jobs)
  /\ batch \in Seq(RequestJobs)
  /\ respq \in Seq(Calls)
  /\ changes \in Nat

(* The four tables of the ledger never disagree: a call is pending exactly  *)
(* when it has a cancellation flag, a wire identifier, and is the one call  *)
(* its wire identifier resolves to; every reader of a call that is over     *)
(* sees its flag raised (request_ids.rs keeps them by hand in four          *)
(* operations, and a wire identifier is reused as soon as it is free).      *)
(* Nothing is pending between the shutdown and the exit.                    *)
LedgerConsistent ==
  /\ Running => next <= MaxCalls
  /\ lifecycle = "ShuttingDown" => pending = {}
  /\ pending \subseteq 1 .. next
  /\ cancellation = pending
  /\ \A c \in pending : original[c] = owner[c]
  /\ raised = (1 .. next) \ pending
  /\ \A c \in Calls : c \in pending <=> original[c] # NoWire
  /\ \A c \in Calls, w \in Wire : current[w] = c <=> c \in pending /\ original[c] = w

(* Every accepted call is pending and unanswered, or was answered exactly   *)
(* once, at the identifier it arrived with: a late result, a cancellation   *)
(* and a shutdown never answer the same call twice, nor a later call that   *)
(* reuses its identifier.                                                   *)
AnsweredOnce ==
  \A c \in Calls : answers[c] = IF c \in pending \/ c > next THEN <<>> ELSE <<owner[c]>>

Occurrences(queue, c) == {i \in DOMAIN queue : queue[i].call = c}

(* While the session runs, a pending call is in exactly one place: a        *)
(* channel, one of the worker's three queues, a reader, or a response that  *)
(* has not been forwarded.  A handler that dropped its job, or queued it    *)
(* twice, would break this.                                                 *)
NothingLost ==
  Running => \A c \in pending :
    1 = Cardinality(Occurrences(jobs, c)) + Cardinality(Occurrences(outq, c))
        + Cardinality(Occurrences(batch, c)) + Cardinality(Occurrences(pendingReads, c))
        + Cardinality(Occurrences(deferred, c))
        + Cardinality({i \in DOMAIN respq : respq[i] = c})
        + (IF pool[c] \in {"queued", "running"} THEN 1 ELSE 0)

(* A permit is free or is held by one reader, so that reserving one while   *)
(* the pool is at its limit waits for a reader and never invents a slot.    *)
PermitsAccounted ==
  permits + Cardinality({c \in PoolIds : pool[c] # "none"}) = PoolSize

(* A deferred job always has a completion ahead of it that resumes it, also *)
(* when the project it waited for was removed in the meantime.              *)
NoStrandedDeferral == deferred # <<>> => live + dead > 0

(* The state of a call, and where its answer went, as the editor sees them. *)
SessionState == [c \in Calls |->
  IF c > next THEN "unused"
  ELSE IF answers[c] = <<>> THEN "open"
  ELSE IF Len(answers[c]) = 1 THEN "answered" ELSE "broken"]

SessionAnswer == [c \in Calls |-> IF answers[c] = <<>> THEN NoWire ELSE answers[c][1]]

Session == INSTANCE RequestSession WITH
  running <- Running, state <- SessionState, wire <- owner, answer <- SessionAnswer

(* The ledger, its queues and its threads implement the abstract session:   *)
(* a wire identifier names one open call at a time, an answer goes to the   *)
(* call it was computed for, and a shutdown answers all that is open.       *)
ImplementsSession == Session!Spec

(* No request is forgotten: whatever edits, acquisitions, full pools and    *)
(* second rounds of settings it meets, it is answered, unless the editor    *)
(* leaves first.                                                            *)
EveryRequestEnds ==
  \A c \in Calls : c \in pending ~> (c \notin pending \/ lifecycle = "Exited")

(* Readers never hold up a write for ever: the worker never waits for a     *)
(* reader that waits for the worker.                                        *)
WritesFinish == wpc = "writing" ~> wpc # "writing"

(* An exit ends the worker and empties the pool, whatever was in flight.    *)
SessionEnds ==
  lifecycle = "Exited" ~> (wpc = "stopped" /\ \A c \in PoolIds : pool[c] = "none")
=============================================================================
