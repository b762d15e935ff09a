-------------------------- MODULE CompilerArtifacts --------------------------
(***************************************************************************)
(* Compiler artifacts (AUX, LOG and FLS files) of one project.  The worker *)
(* keeps a context for every source it was asked about and has its acqui-  *)
(* sition thread read the artifacts of all of them, one batch at a time.   *)
(* A batch is published if no later invalidation supersedes it, and the    *)
(* paths it read become a row of watches, per source, in the main loop.    *)
(* The polling watcher scans the paths of all rows and reports what        *)
(* changed, which invalidates the batch in flight or asks for a new one.   *)
(* Renaming files makes the worker forget every context.                   *)
(*                                                                         *)
(* A path has one candidate; contents are numbered, and a path holds a     *)
(* file when the number is odd.  One plan's files are read in one step,    *)
(* and a file batch (modelled in SourceLayers) is read and applied in one. *)
(* The client takes pushed diagnostics, so that relinting sends edits.     *)
(***************************************************************************)
EXTENDS Integers, Sequences, FiniteSets, SequencesExt, Functions

CONSTANTS
  Sources,      (* paths of TeX sources                                    *)
  Artifacts,    (* paths of compiler artifacts                             *)
  Candidates,   (* the artifacts that a source names                       *)
  Inputs,       (* the artifacts that an artifact with contents includes   *)
  Document,     (* the document a source belongs to                        *)
  Stored,       (* the sources on disk at first                            *)
  Openings,     (* sets of documents that may be open at first             *)
  Written,      (* the artifacts on disk at first                          *)
  MaxWrites,    (* bound: changes of artifacts                             *)
  MaxSwitches   (* bound: documents opened, closed and renamed             *)

ASSUME CompilerArtifactsAssumption ==
  /\ Candidates \in [Sources -> SUBSET Artifacts]
  /\ Inputs \in [Artifacts -> SUBSET Artifacts]
  /\ DOMAIN Document = Sources
  /\ IsFiniteSet(Sources) /\ IsFiniteSet(Artifacts)
  /\ Stored \subseteq Sources /\ Openings \subseteq SUBSET Sources /\ Written \subseteq Artifacts
  /\ MaxWrites \in Nat /\ MaxSwitches \in Nat

VARIABLES
  artifacts,    (* disk: the contents of every artifact                    *)
  onDisk,       (* disk: the sources there are                             *)
  writes,       (* how often artifacts changed                             *)
  switches,     (* how often documents were opened, closed or renamed      *)
  documents,    (* main loop: GlobalState.documents                        *)
  rows,         (* main loop: artifact_watches                             *)
  counts,       (* main loop: artifact_watch_counts                        *)
  jobs,         (* channel from the main loop to the worker                *)
  out,          (* channel from the worker to the main loop                *)
  overlays,     (* worker: sources with an editor's text                   *)
  backing,      (* worker: sources with a text from disk                   *)
  refreshing,   (* worker: a file batch is in flight                       *)
  project,      (* worker: CompilerAcquisition.projects of the project     *)
  generation,      (* worker: the batch with the last generation, 0 for none  *)
  published,    (* worker: contents the database publishes, by path        *)
  plans,        (* channel to the acquisition thread                       *)
  batches,      (* channel back: compiler_rx                               *)
  scope,        (* watcher: artifact paths to scan                         *)
  previous,     (* watcher: what the last scan found                       *)
  events,       (* channel from the watcher to the main loop               *)
  overlooked,   (* history: changes the worker dropped, and not read since *)
  unseen,       (* history: files that vanished before a scan saw them     *)
  reported,     (* history: contents when the worker last heard of a path  *)
  forgotten     (* history: sources a rename made the worker forget        *)

disk == <<artifacts, onDisk, writes, switches>>
mainState == <<documents, rows, counts>>
files == <<overlays, backing, refreshing>>
acquisition == <<project, generation, published, plans>>
watcher == <<scope, previous>>
history == <<overlooked, unseen, reported, forgotten>>
vars == <<disk, mainState, jobs, out, files, acquisition, batches, watcher, events, history>>

Nothing == [x \in {} |-> {}]
HoldsFile(content) == content % 2 = 1
NoProject == [known |-> FALSE, contexts |-> Nothing, watches |-> {}, dirty |-> FALSE,
              inflight |-> 0, retired |-> {}]

Edit(s) == [kind |-> "Edit", source |-> s]

(* relint_all_open sends every open document to the worker again.           *)
Relint(open) == SetToSeq({Edit(s) : s \in open})

(* The client has opened its first documents.                              *)
Init ==
  /\ artifacts = [p \in Artifacts |-> IF p \in Written THEN 1 ELSE 0]
  /\ onDisk = Stored
  /\ writes = 0 /\ switches = 0
  /\ documents \in Openings /\ rows = Nothing /\ counts = Nothing
  /\ jobs = Relint(documents) /\ out = <<>>
  /\ overlays = {} /\ backing = {} /\ refreshing = FALSE
  /\ project = NoProject /\ generation = 0 /\ published = Nothing
  /\ plans = <<>> /\ batches = <<>>
  /\ scope = {} /\ previous = Nothing /\ events = <<>>
  /\ overlooked = {} /\ unseen = {} /\ forgotten = {}
  /\ reported = [p \in Artifacts |-> 0]

-----------------------------------------------------------------------------
(* A run of the compiler writes an artifact, or removes one.                *)
Write(p) ==
  /\ writes < MaxWrites
  /\ writes' = writes + 1
  /\ artifacts' = [artifacts EXCEPT ![p] = @ + (IF HoldsFile(@) THEN 2 ELSE 1)]
  /\ unseen' = unseen \ {p}
  /\ UNCHANGED <<onDisk, switches, mainState, jobs, out, files, acquisition, batches,
                 watcher, events, overlooked, reported, forgotten>>

Delete(p) ==
  /\ writes < MaxWrites
  /\ HoldsFile(artifacts[p])
  /\ writes' = writes + 1
  /\ artifacts' = [artifacts EXCEPT ![p] = @ + 1]
  /\ unseen' = IF p \in DOMAIN previous THEN unseen ELSE unseen \cup {p}
  /\ UNCHANGED <<onDisk, switches, mainState, jobs, out, files, acquisition, batches,
                 watcher, events, overlooked, reported, forgotten>>

-----------------------------------------------------------------------------
(* The main loop.                                                           *)

DidOpen(s) ==
  /\ switches < MaxSwitches
  /\ s \notin documents
  /\ switches' = switches + 1
  /\ documents' = documents \cup {s}
  /\ jobs' = Append(jobs, Edit(s))
  /\ UNCHANGED <<artifacts, onDisk, writes, rows, counts, out, files, acquisition, batches,
                 watcher, events, history>>

DidClose(s) ==
  /\ switches < MaxSwitches
  /\ s \in documents
  /\ switches' = switches + 1
  /\ documents' = documents \ {s}
  /\ jobs' = Append(jobs, [kind |-> "Close", source |-> s])
  /\ UNCHANGED <<artifacts, onDisk, writes, rows, counts, out, files, acquisition, batches,
                 watcher, events, history>>

(* Mutant: the counts of the row that is replaced are kept.                 *)
ReplaceArtifactWatches_KeepsCounts(s, paths) ==
  /\ rows' = [t \in (DOMAIN rows \ {s}) \cup (IF paths = {} THEN {} ELSE {s}) |->
                IF t = s THEN paths ELSE rows[t]]
  /\ counts' = [p \in DOMAIN counts \cup paths |->
                  (IF p \in DOMAIN counts THEN counts[p] ELSE 0) + (IF p \in paths THEN 1 ELSE 0)]

(* replace_artifact_watches: the old row's references go, the new row's     *)
(* come; a path without references leaves the map.                          *)
ReplaceArtifactWatches(s, paths) ==
  LET old == IF s \in DOMAIN rows THEN rows[s] ELSE {}
      after == [p \in DOMAIN counts \cup paths |->
                  (IF p \in DOMAIN counts THEN counts[p] ELSE 0)
                    - (IF p \in old THEN 1 ELSE 0) + (IF p \in paths THEN 1 ELSE 0)]
  IN
  /\ rows' = [t \in (DOMAIN rows \ {s}) \cup (IF paths = {} THEN {} ELSE {s}) |->
                IF t = s THEN paths ELSE rows[t]]
  /\ counts' = [p \in {q \in DOMAIN after : after[q] > 0} |-> after[p]]

(* A file is renamed, on disk and then by a notification; its document      *)
(* moves along.                                                             *)
DidRenameFiles(s, t) ==
  LET moved == IF s \in documents THEN (documents \ {s}) \cup {t} ELSE documents IN
  /\ switches < MaxSwitches
  /\ s \in onDisk /\ t \notin onDisk \cup documents
  /\ switches' = switches + 1
  /\ onDisk' = (onDisk \ {s}) \cup {t}
  /\ documents' = moved
  /\ ReplaceArtifactWatches(s, {})
  /\ jobs' = Append(jobs, [kind |-> "Rename", source |-> s, to |-> t]) \o Relint(moved)
  /\ UNCHANGED <<artifacts, writes, out, files, acquisition, batches, watcher, events, history>>

TakeWatchArtifacts ==
  /\ out # <<>> /\ Head(out).kind = "Watch"
  /\ out' = Tail(out)
  /\ ReplaceArtifactWatches(Head(out).source, Head(out).paths)
  /\ UNCHANGED <<disk, documents, jobs, files, acquisition, batches, watcher, events, history>>

TakeRelintAll ==
  /\ out # <<>> /\ Head(out).kind = "Relint"
  /\ out' = Tail(out)
  /\ jobs' = jobs \o Relint(documents)
  /\ UNCHANGED <<disk, mainState, files, acquisition, batches, watcher, events, history>>

(* on_watched_files_change: the events of one scan become jobs.             *)
TakeEvents ==
  /\ events # <<>>
  /\ events' = Tail(events)
  /\ jobs' = jobs \o SetToSeq({[kind |-> "Watched", path |-> p] : p \in Head(events)})
  /\ UNCHANGED <<disk, mainState, out, files, acquisition, batches, watcher, history>>

-----------------------------------------------------------------------------
(* The watcher: it adopts the paths the main loop sent last, and scans.     *)

Watching == UNION Range(rows)

AdoptScope ==
  /\ scope # Watching
  /\ scope' = Watching
  /\ previous' = Restrict(previous, DOMAIN previous \cap Watching)
  /\ unseen' = unseen \cup {p \in DOMAIN previous \ Watching : ~HoldsFile(artifacts[p])}
  /\ UNCHANGED <<disk, mainState, jobs, out, files, acquisition, batches, events,
                 overlooked, reported, forgotten>>

(* Mutant: a file that the last scan did not know is not reported.          *)
Changes_OnlyKnown(next) ==
  {p \in DOMAIN previous : p \notin DOMAIN next \/ next[p] # previous[p]}

(* changes: created, changed and deleted files.                             *)
Changes(next) ==
  {p \in DOMAIN previous \cup DOMAIN next :
     \/ p \notin DOMAIN previous
     \/ p \notin DOMAIN next
     \/ next[p] # previous[p]}

Found == [p \in {q \in scope : HoldsFile(artifacts[q])} |-> artifacts[p]]

Scan ==
  /\ previous # Found
  /\ previous' = Found
  /\ events' = Append(events, Changes(Found))
  /\ UNCHANGED <<disk, mainState, jobs, out, files, acquisition, batches, scope, history>>

-----------------------------------------------------------------------------
(* The worker's CompilerAcquisition.                                        *)

Available == overlays \cup backing

(* compiler_members: the artifacts of the source's namespace.               *)
Members(s, available) ==
  UNION {Candidates[u] : u \in {s} \cup {v \in available : Document[v] = Document[s]}}

(* submit: at most one batch is in flight.                                  *)
Submit(p, reserved) ==
  IF p.inflight = 0 /\ p.dirty
  THEN /\ generation' = reserved + 1
       /\ project' = [p EXCEPT !.inflight = reserved + 1, !.dirty = FALSE]
       /\ plans' = Append(plans, [token |-> reserved + 1, contexts |-> p.contexts,
                                  retired |-> p.retired])
  ELSE /\ generation' = reserved
       /\ project' = p
       /\ UNCHANGED plans

(* invalidate: the generation it reserves also rejects the batch in flight. *)
InvalidateAndSubmit(p, invalid) ==
  IF invalid THEN Submit([p EXCEPT !.dirty = TRUE], generation + 1) ELSE Submit(p, generation)

(* prepare, for a source the database has.                                  *)
Prepare(s, available) ==
  LET members == Members(s, available)
      known == s \in DOMAIN project.contexts
      p == [project EXCEPT !.known = TRUE, !.retired = @ \ {s},
              !.contexts = [t \in DOMAIN @ \cup {s} |-> IF t = s THEN members ELSE @[t]]]
  IN InvalidateAndSubmit(p, ~known \/ project.contexts[s] # members)

WorkEdit ==
  LET s == Head(jobs).source IN
  /\ jobs # <<>> /\ Head(jobs).kind = "Edit"
  /\ jobs' = Tail(jobs)
  /\ overlays' = overlays \cup {s}
  /\ refreshing' = (refreshing \/ s \notin overlays)
  /\ Prepare(s, Available \cup {s})
  /\ forgotten' = forgotten \ {s}
  /\ UNCHANGED <<disk, mainState, out, backing, published, batches, watcher, events,
                 overlooked, unseen, reported>>

WorkClose ==
  LET s == Head(jobs).source IN
  /\ jobs # <<>> /\ Head(jobs).kind = "Close"
  /\ jobs' = Tail(jobs)
  /\ overlays' = overlays \ {s}
  /\ refreshing' = TRUE
  /\ out' = IF s \in overlays THEN Append(out, [kind |-> "Relint"]) ELSE out
  /\ UNCHANGED <<disk, mainState, backing, acquisition, batches, watcher, events, history>>

Moved(set, s, t) == IF s \in set THEN (set \ {s}) \cup {t} ELSE set

(* didRenameFiles: clear forgets the project, whatever its contexts have.   *)
WorkRename ==
  LET s == Head(jobs).source
      t == Head(jobs).to
  IN
  /\ jobs # <<>> /\ Head(jobs).kind = "Rename"
  /\ jobs' = Tail(jobs)
  /\ overlays' = Moved(overlays, s, t)
  /\ backing' = Moved(backing, s, t)
  /\ project' = NoProject
  /\ generation' = generation + (IF project.known THEN 1 ELSE 0)
  /\ forgotten' = forgotten \cup DOMAIN project.contexts \cup project.retired
  /\ UNCHANGED <<disk, mainState, out, refreshing, published, plans, batches, watcher, events,
                 overlooked, unseen, reported>>

Concerns(p, path) == path \in p.watches \cup UNION Range(p.contexts)

(* watched: a path that no batch and no context has named is dropped.       *)
WorkWatched ==
  LET path == Head(jobs).path
      concerned == project.known /\ Concerns(project, path)
  IN
  /\ jobs # <<>> /\ Head(jobs).kind = "Watched"
  /\ jobs' = Tail(jobs)
  /\ reported' = [reported EXCEPT ![path] = artifacts[path]]
  /\ IF concerned
     THEN InvalidateAndSubmit(project, TRUE) /\ UNCHANGED overlooked
     ELSE overlooked' = overlooked \cup {path} /\ UNCHANGED <<project, generation, plans>>
  /\ UNCHANGED <<disk, mainState, out, files, published, batches, watcher, events,
                 unseen, forgotten>>

(* Mutant: a retired source is not remembered for its release.              *)
Retire_Forgets(p, available) ==
  [p EXCEPT !.contexts = Restrict(@, DOMAIN @ \cap available)]

(* retire_contexts: the contexts of sources the database lost are retired.  *)
Retire(p, available) ==
  LET gone == DOMAIN p.contexts \ available IN
  [p EXCEPT !.contexts = Restrict(@, DOMAIN @ \ gone), !.retired = @ \cup gone]

(* complete_files: a batch of sources arrives.  Unless it left the tracked  *)
(* files as they were, the members of all contexts are computed again.      *)
CompleteFiles ==
  LET available == overlays \cup onDisk
      retired == Retire(project, available)
      changed == available # Available
      recomputed ==
        IF changed
        THEN [retired EXCEPT !.contexts = [s \in DOMAIN @ |-> Members(s, available)]]
        ELSE retired
  IN
  /\ refreshing
  /\ refreshing' = FALSE
  /\ backing' = onDisk
  /\ IF project.known /\ (changed \/ retired # project)
     THEN InvalidateAndSubmit(recomputed, recomputed.contexts # project.contexts)
     ELSE UNCHANGED <<project, generation, plans>>
  /\ out' = IF changed THEN Append(out, [kind |-> "Relint"]) ELSE out
  /\ UNCHANGED <<disk, mainState, jobs, overlays, published, batches, watcher, events, history>>

-----------------------------------------------------------------------------
(* The acquisition thread reads the artifacts of a plan.                    *)

(* The artifacts reachable from the given paths: in every set that has the  *)
(* paths and, of each artifact with contents, the ones it includes.         *)
Closure(paths, contents) ==
  LET closed(S) == \A p \in S \cap DOMAIN contents : HoldsFile(contents[p]) => Inputs[p] \subseteq S
  IN {q \in Artifacts : \A S \in SUBSET Artifacts : paths \subseteq S /\ closed(S) => q \in S}

(* Plan::read: contents of everything reachable, and a set of watches for   *)
(* each source; a retired source has none.                                  *)
ReadPlan ==
  LET plan == Head(plans)
      read == Closure(UNION Range(plan.contexts), artifacts)
      sets == [s \in DOMAIN plan.contexts \cup plan.retired |->
                 IF s \in DOMAIN plan.contexts THEN Closure(plan.contexts[s], artifacts) ELSE {}]
  IN
  /\ plans # <<>>
  /\ plans' = Tail(plans)
  /\ batches' = Append(batches, [token |-> plan.token, contents |-> Restrict(artifacts, read),
                                 watches |-> sets])
  /\ overlooked' = overlooked \ read
  /\ unseen' = unseen \ read
  /\ UNCHANGED <<disk, mainState, jobs, out, files, project, generation, published, watcher,
                 events, reported, forgotten>>

(* Mutant: a batch that an invalidation superseded is published.            *)
Accepts_Any(token) == TRUE

(* replace_compiler_inputs takes the batch of the last generation only.     *)
Accepts(token) == token = generation

(* Mutant: after a rejected batch nothing is submitted.                     *)
Resubmit_Never(p) == project' = p /\ UNCHANGED <<generation, plans>>

(* complete submits again, for what changed while the batch was read.       *)
Resubmit(p) == Submit(p, generation)

(* complete: a batch other than the one in flight is dropped.  The sources  *)
(* of an accepted batch get their watches.                                  *)
Complete ==
  LET batch == Head(batches)
      landed == [project EXCEPT !.inflight = 0]
      changed == \/ \E p \in DOMAIN batch.contents :
                      IF p \in DOMAIN published THEN published[p] # batch.contents[p]
                      ELSE HoldsFile(batch.contents[p])
                 \/ \E p \in DOMAIN published \ DOMAIN batch.contents : HoldsFile(published[p])
      released == {s \in DOMAIN batch.watches : batch.watches[s] = {}}
      rowsOf == SetToSeq({[kind |-> "Watch", source |-> s, paths |-> batch.watches[s]] :
                            s \in DOMAIN batch.watches})
  IN
  /\ batches # <<>>
  /\ batches' = Tail(batches)
  /\ IF ~project.known \/ project.inflight # batch.token
     THEN UNCHANGED <<out, project, generation, plans, published>>
     ELSE IF Accepts(batch.token)
     THEN /\ published' = batch.contents
          /\ out' = out \o rowsOf \o (IF changed THEN <<[kind |-> "Relint"]>> ELSE <<>>)
          /\ Resubmit([landed EXCEPT !.watches = UNION Range(batch.watches),
                                     !.retired = @ \ released])
     ELSE /\ Resubmit([landed EXCEPT !.dirty = TRUE])
          /\ UNCHANGED <<out, published>>
  /\ UNCHANGED <<disk, mainState, jobs, files, watcher, events, history>>

-----------------------------------------------------------------------------
Environment ==
  \/ \E p \in Artifacts : Write(p) \/ Delete(p)
  \/ \E s \in Sources : DidOpen(s) \/ DidClose(s)
  \/ \E s, t \in Sources : DidRenameFiles(s, t)

Main == TakeWatchArtifacts \/ TakeRelintAll \/ TakeEvents
Watcher == AdoptScope \/ Scan
Worker == WorkEdit \/ WorkClose \/ WorkRename \/ WorkWatched \/ CompleteFiles \/ Complete

Next == Environment \/ Main \/ Watcher \/ Worker \/ ReadPlan

Spec == Init /\ [][Next]_vars

-----------------------------------------------------------------------------
(* Properties.                                                              *)

Pending == project.dirty \/ project.inflight # 0

(* No message is under way and the watcher has seen the disk as it is.      *)
Quiet ==
  /\ jobs = <<>> /\ out = <<>> /\ plans = <<>> /\ batches = <<>> /\ events = <<>>
  /\ ~refreshing
  /\ scope = Watching /\ previous = Found

Contexts == UNION {[S -> SUBSET Artifacts] : S \in SUBSET Sources}
Versions == 0 .. 2 * MaxWrites + 1
Contents == UNION {[S -> Versions] : S \in SUBSET Artifacts}

Jobs ==
  [kind : {"Edit", "Close"}, source : Sources]
    \cup [kind : {"Rename"}, source : Sources, to : Sources]
    \cup [kind : {"Watched"}, path : Artifacts]

Reports == [kind : {"Watch"}, source : Sources, paths : SUBSET Artifacts] \cup [kind : {"Relint"}]

Projects == [known : BOOLEAN, contexts : Contexts, watches : SUBSET Artifacts, dirty : BOOLEAN,
             inflight : Nat, retired : SUBSET Sources]

Plans == [token : Nat, contexts : Contexts, retired : SUBSET Sources]
Batches == [token : Nat, contents : Contents, watches : Contexts]

TypeOK ==
  /\ writes \in 0..MaxWrites /\ switches \in Nat
  /\ artifacts \in [Artifacts -> 0 .. 2 * writes + 1] /\ reported \in [Artifacts -> Versions]
  /\ onDisk \subseteq Sources /\ documents \subseteq Sources
  /\ rows \in Contexts /\ \E S \in SUBSET Artifacts : counts \in [S -> Nat \ {0}]
  /\ jobs \in Seq(Jobs) /\ out \in Seq(Reports)
  /\ overlays \subseteq Sources /\ backing \subseteq Sources /\ refreshing \in BOOLEAN
  /\ project \in Projects /\ generation \in Nat /\ project.inflight <= generation
  /\ published \in Contents /\ plans \in Seq(Plans) /\ batches \in Seq(Batches)
  /\ scope \subseteq Artifacts /\ previous \in Contents /\ events \in Seq(SUBSET Artifacts)
  /\ overlooked \subseteq Artifacts /\ unseen \subseteq Artifacts /\ forgotten \subseteq Sources

(* The main loop's membership test, the counts, knows a path exactly when   *)
(* a row holds it, and as often as rows do.                                 *)
CountsMatchRows ==
  /\ DOMAIN counts = Watching
  /\ \A p \in DOMAIN counts : counts[p] = Cardinality({s \in DOMAIN rows : p \in rows[s]})

(* When everything has come to rest, what the database publishes for the    *)
(* artifacts of a context is what is on disk, except for a change that the  *)
(* worker dropped because no batch had named the path since a rename, and   *)
(* for a file that vanished before the watcher's first scan of it.          *)
PublishedIsCurrent ==
  Quiet => \A s \in DOMAIN project.contexts :
    \A p \in Closure(project.contexts[s], published) :
      /\ p \in DOMAIN published
      /\ published[p] = artifacts[p] \/ p \in overlooked \cup unseen

RowOf(s) == IF s \in DOMAIN rows THEN rows[s] ELSE {}

(* When everything has come to rest, a source with a context has a row of   *)
(* exactly its artifacts, retired sources have been released, and a row     *)
(* without a context belongs to a source that a rename made the worker      *)
(* forget.                                                                  *)
RowsFollowContexts ==
  Quiet =>
    /\ project.retired = {}
    /\ \A s \in DOMAIN project.contexts :
         RowOf(s) = Closure(project.contexts[s], published)
    /\ DOMAIN rows \ DOMAIN project.contexts \subseteq forgotten

(* A batch that was read before the worker heard of a change never replaces *)
(* what is published, not even when it completes before the batch that is   *)
(* read again because of the change; unless the worker dropped the change.  *)
SupersededNeverPublished ==
  [][published' # published =>
       \A p \in DOMAIN published' : published'[p] >= reported[p] \/ p \in overlooked]_vars

(* When everything has come to rest, no acquisition is pending: a batch     *)
(* that was rejected has been followed by another one, so that the requests *)
(* which wait for it are answered.                                          *)
NothingStranded == Quiet => ~Pending

(* Watcher events trigger acquisition: at rest, a change of an artifact of  *)
(* some context that the worker has heard of is published.                  *)
WatchedChangesArePublished ==
  Quiet => \A s \in DOMAIN project.contexts :
    \A p \in Closure(project.contexts[s], published) : published[p] >= reported[p]
=============================================================================
