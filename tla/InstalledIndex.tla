--------------------------- MODULE InstalledIndex ---------------------------
(***************************************************************************)
(* The shared index of an installed TeX tree (texmf.rs).  Requests take    *)
(* the last complete index from a mutex; a background thread enumerates    *)
(* the tree again, file by file and without the mutex, while programs      *)
(* change it and a watcher reports the changes.  A fingerprint of the      *)
(* directories detects a change during an enumeration, a watch epoch one   *)
(* that was reported, and a file on disk caches the result for later       *)
(* sessions.                                                               *)
(*                                                                         *)
(* The tree has no filename database, so that every change of a directory  *)
(* changes the fingerprint; the fingerprint is the number of changes.      *)
(***************************************************************************)
EXTENDS Integers, Sequences, FiniteSets

CONSTANTS
  Files,         (* names the tree may hold                                *)
  Threads,       (* identities for refresh threads                         *)
  Watchers,      (* kinds of watchers: TRUE merges the changes of a file   *)
  MaxMutations   (* bound: changes of the tree                             *)

NoIndex == {"none"}   (* IndexState.index before the first refresh        *)

ASSUME InstalledIndexAssumption ==
  /\ Watchers \subseteq BOOLEAN
  /\ "none" \notin Files
  /\ MaxMutations \in Nat

VARIABLES
  merging,      (* whether the watcher merges the changes of a file        *)
  explicit,     (* TexmfConfig.explicit_only, with configured roots        *)
  log,          (* contents of the tree, after each change                 *)
  events,       (* changes the watcher has not delivered yet               *)
  index,        (* IndexState.index                                        *)
  checking,     (* IndexState.checking                                     *)
  checked,      (* IndexState.checked is less than five seconds ago        *)
  roots,        (* IndexState.roots are known                              *)
  fingerprint,  (* IndexState.fingerprint, 0 for none                      *)
  epoch,        (* IndexState.watch_epoch                                  *)
  forced,       (* IndexState.forced_pending                               *)
  cache,        (* the cache file: a fingerprint, 0 for none, and files    *)
  refresher,    (* the refresh threads and their locals                    *)
  seen,         (* history: the fingerprint the index was enumerated at    *)
  delivered     (* history: the last delivered change of each file         *)

tree == <<merging, explicit, log>>
state == <<index, checking, checked, roots, fingerprint, epoch, forced>>
vars == <<tree, events, state, cache, refresher, seen, delivered>>

Now == Len(log)                (* the fingerprint of the tree as it is     *)
Present == log[Now]
NoThread == [pc |-> "none", epoch |-> 0, forced |-> FALSE, fingerprint |-> 0,
             listing |-> {}, left |-> {}, save |-> FALSE]

Init ==
  /\ merging \in Watchers
  /\ explicit \in BOOLEAN
  /\ \E files \in SUBSET Files : log = <<files>>
  /\ events = <<>>
  /\ index = NoIndex
  /\ checking = FALSE
  /\ checked = FALSE
  /\ roots = explicit
  /\ fingerprint = 0
  /\ epoch = 0
  /\ forced = FALSE
  /\ cache \in {[fingerprint |-> 0, files |-> {}], [fingerprint |-> 1, files |-> Present]}
  /\ refresher = [t \in Threads |-> NoThread]
  /\ seen = 0
  /\ delivered = [f \in Files |-> 0]

-----------------------------------------------------------------------------
(* Some program adds a file to the tree or removes one.  A watcher that     *)
(* coalesces reports a removal and the recreation as one change.            *)
Mutate(f) ==
  LET removed == f \in Present
      later == [file |-> f, deleted |-> removed, at |-> Now + 1]
      earlier == IF merging THEN SelectSeq(events, LAMBDA e : e.file # f) ELSE events
  IN
  /\ Now <= MaxMutations
  /\ log' = Append(log, IF removed THEN Present \ {f} ELSE Present \cup {f})
  /\ events' = Append(earlier, later)
  /\ UNCHANGED <<merging, explicit, state, cache, refresher, seen, delivered>>

-----------------------------------------------------------------------------
(* Mutant: a refresh starts whether or not one is running.                  *)
Spawn_Always(stale, busy) ==
  IF stale /\ \E t \in Threads : refresher[t] = NoThread
  THEN /\ checking' = TRUE
       /\ \E t \in Threads :
            /\ refresher[t] = NoThread
            /\ refresher' = [refresher EXCEPT ![t] = [NoThread EXCEPT !.pc = "capture"]]
  ELSE /\ checking' = busy
       /\ UNCHANGED refresher

(* ready_index: start a refresh when none is running and one is due.        *)
Spawn(stale, busy) ==
  IF stale /\ ~busy
  THEN /\ checking' = TRUE
       /\ refresher' = [refresher EXCEPT
            ![CHOOSE t \in Threads : refresher[t] = NoThread] = [NoThread EXCEPT !.pc = "capture"]]
  ELSE /\ checking' = busy
       /\ UNCHANGED refresher

(* A request, or a poll of the worker, asks for the index.                  *)
ReadyIndex ==
  /\ ~checking /\ ~checked
  /\ Spawn(~checked, checking)
  /\ UNCHANGED <<tree, events, index, checked, roots, fingerprint, epoch, forced,
                 cache, seen, delivered>>

(* What ready_index hands out.                                              *)
Served == IF forced THEN NoIndex ELSE index

(* Five seconds pass.                                                       *)
Elapse ==
  /\ checked
  /\ checked' = FALSE
  /\ UNCHANGED <<tree, events, index, checking, roots, fingerprint, epoch, forced,
                 cache, refresher, seen, delivered>>

(* Mutant: any created file the index already selects is ignored.           *)
Ignored_Selected(e) == ~roots \/ (~e.deleted /\ index # NoIndex /\ e.file \in index)

(* watched_source_change returns before it invalidates anything.            *)
Ignored(e) ==
  \/ ~roots
  \/ ~e.deleted /\ index # NoIndex /\ e.file \in index /\ ~forced

(* The worker handles a delivered change.                                   *)
WatchedSourceChange ==
  LET e == Head(events) IN
  /\ events # <<>>
  /\ events' = Tail(events)
  /\ delivered' = [delivered EXCEPT ![e.file] = e.at]
  /\ IF Ignored(e)
     THEN UNCHANGED <<checking, checked, epoch, forced, refresher>>
     ELSE /\ epoch' = epoch + 1
          /\ forced' = TRUE
          /\ checked' = FALSE
          /\ Spawn(TRUE, checking)
  /\ UNCHANGED <<tree, index, roots, fingerprint, cache, seen>>

-----------------------------------------------------------------------------
(* A refresh thread.                                                        *)

At(t, pc) == refresher[t].pc = pc
Goto(t, r) == refresher' = [refresher EXCEPT ![t] = r]

(* It captures the epoch and whether a watched change waits for it.         *)
Capture(t) ==
  /\ At(t, "capture")
  /\ Goto(t, [refresher[t] EXCEPT !.pc = "roots", !.epoch = epoch, !.forced = forced])
  /\ UNCHANGED <<tree, events, state, cache, seen, delivered>>

(* It discovers the roots once, before it looks into them.                  *)
DiscoverRoots(t) ==
  /\ At(t, "roots")
  /\ roots' = TRUE
  /\ Goto(t, [refresher[t] EXCEPT !.pc = "fingerprint"])
  /\ UNCHANGED <<tree, events, index, checking, checked, fingerprint, epoch, forced,
                 cache, seen, delivered>>

TakeFingerprint(t) ==
  /\ At(t, "fingerprint")
  /\ Goto(t, [refresher[t] EXCEPT !.pc = "unchanged", !.fingerprint = Now])
  /\ UNCHANGED <<tree, events, state, cache, seen, delivered>>

(* Mutant: an unchanged tree is not enumerated for a watched change.        *)
CheckUnchanged_Watched(t) ==
  LET r == refresher[t]
      unchanged == explicit /\ fingerprint = r.fingerprint
  IN
  /\ At(t, "unchanged")
  /\ IF unchanged
     THEN /\ checked' = TRUE
          /\ checking' = FALSE
          /\ Goto(t, NoThread)
     ELSE /\ Goto(t, [r EXCEPT !.pc = "load"])
          /\ UNCHANGED <<checked, checking>>
  /\ seen' = IF unchanged THEN r.fingerprint ELSE seen
  /\ UNCHANGED <<tree, events, index, roots, fingerprint, epoch, forced, cache, delivered>>

(* An explicit installation with the fingerprint of the published index     *)
(* needs no enumeration, unless a watched change says otherwise.            *)
CheckUnchanged(t) ==
  LET r == refresher[t]
      unchanged == /\ explicit /\ ~r.forced
                   /\ epoch = r.epoch
                   /\ fingerprint = r.fingerprint
  IN
  /\ At(t, "unchanged")
  /\ IF unchanged
     THEN /\ checked' = TRUE
          /\ checking' = FALSE
          /\ Goto(t, NoThread)
     ELSE /\ Goto(t, [r EXCEPT !.pc = "load"])
          /\ UNCHANGED <<checked, checking>>
  /\ seen' = IF unchanged THEN r.fingerprint ELSE seen
  /\ UNCHANGED <<tree, events, index, roots, fingerprint, epoch, forced, cache, delivered>>

(* load_or_build: a cached listing, or a walk.  A watched refresh walks.    *)
Load(t) ==
  LET r == refresher[t]
      hit == ~r.forced /\ cache.fingerprint = r.fingerprint
  IN
  /\ At(t, "load")
  /\ Goto(t, [r EXCEPT !.pc = IF hit THEN "recheck" ELSE "walk",
                       !.listing = IF hit THEN cache.files ELSE {},
                       !.left = IF hit THEN {} ELSE Files,
                       !.save = ~hit /\ ~r.forced])
  /\ UNCHANGED <<tree, events, state, cache, seen, delivered>>

(* One step of the walk.                                                    *)
Walk(t) ==
  LET r == refresher[t] IN
  /\ At(t, "walk")
  /\ \E f \in r.left :
       Goto(t, [r EXCEPT !.left = @ \ {f},
                         !.listing = IF f \in Present THEN @ \cup {f} ELSE @,
                         !.pc = IF r.left = {f} THEN "recheck" ELSE "walk"])
  /\ UNCHANGED <<tree, events, state, cache, seen, delivered>>

(* Mutant: a discarded refresh still counts as running.                     *)
Discard_StaysBusy(t) ==
  /\ checked' = FALSE
  /\ UNCHANGED checking
  /\ Goto(t, NoThread)

(* The thread gives up, so that the next request starts another.            *)
Discard(t) ==
  /\ checked' = FALSE
  /\ checking' = FALSE
  /\ Goto(t, NoThread)

(* Mutant: what was enumerated counts, whatever happened meanwhile.         *)
Recheck_Never(t) ==
  /\ At(t, "recheck")
  /\ Goto(t, [refresher[t] EXCEPT !.pc = "epoch"])
  /\ UNCHANGED <<tree, events, state, cache, seen, delivered>>

(* A change of the tree during the enumeration makes it worthless.          *)
Recheck(t) ==
  /\ At(t, "recheck")
  /\ IF Now = refresher[t].fingerprint
     THEN /\ Goto(t, [refresher[t] EXCEPT !.pc = "epoch"])
          /\ UNCHANGED <<checked, checking, fingerprint>>
     ELSE /\ Discard(t)
          /\ fingerprint' = 0
  /\ UNCHANGED <<tree, events, index, roots, epoch, forced, cache, seen, delivered>>

CheckEpoch(t) ==
  /\ At(t, "epoch")
  /\ IF epoch = refresher[t].epoch
     THEN /\ Goto(t, [refresher[t] EXCEPT !.pc = IF refresher[t].save THEN "save" ELSE "publish"])
          /\ UNCHANGED <<checked, checking>>
     ELSE Discard(t)
  /\ UNCHANGED <<tree, events, index, roots, fingerprint, epoch, forced, cache, seen, delivered>>

(* save_cache, without the mutex.                                           *)
SaveCache(t) ==
  LET r == refresher[t] IN
  /\ At(t, "save")
  /\ cache' = [fingerprint |-> r.fingerprint, files |-> r.listing]
  /\ Goto(t, [r EXCEPT !.pc = "publish"])
  /\ UNCHANGED <<tree, events, state, seen, delivered>>

(* Mutant: the epoch was checked already.                                   *)
Publish_Unchecked(t) ==
  LET r == refresher[t] IN
  /\ At(t, "publish")
  /\ forced' = FALSE
  /\ index' = r.listing
  /\ fingerprint' = r.fingerprint
  /\ checked' = TRUE
  /\ checking' = FALSE
  /\ seen' = r.fingerprint
  /\ Goto(t, NoThread)
  /\ UNCHANGED <<tree, events, roots, epoch, cache, delivered>>

(* The result is published, unless a watched change superseded it.          *)
Publish(t) ==
  LET r == refresher[t] IN
  /\ At(t, "publish")
  /\ IF epoch # r.epoch
     THEN /\ Discard(t)
          /\ UNCHANGED <<forced, index, fingerprint, seen>>
     ELSE /\ forced' = FALSE
          /\ index' = r.listing
          /\ fingerprint' = r.fingerprint
          /\ checked' = TRUE
          /\ checking' = FALSE
          /\ seen' = r.fingerprint
          /\ Goto(t, NoThread)
  /\ UNCHANGED <<tree, events, roots, epoch, cache, delivered>>

Refresh(t) ==
  \/ Capture(t)
  \/ DiscoverRoots(t)
  \/ TakeFingerprint(t)
  \/ CheckUnchanged(t)
  \/ Load(t)
  \/ Walk(t)
  \/ Recheck(t)
  \/ CheckEpoch(t)
  \/ SaveCache(t)
  \/ Publish(t)

Next ==
  \/ \E f \in Files : Mutate(f)
  \/ ReadyIndex
  \/ Elapse
  \/ WatchedSourceChange
  \/ \E t \in Threads : Refresh(t)

Spec == Init /\ [][Next]_vars

(* The worker polls, refresh threads are scheduled, the watcher delivers.   *)
Fairness ==
  /\ WF_vars(ReadyIndex)
  /\ WF_vars(Elapse)
  /\ WF_vars(WatchedSourceChange)
  /\ \A t \in Threads : WF_vars(Refresh(t))

FairSpec == Spec /\ Fairness

-----------------------------------------------------------------------------
Locals ==
  [pc : {"none", "capture", "roots", "fingerprint", "unchanged", "load", "walk",
         "recheck", "epoch", "save", "publish"},
   epoch : Nat, forced : BOOLEAN, fingerprint : Nat,
   listing : SUBSET Files, left : SUBSET Files, save : BOOLEAN]

(* The state of every variable.                                             *)
TypeOK ==
  /\ merging \in BOOLEAN
  /\ explicit \in BOOLEAN
  /\ log \in Seq(SUBSET Files) /\ log # <<>>
  /\ events \in Seq([file : Files, deleted : BOOLEAN, at : Nat])
  /\ index \in SUBSET Files \cup {NoIndex}
  /\ checking \in BOOLEAN
  /\ checked \in BOOLEAN
  /\ roots \in BOOLEAN
  /\ fingerprint \in Nat
  /\ epoch \in Nat
  /\ forced \in BOOLEAN
  /\ cache \in [fingerprint : Nat, files : SUBSET Files]
  /\ refresher \in [Threads -> Locals]
  /\ seen \in 0 .. Now
  /\ delivered \in [Files -> Nat]

(* The index is the tree as it was at one moment, never a mixture of two,   *)
(* although the walk reads the tree while programs change it.               *)
IndexIsOneMoment == index # NoIndex => seen > 0 /\ index = log[seen]

(* So is the cache that the next session trusts by its fingerprint alone.   *)
CacheIsTrue == cache.fingerprint > 0 => cache.files = log[cache.fingerprint]

(* "Watch-triggered refreshes withhold the old index until enumeration      *)
(* completes": what is handed out after a change was delivered tells, of    *)
(* that file, what was true at the change or since.  With a watcher that    *)
(* merges, the index may lack a removal and a creation for five seconds.    *)
ServedKnowsDelivered ==
  ~merging /\ Served # NoIndex => \A f \in Files : delivered[f] > 0 =>
    \E m \in delivered[f] .. Now : f \in Served <=> f \in log[m]

(* A later index is never replaced by that of an earlier moment: refreshes  *)
(* do not overtake one another.                                             *)
IndexAdvances == [][seen' >= seen]_vars

(* A watched change is waited for, but not for ever: requests that wait for *)
(* the index are released.                                                  *)
WaitEnds == forced ~> ~forced

(* Whatever was raced, ignored, merged or discarded, the index that is      *)
(* handed out ends up being the tree as it is.                              *)
Converges == <>[](Served = Present)
=============================================================================
