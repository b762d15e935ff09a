------------------------ MODULE InstalledIndexProofs ------------------------
(***************************************************************************)
(* What holds of InstalledIndex for every set of files and threads, every  *)
(* bound and both kinds of watchers: the index and its cache are the tree  *)
(* of one moment, the index never goes back, and the one that is handed    *)
(* out knows of the changes that were delivered.                           *)
(***************************************************************************)
EXTENDS InstalledIndex, TLAPS

(* What a refresh thread knows.  Until its recheck a listing is right only  *)
(* if the tree is still the one of the fingerprint; from then on it is the  *)
(* tree of the fingerprint, whatever happens.                               *)
Fingerprinted == {"unchanged", "load", "walk", "recheck", "epoch", "save", "publish"}
Rechecked == {"epoch", "save", "publish"}

Knows(r) ==
  /\ r.pc \in Fingerprinted => r.fingerprint \in 1 .. Now /\ seen <= r.fingerprint
  /\ r.pc = "walk" /\ r.fingerprint = Now => r.listing = Present \ r.left
  /\ r.pc = "recheck" /\ r.fingerprint = Now => r.listing = Present
  /\ r.pc \in Rechecked => r.listing = log[r.fingerprint]

TreeOK == log \in Seq(SUBSET Files) /\ log # <<>>

StateOK ==
  /\ epoch \in Nat /\ forced \in BOOLEAN
  /\ seen \in 0 .. Now /\ fingerprint \in 0 .. Now
  /\ fingerprint > 0 => index = log[fingerprint]

CacheOK == cache \in [fingerprint : 0 .. Now, files : SUBSET Files]

(* At most one thread refreshes, and only while checking is set.            *)
OneRefresh ==
  /\ \A t \in Threads : refresher[t].pc # "none" => checking
  /\ \A t, u \in Threads : refresher[t].pc # "none" /\ refresher[u].pc # "none" => t = u

ThreadsOK == refresher \in [Threads -> Locals] /\ \A t \in Threads : Knows(refresher[t])

(* The inductive invariant.                                                 *)
IndexInv ==
  TreeOK /\ StateOK /\ CacheOK /\ ThreadsOK /\ OneRefresh /\ IndexIsOneMoment /\ CacheIsTrue

LEMMA IndexInit == ASSUME Init PROVE IndexInv
<1> USE InstalledIndexAssumption DEF Init
<1>1. PICK files \in SUBSET Files : log = <<files>>
  OBVIOUS
<1>2. TreeOK /\ Now = 1 /\ Present = files
  BY <1>1 DEF TreeOK, Now, Present
<1>3. StateOK /\ IndexIsOneMoment
  <2>1. epoch \in Nat /\ seen \in 0 .. Now /\ fingerprint = 0 /\ fingerprint \in 0 .. Now
    BY <1>2
  <2>2. forced \in BOOLEAN
    OBVIOUS
  <2> QED
    BY <2>1, <2>2 DEF StateOK, IndexIsOneMoment
<1>4. CacheOK /\ CacheIsTrue
  BY <1>1, <1>2 DEF CacheOK, CacheIsTrue, Present
<1>5. NoThread \in Locals
  BY DEF NoThread, Locals
<1>6. ThreadsOK /\ OneRefresh
  BY <1>5 DEF ThreadsOK, OneRefresh, Knows, NoThread, Fingerprinted, Rechecked
<1> QED
  BY <1>2, <1>3, <1>4, <1>6 DEF IndexInv

(* A change of the tree leaves every earlier moment as it was.              *)
LEMMA MutateKeeps ==
  ASSUME IndexInv, NEW f \in Files, Mutate(f)
  PROVE  IndexInv'
<1> USE DEF IndexInv
<1> DEFINE files == IF f \in Present THEN Present \ {f} ELSE Present \cup {f}
<1>1. Now \in Nat \ {0} /\ Present \in SUBSET Files /\ log' = Append(log, files)
  BY DEF TreeOK, Now, Present, Mutate
<1>2. TreeOK' /\ Now' = Now + 1 /\ \A m \in 1 .. Now : log'[m] = log[m]
  BY <1>1 DEF TreeOK, Now
<1>3. UNCHANGED <<state, cache, refresher, seen>>
  BY DEF Mutate
<1> HIDE DEF files
<1>4. StateOK' /\ IndexIsOneMoment'
  <2>1. seen \in 0 .. Now' /\ fingerprint \in 0 .. Now'
    BY <1>1, <1>2 DEF StateOK
  <2>2. /\ seen > 0 => seen \in 1 .. Now
        /\ fingerprint > 0 => fingerprint \in 1 .. Now
    BY <1>1 DEF StateOK
  <2>3. (epoch \in Nat /\ forced \in BOOLEAN)'
    BY <1>3 DEF StateOK, state
  <2> QED
    BY <1>2, <1>3, <2>1, <2>2, <2>3 DEF StateOK, IndexIsOneMoment, state
<1>5. CacheOK' /\ CacheIsTrue'
  <2>1. cache.fingerprint \in 0 .. Now
    BY DEF CacheOK
  <2>2. cache.fingerprint > 0 => cache.fingerprint \in 1 .. Now
    BY <1>1, <2>1
  <2>3. 0 .. Now \subseteq 0 .. Now'
    BY <1>1, <1>2
  <2> QED
    BY <1>2, <1>3, <2>2, <2>3 DEF CacheOK, CacheIsTrue
<1>6. OneRefresh'
  BY <1>3 DEF OneRefresh, state
<1>7. ThreadsOK'
  <2>1. ASSUME NEW r \in Locals, Knows(r)
        PROVE  Knows(r)'
    <3>1. CASE r.pc \in Fingerprinted
      <4>1. r.fingerprint \in 1 .. Now /\ seen <= r.fingerprint
        BY <2>1, <3>1 DEF Knows
      <4>2. r.fingerprint # Now + 1 /\ r.fingerprint \in 1 .. Now + 1
        BY <1>1, <4>1
      <4> QED
        BY <1>2, <1>3, <2>1, <4>1, <4>2 DEF Knows, Fingerprinted, Rechecked
    <3>2. CASE r.pc \notin Fingerprinted
      BY <3>2 DEF Knows, Fingerprinted, Rechecked
    <3> QED
      BY <3>1, <3>2
  <2> QED
    BY <1>3, <2>1 DEF ThreadsOK, Knows
<1> QED
  BY <1>2, <1>4, <1>5, <1>6, <1>7

(* A refresh starts only when none runs.                                    *)
LEMMA SpawnKeeps ==
  ASSUME ThreadsOK, OneRefresh, NEW stale \in BOOLEAN, Spawn(stale, checking),
         UNCHANGED <<log, seen>>
  PROVE  ThreadsOK' /\ OneRefresh'
<1>1. CASE stale /\ ~checking
  <2> DEFINE chosen == CHOOSE t \in Threads : refresher[t] = NoThread
             started == [NoThread EXCEPT !.pc = "capture"]
  <2>1. refresher' = [refresher EXCEPT ![chosen] = started] /\ checking' = TRUE
    BY <1>1 DEF Spawn
  <2>2. started \in Locals /\ started.pc = "capture"
    BY DEF NoThread, Locals
  <2>3. \A t \in Threads : refresher[t].pc = "none"
    BY <1>1 DEF OneRefresh
  <2> HIDE DEF chosen, started
  <2>4. \A t \in Threads : refresher'[t] = IF t = chosen THEN started ELSE refresher[t]
    BY <2>1 DEF ThreadsOK
  <2>5. refresher' \in [Threads -> Locals]
    BY <2>1, <2>2 DEF ThreadsOK
  <2>6. \A t \in Threads : Knows(refresher[t])'
    BY <2>2, <2>3, <2>4 DEF Knows, Fingerprinted, Rechecked
  <2> QED
    BY <2>1, <2>2, <2>3, <2>4, <2>5, <2>6 DEF ThreadsOK, OneRefresh
<1>2. CASE ~(stale /\ ~checking)
  BY <1>2 DEF Spawn, ThreadsOK, OneRefresh, Knows, Now, Present
<1> QED
  BY <1>1, <1>2

(* A thread that goes on, with what it then knows.                          *)
LEMMA ThreadGoesOn ==
  ASSUME ThreadsOK, OneRefresh, NEW t \in Threads, refresher[t].pc # "none",
         NEW r \in Locals, Goto(t, r), Knows(r)', UNCHANGED log,
         seen' = seen \/ seen' = refresher[t].fingerprint,
         checking' = checking \/ (checking' = FALSE /\ r.pc = "none")
  PROVE  ThreadsOK' /\ OneRefresh'
<1>1. \A u \in Threads : refresher'[u] = IF u = t THEN r ELSE refresher[u]
  BY DEF ThreadsOK, Goto
<1>2. \A u \in Threads \ {t} : refresher[u].pc = "none"
  BY DEF OneRefresh, At
<1>3. refresher' \in [Threads -> Locals]
  BY DEF ThreadsOK, Goto
<1>4. \A u \in Threads : Knows(refresher[u])'
  BY <1>1, <1>2 DEF Knows, Fingerprinted, Rechecked
<1>5. OneRefresh'
  BY <1>1, <1>2 DEF OneRefresh, At
<1> QED
  BY <1>3, <1>4, <1>5 DEF ThreadsOK

(* What everything but the threads needs of a step that leaves the tree.    *)
LEMMA StateKept ==
  ASSUME IndexInv, UNCHANGED <<log, seen, fingerprint, index, cache>>,
         (epoch \in Nat)', (forced \in BOOLEAN)'
  PROVE  TreeOK' /\ StateOK' /\ CacheOK' /\ IndexIsOneMoment' /\ CacheIsTrue'
BY DEF IndexInv, TreeOK, StateOK, CacheOK, IndexIsOneMoment, CacheIsTrue, Now

(* A refresh thread takes a step: one step of the proof per action.         *)
LEMMA RefreshKeeps ==
  ASSUME IndexInv, NEW t \in Threads, Refresh(t)
  PROVE  IndexInv'
<1> DEFINE r == refresher[t]
<1> USE DEF IndexInv, At
<1>1. r \in Locals /\ Knows(r) /\ ThreadsOK /\ OneRefresh
  BY DEF ThreadsOK
<1>2. (epoch \in Nat) /\ forced \in BOOLEAN /\ Now \in Nat \ {0} /\ seen \in 0 .. Now
  BY DEF StateOK, TreeOK, Now
<1>3. NoThread \in Locals /\ Knows(NoThread)' /\ NoThread.pc = "none"
  BY DEF NoThread, Locals, Knows, Fingerprinted, Rechecked
<1>4. CASE Capture(t)
  <2>1. r.pc # "none" /\ UNCHANGED <<log, state, cache, seen>>
    BY <1>4 DEF Capture, tree
  <2>2. PICK q \in Locals : Goto(t, q) /\ q.pc = "roots"
    <3> DEFINE q == [r EXCEPT !.pc = "roots", !.epoch = epoch, !.forced = forced]
    <3>1. q \in Locals /\ q.pc = "roots"
      BY <1>1, <1>2 DEF Locals
    <3>2. Goto(t, q)
      BY <1>4 DEF Capture
    <3> HIDE DEF q
    <3> QED
      BY <3>1, <3>2
  <2>3. Knows(q)'
    BY <2>2 DEF Knows, Fingerprinted, Rechecked
  <2>4. ThreadsOK' /\ OneRefresh'
    BY <1>1, <2>1, <2>2, <2>3, ThreadGoesOn DEF state
  <2> QED
    BY <1>2, <2>1, <2>4, StateKept DEF state
<1>5. CASE DiscoverRoots(t)
  <2>1. r.pc # "none" /\ UNCHANGED <<log, index, checking, fingerprint, epoch, forced, cache, seen>>
    BY <1>5 DEF DiscoverRoots, tree
  <2>2. PICK q \in Locals : Goto(t, q) /\ q.pc = "fingerprint"
    BY <1>1, <1>5 DEF DiscoverRoots, Locals
  <2>3. Knows(q)'
    BY <2>2 DEF Knows, Fingerprinted, Rechecked
  <2>4. ThreadsOK' /\ OneRefresh'
    BY <1>1, <2>1, <2>2, <2>3, ThreadGoesOn
  <2> QED
    BY <1>2, <2>1, <2>4, StateKept
<1>6. CASE TakeFingerprint(t)
  <2>1. r.pc # "none" /\ UNCHANGED <<log, state, cache, seen>>
    BY <1>6 DEF TakeFingerprint, tree
  <2>2. PICK q \in Locals : Goto(t, q) /\ q.pc = "unchanged" /\ q.fingerprint = Now
    <3> DEFINE q == [r EXCEPT !.pc = "unchanged", !.fingerprint = Now]
    <3>1. q \in Locals /\ q.pc = "unchanged" /\ q.fingerprint = Now
      BY <1>1, <1>2 DEF Locals
    <3>2. Goto(t, q)
      BY <1>6 DEF TakeFingerprint
    <3> HIDE DEF q
    <3> QED
      BY <3>1, <3>2
  <2>3. Knows(q)'
    BY <1>2, <2>1, <2>2 DEF Knows, Rechecked, Now
  <2>4. ThreadsOK' /\ OneRefresh'
    BY <1>1, <2>1, <2>2, <2>3, ThreadGoesOn DEF state
  <2> QED
    BY <1>2, <2>1, <2>4, StateKept DEF state
<1>7. CASE CheckUnchanged(t)
  <2>1. r.pc = "unchanged" /\ r.fingerprint \in 1 .. Now /\ seen <= r.fingerprint
        /\ UNCHANGED <<log, index, fingerprint, epoch, forced, cache>>
    BY <1>1, <1>7 DEF CheckUnchanged, tree, Knows, Fingerprinted
  <2>2. CASE seen' = seen /\ checking' = checking
             /\ Goto(t, [r EXCEPT !.pc = "load"])
    <3>1. PICK q \in Locals : Goto(t, q) /\ q.pc = "load" /\ q.fingerprint = r.fingerprint
      BY <1>1, <2>2 DEF Locals
    <3>2. Knows(q)'
      BY <2>1, <2>2, <3>1 DEF Knows, Rechecked, Now
    <3>3. ThreadsOK' /\ OneRefresh'
      BY <1>1, <2>1, <2>2, <3>1, <3>2, ThreadGoesOn
    <3> QED
      BY <1>2, <2>1, <2>2, <3>3, StateKept
  <2>3. CASE seen' = r.fingerprint /\ fingerprint = r.fingerprint /\ checking' = FALSE
             /\ Goto(t, NoThread)
    <3>1. ThreadsOK' /\ OneRefresh'
      BY <1>1, <1>3, <2>1, <2>3, ThreadGoesOn
    <3>2. StateOK' /\ IndexIsOneMoment'
      BY <1>2, <2>1, <2>3 DEF StateOK, IndexIsOneMoment, Now
    <3> QED
      BY <2>1, <3>1, <3>2 DEF TreeOK, CacheOK, CacheIsTrue, Now
  <2> QED
    BY <1>7, <2>2, <2>3 DEF CheckUnchanged
<1>8. CASE Load(t)
  <2>1. r.pc = "load" /\ UNCHANGED <<log, state, cache, seen>>
    BY <1>8 DEF Load, tree
  <2>2. r.fingerprint \in 1 .. Now /\ seen <= r.fingerprint
    BY <1>1, <2>1 DEF Knows, Fingerprinted
  <2>3. PICK q \in Locals :
          /\ Goto(t, q) /\ q.fingerprint = r.fingerprint
          /\ \/ /\ q.pc = "recheck" /\ cache.fingerprint = r.fingerprint
                /\ q.listing = cache.files
             \/ q.pc = "walk" /\ q.listing = {} /\ q.left = Files
    <3> DEFINE hit == ~r.forced /\ cache.fingerprint = r.fingerprint
               q == [r EXCEPT !.pc = IF hit THEN "recheck" ELSE "walk",
                              !.listing = IF hit THEN cache.files ELSE {},
                              !.left = IF hit THEN {} ELSE Files,
                              !.save = ~hit /\ ~r.forced]
    <3>1. Goto(t, q)
      BY <1>8 DEF Load
    <3>2. hit \in BOOLEAN /\ (~hit /\ ~r.forced) \in BOOLEAN
      OBVIOUS
    <3>3. cache.files \in SUBSET Files
      BY DEF CacheOK
    <3>4. q \in Locals
      BY <1>1, <3>2, <3>3 DEF Locals
    <3>5. q.fingerprint = r.fingerprint
      BY <1>1 DEF Locals
    <3>6. CASE hit
      <4>1. q.pc = "recheck" /\ q.listing = cache.files
        BY <1>1, <3>6 DEF Locals
      <4> HIDE DEF q
      <4> QED
        BY <3>1, <3>4, <3>5, <3>6, <4>1
    <3>7. CASE ~hit
      <4>1. q.pc = "walk" /\ q.listing = {} /\ q.left = Files
        BY <1>1, <3>7 DEF Locals
      <4> HIDE DEF q, hit
      <4> QED
        BY <3>1, <3>4, <3>5, <4>1
    <3> QED
      BY <3>6, <3>7
  <2>4. Knows(q)'
    <3>1. TreeOK => Present \in SUBSET Files
      BY <1>2 DEF TreeOK, Present, Now
    <3> QED
      BY <2>1, <2>2, <2>3, <3>1 DEF Knows, Rechecked, Now, Present, CacheIsTrue
  <2>5. ThreadsOK' /\ OneRefresh'
    BY <1>1, <2>1, <2>3, <2>4, ThreadGoesOn DEF state
  <2> QED
    BY <1>2, <2>1, <2>5, StateKept DEF state
<1>9. CASE Walk(t)
  <2>1. r.pc = "walk" /\ UNCHANGED <<log, state, cache, seen>>
    BY <1>9 DEF Walk, tree
  <2>2. r.fingerprint \in 1 .. Now /\ seen <= r.fingerprint
    BY <1>1, <2>1 DEF Knows, Fingerprinted
  <2>3. PICK f \in r.left :
          Goto(t, [r EXCEPT !.left = @ \ {f},
                            !.listing = IF f \in Present THEN @ \cup {f} ELSE @,
                            !.pc = IF r.left = {f} THEN "recheck" ELSE "walk"])
    BY <1>9 DEF Walk
  <2>4. PICK q \in Locals :
          /\ Goto(t, q) /\ q.fingerprint = r.fingerprint
          /\ q.left = r.left \ {f}
          /\ q.listing = IF f \in Present THEN r.listing \cup {f} ELSE r.listing
          /\ q.pc = IF r.left = {f} THEN "recheck" ELSE "walk"
    <3> DEFINE q == [r EXCEPT !.left = @ \ {f},
                              !.listing = IF f \in Present THEN @ \cup {f} ELSE @,
                              !.pc = IF r.left = {f} THEN "recheck" ELSE "walk"]
    <3>1. f \in Files
      BY <1>1 DEF Locals
    <3>2. q \in Locals
      BY <1>1, <3>1 DEF Locals
    <3>3. /\ q.fingerprint = r.fingerprint
          /\ q.left = r.left \ {f}
          /\ q.listing = IF f \in Present THEN r.listing \cup {f} ELSE r.listing
          /\ q.pc = IF r.left = {f} THEN "recheck" ELSE "walk"
      BY <1>1 DEF Locals
    <3>4. Goto(t, q)
      BY <2>3
    <3> HIDE DEF q
    <3> QED
      BY <3>2, <3>3, <3>4
  <2>5. Knows(q)'
    <3>1. r.fingerprint = Now => r.listing = Present \ r.left
      BY <1>1, <2>1 DEF Knows
    <3>2. r.fingerprint = Now => q.listing = Present \ q.left
      BY <2>3, <2>4, <3>1
    <3>3. q.pc = "recheck" => q.left = {}
      BY <2>4
    <3>4. q.pc \in {"walk", "recheck"}
      BY <2>4
    <3> QED
      BY <2>1, <2>2, <2>4, <3>2, <3>3, <3>4 DEF Knows, Rechecked, Now, Present
  <2>6. ThreadsOK' /\ OneRefresh'
    BY <1>1, <2>1, <2>4, <2>5, ThreadGoesOn DEF state
  <2> QED
    BY <1>2, <2>1, <2>6, StateKept DEF state
<1>10. CASE Recheck(t)
  <2>1. r.pc = "recheck" /\ UNCHANGED <<log, index, epoch, forced, cache, seen>>
    BY <1>10 DEF Recheck, tree
  <2>2. r.fingerprint \in 1 .. Now /\ seen <= r.fingerprint
    BY <1>1, <2>1 DEF Knows, Fingerprinted
  <2>3. CASE Now = r.fingerprint
    <3>1. UNCHANGED <<checking, fingerprint>>
      BY <1>10, <2>3 DEF Recheck
    <3>2. PICK q \in Locals : Goto(t, q) /\ q.pc = "epoch" /\ q.fingerprint = r.fingerprint
                              /\ q.listing = r.listing
      BY <1>1, <1>10, <2>3 DEF Recheck, Locals
    <3>3. r.listing = Present
      BY <1>1, <2>1, <2>3 DEF Knows
    <3>4. Knows(q)'
      BY <2>1, <2>2, <2>3, <3>2, <3>3 DEF Knows, Now, Present
    <3>5. ThreadsOK' /\ OneRefresh'
      BY <1>1, <2>1, <3>1, <3>2, <3>4, ThreadGoesOn
    <3> QED
      BY <1>2, <2>1, <3>1, <3>5, StateKept
  <2>4. CASE Now # r.fingerprint
    <3>1. Goto(t, NoThread) /\ checking' = FALSE /\ fingerprint' = 0
      BY <1>10, <2>4 DEF Recheck, Discard
    <3>2. ThreadsOK' /\ OneRefresh'
      BY <1>1, <1>3, <2>1, <3>1, ThreadGoesOn
    <3>3. StateOK'
      BY <1>2, <2>1, <3>1 DEF StateOK, Now
    <3> QED
      BY <2>1, <3>2, <3>3 DEF TreeOK, CacheOK, CacheIsTrue, IndexIsOneMoment, Now
  <2> QED
    BY <2>3, <2>4
<1>11. CASE CheckEpoch(t)
  <2>1. r.pc = "epoch" /\ UNCHANGED <<log, index, fingerprint, epoch, forced, cache, seen>>
    BY <1>11 DEF CheckEpoch, tree
  <2>2. CASE epoch = r.epoch
    <3>1. checking' = checking
      BY <1>11, <2>2 DEF CheckEpoch
    <3>2. PICK q \in Locals : Goto(t, q) /\ q.pc \in {"save", "publish"}
                              /\ q.fingerprint = r.fingerprint /\ q.listing = r.listing
      BY <1>1, <1>11, <2>2 DEF CheckEpoch, Locals
    <3>3. Knows(q)'
      BY <1>1, <2>1, <3>2 DEF Knows, Fingerprinted, Rechecked, Now
    <3>4. ThreadsOK' /\ OneRefresh'
      BY <1>1, <2>1, <3>1, <3>2, <3>3, ThreadGoesOn
    <3> QED
      BY <1>2, <2>1, <3>4, StateKept
  <2>3. CASE epoch # r.epoch
    <3>1. Goto(t, NoThread) /\ checking' = FALSE
      BY <1>11, <2>3 DEF CheckEpoch, Discard
    <3>2. ThreadsOK' /\ OneRefresh'
      BY <1>1, <1>3, <2>1, <3>1, ThreadGoesOn
    <3> QED
      BY <1>2, <2>1, <3>2, StateKept
  <2> QED
    BY <2>2, <2>3
<1>12. CASE SaveCache(t)
  <2>1. r.pc = "save" /\ UNCHANGED <<log, state, seen>>
        /\ cache' = [fingerprint |-> r.fingerprint, files |-> r.listing]
    BY <1>12 DEF SaveCache, tree
  <2>2. r.fingerprint \in 1 .. Now /\ seen <= r.fingerprint /\ r.listing = log[r.fingerprint]
    BY <1>1, <2>1 DEF Knows, Fingerprinted, Rechecked
  <2>3. PICK q \in Locals : Goto(t, q) /\ q.pc = "publish" /\ q.fingerprint = r.fingerprint
                            /\ q.listing = r.listing
    BY <1>1, <1>12 DEF SaveCache, Locals
  <2>4. Knows(q)'
    BY <2>1, <2>2, <2>3 DEF Knows, Now
  <2>5. ThreadsOK' /\ OneRefresh'
    BY <1>1, <2>1, <2>3, <2>4, ThreadGoesOn DEF state
  <2>6. CacheOK' /\ CacheIsTrue'
    <3>1. r.listing \in SUBSET Files
      BY <1>1 DEF Locals
    <3> QED
      BY <1>2, <2>1, <2>2, <3>1 DEF CacheOK, CacheIsTrue, Now
  <2> QED
    BY <2>1, <2>5, <2>6 DEF TreeOK, StateOK, IndexIsOneMoment, Now, state
<1>13. CASE Publish(t)
  <2>1. r.pc = "publish" /\ UNCHANGED <<log, epoch, cache>>
        /\ Goto(t, NoThread) /\ checking' = FALSE
    BY <1>13 DEF Publish, Discard, tree
  <2>2. r.fingerprint \in 1 .. Now /\ seen <= r.fingerprint /\ r.listing = log[r.fingerprint]
    BY <1>1, <2>1 DEF Knows, Fingerprinted, Rechecked
  <2>3. \/ UNCHANGED <<forced, index, fingerprint, seen>>
        \/ /\ forced' = FALSE /\ index' = r.listing
           /\ fingerprint' = r.fingerprint /\ seen' = r.fingerprint
    BY <1>13 DEF Publish
  <2>4. ThreadsOK' /\ OneRefresh'
    BY <1>1, <1>3, <2>1, <2>3, ThreadGoesOn
  <2>5. StateOK' /\ IndexIsOneMoment'
    <3>1. (epoch \in Nat)' /\ (forced \in BOOLEAN)'
      BY <1>2, <2>1, <2>3
    <3> QED
      BY <1>2, <2>1, <2>2, <2>3, <3>1 DEF StateOK, IndexIsOneMoment, Now
  <2> QED
    BY <2>1, <2>4, <2>5 DEF TreeOK, CacheOK, CacheIsTrue, Now
<1> QED
  BY <1>4, <1>5, <1>6, <1>7, <1>8, <1>9, <1>10, <1>11, <1>12, <1>13 DEF Refresh

LEMMA IndexPreserved == ASSUME IndexInv, [Next]_vars PROVE IndexInv'
<1> USE DEF IndexInv
<1>1. epoch \in Nat /\ forced \in BOOLEAN
  BY DEF StateOK
<1>2. ASSUME NEW f \in Files, Mutate(f)
      PROVE  IndexInv'
  BY <1>2, MutateKeeps
<1>3. CASE ReadyIndex
  <2>1. ThreadsOK' /\ OneRefresh'
    BY <1>3, SpawnKeeps DEF ReadyIndex, tree
  <2> QED
    BY <1>1, <1>3, <2>1, StateKept DEF ReadyIndex, tree
<1>4. CASE Elapse
  <2>1. UNCHANGED <<log, index, checking, fingerprint, epoch, forced, cache, refresher, seen>>
    BY <1>4 DEF Elapse, tree
  <2>2. ThreadsOK' /\ OneRefresh'
    BY <2>1 DEF ThreadsOK, OneRefresh, Knows, Now, Present
  <2> QED
    BY <1>1, <2>1, <2>2, StateKept
<1>5. CASE WatchedSourceChange
  <2>1. UNCHANGED <<log, index, fingerprint, cache, seen>>
    BY <1>5 DEF WatchedSourceChange, tree
  <2>2. CASE UNCHANGED <<checking, epoch, forced, refresher>>
    <3>1. ThreadsOK' /\ OneRefresh'
      BY <2>1, <2>2 DEF ThreadsOK, OneRefresh, Knows, Now, Present
    <3> QED
      BY <1>1, <2>1, <2>2, <3>1, StateKept
  <2>3. CASE epoch' = epoch + 1 /\ forced' = TRUE /\ Spawn(TRUE, checking)
    <3>1. ThreadsOK' /\ OneRefresh'
      BY <2>1, <2>3, SpawnKeeps
    <3>2. (epoch \in Nat)' /\ (forced \in BOOLEAN)'
      BY <1>1, <2>3
    <3> QED
      BY <2>1, <3>1, <3>2, StateKept
  <2> QED
    BY <1>5, <2>2, <2>3 DEF WatchedSourceChange
<1>6. ASSUME NEW t \in Threads, Refresh(t)
      PROVE  IndexInv'
  BY <1>6, RefreshKeeps
<1>7. CASE UNCHANGED vars
  <2>1. UNCHANGED <<log, state, cache, refresher, seen>>
    BY <1>7 DEF vars, tree
  <2>2. ThreadsOK' /\ OneRefresh'
    BY <2>1 DEF ThreadsOK, OneRefresh, Knows, Now, Present, state
  <2> QED
    BY <1>1, <2>1, <2>2, StateKept DEF state
<1> QED
  BY <1>2, <1>3, <1>4, <1>5, <1>6, <1>7 DEF Next

LEMMA IndexInvariant == Spec => []IndexInv
<1>1. Init => IndexInv
  BY IndexInit
<1>2. IndexInv /\ [Next]_vars => IndexInv'
  BY IndexPreserved
<1> QED
  BY <1>1, <1>2, PTL DEF Spec

(* The index that requests take is the tree of one moment, for any number   *)
(* of changes in the course of its enumeration.                             *)
THEOREM IndexIsConsistent == Spec => []IndexIsOneMoment
<1>1. IndexInv => IndexIsOneMoment
  BY DEF IndexInv
<1> QED
  BY <1>1, IndexInvariant, PTL

(* The cache file that the next session trusts is the listing that belongs  *)
(* to its fingerprint.                                                      *)
THEOREM CacheIsConsistent == Spec => []CacheIsTrue
<1>1. IndexInv => CacheIsTrue
  BY DEF IndexInv
<1> QED
  BY <1>1, IndexInvariant, PTL

(* The moment of the published index never goes back: a refresh cannot      *)
(* overtake another, because there is no other.                             *)
THEOREM IndexNeverGoesBack == Spec => IndexAdvances
<1>1. IndexInv /\ [Next]_vars => [seen' >= seen]_vars
  <2> SUFFICES ASSUME IndexInv, Next PROVE seen' >= seen
    OBVIOUS
  <2>1. seen \in Nat
    BY DEF IndexInv, StateOK, TreeOK, Now
  <2>2. ASSUME NEW t \in Threads, Refresh(t), seen' # seen
        PROVE  seen' >= seen
    <3>1. refresher[t].pc \in Fingerprinted /\ seen' = refresher[t].fingerprint
      BY <2>2 DEF Refresh, Capture, DiscoverRoots, TakeFingerprint, CheckUnchanged, Load, Walk,
         Recheck, CheckEpoch, SaveCache, Publish, At, Fingerprinted
    <3>2. Knows(refresher[t])
      BY DEF IndexInv, ThreadsOK
    <3> QED
      BY <2>1, <3>1, <3>2 DEF Knows, IndexInv, TreeOK, Now
  <2>3. ASSUME seen' = seen
        PROVE  seen' >= seen
    BY <2>1, <2>3
  <2> QED
    BY <2>2, <2>3 DEF Next, Mutate, ReadyIndex, Elapse, WatchedSourceChange
<1> QED
  BY <1>1, IndexInvariant, PTL DEF Spec, IndexAdvances

-----------------------------------------------------------------------------
(* What was delivered, for a watcher that reports every change on its own.  *)
(* IndexInv says nothing of it, and ServedKnowsDelivered alone is not       *)
(* inductive: it does not say why a change that is ignored because the      *)
(* index selects the file already is one that the index has seen.           *)

(* The changes up to this moment of the tree have been delivered.           *)
DeliveredUpTo == Now - Len(events)

(* The change e led to moment m of the log l: it is one of a single file.   *)
EventIs(l, e, m) ==
  /\ e.at = m
  /\ (e.file \in l[m]) <=> ~e.deleted
  /\ (e.file \in l[m - 1]) <=> e.deleted
  /\ \A f \in Files \ {e.file} : (f \in l[m - 1]) <=> (f \in l[m])

Event == [file : Files, deleted : BOOLEAN, at : Nat]

(* The events are the changes since, in their order.                        *)
EventsInv ==
  /\ events \in Seq(Event)
  /\ DeliveredUpTo \in 1 .. Now
  /\ \A i \in DOMAIN events : EventIs(log, events[i], DeliveredUpTo + i)

(* A file has not changed between its last delivered change and the moment  *)
(* up to which changes have been delivered.                                 *)
Settled(l, d, f, moment) ==
  \A m \in 1 .. moment : m >= d[f] => ((f \in l[m]) <=> (f \in l[moment]))

DeliveredInv ==
  /\ delivered \in [Files -> Nat]
  /\ \A f \in Files : /\ delivered[f] <= DeliveredUpTo
                      /\ Settled(log, delivered, f, DeliveredUpTo)

(* Before the roots are known, nobody looks into the tree.                  *)
RootsInv ==
  ~roots => index = NoIndex /\ \A t \in Threads : refresher[t].pc \in {"none", "capture", "roots"}

(* A refresh that is not superseded looks at the tree after every change    *)
(* that was delivered, and so did the one whose index is handed out.        *)
KnownTo(d, moment) == \A f \in Files : d[f] <= moment

Follows(r, n, d) ==
  /\ r.epoch <= n
  /\ r.pc \in Fingerprinted /\ r.epoch = n => KnownTo(d, r.fingerprint)

CaughtUpInv ==
  /\ index # NoIndex /\ ~forced => KnownTo(delivered, seen)
  /\ \A t \in Threads : Follows(refresher[t], epoch, delivered)

DeliveryInv == RootsInv /\ (~merging => EventsInv /\ DeliveredInv /\ CaughtUpInv)

LEMMA DeliveryInit == ASSUME Init PROVE DeliveryInv
<1> USE DEF Init
<1>1. PICK files \in SUBSET Files : log = <<files>>
  OBVIOUS
<1>2. Len(events) = 0 /\ Now = 1 /\ DeliveredUpTo = 1
  BY <1>1 DEF Now, DeliveredUpTo
<1>3. EventsInv
  BY <1>2 DEF EventsInv
<1>4. delivered \in [Files -> Nat] /\ \A f \in Files : delivered[f] = 0
  OBVIOUS
<1>5. DeliveredInv
  BY <1>2, <1>4 DEF DeliveredInv, Settled
<1>6. \A t \in Threads : refresher[t].pc = "none" /\ refresher[t].epoch = 0
  BY DEF NoThread
<1>7. RootsInv /\ CaughtUpInv
  BY <1>6 DEF RootsInv, CaughtUpInv, Follows, Fingerprinted
<1> QED
  BY <1>3, <1>5, <1>7 DEF DeliveryInv

(* A thread that is started has looked at nothing.                          *)
LEMMA SpawnStarts ==
  ASSUME ThreadsOK, NEW stale \in BOOLEAN, NEW busy, Spawn(stale, busy), NEW t \in Threads
  PROVE  refresher'[t] = refresher[t] \/ (refresher'[t].pc = "capture" /\ refresher'[t].epoch = 0)
<1> DEFINE chosen == CHOOSE u \in Threads : refresher[u] = NoThread
           started == [NoThread EXCEPT !.pc = "capture"]
<1>1. started.pc = "capture" /\ started.epoch = 0
  BY DEF NoThread
<1>2. refresher' = refresher \/ refresher' = [refresher EXCEPT ![chosen] = started]
  BY DEF Spawn
<1> HIDE DEF chosen, started
<1> QED
  BY <1>1, <1>2 DEF ThreadsOK

(* A thread's step, seen from the threads.                                  *)
LEMMA GotoGoes ==
  ASSUME ThreadsOK, NEW t \in Threads, NEW r, Goto(t, r)
  PROVE  \A u \in Threads : refresher'[u] = IF u = t THEN r ELSE refresher[u]
BY DEF ThreadsOK, Goto

LEMMA RootsPreserved == ASSUME IndexInv, RootsInv, Next PROVE RootsInv'
<1> USE DEF RootsInv
<1>1. ThreadsOK
  BY DEF IndexInv
<1>2. ASSUME NEW f \in Files, Mutate(f)
      PROVE  RootsInv'
  BY <1>2 DEF Mutate, state
<1>3. ASSUME NEW stale \in BOOLEAN, NEW busy, Spawn(stale, busy), UNCHANGED <<roots, index>>
      PROVE  RootsInv'
  BY <1>1, <1>3, SpawnStarts DEF Fingerprinted
<1>4. CASE ReadyIndex
  <2>1. (~checked) \in BOOLEAN
    OBVIOUS
  <2> QED
    BY <1>3, <1>4, <2>1 DEF ReadyIndex
<1>5. CASE Elapse
  BY <1>5 DEF Elapse
<1>6. CASE WatchedSourceChange
  <2>1. UNCHANGED <<roots, index>> /\ (refresher' = refresher \/ Spawn(TRUE, checking))
    BY <1>6 DEF WatchedSourceChange, tree
  <2> QED
    BY <1>3, <2>1
<1>7. ASSUME NEW t \in Threads, Refresh(t)
      PROVE  RootsInv'
  <2>1. CASE roots
    <3>1. roots' = TRUE \/ roots' = roots
      BY <1>7 DEF Refresh, Capture, DiscoverRoots, TakeFingerprint, CheckUnchanged, Load, Walk,
         Recheck, CheckEpoch, SaveCache, Publish, state
    <3> QED
      BY <2>1, <3>1
  <2>2. CASE ~roots
    <3>1. Capture(t) \/ DiscoverRoots(t)
      BY <1>7, <2>2 DEF Refresh, TakeFingerprint, CheckUnchanged, Load, Walk,
         Recheck, CheckEpoch, SaveCache, Publish, At
    <3>2. CASE Capture(t)
      <4>1. PICK r : Goto(t, r) /\ r = [refresher[t] EXCEPT !.pc = "roots", !.epoch = epoch,
                                                            !.forced = forced]
        BY <3>2 DEF Capture
      <4>2. r.pc = "roots" /\ UNCHANGED <<roots, index>>
        BY <1>1, <3>2, <4>1 DEF ThreadsOK, Locals, Capture, state
      <4> QED
        BY <1>1, <4>1, <4>2, GotoGoes
    <3>3. CASE DiscoverRoots(t)
      BY <3>3 DEF DiscoverRoots
    <3> QED
      BY <3>1, <3>2, <3>3
  <2> QED
    BY <2>1, <2>2
<1> QED
  BY <1>2, <1>4, <1>5, <1>6, <1>7 DEF Next

(* A change of the tree waits to be delivered.                              *)
LEMMA MutateWaits ==
  ASSUME IndexInv, ~merging, EventsInv, DeliveredInv, CaughtUpInv, NEW f \in Files, Mutate(f)
  PROVE  EventsInv' /\ DeliveredInv' /\ CaughtUpInv'
<1> DEFINE removed == f \in Present
           later == [file |-> f, deleted |-> removed, at |-> Now + 1]
           files == IF removed THEN Present \ {f} ELSE Present \cup {f}
<1>1. /\ Now \in Nat \ {0} /\ Present = log[Now] /\ Present \in SUBSET Files
      /\ log \in Seq(SUBSET Files)
  BY DEF IndexInv, TreeOK, Now, Present
<1>2. log' = Append(log, files) /\ events' = Append(events, later)
      /\ UNCHANGED <<state, refresher, seen, delivered>>
  BY DEF Mutate
<1>3. /\ later \in Event /\ later.file = f /\ later.at = Now + 1
      /\ later.deleted <=> (f \in Present)
  <2>1. ASSUME NEW b \in BOOLEAN, NEW n \in Nat
        PROVE  [file |-> f, deleted |-> b, at |-> n] \in Event
    BY DEF Event
  <2>2. removed \in BOOLEAN /\ Now + 1 \in Nat
    BY <1>1
  <2>3. later \in Event
    BY <2>1, <2>2
  <2> QED
    BY <2>3
<1>4. /\ files \in SUBSET Files /\ (f \in files <=> f \notin Present)
      /\ \A g \in Files \ {f} : (g \in Present) <=> (g \in files)
  BY <1>1
<1> HIDE DEF later, files
<1>5. Now' = Now + 1 /\ log'[Now + 1] = files /\ \A m \in 1 .. Now : log'[m] = log[m]
  BY <1>1, <1>2, <1>4 DEF Now
<1>6. /\ events' \in Seq(Event) /\ Len(events) \in Nat /\ Len(events') = Len(events) + 1
      /\ DOMAIN events = 1 .. Len(events) /\ DOMAIN events' = 1 .. Len(events) + 1
      /\ \A i \in DOMAIN events : events'[i] = events[i]
      /\ events'[Len(events) + 1] = later
  BY <1>2, <1>3 DEF EventsInv
<1>7. DeliveredUpTo' = DeliveredUpTo /\ DeliveredUpTo \in 1 .. Now
      /\ DeliveredUpTo + Len(events) = Now
  <2>1. DeliveredUpTo \in 1 .. Now
    BY DEF EventsInv
  <2>2. DeliveredUpTo = Now - Len(events) /\ DeliveredUpTo' = Now' - Len(events')
    BY DEF DeliveredUpTo
  <2>3. Now' = Now + 1 /\ Now \in Nat
    BY <1>1, <1>5
  <2>4. Len(events') = Len(events) + 1 /\ Len(events) \in Nat
    BY <1>6
  <2> QED
    BY <2>1, <2>2, <2>3, <2>4
<1>8. EventIs(log', later, Now + 1)
  <2>1. (Now + 1) - 1 = Now /\ log'[Now] = Present
    BY <1>1, <1>5
  <2> QED
    BY <1>3, <1>4, <1>5, <2>1 DEF EventIs
<1>9. ASSUME NEW i \in DOMAIN events
      PROVE  EventIs(log', events[i], DeliveredUpTo + i)
  <2>1. /\ DeliveredUpTo + i \in 1 .. Now /\ (DeliveredUpTo + i) - 1 \in 1 .. Now
    BY <1>1, <1>6, <1>7
  <2>2. EventIs(log, events[i], DeliveredUpTo + i)
    BY DEF EventsInv
  <2> QED
    BY <1>5, <2>1, <2>2 DEF EventIs
<1>10. EventsInv'
  <2>1. ASSUME NEW i \in DOMAIN events'
        PROVE  EventIs(log', events'[i], DeliveredUpTo + i)
    <3>1. CASE i \in DOMAIN events
      BY <1>6, <1>9, <3>1
    <3>2. CASE i = Len(events) + 1
      BY <1>6, <1>7, <1>8, <3>2
    <3> QED
      BY <1>6, <2>1, <3>1, <3>2
  <2>2. (DeliveredUpTo \in 1 .. Now)'
    BY <1>1, <1>5, <1>7
  <2> QED
    BY <1>6, <1>7, <2>1, <2>2 DEF EventsInv
<1>11. DeliveredInv'
  <2>1. \A m \in 1 .. DeliveredUpTo : m \in 1 .. Now
    BY <1>1, <1>7
  <2>2. DeliveredUpTo \in 1 .. DeliveredUpTo
    BY <1>7
  <2> QED
    BY <1>2, <1>5, <1>7, <2>1, <2>2 DEF DeliveredInv, Settled
<1>12. CaughtUpInv'
  BY <1>2 DEF CaughtUpInv, state
<1> QED
  BY <1>10, <1>11, <1>12

(* A change is delivered: the next one of the tree.  If it is ignored, the  *)
(* index and whoever enumerates have seen it.                               *)
LEMMA ChangeArrives ==
  ASSUME IndexInv, RootsInv, ~merging, EventsInv, DeliveredInv, CaughtUpInv, WatchedSourceChange
  PROVE  EventsInv' /\ DeliveredInv' /\ CaughtUpInv'
<1> DEFINE e == Head(events)
           D == DeliveredUpTo
<1>1. events # <<>> /\ events' = Tail(events) /\ delivered' = [delivered EXCEPT ![e.file] = e.at]
      /\ UNCHANGED <<log, index, roots, seen>>
  BY DEF WatchedSourceChange, tree
<1>2. /\ e \in Event /\ e = events[1] /\ 1 \in DOMAIN events /\ Len(events) \in Nat
      /\ Tail(events) \in Seq(Event) /\ Len(Tail(events)) = Len(events) - 1
      /\ \A i \in DOMAIN Tail(events) : /\ Tail(events)[i] = events[i + 1]
                                        /\ i + 1 \in DOMAIN events /\ i \in Nat
  BY <1>1 DEF EventsInv
<1>3. /\ D \in 1 .. Now /\ Now \in Nat /\ DeliveredUpTo' = D + 1 /\ D + 1 \in 1 .. Now
      /\ Now' = Now
  <2>1. D \in 1 .. Now /\ Now \in Nat
    BY DEF EventsInv, IndexInv, TreeOK, Now
  <2>2. Len(events) >= 1
    BY <1>2, <1>1 DEF EventsInv
  <2> QED
    BY <1>1, <1>2, <2>1, <2>2 DEF DeliveredUpTo, Now
<1>4. EventIs(log, e, D + 1)
  BY <1>2 DEF EventsInv
<1>5. /\ e.file \in Files /\ e.at = D + 1 /\ e.deleted \in BOOLEAN
      /\ (e.file \in log[D + 1]) <=> ~e.deleted
      /\ (e.file \in log[D]) <=> e.deleted
      /\ \A f \in Files \ {e.file} : (f \in log[D]) <=> (f \in log[D + 1])
  <2>1. (D + 1) - 1 = D
    BY <1>3
  <2> QED
    BY <1>2, <1>4, <2>1 DEF EventIs, Event
<1> HIDE DEF e, D
<1>6. EventsInv'
  <2>1. ASSUME NEW i \in DOMAIN Tail(events)
        PROVE  EventIs(log, Tail(events)[i], (D + 1) + i)
    <3>1. D + (i + 1) = (D + 1) + i
      BY <1>2, <1>3
    <3> QED
      BY <1>2, <3>1 DEF EventsInv, D
  <2>2. (DeliveredUpTo \in 1 .. Now)'
    BY <1>3
  <2> QED
    BY <1>1, <1>2, <1>3, <2>1, <2>2 DEF EventsInv
<1>7. delivered \in [Files -> Nat] /\ \A f \in Files : delivered[f] <= D /\ Settled(log, delivered, f, D)
  BY DEF DeliveredInv, D
<1>8. /\ delivered' \in [Files -> Nat] /\ delivered'[e.file] = D + 1
      /\ \A f \in Files \ {e.file} : delivered'[f] = delivered[f]
  BY <1>1, <1>3, <1>5, <1>7
<1>9. DeliveredInv'
  <2>1. ASSUME NEW f \in Files
        PROVE  delivered'[f] <= D + 1 /\ Settled(log, delivered', f, D + 1)
    <3>1. \A m \in 1 .. D + 1 : m = D + 1 \/ m \in 1 .. D
      BY <1>3
    <3>2. CASE f = e.file
      <4>1. \A m \in 1 .. D : ~(m >= D + 1)
        BY <1>3
      <4> QED
        BY <1>3, <1>8, <3>1, <3>2, <4>1 DEF Settled
    <3>3. CASE f # e.file
      <4>1. (f \in log[D]) <=> (f \in log[D + 1])
        BY <1>5, <3>3
      <4>2. delivered[f] <= D + 1 /\ delivered'[f] = delivered[f]
        BY <1>3, <1>7, <1>8, <3>3
      <4>3. Settled(log, delivered, f, D)
        BY <1>7
      <4> QED
        BY <3>1, <4>1, <4>2, <4>3 DEF Settled
    <3> QED
      BY <3>2, <3>3
  <2> QED
    BY <1>1, <1>3, <1>8, <2>1 DEF DeliveredInv
<1>10. ThreadsOK /\ epoch \in Nat /\ (forced \in BOOLEAN) /\ seen \in Nat
  BY <1>3 DEF IndexInv, StateOK
<1>11. CASE Ignored(e)
  <2>1. UNCHANGED <<epoch, forced, refresher>>
    BY <1>11 DEF WatchedSourceChange, e
  <2>2. CASE ~roots
    <3>1. index = NoIndex /\ \A t \in Threads : refresher[t].pc \notin Fingerprinted
      BY <2>2 DEF RootsInv, Fingerprinted
    <3> QED
      BY <1>1, <1>6, <1>9, <2>1, <3>1 DEF CaughtUpInv, Follows
  <2>3. CASE roots
    <3>1. ~e.deleted /\ index # NoIndex /\ e.file \in index /\ ~forced
      BY <1>11, <2>3 DEF Ignored
    <3>2. seen > 0 /\ e.file \in log[seen]
      BY <3>1 DEF IndexInv, IndexIsOneMoment
    <3>3. seen >= delivered[e.file]
      BY <1>5, <3>1 DEF CaughtUpInv, KnownTo
    <3>4. seen >= D + 1
      <4>1. seen \notin 1 .. D
        <5>1. Settled(log, delivered, e.file, D)
          BY <1>5, <1>7
        <5>2. e.file \notin log[D]
          BY <1>5, <3>1
        <5> QED
          BY <3>2, <3>3, <5>1, <5>2 DEF Settled
      <4> QED
        BY <1>3, <1>10, <3>2, <4>1
    <3>5. ASSUME NEW m \in Nat, seen <= m, KnownTo(delivered, m)
          PROVE  KnownTo(delivered', m)
      <4>1. D + 1 <= m
        BY <1>3, <1>10, <3>4, <3>5
      <4> QED
        BY <1>8, <3>5, <4>1 DEF KnownTo
    <3>6. index' # NoIndex /\ ~forced' => KnownTo(delivered', seen)
      BY <1>10, <3>1, <3>5 DEF CaughtUpInv
    <3>7. ASSUME NEW t \in Threads
          PROVE  Follows(refresher[t], epoch, delivered')
      <4>1. Follows(refresher[t], epoch, delivered) /\ Knows(refresher[t])
        BY <1>10 DEF CaughtUpInv, ThreadsOK
      <4>2. refresher[t].pc \in Fingerprinted =>
              refresher[t].fingerprint \in Nat /\ seen <= refresher[t].fingerprint
        BY <1>3, <4>1 DEF Knows
      <4> QED
        BY <3>5, <4>1, <4>2 DEF Follows
    <3> QED
      BY <1>1, <1>6, <1>9, <2>1, <3>6, <3>7 DEF CaughtUpInv
  <2> QED
    BY <2>2, <2>3
<1>12. CASE ~Ignored(e)
  <2>1. epoch' = epoch + 1 /\ forced' = TRUE /\ Spawn(TRUE, checking)
    BY <1>12 DEF WatchedSourceChange, e
  <2>2. ASSUME NEW t \in Threads
        PROVE  Follows(refresher'[t], epoch + 1, delivered')
    <3>1. refresher[t].epoch \in Nat /\ refresher[t].epoch <= epoch
      BY <1>10 DEF ThreadsOK, Locals, CaughtUpInv, Follows
    <3>2. CASE refresher'[t] = refresher[t]
      <4>1. refresher[t].epoch <= epoch + 1 /\ refresher[t].epoch # epoch + 1
        BY <1>10, <3>1
      <4> QED
        BY <3>2, <4>1 DEF Follows
    <3>3. CASE refresher'[t].pc = "capture" /\ refresher'[t].epoch = 0
      BY <1>10, <3>3 DEF Follows, Fingerprinted
    <3> QED
      BY <1>10, <2>1, <3>2, <3>3, SpawnStarts
  <2> QED
    BY <1>6, <1>9, <2>1, <2>2 DEF CaughtUpInv
<1> QED
  BY <1>11, <1>12

(* A refresh thread goes on, and nothing is delivered.                      *)
LEMMA RefreshCatchesUp ==
  ASSUME IndexInv, ~merging, EventsInv, DeliveredInv, CaughtUpInv, NEW t \in Threads, Refresh(t)
  PROVE  EventsInv' /\ DeliveredInv' /\ CaughtUpInv'
<1> DEFINE r == refresher[t]
<1>1. UNCHANGED <<log, events, epoch, delivered>>
  BY DEF Refresh, Capture, DiscoverRoots, TakeFingerprint, CheckUnchanged, Load, Walk,
     Recheck, CheckEpoch, SaveCache, Publish, state, tree
<1>2. EventsInv' /\ DeliveredInv'
  BY <1>1 DEF EventsInv, DeliveredInv, DeliveredUpTo, Now
<1> SUFFICES CaughtUpInv'
  BY <1>2
<1>3. ThreadsOK /\ epoch \in Nat /\ r \in Locals /\ Follows(r, epoch, delivered)
  BY DEF IndexInv, StateOK, ThreadsOK, CaughtUpInv
<1>4. Follows(NoThread, epoch, delivered)
  BY <1>3 DEF Follows, NoThread, Fingerprinted
<1>5. ASSUME NEW q, Goto(t, q), Follows(q, epoch, delivered),
             index' # NoIndex /\ ~forced' => KnownTo(delivered, seen')
      PROVE  CaughtUpInv'
  <2>1. \A u \in Threads : refresher'[u] = q \/ refresher'[u] = refresher[u]
    BY <1>3, <1>5, GotoGoes
  <2> QED
    BY <1>1, <1>5, <2>1 DEF CaughtUpInv
<1>6. ASSUME NEW q, Goto(t, q), Follows(q, epoch, delivered), UNCHANGED <<index, forced, seen>>
      PROVE  CaughtUpInv'
  BY <1>5, <1>6 DEF CaughtUpInv
<1>7. ASSUME NEW q \in Locals, q.epoch = r.epoch, q.fingerprint = r.fingerprint,
             r.pc \in Fingerprinted
      PROVE  Follows(q, epoch, delivered)
  BY <1>3, <1>7 DEF Follows
<1>8. CASE Capture(t)
  <2>1. PICK q : Goto(t, q) /\ q = [r EXCEPT !.pc = "roots", !.epoch = epoch, !.forced = forced]
    BY <1>8 DEF Capture
  <2>2. q.pc = "roots" /\ q.epoch = epoch
    BY <1>3, <2>1 DEF Locals
  <2>3. Follows(q, epoch, delivered)
    BY <1>3, <2>2 DEF Follows, Fingerprinted
  <2> QED
    BY <1>6, <1>8, <2>1, <2>3 DEF Capture, state
<1>9. CASE DiscoverRoots(t)
  <2>1. PICK q : Goto(t, q) /\ q = [r EXCEPT !.pc = "fingerprint"]
    BY <1>9 DEF DiscoverRoots
  <2>2. q.pc = "fingerprint" /\ q.epoch = r.epoch
    BY <1>3, <2>1 DEF Locals
  <2>3. Follows(q, epoch, delivered)
    BY <1>3, <2>2 DEF Follows, Fingerprinted
  <2> QED
    BY <1>6, <1>9, <2>1, <2>3 DEF DiscoverRoots
<1>10. CASE TakeFingerprint(t)
  <2>1. PICK q : Goto(t, q) /\ q = [r EXCEPT !.pc = "unchanged", !.fingerprint = Now]
    BY <1>10 DEF TakeFingerprint
  <2>2. q.fingerprint = Now /\ q.epoch = r.epoch
    BY <1>3, <2>1 DEF Locals
  <2>3. KnownTo(delivered, Now)
    <3>1. DeliveredUpTo \in Nat /\ DeliveredUpTo <= Now /\ Now \in Nat
      BY DEF EventsInv, IndexInv, TreeOK, Now
    <3> QED
      BY <3>1 DEF DeliveredInv, KnownTo
  <2>4. Follows(q, epoch, delivered)
    BY <1>3, <2>2, <2>3 DEF Follows
  <2> QED
    BY <1>6, <1>10, <2>1, <2>4 DEF TakeFingerprint, state
<1>11. CASE CheckUnchanged(t)
  <2>1. r.pc \in Fingerprinted /\ UNCHANGED <<index, forced>>
    BY <1>11 DEF CheckUnchanged, At, Fingerprinted
  <2>2. CASE epoch = r.epoch /\ Goto(t, NoThread) /\ seen' = r.fingerprint
    <3>1. KnownTo(delivered, r.fingerprint)
      BY <1>3, <2>1, <2>2 DEF Follows
    <3> QED
      BY <1>4, <1>5, <2>2, <3>1
  <2>3. CASE Goto(t, [r EXCEPT !.pc = "load"]) /\ seen' = seen
    <3>1. PICK q \in Locals : Goto(t, q) /\ q.epoch = r.epoch /\ q.fingerprint = r.fingerprint
      BY <1>3, <2>3 DEF Locals
    <3> QED
      BY <1>6, <1>7, <2>1, <2>3, <3>1
  <2> QED
    BY <1>11, <2>2, <2>3 DEF CheckUnchanged
<1>12. ASSUME UNCHANGED <<index, forced, seen>>,
              NEW q \in Locals, Goto(t, q), q.epoch = r.epoch, q.fingerprint = r.fingerprint,
              r.pc \in Fingerprinted
       PROVE  CaughtUpInv'
  BY <1>6, <1>7, <1>12
<1>13. ASSUME UNCHANGED <<index, forced, seen>>, Goto(t, NoThread)
       PROVE  CaughtUpInv'
  BY <1>4, <1>6, <1>13
<1>14. CASE Load(t)
  <2>1. UNCHANGED <<index, forced, seen>> /\ r.pc \in Fingerprinted
    BY <1>14 DEF Load, state, At, Fingerprinted
  <2>2. PICK pc \in {"recheck", "walk"}, listing \in SUBSET Files, left \in SUBSET Files,
             save \in BOOLEAN :
          Goto(t, [r EXCEPT !.pc = pc, !.listing = listing, !.left = left, !.save = save])
    <3> DEFINE hit == ~r.forced /\ cache.fingerprint = r.fingerprint
    <3>1. Goto(t, [r EXCEPT !.pc = IF hit THEN "recheck" ELSE "walk",
                            !.listing = IF hit THEN cache.files ELSE {},
                            !.left = IF hit THEN {} ELSE Files,
                            !.save = ~hit /\ ~r.forced])
      BY <1>14 DEF Load
    <3>2. cache.files \in SUBSET Files /\ (~hit /\ ~r.forced) \in BOOLEAN
      BY DEF IndexInv, CacheOK
    <3> HIDE DEF hit
    <3> QED
      BY <3>1, <3>2
  <2>3. PICK q : q = [r EXCEPT !.pc = pc, !.listing = listing, !.left = left, !.save = save]
    OBVIOUS
  <2>4. q \in Locals /\ q.epoch = r.epoch /\ q.fingerprint = r.fingerprint
    BY <1>3, <2>3 DEF Locals
  <2> QED
    BY <1>12, <2>1, <2>2, <2>3, <2>4
<1>15. CASE Walk(t)
  <2>1. UNCHANGED <<index, forced, seen>> /\ r.pc \in Fingerprinted
    BY <1>15 DEF Walk, state, At, Fingerprinted
  <2>2. PICK f \in r.left :
          Goto(t, [r EXCEPT !.left = @ \ {f},
                            !.listing = IF f \in Present THEN @ \cup {f} ELSE @,
                            !.pc = IF r.left = {f} THEN "recheck" ELSE "walk"])
    BY <1>15 DEF Walk
  <2>3. PICK q : q = [r EXCEPT !.left = @ \ {f},
                               !.listing = IF f \in Present THEN @ \cup {f} ELSE @,
                               !.pc = IF r.left = {f} THEN "recheck" ELSE "walk"]
    OBVIOUS
  <2>4. q \in Locals /\ q.epoch = r.epoch /\ q.fingerprint = r.fingerprint
    BY <1>3, <2>3 DEF Locals
  <2> QED
    BY <1>12, <2>1, <2>2, <2>3, <2>4
<1>16. CASE Recheck(t)
  <2>1. UNCHANGED <<index, forced, seen>> /\ r.pc \in Fingerprinted
    BY <1>16 DEF Recheck, At, Fingerprinted
  <2>2. CASE Goto(t, [r EXCEPT !.pc = "epoch"])
    <3>1. PICK q \in Locals : Goto(t, q) /\ q.epoch = r.epoch /\ q.fingerprint = r.fingerprint
      BY <1>3, <2>2 DEF Locals
    <3> QED
      BY <1>12, <2>1, <3>1
  <2> QED
    BY <1>13, <1>16, <2>1, <2>2 DEF Recheck, Discard
<1>17. CASE CheckEpoch(t)
  <2>1. UNCHANGED <<index, forced, seen>> /\ r.pc \in Fingerprinted
    BY <1>17 DEF CheckEpoch, At, Fingerprinted
  <2>2. CASE Goto(t, [r EXCEPT !.pc = IF r.save THEN "save" ELSE "publish"])
    <3>1. PICK q \in Locals : Goto(t, q) /\ q.epoch = r.epoch /\ q.fingerprint = r.fingerprint
      BY <1>3, <2>2 DEF Locals
    <3> QED
      BY <1>12, <2>1, <3>1
  <2> QED
    BY <1>13, <1>17, <2>1, <2>2 DEF CheckEpoch, Discard
<1>18. CASE SaveCache(t)
  <2>1. UNCHANGED <<index, forced, seen>> /\ r.pc \in Fingerprinted
    BY <1>18 DEF SaveCache, state, At, Fingerprinted
  <2>2. PICK q \in Locals : Goto(t, q) /\ q.epoch = r.epoch /\ q.fingerprint = r.fingerprint
    BY <1>3, <1>18 DEF SaveCache, Locals
  <2> QED
    BY <1>12, <2>1, <2>2
<1>19. CASE Publish(t)
  <2>1. r.pc \in Fingerprinted /\ Goto(t, NoThread)
    BY <1>19 DEF Publish, Discard, At, Fingerprinted
  <2>2. CASE epoch = r.epoch /\ seen' = r.fingerprint
    <3>1. KnownTo(delivered, r.fingerprint)
      BY <1>3, <2>1, <2>2 DEF Follows
    <3> QED
      BY <1>4, <1>5, <2>1, <2>2, <3>1
  <2> QED
    BY <1>13, <1>19, <2>1, <2>2 DEF Publish
<1> QED
  BY <1>8, <1>9, <1>10, <1>11, <1>14, <1>15, <1>16, <1>17, <1>18, <1>19 DEF Refresh

LEMMA DeliveryPreserved == ASSUME IndexInv, DeliveryInv, [Next]_vars PROVE DeliveryInv'
<1>1. CASE UNCHANGED vars
  <2>1. UNCHANGED <<merging, log, events, index, roots, epoch, forced, refresher, seen, delivered>>
    BY <1>1 DEF vars, tree, state
  <2> QED
    BY <2>1 DEF DeliveryInv, RootsInv, EventsInv, DeliveredInv, CaughtUpInv, DeliveredUpTo, Now
<1>2. CASE Next
  <2>1. RootsInv'
    BY <1>2, RootsPreserved DEF DeliveryInv
  <2>2. merging' = merging
    BY <1>2 DEF Next, Mutate, ReadyIndex, Elapse, WatchedSourceChange, Refresh, Capture,
       DiscoverRoots, TakeFingerprint, CheckUnchanged, Load, Walk, Recheck, CheckEpoch,
       SaveCache, Publish, tree
  <2>3. SUFFICES ASSUME ~merging
                 PROVE  EventsInv' /\ DeliveredInv' /\ CaughtUpInv'
    BY <2>1, <2>2 DEF DeliveryInv
  <2>4. EventsInv /\ DeliveredInv /\ CaughtUpInv /\ RootsInv
    BY <2>3 DEF DeliveryInv
  <2>5. ThreadsOK /\ epoch \in Nat
    BY DEF IndexInv, StateOK
  <2>6. CASE ReadyIndex
    <3>1. UNCHANGED <<log, events, index, epoch, forced, seen, delivered>>
      BY <2>6 DEF ReadyIndex, tree
    <3>2. Spawn(~checked, checking) /\ (~checked) \in BOOLEAN
      BY <2>6 DEF ReadyIndex
    <3>3. ASSUME NEW t \in Threads
          PROVE  Follows(refresher'[t], epoch, delivered)
      <4>1. refresher'[t] = refresher[t] \/ (refresher'[t].pc = "capture" /\ refresher'[t].epoch = 0)
        BY <2>5, <3>2, SpawnStarts
      <4> QED
        BY <2>4, <2>5, <4>1 DEF CaughtUpInv, Follows, Fingerprinted
    <3> QED
      BY <2>4, <3>1, <3>3 DEF EventsInv, DeliveredInv, CaughtUpInv, DeliveredUpTo, Now
  <2>7. CASE Elapse
    <3>1. UNCHANGED <<log, events, index, epoch, forced, refresher, seen, delivered>>
      BY <2>7 DEF Elapse, tree
    <3> QED
      BY <2>4, <3>1 DEF EventsInv, DeliveredInv, CaughtUpInv, DeliveredUpTo, Now
  <2> QED
    BY <1>2, <2>3, <2>4, <2>6, <2>7, MutateWaits, ChangeArrives, RefreshCatchesUp DEF Next
<1> QED
  BY <1>1, <1>2

LEMMA DeliveryInvariant == Spec => []DeliveryInv
<1>1. Init => DeliveryInv
  BY DeliveryInit
<1>2. IndexInv /\ DeliveryInv /\ [Next]_vars => DeliveryInv'
  BY DeliveryPreserved
<1> QED
  BY <1>1, <1>2, IndexInvariant, PTL DEF Spec

(* The index that is handed out has seen every change that was delivered,   *)
(* although changes to files that the index selects are ignored, refreshes  *)
(* are superseded, and changes are delivered late.                          *)
THEOREM ServedIsCaughtUp == Spec => []ServedKnowsDelivered
<1>1. IndexInv /\ DeliveryInv => ServedKnowsDelivered
  <2> SUFFICES ASSUME IndexInv, DeliveryInv, ~merging, Served # NoIndex, NEW f \in Files
               PROVE  \E m \in delivered[f] .. Now : f \in Served <=> f \in log[m]
    BY DEF ServedKnowsDelivered
  <2>1. ~forced /\ Served = index /\ index # NoIndex
    BY DEF Served
  <2>2. index = log[seen] /\ seen \in 0 .. Now /\ Now \in Nat
    BY <2>1 DEF IndexInv, IndexIsOneMoment, StateOK, TreeOK, Now
  <2>3. delivered[f] \in Nat /\ delivered[f] <= seen
    BY <2>1 DEF DeliveryInv, DeliveredInv, CaughtUpInv, KnownTo
  <2>4. seen \in delivered[f] .. Now
    BY <2>2, <2>3
  <2> QED
    BY <2>1, <2>2, <2>4
<1> QED
  BY <1>1, IndexInvariant, DeliveryInvariant, PTL
=============================================================================
