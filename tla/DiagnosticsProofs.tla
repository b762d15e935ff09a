------------------------- MODULE DiagnosticsProofs -------------------------
(***************************************************************************)
(* What holds of Diagnostics for every set of documents and texts, every   *)
(* pool and all bounds: what the editor shows next was computed from its   *)
(* own present, a closed document shows nothing, and once the server is    *)
(* quiet, every open document shows the diagnostics of its text unless its *)
(* last analysis was cancelled.                                            *)
(***************************************************************************)
EXTENDS Diagnostics, FiniteSetTheorems, TLAPS

-----------------------------------------------------------------------------
(* Facts about the sequences that stand for channels.                       *)

(* The first message of a channel, and the channel without it.              *)
LEMMA HeadOf ==
  ASSUME NEW S, NEW q \in Seq(S), q # <<>>
  PROVE  /\ Head(q) \in S /\ Head(q) = q[1] /\ 1 \in DOMAIN q
         /\ Tail(q) \in Seq(S) /\ DOMAIN q = 1..Len(q)
         /\ DOMAIN Tail(q) = 1..Len(q) - 1 /\ Len(q) \in Nat
         /\ \A i \in DOMAIN Tail(q) : Tail(q)[i] = q[i + 1] /\ i + 1 \in DOMAIN q
         /\ \A i \in DOMAIN q : i = 1 \/ (i - 1 \in DOMAIN Tail(q) /\ Tail(q)[i - 1] = q[i])
OBVIOUS

(* A channel with one more message.                                         *)
LEMMA AppendOf ==
  ASSUME NEW S, NEW q \in Seq(S), NEW m \in S
  PROVE  /\ Append(q, m) \in Seq(S) /\ Len(q) \in Nat
         /\ DOMAIN q = 1..Len(q) /\ DOMAIN Append(q, m) = 1..Len(q) + 1
         /\ Len(Append(q, m)) = Len(q) + 1
         /\ \A i \in DOMAIN q : Append(q, m)[i] = q[i]
         /\ Append(q, m)[Len(q) + 1] = m
OBVIOUS

(* A channel with the messages of another after its own.                    *)
LEMMA ConcatOf ==
  ASSUME NEW S, NEW q \in Seq(S), NEW r \in Seq(S)
  PROVE  /\ q \o r \in Seq(S) /\ Len(q) \in Nat /\ Len(r) \in Nat
         /\ DOMAIN q = 1..Len(q) /\ DOMAIN r = 1..Len(r)
         /\ DOMAIN (q \o r) = 1..Len(q) + Len(r) /\ Len(q \o r) = Len(q) + Len(r)
         /\ \A i \in DOMAIN q : (q \o r)[i] = q[i] /\ i \in DOMAIN (q \o r)
         /\ \A k \in DOMAIN r : (q \o r)[Len(q) + k] = r[k] /\ Len(q) + k \in DOMAIN (q \o r)
         /\ \A i \in DOMAIN (q \o r) : i \in DOMAIN q \/ (i - Len(q) \in DOMAIN r /\ i > Len(q))
OBVIOUS

-----------------------------------------------------------------------------
(* Types.                                                                   *)

Documents == {Closed} \cup [version : Nat \ {0}, text : Texts]
Slots == {Nothing} \cup Requests
Queued == {NoRequest} \cup [version : Nat \ {0}, stamp : Nat]
Displays == {Nothing} \cup [version : Nat \ {0}, snapshot : Snapshots]

(* TypeOK with the names of this module, and finitely many open documents.  *)
TypeInv ==
  /\ TypeOK
  /\ IsFiniteSet(OpenDocs)

LEMMA Types ==
  ASSUME TypeOK
  PROVE  /\ docs \in [Docs -> Documents]
         /\ stamp \in Nat /\ changes \in Nat /\ reported \in Nat /\ disk \in Nat /\ generation \in Nat
         /\ jobs \in Seq(Jobs) /\ out \in Seq(Outbound) /\ done \in Seq(Requests)
         /\ overlay \in [Docs -> Texts \cup {NoText}] /\ file \in Nat
         /\ inflight \in Slots /\ queue \in [Docs -> Queued]
         /\ wanted \in SUBSET Sources /\ plan \in Plans
         /\ readers \in [1 .. PoolSize -> Readers] /\ DOMAIN readers = 1 .. PoolSize
<1>1. docs \in [Docs -> Documents] /\ inflight \in Slots /\ queue \in [Docs -> Queued]
  BY DEF Documents, Slots, Queued, TypeOK
<1>2. changes \in Nat /\ reported \in Nat /\ disk \in Nat
  <2>1. changes \in 0 .. MaxChanges /\ reported \in 0 .. MaxDisk /\ disk \in 1 .. MaxDisk
    BY DEF TypeOK
  <2> QED
    BY <2>1, DiagnosticsAssumption
<1>3. readers \in [1 .. PoolSize -> Readers]
  BY DEF TypeOK
<1>4. DOMAIN readers = 1 .. PoolSize
  BY <1>3
<1> QED
  BY <1>1, <1>2, <1>3, <1>4 DEF TypeOK

LEMMA OpenDocument ==
  ASSUME TypeOK, NEW d \in Docs, Open(d)
  PROVE  docs[d].version \in Nat \ {0} /\ docs[d].text \in Texts
<1>1. docs[d] \in Documents
  BY Types
<1>2. docs[d] # Closed
  BY DEF Open, Closed
<1> QED
  BY <1>1, <1>2 DEF Documents

LEMMA EditTyped ==
  ASSUME NEW d \in Docs, NEW opened \in BOOLEAN, NEW v \in Nat \ {0}, NEW text \in Texts, NEW at \in Nat
  PROVE  LET job == [type |-> "edit", doc |-> d, opened |-> opened, text |-> text,
                     version |-> v, stamp |-> at]
         IN job \in EditJobs /\ job \in Jobs
BY DEF EditJobs, Jobs

(* The jobs that relint_all_open sends: one for every open document, as the *)
(* main loop has it.                                                        *)
RelintJob(job, at) ==
  /\ job \in EditJobs
  /\ job.doc \in OpenDocs /\ job.stamp = at
  /\ job.text = docs[job.doc].text /\ job.version = docs[job.doc].version

LEMMA RelintJobs ==
  ASSUME TypeInv, NEW at \in Nat, RelintAllOpen(at)
  PROVE  \E r \in Seq(Jobs) :
           /\ jobs' = jobs \o r
           /\ \A k \in DOMAIN r : RelintJob(r[k], at)
           /\ \A d \in OpenDocs : \E k \in DOMAIN r : r[k].doc = d
<1> DEFINE n == Cardinality(OpenDocs)
<1>1. n \in Nat
  BY FS_CardinalityType DEF TypeInv
<1>2. PICK order \in SetToSeqs(OpenDocs) :
        jobs' = jobs \o [i \in DOMAIN order |-> EditJob(order[i], FALSE, docs[order[i]], at)]
  BY DEF RelintAllOpen
<1>3. order \in [1..n -> OpenDocs] /\ \A i, j \in 1..n : i # j => order[i] # order[j]
  BY <1>2 DEF SetToSeqs
<1> HIDE DEF n
<1>4. \A d \in OpenDocs : \E i \in 1..n : order[i] = d
  <2>1. IsFiniteSet(1..n) /\ Cardinality(1..n) = n
    BY <1>1, FS_Interval
  <2>2. order \in Injection(1..n, OpenDocs)
    BY <1>3 DEF Injection, IsInjective
  <2>3. order \in Surjection(1..n, OpenDocs)
    BY <2>1, <2>2, FS_Injection DEF TypeInv, n
  <2> QED
    BY <2>3 DEF Surjection
<1> DEFINE r == [i \in 1..n |-> EditJob(order[i], FALSE, docs[order[i]], at)]
<1>5. ASSUME NEW i \in 1..n
      PROVE  RelintJob(r[i], at) /\ r[i].doc = order[i]
  <2>1. order[i] \in OpenDocs /\ order[i] \in Docs /\ Open(order[i])
    BY <1>3 DEF OpenDocs
  <2>2. PICK v \in Nat \ {0}, text \in Texts :
          v = docs[order[i]].version /\ text = docs[order[i]].text
    BY <2>1, OpenDocument DEF TypeInv
  <2>3. r[i] = [type |-> "edit", doc |-> order[i], opened |-> FALSE, text |-> text,
                version |-> v, stamp |-> at]
    BY <2>2 DEF EditJob
  <2>4. r[i] \in EditJobs
    BY <2>1, <2>3, EditTyped
  <2> HIDE DEF r
  <2>5. r[i].doc = order[i] /\ r[i].stamp = at /\ r[i].text = text /\ r[i].version = v
    BY <2>3
  <2> QED
    BY <2>1, <2>2, <2>4, <2>5 DEF RelintJob
<1>6. jobs' = jobs \o r
  BY <1>2, <1>3
<1>7. DOMAIN r = 1..n /\ r = [i \in 1..n |-> r[i]]
  OBVIOUS
<1> HIDE DEF r
<1>8. r \in [1..n -> Jobs]
  BY <1>5, <1>7 DEF RelintJob, Jobs
<1>9. r \in Seq(Jobs)
  BY <1>1, <1>8
<1> QED
  BY <1>4, <1>5, <1>6, <1>7, <1>9

(* What acquire_files does with the plan that was there.                    *)
LEMMA AcquireEffect ==
  ASSUME NEW want \in SUBSET Sources, NEW reserved \in Nat, NEW current \in Plans,
         AcquireFiles(want, reserved, current)
  PROVE  /\ wanted' \in SUBSET Sources /\ generation' \in Nat /\ plan' \in Plans
         /\ reserved <= generation'
         /\ \/ /\ plan' = current /\ generation' = reserved /\ wanted' = want
               /\ current # NoPlan \/ want = {}
            \/ /\ plan' = [state |-> "queued", token |-> generation', sources |-> want]
               /\ plan' # NoPlan /\ plan'.state = "queued" /\ plan'.sources = want
               /\ plan'.token = generation' /\ wanted' = {}
<1>1. CASE current # NoPlan \/ want = {}
  BY <1>1 DEF AcquireFiles
<1>2. CASE ~(current # NoPlan \/ want = {})
  <2>1. wanted' = {} /\ generation' = reserved + 1
        /\ plan' = [state |-> "queued", token |-> reserved + 1, sources |-> want]
    BY <1>2 DEF AcquireFiles
  <2>2. plan' \in Plans
    BY <2>1 DEF Plans
  <2>3. plan' # NoPlan /\ plan'.state = "queued" /\ plan'.sources = want /\ plan'.token = generation'
    BY <2>1 DEF NoPlan
  <2> QED
    BY <2>1, <2>2, <2>3
<1> QED
  BY <1>1, <1>2

(* What try_dispatch does, given the analysis in the slot: nothing, or it   *)
(* frees the slot, or it starts the request of some document.               *)
Due(d, current) ==
  /\ queue[d].version > 0
  /\ current = Nothing \/ (current.doc = d /\ queue[d].version > current.version)

RequestOf(d) == [doc |-> d, version |-> queue[d].version, stamp |-> queue[d].stamp]

Starts(d, s) ==
  /\ plan = NoPlan /\ readers[s] = Idle
  /\ inflight' = RequestOf(d)
  /\ queue' = [queue EXCEPT ![d] = NoRequest]
  /\ readers' = [readers EXCEPT ![s] =
       [phase |-> "running", request |-> RequestOf(d), cancelled |-> FALSE,
        snapshot |-> [texts |-> overlay, file |-> file]]]
  /\ lost' = lost \ {d}

LEMMA DispatchEffect ==
  ASSUME TypeOK, NEW current, TryDispatch(current)
  PROVE  \/ inflight' = current /\ UNCHANGED <<queue, readers, lost>>
         \/ \E d \in Docs : Due(d, current) /\ inflight' = Nothing /\ UNCHANGED <<queue, readers, lost>>
         \/ \E d \in Docs, s \in DOMAIN readers : Due(d, current) /\ Starts(d, s)
<1> DEFINE ready == {d \in Docs : Due(d, current)}
           idle == {s \in DOMAIN readers : readers[s] = Idle}
<1>1. CASE ready = {}
  BY <1>1 DEF TryDispatch, Due
<1>2. CASE ready # {}
  <2>1. PICK d \in ready : StartAnalyze(d)
    BY <1>2 DEF TryDispatch, Due
  <2>2. d \in Docs /\ Due(d, current)
    BY <2>1
  <2>3. CASE plan # NoPlan \/ idle = {}
    <3>1. inflight' = Nothing /\ UNCHANGED <<queue, readers, lost>>
      BY <2>1, <2>3 DEF StartAnalyze
    <3> QED
      BY <2>2, <3>1
  <2>4. CASE ~(plan # NoPlan \/ idle = {})
    <3>1. PICK s \in idle : s = CHOOSE u \in idle : TRUE
      BY <2>4
    <3>2. Starts(d, s)
      BY <2>1, <2>4, <3>1 DEF StartAnalyze, Starts, RequestOf
    <3> QED
      BY <2>2, <3>1, <3>2
  <2> QED
    BY <2>3, <2>4
<1> QED
  BY <1>1, <1>2

(* A notification about a document.                                         *)
LEMMA AcceptTyped ==
  ASSUME TypeInv, NEW d \in Docs, NEW document \in Documents, NEW job \in Jobs,
         Accept(d, document, job)
  PROVE  /\ docs' \in [Docs -> Documents] /\ stamp' \in Nat /\ changes' \in 0 .. MaxChanges
         /\ jobs' \in Seq(Jobs) /\ IsFiniteSet(OpenDocs')
<1>1. docs \in [Docs -> Documents] /\ stamp \in Nat /\ changes \in 0 .. MaxChanges /\ jobs \in Seq(Jobs)
  BY Types DEF TypeInv, TypeOK
<1>2. docs' = [docs EXCEPT ![d] = document] /\ jobs' = Append(jobs, job)
      /\ stamp' = stamp + 1 /\ changes' = changes + 1 /\ changes < MaxChanges
  BY DEF Accept
<1>3. OpenDocs' \subseteq OpenDocs \cup {d}
  BY <1>1, <1>2 DEF OpenDocs, Open
<1>4. IsFiniteSet(OpenDocs \cup {d})
  BY FS_AddElement DEF TypeInv
<1>5. IsFiniteSet(OpenDocs')
  BY <1>3, <1>4, FS_Subset
<1>6. changes' \in 0 .. MaxChanges
  BY <1>1, <1>2, DiagnosticsAssumption
<1>7. docs' \in [Docs -> Documents] /\ jobs' \in Seq(Jobs) /\ stamp' \in Nat
  BY <1>1, <1>2
<1> QED
  BY <1>5, <1>6, <1>7

(* The state of the worker's slot and of the pool after a dispatch.         *)
LEMMA RequestTyped ==
  ASSUME TypeOK, NEW d \in Docs, queue[d].version > 0
  PROVE  RequestOf(d) \in Requests
<1>1. queue[d] \in Queued /\ queue[d] # NoRequest
  BY Types DEF NoRequest
<1> QED
  BY <1>1 DEF Queued, RequestOf, Requests

LEMMA DispatchTyped ==
  ASSUME TypeOK, NEW current \in Slots, TryDispatch(current)
  PROVE  /\ inflight' \in Slots /\ queue' \in [Docs -> Queued]
         /\ readers' \in [1 .. PoolSize -> Readers] /\ lost' \in SUBSET Docs
<1>1. /\ queue \in [Docs -> Queued] /\ readers \in [1 .. PoolSize -> Readers]
      /\ DOMAIN readers = 1 .. PoolSize /\ lost \in SUBSET Docs
      /\ overlay \in [Docs -> Texts \cup {NoText}] /\ file \in Nat
  BY Types DEF TypeOK
<1>2. Nothing \in Slots
  BY DEF Slots
<1>3. ASSUME NEW d \in Docs, NEW s \in 1 .. PoolSize, Due(d, current), Starts(d, s)
      PROVE  /\ inflight' \in Slots /\ queue' \in [Docs -> Queued]
             /\ readers' \in [1 .. PoolSize -> Readers] /\ lost' \in SUBSET Docs
  <2>1. RequestOf(d) \in Requests
    BY <1>3, RequestTyped DEF Due
  <2>2. [texts |-> overlay, file |-> file] \in Snapshots
    BY <1>1 DEF Snapshots
  <2>3. [phase |-> "running", request |-> RequestOf(d), cancelled |-> FALSE,
         snapshot |-> [texts |-> overlay, file |-> file]] \in Readers
    BY <2>1, <2>2 DEF Readers
  <2>4. NoRequest \in Queued
    BY DEF Queued
  <2>5. inflight' \in Slots
    BY <1>3, <2>1 DEF Starts, Slots
  <2> QED
    BY <1>1, <1>3, <2>3, <2>4, <2>5 DEF Starts
<1> QED
  BY <1>1, <1>2, <1>3, DispatchEffect

(* A reader ends its analysis.                                              *)
LEMMA FinishTyped ==
  ASSUME TypeOK, NEW s \in 1 .. PoolSize, readers[s].phase = "running", Finish(s)
  PROVE  /\ done' \in Seq(Requests) /\ readers' \in [1 .. PoolSize -> Readers]
         /\ readers[s].request \in Requests /\ readers[s].snapshot \in Snapshots
<1>1. readers \in [1 .. PoolSize -> Readers] /\ done \in Seq(Requests)
  BY Types
<1>2. readers[s].request \in Requests /\ readers[s].snapshot \in Snapshots
  BY <1>1 DEF Readers, Idle
<1>3. [phase |-> "returning"] \in Readers
  BY DEF Readers
<1> QED
  BY <1>1, <1>2, <1>3 DEF Finish

LEMMA RelintTyped ==
  ASSUME TypeInv, NEW at \in Nat, RelintAllOpen(at)
  PROVE  jobs' \in Seq(Jobs)
<1>1. PICK r \in Seq(Jobs) : jobs' = jobs \o r
  BY RelintJobs
<1>2. jobs \in Seq(Jobs)
  BY Types DEF TypeInv
<1> QED
  BY <1>1, <1>2

LEMMA TypeStep == ASSUME TypeInv, [Next]_vars PROVE TypeInv'
<1> USE DEF main, database, scheduler, acquisition
<1>0. /\ TypeOK /\ docs \in [Docs -> Documents]
      /\ stamp \in Nat /\ changes \in 0 .. MaxChanges /\ reported \in 0 .. MaxDisk
      /\ disk \in 1 .. MaxDisk /\ generation \in Nat
      /\ jobs \in Seq(Jobs) /\ out \in Seq(Outbound) /\ done \in Seq(Requests)
      /\ overlay \in [Docs -> Texts \cup {NoText}] /\ file \in Nat
      /\ inflight \in Slots /\ queue \in [Docs -> Queued]
      /\ wanted \in SUBSET Sources /\ plan \in Plans /\ seeded \in BOOLEAN
      /\ readers \in [1 .. PoolSize -> Readers]
      /\ shown \in [Docs -> Displays] /\ lost \in SUBSET Docs
      /\ wpc \in {"select", "drain", "write", "write files", "dispatch"}
  BY Types DEF TypeInv, TypeOK, Displays
<1>a. /\ stamp \in Nat /\ changes \in 0 .. MaxChanges /\ reported \in 0 .. MaxDisk
      /\ disk \in 1 .. MaxDisk /\ generation \in Nat /\ MaxChanges \in Nat /\ MaxDisk \in Nat
  BY <1>0, DiagnosticsAssumption
<1>b. jobs \in Seq(Jobs) /\ out \in Seq(Outbound) /\ done \in Seq(Requests)
  BY <1>0
<1>c. docs \in [Docs -> Documents] /\ readers \in [1 .. PoolSize -> Readers] /\ TypeOK
  BY <1>0
<1>d. plan \in Plans /\ wanted \in SUBSET Sources
  BY <1>0
<1>t. ASSUME /\ docs' \in [Docs -> Documents]
             /\ stamp' \in Nat /\ changes' \in 0 .. MaxChanges /\ reported' \in 0 .. MaxDisk
             /\ disk' \in 1 .. MaxDisk /\ generation' \in Nat
             /\ jobs' \in Seq(Jobs) /\ out' \in Seq(Outbound) /\ done' \in Seq(Requests)
             /\ overlay' \in [Docs -> Texts \cup {NoText}] /\ file' \in Nat
             /\ inflight' \in Slots /\ queue' \in [Docs -> Queued]
             /\ wanted' \in SUBSET Sources /\ plan' \in Plans /\ seeded' \in BOOLEAN
             /\ readers' \in [1 .. PoolSize -> Readers]
             /\ shown' \in [Docs -> Displays] /\ lost' \in SUBSET Docs
             /\ wpc' \in {"select", "drain", "write", "write files", "dispatch"},
             docs' = docs \/ IsFiniteSet(OpenDocs')
      PROVE  TypeInv'
  <2>1. IsFiniteSet(OpenDocs')
    BY <1>t DEF OpenDocs, Open, TypeInv
  <2>2. TypeOK'
    BY <1>t DEF TypeOK, Documents, Slots, Queued, Displays
  <2> QED
    BY <2>1, <2>2 DEF TypeInv
<1>1. ASSUME NEW d \in Docs, NEW text \in Texts, DidOpen(d, text)
      PROVE  TypeInv'
  <2> DEFINE document == [version |-> 1, text |-> text]
             job == EditJob(d, TRUE, document, stamp + 1)
  <2>1. document \in Documents
    BY DEF Documents
  <2>2. job \in Jobs
    <3>0. PICK v \in Nat \ {0} : v = 1
      OBVIOUS
    <3>1. job = [type |-> "edit", doc |-> d, opened |-> TRUE, text |-> text,
                 version |-> v, stamp |-> stamp + 1]
      BY <3>0 DEF EditJob
    <3>2. stamp + 1 \in Nat
      BY <1>a
    <3> HIDE DEF job
    <3> QED
      BY <3>1, <3>2, EditTyped
  <2>3. Accept(d, document, job)
    BY <1>1 DEF DidOpen
  <2> HIDE DEF document, job
  <2>4. /\ docs' \in [Docs -> Documents] /\ stamp' \in Nat /\ changes' \in 0 .. MaxChanges
        /\ jobs' \in Seq(Jobs) /\ IsFiniteSet(OpenDocs')
    BY <2>1, <2>2, <2>3, AcceptTyped
  <2> QED
    BY <1>0, <1>1, <1>t, <2>4 DEF DidOpen
<1>2. ASSUME NEW d \in Docs, NEW text \in Texts, DidChange(d, text)
      PROVE  TypeInv'
  <2> DEFINE document == [version |-> docs[d].version + 1, text |-> text]
             job == EditJob(d, FALSE, document, stamp + 1)
  <2>1. docs[d].version + 1 \in Nat \ {0}
    BY <1>c, <1>2, OpenDocument DEF DidChange
  <2>2. document \in Documents
    BY <2>1 DEF Documents
  <2>3. job \in Jobs
    <3>1. job = [type |-> "edit", doc |-> d, opened |-> FALSE, text |-> text,
                 version |-> docs[d].version + 1, stamp |-> stamp + 1]
      BY DEF EditJob
    <3>2. stamp + 1 \in Nat
      BY <1>a
    <3> HIDE DEF job
    <3> QED
      BY <2>1, <3>1, <3>2, EditTyped
  <2>4. Accept(d, document, job)
    BY <1>2 DEF DidChange
  <2> HIDE DEF document, job
  <2>5. /\ docs' \in [Docs -> Documents] /\ stamp' \in Nat /\ changes' \in 0 .. MaxChanges
        /\ jobs' \in Seq(Jobs) /\ IsFiniteSet(OpenDocs')
    BY <2>2, <2>3, <2>4, AcceptTyped
  <2> QED
    BY <1>0, <1>2, <1>t, <2>5 DEF DidChange
<1>3. CASE DidChangeIgnored
  <2>1. changes' \in 0 .. MaxChanges /\ stamp' \in Nat
    BY <1>a, <1>3 DEF DidChangeIgnored
  <2> QED
    BY <1>0, <1>3, <1>t, <2>1 DEF DidChangeIgnored
<1>4. ASSUME NEW d \in Docs, DidClose(d)
      PROVE  TypeInv'
  <2>1. Closed \in Documents /\ [type |-> "close", doc |-> d] \in Jobs
    BY DEF Documents, Jobs
  <2>2. /\ docs' \in [Docs -> Documents] /\ stamp' \in Nat /\ changes' \in 0 .. MaxChanges
        /\ jobs' \in Seq(Jobs) /\ IsFiniteSet(OpenDocs')
    BY <1>4, <2>1, AcceptTyped DEF DidClose
  <2>3. shown' \in [Docs -> Displays]
    BY <1>0, <1>4 DEF DidClose, Displays
  <2> QED
    BY <1>0, <1>4, <1>t, <2>2, <2>3 DEF DidClose
<1>5. CASE DiskChange
  <2>1. disk' \in 1 .. MaxDisk
    BY <1>a, <1>5 DEF DiskChange
  <2> QED
    BY <1>0, <1>5, <1>t, <2>1 DEF DiskChange
<1>6. CASE DidChangeWatchedFile
  <2>1. [type |-> "watched"] \in Jobs
    BY DEF Jobs
  <2>2. jobs' \in Seq(Jobs) /\ stamp' \in Nat
    BY <1>a, <1>b, <1>6, <2>1 DEF DidChangeWatchedFile
  <2>3. reported' \in 0 .. MaxDisk
    BY <1>a, <1>6 DEF DidChangeWatchedFile
  <2> QED
    BY <1>0, <1>6, <1>t, <2>2, <2>3 DEF DidChangeWatchedFile
<1>7. CASE TakeOutbound
  <2> DEFINE m == Head(out)
  <2>1. m \in Outbound /\ out' \in Seq(Outbound)
    BY <1>0, <1>7, HeadOf DEF TakeOutbound
  <2>2. stamp' \in Nat
    BY <1>a, <1>7 DEF TakeOutbound, ForwardDiagnostics, ForwardRelint
  <2>3. jobs' \in Seq(Jobs)
    BY <1>a, <1>b, <1>7, RelintTyped DEF TakeOutbound, ForwardDiagnostics, ForwardRelint
  <2>4. shown' \in [Docs -> Displays]
    <3>1. CASE shown' = shown
      BY <1>0, <3>1
    <3>2. CASE m.type = "diagnostics" /\ shown' = [shown EXCEPT ![m.doc] = [version |-> m.version, snapshot |-> m.snapshot]]
      <4>1. m.doc \in Docs /\ m.version \in Nat \ {0} /\ m.snapshot \in Snapshots
        BY <2>1, <3>2 DEF Outbound
      <4>2. [version |-> m.version, snapshot |-> m.snapshot] \in Displays
        BY <4>1 DEF Displays
      <4> HIDE DEF m
      <4> QED
        BY <1>0, <3>2, <4>2
    <3> QED
      BY <1>7, <3>1, <3>2 DEF TakeOutbound, ForwardDiagnostics, ForwardRelint
  <2> QED
    BY <1>0, <1>7, <1>t, <2>1, <2>2, <2>3, <2>4 DEF TakeOutbound
<1>8. CASE WorkerCancel
  <2>1. readers' \in [1 .. PoolSize -> Readers]
    <3>1. ASSUME NEW s \in 1 .. PoolSize, readers[s].phase = "running"
          PROVE  [readers[s] EXCEPT !.cancelled = TRUE] \in Readers
      BY <1>c, <3>1 DEF Readers, Idle
    <3>2. DOMAIN readers = 1 .. PoolSize
      BY <1>0
    <3> QED
      BY <1>0, <1>8, <3>1, <3>2 DEF WorkerCancel, Holders
  <2>2. wpc' \in {"write", "write files"}
    BY <1>8 DEF WorkerCancel
  <2> QED
    BY <1>0, <1>8, <1>t, <2>1, <2>2 DEF WorkerCancel
<1>9. ASSUME NEW grows \in BOOLEAN, HandleEdit(grows)
      PROVE  TypeInv'
  <2> DEFINE job == Head(jobs)
  <2>1. job \in EditJobs /\ jobs' \in Seq(Jobs)
    BY <1>b, <1>9, HeadOf DEF HandleEdit, Handles, Jobs
  <2>2. overlay' \in [Docs -> Texts \cup {NoText}]
    BY <1>0, <1>9, <2>1 DEF HandleEdit, EditJobs
  <2>3. queue' \in [Docs -> Queued]
    <3>1. [version |-> job.version, stamp |-> job.stamp] \in Queued
      BY <2>1 DEF Queued, EditJobs
    <3>2. queue' = queue \/ queue' = [queue EXCEPT ![job.doc] = [version |-> job.version, stamp |-> job.stamp]]
      BY <1>9 DEF HandleEdit, Enqueue
    <3> HIDE DEF job
    <3> QED
      BY <1>0, <3>1, <3>2
  <2>4. /\ wanted' \in SUBSET Sources /\ generation' \in Nat /\ plan' \in Plans
    <3>1. PICK want \in SUBSET Sources : AcquireFiles(want, generation, plan)
      BY <1>0, <1>9 DEF HandleEdit, Sources
    <3> QED
      BY <1>0, <3>1, AcquireEffect
  <2> HIDE DEF job
  <2> QED
    BY <1>0, <1>9, <1>t, <2>1, <2>2, <2>3, <2>4 DEF HandleEdit
<1>10. ASSUME NEW source \in Sources, RefreshBacking(source)
       PROVE  wanted' \in SUBSET Sources /\ generation' \in Nat /\ plan' \in Plans
  <2>1. wanted \cup {source} \in SUBSET Sources /\ generation + 1 \in Nat
    BY <1>a, <1>d
  <2> QED
    BY <1>0, <1>10, <2>1, AcquireEffect DEF RefreshBacking
<1>11. "document" \in Sources /\ "file" \in Sources
  BY DEF Sources
<1>12. CASE HandleClose
  <2>1. Head(jobs) \in [type : {"close"}, doc : Docs] /\ jobs' \in Seq(Jobs)
    BY <1>b, <1>12, HeadOf DEF HandleClose, Handles, Jobs, EditJobs
  <2>2. overlay' \in [Docs -> Texts \cup {NoText}]
    BY <1>0, <1>12, <2>1 DEF HandleClose
  <2>3. out' \in Seq(Outbound)
    <3>1. [type |-> "relint"] \in Outbound
      BY DEF Outbound
    <3> QED
      BY <1>b, <1>12, <3>1 DEF HandleClose
  <2>4. wanted' \in SUBSET Sources /\ generation' \in Nat /\ plan' \in Plans
    BY <1>10, <1>11, <1>12 DEF HandleClose
  <2> QED
    BY <1>0, <1>12, <1>t, <2>1, <2>2, <2>3, <2>4 DEF HandleClose
<1>13. CASE HandleWatched
  <2>1. jobs' \in Seq(Jobs)
    BY <1>0, <1>13, HeadOf DEF HandleWatched, Handles
  <2>2. wanted' \in SUBSET Sources /\ generation' \in Nat /\ plan' \in Plans
    BY <1>10, <1>11, <1>13 DEF HandleWatched
  <2> QED
    BY <1>0, <1>13, <1>t, <2>1, <2>2 DEF HandleWatched
<1>14. CASE CompleteFiles
  <2>1. plan.sources \in SUBSET Sources /\ plan.file \in Nat
    <3>1. plan.state = "read"
      BY <1>14 DEF CompleteFiles, HandlesFiles
    <3> QED
      BY <1>d, <3>1 DEF Plans, NoPlan
  <2>2. file' \in Nat
    BY <1>0, <1>14, <2>1 DEF CompleteFiles
  <2>3. out' \in Seq(Outbound)
    <3>1. [type |-> "relint"] \in Outbound
      BY DEF Outbound
    <3> QED
      BY <1>b, <1>14, <3>1 DEF CompleteFiles
  <2>4. wanted' \in SUBSET Sources /\ generation' \in Nat /\ plan' \in Plans
    <3>1. PICK want \in SUBSET Sources : AcquireFiles(want, generation, NoPlan)
      BY <1>0, <1>14, <2>1 DEF CompleteFiles
    <3>2. NoPlan \in Plans
      BY DEF Plans
    <3> QED
      BY <1>0, <3>1, <3>2, AcquireEffect
  <2> QED
    BY <1>0, <1>14, <1>t, <2>2, <2>3, <2>4 DEF CompleteFiles
<1>15. ASSUME NEW current \in Slots, TryDispatch(current)
       PROVE  /\ inflight' \in Slots /\ queue' \in [Docs -> Queued]
              /\ readers' \in [1 .. PoolSize -> Readers] /\ lost' \in SUBSET Docs
  BY <1>0, <1>15, DispatchTyped
<1>16. CASE WorkerDispatch \/ WorkerTick
  <2>1. TryDispatch(inflight) /\ (wpc' = "select" \/ wpc' = wpc)
    BY <1>16 DEF WorkerDispatch, WorkerTick
  <2> QED
    BY <1>0, <1>15, <1>16, <1>t, <2>1 DEF WorkerDispatch, WorkerTick
<1>17. CASE WorkerDone
  <2>1. PICK current \in Slots : TryDispatch(current)
    BY <1>0, <1>17 DEF WorkerDone, Slots
  <2>2. done' \in Seq(Requests)
    BY <1>0, <1>17, HeadOf DEF WorkerDone
  <2> QED
    BY <1>0, <1>15, <1>17, <1>t, <2>1, <2>2 DEF WorkerDone
<1>18. ASSUME NEW observed \in BOOLEAN, ReadPlan(observed)
       PROVE  TypeInv'
  <2>1. plan.sources \in SUBSET Sources /\ plan.token \in Nat /\ disk \in Nat
    BY <1>a, <1>d, <1>18 DEF ReadPlan, Plans, NoPlan
  <2>2. plan' \in Plans
    BY <1>18, <2>1 DEF ReadPlan, Plans
  <2> QED
    BY <1>0, <1>18, <1>t, <2>2 DEF ReadPlan
<1>19. ASSUME NEW s \in 1 .. PoolSize, Read(s)
       PROVE  TypeInv'
  <2>1. CASE Publish(s)
    <3>1. /\ done' \in Seq(Requests) /\ readers' \in [1 .. PoolSize -> Readers]
          /\ readers[s].request \in Requests /\ readers[s].snapshot \in Snapshots
      BY <1>0, <2>1, FinishTyped DEF Publish
    <3>2. [type |-> "diagnostics", doc |-> readers[s].request.doc,
           version |-> readers[s].request.version, stamp |-> readers[s].request.stamp,
           snapshot |-> readers[s].snapshot] \in Outbound
      BY <3>1 DEF Outbound, Requests
    <3>3. out' \in Seq(Outbound)
      BY <1>b, <2>1, <3>2 DEF Publish
    <3> QED
      BY <1>0, <1>t, <2>1, <3>1, <3>3 DEF Publish
  <2>2. CASE Unwind(s)
    <3>1. /\ done' \in Seq(Requests) /\ readers' \in [1 .. PoolSize -> Readers]
          /\ readers[s].request \in Requests
      BY <1>0, <2>2, FinishTyped DEF Unwind
    <3>2. lost' \in SUBSET Docs
      BY <1>0, <2>2, <3>1 DEF Unwind, Requests
    <3> QED
      BY <1>0, <1>t, <2>2, <3>1, <3>2 DEF Unwind
  <2>3. CASE Return(s)
    <3>1. readers' \in [1 .. PoolSize -> Readers]
      <4>1. Idle \in Readers
        BY DEF Readers
      <4> QED
        BY <1>0, <2>3, <4>1 DEF Return
    <3> QED
      BY <1>0, <1>t, <2>3, <3>1 DEF Return
  <2> QED
    BY <1>19, <2>1, <2>2, <2>3 DEF Read
<1>20. CASE UNCHANGED vars
  BY <1>0, <1>20, <1>t DEF vars
<1> QED
  BY <1>1, <1>2, <1>3, <1>4, <1>5, <1>6, <1>7, <1>8, <1>9, <1>12, <1>13, <1>14, <1>16, <1>17,
     <1>18, <1>19, <1>20 DEF Next, Editor, Work, Wait

LEMMA TypeInit == Init => TypeInv
<1> SUFFICES ASSUME Init PROVE TypeInv
  OBVIOUS
<1>1. TypeOK
  <2>1. docs \in [Docs -> {Closed}] /\ queue \in [Docs -> {NoRequest}] /\ shown \in [Docs -> {Nothing}]
        /\ overlay \in [Docs -> {NoText}] /\ readers \in [1 .. PoolSize -> Readers]
    BY DEF Init, Readers
  <2>2. changes \in 0 .. MaxChanges /\ reported \in 0 .. MaxDisk /\ disk \in 1 .. MaxDisk
        /\ file \in Nat /\ stamp \in Nat /\ generation \in Nat
    BY DiagnosticsAssumption DEF Init, NoFile
  <2>3. jobs \in Seq(Jobs) /\ out \in Seq(Outbound) /\ done \in Seq(Requests)
    BY DEF Init
  <2>4. plan \in Plans
    BY DEF Init, Plans
  <2> QED
    BY <2>1, <2>2, <2>3, <2>4 DEF Init, TypeOK
<1>2. OpenDocs = {}
  BY DEF Init, OpenDocs, Open, Closed
<1> QED
  BY <1>1, <1>2, FS_EmptySet DEF TypeInv

(* The state keeps its shape: channels, requests, plans and readers, for    *)
(* every set of documents and every pool, whatever the editor sends.        *)
THEOREM TypeCorrect == Spec => []TypeOK
<1>1. TypeInv /\ [Next]_vars => TypeInv'
  BY TypeStep
<1>2. TypeInv => TypeOK
  BY DEF TypeInv
<1> QED
  BY <1>1, <1>2, TypeInit, PTL DEF Spec

LEMMA TypeInvariant == Spec => []TypeInv
<1>1. TypeInv /\ [Next]_vars => TypeInv'
  BY TypeStep
<1> QED
  BY <1>1, TypeInit, PTL DEF Spec

(* A document the editor has closed shows nothing, however late a result    *)
(* for it comes out of the pool and the channels.                           *)
THEOREM ClosedStaysEmpty == Spec => []ClosedShowsNothing
<1>1. Init => ClosedShowsNothing
  BY DEF Init, ClosedShowsNothing
<1>2. ASSUME TypeInv, ClosedShowsNothing, [Next]_vars
      PROVE  ClosedShowsNothing'
  <2>1. docs \in [Docs -> Documents] /\ shown \in [Docs -> Displays] /\ out \in Seq(Outbound)
    BY <1>2, Types DEF TypeInv, TypeOK, Displays
  <2>2. CASE UNCHANGED <<docs, shown>>
    BY <1>2, <2>2 DEF ClosedShowsNothing, Open
  <2>3. ASSUME NEW d \in Docs, NEW text \in Texts, DidOpen(d, text) \/ DidChange(d, text)
        PROVE  ClosedShowsNothing'
    <3>1. PICK v \in Nat \ {0} : docs' = [docs EXCEPT ![d] = [version |-> v, text |-> text]]
      <4>1. CASE DidOpen(d, text)
        <5>1. 1 \in Nat \ {0}
          OBVIOUS
        <5> QED
          BY <4>1, <5>1 DEF DidOpen, Accept
      <4>2. CASE DidChange(d, text)
        <5>1. docs[d].version + 1 \in Nat \ {0}
          BY <1>2, <4>2, OpenDocument DEF TypeInv, DidChange
        <5> QED
          BY <4>2, <5>1 DEF DidChange, Accept
      <4> QED
        BY <2>3, <4>1, <4>2
    <3>2. shown' = shown
      BY <2>3 DEF DidOpen, DidChange
    <3>3. \A e \in Docs : docs'[e] = docs[e] \/ docs'[e].version = v
      BY <2>1, <3>1
    <3> QED
      BY <1>2, <3>2, <3>3 DEF ClosedShowsNothing, Open
  <2>4. ASSUME NEW d \in Docs, DidClose(d)
        PROVE  ClosedShowsNothing'
    <3>1. docs' = [docs EXCEPT ![d] = Closed] /\ shown' = [shown EXCEPT ![d] = Nothing]
      BY <2>4 DEF DidClose, Accept
    <3> QED
      BY <1>2, <2>1, <3>1 DEF ClosedShowsNothing, Open
  <2>5. CASE TakeOutbound
    <3> DEFINE m == Head(out)
    <3>1. m \in Outbound /\ docs' = docs
      BY <2>1, <2>5, HeadOf DEF TakeOutbound
    <3>2. CASE shown' = shown
      BY <2>2, <3>1, <3>2
    <3>3. CASE /\ m.type = "diagnostics" /\ docs[m.doc].version = m.version
               /\ shown' = [shown EXCEPT ![m.doc] = [version |-> m.version, snapshot |-> m.snapshot]]
      <4>1. m.doc \in Docs /\ m.version \in Nat \ {0}
        BY <3>1, <3>3 DEF Outbound
      <4>2. Open(m.doc)
        BY <3>3, <4>1 DEF Open
      <4> HIDE DEF m
      <4>3. \A d \in Docs : shown'[d] = shown[d] \/ d = m.doc
        BY <2>1, <3>3
      <4> QED
        BY <1>2, <3>1, <4>2, <4>3 DEF ClosedShowsNothing, Open
    <3> QED
      BY <2>5, <3>2, <3>3 DEF TakeOutbound, ForwardDiagnostics, ForwardRelint
  <2> QED
    BY <1>2, <2>2, <2>3, <2>4, <2>5 DEF Next, Editor, DidChangeIgnored, DiskChange,
       DidChangeWatchedFile, Work, WorkerCancel, HandleEdit, HandleClose, HandleWatched,
       CompleteFiles, WorkerDispatch, WorkerTick, WorkerDone, ReadPlan, Read, Publish, Unwind,
       Return, Wait, vars, main
<1> QED
  BY <1>1, <1>2, TypeInvariant, PTL DEF Spec

-----------------------------------------------------------------------------
(* What the editor shows next is of its own present.  The argument follows  *)
(* a stamp: a job that carries the present one was sent after the last      *)
(* notification, so that it is handled after every change of a text; its    *)
(* request waits for the contents of the file that the watcher reported;    *)
(* and its snapshot is taken from that database.                            *)

(* What a job says about the text of a document: a close takes it away.     *)
About(job, e) == job.type \in {"edit", "close"} /\ job.doc = e
TextOf(job) == IF job.type = "edit" THEN job.text ELSE NoText

(* Handling the first n jobs of q leaves document e with a text, if it has  *)
(* the text o before: the last word of the jobs, or of the database.        *)
Ends(q, n, o, e, text) ==
  \E i \in 0 .. n :
    /\ IF i = 0 THEN o = text ELSE About(q[i], e) /\ TextOf(q[i]) = text
    /\ \A j \in i + 1 .. n : About(q[j], e) => TextOf(q[j]) = text

(* ... and all documents with the texts x that the main loop has.           *)
Reaches(q, n, o, x) == \A e \in Docs : Ends(q, n, o[e], e, x[e].text)

(* The jobs from the n-th on repeat the texts that documents have.          *)
Repeats(q, n, x) ==
  \A j \in DOMAIN q : j >= n => q[j].type = "edit" /\ q[j].text = x[q[j].doc].text

(* The jobs lead to the texts of the main loop, and those that carry the    *)
(* present stamp follow every change of a text.                             *)
JobsInv ==
  /\ Reaches(jobs, Len(jobs), overlay, docs)
  /\ \A i \in DOMAIN jobs : jobs[i].type = "edit" =>
       /\ jobs[i].stamp <= stamp
       /\ jobs[i].stamp = stamp => Reaches(jobs, i, overlay, docs) /\ Repeats(jobs, i, docs)

(* A request with the present stamp finds the database up to date.          *)
Settled(q, o, x) == Reaches(q, 0, o, x) /\ Repeats(q, 1, x)

QueueInv ==
  \A d \in Docs : queue[d].version > 0 =>
    /\ queue[d].stamp <= stamp
    /\ queue[d].stamp = stamp => Settled(jobs, overlay, docs)

LEMMA EndsPrefix ==
  ASSUME NEW q, NEW r, NEW n \in Nat, \A i \in 1 .. n : r[i] = q[i],
         NEW o, NEW e, NEW text, Ends(q, n, o, e, text)
  PROVE  Ends(r, n, o, e, text)
<1>1. PICK i \in 0 .. n :
        /\ IF i = 0 THEN o = text ELSE About(q[i], e) /\ TextOf(q[i]) = text
        /\ \A j \in i + 1 .. n : About(q[j], e) => TextOf(q[j]) = text
  BY DEF Ends
<1>2. i # 0 => i \in 1 .. n
  OBVIOUS
<1>3. \A j \in i + 1 .. n : j \in 1 .. n
  OBVIOUS
<1> QED
  BY <1>1, <1>2, <1>3 DEF Ends

LEMMA EndsLater ==
  ASSUME NEW q, NEW n \in Nat, NEW k \in Nat, n <= k,
         NEW o, NEW e, NEW text, Ends(q, n, o, e, text),
         \A j \in n + 1 .. k : About(q[j], e) => TextOf(q[j]) = text
  PROVE  Ends(q, k, o, e, text)
<1>1. PICK i \in 0 .. n :
        /\ IF i = 0 THEN o = text ELSE About(q[i], e) /\ TextOf(q[i]) = text
        /\ \A j \in i + 1 .. n : About(q[j], e) => TextOf(q[j]) = text
  BY DEF Ends
<1>2. i \in 0 .. k /\ \A j \in i + 1 .. k : j \in i + 1 .. n \/ j \in n + 1 .. k
  OBVIOUS
<1> QED
  BY <1>1, <1>2 DEF Ends

LEMMA EndsLast ==
  ASSUME NEW q, NEW n \in Nat \ {0}, NEW o, NEW e, About(q[n], e)
  PROVE  Ends(q, n, o, e, TextOf(q[n]))
<1>1. n \in 0 .. n /\ n # 0 /\ \A j \in n + 1 .. n : FALSE
  OBVIOUS
<1> QED
  BY <1>1 DEF Ends

LEMMA EndsTail ==
  ASSUME NEW q \in Seq(Jobs), q # <<>>, NEW n \in 1 .. Len(q),
         NEW o, NEW e, NEW text, Ends(q, n, o, e, text)
  PROVE  Ends(Tail(q), n - 1, IF About(Head(q), e) THEN TextOf(Head(q)) ELSE o, e, text)
<1> DEFINE r == Tail(q)
           p == IF About(Head(q), e) THEN TextOf(Head(q)) ELSE o
<1>1. PICK i \in 0 .. n :
        /\ IF i = 0 THEN o = text ELSE About(q[i], e) /\ TextOf(q[i]) = text
        /\ \A j \in i + 1 .. n : About(q[j], e) => TextOf(q[j]) = text
  BY DEF Ends
<1>2. /\ Head(q) = q[1] /\ Len(q) \in Nat
      /\ \A j \in 1 .. n - 1 : r[j] = q[j + 1] /\ j + 1 \in 2 .. n
  BY HeadOf
<1> HIDE DEF r
<1>3. CASE i > 1
  <2>1. i - 1 \in 1 .. n - 1 /\ i - 1 \in 0 .. n - 1 /\ i - 1 # 0 /\ (i - 1) + 1 = i
    BY <1>3
  <2>2. About(r[i - 1], e) /\ TextOf(r[i - 1]) = text
    BY <1>1, <1>2, <1>3, <2>1
  <2>3. ASSUME NEW j \in (i - 1) + 1 .. n - 1
        PROVE  About(r[j], e) => TextOf(r[j]) = text
    <3>1. j \in 1 .. n - 1 /\ j + 1 \in i + 1 .. n
      BY <1>3
    <3> QED
      BY <1>1, <1>2, <3>1
  <2> QED
    BY <2>1, <2>2, <2>3 DEF Ends, r
<1>4. CASE i <= 1
  <2>1. p = text
    <3>1. CASE i = 0
      <4>1. 1 \in i + 1 .. n
        BY <3>1
      <4> QED
        BY <1>1, <1>2, <3>1, <4>1
    <3>2. CASE i = 1
      BY <1>1, <1>2, <3>2
    <3> QED
      BY <1>4, <3>1, <3>2
  <2>2. ASSUME NEW j \in 1 .. n - 1
        PROVE  About(r[j], e) => TextOf(r[j]) = text
    <3>1. j + 1 \in i + 1 .. n
      BY <1>4
    <3> QED
      BY <1>1, <1>2, <3>1
  <2>3. 0 \in 0 .. n - 1 /\ 0 + 1 = 1
    OBVIOUS
  <2> HIDE DEF p
  <2>4. Ends(r, n - 1, p, e, text)
    BY <2>1, <2>2, <2>3 DEF Ends
  <2> QED
    BY <2>4 DEF r, p
<1> QED
  BY <1>3, <1>4

LEMMA EndsZero == ASSUME NEW q, NEW o, NEW e, NEW text PROVE Ends(q, 0, o, e, text) <=> o = text
<1>1. \A i \in 0 .. 0 : i = 0
  OBVIOUS
<1>2. 0 \in 0 .. 0 /\ \A j \in 0 + 1 .. 0 : FALSE
  OBVIOUS
<1> QED
  BY <1>1, <1>2 DEF Ends

(* The first job is handled.                                                *)
LEMMA ReachesTail ==
  ASSUME NEW q \in Seq(Jobs), q # <<>>, NEW n \in 1 .. Len(q), NEW o, NEW p, NEW x,
         \A e \in Docs : p[e] = IF About(Head(q), e) THEN TextOf(Head(q)) ELSE o[e],
         Reaches(q, n, o, x)
  PROVE  Reaches(Tail(q), n - 1, p, x)
BY EndsTail DEF Reaches

(* More jobs are sent.                                                      *)
LEMMA ReachesPrefix ==
  ASSUME NEW q, NEW r, NEW n \in Nat, \A i \in 1 .. n : r[i] = q[i], NEW o, NEW x,
         Reaches(q, n, o, x)
  PROVE  Reaches(r, n, o, x)
BY EndsPrefix DEF Reaches

LEMMA ReachesLater ==
  ASSUME NEW q, NEW n \in Nat, NEW k \in Nat, n <= k, NEW o, NEW x, Reaches(q, n, o, x),
         \A j \in n + 1 .. k : q[j].type = "edit" /\ q[j].text = x[q[j].doc].text
  PROVE  Reaches(q, k, o, x)
<1>1. ASSUME NEW e \in Docs
      PROVE  Ends(q, k, o[e], e, x[e].text)
  <2>1. Ends(q, n, o[e], e, x[e].text)
    BY DEF Reaches
  <2>2. \A j \in n + 1 .. k : About(q[j], e) => TextOf(q[j]) = x[e].text
    BY DEF About, TextOf
  <2> QED
    BY <2>1, <2>2, EndsLater
<1> QED
  BY <1>1 DEF Reaches

(* A notification about a document, or about the file.                      *)
LEMMA NotifyKeepsTexts ==
  ASSUME TypeOK, JobsInv, QueueInv, NEW job \in Jobs,
         jobs' = Append(jobs, job), stamp' = stamp + 1, UNCHANGED <<overlay, queue>>,
         job.type = "edit" => job.stamp = stamp + 1,
         \A e \in Docs : IF About(job, e) THEN TextOf(job) = docs'[e].text ELSE docs'[e] = docs[e]
  PROVE  JobsInv' /\ QueueInv'
<1> DEFINE n == Len(jobs)
<1>1. jobs \in Seq(Jobs) /\ stamp \in Nat
  BY Types
<1>2. /\ n \in Nat /\ DOMAIN jobs = 1 .. n /\ DOMAIN jobs' = 1 .. n + 1 /\ Len(jobs') = n + 1
      /\ jobs'[n + 1] = job /\ \A i \in 1 .. n : jobs'[i] = jobs[i]
  BY <1>1, AppendOf
<1> HIDE DEF n
<1>3. Reaches(jobs', n + 1, overlay, docs')
  <2>1. ASSUME NEW e \in Docs
        PROVE  Ends(jobs', n + 1, overlay[e], e, docs'[e].text)
    <3>1. CASE About(job, e)
      <4>1. n + 1 \in Nat \ {0}
        BY <1>2
      <4> QED
        BY <1>2, <3>1, <4>1, EndsLast
    <3>2. CASE ~About(job, e)
      <4>1. Ends(jobs, n, overlay[e], e, docs[e].text)
        BY DEF JobsInv, Reaches, n
      <4>2. Ends(jobs', n, overlay[e], e, docs'[e].text)
        BY <1>2, <3>2, <4>1, EndsPrefix
      <4>3. n <= n + 1 /\ n + 1 \in Nat /\ \A j \in n + 1 .. n + 1 : j = n + 1
        BY <1>2
      <4> QED
        BY <1>2, <3>2, <4>2, <4>3, EndsLater
    <3> QED
      BY <3>1, <3>2
  <2> QED
    BY <2>1 DEF Reaches
<1>4. ASSUME NEW i \in DOMAIN jobs', jobs'[i].type = "edit"
      PROVE  /\ jobs'[i].stamp <= stamp'
             /\ jobs'[i].stamp = stamp' => Reaches(jobs', i, overlay, docs') /\ Repeats(jobs', i, docs')
  <2>1. CASE i \in 1 .. n
    <3>1. jobs'[i].stamp <= stamp /\ jobs'[i].stamp \in Nat
      BY <1>1, <1>2, <1>4, <2>1 DEF JobsInv, Jobs, EditJobs
    <3> QED
      BY <1>1, <3>1
  <2>2. CASE i = n + 1
    <3>1. jobs'[i] = job /\ job.type = "edit" /\ job.doc \in Docs
      BY <1>2, <1>4, <2>2 DEF Jobs, EditJobs
    <3>2. job.text = docs'[job.doc].text
      BY <3>1 DEF About, TextOf
    <3>3. \A j \in DOMAIN jobs' : j >= i => j = i
      BY <1>2, <2>2
    <3> QED
      BY <1>1, <1>3, <2>2, <3>1, <3>2, <3>3 DEF Repeats
  <2> QED
    BY <1>2, <2>1, <2>2
<1>5. JobsInv'
  BY <1>2, <1>3, <1>4 DEF JobsInv
<1>6. QueueInv'
  <2>1. ASSUME NEW d \in Docs, queue[d].version > 0
        PROVE  queue[d].stamp \in Nat /\ queue[d].stamp <= stamp
    BY <2>1, Types DEF QueueInv, Queued, NoRequest
  <2> QED
    BY <1>1, <2>1 DEF QueueInv
<1> QED
  BY <1>5, <1>6

(* Every open document is analysed again, under the same or a new stamp.    *)
LEMMA RelintKeepsTexts ==
  ASSUME TypeOK, JobsInv, QueueInv, NEW r \in Seq(Jobs),
         jobs' = jobs \o r, stamp' \in {stamp, stamp + 1},
         \A k \in DOMAIN r : RelintJob(r[k], stamp'), UNCHANGED <<docs, overlay, queue>>
  PROVE  JobsInv' /\ QueueInv'
<1> DEFINE n == Len(jobs)
           m == n + Len(r)
<1>1. jobs \in Seq(Jobs) /\ stamp \in Nat
  BY Types
<1>2. /\ n \in Nat /\ m \in Nat /\ n <= m
      /\ DOMAIN jobs = 1 .. n /\ DOMAIN jobs' = 1 .. m /\ Len(jobs') = m
      /\ \A i \in 1 .. n : jobs'[i] = jobs[i]
      /\ \A i \in n + 1 .. m : RelintJob(jobs'[i], stamp')
  <2>1. /\ n \in Nat /\ Len(r) \in Nat /\ DOMAIN jobs = 1 .. n /\ DOMAIN r = 1 .. Len(r)
        /\ DOMAIN jobs' = 1 .. n + Len(r) /\ Len(jobs') = n + Len(r)
        /\ \A i \in DOMAIN jobs : jobs'[i] = jobs[i]
        /\ \A k \in DOMAIN r : jobs'[n + k] = r[k]
    BY <1>1, ConcatOf
  <2>2. ASSUME NEW i \in n + 1 .. n + Len(r)
        PROVE  RelintJob(jobs'[i], stamp')
    <3>1. i - n \in DOMAIN r /\ n + (i - n) = i
      BY <2>1
    <3> QED
      BY <2>1, <3>1
  <2> QED
    BY <2>1, <2>2
<1> HIDE DEF n, m
<1>3. \A j \in n + 1 .. m : /\ jobs'[j].type = "edit" /\ jobs'[j].text = docs[jobs'[j].doc].text
                            /\ jobs'[j].stamp = stamp'
  BY <1>2 DEF RelintJob, EditJobs
<1>4. Reaches(jobs', n, overlay, docs)
  BY <1>2, ReachesPrefix DEF JobsInv, n
<1>5. ASSUME NEW i \in n .. m
      PROVE  Reaches(jobs', i, overlay, docs)
  <2>1. i \in Nat /\ n <= i /\ \A j \in n + 1 .. i : j \in n + 1 .. m
    BY <1>2
  <2> QED
    BY <1>2, <1>3, <1>4, <2>1, ReachesLater
<1>6. ASSUME NEW i \in Nat, Repeats(jobs, i, docs)
      PROVE  Repeats(jobs', i, docs)
  <2>1. ASSUME NEW j \in DOMAIN jobs', j >= i
        PROVE  jobs'[j].type = "edit" /\ jobs'[j].text = docs[jobs'[j].doc].text
    <3>1. j \in 1 .. n \/ j \in n + 1 .. m
      BY <1>2
    <3> QED
      BY <1>2, <1>3, <1>6, <2>1, <3>1 DEF Repeats
  <2> QED
    BY <2>1 DEF Repeats
<1>7. ASSUME NEW i \in DOMAIN jobs', jobs'[i].type = "edit"
      PROVE  /\ jobs'[i].stamp <= stamp'
             /\ jobs'[i].stamp = stamp' => Reaches(jobs', i, overlay, docs) /\ Repeats(jobs', i, docs)
  <2>1. CASE i \in 1 .. n
    <3>1. jobs'[i].stamp <= stamp /\ jobs'[i].stamp \in Nat
      BY <1>1, <1>2, <1>7, <2>1 DEF JobsInv, Jobs, EditJobs
    <3>2. CASE jobs'[i].stamp = stamp
      <4>1. Reaches(jobs, i, overlay, docs) /\ Repeats(jobs, i, docs)
        BY <1>2, <1>7, <2>1, <3>2 DEF JobsInv
      <4>2. i \in Nat /\ \A j \in 1 .. i : jobs'[j] = jobs[j]
        BY <1>2, <2>1
      <4>3. Reaches(jobs', i, overlay, docs)
        BY <4>1, <4>2, ReachesPrefix
      <4> QED
        BY <1>1, <1>6, <3>2, <4>1, <4>2, <4>3
    <3>3. CASE jobs'[i].stamp # stamp
      BY <1>1, <3>1, <3>3
    <3> QED
      BY <3>2, <3>3
  <2>2. CASE i \in n + 1 .. m
    <3>1. i \in n .. m /\ \A j \in DOMAIN jobs' : j >= i => j \in n + 1 .. m
      BY <1>2, <2>2
    <3>2. Repeats(jobs', i, docs)
      BY <1>3, <3>1 DEF Repeats
    <3> QED
      BY <1>1, <1>3, <1>5, <2>2, <3>1, <3>2
  <2> QED
    BY <1>2, <2>1, <2>2
<1>8. JobsInv'
  <2>1. m \in n .. m
    BY <1>2
  <2> QED
    BY <1>2, <1>5, <1>7, <2>1 DEF JobsInv
<1>9. QueueInv'
  <2>1. ASSUME NEW d \in Docs, queue[d].version > 0
        PROVE  queue[d].stamp <= stamp' /\ (queue[d].stamp = stamp' => Settled(jobs', overlay, docs))
    <3>1. queue[d].stamp \in Nat /\ queue[d].stamp <= stamp
      BY <2>1, Types DEF QueueInv, Queued, NoRequest
    <3>2. CASE queue[d].stamp = stamp
      <4>1. Reaches(jobs, 0, overlay, docs) /\ Repeats(jobs, 1, docs)
        BY <2>1, <3>2 DEF QueueInv, Settled
      <4>2. \A i \in 1 .. 0 : jobs'[i] = jobs[i]
        OBVIOUS
      <4>3. Reaches(jobs', 0, overlay, docs)
        BY <4>1, <4>2, ReachesPrefix
      <4> QED
        BY <1>1, <1>6, <3>2, <4>1, <4>3 DEF Settled
    <3>3. CASE queue[d].stamp # stamp
      BY <1>1, <3>1, <3>3
    <3> QED
      BY <3>2, <3>3
  <2> QED
    BY <2>1 DEF QueueInv
<1> QED
  BY <1>8, <1>9

(* The worker handles the first job.                                        *)
LEMMA HandleKeepsTexts ==
  ASSUME TypeOK, JobsInv, QueueInv, jobs # <<>>, jobs' = Tail(jobs), UNCHANGED <<docs, stamp>>,
         \A e \in Docs : overlay'[e] = IF About(Head(jobs), e) THEN TextOf(Head(jobs)) ELSE overlay[e],
         \A d \in Docs : queue'[d].version > 0 =>
           \/ queue'[d] = queue[d]
           \/ Head(jobs).type = "edit" /\ queue'[d].stamp = Head(jobs).stamp
  PROVE  JobsInv' /\ QueueInv'
<1> DEFINE n == Len(jobs)
           r == Tail(jobs)
           p == overlay'
<1>1. jobs \in Seq(Jobs) /\ stamp \in Nat
  BY Types
<1>2. /\ n \in Nat \ {0} /\ DOMAIN jobs = 1 .. n /\ DOMAIN r = 1 .. n - 1 /\ r \in Seq(Jobs)
      /\ Len(r) = n - 1 /\ Head(jobs) = jobs[1] /\ 1 \in 1 .. n
      /\ \A i \in 1 .. n - 1 : r[i] = jobs[i + 1] /\ i + 1 \in 1 .. n
  BY <1>1, HeadOf
<1>3. \A i \in 1 .. n : Reaches(jobs, i, overlay, docs) => Reaches(r, i - 1, p, docs)
  BY <1>1, ReachesTail
<1> HIDE DEF n, r, p
<1>4. ASSUME NEW i \in 1 .. n, Repeats(jobs, i, docs)
      PROVE  \A k \in Nat : k + 1 >= i => Repeats(r, k, docs)
  <2>1. ASSUME NEW k \in Nat, k + 1 >= i, NEW j \in DOMAIN r, j >= k
        PROVE  r[j].type = "edit" /\ r[j].text = docs[r[j].doc].text
    <3>1. r[j] = jobs[j + 1] /\ j + 1 \in DOMAIN jobs /\ j + 1 >= i
      BY <1>2, <2>1
    <3> QED
      BY <1>4, <3>1 DEF Repeats
  <2> QED
    BY <2>1 DEF Repeats
<1>5. ASSUME NEW i \in DOMAIN r, r[i].type = "edit"
      PROVE  /\ r[i].stamp <= stamp
             /\ r[i].stamp = stamp => Reaches(r, i, p, docs) /\ Repeats(r, i, docs)
  <2>1. i \in Nat /\ i + 1 \in 1 .. n /\ r[i] = jobs[i + 1] /\ (i + 1) - 1 = i
    BY <1>2
  <2>2. /\ jobs[i + 1].stamp <= stamp
        /\ jobs[i + 1].stamp = stamp =>
             Reaches(jobs, i + 1, overlay, docs) /\ Repeats(jobs, i + 1, docs)
    BY <1>2, <1>5, <2>1 DEF JobsInv
  <2>3. i + 1 >= i + 1
    BY <2>1
  <2> QED
    BY <1>3, <1>4, <2>1, <2>2, <2>3
<1>6. Reaches(r, Len(r), p, docs)
  <2>1. n \in 1 .. n
    BY <1>2
  <2> QED
    BY <1>2, <1>3, <2>1 DEF JobsInv, n
<1>7. JobsInv'
  BY <1>5, <1>6 DEF JobsInv, r, p
<1>8. ASSUME Settled(jobs, overlay, docs)
      PROVE  Settled(r, p, docs)
  <2>1. Repeats(jobs, 1, docs) /\ Reaches(jobs, 0, overlay, docs)
    BY <1>8 DEF Settled
  <2>2. \A j \in 0 + 1 .. 1 : j = 1
    OBVIOUS
  <2>3. 0 \in Nat /\ 1 \in Nat /\ 0 <= 1 /\ 1 >= 1 /\ 1 + 1 >= 1
    OBVIOUS
  <2>4. Reaches(jobs, 1, overlay, docs)
    BY <1>2, <2>1, <2>2, <2>3, ReachesLater DEF Repeats
  <2>5. Repeats(r, 1, docs)
    BY <1>2, <1>4, <2>1, <2>3
  <2>6. 1 - 1 = 0
    OBVIOUS
  <2> QED
    BY <1>2, <1>3, <2>4, <2>5, <2>6 DEF Settled
<1>9. ASSUME Head(jobs).type = "edit"
      PROVE  Head(jobs).stamp <= stamp /\ (Head(jobs).stamp = stamp => Settled(r, p, docs))
  <2>1. /\ jobs[1].stamp <= stamp
        /\ jobs[1].stamp = stamp => Reaches(jobs, 1, overlay, docs) /\ Repeats(jobs, 1, docs)
    BY <1>2, <1>9 DEF JobsInv
  <2>2. 1 - 1 = 0 /\ 1 + 1 >= 1 /\ 1 \in Nat
    OBVIOUS
  <2> QED
    BY <1>2, <1>3, <1>4, <2>1, <2>2 DEF Settled
<1>10. QueueInv'
  <2>1. ASSUME NEW d \in Docs, queue'[d].version > 0
        PROVE  queue'[d].stamp <= stamp /\ (queue'[d].stamp = stamp => Settled(r, p, docs))
    <3>1. CASE queue'[d] = queue[d]
      BY <1>8, <2>1, <3>1 DEF QueueInv
    <3>2. CASE Head(jobs).type = "edit" /\ queue'[d].stamp = Head(jobs).stamp
      BY <1>9, <3>2
    <3> QED
      BY <2>1, <3>1, <3>2
  <2> QED
    BY <2>1 DEF QueueInv, r, p
<1> QED
  BY <1>7, <1>10

(* Requests leave the queue.                                                *)
LEMMA DispatchKeepsTexts ==
  ASSUME JobsInv, QueueInv, UNCHANGED <<docs, stamp, jobs, overlay>>,
         \A d \in Docs : queue'[d].version > 0 => queue'[d] = queue[d]
  PROVE  JobsInv' /\ QueueInv'
<1>1. JobsInv'
  BY DEF JobsInv
<1>2. QueueInv'
  BY DEF QueueInv
<1> QED
  BY <1>1, <1>2

(* The queue after an edit, and after a dispatch.                           *)
LEMMA EnqueueEffect ==
  ASSUME TypeOK, NEW d \in Docs, NEW version \in Nat \ {0}, NEW at \in Nat, Enqueue(d, version, at)
  PROVE  /\ \A e \in Docs : e # d => queue'[e] = queue[e]
         /\ \/ queue[d].version >= version /\ queue'[d] = queue[d]
            \/ ~(queue[d].version >= version) /\ queue'[d] = [version |-> version, stamp |-> at]
BY Types DEF Enqueue

LEMMA DispatchShrinks ==
  ASSUME TypeOK, NEW current, TryDispatch(current)
  PROVE  \A d \in Docs : queue'[d].version > 0 => queue'[d] = queue[d]
<1>1. queue \in [Docs -> Queued]
  BY Types
<1>2. ASSUME NEW e \in Docs, queue' = [queue EXCEPT ![e] = NoRequest]
      PROVE  \A d \in Docs : queue'[d].version > 0 => queue'[d] = queue[d]
  <2>1. ~(NoRequest.version > 0)
    BY DEF NoRequest
  <2> QED
    BY <1>1, <1>2, <2>1
<1> QED
  BY <1>2, DispatchEffect DEF Starts

LEMMA TextInit == Init => JobsInv /\ QueueInv
<1> SUFFICES ASSUME Init PROVE JobsInv /\ QueueInv
  OBVIOUS
<1>1. Len(jobs) = 0 /\ DOMAIN jobs = {} /\ \A d \in Docs : overlay[d] = docs[d].text
  BY DEF Init, Closed
<1>2. \A d \in Docs : ~(queue[d].version > 0)
  BY DEF Init, NoRequest
<1> QED
  BY <1>1, <1>2, EndsZero DEF JobsInv, QueueInv, Reaches

LEMMA TextStep == ASSUME TypeInv, JobsInv, QueueInv, [Next]_vars PROVE JobsInv' /\ QueueInv'
<1> USE DEF main, database, scheduler, acquisition
<1>1. TypeOK
  BY DEF TypeInv
<1>2. docs \in [Docs -> Documents] /\ stamp \in Nat /\ jobs \in Seq(Jobs)
  BY <1>1, Types
<1>3. CASE UNCHANGED <<docs, jobs, overlay, queue>> /\ stamp' \in {stamp, stamp + 1}
  <2>1. <<>> \in Seq(Jobs) /\ jobs' = jobs \o <<>> /\ DOMAIN <<>> = {}
    BY <1>2, <1>3
  <2> QED
    BY <1>1, <1>3, <2>1, RelintKeepsTexts
<1>4. ASSUME NEW d \in Docs, NEW text \in Texts, DidOpen(d, text) \/ DidChange(d, text)
      PROVE  JobsInv' /\ QueueInv'
  <2>1. PICK v \in Nat \ {0}, opened \in BOOLEAN :
          Accept(d, [version |-> v, text |-> text], EditJob(d, opened, [version |-> v, text |-> text], stamp + 1))
    <3>1. CASE DidOpen(d, text)
      <4>1. 1 \in Nat \ {0}
        OBVIOUS
      <4> QED
        BY <3>1, <4>1 DEF DidOpen
    <3>2. CASE DidChange(d, text)
      <4>1. docs[d].version + 1 \in Nat \ {0}
        BY <1>1, <3>2, OpenDocument DEF DidChange
      <4> QED
        BY <3>2, <4>1 DEF DidChange
    <3> QED
      BY <1>4, <3>1, <3>2
  <2>2. PICK job \in Jobs : /\ job = [type |-> "edit", doc |-> d, opened |-> opened, text |-> text,
                                      version |-> v, stamp |-> stamp + 1]
    <3>1. stamp + 1 \in Nat
      BY <1>2
    <3>2. [type |-> "edit", doc |-> d, opened |-> opened, text |-> text,
           version |-> v, stamp |-> stamp + 1] \in Jobs
      BY <3>1, EditTyped
    <3> QED
      BY <3>2
  <2>3. jobs' = Append(jobs, job) /\ stamp' = stamp + 1 /\ docs' = [docs EXCEPT ![d] = [version |-> v, text |-> text]]
    BY <2>1, <2>2 DEF Accept, EditJob
  <2>4. job.type = "edit" /\ job.doc = d /\ job.text = text /\ job.stamp = stamp + 1
    BY <2>2
  <2>5. UNCHANGED <<overlay, queue>>
    BY <1>4 DEF DidOpen, DidChange
  <2>6. \A e \in Docs : IF About(job, e) THEN TextOf(job) = docs'[e].text ELSE docs'[e] = docs[e]
    BY <1>2, <2>3, <2>4 DEF About, TextOf
  <2> QED
    BY <1>1, <2>3, <2>4, <2>5, <2>6, NotifyKeepsTexts
<1>5. ASSUME NEW d \in Docs, DidClose(d)
      PROVE  JobsInv' /\ QueueInv'
  <2>1. PICK job \in Jobs : job = [type |-> "close", doc |-> d]
    BY DEF Jobs
  <2>2. /\ jobs' = Append(jobs, job) /\ stamp' = stamp + 1 /\ docs' = [docs EXCEPT ![d] = Closed]
        /\ UNCHANGED <<overlay, queue>>
    BY <1>5, <2>1 DEF DidClose, Accept
  <2>3. job.type = "close" /\ job.doc = d
    BY <2>1
  <2>4. \A e \in Docs : IF About(job, e) THEN TextOf(job) = docs'[e].text ELSE docs'[e] = docs[e]
    BY <1>2, <2>2, <2>3 DEF About, TextOf, Closed
  <2> QED
    BY <1>1, <2>2, <2>3, <2>4, NotifyKeepsTexts
<1>6. CASE DidChangeWatchedFile
  <2>1. PICK job \in Jobs : job = [type |-> "watched"]
    BY DEF Jobs
  <2>2. jobs' = Append(jobs, job) /\ stamp' = stamp + 1 /\ UNCHANGED <<docs, overlay, queue>>
    BY <1>6, <2>1 DEF DidChangeWatchedFile
  <2>3. job.type = "watched"
    BY <2>1
  <2> QED
    BY <1>1, <2>2, <2>3, NotifyKeepsTexts DEF About
<1>7. ASSUME RelintAllOpen(stamp'), stamp' \in {stamp, stamp + 1}, UNCHANGED <<docs, overlay, queue>>
      PROVE  JobsInv' /\ QueueInv'
  <2>1. PICK at \in Nat : at = stamp'
    BY <1>2, <1>7
  <2>2. PICK r \in Seq(Jobs) : jobs' = jobs \o r /\ \A k \in DOMAIN r : RelintJob(r[k], at)
    BY <1>7, <2>1, RelintJobs
  <2> QED
    BY <1>1, <1>7, <2>1, <2>2, RelintKeepsTexts
<1>8. CASE TakeOutbound
  <2>1. UNCHANGED <<docs, overlay, queue>>
    BY <1>8 DEF TakeOutbound
  <2>2. CASE ForwardRelint
    BY <1>7, <2>1, <2>2 DEF ForwardRelint
  <2>3. CASE ForwardDiagnostics(Head(out))
    BY <1>3, <1>7, <2>1, <2>3 DEF ForwardDiagnostics
  <2> QED
    BY <1>8, <2>2, <2>3 DEF TakeOutbound
<1>9. ASSUME NEW grows \in BOOLEAN, HandleEdit(grows)
      PROVE  JobsInv' /\ QueueInv'
  <2>1. jobs # <<>> /\ Head(jobs).type = "edit" /\ Head(jobs) \in Jobs
    BY <1>2, <1>9, HeadOf DEF HandleEdit, Handles
  <2>2. Head(jobs).doc \in Docs /\ Head(jobs).version \in Nat \ {0} /\ Head(jobs).stamp \in Nat
    BY <2>1 DEF Jobs, EditJobs
  <2>3. /\ jobs' = Tail(jobs) /\ UNCHANGED <<docs, stamp>>
        /\ overlay' = [overlay EXCEPT ![Head(jobs).doc] = Head(jobs).text]
        /\ Enqueue(Head(jobs).doc, Head(jobs).version, Head(jobs).stamp)
    BY <1>9 DEF HandleEdit
  <2>4. \A e \in Docs : overlay'[e] = IF About(Head(jobs), e) THEN TextOf(Head(jobs)) ELSE overlay[e]
    BY <1>1, <2>1, <2>2, <2>3, Types DEF About, TextOf
  <2>5. ASSUME NEW d \in Docs
        PROVE  \/ queue'[d] = queue[d]
               \/ Head(jobs).type = "edit" /\ queue'[d].stamp = Head(jobs).stamp
    <3>1. PICK e \in Docs, v \in Nat \ {0}, at \in Nat :
            e = Head(jobs).doc /\ v = Head(jobs).version /\ at = Head(jobs).stamp
      BY <2>2
    <3>2. \A c \in Docs : c # e => queue'[c] = queue[c]
      BY <1>1, <2>3, <3>1, EnqueueEffect
    <3>3. queue'[e] = queue[e] \/ queue'[e] = [version |-> v, stamp |-> at]
      BY <1>1, <2>3, <3>1, EnqueueEffect
    <3>4. queue'[e] = queue[e] \/ queue'[e].stamp = at
      BY <3>3
    <3> QED
      BY <2>1, <3>1, <3>2, <3>4
  <2> QED
    BY <1>1, <2>1, <2>3, <2>4, <2>5, HandleKeepsTexts
<1>10. CASE HandleClose
  <2>1. jobs # <<>> /\ Head(jobs).type = "close" /\ Head(jobs) \in Jobs
    BY <1>2, <1>10, HeadOf DEF HandleClose, Handles
  <2>2. Head(jobs).doc \in Docs
    BY <2>1 DEF Jobs, EditJobs
  <2>3. /\ jobs' = Tail(jobs) /\ UNCHANGED <<docs, stamp, queue>>
        /\ overlay' = [overlay EXCEPT ![Head(jobs).doc] = NoText]
    BY <1>10 DEF HandleClose
  <2>4. \A e \in Docs : overlay'[e] = IF About(Head(jobs), e) THEN TextOf(Head(jobs)) ELSE overlay[e]
    BY <1>1, <2>1, <2>2, <2>3, Types DEF About, TextOf
  <2> QED
    BY <1>1, <2>1, <2>3, <2>4, HandleKeepsTexts
<1>11. CASE HandleWatched
  <2>1. jobs # <<>> /\ Head(jobs).type = "watched" /\ jobs' = Tail(jobs)
        /\ UNCHANGED <<docs, stamp, queue, overlay>>
    BY <1>11 DEF HandleWatched, Handles
  <2> QED
    BY <1>1, <2>1, HandleKeepsTexts DEF About
<1>12. CASE WorkerDispatch \/ WorkerTick \/ WorkerDone
  <2>1. UNCHANGED <<docs, stamp, jobs, overlay>> /\ \E current : TryDispatch(current)
    BY <1>12 DEF WorkerDispatch, WorkerTick, WorkerDone
  <2> QED
    BY <1>1, <2>1, DispatchShrinks, DispatchKeepsTexts
<1>13. CASE \/ DidChangeIgnored \/ DiskChange \/ WorkerCancel \/ CompleteFiles
            \/ (\E observed \in BOOLEAN : ReadPlan(observed))
            \/ (\E s \in 1 .. PoolSize : Read(s)) \/ Wait \/ UNCHANGED vars
  <2>1. UNCHANGED <<docs, jobs, overlay, queue>> /\ stamp' \in {stamp, stamp + 1}
    BY <1>13 DEF DidChangeIgnored, DiskChange, WorkerCancel, CompleteFiles, ReadPlan, Read, Publish,
       Unwind, Return, Wait, vars
  <2> QED
    BY <1>3, <2>1
<1> QED
  BY <1>4, <1>5, <1>6, <1>8, <1>9, <1>10, <1>11, <1>12, <1>13 DEF Next, Editor, Work

-----------------------------------------------------------------------------
(* The included file.                                                       *)

(* What the watcher reported is in the database or will be read.            *)
WatchedComes == \E i \in DOMAIN jobs : jobs[i].type = "watched"

FileAwaited ==
  \/ WatchedComes
  \/ "file" \in wanted
  \/ /\ plan # NoPlan /\ "file" \in plan.sources
     /\ plan.state = "read" => plan.token # generation \/ plan.file >= reported

(* The database holds contents the file had, a plan will not take them      *)
(* back, and nothing is wanted without a plan in flight.                    *)
FileInv ==
  /\ reported <= disk /\ file <= disk
  /\ plan # NoPlan => plan.token <= generation
  /\ plan.state = "read" => file <= plan.file /\ plan.file <= disk
  /\ plan = NoPlan => wanted = {}
  /\ file >= reported \/ FileAwaited

LEMMA PlanTyped ==
  ASSUME TypeOK, plan # NoPlan
  PROVE  /\ plan.token \in Nat /\ plan.sources \in SUBSET Sources /\ plan.state \in {"queued", "read"}
         /\ plan.state = "read" => plan.file \in Nat
<1>1. plan \in Plans
  BY Types
<1> QED
  BY <1>1 DEF Plans

(* Sources are wanted, and perhaps the plan in flight superseded.           *)
LEMMA AcquireKeepsFile ==
  ASSUME TypeOK, FileInv, NEW want \in SUBSET Sources, NEW reserved \in Nat,
         AcquireFiles(want, reserved, plan), wanted \subseteq want, generation <= reserved,
         UNCHANGED <<disk, reported, file>>,
         WatchedComes => WatchedComes' \/ "file" \in want
  PROVE  FileInv'
<1>1. /\ plan \in Plans /\ generation \in Nat /\ reported \in Nat /\ disk \in Nat /\ file \in Nat
  BY Types
<1>2. \/ /\ plan' = plan /\ generation' = reserved /\ wanted' = want
         /\ plan # NoPlan \/ want = {}
      \/ /\ plan' # NoPlan /\ plan'.state = "queued" /\ plan'.sources = want
         /\ plan'.token = generation' /\ wanted' = {} /\ generation' \in Nat
         /\ ~(plan # NoPlan \/ want = {})
  <2>1. CASE plan # NoPlan \/ want = {}
    BY <2>1 DEF AcquireFiles
  <2>2. CASE ~(plan # NoPlan \/ want = {})
    <3>1. generation' = reserved + 1 /\ wanted' = {}
          /\ plan' = [state |-> "queued", token |-> reserved + 1, sources |-> want]
      BY <2>2 DEF AcquireFiles
    <3>2. plan' # NoPlan /\ plan'.state = "queued" /\ plan'.sources = want /\ plan'.token = generation'
      BY <3>1 DEF NoPlan
    <3> QED
      BY <2>2, <3>1, <3>2
  <2> QED
    BY <2>1, <2>2
<1>3. CASE plan' = plan /\ generation' = reserved /\ wanted' = want /\ (plan # NoPlan \/ want = {})
  <2>1. CASE plan = NoPlan
    <3>1. want = {} /\ wanted' = {} /\ plan' = NoPlan /\ NoPlan.state # "read"
      BY <1>3, <2>1 DEF NoPlan
    <3> QED
      BY <2>1, <3>1 DEF FileInv, FileAwaited
  <2>2. CASE plan # NoPlan
    <3>1. plan.token \in Nat /\ plan.token <= generation'
      BY <1>1, <1>3, <2>2, PlanTyped DEF FileInv
    <3>2. plan.token # generation => plan.token # generation'
      BY <1>1, <1>3, <2>2, <3>1 DEF FileInv
    <3>3. FileAwaited => FileAwaited'
      BY <1>3, <2>2, <3>2 DEF FileAwaited
    <3> QED
      BY <1>3, <2>2, <3>1, <3>3 DEF FileInv
  <2> QED
    BY <2>1, <2>2
<1>4. CASE /\ plan' # NoPlan /\ plan'.state = "queued" /\ plan'.sources = want
           /\ plan'.token = generation' /\ wanted' = {} /\ generation' \in Nat /\ plan = NoPlan
  <2>1. FileAwaited => FileAwaited'
    BY <1>4 DEF FileAwaited
  <2>2. plan'.token <= generation'
    BY <1>4
  <2> QED
    BY <1>4, <2>1, <2>2 DEF FileInv
<1> QED
  BY <1>2, <1>3, <1>4

LEMMA FileInit == Init => FileInv
BY DiagnosticsAssumption DEF Init, FileInv, NoFile, NoPlan

LEMMA WatchedTail ==
  ASSUME NEW q \in Seq(Jobs), q # <<>>, Head(q).type # "watched",
         \E i \in DOMAIN q : q[i].type = "watched"
  PROVE  \E i \in DOMAIN Tail(q) : Tail(q)[i].type = "watched"
<1>1. PICK i \in DOMAIN q : q[i].type = "watched"
  OBVIOUS
<1>2. i # 1
  BY <1>1, HeadOf
<1>3. i - 1 \in DOMAIN Tail(q) /\ Tail(q)[i - 1] = q[i]
  BY <1>2, HeadOf
<1> QED
  BY <1>1, <1>3

LEMMA FileStep == ASSUME TypeInv, FileInv, [Next]_vars PROVE FileInv'
<1> USE DEF main, database, scheduler, acquisition
<1>1. TypeOK
  BY DEF TypeInv
<1>2. /\ plan \in Plans /\ generation \in Nat /\ reported \in Nat /\ disk \in Nat /\ file \in Nat
      /\ jobs \in Seq(Jobs) /\ wanted \in SUBSET Sources /\ stamp \in Nat
  BY <1>1, Types
<1>3. ASSUME UNCHANGED <<reported, file, wanted, generation, plan>>, disk' \in {disk, disk + 1},
             WatchedComes => WatchedComes'
      PROVE  FileInv'
  <2>1. FileAwaited => FileAwaited'
    BY <1>3 DEF FileAwaited
  <2>2. plan.state = "read" => plan.file \in Nat
    BY <1>1, PlanTyped DEF NoPlan
  <2>3. reported <= disk' /\ file <= disk' /\ (plan.state = "read" => plan.file <= disk')
    BY <1>2, <1>3, <2>2 DEF FileInv
  <2> QED
    BY <1>3, <2>1, <2>3 DEF FileInv
<1>4. ASSUME NEW job \in Jobs, jobs' = Append(jobs, job)
      PROVE  /\ WatchedComes => WatchedComes'
             /\ job.type = "watched" => WatchedComes'
  BY <1>2, <1>4, AppendOf DEF WatchedComes
<1>5. ASSUME NEW d \in Docs, NEW text \in Texts, DidOpen(d, text) \/ DidChange(d, text)
      PROVE  FileInv'
  <2>1. PICK v \in Nat \ {0}, opened \in BOOLEAN :
          Accept(d, [version |-> v, text |-> text], EditJob(d, opened, [version |-> v, text |-> text], stamp + 1))
    <3>1. CASE DidOpen(d, text)
      <4>1. 1 \in Nat \ {0}
        OBVIOUS
      <4> QED
        BY <3>1, <4>1 DEF DidOpen
    <3>2. CASE DidChange(d, text)
      <4>1. docs[d].version + 1 \in Nat \ {0}
        BY <1>1, <3>2, OpenDocument DEF DidChange
      <4> QED
        BY <3>2, <4>1 DEF DidChange
    <3> QED
      BY <1>5, <3>1, <3>2
  <2>2. PICK job \in Jobs : /\ job = [type |-> "edit", doc |-> d, opened |-> opened, text |-> text,
                                      version |-> v, stamp |-> stamp + 1]
    <3>1. stamp + 1 \in Nat
      BY <1>2
    <3>2. [type |-> "edit", doc |-> d, opened |-> opened, text |-> text,
           version |-> v, stamp |-> stamp + 1] \in Jobs
      BY <3>1, EditTyped
    <3> QED
      BY <3>2
  <2>3. jobs' = Append(jobs, job)
    BY <2>1, <2>2 DEF Accept, EditJob
  <2>4. UNCHANGED <<reported, file, wanted, generation, plan, disk>>
    BY <1>5 DEF DidOpen, DidChange
  <2> QED
    BY <1>3, <1>4, <2>3, <2>4
<1>6. ASSUME NEW d \in Docs, DidClose(d)
      PROVE  FileInv'
  <2>1. PICK job \in Jobs : job = [type |-> "close", doc |-> d]
    BY DEF Jobs
  <2> QED
    BY <1>3, <1>4, <1>6, <2>1 DEF DidClose, Accept
<1>7. CASE DidChangeWatchedFile
  <2>1. PICK job \in Jobs : job = [type |-> "watched"]
    BY DEF Jobs
  <2>2. WatchedComes' /\ reported' = disk /\ UNCHANGED <<disk, file, wanted, generation, plan>>
    BY <1>4, <1>7, <2>1 DEF DidChangeWatchedFile
  <2> QED
    BY <1>2, <2>2 DEF FileInv, FileAwaited
<1>8. CASE TakeOutbound
  <2>1. CASE jobs' = jobs
    BY <1>3, <1>8, <2>1 DEF TakeOutbound, WatchedComes
  <2>2. ASSUME NEW at \in Nat, RelintAllOpen(at)
        PROVE  FileInv'
    <3>1. PICK r \in Seq(Jobs) : jobs' = jobs \o r
      BY <2>2, RelintJobs
    <3>2. WatchedComes => WatchedComes'
      BY <1>2, <3>1, ConcatOf DEF WatchedComes
    <3> QED
      BY <1>3, <1>8, <3>2 DEF TakeOutbound
  <2> QED
    BY <1>2, <1>8, <2>1, <2>2 DEF TakeOutbound, ForwardDiagnostics, ForwardRelint
<1>9. ASSUME NEW grows \in BOOLEAN, HandleEdit(grows)
      PROVE  FileInv'
  <2>1. PICK want \in SUBSET Sources : wanted \subseteq want /\ AcquireFiles(want, generation, plan)
    BY <1>2, <1>9 DEF HandleEdit, Sources
  <2>2. jobs # <<>> /\ jobs' = Tail(jobs) /\ Head(jobs).type = "edit" /\ UNCHANGED <<disk, reported, file>>
    BY <1>9 DEF HandleEdit, Handles
  <2>3. WatchedComes => WatchedComes'
    BY <1>2, <2>2, WatchedTail DEF WatchedComes
  <2>4. generation <= generation
    BY <1>2
  <2> QED
    BY <1>1, <1>2, <2>1, <2>2, <2>3, <2>4, AcquireKeepsFile
<1>10. CASE HandleClose
  <2>1. PICK want \in SUBSET Sources : wanted \subseteq want /\ AcquireFiles(want, generation + 1, plan)
    BY <1>2, <1>10 DEF HandleClose, RefreshBacking, Sources
  <2>2. jobs # <<>> /\ jobs' = Tail(jobs) /\ Head(jobs).type = "close" /\ UNCHANGED <<disk, reported, file>>
    BY <1>10 DEF HandleClose, Handles
  <2>3. WatchedComes => WatchedComes'
    BY <1>2, <2>2, WatchedTail DEF WatchedComes
  <2>4. generation <= generation + 1 /\ generation + 1 \in Nat
    BY <1>2
  <2> QED
    BY <1>1, <2>1, <2>2, <2>3, <2>4, AcquireKeepsFile
<1>11. CASE HandleWatched
  <2>1. PICK want \in SUBSET Sources :
          wanted \subseteq want /\ "file" \in want /\ AcquireFiles(want, generation + 1, plan)
    BY <1>2, <1>11 DEF HandleWatched, RefreshBacking, Sources
  <2>2. UNCHANGED <<disk, reported, file>>
    BY <1>11 DEF HandleWatched
  <2>3. generation <= generation + 1 /\ generation + 1 \in Nat
    BY <1>2
  <2> QED
    BY <1>1, <2>1, <2>2, <2>3, AcquireKeepsFile
<1>12. CASE CompleteFiles
  <2> DEFINE want == wanted \cup (IF Applied THEN {} ELSE plan.sources)
  <2>1. plan.state = "read" /\ plan # NoPlan
    <3>1. plan.state = "read"
      BY <1>12 DEF CompleteFiles, HandlesFiles
    <3> QED
      BY <3>1 DEF NoPlan
  <2>2. /\ plan.token \in Nat /\ plan.file \in Nat /\ plan.sources \in SUBSET Sources
        /\ file <= plan.file /\ plan.file <= disk
    BY <1>1, <2>1, PlanTyped DEF FileInv
  <2>3. /\ file' = IF NewContents THEN plan.file ELSE file
        /\ AcquireFiles(want, generation, NoPlan) /\ UNCHANGED <<disk, reported, jobs>>
    BY <1>12 DEF CompleteFiles
  <2>4. file' \in Nat /\ file <= file' /\ file' <= disk
    BY <1>2, <2>2, <2>3
  <2>5. WatchedComes => WatchedComes'
    BY <2>3 DEF WatchedComes
  <2>6. FileAwaited => file' >= reported \/ WatchedComes \/ "file" \in want
    <3>1. CASE "file" \in plan.sources /\ Applied /\ plan.file >= reported
      <4>1. file' = plan.file
        BY <2>3, <3>1 DEF NewContents
      <4> QED
        BY <3>1, <4>1
    <3> QED
      BY <2>1, <3>1 DEF FileAwaited, Applied
  <2>7. want \in SUBSET Sources
    BY <1>2, <2>2
  <2> HIDE DEF want
  <2>8. \/ plan' = NoPlan /\ wanted' = {} /\ want = {}
        \/ /\ plan' # NoPlan /\ plan'.state = "queued" /\ plan'.sources = want
           /\ plan'.token = generation' /\ generation' \in Nat
    <3>1. CASE want = {}
      BY <2>3, <3>1 DEF AcquireFiles
    <3>2. CASE want # {}
      <4>1. generation' = generation + 1
            /\ plan' = [state |-> "queued", token |-> generation + 1, sources |-> want]
        BY <2>3, <3>2 DEF AcquireFiles
      <4> QED
        BY <1>2, <4>1 DEF NoPlan
    <3> QED
      BY <3>1, <3>2
  <2>9. file' >= reported \/ FileAwaited'
    <3>1. file >= reported => file' >= reported
      BY <1>2, <2>4
    <3> QED
      BY <2>5, <2>6, <2>8, <3>1 DEF FileInv, FileAwaited
  <2>10. plan'.state # "read" /\ (plan' # NoPlan => plan'.token <= generation') /\ (plan' = NoPlan => wanted' = {})
    BY <2>8 DEF NoPlan
  <2>11. reported' <= disk' /\ file' <= disk'
    BY <1>2, <2>3, <2>4 DEF FileInv
  <2> QED
    BY <2>3, <2>9, <2>10, <2>11 DEF FileInv
<1>13. ASSUME NEW observed \in BOOLEAN, ReadPlan(observed)
       PROVE  FileInv'
  <2>1. /\ plan.state = "queued" /\ plan # NoPlan
        /\ UNCHANGED <<reported, disk, file, wanted, generation, jobs>>
    BY <1>13 DEF ReadPlan, NoPlan
  <2>2. plan' = [state |-> "read", token |-> plan.token, sources |-> plan.sources,
                 file |-> disk, observed |-> observed]
    BY <1>13 DEF ReadPlan
  <2>3. /\ plan' # NoPlan /\ plan'.state = "read" /\ plan'.token = plan.token
        /\ plan'.sources = plan.sources /\ plan'.file = disk
    BY <2>2 DEF NoPlan
  <2>4. disk >= reported /\ disk <= disk
    BY <1>2 DEF FileInv
  <2>5. FileAwaited => FileAwaited'
    BY <2>1, <2>3, <2>4 DEF FileAwaited, WatchedComes
  <2> QED
    BY <2>1, <2>3, <2>4, <2>5 DEF FileInv
<1>14. CASE \/ DidChangeIgnored \/ DiskChange \/ WorkerCancel \/ WorkerDispatch \/ WorkerTick \/ WorkerDone
            \/ (\E s \in 1 .. PoolSize : Read(s)) \/ Wait \/ UNCHANGED vars
  <2>1. UNCHANGED <<reported, file, wanted, generation, plan, jobs>> /\ disk' \in {disk, disk + 1}
    BY <1>14 DEF DidChangeIgnored, DiskChange, WorkerCancel, WorkerDispatch, WorkerTick, WorkerDone,
       Read, Publish, Unwind, Return, Wait, vars
  <2> QED
    BY <1>3, <2>1 DEF WatchedComes
<1> QED
  BY <1>5, <1>6, <1>7, <1>8, <1>9, <1>10, <1>11, <1>12, <1>13, <1>14 DEF Next, Editor, Work

-----------------------------------------------------------------------------
(* A snapshot of the present.                                               *)

(* The main loop will be told to analyse every open document again.         *)
Relinting == \E i \in DOMAIN out : out[i].type = "relint"

(* What a request or a result with the stamp at carries: the texts that     *)
(* documents have, and contents of the file that are not too old, if        *)
(* nothing has happened since.  They are those of the database, unless the  *)
(* main loop will hear that they have changed.                              *)
Carries(at, snapshot) ==
  /\ at <= stamp
  /\ at = stamp => /\ \A e \in Docs : snapshot.texts[e] = docs[e].text
                   /\ snapshot.file >= reported
                   /\ snapshot.file = file \/ Relinting

(* A step after which what carried the present carries it still, or its     *)
(* stamp is of the past.                                                    *)
StillPresent ==
  \/ stamp' = stamp + 1
  \/ /\ UNCHANGED <<stamp, docs, reported>>
     /\ Relinting' \/ (file' = file /\ (Relinting => Relinting'))

SnapshotInv ==
  /\ \A s \in DOMAIN readers : readers[s].phase = "running" =>
       Carries(readers[s].request.stamp, readers[s].snapshot)
  /\ \A i \in DOMAIN out : out[i].type = "diagnostics" => Carries(out[i].stamp, out[i].snapshot)

LEMMA CarriesStill ==
  ASSUME TypeOK, StillPresent,
         NEW at \in Nat, NEW snapshot, Carries(at, snapshot)
  PROVE  Carries(at, snapshot)'
<1>1. stamp \in Nat
  BY Types
<1> QED
  BY <1>1 DEF Carries, StillPresent

LEMMA RunningTyped ==
  ASSUME TypeOK, NEW s \in DOMAIN readers, readers[s].phase = "running"
  PROVE  /\ readers[s].request.doc \in Docs /\ readers[s].request.version \in Nat \ {0}
         /\ readers[s].request.stamp \in Nat /\ readers[s].request \in Requests
         /\ readers[s].snapshot \in Snapshots
<1>1. readers[s] \in Readers
  BY Types
<1>2. readers[s].request \in Requests /\ readers[s].snapshot \in Snapshots
  BY <1>1 DEF Readers, Idle
<1> QED
  BY <1>2 DEF Requests

LEMMA ResultTyped ==
  ASSUME TypeOK, NEW i \in DOMAIN out, out[i].type = "diagnostics"
  PROVE  /\ out[i].doc \in Docs /\ out[i].version \in Nat \ {0} /\ out[i].stamp \in Nat
         /\ out[i].snapshot \in Snapshots
<1>1. out[i] \in Outbound
  BY Types
<1> QED
  BY <1>1 DEF Outbound

(* Readers and results that were there before, and what is new carries the  *)
(* present.                                                                 *)
LEMMA SnapshotKept ==
  ASSUME TypeOK, SnapshotInv, StillPresent,
         \A s \in DOMAIN readers' : readers'[s].phase = "running" =>
           \/ Carries(readers[s].request.stamp, readers[s].snapshot)'
           \/ \E u \in DOMAIN readers :
                /\ readers[u].phase = "running" /\ readers'[s].request = readers[u].request
                /\ readers'[s].snapshot = readers[u].snapshot,
         \A i \in DOMAIN out' : out'[i].type = "diagnostics" =>
           \/ \E j \in DOMAIN out : out'[i] = out[j]
           \/ \E u \in DOMAIN readers :
                /\ readers[u].phase = "running" /\ out'[i].stamp = readers[u].request.stamp
                /\ out'[i].snapshot = readers[u].snapshot
  PROVE  SnapshotInv'
<1>1. ASSUME NEW u \in DOMAIN readers, readers[u].phase = "running"
      PROVE  Carries(readers[u].request.stamp, readers[u].snapshot) /\ readers[u].request.stamp \in Nat
  BY <1>1, RunningTyped DEF SnapshotInv
<1>2. ASSUME NEW j \in DOMAIN out, out[j].type = "diagnostics"
      PROVE  Carries(out[j].stamp, out[j].snapshot) /\ out[j].stamp \in Nat
  BY <1>2, ResultTyped DEF SnapshotInv
<1>3. ASSUME NEW at \in Nat, NEW snapshot, Carries(at, snapshot)
      PROVE  Carries(at, snapshot)'
  BY <1>3, CarriesStill
<1>4. ASSUME NEW s \in DOMAIN readers', readers'[s].phase = "running"
      PROVE  Carries(readers[s].request.stamp, readers[s].snapshot)'
  <2>1. CASE \E u \in DOMAIN readers :
               /\ readers[u].phase = "running" /\ readers'[s].request = readers[u].request
               /\ readers'[s].snapshot = readers[u].snapshot
    <3>1. PICK u \in DOMAIN readers :
            /\ readers[u].phase = "running" /\ readers'[s].request = readers[u].request
            /\ readers'[s].snapshot = readers[u].snapshot
      BY <2>1
    <3>2. PICK at \in Nat, snapshot \in {readers[u].snapshot} :
            at = readers[u].request.stamp /\ snapshot = readers[u].snapshot
      BY <1>1, <3>1
    <3>3. Carries(at, snapshot)
      BY <1>1, <3>1, <3>2
    <3>4. Carries(at, snapshot)'
      BY <1>3, <3>3
    <3> QED
      BY <3>1, <3>2, <3>4 DEF Carries
  <2> QED
    BY <1>4, <2>1
<1>5. ASSUME NEW i \in DOMAIN out', out'[i].type = "diagnostics"
      PROVE  Carries(out[i].stamp, out[i].snapshot)'
  <2>1. PICK at \in Nat, snapshot \in {out'[i].snapshot} :
          Carries(at, snapshot) /\ out'[i].stamp = at /\ out'[i].snapshot = snapshot
    BY <1>1, <1>2, <1>5
  <2>2. Carries(at, snapshot)'
    BY <1>3, <2>1
  <2> QED
    BY <2>1, <2>2 DEF Carries
<1> QED
  BY <1>4, <1>5 DEF SnapshotInv, Carries

(* An analysis that starts takes its snapshot from the present, or its      *)
(* request is no longer of the present.                                     *)
LEMMA StartCarries ==
  ASSUME TypeOK, QueueInv, FileInv, NEW d \in Docs, queue[d].version > 0, plan = NoPlan
  PROVE  Carries(queue[d].stamp, [texts |-> overlay, file |-> file])
<1>1. queue[d].stamp <= stamp
  BY DEF QueueInv
<1>2. ASSUME queue[d].stamp = stamp
      PROVE  (\A e \in Docs : overlay[e] = docs[e].text) /\ file >= reported
  <2>1. Reaches(jobs, 0, overlay, docs) /\ Repeats(jobs, 1, docs)
    BY <1>2 DEF QueueInv, Settled
  <2>2. \A e \in Docs : overlay[e] = docs[e].text
    BY <2>1, EndsZero DEF Reaches
  <2>3. \A j \in DOMAIN jobs : j >= 1
    <3>1. jobs \in Seq(Jobs)
      BY Types
    <3> QED
      BY <3>1
  <2>4. ~WatchedComes
    BY <2>1, <2>3 DEF WatchedComes, Repeats
  <2> QED
    BY <2>2, <2>4 DEF FileInv, FileAwaited
<1> QED
  BY <1>1, <1>2 DEF Carries

LEMMA DispatchKeepsSnapshots ==
  ASSUME TypeOK, QueueInv, FileInv, SnapshotInv, NEW current, TryDispatch(current),
         UNCHANGED <<docs, stamp, reported, out, file>>
  PROVE  SnapshotInv'
<1>1. readers \in [1 .. PoolSize -> Readers] /\ DOMAIN readers = 1 .. PoolSize
  BY Types
<1>p. StillPresent
  BY DEF StillPresent, Relinting
<1>2. CASE readers' = readers
  BY <1>p, <1>2, SnapshotKept
<1>3. ASSUME NEW d \in Docs, NEW s \in DOMAIN readers, Due(d, current), Starts(d, s)
      PROVE  SnapshotInv'
  <2>1. Carries(queue[d].stamp, [texts |-> overlay, file |-> file])
    BY <1>3, StartCarries DEF Due, Starts
  <2>2. PICK r : r = [phase |-> "running", request |-> RequestOf(d), cancelled |-> FALSE,
                      snapshot |-> [texts |-> overlay, file |-> file]]
    OBVIOUS
  <2>3. readers' = [readers EXCEPT ![s] = r]
    BY <1>3, <2>2 DEF Starts
  <2>4. PICK at \in Nat, snapshot \in {[texts |-> overlay, file |-> file]} :
            at = queue[d].stamp /\ snapshot = [texts |-> overlay, file |-> file]
    BY <1>3, RequestTyped DEF Due, RequestOf, Requests
  <2>5. r.request.stamp = at /\ r.snapshot = snapshot
    BY <2>2, <2>4 DEF RequestOf
  <2>6. Carries(at, snapshot)'
    <3>1. Carries(at, snapshot)
      BY <2>1, <2>4
    <3> QED
      BY <1>p, <3>1, CarriesStill
  <2>7. ASSUME NEW u \in DOMAIN readers', readers'[u].phase = "running"
        PROVE  \/ Carries(readers[u].request.stamp, readers[u].snapshot)'
               \/ \E v \in DOMAIN readers :
                    /\ readers[v].phase = "running" /\ readers'[u].request = readers[v].request
                    /\ readers'[u].snapshot = readers[v].snapshot
    <3>1. CASE u = s
      <4>1. readers'[u].request.stamp = at /\ readers'[u].snapshot = snapshot
        BY <1>1, <2>3, <2>5, <3>1
      <4> QED
        BY <2>6, <4>1 DEF Carries
    <3>2. CASE u # s
      BY <1>1, <2>3, <2>7, <3>2
    <3> QED
      BY <3>1, <3>2
  <2> QED
    BY <1>p, <2>7, SnapshotKept
<1> QED
  BY <1>2, <1>3, DispatchEffect

LEMMA SnapshotInit == Init => SnapshotInv
BY DEF Init, SnapshotInv, Idle

LEMMA SnapshotStep ==
  ASSUME TypeInv, QueueInv, FileInv, SnapshotInv, [Next]_vars
  PROVE  SnapshotInv'
<1> USE DEF main, database, scheduler, acquisition
<1>1. TypeOK
  BY DEF TypeInv
<1>2. /\ readers \in [1 .. PoolSize -> Readers] /\ DOMAIN readers = 1 .. PoolSize
      /\ out \in Seq(Outbound) /\ stamp \in Nat
  BY <1>1, Types
<1>p. UNCHANGED <<stamp, docs, reported, file, out>> => StillPresent
  BY DEF StillPresent, Relinting
<1>3. ASSUME readers' = readers, StillPresent,
             \A i \in DOMAIN out' : out'[i].type = "diagnostics" => \E j \in DOMAIN out : out'[i] = out[j]
      PROVE  SnapshotInv'
  BY <1>1, <1>3, SnapshotKept
<1>4. ASSUME out' = Append(out, [type |-> "relint"])
      PROVE  /\ Relinting'
             /\ \A i \in DOMAIN out' : out'[i].type = "diagnostics" => \E j \in DOMAIN out : out'[i] = out[j]
  <2>1. PICK m \in Outbound : m = [type |-> "relint"]
    BY DEF Outbound
  <2>2. m.type = "relint"
    BY <2>1
  <2>3. /\ DOMAIN out = 1 .. Len(out) /\ DOMAIN out' = 1 .. Len(out) + 1 /\ Len(out) \in Nat
        /\ \A i \in DOMAIN out : out'[i] = out[i]
        /\ out'[Len(out) + 1] = m /\ Len(out) + 1 \in DOMAIN out'
    BY <1>2, <1>4, <2>1, AppendOf
  <2> QED
    BY <2>2, <2>3 DEF Relinting
<1>5. CASE Editor
  <2>1. UNCHANGED <<readers, out>> /\ (stamp' = stamp + 1 \/ UNCHANGED <<stamp, docs, reported, file>>)
    BY <1>5 DEF Editor, DidOpen, DidChange, DidClose, Accept, DidChangeIgnored, DiskChange,
       DidChangeWatchedFile
  <2> QED
    BY <1>3, <1>p, <2>1 DEF StillPresent
<1>6. CASE TakeOutbound
  <2>1. out # <<>> /\ out' = Tail(out) /\ UNCHANGED <<docs, reported, readers, file>>
    BY <1>6 DEF TakeOutbound
  <2>3. \A i \in DOMAIN out' : \E j \in DOMAIN out : out'[i] = out[j]
    BY <1>2, <2>1, HeadOf
  <2>4. Head(out).type = "relint" \/ (Relinting => Relinting')
    BY <1>2, <2>1, HeadOf DEF Relinting
  <2>5. stamp' = stamp + 1 \/ (stamp' = stamp /\ Head(out).type = "diagnostics")
    BY <1>6 DEF TakeOutbound, ForwardDiagnostics, ForwardRelint
  <2>2. StillPresent
    BY <2>1, <2>4, <2>5 DEF StillPresent
  <2> QED
    BY <1>3, <2>1, <2>2, <2>3
<1>7. CASE WorkerCancel
  <2>1. UNCHANGED <<docs, stamp, reported, out, file>>
    BY <1>7 DEF WorkerCancel
  <2>2. ASSUME NEW s \in DOMAIN readers'
        PROVE  /\ s \in DOMAIN readers /\ readers'[s].phase = readers[s].phase
               /\ readers'[s].phase = "running" =>
                    /\ readers'[s].request = readers[s].request
                    /\ readers'[s].snapshot = readers[s].snapshot
    <3>1. s \in DOMAIN readers /\ readers'[s] = IF s \in Holders THEN [readers[s] EXCEPT !.cancelled = TRUE]
                                                ELSE readers[s]
      BY <1>7 DEF WorkerCancel
    <3>2. CASE s \in Holders
      <4>1. readers[s].phase = "running" /\ readers[s] \in Readers
        BY <1>2, <3>1, <3>2 DEF Holders
      <4>2. DOMAIN readers[s] = {"phase", "request", "cancelled", "snapshot"}
        BY <4>1 DEF Readers, Idle
      <4> QED
        BY <3>1, <3>2, <4>2
    <3> QED
      BY <3>1, <3>2
  <2> QED
    BY <1>1, <1>p, <2>1, <2>2, SnapshotKept
<1>8. CASE (\E grows \in BOOLEAN : HandleEdit(grows)) \/ HandleWatched
  BY <1>3, <1>p, <1>8 DEF HandleEdit, HandleWatched
<1>9. CASE HandleClose
  <2>1. UNCHANGED <<docs, stamp, reported, readers, file>>
        /\ (out' = out \/ out' = Append(out, [type |-> "relint"]))
    BY <1>9 DEF HandleClose
  <2> QED
    BY <1>3, <1>4, <1>p, <2>1 DEF StillPresent
<1>10. CASE CompleteFiles
  <2>1. UNCHANGED <<docs, stamp, reported, readers>>
        /\ ((out' = out /\ file' = file) \/ out' = Append(out, [type |-> "relint"]))
    BY <1>10 DEF CompleteFiles
  <2> QED
    BY <1>3, <1>4, <1>p, <2>1 DEF StillPresent
<1>11. CASE WorkerDispatch \/ WorkerTick \/ WorkerDone
  <2>1. UNCHANGED <<docs, stamp, reported, out, file>> /\ \E current : TryDispatch(current)
    BY <1>11 DEF WorkerDispatch, WorkerTick, WorkerDone
  <2> QED
    BY <1>1, <2>1, DispatchKeepsSnapshots
<1>12. CASE \E observed \in BOOLEAN : ReadPlan(observed)
  BY <1>3, <1>p, <1>12 DEF ReadPlan
<1>13. ASSUME NEW s \in 1 .. PoolSize, Read(s)
       PROVE  SnapshotInv'
  <2>1. UNCHANGED <<docs, stamp, reported, file>>
    BY <1>13 DEF Read, Publish, Unwind, Return
  <2>2. \A u \in DOMAIN readers' : u \in DOMAIN readers /\ (readers'[u] = readers[u] \/ readers'[u].phase # "running")
    <3>1. PICK r : (r = [phase |-> "returning"] \/ r = Idle) /\ readers' = [readers EXCEPT ![s] = r]
      BY <1>13 DEF Read, Publish, Unwind, Return, Finish
    <3>2. r.phase # "running"
      BY <3>1 DEF Idle
    <3> QED
      BY <1>2, <3>1, <3>2
  <2>3. CASE out' = out
    BY <1>1, <1>p, <2>1, <2>2, <2>3, SnapshotKept
  <2>4. CASE Publish(s)
    <3>1. readers[s].phase = "running"
      BY <2>4 DEF Publish
    <3>2. PICK m \in Outbound : m = [type |-> "diagnostics", doc |-> readers[s].request.doc,
                         version |-> readers[s].request.version, stamp |-> readers[s].request.stamp,
                         snapshot |-> readers[s].snapshot]
      BY <1>1, <1>2, <3>1, RunningTyped DEF Outbound
    <3>3. out' = Append(out, m)
      BY <2>4, <3>2 DEF Publish
    <3>4. m.stamp = readers[s].request.stamp /\ m.snapshot = readers[s].snapshot
      BY <3>2
    <3>5. \A i \in DOMAIN out' : out'[i] = m \/ \E j \in DOMAIN out : out'[i] = out[j]
      BY <1>2, <3>3, AppendOf
    <3>6. ASSUME NEW i \in DOMAIN out'
          PROVE  \/ \E j \in DOMAIN out : out'[i] = out[j]
                 \/ \E u \in DOMAIN readers :
                      /\ readers[u].phase = "running" /\ out'[i].stamp = readers[u].request.stamp
                      /\ out'[i].snapshot = readers[u].snapshot
      BY <1>2, <3>1, <3>4, <3>5
    <3>7. StillPresent
      BY <1>2, <2>1, <3>3, AppendOf DEF StillPresent, Relinting
    <3> QED
      BY <1>1, <2>1, <2>2, <3>6, <3>7, SnapshotKept
  <2> QED
    BY <1>13, <2>3, <2>4 DEF Read, Unwind, Return
<1>14. CASE Wait \/ UNCHANGED vars
  BY <1>3, <1>p, <1>14 DEF Wait, vars
<1> QED
  BY <1>5, <1>6, <1>7, <1>8, <1>9, <1>10, <1>11, <1>12, <1>13, <1>14 DEF Next, Work

(* The present, wherever it travels.                                        *)
PresentInv == TypeInv /\ JobsInv /\ QueueInv /\ FileInv /\ SnapshotInv

LEMMA PresentInvariant == Spec => []PresentInv
<1>1. Init => PresentInv
  BY TypeInit, TextInit, FileInit, SnapshotInit DEF PresentInv
<1>2. PresentInv /\ [Next]_vars => PresentInv'
  BY TypeStep, TextStep, FileStep, SnapshotStep DEF PresentInv
<1> QED
  BY <1>1, <1>2, PTL DEF Spec

(* What the editor shows next was computed from its own present: every      *)
(* document as the editor has it, and contents of the file no older than    *)
(* the last the watcher reported, for any number of documents, threads and  *)
(* notifications.                                                           *)
THEOREM ShowsThePresent == Spec => ShownIsCurrent
<1> USE DEF main, database, scheduler, acquisition
<1> DEFINE Shown == \A d \in Docs : shown'[d] # shown[d] /\ shown'[d] # Nothing =>
                      /\ \A e \in Docs : shown'[d].snapshot.texts[e] = docs[e].text
                      /\ shown'[d].snapshot.file >= reported
<1>1. ASSUME PresentInv, [Next]_vars
      PROVE  [Shown]_vars
  <2>1. TypeOK /\ shown \in [Docs -> Displays] /\ out \in Seq(Outbound)
    BY <1>1, Types DEF PresentInv, TypeInv, TypeOK, Displays
  <2>2. CASE shown' = shown
    BY <2>2
  <2>3. ASSUME NEW d \in Docs, DidClose(d)
        PROVE  Shown
    <3>1. shown' = [shown EXCEPT ![d] = Nothing]
      BY <2>3 DEF DidClose
    <3> QED
      BY <2>1, <3>1
  <2>4. CASE TakeOutbound
    <3>1. out # <<>> /\ Head(out) = out[1] /\ 1 \in DOMAIN out
      BY <2>1, <2>4, HeadOf DEF TakeOutbound
    <3>2. CASE Head(out).type = "diagnostics" /\ ForwardDiagnostics(Head(out)) /\ Head(out).stamp = stamp
      <4>1. out[1].doc \in Docs /\ Carries(stamp, out[1].snapshot)
        BY <1>1, <2>1, <3>1, <3>2, ResultTyped DEF PresentInv, SnapshotInv
      <4>2. PICK new : new = [version |-> out[1].version, snapshot |-> out[1].snapshot]
        OBVIOUS
      <4>3. new.snapshot = out[1].snapshot
        BY <4>2
      <4>4. shown' = [shown EXCEPT ![out[1].doc] = new] \/ shown' = shown
        BY <3>1, <3>2, <4>2 DEF ForwardDiagnostics
      <4>5. \A d \in Docs : shown'[d] = shown[d] \/ shown'[d].snapshot = out[1].snapshot
        BY <2>1, <4>1, <4>3, <4>4
      <4> QED
        BY <4>1, <4>5 DEF Carries
    <3> QED
      BY <2>2, <2>4, <3>2 DEF TakeOutbound, ForwardDiagnostics, ForwardRelint
  <2> QED
    BY <1>1, <2>2, <2>3, <2>4 DEF Next, Editor, DidOpen, DidChange, DidChangeIgnored, DiskChange,
       DidChangeWatchedFile, Work, WorkerCancel, HandleEdit, HandleClose, HandleWatched,
       CompleteFiles, WorkerDispatch, WorkerTick, WorkerDone, ReadPlan, Read, Publish, Unwind,
       Return, Wait, vars
<1> QED
  BY <1>1, PresentInvariant, PTL DEF Spec, ShownIsCurrent

-----------------------------------------------------------------------------
(* Nothing that was asked for is lost.  The argument follows the traces of  *)
(* an analysis: document, version and stamp, from its job over the queue    *)
(* and the pool to its result.                                              *)

JobTrace(x) ==
  \E i \in DOMAIN jobs : /\ jobs[i].type = "edit" /\ jobs[i].doc = x.doc
                         /\ jobs[i].version = x.version /\ jobs[i].stamp = x.stamp
QueueTrace(x) ==
  queue[x.doc].version > 0 /\ queue[x.doc].version = x.version /\ queue[x.doc].stamp = x.stamp
Runs(x) == \E s \in DOMAIN readers : readers[s].phase = "running" /\ readers[s].request = x
Ended(x) == \E i \in DOMAIN done : done[i] = x
ResultTrace(x) ==
  \E i \in DOMAIN out : /\ out[i].type = "diagnostics" /\ out[i].doc = x.doc
                        /\ out[i].version = x.version /\ out[i].stamp = x.stamp

Comes(x) == JobTrace(x) \/ QueueTrace(x)
Started(x) == Runs(x) \/ Ended(x)
Traced(x) == Comes(x) \/ Started(x) \/ ResultTrace(x)

(* A stamp identifies a version of a document: the present one, its present *)
(* version.                                                                 *)
TraceInv ==
  /\ \A x \in Requests : Traced(x) =>
       x.stamp <= stamp /\ (x.stamp = stamp => x.version = docs[x.doc].version)
  /\ \A x, y \in Requests : Traced(x) /\ Traced(y) /\ x.doc = y.doc /\ x.stamp = y.stamp =>
       x.version = y.version

(* The requests of a document come in the order of their stamps.            *)
OrderInv ==
  /\ \A i, j \in DOMAIN jobs :
       i < j /\ jobs[i].type = "edit" /\ jobs[j].type = "edit" /\ jobs[i].doc = jobs[j].doc
         => jobs[i].stamp <= jobs[j].stamp
  /\ \A x, y \in Requests : QueueTrace(x) /\ JobTrace(y) /\ x.doc = y.doc => x.stamp <= y.stamp

(* What has started is older than what comes, but for the analysis in the   *)
(* slot, which may be repeated.                                             *)
StartedInv ==
  \A x \in Requests : Started(x) =>
    /\ x # inflight => x.stamp < stamp
    /\ \A y \in Requests : Comes(y) /\ y.doc = x.doc =>
         x.stamp <= y.stamp /\ (x # inflight => x.stamp < y.stamp)

(* The analysis in the slot runs once, and reports its end once.            *)
SlotInv ==
  inflight # Nothing =>
    /\ ~(Runs(inflight) /\ Ended(inflight))
    /\ \A s, u \in DOMAIN readers :
         /\ readers[s].phase = "running" /\ readers[s].request = inflight
         /\ readers[u].phase = "running" /\ readers[u].request = inflight
         => s = u
    /\ \A i, j \in DOMAIN done : done[i] = inflight /\ done[j] = inflight => i = j

FlowInv == TraceInv /\ OrderInv /\ StartedInv /\ SlotInv

LEMMA JobTraced ==
  ASSUME TypeOK, NEW i \in DOMAIN jobs, jobs[i].type = "edit"
  PROVE  \E x \in Requests :
           /\ x.doc = jobs[i].doc /\ x.version = jobs[i].version /\ x.stamp = jobs[i].stamp
           /\ JobTrace(x)
<1>1. jobs[i] \in Jobs
  BY Types
<1>2. jobs[i].doc \in Docs /\ jobs[i].version \in Nat \ {0} /\ jobs[i].stamp \in Nat
  BY <1>1 DEF Jobs, EditJobs
<1>3. PICK x \in Requests :
        x = [doc |-> jobs[i].doc, version |-> jobs[i].version, stamp |-> jobs[i].stamp]
  BY <1>2 DEF Requests
<1>4. x.doc = jobs[i].doc /\ x.version = jobs[i].version /\ x.stamp = jobs[i].stamp
  BY <1>3
<1> QED
  BY <1>4 DEF JobTrace

LEMMA QueueTraced ==
  ASSUME TypeOK, NEW d \in Docs, queue[d].version > 0
  PROVE  /\ RequestOf(d) \in Requests /\ RequestOf(d).doc = d
         /\ RequestOf(d).version = queue[d].version /\ RequestOf(d).stamp = queue[d].stamp
         /\ QueueTrace(RequestOf(d))
<1>1. RequestOf(d).doc = d /\ RequestOf(d).version = queue[d].version /\ RequestOf(d).stamp = queue[d].stamp
  BY DEF RequestOf
<1> QED
  BY <1>1, RequestTyped DEF QueueTrace

(* Traces are those that were there before, or of the present.              *)
LEMMA TraceKept ==
  ASSUME TypeOK, TraceInv, stamp' \in {stamp, stamp + 1}, stamp' = stamp => docs' = docs,
         \A x \in Requests : Traced(x)' =>
           Traced(x) \/ (x.stamp = stamp' /\ x.version = docs'[x.doc].version)
  PROVE  TraceInv'
<1>1. stamp \in Nat /\ \A x \in Requests : x.stamp \in Nat
  BY Types DEF Requests
<1>2. ASSUME NEW x \in Requests, Traced(x)
      PROVE  x.stamp <= stamp' /\ (x.stamp = stamp' => x.version = docs'[x.doc].version)
  BY <1>1, <1>2 DEF TraceInv
<1>3. ASSUME NEW x \in Requests, Traced(x)'
      PROVE  x.stamp <= stamp' /\ (x.stamp = stamp' => x.version = docs'[x.doc].version)
  BY <1>1, <1>2, <1>3
<1>4. ASSUME NEW x \in Requests, NEW y \in Requests, Traced(x)', Traced(y)',
             x.doc = y.doc, x.stamp = y.stamp
      PROVE  x.version = y.version
  <2>1. CASE x.stamp = stamp'
    BY <1>3, <1>4, <2>1
  <2>2. CASE x.stamp # stamp'
    BY <1>4, <2>2 DEF TraceInv
  <2> QED
    BY <2>1, <2>2
<1> QED
  BY <1>3, <1>4 DEF TraceInv

(* What has started was started before, and what comes is not older than    *)
(* the present unless it came before.                                       *)
LEMMA StartedKept ==
  ASSUME TypeOK, TraceInv, StartedInv, stamp' \in {stamp, stamp + 1}, inflight' = inflight,
         \A x \in Requests : Started(x)' => Started(x),
         \A x \in Requests : Comes(x)' => Comes(x) \/ x.stamp = stamp'
  PROVE  StartedInv'
<1>1. stamp \in Nat /\ \A x \in Requests : x.stamp \in Nat
  BY Types DEF Requests
<1>2. ASSUME NEW x \in Requests, Started(x)'
      PROVE  /\ x # inflight => x.stamp < stamp'
             /\ x.stamp <= stamp'
             /\ \A y \in Requests : Comes(y) /\ y.doc = x.doc =>
                  x.stamp <= y.stamp /\ (x # inflight => x.stamp < y.stamp)
  <2>1. Started(x) /\ Traced(x)
    BY <1>2 DEF Traced
  <2>2. x.stamp <= stamp /\ (x # inflight => x.stamp < stamp)
    BY <2>1 DEF TraceInv, StartedInv
  <2> QED
    BY <1>1, <2>1, <2>2 DEF StartedInv
<1>3. ASSUME NEW x \in Requests, Started(x)', NEW y \in Requests, Comes(y)', y.doc = x.doc
      PROVE  x.stamp <= y.stamp /\ (x # inflight => x.stamp < y.stamp)
  BY <1>2, <1>3
<1> QED
  BY <1>2, <1>3 DEF StartedInv

(* The slot keeps its analysis, which neither starts nor ends.              *)
LEMMA SlotStays ==
  ASSUME SlotInv, UNCHANGED <<inflight, readers, done>>
  PROVE  SlotInv' /\ \A x : Started(x)' <=> Started(x)
<1>1. SlotInv'
  BY DEF SlotInv, Runs, Ended
<1>2. \A x : Started(x)' <=> Started(x)
  BY DEF Started, Runs, Ended
<1> QED
  BY <1>1, <1>2

(* The main loop sends jobs of the present.                                 *)
LEMMA SendKeepsFlow ==
  ASSUME TypeOK, FlowInv, NEW r \in Seq(Jobs), jobs' = jobs \o r,
         stamp' \in {stamp, stamp + 1}, stamp' = stamp => docs' = docs,
         \A k \in DOMAIN r : r[k].type = "edit" =>
           r[k].stamp = stamp' /\ r[k].version = docs'[r[k].doc].version,
         UNCHANGED <<queue, inflight, readers, done>>,
         \A x \in Requests : ResultTrace(x)' => ResultTrace(x)
  PROVE  FlowInv'
<1> DEFINE n == Len(jobs)
<1>1. jobs \in Seq(Jobs) /\ stamp \in Nat /\ \A x \in Requests : x.stamp \in Nat
  BY Types DEF Requests
<1>2. /\ n \in Nat /\ DOMAIN jobs = 1 .. n
      /\ \A i \in DOMAIN jobs : jobs'[i] = jobs[i] /\ i \in DOMAIN jobs'
      /\ \A i \in DOMAIN jobs' : i \in DOMAIN jobs \/ (i > n /\ i \in Nat /\ \E k \in DOMAIN r : jobs'[i] = r[k])
  <2>1. /\ n \in Nat /\ DOMAIN jobs = 1 .. n /\ DOMAIN jobs' \in SUBSET Nat
        /\ \A i \in DOMAIN jobs : jobs'[i] = jobs[i] /\ i \in DOMAIN jobs'
        /\ \A k \in DOMAIN r : jobs'[n + k] = r[k]
        /\ \A i \in DOMAIN jobs' : i \in DOMAIN jobs \/ (i - n \in DOMAIN r /\ i > n)
    BY <1>1, ConcatOf
  <2>2. \A i \in DOMAIN jobs' : n + (i - n) = i
    BY <2>1
  <2> QED
    BY <2>1, <2>2
<1> HIDE DEF n
<1>3. ASSUME NEW i \in DOMAIN jobs', jobs'[i].type = "edit"
      PROVE  \/ i \in 1 .. n /\ jobs'[i] = jobs[i] /\ i \in DOMAIN jobs
             \/ i > n /\ i \in Nat /\ jobs'[i].stamp = stamp' /\ jobs'[i].version = docs'[jobs'[i].doc].version
  BY <1>2, <1>3
<1>4. ASSUME NEW x \in Requests, Comes(x)'
      PROVE  Comes(x) \/ (x.stamp = stamp' /\ x.version = docs'[x.doc].version)
  <2>1. CASE QueueTrace(x)'
    BY <2>1 DEF Comes, QueueTrace
  <2>2. CASE JobTrace(x)'
    <3>1. PICK i \in DOMAIN jobs' :
            /\ jobs'[i].type = "edit" /\ jobs'[i].doc = x.doc
            /\ jobs'[i].version = x.version /\ jobs'[i].stamp = x.stamp
      BY <2>2 DEF JobTrace
    <3> QED
      BY <1>3, <3>1 DEF Comes, JobTrace
  <2> QED
    BY <1>4, <2>1, <2>2 DEF Comes
<1>5. SlotInv' /\ \A x \in Requests : Started(x)' => Started(x)
  BY SlotStays DEF FlowInv
<1>6. TraceInv'
  <2>1. \A x \in Requests : Traced(x)' => Traced(x) \/ (x.stamp = stamp' /\ x.version = docs'[x.doc].version)
    BY <1>4, <1>5 DEF Traced
  <2> QED
    BY <2>1, TraceKept DEF FlowInv
<1>7. StartedInv'
  BY <1>4, <1>5, StartedKept DEF FlowInv
<1>8. ASSUME NEW i \in DOMAIN jobs, jobs[i].type = "edit"
      PROVE  jobs[i].stamp \in Nat /\ jobs[i].stamp <= stamp
  <2>1. PICK x \in Requests : x.stamp = jobs[i].stamp /\ JobTrace(x)
    BY <1>8, JobTraced
  <2> QED
    BY <1>1, <2>1 DEF FlowInv, TraceInv, Traced, Comes
<1>9. ASSUME NEW i \in DOMAIN jobs', NEW j \in DOMAIN jobs', i < j,
             jobs'[i].type = "edit", jobs'[j].type = "edit", jobs'[i].doc = jobs'[j].doc
      PROVE  jobs'[i].stamp <= jobs'[j].stamp
  <2>1. CASE i \in 1 .. n /\ jobs'[i] = jobs[i] /\ i \in DOMAIN jobs
    <3>1. CASE j \in 1 .. n /\ jobs'[j] = jobs[j] /\ j \in DOMAIN jobs
      BY <1>9, <2>1, <3>1 DEF FlowInv, OrderInv
    <3>2. CASE jobs'[j].stamp = stamp'
      BY <1>1, <1>8, <1>9, <2>1, <3>2
    <3> QED
      BY <1>3, <1>9, <3>1, <3>2
  <2>2. CASE i > n /\ i \in Nat /\ jobs'[i].stamp = stamp'
    <3>1. j > n /\ ~(j \in 1 .. n)
      BY <1>2, <1>9, <2>2
    <3>2. jobs'[j].stamp = stamp'
      BY <1>3, <1>9, <3>1
    <3> QED
      BY <1>1, <2>2, <3>2
  <2> QED
    BY <1>3, <1>9, <2>1, <2>2
<1>10. ASSUME NEW x \in Requests, NEW y \in Requests, QueueTrace(x)', JobTrace(y)', x.doc = y.doc
       PROVE  x.stamp <= y.stamp
  <2>1. QueueTrace(x)
    BY <1>10 DEF QueueTrace
  <2>2. PICK i \in DOMAIN jobs' :
          /\ jobs'[i].type = "edit" /\ jobs'[i].doc = y.doc
          /\ jobs'[i].version = y.version /\ jobs'[i].stamp = y.stamp
    BY <1>10 DEF JobTrace
  <2>3. CASE jobs'[i] = jobs[i] /\ i \in DOMAIN jobs
    <3>1. JobTrace(y)
      BY <2>2, <2>3 DEF JobTrace
    <3> QED
      BY <1>10, <2>1, <3>1 DEF FlowInv, OrderInv
  <2>4. CASE jobs'[i].stamp = stamp'
    <3>1. x.stamp <= stamp
      BY <2>1 DEF FlowInv, TraceInv, Traced, Comes
    <3> QED
      BY <1>1, <2>2, <2>4, <3>1
  <2> QED
    BY <1>3, <2>2, <2>3, <2>4
<1>11. OrderInv'
  BY <1>9, <1>10 DEF OrderInv
<1> QED
  BY <1>5, <1>6, <1>7, <1>11 DEF FlowInv

(* The worker handles the first job, which may join the queue.              *)
LEMMA HandleKeepsFlow ==
  ASSUME TypeOK, FlowInv, jobs # <<>>, jobs' = Tail(jobs),
         UNCHANGED <<docs, stamp, inflight, readers, done>>,
         \A x \in Requests : QueueTrace(x)' =>
           \/ QueueTrace(x)
           \/ /\ Head(jobs).type = "edit" /\ Head(jobs).doc = x.doc
              /\ Head(jobs).version = x.version /\ Head(jobs).stamp = x.stamp,
         \A x \in Requests : ResultTrace(x)' => ResultTrace(x)
  PROVE  FlowInv'
<1>1. jobs \in Seq(Jobs) /\ stamp \in Nat
  BY Types
<1>2. /\ Head(jobs) = jobs[1] /\ 1 \in DOMAIN jobs /\ DOMAIN jobs' \in SUBSET Nat
      /\ \A i \in DOMAIN jobs' : jobs'[i] = jobs[i + 1] /\ i + 1 \in DOMAIN jobs /\ 1 < i + 1
  BY <1>1, HeadOf
<1>3. ASSUME NEW x \in Requests, JobTrace(x)'
      PROVE  JobTrace(x)
  BY <1>2, <1>3 DEF JobTrace
<1>4. ASSUME NEW x \in Requests, QueueTrace(x)'
      PROVE  Comes(x)
  BY <1>2, <1>4 DEF Comes, JobTrace
<1>5. SlotInv' /\ \A x \in Requests : Started(x)' => Started(x)
  BY SlotStays DEF FlowInv
<1>6. \A x \in Requests : Comes(x)' => Comes(x)
  BY <1>3, <1>4 DEF Comes
<1>7. TraceInv'
  <2>1. \A x \in Requests : Traced(x)' => Traced(x)
    BY <1>5, <1>6 DEF Traced
  <2> QED
    BY <2>1, TraceKept DEF FlowInv
<1>8. StartedInv'
  BY <1>5, <1>6, StartedKept DEF FlowInv
<1>9. ASSUME NEW i \in DOMAIN jobs', NEW j \in DOMAIN jobs', i < j,
             jobs'[i].type = "edit", jobs'[j].type = "edit", jobs'[i].doc = jobs'[j].doc
      PROVE  jobs'[i].stamp <= jobs'[j].stamp
  <2>1. i + 1 < j + 1
    BY <1>2, <1>9
  <2> QED
    BY <1>2, <1>9, <2>1 DEF FlowInv, OrderInv
<1>10. ASSUME NEW x \in Requests, NEW y \in Requests, QueueTrace(x)', JobTrace(y)', x.doc = y.doc
       PROVE  x.stamp <= y.stamp
  <2>1. CASE QueueTrace(x)
    BY <1>3, <1>10, <2>1 DEF FlowInv, OrderInv
  <2>2. CASE /\ Head(jobs).type = "edit" /\ Head(jobs).doc = x.doc
             /\ Head(jobs).version = x.version /\ Head(jobs).stamp = x.stamp
    <3>1. PICK i \in DOMAIN jobs' :
            /\ jobs'[i].type = "edit" /\ jobs'[i].doc = y.doc
            /\ jobs'[i].version = y.version /\ jobs'[i].stamp = y.stamp
      BY <1>10 DEF JobTrace
    <3> QED
      BY <1>2, <1>10, <2>2, <3>1 DEF FlowInv, OrderInv
  <2> QED
    BY <1>10, <2>1, <2>2
<1>11. OrderInv'
  BY <1>9, <1>10 DEF OrderInv
<1> QED
  BY <1>5, <1>7, <1>8, <1>11 DEF FlowInv

(* A request is its document, version and stamp.                            *)
LEMMA SameRequest ==
  ASSUME NEW x \in Requests, NEW y \in Requests,
         x.doc = y.doc, x.version = y.version, x.stamp = y.stamp
  PROVE  x = y
<1>1. /\ x = [doc |-> x.doc, version |-> x.version, stamp |-> x.stamp]
      /\ y = [doc |-> y.doc, version |-> y.version, stamp |-> y.stamp]
  BY DEF Requests
<1> QED
  BY <1>1

(* The end of an analysis: its request moves from the pool to the channel   *)
(* of the worker, and its result, if any, to that of the main loop.         *)
LEMMA FinishKeepsFlow ==
  ASSUME TypeOK, FlowInv, NEW s \in DOMAIN readers, readers[s].phase = "running",
         done' = Append(done, readers[s].request),
         readers' = [readers EXCEPT ![s] = [phase |-> "returning"]],
         UNCHANGED <<docs, stamp, jobs, queue, inflight>>,
         \A x \in Requests : ResultTrace(x)' =>
           \/ ResultTrace(x)
           \/ /\ x.doc = readers[s].request.doc /\ x.version = readers[s].request.version
              /\ x.stamp = readers[s].request.stamp
  PROVE  FlowInv'
<1> DEFINE q == readers[s].request
           n == Len(done)
<1>1. /\ readers \in [1 .. PoolSize -> Readers] /\ DOMAIN readers = 1 .. PoolSize
      /\ done \in Seq(Requests) /\ q \in Requests /\ stamp \in Nat
  BY Types, RunningTyped
<1>2. /\ n \in Nat /\ DOMAIN done = 1 .. n /\ DOMAIN done' = 1 .. n + 1 /\ done'[n + 1] = q
      /\ \A i \in DOMAIN done : done'[i] = done[i]
  BY <1>1, AppendOf
<1>3. ASSUME NEW u \in DOMAIN readers'
      PROVE  u \in DOMAIN readers /\ (readers'[u].phase = "running" => u # s /\ readers'[u] = readers[u])
  <2>1. PICK r : r = [phase |-> "returning"]
    OBVIOUS
  <2>2. r.phase # "running" /\ readers' = [readers EXCEPT ![s] = r]
    BY <2>1
  <2> QED
    BY <1>1, <2>2
<1>4. Runs(q)
  BY DEF Runs
<1> HIDE DEF q, n
<1>5. \A i \in DOMAIN done' : (i \in DOMAIN done /\ done'[i] = done[i]) \/ (i = n + 1 /\ done'[i] = q)
  BY <1>2
<1>6. \A x : Runs(x)' => Runs(x)
  BY <1>3 DEF Runs
<1>7. \A x : Ended(x)' => Ended(x) \/ x = q
  BY <1>5 DEF Ended
<1>8. \A x \in Requests : Started(x)' => Started(x)
  BY <1>4, <1>6, <1>7 DEF Started
<1>9. \A x \in Requests : Comes(x)' <=> Comes(x)
  BY DEF Comes, JobTrace, QueueTrace
<1>10. TraceInv'
  <2>1. ASSUME NEW x \in Requests, x.doc = q.doc, x.version = q.version, x.stamp = q.stamp
        PROVE  x = q
    BY <1>1, <2>1, SameRequest
  <2>2. \A x \in Requests : ResultTrace(x)' => Traced(x)
    BY <1>4, <2>1 DEF Traced, Started, q
  <2>3. \A x \in Requests : Traced(x)' => Traced(x)
    BY <1>8, <1>9, <2>2 DEF Traced
  <2> QED
    BY <2>3, TraceKept DEF FlowInv
<1>11. StartedInv'
  BY <1>8, <1>9, StartedKept DEF FlowInv
<1>12. OrderInv'
  BY DEF FlowInv, OrderInv, QueueTrace, JobTrace
<1>13. ASSUME inflight # Nothing, inflight = q
       PROVE  /\ ~(Runs(inflight)')
              /\ \A i \in DOMAIN done : done[i] # inflight
  <2>1. ~Runs(inflight)'
    BY <1>3, <1>13 DEF FlowInv, SlotInv, Runs, q
  <2> QED
    BY <1>4, <1>13, <2>1 DEF FlowInv, SlotInv, Ended
<1>14. SlotInv'
  <2>1. ASSUME inflight # Nothing
        PROVE  /\ ~(Runs(inflight)' /\ Ended(inflight)')
               /\ \A t, u \in DOMAIN readers' :
                    /\ readers'[t].phase = "running" /\ readers'[t].request = inflight
                    /\ readers'[u].phase = "running" /\ readers'[u].request = inflight
                    => t = u
               /\ \A i, j \in DOMAIN done' : done'[i] = inflight /\ done'[j] = inflight => i = j
    <3>1. ~(Runs(inflight)' /\ Ended(inflight)')
      BY <1>6, <1>7, <1>13, <2>1 DEF FlowInv, SlotInv
    <3>2. \A t, u \in DOMAIN readers' :
            /\ readers'[t].phase = "running" /\ readers'[t].request = inflight
            /\ readers'[u].phase = "running" /\ readers'[u].request = inflight
            => t = u
      BY <1>3, <2>1 DEF FlowInv, SlotInv
    <3>3. \A i, j \in DOMAIN done' : done'[i] = inflight /\ done'[j] = inflight => i = j
      BY <1>5, <1>13, <2>1 DEF FlowInv, SlotInv
    <3> QED
      BY <3>1, <3>2, <3>3
  <2> QED
    BY <2>1 DEF SlotInv, Runs, Ended
<1> QED
  BY <1>10, <1>11, <1>12, <1>14 DEF FlowInv

(* A dispatch, for which an end reported to the worker may have freed the   *)
(* slot.  The request of the slot is gone from the pool and the channel     *)
(* then.                                                                    *)
DispatchInput(current) ==
  /\ \/ current = inflight
     \/ current = Nothing /\ \A x : x = inflight => ~Runs(x) /\ ~Ended(x)'
  /\ \A x \in Requests : Ended(x)' => Ended(x)
  /\ inflight # Nothing =>
       \A i, j \in DOMAIN done' : done'[i] = inflight /\ done'[j] = inflight => i = j
  /\ UNCHANGED <<docs, stamp, jobs, out>>

(* What is due is newer than what has started for the same document.        *)
LEMMA DueIsNewer ==
  ASSUME TypeOK, FlowInv, NEW current, DispatchInput(current),
         NEW d \in Docs, Due(d, current), NEW x \in Requests, Runs(x) \/ Ended(x)', x.doc = d
  PROVE  /\ x.stamp < queue[d].stamp
         /\ \A y \in Requests : Comes(y) /\ y.doc = d => x.stamp < y.stamp
         /\ x.stamp < stamp
<1> DEFINE q == RequestOf(d)
<1>1. /\ q \in Requests /\ q.doc = d /\ q.version = queue[d].version /\ q.stamp = queue[d].stamp
      /\ QueueTrace(q) /\ Comes(q) /\ Traced(q)
  BY QueueTraced DEF Due, Comes, Traced
<1> HIDE DEF q
<1>2. Started(x) /\ Traced(x)
  BY DEF DispatchInput, Started, Traced
<1>3. stamp \in Nat /\ q.stamp \in Nat /\ x.stamp \in Nat /\ x.version \in Nat /\ q.version \in Nat
  BY <1>1, Types DEF Requests
<1>4. x.stamp < q.stamp
  <2>1. CASE x # inflight
    BY <1>1, <1>2, <2>1 DEF FlowInv, StartedInv
  <2>2. CASE x = inflight
    <3>1. current = x
      BY <2>2 DEF DispatchInput
    <3>2. x # Nothing
      <4>1. DOMAIN x = {"doc", "version", "stamp"} /\ DOMAIN Nothing = {"version"}
        BY DEF Requests, Nothing
      <4>2. "doc" \in DOMAIN x /\ "doc" \notin DOMAIN Nothing
        BY <4>1
      <4> QED
        BY <4>2
    <3>3. q.version > x.version
      BY <1>1, <3>1, <3>2 DEF Due
    <3>4. x.stamp <= q.stamp /\ (x.stamp = q.stamp => x.version = q.version)
      BY <1>1, <1>2 DEF FlowInv, StartedInv, TraceInv
    <3> QED
      BY <1>3, <3>3, <3>4
  <2> QED
    BY <2>1, <2>2
<1>5. q.stamp <= stamp
  BY <1>1 DEF FlowInv, TraceInv
<1>6. ASSUME NEW y \in Requests, Comes(y), y.doc = d
      PROVE  x.stamp < y.stamp
  <2>1. CASE QueueTrace(y)
    BY <1>1, <1>4, <1>6, <2>1 DEF QueueTrace
  <2>2. CASE JobTrace(y)
    <3>1. q.stamp <= y.stamp /\ y.stamp \in Nat
      BY <1>1, <1>6, <2>2 DEF FlowInv, OrderInv, Requests
    <3> QED
      BY <1>3, <1>4, <3>1
  <2> QED
    BY <1>6, <2>1, <2>2 DEF Comes
<1> QED
  BY <1>1, <1>3, <1>4, <1>5, <1>6

(* What dispatch leaves running.                                            *)
LEMMA DispatchRuns ==
  ASSUME TypeOK, NEW d \in Docs, NEW s \in DOMAIN readers, Starts(d, s)
  PROVE  /\ DOMAIN readers' = DOMAIN readers
         /\ readers'[s].phase = "running" /\ readers'[s].request = RequestOf(d)
         /\ \A u \in DOMAIN readers : u # s => readers'[u] = readers[u]
         /\ \A x : Runs(x)' => Runs(x) \/ x = RequestOf(d)
         /\ \A x : Runs(x) => Runs(x)'
<1>1. readers \in [1 .. PoolSize -> Readers] /\ DOMAIN readers = 1 .. PoolSize /\ readers[s] = Idle
  BY Types DEF Starts
<1>2. PICK r : r = [phase |-> "running", request |-> RequestOf(d), cancelled |-> FALSE,
                    snapshot |-> [texts |-> overlay, file |-> file]]
  OBVIOUS
<1>3. r.phase = "running" /\ r.request = RequestOf(d) /\ readers' = [readers EXCEPT ![s] = r]
  BY <1>2 DEF Starts
<1>4. /\ DOMAIN readers' = DOMAIN readers /\ readers'[s] = r
      /\ \A u \in DOMAIN readers : u # s => readers'[u] = readers[u]
  BY <1>1, <1>3
<1>5. Idle.phase # "running"
  BY DEF Idle
<1>6. ASSUME NEW x, Runs(x)'
      PROVE  Runs(x) \/ x = RequestOf(d)
  BY <1>3, <1>4, <1>6 DEF Runs
<1>7. ASSUME NEW x, Runs(x)
      PROVE  Runs(x)'
  BY <1>1, <1>4, <1>5, <1>7 DEF Runs
<1> QED
  BY <1>3, <1>4, <1>6, <1>7

LEMMA DispatchKeepsFlow ==
  ASSUME TypeOK, FlowInv, NEW current, DispatchInput(current), TryDispatch(current)
  PROVE  FlowInv'
<1>1. UNCHANGED <<docs, stamp, jobs, out>> /\ \A x \in Requests : Ended(x)' => Ended(x)
  BY DEF DispatchInput
<1>2. stamp \in Nat /\ \A x \in Requests : x.stamp \in Nat
  BY Types DEF Requests
<1>3. \A x \in Requests : (QueueTrace(x)' => QueueTrace(x)) /\ (JobTrace(x)' <=> JobTrace(x)) /\ (ResultTrace(x)' <=> ResultTrace(x))
  BY <1>1, DispatchShrinks DEF QueueTrace, JobTrace, ResultTrace, Requests
<1>4. \A x \in Requests : Comes(x)' => Comes(x)
  BY <1>3 DEF Comes
<1>5. OrderInv'
  <2>1. \A x, y \in Requests : QueueTrace(x)' /\ JobTrace(y)' /\ x.doc = y.doc => x.stamp <= y.stamp
    BY <1>3 DEF FlowInv, OrderInv
  <2> QED
    BY <1>1, <2>1 DEF FlowInv, OrderInv
<1>6. CASE inflight' = current /\ UNCHANGED <<queue, readers>>
  <2>1. \A x \in Requests : Started(x)' => Started(x) /\ (x # current => x # inflight)
    BY <1>1, <1>6 DEF Started, Runs, DispatchInput
  <2>2. TraceInv'
    <3>1. \A x \in Requests : Traced(x)' => Traced(x)
      BY <1>3, <1>4, <2>1 DEF Traced
    <3> QED
      BY <1>1, <3>1, TraceKept DEF FlowInv
  <2>3. StartedInv'
    <3>1. \A x \in Requests : Started(x)' =>
            /\ x # current => x.stamp < stamp
            /\ \A y \in Requests : Comes(y)' /\ y.doc = x.doc =>
                 x.stamp <= y.stamp /\ (x # current => x.stamp < y.stamp)
      BY <1>4, <2>1 DEF FlowInv, StartedInv
    <3> QED
      BY <1>1, <1>6, <3>1 DEF StartedInv
  <2>4. SlotInv'
    <3>1. CASE current = Nothing
      BY <1>6, <3>1 DEF SlotInv
    <3>2. CASE current = inflight /\ inflight # Nothing
      <4>1. ~(Runs(inflight)' /\ Ended(inflight)')
        <5>1. inflight \in Requests
          BY <3>2, Types DEF Slots
        <5> QED
          BY <1>1, <1>6, <3>2, <5>1 DEF FlowInv, SlotInv, Runs
      <4>2. \A s, u \in DOMAIN readers :
              /\ readers[s].phase = "running" /\ readers[s].request = inflight
              /\ readers[u].phase = "running" /\ readers[u].request = inflight
              => s = u
        BY <3>2 DEF FlowInv, SlotInv
      <4>3. \A i, j \in DOMAIN done' : done'[i] = inflight /\ done'[j] = inflight => i = j
        BY <3>2 DEF DispatchInput
      <4>4. inflight' = inflight
        BY <1>6, <3>2
      <4> QED
        BY <1>6, <4>1, <4>2, <4>3, <4>4 DEF SlotInv, Runs, Ended
    <3> QED
      BY <3>1, <3>2 DEF DispatchInput
  <2> QED
    BY <1>5, <2>2, <2>3, <2>4 DEF FlowInv
<1>7. ASSUME NEW d \in Docs, Due(d, current), inflight' = Nothing, UNCHANGED <<queue, readers>>
      PROVE  FlowInv'
  <2>1. \A x \in Requests : Started(x)' => Started(x) /\ (Runs(x) \/ Ended(x)')
    BY <1>1, <1>7 DEF Started, Runs
  <2>2. TraceInv'
    <3>1. \A x \in Requests : Traced(x)' => Traced(x)
      BY <1>3, <1>4, <2>1 DEF Traced
    <3> QED
      BY <1>1, <3>1, TraceKept DEF FlowInv
  <2>3. ASSUME NEW x \in Requests, Started(x)'
        PROVE  x.stamp < stamp /\ \A y \in Requests : Comes(y) /\ y.doc = x.doc => x.stamp < y.stamp
    <3>1. CASE x # inflight
      BY <2>1, <2>3, <3>1 DEF FlowInv, StartedInv
    <3>2. CASE x = inflight
      <4>1. x = current
        BY <2>1, <2>3, <3>2 DEF DispatchInput
      <4>2. x # Nothing
        <5>1. DOMAIN x = {"doc", "version", "stamp"} /\ DOMAIN Nothing = {"version"}
          BY DEF Requests, Nothing
        <5>2. "doc" \in DOMAIN x /\ "doc" \notin DOMAIN Nothing
          BY <5>1
        <5> QED
          BY <5>2
      <4>3. x.doc = d
        BY <1>7, <4>1, <4>2 DEF Due
      <4> QED
        BY <1>7, <2>1, <2>3, <4>3, DueIsNewer
    <3> QED
      BY <3>1, <3>2
  <2>4. StartedInv'
    <3>1. \A x, y \in Requests : x.stamp < y.stamp => x.stamp <= y.stamp
      BY <1>2
    <3>2. ASSUME NEW x \in Requests, Started(x)'
          PROVE  /\ x # Nothing => x.stamp < stamp
                 /\ \A y \in Requests : Comes(y)' /\ y.doc = x.doc =>
                      x.stamp <= y.stamp /\ (x # Nothing => x.stamp < y.stamp)
      BY <1>4, <2>3, <3>1, <3>2
    <3> QED
      BY <1>1, <1>7, <3>2 DEF StartedInv
  <2>5. SlotInv'
    BY <1>7 DEF SlotInv
  <2> QED
    BY <1>5, <2>2, <2>4, <2>5 DEF FlowInv
<1>8. ASSUME NEW d \in Docs, NEW s \in DOMAIN readers, Due(d, current), Starts(d, s)
      PROVE  FlowInv'
  <2>1. PICK q \in Requests :
          /\ q = RequestOf(d) /\ q.doc = d /\ q.version = queue[d].version /\ q.stamp = queue[d].stamp
          /\ QueueTrace(q) /\ Comes(q)
    BY <1>8, QueueTraced DEF Due, Comes
  <2>2. inflight' = q /\ queue' = [queue EXCEPT ![d] = NoRequest]
    BY <1>8, <2>1 DEF Starts
  <2>3. /\ DOMAIN readers' = DOMAIN readers
        /\ readers'[s].phase = "running" /\ readers'[s].request = q
        /\ \A u \in DOMAIN readers : u # s => readers'[u] = readers[u]
        /\ \A x : Runs(x)' => Runs(x) \/ x = q
    BY <1>8, <2>1, DispatchRuns
  <2>4. \A x \in Requests : Started(x)' => (Runs(x) \/ Ended(x)') \/ x = q
    BY <2>3 DEF Started
  <2>5. ~Runs(q) /\ ~(Ended(q)')
    <3>1. ~(q.stamp < q.stamp)
      BY <1>2, <2>1
    <3> QED
      BY <1>8, <2>1, <3>1, DueIsNewer
  <2>6. TraceInv'
    <3>1. \A x \in Requests : Started(x)' => Traced(x)
      BY <1>1, <2>1, <2>4 DEF Traced, Started
    <3>2. \A x \in Requests : Traced(x)' => Traced(x)
      BY <1>3, <1>4, <3>1 DEF Traced
    <3> QED
      BY <1>1, <3>2, TraceKept DEF FlowInv
  <2>7. ASSUME NEW x \in Requests, Runs(x) \/ Ended(x)'
        PROVE  x.stamp < stamp /\ \A y \in Requests : Comes(y) /\ y.doc = x.doc => x.stamp < y.stamp
    <3>1. Started(x)
      BY <1>1, <2>7 DEF Started
    <3>2. CASE x # inflight
      BY <3>1, <3>2 DEF FlowInv, StartedInv
    <3>3. CASE x = inflight
      <4>1. x = current
        BY <2>7, <3>3 DEF DispatchInput
      <4>2. x # Nothing
        <5>1. DOMAIN x = {"doc", "version", "stamp"} /\ DOMAIN Nothing = {"version"}
          BY DEF Requests, Nothing
        <5>2. "doc" \in DOMAIN x /\ "doc" \notin DOMAIN Nothing
          BY <5>1
        <5> QED
          BY <5>2
      <4>3. x.doc = d
        BY <1>8, <4>1, <4>2 DEF Due
      <4> QED
        BY <1>8, <2>7, <4>3, DueIsNewer
    <3> QED
      BY <3>2, <3>3
  <2>8. ASSUME NEW y \in Requests, Comes(y)', y.doc = q.doc
        PROVE  q.stamp <= y.stamp
    <3>1. ~(QueueTrace(y)')
      <4>1. queue'[d] = NoRequest
        BY <2>2, Types
      <4> QED
        BY <2>1, <2>8, <4>1 DEF QueueTrace, NoRequest
    <3>2. JobTrace(y)
      BY <1>3, <2>8, <3>1 DEF Comes
    <3> QED
      BY <2>1, <2>8, <3>2 DEF FlowInv, OrderInv
  <2>9. StartedInv'
    <3>1. \A x, y \in Requests : x.stamp < y.stamp => x.stamp <= y.stamp
      BY <1>2
    <3>2. ASSUME NEW x \in Requests, Started(x)'
          PROVE  /\ x # q => x.stamp < stamp
                 /\ \A y \in Requests : Comes(y)' /\ y.doc = x.doc =>
                      x.stamp <= y.stamp /\ (x # q => x.stamp < y.stamp)
      BY <1>4, <2>4, <2>7, <2>8, <3>1, <3>2
    <3> QED
      BY <1>1, <2>2, <3>2 DEF StartedInv
  <2>10. SlotInv'
    <3>1. \A u \in DOMAIN readers' : readers'[u].phase = "running" /\ readers'[u].request = q => u = s
      BY <2>3, <2>5 DEF Runs
    <3>2. \A i \in DOMAIN done' : done'[i] # q
      BY <2>5 DEF Ended
    <3> QED
      BY <2>2, <3>1, <3>2 DEF SlotInv, Ended
  <2> QED
    BY <1>5, <2>6, <2>9, <2>10 DEF FlowInv
<1> QED
  BY <1>6, <1>7, <1>8, DispatchEffect

(* Readers are cancelled, or return.                                        *)
LEMMA ReadersKeepFlow ==
  ASSUME TypeOK, FlowInv, UNCHANGED <<docs, stamp, jobs, out, queue, inflight, done>>,
         \A u \in DOMAIN readers' : readers'[u].phase = "running" =>
           /\ u \in DOMAIN readers /\ readers[u].phase = "running"
           /\ readers'[u].request = readers[u].request
  PROVE  FlowInv'
<1>1. \A x : Runs(x)' => Runs(x)
  BY DEF Runs
<1>2. \A x : /\ (Ended(x)' <=> Ended(x)) /\ (Comes(x)' <=> Comes(x)) /\ (ResultTrace(x)' <=> ResultTrace(x))
  BY DEF Ended, Comes, JobTrace, QueueTrace, ResultTrace
<1>3. TraceInv'
  <2>1. \A x \in Requests : Traced(x)' => Traced(x)
    BY <1>1, <1>2 DEF Traced, Started
  <2>2. stamp' \in {stamp, stamp + 1}
    OBVIOUS
  <2> QED
    BY <2>1, <2>2, TraceKept DEF FlowInv
<1>4. StartedInv'
  <2>1. \A x \in Requests : (Started(x)' => Started(x)) /\ (Comes(x)' => Comes(x))
    BY <1>1, <1>2 DEF Started
  <2> QED
    BY <2>1, StartedKept DEF FlowInv
<1>5. OrderInv'
  BY DEF FlowInv, OrderInv, QueueTrace, JobTrace
<1>6. SlotInv'
  <2>1. Runs(inflight)' => Runs(inflight)
    BY DEF Runs
  <2>2. Ended(inflight)' => Ended(inflight)
    BY DEF Ended
  <2> QED
    BY <2>1, <2>2 DEF FlowInv, SlotInv
<1> QED
  BY <1>3, <1>4, <1>5, <1>6 DEF FlowInv

LEMMA AppendOne ==
  ASSUME NEW S, NEW q \in Seq(S), NEW m \in S
  PROVE  /\ Append(q, m) = q \o <<m>> /\ <<m>> \in Seq(S)
         /\ \A k \in DOMAIN <<m>> : <<m>>[k] = m
OBVIOUS

LEMMA FlowInit == Init => FlowInv
<1> SUFFICES ASSUME Init PROVE FlowInv
  OBVIOUS
<1>1. DOMAIN jobs = {} /\ DOMAIN done = {} /\ DOMAIN out = {}
  BY DEF Init
<1>2. \A s \in DOMAIN readers : readers[s].phase # "running"
  BY DEF Init, Idle
<1>3. \A x \in Requests : ~(queue[x.doc].version > 0)
  BY DEF Init, NoRequest, Requests
<1>4. \A x \in Requests : ~Traced(x) /\ ~Started(x) /\ ~QueueTrace(x)
  BY <1>1, <1>2, <1>3 DEF Traced, Comes, Started, JobTrace, QueueTrace, Runs, Ended, ResultTrace
<1>5. TraceInv /\ StartedInv /\ OrderInv
  BY <1>1, <1>4 DEF TraceInv, StartedInv, OrderInv
<1>6. SlotInv
  BY DEF Init, SlotInv
<1> QED
  BY <1>5, <1>6 DEF FlowInv

(* Results after a message to the main loop that carries none.              *)
LEMMA RelintResults ==
  ASSUME TypeOK, out' = out \/ out' = Append(out, [type |-> "relint"])
  PROVE  \A x \in Requests : ResultTrace(x)' => ResultTrace(x)
<1>1. out \in Seq(Outbound)
  BY Types
<1>2. PICK m \in Outbound : m = [type |-> "relint"]
  BY DEF Outbound
<1>3. m.type # "diagnostics"
  BY <1>2
<1>4. CASE out' = out
  BY <1>4 DEF ResultTrace
<1>5. CASE out' = Append(out, m)
  <2>1. \A i \in DOMAIN out' : (i \in DOMAIN out /\ out'[i] = out[i]) \/ out'[i] = m
    BY <1>1, <1>5, AppendOf
  <2> QED
    BY <1>3, <2>1 DEF ResultTrace
<1> QED
  BY <1>2, <1>4, <1>5

LEMMA FlowStep == ASSUME TypeInv, FlowInv, [Next]_vars PROVE FlowInv'
<1> USE DEF main, database, scheduler, acquisition
<1>1. TypeOK
  BY DEF TypeInv
<1>2. /\ docs \in [Docs -> Documents] /\ stamp \in Nat /\ jobs \in Seq(Jobs) /\ out \in Seq(Outbound)
      /\ readers \in [1 .. PoolSize -> Readers] /\ DOMAIN readers = 1 .. PoolSize
      /\ done \in Seq(Requests) /\ inflight \in Slots
  BY <1>1, Types
<1>3. ASSUME UNCHANGED <<jobs, queue, inflight, readers, done>>, stamp' \in {stamp, stamp + 1},
             stamp' = stamp => docs' = docs, \A x \in Requests : ResultTrace(x)' => ResultTrace(x)
      PROVE  FlowInv'
  <2>1. PICK r \in Seq(Jobs) : jobs' = jobs \o r /\ \A k \in DOMAIN r : FALSE
    <3>1. <<>> \in Seq(Jobs) /\ jobs' = jobs \o <<>> /\ DOMAIN <<>> = {}
      BY <1>2, <1>3
    <3> QED
      BY <3>1
  <2> QED
    BY <1>1, <1>3, <2>1, SendKeepsFlow
<1>4. out' = out => \A x \in Requests : ResultTrace(x)' => ResultTrace(x)
  BY DEF ResultTrace
<1>5. ASSUME NEW job \in Jobs, jobs' = Append(jobs, job), stamp' = stamp + 1,
             job.type = "edit" => job.stamp = stamp' /\ job.version = docs'[job.doc].version,
             UNCHANGED <<queue, inflight, readers, done, out>>
      PROVE  FlowInv'
  <2>1. PICK r \in Seq(Jobs) : jobs' = jobs \o r /\ \A k \in DOMAIN r : r[k] = job
    <3>1. /\ Append(jobs, job) = jobs \o <<job>> /\ <<job>> \in Seq(Jobs)
          /\ \A k \in DOMAIN <<job>> : <<job>>[k] = job
      BY <1>2, AppendOne
    <3>2. jobs' = jobs \o <<job>>
      BY <1>5, <3>1
    <3> QED
      BY <3>1, <3>2
  <2>2. stamp' # stamp /\ stamp' \in {stamp, stamp + 1}
    BY <1>2, <1>5
  <2> QED
    BY <1>1, <1>4, <1>5, <2>1, <2>2, SendKeepsFlow
<1>6. ASSUME NEW d \in Docs, NEW text \in Texts, DidOpen(d, text) \/ DidChange(d, text)
      PROVE  FlowInv'
  <2>1. PICK v \in Nat \ {0}, opened \in BOOLEAN :
          Accept(d, [version |-> v, text |-> text], EditJob(d, opened, [version |-> v, text |-> text], stamp + 1))
    <3>1. CASE DidOpen(d, text)
      <4>1. 1 \in Nat \ {0}
        OBVIOUS
      <4> QED
        BY <3>1, <4>1 DEF DidOpen
    <3>2. CASE DidChange(d, text)
      <4>1. docs[d].version + 1 \in Nat \ {0}
        BY <1>1, <3>2, OpenDocument DEF DidChange
      <4> QED
        BY <3>2, <4>1 DEF DidChange
    <3> QED
      BY <1>6, <3>1, <3>2
  <2>2. PICK job \in Jobs : /\ job = [type |-> "edit", doc |-> d, opened |-> opened, text |-> text,
                                      version |-> v, stamp |-> stamp + 1]
    <3>1. stamp + 1 \in Nat
      BY <1>2
    <3>2. [type |-> "edit", doc |-> d, opened |-> opened, text |-> text,
           version |-> v, stamp |-> stamp + 1] \in Jobs
      BY <3>1, EditTyped
    <3> QED
      BY <3>2
  <2>3. jobs' = Append(jobs, job) /\ stamp' = stamp + 1 /\ docs' = [docs EXCEPT ![d] = [version |-> v, text |-> text]]
    BY <2>1, <2>2 DEF Accept, EditJob
  <2>4. job.doc = d /\ job.version = v /\ job.stamp = stamp + 1
    BY <2>2
  <2>5. docs'[d].version = v
    BY <1>2, <2>3
  <2>6. UNCHANGED <<queue, inflight, readers, done, out>>
    BY <1>6 DEF DidOpen, DidChange
  <2> QED
    BY <1>5, <2>3, <2>4, <2>5, <2>6
<1>7. ASSUME NEW d \in Docs, DidClose(d)
      PROVE  FlowInv'
  <2>1. PICK job \in Jobs : job = [type |-> "close", doc |-> d]
    BY DEF Jobs
  <2>2. job.type # "edit"
    BY <2>1
  <2> QED
    BY <1>5, <1>7, <2>1, <2>2 DEF DidClose, Accept
<1>8. CASE DidChangeWatchedFile
  <2>1. PICK job \in Jobs : job = [type |-> "watched"]
    BY DEF Jobs
  <2>2. job.type # "edit"
    BY <2>1
  <2> QED
    BY <1>5, <1>8, <2>1, <2>2 DEF DidChangeWatchedFile
<1>9. CASE TakeOutbound
  <2>1. UNCHANGED <<docs, queue, inflight, readers, done>> /\ out # <<>> /\ out' = Tail(out)
    BY <1>9 DEF TakeOutbound
  <2>2. \A x \in Requests : ResultTrace(x)' => ResultTrace(x)
    BY <1>2, <2>1, HeadOf DEF ResultTrace
  <2>3. CASE UNCHANGED <<jobs, stamp>>
    BY <1>3, <2>1, <2>2, <2>3
  <2>4. ASSUME NEW at \in Nat, at = stamp', stamp' \in {stamp, stamp + 1}, RelintAllOpen(at)
        PROVE  FlowInv'
    <3>1. PICK r \in Seq(Jobs) : jobs' = jobs \o r /\ \A k \in DOMAIN r : RelintJob(r[k], at)
      BY <2>4, RelintJobs
    <3>2. \A k \in DOMAIN r : r[k].stamp = stamp' /\ r[k].version = docs'[r[k].doc].version
      BY <2>1, <2>4, <3>1 DEF RelintJob
    <3> QED
      BY <1>1, <2>1, <2>2, <2>4, <3>1, <3>2, SendKeepsFlow
  <2>5. stamp + 1 \in Nat
    BY <1>2
  <2> QED
    BY <1>2, <1>9, <2>3, <2>4, <2>5 DEF TakeOutbound, ForwardDiagnostics, ForwardRelint
<1>10. ASSUME NEW grows \in BOOLEAN, HandleEdit(grows)
       PROVE  FlowInv'
  <2>1. jobs # <<>> /\ Head(jobs).type = "edit" /\ Head(jobs) \in Jobs
    BY <1>2, <1>10, HeadOf DEF HandleEdit, Handles
  <2>2. PICK d \in Docs, v \in Nat \ {0}, at \in Nat :
          d = Head(jobs).doc /\ v = Head(jobs).version /\ at = Head(jobs).stamp
    BY <2>1 DEF Jobs, EditJobs
  <2>3. jobs' = Tail(jobs) /\ UNCHANGED <<docs, stamp, inflight, readers, done, out>> /\ Enqueue(d, v, at)
    BY <1>10, <2>2 DEF HandleEdit
  <2>4. \A e \in Docs : e # d => queue'[e] = queue[e]
    BY <1>1, <2>3, EnqueueEffect
  <2>5. queue'[d] = queue[d] \/ queue'[d] = [version |-> v, stamp |-> at]
    BY <1>1, <2>3, EnqueueEffect
  <2>6. queue'[d] = queue[d] \/ (queue'[d].version = v /\ queue'[d].stamp = at)
    BY <2>5
  <2>7. ASSUME NEW x \in Requests, QueueTrace(x)'
        PROVE  QueueTrace(x) \/ (d = x.doc /\ v = x.version /\ at = x.stamp)
    <3>1. x.doc \in Docs
      BY DEF Requests
    <3> QED
      BY <2>4, <2>6, <2>7, <3>1 DEF QueueTrace
  <2> QED
    BY <1>1, <1>4, <2>1, <2>2, <2>3, <2>7, HandleKeepsFlow
<1>11. CASE HandleClose \/ HandleWatched
  <2>1. /\ jobs # <<>> /\ jobs' = Tail(jobs) /\ UNCHANGED <<docs, stamp, inflight, readers, done, queue>>
        /\ (out' = out \/ out' = Append(out, [type |-> "relint"]))
    BY <1>11 DEF HandleClose, HandleWatched, Handles
  <2>2. \A x \in Requests : QueueTrace(x)' => QueueTrace(x)
    BY <2>1 DEF QueueTrace
  <2> QED
    BY <1>1, <2>1, <2>2, RelintResults, HandleKeepsFlow
<1>12. CASE CompleteFiles
  <2>1. /\ UNCHANGED <<docs, stamp, jobs, inflight, readers, done, queue>>
        /\ (out' = out \/ out' = Append(out, [type |-> "relint"]))
    BY <1>12 DEF CompleteFiles
  <2> QED
    BY <1>1, <1>3, <2>1, RelintResults
<1>13. CASE WorkerDispatch \/ WorkerTick
  <2>1. TryDispatch(inflight) /\ UNCHANGED <<docs, stamp, jobs, out, done>>
    BY <1>13 DEF WorkerDispatch, WorkerTick
  <2>2. \A x : Ended(x)' <=> Ended(x)
    BY <2>1 DEF Ended
  <2>3. DispatchInput(inflight)
    BY <2>1, <2>2 DEF DispatchInput, FlowInv, SlotInv
  <2> QED
    BY <1>1, <2>1, <2>3, DispatchKeepsFlow
<1>14. CASE WorkerDone
  <2>1. /\ done # <<>> /\ done' = Tail(done) /\ UNCHANGED <<docs, stamp, jobs, out>>
        /\ TryDispatch(IF inflight = Head(done) THEN Nothing ELSE inflight)
    BY <1>14 DEF WorkerDone
  <2>2. /\ Head(done) = done[1] /\ 1 \in DOMAIN done /\ Head(done) \in Requests /\ DOMAIN done' \in SUBSET Nat
        /\ \A i \in DOMAIN done' : done'[i] = done[i + 1] /\ i + 1 \in DOMAIN done /\ i + 1 # 1
    BY <1>2, <2>1, HeadOf
  <2>3. \A x : Ended(x)' => Ended(x)
    BY <2>2 DEF Ended
  <2>4. inflight # Nothing =>
          \A i, j \in DOMAIN done' : done'[i] = inflight /\ done'[j] = inflight => i = j
    <3>1. ASSUME inflight # Nothing, NEW i \in DOMAIN done', NEW j \in DOMAIN done',
                 done'[i] = inflight, done'[j] = inflight
          PROVE  i = j
      <4>1. i + 1 = j + 1 /\ i \in Nat /\ j \in Nat
        BY <2>2, <3>1 DEF FlowInv, SlotInv
      <4> QED
        BY <4>1
    <3> QED
      BY <3>1
  <2>5. CASE inflight = Head(done)
    <3>1. inflight # Nothing
      <4>1. DOMAIN Head(done) = {"doc", "version", "stamp"} /\ DOMAIN Nothing = {"version"}
        BY <2>2 DEF Requests, Nothing
      <4>2. "doc" \in DOMAIN Head(done) /\ "doc" \notin DOMAIN Nothing
        BY <4>1
      <4> QED
        BY <2>5, <4>2
    <3>2. Ended(inflight)
      BY <2>2, <2>5 DEF Ended
    <3>3. ~Runs(inflight)
      BY <3>1, <3>2 DEF FlowInv, SlotInv
    <3>4. \A i \in DOMAIN done' : done'[i] # inflight
      BY <2>2, <2>5, <3>1 DEF FlowInv, SlotInv
    <3>5. \A x : x = inflight => ~Runs(x) /\ ~Ended(x)'
      BY <3>3, <3>4 DEF Ended
    <3>6. DispatchInput(Nothing)
      BY <2>1, <2>3, <2>4, <3>5 DEF DispatchInput
    <3> QED
      BY <1>1, <2>1, <2>5, <3>6, DispatchKeepsFlow
  <2>6. CASE inflight # Head(done)
    <3>1. DispatchInput(inflight)
      BY <2>1, <2>3, <2>4 DEF DispatchInput
    <3> QED
      BY <1>1, <2>1, <2>6, <3>1, DispatchKeepsFlow
  <2> QED
    BY <2>5, <2>6
<1>15. CASE WorkerCancel
  <2>1. UNCHANGED <<docs, stamp, jobs, out, queue, inflight, done>>
    BY <1>15 DEF WorkerCancel
  <2>2. ASSUME NEW s \in DOMAIN readers', readers'[s].phase = "running"
        PROVE  /\ s \in DOMAIN readers /\ readers[s].phase = "running"
               /\ readers'[s].request = readers[s].request
    <3>1. s \in DOMAIN readers /\ readers'[s] = IF s \in Holders THEN [readers[s] EXCEPT !.cancelled = TRUE]
                                                ELSE readers[s]
      BY <1>15 DEF WorkerCancel
    <3>2. CASE s \in Holders
      <4>1. readers[s].phase = "running" /\ readers[s] \in Readers
        BY <1>2, <3>1, <3>2 DEF Holders
      <4>2. DOMAIN readers[s] = {"phase", "request", "cancelled", "snapshot"}
        BY <4>1 DEF Readers, Idle
      <4> QED
        BY <3>1, <3>2, <4>1, <4>2
    <3> QED
      BY <2>2, <3>1, <3>2
  <2> QED
    BY <1>1, <2>1, <2>2, ReadersKeepFlow
<1>16. ASSUME NEW s \in 1 .. PoolSize, Publish(s) \/ Unwind(s)
       PROVE  FlowInv'
  <2>1. /\ readers[s].phase = "running" /\ done' = Append(done, readers[s].request)
        /\ readers' = [readers EXCEPT ![s] = [phase |-> "returning"]]
        /\ UNCHANGED <<docs, stamp, jobs, queue, inflight>>
    BY <1>16 DEF Publish, Unwind, Finish
  <2>2. CASE Unwind(s)
    BY <1>1, <1>2, <1>4, <2>1, <2>2, FinishKeepsFlow DEF Unwind
  <2>3. CASE Publish(s)
    <3>1. PICK m \in Outbound : m = [type |-> "diagnostics", doc |-> readers[s].request.doc,
                         version |-> readers[s].request.version, stamp |-> readers[s].request.stamp,
                         snapshot |-> readers[s].snapshot]
      BY <1>1, <1>2, <2>1, RunningTyped DEF Outbound
    <3>2. out' = Append(out, m)
      BY <2>3, <3>1 DEF Publish
    <3>3. m.doc = readers[s].request.doc /\ m.version = readers[s].request.version /\ m.stamp = readers[s].request.stamp
      BY <3>1
    <3>4. \A i \in DOMAIN out' : out'[i] = m \/ (i \in DOMAIN out /\ out'[i] = out[i])
      BY <1>2, <3>2, AppendOf
    <3>5. \A x \in Requests : ResultTrace(x)' =>
            \/ ResultTrace(x)
            \/ /\ x.doc = readers[s].request.doc /\ x.version = readers[s].request.version
               /\ x.stamp = readers[s].request.stamp
      BY <3>3, <3>4 DEF ResultTrace
    <3> QED
      BY <1>1, <1>2, <2>1, <3>5, FinishKeepsFlow
  <2> QED
    BY <1>16, <2>2, <2>3
<1>17. ASSUME NEW s \in 1 .. PoolSize, Return(s)
       PROVE  FlowInv'
  <2>1. UNCHANGED <<docs, stamp, jobs, out, queue, inflight, done>> /\ readers' = [readers EXCEPT ![s] = Idle]
    BY <1>17 DEF Return
  <2>2. Idle.phase # "running"
    BY DEF Idle
  <2>3. \A u \in DOMAIN readers' : readers'[u].phase = "running" => u \in DOMAIN readers /\ readers'[u] = readers[u]
    BY <1>2, <2>1, <2>2
  <2> QED
    BY <1>1, <2>1, <2>3, ReadersKeepFlow
<1>18. CASE DidChangeIgnored \/ DiskChange \/ (\E observed \in BOOLEAN : ReadPlan(observed)) \/ Wait \/ UNCHANGED vars
  <2>1. /\ UNCHANGED <<docs, jobs, queue, inflight, readers, done, out>> /\ stamp' \in {stamp, stamp + 1}
    BY <1>18 DEF DidChangeIgnored, DiskChange, ReadPlan, Wait, vars
  <2> QED
    BY <1>3, <1>4, <2>1
<1> QED
  BY <1>6, <1>7, <1>8, <1>9, <1>10, <1>11, <1>12, <1>13, <1>14, <1>15, <1>16, <1>17, <1>18
     DEF Next, Editor, Work, Read

-----------------------------------------------------------------------------
(* What an open document is owed.                                           *)

JobFor(d) == \E i \in DOMAIN jobs : jobs[i].type = "edit" /\ jobs[i].doc = d
RunsFor(d) == inflight # Nothing /\ inflight.doc = d /\ Runs(inflight)
ResultFor(d) == \E i \in DOMAIN out : out[i].type = "diagnostics" /\ out[i].doc = d

(* Something that is under way ends in diagnostics of the document.         *)
Pending(d) == JobFor(d) \/ queue[d].version > 0 \/ RunsFor(d) \/ ResultFor(d) \/ Relinting

(* The editor shows what an analysis would find now.                        *)
Fresh(d) ==
  /\ shown[d].version = docs[d].version
  /\ shown[d].snapshot.texts[d] = docs[d].text
  /\ shown[d].snapshot.file = file

OwedInv == \A d \in Docs : Open(d) => d \in lost \/ Pending(d) \/ Fresh(d)

LEMMA OwedInit == Init => OwedInv
BY DEF Init, OwedInv, Open, Closed

(* A step that drops nothing.                                               *)
LEMMA OwedKept ==
  ASSUME OwedInv,
         \A d \in Docs : Open(d)' => Open(d) \/ Pending(d)',
         \A d \in Docs : Open(d)' /\ d \in lost => d \in lost' \/ Pending(d)',
         \A d \in Docs : Open(d)' /\ Pending(d) => d \in lost' \/ Pending(d)' \/ Fresh(d)',
         \A d \in Docs : Open(d)' /\ Fresh(d) => Fresh(d)' \/ Pending(d)'
  PROVE  OwedInv'
BY DEF OwedInv

(* A dispatch moves a request from the queue to the slot.                   *)
LEMMA DispatchKeepsOwed ==
  ASSUME TypeOK, OwedInv, NEW current, TryDispatch(current), UNCHANGED <<docs, jobs, out, shown, file>>,
         current = inflight \/ (current = Nothing /\ ~Runs(inflight))
  PROVE  OwedInv'
<1>1. \A d \in Docs : /\ (Open(d)' <=> Open(d)) /\ (Fresh(d)' <=> Fresh(d)) /\ (JobFor(d)' <=> JobFor(d))
                      /\ (ResultFor(d)' <=> ResultFor(d)) /\ (Relinting' <=> Relinting)
  BY DEF Open, Fresh, JobFor, ResultFor, Relinting
<1>2. CASE inflight' = current /\ UNCHANGED <<queue, readers, lost>>
  <2>1. \A d \in Docs : RunsFor(d) => RunsFor(d)'
    BY <1>2 DEF RunsFor, Runs
  <2>2. \A d \in Docs : Pending(d) => Pending(d)'
    BY <1>1, <1>2, <2>1 DEF Pending
  <2> QED
    BY <1>1, <1>2, <2>2, OwedKept
<1>3. ASSUME NEW d \in Docs, Due(d, current)
      PROVE  \A e \in Docs : RunsFor(e) => e = d
  BY <1>3 DEF RunsFor, Due
<1>4. ASSUME NEW d \in Docs, Due(d, current), inflight' = Nothing, UNCHANGED <<queue, readers, lost>>
      PROVE  OwedInv'
  <2>1. queue'[d].version > 0
    BY <1>4 DEF Due
  <2>2. \A e \in Docs : Pending(e) => Pending(e)'
    BY <1>1, <1>3, <1>4, <2>1 DEF Pending
  <2> QED
    BY <1>1, <1>4, <2>2, OwedKept
<1>5. ASSUME NEW d \in Docs, NEW s \in DOMAIN readers, Due(d, current), Starts(d, s)
      PROVE  OwedInv'
  <2>1. PICK q \in Requests : q = RequestOf(d) /\ q.doc = d
    BY <1>5, QueueTraced DEF Due
  <2>2. inflight' = q /\ lost' = lost \ {d} /\ queue' = [queue EXCEPT ![d] = NoRequest]
    BY <1>5, <2>1 DEF Starts
  <2>3. Runs(q)'
    BY <1>5, <2>1, DispatchRuns DEF Runs
  <2>4. q # Nothing
    <3>1. DOMAIN q = {"doc", "version", "stamp"} /\ DOMAIN Nothing = {"version"}
      BY DEF Requests, Nothing
    <3>2. "doc" \in DOMAIN q /\ "doc" \notin DOMAIN Nothing
      BY <3>1
    <3> QED
      BY <3>2
  <2>5. RunsFor(d)'
    BY <2>1, <2>2, <2>3, <2>4 DEF RunsFor, Runs
  <2>6. \A e \in Docs : e # d => queue'[e] = queue[e]
    BY <2>2, Types
  <2>7. \A e \in Docs : Pending(e) => Pending(e)'
    BY <1>1, <1>3, <1>5, <2>5, <2>6 DEF Pending
  <2>8. \A e \in Docs : e \in lost => e \in lost' \/ Pending(e)'
    BY <2>2, <2>5 DEF Pending
  <2> QED
    BY <1>1, <2>7, <2>8, OwedKept
<1> QED
  BY <1>2, <1>4, <1>5, DispatchEffect

(* Jobs are sent.                                                           *)
LEMMA SendKeepsOwed ==
  ASSUME TypeOK, OwedInv, NEW r \in Seq(Jobs), jobs' = jobs \o r,
         UNCHANGED <<queue, inflight, readers, out, file, lost>>,
         \A e \in Docs : Open(e)' =>
           \/ \E k \in DOMAIN r : r[k].type = "edit" /\ r[k].doc = e
           \/ docs'[e] = docs[e] /\ shown'[e] = shown[e]
  PROVE  OwedInv'
<1>1. jobs \in Seq(Jobs)
  BY Types
<1>2. \A d : JobFor(d) => JobFor(d)'
  BY <1>1, ConcatOf DEF JobFor
<1>3. \A d : (\E k \in DOMAIN r : r[k].type = "edit" /\ r[k].doc = d) => JobFor(d)'
  <2>1. \A k \in DOMAIN r : jobs'[Len(jobs) + k] = r[k] /\ Len(jobs) + k \in DOMAIN jobs'
    BY <1>1, ConcatOf
  <2> QED
    BY <2>1 DEF JobFor
<1>4. \A d : Pending(d) => Pending(d)'
  BY <1>2 DEF Pending, RunsFor, Runs, ResultFor, Relinting
<1>5. \A d \in Docs : Open(d)' => Pending(d)' \/ (docs'[d] = docs[d] /\ shown'[d] = shown[d])
  BY <1>3 DEF Pending
<1>6. \A d \in Docs : docs'[d] = docs[d] /\ shown'[d] = shown[d] => (Open(d)' <=> Open(d)) /\ (Fresh(d)' <=> Fresh(d))
  BY DEF Open, Fresh
<1> QED
  BY <1>4, <1>5, <1>6, OwedKept

LEMMA OwedStep ==
  ASSUME TypeInv, FlowInv, SnapshotInv, OwedInv, [Next]_vars
  PROVE  OwedInv'
<1> USE DEF main, database, scheduler, acquisition
<1>1. TypeOK
  BY DEF TypeInv
<1>2. /\ docs \in [Docs -> Documents] /\ stamp \in Nat /\ jobs \in Seq(Jobs) /\ out \in Seq(Outbound)
      /\ readers \in [1 .. PoolSize -> Readers] /\ DOMAIN readers = 1 .. PoolSize
      /\ done \in Seq(Requests) /\ inflight \in Slots /\ shown \in [Docs -> Displays]
  BY <1>1, Types DEF TypeOK, Displays
<1>3. ASSUME NEW job \in Jobs, jobs' = Append(jobs, job), UNCHANGED <<queue, inflight, readers, out, file, lost>>,
             \A e \in Docs : Open(e)' =>
               (job.type = "edit" /\ job.doc = e) \/ (docs'[e] = docs[e] /\ shown'[e] = shown[e])
      PROVE  OwedInv'
  <2>1. PICK r \in Seq(Jobs) : r = <<job>>
    BY <1>2, AppendOne
  <2>2. jobs' = jobs \o r /\ 1 \in DOMAIN r /\ r[1] = job
    BY <1>2, <1>3, <2>1, AppendOne
  <2> QED
    BY <1>1, <1>3, <2>2, SendKeepsOwed
<1>4. ASSUME NEW d \in Docs, NEW text \in Texts, DidOpen(d, text) \/ DidChange(d, text)
      PROVE  OwedInv'
  <2>1. PICK v \in Nat \ {0}, opened \in BOOLEAN :
          Accept(d, [version |-> v, text |-> text], EditJob(d, opened, [version |-> v, text |-> text], stamp + 1))
    <3>1. CASE DidOpen(d, text)
      <4>1. 1 \in Nat \ {0}
        OBVIOUS
      <4> QED
        BY <3>1, <4>1 DEF DidOpen
    <3>2. CASE DidChange(d, text)
      <4>1. docs[d].version + 1 \in Nat \ {0}
        BY <1>1, <3>2, OpenDocument DEF DidChange
      <4> QED
        BY <3>2, <4>1 DEF DidChange
    <3> QED
      BY <1>4, <3>1, <3>2
  <2>2. PICK job \in Jobs : /\ job = [type |-> "edit", doc |-> d, opened |-> opened, text |-> text,
                                      version |-> v, stamp |-> stamp + 1]
    <3>1. stamp + 1 \in Nat
      BY <1>2
    <3>2. [type |-> "edit", doc |-> d, opened |-> opened, text |-> text,
           version |-> v, stamp |-> stamp + 1] \in Jobs
      BY <3>1, EditTyped
    <3> QED
      BY <3>2
  <2>3. jobs' = Append(jobs, job) /\ docs' = [docs EXCEPT ![d] = [version |-> v, text |-> text]]
    BY <2>1, <2>2 DEF Accept, EditJob
  <2>4. job.type = "edit" /\ job.doc = d
    BY <2>2
  <2>5. \A e \in Docs : e = d \/ docs'[e] = docs[e]
    BY <1>2, <2>3
  <2>6. UNCHANGED <<queue, inflight, readers, out, file, lost, shown>>
    BY <1>4 DEF DidOpen, DidChange
  <2> QED
    BY <1>3, <2>3, <2>4, <2>5, <2>6
<1>5. ASSUME NEW d \in Docs, DidClose(d)
      PROVE  OwedInv'
  <2>1. PICK job \in Jobs : job = [type |-> "close", doc |-> d]
    BY DEF Jobs
  <2>2. /\ jobs' = Append(jobs, job) /\ docs' = [docs EXCEPT ![d] = Closed]
        /\ shown' = [shown EXCEPT ![d] = Nothing]
        /\ UNCHANGED <<queue, inflight, readers, out, file, lost>>
    BY <1>5, <2>1 DEF DidClose, Accept
  <2>3. \A e \in Docs : Open(e)' => docs'[e] = docs[e] /\ shown'[e] = shown[e]
    BY <1>2, <2>2 DEF Open, Closed
  <2> QED
    BY <1>3, <2>2, <2>3
<1>6. CASE DidChangeWatchedFile
  <2>1. PICK job \in Jobs : job = [type |-> "watched"]
    BY DEF Jobs
  <2> QED
    BY <1>3, <1>6, <2>1 DEF DidChangeWatchedFile
<1>7. ASSUME NEW r \in Seq(Jobs), jobs' = jobs \o r, UNCHANGED <<docs, queue, inflight, readers, lost>>,
             \A d \in OpenDocs : \E k \in DOMAIN r : r[k].doc = d, \A k \in DOMAIN r : r[k].type = "edit"
      PROVE  OwedInv'
  <2>1. \A d \in Docs : Open(d)' => JobFor(d)'
    <3>1. \A d \in Docs : Open(d)' => d \in OpenDocs
      BY <1>7 DEF Open, OpenDocs
    <3>2. \A k \in DOMAIN r : jobs'[Len(jobs) + k] = r[k] /\ Len(jobs) + k \in DOMAIN jobs'
      BY <1>2, <1>7, ConcatOf
    <3>3. ASSUME NEW d \in Docs, Open(d)'
          PROVE  \E i \in DOMAIN jobs' : jobs'[i].type = "edit" /\ jobs'[i].doc = d
      <4>1. PICK k \in DOMAIN r : r[k].doc = d
        BY <1>7, <3>1, <3>3
      <4> QED
        BY <1>7, <3>2, <4>1
    <3> QED
      BY <3>3 DEF JobFor
  <2> QED
    BY <2>1 DEF OwedInv, Pending
<1>8. CASE TakeOutbound
  <2>1. /\ UNCHANGED <<docs, queue, inflight, readers, lost, file>> /\ out # <<>> /\ out' = Tail(out)
        /\ Head(out) = out[1] /\ 1 \in DOMAIN out
        /\ \A i \in DOMAIN out : i = 1 \/ (i - 1 \in DOMAIN out' /\ out'[i - 1] = out[i])
    BY <1>2, <1>8, HeadOf DEF TakeOutbound
  <2>2. ASSUME NEW at \in Nat, RelintAllOpen(at)
        PROVE  OwedInv'
    <3>1. PICK r \in Seq(Jobs) : /\ jobs' = jobs \o r /\ \A k \in DOMAIN r : RelintJob(r[k], at)
                                 /\ \A d \in OpenDocs : \E k \in DOMAIN r : r[k].doc = d
      BY <2>2, RelintJobs
    <3>2. \A k \in DOMAIN r : r[k].type = "edit"
      BY <3>1 DEF RelintJob, EditJobs
    <3> QED
      BY <1>7, <2>1, <3>1, <3>2
  <2>3. CASE /\ out[1].type = "diagnostics" /\ out[1].stamp = stamp /\ jobs' = jobs
             /\ shown' = IF docs[out[1].doc].version = out[1].version
                         THEN [shown EXCEPT ![out[1].doc] = [version |-> out[1].version, snapshot |-> out[1].snapshot]]
                         ELSE shown
    <3>1. PICK c \in Docs, v \in {out[1].version}, snapshot \in {out[1].snapshot} :
            c = out[1].doc /\ v = out[1].version /\ snapshot = out[1].snapshot
      BY <1>1, <2>1, <2>3, ResultTyped
    <3>2. docs[c].version = v
      <4>1. PICK x \in Requests : x.doc = c /\ x.version = v /\ x.stamp = stamp
        <5>1. [doc |-> c, version |-> v, stamp |-> stamp] \in Requests
          BY <1>1, <1>2, <2>1, <2>3, <3>1, ResultTyped DEF Requests
        <5> QED
          BY <5>1
      <4>2. ResultTrace(x)
        BY <2>1, <2>3, <3>1, <4>1 DEF ResultTrace
      <4> QED
        BY <4>1, <4>2 DEF FlowInv, TraceInv, Traced
    <3>3. Carries(stamp, snapshot)
      BY <2>1, <2>3, <3>1 DEF SnapshotInv
    <3>4. shown' = [shown EXCEPT ![c] = [version |-> v, snapshot |-> snapshot]]
      BY <2>3, <3>1, <3>2
    <3>5. shown'[c].version = v /\ shown'[c].snapshot = snapshot /\ \A d \in Docs : d # c => shown'[d] = shown[d]
      BY <1>2, <3>4
    <3>6. Relinting => Relinting'
      BY <2>1, <2>3 DEF Relinting
    <3>7. Fresh(c)' \/ Pending(c)'
      BY <2>1, <3>2, <3>3, <3>5, <3>6 DEF Carries, Fresh, Pending
    <3>8. \A d \in Docs : d # c => (ResultFor(d) => ResultFor(d)') /\ (Fresh(d) => Fresh(d)')
      BY <2>1, <3>1, <3>5 DEF ResultFor, Fresh
    <3>9. \A d \in Docs : d # c /\ Pending(d) => Pending(d)'
      BY <2>1, <2>3, <3>6, <3>8 DEF Pending, JobFor, RunsFor, Runs
    <3>10. \A d \in Docs : Open(d)' <=> Open(d)
      BY <2>1 DEF Open
    <3> QED
      BY <2>1, <3>7, <3>8, <3>9, <3>10, OwedKept
  <2>4. stamp + 1 \in Nat
    BY <1>2
  <2> QED
    BY <1>2, <1>8, <2>1, <2>2, <2>3, <2>4 DEF TakeOutbound, ForwardDiagnostics, ForwardRelint
<1>9. ASSUME NEW grows \in BOOLEAN, HandleEdit(grows)
      PROVE  OwedInv'
  <2>1. jobs # <<>> /\ Head(jobs).type = "edit" /\ Head(jobs) \in Jobs
    BY <1>2, <1>9, HeadOf DEF HandleEdit, Handles
  <2>2. PICK d \in Docs, v \in Nat \ {0}, at \in Nat :
          d = Head(jobs).doc /\ v = Head(jobs).version /\ at = Head(jobs).stamp
    BY <2>1 DEF Jobs, EditJobs
  <2>3. jobs' = Tail(jobs) /\ UNCHANGED <<docs, inflight, readers, out, shown, file, lost>> /\ Enqueue(d, v, at)
    BY <1>9, <2>2 DEF HandleEdit
  <2>4. \A e \in Docs : e # d => queue'[e] = queue[e]
    BY <1>1, <2>3, EnqueueEffect
  <2>5. queue'[d].version > 0
    <3>1. (queue[d].version >= v /\ queue'[d] = queue[d]) \/ queue'[d] = [version |-> v, stamp |-> at]
      BY <1>1, <2>3, EnqueueEffect
    <3>2. queue[d].version \in Nat
      BY <1>1, Types DEF Queued, NoRequest
    <3>3. (queue[d].version >= v /\ queue'[d] = queue[d]) \/ queue'[d].version = v
      BY <3>1
    <3>4. CASE queue[d].version >= v /\ queue'[d] = queue[d]
      BY <3>2, <3>4
    <3>5. CASE queue'[d].version = v
      BY <3>5
    <3> QED
      BY <3>3, <3>4, <3>5
  <2>6. \A e \in Docs : JobFor(e) => e = d \/ JobFor(e)'
    <3>1. \A i \in DOMAIN jobs : jobs[i] = Head(jobs) \/ (i - 1 \in DOMAIN jobs' /\ jobs'[i - 1] = jobs[i])
      BY <1>2, <2>1, <2>3, HeadOf
    <3> QED
      BY <2>2, <3>1 DEF JobFor
  <2>7. \A e \in Docs : Pending(e) => Pending(e)'
    BY <2>3, <2>4, <2>5, <2>6 DEF Pending, RunsFor, Runs, ResultFor, Relinting
  <2>8. \A e \in Docs : (Open(e)' <=> Open(e)) /\ (Fresh(e)' <=> Fresh(e))
    BY <2>3 DEF Open, Fresh
  <2> QED
    BY <2>3, <2>7, <2>8, OwedKept
<1>10. ASSUME out' = out \/ out' = Append(out, [type |-> "relint"])
       PROVE  /\ \A d : ResultFor(d) => ResultFor(d)'
              /\ Relinting => Relinting'
              /\ out' # out => Relinting'
  <2>1. PICK m \in Outbound : m = [type |-> "relint"]
    BY DEF Outbound
  <2>4. m.type = "relint"
    BY <2>1
  <2>2. CASE out' = out
    BY <2>2 DEF ResultFor, Relinting
  <2>3. CASE out' = Append(out, m)
    <3>1. /\ \A i \in DOMAIN out : out'[i] = out[i] /\ i \in DOMAIN out'
          /\ out'[Len(out) + 1] = m /\ Len(out) + 1 \in DOMAIN out'
      BY <1>2, <2>3, AppendOf
    <3> QED
      BY <2>4, <3>1 DEF ResultFor, Relinting
  <2> QED
    BY <1>10, <2>1, <2>2, <2>3
<1>11. CASE HandleClose \/ HandleWatched
  <2>1. /\ jobs # <<>> /\ jobs' = Tail(jobs) /\ Head(jobs).type # "edit"
        /\ UNCHANGED <<docs, inflight, readers, queue, shown, file, lost>>
        /\ (out' = out \/ out' = Append(out, [type |-> "relint"]))
    BY <1>11 DEF HandleClose, HandleWatched, Handles
  <2>2. \A e \in Docs : JobFor(e) => JobFor(e)'
    <3>1. \A i \in DOMAIN jobs : jobs[i] = Head(jobs) \/ (i - 1 \in DOMAIN jobs' /\ jobs'[i - 1] = jobs[i])
      BY <1>2, <2>1, HeadOf
    <3> QED
      BY <2>1, <3>1 DEF JobFor
  <2>3. \A e \in Docs : Pending(e) => Pending(e)'
    BY <1>10, <2>1, <2>2 DEF Pending, RunsFor, Runs
  <2>4. \A e \in Docs : (Open(e)' <=> Open(e)) /\ (Fresh(e)' <=> Fresh(e))
    BY <2>1 DEF Open, Fresh
  <2> QED
    BY <2>1, <2>3, <2>4, OwedKept
<1>12. CASE CompleteFiles
  <2>1. /\ UNCHANGED <<docs, jobs, inflight, readers, queue, shown, lost>>
        /\ (out' = out /\ file' = file) \/ out' = Append(out, [type |-> "relint"])
    BY <1>12 DEF CompleteFiles
  <2>2. \A e \in Docs : Pending(e) => Pending(e)'
    BY <1>10, <2>1 DEF Pending, RunsFor, Runs, JobFor
  <2>3. \A e \in Docs : (Open(e)' <=> Open(e))
    BY <2>1 DEF Open
  <2>4. CASE file' = file
    <3>1. \A e \in Docs : Fresh(e)' <=> Fresh(e)
      BY <2>1, <2>4 DEF Fresh
    <3> QED
      BY <2>1, <2>2, <2>3, <3>1, OwedKept
  <2>5. CASE out' = Append(out, [type |-> "relint"])
    <3>1. out' # out
      BY <1>2, <2>5
    <3>2. \A e \in Docs : Pending(e)'
      BY <1>10, <2>5, <3>1 DEF Pending
    <3> QED
      BY <3>2 DEF OwedInv
  <2> QED
    BY <2>1, <2>4, <2>5
<1>13. CASE WorkerDispatch \/ WorkerTick
  BY <1>1, <1>13, DispatchKeepsOwed DEF WorkerDispatch, WorkerTick
<1>14. CASE WorkerDone
  <2>1. /\ done # <<>> /\ UNCHANGED <<docs, jobs, out, shown, file>>
        /\ TryDispatch(IF inflight = Head(done) THEN Nothing ELSE inflight)
    BY <1>14 DEF WorkerDone
  <2>2. Head(done) = done[1] /\ 1 \in DOMAIN done /\ Head(done) \in Requests
    BY <1>2, <2>1, HeadOf
  <2>3. CASE inflight = Head(done)
    <3>1. inflight # Nothing
      <4>1. DOMAIN Head(done) = {"doc", "version", "stamp"} /\ DOMAIN Nothing = {"version"}
        BY <2>2 DEF Requests, Nothing
      <4>2. "doc" \in DOMAIN Head(done) /\ "doc" \notin DOMAIN Nothing
        BY <4>1
      <4> QED
        BY <2>3, <4>2
    <3>2. ~Runs(inflight)
      BY <2>2, <2>3, <3>1 DEF FlowInv, SlotInv, Ended
    <3> QED
      BY <1>1, <2>1, <2>3, <3>2, DispatchKeepsOwed
  <2>4. CASE inflight # Head(done)
    BY <1>1, <2>1, <2>4, DispatchKeepsOwed
  <2> QED
    BY <2>3, <2>4
<1>15. ASSUME UNCHANGED <<docs, jobs, queue, inflight, shown, file, out, lost>>,
              \A x \in Requests : Runs(x) => Runs(x)'
       PROVE  OwedInv'
  <2>1. \A d : RunsFor(d) => RunsFor(d)'
    <3>1. ASSUME inflight # Nothing, Runs(inflight)
          PROVE  Runs(inflight)'
      <4>1. PICK q \in Requests : q = inflight
        BY <1>2, <3>1 DEF Slots
      <4>2. Runs(q)'
        BY <1>15, <3>1, <4>1
      <4> QED
        BY <1>15, <4>1, <4>2 DEF Runs
    <3> QED
      BY <1>15, <3>1 DEF RunsFor
  <2>2. \A e \in Docs : Pending(e) => Pending(e)'
    BY <1>15, <2>1 DEF Pending, JobFor, ResultFor, Relinting
  <2>3. \A e \in Docs : (Open(e)' <=> Open(e)) /\ (Fresh(e)' <=> Fresh(e))
    BY <1>15 DEF Open, Fresh
  <2> QED
    BY <1>15, <2>2, <2>3, OwedKept
<1>16. CASE WorkerCancel
  <2>1. UNCHANGED <<docs, jobs, queue, inflight, shown, file, out, lost>>
    BY <1>16 DEF WorkerCancel
  <2>2. ASSUME NEW s \in DOMAIN readers, readers[s].phase = "running"
        PROVE  /\ s \in DOMAIN readers' /\ readers'[s].phase = "running"
               /\ readers'[s].request = readers[s].request
    <3>1. s \in DOMAIN readers' /\ readers'[s] = [readers[s] EXCEPT !.cancelled = TRUE]
      BY <1>16, <2>2 DEF WorkerCancel, Holders
    <3>2. readers[s] \in Readers
      BY <1>2
    <3>3. DOMAIN readers[s] = {"phase", "request", "cancelled", "snapshot"}
      BY <2>2, <3>2 DEF Readers, Idle
    <3> QED
      BY <2>2, <3>1, <3>3
  <2> QED
    BY <1>15, <2>1, <2>2 DEF Runs
<1>17. ASSUME NEW s \in 1 .. PoolSize, Publish(s) \/ Unwind(s)
       PROVE  OwedInv'
  <2>1. PICK q \in Requests : q = readers[s].request /\ readers[s].phase = "running"
    BY <1>1, <1>2, <1>17, RunningTyped DEF Publish, Unwind
  <2>2. /\ UNCHANGED <<docs, jobs, queue, inflight, shown, file>>
        /\ readers' = [readers EXCEPT ![s] = [phase |-> "returning"]]
    BY <1>17 DEF Publish, Unwind, Finish
  <2>3. \A x : Runs(x) => x = q \/ Runs(x)'
    BY <1>2, <2>1, <2>2 DEF Runs
  <2>4. \A d \in Docs : RunsFor(d) => RunsFor(d)' \/ (inflight = q /\ d = q.doc)
    <3>1. ASSUME Runs(inflight), inflight # q
          PROVE  Runs(inflight)'
      <4>1. PICK x : x = inflight
        OBVIOUS
      <4>2. Runs(x)'
        BY <2>3, <3>1, <4>1
      <4> QED
        BY <2>2, <4>1, <4>2 DEF Runs
    <3> QED
      BY <2>2, <3>1 DEF RunsFor
  <2>5. \A e \in Docs : (Open(e)' <=> Open(e)) /\ (Fresh(e)' <=> Fresh(e)) /\ (JobFor(e)' <=> JobFor(e))
    BY <2>2 DEF Open, Fresh, JobFor
  <2>6. CASE Publish(s)
    <3>1. PICK m \in Outbound : m = [type |-> "diagnostics", doc |-> readers[s].request.doc,
                         version |-> readers[s].request.version, stamp |-> readers[s].request.stamp,
                         snapshot |-> readers[s].snapshot]
      BY <1>1, <1>2, <2>1, RunningTyped DEF Outbound
    <3>2. out' = Append(out, m) /\ lost' = lost
      BY <2>6, <3>1 DEF Publish
    <3>3. m.type = "diagnostics" /\ m.doc = q.doc
      BY <2>1, <3>1
    <3>4. /\ \A i \in DOMAIN out : out'[i] = out[i] /\ i \in DOMAIN out'
          /\ out'[Len(out) + 1] = m /\ Len(out) + 1 \in DOMAIN out'
      BY <1>2, <3>2, AppendOf
    <3>5. (Relinting => Relinting') /\ (\A d : ResultFor(d) => ResultFor(d)') /\ ResultFor(q.doc)'
      <4>1. PICK d : d = q.doc
        OBVIOUS
      <4> QED
        BY <2>1, <3>3, <3>4 DEF Relinting, ResultFor
    <3>6. \A e \in Docs : Pending(e) => Pending(e)'
      BY <2>2, <2>4, <2>5, <3>5 DEF Pending
    <3> QED
      BY <2>5, <3>2, <3>6, OwedKept
  <2>7. CASE Unwind(s)
    <3>1. out' = out /\ lost \subseteq lost' /\ (inflight = q => q.doc \in lost')
      BY <2>1, <2>7 DEF Unwind
    <3>2. \A e \in Docs : Pending(e) => e \in lost' \/ Pending(e)'
      BY <2>2, <2>4, <2>5, <3>1 DEF Pending, ResultFor, Relinting
    <3> QED
      BY <2>5, <3>1, <3>2, OwedKept
  <2> QED
    BY <1>17, <2>6, <2>7
<1>18. ASSUME NEW s \in 1 .. PoolSize, Return(s)
       PROVE  OwedInv'
  <2>1. /\ UNCHANGED <<docs, jobs, queue, inflight, shown, file, out, lost>>
        /\ readers[s].phase = "returning" /\ readers' = [readers EXCEPT ![s] = Idle]
    BY <1>18 DEF Return
  <2>2. \A x : Runs(x) => Runs(x)'
    BY <1>2, <2>1 DEF Runs
  <2> QED
    BY <1>15, <2>1, <2>2
<1>19. CASE DidChangeIgnored \/ DiskChange \/ (\E observed \in BOOLEAN : ReadPlan(observed)) \/ Wait \/ UNCHANGED vars
  <2>1. UNCHANGED <<docs, jobs, queue, inflight, shown, file, out, lost, readers>>
    BY <1>19 DEF DidChangeIgnored, DiskChange, ReadPlan, Wait, vars
  <2> QED
    BY <1>15, <2>1 DEF Runs
<1> QED
  BY <1>4, <1>5, <1>6, <1>8, <1>9, <1>11, <1>12, <1>13, <1>14, <1>16, <1>17, <1>18, <1>19
     DEF Next, Editor, Work, Read

(* Once the server is quiet, an open document whose last analysis was not   *)
(* cancelled shows the diagnostics of its text, for any number of documents *)
(* and threads: coalescing, stale results, and waiting for files, for the   *)
(* slot and for a permit lose nothing.                                      *)
THEOREM QuietShowsAll == Spec => []QuietIsUpToDate
<1>1. Init => FlowInv /\ OwedInv
  BY FlowInit, OwedInit
<1>2. PresentInv /\ FlowInv /\ OwedInv /\ [Next]_vars => FlowInv' /\ OwedInv'
  BY FlowStep, OwedStep DEF PresentInv
<1>3. ASSUME PresentInv, OwedInv
      PROVE  QuietIsUpToDate
  <2>1. SUFFICES ASSUME Quiet, NEW d \in Docs, Open(d), d \notin lost
                 PROVE  UpToDate(d)
    BY DEF QuietIsUpToDate
  <2>2. DOMAIN jobs = {} /\ DOMAIN out = {} /\ plan = NoPlan
    BY <2>1 DEF Quiet
  <2>3. ~(queue[d].version > 0)
    BY <2>1 DEF Quiet, NoRequest
  <2>4. \A s \in DOMAIN readers : readers[s].phase # "running"
    BY <2>1 DEF Quiet, Idle
  <2>5. Fresh(d)
    BY <1>3, <2>1, <2>2, <2>3, <2>4 DEF OwedInv, Pending, JobFor, RunsFor, Runs, ResultFor, Relinting
  <2>6. file >= reported
    BY <1>3, <2>2 DEF PresentInv, FileInv, FileAwaited, WatchedComes
  <2> QED
    BY <2>5, <2>6 DEF Fresh, UpToDate
<1> QED
  BY <1>1, <1>2, <1>3, PresentInvariant, PTL DEF Spec
=============================================================================
