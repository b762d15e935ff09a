------------------------ MODULE EditAdmissionProofs ------------------------
(***************************************************************************)
(* What holds of EditAdmission for every set of documents, every pool and  *)
(* all bounds: edits that are admitted were computed from what the editor  *)
(* has, and from contents of the file no older than the watcher reported;  *)
(* they are refused only if a client said something since their request    *)
(* arrived, or the server found newer contents than they were computed     *)
(* from.                                                                   *)
(***************************************************************************)
EXTENDS EditAdmission, TLAPS

-----------------------------------------------------------------------------
(* Facts about the sequences that stand for channels.                       *)

(* The first message of a channel, and the channel without it.              *)
LEMMA HeadOf ==
  ASSUME NEW S, NEW q \in Seq(S), q # <<>>
  PROVE  /\ Head(q) \in S /\ Head(q) = q[1] /\ 1 \in DOMAIN q
         /\ Tail(q) \in Seq(S) /\ DOMAIN q = 1..Len(q)
         /\ DOMAIN Tail(q) = 1..Len(q) - 1 /\ Len(q) \in Nat
         /\ \A i \in DOMAIN Tail(q) : Tail(q)[i] = q[i + 1] /\ i + 1 \in DOMAIN q
         /\ \A i \in DOMAIN q : i = 1 \/ (i - 1 \in DOMAIN Tail(q) /\ Tail(q)[i - 1] = q[i])
OBVIOUS

(* A channel with one more message.                                         *)
LEMMA AppendOf ==
  ASSUME NEW S, NEW q \in Seq(S), NEW m \in S
  PROVE  /\ Append(q, m) \in Seq(S) /\ Len(q) \in Nat
         /\ DOMAIN q = 1..Len(q) /\ DOMAIN Append(q, m) = 1..Len(q) + 1
         /\ \A i \in DOMAIN q : Append(q, m)[i] = q[i]
         /\ Append(q, m)[Len(q) + 1] = m
OBVIOUS

-----------------------------------------------------------------------------
(* Types.                                                                   *)

Messages ==
  [type : {"started"}, id : Requests] \cup [type : {"relint"}, file : Nat] \cup Responses

Plans ==
  {NoPlan} \cup [state : {"queued"}, token : Nat] \cup [state : {"read"}, token : Nat, file : Nat]

Readers == {NoReader} \cup [state : {"running"}, cancelled : BOOLEAN, snapshot : Snapshots]

Contexts == [stamp : Nat, discovery : Nat, versions : [Docs -> Nat], told : Nat]

(* What acquire_files does to the plan that was there.                      *)
LEMMA AcquireEffect ==
  ASSUME NEW want \in BOOLEAN, NEW reserved \in Nat, NEW current \in Plans,
         AcquireFiles(want, reserved, current)
  PROVE  /\ wanted' \in BOOLEAN /\ generation' \in Nat /\ plan' \in Plans
         /\ reserved <= generation'
         /\ \/ plan' = current /\ generation' = reserved /\ (current # NoPlan \/ ~want)
            \/ plan' = [state |-> "queued", token |-> generation'] /\ plan' # NoPlan
<1>1. CASE current # NoPlan \/ ~want
  BY <1>1 DEF AcquireFiles
<1>2. CASE ~(current # NoPlan \/ ~want)
  <2>1. wanted' = FALSE /\ generation' = reserved + 1
        /\ plan' = [state |-> "queued", token |-> reserved + 1]
    BY <1>2 DEF AcquireFiles
  <2>2. plan' \in Plans
    BY <2>1 DEF Plans
  <2>3. plan' # NoPlan
    BY <2>1 DEF NoPlan
  <2>4. generation' \in Nat /\ reserved <= generation'
    BY <2>1
  <2>5. wanted' \in BOOLEAN
    BY <2>1
  <2>6. plan' = [state |-> "queued", token |-> generation']
    BY <2>1
  <2> QED
    BY <2>2, <2>3, <2>4, <2>5, <2>6
<1> QED
  BY <1>1, <1>2

(* The read of a request starts.                                            *)
LEMMA StartTyped ==
  ASSUME TypeOK, NEW r \in Requests, Start(r)
  PROVE  out' \in Seq(Messages) /\ reader' \in [Requests -> Readers]
<1>1. out \in Seq(Messages) /\ reader \in [Requests -> Readers]
      /\ overlay \in [Docs -> Nat] /\ file \in Nat
  BY DEF TypeOK, Messages, Readers
<1>2. [type |-> "started", id |-> r] \in Messages
  BY DEF Messages
<1>3. [texts |-> overlay, file |-> file] \in Snapshots
  BY <1>1 DEF Snapshots
<1>4. [state |-> "running", cancelled |-> FALSE, snapshot |-> [texts |-> overlay, file |-> file]]
        \in Readers
  BY <1>3 DEF Readers
<1> QED
  BY <1>1, <1>2, <1>4 DEF Start

LEMMA ExecuteTyped ==
  ASSUME TypeOK, NEW r \in Requests, ExecuteRequest(r)
  PROVE  /\ out' \in Seq(Messages) /\ reader' \in [Requests -> Readers]
         /\ deferred' \in Seq(Requests)
<1>1. CASE InFlight
  <2>1. deferred' = Append(deferred, r) /\ UNCHANGED <<out, reader>>
    BY <1>1 DEF ExecuteRequest
  <2>2. deferred \in Seq(Requests) /\ out \in Seq(Messages) /\ reader \in [Requests -> Readers]
    BY DEF TypeOK, Messages, Readers
  <2> QED
    BY <2>1, <2>2
<1>2. CASE ~InFlight
  BY <1>2, StartTyped DEF ExecuteRequest, TypeOK
<1> QED
  BY <1>1, <1>2

LEMMA HandleRequestTyped ==
  ASSUME TypeOK, NEW r \in Requests, HandleRequest(r)
  PROVE  /\ out' \in Seq(Messages) /\ reader' \in [Requests -> Readers]
         /\ deferred' \in Seq(Requests) /\ queued' \in Seq(Requests)
         /\ wanted' \in BOOLEAN /\ generation' \in Nat /\ plan' \in Plans /\ plans' \in Nat
<1>1. /\ out \in Seq(Messages) /\ reader \in [Requests -> Readers]
      /\ deferred \in Seq(Requests) /\ queued \in Seq(Requests)
      /\ wanted \in BOOLEAN /\ generation \in Nat /\ plan \in Plans /\ plans \in Nat
  BY DEF TypeOK, Messages, Readers, Plans
<1>2. CASE /\ plans' = plans + 1 /\ AcquireFiles(TRUE, generation, plan)
           /\ deferred' = Append(deferred, r) /\ UNCHANGED <<out, queued, reader>>
  <2>1. wanted' \in BOOLEAN /\ generation' \in Nat /\ plan' \in Plans
    BY <1>1, <1>2, AcquireEffect
  <2> QED
    BY <1>1, <1>2, <2>1
<1>3. CASE deferred' = Append(deferred, r) /\ UNCHANGED <<acquisition, out, queued, reader>>
  BY <1>1, <1>3 DEF acquisition
<1>4. CASE queued' = Append(queued, r) /\ UNCHANGED <<acquisition, out, deferred, reader>>
  BY <1>1, <1>4 DEF acquisition
<1>5. CASE ExecuteRequest(r) /\ UNCHANGED <<acquisition, queued>>
  <2>1. /\ out' \in Seq(Messages) /\ reader' \in [Requests -> Readers]
        /\ deferred' \in Seq(Requests)
    BY <1>5, ExecuteTyped
  <2> QED
    BY <1>1, <1>5, <2>1 DEF acquisition
<1> QED
  BY <1>2, <1>3, <1>4, <1>5 DEF HandleRequest

(* TypeOK with the names of this module.                                    *)
LEMMA Types ==
  TypeOK <=>
    /\ docs \in [Docs -> [version : Nat, text : Nat]]
    /\ stamp \in Nat /\ discovery \in Nat
    /\ context \in [Requests -> Contexts]
    /\ received \in 0 .. MaxRequests
    /\ changes \in Nat /\ reported \in Nat /\ relinted \in Nat /\ disk \in Nat
    /\ jobs \in Seq(Jobs) /\ out \in Seq(Messages) /\ boundary \in Seq(Responses)
    /\ wpc \in {"select", "drain", "resume", "dispatch", "write", "write files"}
    /\ overlay \in [Docs -> Nat] /\ file \in Nat
    /\ wanted \in BOOLEAN /\ generation \in Nat /\ plans \in Nat /\ plan \in Plans
    /\ deferred \in Seq(Requests) /\ batch \in Seq(Requests) /\ queued \in Seq(Requests)
    /\ reader \in [Requests -> Readers]
    /\ answer \in [Requests -> {NoAnswer, Refused, Failed} \cup
         [kind : {"edits"}, versions : [Docs -> Nat], snapshot : Snapshots]]
BY DEF TypeOK, Messages, Plans, Readers, Contexts

LEMMA NotifyTyped ==
  ASSUME TypeOK, NEW d \in Docs, NEW document \in [version : Nat, text : Nat], NEW job \in Jobs,
         Notify(document, d, job)
  PROVE  TypeOK'
<1>0. docs \in [Docs -> [version : Nat, text : Nat]] /\ jobs \in Seq(Jobs)
      /\ changes \in Nat /\ stamp \in Nat
  BY DEF TypeOK
<1>1. docs' \in [Docs -> [version : Nat, text : Nat]]
  BY <1>0 DEF Notify
<1>2. jobs' \in Seq(Jobs)
  BY <1>0 DEF Notify
<1>3. changes' \in Nat /\ stamp' \in Nat
  BY <1>0 DEF Notify
<1> QED
  BY <1>1, <1>2, <1>3 DEF Notify, TypeOK, worker, acquisition, waiting

LEMMA TypeStep == TypeOK /\ [Next]_vars => TypeOK'
<1> SUFFICES ASSUME TypeOK, [Next]_vars
             PROVE  TypeOK'
  OBVIOUS
<1> USE DEF main, acquisition, waiting, worker
<1> DEFINE Answers == {NoAnswer, Refused, Failed} \cup
             [kind : {"edits"}, versions : [Docs -> Nat], snapshot : Snapshots]
<1>0. /\ docs \in [Docs -> [version : Nat, text : Nat]]
      /\ stamp \in Nat /\ discovery \in Nat
      /\ context \in [Requests -> Contexts] /\ received \in 0 .. MaxRequests
      /\ changes \in Nat /\ reported \in Nat /\ relinted \in Nat /\ disk \in Nat
      /\ jobs \in Seq(Jobs) /\ out \in Seq(Messages) /\ boundary \in Seq(Responses)
      /\ overlay \in [Docs -> Nat] /\ file \in Nat
      /\ wanted \in BOOLEAN /\ generation \in Nat /\ plans \in Nat /\ plan \in Plans
      /\ deferred \in Seq(Requests) /\ batch \in Seq(Requests) /\ queued \in Seq(Requests)
      /\ reader \in [Requests -> Readers] /\ answer \in [Requests -> Answers]
  BY Types
<1>1. ASSUME NEW d \in Docs, DidOpen(d)
      PROVE  TypeOK'
  <2>1. changes + 1 \in Nat
    BY <1>0
  <2>2. [version |-> 1, text |-> changes + 1] \in [version : Nat, text : Nat]
    BY <2>1
  <2>3. [type |-> "edit", doc |-> d, opened |-> TRUE, text |-> changes + 1] \in Jobs
    BY <2>1 DEF Jobs
  <2> QED
    BY <1>1, <2>2, <2>3, NotifyTyped DEF DidOpen
<1>2. ASSUME NEW d \in Docs, NEW text \in {docs[d].text, changes + 1}, DidChange(d, text)
      PROVE  TypeOK'
  <2>1. text \in Nat /\ docs[d].version + 1 \in Nat
    BY <1>0
  <2>2. [version |-> docs[d].version + 1, text |-> text] \in [version : Nat, text : Nat]
    BY <2>1
  <2>3. [type |-> "edit", doc |-> d, opened |-> FALSE, text |-> text] \in Jobs
    BY <2>1 DEF Jobs
  <2> QED
    BY <1>2, <2>2, <2>3, NotifyTyped DEF DidChange
<1>3. ASSUME NEW d \in Docs, DidClose(d)
      PROVE  TypeOK'
  <2>1. Closed \in [version : Nat, text : Nat]
    BY DEF Closed, NoText
  <2>2. [type |-> "close", doc |-> d] \in Jobs
    BY DEF Jobs
  <2> QED
    BY <1>3, <2>1, <2>2, NotifyTyped DEF DidClose
<1>4. ASSUME DiskChange
      PROVE  TypeOK'
  <2>1. disk' \in Nat
    BY <1>0, <1>4 DEF DiskChange
  <2> QED
    BY <1>4, <2>1 DEF DiskChange, TypeOK
<1>5. ASSUME DidChangeWatchedFile
      PROVE  TypeOK'
  <2>1. [type |-> "watched", at |-> disk] \in Jobs
    BY <1>0 DEF Jobs
  <2>2. jobs' \in Seq(Jobs) /\ stamp' \in Nat /\ reported' \in Nat
    BY <1>0, <1>5, <2>1 DEF DidChangeWatchedFile
  <2> QED
    BY <1>5, <2>2 DEF DidChangeWatchedFile, TypeOK
<1>6. ASSUME Receive
      PROVE  TypeOK'
  <2> DEFINE r == received + 1
  <2>1. r \in Requests /\ r \in 0..MaxRequests
    BY <1>0, <1>6, EditAdmissionAssumption DEF Receive, Requests
  <2>2. Versions \in [Docs -> Nat] /\ Told \in Nat
    BY <1>0 DEF Versions, Told
  <2>3. [stamp |-> stamp, discovery |-> discovery, versions |-> Versions, told |-> Told] \in Contexts
    BY <1>0, <2>2 DEF Contexts
  <2>4. context' \in [Requests -> Contexts]
    BY <1>0, <1>6, <2>1, <2>3 DEF Receive
  <2>5. [type |-> "request", id |-> r] \in Jobs
    BY <2>1 DEF Jobs
  <2>6. jobs' \in Seq(Jobs) /\ received' \in 0..MaxRequests
    BY <1>0, <1>6, <2>1, <2>5 DEF Receive
  <2> QED
    BY <1>6, <2>4, <2>6, Types DEF Receive, TypeOK, Contexts
<1>7. ASSUME TakeOutbound
      PROVE  TypeOK'
  <2> DEFINE m == Head(out)
  <2>1. m \in Messages /\ out' \in Seq(Messages)
    BY <1>0, <1>7, HeadOf DEF TakeOutbound
  <2> HIDE DEF m
  <2>2. CASE m.type = "started" /\ ReadStarted(m.id)
             /\ UNCHANGED <<stamp, discovery, relinted, boundary>>
    <3>1. m.id \in Requests
      BY <2>1, <2>2 DEF Messages, Responses
    <3>2. PICK k \in Requests : k = m.id
      BY <3>1
    <3>3. \/ context' = context
          \/ context' = [context EXCEPT ![k].stamp = stamp, ![k].discovery = discovery]
      BY <2>2, <3>2 DEF ReadStarted
    <3>4. context' \in [Requests -> Contexts]
      <4>1. PICK u : u = [context[k] EXCEPT !.stamp = stamp]
        OBVIOUS
      <4>2. PICK v : v = [u EXCEPT !.discovery = discovery]
        OBVIOUS
      <4>3. context[k] \in Contexts
        BY <1>0, <3>2
      <4>4. u \in Contexts
        BY <1>0, <4>1, <4>3 DEF Contexts
      <4>5. v \in Contexts
        BY <1>0, <4>2, <4>4 DEF Contexts
      <4>6. context' = context \/ context' = [context EXCEPT ![k] = v]
        BY <1>0, <3>2, <3>3, <4>1, <4>2
      <4> QED
        BY <1>0, <4>5, <4>6
    <3> QED
      BY <1>7, <2>1, <2>2, <3>4 DEF TakeOutbound, TypeOK, Messages, Contexts
  <2>3. CASE m.type = "relint" /\ stamp' = stamp + 1 /\ discovery' = discovery + 1
             /\ relinted' = m.file /\ UNCHANGED <<context, boundary>>
    <3>1. m.file \in Nat
      BY <2>1, <2>3 DEF Messages, Responses
    <3>2. stamp' \in Nat /\ discovery' \in Nat /\ relinted' \in Nat
      BY <1>0, <2>3, <3>1
    <3> QED
      BY <1>7, <2>1, <2>3, <3>2 DEF TakeOutbound, TypeOK, Messages
  <2>4. CASE m.type = "response" /\ boundary' = Append(boundary, m)
             /\ UNCHANGED <<stamp, discovery, context, relinted>>
    <3>1. m \in Responses
      BY <2>1, <2>4 DEF Messages
    <3>2. boundary' \in Seq(Responses)
      BY <1>0, <2>4, <3>1
    <3> QED
      BY <1>7, <2>1, <2>4, <3>2 DEF TakeOutbound, TypeOK, Messages
  <2> QED
    BY <1>7, <2>2, <2>3, <2>4 DEF TakeOutbound, m
<1>8. ASSUME TakeResponse
      PROVE  TypeOK'
  <2> DEFINE m == Head(boundary)
             value == IF ~m.ok THEN Failed
                      ELSE IF context[m.id].stamp # stamp THEN Refused
                      ELSE [kind |-> "edits", versions |-> context[m.id].versions,
                            snapshot |-> m.snapshot]
  <2>1. m \in Responses /\ boundary' \in Seq(Responses)
    BY <1>0, <1>8, HeadOf DEF TakeResponse
  <2>2. m.id \in Requests /\ (m.ok => m.snapshot \in Snapshots)
    BY <2>1 DEF Responses
  <2>3. context[m.id].versions \in [Docs -> Nat]
    BY <1>0, <2>2 DEF Contexts
  <2>4. value \in Answers
    BY <2>2, <2>3
  <2>5. answer' = [answer EXCEPT ![m.id] = value]
    BY <1>8 DEF TakeResponse
  <2> HIDE DEF m, value, Answers
  <2>6. answer' \in [Requests -> Answers]
    BY <1>0, <2>2, <2>4, <2>5
  <2> QED
    BY <1>8, <2>1, <2>6 DEF TakeResponse, TypeOK, Answers
<1>9. ASSUME WorkerCancel
      PROVE  TypeOK'
  <2>1. \A r \in Requests : reader'[r] \in Readers
    <3> TAKE r \in Requests
    <3>1. CASE r \in Holders
      <4>1. reader[r] \in [state : {"running"}, cancelled : BOOLEAN, snapshot : Snapshots]
        BY <1>0, <3>1 DEF Holders, Readers, NoReader
      <4>2. reader'[r] = [reader[r] EXCEPT !.cancelled = TRUE]
        BY <1>9, <3>1 DEF WorkerCancel
      <4> QED
        BY <4>1, <4>2 DEF Readers
    <3>2. CASE r \notin Holders
      BY <1>0, <1>9, <3>2 DEF WorkerCancel
    <3> QED
      BY <3>1, <3>2
  <2>2. reader' \in [Requests -> Readers]
    BY <1>9, <2>1 DEF WorkerCancel
  <2>3. wpc' \in {"select", "drain", "resume", "dispatch", "write", "write files"}
    BY <1>9 DEF WorkerCancel
  <2> QED
    BY <1>9, <2>2, <2>3 DEF WorkerCancel, TypeOK, Readers
<1>10. ASSUME NEW needs \in BOOLEAN, HandleEdit(needs)
       PROVE  TypeOK'
  <2>1. Head(jobs) \in Jobs /\ Tail(jobs) \in Seq(Jobs) /\ Head(jobs).type = "edit"
    BY <1>0, <1>10, HeadOf DEF HandleEdit, Handles
  <2>2. Head(jobs).text \in Nat
    BY <2>1 DEF Jobs
  <2>3. overlay' \in [Docs -> Nat]
    BY <1>0, <1>10, <2>2 DEF HandleEdit
  <2>4. (wanted \/ needs) \in BOOLEAN
    OBVIOUS
  <2>5. wanted' \in BOOLEAN /\ generation' \in Nat /\ plan' \in Plans
    BY <1>0, <1>10, <2>4, AcquireEffect DEF HandleEdit
  <2> QED
    BY <1>10, <2>1, <2>3, <2>5 DEF HandleEdit, TypeOK, Plans
<1>11. ASSUME HandleClose
       PROVE  TypeOK'
  <2>1. Tail(jobs) \in Seq(Jobs)
    BY <1>0, <1>11, HeadOf DEF HandleClose, Handles
  <2>2. overlay' \in [Docs -> Nat]
    BY <1>0, <1>11 DEF HandleClose, NoText
  <2>3. wanted' \in BOOLEAN /\ generation' \in Nat /\ plan' \in Plans
    <3>1. generation + 1 \in Nat
      BY <1>0
    <3> QED
      BY <1>0, <1>11, <3>1, AcquireEffect DEF HandleClose, RefreshBacking
  <2>4. out' \in Seq(Messages)
    <3>1. [type |-> "relint", file |-> file] \in Messages
      BY <1>0 DEF Messages
    <3> QED
      BY <1>0, <1>11, <3>1 DEF HandleClose, Relint
  <2> QED
    BY <1>11, <2>1, <2>2, <2>3, <2>4 DEF HandleClose, TypeOK, Plans, Messages
<1>12. ASSUME HandleWatched
       PROVE  TypeOK'
  <2>1. Head(jobs) \in Jobs /\ Tail(jobs) \in Seq(Jobs) /\ Head(jobs).type = "watched"
    BY <1>0, <1>12, HeadOf DEF HandleWatched, Handles
  <2>2. Head(jobs).at \in Nat
    BY <2>1 DEF Jobs
  <2>3. wanted' \in BOOLEAN /\ generation' \in Nat /\ plan' \in Plans
    <3>1. generation + 1 \in Nat
      BY <1>0
    <3> QED
      BY <1>0, <1>12, <3>1, AcquireEffect DEF HandleWatched, RefreshBacking
  <2>4. out' \in Seq(Messages) /\ file' \in Nat
    <3>1. [type |-> "relint", file |-> Head(jobs).at] \in Messages
      BY <2>2 DEF Messages
    <3>2. \/ file' = Head(jobs).at /\ out' = Append(out, [type |-> "relint", file |-> Head(jobs).at])
          \/ UNCHANGED <<file, out>>
      BY <1>12 DEF HandleWatched, Relint
    <3>3. PICK m \in Messages : m = [type |-> "relint", file |-> Head(jobs).at]
      BY <3>1
    <3>4. Append(out, m) \in Seq(Messages)
      BY <1>0, <3>3
    <3> QED
      BY <1>0, <2>2, <3>2, <3>3, <3>4
  <2> QED
    BY <1>12, <2>1, <2>3, <2>4 DEF HandleWatched, TypeOK, Plans, Messages
<1>13. ASSUME CompleteFiles
       PROVE  TypeOK'
  <2>1. plan.file \in Nat /\ NoPlan \in Plans
    <3>1. plan.state = "read"
      BY <1>13 DEF CompleteFiles, HandlesFiles
    <3>2. plan \in [state : {"read"}, token : Nat, file : Nat]
      BY <1>0, <3>1 DEF Plans, NoPlan
    <3> QED
      BY <3>2 DEF Plans
  <2>2. (wanted \/ ~Applied) \in BOOLEAN
    OBVIOUS
  <2>3. wanted' \in BOOLEAN /\ generation' \in Nat /\ plan' \in Plans
    BY <1>0, <1>13, <2>1, <2>2, AcquireEffect DEF CompleteFiles
  <2>4. out' \in Seq(Messages) /\ file' \in Nat
    <3>1. [type |-> "relint", file |-> plan.file] \in Messages
      BY <2>1 DEF Messages
    <3> QED
      BY <1>0, <1>13, <2>1, <3>1 DEF CompleteFiles, Relint
  <2>5. batch' \in Seq(Requests) /\ deferred' \in Seq(Requests)
    BY <1>0, <1>13 DEF CompleteFiles
  <2> QED
    BY <1>13, <2>3, <2>4, <2>5 DEF CompleteFiles, TypeOK, Plans, Messages
<1>14. ASSUME WorkerRequest
       PROVE  TypeOK'
  <2>1. Head(jobs) \in Jobs /\ Tail(jobs) \in Seq(Jobs) /\ Head(jobs).type = "request"
    BY <1>0, <1>14, HeadOf DEF WorkerRequest, Handles
  <2>2. Head(jobs).id \in Requests
    BY <2>1 DEF Jobs
  <2>3. HandleRequest(Head(jobs).id)
    BY <1>14 DEF WorkerRequest
  <2>4. /\ out' \in Seq(Messages) /\ reader' \in [Requests -> Readers]
        /\ deferred' \in Seq(Requests) /\ queued' \in Seq(Requests)
        /\ wanted' \in BOOLEAN /\ generation' \in Nat /\ plan' \in Plans /\ plans' \in Nat
    BY <2>2, <2>3, HandleRequestTyped
  <2> QED
    BY <1>14, <2>1, <2>4 DEF WorkerRequest, TypeOK, Plans, Messages, Readers
<1>15. ASSUME WorkerResume
       PROVE  TypeOK'
  <2>1. Head(batch) \in Requests /\ Tail(batch) \in Seq(Requests)
    BY <1>0, <1>15, HeadOf DEF WorkerResume
  <2>2. HandleRequest(Head(batch))
    BY <1>15 DEF WorkerResume
  <2>3. /\ out' \in Seq(Messages) /\ reader' \in [Requests -> Readers]
        /\ deferred' \in Seq(Requests) /\ queued' \in Seq(Requests)
        /\ wanted' \in BOOLEAN /\ generation' \in Nat /\ plan' \in Plans /\ plans' \in Nat
    BY <2>1, <2>2, HandleRequestTyped
  <2> QED
    BY <1>15, <2>1, <2>3 DEF WorkerResume, TypeOK, Plans, Messages, Readers
<1>16. ASSUME WorkerDispatchRead
       PROVE  TypeOK'
  <2>1. Head(queued) \in Requests /\ Tail(queued) \in Seq(Requests)
    BY <1>0, <1>16, HeadOf DEF WorkerDispatchRead
  <2>2. /\ out' \in Seq(Messages) /\ reader' \in [Requests -> Readers]
        /\ deferred' \in Seq(Requests)
    BY <1>16, <2>1, ExecuteTyped DEF WorkerDispatchRead
  <2> QED
    BY <1>16, <2>1, <2>2 DEF WorkerDispatchRead, TypeOK, Messages, Readers
<1>17. ASSUME WorkerTurns
       PROVE  TypeOK'
  <2>1. wpc' \in {"select", "drain", "resume", "dispatch", "write", "write files"}
    BY <1>17 DEF WorkerTurns
  <2> QED
    BY <1>17, <2>1 DEF WorkerTurns, TypeOK
<1>18. ASSUME ReadPlan
       PROVE  TypeOK'
  <2>1. plan.token \in Nat
    BY <1>0, <1>18 DEF ReadPlan, Plans, NoPlan
  <2>2. plan' \in Plans
    BY <1>0, <1>18, <2>1 DEF ReadPlan, Plans
  <2> QED
    BY <1>18, <2>2 DEF ReadPlan, TypeOK, Plans
<1>19. ASSUME NEW r \in Requests, Compute(r) \/ Unwind(r)
       PROVE  TypeOK'
  <2>1. PICK m : Respond(r, m) /\ m \in Responses
    <3>1. CASE Compute(r)
      <4>1. reader[r].snapshot \in Snapshots
        BY <1>0, <3>1 DEF Compute, Respond, Readers, NoReader
      <4>2. [type |-> "response", id |-> r, ok |-> TRUE, snapshot |-> reader[r].snapshot] \in Responses
        BY <4>1 DEF Responses
      <4> QED
        BY <3>1, <4>2 DEF Compute
    <3>2. CASE Unwind(r)
      <4>1. [type |-> "response", id |-> r, ok |-> FALSE] \in Responses
        BY DEF Responses
      <4> QED
        BY <3>2, <4>1 DEF Unwind
    <3> QED
      BY <1>19, <3>1, <3>2
  <2>2. m \in Messages
    BY <2>1 DEF Messages
  <2>3. out' \in Seq(Messages) /\ reader' \in [Requests -> Readers]
    BY <1>0, <2>1, <2>2 DEF Respond, Readers
  <2> QED
    BY <2>1, <2>3 DEF Respond, TypeOK, Messages, Readers
<1>20. ASSUME UNCHANGED vars
       PROVE  TypeOK'
  BY <1>20 DEF TypeOK, vars
<1> QED
  BY <1>1, <1>2, <1>3, <1>4, <1>5, <1>6, <1>7, <1>8, <1>9, <1>10, <1>11, <1>12, <1>13, <1>14,
     <1>15, <1>16, <1>17, <1>18, <1>19, <1>20 DEF Next, Editor, Work, Wait

LEMMA TypeInit == Init => TypeOK
<1> SUFFICES ASSUME Init
             PROVE  TypeOK
  OBVIOUS
<1>1. docs \in [Docs -> [version : Nat, text : Nat]] /\ overlay \in [Docs -> Nat]
  BY DEF Init, Closed, NoText
<1>2. context \in [Requests -> Contexts]
  BY DEF Init, NoContext, Contexts
<1>3. reader \in [Requests -> Readers]
  BY DEF Init, Readers
<1>4. answer \in [Requests -> {NoAnswer, Refused, Failed} \cup
         [kind : {"edits"}, versions : [Docs -> Nat], snapshot : Snapshots]]
  BY DEF Init
<1>5. plan \in Plans /\ wanted \in BOOLEAN
  BY DEF Init, Plans
<1>6. /\ stamp \in Nat /\ discovery \in Nat /\ received \in 0 .. MaxRequests
      /\ changes \in Nat /\ reported \in Nat /\ relinted \in Nat /\ disk \in Nat
      /\ file \in Nat /\ generation \in Nat /\ plans \in Nat
  BY EditAdmissionAssumption DEF Init
<1>7. /\ jobs \in Seq(Jobs) /\ out \in Seq(Messages) /\ boundary \in Seq(Responses)
      /\ deferred \in Seq(Requests) /\ batch \in Seq(Requests) /\ queued \in Seq(Requests)
  BY DEF Init
<1>8. wpc \in {"select", "drain", "resume", "dispatch", "write", "write files"}
  BY DEF Init
<1> QED
  BY <1>1, <1>2, <1>3, <1>4, <1>5, <1>6, <1>7, <1>8, Types

(* Channels, queues, plans, readers and answers are well typed.             *)
THEOREM TypeCorrect == Spec => []TypeOK
<1>1. Init => TypeOK
  BY TypeInit
<1>2. TypeOK /\ [Next]_vars => TypeOK'
  BY TypeStep
<1> QED
  BY <1>1, <1>2, PTL DEF Spec

-----------------------------------------------------------------------------
(* The invariant.                                                           *)

(* Discovery raises the stamp and its own counter, and so does a request    *)
(* that absorbs it: the difference counts what clients said.                *)
Fresh(r) == r <= received /\ context[r].stamp - context[r].discovery = stamp - discovery

ContextsInv ==
  \A r \in Requests :
    /\ context[r].discovery <= discovery
    /\ context[r].stamp - context[r].discovery <= stamp - discovery
    /\ Fresh(r) => context[r].versions = Versions

WaitsIn(q, r) == \E i \in DOMAIN q : q[i] = r
Waits(r) == WaitsIn(deferred, r) \/ WaitsIn(batch, r) \/ WaitsIn(queued, r)

(* What is under way belongs to requests that have arrived.                 *)
ArrivedInv ==
  /\ \A i \in DOMAIN jobs : jobs[i].type = "request" => jobs[i].id <= received
  /\ \A r \in Requests : Waits(r) \/ reader[r].state = "running" => r <= received
  /\ \A i \in DOMAIN out : out[i].type = "response" => out[i].id <= received
  /\ \A i \in DOMAIN boundary : boundary[i].id <= received

(* No notification is behind a fresh request: it has reached the worker     *)
(* before the request does.                                                 *)
OnlyRequests == \A i \in DOMAIN jobs : jobs[i].type = "request"

OrderInv ==
  \A r \in Requests : Fresh(r) =>
    /\ \A i, j \in DOMAIN jobs :
         jobs[i].type = "request" /\ jobs[i].id = r /\ jobs[j].type # "request" => j < i
    /\ Waits(r) => OnlyRequests

(* The last job about a document has its text; without one the database     *)
(* has it.                                                                  *)
About(job, d) == job.type \in {"edit", "close"} /\ job.doc = d
TextOf(job) == IF job.type = "edit" THEN job.text ELSE NoText

TextInv ==
  \A d \in Docs :
    /\ \A i \in DOMAIN jobs :
         About(jobs[i], d) /\ (\A j \in DOMAIN jobs : j > i => ~About(jobs[j], d)) =>
           TextOf(jobs[i]) = docs[d].text
    /\ (\A i \in DOMAIN jobs : ~About(jobs[i], d)) => overlay[d] = docs[d].text

(* A plan that may still be applied reads what was reported, once the       *)
(* worker knows of the report, and the file is as new or a plan is under    *)
(* way.                                                                     *)
NothingWatched == \A i \in DOMAIN jobs : jobs[i].type # "watched"

FileInv ==
  /\ reported <= disk
  /\ InFlight => plan.token <= generation
  /\ NothingWatched =>
       /\ plan.state = "read" /\ plan.token = generation => plan.file >= reported
       /\ InFlight \/ file >= reported

(* A snapshot of a fresh request has what the editor has.                   *)
Current(s) == s.file >= reported /\ \A d \in Docs : s.texts[d] = docs[d].text
Computed(m) == m.type = "response" /\ m.ok

ReadInv ==
  /\ \A r \in Requests :
       reader[r].state = "running" /\ Fresh(r) => Current(reader[r].snapshot)
  /\ \A i \in DOMAIN out :
       Computed(out[i]) /\ Fresh(out[i].id) => Current(out[i].snapshot)
  /\ \A i \in DOMAIN boundary :
       Computed(boundary[i]) /\ Fresh(boundary[i].id) => Current(boundary[i].snapshot)

EditInv ==
  TypeOK /\ ContextsInv /\ ArrivedInv /\ OrderInv /\ TextInv /\ FileInv /\ ReadInv

-----------------------------------------------------------------------------
(* Stamps and contexts.                                                     *)

LEMMA ReadStartedEffect ==
  ASSUME TypeOK, NEW k \in Requests, ReadStarted(k)
  PROVE  \A r \in Requests :
           /\ context'[r].versions = context[r].versions /\ context'[r].told = context[r].told
           /\ context'[r].discovery \in {context[r].discovery, discovery}
           /\ context'[r].stamp - context'[r].discovery = context[r].stamp - context[r].discovery
<1>1. context \in [Requests -> Contexts] /\ stamp \in Nat /\ discovery \in Nat
  BY Types
<1>2. context[k] \in Contexts
  BY <1>1
<1>3. context[k].stamp \in Nat /\ context[k].discovery \in Nat
  BY <1>2 DEF Contexts
<1>4. CASE context' = context
  BY <1>4
<1>5. CASE /\ stamp - context[k].stamp = discovery - context[k].discovery
           /\ context' = [context EXCEPT ![k].stamp = stamp, ![k].discovery = discovery]
  <2>1. PICK u : u = [context[k] EXCEPT !.stamp = stamp]
    OBVIOUS
  <2>2. PICK v : v = [u EXCEPT !.discovery = discovery]
    OBVIOUS
  <2>3. context' = [context EXCEPT ![k] = v]
    BY <1>1, <1>5, <2>1, <2>2
  <2>4. /\ u.stamp = stamp /\ u.versions = context[k].versions /\ u.told = context[k].told
        /\ u \in Contexts
    BY <1>1, <1>2, <2>1 DEF Contexts
  <2>5. /\ v.stamp = stamp /\ v.discovery = discovery
        /\ v.versions = context[k].versions /\ v.told = context[k].told
    BY <1>1, <2>2, <2>4 DEF Contexts
  <2>6. context'[k] = v /\ \A r \in Requests \ {k} : context'[r] = context[r]
    BY <1>1, <2>3
  <2>7. stamp - discovery = context[k].stamp - context[k].discovery
    BY <1>1, <1>3, <1>5
  <2> QED
    BY <2>5, <2>6, <2>7
<1> QED
  BY <1>4, <1>5 DEF ReadStarted

(* What a step does to the stamps.                                          *)
StampsKept == UNCHANGED <<docs, stamp, discovery, context, received, reported>>
StampsRaised == stamp' = stamp + 1 /\ UNCHANGED <<discovery, context, received>>
Discovered ==
  stamp' = stamp + 1 /\ discovery' = discovery + 1 /\ UNCHANGED <<docs, context, received, reported>>
Restamped ==
  (\E k \in Requests : ReadStarted(k)) /\ UNCHANGED <<docs, stamp, discovery, received, reported>>

LEMMA StampsElse ==
  ASSUME TypeOK, [Next]_vars
  PROVE  TakeOutbound \/ StampsKept \/ StampsRaised \/ Receive
<1> USE DEF main
<1>1. ASSUME NEW d \in Docs, DidOpen(d) \/ DidClose(d) \/ \E text \in {docs[d].text, changes + 1} : DidChange(d, text)
      PROVE  StampsRaised
  BY <1>1 DEF DidOpen, DidClose, DidChange, Notify, StampsRaised
<1>2. CASE DidChangeWatchedFile
  BY <1>2 DEF DidChangeWatchedFile, StampsRaised
<1>3. CASE DiskChange \/ TakeResponse \/ ReadPlan \/ Wait \/ UNCHANGED vars
  BY <1>3 DEF DiskChange, TakeResponse, ReadPlan, Wait, vars, StampsKept
<1>4. CASE Work
  BY <1>4 DEF Work, WorkerCancel, HandleEdit, HandleClose, HandleWatched, CompleteFiles,
     WorkerRequest, WorkerResume, WorkerDispatchRead, WorkerTurns, StampsKept
<1>5. CASE \E r \in Requests : Compute(r) \/ Unwind(r)
  BY <1>5 DEF Compute, Unwind, Respond, StampsKept
<1> QED
  BY <1>1, <1>2, <1>3, <1>4, <1>5 DEF Next, Editor

LEMMA StampSteps ==
  ASSUME TypeOK, [Next]_vars
  PROVE  StampsKept \/ StampsRaised \/ Receive \/ Discovered \/ Restamped
<1>1. CASE TakeOutbound
  <2>1. out \in Seq(Messages) /\ out # <<>>
    BY <1>1, Types DEF TakeOutbound
  <2>2. Head(out) \in Messages
    BY <2>1, HeadOf
  <2>3. Head(out).type = "started" => Head(out).id \in Requests
    BY <2>2 DEF Messages, Responses
  <2> QED
    BY <1>1, <2>3 DEF TakeOutbound, StampsKept, Discovered, Restamped
<1> QED
  BY <1>1, StampsElse

(* A request is fresh after a step only if it was, or has just arrived; and *)
(* no client said anything in that step.                                    *)
StaysFresh ==
  \A r \in Requests : Fresh(r)' =>
    /\ UNCHANGED <<docs, reported>>
    /\ \/ Fresh(r)
       \/ Receive /\ r = received + 1

LEMMA ContextsStep ==
  ASSUME TypeOK, ContextsInv, [Next]_vars
  PROVE  ContextsInv' /\ StaysFresh
<1>0. stamp \in Nat /\ discovery \in Nat /\ received \in 0..MaxRequests
      /\ context \in [Requests -> Contexts]
  BY Types
<1>1. stamp \in Nat /\ discovery \in Nat /\ received \in Nat
      /\ context \in [Requests -> Contexts]
  BY <1>0
<1>2. \A r \in Requests : /\ context[r].stamp \in Nat /\ context[r].discovery \in Nat
                          /\ r \in Nat
  <2> TAKE r \in Requests
  <2>1. context[r] \in Contexts
    BY <1>1
  <2> QED
    BY <2>1 DEF Contexts, Requests
<1>3. \A r \in Requests :
        /\ context[r].discovery <= discovery
        /\ context[r].stamp - context[r].discovery <= stamp - discovery
        /\ Fresh(r) => context[r].versions = Versions
  BY DEF ContextsInv
<1>4. CASE StampsKept
  BY <1>3, <1>4 DEF StampsKept, ContextsInv, StaysFresh, Fresh, Versions
<1>5. CASE StampsRaised
  <2>1. ASSUME NEW r \in Requests
        PROVE  /\ context'[r].discovery <= discovery'
               /\ context'[r].stamp - context'[r].discovery <= stamp' - discovery'
               /\ context'[r].stamp - context'[r].discovery # stamp' - discovery'
    <3>1. context'[r] = context[r] /\ stamp' = stamp + 1 /\ discovery' = discovery
      BY <1>5 DEF StampsRaised
    <3> QED
      BY <1>1, <1>2, <1>3, <3>1
  <2> QED
    BY <2>1 DEF ContextsInv, StaysFresh, Fresh
<1>6. CASE Receive
  <2> DEFINE n == received + 1
  <2>1. n \in Requests
    BY <1>1, <1>6, EditAdmissionAssumption DEF Receive, Requests
  <2>2. /\ \A r \in Requests \ {n} : context'[r] = context[r]
        /\ context'[n].stamp = stamp /\ context'[n].discovery = discovery
        /\ context'[n].versions = Versions
        /\ UNCHANGED <<docs, stamp, discovery, reported>> /\ received' = n
    BY <1>1, <1>6, <2>1 DEF Receive
  <2>3. \A r \in Requests \ {n} : r <= n => r <= received
    BY <1>1, <1>2
  <2>4. Versions' = Versions
    BY <2>2 DEF Versions
  <2> HIDE DEF n
  <2>5. \A r \in Requests \ {n} : Fresh(r)' => Fresh(r)
    BY <2>2, <2>3 DEF Fresh
  <2>6. ASSUME NEW r \in Requests
        PROVE  /\ context'[r].discovery <= discovery'
               /\ context'[r].stamp - context'[r].discovery <= stamp' - discovery'
    BY <1>1, <1>2, <1>3, <2>2
  <2>7. ASSUME NEW r \in Requests, Fresh(r)'
        PROVE  context'[r].versions = Versions'
    BY <1>3, <2>2, <2>4, <2>5, <2>7
  <2>8. ContextsInv'
    BY <2>6, <2>7 DEF ContextsInv
  <2> USE DEF n
  <2>9. StaysFresh
    BY <1>6, <2>2, <2>5 DEF StaysFresh
  <2> QED
    BY <2>8, <2>9
<1>7. CASE Discovered
  <2>1. /\ stamp' = stamp + 1 /\ discovery' = discovery + 1
        /\ UNCHANGED <<docs, context, received, reported>>
    BY <1>7 DEF Discovered
  <2>2. stamp' - discovery' = stamp - discovery
    BY <1>1, <2>1
  <2>3. ASSUME NEW r \in Requests
        PROVE  context'[r].discovery <= discovery'
    BY <1>1, <1>2, <1>3, <2>1
  <2>4. Versions' = Versions /\ \A r \in Requests : Fresh(r)' <=> Fresh(r)
    BY <2>1, <2>2 DEF Fresh, Versions
  <2> QED
    BY <1>3, <2>1, <2>2, <2>3, <2>4 DEF ContextsInv, StaysFresh
<1>8. CASE Restamped
  <2>1. /\ \A r \in Requests :
             /\ context'[r].versions = context[r].versions
             /\ context'[r].discovery \in {context[r].discovery, discovery}
             /\ context'[r].stamp - context'[r].discovery = context[r].stamp - context[r].discovery
        /\ UNCHANGED <<docs, stamp, discovery, received, reported>>
    BY <1>8, ReadStartedEffect DEF Restamped
  <2>2. Versions' = Versions /\ \A r \in Requests : Fresh(r)' <=> Fresh(r)
    BY <2>1 DEF Fresh, Versions
  <2>3. \A r \in Requests : context'[r].discovery <= discovery'
    BY <1>1, <1>3, <2>1
  <2> QED
    BY <1>3, <2>1, <2>2, <2>3 DEF ContextsInv, StaysFresh
<1> QED
  BY <1>4, <1>5, <1>6, <1>7, <1>8, StampSteps

-----------------------------------------------------------------------------
(* Jobs.                                                                    *)

(* What a step does to the jobs.                                            *)
JobsKept == jobs' = jobs
JobTaken == jobs # <<>> /\ jobs' = Tail(jobs)
JobSent == StampsRaised /\ \E job \in Jobs : job.type # "request" /\ jobs' = Append(jobs, job)

LEMMA NotifiedJob ==
  ASSUME TypeOK, NEW d \in Docs,
         DidOpen(d) \/ DidClose(d) \/ \E text \in {docs[d].text, changes + 1} : DidChange(d, text)
  PROVE  JobSent
<1>0. docs \in [Docs -> [version : Nat, text : Nat]] /\ changes \in Nat
  BY Types
<1>1. CASE DidOpen(d)
  <2>1. [type |-> "edit", doc |-> d, opened |-> TRUE, text |-> changes + 1] \in Jobs
    BY <1>0 DEF Jobs
  <2> QED
    BY <1>1, <2>1 DEF DidOpen, Notify, StampsRaised, JobSent
<1>2. ASSUME NEW text \in {docs[d].text, changes + 1}, DidChange(d, text)
      PROVE  JobSent
  <2>1. [type |-> "edit", doc |-> d, opened |-> FALSE, text |-> text] \in Jobs
    BY <1>0 DEF Jobs
  <2> QED
    BY <1>2, <2>1 DEF DidChange, Notify, StampsRaised, JobSent
<1>3. CASE DidClose(d)
  <2>1. [type |-> "close", doc |-> d] \in Jobs
    BY DEF Jobs
  <2> QED
    BY <1>3, <2>1 DEF DidClose, Notify, StampsRaised, JobSent
<1> QED
  BY <1>1, <1>2, <1>3

LEMMA JobSteps ==
  ASSUME TypeOK, [Next]_vars
  PROVE  JobsKept \/ JobTaken \/ JobSent \/ Receive
<1> USE DEF main
<1>1. CASE DidChangeWatchedFile
  <2>1. [type |-> "watched", at |-> disk] \in Jobs
    BY Types DEF Jobs
  <2> QED
    BY <1>1, <2>1 DEF DidChangeWatchedFile, StampsRaised, JobSent
<1>2. CASE DiskChange \/ TakeOutbound \/ TakeResponse \/ ReadPlan \/ Wait \/ UNCHANGED vars
  BY <1>2 DEF DiskChange, TakeOutbound, TakeResponse, ReadPlan, Wait, vars, JobsKept
<1>3. CASE Work
  BY <1>3 DEF Work, WorkerCancel, HandleEdit, HandleClose, HandleWatched, CompleteFiles,
     WorkerRequest, WorkerResume, WorkerDispatchRead, WorkerTurns, Handles, JobsKept, JobTaken
<1>4. CASE \E r \in Requests : Compute(r) \/ Unwind(r)
  BY <1>4 DEF Compute, Unwind, Respond, JobsKept
<1> QED
  BY <1>1, <1>2, <1>3, <1>4, NotifiedJob DEF Next, Editor

(* A request starts to wait only when the worker takes its job.             *)
Taken(r) == JobTaken /\ Head(jobs).type = "request" /\ Head(jobs).id = r

LEMMA HandleRequestWaits ==
  ASSUME TypeOK, NEW k \in Requests, HandleRequest(k)
  PROVE  \A r \in Requests : WaitsIn(deferred, r)' \/ WaitsIn(queued, r)' =>
           WaitsIn(deferred, r) \/ WaitsIn(queued, r) \/ r = k
<1>1. deferred \in Seq(Requests) /\ queued \in Seq(Requests)
  BY Types
<1>2. deferred' \in {deferred, Append(deferred, k)} /\ queued' \in {queued, Append(queued, k)}
  BY DEF HandleRequest, ExecuteRequest
<1>3. ASSUME NEW q \in Seq(Requests), NEW r \in Requests, WaitsIn(Append(q, k), r)
      PROVE  WaitsIn(q, r) \/ r = k
  <2>1. PICK i \in DOMAIN Append(q, k) : Append(q, k)[i] = r
    BY <1>3 DEF WaitsIn
  <2> QED
    BY <2>1, AppendOf DEF WaitsIn
<1>4. ASSUME NEW r \in Requests, WaitsIn(deferred, r)'
      PROVE  WaitsIn(deferred, r) \/ r = k
  <2>1. WaitsIn(deferred', r)
    BY <1>4 DEF WaitsIn
  <2> QED
    BY <1>1, <1>2, <1>3, <2>1
<1>5. ASSUME NEW r \in Requests, WaitsIn(queued, r)'
      PROVE  WaitsIn(queued, r) \/ r = k
  <2>1. WaitsIn(queued', r)
    BY <1>5 DEF WaitsIn
  <2> QED
    BY <1>1, <1>2, <1>3, <2>1
<1> QED
  BY <1>4, <1>5

LEMMA WaitSteps ==
  ASSUME TypeOK, [Next]_vars
  PROVE  \A r \in Requests : Waits(r)' => Waits(r) \/ Taken(r)
<1> USE DEF main, waiting, worker
<1>0. jobs \in Seq(Jobs) /\ batch \in Seq(Requests) /\ queued \in Seq(Requests)
  BY Types
<1>1. ASSUME UNCHANGED waiting
      PROVE  \A r \in Requests : Waits(r)' => Waits(r)
  BY <1>1 DEF Waits, WaitsIn
<1>2. ASSUME NEW q \in Seq(Requests), NEW r \in Requests, q # <<>>, WaitsIn(Tail(q), r)
      PROVE  WaitsIn(q, r)
  <2>1. PICK i \in DOMAIN Tail(q) : Tail(q)[i] = r
    BY <1>2 DEF WaitsIn
  <2> QED
    BY <1>2, <2>1, HeadOf DEF WaitsIn
<1>3. CASE WorkerRequest
  <2>1. jobs # <<>> /\ Head(jobs) \in Jobs /\ Head(jobs).type = "request"
    BY <1>0, <1>3, HeadOf DEF WorkerRequest, Handles
  <2>2. PICK k \in Requests : k = Head(jobs).id
    BY <2>1 DEF Jobs
  <2>3. HandleRequest(k) /\ jobs' = Tail(jobs) /\ batch' = batch
    BY <1>3, <2>2 DEF WorkerRequest
  <2>4. \A r \in Requests : WaitsIn(deferred, r)' \/ WaitsIn(queued, r)' =>
          WaitsIn(deferred, r) \/ WaitsIn(queued, r) \/ r = k
    BY <2>3, HandleRequestWaits
  <2>5. \A r \in Requests : WaitsIn(batch, r)' <=> WaitsIn(batch, r)
    BY <2>3 DEF WaitsIn
  <2>6. Taken(k)
    BY <2>1, <2>2, <2>3 DEF Taken, JobTaken
  <2> QED
    BY <2>4, <2>5, <2>6 DEF Waits
<1>4. CASE WorkerResume
  <2>1. batch # <<>> /\ Head(batch) \in Requests /\ batch' = Tail(batch)
    BY <1>0, <1>4, HeadOf DEF WorkerResume
  <2>2. WaitsIn(batch, Head(batch))
    BY <1>0, <2>1, HeadOf DEF WaitsIn
  <2>3. PICK k \in Requests : k = Head(batch) /\ HandleRequest(k)
    BY <1>4, <2>1 DEF WorkerResume
  <2>4. \A r \in Requests : WaitsIn(batch, r)' => WaitsIn(batch, r)
    BY <1>0, <1>2, <2>1 DEF WaitsIn
  <2>5. \A r \in Requests : WaitsIn(deferred, r)' \/ WaitsIn(queued, r)' =>
          WaitsIn(deferred, r) \/ WaitsIn(queued, r) \/ r = k
    BY <2>3, HandleRequestWaits
  <2> QED
    BY <2>2, <2>3, <2>4, <2>5 DEF Waits
<1>5. CASE WorkerDispatchRead
  <2>1. queued # <<>> /\ Head(queued) \in Requests /\ queued' = Tail(queued) /\ batch' = batch
    BY <1>0, <1>5, HeadOf DEF WorkerDispatchRead
  <2>2. WaitsIn(queued, Head(queued))
    BY <1>0, <2>1, HeadOf DEF WaitsIn
  <2>3. PICK k \in Requests : k = Head(queued) /\ ExecuteRequest(k)
    BY <1>5, <2>1 DEF WorkerDispatchRead
  <2>4. \A r \in Requests : WaitsIn(queued, r)' => WaitsIn(queued, r)
    BY <1>0, <1>2, <2>1 DEF WaitsIn
  <2>5. deferred \in Seq(Requests) /\ deferred' \in {deferred, Append(deferred, k)}
    BY <2>3, Types DEF ExecuteRequest
  <2>6. \A r \in Requests : WaitsIn(deferred, r)' => WaitsIn(deferred, r) \/ r = k
    <3> TAKE r \in Requests
    <3> HAVE WaitsIn(deferred, r)'
    <3>1. PICK i \in DOMAIN deferred' : deferred'[i] = r
      BY DEF WaitsIn
    <3> QED
      BY <2>5, <3>1, AppendOf DEF WaitsIn
  <2>7. \A r \in Requests : WaitsIn(batch, r)' => WaitsIn(batch, r)
    BY <2>1 DEF WaitsIn
  <2> QED
    BY <2>2, <2>3, <2>4, <2>6, <2>7 DEF Waits
<1>6. CASE CompleteFiles
  BY <1>6 DEF CompleteFiles, Waits, WaitsIn
<1>7. CASE UNCHANGED waiting
  BY <1>1, <1>7
<1> QED
  <2>1. CASE Editor
    BY <1>1, <2>1 DEF Editor, DidOpen, DidChange, DidClose, Notify, DiskChange, DidChangeWatchedFile,
       Receive
  <2>2. CASE TakeOutbound \/ TakeResponse \/ ReadPlan \/ Wait \/ UNCHANGED vars
    BY <1>1, <2>2 DEF TakeOutbound, TakeResponse, ReadPlan, Wait, vars
  <2>3. CASE Work
    BY <1>1, <1>3, <1>4, <1>5, <1>6, <2>3 DEF Work, WorkerCancel, HandleEdit, HandleClose, HandleWatched,
       WorkerTurns
  <2>4. CASE \E r \in Requests : Compute(r) \/ Unwind(r)
    BY <1>1, <2>4 DEF Compute, Unwind, Respond
  <2> QED
    BY <2>1, <2>2, <2>3, <2>4 DEF Next

-----------------------------------------------------------------------------
(* Reads.                                                                   *)

(* The requests that the worker may take up in its next step.               *)
Requested(r) ==
  Waits(r) \/ (jobs # <<>> /\ Head(jobs).type = "request" /\ Head(jobs).id = r)

(* What a step does to the readers, and to the channels of answers.         *)
ReadersFrom ==
  \A r \in Requests : reader'[r].state = "running" =>
    \/ reader[r].state = "running" /\ reader'[r].snapshot = reader[r].snapshot
    \/ /\ Requested(r) /\ ~InFlight /\ reader'[r].snapshot = [texts |-> overlay, file |-> file]
       /\ out' = Append(out, [type |-> "started", id |-> r])

OutFrom ==
  \A i \in DOMAIN out' :
    \/ \E j \in DOMAIN out : out'[i] = out[j]
    \/ out'[i].type \in {"started", "relint"}
    \/ \E r \in Requests : /\ reader[r].state = "running" /\ out'[i].id = r
                           /\ Computed(out'[i]) => out'[i].snapshot = reader[r].snapshot

BoundaryFrom ==
  \A i \in DOMAIN boundary' :
    \/ \E j \in DOMAIN boundary : boundary'[i] = boundary[j]
    \/ 1 \in DOMAIN out /\ boundary'[i] = out[1] /\ out[1].type = "response"

LEMMA AppendFrom ==
  ASSUME NEW S, NEW q \in Seq(S), NEW m \in S
  PROVE  \A i \in DOMAIN Append(q, m) :
           Append(q, m)[i] = m \/ \E j \in DOMAIN q : Append(q, m)[i] = q[j]
<1> TAKE i \in DOMAIN Append(q, m)
<1>1. i \in DOMAIN q \/ i = Len(q) + 1
  BY AppendOf
<1> QED
  BY <1>1, AppendOf

LEMMA TailFrom ==
  ASSUME NEW S, NEW q \in Seq(S), q # <<>>
  PROVE  \A i \in DOMAIN Tail(q) : \E j \in DOMAIN q : Tail(q)[i] = q[j]
BY HeadOf

LEMMA ExecuteReads ==
  ASSUME TypeOK, NEW k \in Requests, Requested(k), ExecuteRequest(k)
  PROVE  ReadersFrom /\ OutFrom
<1>1. out \in Seq(Messages) /\ reader \in [Requests -> Readers]
  BY Types
<1>2. CASE InFlight
  BY <1>2 DEF ExecuteRequest, ReadersFrom, OutFrom
<1>3. CASE ~InFlight
  <2>1. PICK m \in Messages : m = [type |-> "started", id |-> k]
    BY DEF Messages
  <2>2. out' = Append(out, m)
    BY <1>3, <2>1 DEF ExecuteRequest, Start
  <2>3. PICK v : v = [state |-> "running", cancelled |-> FALSE,
                      snapshot |-> [texts |-> overlay, file |-> file]]
    OBVIOUS
  <2>4. reader' = [reader EXCEPT ![k] = v]
    BY <1>3, <2>3 DEF ExecuteRequest, Start
  <2>5. reader'[k] = v /\ \A r \in Requests \ {k} : reader'[r] = reader[r]
    BY <1>1, <2>4
  <2>6. ReadersFrom
    BY <1>3, <2>1, <2>2, <2>3, <2>5 DEF ReadersFrom
  <2>7. OutFrom
    BY <1>1, <2>1, <2>2, AppendFrom DEF OutFrom
  <2> QED
    BY <2>6, <2>7
<1> QED
  BY <1>2, <1>3

LEMMA HandleRequestReads ==
  ASSUME TypeOK, NEW k \in Requests, Requested(k), HandleRequest(k)
  PROVE  ReadersFrom /\ OutFrom
<1>1. CASE UNCHANGED <<out, reader>>
  BY <1>1 DEF ReadersFrom, OutFrom
<1>2. CASE ExecuteRequest(k)
  BY <1>2, ExecuteReads
<1> QED
  BY <1>1, <1>2 DEF HandleRequest

LEMMA ReadSteps ==
  ASSUME TypeOK, [Next]_vars
  PROVE  ReadersFrom /\ OutFrom /\ BoundaryFrom
<1> USE DEF main, waiting, worker
<1>0. /\ out \in Seq(Messages) /\ boundary \in Seq(Responses) /\ reader \in [Requests -> Readers]
      /\ jobs \in Seq(Jobs) /\ batch \in Seq(Requests) /\ queued \in Seq(Requests)
      /\ file \in Nat /\ plan \in Plans
  BY Types
<1>1. ASSUME UNCHANGED reader
      PROVE  ReadersFrom
  BY <1>1 DEF ReadersFrom
<1>2. ASSUME UNCHANGED out
      PROVE  OutFrom
  BY <1>2 DEF OutFrom
<1>3. ASSUME UNCHANGED boundary
      PROVE  BoundaryFrom
  BY <1>3 DEF BoundaryFrom
<1>4. ASSUME NEW contexts \in Nat, out' = Relint(contexts)
      PROVE  OutFrom
  <2>1. PICK m \in Messages : m = [type |-> "relint", file |-> contexts]
    BY DEF Messages
  <2>2. out' = Append(out, m)
    BY <1>4, <2>1 DEF Relint
  <2> QED
    BY <1>0, <2>1, <2>2, AppendFrom DEF OutFrom
<1>5. CASE Editor
  BY <1>1, <1>2, <1>3, <1>5 DEF Editor, DidOpen, DidChange, DidClose, Notify, DiskChange,
     DidChangeWatchedFile, Receive
<1>6. CASE TakeOutbound
  <2>1. out # <<>> /\ out' = Tail(out) /\ reader' = reader
    BY <1>6 DEF TakeOutbound
  <2>2. OutFrom
    BY <1>0, <2>1, TailFrom DEF OutFrom
  <2>3. CASE boundary' = boundary
    BY <1>1, <1>3, <2>1, <2>2, <2>3
  <2>4. CASE Head(out).type = "response" /\ boundary' = Append(boundary, Head(out))
    <3>1. Head(out) \in Messages /\ Head(out) = out[1] /\ 1 \in DOMAIN out
      BY <1>0, <2>1, HeadOf
    <3>2. Head(out) \in Responses
      BY <2>4, <3>1 DEF Messages
    <3>3. ASSUME NEW i \in DOMAIN boundary'
          PROVE  boundary'[i] = Head(out) \/ \E j \in DOMAIN boundary : boundary'[i] = boundary[j]
      BY <1>0, <2>4, <3>2, AppendFrom
    <3>4. BoundaryFrom
      BY <2>4, <3>1, <3>3 DEF BoundaryFrom
    <3> QED
      BY <1>1, <2>1, <2>2, <3>4
  <2> QED
    BY <1>6, <2>3, <2>4 DEF TakeOutbound
<1>7. CASE TakeResponse
  <2>1. boundary # <<>> /\ boundary' = Tail(boundary) /\ UNCHANGED <<out, reader>>
    BY <1>7 DEF TakeResponse
  <2>2. BoundaryFrom
    BY <1>0, <2>1, TailFrom DEF BoundaryFrom
  <2> QED
    BY <1>1, <1>2, <2>1, <2>2
<1>8. CASE WorkerCancel
  <2>1. \A r \in Requests : reader'[r].state = "running" =>
          reader[r].state = "running" /\ reader'[r].snapshot = reader[r].snapshot
    <3> TAKE r \in Requests
    <3>1. CASE r \in Holders
      <4>1. reader[r] \in [state : {"running"}, cancelled : BOOLEAN, snapshot : Snapshots]
        BY <1>0, <3>1 DEF Holders, Readers, NoReader
      <4>2. reader'[r] = [reader[r] EXCEPT !.cancelled = TRUE]
        BY <1>8, <3>1 DEF WorkerCancel
      <4>3. reader'[r].snapshot = reader[r].snapshot
        BY <4>1, <4>2
      <4> QED
        BY <4>1, <4>3
    <3>2. CASE r \notin Holders
      BY <1>8, <3>2 DEF WorkerCancel
    <3> QED
      BY <3>1, <3>2
  <2>2. ReadersFrom
    BY <2>1 DEF ReadersFrom
  <2> QED
    BY <1>2, <1>3, <1>8, <2>2 DEF WorkerCancel
<1>9. CASE \E needs \in BOOLEAN : HandleEdit(needs)
  BY <1>1, <1>2, <1>3, <1>9 DEF HandleEdit
<1>10. CASE HandleClose
  BY <1>0, <1>1, <1>2, <1>3, <1>4, <1>10 DEF HandleClose
<1>11. CASE HandleWatched
  <2>1. Head(jobs) \in Jobs /\ Head(jobs).type = "watched"
    BY <1>0, <1>11, HeadOf DEF HandleWatched, Handles
  <2>2. Head(jobs).at \in Nat
    BY <2>1 DEF Jobs
  <2> QED
    BY <1>1, <1>2, <1>3, <1>4, <1>11, <2>2 DEF HandleWatched
<1>12. CASE CompleteFiles
  <2>1. plan.state = "read"
    BY <1>12 DEF CompleteFiles, HandlesFiles
  <2>2. plan \in [state : {"read"}, token : Nat, file : Nat]
    BY <1>0, <2>1 DEF Plans, NoPlan
  <2>3. plan.file \in Nat
    BY <2>2
  <2> QED
    BY <1>1, <1>2, <1>3, <1>4, <1>12, <2>3 DEF CompleteFiles
<1>13. CASE WorkerRequest
  <2>1. jobs # <<>> /\ Head(jobs) \in Jobs /\ Head(jobs).type = "request"
    BY <1>0, <1>13, HeadOf DEF WorkerRequest, Handles
  <2>2. PICK k \in Requests : k = Head(jobs).id
    BY <2>1 DEF Jobs
  <2>3. HandleRequest(k) /\ UNCHANGED boundary
    BY <1>13, <2>2 DEF WorkerRequest
  <2>4. Requested(k)
    BY <2>1, <2>2 DEF Requested
  <2> QED
    BY <1>3, <2>3, <2>4, HandleRequestReads
<1>14. CASE WorkerResume
  <2>1. batch # <<>> /\ Head(batch) \in Requests /\ UNCHANGED boundary
    BY <1>0, <1>14, HeadOf DEF WorkerResume
  <2>2. PICK k \in Requests : k = Head(batch) /\ HandleRequest(k)
    BY <1>14, <2>1 DEF WorkerResume
  <2>3. Requested(k)
    <3>1. 1 \in DOMAIN batch /\ batch[1] = k
      BY <1>0, <2>1, <2>2, HeadOf
    <3>2. Waits(k)
      BY <3>1 DEF Waits, WaitsIn
    <3> QED
      BY <3>2 DEF Requested
  <2> QED
    BY <1>3, <2>1, <2>2, <2>3, HandleRequestReads
<1>15. CASE WorkerDispatchRead
  <2>1. queued # <<>> /\ Head(queued) \in Requests /\ UNCHANGED boundary
    BY <1>0, <1>15, HeadOf DEF WorkerDispatchRead
  <2>2. PICK k \in Requests : k = Head(queued) /\ ExecuteRequest(k)
    BY <1>15, <2>1 DEF WorkerDispatchRead
  <2>3. Requested(k)
    <3>1. 1 \in DOMAIN queued /\ queued[1] = k
      BY <1>0, <2>1, <2>2, HeadOf
    <3>2. Waits(k)
      BY <3>1 DEF Waits, WaitsIn
    <3> QED
      BY <3>2 DEF Requested
  <2> QED
    BY <1>3, <2>1, <2>2, <2>3, ExecuteReads
<1>16. CASE WorkerTurns \/ ReadPlan \/ Wait \/ UNCHANGED vars
  BY <1>1, <1>2, <1>3, <1>16 DEF WorkerTurns, ReadPlan, Wait, vars
<1>17. ASSUME NEW k \in Requests, Compute(k) \/ Unwind(k)
       PROVE  ReadersFrom /\ OutFrom /\ BoundaryFrom
  <2>1. PICK m \in Messages :
          /\ Respond(k, m) /\ m.id = k
          /\ Computed(m) => m.snapshot = reader[k].snapshot
    <3>1. CASE Compute(k)
      <4>1. reader[k] \in [state : {"running"}, cancelled : BOOLEAN, snapshot : Snapshots]
        BY <1>0, <3>1 DEF Compute, Respond, Readers, NoReader
      <4>2. PICK m : m = [type |-> "response", id |-> k, ok |-> TRUE, snapshot |-> reader[k].snapshot]
        OBVIOUS
      <4>3. m \in Messages
        BY <4>1, <4>2 DEF Responses, Messages
      <4> QED
        BY <3>1, <4>2, <4>3 DEF Compute
    <3>2. CASE Unwind(k)
      <4>1. PICK m : m = [type |-> "response", id |-> k, ok |-> FALSE]
        OBVIOUS
      <4>2. m \in Messages
        BY <4>1 DEF Responses, Messages
      <4>3. ~Computed(m)
        BY <4>1 DEF Computed
      <4> QED
        BY <3>2, <4>1, <4>2, <4>3 DEF Unwind
    <3> QED
      BY <1>17, <3>1, <3>2
  <2>2. /\ reader[k].state = "running" /\ out' = Append(out, m) /\ boundary' = boundary
        /\ reader' = [reader EXCEPT ![k] = NoReader]
    BY <2>1 DEF Respond
  <2>3. reader'[k] = NoReader /\ \A r \in Requests \ {k} : reader'[r] = reader[r]
    BY <1>0, <2>2
  <2>4. ReadersFrom
    BY <2>3 DEF ReadersFrom, NoReader
  <2>5. \A i \in DOMAIN out' : out'[i] = m \/ \E j \in DOMAIN out : out'[i] = out[j]
    BY <1>0, <2>2, AppendFrom
  <2>6. OutFrom
    BY <2>1, <2>2, <2>5 DEF OutFrom
  <2> QED
    BY <1>3, <2>2, <2>4, <2>6
<1> QED
  BY <1>5, <1>6, <1>7, <1>8, <1>9, <1>10, <1>11, <1>12, <1>13, <1>14, <1>15, <1>16, <1>17
  DEF Next, Work

-----------------------------------------------------------------------------
(* Requests that have arrived, and the order of the jobs.                   *)

LEMMA WaitedBefore ==
  ASSUME TypeOK, [Next]_vars
  PROVE  \A r \in Requests : Waits(r)' => Requested(r)
<1> TAKE r \in Requests
<1>1. Waits(r)' => Waits(r) \/ Taken(r)
  BY WaitSteps
<1>2. Taken(r) => Requested(r)
  BY DEF Taken, JobTaken, Requested
<1>3. Waits(r) => Requested(r)
  BY DEF Requested
<1> QED
  BY <1>1, <1>2, <1>3

LEMMA ArrivedStep ==
  ASSUME TypeOK, ArrivedInv, [Next]_vars
  PROVE  ArrivedInv'
<1>1. /\ jobs \in Seq(Jobs) /\ out \in Seq(Messages) /\ boundary \in Seq(Responses)
      /\ received \in 0..MaxRequests
  BY Types
<1>2. received' \in {received, received + 1}
  BY StampSteps DEF StampsKept, StampsRaised, Receive, Discovered, Restamped
<1>3. \A k \in Requests : k <= received => k <= received'
  BY <1>1, <1>2 DEF Requests
<1>4. \A r \in Requests : Requested(r) => r <= received
  <2> TAKE r \in Requests
  <2> HAVE Requested(r)
  <2>1. CASE Waits(r)
    BY <2>1 DEF ArrivedInv
  <2>2. CASE jobs # <<>> /\ Head(jobs).type = "request" /\ Head(jobs).id = r
    <3>1. Head(jobs) = jobs[1] /\ 1 \in DOMAIN jobs
      BY <1>1, <2>2, HeadOf
    <3> QED
      BY <2>2, <3>1 DEF ArrivedInv
  <2> QED
    BY <2>1, <2>2 DEF Requested
<1>5. ASSUME NEW i \in DOMAIN jobs', jobs'[i].type = "request"
      PROVE  jobs'[i].id <= received'
  <2>1. CASE \E j \in DOMAIN jobs : jobs'[i] = jobs[j]
    <3>1. PICK j \in DOMAIN jobs : jobs'[i] = jobs[j]
      BY <2>1
    <3>2. jobs[j] \in Jobs
      BY <1>1
    <3>3. jobs[j].id \in Requests
      BY <1>5, <3>1, <3>2 DEF Jobs
    <3> QED
      BY <1>3, <1>5, <3>1, <3>3 DEF ArrivedInv
  <2>2. CASE JobsKept
    BY <2>1, <2>2 DEF JobsKept
  <2>3. CASE JobTaken
    BY <1>1, <2>1, <2>3, TailFrom DEF JobTaken
  <2>4. CASE JobSent
    <3>1. PICK job \in Jobs : job.type # "request" /\ jobs' = Append(jobs, job)
      BY <2>4 DEF JobSent
    <3> QED
      BY <1>1, <1>5, <2>1, <3>1, AppendFrom
  <2>5. CASE Receive
    <3>1. received + 1 \in Requests /\ received' = received + 1
      BY <1>1, <2>5, EditAdmissionAssumption DEF Receive, Requests
    <3>2. PICK job \in Jobs : job = [type |-> "request", id |-> received + 1]
      BY <3>1 DEF Jobs
    <3>3. jobs' = Append(jobs, job)
      BY <2>5, <3>2 DEF Receive
    <3>4. CASE jobs'[i] = job
      BY <3>1, <3>2, <3>4 DEF Requests
    <3> QED
      BY <1>1, <2>1, <3>3, <3>4, AppendFrom
  <2> QED
    BY <2>2, <2>3, <2>4, <2>5, JobSteps
<1>6. ASSUME NEW r \in Requests, Waits(r)' \/ reader'[r].state = "running"
      PROVE  r <= received'
  <2>1. Requested(r) \/ reader[r].state = "running"
    BY <1>6, WaitedBefore, ReadSteps DEF ReadersFrom
  <2>2. r <= received
    BY <1>4, <2>1 DEF ArrivedInv
  <2> QED
    BY <1>3, <2>2
<1>7. ASSUME NEW i \in DOMAIN out', out'[i].type = "response"
      PROVE  out'[i].id <= received'
  <2>1. CASE \E j \in DOMAIN out : out'[i] = out[j]
    <3>1. PICK j \in DOMAIN out : out'[i] = out[j]
      BY <2>1
    <3>2. out[j] \in Messages
      BY <1>1
    <3>3. out[j].id \in Requests
      BY <1>7, <3>1, <3>2 DEF Messages, Responses
    <3> QED
      BY <1>3, <1>7, <3>1, <3>3 DEF ArrivedInv
  <2>2. CASE \E r \in Requests : reader[r].state = "running" /\ out'[i].id = r
    BY <1>3, <2>2 DEF ArrivedInv
  <2> QED
    BY <1>7, <2>1, <2>2, ReadSteps DEF OutFrom
<1>8. ASSUME NEW i \in DOMAIN boundary'
      PROVE  boundary'[i].id <= received'
  <2>1. CASE \E j \in DOMAIN boundary : boundary'[i] = boundary[j]
    <3>1. PICK j \in DOMAIN boundary : boundary'[i] = boundary[j]
      BY <2>1
    <3>2. boundary[j] \in Responses
      BY <1>1
    <3>3. boundary[j].id \in Requests
      BY <3>2 DEF Responses
    <3> QED
      BY <1>3, <3>1, <3>3 DEF ArrivedInv
  <2>2. CASE \E j \in DOMAIN out : boundary'[i] = out[j] /\ out[j].type = "response"
    <3>1. PICK j \in DOMAIN out : boundary'[i] = out[j] /\ out[j].type = "response"
      BY <2>2
    <3>2. out[j] \in Messages
      BY <1>1
    <3>3. out[j].id \in Requests
      BY <3>1, <3>2 DEF Messages, Responses
    <3> QED
      BY <1>3, <3>1, <3>3 DEF ArrivedInv
  <2> QED
    BY <2>1, <2>2, ReadSteps DEF BoundaryFrom
<1> QED
  BY <1>5, <1>6, <1>7, <1>8 DEF ArrivedInv

(* When the worker may take up a fresh request, it has handled every        *)
(* notification.                                                            *)
LEMMA RequestedAlone ==
  ASSUME TypeOK, OrderInv, NEW r \in Requests, Fresh(r), Requested(r)
  PROVE  OnlyRequests
<1>1. jobs \in Seq(Jobs)
  BY Types
<1>2. CASE Waits(r)
  BY <1>2 DEF OrderInv
<1>3. CASE jobs # <<>> /\ Head(jobs).type = "request" /\ Head(jobs).id = r
  <2>1. Head(jobs) = jobs[1] /\ 1 \in DOMAIN jobs /\ DOMAIN jobs = 1..Len(jobs) /\ Len(jobs) \in Nat
    BY <1>1, <1>3, HeadOf
  <2>2. \A j \in DOMAIN jobs : jobs[j].type # "request" => j < 1
    BY <1>3, <2>1 DEF OrderInv
  <2> QED
    BY <2>1, <2>2 DEF OnlyRequests
<1> QED
  BY <1>2, <1>3 DEF Requested

LEMMA OrderStep ==
  ASSUME TypeOK, ArrivedInv, ContextsInv, OrderInv, [Next]_vars
  PROVE  OrderInv'
<1>1. jobs \in Seq(Jobs) /\ received \in 0..MaxRequests
  BY Types
<1>2. StaysFresh
  BY ContextsStep
<1> SUFFICES ASSUME NEW r \in Requests, Fresh(r)'
             PROVE  /\ \A i, j \in DOMAIN jobs' :
                         jobs'[i].type = "request" /\ jobs'[i].id = r /\ jobs'[j].type # "request" => j < i
                    /\ Waits(r)' => OnlyRequests'
  BY DEF OrderInv
<1>3. Waits(r)' => Requested(r)
  BY WaitedBefore
<1>4. CASE Receive
  <2> DEFINE n == received + 1
  <2>1. n \in Requests
    BY <1>1, <1>4, EditAdmissionAssumption DEF Receive, Requests
  <2>2. PICK job \in Jobs : job = [type |-> "request", id |-> n]
    BY <2>1 DEF Jobs
  <2>3. jobs' = Append(jobs, job)
    BY <1>4, <2>2 DEF Receive
  <2>4. /\ Len(jobs) \in Nat /\ DOMAIN jobs = 1..Len(jobs)
        /\ DOMAIN jobs' = 1..Len(jobs) + 1
        /\ \A i \in DOMAIN jobs : jobs'[i] = jobs[i]
        /\ jobs'[Len(jobs) + 1] = job
    BY <1>1, <2>3, AppendOf
  <2>5. \A i \in DOMAIN jobs' : i \in DOMAIN jobs \/ i = Len(jobs) + 1
    BY <2>4
  <2>6. Waits(r)' => Waits(r)
    BY <1>4 DEF Receive, worker, waiting, Waits, WaitsIn
  <2>7. CASE r = n
    <3>1. \A i \in DOMAIN jobs : jobs[i].type = "request" => jobs[i].id # r
      BY <1>1, <2>7 DEF ArrivedInv
    <3>2. ~Waits(r)
      BY <1>1, <2>7 DEF ArrivedInv
    <3>3. ASSUME NEW i \in DOMAIN jobs', NEW j \in DOMAIN jobs',
                 jobs'[i].type = "request", jobs'[i].id = r, jobs'[j].type # "request"
          PROVE  j < i
      <4>1. i = Len(jobs) + 1
        BY <2>4, <2>5, <3>1, <3>3
      <4>2. j \in DOMAIN jobs
        BY <2>2, <2>4, <2>5, <3>3
      <4> QED
        BY <2>4, <4>1, <4>2
    <3> QED
      BY <2>6, <3>2, <3>3
  <2>8. CASE r # n
    <3>1. Fresh(r)
      BY <1>2, <2>8 DEF StaysFresh
    <3>2. ASSUME NEW i \in DOMAIN jobs', NEW j \in DOMAIN jobs',
                 jobs'[i].type = "request", jobs'[i].id = r, jobs'[j].type # "request"
          PROVE  j < i
      <4>1. i \in DOMAIN jobs /\ j \in DOMAIN jobs
        BY <2>2, <2>4, <2>5, <2>8, <3>2
      <4> QED
        BY <2>4, <3>1, <3>2, <4>1 DEF OrderInv
    <3>3. ASSUME Waits(r)'
          PROVE  OnlyRequests'
      <4>1. OnlyRequests
        BY <2>6, <3>1, <3>3 DEF OrderInv
      <4> QED
        BY <2>2, <2>4, <2>5, <4>1 DEF OnlyRequests
    <3> QED
      BY <3>2, <3>3
  <2> QED
    BY <2>7, <2>8
<1>5. CASE ~Receive
  <2>1. Fresh(r) /\ UNCHANGED <<docs, reported>>
    BY <1>2, <1>5 DEF StaysFresh
  <2>2. CASE JobsKept
    BY <1>3, <2>1, <2>2, RequestedAlone DEF JobsKept, OrderInv, OnlyRequests
  <2>3. CASE JobTaken
    <3>1. /\ \A i \in DOMAIN jobs' : jobs'[i] = jobs[i + 1] /\ i + 1 \in DOMAIN jobs /\ i \in Nat
      BY <1>1, <2>3, HeadOf DEF JobTaken
    <3>2. ASSUME NEW i \in DOMAIN jobs', NEW j \in DOMAIN jobs',
                 jobs'[i].type = "request", jobs'[i].id = r, jobs'[j].type # "request"
          PROVE  j < i
      <4>1. j + 1 < i + 1 /\ i \in Nat /\ j \in Nat
        BY <2>1, <3>1, <3>2 DEF OrderInv
      <4> QED
        BY <4>1
    <3>3. ASSUME Waits(r)'
          PROVE  OnlyRequests'
      <4>1. OnlyRequests
        BY <1>3, <2>1, <3>3, RequestedAlone
      <4> QED
        BY <3>1, <4>1 DEF OnlyRequests
    <3> QED
      BY <3>2, <3>3
  <2>4. CASE JobSent
    <3>1. ~Fresh(r)'
      <4>1. /\ context[r].stamp - context[r].discovery <= stamp - discovery
            /\ stamp' = stamp + 1 /\ discovery' = discovery /\ context' = context
        BY <2>4 DEF ContextsInv, JobSent, StampsRaised
      <4>2. stamp \in Nat /\ discovery \in Nat /\ context[r] \in Contexts
        BY Types
      <4>3. context[r].stamp \in Nat /\ context[r].discovery \in Nat
        BY <4>2 DEF Contexts
      <4>4. context'[r].stamp - context'[r].discovery # stamp' - discovery'
        BY <4>1, <4>2, <4>3
      <4> QED
        BY <4>4 DEF Fresh
    <3> QED
      BY <3>1
  <2> QED
    BY <1>5, <2>2, <2>3, <2>4, JobSteps
<1> QED
  BY <1>4, <1>5

-----------------------------------------------------------------------------
(* Texts.                                                                   *)

(* What a step does to the texts: nothing, a notification, or its job.      *)
TextsKept ==
  /\ UNCHANGED <<docs, overlay>>
  /\ \/ JobsKept
     \/ JobTaken /\ Head(jobs).type \in {"request", "watched"}
     \/ \E job \in Jobs : job.type \in {"request", "watched"} /\ jobs' = Append(jobs, job)

TextSent ==
  \E d \in Docs, job \in Jobs :
    /\ About(job, d) /\ docs'[d].text = TextOf(job)
    /\ \A e \in Docs \ {d} : docs'[e] = docs[e]
    /\ jobs' = Append(jobs, job) /\ overlay' = overlay

TextHandled ==
  /\ JobTaken /\ docs' = docs
  /\ \E d \in Docs :
       About(Head(jobs), d) /\ overlay' = [overlay EXCEPT ![d] = TextOf(Head(jobs))]

LEMMA NotifySends ==
  ASSUME TypeOK, NEW d \in Docs, NEW document \in [version : Nat, text : Nat], NEW job \in Jobs,
         About(job, d), document.text = TextOf(job), Notify(document, d, job)
  PROVE  TextSent
<1>1. docs \in [Docs -> [version : Nat, text : Nat]]
  BY Types
<1>2. docs' = [docs EXCEPT ![d] = document] /\ jobs' = Append(jobs, job) /\ overlay' = overlay
  BY DEF Notify, worker
<1>3. docs'[d] = document /\ \A e \in Docs \ {d} : docs'[e] = docs[e]
  BY <1>1, <1>2
<1> QED
  BY <1>2, <1>3 DEF TextSent

LEMMA TextSteps ==
  ASSUME TypeOK, [Next]_vars
  PROVE  TextsKept \/ TextSent \/ TextHandled
<1> USE DEF main, worker
<1>0. /\ docs \in [Docs -> [version : Nat, text : Nat]] /\ changes \in Nat /\ disk \in Nat
      /\ jobs \in Seq(Jobs) /\ received \in 0..MaxRequests
  BY Types
<1>1. ASSUME NEW d \in Docs, DidOpen(d)
      PROVE  TextSent
  <2>1. PICK job : job = [type |-> "edit", doc |-> d, opened |-> TRUE, text |-> changes + 1]
    OBVIOUS
  <2>2. job \in Jobs /\ About(job, d) /\ TextOf(job) = changes + 1
    BY <1>0, <2>1 DEF Jobs, About, TextOf
  <2>3. PICK document \in [version : Nat, text : Nat] :
          document = [version |-> 1, text |-> changes + 1]
    <3>1. changes + 1 \in Nat /\ 1 \in Nat
      BY <1>0
    <3> QED
      BY <3>1
  <2> QED
    BY <1>1, <2>1, <2>2, <2>3, NotifySends DEF DidOpen
<1>2. ASSUME NEW d \in Docs, NEW text \in {docs[d].text, changes + 1}, DidChange(d, text)
      PROVE  TextSent
  <2>1. PICK job : job = [type |-> "edit", doc |-> d, opened |-> FALSE, text |-> text]
    OBVIOUS
  <2>2. text \in Nat /\ docs[d].version + 1 \in Nat
    BY <1>0
  <2>3. job \in Jobs /\ About(job, d) /\ TextOf(job) = text
    BY <2>1, <2>2 DEF Jobs, About, TextOf
  <2>4. PICK document \in [version : Nat, text : Nat] :
          document = [version |-> docs[d].version + 1, text |-> text]
    BY <2>2
  <2> QED
    BY <1>2, <2>1, <2>3, <2>4, NotifySends DEF DidChange
<1>3. ASSUME NEW d \in Docs, DidClose(d)
      PROVE  TextSent
  <2>1. PICK job : job = [type |-> "close", doc |-> d]
    OBVIOUS
  <2>2. job \in Jobs /\ About(job, d) /\ TextOf(job) = NoText
    BY <2>1 DEF Jobs, About, TextOf
  <2>3. Closed \in [version : Nat, text : Nat] /\ Closed.text = NoText
    BY DEF Closed, NoText
  <2> QED
    BY <1>3, <2>1, <2>2, <2>3, NotifySends DEF DidClose
<1>4. CASE DidChangeWatchedFile
  <2>1. PICK job \in Jobs : job = [type |-> "watched", at |-> disk]
    BY <1>0 DEF Jobs
  <2> QED
    BY <1>4, <2>1 DEF DidChangeWatchedFile, TextsKept
<1>5. CASE Receive
  <2>1. received + 1 \in Requests
    BY <1>0, <1>5, EditAdmissionAssumption DEF Receive, Requests
  <2>2. PICK job \in Jobs : job = [type |-> "request", id |-> received + 1]
    BY <2>1 DEF Jobs
  <2> QED
    BY <1>5, <2>2 DEF Receive, TextsKept
<1>6. CASE DiskChange \/ TakeOutbound \/ TakeResponse \/ ReadPlan \/ Wait \/ UNCHANGED vars
  BY <1>6 DEF DiskChange, TakeOutbound, TakeResponse, ReadPlan, Wait, vars, TextsKept, JobsKept
<1>7. CASE WorkerCancel \/ CompleteFiles \/ WorkerResume \/ WorkerDispatchRead \/ WorkerTurns
  BY <1>7 DEF WorkerCancel, CompleteFiles, WorkerResume, WorkerDispatchRead, WorkerTurns,
     TextsKept, JobsKept
<1>8. CASE WorkerRequest \/ HandleWatched
  BY <1>8 DEF WorkerRequest, HandleWatched, Handles, TextsKept, JobTaken
<1>9. CASE (\E needs \in BOOLEAN : HandleEdit(needs)) \/ HandleClose
  <2>1. /\ jobs # <<>> /\ jobs' = Tail(jobs) /\ docs' = docs
        /\ \/ /\ Head(jobs).type = "edit"
              /\ overlay' = [overlay EXCEPT ![Head(jobs).doc] = Head(jobs).text]
           \/ /\ Head(jobs).type = "close"
              /\ overlay' = [overlay EXCEPT ![Head(jobs).doc] = NoText]
    BY <1>9 DEF HandleEdit, HandleClose, Handles
  <2>2. Head(jobs) \in Jobs
    BY <1>0, <2>1, HeadOf
  <2>3. PICK d \in Docs : d = Head(jobs).doc
    BY <2>1, <2>2 DEF Jobs
  <2> QED
    BY <2>1, <2>3 DEF TextHandled, JobTaken, About, TextOf
<1>10. CASE \E r \in Requests : Compute(r) \/ Unwind(r)
  BY <1>10 DEF Compute, Unwind, Respond, TextsKept, JobsKept
<1> QED
  BY <1>1, <1>2, <1>3, <1>4, <1>5, <1>6, <1>7, <1>8, <1>9, <1>10 DEF Next, Editor, Work

(* TextInv for one document and any channel.                                *)
TextsAgree(q, text, stored, d) ==
  /\ \A i \in DOMAIN q :
       About(q[i], d) /\ (\A j \in DOMAIN q : j > i => ~About(q[j], d)) => TextOf(q[i]) = text
  /\ (\A i \in DOMAIN q : ~About(q[i], d)) => stored = text

LEMMA OtherJobSent ==
  ASSUME NEW q \in Seq(Jobs), NEW job \in Jobs, NEW d, NEW text, NEW stored,
         TextsAgree(q, text, stored, d), ~About(job, d)
  PROVE  TextsAgree(Append(q, job), text, stored, d)
<1> DEFINE p == Append(q, job)
<1>1. /\ Len(q) \in Nat /\ DOMAIN q = 1..Len(q) /\ DOMAIN p = 1..Len(q) + 1
      /\ \A i \in DOMAIN q : p[i] = q[i]
      /\ p[Len(q) + 1] = job
  BY AppendOf
<1> HIDE DEF p
<1>2. \A i \in DOMAIN q : i \in DOMAIN p
  BY <1>1
<1>3. \A i \in DOMAIN p : i \in DOMAIN q \/ i = Len(q) + 1
  BY <1>1
<1>4. ASSUME NEW i \in DOMAIN p, About(p[i], d), \A j \in DOMAIN p : j > i => ~About(p[j], d)
      PROVE  TextOf(p[i]) = text
  <2>1. i \in DOMAIN q
    BY <1>1, <1>3, <1>4
  <2>2. \A j \in DOMAIN q : j > i => ~About(q[j], d)
    BY <1>1, <1>2, <1>4
  <2> QED
    BY <1>1, <1>4, <2>1, <2>2 DEF TextsAgree
<1>5. ASSUME \A i \in DOMAIN p : ~About(p[i], d)
      PROVE  stored = text
  BY <1>1, <1>2, <1>5 DEF TextsAgree
<1>6. TextsAgree(p, text, stored, d)
  BY <1>4, <1>5 DEF TextsAgree
<1> QED
  BY <1>6 DEF p

LEMMA JobAboutSent ==
  ASSUME NEW q \in Seq(Jobs), NEW job \in Jobs, NEW d, NEW stored, About(job, d)
  PROVE  TextsAgree(Append(q, job), TextOf(job), stored, d)
<1> DEFINE p == Append(q, job)
<1>1. /\ Len(q) \in Nat /\ DOMAIN p = 1..Len(q) + 1 /\ p[Len(q) + 1] = job
  BY AppendOf
<1> HIDE DEF p
<1>2. Len(q) + 1 \in DOMAIN p
  BY <1>1
<1>3. ASSUME NEW i \in DOMAIN p, \A j \in DOMAIN p : j > i => ~About(p[j], d)
      PROVE  i = Len(q) + 1
  <2>1. ~(Len(q) + 1 > i)
    BY <1>1, <1>2, <1>3
  <2> QED
    BY <1>1, <2>1
<1>4. TextsAgree(p, TextOf(job), stored, d)
  BY <1>1, <1>2, <1>3 DEF TextsAgree
<1> QED
  BY <1>4 DEF p

LEMMA JobDone ==
  ASSUME NEW q \in Seq(Jobs), q # <<>>, NEW d, NEW text, NEW stored, NEW after,
         TextsAgree(q, text, stored, d),
         About(Head(q), d) => after = TextOf(Head(q)),
         ~About(Head(q), d) => after = stored
  PROVE  TextsAgree(Tail(q), text, after, d)
<1> DEFINE p == Tail(q)
<1>1. /\ Head(q) = q[1] /\ 1 \in DOMAIN q /\ DOMAIN q = 1..Len(q) /\ Len(q) \in Nat
      /\ DOMAIN p = 1..Len(q) - 1
      /\ \A i \in DOMAIN p : p[i] = q[i + 1] /\ i + 1 \in DOMAIN q
      /\ \A i \in DOMAIN q : i = 1 \/ (i - 1 \in DOMAIN p /\ p[i - 1] = q[i])
  BY HeadOf
<1> HIDE DEF p
<1>2. ASSUME NEW i \in DOMAIN p, About(p[i], d), \A j \in DOMAIN p : j > i => ~About(p[j], d)
      PROVE  TextOf(p[i]) = text
  <2>1. \A j \in DOMAIN q : j > i + 1 => ~About(q[j], d)
    <3> TAKE j \in DOMAIN q
    <3> HAVE j > i + 1
    <3>1. j - 1 \in DOMAIN p /\ p[j - 1] = q[j] /\ j - 1 > i
      <4>1. j # 1 /\ j - 1 > i
        BY <1>1
      <4> QED
        BY <1>1, <4>1
    <3> QED
      BY <1>2, <3>1
  <2>2. i + 1 \in DOMAIN q /\ p[i] = q[i + 1]
    BY <1>1
  <2> QED
    BY <1>2, <2>1, <2>2 DEF TextsAgree
<1>3. ASSUME \A i \in DOMAIN p : ~About(p[i], d)
      PROVE  after = text
  <2>1. \A j \in DOMAIN q : j # 1 => ~About(q[j], d)
    BY <1>1, <1>3
  <2>2. \A j \in DOMAIN q : j > 1 => ~About(q[j], d)
    BY <1>1, <2>1
  <2>3. CASE About(q[1], d)
    BY <1>1, <2>2, <2>3 DEF TextsAgree
  <2>4. CASE ~About(q[1], d)
    <3>1. \A j \in DOMAIN q : ~About(q[j], d)
      BY <2>1, <2>4
    <3> QED
      BY <1>1, <2>4, <3>1 DEF TextsAgree
  <2> QED
    BY <2>3, <2>4
<1>4. TextsAgree(p, text, after, d)
  BY <1>2, <1>3 DEF TextsAgree
<1> QED
  BY <1>4 DEF p

LEMMA TextStep ==
  ASSUME TypeOK, TextInv, [Next]_vars
  PROVE  TextInv'
<1>1. jobs \in Seq(Jobs) /\ overlay \in [Docs -> Nat]
  BY Types
<1>2. \A d \in Docs : TextsAgree(jobs, docs[d].text, overlay[d], d)
  BY DEF TextInv, TextsAgree
<1> SUFFICES ASSUME NEW d \in Docs
             PROVE  TextsAgree(jobs', docs'[d].text, overlay'[d], d)
  BY DEF TextInv, TextsAgree
<1>3. CASE TextsKept
  <2>1. docs' = docs /\ overlay' = overlay
    BY <1>3 DEF TextsKept
  <2>2. CASE jobs' = jobs
    BY <1>2, <2>1, <2>2
  <2>3. CASE JobTaken /\ Head(jobs).type \in {"request", "watched"}
    <3>1. ~About(Head(jobs), d)
      BY <2>3 DEF About
    <3> QED
      BY <1>1, <1>2, <2>1, <2>3, <3>1, JobDone DEF JobTaken
  <2>4. CASE \E job \in Jobs : job.type \in {"request", "watched"} /\ jobs' = Append(jobs, job)
    <3>1. PICK job \in Jobs : job.type \in {"request", "watched"} /\ jobs' = Append(jobs, job)
      BY <2>4
    <3>2. ~About(job, d)
      BY <3>1 DEF About
    <3> QED
      BY <1>1, <1>2, <2>1, <3>1, <3>2, OtherJobSent
  <2> QED
    BY <1>3, <2>2, <2>3, <2>4 DEF TextsKept, JobsKept
<1>4. CASE TextSent
  <2>1. PICK e \in Docs, job \in Jobs :
          /\ About(job, e) /\ docs'[e].text = TextOf(job)
          /\ \A f \in Docs \ {e} : docs'[f] = docs[f]
          /\ jobs' = Append(jobs, job) /\ overlay' = overlay
    BY <1>4 DEF TextSent
  <2>2. CASE d = e
    BY <1>1, <2>1, <2>2, JobAboutSent
  <2>3. CASE d # e
    <3>1. ~About(job, d)
      BY <2>1, <2>3 DEF About
    <3> QED
      BY <1>1, <1>2, <2>1, <2>3, <3>1, OtherJobSent
  <2> QED
    BY <2>2, <2>3
<1>5. CASE TextHandled
  <2>1. PICK e \in Docs : About(Head(jobs), e) /\ overlay' = [overlay EXCEPT ![e] = TextOf(Head(jobs))]
    BY <1>5 DEF TextHandled
  <2>2. jobs # <<>> /\ jobs' = Tail(jobs) /\ docs' = docs
    BY <1>5 DEF TextHandled, JobTaken
  <2>3. About(Head(jobs), d) <=> d = e
    BY <2>1 DEF About
  <2>4. overlay'[d] = IF d = e THEN TextOf(Head(jobs)) ELSE overlay[d]
    BY <1>1, <2>1
  <2> QED
    BY <1>1, <1>2, <2>2, <2>3, <2>4, JobDone
<1> QED
  BY <1>3, <1>4, <1>5, TextSteps

-----------------------------------------------------------------------------
(* The file.                                                                *)

WatchedTaken == JobTaken /\ Head(jobs).type = "watched"

LEMMA WatchedStays ==
  ASSUME TypeOK, [Next]_vars, NothingWatched'
  PROVE  NothingWatched \/ WatchedTaken
<1>1. jobs \in Seq(Jobs) /\ received \in 0..MaxRequests
  BY Types
<1>2. CASE JobsKept
  BY <1>2 DEF JobsKept, NothingWatched
<1>3. CASE JobTaken
  <2>1. \A i \in DOMAIN jobs :
          \/ i = 1 /\ jobs[i] = Head(jobs)
          \/ i - 1 \in DOMAIN jobs' /\ jobs'[i - 1] = jobs[i]
    BY <1>1, <1>3, HeadOf DEF JobTaken
  <2> QED
    BY <1>3, <2>1 DEF NothingWatched, WatchedTaken
<1>4. ASSUME NEW job \in Jobs, jobs' = Append(jobs, job)
      PROVE  NothingWatched
  <2>1. \A i \in DOMAIN jobs : i \in DOMAIN jobs' /\ jobs'[i] = jobs[i]
    BY <1>1, <1>4, AppendOf
  <2> QED
    BY <2>1 DEF NothingWatched
<1>5. CASE JobSent
  BY <1>4, <1>5 DEF JobSent
<1>6. CASE Receive
  <2>1. received + 1 \in Requests
    BY <1>1, <1>6, EditAdmissionAssumption DEF Receive, Requests
  <2>2. [type |-> "request", id |-> received + 1] \in Jobs
    BY <2>1 DEF Jobs
  <2> QED
    BY <1>4, <1>6, <2>2 DEF Receive
<1> QED
  BY <1>2, <1>3, <1>5, <1>6, JobSteps

(* What a step does to the file and the plan in flight.                     *)
FilesKept ==
  UNCHANGED <<reported, file, plan, generation>> /\ disk' \in {disk, disk + 1} /\ ~WatchedTaken
Acquired ==
  /\ \E want \in BOOLEAN : AcquireFiles(want, generation, plan)
  /\ UNCHANGED <<reported, disk, file>> /\ ~WatchedTaken
Superseded ==
  /\ RefreshBacking
  /\ UNCHANGED <<reported, disk>>
  /\ file' = file \/ (WatchedTaken /\ file' = Head(jobs).at)

LEMMA FileSteps ==
  ASSUME TypeOK, [Next]_vars
  PROVE  FilesKept \/ DidChangeWatchedFile \/ Acquired \/ Superseded \/ CompleteFiles \/ ReadPlan
<1> USE DEF main, worker, acquisition, waiting
<1>0. jobs \in Seq(Jobs) /\ wanted \in BOOLEAN /\ received \in 0..MaxRequests
  BY Types
<1>1. ASSUME jobs' = jobs
      PROVE  ~WatchedTaken
  <2> SUFFICES ASSUME jobs # <<>>, jobs = Tail(jobs)
               PROVE  FALSE
    BY <1>1 DEF WatchedTaken, JobTaken
  <2> QED
    BY <1>0, HeadOf
<1>2. ASSUME NEW job \in Jobs, jobs' = Append(jobs, job)
      PROVE  ~WatchedTaken
  <2> SUFFICES ASSUME jobs # <<>>, Append(jobs, job) = Tail(jobs)
               PROVE  FALSE
    BY <1>2 DEF WatchedTaken, JobTaken
  <2>1. /\ DOMAIN Append(jobs, job) = 1..Len(jobs) + 1 /\ DOMAIN Tail(jobs) = 1..Len(jobs) - 1
        /\ Len(jobs) \in Nat
    BY <1>0, AppendOf, HeadOf
  <2> QED
    BY <2>1
<1>3. ASSUME NEW d \in Docs, DidOpen(d) \/ DidClose(d) \/ \E text \in {docs[d].text, changes + 1} : DidChange(d, text)
      PROVE  FilesKept
  <2>1. UNCHANGED <<reported, file, plan, generation, disk>>
    BY <1>3 DEF DidOpen, DidClose, DidChange, Notify
  <2>2. JobSent
    BY <1>3, NotifiedJob
  <2>3. ~WatchedTaken
    BY <1>2, <2>2 DEF JobSent
  <2> QED
    BY <2>1, <2>3 DEF FilesKept
<1>4. CASE Receive
  <2>1. received + 1 \in Requests
    BY <1>0, <1>4, EditAdmissionAssumption DEF Receive, Requests
  <2>2. [type |-> "request", id |-> received + 1] \in Jobs
    BY <2>1 DEF Jobs
  <2>3. ~WatchedTaken
    BY <1>2, <1>4, <2>2 DEF Receive
  <2> QED
    BY <1>4, <2>3 DEF Receive, FilesKept
<1>5. CASE DiskChange \/ TakeOutbound \/ TakeResponse \/ Wait \/ UNCHANGED vars
  <2>1. jobs' = jobs /\ UNCHANGED <<reported, file, plan, generation>> /\ disk' \in {disk, disk + 1}
    BY <1>5 DEF DiskChange, TakeOutbound, TakeResponse, Wait, vars
  <2> QED
    BY <1>1, <2>1 DEF FilesKept
<1>6. CASE WorkerCancel \/ WorkerDispatchRead \/ WorkerTurns
  <2>1. jobs' = jobs /\ UNCHANGED <<reported, file, plan, generation, disk>>
    BY <1>6 DEF WorkerCancel, WorkerDispatchRead, WorkerTurns
  <2> QED
    BY <1>1, <2>1 DEF FilesKept
<1>7. ASSUME NEW needs \in BOOLEAN, HandleEdit(needs)
      PROVE  Acquired
  <2>1. AcquireFiles(wanted \/ needs, generation, plan) /\ (wanted \/ needs) \in BOOLEAN
    BY <1>7 DEF HandleEdit
  <2>2. Head(jobs).type = "edit" /\ UNCHANGED <<reported, disk, file>>
    BY <1>7 DEF HandleEdit, Handles
  <2> QED
    BY <2>1, <2>2 DEF Acquired, WatchedTaken
<1>8. CASE HandleClose \/ HandleWatched
  BY <1>8 DEF HandleClose, HandleWatched, Handles, Superseded, WatchedTaken, JobTaken
<1>9. ASSUME NEW k, HandleRequest(k), UNCHANGED <<reported, disk, file>>, ~WatchedTaken
      PROVE  FilesKept \/ Acquired
  BY <1>9 DEF HandleRequest, FilesKept, Acquired
<1>10. CASE WorkerRequest
  <2>1. ~WatchedTaken
    BY <1>10 DEF WorkerRequest, Handles, WatchedTaken
  <2> QED
    BY <1>9, <1>10, <2>1 DEF WorkerRequest
<1>11. CASE WorkerResume
  <2>1. jobs' = jobs
    BY <1>11 DEF WorkerResume
  <2>2. ~WatchedTaken
    BY <1>1, <2>1
  <2> QED
    BY <1>9, <1>11, <2>2 DEF WorkerResume
<1>12. CASE \E r \in Requests : Compute(r) \/ Unwind(r)
  <2>1. jobs' = jobs /\ UNCHANGED <<reported, file, plan, generation, disk>>
    BY <1>12 DEF Compute, Unwind, Respond
  <2> QED
    BY <1>1, <2>1 DEF FilesKept
<1> QED
  BY <1>3, <1>4, <1>5, <1>6, <1>7, <1>8, <1>10, <1>11, <1>12 DEF Next, Editor, Work

LEMMA FileStep ==
  ASSUME TypeOK, FileInv, [Next]_vars
  PROVE  FileInv'
<1>0. /\ reported \in Nat /\ disk \in Nat /\ file \in Nat /\ generation \in Nat /\ plan \in Plans
      /\ wanted \in BOOLEAN
  BY Types
<1>1. InFlight => plan.token \in Nat
  BY <1>0 DEF Plans, InFlight
<1>2. /\ reported <= disk
      /\ InFlight => plan.token <= generation
  BY DEF FileInv
<1>3. ASSUME plan' = [state |-> "queued", token |-> generation'], plan' # NoPlan,
             UNCHANGED <<reported, disk>>, generation' \in Nat
      PROVE  FileInv'
  <2>1. plan'.state # "read" /\ plan'.token = generation' /\ InFlight'
    BY <1>3 DEF InFlight
  <2>2. plan'.token <= generation'
    BY <1>3, <2>1
  <2> QED
    BY <1>2, <1>3, <2>1, <2>2 DEF FileInv
<1>4. CASE FilesKept
  <2>1. UNCHANGED <<reported, file, plan, generation>> /\ disk' \in {disk, disk + 1} /\ ~WatchedTaken
    BY <1>4 DEF FilesKept
  <2>2. reported <= disk'
    BY <1>0, <1>2, <2>1
  <2>3. InFlight' <=> InFlight
    BY <2>1 DEF InFlight
  <2>4. NothingWatched' => NothingWatched
    BY <2>1, WatchedStays
  <2> QED
    BY <2>1, <2>2, <2>3, <2>4 DEF FileInv
<1>5. CASE DidChangeWatchedFile
  <2>1. /\ reported' = disk /\ disk' = disk
        /\ UNCHANGED <<plan, generation>>
        /\ jobs' = Append(jobs, [type |-> "watched", at |-> disk])
    BY <1>5 DEF DidChangeWatchedFile, worker, acquisition
  <2>2. PICK job \in Jobs : job = [type |-> "watched", at |-> disk]
    BY <1>0 DEF Jobs
  <2>3. jobs \in Seq(Jobs) /\ jobs' = Append(jobs, job)
    BY <2>1, <2>2, Types
  <2>4. jobs'[Len(jobs) + 1] = job /\ Len(jobs) + 1 \in DOMAIN jobs'
    BY <2>3, AppendOf
  <2>5. ~NothingWatched'
    BY <2>2, <2>4 DEF NothingWatched
  <2>6. disk <= disk
    BY <1>0
  <2> QED
    BY <1>2, <2>1, <2>5, <2>6 DEF FileInv, InFlight
<1>6. CASE Acquired
  <2>1. /\ \E want \in BOOLEAN : AcquireFiles(want, generation, plan)
        /\ UNCHANGED <<reported, disk, file>> /\ ~WatchedTaken
    BY <1>6 DEF Acquired
  <2>2. /\ generation' \in Nat
        /\ \/ plan' = plan /\ generation' = generation
           \/ plan' = [state |-> "queued", token |-> generation'] /\ plan' # NoPlan
    BY <1>0, <2>1, AcquireEffect
  <2>3. CASE plan' = plan /\ generation' = generation
    BY <1>4, <2>1, <2>3 DEF FilesKept
  <2> QED
    BY <1>3, <2>1, <2>2, <2>3
<1>7. CASE Superseded
  <2>1. AcquireFiles(TRUE, generation + 1, plan) /\ UNCHANGED <<reported, disk>>
    BY <1>7 DEF Superseded, RefreshBacking
  <2>2. generation + 1 \in Nat
    BY <1>0
  <2>3. /\ generation' \in Nat
        /\ \/ plan' = plan /\ generation' = generation + 1 /\ plan # NoPlan
           \/ plan' = [state |-> "queued", token |-> generation'] /\ plan' # NoPlan
    BY <1>0, <2>1, <2>2, AcquireEffect
  <2>4. CASE plan' = plan /\ generation' = generation + 1 /\ plan # NoPlan
    <3>1. InFlight /\ InFlight'
      BY <2>4 DEF InFlight
    <3>2. plan'.token <= generation' /\ plan'.token # generation'
      BY <1>0, <1>1, <1>2, <2>4, <3>1
    <3> QED
      BY <1>2, <2>1, <3>1, <3>2 DEF FileInv
  <2> QED
    BY <1>3, <2>1, <2>3, <2>4
<1>8. CASE CompleteFiles
  <2>1. /\ plan.state = "read"
        /\ file' = IF Applied THEN plan.file ELSE file
        /\ AcquireFiles(wanted \/ ~Applied, generation, NoPlan)
        /\ UNCHANGED <<reported, disk, jobs>>
    BY <1>8 DEF CompleteFiles, HandlesFiles, main
  <2>2. NoPlan \in Plans /\ (wanted \/ ~Applied) \in BOOLEAN
    BY DEF Plans
  <2>3. /\ generation' \in Nat
        /\ \/ plan' = NoPlan /\ generation' = generation /\ ~(wanted \/ ~Applied)
           \/ plan' = [state |-> "queued", token |-> generation'] /\ plan' # NoPlan
    BY <1>0, <2>1, <2>2, AcquireEffect
  <2>4. CASE plan' = NoPlan /\ generation' = generation /\ ~(wanted \/ ~Applied)
    <3>1. plan.token = generation /\ file' = plan.file
      BY <2>1, <2>4 DEF Applied
    <3>2. NothingWatched' => NothingWatched
      BY <2>1 DEF NothingWatched
    <3>3. NothingWatched' => file' >= reported'
      BY <2>1, <3>1, <3>2 DEF FileInv
    <3>4. ~InFlight' /\ plan'.state # "read"
      BY <2>4 DEF InFlight, NoPlan
    <3> QED
      BY <1>2, <2>1, <3>3, <3>4 DEF FileInv
  <2> QED
    BY <1>3, <2>1, <2>3, <2>4
<1>9. CASE ReadPlan
  <2>1. /\ plan.state = "queued"
        /\ plan' = [state |-> "read", token |-> plan.token, file |-> disk]
        /\ UNCHANGED <<reported, disk, generation>>
    BY <1>9 DEF ReadPlan, main
  <2>2. InFlight
    BY <2>1 DEF InFlight, NoPlan
  <2>3. InFlight' /\ plan'.token = plan.token /\ plan'.file = disk
    BY <2>1 DEF InFlight, NoPlan
  <2>4. disk >= reported
    BY <1>0, <1>2
  <2> QED
    BY <1>2, <2>1, <2>2, <2>3, <2>4 DEF FileInv
<1> QED
  BY <1>4, <1>5, <1>6, <1>7, <1>8, <1>9, FileSteps

-----------------------------------------------------------------------------
(* Snapshots and answers.                                                   *)

(* The snapshot of a fresh request that the worker takes now.               *)
LEMMA SnapshotIsCurrent ==
  ASSUME EditInv, NEW r \in Requests, Fresh(r), Requested(r), ~InFlight
  PROVE  Current([texts |-> overlay, file |-> file])
<1>1. OnlyRequests
  BY RequestedAlone DEF EditInv
<1>2. file >= reported
  <2>1. NothingWatched
    BY <1>1 DEF OnlyRequests, NothingWatched
  <2> QED
    BY <2>1 DEF EditInv, FileInv
<1>3. \A d \in Docs : overlay[d] = docs[d].text
  <2>1. \A d \in Docs : \A i \in DOMAIN jobs : ~About(jobs[i], d)
    BY <1>1 DEF OnlyRequests, About
  <2> QED
    BY <2>1 DEF EditInv, TextInv
<1> QED
  BY <1>2, <1>3 DEF Current

(* What is fresh and current after a step, for requests and snapshots of    *)
(* the step.                                                                *)
FreshAfter(r) ==
  r <= received' /\ context'[r].stamp - context'[r].discovery = stamp' - discovery'
CurrentAfter(s) == s.file >= reported' /\ \A d \in Docs : s.texts[d] = docs'[d].text

LEMMA ReadStep ==
  ASSUME EditInv, [Next]_vars
  PROVE  ReadInv'
<1>1. TypeOK /\ ContextsInv /\ ArrivedInv /\ ReadInv
  BY DEF EditInv
<1>2. /\ jobs \in Seq(Jobs) /\ out \in Seq(Messages) /\ boundary \in Seq(Responses)
      /\ received \in 0..MaxRequests
  BY <1>1, Types
<1>3. StaysFresh
  BY <1>1, ContextsStep
<1>4. ReadersFrom /\ OutFrom /\ BoundaryFrom
  BY <1>1, ReadSteps
<1>5. ASSUME NEW r \in Requests, r <= received, FreshAfter(r)
      PROVE  /\ Fresh(r)
             /\ \A s : Current(s) => CurrentAfter(s)
  <2>1. UNCHANGED <<docs, reported>> /\ (Fresh(r) \/ r = received + 1)
    BY <1>3, <1>5 DEF StaysFresh, Fresh, FreshAfter
  <2>2. r # received + 1
    BY <1>2, <1>5
  <2> QED
    BY <2>1, <2>2 DEF Current, CurrentAfter
<1>6. ASSUME NEW r \in Requests, Requested(r)
      PROVE  r <= received
  <2>1. CASE Waits(r)
    BY <1>1, <2>1 DEF ArrivedInv
  <2>2. CASE jobs # <<>> /\ Head(jobs).type = "request" /\ Head(jobs).id = r
    <3>1. Head(jobs) = jobs[1] /\ 1 \in DOMAIN jobs
      BY <1>2, <2>2, HeadOf
    <3> QED
      BY <1>1, <2>2, <3>1 DEF ArrivedInv
  <2> QED
    BY <1>6, <2>1, <2>2 DEF Requested
<1>7. ASSUME NEW r \in Requests, reader'[r].state = "running", FreshAfter(r)
      PROVE  CurrentAfter(reader'[r].snapshot)
  <2>1. CASE reader[r].state = "running" /\ reader'[r].snapshot = reader[r].snapshot
    <3>1. r <= received
      BY <1>1, <2>1 DEF ArrivedInv
    <3>2. Fresh(r) /\ \A s : Current(s) => CurrentAfter(s)
      BY <1>5, <1>7, <3>1
    <3>3. Current(reader[r].snapshot)
      BY <1>1, <2>1, <3>2 DEF ReadInv
    <3> QED
      BY <2>1, <3>2, <3>3
  <2>2. CASE Requested(r) /\ ~InFlight /\ reader'[r].snapshot = [texts |-> overlay, file |-> file]
    <3>1. r <= received
      BY <1>6, <2>2
    <3>2. Fresh(r) /\ \A s : Current(s) => CurrentAfter(s)
      BY <1>5, <1>7, <3>1
    <3>3. Current([texts |-> overlay, file |-> file])
      BY <2>2, <3>2, SnapshotIsCurrent
    <3> QED
      BY <2>2, <3>2, <3>3
  <2> QED
    BY <1>4, <1>7, <2>1, <2>2 DEF ReadersFrom
<1>8. ASSUME NEW j \in DOMAIN out, Computed(out[j]), FreshAfter(out[j].id)
      PROVE  CurrentAfter(out[j].snapshot)
  <2>1. out[j] \in Messages /\ out[j].type = "response"
    BY <1>2, <1>8 DEF Computed
  <2>2. PICK r \in Requests : r = out[j].id
    BY <2>1 DEF Messages, Responses
  <2>3. r <= received
    BY <1>1, <2>1, <2>2 DEF ArrivedInv
  <2>4. Fresh(r) /\ \A s : Current(s) => CurrentAfter(s)
    BY <1>5, <1>8, <2>2, <2>3
  <2> QED
    BY <1>1, <1>8, <2>2, <2>4 DEF ReadInv
<1>9. ASSUME NEW j \in DOMAIN boundary, Computed(boundary[j]), FreshAfter(boundary[j].id)
      PROVE  CurrentAfter(boundary[j].snapshot)
  <2>1. boundary[j] \in Responses
    BY <1>2
  <2>2. PICK r \in Requests : r = boundary[j].id
    BY <2>1 DEF Responses
  <2>3. r <= received
    BY <1>1, <2>2 DEF ArrivedInv
  <2>4. Fresh(r) /\ \A s : Current(s) => CurrentAfter(s)
    BY <1>5, <1>9, <2>2, <2>3
  <2> QED
    BY <1>1, <1>9, <2>2, <2>4 DEF ReadInv
<1>10. ASSUME NEW i \in DOMAIN out', Computed(out'[i]), FreshAfter(out'[i].id)
       PROVE  CurrentAfter(out'[i].snapshot)
  <2>1. CASE \E j \in DOMAIN out : out'[i] = out[j]
    BY <1>8, <1>10, <2>1
  <2>2. CASE \E r \in Requests : /\ reader[r].state = "running" /\ out'[i].id = r
                                 /\ Computed(out'[i]) => out'[i].snapshot = reader[r].snapshot
    <3>1. PICK r \in Requests : /\ reader[r].state = "running" /\ out'[i].id = r
                                /\ out'[i].snapshot = reader[r].snapshot
      BY <1>10, <2>2
    <3>2. r <= received
      BY <1>1, <3>1 DEF ArrivedInv
    <3>3. Fresh(r) /\ \A s : Current(s) => CurrentAfter(s)
      BY <1>5, <1>10, <3>1, <3>2
    <3>4. Current(reader[r].snapshot)
      BY <1>1, <3>1, <3>3 DEF ReadInv
    <3> QED
      BY <3>1, <3>3, <3>4
  <2>3. out'[i].type \notin {"started", "relint"}
    BY <1>10 DEF Computed
  <2> QED
    BY <1>4, <2>1, <2>2, <2>3 DEF OutFrom
<1>11. ASSUME NEW i \in DOMAIN boundary', Computed(boundary'[i]), FreshAfter(boundary'[i].id)
       PROVE  CurrentAfter(boundary'[i].snapshot)
  <2>1. CASE \E j \in DOMAIN boundary : boundary'[i] = boundary[j]
    BY <1>9, <1>11, <2>1
  <2>2. CASE \E j \in DOMAIN out : boundary'[i] = out[j] /\ out[j].type = "response"
    BY <1>8, <1>11, <2>2
  <2> QED
    BY <1>4, <2>1, <2>2 DEF BoundaryFrom
<1> QED
  BY <1>7, <1>10, <1>11 DEF ReadInv, Fresh, FreshAfter, Current, CurrentAfter

LEMMA EditStep == EditInv /\ [Next]_vars => EditInv'
<1> SUFFICES ASSUME EditInv, [Next]_vars
             PROVE  EditInv'
  OBVIOUS
<1>1. TypeOK /\ ContextsInv /\ ArrivedInv /\ OrderInv /\ TextInv /\ FileInv /\ ReadInv
  BY DEF EditInv
<1> QED
  BY <1>1, TypeStep, ContextsStep, ArrivedStep, OrderStep, TextStep, FileStep, ReadStep DEF EditInv

LEMMA EditInit == Init => EditInv
<1> SUFFICES ASSUME Init
             PROVE  EditInv
  OBVIOUS
<1>1. TypeOK
  BY TypeInit
<1>2. /\ stamp = 0 /\ discovery = 0 /\ received = 0 /\ reported = 0 /\ disk = 1 /\ file = 0
      /\ jobs = <<>> /\ out = <<>> /\ boundary = <<>>
      /\ deferred = <<>> /\ batch = <<>> /\ queued = <<>>
      /\ plan = NoPlan /\ docs = [d \in Docs |-> Closed] /\ overlay = [d \in Docs |-> NoText]
      /\ context = [r \in Requests |-> NoContext] /\ reader = [r \in Requests |-> NoReader]
  BY DEF Init
<1>3. \A r \in Requests : ~(r <= 0)
  BY DEF Requests
<1>4. ContextsInv
  <2>1. \A r \in Requests : context[r].stamp = 0 /\ context[r].discovery = 0
    BY <1>2 DEF NoContext
  <2> QED
    BY <1>2, <1>3, <2>1 DEF ContextsInv, Fresh
<1>5. \A r \in Requests : ~Waits(r) /\ reader[r].state # "running"
  BY <1>2 DEF Waits, WaitsIn, NoReader
<1>6. ArrivedInv
  BY <1>2, <1>5 DEF ArrivedInv
<1>7. OrderInv
  BY <1>2, <1>3 DEF OrderInv, Fresh
<1>8. TextInv
  BY <1>2 DEF TextInv, Closed
<1>9. FileInv
  BY <1>2 DEF FileInv, InFlight, NoPlan
<1>10. ReadInv
  BY <1>2, <1>5 DEF ReadInv
<1> QED
  BY <1>1, <1>4, <1>6, <1>7, <1>8, <1>9, <1>10 DEF EditInv

(* What an answer is made from.                                             *)
AnswerTo(r, m) ==
  IF ~m.ok THEN Failed
  ELSE IF context[r].stamp # stamp THEN Refused
  ELSE [kind |-> "edits", versions |-> context[r].versions, snapshot |-> m.snapshot]

LEMMA AnsweredFrom ==
  ASSUME EditInv, [Next]_vars, NEW r \in Requests, Answered(r)
  PROVE  /\ 1 \in DOMAIN boundary /\ Head(boundary) = boundary[1]
         /\ boundary[1] \in Responses /\ boundary[1].id = r /\ boundary[1].type = "response"
         /\ answer'[r] = AnswerTo(r, boundary[1])
<1>1. boundary \in Seq(Responses)
  BY Types DEF EditInv
<1>2. TakeResponse
  <2>1. answer' # answer
    BY DEF Answered
  <2> USE DEF main, worker
  <2>2. CASE Editor
    BY <2>1, <2>2 DEF Editor, DidOpen, DidChange, DidClose, Notify, DiskChange,
       DidChangeWatchedFile, Receive
  <2>3. CASE Work
    BY <2>1, <2>3 DEF Work, WorkerCancel, HandleEdit, HandleClose, HandleWatched, CompleteFiles,
       WorkerRequest, WorkerResume, WorkerDispatchRead, WorkerTurns
  <2>4. CASE TakeOutbound \/ ReadPlan \/ Wait \/ UNCHANGED vars
    BY <2>1, <2>4 DEF TakeOutbound, ReadPlan, Wait, vars
  <2>5. CASE \E k \in Requests : Compute(k) \/ Unwind(k)
    BY <2>1, <2>5 DEF Compute, Unwind, Respond
  <2> QED
    BY <2>2, <2>3, <2>4, <2>5 DEF Next
<1>3. /\ boundary # <<>> /\ Head(boundary) = boundary[1] /\ 1 \in DOMAIN boundary
      /\ boundary[1] \in Responses
  BY <1>1, <1>2, HeadOf DEF TakeResponse
<1> DEFINE m == boundary[1]
<1>4. m.id \in Requests /\ m.type = "response"
  BY <1>3 DEF Responses
<1> DEFINE value == AnswerTo(m.id, m)
<1>5. answer' = [answer EXCEPT ![m.id] = value]
  BY <1>2, <1>3 DEF TakeResponse, AnswerTo
<1> HIDE DEF m, value
<1>6. m.id = r /\ answer'[r] = value
  <2>1. DOMAIN answer = Requests
    BY Types DEF EditInv
  <2> QED
    BY <1>4, <1>5, <2>1 DEF Answered
<1> QED
  BY <1>3, <1>4, <1>6 DEF m, value

(* An answer whose stamp is the present one belongs to a fresh request.     *)
LEMMA AdmittedAreCurrent ==
  ASSUME EditInv, [Next]_vars, NEW r \in Requests, Answered(r), answer'[r].kind = "edits"
  PROVE  /\ answer'[r].versions = Versions
         /\ \A d \in Docs : answer'[r].snapshot.texts[d] = docs[d].text
         /\ answer'[r].snapshot.file >= reported
<1>1. stamp \in Nat /\ discovery \in Nat /\ context \in [Requests -> Contexts]
  BY Types DEF EditInv
<1>2. PICK m : m = boundary[1]
  OBVIOUS
<1>3. 1 \in DOMAIN boundary /\ m = boundary[1] /\ m \in Responses
  BY <1>2, AnsweredFrom
<1>4. m.id \in Requests /\ m.type = "response"
  BY <1>3 DEF Responses
<1>6. m.id = r /\ answer'[r] = AnswerTo(r, m)
  BY <1>2, AnsweredFrom
<1>7. m.ok /\ context[r].stamp = stamp /\ answer'[r].versions = context[r].versions
      /\ answer'[r].snapshot = m.snapshot
  BY <1>6 DEF AnswerTo, Failed, Refused
<1>8. Fresh(r)
  <2>1. r <= received
    BY <1>3, <1>4, <1>6 DEF EditInv, ArrivedInv
  <2>2. context[r] \in Contexts
    BY <1>1
  <2>3. context[r].stamp \in Nat /\ context[r].discovery \in Nat
    BY <2>2 DEF Contexts
  <2>4. /\ context[r].discovery <= discovery
        /\ context[r].stamp - context[r].discovery <= stamp - discovery
    BY DEF EditInv, ContextsInv
  <2>5. stamp \in Nat /\ discovery \in Nat /\ context[r].stamp = stamp
    BY <1>1, <1>7
  <2>6. context[r].stamp - context[r].discovery = stamp - discovery
    BY <2>3, <2>4, <2>5
  <2> QED
    BY <2>1, <2>6 DEF Fresh
<1>9. Current(m.snapshot)
  <2>1. Computed(m)
    BY <1>4, <1>7 DEF Computed
  <2> QED
    BY <1>3, <1>6, <1>8, <2>1 DEF EditInv, ReadInv
<1>10. context[r].versions = Versions
  BY <1>8 DEF EditInv, ContextsInv
<1> QED
  BY <1>7, <1>9, <1>10 DEF Current

(* Edits that are admitted were computed from the documents as the editor   *)
(* has them and from contents of the file no older than reported.           *)
THEOREM EditsAreOfNow == Spec => EditsAreCurrent
<1>1. Init => EditInv
  BY EditInit
<1>2. EditInv /\ [Next]_vars => EditInv'
  BY EditStep
<1> DEFINE A == \A r \in Requests : Answered(r) /\ answer'[r].kind = "edits" =>
                  /\ answer'[r].versions = Versions
                  /\ \A d \in Docs : answer'[r].snapshot.texts[d] = docs[d].text
                  /\ answer'[r].snapshot.file >= reported
<1>3. EditInv /\ [Next]_vars => [A]_vars
  BY AdmittedAreCurrent
<1> QED
  BY <1>1, <1>2, <1>3, PTL DEF Spec, EditsAreCurrent

-----------------------------------------------------------------------------
(* Refusals: what clients had said when a request arrived.                  *)

(* Nothing said since means fresh: what clients say is counted by the       *)
(* stamp, and so is everything that the stamp counts without discovery.     *)
ToldInv ==
  \A r \in Requests : r <= received =>
    context[r].told <= Told /\ (context[r].told = Told => Fresh(r))

LEMMA ToldStep ==
  ASSUME TypeOK, ToldInv, [Next]_vars
  PROVE  ToldInv'
<1> USE DEF main
<1>0. /\ stamp \in Nat /\ discovery \in Nat /\ received \in Nat /\ context \in [Requests -> Contexts]
      /\ changes \in Nat /\ reported \in Nat /\ disk \in Nat
  <2>1. received \in 0..MaxRequests
    BY Types
  <2>2. received \in Nat
    BY <2>1
  <2> QED
    BY <2>2, Types
<1>1. Told \in Nat
  BY <1>0 DEF Told
<1>2. \A r \in Requests : context[r].told \in Nat /\ r \in Nat
  BY <1>0 DEF Contexts, Requests
<1>3. ASSUME UNCHANGED <<context, received>>, Told' \in Nat, Told < Told'
      PROVE  ToldInv'
  BY <1>1, <1>2, <1>3 DEF ToldInv
<1>4. ASSUME NEW d \in Docs, DidOpen(d) \/ DidClose(d) \/ \E text \in {docs[d].text, changes + 1} : DidChange(d, text)
      PROVE  ToldInv'
  <2>1. UNCHANGED <<context, received, reported>> /\ changes' = changes + 1
    BY <1>4 DEF DidOpen, DidClose, DidChange, Notify
  <2>2. Told' \in Nat /\ Told < Told'
    BY <1>0, <2>1 DEF Told
  <2> QED
    BY <1>3, <2>1, <2>2
<1>5. CASE DidChangeWatchedFile
  <2>1. UNCHANGED <<context, received, changes>> /\ reported < disk /\ reported' = disk
    BY <1>5 DEF DidChangeWatchedFile
  <2>2. Told' \in Nat /\ Told < Told'
    BY <1>0, <2>1 DEF Told
  <2> QED
    BY <1>3, <2>1, <2>2
<1>6. CASE Receive
  <2>1. PICK n \in Requests : n = received + 1
    BY <1>0, <1>6, EditAdmissionAssumption DEF Receive, Requests
  <2>2. /\ \A r \in Requests \ {n} : context'[r] = context[r]
        /\ context'[n].stamp = stamp /\ context'[n].discovery = discovery /\ context'[n].told = Told
        /\ UNCHANGED <<stamp, discovery, changes, reported>> /\ received' = n
    BY <1>0, <1>6, <2>1 DEF Receive
  <2>3. Told' = Told
    BY <2>2 DEF Told
  <2>4. \A r \in Requests \ {n} : r <= n => r <= received
    BY <1>0, <1>2, <2>1
  <2>5. n <= n /\ \A r \in Requests : r <= received => r <= n
    BY <1>0, <1>2, <2>1
  <2>6. ASSUME NEW r \in Requests \ {n}, r <= n
        PROVE  context'[r].told <= Told' /\ (context'[r].told = Told' => Fresh(r)')
    BY <2>2, <2>3, <2>4, <2>5, <2>6 DEF ToldInv, Fresh
  <2>7. context'[n].told <= Told' /\ Fresh(n)'
    <3>1. Told <= Told
      BY <1>1
    <3> QED
      BY <2>2, <2>3, <2>5, <3>1 DEF Fresh
  <2>8. ASSUME NEW r \in Requests, r <= received'
        PROVE  context'[r].told <= Told' /\ (context'[r].told = Told' => Fresh(r)')
    BY <2>2, <2>6, <2>7, <2>8
  <2> QED
    BY <2>8 DEF ToldInv
<1>7. ASSUME UNCHANGED <<stamp, discovery, context, received, changes, reported>>
      PROVE  ToldInv'
  BY <1>7 DEF ToldInv, Told, Fresh
<1>8. CASE TakeOutbound
  <2>1. UNCHANGED <<received, changes, reported>>
    BY <1>8 DEF TakeOutbound
  <2>2. Told' = Told
    BY <2>1 DEF Told
  <2>3. CASE UNCHANGED <<stamp, discovery, context>>
    BY <1>7, <2>1, <2>3
  <2>4. CASE stamp' = stamp + 1 /\ discovery' = discovery + 1 /\ context' = context
    <3>1. stamp' - discovery' = stamp - discovery
      BY <1>0, <2>4
    <3>2. \A r \in Requests : Fresh(r) => Fresh(r)'
      BY <2>1, <2>4, <3>1 DEF Fresh
    <3> QED
      BY <2>1, <2>2, <2>4, <3>2 DEF ToldInv
  <2>5. ASSUME NEW k \in Requests, ReadStarted(k), UNCHANGED <<stamp, discovery>>
        PROVE  ToldInv'
    <3>1. \A r \in Requests :
            /\ context'[r].told = context[r].told
            /\ context'[r].stamp - context'[r].discovery = context[r].stamp - context[r].discovery
      BY <2>5, ReadStartedEffect
    <3>2. \A r \in Requests : Fresh(r) => Fresh(r)'
      BY <2>1, <2>5, <3>1 DEF Fresh
    <3> QED
      BY <2>1, <2>2, <3>1, <3>2 DEF ToldInv
  <2>6. Head(out).type = "started" => Head(out).id \in Requests
    <3>1. Head(out) \in Messages
      BY <1>8, Types, HeadOf DEF TakeOutbound
    <3> QED
      BY <3>1 DEF Messages, Responses
  <2> QED
    BY <1>8, <2>3, <2>4, <2>5, <2>6 DEF TakeOutbound
<1>9. CASE DiskChange \/ TakeResponse \/ ReadPlan \/ Wait \/ UNCHANGED vars
  BY <1>7, <1>9 DEF DiskChange, TakeResponse, ReadPlan, Wait, vars
<1>10. CASE Work
  BY <1>7, <1>10 DEF Work, WorkerCancel, HandleEdit, HandleClose, HandleWatched, CompleteFiles,
     WorkerRequest, WorkerResume, WorkerDispatchRead, WorkerTurns
<1>11. CASE \E r \in Requests : Compute(r) \/ Unwind(r)
  BY <1>7, <1>11 DEF Compute, Unwind, Respond
<1> QED
  BY <1>4, <1>5, <1>6, <1>8, <1>9, <1>10, <1>11 DEF Next, Editor

-----------------------------------------------------------------------------
(* What the server knows of the file is of its past, and what a plan that   *)
(* may still be applied has read is no older than the database.             *)

WatchedArePast == \A i \in DOMAIN jobs : jobs[i].type = "watched" => jobs[i].at <= disk

PastInv ==
  /\ file <= disk
  /\ WatchedArePast
  /\ plan.state = "read" => plan.file <= disk
  /\ plan.state = "read" /\ plan.token = generation => file <= plan.file

LEMMA WatchedArePastStep ==
  ASSUME TypeOK, WatchedArePast, [Next]_vars
  PROVE  disk <= disk' /\ WatchedArePast'
<1> USE DEF main
<1>0. jobs \in Seq(Jobs) /\ disk \in Nat /\ received \in 0..MaxRequests
  BY Types
<1>1. disk' \in {disk, disk + 1}
  <2>1. CASE Editor
    BY <2>1 DEF Editor, DidOpen, DidChange, DidClose, Notify, DiskChange, DidChangeWatchedFile, Receive
  <2>2. CASE Work
    BY <2>2 DEF Work, WorkerCancel, HandleEdit, HandleClose, HandleWatched, CompleteFiles,
       WorkerRequest, WorkerResume, WorkerDispatchRead, WorkerTurns
  <2>3. CASE TakeOutbound \/ TakeResponse \/ ReadPlan \/ Wait \/ UNCHANGED vars
    BY <2>3 DEF TakeOutbound, TakeResponse, ReadPlan, Wait, vars
  <2>4. CASE \E r \in Requests : Compute(r) \/ Unwind(r)
    BY <2>4 DEF Compute, Unwind, Respond
  <2> QED
    BY <2>1, <2>2, <2>3, <2>4 DEF Next
<1>2. disk <= disk' /\ disk' \in Nat
  BY <1>0, <1>1
<1>3. ASSUME NEW j \in DOMAIN jobs, jobs[j].type = "watched"
      PROVE  jobs[j].at <= disk'
  <2>1. jobs[j] \in Jobs
    BY <1>0
  <2>2. jobs[j].at \in Nat
    BY <1>3, <2>1 DEF Jobs
  <2> QED
    BY <1>0, <1>2, <1>3, <2>2 DEF WatchedArePast
<1>4. ASSUME NEW job \in Jobs, jobs' = Append(jobs, job), job.type = "watched" => job.at <= disk'
      PROVE  WatchedArePast'
  <2>1. \A i \in DOMAIN jobs' : jobs'[i] = job \/ \E j \in DOMAIN jobs : jobs'[i] = jobs[j]
    BY <1>0, <1>4, AppendFrom
  <2>2. ASSUME NEW i \in DOMAIN jobs', jobs'[i].type = "watched"
        PROVE  jobs'[i].at <= disk'
    BY <1>3, <1>4, <2>1, <2>2
  <2> QED
    BY <2>2 DEF WatchedArePast
<1>5. ASSUME \A i \in DOMAIN jobs' : \E j \in DOMAIN jobs : jobs'[i] = jobs[j]
      PROVE  WatchedArePast'
  <2>1. ASSUME NEW i \in DOMAIN jobs', jobs'[i].type = "watched"
        PROVE  jobs'[i].at <= disk'
    BY <1>3, <1>5, <2>1
  <2> QED
    BY <2>1 DEF WatchedArePast
<1>6. CASE JobTaken \/ JobsKept
  <2>1. \A i \in DOMAIN jobs' : \E j \in DOMAIN jobs : jobs'[i] = jobs[j]
    BY <1>0, <1>6, TailFrom DEF JobTaken, JobsKept
  <2> QED
    BY <1>2, <1>5, <2>1
<1>7. CASE Receive
  <2>1. received + 1 \in Requests
    BY <1>0, <1>7, EditAdmissionAssumption DEF Receive, Requests
  <2>2. PICK job \in Jobs : job = [type |-> "request", id |-> received + 1]
    BY <2>1 DEF Jobs
  <2>3. jobs' = Append(jobs, job) /\ job.type # "watched"
    BY <1>7, <2>2 DEF Receive
  <2> QED
    BY <1>2, <1>4, <2>3
<1>8. CASE DidChangeWatchedFile
  <2>1. PICK job \in Jobs : job = [type |-> "watched", at |-> disk]
    BY <1>0 DEF Jobs
  <2> QED
    BY <1>2, <1>4, <1>8, <2>1 DEF DidChangeWatchedFile
<1>9. ASSUME NEW d \in Docs, DidOpen(d) \/ DidClose(d) \/ \E text \in {docs[d].text, changes + 1} : DidChange(d, text)
      PROVE  WatchedArePast'
  <2>1. PICK job : job.type # "watched" /\ jobs' = Append(jobs, job)
    BY <1>9 DEF DidOpen, DidClose, DidChange, Notify
  <2>2. PICK sent \in Jobs : jobs' = Append(jobs, sent)
    BY <1>9, NotifiedJob DEF JobSent
  <2>3. sent = job
    <3>1. Append(jobs, job)[Len(jobs) + 1] = job
      BY <1>0
    <3>2. Append(jobs, sent)[Len(jobs) + 1] = sent
      BY <1>0
    <3> QED
      BY <2>1, <2>2, <3>1, <3>2
  <2> QED
    BY <1>4, <2>1, <2>2, <2>3
<1>10. CASE JobSent /\ ~(JobsKept \/ JobTaken)
  <2>1. Editor
    <3>1. CASE Work
      BY <1>10, <3>1 DEF Work, WorkerCancel, HandleEdit, HandleClose, HandleWatched, CompleteFiles,
         WorkerRequest, WorkerResume, WorkerDispatchRead, WorkerTurns, Handles, JobsKept, JobTaken
    <3>2. CASE TakeOutbound \/ TakeResponse \/ ReadPlan \/ Wait \/ UNCHANGED vars
      BY <1>10, <3>2 DEF TakeOutbound, TakeResponse, ReadPlan, Wait, vars, JobsKept
    <3>3. CASE \E r \in Requests : Compute(r) \/ Unwind(r)
      BY <1>10, <3>3 DEF Compute, Unwind, Respond, JobsKept
    <3> QED
      BY <3>1, <3>2, <3>3 DEF Next
  <2>2. ~DiskChange
    BY <1>10 DEF DiskChange, JobsKept
  <2>3. CASE \E d \in Docs : DidOpen(d) \/ DidClose(d)
    BY <1>2, <1>9, <2>3
  <2>4. CASE \E d \in Docs : \E text \in {docs[d].text, changes + 1} : DidChange(d, text)
    BY <1>2, <1>9, <2>4
  <2> QED
    BY <1>7, <1>8, <2>1, <2>2, <2>3, <2>4 DEF Editor
<1> QED
  BY <1>2, <1>6, <1>7, <1>10, JobSteps

LEMMA PastStep ==
  ASSUME TypeOK, FileInv, PastInv, [Next]_vars
  PROVE  PastInv'
<1>0. /\ disk \in Nat /\ file \in Nat /\ generation \in Nat /\ plan \in Plans
      /\ wanted \in BOOLEAN /\ jobs \in Seq(Jobs)
  BY Types
<1>1. disk <= disk' /\ WatchedArePast' /\ disk' \in Nat
  <2>1. disk' \in Nat
    BY TypeStep DEF TypeOK
  <2> QED
    BY <2>1, WatchedArePastStep DEF PastInv
<1>2. plan.state = "read" => plan.file \in Nat /\ plan.token \in Nat /\ InFlight
  BY <1>0 DEF Plans, NoPlan, InFlight
<1>3. ASSUME file' \in Nat, file' <= disk, plan'.state # "read"
      PROVE  PastInv'
  <2>1. file' <= disk'
    BY <1>0, <1>1, <1>3
  <2> QED
    BY <1>1, <1>3, <2>1 DEF PastInv
<1>4. ASSUME UNCHANGED <<file, plan, generation>>
      PROVE  PastInv'
  <2>1. file' <= disk' /\ (plan'.state = "read" => plan'.file <= disk')
    BY <1>0, <1>1, <1>2, <1>4 DEF PastInv
  <2> QED
    BY <1>1, <1>4, <2>1 DEF PastInv
<1>5. CASE FilesKept \/ DidChangeWatchedFile
  BY <1>4, <1>5 DEF FilesKept, DidChangeWatchedFile, worker, acquisition
<1>6. CASE Acquired
  <2>1. /\ file' = file
        /\ \/ plan' = plan /\ generation' = generation
           \/ plan' = [state |-> "queued", token |-> generation']
    BY <1>0, <1>6, AcquireEffect DEF Acquired
  <2>2. CASE plan' = [state |-> "queued", token |-> generation']
    BY <1>0, <1>3, <2>1, <2>2 DEF PastInv
  <2> QED
    BY <1>4, <2>1, <2>2
<1>7. CASE Superseded
  <2>0. AcquireFiles(TRUE, generation + 1, plan)
    BY <1>7 DEF Superseded, RefreshBacking
  <2>1. generation + 1 \in Nat
    BY <1>0
  <2>2. \/ plan' = plan /\ generation' = generation + 1
        \/ plan' = [state |-> "queued", token |-> generation']
    BY <1>0, <2>0, <2>1, AcquireEffect
  <2>3. file' \in Nat /\ file' <= disk
    <3>1. CASE file' = file
      BY <1>0, <3>1 DEF PastInv
    <3>2. CASE WatchedTaken /\ file' = Head(jobs).at
      <4>1. Head(jobs) \in Jobs /\ Head(jobs) = jobs[1] /\ 1 \in DOMAIN jobs /\ Head(jobs).type = "watched"
        BY <1>0, <3>2, HeadOf DEF WatchedTaken, JobTaken
      <4>2. Head(jobs).at \in Nat
        BY <4>1 DEF Jobs
      <4>3. Head(jobs).at <= disk
        BY <4>1 DEF PastInv, WatchedArePast
      <4> QED
        BY <3>2, <4>2, <4>3
    <3> QED
      BY <1>7, <3>1, <3>2 DEF Superseded
  <2>4. CASE plan' = plan /\ generation' = generation + 1
    <3>1. plan.state = "read" => plan.token # generation + 1
      BY <1>0, <1>2 DEF FileInv
    <3>2. file' <= disk' /\ (plan'.state = "read" => plan'.file <= disk')
      BY <1>0, <1>1, <1>2, <2>3, <2>4 DEF PastInv
    <3> QED
      BY <1>1, <2>4, <3>1, <3>2 DEF PastInv
  <2>5. CASE plan' = [state |-> "queued", token |-> generation']
    BY <1>3, <2>3, <2>5
  <2> QED
    BY <2>2, <2>4, <2>5
<1>8. CASE CompleteFiles
  <2>1. /\ plan.state = "read"
        /\ file' = IF Applied THEN plan.file ELSE file
        /\ AcquireFiles(wanted \/ ~Applied, generation, NoPlan)
    BY <1>8 DEF CompleteFiles, HandlesFiles
  <2>2. NoPlan \in Plans /\ (wanted \/ ~Applied) \in BOOLEAN
    BY DEF Plans
  <2>3. plan' = NoPlan \/ plan' = [state |-> "queued", token |-> generation']
    BY <1>0, <2>1, <2>2, AcquireEffect
  <2>4. plan'.state # "read"
    BY <2>3 DEF NoPlan
  <2>5. file' \in Nat /\ file' <= disk
    BY <1>0, <1>2, <2>1 DEF PastInv
  <2> QED
    BY <1>3, <2>4, <2>5
<1>9. CASE ReadPlan
  <2>1. /\ plan' = [state |-> "read", token |-> plan.token, file |-> disk]
        /\ UNCHANGED <<disk, file, generation>>
    BY <1>9 DEF ReadPlan, main
  <2>2. plan'.file = disk /\ file <= disk /\ disk <= disk
    BY <1>0, <2>1 DEF PastInv
  <2> QED
    BY <1>1, <2>1, <2>2 DEF PastInv
<1> QED
  BY <1>5, <1>6, <1>7, <1>8, <1>9, FileSteps

-----------------------------------------------------------------------------
(* While only requests are left in the channel, the file grows, and a       *)
(* relint is of contents newer than the database had.                       *)

LEMMA FileGrows ==
  ASSUME TypeOK, PastInv, OnlyRequests, [Next]_vars
  PROVE  file <= file' /\ file' \in Nat
<1>0. file \in Nat /\ plan \in Plans /\ jobs \in Seq(Jobs)
  BY Types
<1>1. CASE FilesKept \/ DidChangeWatchedFile \/ Acquired \/ ReadPlan
  <2>1. file' = file
    BY <1>1 DEF FilesKept, DidChangeWatchedFile, Acquired, ReadPlan, worker
  <2> QED
    BY <1>0, <2>1
<1>2. CASE Superseded
  <2>1. ~WatchedTaken
    <3> SUFFICES ASSUME jobs # <<>>, Head(jobs).type = "watched"
                 PROVE  FALSE
      BY DEF WatchedTaken, JobTaken
    <3>1. Head(jobs) = jobs[1] /\ 1 \in DOMAIN jobs
      BY <1>0, HeadOf
    <3> QED
      BY <3>1 DEF OnlyRequests
  <2>2. file' = file
    BY <1>2, <2>1 DEF Superseded
  <2> QED
    BY <1>0, <2>2
<1>3. CASE CompleteFiles
  <2>1. plan.state = "read" /\ file' = IF Applied THEN plan.file ELSE file
    BY <1>3 DEF CompleteFiles, HandlesFiles
  <2>2. plan.file \in Nat
    BY <1>0, <2>1 DEF Plans, NoPlan
  <2> QED
    BY <1>0, <2>1, <2>2 DEF Applied, PastInv
<1> QED
  BY <1>1, <1>2, <1>3, FileSteps

(* What is sent to the main loop.                                           *)
SentFrom ==
  \/ out' = out
  \/ \E m \in Messages :
       /\ out' = Append(out, m)
       /\ m.type = "relint" => m.file > file
       /\ m.type = "response" =>
            reader[m.id].state = "running" /\ (m.ok => m.snapshot = reader[m.id].snapshot)

LEMMA SentSteps ==
  ASSUME TypeOK, PastInv, OnlyRequests, [Next]_vars
  PROVE  TakeOutbound \/ (relinted' = relinted /\ SentFrom)
<1> USE DEF main
<1>0. file \in Nat /\ plan \in Plans /\ jobs \in Seq(Jobs) /\ reader \in [Requests -> Readers]
      /\ batch \in Seq(Requests) /\ queued \in Seq(Requests)
  BY Types
<1>1. ASSUME UNCHANGED <<out, relinted>>
      PROVE  relinted' = relinted /\ SentFrom
  BY <1>1 DEF SentFrom
<1>2. CASE Editor
  BY <1>1, <1>2 DEF Editor, DidOpen, DidChange, DidClose, Notify, DiskChange, DidChangeWatchedFile,
     Receive
<1>3. CASE TakeResponse \/ ReadPlan \/ Wait \/ UNCHANGED vars
  BY <1>1, <1>3 DEF TakeResponse, ReadPlan, Wait, vars
<1>4. CASE WorkerCancel \/ WorkerTurns \/ \E needs \in BOOLEAN : HandleEdit(needs)
  BY <1>1, <1>4 DEF WorkerCancel, WorkerTurns, HandleEdit
<1>5. ~HandleClose /\ ~HandleWatched
  <2> SUFFICES ASSUME jobs # <<>>, Head(jobs).type # "request"
               PROVE  FALSE
    BY DEF HandleClose, HandleWatched, Handles
  <2>1. Head(jobs) = jobs[1] /\ 1 \in DOMAIN jobs
    BY <1>0, HeadOf
  <2> QED
    BY <2>1 DEF OnlyRequests
<1>6. CASE CompleteFiles
  <2>1. /\ plan.state = "read" /\ relinted' = relinted
        /\ out' = IF NewContents THEN Relint(plan.file) ELSE out
    BY <1>6 DEF CompleteFiles, HandlesFiles
  <2>2. plan.file \in Nat
    BY <1>0, <2>1 DEF Plans, NoPlan
  <2>3. CASE NewContents
    <3>1. PICK m \in Messages : m = [type |-> "relint", file |-> plan.file]
      BY <2>2 DEF Messages
    <3>2. out' = Append(out, m) /\ m.type = "relint" /\ m.file = plan.file
      BY <2>1, <2>3, <3>1 DEF Relint
    <3>3. plan.token = generation /\ file # plan.file
      BY <2>3 DEF NewContents, Applied
    <3>4. plan.file > file
      BY <1>0, <2>1, <2>2, <3>3 DEF PastInv
    <3> QED
      BY <2>1, <3>2, <3>4 DEF SentFrom
  <2>4. CASE ~NewContents
    BY <1>1, <2>1, <2>4
  <2> QED
    BY <2>3, <2>4
<1>7. ASSUME NEW k \in Requests, HandleRequest(k), relinted' = relinted
      PROVE  relinted' = relinted /\ SentFrom
  <2>1. CASE out' = out
    BY <1>1, <1>7, <2>1
  <2>2. CASE Start(k)
    <3>1. PICK m \in Messages : m = [type |-> "started", id |-> k]
      BY DEF Messages
    <3>2. out' = Append(out, m) /\ m.type = "started"
      BY <2>2, <3>1 DEF Start
    <3> QED
      BY <1>7, <3>2 DEF SentFrom
  <2> QED
    BY <1>7, <2>1, <2>2 DEF HandleRequest, ExecuteRequest
<1>8. CASE WorkerRequest
  <2>1. Head(jobs) \in Jobs /\ Head(jobs).type = "request"
    BY <1>0, <1>8, HeadOf DEF WorkerRequest, Handles
  <2>2. PICK k \in Requests : k = Head(jobs).id
    BY <2>1 DEF Jobs
  <2> QED
    BY <1>7, <1>8, <2>2 DEF WorkerRequest
<1>9. CASE WorkerResume
  <2>1. PICK k \in Requests : k = Head(batch)
    BY <1>0, <1>9, HeadOf DEF WorkerResume
  <2> QED
    BY <1>7, <1>9, <2>1 DEF WorkerResume
<1>10. CASE WorkerDispatchRead
  <2>1. PICK k \in Requests : k = Head(queued)
    BY <1>0, <1>10, HeadOf DEF WorkerDispatchRead
  <2>2. ExecuteRequest(k) /\ relinted' = relinted
    BY <1>10, <2>1 DEF WorkerDispatchRead
  <2>3. CASE out' = out
    BY <1>1, <2>2, <2>3
  <2>4. CASE Start(k)
    <3>1. PICK m \in Messages : m = [type |-> "started", id |-> k]
      BY DEF Messages
    <3>2. out' = Append(out, m) /\ m.type = "started"
      BY <2>4, <3>1 DEF Start
    <3> QED
      BY <2>2, <3>2 DEF SentFrom
  <2> QED
    BY <2>2, <2>3, <2>4 DEF ExecuteRequest
<1>11. ASSUME NEW k \in Requests, Compute(k) \/ Unwind(k)
       PROVE  relinted' = relinted /\ SentFrom
  <2>1. reader[k] \in Readers /\ reader[k].state = "running"
    BY <1>0, <1>11 DEF Compute, Unwind, Respond
  <2>2. reader[k].snapshot \in Snapshots
    BY <2>1 DEF Readers, NoReader
  <2>3. CASE Compute(k)
    <3>1. PICK m : m = [type |-> "response", id |-> k, ok |-> TRUE, snapshot |-> reader[k].snapshot]
      OBVIOUS
    <3>2. m \in Messages /\ m.id = k /\ m.type = "response" /\ m.snapshot = reader[k].snapshot
      BY <2>2, <3>1 DEF Messages, Responses
    <3>3. out' = Append(out, m) /\ relinted' = relinted
      BY <2>3, <3>1 DEF Compute, Respond
    <3> QED
      BY <2>1, <3>2, <3>3 DEF SentFrom
  <2>4. CASE Unwind(k)
    <3>1. PICK m : m = [type |-> "response", id |-> k, ok |-> FALSE]
      OBVIOUS
    <3>2. m \in Messages /\ m.id = k /\ m.type = "response" /\ ~m.ok
      BY <3>1 DEF Messages, Responses
    <3>3. out' = Append(out, m) /\ relinted' = relinted
      BY <2>4, <3>1 DEF Unwind, Respond
    <3> QED
      BY <2>1, <3>2, <3>3 DEF SentFrom
  <2> QED
    BY <1>11, <2>3, <2>4
<1> QED
  BY <1>2, <1>3, <1>4, <1>5, <1>6, <1>8, <1>9, <1>10, <1>11 DEF Next, Work

-----------------------------------------------------------------------------
(* Refusals: discovery behind the start of a read.                          *)

(* Behind a place in a channel, all discovery is of contents newer than v;  *)
(* and the place is that of a start of r, before place n.                   *)
NewerBehind(q, i, v) == \A j \in DOMAIN q : j > i /\ q[j].type = "relint" => q[j].file > v
StartAhead(q, n, r, v) ==
  \E i \in DOMAIN q : i < n /\ q[i].type = "started" /\ q[i].id = r /\ NewerBehind(q, i, v)

(* The main loop has taken the start of a read of r from contents v, and    *)
(* what raised the stamp since then was discovered later.                   *)
StartTaken(r, v) ==
  /\ NewerBehind(out, 0, v)
  /\ context[r].stamp = stamp \/ relinted > v

(* The worker has read contents v for a request nobody has disturbed.       *)
HasRead(v) == v <= file /\ OnlyRequests

RefusalInv ==
  \A r \in Requests : \A v \in Nat : Fresh(r) =>
    /\ reader[r].state = "running" /\ reader[r].snapshot.file = v =>
         HasRead(v) /\ (StartTaken(r, v) \/ StartAhead(out, Len(out) + 1, r, v))
    /\ \A k \in DOMAIN out : Computed(out[k]) /\ out[k].id = r /\ out[k].snapshot.file = v =>
         HasRead(v) /\ (StartTaken(r, v) \/ StartAhead(out, k, r, v))
    /\ \A k \in DOMAIN boundary :
         Computed(boundary[k]) /\ boundary[k].id = r /\ boundary[k].snapshot.file = v =>
           HasRead(v) /\ StartTaken(r, v)

LEMMA SentBehind ==
  ASSUME NEW q \in Seq(Messages), NEW m \in Messages, NEW r, NEW v \in Nat,
         m.type = "relint" => m.file > v
  PROVE  /\ \A i : NewerBehind(q, i, v) => NewerBehind(Append(q, m), i, v)
         /\ \A n : StartAhead(q, n, r, v) => StartAhead(Append(q, m), n, r, v)
<1>1. /\ \A j \in DOMAIN q : Append(q, m)[j] = q[j] /\ j \in DOMAIN Append(q, m)
      /\ \A j \in DOMAIN Append(q, m) : j \in DOMAIN q \/ Append(q, m)[j] = m
  BY AppendOf
<1>2. \A i : NewerBehind(q, i, v) => NewerBehind(Append(q, m), i, v)
  BY <1>1 DEF NewerBehind
<1> QED
  BY <1>1, <1>2 DEF StartAhead

LEMMA TakenBehind ==
  ASSUME NEW q \in Seq(Messages), q # <<>>, NEW r, NEW v \in Nat
  PROVE  /\ NewerBehind(q, 0, v) =>
              /\ NewerBehind(Tail(q), 0, v)
              /\ Head(q).type = "relint" => Head(q).file > v
         /\ \A n \in Nat : StartAhead(q, n, r, v) =>
              \/ Head(q).type = "started" /\ Head(q).id = r /\ NewerBehind(Tail(q), 0, v)
              \/ StartAhead(Tail(q), n - 1, r, v)
<1>1. /\ Head(q) = q[1] /\ 1 \in DOMAIN q /\ DOMAIN q = 1..Len(q) /\ Len(q) \in Nat
      /\ DOMAIN Tail(q) = 1..Len(q) - 1
      /\ \A i \in DOMAIN Tail(q) : Tail(q)[i] = q[i + 1] /\ i + 1 \in DOMAIN q
      /\ \A i \in DOMAIN q : i = 1 \/ (i - 1 \in DOMAIN Tail(q) /\ Tail(q)[i - 1] = q[i])
  BY HeadOf
<1>2. ASSUME NEW i \in Nat, NewerBehind(q, i + 1, v)
      PROVE  NewerBehind(Tail(q), i, v)
  <2>1. ASSUME NEW j \in DOMAIN Tail(q), j > i, Tail(q)[j].type = "relint"
        PROVE  Tail(q)[j].file > v
    <3>1. j + 1 \in DOMAIN q /\ q[j + 1] = Tail(q)[j] /\ j + 1 > i + 1
      BY <1>1, <2>1
    <3> QED
      BY <1>2, <2>1, <3>1 DEF NewerBehind
  <2> QED
    BY <2>1 DEF NewerBehind
<1>3. ASSUME NewerBehind(q, 0, v)
      PROVE  NewerBehind(Tail(q), 0, v) /\ (Head(q).type = "relint" => Head(q).file > v)
  <2>1. NewerBehind(q, 0 + 1, v)
    BY <1>1, <1>3 DEF NewerBehind
  <2> QED
    BY <1>1, <1>2, <1>3, <2>1 DEF NewerBehind
<1>4. ASSUME NEW n \in Nat, StartAhead(q, n, r, v)
      PROVE  \/ Head(q).type = "started" /\ Head(q).id = r /\ NewerBehind(Tail(q), 0, v)
             \/ StartAhead(Tail(q), n - 1, r, v)
  <2>1. PICK i \in DOMAIN q : i < n /\ q[i].type = "started" /\ q[i].id = r /\ NewerBehind(q, i, v)
    BY <1>4 DEF StartAhead
  <2>2. CASE i = 1
    <3>1. NewerBehind(q, 0 + 1, v)
      BY <2>1, <2>2
    <3> QED
      BY <1>1, <1>2, <2>1, <2>2, <3>1
  <2>3. CASE i # 1
    <3>1. PICK h \in Nat : h = i - 1
      BY <1>1
    <3>2. h \in DOMAIN Tail(q) /\ Tail(q)[h] = q[i] /\ h + 1 = i /\ h < n - 1
      BY <1>1, <2>1, <2>3, <3>1
    <3>3. NewerBehind(Tail(q), h, v)
      BY <1>2, <2>1, <3>2
    <3> QED
      BY <2>1, <3>2, <3>3 DEF StartAhead
  <2> QED
    BY <2>2, <2>3
<1> QED
  BY <1>3, <1>4

-----------------------------------------------------------------------------
(* Refusals: the steps.                                                     *)

(* A fresh request absorbs all discovery of the past when its read starts.  *)
LEMMA Absorbed ==
  ASSUME TypeOK, ContextsInv, NEW r \in Requests, Fresh(r), ReadStarted(r)
  PROVE  context'[r].stamp = stamp
<1>1. context \in [Requests -> Contexts] /\ stamp \in Nat /\ discovery \in Nat
  BY Types
<1>2. context[r] \in Contexts
  BY <1>1
<1>3. context[r].stamp \in Nat /\ context[r].discovery \in Nat
  BY <1>2 DEF Contexts
<1>4. context[r].stamp - context[r].discovery = stamp - discovery /\ context[r].versions = Versions
  BY DEF ContextsInv, Fresh
<1>5. stamp - context[r].stamp = discovery - context[r].discovery
  BY <1>1, <1>3, <1>4
<1>6. context' = [context EXCEPT ![r].stamp = stamp, ![r].discovery = discovery]
  BY <1>4, <1>5 DEF ReadStarted
<1>7. PICK u : u = [context[r] EXCEPT !.stamp = stamp]
  OBVIOUS
<1>8. PICK v : v = [u EXCEPT !.discovery = discovery]
  OBVIOUS
<1>9. context' = [context EXCEPT ![r] = v]
  BY <1>1, <1>6, <1>7, <1>8
<1>10. u.stamp = stamp /\ u \in Contexts
  BY <1>1, <1>2, <1>7 DEF Contexts
<1>11. v.stamp = stamp
  BY <1>1, <1>8, <1>10 DEF Contexts
<1> QED
  BY <1>1, <1>9, <1>11

(* No client says anything in a step after which a request is still fresh.  *)
LEMMA Undisturbed ==
  ASSUME TypeOK, [Next]_vars, NEW r \in Requests, Fresh(r), Fresh(r)'
  PROVE  /\ TakeOutbound \/ (stamp' = stamp /\ context'[r] = context[r])
         /\ OnlyRequests => OnlyRequests'
<1>1. /\ stamp \in Nat /\ discovery \in Nat /\ context \in [Requests -> Contexts]
      /\ received \in 0..MaxRequests /\ jobs \in Seq(Jobs)
  BY Types
<1>2. context[r] \in Contexts
  BY <1>1
<1>3. context[r].stamp \in Nat /\ context[r].discovery \in Nat
  BY <1>2 DEF Contexts
<1>4. ~StampsRaised
  <2>1. context[r].stamp - context[r].discovery = stamp - discovery
    BY DEF Fresh
  <2>2. context'[r].stamp - context'[r].discovery = stamp' - discovery'
    BY DEF Fresh
  <2> QED
    BY <1>1, <1>3, <2>1, <2>2 DEF StampsRaised
<1>5. Receive => context'[r] = context[r] /\ stamp' = stamp
  <2>1. r # received + 1
    BY <1>1 DEF Fresh
  <2> QED
    BY <1>1, <2>1 DEF Receive
<1>6. TakeOutbound \/ (stamp' = stamp /\ context'[r] = context[r])
  BY <1>4, <1>5, StampsElse DEF StampsKept
<1>7. ASSUME OnlyRequests
      PROVE  OnlyRequests'
  <2>1. CASE JobsKept
    BY <1>7, <2>1 DEF JobsKept, OnlyRequests
  <2>2. CASE JobTaken
    <3>1. \A i \in DOMAIN jobs' : \E j \in DOMAIN jobs : jobs'[i] = jobs[j]
      BY <1>1, <2>2, TailFrom DEF JobTaken
    <3> QED
      BY <1>7, <3>1 DEF OnlyRequests
  <2>3. CASE Receive
    <3>1. received + 1 \in Requests
      BY <1>1, <2>3, EditAdmissionAssumption DEF Receive, Requests
    <3>2. PICK job \in Jobs : job = [type |-> "request", id |-> received + 1]
      BY <3>1 DEF Jobs
    <3>3. jobs' = Append(jobs, job) /\ job.type = "request"
      BY <2>3, <3>2 DEF Receive
    <3>4. \A i \in DOMAIN jobs' : jobs'[i] = job \/ \E j \in DOMAIN jobs : jobs'[i] = jobs[j]
      BY <1>1, <3>3, AppendFrom
    <3> QED
      BY <1>7, <3>3, <3>4 DEF OnlyRequests
  <2> QED
    BY <1>4, <2>1, <2>2, <2>3, JobSteps DEF JobSent
<1> QED
  BY <1>6, <1>7

(* What has been read stays as it is while its request is fresh.            *)
LEMMA StartStays ==
  ASSUME TypeOK, ContextsInv, PastInv, [Next]_vars, NEW r \in Requests, NEW v \in Nat,
         Fresh(r), Fresh(r)', HasRead(v)
  PROVE  /\ HasRead(v)'
         /\ StartTaken(r, v) => StartTaken(r, v)'
         /\ \A n \in Nat : StartAhead(out, n, r, v) =>
              IF TakeOutbound THEN StartTaken(r, v)' \/ StartAhead(out', n - 1, r, v)
              ELSE StartAhead(out', n, r, v)
<1>0. /\ out \in Seq(Messages) /\ file \in Nat /\ relinted \in Nat
      /\ context \in [Requests -> Contexts]
  BY Types
<1>1. HasRead(v)'
  <2>1. file <= file' /\ file' \in Nat /\ v <= file
    BY FileGrows DEF HasRead
  <2>2. v <= file'
    BY <1>0, <2>1
  <2>3. OnlyRequests'
    BY Undisturbed DEF HasRead
  <2> QED
    BY <2>2, <2>3 DEF HasRead
<1>2. CASE ~TakeOutbound
  <2>1. relinted' = relinted /\ SentFrom /\ stamp' = stamp /\ context'[r] = context[r]
    BY <1>2, SentSteps, Undisturbed DEF HasRead
  <2>2. CASE out' = out
    BY <1>1, <1>2, <2>1, <2>2 DEF StartTaken
  <2>3. CASE out' # out
    <3>1. PICK m \in Messages : out' = Append(out, m) /\ (m.type = "relint" => m.file > file)
      BY <2>1, <2>3 DEF SentFrom
    <3>2. m.type = "relint" => m.file \in Nat
      BY <3>1 DEF Messages, Responses
    <3>3. m.type = "relint" => m.file > v
      BY <1>0, <3>1, <3>2 DEF HasRead
    <3>4. /\ NewerBehind(out, 0, v) => NewerBehind(out', 0, v)
          /\ \A n : StartAhead(out, n, r, v) => StartAhead(out', n, r, v)
      BY <1>0, <3>1, <3>3, SentBehind
    <3>5. StartTaken(r, v) => StartTaken(r, v)'
      BY <2>1, <3>4 DEF StartTaken
    <3> QED
      BY <1>1, <1>2, <3>4, <3>5
  <2> QED
    BY <2>2, <2>3
<1>3. CASE TakeOutbound
  <2>1. out # <<>> /\ out' = Tail(out) /\ Head(out) \in Messages
    BY <1>0, <1>3, HeadOf DEF TakeOutbound
  <2>2. /\ NewerBehind(out, 0, v) =>
             /\ NewerBehind(out', 0, v)
             /\ Head(out).type = "relint" => Head(out).file > v
        /\ \A n \in Nat : StartAhead(out, n, r, v) =>
             \/ Head(out).type = "started" /\ Head(out).id = r /\ NewerBehind(out', 0, v)
             \/ StartAhead(out', n - 1, r, v)
    BY <1>0, <2>1, TakenBehind
  <2>3. ASSUME Head(out).type = "started", Head(out).id = r
        PROVE  context'[r].stamp = stamp /\ stamp' = stamp
    BY <1>3, <2>3, Absorbed DEF TakeOutbound
  <2>4. ASSUME NEW n \in Nat, StartAhead(out, n, r, v)
        PROVE  StartTaken(r, v)' \/ StartAhead(out', n - 1, r, v)
    BY <2>2, <2>3, <2>4 DEF StartTaken
  <2>5. ASSUME StartTaken(r, v)
        PROVE  StartTaken(r, v)'
    <3>1. NewerBehind(out', 0, v) /\ (Head(out).type = "relint" => Head(out).file > v)
          /\ (context[r].stamp = stamp \/ relinted > v)
      BY <2>2, <2>5 DEF StartTaken
    <3>2. CASE Head(out).type = "relint"
      BY <1>3, <3>1, <3>2 DEF TakeOutbound, StartTaken
    <3>3. CASE Head(out).type = "response"
      BY <1>3, <3>1, <3>3 DEF TakeOutbound, StartTaken
    <3>4. CASE Head(out).type = "started" /\ Head(out).id = r
      BY <2>3, <3>1, <3>4 DEF StartTaken
    <3>5. CASE Head(out).type = "started" /\ Head(out).id # r
      <4>1. context'[r] = context[r] /\ stamp' = stamp /\ relinted' = relinted
        BY <1>0, <1>3, <3>5 DEF TakeOutbound, ReadStarted
      <4> QED
        BY <3>1, <4>1 DEF StartTaken
    <3> QED
      BY <1>3, <3>2, <3>3, <3>4, <3>5 DEF TakeOutbound
  <2> QED
    BY <1>1, <1>3, <2>4, <2>5
<1> QED
  BY <1>2, <1>3

LEMMA RefusalStep ==
  ASSUME EditInv, PastInv, RefusalInv, [Next]_vars
  PROVE  RefusalInv'
<1>0. TypeOK /\ ContextsInv /\ ArrivedInv /\ OrderInv
  BY DEF EditInv
<1>1. /\ out \in Seq(Messages) /\ boundary \in Seq(Responses) /\ reader \in [Requests -> Readers]
      /\ received \in 0..MaxRequests /\ file \in Nat
  BY <1>0, Types
<1>2. ReadersFrom /\ OutFrom /\ BoundaryFrom
  BY <1>0, ReadSteps
<1> SUFFICES ASSUME NEW r \in Requests, NEW v \in Nat, Fresh(r)'
             PROVE
    /\ reader'[r].state = "running" /\ reader'[r].snapshot.file = v =>
         HasRead(v)' /\ (StartTaken(r, v)' \/ StartAhead(out', Len(out') + 1, r, v))
    /\ \A k \in DOMAIN out' : Computed(out'[k]) /\ out'[k].id = r /\ out'[k].snapshot.file = v =>
         HasRead(v)' /\ (StartTaken(r, v)' \/ StartAhead(out', k, r, v))
    /\ \A k \in DOMAIN boundary' :
         Computed(boundary'[k]) /\ boundary'[k].id = r /\ boundary'[k].snapshot.file = v =>
           HasRead(v)' /\ StartTaken(r, v)'
  BY DEF RefusalInv, Computed
<1>3. Fresh(r) \/ (Receive /\ r = received + 1)
  BY <1>0, ContextsStep DEF StaysFresh
<1>4. CASE Receive /\ r = received + 1
  <2>1. UNCHANGED <<reader, out, boundary>>
    BY <1>4 DEF Receive
  <2>2. ~(r <= received)
    BY <1>1, <1>4
  <2>3. /\ reader[r].state # "running"
        /\ \A k \in DOMAIN out : ~(Computed(out[k]) /\ out[k].id = r)
        /\ \A k \in DOMAIN boundary : boundary[k].id # r
    BY <1>0, <2>2 DEF ArrivedInv, Computed
  <2> QED
    BY <2>1, <2>3
<1>5. CASE Fresh(r)
  <2>1. /\ reader[r].state = "running" /\ reader[r].snapshot.file = v =>
             HasRead(v) /\ (StartTaken(r, v) \/ StartAhead(out, Len(out) + 1, r, v))
        /\ \A k \in DOMAIN out : Computed(out[k]) /\ out[k].id = r /\ out[k].snapshot.file = v =>
             HasRead(v) /\ (StartTaken(r, v) \/ StartAhead(out, k, r, v))
        /\ \A k \in DOMAIN boundary :
             Computed(boundary[k]) /\ boundary[k].id = r /\ boundary[k].snapshot.file = v =>
               HasRead(v) /\ StartTaken(r, v)
    BY <1>5 DEF RefusalInv
  <2>2. ASSUME HasRead(v)
        PROVE  /\ HasRead(v)'
               /\ StartTaken(r, v) => StartTaken(r, v)'
               /\ \A n \in Nat : StartAhead(out, n, r, v) =>
                    IF TakeOutbound THEN StartTaken(r, v)' \/ StartAhead(out', n - 1, r, v)
                    ELSE StartAhead(out', n, r, v)
               /\ TakeOutbound \/ SentFrom
    BY <1>0, <1>5, <2>2, StartStays, SentSteps DEF HasRead
  <2>3. Len(out) \in Nat /\ DOMAIN out = 1..Len(out)
    BY <1>1
  <2>4. ASSUME TakeOutbound
        PROVE  /\ Len(out') + 1 = Len(out)
               /\ \A k \in DOMAIN out' : k \in Nat /\ k + 1 \in DOMAIN out /\ out[k + 1] = out'[k]
    <3>1. out # <<>> /\ out' = Tail(out)
      BY <2>4 DEF TakeOutbound
    <3>2. /\ DOMAIN Tail(out) = 1..Len(out) - 1 /\ 1 \in DOMAIN out
          /\ \A i \in DOMAIN Tail(out) : Tail(out)[i] = out[i + 1] /\ i + 1 \in DOMAIN out
      BY <1>1, <3>1, HeadOf
    <3>3. Len(Tail(out)) = Len(out) - 1
      BY <1>1, <3>1
    <3> QED
      BY <2>3, <3>1, <3>2, <3>3
  <2>5. ASSUME reader'[r].state = "running", reader'[r].snapshot.file = v
        PROVE  HasRead(v)' /\ (StartTaken(r, v)' \/ StartAhead(out', Len(out') + 1, r, v))
    <3>1. CASE reader[r].state = "running" /\ reader'[r].snapshot = reader[r].snapshot
      <4>1. HasRead(v) /\ (StartTaken(r, v) \/ StartAhead(out, Len(out) + 1, r, v))
        BY <2>1, <2>5, <3>1
      <4>2. CASE StartTaken(r, v)
        BY <2>2, <4>1, <4>2
      <4>3. CASE StartAhead(out, Len(out) + 1, r, v) /\ TakeOutbound
        <5>0. Len(out') + 1 = Len(out) /\ Len(out) \in Nat
          BY <2>3, <2>4, <4>3
        <5>1. Len(out) + 1 \in Nat /\ (Len(out) + 1) - 1 = Len(out') + 1
          BY <5>0
        <5> QED
          BY <2>2, <4>1, <4>3, <5>1
      <4>4. CASE StartAhead(out, Len(out) + 1, r, v) /\ ~TakeOutbound
        <5>1. Len(out) + 1 \in Nat
          BY <2>3
        <5>2. HasRead(v)' /\ StartAhead(out', Len(out) + 1, r, v) /\ SentFrom
          BY <2>2, <4>1, <4>4, <5>1
        <5>3. Len(out') \in Nat /\ Len(out) <= Len(out') /\ out' \in Seq(Messages)
          BY <1>1, <2>3, <5>2 DEF SentFrom
        <5>4. PICK i \in DOMAIN out' : /\ i < Len(out) + 1 /\ out'[i].type = "started" /\ out'[i].id = r
                                       /\ NewerBehind(out', i, v)
          BY <5>2 DEF StartAhead
        <5>5. i < Len(out') + 1
          BY <2>3, <5>3, <5>4
        <5> QED
          BY <5>2, <5>4, <5>5 DEF StartAhead
      <4> QED
        BY <4>1, <4>2, <4>3, <4>4
    <3>2. CASE /\ Requested(r) /\ ~InFlight /\ reader'[r].snapshot = [texts |-> overlay, file |-> file]
               /\ out' = Append(out, [type |-> "started", id |-> r])
      <4>1. OnlyRequests /\ v = file
        BY <1>0, <1>5, <2>5, <3>2, RequestedAlone
      <4>2. HasRead(v)
        BY <1>1, <4>1 DEF HasRead
      <4>3. PICK m \in Messages : m = [type |-> "started", id |-> r]
        BY DEF Messages
      <4>4. out' = Append(out, m) /\ m.type = "started" /\ m.id = r
        BY <3>2, <4>3
      <4>5. /\ DOMAIN out' = 1..Len(out) + 1 /\ out'[Len(out) + 1] = m
            /\ Len(out') = Len(out) + 1
        BY <1>1, <4>4, AppendOf
      <4>6. NewerBehind(out', Len(out) + 1, v)
        BY <2>3, <4>5 DEF NewerBehind
      <4>7. PICK n \in Nat : n = Len(out) + 1
        BY <2>3
      <4>8. n \in DOMAIN out' /\ n < Len(out') + 1
        BY <2>3, <4>5, <4>7
      <4>9. StartAhead(out', Len(out') + 1, r, v)
        BY <4>4, <4>5, <4>6, <4>7, <4>8 DEF StartAhead
      <4> QED
        BY <2>2, <4>2, <4>9
    <3> QED
      BY <1>2, <2>5, <3>1, <3>2 DEF ReadersFrom
  <2>6. ASSUME NEW k \in DOMAIN out', Computed(out'[k]), out'[k].id = r, out'[k].snapshot.file = v
        PROVE  HasRead(v)' /\ (StartTaken(r, v)' \/ StartAhead(out', k, r, v))
    <3>1. HasRead(v)
      <4>1. CASE \E j \in DOMAIN out : out'[k] = out[j]
        BY <2>1, <2>6, <4>1
      <4>2. CASE \E i \in Requests : /\ reader[i].state = "running" /\ out'[k].id = i
                                     /\ Computed(out'[k]) => out'[k].snapshot = reader[i].snapshot
        BY <2>1, <2>6, <4>2
      <4> QED
        BY <1>2, <2>6, <4>1, <4>2 DEF OutFrom, Computed
    <3>2. CASE TakeOutbound
      <4>1. k \in Nat /\ k + 1 \in DOMAIN out /\ out[k + 1] = out'[k]
        BY <2>4, <3>2
      <4>2. StartTaken(r, v) \/ StartAhead(out, k + 1, r, v)
        BY <2>1, <2>6, <4>1
      <4>3. k + 1 \in Nat /\ (k + 1) - 1 = k
        BY <4>1
      <4> QED
        BY <2>2, <3>1, <3>2, <4>2, <4>3
    <3>3. CASE ~TakeOutbound /\ k \in DOMAIN out /\ out'[k] = out[k]
      <4>1. StartTaken(r, v) \/ StartAhead(out, k, r, v)
        BY <2>1, <2>6, <3>3
      <4>2. k \in Nat
        BY <2>3, <3>3
      <4> QED
        BY <2>2, <3>1, <3>3, <4>1, <4>2
    <3>4. CASE ~TakeOutbound /\ ~(k \in DOMAIN out /\ out'[k] = out[k])
      <4>1. SentFrom
        BY <2>2, <3>1, <3>4
      <4>2. PICK m \in Messages :
              /\ out' = Append(out, m)
              /\ m.type = "response" =>
                   reader[m.id].state = "running" /\ (m.ok => m.snapshot = reader[m.id].snapshot)
        BY <2>6, <3>4, <4>1 DEF SentFrom
      <4>3. k = Len(out) + 1 /\ out'[k] = m
        <5>1. /\ DOMAIN out = 1..Len(out) /\ DOMAIN out' = 1..Len(out) + 1
              /\ \A i \in DOMAIN out : out'[i] = out[i]
              /\ out'[Len(out) + 1] = m
          BY <1>1, <4>2, AppendOf
        <5>2. k \notin DOMAIN out
          BY <3>4, <5>1
        <5>3. k = Len(out) + 1
          BY <2>3, <2>6, <5>1, <5>2
        <5> QED
          BY <5>1, <5>3
      <4>4. reader[r].state = "running" /\ reader[r].snapshot.file = v
        BY <2>6, <4>2, <4>3 DEF Computed
      <4>5. StartTaken(r, v) \/ StartAhead(out, k, r, v)
        BY <2>1, <4>3, <4>4
      <4>6. k \in Nat
        BY <2>3, <4>3
      <4> QED
        BY <2>2, <3>1, <3>4, <4>5, <4>6
    <3> QED
      BY <3>2, <3>3, <3>4
  <2>7. ASSUME NEW k \in DOMAIN boundary', Computed(boundary'[k]), boundary'[k].id = r,
               boundary'[k].snapshot.file = v
        PROVE  HasRead(v)' /\ StartTaken(r, v)'
    <3>1. CASE \E j \in DOMAIN boundary : boundary'[k] = boundary[j]
      BY <2>1, <2>2, <2>7, <3>1
    <3>2. CASE 1 \in DOMAIN out /\ boundary'[k] = out[1]
      <4>1. HasRead(v) /\ (StartTaken(r, v) \/ StartAhead(out, 1, r, v))
        BY <2>1, <2>7, <3>2
      <4>2. ~StartAhead(out, 1, r, v)
        BY <2>3 DEF StartAhead
      <4> QED
        BY <2>2, <4>1, <4>2
    <3> QED
      BY <1>2, <2>7, <3>1, <3>2 DEF BoundaryFrom
  <2> QED
    BY <2>5, <2>6, <2>7
<1> QED
  BY <1>3, <1>4, <1>5

RefusalsInv == EditInv /\ ToldInv /\ PastInv /\ RefusalInv

LEMMA RefusalsInit == Init => RefusalsInv
<1> SUFFICES ASSUME Init
             PROVE  RefusalsInv
  OBVIOUS
<1>1. EditInv
  BY EditInit
<1>2. /\ received = 0 /\ disk = 1 /\ file = 0 /\ jobs = <<>> /\ out = <<>> /\ boundary = <<>>
      /\ plan = NoPlan /\ reader = [r \in Requests |-> NoReader]
  BY DEF Init
<1>3. \A r \in Requests : ~(r <= 0)
  BY DEF Requests
<1>4. ToldInv
  BY <1>2, <1>3 DEF ToldInv
<1>5. PastInv
  BY <1>2 DEF PastInv, WatchedArePast, NoPlan
<1>6. RefusalInv
  BY <1>2, <1>3 DEF RefusalInv, Fresh
<1> QED
  BY <1>1, <1>4, <1>5, <1>6 DEF RefusalsInv

LEMMA RefusalsStep == RefusalsInv /\ [Next]_vars => RefusalsInv'
<1> SUFFICES ASSUME RefusalsInv, [Next]_vars
             PROVE  RefusalsInv'
  OBVIOUS
<1>1. TypeOK /\ FileInv /\ EditInv /\ ToldInv /\ PastInv /\ RefusalInv
  BY DEF RefusalsInv, EditInv
<1> QED
  BY <1>1, EditStep, ToldStep, PastStep, RefusalStep DEF RefusalsInv

(* A refused request that nobody disturbed was read before what raised the  *)
(* stamp was discovered.                                                    *)
LEMMA RefusedForAReason ==
  ASSUME RefusalsInv, [Next]_vars, NEW r \in Requests, Answered(r), answer'[r] = Refused
  PROVE  \/ Told # context[r].told
         \/ relinted > Head(boundary).snapshot.file
<1>1. EditInv /\ ToldInv /\ RefusalInv /\ relinted \in Nat /\ boundary \in Seq(Responses)
  BY Types DEF RefusalsInv, EditInv
<1>2. PICK m : m = boundary[1]
  OBVIOUS
<1>3. /\ 1 \in DOMAIN boundary /\ Head(boundary) = m /\ m \in Responses /\ m.id = r
      /\ m.type = "response" /\ answer'[r] = AnswerTo(r, m)
  BY <1>1, <1>2, AnsweredFrom
<1>4. m.ok /\ context[r].stamp # stamp
  BY <1>3 DEF AnswerTo, Refused, Failed
<1>5. m.snapshot.file \in Nat
  BY <1>3, <1>4 DEF Responses, Snapshots
<1>6. ASSUME Told = context[r].told
      PROVE  relinted > m.snapshot.file
  <2>1. r <= received
    BY <1>1, <1>2, <1>3 DEF EditInv, ArrivedInv
  <2>2. Fresh(r)
    BY <1>1, <1>6, <2>1 DEF ToldInv
  <2>3. PICK v \in Nat : v = m.snapshot.file
    BY <1>5
  <2>4. StartTaken(r, v)
    BY <1>1, <1>2, <1>3, <1>4, <2>2, <2>3 DEF RefusalInv, Computed
  <2>5. relinted > v
    BY <1>4, <2>4 DEF StartTaken
  <2> QED
    BY <1>1, <2>3, <2>5
<1> QED
  BY <1>3, <1>6

(* Edits are refused only if a client said something since the request      *)
(* arrived, or discovery found newer contents than their reader had seen.   *)
THEOREM RefusalsHaveAReason == Spec => NoSpuriousRefusal
<1>1. Init => RefusalsInv
  BY RefusalsInit
<1>2. RefusalsInv /\ [Next]_vars => RefusalsInv'
  BY RefusalsStep
<1> DEFINE A == \A r \in Requests : Answered(r) /\ answer'[r] = Refused =>
                  \/ Told # context[r].told
                  \/ relinted > Head(boundary).snapshot.file
<1>3. RefusalsInv /\ [Next]_vars => [A]_vars
  BY RefusedForAReason
<1> QED
  BY <1>1, <1>2, <1>3, PTL DEF Spec, NoSpuriousRefusal
=============================================================================
