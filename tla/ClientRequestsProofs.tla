------------------------ MODULE ClientRequestsProofs ------------------------
(***************************************************************************)
(* What holds of ClientRequests for every set of features and folders and  *)
(* for every workload: refreshes are not lost, a progress follows its      *)
(* protocol, and settings that have settled are the newest ones.           *)
(***************************************************************************)
EXTENDS ClientRequests, FiniteSetTheorems, TLAPS

-----------------------------------------------------------------------------
(* Facts about the sequences that stand for channels.                       *)

(* A finite set, in some order.                                             *)
LEMMA OrderOf ==
  ASSUME NEW S, IsFiniteSet(S)
  PROVE  /\ SetToSeq(S) \in Seq(S)
         /\ \A x \in S : \E i \in 1..Len(SetToSeq(S)) : SetToSeq(S)[i] = x
         /\ \A i, j \in 1..Len(SetToSeq(S)) : SetToSeq(S)[i] = SetToSeq(S)[j] => i = j
<1> DEFINE n == Cardinality(S)
<1>1. n \in Nat /\ ExistsBijection(1..n, S)
  BY FS_CardinalityType
<1>2. PICK f \in Bijection(1..n, S) : TRUE
  BY <1>1 DEF ExistsBijection
<1>3. f \in [1..n -> S] /\ IsInjective(f) /\ \A x \in S : \E i \in 1..n : f[i] = x
  BY <1>2 DEF Bijection, Injection, Surjection, IsInjective
<1> DEFINE s == SetToSeq(S)
<1>4. s \in [1..n -> S] /\ IsInjective(s)
  BY <1>3 DEF SetToSeq
<1>5. s \in Seq(S) /\ Len(s) = n /\ DOMAIN s = 1..n
  BY <1>1, <1>4
<1>6. \A x \in S : \E i \in 1..n : s[i] = x
  <2>1. IsFiniteSet(1..n) /\ Cardinality(1..n) = n
    BY <1>1, FS_Interval
  <2>2. s \in Injection(1..n, S)
    BY <1>4 DEF Injection
  <2>3. s \in Surjection(1..n, S)
    BY <2>1, <2>2, FS_Injection
  <2> QED
    BY <2>3 DEF Surjection
<1> QED
  BY <1>4, <1>5, <1>6 DEF IsInjective

(* A function on an interval is a sequence.                                  *)
LEMMA SequenceOf ==
  ASSUME NEW S, NEW n \in Nat, NEW q \in [1..n -> S]
  PROVE  q \in Seq(S) /\ Len(q) = n
OBVIOUS

(* The first message of a channel, and the channel without it.              *)
LEMMA HeadOf ==
  ASSUME NEW S, NEW q \in Seq(S), q # <<>>
  PROVE  /\ Head(q) \in S /\ Head(q) = q[1] /\ 1 \in DOMAIN q
         /\ Tail(q) \in Seq(S) /\ DOMAIN q = 1..Len(q)
         /\ DOMAIN Tail(q) = 1..Len(q) - 1 /\ Len(q) \in Nat
         /\ \A i \in DOMAIN Tail(q) : Tail(q)[i] = q[i + 1] /\ i + 1 \in DOMAIN q
         /\ \A i \in DOMAIN q : i = 1 \/ (i - 1 \in DOMAIN Tail(q) /\ Tail(q)[i - 1] = q[i])
OBVIOUS

(* A channel with one more message.                                         *)
LEMMA AppendOf ==
  ASSUME NEW S, NEW q \in Seq(S), NEW m \in S
  PROVE  /\ Append(q, m) \in Seq(S) /\ Len(q) \in Nat
         /\ DOMAIN q = 1..Len(q) /\ DOMAIN Append(q, m) = 1..Len(q) + 1
         /\ \A i \in DOMAIN q : Append(q, m)[i] = q[i]
         /\ Append(q, m)[Len(q) + 1] = m
OBVIOUS

-----------------------------------------------------------------------------
(* Types.                                                                   *)

LEMMA FlushTyped ==
  ASSUME TypeOK, Flush
  PROVE  /\ dirty' \in [Features -> BOOLEAN] /\ inflight' \in [Features -> Nat]
         /\ nextId' \in Nat \ {0} /\ sending' \in Seq(Forwarded)
<1> DEFINE order == SetToSeq(Flushed)
           place(f) == CHOOSE i \in DOMAIN order : order[i] = f
           requests == [i \in DOMAIN order |->
                         [kind |-> "refresh", id |-> nextId + i - 1, scopes |-> {order[i]}]]
<1>1. Flushed \subseteq Features /\ IsFiniteSet(Flushed)
  BY ClientRequestsAssumption, FS_Subset DEF Flushed
<1>2. /\ order \in Seq(Flushed) /\ Len(order) \in Nat /\ DOMAIN order = 1..Len(order)
      /\ \A f \in Flushed : \E i \in 1..Len(order) : order[i] = f
  BY <1>1, OrderOf
<1>3. \A f \in Flushed : place(f) \in 1..Len(order)
  BY <1>2
<1>4. nextId \in Nat \ {0} /\ sending \in Seq(Forwarded)
      /\ dirty \in [Features -> BOOLEAN] /\ inflight \in [Features -> Nat]
  BY DEF TypeOK
<1>5. \A i \in 1..Len(order) :
        [kind |-> "refresh", id |-> nextId + i - 1, scopes |-> {order[i]}] \in Forwarded
  <2> TAKE i \in 1..Len(order)
  <2>1. order[i] \in Features
    BY <1>1, <1>2
  <2>2. nextId + i - 1 \in Nat
    BY <1>4
  <2> QED
    BY <2>1, <2>2 DEF Requests, Forwarded
<1>6. requests \in Seq(Forwarded)
  BY <1>2, <1>5
<1>7. /\ dirty' = [f \in Features |-> dirty[f] /\ f \notin Flushed]
      /\ inflight' = [f \in Features |->
           IF f \in Flushed THEN nextId + place(f) - 1 ELSE inflight[f]]
      /\ nextId' = nextId + Len(order)
      /\ sending' = sending \o requests
  BY DEF Flush
<1> HIDE DEF order, place, requests
<1>8. \A f \in Flushed : nextId + place(f) - 1 \in Nat
  <2>1. \A k \in 1..Len(order) : nextId + k - 1 \in Nat
    <3> HIDE DEF order
    <3>1. nextId \in Nat
      BY <1>4
    <3> QED
      BY <3>1
  <2> QED
    BY <1>3, <2>1
<1>9. nextId' \in Nat \ {0} /\ sending' \in Seq(Forwarded)
  BY <1>2, <1>4, <1>6, <1>7
<1>10. dirty' \in [Features -> BOOLEAN]
  BY <1>4, <1>7
<1>11. inflight' \in [Features -> Nat]
  BY <1>4, <1>7, <1>8
<1> QED
  BY <1>9, <1>10, <1>11

(* What flush sends comes after what is there.                              *)
LEMMA FlushAppends ==
  ASSUME TypeOK, Flush
  PROVE  \A i \in DOMAIN sending' :
           (i \in DOMAIN sending /\ sending'[i] = sending[i]) \/ sending'[i].kind = "refresh"
<1> DEFINE order == SetToSeq(Flushed)
           requests == [i \in DOMAIN order |->
                         [kind |-> "refresh", id |-> nextId + i - 1, scopes |-> {order[i]}]]
<1>1. Flushed \subseteq Features /\ IsFiniteSet(Flushed)
  BY ClientRequestsAssumption, FS_Subset DEF Flushed
<1>2. order \in Seq(Flushed) /\ Len(order) \in Nat /\ DOMAIN order = 1..Len(order)
  BY <1>1, OrderOf
<1>3. sending' = sending \o requests
  BY DEF Flush
<1>4. \A i \in 1..Len(order) : requests[i].kind = "refresh" /\ requests[i] \in Forwarded
  <2> TAKE i \in 1..Len(order)
  <2>1. order[i] \in Features /\ nextId + i - 1 \in Nat
    BY <1>1, <1>2 DEF TypeOK
  <2> QED
    BY <1>2, <2>1 DEF Forwarded
<1>5. requests \in [1..Len(order) -> Forwarded]
  BY <1>2, <1>4
<1> HIDE DEF order, requests
<1>6. sending \in Seq(Forwarded) /\ requests \in Seq(Forwarded) /\ Len(requests) = Len(order)
  BY <1>2, <1>5, SequenceOf DEF TypeOK
<1>7. \A i \in 1..Len(requests) : requests[i].kind = "refresh"
  BY <1>4, <1>6
<1> QED
  BY <1>3, <1>6, <1>7

LEMMA RequestTyped ==
  ASSUME TypeOK, NEW rs \in SUBSET Roots, RequestConfiguration(rs)
  PROVE  /\ generation' \in Nat \ {0} /\ sending' \in Seq(Forwarded)
         /\ asked' \in [id : Nat, scopes : SUBSET (Roots \cup {Everything})]
<1>1. Scopes(rs) \subseteq Roots \cup {Everything}
  BY DEF Scopes
<1>2. generation + 1 \in Nat \ {0}
  BY DEF TypeOK
<1>3. ConfigurationRequest(generation + 1, rs) \in Forwarded
  BY <1>1, <1>2 DEF ConfigurationRequest, Requests, Forwarded
<1> QED
  BY <1>1, <1>2, <1>3 DEF RequestConfiguration, TypeOK

LEMMA TypeStep == TypeOK /\ [Next]_vars => TypeOK'
<1> SUFFICES ASSUME TypeOK, [Next]_vars
             PROVE  TypeOK'
  OBVIOUS
<1> USE DEF refreshState, loadingState, configuration, worker, client, history
<1>1. ASSUME NEW f \in Features, WorkerRefresh(f)
      PROVE  TypeOK'
  BY <1>1 DEF TypeOK, WorkerRefresh, Reports
<1>2. ASSUME WorkerLoading
      PROVE  TypeOK'
  BY <1>2 DEF TypeOK, WorkerLoading, Reports
<1>3. ASSUME ChangeSettings
      PROVE  TypeOK'
  BY <1>3 DEF TypeOK, ChangeSettings, Messages
<1>4. ASSUME NEW r \in Roots, ChangeFolders(r)
      PROVE  TypeOK'
  BY <1>4 DEF TypeOK, ChangeFolders, Messages
<1>5. ASSUME NEW r \in atClient, NEW ok \in BOOLEAN, Answer(r, ok)
      PROVE  TypeOK'
  <2>1. r \in Requests /\ settings \in Nat
    BY DEF TypeOK
  <2>2. [kind |-> "response", request |-> r, ok |-> ok, settings |-> settings] \in Messages
    BY <2>1 DEF Messages
  <2>3. received' \in Seq(Messages)
    BY <1>5, <2>2 DEF Answer, TypeOK
  <2>4. progress' \in [1..workload.loads -> Stages]
    BY <1>5 DEF Answer, TypeOK, Stages
  <2> QED
    BY <1>5, <2>3, <2>4 DEF TypeOK, Answer
<1>6. ASSUME RequestShutdown
      PROVE  TypeOK'
  BY <1>6 DEF TypeOK, RequestShutdown, Messages
<1>7. ASSUME Tick
      PROVE  TypeOK'
  <2>1. /\ enabled' \in BOOLEAN /\ active' \in BOOLEAN /\ begun' \in BOOLEAN
        /\ pending' \in Nat /\ token' \in Nat /\ next' \in Nat
        /\ atClient' \subseteq Requests /\ progress' \in [1..workload.loads -> Stages]
    <3>1. CASE Poll
      <4>1. next + 1 \in Nat /\ [kind |-> "progress", id |-> next + 1, scopes |-> {}] \in Requests
        BY DEF TypeOK, Requests
      <4>2. atClient' \subseteq Requests
        BY <3>1, <4>1 DEF Poll, TypeOK
      <4> QED
        BY <1>7, <3>1, <4>1, <4>2 DEF Poll, Tick, TypeOK, Stages
    <3>2. CASE UNCHANGED <<loadingState, atClient, progress>>
      BY <1>7, <3>2 DEF Tick, TypeOK
    <3> QED
      BY <1>7, <3>1, <3>2 DEF Tick
  <2>2. Flush
    BY <1>7 DEF Tick
  <2>3. /\ dirty' \in [Features -> BOOLEAN] /\ inflight' \in [Features -> Nat]
        /\ nextId' \in Nat \ {0} /\ sending' \in Seq(Forwarded)
    BY <2>2, FlushTyped
  <2> QED
    BY <1>7, <2>1, <2>3 DEF TypeOK, Tick
<1>8. ASSUME TakeRefresh
      PROVE  TypeOK'
  <2>1. Head(out) \in Reports /\ Tail(out) \in Seq(Reports) /\ Head(out).kind = "refresh"
    BY <1>8, HeadOf DEF TypeOK, TakeRefresh
  <2>2. Head(out).feature \in Features
    BY <2>1 DEF Reports
  <2> QED
    BY <1>8, <2>1, <2>2 DEF TypeOK, TakeRefresh
<1>9. ASSUME TakeLoading
      PROVE  TypeOK'
  <2>1. Head(out) \in Reports /\ Tail(out) \in Seq(Reports) /\ Head(out).kind = "loading"
    BY <1>9, HeadOf DEF TypeOK, TakeLoading
  <2>2. Head(out).active \in BOOLEAN
    BY <2>1 DEF Reports
  <2>3. CASE Update(Head(out).active)
    <3>1. active' \in BOOLEAN
      BY <2>2, <2>3 DEF Update
    <3>2. begun' \in BOOLEAN
      BY <2>3 DEF TypeOK, Update
    <3>3. token' \in Nat /\ enabled' = enabled /\ pending' = pending /\ next' = next
      BY <2>3 DEF TypeOK, Update
    <3>4. progress' \in [1..workload.loads -> Stages]
      BY <2>3 DEF TypeOK, Update, Stages
    <3> QED
      BY <1>9, <2>1, <3>1, <3>2, <3>3, <3>4 DEF TypeOK, TakeLoading
  <2>4. CASE UNCHANGED <<loadingState, progress>>
    BY <1>9, <2>1, <2>4 DEF TypeOK, TakeLoading
  <2> QED
    BY <1>9, <2>3, <2>4 DEF TakeLoading
<1>10. ASSUME Forward
       PROVE  TypeOK'
  <2>1. Head(sending) \in Forwarded /\ Tail(sending) \in Seq(Forwarded)
    BY <1>10, HeadOf DEF TypeOK, Forward
  <2> QED
    BY <1>10, <2>1 DEF TypeOK, Forward, Requests
<1>11. ASSUME TakeResponse
       PROVE  TypeOK'
  <2> DEFINE m == Head(received)
  <2>1. m \in Messages /\ Tail(received) \in Seq(Messages) /\ m.kind = "response"
    BY <1>11, HeadOf DEF TypeOK, TakeResponse
  <2>2. m.request \in Requests /\ m.ok \in BOOLEAN
    BY <2>1 DEF Messages
  <2>3. CASE TakeToken(m.ok) /\ UNCHANGED <<inflight, configuration, serverRequests, refused>>
    <3>1. begun' \in BOOLEAN
      BY <2>3 DEF TakeToken
    <3>2. enabled' \in BOOLEAN
      BY <2>3 DEF TakeToken
    <3>3. /\ active' \in BOOLEAN /\ pending' \in Nat /\ token' \in Nat /\ next' \in Nat
          /\ progress' \in [1..workload.loads -> Stages]
      BY <2>3 DEF TypeOK, TakeToken, Stages
    <3> QED
      BY <1>11, <2>1, <2>3, <3>1, <3>2, <3>3 DEF TypeOK, TakeResponse
  <2>4. CASE HandleClientResponse(m.request, m.ok, m.settings)
    <3> HIDE DEF m
    <3>1. Awaits(m.request) => m.request.scopes \subseteq Roots \cup {Everything}
      BY <2>2 DEF Requests, Forwarded, Awaits
    <3>2. inflight' \in [Features -> Nat]
      BY <2>4 DEF TypeOK, HandleClientResponse
    <3>3. asked' \in [id : Nat, scopes : SUBSET (Roots \cup {Everything})]
      BY <2>4 DEF TypeOK, HandleClientResponse, NothingAsked
    <3>4. DOMAIN scoped' \subseteq Roots \cup {Everything}
      BY <2>4, <3>1 DEF TypeOK, HandleClientResponse
    <3>5. refused' \in BOOLEAN /\ acknowledged' \in BOOLEAN
      BY <2>2, <2>4 DEF TypeOK, HandleClientResponse
    <3>6. serverRequests' \subseteq Forwarded /\ UNCHANGED <<loadingState, roots, generation, progress>>
      BY <2>4 DEF TypeOK, HandleClientResponse
    <3> USE DEF m
    <3> QED
      BY <1>11, <2>1, <3>2, <3>3, <3>4, <3>5, <3>6 DEF TypeOK, TakeResponse
  <2>5. CASE UNCHANGED <<inflight, loadingState, configuration, serverRequests, progress, refused>>
    BY <1>11, <2>1, <2>5 DEF TypeOK, TakeResponse
  <2> QED
    BY <1>11, <2>3, <2>4, <2>5 DEF TakeResponse
<1>12. ASSUME DidChangeConfiguration
       PROVE  TypeOK'
  <2>1. Tail(received) \in Seq(Messages)
    BY <1>12, HeadOf DEF TypeOK, DidChangeConfiguration
  <2>2. running => RequestConfiguration(roots)
    BY <1>12 DEF DidChangeConfiguration
  <2> QED
    BY <1>12, <2>1, <2>2, RequestTyped DEF TypeOK, DidChangeConfiguration
<1>13. ASSUME DidChangeWorkspaceFolders
       PROVE  TypeOK'
  <2> DEFINE rs == Head(received).folders
  <2>1. Tail(received) \in Seq(Messages) /\ Head(received) \in Messages
    BY <1>13, HeadOf DEF TypeOK, DidChangeWorkspaceFolders
  <2>2. rs \subseteq Roots
    BY <1>13, <2>1 DEF DidChangeWorkspaceFolders, Messages
  <2>3. running => RequestConfiguration(rs)
    BY <1>13 DEF DidChangeWorkspaceFolders
  <2>4. generation' \in Nat \ {0} /\ sending' \in Seq(Forwarded)
        /\ asked' \in [id : Nat, scopes : SUBSET (Roots \cup {Everything})]
    BY <1>13, <2>2, <2>3, RequestTyped DEF TypeOK, DidChangeWorkspaceFolders
  <2>5. roots' \subseteq Roots /\ DOMAIN scoped' \subseteq Roots \cup {Everything}
    <3>1. /\ (roots' = rs /\ scoped' = Surviving(rs)) \/ UNCHANGED <<roots, scoped>>
          /\ roots \subseteq Roots /\ DOMAIN scoped \subseteq Roots \cup {Everything}
      BY <1>13 DEF DidChangeWorkspaceFolders, TypeOK
    <3>2. DOMAIN Surviving(rs) \subseteq rs
      BY DEF Surviving, Restrict
    <3> QED
      BY <2>2, <3>1, <3>2
  <2> QED
    BY <1>13, <2>1, <2>4, <2>5 DEF TypeOK, DidChangeWorkspaceFolders
<1>14. ASSUME Shutdown
       PROVE  TypeOK'
  <2>1. Tail(received) \in Seq(Messages)
    BY <1>14, HeadOf DEF TypeOK, Shutdown
  <2> QED
    BY <1>14, <2>1 DEF TypeOK, Shutdown, NothingAsked
<1>15. ASSUME UNCHANGED vars
       PROVE  TypeOK'
  BY <1>15 DEF TypeOK, vars
<1> QED
  BY <1>1, <1>2, <1>3, <1>4, <1>5, <1>6, <1>7, <1>8, <1>9, <1>10, <1>11, <1>12, <1>13, <1>14,
     <1>15 DEF Next

LEMMA TypeInit == Init => TypeOK
<1> SUFFICES ASSUME Init
             PROVE  TypeOK
  OBVIOUS
<1>1. Scopes(roots) \subseteq Roots \cup {Everything}
  BY DEF Init, Scopes
<1>2. Registration \in Forwarded /\ ConfigurationRequest(1, roots) \in Forwarded
  BY <1>1 DEF Registration, ConfigurationRequest, Requests, Forwarded
<1>3. sending \in Seq(Forwarded)
  BY <1>2 DEF Init
<1>4. asked \in [id : Nat, scopes : SUBSET (Roots \cup {Everything})]
  BY <1>1 DEF Init
<1>5. workload \in [refreshes : Nat, loads : Nat, changes : Nat]
  BY ClientRequestsAssumption DEF Init
<1>6. progress \in [1..workload.loads -> Stages]
  BY DEF Init, Stages
<1>7. DOMAIN scoped \subseteq Roots \cup {Everything}
  BY DEF Init, Nothing
<1>8. dirty \in [Features -> BOOLEAN] /\ inflight \in [Features -> Nat]
  BY DEF Init
<1>9. /\ running \in BOOLEAN /\ enabled \in BOOLEAN /\ active \in BOOLEAN /\ begun \in BOOLEAN
      /\ acknowledged \in BOOLEAN /\ refused \in BOOLEAN /\ loading \in BOOLEAN
  BY DEF Init
<1>10. /\ nextId \in Nat \ {0} /\ pending \in Nat /\ token \in Nat /\ next \in Nat
       /\ roots \subseteq Roots /\ folders \subseteq Roots /\ generation \in Nat \ {0}
       /\ serverRequests \subseteq Forwarded /\ atClient \subseteq Requests
       /\ out \in Seq(Reports) /\ received \in Seq(Messages) /\ settings \in Nat
       /\ loads \in Nat /\ refreshes \in Nat /\ owed \subseteq Features
  BY DEF Init
<1> QED
  BY <1>3, <1>4, <1>5, <1>6, <1>7, <1>8, <1>9, <1>10 DEF TypeOK

-----------------------------------------------------------------------------
(* Refreshes.                                                               *)

RefreshInv == TypeOK /\ NoRefreshLost

(* A refresh that has been sent is with the client, or its answer is back.  *)
Travelling(r) ==
  \/ \E i \in DOMAIN sending : sending[i] = r
  \/ r \in serverRequests /\ (r \in atClient \/ \E i \in DOMAIN received :
       received[i].kind = "response" /\ received[i].request = r)

RefreshOf(f) == [kind |-> "refresh", id |-> inflight[f], scopes |-> {f}]

(* NoRefreshLost for one feature, in a form that is easy to use.            *)
Told(f) ==
  /\ f \in owed => \/ dirty[f]
                   \/ \E i \in DOMAIN sending : sending[i].kind = "refresh" /\ f \in sending[i].scopes
  /\ inflight[f] # 0 => Travelling(RefreshOf(f))

LEMMA ToldEach == NoRefreshLost <=> (running => \A f \in Features : Told(f))
BY DEF NoRefreshLost, Told, Travelling, RefreshOf, Range

LEMMA RefreshStep ==
  ASSUME TypeOK, running => \A g \in Features : Told(g), [Next]_vars, running', NEW f \in Features
  PROVE  Told(f)'
<1>1. running /\ Told(f)
  BY DEF Next, vars, worker, client, history, configuration, loadingState, refreshState,
         WorkerRefresh, WorkerLoading, ChangeSettings, ChangeFolders, Answer, RequestShutdown,
         Tick, TakeRefresh, TakeLoading, Forward, TakeResponse, DidChangeConfiguration,
         DidChangeWorkspaceFolders, Shutdown
<1> USE DEF refreshState, loadingState, configuration, worker, client, history
<1>2. inflight[f] \in Nat /\ RefreshOf(f) \in Requests
  BY DEF TypeOK, RefreshOf, Requests, Forwarded
<1>3. ASSUME UNCHANGED <<refreshState, sending, serverRequests, received, owed>>,
             atClient \subseteq atClient'
      PROVE  Told(f)'
  BY <1>1, <1>3 DEF Told, Travelling, RefreshOf
<1>4. ASSUME UNCHANGED <<refreshState, sending, serverRequests, atClient, owed>>,
             NEW m \in Messages, received' = Append(received, m)
      PROVE  Told(f)'
  <2>1. \A i \in DOMAIN received : i \in DOMAIN received' /\ received'[i] = received[i]
    BY <1>4, AppendOf DEF TypeOK
  <2> QED
    BY <1>1, <1>4, <2>1 DEF Told, Travelling, RefreshOf
<1>5. CASE \E g \in Features : WorkerRefresh(g)
  BY <1>3, <1>5 DEF WorkerRefresh
<1>6. CASE WorkerLoading
  BY <1>3, <1>6 DEF WorkerLoading
<1>7. CASE ChangeSettings
  BY <1>4, <1>7 DEF ChangeSettings, Messages
<1>8. CASE \E r \in Roots : ChangeFolders(r)
  <2>1. PICK r \in Roots : ChangeFolders(r)
    BY <1>8
  <2>2. folders' \subseteq Roots
    BY <2>1 DEF ChangeFolders, TypeOK
  <2>3. [kind |-> "didChangeWorkspaceFolders", folders |-> folders'] \in Messages
    BY <2>2 DEF Messages
  <2> QED
    BY <1>4, <2>1, <2>3 DEF ChangeFolders
<1>9. CASE \E r \in atClient, ok \in BOOLEAN : Answer(r, ok)
  <2>1. PICK r \in atClient, ok \in BOOLEAN : Answer(r, ok)
    BY <1>9
  <2> DEFINE m == [kind |-> "response", request |-> r, ok |-> ok, settings |-> settings]
  <2>2. m \in Messages
    BY DEF Messages, TypeOK
  <2>3. /\ \A i \in DOMAIN received : i \in DOMAIN received' /\ received'[i] = received[i]
        /\ Len(received) + 1 \in DOMAIN received' /\ received'[Len(received) + 1] = m
    BY <2>1, <2>2, AppendOf DEF TypeOK, Answer
  <2>4. UNCHANGED <<refreshState, sending, serverRequests, owed>> /\ atClient' = atClient \ {r}
    BY <2>1 DEF Answer
  <2>5. m.kind = "response" /\ m.request = r
    OBVIOUS
  <2> HIDE DEF m
  <2> QED
    BY <1>1, <2>3, <2>4, <2>5 DEF Told, Travelling, RefreshOf
<1>10. CASE RequestShutdown
  BY <1>4, <1>10 DEF RequestShutdown, Messages
<1>11. CASE Tick
  <2> DEFINE order == SetToSeq(Flushed)
             place(g) == CHOOSE i \in DOMAIN order : order[i] = g
             requests == [i \in DOMAIN order |->
                           [kind |-> "refresh", id |-> nextId + i - 1, scopes |-> {order[i]}]]
  <2>1. Flushed \subseteq Features /\ IsFiniteSet(Flushed)
    BY ClientRequestsAssumption, FS_Subset DEF Flushed
  <2>2. /\ order \in Seq(Flushed) /\ Len(order) \in Nat /\ DOMAIN order = 1..Len(order)
        /\ \A g \in Flushed : \E i \in 1..Len(order) : order[i] = g
    BY <2>1, OrderOf
  <2>3. f \in Flushed => place(f) \in 1..Len(order) /\ order[place(f)] = f
    BY <2>2
  <2>4. /\ dirty' = [g \in Features |-> dirty[g] /\ g \notin Flushed]
        /\ inflight' = [g \in Features |->
             IF g \in Flushed THEN nextId + place(g) - 1 ELSE inflight[g]]
        /\ sending' = sending \o requests
        /\ UNCHANGED <<serverRequests, received, owed>> /\ atClient \subseteq atClient'
    BY <1>11 DEF Tick, Flush, Poll
  <2>5. /\ \A i \in DOMAIN requests : requests[i] =
             [kind |-> "refresh", id |-> nextId + i - 1, scopes |-> {order[i]}]
        /\ DOMAIN requests = 1..Len(order)
    BY <2>2
  <2> HIDE DEF order, place
  <2> HIDE DEF requests
  <2>6. sending \in Seq(Forwarded) /\ requests \in Seq(Forwarded) /\ Len(requests) = Len(order)
    <3>1. \A i \in 1..Len(order) : requests[i] \in Forwarded
      <4> TAKE i \in 1..Len(order)
      <4>1. order[i] \in Features /\ nextId + i - 1 \in Nat
        BY <2>1, <2>2 DEF TypeOK
      <4> QED
        BY <2>5, <4>1 DEF Requests, Forwarded
    <3>2. requests \in [1..Len(order) -> Forwarded]
      BY <2>5, <3>1 DEF requests
    <3> QED
      BY <2>2, <3>2, SequenceOf DEF TypeOK
  <2>7. /\ \A i \in DOMAIN sending : i \in DOMAIN sending' /\ sending'[i] = sending[i]
        /\ \A i \in DOMAIN requests :
             Len(sending) + i \in DOMAIN sending' /\ sending'[Len(sending) + i] = requests[i]
    BY <2>4, <2>6
  <2>8. CASE f \in Flushed
    <3>1. \E i \in DOMAIN sending' : sending'[i] = requests[place(f)]
      <4>1. place(f) \in DOMAIN requests
        BY <2>3, <2>5, <2>8
      <4> QED
        BY <2>7, <4>1
    <3>2. requests[place(f)] = [kind |-> "refresh", id |-> inflight'[f], scopes |-> {f}]
      BY <2>3, <2>4, <2>5, <2>8
    <3> QED
      BY <3>1, <3>2 DEF Told, Travelling, RefreshOf
  <2>9. CASE f \notin Flushed
    <3>1. dirty'[f] = dirty[f] /\ inflight'[f] = inflight[f]
      BY <2>4, <2>9 DEF TypeOK
    <3>2. PICK q : q = RefreshOf(f)
      OBVIOUS
    <3>3. q = RefreshOf(f)'
      BY <3>1, <3>2 DEF RefreshOf
    <3>4. Travelling(q) => Travelling(q)'
      BY <2>4, <2>7 DEF Travelling
    <3>5. inflight'[f] # 0 => Travelling(RefreshOf(f))'
      <4>1. inflight'[f] # 0 => Travelling(q)'
        BY <1>1, <3>1, <3>2, <3>4 DEF Told
      <4> QED
        BY <3>3, <4>1
    <3>6. f \in owed' =>
            dirty'[f] \/ \E i \in DOMAIN sending' : sending'[i].kind = "refresh" /\ f \in sending'[i].scopes
      BY <1>1, <2>4, <2>7, <3>1 DEF Told
    <3> QED
      BY <3>5, <3>6 DEF Told
  <2> QED
    BY <2>8, <2>9
<1>12. CASE TakeRefresh
  <2>1. /\ UNCHANGED <<inflight, sending, serverRequests, received, atClient>>
        /\ f \in owed' => f \in owed \/ dirty'[f]
        /\ dirty[f] => dirty'[f]
    BY <1>1, <1>12 DEF TakeRefresh, TypeOK
  <2> QED
    BY <1>1, <2>1 DEF Told, Travelling, RefreshOf
<1>13. CASE TakeLoading
  BY <1>3, <1>13 DEF TakeLoading
<1>14. CASE Forward
  <2> DEFINE r == Head(sending)
  <2>1. /\ r = sending[1] /\ r \in Forwarded
        /\ \A i \in DOMAIN sending :
             i = 1 \/ (i - 1 \in DOMAIN sending' /\ sending'[i - 1] = sending[i])
    BY <1>14, HeadOf DEF TypeOK, Forward
  <2>2. /\ serverRequests' = serverRequests \cup {r} /\ atClient' = atClient \cup {r}
        /\ owed' = IF r.kind = "refresh" THEN owed \ r.scopes ELSE owed
        /\ UNCHANGED <<dirty, inflight, received>>
    BY <1>1, <1>14 DEF Forward
  <2> HIDE DEF r
  <2>5. PICK q : q = RefreshOf(f)
    OBVIOUS
  <2>3. inflight'[f] # 0 => Travelling(RefreshOf(f))'
    <3>1. inflight[f] # 0 => Travelling(RefreshOf(f))
      BY <1>1 DEF Told
    <3>2. q = RefreshOf(f)'
      BY <2>2, <2>5 DEF RefreshOf
    <3>3. Travelling(q) => Travelling(q)'
      BY <2>1, <2>2 DEF Travelling
    <3> QED
      BY <2>2, <2>5, <3>1, <3>2, <3>3
  <2>4. f \in owed' =>
          dirty'[f] \/ \E i \in DOMAIN sending' : sending'[i].kind = "refresh" /\ f \in sending'[i].scopes
    BY <1>1, <2>1, <2>2 DEF Told
  <2> QED
    BY <2>3, <2>4 DEF Told
<1>15. CASE TakeResponse
  <2> DEFINE m == Head(received)
  <2>0. PICK r : r = RefreshOf(f)
    OBVIOUS
  <2>1. /\ m = received[1] /\ m \in Messages
        /\ \A i \in DOMAIN received :
             i = 1 \/ (i - 1 \in DOMAIN received' /\ received'[i - 1] = received[i])
    BY <1>15, HeadOf DEF TypeOK, TakeResponse
  <2>2. UNCHANGED <<dirty, sending, atClient, owed>>
    BY <1>15 DEF TakeResponse
  <2>3. m.kind = "response"
    BY <1>15 DEF TakeResponse
  <2> SUFFICES ASSUME inflight'[f] # 0
               PROVE  Travelling(RefreshOf(f))'
    BY <1>1, <2>2 DEF Told
  <2>4. inflight'[f] = inflight[f] /\ r = RefreshOf(f)'
    <3>1. UNCHANGED inflight \/ inflight' = [g \in Features |->
            IF m.request.kind = "refresh" /\ inflight[g] = m.request.id THEN 0 ELSE inflight[g]]
      BY <1>15 DEF TakeResponse, HandleClientResponse
    <3> HIDE DEF m
    <3>2. inflight'[f] = inflight[f]
      BY <3>1
    <3> QED
      BY <2>0, <3>2 DEF RefreshOf
  <2>5. r \in serverRequests => r \in serverRequests' /\ m.request # r
    <3>1. CASE m.request = r
      <4>1. r.kind = "refresh" /\ r.id = inflight[f]
        BY <2>0 DEF RefreshOf
      <4>2. r \in serverRequests => inflight'[f] = 0
        BY <1>1, <1>15, <3>1, <4>1 DEF TakeResponse, HandleClientResponse
      <4> QED
        BY <4>2
    <3>2. CASE m.request # r
      BY <1>15, <3>2 DEF TakeResponse, HandleClientResponse
    <3> QED
      BY <3>1, <3>2
  <2>6. Travelling(r)
    BY <1>1, <2>0, <2>4 DEF Told
  <2> HIDE DEF m
  <2>7. Travelling(r)'
    BY <2>1, <2>2, <2>4, <2>5, <2>6 DEF Travelling
  <2> QED
    BY <2>4, <2>7
<1>16. CASE DidChangeConfiguration \/ DidChangeWorkspaceFolders
  <2>1. /\ UNCHANGED <<dirty, inflight, serverRequests, atClient, owed>>
        /\ received' = Tail(received) /\ received # <<>> /\ Head(received).kind # "response"
    BY <1>16 DEF DidChangeConfiguration, DidChangeWorkspaceFolders
  <2>2. PICK rs \in SUBSET Roots : RequestConfiguration(rs)
    <3>1. Head(received) \in Messages
      BY <2>1, HeadOf DEF TypeOK
    <3>2. Head(received).kind = "didChangeWorkspaceFolders" => Head(received).folders \subseteq Roots
      BY <3>1 DEF Messages
    <3> QED
      BY <1>1, <1>16, <3>2 DEF DidChangeConfiguration, DidChangeWorkspaceFolders, TypeOK
  <2>3. ConfigurationRequest(generation + 1, rs) \in Forwarded
    BY DEF ConfigurationRequest, Requests, Forwarded, Scopes, TypeOK
  <2>4. \A i \in DOMAIN sending : i \in DOMAIN sending' /\ sending'[i] = sending[i]
    BY <2>2, <2>3, AppendOf DEF RequestConfiguration, TypeOK
  <2>5. /\ received[1] = Head(received)
        /\ \A i \in DOMAIN received :
             i = 1 \/ (i - 1 \in DOMAIN received' /\ received'[i - 1] = received[i])
    BY <2>1, HeadOf DEF TypeOK
  <2>6. PICK q : q = RefreshOf(f)
    OBVIOUS
  <2>7. q = RefreshOf(f)'
    BY <2>1, <2>6 DEF RefreshOf
  <2>8. Travelling(q) => Travelling(q)'
    BY <2>1, <2>4, <2>5 DEF Travelling
  <2> QED
    BY <1>1, <2>1, <2>4, <2>6, <2>7, <2>8 DEF Told
<1>18. CASE Shutdown
  BY <1>18 DEF Shutdown
<1>19. CASE UNCHANGED vars
  BY <1>3, <1>19 DEF vars
<1> QED
  BY <1>5, <1>6, <1>7, <1>8, <1>9, <1>10, <1>11, <1>12, <1>13, <1>14, <1>15, <1>16, <1>18,
     <1>19 DEF Next

(* No change of results is lost while the session runs.                     *)
THEOREM RefreshesAreNotLost == Spec => []NoRefreshLost
<1>1. Init => RefreshInv
  BY TypeInit DEF Init, RefreshInv, NoRefreshLost
<1>2. RefreshInv /\ [Next]_vars => RefreshInv'
  <2> SUFFICES ASSUME RefreshInv, [Next]_vars
               PROVE  RefreshInv'
    OBVIOUS
  <2>1. TypeOK /\ (running => \A f \in Features : Told(f))
    BY ToldEach DEF RefreshInv
  <2>2. TypeOK'
    BY <2>1, TypeStep
  <2>3. running' => \A f \in Features : Told(f)'
    BY <2>1, RefreshStep
  <2>4. NoRefreshLost' <=> (running => \A f \in Features : Told(f))'
    BY ToldEach, PTL
  <2> QED
    BY <2>2, <2>3, <2>4 DEF RefreshInv
<1> QED
  BY <1>1, <1>2, PTL DEF Spec, RefreshInv

-----------------------------------------------------------------------------
(* The loading progress.                                                    *)

(* One token is in use at most, and the newest: its creation is pending,    *)
(* or it has begun.  What the client knows of it is what it has answered.   *)
TokenInUse ==
  /\ pending # 0 => pending = token /\ ~begun
  /\ begun => active /\ token # 0
  /\ token # 0 => token = next

ClientFollows ==
  /\ \A t \in DOMAIN progress :
       /\ t > next => progress[t] = "unknown"
       /\ progress[t] = "begun" => begun /\ token = t
       /\ begun /\ token = t => progress[t] = "begun"
  /\ \A r \in atClient : r.kind = "progress" =>
       /\ r.id \in 1..next
       /\ r.id \in DOMAIN progress => progress[r.id] = "asked"
  /\ \A i \in DOMAIN received :
       received[i].kind = "response" /\ received[i].request.kind = "progress" =>
         LET t == received[i].request.id IN
         /\ t \in 1..next
         /\ t = pending /\ t \in DOMAIN progress =>
              progress[t] = IF received[i].ok THEN "granted" ELSE "refused"

ProgressInv == TypeOK /\ TokenInUse /\ ClientFollows

Steps == {<<"unknown", "asked">>, <<"asked", "granted">>, <<"asked", "refused">>,
          <<"granted", "begun">>, <<"begun", "ended">>}

LEMMA ProgressStep ==
  ASSUME ProgressInv, [Next]_vars
  PROVE  /\ TokenInUse' /\ ClientFollows'
         /\ \A t \in DOMAIN progress : progress[t] # progress'[t] =>
              <<progress[t], progress'[t]>> \in Steps
<1> USE DEF refreshState, loadingState, configuration, worker, client, history
<1> DEFINE Goal == /\ TokenInUse' /\ ClientFollows'
                   /\ \A t \in DOMAIN progress : progress[t] # progress'[t] =>
                        <<progress[t], progress'[t]>> \in Steps
<1>1. TypeOK /\ TokenInUse /\ ClientFollows
  BY DEF ProgressInv
<1>2. progress \in [1..workload.loads -> Stages] /\ workload.loads \in Nat
  BY <1>1 DEF TypeOK
<1>3. ASSUME UNCHANGED <<loadingState, progress, received>>,
             \A r \in atClient' \ atClient : r.kind # "progress"
      PROVE  Goal
  BY <1>1, <1>3 DEF TokenInUse, ClientFollows
<1>4. ASSUME UNCHANGED <<loadingState, progress, atClient>>,
             NEW m \in Messages, received' = Append(received, m), m.kind # "response"
      PROVE  Goal
  <2>1. /\ received \in Seq(Messages)
        /\ \A i \in DOMAIN received' : i \in DOMAIN received \/ received'[i] = m
        /\ \A i \in DOMAIN received : received'[i] = received[i]
    BY <1>1, <1>4, AppendOf DEF TypeOK
  <2> QED
    BY <1>1, <1>4, <2>1 DEF TokenInUse, ClientFollows
<1>5. ASSUME UNCHANGED <<loadingState, progress, atClient>>, received # <<>>, received' = Tail(received)
      PROVE  Goal
  <2>1. \A i \in DOMAIN received' : i + 1 \in DOMAIN received /\ received'[i] = received[i + 1]
    BY <1>1, <1>5, HeadOf DEF TypeOK
  <2> QED
    BY <1>1, <1>5, <2>1 DEF TokenInUse, ClientFollows
<1>6. CASE \E f \in Features : WorkerRefresh(f)
  BY <1>3, <1>6 DEF WorkerRefresh
<1>7. CASE WorkerLoading
  BY <1>3, <1>7 DEF WorkerLoading
<1>8. CASE ChangeSettings
  BY <1>4, <1>8 DEF ChangeSettings, Messages
<1>9. CASE \E r \in Roots : ChangeFolders(r)
  <2>1. PICK r \in Roots : ChangeFolders(r)
    BY <1>9
  <2>2. folders' \subseteq Roots
    BY <1>1, <2>1 DEF ChangeFolders, TypeOK
  <2>3. [kind |-> "didChangeWorkspaceFolders", folders |-> folders'] \in Messages
    BY <2>2 DEF Messages
  <2> QED
    BY <1>4, <2>1, <2>3 DEF ChangeFolders
<1>10. CASE \E r \in atClient, ok \in BOOLEAN : Answer(r, ok)
  <2>1. PICK r \in atClient, ok \in BOOLEAN : Answer(r, ok)
    BY <1>10
  <2> DEFINE m == [kind |-> "response", request |-> r, ok |-> ok, settings |-> settings]
  <2>2. m \in Messages
    BY <1>1 DEF Messages, TypeOK
  <2>3. /\ \A i \in DOMAIN received' : i \in DOMAIN received \/ received'[i] = m
        /\ \A i \in DOMAIN received : received'[i] = received[i]
    <3>1. received' = Append(received, m) /\ received \in Seq(Messages)
      BY <1>1, <2>1 DEF TypeOK, Answer
    <3> HIDE DEF m
    <3> QED
      BY <2>2, <3>1, AppendOf
  <2>4. /\ m.kind = "response" /\ m.request = r /\ m.ok = ok
        /\ UNCHANGED loadingState /\ atClient' = atClient \ {r}
        /\ r.kind # "progress" => UNCHANGED progress
    BY <2>1 DEF Answer
  <2> HIDE DEF m
  <2>5. CASE r.kind # "progress"
    BY <1>1, <2>3, <2>4, <2>5 DEF TokenInUse, ClientFollows
  <2>6. CASE r.kind = "progress"
    <3>1. progress' = [progress EXCEPT ![r.id] = IF ok THEN "granted" ELSE "refused"]
      BY <2>1, <2>6 DEF Answer
    <3>2. /\ DOMAIN progress' = DOMAIN progress
          /\ \A t \in DOMAIN progress : t # r.id => progress'[t] = progress[t]
          /\ r.id \in DOMAIN progress => progress'[r.id] = IF ok THEN "granted" ELSE "refused"
      BY <1>2, <3>1
    <3>3. r.id \in 1..next /\ (r.id \in DOMAIN progress => progress[r.id] = "asked")
      BY <1>1, <2>6 DEF ClientFollows
    <3>4. \A q \in atClient' : q.kind = "progress" => q.id # r.id
      <4> SUFFICES ASSUME NEW q \in atClient', q.kind = "progress", q.id = r.id
                   PROVE  FALSE
        OBVIOUS
      <4>1. q \in Requests /\ r \in Requests
        BY <1>1, <2>4 DEF TypeOK
      <4>2. q = r
        BY <2>6, <4>1 DEF Requests, Forwarded
      <4> QED
        BY <2>4, <4>2
    <3>5. TokenInUse'
      BY <1>1, <2>4 DEF TokenInUse
    <3>6. ClientFollows'
      BY <1>1, <2>3, <2>4, <2>6, <3>2, <3>3, <3>4 DEF ClientFollows
    <3>7. \A t \in DOMAIN progress : progress[t] # progress'[t] =>
            <<progress[t], progress'[t]>> \in Steps
      BY <3>2, <3>3 DEF Steps
    <3> QED
      BY <3>5, <3>6, <3>7
  <2> QED
    BY <2>5, <2>6
<1>11. CASE RequestShutdown
  BY <1>4, <1>11 DEF RequestShutdown, Messages
<1>12. CASE Tick
  <2>1. CASE UNCHANGED <<loadingState, atClient, progress>>
    BY <1>3, <1>12, <2>1 DEF Tick
  <2>2. CASE MayPoll /\ Poll
    <3> DEFINE q == [kind |-> "progress", id |-> next + 1, scopes |-> {}]
    <3>1. next \in Nat /\ pending = 0 /\ token = 0 /\ ~begun /\ UNCHANGED received
      BY <1>1, <1>12, <2>2 DEF MayPoll, TypeOK, TokenInUse, Tick
    <3>2. /\ atClient' = atClient \cup {q} /\ q.kind = "progress" /\ q.id = next + 1
          /\ pending' = next + 1 /\ token' = next + 1 /\ next' = next + 1
          /\ begun' = begun /\ active' = active
      BY <2>2 DEF Poll
    <3>3. /\ DOMAIN progress' = DOMAIN progress
          /\ \A t \in DOMAIN progress : t # next + 1 => progress'[t] = progress[t]
          /\ next + 1 \in DOMAIN progress => progress'[next + 1] = "asked"
      BY <1>2, <2>2 DEF Poll
    <3>4. next + 1 \in DOMAIN progress => progress[next + 1] = "unknown"
      BY <1>1, <3>1 DEF ClientFollows
    <3> HIDE DEF q
    <3>5. TokenInUse'
      BY <3>1, <3>2 DEF TokenInUse
    <3>6. ClientFollows'
      BY <1>1, <1>2, <3>1, <3>2, <3>3, <3>4 DEF ClientFollows
    <3>7. \A t \in DOMAIN progress : progress[t] # progress'[t] =>
            <<progress[t], progress'[t]>> \in Steps
      BY <3>3, <3>4 DEF Steps
    <3> QED
      BY <3>5, <3>6, <3>7
  <2> QED
    BY <1>12, <2>1, <2>2 DEF Tick
<1>13. CASE TakeRefresh
  BY <1>3, <1>13 DEF TakeRefresh
<1>14. CASE TakeLoading
  <2>1. CASE UNCHANGED <<loadingState, progress>>
    BY <1>3, <1>14, <2>1 DEF TakeLoading
  <2>2. ASSUME NEW on, Update(on)
        PROVE  Goal
    <3>1. UNCHANGED <<received, atClient, pending, next>> /\ active' = on
      BY <1>14, <2>2 DEF TakeLoading, Update
    <3>2. CASE ~on /\ begun
      <4>1. begun' = FALSE /\ token' = 0 /\ pending = 0
            /\ progress' = [progress EXCEPT ![token] = "ended"]
        BY <1>1, <2>2, <3>2 DEF Update, TokenInUse
      <4>2. /\ DOMAIN progress' = DOMAIN progress
            /\ \A t \in DOMAIN progress : t # token => progress'[t] = progress[t]
            /\ token \in DOMAIN progress => progress'[token] = "ended" /\ progress[token] = "begun"
        BY <1>1, <1>2, <3>2, <4>1 DEF ClientFollows
      <4>3. token = next
        BY <1>1, <3>2 DEF TokenInUse
      <4>4. TokenInUse'
        BY <1>1, <3>1, <4>1 DEF TokenInUse
      <4>5. ClientFollows'
        BY <1>1, <1>2, <3>1, <4>1, <4>2, <4>3 DEF ClientFollows, TypeOK
      <4> QED
        BY <4>2, <4>4, <4>5 DEF Steps
    <3>3. CASE ~(~on /\ begun)
      <4>1. UNCHANGED <<progress, begun, token>>
        BY <2>2, <3>3 DEF Update
      <4> QED
        BY <1>1, <3>1, <3>3, <4>1 DEF TokenInUse, ClientFollows
    <3> QED
      BY <3>2, <3>3
  <2> QED
    BY <1>14, <2>1, <2>2 DEF TakeLoading
<1>15. CASE Forward
  <2>1. CASE UNCHANGED atClient
    BY <1>3, <1>15, <2>1 DEF Forward
  <2>2. Head(sending) \in Forwarded /\ Head(sending).kind # "progress"
    BY <1>1, <1>15, HeadOf DEF TypeOK, Forward, Forwarded
  <2> QED
    BY <1>3, <1>15, <2>1, <2>2 DEF Forward
<1>16. CASE TakeResponse
  <2> DEFINE m == Head(received)
  <2>1. /\ received # <<>> /\ received' = Tail(received) /\ UNCHANGED atClient
        /\ m = received[1] /\ 1 \in DOMAIN received /\ m.kind = "response"
    BY <1>1, <1>16, HeadOf DEF TakeResponse, TypeOK
  <2>2. \A i \in DOMAIN received' : i + 1 \in DOMAIN received /\ received'[i] = received[i + 1]
    BY <1>1, <2>1, HeadOf DEF TypeOK
  <2>3. CASE UNCHANGED <<loadingState, progress>>
    BY <1>5, <2>1, <2>3
  <2>4. CASE m.request.kind = "progress" /\ m.request.id = pending /\ TakeToken(m.ok)
    <3>1. pending \in 1..next /\ pending = token /\ ~begun /\ next \in Nat
          /\ (token \in DOMAIN progress => progress[token] = IF m.ok THEN "granted" ELSE "refused")
      <4>1. next \in Nat
        BY <1>1 DEF TypeOK
      <4> QED
        BY <1>1, <2>1, <2>4, <4>1 DEF ClientFollows, TokenInUse
    <3> HIDE DEF m
    <3>2. pending' = 0 /\ active' = active /\ next' = next
      BY <2>4 DEF TakeToken
    <3>3. CASE Granted(m.ok)
      <4>1. begun' /\ token' = token /\ progress' = [progress EXCEPT ![token] = "begun"]
        BY <2>4, <3>3 DEF TakeToken
      <4>2. /\ DOMAIN progress' = DOMAIN progress
            /\ \A t \in DOMAIN progress : t # token => progress'[t] = progress[t]
            /\ token \in DOMAIN progress => progress'[token] = "begun" /\ progress[token] = "granted"
        BY <1>2, <3>1, <3>3, <4>1 DEF Granted
      <4>3. TokenInUse'
        BY <1>1, <3>1, <3>2, <3>3, <4>1 DEF TokenInUse, Granted
      <4>4. ClientFollows'
        BY <1>1, <1>2, <2>1, <2>2, <3>1, <3>2, <4>1, <4>2 DEF ClientFollows, TokenInUse
      <4> QED
        BY <4>2, <4>3, <4>4 DEF Steps
    <3>4. CASE ~Granted(m.ok)
      <4>1. ~begun' /\ token' = 0 /\ progress' = progress
        BY <2>4, <3>1, <3>4 DEF TakeToken
      <4>2. TokenInUse'
        BY <3>2, <4>1 DEF TokenInUse
      <4>3. ClientFollows'
        BY <1>1, <2>1, <2>2, <3>1, <3>2, <4>1 DEF ClientFollows
      <4> QED
        BY <4>1, <4>2, <4>3
    <3> QED
      BY <3>3, <3>4
  <2> QED
    BY <1>16, <2>3, <2>4 DEF TakeResponse, HandleClientResponse
<1>17. CASE DidChangeConfiguration
  BY <1>5, <1>17 DEF DidChangeConfiguration
<1>18. CASE DidChangeWorkspaceFolders
  BY <1>5, <1>18 DEF DidChangeWorkspaceFolders
<1>19. CASE Shutdown
  BY <1>5, <1>19 DEF Shutdown
<1>20. CASE UNCHANGED vars
  BY <1>3, <1>20 DEF vars
<1> QED
  BY <1>6, <1>7, <1>8, <1>9, <1>10, <1>11, <1>12, <1>13, <1>14, <1>15, <1>16, <1>17, <1>18,
     <1>19, <1>20 DEF Next

LEMMA ProgressInvariant == Spec => []ProgressInv
<1>1. Init => ProgressInv
  <2> SUFFICES ASSUME Init
               PROVE  TokenInUse /\ ClientFollows
    BY TypeInit DEF ProgressInv
  <2> QED
    BY DEF Init, TokenInUse, ClientFollows
<1>2. ProgressInv /\ [Next]_vars => ProgressInv'
  BY TypeStep, ProgressStep DEF ProgressInv
<1> QED
  BY <1>1, <1>2, PTL DEF Spec

(* A progress that the client shows is one the server knows of, while the   *)
(* worker loads.                                                            *)
THEOREM ShownProgressIsLoading == Spec => []ProgressMeansLoading
<1>1. ProgressInv => ProgressMeansLoading
  BY DEF ProgressInv, TokenInUse, ClientFollows, ProgressMeansLoading
<1> QED
  BY <1>1, ProgressInvariant, PTL

(* A token is created, granted or refused, begun and ended, in this order   *)
(* and once.                                                                *)
THEOREM ProgressKeepsProtocol == Spec => ProgressFollowsProtocol
<1>1. ProgressInv /\ [Next]_vars =>
        [\A t \in DOMAIN progress : progress[t] # progress'[t] =>
           <<progress[t], progress'[t]>> \in
             {<<"unknown", "asked">>, <<"asked", "granted">>, <<"asked", "refused">>,
              <<"granted", "begun">>, <<"begun", "ended">>}]_vars
  BY ProgressStep DEF Steps
<1> QED
  BY <1>1, ProgressInvariant, PTL DEF Spec, ProgressFollowsProtocol

-----------------------------------------------------------------------------
(* Settings.                                                                *)

Changes(m) == m.kind \in {"didChangeConfiguration", "didChangeWorkspaceFolders"}
ChangesFolders(m) == m.kind = "didChangeWorkspaceFolders"
SettingsAnswer(m) == m.kind = "response" /\ m.request.kind = "configuration"

(* The request that is pending is the newest one, for the present folders;  *)
(* no request is newer, and the ones with its number have its scopes.       *)
NewestIsAsked ==
  /\ asked = NothingAsked \/ (asked.id = generation /\ asked.scopes = Scopes(roots))
  /\ DOMAIN scoped \subseteq Scopes(roots)
  /\ \A i \in DOMAIN sending : sending[i].kind = "configuration" =>
       /\ sending[i].id \in 1..generation
       /\ sending[i].id = asked.id => sending[i].scopes = asked.scopes
  /\ \A r \in atClient \cup serverRequests : r.kind = "configuration" =>
       /\ r.id \in 1..generation
       /\ r.id = asked.id => r.scopes = asked.scopes
  /\ \A i \in DOMAIN received : SettingsAnswer(received[i]) =>
       received[i].request.id \in 1..generation

(* The last change of folders tells of the client's folders.                *)
FoldersAreTold ==
  \/ roots = folders /\ \A i \in DOMAIN received : ~ChangesFolders(received[i])
  \/ \E i \in DOMAIN received :
       /\ ChangesFolders(received[i]) /\ received[i].folders = folders
       /\ \A j \in DOMAIN received : ChangesFolders(received[j]) => j <= i

(* An answer to the pending request, or the settings in use, are the newest *)
(* ones unless a change is to be told after them.                           *)
SettingsAreTold ==
  /\ \A i \in DOMAIN received : SettingsAnswer(received[i]) /\ received[i].request.id = asked.id =>
       \/ received[i].settings = settings
       \/ \E j \in DOMAIN received : i < j /\ Changes(received[j])
  /\ asked = NothingAsked /\ ~refused =>
       \/ scoped = [s \in Scopes(roots) |-> settings]
       \/ \E j \in DOMAIN received : Changes(received[j])

ConfigurationInv == TypeOK /\ (running => NewestIsAsked /\ FoldersAreTold /\ SettingsAreTold)

(* What a step has to keep.                                                 *)
Settled == NewestIsAsked /\ FoldersAreTold /\ SettingsAreTold

LEMMA SettingsStep ==
  ASSUME TypeOK, running => Settled, [Next]_vars, running'
  PROVE  Settled'
<1> USE DEF refreshState, loadingState, configuration, worker, client, history
<1>1. running /\ Settled
  BY DEF Next, vars,
         WorkerRefresh, WorkerLoading, ChangeSettings, ChangeFolders, Answer, RequestShutdown,
         Tick, TakeRefresh, TakeLoading, Forward, TakeResponse, DidChangeConfiguration,
         DidChangeWorkspaceFolders, Shutdown
<1>2. NewestIsAsked /\ FoldersAreTold /\ SettingsAreTold
  BY <1>1 DEF Settled
<1>3. ASSUME UNCHANGED <<configuration, refused, client, received, sending, serverRequests, atClient>>
      PROVE  Settled'
  BY <1>2, <1>3 DEF Settled, NewestIsAsked, FoldersAreTold, SettingsAreTold
<1>4. CASE \E f \in Features : WorkerRefresh(f)
  BY <1>3, <1>4 DEF WorkerRefresh
<1>5. CASE WorkerLoading
  BY <1>3, <1>5 DEF WorkerLoading
<1>6. CASE TakeRefresh
  BY <1>3, <1>6 DEF TakeRefresh
<1>7. CASE TakeLoading
  BY <1>3, <1>7 DEF TakeLoading
<1>8. CASE UNCHANGED vars
  BY <1>3, <1>8 DEF vars
<1>9. CASE Shutdown
  BY <1>9 DEF Shutdown
<1>10. ASSUME NEW m \in Messages, received' = Append(received, m)
       PROVE  /\ Len(received) \in Nat /\ DOMAIN received = 1..Len(received)
              /\ DOMAIN received' = 1..Len(received) + 1
              /\ \A i \in DOMAIN received : received'[i] = received[i]
              /\ received'[Len(received) + 1] = m
  BY <1>10, AppendOf DEF TypeOK
<1>11. CASE ChangeSettings
  <2> DEFINE m == [kind |-> "didChangeConfiguration"]
             n == Len(received) + 1
  <2>1. m \in Messages
    BY DEF Messages
  <2>2. /\ UNCHANGED <<configuration, refused, folders, sending, serverRequests, atClient>>
        /\ received' = Append(received, m)
    BY <1>11 DEF ChangeSettings
  <2>3. Changes(m) /\ ~ChangesFolders(m) /\ ~SettingsAnswer(m)
    BY DEF Changes, ChangesFolders, SettingsAnswer
  <2> HIDE DEF m
  <2>4. /\ n \in DOMAIN received' /\ received'[n] = m
        /\ \A i \in DOMAIN received' : i = n \/ (i \in DOMAIN received /\ i < n)
        /\ \A i \in DOMAIN received : i \in DOMAIN received' /\ received'[i] = received[i]
    BY <1>10, <2>1, <2>2
  <2> HIDE DEF n
  <2>5. NewestIsAsked'
    BY <1>2, <2>2, <2>3, <2>4 DEF NewestIsAsked
  <2>6. FoldersAreTold'
    BY <1>2, <2>2, <2>3, <2>4 DEF FoldersAreTold
  <2>7. SettingsAreTold'
    BY <1>2, <2>2, <2>3, <2>4 DEF SettingsAreTold
  <2> QED
    BY <2>5, <2>6, <2>7 DEF Settled
<1>12. CASE \E r \in Roots : ChangeFolders(r)
  <2>0. PICK f \in SUBSET Roots : \E r \in Roots : ChangeFolders(r) /\ f = folders'
    <3>1. PICK r \in Roots : ChangeFolders(r)
      BY <1>12
    <3>2. folders' \subseteq Roots
      BY <3>1 DEF ChangeFolders, TypeOK
    <3> QED
      BY <3>1, <3>2
  <2> DEFINE m == [kind |-> "didChangeWorkspaceFolders", folders |-> f]
             n == Len(received) + 1
  <2>1. m \in Messages
    BY DEF Messages
  <2>2. /\ UNCHANGED <<configuration, refused, sending, serverRequests, atClient>>
        /\ received' = Append(received, m) /\ folders' = f
    BY <2>0 DEF ChangeFolders
  <2>3. Changes(m) /\ ChangesFolders(m) /\ ~SettingsAnswer(m) /\ m.folders = f
    BY DEF Changes, ChangesFolders, SettingsAnswer
  <2> HIDE DEF m
  <2>4. /\ n \in DOMAIN received' /\ received'[n] = m
        /\ \A i \in DOMAIN received' : i = n \/ (i \in DOMAIN received /\ i < n)
        /\ \A i \in DOMAIN received : i \in DOMAIN received' /\ received'[i] = received[i]
        /\ \A i \in DOMAIN received' : i <= n
    BY <1>10, <2>1, <2>2
  <2> HIDE DEF n
  <2>5. NewestIsAsked'
    BY <1>2, <2>2, <2>3, <2>4 DEF NewestIsAsked
  <2>6. FoldersAreTold'
    BY <1>2, <2>2, <2>3, <2>4 DEF FoldersAreTold
  <2>7. SettingsAreTold'
    BY <1>2, <2>2, <2>3, <2>4 DEF SettingsAreTold
  <2> QED
    BY <2>5, <2>6, <2>7 DEF Settled
<1>13. CASE \E r \in atClient, ok \in BOOLEAN : Answer(r, ok)
  <2>0. PICK r \in atClient, ok \in BOOLEAN : Answer(r, ok)
    BY <1>13
  <2> DEFINE m == [kind |-> "response", request |-> r, ok |-> ok, settings |-> settings]
             n == Len(received) + 1
  <2>1. m \in Messages
    BY DEF Messages, TypeOK
  <2>2. /\ UNCHANGED <<configuration, refused, client, sending, serverRequests>>
        /\ received' = Append(received, m) /\ atClient' \subseteq atClient
    BY <2>0 DEF Answer
  <2>3. ~Changes(m) /\ ~ChangesFolders(m) /\ m.request = r /\ m.settings = settings
        /\ (SettingsAnswer(m) => r.kind = "configuration")
    BY DEF Changes, ChangesFolders, SettingsAnswer
  <2> HIDE DEF m
  <2>4. /\ n \in DOMAIN received' /\ received'[n] = m
        /\ \A i \in DOMAIN received' : i = n \/ (i \in DOMAIN received /\ i < n)
        /\ \A i \in DOMAIN received : i \in DOMAIN received' /\ received'[i] = received[i]
    BY <1>10, <2>1, <2>2
  <2> HIDE DEF n
  <2>5. NewestIsAsked'
    BY <1>2, <2>2, <2>3, <2>4 DEF NewestIsAsked
  <2>6. FoldersAreTold'
    BY <1>2, <2>2, <2>3, <2>4 DEF FoldersAreTold
  <2>7. SettingsAreTold'
    BY <1>2, <2>2, <2>3, <2>4 DEF SettingsAreTold
  <2> QED
    BY <2>5, <2>6, <2>7 DEF Settled
<1>14. CASE RequestShutdown
  <2> DEFINE m == [kind |-> "shutdown"]
             n == Len(received) + 1
  <2>1. m \in Messages
    BY DEF Messages
  <2>2. /\ UNCHANGED <<configuration, refused, client, sending, serverRequests, atClient>>
        /\ received' = Append(received, m)
    BY <1>14 DEF RequestShutdown
  <2>3. ~Changes(m) /\ ~ChangesFolders(m) /\ ~SettingsAnswer(m)
    BY DEF Changes, ChangesFolders, SettingsAnswer
  <2> HIDE DEF m
  <2>4. /\ n \in DOMAIN received' /\ received'[n] = m
        /\ \A i \in DOMAIN received' : i = n \/ (i \in DOMAIN received /\ i < n)
        /\ \A i \in DOMAIN received : i \in DOMAIN received' /\ received'[i] = received[i]
    BY <1>10, <2>1, <2>2
  <2> HIDE DEF n
  <2>5. NewestIsAsked'
    BY <1>2, <2>2, <2>3, <2>4 DEF NewestIsAsked
  <2>6. FoldersAreTold'
    BY <1>2, <2>2, <2>3, <2>4 DEF FoldersAreTold
  <2>7. SettingsAreTold'
    BY <1>2, <2>2, <2>3, <2>4 DEF SettingsAreTold
  <2> QED
    BY <2>5, <2>6, <2>7 DEF Settled
<1>15. CASE Tick
  <2>1. /\ UNCHANGED <<configuration, refused, client, received, serverRequests>>
        /\ \A q \in atClient' : q \in atClient \/ q.kind = "progress"
    BY <1>15 DEF Tick, Poll
  <2>2. Flush
    BY <1>15 DEF Tick
  <2>3. \A i \in DOMAIN sending' :
          (i \in DOMAIN sending /\ sending'[i] = sending[i]) \/ sending'[i].kind = "refresh"
    BY <2>2, FlushAppends
  <2>4. NewestIsAsked'
    BY <1>2, <2>1, <2>3 DEF NewestIsAsked
  <2> QED
    BY <1>2, <2>1, <2>4 DEF Settled, FoldersAreTold, SettingsAreTold
<1>16. CASE Forward
  <2>1. /\ UNCHANGED <<configuration, refused, client, received>>
        /\ serverRequests' = serverRequests \cup {Head(sending)}
        /\ atClient' = atClient \cup {Head(sending)}
    BY <1>1, <1>16 DEF Forward
  <2>2. /\ 1 \in DOMAIN sending /\ Head(sending) = sending[1]
        /\ \A i \in DOMAIN sending' : i + 1 \in DOMAIN sending /\ sending'[i] = sending[i + 1]
    BY <1>16, HeadOf DEF TypeOK, Forward
  <2>3. NewestIsAsked'
    BY <1>2, <2>1, <2>2 DEF NewestIsAsked
  <2> QED
    BY <1>2, <2>1, <2>3 DEF Settled, FoldersAreTold, SettingsAreTold
<1>17. ASSUME received # <<>>, received' = Tail(received)
       PROVE  /\ 1 \in DOMAIN received /\ Head(received) = received[1]
              /\ Head(received) \in Messages
              /\ DOMAIN received \subseteq Nat \ {0} /\ DOMAIN received' \subseteq Nat \ {0}
              /\ \A i \in DOMAIN received' : i + 1 \in DOMAIN received /\ received'[i] = received[i + 1]
              /\ \A i \in DOMAIN received :
                   i = 1 \/ (i - 1 \in DOMAIN received' /\ received'[i - 1] = received[i])
  BY <1>17, HeadOf DEF TypeOK
<1>18. generation \in Nat \ {0} /\ asked.id \in Nat /\ settings \in Nat
  BY DEF TypeOK
<1>19. CASE TakeResponse
  <2> DEFINE m == Head(received)
             r == m.request
  <2>1. /\ received # <<>> /\ received' = Tail(received) /\ m.kind = "response"
        /\ UNCHANGED <<running, sending, atClient, client>>
    BY <1>19 DEF TakeResponse
  <2>2. ~Changes(m) /\ ~ChangesFolders(m)
    BY <2>1 DEF Changes, ChangesFolders
  <2> HIDE DEF m
  <2>3. /\ 1 \in DOMAIN received /\ m = received[1]
        /\ \A i \in DOMAIN received' : i + 1 \in DOMAIN received /\ received'[i] = received[i + 1]
        /\ \A i \in DOMAIN received :
             i = 1 \/ (i - 1 \in DOMAIN received' /\ received'[i - 1] = received[i])
        /\ DOMAIN received \subseteq Nat \ {0} /\ DOMAIN received' \subseteq Nat \ {0}
    BY <1>17, <2>1 DEF m
  <2>4. ASSUME UNCHANGED roots
        PROVE  FoldersAreTold'
    <3>1. CASE roots = folders /\ \A i \in DOMAIN received : ~ChangesFolders(received[i])
      BY <2>1, <2>3, <2>4, <3>1 DEF FoldersAreTold
    <3>2. CASE \E i \in DOMAIN received :
                 /\ ChangesFolders(received[i]) /\ received[i].folders = folders
                 /\ \A j \in DOMAIN received : ChangesFolders(received[j]) => j <= i
      <4>1. PICK i \in DOMAIN received :
              /\ ChangesFolders(received[i]) /\ received[i].folders = folders
              /\ \A j \in DOMAIN received : ChangesFolders(received[j]) => j <= i
        BY <3>2
      <4>2. i # 1 /\ i - 1 \in DOMAIN received' /\ received'[i - 1] = received[i]
        BY <2>2, <2>3, <4>1
      <4>3. \A j \in DOMAIN received' : ChangesFolders(received'[j]) => j <= i - 1
        BY <2>3, <4>1, <4>2
      <4> QED
        BY <2>1, <4>1, <4>2, <4>3 DEF FoldersAreTold
    <3> QED
      BY <1>2, <3>1, <3>2 DEF FoldersAreTold
  <2>5. ASSUME UNCHANGED <<asked, scoped, refused, roots>>
        PROVE  SettingsAreTold'
    <3>1. ASSUME NEW i \in DOMAIN received', SettingsAnswer(received'[i]),
                 received'[i].request.id = asked'.id
          PROVE  \/ received'[i].settings = settings'
                 \/ \E j \in DOMAIN received' : i < j /\ Changes(received'[j])
      <4>1. i + 1 \in DOMAIN received /\ received'[i] = received[i + 1] /\ i \in Nat
        BY <2>3
      <4>2. \/ received[i + 1].settings = settings
            \/ \E j \in DOMAIN received : i + 1 < j /\ Changes(received[j])
        BY <1>2, <2>5, <3>1, <4>1 DEF SettingsAreTold
      <4>3. ASSUME NEW j \in DOMAIN received, i + 1 < j, Changes(received[j])
            PROVE  j - 1 \in DOMAIN received' /\ i < j - 1 /\ Changes(received'[j - 1])
        BY <2>3, <4>1, <4>3
      <4> QED
        BY <2>1, <4>1, <4>2, <4>3
    <3>2. ASSUME NEW j \in DOMAIN received, Changes(received[j])
          PROVE  j - 1 \in DOMAIN received' /\ Changes(received'[j - 1])
      BY <2>2, <2>3, <3>2
    <3>3. asked' = NothingAsked /\ ~refused' =>
            \/ scoped' = [s \in Scopes(roots') |-> settings']
            \/ \E j \in DOMAIN received' : Changes(received'[j])
      BY <1>2, <2>1, <2>5, <3>2 DEF SettingsAreTold
    <3> QED
      BY <3>1, <3>3 DEF SettingsAreTold
  <2>6. CASE UNCHANGED <<configuration, serverRequests, refused>>
    <3>1. NewestIsAsked'
      BY <1>2, <2>1, <2>3, <2>6 DEF NewestIsAsked
    <3>2. SettingsAreTold'
      BY <2>5, <2>6
    <3> QED
      BY <2>4, <2>6, <3>1, <3>2 DEF Settled
  <2>7. CASE r \in serverRequests /\ HandleClientResponse(r, m.ok, m.settings)
    <3> HIDE DEF r
    <3>1. UNCHANGED <<roots, generation>> /\ serverRequests' \subseteq serverRequests
      BY <2>7 DEF HandleClientResponse
    <3>2. CASE ~Awaits(r)
      <4>1. UNCHANGED <<scoped, asked, refused>>
        BY <2>7, <3>2 DEF HandleClientResponse
      <4>2. NewestIsAsked'
        BY <1>2, <2>1, <2>3, <3>1, <4>1 DEF NewestIsAsked
      <4>3. SettingsAreTold'
        BY <2>5, <3>1, <4>1
      <4> QED
        BY <2>4, <3>1, <4>2, <4>3 DEF Settled
    <3>3. CASE Awaits(r)
      <4>1. /\ asked' = NothingAsked /\ refused' = ~m.ok
            /\ scoped' = IF m.ok THEN [s \in DOMAIN scoped \cup r.scopes |->
                                          IF s \in r.scopes THEN m.settings ELSE scoped[s]]
                         ELSE scoped
        BY <2>7, <3>3 DEF HandleClientResponse
      <4>2. r.id = asked.id /\ r.kind = "configuration" /\ asked.id \in 1..generation
            /\ r.scopes = asked.scopes
        BY <1>2, <2>7, <3>3 DEF Awaits, NewestIsAsked
      <4>3. asked.scopes = Scopes(roots)
        BY <1>2, <1>18, <4>2 DEF NewestIsAsked, NothingAsked
      <4>4. asked'.id = 0
        BY <4>1 DEF NothingAsked
      <4>5. DOMAIN scoped' \subseteq Scopes(roots)
        BY <1>2, <4>1, <4>2, <4>3 DEF NewestIsAsked
      <4>6. NewestIsAsked'
        <5>1. \A i \in DOMAIN sending : sending[i].kind = "configuration" =>
                sending[i].id \in 1..generation /\ sending[i].id # 0
          BY <1>2, <1>18 DEF NewestIsAsked
        <5>2. \A q \in atClient \cup serverRequests : q.kind = "configuration" =>
                q.id \in 1..generation /\ q.id # 0
          BY <1>2, <1>18 DEF NewestIsAsked
        <5>3. \A i \in DOMAIN received' : SettingsAnswer(received'[i]) =>
                received'[i].request.id \in 1..generation
          BY <1>2, <2>3 DEF NewestIsAsked
        <5> QED
          BY <2>1, <3>1, <4>1, <4>4, <4>5, <5>1, <5>2, <5>3 DEF NewestIsAsked
      <4>7. SettingsAreTold'
        <5>1. \A i \in DOMAIN received' : SettingsAnswer(received'[i]) => received'[i].request.id # 0
          BY <1>2, <1>18, <2>3 DEF NewestIsAsked
        <5>2. ASSUME ~refused'
              PROVE  \/ scoped' = [s \in Scopes(roots) |-> settings]
                     \/ \E j \in DOMAIN received' : Changes(received'[j])
          <6>1. m.ok
            BY <4>1, <5>2
          <6>2. scoped' = [s \in Scopes(roots) |-> m.settings]
            BY <1>2, <4>1, <4>2, <4>3, <6>1 DEF NewestIsAsked
          <6>3. SettingsAnswer(m) /\ m.request.id = asked.id
            BY <2>1, <4>2 DEF SettingsAnswer, r
          <6>4. m.settings = settings \/ \E j \in DOMAIN received : 1 < j /\ Changes(received[j])
            BY <1>2, <2>3, <6>3 DEF SettingsAreTold
          <6> QED
            BY <2>3, <6>2, <6>4
        <5> QED
          BY <2>1, <3>1, <4>4, <5>1, <5>2 DEF SettingsAreTold
      <4> QED
        BY <2>4, <3>1, <4>6, <4>7 DEF Settled
    <3> QED
      BY <3>2, <3>3
  <2> QED
    BY <1>19, <2>6, <2>7 DEF TakeResponse, m
<1>20. ASSUME NEW rs \in SUBSET Roots, RequestConfiguration(rs), roots' = rs,
              DOMAIN scoped' \subseteq Scopes(rs),
              received # <<>>, received' = Tail(received),
              UNCHANGED <<serverRequests, atClient, client>>
       PROVE  NewestIsAsked' /\ SettingsAreTold'
  <2> DEFINE q == ConfigurationRequest(generation + 1, rs)
             n == Len(sending) + 1
  <2>1. /\ generation' = generation + 1 /\ sending' = Append(sending, q)
        /\ asked' = [id |-> generation + 1, scopes |-> Scopes(rs)]
    BY <1>20 DEF RequestConfiguration
  <2>2. /\ q.kind = "configuration" /\ q.id = generation' /\ q.scopes = Scopes(rs)
        /\ asked'.id = generation' /\ asked'.scopes = Scopes(rs) /\ asked' # NothingAsked
    BY <1>18, <2>1 DEF ConfigurationRequest, NothingAsked
  <2>3. q \in Forwarded
    BY <1>18 DEF ConfigurationRequest, Forwarded, Scopes
  <2>4. \A k \in 1..generation : k \in 1..generation' /\ k # generation'
    BY <1>18, <2>1
  <2>5. generation' \in 1..generation'
    BY <1>18, <2>1
  <2> HIDE DEF q
  <2>6. /\ n \in DOMAIN sending' /\ sending'[n] = q
        /\ \A i \in DOMAIN sending' : i = n \/ (i \in DOMAIN sending /\ sending'[i] = sending[i])
    BY <2>1, <2>3, AppendOf DEF TypeOK
  <2> HIDE DEF n
  <2>7. \A i \in DOMAIN received' : SettingsAnswer(received'[i]) =>
          received'[i].request.id \in 1..generation
    BY <1>2, <1>17, <1>20 DEF NewestIsAsked
  <2>8. NewestIsAsked'
    <3>1. \A i \in DOMAIN sending' : sending'[i].kind = "configuration" =>
            /\ sending'[i].id \in 1..generation'
            /\ sending'[i].id = asked'.id => sending'[i].scopes = asked'.scopes
      BY <1>2, <2>2, <2>4, <2>5, <2>6 DEF NewestIsAsked
    <3>2. \A p \in atClient \cup serverRequests : p.kind = "configuration" =>
            p.id \in 1..generation' /\ p.id # asked'.id
      BY <1>2, <2>2, <2>4 DEF NewestIsAsked
    <3> QED
      BY <1>20, <2>2, <2>4, <2>7, <3>1, <3>2 DEF NewestIsAsked
  <2>9. SettingsAreTold'
    BY <2>2, <2>4, <2>7 DEF SettingsAreTold
  <2> QED
    BY <2>8, <2>9
<1>21. CASE DidChangeConfiguration
  <2>1. /\ received # <<>> /\ received' = Tail(received)
        /\ Head(received).kind = "didChangeConfiguration"
        /\ RequestConfiguration(roots)
        /\ UNCHANGED <<roots, scoped, serverRequests, atClient, client>>
    BY <1>1, <1>21 DEF DidChangeConfiguration
  <2>2. roots \in SUBSET Roots /\ DOMAIN scoped' \subseteq Scopes(roots)
    BY <1>2, <2>1 DEF TypeOK, NewestIsAsked
  <2>3. NewestIsAsked' /\ SettingsAreTold'
    BY <1>20, <2>1, <2>2
  <2>4. ~ChangesFolders(Head(received))
    BY <2>1 DEF ChangesFolders
  <2>5. FoldersAreTold'
    <3>1. CASE roots = folders /\ \A i \in DOMAIN received : ~ChangesFolders(received[i])
      BY <1>17, <2>1, <3>1 DEF FoldersAreTold
    <3>2. CASE \E i \in DOMAIN received :
                 /\ ChangesFolders(received[i]) /\ received[i].folders = folders
                 /\ \A j \in DOMAIN received : ChangesFolders(received[j]) => j <= i
      <4>1. PICK i \in DOMAIN received :
              /\ ChangesFolders(received[i]) /\ received[i].folders = folders
              /\ \A j \in DOMAIN received : ChangesFolders(received[j]) => j <= i
        BY <3>2
      <4>2. i # 1 /\ i - 1 \in DOMAIN received' /\ received'[i - 1] = received[i]
        BY <1>17, <2>1, <2>4, <4>1
      <4>3. \A j \in DOMAIN received' : ChangesFolders(received'[j]) => j <= i - 1
        BY <1>17, <2>1, <4>1, <4>2
      <4> QED
        BY <2>1, <4>1, <4>2, <4>3 DEF FoldersAreTold
    <3> QED
      BY <1>2, <3>1, <3>2 DEF FoldersAreTold
  <2> QED
    BY <2>3, <2>5 DEF Settled
<1>22. CASE DidChangeWorkspaceFolders
  <2> DEFINE rs == Head(received).folders
  <2>1. /\ received # <<>> /\ received' = Tail(received)
        /\ Head(received).kind = "didChangeWorkspaceFolders"
        /\ RequestConfiguration(rs) /\ roots' = rs /\ scoped' = Surviving(rs)
        /\ UNCHANGED <<serverRequests, atClient, client>>
    BY <1>1, <1>22 DEF DidChangeWorkspaceFolders
  <2>2. rs \in SUBSET Roots
    BY <1>17, <2>1 DEF Messages
  <2>3. DOMAIN scoped' \subseteq Scopes(rs)
    BY <2>1 DEF Surviving, Restrict, Scopes
  <2>4. NewestIsAsked' /\ SettingsAreTold'
    BY <1>20, <2>1, <2>2, <2>3
  <2>5. ChangesFolders(received[1]) /\ rs = received[1].folders
    BY <1>17, <2>1 DEF ChangesFolders
  <2> HIDE DEF rs
  <2>6. PICK i \in DOMAIN received :
          /\ ChangesFolders(received[i]) /\ received[i].folders = folders
          /\ \A j \in DOMAIN received : ChangesFolders(received[j]) => j <= i
    BY <1>2, <1>17, <2>1, <2>5 DEF FoldersAreTold
  <2>7. FoldersAreTold'
    <3>1. CASE i = 1
      <4>1. \A j \in DOMAIN received' : ~ChangesFolders(received'[j])
        BY <1>17, <2>1, <2>6, <3>1
      <4> QED
        BY <2>1, <2>5, <2>6, <3>1, <4>1 DEF FoldersAreTold
    <3>2. CASE i # 1
      <4>1. i - 1 \in DOMAIN received' /\ received'[i - 1] = received[i]
        BY <1>17, <2>1, <3>2
      <4>2. \A j \in DOMAIN received' : ChangesFolders(received'[j]) => j <= i - 1
        BY <1>17, <2>1, <2>6, <4>1
      <4> QED
        BY <2>1, <2>6, <4>1, <4>2 DEF FoldersAreTold
    <3> QED
      BY <3>1, <3>2
  <2> QED
    BY <2>4, <2>7 DEF Settled
<1> QED
  BY <1>4, <1>5, <1>6, <1>7, <1>8, <1>9, <1>11, <1>12, <1>13, <1>14, <1>15, <1>16, <1>19,
     <1>21, <1>22 DEF Next

(* Once nothing is under way, the settings in use are the client's newest   *)
(* ones for its present folders, or the client failed to give them.         *)
THEOREM SettlesOnNewest == Spec => []SettledConfiguration
<1>1. Init => ConfigurationInv
  <2> SUFFICES ASSUME Init
               PROVE  NewestIsAsked /\ FoldersAreTold /\ SettingsAreTold
    BY TypeInit DEF ConfigurationInv
  <2>1. /\ generation = 1 /\ asked = [id |-> 1, scopes |-> Scopes(roots)] /\ roots = folders
        /\ scoped = Nothing /\ received = <<>> /\ atClient = {} /\ serverRequests = {}
        /\ sending = <<Registration, ConfigurationRequest(1, roots)>>
    BY DEF Init
  <2>2. asked # NothingAsked /\ DOMAIN scoped = {}
    BY <2>1 DEF NothingAsked, Nothing
  <2>3. \A i \in DOMAIN sending : sending[i].kind = "configuration" =>
          sending[i].id = 1 /\ sending[i].scopes = Scopes(roots)
    BY <2>1 DEF Registration, ConfigurationRequest
  <2> QED
    BY <2>1, <2>2, <2>3 DEF NewestIsAsked, FoldersAreTold, SettingsAreTold
<1>2. ConfigurationInv /\ [Next]_vars => ConfigurationInv'
  BY TypeStep, SettingsStep DEF ConfigurationInv, Settled
<1>3. ConfigurationInv => SettledConfiguration
  BY DEF ConfigurationInv, NewestIsAsked, FoldersAreTold, SettingsAreTold, SettledConfiguration
<1> QED
  BY <1>1, <1>2, <1>3, PTL DEF Spec

(* Every variable keeps its type.                                           *)
THEOREM TypeCorrect == Spec => []TypeOK
  BY TypeInit, TypeStep, PTL DEF Spec
=============================================================================
