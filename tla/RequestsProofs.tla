--------------------------- MODULE RequestsProofs ---------------------------
(***************************************************************************)
(* What holds of Requests for every set of identifiers, every pool and     *)
(* every bound.  The first facts concern the ledger alone, so a lemma      *)
(* reduces a step of the system to what it does to the ledger: nothing, or *)
(* exactly one of its three operations.  The last ones follow a call from  *)
(* one queue to the next.                                                  *)
(***************************************************************************)
EXTENDS Requests, Functions, FiniteSetTheorems, TLAPS

(* The inductive invariant of the ledger.                                   *)
LedgerInv == LedgerTypeOK /\ LedgerConsistent /\ AnsweredOnce

(* What one step may do to the ledger.                                      *)
ReceiveStep == Running /\ next < MaxCalls /\ lifecycle' = lifecycle /\ \E w \in Wire : LedgerReceive(w)
CompleteStep == lifecycle # "Exited" /\ lifecycle' = lifecycle /\ \E c \in pending : LedgerComplete(c)
DrainStep == Running /\ lifecycle' = "ShuttingDown" /\ \E w \in Wire : LedgerDrain(next + 1, w)
IdleStep == (lifecycle' = lifecycle \/ lifecycle' = "Exited") /\ UNCHANGED ledger

(* Every step of every thread does one of these four things to the ledger.  *)
LEMMA LedgerSteps ==
  ASSUME LedgerInv, [Next]_vars
  PROVE  ReceiveStep \/ CompleteStep \/ DrainStep \/ IdleStep
<1> USE DEF IdleStep
<1>1. ASSUME NEW w \in Wire, NEW kind \in Kinds, Receive(w, kind)
      PROVE  ReceiveStep
  BY <1>1 DEF Receive, ReceiveStep
<1>2. ASSUME NEW w \in Wire, Cancel(w)
      PROVE  CompleteStep
  BY <1>2 DEF Cancel, CompleteStep, LedgerComplete
<1>3. ASSUME NEW w \in Wire, Shutdown(w)
      PROVE  DrainStep
  BY <1>3 DEF Shutdown, DrainStep
<1>4. ASSUME NEW t, Change(t)
      PROVE  IdleStep
  BY <1>4 DEF Change
<1>5. CASE Exit
  BY <1>5 DEF Exit
<1>6. CASE TakeResponse
  BY <1>6 DEF TakeResponse, CompleteStep
<1>7. CASE TakeOutbound
  BY <1>7 DEF TakeOutbound
<1>8. CASE Work
  BY <1>8 DEF Work, WorkerTake, WorkerDrained, WorkerDispatchRead, WorkerTryDispatch, WorkerTick,
     WorkerComplete, WorkerResume, WorkerResumed, WorkerFinishWrite, WorkerStop
<1>9. ASSUME NEW c \in PoolIds, Read(c)
      PROVE  IdleStep
  BY <1>9 DEF Read, ReaderStart, ReaderFinish, ReaderReturn
<1>10. CASE UNCHANGED vars
  BY <1>10 DEF vars
<1> QED
  BY <1>1, <1>2, <1>3, <1>4, <1>5, <1>6, <1>7, <1>8, <1>9, <1>10 DEF Next, Main, Terminated

LEMMA AppendToEmpty == ASSUME NEW x PROVE Append(<<>>, x) = <<x>>
OBVIOUS

LEMMA LedgerInit == ASSUME Init PROVE LedgerInv
BY ConstantsAssumption DEF Init, LedgerInv, LedgerTypeOK, LedgerConsistent, AnsweredOnce, Calls, Running

(* The three ledger operations preserve its invariant.                      *)
LEMMA LedgerPreserved ==
  ASSUME LedgerInv, [Next]_vars
  PROVE  LedgerInv'
<1> USE ConstantsAssumption DEF LedgerInv
<1>1. CASE ReceiveStep
  <2>1. PICK w \in Wire : LedgerReceive(w)
    BY <1>1 DEF ReceiveStep
  <2>2. next + 1 \in Calls /\ next + 1 \notin pending
    BY <1>1 DEF ReceiveStep, LedgerTypeOK, LedgerConsistent, Calls
  <2>3. LedgerTypeOK'
    BY <1>1, <2>1, <2>2 DEF ReceiveStep, LedgerReceive, LedgerTypeOK, Calls
  <2>4. LedgerConsistent'
    <3> USE <1>1, <2>1, <2>2 DEF ReceiveStep, LedgerReceive, LedgerTypeOK, LedgerConsistent
    <3>1. (Running => next <= MaxCalls)' /\ (lifecycle = "ShuttingDown" => pending = {})'
      BY DEF Running
    <3>2. (pending \subseteq 1 .. next)' /\ (cancellation = pending)' /\ (raised = (1 .. next) \ pending)'
      OBVIOUS
    <3>3. (\A c \in pending : original[c] = owner[c])'
      BY DEF Calls
    <3>4. (\A c \in Calls : c \in pending <=> original[c] # NoWire)'
      OBVIOUS
    <3>5. (\A c \in Calls, v \in Wire : current[v] = c <=> c \in pending /\ original[c] = v)'
      OBVIOUS
    <3> QED
      BY <3>1, <3>2, <3>3, <3>4, <3>5
  <2>5. AnsweredOnce'
    <3>1. answers' = answers /\ next' = next + 1 /\ pending' = pending \cup {next + 1}
      BY <2>1 DEF LedgerReceive
    <3>2. \A c \in Calls : c # next + 1 => owner'[c] = owner[c]
      BY <2>1, <2>2 DEF LedgerReceive, LedgerTypeOK
    <3> QED
      BY <2>2, <3>1, <3>2 DEF AnsweredOnce, LedgerTypeOK, Calls
  <2> QED
    BY <2>3, <2>4, <2>5
<1>2. CASE CompleteStep
  <2>1. PICK c \in pending : LedgerComplete(c)
    BY <1>2 DEF CompleteStep
  <2>2. c \in Calls /\ c <= next /\ original[c] \in Wire /\ answers[c] = <<>>
    BY DEF LedgerTypeOK, LedgerConsistent, AnsweredOnce, Calls
  <2>3. LedgerTypeOK'
    BY <1>2, <2>1, <2>2 DEF CompleteStep, LedgerComplete, LedgerTypeOK
  <2>4. LedgerConsistent'
    <3> USE <1>2, <2>1, <2>2 DEF CompleteStep, LedgerComplete, LedgerTypeOK, LedgerConsistent
    <3>1. (Running => next <= MaxCalls)' /\ (lifecycle = "ShuttingDown" => pending = {})'
      BY DEF Running
    <3>2. (pending \subseteq 1 .. next)' /\ (cancellation = pending)' /\ (raised = (1 .. next) \ pending)'
      OBVIOUS
    <3>3. (\A d \in pending : original[d] = owner[d])'
      OBVIOUS
    <3>4. (\A d \in Calls : d \in pending <=> original[d] # NoWire)'
      OBVIOUS
    <3>5. (\A d \in Calls, v \in Wire : current[v] = d <=> d \in pending /\ original[d] = v)'
      BY DEF Calls
    <3> QED
      BY <3>1, <3>2, <3>3, <3>4, <3>5
  <2>5. AnsweredOnce'
    <3>1. Append(answers[c], original[c]) = <<owner[c]>>
      <4>1. original[c] = owner[c]
        BY <2>1 DEF LedgerConsistent
      <4> QED
        BY <2>2, <4>1, AppendToEmpty, SMTT(60)
    <3>2. answers' = [answers EXCEPT ![c] = <<owner[c]>>]
      BY <2>1, <3>1 DEF LedgerComplete
    <3>3. pending' = pending \ {c} /\ UNCHANGED <<next, owner>>
      BY <2>1 DEF LedgerComplete
    <3> QED
      BY <2>2, <3>2, <3>3 DEF LedgerTypeOK, AnsweredOnce, Calls
  <2> QED
    BY <2>3, <2>4, <2>5
<1>3. CASE DrainStep
  <2>1. PICK w \in Wire : LedgerDrain(next + 1, w)
    BY <1>3 DEF DrainStep
  <2>2. next + 1 \in Calls /\ next + 1 \notin pending
    BY <1>3 DEF DrainStep, LedgerTypeOK, LedgerConsistent, Calls
  <2>3. LedgerTypeOK'
    BY <1>3, <2>1, <2>2 DEF DrainStep, LedgerDrain, LedgerTypeOK, Calls
  <2>4. LedgerConsistent'
    <3>1. pending' = {} /\ cancellation' = {} /\ next' = next + 1 /\ lifecycle' = "ShuttingDown"
      BY <1>3, <2>1 DEF DrainStep, LedgerDrain
    <3>2. original' = [d \in Calls |-> NoWire] /\ current' = [v \in Wire |-> 0]
      BY <2>1 DEF LedgerDrain
    <3>3. raised' = 1 .. next'
      <4>1. raised' = raised \cup cancellation \cup {next + 1}
        BY <2>1 DEF LedgerDrain
      <4>2. raised \cup cancellation = 1 .. next
        BY DEF LedgerConsistent
      <4> QED
        BY <3>1, <4>1, <4>2 DEF LedgerTypeOK
    <3>4. 0 \notin Calls
      BY DEF Calls
    <3> QED
      BY <3>1, <3>2, <3>3, <3>4 DEF LedgerConsistent, Running
  <2>5. AnsweredOnce'
    <3>1. \A d \in pending : answers[d] = <<>> /\ original[d] = owner[d] /\ original[d] # NoWire
      BY DEF LedgerTypeOK, LedgerConsistent, AnsweredOnce
    <3>2. answers[next + 1] = <<>> /\ w # NoWire
      BY <2>2 DEF AnsweredOnce, LedgerTypeOK
    <3>3. \A d \in Calls : d \notin pending => original[d] = NoWire
      BY DEF LedgerConsistent
    <3>4. pending' = {} /\ next' = next + 1 /\ owner' = [owner EXCEPT ![next + 1] = w]
      BY <2>1 DEF LedgerDrain
    <3>5. SUFFICES ASSUME NEW d \in Calls
          PROVE  answers'[d] = IF d > next + 1 THEN <<>> ELSE <<owner'[d]>>
      BY <3>4 DEF AnsweredOnce
    <3>6. CASE d = next + 1
      <4>1. answers'[d] = Append(<<>>, w)
        BY <2>1, <3>2, <3>6 DEF LedgerDrain
      <4>2. owner'[d] = w
        BY <3>4, <3>6 DEF LedgerTypeOK
      <4> QED
        BY <3>6, <4>1, <4>2, AppendToEmpty DEF Calls
    <3>7. CASE d \in pending
      <4>1. answers'[d] = Append(<<>>, owner[d])
        BY <2>1, <2>2, <3>1, <3>7 DEF LedgerDrain
      <4>2. owner'[d] = owner[d] /\ ~(d > next + 1)
        BY <2>2, <3>4, <3>7 DEF LedgerTypeOK, LedgerConsistent, Calls
      <4> QED
        BY <4>1, <4>2, AppendToEmpty
    <3>8. CASE d # next + 1 /\ d \notin pending
      <4>1. answers'[d] = answers[d]
        BY <2>1, <3>3, <3>8 DEF LedgerDrain
      <4>2. owner'[d] = owner[d]
        BY <3>4, <3>8 DEF LedgerTypeOK
      <4> QED
        BY <3>8, <4>1, <4>2 DEF AnsweredOnce, LedgerTypeOK, Calls
    <3> QED
      BY <3>6, <3>7, <3>8
  <2> QED
    BY <2>3, <2>4, <2>5
<1>4. CASE IdleStep
  BY <1>4 DEF IdleStep, ledger, LedgerTypeOK, LedgerConsistent, AnsweredOnce, Running, Calls
<1> QED
  BY <1>1, <1>2, <1>3, <1>4, LedgerSteps

THEOREM LedgerInvariant == Spec => []LedgerInv
BY LedgerInit, LedgerPreserved, PTL DEF Spec

(* The tables of the ledger agree in every state of every session.          *)
THEOREM LedgerIsConsistent == Spec => []LedgerConsistent
BY LedgerInvariant, PTL DEF LedgerInv

(* No accepted call is answered twice, or at another call's identifier.     *)
THEOREM AnswersAreUnique == Spec => []AnsweredOnce
BY LedgerInvariant, PTL DEF LedgerInv

-----------------------------------------------------------------------------
(* The refinement of RequestSession.  Under the invariant the two mapped    *)
(* functions have a simple form, which the four kinds of step update.       *)

LEMMA MappedState ==
  ASSUME LedgerInv
  PROVE  /\ SessionState = [c \in Calls |-> IF c > next THEN "unused"
                                            ELSE IF c \in pending THEN "open" ELSE "answered"]
         /\ SessionAnswer = [c \in Calls |-> IF c > next \/ c \in pending THEN NoWire ELSE owner[c]]
<1>1. \A c \in Calls : <<owner[c]>> # <<>> /\ Len(<<owner[c]>>) = 1 /\ <<owner[c]>>[1] = owner[c]
  OBVIOUS
<1>2. \A c \in Calls : c \in pending => ~(c > next)
  BY DEF LedgerInv, LedgerTypeOK, LedgerConsistent, Calls
<1> QED
  BY <1>1, <1>2 DEF LedgerInv, AnsweredOnce, SessionState, SessionAnswer

LEMMA MappedStateNext ==
  ASSUME LedgerInv'
  PROVE  /\ SessionState' = [c \in Calls |-> IF c > next' THEN "unused"
                                             ELSE IF c \in pending' THEN "open" ELSE "answered"]
         /\ SessionAnswer' = [c \in Calls |-> IF c > next' \/ c \in pending' THEN NoWire ELSE owner'[c]]
<1>1. \A c \in Calls : <<owner'[c]>> # <<>> /\ Len(<<owner'[c]>>) = 1 /\ <<owner'[c]>>[1] = owner'[c]
  OBVIOUS
<1>2. \A c \in Calls : c \in pending' => ~(c > next')
  BY DEF LedgerInv, LedgerTypeOK, LedgerConsistent, Calls
<1> QED
  BY <1>1, <1>2 DEF LedgerInv, AnsweredOnce, SessionState, SessionAnswer

LEMMA SessionSteps ==
  ASSUME LedgerInv, LedgerInv', [Next]_vars
  PROVE  [Session!Next]_(Session!vars)
<1> DEFINE state == [c \in Calls |-> IF c > next THEN "unused"
                                     ELSE IF c \in pending THEN "open" ELSE "answered"]
           answer == [c \in Calls |-> IF c > next \/ c \in pending THEN NoWire ELSE owner[c]]
<1>0. SessionState = state /\ SessionAnswer = answer /\ SessionState' = state' /\ SessionAnswer' = answer'
  BY MappedState, MappedStateNext
<1>a. next \in Int /\ (\A c \in Calls : c \in Int) /\ (\A c \in pending : c \in Calls /\ ~(c > next))
  BY DEF LedgerInv, LedgerTypeOK, LedgerConsistent, Calls
<1>b. \A c \in Calls : state[c] = "open" <=> c \in pending
  BY <1>a
<1>1. Session!Open = pending
  <2>1. Session!Open = {c \in Calls : state[c] = "open"}
    BY <1>0 DEF Session!Open
  <2> QED
    BY <1>a, <1>b, <2>1
<1>2. ASSUME NEW w \in Wire, current[w] = 0 PROVE Session!Unambiguous(w)
  BY <1>1, <1>2 DEF Session!Unambiguous, LedgerInv, LedgerTypeOK, LedgerConsistent, Calls
<1>3. CASE ReceiveStep
  <2>1. PICK w \in Wire : LedgerReceive(w)
    BY <1>3 DEF ReceiveStep
  <2>2. next + 1 \in Calls /\ current[w] = 0
    BY <1>3, <2>1, ConstantsAssumption DEF ReceiveStep, LedgerReceive, LedgerInv, LedgerTypeOK, Calls
  <2>3. state[next + 1] = "unused"
    BY <2>2 DEF LedgerInv, LedgerTypeOK
  <2>4. next' = next + 1 /\ pending' = pending \cup {next + 1} /\ owner' = [owner EXCEPT ![next + 1] = w]
    BY <2>1 DEF LedgerReceive
  <2>5. state' = [state EXCEPT ![next + 1] = "open"]
    <3>1. state' = [c \in Calls |-> IF c > next + 1 THEN "unused"
                     ELSE IF c \in pending \/ c = next + 1 THEN "open" ELSE "answered"]
      BY <2>4, Zenon
    <3>2. \A c \in Calls : (c > next + 1) <=> (c > next /\ c # next + 1)
      BY <1>a
    <3>3. \A c \in Calls : c = next + 1 => c > next
      BY <1>a
    <3>4. state' = [c \in Calls |-> IF c = next + 1 THEN "open" ELSE state[c]]
      BY <3>1, <3>2, <3>3
    <3> QED
      BY <3>4
  <2>6. answer' = answer
    BY <2>2, <2>4 DEF LedgerInv, LedgerTypeOK, LedgerConsistent, Calls
  <2>7. Session!Accept(next + 1, w)
    BY <1>0, <1>2, <1>3, <2>2, <2>3, <2>4, <2>5, <2>6 DEF Session!Accept, ReceiveStep, Running
  <2> QED
    BY <2>2, <2>7 DEF Session!Next
<1>4. CASE CompleteStep
  <2>1. PICK c \in pending : LedgerComplete(c)
    BY <1>4 DEF CompleteStep
  <2>2. c \in Calls /\ Running /\ state[c] = "open"
    BY <1>4 DEF CompleteStep, LedgerInv, LedgerTypeOK, LedgerConsistent, Running, Calls
  <2>3. pending' = pending \ {c} /\ next' = next /\ owner' = owner
    BY <2>1 DEF LedgerComplete
  <2>4. state' = [state EXCEPT ![c] = "answered"]
    BY <1>a, <2>1, <2>2, <2>3
  <2>5. answer' = [answer EXCEPT ![c] = owner[c]]
    BY <1>a, <2>1, <2>2, <2>3
  <2>6. Session!Answer(c)
    BY <1>0, <1>4, <2>2, <2>3, <2>4, <2>5 DEF Session!Answer, CompleteStep, Running
  <2> QED
    BY <2>2, <2>6 DEF Session!Next
<1>5. CASE DrainStep
  <2>1. PICK w \in Wire : LedgerDrain(next + 1, w)
    BY <1>5 DEF DrainStep
  <2>2. next + 1 \in Calls /\ current[w] = 0
    BY <1>5, <2>1, ConstantsAssumption DEF DrainStep, LedgerDrain, LedgerInv, LedgerTypeOK, LedgerConsistent, Calls
  <2>3. state[next + 1] = "unused"
    BY <2>2 DEF LedgerInv, LedgerTypeOK
  <2>4. next' = next + 1 /\ pending' = {} /\ owner' = [owner EXCEPT ![next + 1] = w]
    BY <2>1 DEF LedgerDrain
  <2>5. state' = [d \in Calls |-> IF d = next + 1 \/ d \in pending THEN "answered" ELSE state[d]]
    BY <2>2, <2>4 DEF LedgerInv, LedgerTypeOK, LedgerConsistent, Calls
  <2>6. answer' = [d \in Calls |-> IF d = next + 1 \/ d \in pending THEN owner'[d] ELSE answer[d]]
    BY <2>2, <2>4 DEF LedgerInv, LedgerTypeOK, LedgerConsistent, Calls
  <2>7. Session!Shutdown(next + 1, w)
    BY <1>0, <1>1, <1>2, <1>5, <2>2, <2>3, <2>4, <2>5, <2>6 DEF Session!Shutdown, DrainStep, Running
  <2> QED
    BY <2>2, <2>7 DEF Session!Next
<1>6. CASE IdleStep
  <2>1. UNCHANGED <<SessionState, SessionAnswer, owner>>
    BY <1>6 DEF IdleStep, ledger, SessionState, SessionAnswer
  <2>2. CASE Running /\ lifecycle' = "Exited"
    BY <2>1, <2>2 DEF Session!Next, Session!Leave, Running
  <2>3. CASE ~(Running /\ lifecycle' = "Exited")
    BY <1>6, <2>1, <2>3 DEF IdleStep, Session!vars, Running
  <2> QED
    BY <2>2, <2>3
<1> QED
  BY <1>3, <1>4, <1>5, <1>6, LedgerSteps

(* The server implements the abstract session, for any pool and any number  *)
(* of requests.                                                             *)
THEOREM Refinement == Spec => ImplementsSession
<1>1. Init => Session!Init
  <2> SUFFICES ASSUME Init PROVE Session!Init
    OBVIOUS
  <2>1. SessionState = [c \in Calls |-> "unused"] /\ SessionAnswer = [c \in Calls |-> NoWire]
    BY ConstantsAssumption DEF Init, SessionState, SessionAnswer, Calls
  <2> QED
    BY <2>1 DEF Init, Session!Init, Running
<1>2. LedgerInv /\ LedgerInv' /\ [Next]_vars => [Session!Next]_(Session!vars)
  BY SessionSteps
<1> QED
  BY <1>1, <1>2, LedgerInvariant, PTL DEF Spec, ImplementsSession, Session!Spec

-----------------------------------------------------------------------------
(* Type correctness of the channels, the worker and the pool.               *)

(* What execute_job_guarded leaves behind has the right types.              *)
LEMMA ExecuteTypes ==
  ASSUME HandlerTypeOK, NEW j \in RequestJobs, NEW back \in {"drain", "resume", "dispatch"},
         Execute(j, back), pendingReads' \in Seq(RequestJobs), analyze' \in BOOLEAN, dead' \in Nat
  PROVE  HandlerTypeOK'
<1> USE DEF HandlerTypeOK, Goes, Writes
<1>1. j.call \in Calls /\ j.call \in PoolIds
  BY DEF RequestJobs, PoolIds
<1>2. CASE Gone(j) /\ Goes(back) /\ UNCHANGED <<outq, reader, deferred, live, acquisitions, rounds>>
  BY <1>2 DEF reader
<1>3. CASE /\ deferred' = Append(deferred, j)
           /\ Goes(back)
           /\ UNCHANGED <<outq, reader, live, acquisitions, rounds>>
  BY <1>3 DEF reader
<1>4. CASE Acquire(j, back)
  BY <1>4 DEF Acquire, reader
<1>5. CASE Serve(j) /\ Goes(back) /\ UNCHANGED <<deferred, live, acquisitions>>
  <2>1. ASSUME NEW type \in {"response", "settings"}, Send(type, j.call)
        PROVE  outq' \in Seq(Outbound) /\ UNCHANGED <<permits, pool>>
    BY <1>1, <2>1 DEF Send, Outbound, reader
  <2>2. ASSUME Spawn(j.call)
        PROVE  /\ outq' \in Seq(Outbound)
               /\ permits' \in Nat
               /\ pool' \in [PoolIds -> {"none", "queued", "running", "done"}]
    BY <1>1, <2>2 DEF Spawn
  <2>3. /\ outq' \in Seq(Outbound)
        /\ permits' \in Nat
        /\ pool' \in [PoolIds -> {"none", "queued", "running", "done"}]
        /\ rounds' \in Nat
    BY <1>5, <2>1, <2>2 DEF Serve
  <2> QED
    BY <1>5, <2>3
<1> QED
  BY <1>2, <1>3, <1>4, <1>5 DEF Execute

LEMMA HandleTypes ==
  ASSUME HandlerTypeOK, NEW j \in Jobs, NEW back \in {"drain", "resume", "dispatch"}, Handle(j, back)
  PROVE  HandlerTypeOK'
<1>1. CASE j.type \in RequestTypes /\ HandleRequest(j, back) /\ UNCHANGED <<analyze, dead>>
  <2>0. j \in RequestJobs
    BY <1>1 DEF Jobs, RequestJobs, RequestTypes
  <2>1. CASE Acquire(j, back) /\ UNCHANGED pendingReads
    BY <1>1, <2>0, <2>1 DEF HandlerTypeOK, Acquire, Writes, reader
  <2>2. CASE /\ pendingReads' = Append(pendingReads, j)
             /\ Goes(back)
             /\ UNCHANGED <<outq, reader, deferred, live, acquisitions, rounds>>
    BY <1>1, <2>0, <2>2 DEF HandlerTypeOK, Goes, reader
  <2>3. CASE Execute(j, back) /\ UNCHANGED pendingReads
    BY <1>1, <2>0, <2>3, ExecuteTypes DEF HandlerTypeOK
  <2> QED
    BY <1>1, <2>1, <2>2, <2>3 DEF HandleRequest
<1>2. CASE HandleEdit(back)
  BY <1>2 DEF HandlerTypeOK, HandleEdit, Writes, reader
<1>3. CASE HandleRoots(back)
  BY <1>3 DEF HandlerTypeOK, HandleRoots, Writes, reader
<1> QED
  BY <1>1, <1>2, <1>3 DEF Handle

LEMMA TypesPreserved ==
  ASSUME TypeOK, LedgerInv, LedgerInv', [Next]_vars
  PROVE  TypeOK'
<1> USE DEF LedgerInv, TypeOK
<1>1. ASSUME NEW w \in Wire, NEW kind \in Kinds, Receive(w, kind)
      PROVE  TypeOK'
  <2>1. next' \in Calls
    BY <1>1, ConstantsAssumption DEF Receive, LedgerReceive, LedgerTypeOK, Calls
  <2>2. kind # "immediate" => Job(kind, next') \in Jobs
    BY <2>1, ConstantsAssumption DEF Job, Jobs, RequestJobs, RequestTypes, AllKinds
  <2>3. respq' \in Seq(Calls) /\ jobs' \in Seq(Jobs)
    <3>1. CASE respq' = Append(respq, next') /\ UNCHANGED jobs
      BY <2>1, <3>1
    <3>2. CASE kind # "immediate" /\ jobs' = Append(jobs, Job(kind, next')) /\ UNCHANGED respq
      BY <2>2, <3>2
    <3> QED
      BY <1>1, <3>1, <3>2 DEF Receive
  <2> QED
    BY <1>1, <2>3 DEF Receive, HandlerTypeOK, worker, reader
<1>2. ASSUME NEW w \in Wire, Cancel(w) \/ Shutdown(w)
      PROVE  TypeOK'
  BY <1>2 DEF Cancel, Shutdown, HandlerTypeOK, worker, reader
<1>3. ASSUME NEW t \in {"edit", "roots"}, Change(t)
      PROVE  TypeOK'
  <2>1. Job(t, 0) \in Jobs
    BY DEF Job, Jobs
  <2> QED
    BY <1>3, <2>1 DEF Change, HandlerTypeOK, worker, reader
<1>4. CASE Exit
  BY <1>4 DEF Exit, HandlerTypeOK, worker, reader
<1>5. CASE TakeResponse
  BY <1>5 DEF TakeResponse, HandlerTypeOK, worker, reader
<1>6. CASE TakeOutbound
  <2>1. outq # <<>> /\ outq' = Tail(outq)
    BY <1>6 DEF TakeOutbound
  <2>2. Head(outq) \in Outbound /\ outq' \in Seq(Outbound)
    BY <2>1 DEF HandlerTypeOK
  <2>3. Head(outq).call \in Calls /\ Job("report", Head(outq).call) \in Jobs
    BY <2>2 DEF Outbound, Job, Jobs, RequestJobs, RequestTypes
  <2>4. respq' \in Seq(Calls) /\ jobs' \in Seq(Jobs)
    <3>1. CASE UNCHANGED <<jobs, respq>>
      BY <3>1
    <3>2. CASE respq' = Append(respq, Head(outq).call) /\ UNCHANGED jobs
      BY <2>3, <3>2
    <3>3. CASE jobs' = Append(jobs, Job("report", Head(outq).call)) /\ UNCHANGED respq
      BY <2>3, <3>3
    <3> QED
      BY <1>6, <3>1, <3>2, <3>3 DEF TakeOutbound
  <2> QED
    BY <1>6, <2>2, <2>4 DEF TakeOutbound, HandlerTypeOK, worker, reader
<1>7. CASE WorkerTake
  <2>1. Head(jobs) \in Jobs /\ jobs' \in Seq(Jobs)
    BY <1>7 DEF WorkerTake
  <2>2. HandlerTypeOK'
    BY <1>7, <2>1, HandleTypes DEF WorkerTake
  <2> QED
    BY <1>7, <2>1, <2>2 DEF WorkerTake
<1>8. CASE WorkerDrained \/ WorkerTick \/ WorkerResumed \/ WorkerFinishWrite \/ WorkerStop
  BY <1>8 DEF WorkerDrained, WorkerTick, WorkerResumed, WorkerFinishWrite, WorkerStop,
     HandlerTypeOK, worker, reader
<1>9. CASE WorkerDispatchRead
  <2>1. Head(pendingReads) \in RequestJobs /\ pendingReads' \in Seq(RequestJobs)
    BY <1>9 DEF WorkerDispatchRead, HandlerTypeOK
  <2>2. HandlerTypeOK'
    BY <1>9, <2>1, ExecuteTypes DEF WorkerDispatchRead, HandlerTypeOK
  <2> QED
    BY <1>9, <2>2 DEF WorkerDispatchRead
<1>10. CASE WorkerTryDispatch
  <2>1. Analyze \in PoolIds
    BY DEF PoolIds
  <2>2. /\ permits' \in Nat
        /\ pool' \in [PoolIds -> {"none", "queued", "running", "done"}]
        /\ analyze' \in BOOLEAN
        /\ UNCHANGED outq
    <3>1. CASE CanAnalyze
      <4>1. Spawn(Analyze) /\ analyze' = FALSE
        BY <1>10, <3>1 DEF WorkerTryDispatch
      <4>2. permits' \in Nat /\ UNCHANGED outq
        BY <4>1 DEF Spawn, HandlerTypeOK
      <4>3. pool' \in [PoolIds -> {"none", "queued", "running", "done"}]
        BY <2>1, <4>1 DEF Spawn, HandlerTypeOK
      <4>4. analyze' \in BOOLEAN
        BY <4>1
      <4> QED
        BY <4>2, <4>3, <4>4
    <3>2. CASE ~CanAnalyze
      BY <1>10, <3>2 DEF WorkerTryDispatch, HandlerTypeOK, reader
    <3> QED
      BY <3>1, <3>2
  <2> QED
    BY <1>10, <2>2 DEF WorkerTryDispatch, HandlerTypeOK
<1>11. CASE WorkerComplete
  BY <1>11 DEF WorkerComplete, Writes, HandlerTypeOK, reader
<1>12. CASE WorkerResume
  <2>1. Head(batch) \in Jobs /\ batch' \in Seq(RequestJobs)
    BY <1>12 DEF WorkerResume, Jobs
  <2>2. HandlerTypeOK'
    BY <1>12, <2>1, HandleTypes DEF WorkerResume
  <2> QED
    BY <1>12, <2>1, <2>2 DEF WorkerResume
<1>13. ASSUME NEW c \in PoolIds, Read(c)
       PROVE  TypeOK'
  <2>1. c # Analyze => [type |-> "response", call |-> c] \in Outbound
    BY DEF Outbound, PoolIds
  <2>2. CASE ReaderStart(c)
    BY <2>2 DEF ReaderStart, HandlerTypeOK, worker
  <2>3. CASE ReaderFinish(c)
    <3>1. outq' \in Seq(Outbound)
      BY <2>1, <2>3 DEF ReaderFinish, HandlerTypeOK
    <3> QED
      BY <2>3, <3>1 DEF ReaderFinish, HandlerTypeOK, worker
  <2>4. CASE ReaderReturn(c)
    BY <2>4 DEF ReaderReturn, HandlerTypeOK, worker
  <2> QED
    BY <1>13, <2>2, <2>3, <2>4 DEF Read
<1>14. CASE UNCHANGED vars
  BY <1>14 DEF vars, HandlerTypeOK, worker, reader
<1> QED
  BY <1>1, <1>2, <1>3, <1>4, <1>5, <1>6, <1>7, <1>8, <1>9, <1>10, <1>11, <1>12, <1>13, <1>14
     DEF Next, Main, Work, Terminated

LEMMA TypesInit == ASSUME Init PROVE TypeOK
<1>1. LedgerTypeOK
  BY LedgerInit DEF LedgerInv
<1>2. HandlerTypeOK
  <2>1. <<>> \in Seq(Outbound) /\ <<>> \in Seq(RequestJobs)
    OBVIOUS
  <2>2. pool \in [PoolIds -> {"none", "queued", "running", "done"}]
    BY DEF Init
  <2> QED
    BY ConstantsAssumption, <2>1, <2>2 DEF Init, HandlerTypeOK
<1> QED
  BY <1>1, <1>2 DEF Init, TypeOK

(* Every variable has its type in every reachable state.                    *)
THEOREM TypeCorrect == Spec => []TypeOK
BY TypesInit, TypesPreserved, LedgerInvariant, PTL DEF Spec

-----------------------------------------------------------------------------
(* Deferred jobs.  A job is deferred only while its project has an          *)
(* acquisition in flight; a completion resumes every deferred job, and      *)
(* removing a project turns its acquisition from live to dead, which still  *)
(* completes.                                                               *)

LEMMA HandleStrandsNothing ==
  ASSUME TypeOK, NoStrandedDeferral, NEW j, NEW back, Handle(j, back)
  PROVE  NoStrandedDeferral'
<1> USE DEF NoStrandedDeferral, TypeOK, HandlerTypeOK
<1>1. CASE Acquire(j, back) /\ dead' = dead
  BY <1>1 DEF Acquire
<1>2. CASE Execute(j, back) /\ dead' = dead
  BY <1>2 DEF Execute, Acquire, Waits
<1>3. CASE HandleRequest(j, back) /\ UNCHANGED <<analyze, dead>>
  BY <1>1, <1>2, <1>3 DEF HandleRequest
<1>4. CASE HandleEdit(back)
  BY <1>4 DEF HandleEdit
<1>5. CASE HandleRoots(back)
  <2>1. PICK n \in 0 .. live : live' = live - n /\ dead' = dead + n
    BY <1>5 DEF HandleRoots
  <2>2. live' + dead' = live + dead /\ deferred' = deferred
    BY <1>5, <2>1 DEF HandleRoots
  <2> QED
    BY <2>2
<1> QED
  BY <1>3, <1>4, <1>5 DEF Handle

LEMMA StepStrandsNothing ==
  ASSUME TypeOK, NoStrandedDeferral, [Next]_vars
  PROVE  NoStrandedDeferral'
<1> USE DEF NoStrandedDeferral
<1>1. CASE Main
  BY <1>1 DEF Main, Receive, Cancel, Shutdown, Change, Exit, TakeResponse, TakeOutbound, worker
<1>2. CASE WorkerTake \/ WorkerResume
  BY <1>2, HandleStrandsNothing DEF WorkerTake, WorkerResume
<1>3. CASE WorkerDispatchRead
  <2>1. CASE Execute(Head(pendingReads), "dispatch") /\ dead' = dead
    BY <2>1 DEF Execute, Acquire, Waits, TypeOK, HandlerTypeOK
  <2> QED
    BY <1>3, <2>1 DEF WorkerDispatchRead
<1>4. CASE WorkerComplete
  BY <1>4 DEF WorkerComplete
<1>5. CASE WorkerDrained \/ WorkerTryDispatch \/ WorkerTick \/ WorkerResumed \/ WorkerFinishWrite \/ WorkerStop
  BY <1>5 DEF WorkerDrained, WorkerTryDispatch, WorkerTick, WorkerResumed, WorkerFinishWrite, WorkerStop, worker
<1>6. ASSUME NEW c \in PoolIds, Read(c)
      PROVE  NoStrandedDeferral'
  BY <1>6 DEF Read, ReaderStart, ReaderFinish, ReaderReturn, worker
<1>7. CASE UNCHANGED vars
  BY <1>7 DEF vars, worker
<1> QED
  BY <1>1, <1>2, <1>3, <1>4, <1>5, <1>6, <1>7 DEF Next, Work, Terminated

(* A deferred request always has a completion ahead of it.                  *)
THEOREM DeferredAreResumed == Spec => []NoStrandedDeferral
<1>1. Init => NoStrandedDeferral
  BY DEF Init, NoStrandedDeferral
<1> QED
  BY <1>1, StepStrandsNothing, TypeCorrect, PTL DEF Spec

-----------------------------------------------------------------------------
(* Where a pending call is.  Each queue has a number of messages about it,  *)
(* which a handler moves from one place to the next.                        *)

Number(queue, M) == Cardinality({i \in DOMAIN queue : queue[i] \in M})

(* One or none.                                                             *)
One(condition) == IF condition THEN 1 ELSE 0

(* Positions in a queue with one message more, or without its first one.    *)
LEMMA PositionsMoved ==
  ASSUME NEW n \in Nat, NEW P \in SUBSET (1..n)
  PROVE  /\ Cardinality(P) \in Nat
         /\ Cardinality(P \cup {n + 1}) = Cardinality(P) + 1
         /\ Cardinality({i \in 1..n - 1 : i + 1 \in P}) = Cardinality(P) - One(1 \in P)
<1>1. IsFiniteSet(P)
  <2>1. IsFiniteSet(1..n)
    BY FS_Interval
  <2> QED
    BY <2>1, FS_Subset
<1>2. Cardinality(P) \in Nat
  BY <1>1, FS_CardinalityType
<1>3. Cardinality(P \cup {n + 1}) = Cardinality(P) + 1
  BY <1>1, FS_AddElement
<1> DEFINE rest == P \ {1}
           shifted == {i \in 1..n - 1 : i + 1 \in P}
           f == [i \in rest |-> i - 1]
<1>4. IsFiniteSet(rest) /\ Cardinality(rest) = Cardinality(P) - One(1 \in P)
  BY <1>1, <1>2, FS_RemoveElement DEF One
<1>5. f \in Bijection(rest, shifted)
  <2>1. f \in [rest -> shifted] /\ \A i, j \in rest : f[i] = f[j] => i = j
    OBVIOUS
  <2>2. \A k \in shifted : k + 1 \in rest /\ f[k + 1] = k
    OBVIOUS
  <2> QED
    BY <2>1, <2>2 DEF Bijection, Injection, Surjection, IsInjective
<1>6. Cardinality(shifted) = Cardinality(rest)
  BY <1>4, <1>5, FS_Bijection DEF ExistsBijection
<1> QED
  BY <1>2, <1>3, <1>4, <1>6

LEMMA NumberAppended ==
  ASSUME NEW S, NEW q \in Seq(S), NEW m \in S, NEW M
  PROVE  /\ Number(q, M) \in Nat
         /\ Number(Append(q, m), M) = Number(q, M) + One(m \in M)
<1> DEFINE n == Len(q)
           P == {i \in DOMAIN q : q[i] \in M}
<1>1. n \in Nat /\ P \subseteq 1..n /\ DOMAIN q = 1..n /\ DOMAIN Append(q, m) = 1..n + 1
  OBVIOUS
<1>2. (\A i \in 1..n : Append(q, m)[i] = q[i]) /\ Append(q, m)[n + 1] = m
  OBVIOUS
<1>3. {i \in DOMAIN Append(q, m) : Append(q, m)[i] \in M} = IF m \in M THEN P \cup {n + 1} ELSE P
  <2>1. \A i : i \in 1..n + 1 <=> i \in 1..n \/ i = n + 1
    BY <1>1
  <2>2. n + 1 \notin 1..n
    BY <1>1
  <2> QED
    BY <1>1, <1>2, <2>1, <2>2
<1> HIDE DEF n, P
<1>4. Cardinality(P) \in Nat /\ Cardinality(P \cup {n + 1}) = Cardinality(P) + 1
  BY <1>1, PositionsMoved
<1>5. Number(q, M) = Cardinality(P)
  BY DEF Number, P
<1>6. Number(Append(q, m), M) = Cardinality(IF m \in M THEN P \cup {n + 1} ELSE P)
  BY <1>3 DEF Number
<1> QED
  BY <1>4, <1>5, <1>6 DEF One

LEMMA NumberTaken ==
  ASSUME NEW S, NEW q \in Seq(S), q # <<>>, NEW M
  PROVE  /\ Number(q, M) \in Nat
         /\ Number(Tail(q), M) = Number(q, M) - One(Head(q) \in M)
<1> DEFINE n == Len(q)
           P == {i \in DOMAIN q : q[i] \in M}
<1>1. n \in Nat /\ n > 0 /\ P \subseteq 1..n /\ DOMAIN q = 1..n /\ DOMAIN Tail(q) = 1..n - 1
  OBVIOUS
<1>2. (\A i \in 1..n - 1 : Tail(q)[i] = q[i + 1]) /\ Head(q) = q[1]
  OBVIOUS
<1>3. {i \in DOMAIN Tail(q) : Tail(q)[i] \in M} = {i \in 1..n - 1 : i + 1 \in P}
  BY <1>1, <1>2
<1>4. 1 \in P <=> Head(q) \in M
  BY <1>1, <1>2
<1>5. Number(q, M) = Cardinality(P)
  BY DEF Number
<1> HIDE DEF n, P
<1>6. /\ Cardinality(P) \in Nat
      /\ Cardinality({i \in 1..n - 1 : i + 1 \in P}) = Cardinality(P) - One(1 \in P)
  BY <1>1, PositionsMoved
<1>7. Number(Tail(q), M) = Cardinality({i \in 1..n - 1 : i + 1 \in P})
  BY <1>3 DEF Number
<1>8. One(1 \in P) = One(Head(q) \in M)
  BY <1>4 DEF One
<1> QED
  BY <1>5, <1>6, <1>7, <1>8

(* No message of a queue is in a set exactly if its number is zero.         *)
LEMMA NumberZero ==
  ASSUME NEW S, NEW q \in Seq(S), NEW M
  PROVE  /\ Number(q, M) \in Nat
         /\ Number(q, M) = 0 <=> \A i \in DOMAIN q : q[i] \notin M
<1> DEFINE P == {i \in DOMAIN q : q[i] \in M}
<1>1. Len(q) \in Nat /\ P \in SUBSET (1..Len(q))
  OBVIOUS
<1>2. IsFiniteSet(P)
  <2>1. IsFiniteSet(1..Len(q))
    BY <1>1, FS_Interval
  <2> HIDE DEF P
  <2> QED
    BY <1>1, <2>1, FS_Subset
<1>3. Cardinality(P) \in Nat /\ (Cardinality(P) = 0 <=> P = {})
  <2> HIDE DEF P
  <2> QED
    BY <1>2, FS_CardinalityType, FS_EmptySet
<1>4. P = {} <=> \A i \in DOMAIN q : q[i] \notin M
  OBVIOUS
<1> QED
  BY <1>3, <1>4 DEF Number

LEMMA NumberOfNone == ASSUME NEW M PROVE Number(<<>>, M) = 0
<1>1. DOMAIN <<>> = {}
  OBVIOUS
<1>2. {i \in DOMAIN <<>> : <<>>[i] \in M} = {}
  BY <1>1
<1> QED
  BY <1>2, FS_EmptySet DEF Number

(* The messages about a call, and the requests for settings among them.     *)
About(c) == {m \in Jobs \cup Outbound : m.call = c}
Settings(c) == {[type |-> "settings", call |-> c]}

Held(c) == One(pool[c] \in {"queued", "running"})
Waiting(c) == Number(jobs, About(c)) + Number(batch, About(c))
                + Number(pendingReads, About(c)) + Number(deferred, About(c))
Places(c) == Waiting(c) + Number(outq, About(c)) + Number(respq, {c}) + Held(c)

(* An open call is in one place; a reader that has it, or has had it,       *)
(* leaves nothing behind but a response.                                    *)
Unanswered(c) ==
  /\ Places(c) = 1
  /\ pool[c] # "none" => Waiting(c) = 0 /\ Number(outq, Settings(c)) = 0

Unused(c) == Places(c) = 0 /\ pool[c] = "none"

(* The worker has no jobs left to resume when another completion comes.     *)
BatchIsResumed == batch # <<>> => wpc = "resume" \/ (wpc = "writing" /\ then = "resume")

PlacesInv ==
  /\ \A c \in Calls : c \in pending => Unanswered(c)
  /\ \A c \in Calls : c > next => Unused(c)
  /\ BatchIsResumed

Counted(c) ==
  /\ Number(jobs, About(c)) \in Nat /\ Number(batch, About(c)) \in Nat
  /\ Number(pendingReads, About(c)) \in Nat /\ Number(deferred, About(c)) \in Nat
  /\ Number(outq, About(c)) \in Nat /\ Number(outq, Settings(c)) \in Nat
  /\ Number(respq, {c}) \in Nat

LEMMA NumbersTyped ==
  ASSUME TypeOK, NEW c \in Calls
  PROVE  Counted(c)
BY NumberZero DEF TypeOK, HandlerTypeOK, Counted

LEMMA NumbersTypedNext ==
  ASSUME TypeOK', NEW c \in Calls
  PROVE  Counted(c)' /\ Held(c)' \in {0, 1}
<1>1. Counted(c)'
  BY NumberZero DEF TypeOK, HandlerTypeOK, Counted
<1> QED
  BY <1>1 DEF Held, One

(* A call with no place is in none of the queues.                           *)
LEMMA PlacesCounted ==
  ASSUME TypeOK, NEW c \in Calls
  PROVE  /\ Counted(c) /\ Held(c) \in {0, 1} /\ Waiting(c) \in Nat /\ Places(c) \in Nat
         /\ Places(c) = 0 =>
              Waiting(c) = 0 /\ Number(outq, About(c)) = 0 /\ Number(respq, {c}) = 0
         /\ Waiting(c) = 0 =>
              /\ Number(jobs, About(c)) = 0 /\ Number(batch, About(c)) = 0
              /\ Number(pendingReads, About(c)) = 0 /\ Number(deferred, About(c)) = 0
<1>1. Counted(c) /\ Held(c) \in {0, 1}
  BY NumbersTyped DEF Held, One
<1>2. /\ Waiting(c) \in Nat
      /\ Waiting(c) = 0 =>
           /\ Number(jobs, About(c)) = 0 /\ Number(batch, About(c)) = 0
           /\ Number(pendingReads, About(c)) = 0 /\ Number(deferred, About(c)) = 0
  BY <1>1 DEF Counted, Waiting
<1>3. /\ Places(c) \in Nat
      /\ Places(c) = 0 =>
           Waiting(c) = 0 /\ Number(outq, About(c)) = 0 /\ Number(respq, {c}) = 0
  BY <1>1, <1>2 DEF Counted, Places
<1> QED
  BY <1>1, <1>2, <1>3

LEMMA ReadersApart ==
  /\ \A c \in Calls : c \in PoolIds /\ c # Analyze
  /\ Analyze \in PoolIds /\ \A c \in PoolIds : c = Analyze \/ c \in Calls
BY ConstantsAssumption DEF PoolIds, Calls, Analyze

(* What becomes of a job that carries a request: dropped, deferred,         *)
(* answered or sent back, or given to a reader.                             *)
Served(j) ==
  \/ Gone(j) /\ UNCHANGED <<outq, reader, deferred>>
  \/ ~Gone(j) /\ deferred' = Append(deferred, j) /\ UNCHANGED <<outq, reader>>
  \/ /\ ~Gone(j)
     /\ \E type \in {"response", "settings"} : outq' = Append(outq, [type |-> type, call |-> j.call])
     /\ UNCHANGED <<reader, deferred>>
  \/ ~Gone(j) /\ Spawn(j.call) /\ UNCHANGED deferred

LEMMA ExecuteServes ==
  ASSUME NEW j, NEW back, Execute(j, back)
  PROVE  Served(j)
BY DEF Execute, Served, Acquire, Serve, Send, Spawn

(* Other calls are left where they are; an open call gets to one place.     *)
LEMMA ServedNumbers ==
  ASSUME HandlerTypeOK, NEW j \in RequestJobs, Served(j), NEW c \in Calls
  PROVE  /\ j.call # c \/ c \notin pending =>
              /\ Number(outq', About(c)) = Number(outq, About(c))
              /\ Number(outq', Settings(c)) = Number(outq, Settings(c))
              /\ Number(deferred', About(c)) = Number(deferred, About(c))
              /\ pool'[c] = pool[c]
         /\ j.call = c /\ c \in pending /\ pool[c] = "none" =>
              \/ /\ Number(outq', About(c)) = Number(outq, About(c)) + 1
                 /\ deferred' = deferred /\ pool'[c] = "none"
              \/ /\ Number(deferred', About(c)) = Number(deferred, About(c)) + 1
                 /\ outq' = outq /\ pool'[c] = "none"
              \/ pool'[c] = "queued" /\ outq' = outq /\ deferred' = deferred
<1>1. outq \in Seq(Outbound) /\ deferred \in Seq(RequestJobs)
      /\ pool \in [PoolIds -> {"none", "queued", "running", "done"}]
      /\ j.call \in Calls /\ j \in Jobs /\ c \in PoolIds /\ j.call \in PoolIds
  BY ReadersApart DEF HandlerTypeOK, RequestJobs, Jobs
<1>2. CASE Gone(j) /\ UNCHANGED <<outq, reader, deferred>>
  BY <1>2 DEF Gone, reader
<1>3. CASE ~Gone(j) /\ deferred' = Append(deferred, j) /\ UNCHANGED <<outq, reader>>
  <2>1. Number(deferred', About(c)) = Number(deferred, About(c)) + One(j \in About(c))
        /\ Number(deferred, About(c)) \in Nat
    BY <1>1, <1>3, NumberAppended
  <2>2. j \in About(c) <=> j.call = c
    BY <1>1 DEF About
  <2> QED
    BY <1>3, <2>1, <2>2 DEF One, Gone, reader
<1>4. ASSUME ~Gone(j), NEW type \in {"response", "settings"},
             outq' = Append(outq, [type |-> type, call |-> j.call]),
             UNCHANGED <<reader, deferred>>
      PROVE  /\ j.call # c \/ c \notin pending =>
                  /\ Number(outq', About(c)) = Number(outq, About(c))
                  /\ Number(outq', Settings(c)) = Number(outq, Settings(c))
             /\ j.call = c => Number(outq', About(c)) = Number(outq, About(c)) + 1
             /\ deferred' = deferred /\ pool' = pool
  <2> DEFINE m == [type |-> type, call |-> j.call]
  <2>1. m \in Outbound
    BY <1>1 DEF Outbound
  <2>2. /\ Number(outq', About(c)) = Number(outq, About(c)) + One(m \in About(c))
        /\ Number(outq, About(c)) \in Nat
        /\ Number(outq', Settings(c)) = Number(outq, Settings(c)) + One(m \in Settings(c))
        /\ Number(outq, Settings(c)) \in Nat
    BY <1>1, <1>4, <2>1, NumberAppended
  <2>3. (m \in About(c) <=> j.call = c) /\ (m \in Settings(c) => j.call = c)
    BY <2>1 DEF About, Settings
  <2> HIDE DEF m
  <2> QED
    BY <1>4, <2>2, <2>3 DEF One, Gone, reader
<1>5. CASE ~Gone(j) /\ Spawn(j.call) /\ UNCHANGED deferred
  <2>1. pool'[c] = IF j.call = c THEN "queued" ELSE pool[c]
    BY <1>1, <1>5 DEF Spawn
  <2> QED
    BY <1>5, <2>1 DEF Spawn, Gone
<1> QED
  BY <1>1, <1>2, <1>3, <1>4, <1>5 DEF Served, reader

(* A job, other than a request's, leaves the places alone.                  *)
LEMMA HandleServes ==
  ASSUME HandlerTypeOK, NEW j \in Jobs, NEW back \in {"drain", "resume"}, Handle(j, back)
  PROVE  /\ \/ j.type \notin RequestTypes /\ UNCHANGED <<outq, reader, deferred, pendingReads>>
            \/ j \in RequestJobs /\ Served(j) /\ UNCHANGED pendingReads
            \/ /\ j \in RequestJobs /\ ~Gone(j)
               /\ pendingReads' = Append(pendingReads, j)
               /\ UNCHANGED <<outq, reader, deferred>>
         /\ wpc' = back \/ (wpc' = "writing" /\ then' = back)
<1>1. CASE j.type \in RequestTypes /\ HandleRequest(j, back)
  <2>1. j \in RequestJobs
    BY <1>1 DEF Jobs, RequestJobs, RequestTypes
  <2>2. CASE Queues(j) /\ Acquire(j, back) /\ UNCHANGED pendingReads
    BY <2>1, <2>2 DEF Acquire, Served, Queues, Writes
  <2>3. CASE Execute(j, back) /\ UNCHANGED pendingReads
    BY <2>1, <2>3, ExecuteServes DEF Execute, Acquire, Goes, Writes
  <2>4. CASE Queues(j) /\ pendingReads' = Append(pendingReads, j) /\ Goes(back)
             /\ UNCHANGED <<outq, reader, deferred>>
    BY <2>1, <2>4 DEF Queues, Goes
  <2> QED
    BY <1>1, <2>2, <2>3, <2>4 DEF HandleRequest
<1>2. CASE j.type = "edit" /\ HandleEdit(back)
  BY <1>2 DEF HandleEdit, Writes, RequestTypes
<1>3. CASE j.type = "roots" /\ HandleRoots(back)
  BY <1>3 DEF HandleRoots, Writes, RequestTypes
<1> QED
  BY <1>1, <1>2, <1>3 DEF Handle

LEMMA HandledNumbers ==
  ASSUME TypeOK, NEW j \in Jobs, NEW back \in {"drain", "resume"}, Handle(j, back), NEW c \in Calls
  PROVE  /\ j.call # c \/ c \notin pending =>
              /\ Number(outq', About(c)) = Number(outq, About(c))
              /\ Number(outq', Settings(c)) = Number(outq, Settings(c))
              /\ Number(deferred', About(c)) = Number(deferred, About(c))
              /\ Number(pendingReads', About(c)) = Number(pendingReads, About(c))
              /\ pool'[c] = pool[c]
         /\ j.call = c /\ c \in pending /\ pool[c] = "none" =>
              /\ Number(outq', About(c)) + Number(deferred', About(c))
                   + Number(pendingReads', About(c)) + Held(c)'
                 = Number(outq, About(c)) + Number(deferred, About(c))
                     + Number(pendingReads, About(c)) + Held(c) + 1
              /\ pool'[c] # "none" =>
                   UNCHANGED <<outq, deferred, pendingReads>>
<1>1. HandlerTypeOK /\ pendingReads \in Seq(RequestJobs)
  BY DEF TypeOK, HandlerTypeOK
<1>2. /\ Number(pendingReads, About(c)) \in Nat /\ Number(deferred, About(c)) \in Nat
      /\ Number(outq, About(c)) \in Nat /\ Number(outq, Settings(c)) \in Nat
  BY NumbersTyped DEF Counted
<1>3. CASE j.type \notin RequestTypes /\ UNCHANGED <<outq, reader, deferred, pendingReads>>
  <2>1. j.call = 0 /\ c # 0
    BY <1>3 DEF Jobs, RequestJobs, Calls
  <2> QED
    BY <1>3, <2>1 DEF reader
<1>4. CASE j \in RequestJobs /\ Served(j) /\ UNCHANGED pendingReads
  <2>1. CASE j.call # c \/ c \notin pending
    BY <1>1, <1>4, <2>1, ServedNumbers
  <2>2. CASE j.call = c /\ c \in pending /\ pool[c] = "none"
    <3>1. Held(c) = 0 /\ pendingReads' = pendingReads
      BY <1>4, <2>2 DEF Held, One
    <3>2. CASE /\ Number(outq', About(c)) = Number(outq, About(c)) + 1
               /\ deferred' = deferred /\ pool'[c] = "none"
      <4>1. Held(c)' = 0
        BY <3>2 DEF Held, One
      <4> QED
        BY <1>2, <2>2, <3>1, <3>2, <4>1
    <3>3. CASE /\ Number(deferred', About(c)) = Number(deferred, About(c)) + 1
               /\ outq' = outq /\ pool'[c] = "none"
      <4>1. Held(c)' = 0
        BY <3>3 DEF Held, One
      <4> QED
        BY <1>2, <2>2, <3>1, <3>3, <4>1
    <3>4. CASE pool'[c] = "queued" /\ outq' = outq /\ deferred' = deferred
      <4>1. Held(c)' = 1
        BY <3>4 DEF Held, One
      <4> QED
        BY <1>2, <2>2, <3>1, <3>4, <4>1
    <3> QED
      BY <1>1, <1>4, <2>2, <3>2, <3>3, <3>4, ServedNumbers
  <2> QED
    BY <2>1, <2>2
<1>5. CASE /\ j \in RequestJobs /\ ~Gone(j)
           /\ pendingReads' = Append(pendingReads, j)
           /\ UNCHANGED <<outq, reader, deferred>>
  <2>1. Number(pendingReads', About(c)) = Number(pendingReads, About(c)) + One(j \in About(c))
    BY <1>1, <1>5, NumberAppended
  <2>2. j \in About(c) <=> j.call = c
    BY DEF About
  <2> QED
    BY <1>2, <1>5, <2>1, <2>2 DEF One, Gone, reader, Held
<1> QED
  BY <1>1, <1>3, <1>4, <1>5, HandleServes

(* A call that takes no part in a step stays as it was.                     *)
LEMMA CallStays ==
  ASSUME NEW c, UNCHANGED <<jobs, batch, pendingReads, deferred, outq, respq, pool>>
  PROVE  (Unanswered(c) => Unanswered(c)') /\ (Unused(c) => Unused(c)')
BY DEF Unanswered, Unused, Places, Waiting, Held

LEMMA MainKeepsPlaces ==
  ASSUME TypeOK, LedgerInv, PlacesInv, Main
  PROVE  PlacesInv'
<1> USE DEF PlacesInv
<1>0. worker' = worker /\ reader' = reader /\ UNCHANGED <<wpc, then>>
  BY DEF Main, Receive, Cancel, Shutdown, Change, Exit, TakeResponse, TakeOutbound
<1>1. BatchIsResumed'
  BY <1>0 DEF BatchIsResumed, worker
<1>2. UNCHANGED <<batch, pendingReads, deferred, pool>>
  BY <1>0 DEF worker, reader
<1>3. /\ next \in 0..MaxCalls + 1 /\ pending \subseteq 1..next /\ pending \subseteq Calls
      /\ (lifecycle = "ShuttingDown" => pending = {})
      /\ jobs \in Seq(Jobs) /\ outq \in Seq(Outbound) /\ respq \in Seq(Calls)
  BY DEF LedgerInv, LedgerTypeOK, LedgerConsistent, TypeOK, HandlerTypeOK
<1>4. ASSUME NEW w \in Wire, NEW kind \in Kinds, Receive(w, kind)
      PROVE  PlacesInv'
  <2>1. /\ next' = next + 1 /\ pending' = pending \cup {next + 1}
        /\ next + 1 \in Calls /\ next + 1 > next /\ UNCHANGED outq
    BY <1>3, <1>4, ConstantsAssumption DEF Receive, LedgerReceive, Calls
  <2>2. CASE kind = "immediate"
    <3>1. respq' = Append(respq, next + 1) /\ UNCHANGED jobs
      BY <1>4, <2>1, <2>2 DEF Receive
    <3>2. ASSUME NEW c \in Calls
          PROVE  Number(respq', {c}) = Number(respq, {c}) + One(next + 1 = c)
      BY <1>3, <2>1, <3>1, NumberAppended DEF One
    <3>3. ASSUME NEW c \in Calls
          PROVE  /\ c # next + 1 => UNCHANGED <<Places(c), Waiting(c)>>
                 /\ c = next + 1 => Places(c)' = Places(c) + 1
      <4>1. UNCHANGED <<Waiting(c), Held(c)>>
        BY <1>2, <3>1 DEF Waiting, Held
      <4> QED
        BY <2>1, <3>2, <4>1, PlacesCounted DEF Counted, Places, One
    <3> QED
      BY <1>1, <1>2, <1>3, <2>1, <3>3 DEF Unanswered, Unused, Calls
  <2>3. CASE kind # "immediate"
    <3> DEFINE j == Job(kind, next + 1)
    <3>1. jobs' = Append(jobs, j) /\ UNCHANGED respq
      BY <1>4, <2>1, <2>3 DEF Receive
    <3>2. j \in Jobs /\ j.call = next + 1
      BY <2>1, <2>3, ConstantsAssumption DEF Job, Jobs, RequestJobs, RequestTypes, AllKinds
    <3>3. ASSUME NEW c \in Calls
          PROVE  Number(jobs', About(c)) = Number(jobs, About(c)) + One(next + 1 = c)
      <4>1. j \in About(c) <=> next + 1 = c
        BY <3>2 DEF About
      <4> HIDE DEF j
      <4> QED
        BY <1>3, <3>1, <3>2, <4>1, NumberAppended DEF One
    <3> HIDE DEF j
    <3>4. ASSUME NEW c \in Calls
          PROVE  /\ c # next + 1 => UNCHANGED <<Places(c), Waiting(c)>>
                 /\ c = next + 1 => Places(c)' = Places(c) + 1
      <4>1. Waiting(c)' = Waiting(c) + One(next + 1 = c)
        <5>1. One(next + 1 = c) \in Nat
          BY DEF One
        <5>2. Counted(c)
          BY PlacesCounted
        <5> QED
          BY <1>2, <3>3, <5>1, <5>2 DEF Counted, Waiting
      <4>2. Held(c)' = Held(c)
        BY <1>2 DEF Held
      <4> QED
        BY <2>1, <3>1, <4>1, <4>2, PlacesCounted DEF Counted, Places, One
    <3> QED
      BY <1>1, <1>2, <1>3, <2>1, <3>4 DEF Unanswered, Unused, Calls
  <2> QED
    BY <2>2, <2>3
<1>5. ASSUME NEW w \in Wire, Cancel(w) \/ Shutdown(w)
      PROVE  PlacesInv'
  <2>1. pending' \subseteq pending /\ next' >= next /\ UNCHANGED <<jobs, outq, respq>>
    BY <1>3, <1>5 DEF Cancel, Shutdown, LedgerComplete, LedgerDrain
  <2> QED
    BY <1>1, <1>2, <1>3, <1>5, <2>1, CallStays DEF Cancel, Shutdown, LedgerComplete, LedgerDrain, Calls
<1>6. ASSUME NEW t \in {"edit", "roots"}, Change(t)
      PROVE  PlacesInv'
  <2>1. jobs' = Append(jobs, Job(t, 0)) /\ UNCHANGED <<outq, respq, ledger>> /\ Job(t, 0) \in Jobs
    BY <1>6 DEF Change, Job, Jobs
  <2>2. ASSUME NEW c \in Calls
        PROVE  Number(jobs', About(c)) = Number(jobs, About(c))
    <3>1. Job(t, 0) \notin About(c)
      BY DEF About, Job, Calls
    <3>2. Number(jobs, About(c)) \in Nat
      BY NumbersTyped DEF Counted
    <3> QED
      BY <1>3, <2>1, <3>1, <3>2, NumberAppended DEF One
  <2> QED
    BY <1>1, <1>2, <2>1, <2>2 DEF Unanswered, Unused, Places, Waiting, Held, ledger
<1>7. CASE Exit
  BY <1>1, <1>2, <1>7, CallStays DEF Exit, ledger
<1>8. CASE TakeResponse
  <2>1. /\ respq # <<>> /\ respq' = Tail(respq) /\ UNCHANGED <<jobs, outq>>
        /\ next' = next
        /\ pending' = pending \ {Head(respq)} \/ (pending' = pending /\ Head(respq) \notin pending)
    <3>1. CASE Running /\ Head(respq) \in pending
      BY <1>8, <3>1 DEF TakeResponse, LedgerComplete
    <3>2. CASE ~(Running /\ Head(respq) \in pending)
      BY <1>3, <1>8, <3>2 DEF TakeResponse, ledger, Running, LedgerInv, LedgerTypeOK
    <3> QED
      BY <3>1, <3>2
  <2>2. ASSUME NEW c \in Calls
        PROVE  Number(respq', {c}) = Number(respq, {c}) - One(Head(respq) = c)
    BY <1>3, <2>1, NumberTaken DEF One
  <2>3. Head(respq) \in Calls
    BY <1>3, <2>1
  <2>4. ASSUME NEW c \in Calls, c \in pending'
        PROVE  Unanswered(c)'
    <3>1. c \in pending /\ Head(respq) # c
      BY <2>1, <2>4
    <3>2. Number(respq', {c}) = Number(respq, {c})
      BY <2>2, <3>1, NumbersTyped DEF Counted, One
    <3> QED
      BY <1>2, <2>1, <3>1, <3>2 DEF Unanswered, Places, Waiting, Held
  <2>5. ASSUME NEW c \in Calls, c > next
        PROVE  Unused(c)'
    <3>1. Places(c) = 0 /\ pool[c] = "none"
      BY <2>5 DEF Unused
    <3>2. Number(respq, {c}) = 0
      BY <3>1, NumbersTyped DEF Counted, Places, Waiting, Held, One
    <3>3. \A i \in DOMAIN respq : respq[i] # c
      BY <1>3, <3>2, NumberZero
    <3>4. Head(respq) # c
      BY <1>3, <2>1, <3>3
    <3>5. Number(respq', {c}) = Number(respq, {c})
      BY <2>2, <3>2, <3>4 DEF One
    <3> QED
      BY <1>2, <2>1, <3>1, <3>5 DEF Unused, Places, Waiting, Held
  <2> QED
    BY <1>1, <2>1, <2>4, <2>5
<1>9. CASE TakeOutbound
  <2> DEFINE m == Head(outq)
  <2>1. outq # <<>> /\ outq' = Tail(outq) /\ m \in Outbound /\ UNCHANGED ledger
    BY <1>3, <1>9 DEF TakeOutbound
  <2>2. ASSUME NEW c \in Calls
        PROVE  /\ Number(outq', About(c)) = Number(outq, About(c)) - One(m.call = c)
               /\ Number(outq', Settings(c))
                    = Number(outq, Settings(c)) - One(m.call = c /\ m.type = "settings")
    <3>1. (m \in About(c) <=> m.call = c)
          /\ (m \in Settings(c) <=> m.call = c /\ m.type = "settings")
      BY <2>1 DEF About, Settings, Outbound
    <3> HIDE DEF m
    <3>2. /\ Number(outq', About(c)) = Number(outq, About(c)) - One(m \in About(c))
          /\ Number(outq', Settings(c)) = Number(outq, Settings(c)) - One(m \in Settings(c))
      BY <1>3, <2>1, NumberTaken DEF m
    <3> QED
      BY <3>1, <3>2 DEF One
  <2>3. m.call \in Calls /\ m.type \in {"response", "settings"}
    BY <2>1 DEF Outbound
  <2>3a. ASSUME NEW c \in Calls, c > next
        PROVE  m.call # c
    <3>1. Number(outq, About(c)) = 0
      BY <2>3a, PlacesCounted DEF Unused
    <3>2. outq[1] \notin About(c)
      BY <1>3, <2>1, <3>1, NumberZero
    <3> QED
      BY <1>3, <2>1, <3>2 DEF About
  <2> HIDE DEF m
  <2>4. CASE ~Running /\ UNCHANGED <<jobs, respq>>
    <3>1. lifecycle = "ShuttingDown"
      BY <1>9, <2>4 DEF TakeOutbound, Running, LedgerInv, LedgerTypeOK
    <3>2. pending' = {} /\ next' = next
      BY <1>3, <2>1, <3>1 DEF ledger
    <3>3. ASSUME NEW c \in Calls, c > next
          PROVE  Unused(c)'
      <4>1. m.call # c /\ Unused(c)
        BY <2>3a, <3>3
      <4>2. Number(outq, About(c)) \in Nat
        BY NumbersTyped DEF Counted
      <4>3. Number(outq', About(c)) = Number(outq, About(c))
        BY <2>2, <4>1, <4>2 DEF One
      <4> QED
        BY <1>2, <2>4, <4>1, <4>3 DEF Unused, Places, Waiting, Held
    <3> QED
      BY <1>1, <3>2, <3>3
  <2>5. CASE m.type = "response" /\ respq' = Append(respq, m.call) /\ UNCHANGED jobs
    <3>1. ASSUME NEW c \in Calls
          PROVE  Number(respq', {c}) = Number(respq, {c}) + One(m.call = c)
      <4>1. m.call \in {c} <=> m.call = c
        OBVIOUS
      <4>2. Number(respq', {c}) = Number(respq, {c}) + One(m.call \in {c})
        BY <1>3, <2>3, <2>5, NumberAppended
      <4> QED
        BY <4>1, <4>2 DEF One
    <3>2. ASSUME NEW c \in Calls
          PROVE  /\ UNCHANGED <<Places(c), Waiting(c)>>
                 /\ Number(outq', Settings(c)) = Number(outq, Settings(c))
      <4>1. UNCHANGED <<Waiting(c), Held(c)>>
        BY <1>2, <2>5 DEF Waiting, Held
      <4>2. ~(m.call = c /\ m.type = "settings")
        BY <2>5
      <4> QED
        BY <2>2, <3>1, <4>1, <4>2, PlacesCounted DEF Counted, Places, One
    <3> QED
      BY <1>1, <1>2, <2>1, <3>2 DEF Unanswered, Unused, ledger
  <2>6. CASE m.type = "settings" /\ jobs' = Append(jobs, Job("report", m.call)) /\ UNCHANGED respq
    <3>1. ASSUME NEW c \in Calls
          PROVE  Number(jobs', About(c)) = Number(jobs, About(c)) + One(m.call = c)
      <4>1. Job("report", m.call) \in Jobs /\ (Job("report", m.call) \in About(c) <=> m.call = c)
        BY <2>3 DEF Job, Jobs, RequestJobs, RequestTypes, About
      <4> QED
        BY <1>3, <2>6, <4>1, NumberAppended DEF One
    <3>2. ASSUME NEW c \in Calls
          PROVE  /\ Places(c)' = Places(c)
                 /\ m.call # c => Waiting(c)' = Waiting(c)
                 /\ m.call = c => Number(outq', Settings(c)) = Number(outq, Settings(c)) - 1
                 /\ m.call # c => Number(outq', Settings(c)) = Number(outq, Settings(c))
      <4>1. Waiting(c)' = Waiting(c) + One(m.call = c)
        <5>1. One(m.call = c) \in Nat
          BY DEF One
        <5>2. Counted(c)
          BY PlacesCounted
        <5> QED
          BY <1>2, <3>1, <5>1, <5>2 DEF Counted, Waiting
      <4>2. Held(c)' = Held(c)
        BY <1>2 DEF Held
      <4> QED
        BY <2>2, <2>6, <4>1, <4>2, PlacesCounted DEF Counted, Places, One
    <3>3. ASSUME NEW c \in Calls, c \in pending
          PROVE  Unanswered(c)'
      <4>1. CASE m.call = c
        <5>1. Number(outq, Settings(c)) # 0
          <6>1. Number(outq, Settings(c)) - 1 \in Nat
            <7>1. outq' \in Seq(Outbound)
              BY <1>3, <2>1
            <7> QED
              BY <3>2, <4>1, <7>1, NumberZero
          <6> QED
            BY <6>1, NumbersTyped DEF Counted
        <5>2. pool[c] = "none"
          BY <3>3, <5>1 DEF Unanswered
        <5> QED
          BY <1>2, <3>2, <3>3, <5>2 DEF Unanswered
      <4> QED
        BY <1>2, <3>2, <3>3, <4>1 DEF Unanswered
    <3>4. ASSUME NEW c \in Calls, c > next
          PROVE  Unused(c)'
      BY <1>2, <3>2, <3>4 DEF Unused
    <3> QED
      BY <1>1, <2>1, <3>3, <3>4 DEF ledger
  <2> QED
    BY <1>9, <2>4, <2>5, <2>6 DEF TakeOutbound, m
<1> QED
  BY <1>4, <1>5, <1>6, <1>7, <1>8, <1>9 DEF Main

(* What is known of a call with a job in one of the worker's queues.        *)
LEMMA WaitingCall ==
  ASSUME TypeOK, PlacesInv, NEW c \in Calls, Waiting(c) # 0
  PROVE  /\ ~(c > next)
         /\ c \in pending =>
              /\ Waiting(c) = 1 /\ pool[c] = "none" /\ Places(c) = 1
              /\ Number(outq, About(c)) = 0 /\ Number(outq, Settings(c)) = 0
<1>1. Waiting(c) \in Nat /\ Places(c) \in Nat /\ Counted(c) /\ Held(c) \in {0, 1}
      /\ (Places(c) = 0 => Waiting(c) = 0)
  BY PlacesCounted
<1>2. ~(c > next)
  BY <1>1 DEF PlacesInv, Unused
<1>3. ASSUME c \in pending
      PROVE  /\ Waiting(c) = 1 /\ pool[c] = "none" /\ Places(c) = 1
             /\ Number(outq, About(c)) = 0
  <2>1. Places(c) = 1 /\ pool[c] = "none"
    BY <1>3 DEF PlacesInv, Unanswered
  <2>2. Waiting(c) = 1 /\ Number(outq, About(c)) = 0
    BY <1>1, <2>1 DEF Places, Counted
  <2> QED
    BY <2>1, <2>2
<1>4. ASSUME Number(outq, About(c)) = 0
      PROVE  Number(outq, Settings(c)) = 0
  <2>1. outq \in Seq(Outbound)
    BY DEF TypeOK, HandlerTypeOK
  <2>2. \A i \in DOMAIN outq : outq[i] \notin About(c)
    BY <1>4, <2>1, NumberZero
  <2>3. \A i \in DOMAIN outq : outq[i] \in Outbound
    BY <2>1
  <2>4. \A i \in DOMAIN outq : outq[i] \notin Settings(c)
    BY <2>2, <2>3 DEF About, Settings
  <2> QED
    BY <2>1, <2>4, NumberZero
<1> QED
  BY <1>2, <1>3, <1>4

(* A job leaves one of the worker's queues for another place.               *)
LEMMA JobMoves ==
  ASSUME TypeOK, TypeOK', PlacesInv, NEW j, NEW c \in Calls,
         UNCHANGED <<next, pending, respq>>,
         j.call = c => Waiting(c) # 0,
         j.call # c \/ c \notin pending =>
           /\ Waiting(c)' = Waiting(c) - One(j.call = c)
           /\ Number(outq', About(c)) = Number(outq, About(c))
           /\ Number(outq', Settings(c)) = Number(outq, Settings(c))
           /\ pool'[c] = pool[c],
         j.call = c /\ c \in pending =>
           /\ Places(c)' = Places(c)
           /\ pool'[c] # "none" => outq' = outq /\ Waiting(c)' = Waiting(c) - 1
  PROVE  (c \in pending => Unanswered(c)') /\ (c > next => Unused(c)')
<1>1. Waiting(c) \in Nat /\ Places(c) \in Nat /\ Counted(c) /\ Held(c) \in {0, 1}
  BY PlacesCounted
<1>2. CASE j.call # c
  <2>1. Waiting(c)' = Waiting(c) - 0 /\ Held(c)' = Held(c)
    BY <1>2 DEF One, Held
  <2>2. Waiting(c)' = Waiting(c)
    BY <1>1, <2>1
  <2>3. Places(c)' = Places(c)
    BY <1>2, <2>1, <2>2 DEF Places
  <2> QED
    BY <1>2, <2>2, <2>3 DEF PlacesInv, Unanswered, Unused
<1>3. CASE j.call = c
  <2>1. ~(c > next)
    BY <1>3, WaitingCall
  <2>2. ASSUME c \in pending
        PROVE  Unanswered(c)'
    <3>1. Waiting(c) = 1 /\ Places(c) = 1 /\ Number(outq, Settings(c)) = 0
      BY <1>3, <2>2, WaitingCall
    <3> QED
      BY <1>3, <2>2, <3>1 DEF Unanswered
  <2> QED
    BY <2>1, <2>2
<1> QED
  BY <1>2, <1>3

(* A job handled from the channel or from the deferred ones.                *)
LEMMA HandledMoves ==
  ASSUME TypeOK, TypeOK', PlacesInv, NEW j \in Jobs, NEW back \in {"drain", "resume"},
         Handle(j, back), UNCHANGED <<next, pending, respq>>, NEW c \in Calls,
         Number(jobs', About(c)) + Number(batch', About(c))
           = (Number(jobs, About(c)) + Number(batch, About(c))) - One(j.call = c)
  PROVE  (c \in pending => Unanswered(c)') /\ (c > next => Unused(c)')
<1> DEFINE q == Number(jobs, About(c)) + Number(batch, About(c))
           p == Number(pendingReads, About(c))
           d == Number(deferred, About(c))
           o == Number(outq, About(c))
           r == Number(respq, {c})
           h == Held(c)
           k == One(j.call = c)
           s == o + d + p + h
           q1 == Number(jobs', About(c)) + Number(batch', About(c))
           p1 == Number(pendingReads', About(c))
           d1 == Number(deferred', About(c))
           o1 == Number(outq', About(c))
           r1 == Number(respq', {c})
           h1 == Held(c)'
           s1 == o1 + d1 + p1 + h1
<1>1. /\ q \in Nat /\ p \in Nat /\ d \in Nat /\ o \in Nat /\ r \in Nat /\ h \in Nat
      /\ Waiting(c) = q + p + d /\ Places(c) = q + p + d + o + r + h
  <2>1. Waiting(c) = q + p + d /\ Places(c) = q + p + d + o + r + h
    BY DEF Waiting, Places
  <2>2. Counted(c) /\ h \in {0, 1}
    BY PlacesCounted
  <2> QED
    BY <2>1, <2>2 DEF Counted
<1>2. /\ q1 \in Nat /\ p1 \in Nat /\ d1 \in Nat /\ o1 \in Nat /\ r1 \in Nat /\ h1 \in Nat
      /\ Waiting(c)' = q1 + p1 + d1 /\ Places(c)' = q1 + p1 + d1 + o1 + r1 + h1
  <2>1. Waiting(c)' = q1 + p1 + d1 /\ Places(c)' = q1 + p1 + d1 + o1 + r1 + h1
    BY DEF Waiting, Places
  <2>2. Counted(c)' /\ h1 \in {0, 1}
    BY NumbersTypedNext
  <2> QED
    BY <2>1, <2>2 DEF Counted
<1>3. q1 = q - k /\ k \in {0, 1} /\ r1 = r /\ (k = 1 <=> j.call = c)
  <2>1. k \in {0, 1} /\ r1 = r /\ (k = 1 <=> j.call = c)
    BY DEF One
  <2>2. q1 = q - k
    OBVIOUS
  <2> QED
    BY <2>1, <2>2
<1>4. /\ j.call # c \/ c \notin pending =>
           /\ o1 = o /\ d1 = d /\ p1 = p /\ pool'[c] = pool[c]
           /\ Number(outq', Settings(c)) = Number(outq, Settings(c))
      /\ j.call = c /\ c \in pending /\ pool[c] = "none" =>
           /\ s1 = s + 1
           /\ pool'[c] # "none" => outq' = outq /\ d1 = d /\ p1 = p
  BY HandledNumbers
<1>5. j.call = c => q # 0
  <2> HIDE DEF q, q1, k
  <2> QED
    BY <1>1, <1>2, <1>3
<1>6. j.call = c => Waiting(c) # 0
  <2> HIDE DEF q, p, d
  <2> QED
    BY <1>1, <1>5
<1>7. p1 = p /\ d1 = d => Waiting(c)' = Waiting(c) - k
  <2> HIDE DEF q, p, d, q1, p1, d1, k
  <2> QED
    BY <1>1, <1>2, <1>3
<1>8. j.call = c /\ c \in pending => pool[c] = "none"
  BY <1>6, WaitingCall
<1>9. j.call = c /\ c \in pending => Places(c)' = Places(c)
  <2>1. Places(c) = q + s + r /\ s \in Nat
    <3> HIDE DEF q, p, d, o, r, h
    <3> QED
      BY <1>1
  <2>2. Places(c)' = q1 + s1 + r1 /\ s1 \in Nat
    <3> HIDE DEF q1, p1, d1, o1, r1, h1
    <3> QED
      BY <1>2
  <2>3. j.call = c /\ c \in pending => s1 = s + 1
    BY <1>4, <1>8
  <2> HIDE DEF q, s, r, q1, s1, r1, k
  <2> QED
    BY <1>1, <1>2, <1>3, <2>1, <2>2, <2>3
<1>10. j.call = c /\ c \in pending /\ pool'[c] # "none" => outq' = outq /\ Waiting(c)' = Waiting(c) - 1
  <2>1. k = 1 <=> j.call = c
    BY <1>3
  <2> HIDE DEF k
  <2> QED
    BY <1>4, <1>7, <1>8, <2>1
<1> QED
  BY <1>4, <1>6, <1>7, <1>9, <1>10, JobMoves

LEMMA WorkKeepsPlaces ==
  ASSUME TypeOK, TypeOK', LedgerInv, PlacesInv, Work
  PROVE  PlacesInv'
<1>1. UNCHANGED <<next, pending, respq>>
  BY DEF Work, WorkerTake, WorkerDrained, WorkerDispatchRead, WorkerTryDispatch, WorkerTick,
     WorkerComplete, WorkerResume, WorkerResumed, WorkerFinishWrite, WorkerStop, ledger
<1>2. SUFFICES ASSUME NEW c \in Calls
               PROVE  /\ (c \in pending => Unanswered(c)') /\ (c > next => Unused(c)')
                      /\ BatchIsResumed'
  <2>1. \E c \in Calls : TRUE
    BY ConstantsAssumption DEF Calls
  <2> QED
    BY <1>1, <1>2, <2>1 DEF PlacesInv
<1>3. /\ (c \in pending => Unanswered(c)) /\ (c > next => Unused(c))
      /\ BatchIsResumed /\ Counted(c) /\ Counted(c)' /\ c \in PoolIds /\ c # Analyze
  BY PlacesCounted, NumbersTypedNext, ReadersApart DEF PlacesInv
<1>4. /\ jobs \in Seq(Jobs) /\ batch \in Seq(RequestJobs) /\ pendingReads \in Seq(RequestJobs)
      /\ deferred \in Seq(RequestJobs) /\ HandlerTypeOK
      /\ pool \in [PoolIds -> {"none", "queued", "running", "done"}]
  BY DEF TypeOK, HandlerTypeOK
<1>5. CASE WorkerTake
  <2> DEFINE j == Head(jobs)
  <2>1. /\ jobs # <<>> /\ jobs' = Tail(jobs) /\ j \in Jobs /\ Handle(j, "drain")
        /\ UNCHANGED batch /\ wpc \in {"select", "drain"}
    BY <1>4, <1>5 DEF WorkerTake
  <2>2. Number(jobs', About(c)) = Number(jobs, About(c)) - One(j.call = c)
    <3>1. j \in About(c) <=> j.call = c
      BY <2>1 DEF About
    <3>2. Number(jobs', About(c)) = Number(jobs, About(c)) - One(j \in About(c))
      BY <1>4, <2>1, NumberTaken
    <3> QED
      BY <3>1, <3>2 DEF One
  <2>3. One(j.call = c) \in {0, 1}
    BY DEF One
  <2> HIDE DEF j
  <2>4. Number(jobs', About(c)) + Number(batch', About(c))
          = (Number(jobs, About(c)) + Number(batch, About(c))) - One(j.call = c)
    BY <1>3, <2>1, <2>2, <2>3 DEF Counted
  <2>5. (c \in pending => Unanswered(c)') /\ (c > next => Unused(c)')
    BY <1>1, <2>1, <2>4, HandledMoves
  <2> QED
    BY <1>3, <2>1, <2>5 DEF BatchIsResumed
<1>6. CASE WorkerResume
  <2> DEFINE j == Head(batch)
  <2>1. /\ batch # <<>> /\ batch' = Tail(batch) /\ j \in RequestJobs /\ j \in Jobs
        /\ Handle(j, "resume") /\ UNCHANGED jobs
    BY <1>4, <1>6 DEF WorkerResume, Jobs
  <2>2. Number(batch', About(c)) = Number(batch, About(c)) - One(j.call = c)
    <3>1. j \in About(c) <=> j.call = c
      BY <2>1 DEF About
    <3>2. Number(batch', About(c)) = Number(batch, About(c)) - One(j \in About(c))
      BY <1>4, <2>1, NumberTaken
    <3> QED
      BY <3>1, <3>2 DEF One
  <2>3. One(j.call = c) \in {0, 1}
    BY DEF One
  <2> HIDE DEF j
  <2>4. Number(jobs', About(c)) + Number(batch', About(c))
          = (Number(jobs, About(c)) + Number(batch, About(c))) - One(j.call = c)
    BY <1>3, <2>1, <2>2, <2>3 DEF Counted
  <2>5. (c \in pending => Unanswered(c)') /\ (c > next => Unused(c)')
    BY <1>1, <2>1, <2>4, HandledMoves
  <2>6. wpc' = "resume" \/ (wpc' = "writing" /\ then' = "resume")
    BY <1>4, <2>1, HandleServes
  <2> QED
    BY <2>5, <2>6 DEF BatchIsResumed
<1>7. CASE WorkerDispatchRead
  <2> DEFINE j == Head(pendingReads)
  <2>1. /\ pendingReads # <<>> /\ pendingReads' = Tail(pendingReads)
        /\ j \in RequestJobs /\ j \in Jobs /\ Served(j)
        /\ UNCHANGED <<jobs, batch>> /\ wpc = "dispatch"
    BY <1>4, <1>7, ExecuteServes DEF WorkerDispatchRead, Jobs
  <2>2. /\ Number(pendingReads', About(c)) = Number(pendingReads, About(c)) - One(j.call = c)
        /\ One(j.call = c) \in {0, 1} /\ (One(j.call = c) = 1 <=> j.call = c)
    <3>1. j \in About(c) <=> j.call = c
      BY <2>1 DEF About
    <3>2. Number(pendingReads', About(c)) = Number(pendingReads, About(c)) - One(j \in About(c))
      BY <1>4, <2>1, NumberTaken
    <3> QED
      BY <3>1, <3>2 DEF One
  <2> HIDE DEF j
  <2>3. j.call = c => Waiting(c) # 0
    BY <1>3, <2>2 DEF Counted, Waiting
  <2>4. j.call = c /\ c \in pending => pool[c] = "none"
    BY <2>3, WaitingCall
  <2>5. /\ j.call # c \/ c \notin pending =>
             /\ Number(outq', About(c)) = Number(outq, About(c))
             /\ Number(outq', Settings(c)) = Number(outq, Settings(c))
             /\ Number(deferred', About(c)) = Number(deferred, About(c))
             /\ pool'[c] = pool[c]
        /\ j.call = c /\ c \in pending /\ pool[c] = "none" =>
             \/ /\ Number(outq', About(c)) = Number(outq, About(c)) + 1
                /\ deferred' = deferred /\ pool'[c] = "none"
             \/ /\ Number(deferred', About(c)) = Number(deferred, About(c)) + 1
                /\ outq' = outq /\ pool'[c] = "none"
             \/ pool'[c] = "queued" /\ outq' = outq /\ deferred' = deferred
    BY <1>4, <2>1, ServedNumbers
  <2>6. Number(deferred', About(c)) = Number(deferred, About(c))
          => Waiting(c)' = Waiting(c) - One(j.call = c)
    <3> DEFINE w == Number(jobs, About(c)) + Number(batch, About(c))
               p == Number(pendingReads, About(c))
               d == Number(deferred, About(c))
               k == One(j.call = c)
    <3>1. w \in Nat /\ p \in Nat /\ d \in Nat /\ k \in {0, 1}
      BY <1>3, <2>2 DEF Counted
    <3>2. Waiting(c) = w + p + d
      BY DEF Waiting
    <3>3. Number(deferred', About(c)) = d => Waiting(c)' = w + (p - k) + d
      BY <2>1, <2>2 DEF Waiting
    <3>4. Number(deferred', About(c)) = d => Waiting(c)' = Waiting(c) - k
      <4> HIDE DEF w, p, d, k
      <4> QED
        BY <3>1, <3>2, <3>3
    <3> QED
      BY <3>4
  <2>7. ASSUME j.call = c, c \in pending
        PROVE  /\ Places(c)' = Places(c)
               /\ pool'[c] # "none" => outq' = outq /\ Waiting(c)' = Waiting(c) - 1
    <3>1. Waiting(c) \in Nat /\ pool[c] = "none" /\ respq' = respq /\ Held(c) = 0
          /\ One(j.call = c) = 1
      BY <1>1, <2>2, <2>4, <2>7, PlacesCounted DEF Held, One
    <3>2. CASE /\ Number(outq', About(c)) = Number(outq, About(c)) + 1
               /\ deferred' = deferred /\ pool'[c] = "none"
      <4>1. Waiting(c)' = Waiting(c) - 1 /\ Held(c)' = 0
        BY <2>6, <3>1, <3>2 DEF Held, One
      <4> QED
        BY <1>3, <3>1, <3>2, <4>1 DEF Counted, Places
    <3>3. CASE /\ Number(deferred', About(c)) = Number(deferred, About(c)) + 1
               /\ outq' = outq /\ pool'[c] = "none"
      <4>1. Held(c)' = 0
        BY <3>3 DEF Held, One
      <4>2. Number(pendingReads', About(c)) = Number(pendingReads, About(c)) - 1
        BY <2>2, <2>7
      <4>3. Waiting(c)' = Waiting(c)
        BY <1>3, <2>1, <3>3, <4>2 DEF Counted, Waiting
      <4> QED
        BY <3>1, <3>3, <4>1, <4>3 DEF Places
    <3>4. CASE pool'[c] = "queued" /\ outq' = outq /\ deferred' = deferred
      <4>1. Waiting(c)' = Waiting(c) - 1 /\ Held(c)' = 1
        BY <2>6, <3>1, <3>4 DEF Held, One
      <4> QED
        BY <1>3, <3>1, <3>4, <4>1 DEF Counted, Places
    <3> QED
      BY <2>4, <2>5, <2>7, <3>2, <3>3, <3>4
  <2>8. (c \in pending => Unanswered(c)') /\ (c > next => Unused(c)')
    BY <1>1, <2>3, <2>5, <2>6, <2>7, JobMoves
  <2> QED
    BY <1>3, <2>1, <2>8 DEF BatchIsResumed
<1>8. CASE WorkerTryDispatch
  <2>1. UNCHANGED <<jobs, batch, pendingReads, deferred, outq, respq>> /\ pool'[c] = pool[c]
        /\ wpc = "dispatch"
    BY <1>1, <1>3, <1>4, <1>8 DEF WorkerTryDispatch, Spawn, reader
  <2> QED
    BY <1>1, <1>3, <2>1 DEF Unanswered, Unused, Places, Waiting, Held, BatchIsResumed
<1>9. CASE WorkerComplete
  <2>1. /\ UNCHANGED <<jobs, pendingReads, outq, respq, pool>> /\ batch = <<>>
        /\ batch' = deferred /\ deferred' = <<>>
        /\ wpc' = "writing" /\ then' = "resume"
    BY <1>1, <1>3, <1>9 DEF WorkerComplete, Writes, BatchIsResumed, reader
  <2>2. Number(<<>>, About(c)) = 0
    BY NumberOfNone
  <2>3. Waiting(c)' = Waiting(c)
    BY <1>3, <2>1, <2>2 DEF Counted, Waiting
  <2> QED
    BY <1>1, <1>3, <2>1, <2>3 DEF Unanswered, Unused, Places, Held, BatchIsResumed
<1>10. CASE WorkerDrained \/ WorkerTick \/ WorkerResumed \/ WorkerFinishWrite \/ WorkerStop
  <2>1. UNCHANGED <<jobs, batch, pendingReads, deferred, outq, respq, pool>>
    BY <1>1, <1>10 DEF WorkerDrained, WorkerTick, WorkerResumed, WorkerFinishWrite, WorkerStop, worker, reader
  <2>2. BatchIsResumed'
    BY <1>3, <1>10, <2>1
    DEF WorkerDrained, WorkerTick, WorkerResumed, WorkerFinishWrite, WorkerStop, BatchIsResumed
  <2> QED
    BY <1>3, <2>1, <2>2, CallStays
<1> QED
  BY <1>5, <1>6, <1>7, <1>8, <1>9, <1>10 DEF Work

(* A reader turns into one response, or drops a call that is over.          *)
LEMMA ReadKeepsPlaces ==
  ASSUME TypeOK, LedgerInv, PlacesInv, NEW id \in PoolIds, Read(id)
  PROVE  PlacesInv'
<1>1. UNCHANGED <<next, pending, jobs, batch, pendingReads, deferred, respq, wpc, then>>
  BY DEF Read, ReaderStart, ReaderFinish, ReaderReturn, ledger, worker
<1>2. BatchIsResumed'
  BY <1>1 DEF PlacesInv, BatchIsResumed
<1>3. SUFFICES ASSUME NEW c \in Calls
               PROVE  (c \in pending => Unanswered(c)') /\ (c > next => Unused(c)')
  BY <1>1, <1>2 DEF PlacesInv
<1>4. /\ (c \in pending => Unanswered(c)) /\ (c > next => Unused(c))
      /\ Counted(c) /\ c \in PoolIds /\ c # Analyze /\ Waiting(c)' = Waiting(c) /\ Waiting(c) \in Nat
      /\ pool \in [PoolIds -> {"none", "queued", "running", "done"}] /\ outq \in Seq(Outbound)
  BY <1>1, PlacesCounted, ReadersApart DEF PlacesInv, TypeOK, HandlerTypeOK, Waiting
<1>5. CASE id # c /\ UNCHANGED <<Number(outq, About(c)), Number(outq, Settings(c))>>
  <2>1. pool'[c] = pool[c]
    BY <1>4, <1>5 DEF Read, ReaderStart, ReaderFinish, ReaderReturn
  <2>2. Places(c)' = Places(c)
    BY <1>1, <1>4, <1>5, <2>1 DEF Places, Held
  <2> QED
    BY <1>1, <1>4, <1>5, <2>1, <2>2 DEF Unanswered, Unused
<1>6. CASE ReaderStart(id) \/ ReaderReturn(id)
  <2>1. outq' = outq
    BY <1>6 DEF ReaderStart, ReaderReturn, worker
  <2>2. CASE id = c
    <3>1. pool[c] \in {"queued", "done"}
      BY <1>6, <2>2 DEF ReaderStart, ReaderReturn
    <3>2. ~(c > next)
      BY <1>4, <3>1 DEF Unused
    <3>3. ASSUME c \in pending
          PROVE  Unanswered(c)'
      <4>1. (pool'[c] # "none" /\ Held(c)' = Held(c)) \/ pool[c] = "done"
        BY <1>4, <1>6, <2>2, <3>3 DEF ReaderStart, ReaderReturn, Held, One
      <4>2. Held(c)' = Held(c)
        BY <1>4, <1>6, <2>2, <4>1 DEF ReaderStart, ReaderReturn, Held, One
      <4> QED
        BY <1>1, <1>4, <2>1, <3>1, <3>3, <4>2 DEF Unanswered, Places
    <3> QED
      BY <3>2, <3>3
  <2> QED
    BY <1>5, <2>1, <2>2
<1>7. CASE ReaderFinish(id)
  <2>1. CASE id = Analyze
    BY <1>4, <1>5, <1>7, <2>1 DEF ReaderFinish
  <2>2. CASE id # Analyze
    <3> DEFINE m == [type |-> "response", call |-> id]
    <3>1. m \in Outbound /\ outq' = Append(outq, m) /\ m.call = id /\ m.type = "response"
      BY <1>7, <2>2, ReadersApart DEF ReaderFinish, Outbound
    <3>2. (m \in About(c) <=> id = c) /\ m \notin Settings(c)
      BY <3>1 DEF About, Settings
    <3> HIDE DEF m
    <3>3. /\ Number(outq', About(c)) = Number(outq, About(c)) + One(m \in About(c))
          /\ Number(outq', Settings(c)) = Number(outq, Settings(c)) + One(m \in Settings(c))
      BY <1>4, <3>1, NumberAppended
    <3>4. /\ Number(outq', Settings(c)) = Number(outq, Settings(c))
          /\ id # c => Number(outq', About(c)) = Number(outq, About(c))
          /\ id = c => Number(outq', About(c)) = Number(outq, About(c)) + 1
      <4>1. Number(outq, About(c)) \in Nat /\ Number(outq, Settings(c)) \in Nat
        BY <1>4 DEF Counted
      <4> QED
        BY <3>2, <3>3, <4>1 DEF One
    <3>5. CASE id = c
      <4>1. pool[c] = "running" /\ pool'[c] = "done"
        BY <1>4, <1>7, <3>5 DEF ReaderFinish
      <4>2. Held(c) = 1 /\ Held(c)' = 0
        BY <4>1 DEF Held, One
      <4>3. Places(c)' = Places(c)
        BY <1>1, <1>4, <3>4, <3>5, <4>2 DEF Counted, Places
      <4> QED
        BY <1>4, <3>4, <4>1, <4>3 DEF Unanswered, Unused
    <3> QED
      BY <1>5, <3>4, <3>5
  <2> QED
    BY <2>1, <2>2
<1> QED
  BY <1>6, <1>7 DEF Read

LEMMA PlacesInit == ASSUME Init PROVE PlacesInv
<1>1. ASSUME NEW c \in Calls
      PROVE  Unused(c)
  <2>1. /\ Waiting(c) = 0 + 0 + 0 + 0 /\ Number(outq, About(c)) = 0
        /\ Number(respq, {c}) = 0 /\ pool[c] = "none"
    BY NumberOfNone, ReadersApart DEF Init, Waiting
  <2>2. Held(c) = 0
    BY <2>1 DEF Held, One
  <2> QED
    BY <2>1, <2>2 DEF Unused, Places
<1> QED
  BY <1>1 DEF Init, PlacesInv, BatchIsResumed

LEMMA PlacesPreserved ==
  ASSUME TypeOK, TypeOK', LedgerInv, PlacesInv, [Next]_vars
  PROVE  PlacesInv'
<1>1. CASE Terminated \/ UNCHANGED vars
  <2>1. /\ UNCHANGED <<next, pending, jobs, batch, pendingReads, deferred, outq, respq, pool>>
        /\ UNCHANGED <<wpc, then>>
    BY <1>1 DEF Terminated, vars, ledger, worker, reader
  <2> QED
    BY <2>1, CallStays DEF PlacesInv, BatchIsResumed
<1> QED
  BY <1>1, MainKeepsPlaces, WorkKeepsPlaces, ReadKeepsPlaces DEF Next

(* Every open call is in one place, every unused one in none.               *)
THEOREM PlacesInvariant == Spec => []PlacesInv
BY PlacesInit, PlacesPreserved, LedgerInvariant, TypeCorrect, PTL DEF Spec

(* In the terms of the property: the messages about a call, wherever they   *)
(* are, number one.                                                         *)
LEMMA OccurrencesNumber ==
  ASSUME TypeOK, NEW c \in Calls
  PROVE  /\ Cardinality(Occurrences(jobs, c)) = Number(jobs, About(c))
         /\ Cardinality(Occurrences(outq, c)) = Number(outq, About(c))
         /\ Cardinality(Occurrences(batch, c)) = Number(batch, About(c))
         /\ Cardinality(Occurrences(pendingReads, c)) = Number(pendingReads, About(c))
         /\ Cardinality(Occurrences(deferred, c)) = Number(deferred, About(c))
         /\ Cardinality({i \in DOMAIN respq : respq[i] = c}) = Number(respq, {c})
<1>1. ASSUME NEW q \in Seq(Jobs \cup Outbound)
      PROVE  Cardinality(Occurrences(q, c)) = Number(q, About(c))
  <2>1. \A i \in DOMAIN q : q[i] \in Jobs \cup Outbound
    BY <1>1
  <2>2. Occurrences(q, c) = {i \in DOMAIN q : q[i] \in About(c)}
    BY <2>1 DEF Occurrences, About
  <2> QED
    BY <2>2 DEF Number
<1>2. /\ jobs \in Seq(Jobs \cup Outbound) /\ outq \in Seq(Jobs \cup Outbound)
      /\ batch \in Seq(Jobs \cup Outbound) /\ pendingReads \in Seq(Jobs \cup Outbound)
      /\ deferred \in Seq(Jobs \cup Outbound)
  BY DEF TypeOK, HandlerTypeOK, Jobs
<1>3. {i \in DOMAIN respq : respq[i] = c} = {i \in DOMAIN respq : respq[i] \in {c}}
  OBVIOUS
<1> QED
  BY <1>1, <1>2, <1>3 DEF Number

LEMMA PlacesSum ==
  ASSUME NEW a \in Nat, NEW b \in Nat, NEW p \in Nat, NEW d \in Nat, NEW o \in Nat, NEW r \in Nat,
         NEW h \in Nat
  PROVE  a + b + p + d + o + r + h = a + o + b + p + d + r + h
OBVIOUS

(* While the session runs, a pending call is in exactly one place.          *)
THEOREM PendingAreSomewhere == Spec => []NothingLost
<1>1. TypeOK /\ LedgerInv /\ PlacesInv => NothingLost
  <2> SUFFICES ASSUME TypeOK, LedgerInv, PlacesInv, NEW c \in pending
               PROVE  1 = Cardinality(Occurrences(jobs, c)) + Cardinality(Occurrences(outq, c))
                          + Cardinality(Occurrences(batch, c)) + Cardinality(Occurrences(pendingReads, c))
                          + Cardinality(Occurrences(deferred, c))
                          + Cardinality({i \in DOMAIN respq : respq[i] = c})
                          + (IF pool[c] \in {"queued", "running"} THEN 1 ELSE 0)
    BY DEF NothingLost
  <2>1. c \in Calls
    BY DEF TypeOK, LedgerTypeOK
  <2>2. Places(c) = 1 /\ Counted(c) /\ Held(c) \in {0, 1}
    BY <2>1, PlacesCounted DEF PlacesInv, Unanswered
  <2>3. Places(c) = Number(jobs, About(c)) + Number(outq, About(c)) + Number(batch, About(c))
                      + Number(pendingReads, About(c)) + Number(deferred, About(c))
                      + Number(respq, {c}) + Held(c)
    BY <2>2, PlacesSum DEF Counted, Places, Waiting
  <2>4. Held(c) = IF pool[c] \in {"queued", "running"} THEN 1 ELSE 0
    BY DEF Held, One
  <2> QED
    BY <2>1, <2>2, <2>3, <2>4, OccurrencesNumber
<1> QED
  BY <1>1, PlacesInvariant, LedgerInvariant, TypeCorrect, PTL

-----------------------------------------------------------------------------
(* The permits.  A reader is spawned only for a call that has none, since   *)
(* its job was still in a queue.                                            *)

Busy == {id \in PoolIds : pool[id] # "none"}

ReaderSpawned == \E id \in PoolIds : pool[id] = "none" /\ Spawn(id)
ReaderReturned == \E id \in PoolIds : ReaderReturn(id)
ReadersStay == permits' = permits /\ Busy' = Busy

LEMMA BusyCounted ==
  ASSUME TypeOK
  PROVE  IsFiniteSet(Busy) /\ Cardinality(Busy) \in Nat
<1>1. IsFiniteSet(1..MaxCalls + 1)
  BY ConstantsAssumption, FS_Interval
<1>2. IsFiniteSet(PoolIds)
  BY <1>1, FS_AddElement DEF PoolIds, Calls
<1>3. IsFiniteSet(Busy)
  BY <1>2, FS_Subset DEF Busy
<1> QED
  BY <1>3, FS_CardinalityType

(* The job at the head of a queue of the worker has no reader yet.          *)
LEMMA ServedSpawns ==
  ASSUME TypeOK, PlacesInv, NEW j \in RequestJobs, Served(j),
         \E queue \in {jobs, batch, pendingReads} : queue # <<>> /\ j = Head(queue)
  PROVE  ReaderSpawned \/ UNCHANGED reader
<1>1. CASE ~Gone(j) /\ Spawn(j.call)
  <2> DEFINE c == j.call
  <2>1. c \in Calls /\ c \in PoolIds /\ c \in pending /\ j \in About(c)
    BY <1>1, ReadersApart DEF Gone, RequestJobs, About, Jobs
  <2>2. PICK queue \in {jobs, batch, pendingReads} : queue # <<>> /\ j = Head(queue)
    OBVIOUS
  <2>3. queue \in Seq(Jobs)
    BY DEF TypeOK, HandlerTypeOK, Jobs
  <2>4. 1 \in DOMAIN queue /\ queue[1] = j
    BY <2>2, <2>3
  <2> HIDE DEF c
  <2>5. Number(queue, About(c)) # 0
    BY <2>1, <2>3, <2>4, NumberZero
  <2>6. Waiting(c) # 0
    BY <2>1, <2>5, PlacesCounted
  <2>7. pool[c] = "none"
    BY <2>1, <2>6, WaitingCall
  <2> QED
    BY <1>1, <2>1, <2>7 DEF ReaderSpawned, c
<1> QED
  BY <1>1 DEF Served

LEMMA PoolSteps ==
  ASSUME TypeOK, PlacesInv, [Next]_vars
  PROVE  ReaderSpawned \/ ReaderReturned \/ ReadersStay
<1>1. UNCHANGED reader => ReadersStay
  BY DEF reader, ReadersStay, Busy
<1>2. ASSUME NEW w \in Wire, NEW kind \in Kinds, Receive(w, kind)
      PROVE  ReadersStay
  BY <1>1, <1>2 DEF Receive
<1>3. ASSUME NEW w \in Wire, Cancel(w) \/ Shutdown(w)
      PROVE  ReadersStay
  BY <1>1, <1>3 DEF Cancel, Shutdown
<1>4. ASSUME NEW t, Change(t)
      PROVE  ReadersStay
  BY <1>1, <1>4 DEF Change
<1>5. CASE Exit \/ TakeResponse \/ TakeOutbound
  BY <1>1, <1>5 DEF Exit, TakeResponse, TakeOutbound
<1>6. ASSUME NEW j \in Jobs, NEW back \in {"drain", "resume"}, Handle(j, back),
             \E queue \in {jobs, batch, pendingReads} : queue # <<>> /\ j = Head(queue)
      PROVE  ReaderSpawned \/ ReadersStay
  <2>1. UNCHANGED reader \/ (j \in RequestJobs /\ Served(j))
    BY <1>6, HandleServes DEF TypeOK
  <2> QED
    BY <1>1, <1>6, <2>1, ServedSpawns
<1>7. CASE WorkerTake
  <2>1. jobs # <<>> /\ Head(jobs) \in Jobs /\ Handle(Head(jobs), "drain")
    BY <1>7 DEF WorkerTake, TypeOK
  <2> QED
    BY <1>6, <2>1
<1>8. CASE WorkerResume
  <2>1. batch # <<>> /\ Head(batch) \in Jobs /\ Handle(Head(batch), "resume")
    BY <1>8 DEF WorkerResume, TypeOK, Jobs
  <2> QED
    BY <1>6, <2>1
<1>9. CASE WorkerDispatchRead
  <2>1. pendingReads # <<>> /\ Head(pendingReads) \in RequestJobs /\ Served(Head(pendingReads))
    BY <1>9, ExecuteServes DEF WorkerDispatchRead, TypeOK, HandlerTypeOK
  <2> QED
    BY <1>1, <2>1, ServedSpawns
<1>10. CASE WorkerTryDispatch
  BY <1>1, <1>10, ReadersApart DEF WorkerTryDispatch, CanAnalyze, ReaderSpawned
<1>11. CASE WorkerDrained \/ WorkerTick \/ WorkerComplete \/ WorkerResumed \/ WorkerFinishWrite \/ WorkerStop
  BY <1>1, <1>11 DEF WorkerDrained, WorkerTick, WorkerComplete, WorkerResumed, WorkerFinishWrite, WorkerStop
<1>12. ASSUME NEW id \in PoolIds, ReaderStart(id) \/ ReaderFinish(id)
       PROVE  ReadersStay
  <2>1. pool \in [PoolIds -> {"none", "queued", "running", "done"}]
    BY DEF TypeOK, HandlerTypeOK
  <2> QED
    BY <1>12, <2>1 DEF ReaderStart, ReaderFinish, ReadersStay, Busy
<1>13. CASE Terminated \/ UNCHANGED vars
  BY <1>1, <1>13 DEF Terminated, vars
<1> QED
  BY <1>2, <1>3, <1>4, <1>5, <1>7, <1>8, <1>9, <1>10, <1>11, <1>12, <1>13
  DEF Next, Main, Work, Read, ReaderReturned

LEMMA PermitsPreserved ==
  ASSUME TypeOK, PlacesInv, PermitsAccounted, [Next]_vars
  PROVE  PermitsAccounted'
<1>1. /\ permits \in Nat /\ pool \in [PoolIds -> {"none", "queued", "running", "done"}]
      /\ IsFiniteSet(Busy) /\ Cardinality(Busy) \in Nat
      /\ permits + Cardinality(Busy) = PoolSize
  BY BusyCounted DEF TypeOK, HandlerTypeOK, PermitsAccounted, Busy
<1>2. CASE ReaderSpawned
  <2>1. PICK id \in PoolIds : pool[id] = "none" /\ Spawn(id)
    BY <1>2 DEF ReaderSpawned
  <2>2. Busy' = Busy \cup {id} /\ id \notin Busy /\ permits' = permits - 1
    BY <1>1, <2>1 DEF Spawn, Busy
  <2>3. Cardinality(Busy \cup {id}) = Cardinality(Busy) + 1
    BY <1>1, <2>2, FS_AddElement
  <2>4. permits' + Cardinality(Busy') = PoolSize
    BY <1>1, <2>2, <2>3
  <2> QED
    BY <2>4 DEF PermitsAccounted, Busy
<1>3. CASE ReaderReturned
  <2>1. PICK id \in PoolIds : ReaderReturn(id)
    BY <1>3 DEF ReaderReturned
  <2>2. Busy' = Busy \ {id} /\ id \in Busy /\ permits' = permits + 1
    BY <1>1, <2>1 DEF ReaderReturn, Busy
  <2>3. Cardinality(Busy \ {id}) = Cardinality(Busy) - 1
    BY <1>1, <2>2, FS_RemoveElement
  <2>4. permits' + Cardinality(Busy') = PoolSize
    BY <1>1, <2>2, <2>3
  <2> QED
    BY <2>4 DEF PermitsAccounted, Busy
<1>4. CASE ReadersStay
  BY <1>1, <1>4 DEF ReadersStay, PermitsAccounted, Busy
<1> QED
  BY <1>2, <1>3, <1>4, PoolSteps

LEMMA PermitsInit == ASSUME Init PROVE PermitsAccounted
<1>1. {c \in PoolIds : pool[c] # "none"} = {}
  BY DEF Init
<1> QED
  BY <1>1, FS_EmptySet, ConstantsAssumption DEF Init, PermitsAccounted

(* A permit is free or is held by exactly one reader.                       *)
THEOREM PermitsAreConserved == Spec => []PermitsAccounted
BY PermitsInit, PermitsPreserved, PlacesInvariant, TypeCorrect, PTL DEF Spec
=============================================================================
