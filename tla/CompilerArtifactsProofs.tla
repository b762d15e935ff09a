----------------------- MODULE CompilerArtifactsProofs -----------------------
(***************************************************************************)
(* What holds of CompilerArtifacts for every set of sources and artifacts  *)
(* and for every number of changes: the counts of watched paths agree with *)
(* the rows, no superseded batch is published, and when everything has     *)
(* come to rest, no acquisition is pending, and what is published and what *)
(* is watched are what the contexts ask for, but for changes that the      *)
(* system is known to miss.                                                *)
(***************************************************************************)
EXTENDS CompilerArtifacts, FiniteSetTheorems, TLAPS

-----------------------------------------------------------------------------
(* Facts about the sequences that stand for channels.                       *)

(* A finite set, in some order.                                             *)
LEMMA OrderOf ==
  ASSUME NEW S, IsFiniteSet(S)
  PROVE  /\ SetToSeq(S) \in Seq(S)
         /\ \A x \in S : \E i \in 1..Len(SetToSeq(S)) : SetToSeq(S)[i] = x
         /\ \A i, j \in 1..Len(SetToSeq(S)) : SetToSeq(S)[i] = SetToSeq(S)[j] => i = j
<1> DEFINE n == Cardinality(S)
<1>1. n \in Nat /\ ExistsBijection(1..n, S)
  BY FS_CardinalityType
<1>2. PICK f \in Bijection(1..n, S) : TRUE
  BY <1>1 DEF ExistsBijection
<1>3. f \in [1..n -> S] /\ IsInjective(f) /\ \A x \in S : \E i \in 1..n : f[i] = x
  BY <1>2 DEF Bijection, Injection, Surjection, IsInjective
<1> DEFINE s == SetToSeq(S)
<1>4. s \in [1..n -> S] /\ IsInjective(s)
  BY <1>3 DEF SetToSeq
<1>5. s \in Seq(S) /\ Len(s) = n /\ DOMAIN s = 1..n
  BY <1>1, <1>4
<1>6. \A x \in S : \E i \in 1..n : s[i] = x
  <2>1. IsFiniteSet(1..n) /\ Cardinality(1..n) = n
    BY <1>1, FS_Interval
  <2>2. s \in Injection(1..n, S)
    BY <1>4 DEF Injection
  <2>3. s \in Surjection(1..n, S)
    BY <2>1, <2>2, FS_Injection
  <2> QED
    BY <2>3 DEF Surjection
<1> QED
  BY <1>4, <1>5, <1>6 DEF IsInjective

(* The first message of a channel, and the channel without it.              *)
LEMMA HeadOf ==
  ASSUME NEW S, NEW q \in Seq(S), q # <<>>
  PROVE  /\ Head(q) \in S /\ Head(q) = q[1] /\ 1 \in DOMAIN q
         /\ Tail(q) \in Seq(S) /\ DOMAIN q = 1..Len(q)
         /\ DOMAIN Tail(q) = 1..Len(q) - 1 /\ Len(q) \in Nat
         /\ \A i \in DOMAIN Tail(q) : Tail(q)[i] = q[i + 1] /\ i + 1 \in DOMAIN q
         /\ \A i \in DOMAIN q : i = 1 \/ (i - 1 \in DOMAIN Tail(q) /\ Tail(q)[i - 1] = q[i])
OBVIOUS

(* A channel with one more message.                                         *)
LEMMA AppendOf ==
  ASSUME NEW S, NEW q \in Seq(S), NEW m \in S
  PROVE  /\ Append(q, m) \in Seq(S) /\ Len(q) \in Nat
         /\ DOMAIN q = 1..Len(q) /\ DOMAIN Append(q, m) = 1..Len(q) + 1
         /\ \A i \in DOMAIN q : Append(q, m)[i] = q[i]
         /\ Append(q, m)[Len(q) + 1] = m
OBVIOUS

(* Messages appended to a channel come after the ones that are there.       *)
LEMMA ConcatOf ==
  ASSUME NEW S, NEW q \in Seq(S), NEW r \in Seq(S)
  PROVE  /\ q \o r \in Seq(S) /\ Len(q) \in Nat /\ Len(r) \in Nat
         /\ DOMAIN q = 1..Len(q) /\ DOMAIN r = 1..Len(r)
         /\ \A i \in DOMAIN (q \o r) :
              \/ i \in DOMAIN q /\ (q \o r)[i] = q[i]
              \/ \E k \in DOMAIN r : (q \o r)[i] = r[k]
OBVIOUS

(* One message for each element of a finite set, in some order.             *)
LEMMA MessagesFor ==
  ASSUME NEW S, IsFiniteSet(S), NEW M, NEW f \in [S -> M]
  PROVE  SetToSeq({f[x] : x \in S}) \in Seq(M)
<1> DEFINE T == {f[x] : x \in S}
<1>1. f \in Surjection(S, T)
  BY DEF Surjection
<1>2. IsFiniteSet(T)
  BY <1>1, FS_Surjection
<1>3. SetToSeq(T) \in Seq(T)
  BY <1>2, OrderOf
<1>4. T \subseteq M
  OBVIOUS
<1> HIDE DEF T
<1>5. SetToSeq(T) \in Seq(M)
  BY <1>3, <1>4
<1> QED
  BY <1>5 DEF T

-----------------------------------------------------------------------------
(* Types.                                                                   *)

LEMMA ContextsOf ==
  ASSUME NEW S \in SUBSET Sources, NEW c \in [S -> SUBSET Artifacts]
  PROVE  c \in Contexts
BY DEF Contexts

LEMMA ContextsAre ==
  ASSUME NEW c \in Contexts
  PROVE  /\ DOMAIN c \subseteq Sources /\ c \in [DOMAIN c -> SUBSET Artifacts]
         /\ UNION Range(c) \subseteq Artifacts
BY DEF Contexts, Range

LEMMA ContentsOf ==
  ASSUME NEW S \in SUBSET Artifacts, NEW c \in [S -> Versions]
  PROVE  c \in Contents
BY DEF Contents

LEMMA ContentsAre ==
  ASSUME NEW c \in Contents
  PROVE  DOMAIN c \subseteq Artifacts /\ c \in [DOMAIN c -> Versions]
BY DEF Contents

LEMMA VersionsAre ==
  ASSUME NEW n \in 0..MaxWrites
  PROVE  0 .. 2 * n + 1 \subseteq Versions /\ Versions \subseteq Nat
BY CompilerArtifactsAssumption DEF Versions

LEMMA RelintTyped ==
  ASSUME NEW open \in SUBSET Sources
  PROVE  Relint(open) \in Seq(Jobs)
<1> DEFINE f == [s \in open |-> Edit(s)]
<1>1. IsFiniteSet(open)
  BY CompilerArtifactsAssumption, FS_Subset
<1>2. f \in [open -> Jobs]
  BY DEF Edit, Jobs
<1>3. {f[s] : s \in open} = {Edit(s) : s \in open}
  OBVIOUS
<1> HIDE DEF f
<1>4. SetToSeq({f[s] : s \in open}) \in Seq(Jobs)
  BY <1>1, <1>2, MessagesFor
<1> QED
  BY <1>3, <1>4 DEF Relint

LEMMA MembersTyped ==
  ASSUME NEW s \in Sources, NEW available \in SUBSET Sources
  PROVE  Members(s, available) \subseteq Artifacts
BY CompilerArtifactsAssumption DEF Members

LEMMA ReplaceTyped ==
  ASSUME TypeOK, NEW s \in Sources, NEW paths \in SUBSET Artifacts,
         ReplaceArtifactWatches(s, paths)
  PROVE  rows' \in Contexts /\ \E S \in SUBSET Artifacts : counts' \in [S -> Nat \ {0}]
<1> DEFINE old == IF s \in DOMAIN rows THEN rows[s] ELSE {}
           after == [p \in DOMAIN counts \cup paths |->
                       (IF p \in DOMAIN counts THEN counts[p] ELSE 0)
                         - (IF p \in old THEN 1 ELSE 0) + (IF p \in paths THEN 1 ELSE 0)]
           T == (DOMAIN rows \ {s}) \cup (IF paths = {} THEN {} ELSE {s})
           S == {q \in DOMAIN after : after[q] > 0}
<1>1. DOMAIN rows \subseteq Sources /\ rows \in [DOMAIN rows -> SUBSET Artifacts]
  BY ContextsAre DEF TypeOK
<1>2. rows' = [t \in T |-> IF t = s THEN paths ELSE rows[t]] /\ counts' = [p \in S |-> after[p]]
  BY DEF ReplaceArtifactWatches
<1>3. T \in SUBSET Sources /\ rows' \in [T -> SUBSET Artifacts]
  BY <1>1, <1>2
<1>4. \A p \in DOMAIN counts : counts[p] \in Nat /\ p \in Artifacts
  BY DEF TypeOK
<1>5. \A p \in DOMAIN counts \cup paths : after[p] \in Int
  BY <1>4
<1>6. S \in SUBSET Artifacts
  BY <1>4
<1> HIDE DEF after, T
<1>7. \A p \in S : after[p] \in Nat \ {0}
  <2>1. DOMAIN after = DOMAIN counts \cup paths
    BY DEF after
  <2> QED
    BY <1>5, <2>1
<1> HIDE DEF S
<1>8. counts' \in [S -> Nat \ {0}]
  BY <1>2, <1>7
<1> QED
  BY <1>3, <1>6, <1>8, ContextsOf

(* What a submission does: no generation is used again.                     *)
Submitted ==
  /\ generation' \in Nat /\ generation' >= generation
  /\ project' \in Projects /\ project'.inflight <= generation'
  /\ plans' \in Seq(Plans)
  /\ \/ plans' = plans
     \/ generation' > generation /\ \E q \in Plans : q.token = generation' /\ plans' = Append(plans, q)

(* A project is submitted, or its batch is in flight, or it needs none.     *)
LEMMA SubmitTyped ==
  ASSUME TypeOK, NEW p \in Projects, NEW reserved \in Nat, p.inflight <= reserved,
         Submit(p, reserved)
  PROVE  /\ generation' \in Nat /\ generation' >= reserved
         /\ project' \in Projects /\ project'.inflight <= generation'
         /\ plans' \in Seq(Plans)
         /\ \/ plans' = plans
            \/ generation' > reserved
               /\ \E q \in Plans : q.token = generation' /\ plans' = Append(plans, q)
<1>1. CASE p.inflight = 0 /\ p.dirty
  <2> DEFINE q == [token |-> reserved + 1, contexts |-> p.contexts, retired |-> p.retired]
             n == [p EXCEPT !.inflight = reserved + 1, !.dirty = FALSE]
  <2>1. generation' = reserved + 1 /\ project' = n /\ plans' = Append(plans, q)
    BY <1>1 DEF Submit
  <2>2. p.contexts \in Contexts /\ p.retired \subseteq Sources
    BY DEF Projects
  <2>3. q \in Plans
    BY <2>2 DEF Plans
  <2>4. n \in Projects
    <3> DEFINE k == reserved + 1
    <3>1. k \in Nat
      OBVIOUS
    <3> HIDE DEF k
    <3>2. [p EXCEPT !.inflight = k] \in Projects
      BY <3>1 DEF Projects
    <3>3. [[p EXCEPT !.inflight = k] EXCEPT !.dirty = FALSE] \in Projects
      BY <3>2 DEF Projects
    <3>4. [p EXCEPT !.inflight = k, !.dirty = FALSE] = [[p EXCEPT !.inflight = k] EXCEPT !.dirty = FALSE]
      OBVIOUS
    <3> QED
      BY <3>3, <3>4 DEF k
  <2>5. n.inflight = reserved + 1
    BY DEF Projects
  <2> HIDE DEF n
  <2>6. q.token = reserved + 1
    OBVIOUS
  <2> HIDE DEF q
  <2>7. Append(plans, q) \in Seq(Plans)
    BY <2>3, AppendOf DEF TypeOK
  <2> QED
    BY <2>1, <2>3, <2>4, <2>5, <2>6, <2>7
<1>2. CASE ~(p.inflight = 0 /\ p.dirty)
  BY <1>2 DEF Submit, TypeOK
<1> QED
  BY <1>1, <1>2

LEMMA InvalidateTyped ==
  ASSUME TypeOK, NEW p \in Projects, p.inflight <= generation, NEW invalid \in BOOLEAN,
         InvalidateAndSubmit(p, invalid)
  PROVE  Submitted /\ (invalid => generation' > generation)
<1>1. generation \in Nat
  BY DEF TypeOK
<1>2. CASE invalid
  <2> DEFINE n == [p EXCEPT !.dirty = TRUE]
  <2>1. n \in Projects
    BY DEF Projects
  <2>2. n.inflight = p.inflight
    BY DEF Projects
  <2>3. Submit(n, generation + 1)
    BY <1>2 DEF InvalidateAndSubmit
  <2> HIDE DEF n
  <2>4. n.inflight <= generation + 1 /\ generation + 1 \in Nat
    BY <1>1, <2>1, <2>2 DEF Projects
  <2>5. /\ generation' \in Nat /\ generation' >= generation + 1
        /\ project' \in Projects /\ project'.inflight <= generation'
        /\ plans' \in Seq(Plans)
        /\ \/ plans' = plans
           \/ generation' > generation + 1
              /\ \E q \in Plans : q.token = generation' /\ plans' = Append(plans, q)
    BY <2>1, <2>3, <2>4, SubmitTyped
  <2>6. generation' > generation /\ generation' >= generation
    BY <1>1, <2>5
  <2>7. generation' > generation + 1 => generation' > generation
    BY <1>1, <2>5
  <2> QED
    BY <2>5, <2>6, <2>7 DEF Submitted
<1>3. CASE ~invalid
  <2>1. Submit(p, generation)
    BY <1>3 DEF InvalidateAndSubmit
  <2> QED
    BY <1>1, <1>3, <2>1, SubmitTyped DEF Submitted
<1> QED
  BY <1>2, <1>3

(* A project with other fields.                                             *)
LEMMA ProjectWith ==
  ASSUME NEW p \in Projects, NEW c \in Contexts, NEW r \in SUBSET Sources
  PROVE  /\ [p EXCEPT !.known = TRUE, !.retired = r, !.contexts = c] \in Projects
         /\ [p EXCEPT !.known = TRUE, !.retired = r, !.contexts = c].inflight = p.inflight
         /\ [p EXCEPT !.contexts = c] \in Projects
         /\ [p EXCEPT !.contexts = c].inflight = p.inflight
<1>1. ASSUME NEW q \in Projects
      PROVE  /\ [q EXCEPT !.contexts = c] \in Projects
             /\ [q EXCEPT !.contexts = c].inflight = q.inflight
  BY DEF Projects
<1>2. PICK k : k = [p EXCEPT !.known = TRUE]
  OBVIOUS
<1>3. k \in Projects /\ k.inflight = p.inflight
  BY <1>2 DEF Projects
<1>4. PICK l : l = [k EXCEPT !.retired = r]
  OBVIOUS
<1>5. l \in Projects /\ l.inflight = p.inflight
  BY <1>3, <1>4 DEF Projects
<1>6. [p EXCEPT !.known = TRUE, !.retired = r, !.contexts = c] = [l EXCEPT !.contexts = c]
  BY <1>2, <1>4
<1>7. [l EXCEPT !.contexts = c] \in Projects /\ [l EXCEPT !.contexts = c].inflight = p.inflight
  BY <1>1, <1>5
<1> QED
  BY <1>1, <1>6, <1>7

LEMMA PrepareTyped ==
  ASSUME TypeOK, NEW s \in Sources, NEW available \in SUBSET Sources, Prepare(s, available)
  PROVE  Submitted
<1> DEFINE members == Members(s, available)
           cs == [t \in DOMAIN project.contexts \cup {s} |->
                    IF t = s THEN members ELSE project.contexts[t]]
           r == project.retired \ {s}
           p == [project EXCEPT !.known = TRUE, !.retired = r, !.contexts = cs]
           invalid == s \notin DOMAIN project.contexts \/ project.contexts[s] # members
<1>1. /\ project \in Projects /\ project.contexts \in Contexts /\ project.retired \subseteq Sources
      /\ project.inflight <= generation
  BY DEF TypeOK, Projects
<1>2. members \subseteq Artifacts
  BY MembersTyped
<1>3. cs \in Contexts
  <2>1. /\ DOMAIN project.contexts \subseteq Sources
        /\ project.contexts \in [DOMAIN project.contexts -> SUBSET Artifacts]
    BY <1>1, ContextsAre
  <2> HIDE DEF members
  <2>2. cs \in [DOMAIN project.contexts \cup {s} -> SUBSET Artifacts]
    BY <1>2, <2>1
  <2> HIDE DEF cs
  <2> QED
    BY <2>1, <2>2, ContextsOf
<1>4. InvalidateAndSubmit(p, invalid)
  BY DEF Prepare
<1> HIDE DEF cs
<1>5. r \in SUBSET Sources
  BY <1>1
<1> HIDE DEF r
<1>6. p \in Projects /\ p.inflight <= generation
  BY <1>1, <1>3, <1>5, ProjectWith
<1>7. invalid \in BOOLEAN
  OBVIOUS
<1> HIDE DEF p, invalid
<1> QED
  BY <1>4, <1>6, <1>7, InvalidateTyped

LEMMA WorkEditSubmits ==
  ASSUME TypeOK, WorkEdit
  PROVE  Submitted
<1> DEFINE s == Head(jobs).source
<1>1. Head(jobs) \in Jobs /\ Head(jobs).kind = "Edit"
  BY HeadOf DEF WorkEdit, TypeOK
<1>2. s \in Sources
  BY <1>1 DEF Jobs
<1>3. Available \cup {s} \in SUBSET Sources
  BY <1>2 DEF Available, TypeOK
<1> QED
  BY <1>2, <1>3, PrepareTyped DEF WorkEdit

LEMMA CompleteFilesSubmits ==
  ASSUME TypeOK, CompleteFiles
  PROVE  Submitted \/ UNCHANGED <<project, generation, plans>>
<1> DEFINE available == overlays \cup onDisk
           retired == Retire(project, available)
           changed == available # Available
           again == [s \in DOMAIN retired.contexts |-> Members(s, available)]
           recomputed == IF changed THEN [retired EXCEPT !.contexts = again] ELSE retired
           invalid == recomputed.contexts # project.contexts
<1>1. available \in SUBSET Sources /\ project \in Projects /\ project.inflight <= generation
  BY DEF TypeOK
<1>2. project.contexts \in Contexts /\ project.retired \subseteq Sources
  BY <1>1 DEF Projects
<1>3. retired \in Projects /\ retired.inflight = project.inflight
  <2> DEFINE gone == DOMAIN project.contexts \ available
             kept == Restrict(project.contexts, DOMAIN project.contexts \ gone)
             more == project.retired \cup gone
  <2>1. /\ DOMAIN project.contexts \subseteq Sources
        /\ project.contexts \in [DOMAIN project.contexts -> SUBSET Artifacts]
    BY <1>2, ContextsAre
  <2>2. kept \in [DOMAIN project.contexts \ gone -> SUBSET Artifacts]
    BY <2>1 DEF Restrict
  <2>3. kept \in Contexts
    BY <2>1, <2>2, ContextsOf
  <2>4. more \in SUBSET Sources
    BY <1>2, <2>1
  <2>5. retired = [project EXCEPT !.contexts = kept, !.retired = more]
    BY DEF Retire
  <2> HIDE DEF kept, more, retired
  <2>6. PICK m : m = [project EXCEPT !.contexts = kept]
    OBVIOUS
  <2>7. retired = [m EXCEPT !.retired = more]
    BY <2>5, <2>6
  <2>8. m \in Projects /\ m.inflight = project.inflight
    BY <1>1, <2>3, <2>6 DEF Projects
  <2> QED
    BY <2>4, <2>7, <2>8 DEF Projects
<1> HIDE DEF retired
<1>4. again \in Contexts
  <2>1. DOMAIN retired.contexts \in SUBSET Sources
    BY <1>3, ContextsAre DEF Projects
  <2>2. again \in [DOMAIN retired.contexts -> SUBSET Artifacts]
    BY <1>1, <2>1, MembersTyped
  <2> HIDE DEF again
  <2> QED
    BY <2>1, <2>2, ContextsOf
<1> HIDE DEF again
<1>5. recomputed \in Projects /\ recomputed.inflight <= generation
  BY <1>1, <1>2, <1>3, <1>4, ProjectWith
<1>6. invalid \in BOOLEAN
  OBVIOUS
<1>7. \/ InvalidateAndSubmit(recomputed, invalid)
      \/ UNCHANGED <<project, generation, plans>>
  BY DEF CompleteFiles, retired, again
<1> HIDE DEF recomputed, invalid
<1> QED
  BY <1>5, <1>6, <1>7, InvalidateTyped

LEMMA CompleteSubmits ==
  ASSUME TypeOK, Complete
  PROVE  /\ Submitted \/ UNCHANGED <<project, generation, plans>>
         /\ out' \in Seq(Reports) /\ published' \in Contents
<1> DEFINE batch == Head(batches)
           w == batch.watches
           landed == [project EXCEPT !.inflight = 0]
           watches == UNION Range(w)
           released == {s \in DOMAIN w : w[s] = {}}
           f == [s \in DOMAIN w |-> [kind |-> "Watch", source |-> s, paths |-> w[s]]]
           rowsOf == SetToSeq({f[s] : s \in DOMAIN w})
           news == [landed EXCEPT !.watches = watches, !.retired = @ \ released]
           later == [landed EXCEPT !.dirty = TRUE]
<1>1. batch \in Batches /\ batches' \in Seq(Batches)
  BY HeadOf DEF Complete, TypeOK
<1>2. batch.contents \in Contents /\ w \in Contexts
  BY <1>1 DEF Batches
<1>3. /\ DOMAIN w \in SUBSET Sources /\ w \in [DOMAIN w -> SUBSET Artifacts]
      /\ watches \subseteq Artifacts
  BY <1>2, ContextsAre
<1>4. landed \in Projects /\ landed.inflight = 0
  BY DEF TypeOK, Projects
<1>5. {f[s] : s \in DOMAIN w}
        = {[kind |-> "Watch", source |-> s, paths |-> w[s]] : s \in DOMAIN w}
  OBVIOUS
<1>6. rowsOf = SetToSeq({[kind |-> "Watch", source |-> s, paths |-> w[s]] : s \in DOMAIN w})
  BY <1>5
<1>7. \/ UNCHANGED <<out, project, generation, plans, published>>
      \/ /\ published' = batch.contents
         /\ out' = out \o rowsOf \o <<[kind |-> "Relint"]>> \/ out' = out \o rowsOf \o <<>>
         /\ Submit(news, generation)
      \/ Submit(later, generation) /\ UNCHANGED <<out, published>>
  BY <1>6 DEF Complete, Resubmit
<1> HIDE DEF batch, w
<1>8. rowsOf \in Seq(Reports)
  <2>1. IsFiniteSet(DOMAIN w)
    BY <1>3, CompilerArtifactsAssumption, FS_Subset
  <2>2. f \in [DOMAIN w -> Reports]
    BY <1>3 DEF Reports
  <2> HIDE DEF f
  <2> QED
    BY <2>1, <2>2, MessagesFor
<1> HIDE DEF f, rowsOf, landed, watches, released
<1>9. news \in Projects /\ news.inflight = 0
  <2>1. PICK a : a = [landed EXCEPT !.watches = watches]
    OBVIOUS
  <2>2. a \in Projects /\ a.inflight = 0 /\ a.retired = landed.retired
    BY <1>3, <1>4, <2>1 DEF Projects
  <2>3. news = [a EXCEPT !.retired = a.retired \ released]
    BY <2>1, <2>2
  <2>4. a.retired \ released \in SUBSET Sources
    BY <2>2 DEF Projects
  <2> HIDE DEF news
  <2> QED
    BY <2>2, <2>3, <2>4 DEF Projects
<1>10. later \in Projects /\ later.inflight = 0
  BY <1>4 DEF Projects
<1> HIDE DEF news, later
<1>11. generation \in Nat /\ 0 <= generation
  BY DEF TypeOK
<1>12. ASSUME NEW n \in Projects, n.inflight = 0, Submit(n, generation)
       PROVE  Submitted
  BY <1>11, <1>12, SubmitTyped DEF Submitted
<1>13. CASE UNCHANGED <<out, project, generation, plans, published>>
  BY <1>13 DEF TypeOK
<1>14. CASE /\ published' = batch.contents
            /\ out' = out \o rowsOf \o <<[kind |-> "Relint"]>> \/ out' = out \o rowsOf \o <<>>
            /\ Submit(news, generation)
  <2>1. Submitted
    BY <1>9, <1>12, <1>14
  <2>2. out \o rowsOf \in Seq(Reports)
    BY <1>8, ConcatOf DEF TypeOK
  <2>3. <<[kind |-> "Relint"]>> \in Seq(Reports) /\ <<>> \in Seq(Reports)
    BY DEF Reports
  <2>4. \A q \in Seq(Reports) : out \o rowsOf \o q \in Seq(Reports)
    BY <2>2
  <2>5. out' \in Seq(Reports)
    BY <1>14, <2>3, <2>4
  <2> QED
    BY <1>2, <1>14, <2>1, <2>5
<1>15. CASE Submit(later, generation) /\ UNCHANGED <<out, published>>
  BY <1>10, <1>12, <1>15 DEF TypeOK
<1> QED
  BY <1>7, <1>13, <1>14, <1>15

LEMMA TypeStep == TypeOK /\ [Next]_vars => TypeOK'
<1> SUFFICES ASSUME TypeOK, [Next]_vars
             PROVE  TypeOK'
  OBVIOUS
<1> USE DEF disk, mainState, files, acquisition, watcher, history
<1>1. /\ writes \in 0..MaxWrites /\ artifacts \in [Artifacts -> 0 .. 2 * writes + 1]
      /\ 0 .. 2 * writes + 1 \subseteq Versions /\ Versions \subseteq Nat
  BY VersionsAre DEF TypeOK
<1>2. artifacts \in [Artifacts -> Versions]
  BY <1>1
<1>3. ASSUME NEW p \in Artifacts, writes < MaxWrites, writes' = writes + 1,
             NEW n \in 1..2, artifacts' = [artifacts EXCEPT ![p] = @ + n]
      PROVE  writes' \in 0..MaxWrites /\ artifacts' \in [Artifacts -> 0 .. 2 * writes' + 1]
  <2>1. writes' \in 0..MaxWrites
    BY <1>1, <1>3, CompilerArtifactsAssumption
  <2>2. \A k \in 0 .. 2 * writes + 1 : k \in 0 .. 2 * writes' + 1 /\ k + n \in 0 .. 2 * writes' + 1
    BY <1>1, <1>3
  <2> QED
    BY <1>1, <1>3, <2>1, <2>2
<1>4. ASSUME NEW p \in Artifacts, Write(p)
      PROVE  TypeOK'
  <2>1. PICK n \in 1..2 : n = IF HoldsFile(artifacts[p]) THEN 2 ELSE 1
    OBVIOUS
  <2>2. writes < MaxWrites /\ writes' = writes + 1 /\ artifacts' = [artifacts EXCEPT ![p] = @ + n]
    BY <1>4, <2>1 DEF Write
  <2>3. writes' \in 0..MaxWrites /\ artifacts' \in [Artifacts -> 0 .. 2 * writes' + 1]
    BY <1>3, <2>2
  <2> QED
    BY <1>4, <2>3 DEF TypeOK, Write
<1>5. ASSUME NEW p \in Artifacts, Delete(p)
      PROVE  TypeOK'
  <2>1. writes < MaxWrites /\ writes' = writes + 1 /\ artifacts' = [artifacts EXCEPT ![p] = @ + 1]
    BY <1>5 DEF Delete
  <2>2. 1 \in 1..2
    OBVIOUS
  <2>3. writes' \in 0..MaxWrites /\ artifacts' \in [Artifacts -> 0 .. 2 * writes' + 1]
    BY <1>3, <2>1, <2>2
  <2> QED
    BY <1>5, <2>3 DEF TypeOK, Delete
<1>6. ASSUME NEW s \in Sources
      PROVE  Edit(s) \in Jobs /\ [kind |-> "Close", source |-> s] \in Jobs
  BY DEF Edit, Jobs
<1>7. ASSUME NEW s \in Sources, DidOpen(s)
      PROVE  TypeOK'
  <2>1. jobs' \in Seq(Jobs)
    BY <1>6, <1>7, AppendOf DEF DidOpen, TypeOK
  <2> QED
    BY <1>7, <2>1 DEF TypeOK, DidOpen
<1>8. ASSUME NEW s \in Sources, DidClose(s)
      PROVE  TypeOK'
  <2>1. jobs' \in Seq(Jobs)
    BY <1>6, <1>8, AppendOf DEF DidClose, TypeOK
  <2> QED
    BY <1>8, <2>1 DEF TypeOK, DidClose
<1>9. ASSUME NEW s \in Sources, NEW t \in Sources, DidRenameFiles(s, t)
      PROVE  TypeOK'
  <2>1. rows' \in Contexts /\ \E S \in SUBSET Artifacts : counts' \in [S -> Nat \ {0}]
    BY <1>9, ReplaceTyped DEF DidRenameFiles
  <2>2. documents' \in SUBSET Sources /\ onDisk' \subseteq Sources
    BY <1>9 DEF DidRenameFiles, TypeOK
  <2>3. [kind |-> "Rename", source |-> s, to |-> t] \in Jobs
    BY DEF Jobs
  <2>4. Append(jobs, [kind |-> "Rename", source |-> s, to |-> t]) \in Seq(Jobs)
    BY <2>3, AppendOf DEF TypeOK
  <2>5. Relint(documents') \in Seq(Jobs)
    BY <2>2, RelintTyped
  <2>6. jobs' = Append(jobs, [kind |-> "Rename", source |-> s, to |-> t]) \o Relint(documents')
    BY <1>9 DEF DidRenameFiles
  <2>7. jobs' \in Seq(Jobs)
    BY <2>4, <2>5, <2>6, ConcatOf
  <2> QED
    BY <1>9, <2>1, <2>2, <2>7 DEF TypeOK, DidRenameFiles
<1>10. ASSUME TakeWatchArtifacts
       PROVE  TypeOK'
  <2>1. Head(out) \in Reports /\ Head(out).kind = "Watch" /\ out' \in Seq(Reports)
    BY <1>10, HeadOf DEF TakeWatchArtifacts, TypeOK
  <2>2. Head(out).source \in Sources /\ Head(out).paths \in SUBSET Artifacts
    BY <2>1 DEF Reports
  <2>3. rows' \in Contexts /\ \E S \in SUBSET Artifacts : counts' \in [S -> Nat \ {0}]
    BY <1>10, <2>2, ReplaceTyped DEF TakeWatchArtifacts
  <2> QED
    BY <1>10, <2>1, <2>3 DEF TypeOK, TakeWatchArtifacts
<1>11. ASSUME TakeRelintAll
       PROVE  TypeOK'
  <2>1. out' \in Seq(Reports)
    BY <1>11, HeadOf DEF TakeRelintAll, TypeOK
  <2>2. jobs' \in Seq(Jobs)
    BY <1>11, RelintTyped, ConcatOf DEF TakeRelintAll, TypeOK
  <2> QED
    BY <1>11, <2>1, <2>2 DEF TypeOK, TakeRelintAll
<1>12. ASSUME TakeEvents
       PROVE  TypeOK'
  <2> DEFINE S == Head(events)
             f == [p \in S |-> [kind |-> "Watched", path |-> p]]
  <2>1. S \in SUBSET Artifacts /\ events' \in Seq(SUBSET Artifacts)
    BY <1>12, HeadOf DEF TakeEvents, TypeOK
  <2>2. IsFiniteSet(S)
    BY <2>1, CompilerArtifactsAssumption, FS_Subset
  <2> HIDE DEF S
  <2>3. f \in [S -> Jobs]
    BY <2>1 DEF Jobs
  <2>4. {f[p] : p \in S} = {[kind |-> "Watched", path |-> p] : p \in S}
    OBVIOUS
  <2> HIDE DEF f
  <2>5. SetToSeq({f[p] : p \in S}) \in Seq(Jobs)
    BY <2>2, <2>3, MessagesFor
  <2>6. jobs' = jobs \o SetToSeq({f[p] : p \in S})
    BY <1>12, <2>4 DEF TakeEvents, S
  <2>7. jobs' \in Seq(Jobs)
    BY <2>5, <2>6, ConcatOf DEF TypeOK
  <2> QED
    BY <1>12, <2>1, <2>7 DEF TypeOK, TakeEvents
<1>13. ASSUME AdoptScope
       PROVE  TypeOK'
  <2>1. Watching \subseteq Artifacts
    BY ContextsAre DEF Watching, TypeOK
  <2>2. DOMAIN previous \subseteq Artifacts /\ previous \in [DOMAIN previous -> Versions]
    BY ContentsAre DEF TypeOK
  <2>3. previous' \in [DOMAIN previous \cap Watching -> Versions]
    BY <1>13, <2>2 DEF AdoptScope, Restrict
  <2>4. previous' \in Contents
    BY <2>2, <2>3, ContentsOf
  <2>5. unseen' \subseteq Artifacts
    BY <1>13, <2>2 DEF AdoptScope, TypeOK
  <2> QED
    BY <1>13, <2>1, <2>4, <2>5 DEF TypeOK, AdoptScope
<1>14. ASSUME Scan
       PROVE  TypeOK'
  <2>1. {q \in scope : HoldsFile(artifacts[q])} \in SUBSET Artifacts
    BY DEF TypeOK
  <2>2. Found \in [{q \in scope : HoldsFile(artifacts[q])} -> Versions]
    BY <1>2, <2>1 DEF Found
  <2>3. Found \in Contents
    BY <2>1, <2>2, ContentsOf
  <2>4. Changes(Found) \subseteq Artifacts
    BY <2>3, ContentsAre DEF Changes, TypeOK
  <2>5. events' \in Seq(SUBSET Artifacts)
    BY <1>14, <2>4, AppendOf DEF Scan, TypeOK
  <2> QED
    BY <1>14, <2>3, <2>5 DEF TypeOK, Scan
<1>15. ASSUME WorkEdit
       PROVE  TypeOK'
  <2>1. Head(jobs) \in Jobs /\ Head(jobs).kind = "Edit" /\ jobs' \in Seq(Jobs)
    BY <1>15, HeadOf DEF WorkEdit, TypeOK
  <2>2. Head(jobs).source \in Sources
    BY <2>1 DEF Jobs
  <2>3. overlays' \subseteq Sources /\ forgotten' \subseteq Sources
    BY <1>15, <2>2 DEF WorkEdit, TypeOK
  <2>4. refreshing' \in BOOLEAN
    BY <1>15 DEF WorkEdit
  <2> QED
    BY <1>15, <2>1, <2>3, <2>4, WorkEditSubmits DEF TypeOK, WorkEdit, Submitted
<1>16. ASSUME WorkClose
       PROVE  TypeOK'
  <2>1. Head(jobs) \in Jobs /\ jobs' \in Seq(Jobs)
    BY <1>16, HeadOf DEF WorkClose, TypeOK
  <2>2. [kind |-> "Relint"] \in Reports
    BY DEF Reports
  <2>3. out' \in Seq(Reports)
    BY <1>16, <2>2, AppendOf DEF WorkClose, TypeOK
  <2> QED
    BY <1>16, <2>1, <2>3 DEF TypeOK, WorkClose
<1>17. ASSUME WorkRename
       PROVE  TypeOK'
  <2>1. Head(jobs) \in Jobs /\ Head(jobs).kind = "Rename" /\ jobs' \in Seq(Jobs)
    BY <1>17, HeadOf DEF WorkRename, TypeOK
  <2>2. Head(jobs).to \in Sources
    BY <2>1 DEF Jobs
  <2>3. overlays' \subseteq Sources /\ backing' \subseteq Sources
    BY <1>17, <2>2 DEF WorkRename, Moved, TypeOK
  <2>4. Nothing \in Contexts
    <3>1. Nothing \in [{} -> SUBSET Artifacts] /\ {} \in SUBSET Sources
      BY DEF Nothing
    <3> QED
      BY <3>1, ContextsOf
  <2>5. project' \in Projects /\ project'.inflight = 0
    BY <1>17, <2>4 DEF WorkRename, NoProject, Projects
  <2>6. generation' \in Nat
    BY <1>17 DEF WorkRename, TypeOK
  <2>7. project.contexts \in Contexts /\ project.retired \subseteq Sources
    BY DEF TypeOK, Projects
  <2>8. forgotten' \subseteq Sources
    BY <1>17, <2>7, ContextsAre DEF WorkRename, TypeOK
  <2>9. project'.inflight <= generation'
    BY <2>5, <2>6
  <2> QED
    BY <1>17, <2>1, <2>3, <2>5, <2>6, <2>8, <2>9 DEF TypeOK, WorkRename
<1>18. ASSUME WorkWatched
       PROVE  TypeOK'
  <2>1. Head(jobs) \in Jobs /\ Head(jobs).kind = "Watched" /\ jobs' \in Seq(Jobs)
    BY <1>18, HeadOf DEF WorkWatched, TypeOK
  <2>2. Head(jobs).path \in Artifacts
    BY <2>1 DEF Jobs
  <2>3. reported' \in [Artifacts -> Versions]
    BY <1>2, <1>18, <2>2 DEF WorkWatched, TypeOK
  <2>4. overlooked' \subseteq Artifacts
    BY <1>18, <2>2 DEF WorkWatched, TypeOK
  <2>5. CASE InvalidateAndSubmit(project, TRUE)
    <3>1. Submitted
      BY <2>5, InvalidateTyped DEF TypeOK
    <3> QED
      BY <1>18, <2>1, <2>3, <2>4, <3>1 DEF TypeOK, WorkWatched, Submitted
  <2>6. CASE UNCHANGED <<project, generation, plans>>
    BY <1>18, <2>1, <2>3, <2>4, <2>6 DEF TypeOK, WorkWatched
  <2> QED
    BY <1>18, <2>5, <2>6 DEF WorkWatched
<1>19. ASSUME CompleteFiles
       PROVE  TypeOK'
  <2>1. /\ refreshing' = FALSE /\ backing' = onDisk
        /\ out' = out \/ out' = Append(out, [kind |-> "Relint"])
        /\ UNCHANGED <<disk, mainState, jobs, overlays, published, batches, watcher, events, history>>
    BY <1>19 DEF CompleteFiles
  <2>2. out' \in Seq(Reports)
    <3>1. [kind |-> "Relint"] \in Reports
      BY DEF Reports
    <3>2. out \in Seq(Reports)
      BY DEF TypeOK
    <3>3. Append(out, [kind |-> "Relint"]) \in Seq(Reports)
      BY <3>1, <3>2, AppendOf
    <3> QED
      BY <2>1, <3>2, <3>3
  <2>3. CASE Submitted
    BY <2>1, <2>2, <2>3 DEF TypeOK, Submitted
  <2>4. CASE UNCHANGED <<project, generation, plans>>
    BY <2>1, <2>2, <2>4 DEF TypeOK
  <2> QED
    BY <1>19, <2>3, <2>4, CompleteFilesSubmits
<1>20. ASSUME ReadPlan
       PROVE  TypeOK'
  <2> DEFINE plan == Head(plans)
             read == Closure(UNION Range(plan.contexts), artifacts)
             watched == DOMAIN plan.contexts \cup plan.retired
             sets == [s \in watched |->
                        IF s \in DOMAIN plan.contexts THEN Closure(plan.contexts[s], artifacts) ELSE {}]
             batch == [token |-> plan.token, contents |-> Restrict(artifacts, read),
                       watches |-> sets]
  <2>1. plan \in Plans /\ plans' \in Seq(Plans)
    BY <1>20, HeadOf DEF ReadPlan, TypeOK
  <2>2. plan.token \in Nat /\ watched \in SUBSET Sources
    BY <2>1, ContextsAre DEF Plans
  <2>3. \A S, c : Closure(S, c) \subseteq Artifacts
    BY DEF Closure
  <2>4. read \in SUBSET Artifacts
    BY <2>3
  <2>5. batches' = Append(batches, batch)
    BY <1>20 DEF ReadPlan
  <2> HIDE DEF plan, read, watched
  <2>6. Restrict(artifacts, read) \in [read -> Versions]
    BY <1>2, <2>4 DEF Restrict
  <2>7. sets \in [watched -> SUBSET Artifacts]
    BY <2>3
  <2> HIDE DEF sets
  <2>8. batch \in Batches
    BY <2>2, <2>4, <2>6, <2>7, ContextsOf, ContentsOf DEF Batches
  <2>9. batches' \in Seq(Batches)
    BY <2>5, <2>8, AppendOf DEF TypeOK
  <2> QED
    BY <1>20, <2>1, <2>9 DEF TypeOK, ReadPlan
<1>21. ASSUME Complete
       PROVE  TypeOK'
  <2>1. batches' \in Seq(Batches)
    BY <1>21, HeadOf DEF Complete, TypeOK
  <2>2. UNCHANGED <<disk, mainState, jobs, files, watcher, events, history>>
    BY <1>21 DEF Complete
  <2>3. out' \in Seq(Reports) /\ published' \in Contents
    BY <1>21, CompleteSubmits
  <2>4. CASE Submitted
    BY <2>1, <2>2, <2>3, <2>4 DEF TypeOK, Submitted
  <2>5. CASE UNCHANGED <<project, generation, plans>>
    BY <2>1, <2>2, <2>3, <2>5 DEF TypeOK
  <2> QED
    BY <1>21, <2>4, <2>5, CompleteSubmits
<1>22. ASSUME UNCHANGED vars
       PROVE  TypeOK'
  BY <1>22 DEF TypeOK, vars
<1> QED
  BY <1>4, <1>5, <1>7, <1>8, <1>9, <1>10, <1>11, <1>12, <1>13, <1>14, <1>15, <1>16, <1>17, <1>18,
     <1>19, <1>20, <1>21, <1>22 DEF Next, Environment, Main, Watcher, Worker

LEMMA TypeInit == Init => TypeOK
<1> SUFFICES ASSUME Init
             PROVE  TypeOK
  OBVIOUS
<1>1. Nothing \in [{} -> SUBSET Artifacts] /\ Nothing \in [{} -> Versions]
      /\ Nothing \in [{} -> Nat \ {0}] /\ {} \in SUBSET Sources /\ {} \in SUBSET Artifacts
  BY DEF Nothing
<1>2. Nothing \in Contexts /\ Nothing \in Contents
  BY <1>1, ContextsOf, ContentsOf
<1>3. rows \in Contexts /\ published \in Contents /\ previous \in Contents
  BY <1>2 DEF Init
<1>4. /\ writes \in 0..MaxWrites /\ artifacts \in [Artifacts -> 0 .. 2 * writes + 1]
      /\ reported \in [Artifacts -> Versions]
  BY CompilerArtifactsAssumption DEF Init, Versions
<1>5. documents \subseteq Sources /\ onDisk \subseteq Sources
  BY CompilerArtifactsAssumption DEF Init
<1>6. jobs \in Seq(Jobs)
  BY <1>5, RelintTyped DEF Init
<1>7. project \in Projects /\ project.inflight = 0
  BY <1>2 DEF Init, NoProject, Projects
<1>8. /\ out \in Seq(Reports) /\ plans \in Seq(Plans) /\ batches \in Seq(Batches)
      /\ events \in Seq(SUBSET Artifacts)
  BY DEF Init
<1>9. \E S \in SUBSET Artifacts : counts \in [S -> Nat \ {0}]
  BY <1>1 DEF Init
<1>10. /\ switches \in Nat /\ generation \in Nat /\ generation = 0 /\ refreshing \in BOOLEAN
       /\ overlays \subseteq Sources /\ backing \subseteq Sources /\ scope \subseteq Artifacts
       /\ overlooked \subseteq Artifacts /\ unseen \subseteq Artifacts /\ forgotten \subseteq Sources
  BY DEF Init
<1>11. project.inflight <= generation
  BY <1>7, <1>10
<1> QED
  BY <1>3, <1>4, <1>5, <1>6, <1>7, <1>8, <1>9, <1>10, <1>11 DEF TypeOK

(* Every variable keeps its type.                                           *)
THEOREM TypeCorrect == Spec => []TypeOK
  BY TypeInit, TypeStep, PTL DEF Spec

-----------------------------------------------------------------------------
(* Rows and counts of watched paths.                                        *)

(* The rows that hold a path.                                               *)
RowsOf(p) == {s \in DOMAIN rows : p \in rows[s]}

(* How many a set has when one element is put in or taken out.              *)
LEMMA OneElement ==
  ASSUME NEW H, IsFiniteSet(H), NEW s
  PROVE  /\ Cardinality(H) \in Nat
         /\ Cardinality(H \ {s}) \in Nat /\ Cardinality((H \ {s}) \cup {s}) \in Nat
         /\ Cardinality(H \ {s}) = Cardinality(H) - (IF s \in H THEN 1 ELSE 0)
         /\ Cardinality((H \ {s}) \cup {s}) = Cardinality(H) - (IF s \in H THEN 1 ELSE 0) + 1
<1>1. IsFiniteSet(H \ {s}) /\ Cardinality(H) \in Nat /\ Cardinality(H \ {s}) \in Nat
      /\ Cardinality(H \ {s}) = IF s \in H THEN Cardinality(H) - 1 ELSE Cardinality(H)
  BY FS_RemoveElement, FS_CardinalityType
<1>2. s \notin H \ {s}
  OBVIOUS
<1>3. Cardinality((H \ {s}) \cup {s}) = Cardinality(H \ {s}) + 1
  BY <1>1, <1>2, FS_AddElement
<1> QED
  BY <1>1, <1>3

LEMMA ReplaceKeepsCounts ==
  ASSUME TypeOK, CountsMatchRows, NEW s, NEW paths, ReplaceArtifactWatches(s, paths)
  PROVE  CountsMatchRows'
<1> DEFINE old == IF s \in DOMAIN rows THEN rows[s] ELSE {}
           count(p) == IF p \in DOMAIN counts THEN counts[p] ELSE 0
           D == DOMAIN counts \cup paths
           after == [p \in D |-> (IF p \in DOMAIN counts THEN counts[p] ELSE 0)
                                   - (IF p \in old THEN 1 ELSE 0) + (IF p \in paths THEN 1 ELSE 0)]
           T == (DOMAIN rows \ {s}) \cup (IF paths = {} THEN {} ELSE {s})
           next(p) == {t \in DOMAIN rows' : p \in rows'[t]}
<1>1. /\ rows' = [t \in T |-> IF t = s THEN paths ELSE rows[t]]
      /\ counts' = [p \in {q \in DOMAIN after : after[q] > 0} |-> after[p]]
  BY DEF ReplaceArtifactWatches
<1>2. IsFiniteSet(DOMAIN rows)
  BY ContextsAre, CompilerArtifactsAssumption, FS_Subset DEF TypeOK
<1>3. ASSUME NEW p
      PROVE  /\ IsFiniteSet(RowsOf(p))
             /\ next(p) = (RowsOf(p) \ {s}) \cup (IF p \in paths THEN {s} ELSE {})
             /\ s \in RowsOf(p) <=> p \in old
  <2>1. IsFiniteSet(RowsOf(p))
    BY <1>2, FS_Subset DEF RowsOf
  <2>2. next(p) = (RowsOf(p) \ {s}) \cup (IF p \in paths THEN {s} ELSE {})
    BY <1>1 DEF RowsOf
  <2> QED
    BY <2>1, <2>2 DEF RowsOf
<1>4. ASSUME NEW p
      PROVE  /\ p \in Watching <=> RowsOf(p) # {}
             /\ p \in Watching' <=> next(p) # {}
  BY DEF Watching, Range, RowsOf
<1>5. ASSUME NEW p
      PROVE  count(p) = Cardinality(RowsOf(p))
  <2>1. CASE p \in DOMAIN counts
    BY <2>1 DEF CountsMatchRows, RowsOf
  <2>2. CASE p \notin DOMAIN counts
    <3>1. RowsOf(p) = {}
      BY <1>4, <2>2 DEF CountsMatchRows
    <3> QED
      BY <2>2, <3>1, FS_EmptySet
  <2> QED
    BY <2>1, <2>2
<1> HIDE DEF next
<1>6. ASSUME NEW p
      PROVE  /\ Cardinality(next(p)) \in Nat /\ (Cardinality(next(p)) = 0 <=> next(p) = {})
             /\ Cardinality(next(p)) = count(p) - (IF p \in old THEN 1 ELSE 0)
                                                + (IF p \in paths THEN 1 ELSE 0)
  <2> HIDE DEF old, count
  <2>1. /\ Cardinality(RowsOf(p)) \in Nat
        /\ Cardinality(RowsOf(p) \ {s}) \in Nat /\ Cardinality((RowsOf(p) \ {s}) \cup {s}) \in Nat
        /\ Cardinality(RowsOf(p) \ {s}) = Cardinality(RowsOf(p)) - (IF s \in RowsOf(p) THEN 1 ELSE 0)
        /\ Cardinality((RowsOf(p) \ {s}) \cup {s})
             = Cardinality(RowsOf(p)) - (IF s \in RowsOf(p) THEN 1 ELSE 0) + 1
    BY <1>3, OneElement
  <2>2. /\ Cardinality(next(p)) \in Nat
        /\ Cardinality(next(p)) = Cardinality(RowsOf(p)) - (IF s \in RowsOf(p) THEN 1 ELSE 0)
                                                         + (IF p \in paths THEN 1 ELSE 0)
    <3>1. CASE p \in paths
      <4>1. next(p) = (RowsOf(p) \ {s}) \cup {s}
        BY <1>3, <3>1
      <4> QED
        BY <2>1, <3>1, <4>1
    <3>2. CASE p \notin paths
      <4>1. next(p) = RowsOf(p) \ {s}
        BY <1>3, <3>2
      <4> QED
        BY <2>1, <3>2, <4>1
    <3> QED
      BY <3>1, <3>2
  <2>3. IsFiniteSet(next(p))
    <3>1. IsFiniteSet(RowsOf(p) \ {s})
      BY <1>3, FS_RemoveElement
    <3>2. IsFiniteSet((RowsOf(p) \ {s}) \cup {s})
      BY <3>1, FS_AddElement
    <3>3. next(p) \subseteq (RowsOf(p) \ {s}) \cup {s}
      BY <1>3
    <3> QED
      BY <3>2, <3>3, FS_Subset
  <2>4. Cardinality(next(p)) = 0 <=> next(p) = {}
    BY <2>3, FS_EmptySet
  <2> QED
    BY <1>3, <1>5, <2>2, <2>4
<1>7. \A p \in D : after[p] = Cardinality(next(p))
  BY <1>6
<1>8. DOMAIN after = D
  OBVIOUS
<1> HIDE DEF after
<1>9. \A p : next(p) # {} => p \in D
  <2> SUFFICES ASSUME NEW p, next(p) # {}
               PROVE  p \in D
    OBVIOUS
  <2>1. p \in paths \/ RowsOf(p) # {}
    BY <1>3
  <2> QED
    BY <1>4, <2>1 DEF CountsMatchRows
<1>10. DOMAIN counts' = {p \in D : next(p) # {}}
  <2>1. \A p \in D : after[p] > 0 <=> next(p) # {}
    BY <1>6, <1>7
  <2> QED
    BY <1>1, <1>8, <2>1
<1>11. DOMAIN counts' = Watching'
  BY <1>4, <1>9, <1>10
<1>12. \A p \in DOMAIN counts' : counts'[p] = Cardinality(next(p))
  BY <1>1, <1>7, <1>8
<1> QED
  BY <1>11, <1>12 DEF CountsMatchRows, next

(* The counts know exactly the paths of the rows, as often as rows hold     *)
(* them: what the main loop watches never depends on rows it has replaced.  *)
THEOREM CountsFollowRows == Spec => []CountsMatchRows
<1>1. Init => CountsMatchRows
  BY DEF Init, Nothing, CountsMatchRows, Watching, Range
<1>2. TypeOK /\ CountsMatchRows /\ [Next]_vars => CountsMatchRows'
  <2> SUFFICES ASSUME TypeOK, CountsMatchRows, [Next]_vars
               PROVE  CountsMatchRows'
    OBVIOUS
  <2>1. CASE \E s, t \in Sources : DidRenameFiles(s, t)
    BY <2>1, ReplaceKeepsCounts DEF DidRenameFiles
  <2>2. CASE TakeWatchArtifacts
    BY <2>2, ReplaceKeepsCounts DEF TakeWatchArtifacts
  <2>3. CASE UNCHANGED <<rows, counts>>
    BY <2>3 DEF CountsMatchRows, Watching
  <2> QED
    BY <2>1, <2>2, <2>3
    DEF Next, Environment, Main, Watcher, Worker, vars, mainState, Write, Delete, DidOpen,
        DidClose, TakeRelintAll, TakeEvents, AdoptScope, Scan, WorkEdit, WorkClose, WorkRename,
        WorkWatched, CompleteFiles, Complete, ReadPlan
<1> QED
  BY <1>1, <1>2, TypeInit, TypeStep, PTL DEF Spec

-----------------------------------------------------------------------------
(* Superseded batches.                                                      *)

(* Plans and batches travel in the order of their generations, and none is  *)
(* ahead of the worker.                                                     *)
TokensInOrder ==
  /\ \A i \in DOMAIN plans : plans[i].token <= generation
  /\ \A i \in DOMAIN batches : batches[i].token <= generation
  /\ \A i \in DOMAIN batches, j \in DOMAIN plans : batches[i].token < plans[j].token
  /\ \A i, j \in DOMAIN plans : i < j => plans[i].token < plans[j].token

ReportedIsPast == \A p \in Artifacts : reported[p] <= artifacts[p]

(* A batch of the last generation was read after everything that the worker *)
(* has heard of, except for what it dropped.                                *)
LastIsCurrent ==
  \A i \in DOMAIN batches : batches[i].token = generation =>
    \A p \in DOMAIN batches[i].contents : batches[i].contents[p] >= reported[p] \/ p \in overlooked

BatchInv == TypeOK /\ TokensInOrder /\ ReportedIsPast /\ LastIsCurrent

LEMMA TokensAre ==
  ASSUME TypeOK
  PROVE  /\ plans \in Seq(Plans) /\ batches \in Seq(Batches)
         /\ \A i \in DOMAIN plans : plans[i].token \in Nat
         /\ \A i \in DOMAIN batches : batches[i].token \in Nat
<1>1. plans \in Seq(Plans) /\ batches \in Seq(Batches)
  BY DEF TypeOK
<1>2. \A i \in DOMAIN plans : plans[i] \in Plans
  BY <1>1
<1>3. \A i \in DOMAIN batches : batches[i] \in Batches
  BY <1>1
<1>4. \A i \in DOMAIN plans : plans[i].token \in Nat
  BY <1>2 DEF Plans
<1>5. \A i \in DOMAIN batches : batches[i].token \in Nat
  BY <1>3 DEF Batches
<1> QED
  BY <1>1, <1>4, <1>5

(* What a step of the worker does to the batches that travel.               *)
LEMMA SubmitKeeps ==
  ASSUME TypeOK, TokensInOrder, Submitted \/ UNCHANGED <<generation, plans>>,
         batches' = batches \/ (batches # <<>> /\ batches' = Tail(batches))
  PROVE  /\ TokensInOrder'
         /\ \A i \in DOMAIN batches' : batches'[i].token = generation' =>
              generation' = generation /\ \E j \in DOMAIN batches : batches'[i] = batches[j]
<1>1. /\ generation \in Nat /\ generation' \in Nat /\ generation <= generation'
      /\ plans \in Seq(Plans) /\ batches \in Seq(Batches)
  BY DEF TypeOK, Submitted
<1>2. /\ \A i \in DOMAIN plans : plans[i].token \in Nat
      /\ \A i \in DOMAIN batches : batches[i].token \in Nat
  BY TokensAre
<1>3. \A i \in DOMAIN batches' : \E j \in DOMAIN batches : batches'[i] = batches[j]
  BY <1>1, HeadOf
<1>4. \A i \in DOMAIN batches' :
        /\ batches'[i].token \in Nat /\ batches'[i].token <= generation
        /\ \A j \in DOMAIN plans : batches'[i].token < plans[j].token
  BY <1>2, <1>3 DEF TokensInOrder
<1>5. CASE UNCHANGED plans
  <2>1. /\ \A i \in DOMAIN plans' : plans'[i].token <= generation'
        /\ \A i \in DOMAIN batches' : batches'[i].token <= generation'
    BY <1>1, <1>2, <1>4, <1>5 DEF TokensInOrder
  <2> QED
    BY <1>1, <1>3, <1>4, <1>5, <2>1 DEF TokensInOrder
<1>6. ASSUME NEW q \in Plans, q.token = generation', plans' = Append(plans, q),
             generation' > generation
      PROVE  /\ TokensInOrder'
             /\ \A i \in DOMAIN batches' : batches'[i].token # generation'
  <2> DEFINE n == Len(plans) + 1
  <2>1. /\ n \in DOMAIN plans' /\ plans'[n] = q /\ n \in Nat
        /\ \A i \in DOMAIN plans' : i = n \/ (i \in DOMAIN plans /\ i < n /\ plans'[i] = plans[i])
    BY <1>1, <1>6, AppendOf
  <2> HIDE DEF n
  <2>2. \A i \in DOMAIN batches' : batches'[i].token < generation'
    BY <1>1, <1>4, <1>6
  <2>3. \A i \in DOMAIN plans : plans[i].token < generation'
    BY <1>1, <1>2, <1>6 DEF TokensInOrder
  <2>4. \A i \in DOMAIN plans' : plans'[i].token <= generation'
    BY <1>1, <1>2, <1>6, <2>1, <2>3
  <2>5. \A i \in DOMAIN batches', j \in DOMAIN plans' : batches'[i].token < plans'[j].token
    BY <1>4, <1>6, <2>1, <2>2
  <2>6. \A i, j \in DOMAIN plans' : i < j => plans'[i].token < plans'[j].token
    <3> SUFFICES ASSUME NEW i \in DOMAIN plans', NEW j \in DOMAIN plans', i < j
                 PROVE  plans'[i].token < plans'[j].token
      OBVIOUS
    <3>1. i # n
      BY <1>1, <2>1
    <3>2. CASE j = n
      BY <1>6, <2>1, <2>3, <3>1, <3>2
    <3>3. CASE j # n
      BY <2>1, <3>1, <3>3 DEF TokensInOrder
    <3> QED
      BY <3>2, <3>3
  <2>7. \A i \in DOMAIN batches' : batches'[i].token <= generation' /\ batches'[i].token # generation'
    BY <1>1, <1>4, <2>2
  <2> QED
    BY <2>4, <2>5, <2>6, <2>7 DEF TokensInOrder
<1> QED
  BY <1>5, <1>6 DEF Submitted

LEMMA BatchStep ==
  ASSUME BatchInv, [Next]_vars
  PROVE  TokensInOrder' /\ ReportedIsPast' /\ LastIsCurrent'
<1> USE DEF disk, mainState, files, acquisition, watcher, history
<1>1. TypeOK /\ TokensInOrder /\ ReportedIsPast /\ LastIsCurrent
  BY DEF BatchInv
<1>2. /\ artifacts \in [Artifacts -> Nat] /\ reported \in [Artifacts -> Nat] /\ generation \in Nat
  BY <1>1, VersionsAre DEF TypeOK
<1>3. ASSUME NEW i \in DOMAIN batches
      PROVE  /\ DOMAIN batches[i].contents \subseteq Artifacts
             /\ \A p \in DOMAIN batches[i].contents : batches[i].contents[p] \in Nat
  <2>1. batches[i] \in Batches
    BY <1>1 DEF TypeOK
  <2>2. batches[i].contents \in Contents
    BY <2>1 DEF Batches
  <2> QED
    BY <2>2, ContentsAre, CompilerArtifactsAssumption DEF Versions
<1>4. ASSUME Submitted \/ UNCHANGED <<generation, plans>>,
             batches' = batches \/ (batches # <<>> /\ batches' = Tail(batches)),
             UNCHANGED <<artifacts, reported, overlooked>>
      PROVE  TokensInOrder' /\ ReportedIsPast' /\ LastIsCurrent'
  <2>1. /\ TokensInOrder'
        /\ \A i \in DOMAIN batches' : batches'[i].token = generation' =>
             generation' = generation /\ \E j \in DOMAIN batches : batches'[i] = batches[j]
    BY <1>1, <1>4, SubmitKeeps
  <2>2. ReportedIsPast'
    BY <1>1, <1>4 DEF ReportedIsPast
  <2>3. LastIsCurrent'
    BY <1>1, <1>4, <2>1 DEF LastIsCurrent
  <2> QED
    BY <2>1, <2>2, <2>3
<1>5. ASSUME UNCHANGED <<generation, plans, batches, reported, overlooked>>,
             \A p \in Artifacts : artifacts'[p] >= artifacts[p] /\ artifacts'[p] \in Nat
      PROVE  TokensInOrder' /\ ReportedIsPast' /\ LastIsCurrent'
  <2>1. ReportedIsPast'
    BY <1>1, <1>2, <1>5 DEF ReportedIsPast
  <2> QED
    BY <1>1, <1>5, <2>1 DEF TokensInOrder, LastIsCurrent
<1>6. CASE \E p \in Artifacts : Write(p) \/ Delete(p)
  <2>1. PICK p \in Artifacts, n \in 1..2 : artifacts' = [artifacts EXCEPT ![p] = @ + n]
    <3>1. PICK p \in Artifacts : Write(p) \/ Delete(p)
      BY <1>6
    <3>2. 1 \in 1..2 /\ 2 \in 1..2
      OBVIOUS
    <3> QED
      BY <3>1, <3>2 DEF Write, Delete
  <2>2. \A q \in Artifacts : artifacts'[q] >= artifacts[q] /\ artifacts'[q] \in Nat
    BY <1>2, <2>1
  <2> QED
    BY <1>5, <1>6, <2>2 DEF Write, Delete
<1>7. CASE \E s \in Sources : DidOpen(s) \/ DidClose(s)
  BY <1>4, <1>7 DEF DidOpen, DidClose
<1>8. CASE \E s, t \in Sources : DidRenameFiles(s, t)
  BY <1>4, <1>8 DEF DidRenameFiles
<1>9. CASE Main
  BY <1>4, <1>9 DEF Main, TakeWatchArtifacts, TakeRelintAll, TakeEvents
<1>10. CASE Watcher
  BY <1>4, <1>10 DEF Watcher, AdoptScope, Scan
<1>11. CASE WorkEdit
  BY <1>1, <1>4, <1>11, WorkEditSubmits DEF WorkEdit
<1>12. CASE WorkClose
  BY <1>4, <1>12 DEF WorkClose
<1>13. CASE WorkRename
  <2>1. /\ generation' = generation \/ generation' = generation + 1
        /\ UNCHANGED <<plans, batches, artifacts, reported, overlooked>>
    BY <1>2, <1>13 DEF WorkRename
  <2>2. TokensInOrder'
    <3>1. \A i \in DOMAIN plans : plans[i].token <= generation'
      <4>1. \A i \in DOMAIN plans : plans[i].token \in Nat
        BY <1>1, TokensAre
      <4> QED
        BY <1>1, <1>2, <2>1, <4>1 DEF TokensInOrder
    <3>2. \A i \in DOMAIN batches : batches[i].token <= generation'
      <4>1. \A i \in DOMAIN batches : batches[i].token \in Nat
        BY <1>1, TokensAre
      <4> QED
        BY <1>1, <1>2, <2>1, <4>1 DEF TokensInOrder
    <3> QED
      BY <1>1, <2>1, <3>1, <3>2 DEF TokensInOrder
  <2>3. \A i \in DOMAIN batches : batches[i].token = generation' => generation' = generation
    <3>1. \A i \in DOMAIN batches : batches[i].token \in Nat /\ batches[i].token <= generation
      BY <1>1, TokensAre DEF TokensInOrder
    <3> QED
      BY <1>2, <2>1, <3>1
  <2>4. LastIsCurrent'
    BY <1>1, <2>1, <2>3 DEF LastIsCurrent
  <2> QED
    BY <1>1, <2>1, <2>2, <2>4 DEF ReportedIsPast
<1>14. CASE WorkWatched
  <2> DEFINE path == Head(jobs).path
  <2>1. /\ reported' = [reported EXCEPT ![path] = artifacts[path]]
        /\ UNCHANGED <<artifacts, batches>>
    BY <1>14 DEF WorkWatched
  <2>2. ReportedIsPast'
    BY <1>1, <1>2, <2>1 DEF ReportedIsPast
  <2> HIDE DEF path
  <2>3. CASE InvalidateAndSubmit(project, TRUE)
    <3>1. Submitted /\ generation' > generation
      BY <1>1, <2>3, InvalidateTyped DEF TypeOK
    <3>2. /\ TokensInOrder'
          /\ \A i \in DOMAIN batches' : batches'[i].token = generation' => generation' = generation
      BY <1>1, <2>1, <3>1, SubmitKeeps
    <3>3. LastIsCurrent'
      BY <1>2, <3>1, <3>2 DEF LastIsCurrent
    <3> QED
      BY <2>2, <3>2, <3>3
  <2>4. CASE overlooked' = overlooked \cup {path} /\ UNCHANGED <<project, generation, plans>>
    <3>1. TokensInOrder'
      BY <1>1, <2>1, <2>4 DEF TokensInOrder
    <3>2. LastIsCurrent'
      BY <1>1, <1>2, <1>3, <2>1, <2>4 DEF LastIsCurrent
    <3> QED
      BY <2>2, <3>1, <3>2
  <2> QED
    BY <1>14, <2>3, <2>4 DEF WorkWatched, path
<1>15. CASE CompleteFiles
  BY <1>1, <1>4, <1>15, CompleteFilesSubmits DEF CompleteFiles
<1>16. CASE Complete
  BY <1>1, <1>4, <1>16, CompleteSubmits DEF Complete
<1>17. CASE ReadPlan
  <2> DEFINE plan == Head(plans)
             read == Closure(UNION Range(plan.contexts), artifacts)
             sets == [s \in DOMAIN plan.contexts \cup plan.retired |->
                        IF s \in DOMAIN plan.contexts THEN Closure(plan.contexts[s], artifacts) ELSE {}]
             batch == [token |-> plan.token, contents |-> Restrict(artifacts, read),
                       watches |-> sets]
  <2>1. /\ batches' = Append(batches, batch) /\ batch.token = plan.token
        /\ batch.contents = Restrict(artifacts, read)
    BY <1>17 DEF ReadPlan
  <2> HIDE DEF batch
  <2>2. /\ plans' = Tail(plans) /\ plans # <<>> /\ overlooked' = overlooked \ read
        /\ UNCHANGED <<generation, artifacts, reported>>
    BY <1>17 DEF ReadPlan
  <2>3. read \subseteq Artifacts
    BY DEF Closure
  <2> HIDE DEF read
  <2>4. /\ 1 \in DOMAIN plans /\ plan = plans[1]
        /\ \A i \in DOMAIN plans' : i + 1 \in DOMAIN plans /\ plans'[i] = plans[i + 1]
        /\ DOMAIN plans' \subseteq Nat \ {0}
    BY <1>1, <2>2, HeadOf DEF TypeOK
  <2> HIDE DEF plan
  <2>5. \A i \in DOMAIN batches' :
          \/ i \in DOMAIN batches /\ batches'[i] = batches[i]
          \/ batches'[i] = batch
    BY <1>1, <2>1 DEF TypeOK
  <2>6. \A i \in DOMAIN plans : plans[i].token \in Nat
    BY <1>1, TokensAre
  <2>7. \A i \in DOMAIN batches : batches[i].token \in Nat
    BY <1>1, TokensAre
  <2>8. batch.token \in Nat /\ batch.token <= generation
    BY <1>1, <2>1, <2>4, <2>6 DEF TokensInOrder
  <2>9. \A j \in DOMAIN plans' : batch.token < plans'[j].token
    BY <1>1, <2>1, <2>4 DEF TokensInOrder
  <2>10. TokensInOrder'
    BY <1>1, <2>2, <2>4, <2>5, <2>8, <2>9 DEF TokensInOrder
  <2>11. \A i \in DOMAIN batches : batches[i].token # generation
    BY <1>1, <1>2, <2>4, <2>6, <2>7 DEF TokensInOrder
  <2>12. \A p \in DOMAIN batch.contents : batch.contents[p] >= reported[p]
    BY <1>1, <1>2, <2>1, <2>3 DEF Restrict, ReportedIsPast
  <2>13. LastIsCurrent'
    BY <2>2, <2>5, <2>11, <2>12 DEF LastIsCurrent
  <2> QED
    BY <1>1, <2>2, <2>10, <2>13 DEF ReportedIsPast
<1>18. CASE UNCHANGED vars
  BY <1>4, <1>18 DEF vars
<1> QED
  BY <1>6, <1>7, <1>8, <1>9, <1>10, <1>11, <1>12, <1>13, <1>14, <1>15, <1>16, <1>17, <1>18
  DEF Next, Environment, Worker

LEMMA BatchInvariant == Spec => []BatchInv
<1>1. Init => BatchInv
  <2> SUFFICES ASSUME Init
               PROVE  TokensInOrder /\ ReportedIsPast /\ LastIsCurrent
    BY TypeInit DEF BatchInv
  <2>1. plans = <<>> /\ batches = <<>>
    BY DEF Init
  <2>2. \A p \in Artifacts : reported[p] = 0 /\ artifacts[p] \in {0, 1}
    BY DEF Init
  <2> QED
    BY <2>1, <2>2 DEF TokensInOrder, ReportedIsPast, LastIsCurrent
<1>2. BatchInv /\ [Next]_vars => BatchInv'
  BY TypeStep, BatchStep DEF BatchInv
<1> QED
  BY <1>1, <1>2, PTL DEF Spec

(* What is published is never older than what the worker has heard of, as   *)
(* long as it has not dropped the change: a batch that was read before the  *)
(* change is rejected, whenever it completes.                               *)
THEOREM NoSupersededBatch == Spec => SupersededNeverPublished
<1>1. BatchInv /\ [Next]_vars =>
        [published' # published =>
           \A p \in DOMAIN published' : published'[p] >= reported[p] \/ p \in overlooked]_vars
  <2> SUFFICES ASSUME BatchInv, Next, published' # published
               PROVE  \A p \in DOMAIN published' : published'[p] >= reported[p] \/ p \in overlooked
    BY DEF vars, acquisition
  <2>1. Complete
    BY DEF Next, Environment, Main, Watcher, Worker, acquisition, Write, Delete, DidOpen, DidClose,
           DidRenameFiles, TakeWatchArtifacts, TakeRelintAll, TakeEvents, AdoptScope, Scan, WorkEdit,
           WorkClose, WorkRename, WorkWatched, CompleteFiles, ReadPlan
  <2>2. /\ batches # <<>> /\ Head(batches).token = generation
        /\ published' = Head(batches).contents
    BY <2>1 DEF Complete, Accepts
  <2>3. 1 \in DOMAIN batches /\ Head(batches) = batches[1]
    BY <2>2, HeadOf DEF BatchInv, TypeOK
  <2> QED
    BY <2>2, <2>3 DEF BatchInv, LastIsCurrent
<1> QED
  BY <1>1, BatchInvariant, PTL DEF Spec, SupersededNeverPublished

-----------------------------------------------------------------------------
(* What is published and watched, once everything has come to rest: the     *)
(* parts of the invariant.                                                  *)

WatchOf(s, message) == message.kind = "Watch" /\ message.source = s

(* Once the reports have been taken, the row of s, now row, is paths.       *)
SettledIn(reports, row, s, paths) ==
  /\ \A i \in DOMAIN reports : WatchOf(s, reports[i]) =>
       \/ reports[i].paths = paths
       \/ \E j \in DOMAIN reports : j > i /\ WatchOf(s, reports[j])
  /\ (\A i \in DOMAIN reports : ~WatchOf(s, reports[i])) => row = paths

Settles(s, paths) == SettledIn(out, RowOf(s), s, paths)

(* A change of p has not reached the worker, or never will.                 *)
Outstanding(p) ==
  \/ p \in overlooked \cup unseen
  \/ \E i \in DOMAIN events : p \in events[i]
  \/ \E i \in DOMAIN jobs : jobs[i].kind = "Watched" /\ jobs[i].path = p
  \/ p \in DOMAIN previous /\ previous[p] # artifacts[p]
  \/ p \notin DOMAIN previous /\ HoldsFile(artifacts[p])

Renaming == \E i \in DOMAIN jobs : jobs[i].kind = "Rename"

(* The batch in flight is somewhere, and what is dirty is in flight.        *)
PendingInv ==
  /\ \A i \in DOMAIN plans : plans[i].token # 0
  /\ \A i \in DOMAIN batches : batches[i].token # 0
  /\ project.dirty => project.inflight # 0
  /\ project.inflight # 0 =>
       \/ \E i \in DOMAIN plans : plans[i].token = project.inflight
       \/ \E i \in DOMAIN batches : batches[i].token = project.inflight

ProjectInv ==
  /\ ~project.known => project = NoProject
  /\ project.retired \cap DOMAIN project.contexts = {}

PlanCurrent(plan) ==
  plan.contexts = project.contexts /\ plan.retired = project.retired

Good(contents) == \A p \in DOMAIN contents : contents[p] = artifacts[p] \/ Outstanding(p)

BatchCurrent(batch) ==
  /\ DOMAIN batch.watches = DOMAIN project.contexts \cup project.retired
  /\ \A s \in project.retired : batch.watches[s] = {}
  /\ \A s \in DOMAIN project.contexts :
       /\ batch.watches[s] = Closure(project.contexts[s], batch.contents)
       /\ batch.watches[s] \subseteq DOMAIN batch.contents
  /\ Good(batch.contents)

Awaited(token) == project.inflight # 0 /\ token = generation /\ project.inflight = generation

PlansInv == \A i \in DOMAIN plans : Awaited(plans[i].token) => PlanCurrent(plans[i])
BatchesInv == \A i \in DOMAIN batches : Awaited(batches[i].token) => BatchCurrent(batches[i])

RestInv ==
  project.known /\ ~Pending =>
    /\ plans = <<>>
    /\ project.retired = {}
    /\ Good(published)
    /\ \A s \in DOMAIN project.contexts :
         /\ Closure(project.contexts[s], published) \subseteq DOMAIN published
         /\ ~Renaming => Settles(s, Closure(project.contexts[s], published))

RowsInv ==
  /\ \A s \in DOMAIN rows : rows[s] # {}
  /\ \A s \in Sources \ (DOMAIN project.contexts \cup project.retired \cup forgotten) : Settles(s, {})

PreviousIsPast == \A p \in DOMAIN previous : previous[p] <= artifacts[p]

-----------------------------------------------------------------------------
(* What is read: the closure of some paths depends on the contents of the   *)
(* artifacts in it only.                                                    *)

Closed(S, contents) == \A p \in S \cap DOMAIN contents : HoldsFile(contents[p]) => Inputs[p] \subseteq S

LEMMA ClosureIs ==
  ASSUME NEW paths, NEW contents
  PROVE  Closure(paths, contents)
           = {q \in Artifacts : \A S \in SUBSET Artifacts : paths \subseteq S /\ Closed(S, contents) => q \in S}
BY DEF Closure, Closed

LEMMA ClosureCloses ==
  ASSUME NEW paths \in SUBSET Artifacts, NEW contents
  PROVE  /\ paths \subseteq Closure(paths, contents) /\ Closure(paths, contents) \subseteq Artifacts
         /\ Closed(Closure(paths, contents), contents)
<1> DEFINE R == Closure(paths, contents)
<1>1. R = {q \in Artifacts : \A S \in SUBSET Artifacts : paths \subseteq S /\ Closed(S, contents) => q \in S}
  BY ClosureIs
<1> HIDE DEF R
<1>2. ASSUME NEW p \in R \cap DOMAIN contents, HoldsFile(contents[p]), NEW q \in Inputs[p]
      PROVE  q \in R
  <2>1. q \in Artifacts
    BY <1>1, <1>2, CompilerArtifactsAssumption
  <2>2. ASSUME NEW S \in SUBSET Artifacts, paths \subseteq S, Closed(S, contents)
        PROVE  q \in S
    BY <1>1, <1>2, <2>2 DEF Closed
  <2> QED
    BY <1>1, <2>1, <2>2
<1>3. Closed(R, contents)
  BY <1>2 DEF Closed
<1>4. paths \subseteq R /\ R \subseteq Artifacts
  BY <1>1
<1> QED
  BY <1>3, <1>4 DEF R

LEMMA ClosureReads ==
  ASSUME NEW paths \in SUBSET Artifacts, NEW some \in SUBSET paths, DOMAIN artifacts = Artifacts
  PROVE  LET read == Closure(paths, artifacts)
             contents == Restrict(artifacts, read)
         IN  /\ DOMAIN contents = read
             /\ Closure(some, artifacts) \subseteq read
             /\ Closure(some, contents) = Closure(some, artifacts)
<1> DEFINE R == Closure(paths, artifacts)
           c == Restrict(artifacts, R)
           A == Closure(some, artifacts)
           C == Closure(some, c)
<1>1. paths \subseteq R /\ R \subseteq Artifacts /\ Closed(R, artifacts)
  BY ClosureCloses
<1>2. DOMAIN c = R /\ \A p \in R : c[p] = artifacts[p]
  BY DEF Restrict
<1>3. A = {q \in Artifacts : \A S \in SUBSET Artifacts : some \subseteq S /\ Closed(S, artifacts) => q \in S}
  BY ClosureIs
<1>4. C = {q \in Artifacts : \A S \in SUBSET Artifacts : some \subseteq S /\ Closed(S, c) => q \in S}
  BY ClosureIs
<1> HIDE DEF R, c, A, C
<1>5. A \subseteq R
  BY <1>1, <1>3
<1>6. C \subseteq A
  <2>1. ASSUME NEW S \in SUBSET Artifacts, Closed(S, artifacts)
        PROVE  Closed(S, c)
    BY <1>1, <1>2, <2>1 DEF Closed
  <2> QED
    BY <1>3, <1>4, <2>1
<1>7. A \subseteq C
  <2> SUFFICES ASSUME NEW q \in A, NEW S \in SUBSET Artifacts, some \subseteq S, Closed(S, c)
               PROVE  q \in S
    BY <1>3, <1>4
  <2>1. Closed(S \cap R, artifacts)
    BY <1>1, <1>2 DEF Closed
  <2>2. some \subseteq S \cap R /\ S \cap R \in SUBSET Artifacts
    BY <1>1
  <2> QED
    BY <1>3, <2>1, <2>2
<1> QED
  BY <1>2, <1>5, <1>6, <1>7 DEF R, c, A, C

-----------------------------------------------------------------------------
(* What settles: messages that are not about a source, and a row that has   *)
(* been taken, change nothing; a new row settles its source.                *)

LEMMA ConcatParts ==
  ASSUME NEW S, NEW q \in Seq(S), NEW r \in Seq(S)
  PROVE  /\ Len(q) \in Nat /\ DOMAIN q = 1..Len(q) /\ DOMAIN r = 1..Len(r)
         /\ DOMAIN (q \o r) = 1..Len(q) + Len(r) /\ Len(r) \in Nat
         /\ \A i \in 1..Len(q) : (q \o r)[i] = q[i]
         /\ \A k \in 1..Len(r) : (q \o r)[Len(q) + k] = r[k]
OBVIOUS

LEMMA SettlesBefore ==
  ASSUME out \in Seq(Reports), NEW r \in Seq(Reports), out' = out \o r, UNCHANGED rows,
         NEW s, NEW v, \A k \in DOMAIN r : ~WatchOf(s, r[k]), Settles(s, v)
  PROVE  SettledIn(out', RowOf(s)', s, v)
<1> DEFINE n == Len(out)
<1>1. /\ n \in Nat /\ DOMAIN out = 1..n /\ DOMAIN out' = 1..n + Len(r) /\ Len(r) \in Nat
      /\ DOMAIN r = 1..Len(r)
      /\ \A i \in 1..n : out'[i] = out[i]
      /\ \A k \in 1..Len(r) : out'[n + k] = r[k]
  BY ConcatParts
<1> HIDE DEF n
<1>2. \A i \in DOMAIN out' : i \in DOMAIN out \/ ~WatchOf(s, out'[i])
  <2> SUFFICES ASSUME NEW i \in DOMAIN out', i \notin DOMAIN out
               PROVE  ~WatchOf(s, out'[i])
    OBVIOUS
  <2>1. i - n \in 1..Len(r) /\ n + (i - n) = i
    BY <1>1
  <2> QED
    BY <1>1, <2>1
<1>3. \A i \in DOMAIN out : i \in DOMAIN out' /\ out'[i] = out[i]
  BY <1>1
<1>4. ASSUME NEW i \in DOMAIN out', WatchOf(s, out'[i])
      PROVE  out'[i].paths = v \/ \E j \in DOMAIN out' : j > i /\ WatchOf(s, out'[j])
  <2>1. i \in DOMAIN out /\ WatchOf(s, out[i])
    BY <1>2, <1>3, <1>4
  <2>2. out[i].paths = v \/ \E j \in DOMAIN out : j > i /\ WatchOf(s, out[j])
    BY <2>1 DEF Settles, SettledIn
  <2> QED
    BY <1>3, <2>1, <2>2
<1>5. (\A i \in DOMAIN out' : ~WatchOf(s, out'[i])) => RowOf(s)' = v
  BY <1>3 DEF Settles, SettledIn, RowOf
<1> QED
  BY <1>4, <1>5 DEF Settles, SettledIn, WatchOf

LEMMA SettlesAnew ==
  ASSUME out \in Seq(Reports), NEW r \in Seq(Reports), out' = out \o r,
         NEW s, NEW v, \A k \in DOMAIN r : WatchOf(s, r[k]) => r[k].paths = v,
         \E k \in DOMAIN r : WatchOf(s, r[k])
  PROVE  SettledIn(out', RowOf(s)', s, v)
<1> DEFINE n == Len(out)
<1>1. /\ n \in Nat /\ DOMAIN out = 1..n /\ DOMAIN out' = 1..n + Len(r) /\ Len(r) \in Nat
      /\ DOMAIN r = 1..Len(r)
      /\ \A i \in 1..n : out'[i] = out[i]
      /\ \A k \in 1..Len(r) : out'[n + k] = r[k]
  BY ConcatParts
<1>2. PICK k \in DOMAIN r : WatchOf(s, r[k])
  OBVIOUS
<1> HIDE DEF n
<1>3. n + k \in DOMAIN out' /\ WatchOf(s, out'[n + k]) /\ n + k > n
  BY <1>1, <1>2
<1>4. ASSUME NEW i \in DOMAIN out', WatchOf(s, out'[i])
      PROVE  out'[i].paths = v \/ \E j \in DOMAIN out' : j > i /\ WatchOf(s, out'[j])
  <2>1. CASE i <= n
    <3>1. n + k > i
      BY <1>1, <2>1
    <3> QED
      BY <1>3, <3>1
  <2>2. CASE ~(i <= n)
    <3>1. i - n \in DOMAIN r /\ n + (i - n) = i
      BY <1>1, <2>2
    <3> QED
      BY <1>1, <1>4, <3>1
  <2> QED
    BY <2>1, <2>2
<1> QED
  BY <1>3, <1>4 DEF Settles, SettledIn, WatchOf

LEMMA RowReplaced ==
  ASSUME NEW t, NEW paths, ReplaceArtifactWatches(t, paths)
  PROVE  /\ RowOf(t)' = paths
         /\ \A s : s # t => RowOf(s)' = RowOf(s)
         /\ (\A s \in DOMAIN rows : rows[s] # {}) => \A s \in DOMAIN rows' : rows'[s] # {}
BY DEF ReplaceArtifactWatches, RowOf

LEMMA SettlesTaken ==
  ASSUME out \in Seq(Reports), out # <<>>, out' = Tail(out), NEW s, NEW v, Settles(s, v),
         \/ ~WatchOf(s, Head(out)) /\ RowOf(s)' = RowOf(s)
         \/ WatchOf(s, Head(out)) /\ RowOf(s)' = Head(out).paths
  PROVE  SettledIn(out', RowOf(s)', s, v)
<1>1. /\ 1 \in DOMAIN out /\ out[1] = Head(out) /\ DOMAIN out \subseteq Nat \ {0}
      /\ DOMAIN out' \subseteq Nat \ {0}
      /\ \A i \in DOMAIN out' : out'[i] = out[i + 1] /\ i + 1 \in DOMAIN out
      /\ \A i \in DOMAIN out : i = 1 \/ (i - 1 \in DOMAIN out' /\ out'[i - 1] = out[i])
  BY HeadOf
<1>2. ASSUME NEW i \in DOMAIN out', WatchOf(s, out'[i])
      PROVE  out'[i].paths = v \/ \E j \in DOMAIN out' : j > i /\ WatchOf(s, out'[j])
  <2>1. i + 1 \in DOMAIN out /\ WatchOf(s, out[i + 1]) /\ out'[i] = out[i + 1]
    BY <1>1, <1>2
  <2>2. CASE out[i + 1].paths = v
    BY <2>1, <2>2
  <2>3. ASSUME NEW j \in DOMAIN out, j > i + 1, WatchOf(s, out[j])
        PROVE  \E k \in DOMAIN out' : k > i /\ WatchOf(s, out'[k])
    <3>1. j # 1 /\ j - 1 > i
      BY <1>1, <2>3
    <3> QED
      BY <1>1, <2>3, <3>1
  <2> QED
    BY <2>1, <2>2, <2>3 DEF Settles, SettledIn
<1>3. ASSUME \A i \in DOMAIN out' : ~WatchOf(s, out'[i])
      PROVE  RowOf(s)' = v
  <2>1. \A i \in DOMAIN out : i = 1 \/ ~WatchOf(s, out[i])
    BY <1>1, <1>3
  <2>2. CASE WatchOf(s, Head(out))
    <3>1. Head(out).paths = v
      <4>1. ~ \E j \in DOMAIN out : j > 1 /\ WatchOf(s, out[j])
        BY <1>1, <2>1
      <4> QED
        BY <1>1, <2>2, <4>1 DEF Settles, SettledIn
    <3> QED
      BY <2>2, <3>1
  <2>3. CASE ~WatchOf(s, Head(out))
    BY <1>1, <2>1, <2>3 DEF Settles, SettledIn
  <2> QED
    BY <2>2, <2>3
<1> QED
  BY <1>2, <1>3 DEF Settles, SettledIn, WatchOf

-----------------------------------------------------------------------------
(* What a step of the worker does to the project: it leaves it as it is, or *)
(* it supersedes the batch in flight, so that another one will be read.     *)

Registered(p) == DOMAIN p.contexts \cup p.retired

Revision(p, invalid) ==
  /\ p \in Projects /\ p.known /\ p.inflight = project.inflight /\ p.dirty = project.dirty
  /\ p.retired \cap DOMAIN p.contexts = {}
  /\ Registered(project) \subseteq Registered(p)
  /\ ~invalid => project.known /\ p.contexts = project.contexts /\ p.retired = project.retired

Steady ==
  /\ UNCHANGED <<plans, batches, generation, published>>
  /\ project'.known = project.known /\ project'.inflight = project.inflight
  /\ project'.dirty = project.dirty /\ project'.contexts = project.contexts
  /\ project'.retired = project.retired
  /\ project'.known \/ project' = project

NoneAwaited == \A i \in DOMAIN batches : ~Awaited(batches[i].token)

Superseded ==
  /\ UNCHANGED <<batches, published>>
  /\ project'.known /\ Pending'
  /\ NoneAwaited' /\ PlansInv'
  /\ Registered(project) \subseteq Registered(project')
  /\ PendingInv' /\ ProjectInv'

LEMMA RevisionSteps ==
  ASSUME TypeOK, TokensInOrder, PendingInv, UNCHANGED <<batches, published>>,
         NEW p, NEW invalid \in BOOLEAN, Revision(p, invalid), InvalidateAndSubmit(p, invalid)
  PROVE  Steady \/ Superseded
<1>1. /\ generation \in Nat /\ project \in Projects /\ project.inflight <= generation
      /\ plans \in Seq(Plans) /\ batches \in Seq(Batches) /\ project.inflight \in Nat
  BY DEF TypeOK, Projects
<1>2. /\ \A i \in DOMAIN plans : plans[i].token \in Nat /\ plans[i].token <= generation
      /\ \A i \in DOMAIN batches : batches[i].token \in Nat /\ batches[i].token <= generation
  BY TokensAre DEF TokensInOrder
<1>3. CASE ~invalid
  <2>1. Submit(p, generation) /\ (p.dirty => p.inflight # 0)
    BY <1>3 DEF InvalidateAndSubmit, Revision, PendingInv
  <2>2. project' = p /\ UNCHANGED <<plans, generation>>
    BY <2>1 DEF Submit
  <2> QED
    BY <1>3, <2>2 DEF Revision, Steady
<1>4. CASE invalid /\ p.inflight = 0
  <2> DEFINE m == [p EXCEPT !.dirty = TRUE]
             t == generation + 1 + 1
             q == [token |-> t, contexts |-> m.contexts, retired |-> m.retired]
  <2>1. m \in Projects /\ m.inflight = 0 /\ m.dirty /\ m.known /\ m.contexts = p.contexts /\ m.retired = p.retired
    BY <1>4 DEF Revision, Projects
  <2>2. Submit(m, generation + 1)
    BY <1>4 DEF InvalidateAndSubmit
  <2>3. t \in Nat /\ t > generation /\ t # 0
    BY <1>1
  <2> HIDE DEF m
  <2>4. /\ generation' = t /\ plans' = Append(plans, q)
        /\ project' = [m EXCEPT !.inflight = t, !.dirty = FALSE]
    BY <2>1, <2>2 DEF Submit
  <2> HIDE DEF t
  <2>5. /\ project'.inflight = t /\ ~project'.dirty /\ project'.known
        /\ project'.contexts = p.contexts /\ project'.retired = p.retired
    BY <2>1, <2>4 DEF Projects
  <2>6. q.token = t /\ q.contexts = p.contexts /\ q.retired = p.retired /\ q \in Plans
    BY <2>1, <2>3 DEF Plans, Projects
  <2> HIDE DEF q
  <2>7. /\ \A i \in DOMAIN plans' : plans'[i] = q \/ (i \in DOMAIN plans /\ plans'[i] = plans[i])
        /\ \E i \in DOMAIN plans' : plans'[i] = q
    BY <1>1, <2>4, <2>6, AppendOf
  <2>8. \A i \in DOMAIN plans' : plans'[i].token = generation' =>
          plans'[i].contexts = project'.contexts /\ plans'[i].retired = project'.retired
    BY <1>1, <1>2, <2>3, <2>4, <2>5, <2>6, <2>7
  <2>9. PlansInv'
    BY <2>8 DEF PlansInv, Awaited, PlanCurrent
  <2>10. NoneAwaited'
    BY <1>1, <1>2, <2>3, <2>4 DEF NoneAwaited, Awaited
  <2>11. PendingInv' /\ ProjectInv' /\ Pending'
    BY <2>3, <2>5, <2>6, <2>7 DEF PendingInv, ProjectInv, Pending, Revision
  <2> QED
    BY <2>5, <2>9, <2>10, <2>11 DEF Superseded, Revision, Registered
<1>5. CASE invalid /\ p.inflight # 0
  <2> DEFINE m == [p EXCEPT !.dirty = TRUE]
  <2>1. m \in Projects /\ m.inflight = p.inflight /\ m.dirty /\ m.known /\ m.contexts = p.contexts /\ m.retired = p.retired
    BY DEF Revision, Projects
  <2>2. Submit(m, generation + 1)
    BY <1>5 DEF InvalidateAndSubmit
  <2> HIDE DEF m
  <2>3. project' = m /\ generation' = generation + 1 /\ UNCHANGED plans
    BY <1>5, <2>1, <2>2 DEF Submit
  <2>4. m.inflight # generation' /\ m.inflight # 0 /\ m.inflight = project.inflight
    BY <1>1, <1>5, <2>1, <2>3 DEF Revision
  <2>5. NoneAwaited' /\ PlansInv'
    BY <2>3, <2>4 DEF NoneAwaited, PlansInv, Awaited
  <2>6. PendingInv' /\ ProjectInv' /\ Pending'
    BY <2>1, <2>3, <2>4 DEF PendingInv, ProjectInv, Pending, Revision
  <2> QED
    BY <2>1, <2>3, <2>5, <2>6 DEF Superseded, Revision, Registered
<1> QED
  BY <1>3, <1>4, <1>5

LEMMA EditRevises ==
  ASSUME TypeOK, TokensInOrder, PendingInv, ProjectInv, WorkEdit
  PROVE  /\ Steady \/ Superseded
         /\ Head(jobs).source \in Registered(project')
         /\ Registered(project) \subseteq Registered(project')
<1> DEFINE s == Head(jobs).source
           available == Available \cup {s}
           members == Members(s, available)
           cs == [t \in DOMAIN project.contexts \cup {s} |->
                    IF t = s THEN members ELSE project.contexts[t]]
           r == project.retired \ {s}
           p == [project EXCEPT !.known = TRUE, !.retired = r, !.contexts = cs]
           invalid == s \notin DOMAIN project.contexts \/ project.contexts[s] # members
<1>1. Head(jobs) \in Jobs /\ Head(jobs).kind = "Edit"
  BY HeadOf DEF WorkEdit, TypeOK
<1>2. s \in Sources /\ available \in SUBSET Sources
  BY <1>1 DEF Jobs, Available, TypeOK
<1>3. InvalidateAndSubmit(p, invalid) /\ UNCHANGED <<batches, published>>
  BY DEF WorkEdit, Prepare
<1>4. project \in Projects /\ project.contexts \in Contexts /\ r \in SUBSET Sources
  BY DEF TypeOK, Projects
<1>5. /\ DOMAIN project.contexts \subseteq Sources
      /\ project.contexts \in [DOMAIN project.contexts -> SUBSET Artifacts]
  BY <1>4, ContextsAre
<1>6. members \subseteq Artifacts
  BY <1>2, MembersTyped
<1> HIDE DEF s, members
<1>7. cs \in [DOMAIN project.contexts \cup {s} -> SUBSET Artifacts]
  BY <1>5, <1>6
<1>8. ~invalid => cs = project.contexts
  BY <1>5
<1>9. DOMAIN cs = DOMAIN project.contexts \cup {s}
  OBVIOUS
<1> HIDE DEF cs
<1>10. cs \in Contexts
  BY <1>2, <1>5, <1>7, ContextsOf
<1>11. /\ p \in Projects /\ p.known /\ p.inflight = project.inflight /\ p.dirty = project.dirty
       /\ p.contexts = cs /\ p.retired = r
  <2> HIDE DEF r
  <2>1. p \in Projects /\ p.inflight = project.inflight
    BY <1>4, <1>10, ProjectWith
  <2>2. p.known /\ p.dirty = project.dirty /\ p.contexts = cs /\ p.retired = r
    BY <1>4 DEF Projects
  <2> QED
    BY <2>1, <2>2
<1>12. ~invalid => project.known
  BY DEF ProjectInv, NoProject, Nothing
<1>13. ~invalid => r = project.retired
  BY DEF ProjectInv
<1>14. r \cap DOMAIN cs = {} /\ DOMAIN project.contexts \cup project.retired \subseteq DOMAIN cs \cup r
  BY <1>9 DEF ProjectInv
<1> HIDE DEF p, r
<1>15. Revision(p, invalid) /\ invalid \in BOOLEAN
  BY <1>8, <1>11, <1>12, <1>13, <1>14 DEF Revision, Registered
<1>16. project'.contexts = p.contexts /\ project'.retired = p.retired
  <2>1. CASE Submit(p, generation)
    BY <1>11, <2>1 DEF Submit, Projects
  <2>2. CASE Submit([p EXCEPT !.dirty = TRUE], generation + 1)
    BY <1>11, <2>2 DEF Submit, Projects
  <2> QED
    BY <1>3, <2>1, <2>2 DEF InvalidateAndSubmit
<1> HIDE DEF invalid
<1>17. Steady \/ Superseded
  BY <1>3, <1>15, RevisionSteps
<1> QED
  BY <1>9, <1>11, <1>14, <1>16, <1>17 DEF Registered, s

LEMMA WatchedRevises ==
  ASSUME TypeOK, TokensInOrder, PendingInv, ProjectInv, WorkWatched, project.known,
         InvalidateAndSubmit(project, TRUE)
  PROVE  Superseded
<1>1. project \in Projects
  BY DEF TypeOK
<1>2. Revision(project, TRUE)
  BY <1>1 DEF Revision, ProjectInv
<1>3. Steady \/ Superseded
  BY <1>2, RevisionSteps DEF WorkWatched
<1>4. generation' > generation
  BY <1>1, InvalidateTyped DEF TypeOK
<1>5. generation' # generation
  BY <1>4 DEF TypeOK
<1> QED
  BY <1>3, <1>5 DEF Steady

LEMMA FilesRevise ==
  ASSUME TypeOK, TokensInOrder, PendingInv, ProjectInv, CompleteFiles
  PROVE  Steady \/ Superseded
<1> DEFINE available == overlays \cup onDisk
           gone == DOMAIN project.contexts \ available
           kept == Restrict(project.contexts, DOMAIN project.contexts \ gone)
           more == project.retired \cup gone
           retired == Retire(project, available)
           changed == available # Available
           again == [s \in DOMAIN retired.contexts |-> Members(s, available)]
           p == IF changed THEN [retired EXCEPT !.contexts = again] ELSE retired
           invalid == p.contexts # project.contexts
<1>1. available \in SUBSET Sources /\ project \in Projects
      /\ project.contexts \in Contexts /\ project.retired \in SUBSET Sources
  BY DEF TypeOK, Projects
<1>2. /\ DOMAIN project.contexts \subseteq Sources
      /\ project.contexts \in [DOMAIN project.contexts -> SUBSET Artifacts]
  BY <1>1, ContextsAre
<1>3. kept \in [DOMAIN project.contexts \ gone -> SUBSET Artifacts]
  BY <1>2 DEF Restrict
<1>4. kept \in Contexts /\ more \in SUBSET Sources /\ DOMAIN kept = DOMAIN project.contexts \ gone
  BY <1>1, <1>2, <1>3, ContextsOf
<1>5. retired = [project EXCEPT !.contexts = kept, !.retired = more]
  BY DEF Retire
<1>6. UNCHANGED <<batches, published>>
      /\ \/ UNCHANGED <<project, generation, plans>>
         \/ project.known /\ InvalidateAndSubmit(p, invalid)
  BY DEF CompleteFiles
<1> HIDE DEF kept, more, retired
<1>7. /\ retired \in Projects /\ retired.contexts = kept /\ retired.retired = more
      /\ retired.known = project.known /\ retired.dirty = project.dirty
      /\ retired.inflight = project.inflight
  <2>1. PICK m : m = [project EXCEPT !.contexts = kept]
    OBVIOUS
  <2>2. retired = [m EXCEPT !.retired = more]
    BY <1>5, <2>1
  <2>3. /\ m \in Projects /\ m.contexts = kept /\ m.inflight = project.inflight
        /\ m.known = project.known /\ m.dirty = project.dirty
    BY <1>1, <1>4, <2>1 DEF Projects
  <2> QED
    BY <1>4, <2>2, <2>3 DEF Projects
<1>8. again \in Contexts /\ DOMAIN again = DOMAIN kept
  <2>1. DOMAIN kept \in SUBSET Sources
    BY <1>2, <1>4
  <2>2. again \in [DOMAIN kept -> SUBSET Artifacts]
    BY <1>1, <1>7, <2>1, MembersTyped
  <2> HIDE DEF again
  <2> QED
    BY <2>1, <2>2, ContextsOf
<1> HIDE DEF again
<1>9. /\ p \in Projects /\ DOMAIN p.contexts = DOMAIN kept /\ p.retired = more
      /\ p.known = project.known /\ p.dirty = project.dirty /\ p.inflight = project.inflight
  <2>1. CASE changed
    BY <1>7, <1>8, <2>1, ProjectWith DEF Projects
  <2>2. CASE ~changed
    BY <1>7, <2>2
  <2> QED
    BY <2>1, <2>2
<1>10. ~invalid => p.retired = project.retired
  <2>1. ~invalid => gone = {}
    BY <1>4, <1>9
  <2> QED
    BY <1>9, <2>1 DEF more
<1>11. more \cap DOMAIN kept = {} /\ DOMAIN project.contexts \cup project.retired \subseteq DOMAIN kept \cup more
  BY <1>4 DEF more, ProjectInv
<1>12. invalid \in BOOLEAN
  OBVIOUS
<1>13. ~invalid => p.contexts = project.contexts
  OBVIOUS
<1> HIDE DEF p, invalid
<1>14. project.known => Revision(p, invalid)
  BY <1>9, <1>10, <1>11, <1>13 DEF Revision, Registered
<1>15. UNCHANGED <<project, generation, plans>> => Steady
  BY <1>6 DEF Steady
<1> QED
  BY <1>6, <1>12, <1>14, <1>15, RevisionSteps

-----------------------------------------------------------------------------
(* What is outstanding stays so until the worker hears of it or a plan      *)
(* reads the path, and so does whatever changes on disk.                    *)

Reported(p) == \E i \in DOMAIN jobs : jobs[i].kind = "Watched" /\ jobs[i].path = p

LEMMA JobsStay ==
  ASSUME TypeOK, NEW p, Reported(p),
         \/ jobs' = jobs
         \/ \E r \in Seq(Jobs) : jobs' = jobs \o r
         \/ /\ jobs # <<>> /\ jobs' = Tail(jobs)
            /\ Head(jobs).kind # "Watched" \/ Head(jobs).path # p
  PROVE  Reported(p)'
<1>1. PICK i \in DOMAIN jobs : jobs[i].kind = "Watched" /\ jobs[i].path = p
  BY DEF Reported
<1>2. jobs \in Seq(Jobs)
  BY DEF TypeOK
<1>3. CASE jobs' = jobs
  BY <1>1, <1>3 DEF Reported
<1>4. CASE \E r \in Seq(Jobs) : jobs' = jobs \o r
  <2>1. i \in DOMAIN jobs' /\ jobs'[i] = jobs[i]
    BY <1>2, <1>4, ConcatParts
  <2> QED
    BY <1>1, <2>1 DEF Reported
<1>5. CASE /\ jobs # <<>> /\ jobs' = Tail(jobs)
           /\ Head(jobs).kind # "Watched" \/ Head(jobs).path # p
  <2>1. i # 1
    BY <1>1, <1>2, <1>5, HeadOf
  <2>2. i - 1 \in DOMAIN jobs' /\ jobs'[i - 1] = jobs[i]
    BY <1>2, <1>5, <2>1, HeadOf
  <2> QED
    BY <1>1, <2>2 DEF Reported
<1> QED
  BY <1>3, <1>4, <1>5

LEMMA OutstandingElsewhere ==
  ASSUME TypeOK, UNCHANGED <<artifacts, events, previous, overlooked, unseen>>,
         \/ jobs' = jobs
         \/ \E r \in Seq(Jobs) : jobs' = jobs \o r
         \/ jobs # <<>> /\ jobs' = Tail(jobs) /\ Head(jobs).kind # "Watched",
         NEW p, Outstanding(p)
  PROVE  Outstanding(p)'
<1>1. Reported(p) => Reported(p)'
  <2>1. CASE jobs' = jobs
    BY <2>1, JobsStay
  <2>2. CASE \E r \in Seq(Jobs) : jobs' = jobs \o r
    BY <2>2, JobsStay
  <2>3. CASE jobs # <<>> /\ jobs' = Tail(jobs) /\ Head(jobs).kind # "Watched"
    BY <2>3, JobsStay
  <2> QED
    BY <2>1, <2>2, <2>3
<1> QED
  BY <1>1 DEF Outstanding, Reported

LEMMA WriteOutstands ==
  ASSUME TypeOK, PreviousIsPast, NEW q \in Artifacts, Write(q) \/ Delete(q), NEW p \in Artifacts
  PROVE  /\ Outstanding(p) \/ artifacts'[p] # artifacts[p] => Outstanding(p)'
         /\ artifacts'[p] >= artifacts[p]
<1>1. /\ UNCHANGED <<events, previous, jobs, overlooked>>
      /\ artifacts \in [Artifacts -> Nat]
      /\ previous \in [DOMAIN previous -> Nat] /\ DOMAIN previous \subseteq Artifacts
  <2>1. UNCHANGED <<events, previous, jobs, overlooked>>
    BY DEF Write, Delete, watcher
  <2>2. artifacts \in [Artifacts -> Nat]
    BY VersionsAre DEF TypeOK
  <2>3. previous \in [DOMAIN previous -> Nat] /\ DOMAIN previous \subseteq Artifacts
    <3>1. previous \in Contents
      BY DEF TypeOK
    <3>2. DOMAIN previous \subseteq Artifacts /\ previous \in [DOMAIN previous -> Versions]
      BY <3>1, ContentsAre
    <3>3. Versions \subseteq Nat
      BY CompilerArtifactsAssumption DEF Versions
    <3> QED
      BY <3>2, <3>3
  <2> QED
    BY <2>1, <2>2, <2>3
<1>2. CASE p # q
  <2>1. artifacts'[p] = artifacts[p] /\ (p \in unseen => p \in unseen')
    BY <1>1, <1>2 DEF Write, Delete
  <2> QED
    BY <1>1, <2>1 DEF Outstanding
<1>3. CASE p = q /\ Write(q)
  <2>1. artifacts'[p] = artifacts[p] + (IF HoldsFile(artifacts[p]) THEN 2 ELSE 1)
    BY <1>1, <1>3 DEF Write
  <2>2. HoldsFile(artifacts'[p]) /\ artifacts'[p] > artifacts[p]
    <3>1. artifacts[p] \in Nat
      BY <1>1
    <3> QED
      BY <2>1, <3>1 DEF HoldsFile
  <2>3. p \in DOMAIN previous => previous'[p] # artifacts'[p]
    <3>1. artifacts[p] \in Nat /\ artifacts'[p] \in Nat
      BY <1>1, <2>1
    <3> QED
      BY <1>1, <2>2, <3>1 DEF PreviousIsPast
  <2>4. Outstanding(p)'
    <3>1. CASE p \in DOMAIN previous
      BY <1>1, <2>3, <3>1 DEF Outstanding
    <3>2. CASE p \notin DOMAIN previous
      BY <1>1, <2>2, <3>2 DEF Outstanding
    <3> QED
      BY <3>1, <3>2
  <2>5. artifacts'[p] >= artifacts[p]
    <3>1. artifacts[p] \in Nat /\ artifacts'[p] \in Nat
      BY <1>1, <2>1
    <3> QED
      BY <2>2, <3>1
  <2> QED
    BY <2>4, <2>5
<1>4. CASE p = q /\ Delete(q)
  <2>1. artifacts'[p] = artifacts[p] + 1
    BY <1>1, <1>4 DEF Delete
  <2>2. p \in DOMAIN previous => previous'[p] # artifacts'[p]
    BY <1>1, <2>1 DEF PreviousIsPast
  <2>3. p \notin DOMAIN previous => p \in unseen'
    BY <1>4 DEF Delete
  <2>4. artifacts[p] \in Nat
    BY <1>1
  <2>5. artifacts'[p] >= artifacts[p]
    BY <2>1, <2>4
  <2>6. Outstanding(p)'
    <3>1. CASE p \in DOMAIN previous
      BY <1>1, <2>2, <3>1 DEF Outstanding
    <3>2. CASE p \notin DOMAIN previous
      BY <2>3, <3>2 DEF Outstanding
    <3> QED
      BY <3>1, <3>2
  <2> QED
    BY <2>5, <2>6
<1> QED
  BY <1>2, <1>3, <1>4

LEMMA WatcherOutstands ==
  ASSUME TypeOK, Watcher, NEW p \in Artifacts, Outstanding(p)
  PROVE  Outstanding(p)'
<1>1. UNCHANGED <<artifacts, jobs, overlooked>>
  BY DEF Watcher, AdoptScope, Scan, disk, history
<1>2. CASE AdoptScope
  <2>1. /\ UNCHANGED events /\ unseen \subseteq unseen'
        /\ DOMAIN previous' = DOMAIN previous \cap Watching
        /\ \A q \in DOMAIN previous' : previous'[q] = previous[q]
        /\ \A q \in DOMAIN previous \ Watching : ~HoldsFile(artifacts[q]) => q \in unseen'
    BY <1>2 DEF AdoptScope, Restrict
  <2> QED
    BY <1>1, <2>1 DEF Outstanding
<1>3. CASE Scan
  <2>1. /\ UNCHANGED unseen /\ previous' = Found /\ events' = Append(events, Changes(Found))
    BY <1>3 DEF Scan, history
  <2>2. /\ DOMAIN Found = {q \in scope : HoldsFile(artifacts[q])}
        /\ \A q \in DOMAIN Found : Found[q] = artifacts[q]
    BY DEF Found
  <2>3. Changes(Found) \in SUBSET Artifacts
    <3>1. DOMAIN previous \subseteq Artifacts /\ scope \subseteq Artifacts
      BY ContentsAre DEF TypeOK
    <3> QED
      BY <2>2, <3>1 DEF Changes
  <2>4. /\ \A i \in DOMAIN events : i \in DOMAIN events' /\ events'[i] = events[i]
        /\ \E i \in DOMAIN events' : events'[i] = Changes(Found)
    <3>1. events \in Seq(SUBSET Artifacts)
      BY DEF TypeOK
    <3> DEFINE c == Changes(Found)
    <3> HIDE DEF c
    <3>2. /\ Len(events) \in Nat /\ DOMAIN events = 1..Len(events)
          /\ DOMAIN Append(events, c) = 1..Len(events) + 1
          /\ \A i \in DOMAIN events : Append(events, c)[i] = events[i]
          /\ Append(events, c)[Len(events) + 1] = c
      BY <2>3, <3>1, AppendOf DEF c
    <3>3. events' = Append(events, c)
      BY <2>1 DEF c
    <3>4. Len(events) + 1 \in DOMAIN events' /\ events'[Len(events) + 1] = c
      BY <3>2, <3>3
    <3>5. \A i \in DOMAIN events : i \in DOMAIN events' /\ events'[i] = events[i]
      BY <3>2, <3>3
    <3> QED
      BY <3>4, <3>5 DEF c
  <2>5. CASE p \in Changes(Found)
    BY <2>4, <2>5 DEF Outstanding
  <2>6. CASE p \notin Changes(Found)
    <3>1. /\ p \in DOMAIN previous => p \in DOMAIN Found /\ previous[p] = artifacts[p]
          /\ p \notin DOMAIN previous => p \notin DOMAIN Found
      BY <2>2, <2>6 DEF Changes
    <3> QED
      BY <1>1, <2>1, <2>2, <2>4, <3>1 DEF Outstanding
  <2> QED
    BY <2>5, <2>6
<1> QED
  BY <1>2, <1>3 DEF Watcher

LEMMA TakenOutstands ==
  ASSUME TypeOK, TakeEvents, NEW p \in Artifacts, Outstanding(p)
  PROVE  Outstanding(p)'
<1> DEFINE paths == Head(events)
           f == [q \in paths |-> [kind |-> "Watched", path |-> q]]
           r == SetToSeq({f[q] : q \in paths})
<1>1. /\ UNCHANGED <<artifacts, previous, overlooked, unseen>>
      /\ events # <<>> /\ events' = Tail(events) /\ events \in Seq(SUBSET Artifacts)
  BY DEF TakeEvents, disk, watcher, history, TypeOK
<1>2. {f[q] : q \in paths} = {[kind |-> "Watched", path |-> q] : q \in paths}
  OBVIOUS
<1>3. jobs' = jobs \o r
  BY <1>2 DEF TakeEvents
<1>4. paths \in SUBSET Artifacts
  BY <1>1, HeadOf
<1>5. IsFiniteSet(paths)
  BY <1>4, CompilerArtifactsAssumption, FS_Subset
<1>6. f \in [paths -> Jobs]
  BY <1>4 DEF Jobs
<1>7. r \in Seq(Jobs)
  <2> HIDE DEF f, paths
  <2> QED
    BY <1>5, <1>6, MessagesFor
<1>8. \A q \in paths : \E k \in 1..Len(r) : r[k] = f[q]
  <2>1. IsFiniteSet({f[q] : q \in paths})
    <3>1. f \in Surjection(paths, {f[q] : q \in paths})
      BY DEF Surjection
    <3> HIDE DEF f, paths
    <3> QED
      BY <1>5, <3>1, FS_Surjection
  <2> DEFINE T == {f[q] : q \in paths}
  <2>2. \A x \in T : \E k \in 1..Len(SetToSeq(T)) : SetToSeq(T)[k] = x
    <3> HIDE DEF T
    <3>1. IsFiniteSet(T)
      BY <2>1 DEF T
    <3> QED
      BY <3>1, OrderOf
  <2> QED
    BY <2>2
<1>9. \A q \in paths : f[q].kind = "Watched" /\ f[q].path = q
  OBVIOUS
<1> HIDE DEF f, r, paths
<1>10. Reported(p) => Reported(p)'
  <2>2. ASSUME NEW i \in DOMAIN jobs, jobs[i].kind = "Watched", jobs[i].path = p
        PROVE  Reported(p)'
    <3>1. i \in DOMAIN jobs' /\ jobs'[i] = jobs[i]
      BY <1>3, <1>7, ConcatParts DEF TypeOK
    <3> QED
      BY <2>2, <3>1 DEF Reported
  <2> QED
    BY <2>2 DEF Reported
<1>11. p \in paths => Reported(p)'
  <2> SUFFICES ASSUME p \in paths PROVE Reported(p)'
    OBVIOUS
  <2>1. PICK k \in 1..Len(r) : r[k].kind = "Watched" /\ r[k].path = p
    BY <1>8, <1>9
  <2>2. Len(jobs) + k \in DOMAIN jobs' /\ jobs'[Len(jobs) + k] = r[k]
    BY <1>3, <1>7, ConcatParts DEF TypeOK
  <2> QED
    BY <2>1, <2>2 DEF Reported
<1>12. ASSUME NEW i \in DOMAIN events, p \in events[i]
       PROVE  p \in paths \/ \E j \in DOMAIN events' : p \in events'[j]
  <2>1. CASE i = 1
    BY <1>1, <1>12, <2>1, HeadOf DEF paths
  <2>2. CASE i # 1
    <3>1. i - 1 \in DOMAIN events' /\ events'[i - 1] = events[i]
      BY <1>1, <2>2, HeadOf
    <3> QED
      BY <1>12, <3>1
  <2> QED
    BY <2>1, <2>2
<1> QED
  BY <1>1, <1>10, <1>11, <1>12 DEF Outstanding, Reported

(* The worker hears of the change of a path.                                *)
LEMMA HeardOutstands ==
  ASSUME TypeOK, WorkWatched, NEW p \in Artifacts, Outstanding(p)
  PROVE  \/ Outstanding(p)'
         \/ project.known /\ InvalidateAndSubmit(project, TRUE)
<1>1. /\ UNCHANGED <<artifacts, events, previous, unseen>>
      /\ jobs # <<>> /\ jobs' = Tail(jobs)
      /\ \/ project.known /\ InvalidateAndSubmit(project, TRUE) /\ UNCHANGED overlooked
         \/ overlooked' = overlooked \cup {Head(jobs).path}
  BY DEF WorkWatched, disk, watcher
<1>2. ASSUME overlooked' = overlooked \cup {Head(jobs).path}
      PROVE  Outstanding(p)'
  <2>1. CASE Head(jobs).path = p
    <3>1. p \in overlooked'
      BY <1>2, <2>1
    <3> QED
      BY <3>1 DEF Outstanding
  <2>2. CASE Head(jobs).path # p
    <3>1. Reported(p) => Reported(p)'
      BY <1>1, <2>2, JobsStay
    <3>2. overlooked \subseteq overlooked'
      BY <1>2
    <3>3. CASE p \in overlooked \cup unseen
      BY <1>1, <3>2, <3>3 DEF Outstanding
    <3>4. CASE Reported(p)
      BY <3>1, <3>4 DEF Outstanding, Reported
    <3>5. CASE \E i \in DOMAIN events : p \in events[i]
      BY <1>1, <3>5 DEF Outstanding
    <3>6. CASE \/ p \in DOMAIN previous /\ previous[p] # artifacts[p]
               \/ p \notin DOMAIN previous /\ HoldsFile(artifacts[p])
      BY <1>1, <3>6 DEF Outstanding
    <3> QED
      BY <3>3, <3>4, <3>5, <3>6 DEF Outstanding, Reported
  <2> QED
    BY <2>1, <2>2
<1>3. CASE project.known /\ InvalidateAndSubmit(project, TRUE)
  BY <1>3
<1> QED
  BY <1>1, <1>2, <1>3

LEMMA PastPreserved ==
  ASSUME TypeOK, PreviousIsPast, [Next]_vars
  PROVE  PreviousIsPast'
<1> USE DEF disk, watcher
<1>1. CASE \E p \in Artifacts : Write(p) \/ Delete(p)
  <2>1. PICK q \in Artifacts : Write(q) \/ Delete(q)
    BY <1>1
  <2>2. \A p \in Artifacts : artifacts'[p] >= artifacts[p] /\ artifacts[p] \in Nat /\ artifacts'[p] \in Nat
    <3>1. artifacts \in [Artifacts -> Nat]
      BY VersionsAre DEF TypeOK
    <3>2. artifacts' \in [Artifacts -> Nat]
      BY <2>1, <3>1 DEF Write, Delete
    <3> QED
      BY <2>1, <3>1, <3>2, WriteOutstands
  <2>3. /\ UNCHANGED previous /\ DOMAIN previous \subseteq Artifacts
        /\ \A p \in DOMAIN previous : previous[p] \in Nat
    <3>1. UNCHANGED previous
      BY <2>1 DEF Write, Delete
    <3>2. DOMAIN previous \subseteq Artifacts /\ previous \in [DOMAIN previous -> Versions] /\ Versions \subseteq Nat
      BY ContentsAre, CompilerArtifactsAssumption DEF TypeOK, Versions
    <3> QED
      BY <3>1, <3>2
  <2> QED
    BY <2>2, <2>3 DEF PreviousIsPast
<1>2. CASE AdoptScope
  BY <1>2 DEF AdoptScope, PreviousIsPast, Restrict
<1>3. CASE Scan
  <2>1. \A p \in scope : artifacts[p] \in Nat
    BY VersionsAre DEF TypeOK
  <2> QED
    BY <1>3, <2>1 DEF Scan, PreviousIsPast, Found
<1>4. CASE UNCHANGED <<artifacts, previous>>
  BY <1>4 DEF PreviousIsPast
<1> QED
  BY <1>1, <1>2, <1>3, <1>4
  DEF Next, Environment, Main, Watcher, Worker, vars, DidOpen, DidClose, DidRenameFiles,
      TakeWatchArtifacts, TakeRelintAll, TakeEvents, WorkEdit, WorkClose, WorkRename,
      WorkWatched, CompleteFiles, Complete, ReadPlan

-----------------------------------------------------------------------------
(* Steps that leave the project as it is.                                   *)

AcquiredInv == PendingInv /\ ProjectInv /\ PlansInv /\ BatchesInv /\ RestInv

(* A change stays outstanding, and what changes becomes so.                 *)
ChangesOutstand ==
  \A p \in Artifacts : Outstanding(p) \/ artifacts'[p] # artifacts[p] => Outstanding(p)'

LEMMA GoodKept ==
  ASSUME ChangesOutstand, NEW contents, DOMAIN contents \subseteq Artifacts, Good(contents)
  PROVE  \A p \in DOMAIN contents : contents[p] = artifacts'[p] \/ Outstanding(p)'
<1> SUFFICES ASSUME NEW p \in DOMAIN contents
             PROVE  contents[p] = artifacts'[p] \/ Outstanding(p)'
  OBVIOUS
<1>1. CASE Outstanding(p) \/ artifacts'[p] # artifacts[p]
  BY <1>1 DEF ChangesOutstand
<1>2. CASE ~(Outstanding(p) \/ artifacts'[p] # artifacts[p])
  BY <1>2 DEF Good
<1> QED
  BY <1>1, <1>2

LEMMA ContentsTyped ==
  ASSUME TypeOK
  PROVE  /\ DOMAIN published \subseteq Artifacts
         /\ \A i \in DOMAIN batches : DOMAIN batches[i].contents \subseteq Artifacts
<1>1. \A i \in DOMAIN batches : batches[i] \in Batches
  BY DEF TypeOK
<1>2. \A i \in DOMAIN batches : batches[i].contents \in Contents
  BY <1>1 DEF Batches
<1> QED
  BY <1>2, ContentsAre DEF TypeOK

(* A batch that was current stays so.                                       *)
LEMMA BatchKept ==
  ASSUME ChangesOutstand, NEW batch, DOMAIN batch.contents \subseteq Artifacts, BatchCurrent(batch),
         project'.contexts = project.contexts, project'.retired = project.retired
  PROVE  /\ DOMAIN batch.watches = DOMAIN project'.contexts \cup project'.retired
         /\ \A s \in project'.retired : batch.watches[s] = {}
         /\ \A s \in DOMAIN project'.contexts :
              /\ batch.watches[s] = Closure(project'.contexts[s], batch.contents)
              /\ batch.watches[s] \subseteq DOMAIN batch.contents
         /\ \A p \in DOMAIN batch.contents : batch.contents[p] = artifacts'[p] \/ Outstanding(p)'
<1>1. Good(batch.contents)
  BY DEF BatchCurrent
<1>2. \A p \in DOMAIN batch.contents : batch.contents[p] = artifacts'[p] \/ Outstanding(p)'
  BY <1>1, GoodKept
<1> QED
  BY <1>2 DEF BatchCurrent

LEMMA SteadyKeeps ==
  ASSUME TypeOK, AcquiredInv, Steady, ChangesOutstand,
         ~Renaming' => /\ ~Renaming
                       /\ \A s \in DOMAIN project.contexts : \A v :
                            Settles(s, v) => SettledIn(out', RowOf(s)', s, v)
  PROVE  AcquiredInv'
<1>1. /\ UNCHANGED <<plans, batches, generation, published>>
      /\ project'.known = project.known /\ project'.inflight = project.inflight
      /\ project'.dirty = project.dirty /\ project'.contexts = project.contexts
      /\ project'.retired = project.retired
      /\ project'.known \/ project' = project
  BY DEF Steady
<1>2. PendingInv' /\ ProjectInv'
  <2>1. PendingInv'
    BY <1>1 DEF AcquiredInv, PendingInv
  <2>2. ProjectInv'
    BY <1>1 DEF AcquiredInv, ProjectInv
  <2> QED
    BY <2>1, <2>2
<1>3. PlansInv'
  BY <1>1 DEF AcquiredInv, PlansInv, PlanCurrent, Awaited
<1>4. BatchesInv'
  <2> SUFFICES ASSUME NEW i \in DOMAIN batches, Awaited(batches[i].token)
               PROVE  BatchCurrent(batches[i])'
    BY <1>1 DEF BatchesInv, Awaited
  <2>1. BatchCurrent(batches[i]) /\ DOMAIN batches[i].contents \subseteq Artifacts
    BY ContentsTyped DEF AcquiredInv, BatchesInv
  <2>2. /\ DOMAIN batches[i].watches = DOMAIN project'.contexts \cup project'.retired
        /\ \A s \in project'.retired : batches[i].watches[s] = {}
        /\ \A s \in DOMAIN project'.contexts :
             /\ batches[i].watches[s] = Closure(project'.contexts[s], batches[i].contents)
             /\ batches[i].watches[s] \subseteq DOMAIN batches[i].contents
        /\ \A p \in DOMAIN batches[i].contents :
             batches[i].contents[p] = artifacts'[p] \/ Outstanding(p)'
    BY <1>1, <2>1, BatchKept
  <2> QED
    BY <1>1, <2>2 DEF BatchCurrent, Good
<1>5. RestInv'
  <2> SUFFICES ASSUME project'.known, ~Pending'
               PROVE  /\ plans' = <<>> /\ project'.retired = {} /\ Good(published)'
                      /\ \A s \in DOMAIN project'.contexts :
                           /\ Closure(project'.contexts[s], published') \subseteq DOMAIN published'
                           /\ ~Renaming' => Settles(s, Closure(project.contexts[s], published))'
    BY DEF RestInv
  <2>1. project.known /\ ~Pending
    BY <1>1 DEF Pending
  <2>2. /\ plans = <<>> /\ project.retired = {} /\ Good(published)
        /\ \A s \in DOMAIN project.contexts :
             /\ Closure(project.contexts[s], published) \subseteq DOMAIN published
             /\ ~Renaming => Settles(s, Closure(project.contexts[s], published))
    BY <2>1 DEF AcquiredInv, RestInv
  <2>3. Good(published)'
    <3>1. \A p \in DOMAIN published : published[p] = artifacts'[p] \/ Outstanding(p)'
      BY <2>2, GoodKept, ContentsTyped
    <3> QED
      BY <1>1, <3>1 DEF Good
  <2>4. ASSUME NEW s \in DOMAIN project.contexts, ~Renaming'
        PROVE  SettledIn(out', RowOf(s)', s, Closure(project'.contexts[s], published'))
    BY <1>1, <2>2, <2>4
  <2> QED
    BY <1>1, <2>2, <2>3, <2>4 DEF Settles
<1> QED
  BY <1>2, <1>3, <1>4, <1>5 DEF AcquiredInv

(* Steps that supersede the batch in flight: nothing is claimed of what is  *)
(* published until another batch has been read.                             *)
LEMMA SupersededKeeps ==
  ASSUME Superseded
  PROVE  AcquiredInv'
<1>1. RestInv'
  BY DEF Superseded, RestInv
<1>2. BatchesInv'
  BY DEF Superseded, BatchesInv, NoneAwaited
<1> QED
  BY <1>1, <1>2 DEF Superseded, AcquiredInv

-----------------------------------------------------------------------------
(* The steps that supersede nothing, and those of the worker that may.      *)

LEMMA AppendIsConcat ==
  ASSUME NEW S, NEW q \in Seq(S), NEW m \in S
  PROVE  <<m>> \in Seq(S) /\ Append(q, m) = q \o <<m>>
OBVIOUS

(* A channel of jobs grows at its end, or loses its first job.              *)
LEMMA RenamingStays ==
  ASSUME TypeOK, Renaming,
         \/ jobs' = jobs
         \/ \E r \in Seq(Jobs) : jobs' = jobs \o r
         \/ jobs # <<>> /\ jobs' = Tail(jobs) /\ Head(jobs).kind # "Rename"
  PROVE  Renaming'
<1>1. PICK i \in DOMAIN jobs : jobs[i].kind = "Rename"
  BY DEF Renaming
<1>2. jobs \in Seq(Jobs)
  BY DEF TypeOK
<1>3. CASE jobs' = jobs
  BY <1>1, <1>3 DEF Renaming
<1>4. CASE \E r \in Seq(Jobs) : jobs' = jobs \o r
  <2>1. i \in DOMAIN jobs' /\ jobs'[i] = jobs[i]
    BY <1>2, <1>4, ConcatParts
  <2> QED
    BY <1>1, <2>1 DEF Renaming
<1>5. CASE jobs # <<>> /\ jobs' = Tail(jobs) /\ Head(jobs).kind # "Rename"
  <2>1. i # 1
    BY <1>1, <1>2, <1>5, HeadOf
  <2>2. i - 1 \in DOMAIN jobs' /\ jobs'[i - 1] = jobs[i]
    BY <1>2, <1>5, <2>1, HeadOf
  <2> QED
    BY <1>1, <2>2 DEF Renaming
<1> QED
  BY <1>3, <1>4, <1>5

(* What is settled stays so, unless a rename is under way.                  *)
Settling ==
  \/ Renaming'
  \/ \A s \in DOMAIN project.contexts : \A v :
       Settles(s, v) => SettledIn(out', RowOf(s)', s, v)

LEMMA QueueKeeps ==
  ASSUME TypeOK, AcquiredInv, Steady, UNCHANGED <<artifacts, events, previous, overlooked, unseen>>,
         \/ jobs' = jobs
         \/ \E r \in Seq(Jobs) : jobs' = jobs \o r
         \/ jobs # <<>> /\ jobs' = Tail(jobs) /\ Head(jobs).kind \notin {"Watched", "Rename"},
         Settling
  PROVE  AcquiredInv'
<1>1. ChangesOutstand
  BY OutstandingElsewhere DEF ChangesOutstand
<1>2. Renaming => Renaming'
  <2>1. CASE jobs' = jobs
    BY <2>1 DEF Renaming
  <2>2. CASE \E r \in Seq(Jobs) : jobs' = jobs \o r
    BY <2>2, RenamingStays
  <2>3. CASE jobs # <<>> /\ jobs' = Tail(jobs) /\ Head(jobs).kind \notin {"Watched", "Rename"}
    BY <2>3, RenamingStays
  <2> QED
    BY <2>1, <2>2, <2>3
<1> QED
  BY <1>1, <1>2, SteadyKeeps DEF Settling

LEMMA SameReports ==
  ASSUME UNCHANGED <<out, rows>>, NEW s, NEW v, Settles(s, v)
  PROVE  SettledIn(out', RowOf(s)', s, v)
BY DEF Settles, RowOf

LEMMA RelintReport ==
  /\ [kind |-> "Relint"] \in Reports
  /\ \A s : ~WatchOf(s, [kind |-> "Relint"])
BY DEF Reports, WatchOf

(* A request to lint again settles nothing anew.                            *)
LEMMA RelintReported ==
  ASSUME TypeOK, UNCHANGED rows, out' = out \/ out' = Append(out, [kind |-> "Relint"]),
         NEW s, NEW v, Settles(s, v)
  PROVE  SettledIn(out', RowOf(s)', s, v)
<1>1. CASE out' = out
  BY <1>1, SameReports
<1>2. CASE out' = Append(out, [kind |-> "Relint"])
  <2> DEFINE m == [kind |-> "Relint"]
  <2>1. m \in Reports /\ ~WatchOf(s, m) /\ out \in Seq(Reports)
    BY RelintReport DEF TypeOK
  <2> HIDE DEF m
  <2>2. <<m>> \in Seq(Reports) /\ out' = out \o <<m>>
    BY <1>2, <2>1, AppendIsConcat DEF m
  <2>3. \A k \in DOMAIN <<m>> : ~WatchOf(s, <<m>>[k])
    BY <2>1
  <2> QED
    BY <2>1, <2>2, <2>3, SettlesBefore
<1> QED
  BY <1>1, <1>2

(* A report is taken: it replaces the row of its source.                    *)
LEMMA ReportTaken ==
  ASSUME TypeOK, TakeWatchArtifacts, NEW s, NEW v, Settles(s, v)
  PROVE  SettledIn(out', RowOf(s)', s, v)
<1>1. /\ out # <<>> /\ Head(out).kind = "Watch" /\ out' = Tail(out) /\ out \in Seq(Reports)
      /\ ReplaceArtifactWatches(Head(out).source, Head(out).paths)
  BY DEF TakeWatchArtifacts, TypeOK
<1>2. CASE Head(out).source = s
  <2>1. WatchOf(s, Head(out)) /\ RowOf(s)' = Head(out).paths
    BY <1>1, <1>2, RowReplaced DEF WatchOf
  <2> QED
    BY <1>1, <2>1, SettlesTaken
<1>3. CASE Head(out).source # s
  <2>1. ~WatchOf(s, Head(out)) /\ RowOf(s)' = RowOf(s)
    BY <1>1, <1>3, RowReplaced DEF WatchOf
  <2> QED
    BY <1>1, <2>1, SettlesTaken
<1> QED
  BY <1>2, <1>3

LEMMA RelintTaken ==
  ASSUME TypeOK, TakeRelintAll, NEW s, NEW v, Settles(s, v)
  PROVE  SettledIn(out', RowOf(s)', s, v)
<1>1. /\ out # <<>> /\ Head(out).kind = "Relint" /\ out' = Tail(out) /\ out \in Seq(Reports)
      /\ UNCHANGED rows
  BY DEF TakeRelintAll, TypeOK, mainState
<1>2. ~WatchOf(s, Head(out)) /\ RowOf(s)' = RowOf(s)
  BY <1>1 DEF WatchOf, RowOf
<1> QED
  BY <1>1, <1>2, SettlesTaken

LEMMA EnvironmentKeeps ==
  ASSUME TypeOK, AcquiredInv, PreviousIsPast, Environment
  PROVE  AcquiredInv'
<1> USE DEF disk, mainState, files, acquisition, watcher, history
<1>1. CASE \E p \in Artifacts : Write(p) \/ Delete(p)
  <2>1. PICK q \in Artifacts : Write(q) \/ Delete(q)
    BY <1>1
  <2>2. /\ UNCHANGED <<plans, batches, generation, published, project, jobs, out, rows>>
    BY <2>1 DEF Write, Delete
  <2>3. Steady
    BY <2>2 DEF Steady
  <2>4. ChangesOutstand
    BY <2>1, WriteOutstands DEF ChangesOutstand
  <2>5. Renaming' = Renaming
    BY <2>2 DEF Renaming
  <2>6. \A s \in DOMAIN project.contexts : \A v : Settles(s, v) => SettledIn(out', RowOf(s)', s, v)
    BY <2>2, SameReports
  <2> QED
    BY <2>3, <2>4, <2>5, <2>6, SteadyKeeps
<1>2. CASE \E s \in Sources : DidOpen(s) \/ DidClose(s)
  <2>1. PICK s \in Sources : DidOpen(s) \/ DidClose(s)
    BY <1>2
  <2>2. UNCHANGED <<plans, batches, generation, published, project, out, rows, artifacts, events,
                    previous, overlooked, unseen>>
    BY <2>1 DEF DidOpen, DidClose
  <2>3. Steady
    BY <2>2 DEF Steady
  <2>4. PICK m \in Jobs : jobs' = Append(jobs, m)
    BY <2>1 DEF DidOpen, DidClose, Edit, Jobs
  <2>5. <<m>> \in Seq(Jobs) /\ jobs' = jobs \o <<m>>
    BY <2>4, AppendIsConcat DEF TypeOK
  <2>6. Settling
    BY <2>2, SameReports DEF Settling
  <2> QED
    BY <2>2, <2>3, <2>5, <2>6, QueueKeeps
<1>3. CASE \E s, t \in Sources : DidRenameFiles(s, t)
  <2>1. PICK s \in Sources, t \in Sources : DidRenameFiles(s, t)
    BY <1>3
  <2> DEFINE m == [kind |-> "Rename", source |-> s, to |-> t]
             moved == IF s \in documents THEN (documents \ {s}) \cup {t} ELSE documents
             r == <<m>> \o Relint(moved)
  <2>2. /\ UNCHANGED <<plans, batches, generation, published, project, artifacts, events,
                       previous, overlooked, unseen>>
        /\ jobs' = Append(jobs, m) \o Relint(moved)
    BY <2>1 DEF DidRenameFiles
  <2>3. Steady
    BY <2>2 DEF Steady
  <2>4. m \in Jobs /\ m.kind = "Rename" /\ moved \in SUBSET Sources
    BY DEF Jobs, TypeOK
  <2>5. Relint(moved) \in Seq(Jobs) /\ jobs \in Seq(Jobs)
    BY <2>4, RelintTyped DEF TypeOK
  <2> HIDE DEF m, moved
  <2>6. <<m>> \in Seq(Jobs) /\ Append(jobs, m) = jobs \o <<m>>
    BY <2>4, <2>5, AppendIsConcat
  <2>7. r \in Seq(Jobs) /\ jobs' = jobs \o r
    BY <2>2, <2>5, <2>6
  <2>8. Renaming'
    <3>1. Append(jobs, m) \in Seq(Jobs) /\ Append(jobs, m)[Len(jobs) + 1] = m
          /\ Len(jobs) + 1 \in DOMAIN Append(jobs, m)
      BY <2>4, <2>5, AppendOf
    <3>2. Len(jobs) + 1 \in DOMAIN jobs' /\ jobs'[Len(jobs) + 1] = m
      BY <2>2, <2>5, <3>1, ConcatParts
    <3> QED
      BY <2>4, <3>2 DEF Renaming
  <2>9. Settling
    BY <2>8 DEF Settling
  <2> HIDE DEF r
  <2> QED
    BY <2>2, <2>3, <2>7, <2>9, QueueKeeps
<1> QED
  BY <1>1, <1>2, <1>3 DEF Environment

LEMMA MainKeeps ==
  ASSUME TypeOK, AcquiredInv, Main
  PROVE  AcquiredInv'
<1> USE DEF disk, mainState, files, acquisition, watcher, history
<1>1. UNCHANGED <<plans, batches, generation, published, project, artifacts, previous, overlooked, unseen>>
  BY DEF Main, TakeWatchArtifacts, TakeRelintAll, TakeEvents
<1>2. Steady
  BY <1>1 DEF Steady
<1>3. CASE TakeWatchArtifacts
  <2>1. UNCHANGED <<jobs, events>>
    BY <1>3 DEF TakeWatchArtifacts
  <2>2. Settling
    BY <1>3, ReportTaken DEF Settling
  <2> QED
    BY <1>1, <1>2, <2>1, <2>2, QueueKeeps
<1>4. CASE TakeRelintAll
  <2>1. UNCHANGED events /\ jobs' = jobs \o Relint(documents)
    BY <1>4 DEF TakeRelintAll
  <2>2. Relint(documents) \in Seq(Jobs)
    BY RelintTyped DEF TypeOK
  <2>3. Settling
    BY <1>4, RelintTaken DEF Settling
  <2> QED
    BY <1>1, <1>2, <2>1, <2>2, <2>3, QueueKeeps
<1>5. CASE TakeEvents
  <2>1. UNCHANGED <<out, rows>>
    BY <1>5 DEF TakeEvents
  <2>2. ChangesOutstand
    BY <1>1, <1>5, TakenOutstands DEF ChangesOutstand
  <2>3. Renaming => Renaming'
    <3> DEFINE paths == Head(events)
               f == [q \in paths |-> [kind |-> "Watched", path |-> q]]
    <3>1. paths \in SUBSET Artifacts /\ jobs' = jobs \o SetToSeq({f[q] : q \in paths})
      <4>1. {f[q] : q \in paths} = {[kind |-> "Watched", path |-> q] : q \in paths}
        OBVIOUS
      <4> QED
        BY <1>5, <4>1, HeadOf DEF TakeEvents, TypeOK
    <3>2. IsFiniteSet(paths) /\ f \in [paths -> Jobs]
      BY <3>1, CompilerArtifactsAssumption, FS_Subset DEF Jobs
    <3> HIDE DEF f, paths
    <3>3. SetToSeq({f[q] : q \in paths}) \in Seq(Jobs)
      BY <3>2, MessagesFor
    <3> QED
      BY <3>1, <3>3, RenamingStays
  <2>4. \A s \in DOMAIN project.contexts : \A v : Settles(s, v) => SettledIn(out', RowOf(s)', s, v)
    BY <2>1, SameReports
  <2> QED
    BY <1>2, <2>2, <2>3, <2>4, SteadyKeeps
<1> QED
  BY <1>3, <1>4, <1>5 DEF Main

LEMMA WatcherKeeps ==
  ASSUME TypeOK, AcquiredInv, Watcher
  PROVE  AcquiredInv'
<1> USE DEF disk, mainState, files, acquisition, history
<1>1. UNCHANGED <<plans, batches, generation, published, project, artifacts, jobs, out, rows>>
  BY DEF Watcher, AdoptScope, Scan
<1>2. Steady
  BY <1>1 DEF Steady
<1>3. ChangesOutstand
  BY <1>1, WatcherOutstands DEF ChangesOutstand
<1>4. Renaming' = Renaming
  BY <1>1 DEF Renaming
<1>5. \A s \in DOMAIN project.contexts : \A v : Settles(s, v) => SettledIn(out', RowOf(s)', s, v)
  BY <1>1, SameReports
<1> QED
  BY <1>2, <1>3, <1>4, <1>5, SteadyKeeps

-----------------------------------------------------------------------------
(* A batch is read, and completes.                                          *)

(* The rows of an accepted batch: one report for each of its sources.       *)
LEMMA RowsReported ==
  ASSUME NEW w \in Contexts
  PROVE  LET r == SetToSeq({[kind |-> "Watch", source |-> s, paths |-> w[s]] : s \in DOMAIN w})
         IN  /\ r \in Seq(Reports)
             /\ \A s : \A k \in DOMAIN r : WatchOf(s, r[k]) => s \in DOMAIN w /\ r[k].paths = w[s]
             /\ \A s \in DOMAIN w : \E k \in DOMAIN r : WatchOf(s, r[k])
<1> DEFINE f == [s \in DOMAIN w |-> [kind |-> "Watch", source |-> s, paths |-> w[s]]]
           T == {f[s] : s \in DOMAIN w}
           r == SetToSeq(T)
<1>1. DOMAIN w \in SUBSET Sources /\ w \in [DOMAIN w -> SUBSET Artifacts]
  BY ContextsAre
<1>2. T = {[kind |-> "Watch", source |-> s, paths |-> w[s]] : s \in DOMAIN w}
  OBVIOUS
<1>3. \A s \in DOMAIN w : f[s].kind = "Watch" /\ f[s].source = s /\ f[s].paths = w[s]
  OBVIOUS
<1>4. f \in [DOMAIN w -> Reports] /\ f \in Surjection(DOMAIN w, T)
  BY <1>1 DEF Reports, Surjection
<1>5. IsFiniteSet(DOMAIN w)
  BY <1>1, CompilerArtifactsAssumption, FS_Subset
<1>6. \A x \in T : \E s \in DOMAIN w : x = f[s]
  OBVIOUS
<1>7. r \in Seq(Reports)
  <2> HIDE DEF f
  <2> QED
    BY <1>4, <1>5, MessagesFor
<1>8. \A s \in DOMAIN w : f[s] \in T
  OBVIOUS
<1> HIDE DEF f, T
<1>9. r \in Seq(T) /\ \A x \in T : \E k \in 1..Len(r) : r[k] = x
  <2>1. IsFiniteSet(T)
    BY <1>4, <1>5, FS_Surjection
  <2> QED
    BY <2>1, OrderOf
<1> HIDE DEF r
<1>10. \A k \in DOMAIN r : r[k] \in T
  BY <1>9
<1>11. \A s : \A k \in DOMAIN r : WatchOf(s, r[k]) => s \in DOMAIN w /\ r[k].paths = w[s]
  <2> SUFFICES ASSUME NEW s, NEW k \in DOMAIN r, WatchOf(s, r[k])
               PROVE  s \in DOMAIN w /\ r[k].paths = w[s]
    OBVIOUS
  <2>1. PICK t \in DOMAIN w : r[k] = f[t]
    BY <1>6, <1>10
  <2> QED
    BY <1>3, <2>1 DEF WatchOf
<1>12. \A s \in DOMAIN w : \E k \in DOMAIN r : WatchOf(s, r[k])
  <2> SUFFICES ASSUME NEW s \in DOMAIN w
               PROVE  \E k \in DOMAIN r : WatchOf(s, r[k])
    OBVIOUS
  <2>1. PICK k \in 1..Len(r) : r[k] = f[s]
    BY <1>8, <1>9
  <2>2. k \in DOMAIN r
    BY <1>7, <2>1
  <2> QED
    BY <1>3, <2>1, <2>2 DEF WatchOf
<1> QED
  BY <1>2, <1>7, <1>11, <1>12 DEF r

(* Reports of an accepted batch, with or without the request to lint again. *)
ReportsRows(r, w) ==
  /\ r \in Seq(Reports)
  /\ \A s : \A k \in DOMAIN r : WatchOf(s, r[k]) => s \in DOMAIN w /\ r[k].paths = w[s]
  /\ \A s \in DOMAIN w : \E k \in DOMAIN r : WatchOf(s, r[k])

LEMMA RelintAfterRows ==
  ASSUME NEW w, NEW r, ReportsRows(r, w)
  PROVE  /\ ReportsRows(r \o <<[kind |-> "Relint"]>>, w)
         /\ ReportsRows(r \o <<>>, w)
<1> DEFINE m == [kind |-> "Relint"]
<1>1. m \in Reports /\ \A s : ~WatchOf(s, m)
  BY RelintReport
<1> HIDE DEF m
<1>2. ASSUME NEW q \in Seq(Reports), \A s : \A k \in DOMAIN q : ~WatchOf(s, q[k])
      PROVE  ReportsRows(r \o q, w)
  <2>1. r \in Seq(Reports)
    BY DEF ReportsRows
  <2>2. /\ r \o q \in Seq(Reports)
        /\ \A i \in DOMAIN (r \o q) : \/ i \in DOMAIN r /\ (r \o q)[i] = r[i]
                                      \/ \E k \in DOMAIN q : (r \o q)[i] = q[k]
    BY <2>1, ConcatOf
  <2>3. \A i \in DOMAIN r : i \in DOMAIN (r \o q) /\ (r \o q)[i] = r[i]
    BY <2>1, ConcatParts
  <2> DEFINE c == r \o q
  <2> HIDE DEF c
  <2>4. \A s : \A k \in DOMAIN c : WatchOf(s, c[k]) => s \in DOMAIN w /\ c[k].paths = w[s]
    BY <1>2, <2>2 DEF ReportsRows, c
  <2>5. \A s \in DOMAIN w : \E k \in DOMAIN c : WatchOf(s, c[k])
    BY <2>3 DEF ReportsRows, c
  <2> QED
    BY <2>2, <2>4, <2>5 DEF ReportsRows, c
<1>3. <<m>> \in Seq(Reports) /\ \A s : \A k \in DOMAIN <<m>> : ~WatchOf(s, <<m>>[k])
  BY <1>1
<1>4. <<>> \in Seq(Reports) /\ \A s : \A k \in DOMAIN <<>> : ~WatchOf(s, <<>>[k])
  OBVIOUS
<1>5. ReportsRows(r \o <<m>>, w)
  BY <1>2, <1>3
<1>6. ReportsRows(r \o <<>>, w)
  BY <1>2, <1>4
<1> QED
  BY <1>5, <1>6 DEF m

(* What becomes of the first batch.                                         *)
Unrelated ==
  /\ ~project.known \/ project.inflight # Head(batches).token
  /\ UNCHANGED <<out, project, generation, plans, published>>

Landed(p) ==
  /\ p \in Projects /\ project.known /\ p.known /\ p.inflight = 0 /\ p.contexts = project.contexts
  /\ project.inflight = Head(batches).token
  /\ Submit(p, generation)

Rejected(p) ==
  Landed(p) /\ p.dirty /\ p.retired = project.retired /\ UNCHANGED <<out, published>>

Accepted(p, batch) ==
  /\ Landed(p) /\ p.dirty = project.dirty /\ batch.token = generation
  /\ p.retired = project.retired \ {s \in DOMAIN batch.watches : batch.watches[s] = {}}
  /\ published' = batch.contents
  /\ \E r \in Seq(Reports) : out' = out \o r /\ ReportsRows(r, batch.watches)

LEMMA CompleteCases ==
  ASSUME TypeOK, Complete
  PROVE  \/ Unrelated
         \/ \E p \in Projects : Rejected(p)
         \/ \E p \in Projects : Accepted(p, Head(batches))
<1> DEFINE batch == Head(batches)
           w == batch.watches
           landed == [project EXCEPT !.inflight = 0]
           watches == UNION Range(w)
           released == {s \in DOMAIN w : w[s] = {}}
           rowsOf == SetToSeq({[kind |-> "Watch", source |-> s, paths |-> w[s]] : s \in DOMAIN w})
           news == [landed EXCEPT !.watches = watches, !.retired = @ \ released]
           later == [landed EXCEPT !.dirty = TRUE]
<1>1. batch \in Batches
  BY HeadOf DEF Complete, TypeOK
<1>2. w \in Contexts
  BY <1>1 DEF Batches
<1>3. watches \subseteq Artifacts
  BY <1>2, ContextsAre
<1>4. /\ landed \in Projects /\ landed.inflight = 0 /\ landed.contexts = project.contexts
      /\ landed.known = project.known /\ landed.dirty = project.dirty
      /\ landed.retired = project.retired
  BY DEF TypeOK, Projects
<1>5. \/ Unrelated
      \/ /\ project.known /\ project.inflight = batch.token
         /\ \/ /\ published' = batch.contents /\ batch.token = generation
               /\ out' = out \o rowsOf \o <<[kind |-> "Relint"]>> \/ out' = out \o rowsOf \o <<>>
               /\ Submit(news, generation)
            \/ Submit(later, generation) /\ UNCHANGED <<out, published>>
  BY DEF Complete, Resubmit, Accepts, Unrelated
<1>6. ReportsRows(rowsOf, w)
  BY <1>2, RowsReported DEF ReportsRows
<1> HIDE DEF batch, w, rowsOf, landed, watches, released
<1>7. /\ news \in Projects /\ news.inflight = 0 /\ news.contexts = project.contexts
      /\ news.known = project.known /\ news.dirty = project.dirty
      /\ news.retired = project.retired \ released
  <2>1. PICK a : a = [landed EXCEPT !.watches = watches]
    OBVIOUS
  <2>2. /\ a \in Projects /\ a.inflight = 0 /\ a.retired = project.retired
        /\ a.contexts = project.contexts /\ a.known = project.known /\ a.dirty = project.dirty
    BY <1>3, <1>4, <2>1 DEF Projects
  <2>3. news = [a EXCEPT !.retired = a.retired \ released]
    BY <1>4, <2>1, <2>2
  <2>4. a.retired \ released \in SUBSET Sources
    BY <2>2 DEF Projects
  <2> HIDE DEF news
  <2> QED
    BY <2>2, <2>3, <2>4 DEF Projects
<1>8. /\ later \in Projects /\ later.inflight = 0 /\ later.contexts = project.contexts
      /\ later.known = project.known /\ later.dirty /\ later.retired = project.retired
  BY <1>4 DEF Projects
<1> HIDE DEF news, later
<1>9. ASSUME project.known, project.inflight = batch.token, Submit(later, generation),
             UNCHANGED <<out, published>>
      PROVE  Rejected(later)
  BY <1>8, <1>9 DEF Rejected, Landed, batch
<1>10. ASSUME project.known, project.inflight = batch.token, batch.token = generation,
              published' = batch.contents, Submit(news, generation),
              out' = out \o rowsOf \o <<[kind |-> "Relint"]>> \/ out' = out \o rowsOf \o <<>>
       PROVE  Accepted(news, batch)
  <2> DEFINE m == [kind |-> "Relint"]
  <2>1. rowsOf \in Seq(Reports) /\ out \in Seq(Reports) /\ m \in Reports
    BY <1>6, RelintReport DEF ReportsRows, TypeOK
  <2> HIDE DEF m
  <2>2. /\ out \o rowsOf \o <<m>> = out \o (rowsOf \o <<m>>) /\ rowsOf \o <<m>> \in Seq(Reports)
        /\ out \o rowsOf \o <<>> = out \o (rowsOf \o <<>>) /\ rowsOf \o <<>> \in Seq(Reports)
    BY <2>1
  <2>3. ReportsRows(rowsOf \o <<m>>, w) /\ ReportsRows(rowsOf \o <<>>, w)
    BY <1>6, RelintAfterRows DEF m
  <2>4. \E r \in Seq(Reports) : out' = out \o r /\ ReportsRows(r, w)
    <3>1. CASE out' = out \o rowsOf \o <<m>>
      BY <2>2, <2>3, <3>1
    <3>2. CASE out' = out \o rowsOf \o <<>>
      BY <2>2, <2>3, <3>2
    <3> QED
      BY <1>10, <3>1, <3>2 DEF m
  <2> QED
    BY <1>7, <1>10, <2>4 DEF Accepted, Landed, batch, w, released
<1> QED
  BY <1>5, <1>7, <1>8, <1>9, <1>10 DEF batch

LEMMA ReadKeeps ==
  ASSUME TypeOK, TokensInOrder, AcquiredInv, ReadPlan
  PROVE  AcquiredInv'
<1> USE DEF disk, mainState, files, watcher
<1> DEFINE plan == Head(plans)
           paths == UNION Range(plan.contexts)
           read == Closure(paths, artifacts)
           contents == Restrict(artifacts, read)
           sets == [s \in DOMAIN plan.contexts \cup plan.retired |->
                      IF s \in DOMAIN plan.contexts THEN Closure(plan.contexts[s], artifacts) ELSE {}]
           batch == [token |-> plan.token, contents |-> contents, watches |-> sets]
<1>1. /\ plans # <<>> /\ plans' = Tail(plans) /\ batches' = Append(batches, batch)
      /\ UNCHANGED <<artifacts, project, generation, published>>
  BY DEF ReadPlan
<1>2. batch.token = plan.token /\ batch.contents = contents /\ batch.watches = sets
  OBVIOUS
<1>3. /\ plans \in Seq(Plans) /\ batches \in Seq(Batches) /\ generation \in Nat
      /\ project \in Projects /\ DOMAIN artifacts = Artifacts
  BY DEF TypeOK
<1>4. /\ plan \in Plans /\ plan = plans[1] /\ 1 \in DOMAIN plans
      /\ DOMAIN plans \subseteq Nat \ {0} /\ DOMAIN plans' \subseteq Nat \ {0}
      /\ \A i \in DOMAIN plans' : plans'[i] = plans[i + 1] /\ i + 1 \in DOMAIN plans
      /\ \A i \in DOMAIN plans : i = 1 \/ (i - 1 \in DOMAIN plans' /\ plans'[i - 1] = plans[i])
  BY <1>1, <1>3, HeadOf
<1> HIDE DEF batch
<1>5. /\ \A i \in DOMAIN batches : i \in DOMAIN batches' /\ batches'[i] = batches[i]
      /\ \E i \in DOMAIN batches' : batches'[i] = batch
      /\ \A i \in DOMAIN batches' : batches'[i] = batch \/ (i \in DOMAIN batches /\ batches'[i] = batches[i])
  BY <1>1, <1>3
<1>6. \A i \in DOMAIN batches : batches[i].token # generation
  <2>1. \A i \in DOMAIN batches : batches[i].token < plan.token /\ batches[i].token \in Nat
    BY <1>4, TokensAre DEF TokensInOrder
  <2>2. plan.token <= generation /\ plan.token \in Nat
    BY <1>4, TokensAre DEF TokensInOrder
  <2> QED
    BY <1>3, <2>1, <2>2
<1>7. PendingInv'
  <2>1. ASSUME NEW i \in DOMAIN plans, plans[i].token = project.inflight
        PROVE  \/ \E j \in DOMAIN plans' : plans'[j].token = project.inflight
               \/ \E j \in DOMAIN batches' : batches'[j].token = project.inflight
    BY <1>2, <1>4, <1>5, <2>1
  <2>2. ASSUME NEW i \in DOMAIN batches, batches[i].token = project.inflight
        PROVE  \E j \in DOMAIN batches' : batches'[j].token = project.inflight
    BY <1>5, <2>2
  <2>3. /\ \A i \in DOMAIN plans' : plans'[i].token # 0
        /\ \A i \in DOMAIN batches' : batches'[i].token # 0
    BY <1>2, <1>4, <1>5 DEF AcquiredInv, PendingInv
  <2>4. project.inflight # 0 =>
          \/ \E i \in DOMAIN plans : plans[i].token = project.inflight
          \/ \E i \in DOMAIN batches : batches[i].token = project.inflight
    BY DEF AcquiredInv, PendingInv
  <2>5. project.dirty => project.inflight # 0
    BY DEF AcquiredInv, PendingInv
  <2> QED
    BY <1>1, <2>1, <2>2, <2>3, <2>4, <2>5 DEF PendingInv
<1>8. ProjectInv'
  BY <1>1 DEF AcquiredInv, ProjectInv
<1>9. PlansInv'
  BY <1>1, <1>4 DEF AcquiredInv, PlansInv, PlanCurrent, Awaited
<1>10. ASSUME Awaited(batch.token)
       PROVE  /\ DOMAIN batch.watches = DOMAIN project.contexts \cup project.retired
              /\ \A s \in project.retired : batch.watches[s] = {}
              /\ \A s \in DOMAIN project.contexts :
                   /\ batch.watches[s] = Closure(project.contexts[s], batch.contents)
                   /\ batch.watches[s] \subseteq DOMAIN batch.contents
              /\ \A p \in DOMAIN batch.contents : batch.contents[p] = artifacts[p]
  <2>1. plan.contexts = project.contexts /\ plan.retired = project.retired
    BY <1>2, <1>4, <1>10 DEF AcquiredInv, PlansInv, PlanCurrent
  <2>2. project.contexts \in Contexts
    BY <1>3 DEF Projects
  <2>3. /\ paths \in SUBSET Artifacts
        /\ \A s \in DOMAIN plan.contexts : plan.contexts[s] \in SUBSET paths
    BY <2>1, <2>2, ContextsAre DEF Range
  <2> HIDE DEF paths
  <2>4. /\ DOMAIN contents = read
        /\ \A s \in DOMAIN plan.contexts :
             /\ Closure(plan.contexts[s], artifacts) \subseteq read
             /\ Closure(plan.contexts[s], contents) = Closure(plan.contexts[s], artifacts)
    <3>1. \A some \in SUBSET paths : /\ Closure(some, artifacts) \subseteq read
                                     /\ Closure(some, contents) = Closure(some, artifacts)
      BY <1>3, <2>3, ClosureReads
    <3>2. DOMAIN contents = read
      BY DEF Restrict
    <3> QED
      BY <2>3, <3>1, <3>2
  <2>5. /\ DOMAIN sets = DOMAIN plan.contexts \cup plan.retired
        /\ \A s \in DOMAIN plan.contexts : sets[s] = Closure(plan.contexts[s], artifacts)
        /\ \A s \in plan.retired : s \notin DOMAIN plan.contexts => sets[s] = {}
    OBVIOUS
  <2>6. project.retired \cap DOMAIN project.contexts = {}
    BY DEF AcquiredInv, ProjectInv
  <2>7. \A p \in DOMAIN contents : contents[p] = artifacts[p]
    BY DEF Restrict
  <2> HIDE DEF contents, sets, read
  <2>8. \A p \in DOMAIN batch.contents : batch.contents[p] = artifacts[p]
    BY <1>2, <2>7
  <2>9. /\ DOMAIN batch.watches = DOMAIN project.contexts \cup project.retired
        /\ \A s \in project.retired : batch.watches[s] = {}
        /\ \A s \in DOMAIN project.contexts :
             /\ batch.watches[s] = Closure(project.contexts[s], batch.contents)
             /\ batch.watches[s] \subseteq DOMAIN batch.contents
    <3> HIDE DEF plan
    <3> QED
      BY <1>2, <2>1, <2>4, <2>5, <2>6
  <2> QED
    BY <2>8, <2>9
<1>11. BatchesInv'
  <2> SUFFICES ASSUME NEW i \in DOMAIN batches', Awaited(batches'[i].token)
               PROVE  /\ DOMAIN batches'[i].watches = DOMAIN project.contexts \cup project.retired
                      /\ \A s \in project.retired : batches'[i].watches[s] = {}
                      /\ \A s \in DOMAIN project.contexts :
                           /\ batches'[i].watches[s] = Closure(project.contexts[s], batches'[i].contents)
                           /\ batches'[i].watches[s] \subseteq DOMAIN batches'[i].contents
                      /\ \A p \in DOMAIN batches'[i].contents : batches'[i].contents[p] = artifacts[p]
    BY <1>1 DEF BatchesInv, BatchCurrent, Good, Awaited
  <2>1. batches'[i] = batch
    BY <1>5, <1>6 DEF Awaited
  <2> QED
    BY <1>10, <2>1
<1>12. RestInv'
  <2>1. ~(project.known /\ ~Pending)
    BY <1>1 DEF AcquiredInv, RestInv
  <2> QED
    BY <1>1, <2>1 DEF RestInv, Pending
<1> QED
  BY <1>7, <1>8, <1>9, <1>11, <1>12 DEF AcquiredInv

(* What is dirty is submitted again: a new batch is in flight.              *)
LEMMA ResubmitKeeps ==
  ASSUME TypeOK, TokensInOrder, ProjectInv, batches # <<>>, batches' = Tail(batches),
         PendingInv, NEW p \in Projects, Landed(p), p.dirty, p.retired \subseteq project.retired
  PROVE  AcquiredInv' /\ project'.contexts = p.contexts /\ project'.retired = p.retired
<1> DEFINE t == generation + 1
           q == [token |-> t, contexts |-> p.contexts, retired |-> p.retired]
<1>1. /\ generation \in Nat /\ plans \in Seq(Plans) /\ batches \in Seq(Batches)
      /\ \A i \in DOMAIN batches' : \E j \in DOMAIN batches : batches'[i] = batches[j]
  BY HeadOf DEF TypeOK
<1>2. /\ \A i \in DOMAIN plans : plans[i].token \in Nat /\ plans[i].token <= generation
      /\ \A i \in DOMAIN batches : batches[i].token \in Nat /\ batches[i].token <= generation
  BY TokensAre DEF TokensInOrder
<1>3. /\ p.inflight = 0 /\ p.known /\ p.contexts = project.contexts /\ p \in Projects
      /\ Submit(p, generation)
  BY DEF Landed
<1>4. t \in Nat /\ t > generation /\ t # 0
  BY <1>1
<1>5. /\ generation' = t /\ project' = [p EXCEPT !.inflight = t, !.dirty = FALSE]
      /\ plans' = Append(plans, q)
  BY <1>3 DEF Submit
<1> HIDE DEF t
<1>6. /\ project'.inflight = t /\ ~project'.dirty /\ project'.known
      /\ project'.contexts = p.contexts /\ project'.retired = p.retired
  BY <1>3, <1>5 DEF Projects
<1>7. q.token = t /\ q.contexts = p.contexts /\ q.retired = p.retired /\ q \in Plans
  BY <1>4 DEF Plans, Projects
<1> HIDE DEF q
<1>8. /\ \A i \in DOMAIN plans' : plans'[i] = q \/ (i \in DOMAIN plans /\ plans'[i] = plans[i])
      /\ \E i \in DOMAIN plans' : plans'[i] = q
  BY <1>1, <1>5, <1>7, AppendOf
<1>9. \A i \in DOMAIN plans' : plans'[i].token = generation' =>
        plans'[i].contexts = project'.contexts /\ plans'[i].retired = project'.retired
  BY <1>1, <1>2, <1>4, <1>5, <1>6, <1>7, <1>8
<1>10. PlansInv'
  BY <1>9 DEF PlansInv, Awaited, PlanCurrent
<1>11. \A i \in DOMAIN batches' : batches'[i].token # generation'
  BY <1>1, <1>2, <1>4, <1>5
<1>12. BatchesInv'
  BY <1>11 DEF BatchesInv, Awaited
<1>13. PendingInv' /\ Pending'
  <2>1. /\ \A i \in DOMAIN plans' : plans'[i].token # 0
        /\ \A i \in DOMAIN batches' : batches'[i].token # 0
    BY <1>1, <1>4, <1>7, <1>8 DEF PendingInv
  <2>2. \E i \in DOMAIN plans' : plans'[i].token = project'.inflight
    BY <1>6, <1>7, <1>8
  <2> QED
    BY <1>4, <1>6, <2>1, <2>2 DEF PendingInv, Pending
<1>14. ProjectInv'
  BY <1>3, <1>6 DEF ProjectInv
<1>15. RestInv'
  BY <1>13 DEF RestInv
<1> QED
  BY <1>6, <1>10, <1>12, <1>13, <1>14, <1>15 DEF AcquiredInv

LEMMA UnrelatedKeeps ==
  ASSUME TypeOK, AcquiredInv, Complete, Unrelated
  PROVE  AcquiredInv'
<1> USE DEF disk, mainState, files, watcher, history
<1>1. /\ batches # <<>> /\ batches' = Tail(batches) /\ batches \in Seq(Batches)
      /\ UNCHANGED <<out, project, generation, plans, published, artifacts, jobs, rows, events,
                     previous, overlooked, unseen>>
  BY DEF Complete, Unrelated, TypeOK
<1>2. /\ Head(batches) = batches[1]
      /\ \A i \in DOMAIN batches' : batches'[i] = batches[i + 1] /\ i + 1 \in DOMAIN batches
      /\ \A i \in DOMAIN batches : i = 1 \/ (i - 1 \in DOMAIN batches' /\ batches'[i - 1] = batches[i])
  BY <1>1, HeadOf
<1>3. PendingInv'
  <2>1. project.inflight # 0 => batches[1].token # project.inflight
    BY <1>2 DEF Unrelated, AcquiredInv, ProjectInv, NoProject
  <2>2. ASSUME NEW i \in DOMAIN batches, batches[i].token = project.inflight, project.inflight # 0
        PROVE  \E j \in DOMAIN batches' : batches'[j].token = project.inflight
    BY <1>2, <2>1, <2>2
  <2> QED
    BY <1>1, <2>2 DEF AcquiredInv, PendingInv
<1>4. ProjectInv' /\ PlansInv'
  <2>1. ProjectInv'
    BY <1>1 DEF AcquiredInv, ProjectInv
  <2>2. PlansInv'
    BY <1>1 DEF AcquiredInv, PlansInv, PlanCurrent, Awaited
  <2> QED
    BY <2>1, <2>2
<1>5. \A p : Outstanding(p)' <=> Outstanding(p)
  BY <1>1 DEF Outstanding
<1>6. BatchesInv'
  <2> SUFFICES ASSUME NEW i \in DOMAIN batches', Awaited(batches'[i].token)
               PROVE  BatchCurrent(batches[i + 1])
    BY <1>1, <1>2, <1>5 DEF BatchesInv, BatchCurrent, Good, Awaited
  <2> QED
    BY <1>2 DEF AcquiredInv, BatchesInv
<1>7. RestInv'
  BY <1>1, <1>5 DEF AcquiredInv, RestInv, Pending, Renaming, Good, Settles, RowOf
<1> QED
  BY <1>3, <1>4, <1>6, <1>7 DEF AcquiredInv

(* The batch in flight is accepted: what it read becomes what is published. *)
LEMMA AcceptedKeeps ==
  ASSUME TypeOK, TokensInOrder, AcquiredInv, Complete,
         NEW p \in Projects, Accepted(p, Head(batches))
  PROVE  /\ AcquiredInv' /\ project'.contexts = project.contexts
         /\ project'.retired = p.retired
         /\ DOMAIN Head(batches).watches = DOMAIN project.contexts \cup project.retired
         /\ \A s \in DOMAIN project.contexts \cup project.retired :
              SettledIn(out', RowOf(s)', s, Head(batches).watches[s])
<1> USE DEF disk, mainState, files, watcher, history
<1> DEFINE batch == Head(batches)
           w == batch.watches
<1>1. /\ batches # <<>> /\ batches' = Tail(batches) /\ batches \in Seq(Batches)
      /\ UNCHANGED <<artifacts, jobs, rows, events, previous, overlooked, unseen>>
  BY DEF Complete, TypeOK
<1>2. 1 \in DOMAIN batches /\ batch = batches[1]
  BY <1>1, HeadOf
<1>3. /\ project.known /\ project.inflight = batch.token /\ batch.token = generation
      /\ p.known /\ p.inflight = 0 /\ p.contexts = project.contexts /\ p.dirty = project.dirty
      /\ p.retired = project.retired \ {s \in DOMAIN w : w[s] = {}}
      /\ Submit(p, generation) /\ published' = batch.contents
  BY DEF Accepted, Landed
<1>4. PICK r \in Seq(Reports) : out' = out \o r /\ ReportsRows(r, w)
  BY DEF Accepted
<1>5. generation \in Nat /\ generation # 0 /\ project.inflight # 0
  BY <1>2, <1>3 DEF AcquiredInv, PendingInv, TypeOK
<1>6. BatchCurrent(batch)
  BY <1>2, <1>3, <1>5 DEF AcquiredInv, BatchesInv, Awaited
<1>7. /\ DOMAIN w = DOMAIN project.contexts \cup project.retired
      /\ \A s \in project.retired : w[s] = {}
      /\ \A s \in DOMAIN project.contexts :
           /\ w[s] = Closure(project.contexts[s], batch.contents)
           /\ w[s] \subseteq DOMAIN batch.contents
      /\ Good(batch.contents)
  BY <1>6 DEF BatchCurrent
<1>8. p.retired = {}
  BY <1>3, <1>7
<1> HIDE DEF w
<1>9. \A s \in DOMAIN project.contexts \cup project.retired : SettledIn(out', RowOf(s)', s, w[s])
  <2> SUFFICES ASSUME NEW s \in DOMAIN project.contexts \cup project.retired
               PROVE  SettledIn(out', RowOf(s)', s, w[s])
    OBVIOUS
  <2>1. /\ \A k \in DOMAIN r : WatchOf(s, r[k]) => r[k].paths = w[s]
        /\ \E k \in DOMAIN r : WatchOf(s, r[k])
    BY <1>4, <1>7 DEF ReportsRows
  <2>2. out \in Seq(Reports)
    BY DEF TypeOK
  <2> QED
    BY <1>4, <2>1, <2>2, SettlesAnew
<1>10. CASE p.dirty
  <2>1. AcquiredInv' /\ project'.contexts = p.contexts /\ project'.retired = p.retired
    BY <1>1, <1>8, <1>10, ResubmitKeeps DEF AcquiredInv, Accepted
  <2> QED
    BY <1>3, <1>7, <1>9, <2>1 DEF w
<1>11. CASE ~p.dirty
  <2>1. project' = p /\ UNCHANGED <<plans, generation>>
    BY <1>3, <1>11 DEF Submit
  <2>2. ~Pending' /\ project'.inflight = 0 /\ project'.retired = {}
        /\ project'.contexts = project.contexts
    BY <1>3, <1>8, <1>11, <2>1 DEF Pending
  <2>3. plans = <<>>
    <3>1. \A i \in DOMAIN plans :
            plans[i].token \in Nat /\ plans[i].token <= generation /\ batch.token < plans[i].token
      BY <1>2, TokensAre DEF TokensInOrder
    <3>2. \A i \in DOMAIN plans : FALSE
      <4> HIDE DEF batch
      <4> SUFFICES ASSUME NEW i \in DOMAIN plans PROVE FALSE
        OBVIOUS
      <4>1. PICK n \in Nat : n = plans[i].token
        BY <3>1
      <4>2. n <= generation /\ generation < n
        BY <1>3, <3>1, <4>1
      <4> QED
        BY <1>5, <4>2
    <3> QED
      BY <3>2, HeadOf DEF TypeOK
  <2>4. PlansInv' /\ BatchesInv'
    BY <2>2 DEF PlansInv, BatchesInv, Awaited
  <2>5. PendingInv' /\ ProjectInv'
    <3>1. \A i \in DOMAIN batches' : \E j \in DOMAIN batches : batches'[i] = batches[j]
      BY <1>1, HeadOf
    <3>2. /\ \A i \in DOMAIN plans' : plans'[i].token # 0
          /\ \A i \in DOMAIN batches' : batches'[i].token # 0
      BY <2>1, <3>1 DEF AcquiredInv, PendingInv
    <3>3. project'.known /\ ~project'.dirty
      BY <1>3, <1>11, <2>1
    <3> QED
      BY <2>2, <3>2, <3>3 DEF PendingInv, ProjectInv
  <2>6. Good(published)'
    <3>1. \A q : Outstanding(q)' <=> Outstanding(q)
      BY <1>1 DEF Outstanding
    <3> QED
      BY <1>1, <1>3, <1>7, <3>1 DEF Good
  <2>7. \A s \in DOMAIN project'.contexts :
          /\ Closure(project'.contexts[s], published') \subseteq DOMAIN published'
          /\ SettledIn(out', RowOf(s)', s, Closure(project'.contexts[s], published'))
    BY <1>3, <1>7, <1>9, <2>2
  <2>8. RestInv'
    BY <2>1, <2>2, <2>3, <2>6, <2>7 DEF RestInv, Settles
  <2> QED
    BY <1>7, <1>9, <2>1, <2>2, <2>4, <2>5, <2>8 DEF AcquiredInv, w
<1> QED
  BY <1>10, <1>11

LEMMA CompleteKeeps ==
  ASSUME TypeOK, TokensInOrder, AcquiredInv, Complete
  PROVE  AcquiredInv'
<1>1. batches # <<>> /\ batches' = Tail(batches)
  BY DEF Complete
<1>2. ASSUME NEW p \in Projects, Rejected(p)
      PROVE  AcquiredInv'
  BY <1>1, <1>2, ResubmitKeeps DEF AcquiredInv, Rejected
<1> QED
  BY <1>2, CompleteCases, UnrelatedKeeps, AcceptedKeeps

LEMMA WorkerKeeps ==
  ASSUME TypeOK, TokensInOrder, AcquiredInv, Worker
  PROVE  AcquiredInv'
<1> USE DEF disk, mainState, watcher
<1>1. /\ TokensInOrder /\ PendingInv /\ ProjectInv
  BY DEF AcquiredInv
<1>2. CASE WorkEdit
  <2>1. /\ UNCHANGED <<artifacts, events, previous, overlooked, unseen, out, rows>>
        /\ jobs # <<>> /\ jobs' = Tail(jobs) /\ Head(jobs).kind \notin {"Watched", "Rename"}
    BY <1>2 DEF WorkEdit
  <2>2. Settling
    BY <2>1, SameReports DEF Settling
  <2>3. CASE Steady
    BY <2>1, <2>2, <2>3, QueueKeeps
  <2>4. CASE Superseded
    BY <2>4, SupersededKeeps
  <2> QED
    BY <1>1, <1>2, <2>3, <2>4, EditRevises
<1>3. CASE WorkClose
  <2>1. /\ UNCHANGED <<artifacts, events, previous, overlooked, unseen, rows>>
        /\ UNCHANGED <<project, generation, published, plans, batches>>
        /\ jobs # <<>> /\ jobs' = Tail(jobs) /\ Head(jobs).kind \notin {"Watched", "Rename"}
        /\ out' = out \/ out' = Append(out, [kind |-> "Relint"])
    BY <1>3 DEF WorkClose, acquisition, history
  <2>2. Settling
    BY <2>1, RelintReported DEF Settling
  <2>3. Steady
    BY <2>1 DEF Steady
  <2> QED
    BY <2>1, <2>2, <2>3, QueueKeeps
<1>4. CASE WorkRename
  <2>1. project' = NoProject /\ UNCHANGED <<plans, batches>>
    BY <1>4 DEF WorkRename
  <2>2. /\ ~project'.known /\ project'.inflight = 0 /\ ~project'.dirty /\ project'.retired = {}
    BY <2>1 DEF NoProject
  <2>3. PendingInv' /\ ProjectInv'
    BY <1>1, <2>1, <2>2 DEF PendingInv, ProjectInv
  <2> QED
    BY <2>2, <2>3 DEF AcquiredInv, PlansInv, BatchesInv, RestInv, Awaited
<1>5. CASE WorkWatched
  <2>1. /\ UNCHANGED <<out, rows, batches, published>>
        /\ jobs # <<>> /\ jobs' = Tail(jobs) /\ Head(jobs).kind = "Watched"
        /\ \/ project.known /\ InvalidateAndSubmit(project, TRUE)
           \/ UNCHANGED <<project, generation, plans>>
    BY <1>5 DEF WorkWatched
  <2>2. CASE project.known /\ InvalidateAndSubmit(project, TRUE)
    BY <1>1, <1>5, <2>2, WatchedRevises, SupersededKeeps
  <2>3. CASE ~(project.known /\ InvalidateAndSubmit(project, TRUE))
    <3>1. Steady
      BY <2>1, <2>3 DEF Steady
    <3>2. ChangesOutstand
      <4>1. UNCHANGED artifacts
        BY <1>5 DEF WorkWatched
      <4>2. \A p \in Artifacts : Outstanding(p) => Outstanding(p)'
        BY <1>5, <2>3, HeardOutstands
      <4> QED
        BY <4>1, <4>2 DEF ChangesOutstand
    <3>3. Renaming => Renaming'
      BY <2>1, RenamingStays
    <3>4. \A s \in DOMAIN project.contexts : \A v :
            Settles(s, v) => SettledIn(out', RowOf(s)', s, v)
      BY <2>1, SameReports
    <3> QED
      BY <3>1, <3>2, <3>3, <3>4, SteadyKeeps
  <2> QED
    BY <2>2, <2>3
<1>6. CASE CompleteFiles
  <2>1. /\ UNCHANGED <<artifacts, events, previous, overlooked, unseen, jobs, rows>>
        /\ out' = out \/ out' = Append(out, [kind |-> "Relint"])
    BY <1>6 DEF CompleteFiles, history
  <2>2. Settling
    BY <2>1, RelintReported DEF Settling
  <2>3. CASE Steady
    BY <2>1, <2>2, <2>3, QueueKeeps
  <2>4. CASE Superseded
    BY <2>4, SupersededKeeps
  <2> QED
    BY <1>1, <1>6, <2>3, <2>4, FilesRevise
<1>7. CASE Complete
  BY <1>7, CompleteKeeps
<1> QED
  BY <1>2, <1>3, <1>4, <1>5, <1>6, <1>7 DEF Worker

-----------------------------------------------------------------------------
(* Rows without a context.                                                  *)

(* The rows of the sources that are neither registered nor forgotten        *)
(* settle to nothing.                                                       *)
LEMMA EmptySettles ==
  ASSUME \A s : Settles(s, {}) => SettledIn(out', RowOf(s)', s, {}),
         RowsInv, \A s \in DOMAIN rows' : rows'[s] # {},
         Registered(project) \cup forgotten \subseteq Registered(project') \cup forgotten'
  PROVE  RowsInv'
BY DEF RowsInv, Registered, Settles

LEMMA RowsKept ==
  ASSUME TypeOK, TokensInOrder, AcquiredInv, RowsInv, [Next]_vars
  PROVE  RowsInv'
<1> USE DEF disk, mainState, files, watcher, history, acquisition
<1>1. PendingInv /\ ProjectInv
  BY DEF AcquiredInv
<1>2. ASSUME UNCHANGED <<out, rows>>,
             Registered(project) \cup forgotten \subseteq Registered(project') \cup forgotten'
      PROVE  RowsInv'
  <2>1. \A s : Settles(s, {}) => SettledIn(out', RowOf(s)', s, {})
    BY <1>2, SameReports
  <2>2. \A s \in DOMAIN rows' : rows'[s] # {}
    BY <1>2 DEF RowsInv
  <2> QED
    BY <1>2, <2>1, <2>2, EmptySettles
<1>3. CASE UNCHANGED <<out, rows, project, forgotten>>
  BY <1>2, <1>3
<1>4. CASE \E s, t \in Sources : DidRenameFiles(s, t)
  <2>1. PICK s \in Sources : ReplaceArtifactWatches(s, {}) /\ UNCHANGED <<out, project, forgotten>>
    BY <1>4 DEF DidRenameFiles
  <2>2. \A t : RowOf(t)' = RowOf(t) \/ RowOf(t)' = {}
    BY <2>1, RowReplaced
  <2>3. \A t : Settles(t, {}) => SettledIn(out', RowOf(t)', t, {})
    BY <2>1, <2>2 DEF Settles, SettledIn
  <2>4. \A t \in DOMAIN rows' : rows'[t] # {}
    BY <2>1, RowReplaced DEF RowsInv
  <2> QED
    BY <2>1, <2>3, <2>4, EmptySettles
<1>5. CASE TakeWatchArtifacts
  <2>1. /\ ReplaceArtifactWatches(Head(out).source, Head(out).paths)
        /\ UNCHANGED <<project, forgotten>>
    BY <1>5 DEF TakeWatchArtifacts
  <2>2. \A t : Settles(t, {}) => SettledIn(out', RowOf(t)', t, {})
    BY <1>5, ReportTaken
  <2>3. \A t \in DOMAIN rows' : rows'[t] # {}
    BY <2>1, RowReplaced DEF RowsInv
  <2> QED
    BY <2>1, <2>2, <2>3, EmptySettles
<1>6. CASE TakeRelintAll
  <2>1. \A t : Settles(t, {}) => SettledIn(out', RowOf(t)', t, {})
    BY <1>6, RelintTaken
  <2>2. UNCHANGED <<project, forgotten>> /\ \A t \in DOMAIN rows' : rows'[t] # {}
    BY <1>6 DEF TakeRelintAll, RowsInv
  <2> QED
    BY <2>1, <2>2, EmptySettles
<1>7. CASE WorkEdit
  <2>1. UNCHANGED <<out, rows>> /\ forgotten' = forgotten \ {Head(jobs).source}
    BY <1>7 DEF WorkEdit
  <2>2. /\ Head(jobs).source \in Registered(project')
        /\ Registered(project) \subseteq Registered(project')
    BY <1>1, <1>7, EditRevises
  <2> QED
    BY <1>2, <2>1, <2>2
<1>8. ASSUME UNCHANGED <<rows, forgotten>>, out' = out \/ out' = Append(out, [kind |-> "Relint"]),
             Registered(project) \subseteq Registered(project')
      PROVE  RowsInv'
  <2>1. \A s : Settles(s, {}) => SettledIn(out', RowOf(s)', s, {})
    BY <1>8, RelintReported
  <2>2. \A s \in DOMAIN rows' : rows'[s] # {}
    BY <1>8 DEF RowsInv
  <2> QED
    BY <1>8, <2>1, <2>2, EmptySettles
<1>9. Steady \/ Superseded => Registered(project) \subseteq Registered(project')
  BY DEF Steady, Superseded, Registered
<1>10. CASE WorkClose
  BY <1>8, <1>10 DEF WorkClose
<1>11. CASE WorkRename
  <2>1. /\ UNCHANGED <<out, rows>>
        /\ forgotten' = forgotten \cup DOMAIN project.contexts \cup project.retired
    BY <1>11 DEF WorkRename
  <2> QED
    BY <1>2, <2>1 DEF Registered
<1>12. CASE WorkWatched
  <2>1. UNCHANGED <<out, rows, forgotten>>
    BY <1>12 DEF WorkWatched
  <2>2. CASE project.known /\ InvalidateAndSubmit(project, TRUE)
    BY <1>1, <1>2, <1>9, <1>12, <2>1, <2>2, WatchedRevises
  <2>3. CASE UNCHANGED project
    BY <1>2, <2>1, <2>3
  <2> QED
    BY <1>12, <2>2, <2>3 DEF WorkWatched
<1>13. CASE CompleteFiles
  <2>1. UNCHANGED <<rows, forgotten>> /\ (out' = out \/ out' = Append(out, [kind |-> "Relint"]))
    BY <1>13 DEF CompleteFiles
  <2> QED
    BY <1>1, <1>8, <1>9, <1>13, <2>1, FilesRevise
<1>14. CASE Complete
  <2>1. UNCHANGED <<rows, forgotten>> /\ batches # <<>> /\ batches' = Tail(batches)
    BY <1>14 DEF Complete
  <2>2. CASE Unrelated
    BY <1>3, <2>1, <2>2 DEF Unrelated
  <2>3. ASSUME NEW p \in Projects, Rejected(p)
        PROVE  RowsInv'
    <3>1. project'.contexts = project.contexts /\ project'.retired = project.retired
      BY <1>1, <2>1, <2>3, ResubmitKeeps DEF Rejected, Landed
    <3>2. UNCHANGED out
      BY <2>3 DEF Rejected
    <3> QED
      BY <1>2, <2>1, <3>1, <3>2 DEF Registered
  <2>4. ASSUME NEW p \in Projects, Accepted(p, Head(batches))
        PROVE  RowsInv'
    <3> DEFINE w == Head(batches).watches
    <3>1. /\ project'.contexts = project.contexts /\ project'.retired = p.retired
          /\ DOMAIN w = DOMAIN project.contexts \cup project.retired
          /\ \A s \in DOMAIN project.contexts \cup project.retired :
               SettledIn(out', RowOf(s)', s, w[s])
      BY <1>14, <2>4, AcceptedKeeps
    <3>2. p.retired = project.retired \ {s \in DOMAIN w : w[s] = {}}
      BY <2>4 DEF Accepted
    <3>3. PICK r \in Seq(Reports) : out' = out \o r /\ ReportsRows(r, w)
      BY <2>4 DEF Accepted
    <3> HIDE DEF w
    <3>4. ASSUME NEW s \in Sources \ (DOMAIN project'.contexts \cup project'.retired \cup forgotten')
          PROVE  SettledIn(out', RowOf(s)', s, {})
      <4>1. CASE s \in project.retired
        <5>1. w[s] = {}
          BY <3>1, <3>2, <4>1
        <5> QED
          BY <3>1, <4>1, <5>1
      <4>2. CASE s \notin project.retired
        <5>1. Settles(s, {})
          BY <2>1, <3>1, <3>4, <4>2 DEF RowsInv
        <5>2. \A k \in DOMAIN r : ~WatchOf(s, r[k])
          BY <3>1, <3>3, <3>4, <4>2 DEF ReportsRows
        <5>3. out \in Seq(Reports)
          BY DEF TypeOK
        <5> QED
          BY <2>1, <3>3, <5>1, <5>2, <5>3, SettlesBefore
      <4> QED
        BY <4>1, <4>2
    <3> QED
      BY <2>1, <3>4 DEF RowsInv, Settles
  <2> QED
    BY <1>14, <2>2, <2>3, <2>4, CompleteCases
<1> QED
  BY <1>3, <1>4, <1>5, <1>6, <1>7, <1>10, <1>11, <1>12, <1>13, <1>14
  DEF Next, Environment, Main, Watcher, Worker, vars, Write, Delete, DidOpen, DidClose,
      TakeEvents, AdoptScope, Scan, ReadPlan

-----------------------------------------------------------------------------
(* What holds when everything has come to rest.                             *)

(* The inductive invariant: what is in flight is somewhere and, once        *)
(* nothing is, what is published and what is watched are what they should   *)
(* be, except for what is still outstanding and for reports under way.      *)
AtRestInv == TypeOK /\ TokensInOrder /\ AcquiredInv /\ RowsInv /\ PreviousIsPast

LEMMA AtRestInit == Init => AcquiredInv /\ RowsInv /\ PreviousIsPast
<1> SUFFICES ASSUME Init
             PROVE  AcquiredInv /\ RowsInv /\ PreviousIsPast
  OBVIOUS
<1>1. /\ plans = <<>> /\ batches = <<>> /\ out = <<>> /\ project = NoProject
      /\ DOMAIN rows = {} /\ DOMAIN previous = {}
  BY DEF Init, Nothing
<1>2. ~project.known /\ ~project.dirty /\ project.inflight = 0 /\ project.retired = {}
  BY <1>1 DEF NoProject
<1>3. PendingInv /\ ProjectInv /\ PlansInv /\ BatchesInv /\ RestInv
  BY <1>1, <1>2 DEF PendingInv, ProjectInv, PlansInv, BatchesInv, RestInv
<1>4. \A s : Settles(s, {})
  BY <1>1 DEF Settles, SettledIn, RowOf
<1> QED
  BY <1>1, <1>3, <1>4 DEF AcquiredInv, RowsInv, PreviousIsPast

LEMMA AtRestStep ==
  ASSUME AtRestInv, [Next]_vars
  PROVE  AcquiredInv' /\ RowsInv' /\ PreviousIsPast'
<1>1. TypeOK /\ TokensInOrder /\ AcquiredInv /\ RowsInv /\ PreviousIsPast
  BY DEF AtRestInv
<1>2. AcquiredInv'
  <2>1. CASE UNCHANGED vars
    <3>1. UNCHANGED <<project, generation, published, plans, batches, artifacts, events, previous,
                      overlooked, unseen, jobs, out, rows>>
      BY <2>1 DEF vars, disk, mainState, acquisition, watcher, history
    <3>2. Steady
      BY <3>1 DEF Steady
    <3>3. Settling
      BY <3>1, SameReports DEF Settling
    <3> QED
      BY <1>1, <3>1, <3>2, <3>3, QueueKeeps
  <2> QED
    BY <1>1, <2>1, EnvironmentKeeps, MainKeeps, WatcherKeeps, WorkerKeeps, ReadKeeps DEF Next
<1>3. RowsInv' /\ PreviousIsPast'
  BY <1>1, RowsKept, PastPreserved
<1> QED
  BY <1>2, <1>3

LEMMA AtRestInvariant == Spec => []AtRestInv
<1>1. Init => AcquiredInv /\ RowsInv /\ PreviousIsPast
  BY AtRestInit
<1>2. BatchInv /\ AtRestInv /\ [Next]_vars => AcquiredInv' /\ RowsInv' /\ PreviousIsPast'
  BY AtRestStep
<1>3. BatchInv => TypeOK /\ TokensInOrder
  BY DEF BatchInv
<1> QED
  BY <1>1, <1>2, <1>3, BatchInvariant, PTL DEF Spec, AtRestInv

(* At rest, a change that is outstanding is one that the worker dropped, or *)
(* a file that vanished before the watcher saw it.                          *)
LEMMA OutstandingAtRest ==
  ASSUME TypeOK, Quiet, NEW p \in Watching, Outstanding(p)
  PROVE  p \in overlooked \cup unseen
<1>1. jobs = <<>> /\ events = <<>> /\ scope = Watching /\ previous = Found
  BY DEF Quiet
<1>2. /\ DOMAIN previous = {q \in scope : HoldsFile(artifacts[q])}
      /\ \A q \in DOMAIN previous : previous[q] = artifacts[q]
  BY <1>1 DEF Found
<1> QED
  BY <1>1, <1>2 DEF Outstanding

(* No acquisition is left pending when the system comes to rest: whatever   *)
(* was invalidated has been read again, in every order of invalidations,    *)
(* completions and renames.                                                 *)
THEOREM AcquisitionCompletes == Spec => []NothingStranded
<1>1. AtRestInv => NothingStranded
  <2> SUFFICES ASSUME AtRestInv, Quiet
               PROVE  ~Pending
    BY DEF NothingStranded
  <2>1. plans = <<>> /\ batches = <<>>
    BY DEF Quiet
  <2>2. PendingInv
    BY DEF AtRestInv, AcquiredInv
  <2> QED
    BY <2>1, <2>2 DEF PendingInv, Pending
<1> QED
  BY <1>1, AtRestInvariant, PTL

LEMMA AtRest ==
  ASSUME AtRestInv, Quiet
  PROVE  /\ project.retired = {}
         /\ project.known => Good(published)
         /\ \A s \in DOMAIN project.contexts :
              /\ project.known
              /\ Closure(project.contexts[s], published) \subseteq DOMAIN published
              /\ RowOf(s) = Closure(project.contexts[s], published)
<1>1. PendingInv /\ ProjectInv /\ RestInv
  BY DEF AtRestInv, AcquiredInv
<1>2. plans = <<>> /\ batches = <<>> /\ jobs = <<>> /\ out = <<>>
  BY DEF Quiet
<1>3. ~Pending /\ ~Renaming
  BY <1>1, <1>2 DEF PendingInv, Pending, Renaming
<1>4. CASE ~project.known
  BY <1>1, <1>4 DEF ProjectInv, NoProject, Nothing
<1>5. CASE project.known
  BY <1>1, <1>2, <1>3, <1>5 DEF RestInv, Settles, SettledIn
<1> QED
  BY <1>4, <1>5

(* At rest, what the main loop watches is what the worker read: a row of    *)
(* exactly the artifacts of its context for every source that has one, and  *)
(* no other row but those of sources that a rename made the worker forget.  *)
THEOREM RowsAgree == Spec => []RowsFollowContexts
<1>1. AtRestInv => RowsFollowContexts
  <2> SUFFICES ASSUME AtRestInv, Quiet
               PROVE  /\ project.retired = {}
                      /\ \A s \in DOMAIN project.contexts :
                           RowOf(s) = Closure(project.contexts[s], published)
                      /\ DOMAIN rows \ DOMAIN project.contexts \subseteq forgotten
    BY DEF RowsFollowContexts
  <2>1. out = <<>>
    BY DEF Quiet
  <2>2. RowsInv /\ DOMAIN rows \subseteq Sources
    BY ContextsAre DEF AtRestInv, TypeOK
  <2>3. ASSUME NEW s \in DOMAIN rows, s \notin DOMAIN project.contexts, s \notin forgotten
        PROVE  FALSE
    <3>1. Settles(s, {})
      BY <2>2, <2>3, AtRest DEF RowsInv
    <3>2. RowOf(s) = {}
      BY <2>1, <3>1 DEF Settles, SettledIn
    <3> QED
      BY <2>2, <2>3, <3>2 DEF RowsInv, RowOf
  <2> QED
    BY <2>3, AtRest
<1> QED
  BY <1>1, AtRestInvariant, PTL

(* At rest, every artifact of a context is published as it is on disk, but  *)
(* for the two kinds of changes that the system is known to miss.           *)
THEOREM PublishedAgrees == Spec => []PublishedIsCurrent
<1>1. AtRestInv => PublishedIsCurrent
  <2> SUFFICES ASSUME AtRestInv, Quiet, NEW s \in DOMAIN project.contexts,
                      NEW p \in Closure(project.contexts[s], published)
               PROVE  /\ p \in DOMAIN published
                      /\ published[p] = artifacts[p] \/ p \in overlooked \cup unseen
    BY DEF PublishedIsCurrent
  <2>1. /\ p \in DOMAIN published /\ Good(published)
        /\ RowOf(s) = Closure(project.contexts[s], published)
    BY AtRest
  <2>2. p \in Watching
    BY <2>1 DEF RowOf, Watching, Range
  <2>3. Outstanding(p) => p \in overlooked \cup unseen
    BY <2>2, OutstandingAtRest DEF AtRestInv
  <2> QED
    BY <2>1, <2>3 DEF Good
<1> QED
  BY <1>1, AtRestInvariant, PTL
=============================================================================
