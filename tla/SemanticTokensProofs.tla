------------------------ MODULE SemanticTokensProofs ------------------------
(***************************************************************************)
(* What holds of SemanticTokens for every set of documents, tokens and     *)
(* bounds: the edits of a response turn the result that the client named   *)
(* into the tokens that were computed, baselines are current, and their    *)
(* retention is bounded.                                                   *)
(***************************************************************************)
EXTENDS SemanticTokens, SequenceTheorems, FiniteSetTheorems, WellFoundedInduction, TLAPS

-----------------------------------------------------------------------------
(* Edits.                                                                   *)

LEMMA LeastOf ==
  ASSUME NEW T \in SUBSET Nat, T # {}
  PROVE  \E x \in T : \A y \in T : x <= y
<1>1. PICK x \in T : \A y \in T : <<y, x>> \notin OpToRel(<, Nat)
  BY WFMin, NatLessThanWellFounded
<1>2. ASSUME NEW y \in T, y < x
      PROVE  FALSE
  <2>1. <<y, x>> \in Nat \X Nat /\ <<y, x>>[1] < <<y, x>>[2]
    BY <1>2
  <2>2. <<y, x>> \in OpToRel(<, Nat)
    BY <2>1 DEF OpToRel
  <2> QED
    BY <1>1, <2>2
<1> QED
  BY <1>2

(* Bounds over plain numbers, away from the arrays they are lengths of.      *)
LEMMA LeastBounds ==
  ASSUME NEW x \in Nat, NEW y \in Nat
  PROVE  Least(x, y) \in Nat /\ Least(x, y) <= x /\ Least(x, y) <= y
BY DEF Least

LEMMA FirstBelow ==
  ASSUME NEW m \in Nat, NEW n \in 0 .. m, NEW i \in 1 .. n
  PROVE  i - 1 \in Nat /\ i - 1 < m /\ (i - 1) + 1 = i /\ ~ n <= i - 1
OBVIOUS

LEMMA LastBelow ==
  ASSUME NEW m \in Nat, NEW n \in 0 .. m, NEW i \in 0 .. n - 1
  PROVE  i \in Nat /\ i < m /\ ~ n <= i
OBVIOUS

(* The common start is common, and no longer than either array.             *)
LEMMA LeadingAgrees ==
  ASSUME NEW a \in Seq(Nat), NEW b \in Seq(Nat)
  PROVE  /\ Leading(a, b) \in 0 .. Least(Len(a), Len(b))
         /\ \A i \in 1 .. Leading(a, b) : a[i] = b[i]
<1> DEFINE m == Least(Len(a), Len(b))
           T == {n \in Nat : n = m \/ (n < m /\ a[n + 1] # b[n + 1])}
<1>1. Len(a) \in Nat /\ Len(b) \in Nat
  OBVIOUS
<1>1a. m \in Nat
  BY <1>1, LeastBounds
<1>1b. m \in T
  BY <1>1a
<1>1c. T \in SUBSET Nat
  OBVIOUS
<1> HIDE DEF m
<1>2. PICK n \in T : \A k \in T : n <= k
  <2> HIDE DEF T
  <2> QED
    BY <1>1b, <1>1c, LeastOf
<1>2a. n \in Nat /\ n <= m
  BY <1>1a, <1>1b, <1>2
<1>3. n \in 0 .. m /\ (n = m \/ a[n + 1] # b[n + 1])
  BY <1>1a, <1>2, <1>2a
<1>4. \A i \in 1 .. n : a[i] = b[i]
  <2>1. SUFFICES ASSUME NEW i \in 1 .. n, a[i] # b[i]
                 PROVE  FALSE
    OBVIOUS
  <2>2. i - 1 \in Nat /\ i - 1 < m /\ (i - 1) + 1 = i /\ ~ n <= i - 1
    <3> HIDE DEF T
    <3> QED
      BY <1>1a, <1>3, FirstBelow
  <2>3. i - 1 \in T
    BY <2>1, <2>2
  <2> QED
    BY <1>2, <2>2, <2>3
<1> QED
  BY <1>3, <1>4 DEF Leading, m

(* So is the common end.                                                    *)
LEMMA TrailingAgrees ==
  ASSUME NEW a \in Seq(Nat), NEW b \in Seq(Nat)
  PROVE  /\ Trailing(a, b) \in 0 .. Least(Len(a), Len(b))
         /\ \A i \in 0 .. Trailing(a, b) - 1 : a[Len(a) - i] = b[Len(b) - i]
<1> DEFINE m == Least(Len(a), Len(b))
           T == {n \in Nat : n = m \/ (n < m /\ a[Len(a) - n] # b[Len(b) - n])}
<1>1. Len(a) \in Nat /\ Len(b) \in Nat
  OBVIOUS
<1>1a. m \in Nat
  BY <1>1, LeastBounds
<1>1b. m \in T
  BY <1>1a
<1>1c. T \in SUBSET Nat
  OBVIOUS
<1> HIDE DEF m
<1>2. PICK n \in T : \A k \in T : n <= k
  <2> HIDE DEF T
  <2> QED
    BY <1>1b, <1>1c, LeastOf
<1>2a. n \in Nat /\ n <= m
  BY <1>1a, <1>1b, <1>2
<1>3. n \in 0 .. m /\ (n = m \/ a[Len(a) - n] # b[Len(b) - n])
  BY <1>1a, <1>2, <1>2a
<1>4. \A i \in 0 .. n - 1 : a[Len(a) - i] = b[Len(b) - i]
  <2>1. SUFFICES ASSUME NEW i \in 0 .. n - 1, a[Len(a) - i] # b[Len(b) - i]
                 PROVE  FALSE
    OBVIOUS
  <2>2. i \in Nat /\ i < m /\ ~ n <= i
    <3> HIDE DEF T
    <3> QED
      BY <1>1a, <1>3, LastBelow
  <2>3. i \in T
    BY <2>1, <2>2
  <2> QED
    BY <1>2, <2>2, <2>3
<1> QED
  BY <1>3, <1>4 DEF Trailing, m

(* What is left after n integers.                                           *)
LEMMA RestElements ==
  ASSUME NEW a \in Seq(Nat), NEW n \in 0 .. Len(a)
  PROVE  /\ Rest(a, n) \in Seq(Nat) /\ Len(Rest(a, n)) = Len(a) - n
         /\ \A i \in 1 .. Len(a) - n : Rest(a, n)[i] = a[n + i]
<1>1. Len(a) \in Nat /\ n \in Nat /\ n <= Len(a) /\ n + 1 \in Int
  OBVIOUS
<1>2. \A i \in n + 1 .. Len(a) : a[i] \in Nat
  BY <1>1
<1>3. /\ Rest(a, n) \in Seq(Nat)
      /\ Len(Rest(a, n)) = IF n + 1 <= Len(a) THEN Len(a) - (n + 1) + 1 ELSE 0
      /\ \A i \in 1 .. Len(a) - (n + 1) + 1 : Rest(a, n)[i] = a[n + 1 + i - 1]
  <2> DEFINE f == n + 1
             e == Len(a)
  <2>1. f \in Int /\ e \in Int /\ \A i \in f .. e : a[i] \in Nat
    BY <1>1, <1>2
  <2> HIDE DEF f, e
  <2>2. /\ SubSeq(a, f, e) \in Seq(Nat)
        /\ Len(SubSeq(a, f, e)) = IF f <= e THEN e - f + 1 ELSE 0
        /\ \A i \in 1 .. e - f + 1 : SubSeq(a, f, e)[i] = a[f + i - 1]
    BY <2>1, SubSeqProperties, SMTT(60)
  <2> QED
    BY <2>2, Zenon DEF f, e, Rest
<1>4. \A i \in 1 .. Len(a) - n : i \in 1 .. Len(a) - (n + 1) + 1 /\ n + 1 + i - 1 = n + i
  BY <1>1
<1> QED
  BY <1>1, <1>3, <1>4

(* Three arrays in a row.                                                   *)
LEMMA InARow ==
  ASSUME NEW a \in Seq(Nat), NEW b \in Seq(Nat), NEW c \in Seq(Nat)
  PROVE  /\ a \o b \o c \in Seq(Nat) /\ Len(a \o b \o c) = Len(a) + Len(b) + Len(c)
         /\ \A i \in 1 .. Len(a) : (a \o b \o c)[i] = a[i]
         /\ \A i \in 1 .. Len(b) : (a \o b \o c)[Len(a) + i] = b[i]
         /\ \A i \in 1 .. Len(c) : (a \o b \o c)[Len(a) + Len(b) + i] = c[i]
<1>1. /\ a \o b \in Seq(Nat) /\ Len(a \o b) = Len(a) + Len(b)
      /\ \A i \in 1 .. Len(a) : (a \o b)[i] = a[i]
      /\ \A i \in 1 .. Len(b) : (a \o b)[Len(a) + i] = b[i]
  OBVIOUS
<1> DEFINE d == a \o b
<1>2. /\ d \o c \in Seq(Nat) /\ Len(d \o c) = Len(d) + Len(c)
      /\ \A i \in 1 .. Len(d) : (d \o c)[i] = d[i]
      /\ \A i \in 1 .. Len(c) : (d \o c)[Len(d) + i] = c[i]
  BY <1>1
<1>3. \A i \in 1 .. Len(a) : i \in 1 .. Len(d)
  BY <1>1
<1>4. \A i \in 1 .. Len(b) : Len(a) + i \in 1 .. Len(d)
  BY <1>1
<1> HIDE DEF d
<1>5. /\ \A i \in 1 .. Len(a) : (d \o c)[i] = a[i]
      /\ \A i \in 1 .. Len(b) : (d \o c)[Len(a) + i] = b[i]
      /\ \A i \in 1 .. Len(c) : (d \o c)[Len(a) + Len(b) + i] = c[i]
  BY <1>1, <1>2, <1>3, <1>4 DEF d
<1> QED
  BY <1>1, <1>2, <1>5 DEF d

(* The same place in two arrays, counted from their ends.                   *)
LEMMA FromTheEnd ==
  ASSUME NEW m \in Nat, NEW n \in Nat, NEW s \in Nat, NEW i \in 1 .. n,
         s <= m, s <= n, n - s < i
  PROVE  /\ i - (n - s) \in 1 .. s /\ n - i \in 0 .. s - 1
         /\ m - s + (i - (n - s)) = m - (n - i)
         /\ n - (n - i) = i /\ n - s + (i - (n - s)) = i
OBVIOUS

(* A place in what is left of an array, seen from the whole array.          *)
LEMMA FromTheRest ==
  ASSUME NEW m \in Nat, NEW p \in Nat, NEW s \in Nat, NEW i \in 0 .. s - 1,
         p <= m, s <= m - p
  PROVE  m - p - i \in 1 .. m - p /\ p + (m - p - i) = m - i
OBVIOUS

(* A client that applies the edit of SemanticTokenStore::response to the    *)
(* old array has the new one, for arrays of any length.                     *)
THEOREM EditReconstructs ==
  ASSUME NEW old \in Seq(Nat), NEW new \in Seq(Nat)
  PROVE  ApplyEdit(old, EditOf(old, new)) = new
<1> DEFINE p == Leading(old, new)
           s == Trailing(Rest(old, p), Rest(new, p))
           head == SubSeq(old, 1, p)
           middle == SubSeq(new, p + 1, Len(new) - s)
           tail == Rest(old, p + (Len(old) - p - s))
<1>1. /\ p \in Nat /\ p <= Len(old) /\ p <= Len(new)
      /\ \A i \in 1 .. p : old[i] = new[i]
  BY LeadingAgrees DEF Least
<1> HIDE DEF p
<1>2. /\ Rest(old, p) \in Seq(Nat) /\ Len(Rest(old, p)) = Len(old) - p
      /\ Rest(new, p) \in Seq(Nat) /\ Len(Rest(new, p)) = Len(new) - p
      /\ \A i \in 1 .. Len(old) - p : Rest(old, p)[i] = old[p + i]
      /\ \A i \in 1 .. Len(new) - p : Rest(new, p)[i] = new[p + i]
  <2>1. p \in 0 .. Len(old) /\ p \in 0 .. Len(new)
    BY <1>1
  <2> QED
    BY <2>1, RestElements
<1> DEFINE ro == Rest(old, p)
           rn == Rest(new, p)
<1>3. /\ s \in Nat /\ s <= Len(old) - p /\ s <= Len(new) - p
      /\ \A i \in 0 .. s - 1 :
           Rest(old, p)[Len(old) - p - i] = Rest(new, p)[Len(new) - p - i]
  <2>1. s \in 0 .. Least(Len(ro), Len(rn)) /\ \A i \in 0 .. s - 1 : ro[Len(ro) - i] = rn[Len(rn) - i]
    BY <1>2, TrailingAgrees
  <2>2. Len(ro) = Len(old) - p /\ Len(rn) = Len(new) - p
    BY <1>2
  <2> HIDE DEF s, ro, rn
  <2>3. \A i \in 0 .. s - 1 : ro[Len(old) - p - i] = rn[Len(new) - p - i]
    BY <2>1, <2>2
  <2>4. s \in Nat /\ s <= Len(old) - p /\ s <= Len(new) - p
    BY <1>1, <2>1, <2>2 DEF Least
  <2> QED
    BY <2>3, <2>4 DEF ro, rn
<1> HIDE DEF s, ro, rn
<1>4. \A i \in 0 .. s - 1 : old[Len(old) - i] = new[Len(new) - i]
  <2>1. TAKE i \in 0 .. s - 1
  <2>2. /\ Len(old) - p - i \in 1 .. Len(old) - p
        /\ Len(new) - p - i \in 1 .. Len(new) - p
        /\ p + (Len(old) - p - i) = Len(old) - i
        /\ p + (Len(new) - p - i) = Len(new) - i
    <3>1. /\ Len(old) \in Nat /\ Len(new) \in Nat /\ p \in Nat /\ s \in Nat
          /\ p <= Len(old) /\ p <= Len(new) /\ s <= Len(old) - p /\ s <= Len(new) - p
      BY <1>1, <1>3
    <3> QED
      BY <3>1, FromTheRest, SMTT(60)
  <2> QED
    BY <1>2, <1>3, <2>2
<1>5. p + (Len(old) - p - s) = Len(old) - s /\ Len(old) - s \in 0 .. Len(old)
  BY <1>1, <1>3
<1>6. /\ tail \in Seq(Nat) /\ Len(tail) = s
      /\ \A i \in 1 .. s : tail[i] = old[Len(old) - s + i]
  <2>1. tail = Rest(old, Len(old) - s) /\ Len(old) - (Len(old) - s) = s
    BY <1>1, <1>3, <1>5
  <2>2. Len(old) - s \in 0 .. Len(old)
    BY <1>5
  <2>3. /\ Rest(old, Len(old) - s) \in Seq(Nat)
        /\ Len(Rest(old, Len(old) - s)) = Len(old) - (Len(old) - s)
        /\ \A i \in 1 .. Len(old) - (Len(old) - s) :
             Rest(old, Len(old) - s)[i] = old[Len(old) - s + i]
    BY <2>2, RestElements
  <2> HIDE DEF tail
  <2> QED
    BY <2>1, <2>3
<1>7. /\ head \in Seq(Nat) /\ Len(head) = p
      /\ \A i \in 1 .. p : head[i] = old[i]
  BY <1>1
<1>8. /\ middle \in Seq(Nat) /\ Len(middle) = Len(new) - s - p
      /\ \A i \in 1 .. Len(new) - s - p : middle[i] = new[p + i]
  <2>1. /\ p + 1 \in 1 .. Len(new) + 1 /\ Len(new) - s \in p .. Len(new)
        /\ Len(new) - s - p \in Nat
    BY <1>1, <1>3
  <2> DEFINE e == Len(new) - s
  <2>2. e \in p .. Len(new)
    BY <2>1
  <2> HIDE DEF e
  <2>3. /\ SubSeq(new, p + 1, e) \in Seq(Nat) /\ Len(SubSeq(new, p + 1, e)) = e - p
        /\ \A i \in 1 .. e - p : SubSeq(new, p + 1, e)[i] = new[p + i]
    BY <1>1, <2>2
  <2> QED
    BY <2>3 DEF e
<1> HIDE DEF head, middle, tail
<1> DEFINE made == head \o middle \o tail
<1> HIDE DEF made
<1>9. /\ made \in Seq(Nat) /\ Len(made) = Len(head) + Len(middle) + Len(tail)
      /\ \A i \in 1 .. Len(head) : made[i] = head[i]
      /\ \A i \in 1 .. Len(middle) : made[Len(head) + i] = middle[i]
      /\ \A i \in 1 .. Len(tail) : made[Len(head) + Len(middle) + i] = tail[i]
  <2>1. head \in Seq(Nat) /\ middle \in Seq(Nat) /\ tail \in Seq(Nat)
    BY <1>6, <1>7, <1>8
  <2>2. /\ head \o middle \o tail \in Seq(Nat)
        /\ Len(head \o middle \o tail) = Len(head) + Len(middle) + Len(tail)
        /\ \A i \in 1 .. Len(head) : (head \o middle \o tail)[i] = head[i]
        /\ \A i \in 1 .. Len(middle) : (head \o middle \o tail)[Len(head) + i] = middle[i]
        /\ \A i \in 1 .. Len(tail) :
             (head \o middle \o tail)[Len(head) + Len(middle) + i] = tail[i]
    BY <2>1, InARow, SMTT(60)
  <2> QED
    BY <2>2, Zenon DEF made
<1>10. Len(made) = Len(new) /\ Len(head) + Len(middle) = Len(new) - s
  BY <1>1, <1>3, <1>6, <1>7, <1>8, <1>9
<1>11. ASSUME NEW i \in 1 .. Len(new)
       PROVE  made[i] = new[i]
  <2>1. CASE i <= p
    <3>1. i \in 1 .. p
      BY <1>1, <2>1
    <3> QED
      BY <1>1, <1>7, <1>9, <3>1
  <2>2. CASE p < i /\ i <= Len(new) - s
    <3>1. i - p \in 1 .. Len(new) - s - p /\ p + (i - p) = i
      BY <1>1, <1>3, <2>2
    <3>2. made[p + (i - p)] = middle[i - p]
      BY <1>7, <1>8, <1>9, <3>1
    <3> QED
      BY <1>8, <3>1, <3>2
  <2>3. CASE Len(new) - s < i
    <3> DEFINE k == i - (Len(new) - s)
    <3>1. /\ k \in 1 .. s /\ Len(new) - i \in 0 .. s - 1
          /\ Len(old) - s + k = Len(old) - (Len(new) - i)
          /\ Len(new) - (Len(new) - i) = i /\ Len(new) - s + k = i
      <4>1. Len(new) \in Nat /\ Len(old) \in Nat /\ s <= Len(old) /\ s <= Len(new)
        BY <1>1, <1>3
      <4> QED
        BY <1>3, <2>3, <4>1, FromTheEnd
    <3> HIDE DEF k
    <3>2. made[Len(new) - s + k] = tail[k]
      BY <1>6, <1>9, <1>10, <3>1
    <3>3. tail[k] = old[Len(old) - (Len(new) - i)]
      BY <1>6, <3>1
    <3>4. old[Len(old) - (Len(new) - i)] = new[i]
      BY <1>4, <3>1
    <3> QED
      BY <3>1, <3>2, <3>3, <3>4
  <2> QED
    BY <1>1, <1>3, <2>1, <2>2, <2>3
<1>12. made = new
  <2>1. \A i \in 1 .. Len(made) : made[i] = new[i]
    BY <1>10, <1>11
  <2> QED
    BY <1>9, <1>10, <2>1, SeqEqual
<1>13. ApplyEdit(old, EditOf(old, new)) = made
  BY DEF ApplyEdit, EditOf, made, p, s, head, middle, tail
<1> QED
  BY <1>12, <1>13
-----------------------------------------------------------------------------
(* The inductive invariant.                                                 *)

(* A request whose document was closed, reopened or renamed since can be    *)
(* told by its lifetime.                                                    *)
Told(c) ==
  /\ contexts[c].lifetime <= next
  /\ contexts[c].late => \/ contexts[c].lifetime = 0
                         \/ contexts[c].lifetime # open[contexts[c].uri]
  /\ open[contexts[c].uri] <= next

TokensInv ==
  TypeOK /\ ClientHasComputed /\ BaselinesAreCurrent /\ \A c \in Pending : Told(c)

(* The record of a pending request.                                         *)
LEMMA PendingContext ==
  ASSUME TypeOK, NEW c \in Calls, contexts[c] # NoContext
  PROVE  /\ contexts[c] \in Context /\ contexts[c].uri \in Uris
         /\ contexts[c].delta \in BOOLEAN /\ contexts[c].previous \in Nat
         /\ contexts[c].lifetime \in Nat /\ contexts[c].late \in BOOLEAN
BY DEF TypeOK, Context

(* A baseline has an identifier that was given out.                         *)
LEMMA RetainedBaseline ==
  ASSUME TypeOK, NEW u \in Uris, baselines[u] # NoBaseline
  PROVE  /\ baselines[u] \in [id : 1 .. sequence, data : Tokens]
         /\ baselines[u].id \in 1 .. sequence /\ baselines[u].data \in Tokens
BY DEF TypeOK

LEMMA TokensInit == ASSUME Init PROVE TokensInv
<1> USE DEF Init
<1>1. TypeOK
  <2>1. received \in Seq(Result) /\ Len(received) = 0
    OBVIOUS
  <2>2. contexts \in [Calls -> Context \cup {NoContext}]
    OBVIOUS
  <2>3. baselines \in [Uris -> [id : 1 .. sequence, data : Tokens] \cup {NoBaseline}]
    OBVIOUS
  <2>4. open \in [Uris -> 0 .. next]
    OBVIOUS
  <2> QED
    BY <2>1, <2>2, <2>3, <2>4 DEF TypeOK
<1>2. ClientHasComputed
  BY DEF ClientHasComputed
<1>3. BaselinesAreCurrent
  BY DEF BaselinesAreCurrent, Retained
<1>4. Pending = {}
  BY DEF Pending
<1> QED
  BY <1>1, <1>2, <1>3, <1>4 DEF TokensInv

(* What only forgets baselines leaves the others current.                   *)
LEMMA ForgetKeeps ==
  ASSUME TypeOK, BaselinesAreCurrent, ClientHasComputed, NEW us,
         Forget(us), UNCHANGED <<sequence, received>>,
         \A u \in Uris \ us : u \in documents => u \in documents'
  PROVE  /\ BaselinesAreCurrent' /\ ClientHasComputed'
         /\ (baselines \in [Uris -> [id : 1 .. sequence, data : Tokens] \cup {NoBaseline}])'
<1>1. \A u \in Uris : baselines'[u] = IF u \in us THEN NoBaseline ELSE baselines[u]
  BY DEF Forget
<1>2. (baselines \in [Uris -> [id : 1 .. sequence, data : Tokens] \cup {NoBaseline}])'
  BY DEF Forget, TypeOK
<1>3. \A u \in Uris : u \in Retained(baselines)' =>
        u \in Retained(baselines) /\ u \notin us /\ baselines'[u] = baselines[u]
  BY <1>1 DEF Retained
<1>4. BaselinesAreCurrent'
  BY <1>3 DEF BaselinesAreCurrent, Retained
<1> QED
  BY <1>2, <1>4 DEF ClientHasComputed

(* A notification that closes, opens or moves documents.                    *)
LEMMA ResetKeeps ==
  ASSUME TokensInv, NEW us \in SUBSET Uris, documents' \in SUBSET Uris,
         \A u \in Uris \ us : u \in documents => u \in documents',
         ResetUris(us)
  PROVE  TokensInv'
<1> USE DEF TokensInv
<1>1. TypeOK /\ next \in Nat /\ next' \in Nat /\ next <= next'
  BY DEF TypeOK, ResetUris
<1>2. \A u \in Uris : /\ open[u] \in 0 .. next
                      /\ open'[u] \in 0 .. next'
                      /\ u \notin us => open'[u] = open[u]
                      /\ u \in us => open'[u] = 0 \/ open'[u] = next + 1
  <2>1. TAKE u \in Uris
  <2>2. open[u] \in 0 .. next
    BY DEF TypeOK
  <2>3. open'[u] = IF u \notin us THEN open[u] ELSE IF u \in documents' THEN next + 1 ELSE 0
    BY DEF ResetUris
  <2>4. u \in us /\ u \in documents' => next' = next + 1
    BY DEF ResetUris
  <2> QED
    BY <1>1, <2>2, <2>3, <2>4
<1>3. BaselinesAreCurrent' /\ ClientHasComputed' /\
      (baselines \in [Uris -> [id : 1 .. sequence, data : Tokens] \cup {NoBaseline}])'
  BY ForgetKeeps DEF ResetUris
<1>4. \A c \in Calls :
        contexts'[c] = IF c \in Pending /\ contexts[c].uri \in us
                       THEN [contexts[c] EXCEPT !.late = TRUE] ELSE contexts[c]
  BY DEF ResetUris
<1>5. ASSUME NEW c \in Calls
      PROVE  /\ contexts'[c] \in Context \cup {NoContext}
             /\ c \in Pending' => Told(c)'
  <2>1. CASE contexts[c] = NoContext
    BY <1>4, <2>1 DEF Pending
  <2>2. CASE contexts[c] # NoContext /\ contexts[c].uri \notin us
    <3>1. contexts'[c] = contexts[c] /\ contexts[c] \in Context /\ contexts[c].uri \in Uris
      BY <1>4, <2>2, PendingContext
    <3>2. Told(c) /\ contexts[c].lifetime \in Nat
      BY <2>2, PendingContext DEF Pending
    <3>3. open'[contexts[c].uri] = open[contexts[c].uri] /\ open[contexts[c].uri] \in Nat
      BY <1>2, <2>2, <3>1
    <3> QED
      BY <1>1, <3>1, <3>2, <3>3 DEF Told
  <2>3. CASE contexts[c] # NoContext /\ contexts[c].uri \in us
    <3>1. contexts'[c] = [contexts[c] EXCEPT !.late = TRUE] /\ contexts[c] \in Context
      BY <1>4, <2>3, PendingContext DEF Pending
    <3>2. /\ contexts'[c] \in Context /\ contexts'[c].uri = contexts[c].uri
          /\ contexts'[c].lifetime = contexts[c].lifetime
      BY <3>1 DEF Context
    <3>3. contexts[c].lifetime \in Nat /\ contexts[c].lifetime <= next /\ contexts[c].uri \in Uris
      BY <2>3, PendingContext DEF Pending, Told
    <3>4. \/ open'[contexts[c].uri] = 0
          \/ open'[contexts[c].uri] = next + 1
      BY <1>2, <2>3, <3>3
    <3>5. open'[contexts[c].uri] <= next' /\ open'[contexts[c].uri] \in Nat
      BY <1>1, <1>2, <3>3
    <3>6. \/ contexts[c].lifetime = 0 \/ contexts[c].lifetime # open'[contexts[c].uri]
      BY <1>1, <3>3, <3>4
    <3> QED
      BY <1>1, <3>2, <3>3, <3>5, <3>6 DEF Told
  <2> QED
    BY <2>1, <2>2, <2>3
<1>6. TypeOK'
  <2>1. contexts' = [c \in Calls |-> contexts'[c]]
    BY DEF ResetUris
  <2>2. (contexts \in [Calls -> Context \cup {NoContext}])'
    BY <1>5, <2>1
  <2>3. open' = [u \in Uris |-> open'[u]]
    BY DEF ResetUris
  <2>4. (open \in [Uris -> 0 .. next])'
    BY <1>2, <2>3
  <2>5. UNCHANGED <<running, sequence, received>>
    BY DEF ResetUris
  <2> QED
    BY <1>1, <1>3, <2>2, <2>4, <2>5 DEF TypeOK
<1> QED
  BY <1>3, <1>5, <1>6 DEF Pending

-----------------------------------------------------------------------------
(* Responses.                                                               *)

(* Only other baselines are kept.                                           *)
LEMMA KeptAreRetained ==
  ASSUME NEW uri, NEW data
  PROVE  Kept(uri, data) \subseteq Retained(baselines) \ {uri}
BY DEF Kept

(* A request that has its response, or is cancelled.                        *)
LEMMA AnsweredContexts ==
  ASSUME TokensInv, NEW c \in Calls, UNCHANGED <<next, open>>,
         contexts' = [contexts EXCEPT ![c] = NoContext]
  PROVE  /\ (contexts \in [Calls -> Context \cup {NoContext}])'
         /\ \A d \in Pending' : Told(d)'
<1>1. (contexts \in [Calls -> Context \cup {NoContext}])'
  BY DEF TokensInv, TypeOK
<1>2. \A d \in Pending' : d \in Pending /\ contexts'[d] = contexts[d]
  BY DEF TokensInv, TypeOK, Pending
<1> QED
  BY <1>1, <1>2 DEF TokensInv, Told

(* What the client makes of a response with tokens is what was computed,    *)
(* and its baseline is current.                                             *)
LEMMA TakeTokensKeeps ==
  ASSUME TokensInv, NEW c \in Calls, NEW data \in Tokens, TakeTokens(c, data)
  PROVE  TokensInv'
<1> DEFINE x == contexts[c]
           old == baselines[x.uri]
           edit == EditOf(old.data, data)
           relative == /\ x.delta /\ old # NoBaseline /\ old.id = x.previous
                       /\ Cheaper(edit, old.data, data)
           result == [uri |-> x.uri, late |-> x.late, computed |-> data,
                      tokens |-> IF relative THEN ApplyEdit(received[x.previous].tokens, edit)
                                 ELSE data]
<1>1. /\ TypeOK /\ contexts[c] # NoContext /\ UNCHANGED <<running, documents, next, open>>
      /\ contexts' = [contexts EXCEPT ![c] = NoContext]
      /\ x.uri \in documents /\ x.lifetime # 0 /\ open[x.uri] = x.lifetime
  BY DEF TokensInv, TakeTokens, Take, SameLifetime
<1>2. /\ Retain(x.uri, data) /\ received' = Append(received, result)
  BY DEF TakeTokens, Deliver
<1>3. x.uri \in Uris /\ x.late = FALSE
  <2>1. x.uri \in Uris /\ x.late \in BOOLEAN
    BY <1>1, PendingContext
  <2> QED
    BY <1>1, <2>1 DEF TokensInv, Told, Pending
<1>4. data \in Seq(Nat) /\ Tokens \subseteq Seq(Nat)
  BY SemanticTokensAssumption
<1>5. result.tokens = data
  <2>1. CASE relative
    <3>1. old # NoBaseline /\ old.id = x.previous /\ x.uri \in Retained(baselines)
      BY <1>3, <2>1 DEF Retained
    <3>2. old.data \in Tokens
      BY <1>1, <1>3, <3>1, RetainedBaseline
    <3>3. /\ old.id \in 1 .. Len(received)
          /\ received[old.id].computed = old.data
      BY <3>1 DEF TokensInv, BaselinesAreCurrent
    <3>4. received[x.previous].tokens = old.data
      BY <3>1, <3>3 DEF TokensInv, ClientHasComputed
    <3>5. ApplyEdit(old.data, edit) = data
      BY <1>4, <3>2, EditReconstructs
    <3> QED
      BY <2>1, <3>4, <3>5
  <2>2. CASE ~relative
    BY <2>2
  <2> QED
    BY <2>1, <2>2
<1>6. /\ result \in Result /\ result.uri = x.uri /\ result.late = FALSE
      /\ result.computed = data
  <2>1. result = [uri |-> x.uri, late |-> FALSE, computed |-> data, tokens |-> data]
    BY <1>3, <1>5
  <2> HIDE DEF result
  <2> QED
    BY <1>3, <1>4, <2>1 DEF Result
<1> HIDE DEF result
<1>7. /\ received \in Seq(Result) /\ Len(received) = sequence /\ sequence \in Nat
  BY <1>1 DEF TypeOK
<1>8. /\ received' \in Seq(Result) /\ Len(received') = sequence + 1
      /\ received'[sequence + 1] = result
      /\ \A n \in 1 .. sequence : received'[n] = received[n]
  BY <1>2, <1>6, <1>7
<1>9. ClientHasComputed'
  <2>1. \A n \in 1 .. Len(received') : n \in 1 .. sequence \/ n = sequence + 1
    BY <1>7, <1>8
  <2>2. \A n \in 1 .. sequence : received'[n].tokens = received'[n].computed
    BY <1>7, <1>8 DEF TokensInv, ClientHasComputed
  <2> QED
    BY <1>5, <1>6, <1>8, <2>1, <2>2 DEF ClientHasComputed
<1>10. sequence' = sequence + 1
  BY <1>2 DEF Retain
<1>11. ASSUME NEW u \in Uris
       PROVE  \/ baselines'[u] = NoBaseline
              \/ u # x.uri /\ u \in Retained(baselines) /\ baselines'[u] = baselines[u]
              \/ u = x.uri /\ baselines'[u] = [id |-> sequence + 1, data |-> data]
  BY <1>2, KeptAreRetained DEF Retain
<1>12. (baselines \in [Uris -> [id : 1 .. sequence, data : Tokens] \cup {NoBaseline}])'
  <2>1. baselines' = [u \in Uris |-> baselines'[u]]
    BY <1>2 DEF Retain
  <2>2. ASSUME NEW u \in Uris
        PROVE  baselines'[u] \in [id : 1 .. sequence + 1, data : Tokens] \cup {NoBaseline}
    <3>1. CASE u \in Retained(baselines) /\ baselines'[u] = baselines[u]
      <4>1. baselines[u] \in [id : 1 .. sequence, data : Tokens]
        BY <1>1, <3>1, RetainedBaseline DEF Retained
      <4>2. 1 .. sequence \subseteq 1 .. sequence + 1
        BY <1>7
      <4> QED
        BY <3>1, <4>1, <4>2
    <3>2. CASE baselines'[u] = [id |-> sequence + 1, data |-> data]
      BY <1>7, <3>2
    <3> QED
      BY <1>11, <3>1, <3>2
  <2> QED
    BY <1>10, <2>1, <2>2
<1>13. BaselinesAreCurrent'
  <2>1. SUFFICES ASSUME NEW u \in Uris, baselines'[u] # NoBaseline
                 PROVE  /\ u \in documents'
                        /\ baselines'[u].id \in 1 .. Len(received')
                        /\ received'[baselines'[u].id].uri = u
                        /\ ~received'[baselines'[u].id].late
                        /\ received'[baselines'[u].id].computed = baselines'[u].data
    BY DEF BaselinesAreCurrent, Retained
  <2>2. CASE u \in Retained(baselines) /\ baselines'[u] = baselines[u]
    <3>1. /\ u \in documents /\ baselines[u].id \in 1 .. Len(received)
          /\ received[baselines[u].id].uri = u /\ ~received[baselines[u].id].late
          /\ received[baselines[u].id].computed = baselines[u].data
      BY <2>2 DEF TokensInv, BaselinesAreCurrent
    <3>2. baselines[u].id \in 1 .. Len(received') /\
          received'[baselines[u].id] = received[baselines[u].id]
      BY <1>7, <1>8, <3>1
    <3> QED
      BY <1>1, <2>2, <3>1, <3>2
  <2>3. CASE u = x.uri /\ baselines'[u] = [id |-> sequence + 1, data |-> data]
    <3>1. baselines'[u].id = sequence + 1 /\ baselines'[u].data = data
      BY <2>3
    <3>2. sequence + 1 \in 1 .. Len(received')
      BY <1>7, <1>8
    <3> QED
      BY <1>1, <1>6, <1>8, <2>3, <3>1, <3>2
  <2> QED
    BY <1>11, <2>1, <2>2, <2>3
<1>14. /\ (contexts \in [Calls -> Context \cup {NoContext}])'
       /\ \A d \in Pending' : Told(d)'
  BY <1>1, AnsweredContexts
<1>15. TypeOK'
  BY <1>1, <1>7, <1>8, <1>10, <1>12, <1>14 DEF TypeOK
<1> QED
  BY <1>9, <1>13, <1>14, <1>15 DEF TokensInv

(* A response that only may forget the baseline of a closed document.       *)
LEMMA TakeOtherKeeps ==
  ASSUME TokensInv, NEW c \in Calls, TakeOther(c)
  PROVE  TokensInv'
<1> USE DEF TokensInv
<1>1. /\ UNCHANGED <<running, documents, next, open, sequence, received>>
      /\ contexts' = [contexts EXCEPT ![c] = NoContext]
      /\ \/ Forget({contexts[c].uri})
         \/ UNCHANGED baselines
  BY DEF TakeOther, Take, store
<1>2. /\ BaselinesAreCurrent' /\ ClientHasComputed'
      /\ (baselines \in [Uris -> [id : 1 .. sequence, data : Tokens] \cup {NoBaseline}])'
  <2>1. CASE Forget({contexts[c].uri})
    BY <1>1, <2>1, ForgetKeeps
  <2>2. CASE UNCHANGED baselines
    BY <1>1, <2>2 DEF BaselinesAreCurrent, Retained, ClientHasComputed, TypeOK
  <2> QED
    BY <1>1, <2>1, <2>2
<1>3. /\ (contexts \in [Calls -> Context \cup {NoContext}])'
      /\ \A d \in Pending' : Told(d)'
  BY <1>1, AnsweredContexts
<1>4. TypeOK'
  BY <1>1, <1>2, <1>3 DEF TypeOK
<1> QED
  BY <1>2, <1>3, <1>4

(* What leaves the store alone keeps what is said of it.                    *)
LEMMA StoreUnchanged ==
  ASSUME TokensInv, UNCHANGED <<running, documents, next, open, store, received>>
  PROVE  /\ BaselinesAreCurrent' /\ ClientHasComputed'
         /\ (contexts \in [Calls -> Context \cup {NoContext}])' => TypeOK'
BY DEF TokensInv, TypeOK, BaselinesAreCurrent, ClientHasComputed, Retained, store

LEMMA RequestKeeps ==
  ASSUME TokensInv, NEW c \in Calls, NEW u \in Uris, NEW delta \in BOOLEAN,
         NEW previous \in Nat, Request(c, u, delta, previous)
  PROVE  TokensInv'
<1> DEFINE x == [uri |-> u, delta |-> delta, previous |-> previous, lifetime |-> open[u],
                 late |-> FALSE]
<1>1. /\ UNCHANGED <<running, documents, next, open, store, received>>
      /\ contexts' = [contexts EXCEPT ![c] = x]
  BY DEF Request
<1>2. TypeOK /\ open[u] \in Nat /\ open[u] <= next
  BY DEF TokensInv, TypeOK
<1>3. x \in Context /\ x.lifetime = open[u] /\ x.late = FALSE /\ x.uri = u
  BY <1>2 DEF Context
<1> HIDE DEF x
<1>4. (contexts \in [Calls -> Context \cup {NoContext}])'
  BY <1>1, <1>2, <1>3 DEF TypeOK
<1>5. ASSUME NEW d \in Pending'
      PROVE  Told(d)'
  <2>1. CASE d = c
    <3>1. contexts'[d] = x
      BY <1>1, <1>2, <2>1 DEF TypeOK, Pending
    <3> QED
      BY <1>1, <1>2, <1>3, <3>1 DEF Told
  <2>2. CASE d # c
    <3>1. contexts'[d] = contexts[d] /\ d \in Pending
      BY <1>1, <1>2, <2>2 DEF TypeOK, Pending
    <3> QED
      BY <1>1, <3>1 DEF TokensInv, Told
  <2> QED
    BY <2>1, <2>2
<1> QED
  BY <1>1, <1>4, <1>5, StoreUnchanged DEF TokensInv

LEMMA CancelKeeps ==
  ASSUME TokensInv, NEW c \in Calls, Cancel(c)
  PROVE  TokensInv'
<1>1. /\ UNCHANGED <<running, documents, next, open, store, received>>
      /\ contexts' = [contexts EXCEPT ![c] = NoContext]
  BY DEF Cancel
<1> QED
  BY <1>1, AnsweredContexts, StoreUnchanged DEF TokensInv

LEMMA ShutdownKeeps ==
  ASSUME TokensInv, Shutdown
  PROVE  TokensInv'
<1>1. /\ running' = FALSE /\ UNCHANGED <<documents, next, open, sequence, received>>
      /\ contexts' = [c \in Calls |-> NoContext] /\ Forget(Uris)
  BY DEF Shutdown
<1>2. /\ BaselinesAreCurrent' /\ ClientHasComputed'
      /\ (baselines \in [Uris -> [id : 1 .. sequence, data : Tokens] \cup {NoBaseline}])'
  BY <1>1, ForgetKeeps DEF TokensInv
<1>3. Pending' = {}
  BY <1>1 DEF Pending
<1>4. TypeOK'
  BY <1>1, <1>2 DEF TokensInv, TypeOK
<1> QED
  BY <1>2, <1>3, <1>4 DEF TokensInv

-----------------------------------------------------------------------------
(* Every step.                                                              *)

LEMMA TokensPreserved ==
  ASSUME TokensInv, [Next]_vars
  PROVE  TokensInv'
<1>1. documents \in SUBSET Uris
  BY DEF TokensInv, TypeOK
<1>2. ASSUME NEW u \in Uris, DidOpen(u)
      PROVE  TokensInv'
  <2>1. documents' = documents \cup {u} /\ ResetUris({u})
    BY <1>2 DEF DidOpen
  <2> QED
    BY <1>1, <2>1, ResetKeeps
<1>3. ASSUME NEW u \in Uris, DidClose(u)
      PROVE  TokensInv'
  <2>1. documents' = documents \ {u} /\ ResetUris({u})
    BY <1>3 DEF DidClose
  <2> QED
    BY <1>1, <2>1, ResetKeeps
<1>4. ASSUME NEW r \in Renames, DidRenameFiles(r)
      PROVE  TokensInv'
  <2> DEFINE us == DOMAIN r \cup {r[u] : u \in DOMAIN r}
  <2>1. us \in SUBSET Uris
    BY SemanticTokensAssumption
  <2>2. /\ documents' = (documents \ DOMAIN r) \cup {r[u] : u \in documents \cap DOMAIN r}
        /\ ResetUris(us)
    BY <1>4 DEF DidRenameFiles
  <2>3. documents' \in SUBSET Uris /\ \A u \in Uris \ us : u \in documents => u \in documents'
    BY <1>1, <2>1, <2>2
  <2> HIDE DEF us
  <2> QED
    BY <2>1, <2>2, <2>3, ResetKeeps
<1>5. ASSUME NEW c \in Calls, RequestTokens(c)
      PROVE  TokensInv'
  <2>1. PICK u \in Uris : \/ Request(c, u, FALSE, 0)
                          \/ \E previous \in 1 .. Len(received) : Request(c, u, TRUE, previous)
    BY <1>5 DEF RequestTokens
  <2>2. CASE Request(c, u, FALSE, 0)
    BY <2>2, RequestKeeps
  <2>3. ASSUME NEW previous \in 1 .. Len(received), Request(c, u, TRUE, previous)
        PROVE  TokensInv'
    <3>1. previous \in Nat
      OBVIOUS
    <3> QED
      BY <2>3, <3>1, RequestKeeps
  <2> QED
    BY <2>1, <2>2, <2>3
<1>6. CASE UNCHANGED vars
  BY <1>6 DEF vars, TokensInv, TypeOK, ClientHasComputed, BaselinesAreCurrent, Retained,
             Pending, Told
<1> QED
  BY <1>2, <1>3, <1>4, <1>5, <1>6, CancelKeeps, TakeTokensKeeps, TakeOtherKeeps,
     ShutdownKeeps DEF Next, Terminated

LEMMA TokensInvariant == Spec => []TokensInv
<1>1. Init => TokensInv
  BY TokensInit
<1>2. TokensInv /\ [Next]_vars => TokensInv'
  BY TokensPreserved
<1> QED
  BY <1>1, <1>2, PTL DEF Spec

(* The state of the store, the lifetimes and the requests is well typed,    *)
(* and every result has a number of its own.                                *)
THEOREM TokensTyped == Spec => []TypeOK
<1>1. TokensInv => TypeOK
  BY DEF TokensInv
<1> QED
  BY <1>1, TokensInvariant, PTL

(* Whatever tokens were computed and whichever results the client asks      *)
(* about, it ends up with what was computed.                                *)
THEOREM EditsFit == Spec => []ClientHasComputed
<1>1. TokensInv => ClientHasComputed
  BY DEF TokensInv
<1> QED
  BY <1>1, TokensInvariant, PTL

(* No response that was delayed over a close, a reopening or a rename       *)
(* leaves a baseline.                                                       *)
THEOREM BaselinesStayCurrent == Spec => []BaselinesAreCurrent
<1>1. TokensInv => BaselinesAreCurrent
  BY DEF TokensInv
<1> QED
  BY <1>1, TokensInvariant, PTL

-----------------------------------------------------------------------------
(* The bound on retention.  The integers of a set of baselines are counted  *)
(* by their places, so that what is forgotten and what stays add up.        *)

LEMMA PlacesOf ==
  ASSUME NEW b, NEW us, NEW p
  PROVE  p \in Places(b, us) <=> \E u \in us : p \in {u} \X (1 .. Len(b[u].data))
BY DEF Places

(* A place belongs to one document.                                         *)
LEMMA PlaceOfOne ==
  ASSUME NEW b, NEW us, NEW p \in Places(b, us)
  PROVE  p[1] \in us /\ p \in {p[1]} \X (1 .. Len(b[p[1]].data))
<1>1. PICK u \in us : p \in {u} \X (1 .. Len(b[u].data))
  BY PlacesOf
<1>2. p[1] = u
  BY <1>1
<1> QED
  BY <1>1, <1>2

LEMMA SplitPlaces ==
  ASSUME NEW b, NEW us \in SUBSET Uris, IsFiniteSet(Places(b, Uris))
  PROVE  /\ IsFiniteSet(Places(b, us)) /\ Size(b, us) \in Nat /\ Size(b, Uris \ us) \in Nat
         /\ Size(b, Uris) \in Nat
         /\ Size(b, Uris) = Size(b, us) + Size(b, Uris \ us)
<1>1. Places(b, us) \cup Places(b, Uris \ us) = Places(b, Uris)
  BY DEF Places
<1>2. Places(b, us) \cap Places(b, Uris \ us) = {}
  <2>1. SUFFICES ASSUME NEW p \in Places(b, us), p \in Places(b, Uris \ us)
                 PROVE  FALSE
    OBVIOUS
  <2>2. p[1] \in us /\ p[1] \in Uris \ us
    BY <2>1, PlaceOfOne
  <2> QED
    BY <2>2
<1> DEFINE one == Places(b, us)
           two == Places(b, Uris \ us)
           all == Places(b, Uris)
<1>3. one \in SUBSET all /\ two \in SUBSET all /\ one \cup two = all /\ one \cap two = {}
  BY <1>1, <1>2
<1>4. Size(b, us) = Cardinality(one) /\ Size(b, Uris \ us) = Cardinality(two)
      /\ Size(b, Uris) = Cardinality(all) /\ IsFiniteSet(all)
  BY DEF Size
<1> HIDE DEF one, two, all
<1>5. IsFiniteSet(one) /\ IsFiniteSet(two)
  BY <1>3, <1>4, FS_Subset
<1>6. Cardinality(one) \in Nat /\ Cardinality(two) \in Nat /\ Cardinality(all) \in Nat
  BY <1>4, <1>5, FS_CardinalityType
<1>7. Cardinality(all) = Cardinality(one) + Cardinality(two) - Cardinality({})
  BY <1>3, <1>5, FS_Union
<1>8. Cardinality({}) = 0
  BY FS_EmptySet
<1>9. Cardinality(all) = Cardinality(one) + Cardinality(two)
  BY <1>6, <1>7, <1>8
<1>10. IsFiniteSet(Places(b, us))
  BY <1>5 DEF one
<1> QED
  BY <1>4, <1>6, <1>9, <1>10

(* Baselines that stay keep their places, and no others have any.           *)
LEMMA KeptPlaces ==
  ASSUME NEW b, NEW d, NEW us \in SUBSET Uris,
         \A u \in us : d[u] = b[u], \A u \in Uris \ us : d[u] = NoBaseline
  PROVE  Places(d, Uris) = Places(b, us)
<1>1. ASSUME NEW p \in Places(d, Uris)
      PROVE  p \in Places(b, us)
  <2>1. PICK u \in Uris : p \in {u} \X (1 .. Len(d[u].data))
    BY PlacesOf
  <2>2. p[2] \in 1 .. Len(d[u].data)
    BY <2>1
  <2>3. CASE u \in us
    BY <2>1, <2>3, PlacesOf
  <2>4. CASE u \notin us
    <3>1. d[u].data = <<>>
      BY <2>4 DEF NoBaseline
    <3>2. Len(d[u].data) = 0
      BY <3>1
    <3>3. p[2] \in 1 .. 0
      BY <2>2, <3>2
    <3> QED
      BY <3>3
  <2> QED
    BY <2>3, <2>4
<1>2. ASSUME NEW p \in Places(b, us)
      PROVE  p \in Places(d, Uris)
  <2>1. PICK u \in us : p \in {u} \X (1 .. Len(b[u].data))
    BY PlacesOf
  <2>2. u \in Uris /\ p \in {u} \X (1 .. Len(d[u].data))
    BY <2>1
  <2> QED
    BY <2>2, PlacesOf
<1> QED
  BY <1>1, <1>2

(* The places of one array.                                                 *)
LEMMA PlacesOfArray ==
  ASSUME NEW u, NEW n \in Nat
  PROVE  IsFiniteSet({u} \X (1 .. n)) /\ Cardinality({u} \X (1 .. n)) = n
<1>1. IsFiniteSet({u}) /\ Cardinality({u}) = 1
  BY FS_Singleton
<1>2. IsFiniteSet(1 .. n) /\ Cardinality(1 .. n) = IF 1 > n THEN 0 ELSE n - 1 + 1
  BY FS_Interval
<1>3. Cardinality(1 .. n) = n
  BY <1>2
<1>4. /\ IsFiniteSet({u} \X (1 .. n))
      /\ Cardinality({u} \X (1 .. n)) = Cardinality({u}) * Cardinality(1 .. n)
  BY <1>1, <1>2, FS_Product
<1>5. 1 * n = n
  OBVIOUS
<1> QED
  BY <1>1, <1>3, <1>4, <1>5

(* A new baseline next to those that stay.                                  *)
LEMMA AddedPlaces ==
  ASSUME NEW b, NEW d, NEW us \in SUBSET Uris, NEW uri \in Uris, uri \notin us,
         NEW data \in Seq(Nat), IsFiniteSet(Places(b, us)), Size(b, us) \in Nat,
         \A u \in us : d[u] = b[u], d[uri].data = data,
         \A u \in Uris \ us : u # uri => d[u] = NoBaseline
  PROVE  IsFiniteSet(Places(d, Uris)) /\ Size(d, Uris) = Size(b, us) + Len(data)
<1> DEFINE old == Places(b, us)
           new == {uri} \X (1 .. Len(data))
<1>1. Len(data) \in Nat
  OBVIOUS
<1>2. IsFiniteSet(new) /\ Cardinality(new) = Len(data)
  BY <1>1, PlacesOfArray
<1>3. old \cap new = {}
  <2>1. SUFFICES ASSUME NEW p \in old, p \in new
                 PROVE  FALSE
    OBVIOUS
  <2>2. p[1] \in us /\ p[1] = uri
    BY <2>1, PlaceOfOne
  <2> QED
    BY <2>2
<1>4. Places(d, Uris) = old \cup new
  <2>1. ASSUME NEW p \in Places(d, Uris)
        PROVE  p \in old \cup new
    <3>1. PICK u \in Uris : p \in {u} \X (1 .. Len(d[u].data))
      BY PlacesOf
    <3>2. CASE u \in us
      BY <3>1, <3>2, PlacesOf
    <3>3. CASE u = uri
      BY <3>1, <3>3
    <3>4. CASE u \notin us /\ u # uri
      <4>1. d[u].data = <<>>
        BY <3>4 DEF NoBaseline
      <4>2. Len(d[u].data) = 0
        BY <4>1
      <4>3. p[2] \in 1 .. 0
        BY <3>1, <4>2
      <4> QED
        BY <4>3
    <3> QED
      BY <3>2, <3>3, <3>4
  <2>2. ASSUME NEW p \in old
        PROVE  p \in Places(d, Uris)
    <3>1. PICK u \in us : p \in {u} \X (1 .. Len(b[u].data))
      BY PlacesOf
    <3>2. u \in Uris /\ p \in {u} \X (1 .. Len(d[u].data))
      BY <3>1
    <3> QED
      BY <3>2, PlacesOf
  <2>3. ASSUME NEW p \in new
        PROVE  p \in Places(d, Uris)
    <3>1. p \in {uri} \X (1 .. Len(d[uri].data))
      BY <2>3
    <3> QED
      BY <3>1, PlacesOf
  <2> HIDE DEF old, new
  <2> QED
    BY <2>1, <2>2, <2>3
<1>5. Size(d, Uris) = Cardinality(old \cup new) /\ Size(b, us) = Cardinality(old)
      /\ IsFiniteSet(old)
  BY <1>4 DEF Size
<1> HIDE DEF old, new
<1>6. /\ IsFiniteSet(old \cup new)
      /\ Cardinality(old \cup new) = Cardinality(old) + Cardinality(new) - Cardinality({})
  BY <1>2, <1>3, <1>5, FS_Union
<1>7. Cardinality({}) = 0
  BY FS_EmptySet
<1>8. Cardinality(old) \in Nat /\ Cardinality(new) \in Nat
  BY <1>1, <1>2, <1>5
<1>9. Cardinality(old \cup new) = Cardinality(old) + Cardinality(new)
  BY <1>6, <1>7, <1>8
<1> QED
  BY <1>2, <1>4, <1>5, <1>6, <1>9

(* Only baselines that are retained have places.                            *)
LEMMA RetainedPlaces ==
  ASSUME NEW b
  PROVE  Size(b, Retained(b)) = Size(b, Uris)
<1>1. Retained(b) \in SUBSET Uris /\ \A u \in Uris \ Retained(b) : b[u] = NoBaseline
  BY DEF Retained
<1>2. Places(b, Uris) = Places(b, Retained(b))
  BY <1>1, KeptPlaces
<1> QED
  BY <1>2 DEF Size

-----------------------------------------------------------------------------
(* What forgets or adds baselines keeps the count, and the limits.          *)

SizeInv ==
  /\ IsFiniteSet(Retained(baselines)) /\ IsFiniteSet(Places(baselines, Uris))
  /\ integers = Size(baselines, Uris) /\ integers <= MaxIntegers
  /\ Cardinality(Retained(baselines)) <= MaxDocuments

LEMMA SizeInit == ASSUME Init PROVE SizeInv
<1>1. Retained(baselines) = {}
  BY DEF Init, Retained
<1>2. Places(baselines, Uris) = {}
  <2>1. SUFFICES ASSUME NEW p \in Places(baselines, Uris) PROVE FALSE
    OBVIOUS
  <2>2. PICK u \in Uris : p \in {u} \X (1 .. Len(baselines[u].data))
    BY PlacesOf
  <2>3. baselines[u].data = <<>>
    BY DEF Init, NoBaseline
  <2>4. Len(baselines[u].data) = 0
    BY <2>3
  <2>5. p[2] \in 1 .. 0
    BY <2>2, <2>4
  <2> QED
    BY <2>5
<1>3. IsFiniteSet({}) /\ Cardinality({}) = 0
  BY FS_EmptySet
<1>4. Size(baselines, Uris) = 0
  BY <1>2, <1>3 DEF Size
<1>5. integers = 0 /\ 0 <= MaxIntegers /\ 0 <= MaxDocuments
  BY SemanticTokensAssumption DEF Init
<1> QED
  BY <1>1, <1>2, <1>3, <1>4, <1>5 DEF SizeInv

(* A smaller set of baselines is within the limit of their number.          *)
LEMMA FewerDocuments ==
  ASSUME SizeInv, NEW us \in SUBSET Retained(baselines)
  PROVE  IsFiniteSet(us) /\ Cardinality(us) \in Nat /\ Cardinality(us) <= MaxDocuments
<1>1. IsFiniteSet(Retained(baselines)) /\ Cardinality(Retained(baselines)) <= MaxDocuments
  BY DEF SizeInv
<1>2. /\ IsFiniteSet(us) /\ Cardinality(us) <= Cardinality(Retained(baselines))
  BY <1>1, FS_Subset
<1>3. Cardinality(us) \in Nat /\ Cardinality(Retained(baselines)) \in Nat
  BY <1>1, <1>2, FS_CardinalityType
<1> QED
  BY <1>1, <1>2, <1>3, SemanticTokensAssumption

LEMMA ForgetCounts ==
  ASSUME SizeInv, NEW us \in SUBSET Uris, Forget(us)
  PROVE  SizeInv'
<1>1. /\ \A u \in Uris : baselines'[u] = IF u \in us THEN NoBaseline ELSE baselines[u]
      /\ integers' = integers - Size(baselines, us)
  BY DEF Forget
<1>2. Places(baselines', Uris) = Places(baselines, Uris \ us)
  <2>1. \A u \in Uris \ us : baselines'[u] = baselines[u]
    BY <1>1
  <2>2. \A u \in Uris \ (Uris \ us) : baselines'[u] = NoBaseline
    BY <1>1
  <2> QED
    BY <2>1, <2>2, KeptPlaces
<1>3. /\ IsFiniteSet(Places(baselines, Uris)) /\ integers = Size(baselines, Uris)
      /\ integers <= MaxIntegers
  BY DEF SizeInv
<1>4. /\ Size(baselines, us) \in Nat /\ Size(baselines, Uris \ us) \in Nat
      /\ Size(baselines, Uris) = Size(baselines, us) + Size(baselines, Uris \ us)
  BY <1>3, SplitPlaces
<1>5. IsFiniteSet(Places(baselines, Uris \ us))
  BY <1>3, SplitPlaces
<1>6. integers' = Size(baselines, Uris \ us) /\ integers' <= MaxIntegers
  BY <1>1, <1>3, <1>4, SemanticTokensAssumption
<1>7. Retained(baselines') \in SUBSET Retained(baselines)
  BY <1>1 DEF Retained
<1>8. IsFiniteSet(Retained(baselines')) /\ Cardinality(Retained(baselines')) <= MaxDocuments
  BY <1>7, FewerDocuments
<1>9. Size(baselines', Uris) = Size(baselines, Uris \ us)
  BY <1>2 DEF Size
<1> QED
  BY <1>2, <1>5, <1>6, <1>8, <1>9 DEF SizeInv

(* What is kept leaves room for the new baseline.                           *)
LEMMA KeptLeaveRoom ==
  ASSUME TypeOK, SizeInv, NEW uri \in Uris, NEW data \in Seq(Nat), Len(data) <= MaxIntegers
  PROVE  /\ Cardinality(Kept(uri, data)) < MaxDocuments
         /\ integers - Size(baselines, Uris \ Kept(uri, data)) + Len(data) <= MaxIntegers
<1> DEFINE others == Retained(baselines) \ {uri}
           newer(n) == {u \in others : baselines[u].id > n}
           room(us) == /\ Cardinality(us) < MaxDocuments
                       /\ integers - Size(baselines, Uris \ us) + Len(data) <= MaxIntegers
           enough == {n \in 0 .. sequence : room(newer(n))}
<1>1. Len(data) \in Nat /\ MaxIntegers \in Nat /\ ~ Len(data) > MaxIntegers
  BY SemanticTokensAssumption
<1>2. CASE enough = {}
  <2>1. Kept(uri, data) = {}
    BY <1>1, <1>2 DEF Kept
  <2>2. Cardinality({}) = 0 /\ Uris \ {} = Uris
    BY FS_EmptySet
  <2>3. integers = Size(baselines, Uris) /\ IsFiniteSet(Places(baselines, Uris))
    BY DEF SizeInv
  <2>4. Size(baselines, Uris) \in Nat
    BY <2>3, SplitPlaces
  <2>5. integers - Size(baselines, Uris) + Len(data) = Len(data)
    BY <1>1, <2>3, <2>4
  <2> QED
    BY <2>1, <2>2, <2>5, SemanticTokensAssumption
<1>3. CASE enough # {}
  <2>1. enough \in SUBSET Nat
    BY DEF TypeOK
  <2>2. \E n \in enough : \A m \in enough : n <= m
    <3> HIDE DEF enough
    <3> QED
      BY <1>3, <2>1, LeastOf
  <2> DEFINE least == CHOOSE n \in enough : \A m \in enough : n <= m
  <2>3. least \in enough
    <3> HIDE DEF enough
    <3> QED
      BY <2>2
  <2>4. Kept(uri, data) = newer(least)
    BY <1>1, <1>3 DEF Kept
  <2>5. room(newer(least))
    <3> HIDE DEF least
    <3> QED
      BY <2>3
  <2> HIDE DEF least, enough, newer
  <2> QED
    BY <2>4, <2>5
<1> QED
  BY <1>2, <1>3

LEMMA RetainCounts ==
  ASSUME TypeOK, SizeInv, NEW uri \in Uris, NEW data \in Tokens, Retain(uri, data)
  PROVE  SizeInv'
<1>1. data \in Seq(Nat) /\ Len(data) \in Nat /\ MaxIntegers \in Nat /\ MaxDocuments \in Nat
  BY SemanticTokensAssumption
<1>2. PICK kept : kept = Kept(uri, data)
  OBVIOUS
<1>3. kept \in SUBSET Retained(baselines) /\ kept \in SUBSET Uris /\ uri \notin kept
  BY <1>2, KeptAreRetained DEF Retained
<1>4. /\ \A u \in Uris : baselines'[u] =
           IF u \in kept THEN baselines[u]
           ELSE IF u = uri /\ Len(data) <= MaxIntegers
                THEN [id |-> sequence + 1, data |-> data] ELSE NoBaseline
      /\ integers' = integers - Size(baselines, Uris \ kept)
                     + (IF Len(data) <= MaxIntegers THEN Len(data) ELSE 0)
  BY <1>2 DEF Retain
<1>5. /\ IsFiniteSet(Places(baselines, Uris)) /\ integers = Size(baselines, Uris)
      /\ integers <= MaxIntegers
  BY DEF SizeInv
<1>6. /\ IsFiniteSet(Places(baselines, kept))
      /\ Size(baselines, kept) \in Nat /\ Size(baselines, Uris \ kept) \in Nat
      /\ Size(baselines, Uris) = Size(baselines, kept) + Size(baselines, Uris \ kept)
  BY <1>3, <1>5, SplitPlaces
<1>7. integers - Size(baselines, Uris \ kept) = Size(baselines, kept)
  BY <1>5, <1>6
<1>8. IsFiniteSet(kept) /\ Cardinality(kept) \in Nat /\ Cardinality(kept) <= MaxDocuments
  BY <1>3, FewerDocuments
<1>9. CASE ~ Len(data) <= MaxIntegers
  <2>1. \A u \in kept : baselines'[u] = baselines[u]
    BY <1>3, <1>4
  <2>2. \A u \in Uris \ kept : baselines'[u] = NoBaseline
    BY <1>4, <1>9
  <2>3. Places(baselines', Uris) = Places(baselines, kept)
    BY <1>3, <2>1, <2>2, KeptPlaces
  <2>4. Size(baselines', Uris) = Size(baselines, kept)
    BY <2>3 DEF Size
  <2>5. integers' = Size(baselines, kept)
    BY <1>4, <1>6, <1>7, <1>9
  <2>6. integers' <= MaxIntegers
    BY <1>1, <1>5, <1>6, <2>5
  <2>7. Retained(baselines') \in SUBSET Retained(baselines)
    BY <1>3, <2>1, <2>2 DEF Retained
  <2>8. IsFiniteSet(Retained(baselines')) /\ Cardinality(Retained(baselines')) <= MaxDocuments
    BY <2>7, FewerDocuments
  <2> QED
    BY <1>6, <2>3, <2>4, <2>5, <2>6, <2>8 DEF SizeInv
<1>10. CASE Len(data) <= MaxIntegers
  <2>1. Cardinality(kept) < MaxDocuments
        /\ integers - Size(baselines, Uris \ kept) + Len(data) <= MaxIntegers
    BY <1>1, <1>2, <1>10, KeptLeaveRoom
  <2>2. \A u \in kept : baselines'[u] = baselines[u]
    BY <1>3, <1>4
  <2>3. baselines'[uri] = [id |-> sequence + 1, data |-> data]
    BY <1>3, <1>4, <1>10
  <2>4. \A u \in Uris \ kept : u # uri => baselines'[u] = NoBaseline
    BY <1>4
  <2>5. baselines'[uri].data = data
    BY <2>3
  <2>6. IsFiniteSet(Places(baselines', Uris))
        /\ Size(baselines', Uris) = Size(baselines, kept) + Len(data)
    BY <1>1, <1>3, <1>6, <2>2, <2>4, <2>5, AddedPlaces
  <2>7. integers' = Size(baselines, kept) + Len(data)
    BY <1>4, <1>7, <1>10
  <2>8. integers' <= MaxIntegers
    BY <1>7, <2>1, <2>7
  <2>9. Retained(baselines') \in SUBSET (kept \cup {uri})
    BY <2>4 DEF Retained
  <2>10. IsFiniteSet(kept \cup {uri}) /\ Cardinality(kept \cup {uri}) = Cardinality(kept) + 1
    BY <1>3, <1>8, FS_AddElement
  <2>11. /\ IsFiniteSet(Retained(baselines'))
         /\ Cardinality(Retained(baselines')) <= Cardinality(kept \cup {uri})
    BY <2>9, <2>10, FS_Subset
  <2>12. Cardinality(Retained(baselines')) \in Nat
    BY <2>11, FS_CardinalityType
  <2>13. Cardinality(Retained(baselines')) <= MaxDocuments
    BY <1>1, <1>8, <2>1, <2>10, <2>11, <2>12
  <2> QED
    BY <2>6, <2>7, <2>8, <2>11, <2>13 DEF SizeInv
<1> QED
  BY <1>9, <1>10

LEMMA SizePreserved ==
  ASSUME TypeOK, SizeInv, [Next]_vars
  PROVE  SizeInv'
<1>1. CASE UNCHANGED store
  BY <1>1 DEF store, SizeInv
<1>2. ASSUME NEW us \in SUBSET Uris, Forget(us)
      PROVE  SizeInv'
  BY <1>2, ForgetCounts
<1>3. ASSUME NEW u \in Uris, DidOpen(u) \/ DidClose(u)
      PROVE  SizeInv'
  <2>1. Forget({u})
    BY <1>3 DEF DidOpen, DidClose, ResetUris
  <2> QED
    BY <1>2, <2>1
<1>4. ASSUME NEW r \in Renames, DidRenameFiles(r)
      PROVE  SizeInv'
  <2> DEFINE us == DOMAIN r \cup {r[u] : u \in DOMAIN r}
  <2>1. us \in SUBSET Uris
    BY SemanticTokensAssumption
  <2>2. Forget(us)
    BY <1>4 DEF DidRenameFiles, ResetUris
  <2> HIDE DEF us
  <2> QED
    BY <1>2, <2>1, <2>2
<1>5. ASSUME NEW c \in Calls, RequestTokens(c) \/ Cancel(c)
      PROVE  SizeInv'
  <2>1. UNCHANGED store
    BY <1>5 DEF RequestTokens, Request, Cancel
  <2> QED
    BY <1>1, <2>1
<1>6. ASSUME NEW c \in Calls, TakeOther(c)
      PROVE  SizeInv'
  <2>1. contexts[c].uri \in Uris
    BY <1>6, PendingContext DEF TakeOther, Take
  <2>2. Forget({contexts[c].uri}) \/ UNCHANGED store
    BY <1>6 DEF TakeOther
  <2> QED
    BY <1>1, <1>2, <2>1, <2>2
<1>7. ASSUME NEW c \in Calls, NEW data \in Tokens, TakeTokens(c, data)
      PROVE  SizeInv'
  <2>1. contexts[c].uri \in Uris /\ Retain(contexts[c].uri, data)
    BY <1>7, PendingContext DEF TakeTokens, Take, Deliver
  <2> QED
    BY <2>1, RetainCounts
<1>8. CASE Shutdown
  <2>1. Forget(Uris)
    BY <1>8 DEF Shutdown
  <2> QED
    BY <1>2, <2>1
<1>9. CASE UNCHANGED vars
  BY <1>1, <1>9 DEF vars, store
<1> QED
  BY <1>3, <1>4, <1>5, <1>6, <1>7, <1>8, <1>9 DEF Next, Terminated

(* "Retention is bounded": however large the responses are and however      *)
(* they come, the counter is the size of all baselines, neither it nor      *)
(* their number passes its limit.                                           *)
THEOREM RetentionStaysBounded == Spec => []RetentionIsBounded
<1>1. Init => TokensInv /\ SizeInv
  BY TokensInit, SizeInit
<1>2. TokensInv => TypeOK
  BY DEF TokensInv
<1>3. (TokensInv /\ SizeInv) /\ [Next]_vars => (TokensInv /\ SizeInv)'
  BY <1>2, TokensPreserved, SizePreserved
<1>4. SizeInv => RetentionIsBounded
  BY RetainedPlaces DEF SizeInv, RetentionIsBounded
<1> QED
  BY <1>1, <1>3, <1>4, PTL DEF Spec
=============================================================================
