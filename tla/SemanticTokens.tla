--------------------------- MODULE SemanticTokens ---------------------------
(***************************************************************************)
(* The baselines of semantic tokens (SemanticTokenStore) and the lifetimes *)
(* of documents in the main loop that guard them: requests for tokens,     *)
(* full or relative to an earlier result, are answered in any order while  *)
(* documents are opened, closed and renamed and baselines are evicted.     *)
(*                                                                         *)
(* Result identifiers are the sequence numbers of one session.  The tokens *)
(* of a response are any of Tokens: what they are computed from is left to *)
(* the readers.  A client may name any result that it ever received.       *)
(***************************************************************************)
EXTENDS Integers, Sequences, FiniteSets

CONSTANTS Uris, Calls,
          Tokens,         \* encoded token arrays: a set of sequences
          Renames,        \* batches of renamed files, functions from old to new
          MaxDocuments,   \* baselines at most (32)
          MaxIntegers,    \* integers in all baselines at most (1,048,576)
          EditCost,       \* integers an edit has to save (8)
          MaxResponses,   \* bound: identified results
          MaxLifetimes    \* bound: openings and renames

ASSUME SemanticTokensAssumption ==
  /\ \A s \in Tokens : s \in Seq(Nat)
  /\ \A r \in Renames : DOMAIN r \subseteq Uris /\ \A u \in DOMAIN r : r[u] \in Uris
  /\ MaxDocuments \in Nat \ {0} /\ MaxIntegers \in Nat /\ EditCost \in Nat
  /\ MaxResponses \in Nat /\ MaxLifetimes \in Nat

VARIABLES
  running,     \* the session has not been shut down
  documents,   \* GlobalState::documents, the open documents
  next,        \* TokenDocumentLifetimes::next
  open,        \* TokenDocumentLifetimes::open; 0: no lifetime
  contexts,    \* response_contexts of the requests that await a response
  sequence,    \* SemanticTokenStore::sequence
  integers,    \* SemanticTokenStore::integers
  baselines,   \* SemanticTokenStore::documents
  received     \* history: what the client has under each identifier

vars == <<running, documents, next, open, contexts, sequence, integers, baselines, received>>
store == <<sequence, integers, baselines>>

NoContext == [uri |-> "none"]
NoBaseline == [id |-> 0, data |-> <<>>]

(* late is history: the document was closed, reopened or renamed since.     *)
Context == [uri : Uris, delta : BOOLEAN, previous : Nat, lifetime : Nat, late : BOOLEAN]

-----------------------------------------------------------------------------
(* Edits.                                                                   *)

Least(m, n) == IF m <= n THEN m ELSE n

(* How many integers two arrays share at their start, and at their end.     *)
Leading(a, b) ==
  LET m == Least(Len(a), Len(b))
  IN  CHOOSE n \in 0 .. m : /\ \A i \in 1 .. n : a[i] = b[i]
                            /\ n = m \/ a[n + 1] # b[n + 1]

Trailing(a, b) ==
  LET m == Least(Len(a), Len(b))
  IN  CHOOSE n \in 0 .. m : /\ \A i \in 0 .. n - 1 : a[Len(a) - i] = b[Len(b) - i]
                            /\ n = m \/ a[Len(a) - n] # b[Len(b) - n]

Rest(a, n) == SubSeq(a, n + 1, Len(a))

(* Mutant: the common end may overlap the common start.                     *)
OverlappingEdit(old, new) ==
  LET prefix == Leading(old, new)
      suffix == Trailing(old, new)
  IN  [start |-> prefix,
       deleteCount |-> Len(old) - prefix - suffix,
       data |-> SubSeq(new, prefix + 1, Len(new) - suffix)]

(* The one edit that turns old into new.  Equal arrays need none, which is  *)
(* the edit that does nothing.                                              *)
EditOf(old, new) ==
  LET prefix == Leading(old, new)
      suffix == Trailing(Rest(old, prefix), Rest(new, prefix))
  IN  [start |-> prefix,
       deleteCount |-> Len(old) - prefix - suffix,
       data |-> SubSeq(new, prefix + 1, Len(new) - suffix)]

Cheaper(edit, old, new) == Len(edit.data) + EditCost < Len(new) \/ old = new

(* What a client makes of an edit, by the Language Server Protocol.         *)
ApplyEdit(old, edit) ==
  SubSeq(old, 1, edit.start) \o edit.data \o Rest(old, edit.start + edit.deleteCount)

-----------------------------------------------------------------------------
(* The store.                                                               *)

Retained(b) == {u \in Uris : b[u] # NoBaseline}

(* The integers in the baselines of some documents, each by its place.      *)
Places(b, us) == UNION {{u} \X (1 .. Len(b[u].data)) : u \in us}
Size(b, us) == Cardinality(Places(b, us))

Forget(us) ==
  /\ baselines' = [u \in Uris |-> IF u \in us THEN NoBaseline ELSE baselines[u]]
  /\ integers' = integers - Size(baselines, us)

(* Mutant: one baseline makes room, however large the new one is.           *)
KeptButOldest(uri, data) ==
  LET others == Retained(baselines) \ {uri}
      oldest == {u \in others : \A v \in others : baselines[u].id <= baselines[v].id}
  IN  IF \/ Cardinality(others) >= MaxDocuments
         \/ Size(baselines, others) + Len(data) > MaxIntegers
      THEN others \ oldest
      ELSE others

(* The baselines that stay when data comes in for uri: the oldest ones are  *)
(* forgotten until there is room, or none is left.                          *)
Kept(uri, data) ==
  LET others == Retained(baselines) \ {uri}
      newer(n) == {u \in others : baselines[u].id > n}
      room(us) == /\ Cardinality(us) < MaxDocuments
                  /\ integers - Size(baselines, Uris \ us) + Len(data) <= MaxIntegers
      enough == {n \in 0 .. sequence : room(newer(n))}
  IN  IF Len(data) > MaxIntegers THEN others
      ELSE IF enough = {} THEN {}
      ELSE newer(CHOOSE n \in enough : \A m \in enough : n <= m)

(* The new baseline, with the next identifier, unless it is too large.      *)
Retain(uri, data) ==
  LET kept == Kept(uri, data)
      fits == Len(data) <= MaxIntegers
  IN  /\ sequence' = sequence + 1
      /\ baselines' = [u \in Uris |->
           IF u \in kept THEN baselines[u]
           ELSE IF u = uri /\ fits THEN [id |-> sequence + 1, data |-> data]
           ELSE NoBaseline]
      /\ integers' = integers - Size(baselines, Uris \ kept)
                     + (IF fits THEN Len(data) ELSE 0)

(* SemanticTokenStore::response for context c: the client is sent an edit   *)
(* of the result that it named, if that is the baseline and the edit is     *)
(* cheaper, or else all tokens.                                             *)
Deliver(c, data) ==
  LET old == baselines[c.uri]
      edit == EditOf(old.data, data)
      relative == /\ c.delta /\ old # NoBaseline /\ old.id = c.previous
                  /\ Cheaper(edit, old.data, data)
  IN  /\ Retain(c.uri, data)
      /\ received' = Append(received,
           [uri |-> c.uri, late |-> c.late, computed |-> data,
            tokens |-> IF relative THEN ApplyEdit(received[c.previous].tokens, edit)
                       ELSE data])

-----------------------------------------------------------------------------
(* The main loop.                                                           *)

Init ==
  /\ running = TRUE
  /\ documents = {} /\ next = 0 /\ open = [u \in Uris |-> 0]
  /\ contexts = [c \in Calls |-> NoContext]
  /\ sequence = 0 /\ integers = 0 /\ baselines = [u \in Uris |-> NoBaseline]
  /\ received = <<>>

Pending == {c \in Calls : contexts[c] # NoContext}

(* Lifetimes that one notification gives out are one number, for they are   *)
(* only compared with those of the same document.                           *)
ResetUris(us) ==
  /\ open' = [u \in Uris |-> IF u \notin us THEN open[u]
                             ELSE IF u \in documents' THEN next + 1 ELSE 0]
  /\ next' = IF us \cap documents' = {} THEN next ELSE next + 1
  /\ Forget(us)
  /\ contexts' = [c \in Calls |->
       IF c \in Pending /\ contexts[c].uri \in us THEN [contexts[c] EXCEPT !.late = TRUE]
       ELSE contexts[c]]
  /\ UNCHANGED <<running, sequence, received>>

DidOpen(u) ==
  /\ running /\ next < MaxLifetimes
  /\ documents' = documents \cup {u}
  /\ ResetUris({u})

DidClose(u) ==
  /\ running
  /\ documents' = documents \ {u}
  /\ ResetUris({u})

(* Open documents move along with their files.                              *)
DidRenameFiles(r) ==
  /\ running /\ next < MaxLifetimes
  /\ documents' = (documents \ DOMAIN r) \cup {r[u] : u \in documents \cap DOMAIN r}
  /\ ResetUris(DOMAIN r \cup {r[u] : u \in DOMAIN r})

(* A request for all tokens, or for what changed since an earlier result.   *)
Request(c, u, delta, previous) ==
  /\ running /\ contexts[c] = NoContext
  /\ sequence + Cardinality(Pending) < MaxResponses
  /\ contexts' = [contexts EXCEPT ![c] =
       [uri |-> u, delta |-> delta, previous |-> previous, lifetime |-> open[u],
        late |-> FALSE]]
  /\ UNCHANGED <<running, documents, next, open, store, received>>

RequestTokens(c) ==
  \E u \in Uris : \/ Request(c, u, FALSE, 0)
                  \/ \E previous \in 1 .. Len(received) : Request(c, u, TRUE, previous)

(* Cancelled: the response of its reader will find no call in the ledger.   *)
Cancel(c) ==
  /\ running /\ contexts[c] # NoContext
  /\ contexts' = [contexts EXCEPT ![c] = NoContext]
  /\ UNCHANGED <<running, documents, next, open, store, received>>

(* Mutant: only that it is open.                                            *)
AnyLifetime(c) == open[c.uri] # 0

(* The document has not been closed, reopened or renamed since the request. *)
SameLifetime(c) == c.lifetime # 0 /\ open[c.uri] = c.lifetime

Take(c) ==
  /\ running /\ contexts[c] # NoContext
  /\ contexts' = [contexts EXCEPT ![c] = NoContext]
  /\ UNCHANGED <<running, documents, next, open>>

(* A response with tokens reaches the store.                                *)
TakeTokens(c, data) ==
  /\ Take(c)
  /\ contexts[c].uri \in documents /\ SameLifetime(contexts[c])
  /\ Deliver(contexts[c], data)

(* A response without tokens, or of an earlier lifetime, goes to the client *)
(* as it is; if the document has been closed, its baseline is forgotten.    *)
TakeOther(c) ==
  LET uri == contexts[c].uri
  IN  /\ Take(c)
      /\ IF uri \notin documents \/ open[uri] = 0
         THEN Forget({uri}) /\ UNCHANGED <<sequence, received>>
         ELSE UNCHANGED <<store, received>>

Shutdown ==
  /\ running /\ running' = FALSE
  /\ contexts' = [c \in Calls |-> NoContext]
  /\ Forget(Uris)
  /\ UNCHANGED <<documents, next, open, sequence, received>>

Terminated == ~running /\ UNCHANGED vars

Next ==
  \/ \E u \in Uris : DidOpen(u) \/ DidClose(u)
  \/ \E r \in Renames : DidRenameFiles(r)
  \/ \E c \in Calls : RequestTokens(c) \/ Cancel(c) \/ TakeOther(c)
  \/ \E c \in Calls, data \in Tokens : TakeTokens(c, data)
  \/ Shutdown
  \/ Terminated

Spec == Init /\ [][Next]_vars

-----------------------------------------------------------------------------
Result == [uri : Uris, late : BOOLEAN, computed : Tokens, tokens : Seq(Nat)]

TypeOK ==
  /\ running \in BOOLEAN
  /\ documents \subseteq Uris
  /\ next \in Nat /\ open \in [Uris -> 0 .. next]
  /\ contexts \in [Calls -> Context \cup {NoContext}]
  /\ sequence \in Nat
  /\ baselines \in [Uris -> [id : 1 .. sequence, data : Tokens] \cup {NoBaseline}]
  /\ Len(received) = sequence
  /\ received \in Seq(Result)

(* "Unknown IDs and evicted/oversized baselines produce a valid full        *)
(* response", and every other one an edit that fits: what the client makes  *)
(* of a result is what was computed, whichever results it asked about and   *)
(* in whichever order they came.                                            *)
ClientHasComputed == \A n \in 1 .. Len(received) : received[n].tokens = received[n].computed

(* "Delayed tokens do not restore closed or reopened baselines": a baseline *)
(* is of an open document, was sent to the client as a result, and answers  *)
(* a request after which the document was not closed, reopened or renamed.  *)
BaselinesAreCurrent ==
  \A u \in Retained(baselines) :
    /\ u \in documents
    /\ LET b == baselines[u]
       IN  /\ b.id \in 1 .. Len(received)
           /\ received[b.id].uri = u /\ ~received[b.id].late
           /\ received[b.id].computed = b.data

(* "Retention is bounded": the counter is the size of all baselines, and    *)
(* neither it nor their number passes its limit.                            *)
RetentionIsBounded ==
  /\ integers = Size(baselines, Retained(baselines)) /\ integers <= MaxIntegers
  /\ Cardinality(Retained(baselines)) <= MaxDocuments
=============================================================================
