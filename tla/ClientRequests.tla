--------------------------- MODULE ClientRequests ---------------------------
(***************************************************************************)
(* Requests of the server to its client.  Four machines in the main loop   *)
(* send them: refreshes of a feature, one at a time and again if results   *)
(* changed meanwhile (refresh.rs); a progress whose token the client must  *)
(* grant while the worker loads (loading.rs); settings for each workspace  *)
(* folder, pulled whenever the client says that they changed               *)
(* (synchronization.rs, client_requests.rs); and the registration of file  *)
(* watchers.  All but the progress pass a channel that the main loop       *)
(* itself drains, where it records whose answers it awaits.  The client    *)
(* answers in any order, and may refuse.                                   *)
(*                                                                         *)
(* The client's settings are a number that grows with every change.        *)
(* Reports of a running progress change nothing and are left out, and so   *)
(* is what a change of settings does to diagnostics (Diagnostics).         *)
(***************************************************************************)
EXTENDS Integers, Sequences, FiniteSets, SequencesExt, Functions

CONSTANTS
  Features,        (* features whose results the client may have to refresh *)
  Roots,           (* paths that may be workspace folders                  *)
  Everything,      (* the scope that stands for a session without folders  *)
  Workloads        (* bounds, of which a session has one: how many refresh-*)
                   (* es the worker asks for, how often it begins to load, *)
                   (* and how often settings or folders change             *)

ASSUME ClientRequestsAssumption ==
  /\ Everything \notin Roots
  /\ IsFiniteSet(Features)
  /\ Workloads \subseteq [refreshes : Nat, loads : Nat, changes : Nat]

VARIABLES
  workload,        (* the bounds of this session                           *)
  running,         (* Lifecycle: no shutdown was requested                 *)
  dirty,           (* PendingRefresh.dirty, by feature                     *)
  inflight,        (* PendingRefresh.inflight, by feature; 0 for none      *)
  nextId,          (* GlobalState.next_request_id                          *)
  enabled,         (* LoadingProgress.enabled                              *)
  active,          (* LoadingProgress.active                               *)
  pending,         (* LoadingProgress.pending, 0 for none                  *)
  token,           (* LoadingProgress.token, 0 for none                    *)
  begun,           (* LoadingProgress.begun                                *)
  next,            (* LoadingProgress.next                                 *)
  roots,           (* GlobalState.workspace_roots                          *)
  scoped,          (* GlobalState.scoped_editor_settings                   *)
  asked,           (* GlobalState.pending_configuration                    *)
  generation,      (* GlobalState.configuration_generation                 *)
  acknowledged,    (* GlobalState.watcher_acknowledged                     *)
  serverRequests,  (* requests whose answers the main loop awaits          *)
  sending,         (* channel from the main loop to itself                 *)
  out,             (* channel from the worker                              *)
  received,        (* channel from the client                              *)
  atClient,        (* requests the client has not answered                 *)
  settings,        (* the client's settings                                *)
  folders,         (* the client's workspace folders                       *)
  progress,        (* what the client knows of every progress token        *)
  loads,           (* how often the worker began to load                   *)
  refreshes,       (* how often the worker asked for a refresh             *)
  loading,         (* the worker said last that it loads                   *)
  owed,            (* history: features changed since the last request     *)
  refused          (* history: the newest settings were not obtained       *)

refreshState == <<dirty, inflight, nextId>>
loadingState == <<enabled, active, pending, token, begun, next>>
configuration == <<roots, scoped, asked, generation, acknowledged>>
worker == <<workload, loads, refreshes, loading>>
client == <<settings, folders>>
history == <<owed, refused>>
vars == <<running, refreshState, loadingState, configuration, serverRequests, sending, out,
          received, atClient, client, progress, worker, history>>

NothingAsked == [id |-> 0, scopes |-> {}]
Nothing == [x \in {} |-> 0]

Scopes(rs) == IF rs = {} THEN {Everything} ELSE rs
ConfigurationRequest(g, rs) == [kind |-> "configuration", id |-> g, scopes |-> Scopes(rs)]
Registration == [kind |-> "register", id |-> 1, scopes |-> {}]

(* The session starts with requests for the watchers and the settings.      *)
Init ==
  /\ workload \in Workloads
  /\ running = TRUE
  /\ dirty = [f \in Features |-> FALSE]
  /\ inflight = [f \in Features |-> 0]
  /\ nextId = 2
  /\ enabled = TRUE /\ active = FALSE /\ pending = 0 /\ token = 0 /\ begun = FALSE /\ next = 0
  /\ roots \in SUBSET Roots /\ folders = roots
  /\ scoped = Nothing
  /\ asked = [id |-> 1, scopes |-> Scopes(roots)]
  /\ generation = 1
  /\ acknowledged = FALSE
  /\ serverRequests = {}
  /\ sending = <<Registration, ConfigurationRequest(1, roots)>>
  /\ out = <<>> /\ received = <<>> /\ atClient = {}
  /\ settings = 0
  /\ progress = [t \in 1..workload.loads |-> "unknown"]
  /\ loads = 0 /\ refreshes = 0 /\ loading = FALSE
  /\ owed = {} /\ refused = FALSE

-----------------------------------------------------------------------------
(* The worker says that results of a feature changed, or whether it loads.  *)
WorkerRefresh(f) ==
  /\ refreshes < workload.refreshes
  /\ refreshes' = refreshes + 1
  /\ out' = Append(out, [kind |-> "refresh", feature |-> f])
  /\ UNCHANGED <<workload, running, refreshState, loadingState, configuration, serverRequests,
                 sending, received, atClient, client, progress, loads, loading, history>>

WorkerLoading ==
  /\ loading \/ loads < workload.loads
  /\ loading' = ~loading
  /\ loads' = IF loading THEN loads ELSE loads + 1
  /\ out' = Append(out, [kind |-> "loading", active |-> ~loading])
  /\ UNCHANGED <<workload, running, refreshState, loadingState, configuration, serverRequests,
                 sending, received, atClient, client, progress, refreshes, history>>

-----------------------------------------------------------------------------
(* The client.                                                              *)

ChangeSettings ==
  /\ running /\ settings < workload.changes
  /\ settings' = settings + 1
  /\ received' = Append(received, [kind |-> "didChangeConfiguration"])
  /\ UNCHANGED <<running, refreshState, loadingState, configuration, serverRequests, sending,
                 out, atClient, folders, progress, worker, history>>

ChangeFolders(r) ==
  /\ running /\ settings < workload.changes
  /\ folders' = (folders \ {r}) \cup ({r} \ folders)
  /\ settings' = settings + 1
  /\ received' = Append(received, [kind |-> "didChangeWorkspaceFolders", folders |-> folders'])
  /\ UNCHANGED <<running, refreshState, loadingState, configuration, serverRequests, sending,
                 out, atClient, progress, worker, history>>

(* It answers a request, whatever else it has been asked; the settings are  *)
(* those of the moment.  A token that is granted may be used from then on.  *)
Answer(r, ok) ==
  /\ r \in atClient
  /\ atClient' = atClient \ {r}
  /\ received' = Append(received, [kind |-> "response", request |-> r, ok |-> ok,
                                   settings |-> settings])
  /\ progress' = IF r.kind = "progress"
                 THEN [progress EXCEPT ![r.id] = IF ok THEN "granted" ELSE "refused"]
                 ELSE progress
  /\ UNCHANGED <<running, refreshState, loadingState, configuration, serverRequests, sending,
                 out, client, worker, history>>

RequestShutdown ==
  /\ running
  /\ ~\E i \in DOMAIN received : received[i].kind = "shutdown"
  /\ received' = Append(received, [kind |-> "shutdown"])
  /\ UNCHANGED <<running, refreshState, loadingState, configuration, serverRequests, sending,
                 out, atClient, client, progress, worker, history>>

-----------------------------------------------------------------------------
(* Loading progress.                                                        *)

(* Mutant: a token whose creation the client has not answered is given up.  *)
Update_GivesUp(on) ==
  /\ active' = on
  /\ IF ~on /\ (begun \/ pending # 0)
     THEN /\ progress' = [progress EXCEPT ![token] = "ended"]
          /\ begun' = FALSE /\ token' = 0
     ELSE UNCHANGED <<progress, begun, token>>
  /\ UNCHANGED <<enabled, pending, next>>

(* update: the end of loading ends a progress that has begun.               *)
Update(on) ==
  /\ active' = on
  /\ IF ~on /\ begun
     THEN /\ progress' = [progress EXCEPT ![token] = "ended"]
          /\ begun' = FALSE /\ token' = 0
     ELSE UNCHANGED <<progress, begun, token>>
  /\ UNCHANGED <<enabled, pending, next>>

(* poll, long enough after loading began: ask for a token.                  *)
Poll ==
  /\ next' = next + 1
  /\ pending' = next + 1
  /\ token' = next + 1
  /\ atClient' = atClient \cup {[kind |-> "progress", id |-> next + 1, scopes |-> {}]}
  /\ progress' = [progress EXCEPT ![next + 1] = "asked"]
  /\ UNCHANGED <<enabled, active, begun>>

MayPoll == enabled /\ active /\ pending = 0 /\ token = 0

(* Mutant: the progress begins whether or not the worker still loads.       *)
Granted_Always(ok) == ok

(* A granted token is used only while the worker loads.                     *)
Granted(ok) == ok /\ active

(* response: the answer to the creation of the token.                       *)
TakeToken(ok) ==
  /\ pending' = 0
  /\ begun' = (begun \/ Granted(ok))
  /\ token' = IF Granted(ok) THEN token ELSE 0
  /\ progress' = IF Granted(ok) THEN [progress EXCEPT ![token] = "begun"] ELSE progress
  /\ enabled' = (enabled /\ ok)
  /\ UNCHANGED <<active, next>>

-----------------------------------------------------------------------------
(* Refresh requests.                                                        *)

(* flush: features that changed and have no request under way.              *)
Flushed == {f \in Features : dirty[f] /\ inflight[f] = 0}

(* Mutant: a change while the client is refreshing is taken as told.        *)
Flush_ClearsAll ==
  LET order == SetToSeq(Flushed)
      place(f) == CHOOSE i \in DOMAIN order : order[i] = f
  IN
  /\ dirty' = [f \in Features |-> FALSE]
  /\ inflight' = [f \in Features |-> IF f \in Flushed THEN nextId + place(f) - 1 ELSE inflight[f]]
  /\ nextId' = nextId + Len(order)
  /\ sending' = sending \o [i \in DOMAIN order |->
                  [kind |-> "refresh", id |-> nextId + i - 1, scopes |-> {order[i]}]]

(* What flush makes of dirty and inflight, with consecutive identifiers.    *)
Flush ==
  LET order == SetToSeq(Flushed)
      place(f) == CHOOSE i \in DOMAIN order : order[i] = f
  IN
  /\ dirty' = [f \in Features |-> dirty[f] /\ f \notin Flushed]
  /\ inflight' = [f \in Features |-> IF f \in Flushed THEN nextId + place(f) - 1 ELSE inflight[f]]
  /\ nextId' = nextId + Len(order)
  /\ sending' = sending \o [i \in DOMAIN order |->
                  [kind |-> "refresh", id |-> nextId + i - 1, scopes |-> {order[i]}]]

-----------------------------------------------------------------------------
(* The main loop.                                                           *)

(* The progress tick, early or late after loading began.                    *)
Tick ==
  /\ running
  /\ Flushed # {} \/ MayPoll
  /\ IF MayPoll THEN Poll \/ UNCHANGED <<loadingState, atClient, progress>>
                ELSE UNCHANGED <<loadingState, atClient, progress>>
  /\ Flush
  /\ UNCHANGED <<running, configuration, serverRequests, out, received, client, worker, history>>

TakeRefresh ==
  /\ out # <<>> /\ Head(out).kind = "refresh"
  /\ out' = Tail(out)
  /\ IF running
     THEN /\ dirty' = [dirty EXCEPT ![Head(out).feature] = TRUE]
          /\ owed' = owed \cup {Head(out).feature}
     ELSE UNCHANGED <<dirty, owed>>
  /\ UNCHANGED <<running, inflight, nextId, loadingState, configuration, serverRequests, sending,
                 received, atClient, client, progress, worker, refused>>

TakeLoading ==
  /\ out # <<>> /\ Head(out).kind = "loading"
  /\ out' = Tail(out)
  /\ IF running THEN Update(Head(out).active) ELSE UNCHANGED <<loadingState, progress>>
  /\ UNCHANGED <<running, refreshState, configuration, serverRequests, sending, received,
                 atClient, client, worker, history>>

(* The response_rx arm: a request goes to the client, and its answer is     *)
(* awaited from now on.                                                     *)
Forward ==
  LET r == Head(sending) IN
  /\ sending # <<>>
  /\ sending' = Tail(sending)
  /\ IF running
     THEN /\ serverRequests' = serverRequests \cup {r}
          /\ atClient' = atClient \cup {r}
          /\ owed' = IF r.kind = "refresh" THEN owed \ r.scopes ELSE owed
     ELSE UNCHANGED <<serverRequests, atClient, owed>>
  /\ UNCHANGED <<running, refreshState, loadingState, configuration, out, received, client,
                 progress, worker, refused>>

(* Mutant: a newer request does not cancel the older one.                   *)
Awaits_Any(r) == r.kind = "configuration"

(* Only the last request for settings is pending.                           *)
Awaits(r) == r.kind = "configuration" /\ r.id = asked.id

(* request_configuration replaces the request that is pending.              *)
RequestConfiguration(rs) ==
  /\ generation' = generation + 1
  /\ asked' = [id |-> generation + 1, scopes |-> Scopes(rs)]
  /\ sending' = Append(sending, ConfigurationRequest(generation + 1, rs))

(* handle_client_response: a refresh is complete; settings are taken for    *)
(* all folders or for none; or the client watches from now on, or not.      *)
HandleClientResponse(r, ok, values) ==
  /\ serverRequests' = serverRequests \ {r}
  /\ inflight' = [f \in Features |->
       IF r.kind = "refresh" /\ inflight[f] = r.id THEN 0 ELSE inflight[f]]
  /\ scoped' = IF Awaits(r) /\ ok
               THEN [s \in DOMAIN scoped \cup r.scopes |->
                       IF s \in r.scopes THEN values ELSE scoped[s]]
               ELSE scoped
  /\ asked' = IF Awaits(r) THEN NothingAsked ELSE asked
  /\ refused' = IF Awaits(r) THEN ~ok ELSE refused
  /\ acknowledged' = IF r.kind = "register" THEN ok ELSE acknowledged
  /\ UNCHANGED <<loadingState, roots, generation, progress>>

(* An answer is the one of the token, one that is awaited, or dropped.      *)
TakeResponse ==
  LET m == Head(received)
      r == m.request
  IN
  /\ received # <<>> /\ m.kind = "response"
  /\ received' = Tail(received)
  /\ \/ /\ running /\ r.kind = "progress" /\ r.id = pending
        /\ TakeToken(m.ok)
        /\ UNCHANGED <<inflight, configuration, serverRequests, refused>>
     \/ /\ running /\ r.kind # "progress" /\ r \in serverRequests
        /\ HandleClientResponse(r, m.ok, m.settings)
     \/ /\ \/ ~running
           \/ r.kind = "progress" /\ r.id # pending
           \/ r.kind # "progress" /\ r \notin serverRequests
        /\ UNCHANGED <<inflight, loadingState, configuration, serverRequests, progress, refused>>
  /\ UNCHANGED <<running, dirty, nextId, sending, out, atClient, client, worker, owed>>

DidChangeConfiguration ==
  /\ received # <<>> /\ Head(received).kind = "didChangeConfiguration"
  /\ received' = Tail(received)
  /\ IF running THEN RequestConfiguration(roots) ELSE UNCHANGED <<generation, asked, sending>>
  /\ UNCHANGED <<running, refreshState, loadingState, roots, scoped, acknowledged,
                 serverRequests, out, atClient, client, progress, worker, history>>

(* The settings that are kept when the folders become rs.                   *)
Surviving(rs) == Restrict(scoped, DOMAIN scoped \cap rs)

DidChangeWorkspaceFolders ==
  LET rs == Head(received).folders IN
  /\ received # <<>> /\ Head(received).kind = "didChangeWorkspaceFolders"
  /\ received' = Tail(received)
  /\ IF running
     THEN /\ roots' = rs
          /\ scoped' = Surviving(rs)
          /\ RequestConfiguration(rs)
     ELSE UNCHANGED <<roots, scoped, generation, asked, sending>>
  /\ UNCHANGED <<running, refreshState, loadingState, acknowledged, serverRequests, out,
                 atClient, client, progress, worker, history>>

(* Shutdown: no answer is awaited any more.                                 *)
Shutdown ==
  /\ received # <<>> /\ Head(received).kind = "shutdown"
  /\ received' = Tail(received)
  /\ running' = FALSE
  /\ serverRequests' = {}
  /\ asked' = NothingAsked
  /\ UNCHANGED <<refreshState, loadingState, roots, scoped, generation, acknowledged, sending,
                 out, atClient, client, progress, worker, history>>

Next ==
  \/ \E f \in Features : WorkerRefresh(f)
  \/ WorkerLoading
  \/ ChangeSettings \/ \E r \in Roots : ChangeFolders(r)
  \/ \E r \in atClient, ok \in BOOLEAN : Answer(r, ok)
  \/ RequestShutdown
  \/ Tick \/ TakeRefresh \/ TakeLoading \/ Forward
  \/ TakeResponse \/ DidChangeConfiguration \/ DidChangeWorkspaceFolders \/ Shutdown

Spec == Init /\ [][Next]_vars

-----------------------------------------------------------------------------
(* Properties.                                                              *)

Forwarded ==
  [kind : {"configuration"}, id : Nat, scopes : SUBSET (Roots \cup {Everything})]
    \cup [kind : {"refresh"}, id : Nat, scopes : {{f} : f \in Features}]
    \cup [kind : {"register"}, id : Nat, scopes : {{}}]

Requests == Forwarded \cup [kind : {"progress"}, id : Nat, scopes : {{}}]

Messages ==
  [kind : {"didChangeConfiguration", "shutdown"}]
    \cup [kind : {"didChangeWorkspaceFolders"}, folders : SUBSET Roots]
    \cup [kind : {"response"}, request : Requests, ok : BOOLEAN, settings : Nat]

Reports == [kind : {"refresh"}, feature : Features] \cup [kind : {"loading"}, active : BOOLEAN]

Stages == {"unknown", "asked", "granted", "refused", "begun", "ended"}

TypeOK ==
  /\ workload \in [refreshes : Nat, loads : Nat, changes : Nat]
  /\ running \in BOOLEAN
  /\ dirty \in [Features -> BOOLEAN] /\ inflight \in [Features -> Nat] /\ nextId \in Nat \ {0}
  /\ enabled \in BOOLEAN /\ active \in BOOLEAN /\ begun \in BOOLEAN
  /\ pending \in Nat /\ token \in Nat /\ next \in Nat
  /\ roots \subseteq Roots /\ folders \subseteq Roots
  /\ DOMAIN scoped \subseteq Roots \cup {Everything}
  /\ asked \in [id : Nat, scopes : SUBSET (Roots \cup {Everything})]
  /\ generation \in Nat \ {0} /\ acknowledged \in BOOLEAN
  /\ serverRequests \subseteq Forwarded /\ atClient \subseteq Requests
  /\ sending \in Seq(Forwarded) /\ out \in Seq(Reports) /\ received \in Seq(Messages)
  /\ settings \in Nat /\ refused \in BOOLEAN
  /\ progress \in [1..workload.loads -> Stages]
  /\ loads \in Nat /\ refreshes \in Nat /\ loading \in BOOLEAN
  /\ owed \subseteq Features

(* A change of results is never lost: while the session runs, a feature     *)
(* that changed since its last refresh reached the client is marked, or its *)
(* next refresh is on the way.  And a refresh that is in flight has an      *)
(* answer to come, so that a marked feature is sent after it.               *)
NoRefreshLost ==
  running => \A f \in Features :
    /\ f \in owed => \/ dirty[f]
                     \/ \E i \in DOMAIN sending : sending[i].kind = "refresh" /\ f \in sending[i].scopes
    /\ inflight[f] # 0 =>
         LET r == [kind |-> "refresh", id |-> inflight[f], scopes |-> {f}] IN
         \/ r \in Range(sending)
         \/ r \in serverRequests /\ (r \in atClient \/ \E i \in DOMAIN received :
              received[i].kind = "response" /\ received[i].request = r)

(* The client sees a token created, then granted, then one begin and one    *)
(* end, and nothing on a token that it refused.                             *)
ProgressFollowsProtocol ==
  [][\A t \in DOMAIN progress : progress[t] # progress'[t] =>
       <<progress[t], progress'[t]>> \in
         {<<"unknown", "asked">>, <<"asked", "granted">>, <<"asked", "refused">>,
          <<"granted", "begun">>, <<"begun", "ended">>}]_vars

(* At most one progress is shown, the server knows it, and it is shown only *)
(* while the worker loads.                                                  *)
ProgressMeansLoading ==
  \A t \in DOMAIN progress : progress[t] = "begun" => active /\ begun /\ token = t

(* When no answer and no notification is under way, the settings in use are *)
(* the client's newest ones for exactly its present folders, unless the     *)
(* client failed to give them, when no folder that is gone has any.         *)
SettledConfiguration ==
  running /\ received = <<>> /\ asked = NothingAsked =>
    /\ roots = folders
    /\ DOMAIN scoped \subseteq Scopes(roots)
    /\ ~refused => scoped = [s \in Scopes(roots) |-> settings]
=============================================================================
