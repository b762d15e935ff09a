---------------------------- MODULE SourceLayers ----------------------------
(***************************************************************************)
(* The writer of the incremental database (incremental/source_layers.rs,   *)
(* host.rs, database.rs and external_inputs.rs): which projects hold which *)
(* sources, with which text.  A source has a backing layer, supplied from  *)
(* disk, and an overlay, supplied by an editor; the projects that hold it  *)
(* share its bytes.  Clients keep tokens: a source version, which an edit  *)
(* presents as its precondition, and an acquisition token, under which     *)
(* files that were read outside the writer are published.                  *)
(*                                                                         *)
(* The calls of the writer are atomic (&mut self).  The code advances the  *)
(* revision several times in a call; the stamps it gives out in one call   *)
(* are one stamp here, for stamps are compared between calls only.         *)
(***************************************************************************)
EXTENDS Integers, FiniteSets

CONSTANTS
  Paths,         (* normalized paths                                       *)
  Projects,      (* identities of projects, used once                      *)
  Default,       (* the project the database starts with                   *)
  Disk,          (* texts that come from disk                              *)
  Unsaved,       (* texts that exist in an editor only                     *)
  NoText,
  Renames,       (* batches of moves a host may ask for                    *)
  MaxRevision,   (* bound: the revision                                    *)
  MaxRefreshes   (* bound: acquisitions                                    *)

Texts == Disk \cup Unsaved

ASSUME SourceLayersAssumption ==
  /\ Default \in Projects
  /\ NoText \notin Texts
  /\ Disk \cap Unsaved = {}
  /\ Paths # {}
  /\ MaxRevision \in Nat /\ MaxRefreshes \in Nat
  (* rows (old, new) of a batch: all the olds, the old whose row is the     *)
  (* last one for each new, and the owners of the two ends of that row      *)
  /\ \A r \in Renames : /\ r.olds \subseteq Paths
                        /\ r.news \subseteq Paths
                        /\ r.from \in [r.news -> r.olds]
                        /\ r.before \in [r.news -> Projects]
                        /\ r.after \in [r.news -> Projects]

VARIABLES
  live,        (* Database.projects                                        *)
  retired,     (* project identities that were removed                     *)
  default,     (* Database.default_project                                 *)
  source,      (* Database.files: the incarnation of a source, 0 for none  *)
  member,      (* Database.identities: the projects with an instance       *)
  text,        (* SourceInput.text of each instance                        *)
  stamp,       (* SourceInput.revision of each instance                    *)
  layered,     (* the sources that Database.source_layers has              *)
  layers,      (* Database.source_layers                                   *)
  revision,    (* Database.revision                                        *)
  epoch,       (* Database.epoch                                           *)
  generation,  (* Database.acquisitions of files, by project               *)
  published,   (* Database.generations of files, by project                *)
  reads,       (* acquisition tokens that clients hold                     *)
  held         (* a source version that a client holds                     *)

storage == <<live, retired, default, source, member, text, stamp, layered, layers, revision, epoch>>
vars == <<storage, generation, published, reads, held>>

NoLayers == [backing |-> NoText, backers |-> {}, overlay |-> NoText, owners |-> {}]
NoToken == [path |-> CHOOSE f \in Paths : TRUE, project |-> Default, source |-> 0,
            revision |-> 0, text |-> NoText, undisturbed |-> FALSE]

Init ==
  /\ live = {Default}
  /\ retired = {}
  /\ default = Default
  /\ source = [f \in Paths |-> 0]
  /\ member = [f \in Paths |-> {}]
  /\ text = [f \in Paths |-> [p \in Projects |-> NoText]]
  /\ stamp = [f \in Paths |-> [p \in Projects |-> 0]]
  /\ layered = {}
  /\ layers = [f \in Paths |-> NoLayers]
  /\ revision = 0
  /\ epoch = 0
  /\ generation = [p \in Projects |-> 0]
  /\ published = [p \in Projects |-> 0]
  /\ reads = {}
  /\ held = NoToken

-----------------------------------------------------------------------------
(* Layers.                                                                  *)

Effective(l) == IF l.overlay # NoText THEN l.overlay ELSE l.backing
Holders(l) == l.backers \cup l.owners

(* The text of some instance of a source.                                   *)
SharedText(f) == text[f][CHOOSE p \in member[f] : TRUE]

(* A source without layers was supplied as contents of its projects.        *)
LayersFor(f) ==
  IF f \in layered THEN layers[f]
  ELSE IF member[f] = {} THEN NoLayers
  ELSE [NoLayers EXCEPT !.backing = SharedText(f), !.backers = member[f]]

WithBacking(l, p, t) ==
  IF t # NoText
  THEN [l EXCEPT !.backing = t, !.backers = @ \cup {p}]
  ELSE [l EXCEPT !.backing = IF l.backers \subseteq {p} THEN NoText ELSE @,
                 !.backers = @ \ {p}]

WithOverlay(l, p, t) == [l EXCEPT !.overlay = t, !.owners = @ \cup {p}]

(* Mutant: the contents of an overlay outlive its last owner.               *)
WithoutOverlay_KeepsText(l, p) == [l EXCEPT !.owners = @ \ {p}]

WithoutOverlay(l, p) ==
  [l EXCEPT !.overlay = IF l.owners \subseteq {p} THEN NoText ELSE @, !.owners = @ \ {p}]

(* SourceLayers::retain_projects                                            *)
Without(l, gone) ==
  [backing |-> IF l.backers \subseteq gone THEN NoText ELSE l.backing,
   backers |-> l.backers \ gone,
   overlay |-> IF l.owners \subseteq gone THEN NoText ELSE l.overlay,
   owners |-> l.owners \ gone]

-----------------------------------------------------------------------------
(* What the clients know of a call is told by what it leaves.               *)

(* A client keeps its source version; whether the call changed the text or  *)
(* the attachment of that source in that project is remembered.             *)
Keep(replaced) ==
  LET f == held.path
      p == held.project
  IN held' = [held EXCEPT !.undisturbed =
       /\ @
       /\ source'[f] = source[f] /\ p \in member'[f]
       /\ text'[f][p] = text[f][p]
       /\ p \in layers'[f].owners <=> p \in layers[f].owners
       /\ <<f, p>> \notin replaced]

(* So are the memberships that went since an acquisition began.             *)
Lost(p) == {f \in Paths : p \in member[f] /\ p \notin member'[f]}
Observe(left) ==
  reads' = {[r EXCEPT !.gone = @ \cup Lost(r.project)] : r \in left}

-----------------------------------------------------------------------------
(* The writer.                                                              *)

(* stage_layers for some paths, then finish_layer_batch: projects that hold *)
(* no layer any more lose their instance and the storage is built again.    *)
(* A rename clears paths before.  A replaced attachment is stamped anyhow,  *)
(* and a published acquisition counts as a write anyhow.                    *)
Stage(new, cleared, replaced, counted) ==
  LET had(f) == IF f \in cleared THEN {} ELSE member[f]
      old(f) == IF f \in cleared THEN NoLayers ELSE layers[f]
      same(f) == f \in layered \ cleared /\ layers[f] = new[f]
      touched == {f \in DOMAIN new : ~same(f)}
      filled == {f \in touched : Effective(new[f]) # NoText}
      emptied == (touched \ filled) \cup (cleared \ filled)
      removes == \/ \E f \in cleared : member[f] # {}
                 \/ \E f \in touched : ~(had(f) \subseteq Holders(new[f]))
      kept(f, p) == p \in had(f) /\ SharedText(f) = Effective(new[f])
      moved(f, p) == p \in new[f].owners <=> p \notin old(f).owners
  IN
  /\ member' = [f \in Paths |-> IF f \in filled THEN Holders(new[f])
                                ELSE IF f \in emptied THEN {} ELSE member[f]]
  /\ text' = [f \in Paths |-> [p \in Projects |->
       IF p \notin member'[f] THEN NoText
       ELSE IF f \in filled /\ ~kept(f, p) THEN Effective(new[f]) ELSE text[f][p]]]
  /\ stamp' = [f \in Paths |-> [p \in Projects |->
       IF p \notin member'[f] THEN 0
       ELSE IF \/ f \in filled /\ (~kept(f, p) \/ moved(f, p))
               \/ <<f, p>> \in replaced
            THEN revision + 1
       ELSE stamp[f][p]]]
  /\ source' = [f \in Paths |-> IF member'[f] = {} THEN 0
                                ELSE IF had(f) = {} THEN revision + 1 ELSE source[f]]
  /\ layered' = (layered \cup filled) \ emptied
  /\ layers' = [f \in Paths |-> IF f \in filled THEN new[f]
                                ELSE IF f \in emptied THEN NoLayers ELSE layers[f]]
  /\ revision' = IF filled # {} \/ removes \/ replaced # {} \/ counted
                 THEN revision + 1 ELSE revision
  /\ epoch' = IF removes THEN epoch + 1 ELSE epoch
  /\ UNCHANGED <<live, retired, default>>

(* Mutant: new storage gives every instance a new stamp.                    *)
Rebuild_Restamps(gone) ==
  LET left == [f \in Paths |-> Without(layers[f], gone[f])]
      shown(f, p) == IF Effective(left[f]) # NoText THEN Effective(left[f]) ELSE text[f][p]
  IN
  /\ member' = [f \in Paths |-> member[f] \ gone[f]]
  /\ text' = [f \in Paths |-> [p \in Projects |->
       IF p \notin member'[f] THEN NoText ELSE shown(f, p)]]
  /\ stamp' = [f \in Paths |-> [p \in Projects |->
       IF p \notin member'[f] THEN 0
       ELSE revision + 1]]
  /\ source' = [f \in Paths |-> IF member'[f] = {} THEN 0 ELSE source[f]]
  /\ layered' = {f \in layered : Effective(left[f]) # NoText}
  /\ layers' = [f \in Paths |-> IF f \in layered' THEN left[f] ELSE NoLayers]
  /\ revision' = revision + 1
  /\ epoch' = epoch + 1

(* rebuild: new storage without some memberships.  What they shared with    *)
(* other projects falls back to the layer that is left.                     *)
Rebuild(gone) ==
  LET left == [f \in Paths |-> Without(layers[f], gone[f])]
      shown(f, p) == IF Effective(left[f]) # NoText THEN Effective(left[f]) ELSE text[f][p]
  IN
  /\ member' = [f \in Paths |-> member[f] \ gone[f]]
  /\ text' = [f \in Paths |-> [p \in Projects |->
       IF p \notin member'[f] THEN NoText ELSE shown(f, p)]]
  /\ stamp' = [f \in Paths |-> [p \in Projects |->
       IF p \notin member'[f] THEN 0
       ELSE IF shown(f, p) # text[f][p] THEN revision + 1 ELSE stamp[f][p]]]
  /\ source' = [f \in Paths |-> IF member'[f] = {} THEN 0 ELSE source[f]]
  /\ layered' = {f \in layered : Effective(left[f]) # NoText}
  /\ layers' = [f \in Paths |-> IF f \in layered' THEN left[f] ELSE NoLayers]
  /\ revision' = revision + 1
  /\ epoch' = epoch + 1

(* apply_project_change: the plain writer changes the layer that shows.     *)
ApplyProjectChange(p, f, t) ==
  LET attaching == p \notin member[f]
      changed == member[f] # {} /\ SharedText(f) # t
      kept(q) == q \in member[f] /\ ~changed
      l == layers[f]
      joined == IF attaching
                THEN [l EXCEPT !.backers = @ \cup {p},
                               !.backing = IF @ = NoText THEN t ELSE @]
                ELSE l
  IN
  /\ member' = [member EXCEPT ![f] = @ \cup {p}]
  /\ text' = [text EXCEPT ![f] = [q \in Projects |->
       IF q \in member'[f] /\ ~kept(q) THEN t ELSE @[q]]]
  /\ stamp' = [stamp EXCEPT ![f] = [q \in Projects |->
       IF q \in member'[f] /\ ~kept(q) THEN revision + 1 ELSE @[q]]]
  /\ source' = [source EXCEPT ![f] = IF @ = 0 THEN revision + 1 ELSE @]
  /\ layers' = IF f \notin layered THEN layers
               ELSE IF l.overlay # NoText
               THEN [layers EXCEPT ![f] = [joined EXCEPT !.overlay = t]]
               ELSE [layers EXCEPT ![f] = [joined EXCEPT !.backing = t]]
  /\ revision' = IF attaching \/ changed THEN revision + 1 ELSE revision
  /\ UNCHANGED <<live, retired, default, layered, epoch>>

-----------------------------------------------------------------------------
(* The calls.  Every caller names a project that is live.                   *)

CreateProject(p) ==
  /\ p \notin live \cup retired
  /\ live' = live \cup {p}
  /\ revision' = revision + 1
  /\ UNCHANGED <<retired, default, source, member, text, stamp, layered, layers, epoch,
                 generation, published>>
  /\ Keep({}) /\ Observe(reads)

SetBacking(p, f, t) ==
  /\ Stage([g \in {f} |-> WithBacking(LayersFor(f), p, t)], {}, {}, FALSE)
  /\ UNCHANGED <<generation, published>>
  /\ Keep({}) /\ Observe(reads)

OpenOverlay(p, f, t) ==
  /\ Stage([g \in {f} |-> WithOverlay(LayersFor(f), p, t)], {}, {}, FALSE)
  /\ UNCHANGED <<generation, published>>
  /\ Keep({}) /\ Observe(reads)

(* Mutant: the same text in the same overlay changes nothing.               *)
ReplaceOverlay_Unstamped(p, f, t) ==
  /\ Stage([g \in {f} |-> WithOverlay(LayersFor(f), p, t)], {}, {}, FALSE)
  /\ UNCHANGED <<generation, published>>
  /\ Keep({<<f, p>>}) /\ Observe(reads)

(* A new attachment, even with the text there was.                          *)
ReplaceOverlay(p, f, t) ==
  /\ Stage([g \in {f} |-> WithOverlay(LayersFor(f), p, t)], {}, {<<f, p>>}, FALSE)
  /\ UNCHANGED <<generation, published>>
  /\ Keep({<<f, p>>}) /\ Observe(reads)

CloseOverlay(p, f) ==
  /\ p \in LayersFor(f).owners
  /\ Stage([g \in {f} |-> WithoutOverlay(LayersFor(f), p)], {}, {}, FALSE)
  /\ UNCHANGED <<generation, published>>
  /\ Keep({}) /\ Observe(reads)

(* A host writes what an editor holds to an overlay of its project only.    *)
Write(p, f, t) ==
  /\ t \in Unsaved => p \in layers[f].owners
  /\ ApplyProjectChange(p, f, t)
  /\ UNCHANGED <<generation, published>>
  /\ Keep({}) /\ Observe(reads)

(* Mutant: what shows moves, as the contents of the destination.            *)
Moved_AsShown(l, before, after) ==
  LET move(ps) == IF before \in ps THEN (ps \ {before}) \cup {after} ELSE ps IN
  [NoLayers EXCEPT !.backing = Effective(l), !.backers = move(Holders(l))]

(* Layers move with their source, to the owner of the destination.          *)
Moved(l, before, after) ==
  LET move(ps) == IF before \in ps THEN (ps \ {before}) \cup {after} ELSE ps IN
  [l EXCEPT !.backers = move(@), !.owners = move(@)]

RenameSourcesBetween(r) ==
  /\ \A f \in r.news : r.after[f] \in live
  /\ Stage([f \in r.news |-> Moved(LayersFor(r.from[f]), r.before[f], r.after[f])],
           r.olds, {}, FALSE)
  /\ UNCHANGED <<generation, published>>
  /\ Keep({}) /\ Observe(reads)

RemoveFilesIn(p, fs) ==
  /\ \E f \in fs : p \in member[f]
  /\ Rebuild([f \in Paths |-> IF f \in fs /\ p \in member[f] THEN {p} ELSE {}])
  /\ UNCHANGED <<live, retired, default, generation, published>>
  /\ Keep({}) /\ Observe(reads)

(* A removed default project is replaced at once.                           *)
RemoveProject(p, successor) ==
  /\ p \in live
  /\ IF p = default THEN successor \notin live \cup retired ELSE successor = default
  /\ Rebuild([f \in Paths |-> {p}])
  /\ live' = (live \ {p}) \cup {successor}
  /\ retired' = retired \cup {p}
  /\ default' = successor
  /\ generation' = [generation EXCEPT ![p] = 0]
  /\ published' = [published EXCEPT ![p] = 0]
  /\ Keep({}) /\ Observe(reads)

-----------------------------------------------------------------------------
(* Tokens.                                                                  *)

(* source_version: a client takes the version of a source.                  *)
TakeVersion(p, f) ==
  /\ p \in member[f]
  /\ held' = [path |-> f, project |-> p, source |-> source[f], revision |-> stamp[f][p],
              text |-> text[f][p], undisturbed |-> TRUE]
  /\ UNCHANGED <<storage, generation, published, reads>>

(* check_version                                                            *)
CheckVersion(v) ==
  /\ source[v.path] = v.source
  /\ v.project \in member[v.path]
  /\ stamp[v.path][v.project] = v.revision

(* edit_source and replace_source return the next version.                  *)
EditSource(t) ==
  LET f == held.path
      p == held.project
  IN
  /\ CheckVersion(held)
  /\ t \in Unsaved => p \in layers[f].owners
  /\ ApplyProjectChange(p, f, t)
  /\ UNCHANGED <<generation, published>>
  /\ held' = [held EXCEPT !.revision = stamp'[f][p], !.text = t, !.undisturbed = TRUE]
  /\ Observe(reads)

BeginExternalRefresh(p) ==
  /\ generation' = [generation EXCEPT ![p] = @ + 1]
  /\ reads' = reads \cup {[project |-> p, generation |-> generation[p] + 1, epoch |-> epoch,
                            gone |-> {}]}
  /\ UNCHANGED <<storage, published, held>>

(* Mutant: only a later acquisition of the project supersedes one.          *)
Accepted_AnyEpoch(r) ==
  /\ r.project \in live
  /\ generation[r.project] = r.generation
  /\ published[r.project] < r.generation

Accepted(r) ==
  /\ r.project \in live
  /\ generation[r.project] = r.generation
  /\ published[r.project] < r.generation
  /\ epoch = r.epoch

(* Files that were read are published, each with its contents or none.      *)
ApplyExternalInputs(r, files) ==
  /\ Accepted(r)
  /\ Stage([f \in DOMAIN files |-> WithBacking(LayersFor(f), r.project, files[f])],
           {}, {}, TRUE)
  /\ published' = [published EXCEPT ![r.project] = r.generation]
  /\ UNCHANGED generation
  /\ Keep({}) /\ Observe(reads)

Call(p) ==
  \/ \E f \in Paths :
       \/ \E t \in Disk \cup {NoText} : SetBacking(p, f, t)
       \/ \E t \in Texts : OpenOverlay(p, f, t) \/ ReplaceOverlay(p, f, t)
       \/ CloseOverlay(p, f)
       \/ \E t \in Texts : Write(p, f, t)
       \/ TakeVersion(p, f)
  \/ \E fs \in SUBSET Paths : RemoveFilesIn(p, fs)
  \/ \E successor \in Projects : RemoveProject(p, successor)
  \/ generation[p] < MaxRefreshes /\ BeginExternalRefresh(p)

Next ==
  /\ revision < MaxRevision
  /\ \/ \E p \in live : Call(p)
     \/ \E p \in Projects : CreateProject(p)
     \/ \E r \in Renames : RenameSourcesBetween(r)
     \/ \E t \in Texts : EditSource(t)
     \/ \E r \in reads : \E fs \in SUBSET Paths : \E files \in [fs -> Disk \cup {NoText}] :
          ApplyExternalInputs(r, files)

Spec == Init /\ [][Next]_vars

-----------------------------------------------------------------------------
LayerSets ==
  [backing : Texts \cup {NoText}, backers : SUBSET Projects,
   overlay : Texts \cup {NoText}, owners : SUBSET Projects]
Tokens == [project : Projects, generation : Nat, epoch : Nat, gone : SUBSET Paths]
Versions == [path : Paths, project : Projects, source : Nat, revision : Nat,
             text : Texts \cup {NoText}, undisturbed : BOOLEAN]

(* The state of every variable.                                             *)
TypeOK ==
  /\ live \subseteq Projects /\ retired \subseteq Projects /\ default \in live
  /\ source \in [Paths -> Nat]
  /\ member \in [Paths -> SUBSET Projects]
  /\ text \in [Paths -> [Projects -> Texts \cup {NoText}]]
  /\ stamp \in [Paths -> [Projects -> Nat]]
  /\ layered \subseteq Paths
  /\ layers \in [Paths -> LayerSets]
  /\ revision \in Nat /\ epoch \in Nat
  /\ generation \in [Projects -> Nat] /\ published \in [Projects -> Nat]
  /\ reads \subseteq Tokens
  /\ held \in Versions

(* "Host-supplied backing contents and editor overlays share one physical   *)
(* source": the projects that hold a layer are those with an instance, a    *)
(* layer has contents as long as a project holds it, and every instance     *)
(* shows the same text, that of the overlay where there is one.             *)
LayersDescribeInstances ==
  /\ \A f \in layered :
       /\ member[f] = Holders(layers[f]) /\ member[f] # {}
       /\ layers[f].backing = NoText <=> layers[f].backers = {}
       /\ layers[f].overlay = NoText <=> layers[f].owners = {}
       /\ \A p \in member[f] : text[f][p] = Effective(layers[f])
  /\ \A f \in Paths : \A p, q \in member[f] : text[f][p] = text[f][q]

(* "Move both layers without ever promoting an unsaved overlay to backing": *)
(* what only an editor has is never what a source falls back to.            *)
UnsavedIsNeverBacking == \A f \in Paths : layers[f].backing \notin Unsaved

(* "An optimistic-write precondition for a source's project membership and  *)
(* bytes": a version that is still accepted stands for the text that was    *)
(* read, in a membership and an attachment that were never given up since,  *)
(* even if the same text came back.                                         *)
StaleVersionsFail ==
  CheckVersion(held) => held.undisturbed /\ text[held.path][held.project] = held.text

(* "Unrelated writes preserve this token": only a change of that source in  *)
(* that project costs a client its version, not a rebuild of the storage.   *)
UnrelatedWritesKeepVersions == held.undisturbed => CheckVersion(held)

(* "File acquisitions also belong to a storage lifetime, so removal cannot  *)
(* revive an old membership": an acquisition that is still accepted began   *)
(* after every removal of a source from its project.                        *)
RemovalIsFinal == \A r \in reads : Accepted(r) => r.gone = {}
=============================================================================
