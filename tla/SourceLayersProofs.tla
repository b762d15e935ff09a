------------------------- MODULE SourceLayersProofs -------------------------
(***************************************************************************)
(* What holds of SourceLayers for every set of paths, projects and texts,  *)
(* every batch of moves and every bound.  The invariant speaks of one      *)
(* source at a time, for every call of the writer is a staging of layers,  *)
(* a rebuild without some memberships, or a plain change of one source.    *)
(***************************************************************************)
EXTENDS SourceLayers, TLAPS

(* A layer has contents as long as a project holds it, and no unsaved text  *)
(* is in the backing layer.                                                 *)
WellFormed(l) ==
  /\ l \in LayerSets
  /\ l.backing = NoText <=> l.backers = {}
  /\ l.overlay = NoText <=> l.owners = {}
  /\ l.backing \notin Unsaved

(* A source: all instances show one text, which is that of the layers, or,  *)
(* without layers, a text that is not unsaved.                              *)
SourceOK(f) ==
  /\ \A p \in member[f] : text[f][p] \in Texts
  /\ \A p, q \in member[f] : text[f][p] = text[f][q]
  /\ f \in layered => /\ WellFormed(layers[f])
                      /\ member[f] = Holders(layers[f])
                      /\ member[f] # {}
                      /\ \A p \in member[f] : text[f][p] = Effective(layers[f])
  /\ f \notin layered => /\ layers[f] = NoLayers
                         /\ \A p \in member[f] : text[f][p] \notin Unsaved

SourcesOK == \A f \in Paths : SourceOK(f)

-----------------------------------------------------------------------------
(* Layers by themselves.                                                    *)

LEMMA NoLayersOK == WellFormed(NoLayers) /\ Holders(NoLayers) = {} /\ Effective(NoLayers) = NoText
BY SourceLayersAssumption DEF WellFormed, NoLayers, LayerSets, Holders, Effective, Texts

(* Somebody holds a layer if and only if there is a text to show.           *)
LEMMA EffectiveOK ==
  ASSUME NEW l, WellFormed(l)
  PROVE  /\ Effective(l) \in Texts \cup {NoText}
         /\ Effective(l) = NoText <=> Holders(l) = {}
         /\ Effective(l) \in Unsaved => l.owners # {}
         /\ Holders(l) \subseteq Projects
<1>1. l.backing \in Texts \cup {NoText} /\ l.overlay \in Texts \cup {NoText}
      /\ l.backers \subseteq Projects /\ l.owners \subseteq Projects
  BY DEF WellFormed, LayerSets
<1> QED
  BY <1>1, SourceLayersAssumption DEF WellFormed, Effective, Holders, Texts

LEMMA WithBackingOK ==
  ASSUME NEW l, WellFormed(l), NEW p \in Projects, NEW t \in Disk \cup {NoText}
  PROVE  WellFormed(WithBacking(l, p, t))
<1>1. l \in LayerSets
  BY DEF WellFormed
<1>2. CASE t # NoText
  <2>1. t \in Disk /\ t \in Texts /\ t \notin Unsaved
    BY <1>2, SourceLayersAssumption DEF Texts
  <2> QED
    BY <1>1, <1>2, <2>1, SourceLayersAssumption DEF WithBacking, WellFormed, LayerSets
<1>3. CASE t = NoText
  <2>1. NoText \notin Unsaved
    BY SourceLayersAssumption DEF Texts
  <2> QED
    BY <1>1, <1>3, <2>1 DEF WithBacking, WellFormed, LayerSets
<1> QED
  BY <1>2, <1>3

LEMMA WithOverlayOK ==
  ASSUME NEW l, WellFormed(l), NEW p \in Projects, NEW t \in Texts
  PROVE  WellFormed(WithOverlay(l, p, t))
BY SourceLayersAssumption DEF WithOverlay, WellFormed, LayerSets

LEMMA WithoutOverlayOK ==
  ASSUME NEW l, WellFormed(l), NEW p \in Projects
  PROVE  WellFormed(WithoutOverlay(l, p))
BY DEF WithoutOverlay, WellFormed, LayerSets

LEMMA WithoutOK ==
  ASSUME NEW l, WellFormed(l), NEW gone \in SUBSET Projects
  PROVE  WellFormed(Without(l, gone)) /\ Holders(Without(l, gone)) = Holders(l) \ gone
<1>1. NoText \notin Unsaved
  BY SourceLayersAssumption DEF Texts
<1> QED
  BY <1>1 DEF Without, WellFormed, LayerSets, Holders

LEMMA MovedOK ==
  ASSUME NEW l, WellFormed(l), NEW before \in Projects, NEW after \in Projects
  PROVE  WellFormed(Moved(l, before, after))
BY DEF Moved, WellFormed, LayerSets

LEMMA SharedTextIs ==
  ASSUME NEW f \in Paths, SourceOK(f), NEW p \in member[f]
  PROVE  SharedText(f) = text[f][p]
BY DEF SharedText, SourceOK

(* The layers that a call starts from, whether there are layers yet or not. *)
LEMMA LayersForOK ==
  ASSUME TypeOK, NEW f \in Paths, SourceOK(f)
  PROVE  WellFormed(LayersFor(f))
<1>1. CASE f \in layered
  BY <1>1 DEF LayersFor, SourceOK
<1>2. CASE f \notin layered /\ member[f] = {}
  BY <1>2, NoLayersOK DEF LayersFor
<1>3. CASE f \notin layered /\ member[f] # {}
  <2>1. PICK p \in member[f] : SharedText(f) = text[f][p]
    BY <1>3, SharedTextIs
  <2>2. SharedText(f) \in Texts /\ SharedText(f) \notin Unsaved /\ member[f] \in SUBSET Projects
    BY <1>3, <2>1 DEF SourceOK, TypeOK
  <2>3. SharedText(f) # NoText
    BY <2>2, SourceLayersAssumption
  <2>4. LayersFor(f) = [backing |-> SharedText(f), backers |-> member[f],
                        overlay |-> NoText, owners |-> {}]
    BY <1>3 DEF LayersFor, NoLayers
  <2> QED
    BY <1>3, <2>2, <2>3, <2>4 DEF WellFormed, LayerSets
<1> QED
  BY <1>1, <1>2, <1>3

-----------------------------------------------------------------------------
(* What a write does to one source, and to what clients know of it.         *)

(* Nothing that concerns the instance of a project happened.                *)
Undisturbed(f, p, replaced) ==
  /\ source'[f] = source[f] /\ p \in member'[f]
  /\ text'[f][p] = text[f][p]
  /\ p \in layers'[f].owners <=> p \in layers[f].owners
  /\ <<f, p>> \notin replaced

(* An instance keeps its stamp if and only if nothing happened to it; a new *)
(* source and a new stamp are those of a new revision.                      *)
Stamped(f, replaced) ==
  \A p \in member'[f] :
    \/ p \in member[f] /\ Undisturbed(f, p, replaced) /\ stamp'[f][p] = stamp[f][p]
    \/ /\ p \notin member[f] \/ ~Undisturbed(f, p, replaced)
       /\ stamp'[f][p] = revision + 1 /\ revision' = revision + 1

Incarnation(f) ==
  \/ source'[f] = source[f] /\ (member[f] = {} <=> member'[f] = {})
  \/ source'[f] = 0 /\ member'[f] = {}
  \/ source'[f] = revision + 1 /\ revision' = revision + 1 /\ member'[f] # {}

LossCounted(f) == ~(member[f] \subseteq member'[f]) => epoch' = epoch + 1

Instance(f) ==
  /\ source'[f] \in Nat
  /\ member'[f] \in SUBSET Projects
  /\ text'[f] \in [Projects -> Texts \cup {NoText}]
  /\ stamp'[f] \in [Projects -> Nat]
  /\ layers'[f] \in LayerSets

Written(f, replaced) ==
  SourceOK(f)' /\ Stamped(f, replaced) /\ Incarnation(f) /\ LossCounted(f) /\ Instance(f)

(* Stamps and incarnations were given out before the next revision.         *)
StampsOK ==
  \A f \in Paths : /\ source[f] <= revision
                   /\ source[f] = 0 <=> member[f] = {}
                   /\ \A p \in member[f] : stamp[f][p] <= revision

StorageOK == TypeOK /\ SourcesOK /\ StampsOK

(* The layers staged for a source, or what stays.                           *)
LEMMA StageWrites ==
  ASSUME StorageOK, NEW new, DOMAIN new \subseteq Paths,
         \A g \in DOMAIN new : WellFormed(new[g]),
         NEW cleared \in SUBSET Paths, NEW replaced, NEW counted \in BOOLEAN,
         Stage(new, cleared, replaced, counted), NEW f \in Paths
  PROVE  Written(f, replaced)
<1> DEFINE same == f \in layered \ cleared /\ layers[f] = new[f]
           touched == f \in DOMAIN new /\ ~same
           filled == touched /\ Effective(new[f]) # NoText
           emptied == ~filled /\ (touched \/ f \in cleared)
           had == IF f \in cleared THEN {} ELSE member[f]
           kept(p) == p \in had /\ SharedText(f) = Effective(new[f])
           moved(p) == p \in new[f].owners <=> p \notin (IF f \in cleared THEN NoLayers ELSE layers[f]).owners
<1>1. /\ member[f] \in SUBSET Projects /\ revision \in Nat /\ source[f] \in Nat
      /\ stamp[f] \in [Projects -> Nat] /\ text[f] \in [Projects -> Texts \cup {NoText}]
      /\ layers[f] \in LayerSets
      /\ source[f] <= revision
  BY DEF StorageOK, TypeOK, StampsOK
<1>2. SourceOK(f)
  BY DEF StorageOK, SourcesOK
<1>3. CASE filled
  <2>1. f \in DOMAIN new /\ WellFormed(new[f]) /\ Effective(new[f]) # NoText
    BY <1>3
  <2>2. member'[f] = Holders(new[f]) /\ f \in layered' /\ layers'[f] = new[f]
        /\ revision' = revision + 1
    BY <1>3 DEF Stage
  <2>3. /\ source'[f] = IF member'[f] = {} THEN 0 ELSE IF had = {} THEN revision + 1 ELSE source[f]
        /\ \A p \in Projects : text'[f][p] =
             IF p \notin member'[f] THEN NoText
             ELSE IF ~kept(p) THEN Effective(new[f]) ELSE text[f][p]
        /\ \A p \in Projects : stamp'[f][p] =
             IF p \notin member'[f] THEN 0
             ELSE IF ~kept(p) \/ moved(p) \/ <<f, p>> \in replaced THEN revision + 1
             ELSE stamp[f][p]
    BY <1>3 DEF Stage
  <2>4. /\ member'[f] \in SUBSET Projects /\ member'[f] # {} /\ Effective(new[f]) \in Texts
    BY <2>1, <2>2, EffectiveOK DEF Texts
  <2>5. \A p \in member'[f] : text'[f][p] = Effective(new[f])
    <3> SUFFICES ASSUME NEW p \in member'[f] PROVE text'[f][p] = Effective(new[f])
      OBVIOUS
    <3>1. kept(p) => text[f][p] = Effective(new[f])
      BY <1>2, SharedTextIs
    <3> QED
      BY <2>3, <2>4, <3>1
  <2>6. SourceOK(f)'
    BY <2>1, <2>2, <2>4, <2>5 DEF SourceOK
  <2>7. Incarnation(f)
    BY <2>2, <2>3, <2>4 DEF Incarnation
  <2>8. LossCounted(f)
    <3>1. CASE f \in cleared
      BY <3>1 DEF LossCounted, Stage
    <3>2. CASE f \notin cleared
      BY <1>3, <2>2, <3>2 DEF LossCounted, Stage
    <3> QED
      BY <3>1, <3>2
  <2>9. Stamped(f, replaced)
    <3> SUFFICES ASSUME NEW p \in member'[f]
                 PROVE  \/ /\ p \in member[f] /\ Undisturbed(f, p, replaced)
                           /\ stamp'[f][p] = stamp[f][p]
                        \/ /\ p \notin member[f] \/ ~Undisturbed(f, p, replaced)
                           /\ stamp'[f][p] = revision + 1
      BY <2>2 DEF Stamped
    <3>1. p \in Projects
      BY <2>4
    <3>2. CASE kept(p) /\ ~moved(p) /\ <<f, p>> \notin replaced
      <4>1. f \notin cleared /\ p \in member[f]
        BY <3>2
      <4>2. source'[f] = source[f] /\ stamp'[f][p] = stamp[f][p] /\ text'[f][p] = text[f][p]
        BY <2>3, <2>4, <3>1, <3>2, <4>1
      <4> QED
        BY <2>2, <3>2, <4>1, <4>2 DEF Undisturbed
    <3>3. CASE ~kept(p) \/ moved(p) \/ <<f, p>> \in replaced
      <4>1. stamp'[f][p] = revision + 1
        BY <2>3, <3>1, <3>3
      <4>2. CASE had = {}
        BY <1>1, <2>3, <2>4, <4>1, <4>2 DEF Undisturbed
      <4>3. CASE had # {}
        <5>1. f \notin cleared /\ had = member[f]
          BY <4>3
        <5>2. ~kept(p) /\ p \in member[f] => text'[f][p] # text[f][p]
          BY <1>2, <2>5, <5>1, SharedTextIs
        <5>3. moved(p) => ~(p \in layers'[f].owners <=> p \in layers[f].owners)
          BY <2>2, <5>1
        <5> QED
          BY <3>3, <4>1, <5>2, <5>3 DEF Undisturbed
      <4> QED
        BY <4>2, <4>3
    <3> QED
      BY <3>2, <3>3
  <2>10. Instance(f)
    <3>1. layers'[f] \in LayerSets /\ source'[f] \in Nat
      BY <1>1, <2>1, <2>2, <2>3 DEF WellFormed
    <3>2. text'[f] \in [Projects -> Texts \cup {NoText}]
      <4>1. text'[f] = [p \in Projects |-> text'[f][p]]
        BY DEF Stage
      <4>2. \A p \in Projects : text'[f][p] \in Texts \cup {NoText}
        BY <2>3, <2>4, <2>5
      <4> QED
        BY <4>1, <4>2
    <3>3. stamp'[f] \in [Projects -> Nat]
      <4>1. stamp'[f] = [p \in Projects |-> stamp'[f][p]]
        BY DEF Stage
      <4>2. \A p \in Projects : stamp'[f][p] \in Nat
        <5> SUFFICES ASSUME NEW p \in Projects PROVE stamp'[f][p] \in Nat
          OBVIOUS
        <5>1. stamp'[f][p] \in {0, revision + 1, stamp[f][p]}
          BY <2>3
        <5> QED
          BY <1>1, <5>1
      <4> QED
        BY <4>1, <4>2
    <3> QED
      BY <2>4, <3>1, <3>2, <3>3 DEF Instance
  <2> QED
    BY <2>6, <2>7, <2>8, <2>9, <2>10 DEF Written
<1>4. CASE emptied
  <2>1. member'[f] = {} /\ f \notin layered' /\ layers'[f] = NoLayers /\ source'[f] = 0
    BY <1>4 DEF Stage
  <2>2. text'[f] = [p \in Projects |-> NoText] /\ stamp'[f] = [p \in Projects |-> 0]
    BY <2>1 DEF Stage
  <2>3. SourceOK(f)' /\ Stamped(f, replaced) /\ Incarnation(f)
    BY <2>1 DEF SourceOK, Stamped, Incarnation
  <2>4. LossCounted(f)
    <3>1. CASE f \in cleared
      BY <3>1 DEF LossCounted, Stage
    <3>2. CASE f \notin cleared
      <4>1. touched /\ Holders(new[f]) = {}
        BY <1>4, <3>2, EffectiveOK
      <4> QED
        BY <3>2, <4>1 DEF LossCounted, Stage
    <3> QED
      BY <3>1, <3>2
  <2>5. Instance(f)
    BY <2>1, <2>2, NoLayersOK DEF Instance, WellFormed
  <2> QED
    BY <2>3, <2>4, <2>5 DEF Written
<1>5. CASE ~filled /\ ~emptied
  <2>1. f \notin cleared /\ member'[f] = member[f] /\ (f \in layered' <=> f \in layered)
        /\ layers'[f] = layers[f]
    BY <1>5 DEF Stage
  <2>2. source'[f] = source[f]
    BY <1>5, <2>1 DEF Stage, StorageOK, StampsOK
  <2>3. /\ text'[f] = [p \in Projects |-> IF p \notin member'[f] THEN NoText ELSE text[f][p]]
        /\ stamp'[f] = [p \in Projects |-> IF p \notin member'[f] THEN 0
                                          ELSE IF <<f, p>> \in replaced THEN revision + 1
                                          ELSE stamp[f][p]]
    BY <1>5 DEF Stage
  <2>4. \A p \in member'[f] : text'[f][p] = text[f][p]
    BY <1>1, <2>1, <2>3
  <2>5. SourceOK(f)'
    BY <1>2, <2>1, <2>4 DEF SourceOK
  <2>6. replaced # {} => revision' = revision + 1
    BY DEF Stage
  <2>7. Stamped(f, replaced)
    BY <1>1, <2>1, <2>2, <2>3, <2>4, <2>6 DEF Stamped, Undisturbed
  <2>8. Incarnation(f) /\ LossCounted(f)
    BY <2>1, <2>2 DEF Incarnation, LossCounted
  <2>9. Instance(f)
    BY <1>1, <2>1, <2>2, <2>3 DEF Instance
  <2> QED
    BY <2>5, <2>7, <2>8, <2>9 DEF Written
<1> QED
  BY <1>3, <1>4, <1>5

(* A rebuild keeps the memberships that are not gone.                       *)
LEMMA RebuildWrites ==
  ASSUME StorageOK, NEW gone \in [Paths -> SUBSET Projects], Rebuild(gone), NEW f \in Paths
  PROVE  Written(f, {})
<1> DEFINE left == Without(layers[f], gone[f])
           shown(p) == IF Effective(left) # NoText THEN Effective(left) ELSE text[f][p]
<1>1. /\ member[f] \in SUBSET Projects /\ revision \in Nat /\ source[f] \in Nat
      /\ stamp[f] \in [Projects -> Nat] /\ text[f] \in [Projects -> Texts \cup {NoText}]
      /\ gone[f] \in SUBSET Projects
  BY DEF StorageOK, TypeOK
<1>2. SourceOK(f)
  BY DEF StorageOK, SourcesOK
<1>3. /\ member'[f] = member[f] \ gone[f]
      /\ text'[f] = [p \in Projects |-> IF p \notin member'[f] THEN NoText ELSE shown(p)]
      /\ stamp'[f] = [p \in Projects |->
           IF p \notin member'[f] THEN 0
           ELSE IF shown(p) # text[f][p] THEN revision + 1 ELSE stamp[f][p]]
      /\ source'[f] = IF member'[f] = {} THEN 0 ELSE source[f]
      /\ f \in layered' <=> f \in layered /\ Effective(left) # NoText
      /\ layers'[f] = IF f \in layered' THEN left ELSE NoLayers
      /\ revision' = revision + 1 /\ epoch' = epoch + 1
  BY DEF Rebuild
<1>4. member'[f] \in SUBSET Projects /\ member'[f] \subseteq member[f]
  BY <1>1, <1>3
<1>5. WellFormed(left) /\ Holders(left) = Holders(layers[f]) \ gone[f]
      /\ left.owners = layers[f].owners \ gone[f]
  <2>1. WellFormed(layers[f])
    BY <1>2, NoLayersOK DEF SourceOK
  <2> QED
    BY <1>1, <2>1, WithoutOK DEF Without
<1>6. \A p \in member'[f] : p \in layers'[f].owners <=> p \in layers[f].owners
  <2>1. CASE f \in layered'
    BY <1>3, <1>5, <2>1
  <2>2. CASE f \notin layered /\ f \notin layered'
    BY <1>2, <1>3, <2>2 DEF SourceOK
  <2>3. CASE f \in layered /\ f \notin layered'
    <3>1. Holders(left) = {}
      BY <1>3, <1>5, <2>3, EffectiveOK
    <3>2. member'[f] = {}
      BY <1>2, <1>3, <1>5, <2>3, <3>1 DEF SourceOK
    <3> QED
      BY <3>2
  <2> QED
    BY <1>3, <2>1, <2>2, <2>3
<1>7. \A p \in member'[f] : text'[f][p] = shown(p) /\ shown(p) \in Texts
  <2>1. \A p \in member'[f] : text[f][p] \in Texts
    BY <1>2, <1>4 DEF SourceOK
  <2>2. Effective(left) # NoText => Effective(left) \in Texts
    BY <1>5, EffectiveOK
  <2> QED
    BY <1>3, <1>4, <2>1, <2>2
<1> HIDE DEF left
<1>8. SourceOK(f)'
  <2>1. CASE f \in layered'
    <3>1. \A p \in member'[f] : text'[f][p] = Effective(left)
      BY <1>3, <1>7, <2>1
    <3>2. member'[f] = Holders(left) /\ layers'[f] = left /\ member'[f] # {}
      BY <1>2, <1>3, <1>5, <2>1, EffectiveOK DEF SourceOK
    <3>3. Effective(left) \in Texts
      BY <1>3, <1>5, <2>1, EffectiveOK
    <3> QED
      BY <1>5, <2>1, <3>1, <3>2, <3>3 DEF SourceOK
  <2>2. CASE f \notin layered' /\ f \in layered
    <3>1. Holders(left) = {} /\ member'[f] = {}
      BY <1>2, <1>3, <1>5, <2>2, EffectiveOK DEF SourceOK
    <3> QED
      BY <1>3, <2>2, <3>1 DEF SourceOK
  <2>3. CASE f \notin layered' /\ f \notin layered
    <3>1. Holders(left) = {} /\ Effective(left) = NoText
      BY <1>2, <1>5, <2>3, EffectiveOK, NoLayersOK DEF SourceOK
    <3>2. \A p \in member'[f] : text'[f][p] = text[f][p]
      BY <1>7, <3>1
    <3> QED
      BY <1>2, <1>3, <1>4, <2>3, <3>2 DEF SourceOK
  <2> QED
    BY <1>3, <2>1, <2>2, <2>3
<1>9. Stamped(f, {})
  <2> SUFFICES ASSUME NEW p \in member'[f]
               PROVE  \/ /\ p \in member[f] /\ Undisturbed(f, p, {})
                         /\ stamp'[f][p] = stamp[f][p]
                      \/ /\ p \notin member[f] \/ ~Undisturbed(f, p, {})
                         /\ stamp'[f][p] = revision + 1
    BY <1>3 DEF Stamped
  <2>1. source'[f] = source[f] /\ p \in member[f] /\ p \in Projects
    BY <1>3, <1>4
  <2>2. stamp'[f][p] = IF text'[f][p] # text[f][p] THEN revision + 1 ELSE stamp[f][p]
    BY <1>3, <1>7, <2>1
  <2>3. <<f, p>> \notin {}
    OBVIOUS
  <2> QED
    BY <1>6, <2>1, <2>2, <2>3 DEF Undisturbed
<1>10. Incarnation(f) /\ LossCounted(f)
  BY <1>3, <1>4 DEF Incarnation, LossCounted
<1>11. Instance(f)
  <2>1. layers'[f] \in LayerSets /\ source'[f] \in Nat
    BY <1>1, <1>3, <1>5, NoLayersOK DEF WellFormed
  <2>2. text'[f] \in [Projects -> Texts \cup {NoText}]
    BY <1>3, <1>7
  <2>3. stamp'[f] \in [Projects -> Nat]
    BY <1>1, <1>3
  <2> QED
    BY <1>4, <2>1, <2>2, <2>3 DEF Instance
<1> QED
  BY <1>8, <1>9, <1>10, <1>11 DEF Written

(* The plain writer changes one source.                                     *)
LEMMA PlainWrites ==
  ASSUME StorageOK, NEW p \in Projects, NEW g \in Paths, NEW t \in Texts,
         t \in Unsaved => p \in layers[g].owners,
         ApplyProjectChange(p, g, t), NEW f \in Paths
  PROVE  Written(f, {})
<1> DEFINE changed == member[g] # {} /\ SharedText(g) # t
           kept(q) == q \in member[g] /\ ~changed
           attaching == p \notin member[g]
<1>1. /\ member \in [Paths -> SUBSET Projects] /\ revision \in Nat /\ source \in [Paths -> Nat]
      /\ stamp \in [Paths -> [Projects -> Nat]]
      /\ text \in [Paths -> [Projects -> Texts \cup {NoText}]]
      /\ layers \in [Paths -> LayerSets]
  BY DEF StorageOK, TypeOK
<1>2. SourceOK(f) /\ source[f] <= revision /\ (source[f] = 0 <=> member[f] = {})
  BY DEF StorageOK, SourcesOK, StampsOK
<1>3. CASE f # g
  <2>1. member'[f] = member[f] /\ text'[f] = text[f] /\ stamp'[f] = stamp[f]
        /\ source'[f] = source[f] /\ layers'[f] = layers[f] /\ layered' = layered
    BY <1>1, <1>3 DEF ApplyProjectChange
  <2>2. SourceOK(f)'
    BY <1>2, <2>1 DEF SourceOK
  <2>3. Stamped(f, {}) /\ Incarnation(f) /\ LossCounted(f)
    BY <2>1 DEF Stamped, Undisturbed, Incarnation, LossCounted
  <2>4. Instance(f)
    BY <1>1, <2>1 DEF Instance
  <2> QED
    BY <2>2, <2>3, <2>4 DEF Written
<1>4. CASE f = g
  <2>1. /\ member'[f] = member[f] \cup {p}
        /\ text'[f] = [q \in Projects |-> IF q \in member'[f] /\ ~kept(q) THEN t ELSE text[f][q]]
        /\ stamp'[f] = [q \in Projects |->
             IF q \in member'[f] /\ ~kept(q) THEN revision + 1 ELSE stamp[f][q]]
        /\ source'[f] = IF source[f] = 0 THEN revision + 1 ELSE source[f]
        /\ layered' = layered
        /\ revision' = IF attaching \/ changed THEN revision + 1 ELSE revision
    BY <1>1, <1>4 DEF ApplyProjectChange
  <2>2. /\ member'[f] \in SUBSET Projects /\ member'[f] # {}
        /\ \A q \in member'[f] : ~kept(q) => revision' = revision + 1
    BY <1>1, <1>4, <2>1
  <2>3. \A q \in member[f] : SharedText(f) = text[f][q]
    BY <1>2, SharedTextIs
  <2>4. \A q \in member'[f] : text'[f][q] = t
    <3> SUFFICES ASSUME NEW q \in member'[f] PROVE text'[f][q] = t
      OBVIOUS
    <3>1. kept(q) => text[f][q] = t
      BY <1>4, <2>3
    <3> QED
      BY <2>1, <2>2, <3>1
  <2>5. f \notin layered => layers'[f] = layers[f]
    BY <1>4 DEF ApplyProjectChange
  <2>6. f \in layered => /\ WellFormed(layers'[f])
                         /\ Holders(layers'[f]) = member'[f] /\ Effective(layers'[f]) = t
                         /\ layers'[f].owners = layers[f].owners
    <3> SUFFICES ASSUME f \in layered
                 PROVE  /\ WellFormed(layers'[f])
                        /\ Holders(layers'[f]) = member'[f] /\ Effective(layers'[f]) = t
                        /\ layers'[f].owners = layers[f].owners
      OBVIOUS
    <3> DEFINE l == layers[f]
               joined == IF attaching
                         THEN [l EXCEPT !.backers = @ \cup {p},
                                        !.backing = IF @ = NoText THEN t ELSE @]
                         ELSE l
    <3>1. WellFormed(l) /\ l \in LayerSets /\ member[f] = l.backers \cup l.owners
      BY <1>2 DEF SourceOK, WellFormed, Holders
    <3>2. t # NoText /\ NoText \notin Unsaved /\ (attaching \/ l.owners = {} => t \notin Unsaved)
      BY <1>4, <3>1, SourceLayersAssumption DEF Texts
    <3>3. WellFormed(joined) /\ joined \in LayerSets
          /\ joined.owners = l.owners /\ joined.overlay = l.overlay
          /\ joined.backers \cup joined.owners = member'[f]
      <4>1. CASE attaching
        BY <1>4, <2>1, <3>1, <3>2, <4>1 DEF WellFormed, LayerSets
      <4>2. CASE ~attaching
        BY <1>4, <2>1, <3>1, <4>2
      <4> QED
        BY <4>1, <4>2
    <3>4. layers'[f] = IF l.overlay # NoText THEN [joined EXCEPT !.overlay = t]
                       ELSE [joined EXCEPT !.backing = t]
      BY <1>1, <1>4 DEF ApplyProjectChange
    <3> HIDE DEF l, joined
    <3>5. CASE l.overlay # NoText
      <4>1. layers'[f] = [joined EXCEPT !.overlay = t]
        BY <3>4, <3>5
      <4> QED
        BY <3>1, <3>2, <3>3, <3>5, <4>1 DEF WellFormed, LayerSets, Holders, Effective, l
    <3>6. CASE l.overlay = NoText
      <4>1. layers'[f] = [joined EXCEPT !.backing = t]
        BY <3>4, <3>6
      <4>2. l.owners = {} /\ joined.backers # {}
        BY <2>2, <3>1, <3>3, <3>6 DEF WellFormed
      <4> QED
        BY <3>1, <3>2, <3>3, <3>6, <4>1, <4>2 DEF WellFormed, LayerSets, Holders, Effective, l
    <3> QED
      BY <3>5, <3>6
  <2>7. SourceOK(f)'
    <3>1. f \notin layered => t \notin Unsaved
      BY <1>2, <1>4 DEF SourceOK, NoLayers
    <3> QED
      BY <1>2, <2>1, <2>2, <2>4, <2>5, <2>6, <3>1 DEF SourceOK
  <2>8. Stamped(f, {})
    <3> SUFFICES ASSUME NEW q \in member'[f]
                 PROVE  \/ /\ q \in member[f] /\ Undisturbed(f, q, {})
                           /\ stamp'[f][q] = stamp[f][q]
                        \/ /\ q \notin member[f] \/ ~Undisturbed(f, q, {})
                           /\ stamp'[f][q] = revision + 1 /\ revision' = revision + 1
      BY DEF Stamped
    <3>1. CASE kept(q)
      <4>1. stamp'[f][q] = stamp[f][q] /\ text'[f][q] = text[f][q] /\ q \in member[f]
            /\ source'[f] = source[f]
        BY <1>2, <1>4, <2>1, <2>2, <3>1
      <4>2. layers'[f].owners = layers[f].owners
        BY <2>5, <2>6
      <4> QED
        BY <4>1, <4>2 DEF Undisturbed
    <3>2. CASE ~kept(q)
      <4>1. stamp'[f][q] = revision + 1 /\ revision' = revision + 1
        BY <2>1, <2>2, <3>2
      <4>2. q \in member[f] => text'[f][q] # text[f][q]
        BY <1>4, <2>3, <2>4, <3>2
      <4> QED
        BY <4>1, <4>2 DEF Undisturbed
    <3> QED
      BY <3>1, <3>2
  <2>9. Incarnation(f) /\ LossCounted(f)
    <3>1. source[f] = 0 => revision' = revision + 1
      BY <1>2, <1>4, <2>1
    <3> QED
      BY <1>2, <2>1, <2>2, <3>1 DEF Incarnation, LossCounted
  <2>10. Instance(f)
    <3>1. layers'[f] \in LayerSets /\ source'[f] \in Nat
      BY <1>1, <2>1, <2>5, <2>6 DEF WellFormed
    <3>2. text'[f] \in [Projects -> Texts \cup {NoText}] /\ stamp'[f] \in [Projects -> Nat]
      BY <1>1, <2>1
    <3> QED
      BY <2>2, <3>1, <3>2 DEF Instance
  <2> QED
    BY <2>7, <2>8, <2>9, <2>10 DEF Written
<1> QED
  BY <1>3, <1>4

-----------------------------------------------------------------------------
(* The whole storage.                                                       *)

(* The structures are functions of the sources, and a call counts up.       *)
Shape ==
  /\ member' = [f \in Paths |-> member'[f]]
  /\ text' = [f \in Paths |-> text'[f]]
  /\ stamp' = [f \in Paths |-> stamp'[f]]
  /\ source' = [f \in Paths |-> source'[f]]
  /\ layers' = [f \in Paths |-> layers'[f]]
  /\ layered' \subseteq Paths
  /\ revision' \in {revision, revision + 1}
  /\ epoch' \in {epoch, epoch + 1}

Instances ==
  /\ source \in [Paths -> Nat]
  /\ member \in [Paths -> SUBSET Projects]
  /\ text \in [Paths -> [Projects -> Texts \cup {NoText}]]
  /\ stamp \in [Paths -> [Projects -> Nat]]
  /\ layered \subseteq Paths
  /\ layers \in [Paths -> LayerSets]
  /\ revision \in Nat /\ epoch \in Nat

Writes(replaced) == Shape /\ \A f \in Paths : Written(f, replaced)

LEMMA WritesKeepStorage ==
  ASSUME StorageOK, NEW replaced, Writes(replaced)
  PROVE  Instances' /\ SourcesOK' /\ StampsOK'
<1>1. revision \in Nat /\ epoch \in Nat /\ revision' \in Nat /\ epoch' \in Nat
      /\ revision' >= revision
  BY DEF StorageOK, TypeOK, Writes, Shape
<1>2. Instances'
  <2>1. \A f \in Paths : Instance(f)
    BY DEF Writes, Written
  <2> QED
    BY <1>1, <2>1 DEF Instances, Instance, Writes, Shape
<1>3. SourcesOK'
  BY DEF Writes, Written, SourcesOK
<1>4. StampsOK'
  <2> SUFFICES ASSUME NEW f \in Paths
               PROVE  /\ source'[f] <= revision'
                      /\ source'[f] = 0 <=> member'[f] = {}
                      /\ \A p \in member'[f] : stamp'[f][p] <= revision'
    BY DEF StampsOK
  <2>1. Stamped(f, replaced) /\ Incarnation(f)
    BY DEF Writes, Written
  <2>2. /\ source[f] \in Nat /\ source[f] <= revision
        /\ source[f] = 0 <=> member[f] = {}
        /\ stamp[f] \in [Projects -> Nat] /\ member[f] \in SUBSET Projects
        /\ \A p \in member[f] : stamp[f][p] <= revision
    BY DEF StorageOK, TypeOK, StampsOK
  <2>3. source'[f] <= revision' /\ (source'[f] = 0 <=> member'[f] = {})
    BY <1>1, <2>1, <2>2 DEF Incarnation
  <2>4. ASSUME NEW p \in member'[f]
        PROVE  stamp'[f][p] <= revision'
    <3>1. CASE p \in member[f] /\ stamp'[f][p] = stamp[f][p]
      <4>1. stamp[f][p] \in Nat /\ stamp[f][p] <= revision
        BY <2>2, <3>1
      <4> QED
        BY <1>1, <3>1, <4>1
    <3>2. CASE stamp'[f][p] = revision + 1 /\ revision' = revision + 1
      BY <1>1, <3>2
    <3> QED
      BY <2>1, <2>4, <3>1, <3>2 DEF Stamped
  <2> QED
    BY <2>3, <2>4
<1> QED
  BY <1>2, <1>3, <1>4

LEMMA StageIsWrite ==
  ASSUME StorageOK, NEW new, DOMAIN new \subseteq Paths,
         \A g \in DOMAIN new : WellFormed(new[g]),
         NEW cleared \in SUBSET Paths, NEW replaced, NEW counted \in BOOLEAN,
         Stage(new, cleared, replaced, counted)
  PROVE  Writes(replaced) /\ UNCHANGED <<live, retired, default>>
<1>1. \A f \in Paths : Written(f, replaced)
  BY StageWrites
<1>2. Shape
  <2>1. /\ member' = [f \in Paths |-> member'[f]]
        /\ text' = [f \in Paths |-> text'[f]]
        /\ stamp' = [f \in Paths |-> stamp'[f]]
        /\ source' = [f \in Paths |-> source'[f]]
        /\ layers' = [f \in Paths |-> layers'[f]]
    BY DEF Stage
  <2>2. layered' \subseteq Paths
    BY DEF Stage, StorageOK, TypeOK
  <2>3. revision' \in {revision, revision + 1} /\ epoch' \in {epoch, epoch + 1}
    BY DEF Stage
  <2> QED
    BY <2>1, <2>2, <2>3 DEF Shape
<1> QED
  BY <1>1, <1>2 DEF Writes, Stage

LEMMA RebuildIsWrite ==
  ASSUME StorageOK, NEW gone \in [Paths -> SUBSET Projects], Rebuild(gone)
  PROVE  Writes({})
<1>1. \A f \in Paths : Written(f, {})
  BY RebuildWrites
<1>2. Shape
  BY DEF Rebuild, Shape, StorageOK, TypeOK
<1> QED
  BY <1>1, <1>2 DEF Writes

LEMMA PlainIsWrite ==
  ASSUME StorageOK, NEW p \in Projects, NEW g \in Paths, NEW t \in Texts,
         t \in Unsaved => p \in layers[g].owners,
         ApplyProjectChange(p, g, t)
  PROVE  Writes({}) /\ UNCHANGED <<live, retired, default>>
<1>1. \A f \in Paths : Written(f, {})
  BY PlainWrites
<1>2. Shape
  BY DEF ApplyProjectChange, Shape, StorageOK, TypeOK
<1> QED
  BY <1>1, <1>2 DEF Writes, ApplyProjectChange

-----------------------------------------------------------------------------
(* What clients hold.                                                       *)

(* A version that was disturbed can never be accepted again.                *)
Spent(v) ==
  \/ source[v.path] # v.source
  \/ v.project \notin member[v.path]
  \/ stamp[v.path][v.project] > v.revision

HeldOK ==
  /\ held.source <= revision /\ held.revision <= revision
  /\ held.undisturbed => CheckVersion(held) /\ text[held.path][held.project] = held.text
  /\ ~held.undisturbed => Spent(held)

(* Whoever saw a source leave a project began before the present epoch.     *)
ReadsOK == \A r \in reads : r.epoch <= epoch /\ (r.gone # {} => r.epoch < epoch)

LEMMA KeepHolds ==
  ASSUME StorageOK, HeldOK, NEW replaced, Writes(replaced), Keep(replaced)
  PROVE  HeldOK' /\ held' \in Versions
<1>1. PICK f \in Paths, p \in Projects, src \in Nat, rev \in Nat, t \in Texts \cup {NoText} :
        /\ held.path = f /\ held.project = p /\ held.source = src /\ held.revision = rev
        /\ held.text = t
        /\ held.undisturbed \in BOOLEAN
        /\ held = [path |-> f, project |-> p, source |-> src, revision |-> rev, text |-> t,
                   undisturbed |-> held.undisturbed]
  BY DEF StorageOK, TypeOK, Versions
<1>2. /\ held'.path = f /\ held'.project = p /\ held'.source = src /\ held'.revision = rev
      /\ held'.text = t
  BY <1>1 DEF Keep
<1>3. held' \in Versions
  BY <1>1 DEF Keep, Versions
<1>4. held'.undisturbed <=> held.undisturbed /\ Undisturbed(f, p, replaced)
  BY <1>1 DEF Keep, Undisturbed
<1>5. Written(f, replaced) /\ Stamped(f, replaced) /\ Incarnation(f) /\ SourceOK(f)
  BY DEF Writes, Written, StorageOK, SourcesOK
<1>6. /\ revision \in Nat /\ revision' \in Nat /\ revision' >= revision
      /\ src <= revision /\ rev <= revision
      /\ source[f] \in Nat /\ source[f] <= revision /\ (source[f] = 0 <=> member[f] = {})
      /\ \A q \in member[f] : stamp[f][q] \in Nat /\ stamp[f][q] <= revision
  BY <1>1 DEF StorageOK, TypeOK, StampsOK, HeldOK, Writes, Shape
<1>7. (held.source <= revision)' /\ (held.revision <= revision)'
  BY <1>2, <1>6
<1>8. CASE held'.undisturbed
  <2>1. source[f] = src /\ p \in member[f] /\ stamp[f][p] = rev /\ text[f][p] = t
    BY <1>1, <1>4, <1>8 DEF HeldOK, CheckVersion
  <2>2. p \in member'[f] /\ source'[f] = src /\ text'[f][p] = t
    BY <1>4, <1>8, <2>1 DEF Undisturbed
  <2>3. stamp'[f][p] = rev
    BY <1>4, <1>5, <1>8, <2>1, <2>2 DEF Stamped
  <2>4. CheckVersion(held)' /\ (text[held.path][held.project] = held.text)'
    BY <1>2, <2>2, <2>3 DEF CheckVersion
  <2> QED
    BY <1>3, <1>7, <1>8, <2>4 DEF HeldOK
<1>9. CASE ~held'.undisturbed
  <2> SUFFICES source'[f] # src \/ p \notin member'[f] \/ stamp'[f][p] > rev
    <3>1. SUFFICES Spent(held)'
      BY <1>3, <1>7, <1>9 DEF HeldOK
    <3> QED
      BY <1>2 DEF Spent
  <2>1. CASE source'[f] # source[f] /\ p \in member'[f]
    BY <1>5, <1>6, <2>1 DEF Incarnation
  <2>2. CASE source'[f] = source[f] /\ source[f] # src
    BY <2>2
  <2>3. CASE p \in member'[f] /\ stamp'[f][p] = revision + 1
    BY <1>6, <2>3
  <2>4. CASE p \in member'[f] /\ p \in member[f] /\ Undisturbed(f, p, replaced)
             /\ stamp'[f][p] = stamp[f][p] /\ source[f] = src
    <3>1. ~held.undisturbed
      BY <1>4, <1>9, <2>4
    <3>2. stamp[f][p] > rev
      BY <1>1, <2>4, <3>1 DEF HeldOK, Spent
    <3> QED
      BY <2>4, <3>2
  <2> QED
    BY <1>5, <2>1, <2>2, <2>3, <2>4 DEF Stamped
<1> QED
  BY <1>3, <1>8, <1>9

LEMMA ObserveHolds ==
  ASSUME StorageOK, ReadsOK, NEW replaced, Writes(replaced), Observe(reads)
  PROVE  ReadsOK' /\ reads' \subseteq Tokens
<1>1. epoch \in Nat /\ epoch' \in {epoch, epoch + 1} /\ reads \subseteq Tokens
  BY DEF StorageOK, TypeOK, Writes, Shape
<1>2. ASSUME NEW r \in reads'
      PROVE  r \in Tokens /\ r.epoch <= epoch' /\ (r.gone # {} => r.epoch < epoch')
  <2>1. PICK q \in reads : r = [q EXCEPT !.gone = @ \cup Lost(q.project)]
    BY <1>2 DEF Observe
  <2>2. q \in Tokens /\ q.epoch \in Nat /\ q.epoch <= epoch /\ (q.gone # {} => q.epoch < epoch)
    BY <1>1 DEF ReadsOK, Tokens
  <2>3. Lost(q.project) \subseteq Paths
    BY DEF Lost
  <2>4. r \in Tokens /\ r.epoch = q.epoch /\ r.gone = q.gone \cup Lost(q.project)
    BY <2>1, <2>2, <2>3 DEF Tokens
  <2>5. Lost(q.project) # {} => epoch' = epoch + 1
    BY DEF Lost, Writes, Written, LossCounted
  <2> QED
    BY <1>1, <2>2, <2>4, <2>5
<1> QED
  BY <1>2 DEF ReadsOK

-----------------------------------------------------------------------------
(* The inductive invariant, and every call.                                 *)

LayersInv == StorageOK /\ HeldOK /\ ReadsOK

(* What TypeOK says of the projects and their acquisitions.                 *)
Registered ==
  /\ live \subseteq Projects /\ retired \subseteq Projects /\ default \in live
  /\ generation \in [Projects -> Nat] /\ published \in [Projects -> Nat]

LEMMA LayersInit == ASSUME Init PROVE LayersInv
<1> USE SourceLayersAssumption DEF Init
<1>1. PICK f \in Paths : f = CHOOSE g \in Paths : TRUE
  OBVIOUS
<1>2. NoToken = [path |-> f, project |-> Default, source |-> 0, revision |-> 0, text |-> NoText,
                 undisturbed |-> FALSE]
  BY <1>1 DEF NoToken
<1>3. NoToken \in Versions
  BY <1>2 DEF Versions
<1>4. layers \in [Paths -> LayerSets]
  BY NoLayersOK DEF WellFormed
<1>5. TypeOK
  BY <1>3, <1>4 DEF TypeOK
<1>6. SourcesOK /\ StampsOK
  BY DEF SourcesOK, SourceOK, StampsOK
<1>7. HeldOK
  BY <1>2 DEF HeldOK, Spent
<1>8. ReadsOK
  BY DEF ReadsOK
<1> QED
  BY <1>5, <1>6, <1>7, <1>8 DEF LayersInv, StorageOK

LEMMA WritesKeepInv ==
  ASSUME LayersInv, NEW replaced, Writes(replaced), Observe(reads), Registered',
         HeldOK', held' \in Versions
  PROVE  LayersInv'
<1>1. Instances' /\ SourcesOK' /\ StampsOK'
  BY WritesKeepStorage DEF LayersInv
<1>2. ReadsOK' /\ reads' \subseteq Tokens
  BY ObserveHolds DEF LayersInv
<1>3. TypeOK'
  BY <1>1, <1>2 DEF TypeOK, Instances, Registered
<1> QED
  BY <1>1, <1>2, <1>3 DEF LayersInv, StorageOK

(* Calls that stage the layers of some sources.                             *)
LEMMA StagedKeepInv ==
  ASSUME LayersInv, NEW new, DOMAIN new \subseteq Paths,
         \A g \in DOMAIN new : WellFormed(new[g]),
         NEW cleared \in SUBSET Paths, NEW replaced, NEW counted \in BOOLEAN,
         Stage(new, cleared, replaced, counted), Keep(replaced), Observe(reads),
         (generation \in [Projects -> Nat] /\ published \in [Projects -> Nat])'
  PROVE  LayersInv'
<1>1. Writes(replaced) /\ UNCHANGED <<live, retired, default>>
  BY StageIsWrite DEF LayersInv
<1>2. Registered'
  BY <1>1 DEF Registered, LayersInv, StorageOK, TypeOK
<1>3. HeldOK' /\ held' \in Versions
  BY <1>1, KeepHolds DEF LayersInv
<1> QED
  BY <1>1, <1>2, <1>3, WritesKeepInv

(* Calls that stage one source.                                             *)
LEMMA StagedSourceKeepsInv ==
  ASSUME LayersInv, NEW f \in Paths, NEW l, WellFormed(l), NEW replaced,
         Stage([g \in {f} |-> l], {}, replaced, FALSE), Keep(replaced), Observe(reads),
         UNCHANGED <<generation, published>>
  PROVE  LayersInv'
<1>1. PICK new : new = [g \in {f} |-> l]
  OBVIOUS
<1>2. DOMAIN new \subseteq Paths /\ \A g \in DOMAIN new : WellFormed(new[g])
  BY <1>1
<1>3. (generation \in [Projects -> Nat] /\ published \in [Projects -> Nat])'
  BY DEF LayersInv, StorageOK, TypeOK
<1>4. Stage(new, {}, replaced, FALSE)
  BY <1>1
<1> HIDE <1>1
<1> QED
  BY <1>2, <1>3, <1>4, StagedKeepInv

LEMMA RemovalKeepsInv ==
  ASSUME LayersInv, NEW gone \in [Paths -> SUBSET Projects], Rebuild(gone),
         Keep({}), Observe(reads), Registered'
  PROVE  LayersInv'
<1>1. Writes({})
  BY RebuildIsWrite DEF LayersInv
<1>2. HeldOK' /\ held' \in Versions
  BY <1>1, KeepHolds DEF LayersInv
<1> QED
  BY <1>1, <1>2, WritesKeepInv

LEMMA LayersForAll == ASSUME LayersInv, NEW f \in Paths PROVE WellFormed(LayersFor(f))
BY LayersForOK DEF LayersInv, StorageOK, SourcesOK

(* Steps of clients alone.                                                  *)
LEMMA StorageStays ==
  ASSUME LayersInv, UNCHANGED <<storage, published>>, HeldOK', held' \in Versions,
         ReadsOK', reads' \subseteq Tokens, generation' \in [Projects -> Nat]
  PROVE  LayersInv'
<1>1. TypeOK'
  BY DEF LayersInv, StorageOK, TypeOK, storage
<1>2. SourcesOK' /\ StampsOK'
  BY DEF LayersInv, StorageOK, SourcesOK, SourceOK, StampsOK, storage
<1> QED
  BY <1>1, <1>2 DEF LayersInv, StorageOK

(* A call for a project.                                                    *)
LEMMA CallKeeps ==
  ASSUME LayersInv, NEW p \in live, Call(p)
  PROVE  LayersInv'
<1>1. p \in Projects /\ Registered /\ TypeOK
  BY DEF LayersInv, StorageOK, TypeOK, Registered
<1>2. ASSUME NEW f \in Paths, NEW t \in Disk \cup {NoText}, SetBacking(p, f, t)
      PROVE  LayersInv'
  <2>1. PICK l : l = WithBacking(LayersFor(f), p, t)
    OBVIOUS
  <2>2. WellFormed(l)
    BY <1>1, <2>1, LayersForAll, WithBackingOK
  <2>3. Stage([g \in {f} |-> l], {}, {}, FALSE)
    BY <1>2, <2>1 DEF SetBacking
  <2> QED
    BY <1>2, <2>2, <2>3, StagedSourceKeepsInv DEF SetBacking
<1>3. ASSUME NEW f \in Paths, NEW t \in Texts, OpenOverlay(p, f, t)
      PROVE  LayersInv'
  <2>1. PICK l : l = WithOverlay(LayersFor(f), p, t)
    OBVIOUS
  <2>2. WellFormed(l)
    BY <1>1, <2>1, LayersForAll, WithOverlayOK
  <2>3. Stage([g \in {f} |-> l], {}, {}, FALSE)
    BY <1>3, <2>1 DEF OpenOverlay
  <2> QED
    BY <1>3, <2>2, <2>3, StagedSourceKeepsInv DEF OpenOverlay
<1>4. ASSUME NEW f \in Paths, NEW t \in Texts, ReplaceOverlay(p, f, t)
      PROVE  LayersInv'
  <2>1. PICK l : l = WithOverlay(LayersFor(f), p, t)
    OBVIOUS
  <2>2. WellFormed(l)
    BY <1>1, <2>1, LayersForAll, WithOverlayOK
  <2>3. Stage([g \in {f} |-> l], {}, {<<f, p>>}, FALSE)
    BY <1>4, <2>1 DEF ReplaceOverlay
  <2> QED
    BY <1>4, <2>2, <2>3, StagedSourceKeepsInv DEF ReplaceOverlay
<1>5. ASSUME NEW f \in Paths, CloseOverlay(p, f)
      PROVE  LayersInv'
  <2>1. PICK l : l = WithoutOverlay(LayersFor(f), p)
    OBVIOUS
  <2>2. WellFormed(l)
    BY <1>1, <2>1, LayersForAll, WithoutOverlayOK
  <2>3. Stage([g \in {f} |-> l], {}, {}, FALSE)
    BY <1>5, <2>1 DEF CloseOverlay
  <2> QED
    BY <1>5, <2>2, <2>3, StagedSourceKeepsInv DEF CloseOverlay
<1>6. ASSUME NEW f \in Paths, NEW t \in Texts, Write(p, f, t)
      PROVE  LayersInv'
  <2>1. Writes({}) /\ UNCHANGED <<live, retired, default>>
    BY <1>1, <1>6, PlainIsWrite DEF Write, LayersInv
  <2>2. HeldOK' /\ held' \in Versions
    BY <1>6, <2>1, KeepHolds DEF Write, LayersInv
  <2>3. Registered'
    BY <1>1, <1>6, <2>1 DEF Write, Registered
  <2> QED
    BY <1>6, <2>1, <2>2, <2>3, WritesKeepInv DEF Write
<1>7. ASSUME NEW f \in Paths, TakeVersion(p, f)
      PROVE  LayersInv'
  <2>1. UNCHANGED <<storage, generation, published, reads>> /\ p \in member[f]
        /\ held' = [path |-> f, project |-> p, source |-> source[f], revision |-> stamp[f][p],
                    text |-> text[f][p], undisturbed |-> TRUE]
    BY <1>7 DEF TakeVersion
  <2>2. source[f] \in Nat /\ stamp[f][p] \in Nat /\ text[f][p] \in Texts \cup {NoText}
        /\ source[f] <= revision /\ stamp[f][p] <= revision
    BY <1>1, <2>1 DEF TypeOK, LayersInv, StorageOK, StampsOK
  <2>3. held' \in Versions
    BY <1>1, <2>1, <2>2 DEF Versions
  <2>4. HeldOK'
    BY <2>1, <2>2 DEF HeldOK, CheckVersion, storage
  <2>5. ReadsOK' /\ reads' \subseteq Tokens /\ generation' \in [Projects -> Nat]
    BY <1>1, <2>1 DEF LayersInv, ReadsOK, TypeOK, storage
  <2> QED
    BY <2>1, <2>3, <2>4, <2>5, StorageStays
<1>8. ASSUME NEW fs \in SUBSET Paths, RemoveFilesIn(p, fs)
      PROVE  LayersInv'
  <2>1. PICK gone : gone = [f \in Paths |-> IF f \in fs /\ p \in member[f] THEN {p} ELSE {}]
    OBVIOUS
  <2>2. gone \in [Paths -> SUBSET Projects]
    BY <1>1, <2>1
  <2>3. Rebuild(gone)
    BY <1>8, <2>1 DEF RemoveFilesIn
  <2>4. Registered'
    BY <1>1, <1>8 DEF RemoveFilesIn, Registered
  <2> QED
    BY <1>8, <2>2, <2>3, <2>4, RemovalKeepsInv DEF RemoveFilesIn
<1>9. ASSUME NEW successor \in Projects, RemoveProject(p, successor)
      PROVE  LayersInv'
  <2>1. PICK gone : gone = [f \in Paths |-> {p}]
    OBVIOUS
  <2>2. gone \in [Paths -> SUBSET Projects]
    BY <1>1, <2>1
  <2>3. Rebuild(gone)
    BY <1>9, <2>1 DEF RemoveProject
  <2>4. Registered'
    BY <1>1, <1>9 DEF RemoveProject, Registered
  <2> QED
    BY <1>9, <2>2, <2>3, <2>4, RemovalKeepsInv DEF RemoveProject
<1>10. CASE BeginExternalRefresh(p)
  <2>1. UNCHANGED <<storage, published, held>>
        /\ generation' = [generation EXCEPT ![p] = @ + 1]
        /\ reads' = reads \cup {[project |-> p, generation |-> generation[p] + 1,
                                 epoch |-> epoch, gone |-> {}]}
    BY <1>10 DEF BeginExternalRefresh
  <2>2. generation' \in [Projects -> Nat] /\ generation[p] \in Nat /\ epoch \in Nat
    BY <1>1, <2>1 DEF TypeOK
  <2>3. reads' \subseteq Tokens
    BY <1>1, <2>1, <2>2 DEF TypeOK, Tokens
  <2>4. ReadsOK'
    BY <2>1, <2>2 DEF ReadsOK, LayersInv, storage
  <2>5. HeldOK' /\ held' \in Versions
    BY <1>1, <2>1 DEF LayersInv, HeldOK, CheckVersion, Spent, TypeOK, storage
  <2> QED
    BY <2>1, <2>2, <2>3, <2>4, <2>5, StorageStays
<1> QED
  BY <1>2, <1>3, <1>4, <1>5, <1>6, <1>7, <1>8, <1>9, <1>10 DEF Call

LEMMA LayersPreserved == ASSUME LayersInv, [Next]_vars PROVE LayersInv'
<1>1. Registered /\ TypeOK
  BY DEF LayersInv, StorageOK, TypeOK, Registered
<1>2. ASSUME NEW p \in live, Call(p)
      PROVE  LayersInv'
  BY <1>2, CallKeeps
<1>3. ASSUME NEW p \in Projects, CreateProject(p)
      PROVE  LayersInv'
  <2>1. UNCHANGED <<source, member, text, stamp, layered, layers, epoch>>
        /\ revision' = revision + 1
    BY <1>3 DEF CreateProject
  <2>2. Shape
    BY <1>1, <2>1 DEF Shape, TypeOK
  <2>3. ASSUME NEW f \in Paths
        PROVE  Written(f, {})
    <3>1. SourceOK(f)'
      BY <2>1 DEF LayersInv, StorageOK, SourcesOK, SourceOK
    <3>2. Stamped(f, {}) /\ Incarnation(f) /\ LossCounted(f)
      BY <2>1 DEF Stamped, Undisturbed, Incarnation, LossCounted
    <3>3. Instance(f)
      BY <1>1, <2>1 DEF Instance, TypeOK
    <3> QED
      BY <3>1, <3>2, <3>3 DEF Written
  <2>4. Writes({})
    BY <2>2, <2>3 DEF Writes
  <2>5. HeldOK' /\ held' \in Versions
    BY <1>3, <2>4, KeepHolds DEF CreateProject, LayersInv
  <2>6. Registered'
    BY <1>1, <1>3 DEF CreateProject, Registered
  <2> QED
    BY <1>3, <2>4, <2>5, <2>6, WritesKeepInv DEF CreateProject
<1>4. ASSUME NEW r \in Renames, RenameSourcesBetween(r)
      PROVE  LayersInv'
  <2>1. /\ r.olds \subseteq Paths /\ r.news \subseteq Paths /\ r.from \in [r.news -> r.olds]
        /\ r.before \in [r.news -> Projects] /\ r.after \in [r.news -> Projects]
    BY SourceLayersAssumption
  <2>2. PICK new : new = [f \in r.news |-> Moved(LayersFor(r.from[f]), r.before[f], r.after[f])]
    OBVIOUS
  <2>3. DOMAIN new \subseteq Paths
    BY <2>1, <2>2
  <2>4. ASSUME NEW g \in DOMAIN new
        PROVE  WellFormed(new[g])
    <3>1. g \in r.news /\ r.from[g] \in Paths /\ r.before[g] \in Projects /\ r.after[g] \in Projects
      BY <2>1, <2>2, <2>4
    <3>2. WellFormed(LayersFor(r.from[g]))
      BY <3>1, LayersForAll
    <3> QED
      BY <2>2, <3>1, <3>2, MovedOK
  <2>5. Stage(new, r.olds, {}, FALSE)
    BY <1>4, <2>2 DEF RenameSourcesBetween
  <2>6. (generation \in [Projects -> Nat] /\ published \in [Projects -> Nat])'
    BY <1>1, <1>4 DEF RenameSourcesBetween, TypeOK
  <2> QED
    BY <1>4, <2>1, <2>3, <2>4, <2>5, <2>6, StagedKeepInv DEF RenameSourcesBetween
<1>5. ASSUME NEW t \in Texts, EditSource(t)
      PROVE  LayersInv'
  <2>1. PICK f \in Paths, p \in Projects : held.path = f /\ held.project = p
    BY <1>1 DEF TypeOK, Versions
  <2>2. /\ p \in member[f] /\ (t \in Unsaved => p \in layers[f].owners)
        /\ source[f] = held.source
        /\ ApplyProjectChange(p, f, t) /\ UNCHANGED <<generation, published>>
        /\ held' = [held EXCEPT !.revision = stamp'[f][p], !.text = t, !.undisturbed = TRUE]
        /\ Observe(reads)
    BY <1>5, <2>1 DEF EditSource, CheckVersion
  <2>3. Writes({}) /\ UNCHANGED <<live, retired, default>>
    BY <2>1, <2>2, PlainIsWrite DEF LayersInv
  <2>4. Instances' /\ StampsOK'
    BY <2>3, WritesKeepStorage DEF LayersInv
  <2>5. source'[f] = source[f] /\ p \in member'[f]
    BY <1>1, <2>2 DEF ApplyProjectChange, TypeOK, LayersInv, StorageOK, StampsOK
  <2>6. text'[f][p] = t
    <3>1. SharedText(f) = text[f][p]
      BY <2>2, SharedTextIs DEF LayersInv, StorageOK, SourcesOK
    <3> QED
      BY <1>1, <2>2, <2>5, <3>1 DEF ApplyProjectChange, TypeOK
  <2>7. stamp'[f][p] \in Nat /\ stamp'[f][p] <= revision' /\ source[f] <= revision'
    BY <2>4, <2>5 DEF Instances, StampsOK
  <2>8. held' \in Versions
    BY <1>1, <2>2, <2>7 DEF TypeOK, Versions
  <2>9. /\ held'.path = f /\ held'.project = p /\ held'.source = source[f]
        /\ held'.revision = stamp'[f][p] /\ held'.text = t /\ held'.undisturbed = TRUE
    BY <1>1, <2>1, <2>2 DEF TypeOK, Versions
  <2>10. HeldOK'
    BY <2>5, <2>6, <2>7, <2>9 DEF HeldOK, CheckVersion
  <2>11. Registered'
    BY <1>1, <2>2, <2>3 DEF Registered
  <2> QED
    BY <2>2, <2>3, <2>8, <2>10, <2>11, WritesKeepInv
<1>6. ASSUME NEW r \in reads, NEW fs \in SUBSET Paths,
             NEW files \in [fs -> Disk \cup {NoText}], ApplyExternalInputs(r, files)
      PROVE  LayersInv'
  <2>1. r.project \in Projects
    BY <1>1 DEF TypeOK, Tokens
  <2>2. PICK new : new = [f \in DOMAIN files |-> WithBacking(LayersFor(f), r.project, files[f])]
    OBVIOUS
  <2>3. DOMAIN new \subseteq Paths
    BY <2>2
  <2>4. ASSUME NEW g \in DOMAIN new
        PROVE  WellFormed(new[g])
    <3>1. g \in Paths /\ files[g] \in Disk \cup {NoText}
      BY <2>2, <2>4
    <3> QED
      BY <2>1, <2>2, <2>4, <3>1, LayersForAll, WithBackingOK
  <2>5. Stage(new, {}, {}, TRUE)
    BY <1>6, <2>2 DEF ApplyExternalInputs
  <2>6. (generation \in [Projects -> Nat] /\ published \in [Projects -> Nat])'
    BY <1>1, <1>6, <2>1 DEF ApplyExternalInputs, TypeOK, Tokens
  <2> QED
    BY <1>6, <2>3, <2>4, <2>5, <2>6, StagedKeepInv DEF ApplyExternalInputs
<1>7. CASE UNCHANGED vars
  <2>1. UNCHANGED <<storage, generation, published, reads, held>>
    BY <1>7 DEF vars
  <2>2. HeldOK' /\ ReadsOK' /\ held' \in Versions /\ reads' \subseteq Tokens
        /\ generation' \in [Projects -> Nat]
    BY <1>1, <2>1 DEF LayersInv, HeldOK, ReadsOK, CheckVersion, Spent, TypeOK, storage
  <2> QED
    BY <2>1, <2>2, StorageStays
<1> QED
  BY <1>2, <1>3, <1>4, <1>5, <1>6, <1>7 DEF Next

LEMMA LayersInvariant == Spec => []LayersInv
<1>1. Init => LayersInv
  BY LayersInit
<1>2. LayersInv /\ [Next]_vars => LayersInv'
  BY LayersPreserved
<1> QED
  BY <1>1, <1>2, PTL DEF Spec

(* The state of the database and of the tokens is well typed.               *)
THEOREM StorageTyped == Spec => []TypeOK
<1>1. LayersInv => TypeOK
  BY DEF LayersInv, StorageOK
<1> QED
  BY <1>1, LayersInvariant, PTL

(* After any sequence of calls, by any number of projects that share        *)
(* sources, the layers, the memberships and the texts of instances agree.   *)
THEOREM LayersAgree == Spec => []LayersDescribeInstances
<1>1. LayersInv => LayersDescribeInstances
  BY DEF LayersInv, StorageOK, SourcesOK, SourceOK, TypeOK, LayersDescribeInstances, WellFormed
<1> QED
  BY <1>1, LayersInvariant, PTL

(* No sequence of moves, closings, removals and plain writes turns text     *)
(* that only an editor has into backing contents.                           *)
THEOREM UnsavedStaysUnsaved == Spec => []UnsavedIsNeverBacking
<1>1. NoText \notin Unsaved
  BY SourceLayersAssumption DEF Texts
<1>2. LayersInv => UnsavedIsNeverBacking
  BY <1>1 DEF LayersInv, StorageOK, SourcesOK, SourceOK, UnsavedIsNeverBacking, WellFormed, NoLayers
<1> QED
  BY <1>2, LayersInvariant, PTL

(* A source version is accepted exactly as long as nothing happened to its  *)
(* source in its project: stale ones are refused ...                        *)
THEOREM StaleVersionsAreRefused == Spec => []StaleVersionsFail
<1>1. LayersInv => StaleVersionsFail
  <2> SUFFICES ASSUME LayersInv, CheckVersion(held)
               PROVE  held.undisturbed /\ text[held.path][held.project] = held.text
    BY DEF StaleVersionsFail
  <2>1. held \in Versions /\ HeldOK /\ stamp \in [Paths -> [Projects -> Nat]]
    BY DEF LayersInv, StorageOK, TypeOK
  <2>2. ~Spent(held)
    <3>1. held.revision \in Nat /\ stamp[held.path][held.project] = held.revision
      BY <2>1 DEF CheckVersion, Versions
    <3> QED
      BY <3>1 DEF CheckVersion, Spent
  <2> QED
    BY <2>1, <2>2 DEF HeldOK, Versions
<1> QED
  BY <1>1, LayersInvariant, PTL

(* ... and no other call costs a client its version, not even one that      *)
(* builds the storage again.                                                *)
THEOREM VersionsAreKept == Spec => []UnrelatedWritesKeepVersions
<1>1. LayersInv => UnrelatedWritesKeepVersions
  BY DEF LayersInv, HeldOK, UnrelatedWritesKeepVersions
<1> QED
  BY <1>1, LayersInvariant, PTL

(* Files that were read before a source left their project are refused,     *)
(* whatever happened to the acquisitions of that project in between.        *)
THEOREM RemovalsAreFinal == Spec => []RemovalIsFinal
<1>1. LayersInv => RemovalIsFinal
  <2> SUFFICES ASSUME LayersInv, NEW r \in reads, Accepted(r)
               PROVE  r.gone = {}
    BY DEF RemovalIsFinal
  <2>1. epoch = r.epoch /\ epoch \in Nat /\ (r.gone # {} => r.epoch < epoch)
    BY DEF Accepted, LayersInv, StorageOK, TypeOK, ReadsOK
  <2> QED
    BY <2>1
<1> QED
  BY <1>1, LayersInvariant, PTL
=============================================================================
