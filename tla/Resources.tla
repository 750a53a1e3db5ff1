------------------------------ MODULE Resources ------------------------------
(***************************************************************************)
(* Preparation of a selection (resources.go, images.go): the snapshot the  *)
(* Hub reads, guarded by resourcesMu, the goroutine that inspects images   *)
(* and copies missing weights without that lock, and the files it leaves   *)
(* when the Handler dies.                                                  *)
(*                                                                         *)
(* A selection is a sequence of models of one data source. A weight file   *)
(* holds the pinned bytes or other ones, which includes no file; a copy is *)
(* a part, then pinned or wrong. A copy reads its source twice, so that it *)
(* may change in between.                                                  *)
(***************************************************************************)
EXTENDS Naturals, Sequences

CONSTANTS
  Weight,          \* models
  Embedded,        \* those whose weights are in their image
  DataImage,       \* the image of the data source
  WEIGHT_SOURCE,   \* paths.weight_source is set
  MaxSelected      \* bound: models of one selection

ASSUME ResourcesAssumption ==
  /\ Embedded \subseteq Weight /\ DataImage \notin Weight
  /\ WEIGHT_SOURCE \in BOOLEAN /\ MaxSelected \in Nat

VARIABLES
  docker,     \* it answers
  image,      \* whether an image is there
  source,     \* the file of a model under weight_source
  placed,     \* the file at its path when all began, never changed
  target,     \* the file at its path
  partial,    \* the .partial file beside it
  shown,      \* currentResources.Execution with preparingResources and the selection
  prep        \* the goroutine

resourceVars == <<docker, image, source, placed, target, partial, shown, prep>>
weightFiles == <<source, placed, target, partial>>

Selection == UNION {[1..n -> Weight] : n \in 0..MaxSelected}
Copied == Weight \ Embedded

Resting == [at |-> "none", images |-> <<>>, models |-> <<>>, found |-> "none"]
Unloaded == [preparing |-> FALSE, models |-> <<>>, items |-> <<>>, status |-> "missing"]

ResourcesInit ==
  /\ docker \in BOOLEAN /\ image \in [Weight \cup {DataImage} -> {"ready", "missing"}]
  /\ source \in [Copied -> {"none", "other", "pinned"}]
  /\ placed \in [Copied -> {"other", "pinned"}]
  /\ target = placed /\ partial = [m \in Copied |-> "none"]
  /\ shown = Unloaded /\ prep = Resting
-----------------------------------------------------------------------------
(***************************************************************************)
(* The snapshot.                                                           *)
(***************************************************************************)
Item(kind, id, status) == [kind |-> kind, id |-> id, status |-> status]

\* docker image inspect.
imageStatus(i) == IF docker THEN image[i] ELSE "failed"

weightItem(m) ==
  Item("weight", m, IF m \in Embedded THEN imageStatus(m)
                    ELSE IF target[m] = "pinned" THEN "ready" ELSE "missing")

\* The image of the data, then the image and the weights of each model.
Items(models) ==
  [k \in 1..(2 * Len(models) + 1) |->
     IF k = 1 THEN Item("image", DataImage, imageStatus(DataImage))
     ELSE IF k % 2 = 0 THEN Item("image", models[k \div 2], imageStatus(models[k \div 2]))
     ELSE weightItem(models[k \div 2])]

\* groupFromItems: failed before all; of the others the last one that is not ready.
groupFromItems(items) ==
  LET is(i, s) == items[i].status = s
      open == {i \in DOMAIN items : items[i].status \in {"missing", "preparing"}}
  IN IF \E i \in DOMAIN items : is(i, "failed") THEN "failed"
     ELSE IF open = {} THEN "ready"
     ELSE items[CHOOSE i \in open : \A j \in open : j <= i].status

executionGroup(models) ==
  IF models = <<>> THEN [items |-> <<>>, status |-> "missing"]
  ELSE [items |-> Items(models), status |-> groupFromItems(Items(models))]

ShowsGroup(preparing, models, group) ==
  shown' = [preparing |-> preparing, models |-> models,
            items |-> group.items, status |-> group.status]

\* updateResourceItem: the first item of that kind and id.
Updated(item) ==
  LET like == {i \in DOMAIN shown.items :
                 shown.items[i].kind = item.kind /\ shown.items[i].id = item.id}
      items == [i \in DOMAIN shown.items |->
                  IF i \in like /\ \A j \in like : i <= j THEN item ELSE shown.items[i]]
  IN shown' = [shown EXCEPT !.items = items,
                            !.status = IF shown.preparing THEN "preparing"
                                       ELSE groupFromItems(items)]

\* finishPreparation.
Finished ==
  shown' = [shown EXCEPT !.preparing = FALSE, !.status = groupFromItems(shown.items)]
-----------------------------------------------------------------------------
(***************************************************************************)
(* Requests, and the refresh after the start and after a pull.             *)
(***************************************************************************)
\* handlePrepareResources; while a preparation is under way it only answers.
Prepares(models) ==
  LET group == executionGroup(models)
  IN /\ ~shown.preparing
     /\ ShowsGroup(TRUE, models,
              IF models # <<>> /\ group.status # "failed"
              THEN [group EXCEPT !.status = "preparing"] ELSE group)
     /\ prep' = [at |-> "inspect", images |-> <<DataImage>> \o models, models |-> models,
                 found |-> "none"]
     /\ UNCHANGED <<docker, image, weightFiles>>

\* RefreshResources: not while a preparation is under way.
Refreshes ==
  /\ ~shown.preparing
  /\ ShowsGroup(FALSE, shown.models, executionGroup(shown.models))
  /\ UNCHANGED <<docker, image, weightFiles, prep>>

\* ensureImage, or the user, brings or takes away an image; docker comes and goes.
ImageChanges(i) ==
  /\ docker /\ image' = [image EXCEPT ![i] = IF @ = "ready" THEN "missing" ELSE "ready"]
  /\ UNCHANGED <<docker, weightFiles, shown, prep>>

DockerChanges ==
  /\ docker' = ~docker
  /\ UNCHANGED <<image, weightFiles, shown, prep>>

SourceChanges(m) ==
  /\ \E f \in {"none", "other", "pinned"} : f # source[m] /\ source' = [source EXCEPT ![m] = f]
  /\ UNCHANGED <<docker, image, placed, target, partial, shown, prep>>

\* The Handler dies and another starts.
HandlerRestarts ==
  /\ shown # Unloaded
  /\ shown' = Unloaded /\ prep' = Resting
  /\ UNCHANGED <<docker, image, weightFiles>>
-----------------------------------------------------------------------------
(***************************************************************************)
(* prepareExecution.                                                       *)
(***************************************************************************)
Doing(step) == prep.at = step
Does(step) == prep' = [prep EXCEPT !.at = step]

\* docker image inspect, without the lock; then the item, under it.
Inspects ==
  /\ Doing("inspect")
  /\ IF prep.images = <<>> THEN Does("weight")
     ELSE prep' = [prep EXCEPT !.at = "inspected", !.found = imageStatus(Head(prep.images))]
  /\ UNCHANGED <<docker, image, weightFiles, shown>>

Inspected ==
  /\ Doing("inspected")
  /\ Updated(Item("image", Head(prep.images), prep.found))
  /\ prep' = [prep EXCEPT !.at = IF prep.found = "ready" THEN "inspect" ELSE "finish",
                          !.images = Tail(@), !.found = "none"]
  /\ UNCHANGED <<docker, image, weightFiles>>

NextModel == prep' = [prep EXCEPT !.at = "weight", !.models = Tail(@)]

\* Weights in the image need no copy.
WeightEmbedded ==
  /\ Doing("weight") /\ prep.models # <<>> /\ Head(prep.models) \in Embedded
  /\ Updated(weightItem(Head(prep.models))) /\ NextModel
  /\ UNCHANGED <<docker, image, weightFiles>>

WeightChecked ==
  /\ Doing("weight") /\ prep.models # <<>> /\ Head(prep.models) \notin Embedded
  /\ Updated(Item("weight", Head(prep.models), "preparing"))
  /\ Does(IF target[Head(prep.models)] = "pinned" THEN "there" ELSE "copy")
  /\ UNCHANGED <<docker, image, weightFiles>>

WeightThere ==
  /\ Doing("there")
  /\ Updated(Item("weight", Head(prep.models), "ready")) /\ NextModel
  /\ UNCHANGED <<docker, image, weightFiles>>

WeightFails ==
  /\ Doing("fails")
  /\ Updated(Item("weight", Head(prep.models), "failed")) /\ Does("finish")
  /\ UNCHANGED <<docker, image, weightFiles>>

Settles ==
  /\ Doing("finish") \/ (Doing("weight") /\ prep.models = <<>>)
  /\ Finished /\ prep' = Resting
  /\ UNCHANGED <<docker, image, weightFiles>>
-----------------------------------------------------------------------------
(***************************************************************************)
(* copyWeight, of the model at the head.                                   *)
(***************************************************************************)
Copying(m) == partial' = [partial EXCEPT ![Head(prep.models)] = m]

\* There is a source: an earlier .partial is removed and a new one created.
CopyOpens ==
  LET m == Head(prep.models)
  IN /\ Doing("copy")
     /\ IF WEIGHT_SOURCE /\ source[m] # "none"
        THEN \/ Copying("part") /\ Does("reads")
             \/ (Copying("none") \/ UNCHANGED partial) /\ Does("fails")
        ELSE UNCHANGED partial /\ Does("fails")
     /\ UNCHANGED <<docker, image, source, placed, target, shown>>

\* The first bytes are those of the file that was opened.
CopyReads ==
  /\ Doing("reads")
  /\ prep' = [prep EXCEPT !.at = "rest", !.found = source[Head(prep.models)]]
  /\ UNCHANGED <<docker, image, weightFiles, shown>>

\* Reading, writing, or the time allowed may fail at every step.
CopyFails ==
  /\ prep.at \in {"reads", "rest", "hash"}
  /\ Copying("none") /\ prep' = [prep EXCEPT !.at = "fails", !.found = "none"]
  /\ UNCHANGED <<docker, image, source, placed, target, shown>>

CopyEnds ==
  LET m == Head(prep.models)
  IN /\ Doing("rest")
     /\ Copying(IF prep.found = "pinned" /\ source[m] = "pinned" THEN "pinned" ELSE "wrong")
     /\ prep' = [prep EXCEPT !.at = "hash", !.found = "none"]
     /\ UNCHANGED <<docker, image, source, placed, target, shown>>

CopyPlacesSlip ==  \* renamed first, checked afterwards
  LET m == Head(prep.models)
  IN /\ Doing("hash")
     /\ target' = [target EXCEPT ![m] = partial[m]] /\ Copying("none")
     /\ Does(IF partial[m] = "pinned" THEN "there" ELSE "fails")
     /\ UNCHANGED <<docker, image, source, placed, shown>>

\* The hash of what was written decides; only then is it renamed into place.
CopyPlaces ==
  LET m == Head(prep.models)
  IN /\ Doing("hash")
     /\ Copying("none")
     /\ IF partial[m] = "pinned"
        THEN target' = [target EXCEPT ![m] = "pinned"] /\ Does("there")
        ELSE UNCHANGED target /\ Does("fails")
     /\ UNCHANGED <<docker, image, source, placed, shown>>

PrepStep ==
  \/ Inspects \/ Inspected \/ WeightEmbedded \/ WeightChecked \/ WeightThere \/ WeightFails
  \/ Settles \/ CopyOpens \/ CopyReads \/ CopyFails \/ CopyEnds \/ CopyPlaces

ResourcesNext ==
  \/ \E models \in Selection : Prepares(models)
  \/ Refreshes \/ HandlerRestarts \/ DockerChanges
  \/ \E i \in Weight \cup {DataImage} : ImageChanges(i)
  \/ \E m \in Copied : SourceChanges(m)
  \/ PrepStep

ResourcesSpec == ResourcesInit /\ [][ResourcesNext]_resourceVars
-----------------------------------------------------------------------------
\* The file at a weight's path is the one that was there before or the pinned
\* one, however a copy ends and wherever the Handler dies.
WeightIsWhole == \A m \in Copied : target[m] \in {placed[m], "pinned"}

\* What is shown of a weight outside an image is true when it says ready.
ReadyIsPinned ==
  \A i \in DOMAIN shown.items :
    shown.items[i].kind = "weight" /\ shown.items[i].status = "ready"
      /\ shown.items[i].id \notin Embedded => target[shown.items[i].id] = "pinned"

\* The Hub polls until nothing is preparing: then no item says it is, and the
\* group says what its items say.
SettledIsShown ==
  ~shown.preparing =>
    /\ \A i \in DOMAIN shown.items : shown.items[i].status # "preparing"
    /\ shown.items # <<>> => shown.status = groupFromItems(shown.items)

\* The three together.
WeightsAreShown == WeightIsWhole /\ ReadyIsPinned /\ SettledIsShown
=============================================================================
