----------------------------- MODULE UserStorage -----------------------------
(***************************************************************************)
(* The storage of one user: a PersistentVolume and a PersistentVolumeClaim *)
(* of the same name, made on demand by CreateUserStorageIfNotExist when a  *)
(* pod is created, and deleted by deletePod when the user has no pods      *)
(* remaining (the last lines of deletePod, which module PodServer leaves   *)
(* out; the lines before them are one action here), by deleteAllUserPods,  *)
(* and by cleanAllUnused when it finds the claim of a user without pods    *)
(* (what that does to services and caches is in module PodJobs).           *)
(*                                                                         *)
(* Nothing ties "the user has no pods" to the calls that follow: each list *)
(* and each delete is a call of its own, and so is each step of the        *)
(* requests that run next to it.                                           *)
(*                                                                         *)
(* Each pod is asked to go by at most one delete_pod request.  A storage   *)
(* object is known by the request that made it.                            *)
(***************************************************************************)
EXTENDS Channels

CONSTANTS
    InitialPods,      \* pods that run with their storage when the model starts
    Creates,          \* create_pod requests of the user, and their pods
    Mounting,         \* the pods that mount the storage
    Deletable,        \* the pods that a delete_pod request may be made for
    DeleteAlls,       \* delete_all_user requests of the user
    Cleanups,         \* clean_all_unused requests
    ApiMayFail,       \* may calls to the Kubernetes API fail for no reason?
    Initial,          \* the storage objects of the initial pods
    None

Pods  == InitialPods \cup Creates
Kinds == {"PV", "PVC"}

\* A deletion of one pod is known by the pod.
Sweeps    == DeleteAlls \cup Cleanups
Deletions == Pods \cup Sweeps

ASSUME UserStorageAssumption ==
    /\ InitialPods \cap Creates = {}
    /\ Creates \subseteq Mounting /\ Mounting \subseteq Pods
    /\ Deletable \subseteq Pods
    /\ DeleteAlls \cap Cleanups = {} /\ Pods \cap Sweeps = {}
    /\ ApiMayFail \in BOOLEAN
    /\ Initial \notin Creates
    /\ None \notin Pods \cup {Initial}

VARIABLES
    \* Kubernetes
    pod,              \* the state of each pod
    object,           \* who made the present object of each kind, or None
    ready,            \* kinds whose object is Available (PV) or Bound (PVC)
    terminating,      \* kinds whose object has been asked to go
    \* creations
    cpc,              \* where CreatePod is
    readyWatch,       \* the goroutines of WatchCreatePV and WatchCreatePVC
    storedReady,      \* the ReadyChannels PVready and PVCready
    combining,        \* creations with a CombineReadyChannels into storageReady
    storageReady,     \* the ReadyChannel storageReady
    \* deletions
    DeletingPods,     \* the keys of Server.DeletingPods
    dpc,              \* where deletePod, deleteAllUserPods or cleanAllUnused is
    listed,           \* podList, less the pods that deleteAllUserPods is done with
    DeletingStorage,  \* does Server.DeletingStorage have an entry for the user?
    removing,         \* deletions whose entry is yet to be removed from it
    mark,             \* the storage object that each delete call found, or None
    goneWatch,        \* the goroutines of WatchDeletePV and WatchDeletePVC
    storedGone,       \* the ReadyChannels pvChan and pvcChan
    cleaned,          \* the ReadyChannel cleanedStorage
    \* delete_all_user and clean_all_unused
    current,          \* the pod that deleteAllUserPods is about to delete, or None
    asked,            \* the pods whose ReadyChannel it has put into chanList
    left,             \* the pods of the list that it has passed over
    finished          \* the ReadyChannel finished

k8s      == <<pod, object, ready, terminating>>
creation == <<cpc, readyWatch, storedReady, combining, storageReady>>
cleaning == <<mark, goneWatch, storedGone, cleaned>>
serverMaps == <<DeletingPods, DeletingStorage, removing>>
sweeping == <<current, asked, left, finished>>
deletion == <<dpc, listed, cleaning, sweeping>>
vars     == <<k8s, creation, serverMaps, deletion>>

PodStates == {"absent", "present", "terminating", "gone"}
Watches   == {"none", "spawned", "open"}
CreatePCs == {"listPV", "createPV", "listPVC", "createPVC", "createPod",
              "created", "rejected"}
DeletePCs == {"idle", "register", "list", "check", "storage", "deletePV",
              "deletePVC", "combine", "registerStorage", "accepted",
              "sweep", "call", "registerPod", "finish", "failed"}
Objects   == Creates \cup {Initial}

TypeOK ==
    /\ pod \in [Pods -> PodStates]
    /\ object \in [Kinds -> Objects \cup {None}]
    /\ ready \subseteq Kinds
    /\ terminating \subseteq Kinds
    /\ cpc \in [Creates -> CreatePCs]
    /\ readyWatch \in [Creates \X Kinds -> Watches]
    /\ storedReady \in [Creates \X Kinds -> Cells]
    /\ combining \subseteq Creates
    /\ storageReady \in [Creates -> Cells]
    /\ DeletingPods \subseteq Pods
    /\ dpc \in [Deletions -> DeletePCs]
    /\ listed \in [Deletions -> SUBSET Pods]
    /\ DeletingStorage \in BOOLEAN
    /\ removing \subseteq Deletions
    /\ mark \in [Deletions \X Kinds -> Objects \cup {None}]
    /\ goneWatch \in [Deletions \X Kinds -> Watches]
    /\ storedGone \in [Deletions \X Kinds -> Cells]
    /\ cleaned \in [Deletions -> Cells]
    /\ current \in [Sweeps -> Pods \cup {None}]
    /\ asked \in [Sweeps -> SUBSET Pods]
    /\ left \in [Sweeps -> SUBSET Pods]
    /\ finished \in [Sweeps -> Cells]

Init ==
    /\ pod = [p \in Pods |-> IF p \in InitialPods THEN "present" ELSE "absent"]
    /\ object = [k \in Kinds |-> IF InitialPods \cap Mounting = {} THEN None ELSE Initial]
    /\ ready = {k \in Kinds : InitialPods \cap Mounting # {}}
    /\ terminating = {}
    /\ cpc = [c \in Creates |-> "listPV"]
    /\ readyWatch = [x \in Creates \X Kinds |-> "none"]
    /\ storedReady = [x \in Creates \X Kinds |-> NoValue]
    /\ combining = {}
    /\ storageReady = [c \in Creates |-> NoValue]
    /\ DeletingPods = {}
    /\ dpc = [d \in Deletions |-> "idle"]
    /\ listed = [d \in Deletions |-> {}]
    /\ DeletingStorage = FALSE
    /\ removing = {}
    /\ mark = [x \in Deletions \X Kinds |-> None]
    /\ goneWatch = [x \in Deletions \X Kinds |-> "none"]
    /\ storedGone = [x \in Deletions \X Kinds |-> NoValue]
    /\ cleaned = [d \in Deletions |-> NoValue]
    /\ current = [d \in Sweeps |-> None]
    /\ asked = [d \in Sweeps |-> {}]
    /\ left = [d \in Sweeps |-> {}]
    /\ finished = [d \in Sweeps |-> NoValue]

\* A goroutine is started that watches for x.  It is not followed any further once
\* its channel has a value, from which moment on it has no effect.
Watched(watch, chans, x) ==
    [watch EXCEPT ![x] = IF chans[x] = NoValue THEN "spawned" ELSE "none"]

\* ch.Send(v) into the channels of the pairs in S, which ends their watches.
Unwatched(watch, S) == [x \in DOMAIN watch |-> IF x \in S THEN "none" ELSE watch[x]]

SendReady(S, v) ==
    storedReady' = Sent(storedReady, S, v) /\ readyWatch' = Unwatched(readyWatch, S)

SendGone(S, v) ==
    storedGone' = Sent(storedGone, S, v) /\ goneWatch' = Unwatched(goneWatch, S)

GotoC(c, from, to) == cpc[c] = from /\ cpc' = [cpc EXCEPT ![c] = to]
GotoD(d, from, to) == dpc[d] = from /\ dpc' = [dpc EXCEPT ![d] = to]

-------------------------------------------------------------------------------
(***************************************************************************)
(* CreateUserStorageIfNotExist, then the pod.  An error in it is ignored   *)
(* by CreatePod: the pod is created all the same, and storageReady is left *)
(* to its timer.                                                           *)
(***************************************************************************)
\* CombineReadyChannels is started once both kinds have been dealt with.
StartCombining(c, k) ==
    combining' = IF k = "PVC" THEN combining \cup {c} ELSE combining

\* The list finds the object, in whatever state it is: its channel gets true.
ListFinds(c, k, at, next) ==
    /\ GotoC(c, at, next)
    /\ object[k] # None
    /\ storedReady' = Sent(storedReady, {<<c, k>>}, "true")
    /\ StartCombining(c, k)
    /\ UNCHANGED <<k8s, readyWatch, storageReady, serverMaps, deletion>>

\* The list is empty: a goroutine will watch the object that is made next.
ListFindsNone(c, k, at, create) ==
    /\ GotoC(c, at, create)
    /\ object[k] = None
    /\ readyWatch' = Watched(readyWatch, storedReady, <<c, k>>)
    /\ UNCHANGED <<k8s, storedReady, combining, storageReady,
                   serverMaps, deletion>>

CreateObject(c, k, at, next) ==
    /\ GotoC(c, at, next)
    /\ object[k] = None
    /\ object' = [object EXCEPT ![k] = c]
    /\ StartCombining(c, k)
    /\ UNCHANGED <<pod, ready, terminating, readyWatch, storedReady, storageReady,
                   serverMaps, deletion>>

ListPV(c) ==
    \/ ListFinds(c, "PV", "listPV", "listPVC")
    \/ ListFindsNone(c, "PV", "listPV", "createPV")

CreatePV(c) == CreateObject(c, "PV", "createPV", "listPVC")

ListPVC(c) ==
    \/ ListFinds(c, "PVC", "listPVC", "createPod")
    \/ ListFindsNone(c, "PVC", "listPVC", "createPVC")

CreatePVC(c) == CreateObject(c, "PVC", "createPVC", "createPod")

\* The call failed, or the object exists by now (AlreadyExists).
StorageCallFails(c) ==
    /\ \/ GotoC(c, "listPV", "createPod") /\ ApiMayFail
       \/ GotoC(c, "listPVC", "createPod") /\ ApiMayFail
       \/ GotoC(c, "createPV", "createPod") /\ (object["PV"] # None \/ ApiMayFail)
       \/ GotoC(c, "createPVC", "createPod") /\ (object["PVC"] # None \/ ApiMayFail)
    /\ UNCHANGED <<k8s, readyWatch, storedReady, combining, storageReady,
                   serverMaps, deletion>>

CreatePod(c) ==
    /\ GotoC(c, "createPod", "created")
    /\ pod' = [pod EXCEPT ![c] = "present"]
    /\ UNCHANGED <<object, ready, terminating, readyWatch, storedReady, combining,
                   storageReady, serverMaps, deletion>>

CreatePodFails(c) ==
    /\ GotoC(c, "createPod", "rejected")
    /\ ApiMayFail
    /\ UNCHANGED <<k8s, readyWatch, storedReady, combining, storageReady,
                   serverMaps, deletion>>

OpenReadyWatch(c, k) ==
    /\ readyWatch[<<c, k>>] = "spawned"
    /\ readyWatch' = [readyWatch EXCEPT ![<<c, k>>] = "open"]
    /\ UNCHANGED <<k8s, cpc, storedReady, combining, storageReady,
                   serverMaps, deletion>>

ReadyWatchFails(c, k) ==
    /\ ApiMayFail
    /\ readyWatch[<<c, k>>] = "spawned"
    /\ SendReady({<<c, k>>}, "false")
    /\ UNCHANGED <<k8s, cpc, combining, storageReady, serverMaps, deletion>>

StoredReadyTimeout(c, k) ==
    /\ storedReady[<<c, k>>] = NoValue
    /\ SendReady({<<c, k>>}, "false")
    /\ UNCHANGED <<k8s, cpc, combining, storageReady, serverMaps, deletion>>

\* Faulty variant: the storage counts as ready with the volume.
CombineReadyOfPV(c) ==
    /\ c \in combining
    /\ storedReady[<<c, "PV">>] # NoValue
    /\ storageReady[c] = NoValue
    /\ storageReady' = Sent(storageReady, {c}, storedReady[<<c, "PV">>])
    /\ UNCHANGED <<k8s, cpc, readyWatch, storedReady, combining,
                   serverMaps, deletion>>

\* The goroutine of CombineReadyChannels, once both channels have a value.
CombineReady(c) ==
    /\ c \in combining
    /\ storedReady[<<c, "PV">>] # NoValue
    /\ storedReady[<<c, "PVC">>] # NoValue
    /\ storageReady[c] = NoValue
    /\ storageReady' = Sent(storageReady, {c},
                            Both(storedReady[<<c, "PV">>], storedReady[<<c, "PVC">>]))
    /\ UNCHANGED <<k8s, cpc, readyWatch, storedReady, combining,
                   serverMaps, deletion>>

StorageReadyTimeout(c) ==
    /\ storageReady[c] = NoValue
    /\ storageReady' = Sent(storageReady, {c}, "false")
    /\ UNCHANGED <<k8s, cpc, readyWatch, storedReady, combining,
                   serverMaps, deletion>>

-------------------------------------------------------------------------------
(***************************************************************************)
(* deletePod                                                               *)
(***************************************************************************)
\* All of deletePod up to and including the call that deletes the pod.
RequestPodDeletion(p) ==
    /\ p \in Deletable \ DeletingPods
    /\ GotoD(p, "idle", "register")
    /\ pod[p] \in {"present", "terminating"}
    /\ pod' = [pod EXCEPT ![p] = "terminating"]
    /\ UNCHANGED <<object, ready, terminating, creation, serverMaps, listed, cleaning, sweeping>>

RegisterDeletion(p) ==
    /\ GotoD(p, "register", "list")
    /\ DeletingPods' = DeletingPods \cup {p}
    /\ UNCHANGED <<k8s, creation, DeletingStorage, removing, listed, cleaning, sweeping>>

\* The goroutine of addToWatchMaps: the pod's deletion succeeded, or timed out.
RemoveDeleting(p) ==
    /\ p \in DeletingPods
    /\ DeletingPods' = DeletingPods \ {p}
    /\ UNCHANGED <<k8s, creation, DeletingStorage, removing, deletion>>

\* Faulty variant: the list has an element that is no pod, as User.ListPods
\* leaves one for a pod whose labels match another user (managed.go:61-68).
ListPodsAndZero(d, at, next) ==
    /\ GotoD(d, at, next)
    /\ listed' = [listed EXCEPT ![d] =
          {q \in Pods : pod[q] \in {"present", "terminating"}} \cup {None}]
    /\ UNCHANGED <<k8s, creation, serverMaps, cleaning, sweeping>>

\* user.ListPods: the pods that are still there.
ListPods(d, at, next) ==
    /\ GotoD(d, at, next)
    /\ listed' = [listed EXCEPT ![d] = {q \in Pods : pod[q] \in {"present", "terminating"}}]
    /\ UNCHANGED <<k8s, creation, serverMaps, cleaning, sweeping>>

\* Steps that only lead to another place of the handler.
Proceed(d, from, to) ==
    /\ GotoD(d, from, to)
    /\ UNCHANGED <<k8s, creation, serverMaps, listed, cleaning, sweeping>>

\* userHasRemainingPods: an error of the list counts as no remaining pods ...
ListPodsFails(p) == p \in Pods /\ ApiMayFail /\ Proceed(p, "list", "storage")

\* ... and then, under the mutex, the test that all of them are being deleted.
HasRemainingPods(p) ==
    p \in Pods /\ Proceed(p, "check", "accepted") /\ ~(listed[p] \subseteq DeletingPods)

\* Faulty variant: one listed pod that is being deleted is enough.
NoRemainingPodsIfOne(p) ==
    p \in Pods /\ Proceed(p, "check", "storage") /\ listed[p] \cap DeletingPods # {}

NoRemainingPods(p) ==
    p \in Pods /\ Proceed(p, "check", "storage") /\ listed[p] \subseteq DeletingPods

\* The test of DeletingStorage.
CheckStorage(p) ==
    \/ DeletingStorage  /\ Proceed(p, "storage", "accepted")
    \/ ~DeletingStorage /\ Proceed(p, "storage", "deletePV")

-------------------------------------------------------------------------------
(***************************************************************************)
(* DeleteUserStorage, for all three of its callers                         *)
(***************************************************************************)
\* For one kind: the object starts terminating and a watch for its end is
\* started only now, or there is none and that is as good.
DeleteObject(d, k, at, next) ==
    /\ GotoD(d, at, next)
    /\ \/ /\ object[k] # None
          /\ mark' = [mark EXCEPT ![<<d, k>>] = object[k]]
          /\ terminating' = terminating \cup {k}
          /\ goneWatch' = Watched(goneWatch, storedGone, <<d, k>>)
          /\ UNCHANGED storedGone
       \/ /\ object[k] = None
          /\ storedGone' = Sent(storedGone, {<<d, k>>}, "true")
          /\ UNCHANGED <<mark, terminating, goneWatch>>
    /\ UNCHANGED <<pod, object, ready, creation, serverMaps, listed, cleaned, sweeping>>

DeletePV(d)  == DeleteObject(d, "PV", "deletePV", "deletePVC")
DeletePVC(d) == DeleteObject(d, "PVC", "deletePVC", "combine")

\* Any other error: deletePod logs it and answers all the same, the others
\* return it.
DeleteObjectFails(d) ==
    /\ ApiMayFail
    /\ \E from \in {"deletePV", "deletePVC"} :
          Proceed(d, from, IF d \in Pods THEN "accepted" ELSE "failed")

\* clean_all_unused registers nothing.
AfterCombine(d) == IF d \in Cleanups THEN "finish" ELSE "registerStorage"

\* Faulty variant: the outcome for the volume is ignored.
CombineGoneOfPVC(d) ==
    /\ GotoD(d, "combine", AfterCombine(d))
    /\ storedGone[<<d, "PV">>] # NoValue
    /\ storedGone[<<d, "PVC">>] # NoValue
    /\ cleaned' = Sent(cleaned, {d}, storedGone[<<d, "PVC">>])
    /\ UNCHANGED <<k8s, creation, serverMaps, listed, mark, goneWatch, storedGone, sweeping>>

\* DeleteUserStorage does not return before both channels have a value.
CombineGone(d) ==
    /\ GotoD(d, "combine", AfterCombine(d))
    /\ storedGone[<<d, "PV">>] # NoValue
    /\ storedGone[<<d, "PVC">>] # NoValue
    /\ cleaned' = Sent(cleaned, {d}, Both(storedGone[<<d, "PV">>], storedGone[<<d, "PVC">>]))
    /\ UNCHANGED <<k8s, creation, serverMaps, listed, mark, goneWatch, storedGone, sweeping>>

RegisterStorage(d) ==
    /\ GotoD(d, "registerStorage", IF d \in Pods THEN "accepted" ELSE "finish")
    /\ DeletingStorage' = TRUE
    /\ removing' = removing \cup {d}
    /\ UNCHANGED <<k8s, creation, DeletingPods, listed, cleaning, sweeping>>

RemoveStorage(d) ==
    /\ d \in removing
    /\ cleaned[d] # NoValue
    /\ DeletingStorage' = FALSE
    /\ removing' = removing \ {d}
    /\ UNCHANGED <<k8s, creation, DeletingPods, deletion>>

OpenGoneWatch(d, k) ==
    /\ goneWatch[<<d, k>>] = "spawned"
    /\ goneWatch' = [goneWatch EXCEPT ![<<d, k>>] = "open"]
    /\ UNCHANGED <<k8s, creation, serverMaps, dpc, listed, mark, storedGone, cleaned, sweeping>>

GoneWatchFails(d, k) ==
    /\ ApiMayFail
    /\ goneWatch[<<d, k>>] = "spawned"
    /\ SendGone({<<d, k>>}, "false")
    /\ UNCHANGED <<k8s, creation, serverMaps, dpc, listed, mark, cleaned, sweeping>>

\* Faulty variant: pvcChan has no timer.
StoredGoneTimeoutOfPV(d, k) ==
    /\ dpc[d] \in {"deletePV", "deletePVC", "combine"}
    /\ k = "PV"
    /\ storedGone[<<d, k>>] = NoValue
    /\ SendGone({<<d, k>>}, "false")
    /\ UNCHANGED <<k8s, creation, serverMaps, dpc, listed, mark, cleaned, sweeping>>

\* The timers of pvChan, pvcChan and cleanedStorage.
StoredGoneTimeout(d, k) ==
    /\ dpc[d] \in {"deletePV", "deletePVC", "combine"}
    /\ k = "PVC" => dpc[d] # "deletePV"
    /\ storedGone[<<d, k>>] = NoValue
    /\ SendGone({<<d, k>>}, "false")
    /\ UNCHANGED <<k8s, creation, serverMaps, dpc, listed, mark, cleaned, sweeping>>

CleanedTimeout(d) ==
    /\ dpc[d] \in {"deletePV", "deletePVC", "combine"}
    /\ cleaned[d] = NoValue
    /\ cleaned' = Sent(cleaned, {d}, "false")
    /\ UNCHANGED <<k8s, creation, serverMaps, dpc, listed, mark, goneWatch, storedGone,
                   sweeping>>

-------------------------------------------------------------------------------
(***************************************************************************)
(* delete_all_user: list the pods; for each one, in the order of the list, *)
(* test DeletingPods, delete the pod and register it; then delete the      *)
(* storage, register that, and wait for everything.                        *)
(***************************************************************************)
\* The pod p is done with; the caller puts it into asked or left.
Swept(d, p, from) ==
    /\ GotoD(d, from, "sweep")
    /\ listed' = [listed EXCEPT ![d] = @ \ {p}]
    /\ current' = [current EXCEPT ![d] = None]
    /\ UNCHANGED <<k8s, creation, DeletingStorage, removing, cleaning, finished>>

ListAll(d) == d \in DeleteAlls /\ ListPods(d, "idle", "sweep")

ListAllFails(d) == d \in DeleteAlls /\ ApiMayFail /\ Proceed(d, "idle", "failed")

\* The pod is being deleted already: `continue`.
SkipDeleting(d) ==
    \E p \in listed[d] \cap DeletingPods :
        /\ Swept(d, p, "sweep")
        /\ left' = [left EXCEPT ![d] = @ \cup {p}]
        /\ UNCHANGED <<DeletingPods, asked>>

ChoosePod(d) ==
    \E p \in listed[d] \ DeletingPods :
        /\ GotoD(d, "sweep", "call")
        /\ current' = [current EXCEPT ![d] = p]
        /\ UNCHANGED <<k8s, creation, serverMaps, listed, cleaning, asked, left, finished>>

\* DeletePod(ch), and `go RunDeleteJobsWhenReady`.
CallDeletion(d) ==
    /\ GotoD(d, "call", "registerPod")
    /\ pod[current[d]] \in {"present", "terminating"}
    /\ pod' = [pod EXCEPT ![current[d]] = "terminating"]
    /\ UNCHANGED <<object, ready, terminating, creation, serverMaps, listed, cleaning, sweeping>>

\* The pod is gone since it was listed, or the call failed: `continue`.
CallDeletionFails(d) ==
    /\ Swept(d, current[d], "call")
    /\ pod[current[d]] = "gone" \/ ApiMayFail
    /\ left' = [left EXCEPT ![d] = @ \cup {current[d]}]
    /\ UNCHANGED <<DeletingPods, asked>>

RegisterSwept(d) ==
    /\ Swept(d, current[d], "registerPod")
    /\ DeletingPods' = DeletingPods \cup {current[d]}
    /\ asked' = [asked EXCEPT ![d] = @ \cup {current[d]}]
    /\ UNCHANGED left

AllSwept(d) == d \in DeleteAlls /\ Proceed(d, "sweep", "deletePV") /\ listed[d] = {}

-------------------------------------------------------------------------------
(***************************************************************************)
(* clean_all_unused, for the claim of the user                             *)
(***************************************************************************)
ListClaims(d) ==
    /\ d \in Cleanups
    /\ \/ object["PVC"] # None /\ Proceed(d, "idle", "list")
       \/ object["PVC"] = None /\ Proceed(d, "idle", "finish")
       \/ ApiMayFail /\ Proceed(d, "idle", "failed")

ListOwnersPods(d) == d \in Cleanups /\ ListPods(d, "list", "check")

ListOwnersPodsFails(d) == d \in Cleanups /\ ApiMayFail /\ Proceed(d, "list", "failed")

CheckOwnersPods(d) ==
    /\ d \in Cleanups
    /\ \/ listed[d] # {} /\ Proceed(d, "check", "finish")
       \/ listed[d] = {} /\ Proceed(d, "check", "deletePV")

-------------------------------------------------------------------------------
\* Faulty variant: the outcome for the storage is not put into chanList.
CombinePodsOnly(d) ==
    /\ dpc[d] = "finish"
    /\ finished[d] = NoValue
    /\ \E v \in Values :
        /\ v = "true" => \A p \in asked[d] : pod[p] = "gone"
        /\ finished' = Sent(finished, {d}, v)
    /\ UNCHANGED <<k8s, creation, serverMaps, dpc, listed, cleaning, current, asked, left>>

\* `go CombineReadyChannels(chanList, finished)`: true only if the deletion of
\* each pod and of the storage reported true.  What a pod's deletion reports is
\* the subject of module PodServer: true only when the pod is gone.
CombineAll(d) ==
    /\ dpc[d] = "finish"
    /\ finished[d] = NoValue
    /\ \E v \in Values :
        /\ v = "true" =>
              /\ \A p \in asked[d] : pod[p] = "gone"
              /\ cleaned[d] = "true" \/ (cleaned[d] = NoValue /\ d \in Cleanups)
        /\ finished' = Sent(finished, {d}, v)
    /\ UNCHANGED <<k8s, creation, serverMaps, dpc, listed, cleaning, current, asked, left>>

FinishedTimeout(d) ==
    /\ d \in Sweeps
    /\ dpc[d] \notin {"idle", "accepted", "failed"}
    /\ finished[d] = NoValue
    /\ finished' = Sent(finished, {d}, "false")
    /\ UNCHANGED <<k8s, creation, serverMaps, dpc, listed, cleaning, current, asked, left>>

\* finished.Receive(), and the response.
Answer(d) == d \in Sweeps /\ Proceed(d, "finish", "accepted") /\ finished[d] # NoValue

-------------------------------------------------------------------------------
(***************************************************************************)
(* Kubernetes.  A claim goes once no pod uses it, a volume once it is no   *)
(* longer claimed.  The events reach the watches that are open.            *)
(***************************************************************************)
ReadyWatchers(k) == {x \in Creates \X {k} : readyWatch[x] = "open"}
GoneWatchers(k)  == {x \in Deletions \X {k} : goneWatch[x] = "open"}

PodGone(p) ==
    /\ pod[p] = "terminating"
    /\ pod' = [pod EXCEPT ![p] = "gone"]
    /\ UNCHANGED <<object, ready, terminating, creation, serverMaps, deletion>>

\* A volume becomes Available; a claim is Bound once the volume is there.
ObjectReady(k) ==
    /\ object[k] # None
    /\ k \notin ready \cup terminating
    /\ k = "PVC" => "PV" \in ready
    /\ ready' = ready \cup {k}
    /\ SendReady(ReadyWatchers(k), "true")
    /\ UNCHANGED <<pod, object, terminating, cpc, combining, storageReady,
                   serverMaps, deletion>>

\* A later Modified event of a claim that is still Bound.
ClaimModified ==
    /\ "PVC" \in ready
    /\ SendReady(ReadyWatchers("PVC"), "true")
    /\ UNCHANGED <<k8s, cpc, combining, storageReady, serverMaps, deletion>>

ObjectGone(k) ==
    /\ k \in terminating
    /\ k = "PVC" => \A p \in Mounting : pod[p] \notin {"present", "terminating"}
    /\ k = "PV" => object["PVC"] = None
    /\ object' = [object EXCEPT ![k] = None]
    /\ ready' = ready \ {k}
    /\ terminating' = terminating \ {k}
    /\ SendGone(GoneWatchers(k), "true")
    /\ UNCHANGED <<pod, creation, serverMaps, dpc, listed, mark, cleaned, sweeping>>

CreateSteps(c) ==
    \/ ListPV(c) \/ CreatePV(c) \/ ListPVC(c) \/ CreatePVC(c) \/ StorageCallFails(c)
    \/ CreatePod(c) \/ CreatePodFails(c)
    \/ CombineReady(c) \/ StorageReadyTimeout(c)
    \/ \E k \in Kinds :
        OpenReadyWatch(c, k) \/ ReadyWatchFails(c, k) \/ StoredReadyTimeout(c, k)

DeleteSteps(p) ==
    \/ RequestPodDeletion(p) \/ RegisterDeletion(p) \/ RemoveDeleting(p)
    \/ ListPods(p, "list", "check") \/ ListPodsFails(p)
    \/ HasRemainingPods(p) \/ NoRemainingPods(p) \/ CheckStorage(p)

StorageSteps(d) ==
    \/ DeletePV(d) \/ DeletePVC(d) \/ DeleteObjectFails(d)
    \/ CombineGone(d) \/ CleanedTimeout(d) \/ RegisterStorage(d) \/ RemoveStorage(d)
    \/ \E k \in Kinds :
        OpenGoneWatch(d, k) \/ GoneWatchFails(d, k) \/ StoredGoneTimeout(d, k)

SweepSteps(d) ==
    \/ ListAll(d) \/ ListAllFails(d) \/ SkipDeleting(d) \/ ChoosePod(d)
    \/ CallDeletion(d) \/ CallDeletionFails(d) \/ RegisterSwept(d) \/ AllSwept(d)
    \/ ListClaims(d) \/ ListOwnersPods(d) \/ ListOwnersPodsFails(d) \/ CheckOwnersPods(d)
    \/ CombineAll(d) \/ FinishedTimeout(d) \/ Answer(d)

Kubernetes ==
    \/ \E p \in Pods : PodGone(p)
    \/ \E k \in Kinds : ObjectReady(k) \/ ObjectGone(k)
    \/ ClaimModified

Next ==
    \/ \E c \in Creates : CreateSteps(c)
    \/ \E p \in Pods : DeleteSteps(p)
    \/ \E d \in Deletions : StorageSteps(d)
    \/ \E d \in Sweeps : SweepSteps(d)
    \/ Kubernetes

Spec == Init /\ [][Next]_vars

\* A deletion that has begun goes on, timers fire, and a terminating pod is gone
\* after its grace period.  Not assumed: that storage objects go, or in time.
Fairness ==
    /\ \A p \in Pods :
        /\ WF_vars(RegisterDeletion(p))
        /\ WF_vars(ListPods(p, "list", "check") \/ ListPodsFails(p))
        /\ WF_vars(HasRemainingPods(p) \/ NoRemainingPods(p))
        /\ WF_vars(CheckStorage(p))
        /\ WF_vars(RemoveDeleting(p))
        /\ WF_vars(PodGone(p))
    /\ \A d \in Deletions :
        /\ WF_vars(DeletePV(d) \/ DeletePVC(d) \/ DeleteObjectFails(d))
        /\ WF_vars(CombineGone(d))
        /\ WF_vars(RegisterStorage(d))
        /\ WF_vars(RemoveStorage(d))
        /\ \A k \in Kinds : WF_vars(StoredGoneTimeout(d, k))
    /\ \A d \in Sweeps :
        /\ WF_vars(\/ SkipDeleting(d) \/ ChoosePod(d) \/ CallDeletion(d) \/ CallDeletionFails(d)
                   \/ RegisterSwept(d) \/ AllSwept(d))
        /\ WF_vars(ListOwnersPods(d) \/ ListOwnersPodsFails(d) \/ CheckOwnersPods(d))
        /\ WF_vars(FinishedTimeout(d) \/ Answer(d))

FairSpec == Spec /\ Fairness

-------------------------------------------------------------------------------
(***************************************************************************)
(* Properties                                                              *)
(***************************************************************************)
\* When cleanedStorage reports true, every object that the deletion found is
\* gone, also if a watch saw the end of some other object of that name or was
\* opened after the end (managed.go:172-221).
CleanedMeansDeleted ==
    \A d \in Deletions : cleaned[d] = "true" =>
        \A k \in Kinds : mark[<<d, k>>] # None => object[k] # mark[<<d, k>>]

\* delete_all_user answers {deleted: true} only when "all objects were deleted"
\* (server.go:636), at least while the user creates nothing: each pod of the list
\* that mounts the storage is gone, also if it was passed over because another
\* request deletes it or because the call failed, and so are the volume and the
\* claim.  It is the claim that waits for such pods.
AllDeletedMeansGone ==
    \A d \in DeleteAlls :
        finished[d] = "true" /\ (\A c \in Creates : cpc[c] = "listPV") =>
        /\ \A p \in asked[d] \cup (left[d] \cap Mounting) : pod[p] = "gone"
        /\ \A k \in Kinds : object[k] = None

\* Storage is not asked to go while a pod that deletePod has seen in the list is
\* there and nobody deletes it, between whichever steps of other requests the list
\* was taken and used (server.go:386-404).
NoListedPodLosesStorage ==
    [][\A p \in Pods, k \in Kinds :
          mark[<<p, k>>] = None /\ mark'[<<p, k>>] # None =>
          \A q \in listed[p] : pod[q] # "present"]_vars

\* The client of a delete_pod request gets its answer, although deletePod waits
\* for the storage before it returns (managed.go:219, server.go:470, 482).
DeletionAnswers == \A p \in Pods : (dpc[p] = "register") ~> (dpc[p] = "accepted")

\* delete_all_user and clean_all_unused are answered, whatever happens to the
\* pods and the storage meanwhile (server.go:637, 757).
SweepAnswers ==
    \A d \in Sweeps : (dpc[d] \notin {"idle", "failed"}) ~> (dpc[d] \in {"accepted", "failed"})

\* A creation is told that storage it has made itself is ready only when the
\* volume is Available and the claim Bound, whichever way the two watches, the
\* timers, the failing calls and a deletion fall out (managed.go:223-273).
StorageReadyMeansReady ==
    \A c \in Creates :
        storageReady[c] = "true" /\ (\A k \in Kinds : object[k] = c) => ready = Kinds

\* "Then if the user doesn't have remaining pods, call for deletion of their
\* storage" (server.go:460): when all pods of the user have been deleted, so is,
\* in the end, the storage.
LastPodTakesStorage ==
    (\A p \in Pods : pod[p] = "gone")
        ~> (\A k \in Kinds : object[k] = None \/ k \in terminating)
===============================================================================
