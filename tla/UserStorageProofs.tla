-------------------------- MODULE UserStorageProofs --------------------------
(***************************************************************************)
(* Proofs about UserStorage for any pods, creations and deletions of the   *)
(* user, with API calls failing at will: the type invariant, what a        *)
(* successful deletion of the storage means, that no pod which was seen in *)
(* the list loses its storage, and, for creations that do not meet, that   *)
(* storage reported ready was ready.                                       *)
(***************************************************************************)
EXTENDS UserStorage, TLAPS

\* Where a request is before it has asked for the deletion of the object.
BeforeDelete(k) ==
    {"idle", "register", "list", "check", "storage", "sweep", "call", "registerPod", "deletePV"}
        \cup (IF k = "PVC" THEN {"deletePVC"} ELSE {})

\* Where CreatePod is before it has made the object, if it does.
BeforeCreate(k) ==
    {"listPV", "createPV"} \cup (IF k = "PVC" THEN {"listPVC", "createPVC"} ELSE {})

\* Before the call, no object has been found and nothing reports its end.
Unasked ==
    \A d \in Deletions, k \in Kinds :
        dpc[d] \in BeforeDelete(k) =>
            mark[<<d, k>>] = None /\ goneWatch[<<d, k>>] = "none" /\ storedGone[<<d, k>>] # "true"

\* A creation makes an object of each kind at most once, so that an object that
\* is gone never comes back.
Unmade ==
    \A c \in Creates, k \in Kinds :
        cpc[c] \in BeforeCreate(k) =>
            object[k] # c /\ \A d \in Deletions : mark[<<d, k>>] # c

\* A true of the watch, or of the call that found nothing, stands for the end of
\* the object that was found.
Ended ==
    \A d \in Deletions, k \in Kinds :
        storedGone[<<d, k>>] = "true" /\ mark[<<d, k>>] # None => object[k] # mark[<<d, k>>]

Combined ==
    \A d \in Deletions : cleaned[d] = "true" => \A k \in Kinds : storedGone[<<d, k>>] = "true"

\* A pod in DeletingPods, or about to be put there, has been asked to go; one that
\* was not created yet is neither there nor on a list.
Deleting ==
    /\ \A d \in Sweeps :
          /\ dpc[d] = "call" => current[d] \in listed[d]
          /\ dpc[d] = "registerPod" =>
                current[d] \in Pods /\ pod[current[d]] \in {"terminating", "gone"}
    /\ \A p \in Pods : p \in DeletingPods \/ dpc[p] = "register" =>
          pod[p] \in {"terminating", "gone"}
    /\ \A c \in Creates : cpc[c] # "created" => pod[c] = "absent"

\* What the list has told deletePod about the pods that it acts upon.
Listing ==
    /\ \A d \in Deletions : \A q \in listed[d] : pod[q] # "absent"
    /\ \A p \in Pods :
        /\ dpc[p] \in {"idle", "register", "list"} => listed[p] = {}
        /\ dpc[p] \in {"storage", "deletePV", "deletePVC"} =>
              \A q \in listed[p] : pod[q] # "present"

IInv ==
    /\ TypeOK
    /\ Unasked
    /\ Unmade
    /\ Ended
    /\ Combined
    /\ Deleting
    /\ Listing

USE UserStorageAssumption
USE DEF Pods, Sweeps, Deletions, k8s, creation, serverMaps, cleaning, sweeping, deletion

\* A Send settles the empty cells it reaches and leaves all others alone.
LEMMA SentCells ==
  ASSUME NEW D, NEW chans \in [D -> Cells], NEW S, NEW v \in Values
  PROVE  /\ Sent(chans, S, v) \in [D -> Cells]
         /\ \A x \in D : Sent(chans, S, v)[x] =
                IF x \in S /\ chans[x] = NoValue THEN v ELSE chans[x]
  BY DEF Sent, Cells

LEMMA ValuesAre == "true" \in Values /\ "false" \in Values /\ NoValue # "true"
  BY DEF Values, NoValue

LEMMA BothIs ==
  ASSUME NEW v, NEW w
  PROVE  Both(v, w) \in Values /\ (Both(v, w) = "true" => v = "true" /\ w = "true")
  BY DEF Both, Values

LEMMA KindsAre == "PV" \in Kinds /\ "PVC" \in Kinds /\ \A k \in Kinds : k = "PV" \/ k = "PVC"
  BY DEF Kinds

LEMMA InitIInv == Init => IInv
<1> SUFFICES ASSUME Init PROVE IInv
  OBVIOUS
<1>1. TypeOK
  BY DEF Init, TypeOK, Cells, Objects, PodStates, Watches, CreatePCs, DeletePCs
<1>2. Unasked /\ Unmade /\ Ended /\ Combined
  BY DEF Init, Unasked, Unmade, Ended, Combined, NoValue
<1>3. Deleting /\ Listing
  BY DEF Init, Deleting, Listing
<1> QED
  BY <1>1, <1>2, <1>3 DEF IInv

-------------------------------------------------------------------------------
\* Steps of a creation that leave Kubernetes and every deletion alone.
LEMMA CreationStepsIInv ==
  ASSUME IInv, NEW c \in Creates,
         \/ ListPV(c) \/ ListPVC(c) \/ StorageCallFails(c) \/ CreatePodFails(c)
         \/ CombineReady(c) \/ StorageReadyTimeout(c)
         \/ \E k \in Kinds : OpenReadyWatch(c, k) \/ ReadyWatchFails(c, k)
                                \/ StoredReadyTimeout(c, k)
  PROVE  IInv'
<1> USE DEF ListPV, ListPVC
<1>1. UNCHANGED <<k8s, serverMaps, deletion>>
  BY DEF ListFinds, ListFindsNone, StorageCallFails, CreatePodFails, CombineReady,
         StorageReadyTimeout, OpenReadyWatch, ReadyWatchFails, StoredReadyTimeout
<1>2. /\ cpc' \in [Creates -> CreatePCs]
      /\ \A x \in Creates :
            /\ cpc'[x] = "created" <=> cpc[x] = "created"
            /\ \A k \in Kinds : cpc'[x] \in BeforeCreate(k) => cpc[x] \in BeforeCreate(k)
  <2>1. CASE ListPV(c) \/ ListPVC(c)
    BY <2>1, KindsAre DEF ListFinds, ListFindsNone, GotoC, IInv, TypeOK, CreatePCs, BeforeCreate
  <2>2. CASE StorageCallFails(c)
    BY <2>2, KindsAre DEF StorageCallFails, GotoC, IInv, TypeOK, CreatePCs, BeforeCreate
  <2>3. CASE CreatePodFails(c)
    BY <2>3, KindsAre DEF CreatePodFails, GotoC, IInv, TypeOK, CreatePCs, BeforeCreate
  <2>4. CASE UNCHANGED cpc
    BY <2>4 DEF IInv, TypeOK
  <2> QED
    BY <2>1, <2>2, <2>3, <2>4
       DEF CombineReady, StorageReadyTimeout, OpenReadyWatch, ReadyWatchFails,
           StoredReadyTimeout
<1>3. /\ readyWatch' \in [Creates \X Kinds -> Watches]
      /\ combining' \subseteq Creates
  <2>1. CASE ListPV(c) \/ ListPVC(c)
    BY <2>1, KindsAre
       DEF ListFinds, ListFindsNone, StartCombining, Watched, IInv, TypeOK, Watches
  <2>2. CASE StorageCallFails(c) \/ CreatePodFails(c) \/ CombineReady(c)
                \/ StorageReadyTimeout(c)
    BY <2>2 DEF StorageCallFails, CreatePodFails, CombineReady, StorageReadyTimeout, IInv, TypeOK
  <2>3. ASSUME NEW k \in Kinds,
               OpenReadyWatch(c, k) \/ ReadyWatchFails(c, k) \/ StoredReadyTimeout(c, k)
        PROVE  /\ readyWatch' \in [Creates \X Kinds -> Watches]
               /\ combining' \subseteq Creates
    <3>1. readyWatch \in [Creates \X Kinds -> Watches] /\ combining \subseteq Creates
      BY DEF IInv, TypeOK
    <3>2. CASE OpenReadyWatch(c, k)
      BY <3>1, <3>2 DEF OpenReadyWatch, Watches
    <3>3. CASE ReadyWatchFails(c, k) \/ StoredReadyTimeout(c, k)
      <4>1. readyWatch' = Unwatched(readyWatch, {<<c, k>>}) /\ UNCHANGED combining
        BY <3>3 DEF ReadyWatchFails, StoredReadyTimeout, SendReady
      <4> QED
        BY <3>1, <4>1 DEF Unwatched, Watches
    <3> QED
      BY <2>3, <3>2, <3>3
  <2> QED
    BY <2>1, <2>2, <2>3
<1>4. storedReady' \in [Creates \X Kinds -> Cells]
  <2> DEFINE cells == [Creates \X Kinds -> Cells]
  <2>1. storedReady \in cells
    BY DEF IInv, TypeOK
  <2>2. \A k \in Kinds, v \in Values : Sent(storedReady, {<<c, k>>}, v) \in cells
    BY <2>1, SentCells
  <2>3. CASE UNCHANGED storedReady
    BY <2>1, <2>3
  <2>4. ASSUME NEW k \in Kinds, NEW v \in Values, storedReady' = Sent(storedReady, {<<c, k>>}, v)
        PROVE  storedReady' \in cells
    BY <2>2, <2>4
  <2>5. \/ UNCHANGED storedReady
        \/ \E k \in Kinds, v \in Values : storedReady' = Sent(storedReady, {<<c, k>>}, v)
    BY KindsAre, ValuesAre
       DEF ListFinds, ListFindsNone, StorageCallFails, CreatePodFails, CombineReady,
           StorageReadyTimeout, OpenReadyWatch, ReadyWatchFails, StoredReadyTimeout, SendReady
  <2> QED
    BY <2>3, <2>4, <2>5
<1>5. storageReady' \in [Creates -> Cells]
  <2>1. storageReady \in [Creates -> Cells]
    BY DEF IInv, TypeOK
  <2>2. ASSUME NEW v \in Values PROVE Sent(storageReady, {c}, v) \in [Creates -> Cells]
    BY <2>1, SentCells
  <2>3. \/ UNCHANGED storageReady
        \/ \E v \in Values : storageReady' = Sent(storageReady, {c}, v)
    BY BothIs, ValuesAre
       DEF ListFinds, ListFindsNone, StorageCallFails, CreatePodFails, CombineReady,
           StorageReadyTimeout, OpenReadyWatch, ReadyWatchFails, StoredReadyTimeout
  <2> QED
    BY <2>1, <2>2, <2>3
<1>6. TypeOK'
  BY <1>1, <1>2, <1>3, <1>4, <1>5 DEF IInv, TypeOK
<1>7. Unasked' /\ Ended' /\ Combined' /\ Listing'
  BY <1>1 DEF IInv, Unasked, Ended, Combined, Listing
<1>8. Unmade' /\ Deleting'
  BY <1>1, <1>2 DEF IInv, Unmade, Deleting
<1> QED
  BY <1>6, <1>7, <1>8 DEF IInv

LEMMA CreateObjectIInv ==
  ASSUME IInv, NEW c \in Creates, CreatePV(c) \/ CreatePVC(c) PROVE IInv'
<1>1. PICK k \in Kinds :
         /\ object[k] = None /\ object' = [object EXCEPT ![k] = c]
         /\ cpc[c] \in BeforeCreate(k)
         /\ UNCHANGED <<pod, ready, terminating, readyWatch, storedReady, storageReady,
                        serverMaps, deletion>>
  BY KindsAre DEF CreatePV, CreatePVC, CreateObject, GotoC, BeforeCreate
<1>2. /\ cpc' \in [Creates -> CreatePCs] /\ combining' \subseteq Creates
      /\ \A x \in Creates : cpc'[x] = "created" <=> cpc[x] = "created"
      /\ \A x \in Creates, j \in Kinds : cpc'[x] \in BeforeCreate(j) =>
            cpc[x] \in BeforeCreate(j)
      /\ cpc'[c] \notin BeforeCreate(k)
  <2>1. CASE CreatePV(c)
    <3>1. k = "PV"
      BY <1>1, <2>1, KindsAre DEF CreatePV, CreateObject, IInv, TypeOK
    <3> QED
      BY <2>1, <3>1, KindsAre DEF CreatePV, CreateObject, StartCombining, GotoC, IInv, TypeOK,
                        CreatePCs, BeforeCreate
  <2>2. CASE CreatePVC(c)
    <3>1. cpc'[c] = "createPod"
      BY <2>2 DEF CreatePVC, CreateObject, GotoC, IInv, TypeOK
    <3> QED
      BY <2>2, <3>1, KindsAre DEF CreatePVC, CreateObject, StartCombining, GotoC, IInv, TypeOK,
                        CreatePCs, BeforeCreate
  <2> QED
    BY <2>1, <2>2
<1>3. TypeOK'
  BY <1>1, <1>2 DEF IInv, TypeOK, Objects
<1>4. Unasked' /\ Combined' /\ Listing' /\ Deleting'
  BY <1>1, <1>2 DEF IInv, Unasked, Combined, Listing, Deleting
<1>5. \A d \in Deletions : mark[<<d, k>>] # c
  BY <1>1 DEF IInv, Unmade
<1>6. Ended'
  BY <1>1, <1>5 DEF IInv, TypeOK, Ended
<1>7. Unmade'
  BY <1>1, <1>2 DEF IInv, TypeOK, Unmade
<1> QED
  BY <1>3, <1>4, <1>6, <1>7 DEF IInv

LEMMA CreatePodIInv ==
  ASSUME IInv, NEW c \in Creates, CreatePod(c) PROVE IInv'
<1>1. /\ cpc[c] = "createPod" /\ cpc' = [cpc EXCEPT ![c] = "created"]
      /\ pod' = [pod EXCEPT ![c] = "present"]
      /\ UNCHANGED <<object, ready, terminating, readyWatch, storedReady, combining,
                     storageReady, serverMaps, deletion>>
  BY DEF CreatePod, GotoC
<1>2. pod[c] = "absent"
  BY <1>1 DEF IInv, Deleting
<1>3. TypeOK'
  BY <1>1 DEF IInv, TypeOK, CreatePCs, PodStates
<1>4. Unasked' /\ Ended' /\ Combined'
  BY <1>1 DEF IInv, Unasked, Ended, Combined
<1>5. Unmade'
  BY <1>1, KindsAre DEF IInv, TypeOK, Unmade, BeforeCreate
<1>6. Deleting'
  BY <1>1, <1>2 DEF IInv, TypeOK, Deleting
<1>7. Listing'
  <2>1. \A p \in Pods : \A q \in listed[p] : pod'[q] = pod[q]
    BY <1>1, <1>2 DEF IInv, TypeOK, Listing
  <2> QED
    BY <1>1, <2>1 DEF IInv, TypeOK, Listing
<1> QED
  BY <1>3, <1>4, <1>5, <1>6, <1>7 DEF IInv

-------------------------------------------------------------------------------
\* Steps of a deletion up to the calls that delete the storage.

\* A step that only leads to another place of the handler, if what must hold there
\* of the list does.
LEMMA ProceedIInv ==
  ASSUME IInv, NEW d \in Deletions, NEW from \in DeletePCs, NEW to \in DeletePCs,
         Proceed(d, from, to),
         to \notin {"call", "registerPod"},
         \A k \in Kinds : to \in BeforeDelete(k) => from \in BeforeDelete(k),
         d \in Pods => to \notin {"idle", "register", "list"},
         d \in Pods /\ to \in {"storage", "deletePV", "deletePVC"} =>
            \A q \in listed[d] : pod[q] # "present"
  PROVE  IInv'
<1>1. /\ dpc[d] = from /\ dpc' = [dpc EXCEPT ![d] = to]
      /\ UNCHANGED <<k8s, creation, serverMaps, listed, cleaning, sweeping>>
  BY DEF Proceed, GotoD
<1>2. TypeOK'
  BY <1>1 DEF IInv, TypeOK
<1>3. Ended' /\ Combined' /\ Unmade'
  BY <1>1 DEF IInv, Ended, Combined, Unmade
<1>4. Unasked'
  BY <1>1 DEF IInv, TypeOK, Unasked
<1>5. Deleting'
  BY <1>1 DEF IInv, TypeOK, Deleting
<1>6. Listing'
  BY <1>1 DEF IInv, TypeOK, Listing
<1> QED
  BY <1>2, <1>3, <1>4, <1>5, <1>6 DEF IInv

LEMMA RequestPodDeletionIInv ==
  ASSUME IInv, NEW p \in Pods, RequestPodDeletion(p) PROVE IInv'
<1>1. /\ dpc[p] = "idle" /\ dpc' = [dpc EXCEPT ![p] = "register"]
      /\ pod[p] \in {"present", "terminating"} /\ pod' = [pod EXCEPT ![p] = "terminating"]
      /\ UNCHANGED <<object, ready, terminating, creation, serverMaps, listed, cleaning,
                     sweeping>>
  BY DEF RequestPodDeletion, GotoD
<1>2. TypeOK'
  BY <1>1 DEF IInv, TypeOK, DeletePCs, PodStates
<1>3. Unasked' /\ Ended' /\ Combined' /\ Unmade'
  BY <1>1 DEF IInv, TypeOK, Unasked, BeforeDelete, Ended, Combined, Unmade
<1>4. Deleting'
  BY <1>1 DEF IInv, TypeOK, Deleting
<1>5. Listing'
  BY <1>1 DEF IInv, TypeOK, Listing
<1> QED
  BY <1>2, <1>3, <1>4, <1>5 DEF IInv

LEMMA RegisterDeletionIInv ==
  ASSUME IInv, NEW p \in Pods, RegisterDeletion(p) PROVE IInv'
<1>1. /\ dpc[p] = "register" /\ dpc' = [dpc EXCEPT ![p] = "list"]
      /\ DeletingPods' = DeletingPods \cup {p}
      /\ UNCHANGED <<k8s, creation, DeletingStorage, removing, listed, cleaning, sweeping>>
  BY DEF RegisterDeletion, GotoD
<1>2. TypeOK'
  BY <1>1 DEF IInv, TypeOK, DeletePCs
<1>3. Unasked' /\ Ended' /\ Combined' /\ Unmade'
  BY <1>1 DEF IInv, TypeOK, Unasked, BeforeDelete, Ended, Combined, Unmade
<1>4. Deleting'
  BY <1>1 DEF IInv, TypeOK, Deleting
<1>5. Listing'
  BY <1>1 DEF IInv, TypeOK, Listing
<1> QED
  BY <1>2, <1>3, <1>4, <1>5 DEF IInv

\* The list has pods that are there.
LEMMA ListPodsIInv ==
  ASSUME IInv, NEW d \in Deletions, NEW at, NEW next,
         at \in {"idle", "list"}, next \in {"check", "sweep"}, ListPods(d, at, next)
  PROVE  IInv'
<1>1. /\ dpc[d] = at /\ dpc' = [dpc EXCEPT ![d] = next]
      /\ listed' = [listed EXCEPT ![d] =
                        {q \in Pods : pod[q] \in {"present", "terminating"}}]
      /\ UNCHANGED <<k8s, creation, serverMaps, cleaning, sweeping>>
  BY DEF ListPods, GotoD
<1>2. TypeOK'
  BY <1>1 DEF IInv, TypeOK, DeletePCs
<1>3. Unasked' /\ Ended' /\ Combined' /\ Unmade'
  BY <1>1 DEF IInv, TypeOK, Unasked, BeforeDelete, Ended, Combined, Unmade
<1>4. Deleting'
  BY <1>1 DEF IInv, TypeOK, Deleting
<1>5. Listing'
  BY <1>1 DEF IInv, TypeOK, Listing
<1> QED
  BY <1>2, <1>3, <1>4, <1>5 DEF IInv

\* The tests of deletePod, and the ways out before any storage is asked to go.  A
\* list that failed is empty.
LEMMA ChecksIInv ==
  ASSUME IInv, NEW p \in Pods,
         ListPodsFails(p) \/ HasRemainingPods(p) \/ NoRemainingPods(p) \/ CheckStorage(p)
  PROVE  IInv'
<1>1. CASE ListPodsFails(p)
  BY <1>1, ProceedIInv
     DEF ListPodsFails, Proceed, GotoD, IInv, Listing, DeletePCs, BeforeDelete
<1>2. CASE HasRemainingPods(p)
  BY <1>2, ProceedIInv DEF HasRemainingPods, DeletePCs, BeforeDelete
<1>3. CASE NoRemainingPods(p)
  <2>1. \A q \in listed[p] : q \in Pods /\ pod[q] # "present"
    BY <1>3 DEF NoRemainingPods, IInv, TypeOK, Deleting
  <2> QED
    BY <1>3, <2>1, ProceedIInv DEF NoRemainingPods, DeletePCs, BeforeDelete
<1>4. CASE CheckStorage(p)
  BY <1>4, ProceedIInv
     DEF CheckStorage, Proceed, GotoD, IInv, Listing, DeletePCs, BeforeDelete
<1> QED
  BY <1>1, <1>2, <1>3, <1>4

\* The ways out of the requests that delete more than one pod, and the way on.
LEMMA OtherStepsIInv ==
  ASSUME IInv, NEW d \in Deletions,
         \/ DeleteObjectFails(d)
         \/ d \in Sweeps /\ \/ ListAllFails(d) \/ AllSwept(d) \/ ListClaims(d)
                            \/ ListOwnersPodsFails(d) \/ CheckOwnersPods(d) \/ Answer(d)
  PROVE  IInv'
<1>1. CASE DeleteObjectFails(d)
  BY <1>1, ProceedIInv DEF DeleteObjectFails, DeletePCs, BeforeDelete
<1>2. CASE d \in Sweeps
  BY <1>1, <1>2, ProceedIInv
     DEF ListAllFails, AllSwept, ListClaims, ListOwnersPodsFails, CheckOwnersPods, Answer,
         DeletePCs, BeforeDelete
<1> QED
  BY <1>1, <1>2

-------------------------------------------------------------------------------
\* The loop of delete_all_user.
LEMMA SweptIInv ==
  ASSUME IInv, NEW d \in Sweeps, SkipDeleting(d) \/ CallDeletionFails(d) \/ RegisterSwept(d)
  PROVE  IInv'
<1>1. PICK p : \E at \in {"sweep", "call", "registerPod"} : Swept(d, p, at)
  BY DEF SkipDeleting, CallDeletionFails, RegisterSwept
<1>2. /\ dpc[d] \in {"sweep", "call", "registerPod"} /\ dpc' = [dpc EXCEPT ![d] = "sweep"]
      /\ listed' = [listed EXCEPT ![d] = listed[d] \ {p}]
      /\ current' = [current EXCEPT ![d] = None]
      /\ UNCHANGED <<k8s, creation, DeletingStorage, removing, cleaning, finished>>
  BY <1>1 DEF Swept, GotoD, IInv, TypeOK
<1>3. /\ asked' \in [Sweeps -> SUBSET Pods] /\ left' \in [Sweeps -> SUBSET Pods]
      /\ DeletingPods' \subseteq Pods
      /\ \A q \in DeletingPods' : q \in DeletingPods \/ pod[q] \in {"terminating", "gone"}
  <2>1. CASE SkipDeleting(d)
    BY <2>1 DEF SkipDeleting, Swept, IInv, TypeOK
  <2>2. CASE CallDeletionFails(d)
    BY <2>2 DEF CallDeletionFails, Swept, GotoD, IInv, TypeOK, Deleting
  <2>3. CASE RegisterSwept(d)
    BY <2>3 DEF RegisterSwept, Swept, GotoD, IInv, TypeOK, Deleting
  <2> QED
    BY <2>1, <2>2, <2>3
<1>4. TypeOK'
  BY <1>2, <1>3 DEF IInv, TypeOK, DeletePCs
<1>5. Unasked' /\ Ended' /\ Combined' /\ Unmade'
  BY <1>2 DEF IInv, TypeOK, Unasked, BeforeDelete, Ended, Combined, Unmade
<1>6. Deleting'
  BY <1>2, <1>3 DEF IInv, TypeOK, Deleting
<1>7. Listing'
  BY <1>2 DEF IInv, TypeOK, Listing
<1> QED
  BY <1>4, <1>5, <1>6, <1>7 DEF IInv

LEMMA CallDeletionIInv ==
  ASSUME IInv, NEW d \in Sweeps, ChoosePod(d) \/ CallDeletion(d) PROVE IInv'
<1>1. CASE ChoosePod(d)
  <2>1. PICK p \in Pods :
           /\ p \in listed[d]
           /\ dpc[d] = "sweep" /\ dpc' = [dpc EXCEPT ![d] = "call"]
           /\ current' = [current EXCEPT ![d] = p]
           /\ UNCHANGED <<k8s, creation, serverMaps, listed, cleaning, asked, left, finished>>
    BY <1>1 DEF ChoosePod, GotoD, IInv, TypeOK
  <2>2. TypeOK'
    BY <2>1 DEF IInv, TypeOK, DeletePCs
  <2>3. Unasked' /\ Ended' /\ Combined' /\ Unmade'
    BY <2>1 DEF IInv, TypeOK, Unasked, BeforeDelete, Ended, Combined, Unmade
  <2>4. Deleting'
    BY <2>1 DEF IInv, TypeOK, Deleting
  <2>5. Listing'
    BY <2>1 DEF IInv, TypeOK, Listing
  <2> QED
    BY <2>2, <2>3, <2>4, <2>5 DEF IInv
<1>2. CASE CallDeletion(d)
  <2>1. PICK p \in Pods :
           /\ p = current[d]
           /\ dpc[d] = "call" /\ dpc' = [dpc EXCEPT ![d] = "registerPod"]
           /\ pod[p] \in {"present", "terminating"} /\ pod' = [pod EXCEPT ![p] = "terminating"]
           /\ UNCHANGED <<object, ready, terminating, creation, serverMaps, listed, cleaning,
                          sweeping>>
    BY <1>2 DEF CallDeletion, GotoD, IInv, TypeOK, Deleting
  <2>2. TypeOK'
    BY <2>1 DEF IInv, TypeOK, DeletePCs, PodStates
  <2>3. Unasked' /\ Ended' /\ Combined' /\ Unmade'
    BY <2>1 DEF IInv, TypeOK, Unasked, BeforeDelete, Ended, Combined, Unmade
  <2>4. Deleting'
    BY <2>1 DEF IInv, TypeOK, Deleting
  <2>5. Listing'
    BY <2>1 DEF IInv, TypeOK, Listing
  <2> QED
    BY <2>2, <2>3, <2>4, <2>5 DEF IInv
<1> QED
  BY <1>1, <1>2

\* What is sent into finished.
LEMMA FinishedIInv ==
  ASSUME IInv, NEW d \in Sweeps, CombineAll(d) \/ FinishedTimeout(d) PROVE IInv'
<1>1. UNCHANGED <<k8s, creation, serverMaps, dpc, listed, cleaning, current, asked, left>>
  BY DEF CombineAll, FinishedTimeout
<1>2. finished' \in [Sweeps -> Cells]
  <2>1. finished \in [Sweeps -> Cells]
    BY DEF IInv, TypeOK
  <2>2. PICK v \in Values : finished' = Sent(finished, {d}, v)
    BY ValuesAre DEF CombineAll, FinishedTimeout
  <2>3. Sent(finished, {d}, v) \in [Sweeps -> Cells]
    BY <2>1, SentCells
  <2> QED
    BY <2>2, <2>3
<1>3. TypeOK'
  BY <1>1, <1>2 DEF IInv, TypeOK
<1>4. Unasked' /\ Ended' /\ Combined' /\ Unmade' /\ Deleting' /\ Listing'
  BY <1>1 DEF IInv, Unasked, Ended, Combined, Unmade, Deleting, Listing
<1> QED
  BY <1>3, <1>4 DEF IInv

-------------------------------------------------------------------------------
\* The calls that delete the storage, their watches, timers and outcome.
LEMMA DeleteObjectIInv ==
  ASSUME IInv, NEW d \in Deletions, NEW k \in Kinds, NEW at, NEW next,
         \/ k = "PV" /\ at = "deletePV" /\ next = "deletePVC"
         \/ k = "PVC" /\ at = "deletePVC" /\ next = "combine",
         DeleteObject(d, k, at, next)
  PROVE  IInv'
<1>1. /\ dpc[d] = at /\ dpc' = [dpc EXCEPT ![d] = next]
      /\ UNCHANGED <<pod, object, ready, creation, serverMaps, listed, cleaned, sweeping>>
  BY DEF DeleteObject, GotoD
<1>2. dpc[d] \in BeforeDelete(k)
  BY <1>1 DEF BeforeDelete
<1>3. mark[<<d, k>>] = None /\ storedGone[<<d, k>>] # "true" /\ goneWatch[<<d, k>>] = "none"
  BY <1>2 DEF IInv, Unasked
<1>4. \A q \in Deletions, j \in Kinds : dpc'[q] \in BeforeDelete(j) =>
         dpc[q] \in BeforeDelete(j) /\ <<q, j>> # <<d, k>>
  BY <1>1, KindsAre DEF BeforeDelete, IInv, TypeOK
<1>5. Deleting' /\ Listing'
  BY <1>1 DEF IInv, TypeOK, Deleting, Listing
<1>6. CASE object[k] # None
  <2>1. /\ mark' = [mark EXCEPT ![<<d, k>>] = object[k]]
        /\ terminating' = terminating \cup {k}
        /\ goneWatch' = Watched(goneWatch, storedGone, <<d, k>>)
        /\ UNCHANGED storedGone
    BY <1>6 DEF DeleteObject
  <2>2. TypeOK'
    BY <1>1, <2>1 DEF IInv, TypeOK, DeletePCs, Watches, Watched
  <2>3. \A q \in Deletions, j \in Kinds : <<q, j>> # <<d, k>> =>
           mark'[<<q, j>>] = mark[<<q, j>>] /\ goneWatch'[<<q, j>>] = goneWatch[<<q, j>>]
    BY <2>1 DEF IInv, TypeOK, Watched
  <2>4. mark'[<<d, k>>] = object[k]
    BY <2>1 DEF IInv, TypeOK
  <2>5. Unasked'
    BY <1>4, <2>1, <2>3 DEF IInv, Unasked
  <2>6. Ended' /\ Combined'
    BY <1>1, <1>3, <2>1, <2>3 DEF IInv, Ended, Combined
  <2>7. Unmade'
    BY <1>1, <2>3, <2>4 DEF IInv, Unmade
  <2> QED
    BY <1>5, <2>2, <2>5, <2>6, <2>7 DEF IInv
<1>7. CASE object[k] = None
  <2>1. storedGone' = Sent(storedGone, {<<d, k>>}, "true")
        /\ UNCHANGED <<mark, terminating, goneWatch>>
    BY <1>7 DEF DeleteObject
  <2>2. /\ storedGone' \in [Deletions \X Kinds -> Cells]
        /\ \A q \in Deletions, j \in Kinds : storedGone'[<<q, j>>] =
              IF <<q, j>> = <<d, k>> /\ storedGone[<<d, k>>] = NoValue THEN "true"
              ELSE storedGone[<<q, j>>]
    <3>1. storedGone \in [Deletions \X Kinds -> Cells]
      BY DEF IInv, TypeOK
    <3>2. \A q \in Deletions, j \in Kinds : <<q, j>> \in Deletions \X Kinds
      OBVIOUS
    <3> QED
      BY <2>1, <3>1, <3>2, SentCells, ValuesAre
  <2>3. TypeOK'
    BY <1>1, <2>1, <2>2 DEF IInv, TypeOK, DeletePCs
  <2>4. Unasked'
    BY <1>4, <2>1, <2>2 DEF IInv, Unasked
  <2>5. Ended'
    <3> SUFFICES ASSUME NEW q \in Deletions, NEW j \in Kinds,
                        storedGone'[<<q, j>>] = "true", mark[<<q, j>>] # None
                 PROVE  object[j] # mark[<<q, j>>]
      BY <1>1, <2>1 DEF Ended
    <3>1. <<q, j>> # <<d, k>>
      BY <1>3
    <3> QED
      BY <2>2, <3>1 DEF IInv, Ended
  <2>6. Combined'
    BY <1>1, <2>2 DEF IInv, Combined
  <2>7. Unmade'
    BY <1>1, <2>1 DEF IInv, Unmade
  <2> QED
    BY <1>5, <2>3, <2>4, <2>5, <2>6, <2>7 DEF IInv
<1> QED
  BY <1>6, <1>7

\* Storage that reports its end with a false says nothing; so does a false from
\* the timer of the whole deletion.
LEMMA FalseIInv ==
  ASSUME IInv, NEW d \in Deletions, NEW k \in Kinds,
         \/ OpenGoneWatch(d, k) \/ GoneWatchFails(d, k) \/ StoredGoneTimeout(d, k)
         \/ CleanedTimeout(d)
  PROVE  IInv'
<1>1. UNCHANGED <<k8s, creation, serverMaps, dpc, listed, mark, sweeping>>
  BY DEF OpenGoneWatch, GoneWatchFails, StoredGoneTimeout, CleanedTimeout
<1>2. /\ storedGone' \in [Deletions \X Kinds -> Cells]
      /\ \A q \in Deletions, j \in Kinds :
            storedGone'[<<q, j>>] = "true" <=> storedGone[<<q, j>>] = "true"
  <2>1. storedGone \in [Deletions \X Kinds -> Cells]
    BY DEF IInv, TypeOK
  <2>2. CASE storedGone' = Sent(storedGone, {<<d, k>>}, "false")
    <3>1. \A q \in Deletions, j \in Kinds : <<q, j>> \in Deletions \X Kinds
      OBVIOUS
    <3> QED
      BY <2>1, <2>2, <3>1, SentCells, ValuesAre
  <2>3. CASE UNCHANGED storedGone
    BY <2>1, <2>3
  <2> QED
    BY <2>2, <2>3
       DEF OpenGoneWatch, GoneWatchFails, StoredGoneTimeout, CleanedTimeout, SendGone
<1>3. /\ cleaned' \in [Deletions -> Cells]
      /\ \A q \in Deletions : cleaned'[q] = "true" => cleaned[q] = "true"
  <2>1. cleaned \in [Deletions -> Cells]
    BY DEF IInv, TypeOK
  <2>2. CASE CleanedTimeout(d)
    BY <2>1, <2>2, SentCells, ValuesAre DEF CleanedTimeout
  <2>3. CASE UNCHANGED cleaned
    BY <2>1, <2>3
  <2> QED
    BY <2>2, <2>3 DEF OpenGoneWatch, GoneWatchFails, StoredGoneTimeout
<1>4. /\ goneWatch' \in [Deletions \X Kinds -> Watches]
      /\ \A q \in Deletions, j \in Kinds :
            goneWatch[<<q, j>>] = "none" => goneWatch'[<<q, j>>] = "none"
  <2>1. goneWatch \in [Deletions \X Kinds -> Watches]
    BY DEF IInv, TypeOK
  <2>2. CASE OpenGoneWatch(d, k)
    BY <2>1, <2>2 DEF OpenGoneWatch, Watches
  <2>3. CASE goneWatch' = Unwatched(goneWatch, {<<d, k>>})
    BY <2>1, <2>3 DEF Unwatched, Watches
  <2>4. CASE UNCHANGED goneWatch
    BY <2>1, <2>4
  <2> QED
    BY <2>2, <2>3, <2>4 DEF GoneWatchFails, StoredGoneTimeout, CleanedTimeout, SendGone
<1>5. TypeOK'
  BY <1>1, <1>2, <1>3, <1>4 DEF IInv, TypeOK
<1>6. Unasked' /\ Ended' /\ Combined'
  BY <1>1, <1>2, <1>3, <1>4 DEF IInv, Unasked, Ended, Combined
<1>7. Unmade' /\ Deleting' /\ Listing'
  BY <1>1 DEF IInv, Unmade, Deleting, Listing
<1> QED
  BY <1>5, <1>6, <1>7 DEF IInv

LEMMA CombineGoneIInv ==
  ASSUME IInv, NEW d \in Deletions, CombineGone(d) PROVE IInv'
<1>1. /\ dpc[d] = "combine" /\ dpc' = [dpc EXCEPT ![d] = AfterCombine(d)]
      /\ AfterCombine(d) \in {"registerStorage", "finish"}
      /\ UNCHANGED <<k8s, creation, serverMaps, listed, mark, goneWatch, storedGone, sweeping>>
  BY DEF CombineGone, AfterCombine, GotoD
<1>2. /\ cleaned' \in [Deletions -> Cells]
      /\ \A q \in Deletions : cleaned'[q] = "true" =>
            \/ cleaned[q] = "true"
            \/ q = d /\ storedGone[<<d, "PV">>] = "true" /\ storedGone[<<d, "PVC">>] = "true"
  <2> DEFINE v == Both(storedGone[<<d, "PV">>], storedGone[<<d, "PVC">>])
  <2>1. cleaned \in [Deletions -> Cells] /\ cleaned' = Sent(cleaned, {d}, v)
    BY DEF CombineGone, IInv, TypeOK
  <2>2. v \in Values
        /\ (v = "true" => storedGone[<<d, "PV">>] = "true" /\ storedGone[<<d, "PVC">>] = "true")
    BY BothIs
  <2> HIDE DEF v
  <2>3. /\ Sent(cleaned, {d}, v) \in [Deletions -> Cells]
        /\ \A q \in Deletions : Sent(cleaned, {d}, v)[q] =
              IF q \in {d} /\ cleaned[q] = NoValue THEN v ELSE cleaned[q]
    BY <2>1, <2>2, SentCells
  <2> QED
    BY <2>1, <2>2, <2>3
<1>3. TypeOK'
  BY <1>1, <1>2 DEF IInv, TypeOK, DeletePCs
<1>4. Unasked' /\ Ended' /\ Unmade'
  BY <1>1 DEF IInv, TypeOK, Unasked, BeforeDelete, Ended, Unmade
<1>5. Combined'
  BY <1>1, <1>2, KindsAre DEF IInv, Combined
<1>6. Deleting' /\ Listing'
  BY <1>1 DEF IInv, TypeOK, Deleting, Listing
<1> QED
  BY <1>3, <1>4, <1>5, <1>6 DEF IInv

\* Entries come and go.
LEMMA EntriesIInv ==
  ASSUME IInv, NEW d \in Deletions, RemoveDeleting(d) \/ RegisterStorage(d) \/ RemoveStorage(d)
  PROVE  IInv'
<1>1. /\ DeletingPods' \subseteq DeletingPods /\ removing' \subseteq Deletions
      /\ DeletingStorage' \in BOOLEAN
      /\ UNCHANGED <<k8s, creation, listed, cleaning, sweeping>>
  BY DEF RemoveDeleting, RegisterStorage, RemoveStorage, IInv, TypeOK
<1>2. \/ UNCHANGED dpc
      \/ /\ dpc[d] = "registerStorage"
         /\ \E to \in {"accepted", "finish"} : dpc' = [dpc EXCEPT ![d] = to]
  BY DEF RemoveDeleting, RegisterStorage, RemoveStorage, GotoD
<1>3. TypeOK'
  BY <1>1, <1>2 DEF IInv, TypeOK, DeletePCs
<1>4. Ended' /\ Combined' /\ Unmade'
  BY <1>1 DEF IInv, Ended, Combined, Unmade
<1>5. Unasked'
  BY <1>1, <1>2 DEF IInv, TypeOK, Unasked, BeforeDelete
<1>6. Deleting' /\ Listing'
  BY <1>1, <1>2 DEF IInv, TypeOK, Deleting, Listing
<1> QED
  BY <1>3, <1>4, <1>5, <1>6 DEF IInv

-------------------------------------------------------------------------------
\* The API server: a true is sent only when an object is gone.
LEMMA KubernetesIInv == ASSUME IInv, Kubernetes PROVE IInv'
<1>1. ASSUME NEW p \in Pods, PodGone(p) PROVE IInv'
  <2>1. /\ pod[p] = "terminating" /\ pod' = [pod EXCEPT ![p] = "gone"]
        /\ UNCHANGED <<object, ready, terminating, creation, serverMaps, deletion>>
    BY <1>1 DEF PodGone
  <2>2. TypeOK'
    BY <2>1 DEF IInv, TypeOK, PodStates
  <2>3. Unasked' /\ Ended' /\ Combined' /\ Unmade'
    BY <2>1 DEF IInv, Unasked, Ended, Combined, Unmade
  <2>4. Deleting' /\ Listing'
    BY <2>1 DEF IInv, TypeOK, Deleting, Listing
  <2> QED
    BY <2>2, <2>3, <2>4 DEF IInv
<1>2. ASSUME (\E k \in Kinds : ObjectReady(k)) \/ ClaimModified PROVE IInv'
  <2>1. /\ UNCHANGED <<pod, object, terminating, cpc, combining, storageReady,
                       serverMaps, deletion>>
        /\ ready' \subseteq Kinds
        /\ readyWatch' \in [Creates \X Kinds -> Watches]
    BY <1>2 DEF ObjectReady, ClaimModified, SendReady, Unwatched, IInv, TypeOK, Watches
  <2>2. storedReady' \in [Creates \X Kinds -> Cells]
    <3> DEFINE cells == [Creates \X Kinds -> Cells]
    <3>1. storedReady \in cells
      BY DEF IInv, TypeOK
    <3>2. \A k \in Kinds : Sent(storedReady, ReadyWatchers(k), "true") \in cells
      BY <3>1, SentCells, ValuesAre
    <3>3. \E k \in Kinds : storedReady' = Sent(storedReady, ReadyWatchers(k), "true")
      BY <1>2, KindsAre DEF ObjectReady, ClaimModified, SendReady
    <3> QED
      BY <3>2, <3>3
  <2>3. TypeOK'
    BY <2>1, <2>2 DEF IInv, TypeOK
  <2>4. Unasked' /\ Ended' /\ Combined' /\ Unmade' /\ Deleting' /\ Listing'
    BY <2>1 DEF IInv, Unasked, Ended, Combined, Unmade, Deleting,
                Listing
  <2> QED
    BY <2>3, <2>4 DEF IInv
<1>3. ASSUME NEW k \in Kinds, ObjectGone(k) PROVE IInv'
  <2>1. /\ object' = [object EXCEPT ![k] = None]
        /\ ready' \subseteq ready /\ terminating' \subseteq terminating
        /\ storedGone' = Sent(storedGone, GoneWatchers(k), "true")
        /\ goneWatch' = Unwatched(goneWatch, GoneWatchers(k))
        /\ UNCHANGED <<pod, creation, serverMaps, dpc, listed, mark, cleaned, sweeping>>
    BY <1>3 DEF ObjectGone, SendGone
  <2>2. /\ storedGone' \in [Deletions \X Kinds -> Cells]
        /\ \A q \in Deletions, j \in Kinds :
              /\ storedGone[<<q, j>>] = "true" => storedGone'[<<q, j>>] = "true"
              /\ storedGone'[<<q, j>>] = "true" =>
                    \/ storedGone[<<q, j>>] = "true"
                    \/ j = k /\ goneWatch[<<q, j>>] = "open"
    <3>1. storedGone \in [Deletions \X Kinds -> Cells]
      BY DEF IInv, TypeOK
    <3>2. /\ Sent(storedGone, GoneWatchers(k), "true") \in [Deletions \X Kinds -> Cells]
          /\ \A x \in Deletions \X Kinds : Sent(storedGone, GoneWatchers(k), "true")[x] =
                IF x \in GoneWatchers(k) /\ storedGone[x] = NoValue THEN "true"
                ELSE storedGone[x]
      BY <3>1, SentCells, ValuesAre
    <3>3. \A q \in Deletions, j \in Kinds :
             /\ <<q, j>> \in Deletions \X Kinds
             /\ <<q, j>> \in GoneWatchers(k) => j = k /\ goneWatch[<<q, j>>] = "open"
      BY DEF GoneWatchers
    <3> QED
      BY <2>1, <3>2, <3>3, ValuesAre
  <2>3. TypeOK'
    BY <2>1, <2>2 DEF IInv, TypeOK, Unwatched, Watches
  <2>4. Unasked'
    BY <2>1, <2>2 DEF IInv, TypeOK, Unasked, Unwatched
  <2>5. Ended'
    BY <2>1, <2>2 DEF IInv, TypeOK, Ended
  <2>6. Unmade'
    BY <2>1 DEF IInv, TypeOK, Unmade
  <2>7. Combined' /\ Deleting' /\ Listing'
    BY <2>1, <2>2 DEF IInv, Combined, Deleting, Listing
  <2> QED
    BY <2>3, <2>4, <2>5, <2>6, <2>7 DEF IInv
<1> QED
  BY <1>1, <1>2, <1>3 DEF Kubernetes

LEMMA NextIInv == IInv /\ [Next]_vars => IInv'
<1> SUFFICES ASSUME IInv, [Next]_vars PROVE IInv'
  OBVIOUS
<1>1. ASSUME NEW c \in Creates, CreateSteps(c) PROVE IInv'
  BY <1>1, CreationStepsIInv, CreateObjectIInv, CreatePodIInv DEF CreateSteps
<1>2. ASSUME NEW p \in Pods, DeleteSteps(p) PROVE IInv'
  BY <1>2, RequestPodDeletionIInv, RegisterDeletionIInv, ListPodsIInv, ChecksIInv, EntriesIInv
     DEF DeleteSteps
<1>3. ASSUME NEW d \in Deletions, StorageSteps(d) PROVE IInv'
  <2>1. CASE DeletePV(d) \/ DeletePVC(d)
    BY <2>1, KindsAre, DeleteObjectIInv DEF DeletePV, DeletePVC
  <2>2. CASE ~(DeletePV(d) \/ DeletePVC(d))
    BY <1>3, <2>2, KindsAre, OtherStepsIInv, FalseIInv, CombineGoneIInv, EntriesIInv
       DEF StorageSteps
  <2> QED
    BY <2>1, <2>2
<1>4. ASSUME NEW d \in Sweeps, SweepSteps(d) PROVE IInv'
  <2>1. CASE ListAll(d) \/ ListOwnersPods(d)
    BY <2>1, ListPodsIInv DEF ListAll, ListOwnersPods
  <2>2. CASE ~(ListAll(d) \/ ListOwnersPods(d))
    BY <1>4, <2>2, OtherStepsIInv, SweptIInv, CallDeletionIInv, FinishedIInv DEF SweepSteps
  <2> QED
    BY <2>1, <2>2
<1>5. CASE UNCHANGED vars
  BY <1>5 DEF vars, IInv, TypeOK, Unasked, Unmade, Ended, Combined, Deleting, Listing
<1> QED
  BY <1>1, <1>2, <1>3, <1>4, <1>5, KubernetesIInv DEF Next

THEOREM Inductive == Spec => []IInv
  BY InitIInv, NextIInv, PTL DEF Spec

\* The type invariant, for any pods and creations.
THEOREM TypeCorrect == Spec => []TypeOK
<1>1. IInv => TypeOK
  BY DEF IInv
<1> QED
  BY <1>1, Inductive, PTL

\* cleanedStorage reports true only when each object that DeleteUserStorage
\* found is gone, whatever other creations and deletions of the user do
\* (managed.go:172-221).
THEOREM SuccessIsTheEnd == Spec => []CleanedMeansDeleted
<1>1. IInv => CleanedMeansDeleted
  BY DEF IInv, Combined, Ended, CleanedMeansDeleted
<1> QED
  BY <1>1, Inductive, PTL

\* No storage is asked to go while a pod that userHasRemainingPods saw in the
\* list is there and nobody deletes it (server.go:386-404).
THEOREM ListedPodsKeepStorage == Spec => NoListedPodLosesStorage
<1> DEFINE Keeps ==
      \A p \in Pods, k \in Kinds :
          mark[<<p, k>>] = None /\ mark'[<<p, k>>] # None =>
              \A q \in listed[p] : pod[q] # "present"
<1>1. IInv /\ [Next]_vars => [Keeps]_vars
  <2> SUFFICES ASSUME IInv, Next, NEW p \in Pods, NEW k \in Kinds,
                      mark[<<p, k>>] = None, mark'[<<p, k>>] # None
               PROVE  \A q \in listed[p] : pod[q] # "present"
    OBVIOUS
  <2>1. mark' # mark
    OBVIOUS
  <2>2. ASSUME NEW c \in Creates, CreateSteps(c) PROVE FALSE
    BY <2>1, <2>2
       DEF CreateSteps, ListPV, CreatePV, ListPVC, CreatePVC, ListFinds, ListFindsNone,
           CreateObject, StorageCallFails, CreatePod, CreatePodFails, CombineReady,
           StorageReadyTimeout, OpenReadyWatch, ReadyWatchFails, StoredReadyTimeout
  <2>3. ~Kubernetes
    BY <2>1 DEF Kubernetes, PodGone, ObjectReady, ObjectGone, ClaimModified
  <2>4. ASSUME NEW q \in Pods, DeleteSteps(q) PROVE FALSE
    BY <2>1, <2>4
       DEF DeleteSteps, RequestPodDeletion, RegisterDeletion, RemoveDeleting, ListPods,
           ListPodsFails, HasRemainingPods, NoRemainingPods, CheckStorage, Proceed
  <2>5. ASSUME NEW d \in Sweeps, SweepSteps(d) PROVE FALSE
    BY <2>1, <2>5
       DEF SweepSteps, ListAll, ListAllFails, SkipDeleting, ChoosePod, CallDeletion,
           CallDeletionFails, RegisterSwept, AllSwept, ListClaims, ListOwnersPods,
           ListOwnersPodsFails, CheckOwnersPods, CombineAll, FinishedTimeout, Answer,
           Swept, ListPods, Proceed
  <2>6. PICK r \in Deletions : StorageSteps(r)
    BY <2>2, <2>3, <2>4, <2>5 DEF Next
  <2>7. DeletePV(r) \/ DeletePVC(r)
    BY <2>1, <2>6
       DEF StorageSteps, DeleteObjectFails, CombineGone, CleanedTimeout, RegisterStorage,
           RemoveStorage, OpenGoneWatch, GoneWatchFails, StoredGoneTimeout, Proceed
  <2>8. dpc[r] \in {"deletePV", "deletePVC"}
    BY <2>7 DEF DeletePV, DeletePVC, DeleteObject, GotoD
  <2>9. r = p
    BY <2>1, <2>7 DEF DeletePV, DeletePVC, DeleteObject, IInv, TypeOK
  <2> QED
    BY <2>8, <2>9 DEF IInv, Listing
<1> QED
  BY <1>1, Inductive, PTL DEF Spec, NoListedPodLosesStorage
-------------------------------------------------------------------------------
(***************************************************************************)
(* What delete_all_user reports.  The inductive invariant has two facts    *)
(* more: what finished = "true" was computed from still holds, and, as     *)
(* long as no creation has begun, an object whose end was reported is      *)
(* gone for good and no pod that mounts the storage outlives the claim.    *)
(***************************************************************************)
Quiet == \A c \in Creates : cpc[c] = "listPV"

Passed == \A d \in Sweeps : \A q \in left[d] : pod[q] # "absent"

Reported ==
    \A d \in DeleteAlls : finished[d] = "true" =>
        /\ dpc[d] \in {"finish", "accepted"}
        /\ cleaned[d] = "true"
        /\ \A p \in asked[d] : pod[p] = "gone"

StaysGone ==
    /\ \A d \in Deletions, k \in Kinds : storedGone[<<d, k>>] = "true" => object[k] = None
    /\ object["PVC"] = None => \A p \in Mounting : pod[p] \notin {"present", "terminating"}

AInv == IInv /\ Passed /\ Reported /\ (Quiet => StaysGone)

LEMMA InitAInv == Init => AInv
<1> SUFFICES ASSUME Init PROVE AInv
  OBVIOUS
<1>1. Passed /\ Reported
  BY DEF Init, Passed, Reported, NoValue
<1>2. StaysGone
  BY KindsAre DEF Init, StaysGone, NoValue
<1> QED
  BY <1>1, <1>2, InitIInv DEF AInv

\* A creation either begins, or leaves pods and storage alone.
LEMMA CreationAInv ==
  ASSUME AInv, IInv', NEW c \in Creates, CreateSteps(c) PROVE AInv'
<1>1. UNCHANGED deletion
  BY DEF CreateSteps, ListPV, CreatePV, ListPVC, CreatePVC, ListFinds, ListFindsNone,
         CreateObject, StorageCallFails, CreatePod, CreatePodFails, CombineReady,
         StorageReadyTimeout, OpenReadyWatch, ReadyWatchFails, StoredReadyTimeout
<1>2. \/ UNCHANGED <<k8s, cpc>>
      \/ /\ \E to \in CreatePCs \ {"listPV"} : cpc' = [cpc EXCEPT ![c] = to]
         /\ UNCHANGED pod \/ (pod[c] = "absent" /\ pod' = [pod EXCEPT ![c] = "present"])
  <2>1. CASE ListPV(c) \/ CreatePV(c) \/ ListPVC(c) \/ CreatePVC(c)
    BY <2>1 DEF ListPV, CreatePV, ListPVC, CreatePVC, ListFinds, ListFindsNone, CreateObject,
                GotoC, CreatePCs
  <2>2. CASE StorageCallFails(c) \/ CreatePodFails(c)
    BY <2>2 DEF StorageCallFails, CreatePodFails, GotoC, CreatePCs
  <2>3. CASE CreatePod(c)
    BY <2>3 DEF CreatePod, GotoC, CreatePCs, AInv, IInv, Deleting
  <2> QED
    BY <2>1, <2>2, <2>3
       DEF CreateSteps, CombineReady, StorageReadyTimeout, OpenReadyWatch, ReadyWatchFails,
           StoredReadyTimeout
<1>3. Passed' /\ Reported'
  BY <1>1, <1>2 DEF AInv, IInv, TypeOK, Passed, Reported
<1>4. Quiet' => StaysGone'
  BY <1>1, <1>2 DEF AInv, IInv, TypeOK, Quiet, StaysGone
<1> QED
  BY <1>3, <1>4 DEF AInv

LEMMA DeletePodAInv ==
  ASSUME AInv, IInv', NEW p \in Pods, DeleteSteps(p) PROVE AInv'
<1>1. UNCHANGED <<object, creation, cleaning, sweeping>>
  BY DEF DeleteSteps, RequestPodDeletion, RegisterDeletion, RemoveDeleting, ListPods,
         ListPodsFails, HasRemainingPods, NoRemainingPods, CheckStorage, Proceed
<1>2. \A d \in Sweeps : dpc'[d] = dpc[d]
  BY DEF DeleteSteps, RequestPodDeletion, RegisterDeletion, RemoveDeleting, ListPods,
         ListPodsFails, HasRemainingPods, NoRemainingPods, CheckStorage, Proceed, GotoD,
         AInv, IInv, TypeOK
<1>3. \/ UNCHANGED pod
      \/ pod[p] \in {"present", "terminating"} /\ pod' = [pod EXCEPT ![p] = "terminating"]
  BY DEF DeleteSteps, RequestPodDeletion, RegisterDeletion, RemoveDeleting, ListPods,
         ListPodsFails, HasRemainingPods, NoRemainingPods, CheckStorage, Proceed
<1>4. Passed' /\ Reported'
  BY <1>1, <1>2, <1>3 DEF AInv, IInv, TypeOK, Passed, Reported
<1>5. Quiet' => StaysGone'
  BY <1>1, <1>3 DEF AInv, IInv, TypeOK, Quiet, StaysGone
<1> QED
  BY <1>4, <1>5 DEF AInv

\* A true comes only from a call that found nothing.
LEMMA StorageAInv ==
  ASSUME AInv, IInv', NEW d \in Deletions, StorageSteps(d) PROVE AInv'
<1>1. UNCHANGED <<pod, object, creation, sweeping>>
  BY DEF StorageSteps, DeletePV, DeletePVC, DeleteObject, DeleteObjectFails, Proceed,
         CombineGone, CleanedTimeout, RegisterStorage, RemoveStorage, OpenGoneWatch,
         GoneWatchFails, StoredGoneTimeout
<1>2. /\ \A x \in Deletions : cleaned[x] = "true" => cleaned'[x] = "true"
      /\ \A x \in Deletions, k \in Kinds : storedGone'[<<x, k>>] = "true" =>
            storedGone[<<x, k>>] = "true" \/ object[k] = None
  <2>1. /\ storedGone \in [Deletions \X Kinds -> Cells] /\ cleaned \in [Deletions -> Cells]
        /\ \A x \in Deletions, k \in Kinds : <<x, k>> \in Deletions \X Kinds
    BY DEF AInv, IInv, TypeOK
  <2>2. \/ UNCHANGED cleaned
        \/ \E v \in Values : cleaned' = Sent(cleaned, {d}, v)
    BY ValuesAre, BothIs
       DEF StorageSteps, DeletePV, DeletePVC, DeleteObject, DeleteObjectFails, Proceed,
           CombineGone, CleanedTimeout, RegisterStorage, RemoveStorage, OpenGoneWatch,
           GoneWatchFails, StoredGoneTimeout
  <2>3. \/ UNCHANGED storedGone
        \/ \E k \in Kinds : storedGone' = Sent(storedGone, {<<d, k>>}, "false")
        \/ \E k \in Kinds : object[k] = None /\ storedGone' = Sent(storedGone, {<<d, k>>}, "true")
    BY KindsAre
       DEF StorageSteps, DeletePV, DeletePVC, DeleteObject, DeleteObjectFails, Proceed,
           CombineGone, CleanedTimeout, RegisterStorage, RemoveStorage, OpenGoneWatch,
           GoneWatchFails, StoredGoneTimeout, SendGone
  <2>4. \A x \in Deletions : cleaned[x] = "true" => cleaned'[x] = "true"
    BY <2>1, <2>2, SentCells, ValuesAre
  <2>5. \A x \in Deletions, k \in Kinds : storedGone'[<<x, k>>] = "true" =>
           storedGone[<<x, k>>] = "true" \/ object[k] = None
    <3>1. ASSUME NEW k \in Kinds, NEW v \in Values,
                 storedGone' = Sent(storedGone, {<<d, k>>}, v)
          PROVE  \A x \in Deletions, j \in Kinds : storedGone'[<<x, j>>] = "true" =>
                    storedGone[<<x, j>>] = "true" \/ (v = "true" /\ j = k)
      BY <2>1, <3>1, SentCells
    <3>2. CASE UNCHANGED storedGone
      BY <3>2
    <3>3. CASE \E k \in Kinds : storedGone' = Sent(storedGone, {<<d, k>>}, "false")
      BY <3>1, <3>3, ValuesAre
    <3>4. CASE \E k \in Kinds : /\ object[k] = None
                               /\ storedGone' = Sent(storedGone, {<<d, k>>}, "true")
      BY <3>1, <3>4, ValuesAre
    <3> QED
      BY <2>3, <3>2, <3>3, <3>4
  <2> QED
    BY <2>4, <2>5
<1>3. \A x \in Deletions : dpc[x] \in {"finish", "accepted"} => dpc'[x] \in {"finish", "accepted"}
  BY DEF StorageSteps, DeletePV, DeletePVC, DeleteObject, DeleteObjectFails, Proceed,
         CombineGone, CleanedTimeout, RegisterStorage, RemoveStorage, OpenGoneWatch,
         GoneWatchFails, StoredGoneTimeout, GotoD, AInv, IInv, TypeOK
<1>4. Passed' /\ Reported'
  BY <1>1, <1>2, <1>3 DEF AInv, Passed, Reported
<1>5. Quiet' => StaysGone'
  BY <1>1, <1>2 DEF AInv, Quiet, StaysGone
<1> QED
  BY <1>4, <1>5 DEF AInv

\* A pod is passed over only when it was listed; finished gets true only after all
\* that was asked has been reported.
LEMMA SweepAInv ==
  ASSUME AInv, IInv', NEW d \in Sweeps, SweepSteps(d) PROVE AInv'
<1>1. UNCHANGED <<object, creation, cleaning>>
  BY DEF SweepSteps, ListAll, ListAllFails, SkipDeleting, ChoosePod, CallDeletion,
         CallDeletionFails, RegisterSwept, AllSwept, ListClaims, ListOwnersPods,
         ListOwnersPodsFails, CheckOwnersPods, CombineAll, FinishedTimeout, Answer,
         Swept, ListPods, Proceed
<1>2. CASE SkipDeleting(d) \/ CallDeletionFails(d) \/ RegisterSwept(d)
  <2>1. /\ dpc[d] \in {"sweep", "call", "registerPod"} /\ dpc' = [dpc EXCEPT ![d] = "sweep"]
        /\ UNCHANGED <<pod, finished>>
    BY <1>2 DEF SkipDeleting, CallDeletionFails, RegisterSwept, Swept, GotoD
  <2>2. \E p : /\ left' = [left EXCEPT ![d] = left[d] \cup {p}] \/ UNCHANGED left
               /\ asked' = [asked EXCEPT ![d] = asked[d] \cup {p}] \/ UNCHANGED asked
               /\ left' # left => pod[p] # "absent"
    <3>1. CASE SkipDeleting(d)
      BY <3>1 DEF SkipDeleting, AInv, IInv, Listing
    <3>2. CASE CallDeletionFails(d)
      <4>1. pod[current[d]] # "absent"
        BY <3>2 DEF CallDeletionFails, Swept, GotoD, AInv, IInv, Deleting, Listing
      <4> QED
        BY <3>2, <4>1 DEF CallDeletionFails
    <3>3. CASE RegisterSwept(d)
      BY <3>3 DEF RegisterSwept
    <3> QED
      BY <1>2, <3>1, <3>2, <3>3
  <2>3. Passed' /\ Reported'
    BY <1>1, <2>1, <2>2 DEF AInv, IInv, TypeOK, Passed, Reported
  <2>4. Quiet' => StaysGone'
    BY <1>1, <2>1 DEF AInv, Quiet, StaysGone
  <2> QED
    BY <2>3, <2>4 DEF AInv
<1>3. CASE CombineAll(d) \/ FinishedTimeout(d)
  <2>1. UNCHANGED <<pod, dpc, asked, left>>
    BY <1>3 DEF CombineAll, FinishedTimeout
  <2>2. PICK v \in Values :
           /\ finished' = Sent(finished, {d}, v)
           /\ v = "true" /\ d \in DeleteAlls =>
                 /\ dpc[d] = "finish" /\ cleaned[d] = "true"
                 /\ \A p \in asked[d] : pod[p] = "gone"
    BY <1>3, ValuesAre DEF CombineAll, FinishedTimeout
  <2>3. finished \in [Sweeps -> Cells]
    BY DEF AInv, IInv, TypeOK
  <2>4. \A x \in Sweeps : finished'[x] = IF x \in {d} /\ finished[x] = NoValue THEN v
                                         ELSE finished[x]
    BY <2>2, <2>3, SentCells
  <2>5. Passed' /\ Reported'
    BY <1>1, <2>1, <2>2, <2>4 DEF AInv, Passed, Reported
  <2>6. Quiet' => StaysGone'
    BY <1>1, <2>1 DEF AInv, Quiet, StaysGone
  <2> QED
    BY <2>5, <2>6 DEF AInv
<1>4. CASE ~(\/ SkipDeleting(d) \/ CallDeletionFails(d) \/ RegisterSwept(d)
             \/ CombineAll(d) \/ FinishedTimeout(d))
  <2>1. /\ UNCHANGED <<asked, left, finished>>
        /\ \E to \in DeletePCs : /\ dpc' = [dpc EXCEPT ![d] = to]
                                 /\ dpc[d] = "finish" => to = "accepted"
                                 /\ dpc[d] # "accepted"
    BY <1>4 DEF SweepSteps, ListAll, ListAllFails, ChoosePod, CallDeletion, AllSwept,
                ListClaims, ListOwnersPods, ListOwnersPodsFails, CheckOwnersPods, Answer,
                ListPods, Proceed, GotoD, DeletePCs
  <2>2. \/ UNCHANGED pod
        \/ \E p \in Pods : /\ pod[p] \in {"present", "terminating"}
                           /\ pod' = [pod EXCEPT ![p] = "terminating"]
    <3>1. CASE CallDeletion(d)
      BY <3>1 DEF CallDeletion, GotoD, AInv, IInv, TypeOK, Deleting
    <3> QED
      BY <1>4, <3>1
         DEF SweepSteps, ListAll, ListAllFails, ChoosePod, AllSwept, ListClaims,
             ListOwnersPods, ListOwnersPodsFails, CheckOwnersPods, Answer, ListPods, Proceed
  <2>3. Passed' /\ Reported'
    BY <1>1, <2>1, <2>2 DEF AInv, IInv, TypeOK, Passed, Reported
  <2>4. Quiet' => StaysGone'
    BY <1>1, <2>2 DEF AInv, IInv, TypeOK, Quiet, StaysGone
  <2> QED
    BY <2>3, <2>4 DEF AInv
<1> QED
  BY <1>2, <1>3, <1>4

\* A claim goes only when no pod uses it.
LEMMA KubernetesAInv == ASSUME AInv, IInv', Kubernetes PROVE AInv'
<1>1. ASSUME NEW p \in Pods, PodGone(p) PROVE AInv'
  <2>1. /\ pod' = [pod EXCEPT ![p] = "gone"]
        /\ UNCHANGED <<object, creation, deletion>>
    BY <1>1 DEF PodGone
  <2>2. Passed' /\ Reported' /\ (Quiet' => StaysGone')
    BY <2>1 DEF AInv, IInv, TypeOK, Passed, Reported, Quiet, StaysGone
  <2> QED
    BY <2>2 DEF AInv
<1>2. ASSUME (\E k \in Kinds : ObjectReady(k)) \/ ClaimModified PROVE AInv'
  <2>1. UNCHANGED <<pod, object, cpc, deletion>>
    BY <1>2 DEF ObjectReady, ClaimModified
  <2> QED
    BY <2>1 DEF AInv, Passed, Reported, Quiet, StaysGone
<1>3. ASSUME NEW k \in Kinds, ObjectGone(k) PROVE AInv'
  <2>1. /\ object' = [object EXCEPT ![k] = None]
        /\ k = "PVC" => \A p \in Mounting : pod[p] \notin {"present", "terminating"}
        /\ storedGone' = Sent(storedGone, GoneWatchers(k), "true")
        /\ UNCHANGED <<pod, creation, dpc, cleaned, sweeping>>
    BY <1>3 DEF ObjectGone, SendGone
  <2>2. \A x \in Deletions, j \in Kinds : storedGone'[<<x, j>>] = "true" =>
           storedGone[<<x, j>>] = "true" \/ j = k
    <3>1. /\ storedGone \in [Deletions \X Kinds -> Cells]
          /\ \A x \in Deletions, j \in Kinds :
                /\ <<x, j>> \in Deletions \X Kinds
                /\ <<x, j>> \in GoneWatchers(k) => j = k
      BY DEF AInv, IInv, TypeOK, GoneWatchers
    <3> QED
      BY <2>1, <3>1, SentCells, ValuesAre
  <2>3. Passed' /\ Reported'
    BY <2>1 DEF AInv, Passed, Reported
  <2>4. Quiet' => StaysGone'
    BY <2>1, <2>2, KindsAre DEF AInv, IInv, TypeOK, Quiet, StaysGone
  <2> QED
    BY <2>3, <2>4 DEF AInv
<1> QED
  BY <1>1, <1>2, <1>3 DEF Kubernetes

LEMMA NextAInv == AInv /\ [Next]_vars => AInv'
<1> SUFFICES ASSUME AInv, [Next]_vars PROVE AInv'
  OBVIOUS
<1>1. IInv'
  BY NextIInv DEF AInv
<1>2. CASE UNCHANGED vars
  BY <1>1, <1>2 DEF vars, AInv, Passed, Reported, Quiet, StaysGone
<1>3. CASE Next
  BY <1>1, <1>3, CreationAInv, DeletePodAInv, StorageAInv, SweepAInv, KubernetesAInv DEF Next
<1> QED
  BY <1>2, <1>3

\* While the user creates nothing, delete_all_user answers {deleted: true} only
\* when the pods, those it passed over included if they mount the storage, and the
\* storage are gone (server.go:564-646).
THEOREM AllDeletedIsTheEnd == Spec => []AllDeletedMeansGone
<1>1. AInv => AllDeletedMeansGone
  <2> SUFFICES ASSUME AInv, NEW d \in DeleteAlls, finished[d] = "true", Quiet
               PROVE  /\ \A p \in asked[d] \cup (left[d] \cap Mounting) : pod[p] = "gone"
                      /\ \A k \in Kinds : object[k] = None
    BY DEF AllDeletedMeansGone, Quiet
  <2>1. cleaned[d] = "true" /\ \A p \in asked[d] : pod[p] = "gone"
    BY DEF AInv, Reported
  <2>2. \A k \in Kinds : object[k] = None
    BY <2>1 DEF AInv, IInv, Combined, StaysGone
  <2>3. ASSUME NEW p \in left[d] \cap Mounting PROVE pod[p] = "gone"
    <3>1. pod[p] \notin {"present", "terminating"} /\ pod[p] # "absent"
      BY <2>2, KindsAre DEF AInv, Passed, StaysGone
    <3> QED
      BY <3>1 DEF AInv, IInv, TypeOK, PodStates
  <2> QED
    BY <2>1, <2>2, <2>3
<1> QED
  BY <1>1, InitAInv, NextAInv, PTL DEF Spec
-------------------------------------------------------------------------------
(***************************************************************************)
(* What CreateUserStorageIfNotExist reports.  Its two watches are for any  *)
(* object of the name, so what they report is about the creation's own     *)
(* object only if what it has listed is still so when it creates.          *)
(***************************************************************************)
CreatePlace(k) == IF k = "PV" THEN "createPV" ELSE "createPVC"
BeforeList(k)  == BeforeCreate(k) \ {CreatePlace(k)}

\* No other creation makes the object between the list that finds none and the call
\* that creates it.
ListStillTrue == \A c \in Creates, k \in Kinds : cpc[c] = CreatePlace(k) => object[k] = None

\* There is no watch before the list; a true before the object is made would be for
\* some other object; a true for the creation's own object is so, and stays so.
ReadyCell(c, k) ==
    /\ cpc[c] \in BeforeList(k) => readyWatch[<<c, k>>] = "none"
    /\ cpc[c] \in BeforeCreate(k) => storedReady[<<c, k>>] # "true"
    /\ object[k] = c /\ storedReady[<<c, k>>] = "true" => k \in ready

RInv ==
    /\ \A c \in Creates, k \in Kinds : ReadyCell(c, k)
    /\ \A c \in Creates : storageReady[c] = "true" => \A k \in Kinds : storedReady[<<c, k>>] = "true"
    /\ \A k \in ready : object[k] # None

LEMMA InitRInv == Init => RInv
<1> SUFFICES ASSUME Init PROVE RInv
  OBVIOUS
<1>1. \A c \in Creates, k \in Kinds : readyWatch[<<c, k>>] = "none" /\ storedReady[<<c, k>>] = NoValue
  BY DEF Init
<1>2. \A c \in Creates : storageReady[c] = NoValue
  BY DEF Init
<1>3. \A k \in ready : object[k] # None
  BY DEF Init
<1> QED
  BY <1>1, <1>2, <1>3 DEF RInv, ReadyCell, NoValue

\* A list and its outcome.
LEMMA ListRInv ==
  ASSUME IInv, RInv, NEW c \in Creates, ListPV(c) \/ ListPVC(c) PROVE RInv'
<1>0. /\ cpc \in [Creates -> CreatePCs] /\ readyWatch \in [Creates \X Kinds -> Watches]
      /\ storedReady \in [Creates \X Kinds -> Cells]
  BY DEF IInv, TypeOK
<1>1. PICK k \in Kinds, next \in CreatePCs :
         /\ cpc[c] \in BeforeList(k) /\ cpc' = [cpc EXCEPT ![c] = next]
         /\ next \notin BeforeList(k)
         /\ \A j \in Kinds : next \in BeforeList(j) => cpc[c] \in BeforeList(j)
         /\ \A j \in Kinds : next \in BeforeCreate(j) => cpc[c] \in BeforeCreate(j)
         /\ UNCHANGED <<object, ready, storageReady>>
         /\ \/ /\ storedReady' = Sent(storedReady, {<<c, k>>}, "true")
               /\ next \notin BeforeCreate(k) /\ UNCHANGED readyWatch
            \/ readyWatch' = Watched(readyWatch, storedReady, <<c, k>>) /\ UNCHANGED storedReady
  <2>1. CASE ListPV(c)
    BY <2>1, KindsAre DEF ListPV, ListFinds, ListFindsNone, GotoC, CreatePCs, BeforeList,
                          BeforeCreate, CreatePlace
  <2>2. CASE ListPVC(c)
    BY <2>2, KindsAre DEF ListPVC, ListFinds, ListFindsNone, GotoC, CreatePCs, BeforeList,
                          BeforeCreate, CreatePlace
  <2> QED
    BY <2>1, <2>2
<1>2. \A x \in Creates, j \in Kinds :
         /\ storedReady[<<x, j>>] = "true" => storedReady'[<<x, j>>] = "true"
         /\ storedReady'[<<x, j>>] = "true" =>
               \/ storedReady[<<x, j>>] = "true"
               \/ x = c /\ j = k /\ next \notin BeforeCreate(k)
  BY <1>0, <1>1, SentCells, ValuesAre
<1>3. \A x \in Creates, j \in Kinds : <<x, j>> # <<c, k>> => readyWatch'[<<x, j>>] = readyWatch[<<x, j>>]
  BY <1>0, <1>1 DEF Watched
<1>4. object[k] # c
  BY <1>1 DEF IInv, Unmade, BeforeList
<1>5. ASSUME NEW x \in Creates, NEW j \in Kinds PROVE ReadyCell(x, j)'
  <2>1. ReadyCell(x, j)
    BY DEF RInv
  <2>2. /\ cpc'[x] \in BeforeList(j) => cpc[x] \in BeforeList(j) /\ <<x, j>> # <<c, k>>
        /\ cpc'[x] \in BeforeCreate(j) => cpc[x] \in BeforeCreate(j)
        /\ x = c => cpc'[x] = next
    BY <1>0, <1>1
  <2> QED
    BY <1>1, <1>2, <1>3, <1>4, <2>1, <2>2 DEF ReadyCell, BeforeList, BeforeCreate
<1> QED
  BY <1>1, <1>2, <1>5 DEF RInv

LEMMA CreateRInv ==
  ASSUME IInv, RInv, NEW c \in Creates, CreatePV(c) \/ CreatePVC(c) PROVE RInv'
<1>0. cpc \in [Creates -> CreatePCs] /\ object \in [Kinds -> Objects \cup {None}]
  BY DEF IInv, TypeOK
<1>1. PICK k \in Kinds, next \in CreatePCs :
         /\ cpc[c] = CreatePlace(k) /\ cpc' = [cpc EXCEPT ![c] = next]
         /\ \A j \in Kinds : next \in BeforeList(j) => cpc[c] \in BeforeList(j)
         /\ \A j \in Kinds : next \in BeforeCreate(j) => cpc[c] \in BeforeCreate(j)
         /\ object[k] = None /\ object' = [object EXCEPT ![k] = c]
         /\ UNCHANGED <<ready, readyWatch, storedReady, storageReady>>
  <2>1. CASE CreatePV(c)
    BY <2>1, KindsAre DEF CreatePV, CreateObject, GotoC, CreatePCs, BeforeList, BeforeCreate,
                          CreatePlace
  <2>2. CASE CreatePVC(c)
    BY <2>2, KindsAre DEF CreatePVC, CreateObject, GotoC, CreatePCs, BeforeList, BeforeCreate,
                          CreatePlace
  <2> QED
    BY <2>1, <2>2
<1>2. storedReady[<<c, k>>] # "true"
  BY <1>1, KindsAre DEF RInv, ReadyCell, BeforeCreate, CreatePlace
<1>3. ASSUME NEW x \in Creates, NEW j \in Kinds PROVE ReadyCell(x, j)'
  <2>1. ReadyCell(x, j)
    BY DEF RInv
  <2>2. /\ cpc'[x] \in BeforeList(j) => cpc[x] \in BeforeList(j)
        /\ cpc'[x] \in BeforeCreate(j) => cpc[x] \in BeforeCreate(j)
    BY <1>0, <1>1
  <2>3. object'[j] = x => object[j] = x \/ (x = c /\ j = k)
    BY <1>0, <1>1
  <2> QED
    BY <1>1, <1>2, <2>1, <2>2, <2>3 DEF ReadyCell
<1>4. \A j \in ready : object'[j] # None
  <2>1. c # None /\ ready \subseteq Kinds
    BY DEF IInv, TypeOK
  <2> QED
    BY <1>0, <1>1, <2>1 DEF RInv
<1> QED
  BY <1>1, <1>3, <1>4 DEF RInv

\* The other steps of a creation: its cells get no true, its watches are opened or
\* end, and its outcome combines the two cells.
LEMMA OtherCreationRInv ==
  ASSUME IInv, RInv, NEW c \in Creates,
         \/ StorageCallFails(c) \/ CreatePod(c) \/ CreatePodFails(c)
         \/ CombineReady(c) \/ StorageReadyTimeout(c)
         \/ \E k \in Kinds :
              OpenReadyWatch(c, k) \/ ReadyWatchFails(c, k) \/ StoredReadyTimeout(c, k)
  PROVE  RInv'
<1>0. /\ cpc \in [Creates -> CreatePCs] /\ readyWatch \in [Creates \X Kinds -> Watches]
      /\ storedReady \in [Creates \X Kinds -> Cells] /\ storageReady \in [Creates -> Cells]
  BY DEF IInv, TypeOK
<1>1. CASE StorageCallFails(c) \/ CreatePod(c) \/ CreatePodFails(c)
  <2>1. PICK next \in {"createPod", "created", "rejected"} : cpc' = [cpc EXCEPT ![c] = next]
    BY <1>1 DEF StorageCallFails, CreatePod, CreatePodFails, GotoC
  <2>2. UNCHANGED <<object, ready, readyWatch, storedReady, storageReady>>
    BY <1>1 DEF StorageCallFails, CreatePod, CreatePodFails
  <2>3. \A x \in Creates : cpc'[x] = cpc[x] \/ cpc'[x] \in {"createPod", "created", "rejected"}
    BY <1>0, <2>1
  <2>4. \A j \in Kinds : {"createPod", "created", "rejected"} \cap BeforeCreate(j) = {}
    BY DEF BeforeCreate
  <2> QED
    BY <2>2, <2>3, <2>4 DEF RInv, ReadyCell, BeforeList
<1>2. CASE CombineReady(c) \/ StorageReadyTimeout(c)
  <2>1. UNCHANGED <<object, ready, cpc, readyWatch, storedReady>>
    BY <1>2 DEF CombineReady, StorageReadyTimeout
  <2>2. PICK v \in Values :
           /\ storageReady' = Sent(storageReady, {c}, v)
           /\ v = "true" => storedReady[<<c, "PV">>] = "true" /\ storedReady[<<c, "PVC">>] = "true"
    <3>1. CASE CombineReady(c)
      BY <3>1, BothIs DEF CombineReady
    <3>2. CASE StorageReadyTimeout(c)
      BY <3>2, ValuesAre DEF StorageReadyTimeout, Values
    <3> QED
      BY <1>2, <3>1, <3>2
  <2>3. \A x \in Creates : storageReady'[x] = "true" =>
           storageReady[x] = "true" \/ (x = c /\ v = "true")
    BY <1>0, <2>2, SentCells
  <2>4. \A x \in Creates : storageReady'[x] = "true" =>
           \A k \in Kinds : storedReady[<<x, k>>] = "true"
    BY <2>2, <2>3, KindsAre DEF RInv
  <2> QED
    BY <2>1, <2>4 DEF RInv, ReadyCell
<1>3. ASSUME NEW k \in Kinds,
             OpenReadyWatch(c, k) \/ ReadyWatchFails(c, k) \/ StoredReadyTimeout(c, k)
      PROVE  RInv'
  <2>1. UNCHANGED <<object, ready, cpc, storageReady>>
    BY <1>3 DEF OpenReadyWatch, ReadyWatchFails, StoredReadyTimeout
  <2>2. \A x \in Creates, j \in Kinds : storedReady'[<<x, j>>] = "true" <=> storedReady[<<x, j>>] = "true"
    <3>1. UNCHANGED storedReady \/ storedReady' = Sent(storedReady, {<<c, k>>}, "false")
      BY <1>3 DEF OpenReadyWatch, ReadyWatchFails, StoredReadyTimeout, SendReady
    <3> QED
      BY <1>0, <3>1, SentCells, ValuesAre
  <2>3. \A x \in Creates, j \in Kinds : readyWatch[<<x, j>>] = "none" => readyWatch'[<<x, j>>] = "none"
    <3>1. CASE OpenReadyWatch(c, k)
      BY <1>0, <3>1 DEF OpenReadyWatch
    <3>2. CASE ReadyWatchFails(c, k) \/ StoredReadyTimeout(c, k)
      <4>1. readyWatch' = Unwatched(readyWatch, {<<c, k>>})
        BY <3>2 DEF ReadyWatchFails, StoredReadyTimeout, SendReady
      <4> QED
        BY <1>0, <4>1 DEF Unwatched
    <3> QED
      BY <1>3, <3>1, <3>2
  <2> QED
    BY <2>1, <2>2, <2>3 DEF RInv, ReadyCell
<1> QED
  BY <1>1, <1>2, <1>3

\* A watch reports true only of an object that is there and ready.
LEMMA KubernetesRInv ==
  ASSUME IInv, RInv, ListStillTrue, Kubernetes PROVE RInv'
<1>0. /\ object \in [Kinds -> Objects \cup {None}] /\ ready \subseteq Kinds
      /\ readyWatch \in [Creates \X Kinds -> Watches]
      /\ storedReady \in [Creates \X Kinds -> Cells]
  BY DEF IInv, TypeOK
<1>1. CASE \E p \in Pods : PodGone(p)
  BY <1>1 DEF PodGone, RInv, ReadyCell
<1>2. ASSUME NEW k \in Kinds, ObjectGone(k) PROVE RInv'
  <2>1. /\ object' = [object EXCEPT ![k] = None] /\ ready' = ready \ {k}
        /\ UNCHANGED creation
    BY <1>2 DEF ObjectGone
  <2>2. \A j \in Kinds : j # k => object'[j] = object[j] /\ (j \in ready' <=> j \in ready)
    BY <1>0, <2>1
  <2>3. object'[k] = None /\ \A c \in Creates : c # None
    BY <1>0, <2>1
  <2>4. ASSUME NEW c \in Creates, NEW j \in Kinds PROVE ReadyCell(c, j)'
    BY <2>1, <2>2, <2>3 DEF RInv, ReadyCell
  <2>5. \A j \in ready' : object'[j] # None
    BY <1>0, <2>1, <2>2 DEF RInv
  <2> QED
    BY <2>1, <2>4, <2>5 DEF RInv
<1>3. ASSUME NEW k \in Kinds, ObjectReady(k) \/ (k = "PVC" /\ ClaimModified) PROVE RInv'
  <2>1. /\ UNCHANGED <<object, cpc, storageReady>> /\ object[k] # None
        /\ ready' = ready \cup {k}
        /\ SendReady(ReadyWatchers(k), "true")
    BY <1>3 DEF ObjectReady, ClaimModified, RInv
  <2>2. /\ storedReady' = Sent(storedReady, ReadyWatchers(k), "true")
        /\ readyWatch' = Unwatched(readyWatch, ReadyWatchers(k))
    BY <2>1 DEF SendReady
  <2>3. \A c \in Creates, j \in Kinds :
           /\ readyWatch[<<c, j>>] = "none" => readyWatch'[<<c, j>>] = "none"
           /\ storedReady[<<c, j>>] = "true" => storedReady'[<<c, j>>] = "true"
           /\ storedReady'[<<c, j>>] = "true" =>
                 storedReady[<<c, j>>] = "true" \/ (j = k /\ readyWatch[<<c, j>>] = "open")
    BY <1>0, <2>2, SentCells, ValuesAre DEF Unwatched, ReadyWatchers
  <2>4. ASSUME NEW c \in Creates, NEW j \in Kinds PROVE ReadyCell(c, j)'
    <3>1. ReadyCell(c, j)
      BY DEF RInv
    <3>2. cpc[c] = CreatePlace(j) => j # k
      BY <2>1 DEF ListStillTrue
    <3> QED
      BY <2>1, <2>3, <3>1, <3>2 DEF ReadyCell, BeforeList
  <2>5. \A j \in ready' : object'[j] # None
    BY <2>1 DEF RInv
  <2> QED
    BY <2>1, <2>3, <2>4, <2>5 DEF RInv
<1> QED
  BY <1>1, <1>2, <1>3, KindsAre DEF Kubernetes

LEMMA NextRInv == IInv /\ RInv /\ ListStillTrue /\ [Next]_vars => RInv'
<1> SUFFICES ASSUME IInv, RInv, ListStillTrue, [Next]_vars PROVE RInv'
  OBVIOUS
<1>1. CASE UNCHANGED <<object, ready, creation>>
  BY <1>1 DEF RInv, ReadyCell
<1>2. ASSUME NEW c \in Creates, CreateSteps(c) PROVE RInv'
  BY <1>2, ListRInv, CreateRInv, OtherCreationRInv DEF CreateSteps
<1>3. ASSUME NEW p \in Pods, DeleteSteps(p) PROVE UNCHANGED <<object, ready, creation>>
  BY <1>3 DEF DeleteSteps, RequestPodDeletion, RegisterDeletion, RemoveDeleting, ListPods,
              ListPodsFails, HasRemainingPods, NoRemainingPods, CheckStorage, Proceed
<1>4. ASSUME NEW d \in Deletions, StorageSteps(d) PROVE UNCHANGED <<object, ready, creation>>
  BY <1>4 DEF StorageSteps, DeletePV, DeletePVC, DeleteObject, DeleteObjectFails, Proceed,
              CombineGone, CleanedTimeout, RegisterStorage, RemoveStorage, OpenGoneWatch,
              GoneWatchFails, StoredGoneTimeout
<1>5. ASSUME NEW d \in Sweeps, SweepSteps(d) PROVE UNCHANGED <<object, ready, creation>>
  BY <1>5 DEF SweepSteps, ListAll, ListAllFails, SkipDeleting, ChoosePod, CallDeletion,
              CallDeletionFails, RegisterSwept, AllSwept, ListClaims, ListOwnersPods,
              ListOwnersPodsFails, CheckOwnersPods, CombineAll, FinishedTimeout, Answer,
              Swept, ListPods, Proceed
<1>6. CASE UNCHANGED vars
  BY <1>1, <1>6 DEF vars
<1> QED
  BY <1>1, <1>2, <1>3, <1>4, <1>5, <1>6, KubernetesRInv DEF Next

\* When a creation is told that its storage is ready, and the storage is what it has
\* made, then it is ready; a deletion in between, failing calls and the timers make no
\* difference, provided that no other creation comes between its list and its call
\* (managed.go:223-273).
THEOREM StorageReadyIsReady == Spec /\ []ListStillTrue => []StorageReadyMeansReady
<1>1. IInv /\ RInv => StorageReadyMeansReady
  <2> SUFFICES ASSUME IInv, RInv, NEW c \in Creates, storageReady[c] = "true",
                      \A k \in Kinds : object[k] = c
               PROVE  ready = Kinds
    BY DEF StorageReadyMeansReady
  <2>1. \A k \in Kinds : k \in ready
    BY DEF RInv, ReadyCell
  <2> QED
    BY <2>1 DEF IInv, TypeOK
<1> QED
  BY <1>1, Inductive, InitRInv, NextRInv, PTL DEF Spec

\* There is one creation only.
OneCreation == \A c, d \in Creates : c = d

LEMMA NextListStillTrue ==
  ASSUME OneCreation PROVE IInv /\ ListStillTrue /\ [Next]_vars => ListStillTrue'
<1> SUFFICES ASSUME IInv, ListStillTrue, [Next]_vars, NEW c \in Creates, NEW k \in Kinds,
                    cpc'[c] = CreatePlace(k)
             PROVE  object'[k] = None
  BY DEF ListStillTrue
<1>0. cpc \in [Creates -> CreatePCs] /\ object \in [Kinds -> Objects \cup {None}]
  BY DEF IInv, TypeOK
<1>1. CASE UNCHANGED <<object, cpc>>
  BY <1>1 DEF ListStillTrue
<1>2. CASE CreateSteps(c)
  <2>1. CASE ListPV(c) \/ ListPVC(c)
    BY <1>0, <2>1, KindsAre DEF ListPV, ListPVC, ListFinds, ListFindsNone, GotoC, CreatePlace
  <2>2. CASE CreatePV(c) \/ CreatePVC(c)
    BY <1>0, <2>2 DEF CreatePV, CreatePVC, CreateObject, GotoC, CreatePlace
  <2>3. CASE StorageCallFails(c) \/ CreatePod(c) \/ CreatePodFails(c)
    BY <1>0, <2>3 DEF StorageCallFails, CreatePod, CreatePodFails, GotoC, CreatePlace
  <2> QED
    BY <1>1, <1>2, <2>1, <2>2, <2>3
       DEF CreateSteps, CombineReady, StorageReadyTimeout, OpenReadyWatch, ReadyWatchFails,
           StoredReadyTimeout
<1>3. CASE Kubernetes
  <2>1. UNCHANGED cpc /\ object'[k] \in {object[k], None}
    BY <1>0, <1>3 DEF Kubernetes, PodGone, ObjectReady, ClaimModified, ObjectGone
  <2> QED
    BY <2>1 DEF ListStillTrue
<1>4. ASSUME NEW p \in Pods, DeleteSteps(p) PROVE UNCHANGED <<object, cpc>>
  BY <1>4 DEF DeleteSteps, RequestPodDeletion, RegisterDeletion, RemoveDeleting, ListPods,
              ListPodsFails, HasRemainingPods, NoRemainingPods, CheckStorage, Proceed
<1>5. ASSUME NEW d \in Deletions, StorageSteps(d) PROVE UNCHANGED <<object, cpc>>
  BY <1>5 DEF StorageSteps, DeletePV, DeletePVC, DeleteObject, DeleteObjectFails, Proceed,
              CombineGone, CleanedTimeout, RegisterStorage, RemoveStorage, OpenGoneWatch,
              GoneWatchFails, StoredGoneTimeout
<1>6. ASSUME NEW d \in Sweeps, SweepSteps(d) PROVE UNCHANGED <<object, cpc>>
  BY <1>6 DEF SweepSteps, ListAll, ListAllFails, SkipDeleting, ChoosePod, CallDeletion,
              CallDeletionFails, RegisterSwept, AllSwept, ListClaims, ListOwnersPods,
              ListOwnersPodsFails, CheckOwnersPods, CombineAll, FinishedTimeout, Answer,
              Swept, ListPods, Proceed
<1>7. \A d \in Creates : d = c
  BY DEF OneCreation
<1> QED
  BY <1>1, <1>2, <1>3, <1>4, <1>5, <1>6, <1>7 DEF Next, vars

\* With one creation nothing comes between its list and its call, and what it is told
\* holds in every behaviour, whatever the deletions do.
THEOREM OneCreationIsReady == ASSUME OneCreation PROVE Spec => []StorageReadyMeansReady
<1>1. Init => ListStillTrue
  BY KindsAre DEF Init, ListStillTrue, CreatePlace
<1>2. Spec => []ListStillTrue
  BY <1>1, NextListStillTrue, Inductive, PTL DEF Spec
<1> QED
  BY <1>2, StorageReadyIsReady, PTL
===============================================================================
