--------------------------- MODULE PodServerProofs ---------------------------
(***************************************************************************)
(* Proofs about PodServer for any users, names and requests, with names    *)
(* used again, API calls failing and their replies lost at will, and any   *)
(* number of restarts: the type invariant, and what a client may conclude  *)
(* from the answers to delete_pod.                                         *)
(***************************************************************************)
EXTENDS PodServer, TLAPS

\* The name table of Kubernetes: the object at a name was created under it,
\* and an object that is present is at its name.
Placed ==
    /\ \A n \in Names : podAt[n] # None =>
          target[podAt[n]] = n /\ phase[podAt[n]] \in Present
    /\ \A i \in Creates : phase[i] \in Present =>
          target[i] \in Names /\ podAt[target[i]] = i

\* An object exists only after its creation went through the API.
Created ==
    \A c \in Creates :
        /\ cpc[c] \notin {"idle", "rejected"} => target[c] \in Names
        /\ cpc[c] \in {"idle", "named"} => phase[c] = "none"
        /\ phase[c] # "none" => target[c] \in Names

\* The object that a deletion found had the name and the owner of the request.
\* From the API call on it terminates, and a watch that saw a deletion under
\* the name after that saw this object's deletion or a later one.
Found ==
    \A d \in Deletions :
        /\ dpc[d] # "idle" => dname[d] \in Names
        /\ found[d] # None =>
              /\ dname[d] \in Names
              /\ target[found[d]] = dname[d]
              /\ UserOf[found[d]] = UserOf[d]
              /\ phase[found[d]] # "none"
        /\ dpc[d] \in {"request", "register", "accepted"} => found[d] # None
        /\ dpc[d] \in {"register", "accepted"} =>
              phase[found[d]] \in {"terminating", "gone"}
        /\ goneWatch[d] # "none" => found[d] # None

\* A true in podDeleted or finished stands for the end of the found object.
Reported ==
    \A d \in Deletions :
        /\ podDeleted[d] = "true" => found[d] # None /\ phase[found[d]] = "gone"
        /\ deleted[d] = "true" => podDeleted[d] = "true"

\* Fresh deletions have found nothing yet.
Fresh == \A d \in Deletions : dpc[d] \in {"idle", "check", "init"} => found[d] = None

IInv ==
    /\ TypeOK
    /\ Placed
    /\ Created
    /\ Found
    /\ Reported
    /\ Fresh

USE PodServerAssumption

\* A Send settles the empty cells it reaches and leaves all others alone.
LEMMA SentCells ==
  ASSUME NEW D, NEW chans \in [D -> Cells], NEW S, NEW v \in Values
  PROVE  /\ Sent(chans, S, v) \in [D -> Cells]
         /\ \A x \in D : Sent(chans, S, v)[x] =
                IF x \in S /\ chans[x] = NoValue THEN v ELSE chans[x]
  BY DEF Sent, Cells

LEMMA ValuesAre == "true" \in Values /\ "false" \in Values /\ "true" # "false"
  BY DEF Values

LEMMA InitIInv == Init => IInv
<1> SUFFICES ASSUME Init PROVE IInv
  OBVIOUS
<1>1. TypeOK
  BY DEF Init, TypeOK, Cells, Phases, Watches, CreatePCs, DeletePCs
<1>2. Placed /\ Created /\ Found /\ Reported /\ Fresh
  BY DEF Init, Placed, Created, Found, Reported, Fresh, Present, NoValue
<1> QED
  BY <1>1, <1>2 DEF IInv

-------------------------------------------------------------------------------
\* Steps of createPod that leave Kubernetes and every deletion alone.
LEMMA ChooseNameIInv ==
  ASSUME IInv, NEW c \in Creates, ChooseName(c) PROVE IInv'
<1>1. PICK i \in Unused(UserOf[c]) :
         target' = [target EXCEPT ![c] = Candidates[UserOf[c]][i]]
  BY DEF ChooseName
<1>2. Candidates[UserOf[c]][i] \in Names
  BY <1>1 DEF Unused, Deletions
<1>3. TypeOK'
  BY <1>1, <1>2 DEF ChooseName, GotoC, IInv, TypeOK, k8s, maps, deletion, CreatePCs, Watches
<1>4. \A x \in Creates : phase[x] # "none" => target'[x] = target[x]
  BY <1>1 DEF ChooseName, GotoC, IInv, TypeOK, Created
<1>5. Placed'
  BY <1>4 DEF ChooseName, k8s, IInv, TypeOK, Placed, Present
<1>6. Created'
  BY <1>1, <1>2 DEF ChooseName, GotoC, k8s, IInv, TypeOK, Created
<1>7. Found' /\ Reported' /\ Fresh'
  BY <1>4 DEF ChooseName, k8s, deletion, IInv, TypeOK, Found, Reported, Fresh
<1> QED
  BY <1>3, <1>5, <1>6, <1>7 DEF IInv

\* The pod is made, whether the client learns of it or not.
LEMMA CreatePodIInv ==
  ASSUME IInv, NEW c \in Creates, CreatePod(c) \/ CreatePodReplyLost(c) PROVE IInv'
<1>1. /\ target[c] \in Names /\ phase[c] = "none" /\ podAt[target[c]] = None
      /\ podAt' = [podAt EXCEPT ![target[c]] = c]
      /\ phase' = [phase EXCEPT ![c] = "pending"]
      /\ UNCHANGED <<everReady, maps, target, readyWatch, podReady, created, deletion>>
      /\ cpc[c] = "named"
      /\ cpc' = [cpc EXCEPT ![c] = "created"] \/ cpc' = [cpc EXCEPT ![c] = "rejected"]
  BY DEF CreatePod, CreatePodReplyLost, MakePod, GotoC, IInv, Created
<1>2. TypeOK'
  BY <1>1 DEF IInv, TypeOK, maps, deletion, CreatePCs, Phases
<1>3. Placed'
  BY <1>1 DEF IInv, TypeOK, Placed, Present
<1>4. Created'
  BY <1>1 DEF IInv, TypeOK, Created
<1>5. \A x \in Creates \ {c} : phase'[x] = phase[x]
  BY <1>1 DEF IInv, TypeOK
<1>6. \A d \in Deletions : found[d] # c
  BY <1>1 DEF IInv, Found
<1>7. Found' /\ Reported' /\ Fresh'
  BY <1>1, <1>5, <1>6 DEF deletion, IInv, TypeOK, Found, Reported, Fresh
<1> QED
  BY <1>2, <1>3, <1>4, <1>7 DEF IInv

\* Refused creations, and steps that only touch the maps or the channels and
\* watches of a creation.
LEMMA CreationStepsIInv ==
  ASSUME IInv, NEW c \in Creates,
         \/ ChooseNameFails(c) \/ CreatePodFails(c) \/ RegisterCreation(c)
         \/ RemoveCreating(c) \/ StartJobs(c) \/ PodReadyTimeout(c)
         \/ CreatedTimeout(c) \/ OpenReadyWatch(c) \/ ReadyWatchFails(c)
  PROVE  IInv'
<1>1. UNCHANGED <<k8s, deletion, target>>
  BY DEF ChooseNameFails, CreatePodFails, RegisterCreation, RemoveCreating,
         StartJobs, PodReadyTimeout, CreatedTimeout, OpenReadyWatch,
         ReadyWatchFails, creation
<1>2. CreatingPods' \in [Names -> Creates \cup {None}] /\ removingCreating' \subseteq Creates
      /\ UNCHANGED <<DeletingPods, removingDeleting>>
  <2>1. CASE RegisterCreation(c)
    BY <2>1 DEF RegisterCreation, IInv, TypeOK
  <2>2. CASE RemoveCreating(c)
    BY <2>2 DEF RemoveCreating, IInv, TypeOK
  <2>3. CASE UNCHANGED maps
    BY <2>3 DEF maps, IInv, TypeOK
  <2> QED
    BY <2>1, <2>2, <2>3
       DEF ChooseNameFails, CreatePodFails, StartJobs, PodReadyTimeout,
           CreatedTimeout, OpenReadyWatch, ReadyWatchFails
<1>3. podReady' \in [Creates -> Cells] /\ created' \in [Creates -> Cells]
  <2> DEFINE cells == [Creates -> Cells]
  <2>0. podReady \in cells /\ created \in cells
    BY DEF IInv, TypeOK
  <2>1. CASE PodReadyTimeout(c) \/ ReadyWatchFails(c)
    <3>1. podReady' = Sent(podReady, {c}, "false") /\ UNCHANGED created
      BY <2>1 DEF PodReadyTimeout, ReadyWatchFails
    <3>2. \A v \in Values : Sent(podReady, {c}, v) \in cells
      BY <2>0, SentCells
    <3> QED
      BY <2>0, <3>1, <3>2, ValuesAre
  <2>2. CASE StartJobs(c) \/ CreatedTimeout(c)
    <3>1. UNCHANGED podReady /\ \E v \in Values : created' = Sent(created, {c}, v)
      BY <2>2, ValuesAre DEF StartJobs, CreatedTimeout
    <3>2. \A v \in Values : Sent(created, {c}, v) \in cells
      BY <2>0, SentCells
    <3> QED
      BY <2>0, <3>1, <3>2
  <2>3. CASE UNCHANGED <<podReady, created>>
    BY <2>3 DEF IInv, TypeOK
  <2> QED
    BY <2>1, <2>2, <2>3
       DEF ChooseNameFails, CreatePodFails, RegisterCreation, RemoveCreating,
           OpenReadyWatch, creation
<1>4. readyWatch' \in [Creates -> Watches]
  BY DEF ChooseNameFails, CreatePodFails, RegisterCreation, RemoveCreating,
         StartJobs, PodReadyTimeout, CreatedTimeout, OpenReadyWatch,
         ReadyWatchFails, creation, IInv, TypeOK, Watches
<1>5. /\ cpc' \in [Creates -> CreatePCs]
      /\ \A x \in Creates :
            /\ cpc'[x] \notin {"idle", "rejected"} => cpc[x] \notin {"idle", "rejected"}
            /\ cpc'[x] \in {"idle", "named"} => cpc[x] \in {"idle", "named"}
  BY DEF ChooseNameFails, CreatePodFails, RegisterCreation, RemoveCreating,
         StartJobs, PodReadyTimeout, CreatedTimeout, OpenReadyWatch,
         ReadyWatchFails, creation, GotoC, IInv, TypeOK, CreatePCs
<1>6. TypeOK'
  BY <1>1, <1>2, <1>3, <1>4, <1>5 DEF IInv, TypeOK, k8s, deletion
<1>7. Placed' /\ Found' /\ Reported' /\ Fresh'
  BY <1>1 DEF k8s, deletion, IInv, Placed, Found, Reported, Fresh
<1>8. Created'
  BY <1>1, <1>5 DEF k8s, IInv, Created
<1> QED
  BY <1>6, <1>7, <1>8 DEF IInv

\* The deletion that follows a failed creation starts like any other.
LEMMA FailedCreateIInv ==
  ASSUME IInv, NEW c \in Creates, FailedCreate(c) PROVE IInv'
<1>1. /\ cpc[c] = "registered" /\ cpc' = [cpc EXCEPT ![c] = "failed"]
      /\ dpc[c] = "idle" /\ dpc' = [dpc EXCEPT ![c] = "check"]
      /\ dname' = [dname EXCEPT ![c] = target[c]]
      /\ UNCHANGED <<k8s, maps, target, readyWatch, podReady, created,
                     found, goneWatch, podDeleted, deleted>>
  BY DEF FailedCreate, GotoC, GotoD
<1>2. target[c] \in Names /\ c \in Deletions /\ found[c] = None
  BY <1>1 DEF IInv, Created, Fresh, Deletions
<1>3. TypeOK'
  BY <1>1, <1>2 DEF IInv, TypeOK, k8s, maps, CreatePCs, DeletePCs
<1>4. Placed' /\ Created'
  BY <1>1 DEF k8s, IInv, TypeOK, Placed, Created
<1>5. Found'
  BY <1>1, <1>2 DEF k8s, IInv, TypeOK, Found
<1>6. Reported' /\ Fresh'
  BY <1>1, <1>2 DEF k8s, IInv, TypeOK, Reported, Fresh
<1> QED
  BY <1>3, <1>4, <1>5, <1>6 DEF IInv

-------------------------------------------------------------------------------
\* Steps of a deletion that leave Kubernetes and every creation alone.
LEMMA DeleteRequestedIInv ==
  ASSUME IInv, NEW d \in Deletions, DeleteRequested(d) PROVE IInv'
<1>1. PICK n \in Names : dname' = [dname EXCEPT ![d] = n]
  BY DEF DeleteRequested
<1>2. /\ dpc[d] = "idle" /\ dpc' = [dpc EXCEPT ![d] = "check"] /\ found[d] = None
      /\ UNCHANGED <<k8s, maps, creation, found, goneWatch, podDeleted, deleted>>
  BY DEF DeleteRequested, GotoD, IInv, Fresh
<1>3. TypeOK'
  BY <1>1, <1>2 DEF IInv, TypeOK, k8s, maps, creation, DeletePCs
<1>4. Placed' /\ Created'
  BY <1>2 DEF k8s, creation, IInv, Placed, Created
<1>5. Found' /\ Reported' /\ Fresh'
  BY <1>1, <1>2 DEF k8s, creation, IInv, TypeOK, Found, Reported, Fresh
<1> QED
  BY <1>3, <1>4, <1>5 DEF IInv

LEMMA InitDeleterIInv ==
  ASSUME IInv, NEW d \in Deletions, InitDeleter(d) PROVE IInv'
<1> DEFINE i == podAt[dname[d]]
<1>1. /\ dpc[d] = "init" /\ dpc' = [dpc EXCEPT ![d] = "request"]
      /\ i # None /\ UserOf[i] = UserOf[d]
      /\ found' = [found EXCEPT ![d] = i]
      /\ goneWatch' = [goneWatch EXCEPT ![d] = "spawned"]
      /\ UNCHANGED <<k8s, maps, creation, dname, podDeleted, deleted>>
  BY DEF InitDeleter, GotoD, Deletable
<1>2. found[d] = None /\ dname[d] \in Names
  BY <1>1 DEF IInv, Fresh, Found
<1>3. i \in Creates /\ target[i] = dname[d] /\ phase[i] \in Present
  BY <1>1, <1>2 DEF IInv, TypeOK, Placed
<1>4. phase[i] # "none"
  BY <1>3 DEF Present
<1> HIDE DEF i
<1>5. TypeOK'
  BY <1>1, <1>3 DEF IInv, TypeOK, k8s, maps, creation, DeletePCs, Watches
<1>6. Placed' /\ Created'
  BY <1>1 DEF k8s, creation, IInv, Placed, Created
<1>7. Found'
  BY <1>1, <1>2, <1>3, <1>4 DEF k8s, creation, IInv, TypeOK, Found
<1>8. Reported'
  BY <1>1, <1>2 DEF k8s, IInv, TypeOK, Reported
<1>9. Fresh'
  BY <1>1 DEF IInv, TypeOK, Fresh
<1> QED
  BY <1>5, <1>6, <1>7, <1>8, <1>9 DEF IInv

\* The API call by name reaches the object that was found, unless that one is
\* gone already.
LEMMA RequestDeletionIInv ==
  ASSUME IInv, NEW d \in Deletions, RequestDeletion(d) \/ RequestDeletionReplyLost(d)
  PROVE  IInv'
<1> DEFINE i == podAt[dname[d]]
<1>1. /\ dpc[d] = "request"
      /\ \E to \in {"register", "refused"} : dpc' = [dpc EXCEPT ![d] = to]
      /\ i # None
      /\ phase' = [phase EXCEPT ![i] = "terminating"]
      /\ UNCHANGED <<podAt, everReady, maps, creation,
                     dname, found, goneWatch, podDeleted>>
  BY DEF RequestDeletion, RequestDeletionReplyLost, GotoD
<1>0. /\ deleted' \in [Deletions -> Cells]
      /\ \A x \in Deletions : deleted'[x] = "true" => deleted[x] = "true"
  <2> DEFINE cells == [Deletions -> Cells]
  <2>1. deleted \in cells
    BY DEF IInv, TypeOK
  <2>2. ASSUME NEW v \in Values
        PROVE  /\ Sent(deleted, {d}, v) \in cells
               /\ \A x \in Deletions : Sent(deleted, {d}, v)[x] =
                     IF x \in {d} /\ deleted[x] = NoValue THEN v ELSE deleted[x]
    BY <2>1 DEF Sent, Cells
  <2>3. deleted' = deleted \/ deleted' = Sent(deleted, {d}, "false")
    BY DEF RequestDeletion, RequestDeletionReplyLost
  <2> QED
    BY <2>1, <2>2, <2>3, ValuesAre
<1>2. dname[d] \in Names /\ found[d] \in Creates /\ target[found[d]] = dname[d]
      /\ phase[found[d]] # "none"
  BY <1>1 DEF IInv, TypeOK, Found
<1>3. i \in Creates /\ phase[i] \in Present /\ target[i] = dname[d]
  BY <1>1, <1>2 DEF IInv, TypeOK, Placed
<1>4. phase[found[d]] = "gone" \/ found[d] = i
  BY <1>2 DEF IInv, TypeOK, Placed, Present, Phases
<1> HIDE DEF i
<1>5. TypeOK'
  BY <1>0, <1>1, <1>3 DEF IInv, TypeOK, maps, creation, Phases, DeletePCs
<1>6. Placed'
  BY <1>1, <1>3 DEF creation, IInv, TypeOK, Placed, Present
<1>7. Created'
  BY <1>1, <1>3 DEF creation, IInv, TypeOK, Created, Present
<1>8. phase[i] # "none" /\ phase[i] # "gone"
  BY <1>3 DEF Present
<1>9. Found'
  BY <1>1, <1>2, <1>3, <1>4, <1>8 DEF creation, IInv, TypeOK, Found
<1>10. Reported' /\ Fresh'
  BY <1>0, <1>1, <1>3, <1>8 DEF IInv, TypeOK, Reported, Fresh
<1> QED
  BY <1>5, <1>6, <1>7, <1>9, <1>10 DEF IInv

\* Refusals, the maps, and the channels and watches of a deletion.
DeletionSteps(d) ==
    \/ AlreadyDeleting(d) \/ NotYetDeleting(d) \/ InitDeleterFails(d)
    \/ RequestDeletionFails(d) \/ RegisterDeletion(d) \/ RemoveDeleting(d)
    \/ DeleteJobs(d) \/ PodDeletedTimeout(d) \/ DeletedTimeout(d)
    \/ OpenGoneWatch(d) \/ GoneWatchFails(d)

\* They send true into finished only after a true podDeleted.
LEMMA DeletionCells ==
  ASSUME IInv, NEW d \in Deletions, DeletionSteps(d)
  PROVE  /\ podDeleted' \in [Deletions -> Cells] /\ deleted' \in [Deletions -> Cells]
         /\ \A x \in Deletions :
               /\ podDeleted'[x] = "true" => podDeleted[x] = "true"
               /\ podDeleted[x] = "true" => podDeleted'[x] = "true"
               /\ deleted'[x] = "true" => podDeleted[x] = "true"
<1> DEFINE cells == [Deletions -> Cells]
<1>1. podDeleted \in cells /\ deleted \in cells
  BY DEF IInv, TypeOK
<1>2. \A x \in Deletions : deleted[x] = "true" => podDeleted[x] = "true"
  BY DEF IInv, Reported
<1>3. ASSUME NEW v \in Values
      PROVE  /\ Sent(podDeleted, {d}, v) \in cells
             /\ \A x \in Deletions : Sent(podDeleted, {d}, v)[x] =
                   IF x \in {d} /\ podDeleted[x] = NoValue THEN v ELSE podDeleted[x]
  BY <1>1 DEF Sent, Cells
<1>4. ASSUME NEW v \in Values
      PROVE  /\ Sent(deleted, {d}, v) \in cells
             /\ \A x \in Deletions : Sent(deleted, {d}, v)[x] =
                   IF x \in {d} /\ deleted[x] = NoValue THEN v ELSE deleted[x]
  BY <1>1 DEF Sent, Cells
<1>5. CASE UNCHANGED <<podDeleted, deleted>>
  BY <1>1, <1>2, <1>5
<1>6. CASE podDeleted' = Sent(podDeleted, {d}, "false") /\ UNCHANGED deleted
  BY <1>1, <1>2, <1>3, <1>6, ValuesAre DEF NoValue
<1>7. CASE deleted' = Sent(deleted, {d}, "false") /\ UNCHANGED podDeleted
  BY <1>1, <1>2, <1>4, <1>7, ValuesAre
<1>8. CASE DeleteJobs(d)
  <2>1. PICK v \in Values : /\ v = "true" => podDeleted[d] = "true"
                            /\ deleted' = Sent(deleted, {d}, v)
    BY <1>8 DEF DeleteJobs
  <2>2. UNCHANGED podDeleted
    BY <1>8 DEF DeleteJobs
  <2> QED
    BY <1>1, <1>2, <1>4, <2>1, <2>2
<1>9. CASE AlreadyDeleting(d) \/ InitDeleterFails(d) \/ RequestDeletionFails(d) \/ DeletedTimeout(d)
  BY <1>7, <1>9
     DEF AlreadyDeleting, InitDeleterFails, RequestDeletionFails, Refuse, DeletedTimeout
<1>10. CASE PodDeletedTimeout(d) \/ GoneWatchFails(d)
  BY <1>6, <1>10 DEF PodDeletedTimeout, GoneWatchFails
<1>11. CASE NotYetDeleting(d) \/ RegisterDeletion(d) \/ RemoveDeleting(d) \/ OpenGoneWatch(d)
  BY <1>5, <1>11
     DEF NotYetDeleting, RegisterDeletion, RemoveDeleting, OpenGoneWatch, deletion
<1> QED
  BY <1>8, <1>9, <1>10, <1>11 DEF DeletionSteps

LEMMA DeletionStepsIInv ==
  ASSUME IInv, NEW d \in Deletions, DeletionSteps(d) PROVE IInv'
<1>1. UNCHANGED <<k8s, creation, dname, found>>
  BY DEF DeletionSteps, AlreadyDeleting, NotYetDeleting, InitDeleterFails,
         RequestDeletionFails, Refuse, RegisterDeletion, RemoveDeleting,
         DeleteJobs, PodDeletedTimeout, DeletedTimeout, OpenGoneWatch,
         GoneWatchFails, deletion
<1>2. DeletingPods' \in [Names -> Deletions \cup {None}] /\ removingDeleting' \subseteq Deletions
      /\ UNCHANGED <<CreatingPods, removingCreating>>
  <2>1. CASE RegisterDeletion(d)
    BY <2>1 DEF RegisterDeletion, IInv, TypeOK
  <2>2. CASE RemoveDeleting(d)
    BY <2>2 DEF RemoveDeleting, IInv, TypeOK
  <2>3. CASE UNCHANGED maps
    BY <2>3 DEF maps, IInv, TypeOK
  <2> QED
    BY <2>1, <2>2, <2>3
       DEF DeletionSteps, AlreadyDeleting, NotYetDeleting, InitDeleterFails,
           RequestDeletionFails, Refuse, DeleteJobs, PodDeletedTimeout,
           DeletedTimeout, OpenGoneWatch, GoneWatchFails
<1>3. /\ goneWatch' \in [Deletions -> Watches]
      /\ \A x \in Deletions : goneWatch'[x] # "none" => goneWatch[x] # "none"
  <2>1. CASE OpenGoneWatch(d) \/ GoneWatchFails(d)
    BY <2>1 DEF OpenGoneWatch, GoneWatchFails, IInv, TypeOK, Watches
  <2>2. CASE UNCHANGED goneWatch
    BY <2>2 DEF IInv, TypeOK
  <2> QED
    BY <2>1, <2>2
       DEF DeletionSteps, AlreadyDeleting, NotYetDeleting, InitDeleterFails,
           RequestDeletionFails, Refuse, RegisterDeletion, RemoveDeleting,
           DeleteJobs, PodDeletedTimeout, DeletedTimeout, deletion
<1>4. /\ dpc' \in [Deletions -> DeletePCs]
      /\ \A x \in Deletions :
            /\ dpc'[x] # "idle" => dpc[x] # "idle"
            /\ dpc'[x] \in {"idle", "check", "init"} => dpc[x] \in {"idle", "check", "init"}
            /\ dpc'[x] = "request" => dpc[x] = "request"
            /\ dpc'[x] \in {"register", "accepted"} => dpc[x] \in {"register", "accepted"}
  <2>1. ASSUME NEW from \in {"check", "init", "request"}, Refuse(d, from)
        PROVE  dpc[d] = from /\ dpc' = [dpc EXCEPT ![d] = "refused"]
    BY <2>1 DEF Refuse, GotoD
  <2>2. CASE AlreadyDeleting(d) \/ InitDeleterFails(d) \/ RequestDeletionFails(d)
    BY <2>1, <2>2 DEF AlreadyDeleting, InitDeleterFails, RequestDeletionFails, IInv, TypeOK,
                      DeletePCs
  <2>3. CASE NotYetDeleting(d) \/ RegisterDeletion(d)
    BY <2>3 DEF NotYetDeleting, RegisterDeletion, GotoD, IInv, TypeOK, DeletePCs
  <2>4. CASE UNCHANGED dpc
    BY <2>4 DEF IInv, TypeOK
  <2> QED
    BY <2>2, <2>3, <2>4
       DEF DeletionSteps, RemoveDeleting, DeleteJobs, PodDeletedTimeout,
           DeletedTimeout, OpenGoneWatch, GoneWatchFails, deletion
<1>5. TypeOK'
  BY <1>1, <1>2, <1>3, <1>4, DeletionCells DEF IInv, TypeOK, k8s, creation
<1>6. Placed' /\ Created'
  BY <1>1 DEF k8s, creation, IInv, Placed, Created
<1>7. Found'
  BY <1>1, <1>3, <1>4 DEF k8s, creation, IInv, Found
<1>8. Reported'
  BY <1>1, DeletionCells DEF k8s, IInv, Reported
<1>9. Fresh'
  BY <1>1, <1>4 DEF IInv, Fresh
<1> QED
  BY <1>5, <1>6, <1>7, <1>8, <1>9 DEF IInv

-------------------------------------------------------------------------------
LEMMA KubernetesIInv ==
  ASSUME IInv, NEW i \in Creates, Kubernetes(i) PROVE IInv'
<1>1. ASSUME NEW S PROVE Sent(podReady, S, "true") \in [Creates -> Cells]
  <2>1. podReady \in [Creates -> Cells]
    BY DEF IInv, TypeOK
  <2>2. \A v \in Values : Sent(podReady, S, v) \in [Creates -> Cells]
    BY <2>1, SentCells
  <2> QED
    BY <2>2, ValuesAre
<1>2. CASE PodBecomesReady(i)
  <2>1. /\ phase[i] = "pending" /\ phase' = [phase EXCEPT ![i] = "ready"]
        /\ everReady' = everReady \cup {i}
        /\ podReady' = Sent(podReady, ReadyWatchers(target[i]), "true")
        /\ UNCHANGED <<podAt, maps, cpc, target, readyWatch, created, deletion>>
    BY <1>2 DEF PodBecomesReady
  <2>2. TypeOK'
    BY <1>1, <2>1 DEF IInv, TypeOK, maps, deletion, Phases
  <2>3. Placed' /\ Created'
    BY <2>1 DEF IInv, TypeOK, Placed, Created, Present
  <2>4. Found' /\ Reported' /\ Fresh'
    BY <2>1 DEF deletion, IInv, TypeOK, Found, Reported, Fresh
  <2> QED
    BY <2>2, <2>3, <2>4 DEF IInv
<1>3. CASE ReadyPodModified(i)
  <2>1. /\ podReady' = Sent(podReady, ReadyWatchers(target[i]), "true")
        /\ UNCHANGED <<k8s, maps, cpc, target, readyWatch, created, deletion>>
    BY <1>3 DEF ReadyPodModified
  <2>2. TypeOK'
    BY <1>1, <2>1 DEF IInv, TypeOK, k8s, maps, deletion
  <2>3. Placed' /\ Created' /\ Found' /\ Reported' /\ Fresh'
    BY <2>1 DEF k8s, deletion, IInv, Placed, Created, Found, Reported, Fresh
  <2> QED
    BY <2>2, <2>3 DEF IInv
\* Whoever watches the name sees the end of the object that was at the name; a
\* watcher that found another object there found one that is gone already.
<1>4. CASE PodGone(i)
  <2>1. /\ phase[i] = "terminating" /\ phase' = [phase EXCEPT ![i] = "gone"]
        /\ podAt' = [podAt EXCEPT ![target[i]] = None]
        /\ podDeleted' = Sent(podDeleted, GoneWatchers(target[i]), "true")
        /\ UNCHANGED <<everReady, maps, creation, dpc, dname, found, goneWatch, deleted>>
    BY <1>4 DEF PodGone
  <2>2. target[i] \in Names /\ podAt[target[i]] = i
    BY <2>1 DEF IInv, Placed, Present
  <2>3. /\ podDeleted' \in [Deletions -> Cells]
        /\ \A d \in Deletions : podDeleted'[d] =
              IF d \in GoneWatchers(target[i]) /\ podDeleted[d] = NoValue
              THEN "true" ELSE podDeleted[d]
    <3>1. podDeleted \in [Deletions -> Cells]
      BY DEF IInv, TypeOK
    <3>2. ASSUME NEW v \in Values, NEW S
          PROVE  /\ Sent(podDeleted, S, v) \in [Deletions -> Cells]
                 /\ \A d \in Deletions : Sent(podDeleted, S, v)[d] =
                       IF d \in S /\ podDeleted[d] = NoValue THEN v ELSE podDeleted[d]
      BY <3>1 DEF Sent, Cells
    <3> DEFINE watchers == GoneWatchers(target[i])
    <3>3. /\ Sent(podDeleted, watchers, "true") \in [Deletions -> Cells]
          /\ \A d \in Deletions : Sent(podDeleted, watchers, "true")[d] =
                IF d \in watchers /\ podDeleted[d] = NoValue THEN "true" ELSE podDeleted[d]
      BY <3>2, ValuesAre
    <3> QED
      BY <2>1, <3>3
  <2>4. TypeOK'
    BY <2>1, <2>3 DEF IInv, TypeOK, maps, creation, Phases
  <2>5. Placed'
    BY <2>1, <2>2 DEF creation, IInv, TypeOK, Placed, Present
  <2>6. Created'
    BY <2>1, <2>2 DEF creation, IInv, TypeOK, Created
  <2>7. Found' /\ Fresh'
    BY <2>1 DEF creation, IInv, TypeOK, Found, Fresh
  <2>8. \A d \in GoneWatchers(target[i]) :
           found[d] # None /\ (found[d] = i \/ phase[found[d]] = "gone")
    <3> SUFFICES ASSUME NEW d \in GoneWatchers(target[i])
                 PROVE  found[d] # None /\ (found[d] = i \/ phase[found[d]] = "gone")
      OBVIOUS
    <3>1. d \in Deletions /\ dname[d] = target[i] /\ goneWatch[d] # "none"
      BY DEF GoneWatchers
    <3>2. /\ found[d] \in Creates /\ found[d] # None
          /\ target[found[d]] = target[i] /\ phase[found[d]] # "none"
      BY <3>1 DEF IInv, TypeOK, Found
    <3>3. phase[found[d]] = "gone" \/ phase[found[d]] \in Present
      BY <3>2 DEF IInv, TypeOK, Phases, Present
    <3> QED
      BY <2>2, <3>2, <3>3 DEF IInv, Placed
  <2>9. Reported'
    BY <2>1, <2>3, <2>8 DEF IInv, TypeOK, Reported
  <2> QED
    BY <2>4, <2>5, <2>6, <2>7, <2>9 DEF IInv
<1> QED
  BY <1>2, <1>3, <1>4 DEF Kubernetes

-------------------------------------------------------------------------------
\* After a restart only Kubernetes is left, and there every pod has its name.
LEMMA RestartIInv == ASSUME IInv, Restart PROVE IInv'
<1>1. \A c \in Creates : phase[c] # "none" => target'[c] = target[c] /\ cpc'[c] = "rejected"
  BY DEF Restart
<1>2. TypeOK'
  BY DEF Restart, IInv, TypeOK, k8s, Cells, Watches, CreatePCs, DeletePCs
<1>3. Placed'
  BY <1>1 DEF Restart, k8s, IInv, TypeOK, Placed, Present
<1>4. Created'
  BY <1>1 DEF Restart, k8s, IInv, Created
<1>5. Found' /\ Reported' /\ Fresh'
  BY DEF Restart, Found, Reported, Fresh, NoValue
<1> QED
  BY <1>2, <1>3, <1>4, <1>5 DEF IInv

LEMMA NextIInv == IInv /\ [Next]_vars => IInv'
<1> SUFFICES ASSUME IInv, [Next]_vars PROVE IInv'
  OBVIOUS
<1>1. ASSUME NEW c \in Creates, CreateSteps(c) PROVE IInv'
  BY <1>1, ChooseNameIInv, CreatePodIInv, CreationStepsIInv, FailedCreateIInv
     DEF CreateSteps
<1>2. ASSUME NEW d \in Deletions, DeleteSteps(d) PROVE IInv'
  BY <1>2, DeleteRequestedIInv, InitDeleterIInv, RequestDeletionIInv,
     DeletionStepsIInv DEF DeleteSteps, DeletionSteps
<1>3. ASSUME NEW i \in Creates, Kubernetes(i) PROVE IInv'
  BY <1>3, KubernetesIInv
<1>4. CASE UNCHANGED vars
  BY <1>4 DEF vars, k8s, maps, creation, deletion, IInv, TypeOK, Placed, Created,
              Found, Reported, Fresh
<1> QED
  BY <1>1, <1>2, <1>3, <1>4, RestartIInv DEF Next, Steps

LEMMA Invariant == Spec => []IInv
  BY InitIInv, NextIInv, PTL DEF Spec

\* Every state of the server, its goroutines and the API is well typed.
THEOREM TypeCorrect == Spec => []TypeOK
<1>1. IInv => TypeOK
  BY DEF IInv
<1> QED
  BY <1>1, Invariant, PTL

\* A deletion that reports success has seen the end of the pod it was asked for,
\* even if the name passed to another pod meanwhile (server.go:449-458).
THEOREM SuccessIsTheEnd == Spec => []DeletedMeansGone
<1>1. IInv => DeletedMeansGone
  BY DEF IInv, Reported, DeletedMeansGone
<1> QED
  BY <1>1, Invariant, PTL

\* An accepted deletion has set the pod it was asked for on its way out
\* (poddeleter.go:68), whatever pod the call by name has reached.
THEOREM AcceptedIsUnderWay == Spec => []AcceptedMeansRequested
<1>1. IInv => AcceptedMeansRequested
  BY DEF IInv, Found, AcceptedMeansRequested
<1> QED
  BY <1>1, Invariant, PTL

-------------------------------------------------------------------------------
\* An accepted deletion has a goroutine that will remove its entry, and has the
\* entry until then, unless another one of the name has removed it at its end.
Entries ==
    /\ \A d \in removingDeleting : dpc[d] = "accepted"
    /\ \A d \in Deletions :
          dpc[d] = "accepted" /\ deleted[d] = NoValue => d \in removingDeleting
    /\ \A d \in removingDeleting :
          \/ DeletingPods[dname[d]] # None
          \/ \E e \in Deletions \ {d} :
                /\ dname[e] = dname[d] /\ dpc[e] = "accepted"
                /\ deleted[e] # NoValue /\ e \notin removingDeleting

\* A ReadyChannel `finished` that has a value keeps one, and a deletion that has
\* been accepted stays so, under the same name.
LEMMA AcceptedStays ==
  ASSUME IInv, [Steps]_vars, NEW d \in Deletions
  PROVE  /\ deleted[d] # NoValue => deleted'[d] # NoValue
         /\ dpc[d] = "accepted" => dpc'[d] = "accepted" /\ dname'[d] = dname[d]
<1>0. deleted \in [Deletions -> Cells] /\ dpc \in [Deletions -> DeletePCs]
      /\ dname \in [Deletions -> Names \cup {None}]
  BY DEF IInv, TypeOK
<1>1. ASSUME NEW e \in Deletions, NEW v \in Values, deleted' = Sent(deleted, {e}, v)
      PROVE  deleted[d] # NoValue => deleted'[d] # NoValue
  BY <1>0, <1>1 DEF Sent
<1>2. ASSUME NEW c \in Creates, CreateSteps(c)
      PROVE  /\ UNCHANGED deleted
             /\ dpc[d] = "accepted" => dpc'[d] = "accepted" /\ dname'[d] = dname[d]
  BY <1>0, <1>2
     DEF CreateSteps, ChooseName, ChooseNameFails, CreatePod, CreatePodReplyLost, MakePod, CreatePodFails,
         RegisterCreation, RemoveCreating, StartJobs, PodReadyTimeout, CreatedTimeout,
         FailedCreate, GotoD, OpenReadyWatch, ReadyWatchFails, deletion
<1>3. ASSUME NEW e \in Deletions, DeleteSteps(e)
      PROVE  /\ deleted' = deleted \/ \E v \in Values : deleted' = Sent(deleted, {e}, v)
             /\ dpc[d] = "accepted" => dpc'[d] = "accepted" /\ dname'[d] = dname[d]
  <2>1. CASE \/ AlreadyDeleting(e) \/ InitDeleterFails(e)
             \/ RequestDeletionReplyLost(e) \/ RequestDeletionFails(e)
    BY <1>0, <2>1, ValuesAre
       DEF AlreadyDeleting, InitDeleterFails, RequestDeletionReplyLost,
           RequestDeletionFails, Refuse, GotoD
  <2>2. CASE DeleteJobs(e) \/ DeletedTimeout(e)
    BY <2>2, ValuesAre DEF DeleteJobs, DeletedTimeout
  <2>3. CASE \/ DeleteRequested(e) \/ NotYetDeleting(e) \/ InitDeleter(e)
             \/ RequestDeletion(e) \/ RegisterDeletion(e) \/ RemoveDeleting(e)
             \/ PodDeletedTimeout(e) \/ OpenGoneWatch(e) \/ GoneWatchFails(e)
    <3>1. UNCHANGED deleted
      BY <2>3
         DEF DeleteRequested, NotYetDeleting, InitDeleter, RequestDeletion,
             RegisterDeletion, RemoveDeleting, PodDeletedTimeout, OpenGoneWatch,
             GoneWatchFails, deletion
    <3>2. dpc[d] = "accepted" => dpc'[d] = "accepted" /\ dname'[d] = dname[d]
      BY <1>0, <2>3
         DEF DeleteRequested, NotYetDeleting, InitDeleter, RequestDeletion,
             RegisterDeletion, RemoveDeleting, PodDeletedTimeout, OpenGoneWatch,
             GoneWatchFails, GotoD, deletion
    <3> QED
      BY <3>1, <3>2
  <2> QED
    BY <1>3, <2>1, <2>2, <2>3 DEF DeleteSteps
<1>4. ASSUME NEW i \in Creates, Kubernetes(i) PROVE UNCHANGED <<dpc, dname, deleted>>
  BY <1>4 DEF Kubernetes, PodBecomesReady, ReadyPodModified, PodGone, deletion
<1>5. CASE UNCHANGED vars
  BY <1>5 DEF vars, deletion
<1> QED
  BY <1>1, <1>2, <1>3, <1>4, <1>5 DEF Steps

\* Only two steps touch DeletingPods or accept a deletion.
LEMMA OthersLeaveEntries ==
  ASSUME IInv, [Steps]_vars,
         \A d \in Deletions : ~RegisterDeletion(d) /\ ~RemoveDeleting(d)
  PROVE  /\ UNCHANGED <<DeletingPods, removingDeleting>>
         /\ \A d \in Deletions : dpc'[d] = "accepted" => dpc[d] = "accepted"
<1>0. dpc \in [Deletions -> DeletePCs]
  BY DEF IInv, TypeOK
<1>1. ASSUME NEW c \in Creates, CreateSteps(c)
      PROVE  /\ UNCHANGED <<DeletingPods, removingDeleting>>
             /\ \A d \in Deletions : dpc'[d] = "accepted" => dpc[d] = "accepted"
  BY <1>0, <1>1
     DEF CreateSteps, ChooseName, ChooseNameFails, CreatePod, CreatePodReplyLost, MakePod, CreatePodFails,
         RegisterCreation, RemoveCreating, StartJobs, PodReadyTimeout, CreatedTimeout,
         FailedCreate, GotoD, OpenReadyWatch, ReadyWatchFails, deletion, maps
<1>2. ASSUME NEW e \in Deletions, DeleteSteps(e)
      PROVE  /\ UNCHANGED <<DeletingPods, removingDeleting>>
             /\ \A d \in Deletions : dpc'[d] = "accepted" => dpc[d] = "accepted"
  BY <1>0, <1>2
     DEF DeleteSteps, DeleteRequested, AlreadyDeleting, NotYetDeleting, InitDeleter,
         InitDeleterFails, RequestDeletion, RequestDeletionReplyLost,
         RequestDeletionFails, Refuse, DeleteJobs,
         PodDeletedTimeout, DeletedTimeout, OpenGoneWatch, GoneWatchFails, GotoD, deletion,
         maps
<1>3. ASSUME NEW i \in Creates, Kubernetes(i)
      PROVE  UNCHANGED <<DeletingPods, removingDeleting, dpc>>
  BY <1>3 DEF Kubernetes, PodBecomesReady, ReadyPodModified, PodGone, deletion, maps
<1>4. CASE UNCHANGED vars
  BY <1>4 DEF vars, deletion, maps
<1> QED
  BY <1>1, <1>2, <1>3, <1>4 DEF Steps

LEMMA NextEntries == IInv /\ Entries /\ [Next]_vars => Entries'
<1> SUFFICES ASSUME IInv, Entries, [Next]_vars PROVE Entries'
  OBVIOUS
<1>0. removingDeleting \subseteq Deletions
  BY DEF IInv, TypeOK
<1>1. ASSUME NEW d \in Deletions, RegisterDeletion(d) PROVE Entries'
  <2>1. /\ dpc[d] = "register" /\ dpc' = [dpc EXCEPT ![d] = "accepted"]
        /\ DeletingPods' = [DeletingPods EXCEPT ![dname[d]] = d]
        /\ removingDeleting' = removingDeleting \cup {d}
        /\ UNCHANGED <<dname, deleted>>
    BY <1>1 DEF RegisterDeletion, GotoD
  <2>2. /\ dname[d] \in Names /\ d # None
        /\ DeletingPods \in [Names -> Deletions \cup {None}]
        /\ dpc \in [Deletions -> DeletePCs]
    BY <2>1 DEF IInv, TypeOK, Found, Deletions
  <2>3. \A e \in Deletions : e # d => dpc'[e] = dpc[e]
    BY <2>1, <2>2
  <2>4. dpc'[d] = "accepted"
    BY <2>1, <2>2
  <2>5. \A n \in Names : DeletingPods[n] # None => DeletingPods'[n] # None
    BY <2>1, <2>2
  <2>6. \A e \in removingDeleting : dname[e] \in Names
    BY <1>0 DEF IInv, Found, Entries
  <2>7. ASSUME NEW e \in removingDeleting'
        PROVE  \/ DeletingPods'[dname'[e]] # None
               \/ \E f \in Deletions \ {e} :
                     /\ dname'[f] = dname'[e] /\ dpc'[f] = "accepted"
                     /\ deleted'[f] # NoValue /\ f \notin removingDeleting'
    <3>1. CASE dname[e] = dname[d]
      BY <2>1, <2>2, <3>1
    <3>2. CASE dname[e] # dname[d]
      <4>1. e \in removingDeleting
        BY <2>1, <3>2
      <4>2. CASE DeletingPods[dname[e]] # None
        BY <2>1, <2>5, <2>6, <4>1, <4>2
      <4>3. CASE \E f \in Deletions \ {e} :
                    /\ dname[f] = dname[e] /\ dpc[f] = "accepted"
                    /\ deleted[f] # NoValue /\ f \notin removingDeleting
        BY <2>1, <2>3, <3>2, <4>3
      <4> QED
        BY <4>1, <4>2, <4>3 DEF Entries
    <3> QED
      BY <3>1, <3>2
  <2>8. \A e \in removingDeleting' : dpc'[e] = "accepted"
    BY <1>0, <2>1, <2>3, <2>4 DEF Entries
  <2>9. \A e \in Deletions :
           dpc'[e] = "accepted" /\ deleted'[e] = NoValue => e \in removingDeleting'
    BY <2>1, <2>3 DEF Entries
  <2> QED
    BY <2>7, <2>8, <2>9 DEF Entries
<1>2. ASSUME NEW d \in Deletions, RemoveDeleting(d) PROVE Entries'
  <2>1. /\ d \in removingDeleting /\ deleted[d] # NoValue
        /\ DeletingPods' = [DeletingPods EXCEPT ![dname[d]] = None]
        /\ removingDeleting' = removingDeleting \ {d}
        /\ UNCHANGED <<dpc, dname, deleted>>
    BY <1>2 DEF RemoveDeleting, deletion
  <2>2. dpc[d] = "accepted"
    BY <2>1 DEF Entries
  <2>3. ASSUME NEW e \in removingDeleting'
        PROVE  \/ DeletingPods'[dname'[e]] # None
               \/ \E f \in Deletions \ {e} :
                     /\ dname'[f] = dname'[e] /\ dpc'[f] = "accepted"
                     /\ deleted'[f] # NoValue /\ f \notin removingDeleting'
    <3>1. e \in removingDeleting /\ e # d
      BY <2>1
    <3>2. CASE dname[e] = dname[d]
      BY <2>1, <2>2, <3>1, <3>2
    <3>3. CASE dname[e] # dname[d]
      <4>1. DeletingPods'[dname[e]] = DeletingPods[dname[e]]
        <5>1. DeletingPods \in [Names -> Deletions \cup {None}] /\ dname[e] \in Names
          BY <1>0, <3>1 DEF IInv, TypeOK, Found, Entries
        <5> QED
          BY <2>1, <3>3, <5>1
      <4> QED
        BY <2>1, <3>1, <4>1 DEF Entries
    <3> QED
      BY <3>2, <3>3
  <2>4. \A e \in removingDeleting' : dpc'[e] = "accepted"
    BY <2>1 DEF Entries
  <2>5. \A e \in Deletions :
           dpc'[e] = "accepted" /\ deleted'[e] = NoValue => e \in removingDeleting'
    BY <2>1 DEF Entries
  <2> QED
    BY <2>3, <2>4, <2>5 DEF Entries
<1>3. CASE [Steps]_vars /\ \A d \in Deletions : ~RegisterDeletion(d) /\ ~RemoveDeleting(d)
  <2>1. /\ UNCHANGED <<DeletingPods, removingDeleting>>
        /\ \A d \in Deletions : dpc'[d] = "accepted" => dpc[d] = "accepted"
    BY <1>3, OthersLeaveEntries
  <2>2. \A d \in Deletions :
           /\ deleted[d] # NoValue => deleted'[d] # NoValue
           /\ dpc[d] = "accepted" => dpc'[d] = "accepted" /\ dname'[d] = dname[d]
    BY <1>3, AcceptedStays
  <2> QED
    BY <1>0, <2>1, <2>2 DEF Entries
<1>4. CASE Restart
  BY <1>4 DEF Restart, Entries
<1> QED
  BY <1>1, <1>2, <1>3, <1>4 DEF Next

\* "There should be an entry in DeletingPods until this finishes"
\* (server_test.go:392), but for an entry that another deletion of that name has
\* removed when it was done.
THEOREM EntryUntilDone == Spec => []DeletingEntry
<1>1. Init => Entries
  BY DEF Init, Entries
<1>2. IInv /\ Entries => DeletingEntry
  BY DEF Entries, DeletingEntry
<1> QED
  BY <1>1, <1>2, InitIInv, NextIInv, NextEntries, PTL DEF Spec

-------------------------------------------------------------------------------
\* Every chosen name is one of the owner's candidates.
OnCandidates ==
    \A c \in Creates : target[c] # None =>
        \E i \in DOMAIN Candidates[UserOf[c]] : target[c] = Candidates[UserOf[c]][i]

\* The name of a pod is chosen in one step only.
LEMMA TargetStays ==
  ASSUME [Steps]_vars, \A c \in Creates : ~ChooseName(c) PROVE UNCHANGED target
<1>1. ASSUME NEW c \in Creates, CreateSteps(c) PROVE UNCHANGED target
  BY <1>1 DEF CreateSteps, ChooseNameFails, CreatePod, CreatePodReplyLost, MakePod, CreatePodFails,
              RegisterCreation, RemoveCreating, StartJobs, PodReadyTimeout,
              CreatedTimeout, FailedCreate, OpenReadyWatch, ReadyWatchFails, creation
<1>2. ASSUME NEW d \in Deletions, DeleteSteps(d) PROVE UNCHANGED target
  BY <1>2 DEF DeleteSteps, DeleteRequested, AlreadyDeleting, NotYetDeleting,
              InitDeleter, InitDeleterFails, RequestDeletion,
              RequestDeletionReplyLost, RequestDeletionFails, Refuse, RegisterDeletion, RemoveDeleting, DeleteJobs,
              PodDeletedTimeout, DeletedTimeout, OpenGoneWatch, GoneWatchFails, creation
<1>3. ASSUME NEW i \in Creates, Kubernetes(i) PROVE UNCHANGED target
  BY <1>3 DEF Kubernetes, PodBecomesReady, ReadyPodModified, PodGone, creation
<1>4. UNCHANGED vars => UNCHANGED target
  BY DEF vars, creation
<1> QED
  BY <1>1, <1>2, <1>3, <1>4 DEF Steps

LEMMA NextOnCandidates ==
  IInv /\ OnCandidates /\ [Next]_vars => OnCandidates'
<1> SUFFICES ASSUME IInv, OnCandidates, [Next]_vars PROVE OnCandidates'
  OBVIOUS
<1>1. ASSUME NEW c \in Creates, ChooseName(c) PROVE OnCandidates'
  <2>1. PICK i \in Unused(UserOf[c]) :
           target' = [target EXCEPT ![c] = Candidates[UserOf[c]][i]]
    BY <1>1 DEF ChooseName
  <2>2. i \in DOMAIN Candidates[UserOf[c]]
    BY DEF Unused
  <2>3. target \in [Creates -> Names \cup {None}]
    BY DEF IInv, TypeOK
  <2> QED
    BY <2>1, <2>2, <2>3 DEF OnCandidates
<1>2. CASE [Steps]_vars /\ \A c \in Creates : ~ChooseName(c)
  BY <1>2, TargetStays DEF OnCandidates
<1>3. CASE Restart
  BY <1>3 DEF Restart, OnCandidates
<1> QED
  BY <1>1, <1>2, <1>3 DEF Next

\* Only the API call of a deletion makes a pod terminate: the pod that has the name.
LEMMA TerminatingStep ==
  ASSUME IInv, [Next]_vars,
         NEW i \in Creates, phase[i] # "terminating", phase'[i] = "terminating"
  PROVE  \E d \in Deletions :
            /\ dpc[d] = "request" /\ dpc'[d] # "request"
            /\ \A e \in Deletions \ {d} : dpc'[e] = dpc[e]
            /\ dname[d] \in Names /\ podAt[dname[d]] = i /\ target[i] = dname[d]
<1>1. phase' # phase
  OBVIOUS
<1>2. ASSUME NEW c \in Creates, CreateSteps(c) PROVE FALSE
  <2>1. CASE CreatePod(c) \/ CreatePodReplyLost(c)
    BY <2>1 DEF CreatePod, CreatePodReplyLost, MakePod, IInv, TypeOK
  <2>2. CASE ~CreatePod(c) /\ ~CreatePodReplyLost(c)
    BY <1>1, <1>2, <2>2
       DEF CreateSteps, ChooseName, ChooseNameFails, CreatePodFails,
           RegisterCreation, RemoveCreating, StartJobs, PodReadyTimeout,
           CreatedTimeout, FailedCreate, OpenReadyWatch, ReadyWatchFails, k8s
  <2> QED
    BY <2>1, <2>2
<1>3. ASSUME NEW j \in Creates, Kubernetes(j) PROVE FALSE
  BY <1>3 DEF Kubernetes, PodBecomesReady, ReadyPodModified, PodGone, k8s, IInv, TypeOK
<1>4. PICK d \in Deletions : DeleteSteps(d)
  <2>1. Next /\ ~Restart
    BY <1>1 DEF vars, k8s, Restart
  <2> QED
    BY <1>2, <1>3, <2>1 DEF Next, Steps
<1>5. RequestDeletion(d) \/ RequestDeletionReplyLost(d)
  BY <1>1, <1>4
     DEF DeleteSteps, DeleteRequested, AlreadyDeleting, NotYetDeleting, InitDeleter,
         InitDeleterFails, RequestDeletionFails, Refuse, RegisterDeletion,
         RemoveDeleting, DeleteJobs, PodDeletedTimeout, DeletedTimeout,
         OpenGoneWatch, GoneWatchFails, k8s
<1>6. /\ dpc[d] = "request" /\ dpc'[d] # "request"
      /\ \A e \in Deletions \ {d} : dpc'[e] = dpc[e]
      /\ podAt[dname[d]] = i /\ podAt[dname[d]] # None
  BY <1>5 DEF RequestDeletion, RequestDeletionReplyLost, GotoD, IInv, TypeOK
<1>7. dname[d] \in Names
  BY <1>6 DEF IInv, Found
<1> QED
  BY <1>6, <1>7 DEF IInv, Placed

\* If the call reaches another pod than the one that was found under the name, the
\* latter is gone, and the name is one of both owners' names.
LEMMA OwnersStep ==
  ASSUME IInv, OnCandidates, [Next]_vars,
         NEW i \in Creates, phase[i] # "terminating", phase'[i] = "terminating"
  PROVE  \E d \in Deletions :
            /\ dpc[d] = "request" /\ dpc'[d] # "request"
            /\ \/ UserOf[d] = UserOf[i]
               \/ /\ UserOf[found[d]] = UserOf[d] /\ phase[found[d]] = "gone"
                  /\ target[i] \in NamesOf(UserOf[i]) \cap NamesOf(UserOf[d])
<1>1. PICK d \in Deletions :
         /\ dpc[d] = "request" /\ dpc'[d] # "request"
         /\ dname[d] \in Names /\ podAt[dname[d]] = i /\ target[i] = dname[d]
  BY TerminatingStep
<1>2. /\ found[d] \in Creates /\ target[found[d]] = dname[d]
      /\ UserOf[found[d]] = UserOf[d] /\ phase[found[d]] # "none"
  BY <1>1 DEF IInv, TypeOK, Found
<1>3. found[d] = i \/ phase[found[d]] = "gone"
  BY <1>1, <1>2 DEF IInv, TypeOK, Placed, Present, Phases
<1>4. \A x \in Creates : target[x] # None => target[x] \in NamesOf(UserOf[x])
  BY DEF OnCandidates, NamesOf
<1>5. target[i] \in NamesOf(UserOf[i]) \cap NamesOf(UserOf[d])
  <2>1. target[i] # None /\ target[found[d]] = target[i]
    BY <1>1, <1>2
  <2> QED
    BY <1>2, <1>4, <2>1
<1> QED
  BY <1>1, <1>2, <1>3, <1>5

\* No pod is deleted for someone else's request, in spite of the check and the API
\* call being two steps (poddeleter.go:47, 68), but for a pod that has taken a name
\* its owner shares with that user, after the user's own pod of the name has gone.
THEOREM OwnersOnly == Spec => OnlyOwnerDeletes
<1>1. Init => OnCandidates
  BY DEF Init, OnCandidates
<1>2. IInv /\ OnCandidates /\ [Next]_vars =>
        [\A i \in Creates :
            phase[i] # "terminating" /\ phase'[i] = "terminating" =>
            \E d \in Deletions :
                /\ dpc[d] = "request" /\ dpc'[d] # "request"
                /\ \/ UserOf[d] = UserOf[i]
                   \/ /\ UserOf[found[d]] = UserOf[d] /\ phase[found[d]] = "gone"
                      /\ target[i] \in NamesOf(UserOf[i]) \cap NamesOf(UserOf[d])]_vars
  BY OwnersStep
<1> QED
  BY <1>1, <1>2, InitIInv, NextIInv, NextOnCandidates, PTL
     DEF Spec, OnlyOwnerDeletes

-------------------------------------------------------------------------------
\* A creation goes on only after its pod was made.
Made == \A c \in Creates : cpc[c] \in {"created", "registered", "failed"} => phase[c] # "none"

LEMMA NextMade == IInv /\ Made /\ [Next]_vars => Made'
<1> SUFFICES ASSUME IInv, Made, [Next]_vars PROVE Made'
  OBVIOUS
<1>0. cpc \in [Creates -> CreatePCs] /\ phase \in [Creates -> Phases]
  BY DEF IInv, TypeOK
<1>1. ASSUME NEW c \in Creates, CreateSteps(c) PROVE Made'
  <2>1. CASE CreatePod(c) \/ CreatePodReplyLost(c)
    BY <1>0, <2>1 DEF CreatePod, CreatePodReplyLost, MakePod, GotoC, Made
  <2>2. CASE ~CreatePod(c) /\ ~CreatePodReplyLost(c)
    BY <1>0, <1>1, <2>2
       DEF CreateSteps, ChooseName, ChooseNameFails, CreatePodFails, RegisterCreation,
           RemoveCreating, StartJobs, PodReadyTimeout, CreatedTimeout, FailedCreate,
           OpenReadyWatch, ReadyWatchFails, GotoC, k8s, creation, Made
  <2> QED
    BY <2>1, <2>2
<1>2. ASSUME NEW d \in Deletions, DeleteSteps(d) PROVE Made'
  BY <1>0, <1>2
     DEF DeleteSteps, DeleteRequested, AlreadyDeleting, NotYetDeleting, InitDeleter,
         InitDeleterFails, RequestDeletion, RequestDeletionReplyLost, RequestDeletionFails,
         Refuse, RegisterDeletion, RemoveDeleting, DeleteJobs, PodDeletedTimeout,
         DeletedTimeout, OpenGoneWatch, GoneWatchFails, k8s, creation, Made
<1>3. ASSUME NEW i \in Creates, Kubernetes(i) PROVE Made'
  BY <1>0, <1>3 DEF Kubernetes, PodBecomesReady, ReadyPodModified, PodGone, k8s, creation, Made
<1>4. CASE UNCHANGED vars
  BY <1>4 DEF vars, k8s, creation, Made
<1>5. CASE Restart
  BY <1>5 DEF Restart, Made
<1> QED
  BY <1>1, <1>2, <1>3, <1>4, <1>5 DEF Next, Steps
===============================================================================
