------------------------ MODULE PodServerNamesProofs ------------------------
(***************************************************************************)
(* Proofs about PodServer where the backend goes by the name of a pod, for *)
(* any number of pods that have one name after another: the entry and the  *)
(* readiness of a creation, and whom the deletion after a failed creation  *)
(* can reach.  The last theorem is for as long as deletions by one name do *)
(* not overlap before they are registered.                                 *)
(***************************************************************************)
EXTENDS PodServerProofs

-------------------------------------------------------------------------------
(***************************************************************************)
(* The entry of a creation                                                 *)
(***************************************************************************)
\* A creation that is under way was registered before, or is so by this step;
\* entries are taken away by one step only.
LEMMA CreationsElsewhere ==
  ASSUME IInv, [Steps]_vars,
         \A c \in Creates : ~RegisterCreation(c) /\ ~RemoveCreating(c)
  PROVE  /\ UNCHANGED <<CreatingPods, removingCreating>>
         /\ \A c \in Creates : cpc'[c] = "registered" =>
               cpc[c] = "registered" /\ target'[c] = target[c]
         /\ \A c \in Creates : created'[c] = NoValue => created[c] = NoValue
<1> DEFINE Same == /\ UNCHANGED <<CreatingPods, removingCreating>>
                   /\ \A c \in Creates : cpc'[c] = "registered" =>
                         cpc[c] = "registered" /\ target'[c] = target[c]
                   /\ \A c \in Creates : created'[c] = NoValue => created[c] = NoValue
<1>0. /\ cpc \in [Creates -> CreatePCs] /\ target \in [Creates -> Names \cup {None}]
      /\ created \in [Creates -> Cells]
  BY DEF IInv, TypeOK
<1>1. ASSUME NEW c \in Creates, CreateSteps(c) PROVE Same
  <2>1. CASE UNCHANGED <<cpc, target>> /\ UNCHANGED maps /\ \E v \in Values : created' = Sent(created, {c}, v)
    <3>1. \A x \in Creates : created'[x] = NoValue => created[x] = NoValue
      BY <1>0, <2>1, SentCells
    <3> QED
      BY <2>1, <3>1 DEF maps
  <2>2. CASE StartJobs(c) \/ CreatedTimeout(c)
    <3>1. \E v \in Values : created' = Sent(created, {c}, v)
      BY <2>2, ValuesAre DEF StartJobs, CreatedTimeout
    <3> QED
      BY <2>1, <2>2, <3>1 DEF StartJobs, CreatedTimeout
  <2>3. CASE ChooseName(c) \/ FailedCreate(c)
    BY <1>0, <2>3 DEF ChooseName, FailedCreate, GotoC, maps
  <2>4. CASE \/ ChooseNameFails(c) \/ CreatePod(c) \/ CreatePodReplyLost(c) \/ CreatePodFails(c)
             \/ PodReadyTimeout(c) \/ OpenReadyWatch(c) \/ ReadyWatchFails(c)
    BY <1>0, <2>4 DEF ChooseNameFails, CreatePod, CreatePodReplyLost, MakePod, CreatePodFails,
                      PodReadyTimeout, OpenReadyWatch, ReadyWatchFails, GotoC, maps
  <2> QED
    BY <1>1, <2>2, <2>3, <2>4 DEF CreateSteps
<1>2. ASSUME NEW d \in Deletions, DeleteSteps(d) PROVE Same
  BY <1>2 DEF DeleteSteps, DeleteRequested, AlreadyDeleting, NotYetDeleting, InitDeleter,
              InitDeleterFails, RequestDeletion, RequestDeletionReplyLost,
              RequestDeletionFails, Refuse, RegisterDeletion, RemoveDeleting, DeleteJobs,
              PodDeletedTimeout, DeletedTimeout, OpenGoneWatch, GoneWatchFails, maps, creation
<1>3. ASSUME NEW i \in Creates, Kubernetes(i) PROVE Same
  BY <1>3 DEF Kubernetes, PodBecomesReady, ReadyPodModified, PodGone, maps, creation
<1>4. CASE UNCHANGED vars
  BY <1>4 DEF vars, maps, creation
<1> QED
  BY <1>1, <1>2, <1>3, <1>4 DEF Steps

\* Once it is registered, a creation keeps its name; only a restart ends it.
LEMMA RegisteredStays ==
  ASSUME IInv, [Steps]_vars, NEW c \in Creates, cpc[c] \in {"registered", "failed"}
  PROVE  cpc'[c] \in {"registered", "failed"} /\ target'[c] = target[c]
<1>0. /\ cpc \in [Creates -> CreatePCs] /\ target \in [Creates -> Names \cup {None}]
  BY DEF IInv, TypeOK
<1>1. ASSUME NEW x \in Creates, CreateSteps(x)
      PROVE  cpc'[c] \in {"registered", "failed"} /\ target'[c] = target[c]
  <2>1. CASE ChooseName(x) \/ FailedCreate(x) \/ RegisterCreation(x)
    BY <1>0, <2>1 DEF ChooseName, FailedCreate, RegisterCreation, GotoC
  <2>2. CASE \/ ChooseNameFails(x) \/ CreatePod(x) \/ CreatePodReplyLost(x) \/ CreatePodFails(x)
    BY <1>0, <2>2 DEF ChooseNameFails, CreatePod, CreatePodReplyLost, MakePod, CreatePodFails,
                      GotoC
  <2>3. CASE \/ RemoveCreating(x) \/ StartJobs(x) \/ PodReadyTimeout(x) \/ CreatedTimeout(x)
             \/ OpenReadyWatch(x) \/ ReadyWatchFails(x)
    BY <2>3 DEF RemoveCreating, StartJobs, PodReadyTimeout, CreatedTimeout, OpenReadyWatch,
                ReadyWatchFails, creation
  <2> QED
    BY <1>1, <2>1, <2>2, <2>3 DEF CreateSteps
<1>2. ASSUME NEW d \in Deletions, DeleteSteps(d) PROVE UNCHANGED <<cpc, target>>
  BY <1>2 DEF DeleteSteps, DeleteRequested, AlreadyDeleting, NotYetDeleting, InitDeleter,
              InitDeleterFails, RequestDeletion, RequestDeletionReplyLost,
              RequestDeletionFails, Refuse, RegisterDeletion, RemoveDeleting, DeleteJobs,
              PodDeletedTimeout, DeletedTimeout, OpenGoneWatch, GoneWatchFails, creation
<1>3. ASSUME NEW i \in Creates, Kubernetes(i) PROVE UNCHANGED <<cpc, target>>
  BY <1>3 DEF Kubernetes, PodBecomesReady, ReadyPodModified, PodGone, creation
<1>4. CASE UNCHANGED vars
  BY <1>4 DEF vars, creation
<1> QED
  BY <1>1, <1>2, <1>3, <1>4 DEF Steps

\* The goroutine that removes an entry belongs to a registered creation.
Registered == \A c \in removingCreating : cpc[c] \in {"registered", "failed"}

LEMMA NextRegistered == IInv /\ Registered /\ [Next]_vars => Registered'
<1> SUFFICES ASSUME IInv, Registered, [Next]_vars PROVE Registered'
  OBVIOUS
<1>0. removingCreating \subseteq Creates /\ cpc \in [Creates -> CreatePCs]
  BY DEF IInv, TypeOK
<1>1. CASE Restart
  BY <1>1 DEF Restart, Registered
<1>2. ASSUME [Steps]_vars, NEW c \in removingCreating', c \in removingCreating
      PROVE  cpc'[c] \in {"registered", "failed"}
  BY <1>0, <1>2, RegisteredStays DEF Registered
<1>3. ASSUME [Steps]_vars, NEW c \in removingCreating', c \notin removingCreating
      PROVE  cpc'[c] \in {"registered", "failed"}
  <2>1. PICK x \in Creates : RegisterCreation(x) \/ RemoveCreating(x)
    BY <1>3, CreationsElsewhere
  <2>2. RegisterCreation(x) /\ x = c
    BY <1>3, <2>1 DEF RegisterCreation, RemoveCreating
  <2> QED
    BY <1>0, <2>2 DEF RegisterCreation, GotoC
<1> QED
  BY <1>1, <1>2, <1>3 DEF Next, Registered

\* A creation that is done and has removed the entry of its name remains so.
LEMMA DoneStays ==
  ASSUME IInv, [Steps]_vars, NEW e \in Creates,
         cpc[e] \in {"registered", "failed"}, created[e] # NoValue,
         e \notin removingCreating
  PROVE  /\ cpc'[e] \in {"registered", "failed"} /\ target'[e] = target[e]
         /\ created'[e] # NoValue /\ e \notin removingCreating'
<1>0. cpc \in [Creates -> CreatePCs] /\ created \in [Creates -> Cells]
  BY DEF IInv, TypeOK
<1>1. cpc'[e] \in {"registered", "failed"} /\ target'[e] = target[e]
  BY RegisteredStays
<1>2. ASSUME NEW c \in Creates, RegisterCreation(c) \/ RemoveCreating(c)
      PROVE  created'[e] # NoValue /\ e \notin removingCreating'
  <2>1. created' = created
    BY <1>2 DEF RegisterCreation, RemoveCreating, creation
  <2>2. e \notin removingCreating'
    <3>1. CASE RegisterCreation(c)
      BY <1>0, <3>1 DEF RegisterCreation, GotoC
    <3>2. CASE RemoveCreating(c)
      BY <3>2 DEF RemoveCreating
    <3> QED
      BY <1>2, <3>1, <3>2
  <2> QED
    BY <2>1, <2>2
<1>3. CASE \A c \in Creates : ~RegisterCreation(c) /\ ~RemoveCreating(c)
  <2>1. removingCreating' = removingCreating /\ (created'[e] = NoValue => created[e] = NoValue)
    BY <1>3, CreationsElsewhere
  <2> QED
    BY <1>1, <2>1
<1> QED
  BY <1>1, <1>2, <1>3

LEMMA NextCreatingEntry ==
  IInv /\ Registered /\ CreatingEntry /\ [Next]_vars => CreatingEntry'
<1> SUFFICES ASSUME IInv, Registered, CreatingEntry, [Next]_vars PROVE CreatingEntry'
  OBVIOUS
<1> DEFINE Done(x, e) == /\ target[e] = target[x] /\ cpc[e] \in {"registered", "failed"}
                         /\ created[e] # NoValue /\ e \notin removingCreating
<1>0. /\ cpc \in [Creates -> CreatePCs] /\ CreatingPods \in [Names -> Creates \cup {None}]
      /\ \A c \in Creates : cpc[c] \notin {"idle", "rejected"} => target[c] \in Names
      /\ \A c \in Creates : c # None
      /\ \A n \in Names : n # None
  BY PodServerAssumption DEF IInv, TypeOK, Created
<1>1. ASSUME NEW c \in Creates, RegisterCreation(c),
             NEW x \in Creates, cpc'[x] = "registered", created'[x] = NoValue
      PROVE  CreatingPods'[target'[x]] # None \/ \E e \in Creates \ {x} : Done(x, e)'
  <2>1. /\ CreatingPods' = [CreatingPods EXCEPT ![target[c]] = c]
        /\ cpc' = [cpc EXCEPT ![c] = "registered"] /\ UNCHANGED <<target, created>>
    BY <1>1 DEF RegisterCreation, GotoC
  <2>2. CASE target[x] = target[c]
    <3>1. target[c] \in Names
      BY <1>0, <1>1 DEF RegisterCreation, GotoC
    <3> QED
      BY <1>0, <2>1, <2>2, <3>1
  <2>3. CASE target[x] # target[c]
    <3>1. x # c /\ cpc[x] = "registered" /\ created[x] = NoValue
      BY <1>0, <1>1, <2>1, <2>3
    <3>2. target[x] \in Names /\ CreatingPods'[target'[x]] = CreatingPods[target[x]]
      BY <1>0, <2>1, <2>3, <3>1
    <3>3. ASSUME NEW e \in Creates \ {x}, Done(x, e) PROVE Done(x, e)'
      <4>1. Steps
        BY <1>1 DEF Steps, CreateSteps
      <4>2. target'[x] = target[x]
        BY <2>1
      <4> QED
        BY <3>3, <4>1, <4>2, DoneStays
    <3> QED
      BY <3>1, <3>2, <3>3 DEF CreatingEntry
  <2> QED
    BY <2>2, <2>3
<1>2. ASSUME NEW c \in Creates, RemoveCreating(c),
             NEW x \in Creates, cpc'[x] = "registered", created'[x] = NoValue
      PROVE  CreatingPods'[target'[x]] # None \/ \E e \in Creates \ {x} : Done(x, e)'
  <2>1. /\ created[c] # NoValue /\ UNCHANGED creation /\ c \notin removingCreating'
        /\ CreatingPods' = [CreatingPods EXCEPT ![target[c]] = None]
        /\ c \in removingCreating
    BY <1>2 DEF RemoveCreating
  <2>2. cpc[x] = "registered" /\ created[x] = NoValue /\ x # c /\ target'[x] = target[x]
    BY <1>2, <2>1 DEF creation
  <2>3. CASE target[x] = target[c]
    <3>1. cpc[c] \in {"registered", "failed"}
      BY <2>1 DEF Registered
    <3> QED
      BY <2>1, <2>2, <2>3, <3>1 DEF creation
  <2>4. CASE target[x] # target[c]
    <3>1. target[x] \in Names /\ CreatingPods'[target'[x]] = CreatingPods[target[x]]
      BY <1>0, <2>1, <2>2, <2>4
    <3>2. ASSUME NEW e \in Creates \ {x}, Done(x, e) PROVE Done(x, e)'
      BY <1>2, <2>2, <3>2, DoneStays DEF Steps, CreateSteps
    <3> QED
      BY <2>2, <3>1, <3>2 DEF CreatingEntry
  <2> QED
    BY <2>3, <2>4
<1>3. CASE Restart
  BY <1>3 DEF Restart, CreatingEntry
<1>4. CASE [Steps]_vars /\ \A c \in Creates : ~RegisterCreation(c) /\ ~RemoveCreating(c)
  <2> SUFFICES ASSUME NEW x \in Creates, cpc'[x] = "registered", created'[x] = NoValue
               PROVE  CreatingPods'[target'[x]] # None \/ \E e \in Creates \ {x} : Done(x, e)'
    BY DEF CreatingEntry
  <2>1. /\ UNCHANGED CreatingPods /\ target'[x] = target[x]
        /\ cpc[x] = "registered" /\ created[x] = NoValue
    BY <1>4, CreationsElsewhere
  <2>2. ASSUME NEW e \in Creates \ {x}, Done(x, e) PROVE Done(x, e)'
    BY <1>4, <2>1, <2>2, DoneStays
  <2> QED
    BY <2>1, <2>2 DEF CreatingEntry
<1> QED
  BY <1>1, <1>2, <1>3, <1>4 DEF Next, CreatingEntry

\* "There should be an entry in CreatingPods until this finishes"
\* (server_test.go:263), but for an entry that another creation of that name has
\* removed when it was done.
THEOREM CreationHasEntry == Spec => []CreatingEntry
<1>1. Init => Registered /\ CreatingEntry
  BY DEF Init, Registered, CreatingEntry
<1> QED
  BY <1>1, Invariant, NextRegistered, NextCreatingEntry, PTL DEF Spec

-------------------------------------------------------------------------------
(***************************************************************************)
(* The readiness of a creation                                             *)
(***************************************************************************)
\* A true in podReady or finished stands for the readiness of a pod of the name.
ReadyAt(n) == \E i \in everReady : target[i] = n

NameWasReady ==
    /\ \A c \in Creates :
          /\ podReady[c] = "true" => ReadyAt(target[c])
          /\ created[c] = "true" => ReadyAt(target[c])
          /\ cpc[c] = "idle" =>
                podReady[c] = NoValue /\ created[c] = NoValue /\ readyWatch[c] = "none"
    /\ \A i \in everReady : phase[i] # "none"

\* No pod that exists, or did, is renamed; a new name goes to a creation that has
\* seen nothing yet.
LEMMA NamesStay ==
  ASSUME IInv, NEW c \in Creates, ChooseName(c)
  PROVE  /\ cpc[c] = "idle" /\ cpc' = [cpc EXCEPT ![c] = "named"]
         /\ \A x \in Creates : x # c \/ phase[x] # "none" => target'[x] = target[x]
<1>1. /\ cpc[c] = "idle" /\ cpc' = [cpc EXCEPT ![c] = "named"]
      /\ \E n : target' = [target EXCEPT ![c] = n]
  BY DEF ChooseName, GotoC
<1>2. target \in [Creates -> Names \cup {None}] /\ phase[c] = "none"
  BY <1>1 DEF IInv, TypeOK, Created
<1> QED
  BY <1>1, <1>2

LEMMA NextNameWasReady == IInv /\ NameWasReady /\ [Next]_vars => NameWasReady'
<1> SUFFICES ASSUME IInv, NameWasReady, [Next]_vars PROVE NameWasReady'
  OBVIOUS
<1>0. /\ podReady \in [Creates -> Cells] /\ created \in [Creates -> Cells]
      /\ cpc \in [Creates -> CreatePCs] /\ readyWatch \in [Creates -> Watches]
      /\ phase \in [Creates -> Phases] /\ everReady \subseteq Creates
      /\ NoValue # "true" /\ NoValue # "false"
  BY DEF IInv, TypeOK, NoValue
<1>1. ASSUME NEW c \in Creates, CreateSteps(c) PROVE NameWasReady'
  <2>1. CASE StartJobs(c) \/ CreatedTimeout(c)
    <3>1. /\ cpc[c] # "idle" /\ UNCHANGED <<everReady, phase, podReady, target, cpc, readyWatch>>
          /\ \E v \in Values : /\ v = "true" => podReady[c] = "true"
                              /\ created' = Sent(created, {c}, v)
      BY <2>1, ValuesAre DEF StartJobs, CreatedTimeout, k8s
    <3>2. PICK v \in Values : /\ v = "true" => podReady[c] = "true"
                              /\ created' = Sent(created, {c}, v)
      BY <3>1
    <3>3. \A x \in Creates : created'[x] = IF x \in {c} /\ created[x] = NoValue THEN v ELSE created[x]
      BY <1>0, <3>2, SentCells
    <3> QED
      BY <3>1, <3>2, <3>3 DEF NameWasReady, ReadyAt
  <2>2. CASE PodReadyTimeout(c) \/ ReadyWatchFails(c)
    <3>1. /\ cpc[c] # "idle" /\ UNCHANGED <<everReady, phase, created, target, cpc>>
          /\ podReady' = Sent(podReady, {c}, "false")
          /\ \A x \in Creates \ {c} : readyWatch'[x] = readyWatch[x]
      BY <1>0, <2>2 DEF PodReadyTimeout, ReadyWatchFails, k8s
    <3>2. \A x \in Creates : podReady'[x] = IF x \in {c} /\ podReady[x] = NoValue THEN "false" ELSE podReady[x]
      BY <1>0, <3>1, SentCells, ValuesAre
    <3> QED
      BY <1>0, <3>1, <3>2 DEF NameWasReady, ReadyAt
  <2>3. CASE ChooseName(c)
    <3>1. /\ cpc[c] = "idle" /\ cpc' = [cpc EXCEPT ![c] = "named"]
          /\ \A x \in Creates : x # c \/ phase[x] # "none" => target'[x] = target[x]
      BY <2>3, NamesStay
    <3>2. /\ UNCHANGED <<everReady, phase, podReady, created>>
          /\ \A x \in Creates \ {c} : readyWatch'[x] = readyWatch[x]
      BY <1>0, <2>3 DEF ChooseName, k8s
    <3>3. podReady[c] # "true" /\ created[c] # "true"
      BY <1>0, <3>1 DEF NameWasReady
    <3>4. \A n : ReadyAt(n) => ReadyAt(n)'
      BY <1>0, <3>1, <3>2 DEF NameWasReady, ReadyAt
    <3> QED
      BY <1>0, <3>1, <3>2, <3>3, <3>4 DEF NameWasReady
  <2>4. CASE \/ ChooseNameFails(c) \/ CreatePod(c) \/ CreatePodReplyLost(c)
             \/ CreatePodFails(c) \/ RegisterCreation(c) \/ RemoveCreating(c)
             \/ FailedCreate(c) \/ OpenReadyWatch(c)
    <3>1. /\ UNCHANGED <<everReady, podReady, created, target>>
          /\ \A x \in Creates : phase[x] # "none" => phase'[x] # "none"
          /\ \A x \in Creates : cpc'[x] = "idle" => cpc[x] = "idle" /\ readyWatch'[x] = readyWatch[x]
      BY <1>0, <2>4
         DEF ChooseNameFails, CreatePod, CreatePodReplyLost, MakePod, CreatePodFails,
             RegisterCreation, RemoveCreating, FailedCreate, OpenReadyWatch, GotoC, k8s, creation
    <3> QED
      BY <1>0, <3>1 DEF NameWasReady, ReadyAt
  <2> QED
    BY <1>1, <2>1, <2>2, <2>3, <2>4 DEF CreateSteps
<1>2. ASSUME NEW d \in Deletions, DeleteSteps(d) PROVE NameWasReady'
  <2>1. /\ UNCHANGED <<everReady, creation>>
        /\ \A x \in Creates : phase[x] # "none" => phase'[x] # "none"
    BY <1>0, <1>2
       DEF DeleteSteps, DeleteRequested, AlreadyDeleting, NotYetDeleting, InitDeleter,
           InitDeleterFails, RequestDeletion, RequestDeletionReplyLost,
           RequestDeletionFails, Refuse, RegisterDeletion, RemoveDeleting, DeleteJobs,
           PodDeletedTimeout, DeletedTimeout, OpenGoneWatch, GoneWatchFails, k8s
  <2> QED
    BY <1>0, <2>1 DEF NameWasReady, ReadyAt, creation
<1>3. ASSUME NEW i \in Creates, Kubernetes(i) PROVE NameWasReady'
  <2>0. /\ UNCHANGED <<created, target, cpc, readyWatch>> /\ everReady \subseteq everReady'
        /\ \A x \in Creates : phase[x] # "none" => phase'[x] # "none"
        /\ \A x \in everReady' : x \in everReady \/ phase'[x] # "none"
    BY <1>0, <1>3 DEF Kubernetes, PodBecomesReady, ReadyPodModified, PodGone, k8s, creation
  <2>1. CASE PodGone(i)
    BY <1>0, <2>0, <2>1 DEF PodGone, NameWasReady, ReadyAt, creation
  <2>2. CASE PodBecomesReady(i) \/ ReadyPodModified(i)
    <3>1. i \in everReady' /\ podReady' = Sent(podReady, ReadyWatchers(target[i]), "true")
      BY <2>2 DEF PodBecomesReady, ReadyPodModified, k8s
    <3>2. \A x \in Creates : podReady'[x] = IF x \in ReadyWatchers(target[i]) /\ podReady[x] = NoValue
                                          THEN "true" ELSE podReady[x]
      BY <1>0, <3>1, SentCells, ValuesAre
    <3>3. \A x \in ReadyWatchers(target[i]) : target[x] = target[i] /\ readyWatch[x] = "open"
      BY DEF ReadyWatchers
    <3> QED
      BY <1>0, <2>0, <3>1, <3>2, <3>3 DEF NameWasReady, ReadyAt
  <2> QED
    BY <1>3, <2>1, <2>2 DEF Kubernetes
<1>4. CASE Restart
  BY <1>0, <1>4 DEF Restart, NameWasReady, k8s
<1>5. CASE UNCHANGED vars
  BY <1>5 DEF vars, k8s, creation, NameWasReady, ReadyAt
<1> QED
  BY <1>1, <1>2, <1>3, <1>4, <1>5 DEF Next, Steps

\* A creation that reports success has a pod of its name that became ready
\* (README.md:56), although the watch is on the name and opened at any time.
THEOREM ReadyWhenCreated == Spec => []CreatedMeansReady
<1>1. Init => NameWasReady
  BY DEF Init, NameWasReady, NoValue
<1>2. NameWasReady => CreatedMeansReady
  BY DEF NameWasReady, ReadyAt, CreatedMeansReady
<1> QED
  BY <1>1, <1>2, Invariant, NextNameWasReady, PTL DEF Spec

-------------------------------------------------------------------------------
(***************************************************************************)
(* The deletion after a failed creation                                    *)
(***************************************************************************)
\* It has the name of the creation.
OwnName ==
    \A c \in Creates : dpc[c] # "idle" => cpc[c] = "failed" /\ dname[c] = target[c]

LEMMA NextOwnName == IInv /\ OwnName /\ [Next]_vars => OwnName'
<1> SUFFICES ASSUME IInv, OwnName, [Next]_vars PROVE OwnName'
  OBVIOUS
<1>0. /\ cpc \in [Creates -> CreatePCs] /\ target \in [Creates -> Names \cup {None}]
      /\ dpc \in [Deletions -> DeletePCs] /\ dname \in [Deletions -> Names \cup {None}]
      /\ Creates \subseteq Deletions /\ Creates \cap Deletes = {}
  BY PodServerAssumption DEF IInv, TypeOK, Deletions
<1>1. ASSUME NEW c \in Creates, CreateSteps(c) PROVE OwnName'
  <2>1. CASE FailedCreate(c)
    BY <1>0, <2>1 DEF FailedCreate, GotoC, GotoD, OwnName
  <2>2. CASE ChooseName(c)
    BY <1>0, <2>2 DEF ChooseName, GotoC, OwnName, deletion
  <2>3. CASE \/ ChooseNameFails(c) \/ CreatePod(c) \/ CreatePodReplyLost(c) \/ CreatePodFails(c)
             \/ RegisterCreation(c)
    BY <1>0, <2>3 DEF ChooseNameFails, CreatePod, CreatePodReplyLost, MakePod, CreatePodFails,
                      RegisterCreation, GotoC, OwnName, deletion
  <2>4. CASE \/ RemoveCreating(c) \/ StartJobs(c) \/ PodReadyTimeout(c) \/ CreatedTimeout(c)
             \/ OpenReadyWatch(c) \/ ReadyWatchFails(c)
    BY <2>4 DEF RemoveCreating, StartJobs, PodReadyTimeout, CreatedTimeout, OpenReadyWatch,
                ReadyWatchFails, OwnName, creation, deletion
  <2> QED
    BY <1>1, <2>1, <2>2, <2>3, <2>4 DEF CreateSteps
<1>2. ASSUME NEW d \in Deletions, DeleteSteps(d) PROVE OwnName'
  <2>1. CASE DeleteRequested(d)
    BY <1>0, <2>1 DEF DeleteRequested, GotoD, OwnName, creation
  <2>2. CASE ~DeleteRequested(d)
    <3>1. UNCHANGED <<cpc, target, dname>>
      BY <1>2, <2>2
         DEF DeleteSteps, AlreadyDeleting, NotYetDeleting, InitDeleter,
             InitDeleterFails, RequestDeletion, RequestDeletionReplyLost,
             RequestDeletionFails, Refuse, RegisterDeletion, RemoveDeleting, DeleteJobs,
             PodDeletedTimeout, DeletedTimeout, OpenGoneWatch, GoneWatchFails, creation, deletion
    <3>2. \A e \in Deletions : dpc'[e] # "idle" => dpc[e] # "idle"
      BY <1>0, <1>2, <2>2
         DEF DeleteSteps, AlreadyDeleting, NotYetDeleting, InitDeleter,
             InitDeleterFails, RequestDeletion, RequestDeletionReplyLost,
             RequestDeletionFails, Refuse, RegisterDeletion, RemoveDeleting, DeleteJobs,
             PodDeletedTimeout, DeletedTimeout, OpenGoneWatch, GoneWatchFails, GotoD, deletion
    <3> QED
      BY <1>0, <3>1, <3>2 DEF OwnName
  <2> QED
    BY <2>1, <2>2
<1>3. ASSUME NEW i \in Creates, Kubernetes(i) PROVE UNCHANGED <<cpc, target, dpc, dname>>
  BY <1>3 DEF Kubernetes, PodBecomesReady, ReadyPodModified, PodGone, creation, deletion
<1>4. CASE Restart
  BY <1>0, <1>4 DEF Restart, OwnName
<1>5. CASE UNCHANGED <<cpc, target, dpc, dname>>
  BY <1>5 DEF OwnName
<1>6. UNCHANGED vars => UNCHANGED <<cpc, target, dpc, dname>>
  BY DEF vars, creation, deletion
<1> QED
  BY <1>1, <1>2, <1>3, <1>4, <1>5, <1>6 DEF Next, Steps

\* The pod under the name is that of the creation as long as it is there.
LEMMA SparesStep ==
  ASSUME IInv, OwnName, Made, [Next]_vars,
         NEW c \in Creates, NEW i \in Creates,
         dpc[c] = "request", dpc'[c] # "request",
         phase[i] # "terminating", phase'[i] = "terminating"
  PROVE  i = c \/ (phase[c] = "gone" /\ target[i] = target[c])
<1>1. podAt[dname[c]] = i /\ target[i] = dname[c]
  <2>1. c \in Deletions
    BY DEF Deletions
  <2> QED
    BY <2>1, TerminatingStep
<1>2. dname[c] = target[c] /\ phase[c] # "none"
  BY DEF OwnName, Made
<1>3. phase[c] \in Present => i = c
  BY <1>1, <1>2 DEF IInv, Placed
<1> QED
  BY <1>1, <1>2, <1>3 DEF IInv, TypeOK, Phases, Present

\* The deletion that follows a failed creation spares the pods of all others, the
\* one that got the name in its place included (podcreator.go:231-253), but for a
\* pod that has the name after its own is gone (server.go:321-332).
THEOREM OthersAreSpared == Spec => FailedCreateSparesOthers
<1>1. Init => OwnName /\ Made
  BY DEF Init, OwnName, Made, Deletions
<1>2. IInv /\ OwnName /\ Made /\ [Next]_vars =>
        [\A c, i \in Creates :
            /\ dpc[c] = "request" /\ dpc'[c] # "request"
            /\ phase[i] # "terminating" /\ phase'[i] = "terminating"
            => \/ i = c
               \/ phase[c] = "gone" /\ target[i] = target[c]]_vars
  BY SparesStep
<1> QED
  BY <1>1, <1>2, Invariant, NextOwnName, NextMade, PTL DEF Spec, FailedCreateSparesOthers

-------------------------------------------------------------------------------
(***************************************************************************)
(* The entry of a deletion, for as long as deletions by one name do not    *)
(* meet.                                                                   *)
(***************************************************************************)
\* A deletion that has seen no entry of its name and has not added its own yet:
\* deletePod has released the mutex and calls the API (server.go:436-455).
Between(d) == dpc[d] \in {"init", "request", "register"}

\* No two of them by the same name.
DeletionsApart ==
    \A d, e \in Deletions : Between(d) /\ Between(e) /\ dname[d] = dname[e] => d = e

\* Nothing is overwritten, and what is removed is one's own.
OwnEntries ==
    /\ \A d \in Deletions : Between(d) => DeletingPods[dname[d]] = None
    /\ \A d \in removingDeleting : DeletingPods[dname[d]] = d

\* The entry under the name of a deletion that is under way is that deletion's.
OwnDeletingEntry ==
    \A d \in Deletions :
        dpc[d] = "accepted" /\ deleted[d] = NoValue => DeletingPods[dname[d]] = d

LEMMA BetweenSteps ==
  ASSUME IInv, [Steps]_vars, NEW d \in Deletions, Between(d)'
  PROVE  dname'[d] = dname[d] /\ (Between(d) \/ DeletingPods[dname[d]] = None)
<1> DEFINE Came == dname'[d] = dname[d] /\ (Between(d) \/ DeletingPods[dname[d]] = None)
<1>0. dpc \in [Deletions -> DeletePCs] /\ dname \in [Deletions -> Names \cup {None}]
  BY DEF IInv, TypeOK
<1>1. ASSUME NEW c \in Creates, CreateSteps(c) PROVE Came
  BY <1>0, <1>1
     DEF CreateSteps, ChooseName, ChooseNameFails, CreatePod, CreatePodReplyLost, MakePod,
         CreatePodFails, RegisterCreation, RemoveCreating, StartJobs, PodReadyTimeout,
         CreatedTimeout, FailedCreate, GotoD, OpenReadyWatch, ReadyWatchFails, deletion, Between
<1>2. ASSUME NEW e \in Deletions, DeleteSteps(e) PROVE Came
  BY <1>0, <1>2
     DEF DeleteSteps, DeleteRequested, AlreadyDeleting, NotYetDeleting, InitDeleter,
         InitDeleterFails, RequestDeletion, RequestDeletionReplyLost,
         RequestDeletionFails, Refuse, RegisterDeletion, RemoveDeleting, DeleteJobs,
         PodDeletedTimeout, DeletedTimeout, OpenGoneWatch, GoneWatchFails, GotoD, deletion,
         Between
<1>3. ASSUME NEW i \in Creates, Kubernetes(i) PROVE Came
  BY <1>3 DEF Kubernetes, PodBecomesReady, ReadyPodModified, PodGone, deletion, Between
<1>4. CASE UNCHANGED vars
  BY <1>4 DEF vars, deletion, Between
<1> QED
  BY <1>1, <1>2, <1>3, <1>4 DEF Steps

LEMMA NextOwnEntries ==
  IInv /\ Entries /\ DeletionsApart /\ OwnEntries /\ [Next]_vars => OwnEntries'
<1> SUFFICES ASSUME IInv, Entries, DeletionsApart, OwnEntries, [Next]_vars PROVE OwnEntries'
  OBVIOUS
<1>0. /\ removingDeleting \subseteq Deletions
      /\ DeletingPods \in [Names -> Deletions \cup {None}]
      /\ \A d \in Deletions : d # None /\ (dpc[d] # "idle" => dname[d] \in Names)
      /\ dpc \in [Deletions -> DeletePCs]
      /\ \A d \in removingDeleting : dpc[d] = "accepted"
  BY PodServerAssumption DEF IInv, TypeOK, Found, Deletions, Entries
<1>1. ASSUME NEW d \in Deletions, RegisterDeletion(d) PROVE OwnEntries'
  <2>1. /\ dpc[d] = "register" /\ dpc' = [dpc EXCEPT ![d] = "accepted"]
        /\ DeletingPods' = [DeletingPods EXCEPT ![dname[d]] = d]
        /\ removingDeleting' = removingDeleting \cup {d}
        /\ UNCHANGED dname
    BY <1>1 DEF RegisterDeletion, GotoD
  <2>2. Between(d) /\ dname[d] \in Names /\ DeletingPods[dname[d]] = None
    BY <1>0, <2>1 DEF Between, OwnEntries
  <2>3. ASSUME NEW e \in Deletions, Between(e)' PROVE DeletingPods'[dname'[e]] = None
    <3>1. Between(e) /\ e # d /\ dname[e] \in Names
      BY <1>0, <2>1, <2>3 DEF Between
    <3>2. dname[e] # dname[d] /\ DeletingPods[dname[e]] = None
      BY <2>2, <3>1 DEF DeletionsApart, OwnEntries
    <3> QED
      BY <1>0, <2>1, <2>2, <3>1, <3>2
  <2>4. ASSUME NEW e \in removingDeleting' PROVE DeletingPods'[dname'[e]] = e
    <3>1. CASE e = d
      BY <1>0, <2>1, <2>2, <3>1
    <3>2. CASE e \in removingDeleting
      <4>1. DeletingPods[dname[e]] = e /\ dname[e] \in Names /\ e # None
        BY <1>0, <3>2 DEF OwnEntries
      <4> QED
        BY <1>0, <2>1, <2>2, <4>1
    <3> QED
      BY <2>1, <3>1, <3>2
  <2> QED
    BY <2>3, <2>4 DEF OwnEntries
<1>2. ASSUME NEW d \in Deletions, RemoveDeleting(d) PROVE OwnEntries'
  <2>1. /\ d \in removingDeleting
        /\ DeletingPods' = [DeletingPods EXCEPT ![dname[d]] = None]
        /\ removingDeleting' = removingDeleting \ {d}
        /\ UNCHANGED <<dpc, dname>>
    BY <1>2 DEF RemoveDeleting, deletion
  <2>2. dname[d] \in Names /\ DeletingPods[dname[d]] = d
    BY <1>0, <2>1 DEF OwnEntries
  <2>3. ASSUME NEW e \in Deletions, Between(e)' PROVE DeletingPods'[dname'[e]] = None
    <3>1. Between(e) /\ dname[e] \in Names
      BY <1>0, <2>1, <2>3 DEF Between
    <3> QED
      BY <1>0, <2>1, <2>2, <3>1 DEF OwnEntries
  <2>4. ASSUME NEW e \in removingDeleting' PROVE DeletingPods'[dname'[e]] = e
    <3>1. e \in removingDeleting /\ e # d /\ DeletingPods[dname[e]] = e
      BY <2>1, <2>4 DEF OwnEntries
    <3>2. dname[e] \in Names /\ dname[e] # dname[d]
      BY <1>0, <2>2, <3>1
    <3> QED
      BY <1>0, <2>1, <2>2, <3>1, <3>2
  <2> QED
    BY <2>3, <2>4 DEF OwnEntries
<1>3. CASE [Steps]_vars /\ \A d \in Deletions : ~RegisterDeletion(d) /\ ~RemoveDeleting(d)
  <2>1. UNCHANGED <<DeletingPods, removingDeleting>>
    BY <1>3, OthersLeaveEntries
  <2>2. ASSUME NEW d \in Deletions, Between(d)' PROVE DeletingPods'[dname'[d]] = None
    BY <1>3, <2>1, <2>2, BetweenSteps DEF OwnEntries
  <2>3. ASSUME NEW d \in removingDeleting' PROVE DeletingPods'[dname'[d]] = d
    BY <1>0, <1>3, <2>1, <2>3, AcceptedStays DEF OwnEntries
  <2> QED
    BY <2>2, <2>3 DEF OwnEntries
<1>4. CASE Restart
  BY <1>4 DEF Restart, OwnEntries, Between
<1> QED
  BY <1>1, <1>2, <1>3, <1>4 DEF Next

\* "There should be an entry in DeletingPods until this finishes"
\* (server_test.go:392), without exception, if no two deletions by one name are
\* between the test of the map and the new entry at the same time.
THEOREM DeletionHasOwnEntry == Spec /\ []DeletionsApart => []OwnDeletingEntry
<1>1. Init => Entries /\ OwnEntries
  BY DEF Init, Entries, OwnEntries, Between
<1>2. Entries /\ OwnEntries => OwnDeletingEntry
  BY DEF Entries, OwnEntries, OwnDeletingEntry
<1> QED
  BY <1>1, <1>2, Invariant, NextEntries, NextOwnEntries, PTL DEF Spec
===============================================================================
