------------------------------- MODULE PodServer -------------------------------
(***************************************************************************)
(* The life of a pod in the backend: create_pod and delete_pod as served   *)
(* by package server, through podcreator, poddeleter, the start and delete *)
(* jobs of package managed and the watches of package k8sclient, against   *)
(* the Kubernetes API and next to one another.                             *)
(*                                                                         *)
(* Everything in the backend is keyed by the pod's NAME, and a name is     *)
(* free again as soon as its pod is gone.  The model therefore keeps apart *)
(* the name and the object: the pod object made by creation request c is   *)
(* called c, and podAt[n] is the object that has the name n at the moment. *)
(*                                                                         *)
(* One action is one critical section of Server.mutex, one Kubernetes API  *)
(* call, or one step of a goroutine that changes a channel; between any    *)
(* two of them every other goroutine may run.  Left out here: the user's   *)
(* storage, its share in the last lines of deletePod included (it touches  *)
(* no variable of this module, module UserStorage has it), what the start  *)
(* and delete jobs do to services, ingresses and caches (only their        *)
(* outcome is kept), logging, and the text of requests and responses.      *)
(***************************************************************************)
EXTENDS Channels, Sequences, Naturals, FiniteSets

CONSTANTS
    Users,
    Names,            \* pod names
    Candidates,       \* for each user, the names applyCreatePodName tries in turn
    Creates,          \* create_pod requests, and the pod objects they make
    Deletes,          \* delete_pod requests
    UserOf,           \* the user of each request
    ApiMayFail,       \* may calls to the API, or only their replies, fail?
    MayRestart,       \* may the backend be restarted, any number of times?
    None

\* deletePod runs for a delete_pod request and, through deletePodIfFailedCreate,
\* for a creation that failed: that deletion goes by the name of the creation.
Deletions == Deletes \cup Creates

ASSUME PodServerAssumption ==
    /\ Candidates \in [Users -> Seq(Names)]
    /\ UserOf \in [Deletions -> Users]
    /\ Creates \cap Deletes = {}
    /\ ApiMayFail \in BOOLEAN
    /\ MayRestart \in BOOLEAN
    /\ None \notin Names \cup Creates \cup Deletes

VARIABLES
    \* Kubernetes
    podAt,            \* the object at each name, or None
    phase,            \* the phase of each object
    everReady,        \* the objects whose Ready condition became true
    \* Server: the watch maps, a request or None for each name
    CreatingPods,
    DeletingPods,
    \* create_pod requests
    cpc,              \* where createPod is
    target,           \* the name chosen by applyCreatePodName, or None
    readyWatch,       \* the goroutine of WatchCreatePod
    podReady,         \* the ReadyChannel podReady of CreatePod
    created,          \* the ReadyChannel finished of ServeCreatePod
    removingCreating, \* requests whose addToWatchMaps goroutine is yet to delete
    \* deletions
    dpc,              \* where deletePod is
    dname,            \* request.PodName, or None
    found,            \* the object NewPodDeleter found at that name, or None
    goneWatch,        \* the goroutine of WatchDeletePod
    podDeleted,       \* the ReadyChannel podDeleted of DeletePod
    deleted,          \* the ReadyChannel finished of deletePod
    removingDeleting

k8s      == <<podAt, phase, everReady>>
maps     == <<CreatingPods, DeletingPods, removingCreating, removingDeleting>>
creation == <<cpc, target, readyWatch, podReady, created>>
deletion == <<dpc, dname, found, goneWatch, podDeleted, deleted>>
vars     == <<k8s, maps, creation, deletion>>

Phases   == {"none", "pending", "ready", "terminating", "gone"}
Watches  == {"none", "spawned", "open", "failed"}
CreatePCs == {"idle", "named", "rejected", "created", "registered", "failed"}
DeletePCs == {"idle", "check", "init", "request", "register", "accepted", "refused"}

\* A pod that the API server still has under its name.
Present  == {"pending", "ready", "terminating"}

TypeOK ==
    /\ podAt \in [Names -> Creates \cup {None}]
    /\ phase \in [Creates -> Phases]
    /\ everReady \subseteq Creates
    /\ CreatingPods \in [Names -> Creates \cup {None}]
    /\ DeletingPods \in [Names -> Deletions \cup {None}]
    /\ cpc \in [Creates -> CreatePCs]
    /\ target \in [Creates -> Names \cup {None}]
    /\ readyWatch \in [Creates -> Watches]
    /\ podReady \in [Creates -> Cells]
    /\ created \in [Creates -> Cells]
    /\ removingCreating \subseteq Creates
    /\ dpc \in [Deletions -> DeletePCs]
    /\ dname \in [Deletions -> Names \cup {None}]
    /\ found \in [Deletions -> Creates \cup {None}]
    /\ goneWatch \in [Deletions -> Watches]
    /\ podDeleted \in [Deletions -> Cells]
    /\ deleted \in [Deletions -> Cells]
    /\ removingDeleting \subseteq Deletions

Init ==
    /\ podAt = [n \in Names |-> None]
    /\ phase = [c \in Creates |-> "none"]
    /\ everReady = {}
    /\ CreatingPods = [n \in Names |-> None]
    /\ DeletingPods = [n \in Names |-> None]
    /\ cpc = [c \in Creates |-> "idle"]
    /\ target = [c \in Creates |-> None]
    /\ readyWatch = [c \in Creates |-> "none"]
    /\ podReady = [c \in Creates |-> NoValue]
    /\ created = [c \in Creates |-> NoValue]
    /\ removingCreating = {}
    /\ dpc = [d \in Deletions |-> "idle"]
    /\ dname = [d \in Deletions |-> None]
    /\ found = [d \in Deletions |-> None]
    /\ goneWatch = [d \in Deletions |-> "none"]
    /\ podDeleted = [d \in Deletions |-> NoValue]
    /\ deleted = [d \in Deletions |-> NoValue]
    /\ removingDeleting = {}

GotoC(c, from, to) == cpc[c] = from /\ cpc' = [cpc EXCEPT ![c] = to]
GotoD(d, from, to) == dpc[d] = from /\ dpc' = [dpc EXCEPT ![d] = to]

-------------------------------------------------------------------------------
(***************************************************************************)
(* create_pod                                                              *)
(***************************************************************************)
\* The pods that user.ListPods returns: those with the user's labels.
OwnedBy(u) == {n \in Names : podAt[n] # None /\ UserOf[podAt[n]] = u}

\* Positions of the candidate names that no pod of the user has.
Unused(u) == {i \in DOMAIN Candidates[u] : Candidates[u][i] \notin OwnedBy(u)}

\* NewPodCreator lists the user's pods and takes the first unused name;
\* CreatePod starts the goroutine that will watch for readiness.
ChooseName(c) ==
    \E i \in Unused(UserOf[c]) :
        /\ \A j \in Unused(UserOf[c]) : i <= j
        /\ GotoC(c, "idle", "named")
        /\ target' = [target EXCEPT ![c] = Candidates[UserOf[c]][i]]
        /\ readyWatch' = [readyWatch EXCEPT ![c] = "spawned"]
        /\ UNCHANGED <<k8s, maps, podReady, created, deletion>>

\* All candidate names are in use, or the list failed: an error to the client.
ChooseNameFails(c) ==
    /\ Unused(UserOf[c]) = {} \/ ApiMayFail
    /\ GotoC(c, "idle", "rejected")
    /\ UNCHANGED <<k8s, maps, target, readyWatch, podReady, created, deletion>>

MakePod(c) ==
    /\ podAt[target[c]] = None
    /\ podAt' = [podAt EXCEPT ![target[c]] = c]
    /\ phase' = [phase EXCEPT ![c] = "pending"]
    /\ UNCHANGED <<everReady, maps, target, readyWatch, podReady, created, deletion>>

\* client.CreatePod succeeds; `go pod.RunStartJobsWhenReady` starts waiting.
CreatePod(c) == GotoC(c, "named", "created") /\ MakePod(c)

\* The reply is lost: the pod is there, but the client is told of an error, and
\* nothing in the backend waits for the pod or will delete it.
CreatePodReplyLost(c) == ApiMayFail /\ GotoC(c, "named", "rejected") /\ MakePod(c)

\* Faulty variant: the error of the call is ignored.
CreatePodErrorIgnored(c) ==
    /\ GotoC(c, "named", "created")
    /\ podAt[target[c]] # None \/ ApiMayFail
    /\ UNCHANGED <<k8s, maps, target, readyWatch, podReady, created, deletion>>

\* The name was taken since it was chosen (AlreadyExists), or the call failed.
CreatePodFails(c) ==
    /\ GotoC(c, "named", "rejected")
    /\ podAt[target[c]] # None \/ ApiMayFail
    /\ UNCHANGED <<k8s, maps, target, readyWatch, podReady, created, deletion>>

\* createPod adds the entry and its goroutine to CreatingPods and the response
\* goes out; ServeCreatePod leaves a goroutine that waits for the outcome.
RegisterCreation(c) ==
    /\ GotoC(c, "created", "registered")
    /\ CreatingPods' = [CreatingPods EXCEPT ![target[c]] = c]
    /\ removingCreating' = removingCreating \cup {c}
    /\ UNCHANGED <<k8s, DeletingPods, removingDeleting,
                   target, readyWatch, podReady, created, deletion>>

\* Faulty variant: the goroutine does not wait for the outcome.
RemoveCreatingAtOnce(c) ==
    /\ c \in removingCreating
    /\ CreatingPods' = [CreatingPods EXCEPT ![target[c]] = None]
    /\ removingCreating' = removingCreating \ {c}
    /\ UNCHANGED <<k8s, DeletingPods, removingDeleting, creation, deletion>>

\* The goroutine of addToWatchMaps: delete(s.CreatingPods, key), whatever entry
\* the key has by now.
RemoveCreating(c) ==
    /\ c \in removingCreating
    /\ created[c] # NoValue
    /\ CreatingPods' = [CreatingPods EXCEPT ![target[c]] = None]
    /\ removingCreating' = removingCreating \ {c}
    /\ UNCHANGED <<k8s, DeletingPods, removingDeleting, creation, deletion>>

\* Faulty variant: the received value is not looked at.
StartJobsAnyway(c) ==
    /\ cpc[c] \in {"created", "registered"}
    /\ podReady[c] # NoValue
    /\ created[c] = NoValue
    /\ \E v \in Values : created' = Sent(created, {c}, v)
    /\ UNCHANGED <<k8s, maps, cpc, target, readyWatch, podReady, deletion>>

\* RunStartJobsWhenReady: once podReady (and the storage) has settled, the jobs
\* run.  They send true only after a true podReady; they may also fail, as may
\* the storage.
StartJobs(c) ==
    /\ cpc[c] \in {"created", "registered"}
    /\ podReady[c] # NoValue
    /\ created[c] = NoValue
    /\ \E v \in Values :
        /\ v = "true" => podReady[c] = "true"
        /\ created' = Sent(created, {c}, v)
    /\ UNCHANGED <<k8s, maps, cpc, target, readyWatch, podReady, deletion>>

\* The timers of the two ReadyChannels, both of timeoutCreate.
PodReadyTimeout(c) ==
    /\ cpc[c] \in {"named", "created", "registered"}
    /\ podReady[c] = NoValue
    /\ podReady' = Sent(podReady, {c}, "false")
    /\ UNCHANGED <<k8s, maps, cpc, target, readyWatch, created, deletion>>

CreatedTimeout(c) ==
    /\ cpc[c] \in {"named", "created", "registered"}
    /\ created[c] = NoValue
    /\ created' = Sent(created, {c}, "false")
    /\ UNCHANGED <<k8s, maps, cpc, target, readyWatch, podReady, deletion>>

\* Faulty variant: the failure is only logged.
FailedCreateLogged(c) ==
    /\ created[c] = "false"
    /\ GotoC(c, "registered", "failed")
    /\ UNCHANGED <<k8s, maps, target, readyWatch, podReady, created, deletion>>

\* Faulty variant: the goroutine deletes the pod whatever the outcome is.
DeleteWhenDone(c) ==
    /\ created[c] # NoValue
    /\ GotoC(c, "registered", "failed")
    /\ GotoD(c, "idle", "check")
    /\ dname' = [dname EXCEPT ![c] = target[c]]
    /\ UNCHANGED <<k8s, maps, target, readyWatch, podReady, created,
                   found, goneWatch, podDeleted, deleted>>

\* The goroutine of ServeCreatePod: the creation failed, so its pod is to be
\* deleted, by name, with the request's user.
FailedCreate(c) ==
    /\ created[c] = "false"
    /\ GotoC(c, "registered", "failed")
    /\ GotoD(c, "idle", "check")
    /\ dname' = [dname EXCEPT ![c] = target[c]]
    /\ UNCHANGED <<k8s, maps, target, readyWatch, podReady, created,
                   found, goneWatch, podDeleted, deleted>>

-------------------------------------------------------------------------------
(***************************************************************************)
(* delete_pod                                                              *)
(***************************************************************************)
\* ServeDeletePod for any name the client likes.
DeleteRequested(d) ==
    /\ d \in Deletes
    /\ GotoD(d, "idle", "check")
    /\ \E n \in Names : dname' = [dname EXCEPT ![d] = n]
    /\ UNCHANGED <<k8s, maps, creation, found, goneWatch, podDeleted, deleted>>

\* finished.Send(false) and an error to the caller.
Refuse(d, from) ==
    /\ GotoD(d, from, "refused")
    /\ deleted' = Sent(deleted, {d}, "false")
    /\ UNCHANGED <<k8s, maps, creation, dname, found, goneWatch, podDeleted>>

AlreadyDeleting(d) ==
    /\ Refuse(d, "check")
    /\ DeletingPods[dname[d]] # None

NotYetDeleting(d) ==
    /\ GotoD(d, "check", "init")
    /\ DeletingPods[dname[d]] = None
    /\ UNCHANGED <<k8s, maps, creation, dname, found, goneWatch, podDeleted, deleted>>

\* Faulty variant: the owner is not checked.
DeletableByAnyone(d) == podAt[dname[d]] # None

\* The user may delete the pod that now has the name.
Deletable(d) ==
    /\ podAt[dname[d]] # None
    /\ UserOf[podAt[dname[d]]] = UserOf[d]

\* NewPodDeleter finds the pod and checks its owner; DeletePod starts the
\* goroutine that will watch for the deletion.
InitDeleter(d) ==
    /\ GotoD(d, "init", "request")
    /\ Deletable(d)
    /\ found' = [found EXCEPT ![d] = podAt[dname[d]]]
    /\ goneWatch' = [goneWatch EXCEPT ![d] = "spawned"]
    /\ UNCHANGED <<k8s, maps, creation, dname, podDeleted, deleted>>

InitDeleterFails(d) ==
    /\ Refuse(d, "init")
    /\ ~Deletable(d) \/ ApiMayFail

\* client.DeletePod(podName): the pod that has the name now starts terminating;
\* `go RunDeleteJobsWhenReady` starts waiting.
RequestDeletion(d) ==
    /\ GotoD(d, "request", "register")
    /\ podAt[dname[d]] # None
    /\ phase' = [phase EXCEPT ![podAt[dname[d]]] = "terminating"]
    /\ UNCHANGED <<podAt, everReady, maps, creation,
                   dname, found, goneWatch, podDeleted, deleted>>

\* Faulty variant: the error of the call is ignored.
RequestDeletionErrorIgnored(d) ==
    /\ GotoD(d, "request", "register")
    /\ podAt[dname[d]] = None \/ ApiMayFail
    /\ UNCHANGED <<k8s, maps, creation, dname, found, goneWatch, podDeleted, deleted>>

\* The pod is gone since it was found (NotFound), or the call failed.
RequestDeletionFails(d) ==
    /\ Refuse(d, "request")
    /\ podAt[dname[d]] = None \/ ApiMayFail

\* The reply is lost: the pod starts terminating, and the client is refused.
RequestDeletionReplyLost(d) ==
    /\ ApiMayFail
    /\ GotoD(d, "request", "refused")
    /\ podAt[dname[d]] # None
    /\ phase' = [phase EXCEPT ![podAt[dname[d]]] = "terminating"]
    /\ deleted' = Sent(deleted, {d}, "false")
    /\ UNCHANGED <<podAt, everReady, maps, creation, dname, found, goneWatch, podDeleted>>

\* Faulty variant: the entry is put into the wrong map.
RegisterInWrongMap(d) ==
    /\ GotoD(d, "register", "accepted")
    /\ CreatingPods' = [CreatingPods EXCEPT ![dname[d]] = d]
    /\ removingDeleting' = removingDeleting \cup {d}
    /\ UNCHANGED <<k8s, DeletingPods, removingCreating, creation,
                   dname, found, goneWatch, podDeleted, deleted>>

\* deletePod adds the entry and its goroutine to DeletingPods, and answers.
RegisterDeletion(d) ==
    /\ GotoD(d, "register", "accepted")
    /\ DeletingPods' = [DeletingPods EXCEPT ![dname[d]] = d]
    /\ removingDeleting' = removingDeleting \cup {d}
    /\ UNCHANGED <<k8s, CreatingPods, removingCreating, creation,
                   dname, found, goneWatch, podDeleted, deleted>>

\* Faulty variant: the goroutine does not wait for the outcome.
RemoveDeletingAtOnce(d) ==
    /\ d \in removingDeleting
    /\ DeletingPods' = [DeletingPods EXCEPT ![dname[d]] = None]
    /\ removingDeleting' = removingDeleting \ {d}
    /\ UNCHANGED <<k8s, CreatingPods, removingCreating, creation, deletion>>

\* Faulty variant: the key is deleted from the wrong map.
RemoveFromWrongMap(d) ==
    /\ d \in removingDeleting
    /\ deleted[d] # NoValue
    /\ CreatingPods' = [CreatingPods EXCEPT ![dname[d]] = None]
    /\ removingDeleting' = removingDeleting \ {d}
    /\ UNCHANGED <<k8s, DeletingPods, removingCreating, creation, deletion>>

RemoveDeleting(d) ==
    /\ d \in removingDeleting
    /\ deleted[d] # NoValue
    /\ DeletingPods' = [DeletingPods EXCEPT ![dname[d]] = None]
    /\ removingDeleting' = removingDeleting \ {d}
    /\ UNCHANGED <<k8s, CreatingPods, removingCreating, creation, deletion>>

\* Faulty variant: the jobs also run after a failure or a timeout.
DeleteJobsAnyway(d) ==
    /\ dpc[d] \in {"register", "accepted"}
    /\ podDeleted[d] # NoValue
    /\ deleted[d] = NoValue
    /\ \E v \in Values : deleted' = Sent(deleted, {d}, v)
    /\ UNCHANGED <<k8s, maps, creation, dpc, dname, found, goneWatch, podDeleted>>

\* RunDeleteJobsWhenReady: nothing is attempted unless podDeleted is true; the
\* jobs may fail.
DeleteJobs(d) ==
    /\ dpc[d] \in {"register", "accepted"}
    /\ podDeleted[d] # NoValue
    /\ deleted[d] = NoValue
    /\ \E v \in Values :
        /\ v = "true" => podDeleted[d] = "true"
        /\ deleted' = Sent(deleted, {d}, v)
    /\ UNCHANGED <<k8s, maps, creation, dpc, dname, found, goneWatch, podDeleted>>

PodDeletedTimeout(d) ==
    /\ dpc[d] \in {"request", "register", "accepted"}
    /\ podDeleted[d] = NoValue
    /\ podDeleted' = Sent(podDeleted, {d}, "false")
    /\ UNCHANGED <<k8s, maps, creation, dpc, dname, found, goneWatch, deleted>>

DeletedTimeout(d) ==
    /\ dpc[d] \in {"check", "init", "request", "register", "accepted"}
    /\ deleted[d] = NoValue
    /\ deleted' = Sent(deleted, {d}, "false")
    /\ UNCHANGED <<k8s, maps, creation, dpc, dname, found, goneWatch, podDeleted>>

-------------------------------------------------------------------------------
(***************************************************************************)
(* Watches (k8sclient.WatchFor).  A watch is on the NAME and sees only     *)
(* what happens after it is open.  It is closed once its channel has a     *)
(* value, which needs no state: a further Send is lost.  An event is sent  *)
(* into the channel in the step that causes it; that it may be delivered   *)
(* later, after the timer, looks like a watch that was opened too late.    *)
(* The watch of a request that was turned down only logs, and is dropped.  *)
(***************************************************************************)
OpenReadyWatch(c) ==
    /\ cpc[c] \in {"named", "created", "registered"}
    /\ readyWatch[c] = "spawned"
    /\ readyWatch' = [readyWatch EXCEPT ![c] = "open"]
    /\ UNCHANGED <<k8s, maps, cpc, target, podReady, created, deletion>>

\* The API refuses the watch: ch.Send(false).
ReadyWatchFails(c) ==
    /\ ApiMayFail
    /\ cpc[c] \in {"named", "created", "registered"}
    /\ readyWatch[c] = "spawned"
    /\ readyWatch' = [readyWatch EXCEPT ![c] = "failed"]
    /\ podReady' = Sent(podReady, {c}, "false")
    /\ UNCHANGED <<k8s, maps, cpc, target, created, deletion>>

OpenGoneWatch(d) ==
    /\ dpc[d] \in {"request", "register", "accepted"}
    /\ goneWatch[d] = "spawned"
    /\ goneWatch' = [goneWatch EXCEPT ![d] = "open"]
    /\ UNCHANGED <<k8s, maps, creation, dpc, dname, found, podDeleted, deleted>>

GoneWatchFails(d) ==
    /\ ApiMayFail
    /\ dpc[d] \in {"request", "register", "accepted"}
    /\ goneWatch[d] = "spawned"
    /\ goneWatch' = [goneWatch EXCEPT ![d] = "failed"]
    /\ podDeleted' = Sent(podDeleted, {d}, "false")
    /\ UNCHANGED <<k8s, maps, creation, dpc, dname, found, deleted>>

\* The open watches that see what happens at a name.
ReadyWatchers(n) == {c \in Creates : target[c] = n /\ readyWatch[c] = "open"}
GoneWatchers(n)  == {d \in Deletions : dname[d] = n /\ goneWatch[d] = "open"}

\* Some pod becomes ready: a Modified event with the Ready condition.
PodBecomesReady(i) ==
    /\ phase[i] = "pending"
    /\ phase' = [phase EXCEPT ![i] = "ready"]
    /\ everReady' = everReady \cup {i}
    /\ podReady' = Sent(podReady, ReadyWatchers(target[i]), "true")
    /\ UNCHANGED <<podAt, maps, cpc, target, readyWatch, created, deletion>>

\* A later Modified event of a pod that is ready, or that terminates while its
\* Ready condition is still true.
ReadyPodModified(i) ==
    /\ i \in everReady
    /\ phase[i] \in {"ready", "terminating"}
    /\ podReady' = Sent(podReady, ReadyWatchers(target[i]), "true")
    /\ UNCHANGED <<k8s, maps, cpc, target, readyWatch, created, deletion>>

\* A terminating pod is gone: a Deleted event, and the name is free.
PodGone(i) ==
    /\ phase[i] = "terminating"
    /\ phase' = [phase EXCEPT ![i] = "gone"]
    /\ podAt' = [podAt EXCEPT ![target[i]] = None]
    /\ podDeleted' = Sent(podDeleted, GoneWatchers(target[i]), "true")
    /\ UNCHANGED <<everReady, maps, creation, dpc, dname, found, goneWatch, deleted>>

-------------------------------------------------------------------------------
CreateSteps(c) ==
    \/ ChooseName(c) \/ ChooseNameFails(c)
    \/ CreatePod(c) \/ CreatePodReplyLost(c) \/ CreatePodFails(c)
    \/ RegisterCreation(c) \/ RemoveCreating(c)
    \/ StartJobs(c) \/ PodReadyTimeout(c) \/ CreatedTimeout(c)
    \/ FailedCreate(c)
    \/ OpenReadyWatch(c) \/ ReadyWatchFails(c)

DeleteSteps(d) ==
    \/ DeleteRequested(d)
    \/ AlreadyDeleting(d) \/ NotYetDeleting(d)
    \/ InitDeleter(d) \/ InitDeleterFails(d)
    \/ RequestDeletion(d) \/ RequestDeletionReplyLost(d) \/ RequestDeletionFails(d)
    \/ RegisterDeletion(d) \/ RemoveDeleting(d)
    \/ DeleteJobs(d) \/ PodDeletedTimeout(d) \/ DeletedTimeout(d)
    \/ OpenGoneWatch(d) \/ GoneWatchFails(d)

Kubernetes(i) == PodBecomesReady(i) \/ ReadyPodModified(i) \/ PodGone(i)

Steps ==
    \/ \E c \in Creates : CreateSteps(c)
    \/ \E d \in Deletions : DeleteSteps(d)
    \/ \E i \in Creates : Kubernetes(i)

(***************************************************************************)
(* A restart (main.go): the maps start empty, and every handler, goroutine *)
(* and timer is gone; the pods stay.  ReloadPodCaches touches nothing that *)
(* is modelled here.  Deletions that were under way, and creations that    *)
(* had not made their pod, may be asked for anew.                          *)
(***************************************************************************)
Restart ==
    /\ MayRestart
    /\ CreatingPods' = [n \in Names |-> None]
    /\ DeletingPods' = [n \in Names |-> None]
    /\ removingCreating' = {}
    /\ removingDeleting' = {}
    /\ cpc' = [c \in Creates |-> IF phase[c] = "none" THEN "idle" ELSE "rejected"]
    /\ target' = [c \in Creates |-> IF phase[c] = "none" THEN None ELSE target[c]]
    /\ readyWatch' = [c \in Creates |-> "none"]
    /\ podReady' = [c \in Creates |-> NoValue]
    /\ created' = [c \in Creates |-> NoValue]
    /\ dpc' = [d \in Deletions |-> "idle"]
    /\ dname' = [d \in Deletions |-> None]
    /\ found' = [d \in Deletions |-> None]
    /\ goneWatch' = [d \in Deletions |-> "none"]
    /\ podDeleted' = [d \in Deletions |-> NoValue]
    /\ deleted' = [d \in Deletions |-> NoValue]
    /\ UNCHANGED k8s

Next == Steps \/ Restart

Spec == Init /\ [][Next]_vars

\* A handler that has begun goes on, timers fire, and a terminating pod is gone
\* after its grace period.  Not assumed: that a client asks for anything, that a
\* watch is opened in time, that a pod becomes ready, or that a job ends.
Fairness ==
    /\ \A c \in Creates :
        /\ WF_vars(CreatePod(c) \/ CreatePodReplyLost(c) \/ CreatePodFails(c))
        /\ WF_vars(RegisterCreation(c))
        /\ WF_vars(RemoveCreating(c))
        /\ WF_vars(CreatedTimeout(c))
        /\ WF_vars(FailedCreate(c))
        /\ WF_vars(PodGone(c))
    /\ \A d \in Deletions :
        /\ WF_vars(AlreadyDeleting(d) \/ NotYetDeleting(d))
        /\ WF_vars(InitDeleter(d) \/ InitDeleterFails(d))
        /\ WF_vars(\/ RequestDeletion(d) \/ RequestDeletionReplyLost(d)
                   \/ RequestDeletionFails(d))
        /\ WF_vars(RegisterDeletion(d))
        /\ WF_vars(RemoveDeleting(d))
        /\ WF_vars(DeletedTimeout(d))

FairSpec == Spec /\ Fairness

-------------------------------------------------------------------------------
(***************************************************************************)
(* What holds however often a name is used again.                          *)
(***************************************************************************)
\* When a deletion reports success, the pod it was asked for, the one found
\* under the name and checked for its owner, is gone: not merely some other pod
\* that had the name (server.go:449-458, poddeleter.go:59-72).
DeletedMeansGone ==
    \A d \in Deletions : deleted[d] = "true" => found[d] # None /\ phase[found[d]] = "gone"

\* A client that is told {requested: true} can rely on it: the pod it asked for
\* is on its way out, although the API was called by name (poddeleter.go:68).
AcceptedMeansRequested ==
    \A d \in Deletions :
        dpc[d] = "accepted" => phase[found[d]] \in {"terminating", "gone"}

\* "There should be an entry in DeletingPods until this finishes"
\* (server_test.go:392), unless another deletion by the same name, which passed
\* the test of the map at the same time, has finished before.
DeletingEntry ==
    \A d \in Deletions :
        dpc[d] = "accepted" /\ deleted[d] = NoValue =>
        \/ DeletingPods[dname[d]] # None
        \/ \E e \in Deletions \ {d} :
            /\ dname[e] = dname[d] /\ dpc[e] = "accepted"
            /\ deleted[e] # NoValue /\ e \notin removingDeleting

\* "There should be an entry in CreatingPods until this finishes"
\* (server_test.go:263): watch_create_pod can wait for every running creation,
\* unless another creation of that name, whose pod had it before, has finished
\* in the meantime and taken the entry with it.
CreatingEntry ==
    \A c \in Creates :
        cpc[c] = "registered" /\ created[c] = NoValue =>
        \/ CreatingPods[target[c]] # None
        \/ \E e \in Creates \ {c} :
            /\ target[e] = target[c] /\ cpc[e] \in {"registered", "failed"}
            /\ created[e] # NoValue /\ e \notin removingCreating

\* A creation that reports success has a pod of its name that became ready
\* (README.md:56): its own, unless some other pod had the name while it watched.
CreatedMeansReady ==
    \A c \in Creates :
        created[c] = "true" => \E i \in everReady : target[i] = target[c]

\* The names that a user's pods can be given.
NamesOf(u) == {Candidates[u][k] : k \in DOMAIN Candidates[u]}

\* A pod terminates only when a deletion for its owner asks for it, although the
\* owner is checked in one call and the name deleted in another (poddeleter.go:47,
\* 68); or when a deletion for another user does, who shares the name (the "unique
\* string" of managed.go:83 is not) and whose own pod was found under it and has
\* gone since.
OnlyOwnerDeletes ==
    [][\A i \in Creates :
          phase[i] # "terminating" /\ phase'[i] = "terminating" =>
          \E d \in Deletions :
              /\ dpc[d] = "request" /\ dpc'[d] # "request"
              /\ \/ UserOf[d] = UserOf[i]
                 \/ /\ UserOf[found[d]] = UserOf[d] /\ phase[found[d]] = "gone"
                    /\ target[i] \in NamesOf(UserOf[i]) \cap NamesOf(UserOf[d])]_vars

\* Two creations of one user may choose the same name (podcreator.go:231-253), and
\* one of them gets it.  The other never has the winner's pod deleted: the deletion
\* that follows a failed creation (server.go:321-332) reaches another pod only
\* when the creation's own pod has had the name and is gone.
FailedCreateSparesOthers ==
    [][\A c, i \in Creates :
          /\ dpc[c] = "request" /\ dpc'[c] # "request"
          /\ phase[i] # "terminating" /\ phase'[i] = "terminating"
          => \/ i = c
             \/ phase[c] = "gone" /\ target[i] = target[c]]_vars

\* Every entry of a watch map goes away again: get_pods does not report
\* "Creating" or "Deleting" for ever (server.go:135-147, 216-226).
MapsDrain ==
    \A n \in Names :
        /\ CreatingPods[n] # None ~> CreatingPods[n] = None
        /\ DeletingPods[n] # None ~> DeletingPods[n] = None

(***************************************************************************)
(* What holds as long as a name is used once, and is refuted when another  *)
(* pod takes the name of an earlier one.                                   *)
(***************************************************************************)
NamesUsedOnce ==
    \A c, d \in Creates : c # d => target[c] = None \/ target[c] # target[d]

\* The deletion that follows a failed creation asks for the pod of that
\* creation and no other (README.md:141, server.go:406).
FailedCreateDeletesItsOwn ==
    [][\A c \in Creates :
          dpc[c] = "request" /\ dpc'[c] = "register" => podAt[dname[c]] = c]_vars

\* "If the timeout is reached before the pod reaches Ready state, then the pod
\* and associated resources will be deleted" (README.md:141).
FailedCreateIsDeleted ==
    \A c \in Creates :
        (cpc[c] = "registered" /\ created[c] = "false")
            ~> (phase[c] = "gone" \/ cpc[c] = "rejected")
-------------------------------------------------------------------------------
(***************************************************************************)
(* The promise of module PodLife.                                          *)
(***************************************************************************)
AnswerAt(p) == CASE p \in {"idle", "named", "created"} -> "open"
                 [] p \in {"registered", "failed"} -> "given"
                 [] p = "rejected" -> "over"

AskedAt(p) == CASE p = "idle" -> "none"
                [] p \in {"check", "init", "request"} -> "begun"
                [] p \in {"register", "accepted"} -> "yes"
                [] p = "refused" -> "refused"

life   == [i \in Creates |-> IF phase[i] \in {"pending", "ready"} THEN "present" ELSE phase[i]]
answer == [c \in Creates |-> AnswerAt(cpc[c])]
asked  == [d \in Deletions |-> AskedAt(dpc[d])]

Life == INSTANCE PodLife
        WITH RepliesMayBeLost <- ApiMayFail, outcome <- created, victim <- found, end <- deleted

\* Whatever names, maps and watches go through, the requests and the pods keep to
\* PodLife: one outcome for each request, success only for a pod that is gone, no
\* deletion of the backend's own but after a creation that failed
\* (server.go:322-328), and of a pod that is not the one found only when that one
\* is gone, although the API is called by name (poddeleter.go:68).
KeepsPodLife == Life!Spec
===============================================================================
