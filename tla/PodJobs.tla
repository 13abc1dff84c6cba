-------------------------------- MODULE PodJobs --------------------------------
(***************************************************************************)
(* The start jobs and the delete jobs of pods with one name (package       *)
(* managed): the services, the ingress and the cache file that go with a   *)
(* pod.  All of them are found by the pod's name, so the delete jobs of a  *)
(* pod that is gone and the start jobs of the next pod with its name work  *)
(* on the same objects, at the same time if the jobs of the first have not *)
(* ended when the second is ready.  So does clean_all_unused, for services *)
(* and caches whose pod it cannot find (module UserStorage has what it     *)
(* does to storage).  A restart of the backend ends all of them wherever   *)
(* they are, and makes the caches of the pods that are there again.        *)
(*                                                                         *)
(* An object is known by the pod it was made for: "old", the pod that is   *)
(* gone, or "new", the next one.  The delete jobs begin when they have     *)
(* received the true they wait for, and so do the start jobs (PodServer    *)
(* has what comes before).  Of the content of a cache the model has        *)
(* whether it has the pod's tokens.                                        *)
(***************************************************************************)
EXTENDS Channels, Sequences, Naturals

CONSTANTS
    JobSets,          \* the jobs that run together: "delete" (old pod), "start"
                      \* (new pod), "clean" (clean_all_unused), "reload" (a restart)
    PodNeeds,         \* the sets of services that pods of this name may need
    ApiMayFail,       \* may calls to the Kubernetes API and the file system fail?
    None

ASSUME PodJobsAssumption ==
    /\ JobSets \subseteq SUBSET {"delete", "start", "clean", "reload"}
    /\ PodNeeds \subseteq SUBSET {"http", "ssh"}
    /\ ApiMayFail \in BOOLEAN
    /\ None \notin {"old", "new", "http", "ssh"}

Services == {"http", "ssh"}
\* What the API lists, in its order, which is that of the names.
Lists    == {<<>>, <<"http">>, <<"ssh">>, <<"http", "ssh">>}
Objects  == {"old", "new", None}
Jobs     == {"delete", "start", "clean"}
Slots    == Jobs \X {1, 2}

VARIABLES
    needs,            \* the services that the pods of this name need, for ever
    svc,              \* the present object of each service
    ingress,          \* the present ingress
    cache,            \* the pod the cache file was written for, "empty" if it
                      \* has no tokens of the new pod
    pc,               \* where each job is
    serviceList,      \* the services listed by DeleteAllServices
    listedObjects,    \* the objects behind those names when they were listed
    at,               \* the position of the loop variable `service` in the list
    watch,            \* the goroutine of each deleteChannels entry
    watched,          \* the name that goroutine read from `service`, or None
    deleteChannels,   \* the ReadyChannels of DeleteAllServices or cleanAllUnused
    finished,         \* the ReadyChannel passed to them
    ingressListed,    \* did DeleteAllIngresses list the ingress?
    started           \* the ReadyChannel finishedStartJobs

resources == <<svc, ingress, cache>>
sweeping  == <<serviceList, listedObjects, at, watch, watched, deleteChannels, finished>>
acting    == <<resources, pc, sweeping, ingressListed, started>>
vars      == <<needs, acting>>

Watches == {"none", "spawned", "named", "open", "failed"}
PCs == {"none", "idle", "removeCache", "list", "check", "spawn", "delete", "combine",
        "await", "listIngress", "deleteIngress", "ssh", "http", "ingress", "cache",
        "readdir", "checkCache", "unlink", "reload", "done"}
NotBegun == {"none", "idle"}

\* Is there a pod of this name?  The new one, from the time it was created.
PodExists == pc["start"] \notin NotBegun

\* Pod.NeedsSshService: a container listens on port 22.  Pod.NeedsIngress: the
\* pod has the ingress-port annotation.
NeedsSsh     == "ssh" \in needs
NeedsIngress == "http" \in needs

TypeOK ==
    /\ needs \in PodNeeds
    /\ svc \in [Services -> Objects]
    /\ ingress \in Objects
    /\ cache \in Objects \cup {"empty"}
    /\ pc \in [Jobs \cup {"reload"} -> PCs]
    /\ serviceList \in [Jobs -> Lists]
    /\ listedObjects \in [Jobs -> SUBSET (Services \X {"old", "new"})]
    /\ at \in [Jobs -> {1, 2}]
    /\ \A j \in Jobs : at[j] = 1 \/ at[j] <= Len(serviceList[j])
    /\ watch \in [Slots -> Watches]
    /\ watched \in [Slots -> Services \cup {None}]
    /\ deleteChannels \in [Slots -> Cells]
    /\ finished \in [Jobs -> Cells]
    /\ ingressListed \in [Jobs -> BOOLEAN]
    /\ started \in Cells

NoSweep ==
    [serviceList    |-> [j \in Jobs |-> <<>>],
     listedObjects  |-> [j \in Jobs |-> {}],
     at             |-> [j \in Jobs |-> 1],
     watch          |-> [x \in Slots |-> "none"],
     watched        |-> [x \in Slots |-> None],
     deleteChannels |-> [x \in Slots |-> NoValue],
     finished       |-> [j \in Jobs |-> NoValue]]

\* The old pod left everything it had.
Init ==
    /\ needs \in PodNeeds
    /\ svc = [s \in Services |-> IF s \in needs THEN "old" ELSE None]
    /\ ingress = IF NeedsIngress THEN "old" ELSE None
    /\ cache = "old"
    /\ \E js \in JobSets :
          pc = [j \in Jobs \cup {"reload"} |-> IF j \in js THEN "idle" ELSE "none"]
    /\ serviceList = NoSweep.serviceList
    /\ listedObjects = NoSweep.listedObjects
    /\ at = NoSweep.at
    /\ watch = NoSweep.watch
    /\ watched = NoSweep.watched
    /\ deleteChannels = NoSweep.deleteChannels
    /\ finished = NoSweep.finished
    /\ ingressListed = [j \in Jobs |-> FALSE]
    /\ started = NoValue

Goto(j, from, to) == pc[j] = from /\ pc' = [pc EXCEPT ![j] = to]

\* Where a job goes on when it has done with the services: only the start jobs look
\* at the outcome, and clean_all_unused answers with it.
AfterServices(j) ==
    CASE j = "start" -> "await" [] j = "delete" -> "listIngress" [] j = "clean" -> "done"

-------------------------------------------------------------------------------
\* The jobs have what they wait for; the new pod has been created by then.  A
\* request is served only when ReloadPodCaches has returned (main.go).
Begin(j) ==
    /\ Goto(j, "idle", IF j = "delete" THEN "removeCache" ELSE "list")
    /\ pc["reload"] # "reload"
    /\ UNCHANGED <<resources, sweeping, ingressListed, started>>

\* RunDeleteJobsWhenReady starts with os.Remove of the cache file; an error is only
\* logged, and leaves the file.
RemoveCache(j) ==
    /\ Goto(j, "removeCache", "list")
    /\ cache' = None \/ (ApiMayFail /\ UNCHANGED cache)
    /\ UNCHANGED <<svc, ingress, sweeping, ingressListed, started>>

(***************************************************************************)
(* DeleteAllServices                                                       *)
(***************************************************************************)
Present(s) == svc[s] # None

\* Pod.ListServices
ListsPresent(q) == \A s \in Services : Present(s) <=> \E i \in DOMAIN q : q[i] = s

ListServices(j) ==
    /\ j # "clean"
    /\ \E q \in Lists :
          ListsPresent(q) /\ serviceList' = [serviceList EXCEPT ![j] = q]
    /\ listedObjects' = [listedObjects EXCEPT ![j] =
                            {<<s, svc[s]>> : s \in {t \in Services : Present(t)}}]
    /\ \/ /\ \E s \in Services : Present(s)
          /\ Goto(j, "list", "spawn")
          /\ UNCHANGED finished
       \/ /\ \A s \in Services : ~Present(s)
          /\ Goto(j, "list", AfterServices(j))
          /\ finished' = Sent(finished, {j}, "true")
    /\ UNCHANGED <<resources, at, watch, watched, deleteChannels, ingressListed, started>>

\* An error ends the start jobs; the delete jobs report it and go on.
ListServicesFails(j) ==
    /\ ApiMayFail
    /\ \/ /\ j = "start"
          /\ Goto(j, "list", "done")
          /\ started' = IF started = NoValue THEN "false" ELSE started
          /\ UNCHANGED finished
       \/ /\ j = "delete"
          /\ Goto(j, "list", "listIngress")
          /\ finished' = Sent(finished, {j}, "false")
          /\ UNCHANGED started
    /\ UNCHANGED <<resources, serviceList, listedObjects, at, watch, watched,
                   deleteChannels, ingressListed>>

\* One turn of the loop: a channel, a goroutine that will watch ...
SpawnWatch(j) ==
    /\ Goto(j, "spawn", "delete")
    /\ watch' = [watch EXCEPT ![<<j, at[j]>>] = "spawned"]
    /\ UNCHANGED <<resources, serviceList, listedObjects, at, watched, deleteChannels,
                   finished, ingressListed, started>>

\* Faulty variant: the loop runs once too often.
NextServiceOffByOne(j) ==
    \/ /\ at[j] <= Len(serviceList[j])
       /\ Goto(j, "delete", "spawn")
       /\ at' = [at EXCEPT ![j] = at[j] + 1]
    \/ /\ at[j] > Len(serviceList[j])
       /\ Goto(j, "delete", "combine")
       /\ UNCHANGED at

\* The variable `service` of the loop moves on to the next element, if any;
\* clean_all_unused looks for the pod of each service, and goes on to the caches.
NextTurn(j, from) ==
    \/ /\ at[j] < Len(serviceList[j])
       /\ Goto(j, from, IF j = "clean" THEN "check" ELSE "spawn")
       /\ at' = [at EXCEPT ![j] = at[j] + 1]
    \/ /\ at[j] = Len(serviceList[j])
       /\ Goto(j, from, IF j = "clean" THEN "readdir" ELSE "combine")
       /\ UNCHANGED at

NextService(j) == NextTurn(j, "delete")

WatchersOf(s) == {x \in Slots : watch[x] = "open" /\ watched[x] = s}

\* ... and the call that deletes the service, whose error is dropped.
DeleteService(j) ==
    /\ NextService(j)
    /\ LET s == serviceList[j][at[j]] IN
        /\ svc' = [svc EXCEPT ![s] = None]
        /\ deleteChannels' =
              IF Present(s) THEN Sent(deleteChannels, WatchersOf(s), "true")
              ELSE deleteChannels
    /\ UNCHANGED <<ingress, cache, serviceList, listedObjects, watch, watched,
                   finished, ingressListed, started>>

DeleteServiceFails(j) ==
    /\ ApiMayFail
    /\ NextService(j)
    /\ UNCHANGED <<resources, serviceList, listedObjects, watch, watched,
                   deleteChannels, finished, ingressListed, started>>

\* The goroutine starts to run and reads service.Name.  The closure shares the
\* variable with the loop (Go 1.18), which may have moved on.
ReadServiceName(j, i) ==
    /\ watch[<<j, i>>] = "spawned"
    /\ watch' = [watch EXCEPT ![<<j, i>>] = "named"]
    /\ watched' = [watched EXCEPT ![<<j, i>>] = serviceList[j][at[j]]]
    /\ UNCHANGED <<resources, pc, serviceList, listedObjects, at, deleteChannels,
                   finished, ingressListed, started>>

OpenWatch(j, i) ==
    /\ watch[<<j, i>>] = "named"
    /\ watch' = [watch EXCEPT ![<<j, i>>] = "open"]
    /\ UNCHANGED <<resources, pc, serviceList, listedObjects, at, watched,
                   deleteChannels, finished, ingressListed, started>>

WatchFails(j, i) ==
    /\ ApiMayFail
    /\ watch[<<j, i>>] = "named"
    /\ watch' = [watch EXCEPT ![<<j, i>>] = "failed"]
    /\ deleteChannels' = Sent(deleteChannels, {<<j, i>>}, "false")
    /\ UNCHANGED <<resources, pc, serviceList, listedObjects, at, watched,
                   finished, ingressListed, started>>

\* Faulty variant: the timer starts with the watch.
DeleteTimeoutOfWatch(j, i) ==
    /\ watch[<<j, i>>] = "open"
    /\ deleteChannels[<<j, i>>] = NoValue
    /\ deleteChannels' = Sent(deleteChannels, {<<j, i>>}, "false")
    /\ UNCHANGED <<resources, pc, serviceList, listedObjects, at, watch, watched,
                   finished, ingressListed, started>>

DeleteTimeout(j, i) ==
    /\ watch[<<j, i>>] # "none"
    /\ deleteChannels[<<j, i>>] = NoValue
    /\ deleteChannels' = Sent(deleteChannels, {<<j, i>>}, "false")
    /\ UNCHANGED <<resources, pc, serviceList, listedObjects, at, watch, watched,
                   finished, ingressListed, started>>

\* Faulty variant: the outcomes are awaited but not looked at.
CombineAnyway(j) ==
    /\ Goto(j, "combine", AfterServices(j))
    /\ NoValue \notin {deleteChannels[<<j, i>>] : i \in DOMAIN serviceList[j]}
    /\ finished' = Sent(finished, {j}, "true")
    /\ UNCHANGED <<resources, serviceList, listedObjects, at, watch, watched,
                   deleteChannels, ingressListed, started>>

\* CombineReadyChannels, in the goroutine of the jobs.
Combine(j) ==
    LET outcomes == {deleteChannels[x] : x \in {y \in Slots : y[1] = j /\ watch[y] # "none"}} IN
    /\ Goto(j, "combine", AfterServices(j))
    /\ NoValue \notin outcomes
    /\ finished' = Sent(finished, {j}, IF "false" \in outcomes THEN "false" ELSE "true")
    /\ UNCHANGED <<resources, serviceList, listedObjects, at, watch, watched,
                   deleteChannels, ingressListed, started>>

FinishedTimeout(j) ==
    /\ pc[j] \notin NotBegun \cup {"done"}
    /\ finished[j] = NoValue
    /\ finished' = Sent(finished, {j}, "false")
    /\ UNCHANGED <<resources, pc, serviceList, listedObjects, at, watch, watched,
                   deleteChannels, ingressListed, started>>

-------------------------------------------------------------------------------
(***************************************************************************)
(* DeleteAllIngresses, by the name found in the list.                      *)
(***************************************************************************)
AfterIngresses(j) == IF j = "start" THEN "ssh" ELSE "done"

ListIngresses(j) ==
    /\ \/ ingress = None /\ Goto(j, "listIngress", AfterIngresses(j))
       \/ ingress # None /\ Goto(j, "listIngress", "deleteIngress")
    /\ ingressListed' = [ingressListed EXCEPT ![j] = (ingress # None)]
    /\ UNCHANGED <<resources, sweeping, started>>

DeleteIngress(j) ==
    /\ Goto(j, "deleteIngress", AfterIngresses(j))
    /\ ingress # None
    /\ ingress' = None
    /\ UNCHANGED <<svc, cache, sweeping, ingressListed, started>>

\* A failed call, or an ingress that is gone by now.  The start jobs only log
\* it; the delete jobs send a false that comes after DeleteAllServices has sent.
IngressesFail(j) ==
    /\ \/ ApiMayFail /\ Goto(j, "listIngress", AfterIngresses(j))
       \/ (ApiMayFail \/ ingress = None) /\ Goto(j, "deleteIngress", AfterIngresses(j))
    /\ finished' = IF j = "delete" THEN Sent(finished, {j}, "false") ELSE finished
    /\ UNCHANGED <<resources, serviceList, listedObjects, at, watch, watched,
                   deleteChannels, ingressListed, started>>

-------------------------------------------------------------------------------
(***************************************************************************)
(* RunStartJobsWhenReady of the new pod, once its orphans have been swept. *)
(***************************************************************************)
SendStarted(v) == started' = IF started = NoValue THEN v ELSE started

\* Faulty variant: the start jobs go on although orphans may be left.
OrphansIgnored(j) ==
    /\ Goto(j, "await", "listIngress")
    /\ finished[j] # NoValue
    /\ UNCHANGED <<resources, sweeping, ingressListed, started>>

OrphansSwept(j) ==
    /\ Goto(j, "await", "listIngress")
    /\ finished[j] = "true"
    /\ UNCHANGED <<resources, sweeping, ingressListed, started>>

OrphansLeft(j) ==
    /\ Goto(j, "await", "done")
    /\ finished[j] = "false"
    /\ SendStarted("false")
    /\ UNCHANGED <<resources, sweeping, ingressListed>>

\* startSshService, if the pod needs it; the returned error is dropped.
StartSshService(j) ==
    /\ Goto(j, "ssh", "http")
    /\ \/ NeedsSsh /\ svc["ssh"] = None /\ svc' = [svc EXCEPT !["ssh"] = "new"]
       \/ ~NeedsSsh /\ UNCHANGED svc
    /\ UNCHANGED <<ingress, cache, sweeping, ingressListed, started>>

StartSshServiceFails(j) ==
    /\ Goto(j, "ssh", "http")
    /\ NeedsSsh /\ (svc["ssh"] # None \/ ApiMayFail)
    /\ UNCHANGED <<resources, sweeping, ingressListed, started>>

\* createIngress, if the pod needs it: the service first, then the ingress.
CreateHttpService(j) ==
    /\ \/ ~NeedsIngress /\ Goto(j, "http", "cache") /\ UNCHANGED svc
       \/ /\ NeedsIngress /\ svc["http"] = None
          /\ Goto(j, "http", "ingress")
          /\ svc' = [svc EXCEPT !["http"] = "new"]
    /\ UNCHANGED <<ingress, cache, sweeping, ingressListed, started>>

CreateHttpServiceFails(j) ==
    /\ Goto(j, "http", "cache")
    /\ NeedsIngress /\ (svc["http"] # None \/ ApiMayFail)
    /\ UNCHANGED <<resources, sweeping, ingressListed, started>>

CreateIngress(j) ==
    /\ Goto(j, "ingress", "cache")
    /\ ingress = None
    /\ ingress' = "new"
    /\ UNCHANGED <<svc, cache, sweeping, ingressListed, started>>

CreateIngressFails(j) ==
    /\ Goto(j, "ingress", "cache")
    /\ ingress # None \/ ApiMayFail
    /\ UNCHANGED <<resources, sweeping, ingressListed, started>>

\* CreateAndSavePodCache: a token that could not be read is left out.
Written == IF ApiMayFail THEN {"new", "empty"} ELSE {"new"}

SaveCache(j) ==
    /\ Goto(j, "cache", "done")
    /\ cache' \in Written
    /\ SendStarted("true")
    /\ UNCHANGED <<svc, ingress, sweeping, ingressListed>>

\* The file could not be removed, or not be written after that.
SaveCacheFails(j) ==
    /\ ApiMayFail
    /\ Goto(j, "cache", "done")
    /\ cache' \in {cache, None}
    /\ SendStarted("false")
    /\ UNCHANGED <<svc, ingress, sweeping, ingressListed>>

StartedTimeout ==
    /\ pc["start"] \notin NotBegun \cup {"done"}
    /\ started = NoValue
    /\ SendStarted("false")
    /\ UNCHANGED <<resources, pc, sweeping, ingressListed>>

-------------------------------------------------------------------------------
(***************************************************************************)
(* clean_all_unused.  An error ends it without a word to finished.         *)
(***************************************************************************)
ListAllServices(j) ==
    /\ j = "clean"
    /\ \E q \in Lists :
          ListsPresent(q) /\ serviceList' = [serviceList EXCEPT ![j] = q]
    /\ \/ (\E s \in Services : Present(s)) /\ Goto(j, "list", "check")
       \/ (\A s \in Services : ~Present(s)) /\ Goto(j, "list", "readdir")
    /\ UNCHANGED <<resources, listedObjects, at, watch, watched, deleteChannels,
                   finished, ingressListed, started>>

\* The pod of the service is there, or the service is to be deleted.
CheckService(j) ==
    /\ \/ /\ PodExists /\ NextTurn(j, "check")
          /\ UNCHANGED listedObjects
       \/ /\ ~PodExists /\ Goto(j, "check", "spawn")
          /\ LET s == serviceList[j][at[j]] IN
                listedObjects' = [listedObjects EXCEPT ![j] =
                                     IF Present(s) THEN @ \cup {<<s, svc[s]>>} ELSE @]
          /\ UNCHANGED at
    /\ UNCHANGED <<resources, serviceList, watch, watched, deleteChannels, finished,
                   ingressListed, started>>

Readdirnames(j) ==
    /\ Goto(j, "readdir", IF cache = None THEN "combine" ELSE "checkCache")
    /\ UNCHANGED <<resources, sweeping, ingressListed, started>>

\* Faulty variant: a list that fails counts as a pod found.
CheckCacheOrSkip(j) ==
    /\ \/ Goto(j, "checkCache", IF PodExists THEN "combine" ELSE "unlink")
       \/ ApiMayFail /\ Goto(j, "checkCache", "combine")
    /\ UNCHANGED <<resources, sweeping, ingressListed, started>>

CheckCache(j) ==
    /\ Goto(j, "checkCache", IF PodExists THEN "combine" ELSE "unlink")
    /\ UNCHANGED <<resources, sweeping, ingressListed, started>>

RemoveOrphanedCache(j) ==
    /\ Goto(j, "unlink", "combine")
    /\ cache # None
    /\ cache' = None
    /\ UNCHANGED <<svc, ingress, sweeping, ingressListed, started>>

\* A list failed, the clean-up of storage that comes before the caches failed, the
\* directory could not be read or the file not be removed, or it was removed by
\* somebody else.
CleanFails(j) ==
    /\ j = "clean"
    /\ \/ /\ ApiMayFail
          /\ \E from \in {"list", "check", "readdir", "checkCache", "unlink"} :
                Goto(j, from, "done")
       \/ cache = None /\ Goto(j, "unlink", "done")
    /\ UNCHANGED <<resources, sweeping, ingressListed, started>>

\* finished.Receive(), when its timer has answered before the services.
Answer(j) ==
    /\ j = "clean"
    /\ Goto(j, "combine", "done")
    /\ finished[j] # NoValue
    /\ UNCHANGED <<resources, sweeping, ingressListed, started>>

-------------------------------------------------------------------------------
(***************************************************************************)
(* A restart: no job goes on, no watch, no timer; new requests may come.   *)
(***************************************************************************)
Restart ==
    /\ pc["reload"] = "idle"
    /\ pc' = [j \in DOMAIN pc |-> IF j = "reload" THEN "reload"
                                  ELSE IF pc[j] \in NotBegun THEN pc[j] ELSE "done"]
    /\ serviceList' = NoSweep.serviceList
    /\ listedObjects' = NoSweep.listedObjects
    /\ at' = NoSweep.at
    /\ watch' = NoSweep.watch
    /\ watched' = NoSweep.watched
    /\ deleteChannels' = NoSweep.deleteChannels
    /\ finished' = NoSweep.finished
    /\ ingressListed' = [j \in Jobs |-> FALSE]
    /\ started' = NoValue
    /\ UNCHANGED resources

\* The pod's cache is written, with the tokens that can be read; an error on the
\* way, the failure to write it included, ends ReloadPodCaches and is dropped by main.
ReloadPodCaches ==
    /\ Goto("reload", "reload", "done")
    /\ \/ ~PodExists /\ UNCHANGED cache
       \/ PodExists /\ cache' \in Written
       \/ ApiMayFail /\ cache' \in {cache, None}
    /\ UNCHANGED <<svc, ingress, sweeping, ingressListed, started>>

JobStep(j) ==
    \/ RemoveCache(j)
    \/ ListServices(j) \/ ListServicesFails(j)
    \/ SpawnWatch(j) \/ DeleteService(j) \/ DeleteServiceFails(j) \/ Combine(j)
    \/ ListIngresses(j) \/ DeleteIngress(j) \/ IngressesFail(j)
    \/ OrphansSwept(j) \/ OrphansLeft(j)
    \/ StartSshService(j) \/ StartSshServiceFails(j)
    \/ CreateHttpService(j) \/ CreateHttpServiceFails(j)
    \/ CreateIngress(j) \/ CreateIngressFails(j)
    \/ SaveCache(j) \/ SaveCacheFails(j)
    \/ ListAllServices(j) \/ CheckService(j) \/ Readdirnames(j) \/ CheckCache(j)
    \/ RemoveOrphanedCache(j) \/ CleanFails(j) \/ Answer(j)

WatchStep(j, i) ==
    ReadServiceName(j, i) \/ OpenWatch(j, i) \/ WatchFails(j, i) \/ DeleteTimeout(j, i)

Next ==
    /\ \/ \E j \in Jobs : Begin(j) \/ JobStep(j) \/ FinishedTimeout(j)
       \/ \E x \in Slots : WatchStep(x[1], x[2])
       \/ StartedTimeout
       \/ Restart \/ ReloadPodCaches
    /\ UNCHANGED needs

Spec == Init /\ [][Next]_vars

\* The jobs run on, and timers fire (each step is taken once, so one condition does
\* for all).  No watch need be opened in time.
Fairness ==
    WF_acting(\/ \E j \in Jobs : JobStep(j) \/ FinishedTimeout(j)
              \/ \E x \in Slots : DeleteTimeout(x[1], x[2]))

FairSpec == Spec /\ Fairness

-------------------------------------------------------------------------------
(***************************************************************************)
(* Properties                                                              *)
(***************************************************************************)
\* "only signal finished when each service has been deleted successfully"
\* (managed.go:510): after a true, none of the listed services is left.
TrueMeansServicesGone ==
    \A j \in Jobs : finished[j] = "true" =>
        \A x \in listedObjects[j] : svc[x[1]] # x[2]

\* "Ensure no orphaned services or ingresses for deleted pods with this pod's
\* name" (managed.go:577): a pod that is reported started is not reached through
\* a service of an earlier pod, although startSshService ignores AlreadyExists.
StartedMeansClean == started = "true" => \A s \in Services : svc[s] # "old"

\* When clean_all_unused has answered with success and there is no pod of the name,
\* no service and no cache of an earlier one is left, also if the delete jobs are
\* still at work or were lost in a restart (server.go:647-765).
CleanMeansClean ==
    pc["clean"] = "done" /\ finished["clean"] = "true" /\ ~PodExists =>
        cache = None /\ \A s \in Services : svc[s] = None

\* No goroutine of the jobs is leaked (README.md "Goroutine leaks"), and
\* clean_all_unused is answered, whatever the other jobs do to the objects this
\* one works on.
JobsEnd == []<>(\A j \in Jobs : pc[j] \in NotBegun \cup {"done"})
===============================================================================
