----------------------------- MODULE PodJobsProofs -----------------------------
(***************************************************************************)
(* Proofs about PodJobs for any set of jobs that run together, any         *)
(* services of the pods, failing calls and restarts: the type invariant,   *)
(* and, as long as no goroutine of the loop reads another's service or no  *)
(* call fails, that success means that the services found are gone, that a *)
(* started pod has none of an earlier one, and that clean_all_unused       *)
(* leaves nothing behind.                                                  *)
(*                                                                         *)
(* All three rest on this: an object, once gone, is gone for good, because *)
(* the objects of the old pod are never made and those of the new pod are  *)
(* made once, by its start jobs; and what a job found when it listed is    *)
(* all that can be there until the new pod's start jobs get past it.       *)
(***************************************************************************)
EXTENDS PodJobs, TLAPS

\* Every goroutine of the loop of DeleteAllServices reads the service it was made for
\* (the loop variable that it shares has not moved on), or no call of the jobs fails:
\* the deletion of one service is then not taken for that of another
\* (PodJobsCapture.cfg is a run in which it is).
ReadsOwn ==
    \A j \in Jobs : \A i \in {1, 2} :
        watch[<<j, i>>] # "none" => watched[<<j, i>>] \in {None, serviceList[j][i]}

NoCapture == ReadsOwn \/ ~ApiMayFail

\* No pod needs two services.
OneService == \A n \in PodNeeds : \A s, t \in n : s = t

\* Where each job can be.
StartPlaces  == {"none", "idle", "list", "spawn", "delete", "combine", "await", "listIngress",
                 "deleteIngress", "ssh", "http", "ingress", "cache", "done"}
DeletePlaces == {"none", "idle", "removeCache", "list", "spawn", "delete", "combine",
                 "listIngress", "deleteIngress", "done"}
CleanPlaces  == {"none", "idle", "list", "check", "spawn", "delete", "readdir", "checkCache",
                 "unlink", "combine", "done"}

InPlaces ==
    /\ pc["start"] \in StartPlaces
    /\ pc["delete"] \in DeletePlaces
    /\ pc["clean"] \in CleanPlaces
    /\ pc["reload"] \in {"none", "idle", "reload", "done"}

BeforeLists == {"none", "idle", "removeCache", "list"}
Loop        == {"check", "spawn", "delete"}
AfterLoop   == PCs \ (BeforeLists \cup Loop)
AfterSweep  == {"listIngress", "deleteIngress", "ssh", "http", "ingress", "cache"}
Answered    == AfterSweep \cup {"await", "done"}

\* The start jobs have passed the step that makes the service.
Past(s) == IF s = "ssh" THEN {"http", "ingress", "cache", "done"} ELSE {"ingress", "cache", "done"}

\* The loop has its variable in the list, and begins and ends with what it should.
LoopOf(j) ==
    /\ pc[j] \in BeforeLists =>
          at[j] = 1 /\ listedObjects[j] = {} /\ \A i \in {1, 2} : watch[<<j, i>>] = "none"
    /\ pc[j] \in Loop => at[j] \in DOMAIN serviceList[j]
    /\ finished[j] = "true" => pc[j] \in Answered

Loops == \A j \in Jobs : LoopOf(j)

\* A goroutine watches a service of the list, and one that has a true had one.
Watcher(j, i) ==
    /\ watch[<<j, i>>] # "none" =>
          /\ i \in DOMAIN serviceList[j] /\ i <= at[j]
          /\ pc[j] \in {"check", "spawn"} => i # at[j]
    /\ watch[<<j, i>>] = "none" => watched[<<j, i>>] = None
    /\ watched[<<j, i>>] \in {None} \cup {serviceList[j][k] : k \in DOMAIN serviceList[j]}
    /\ deleteChannels[<<j, i>>] = "true" =>
          watched[<<j, i>>] \in Services /\ watch[<<j, i>>] = "open"

Watchers == \A j \in Jobs : \A i \in {1, 2} : Watcher(j, i)

\* Has the loop of job j done with the k-th service?
TurnOver(j, k) == k < at[j] \/ pc[j] \in AfterLoop

\* An object of the list is of a service of the list, here the k-th; the loop has
\* spawned a watch for it when it has done with it, and has deleted it unless the
\* call failed.
ListedAt(j, x, k) ==
    /\ serviceList[j][k] = x[1]
    /\ j = "clean" => k < at[j] \/ (k = at[j] /\ pc[j] # "check")
    /\ TurnOver(j, k) \/ (pc[j] = "delete" /\ k = at[j]) => watch[<<j, k>>] # "none"
    /\ TurnOver(j, k) /\ ~ApiMayFail => svc[x[1]] # x[2]

ListedObjects ==
    \A j \in Jobs : \A x \in listedObjects[j] :
        \E k \in DOMAIN serviceList[j] : ListedAt(j, x, k)

\* A service of the new pod is made once, by the start jobs.
NewIsMade ==
    \A s \in Services :
        svc[s] = "new" \/ (\E j \in Jobs : <<s, "new">> \in listedObjects[j])
            => pc["start"] \in Past(s)

\* What a goroutine has seen deleted is gone, for good.
Gone(j, s) == svc[s] # "old" /\ (<<s, "new">> \in listedObjects[j] => svc[s] # "new")

TrueMeansGone ==
    \A j \in Jobs : \A i \in {1, 2} :
        deleteChannels[<<j, i>>] = "true" => Gone(j, watched[<<j, i>>])

\* The services are those that the pods need.
ServicesNeeded ==
    /\ \A s \in Services : svc[s] # None => s \in needs
    /\ \A j \in Jobs : \A k \in DOMAIN serviceList[j] : serviceList[j][k] \in needs

IInv ==
    /\ TypeOK /\ InPlaces /\ Loops /\ Watchers /\ ListedObjects /\ NewIsMade
    /\ TrueMeansGone /\ ServicesNeeded

\* The start jobs have all old services on their list, until they know them gone.
OldAreListed ==
    /\ pc["start"] \in {"spawn", "delete", "combine", "await"} =>
          \A s \in Services : svc[s] = "old" => <<s, "old">> \in listedObjects["start"]
    /\ pc["start"] \in AfterSweep => \A s \in Services : svc[s] # "old"

\* clean_all_unused has listed all services, as long as there is no pod, or will
\* have, and has looked for a cache.
UnusedAreListed ==
    ~PodExists =>
        /\ pc["clean"] \in Loop \cup {"readdir", "checkCache", "unlink", "combine"} =>
              \A s \in Services : Present(s) =>
                  \/ <<s, svc[s]>> \in listedObjects["clean"]
                  \/ \E k \in DOMAIN serviceList["clean"] :
                        /\ serviceList["clean"][k] = s
                        /\ pc["clean"] \in Loop
                        /\ k > at["clean"] \/ (pc["clean"] = "check" /\ k = at["clean"])
        /\ pc["clean"] = "combine" => cache = None

CInv ==
    /\ TrueMeansServicesGone
    /\ OldAreListed /\ StartedMeansClean
    /\ UnusedAreListed /\ CleanMeansClean
-------------------------------------------------------------------------------
\* What the API lists: at most both services, each once.
LEMMA ListFacts ==
  ASSUME NEW q \in Lists
  PROVE  /\ q \in Seq(Services) /\ Len(q) \in {0, 1, 2} /\ DOMAIN q = 1 .. Len(q)
         /\ \A i \in DOMAIN q : i \in {1, 2} /\ q[i] \in Services
         /\ \A i, k \in DOMAIN q : q[i] = q[k] => i = k
<1>1. CASE q = <<>>
  BY <1>1
<1>2. CASE q = <<"http">>
  BY <1>2 DEF Services
<1>3. CASE q = <<"ssh">>
  BY <1>3 DEF Services
<1>4. CASE q = <<"http", "ssh">>
  BY <1>4 DEF Services
<1> QED
  BY <1>1, <1>2, <1>3, <1>4 DEF Lists

\* A Send settles the empty channels it is for.
LEMMA SentCells ==
  ASSUME NEW D, NEW chans \in [D -> Cells], NEW S, NEW v \in Values
  PROVE  /\ Sent(chans, S, v) \in [D -> Cells]
         /\ \A x \in D : Sent(chans, S, v)[x] = IF x \in S /\ chans[x] = NoValue THEN v ELSE chans[x]
  BY DEF Sent, Cells

\* Where a job that leaves the services alone goes: on.
Onward(p, q) ==
    /\ q \in BeforeLists => p \in BeforeLists
    /\ q \in Loop => p = q
    /\ p \in Loop => q = p \/ (p = "check" /\ q = "done")
    /\ p \in Answered => q \in Answered
    /\ \A s \in Services : p \in Past(s) => q \in Past(s)

\* Steps that leave services, lists and goroutines as they are.
LEMMA QuietIInv ==
  ASSUME IInv, TypeOK', InPlaces',
         UNCHANGED <<needs, svc, serviceList, listedObjects, at, watch, watched, deleteChannels>>,
         \A j \in Jobs : Onward(pc[j], pc'[j]),
         \A j \in Jobs : finished'[j] = "true" => finished[j] = "true" \/ pc'[j] \in Answered
  PROVE  IInv'
<1>0. pc \in [Jobs \cup {"reload"} -> PCs] /\ pc' \in [Jobs \cup {"reload"} -> PCs]
  BY DEF IInv, TypeOK
<1>1. Loops'
  BY DEF IInv, Loops, LoopOf, Onward
<1>2. Watchers'
  <2> SUFFICES ASSUME NEW j \in Jobs, NEW i \in {1, 2} PROVE Watcher(j, i)'
    BY DEF Watchers
  <2>1. Watcher(j, i)
    BY DEF IInv, Watchers
  <2>2. pc'[j] \in {"check", "spawn"} => pc[j] \in {"check", "spawn"}
    BY DEF Onward, Loop
  <2> QED
    BY <2>1, <2>2 DEF Watcher
<1>3. ListedObjects'
  <2> SUFFICES ASSUME NEW j \in Jobs, NEW x \in listedObjects[j]
               PROVE  \E k \in DOMAIN serviceList[j] : ListedAt(j, x, k)'
    BY DEF ListedObjects
  <2>1. PICK k \in DOMAIN serviceList[j] : ListedAt(j, x, k)
    BY DEF IInv, ListedObjects
  <2>2. pc[j] \notin BeforeLists
    BY DEF IInv, Loops, LoopOf
  <2>3. pc'[j] = "check" => pc[j] = "check"
    BY DEF Onward, Loop
  <2>4. pc'[j] = "delete" => pc[j] = "delete"
    BY DEF Onward, Loop
  <2>5. TurnOver(j, k)' => TurnOver(j, k)
    <3>1. CASE pc[j] = "check"
      <4>1. j = "clean"
        BY <3>1 DEF IInv, InPlaces, StartPlaces, DeletePlaces, Jobs
      <4> QED
        BY <2>1, <3>1, <4>1 DEF TurnOver, ListedAt
    <3>2. CASE pc[j] # "check"
      BY <1>0, <2>2, <3>2 DEF TurnOver, AfterLoop, Onward
    <3> QED
      BY <3>1, <3>2
  <2> QED
    BY <2>1, <2>3, <2>4, <2>5 DEF ListedAt
<1>4. NewIsMade'
  BY DEF IInv, NewIsMade, Onward, Jobs
<1>5. TrueMeansGone' /\ ServicesNeeded'
  BY DEF IInv, TrueMeansGone, Gone, ServicesNeeded
<1> QED
  BY <1>1, <1>2, <1>3, <1>4, <1>5 DEF IInv

\* What such a step does, whichever it is, if it tells no success.
Quietly ==
    /\ UNCHANGED <<needs, svc, serviceList, listedObjects, at, watch, watched, deleteChannels>>
    /\ pc' \in [Jobs \cup {"reload"} -> PCs] /\ InPlaces'
    /\ \A j \in Jobs : Onward(pc[j], pc'[j])
    /\ \A j \in Jobs : finished'[j] = "true" => finished[j] = "true"
    /\ ingress' \in Objects /\ cache' \in Objects \cup {"empty"}
    /\ finished' \in [Jobs -> Cells]
    /\ ingressListed' \in [Jobs -> BOOLEAN]
    /\ started' \in Cells

LEMMA QuietlyIInv == ASSUME IInv, Quietly PROVE IInv'
<1>1. TypeOK'
  BY DEF Quietly, IInv, TypeOK
<1> QED
  BY <1>1, QuietIInv DEF Quietly

\* A job that goes on changes no other job's place.
LEMMA GotoPlaces ==
  ASSUME IInv, NEW j \in Jobs, NEW p, NEW q \in PCs, Goto(j, p, q),
         j = "start" => q \in StartPlaces, j = "delete" => q \in DeletePlaces,
         j = "clean" => q \in CleanPlaces, Onward(p, q)
  PROVE  /\ pc' \in [Jobs \cup {"reload"} -> PCs] /\ InPlaces'
         /\ \A k \in Jobs : Onward(pc[k], pc'[k])
<1>1. pc \in [Jobs \cup {"reload"} -> PCs] /\ pc[j] = p /\ pc' = [pc EXCEPT ![j] = q]
  BY DEF IInv, TypeOK, Goto
<1>2. pc' \in [Jobs \cup {"reload"} -> PCs]
  BY <1>1
<1>3. \A k \in Jobs \cup {"reload"} : pc'[k] = IF k = j THEN q ELSE pc[k]
  BY <1>1
<1>4. j # "reload"
  BY DEF Jobs
<1>5. InPlaces'
  BY <1>3, <1>4 DEF IInv, InPlaces, Jobs
<1>6. \A k \in Jobs : Onward(pc[k], pc[k])
  BY DEF Onward
<1> QED
  BY <1>1, <1>2, <1>3, <1>5, <1>6

\* The places of the quiet steps lead onward.
LEMMA OnwardPlaces ==
  /\ Onward("idle", "removeCache") /\ Onward("idle", "list") /\ Onward("removeCache", "list")
  /\ \A q \in {"done", "listIngress", "await", "readdir"} : Onward("list", q)
  /\ \A q \in {"ssh", "done", "deleteIngress"} : Onward("listIngress", q)
  /\ \A q \in {"ssh", "done"} : Onward("deleteIngress", q)
  /\ \A q \in {"listIngress", "done"} : Onward("await", q)
  /\ Onward("ssh", "http") /\ \A q \in {"ingress", "cache"} : Onward("http", q)
  /\ Onward("ingress", "cache") /\ Onward("cache", "done")
  /\ \A q \in {"combine", "checkCache", "done"} : Onward("readdir", q)
  /\ \A q \in {"combine", "unlink", "done"} : Onward("checkCache", q)
  /\ \A q \in {"combine", "done"} : Onward("unlink", q)
  /\ Onward("check", "done")
  /\ \A q \in {"await", "listIngress", "done"} : Onward("combine", q)
  BY DEF Onward, BeforeLists, Loop, Answered, AfterSweep, Past, Services

\* The steps of the jobs that have nothing to do with services.
QuietStep(j) ==
    \/ Begin(j) \/ RemoveCache(j) \/ ListServicesFails(j)
    \/ ListIngresses(j) \/ DeleteIngress(j) \/ IngressesFail(j)
    \/ OrphansSwept(j) \/ OrphansLeft(j)
    \/ StartSshServiceFails(j) \/ CreateHttpServiceFails(j)
    \/ CreateIngress(j) \/ CreateIngressFails(j)
    \/ SaveCache(j) \/ SaveCacheFails(j)
    \/ Readdirnames(j) \/ CheckCache(j)
    \/ RemoveOrphanedCache(j) \/ CleanFails(j) \/ Answer(j)
    \/ FinishedTimeout(j)

LEMMA QuietSteps ==
  ASSUME IInv, NEW j \in Jobs, UNCHANGED needs, QuietStep(j)
  PROVE  Quietly
<1>0. /\ pc \in [Jobs \cup {"reload"} -> PCs] /\ InPlaces
      /\ ingress \in Objects /\ cache \in Objects \cup {"empty"}
      /\ finished \in [Jobs -> Cells] /\ ingressListed \in [Jobs -> BOOLEAN]
      /\ started \in Cells
      /\ "true" \in Values /\ "false" \in Values /\ Values \subseteq Cells
      /\ None \in Objects /\ "new" \in Objects
  BY DEF IInv, TypeOK, Cells, Values, Objects
<1>1. \A v \in Values : Sent(finished, {j}, v) \in [Jobs -> Cells]
  BY <1>0, SentCells
<1>2. \A k \in Jobs : Sent(finished, {j}, "false")[k] = "true" => finished[k] = "true"
  BY <1>0, SentCells
<1>3. CASE \/ Begin(j) \/ RemoveCache(j) \/ ListServicesFails(j)
  <2>1. \E q \in PCs, p \in {"idle", "removeCache", "list"} :
          /\ Goto(j, p, q) /\ Onward(p, q)
          /\ j = "start" => q \in StartPlaces
          /\ j = "delete" => q \in DeletePlaces
          /\ j = "clean" => q \in CleanPlaces
    BY <1>0, <1>3, OnwardPlaces
       DEF Begin, RemoveCache, ListServicesFails, Goto, InPlaces, StartPlaces, DeletePlaces,
           CleanPlaces, PCs, Jobs
  <2>2. /\ UNCHANGED <<svc, serviceList, listedObjects, at, watch, watched, deleteChannels,
                       ingress, ingressListed>>
        /\ cache' \in {cache, None}
        /\ finished' \in {finished, Sent(finished, {j}, "false")}
        /\ started' \in {started, "false"}
    BY <1>3 DEF Begin, RemoveCache, ListServicesFails, resources, sweeping
  <2> QED
    BY <1>0, <1>1, <1>2, <2>1, <2>2, GotoPlaces DEF Quietly
<1>4. CASE \/ ListIngresses(j) \/ DeleteIngress(j) \/ IngressesFail(j)
  <2>1. \E q \in PCs, p \in {"listIngress", "deleteIngress"} :
          /\ Goto(j, p, q) /\ Onward(p, q)
          /\ j = "start" => q \in StartPlaces
          /\ j = "delete" => q \in DeletePlaces
          /\ j = "clean" => q \in CleanPlaces
    BY <1>0, <1>4, OnwardPlaces
       DEF ListIngresses, DeleteIngress, IngressesFail, AfterIngresses, Goto, InPlaces,
           StartPlaces, DeletePlaces, CleanPlaces, PCs, Jobs
  <2>2. /\ UNCHANGED <<svc, serviceList, listedObjects, at, watch, watched, deleteChannels,
                       cache, started>>
        /\ ingress' \in {ingress, None}
        /\ finished' \in {finished, Sent(finished, {j}, "false")}
        /\ ingressListed' \in {ingressListed, [ingressListed EXCEPT ![j] = (ingress # None)]}
    BY <1>4 DEF ListIngresses, DeleteIngress, IngressesFail, resources, sweeping
  <2> QED
    BY <1>0, <1>1, <1>2, <2>1, <2>2, GotoPlaces DEF Quietly
<1>5. CASE \/ OrphansSwept(j) \/ OrphansLeft(j)
           \/ StartSshServiceFails(j) \/ CreateHttpServiceFails(j)
           \/ CreateIngress(j) \/ CreateIngressFails(j) \/ SaveCache(j) \/ SaveCacheFails(j)
  <2>1. \E q \in PCs, p \in {"await", "ssh", "http", "ingress", "cache"} :
          /\ Goto(j, p, q) /\ Onward(p, q)
          /\ j = "start" => q \in StartPlaces
          /\ j = "delete" => q \in DeletePlaces
          /\ j = "clean" => q \in CleanPlaces
    BY <1>0, <1>5, OnwardPlaces
       DEF OrphansSwept, OrphansLeft, StartSshServiceFails, CreateHttpServiceFails,
           CreateIngress, CreateIngressFails, SaveCache, SaveCacheFails, Goto, InPlaces,
           StartPlaces, DeletePlaces, CleanPlaces, PCs, Jobs
  <2>2. /\ UNCHANGED <<svc, serviceList, listedObjects, at, watch, watched, deleteChannels,
                       finished, ingressListed>>
        /\ ingress' \in {ingress, "new"}
        /\ cache' \in {cache, None, "new", "empty"}
        /\ started' \in {started, "true", "false"}
    BY <1>5 DEF OrphansSwept, OrphansLeft, StartSshServiceFails, CreateHttpServiceFails,
           CreateIngress, CreateIngressFails, SaveCache, SaveCacheFails, SendStarted, Written,
           resources, sweeping
  <2> QED
    BY <1>0, <2>1, <2>2, GotoPlaces DEF Quietly
<1>6. CASE \/ Readdirnames(j) \/ CheckCache(j) \/ RemoveOrphanedCache(j) \/ CleanFails(j)
           \/ Answer(j)
  <2>1. \E q \in PCs, p \in {"readdir", "checkCache", "unlink", "list", "check", "combine"} :
          /\ Goto(j, p, q) /\ Onward(p, q)
          /\ j = "start" => q \in StartPlaces
          /\ j = "delete" => q \in DeletePlaces
          /\ j = "clean" => q \in CleanPlaces
    BY <1>0, <1>6, OnwardPlaces
       DEF Readdirnames, CheckCache, RemoveOrphanedCache, CleanFails, Answer, Goto, InPlaces,
           StartPlaces, DeletePlaces, CleanPlaces, PCs, Jobs
  <2>2. /\ UNCHANGED <<svc, serviceList, listedObjects, at, watch, watched, deleteChannels,
                       finished, ingress, ingressListed, started>>
        /\ cache' \in {cache, None}
    BY <1>6 DEF Readdirnames, CheckCache, RemoveOrphanedCache, CleanFails, Answer, resources,
           sweeping
  <2> QED
    BY <1>0, <2>1, <2>2, GotoPlaces DEF Quietly
<1>7. CASE FinishedTimeout(j)
  BY <1>0, <1>1, <1>2, <1>7 DEF FinishedTimeout, resources, Quietly, Onward, InPlaces
<1> QED
  BY <1>3, <1>4, <1>5, <1>6, <1>7 DEF QuietStep

LEMMA QuietOtherSteps ==
  ASSUME IInv, UNCHANGED needs, StartedTimeout \/ ReloadPodCaches PROVE Quietly
<1>0. /\ pc \in [Jobs \cup {"reload"} -> PCs] /\ InPlaces /\ "reload" \notin Jobs
      /\ ingress \in Objects /\ cache \in Objects \cup {"empty"}
      /\ finished \in [Jobs -> Cells] /\ ingressListed \in [Jobs -> BOOLEAN]
      /\ started \in Cells /\ "false" \in Cells /\ None \in Objects /\ "new" \in Objects
  BY DEF IInv, TypeOK, Cells, Values, Objects, Jobs
<1>1. CASE StartedTimeout
  BY <1>0, <1>1 DEF StartedTimeout, SendStarted, resources, sweeping, Quietly, Onward, InPlaces
<1>2. CASE ReloadPodCaches
  <2>1. /\ UNCHANGED <<svc, ingress, sweeping, ingressListed, started>>
        /\ cache' \in {cache, None, "new", "empty"}
        /\ pc' = [pc EXCEPT !["reload"] = "done"]
    BY <1>2 DEF ReloadPodCaches, Goto, Written
  <2>2. \A j \in Jobs : pc'[j] = pc[j]
    BY <1>0, <2>1
  <2>3. pc' \in [Jobs \cup {"reload"} -> PCs] /\ pc'["reload"] = "done"
    BY <1>0, <2>1 DEF PCs
  <2>4. InPlaces'
    BY <1>0, <2>2, <2>3 DEF InPlaces, Jobs
  <2>5. \A j \in Jobs : Onward(pc[j], pc'[j])
    BY <2>2 DEF Onward
  <2> QED
    BY <1>0, <2>1, <2>3, <2>4, <2>5 DEF sweeping, Quietly
<1> QED
  BY <1>1, <1>2

\* A goroutine that nothing happens to.
LEMMA SameWatcher ==
  ASSUME NEW j, NEW i, Watcher(j, i), pc'[j] = pc[j], at'[j] = at[j],
         serviceList'[j] = serviceList[j], watch'[<<j, i>>] = watch[<<j, i>>],
         watched'[<<j, i>>] = watched[<<j, i>>],
         deleteChannels'[<<j, i>>] = deleteChannels[<<j, i>>]
  PROVE  Watcher(j, i)'
<1>1. {serviceList'[j][k] : k \in DOMAIN serviceList'[j]} =
      {serviceList[j][k] : k \in DOMAIN serviceList[j]}
  OBVIOUS
<1> QED
  BY <1>1 DEF Watcher

-------------------------------------------------------------------------------
\* The goroutines of the loop.  Only their own slot changes.
LEMMA WatchStepsIInv ==
  ASSUME IInv, UNCHANGED needs, NEW j \in Jobs, NEW i \in {1, 2}, WatchStep(j, i)
  PROVE  IInv'
<1> DEFINE x == <<j, i>>
<1>0. /\ TypeOK /\ Loops /\ Watchers /\ ListedObjects /\ TrueMeansGone
      /\ watch \in [Slots -> Watches] /\ watched \in [Slots -> Services \cup {None}]
      /\ deleteChannels \in [Slots -> Cells]
      /\ "false" \in Values /\ NoValue # "true" /\ NoValue # "false"
      /\ \A k \in Jobs, m \in {1, 2} : <<k, m>> \in Slots
  BY DEF IInv, TypeOK, Values, NoValue, Slots
<1>1. /\ UNCHANGED <<needs, svc, ingress, cache, pc, serviceList, listedObjects, at, finished,
                     ingressListed, started>>
      /\ watch[x] # "none"
      /\ watch' \in {watch, [watch EXCEPT ![x] = "named"], [watch EXCEPT ![x] = "open"],
                     [watch EXCEPT ![x] = "failed"]}
      /\ deleteChannels' \in {deleteChannels, Sent(deleteChannels, {x}, "false")}
      /\ \/ UNCHANGED watched
         \/ /\ watched' = [watched EXCEPT ![x] = serviceList[j][at[j]]]
            /\ watch[x] = "spawned" /\ UNCHANGED deleteChannels
  BY DEF WatchStep, ReadServiceName, OpenWatch, WatchFails, DeleteTimeout, resources
<1>2. /\ i \in DOMAIN serviceList[j] /\ at[j] \in DOMAIN serviceList[j]
      /\ serviceList[j][at[j]] \in Services
  <2>1. i \in DOMAIN serviceList[j]
    BY <1>0, <1>1 DEF Watchers, Watcher
  <2>2. serviceList[j] \in Lists /\ at[j] \in {1, 2} /\ (at[j] = 1 \/ at[j] <= Len(serviceList[j]))
    BY <1>0 DEF TypeOK
  <2> QED
    BY <2>1, <2>2, ListFacts
<1>3. /\ Sent(deleteChannels, {x}, "false") \in [Slots -> Cells]
      /\ \A y \in Slots : Sent(deleteChannels, {x}, "false")[y] = "true" => deleteChannels[y] = "true"
  BY <1>0, SentCells
<1>4. /\ watch' \in [Slots -> Watches]
      /\ \A y \in Slots : watch'[y] = "none" <=> watch[y] = "none"
  BY <1>0, <1>1 DEF Watches
<1>5. /\ watched' \in [Slots -> Services \cup {None}]
      /\ \A y \in Slots : y # x => watched'[y] = watched[y]
      /\ watched'[x] # watched[x] => /\ watched'[x] = serviceList[j][at[j]]
                                    /\ watch[x] = "spawned"
  BY <1>0, <1>1, <1>2
<1>6. /\ deleteChannels' \in [Slots -> Cells]
      /\ \A y \in Slots : deleteChannels'[y] = "true" => deleteChannels[y] = "true"
  BY <1>0, <1>1, <1>3
<1>7. TypeOK'
  BY <1>0, <1>1, <1>4, <1>5, <1>6 DEF TypeOK
<1>8. Loops'
  BY <1>0, <1>1, <1>4 DEF Loops, LoopOf
<1>9. ASSUME NEW k \in Jobs, NEW m \in {1, 2}, deleteChannels'[<<k, m>>] = "true"
      PROVE  /\ deleteChannels[<<k, m>>] = "true"
             /\ watch'[<<k, m>>] = "open" /\ watched'[<<k, m>>] = watched[<<k, m>>]
  <2>1. <<k, m>> \in Slots /\ deleteChannels[<<k, m>>] = "true"
    BY <1>0, <1>6, <1>9
  <2>2. watch[<<k, m>>] = "open"
    BY <1>0, <2>1 DEF Watchers, Watcher
  <2>3. watch'[<<k, m>>] = "open"
    <3>1. CASE x = <<k, m>>
      <4>1. watch[<<j, i>>] = "open"
        BY <2>2, <3>1
      <4>2. UNCHANGED watch
        BY <4>1 DEF WatchStep, ReadServiceName, OpenWatch, WatchFails, DeleteTimeout
      <4> QED
        BY <2>2, <4>2
    <3>2. CASE x # <<k, m>>
      BY <1>0, <1>1, <2>1, <2>2, <3>2
    <3> QED
      BY <3>1, <3>2
  <2> QED
    BY <1>5, <2>1, <2>2, <2>3
<1>10. Watchers'
  <2> SUFFICES ASSUME NEW k \in Jobs, NEW m \in {1, 2} PROVE Watcher(k, m)'
    BY DEF Watchers
  <2>1. <<k, m>> \in Slots /\ Watcher(k, m)
    BY <1>0 DEF Watchers
  <2>2. watched'[<<k, m>>] \in {None} \cup {serviceList[k][l] : l \in DOMAIN serviceList[k]}
    <3>1. CASE watched'[<<k, m>>] = watched[<<k, m>>]
      BY <2>1, <3>1 DEF Watcher
    <3>2. CASE watched'[<<k, m>>] # watched[<<k, m>>]
      <4>1. x = <<k, m>>
        BY <1>5, <2>1, <3>2
      <4>2. k = j /\ watched'[<<k, m>>] = serviceList[j][at[j]]
        BY <1>5, <3>2, <4>1
      <4> QED
        BY <1>2, <4>2
    <3> QED
      BY <3>1, <3>2
  <2>3. watch'[<<k, m>>] = "none" => watched'[<<k, m>>] = None
    BY <1>1, <1>4, <1>5, <2>1 DEF Watcher
  <2>4. deleteChannels'[<<k, m>>] = "true" =>
          watched'[<<k, m>>] \in Services /\ watch'[<<k, m>>] = "open"
    BY <1>9, <2>1 DEF Watcher
  <2>5. watch'[<<k, m>>] # "none" =>
          /\ m \in DOMAIN serviceList[k] /\ m <= at[k]
          /\ pc[k] \in {"check", "spawn"} => m # at[k]
    BY <1>4, <2>1 DEF Watcher
  <2> QED
    BY <1>1, <2>2, <2>3, <2>4, <2>5 DEF Watcher
<1>11. ListedObjects'
  <2> SUFFICES ASSUME NEW k \in Jobs, NEW y \in listedObjects[k]
               PROVE  \E m \in DOMAIN serviceList[k] : ListedAt(k, y, m)'
    BY <1>1 DEF ListedObjects
  <2>1. PICK m \in DOMAIN serviceList[k] : ListedAt(k, y, m)
    BY <1>0 DEF ListedObjects
  <2>2. m \in {1, 2}
    BY <1>0, ListFacts DEF TypeOK
  <2> QED
    BY <1>0, <1>1, <1>4, <2>1, <2>2 DEF ListedAt, TurnOver
<1>12. TrueMeansGone'
  <2> SUFFICES ASSUME NEW k \in Jobs, NEW m \in {1, 2}, deleteChannels'[<<k, m>>] = "true"
               PROVE  Gone(k, watched[<<k, m>>])'
    BY DEF TrueMeansGone
  <2>1. Gone(k, watched[<<k, m>>])
    BY <1>0, <1>9 DEF TrueMeansGone
  <2> QED
    BY <1>1, <1>9, <2>1 DEF Gone
<1>13. InPlaces' /\ NewIsMade' /\ ServicesNeeded'
  BY <1>1 DEF IInv, InPlaces, NewIsMade, ServicesNeeded
<1> QED
  BY <1>7, <1>8, <1>10, <1>11, <1>12, <1>13 DEF IInv

-------------------------------------------------------------------------------
\* The loop variable is in the list, and moves on in it or leaves the loop.
LEMMA TurnFacts ==
  ASSUME IInv, NEW j \in Jobs, NEW from \in {"delete", "check"}, NextTurn(j, from)
  PROVE  /\ pc[j] = from /\ pc \in [Jobs \cup {"reload"} -> PCs] /\ serviceList[j] \in Lists
         /\ at[j] \in DOMAIN serviceList[j] /\ serviceList[j][at[j]] \in Services
         /\ DOMAIN serviceList[j] = 1 .. Len(serviceList[j])
         /\ at' \in [Jobs -> {1, 2}] /\ at'[j] \in DOMAIN serviceList[j]
         /\ \A k \in Jobs : k # j => at'[k] = at[k]
         /\ pc' \in [Jobs \cup {"reload"} -> PCs] /\ \A k \in Jobs : k # j => pc'[k] = pc[k]
         /\ \/ /\ at'[j] = at[j] + 1 /\ pc'[j] = IF j = "clean" THEN "check" ELSE "spawn"
            \/ /\ at'[j] = at[j] /\ at[j] = Len(serviceList[j])
               /\ pc'[j] = IF j = "clean" THEN "readdir" ELSE "combine"
         /\ InPlaces'
<1>1. /\ pc[j] = from /\ pc \in [Jobs \cup {"reload"} -> PCs] /\ serviceList[j] \in Lists
      /\ at \in [Jobs -> {1, 2}] /\ at[j] \in DOMAIN serviceList[j]
      /\ InPlaces
  BY DEF IInv, TypeOK, Loops, LoopOf, Loop, NextTurn, Goto
<1>2. /\ DOMAIN serviceList[j] = 1 .. Len(serviceList[j])
      /\ Len(serviceList[j]) \in {0, 1, 2}
      /\ serviceList[j][at[j]] \in Services
  BY <1>1, ListFacts
<1>3. \/ /\ at[j] < Len(serviceList[j]) /\ at' = [at EXCEPT ![j] = at[j] + 1]
         /\ pc' = [pc EXCEPT ![j] = IF j = "clean" THEN "check" ELSE "spawn"]
      \/ /\ at[j] = Len(serviceList[j]) /\ UNCHANGED at
         /\ pc' = [pc EXCEPT ![j] = IF j = "clean" THEN "readdir" ELSE "combine"]
  BY DEF NextTurn, Goto
<1>4. /\ at' \in [Jobs -> {1, 2}] /\ at'[j] \in DOMAIN serviceList[j]
      /\ \A k \in Jobs : k # j => at'[k] = at[k]
  <2>1. at[j] < Len(serviceList[j]) =>
          at[j] + 1 \in {1, 2} /\ at[j] + 1 \in DOMAIN serviceList[j]
    <3>1. at[j] \in {1, 2}
      BY <1>1
    <3> DEFINE n == Len(serviceList[j])
               a == at[j]
    <3>a. n \in {0, 1, 2} /\ a \in {1, 2}
      BY <1>2, <3>1
    <3>2. at[j] < Len(serviceList[j]) => at[j] = 1 /\ Len(serviceList[j]) = 2
      <4>1. a < n => a = 1 /\ n = 2
        <5> HIDE DEF a, n
        <5> QED
          BY <3>a
      <4> QED
        BY <4>1
    <3>3. 2 \in 1 .. 2
      OBVIOUS
    <3> QED
      BY <1>2, <3>2, <3>3
  <2>2. CASE UNCHANGED at
    BY <1>1, <2>2
  <2>3. CASE at[j] < Len(serviceList[j]) /\ at' = [at EXCEPT ![j] = at[j] + 1]
    BY <1>1, <2>1, <2>3
  <2> QED
    BY <1>3, <2>2, <2>3
<1>5. /\ pc' \in [Jobs \cup {"reload"} -> PCs]
      /\ \A k \in Jobs \cup {"reload"} : k # j => pc'[k] = pc[k]
  BY <1>1, <1>3 DEF PCs
<1>6. \/ /\ at'[j] = at[j] + 1 /\ pc'[j] = IF j = "clean" THEN "check" ELSE "spawn"
      \/ /\ at'[j] = at[j] /\ at[j] = Len(serviceList[j])
         /\ pc'[j] = IF j = "clean" THEN "readdir" ELSE "combine"
  BY <1>1, <1>3
<1>7. InPlaces'
  BY <1>1, <1>5, <1>6 DEF InPlaces, StartPlaces, DeletePlaces, CleanPlaces, Jobs
<1> QED
  BY <1>1, <1>2, <1>4, <1>5, <1>6, <1>7

\* A turn of the loop ends: the service of the turn is deleted, or the call has
\* failed, or the pod of the service is there and it was not to be deleted.
LEMMA TurnIIinv ==
  ASSUME IInv, UNCHANGED needs, NEW j \in Jobs, NEW from \in {"delete", "check"}, NextTurn(j, from),
         from = "check" => j = "clean",
         UNCHANGED <<ingress, cache, serviceList, listedObjects, watch, watched, finished,
                     ingressListed, started>>,
         \/ /\ svc' = [svc EXCEPT ![serviceList[j][at[j]]] = None]
            /\ deleteChannels' =
                  IF Present(serviceList[j][at[j]])
                  THEN Sent(deleteChannels, WatchersOf(serviceList[j][at[j]]), "true")
                  ELSE deleteChannels
         \/ UNCHANGED <<svc, deleteChannels>> /\ (from = "delete" => ApiMayFail)
  PROVE  IInv'
<1> DEFINE s == serviceList[j][at[j]]
<1>0. /\ TypeOK /\ Loops /\ Watchers /\ ListedObjects /\ NewIsMade /\ TrueMeansGone
      /\ ServicesNeeded
      /\ svc \in [Services -> Objects] /\ finished \in [Jobs -> Cells]
      /\ deleteChannels \in [Slots -> Cells]
      /\ listedObjects \in [Jobs -> SUBSET (Services \X {"old", "new"})]
      /\ "true" \in Values /\ None \in Objects
      /\ \A k \in Jobs, m \in {1, 2} : <<k, m>> \in Slots
      /\ None # "old" /\ None # "new"
  BY PodJobsAssumption DEF IInv, TypeOK, Values, Slots, Objects
<1>1. /\ pc[j] = from /\ pc \in [Jobs \cup {"reload"} -> PCs] /\ serviceList[j] \in Lists
      /\ at[j] \in DOMAIN serviceList[j] /\ s \in Services
      /\ DOMAIN serviceList[j] = 1 .. Len(serviceList[j])
      /\ at' \in [Jobs -> {1, 2}] /\ at'[j] \in DOMAIN serviceList[j]
      /\ \A k \in Jobs : k # j => at'[k] = at[k]
      /\ pc' \in [Jobs \cup {"reload"} -> PCs] /\ \A k \in Jobs : k # j => pc'[k] = pc[k]
      /\ \/ /\ at'[j] = at[j] + 1 /\ pc'[j] = IF j = "clean" THEN "check" ELSE "spawn"
         \/ /\ at'[j] = at[j] /\ at[j] = Len(serviceList[j])
            /\ pc'[j] = IF j = "clean" THEN "readdir" ELSE "combine"
      /\ InPlaces'
  BY TurnFacts
<1>2. /\ svc' \in [Services -> Objects]
      /\ \A u \in Services : svc'[u] = svc[u] \/ svc'[u] = None
      /\ from = "delete" /\ ~ApiMayFail => svc'[s] = None
  BY <1>0, <1>1
<1>3. /\ deleteChannels' \in [Slots -> Cells]
      /\ \A x \in Slots : deleteChannels'[x] = "true" =>
            \/ deleteChannels[x] = "true"
            \/ watch[x] = "open" /\ watched[x] = s /\ svc'[s] = None
  <2>1. /\ Sent(deleteChannels, WatchersOf(s), "true") \in [Slots -> Cells]
        /\ \A x \in Slots : Sent(deleteChannels, WatchersOf(s), "true")[x] = "true" =>
              deleteChannels[x] = "true" \/ x \in WatchersOf(s)
    BY <1>0, SentCells
  <2> QED
    BY <1>0, <1>1, <2>1 DEF WatchersOf
<1>4. TypeOK'
  <2>1. \A k \in Jobs : at'[k] = 1 \/ at'[k] <= Len(serviceList[k])
    BY <1>0, <1>1 DEF TypeOK
  <2> QED
    BY <1>0, <1>1, <1>2, <1>3, <2>1 DEF TypeOK
<1>5. Loops'
  <2>1. /\ pc'[j] \notin BeforeLists /\ at'[j] \in DOMAIN serviceList[j] /\ finished[j] # "true"
    BY <1>0, <1>1 DEF Loops, LoopOf, BeforeLists, Answered, AfterSweep
  <2> QED
    BY <1>0, <1>1, <2>1 DEF Loops, LoopOf
<1>6. Watchers'
  <2> SUFFICES ASSUME NEW k \in Jobs, NEW m \in {1, 2} PROVE Watcher(k, m)'
    BY DEF Watchers
  <2>1. Watcher(k, m) /\ <<k, m>> \in Slots
    BY <1>0 DEF Watchers
  <2>2. CASE k # j
    BY <1>1, <1>3, <2>1, <2>2 DEF Watcher
  <2>3. CASE k = j
    <3>1. m <= at[j] => m <= at'[j]
      BY <1>1
    <3>2. watch[<<k, m>>] # "none" /\ pc'[j] \in {"check", "spawn"} => m # at'[j]
      BY <1>1, <2>1, <2>3 DEF Watcher
    <3> QED
      BY <1>1, <1>3, <2>1, <2>3, <3>1, <3>2 DEF Watcher
  <2> QED
    BY <2>2, <2>3
<1>7. ListedObjects'
  <2> SUFFICES ASSUME NEW k \in Jobs, NEW x \in listedObjects[k]
               PROVE  \E m \in DOMAIN serviceList[k] : ListedAt(k, x, m)'
    BY DEF ListedObjects
  <2>1. PICK m \in DOMAIN serviceList[k] : ListedAt(k, x, m)
    BY <1>0 DEF ListedObjects
  <2>2. x[1] \in Services /\ x[2] \in {"old", "new"}
    BY <1>0
  <2>3. svc[x[1]] # x[2] => svc'[x[1]] # x[2]
    BY <1>0, <1>2, <2>2
  <2>4. CASE k # j
    BY <1>1, <2>1, <2>3, <2>4 DEF ListedAt, TurnOver
  <2>5. CASE k = j
    <3>1. TurnOver(j, m)' => TurnOver(j, m) \/ (pc[j] = "delete" /\ m = at[j])
      BY <1>1, <2>1, <2>5 DEF TurnOver, AfterLoop, ListedAt, Loop, BeforeLists
    <3>2. TurnOver(j, m)' /\ ~ApiMayFail => svc'[x[1]] # x[2]
      <4>1. CASE TurnOver(j, m)
        BY <2>1, <2>3, <2>5, <4>1 DEF ListedAt
      <4>2. CASE pc[j] = "delete" /\ m = at[j]
        BY <1>0, <1>1, <1>2, <2>1, <2>2, <2>5, <4>2 DEF ListedAt
      <4> QED
        BY <3>1, <4>1, <4>2
    <3>3. pc'[j] # "delete"
      BY <1>1
    <3>4. j = "clean" => m < at'[j] \/ (m = at'[j] /\ pc'[j] # "check")
      BY <1>1, <2>1, <2>5 DEF ListedAt
    <3> QED
      BY <2>1, <2>5, <3>1, <3>2, <3>3, <3>4 DEF ListedAt
  <2> QED
    BY <2>4, <2>5
<1>8. NewIsMade'
  <2>1. \A u \in Services : pc["start"] \in Past(u) => pc'["start"] \in Past(u)
    BY <1>1 DEF Past, Jobs
  <2> QED
    BY <1>0, <1>2, <2>1 DEF NewIsMade
<1>9. TrueMeansGone'
  <2> SUFFICES ASSUME NEW k \in Jobs, NEW m \in {1, 2}, deleteChannels'[<<k, m>>] = "true"
               PROVE  Gone(k, watched[<<k, m>>])'
    BY DEF TrueMeansGone
  <2>1. <<k, m>> \in Slots
    BY <1>0
  <2>2. CASE deleteChannels[<<k, m>>] = "true"
    <3>1. watched[<<k, m>>] \in Services /\ Gone(k, watched[<<k, m>>])
      BY <1>0, <2>2 DEF TrueMeansGone, Watchers, Watcher
    <3> QED
      BY <1>0, <1>2, <3>1 DEF Gone
  <2>3. CASE watched[<<k, m>>] = s /\ svc'[s] = None
    BY <1>0, <2>3 DEF Gone
  <2> QED
    BY <1>3, <2>1, <2>2, <2>3
<1>10. ServicesNeeded'
  BY <1>0, <1>2 DEF ServicesNeeded
<1> QED
  BY <1>1, <1>4, <1>5, <1>6, <1>7, <1>8, <1>9, <1>10 DEF IInv

-------------------------------------------------------------------------------
\* DeleteAllServices lists, and goes into its loop if there is anything.
LEMMA ListServicesIInv ==
  ASSUME IInv, UNCHANGED needs, NEW j \in Jobs, ListServices(j)
  PROVE  IInv'
<1> DEFINE present == {<<s, svc[s]>> : s \in {t \in Services : Present(t)}}
<1>0. /\ TypeOK /\ Loops /\ Watchers /\ ListedObjects /\ NewIsMade /\ TrueMeansGone
      /\ ServicesNeeded
      /\ pc \in [Jobs \cup {"reload"} -> PCs]
      /\ svc \in [Services -> Objects] /\ finished \in [Jobs -> Cells]
      /\ serviceList \in [Jobs -> Lists]
      /\ listedObjects \in [Jobs -> SUBSET (Services \X {"old", "new"})]
      /\ \A k \in Jobs : at[k] \in {1, 2} /\ (at[k] = 1 \/ at[k] <= Len(serviceList[k]))
      /\ "true" \in Values /\ None # "old" /\ None # "new"
      /\ \A k \in Jobs, m \in {1, 2} : <<k, m>> \in Slots
  BY PodJobsAssumption DEF IInv, TypeOK, Values, Slots
<1>1. /\ j # "clean" /\ pc[j] = "list"
      /\ listedObjects' = [listedObjects EXCEPT ![j] = present]
      /\ UNCHANGED <<svc, ingress, cache, at, watch, watched, deleteChannels, ingressListed,
                     started>>
  BY DEF ListServices, Goto, resources
<1>2. PICK q \in Lists : ListsPresent(q) /\ serviceList' = [serviceList EXCEPT ![j] = q]
  BY DEF ListServices
<1>3. \/ /\ \E s \in Services : Present(s)
         /\ pc' = [pc EXCEPT ![j] = "spawn"] /\ UNCHANGED finished
      \/ /\ \A s \in Services : ~Present(s)
         /\ pc' = [pc EXCEPT ![j] = IF j = "start" THEN "await" ELSE "listIngress"]
         /\ finished' = Sent(finished, {j}, "true")
  BY <1>1 DEF ListServices, Goto, AfterServices, Jobs
<1>4. /\ at[j] = 1 /\ listedObjects[j] = {} /\ finished[j] # "true"
      /\ \A i \in {1, 2} : watch[<<j, i>>] = "none"
  BY <1>0, <1>1 DEF Loops, LoopOf, BeforeLists, Answered, AfterSweep
<1>5. \A k \in Jobs : k # j =>
         /\ pc'[k] = pc[k] /\ serviceList'[k] = serviceList[k]
         /\ listedObjects'[k] = listedObjects[k]
  BY <1>0, <1>1, <1>2, <1>3
<1>6. serviceList'[j] = q /\ listedObjects'[j] = present
  BY <1>0, <1>1, <1>2
<1>7. /\ q \in Seq(Services) /\ DOMAIN q = 1 .. Len(q) /\ Len(q) \in {0, 1, 2}
      /\ \A i \in DOMAIN q : i \in {1, 2} /\ q[i] \in Services
  BY ListFacts
<1>8. /\ finished' \in [Jobs -> Cells]
      /\ \A k \in Jobs : k # j => finished'[k] = finished[k]
      /\ finished'[j] = "true" => \A s \in Services : ~Present(s)
  <2>1. /\ Sent(finished, {j}, "true") \in [Jobs -> Cells]
        /\ \A k \in Jobs : k # j => Sent(finished, {j}, "true")[k] = finished[k]
    BY <1>0, SentCells
  <2> QED
    BY <1>0, <1>3, <1>4, <2>1
<1>9. /\ pc' \in [Jobs \cup {"reload"} -> PCs] /\ InPlaces'
      /\ \/ pc'[j] = "spawn" /\ \E s \in Services : Present(s)
         \/ pc'[j] \in {"await", "listIngress"} /\ \A s \in Services : ~Present(s)
  BY <1>0, <1>1, <1>3 DEF IInv, InPlaces, StartPlaces, DeletePlaces, CleanPlaces, PCs, Jobs
<1>10. TypeOK'
  <2>1. present \in SUBSET (Services \X {"old", "new"})
    BY <1>0 DEF Present, Objects
  <2>2. \A k \in Jobs : at[k] = 1 \/ at[k] <= Len(serviceList'[k])
    BY <1>0, <1>4, <1>5
  <2>3. serviceList' \in [Jobs -> Lists]
    BY <1>0, <1>2
  <2>4. listedObjects' \in [Jobs -> SUBSET (Services \X {"old", "new"})]
    BY <1>0, <1>1, <2>1
  <2> QED
    BY <1>0, <1>1, <1>8, <1>9, <2>2, <2>3, <2>4 DEF TypeOK
<1>11. Loops'
  <2>1. pc'[j] \notin BeforeLists /\ (pc'[j] \in Loop => \E s \in Services : Present(s))
    BY <1>9 DEF BeforeLists, Loop
  <2>2. pc'[j] \in Loop => at[j] \in DOMAIN serviceList'[j]
    <3>1. pc'[j] \in Loop => \E i \in DOMAIN q : TRUE
      BY <1>2, <2>1 DEF ListsPresent
    <3> QED
      BY <1>4, <1>6, <1>7, <3>1
  <2>3. finished'[j] = "true" => pc'[j] \in Answered
    BY <1>8, <1>9 DEF Answered, AfterSweep
  <2> SUFFICES ASSUME NEW k \in Jobs PROVE LoopOf(k)'
    BY DEF Loops
  <2>4. CASE k # j
    BY <1>1, <1>0, <1>5, <1>8, <2>4 DEF Loops, LoopOf
  <2> QED
    BY <1>1, <2>1, <2>2, <2>3, <2>4 DEF LoopOf
<1>12. Watchers'
  <2> SUFFICES ASSUME NEW k \in Jobs, NEW i \in {1, 2} PROVE Watcher(k, i)'
    BY DEF Watchers
  <2>1. Watcher(k, i)
    BY <1>0 DEF Watchers
  <2>2. CASE k # j
    BY <1>1, <1>5, <2>1, <2>2 DEF Watcher
  <2>3. CASE k = j
    <3>1. watch[<<k, i>>] = "none" /\ deleteChannels[<<k, i>>] # "true"
      BY <1>4, <2>1, <2>3 DEF Watcher
    <3>2. watched[<<k, i>>] = None
      BY <2>1, <3>1 DEF Watcher
    <3> QED
      BY <1>1, <3>1, <3>2 DEF Watcher
  <2> QED
    BY <2>2, <2>3
<1>13. ListedObjects'
  <2> SUFFICES ASSUME NEW k \in Jobs, NEW x \in listedObjects'[k]
               PROVE  \E m \in DOMAIN serviceList'[k] : ListedAt(k, x, m)'
    BY DEF ListedObjects
  <2>1. CASE k # j
    <3>1. PICK m \in DOMAIN serviceList[k] : ListedAt(k, x, m)
      BY <1>0, <1>5, <2>1 DEF ListedObjects
    <3> QED
      BY <1>1, <1>5, <2>1, <3>1 DEF ListedAt, TurnOver
  <2>2. CASE k = j
    <3>1. PICK s \in Services : Present(s) /\ x = <<s, svc[s]>>
      BY <1>6, <2>2
    <3>2. PICK m \in DOMAIN q : q[m] = s
      BY <1>2, <3>1 DEF ListsPresent
    <3>3. pc'[j] = "spawn"
      BY <1>9, <3>1
    <3>4. ~TurnOver(j, m)'
      BY <1>1, <1>4, <1>7, <3>3 DEF TurnOver, AfterLoop, Loop
    <3> QED
      BY <1>1, <1>6, <2>2, <3>1, <3>2, <3>3, <3>4 DEF ListedAt
  <2> QED
    BY <2>1, <2>2
<1>14. NewIsMade'
  <2>1. ASSUME NEW s \in Services, NEW k \in Jobs, <<s, "new">> \in listedObjects'[k]
        PROVE  svc[s] = "new" \/ <<s, "new">> \in listedObjects[k]
    BY <1>5, <1>6, <2>1
  <2>2. \A s \in Services : pc["start"] \in Past(s) => pc'["start"] \in Past(s)
    BY <1>1, <1>5 DEF Past, Jobs
  <2> QED
    BY <1>0, <1>1, <2>1, <2>2 DEF NewIsMade
<1>15. TrueMeansGone'
  <2> SUFFICES ASSUME NEW k \in Jobs, NEW m \in {1, 2}, deleteChannels[<<k, m>>] = "true"
               PROVE  Gone(k, watched[<<k, m>>])'
    BY <1>1 DEF TrueMeansGone
  <2>1. k # j
    BY <1>0, <1>4 DEF Watchers, Watcher
  <2> QED
    BY <1>0, <1>1, <1>5, <2>1 DEF TrueMeansGone, Gone
<1>16. ServicesNeeded'
  <2>1. \A i \in DOMAIN q : q[i] \in needs
    BY <1>0, <1>2, <1>7 DEF ListsPresent, Present, ServicesNeeded
  <2> QED
    BY <1>0, <1>1, <1>5, <1>6, <2>1 DEF ServicesNeeded
<1> QED
  BY <1>9, <1>10, <1>11, <1>12, <1>13, <1>14, <1>15, <1>16 DEF IInv

\* clean_all_unused lists, and knows of no object before it has looked for its pod.
LEMMA ListAllServicesIInv ==
  ASSUME IInv, UNCHANGED needs, NEW j \in Jobs, ListAllServices(j)
  PROVE  IInv'
<1>0. /\ TypeOK /\ Loops /\ Watchers /\ ListedObjects /\ NewIsMade /\ TrueMeansGone
      /\ ServicesNeeded
      /\ pc \in [Jobs \cup {"reload"} -> PCs]
      /\ svc \in [Services -> Objects]
      /\ serviceList \in [Jobs -> Lists]
      /\ \A k \in Jobs : at[k] \in {1, 2} /\ (at[k] = 1 \/ at[k] <= Len(serviceList[k]))
  BY DEF IInv, TypeOK
<1>1. /\ j = "clean" /\ pc[j] = "list"
      /\ UNCHANGED <<svc, ingress, cache, listedObjects, at, watch, watched, deleteChannels,
                     finished, ingressListed, started>>
      /\ \/ (\E s \in Services : Present(s)) /\ pc' = [pc EXCEPT ![j] = "check"]
         \/ (\A s \in Services : ~Present(s)) /\ pc' = [pc EXCEPT ![j] = "readdir"]
  BY DEF ListAllServices, Goto, resources
<1>2. PICK q \in Lists : ListsPresent(q) /\ serviceList' = [serviceList EXCEPT ![j] = q]
  BY DEF ListAllServices
<1>3. /\ at[j] = 1 /\ listedObjects[j] = {} /\ finished[j] # "true"
      /\ \A i \in {1, 2} : watch[<<j, i>>] = "none"
  BY <1>0, <1>1 DEF Loops, LoopOf, BeforeLists, Answered, AfterSweep
<1>4. /\ \A k \in Jobs : k # j => pc'[k] = pc[k] /\ serviceList'[k] = serviceList[k]
      /\ serviceList'[j] = q
      /\ pc' \in [Jobs \cup {"reload"} -> PCs] /\ InPlaces'
      /\ pc'[j] = "readdir" \/ (pc'[j] = "check" /\ \E s \in Services : Present(s))
  BY <1>0, <1>1, <1>2 DEF IInv, InPlaces, CleanPlaces, PCs, Jobs
<1>5. /\ DOMAIN q = 1 .. Len(q) /\ \A i \in DOMAIN q : q[i] \in Services
      /\ Len(q) \in {0, 1, 2}
  BY ListFacts
<1>6. TypeOK'
  <2>1. \A k \in Jobs : at[k] = 1 \/ at[k] <= Len(serviceList'[k])
    BY <1>0, <1>3, <1>4
  <2>2. serviceList' \in [Jobs -> Lists]
    BY <1>0, <1>2
  <2> QED
    BY <1>0, <1>1, <1>4, <2>1, <2>2 DEF TypeOK
<1>7. Loops'
  <2>1. pc'[j] \in Loop => at[j] \in DOMAIN serviceList'[j]
    <3>1. pc'[j] \in Loop => \E i \in DOMAIN q : TRUE
      BY <1>2, <1>4 DEF ListsPresent, Loop
    <3> QED
      BY <1>3, <1>4, <1>5, <3>1
  <2>2. pc'[j] \notin BeforeLists
    BY <1>4 DEF BeforeLists
  <2> SUFFICES ASSUME NEW k \in Jobs PROVE LoopOf(k)'
    BY DEF Loops
  <2>3. CASE k # j
    BY <1>0, <1>1, <1>4, <2>3 DEF Loops, LoopOf
  <2>4. CASE k = j
    BY <1>1, <1>3, <2>1, <2>2, <2>4 DEF LoopOf
  <2> QED
    BY <2>3, <2>4
<1>8. Watchers'
  <2> SUFFICES ASSUME NEW k \in Jobs, NEW i \in {1, 2} PROVE Watcher(k, i)'
    BY DEF Watchers
  <2>1. Watcher(k, i)
    BY <1>0 DEF Watchers
  <2>2. CASE k # j
    BY <1>1, <1>4, <2>1, <2>2, SameWatcher
  <2>3. CASE k = j
    <3>1. watch[<<k, i>>] = "none" /\ deleteChannels[<<k, i>>] # "true" /\ watched[<<k, i>>] = None
      BY <1>3, <2>1, <2>3 DEF Watcher
    <3> QED
      BY <1>1, <3>1 DEF Watcher
  <2> QED
    BY <2>2, <2>3
<1>9. ListedObjects'
  <2> SUFFICES ASSUME NEW k \in Jobs, NEW x \in listedObjects[k]
               PROVE  \E m \in DOMAIN serviceList'[k] : ListedAt(k, x, m)'
    BY <1>1 DEF ListedObjects
  <2>1. k # j
    BY <1>3
  <2>2. PICK m \in DOMAIN serviceList[k] : ListedAt(k, x, m)
    BY <1>0 DEF ListedObjects
  <2> QED
    BY <1>1, <1>4, <2>1, <2>2 DEF ListedAt, TurnOver
<1>10. NewIsMade' /\ TrueMeansGone'
  BY <1>0, <1>1, <1>4 DEF NewIsMade, TrueMeansGone, Gone, Jobs
<1>11. ServicesNeeded'
  <2>1. \A i \in DOMAIN q : q[i] \in needs
    BY <1>0, <1>2, <1>5 DEF ListsPresent, Present, ServicesNeeded
  <2> QED
    BY <1>0, <1>1, <1>4, <2>1 DEF ServicesNeeded
<1> QED
  BY <1>4, <1>6, <1>7, <1>8, <1>9, <1>10, <1>11 DEF IInv

\* A turn of the loop begins.
LEMMA SpawnWatchIInv ==
  ASSUME IInv, UNCHANGED needs, NEW j \in Jobs, SpawnWatch(j)
  PROVE  IInv'
<1> DEFINE x == <<j, at[j]>>
<1>0. /\ TypeOK /\ Loops /\ Watchers /\ ListedObjects /\ NewIsMade /\ TrueMeansGone
      /\ ServicesNeeded
      /\ pc \in [Jobs \cup {"reload"} -> PCs] /\ watch \in [Slots -> Watches]
      /\ at[j] \in {1, 2}
      /\ \A k \in Jobs, m \in {1, 2} : <<k, m>> \in Slots
  BY DEF IInv, TypeOK, Slots
<1>1. /\ pc[j] = "spawn" /\ pc' = [pc EXCEPT ![j] = "delete"]
      /\ watch' = [watch EXCEPT ![x] = "spawned"]
      /\ UNCHANGED <<svc, ingress, cache, serviceList, listedObjects, at, watched,
                     deleteChannels, finished, ingressListed, started>>
  BY DEF SpawnWatch, Goto, resources
<1>2. at[j] \in DOMAIN serviceList[j] /\ finished[j] # "true"
  BY <1>0, <1>1 DEF Loops, LoopOf, Loop, Answered, AfterSweep
<1>3. /\ pc' \in [Jobs \cup {"reload"} -> PCs] /\ InPlaces'
      /\ pc'[j] = "delete" /\ \A k \in Jobs : k # j => pc'[k] = pc[k]
  BY <1>0, <1>1 DEF IInv, InPlaces, StartPlaces, DeletePlaces, CleanPlaces, PCs, Jobs
<1>4. /\ watch' \in [Slots -> Watches] /\ watch'[x] = "spawned"
      /\ \A k \in Jobs, m \in {1, 2} : <<k, m>> # x => watch'[<<k, m>>] = watch[<<k, m>>]
  BY <1>0, <1>1 DEF Watches
<1>5. TypeOK'
  BY <1>0, <1>1, <1>3, <1>4 DEF TypeOK
<1>6. Loops'
  <2> SUFFICES ASSUME NEW k \in Jobs PROVE LoopOf(k)'
    BY DEF Loops
  <2>1. CASE k # j
    BY <1>1, <1>0, <1>3, <1>4, <2>1 DEF Loops, LoopOf
  <2>2. CASE k = j
    BY <1>1, <1>2, <1>3, <2>2 DEF BeforeLists, LoopOf
  <2> QED
    BY <2>1, <2>2
<1>7. Watchers'
  <2> SUFFICES ASSUME NEW k \in Jobs, NEW i \in {1, 2} PROVE Watcher(k, i)'
    BY DEF Watchers
  <2>1. Watcher(k, i)
    BY <1>0 DEF Watchers
  <2>2. CASE <<k, i>> # x
    BY <1>1, <1>3, <1>4, <2>1, <2>2 DEF Watcher
  <2>3. CASE <<k, i>> = x
    <3>1. k = j /\ i = at[j] /\ watch[<<k, i>>] = "none"
      BY <1>1, <2>1, <2>3 DEF Watcher
    <3>2. watched[<<k, i>>] = None /\ deleteChannels[<<k, i>>] # "true"
      BY <2>1, <3>1 DEF Watcher
    <3>3. watch'[<<k, i>>] = "spawned"
      BY <1>4, <2>3
    <3> QED
      BY <1>1, <1>2, <1>3, <3>1, <3>2, <3>3, <1>0 DEF Watcher
  <2> QED
    BY <2>2, <2>3
<1>8. ListedObjects'
  <2> SUFFICES ASSUME NEW k \in Jobs, NEW y \in listedObjects[k]
               PROVE  \E m \in DOMAIN serviceList[k] : ListedAt(k, y, m)'
    BY <1>1 DEF ListedObjects
  <2>1. PICK m \in DOMAIN serviceList[k] : ListedAt(k, y, m)
    BY <1>0 DEF ListedObjects
  <2>2. m \in {1, 2}
    BY <1>0, ListFacts DEF TypeOK
  <2>3. TurnOver(k, m)' <=> TurnOver(k, m)
    BY <1>1, <1>3 DEF TurnOver, AfterLoop, Loop
  <2>4. watch[<<k, m>>] # "none" => watch'[<<k, m>>] # "none"
    BY <1>4, <2>2
  <2>5. pc'[k] = "delete" /\ m = at[k] => watch'[<<k, m>>] # "none"
    BY <1>3, <1>4, <2>1, <2>3, <2>4 DEF ListedAt
  <2> QED
    BY <1>1, <1>3, <2>1, <2>3, <2>4, <2>5 DEF ListedAt
<1>9. NewIsMade'
  <2>1. \A s \in Services : pc["start"] \in Past(s) => pc'["start"] \in Past(s)
    BY <1>1, <1>3 DEF Past, Jobs
  <2> QED
    BY <1>0, <1>1, <2>1 DEF NewIsMade
<1>10. TrueMeansGone' /\ ServicesNeeded'
  BY <1>0, <1>1 DEF TrueMeansGone, Gone, ServicesNeeded
<1> QED
  BY <1>3, <1>5, <1>6, <1>7, <1>8, <1>9, <1>10 DEF IInv

\* clean_all_unused has found no pod of the service: it is listed with what is there.
LEMMA CheckServiceIInv ==
  ASSUME IInv, UNCHANGED needs, NEW j \in Jobs, CheckService(j)
  PROVE  IInv'
<1> DEFINE s == serviceList[j][at[j]]
<1>0. /\ TypeOK /\ Loops /\ Watchers /\ ListedObjects /\ NewIsMade /\ TrueMeansGone
      /\ ServicesNeeded
      /\ pc \in [Jobs \cup {"reload"} -> PCs] /\ svc \in [Services -> Objects]
      /\ listedObjects \in [Jobs -> SUBSET (Services \X {"old", "new"})]
      /\ serviceList[j] \in Lists
      /\ None # "old" /\ None # "new"
  BY PodJobsAssumption DEF IInv, TypeOK
<1>1. pc[j] = "check" /\ j = "clean"
  BY DEF CheckService, NextTurn, Goto, IInv, InPlaces, StartPlaces, DeletePlaces, Jobs
<1>2. CASE PodExists /\ NextTurn(j, "check") /\ UNCHANGED listedObjects
  <2>1. UNCHANGED <<svc, ingress, cache, serviceList, watch, watched, deleteChannels, finished,
                    ingressListed, started>>
    BY DEF CheckService, resources
  <2> QED
    BY <1>1, <1>2, <2>1, TurnIIinv
<1>3. CASE ~(PodExists /\ NextTurn(j, "check") /\ UNCHANGED listedObjects)
  <2>1. /\ ~PodExists /\ pc' = [pc EXCEPT ![j] = "spawn"]
        /\ listedObjects' = [listedObjects EXCEPT ![j] =
                                IF Present(s) THEN @ \cup {<<s, svc[s]>>} ELSE @]
        /\ UNCHANGED <<svc, ingress, cache, serviceList, at, watch, watched, deleteChannels,
                       finished, ingressListed, started>>
    BY <1>3 DEF CheckService, Goto, resources
  <2>2. at[j] \in DOMAIN serviceList[j] /\ s \in Services
    BY <1>0, <1>1, ListFacts DEF Loops, LoopOf, Loop
  <2>3. /\ pc' \in [Jobs \cup {"reload"} -> PCs] /\ InPlaces'
        /\ pc'[j] = "spawn" /\ \A k \in Jobs : k # j => pc'[k] = pc[k]
    BY <1>0, <1>1, <2>1 DEF IInv, InPlaces, CleanPlaces, PCs, Jobs
  <2>4. svc[s] # "new"
    BY <1>0, <2>1, <2>2 DEF NewIsMade, Past, PodExists, NotBegun
  <2>5. /\ \A k \in Jobs : k # j => listedObjects'[k] = listedObjects[k]
        /\ \A x \in listedObjects'[j] :
              x \in listedObjects[j] \/ (x = <<s, "old">> /\ svc[s] = "old")
    BY <1>0, <2>1, <2>2, <2>4 DEF Present, Objects
  <2>6. listedObjects' \in [Jobs -> SUBSET (Services \X {"old", "new"})]
    <3>1. Present(s) => <<s, svc[s]>> \in Services \X {"old", "new"}
      BY <1>0, <2>2 DEF Present, Objects
    <3> QED
      BY <1>0, <2>1, <3>1
  <2>7. TypeOK'
    BY <1>0, <2>1, <2>3, <2>6 DEF TypeOK
  <2>8. Loops'
    <3> SUFFICES ASSUME NEW k \in Jobs PROVE LoopOf(k)'
      BY DEF Loops
    <3>1. CASE k # j
      BY <1>0, <2>1, <2>3, <2>5, <3>1 DEF Loops, LoopOf
    <3>2. CASE k = j
      <4>1. finished[j] # "true"
        BY <1>0, <1>1 DEF Loops, LoopOf, Answered, AfterSweep
      <4> QED
        BY <2>1, <2>2, <2>3, <3>2, <4>1 DEF LoopOf, BeforeLists
    <3> QED
      BY <3>1, <3>2
  <2>9. Watchers'
    <3> SUFFICES ASSUME NEW k \in Jobs, NEW i \in {1, 2} PROVE Watcher(k, i)'
      BY DEF Watchers
    <3>1. Watcher(k, i)
      BY <1>0 DEF Watchers
    <3>2. pc'[k] \in {"check", "spawn"} => pc[k] \in {"check", "spawn"}
      BY <1>1, <2>3
    <3> QED
      BY <2>1, <3>1, <3>2 DEF Watcher
  <2>10. ListedObjects'
    <3> SUFFICES ASSUME NEW k \in Jobs, NEW x \in listedObjects'[k]
                 PROVE  \E m \in DOMAIN serviceList[k] : ListedAt(k, x, m)'
      BY <2>1 DEF ListedObjects
    <3>1. CASE x \in listedObjects[k]
      <4>1. PICK m \in DOMAIN serviceList[k] : ListedAt(k, x, m)
        BY <1>0, <3>1 DEF ListedObjects
      <4>2. TurnOver(k, m)' <=> TurnOver(k, m)
        BY <1>1, <2>1, <2>3 DEF TurnOver, AfterLoop, Loop
      <4>3. pc'[k] = "delete" => pc[k] = "delete"
        BY <2>3
      <4>4. k = "clean" => m < at[k] \/ (m = at[k] /\ pc'[k] # "check")
        BY <1>1, <4>1 DEF ListedAt
      <4> QED
        BY <2>1, <4>1, <4>2, <4>3, <4>4 DEF ListedAt
    <3>2. CASE x \notin listedObjects[k]
      <4>1. k = j /\ x = <<s, "old">>
        BY <2>5, <3>2
      <4>2. ~TurnOver(j, at[j])'
        <5>1. at[j] \in {1, 2}
          BY <1>0 DEF TypeOK
        <5> QED
          BY <2>1, <2>3, <5>1 DEF TurnOver, AfterLoop, Loop
      <4> QED
        BY <2>1, <2>2, <2>3, <4>1, <4>2 DEF ListedAt
    <3> QED
      BY <3>1, <3>2
  <2>11. NewIsMade'
    <3>1. \A u \in Services, k \in Jobs :
            <<u, "new">> \in listedObjects'[k] => <<u, "new">> \in listedObjects[k]
      BY <2>5
    <3>2. pc'["start"] = pc["start"]
      BY <1>1, <2>3 DEF Jobs
    <3> QED
      BY <1>0, <2>1, <3>1, <3>2 DEF NewIsMade
  <2>12. TrueMeansGone'
    <3>1. \A u, k : k \in Jobs /\ <<u, "new">> \in listedObjects'[k] =>
                      <<u, "new">> \in listedObjects[k]
      BY <2>5
    <3> QED
      BY <1>0, <2>1, <3>1 DEF TrueMeansGone, Gone
  <2>13. ServicesNeeded'
    BY <1>0, <2>1 DEF ServicesNeeded
  <2> QED
    BY <2>3, <2>7, <2>8, <2>9, <2>10, <2>11, <2>12, <2>13 DEF IInv
<1> QED
  BY <1>2, <1>3

\* The outcomes are combined.
LEMMA CombineFacts ==
  ASSUME IInv, NEW j \in Jobs, Combine(j)
  PROVE  /\ pc[j] = "combine" /\ pc'[j] \in {"await", "listIngress", "done"}
         /\ pc' \in [Jobs \cup {"reload"} -> PCs] /\ InPlaces'
         /\ \A k \in Jobs : Onward(pc[k], pc'[k]) /\ (k # j => pc'[k] = pc[k])
         /\ UNCHANGED <<svc, ingress, cache, serviceList, listedObjects, at, watch, watched,
                        deleteChannels, ingressListed, started>>
         /\ finished' \in [Jobs -> Cells]
         /\ \A k \in Jobs : k # j => finished'[k] = finished[k]
         /\ finished'[j] = "true" =>
               \A x \in Slots : x[1] = j /\ watch[x] # "none" => deleteChannels[x] = "true"
<1> DEFINE outcomes == {deleteChannels[x] : x \in {y \in Slots : y[1] = j /\ watch[y] # "none"}}
           v == IF "false" \in outcomes THEN "false" ELSE "true"
<1>0. /\ pc \in [Jobs \cup {"reload"} -> PCs] /\ finished \in [Jobs -> Cells]
      /\ deleteChannels \in [Slots -> Cells] /\ v \in Values
  BY DEF IInv, TypeOK, Values
<1>1. /\ Goto(j, "combine", AfterServices(j)) /\ NoValue \notin outcomes
      /\ finished' = Sent(finished, {j}, v)
      /\ UNCHANGED <<svc, ingress, cache, serviceList, listedObjects, at, watch, watched,
                     deleteChannels, ingressListed, started>>
  BY DEF Combine, resources
<1>2. /\ AfterServices(j) \in {"await", "listIngress", "done"} /\ AfterServices(j) \in PCs
      /\ Onward("combine", AfterServices(j))
      /\ j = "start" => AfterServices(j) \in StartPlaces
      /\ j = "delete" => AfterServices(j) \in DeletePlaces
      /\ j = "clean" => AfterServices(j) \in CleanPlaces
  BY OnwardPlaces DEF AfterServices, StartPlaces, DeletePlaces, CleanPlaces, PCs, Jobs
<1>3. /\ pc' \in [Jobs \cup {"reload"} -> PCs] /\ InPlaces'
      /\ \A k \in Jobs : Onward(pc[k], pc'[k])
  BY <1>1, <1>2, GotoPlaces
<1>4. /\ pc[j] = "combine" /\ pc'[j] = AfterServices(j)
      /\ \A k \in Jobs : k # j => pc'[k] = pc[k]
  BY <1>0, <1>1 DEF Goto
<1>5. /\ finished' \in [Jobs -> Cells] /\ \A k \in Jobs : k # j => finished'[k] = finished[k]
      /\ finished'[j] = "true" => finished[j] = "true" \/ v = "true"
  BY <1>0, <1>1, SentCells
<1>6. finished[j] # "true"
  BY <1>4 DEF IInv, Loops, LoopOf, Answered, AfterSweep
<1>7. v = "true" => \A x \in Slots : x[1] = j /\ watch[x] # "none" => deleteChannels[x] = "true"
  <2> SUFFICES ASSUME v = "true", NEW x \in Slots, x[1] = j, watch[x] # "none"
               PROVE  deleteChannels[x] = "true"
    OBVIOUS
  <2>1. deleteChannels[x] \in outcomes /\ "false" \notin outcomes
    OBVIOUS
  <2> QED
    BY <1>0, <1>1, <2>1 DEF Cells, Values
<1> QED
  BY <1>1, <1>2, <1>3, <1>4, <1>5, <1>6, <1>7

LEMMA CombineIInv ==
  ASSUME IInv, UNCHANGED needs, NEW j \in Jobs, Combine(j) PROVE IInv'
<1>1. TypeOK'
  BY CombineFacts DEF IInv, TypeOK
<1>2. \A k \in Jobs : finished'[k] = "true" => finished[k] = "true" \/ pc'[k] \in Answered
  BY CombineFacts DEF Answered, AfterSweep
<1> QED
  BY <1>1, <1>2, CombineFacts, QuietIInv

\* A service of the new pod is made, for the first and the last time.
LEMMA MakeServiceIInv ==
  ASSUME IInv, NEW s \in Services, s \in needs, svc[s] = None,
         svc' = [svc EXCEPT ![s] = "new"], pc["start"] \notin Past(s),
         pc["start"] \in AfterLoop, pc'["start"] \in Past(s),
         pc' \in [Jobs \cup {"reload"} -> PCs], InPlaces',
         \A k \in Jobs : Onward(pc[k], pc'[k]) /\ (k # "start" => pc'[k] = pc[k]),
         UNCHANGED <<needs, ingress, cache, sweeping, ingressListed, started>>
  PROVE  IInv'
<1>0. /\ TypeOK /\ Loops /\ Watchers /\ ListedObjects /\ NewIsMade /\ TrueMeansGone
      /\ ServicesNeeded
      /\ svc \in [Services -> Objects] /\ "start" \in Jobs
      /\ listedObjects \in [Jobs -> SUBSET (Services \X {"old", "new"})]
      /\ UNCHANGED <<serviceList, listedObjects, at, watch, watched, deleteChannels, finished>>
      /\ None # "new" /\ None # "old"
  BY PodJobsAssumption DEF IInv, TypeOK, Jobs, sweeping
<1>1. \A j \in Jobs : <<s, "new">> \notin listedObjects[j]
  BY <1>0 DEF NewIsMade
<1>2. /\ svc' \in [Services -> Objects] /\ svc'[s] = "new"
      /\ \A u \in Services : u # s => svc'[u] = svc[u]
  BY <1>0 DEF Objects
<1>3. TypeOK'
  BY <1>0, <1>2 DEF TypeOK
<1>4. Loops'
  <2> SUFFICES ASSUME NEW j \in Jobs PROVE LoopOf(j)'
    BY DEF Loops
  <2>1. LoopOf(j) /\ Onward(pc[j], pc'[j])
    BY <1>0 DEF Loops
  <2> QED
    BY <1>0, <2>1 DEF LoopOf, Onward
<1>5. Watchers'
  <2> SUFFICES ASSUME NEW j \in Jobs, NEW i \in {1, 2} PROVE Watcher(j, i)'
    BY DEF Watchers
  <2>1. Watcher(j, i)
    BY <1>0 DEF Watchers
  <2>2. pc'[j] \in {"check", "spawn"} => pc[j] \in {"check", "spawn"}
    BY DEF Onward, Loop
  <2> QED
    BY <1>0, <2>1, <2>2 DEF Watcher
<1>6. ListedObjects'
  <2> SUFFICES ASSUME NEW j \in Jobs, NEW x \in listedObjects[j]
               PROVE  \E k \in DOMAIN serviceList[j] : ListedAt(j, x, k)'
    BY <1>0 DEF ListedObjects
  <2>1. PICK k \in DOMAIN serviceList[j] : ListedAt(j, x, k)
    BY <1>0 DEF ListedObjects
  <2>2. x[1] \in Services /\ x[2] \in {"old", "new"} /\ x = <<x[1], x[2]>>
    BY <1>0
  <2>3. svc[x[1]] # x[2] => svc'[x[1]] # x[2]
    BY <1>1, <1>2, <2>2
  <2>4. TurnOver(j, k)' => TurnOver(j, k)
    BY <1>0 DEF TurnOver
  <2>5. /\ pc'[j] = "check" => pc[j] = "check"
        /\ pc'[j] = "delete" => pc[j] = "delete"
    BY DEF Onward, Loop
  <2> QED
    BY <1>0, <2>1, <2>3, <2>4, <2>5 DEF ListedAt
<1>7. NewIsMade'
  <2>1. \A u \in Services : pc["start"] \in Past(u) => pc'["start"] \in Past(u)
    BY <1>0 DEF Onward
  <2> QED
    BY <1>0, <1>2, <2>1 DEF NewIsMade
<1>8. TrueMeansGone'
  <2> SUFFICES ASSUME NEW j \in Jobs, NEW i \in {1, 2}, deleteChannels[<<j, i>>] = "true"
               PROVE  Gone(j, watched[<<j, i>>])'
    BY <1>0 DEF TrueMeansGone
  <2>1. Gone(j, watched[<<j, i>>]) /\ watched[<<j, i>>] \in Services
    BY <1>0 DEF TrueMeansGone, Watchers, Watcher
  <2> QED
    BY <1>0, <1>1, <1>2, <2>1 DEF Gone
<1>9. ServicesNeeded'
  BY <1>0, <1>2 DEF ServicesNeeded
<1> QED
  BY <1>3, <1>4, <1>5, <1>6, <1>7, <1>8, <1>9 DEF IInv

LEMMA StartServiceIInv ==
  ASSUME IInv, UNCHANGED needs, NEW j \in Jobs, StartSshService(j) \/ CreateHttpService(j)
  PROVE  IInv'
<1>0. /\ pc \in [Jobs \cup {"reload"} -> PCs] /\ InPlaces /\ TypeOK
      /\ "ssh" \in Services /\ "http" \in Services
  BY DEF IInv, TypeOK, Services
<1>1. PICK p \in {"ssh", "http"}, q \in {"http", "ingress", "cache"} :
        Goto(j, p, q) /\ Onward(p, q)
  BY OnwardPlaces DEF StartSshService, CreateHttpService
<1>2. j = "start"
  BY <1>0, <1>1 DEF Goto, InPlaces, DeletePlaces, CleanPlaces, Jobs
<1>3. /\ pc' \in [Jobs \cup {"reload"} -> PCs] /\ InPlaces'
      /\ \A k \in Jobs : Onward(pc[k], pc'[k])
  <2>1. q \in PCs /\ q \in StartPlaces
    BY DEF PCs, StartPlaces
  <2> QED
    BY <1>1, <1>2, <2>1, GotoPlaces
<1>4. pc["start"] = p /\ pc'["start"] = q /\ \A k \in Jobs : k # "start" => pc'[k] = pc[k]
  BY <1>0, <1>1, <1>2 DEF Goto
<1>5. UNCHANGED <<ingress, cache, sweeping, ingressListed, started>>
  BY DEF StartSshService, CreateHttpService
<1>6. CASE UNCHANGED svc
  <2>1. Quietly
    BY <1>0, <1>3, <1>5, <1>6 DEF Quietly, TypeOK, sweeping
  <2> QED
    BY <2>1, QuietlyIInv
<1>7. CASE svc["ssh"] = None /\ svc' = [svc EXCEPT !["ssh"] = "new"] /\ NeedsSsh
           /\ pc["start"] = "ssh" /\ pc'["start"] = "http"
  BY <1>0, <1>3, <1>4, <1>5, <1>7, MakeServiceIInv
     DEF NeedsSsh, Past, AfterLoop, PCs, Loop, BeforeLists
<1>8. CASE svc["http"] = None /\ svc' = [svc EXCEPT !["http"] = "new"] /\ NeedsIngress
           /\ pc["start"] = "http" /\ pc'["start"] = "ingress"
  BY <1>0, <1>3, <1>4, <1>5, <1>8, MakeServiceIInv
     DEF NeedsIngress, Past, AfterLoop, PCs, Loop, BeforeLists
<1>9. CASE StartSshService(j)
  <2>1. pc["start"] = "ssh" /\ pc'["start"] = "http"
    BY <1>0, <1>2, <1>9 DEF StartSshService, Goto
  <2> QED
    BY <1>6, <1>7, <1>9, <2>1 DEF StartSshService
<1>10. CASE CreateHttpService(j) /\ ~UNCHANGED svc
  <2>1. pc["start"] = "http" /\ pc'["start"] = "ingress"
    BY <1>0, <1>2, <1>10 DEF CreateHttpService, Goto
  <2> QED
    BY <1>8, <1>10, <2>1 DEF CreateHttpService
<1> QED
  BY <1>6, <1>9, <1>10

LEMMA InitialSweep ==
  /\ NoSweep.serviceList = [j \in Jobs |-> <<>>]
  /\ NoSweep.listedObjects = [j \in Jobs |-> {}]
  /\ NoSweep.at = [j \in Jobs |-> 1]
  /\ NoSweep.watch = [x \in Slots |-> "none"]
  /\ NoSweep.watched = [x \in Slots |-> None]
  /\ NoSweep.deleteChannels = [x \in Slots |-> NoValue]
  /\ NoSweep.finished = [j \in Jobs |-> NoValue]
  BY DEF NoSweep

\* Nothing has been swept, whatever there is.
NothingSwept ==
    /\ serviceList = NoSweep.serviceList /\ listedObjects = NoSweep.listedObjects
    /\ at = NoSweep.at /\ watch = NoSweep.watch /\ watched = NoSweep.watched
    /\ deleteChannels = NoSweep.deleteChannels /\ finished = NoSweep.finished
    /\ needs \in PodNeeds /\ svc \in [Services -> Objects] /\ ingress \in Objects
    /\ cache \in Objects \cup {"empty"} /\ started \in Cells
    /\ ingressListed \in [Jobs -> BOOLEAN]
    /\ pc \in [Jobs \cup {"reload"} -> PCs] /\ InPlaces
    /\ \A j \in Jobs : pc[j] \notin Loop
    /\ \A s \in Services : svc[s] = "new" => pc["start"] \in Past(s)
    /\ \A s \in Services : svc[s] # None => s \in needs

LEMMA NothingSweptIInv == NothingSwept => IInv
<1> SUFFICES ASSUME NothingSwept PROVE IInv
  OBVIOUS
<1>1. /\ serviceList = [j \in Jobs |-> <<>>]
      /\ listedObjects = [j \in Jobs |-> {}]
      /\ at = [j \in Jobs |-> 1]
      /\ watch = [x \in Slots |-> "none"]
      /\ watched = [x \in Slots |-> None]
      /\ deleteChannels = [x \in Slots |-> NoValue]
      /\ finished = [j \in Jobs |-> NoValue]
  BY InitialSweep DEF NothingSwept
<1>2. /\ <<>> \in Lists /\ NoValue \in Cells /\ NoValue # "true" /\ "none" \in Watches
      /\ DOMAIN <<>> = {}
      /\ \A j \in Jobs, i \in {1, 2} : <<j, i>> \in Slots
  BY DEF Lists, Cells, NoValue, Watches, Slots
<1>3. TypeOK
  <2>1. /\ serviceList \in [Jobs -> Lists]
        /\ listedObjects \in [Jobs -> SUBSET (Services \X {"old", "new"})]
        /\ at \in [Jobs -> {1, 2}] /\ \A j \in Jobs : at[j] = 1
    BY <1>1, <1>2
  <2>2. /\ watch \in [Slots -> Watches] /\ watched \in [Slots -> Services \cup {None}]
        /\ deleteChannels \in [Slots -> Cells] /\ finished \in [Jobs -> Cells]
    BY <1>1, <1>2
  <2> QED
    BY <2>1, <2>2 DEF TypeOK, NothingSwept
<1>4. Loops
  BY <1>1, <1>2 DEF Loops, LoopOf, NothingSwept
<1>5. Watchers
  <2> SUFFICES ASSUME NEW j \in Jobs, NEW i \in {1, 2} PROVE Watcher(j, i)
    BY DEF Watchers
  <2>1. watch[<<j, i>>] = "none" /\ watched[<<j, i>>] = None /\ deleteChannels[<<j, i>>] # "true"
    BY <1>1, <1>2
  <2> QED
    BY <2>1 DEF Watcher
<1>6. ListedObjects /\ NewIsMade
  BY <1>1 DEF ListedObjects, NewIsMade, NothingSwept
<1>7. TrueMeansGone
  BY <1>1, <1>2 DEF TrueMeansGone
<1>8. ServicesNeeded
  BY <1>1, <1>2 DEF ServicesNeeded, NothingSwept
<1> QED
  BY <1>3, <1>4, <1>5, <1>6, <1>7, <1>8 DEF IInv, NothingSwept

LEMMA InitIInv == Init => IInv
<1> SUFFICES ASSUME Init PROVE IInv
  OBVIOUS
<1>1. PICK js \in JobSets :
        pc = [j \in Jobs \cup {"reload"} |-> IF j \in js THEN "idle" ELSE "none"]
  BY DEF Init
<1>2. /\ pc \in [Jobs \cup {"reload"} -> PCs]
      /\ \A j \in Jobs \cup {"reload"} : pc[j] \in {"none", "idle"}
  BY <1>1 DEF PCs
<1>3. InPlaces
  BY <1>2 DEF InPlaces, StartPlaces, DeletePlaces, CleanPlaces, Jobs
<1>4. /\ svc \in [Services -> Objects] /\ \A s \in Services : svc[s] # "new"
      /\ \A s \in Services : svc[s] # None => s \in needs
      /\ ingress \in Objects /\ cache \in Objects \cup {"empty"} /\ started \in Cells
      /\ ingressListed \in [Jobs -> BOOLEAN]
  BY PodJobsAssumption DEF Init, Objects, Cells
<1>5. \A j \in Jobs : pc[j] \notin Loop
  BY <1>2 DEF Loop
<1> QED
  BY <1>2, <1>3, <1>4, <1>5, NothingSweptIInv DEF Init, NothingSwept

\* After a restart the services are as they were, and the jobs are gone.
LEMMA RestartPlaces ==
  ASSUME IInv, Restart
  PROVE  /\ pc' \in [Jobs \cup {"reload"} -> PCs] /\ InPlaces'
         /\ \A j \in Jobs : pc'[j] = IF pc[j] \in NotBegun THEN pc[j] ELSE "done"
<1>1. pc \in [Jobs \cup {"reload"} -> PCs] /\ InPlaces
  BY DEF IInv, TypeOK
<1>2. pc' = [j \in DOMAIN pc |-> IF j = "reload" THEN "reload"
                                ELSE IF pc[j] \in NotBegun THEN pc[j] ELSE "done"]
  BY DEF Restart
<1>3. /\ pc'["reload"] = "reload" /\ "reload" \notin Jobs
      /\ \A j \in Jobs : pc'[j] = IF pc[j] \in NotBegun THEN pc[j] ELSE "done"
  BY <1>1, <1>2 DEF Jobs
<1>4. pc' \in [Jobs \cup {"reload"} -> PCs]
  BY <1>1, <1>2 DEF PCs
<1>5. InPlaces'
  BY <1>1, <1>3 DEF InPlaces, StartPlaces, DeletePlaces, CleanPlaces, Jobs
<1> QED
  BY <1>3, <1>4, <1>5

LEMMA RestartIInv == ASSUME IInv, UNCHANGED needs, Restart PROVE IInv'
<1>1. /\ needs' \in PodNeeds /\ svc' \in [Services -> Objects] /\ ingress' \in Objects
      /\ cache' \in Objects \cup {"empty"} /\ started' \in Cells
      /\ ingressListed' \in [Jobs -> BOOLEAN]
      /\ \A s \in Services : svc'[s] # None => s \in needs'
  BY DEF Restart, resources, IInv, TypeOK, ServicesNeeded, Cells
<1>2. /\ pc' \in [Jobs \cup {"reload"} -> PCs] /\ InPlaces'
      /\ \A j \in Jobs : pc'[j] = IF pc[j] \in NotBegun THEN pc[j] ELSE "done"
  BY RestartPlaces
<1>3. \A j \in Jobs : pc'[j] \notin Loop
  BY <1>2 DEF NotBegun, Loop
<1>4. \A s \in Services : svc'[s] = "new" => pc'["start"] \in Past(s)
  BY <1>2 DEF Restart, resources, IInv, NewIsMade, Past, NotBegun, Jobs
<1>5. /\ serviceList' = NoSweep.serviceList /\ listedObjects' = NoSweep.listedObjects
      /\ at' = NoSweep.at /\ watch' = NoSweep.watch /\ watched' = NoSweep.watched
      /\ deleteChannels' = NoSweep.deleteChannels /\ finished' = NoSweep.finished
  BY DEF Restart
<1>6. NothingSwept'
  BY <1>1, <1>2, <1>3, <1>4, <1>5 DEF NothingSwept
<1>7. (NothingSwept => IInv)'
  BY NothingSweptIInv, PTL
<1> QED
  BY <1>6, <1>7

\* The end of a turn of the loop.
Turn(j) == DeleteService(j) \/ DeleteServiceFails(j)

LEMMA StepKinds ==
  ASSUME [Next]_vars
  PROVE  /\ UNCHANGED needs
         /\ \/ UNCHANGED vars \/ StartedTimeout \/ ReloadPodCaches \/ Restart
            \/ \E j \in Jobs : \E i \in {1, 2} : WatchStep(j, i)
            \/ \E j \in Jobs :
                  \/ QuietStep(j) \/ Turn(j) \/ ListServices(j) \/ ListAllServices(j)
                  \/ SpawnWatch(j) \/ CheckService(j) \/ Combine(j)
                  \/ StartSshService(j) \/ CreateHttpService(j)
<1>1. UNCHANGED vars \/ Next
  OBVIOUS
<1>2. ASSUME NEW x \in Slots, WatchStep(x[1], x[2])
      PROVE  \E j \in Jobs : \E i \in {1, 2} : WatchStep(j, i)
  BY <1>2 DEF Slots
<1> QED
  BY <1>1, <1>2 DEF Next, JobStep, QuietStep, Turn, vars

LEMMA DeleteTurn ==
  ASSUME NEW j, Turn(j)
  PROVE  /\ NextTurn(j, "delete")
         /\ UNCHANGED <<ingress, cache, serviceList, listedObjects, watch, watched, finished,
                        ingressListed, started>>
         /\ \/ /\ svc' = [svc EXCEPT ![serviceList[j][at[j]]] = None]
               /\ deleteChannels' =
                     IF Present(serviceList[j][at[j]])
                     THEN Sent(deleteChannels, WatchersOf(serviceList[j][at[j]]), "true")
                     ELSE deleteChannels
            \/ UNCHANGED <<svc, deleteChannels>> /\ ApiMayFail
  BY DEF Turn, DeleteService, DeleteServiceFails, NextService, resources

LEMMA NextIInv == IInv /\ [Next]_vars => IInv'
<1> SUFFICES ASSUME IInv, [Next]_vars PROVE IInv'
  OBVIOUS
<1>0. UNCHANGED needs
  BY StepKinds
<1>1. CASE UNCHANGED vars
  <2>1. Quietly
    BY <1>1 DEF vars, acting, resources, sweeping, Quietly, IInv, TypeOK, InPlaces, Onward
  <2> QED
    BY <2>1, QuietlyIInv
<1>2. CASE StartedTimeout \/ ReloadPodCaches
  BY <1>0, <1>2, QuietOtherSteps, QuietlyIInv
<1>3. CASE Restart
  BY <1>0, <1>3, RestartIInv
<1>4. ASSUME NEW j \in Jobs, NEW i \in {1, 2}, WatchStep(j, i) PROVE IInv'
  BY <1>0, <1>4, WatchStepsIInv
<1>5. ASSUME NEW j \in Jobs, QuietStep(j) PROVE IInv'
  <2>1. Quietly
    BY <1>0, <1>5, QuietSteps
  <2> QED
    BY <2>1, QuietlyIInv
<1>6. ASSUME NEW j \in Jobs, Turn(j) PROVE IInv'
  BY <1>0, <1>6, DeleteTurn, TurnIIinv
<1>7. ASSUME NEW j \in Jobs, ListServices(j) \/ ListAllServices(j) PROVE IInv'
  BY <1>0, <1>7, ListServicesIInv, ListAllServicesIInv
<1>8. ASSUME NEW j \in Jobs, SpawnWatch(j) \/ CheckService(j) \/ Combine(j) PROVE IInv'
  BY <1>0, <1>8, SpawnWatchIInv, CheckServiceIInv, CombineIInv
<1>9. ASSUME NEW j \in Jobs, StartSshService(j) \/ CreateHttpService(j) PROVE IInv'
  BY <1>0, <1>9, StartServiceIInv
<1> QED
  BY <1>1, <1>2, <1>3, <1>4, <1>5, <1>6, <1>7, <1>8, <1>9, StepKinds

LEMMA JobsInvariant == Spec => []IInv
<1>1. Init => IInv
  BY InitIInv
<1> QED
  BY <1>1, NextIInv, PTL DEF Spec

\* The loop variables of the jobs stay in their lists, and everything else of the
\* jobs is well typed.
THEOREM TypeCorrect == Spec => []TypeOK
<1>1. IInv => TypeOK
  BY DEF IInv
<1> QED
  BY <1>1, JobsInvariant, PTL

-------------------------------------------------------------------------------
(***************************************************************************)
(* What success means.                                                     *)
(***************************************************************************)
StartSweep == {"spawn", "delete", "combine", "await"}
CleanSweep == {"readdir", "checkCache", "unlink", "combine"}

\* Where the start jobs and clean_all_unused go, and what they do there to the
\* caches and to what they tell.
Moves ==
    /\ pc'["start"] \in StartSweep => pc["start"] \in StartSweep \/ ListServices("start")
    /\ pc'["start"] \in AfterSweep =>
          pc["start"] \in AfterSweep \/ (pc["start"] = "await" /\ finished["start"] = "true")
    /\ started' = "true" => started = "true" \/ pc["start"] = "cache"
    /\ PodExists => PodExists'
    /\ ~PodExists' => cache' \in {cache, None}
    /\ pc'["clean"] = "combine" /\ ~PodExists' => pc["clean"] = "combine" \/ cache' = None

LEMMA SamePlaces ==
  ASSUME UNCHANGED <<pc, cache, started>> PROVE Moves
  BY DEF Moves, PodExists

LEMMA QuietMoves ==
  ASSUME IInv, NEW j \in Jobs, QuietStep(j)
  PROVE  Moves
<1>0. pc \in [Jobs \cup {"reload"} -> PCs] /\ InPlaces
  BY DEF IInv, TypeOK
<1>1. CASE \/ Begin(j) \/ RemoveCache(j) \/ ListServicesFails(j)
  BY <1>0, <1>1
     DEF Begin, RemoveCache, ListServicesFails, Goto, resources, InPlaces, StartPlaces,
         DeletePlaces, CleanPlaces, Jobs, Moves, StartSweep, AfterSweep, PodExists, NotBegun
<1>2. CASE \/ ListIngresses(j) \/ DeleteIngress(j) \/ IngressesFail(j)
  BY <1>0, <1>2
     DEF ListIngresses, DeleteIngress, IngressesFail, AfterIngresses, Goto, resources, InPlaces,
         StartPlaces, DeletePlaces, CleanPlaces, Jobs, Moves, StartSweep, AfterSweep, PodExists,
         NotBegun
<1>3. CASE \/ OrphansSwept(j) \/ OrphansLeft(j)
           \/ StartSshServiceFails(j) \/ CreateHttpServiceFails(j)
           \/ CreateIngress(j) \/ CreateIngressFails(j)
  BY <1>0, <1>3
     DEF OrphansSwept, OrphansLeft, StartSshServiceFails, CreateHttpServiceFails, CreateIngress,
         CreateIngressFails, SendStarted, Goto, resources, InPlaces, StartPlaces, DeletePlaces,
         CleanPlaces, Jobs, Moves, StartSweep, AfterSweep, PodExists, NotBegun
<1>4. CASE SaveCache(j) \/ SaveCacheFails(j)
  BY <1>0, <1>4
     DEF SaveCache, SaveCacheFails, SendStarted, Goto, resources, InPlaces, StartPlaces,
         DeletePlaces, CleanPlaces, Jobs, Moves, StartSweep, AfterSweep, PodExists, NotBegun
<1>5. CASE \/ Readdirnames(j) \/ CheckCache(j) \/ RemoveOrphanedCache(j) \/ CleanFails(j)
           \/ Answer(j)
  <2>1. j = "clean"
    BY <1>0, <1>5 DEF Readdirnames, CheckCache, RemoveOrphanedCache, CleanFails, Answer, Goto,
                      InPlaces, StartPlaces, DeletePlaces, Jobs
  <2>2. pc'["start"] = pc["start"] /\ UNCHANGED started
    <3>1. \E p, q : Goto(j, p, q)
      BY <1>5 DEF Readdirnames, CheckCache, RemoveOrphanedCache, CleanFails, Answer
    <3>2. UNCHANGED started
      BY <1>5 DEF Readdirnames, CheckCache, RemoveOrphanedCache, CleanFails, Answer
    <3> QED
      BY <1>0, <2>1, <3>1, <3>2 DEF Goto, Jobs
  <2>3. cache' \in {cache, None}
    BY <1>5 DEF Readdirnames, CheckCache, RemoveOrphanedCache, CleanFails, Answer, resources
  <2>4. pc'["clean"] = "combine" => cache' = None \/ PodExists
    BY <1>0, <1>5, <2>1 DEF Readdirnames, CheckCache, RemoveOrphanedCache, CleanFails, Answer,
                            Goto, resources
  <2> QED
    BY <2>2, <2>3, <2>4 DEF Moves, PodExists
<1>6. CASE FinishedTimeout(j)
  BY <1>6, SamePlaces DEF FinishedTimeout, resources
<1> QED
  BY <1>1, <1>2, <1>3, <1>4, <1>5, <1>6 DEF QuietStep

\* The steps of the sweep itself.
LEMMA SweepMoves ==
  ASSUME IInv, NEW j \in Jobs,
         \/ Turn(j) \/ ListServices(j) \/ ListAllServices(j) \/ SpawnWatch(j) \/ CheckService(j)
         \/ Combine(j)
  PROVE  Moves
<1>0. pc \in [Jobs \cup {"reload"} -> PCs] /\ InPlaces
  BY DEF IInv, TypeOK
<1>1. UNCHANGED <<cache, started>>
  BY DEF Turn, DeleteService, DeleteServiceFails, ListServices, ListAllServices, SpawnWatch,
         CheckService, Combine, resources
<1>2. PICK p \in {"list", "spawn", "delete", "check", "combine"},
           q \in {"spawn", "delete", "check", "combine", "await", "listIngress", "readdir", "done"} :
        /\ Goto(j, p, q)
        /\ j = "start" => p # "check" /\ q \in {"spawn", "delete", "combine", "await"}
        /\ j = "start" /\ p = "list" => ListServices(j)
        /\ j = "clean" => q # "combine"
  BY <1>0 DEF Turn, DeleteService, DeleteServiceFails, NextService, NextTurn, ListServices,
              ListAllServices, SpawnWatch, CheckService, Combine, AfterServices, Goto, InPlaces,
              StartPlaces, DeletePlaces, CleanPlaces, Jobs
<1> QED
  BY <1>0, <1>1, <1>2 DEF Goto, Moves, StartSweep, AfterSweep, PodExists, NotBegun, Jobs

LEMMA NextMoves ==
  ASSUME IInv, [Next]_vars PROVE Moves
<1>0. pc \in [Jobs \cup {"reload"} -> PCs] /\ InPlaces
  BY DEF IInv, TypeOK
<1>1. CASE UNCHANGED vars
  BY <1>1, SamePlaces DEF vars, acting, resources
<1>2. CASE StartedTimeout
  BY <1>2 DEF StartedTimeout, SendStarted, resources, Moves, PodExists
<1>3. CASE ReloadPodCaches
  <2>1. UNCHANGED started /\ \A j \in Jobs : pc'[j] = pc[j]
    BY <1>0, <1>3 DEF ReloadPodCaches, Goto, Jobs
  <2> QED
    BY <1>3, <2>1 DEF ReloadPodCaches, Moves, PodExists, Jobs
<1>4. CASE Restart
  <2>1. \A j \in Jobs : pc'[j] = IF pc[j] \in NotBegun THEN pc[j] ELSE "done"
    BY <1>4, RestartPlaces
  <2>2. started' = NoValue /\ UNCHANGED cache
    BY <1>4 DEF Restart, resources
  <2> QED
    BY <2>1, <2>2 DEF Moves, PodExists, NotBegun, StartSweep, AfterSweep, NoValue, Jobs
<1>5. ASSUME NEW j \in Jobs, NEW i \in {1, 2}, WatchStep(j, i) PROVE Moves
  BY <1>5, SamePlaces
     DEF WatchStep, ReadServiceName, OpenWatch, WatchFails, DeleteTimeout, resources
<1>6. ASSUME NEW j \in Jobs, StartSshService(j) \/ CreateHttpService(j) PROVE Moves
  <2>1. UNCHANGED <<cache, started>>
    BY <1>6 DEF StartSshService, CreateHttpService
  <2>2. PICK p \in {"ssh", "http"}, q \in {"http", "ingress", "cache"} : Goto(j, p, q)
    BY <1>6 DEF StartSshService, CreateHttpService
  <2>3. j = "start"
    BY <1>0, <2>2 DEF Goto, InPlaces, DeletePlaces, CleanPlaces, Jobs
  <2> QED
    BY <1>0, <2>1, <2>2, <2>3 DEF Goto, Moves, StartSweep, AfterSweep, PodExists, NotBegun
<1> QED
  BY <1>1, <1>2, <1>3, <1>4, <1>5, <1>6, StepKinds, QuietMoves, SweepMoves

\* A service goes, or is made by the start jobs where there is none: no service of
\* the old pod comes back.
LEMMA ServiceSteps ==
  ASSUME IInv, [Next]_vars, NEW s \in Services
  PROVE  \/ svc'[s] = svc[s]
         \/ svc'[s] = None
         \/ svc'[s] = "new" /\ svc[s] = None /\ pc["start"] \notin Past(s) /\ PodExists
<1>0. svc \in [Services -> Objects] /\ InPlaces
  BY DEF IInv, TypeOK
<1>1. CASE UNCHANGED svc
  BY <1>1
<1>2. ASSUME NEW j \in Jobs, Turn(j) PROVE svc'[s] \in {svc[s], None}
  BY <1>0, <1>2, DeleteTurn
<1>3. ASSUME NEW j \in Jobs, StartSshService(j) \/ CreateHttpService(j), ~UNCHANGED svc
      PROVE  \/ svc'[s] = svc[s]
             \/ svc'[s] = "new" /\ svc[s] = None /\ PodExists /\ pc["start"] \notin Past(s)
  <2>1. PICK p \in {"ssh", "http"} :
          pc[j] = p /\ svc[p] = None /\ svc' = [svc EXCEPT ![p] = "new"]
    BY <1>3 DEF StartSshService, CreateHttpService, Goto
  <2>2. j = "start"
    BY <1>0, <2>1 DEF InPlaces, DeletePlaces, CleanPlaces, Jobs
  <2>3. CASE s = p
    BY <1>0, <2>1, <2>2, <2>3 DEF PodExists, NotBegun, Past
  <2>4. CASE s # p
    BY <1>0, <2>1, <2>4
  <2> QED
    BY <2>3, <2>4
<1>4. ASSUME NEW j \in Jobs, QuietStep(j) PROVE UNCHANGED svc
  BY <1>4 DEF QuietStep, Begin, RemoveCache, ListServicesFails, ListIngresses, DeleteIngress,
              IngressesFail, OrphansSwept, OrphansLeft, StartSshServiceFails,
              CreateHttpServiceFails, CreateIngress, CreateIngressFails, SaveCache,
              SaveCacheFails, Readdirnames, CheckCache, RemoveOrphanedCache, CleanFails, Answer,
              FinishedTimeout, resources
<1>5. ASSUME NEW j \in Jobs, \/ ListServices(j) \/ ListAllServices(j) \/ SpawnWatch(j)
                              \/ CheckService(j) \/ Combine(j)
      PROVE  UNCHANGED svc
  BY <1>5 DEF ListServices, ListAllServices, SpawnWatch, CheckService, Combine, resources
<1>6. ASSUME NEW j \in Jobs, NEW i \in {1, 2}, WatchStep(j, i) PROVE UNCHANGED svc
  BY <1>6 DEF WatchStep, ReadServiceName, OpenWatch, WatchFails, DeleteTimeout, resources
<1>7. CASE UNCHANGED vars \/ StartedTimeout \/ ReloadPodCaches \/ Restart
  BY <1>7 DEF vars, acting, StartedTimeout, ReloadPodCaches, Restart, resources
<1> QED
  BY <1>1, <1>2, <1>3, <1>4, <1>5, <1>6, <1>7, StepKinds

\* What is listed for a job changes only when the job lists, and a true comes when
\* it has listed nothing or combines.
LEMMA ListSteps ==
  ASSUME IInv, [Next]_vars, ~Restart, NEW j \in Jobs
  PROVE  /\ \/ ListServices(j) \/ ListAllServices(j) \/ CheckService(j) \/ Turn(j)
            \/ /\ listedObjects'[j] = listedObjects[j] /\ serviceList'[j] = serviceList[j]
               /\ at'[j] = at[j]
         /\ Turn(j) => listedObjects'[j] = listedObjects[j]
         /\ finished'[j] = "true" =>
               finished[j] = "true" \/ ListServices(j) \/ Combine(j)
<1>0. /\ finished \in [Jobs -> Cells] /\ "true" \in Values /\ "false" \in Values
      /\ serviceList \in [Jobs -> Lists] /\ at \in [Jobs -> {1, 2}]
      /\ listedObjects \in [Jobs -> SUBSET (Services \X {"old", "new"})]
  BY DEF IInv, TypeOK, Values
<1>1. CASE \/ UNCHANGED vars \/ StartedTimeout \/ ReloadPodCaches
           \/ \E k \in Jobs : \E i \in {1, 2} : WatchStep(k, i)
  <2>1. UNCHANGED <<listedObjects, serviceList, at, finished>>
    BY <1>1 DEF vars, acting, StartedTimeout, ReloadPodCaches, WatchStep, ReadServiceName,
                OpenWatch, WatchFails, DeleteTimeout, sweeping
  <2> QED
    BY <2>1, DeleteTurn
<1>2. ASSUME NEW k \in Jobs, QuietStep(k)
      PROVE  /\ UNCHANGED <<listedObjects, serviceList, at>>
             /\ finished'[j] = "true" => finished[j] = "true"
  <2>1. UNCHANGED needs
    BY StepKinds
  <2> QED
    BY <1>2, <2>1, QuietSteps DEF Quietly
<1>3. ASSUME NEW k \in Jobs, Turn(k)
      PROVE  /\ UNCHANGED <<listedObjects, serviceList, finished>>
             /\ k # j => at'[j] = at[j]
  BY <1>0, <1>3, DeleteTurn DEF NextTurn
<1>4. ASSUME NEW k \in Jobs, ListServices(k)
      PROVE  k # j => /\ listedObjects'[j] = listedObjects[j] /\ serviceList'[j] = serviceList[j]
                      /\ at'[j] = at[j] /\ finished'[j] = finished[j]
  BY <1>0, <1>4, SentCells DEF ListServices
<1>5. ASSUME NEW k \in Jobs, ListAllServices(k)
      PROVE  /\ UNCHANGED finished
             /\ k # j => /\ listedObjects'[j] = listedObjects[j] /\ serviceList'[j] = serviceList[j]
                         /\ at'[j] = at[j]
  BY <1>0, <1>5 DEF ListAllServices
<1>6. ASSUME NEW k \in Jobs, CheckService(k)
      PROVE  /\ UNCHANGED finished
             /\ k # j => /\ listedObjects'[j] = listedObjects[j] /\ serviceList'[j] = serviceList[j]
                         /\ at'[j] = at[j]
  <2>1. UNCHANGED <<finished, serviceList>>
    BY <1>6 DEF CheckService
  <2>2. k # j => listedObjects'[j] = listedObjects[j] /\ at'[j] = at[j]
    BY <1>0, <1>6 DEF CheckService, NextTurn
  <2> QED
    BY <2>1, <2>2
<1>7. ASSUME NEW k \in Jobs, \/ SpawnWatch(k) \/ StartSshService(k) \/ CreateHttpService(k)
      PROVE  UNCHANGED <<listedObjects, serviceList, at, finished>>
  BY <1>7 DEF SpawnWatch, StartSshService, CreateHttpService, sweeping
<1>8. ASSUME NEW k \in Jobs, Combine(k)
      PROVE  /\ UNCHANGED <<listedObjects, serviceList, at>>
             /\ k # j => finished'[j] = finished[j]
  BY <1>8, CombineFacts
<1> QED
  BY <1>1, <1>2, <1>3, <1>4, <1>5, <1>6, <1>7, <1>8, DeleteTurn, StepKinds

\* All of what is listed is gone when the goroutines of a job have all had a true:
\* each has watched the one service there is, or the loop has deleted them all.
LEMMA CombinedMeansGone ==
  ASSUME IInv, NoCapture, NEW j \in Jobs, Combine(j), finished'[j] = "true",
         NEW x \in listedObjects[j]
  PROVE  svc[x[1]] # x[2]
<1>1. PICK k \in DOMAIN serviceList[j] : ListedAt(j, x, k)
  BY DEF IInv, ListedObjects
<1>2. pc[j] = "combine" /\ TurnOver(j, k)
  BY CombineFacts DEF TurnOver, AfterLoop, PCs, Loop, BeforeLists
<1>3. x[1] \in Services /\ x[2] \in {"old", "new"} /\ x = <<x[1], x[2]>> /\ k \in {1, 2}
  BY ListFacts DEF IInv, TypeOK
<1>4. CASE ~ApiMayFail
  BY <1>1, <1>2, <1>4 DEF ListedAt
<1>5. CASE ReadsOwn
  <2>1. <<j, k>> \in Slots /\ watch[<<j, k>>] # "none"
    BY <1>1, <1>2, <1>3 DEF ListedAt, Slots
  <2>2. deleteChannels[<<j, k>>] = "true"
    BY <2>1, CombineFacts
  <2>3. /\ Gone(j, watched[<<j, k>>]) /\ watched[<<j, k>>] \in Services
        /\ watched[<<j, k>>] \in {None} \cup {serviceList[j][m] : m \in DOMAIN serviceList[j]}
    BY <1>3, <2>2 DEF IInv, TrueMeansGone, Watchers, Watcher
  <2>4. None \notin Services
    BY PodJobsAssumption DEF Services
  <2>5. watched[<<j, k>>] = x[1]
    BY <1>1, <1>3, <1>5, <2>1, <2>3, <2>4 DEF ReadsOwn, ListedAt
  <2> QED
    BY <1>3, <2>3, <2>5 DEF Gone
<1> QED
  BY <1>4, <1>5 DEF NoCapture

\* Where clean_all_unused is between its list and its answer: on its way through the
\* loop, or past it and with nothing new about services.
CleanStays ==
    pc'["clean"] = pc["clean"] \/ (pc["clean"] \in CleanSweep /\ pc'["clean"] \in CleanSweep)

LEMMA CleanMoves ==
  ASSUME IInv, [Next]_vars, pc'["clean"] \in Loop \cup CleanSweep
  PROVE  \/ ListAllServices("clean") \/ CheckService("clean") \/ Turn("clean")
         \/ SpawnWatch("clean")
         \/ /\ CleanStays
            /\ listedObjects'["clean"] = listedObjects["clean"]
            /\ serviceList'["clean"] = serviceList["clean"] /\ at'["clean"] = at["clean"]
<1>0. pc \in [Jobs \cup {"reload"} -> PCs] /\ InPlaces /\ "clean" \in Jobs
  BY DEF IInv, TypeOK, Jobs
<1>1. CASE Restart
  <2>1. pc'["clean"] \in NotBegun \cup {"done"}
    BY <1>0, <1>1, RestartPlaces
  <2> QED
    BY <2>1 DEF NotBegun, Loop, CleanSweep
<1>2. CASE \/ UNCHANGED vars \/ StartedTimeout
           \/ \E k \in Jobs : \E i \in {1, 2} : WatchStep(k, i)
  <2>1. UNCHANGED pc
    BY <1>2 DEF vars, acting, StartedTimeout, WatchStep, ReadServiceName, OpenWatch, WatchFails,
                DeleteTimeout
  <2>2. UNCHANGED <<listedObjects, serviceList>>
    BY <1>2 DEF vars, acting, sweeping, StartedTimeout, WatchStep, ReadServiceName, OpenWatch,
                WatchFails, DeleteTimeout
  <2>3. UNCHANGED at
    BY <1>2 DEF vars, acting, sweeping, StartedTimeout, WatchStep, ReadServiceName, OpenWatch,
                WatchFails, DeleteTimeout
  <2> QED
    BY <2>1, <2>2, <2>3 DEF CleanStays
<1>3. CASE ReloadPodCaches
  BY <1>0, <1>3 DEF CleanStays, ReloadPodCaches, Goto, sweeping, Jobs
<1>4. ASSUME NEW j \in Jobs, QuietStep(j)
      PROVE  CleanStays /\ UNCHANGED <<listedObjects, serviceList, at>>
  <2>1. UNCHANGED needs
    BY StepKinds
  <2>2. Quietly
    BY <1>4, <2>1, QuietSteps
  <2>3. \/ UNCHANGED pc
        \/ \E p \in {"idle", "removeCache", "list", "listIngress", "deleteIngress", "await",
                     "ssh", "http", "ingress", "cache"}, q \in PCs \ (Loop \cup CleanSweep) :
              Goto(j, p, q) /\ p # "list" /\ p # "idle"
        \/ \E p, q \in CleanSweep : Goto(j, p, q)
        \/ \E p, q : Goto(j, p, q) /\ q \in {"list", "removeCache", "done", "listIngress"}
    BY <1>4 DEF QuietStep, Begin, RemoveCache, ListServicesFails, ListIngresses, DeleteIngress,
                IngressesFail, OrphansSwept, OrphansLeft, StartSshServiceFails,
                CreateHttpServiceFails, CreateIngress, CreateIngressFails, SaveCache,
                SaveCacheFails, Readdirnames, CheckCache, RemoveOrphanedCache, CleanFails,
                Answer, FinishedTimeout, AfterIngresses, Loop, CleanSweep, PCs
  <2>4. ASSUME NEW p, NEW q, Goto(j, p, q)
        PROVE  /\ j # "clean" => pc'["clean"] = pc["clean"]
               /\ j = "clean" => pc["clean"] = p /\ pc'["clean"] = q
    BY <1>0, <1>4, <2>4 DEF Goto
  <2>5. ASSUME NEW p, NEW q, Goto(j, p, q), q \in {"list", "removeCache", "done", "listIngress"}
        PROVE  CleanStays
    BY <2>4, <2>5 DEF CleanStays, Loop, CleanSweep
  <2>6. ASSUME NEW p \in CleanSweep, NEW q \in CleanSweep, Goto(j, p, q) PROVE CleanStays
    BY <2>4, <2>6 DEF CleanStays
  <2>7. ASSUME NEW p, NEW q, Goto(j, p, q), q \notin Loop \cup CleanSweep PROVE CleanStays
    BY <2>4, <2>7 DEF CleanStays
  <2>8. CleanStays
    BY <2>3, <2>5, <2>6, <2>7 DEF CleanStays
  <2> QED
    BY <2>2, <2>8 DEF Quietly
<1>5. ASSUME NEW j \in Jobs, j # "clean",
             \/ Turn(j) \/ ListServices(j) \/ ListAllServices(j) \/ SpawnWatch(j)
             \/ CheckService(j) \/ Combine(j)
      PROVE  pc'["clean"] = pc["clean"] /\ ~Restart
  <2>1. \E p, q : Goto(j, p, q)
    BY <1>5 DEF Turn, DeleteService, DeleteServiceFails, NextService, NextTurn, ListServices,
                ListAllServices, SpawnWatch, CheckService, Combine
  <2>2. pc'["reload"] = pc["reload"] /\ pc'["clean"] = pc["clean"]
    BY <1>0, <1>5, <2>1 DEF Goto, Jobs
  <2> QED
    BY <1>0, <2>2 DEF Restart
<1>6. ASSUME NEW j \in Jobs, StartSshService(j) \/ CreateHttpService(j)
      PROVE  pc'["clean"] = pc["clean"] /\ UNCHANGED <<listedObjects, serviceList, at>>
  <2>1. UNCHANGED sweeping /\ \E p \in {"ssh", "http"}, q \in PCs : Goto(j, p, q)
    BY <1>6 DEF StartSshService, CreateHttpService, PCs
  <2>2. j # "clean"
    BY <1>0, <2>1 DEF Goto, InPlaces, CleanPlaces
  <2> QED
    BY <1>0, <2>1, <2>2 DEF Goto, sweeping
<1>7. ~ListServices("clean")
  BY DEF ListServices
<1>8. ~Combine("clean")
  BY DEF Combine, AfterServices, Goto, IInv, TypeOK, Loop, CleanSweep, Jobs
<1>9. ASSUME NEW j \in Jobs, j # "clean",
             \/ Turn(j) \/ ListServices(j) \/ ListAllServices(j) \/ SpawnWatch(j)
             \/ CheckService(j) \/ Combine(j)
      PROVE  /\ CleanStays /\ listedObjects'["clean"] = listedObjects["clean"]
             /\ serviceList'["clean"] = serviceList["clean"] /\ at'["clean"] = at["clean"]
  <2>1. pc'["clean"] = pc["clean"] /\ ~Restart
    BY <1>5, <1>9
  <2>2. /\ serviceList \in [Jobs -> Lists] /\ at \in [Jobs -> {1, 2}]
        /\ listedObjects \in [Jobs -> SUBSET (Services \X {"old", "new"})]
    BY DEF IInv, TypeOK
  <2>3. CASE Turn(j)
    <3>1. UNCHANGED <<listedObjects, serviceList>> /\ NextTurn(j, "delete")
      BY <2>3, DeleteTurn
    <3>2. at' = at \/ at' = [at EXCEPT ![j] = at[j] + 1]
      BY <3>1 DEF NextTurn
    <3>3. at'["clean"] = at["clean"]
      BY <1>0, <1>9, <2>2, <3>2
    <3> QED
      BY <2>1, <3>1, <3>3 DEF CleanStays
  <2>4. CASE ListServices(j) \/ ListAllServices(j)
    <3>1. UNCHANGED at
      BY <2>4 DEF ListServices, ListAllServices
    <3>2. serviceList'["clean"] = serviceList["clean"]
      BY <1>0, <1>9, <2>2, <2>4 DEF ListServices, ListAllServices
    <3> DEFINE present == {<<s, svc[s]>> : s \in {u \in Services : Present(u)}}
    <3>3. UNCHANGED listedObjects \/ listedObjects' = [listedObjects EXCEPT ![j] = present]
      <4>1. CASE ListServices(j)
        BY <4>1, Zenon DEF ListServices
      <4>2. CASE ListAllServices(j)
        BY <4>2 DEF ListAllServices
      <4> QED
        BY <2>4, <4>1, <4>2
    <3> HIDE DEF present
    <3>4. listedObjects'["clean"] = listedObjects["clean"]
      BY <1>0, <1>9, <2>2, <3>3
    <3> QED
      BY <2>1, <3>1, <3>2, <3>4 DEF CleanStays
  <2>5. CASE SpawnWatch(j) \/ Combine(j)
    BY <2>1, <2>5 DEF CleanStays, SpawnWatch, Combine
  <2>6. CASE CheckService(j)
    <3>1. j = "clean"
      BY <1>0, <2>6 DEF CheckService, NextTurn, Goto, InPlaces, StartPlaces, DeletePlaces, Jobs
    <3> QED
      BY <1>9, <3>1
  <2> QED
    BY <1>9, <2>3, <2>4, <2>5, <2>6
<1> QED
  BY <1>1, <1>2, <1>3, <1>4, <1>6, <1>7, <1>8, <1>9, StepKinds DEF CleanStays

\* A true to a job's caller means that what the job has listed is gone, and stays
\* gone: the old objects do not come back, and the new ones are made once.
LEMMA NextServicesGone ==
  ASSUME NoCapture, IInv, TrueMeansServicesGone, [Next]_vars
  PROVE  TrueMeansServicesGone'
<1>1. CASE Restart
  <2>1. \A j \in Jobs : finished'[j] = NoValue
    BY <1>1 DEF Restart, NoSweep
  <2> QED
    BY <2>1 DEF TrueMeansServicesGone, NoValue
<1>2. CASE ~Restart
  <2> SUFFICES ASSUME NEW j \in Jobs, finished'[j] = "true", NEW x \in listedObjects'[j]
               PROVE  svc'[x[1]] # x[2]
    BY DEF TrueMeansServicesGone
  <2>0. /\ svc \in [Services -> Objects] /\ pc \in [Jobs \cup {"reload"} -> PCs]
        /\ listedObjects \in [Jobs -> SUBSET (Services \X {"old", "new"})]
        /\ None # "old" /\ None # "new"
    BY PodJobsAssumption DEF IInv, TypeOK
  <2>1. CASE finished[j] = "true"
    <3>1. pc[j] \in Answered
      BY <2>1 DEF IInv, Loops, LoopOf
    <3>2. ~ListServices(j) /\ ~ListAllServices(j) /\ ~CheckService(j)
      BY <3>1 DEF ListServices, ListAllServices, CheckService, NextTurn, Goto, Answered, AfterSweep
    <3>3. listedObjects'[j] = listedObjects[j]
      BY <1>2, <3>2, ListSteps
    <3>4. x \in listedObjects[j] /\ svc[x[1]] # x[2]
      BY <2>1, <3>3 DEF TrueMeansServicesGone
    <3>5. x[1] \in Services /\ x[2] \in {"old", "new"} /\ x = <<x[1], x[2]>>
      BY <2>0, <3>4
    <3>6. x[2] = "new" => pc["start"] \in Past(x[1])
      BY <3>4, <3>5 DEF IInv, NewIsMade
    <3> QED
      BY <2>0, <3>4, <3>5, <3>6, ServiceSteps
  <2>2. CASE finished[j] # "true" /\ ListServices(j)
    <3>1. \A s \in Services : ~Present(s)
      BY <2>2 DEF ListServices
    <3>2. listedObjects'[j] = {<<s, svc[s]>> : s \in {t \in Services : Present(t)}}
      BY <2>0, <2>2 DEF ListServices
    <3> QED
      BY <3>1, <3>2
  <2>3. CASE finished[j] # "true" /\ Combine(j)
    <3>1. x \in listedObjects[j] /\ UNCHANGED svc
      BY <2>3, CombineFacts
    <3> QED
      BY <2>3, <3>1, CombinedMeansGone
  <2> QED
    BY <1>2, <2>1, <2>2, <2>3, ListSteps
<1> QED
  BY <1>1, <1>2

\* The start jobs list the old services, and go on when these are gone.
LEMMA NextOldAreListed ==
  ASSUME IInv, TrueMeansServicesGone, OldAreListed, [Next]_vars
  PROVE  OldAreListed'
<1>0. /\ svc \in [Services -> Objects] /\ "start" \in Jobs
      /\ listedObjects \in [Jobs -> SUBSET (Services \X {"old", "new"})]
      /\ None # "old" /\ pc \in [Jobs \cup {"reload"} -> PCs]
  BY PodJobsAssumption DEF IInv, TypeOK, Jobs
<1>1. \A s \in Services : svc'[s] = "old" => svc[s] = "old"
  BY <1>0, ServiceSteps
<1>2. Moves
  BY NextMoves
<1>3. ASSUME pc'["start"] \in StartSweep, NEW s \in Services, svc'[s] = "old"
      PROVE  <<s, "old">> \in listedObjects'["start"]
  <2>1. CASE pc["start"] \in StartSweep
    <3>1. <<s, "old">> \in listedObjects["start"]
      BY <1>1, <1>3, <2>1 DEF OldAreListed, StartSweep
    <3>2. ~ListServices("start") /\ ~ListAllServices("start")
      BY <2>1 DEF ListServices, ListAllServices, Goto, StartSweep
    <3>3. ~CheckService("start")
      BY <2>1 DEF CheckService, NextTurn, Goto, StartSweep
    <3>4. ~Restart
      BY <1>0, <1>3, <2>1, RestartPlaces DEF NotBegun, StartSweep
    <3> QED
      BY <1>0, <3>1, <3>2, <3>3, <3>4, ListSteps
  <2>2. CASE ListServices("start")
    <3>1. listedObjects'["start"] = {<<t, svc[t]>> : t \in {u \in Services : Present(u)}}
      BY <1>0, <2>2 DEF ListServices
    <3>2. Present(s) /\ svc[s] = "old"
      BY <1>0, <1>1, <1>3 DEF Present
    <3> QED
      BY <3>1, <3>2
  <2> QED
    BY <1>2, <1>3, <2>1, <2>2 DEF Moves
<1>4. ASSUME pc'["start"] \in AfterSweep, NEW s \in Services
      PROVE  svc[s] # "old"
  <2>1. CASE pc["start"] \in AfterSweep
    BY <2>1 DEF OldAreListed
  <2>2. CASE pc["start"] = "await" /\ finished["start"] = "true"
    <3>1. svc[s] = "old" => <<s, "old">> \in listedObjects["start"]
      BY <2>2 DEF OldAreListed
    <3>2. \A x \in listedObjects["start"] : svc[x[1]] # x[2]
      BY <1>0, <2>2 DEF TrueMeansServicesGone
    <3> QED
      BY <3>1, <3>2
  <2> QED
    BY <1>2, <1>4, <2>1, <2>2 DEF Moves
<1> QED
  BY <1>1, <1>3, <1>4 DEF OldAreListed, StartSweep

LEMMA NextStartedMeansClean ==
  ASSUME IInv, OldAreListed, StartedMeansClean, [Next]_vars
  PROVE  StartedMeansClean'
<1>0. svc \in [Services -> Objects] /\ None # "old"
  BY PodJobsAssumption DEF IInv, TypeOK
<1> SUFFICES ASSUME started' = "true", NEW s \in Services PROVE svc'[s] # "old"
  BY DEF StartedMeansClean
<1>1. started = "true" \/ pc["start"] = "cache"
  BY NextMoves DEF Moves
<1>2. svc[s] # "old"
  BY <1>1 DEF StartedMeansClean, OldAreListed, AfterSweep
<1> QED
  BY <1>0, <1>2, ServiceSteps

\* As long as there is no pod, services only go.
LEMMA NoPodServices ==
  ASSUME IInv, [Next]_vars, ~PodExists'
  PROVE  /\ ~PodExists
         /\ \A s \in Services : Present(s)' => Present(s) /\ svc'[s] = svc[s]
<1>1. ~PodExists
  BY NextMoves DEF Moves
<1> QED
  BY <1>1, ServiceSteps DEF Present

LEMMA NextUnusedAreListed ==
  ASSUME IInv, UnusedAreListed, [Next]_vars
  PROVE  UnusedAreListed'
<1> DEFINE Ahead(s, k) ==
             /\ serviceList["clean"][k] = s /\ pc["clean"] \in Loop
             /\ k > at["clean"] \/ (pc["clean"] = "check" /\ k = at["clean"])
           Listed(s) == \/ <<s, svc[s]>> \in listedObjects["clean"]
                        \/ \E k \in DOMAIN serviceList["clean"] : Ahead(s, k)
<1>0. /\ svc \in [Services -> Objects] /\ "clean" \in Jobs
      /\ pc \in [Jobs \cup {"reload"} -> PCs]
      /\ serviceList \in [Jobs -> Lists] /\ at \in [Jobs -> {1, 2}]
      /\ listedObjects \in [Jobs -> SUBSET (Services \X {"old", "new"})]
  BY DEF IInv, TypeOK, Jobs
<1> SUFFICES ASSUME ~PodExists'
             PROVE  /\ pc'["clean"] \in Loop \cup CleanSweep =>
                          \A s \in Services : Present(s)' => Listed(s)'
                    /\ pc'["clean"] = "combine" => cache' = None
  BY DEF UnusedAreListed, CleanSweep
<1>1. /\ ~PodExists
      /\ \A s \in Services : Present(s)' => Present(s) /\ svc'[s] = svc[s]
  BY NoPodServices
<1>2. pc["clean"] \in Loop \cup CleanSweep => \A s \in Services : Present(s) => Listed(s)
  BY <1>1 DEF UnusedAreListed, CleanSweep
<1>3. pc'["clean"] = "combine" => cache' = None
  BY <1>1, NextMoves DEF Moves, UnusedAreListed
<1>4. ASSUME pc'["clean"] \in Loop \cup CleanSweep, NEW s \in Services, Present(s)'
      PROVE  Listed(s)'
  <2>0. Present(s) /\ svc'[s] = svc[s]
    BY <1>1, <1>4
  <2>1. CASE ListAllServices("clean")
    <3>1. PICK q \in Lists : ListsPresent(q) /\ serviceList' = [serviceList EXCEPT !["clean"] = q]
      BY <2>1 DEF ListAllServices
    <3>2. serviceList'["clean"] = q /\ pc'["clean"] = "check" /\ at'["clean"] = 1
      <4>1. pc["clean"] = "list" /\ UNCHANGED at
        BY <2>1 DEF ListAllServices, Goto
      <4>2. at["clean"] = 1
        BY <1>0, <4>1 DEF IInv, Loops, LoopOf, BeforeLists
      <4>3. pc'["clean"] = "check"
        BY <1>0, <2>0, <2>1 DEF ListAllServices, Goto
      <4> QED
        BY <1>0, <3>1, <4>1, <4>2, <4>3
    <3>3. PICK k \in DOMAIN q : q[k] = s
      BY <2>0, <3>1 DEF ListsPresent
    <3>4. k \in {1, 2}
      BY ListFacts
    <3> QED
      BY <3>2, <3>3, <3>4 DEF Loop
  <2>2. CASE CheckService("clean")
    <3>1. pc["clean"] = "check" /\ pc'["clean"] = "spawn" /\ UNCHANGED <<serviceList, at>>
      BY <1>0, <1>1, <2>2 DEF CheckService, Goto
    <3>2. listedObjects'["clean"] =
             IF Present(serviceList["clean"][at["clean"]])
             THEN listedObjects["clean"] \cup
                    {<<serviceList["clean"][at["clean"]], svc[serviceList["clean"][at["clean"]]]>>}
             ELSE listedObjects["clean"]
      BY <1>0, <1>1, <2>2 DEF CheckService
    <3>3. Listed(s)
      BY <1>2, <2>0, <3>1 DEF Loop
    <3>4. CASE <<s, svc[s]>> \in listedObjects["clean"]
      BY <2>0, <3>2, <3>4
    <3>5. ASSUME NEW k \in DOMAIN serviceList["clean"], Ahead(s, k), k > at["clean"]
          PROVE  Listed(s)'
      BY <3>1, <3>5 DEF Loop
    <3>6. CASE serviceList["clean"][at["clean"]] = s
      BY <2>0, <3>2, <3>6
    <3> QED
      BY <3>3, <3>4, <3>5, <3>6
  <2>3. CASE Turn("clean")
    <3>1. NextTurn("clean", "delete") /\ UNCHANGED <<serviceList, listedObjects>>
      BY <2>3, DeleteTurn
    <3>2. /\ pc["clean"] = "delete" /\ DOMAIN serviceList["clean"] = 1 .. Len(serviceList["clean"])
          /\ \/ at'["clean"] = at["clean"] + 1 /\ pc'["clean"] = "check"
             \/ at["clean"] = Len(serviceList["clean"])
      BY <1>0, <3>1, TurnFacts
    <3>3. Listed(s)
      BY <1>2, <2>0, <3>2 DEF Loop
    <3>4. CASE <<s, svc[s]>> \in listedObjects["clean"]
      BY <2>0, <3>1, <3>4
    <3>5. ASSUME NEW k \in DOMAIN serviceList["clean"], Ahead(s, k)
          PROVE  Listed(s)'
      <4>1. k > at["clean"] /\ k \in 1 .. Len(serviceList["clean"])
        BY <3>2, <3>5
      <4>2. Len(serviceList["clean"]) \in Nat /\ at["clean"] \in Nat
        BY <1>0, ListFacts
      <4>3. at'["clean"] = at["clean"] + 1 /\ pc'["clean"] = "check"
        BY <3>2, <4>1, <4>2
      <4>4. k > at'["clean"] \/ k = at'["clean"]
        BY <4>1, <4>2, <4>3
      <4> QED
        BY <3>1, <3>5, <4>3, <4>4 DEF Loop
    <3> QED
      BY <3>3, <3>4, <3>5
  <2>4. CASE SpawnWatch("clean")
    <3>1. /\ pc["clean"] = "spawn" /\ pc'["clean"] = "delete"
          /\ UNCHANGED <<serviceList, listedObjects, at>>
      BY <1>0, <2>4 DEF SpawnWatch, Goto
    <3>2. Listed(s)
      BY <1>2, <2>0, <3>1 DEF Loop
    <3> QED
      BY <2>0, <3>1, <3>2 DEF Loop
  <2>5. CASE /\ CleanStays /\ listedObjects'["clean"] = listedObjects["clean"]
             /\ serviceList'["clean"] = serviceList["clean"] /\ at'["clean"] = at["clean"]
    <3>1. pc["clean"] \in Loop \cup CleanSweep
      BY <1>4, <2>5 DEF CleanStays
    <3>2. Listed(s)
      BY <1>2, <2>0, <3>1
    <3>3. pc'["clean"] = pc["clean"] \/ pc["clean"] \notin Loop
      BY <2>5 DEF CleanStays, Loop, CleanSweep
    <3> QED
      BY <2>0, <2>5, <3>2, <3>3
  <2> QED
    BY <1>4, <2>1, <2>2, <2>3, <2>4, <2>5, CleanMoves
<1> QED
  BY <1>3, <1>4

LEMMA NextCleanMeansClean ==
  ASSUME IInv, CInv, TrueMeansServicesGone', [Next]_vars
  PROVE  CleanMeansClean'
<1>0. /\ pc \in [Jobs \cup {"reload"} -> PCs] /\ "clean" \in Jobs /\ "start" \in Jobs
      /\ finished \in [Jobs -> Cells]
      /\ listedObjects \in [Jobs -> SUBSET (Services \X {"old", "new"})]
  BY DEF IInv, TypeOK, Jobs
<1> SUFFICES ASSUME finished'["clean"] = "true", ~PodExists'
             PROVE  cache' = None /\ \A s \in Services : svc'[s] = None
  BY DEF CleanMeansClean
<1>1. /\ ~PodExists
      /\ \A s \in Services : Present(s)' => Present(s) /\ svc'[s] = svc[s]
  BY NoPodServices
<1>2. cache' \in {cache, None}
  BY NextMoves DEF Moves
<1>3. ~Restart
  BY <1>0 DEF Restart, NoSweep, NoValue
<1>4. CASE finished["clean"] = "true"
  <2>1. pc["clean"] = "done"
    BY <1>0, <1>4 DEF IInv, Loops, LoopOf, InPlaces, CleanPlaces, Answered, AfterSweep
  <2>2. cache = None /\ \A s \in Services : svc[s] = None
    BY <1>1, <1>4, <2>1 DEF CInv, CleanMeansClean
  <2> QED
    BY <1>1, <1>2, <2>2 DEF Present
<1>5. CASE Combine("clean")
  <2>1. /\ pc["clean"] = "combine" /\ UNCHANGED <<svc, cache, listedObjects>>
    BY <1>0, <1>5, CombineFacts
  <2>2. cache = None
    BY <1>1, <2>1 DEF CInv, UnusedAreListed
  <2>3. ASSUME NEW s \in Services, Present(s) PROVE FALSE
    <3>1. <<s, svc[s]>> \in listedObjects["clean"]
      BY <1>1, <2>1, <2>3 DEF CInv, UnusedAreListed, Loop
    <3>2. \A x \in listedObjects'["clean"] : svc'[x[1]] # x[2]
      BY <1>0 DEF TrueMeansServicesGone
    <3> QED
      BY <2>1, <3>1, <3>2
  <2> QED
    BY <2>1, <2>2, <2>3 DEF Present
<1>6. ~ListServices("clean")
  BY DEF ListServices
<1> QED
  BY <1>0, <1>3, <1>4, <1>5, <1>6, ListSteps

LEMMA InitCInv == Init => CInv
<1> SUFFICES ASSUME Init PROVE CInv
  OBVIOUS
<1>1. \A j \in Jobs : finished[j] = NoValue /\ pc[j] \in {"none", "idle"}
  BY DEF Init, NoSweep
<1>2. started = NoValue /\ "start" \in Jobs /\ "clean" \in Jobs
  BY DEF Init, Jobs
<1>3. TrueMeansServicesGone
  BY <1>1 DEF TrueMeansServicesGone, NoValue
<1>4. OldAreListed /\ UnusedAreListed
  BY <1>1, <1>2 DEF OldAreListed, UnusedAreListed, AfterSweep, Loop
<1>5. StartedMeansClean /\ CleanMeansClean
  BY <1>1, <1>2 DEF StartedMeansClean, CleanMeansClean, NoValue
<1> QED
  BY <1>3, <1>4, <1>5 DEF CInv

LEMMA NextCInv == NoCapture /\ IInv /\ CInv /\ [Next]_vars => CInv'
<1> SUFFICES ASSUME NoCapture, IInv, CInv, [Next]_vars PROVE CInv'
  OBVIOUS
<1>1. TrueMeansServicesGone'
  BY NextServicesGone DEF CInv
<1>2. OldAreListed' /\ StartedMeansClean' /\ UnusedAreListed'
  BY NextOldAreListed, NextStartedMeansClean, NextUnusedAreListed DEF CInv
<1>3. CleanMeansClean'
  BY <1>1, NextCleanMeansClean
<1> QED
  BY <1>1, <1>2, <1>3 DEF CInv

LEMMA CleanInvariant == Spec /\ []NoCapture => []CInv
<1>1. Init => CInv
  BY InitCInv
<1>2. NoCapture /\ IInv /\ CInv /\ [Next]_vars => CInv'
  BY NextCInv
<1> QED
  BY <1>1, <1>2, JobsInvariant, PTL DEF Spec

\* When the caller of DeleteAllServices is told true, no service that was found is
\* left, whatever the other jobs make or delete meanwhile: "only signal finished
\* when each service has been deleted successfully" (managed.go:510).
THEOREM ServicesGone == Spec /\ []NoCapture => []TrueMeansServicesGone
<1>1. CInv => TrueMeansServicesGone
  BY DEF CInv
<1> QED
  BY <1>1, CleanInvariant, PTL

\* A pod whose start jobs have succeeded is not reached through a service of an
\* earlier pod of its name, although startSshService takes "already exists" for
\* success (managed.go:577).
THEOREM StartedIsClean == Spec /\ []NoCapture => []StartedMeansClean
<1>1. CInv => StartedMeansClean
  BY DEF CInv
<1> QED
  BY <1>1, CleanInvariant, PTL

\* When clean_all_unused has answered with success, a name without a pod has no
\* service and no cache, also if delete jobs are at work or were lost in a restart
\* (server.go:647-765).
THEOREM CleanedIsClean == Spec /\ []NoCapture => []CleanMeansClean
<1>1. CInv => CleanMeansClean
  BY DEF CInv
<1> QED
  BY <1>1, CleanInvariant, PTL

\* A list of one service cannot be read wrongly.
LEMMA OneServiceIsOwn == ASSUME OneService PROVE IInv => ReadsOwn
<1> SUFFICES ASSUME IInv, NEW j \in Jobs, NEW i \in {1, 2}, watch[<<j, i>>] # "none",
                    watched[<<j, i>>] # None
             PROVE  watched[<<j, i>>] = serviceList[j][i]
  BY DEF ReadsOwn
<1>1. i \in DOMAIN serviceList[j] /\ \E k \in DOMAIN serviceList[j] :
                                       watched[<<j, i>>] = serviceList[j][k]
  BY DEF IInv, Watchers, Watcher
<1>2. watched[<<j, i>>] \in needs /\ serviceList[j][i] \in needs /\ needs \in PodNeeds
  BY <1>1 DEF IInv, TypeOK, ServicesNeeded
<1> QED
  BY <1>2 DEF OneService

\* If no pod has both services, or no call fails, the three hold in every behaviour.
THEOREM CleanWithoutCapture ==
  ASSUME OneService \/ ~ApiMayFail
  PROVE  Spec => [](TrueMeansServicesGone /\ StartedMeansClean /\ CleanMeansClean)
<1>1. IInv => NoCapture
  BY OneServiceIsOwn DEF NoCapture
<1>2. CInv => TrueMeansServicesGone /\ StartedMeansClean /\ CleanMeansClean
  BY DEF CInv
<1> QED
  BY <1>1, <1>2, JobsInvariant, CleanInvariant, PTL
===============================================================================
