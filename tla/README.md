# TLA+ specifications of the user pods backend

The backend (`src/`) is a Go server between a web application and the Kubernetes
API. It makes and deletes pods for users, together with what goes with a pod (an
ssh service, an http service and its ingress, a cache file) and with a user (a
PersistentVolume and PersistentVolumeClaim). Nothing is stored by the backend
itself: its state is three maps in memory, and a set of goroutines that wait for
Kubernetes to say that something has happened.

This directory holds TLA+ modules that model that code, TLC runs that check them
on small instances, and TLAPS proofs of what matters most for every instance.

## 1. Inventory

| Component | State | Operations | What is hard about it | What makes it correct |
|---|---|---|---|---|
| ReadyChannel (`util.go`) | a channel with one place, `receivedYet`, `firstValue`, a mutex, a timer | `NewReadyChannel`, `Send`, `Receive` | a result, the timer and late events race for the one place; `Receive` blocks with the mutex held | every receiver gets the first value, and gets it |
| CombineReadyChannels (`util.go`) | the inputs and the output | `ReceiveReadyChannels`, `CombineReadyChannels` | the output has a timer too | true means all true; the goroutine ends |
| Server: create and delete (`server.go`, `podcreator.go`, `poddeleter.go`) | `CreatingPods`, `DeletingPods`, the goroutines that remove entries, the ReadyChannels of each request | `createPod`, `deletePod`, `deletePodIfFailedCreate`, `addToWatchMaps` | check, call and registration are separate steps; replies get lost; all is keyed by a name that is used again; failed creations are deleted later | success is about the pod that was asked for; only the owner deletes; entries exist as long as they should, and no longer |
| Server: watch requests and `get_pods` (`server.go`) | none of their own | `watchCreatePod`, `watchDeletePod`, `getPods` | they read the maps of others, then wait or ask the API, or have asked it before | answers are true, given, and tell nothing about other users |
| User storage (`managed.go`, end of `deletePod`) | `DeletingStorage`, PV and PVC | `CreateUserStorageIfNotExist`, `DeleteUserStorage`, `userHasRemainingPods` | list-then-act, on both sides, next to each other | no pod loses its storage; storage does not stay; success means gone |
| `delete_all_user` (`server.go`) | the list, `chanList` | `deleteAllUserPods` | a loop of calls next to other deletions of the same pods and storage; what it skips or fails on | `{deleted: true}` means gone; it answers |
| `clean_all_unused` (`server.go`) | `finishedChannels` | `cleanAllUnused` | it finds things without their pods while creations, deletions and jobs run | success means that what it found is gone; it answers |
| Start and delete jobs (`managed.go`) | services, ingress, cache file | `RunStartJobsWhenReady`, `RunDeleteJobsWhenReady`, `DeleteAllServices`, `DeleteAllIngresses`, `createIngress`, `startSshService` | the jobs of two pods with one name overlap; errors are dropped; goroutines share a loop variable | success means done; jobs end; no pod is served by the objects of another |
| Restart (`main.go`, `ReloadPodCaches`) | cache files | `New`, `ReloadPodCaches` | everything in memory is lost | what was promised before stays true; leftovers can be cleaned |
| K8sClient (`k8sclient.go`) | watches | `WatchFor`, the signal functions, wrappers of calls | a watch is on a name and sees only what comes after it is open | part of each module above |
| `get_podip_owner` (`server.go`) | none | `getPodIPOwner` | nothing: nine reads | not modelled |
| Names (`managed.go`, `util.go`, `podcreator.go`) | none | `validUserID`, `GetUserString`, `applyCreatePodName`, `GetUserIDFromLabels` | the user string is not injective | candidate names are a constant of PodServer; users may share them |
| Token and cache content, manifest fetching, configuration, HTTP | none shared | | input and output | not modelled |

How they interact: a handler calls `createPod` or `deletePod` in its own
goroutine; these call the Kubernetes API, start goroutines that watch for an
event, and start the jobs, which wait for ReadyChannels that the watches or
timers fill. A ReadyChannel `finished` goes down from the handler to the jobs and
into an entry of a map; the goroutine that `addToWatchMaps` leaves, the watch
requests and the handler's own goroutine all receive from it.

`delete_all_user` and `clean_all_unused` are loops of the same calls, without
`deletePod`'s tests; the former puts what it deletes into the maps, the latter
does not. `get_pods` reads the maps. A restart leaves the cache files only.

## 2. Modules

    Channels          what other modules see of a ReadyChannel: no value, true or false
    OneShot           the abstract promise of a ReadyChannel
    ReadyChannel      util.go, statement by statement            -> ReadyChannelProofs
    CombineChannels   ReceiveReadyChannels, CombineReadyChannels -> CombineChannelsProofs
    PodLife           what create_pod and delete_pod promise: pods and answers only
    PodServer         create_pod and delete_pod, restarts        -> PodServerProofs,
                                                                    PodServerNamesProofs,
                                                                    PodLifeProofs
    PodWatch          extends PodServer with the watch requests
                      and get_pods                               -> PodWatchProofs
    UserStorage       the storage of one user, delete_all_user   -> UserStorageProofs
                      and clean_all_unused
    PodJobs           start and delete jobs of pods with one     -> PodJobsProofs
                      name, clean_all_unused for services and
                      caches, restart and reload
    MC*               instances of the above for TLC

Operators called "Faulty variant" in a module are mutations of the operator
defined next; they are not used by the specification, and show (PROJECT.json,
"mutants") that each property would notice such a bug.

**ReadyChannel and OneShot.** The mutex, the one-place buffer and the two fields
are variables; each `Send` and the timer is one step (Go's `select` with a
default), `Receive` is five: call, lock, return what is remembered or block on
the channel, take, remember, unlock. `OneShot` is what everyone relies on: one
value, settled once, answers equal to it. `ReadyChannel` implements it
(`KeepsPromise`), with a value counted as settled when it is in the buffer, in the
hand of the receiver that took it, or remembered. The other modules use that
abstraction: a channel is a cell of `Channels`, `Sent` keeps the first value.

**CombineChannels.** N channels that settle in any order or time out, one
goroutine that receives them in turn, the timer of the output.

**PodServer.** `podAt[n]` is the pod *object* at a name, and the object is called
after the creation request that made it, which keeps apart two pods with one name:
that is where this code can go wrong, since its maps, watches and calls go by name.
Candidate names are a constant (per user, in the order tried by
`applyCreatePodName`), and users may have names in common. A creation goes from
`idle` through `named`, `created`, `registered`; a deletion through `check`, `init`,
`request`, `register`, `accepted`, with an error path out of each. The calls that
create and delete a pod may fail without an effect, or take effect and lose their
reply: then the client is told of an error and nothing in the backend knows of the
pod, or of its end. A creation that fails becomes a deletion of its own (`Deletions
== Deletes \cup Creates`). `CreatingPods` and `DeletingPods` hold the request whose
entry it is; `removingCreating` and `removingDeleting` are the goroutines left by
`addToWatchMaps`. Watches are `spawned`, then `open` or `failed`. Kubernetes makes a
pending pod ready, modifies a ready one, and lets a terminating one go. A `Restart`
may come at any time and any number of times: maps, requests, watches and timers are
gone, the pods stay, and requests come anew for pods in any phase.

**PodLife.** The promise behind PodServer, without names, watches, maps, goroutines
or timers: a pod is absent, present, terminating or gone; a creation is answered
once and has one outcome; a deletion is about one pod of its own user, which it
brings to an end or leaves alone, and succeeds only when that pod is gone; the
backend deletes on its own only after a creation that was answered and failed.
It also has what the code cannot avoid, because it calls by name: the pod that is
asked to go may be another one, but only when the one found is gone. A restart
keeps the pods and forgets the requests. PodServer
implements it (`KeepsPodLife`): `life` is `phase` without readiness, `answer` and
`asked` are read off the places of the requests, `outcome` is `created`, `victim`
is `found` and `end` is `deleted`.

**PodWatch.** A watch request is of either kind, about any name and by any user; it
looks up the map, then receives or asks the API. A `get_pods` request lists the
user's pods and then takes the mutex once for each, to look it up in the two maps;
`told` is what it said of the last one. The module extends PodServer: its steps
leave PodServer's variables alone, so that one request stands for any number. A
restart drops the request.

**UserStorage.** One user. A pod is in `Mounting` if it mounts the storage.
`object[k]` is the request that made the PV or PVC, `mark` the object that a
deletion found. `DeleteUserStorage` is one set of actions for its three callers:
`deletePod` (known by its pod), `delete_all_user` and `clean_all_unused`
(`Sweeps`). The steps of `deletePod` up to the call that deletes the pod are one
action here, since PodServer has them. `delete_all_user` has its loop: each pod of
the list is skipped (`SkipDeleting`), or asked to go and registered, or the call
fails; `asked` are the pods whose channel is in `chanList`, `left` those passed
over. A watch is not followed any more when its channel has a value.

**PodJobs.** The jobs of an old pod that is gone and of a new one with its name,
from the point where both may start (`RunDeleteJobsWhenReady` and
`RunStartJobsWhenReady` have received true), and `clean_all_unused`, which takes
what it finds without a pod. `JobSets` says which of them run together. Services,
ingress and cache are known by the pod they were made for; `needs` is the set of
services that pods of this name need, chosen at the start. `at` is the loop
variable `service` that the goroutines of `DeleteAllServices`, and those of
`clean_all_unused`, share (go 1.18). A restart ends all jobs, and `ReloadPodCaches`
writes the caches of the pods that are there.

### Abstractions

- One step is one critical section of the mutex, one API call, or one send of a
  goroutine. Anything may come in between.
- An event reaches the channels of the open watches in the step that causes it. An
  event that is delivered late, or after the timer, cannot be told from a watch
  that was opened late, and a watch may be opened at any time.
- A timer may fire at any time after its channel was made: only its order with
  respect to other steps matters, no duration does.
- A failing API call has no effect, except for the lost replies of PodServer.
- A watch that belongs to a request that was turned down is dropped: it can only
  log. The same for a watch whose channel has a value.
- In PodServer the jobs are an outcome: true only after what they wait for was
  true, else anything. PodJobs has the jobs. In UserStorage what the deletion of a
  pod reports to `delete_all_user` is an outcome too: true only if the pod is gone
  (`DeletedMeansGone` of PodServer).

### Not modelled

- The text of names. `GetUserString` (`managed.go:83`) is not injective: `@` and
  `.` become `-`, so that `a.b@c.d` and `a@b.c.d` share the names of their pods,
  and a base name may run into a user string. PodServer therefore assumes nothing
  of the names that users may be given, and has two users with the same name in
  its run; the keys of `DeletingStorage` leave out the domain
  (`server.go:465`), so that two users may share an entry. The code around the
  names is string manipulation without a state.
- `get_podip_owner`: a loop of nine reads, with no state of its own and nobody
  else's to change.
- The content of a cache and the tokens in it, beyond whether they are there;
  manifests and the settings applied to them, whose failure is a step of
  PodServer; the configuration; HTTP; the test utilities.
- Restarts next to storage: UserStorage has none. Its maps would be emptied and
  its watches lost, as PodServer shows for its own.
- Two creations of one user's storage at once are in the module and in its proofs,
  but in no run: with a deletion they have millions of states, and break
  `StorageReadyMeansReady` (below).
- Lost replies of the calls for storage, services and
  ingresses; a read of `service.Name` while the loop writes it (a torn string);
  pods that fail, or are deleted by others than the backend.

## 3. Runs

Nine runs pass. Each finishes in less than five minutes with two workers.
Deadlock is checked for ReadyChannel only: the other instances have finitely many
requests, and end.

| Run | Instance | Shows |
|---|---|---|
| ReadyChannel | 3 receivers, concurrent senders, the timer | receivers agree on the first value; `OneShot` is implemented; every `Receive` returns |
| CombineChannels | 3 inputs with timers | the output is the conjunction or a timeout, and the goroutine ends |
| PodServer | two of three creations, alice's with bob's or with another of alice's, together or one after another, at the one name that both users share; a deletion by alice; the first creation may become a second deletion; calls fail, replies are lost, the backend restarts | what success, acceptance and an entry mean; whose pod is deleted, and by whom, when the name is used again |
| PodServerLive | one creation and one deletion, restarts, no failing calls, fairness | a failed creation is deleted; the maps drain; `PodLife` is implemented |
| PodWatch | one creation that may become a deletion, and a watch request of either kind or a `get_pods`, by either user; calls fail, replies are lost, the backend restarts | others learn nothing; `{deleted: true}` means gone; a status is not contradicted by what is under way; requests are answered |
| UserStorage | a running pod is deleted while another is created; calls fail | success is about the storage that was found or made; no listed pod loses its storage |
| UserStorageSweeps | `delete_all_user` next to a deletion of the same pod; calls fail; fairness | `{deleted: true}` means that pods, volume and claim are gone; `delete_pod` is answered |
| UserStorageAnswers | `delete_all_user` next to `clean_all_unused`, each deleting what the other waits for; calls fail; fairness | both are answered |
| PodJobs | the old pod's jobs and the new one's; the old one's, `clean_all_unused` and a restart; the new one's and `clean_all_unused`; the new one's and a restart; for pods with the http service and ingress or with the ssh service; calls fail; fairness | success means gone; a started pod is served by its own objects; `clean_all_unused` leaves nothing; all of them end |

Bounds. The races of this code are between a step of one request and a later step
of another, or of a goroutine it left behind, so that two requests and their
goroutines show each of them. In PodServer two creations and two deletions meet at
one name, the smallest instance in which a pod has the name of an earlier one, of
the same user or of another. One name is enough, since nothing in the backend
relates two names; what holds is proved for any number of names and requests.
The run has a constraint and a view (MCPodServer). `TwoCreations` is the bound:
of the second creations, bob's and alice's, one runs, and its own failure is not
followed by a deletion, which is then the first one's only. `WhatMatters` leaves
out of the comparison of states what no step and no property looks at any more:
the watch of a channel that has a value, and the channel and watch of a creation
or deletion whose outcome is settled; a restart clears both. The run has no
liveness property, for which neither would be sound. Three receivers, and three inputs, are one
more than the smallest number that can go wrong. Nothing in the modules is
unbounded: there are no counters, a ReadyChannel that has a value ignores what
comes later, and the restarts of PodServer, though any number of them may come,
add no counter. PodJobs has at most one restart, before, amid or after each job.

Three runs are refuted, each with a statement of the repository (PROJECT.json,
"findings", quotes it):

| Run | What happens |
|---|---|
| PodServerDeletesAnother | two creations of one name: the deletion after the first, failed, one hits the pod of the second |
| UserStorageLeak | the last pod is gone, the storage stays: the entry of a listed pod was removed before the test |
| PodJobsCapture | both goroutines watch the last service, so that "all services deleted" may be reported while one is there |

`TrueMeansServicesGone` is checked on both sides: it holds in the instance without
the circumstance, a second service, and is refuted in the one with it. What the
README of the backend says of a failed creation, `FailedCreateDeletesItsOwn`, is
refuted; what is left of it is `FailedCreateSparesOthers`, which the PodServer run
checks with the same names used again: the pod of another creation is hit only when
the creation's own pod had the name and is gone. In particular, of two creations
that choose one name at the same time, the loser never deletes the winner's pod.

`OnlyOwnerDeletes`, `CreatingEntry`, `CreatedMeansReady` and
`FailedCreateSparesOthers` have a second alternative, for what a name used again
leads to. Each is needed in the run: without its second alternative, TLC
refutes the property there.

### Seen with other constants, or read off the actions

These are not among the runs. Where a property is named, a cfg with other
constants shows it; the others need a state predicate of their own, or can be
read off the actions.

- PodServer, in its run: the goroutine of the older creation removes the
  `CreatingPods` entry of the newer (`server.go:141`), and a watch by name opened
  for the older takes the newer's readiness for its own (`k8sclient.go:53`); these
  are the second alternatives of `CreatingEntry` and `CreatedMeansReady`.
- PodServer with two deletions of one pod: both pass the test of `DeletingPods`
  (`server.go:435`) and the first to end removes the entry of the other; this is
  why `DeletingEntry` has its second disjunct.
- PodServer with one creation and two deletions, failing calls and lost replies, and
  `KeepsPodLife` added: it holds there too.
- PodServer, in its run: alice's deletion finds her pod, which goes; bob's gets the
  name that they share, and the call by name (`poddeleter.go:68`) reaches it. This
  is the second alternative of `OnlyOwnerDeletes`.
- PodServer with a name used again: the deletion after a failed creation is
  refused because of a leftover entry (`server.go:437`), and nobody tries again;
  `FailedCreateIsDeleted` fails. A pod whose creation lost its reply, or whose
  creation was under way in a restart, is deleted by nobody unless its owner asks.
- PodWatch: `{ready: true}` for a pod that exists, but is not ready and has no
  entry yet or any more (`server.go:364`); `{deleted: true}` to the owner of a pod
  that is there, when the call to the API failed (`server.go:541`). After
  `watch_create_pod` has answered, `get_pods` may still say "Creating", until the
  goroutine of the entry has run; it may read a cache file between its removal
  and its rewriting.
- PodWatch with a `delete_pod` next to the deletion that follows the failed creation:
  `StatusIsTrue` fails, when both pass the test of `DeletingPods` and the first to
  end removes the entry of the other. With two creations of one name it fails too,
  even if deletions do not overlap, and so does `DeletedAnswerMeansGone`: the
  event, or the entry, was the other pod's.
- UserStorage: a pod created after the list of the user's pods loses its storage
  (`server.go:386`), and so do all of them when the list fails, since an error
  counts as "no pods" (`server.go:390`). `clean_all_unused` has the same gap between
  its list and its calls (`server.go:699-706`), and looks at claims only: a volume
  whose claim could not be made stays (`server.go:689`).
- UserStorage: `{deleted: true}` of `delete_all_user` does not wait for pods that
  it passed over and that mount no storage (`server.go:579`).
- UserStorage with two first creations: the one that gets `AlreadyExists`
  (`managed.go:243`) leaves `storageReady` to its timer, and its pod is deleted as
  failed although its storage is there.
- UserStorage with two first creations and a deletion: the first one's watch reports
  the volume that the second made (`k8sclient.go:53`), the deletion removes it, and
  the first, which had listed before, then makes its own and is told that it is
  ready; `StorageReadyMeansReady` fails. In all, 23 steps.
- UserStorage with two deletions: both are in `DeleteUserStorage` at once, because
  the entry of `DeletingStorage` is made only afterwards (`server.go:473`).
- PodJobs: `true` is sent although a service or the ingress could not be made
  (`managed.go:598`, `602`), where the comment says "send false if any step fails"
  (`managed.go:566-567`). The delete jobs of the old pod delete the ingress or a
  service of the new one (`managed.go:557`), and `clean_all_unused` a service or a
  cache whose pod was created since it looked for it (`server.go:683`, `734`); it
  does not look at ingresses.
- PodJobs for pods that need both services, without failing calls: all properties of
  the run hold (2.5 million states). With failing calls `StartedMeansClean` and
  `CleanMeansClean` fail as `TrueMeansServicesGone` does in PodJobsCapture.
- PodJobs: the reload replaces a cache by one without tokens when the pod cannot
  be asked for them, and a restart amid the start jobs may cache the port of the
  old pod's ssh service.
- `User.ListPods` leaves a zero `Pod{}` for a pod whose labels match another user
  (`managed.go:61-68`). No pod made by the backend is like that; the mutants
  `ListPodsAndZero` and `GetListZeroes` show that the code relies on it.

### Fairness

- A handler or goroutine that can go on does (weak fairness of its steps): Go's
  scheduler and the HTTP client do not stop for ever. Where a call may fail, the
  fairness is of "succeeds or fails". In PodJobs one condition covers all job
  steps and timers, since none of them can be taken again and again.
- Timers fire: `NewReadyChannel` starts each of them with its channel.
- `Lock` of a ReadyChannel is strongly fair: Go's mutex hands over to a waiter
  that has waited for more than 1 ms ("starvation mode").
- A terminating pod is gone in the end (Kubernetes' grace period).
- In PodWatch only the timers and the request itself are fair: it is answered
  whatever creations and deletions do.
- A restart may come, and ends what was promised to a client whose connection is
  gone: `FailedCreateIsDeleted` and `WatchAnswers` say so.
- Not assumed: that clients ask for anything, that a watch is opened in time or
  ever, that a pod becomes ready, that storage objects go, that jobs succeed, or
  that the backend restarts or does not.

## 4. Proofs

TLAPS proves, for any sets of users, names, pods and requests:

- **ReadyChannelProofs**: `TypeCorrect`, `ReceiversAgree`, and `ImplementsPromise`,
  the step simulation of `OneShot`. The inductive invariant says where the one
  value is (buffer, hand, memory) and that only the holder of the mutex may be
  between taking and remembering.
- **CombineChannelsProofs**: `TypeCorrect`, `TrueIsUnanimous` and `FalseIsCaused`
  for any number of inputs. The invariant relates the partial conjunction `output`
  to the inputs received so far.
- **PodServerProofs**: `TypeCorrect`; `SuccessIsTheEnd` (`DeletedMeansGone`) and
  `AcceptedIsUnderWay` (`AcceptedMeansRequested`), however often names are used
  again, replies are lost and the backend restarts; `OwnersOnly`
  (`OnlyOwnerDeletes`), whatever names users share. The argument: an object holds its
  name until it is gone, objects are never under a name that was not chosen for them,
  and so what a deletion found at its name is still there until it terminates and
  goes. Hence an event "deleted" at that name, after the pod was found, cannot come
  without the found pod being gone, and a call by name after the check of the owner
  either hits the found pod or a later one: the former must be gone in the second
  case. A pod that is hit instead of it has a name that its own user and the user of
  the deletion can both be given (`OwnersStep`). `EntryUntilDone` (`DeletingEntry`)
  needs a second invariant, `Entries`: a goroutine of `addToWatchMaps` belongs to
  each accepted deletion until it is done, and an entry that is missing was removed
  by the goroutine of another deletion of that name, which keeps being a witness.
- **PodServerNamesProofs**: what the backend makes of a name that pods have one after
  another. `CreationHasEntry` (`CreatingEntry`): only the goroutine of a creation of
  that name removes an entry, and one that has done so keeps being a witness
  (`DoneStays`). `ReadyWhenCreated` (`CreatedMeansReady`): a true stands for the
  readiness of a pod of the name (`NameWasReady`), since a creation has a name before
  it has a watch. `OthersAreSpared` (`FailedCreateSparesOthers`): a creation fails
  only after its pod was made (`Made`), its deletion has its own name (`OwnName`),
  and so the pod that is hit is its own, or its own one, which was made under that
  name, is gone. These have no premise. `DeletionHasOwnEntry` strengthens
  `DeletingEntry` under a premise, `[]DeletionsApart`: if no two deletions of one
  name are between the test of the map and the new entry (`server.go:436-455`), then
  an accepted deletion has its own entry until it is done, since a goroutine removes
  what it has put there and nothing else.
- **PodLifeProofs**: `ImplementsPodLife` (`KeepsPodLife`), by step simulation: for
  each action of PodServer the proof says which step of PodLife it is, or that it is
  none. It rests on PodServer's invariant: the object that a call by name hits is
  alive, it is the one found or that one is gone, and the deletion of a failed
  creation found a pod of its own user. It uses `Made` too: a creation goes on only
  after its pod was made.
- **PodWatchProofs**: `WatchTypeCorrect`, and `OthersStayHidden`
  (`NonOwnerLearnsNothing`). A step of PodWatch is a step of PodServer or leaves its
  variables alone (`WatchStepIsStep`), so PodServer's invariant is one of PodWatch.
  In addition `MapEntries`: an entry of a map is of a creation that has the name, or
  of an accepted deletion that found a pod with the name and with its own user; and
  `Waiting`: that stays true of the entry a request waits on after it has left the
  map, since only a restart takes a name away from a creation, and a restart takes
  the request too. So a request can wait only if its user had a pod of that name.
  What the user is told of their own pods needs premises, and fails without them
  (above). `DeletedAnswerIsTrue` (`DeletedAnswerMeansGone`) is for names used once:
  an API answer without the pod means that the one pod of that name is gone, and so
  does the true of an entry (`TrueDeletion`). `ToldStatusIsTrue` (`StatusIsTrue`) is
  for names used once and `DeletionsApart`, under which every creation and every
  deletion under way has its entry (`CreationHasEntry`, `DeletionHasOwnEntry`; with
  names used once no other creation takes it), and no entry under the name of a
  listed pod is about another pod (`TrueStatus`).
- **UserStorageProofs**: `TypeCorrect`; `SuccessIsTheEnd` (`CleanedMeansDeleted`)
  and `ListedPodsKeepStorage` (`NoListedPodLosesStorage`), with any number of
  creations, deletions, `delete_all_user` and `clean_all_unused` requests, and with
  failing calls. A creation makes each object at most once (`Unmade`), hence one
  that is gone does not come back, and a watch by name can only have seen the end
  of the object that was found or of a later one (`Ended`). A pod on the list was
  there, and is being deleted once it is in `DeletingPods` (`Deleting`, `Listing`);
  no step makes it a present pod again. `AllDeletedIsTheEnd`
  (`AllDeletedMeansGone`) needs more: what `finished = "true"` was computed from
  (`Reported`), that passed-over pods had been created (`Passed`), and, as long as
  no creation has begun, that an object whose end was reported stays gone and that
  no mounting pod outlives the claim (`StaysGone`). `StorageReadyIsReady`
  (`StorageReadyMeansReady`) has the premise `ListStillTrue`: at the call that makes
  an object there is still none, as the creation's list has said. Then no watch has
  reported anything when the creation makes its object (`ReadyCell`), and a
  readiness reported later is that object's as long as it is there.
  `OneCreationIsReady` shows the premise for one creation and any deletions.
- **PodJobsProofs**: `TypeCorrect`, which says that the shared loop variable stays
  within its list; then `ServicesGone` (`TrueMeansServicesGone`), `StartedIsClean`
  (`StartedMeansClean`) and `CleanedIsClean` (`CleanMeansClean`) with the premise
  `[]NoCapture`: no goroutine of the loop reads another's service, or no call
  fails. That is what the finding PodJobsCapture is about. The argument: objects of
  the old pod are never made and those of the new one once, by its start jobs, so
  that what is gone stays gone (`TrueMeansGone`); what a job found when it listed
  is all there can be until the new pod's start jobs have got past their own
  deletion (`OldAreListed`, `UnusedAreListed`). `CleanWithoutCapture` shows the
  premise where no pod has two services, or no call fails, for any combination of
  jobs, restart and reload.

Assumptions are those on the constants stated in the modules; TLC evaluates them.

Every invariant and every action property of a passing run is stated by a theorem,
and so are both refinements. Some hold under a premise only, in each case one without
which TLC finds a counterexample: `NamesUsedOnce`, `DeletionsApart`, `ListStillTrue`
and `NoCapture`. Each speaks of the circumstance that brings the backend down (a name
used again, two deletions in the same gap, a list that is out of date, a captured
loop variable) and not of the conclusion; the instances of the runs meet them.

Only model-checked: all liveness properties (`ReceiveReturns`, `CombineReturns`,
`MapsDrain`, `FailedCreateIsDeleted`, `DeletionAnswers`, `SweepAnswers`,
`WatchAnswers`, `JobsEnd`), since fairness is beyond the prover.

## 5. Order of work

Done, in this order: ReadyChannel and its promise; CombineChannels; PodServer and its
proofs; UserStorage and its proofs; PodJobs; PodWatch; lost replies and restarts in
PodServer and PodWatch; `delete_all_user` and `clean_all_unused` in UserStorage;
`clean_all_unused`, restart and reload in PodJobs; `get_pods`; the proofs of
PodWatch; the proofs of PodJobs, of storage that is ready, and of what users are told
of their own pods; PodLife and its refinement; names that are shared and used again
in PodServer's run and proofs.

What could follow:

1. The text of names on bounded inputs: which users share names.
2. A restart in UserStorage.
3. An abstract promise of UserStorage and PodJobs, as PodLife is of PodServer.
