------------------------------- MODULE PodWatch -------------------------------
(***************************************************************************)
(* watch_create_pod, watch_delete_pod and get_pods next to everything that *)
(* module PodServer models.  A watch request looks up the watch map under  *)
(* the mutex, then, without it, waits for the ReadyChannel of the entry it *)
(* found or asks the API who owns the pod.  get_pods lists the user's pods *)
(* and then looks each one up in the watch maps.                           *)
(*                                                                         *)
(* A request changes nothing that another one reads, so that one request   *)
(* of any kind, for any user and name, stands for any number of them.  A   *)
(* restart of the backend drops it: the client has to ask again.           *)
(***************************************************************************)
EXTENDS PodServer

CONSTANTS
    WatchRequests,
    OwnsPodMayFail    \* may the list of pods fail, in OwnsPod or in getPods?

ASSUME PodWatchAssumption == OwnsPodMayFail \in BOOLEAN

WatchKinds == {"create", "delete"}

\* What a client asks: about any name, or for all its pods, and as any user.
Requests == [kind : WatchKinds, user : Users, name : Names] \cup [kind : {"get"}, user : Users]

\* podInfo.Status of a pod in the response of get_pods; Phase stands for the
\* phase that Kubernetes gives it.
Statuses == {"Creating", "Deleting", "Phase"}

VARIABLES
    wpc,              \* where each request is
    request,          \* what it asks, or None before it comes and after its answer
    wentry,           \* the request whose ReadyChannel was found, or None
    response,         \* response.Ready or response.Deleted as it was sent
    podList,          \* the listed pods that get_pods has yet to look up
    told              \* the last pod that it looked up, with its status, or None

watching == <<wpc, request, wentry, response, podList, told>>

\* "error" is the end of a request whose error was logged; the client gets
\* response as it is then.
WatchPCs == {"idle", "lookup", "receive", "ask", "list", "report", "answered", "error"}

WatchTypeOK ==
    /\ TypeOK
    /\ wpc \in [WatchRequests -> WatchPCs]
    /\ request \in [WatchRequests -> Requests \cup {None}]
    /\ wentry \in [WatchRequests -> Deletions \cup {None}]
    /\ response \in [WatchRequests -> Cells]
    /\ podList \in [WatchRequests -> SUBSET Creates]
    /\ told \in [WatchRequests -> [pod : Creates, status : Statuses] \cup {None}]

WatchInit ==
    /\ Init
    /\ wpc = [w \in WatchRequests |-> "idle"]
    /\ request = [w \in WatchRequests |-> None]
    /\ wentry = [w \in WatchRequests |-> None]
    /\ response = [w \in WatchRequests |-> NoValue]
    /\ podList = [w \in WatchRequests |-> {}]
    /\ told = [w \in WatchRequests |-> None]

\* What the response holds before anything is known.
Default(r) == IF r.kind = "create" THEN "false" ELSE "true"

\* The entry that a request looks for, in the map of its kind.
Entry(r) == IF r.kind = "create" THEN CreatingPods[r.name] ELSE DeletingPods[r.name]

\* The channel of an entry, as it is now: the request keeps the entry when it
\* has been removed from the map.
Channel(r, e) == IF r.kind = "create" THEN created[e] ELSE deleted[e]

\* The handler returns, and with it go its variables.
Respond(w, from, to, v) ==
    /\ wpc[w] = from
    /\ wpc' = [wpc EXCEPT ![w] = to]
    /\ response' = [response EXCEPT ![w] = v]
    /\ request' = [request EXCEPT ![w] = None]
    /\ wentry' = [wentry EXCEPT ![w] = None]
    /\ UNCHANGED <<vars, podList, told>>

WatchRequested(w, r) ==
    /\ wpc[w] = "idle"
    /\ wpc' = [wpc EXCEPT ![w] = IF r.kind = "get" THEN "list" ELSE "lookup"]
    /\ request' = [request EXCEPT ![w] = r]
    /\ UNCHANGED <<vars, wentry, response, podList, told>>

\* There is no entry: ask the API.
NoEntry(w) ==
    /\ wpc[w] = "lookup"
    /\ Entry(request[w]) = None
    /\ wpc' = [wpc EXCEPT ![w] = "ask"]
    /\ UNCHANGED <<vars, request, wentry, response, podList, told>>

\* Faulty variant: authCheck is not looked at.
MatchesAnyone(e, r) == e # None

\* entry.authCheck == request.UserID
Matches(e, r) == e # None /\ UserOf[e] = r.user

\* There is one of another user: an error.
AnotherUsersEntry(w) ==
    /\ wpc[w] = "lookup"
    /\ Entry(request[w]) # None
    /\ ~Matches(Entry(request[w]), request[w])
    /\ Respond(w, "lookup", "error", Default(request[w]))

\* There is one to wait for.
FindEntry(w) ==
    /\ wpc[w] = "lookup"
    /\ Matches(Entry(request[w]), request[w])
    /\ wpc' = [wpc EXCEPT ![w] = "receive"]
    /\ wentry' = [wentry EXCEPT ![w] = Entry(request[w])]
    /\ UNCHANGED <<vars, request, response, podList, told>>

\* Faulty variant: only a true ends the wait.
ReceiveTrue(w) ==
    /\ wpc[w] = "receive"
    /\ Channel(request[w], wentry[w]) = "true"
    /\ Respond(w, "receive", "answered", "true")

\* entry.readyChannel.Receive()
ReceiveEntry(w) ==
    /\ wpc[w] = "receive"
    /\ Channel(request[w], wentry[w]) # NoValue
    /\ Respond(w, "receive", "answered", Channel(request[w], wentry[w]))

\* Faulty variant: the list leaves out the pods that terminate.
OwnsLivePod(r) == r.name \in OwnedBy(r.user) /\ phase[podAt[r.name]] # "terminating"

\* User.OwnsPod: does the user have a pod of that name?
OwnsPod(r) == r.name \in OwnedBy(r.user)

AskOwner(w) ==
    /\ wpc[w] = "ask"
    /\ LET yes == OwnsPod(request[w]) = (request[w].kind = "create") IN
          Respond(w, "ask", "answered", IF yes THEN "true" ELSE "false")

AskOwnerFails(w) ==
    /\ OwnsPodMayFail
    /\ wpc[w] = "ask"
    /\ Respond(w, "ask", "error", Default(request[w]))

-------------------------------------------------------------------------------
(***************************************************************************)
(* get_pods                                                                *)
(***************************************************************************)
\* Faulty variant: a zero Pod{} stays in the place of each pod of another user.
GetListZeroes(w) ==
    /\ wpc[w] = "list"
    /\ wpc' = [wpc EXCEPT ![w] = "report"]
    /\ podList' = [podList EXCEPT ![w] =
                      {IF n \in OwnedBy(request[w].user) THEN podAt[n] ELSE None : n \in Names}]
    /\ UNCHANGED <<vars, request, wentry, response, told>>

\* user.ListPods; what it says of each pod (its phase, address, ...) is old by
\* the time the response goes out.
GetList(w) ==
    /\ wpc[w] = "list"
    /\ wpc' = [wpc EXCEPT ![w] = "report"]
    /\ podList' = [podList EXCEPT ![w] = {podAt[n] : n \in OwnedBy(request[w].user)}]
    /\ UNCHANGED <<vars, request, wentry, response, told>>

GetListFails(w) ==
    /\ OwnsPodMayFail
    /\ wpc[w] = "list"
    /\ wpc' = [wpc EXCEPT ![w] = "error"]
    /\ request' = [request EXCEPT ![w] = None]
    /\ UNCHANGED <<vars, wentry, response, podList, told>>

\* Faulty variant: only CreatingPods is looked at.
StatusIfCreated(i) == IF CreatingPods[target[i]] # None THEN "Creating" ELSE "Phase"

\* The status of a listed pod, by what the maps have for its name now.
Status(i) ==
    IF CreatingPods[target[i]] # None THEN "Creating"
    ELSE IF DeletingPods[target[i]] # None THEN "Deleting" ELSE "Phase"

\* One turn of the loop over the list, under the mutex.
TellStatus(w) ==
    /\ wpc[w] = "report"
    /\ \E i \in podList[w] :
        /\ told' = [told EXCEPT ![w] = [pod |-> i, status |-> Status(i)]]
        /\ podList' = [podList EXCEPT ![w] = @ \ {i}]
    /\ UNCHANGED <<vars, wpc, request, wentry, response>>

GetDone(w) ==
    /\ wpc[w] = "report"
    /\ podList[w] = {}
    /\ wpc' = [wpc EXCEPT ![w] = "answered"]
    /\ request' = [request EXCEPT ![w] = None]
    /\ told' = [told EXCEPT ![w] = None]
    /\ UNCHANGED <<vars, wentry, response, podList>>

-------------------------------------------------------------------------------
\* The connections are closed with the backend.
WatchRestart ==
    /\ Restart
    /\ wpc' = [w \in WatchRequests |-> "idle"]
    /\ request' = [w \in WatchRequests |-> None]
    /\ wentry' = [w \in WatchRequests |-> None]
    /\ response' = [w \in WatchRequests |-> NoValue]
    /\ podList' = [w \in WatchRequests |-> {}]
    /\ told' = [w \in WatchRequests |-> None]

WatchSteps(w) ==
    \/ \E r \in Requests : WatchRequested(w, r)
    \/ NoEntry(w) \/ AnotherUsersEntry(w) \/ FindEntry(w)
    \/ ReceiveEntry(w)
    \/ AskOwner(w) \/ AskOwnerFails(w)
    \/ GetList(w) \/ GetListFails(w) \/ TellStatus(w) \/ GetDone(w)

WatchNext ==
    \/ Steps /\ UNCHANGED watching
    \/ WatchRestart
    \/ \E w \in WatchRequests : WatchSteps(w)

WatchSpec == WatchInit /\ [][WatchNext]_<<vars, watching>>

\* Timers fire, and a watch request that has been made goes on: nothing else in
\* PodServer is needed for it to be answered.
WatchFairness ==
    /\ \A c \in Creates : WF_vars(CreatedTimeout(c))
    /\ \A d \in Deletions : WF_vars(DeletedTimeout(d))
    /\ \A w \in WatchRequests :
        /\ WF_watching(NoEntry(w) \/ AnotherUsersEntry(w) \/ FindEntry(w))
        /\ WF_watching(ReceiveEntry(w))
        /\ WF_watching(AskOwner(w) \/ AskOwnerFails(w))
        /\ WF_watching(GetList(w) \/ GetListFails(w))
        /\ WF_watching(TellStatus(w) \/ GetDone(w))

FairWatchSpec == WatchSpec /\ WatchFairness

-------------------------------------------------------------------------------
\* "the watch functions cannot be abused to get information about whether other
\* users have a pod with the given name" (README.md:59-61): about a name that no
\* pod of the user ever had, the answer is the default, whatever the pods of
\* others under that name are going through.
NonOwnerLearnsNothing ==
    [][\A w \in WatchRequests : response'[w] \notin {response[w], NoValue} =>
          LET r == request[w] IN
          (\A c \in Creates : target[c] = r.name => UserOf[c] # r.user)
              => response'[w] = Default(r)]_<<vars, watching>>

\* A request is answered, also if the entry it waits on is removed from the map,
\* or the pod disappears, in the meantime (server.go:204, 354, 534), unless a
\* restart ends it.
WatchAnswers ==
    \A w \in WatchRequests :
        (wpc[w] \in {"lookup", "list"}) ~> (wpc[w] \in {"answered", "error", "idle"})

\* When watch_delete_pod tells the owner of a pod {deleted: true}, and no call
\* failed, the pod is gone from the name: false "iff: (the ready channel retuns
\* false, or (there is no s.DeletingPods entry and the user owns a pod with that
\* podName))" (server.go:518-519).
DeletedAnswerMeansGone ==
    [][\A w \in WatchRequests :
          wpc[w] # "answered" /\ wpc'[w] = "answered" /\ response'[w] = "true" /\
          request[w].kind = "delete" =>
          request[w].name \notin OwnedBy(request[w].user)]_<<vars, watching>>

\* What get_pods tells of a pod is not contradicted by the requests the backend
\* has accepted, although list and maps are read at different times and the
\* entries are removed by goroutines of their own (server.go:204-229): it gives
\* the plain phase only of a pod that no registered creation and no accepted
\* deletion is still at work on, and calls "Deleting" only a pod on its way out.
StatusIsTrue ==
    [][\A w \in WatchRequests : told'[w] \notin {told[w], None} =>
          LET i == told'[w].pod IN
          /\ told'[w].status = "Phase" =>
                /\ cpc[i] = "registered" => created[i] # NoValue
                /\ \A d \in Deletions :
                      dpc[d] = "accepted" /\ found[d] = i => deleted[d] # NoValue
          /\ told'[w].status = "Deleting" =>
                phase[i] \in {"terminating", "gone"}]_<<vars, watching>>
===============================================================================
