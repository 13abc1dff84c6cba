---------------------------- MODULE PodWatchProofs ----------------------------
(***************************************************************************)
(* Proofs about PodWatch for any users, names and requests, with names     *)
(* used again, failing calls, lost replies and restarts: the type          *)
(* invariant, and that a watch request tells nothing of the pods of other  *)
(* users.  The latter rests on what the watch maps hold: the entry under a *)
(* name is of a pod that had that name and the user of the entry.  For     *)
(* names used once it follows that what the user is told of their own pods *)
(* is true.                                                                *)
(***************************************************************************)
EXTENDS PodWatch, PodServerNamesProofs

\* The entries of the watch maps are of requests under their name that went
\* through the API.
MapEntries ==
    /\ \A n \in Names : CreatingPods[n] # None =>
          cpc[CreatingPods[n]] \in {"registered", "failed"} /\ target[CreatingPods[n]] = n
    /\ \A n \in Names : DeletingPods[n] # None =>
          dpc[DeletingPods[n]] = "accepted" /\ dname[DeletingPods[n]] = n

WatchTypes ==
    /\ wpc \in [WatchRequests -> WatchPCs]
    /\ request \in [WatchRequests -> Requests \cup {None}]
    /\ wentry \in [WatchRequests -> Deletions \cup {None}]
    /\ response \in [WatchRequests -> Cells]
    /\ podList \in [WatchRequests -> SUBSET Creates]
    /\ told \in [WatchRequests -> [pod : Creates, status : Statuses] \cup {None}]

WatchRecords == [kind : WatchKinds, user : Users, name : Names]

\* A watch request that is under way is about a name; get_pods has steps of its
\* own.
Asked ==
    \A w \in WatchRequests :
        /\ wpc[w] \in {"lookup", "receive", "ask"} => request[w] \in WatchRecords
        /\ wpc[w] \in {"list", "report"} => request[w].kind = "get"

\* What a watch request waits on is of a request of its user's under its name,
\* whether the entry is still in the map or not.
OwnEntry(r, e) ==
    /\ e \in Deletions
    /\ UserOf[e] = r.user
    /\ \/ r.kind = "create" /\ e \in Creates /\ cpc[e] \in {"registered", "failed"}
                            /\ target[e] = r.name
       \/ r.kind = "delete" /\ dpc[e] = "accepted" /\ dname[e] = r.name

Waiting == \A w \in WatchRequests : wpc[w] = "receive" => OwnEntry(request[w], wentry[w])

WInv == WatchTypes /\ Asked /\ Waiting /\ MapEntries

-------------------------------------------------------------------------------
LEMMA NextMapEntries == IInv /\ MapEntries /\ [Steps]_vars => MapEntries'
<1> SUFFICES ASSUME IInv, MapEntries, [Steps]_vars PROVE MapEntries'
  OBVIOUS
<1> DEFINE InCreating(n) ==
             CreatingPods[n] # None =>
               cpc[CreatingPods[n]] \in {"registered", "failed"} /\ target[CreatingPods[n]] = n
           InDeleting(n) ==
             DeletingPods[n] # None =>
               dpc[DeletingPods[n]] = "accepted" /\ dname[DeletingPods[n]] = n
<1>0. /\ cpc \in [Creates -> CreatePCs] /\ CreatingPods \in [Names -> Creates \cup {None}]
      /\ dpc \in [Deletions -> DeletePCs] /\ DeletingPods \in [Names -> Deletions \cup {None}]
  BY DEF IInv, TypeOK
<1>1. ASSUME NEW n \in Names, CreatingPods'[n] = CreatingPods[n] PROVE InCreating(n)'
  BY <1>0, <1>1, RegisteredStays DEF MapEntries
<1>2. ASSUME NEW n \in Names, DeletingPods'[n] = DeletingPods[n] PROVE InDeleting(n)'
  BY <1>0, <1>2, AcceptedStays DEF MapEntries
<1>3. ASSUME NEW n \in Names PROVE InCreating(n)'
  <2>1. ASSUME NEW c \in Creates, RegisterCreation(c) PROVE InCreating(n)'
    <3>1. /\ cpc' = [cpc EXCEPT ![c] = "registered"] /\ UNCHANGED target
          /\ CreatingPods' = [CreatingPods EXCEPT ![target[c]] = c]
      BY <2>1 DEF RegisterCreation, GotoC
    <3>2. CASE n = target[c]
      BY <1>0, <3>1, <3>2
    <3> QED
      BY <1>0, <1>1, <3>1, <3>2
  <2>2. ASSUME NEW c \in Creates, RemoveCreating(c) PROVE InCreating(n)'
    BY <1>0, <1>1, <2>2 DEF RemoveCreating
  <2>3. CASE \A c \in Creates : ~RegisterCreation(c) /\ ~RemoveCreating(c)
    BY <1>1, <2>3, CreationsElsewhere
  <2> QED
    BY <2>1, <2>2, <2>3
<1>4. ASSUME NEW n \in Names PROVE InDeleting(n)'
  <2>1. ASSUME NEW d \in Deletions, RegisterDeletion(d) PROVE InDeleting(n)'
    <3>1. /\ dpc' = [dpc EXCEPT ![d] = "accepted"] /\ UNCHANGED dname
          /\ DeletingPods' = [DeletingPods EXCEPT ![dname[d]] = d]
      BY <2>1 DEF RegisterDeletion, GotoD
    <3>2. CASE n = dname[d]
      BY <1>0, <3>1, <3>2
    <3> QED
      BY <1>0, <1>2, <3>1, <3>2
  <2>2. ASSUME NEW d \in Deletions, RemoveDeleting(d) PROVE InDeleting(n)'
    BY <1>0, <1>2, <2>2 DEF RemoveDeleting
  <2>3. CASE \A d \in Deletions : ~RegisterDeletion(d) /\ ~RemoveDeleting(d)
    BY <1>2, <2>3, OthersLeaveEntries
  <2> QED
    BY <2>1, <2>2, <2>3
<1> QED
  BY <1>3, <1>4 DEF MapEntries

\* The steps of creations and deletions leave watch requests as they are.
LEMMA PodStepsWInv ==
  ASSUME IInv, WInv, [Steps]_vars, UNCHANGED watching PROVE WInv'
<1>1. WatchTypes' /\ Asked'
  BY DEF WInv, WatchTypes, Asked, watching
<1>2. ASSUME NEW w \in WatchRequests, wpc[w] = "receive" PROVE OwnEntry(request[w], wentry[w])'
  <2>1. OwnEntry(request[w], wentry[w]) /\ UNCHANGED <<request, wentry>>
    BY <1>2 DEF WInv, Waiting, watching
  <2> QED
    BY <2>1, RegisteredStays, AcceptedStays DEF OwnEntry
<1>3. Waiting'
  BY <1>2 DEF Waiting, watching
<1> QED
  BY <1>1, <1>3, NextMapEntries DEF WInv

LEMMA RestartWInv == ASSUME WatchRestart PROVE WInv'
<1>1. WatchTypes' /\ Asked' /\ Waiting'
  BY DEF WatchRestart, WatchTypes, Asked, Waiting, WatchPCs, Cells
<1>2. MapEntries'
  BY DEF WatchRestart, Restart, MapEntries
<1> QED
  BY <1>1, <1>2 DEF WInv

\* An answer is true or false, or none, and takes the request with it.
LEMMA RespondWInv ==
  ASSUME WInv, NEW w \in WatchRequests, NEW from, NEW to \in {"answered", "error"},
         NEW v \in Cells, Respond(w, from, to, v)
  PROVE  WInv'
<1>1. /\ wpc' = [wpc EXCEPT ![w] = to]
      /\ response' = [response EXCEPT ![w] = v]
      /\ request' = [request EXCEPT ![w] = None]
      /\ wentry' = [wentry EXCEPT ![w] = None]
      /\ UNCHANGED <<vars, podList, told>>
  BY DEF Respond
<1>2. UNCHANGED <<cpc, target, dpc, dname, CreatingPods, DeletingPods>>
  BY <1>1 DEF vars, creation, deletion, maps
<1>3. WatchTypes'
  BY <1>1 DEF WInv, WatchTypes, WatchPCs
<1>4. Asked'
  BY <1>1 DEF WInv, WatchTypes, Asked
<1>5. Waiting'
  BY <1>1, <1>2 DEF WInv, WatchTypes, Waiting, OwnEntry
<1>6. MapEntries'
  BY <1>2 DEF WInv, MapEntries
<1> QED
  BY <1>3, <1>4, <1>5, <1>6 DEF WInv

LEMMA WatchStepsWInv ==
  ASSUME IInv, WInv, NEW w \in WatchRequests, WatchSteps(w) PROVE WInv'
<1>0. /\ WatchTypes /\ Asked /\ Waiting /\ MapEntries
      /\ \A v \in Values : v \in Cells
      /\ \A r : Default(r) \in Values
      /\ "true" \in Values /\ "false" \in Values
      /\ created \in [Creates -> Cells] /\ deleted \in [Deletions -> Cells]
      /\ podAt \in [Names -> Creates \cup {None}]
      /\ CreatingPods \in [Names -> Creates \cup {None}]
      /\ DeletingPods \in [Names -> Deletions \cup {None}]
  BY DEF WInv, Cells, Values, Default, IInv, TypeOK
<1>1. CASE AnotherUsersEntry(w) \/ AskOwner(w) \/ AskOwnerFails(w)
  <2>1. \E from, to, v : to \in {"answered", "error"} /\ v \in Cells /\ Respond(w, from, to, v)
    BY <1>0, <1>1 DEF AnotherUsersEntry, AskOwner, AskOwnerFails
  <2> QED
    BY <2>1, RespondWInv
<1>2. CASE ReceiveEntry(w)
  <2>1. wpc[w] = "receive" /\ Respond(w, "receive", "answered", Channel(request[w], wentry[w]))
    BY <1>2 DEF ReceiveEntry
  <2>2. Channel(request[w], wentry[w]) \in Cells
    BY <1>0, <2>1 DEF Waiting, OwnEntry, Channel
  <2> QED
    BY <2>1, <2>2, RespondWInv
<1>3. CASE ~ \/ AnotherUsersEntry(w) \/ AskOwner(w) \/ AskOwnerFails(w) \/ ReceiveEntry(w)
  <2>1. UNCHANGED vars
    BY <1>3 DEF WatchSteps, WatchRequested, NoEntry, FindEntry, GetList, GetListFails,
                TellStatus, GetDone
  <2>2. UNCHANGED <<cpc, target, dpc, dname, CreatingPods, DeletingPods>>
    BY <2>1 DEF vars, creation, deletion, maps
  <2>3. MapEntries'
    BY <1>0, <2>2 DEF MapEntries
  <2>4. ASSUME NEW r \in Requests, WatchRequested(w, r) PROVE WatchTypes' /\ Asked' /\ Waiting'
    <3>1. r.kind # "get" => r \in WatchRecords
      BY DEF Requests, WatchRecords
    <3> QED
      BY <1>0, <2>2, <2>4, <3>1
         DEF WatchRequested, WatchTypes, WatchPCs, Asked, Waiting, OwnEntry
  <2>5. CASE NoEntry(w)
    BY <1>0, <2>2, <2>3, <2>5
       DEF NoEntry, WInv, WatchTypes, WatchPCs, Asked, Waiting, OwnEntry
  <2>6. CASE FindEntry(w)
    <3> DEFINE r == request[w]
               e == Entry(request[w])
    <3>1. /\ wpc[w] = "lookup" /\ wpc' = [wpc EXCEPT ![w] = "receive"]
          /\ e # None /\ UserOf[e] = r.user
          /\ wentry' = [wentry EXCEPT ![w] = e]
          /\ UNCHANGED <<request, response, podList, told>>
      BY <2>6 DEF FindEntry, Matches
    <3>2. r \in WatchRecords
      BY <1>0, <3>1 DEF Asked
    <3>3. OwnEntry(r, e)
      <4>1. r.name \in Names /\ r.kind \in {"create", "delete"}
        BY <3>2 DEF WatchRecords, WatchKinds
      <4>2. CASE r.kind = "create"
        BY <1>0, <3>1, <4>1, <4>2 DEF Entry, MapEntries, OwnEntry, Deletions
      <4>3. CASE r.kind = "delete"
        BY <1>0, <3>1, <4>1, <4>3 DEF Entry, MapEntries, OwnEntry
      <4> QED
        BY <4>1, <4>2, <4>3
    <3>4. WatchTypes' /\ Asked'
      BY <1>0, <3>1, <3>2, <3>3 DEF WatchTypes, WatchPCs, Asked, OwnEntry
    <3>5. Waiting'
      BY <1>0, <2>2, <3>1, <3>3 DEF WatchTypes, Waiting, OwnEntry
    <3> QED
      BY <2>3, <3>4, <3>5 DEF WInv
  <2>7. CASE GetList(w)
    <3>1. {podAt[n] : n \in OwnedBy(request[w].user)} \in SUBSET Creates
      BY <1>0 DEF OwnedBy
    <3> QED
      BY <1>0, <2>2, <2>3, <2>7, <3>1
         DEF GetList, WInv, WatchTypes, WatchPCs, Asked, Waiting, OwnEntry
  <2>8. CASE GetListFails(w) \/ GetDone(w)
    BY <1>0, <2>2, <2>3, <2>8
       DEF GetListFails, GetDone, WInv, WatchTypes, WatchPCs, Asked, Waiting, OwnEntry
  <2>9. CASE TellStatus(w)
    <3>1. PICK i \in podList[w] :
             /\ told' = [told EXCEPT ![w] = [pod |-> i, status |-> Status(i)]]
             /\ podList' = [podList EXCEPT ![w] = @ \ {i}]
      BY <2>9 DEF TellStatus
    <3>2. [pod |-> i, status |-> Status(i)] \in [pod : Creates, status : Statuses]
      BY <1>0, <3>1 DEF WatchTypes, Status, Statuses
    <3>3. UNCHANGED <<wpc, request, wentry, response>>
      BY <2>9 DEF TellStatus
    <3>4. WatchTypes'
      BY <1>0, <3>1, <3>2, <3>3 DEF WatchTypes
    <3> QED
      BY <1>0, <2>2, <2>3, <3>3, <3>4 DEF WInv, Asked, Waiting, OwnEntry
  <2> QED
    BY <1>3, <2>3, <2>4, <2>5, <2>6, <2>7, <2>8, <2>9 DEF WatchSteps, WInv
<1> QED
  BY <1>1, <1>2, <1>3

LEMMA WatchStepIsStep == [WatchNext]_<<vars, watching>> => [Next]_vars
<1>1. ASSUME NEW w \in WatchRequests, WatchSteps(w) PROVE UNCHANGED vars
  BY <1>1 DEF WatchSteps, WatchRequested, NoEntry, AnotherUsersEntry, FindEntry, ReceiveEntry,
              AskOwner, AskOwnerFails, Respond, GetList, GetListFails, TellStatus, GetDone
<1> QED
  BY <1>1 DEF WatchNext, WatchRestart, Next

LEMMA NextWInv == IInv /\ WInv /\ [WatchNext]_<<vars, watching>> => WInv'
<1> SUFFICES ASSUME IInv, WInv, [WatchNext]_<<vars, watching>> PROVE WInv'
  OBVIOUS
<1>1. CASE UNCHANGED <<vars, watching>> \/ (Steps /\ UNCHANGED watching)
  BY <1>1, PodStepsWInv
<1>2. CASE WatchRestart
  BY <1>2, RestartWInv
<1>3. ASSUME NEW w \in WatchRequests, WatchSteps(w) PROVE WInv'
  BY <1>3, WatchStepsWInv
<1> QED
  BY <1>1, <1>2, <1>3 DEF WatchNext

LEMMA WatchInvariant == WatchSpec => [](IInv /\ WInv)
<1>1. WatchInit => Init /\ WInv
  BY DEF WatchInit, Init, WInv, WatchTypes, Asked, Waiting, MapEntries, WatchPCs, Cells
<1>2. Init => IInv
  BY InitIInv
<1> QED
  BY <1>1, <1>2, NextIInv, NextWInv, WatchStepIsStep, PTL DEF WatchSpec

\* Every watch request and get_pods request is well typed.
THEOREM WatchTypeCorrect == WatchSpec => []WatchTypeOK
<1>1. IInv /\ WInv => WatchTypeOK
  BY DEF IInv, WInv, WatchTypes, WatchTypeOK
<1> QED
  BY <1>1, WatchInvariant, PTL

-------------------------------------------------------------------------------
\* The condition of NonOwnerLearnsNothing.
NeverHad(u, n) == \A c \in Creates : target[c] = n => UserOf[c] # u

LEMMA AnswerIsDefault ==
  ASSUME IInv, WInv, NEW w \in WatchRequests, WatchSteps(w),
         response'[w] \notin {response[w], NoValue},
         NeverHad(request[w].user, request[w].name)
  PROVE  response'[w] = Default(request[w])
<1>0. response \in [WatchRequests -> Cells]
  BY DEF WInv, WatchTypes
<1>1. CASE AnotherUsersEntry(w) \/ AskOwnerFails(w)
  BY <1>0, <1>1 DEF AnotherUsersEntry, AskOwnerFails, Respond
<1>2. CASE AskOwner(w)
  <2>1. request[w].name \notin OwnedBy(request[w].user)
    BY DEF OwnedBy, NeverHad, IInv, TypeOK, Placed
  <2>2. CASE request[w].kind = "create"
    BY <1>0, <1>2, <2>1, <2>2 DEF AskOwner, OwnsPod, Respond, Default
  <2>3. CASE request[w].kind # "create"
    BY <1>0, <1>2, <2>1, <2>3 DEF AskOwner, OwnsPod, Respond, Default
  <2> QED
    BY <2>2, <2>3
<1>3. ~ReceiveEntry(w)
  <2> SUFFICES ASSUME wpc[w] = "receive" PROVE FALSE
    BY DEF ReceiveEntry
  <2> DEFINE r == request[w]
             e == wentry[w]
  <2>1. OwnEntry(r, e)
    BY DEF WInv, Waiting
  <2>2. CASE r.kind = "create"
    BY <2>1, <2>2 DEF OwnEntry, NeverHad
  <2>3. CASE r.kind = "delete"
    <3>1. e \in Deletions /\ dpc[e] = "accepted" /\ dname[e] = r.name /\ UserOf[e] = r.user
      BY <2>1, <2>3 DEF OwnEntry
    <3>2. found[e] \in Creates /\ target[found[e]] = r.name /\ UserOf[found[e]] = r.user
      BY <3>1 DEF IInv, Found, TypeOK
    <3> QED
      BY <3>2 DEF NeverHad
  <2> QED
    BY <2>1, <2>2, <2>3 DEF OwnEntry
<1>4. CASE ~ \/ AnotherUsersEntry(w) \/ AskOwner(w) \/ AskOwnerFails(w) \/ ReceiveEntry(w)
  BY <1>4 DEF WatchSteps, WatchRequested, NoEntry, FindEntry, GetList, GetListFails,
              TellStatus, GetDone
<1> QED
  BY <1>1, <1>2, <1>3, <1>4

\* The watch functions tell a user nothing about a name that none of their pods
\* ever had (README.md:59-61), however the pods of others come and go.
THEOREM OthersStayHidden == WatchSpec => NonOwnerLearnsNothing
<1> DEFINE Answers ==
             \A w \in WatchRequests : response'[w] \notin {response[w], NoValue} =>
                LET r == request[w] IN
                (\A c \in Creates : target[c] = r.name => UserOf[c] # r.user)
                    => response'[w] = Default(r)
<1>1. IInv /\ WInv /\ [WatchNext]_<<vars, watching>> => [Answers]_<<vars, watching>>
  <2> SUFFICES ASSUME IInv, WInv, WatchNext, NEW w \in WatchRequests,
                      response'[w] \notin {response[w], NoValue},
                      NeverHad(request[w].user, request[w].name)
               PROVE  response'[w] = Default(request[w])
    BY DEF NeverHad
  <2>1. CASE WatchSteps(w)
    BY <2>1, AnswerIsDefault
  <2>2. ASSUME NEW x \in WatchRequests, x # w, WatchSteps(x) PROVE response'[w] = response[w]
    <3>1. response \in [WatchRequests -> Cells]
      BY DEF WInv, WatchTypes
    <3> QED
      BY <2>2, <3>1
         DEF WatchSteps, WatchRequested, NoEntry, AnotherUsersEntry, FindEntry, ReceiveEntry,
             AskOwner, AskOwnerFails, Respond, GetList, GetListFails, TellStatus, GetDone
  <2>3. ~WatchRestart /\ ~(Steps /\ UNCHANGED watching)
    BY DEF WatchRestart, watching
  <2> QED
    BY <2>1, <2>2, <2>3 DEF WatchNext
<1> QED
  BY <1>1, WatchInvariant, PTL DEF WatchSpec, NonOwnerLearnsNothing

-------------------------------------------------------------------------------
(***************************************************************************)
(* What watch_delete_pod and get_pods tell of the user's own pods          *)
(***************************************************************************)
\* Everything proved of PodServer holds with watch requests next to it.
LEMMA WatchSpecIsSpec == WatchSpec => Spec
<1>1. WatchInit => Init
  BY DEF WatchInit
<1> QED
  BY <1>1, WatchStepIsStep, PTL DEF WatchSpec, Spec

\* As long as names are used once, the pod at the name of an object is that
\* object.
LEMMA OnlyPodOfName ==
  ASSUME IInv, NamesUsedOnce, NEW i \in Creates, NEW x \in Creates,
         target[i] \in Names, target[x] = target[i]
  PROVE  x = i
  BY PodServerAssumption DEF NamesUsedOnce

LEMMA TrueDeletion ==
  ASSUME IInv, WInv, NamesUsedOnce, NEW w \in WatchRequests, WatchSteps(w),
         wpc[w] # "answered", wpc'[w] = "answered", response'[w] = "true",
         request[w].kind = "delete"
  PROVE  request[w].name \notin OwnedBy(request[w].user)
<1> DEFINE r == request[w]
<1>0. response \in [WatchRequests -> Cells] /\ wpc \in [WatchRequests -> WatchPCs]
  BY DEF WInv, WatchTypes
<1>1. CASE AskOwner(w)
  BY <1>0, <1>1 DEF AskOwner, OwnsPod, Respond
<1>2. CASE ReceiveEntry(w)
  <2> DEFINE e == wentry[w]
  <2>1. wpc[w] = "receive" /\ deleted[e] = "true"
    BY <1>0, <1>2 DEF ReceiveEntry, Respond, Channel
  <2>2. e \in Deletions /\ dpc[e] = "accepted" /\ dname[e] = r.name
    BY <2>1 DEF WInv, Waiting, OwnEntry
  <2>3. /\ found[e] \in Creates /\ target[found[e]] = r.name /\ r.name \in Names
        /\ phase[found[e]] = "gone"
    BY <2>1, <2>2, PodServerAssumption DEF IInv, TypeOK, Found, Reported
  <2>4. ASSUME podAt[r.name] # None PROVE FALSE
    <3>1. /\ podAt[r.name] \in Creates /\ target[podAt[r.name]] = r.name
          /\ phase[podAt[r.name]] \in Present
      BY <2>3, <2>4 DEF IInv, TypeOK, Placed
    <3>2. podAt[r.name] = found[e]
      BY <2>3, <3>1, OnlyPodOfName
    <3> QED
      BY <2>3, <3>1, <3>2 DEF Present
  <2> QED
    BY <2>4 DEF OwnedBy
<1>3. CASE GetDone(w)
  BY <1>3 DEF GetDone, WInv, Asked
<1>4. CASE ~AskOwner(w) /\ ~ReceiveEntry(w) /\ ~GetDone(w)
  BY <1>0, <1>4 DEF WatchSteps, WatchRequested, NoEntry, AnotherUsersEntry, FindEntry, Respond,
                    AskOwnerFails, GetList, GetListFails, TellStatus
<1> QED
  BY <1>1, <1>2, <1>3, <1>4

\* When watch_delete_pod tells the owner of a pod {deleted: true}, the pod is gone
\* from the name (server.go:518-519), as long as no other pod gets the name.
THEOREM DeletedAnswerIsTrue == WatchSpec /\ []NamesUsedOnce => DeletedAnswerMeansGone
<1> DEFINE Gone ==
             \A w \in WatchRequests :
                wpc[w] # "answered" /\ wpc'[w] = "answered" /\ response'[w] = "true" /\
                request[w].kind = "delete" =>
                request[w].name \notin OwnedBy(request[w].user)
<1>1. IInv /\ WInv /\ NamesUsedOnce /\ [WatchNext]_<<vars, watching>> => [Gone]_<<vars, watching>>
  <2> SUFFICES ASSUME IInv, WInv, NamesUsedOnce, WatchNext, NEW w \in WatchRequests,
                      wpc[w] # "answered", wpc'[w] = "answered", response'[w] = "true",
                      request[w].kind = "delete"
               PROVE  request[w].name \notin OwnedBy(request[w].user)
    OBVIOUS
  <2>1. CASE WatchSteps(w)
    BY <2>1, TrueDeletion
  <2>2. ASSUME NEW x \in WatchRequests, x # w, WatchSteps(x) PROVE wpc'[w] = wpc[w]
    <3>1. wpc \in [WatchRequests -> WatchPCs]
      BY DEF WInv, WatchTypes
    <3> QED
      BY <2>2, <3>1
         DEF WatchSteps, WatchRequested, NoEntry, AnotherUsersEntry, FindEntry, ReceiveEntry,
             AskOwner, AskOwnerFails, Respond, GetList, GetListFails, TellStatus, GetDone
  <2>3. ~WatchRestart /\ ~(Steps /\ UNCHANGED watching)
    BY DEF WatchRestart, watching
  <2> QED
    BY <2>1, <2>2, <2>3 DEF WatchNext
<1> QED
  BY <1>1, WatchInvariant, PTL DEF WatchSpec, DeletedAnswerMeansGone

\* What get_pods has yet to look up are pods that exist or existed.
Listed == \A w \in WatchRequests : \A i \in podList[w] : phase[i] # "none"

\* No object is ever unmade.
LEMMA ObjectsStay ==
  ASSUME IInv, [Next]_vars, NEW i \in Creates, phase[i] # "none"
  PROVE  phase'[i] # "none"
<1>0. phase \in [Creates -> Phases]
  BY DEF IInv, TypeOK
<1>1. ASSUME NEW c \in Creates, CreateSteps(c) PROVE phase'[i] # "none"
  BY <1>0, <1>1
     DEF CreateSteps, ChooseName, ChooseNameFails, CreatePod, CreatePodReplyLost, MakePod,
         CreatePodFails, RegisterCreation, RemoveCreating, StartJobs, PodReadyTimeout,
         CreatedTimeout, FailedCreate, OpenReadyWatch, ReadyWatchFails, k8s
<1>2. ASSUME NEW d \in Deletions, DeleteSteps(d) PROVE phase'[i] # "none"
  BY <1>0, <1>2
     DEF DeleteSteps, DeleteRequested, AlreadyDeleting, NotYetDeleting, InitDeleter,
         InitDeleterFails, RequestDeletion, RequestDeletionReplyLost, RequestDeletionFails,
         Refuse, RegisterDeletion, RemoveDeleting, DeleteJobs, PodDeletedTimeout,
         DeletedTimeout, OpenGoneWatch, GoneWatchFails, k8s
<1>3. ASSUME NEW x \in Creates, Kubernetes(x) PROVE phase'[i] # "none"
  BY <1>0, <1>3 DEF Kubernetes, PodBecomesReady, ReadyPodModified, PodGone, k8s
<1>4. CASE UNCHANGED vars \/ Restart
  BY <1>4 DEF vars, Restart, k8s
<1> QED
  BY <1>1, <1>2, <1>3, <1>4 DEF Next, Steps

LEMMA NextListed ==
  IInv /\ WInv /\ Listed /\ [WatchNext]_<<vars, watching>> => Listed'
<1> SUFFICES ASSUME IInv, WInv, Listed, [WatchNext]_<<vars, watching>> PROVE Listed'
  OBVIOUS
<1>0. podList \in [WatchRequests -> SUBSET Creates]
  BY DEF WInv, WatchTypes
<1>1. \A i \in Creates : phase[i] # "none" => phase'[i] # "none"
  BY ObjectsStay, WatchStepIsStep
<1>2. ASSUME \A w \in WatchRequests : \A i \in podList'[w] :
                i \in podList[w] \/ (i \in Creates /\ phase[i] # "none")
      PROVE  Listed'
  BY <1>0, <1>1, <1>2 DEF Listed
<1>3. CASE WatchRestart
  BY <1>3 DEF WatchRestart, Listed
<1>4. CASE UNCHANGED podList
  BY <1>2, <1>4
<1>5. ASSUME NEW w \in WatchRequests, GetList(w) PROVE Listed'
  <2>1. \A n \in OwnedBy(request[w].user) : podAt[n] \in Creates /\ phase[podAt[n]] # "none"
    BY DEF OwnedBy, IInv, TypeOK, Placed, Present
  <2>2. podList' = [podList EXCEPT ![w] = {podAt[n] : n \in OwnedBy(request[w].user)}]
    BY <1>5 DEF GetList
  <2>3. \A x \in WatchRequests : \A i \in podList'[x] :
           i \in podList[x] \/ i \in {podAt[n] : n \in OwnedBy(request[w].user)}
    BY <1>0, <2>2
  <2> QED
    BY <1>2, <2>1, <2>3
<1>6. ASSUME NEW w \in WatchRequests, TellStatus(w) PROVE Listed'
  BY <1>0, <1>2, <1>6 DEF TellStatus
<1>7. CASE \A w \in WatchRequests : ~GetList(w) /\ ~TellStatus(w)
  <2>1. ASSUME NEW w \in WatchRequests, WatchSteps(w) PROVE UNCHANGED podList
    BY <1>7, <2>1
       DEF WatchSteps, WatchRequested, NoEntry, AnotherUsersEntry, FindEntry, ReceiveEntry,
           AskOwner, AskOwnerFails, Respond, GetListFails, GetDone
  <2> QED
    BY <1>3, <1>4, <2>1 DEF WatchNext, watching
<1> QED
  BY <1>5, <1>6, <1>7

LEMMA TrueStatus ==
  ASSUME IInv, WInv, Listed, NamesUsedOnce, CreatingEntry, OwnDeletingEntry,
         NEW w \in WatchRequests, NEW i \in podList[w]
  PROVE  /\ Status(i) = "Phase" =>
                /\ cpc[i] = "registered" => created[i] # NoValue
                /\ \A d \in Deletions :
                      dpc[d] = "accepted" /\ found[d] = i => deleted[d] # NoValue
         /\ Status(i) = "Deleting" => phase[i] \in {"terminating", "gone"}
<1>0. i \in Creates /\ target[i] \in Names
  BY DEF WInv, WatchTypes, Listed, IInv, Created
<1>1. ASSUME Status(i) = "Phase"
      PROVE  /\ cpc[i] = "registered" => created[i] # NoValue
             /\ \A d \in Deletions :
                   dpc[d] = "accepted" /\ found[d] = i => deleted[d] # NoValue
  <2>1. CreatingPods[target[i]] = None /\ DeletingPods[target[i]] = None
    BY <1>1 DEF Status
  <2>2. cpc[i] = "registered" => created[i] # NoValue
    BY <1>0, <2>1, OnlyPodOfName DEF CreatingEntry
  <2>3. ASSUME NEW d \in Deletions, dpc[d] = "accepted", found[d] = i PROVE deleted[d] # NoValue
    <3>1. dname[d] = target[i] /\ d # None
      BY <1>0, <2>3, PodServerAssumption DEF IInv, Found, Deletions
    <3> QED
      BY <2>1, <2>3, <3>1 DEF OwnDeletingEntry
  <2> QED
    BY <2>2, <2>3
<1>2. ASSUME Status(i) = "Deleting" PROVE phase[i] \in {"terminating", "gone"}
  <2> DEFINE e == DeletingPods[target[i]]
  <2>1. e # None /\ e \in Deletions
    BY <1>0, <1>2 DEF Status, IInv, TypeOK
  <2>2. dpc[e] = "accepted" /\ dname[e] = target[i]
    BY <1>0, <2>1 DEF WInv, MapEntries
  <2>3. /\ found[e] \in Creates /\ target[found[e]] = target[i]
        /\ phase[found[e]] \in {"terminating", "gone"}
    BY <2>1, <2>2 DEF IInv, TypeOK, Found
  <2>4. found[e] = i
    BY <1>0, <2>3, OnlyPodOfName
  <2> QED
    BY <2>3, <2>4
<1> QED
  BY <1>1, <1>2

\* What get_pods tells of a pod is not contradicted by the requests the backend
\* has accepted (server.go:204-229), although list and maps are read at different
\* times, as long as names are used once and deletions by one name do not meet.
THEOREM ToldStatusIsTrue ==
  WatchSpec /\ []NamesUsedOnce /\ []DeletionsApart => StatusIsTrue
<1> DEFINE True(i, status) ==
             /\ status = "Phase" =>
                   /\ cpc[i] = "registered" => created[i] # NoValue
                   /\ \A d \in Deletions :
                         dpc[d] = "accepted" /\ found[d] = i => deleted[d] # NoValue
             /\ status = "Deleting" => phase[i] \in {"terminating", "gone"}
           Tells == \A w \in WatchRequests : told'[w] \notin {told[w], None} =>
                       True(told'[w].pod, told'[w].status)
<1>1. /\ IInv /\ WInv /\ Listed /\ NamesUsedOnce /\ CreatingEntry /\ OwnDeletingEntry
      /\ [WatchNext]_<<vars, watching>>
      => [Tells]_<<vars, watching>>
  <2> SUFFICES ASSUME IInv, WInv, Listed, NamesUsedOnce, CreatingEntry, OwnDeletingEntry,
                      WatchNext, NEW w \in WatchRequests, told'[w] \notin {told[w], None}
               PROVE  True(told'[w].pod, told'[w].status)
    OBVIOUS
  <2>0. told \in [WatchRequests -> [pod : Creates, status : Statuses] \cup {None}]
    BY DEF WInv, WatchTypes
  <2>1. TellStatus(w)
    <3>1. ASSUME NEW x \in WatchRequests, WatchSteps(x), ~TellStatus(w) PROVE FALSE
      BY <2>0, <3>1
         DEF WatchSteps, WatchRequested, NoEntry, AnotherUsersEntry, FindEntry, ReceiveEntry,
             AskOwner, AskOwnerFails, Respond, GetList, GetListFails, TellStatus, GetDone
    <3>2. ~WatchRestart /\ ~(Steps /\ UNCHANGED watching)
      BY DEF WatchRestart, watching
    <3> QED
      BY <3>1, <3>2 DEF WatchNext
  <2>2. PICK i \in podList[w] : told' = [told EXCEPT ![w] = [pod |-> i, status |-> Status(i)]]
    BY <2>1 DEF TellStatus
  <2>3. told'[w].pod = i /\ told'[w].status = Status(i)
    BY <2>0, <2>2
  <2> QED
    BY <2>2, <2>3, TrueStatus
<1>2. WatchInit => Listed
  BY DEF WatchInit, Listed
<1> QED
  BY <1>1, <1>2, WatchInvariant, NextListed, WatchSpecIsSpec, CreationHasEntry,
     DeletionHasOwnEntry, PTL DEF WatchSpec, StatusIsTrue
===============================================================================
