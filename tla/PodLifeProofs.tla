---------------------------- MODULE PodLifeProofs ----------------------------
(***************************************************************************)
(* Proof that PodServer keeps the promise of PodLife, for any users, names *)
(* and requests, with names used again, failing calls, lost replies and    *)
(* restarts: every step of PodServer is a step of PodLife, or leaves its   *)
(* variables as they are.                                                  *)
(***************************************************************************)
EXTENDS PodServerProofs

-------------------------------------------------------------------------------
(***************************************************************************)
(* How the variables of PodLife follow those of PodServer                  *)
(***************************************************************************)
LEMMA Unmoved ==
  /\ UNCHANGED phase => UNCHANGED life
  /\ UNCHANGED cpc => UNCHANGED answer
  /\ UNCHANGED dpc => UNCHANGED asked
BY DEF life, answer, asked

LEMMA LifeBecomes ==
  ASSUME TypeOK, NEW i \in Creates, NEW p \in Phases, phase' = [phase EXCEPT ![i] = p]
  PROVE  life' = [life EXCEPT ![i] = IF p \in {"pending", "ready"} THEN "present" ELSE p]
BY DEF TypeOK, life

LEMMA AnswerBecomes ==
  ASSUME TypeOK, NEW c \in Creates, NEW p \in CreatePCs, cpc' = [cpc EXCEPT ![c] = p]
  PROVE  answer' = [answer EXCEPT ![c] = AnswerAt(p)]
<1>1. cpc \in [Creates -> CreatePCs]
  BY DEF TypeOK
<1> QED
  BY <1>1 DEF answer

LEMMA AskedBecomes ==
  ASSUME TypeOK, NEW d \in Deletions, NEW p \in DeletePCs, dpc' = [dpc EXCEPT ![d] = p]
  PROVE  asked' = [asked EXCEPT ![d] = AskedAt(p)]
<1>1. dpc \in [Deletions -> DeletePCs]
  BY DEF TypeOK
<1> QED
  BY <1>1 DEF asked

LEMMA AtValues ==
  /\ AnswerAt("idle") = "open" /\ AnswerAt("named") = "open" /\ AnswerAt("created") = "open"
  /\ AnswerAt("registered") = "given" /\ AnswerAt("failed") = "given"
  /\ AnswerAt("rejected") = "over"
  /\ AskedAt("idle") = "none" /\ AskedAt("check") = "begun" /\ AskedAt("init") = "begun"
  /\ AskedAt("request") = "begun" /\ AskedAt("register") = "yes" /\ AskedAt("accepted") = "yes"
  /\ AskedAt("refused") = "refused"
BY DEF AnswerAt, AskedAt
LEMMA LifeStays ==
  ASSUME TypeOK, NEW i \in Creates, NEW p, phase' = [phase EXCEPT ![i] = p],
         {p, phase[i]} \subseteq {"pending", "ready"} \/ p = phase[i]
  PROVE  UNCHANGED life
<1>1. phase \in [Creates -> Phases]
  BY DEF TypeOK
<1> QED
  BY <1>1 DEF life

LEMMA AnswerStays ==
  ASSUME TypeOK, NEW c \in Creates, NEW p, cpc' = [cpc EXCEPT ![c] = p],
         AnswerAt(p) = AnswerAt(cpc[c])
  PROVE  UNCHANGED answer
<1>1. cpc \in [Creates -> CreatePCs]
  BY DEF TypeOK
<1> QED
  BY <1>1 DEF answer

LEMMA AskedStays ==
  ASSUME TypeOK, NEW d \in Deletions, NEW p, dpc' = [dpc EXCEPT ![d] = p],
         AskedAt(p) = AskedAt(dpc[d])
  PROVE  UNCHANGED asked
<1>1. dpc \in [Deletions -> DeletePCs]
  BY DEF TypeOK
<1> QED
  BY <1>1 DEF asked

-------------------------------------------------------------------------------
Still == UNCHANGED <<life, answer, created, asked, found, deleted>>

LEMMA CreateStepsSimulate ==
  ASSUME IInv, Made, NEW c \in Creates, CreateSteps(c)
  PROVE  \/ Life!Make(c) \/ Life!TurnDown(c) \/ Life!Give(c)
         \/ \E v \in Values : Life!Settle(c, v)
         \/ Life!Begin(c)
         \/ Still
<1>0. /\ TypeOK /\ created \in [Creates -> Cells] /\ c \in Deletions
      /\ cpc \in [Creates -> CreatePCs] /\ phase \in [Creates -> Phases]
      /\ life[c] = (IF phase[c] \in {"pending", "ready"} THEN "present" ELSE phase[c])
      /\ answer[c] = AnswerAt(cpc[c]) /\ asked[c] = AskedAt(dpc[c])
      /\ "false" \in Values
  BY DEF IInv, TypeOK, Deletions, Values, life, answer, asked
<1>1. CASE ChooseName(c)
  <2>1. cpc[c] = "idle" /\ cpc' = [cpc EXCEPT ![c] = "named"] /\ UNCHANGED <<k8s, created, deletion>>
    BY <1>1 DEF ChooseName, GotoC
  <2>2. UNCHANGED answer
    BY <1>0, <2>1, AnswerStays, AtValues
  <2> QED
    BY <2>1, <2>2, Unmoved DEF Still, k8s, deletion
<1>2. CASE ChooseNameFails(c) \/ CreatePodFails(c)
  <2>1. /\ cpc[c] \in {"idle", "named"} /\ cpc' = [cpc EXCEPT ![c] = "rejected"]
        /\ UNCHANGED <<k8s, created, deletion>>
    BY <1>2 DEF ChooseNameFails, CreatePodFails, GotoC
  <2>2. answer' = [answer EXCEPT ![c] = "over"]
    BY <1>0, <2>1, AnswerBecomes, AtValues DEF CreatePCs
  <2>3. life[c] = "none" /\ answer[c] = "open"
    BY <1>0, <2>1, AtValues DEF IInv, Created
  <2>4. UNCHANGED <<life, created, asked, found, deleted>>
    BY <2>1, Unmoved DEF k8s, deletion
  <2> QED
    BY <2>2, <2>3, <2>4 DEF Life!TurnDown
<1>3. CASE CreatePod(c) \/ CreatePodReplyLost(c)
  <2>1. /\ cpc[c] = "named" /\ MakePod(c)
        /\ \/ cpc' = [cpc EXCEPT ![c] = "created"]
           \/ ApiMayFail /\ cpc' = [cpc EXCEPT ![c] = "rejected"]
    BY <1>3 DEF CreatePod, CreatePodReplyLost, GotoC
  <2>2. phase' = [phase EXCEPT ![c] = "pending"] /\ UNCHANGED <<created, deletion>>
    BY <2>1 DEF MakePod
  <2>3. life' = [life EXCEPT ![c] = "present"]
    BY <1>0, <2>2, LifeBecomes DEF Phases
  <2>4. UNCHANGED answer \/ (ApiMayFail /\ answer' = [answer EXCEPT ![c] = "over"])
    <3>1. "rejected" \in CreatePCs
      BY DEF CreatePCs
    <3> QED
      BY <1>0, <2>1, <3>1, AnswerStays, AnswerBecomes, AtValues
  <2>5. life[c] = "none" /\ answer[c] = "open"
    BY <1>0, <2>1, AtValues DEF IInv, Created
  <2>6. UNCHANGED <<created, asked, found, deleted>>
    BY <2>2, Unmoved DEF deletion
  <2> QED
    BY <2>3, <2>4, <2>5, <2>6 DEF Life!Make
<1>4. CASE RegisterCreation(c)
  <2>1. /\ cpc[c] = "created" /\ cpc' = [cpc EXCEPT ![c] = "registered"]
        /\ UNCHANGED <<k8s, created, deletion>>
    BY <1>4 DEF RegisterCreation, GotoC
  <2>2. answer' = [answer EXCEPT ![c] = "given"] /\ answer[c] = "open"
    <3>1. "registered" \in CreatePCs
      BY DEF CreatePCs
    <3>2. answer' = [answer EXCEPT ![c] = AnswerAt("registered")]
      BY <1>0, <2>1, <3>1, AnswerBecomes
    <3> QED
      BY <1>0, <2>1, <3>2, AtValues
  <2>3. life[c] # "none"
    BY <1>0, <2>1 DEF Made
  <2>4. UNCHANGED <<life, created, asked, found, deleted>>
    BY <2>1, Unmoved DEF k8s, deletion
  <2> QED
    BY <2>2, <2>3, <2>4 DEF Life!Give
<1>5. CASE StartJobs(c) \/ CreatedTimeout(c)
  <2>1. PICK v \in Values :
           /\ created' = Sent(created, {c}, v) /\ created[c] = NoValue
           /\ cpc[c] \in {"named", "created", "registered"}
           /\ v = "true" => cpc[c] # "named"
    BY <1>0, <1>5 DEF StartJobs, CreatedTimeout
  <2>2. created' = [created EXCEPT ![c] = v]
    BY <1>0, <2>1 DEF Sent
  <2>3. answer[c] # "over" /\ (v = "true" => life[c] # "none")
    BY <1>0, <2>1, AtValues DEF Made
  <2>4. UNCHANGED <<k8s, cpc, deletion>>
    BY <1>5 DEF StartJobs, CreatedTimeout
  <2>5. UNCHANGED <<life, answer, asked, found, deleted>>
    BY <2>4, Unmoved DEF k8s, deletion
  <2>6. Life!Settle(c, v)
    BY <2>1, <2>2, <2>3, <2>5 DEF Life!Settle, Life!NoValue, NoValue
  <2> QED
    BY <2>6
<1>6. CASE FailedCreate(c)
  <2>1. /\ cpc[c] = "registered" /\ cpc' = [cpc EXCEPT ![c] = "failed"]
        /\ dpc[c] = "idle" /\ dpc' = [dpc EXCEPT ![c] = "check"]
        /\ created[c] = "false" /\ UNCHANGED <<k8s, created, found, deleted>>
    BY <1>6 DEF FailedCreate, GotoC, GotoD
  <2>2. UNCHANGED answer /\ answer[c] = "given"
    BY <1>0, <2>1, AnswerStays, AtValues
  <2>3. asked' = [asked EXCEPT ![c] = "begun"] /\ asked[c] = "none"
    <3>1. "check" \in DeletePCs
      BY DEF DeletePCs
    <3>2. asked' = [asked EXCEPT ![c] = AskedAt("check")]
      BY <1>0, <2>1, <3>1, AskedBecomes
    <3> QED
      BY <1>0, <2>1, <3>2, AtValues
  <2>4. UNCHANGED <<life, created, found, deleted>>
    BY <2>1, Unmoved DEF k8s
  <2> QED
    BY <2>1, <2>2, <2>3, <2>4 DEF Life!Begin
<1>7. CASE \/ RemoveCreating(c) \/ PodReadyTimeout(c) \/ OpenReadyWatch(c) \/ ReadyWatchFails(c)
  <2>1. UNCHANGED <<phase, cpc, dpc, created, found, deleted>>
    BY <1>7 DEF RemoveCreating, PodReadyTimeout, OpenReadyWatch, ReadyWatchFails, k8s,
                creation, deletion
  <2> QED
    BY <2>1, Unmoved DEF Still
<1> QED
  BY <1>1, <1>2, <1>3, <1>4, <1>5, <1>6, <1>7 DEF CreateSteps
\* A deletion is refused: as a step of PodServer, and of PodLife.
LEMMA RefuseSimulates ==
  ASSUME IInv, NEW d \in Deletions, NEW from \in {"check", "init", "request"}, Refuse(d, from)
  PROVE  Life!Refuse(d)
<1>0. TypeOK /\ asked[d] = AskedAt(dpc[d]) /\ "refused" \in DeletePCs
  BY DEF IInv, asked, DeletePCs
<1>1. /\ dpc[d] = from /\ dpc' = [dpc EXCEPT ![d] = "refused"]
      /\ deleted' = Sent(deleted, {d}, "false")
      /\ UNCHANGED <<k8s, creation, found>>
  BY DEF Refuse, GotoD
<1>2. asked' = [asked EXCEPT ![d] = AskedAt("refused")]
  BY <1>0, <1>1, AskedBecomes
<1>3. asked' = [asked EXCEPT ![d] = "refused"] /\ asked[d] = "begun"
  BY <1>0, <1>1, <1>2, AtValues
<1>4. UNCHANGED <<life, answer, created, found>>
  BY <1>1, Unmoved DEF k8s, creation
<1> QED
  BY <1>1, <1>3, <1>4 DEF Life!Refuse, Life!Sent, Sent, Life!NoValue, NoValue

\* The pod that the API call by name brings to an end is the one found, unless
\* that is gone.
LEMMA HitsTheFound ==
  ASSUME IInv, NEW d \in Deletions, dpc[d] = "request", podAt[dname[d]] # None
  PROVE  /\ podAt[dname[d]] \in Creates /\ phase[podAt[dname[d]]] \in Present
         /\ found[d] \in Creates /\ found[d] # None
         /\ podAt[dname[d]] # found[d] => phase[found[d]] = "gone"
<1>1. dname[d] \in Names /\ found[d] # None
  BY DEF IInv, Found
<1>2. /\ found[d] \in Creates /\ target[found[d]] = dname[d]
      /\ phase[found[d]] # "none" /\ phase[found[d]] \in Phases
  BY <1>1 DEF IInv, TypeOK, Found
<1>3. podAt[dname[d]] \in Creates /\ phase[podAt[dname[d]]] \in Present
  BY <1>1 DEF IInv, TypeOK, Placed
<1>4. phase[found[d]] \in Present => podAt[dname[d]] = found[d]
  BY <1>2 DEF IInv, Placed
<1> QED
  BY <1>1, <1>2, <1>3, <1>4 DEF Phases, Present

LEMMA RequestSimulates ==
  ASSUME IInv, NEW d \in Deletions, RequestDeletion(d) \/ RequestDeletionReplyLost(d)
  PROVE  \E i \in Creates : Life!Ask(d, i)
<1> DEFINE i == podAt[dname[d]]
<1>0. /\ TypeOK /\ asked[d] = AskedAt(dpc[d])
      /\ "refused" \in DeletePCs /\ "register" \in DeletePCs /\ "terminating" \in Phases
  BY DEF IInv, asked, DeletePCs, Phases
<1>1. /\ dpc[d] = "request" /\ i # None
      /\ phase' = [phase EXCEPT ![i] = "terminating"]
      /\ \/ dpc' = [dpc EXCEPT ![d] = "register"] /\ UNCHANGED deleted
         \/ /\ ApiMayFail
            /\ dpc' = [dpc EXCEPT ![d] = "refused"]
            /\ deleted' = Sent(deleted, {d}, "false")
      /\ UNCHANGED <<creation, found>>
  BY DEF RequestDeletion, RequestDeletionReplyLost, GotoD
<1>2. /\ i \in Creates /\ phase[i] \in Present /\ found[d] \in Creates /\ found[d] # None
      /\ i # found[d] => phase[found[d]] = "gone"
  BY <1>1, HitsTheFound
<1>3. /\ life[i] \in Life!Alive
      /\ i # found[d] => life[found[d]] = "gone"
  BY <1>2 DEF life, Present, Life!Alive
<1>4. life' = [life EXCEPT ![i] = "terminating"]
  <2>1. life' = [life EXCEPT ![i] =
                   IF "terminating" \in {"pending", "ready"} THEN "present" ELSE "terminating"]
    BY <1>0, <1>1, <1>2, LifeBecomes
  <2> QED
    BY <2>1
<1>5. \/ asked' = [asked EXCEPT ![d] = "yes"] /\ UNCHANGED deleted
      \/ /\ ApiMayFail
         /\ asked' = [asked EXCEPT ![d] = "refused"]
         /\ deleted' = Sent(deleted, {d}, "false")
  <2>1. CASE dpc' = [dpc EXCEPT ![d] = "register"] /\ UNCHANGED deleted
    <3>1. asked' = [asked EXCEPT ![d] = AskedAt("register")]
      BY <1>0, <2>1, AskedBecomes
    <3> QED
      BY <2>1, <3>1, AtValues
  <2>2. CASE /\ ApiMayFail
             /\ dpc' = [dpc EXCEPT ![d] = "refused"]
             /\ deleted' = Sent(deleted, {d}, "false")
    <3>1. asked' = [asked EXCEPT ![d] = AskedAt("refused")]
      BY <1>0, <2>2, AskedBecomes
    <3> QED
      BY <2>2, <3>1, AtValues
  <2> QED
    BY <1>1, <2>1, <2>2
<1>6. asked[d] = "begun"
  BY <1>0, <1>1, AtValues
<1>7. UNCHANGED <<answer, created, found>>
  BY <1>1, Unmoved DEF creation
<1>8. Life!Ask(d, i)
  BY <1>2, <1>3, <1>4, <1>5, <1>6, <1>7
     DEF Life!Ask, Life!Sent, Sent, Life!NoValue, NoValue
<1> QED
  BY <1>2, <1>8

LEMMA DeleteStepsSimulate ==
  ASSUME IInv, NEW d \in Deletions, DeleteSteps(d)
  PROVE  \/ Life!Begin(d) \/ Life!Refuse(d)
         \/ \E i \in Creates : Life!Choose(d, i) \/ Life!Ask(d, i)
         \/ \E v \in Values : Life!Finish(d, v)
         \/ Still
<1>0. /\ TypeOK /\ deleted \in [Deletions -> Cells] /\ asked[d] = AskedAt(dpc[d])
      /\ "false" \in Values /\ dpc[d] \in DeletePCs
  BY DEF IInv, TypeOK, asked, Values
<1>1. CASE DeleteRequested(d)
  <2>1. /\ dpc[d] = "idle" /\ dpc' = [dpc EXCEPT ![d] = "check"]
        /\ d \notin Creates
        /\ UNCHANGED <<k8s, creation, found, deleted>>
    BY <1>1, PodServerAssumption DEF DeleteRequested, GotoD
  <2>2. "check" \in DeletePCs
    BY DEF DeletePCs
  <2>3. asked' = [asked EXCEPT ![d] = AskedAt("check")]
    BY <1>0, <2>1, <2>2, AskedBecomes
  <2>4. asked' = [asked EXCEPT ![d] = "begun"] /\ asked[d] = "none"
    BY <1>0, <2>1, <2>3, AtValues
  <2>5. UNCHANGED <<life, answer, created, found, deleted>>
    BY <2>1, Unmoved DEF k8s, creation
  <2> QED
    BY <2>1, <2>4, <2>5 DEF Life!Begin
<1>2. CASE AlreadyDeleting(d) \/ InitDeleterFails(d) \/ RequestDeletionFails(d)
  <2>1. \E from \in {"check", "init", "request"} : Refuse(d, from)
    BY <1>2 DEF AlreadyDeleting, InitDeleterFails, RequestDeletionFails
  <2> QED
    BY <2>1, RefuseSimulates
<1>3. CASE NotYetDeleting(d) \/ RegisterDeletion(d)
  <2>1. /\ \/ dpc[d] = "check" /\ dpc' = [dpc EXCEPT ![d] = "init"]
           \/ dpc[d] = "register" /\ dpc' = [dpc EXCEPT ![d] = "accepted"]
        /\ UNCHANGED <<k8s, creation, found, deleted>>
    BY <1>3 DEF NotYetDeleting, RegisterDeletion, GotoD
  <2>2. UNCHANGED asked
    BY <1>0, <2>1, AskedStays, AtValues
  <2> QED
    BY <2>1, <2>2, Unmoved DEF Still, k8s, creation
<1>4. CASE InitDeleter(d)
  <2> DEFINE i == podAt[dname[d]]
  <2>1. /\ dpc[d] = "init" /\ dpc' = [dpc EXCEPT ![d] = "request"]
        /\ i # None /\ UserOf[i] = UserOf[d]
        /\ found' = [found EXCEPT ![d] = i]
        /\ UNCHANGED <<k8s, creation, deleted>>
    BY <1>4 DEF InitDeleter, Deletable, GotoD
  <2>2. dname[d] \in Names /\ found[d] = None
    BY <2>1 DEF IInv, Found, Fresh
  <2>3. i \in Creates /\ phase[i] \in Present
    BY <2>1, <2>2 DEF IInv, TypeOK, Placed
  <2>4. life[i] \in Life!Alive
    BY <2>3 DEF life, Present, Life!Alive
  <2>5. UNCHANGED asked /\ asked[d] = "begun"
    BY <1>0, <2>1, AskedStays, AtValues
  <2>6. UNCHANGED <<life, answer, created, deleted>>
    BY <2>1, Unmoved DEF k8s, creation
  <2>7. Life!Choose(d, i)
    BY <2>1, <2>2, <2>4, <2>5, <2>6 DEF Life!Choose
  <2> QED
    BY <2>3, <2>7
<1>5. CASE RequestDeletion(d) \/ RequestDeletionReplyLost(d)
  BY <1>5, RequestSimulates
<1>6. CASE DeleteJobs(d) \/ DeletedTimeout(d)
  <2>1. PICK v \in Values :
           /\ deleted' = Sent(deleted, {d}, v) /\ deleted[d] = NoValue
           /\ dpc[d] \in {"check", "init", "request", "register", "accepted"}
           /\ v = "true" => dpc[d] \in {"register", "accepted"} /\ podDeleted[d] = "true"
    BY <1>0, <1>6 DEF DeleteJobs, DeletedTimeout
  <2>2. deleted' = [deleted EXCEPT ![d] = v]
    BY <1>0, <2>1 DEF Sent
  <2>3. /\ asked[d] \in {"begun", "yes"}
        /\ v = "true" => asked[d] = "yes"
    BY <1>0, <2>1, AtValues
  <2>4. ASSUME v = "true" PROVE life[found[d]] = "gone"
    <3>1. found[d] \in Creates /\ phase[found[d]] = "gone"
      BY <2>1, <2>4 DEF IInv, TypeOK, Reported
    <3> QED
      BY <3>1 DEF life
  <2>5. UNCHANGED <<k8s, creation, dpc, found>>
    BY <1>6 DEF DeleteJobs, DeletedTimeout
  <2>6. UNCHANGED <<life, answer, created, asked, found>>
    BY <2>5, Unmoved DEF k8s, creation
  <2>7. Life!Finish(d, v)
    BY <2>1, <2>2, <2>3, <2>4, <2>6 DEF Life!Finish, Life!NoValue, NoValue
  <2> QED
    BY <2>7
<1>7. CASE \/ RemoveDeleting(d) \/ PodDeletedTimeout(d) \/ OpenGoneWatch(d) \/ GoneWatchFails(d)
  <2>1. UNCHANGED <<k8s, creation, dpc, found, deleted>>
    BY <1>7 DEF RemoveDeleting, PodDeletedTimeout, OpenGoneWatch, GoneWatchFails, deletion
  <2> QED
    BY <2>1, Unmoved DEF Still, k8s, creation
<1> QED
  BY <1>1, <1>2, <1>3, <1>4, <1>5, <1>6, <1>7 DEF DeleteSteps

LEMMA KubernetesSimulates ==
  ASSUME IInv, NEW i \in Creates, Kubernetes(i) PROVE Life!Vanish(i) \/ Still
<1>0. TypeOK /\ "gone" \in Phases
  BY DEF IInv, Phases
<1>1. CASE PodBecomesReady(i)
  <2>1. /\ phase[i] = "pending" /\ phase' = [phase EXCEPT ![i] = "ready"]
        /\ UNCHANGED <<cpc, created, deletion>>
    BY <1>1 DEF PodBecomesReady
  <2>2. UNCHANGED life
    BY <1>0, <2>1, LifeStays
  <2> QED
    BY <2>1, <2>2, Unmoved DEF Still, deletion
<1>2. CASE ReadyPodModified(i)
  BY <1>2, Unmoved DEF ReadyPodModified, Still, k8s, deletion
<1>3. CASE PodGone(i)
  <2>1. /\ phase[i] = "terminating" /\ phase' = [phase EXCEPT ![i] = "gone"]
        /\ UNCHANGED <<creation, dpc, found, deleted>>
    BY <1>3 DEF PodGone
  <2>2. life' = [life EXCEPT ![i] = IF "gone" \in {"pending", "ready"} THEN "present" ELSE "gone"]
    BY <1>0, <2>1, LifeBecomes
  <2>3. life[i] = "terminating"
    BY <2>1 DEF life
  <2>4. UNCHANGED <<answer, created, asked, found, deleted>>
    BY <2>1, Unmoved DEF creation
  <2> QED
    BY <2>2, <2>3, <2>4 DEF Life!Vanish
<1> QED
  BY <1>1, <1>2, <1>3 DEF Kubernetes

LEMMA RestartSimulates == ASSUME IInv, Restart PROVE Life!Restart
<1>1. /\ MayRestart /\ UNCHANGED phase
      /\ cpc' = [c \in Creates |-> IF phase[c] = "none" THEN "idle" ELSE "rejected"]
      /\ dpc' = [d \in Deletions |-> "idle"]
      /\ created' = [c \in Creates |-> NoValue] /\ deleted' = [d \in Deletions |-> NoValue]
      /\ found' = [d \in Deletions |-> None]
  BY DEF Restart, k8s
<1>2. UNCHANGED life
  BY <1>1, Unmoved
<1>3. \A c \in Creates : life[c] = "none" <=> phase[c] = "none"
  BY DEF life
<1>4. answer' = [c \in Creates |-> IF life[c] = "none" THEN "open" ELSE "over"]
  <2>1. answer' = [c \in Creates |-> AnswerAt(cpc'[c])]
    BY DEF answer
  <2>2. \A c \in Creates : AnswerAt(cpc'[c]) = IF life[c] = "none" THEN "open" ELSE "over"
    BY <1>1, <1>3, AtValues
  <2> QED
    BY <2>1, <2>2
<1>5. asked' = [d \in Deletions |-> "none"]
  BY <1>1, AtValues DEF asked
<1> QED
  BY <1>1, <1>2, <1>4, <1>5 DEF Life!Restart, Life!NoValue, NoValue

-------------------------------------------------------------------------------
\* The requests and the pods keep to PodLife: one outcome for each request, success
\* of a deletion only when its pod is gone, no deletion of the backend's own but
\* after a creation that failed, and no pod asked to go in the place of the one
\* found as long as that one is there (server.go:406, poddeleter.go:47, 68).
THEOREM ImplementsPodLife == Spec => KeepsPodLife
<1>1. Init => Life!Init /\ Made
  <2> SUFFICES ASSUME Init PROVE Life!Init /\ Made
    OBVIOUS
  <2>1. life = [c \in Creates |-> "none"]
    BY DEF Init, life
  <2>2. answer = [c \in Creates |-> "open"] /\ asked = [d \in Deletions |-> "none"]
    BY AtValues DEF Init, answer, asked
  <2> QED
    BY <2>1, <2>2 DEF Init, Life!Init, Life!NoValue, NoValue, Made
<1>2. IInv /\ Made /\ [Next]_vars => [Life!Next]_Life!vars
  <2> SUFFICES ASSUME IInv, Made, [Next]_vars PROVE Life!Next \/ UNCHANGED Life!vars
    OBVIOUS
  <2>0. /\ Still => UNCHANGED Life!vars
        /\ Life!Values = Values
        /\ \A c \in Creates : c \in Deletions
    BY DEF Still, Life!vars, Life!Values, Values, Deletions
  <2>1. ASSUME NEW c \in Creates, CreateSteps(c) PROVE Life!Next \/ UNCHANGED Life!vars
    BY <2>0, <2>1, CreateStepsSimulate DEF Life!Next
  <2>2. ASSUME NEW d \in Deletions, DeleteSteps(d) PROVE Life!Next \/ UNCHANGED Life!vars
    BY <2>0, <2>2, DeleteStepsSimulate DEF Life!Next
  <2>3. ASSUME NEW i \in Creates, Kubernetes(i) PROVE Life!Next \/ UNCHANGED Life!vars
    BY <2>0, <2>3, KubernetesSimulates DEF Life!Next
  <2>4. CASE Restart
    BY <2>4, RestartSimulates DEF Life!Next
  <2>5. CASE UNCHANGED vars
    BY <2>0, <2>5, Unmoved DEF vars, Still, k8s, creation, deletion
  <2> QED
    BY <2>1, <2>2, <2>3, <2>4, <2>5 DEF Next, Steps
<1> QED
  BY <1>1, <1>2, Invariant, NextMade, PTL DEF Spec, KeepsPodLife, Life!Spec
===============================================================================
