------------------------------- MODULE PodLife -------------------------------
(***************************************************************************)
(* What the backend promises about pods and about the requests for them,   *)
(* with no names, watches, maps or goroutines: which answers create_pod    *)
(* and delete_pod may give, what becomes of a request after its answer,    *)
(* and which pods a request may bring to an end.  Module PodServer is      *)
(* shown to keep this promise.                                             *)
(***************************************************************************)
EXTENDS Channels

CONSTANTS
    Creates,          \* create_pod requests, and the pod objects they make
    Deletions,        \* delete_pod requests, and one for each creation that fails
    UserOf,           \* the user of each request
    RepliesMayBeLost, \* may the reply of the API, to a call it has obeyed, be lost?
    MayRestart,
    None

VARIABLES
    life,             \* of each pod: "none", "present", "terminating" or "gone"
    answer,           \* to each creation: "open", "given", or "over" without one
    outcome,          \* of a creation, after its answer, or NoValue
    asked,            \* each deletion: "none", "begun", "yes" or "refused"
    victim,           \* the pod that a deletion is about, or None
    end               \* the outcome of a deletion, or NoValue

vars == <<life, answer, outcome, asked, victim, end>>

\* A pod that Kubernetes still has.
Alive == {"present", "terminating"}

Init ==
    /\ life = [c \in Creates |-> "none"]
    /\ answer = [c \in Creates |-> "open"]
    /\ outcome = [c \in Creates |-> NoValue]
    /\ asked = [d \in Deletions |-> "none"]
    /\ victim = [d \in Deletions |-> None]
    /\ end = [d \in Deletions |-> NoValue]

\* The pod of a creation is made, once.
Make(c) ==
    /\ life[c] = "none"
    /\ answer[c] = "open"
    /\ life' = [life EXCEPT ![c] = "present"]
    /\ \/ UNCHANGED answer
       \/ RepliesMayBeLost /\ answer' = [answer EXCEPT ![c] = "over"]
    /\ UNCHANGED <<outcome, asked, victim, end>>

\* An error to the client: but for a lost reply, no pod was made.
TurnDown(c) ==
    /\ life[c] = "none"
    /\ answer[c] = "open"
    /\ answer' = [answer EXCEPT ![c] = "over"]
    /\ UNCHANGED <<life, outcome, asked, victim, end>>

\* The name of a pod that was made, to the client.
Give(c) ==
    /\ life[c] # "none"
    /\ answer[c] = "open"
    /\ answer' = [answer EXCEPT ![c] = "given"]
    /\ UNCHANGED <<life, outcome, asked, victim, end>>

\* A creation succeeds or fails, once; without a pod it can only fail.
Settle(c, v) ==
    /\ answer[c] # "over"
    /\ outcome[c] = NoValue
    /\ v = "true" => life[c] # "none"
    /\ outcome' = [outcome EXCEPT ![c] = v]
    /\ UNCHANGED <<life, answer, asked, victim, end>>

\* A deletion begins because a client asks, or because a creation has failed
\* after its answer: never after one that succeeded.
Begin(d) ==
    /\ asked[d] = "none"
    /\ d \in Creates => answer[d] = "given" /\ outcome[d] = "false"
    /\ asked' = [asked EXCEPT ![d] = "begun"]
    /\ UNCHANGED <<life, answer, outcome, victim, end>>

\* It is about one pod, of its own user.
Choose(d, i) ==
    /\ asked[d] = "begun"
    /\ victim[d] = None
    /\ life[i] \in Alive
    /\ UserOf[i] = UserOf[d]
    /\ victim' = [victim EXCEPT ![d] = i]
    /\ UNCHANGED <<life, answer, outcome, asked, end>>

\* The client is refused.
Refuse(d) ==
    /\ asked[d] = "begun"
    /\ asked' = [asked EXCEPT ![d] = "refused"]
    /\ end' = Sent(end, {d}, "false")
    /\ UNCHANGED <<life, answer, outcome, victim>>

\* Its pod starts to terminate, or another one if its pod is gone already; the
\* client is told that it was requested, unless the reply is lost.
Ask(d, i) ==
    /\ asked[d] = "begun"
    /\ victim[d] # None
    /\ i # victim[d] => life[victim[d]] = "gone"
    /\ life[i] \in Alive
    /\ life' = [life EXCEPT ![i] = "terminating"]
    /\ \/ asked' = [asked EXCEPT ![d] = "yes"] /\ UNCHANGED end
       \/ /\ RepliesMayBeLost
          /\ asked' = [asked EXCEPT ![d] = "refused"]
          /\ end' = Sent(end, {d}, "false")
    /\ UNCHANGED <<answer, outcome, victim>>

\* A deletion ends, once: with success only when its pod is gone.
Finish(d, v) ==
    /\ asked[d] \in {"begun", "yes"}
    /\ end[d] = NoValue
    /\ v = "true" => asked[d] = "yes" /\ life[victim[d]] = "gone"
    /\ end' = [end EXCEPT ![d] = v]
    /\ UNCHANGED <<life, answer, outcome, asked, victim>>

Vanish(i) ==
    /\ life[i] = "terminating"
    /\ life' = [life EXCEPT ![i] = "gone"]
    /\ UNCHANGED <<answer, outcome, asked, victim, end>>

\* The pods stay; every request is forgotten.
Restart ==
    /\ MayRestart
    /\ answer' = [c \in Creates |-> IF life[c] = "none" THEN "open" ELSE "over"]
    /\ outcome' = [c \in Creates |-> NoValue]
    /\ asked' = [d \in Deletions |-> "none"]
    /\ victim' = [d \in Deletions |-> None]
    /\ end' = [d \in Deletions |-> NoValue]
    /\ UNCHANGED life

Next ==
    \/ \E c \in Creates :
        \/ Make(c) \/ TurnDown(c) \/ Give(c)
        \/ \E v \in Values : Settle(c, v)
        \/ Vanish(c)
    \/ \E d \in Deletions :
        \/ Begin(d) \/ Refuse(d)
        \/ \E i \in Creates : Choose(d, i) \/ Ask(d, i)
        \/ \E v \in Values : Finish(d, v)
    \/ Restart

Spec == Init /\ [][Next]_vars
===============================================================================
