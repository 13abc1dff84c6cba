----------------------------- MODULE ReadyChannel -----------------------------
(***************************************************************************)
(* util.ReadyChannel (util/util.go:21-76): a Go channel with a buffer of   *)
(* one, a mutex, and the pair receivedYet/firstValue that remembers the    *)
(* first value taken from the buffer.                                      *)
(*                                                                         *)
(* The steps of Receive are separate actions, because the buffer is empty  *)
(* again once the first value has been taken out: a later Send, or the     *)
(* timeout, then puts a SECOND value into it.  Only the mutex, held until  *)
(* receivedYet is set, keeps another Receive away from that second value.  *)
(***************************************************************************)
EXTENDS Channels

CONSTANTS
    Receivers,    \* goroutines that call Receive, each as often as it likes
    NoOne         \* the mutex is free

ASSUME ReadyChannelAssumption == NoOne \notin Receivers

VARIABLES
    ch,           \* the buffer of the Go channel: a value, or NoValue if empty
    mutex,        \* the receiver that holds t.mutex, or NoOne
    receivedYet,  \* t.receivedYet
    firstValue,   \* t.firstValue
    timer,        \* the goroutine of NewReadyChannel: "sleeping" or "fired"
    pc,           \* where each receiver is in Receive
    value,        \* the local variable `value` of each Receive
    answer        \* what each receiver's last Receive returned

vars == <<ch, mutex, receivedYet, firstValue, timer, pc, value, answer>>

\* "idle": not in Receive.  "lock": before t.mutex.Lock().  "check": before the
\* test of t.receivedYet.  "blocked": at `<-t.ch`.  "taken": value taken out of
\* the channel, not yet remembered.  "unlock": the deferred Unlock.
PCs == {"idle", "lock", "check", "blocked", "taken", "unlock"}

TypeOK ==
    /\ ch \in Cells
    /\ mutex \in Receivers \cup {NoOne}
    /\ receivedYet \in BOOLEAN
    /\ firstValue \in Values
    /\ timer \in {"sleeping", "fired"}
    /\ pc \in [Receivers -> PCs]
    /\ value \in [Receivers -> Cells]
    /\ answer \in [Receivers -> Cells]

\* NewReadyChannel
Init ==
    /\ ch = NoValue
    /\ mutex = NoOne
    /\ receivedYet = FALSE
    /\ firstValue = "false"
    /\ timer = "sleeping"
    /\ pc = [r \in Receivers |-> "idle"]
    /\ value = [r \in Receivers |-> NoValue]
    /\ answer = [r \in Receivers |-> NoValue]

Goto(r, from, to) ==
    /\ pc[r] = from
    /\ pc' = [pc EXCEPT ![r] = to]

\* Faulty variant: the buffer is overwritten.
PutOverwriting(v) == ch' = v

\* The non-blocking select of Send: a full buffer drops the value.
Put(v) == ch' = IF ch = NoValue THEN v ELSE ch

\* Some goroutine calls Send(v).
Send(v) ==
    /\ Put(v)
    /\ UNCHANGED <<mutex, receivedYet, firstValue, timer, pc, value, answer>>

\* Faulty variant: the goroutine sleeps and sends nothing.
TimeoutSilent ==
    /\ timer = "sleeping"
    /\ timer' = "fired"
    /\ UNCHANGED <<ch, mutex, receivedYet, firstValue, pc, value, answer>>

\* The sleep of NewReadyChannel is over: rc.Send(false).
Timeout ==
    /\ timer = "sleeping"
    /\ timer' = "fired"
    /\ Put("false")
    /\ UNCHANGED <<mutex, receivedYet, firstValue, pc, value, answer>>

\* A goroutine calls Receive.
Call(r) ==
    /\ Goto(r, "idle", "lock")
    /\ UNCHANGED <<ch, mutex, receivedYet, firstValue, timer, value, answer>>

\* Faulty variant: Receive without the mutex.
LockUnguarded(r) ==
    /\ Goto(r, "lock", "check")
    /\ mutex' = r
    /\ UNCHANGED <<ch, receivedYet, firstValue, timer, value, answer>>

\* t.mutex.Lock()
Lock(r) ==
    /\ Goto(r, "lock", "check")
    /\ mutex = NoOne
    /\ mutex' = r
    /\ UNCHANGED <<ch, receivedYet, firstValue, timer, value, answer>>

\* if t.receivedYet { return t.firstValue }
ReturnRemembered(r) ==
    /\ receivedYet
    /\ Goto(r, "check", "unlock")
    /\ answer' = [answer EXCEPT ![r] = firstValue]
    /\ UNCHANGED <<ch, mutex, receivedYet, firstValue, timer, value>>

\* Otherwise go on to the blocking `<-t.ch`.
BlockOnChannel(r) ==
    /\ ~receivedYet
    /\ Goto(r, "check", "blocked")
    /\ UNCHANGED <<ch, mutex, receivedYet, firstValue, timer, value, answer>>

\* Faulty variant: a receive that does not block on an empty buffer.
TakeFirstNonBlocking(r) ==
    /\ Goto(r, "blocked", "taken")
    /\ value' = [value EXCEPT ![r] = ch]
    /\ ch' = NoValue
    /\ UNCHANGED <<mutex, receivedYet, firstValue, timer, answer>>

\* value := <-t.ch; the buffer is empty again.
TakeFirst(r) ==
    /\ Goto(r, "blocked", "taken")
    /\ ch # NoValue
    /\ value' = [value EXCEPT ![r] = ch]
    /\ ch' = NoValue
    /\ UNCHANGED <<mutex, receivedYet, firstValue, timer, answer>>

\* t.receivedYet = true; t.firstValue = value; return value
Remember(r) ==
    /\ Goto(r, "taken", "unlock")
    /\ receivedYet' = TRUE
    /\ firstValue' = value[r]
    /\ answer' = [answer EXCEPT ![r] = value[r]]
    /\ UNCHANGED <<ch, mutex, timer, value>>

\* The deferred t.mutex.Unlock()
Unlock(r) ==
    /\ Goto(r, "unlock", "idle")
    /\ mutex' = NoOne
    /\ UNCHANGED <<ch, receivedYet, firstValue, timer, value, answer>>

Receive(r) ==
    \/ Lock(r)
    \/ ReturnRemembered(r)
    \/ BlockOnChannel(r)
    \/ TakeFirst(r)
    \/ Remember(r)
    \/ Unlock(r)

Next ==
    \/ \E v \in Values : Send(v)
    \/ Timeout
    \/ \E r \in Receivers : Call(r) \/ Receive(r)

Spec == Init /\ [][Next]_vars

\* The timer goroutine and every receiver inside Receive keep running.  Lock is
\* strongly fair: a sync.Mutex hands itself to a waiter that has starved for a
\* millisecond, so a receiver is not overtaken for ever.  No Send is assumed.
Fairness ==
    /\ WF_vars(Timeout)
    /\ \A r \in Receivers :
        /\ SF_vars(Lock(r))
        /\ WF_vars(Receive(r))

FairSpec == Spec /\ Fairness

-------------------------------------------------------------------------------
(***************************************************************************)
(* Refinement: the settled value is the remembered one, else the one a     *)
(* receiver has in hand, else the one in the buffer.                       *)
(***************************************************************************)
InHand == {r \in Receivers : pc[r] = "taken"}

Settled ==
    IF receivedYet THEN firstValue
    ELSE IF InHand # {} THEN value[CHOOSE r \in InHand : TRUE]
    ELSE ch

Promise == INSTANCE OneShot WITH value <- Settled

\* A ReadyChannel settles on the first value sent or timed out, and never
\* changes its mind, whatever is sent while a receiver is between `<-t.ch` and
\* `t.receivedYet = true` (util.go:70-74).
KeepsPromise == Promise!Spec

\* "Return the first value that was input to t.Send()" (util.go:55): two
\* receivers are never told different values.
Agreement ==
    \A r, s \in Receivers :
        answer[r] # NoValue /\ answer[s] # NoValue => answer[r] = answer[s]

\* Every Receive returns, without any Send: no goroutine that waits on a
\* ReadyChannel is leaked (README "Goroutine leaks").
ReceiveReturns == \A r \in Receivers : (pc[r] = "lock") ~> (pc[r] = "idle")
===============================================================================
