-------------------------- MODULE ReadyChannelProofs --------------------------
(***************************************************************************)
(* Proofs about ReadyChannel for every set of receivers: the type          *)
(* invariant, agreement of all answers, and the refinement of OneShot.     *)
(***************************************************************************)
EXTENDS ReadyChannel, TLAPS

Holding == {"check", "blocked", "taken", "unlock"}

\* The mutex is held exactly by the receiver that is inside the critical part.
MutexHeld == \A r \in Receivers : pc[r] \in Holding <=> mutex = r

\* A receiver that waits for, or carries, a value is the first ever to do so.
FirstToReceive ==
    \A r \in Receivers :
        /\ pc[r] \in {"blocked", "taken"} => ~receivedYet
        /\ pc[r] = "taken" => value[r] \in Values

\* Whatever was answered is what is remembered.
AnswerRemembered ==
    \A r \in Receivers :
        answer[r] # NoValue => receivedYet /\ answer[r] = firstValue

IInv ==
    /\ TypeOK
    /\ MutexHeld
    /\ FirstToReceive
    /\ AnswerRemembered

LEMMA InitIInv == Init => IInv
  BY ReadyChannelAssumption
     DEF Init, IInv, TypeOK, MutexHeld, FirstToReceive, AnswerRemembered,
         Cells, Values, NoValue, PCs, Holding

\* Send and Timeout only touch the buffer and the timer.
LEMMA PutKeepsCell == ASSUME TypeOK, NEW v \in Values, Put(v) PROVE ch' \in Cells
  BY DEF Put, TypeOK, Cells

LEMMA NextIInv == IInv /\ [Next]_vars => IInv'
<1> SUFFICES ASSUME IInv, [Next]_vars PROVE IInv'
  OBVIOUS
<1> USE ReadyChannelAssumption
<1>1. ASSUME NEW v \in Values, Send(v) PROVE IInv'
  BY <1>1, PutKeepsCell
     DEF IInv, TypeOK, MutexHeld, FirstToReceive, AnswerRemembered, Send
<1>2. CASE Timeout
  <2>1. Put("false") /\ "false" \in Values
    BY <1>2 DEF Timeout, Values
  <2>2. ch' \in Cells
    BY <2>1, PutKeepsCell DEF IInv
  <2> QED
    BY <1>2, <2>2
       DEF IInv, TypeOK, MutexHeld, FirstToReceive, AnswerRemembered, Timeout
<1>3. ASSUME NEW r \in Receivers, Call(r) PROVE IInv'
  BY <1>3
     DEF IInv, TypeOK, MutexHeld, FirstToReceive, AnswerRemembered, Call, Goto,
         PCs, Holding
<1>4. ASSUME NEW r \in Receivers, Lock(r) PROVE IInv'
  BY <1>4
     DEF IInv, TypeOK, MutexHeld, FirstToReceive, AnswerRemembered, Lock, Goto,
         PCs, Holding
<1>5. ASSUME NEW r \in Receivers, ReturnRemembered(r) PROVE IInv'
  BY <1>5
     DEF IInv, TypeOK, MutexHeld, FirstToReceive, AnswerRemembered,
         ReturnRemembered, Goto, PCs, Holding, Cells
<1>6. ASSUME NEW r \in Receivers, BlockOnChannel(r) PROVE IInv'
  BY <1>6
     DEF IInv, TypeOK, MutexHeld, FirstToReceive, AnswerRemembered,
         BlockOnChannel, Goto, PCs, Holding
<1>7. ASSUME NEW r \in Receivers, TakeFirst(r) PROVE IInv'
  BY <1>7
     DEF IInv, TypeOK, MutexHeld, FirstToReceive, AnswerRemembered, TakeFirst,
         Goto, PCs, Holding, Cells
<1>8. ASSUME NEW r \in Receivers, Remember(r) PROVE IInv'
  <2>1. /\ pc[r] = "taken" /\ mutex = r /\ ~receivedYet /\ value[r] \in Values
        /\ \A s \in Receivers : answer[s] = NoValue
    BY <1>8
       DEF IInv, MutexHeld, FirstToReceive, AnswerRemembered, Remember, Goto, Holding
  <2>2. \A s \in Receivers \ {r} : pc[s] \notin Holding
    BY <2>1 DEF IInv, MutexHeld
  <2> QED
    BY <1>8, <2>1, <2>2
       DEF IInv, TypeOK, MutexHeld, FirstToReceive, AnswerRemembered, Remember,
           Goto, PCs, Holding, Cells
<1>9. ASSUME NEW r \in Receivers, Unlock(r) PROVE IInv'
  BY <1>9
     DEF IInv, TypeOK, MutexHeld, FirstToReceive, AnswerRemembered, Unlock,
         Goto, PCs, Holding
<1>10. CASE UNCHANGED vars
  BY <1>10
     DEF IInv, TypeOK, MutexHeld, FirstToReceive, AnswerRemembered, vars
<1> QED
  BY <1>1, <1>2, <1>3, <1>4, <1>5, <1>6, <1>7, <1>8, <1>9, <1>10
     DEF Next, Receive

LEMMA Invariant == Spec => []IInv
  BY InitIInv, NextIInv, PTL DEF Spec

\* Every reachable state of a ReadyChannel is well typed; in particular the
\* remembered value is a value that was sent (util.go:22-27).
THEOREM TypeCorrect == Spec => []TypeOK
<1>1. IInv => TypeOK
  BY DEF IInv
<1> QED
  BY <1>1, Invariant, PTL

\* Two receivers are never told different values (util.go:55), however many
\* receivers and senders there are.
THEOREM ReceiversAgree == Spec => []Agreement
<1>1. IInv => Agreement
  BY DEF IInv, AnswerRemembered, Agreement
<1> QED
  BY <1>1, Invariant, PTL

-------------------------------------------------------------------------------
\* At most one receiver carries a value: it is the one that Settled speaks of.
LEMMA InHandIsOne ==
  ASSUME IInv, NEW r \in Receivers, pc[r] = "taken"
  PROVE  InHand = {r} /\ Settled = value[r]
<1>1. ~receivedYet /\ mutex = r
  BY DEF IInv, FirstToReceive, MutexHeld, Holding
<1>2. \A s \in InHand : s = r
  BY <1>1 DEF InHand, IInv, MutexHeld, Holding
<1>3. InHand = {r}
  BY <1>2 DEF InHand
<1> QED
  BY <1>1, <1>3 DEF Settled

LEMMA RefinesInit == Init => Promise!Init
<1> SUFFICES ASSUME Init PROVE Promise!Init
  OBVIOUS
<1>1. InHand = {}
  BY DEF InHand, Init
<1> QED
  BY <1>1 DEF Init, Settled, Promise!Init, Promise!NoValue, NoValue

\* A value put into the buffer settles the channel or is dropped unseen.
LEMMA RefinesPut ==
  ASSUME IInv, NEW v \in Values, Put(v),
         UNCHANGED <<receivedYet, firstValue, pc, value, answer>>
  PROVE  Promise!Settle(v) \/ UNCHANGED <<Settled, answer>>
<1>1. InHand' = InHand
  BY DEF InHand
<1>2. CASE receivedYet \/ InHand # {}
  BY <1>1, <1>2 DEF Settled
<1>3. CASE ~receivedYet /\ InHand = {}
  <2>1. Settled = ch /\ Settled' = ch'
    BY <1>1, <1>3 DEF Settled
  <2> QED
    BY <2>1 DEF Put, Promise!Settle, Promise!NoValue, NoValue
<1> QED
  BY <1>2, <1>3

LEMMA RefinesNext == IInv /\ IInv' /\ [Next]_vars => [Promise!Next]_(Promise!vars)
<1> SUFFICES ASSUME IInv, IInv', [Next]_vars
             PROVE  Promise!Next \/ UNCHANGED <<Settled, answer>>
  BY DEF Promise!vars
<1>1. ASSUME NEW v \in Values, Send(v)
      PROVE  Promise!Next \/ UNCHANGED <<Settled, answer>>
  BY <1>1, RefinesPut DEF Send, Promise!Next, Promise!Values, Values
<1>2. CASE Timeout
  <2>1. "false" \in Values
    BY DEF Values
  <2> QED
    BY <1>2, <2>1, RefinesPut DEF Timeout, Promise!Next, Promise!Values, Values
\* Steps of Receive that leave the set InHand and every value alone.
<1>3. ASSUME NEW r \in Receivers,
             Call(r) \/ Lock(r) \/ BlockOnChannel(r) \/ Unlock(r)
      PROVE  UNCHANGED <<Settled, answer>>
  <2>1. InHand' = InHand
    BY <1>3 DEF InHand, Call, Lock, BlockOnChannel, Unlock, Goto, IInv, TypeOK
  <2> QED
    BY <1>3, <2>1 DEF Settled, Call, Lock, BlockOnChannel, Unlock
<1>4. ASSUME NEW r \in Receivers, ReturnRemembered(r) PROVE Promise!Answer(r)
  BY <1>4 DEF ReturnRemembered, Promise!Answer, Settled, IInv, TypeOK, NoValue,
           Promise!NoValue, Values
<1>5. ASSUME NEW r \in Receivers, TakeFirst(r) PROVE UNCHANGED <<Settled, answer>>
  <2>1. pc[r] = "blocked" /\ mutex = r /\ ~receivedYet /\ pc'[r] = "taken"
    BY <1>5 DEF TakeFirst, Goto, IInv, TypeOK, FirstToReceive, MutexHeld, Holding
  <2>2. InHand = {}
    BY <2>1 DEF InHand, IInv, MutexHeld, Holding
  <2>3. Settled = ch
    BY <2>1, <2>2 DEF Settled
  <2>4. InHand' = {r}
    BY <1>5, <2>2 DEF InHand, TakeFirst, Goto, IInv, TypeOK
  <2>5. Settled' = value'[r] /\ value'[r] = ch
    BY <1>5, <2>1, <2>4 DEF Settled, TakeFirst, IInv, TypeOK
  <2> QED
    BY <1>5, <2>3, <2>5 DEF TakeFirst
<1>6. ASSUME NEW r \in Receivers, Remember(r) PROVE Promise!Answer(r)
  <2>1. pc[r] = "taken" /\ Settled = value[r] /\ value[r] \in Values
    BY <1>6, InHandIsOne DEF Remember, Goto, IInv, FirstToReceive
  <2>2. Settled' = value[r]
    BY <1>6 DEF Remember, Settled
  <2> QED
    BY <1>6, <2>1, <2>2 DEF Remember, Promise!Answer, Promise!NoValue, Values
<1>7. CASE UNCHANGED vars
  BY <1>7 DEF vars, Settled, InHand
<1> QED
  BY <1>1, <1>2, <1>3, <1>4, <1>5, <1>6, <1>7
     DEF Next, Receive, Promise!Next

\* A ReadyChannel implements the one-shot value of module OneShot: the first
\* value sent, or the timeout's false, settles it for good (util.go:55-76).
THEOREM ImplementsPromise == Spec => KeepsPromise
  BY InitIInv, NextIInv, RefinesInit, RefinesNext, PTL
     DEF Spec, KeepsPromise, Promise!Spec
===============================================================================
