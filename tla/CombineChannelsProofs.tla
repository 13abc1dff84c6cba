------------------------- MODULE CombineChannelsProofs -------------------------
(***************************************************************************)
(* Proofs about CombineChannels for every number N of inputs, zero         *)
(* included (cleanAllUnused combines an empty list when nothing is         *)
(* orphaned).                                                              *)
(***************************************************************************)
EXTENDS CombineChannels, TLAPS

\* The inputs that have been received.
Received == {i \in Inputs : i < next}

\* The loop invariant of ReceiveReadyChannels.
OutputSoFar ==
    /\ output = "true" => \A i \in Received : in[i] = "true"
    /\ output = "false" => \E i \in Inputs : in[i] = "false"

\* Only the goroutine sends true, and only after its loop.
TrueIsCombined == out = "true" => next = Done /\ output = "true"

IInv ==
    /\ TypeOK
    /\ OutputSoFar
    /\ TrueIsCombined
    /\ FalseHasACause

LEMMA InitIInv == Init => IInv
<1> SUFFICES ASSUME Init PROVE IInv
  OBVIOUS
<1>1. TypeOK
  <2>1. next \in 1 .. Done
    BY CombineAssumption DEF Init, Done
  <2>2. NoValue \in Cells /\ "true" \in Values
    BY DEF Cells, Values
  <2>3. in \in [Inputs -> Cells]
    BY <2>2 DEF Init
  <2> QED
    BY <2>1, <2>2, <2>3 DEF Init, TypeOK
<1>2. Received = {}
  BY DEF Init, Received, Inputs
<1>3. OutputSoFar /\ TrueIsCombined /\ FalseHasACause
  BY <1>2 DEF Init, OutputSoFar, TrueIsCombined, FalseHasACause, NoValue
<1> QED
  BY <1>1, <1>3 DEF IInv

\* An input is settled once, so what was received stays as it was received.
LEMMA SettleIInv ==
  ASSUME IInv, NEW i \in Inputs, NEW v \in Values, Settle(i, v)
  PROVE  IInv'
<1>1. \A j \in Inputs : in[j] # NoValue => in'[j] = in[j]
  BY DEF Settle, IInv, TypeOK
<1>2. TypeOK'
  BY DEF Settle, IInv, TypeOK, Cells
<1>3. OutputSoFar'
  BY <1>1 DEF Settle, IInv, OutputSoFar, Received, NoValue
<1>4. TrueIsCombined'
  BY DEF Settle, IInv, TrueIsCombined
<1>5. FalseHasACause'
  BY <1>1 DEF Settle, IInv, FalseHasACause, NoValue
<1> QED
  BY <1>2, <1>3, <1>4, <1>5 DEF IInv

LEMMA NextIInv == IInv /\ [Next]_vars => IInv'
<1> SUFFICES ASSUME IInv, [Next]_vars PROVE IInv'
  OBVIOUS
<1> USE CombineAssumption
<1>1. ASSUME NEW i \in Inputs, NEW v \in Values, Settle(i, v) PROVE IInv'
  BY <1>1, SettleIInv
<1>2. ASSUME NEW i \in Inputs, InputTimeout(i) PROVE IInv'
  <2>1. Settle(i, "false") /\ "false" \in Values
    BY <1>2 DEF InputTimeout, Values
  <2> QED
    BY <2>1, SettleIInv
<1>3. CASE OutputTimeout
  BY <1>3
     DEF OutputTimeout, SendOut, IInv, TypeOK, OutputSoFar, TrueIsCombined,
         FalseHasACause, Received, Cells, Values
<1>4. CASE ReceiveNext
  <2>1. /\ next \in 1 .. N
        /\ next' = next + 1
        /\ next \in Inputs
        /\ in[next] \in Values
        /\ UNCHANGED <<in, out, expired>>
        /\ output' = IF in[next] = "true" THEN output ELSE "false"
    BY <1>4 DEF ReceiveNext, Inputs, IInv, TypeOK, Cells
  <2>2. Received' = Received \cup {next}
    BY <2>1 DEF Received, Inputs
  <2>3. TypeOK'
    BY <2>1 DEF IInv, TypeOK, Done, Values
  <2>4. OutputSoFar'
    BY <2>1, <2>2 DEF IInv, TypeOK, OutputSoFar, Values
  <2>5. TrueIsCombined'
    BY <2>1 DEF IInv, TrueIsCombined, Done
  <2>6. FalseHasACause'
    BY <2>1 DEF IInv, FalseHasACause
  <2> QED
    BY <2>3, <2>4, <2>5, <2>6 DEF IInv
<1>5. CASE SendOutput
  <2>1. Received = Inputs /\ Received' = Inputs
    BY <1>5 DEF SendOutput, Received, Inputs, Done
  <2>2. TypeOK'
    BY <1>5 DEF SendOutput, SendOut, IInv, TypeOK, Done, Cells
  <2>3. OutputSoFar'
    BY <1>5, <2>1 DEF SendOutput, IInv, OutputSoFar
  <2>4. TrueIsCombined'
    BY <1>5 DEF SendOutput, SendOut, IInv, TrueIsCombined, Done
  <2>5. FalseHasACause'
    BY <1>5 DEF SendOutput, SendOut, IInv, OutputSoFar, FalseHasACause
  <2> QED
    BY <2>2, <2>3, <2>4, <2>5 DEF IInv
<1>6. CASE UNCHANGED vars
  BY <1>6
     DEF vars, IInv, TypeOK, OutputSoFar, TrueIsCombined, FalseHasACause, Received
<1> QED
  BY <1>1, <1>2, <1>3, <1>4, <1>5, <1>6 DEF Next

LEMMA Invariant == Spec => []IInv
  BY InitIInv, NextIInv, PTL DEF Spec

\* The goroutine receives from input channels only, one after the other, and
\* stops after the last (util.go:80), for any number of inputs.
THEOREM TypeCorrect == Spec => []TypeOK
<1>1. IInv => TypeOK
  BY DEF IInv
<1> QED
  BY <1>1, Invariant, PTL

\* Success is reported only if every input succeeded (util.go:79), for any
\* number of inputs settled in any order.
THEOREM TrueIsUnanimous == Spec => []TrueMeansAllTrue
<1>1. IInv => TrueMeansAllTrue
  BY CombineAssumption
     DEF IInv, TypeOK, OutputSoFar, TrueIsCombined, TrueMeansAllTrue, Received,
         Inputs, Done
<1> QED
  BY <1>1, Invariant, PTL

\* Failure is reported only if some input failed or the output timed out.
THEOREM FalseIsCaused == Spec => []FalseHasACause
<1>1. IInv => FalseHasACause
  BY DEF IInv
<1> QED
  BY <1>1, Invariant, PTL
===============================================================================
