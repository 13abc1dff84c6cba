--------------------------- MODULE CombineChannels ---------------------------
(***************************************************************************)
(* util.ReceiveReadyChannels and util.CombineReadyChannels (util.go:78-95):*)
(* one goroutine receives from each input ReadyChannel in turn and sends   *)
(* the conjunction into an output ReadyChannel.  The inputs are settled by *)
(* watches, jobs or their own timers in any order; the output has a timer  *)
(* of its own.                                                             *)
(***************************************************************************)
EXTENDS Channels, Naturals

CONSTANT N          \* number of input channels

ASSUME CombineAssumption == N \in Nat

Inputs == 1 .. N

VARIABLES
    in,             \* the cell of each input channel
    next,           \* index of the input that is received next
    output,         \* the local variable `output`
    out,            \* the cell of the output channel
    expired         \* the timer of the output channel has fired

vars == <<in, next, output, out, expired>>

Done == N + 2       \* the combined value has been sent

TypeOK ==
    /\ in \in [Inputs -> Cells]
    /\ next \in 1 .. Done
    /\ output \in Values
    /\ out \in Cells
    /\ expired \in BOOLEAN

\* Faulty variant: output starts as the zero value of bool.
InitZero ==
    /\ in = [i \in Inputs |-> NoValue]
    /\ next = 1
    /\ output = "false"
    /\ out = NoValue
    /\ expired = FALSE

Init ==
    /\ in = [i \in Inputs |-> NoValue]
    /\ next = 1
    /\ output = "true"
    /\ out = NoValue
    /\ expired = FALSE

\* A Send settles an input channel.
Settle(i, v) ==
    /\ in[i] = NoValue
    /\ in' = [in EXCEPT ![i] = v]
    /\ UNCHANGED <<next, output, out, expired>>

\* Nothing else came: the input's own timer settles it.
InputTimeout(i) == Settle(i, "false")

SendOut(v) == out' = IF out = NoValue THEN v ELSE out

OutputTimeout ==
    /\ ~expired
    /\ expired' = TRUE
    /\ SendOut("false")
    /\ UNCHANGED <<in, next, output>>

\* Faulty variants: the last value wins; an input is not waited for.
ReceiveLast ==
    /\ next \in Inputs
    /\ in[next] # NoValue
    /\ output' = in[next]
    /\ next' = next + 1
    /\ UNCHANGED <<in, out, expired>>

ReceiveUnsettled ==
    /\ next \in Inputs
    /\ output' = IF output = "true" THEN in[next] ELSE output
    /\ next' = next + 1
    /\ UNCHANGED <<in, out, expired>>

\* if !ch.Receive() { output = false }
ReceiveNext ==
    /\ next \in Inputs
    /\ in[next] # NoValue
    /\ output' = IF in[next] = "true" THEN output ELSE "false"
    /\ next' = next + 1
    /\ UNCHANGED <<in, out, expired>>

\* Faulty variant: only a success is sent.
SendSuccess ==
    /\ next = N + 1
    /\ output = "true"
    /\ next' = Done
    /\ SendOut(output)
    /\ UNCHANGED <<in, output, expired>>

\* outputChannel.Send(output)
SendOutput ==
    /\ next = N + 1
    /\ next' = Done
    /\ SendOut(output)
    /\ UNCHANGED <<in, output, expired>>

Next ==
    \/ \E i \in Inputs, v \in Values : Settle(i, v)
    \/ \E i \in Inputs : InputTimeout(i)
    \/ OutputTimeout
    \/ ReceiveNext
    \/ SendOutput

Spec == Init /\ [][Next]_vars

\* Timers fire and the goroutine runs; no input is ever promised a true.
Fairness ==
    /\ \A i \in Inputs : WF_vars(InputTimeout(i))
    /\ WF_vars(OutputTimeout)
    /\ WF_vars(ReceiveNext)
    /\ WF_vars(SendOutput)

FairSpec == Spec /\ Fairness

-------------------------------------------------------------------------------
\* Success is reported only if every one of the combined events succeeded
\* (util.go:79 "output <- input0 && input 1 && input2..."), whatever the order
\* in which they settle.
TrueMeansAllTrue == out = "true" => \A i \in Inputs : in[i] = "true"

\* Failure is never invented: some event failed, or the output's own timer was
\* the first to send.
FalseHasACause == out = "false" => expired \/ \E i \in Inputs : in[i] = "false"

\* "Block until an input was received from each channel" (util.go:78) always
\* ends: the goroutine started by `go util.CombineReadyChannels` is not leaked.
CombineReturns == <>(next = Done)
===============================================================================
