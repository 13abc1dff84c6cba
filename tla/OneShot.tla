------------------------------- MODULE OneShot -------------------------------
(***************************************************************************)
(* What a ReadyChannel promises to its users: "signalling whether one-off  *)
(* events have completed successfully within a timeout" (util.go:21).      *)
(* One value is settled once; every Receive answers with that value.       *)
(***************************************************************************)
EXTENDS Channels

CONSTANT Receivers    \* the goroutines that call Receive

VARIABLES
    value,            \* the value settled by the first Send, or NoValue
    answer            \* what each receiver has been told so far

vars == <<value, answer>>

Init ==
    /\ value = NoValue
    /\ answer = [r \in Receivers |-> NoValue]

\* The first Send decides.
Settle(v) ==
    /\ value = NoValue
    /\ value' = v
    /\ UNCHANGED answer

\* A Receive returns the settled value, and only that.
Answer(r) ==
    /\ value # NoValue
    /\ answer' = [answer EXCEPT ![r] = value]
    /\ UNCHANGED value

Next ==
    \/ \E v \in Values : Settle(v)
    \/ \E r \in Receivers : Answer(r)

Spec == Init /\ [][Next]_vars
=============================================================================
