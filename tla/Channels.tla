------------------------------ MODULE Channels ------------------------------
(***************************************************************************)
(* The ReadyChannel of util/util.go as the rest of the backend sees it: a  *)
(* cell that is empty until the first Send (or the timeout, which sends    *)
(* false) and then keeps that value for every Receive.  Module             *)
(* ReadyChannel models the type itself and is shown to keep this promise;  *)
(* the other modules keep one such cell per ReadyChannel.                  *)
(*                                                                         *)
(* The Go values true and false are written "true" and "false", so that a  *)
(* cell can be compared with the empty cell NoValue.                       *)
(***************************************************************************)

NoValue == "none"
Values  == {"true", "false"}
Cells   == Values \cup {NoValue}

\* Conjunction of two received values, as `if !ch.Receive() { output = false }`.
Both(v, w) == IF v = "true" /\ w = "true" THEN "true" ELSE "false"

\* A family of channels after a Send of v into each channel of S: a channel
\* that already holds a value keeps it.
Sent(chans, S, v) ==
    [x \in DOMAIN chans |->
        IF x \in S /\ chans[x] = NoValue THEN v ELSE chans[x]]
=============================================================================
