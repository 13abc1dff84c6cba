---------------------------- MODULE MCReadyChannel ----------------------------
\* ReadyChannel with three receivers, one more than the two that can disagree:
\* a second receiver can be past Lock's queue while a third waits.  There is no
\* symmetry reduction, which would be unsound for the liveness properties.
EXTENDS ReadyChannel
===============================================================================
