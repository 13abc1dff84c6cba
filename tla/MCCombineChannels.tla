--------------------------- MODULE MCCombineChannels ---------------------------
\* CombineChannels with three inputs: a failed one can come before, between and
\* after the others.  The backend combines two (PV and PVC; storage and pod) or
\* as many as a pod has services.
EXTENDS CombineChannels
===============================================================================
