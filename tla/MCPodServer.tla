------------------------------ MODULE MCPodServer ------------------------------
\* PodServer on small instances: creations c1 and c3 and the deletion d1 are
\* alice's, creation c2 is bob's, and their pods can be given one name only, which
\* the two users share.
EXTENDS PodServer, TLC

CONSTANTS alice, bob, p1, c1, c2, c3, d1

OneName == (alice :> <<p1>>) @@ (bob :> <<p1>>)
BobC2   == [r \in Deletions |-> IF r = c2 THEN bob ELSE alice]

\* The bound of the run without liveness: c1 meets one more creation, bob's or
\* alice's, whose own failure is not followed by a deletion.
TwoCreations ==
    /\ cpc[c2] = "idle" \/ cpc[c3] = "idle"
    /\ \A c \in Creates \ {c1} : cpc[c] # "failed"

\* A channel's watch is of no consequence once the channel has a value, and the
\* channel of a watch none once the outcome of the request is settled: no step and
\* no property looks at either again, until a restart clears both.
Pending(request, cell) == [r \in DOMAIN request |->
                              IF request[r] # NoValue THEN NoValue ELSE cell[r]]
Waiting(request, cell, watch) == [r \in DOMAIN request |->
                              IF request[r] # NoValue \/ cell[r] # NoValue THEN "none" ELSE watch[r]]
WhatMatters ==
    <<k8s, maps, cpc, target, created, dpc, dname, found, deleted,
      Pending(created, podReady), Waiting(created, podReady, readyWatch),
      Pending(deleted, podDeleted), Waiting(deleted, podDeleted, goneWatch)>>
===============================================================================
