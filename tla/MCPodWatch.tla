------------------------------ MODULE MCPodWatch ------------------------------
\* PodWatch with one creation of alice's, the deletion that follows if it fails,
\* and one watch or get_pods request that alice or bob makes.
EXTENDS PodWatch, TLC

CONSTANTS alice, bob, p1

AliceOnly == (alice :> <<p1>>) @@ (bob :> <<>>)
AllAlice  == [r \in Deletions |-> alice]
===============================================================================
