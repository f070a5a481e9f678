--------------------------- MODULE MCSendPipeline ---------------------------
(* SendPipeline on small instances: two direct sends to a peer with up to    *)
(* two devices, and a group send to two peers besides ourselves.             *)
EXTENDS SendPipeline, TLC

CONSTANTS me, bob, eve, s1, s2

Symmetric == Permutations({s1, s2})

MyFirst    == <<me, 1>>
PairAddrs  == {<<me, 1>>, <<bob, 1>>, <<bob, 2>>}
NoGroup    == <<>>

MySecond   == <<me, 2>>
TrioAddrs  == PairAddrs \cup {<<me, 2>>, <<eve, 1>>}
Trio       == <<bob, me, eve>>
=============================================================================
