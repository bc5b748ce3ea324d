-------------------------- MODULE MCChannelManager --------------------------
(***************************************************************************)
(* ChannelManager for TLC: two tuners, both for transponder i1, one for    *)
(* each of the others; channel objects and handlers are interchangeable.   *)
(***************************************************************************)
EXTENDS ChannelManager, TLC

CONSTANTS f1, f2, i1, i2, i3

TunablePairs == {<<i1, f1>>, <<i1, f2>>, <<i2, f1>>, <<i3, f2>>}
LinkedPairs == {<<f2, f1>>}

\* Which channel object is new does not matter: dead ones are all alike.
Symmetric == Permutations(Channels) \cup Permutations(Handlers)

=============================================================================
