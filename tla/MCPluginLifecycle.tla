------------------------- MODULE MCPluginLifecycle -------------------------
(* Two workers for PluginLifecycle; all of them are alike.                 *)
EXTENDS PluginLifecycle, TLC
CONSTANTS w1, w2
Alike == Permutations(Workers)
=============================================================================
