---------------------------- MODULE MCHookRunner ----------------------------
(* Instances of HookRunner for TLC. *)
EXTENDS HookRunner
CONSTANTS k1, k2, p, q
MCKeys == {k1, k2}
MCConfigs == {{k1, k2}, {k1}}
MCPayloads == {p, q}
MCCarries == {<<k1, p>>, <<k1, q>>, <<k2, q>>}
=============================================================================
