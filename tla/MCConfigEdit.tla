---------------------------- MODULE MCConfigEdit ----------------------------
(***************************************************************************)
(* Two names, two directories and a link to the first; each verb in the    *)
(* forms that can meet another, and texts of every kind a person may save. *)
(***************************************************************************)
EXTENDS ConfigEdit, TLC

CONSTANTS n1, n2, dirA, dirB, linkA

MCCanonical == (dirA :> dirA) @@ (dirB :> dirB) @@ (linkA :> dirA)

MCCommands ==
  {[kind |-> "add", name |-> n1, path |-> linkA], [kind |-> "add", name |-> n2, path |-> dirA],
   [kind |-> "remove", target |-> n1], [kind |-> "remove", target |-> dirB],
   [kind |-> "field", target |-> n1, value |-> "good"],
   [kind |-> "field", target |-> dirA, value |-> Absent],
   [kind |-> "field", target |-> n2, value |-> "refused"],
   [kind |-> "set", inferred |-> "mistyped", text |-> "good"],
   [kind |-> "set", inferred |-> "mistyped", text |-> "refused"],
   [kind |-> "unset"], [kind |-> "edit"]}

Doc(ws, s) == [watches |-> ws, setting |-> s]
W(n, p, k) == [name |-> n, path |-> p, key |-> k]

\* One watch; two; two of a name; two of a directory; a refused and a mistyped
\* setting; no TOML.
MCDrafts ==
  {Doc(<<W(n1, dirA, "good")>>, Absent),
   Doc(<<W(n1, dirB, Absent), W(n2, linkA, Absent)>>, "good"),
   Doc(<<W(n1, dirA, Absent), W(n1, dirB, Absent)>>, Absent),
   Doc(<<W(n1, dirA, Absent)>>, "refused"),
   Doc(<<>>, "mistyped"),
   Garbage}
=============================================================================
