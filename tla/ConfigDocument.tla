--------------------------- MODULE ConfigDocument ---------------------------
(***************************************************************************)
(* What those who share config.toml are promised, without locks, parses,   *)
(* temporary files and crashes: every editor changes the file once at      *)
(* most, in one step, from the text it saw, to a text that its command     *)
(* alone could have made of it.  An editor in whose cycle the person saved *)
(* the file by hand keeps less: what it writes was judged beside the text  *)
(* it saw.                                                                 *)
(*                                                                         *)
(* ConfigEdit implements this specification (Atomic).                      *)
(***************************************************************************)
CONSTANTS
  Editors, Commands,
  Drafts,        \* what a person may save
  Absent,        \* no file, no command
  Made(_, _),    \* the texts a command may make of a text
  Allowed(_, _)  \* a text may take the place of another

VARIABLES
  file,
  asked,    \* the command each editor was given
  view,     \* the text it saw last
  spent,    \* the editors that had their turn
  crossed   \* those that a save by hand came across

document == <<file, asked, view, spent, crossed>>

DocumentInit ==
  /\ file \in Drafts \cup {Absent}
  /\ asked = [e \in Editors |-> Absent] /\ view = [e \in Editors |-> Absent]
  /\ spent = {} /\ crossed = {}

Waiting(e) == e \notin spent /\ asked[e] # Absent

GivesCommand(e, c) ==
  /\ e \notin spent /\ asked[e] = Absent
  /\ asked' = [asked EXCEPT ![e] = c]
  /\ UNCHANGED <<file, view, spent, crossed>>

Sees(e) ==
  /\ Waiting(e) /\ view' = [view EXCEPT ![e] = file]
  /\ UNCHANGED <<file, asked, spent, crossed>>

\* The one step that counts.
Changes(e) ==
  /\ Waiting(e) /\ spent' = spent \cup {e}
  /\ \/ e \notin crossed /\ view[e] = file /\ file' \in Made(asked[e], file)
     \/ e \in crossed /\ Allowed(view[e], file')
  /\ UNCHANGED <<asked, view, crossed>>

\* Nothing to change, a refusal, a failure, a kill.
GivesUp(e) ==
  /\ Waiting(e) /\ spent' = spent \cup {e}
  /\ UNCHANGED <<file, asked, view, crossed>>

SavesByHand ==
  /\ file' \in Drafts
  /\ crossed \subseteq crossed' /\ crossed' \subseteq crossed \cup (Editors \ spent)
  /\ UNCHANGED <<asked, view, spent>>

DocumentNext ==
  \/ \E e \in Editors : Sees(e) \/ Changes(e) \/ GivesUp(e)
  \/ \E e \in Editors, c \in Commands : GivesCommand(e, c)
  \/ SavesByHand

DocumentSpec == DocumentInit /\ [][DocumentNext]_document
=============================================================================
