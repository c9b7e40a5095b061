----------------------------- MODULE ConfigEdit -----------------------------
(***************************************************************************)
(* The editors of config.toml (config_edit.rs, config_cmd.rs, watch/mod.rs,*)
(* watch/select.rs, atomic.rs, and what config.rs makes of the text): the  *)
(* vard watch and vard config verbs, vard config edit with a person in     *)
(* front of it, and the person's own editor, which knows no lock.          *)
(*                                                                         *)
(* A document keeps what the verbs tell apart: the watches in order, each  *)
(* with a name, a path and one scalar that stands for its optional keys    *)
(* (paused, sync, trigger, ...), and one scalar that stands for the tables *)
(* vard config addresses.  Names that differ in case only are one name.    *)
(* Left out: an inline array of watches, which every verb refuses, and the *)
(* resume of a watch that is not paused, which writes what it read.        *)
(***************************************************************************)
EXTENDS Naturals, Sequences, SequencesExt, FiniteSetsExt

CONSTANTS
  Editors,   \* processes of the vard CLI, one command each
  Commands,  \* the commands they may be given
  Drafts,    \* what a person may save
  Names, Paths,
  Canonical, \* Canonical[p]: the directory p leads to, if it exists
  Absent,    \* no file, no key, no watch
  Garbage,   \* a text that is no TOML
  MaxSaves   \* saves of the person's own editor

\* A scalar: not set, fine, of a type its field does not have (the text is no
\* Config), or of the type but refused when the watches are resolved.
Values == {Absent, "good", "mistyped", "refused"}

Watches == [name : Names, path : Paths, key : Values]
Documents == [watches : Seq(Watches), setting : Values]
Texts == Documents \cup {Garbage}
Selectors == Names \cup Paths

AllCommands ==
  [kind : {"add"}, name : Names, path : Paths]
    \cup [kind : {"remove"}, target : Selectors]
    \cup [kind : {"field"}, target : Selectors, value : Values \ {"mistyped"}]
    \cup [kind : {"set"}, inferred : Values \ {Absent}, text : Values]
    \cup [kind : {"unset", "edit"}]

ASSUME EditorsAssumption == Absent \notin Editors
ASSUME CommandsAssumption == Commands \subseteq AllCommands /\ Absent \notin Commands
ASSUME DraftsAssumption == Drafts \subseteq Texts /\ Absent \notin Texts /\ Garbage \notin Documents
ASSUME PathsAssumption == Canonical \in [Paths -> Paths \cup {Absent}] /\ Absent \notin Paths
ASSUME SelectorsAssumption == Names \cap Paths = {}
ASSUME SavesAssumption == MaxSaves \in Nat

VARIABLES
  file,      \* config.toml
  lock,      \* who holds the flock of config.lock
  step, cmd,
  base,      \* the text an editor loaded
  chosen,    \* the watch it selected in its first parse
  scratch,   \* the temporary file of vard config edit
  fate,      \* of what the person wrote in it
  crossed,   \* the editors during whose cycle the person saved the file
  saves

editVars == <<file, lock, step, cmd, base, chosen, scratch, fate, crossed, saves>>

Stages == {"off", "ask", "seed", "human", "lock", "read", "load", "compare", "commit",
           "drain", "done"}

EditTypeOK ==
  /\ file \in Texts \cup {Absent} /\ lock \in Editors \cup {Absent}
  /\ step \in [Editors -> Stages] /\ cmd \in [Editors -> Commands \cup {Absent}]
  /\ base \in [Editors -> Texts \cup {Absent}] /\ chosen \in [Editors -> Watches \cup {Absent}]
  /\ scratch \in [Editors -> Texts \cup {Absent}]
  /\ fate \in [Editors -> {"none", "written", "installed", "lost"}]
  /\ crossed \subseteq Editors /\ saves \in 0 .. MaxSaves

EditInit ==
  /\ file \in Drafts \cup {Absent} /\ lock = Absent /\ saves = 0 /\ crossed = {}
  /\ step = [e \in Editors |-> "off"] /\ cmd = [e \in Editors |-> Absent]
  /\ base = [e \in Editors |-> Absent] /\ chosen = [e \in Editors |-> Absent]
  /\ scratch = [e \in Editors |-> Absent] /\ fate = [e \in Editors |-> "none"]

-----------------------------------------------------------------------------
(* What the read layer makes of a text.                                    *)

NewDocument == [watches |-> <<>>, setting |-> Absent]
Seeded(text) == IF text = Absent THEN NewDocument ELSE text

\* The places that hold a value of a wrong type, 0 for the setting: no Config.
Mistyped(doc) ==
  {i \in DOMAIN doc.watches : doc.watches[i].key = "mistyped"}
    \cup {i \in {0} : doc.setting = "mistyped"}

\* The places where resolve_all stops.  Paths are compared as texts: two names of
\* one directory are no error here.
RefusedAt(doc) ==
  {i \in DOMAIN doc.watches :
     \/ doc.watches[i].key = "refused"
     \/ \E j \in 1 .. i - 1 : \/ doc.watches[i].name = doc.watches[j].name
                              \/ doc.watches[i].path = doc.watches[j].path}
    \cup {i \in {0} : doc.setting = "refused"}

\* The first error of a document.
Complaint(doc) ==
  IF Mistyped(doc) # {} THEN <<"mistyped", Min(Mistyped(doc))>>
  ELSE IF RefusedAt(doc) # {} THEN <<"refused", Min(RefusedAt(doc))>>
  ELSE <<>>

\* A missing file is a valid baseline.
Valid(text) == text # Garbage /\ Complaint(Seeded(text)) = <<>>

\* config_path_identifies
Identifies(p, q) ==
  IF Canonical[p] # Absent /\ Canonical[q] # Absent THEN Canonical[p] = Canonical[q] ELSE p = q

Named(doc, n) == {i \in DOMAIN doc.watches : doc.watches[i].name = n}
Rooted(doc, p) == {i \in DOMAIN doc.watches : Identifies(doc.watches[i].path, p)}

\* The first of a name, the only one of a path.
Selected(doc, target) ==
  IF Named(doc, target) # {} THEN {Min(Named(doc, target))}
  ELSE IF target \in Paths /\ Cardinality(Rooted(doc, target)) = 1 THEN Rooted(doc, target)
  ELSE {}

-----------------------------------------------------------------------------
(* The mutations of a document.                                            *)

\* plan_registration: a new name for a new directory, or the same watch again.
Registers(doc, n, p) ==
  Rooted(doc, p) = {} \/ (Named(doc, n) # {} /\ Min(Named(doc, n)) = Min(Rooted(doc, p)))

\* append_watch; update_watch for a relink whose watch is still there.
Added(doc, n, p, relink) ==
  IF relink /\ Named(doc, n) # {}
    THEN [doc EXCEPT !.watches[Min(Named(doc, n))].path = p]
    ELSE [doc EXCEPT !.watches = Append(@, [name |-> n, path |-> p, key |-> Absent])]

\* watch_index: the watch is looked up again, by name.
First(doc, n) == {i \in Named(doc, n) : i = Min(Named(doc, n))}

Removed(doc, n) == {[doc EXCEPT !.watches = RemoveAt(@, i)] : i \in First(doc, n)}

\* A key that is cleared must be there.
Keyed(doc, n, v) ==
  {[doc EXCEPT !.watches[i].key = v] :
     i \in {j \in First(doc, n) : v = Absent => doc.watches[j].key # Absent}}

\* select_set_candidate: a candidate that is valid, the inferred one first; else
\* the error that says most; in a broken document, the error it had.
Set(doc, inferred, text) ==
  LET With(v) == [doc EXCEPT !.setting = v]
      asText ==
        /\ text # Absent /\ ~Valid(With(inferred))
        /\ \/ Valid(With(text))
           \/ /\ Valid(doc)
              /\ Complaint(With(inferred))[1] = "mistyped" /\ Complaint(With(text))[1] # "mistyped"
           \/ /\ ~Valid(doc)
              /\ Complaint(With(inferred)) # Complaint(doc) /\ Complaint(With(text)) = Complaint(doc)
  IN With(IF asText THEN text ELSE inferred)

\* What command c wants to write over a text, with watch w selected and a draft
\* saved: none, if there is nothing to change.
Edits(c, text, w, draft) ==
  LET doc == Seeded(text) IN
  CASE c.kind = "add"    -> {Added(doc, c.name, Canonical[c.path], w # Absent)}
    [] c.kind = "remove" -> Removed(doc, w.name)
    [] c.kind = "field"  -> Keyed(doc, w.name, c.value)
    [] c.kind = "set"    -> {Set(doc, c.inferred, c.text)}
    [] c.kind = "unset"  -> {[doc EXCEPT !.setting = Absent]} \ {doc}
    [] c.kind = "edit"   -> {draft} \ {Garbage}

-----------------------------------------------------------------------------
(* The verbs.                                                              *)

Goes(e, s) == step' = [step EXCEPT ![e] = s]

\* The flock goes with the process, or with the end of its scope.
Ends(e) == Goes(e, "done") /\ lock' = IF lock = e THEN Absent ELSE lock

\* What needs a person, or takes long, comes before the lock.
Start(e, c) ==
  /\ step[e] = "off" /\ cmd' = [cmd EXCEPT ![e] = c]
  /\ Goes(e, CASE c.kind = "add" -> "ask" [] c.kind = "edit" -> "seed" [] OTHER -> "lock")
  /\ UNCHANGED <<file, lock, base, chosen, scratch, fate, crossed, saves>>

\* plan_repo: a directory that exists, and a repository or leave to make one.
Ask(e) ==
  /\ step[e] = "ask"
  /\ \/ Canonical[cmd[e].path] # Absent /\ Goes(e, "lock")
     \/ Goes(e, "done")
  /\ UNCHANGED <<file, lock, cmd, base, chosen, scratch, fate, crossed, saves>>

Lock(e) ==
  /\ step[e] = "lock" /\ lock = Absent /\ lock' = e
  /\ Goes(e, CASE cmd[e].kind = "edit" -> "compare"
               [] cmd[e].kind \in {"set", "unset"} -> "load"
               [] OTHER -> "read")
  /\ UNCHANGED <<file, cmd, base, chosen, scratch, fate, crossed, saves>>

\* load_config
Readable(text) == text # Garbage /\ Mistyped(Seeded(text)) = {}

\* The watches command c may select in a text, as a set of at most one; for an
\* add, the watch it relinks or Absent.
Plans(c, text) ==
  LET doc == Seeded(text) IN
  CASE c.kind = "add" ->
         LET same == Named(doc, c.name) IN
         IF ~Registers(doc, c.name, Canonical[c.path]) THEN {}
         ELSE IF same = {} THEN {Absent} ELSE {doc.watches[Min(same)]}
    [] c.kind \in {"remove", "field"} ->
         {doc.watches[i] : i \in Selected(doc, c.target)}
    [] OTHER -> {Absent}

\* What is decided on the first parse.
Read(e) ==
  /\ step[e] = "read"
  /\ IF Readable(file) /\ Plans(cmd[e], file) # {}
       THEN /\ \E w \in Plans(cmd[e], file) : chosen' = [chosen EXCEPT ![e] = w]
            /\ Goes(e, "load") /\ UNCHANGED lock
       ELSE Ends(e) /\ UNCHANGED chosen
  /\ UNCHANGED <<file, cmd, base, scratch, fate, crossed, saves>>

Loads(c, text) == text # Garbage /\ (text = Absent => c.kind \in {"add", "set"})

\* load_document_with_text, a parse of its own.
LoadText(e) ==
  /\ step[e] = "load"
  /\ IF Loads(cmd[e], file)
       THEN Goes(e, "commit") /\ base' = [base EXCEPT ![e] = file] /\ UNCHANGED lock
       ELSE Ends(e) /\ UNCHANGED base
  /\ UNCHANGED <<file, cmd, chosen, scratch, fate, crossed, saves>>

\* Mutant of Allowed: a missing file is no valid baseline.
AllowedOnNothing(text, doc) == Valid(doc) \/ text = Absent \/ ~Valid(text)

\* commit_document
Allowed(text, doc) == Valid(doc) \/ ~Valid(text)

\* One rename.  A removal still drains the watch under the lock.
Commit(e) ==
  /\ step[e] = "commit"
  /\ \E doc \in Edits(cmd[e], base[e], chosen[e], scratch[e]) :
       /\ Allowed(base[e], doc) /\ file' = doc
       /\ IF cmd[e].kind = "remove" THEN Goes(e, "drain") /\ UNCHANGED lock ELSE Ends(e)
  /\ IF cmd[e].kind = "edit"
       THEN /\ scratch' = [scratch EXCEPT ![e] = Absent]
            /\ fate' = [fate EXCEPT ![e] = "installed"]
       ELSE UNCHANGED <<scratch, fate>>
  /\ UNCHANGED <<cmd, base, chosen, crossed, saves>>

\* Nothing to change, a refused edit, git init or the write failed.
Refuse(e) == step[e] = "commit" /\ Ends(e)
  /\ UNCHANGED <<file, cmd, base, chosen, scratch, fate, crossed, saves>>

\* drain_removed_watch waits REMOVE_DRAIN_BUDGET at most for the instance lock.
Drain(e) == step[e] = "drain" /\ Ends(e)
  /\ UNCHANGED <<file, cmd, base, chosen, scratch, fate, crossed, saves>>

-----------------------------------------------------------------------------
(* vard config edit.                                                       *)

\* Mutant of Held: the lock is taken before the person is asked.
HeldAlready(e) == lock = Absent /\ lock' = e

Held(e) == UNCHANGED lock

Seed(e) ==
  /\ step[e] = "seed" /\ Goes(e, "human") /\ Held(e)
  /\ base' = [base EXCEPT ![e] = file]
  /\ scratch' = [scratch EXCEPT ![e] = Seeded(file)]
  /\ UNCHANGED <<file, cmd, chosen, fate, crossed, saves>>

\* The person saves what they have so far, and types on.
PersonSaves(e) ==
  /\ step[e] = "human" /\ Goes(e, "human")
  /\ \E d \in Drafts : scratch' = [scratch EXCEPT ![e] = d]
  /\ fate' = [fate EXCEPT ![e] = "written"]
  /\ UNCHANGED <<file, lock, cmd, base, chosen, crossed, saves>>

\* The editor ends well, whether or not anything was saved; or it does not, or its
\* file cannot be read back: then the file goes, with whatever was saved in it.
EditorExits(e) ==
  /\ step[e] = "human"
  /\ \/ Goes(e, "lock") /\ UNCHANGED <<lock, scratch, fate>>
     \/ /\ Ends(e) /\ scratch' = [scratch EXCEPT ![e] = Absent]
        /\ fate' = [fate EXCEPT ![e] = IF @ = "written" THEN "lost" ELSE @]
  /\ UNCHANGED <<file, cmd, base, chosen, crossed, saves>>

\* Mutant of Same: what was saved meanwhile is not looked at.
SameAnyway(e) == TRUE

Same(e) == file = base[e]

\* Mutant of Preserved: the temporary file is removed.
PreservedNot(e) == scratch' = [scratch EXCEPT ![e] = Absent]

Preserved(e) == UNCHANGED scratch

Compare(e) ==
  /\ step[e] = "compare"
  /\ \/ Same(e) /\ Goes(e, "commit") /\ UNCHANGED <<lock, scratch>>
     \/ ~Same(e) /\ Ends(e) /\ Preserved(e)
  /\ UNCHANGED <<file, cmd, base, chosen, fate, crossed, saves>>

-----------------------------------------------------------------------------
(* Outside the lock.                                                       *)

\* The person saves the file itself.
HandSave ==
  /\ saves < MaxSaves /\ saves' = saves + 1
  /\ file' \in Drafts \ {file}
  /\ crossed' = crossed \cup {e \in Editors : \/ step[e] = "commit"
                                              \/ step[e] = "load" /\ cmd[e].kind \notin {"set", "unset"}}
  /\ UNCHANGED <<lock, step, cmd, base, chosen, scratch, fate>>

Crash(e) == step[e] \notin {"off", "done"} /\ Ends(e)
  /\ UNCHANGED <<file, cmd, base, chosen, scratch, fate, crossed, saves>>

-----------------------------------------------------------------------------
Runs(e) ==
  Lock(e) \/ Read(e) \/ LoadText(e) \/ Commit(e) \/ Refuse(e) \/ Drain(e) \/ Seed(e) \/ Compare(e)

EditNext ==
  \/ \E e \in Editors : Runs(e) \/ Ask(e) \/ PersonSaves(e) \/ EditorExits(e) \/ Crash(e)
  \/ \E e \in Editors, c \in Commands : Start(e, c)
  \/ HandSave

EditSpec == EditInit /\ [][EditNext]_editVars

\* A process that waits for no person goes on.
EditFairSpec == EditSpec /\ \A e \in Editors : WF_editVars(Runs(e))

-----------------------------------------------------------------------------
\* The step by which an editor installs its text, in a cycle no save by hand
\* came across: config.lock is among editors of vard only.
Installs(e) == step[e] = "commit" /\ step'[e] # "commit" /\ file' # file /\ e \notin crossed

\* The texts command c makes of a text where nobody else is about.
Made(c, text) ==
  LET saved == IF c.kind = "edit" THEN Drafts \cup {Seeded(text)} ELSE {Absent} IN
  {doc \in UNION {Edits(c, text, w, d) : w \in Plans(c, text), d \in saved} :
     /\ c.kind \in {"add", "remove", "field"} => Readable(text)
     /\ c.kind # "edit" => Loads(c, text)
     /\ Allowed(text, doc)}

Spent == {e \in Editors : step[e] \in {"drain", "done"}}

Document == INSTANCE ConfigDocument WITH asked <- cmd, view <- base, spent <- Spent

\* Every editor changes the file at most once and in effect at once: from the
\* text it loaded, which is then the file's, to what its command alone makes of
\* that text, though it parses twice, lets go of the lock while a person types,
\* and looks its watch up again (config_edit.rs on ConfigLock, config_cmd.rs on
\* the comparison).  Of two commands, or a command and a person in vard config
\* edit, neither is lost.
Atomic == Document!DocumentSpec

\* A config that works is never replaced by one that does not.
ValidKept == [][\A e \in Editors : Installs(e) /\ Valid(file) => Valid(file')]_editVars

\* A document with its watch i removed, or that watch's key set.
Applied(c, doc, i) ==
  IF c.kind = "remove" THEN [doc EXCEPT !.watches = RemoveAt(@, i)]
                       ELSE [doc EXCEPT !.watches[i].key = c.value]

UniquelyNamed(doc) ==
  \A i, j \in DOMAIN doc.watches : doc.watches[i].name = doc.watches[j].name => i = j

\* What watch remove, pause, sync and set change is the watch that their selector
\* chose, by name or by directory, though they look it up again by its name
\* (watch_index): as long as no two watches of the config share a name.
SelectorKept ==
  [][\A e \in Editors :
       Installs(e) /\ cmd[e].kind \in {"remove", "field"} /\ UniquelyNamed(file) =>
         \E i \in Selected(file, cmd[e].target) : file' = Applied(cmd[e], file, i)]_editVars

\* What a person saved in vard config edit is in the config or in the temporary
\* file, whatever refuses it and wherever the command is killed: it is lost only
\* with an editor that ends without success, or a file that cannot be read back.
EditKept == \A e \in Editors : fate[e] = "written" => scratch[e] # Absent

\* A command that only needs the lock ends, whoever sits in front of an editor
\* or a prompt.
NeverWedged == \A e \in Editors : step[e] = "lock" ~> step[e] = "done"
=============================================================================
