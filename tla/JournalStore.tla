---------------------------- MODULE JournalStore ----------------------------
(***************************************************************************)
(* The directory of journals, and who opens which of them under what key   *)
(* (vard/src/journal.rs, the start and rebuild of daemon.rs, the removal   *)
(* in watch/mod.rs).  A watch is configured by a path, perhaps a symlink;  *)
(* its journal and op lock are keyed by what the path resolves to at one   *)
(* moment.  The daemon computes that key once per engine generation, every *)
(* command anew; earlier builds keyed by the name of the watch.            *)
(*                                                                         *)
(* What one operation, one recovery and their crash do inside one journal  *)
(* is OpJournal's subject and here a step: an operation is its open        *)
(* bracket, a recovery its verdict.  Distinct identities have distinct     *)
(* keys: the hash is taken as injective.                                   *)
(***************************************************************************)
EXTENDS Naturals, Sequences, FiniteSets, FiniteSetsExt

CONSTANTS
  Absent, Empty, \* a file that is not there; a journal that was compacted
  Repos,        \* the repositories, each named by its canonical path
  Links,        \* paths that are symlinks to repositories
  Names,        \* of watches: the keys of earlier builds
  Configs,      \* what may stand in the config: sequences of watches
  Ops, Deaths, Edits, Moves  \* how many operations run at once, die, how often
                             \* the config is edited and the disk rearranged

Paths == Repos \cup Links
Keys == Paths \cup Names
Watches == [name : Names, path : Paths, paused : BOOLEAN]

ASSUME KeysAssumption == Repos \cap Links = {} /\ Paths \cap Names = {}
ASSUME ConfigsAssumption ==
  /\ Configs \subseteq Seq(Watches)
  /\ \A c \in Configs : \A i, j \in DOMAIN c :
       i # j => c[i].name # c[j].name /\ c[i].path # c[j].path

VARIABLES
  here,     \* the repositories that are mounted
  target,   \* what each symlink points to
  wedged,   \* the repositories with a git lock that a dead operation left
  journal,  \* by key: no file, compacted, or the record of an operation
  ops,      \* the open brackets, each holding the op lock of its key
  config,
  stage,    \* what the daemon does
  defs,     \* the config it loaded
  todo,     \* what its loop has still to visit
  owned,    \* the keys of the configured watches, as the sweep knows them
  key,      \* the key a legacy journal is about to be renamed to
  engine,   \* the watches of the current generation, with their cached keys
  old,      \* those of the generation that is drained
  cli,      \* a removal after its config edit: its path and how far it is
  left,     \* moves of the outside that are left
  strayed   \* a record of the past: repositories whose record was judged
            \* elsewhere, or was overwritten or deleted by name

daemon == <<stage, defs, todo, owned, key, engine, old>>
store == <<wedged, journal, strayed>>
world == <<here, target, config, cli, left>>
storeVars == <<here, target, wedged, journal, ops, config, stage, defs, todo, owned,
          key, engine, old, cli, left, strayed>>

-----------------------------------------------------------------------------
(* Paths, keys and records.                                                *)

\* The repository a path leads to.
Dir(p) ==
  LET r == IF p \in Links THEN target[p] ELSE p IN IF r \in here THEN r ELSE Absent

\* Mutant of Key: the path as the config spells it.
KeyTextual(p) == p

\* identity_path: canonical while the path resolves, else as given.
Key(p) == IF Dir(p) = Absent THEN p ELSE Dir(p)

\* A record carries the identity it was written for (`at`, absent in earlier
\* builds).  Of the operation itself only properties know the repository it
\* worked in and whether its git lock is still there.
Records == [at : Paths \cup {Absent}, in : Repos, wedge : BOOLEAN]
Dangling(k) == journal[k] \in Records

ASSUME AbsenceAssumption == Absent \notin Records /\ Empty \notin Records

Busy(k) == \E o \in ops : o.key = k

\* What recovery of the record under k may find in the repository at p: the
\* journal afterwards, the repositories it unlocked and those whose record it
\* mistook.  A lock in the window of a record is the one its operation left.
Verdicts(k, p) ==
  LET same == [journal |-> journal[k], unlocked |-> {}, mistaken |-> {}] IN
  IF Busy(k) \/ ~ Dangling(k) THEN {same}
  ELSE IF journal[k].wedge /\ Dir(p) = journal[k].in
       THEN {same, [same EXCEPT !.journal = Empty, !.unlocked = {Dir(p)}]}
       ELSE {same, [same EXCEPT !.journal = Empty,
                      !.mistaken = IF journal[k].wedge THEN {journal[k].in} ELSE {}]}

\* Mutant of Settled: whatever recovery found is overwritten.
SettledAlways(v) == TRUE

Settled(v) == v.journal \in {Absent, Empty}

\* The verdict takes effect and `after` becomes of the journal under k.
Applies(v, k, after) ==
  /\ journal' = [journal EXCEPT ![k] = after]
  /\ wedged' = wedged \ v.unlocked
  /\ strayed' = strayed \cup v.mistaken

Recovers(k, p) == \E v \in Verdicts(k, p) : Applies(v, k, v.journal)

-----------------------------------------------------------------------------
(* Operations.                                                             *)

\* The admission of an operation on watch w: under the op lock of its key a
\* leftover record is settled first, against the identity, or admission is
\* declined.  Then the record names the identity; git works at the path.
Admits(w, by) ==
  /\ Cardinality(ops) < Ops
  /\ Dir(w.path) # Absent /\ ~ Busy(w.key)
  /\ \E v \in Verdicts(w.key, w.key) :
       /\ Settled(v)
       /\ Applies(v, w.key, [at |-> w.key, in |-> Dir(w.path), wedge |-> FALSE])
  /\ ops' = ops \cup {[by |-> by, repo |-> Dir(w.path), path |-> w.path, key |-> w.key,
                       moved |-> w.moved]}
  /\ UNCHANGED <<daemon, world>>

EngineBegins == \/ \E w \in engine : Admits(w, "engine")
                \/ \E w \in old : stage = "drain" /\ Admits(w, "old")

\* A command resolves the path anew.
Fresh(p) == [path |-> p, key |-> Key(p), moved |-> Dir(p) = Absent]
CliBegins == \E i \in DOMAIN config : Admits(Fresh(config[i].path), "cli")

Completes(o) ==
  /\ journal' = [journal EXCEPT ![o.key] = Empty] /\ ops' = ops \ {o}
  /\ UNCHANGED <<wedged, strayed, daemon, world>>

\* The operations D die; those in L leave git's lock behind.
Die(D, L) ==
  /\ left.deaths > 0 /\ left' = [left EXCEPT !.deaths = @ - 1]
  /\ \A o \in L : o.repo \notin wedged
  /\ \A o, p \in L : o.repo = p.repo => o = p
  /\ ops' = ops \ D
  /\ wedged' = wedged \cup {o.repo : o \in L}
  /\ journal' = [k \in Keys |-> IF Dangling(k) /\ \E o \in L : o.key = k /\ o.repo = journal[k].in
                                THEN [journal[k] EXCEPT !.wedge = TRUE] ELSE journal[k]]
  /\ UNCHANGED <<here, target, config, cli, strayed>>

\* A panic of a worker, or a killed command.
Unwinds == \E o \in ops : \E L \in SUBSET {o} : Die({o}, L) /\ UNCHANGED daemon

Killed ==
  LET D == {o \in ops : o.by # "cli"} IN
  /\ stage # "off" /\ \E L \in SUBSET D : Die(D, L)
  /\ stage' = "off" /\ defs' = <<>> /\ todo' = {} /\ owned' = {} /\ key' = Absent
  /\ engine' = {} /\ old' = {}

-----------------------------------------------------------------------------
(* The daemon: start and reload run the same steps.                        *)

Stays == UNCHANGED <<ops, here, target, config, cli, left>>

\* A config without watches starts nothing and replaces nothing.
Loads ==
  /\ stage \in {"off", "run"} /\ config # <<>>
  /\ stage' = "migrate" /\ defs' = config /\ todo' = DOMAIN config /\ owned' = {}
  /\ UNCHANGED <<store, key, engine, old>> /\ Stays

First == Min(todo)

Migratable(name, k) == journal[name] # Absent /\ journal[k] = Absent

\* try_migrate_legacy: it looks ...
Migrates ==
  LET w == defs[First] IN
  /\ stage = "migrate" /\ todo # {}
  /\ owned' = owned \cup {Key(w.path)}
  /\ IF Migratable(w.name, Key(w.path))
     THEN stage' = "rename" /\ key' = Key(w.path) /\ UNCHANGED todo
     ELSE todo' = todo \ {First} /\ UNCHANGED <<stage, key>>
  /\ UNCHANGED <<store, defs, engine, old>> /\ Stays

\* ... and renames, over whatever has come to be there.
Renames ==
  LET name == defs[First].name IN
  /\ stage = "rename"
  /\ journal' = IF journal[name] = Absent THEN journal
                ELSE [journal EXCEPT ![key] = journal[name], ![name] = Absent]
  /\ strayed' = IF journal[name] # Absent /\ Dangling(key)
                THEN strayed \cup {journal[k].in : k \in {k \in {name, key} : Dangling(k)}}
                ELSE strayed
  /\ todo' = todo \ {First} /\ stage' = "migrate" /\ key' = Absent
  /\ UNCHANGED <<wedged, defs, owned, engine, old>> /\ Stays

Orphans == {k \in Keys : journal[k] # Absent} \ owned

StartsSweep ==
  /\ stage = "migrate" /\ todo = {} /\ stage' = "sweep" /\ todo' = Orphans /\ owned' = {}
  /\ UNCHANGED <<store, defs, key, engine, old>> /\ Stays

\* reconcile_orphan: a record is judged where it says it belongs, one that says
\* nothing is retained, a clean journal is deleted once it is old enough.
Sweeps(k) ==
  /\ stage = "sweep" /\ k \in todo /\ todo' = todo \ {k}
  /\ \/ Dangling(k) /\ journal[k].at # Absent /\ Recovers(k, journal[k].at)
     \/ ~ Busy(k) /\ journal[k] = Empty
        /\ journal' = [journal EXCEPT ![k] = Absent] /\ UNCHANGED <<wedged, strayed>>
     \/ (Dangling(k) => journal[k].at = Absent) /\ UNCHANGED store
  /\ UNCHANGED <<stage, defs, owned, key, engine, old>> /\ Stays

StartsRecovery ==
  /\ stage = "sweep" /\ todo = {} /\ stage' = "recover" /\ todo' = DOMAIN defs
  /\ UNCHANGED <<store, defs, owned, key, engine, old>> /\ Stays

\* recover_stale_locks over every defined watch whose key is not supervised.
RecoversWatch ==
  LET p == defs[First].path IN
  /\ stage = "recover" /\ todo # {} /\ todo' = todo \ {First}
  /\ IF \E w \in engine : w.key = Key(p) THEN UNCHANGED store ELSE Recovers(Key(p), p)
  /\ UNCHANGED <<stage, defs, owned, key, engine, old>> /\ Stays

\* dedup_aliased_specs and the opening of what is left: of the active watches
\* with one key the first, unless its repository does not open.
Supervised(i) ==
  /\ ~ defs[i].paused /\ Dir(defs[i].path) # Absent
  /\ \A j \in 1 .. i - 1 : ~ defs[j].paused => Key(defs[j].path) # Key(defs[i].path)

Opens ==
  /\ stage = "recover" /\ todo = {} /\ stage' = "identify"
  /\ todo' = {i \in DOMAIN defs : Supervised(i)}
  /\ UNCHANGED <<store, defs, owned, key, engine, old>> /\ Stays

\* Every opened watch gets its identity, once, and the engine starts beside
\* the one it replaces.
Identifies ==
  /\ stage = "identify" /\ stage' = "drain" /\ todo' = {} /\ defs' = <<>>
  /\ engine' = {Fresh(defs[i].path) : i \in todo} /\ old' = engine
  /\ ops' = {[o EXCEPT !.by = IF @ = "engine" THEN "old" ELSE @] : o \in ops}
  /\ UNCHANGED <<store, owned, key, world>>

\* The old engine has ended its passes.
EndsOld ==
  /\ stage = "drain" /\ \A o \in ops : o.by # "old"
  /\ stage' = "removed" /\ old' = {w \in old : \A v \in engine : v.key # w.key}
  /\ UNCHANGED <<store, defs, todo, owned, key, engine>> /\ Stays

\* drain_removed_watches: under the cached key, at the configured path.
DrainsRemoved ==
  /\ stage = "removed"
  /\ \E w \in old : Recovers(w.key, w.path) /\ old' = old \ {w}
  /\ UNCHANGED <<stage, defs, todo, owned, key, engine>> /\ Stays

Runs ==
  /\ stage = "removed" /\ old = {} /\ stage' = "run"
  /\ UNCHANGED <<store, defs, todo, owned, key, engine, old>> /\ Stays

-----------------------------------------------------------------------------
(* Commands and edits that change the config.                              *)

\* vard watch remove [--purge]: the edit, ...
Removes(i) ==
  /\ cli = Absent /\ left.edits > 0 /\ left' = [left EXCEPT !.edits = @ - 1]
  /\ config' = SubSeq(config, 1, i - 1) \o SubSeq(config, i + 1, Len(config))
  /\ cli' = [path |-> config[i].path, step |-> "drain"]
  /\ UNCHANGED <<store, ops, daemon, here, target>>

\* ... the recovery when no daemon runs, which holds the instance lock, and
\* what it says of a purge ...
DrainsByCli ==
  LET k == Key(cli.path) IN
  /\ cli # Absent /\ cli.step = "drain"
  /\ \E v \in IF stage = "off" THEN Verdicts(k, cli.path)
              ELSE {[journal |-> journal[k], unlocked |-> {}, mistaken |-> {}]} :
       /\ Applies(v, k, v.journal)
       /\ \/ Settled(v) /\ cli' = [cli EXCEPT !.step = "purge"]
          \/ cli' = Absent
  /\ UNCHANGED <<ops, daemon, here, target, config, left>>

\* ... and the purge, which asks the op lock alone.
Purges ==
  LET k == Key(cli.path) IN
  /\ cli # Absent /\ cli.step = "purge" /\ cli' = Absent
  /\ \/ Busy(k) /\ UNCHANGED store
     \/ /\ ~ Busy(k) /\ journal' = [journal EXCEPT ![k] = Absent]
        /\ strayed' = IF Dangling(k) THEN strayed \cup {journal[k].in} ELSE strayed
        /\ UNCHANGED wedged
  /\ UNCHANGED <<ops, daemon, here, target, config, left>>

\* An edit by hand, or by another command.
EditsConfig ==
  /\ left.edits > 0 /\ left' = [left EXCEPT !.edits = @ - 1]
  /\ config' \in Configs \ {config}
  /\ UNCHANGED <<store, ops, daemon, here, target, cli>>

-----------------------------------------------------------------------------
(* The disk is rearranged: what was resolved before is marked.             *)

Marked(W, p) == {[w EXCEPT !.moved = @ \/ w.path = p] : w \in W}

Rearranges(l) ==
  /\ left.moves > 0 /\ left' = [left EXCEPT !.moves = @ - 1]
  /\ engine' = Marked(engine, l) /\ old' = Marked(old, l) /\ ops' = Marked(ops, l)
  /\ UNCHANGED <<store, config, cli, stage, defs, todo, owned, key>>

Retargets(l) ==
  /\ Rearranges(l) /\ \E r \in Repos \ {target[l]} : target' = [target EXCEPT ![l] = r]
  /\ UNCHANGED here

\* A repository is unmounted or comes back.
Remounts(r) ==
  /\ left.moves > 0 /\ left' = [left EXCEPT !.moves = @ - 1]
  /\ here' = IF r \in here THEN here \ {r} ELSE here \cup {r}
  /\ UNCHANGED <<store, ops, config, cli, daemon, target>>

-----------------------------------------------------------------------------
\* A crash of an earlier build may have left a record without a path, under
\* the name of its watch.
StoreInit ==
  /\ here = Repos /\ target \in [Links -> Repos] /\ config \in Configs
  /\ wedged \in SUBSET Repos
  /\ \E n \in Names, r \in Repos :
       /\ wedged \subseteq {r}
       /\ journal \in {[k \in Keys |-> IF k = n /\ was THEN
                          [at |-> Absent, in |-> r, wedge |-> r \in wedged] ELSE Absent] :
                       was \in BOOLEAN}
       /\ wedged # {} => Dangling(n)
  /\ ops = {} /\ stage = "off" /\ defs = <<>> /\ todo = {} /\ owned = {} /\ key = Absent
  /\ engine = {} /\ old = {} /\ cli = Absent /\ strayed = {}
  /\ left = [deaths |-> Deaths, edits |-> Edits, moves |-> Moves]

StoreNext ==
  \/ EngineBegins \/ CliBegins \/ (\E o \in ops : Completes(o)) \/ Unwinds \/ Killed
  \/ Loads \/ Migrates \/ Renames \/ StartsSweep \/ (\E k \in Keys : Sweeps(k))
  \/ StartsRecovery \/ RecoversWatch \/ Opens \/ Identifies \/ EndsOld
  \/ DrainsRemoved \/ Runs
  \/ (\E i \in DOMAIN config : Removes(i)) \/ DrainsByCli \/ Purges \/ EditsConfig
  \/ (\E l \in Links : Retargets(l)) \/ (\E r \in Repos : Remounts(r))

StoreSpec == StoreInit /\ [][StoreNext]_storeVars

-----------------------------------------------------------------------------

\* Two operations never work in one repository at once, whatever paths their
\* watches were configured by and whoever runs them, unless a path of one of
\* them was rearranged after its key was computed (journal.rs:186-210,
\* daemon.rs:111-124).
OneWriterPerRepo ==
  \A o, p \in ops : o.repo = p.repo /\ ~ o.moved /\ ~ p.moved => o = p

\* A git lock that a dead operation left has its record in some journal,
\* through migrations, sweeps, reloads, removals and purges, until the lock is
\* removed, unless the record was once judged in another place than its
\* repository, or was overwritten or deleted in the gap between a look and the
\* act (journal.rs:1484-1522, daemon.rs:1228-1233, watch/mod.rs:626-640).
EvidenceFound ==
  \A r \in wedged \ strayed :
    \E k \in Keys : Dangling(k) /\ journal[k].in = r /\ journal[k].wedge
==============================================================================
