----------------------------- MODULE SelfUpdate -----------------------------
(***************************************************************************)
(* vard self-update: download, verify, unpack, rename over the installed   *)
(* binary, restart the service, read the version the daemon reports        *)
(* (self_update/mod.rs, download.rs, swap.rs), composed with the service   *)
(* verbs of other terminals.                                               *)
(*                                                                         *)
(* The archive and the staged binary are names in the install directory    *)
(* that depend on the version alone, and no lock keeps two updaters of one *)
(* version apart.  A name leads to a file, a process that opened the file  *)
(* keeps it whatever happens to the name, and create empties the file the  *)
(* name leads to: the three together decide what the rename installs.      *)
(***************************************************************************)
EXTENDS Service

CONSTANTS
  Updaters,  \* the clients that may run self-update
  Installed  \* the version installed at first

ASSUME UpdatersAssumption == Updaters \subseteq Clients /\ Installed \in Versions

VARIABLES
  target,    \* the version each updater resolved, the latest or a pinned one
  dir,       \* where the temporary names lead
  handle,    \* the file an updater writes
  source,    \* the archive it unpacks
  hasUnit,   \* whether it saw a unit when it planned
  overtaken, \* the updaters after whose swap another one swapped
  crossed,   \* those at whose work on the files another one of their version was
  mixed      \* whether the installed file is from one of these

fileVars == <<dir, handle, source>>
plans == <<target, hasUnit, crossed>>
vars == <<serviceVars, fileVars, plans, overtaken, mixed>>

Archive(u) == <<"archive", target[u]>>
Staged(u) == <<"staged", target[u]>>
Names == {"archive", "staged"} \X Versions

Busy == {"download", "stream", "verify", "unpack", "copy", "swap"}

TypeOK ==
  /\ ServiceTypeOK
  /\ verb \in [Clients -> Verbs \cup {"none", "update"}]
  /\ at \in [Clients -> {"idle"} \cup Busy \cup ServicePlaces]
  /\ target \in [Updaters -> Versions] /\ dir \in [Names -> Nodes \cup {None}]
  /\ handle \in [Updaters -> Nodes \cup {None}] /\ source \in [Updaters -> Nodes \cup {None}]
  /\ hasUnit \in [Updaters -> BOOLEAN] /\ overtaken \subseteq Updaters
  /\ crossed \subseteq Updaters /\ mixed \in BOOLEAN

\* Not installed, stopped, running, or crashed and about to be respawned.
Init ==
  /\ manager \in {"launchd", "systemd"} /\ again = FALSE /\ told = {} /\ mishaps = 0
  /\ \E running \in {"off", "up", "failed"} :
       /\ label = IF running = "off" THEN "none" ELSE "loaded"
       /\ unit \in IF running = "off" THEN BOOLEAN ELSE {TRUE}
       /\ st = [d \in Daemons |-> IF d = "service" THEN running ELSE "off"]
       /\ ver = [d \in Daemons |-> IF d = "service" /\ running = "up" THEN Installed ELSE None]
       /\ lock = IF running = "up" THEN "service" ELSE None
       /\ doc = IF running = "off" THEN None ELSE Installed
  /\ binary \in Nodes /\ binary = CHOOSE n \in Nodes : TRUE
  /\ data = [n \in Nodes |-> IF n = binary THEN Installed ELSE "partial"]
  /\ verb = [c \in Clients |-> "none"] /\ at = [c \in Clients |-> "idle"]
  /\ ran = [c \in Clients |-> {}]
  /\ dir = [n \in Names |-> None]
  /\ handle = [u \in Updaters |-> None] /\ source = [u \in Updaters |-> None]
  /\ hasUnit = [u \in Updaters |-> FALSE] /\ overtaken = {}
  /\ target = [u \in Updaters |-> Installed] /\ crossed = {} /\ mixed = FALSE

-----------------------------------------------------------------------------
(* Files.                                                                  *)

Used == {binary} \cup {dir[n] : n \in Names} \cup {handle[u] : u \in Updaters}
                 \cup {source[u] : u \in Updaters}

\* File::create: the file the name leads to, emptied, or a new one.
Create(u, name) ==
  LET node == IF dir[name] # None THEN dir[name] ELSE CHOOSE n \in Nodes : n \notin Used IN
  /\ dir[name] # None \/ Nodes \ Used # {}
  /\ dir' = [dir EXCEPT ![name] = node] /\ handle' = [handle EXCEPT ![u] = node]
  /\ data' = [data EXCEPT ![node] = "partial"]

Closed(u) == handle' = [handle EXCEPT ![u] = None] /\ source' = [source EXCEPT ![u] = None]
Removed(names) == dir' = [n \in Names |-> IF n \in names THEN None ELSE dir[n]]

\* An error on the way removes what the step may have left, by name.
Fails(u, names) == Goes(u, "failed") /\ Removed(names) /\ Closed(u)

Untouched == UNCHANGED <<manager, machine, daemons, verb, mishaps, plans>>

-----------------------------------------------------------------------------
(* perform and apply.                                                      *)

\* Those that are at work on the files of version v.
AtWork(v) == {w \in Updaters : at[w] \in Busy /\ target[w] = v}

\* The receipt, the target, the manifest; the version it runs is the one it
\* compares with.
Plan(u) ==
  /\ at[u] = "idle" /\ data[binary] \in Versions
  /\ verb' = [verb EXCEPT ![u] = "update"]
  /\ \/ Goes(u, "refused") /\ UNCHANGED plans
     \/ \E v \in Versions \ {data[binary]} :
          /\ Goes(u, "download")
          /\ target' = [target EXCEPT ![u] = v] /\ hasUnit' = [hasUnit EXCEPT ![u] = unit]
          /\ crossed' = IF AtWork(v) = {} THEN crossed \ {u} ELSE crossed \cup {u} \cup AtWork(v)
  /\ UNCHANGED <<manager, machine, daemons, files, ran, mishaps, fileVars, overtaken, mixed>>

Download(u) ==
  /\ at[u] = "download"
  /\ \/ Create(u, Archive(u)) /\ Goes(u, "stream") /\ UNCHANGED source
     \/ Fails(u, {Archive(u)}) /\ UNCHANGED data
  /\ Untouched /\ UNCHANGED <<binary, ran, overtaken, mixed>>

\* The body arrives whole, wrong, or not to its end.
Stream(u) ==
  /\ at[u] = "stream"
  /\ \/ /\ \E got \in {target[u], "wrong"} : data' = [data EXCEPT ![handle[u]] = got]
        /\ Goes(u, "verify") /\ Closed(u) /\ UNCHANGED dir
     \/ Fails(u, {Archive(u)}) /\ UNCHANGED data
  /\ Untouched /\ UNCHANGED <<binary, ran, overtaken, mixed>>

\* Mutant of Matches: the checksum is not compared.
AnyArchive(u) == dir[Archive(u)] # None

\* verify_sha256 opens the archive by its name.
Matches(u) == dir[Archive(u)] # None /\ data[dir[Archive(u)]] = target[u]

Verify(u) ==
  /\ at[u] = "verify"
  /\ IF Matches(u)
       THEN Goes(u, "unpack") /\ UNCHANGED fileVars
       ELSE Fails(u, {Archive(u)})
  /\ Untouched /\ UNCHANGED <<files, ran, overtaken, mixed>>

\* extract_binary opens the archive, by its name again, and creates the binary.
Unpack(u) ==
  /\ at[u] = "unpack"
  /\ \/ /\ dir[Archive(u)] # None
        /\ source' = [source EXCEPT ![u] = dir[Archive(u)]]
        /\ Create(u, Staged(u)) /\ Goes(u, "copy")
     \/ Fails(u, {Archive(u), Staged(u)}) /\ UNCHANGED data
  /\ Untouched /\ UNCHANGED <<binary, ran, overtaken, mixed>>

\* What the archive holds by now is copied; an archive that ends early is an
\* error, and so is a name that is gone when the mode is set.
Copy(u) ==
  /\ at[u] = "copy"
  /\ \/ /\ data[source[u]] # "partial" /\ dir[Staged(u)] # None
        /\ data' = [data EXCEPT ![handle[u]] = data[source[u]]]
        /\ Goes(u, "swap") /\ Removed({Archive(u)}) /\ Closed(u)
     \/ Fails(u, {Archive(u), Staged(u)})
        /\ data' \in {data, [data EXCEPT ![handle[u]] = data[source[u]]]}
  /\ Untouched /\ UNCHANGED <<binary, ran, overtaken, mixed>>

\* Where the post-swap step begins.
After(u) == IF hasUnit[u] THEN Restart ELSE "ok"

\* One rename, of whatever file the name leads to.
Swap(u) ==
  /\ at[u] = "swap"
  /\ \/ /\ dir[Staged(u)] # None
        /\ binary' = dir[Staged(u)] /\ Removed({Staged(u)}) /\ Goes(u, After(u))
        /\ ran' = [ran EXCEPT ![u] = {}] /\ mixed' = (u \in crossed)
        /\ overtaken' = (overtaken \ {u}) \cup {w \in Updaters \ {u} : at[w] \in ServicePlaces \ Ended}
        /\ UNCHANGED <<handle, source>>
     \/ Fails(u, {Staged(u)}) /\ UNCHANGED <<binary, ran, overtaken, mixed>>
  /\ Untouched /\ UNCHANGED data

-----------------------------------------------------------------------------
(* The restart is Service's; then the version stamp is polled.             *)

Stamp(u) ==
  /\ at[u] = "stamp"
  /\ \/ doc = target[u] /\ Goes(u, "ok")
     \/ Goes(u, "failed")
  /\ Untouched /\ UNCHANGED <<files, ran, fileVars, overtaken, mixed>>

UpdateStep(u) ==
  \/ Download(u) \/ Stream(u) \/ Verify(u) \/ Unpack(u) \/ Copy(u) \/ Swap(u) \/ Stamp(u)

Kill(c) ==
  /\ at[c] \notin Ended \cup {"idle"} /\ Goes(c, "killed")
  /\ IF c \in Updaters THEN Closed(c) ELSE UNCHANGED <<handle, source>>
  /\ Mishap /\ UNCHANGED <<manager, machine, daemons, files, verb, ran, dir, plans, overtaken, mixed>>

Step(c) ==
  \/ ServiceStep(c) /\ UNCHANGED <<fileVars, plans, overtaken, mixed>>
  \/ c \in Updaters /\ UpdateStep(c)

Next ==
  \/ \E c \in Clients : Step(c) \/ Kill(c)
  \/ \E u \in Updaters : Plan(u)
  \/ (\E c \in Clients, v \in Verbs : Begin(c, v)) /\ UNCHANGED <<fileVars, plans, overtaken, mixed>>
  \/ Environment /\ UNCHANGED <<fileVars, plans, overtaken, mixed>>

Spec == Init /\ [][Next]_vars

-----------------------------------------------------------------------------
(* Properties.                                                             *)

\* The install path holds one complete release at every instant, whatever a
\* download brought, wherever a process was killed, and whatever an earlier run
\* left under the names it uses again; but for a file that was put there by an
\* updater at whose work another one of the same version was.
InstalledWhole == data[binary] \in Versions \/ mixed

\* An updater that says the new version is running, at whose work no other one of
\* that version was, and whose binary nobody replaced in between, has had the
\* manager execute that binary: neither a process from before the swap nor the
\* document it left is taken for it.
VerifiedFresh ==
  \A u \in Updaters \ (overtaken \cup crossed) :
    at[u] = "ok" /\ verb[u] = "update" /\ hasUnit[u] => target[u] \in ran[u]

\* When everybody who touched the service is done, somebody was told that the
\* daemon is up, and nobody stopped it, failed or was killed, the job is loaded:
\* the bootout of one verb never undoes what another one reported.
ReportedUp ==
  (/\ \A c \in Clients : at[c] \in {"idle", "ok", "refused"}
   /\ \A c \in Clients : verb[c] \notin {"stop", "uninstall"}
   /\ \E c \in Clients : at[c] = "ok" /\ (verb[c] = "update" => hasUnit[c]))
  => label = "loaded"
=============================================================================
