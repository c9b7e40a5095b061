------------------------------ MODULE Service ------------------------------
(***************************************************************************)
(* The service verbs (service/mod.rs, launchd.rs, systemd.rs) against the  *)
(* login session's service manager, which stops, starts and restarts the   *)
(* daemon at instants of its own.  A verb is a few commands to the manager *)
(* with a budget on every wait; SelfUpdate composes it with the updater,   *)
(* whose last step is a restart.                                           *)
(*                                                                         *)
(* The manager and the foreground vard run are the environment: they       *)
(* execute whatever the install path holds at that moment.                 *)
(***************************************************************************)
EXTENDS Naturals, FiniteSets

CONSTANTS
  Clients,    \* the vard processes that run a verb or an update
  Versions,   \* the releases
  Nodes,      \* the files of the install directory, whatever their names
  None,
  MaxMishaps  \* bound: kills, crashes, and starts that no verb asked for

ASSUME ContentAssumption ==
  /\ None \notin Versions \cup Nodes
  /\ \A v \in Versions : v # "partial" /\ v # "wrong"
ASSUME MishapsAssumption == MaxMishaps \in Nat

VARIABLES
  manager,  \* "launchd" or "systemd"
  unit,     \* the plist or unit file exists
  label,    \* the manager's job: "none", "loaded", "leaving"
  again,    \* systemd: a start job waits for the stop job
  st,       \* each daemon process
  ver,      \* the version it executes
  told,     \* the daemons that were sent SIGTERM
  lock,     \* the daemon that holds the instance lock
  doc,      \* the version stamp of the health document
  binary,   \* the file at the install path
  data,     \* what each file holds
  verb,     \* what each client was asked to do
  at,       \* where it is
  ran,      \* the versions the manager executed while an updater restarts
  mishaps

machine == <<unit, label, again>>
daemons == <<st, ver, told, lock, doc>>
files == <<binary, data>>
serviceVars == <<manager, machine, daemons, files, verb, at, ran, mishaps>>

Daemons == {"service", "foreground"}
Verbs == {"install", "uninstall", "start", "stop", "restart"}
Ended == {"ok", "failed", "refused", "killed"}
ServicePlaces == {"check", "write", "bootstrap", "print", "bootout", "settle", "load",
                  "systemctl", "job", "remove", "wait", "stamp"} \cup Ended

ServiceTypeOK ==
  /\ manager \in {"launchd", "systemd"} /\ unit \in BOOLEAN
  /\ label \in {"none", "loaded", "leaving"} /\ again \in BOOLEAN
  /\ st \in [Daemons -> {"off", "failed", "exec", "held", "up"}]
  /\ ver \in [Daemons -> Versions \cup {None}] /\ told \subseteq Daemons
  /\ lock \in Daemons \cup {None} /\ doc \in Versions \cup {None}
  /\ binary \in Nodes /\ data \in [Nodes -> Versions \cup {"partial", "wrong"}]
  /\ ran \in [Clients -> SUBSET Versions] /\ mishaps \in 0..MaxMishaps

Alive(d) == st[d] \in {"exec", "held", "up"}
Mishap == mishaps < MaxMishaps /\ mishaps' = mishaps + 1
Goes(c, place) == at' = [at EXCEPT ![c] = place]

-----------------------------------------------------------------------------
(* The processes: what executing the install path does.                    *)

Execute(d) ==
  LET v == data[binary] IN
  /\ st' = [st EXCEPT ![d] = IF v \in Versions THEN "exec" ELSE "failed"]
  /\ ver' = [ver EXCEPT ![d] = IF v \in Versions THEN v ELSE None]
  /\ told' = told \ {d}
  /\ ran' = [c \in Clients |-> IF d = "service" /\ verb[c] = "update" /\ at[c] \in ServicePlaces \ Ended
                                  THEN ran[c] \cup ({v} \cap Versions) ELSE ran[c]]
  /\ UNCHANGED <<lock, doc>>

\* A daemon that is gone no longer holds the lock.
Exits(d, how) ==
  /\ st' = [st EXCEPT ![d] = how] /\ lock' = IF lock = d THEN None ELSE lock
  /\ told' = told \ {d} /\ UNCHANGED ver

DaemonLocks(d) ==
  /\ st[d] = "exec"
  /\ IF lock = None
       THEN st' = [st EXCEPT ![d] = "held"] /\ lock' = d /\ UNCHANGED <<ver, told>>
       ELSE Exits(d, "failed")
  /\ UNCHANGED <<manager, machine, doc, files, verb, at, ran, mishaps>>

\* The document a dead daemon left is removed before the first one is written.
DaemonClears(d) ==
  /\ st[d] = "held" /\ st' = [st EXCEPT ![d] = "up"] /\ doc' = None
  /\ UNCHANGED <<manager, machine, ver, told, lock, files, verb, at, ran, mishaps>>

DaemonPublishes(d) ==
  /\ st[d] = "up" /\ doc' = ver[d]
  /\ UNCHANGED <<manager, machine, st, ver, told, lock, files, verb, at, ran, mishaps>>

\* A startup error, a crash, a SIGKILL or a SIGTERM before the handler stands:
\* the document stays.
DaemonDies(d) ==
  /\ Alive(d) /\ Exits(d, "failed") /\ Mishap
  /\ UNCHANGED <<manager, machine, doc, files, verb, at, ran>>

\* The clean shutdown removes the document and then lets go of the lock.
DaemonStops(d) ==
  /\ d \in told /\ st[d] \in {"held", "up"} /\ Exits(d, "off") /\ doc' = None
  /\ UNCHANGED <<manager, machine, files, verb, at, ran, mishaps>>

ForegroundRun ==
  /\ ~Alive("foreground") /\ Mishap
  /\ Execute("foreground")
  /\ UNCHANGED <<manager, machine, files, verb, at>>

\* Ctrl-C.
ForegroundTold ==
  /\ Alive("foreground") /\ told' = told \cup {"foreground"}
  /\ UNCHANGED <<manager, machine, st, ver, lock, doc, files, verb, at, ran, mishaps>>

\* KeepAlive { SuccessfulExit = false } and Restart=on-failure.
Respawn ==
  /\ label = "loaded" /\ st["service"] = "failed"
  /\ Mishap /\ Execute("service")
  /\ UNCHANGED <<manager, machine, files, verb, at>>

\* The job is gone once its process is; a start job that waited runs now.
Cleared ==
  /\ label = "leaving" /\ ~Alive("service")
  /\ IF again
       THEN label' = "loaded" /\ Execute("service")
       ELSE label' = "none" /\ UNCHANGED <<daemons, ran>>
  /\ again' = FALSE
  /\ UNCHANGED <<manager, unit, files, verb, at, mishaps>>

Loads == label' = "loaded" /\ Execute("service") /\ UNCHANGED <<unit, again>>

\* bootout and systemctl stop return before the process is gone, or with it.
Leaves ==
  /\ label' = IF label = "none" THEN "none" ELSE "leaving"
  /\ told' = IF label = "loaded" /\ Alive("service") THEN told \cup {"service"} ELSE told
  /\ UNCHANGED <<st, ver, lock, doc, ran>>

-----------------------------------------------------------------------------
(* The verbs, up to the first command.                                     *)

\* Where a restart begins: systemctl restart is sent whatever the state.
Restart == IF manager = "launchd" THEN "check" ELSE "systemctl"

\* The preflight refuses the verbs that start a daemon when the config would.
Begin(c, v) ==
  /\ at[c] = "idle" /\ verb' = [verb EXCEPT ![c] = v]
  /\ \/ Goes(c, CASE v = "install" -> "write"
                  [] v = "start" -> "check"
                  [] v = "restart" -> Restart
                  [] OTHER -> IF manager = "launchd" THEN "bootout" ELSE "systemctl")
     \/ v \in {"install", "start", "restart"} /\ Goes(c, "refused")
  /\ UNCHANGED <<manager, machine, daemons, files, ran, mishaps>>

\* The verb cannot know the job, so it looks at the file.
CheckUnit(c) ==
  /\ at[c] = "check"
  /\ Goes(c, IF ~unit THEN "failed"
             ELSE IF manager = "systemd" THEN "systemctl"
             ELSE IF verb[c] = "start" THEN "print" ELSE "bootout")
  /\ UNCHANGED <<manager, machine, daemons, files, verb, ran, mishaps>>

WriteUnit(c) ==
  /\ at[c] = "write"
  /\ \/ unit' = TRUE /\ Goes(c, IF manager = "launchd" THEN "bootstrap" ELSE "systemctl")
     \/ UNCHANGED unit /\ Goes(c, "failed")
  /\ UNCHANGED <<manager, label, again, daemons, files, verb, ran, mishaps>>

-----------------------------------------------------------------------------
(* launchd.                                                                *)

\* start asks first: a running job is left alone, everything else - a probe
\* that could not be read too - is recovered.
PrintState(c) ==
  /\ at[c] = "print"
  /\ \/ label # "none" /\ Alive("service") /\ Goes(c, "ok")
     \/ Goes(c, "bootout")
  /\ UNCHANGED <<manager, machine, daemons, files, verb, ran, mishaps>>

\* The result of bootout is ignored, so one that did nothing is allowed.
Bootout(c) ==
  /\ at[c] = "bootout"
  /\ Goes(c, CASE verb[c] = "stop" -> "ok" [] verb[c] = "uninstall" -> "remove"
               [] OTHER -> "settle")
  /\ Leaves \/ UNCHANGED <<label, daemons, ran>>
  /\ UNCHANGED <<manager, unit, again, files, verb, mishaps>>

\* The label is gone, or the budget is spent or the probe unreadable: the verb
\* goes on in every case.
Settle(c) ==
  /\ at[c] = "settle" /\ Goes(c, "load")
  /\ UNCHANGED <<manager, machine, daemons, files, verb, ran, mishaps>>

\* Mutant of BootstrapFailed: a label that is still registered is taken for a
\* service that was started.
RegisteredIsStarted(c) == label = "none" \/ at[c] = "bootstrap"

BootstrapFailed(c) == TRUE

\* bootstrap fails while the label is registered.  One that is killed by its
\* timeout may have loaded the job all the same.
Bootstrap(c) ==
  /\ at[c] \in {"bootstrap", "load"}
  /\ LET otherwise == IF at[c] = "bootstrap" THEN "bootout" ELSE "failed" IN
     \/ label = "none" /\ unit /\ Loads /\ Goes(c, "wait")
     \/ label = "none" /\ unit /\ Loads /\ Goes(c, otherwise)
     \/ Goes(c, IF BootstrapFailed(c) THEN otherwise ELSE "wait")
        /\ UNCHANGED <<machine, daemons, ran>>
  /\ UNCHANGED <<manager, files, verb, mishaps>>

\* uninstall, after bootout or disable --now.
RemoveUnit(c) ==
  /\ at[c] = "remove"
  /\ \/ unit' = FALSE /\ Goes(c, "ok")
     \/ UNCHANGED unit /\ Goes(c, "failed")
  /\ UNCHANGED <<manager, label, again, daemons, files, verb, ran, mishaps>>

-----------------------------------------------------------------------------
(* systemd.                                                                *)

Starts(c) == verb[c] \in {"start", "install"}
Stops(c) == verb[c] \in {"stop", "uninstall"}

\* One job is enqueued and the client waits for it.  A job that arrives while
\* another runs replaces it.
Systemctl(c) ==
  /\ at[c] = "systemctl"
  /\ \/ /\ Stops(c) /\ Leaves /\ again' = FALSE /\ UNCHANGED unit
        /\ Goes(c, IF verb[c] = "stop" THEN "ok" ELSE "remove")
     \/ /\ ~Stops(c) /\ unit
        /\ \/ label = "none" /\ Loads
           \/ label = "loaded" /\ Starts(c) /\ Alive("service")
              /\ UNCHANGED <<machine, daemons, ran>>
           \/ label = "loaded" /\ Starts(c) /\ ~Alive("service") /\ Loads
           \/ (label = "leaving" \/ (label = "loaded" /\ ~Starts(c)))
              /\ Leaves /\ again' = TRUE /\ UNCHANGED unit
        /\ Goes(c, "job")
     \/ Goes(c, IF verb[c] = "uninstall" THEN "remove" ELSE "failed")
        /\ UNCHANGED <<machine, daemons, ran>>
  /\ UNCHANGED <<manager, files, verb, mishaps>>

\* Mutant of JobDone: the client does not wait for the stop half of the job.
JobQueued == TRUE

JobDone == label = "loaded" /\ ~again

\* The job is done, was cancelled, or outlived the client's timeout.
AwaitJob(c) ==
  /\ at[c] = "job"
  /\ \/ JobDone /\ Goes(c, "wait")
     \/ Goes(c, "failed")
  /\ UNCHANGED <<manager, machine, daemons, files, verb, ran, mishaps>>

-----------------------------------------------------------------------------
(* The waits they share.                                                   *)

\* wait_until_up: any holder of the lock will do.
AwaitUp(c) ==
  /\ at[c] = "wait"
  /\ \/ lock # None /\ Goes(c, IF verb[c] = "update" THEN "stamp" ELSE "ok")
     \/ Goes(c, "failed")
  /\ UNCHANGED <<manager, machine, daemons, files, verb, ran, mishaps>>

ServiceStep(c) ==
  \/ CheckUnit(c) \/ WriteUnit(c) \/ PrintState(c) \/ Bootout(c) \/ Settle(c) \/ Bootstrap(c)
  \/ RemoveUnit(c) \/ Systemctl(c) \/ AwaitJob(c) \/ AwaitUp(c)

Environment ==
  \/ \E d \in Daemons : \/ DaemonLocks(d) \/ DaemonClears(d) \/ DaemonPublishes(d)
                        \/ DaemonDies(d) \/ DaemonStops(d)
  \/ ForegroundRun \/ ForegroundTold \/ Respawn \/ Cleared
=============================================================================
