-------------------------- MODULE SelfUpdateProofs --------------------------
(***************************************************************************)
(* The installed binary is whole and an update that is reported as running *)
(* ran, for every set of releases, clients and verbs, but for what updaters *)
(* of one version do to each other's files; a service reported as up has   *)
(* its job loaded whatever they do.                                        *)
(*                                                                         *)
(* The names of an updater's files depend on its version alone.  The names *)
(* lead to files of their own (Apart) and an open file is led to by names  *)
(* of its writer's version only (Handles), so versions never meet.  An     *)
(* updater that is not crossed is the only one of its version (Exclusive), *)
(* and Stage says what its files hold at each step: from the checksum on   *)
(* the archive is the release, from the copy on the staged binary is.  And *)
(* the file it installs is open to nobody (Handles again), so what others  *)
(* write later, crossed or not, does not reach it.                         *)
(***************************************************************************)
EXTENDS SelfUpdate, TLAPS

Places == {"idle"} \cup Busy \cup ServicePlaces

FilesOK ==
  /\ at \in [Clients -> Places]
  /\ binary \in Nodes /\ data \in [Nodes -> Versions \cup {"partial", "wrong"}]
  /\ target \in [Updaters -> Versions] /\ dir \in [Names -> Nodes \cup {None}]
  /\ handle \in [Updaters -> Nodes \cup {None}] /\ source \in [Updaters -> Nodes \cup {None}]
  /\ mixed \in BOOLEAN

Apart ==
  /\ \A m, n \in Names : dir[m] = dir[n] /\ dir[m] # None => m = n
  /\ \A n \in Names : dir[n] # binary

\* A file is open for writing at two places only, and no other version's name
\* leads to it, nor does the install path unless a crossed updater put it there.
Opened(u) ==
  /\ handle[u] # None <=> at[u] \in {"stream", "copy"}
  /\ at[u] = "copy" => source[u] \in Nodes
  /\ handle[u] # None => \A n \in Names \ {Archive(u), Staged(u)} : dir[n] # handle[u]
  /\ handle[u] = binary => mixed

Handles == \A u \in Updaters : Opened(u)

Exclusive ==
  \A u \in Updaters \ crossed, w \in Updaters :
    target[u] = target[w] /\ at[u] \in Busy /\ at[w] \in Busy => u = w

Holds(name, v) == dir[name] \in Nodes /\ data[dir[name]] = v

Stage(u) ==
  /\ at[u] = "stream" => handle[u] = dir[Archive(u)] /\ handle[u] \in Nodes
  /\ at[u] = "unpack" => Holds(Archive(u), target[u])
  /\ at[u] = "copy" => /\ Holds(Archive(u), target[u]) /\ source[u] = dir[Archive(u)]
                       /\ handle[u] = dir[Staged(u)] /\ handle[u] \in Nodes
  /\ at[u] = "swap" => Holds(Staged(u), target[u])

IInv ==
  /\ FilesOK /\ Apart /\ Handles /\ Exclusive /\ InstalledWhole
  /\ \A u \in Updaters \ crossed : Stage(u)

Fixed == UNCHANGED <<target, crossed>>

\* A step that leaves the files alone and brings no updater to work.
Aside ==
  /\ Fixed /\ UNCHANGED <<binary, data, dir, mixed>>
  /\ at' \in [Clients -> Places]
  /\ handle' \in [Updaters -> Nodes \cup {None}] /\ source' \in [Updaters -> Nodes \cup {None}]
  /\ \A u \in Updaters :
       IF at'[u] \in Busy THEN at'[u] = at[u] /\ handle'[u] = handle[u] /\ source'[u] = source[u]
                          ELSE handle'[u] = None

\* A client that goes from one place outside the work on files to another.
Parked(c) ==
  /\ at' \in [Clients -> Places] /\ at[c] \notin Busy /\ at'[c] \notin Busy
  /\ \A w \in Clients \ {c} : at'[w] = at[w]

\* While the versions stay the names do.
LEMMA FixedNames ==
  ASSUME target' = target
  PROVE  \A u : Archive(u)' = Archive(u) /\ Staged(u)' = Staged(u)
  BY DEF Archive, Staged

LEMMA ClosedOutside ==
  ASSUME Handles, NEW u \in Updaters, at[u] \notin {"stream", "copy"}
  PROVE  handle[u] = None
  BY DEF Handles, Opened

LEMMA AsideKeeps == IInv /\ Aside => IInv'
<1> SUFFICES ASSUME IInv, Aside PROVE IInv'
  OBVIOUS
<1>1. FilesOK' BY DEF IInv, Aside, FilesOK, Fixed
<1>2. Apart' BY DEF IInv, Aside, Apart
<1>3. Exclusive' BY DEF IInv, Aside, Exclusive, Fixed
<1>4. InstalledWhole' BY DEF IInv, Aside, InstalledWhole
<1>5. ASSUME NEW u \in Updaters PROVE Archive(u)' = Archive(u) /\ Staged(u)' = Staged(u)
  BY FixedNames DEF Aside, Fixed
<1>6. ASSUME NEW u \in Updaters PROVE Opened(u)'
  <2>1. CASE at'[u] \in Busy
    <3>1. at'[u] = at[u] /\ handle'[u] = handle[u] /\ source'[u] = source[u] /\ Opened(u)
      BY <2>1 DEF IInv, Aside, Handles
    <3>2. dir' = dir /\ binary' = binary /\ mixed' = mixed BY DEF Aside
    <3>3. QED BY <1>5, <3>1, <3>2 DEF Opened
  <2>2. CASE at'[u] \notin Busy
    <3>1. handle'[u] = None /\ at'[u] \notin {"stream", "copy"} BY <2>2 DEF Aside, Busy
    <3>2. binary' # None BY ContentAssumption DEF Aside, IInv, FilesOK
    <3>3. QED BY <3>1, <3>2 DEF Opened
  <2>3. QED BY <2>1, <2>2
<1>7. ASSUME NEW u \in Updaters \ crossed' PROVE Stage(u)'
  <2>1. CASE at'[u] \in Busy
    <3>1. at'[u] = at[u] /\ handle'[u] = handle[u] /\ source'[u] = source[u] /\ Stage(u)
      BY <2>1 DEF IInv, Aside, Fixed
    <3>2. dir' = dir /\ data' = data /\ target' = target BY DEF Aside, Fixed
    <3>3. QED BY <1>5, <3>1, <3>2 DEF Stage, Holds
  <2>2. CASE at'[u] \notin Busy BY <2>2 DEF Stage, Busy
  <2>3. QED BY <2>1, <2>2
<1>8. QED BY <1>1, <1>2, <1>3, <1>4, <1>6, <1>7 DEF IInv, Handles

LEMMA ParkedIsAside ==
  ASSUME IInv, NEW c \in Clients, Parked(c),
         Fixed, UNCHANGED <<binary, data, dir, handle, source, mixed>>
  PROVE  Aside
<1>1. ASSUME NEW u \in Updaters, at'[u] \in Busy PROVE at'[u] = at[u]
  BY <1>1, UpdatersAssumption DEF Parked
<1>2. ASSUME NEW u \in Updaters, at'[u] \notin Busy PROVE handle'[u] = None
  <2>1. at[u] \notin Busy BY <1>2, UpdatersAssumption DEF Parked
  <2>2. QED BY <2>1, ClosedOutside DEF Busy, IInv
<1>3. QED BY <1>1, <1>2 DEF Aside, Parked, IInv, FilesOK

\* Where a service verb goes is a place of its own.
LEMMA ServiceIsAside ==
  ASSUME IInv, NEW c \in Clients, ServiceStep(c), UNCHANGED <<fileVars, plans, overtaken, mixed>>
  PROVE  Aside
<1>1. Fixed /\ UNCHANGED <<binary, data, dir, handle, source, mixed>>
  BY DEF plans, Fixed, ServiceStep, fileVars, files, CheckUnit, WriteUnit, PrintState, Bootout, Settle,
         Bootstrap, RemoveUnit, Systemctl, AwaitJob, AwaitUp
<1>2. Parked(c)
  <2> USE DEF IInv, FilesOK, Parked, Goes, Busy, Places, ServicePlaces, Ended
  <2>1. CASE CheckUnit(c) BY <2>1 DEF CheckUnit
  <2>2. CASE WriteUnit(c) BY <2>2 DEF WriteUnit
  <2>3. CASE PrintState(c) BY <2>3 DEF PrintState
  <2>4. CASE Bootout(c) BY <2>4 DEF Bootout
  <2>5. CASE Settle(c) BY <2>5 DEF Settle
  <2>6. CASE Bootstrap(c) BY <2>6 DEF Bootstrap
  <2>7. CASE RemoveUnit(c) BY <2>7 DEF RemoveUnit
  <2>8. CASE Systemctl(c) BY <2>8 DEF Systemctl
  <2>9. CASE AwaitJob(c) BY <2>9 DEF AwaitJob
  <2>10. CASE AwaitUp(c) BY <2>10 DEF AwaitUp
  <2>11. QED
    BY <2>1, <2>2, <2>3, <2>4, <2>5, <2>6, <2>7, <2>8, <2>9, <2>10 DEF ServiceStep
<1>3. QED BY <1>1, <1>2, ParkedIsAside

\* Updaters of different versions have no name in common.
LEMMA OtherNames ==
  ASSUME IInv, NEW u \in Updaters, NEW w \in Updaters, target[u] # target[w]
  PROVE  {Archive(w), Staged(w)} \subseteq Names \ {Archive(u), Staged(u)}
  BY DEF IInv, FilesOK, Archive, Staged, Names

LEMMA OwnNames ==
  ASSUME target \in [Updaters -> Versions], NEW u \in Updaters
  PROVE  Archive(u) \in Names /\ Staged(u) \in Names /\ Archive(u) # Staged(u)
  BY DEF Archive, Staged, Names

\* What an updater at work does to the names of its version and the files they
\* lead to.
OwnFilesOnly(u) ==
  /\ Fixed
  /\ \A n \in Names \ {Archive(u), Staged(u)} :
       /\ dir'[n] = dir[n]
       /\ dir[n] # None => data'[dir[n]] = data[dir[n]]
  /\ \A w \in Clients \ {u} : at'[w] = at[w]
  /\ \A w \in Updaters \ {u} : handle'[w] = handle[w] /\ source'[w] = source[w]

\* These names lead where they led, nowhere, or to a file that nobody has open.
NamesKept(u) ==
  \A n \in {Archive(u), Staged(u)} : dir'[n] \in {dir[n], None} \cup {m \in Nodes : m \notin Used}

\* The install path leads where it led or, unless the updater is crossed, to a
\* file that no other updater has open.
BinaryKept(u) ==
  \/ UNCHANGED <<binary, mixed>>
  \/ \A w \in Updaters \ {u} : handle[w] # binary' \/ mixed'

LEMMA OthersKeepStage ==
  ASSUME IInv, NEW u \in Updaters, at[u] \in Busy, OwnFilesOnly(u), NEW w \in Updaters \ {u},
         w \notin crossed
  PROVE  Stage(w)'
<1>1. at'[w] = at[w] /\ handle'[w] = handle[w] /\ source'[w] = source[w]
  BY UpdatersAssumption DEF OwnFilesOnly
<1>2. CASE at[w] \in Busy
  <2>1. target[w] # target[u] BY <1>2 DEF IInv, Exclusive
  <2>2. /\ dir'[Archive(w)] = dir[Archive(w)] /\ dir'[Staged(w)] = dir[Staged(w)]
        /\ dir[Archive(w)] # None => data'[dir[Archive(w)]] = data[dir[Archive(w)]]
        /\ dir[Staged(w)] # None => data'[dir[Staged(w)]] = data[dir[Staged(w)]]
    BY <2>1, OtherNames DEF OwnFilesOnly
  <2>3. Stage(w) BY DEF IInv
  <2>4. None \notin Nodes BY ContentAssumption
  <2>5. Archive(w)' = Archive(w) /\ Staged(w)' = Staged(w) /\ target'[w] = target[w]
    BY FixedNames DEF OwnFilesOnly, Fixed
  <2>6. QED BY <1>1, <2>2, <2>3, <2>4, <2>5 DEF Stage, Holds
<1>3. CASE at[w] \notin Busy BY <1>1, <1>3 DEF Stage, Busy
<1>4. QED BY <1>2, <1>3

LEMMA OthersKeepOpen ==
  ASSUME IInv, NEW u \in Updaters, OwnFilesOnly(u), NamesKept(u), BinaryKept(u),
         NEW w \in Updaters \ {u}
  PROVE  Opened(w)'
<1>1. at'[w] = at[w] /\ handle'[w] = handle[w] /\ source'[w] = source[w]
  BY UpdatersAssumption DEF OwnFilesOnly
<1>2. Opened(w) BY DEF IInv, Handles
<1>3. Archive(w)' = Archive(w) /\ Staged(w)' = Staged(w)
  BY FixedNames DEF OwnFilesOnly, Fixed
<1>4. ASSUME handle[w] # None, NEW n \in Names \ {Archive(w), Staged(w)} PROVE dir'[n] # handle[w]
  <2>1. dir[n] # handle[w] BY <1>2, <1>4 DEF Opened
  <2>2. CASE n \in {Archive(u), Staged(u)}
    <3>1. dir'[n] \in {dir[n], None} \cup {m \in Nodes : m \notin Used} BY <2>2 DEF NamesKept
    <3>2. handle[w] \in Used BY DEF Used
    <3>3. QED BY <1>4, <2>1, <3>1, <3>2
  <2>3. CASE n \notin {Archive(u), Staged(u)} BY <2>1, <2>3 DEF OwnFilesOnly
  <2>4. QED BY <2>2, <2>3
<1>5. handle'[w] = binary' => mixed'
  BY <1>1, <1>2 DEF BinaryKept, Opened
<1>6. QED BY <1>1, <1>2, <1>3, <1>4, <1>5 DEF Opened

LEMMA OwnStep ==
  ASSUME IInv, NEW u \in Updaters, at[u] \in Busy, OwnFilesOnly(u), NamesKept(u), BinaryKept(u),
         FilesOK', Apart', InstalledWhole', Opened(u)', u \notin crossed => Stage(u)'
  PROVE  IInv'
<1>1. Fixed BY DEF OwnFilesOnly
<1>2. Exclusive'
  <2> SUFFICES ASSUME NEW v \in Updaters \ crossed, NEW w \in Updaters,
                      target[v] = target[w], at'[v] \in Busy, at'[w] \in Busy
               PROVE  v = w
    BY <1>1 DEF Exclusive, Fixed
  <2>1. at[v] \in Busy /\ at[w] \in Busy BY UpdatersAssumption DEF OwnFilesOnly
  <2>2. QED BY <2>1 DEF IInv, Exclusive
<1>3. ASSUME NEW w \in Updaters \ crossed PROVE Stage(w)' BY OthersKeepStage
<1>4. ASSUME NEW w \in Updaters PROVE Opened(w)' BY OthersKeepOpen
<1>5. QED BY <1>1, <1>2, <1>3, <1>4 DEF IInv, Handles, Fixed

\* Outside the two places where a file is open the step leaves none open.
LEMMA ClosedOpened ==
  ASSUME NEW u \in Updaters, FilesOK', handle'[u] = None, at'[u] \notin {"stream", "copy"}
  PROVE  Opened(u)'
  BY ContentAssumption DEF Opened, FilesOK

\* An error removes names of the updater and ends it.
LEMMA FailsKeeps ==
  ASSUME IInv, NEW u \in Updaters, at[u] \in Busy, Fixed,
         NEW names \in SUBSET {Archive(u), Staged(u)}, Fails(u, names),
         UNCHANGED <<binary, data, mixed>>
  PROVE  IInv'
<1> USE UpdatersAssumption
<1>1. FilesOK'
  BY DEF IInv, FilesOK, Fails, Goes, Removed, Closed, Places, ServicePlaces, Ended, Fixed
<1>2. Apart'
  <2>1. None \notin Nodes BY ContentAssumption
  <2>2. QED BY <2>1 DEF IInv, FilesOK, Apart, Fails, Removed
<1>3. InstalledWhole' BY DEF IInv, InstalledWhole
<1>4. at'[u] = "failed" /\ handle'[u] = None BY DEF IInv, FilesOK, Fails, Goes, Closed
<1>5. Stage(u)' BY <1>4 DEF Stage
<1>6. OwnFilesOnly(u)
  BY DEF OwnFilesOnly, IInv, FilesOK, Fails, Removed, Closed, Goes
<1>7. NamesKept(u) /\ BinaryKept(u)
  BY OwnNames DEF NamesKept, BinaryKept, Fails, Removed, IInv, FilesOK
<1>8. Opened(u)' BY <1>1, <1>4, ClosedOpened
<1>9. QED BY <1>1, <1>2, <1>3, <1>5, <1>6, <1>7, <1>8, OwnStep

-----------------------------------------------------------------------------
(* The updater's steps.                                                    *)

\* A file that is created is led to by no other name, and is the one the name
\* led to or one that nobody has open.
LEMMA CreateIsOwn ==
  ASSUME IInv, NEW u \in Updaters, NEW name \in Names, Create(u, name)
  PROVE  \E node \in Nodes :
           /\ node # binary /\ \A n \in Names \ {name} : dir[n] # node
           /\ node = dir[name] \/ node \notin Used
           /\ dir' = [dir EXCEPT ![name] = node]
           /\ handle' = [handle EXCEPT ![u] = node]
           /\ data' = [data EXCEPT ![node] = "partial"]
<1> DEFINE fresh == CHOOSE n \in Nodes : n \notin Used
           node == IF dir[name] # None THEN dir[name] ELSE fresh
<1>1. CASE dir[name] # None
  <2>1. node = dir[name] BY <1>1
  <2>2. node \in Nodes BY <1>1 DEF IInv, FilesOK
  <2>3. node # binary /\ \A n \in Names \ {name} : dir[n] # node
    BY <1>1, <2>1 DEF IInv, Apart
  <2>4. QED BY <2>1, <2>2, <2>3, <1>1 DEF Create
<1>2. CASE dir[name] = None
  <2>1. \E n \in Nodes : n \notin Used BY <1>2 DEF Create
  <2>2. fresh \in Nodes /\ fresh \notin Used BY <2>1
  <2>3. fresh # binary /\ \A n \in Names : dir[n] # fresh BY <2>2 DEF Used
  <2>4. /\ dir' = [dir EXCEPT ![name] = fresh]
        /\ handle' = [handle EXCEPT ![u] = fresh]
        /\ data' = [data EXCEPT ![fresh] = "partial"]
    BY <1>2 DEF Create
  <2> HIDE DEF fresh
  <2>5. QED BY <2>2, <2>3, <2>4
<1>3. QED BY <1>1, <1>2

\* What a created file under one of the updater's names leaves as it was.
LEMMA CreateKeeps ==
  ASSUME IInv, NEW u \in Updaters, NEW name \in {Archive(u), Staged(u)}, NEW node \in Nodes,
         node # binary, \A n \in Names \ {name} : dir[n] # node,
         node = dir[name] \/ node \notin Used,
         dir' = [dir EXCEPT ![name] = node], handle' = [handle EXCEPT ![u] = node],
         data' = [data EXCEPT ![node] = "partial"], UNCHANGED <<binary, mixed>>, Fixed,
         at'[u] \in {"stream", "copy"}, at'[u] = "copy" => source'[u] \in Nodes
  PROVE  Apart' /\ InstalledWhole' /\ Opened(u)' /\ NamesKept(u) /\ BinaryKept(u)
<1>1. name \in Names BY OwnNames DEF IInv, FilesOK
<1>2. Apart' BY <1>1 DEF IInv, FilesOK, Apart
<1>3. InstalledWhole' BY DEF IInv, FilesOK, InstalledWhole
<1>4. NamesKept(u) BY <1>1, OwnNames DEF NamesKept, IInv, FilesOK
<1>5. BinaryKept(u) BY DEF BinaryKept
<1>6. Archive(u)' = Archive(u) /\ Staged(u)' = Staged(u) BY FixedNames DEF Fixed
<1>7. handle'[u] = node /\ \A n \in Names \ {name} : dir'[n] # node
  BY <1>1 DEF IInv, FilesOK
<1>8. Opened(u)' BY <1>6, <1>7, ContentAssumption DEF Opened
<1>9. QED BY <1>2, <1>3, <1>4, <1>5, <1>8

LEMMA DownloadKeeps == ASSUME IInv, NEW u \in Updaters, Download(u) PROVE IInv'
<1> USE UpdatersAssumption
<1>1. at[u] \in Busy /\ Fixed /\ UNCHANGED <<binary, mixed>>
  BY DEF Download, Busy, Untouched, plans, Fixed
<1>2. CASE Create(u, Archive(u)) /\ Goes(u, "stream") /\ UNCHANGED source
  <2>1. Archive(u) \in Names /\ Archive(u)' = Archive(u)
    BY <1>1, OwnNames, FixedNames DEF IInv, FilesOK, Fixed
  <2>2. PICK node \in Nodes :
          /\ node # binary /\ \A n \in Names \ {Archive(u)} : dir[n] # node
          /\ node = dir[Archive(u)] \/ node \notin Used
          /\ dir' = [dir EXCEPT ![Archive(u)] = node]
          /\ handle' = [handle EXCEPT ![u] = node]
          /\ data' = [data EXCEPT ![node] = "partial"]
    BY <1>2, <2>1, CreateIsOwn
  <2>3. FilesOK'
    BY <1>1, <1>2, <2>1, <2>2 DEF IInv, FilesOK, Goes, Places, Busy, Fixed
  <2>4. at'[u] = "stream" BY <1>2 DEF IInv, FilesOK, Goes
  <2>5. Apart' /\ InstalledWhole' /\ Opened(u)' /\ NamesKept(u) /\ BinaryKept(u)
    BY <1>1, <2>2, <2>4, CreateKeeps
  <2>6. handle'[u] = node /\ dir'[Archive(u)] = node BY <2>1, <2>2 DEF IInv, FilesOK
  <2>7. Stage(u)' BY <2>1, <2>4, <2>6 DEF Stage
  <2>8. OwnFilesOnly(u)
    BY <1>1, <1>2, <2>1, <2>2 DEF OwnFilesOnly, IInv, FilesOK, Goes
  <2>9. QED BY <1>1, <2>3, <2>5, <2>7, <2>8, OwnStep
<1>3. CASE Fails(u, {Archive(u)}) /\ UNCHANGED data
  BY <1>1, <1>3, FailsKeeps
<1>4. QED BY <1>2, <1>3 DEF Download

\* What is written to an open file reaches its writer's version only.
LEMMA WriteIsOwn ==
  ASSUME IInv, NEW u \in Updaters, at[u] \in {"stream", "copy"}
  PROVE  /\ handle[u] \in Nodes
         /\ handle[u] = binary => mixed
         /\ \A n \in Names \ {Archive(u), Staged(u)} : dir[n] # handle[u]
  BY DEF IInv, FilesOK, Handles, Opened

LEMMA StreamKeeps == ASSUME IInv, NEW u \in Updaters, Stream(u) PROVE IInv'
<1> USE UpdatersAssumption
<1>1. at[u] = "stream" /\ at[u] \in Busy /\ Fixed /\ UNCHANGED <<binary, mixed>>
  BY DEF Stream, Busy, Untouched, plans, Fixed
<1>2. ASSUME NEW got \in {target[u], "wrong"}, data' = [data EXCEPT ![handle[u]] = got],
             Goes(u, "verify"), Closed(u), UNCHANGED dir
      PROVE  IInv'
  <2>1. /\ handle[u] \in Nodes
        /\ handle[u] = binary => mixed
        /\ \A n \in Names \ {Archive(u), Staged(u)} : dir[n] # handle[u]
    BY <1>1, WriteIsOwn
  <2>2. FilesOK'
    BY <1>1, <1>2, <2>1 DEF IInv, FilesOK, Goes, Closed, Places, Busy, Fixed
  <2>3. Apart' BY <1>1, <1>2 DEF IInv, Apart
  <2>4. InstalledWhole' BY <1>1, <1>2, <2>1 DEF IInv, FilesOK, InstalledWhole
  <2>5. at'[u] = "verify" /\ handle'[u] = None BY <1>2 DEF IInv, FilesOK, Goes, Closed
  <2>6. Stage(u)' BY <2>5 DEF Stage
  <2>7. OwnFilesOnly(u)
    BY <1>1, <1>2, <2>1 DEF OwnFilesOnly, IInv, FilesOK, Goes, Closed
  <2>8. NamesKept(u) /\ BinaryKept(u) BY <1>1, <1>2 DEF NamesKept, BinaryKept
  <2>9. Opened(u)' BY <2>2, <2>5, ClosedOpened
  <2>10. QED BY <1>1, <2>2, <2>3, <2>4, <2>6, <2>7, <2>8, <2>9, OwnStep
<1>3. CASE Fails(u, {Archive(u)}) /\ UNCHANGED data
  BY <1>1, <1>3, FailsKeeps
<1>4. QED BY <1>2, <1>3 DEF Stream

LEMMA VerifyKeeps == ASSUME IInv, NEW u \in Updaters, Verify(u) PROVE IInv'
<1> USE UpdatersAssumption
<1>1. at[u] = "verify" /\ at[u] \in Busy /\ Fixed /\ UNCHANGED <<binary, data, mixed>>
  BY DEF Verify, Busy, Untouched, plans, Fixed, files
<1>2. CASE Matches(u)
  <2>1. Goes(u, "unpack") /\ UNCHANGED <<dir, handle, source>>
    BY <1>2 DEF Verify, fileVars
  <2>2. FilesOK' BY <1>1, <2>1 DEF IInv, FilesOK, Goes, Places, Busy, Fixed
  <2>3. Apart' BY <1>1, <2>1 DEF IInv, Apart
  <2>4. InstalledWhole' BY <1>1 DEF IInv, InstalledWhole
  <2>5. at'[u] = "unpack" /\ handle'[u] = None
    BY <1>1, <2>1, ClosedOutside DEF IInv, FilesOK, Goes
  <2>6. Holds(Archive(u), target[u])
    BY <1>2, OwnNames DEF Matches, Holds, IInv, FilesOK
  <2>7. Stage(u)' BY <1>1, <2>1, <2>5, <2>6, FixedNames DEF Stage, Holds, Fixed
  <2>8. OwnFilesOnly(u) BY <1>1, <2>1 DEF OwnFilesOnly, IInv, FilesOK, Goes
  <2>9. NamesKept(u) /\ BinaryKept(u) BY <1>1, <2>1 DEF NamesKept, BinaryKept
  <2>10. Opened(u)' BY <2>2, <2>5, ClosedOpened
  <2>11. QED BY <1>1, <2>2, <2>3, <2>4, <2>7, <2>8, <2>9, <2>10, OwnStep
<1>3. CASE ~Matches(u) BY <1>1, <1>3, FailsKeeps DEF Verify
<1>4. QED BY <1>2, <1>3

LEMMA UnpackKeeps == ASSUME IInv, NEW u \in Updaters, Unpack(u) PROVE IInv'
<1> USE UpdatersAssumption
<1>1. at[u] \in Busy /\ Fixed /\ UNCHANGED <<binary, mixed>>
  BY DEF Unpack, Busy, Untouched, plans, Fixed
<1>2. CASE /\ dir[Archive(u)] # None
           /\ source' = [source EXCEPT ![u] = dir[Archive(u)]]
           /\ Create(u, Staged(u)) /\ Goes(u, "copy")
  <2>1. Archive(u) \in Names /\ Staged(u) \in Names /\ Archive(u) # Staged(u)
    BY OwnNames DEF IInv, FilesOK
  <2>2. PICK node \in Nodes :
          /\ node # binary /\ \A n \in Names \ {Staged(u)} : dir[n] # node
          /\ node = dir[Staged(u)] \/ node \notin Used
          /\ dir' = [dir EXCEPT ![Staged(u)] = node]
          /\ handle' = [handle EXCEPT ![u] = node]
          /\ data' = [data EXCEPT ![node] = "partial"]
    BY <1>2, <2>1, CreateIsOwn
  <2>3. dir[Archive(u)] \in Nodes BY <1>2, <2>1 DEF IInv, FilesOK
  <2>4. FilesOK'
    BY <1>1, <1>2, <2>1, <2>2, <2>3 DEF IInv, FilesOK, Goes, Places, Busy, Fixed
  <2>5. at'[u] = "copy" /\ source'[u] = dir[Archive(u)] BY <1>2 DEF IInv, FilesOK, Goes
  <2>6. Apart' /\ InstalledWhole' /\ Opened(u)' /\ NamesKept(u) /\ BinaryKept(u)
    BY <1>1, <2>2, <2>3, <2>5, CreateKeeps
  <2>7. /\ handle'[u] = node /\ dir'[Staged(u)] = node
        /\ dir'[Archive(u)] = dir[Archive(u)]
        /\ data'[dir[Archive(u)]] = data[dir[Archive(u)]]
    BY <2>1, <2>2, <2>3 DEF IInv, FilesOK
  <2>8. ASSUME u \notin crossed PROVE Stage(u)'
    <3>1. Holds(Archive(u), target[u]) BY <2>8 DEF IInv, Stage, Unpack
    <3>2. QED BY <1>1, <2>5, <2>7, <3>1, FixedNames DEF Stage, Holds, Fixed
  <2>9. OwnFilesOnly(u)
    BY <1>1, <1>2, <2>1, <2>2 DEF OwnFilesOnly, IInv, FilesOK, Goes
  <2>10. QED BY <1>1, <2>4, <2>6, <2>8, <2>9, OwnStep
<1>3. CASE Fails(u, {Archive(u), Staged(u)}) /\ UNCHANGED data
  BY <1>1, <1>3, FailsKeeps
<1>4. QED BY <1>2, <1>3 DEF Unpack

\* The copy writes the open file and no other, whether it ends well or not.
LEMMA CopyKeeps == ASSUME IInv, NEW u \in Updaters, Copy(u) PROVE IInv'
<1> USE UpdatersAssumption
<1>1. at[u] = "copy" /\ at[u] \in Busy /\ Fixed /\ UNCHANGED <<binary, mixed>>
  BY DEF Copy, Busy, Untouched, plans, Fixed
<1>2. Archive(u) \in Names /\ Staged(u) \in Names /\ Archive(u) # Staged(u)
  BY OwnNames DEF IInv, FilesOK
<1>3. /\ handle[u] \in Nodes
      /\ handle[u] = binary => mixed
      /\ \A n \in Names \ {Archive(u), Staged(u)} : dir[n] # handle[u]
  BY <1>1, WriteIsOwn
<1>4. data[source[u]] \in Versions \cup {"partial", "wrong"}
  BY <1>1 DEF IInv, FilesOK, Handles, Opened
<1>5. None \notin Nodes BY ContentAssumption
<1>6. CASE /\ data' = [data EXCEPT ![handle[u]] = data[source[u]]]
           /\ Goes(u, "swap") /\ Removed({Archive(u)}) /\ Closed(u)
  <2>1. FilesOK'
    BY <1>1, <1>3, <1>4, <1>6 DEF IInv, FilesOK, Goes, Removed, Closed, Places, Busy, Fixed
  <2>2. Apart' BY <1>1, <1>5, <1>6 DEF IInv, FilesOK, Apart, Removed
  <2>3. InstalledWhole' BY <1>1, <1>3, <1>6 DEF IInv, FilesOK, InstalledWhole
  <2>4. at'[u] = "swap" /\ handle'[u] = None BY <1>6 DEF IInv, FilesOK, Goes, Closed
  <2>5. ASSUME u \notin crossed PROVE Stage(u)'
    <3>1. /\ Holds(Archive(u), target[u]) /\ source[u] = dir[Archive(u)]
          /\ handle[u] = dir[Staged(u)]
      BY <1>1, <2>5 DEF IInv, Stage
    <3>2. dir'[Staged(u)] = handle[u] /\ handle[u] \in Nodes BY <1>2, <1>3, <1>6, <3>1 DEF Removed
    <3>3. data[source[u]] = target[u] BY <3>1 DEF Holds
    <3>4. data'[handle[u]] = target[u] BY <1>6, <3>2, <3>3 DEF IInv, FilesOK
    <3>5. Staged(u)' = Staged(u) /\ target' = target BY <1>1, FixedNames DEF Fixed
    <3>6. QED BY <2>4, <3>2, <3>4, <3>5 DEF Stage, Holds
  <2>6. OwnFilesOnly(u)
    BY <1>1, <1>3, <1>6 DEF OwnFilesOnly, IInv, FilesOK, Goes, Removed, Closed
  <2>7. NamesKept(u) /\ BinaryKept(u)
    BY <1>1, <1>2, <1>6 DEF NamesKept, BinaryKept, Removed
  <2>8. Opened(u)' BY <2>1, <2>4, ClosedOpened
  <2>9. QED BY <1>1, <2>1, <2>2, <2>3, <2>5, <2>6, <2>7, <2>8, OwnStep
<1>7. CASE /\ Fails(u, {Archive(u), Staged(u)})
           /\ data' \in {data, [data EXCEPT ![handle[u]] = data[source[u]]]}
  <2>1. FilesOK'
    BY <1>1, <1>3, <1>4, <1>7
       DEF IInv, FilesOK, Fails, Goes, Removed, Closed, Places, ServicePlaces, Ended, Fixed
  <2>2. Apart' BY <1>1, <1>5, <1>7 DEF IInv, FilesOK, Apart, Fails, Removed
  <2>3. InstalledWhole' BY <1>1, <1>3, <1>7 DEF IInv, FilesOK, InstalledWhole
  <2>4. at'[u] = "failed" /\ handle'[u] = None
    BY <1>7 DEF IInv, FilesOK, Fails, Goes, Closed
  <2>5. Stage(u)' BY <2>4 DEF Stage
  <2>6. OwnFilesOnly(u)
    BY <1>1, <1>3, <1>7 DEF OwnFilesOnly, IInv, FilesOK, Fails, Goes, Removed, Closed
  <2>7. NamesKept(u) /\ BinaryKept(u)
    BY <1>1, <1>2, <1>7 DEF NamesKept, BinaryKept, Fails, Removed
  <2>8. Opened(u)' BY <2>1, <2>4, ClosedOpened
  <2>9. QED BY <1>1, <2>1, <2>2, <2>3, <2>5, <2>6, <2>7, <2>8, OwnStep
<1>8. QED BY <1>6, <1>7 DEF Copy

\* Nobody has the staged file of an updater that is not crossed open: not one
\* of another version, and there is no other one of its own.
LEMMA StagedIsOwn ==
  ASSUME IInv, NEW u \in Updaters \ crossed, at[u] = "swap", dir[Staged(u)] # None,
         NEW w \in Updaters
  PROVE  handle[w] # dir[Staged(u)]
<1>1. Opened(w) BY DEF IInv, Handles
<1>2. CASE target[w] = target[u]
  <2>1. w = u \/ at[w] \notin Busy BY <1>2 DEF IInv, Exclusive, Busy
  <2>2. handle[w] = None BY <2>1, ClosedOutside DEF IInv, Busy
  <2>3. QED BY <2>2
<1>3. CASE target[w] # target[u]
  <2>1. Staged(u) \in Names \ {Archive(w), Staged(w)} BY <1>3, OtherNames
  <2>2. QED BY <1>1, <2>1 DEF Opened
<1>4. QED BY <1>2, <1>3

LEMMA SwapKeeps == ASSUME IInv, NEW u \in Updaters, Swap(u) PROVE IInv'
<1> USE UpdatersAssumption
<1>1. at[u] = "swap" /\ at[u] \in Busy /\ Fixed /\ data' = data
  BY DEF Swap, Busy, Untouched, plans, Fixed
<1>2. CASE /\ dir[Staged(u)] # None
           /\ binary' = dir[Staged(u)] /\ Removed({Staged(u)}) /\ Goes(u, After(u))
           /\ mixed' = (u \in crossed) /\ UNCHANGED <<handle, source>>
  <2>1. Staged(u) \in Names BY OwnNames DEF IInv, FilesOK
  <2>2. dir[Staged(u)] \in Nodes BY <1>2, <2>1 DEF IInv, FilesOK
  <2>3. After(u) \in {"check", "systemctl", "ok"} BY DEF After, Restart
  <2>4. FilesOK'
    BY <1>1, <1>2, <2>2, <2>3
       DEF IInv, FilesOK, Goes, Removed, Places, ServicePlaces, Ended, Fixed
  <2>5. None \notin Nodes BY ContentAssumption
  <2>6. Apart' BY <1>2, <2>1, <2>2, <2>5 DEF IInv, FilesOK, Apart, Removed
  <2>7. InstalledWhole'
    <3>1. CASE u \in crossed BY <1>2, <3>1 DEF InstalledWhole
    <3>2. CASE u \notin crossed
      <4>1. Holds(Staged(u), target[u]) BY <1>1, <3>2 DEF IInv, Stage
      <4>2. target[u] \in Versions BY DEF IInv, FilesOK
      <4>3. QED BY <1>1, <1>2, <4>1, <4>2 DEF InstalledWhole, Holds
    <3>3. QED BY <3>1, <3>2
  <2>8. at'[u] \in {"check", "systemctl", "ok"} BY <1>2, <2>3 DEF IInv, FilesOK, Goes
  <2>9. Stage(u)' BY <2>8 DEF Stage
  <2>10. OwnFilesOnly(u)
    BY <1>1, <1>2 DEF OwnFilesOnly, IInv, FilesOK, Goes, Removed
  <2>11. NamesKept(u)
    BY <1>2, <2>1, OwnNames DEF NamesKept, Removed, IInv, FilesOK
  <2>12. BinaryKept(u)
    <3>1. CASE u \in crossed BY <1>2, <3>1 DEF BinaryKept
    <3>2. CASE u \notin crossed BY <1>1, <1>2, <3>2, StagedIsOwn DEF BinaryKept
    <3>3. QED BY <3>1, <3>2
  <2>13. handle'[u] = None BY <1>1, <1>2, ClosedOutside DEF IInv
  <2>14. Opened(u)' BY <2>4, <2>8, <2>13, ClosedOpened
  <2>15. QED BY <1>1, <2>4, <2>6, <2>7, <2>9, <2>10, <2>11, <2>12, <2>14, OwnStep
<1>3. CASE Fails(u, {Staged(u)}) /\ UNCHANGED <<binary, mixed>>
  BY <1>1, <1>3, FailsKeeps
<1>4. QED BY <1>2, <1>3 DEF Swap

-----------------------------------------------------------------------------
(* The other steps.                                                        *)

LEMMA StillIsAside ==
  ASSUME IInv, Fixed, UNCHANGED <<binary, data, dir, handle, source, at, mixed>>
  PROVE  Aside
<1>1. \A u \in Updaters : at[u] \notin Busy => handle[u] = None
  BY ClosedOutside DEF Busy, IInv
<1>2. QED BY <1>1 DEF Aside, IInv, FilesOK

\* An updater that comes to work finds nobody of its version there, or all of
\* them are crossed from now on.
LEMMA PlanKeeps == ASSUME IInv, NEW u \in Updaters, Plan(u) PROVE IInv'
<1> USE UpdatersAssumption
<1>1. at[u] = "idle" /\ UNCHANGED <<binary, data, dir, handle, source, mixed>>
  BY DEF Plan, files, fileVars
<1>2. CASE Goes(u, "refused") /\ UNCHANGED plans
  <2>1. Parked(u)
    BY <1>1, <1>2 DEF Parked, IInv, FilesOK, Goes, Places, ServicePlaces, Ended, Busy
  <2>2. QED BY <1>1, <1>2, <2>1, ParkedIsAside, AsideKeeps DEF plans, Fixed
<1>3. ASSUME NEW v \in Versions \ {data[binary]}, Goes(u, "download"),
             target' = [target EXCEPT ![u] = v],
             crossed' = IF AtWork(v) = {} THEN crossed \ {u} ELSE crossed \cup {u} \cup AtWork(v)
      PROVE  IInv'
  <2>1. at'[u] = "download" /\ \A w \in Clients \ {u} : at'[w] = at[w]
    BY <1>3 DEF IInv, FilesOK, Goes
  <2>2. FilesOK' BY <1>1, <1>3 DEF IInv, FilesOK, Goes, Places, Busy
  <2>3. Apart' BY <1>1 DEF IInv, Apart
  <2>4. InstalledWhole' BY <1>1 DEF IInv, InstalledWhole
  <2>5. target'[u] = v /\ \A w \in Updaters \ {u} : target'[w] = target[w]
    BY <1>3 DEF IInv, FilesOK
  <2>6. ASSUME NEW w \in Updaters \ {u}
        PROVE  Archive(w)' = Archive(w) /\ Staged(w)' = Staged(w)
    BY <2>5 DEF Archive, Staged
  <2>7. Exclusive'
    <3> SUFFICES ASSUME NEW x \in Updaters, NEW w \in Updaters, x # w, x \notin crossed',
                        target'[x] = target'[w], at'[x] \in Busy, at'[w] \in Busy
                 PROVE  FALSE
      BY DEF Exclusive
    <3>1. CASE x = u
      <4>1. w \in AtWork(v) BY <2>1, <2>5, <3>1 DEF AtWork
      <4>2. QED BY <1>3, <3>1, <4>1
    <3>2. CASE w = u
      <4>1. x \in AtWork(v) BY <2>1, <2>5, <3>2 DEF AtWork
      <4>2. QED BY <1>3, <4>1
    <3>3. CASE x # u /\ w # u
      <4>1. x \notin crossed BY <1>3, <3>3
      <4>2. QED BY <2>1, <2>5, <3>3, <4>1 DEF IInv, Exclusive
    <3>4. QED BY <3>1, <3>2, <3>3
  <2>8. ASSUME NEW w \in Updaters \ {u}, w \notin crossed' PROVE Stage(w)'
    <3>1. w \notin crossed BY <1>3, <2>8
    <3>2. at'[w] = at[w] /\ target'[w] = target[w] /\ Stage(w) BY <2>1, <2>5, <3>1 DEF IInv
    <3>3. QED BY <1>1, <2>6, <3>2 DEF Stage, Holds
  <2>9. Stage(u)' BY <2>1 DEF Stage
  <2>10. ASSUME NEW w \in Updaters \ {u} PROVE Opened(w)'
    <3>1. at'[w] = at[w] /\ Opened(w) BY <2>1 DEF IInv, Handles
    <3>2. QED BY <1>1, <2>6, <3>1 DEF Opened
  <2>11. Opened(u)'
    <3>1. handle'[u] = None BY <1>1, ClosedOutside DEF IInv
    <3>2. QED BY <2>1, <2>2, <3>1, ClosedOpened
  <2>12. QED BY <2>2, <2>3, <2>4, <2>7, <2>8, <2>9, <2>10, <2>11 DEF IInv, Handles
<1>4. QED BY <1>2, <1>3 DEF Plan

LEMMA StampIsAside == ASSUME IInv, NEW u \in Updaters, Stamp(u) PROVE Aside
<1>1. Parked(u)
  BY UpdatersAssumption
  DEF Stamp, Parked, IInv, FilesOK, Goes, Places, ServicePlaces, Ended, Busy
<1>2. Fixed /\ UNCHANGED <<binary, data, dir, handle, source, mixed>>
  BY DEF Stamp, Untouched, plans, Fixed, files, fileVars
<1>3. QED BY <1>1, <1>2, UpdatersAssumption, ParkedIsAside

LEMMA KillIsAside == ASSUME IInv, NEW c \in Clients, Kill(c) PROVE Aside
<1> USE UpdatersAssumption
<1>1. Fixed /\ UNCHANGED <<binary, data, dir, mixed>> /\ Goes(c, "killed")
  BY DEF Kill, files, plans, Fixed
<1>2. /\ at' \in [Clients -> Places] /\ at'[c] = "killed" /\ at'[c] \notin Busy
      /\ \A w \in Clients \ {c} : at'[w] = at[w]
  BY <1>1 DEF IInv, FilesOK, Goes, Places, ServicePlaces, Ended, Busy
<1>3. \A w \in Updaters : at[w] \notin Busy => handle[w] = None
  BY ClosedOutside DEF Busy, IInv
<1>4. CASE c \in Updaters
  <2>1. Closed(c) BY <1>4 DEF Kill
  <2>2. /\ handle'[c] = None
        /\ \A w \in Updaters \ {c} : handle'[w] = handle[w] /\ source'[w] = source[w]
        /\ handle' \in [Updaters -> Nodes \cup {None}] /\ source' \in [Updaters -> Nodes \cup {None}]
    BY <1>4, <2>1 DEF IInv, FilesOK, Closed
  <2>3. ASSUME NEW w \in Updaters
        PROVE IF at'[w] \in Busy THEN at'[w] = at[w] /\ handle'[w] = handle[w] /\ source'[w] = source[w]
                                 ELSE handle'[w] = None
    BY <1>2, <1>3, <2>2
  <2>4. QED BY <1>1, <1>2, <2>2, <2>3 DEF Aside
<1>5. CASE c \notin Updaters
  <2>1. UNCHANGED <<handle, source>> BY <1>5 DEF Kill
  <2>2. \A w \in Updaters : at'[w] = at[w] BY <1>2, <1>5
  <2>3. QED BY <1>1, <1>2, <1>3, <2>1, <2>2 DEF Aside, IInv, FilesOK
<1>6. QED BY <1>4, <1>5

LEMMA BeginIsAside ==
  ASSUME IInv, NEW c \in Clients, NEW v \in Verbs, Begin(c, v),
         UNCHANGED <<fileVars, plans, overtaken, mixed>>
  PROVE  Aside
<1>1. Fixed /\ UNCHANGED <<binary, data, dir, handle, source, mixed>>
  BY DEF Begin, files, fileVars, plans, Fixed
<1>2. Parked(c)
  BY DEF Begin, Parked, IInv, FilesOK, Goes, Places, ServicePlaces, Ended, Busy, Restart
<1>3. QED BY <1>1, <1>2, ParkedIsAside

LEMMA EnvironmentIsAside ==
  ASSUME IInv, Environment, UNCHANGED <<fileVars, plans, overtaken, mixed>>
  PROVE  Aside
<1>1. Fixed /\ UNCHANGED <<binary, data, dir, handle, source, at, mixed>>
  BY DEF Environment, DaemonLocks, DaemonClears, DaemonPublishes, DaemonDies, DaemonStops,
         ForegroundRun, ForegroundTold, Respawn, Cleared, files, fileVars, plans, Fixed
<1>2. QED BY <1>1, StillIsAside

LEMMA InitInv == Init => IInv
<1> SUFFICES ASSUME Init PROVE IInv
  OBVIOUS
<1> USE DEF Init
<1>1. FilesOK BY UpdatersAssumption DEF FilesOK, Places
<1>2. Apart BY ContentAssumption DEF Apart
<1>3. Exclusive BY UpdatersAssumption DEF Exclusive, Busy
<1>4. InstalledWhole BY UpdatersAssumption DEF InstalledWhole
<1>5. \A u \in Updaters : Stage(u) BY UpdatersAssumption DEF Stage
<1>6. \A u \in Updaters : Opened(u) BY UpdatersAssumption, ContentAssumption DEF Opened
<1>7. QED BY <1>1, <1>2, <1>3, <1>4, <1>5, <1>6 DEF IInv, Handles

LEMMA NextInv == IInv /\ [Next]_vars => IInv'
<1> SUFFICES ASSUME IInv, [Next]_vars PROVE IInv'
  OBVIOUS
<1>1. ASSUME NEW c \in Clients, ServiceStep(c), UNCHANGED <<fileVars, plans, overtaken, mixed>>
      PROVE  IInv'
  BY <1>1, ServiceIsAside, AsideKeeps
<1>2. ASSUME NEW u \in Updaters, UpdateStep(u) PROVE IInv'
  <2>1. CASE Download(u) BY <2>1, DownloadKeeps
  <2>2. CASE Stream(u) BY <2>2, StreamKeeps
  <2>3. CASE Verify(u) BY <2>3, VerifyKeeps
  <2>4. CASE Unpack(u) BY <2>4, UnpackKeeps
  <2>5. CASE Copy(u) BY <2>5, CopyKeeps
  <2>6. CASE Swap(u) BY <2>6, SwapKeeps
  <2>7. CASE Stamp(u) BY <2>7, StampIsAside, AsideKeeps
  <2>8. QED BY <1>2, <2>1, <2>2, <2>3, <2>4, <2>5, <2>6, <2>7 DEF UpdateStep
<1>3. ASSUME NEW c \in Clients, Kill(c) PROVE IInv' BY <1>3, KillIsAside, AsideKeeps
<1>4. ASSUME NEW u \in Updaters, Plan(u) PROVE IInv' BY <1>4, PlanKeeps
<1>5. ASSUME NEW c \in Clients, NEW v \in Verbs, Begin(c, v),
             UNCHANGED <<fileVars, plans, overtaken, mixed>>
      PROVE  IInv'
  BY <1>5, BeginIsAside, AsideKeeps
<1>6. CASE Environment /\ UNCHANGED <<fileVars, plans, overtaken, mixed>>
  BY <1>6, EnvironmentIsAside, AsideKeeps
<1>7. CASE UNCHANGED vars
  <2>1. Fixed /\ UNCHANGED <<binary, data, dir, handle, source, at, mixed>>
    BY <1>7 DEF vars, serviceVars, files, fileVars, plans, Fixed
  <2>2. QED BY <2>1, StillIsAside, AsideKeeps
<1>8. QED BY <1>1, <1>2, <1>3, <1>4, <1>5, <1>6, <1>7 DEF Next, Step

\* The install path always holds one complete release, but for a file that was
\* put there by an updater at whose work another one of its version was
\* (self_update/mod.rs, apply).
THEOREM InstalledWholeHolds == Spec => []InstalledWhole
<1>1. IInv /\ [Next]_vars => IInv' BY NextInv
<1>2. IInv => InstalledWhole BY DEF IInv
<1>3. QED BY <1>1, <1>2, InitInv, PTL DEF Spec

-----------------------------------------------------------------------------
(* Types, whether updates overlap or not.                                  *)

\* What is copied is a file.
Sourced == \A u \in Updaters : at[u] = "copy" => source[u] \in Nodes

LEMMA TypeInit == Init => TypeOK /\ Sourced
<1> SUFFICES ASSUME Init PROVE TypeOK /\ Sourced
  OBVIOUS
<1> USE DEF Init
<1>1. PICK running \in {"off", "up", "failed"} :
        /\ label = IF running = "off" THEN "none" ELSE "loaded"
        /\ unit \in IF running = "off" THEN BOOLEAN ELSE {TRUE}
        /\ st = [d \in Daemons |-> IF d = "service" THEN running ELSE "off"]
        /\ ver = [d \in Daemons |-> IF d = "service" /\ running = "up" THEN Installed ELSE None]
        /\ lock = IF running = "up" THEN "service" ELSE None
        /\ doc = IF running = "off" THEN None ELSE Installed
  OBVIOUS
<1>2. /\ unit \in BOOLEAN /\ label \in {"none", "loaded", "leaving"}
      /\ st \in [Daemons -> {"off", "failed", "exec", "held", "up"}]
      /\ ver \in [Daemons -> Versions \cup {None}]
  BY <1>1, UpdatersAssumption
<1>3. lock \in Daemons \cup {None} /\ doc \in Versions \cup {None}
  BY <1>1, UpdatersAssumption DEF Daemons
<1>4. /\ data \in [Nodes -> Versions \cup {"partial", "wrong"}] /\ binary \in Nodes
      /\ ran \in [Clients -> SUBSET Versions] /\ mishaps \in 0..MaxMishaps
  BY UpdatersAssumption, MishapsAssumption
<1>5. ServiceTypeOK BY <1>2, <1>3, <1>4 DEF ServiceTypeOK
<1>6. QED BY <1>5, UpdatersAssumption DEF TypeOK, Sourced

\* What executing the install path does is of the right type.
LEMMA ExecuteType ==
  ASSUME TypeOK, NEW d \in Daemons, Execute(d)
  PROVE  /\ st' \in [Daemons -> {"off", "failed", "exec", "held", "up"}]
         /\ ver' \in [Daemons -> Versions \cup {None}] /\ told' \subseteq Daemons
         /\ ran' \in [Clients -> SUBSET Versions] /\ lock' = lock /\ doc' = doc
<1>1. ran' \in [Clients -> SUBSET Versions]
  BY DEF Execute, TypeOK, ServiceTypeOK
<1>2. QED BY <1>1 DEF Execute, TypeOK, ServiceTypeOK

LEMMA GoesType ==
  ASSUME TypeOK, NEW c \in Clients, NEW place, Goes(c, place)
  PROVE  at'[c] = place /\ \A w \in Clients : w # c => at'[w] = at[w]
  BY DEF TypeOK, Goes

\* A place that is one.
LEMMA GoesPlace ==
  ASSUME TypeOK, NEW c \in Clients, NEW place \in Places, Goes(c, place)
  PROVE  at' \in [Clients -> Places]
  BY DEF TypeOK, Goes, Places

\* The job, the processes and what updaters saw executed.
ManagerOK ==
  /\ unit \in BOOLEAN /\ label \in {"none", "loaded", "leaving"} /\ again \in BOOLEAN
  /\ st \in [Daemons -> {"off", "failed", "exec", "held", "up"}]
  /\ ver \in [Daemons -> Versions \cup {None}] /\ told \subseteq Daemons
  /\ lock \in Daemons \cup {None} /\ doc \in Versions \cup {None}
  /\ ran \in [Clients -> SUBSET Versions]

LEMMA TypeService ==
  ASSUME TypeOK, NEW c \in Clients, ServiceStep(c), UNCHANGED <<fileVars, plans, overtaken, mixed>>
  PROVE  TypeOK'
<1>1. at' \in [Clients -> Places]
  <2> USE GoesPlace DEF Places, ServicePlaces, Ended
  <2>1. CASE CheckUnit(c) BY <2>1 DEF CheckUnit
  <2>2. CASE WriteUnit(c) BY <2>2 DEF WriteUnit
  <2>3. CASE PrintState(c) BY <2>3 DEF PrintState
  <2>4. CASE Bootout(c) BY <2>4 DEF Bootout
  <2>5. CASE Settle(c) BY <2>5 DEF Settle
  <2>6. CASE Bootstrap(c) BY <2>6 DEF Bootstrap
  <2>7. CASE RemoveUnit(c) BY <2>7 DEF RemoveUnit
  <2>8. CASE Systemctl(c) BY <2>8 DEF Systemctl
  <2>9. CASE AwaitJob(c) BY <2>9 DEF AwaitJob
  <2>10. CASE AwaitUp(c) BY <2>10 DEF AwaitUp
  <2>11. QED
    BY <2>1, <2>2, <2>3, <2>4, <2>5, <2>6, <2>7, <2>8, <2>9, <2>10 DEF ServiceStep
<1>2. ManagerOK'
  <2> USE DEF TypeOK, ServiceTypeOK, ManagerOK, machine, daemons
  <2>1. CASE Leaves /\ UNCHANGED unit /\ again' \in BOOLEAN
    BY <2>1 DEF Leaves, Daemons
  <2>2. CASE Loads
    BY <2>2, ExecuteType DEF Loads, Daemons
  <2>3. CASE UNCHANGED <<machine, daemons, ran>>
    BY <2>3
  <2>4. CASE unit' \in BOOLEAN /\ UNCHANGED <<label, again, daemons, ran>>
    BY <2>4
  <2>5. QED
    <3>1. CASE CheckUnit(c) BY <2>3, <3>1 DEF CheckUnit
    <3>2. CASE WriteUnit(c) BY <2>4, <3>2 DEF WriteUnit
    <3>3. CASE PrintState(c) BY <2>3, <3>3 DEF PrintState
    <3>4. CASE Bootout(c) BY <2>1, <2>3, <3>4 DEF Bootout
    <3>5. CASE Settle(c) BY <2>3, <3>5 DEF Settle
    <3>6. CASE Bootstrap(c) BY <2>2, <2>3, <3>6 DEF Bootstrap
    <3>7. CASE RemoveUnit(c) BY <2>4, <3>7 DEF RemoveUnit
    <3>8. CASE Systemctl(c) BY <2>1, <2>2, <2>3, <3>8 DEF Systemctl
    <3>9. CASE AwaitJob(c) BY <2>3, <3>9 DEF AwaitJob
    <3>10. CASE AwaitUp(c) BY <2>3, <3>10 DEF AwaitUp
    <3>11. QED
      BY <3>1, <3>2, <3>3, <3>4, <3>5, <3>6, <3>7, <3>8, <3>9, <3>10 DEF ServiceStep
<1>3. UNCHANGED <<manager, files, verb, mishaps>>
  BY DEF ServiceStep, CheckUnit, WriteUnit, PrintState, Bootout, Settle, Bootstrap, RemoveUnit,
         Systemctl, AwaitJob, AwaitUp
<1>4. QED
  BY <1>1, <1>2, <1>3 DEF TypeOK, ServiceTypeOK, ManagerOK, Places, files, fileVars, plans

LEMMA CreateType ==
  ASSUME TypeOK, NEW u \in Updaters, NEW name \in Names, Create(u, name)
  PROVE  /\ dir' \in [Names -> Nodes \cup {None}] /\ handle' \in [Updaters -> Nodes \cup {None}]
         /\ data' \in [Nodes -> Versions \cup {"partial", "wrong"}]
<1> DEFINE node == IF dir[name] # None THEN dir[name] ELSE CHOOSE n \in Nodes : n \notin Used
<1>1. node \in Nodes
  <2>1. CASE dir[name] # None BY <2>1 DEF TypeOK
  <2>2. CASE dir[name] = None
    <3>1. \E n \in Nodes : n \notin Used BY <2>2 DEF Create
    <3>2. QED BY <2>2, <3>1
  <2>3. QED BY <2>1, <2>2
<1>2. /\ dir' = [dir EXCEPT ![name] = node] /\ handle' = [handle EXCEPT ![u] = node]
      /\ data' = [data EXCEPT ![node] = "partial"]
  BY DEF Create
<1> HIDE DEF node
<1>3. QED BY <1>1, <1>2 DEF TypeOK, ServiceTypeOK

LEMMA TypeUpdate ==
  ASSUME TypeOK, Sourced, NEW u \in Updaters, UpdateStep(u)
  PROVE  TypeOK' /\ Sourced'
<1> USE UpdatersAssumption, OwnNames DEF TypeOK
<1>1. at' \in [Clients -> Places]
  <2> USE GoesPlace DEF Places, ServicePlaces, Ended, Busy, Fails
  <2>1. CASE Download(u) BY <2>1 DEF Download
  <2>2. CASE Stream(u) BY <2>2 DEF Stream
  <2>3. CASE Verify(u) BY <2>3 DEF Verify
  <2>4. CASE Unpack(u) BY <2>4 DEF Unpack
  <2>5. CASE Copy(u) BY <2>5 DEF Copy
  <2>6. CASE Swap(u) BY <2>6 DEF Swap, After, Restart
  <2>7. CASE Stamp(u) BY <2>7 DEF Stamp
  <2>8. QED BY <2>1, <2>2, <2>3, <2>4, <2>5, <2>6, <2>7 DEF UpdateStep
<1> DEFINE FilesTyped ==
      /\ binary' \in Nodes /\ data' \in [Nodes -> Versions \cup {"partial", "wrong"}]
      /\ dir' \in [Names -> Nodes \cup {None}]
      /\ handle' \in [Updaters -> Nodes \cup {None}] /\ source' \in [Updaters -> Nodes \cup {None}]
<1>2. FilesTyped
  <2> USE DEF TypeOK, ServiceTypeOK
  <2>1. ASSUME Closed(u) PROVE handle' \in [Updaters -> Nodes \cup {None}]
                              /\ source' \in [Updaters -> Nodes \cup {None}]
    BY <2>1 DEF Closed
  <2>2. ASSUME NEW names, Removed(names) PROVE dir' \in [Names -> Nodes \cup {None}]
    BY <2>2 DEF Removed
  <2>3. CASE Download(u)
    BY <2>1, <2>2, <2>3, CreateType DEF Download, Fails
  <2>4. CASE Stream(u)
    BY <2>1, <2>2, <2>4 DEF Stream, Fails
  <2>5. CASE Verify(u)
    BY <2>1, <2>2, <2>5 DEF Verify, Fails, files, fileVars
  <2>6. CASE Unpack(u)
    <3>1. source' \in [Updaters -> Nodes \cup {None}]
      BY <2>1, <2>6 DEF Unpack, Fails
    <3>2. QED BY <2>1, <2>2, <2>6, <3>1, CreateType DEF Unpack, Fails
  <2>7. CASE Copy(u)
    <3>1. dir' \in [Names -> Nodes \cup {None}] /\ handle' \in [Updaters -> Nodes \cup {None}]
            /\ source' \in [Updaters -> Nodes \cup {None}] /\ binary' = binary
      BY <2>1, <2>2, <2>7 DEF Copy, Fails
    <3>2. data' \in [Nodes -> Versions \cup {"partial", "wrong"}]
      <4>1. data[source[u]] \in Versions \cup {"partial", "wrong"}
        BY <2>7 DEF Copy, Sourced
      <4>2. data' \in {data, [data EXCEPT ![handle[u]] = data[source[u]]]}
        BY <2>7 DEF Copy
      <4>3. QED BY <4>1, <4>2
    <3>3. QED BY <3>1, <3>2
  <2>8. CASE Swap(u)
    BY <2>1, <2>2, <2>8 DEF Swap, Fails
  <2>9. CASE Stamp(u) BY <2>9 DEF Stamp, files, fileVars
  <2>10. QED BY <2>3, <2>4, <2>5, <2>6, <2>7, <2>8, <2>9 DEF UpdateStep
<1>3. UNCHANGED <<manager, machine, daemons, verb, mishaps, plans>>
  BY DEF UpdateStep, Download, Stream, Verify, Unpack, Copy, Swap, Stamp, Untouched
<1>4. ran' \in [Clients -> SUBSET Versions] /\ overtaken' \subseteq Updaters /\ mixed' \in BOOLEAN
  <2>1. ran' \in [Clients -> SUBSET Versions] /\ overtaken' \subseteq Updaters
    BY DEF UpdateStep, Download, Stream, Verify, Unpack, Copy, Swap, Stamp, TypeOK, ServiceTypeOK
  <2>2. mixed' \in BOOLEAN
    <3>1. CASE mixed' = mixed BY <3>1 DEF TypeOK
    <3>2. CASE mixed' = (u \in crossed) BY <3>2
    <3>3. mixed' = mixed \/ mixed' = (u \in crossed)
      BY DEF UpdateStep, Download, Stream, Verify, Unpack, Copy, Swap, Stamp
    <3>4. QED BY <3>1, <3>2, <3>3
  <2>3. QED BY <2>1, <2>2
<1>5. TypeOK'
  BY <1>1, <1>2, <1>3, <1>4 DEF TypeOK, ServiceTypeOK, Places, machine, daemons, plans
<1>6. \A w \in Updaters : w # u => at'[w] = at[w] /\ source'[w] = source[w]
  BY GoesType DEF UpdateStep, Download, Stream, Verify, Unpack, Copy, Swap, Stamp, Fails, Closed,
                  fileVars, TypeOK
<1>7. at'[u] = "copy" => source'[u] \in Nodes
  <2>1. CASE Unpack(u)
    BY <2>1, GoesType DEF Unpack, Fails, TypeOK
  <2>2. CASE ~Unpack(u)
    <3>1. at'[u] # "copy"
      BY <2>2, GoesType DEF UpdateStep, Download, Stream, Verify, Copy, Swap, Stamp, Fails, After, Restart
    <3>2. QED BY <3>1
  <2>3. QED BY <2>1, <2>2
<1>8. QED BY <1>5, <1>6, <1>7 DEF Sourced

LEMMA TypeBegins ==
  ASSUME TypeOK,
         \/ \E u \in Updaters : Plan(u)
         \/ \E c \in Clients : Kill(c)
         \/ (\E c \in Clients, v \in Verbs : Begin(c, v)) /\ UNCHANGED <<fileVars, plans, overtaken, mixed>>
  PROVE  TypeOK'
<1> USE UpdatersAssumption
<1>1. ASSUME NEW u \in Updaters, Plan(u) PROVE TypeOK'
  <2>1. at' \in [Clients -> Places]
    BY <1>1, GoesPlace DEF Plan, Places, Busy, ServicePlaces, Ended
  <2>2. /\ hasUnit' \in [Updaters -> BOOLEAN] /\ verb' \in [Clients -> Verbs \cup {"none", "update"}]
        /\ target' \in [Updaters -> Versions] /\ crossed' \subseteq Updaters
    BY <1>1 DEF Plan, TypeOK, ServiceTypeOK, plans, AtWork
  <2>3. UNCHANGED <<manager, machine, daemons, files, ran, mishaps, fileVars, overtaken, mixed>>
    BY <1>1 DEF Plan
  <2>4. QED
    BY <2>1, <2>2, <2>3 DEF TypeOK, ServiceTypeOK, Places, machine, daemons, files, fileVars
<1>2. ASSUME NEW c \in Clients, Kill(c) PROVE TypeOK'
  <2>1. at' \in [Clients -> Places]
    BY <1>2, GoesPlace DEF Kill, Places, ServicePlaces, Ended
  <2>2. handle' \in [Updaters -> Nodes \cup {None}] /\ source' \in [Updaters -> Nodes \cup {None}]
    BY <1>2 DEF Kill, Closed, TypeOK
  <2>3. mishaps' \in 0..MaxMishaps
    BY <1>2, MishapsAssumption DEF Kill, Mishap, TypeOK, ServiceTypeOK
  <2>4. UNCHANGED <<manager, machine, daemons, files, verb, ran, dir, plans, overtaken, mixed>>
    BY <1>2 DEF Kill
  <2>5. QED
    BY <2>1, <2>2, <2>3, <2>4 DEF TypeOK, ServiceTypeOK, Places, machine, daemons, files, plans
<1>3. ASSUME NEW c \in Clients, NEW v \in Verbs, Begin(c, v), UNCHANGED <<fileVars, plans, overtaken, mixed>>
      PROVE  TypeOK'
  <2>1. at' \in [Clients -> Places]
    BY <1>3, GoesPlace DEF Begin, Places, ServicePlaces, Ended, Restart
  <2>2. verb' \in [Clients -> Verbs \cup {"none", "update"}]
    BY <1>3 DEF Begin, TypeOK
  <2>3. UNCHANGED <<manager, machine, daemons, files, ran, mishaps>>
    BY <1>3 DEF Begin
  <2>4. QED
    BY <1>3, <2>1, <2>2, <2>3
       DEF TypeOK, ServiceTypeOK, Places, machine, daemons, files, fileVars, plans
<1>4. QED BY <1>1, <1>2, <1>3

LEMMA TypeEnvironment ==
  ASSUME TypeOK, Environment, UNCHANGED <<fileVars, plans, overtaken, mixed>>
  PROVE  TypeOK'
<1>1. UNCHANGED <<manager, unit, files, verb, at>> /\ mishaps' \in 0..MaxMishaps
  BY MishapsAssumption DEF Environment, DaemonLocks, DaemonClears, DaemonPublishes, DaemonDies,
     DaemonStops, ForegroundRun, ForegroundTold, Respawn, Cleared, Mishap, machine, TypeOK, ServiceTypeOK
<1>2. ManagerOK'
  <2> USE DEF TypeOK, ServiceTypeOK, ManagerOK, machine, daemons
  <2>1. ASSUME NEW d \in Daemons, NEW how \in {"off", "failed"}, Exits(d, how)
        PROVE  /\ st' \in [Daemons -> {"off", "failed", "exec", "held", "up"}]
               /\ lock' \in Daemons \cup {None} /\ told' \subseteq Daemons /\ ver' = ver
    BY <2>1 DEF Exits
  <2>2. ASSUME NEW d \in Daemons, DaemonLocks(d) PROVE ManagerOK'
    BY <2>1, <2>2 DEF DaemonLocks
  <2>3. ASSUME NEW d \in Daemons, DaemonClears(d) \/ DaemonPublishes(d) PROVE ManagerOK'
    BY <2>3 DEF DaemonClears, DaemonPublishes
  <2>4. ASSUME NEW d \in Daemons, DaemonDies(d) PROVE ManagerOK'
    BY <2>1, <2>4 DEF DaemonDies
  <2>5. ASSUME NEW d \in Daemons, DaemonStops(d) PROVE ManagerOK'
    BY <2>1, <2>5 DEF DaemonStops
  <2>6. CASE ForegroundRun
    BY <2>6, ExecuteType DEF ForegroundRun, Daemons
  <2>7. CASE ForegroundTold
    BY <2>7 DEF ForegroundTold, Daemons
  <2>8. CASE Respawn
    BY <2>8, ExecuteType DEF Respawn, Daemons
  <2>9. CASE Cleared
    BY <2>9, ExecuteType DEF Cleared, Daemons
  <2>10. QED
    BY <2>2, <2>3, <2>4, <2>5, <2>6, <2>7, <2>8, <2>9 DEF Environment
<1>3. QED
  BY <1>1, <1>2 DEF TypeOK, ServiceTypeOK, ManagerOK, files, fileVars, plans

LEMMA TypeStep ==
  ASSUME TypeOK, Sourced, [Next]_vars
  PROVE  TypeOK' /\ Sourced'
<1> USE UpdatersAssumption
<1>1. ASSUME NEW u \in Updaters, UpdateStep(u) PROVE TypeOK' /\ Sourced'
  BY <1>1, TypeUpdate
<1>2. ASSUME NEW c \in Clients, ServiceStep(c), UNCHANGED <<fileVars, plans, overtaken, mixed>>
      PROVE  TypeOK' /\ Sourced'
  <2>1. \A w \in Clients : at'[w] = "copy" => at[w] = "copy"
    BY <1>2, GoesType DEF ServiceStep, CheckUnit, WriteUnit, PrintState, Bootout, Settle, Bootstrap,
                          RemoveUnit, Systemctl, AwaitJob, AwaitUp
  <2>2. QED BY <1>2, <2>1, TypeService DEF Sourced, fileVars
<1>3. CASE \/ \E u \in Updaters : Plan(u)
           \/ \E c \in Clients : Kill(c)
           \/ (\E c \in Clients, v \in Verbs : Begin(c, v)) /\ UNCHANGED <<fileVars, plans, overtaken, mixed>>
  <2>1. \A w \in Clients : at'[w] = "copy" => at[w] = "copy"
    BY <1>3, GoesType DEF Plan, Kill, Begin, Restart
  <2>2. \A w \in Updaters : at'[w] = "copy" => source'[w] = source[w]
    BY <1>3, GoesType DEF Plan, Kill, Begin, Closed, TypeOK, fileVars
  <2>3. QED BY <1>3, <2>1, <2>2, TypeBegins DEF Sourced
<1>4. CASE Environment /\ UNCHANGED <<fileVars, plans, overtaken, mixed>>
  <2>1. at' = at
    BY <1>4 DEF Environment, DaemonLocks, DaemonClears, DaemonPublishes, DaemonDies, DaemonStops,
                ForegroundRun, ForegroundTold, Respawn, Cleared
  <2>2. QED BY <1>4, <2>1, TypeEnvironment DEF Sourced, fileVars
<1>5. CASE UNCHANGED vars
  BY <1>5
     DEF vars, serviceVars, machine, daemons, files, fileVars, plans, TypeOK, ServiceTypeOK, Sourced
<1>6. QED BY <1>1, <1>2, <1>3, <1>4, <1>5 DEF Next, Step

\* Every variable keeps its type, whatever verbs and updates run beside each other.
THEOREM TypeCorrect == Spec => []TypeOK
<1>1. TypeOK /\ Sourced /\ [Next]_vars => TypeOK' /\ Sourced' BY TypeStep
<1>2. QED BY <1>1, TypeInit, PTL DEF Spec

-----------------------------------------------------------------------------
(***************************************************************************)
(* What the verbs report.  As long as nobody stops the service, fails or   *)
(* is killed, a job that is not loaded has a client that will load it or   *)
(* fail: one between its bootout and its bootstrap, or one that waits for  *)
(* the restart it enqueued (Kept).                                         *)
(***************************************************************************)

\* What was asked for fits the place.
Verbed ==
  \A c \in Clients :
    /\ at[c] = "idle" => verb[c] = "none"
    /\ at[c] \in Busy => verb[c] = "update"
    /\ at[c] = "remove" => verb[c] = "uninstall"
    /\ verb[c] = "update" =>
         c \in Updaters /\ at[c] \in Busy \cup {"check", "systemctl", "job", "bootout", "settle", "load", "wait", "stamp"}
                        \cup Ended

ByManager ==
  /\ manager = "launchd" => ~again /\ \A c \in Clients : at[c] \notin {"systemctl", "job"}
  /\ manager = "systemd" =>
       \A c \in Clients : at[c] \notin {"bootstrap", "print", "bootout", "settle", "load"}

\* Nobody stops the service, failed or was killed.
Clean == \A c \in Clients : at[c] \notin {"failed", "killed"} /\ verb[c] \notin {"stop", "uninstall"}

Mending == \E c \in Clients : at[c] \in {"settle", "load"}
Enqueued == \E c \in Clients : at[c] = "job"
Restarted(c) == at[c] \in {"job", "wait", "stamp"} \/ (at[c] = "ok" /\ (verb[c] = "update" => hasUnit[c]))

Kept ==
  /\ label = "leaving" => Mending \/ again
  /\ again => label = "leaving" /\ Enqueued
  /\ label = "none" => Mending \/ \A c \in Clients : ~Restarted(c)

RInv == TypeOK /\ Sourced /\ Verbed /\ ByManager /\ (Clean => Kept)

\* One client moves on, with the verb it has.
Moves(c) ==
  /\ \A w \in Clients \ {c} : at'[w] = at[w] /\ verb'[w] = verb[w]
  /\ at[c] # "idle" => verb'[c] = verb[c] /\ at[c] \notin {"failed", "killed"}

LEMMA ServiceMoves == ASSUME TypeOK, NEW c \in Clients, ServiceStep(c) PROVE Moves(c) /\ verb' = verb
  BY GoesType DEF ServiceStep, CheckUnit, WriteUnit, PrintState, Bootout, Settle, Bootstrap, RemoveUnit,
                  Systemctl, AwaitJob, AwaitUp, Moves

LEMMA UpdateMoves ==
  ASSUME TypeOK, NEW u \in Updaters, UpdateStep(u)
  PROVE  Moves(u) /\ verb' = verb /\ UNCHANGED <<manager, label, again, plans>>
<1>1. u \in Clients BY UpdatersAssumption
<1>2. \A w \in Clients \ {u} : at'[w] = at[w]
  BY <1>1, GoesType DEF UpdateStep, Download, Stream, Verify, Unpack, Copy, Swap, Stamp, Fails
<1>3. at[u] \in Busy \cup {"stamp"}
  BY DEF UpdateStep, Download, Stream, Verify, Unpack, Copy, Swap, Stamp, Busy
<1>4. UNCHANGED <<manager, label, again, verb, plans>>
  BY DEF UpdateStep, Download, Stream, Verify, Unpack, Copy, Swap, Stamp, Untouched, machine
<1>5. QED BY <1>2, <1>3, <1>4 DEF Moves, Busy

LEMMA BeginMoves ==
  ASSUME TypeOK, NEW c \in Clients, NEW v \in Verbs, Begin(c, v)
  PROVE  Moves(c) /\ UNCHANGED <<manager, label, again>>
  BY GoesType DEF Begin, Moves, TypeOK, machine

LEMMA PlanMoves ==
  ASSUME TypeOK, NEW u \in Updaters, Plan(u)
  PROVE  Moves(u) /\ UNCHANGED <<manager, label, again>>
  BY GoesType, UpdatersAssumption DEF Plan, Moves, TypeOK, machine

LEMMA KillMoves ==
  ASSUME TypeOK, NEW c \in Clients, Kill(c)
  PROVE  Moves(c) /\ UNCHANGED <<manager, label, again, verb>>
  BY GoesType DEF Kill, Moves, TypeOK, machine, Ended

\* Who failed, was killed or stops the service stays so.
LEMMA CleanBefore ==
  ASSUME Verbed, NEW c \in Clients, Moves(c), Clean'
  PROVE  Clean
  BY DEF Verbed, Moves, Clean

-----------------------------------------------------------------------------
LEMMA VerbedStep ==
  ASSUME TypeOK, Sourced, Verbed, [Next]_vars
  PROVE  Verbed'
<1> USE UpdatersAssumption
<1>1. ASSUME NEW c \in Clients, ServiceStep(c) PROVE Verbed'
  <2>1. Moves(c) /\ verb' = verb BY <1>1, ServiceMoves
  <2>2. /\ at'[c] \notin Busy \cup {"idle"}
        /\ at'[c] = "remove" => verb[c] = "uninstall"
        /\ verb[c] = "update" => at'[c] \in {"systemctl", "job", "bootout", "settle", "load", "wait", "stamp"}
                                              \cup Ended
    <3> USE DEF Busy, Ended, Verbed
    <3>1. CASE CheckUnit(c) BY <3>1, GoesType DEF CheckUnit
    <3>2. CASE WriteUnit(c) BY <3>2, GoesType DEF WriteUnit
    <3>3. CASE PrintState(c) BY <3>3, GoesType DEF PrintState
    <3>4. CASE Bootout(c) BY <3>4, GoesType DEF Bootout
    <3>5. CASE Settle(c) BY <3>5, GoesType DEF Settle
    <3>6. CASE Bootstrap(c) BY <3>6, GoesType DEF Bootstrap
    <3>7. CASE RemoveUnit(c) BY <3>7, GoesType DEF RemoveUnit
    <3>8. CASE Systemctl(c) BY <3>8, GoesType DEF Systemctl, Stops
    <3>9. CASE AwaitJob(c) BY <3>9, GoesType DEF AwaitJob
    <3>10. CASE AwaitUp(c) BY <3>10, GoesType DEF AwaitUp
    <3>11. QED
      BY <1>1, <3>1, <3>2, <3>3, <3>4, <3>5, <3>6, <3>7, <3>8, <3>9, <3>10 DEF ServiceStep
  <2>3. QED BY <2>1, <2>2 DEF Verbed, Moves
<1>2. ASSUME NEW u \in Updaters, UpdateStep(u) PROVE Verbed'
  <2>1. Moves(u) /\ verb' = verb BY <1>2, UpdateMoves
  <2>2. /\ at'[u] \in Busy \cup {"check", "systemctl", "ok", "failed"}
        /\ at[u] \in Busy \/ at'[u] \in {"ok", "failed"}
    BY <1>2, GoesType DEF UpdateStep, Download, Stream, Verify, Unpack, Copy, Swap, Stamp, Fails,
                          After, Restart, Busy
  <2>3. QED BY <2>1, <2>2 DEF Verbed, Moves, Busy, Ended
<1>3. ASSUME NEW u \in Updaters, Plan(u) PROVE Verbed'
  <2>1. Moves(u) BY <1>3, PlanMoves
  <2>2. verb'[u] = "update" /\ at'[u] \in {"refused", "download"}
    BY <1>3, GoesType DEF Plan, TypeOK
  <2>3. QED BY <2>1, <2>2 DEF Verbed, Moves, Busy, Ended
<1>4. ASSUME NEW c \in Clients, Kill(c) PROVE Verbed'
  <2>1. Moves(c) /\ verb' = verb BY <1>4, KillMoves
  <2>2. at'[c] = "killed" BY <1>4, GoesType DEF Kill
  <2>3. QED BY <2>1, <2>2 DEF Verbed, Moves, Busy, Ended
<1>5. ASSUME NEW c \in Clients, NEW v \in Verbs, Begin(c, v) PROVE Verbed'
  <2>1. Moves(c) BY <1>5, BeginMoves
  <2>2. verb'[c] = v /\ at'[c] \in {"write", "check", "bootout", "systemctl", "refused"}
    BY <1>5, GoesType DEF Begin, Restart, TypeOK
  <2>3. QED BY <2>1, <2>2 DEF Verbed, Moves, Busy, Ended, Verbs
<1>6. CASE Environment
  <2>1. UNCHANGED <<at, verb>>
    BY <1>6 DEF Environment, DaemonLocks, DaemonClears, DaemonPublishes, DaemonDies, DaemonStops,
                ForegroundRun, ForegroundTold, Respawn, Cleared
  <2>2. QED BY <2>1 DEF Verbed
<1>7. CASE UNCHANGED vars
  BY <1>7 DEF vars, serviceVars, Verbed
<1>8. QED BY <1>1, <1>2, <1>3, <1>4, <1>5, <1>6, <1>7 DEF Next, Step

\* The two managers have commands of their own.
LEMMA ByManagerStep ==
  ASSUME TypeOK, Verbed, ByManager, [Next]_vars
  PROVE  ByManager'
<1> USE UpdatersAssumption
<1>0. manager' = manager
  BY DEF Next, Step, ServiceStep, CheckUnit, WriteUnit, PrintState, Bootout, Settle, Bootstrap,
         RemoveUnit, Systemctl, AwaitJob, AwaitUp, UpdateStep, Download, Stream, Verify, Unpack, Copy,
         Swap, Stamp, Untouched, Kill, Plan, Begin, Environment, DaemonLocks, DaemonClears,
         DaemonPublishes, DaemonDies, DaemonStops, ForegroundRun, ForegroundTold, Respawn, Cleared,
         vars, serviceVars
<1>1. ASSUME NEW c \in Clients, ServiceStep(c) PROVE ByManager'
  <2>1. \A w \in Clients \ {c} : at'[w] = at[w] BY <1>1, ServiceMoves DEF Moves
  <2>2. /\ manager = "launchd" => ~again' /\ at'[c] \notin {"systemctl", "job"}
        /\ manager = "systemd" => at'[c] \notin {"bootstrap", "print", "bootout", "settle", "load"}
    <3> USE DEF ByManager, machine, TypeOK, ServiceTypeOK
    <3>1. CASE CheckUnit(c) BY <3>1, GoesType DEF CheckUnit
    <3>2. CASE WriteUnit(c) BY <3>2, GoesType DEF WriteUnit
    <3>3. CASE PrintState(c) BY <3>3, GoesType DEF PrintState
    <3>4. CASE Bootout(c) BY <3>4, GoesType DEF Bootout
    <3>5. CASE Settle(c) BY <3>5, GoesType DEF Settle
    <3>6. CASE Bootstrap(c) BY <3>6, GoesType DEF Bootstrap, Loads
    <3>7. CASE RemoveUnit(c) BY <3>7, GoesType DEF RemoveUnit
    <3>8. CASE Systemctl(c) BY <3>8, GoesType DEF Systemctl
    <3>9. CASE AwaitJob(c) BY <3>9, GoesType DEF AwaitJob
    <3>10. CASE AwaitUp(c) BY <3>10, GoesType DEF AwaitUp
    <3>11. QED
      BY <1>1, <3>1, <3>2, <3>3, <3>4, <3>5, <3>6, <3>7, <3>8, <3>9, <3>10 DEF ServiceStep
  <2>3. QED BY <1>0, <2>1, <2>2 DEF ByManager
<1>2. ASSUME NEW u \in Updaters, UpdateStep(u) PROVE ByManager'
  <2>1. Moves(u) /\ again' = again BY <1>2, UpdateMoves
  <2>2. /\ at'[u] \in Busy \cup {"check", "systemctl", "ok", "failed"}
        /\ at'[u] = "systemctl" => manager # "launchd"
    BY <1>2, GoesType DEF UpdateStep, Download, Stream, Verify, Unpack, Copy, Swap, Stamp, Fails,
                          After, Restart, Busy
  <2>3. QED BY <1>0, <2>1, <2>2 DEF ByManager, Moves, Busy
<1>3. ASSUME NEW u \in Updaters, Plan(u) PROVE ByManager'
  <2>1. Moves(u) /\ again' = again BY <1>3, PlanMoves
  <2>2. at'[u] \in {"refused", "download"} BY <1>3, GoesType DEF Plan
  <2>3. QED BY <1>0, <2>1, <2>2 DEF ByManager, Moves
<1>4. ASSUME NEW c \in Clients, Kill(c) PROVE ByManager'
  <2>1. Moves(c) /\ again' = again BY <1>4, KillMoves
  <2>2. at'[c] = "killed" BY <1>4, GoesType DEF Kill
  <2>3. QED BY <1>0, <2>1, <2>2 DEF ByManager, Moves
<1>5. ASSUME NEW c \in Clients, NEW v \in Verbs, Begin(c, v) PROVE ByManager'
  <2>1. Moves(c) /\ again' = again BY <1>5, BeginMoves
  <2>2. /\ at'[c] \in {"write", "check", "bootout", "systemctl", "refused"}
        /\ at'[c] = "bootout" => manager = "launchd"
        /\ at'[c] = "systemctl" => manager # "launchd"
    BY <1>5, GoesType DEF Begin, Restart, TypeOK
  <2>3. QED BY <1>0, <2>1, <2>2 DEF ByManager, Moves
<1>6. CASE Environment
  <2>1. at' = at /\ (again' = again \/ ~again')
    BY <1>6 DEF Environment, DaemonLocks, DaemonClears, DaemonPublishes, DaemonDies, DaemonStops,
                ForegroundRun, ForegroundTold, Respawn, Cleared, machine
  <2>2. QED BY <1>0, <2>1 DEF ByManager
<1>7. CASE UNCHANGED vars
  BY <1>7 DEF vars, serviceVars, machine, ByManager
<1>8. QED BY <1>1, <1>2, <1>3, <1>4, <1>5, <1>6, <1>7 DEF Next, Step

\* A step that leaves the job alone, takes nobody from the places that mend it
\* and brings nobody to a success.
LEMMA KeptBeside ==
  ASSUME Kept, UNCHANGED <<label, again>>,
         \A c \in Clients : /\ at[c] \in {"settle", "load"} => at'[c] \in {"settle", "load"}
                            /\ at[c] = "job" => at'[c] = "job"
                            /\ Restarted(c)' => Restarted(c)
  PROVE  Kept'
  BY DEF Kept, Mending, Enqueued

LEMMA KeptService ==
  ASSUME RInv, NEW c \in Clients, ServiceStep(c), UNCHANGED <<fileVars, plans, overtaken, mixed>>, Clean'
  PROVE  Kept'
<1>1. Moves(c) /\ verb' = verb BY ServiceMoves DEF RInv
<1>2. Clean /\ Kept BY <1>1, CleanBefore DEF RInv
<1>3. TypeOK /\ Verbed /\ ByManager /\ verb[c] \notin {"stop", "uninstall"} /\ at'[c] \notin {"failed", "killed"}
  BY <1>1, <1>2 DEF RInv, Clean
<1>4. \A w \in Clients \ {c} : at'[w] = at[w] /\ (Restarted(w)' <=> Restarted(w))
  BY <1>1 DEF Moves, Restarted, plans
<1>5. CASE CheckUnit(c) \/ WriteUnit(c)
  <2>1. UNCHANGED <<label, again>> BY <1>5 DEF CheckUnit, WriteUnit, machine
  <2>2. at[c] \in {"check", "write"} /\ at'[c] \in {"systemctl", "print", "bootout", "bootstrap"}
    BY <1>3, <1>5, GoesType DEF CheckUnit, WriteUnit
  <2>3. QED BY <1>2, <1>4, <2>1, <2>2, KeptBeside DEF Restarted
<1>6. CASE PrintState(c)
  <2>1. UNCHANGED <<label, again>> BY <1>6 DEF PrintState, machine
  <2>2. at[c] = "print" /\ at'[c] \in {"ok", "bootout"} /\ (at'[c] = "ok" => label # "none")
    BY <1>3, <1>6, GoesType DEF PrintState
  <2>3. CASE at'[c] = "bootout" BY <1>2, <1>4, <2>1, <2>2, <2>3, KeptBeside DEF Restarted
  <2>4. CASE label # "none"
    <3>1. Mending => Mending' BY <1>4, <2>2 DEF Mending
    <3>2. Enqueued => Enqueued' BY <1>4, <2>2 DEF Enqueued
    <3>3. QED BY <1>2, <2>1, <2>4, <3>1, <3>2 DEF Kept
  <2>5. QED BY <2>2, <2>3, <2>4
<1>7. CASE Bootout(c)
  <2>1. at'[c] = "settle" BY <1>3, <1>7, GoesType DEF Bootout
  <2>2. Mending' BY <2>1 DEF Mending
  <2>3. manager = "launchd" BY <1>3, <1>7 DEF Bootout, ByManager, TypeOK, ServiceTypeOK
  <2>4. ~again' BY <1>3, <1>7, <2>3 DEF Bootout, ByManager
  <2>5. QED BY <2>2, <2>4 DEF Kept
<1>8. CASE Settle(c)
  <2>1. UNCHANGED <<label, again>> BY <1>8 DEF Settle, machine
  <2>2. at[c] = "settle" /\ at'[c] = "load" BY <1>3, <1>8, GoesType DEF Settle
  <2>3. QED BY <1>2, <1>4, <2>1, <2>2, KeptBeside DEF Restarted
<1>9. CASE Bootstrap(c)
  <2>1. manager = "launchd" BY <1>3, <1>9 DEF Bootstrap, ByManager, TypeOK, ServiceTypeOK
  <2>2. ~again /\ again' = again BY <1>3, <1>9, <2>1 DEF Bootstrap, ByManager, Loads, machine
  <2>3. CASE label' = "loaded" BY <2>2, <2>3 DEF Kept
  <2>4. CASE label' # "loaded"
    <3>1. at[c] = "bootstrap" /\ at'[c] = "bootout" /\ label' = label
      BY <1>3, <1>9, <2>4, GoesType DEF Bootstrap, BootstrapFailed, Loads, machine
    <3>2. QED BY <1>2, <1>4, <2>2, <3>1, KeptBeside DEF Restarted
  <2>5. QED BY <2>3, <2>4
<1>10. CASE RemoveUnit(c)
  BY <1>3, <1>10 DEF RemoveUnit, Verbed
<1>11. CASE Systemctl(c)
  <2>1. ~Stops(c) /\ at'[c] = "job" BY <1>3, <1>11, GoesType DEF Systemctl, Stops
  <2>2. Enqueued' BY <2>1 DEF Enqueued
  <2>3. manager = "systemd" BY <1>3, <1>11 DEF Systemctl, ByManager, TypeOK, ServiceTypeOK
  <2>4. label # "loaded" /\ ~again => label = "none"
    <3>1. ~Mending BY <1>3, <2>3 DEF ByManager, Mending
    <3>2. QED BY <1>2, <1>3, <3>1 DEF Kept, TypeOK, ServiceTypeOK
  <2>5. \/ label' = "loaded" /\ again' = again /\ label # "leaving"
        \/ label' = "leaving" /\ again' = TRUE
    <3>1. at[c] = "systemctl" BY <1>11 DEF Systemctl
    <3>2. \/ label = "none" /\ Loads
          \/ label = "loaded" /\ UNCHANGED <<machine, daemons, ran>>
          \/ label = "loaded" /\ Loads
          \/ label \in {"leaving", "loaded"} /\ Leaves /\ again' = TRUE
      BY <1>3, <1>11, <2>1, GoesType DEF Systemctl
    <3>3. QED BY <3>2 DEF Loads, Leaves, machine
  <2>6. again' => label' = "leaving" BY <1>2, <2>5 DEF Kept
  <2>7. QED BY <2>2, <2>5, <2>6 DEF Kept
<1>12. CASE AwaitJob(c)
  <2>1. at[c] = "job" /\ at'[c] = "wait" /\ label = "loaded" /\ ~again /\ UNCHANGED <<label, again>>
    BY <1>3, <1>12, GoesType DEF AwaitJob, JobDone, machine
  <2>2. QED BY <2>1 DEF Kept
<1>13. CASE AwaitUp(c)
  <2>1. UNCHANGED <<label, again>> BY <1>13 DEF AwaitUp, machine
  <2>2. at[c] = "wait" /\ at'[c] \in {"ok", "stamp"} BY <1>3, <1>13, GoesType DEF AwaitUp
  <2>3. QED BY <1>2, <1>4, <2>1, <2>2, KeptBeside DEF Restarted
<1>14. QED
  BY <1>5, <1>6, <1>7, <1>8, <1>9, <1>10, <1>11, <1>12, <1>13 DEF ServiceStep

LEMMA KeptUpdate ==
  ASSUME RInv, NEW u \in Updaters, UpdateStep(u), Clean'
  PROVE  Kept'
<1>1. u \in Clients /\ TypeOK BY UpdatersAssumption DEF RInv
<1>2. Moves(u) /\ verb' = verb /\ UNCHANGED <<label, again, hasUnit>>
  BY <1>1, UpdateMoves DEF plans
<1>3. Clean /\ Kept /\ Verbed BY <1>1, <1>2, CleanBefore DEF RInv
<1>4. /\ at[u] \notin {"settle", "load", "job"} /\ at'[u] \notin {"job", "wait", "stamp"}
      /\ at'[u] = "ok" => at[u] = "stamp" \/ (verb[u] = "update" /\ ~hasUnit[u])
  BY <1>1, <1>3, GoesType DEF UpdateStep, Download, Stream, Verify, Unpack, Copy, Swap, Stamp, Fails,
                              After, Restart, Busy, Verbed
<1>5. Restarted(u)' => Restarted(u) BY <1>2, <1>4 DEF Restarted
<1>6. \A w \in Clients \ {u} : at'[w] = at[w] /\ (Restarted(w)' <=> Restarted(w))
  BY <1>2 DEF Moves, Restarted
<1>7. QED BY <1>2, <1>3, <1>4, <1>5, <1>6, KeptBeside

LEMMA KeptBegins ==
  ASSUME RInv, Clean',
         \/ \E u \in Updaters : Plan(u)
         \/ \E c \in Clients : Kill(c)
         \/ (\E c \in Clients, v \in Verbs : Begin(c, v)) /\ UNCHANGED <<fileVars, plans, overtaken, mixed>>
  PROVE  Kept'
<1> USE UpdatersAssumption
<1>1. TypeOK /\ Verbed BY DEF RInv
<1>2. ~ \E c \in Clients : Kill(c)
  BY <1>1, GoesType DEF Kill, Clean
<1>3. PICK c \in Clients : /\ Moves(c) /\ UNCHANGED <<label, again>> /\ at[c] = "idle"
                           /\ at'[c] \in {"refused", "download", "write", "check", "bootout", "systemctl"}
                           /\ \A w \in Clients \ {c} : w \in Updaters => hasUnit'[w] = hasUnit[w]
  <2>1. ASSUME NEW u \in Updaters, Plan(u)
        PROVE  /\ Moves(u) /\ UNCHANGED <<label, again>> /\ at[u] = "idle"
               /\ at'[u] \in {"refused", "download", "write", "check", "bootout", "systemctl"}
               /\ \A w \in Clients \ {u} : w \in Updaters => hasUnit'[w] = hasUnit[w]
    <3>1. Moves(u) /\ UNCHANGED <<label, again>> BY <1>1, <2>1, PlanMoves
    <3>2. at[u] = "idle" /\ at'[u] \in {"refused", "download"} BY <1>1, <2>1, GoesType DEF Plan
    <3>3. \A w \in Clients \ {u} : w \in Updaters => hasUnit'[w] = hasUnit[w]
      BY <1>1, <2>1 DEF Plan, TypeOK, plans
    <3>4. QED BY <3>1, <3>2, <3>3
  <2>2. ASSUME NEW b \in Clients, NEW v \in Verbs, Begin(b, v), UNCHANGED hasUnit
        PROVE  /\ Moves(b) /\ UNCHANGED <<label, again>> /\ at[b] = "idle"
               /\ at'[b] \in {"refused", "download", "write", "check", "bootout", "systemctl"}
    BY <1>1, <2>2, BeginMoves, GoesType DEF Begin, Restart
  <2>3. QED BY <1>2, <2>1, <2>2 DEF plans
<1>4. Clean /\ Kept BY <1>1, <1>3, CleanBefore DEF RInv
<1>5. \A w \in Clients \ {c} : Restarted(w)' => Restarted(w)
  BY <1>1, <1>3 DEF Moves, Restarted, Verbed
<1>6. ~Restarted(c)' BY <1>3 DEF Restarted
<1>7. \A w \in Clients \ {c} : at'[w] = at[w] BY <1>3 DEF Moves
<1>8. QED BY <1>3, <1>4, <1>5, <1>6, <1>7, KeptBeside

\* A job that leaves is gone, or the restart that waited loads it again.
LEMMA KeptEnvironment ==
  ASSUME RInv, Environment, UNCHANGED <<fileVars, plans, overtaken, mixed>>, Clean'
  PROVE  Kept'
<1>1. UNCHANGED <<at, verb, hasUnit>>
  BY DEF plans, Environment, DaemonLocks, DaemonClears, DaemonPublishes, DaemonDies, DaemonStops,
         ForegroundRun, ForegroundTold, Respawn, Cleared
<1>2. Clean /\ Kept BY <1>1 DEF RInv, Clean
<1>3. \A c \in Clients : at'[c] = at[c] /\ (Restarted(c)' <=> Restarted(c))
  BY <1>1 DEF Restarted
<1>4. CASE Cleared
  <2>1. CASE again
    <3>1. label' = "loaded" /\ again' = FALSE BY <1>4, <2>1 DEF Cleared
    <3>2. QED BY <3>1 DEF Kept
  <2>2. CASE ~again
    <3>1. label' = "none" /\ again' = FALSE /\ label = "leaving" BY <1>4, <2>2 DEF Cleared
    <3>2. Mending BY <1>2, <2>2, <3>1 DEF Kept
    <3>3. Mending' BY <1>3, <3>2 DEF Mending
    <3>4. QED BY <3>1, <3>3 DEF Kept
  <2>3. QED BY <2>1, <2>2
<1>5. CASE ~Cleared
  <2>1. UNCHANGED <<label, again>>
    BY <1>5 DEF Environment, DaemonLocks, DaemonClears, DaemonPublishes, DaemonDies, DaemonStops,
                ForegroundRun, ForegroundTold, Respawn, machine
  <2>2. QED BY <1>2, <1>3, <2>1, KeptBeside
<1>6. QED BY <1>4, <1>5

LEMMA RInvInit == Init => RInv
<1> SUFFICES ASSUME Init PROVE RInv
  OBVIOUS
<1>1. TypeOK /\ Sourced BY TypeInit
<1>2. Verbed /\ ByManager BY DEF Init, Verbed, ByManager, Busy
<1>3. again = FALSE /\ label # "leaving" /\ \A c \in Clients : at[c] = "idle" BY DEF Init
<1>4. Kept BY <1>3 DEF Kept, Restarted
<1>5. QED BY <1>1, <1>2, <1>4 DEF RInv

LEMMA RInvStep == ASSUME RInv, [Next]_vars PROVE RInv'
<1>1. TypeOK' /\ Sourced' /\ Verbed' /\ ByManager'
  BY TypeStep, VerbedStep, ByManagerStep DEF RInv
<1>2. ASSUME Clean' PROVE Kept'
  <2>1. CASE UNCHANGED vars
    <3>1. UNCHANGED <<at, verb, hasUnit, label, again>>
      BY <2>1 DEF vars, serviceVars, machine, plans
    <3>2. Clean /\ Kept BY <1>2, <3>1 DEF RInv, Clean
    <3>3. QED BY <3>1, <3>2 DEF Kept, Mending, Enqueued, Restarted
  <2>2. QED
    BY <1>2, <2>1, KeptService, KeptUpdate, KeptBegins, KeptEnvironment DEF Next, Step
<1>3. QED BY <1>1, <1>2 DEF RInv

\* When all are done, nobody stopped the service, failed or was killed, and somebody
\* was told that the daemon is up, the job is loaded, for any number of terminals and
\* both managers, overlapping updates included (service/launchd.rs, systemd.rs).
THEOREM ReportedUpHolds == Spec => []ReportedUp
<1>1. RInv /\ [Next]_vars => RInv' BY RInvStep
<1>2. RInv => ReportedUp
  <2> SUFFICES ASSUME RInv,
                      \A c \in Clients : at[c] \in {"idle", "ok", "refused"},
                      \A c \in Clients : verb[c] \notin {"stop", "uninstall"},
                      NEW c \in Clients, at[c] = "ok" /\ (verb[c] = "update" => hasUnit[c])
               PROVE  label = "loaded"
    BY DEF ReportedUp
  <2>1. Clean BY DEF Clean
  <2>2. Kept BY <2>1 DEF RInv
  <2>3. ~Mending /\ ~Enqueued /\ Restarted(c) BY DEF Mending, Enqueued, Restarted
  <2>4. label \in {"none", "loaded", "leaving"} BY DEF RInv, TypeOK, ServiceTypeOK
  <2>5. QED BY <2>2, <2>3, <2>4 DEF Kept
<1>3. QED BY <1>1, <1>2, RInvInit, PTL DEF Spec

-----------------------------------------------------------------------------
(***************************************************************************)
(* What an update reports.  From its swap to its end, or to the swap of    *)
(* another, the install path holds its release and nobody writes it any    *)
(* more (Current), so whatever the manager executes is that release.  It gets past the restart   *)
(* only by a job that became loaded after its swap, and a job becomes      *)
(* loaded by an execution.                                                 *)
(***************************************************************************)
Current(u) == at[u] \in ServicePlaces \ Ended => data[binary] = target[u] /\ ~mixed

Executed(u) ==
  hasUnit[u] /\ (at[u] \in {"wait", "stamp", "ok"} \/ (at[u] = "job" /\ label = "loaded"))
    => target[u] \in ran[u]

FreshFor(u) == u \notin overtaken \cup crossed /\ verb[u] = "update" => Current(u) /\ Executed(u)

VInv == IInv /\ RInv /\ \A u \in Updaters : FreshFor(u)

LEMMA InitFresh == Init => VInv
<1> SUFFICES ASSUME Init PROVE VInv
  OBVIOUS
<1>1. \A u \in Updaters : verb[u] = "none" BY UpdatersAssumption DEF Init
<1>2. QED BY <1>1, InitInv, RInvInit DEF VInv, FreshFor

\* The execution that loads a job is seen by every updater that restarts.
Seen ==
  \A u \in Updaters :
    verb[u] = "update" /\ at[u] \in ServicePlaces \ Ended /\ data[binary] \in Versions
      => data[binary] \in ran'[u]

LEMMA ExecuteSeen ==
  ASSUME TypeOK, Execute("service")
  PROVE  Seen
  BY UpdatersAssumption DEF Execute, Seen, TypeOK, ServiceTypeOK

LEMMA ExecuteGrows ==
  ASSUME TypeOK, NEW d \in Daemons, Execute(d)
  PROVE  \A c \in Clients : ran[c] \subseteq ran'[c]
  BY DEF Execute, TypeOK, ServiceTypeOK

\* A step of a verb, and of the manager: what was seen stays seen, and a job that
\* becomes loaded has been executed.
LEMMA ServiceSeen ==
  ASSUME TypeOK, NEW c \in Clients, ServiceStep(c)
  PROVE  /\ \A w \in Clients : ran[w] \subseteq ran'[w]
         /\ label' = "loaded" => label = "loaded" \/ Seen
<1> USE ExecuteSeen, ExecuteGrows DEF Daemons, machine, Leaves, Loads
<1>1. CASE CheckUnit(c) \/ PrintState(c) \/ Settle(c) \/ AwaitJob(c) \/ AwaitUp(c)
  BY <1>1 DEF CheckUnit, PrintState, Settle, AwaitJob, AwaitUp
<1>2. CASE WriteUnit(c) \/ RemoveUnit(c) BY <1>2 DEF WriteUnit, RemoveUnit
<1>3. CASE Bootout(c) BY <1>3 DEF Bootout
<1>4. CASE Bootstrap(c) BY <1>4 DEF Bootstrap
<1>5. CASE Systemctl(c) BY <1>5 DEF Systemctl
<1>6. QED BY <1>1, <1>2, <1>3, <1>4, <1>5 DEF ServiceStep

LEMMA EnvironmentSeen ==
  ASSUME TypeOK, Environment
  PROVE  /\ \A w \in Clients : ran[w] \subseteq ran'[w]
         /\ label' = "loaded" => label = "loaded" \/ Seen
<1> USE ExecuteSeen, ExecuteGrows DEF Daemons, machine
<1>1. CASE ForegroundRun BY <1>1 DEF ForegroundRun
<1>2. CASE Respawn BY <1>2 DEF Respawn
<1>3. CASE Cleared BY <1>3 DEF Cleared
<1>4. CASE ForegroundTold BY <1>4 DEF ForegroundTold
<1>5. ASSUME NEW d \in Daemons,
             DaemonLocks(d) \/ DaemonClears(d) \/ DaemonPublishes(d) \/ DaemonDies(d) \/ DaemonStops(d)
      PROVE  UNCHANGED <<ran, label>>
  BY <1>5 DEF DaemonLocks, DaemonClears, DaemonPublishes, DaemonDies, DaemonStops
<1>6. QED BY <1>1, <1>2, <1>3, <1>4, <1>5 DEF Environment

\* No updater writes the file at the install path before its rename, unless a
\* crossed one put it there.
LEMMA InstalledKept ==
  ASSUME IInv, NEW u \in Updaters, UpdateStep(u), ~Swap(u)
  PROVE  UNCHANGED <<binary, mixed>> /\ (~mixed => data'[binary] = data[binary])
<1>1. UNCHANGED <<binary, mixed>>
  BY DEF UpdateStep, Download, Stream, Verify, Unpack, Copy, Stamp, files
<1>2. ASSUME NEW name \in {Archive(u), Staged(u)}, Create(u, name) PROVE data'[binary] = data[binary]
  <2>1. name \in Names BY OwnNames DEF IInv, FilesOK
  <2>2. QED BY <1>2, <2>1, CreateIsOwn DEF IInv, FilesOK
<1>3. CASE Download(u) BY <1>1, <1>2, <1>3 DEF Download
<1>4. CASE Stream(u)
  <2> SUFFICES ASSUME ~mixed PROVE data'[binary] = data[binary]
    BY <1>1
  <2>1. handle[u] # binary BY <1>4, WriteIsOwn DEF Stream
  <2>2. QED BY <1>4, <2>1 DEF Stream, IInv, FilesOK
<1>5. CASE Verify(u) BY <1>1, <1>5 DEF Verify, files
<1>6. CASE Unpack(u) BY <1>1, <1>2, <1>6 DEF Unpack
<1>7. CASE Copy(u)
  <2> SUFFICES ASSUME ~mixed PROVE data'[binary] = data[binary]
    BY <1>1
  <2>1. handle[u] # binary BY <1>7, WriteIsOwn DEF Copy
  <2>2. QED BY <1>7, <2>1 DEF Copy, IInv, FilesOK
<1>8. CASE Stamp(u) BY <1>1, <1>8 DEF Stamp, files
<1>9. QED BY <1>3, <1>4, <1>5, <1>6, <1>7, <1>8 DEF UpdateStep

\* A step beside the updater, that swaps nothing.
LEMMA FreshBeside ==
  ASSUME VInv, NEW u \in Updaters, FreshFor(u),
         at'[u] = at[u], verb'[u] = verb[u], hasUnit'[u] = hasUnit[u], target'[u] = target[u],
         u \in crossed => u \in crossed',
         UNCHANGED <<overtaken, binary, mixed>>, ~mixed => data'[binary] = data[binary],
         ran[u] \subseteq ran'[u],
         label' = "loaded" => label = "loaded" \/ Seen
  PROVE  FreshFor(u)'
<1> SUFFICES ASSUME u \notin overtaken \cup crossed, verb[u] = "update"
             PROVE  Current(u)' /\ Executed(u)'
  BY DEF FreshFor
<1>1. Current(u) /\ Executed(u) BY DEF FreshFor
<1>2. Current(u)' BY <1>1 DEF Current
<1>3. CASE at[u] = "job" /\ label # "loaded" /\ label' = "loaded"
  <2>1. data[binary] = target[u] BY <1>1, <1>3 DEF Current, ServicePlaces, Ended
  <2>2. target[u] \in Versions BY DEF VInv, IInv, FilesOK
  <2>3. target[u] \in ran'[u] BY <1>3, <2>1, <2>2 DEF Seen, ServicePlaces, Ended
  <2>4. QED BY <1>2, <2>3 DEF Executed
<1>4. CASE ~(at[u] = "job" /\ label # "loaded" /\ label' = "loaded")
  BY <1>1, <1>2, <1>4 DEF Executed
<1>5. QED BY <1>3, <1>4

LEMMA FreshService ==
  ASSUME VInv, NEW c \in Clients, ServiceStep(c), UNCHANGED <<fileVars, plans, overtaken, mixed>>,
         NEW u \in Updaters
  PROVE  FreshFor(u)'
<1> USE UpdatersAssumption
<1>1. TypeOK /\ Verbed /\ FreshFor(u) BY DEF VInv, RInv
<1>2. Moves(c) /\ verb' = verb BY <1>1, ServiceMoves
<1>3. UNCHANGED <<binary, data, target, hasUnit, crossed, overtaken, mixed>>
  BY DEF plans, ServiceStep, CheckUnit, WriteUnit, PrintState, Bootout, Settle, Bootstrap, RemoveUnit,
         Systemctl, AwaitJob, AwaitUp, files
<1>4. ran[u] \subseteq ran'[u] /\ (label' = "loaded" => label = "loaded" \/ Seen)
  BY <1>1, ServiceSeen
<1>5. CASE u # c
  BY <1>1, <1>2, <1>3, <1>4, <1>5, FreshBeside DEF Moves
<1>6. CASE u = c
  <2> SUFFICES ASSUME u \notin overtaken \cup crossed, verb[u] = "update"
               PROVE  Current(u)' /\ Executed(u)'
    BY <1>2, <1>3 DEF FreshFor
  <2>1. at[u] \in ServicePlaces \ Ended
    BY <1>6 DEF ServiceStep, CheckUnit, WriteUnit, PrintState, Bootout, Settle, Bootstrap, RemoveUnit,
                Systemctl, AwaitJob, AwaitUp, ServicePlaces, Ended
  <2>2. data[binary] = target[u] /\ ~mixed /\ Executed(u) BY <1>1, <2>1 DEF FreshFor, Current
  <2>3. Current(u)' BY <1>3, <2>2 DEF Current
  <2>4. at[u] \notin {"write", "print", "bootstrap", "remove"}
    BY <1>1 DEF Verbed, Busy, Ended
  <2>5. ASSUME Loads PROVE target[u] \in ran'[u]
    BY <1>1, <2>1, <2>2, <2>5, ExecuteSeen DEF Loads, Seen, TypeOK
  <2>6. hasUnit[u] /\ (at'[u] \in {"wait", "stamp", "ok"} \/ (at'[u] = "job" /\ label' = "loaded"))
          => target[u] \in ran'[u]
    <3>1. CASE CheckUnit(u) BY <1>1, <3>1, GoesType DEF CheckUnit
    <3>2. CASE WriteUnit(u) \/ PrintState(u) \/ RemoveUnit(u)
      BY <2>4, <3>2 DEF WriteUnit, PrintState, RemoveUnit
    <3>3. CASE Bootout(u) BY <1>1, <3>3, GoesType DEF Bootout
    <3>4. CASE Settle(u) BY <1>1, <3>4, GoesType DEF Settle
    <3>5. CASE Bootstrap(u)
      <4>1. at'[u] = "failed" \/ Loads
        BY <1>1, <2>4, <3>5, GoesType DEF Bootstrap, BootstrapFailed
      <4>2. QED BY <2>5, <4>1
    <3>6. CASE Systemctl(u)
      <4>1. ~Stops(u) /\ ~Starts(u) BY DEF Stops, Starts
      <4>2. at'[u] = "failed" \/ Loads \/ (at'[u] = "job" /\ Leaves)
        BY <1>1, <3>6, <4>1, GoesType DEF Systemctl
      <4>3. Leaves => label' # "loaded" BY DEF Leaves
      <4>4. QED BY <2>5, <4>2, <4>3
    <3>7. CASE AwaitJob(u)
      BY <1>1, <1>4, <2>2, <3>7, GoesType DEF AwaitJob, JobDone, Executed
    <3>8. CASE AwaitUp(u)
      BY <1>1, <1>4, <2>2, <3>8, GoesType DEF AwaitUp, Executed
    <3>9. QED BY <1>6, <3>1, <3>2, <3>3, <3>4, <3>5, <3>6, <3>7, <3>8 DEF ServiceStep
  <2>7. QED BY <1>3, <2>3, <2>6 DEF Executed
<1>7. QED BY <1>5, <1>6

LEMMA FreshUpdate ==
  ASSUME VInv, NEW w \in Updaters, UpdateStep(w), NEW u \in Updaters
  PROVE  FreshFor(u)'
<1> USE UpdatersAssumption
<1>1. TypeOK /\ Verbed /\ FreshFor(u) /\ IInv BY DEF VInv, RInv
<1>2. Moves(w) /\ verb' = verb /\ UNCHANGED <<manager, label, again, target, hasUnit, crossed>>
  BY <1>1, UpdateMoves DEF plans
<1>3. CASE ~Swap(w)
  <2>1. overtaken' = overtaken /\ ran' = ran
    BY <1>3 DEF UpdateStep, Download, Stream, Verify, Unpack, Copy, Stamp
  <2>2. UNCHANGED <<binary, mixed>> /\ (~mixed => data'[binary] = data[binary])
    BY <1>1, <1>3, InstalledKept
  <2>3. CASE u # w
    BY <1>1, <1>2, <2>1, <2>2, <2>3, FreshBeside DEF Moves
  <2>4. CASE u = w
    <3>1. \/ at'[u] \in Busy \cup {"failed"}
          \/ at[u] = "stamp" /\ at'[u] = "ok"
      BY <1>1, <1>3, <2>4, GoesType
         DEF UpdateStep, Download, Stream, Verify, Unpack, Copy, Stamp, Fails, Busy
    <3>2. QED
      BY <1>1, <1>2, <2>1, <3>1 DEF FreshFor, Current, Executed, Busy, ServicePlaces, Ended
  <2>5. QED BY <2>3, <2>4
<1>4. CASE Swap(w)
  <2>1. data' = data BY <1>4 DEF Swap
  <2>2. CASE at'[w] = "failed" /\ UNCHANGED <<binary, ran, overtaken, mixed>>
    <3>1. CASE u # w BY <1>1, <1>2, <2>1, <2>2, <3>1, FreshBeside DEF Moves
    <3>2. CASE u = w BY <2>2, <3>2 DEF FreshFor, Current, Executed, Ended
    <3>3. QED BY <3>1, <3>2
  <2>3. CASE /\ binary' = dir[Staged(w)] /\ Goes(w, After(w)) /\ ran' = [ran EXCEPT ![w] = {}]
             /\ mixed' = (w \in crossed)
             /\ overtaken' = (overtaken \ {w}) \cup {v \in Updaters \ {w} : at[v] \in ServicePlaces \ Ended}
    <3>1. CASE u = w
      <4> SUFFICES ASSUME u \notin crossed PROVE FreshFor(u)'
        BY <1>2 DEF FreshFor
      <4>1. data'[binary'] = target[u] /\ ~mixed'
        BY <1>1, <1>4, <2>1, <2>3, <3>1 DEF IInv, Stage, Swap, Holds
      <4>2. at'[u] \in {"check", "systemctl"} \/ ~hasUnit[u]
        BY <1>1, <2>3, <3>1, GoesType DEF After, Restart
      <4>3. QED BY <1>2, <4>1, <4>2 DEF FreshFor, Current, Executed
    <3>2. CASE u # w
      <4> SUFFICES ASSUME u \notin overtaken' \cup crossed, verb[u] = "update" PROVE Current(u)' /\ Executed(u)'
        BY <1>2 DEF FreshFor
      <4>1. at[u] \notin ServicePlaces \ Ended /\ u \notin overtaken
        BY <2>3, <3>2
      <4>2. at'[u] = at[u] /\ ran'[u] = ran[u]
        BY <1>1, <1>2, <2>3, <3>2 DEF Moves, TypeOK, ServiceTypeOK
      <4>3. Executed(u) BY <1>1, <4>1 DEF FreshFor
      <4>4. QED BY <1>2, <4>1, <4>2, <4>3 DEF Current, Executed
    <3>3. QED BY <3>1, <3>2
  <2>4. QED BY <1>1, <1>4, <2>2, <2>3, GoesType DEF Swap, Fails
<1>5. QED BY <1>3, <1>4

LEMMA FreshBegins ==
  ASSUME VInv, NEW u \in Updaters,
         \/ \E w \in Updaters : Plan(w)
         \/ \E c \in Clients : Kill(c)
         \/ (\E c \in Clients, v \in Verbs : Begin(c, v)) /\ UNCHANGED <<fileVars, plans, overtaken, mixed>>
  PROVE  FreshFor(u)'
<1> USE UpdatersAssumption
<1>1. TypeOK /\ FreshFor(u) BY DEF VInv, RInv
<1>2. UNCHANGED <<label, binary, data, ran, overtaken, mixed>>
  BY DEF Plan, Kill, Begin, machine, files
<1>3. ASSUME NEW w \in Updaters, Plan(w) PROVE FreshFor(u)'
  <2>1. CASE u # w
    <3>1. /\ hasUnit'[u] = hasUnit[u] /\ target'[u] = target[u]
          /\ u \in crossed => u \in crossed'
      BY <1>1, <1>3, <2>1 DEF Plan, TypeOK, plans
    <3>2. QED BY <1>1, <1>2, <1>3, <2>1, <3>1, PlanMoves, FreshBeside DEF Moves
  <2>2. CASE u = w
    <3>1. at'[u] \in {"refused", "download"} BY <1>1, <1>3, <2>2, GoesType DEF Plan
    <3>2. QED BY <3>1 DEF FreshFor, Current, Executed, ServicePlaces, Ended
  <2>3. QED BY <2>1, <2>2
<1>4. ASSUME NEW c \in Clients, Kill(c) PROVE FreshFor(u)'
  <2>1. UNCHANGED <<verb, target, hasUnit, crossed>> BY <1>4 DEF Kill, plans
  <2>2. CASE u # c
    BY <1>1, <1>2, <1>4, <2>1, <2>2, KillMoves, FreshBeside DEF Moves
  <2>3. CASE u = c
    <3>1. at'[u] = "killed" BY <1>1, <1>4, <2>3, GoesType DEF Kill
    <3>2. QED BY <3>1 DEF FreshFor, Current, Executed, Ended
  <2>4. QED BY <2>2, <2>3
<1>5. ASSUME NEW c \in Clients, NEW v \in Verbs, Begin(c, v), UNCHANGED <<fileVars, plans, overtaken, mixed>>
      PROVE  FreshFor(u)'
  <2>1. CASE u # c
    BY <1>1, <1>2, <1>5, <2>1, BeginMoves, FreshBeside DEF Moves, plans
  <2>2. CASE u = c
    <3>1. verb'[u] = v BY <1>1, <1>5, <2>2 DEF Begin, TypeOK
    <3>2. QED BY <3>1 DEF FreshFor, Verbs
  <2>3. QED BY <2>1, <2>2
<1>6. QED BY <1>3, <1>4, <1>5

LEMMA FreshEnvironment ==
  ASSUME VInv, NEW u \in Updaters, Environment, UNCHANGED <<fileVars, plans, overtaken, mixed>>
  PROVE  FreshFor(u)'
<1>1. TypeOK /\ FreshFor(u) BY DEF VInv, RInv
<1>2. UNCHANGED <<at, verb, binary, data, plans>>
  BY DEF Environment, DaemonLocks, DaemonClears, DaemonPublishes, DaemonDies, DaemonStops,
         ForegroundRun, ForegroundTold, Respawn, Cleared, files
<1>3. QED BY <1>1, <1>2, EnvironmentSeen, FreshBeside, UpdatersAssumption DEF plans

\* An update that reports its version, at whose work no other one of that version
\* was and whose binary nobody replaced since its swap, has had the manager execute
\* that binary: neither a process from before the swap nor the document it left is
\* taken for it (self_update/mod.rs, restart and poll).
THEOREM VerifiedFreshHolds == Spec => []VerifiedFresh
<1>1. VInv /\ [Next]_vars => VInv'
  <2> SUFFICES ASSUME VInv, [Next]_vars PROVE VInv'
    OBVIOUS
  <2>1. IInv' BY NextInv DEF VInv
  <2>2. RInv' BY RInvStep DEF VInv
  <2>3. ASSUME NEW u \in Updaters PROVE FreshFor(u)'
    <3>1. CASE UNCHANGED vars
      BY <3>1 DEF vars, serviceVars, machine, files, fileVars, plans, VInv, FreshFor, Current, Executed
    <3>2. QED
      BY <3>1, FreshService, FreshUpdate, FreshBegins, FreshEnvironment DEF Next, Step
  <2>4. QED BY <2>1, <2>2, <2>3 DEF VInv
<1>2. VInv => VerifiedFresh BY DEF VInv, FreshFor, Executed, VerifiedFresh
<1>3. QED BY <1>1, <1>2, InitFresh, PTL DEF Spec
=============================================================================
