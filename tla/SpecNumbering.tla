--------------------------- MODULE SpecNumbering ---------------------------
(***************************************************************************)
(* How a new spec gets its number and its directory: "spec new"            *)
(* (cmd/spec/new.go) and Campaign.NewSpec (agentspec/campaign.go), by      *)
(* several processes under one root, while finished specs are moved to     *)
(* the archive.  A directory is a pair <<number, name>>; Loose holds the   *)
(* names, such as "foo_", that the name patterns of both accept and        *)
(* IsSpecDirName does not.                                                 *)
(***************************************************************************)
EXTENDS Integers, FiniteSets, Functions

CONSTANTS Nil,
          Procs,
          Names, Loose,   \* the names asked for, and which of them are loose
          Settings

(***************************************************************************)
(* A setting says who creates specs, "cli" for spec new and "library" for  *)
(* NewSpec, whether specs are archived, and whether a process starts only  *)
(* when no other one is at work.                                           *)
(***************************************************************************)
Setting == [kinds : SUBSET {"cli", "library"}, archiving : BOOLEAN, alone : BOOLEAN]

ASSUME NumberingAssumption ==
  /\ Loose \subseteq Names /\ Settings \subseteq Setting
  /\ Nil \notin Procs /\ Nil \notin Nat \X Names

VARIABLES setting,
          active,     \* the spec directories under the root
          archive,    \* those under archive/
          campaign,   \* campaign.yaml: Nil, "dated", or "undated" (no created_at)
          pc, kind, name,
          largest,    \* maxPrefix of each process
          dir         \* the directory it made

vars == <<setting, active, archive, campaign, pc, kind, name, largest, dir>>

\* A directory holds the process whose prd.md is in it, and whether there is a _session.json.
Entry == [prd : Procs \cup {Nil}, session : BOOLEAN]

IsSpecDirName(d) == d[2] \notin Loose

Init ==
  /\ setting \in Settings
  /\ active = <<>> /\ archive = <<>>
  /\ campaign \in {Nil, "dated"}
  /\ pc = [p \in Procs |-> "start"]
  /\ kind \in [Procs -> setting.kinds] /\ name \in [Procs -> Names]
  /\ largest = [p \in Procs |-> 0] /\ dir = [p \in Procs |-> Nil]

Ended == {"start", "done", "failed"}

Step(p, from, to) == pc[p] = from /\ pc' = [pc EXCEPT ![p] = to]

GiveUp(p, from) ==
  Step(p, from, "failed") /\ UNCHANGED <<setting, active, archive, campaign, kind, name, largest, dir>>

\* A directory is put there or changed; it is removed.
Put(dirs, d, entry) == [e \in DOMAIN dirs \cup {d} |-> IF e = d THEN entry ELSE dirs[e]]
Without(dirs, d) == [e \in DOMAIN dirs \ {d} |-> dirs[e]]

-----------------------------------------------------------------------------
(***************************************************************************)
(* The beginning: spec new writes a campaign.yaml when there is none; the  *)
(* library opens the campaign, which needs created_at, or creates it.      *)
(***************************************************************************)
Begin(p) ==
  /\ setting.alone => \A q \in Procs : pc[q] \in Ended
  /\ IF kind[p] = "cli"
     THEN Step(p, "start", "active") /\ campaign' = (IF campaign = Nil THEN "undated" ELSE campaign)
     ELSE IF campaign = "undated"
     THEN Step(p, "start", "failed") /\ UNCHANGED campaign
     ELSE Step(p, "start", "active") /\ campaign' = "dated"
  /\ UNCHANGED <<setting, active, archive, kind, name, largest, dir>>

-----------------------------------------------------------------------------
(***************************************************************************)
(* The scans.  nextSpecPrefix takes every directory N_...; NewSpec those   *)
(* that IsSpecDirName accepts, first under the root, then in archive/.     *)
(***************************************************************************)
Numbers(dirs) == {d[1] : d \in dirs}

\* Variant: with no directory there is no number.
LargestOrNone(n, numbers) ==
  IF numbers = {} THEN 0 - 1 ELSE CHOOSE m \in numbers \cup {n} : \A k \in numbers \cup {n} : k <= m

Largest(n, numbers) == CHOOSE m \in numbers \cup {n} : \A k \in numbers \cup {n} : k <= m

Counted(p, dirs) == IF kind[p] = "cli" THEN dirs ELSE {d \in dirs : IsSpecDirName(d)}

\* Variant: a scan forgets what the one before has found.
ScanAfresh(p, dirs) == largest' = [largest EXCEPT ![p] = Largest(0, Numbers(Counted(p, dirs)))]

Scan(p, dirs) ==
  largest' = [largest EXCEPT ![p] = Largest(@, Numbers(Counted(p, dirs)))]

ScanActive(p) ==
  /\ Step(p, "active", IF kind[p] = "cli" THEN "mkdir" ELSE "archive")
  /\ Scan(p, DOMAIN active)
  /\ UNCHANGED <<setting, active, archive, campaign, kind, name, dir>>

ScanArchive(p) ==
  /\ Step(p, "archive", "mkdir")
  /\ Scan(p, DOMAIN archive)
  /\ UNCHANGED <<setting, active, archive, campaign, kind, name, dir>>

-----------------------------------------------------------------------------
(***************************************************************************)
(* The directory.  Mkdir of spec new fails when it is there, MkdirAll of   *)
(* the library does not; spec new refuses a loose name before.             *)
(***************************************************************************)
New(p) == <<largest[p] + 1, name[p]>>

\* Variant: spec new uses MkdirAll too.
MkdirAll(p) ==
  /\ Step(p, "mkdir", "prd")
  /\ active' = IF New(p) \in DOMAIN active THEN active
               ELSE Put(active, New(p), [prd |-> Nil, session |-> FALSE])
  /\ dir' = [dir EXCEPT ![p] = New(p)]
  /\ UNCHANGED <<setting, archive, campaign, kind, name, largest>>

Mkdir(p) ==
  IF kind[p] = "cli" /\ (~IsSpecDirName(New(p)) \/ New(p) \in DOMAIN active)
  THEN GiveUp(p, "mkdir")
  ELSE /\ Step(p, "mkdir", "prd")
       /\ active' = IF New(p) \in DOMAIN active THEN active
                    ELSE Put(active, New(p), [prd |-> Nil, session |-> FALSE])
       /\ dir' = [dir EXCEPT ![p] = New(p)]
       /\ UNCHANGED <<setting, archive, campaign, kind, name, largest>>

There(p) == dir[p] \in DOMAIN active

\* Save of spec new and WriteFile of the library: with the directory gone both fail.
WritePRD(p) ==
  /\ There(p)
  /\ Step(p, "prd", "session")
  /\ active' = Put(active, dir[p], [active[dir[p]] EXCEPT !.prd = p])
  /\ UNCHANGED <<setting, archive, campaign, kind, name, largest, dir>>

\* CreateSession, or the session file of spec new: an existing one is written over.
WriteSession(p) ==
  /\ There(p)
  /\ Step(p, "session", "done")
  /\ active' = Put(active, dir[p], [active[dir[p]] EXCEPT !.session = TRUE])
  /\ UNCHANGED <<setting, archive, campaign, kind, name, largest, dir>>

(***************************************************************************)
(* A read or a write fails: spec new removes the directory of its name,    *)
(* the library leaves it "for manual recovery".                            *)
(***************************************************************************)
Broken(p) ==
  /\ \E from \in {"prd", "session"} : Step(p, from, "failed")
  /\ active' = IF kind[p] = "cli" THEN Without(active, dir[p]) ELSE active
  /\ UNCHANGED <<setting, archive, campaign, kind, name, largest, dir>>

\* A spec loads when spec new has saved it, or once the library's session made the artifacts.
Loads(entry) == entry.prd # Nil /\ (kind[entry.prd] = "cli" \/ entry.session)

MoveToArchive ==
  /\ setting.archiving
  /\ \E d \in DOMAIN active :
       /\ IsSpecDirName(d) /\ Loads(active[d]) /\ d \notin DOMAIN archive
       /\ archive' = Put(archive, d, active[d])
       /\ active' = Without(active, d)
  /\ UNCHANGED <<setting, campaign, pc, kind, name, largest, dir>>

-----------------------------------------------------------------------------
NewSpec(p) ==
  \/ Begin(p) \/ ScanActive(p) \/ ScanArchive(p)
  \/ Mkdir(p) \/ WritePRD(p) \/ WriteSession(p) \/ Broken(p)

Create == \E p \in Procs : NewSpec(p)

Next == Create \/ MoveToArchive

Spec == Init /\ [][Next]_vars

-----------------------------------------------------------------------------
(***************************************************************************)
(* Properties.                                                             *)
(***************************************************************************)
Places == Ended \cup {"active", "archive", "mkdir", "prd", "session"}

Dir == Nat \X Names

\* Types: a directory belongs to a process or to nobody yet.
TypeOK ==
  /\ setting \in Setting
  /\ \A dirs \in {active, archive} :
       /\ DOMAIN dirs \subseteq Dir
       /\ \A d \in DOMAIN dirs : dirs[d] \in Entry
  /\ campaign \in {Nil, "dated", "undated"}
  /\ pc \in [Procs -> Places] /\ kind \in [Procs -> {"cli", "library"}] /\ name \in [Procs -> Names]
  /\ largest \in [Procs -> Nat] /\ dir \in [Procs -> Dir \cup {Nil}]

AllDirs == DOMAIN active \cup DOMAIN archive

(***************************************************************************)
(* No two specs have one number, archived ones included, as long as one    *)
(* process creates at a time and, where specs are archived, it is the      *)
(* library: a spec moved to the archive between its two scans is seen by   *)
(* one of them at least.                                                   *)
(***************************************************************************)
NumbersStayUsed ==
  setting.alone /\ (setting.archiving => "cli" \notin setting.kinds) =>
    /\ \A d, e \in AllDirs : IsSpecDirName(d) /\ IsSpecDirName(e) /\ d[1] = e[1] => d = e
    /\ \A d \in DOMAIN active \cap DOMAIN archive : ~IsSpecDirName(d)

(***************************************************************************)
(* A spec that was created stays what it is: the directory of a process    *)
(* that is done holds its prd.md and a session, active or archived.  That  *)
(* holds for one process at a time, and for spec new also for several, of  *)
(* one name even: the rollback of one never takes the spec of another.     *)
(***************************************************************************)
FinishedIsKept ==
  setting.alone \/ (setting.kinds = {"cli"} /\ ~setting.archiving) =>
    \A p \in Procs : pc[p] = "done" /\ IsSpecDirName(dir[p]) =>
      \E dirs \in {active, archive} : /\ dir[p] \in DOMAIN dirs
                                      /\ dirs[dir[p]] = [prd |-> p, session |-> TRUE]

(***************************************************************************)
(* docs/prds/prd1.md: "spec new now also check the archive to avoid prefix *)
(* reuse".                                                                 *)
(***************************************************************************)
ArchivedNumbersAreNotReused ==
  setting.alone => \A d \in DOMAIN active, e \in DOMAIN archive : d[1] # e[1]
=============================================================================
