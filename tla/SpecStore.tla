----------------------------- MODULE SpecStore -----------------------------
(***************************************************************************)
(* The afspec library on one specification directory: LoadSpec, edits of   *)
(* the loaded value, Save, Transition, Supersede and MoveToArchive, at the *)
(* grain of one file system call per step.  A save writes every artifact   *)
(* to a temporary file and then renames them one by one, so a crash or an  *)
(* I/O error can fall between any two of them.                             *)
(*                                                                         *)
(* Clients are goroutines or processes using the library (each command of  *)
(* cmd/spec is one).  doc.go leaves synchronisation to them, and the API   *)
(* leaves more to their discipline; Habits is the set of liberties they    *)
(* take, {} being callers that                                             *)
(*   - hold a lock from LoadSpec to the last use of the handle,            *)
(*   - go on with the value Transition returns, not with its receiver,     *)
(*   - drop the handle when a save fails,                                  *)
(*   - save their edits before they call Transition or Supersede,          *)
(*   - never assign the Status field,                                      *)
(*   - reach superseded and archived by Supersede and MoveToArchive.       *)
(***************************************************************************)
EXTENDS Integers, Sequences

CONSTANTS Client,
          Ident,      \* values of (spec_id, spec_name, created_at)
          Intent,     \* trimmed texts of the "## Intent" section
          Criterion,  \* requirement ids that tests can cover
          Content,    \* contents of tasks.json and architecture.md
          Nil,
          Habits,
          MaxEdits,   \* bound on the edits of a behaviour
          MaxFaults   \* bound on its crashes and I/O errors

AllHabits == {"unlocked", "keep_receiver", "use_after_error",
              "transition_dirty", "edit_status", "raw_transition"}

ASSUME StoreAssumption ==
  /\ Habits \subseteq AllHabits
  /\ MaxEdits \in Nat /\ MaxFaults \in Nat

\* prd.md, requirements.json, test_spec.json, tasks.json and the optional
\* architecture.md, in the order in which they are read and renamed.
FileOrder == <<"prd", "requirements", "test_spec", "tasks", "architecture">>
File == {"prd", "requirements", "test_spec", "tasks", "architecture"}

Status == {"draft", "active", "sealed", "superseded", "archived"}

\* The status values on which the public Save is refused.
Frozen == {"sealed", "superseded", "archived"}

(***************************************************************************)
(* Contents                                                                *)
(***************************************************************************)
\* Variant: the text is stored for its hash.
IntentUnhashed(intent) == intent

\* sha256 of the trimmed Intent section: injective, and not the text.
ComputeIntentHash(intent) == IF intent = Nil THEN Nil ELSE <<"sha256", intent>>

Prd == [status: Status, ident: Ident, intent: Intent \cup {Nil},
        hash: {<<"sha256", t>> : t \in Intent} \cup {Nil}, banner: BOOLEAN]

\* requirements.json is the set of its criteria, test_spec.json the set of
\* criteria its tests name together with the computed coverage section.
TestSpec == [tests: SUBSET Criterion,
             covered: SUBSET Criterion, gaps: SUBSET Criterion]

ComputeCoverageStruct(tests, req) ==
  [tests |-> tests, covered |-> req \cap tests, gaps |-> req \ tests]

\* A loaded Spec value, and a complete directory.  Nil for architecture is an
\* absent file, or Architecture = "".
Package == [prd: Prd, requirements: SUBSET Criterion, test_spec: TestSpec,
            tasks: Content, architecture: Content \cup {Nil}]

\* The files beside prd.md.
Artifacts == [requirements: SUBSET Criterion, test_spec: TestSpec,
              tasks: Content, architecture: Content \cup {Nil}]

\* Nil is the absence of a value, not one of them.
ASSUME NilAssumption ==
  /\ Nil \notin Ident /\ Nil \notin Intent /\ Nil \notin Content
  /\ Nil \notin Client /\ Nil \notin Package /\ Nil \notin Prd
  /\ \A t \in Intent : Nil # <<"sha256", t>>

\* A package of which some files have not been read.
PartPackage == [prd: Prd \cup {Nil}, requirements: (SUBSET Criterion) \cup {Nil},
                test_spec: TestSpec \cup {Nil}, tasks: Content \cup {Nil},
                architecture: Content \cup {Nil}]

NoBuf == [prd |-> Nil, requirements |-> Nil, test_spec |-> Nil, tasks |-> Nil,
          architecture |-> Nil]

\* Variant: architecture.md is forgotten.
FourFiles(p) == 4

\* Architecture is only written when it is not empty.
FileCount(p) == IF p.architecture = Nil THEN 4 ELSE 5

(***************************************************************************)
(* State                                                                   *)
(***************************************************************************)
VARIABLES
  files,      \* the spec directory: its complete artifact files
  place,      \* "specs" or "archive": where the directory is
  destTaken,  \* archive/ already has a directory of that name
  temps,      \* temporary files in it: <<client, artifact>>
  lock,       \* the callers' lock: its holder or Nil
  pc,         \* what each client is doing
  op,         \* the operation it is doing it for
  at,         \* the file it is at, an index into FileOrder
  mem,        \* its handle, or Nil
  loaded,     \* the handle's immutableSnapshot, or Nil
  dirty,      \* does the handle hold edits no save has written
  buf,        \* the value being read or written, Nil outside an operation
  torn,       \* a save was cut short after a rename, no Save completed since
  crashed,    \* clients that were killed at least once
  edits, faults

disk == <<files, place, destTaken, temps, torn>>
handle == <<mem, loaded, dirty>>
work == <<pc, op, at, buf>>
vars == <<disk, lock, handle, work, crashed, edits, faults>>

TypeOK ==
  /\ files \in Package
  /\ place \in {"specs", "archive"}
  /\ destTaken \in BOOLEAN
  /\ temps \subseteq Client \X File
  /\ lock \in Client \cup {Nil}
  /\ pc \in [Client -> {"idle", "read", "write", "rename", "check", "move"}]
  /\ op \in [Client -> {"none", "load", "save", "transition", "archive"}]
  /\ at \in [Client -> 1..6]
  /\ mem \in [Client -> Package \cup {Nil}]
  /\ loaded \in [Client -> Ident \cup {Nil}]
  /\ dirty \in [Client -> BOOLEAN]
  /\ buf \in [Client -> PartPackage]
  /\ torn \in BOOLEAN
  /\ crashed \subseteq Client
  /\ edits \in 0..MaxEdits
  /\ faults \in 0..MaxFaults

\* A directory as "spec new" leaves it: a saved draft scaffold with the user's
\* PRD text as its body.
Scaffold(ident, intent, tasks) ==
  [prd |-> [status |-> "draft", ident |-> ident, intent |-> intent,
            hash |-> Nil, banner |-> FALSE],
   requirements |-> {},
   test_spec |-> ComputeCoverageStruct({}, {}),
   tasks |-> tasks,
   architecture |-> Nil]

Init ==
  /\ \E i \in Ident, t \in Intent \cup {Nil}, k \in Content :
       files = Scaffold(i, t, k)
  /\ place = "specs"
  /\ destTaken \in BOOLEAN
  /\ temps = {}
  /\ torn = FALSE
  /\ lock = Nil
  /\ pc = [c \in Client |-> "idle"]
  /\ op = [c \in Client |-> "none"]
  /\ at = [c \in Client |-> 1]
  /\ mem = [c \in Client |-> Nil]
  /\ loaded = [c \in Client |-> Nil]
  /\ dirty = [c \in Client |-> FALSE]
  /\ buf = [c \in Client |-> NoBuf]
  /\ crashed = {}
  /\ edits = 0
  /\ faults = 0

-----------------------------------------------------------------------------
(***************************************************************************)
(* The end of an operation                                                 *)
(***************************************************************************)
Unlock(c) == lock' = IF lock = c THEN Nil ELSE lock

\* c's operation is over and it goes on with the handle it has.
Return(c) ==
  /\ pc' = [pc EXCEPT ![c] = "idle"]
  /\ op' = [op EXCEPT ![c] = "none"]
  /\ at' = [at EXCEPT ![c] = 1]
  /\ buf' = [buf EXCEPT ![c] = NoBuf]

\* c's operation is over, it drops its handle and gives up the lock.
Drop(c) ==
  /\ Return(c)
  /\ mem' = [mem EXCEPT ![c] = Nil]
  /\ loaded' = [loaded EXCEPT ![c] = Nil]
  /\ dirty' = [dirty EXCEPT ![c] = FALSE]
  /\ Unlock(c)

Holds(c) == pc[c] = "idle" /\ mem[c] # Nil

(***************************************************************************)
(* LoadSpec                                                                *)
(***************************************************************************)
\* LoadSpec on behalf of a caller (o = "load") or of MoveToArchive.
BeginRead(c, o) ==
  /\ pc[c] = "idle" /\ mem[c] = Nil
  /\ place = "specs"
  /\ IF "unlocked" \in Habits THEN UNCHANGED lock
                              ELSE lock = Nil /\ lock' = c
  /\ pc' = [pc EXCEPT ![c] = "read"]
  /\ op' = [op EXCEPT ![c] = o]
  /\ UNCHANGED <<disk, handle, at, buf, crashed, edits, faults>>

BeginLoad(c) == BeginRead(c, "load")

\* An architecture.md that cannot be read, or has gone, counts as absent.
ReadFile(c) ==
  /\ pc[c] = "read" /\ at[c] <= 5
  /\ LET f == FileOrder[at[c]]
     IN \/ place = "specs" /\ buf' = [buf EXCEPT ![c][f] = files[f]]
        \/ f = "architecture" /\ buf' = [buf EXCEPT ![c][f] = Nil]
  /\ at' = [at EXCEPT ![c] = @ + 1]
  /\ UNCHANGED <<disk, lock, handle, pc, op, crashed, edits, faults>>

LoadReturn(c) ==
  /\ pc[c] = "read" /\ op[c] = "load" /\ at[c] = 6
  /\ mem' = [mem EXCEPT ![c] = buf[c]]
  /\ loaded' = [loaded EXCEPT ![c] =
                  IF buf[c].prd.status = "active" THEN buf[c].prd.ident ELSE Nil]
  /\ dirty' = [dirty EXCEPT ![c] = FALSE]
  /\ Return(c)
  /\ UNCHANGED <<disk, lock, crashed, edits, faults>>

\* A read of a required file fails, or the directory has gone.
LoadFails(c) ==
  /\ pc[c] = "read" /\ at[c] <= 4
  /\ \/ place # "specs" /\ UNCHANGED faults
     \/ faults < MaxFaults /\ faults' = faults + 1
  /\ Drop(c)
  /\ UNCHANGED <<disk, crashed, edits>>

(***************************************************************************)
(* What a caller does with its handle                                      *)
(***************************************************************************)
EditWith(c, value) ==
  /\ Holds(c)
  /\ edits < MaxEdits
  /\ value # mem[c]
  /\ mem' = [mem EXCEPT ![c] = value]
  /\ dirty' = [dirty EXCEPT ![c] = TRUE]
  /\ edits' = edits + 1
  /\ UNCHANGED <<disk, lock, loaded, work, crashed, faults>>

EditPrd(c) ==
  /\ Holds(c)
  /\ \/ \E i \in Ident : EditWith(c, [mem[c] EXCEPT !.prd.ident = i])
     \/ \E t \in Intent \cup {Nil} :
          EditWith(c, [mem[c] EXCEPT !.prd.intent = t])
     \/ /\ "edit_status" \in Habits
        /\ \E s \in Status : EditWith(c, [mem[c] EXCEPT !.prd.status = s])

EditArtifacts(c) ==
  /\ Holds(c)
  /\ \/ \E r \in SUBSET Criterion :
          EditWith(c, [mem[c] EXCEPT !.requirements = r])
     \/ \E t \in SUBSET Criterion :
          EditWith(c, [mem[c] EXCEPT !.test_spec.tests = t])
     \/ \E k \in Content : EditWith(c, [mem[c] EXCEPT !.tasks = k])
     \/ \E k \in Content \cup {Nil} :
          EditWith(c, [mem[c] EXCEPT !.architecture = k])

Release(c) ==
  /\ Holds(c)
  /\ Drop(c)
  /\ UNCHANGED <<disk, crashed, edits, faults>>

(***************************************************************************)
(* Save, Transition and Supersede: the guards, and the value to write      *)
(***************************************************************************)
\* Variant: an active spec may be archived without being sealed.
TransitionsUnsealed ==
  [draft |-> {"active", "archived"}, active |-> {"sealed", "archived"},
   sealed |-> {"superseded", "archived"}, superseded |-> {"archived"},
   archived |-> {}]

Transitions ==
  [draft |-> {"active", "archived"}, active |-> {"sealed"},
   sealed |-> {"superseded", "archived"}, superseded |-> {"archived"},
   archived |-> {}]

ValidTransition(current, target) == target \in Transitions[current]

\* Variant: Save does not look for drift of the Intent section.
CanSaveDrifted(value, snapshot) ==
  /\ value.prd.status \notin Frozen
  /\ value.prd.status = "active" /\ snapshot # Nil => value.prd.ident = snapshot

\* Variant: Save does not look at the status.
CanSaveFrozen(value, snapshot) ==
  /\ value.prd.status = "active" /\ snapshot # Nil => value.prd.ident = snapshot
  /\ value.prd.status = "active" /\ value.prd.hash # Nil =>
       ComputeIntentHash(value.prd.intent) = value.prd.hash

\* The public Save refuses frozen specs, and on an active one a changed
\* identity or a changed Intent section.
CanSave(value, snapshot) ==
  /\ value.prd.status \notin Frozen
  /\ value.prd.status = "active" /\ snapshot # Nil => value.prd.ident = snapshot
  /\ value.prd.status = "active" /\ value.prd.hash # Nil =>
       ComputeIntentHash(value.prd.intent) = value.prd.hash

\* Variant: the authored coverage section is kept.
AsAuthored(value) == value

WithCoverage(value) ==
  [value EXCEPT !.test_spec = ComputeCoverageStruct(@.tests, value.requirements)]

\* Transition refuses to activate a body without an Intent section.
CanTransition(value, target) ==
  /\ ValidTransition(value.prd.status, target)
  /\ target = "active" => value.prd.intent # Nil

Transitioned(value, target) ==
  [value EXCEPT !.prd.status = target,
                !.prd.hash = IF target = "active"
                             THEN ComputeIntentHash(value.prd.intent) ELSE @]

\* Variant: the banner is forgotten.
SupersededPlain(value) == [value EXCEPT !.prd.status = "superseded"]

Superseded(value) ==
  [value EXCEPT !.prd.status = "superseded", !.prd.banner = TRUE]

\* c enters saveToDisk for operation o.
BeginWrite(c, o, value) ==
  /\ pc' = [pc EXCEPT ![c] = "write"]
  /\ op' = [op EXCEPT ![c] = o]
  /\ at' = [at EXCEPT ![c] = 1]
  /\ buf' = [buf EXCEPT ![c] = value]

\* Save writes the recomputed coverage into the receiver too.
BeginSave(c) ==
  /\ Holds(c)
  /\ CanSave(mem[c], loaded[c])
  /\ BeginWrite(c, "save", WithCoverage(mem[c]))
  /\ mem' = [mem EXCEPT ![c] = WithCoverage(@)]
  /\ UNCHANGED <<disk, lock, loaded, dirty, crashed, edits, faults>>

MayTransition(c) ==
  Holds(c) /\ (dirty[c] => "transition_dirty" \in Habits)

BeginTransition(c) ==
  /\ MayTransition(c)
  /\ \E target \in Status :
       /\ "raw_transition" \in Habits \/ target \in {"active", "sealed"}
       /\ CanTransition(mem[c], target)
       /\ BeginWrite(c, "transition", Transitioned(mem[c], target))
  /\ UNCHANGED <<disk, lock, handle, crashed, edits, faults>>

BeginSupersede(c) ==
  /\ MayTransition(c)
  /\ mem[c].prd.status = "sealed"
  /\ BeginWrite(c, "transition", Superseded(mem[c]))
  /\ UNCHANGED <<disk, lock, handle, crashed, edits, faults>>

(***************************************************************************)
(* saveToDisk: every file to a temporary one, then the renames in order    *)
(***************************************************************************)
WriteTemp(c) ==
  /\ pc[c] = "write"
  /\ place = "specs"
  /\ temps' = temps \cup {<<c, FileOrder[at[c]]>>}
  /\ IF at[c] = FileCount(buf[c])
     THEN /\ pc' = [pc EXCEPT ![c] = "rename"]
          /\ at' = [at EXCEPT ![c] = 1]
     ELSE /\ at' = [at EXCEPT ![c] = @ + 1]
          /\ UNCHANGED pc
  /\ UNCHANGED <<files, place, destTaken, torn, lock, handle, op, buf, crashed,
                 edits, faults>>

RenameTemp(c) ==
  /\ pc[c] = "rename" /\ at[c] <= FileCount(buf[c])
  /\ place = "specs"
  /\ LET f == FileOrder[at[c]]
     IN /\ files' = [files EXCEPT ![f] = buf[c][f]]
        /\ temps' = temps \ {<<c, f>>}
  /\ at' = [at EXCEPT ![c] = @ + 1]
  /\ UNCHANGED <<place, destTaken, torn, lock, handle, pc, op, buf, crashed,
                 edits, faults>>

Written(c, o) == pc[c] = "rename" /\ op[c] = o /\ at[c] = FileCount(buf[c]) + 1

SaveReturn(c) ==
  /\ Written(c, "save")
  /\ torn' = FALSE
  /\ dirty' = [dirty EXCEPT ![c] = FALSE]
  /\ Return(c)
  /\ UNCHANGED <<files, place, destTaken, temps, lock, mem, loaded, crashed,
                 edits, faults>>

\* The caller goes on with the returned Spec, which activation gave a snapshot.
TransitionReturn(c) ==
  /\ Written(c, "transition")
  /\ \/ /\ mem' = [mem EXCEPT ![c] = buf[c]]
        /\ loaded' = [loaded EXCEPT ![c] =
             IF buf[c].prd.status = "active" THEN buf[c].prd.ident ELSE @]
        /\ dirty' = [dirty EXCEPT ![c] = FALSE]
     \/ "keep_receiver" \in Habits /\ UNCHANGED handle
  /\ Return(c)
  /\ UNCHANGED <<disk, lock, crashed, edits, faults>>

\* The save at c cannot finish once it is here.
TearsAt(c) == pc[c] = "rename" /\ at[c] \in 2..FileCount(buf[c])

\* Variant: a failed save leaves its temporary files.
SaveFailsUncleaned(c) ==
  /\ pc[c] \in {"write", "rename"} /\ at[c] <= FileCount(buf[c])
  /\ faults < MaxFaults /\ faults' = faults + 1
  /\ torn' = (torn \/ TearsAt(c))
  /\ Drop(c)
  /\ UNCHANGED <<files, place, destTaken, temps, crashed, edits>>

\* The directory has gone, or a write or rename returns an error: the deferred
\* cleanup removes the temporary files it can still find.
SaveFails(c) ==
  /\ \/ pc[c] = "write"
     \/ pc[c] = "rename" /\ at[c] <= FileCount(buf[c])
  /\ \/ place # "specs" /\ UNCHANGED <<temps, faults>>
     \/ /\ faults < MaxFaults /\ faults' = faults + 1
        /\ place = "specs"
        /\ temps' = temps \ ({c} \X File)
  /\ torn' = (torn \/ TearsAt(c))
  /\ IF "use_after_error" \in Habits /\ op[c] # "archive"
     THEN Return(c) /\ UNCHANGED <<handle, lock>>
     ELSE Drop(c)
  /\ UNCHANGED <<files, place, destTaken, crashed, edits>>

(***************************************************************************)
(* MoveToArchive                                                           *)
(***************************************************************************)
BeginArchive(c) == BeginRead(c, "archive")

\* Variant: MoveToArchive always makes the transition.
ArchiveLoadedAlways(c) ==
  /\ pc[c] = "read" /\ op[c] = "archive" /\ at[c] = 6
  /\ IF CanTransition(buf[c], "archived")
     THEN /\ BeginWrite(c, "archive", Transitioned(buf[c], "archived"))
          /\ UNCHANGED <<lock, handle>>
     ELSE Drop(c)
  /\ UNCHANGED <<disk, crashed, edits, faults>>

\* A spec an earlier attempt has left archived in place is only moved.
ArchiveLoaded(c) ==
  /\ pc[c] = "read" /\ op[c] = "archive" /\ at[c] = 6
  /\ LET status == buf[c].prd.status
     IN \/ /\ status = "archived"
           /\ pc' = [pc EXCEPT ![c] = "check"]
           /\ UNCHANGED <<lock, handle, op, at, buf>>
        \/ /\ status # "archived" /\ CanTransition(buf[c], "archived")
           /\ BeginWrite(c, "archive", Transitioned(buf[c], "archived"))
           /\ UNCHANGED <<lock, handle>>
        \/ /\ status # "archived" /\ ~CanTransition(buf[c], "archived")
           /\ Drop(c)
  /\ UNCHANGED <<disk, crashed, edits, faults>>

ArchiveRecorded(c) ==
  /\ Written(c, "archive")
  /\ pc' = [pc EXCEPT ![c] = "check"]
  /\ UNCHANGED <<disk, lock, handle, op, at, buf, crashed, edits, faults>>

\* The archive may hold a directory of this name: an earlier one, or this one
\* moved by somebody else.
CheckDest(c) ==
  /\ pc[c] = "check"
  /\ IF destTaken \/ place = "archive"
     THEN Drop(c)
     ELSE /\ pc' = [pc EXCEPT ![c] = "move"]
          /\ UNCHANGED <<lock, handle, op, at, buf>>
  /\ UNCHANGED <<disk, crashed, edits, faults>>

MoveDir(c) ==
  /\ pc[c] = "move"
  /\ place = "specs"
  /\ place' = "archive"
  /\ Drop(c)
  /\ UNCHANGED <<files, destTaken, temps, torn, crashed, edits, faults>>

\* MkdirAll, Stat or Rename returns an error.
MoveFails(c) ==
  /\ pc[c] \in {"check", "move"}
  /\ \/ place # "specs" /\ UNCHANGED faults
     \/ faults < MaxFaults /\ faults' = faults + 1
  /\ Drop(c)
  /\ UNCHANGED <<disk, crashed, edits>>

(***************************************************************************)
(* The environment                                                         *)
(***************************************************************************)
\* The process is killed: its memory and its lock go, its temporary files stay.
Crash(c) ==
  /\ pc[c] # "idle" \/ mem[c] # Nil
  /\ faults < MaxFaults /\ faults' = faults + 1
  /\ torn' = (torn \/ TearsAt(c))
  /\ crashed' = crashed \cup {c}
  /\ Drop(c)
  /\ UNCHANGED <<files, place, destTaken, temps, edits>>

\* The operator moves the directory in the way out of archive/.
ResolveConflict ==
  /\ destTaken
  /\ destTaken' = FALSE
  /\ UNCHANGED <<files, place, temps, torn, lock, handle, work, crashed, edits,
                 faults>>

-----------------------------------------------------------------------------
\* What a process does of its own once an operation is under way.
Progress(c) ==
  \/ ReadFile(c) \/ LoadReturn(c) \/ Release(c)
  \/ WriteTemp(c) \/ RenameTemp(c) \/ SaveReturn(c) \/ TransitionReturn(c)
  \/ ArchiveLoaded(c) \/ ArchiveRecorded(c) \/ CheckDest(c) \/ MoveDir(c)

Call(c) ==
  \/ BeginLoad(c) \/ EditPrd(c) \/ EditArtifacts(c)
  \/ BeginSave(c) \/ BeginTransition(c) \/ BeginSupersede(c) \/ BeginArchive(c)

Fault(c) == LoadFails(c) \/ SaveFails(c) \/ MoveFails(c) \/ Crash(c)

Next ==
  \/ \E c \in Client : Progress(c) \/ Call(c) \/ Fault(c)
  \/ ResolveConflict

Spec == Init /\ [][Next]_vars

\* Processes run; whoever asked for an archival asks again until it succeeds,
\* and gets a directory in its way removed.
Fairness ==
  /\ \A c \in Client : WF_vars(Progress(c))
  /\ SF_vars(\E c \in Client : BeginArchive(c))
  /\ WF_vars(ResolveConflict)

FairSpec == Spec /\ Fairness

-----------------------------------------------------------------------------
(***************************************************************************)
(* Properties                                                              *)
(***************************************************************************)
\* The stored hash is that of the Intent section from activation on, through
\* every save, crash and partly failed save, and a draft has none (ComputeIntentHash at
\* activation, the drift check of Save).
IntentProtected ==
  LET prd == files.prd
  IN /\ prd.status = "draft" => prd.hash = Nil
     /\ prd.status \in {"active", "sealed", "superseded"} => prd.hash # Nil
     /\ prd.hash # Nil => prd.hash = ComputeIntentHash(prd.intent)

\* A caller whose handle has no unsaved edits sees what is on disk, even after
\* others crashed half-way through a save; only an unreadable architecture.md may be
\* missing from it (LoadSpec, Save, Transition return).
HandleMatchesDisk ==
  \A c \in Client : Holds(c) /\ ~dirty[c] =>
    \A f \in File :
      \/ mem[c][f] = files[f]
      \/ f = "architecture" /\ mem[c][f] = Nil

\* The coverage section in test_spec.json is the one computed from the
\* requirements and tests beside it, unless a save was cut short and none has
\* completed since: transitions and archival carry it over unchanged.
CoverageFresh ==
  ~torn /\ (\A c \in Client : pc[c] # "rename") =>
    files.test_spec = ComputeCoverageStruct(files.test_spec.tests, files.requirements)

\* saveToDisk: "On return (success or failure) no *.tmp.* files remain": what is
\* left belongs to a save under way or to a process that was killed.
TempsAccountedFor ==
  \A t \in temps : pc[t[1]] \in {"write", "rename"} \/ t[1] \in crashed

\* A superseded spec carries the deprecation banner, and no earlier one does
\* (Supersede writes both in one file).
BannerMarksSuperseded ==
  /\ files.prd.status = "superseded" => files.prd.banner
  /\ files.prd.banner => files.prd.status \in {"superseded", "archived"}

\* No step of any process, not even the middle of a save that then fails,
\* thaws a frozen spec or changes anything of it but its status and banner; an
\* archived one does not change at all (the guards of Save and Transition).
FrozenStaysFrozen ==
  [][/\ files.prd.status \in Frozen =>
          /\ files'.prd.status \in Frozen
          /\ files' = [files EXCEPT !.prd.status = files'.prd.status,
                                 !.prd.banner = files'.prd.banner]
     /\ files.prd.status = "archived" => files' = files]_files

\* The directory behind its files is the lifecycle of SpecLifecycle: every
\* single file system call is one of its steps or changes nothing it knows.
Lifecycle ==
  INSTANCE SpecLifecycle WITH
    Artifacts <- Artifacts,
    status <- files.prd.status,
    ident <- files.prd.ident,
    intent <- files.prd.intent,
    hash <- files.prd.hash,
    banner <- files.prd.banner,
    artifacts <- [requirements |-> files.requirements,
                  test_spec |-> files.test_spec, tasks |-> files.tasks,
                  architecture |-> files.architecture]

ImplementsLifecycle == Lifecycle!Spec

\* An archival that recorded the status and then failed or was killed before
\* the move is completed by a retry (MoveToArchive skips the transition of a
\* spec that is archived already).
ArchiveCompletes == files.prd.status = "archived" ~> place = "archive"
=============================================================================
