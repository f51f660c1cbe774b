---------------------------- MODULE SpecSession ----------------------------
(***************************************************************************)
(* The authoring of one specification: _session.json, the PRD and the      *)
(* three generated artifacts, used by the commands refine and generate     *)
(* (each has a copy of the session of its own beside the library's) and by *)
(* programs that embed the library.  Every read, write and removal of a    *)
(* file is a step; os.WriteFile is two, the truncation and the contents.   *)
(*                                                                         *)
(* Nothing locks the directory, and the documents do not tell how often or *)
(* in which order to call.  Habits is the set of liberties users take, {}  *)
(* being users who                                                         *)
(*   - run one command at a time,                                          *)
(*   - generate into a directory without artifacts, or with --force,       *)
(*   - answer questions of an assessment there is,                         *)
(*   - resume the session for every call of the library,                   *)
(*   - create a session where there is none.                               *)
(***************************************************************************)
EXTENDS Integers, Sequences

CONSTANTS Proc,
          Callers,    \* "cli", "host" or both: who runs
          Origins,    \* "library", "command": who made the session
          Nil, Torn, Scaffold,
          Habits,
          MaxRuns,    \* bound on the calls and commands of a behaviour
          MaxFaults   \* bound on its crashes and I/O errors

AllHabits == {"concurrent", "rerun", "answer_unasked", "keep_handle", "recreate"}

ASSUME SessionAssumption ==
  /\ Callers \subseteq {"cli", "host"}
  /\ Origins \subseteq {"library", "command"}
  /\ Habits \subseteq AllHabits
  /\ MaxRuns \in Nat /\ MaxFaults \in Nat

Artifact == {"requirements", "test_spec", "tasks"}

\* The order in which artifact files are removed.
artifactFiles == <<"requirements", "test_spec", "tasks">>

SessionState == {"init", "assessing", "refining", "prd_accepted",
                 "generating", "generated"}

\* What a call is: by a command or by a program, which method, with --force.
Command ==
  {c \in [by : {"cli", "host"}, do : {"assess", "refine", "generate", "accept"},
          force : BOOLEAN] :
     /\ c.by = "host" => ~c.force
     /\ c.do = "accept" => c.by = "host"}

\* generated_artifacts has the library's names and, from generate, file names;
\* twice: something is in it more than once.
Listed == [names : SUBSET Artifact, files : SUBSET Artifact, twice : BOOLEAN]

NoneListed == [names |-> {}, files |-> {}, twice |-> FALSE]

\* The content of _session.json: the state, whether prd_path is set, the length
\* of the assessment history, the assessment index of each exchange.
Session == [state : SessionState, named : BOOLEAN, rounds : Nat, qa : Seq(Int),
            listed : Listed, err : BOOLEAN]

\* A generated artifact tells the generation it comes from and the PRD that
\* generation has read.  PRD texts are numbered.
Generated == [gen : Nat, prd : Nat \cup {Torn}]

ASSUME ValueAssumption ==
  /\ Nil # Torn /\ Nil # Scaffold /\ Torn # Scaffold
  /\ {Nil, Torn, Scaffold} \cap (Session \cup Generated \cup Nat) = {}

(***************************************************************************)
(* State                                                                   *)
(***************************************************************************)
VARIABLES
  session,  \* _session.json
  prd,      \* prd.md
  art,      \* the artifact files
  pc,       \* per process: where it is
  cmd,      \* what it runs
  map,      \* a command's own copy of the session
  own,      \* the library's *SpecSession
  work,     \* locals of the call
  open,     \* "yes" between truncation and contents, "gone" if the file was
            \* replaced or removed in between
  result,   \* how its last call went; "refused": by the model or the user
  runs, stamp, faults

disk == <<session, prd, art>>
local == <<pc, cmd, map, own, work, open, result>>
counts == <<runs, stamp, faults>>
vars == <<disk, local, counts>>

\* text: the PRD read; have: artifacts found; gen: what this call generated;
\* todo: artifacts to hand to OnArtifact; file: the one being written; at: the
\* next file to remove; broken: writeErr is set.
NoWork == [text |-> 0, have |-> {}, gen |-> Nil, todo |-> {}, file |-> Nil,
           at |-> 1, broken |-> FALSE]

Work == [text : Nat \cup {Torn}, have : SUBSET Artifact,
         gen : Generated \cup {Nil}, todo : SUBSET Artifact,
         file : Artifact \cup {Nil}, at : 1..3, broken : BOOLEAN]

Label == {"idle", "delete", "reset", "accept", "questions", "call", "prd",
          "survey", "ai", "prdfile", "artifact", "ai2", "persist", "error",
          "fallback", "cleanup", "finish"}

TypeOK ==
  /\ session \in Session \cup {Nil, Torn}
  /\ prd \in Nat \cup {Torn}
  /\ art \in [Artifact -> Generated \cup {Nil, Torn, Scaffold}]
  /\ pc \in [Proc -> Label]
  /\ cmd \in [Proc -> Command]
  /\ map \in [Proc -> Session \cup {Nil}]
  /\ own \in [Proc -> Session \cup {Nil}]
  /\ work \in [Proc -> Work]
  /\ open \in [Proc -> {"no", "yes", "gone"}]
  /\ result \in [Proc -> {"none", "ok", "refused", "failed"}]
  /\ runs \in 0..MaxRuns /\ stamp \in Nat /\ faults \in 0..MaxFaults

Fresh(named) == [state |-> "init", named |-> named, rounds |-> 0, qa |-> <<>>,
                 listed |-> NoneListed, err |-> FALSE]

\* "spec new" leaves a scaffold of all artifacts and {"state": "init"}, a
\* program a directory with a PRD before or after CreateSession.
Init ==
  /\ \/ /\ "library" \in Origins
        /\ session \in {Nil, Fresh(TRUE)} /\ art = [a \in Artifact |-> Nil]
     \/ /\ "command" \in Origins
        /\ session = Fresh(FALSE) /\ art = [a \in Artifact |-> Scaffold]
  /\ prd = 0
  /\ pc = [p \in Proc |-> "idle"]
  /\ cmd = [p \in Proc |-> [by |-> "host", do |-> "assess", force |-> FALSE]]
  /\ map = [p \in Proc |-> Nil]
  /\ own = [p \in Proc |-> Nil]
  /\ work = [p \in Proc |-> NoWork]
  /\ open = [p \in Proc |-> "no"]
  /\ result = [p \in Proc |-> "none"]
  /\ runs = 0 /\ stamp = 0 /\ faults = 0

Readable == session \notin {Nil, Torn}

At(p, label) == pc[p] = label

Goto(p, label) == pc' = [pc EXCEPT ![p] = label]

Error == faults < MaxFaults /\ faults' = faults + 1

\* The call is over with r; only the habit keeps the handle for the next one.
Quit(p, r) ==
  /\ Goto(p, "idle")
  /\ result' = [result EXCEPT ![p] = r]
  /\ map' = [map EXCEPT ![p] = Nil]
  /\ work' = [work EXCEPT ![p] = NoWork]
  /\ open' = [open EXCEPT ![p] = "no"]

Handle(p, h) ==
  own' = [own EXCEPT ![p] =
            IF cmd[p].by = "host" /\ "keep_handle" \in Habits THEN h ELSE Nil]

\* The library returns an error: the command generate cleans up.
Fail(p, r, h) ==
  IF cmd[p].by = "cli" /\ cmd[p].do = "generate"
  THEN /\ Goto(p, "cleanup")
       /\ result' = [result EXCEPT ![p] = r]
       /\ work' = [work EXCEPT ![p].at = 1]
       /\ open' = [open EXCEPT ![p] = "no"]
       /\ own' = [own EXCEPT ![p] = Nil]
       /\ UNCHANGED map
  ELSE Quit(p, r) /\ Handle(p, h)

-----------------------------------------------------------------------------
(***************************************************************************)
(* The commands: their copy of the session, --force, auto-accept           *)
(***************************************************************************)
\* os.WriteFile replaces the contents its own truncation left; contents written
\* by somebody else in between may show through.
Fill(current, value, o) ==
  IF o = "gone" THEN {current}
  ELSE IF current = Torn THEN {value} ELSE {value, Torn}

\* Where a command goes on once --force is dealt with.
Continue(c, m) ==
  CASE c.do = "generate" ->
         IF m.state \in {"assessing", "refining"} THEN "accept" ELSE "call"
    [] c.do = "assess" ->
         IF m.state \in {"init", "assessing"} THEN "call" ELSE "questions"
    [] OTHER -> "call"

Disciplined(c) ==
  /\ "concurrent" \in Habits \/ \A q \in Proc : At(q, "idle")
  /\ c.do = "generate" /\ ~c.force =>
       "rerun" \in Habits \/ \A a \in Artifact : art[a] = Nil
  /\ c.do = "refine" =>
       \/ "answer_unasked" \in Habits
       \/ ~c.force /\ Readable /\ session.rounds > 0

\* A command loads the session for itself, a program calls the library.
Start(p, c) ==
  /\ At(p, "idle") /\ runs < MaxRuns
  /\ c.by \in Callers
  /\ Disciplined(c)
  /\ runs' = runs + 1
  /\ cmd' = [cmd EXCEPT ![p] = c]
  /\ IF c.by = "cli" /\ ~Readable
     THEN /\ result' = [result EXCEPT ![p] = "failed"]
          /\ UNCHANGED <<pc, map, own>>
     ELSE /\ result' = [result EXCEPT ![p] = "none"]
          /\ map' = [map EXCEPT ![p] = IF c.by = "cli" THEN session ELSE Nil]
          /\ own' = [own EXCEPT ![p] = IF c.by = "cli" THEN Nil ELSE @]
          /\ Goto(p, CASE c.by = "host" -> "call"
                       [] c.force -> "delete"
                       [] OTHER -> Continue(c, session))
  /\ UNCHANGED <<disk, work, open, stamp, faults>>

\* Variant: tasks.json is missing from the list.
RemoveButTasks(a) ==
  /\ art' = [art EXCEPT ![a] = IF a = "tasks" THEN @ ELSE Nil]
  /\ UNCHANGED open

\* Removing a file another process has open leaves that process without one.
Remove(a) ==
  /\ art' = [art EXCEPT ![a] = Nil]
  /\ open' = [q \in Proc |->
       IF At(q, "artifact") /\ work[q].file = a /\ open[q] = "yes"
       THEN "gone" ELSE open[q]]

Reset(m) == [Fresh(m.named) EXCEPT !.err = m.err]

\* --force removes the artifacts; refine resets the session as well.
DeleteArtifact(p) ==
  /\ At(p, "delete")
  /\ Remove(artifactFiles[work[p].at])
  /\ IF work[p].at < 3
     THEN work' = [work EXCEPT ![p].at = @ + 1] /\ UNCHANGED <<pc, map>>
     ELSE /\ work' = [work EXCEPT ![p].at = 1]
          /\ IF cmd[p].do = "generate"
             THEN Goto(p, Continue(cmd[p], map[p])) /\ UNCHANGED map
             ELSE Goto(p, "reset") /\ map' = [map EXCEPT ![p] = Reset(@)]
  /\ UNCHANGED <<session, prd, cmd, own, result, counts>>

\* Variant: the state is called by the name the library does not know.
ToSaveAccepted(p) ==
  CASE At(p, "accept") -> [map[p] EXCEPT !.state = "accepted"]
    [] At(p, "fallback") -> own[p]
    [] OTHER -> map[p]

\* saveSession writes the command's copy, persistError's last resort the library's.
ToSave(p) ==
  CASE At(p, "accept") -> [map[p] EXCEPT !.state = "prd_accepted"]
    [] At(p, "fallback") -> own[p]
    [] OTHER -> map[p]

TruncateSession(p) ==
  /\ pc[p] \in {"reset", "accept", "finish", "fallback"} /\ open[p] = "no"
  /\ session' = Torn
  /\ open' = [open EXCEPT ![p] = "yes"]
  /\ UNCHANGED <<prd, art, pc, cmd, map, own, work, result, counts>>

FillSession(p) ==
  /\ pc[p] \in {"reset", "accept", "finish", "fallback"} /\ open[p] # "no"
  /\ session' \in Fill(session, ToSave(p), open[p])
  /\ CASE At(p, "finish") -> Quit(p, "ok") /\ Handle(p, Nil)
       [] At(p, "fallback") -> Fail(p, result[p], own[p])
       [] OTHER ->
            /\ map' = [map EXCEPT ![p] = ToSave(p)]
            /\ open' = [open EXCEPT ![p] = "no"]
            /\ Goto(p, IF At(p, "accept") THEN "call" ELSE Continue(cmd[p], map[p]))
            /\ UNCHANGED <<own, work, result>>
  /\ UNCHANGED <<prd, art, cmd, counts>>

\* refine without answers in a session that needs no assessment.
ShowQuestions(p) ==
  /\ At(p, "questions")
  /\ Quit(p, "ok") /\ Handle(p, Nil)
  /\ UNCHANGED <<disk, cmd, counts>>

\* cleanupPartialArtifacts removes the three files and ignores what it cannot.
Cleanup(p) ==
  /\ At(p, "cleanup")
  /\ \/ Remove(artifactFiles[work[p].at]) /\ UNCHANGED faults
     \/ Error /\ UNCHANGED <<art, open>>
  /\ IF work[p].at < 3
     THEN work' = [work EXCEPT ![p].at = @ + 1] /\ UNCHANGED <<pc, map>>
     ELSE /\ work' = [work EXCEPT ![p] = NoWork]
          /\ Goto(p, "idle")
          /\ map' = [map EXCEPT ![p] = Nil]
  /\ UNCHANGED <<session, prd, cmd, own, result, runs, stamp>>

(***************************************************************************)
(* The library: ResumeSession, then Assess, Refine, Generate or AcceptPRD  *)
(***************************************************************************)
Entered ==
  [assess |-> "assessing", refine |-> "refining", generate |-> "generating"]

\* A command first looks whether it has been cancelled.
Call(p) ==
  /\ At(p, "call")
  /\ LET h == IF own[p] # Nil THEN own[p] ELSE session
     IN CASE h \in {Nil, Torn} -> Fail(p, "failed", Nil)
          [] h \notin {Nil, Torn} /\ cmd[p].do # "accept" ->
               /\ own' = [own EXCEPT ![p] = [h EXCEPT !.state = Entered[cmd[p].do]]]
               /\ Goto(p, "prd")
               /\ UNCHANGED <<map, work, open, result>>
          [] OTHER ->
               IF h.state \in {"assessing", "refining"}
               THEN /\ own' = [own EXCEPT ![p] = h]
                    /\ Goto(p, "persist")
                    /\ UNCHANGED <<map, work, open, result>>
               ELSE Quit(p, "refused") /\ Handle(p, h)
  /\ UNCHANGED <<disk, cmd, counts>>

\* The command was cancelled, or its answers cannot be read.
Cancel(p) ==
  /\ At(p, "call") /\ cmd[p].by = "cli"
  /\ Fail(p, "refused", Nil)
  /\ UNCHANGED <<disk, cmd, counts>>

\* Without prd_path the file to read is the directory.
ReadPrd(p) ==
  /\ At(p, "prd")
  /\ IF own[p].named
     THEN /\ work' = [work EXCEPT ![p].text = prd]
          /\ Goto(p, IF cmd[p].do = "generate" THEN "survey" ELSE "ai")
          /\ UNCHANGED result
     ELSE /\ result' = [result EXCEPT ![p] = "failed"]
          /\ Goto(p, "error")
          /\ UNCHANGED work
  /\ UNCHANGED <<disk, cmd, map, own, open, counts>>

\* Generate calls the agent unless all three files are there.
Survey(p) ==
  /\ At(p, "survey")
  /\ LET have == {a \in Artifact : art[a] # Nil}
     IN /\ work' = [work EXCEPT ![p].have = have]
        /\ Goto(p, IF have = Artifact THEN "persist" ELSE "ai")
  /\ UNCHANGED <<disk, cmd, map, own, open, result, counts>>

\* The model answers; the agent first generates the requirements, then the
\* other two from them.
Answer(p) ==
  /\ At(p, "ai")
  /\ CASE cmd[p].do = "assess" ->
            /\ own' = [own EXCEPT ![p].rounds = @ + 1]
            /\ Goto(p, "persist")
            /\ UNCHANGED <<work, stamp>>
       [] cmd[p].do = "refine" ->
            /\ Goto(p, "prdfile")
            /\ UNCHANGED <<own, work, stamp>>
       [] OTHER ->
            /\ stamp' = stamp + 1
            /\ work' = [work EXCEPT
                 ![p].gen = [gen |-> stamp + 1, prd |-> work[p].text],
                 ![p].todo = {"requirements"}]
            /\ Goto(p, "artifact")
            /\ UNCHANGED own
  /\ UNCHANGED <<disk, cmd, map, open, result, runs, faults>>

AnswerRest(p) ==
  /\ At(p, "ai2")
  /\ IF work[p].broken
     THEN Goto(p, "error") /\ UNCHANGED work
     ELSE /\ work' = [work EXCEPT ![p].todo = {"test_spec", "tasks"}]
          /\ Goto(p, "artifact")
  /\ UNCHANGED <<disk, cmd, map, own, open, result, counts>>

\* A call fails, is cancelled, or does not pass validation after the repairs.
Refuse(p) ==
  /\ pc[p] \in {"ai", "ai2"}
  /\ result' = [result EXCEPT ![p] = IF work[p].broken THEN @ ELSE "refused"]
  /\ Goto(p, "error")
  /\ UNCHANGED <<disk, cmd, map, own, work, open, counts>>

(***************************************************************************)
(* Files the library writes in place                                       *)
(***************************************************************************)
TruncatePrd(p) ==
  /\ At(p, "prdfile") /\ open[p] = "no"
  /\ prd' = Torn
  /\ open' = [open EXCEPT ![p] = "yes"]
  /\ UNCHANGED <<session, art, pc, cmd, map, own, work, result, counts>>

\* Variant: the exchange is attributed to the new assessment.
AnsweredLatest(s) ==
  [s EXCEPT !.rounds = @ + 1, !.qa = Append(@, s.rounds)]

\* The new assessment, and the exchange with the index of the one answered.
Answered(s) ==
  [s EXCEPT !.rounds = @ + 1, !.qa = Append(@, s.rounds - 1)]

FillPrd(p) ==
  /\ At(p, "prdfile") /\ open[p] # "no"
  /\ stamp' = stamp + 1
  /\ prd' \in Fill(prd, stamp + 1, open[p])
  /\ own' = [own EXCEPT ![p] = Answered(@)]
  /\ open' = [open EXCEPT ![p] = "no"]
  /\ Goto(p, "persist")
  /\ UNCHANGED <<session, art, cmd, map, work, result, runs, faults>>

TruncateArtifact(p) ==
  /\ At(p, "artifact") /\ open[p] = "no"
  /\ \E a \in work[p].todo :
       /\ art' = [art EXCEPT ![a] = Torn]
       /\ work' = [work EXCEPT ![p].file = a, ![p].todo = @ \ {a}]
  /\ open' = [open EXCEPT ![p] = "yes"]
  /\ UNCHANGED <<session, prd, pc, cmd, map, own, result, counts>>

WithName(l, a) ==
  [l EXCEPT !.names = @ \cup {a}, !.twice = @ \/ a \in l.names]

\* Where the callbacks go on: the calls for the rest, or the end.
AfterFile(p) ==
  IF work[p].todo # {} THEN "artifact"
  ELSE IF work[p].file = "requirements" THEN "ai2" ELSE "persist"

FillArtifact(p) ==
  /\ At(p, "artifact") /\ open[p] # "no"
  /\ LET a == work[p].file
     IN /\ \E content \in Fill(art[a], work[p].gen, open[p]) :
             art' = [art EXCEPT ![a] = content]
        /\ own' = [own EXCEPT ![p].listed = WithName(@, a)]
  /\ open' = [open EXCEPT ![p] = "no"]
  /\ Goto(p, AfterFile(p))
  /\ UNCHANGED <<session, prd, cmd, map, work, result, counts>>

\* Variant: a failed write goes unnoticed.
ArtifactFailsQuietly(p) ==
  /\ At(p, "artifact")
  /\ Error
  /\ work' = [work EXCEPT ![p].todo = {}]
  /\ open' = [open EXCEPT ![p] = "no"]
  /\ Goto(p, "persist")
  /\ UNCHANGED <<disk, cmd, map, own, result, runs, stamp>>

\* writeErr: later artifacts are skipped, and the call fails after the agent's.
ArtifactFails(p) ==
  /\ At(p, "artifact")
  /\ Error
  /\ work' = [work EXCEPT ![p].broken = TRUE, ![p].todo = {}]
  /\ open' = [open EXCEPT ![p] = "no"]
  /\ result' = [result EXCEPT ![p] = "failed"]
  /\ Goto(p, IF work[p].file = Nil \/ (work[p].file = "requirements" /\ open[p] # "no")
             THEN "ai2" ELSE "error")
  /\ UNCHANGED <<disk, cmd, map, own, runs, stamp>>

\* The refined PRD cannot be written: nothing of the round is recorded.
PrdFails(p) ==
  /\ At(p, "prdfile")
  /\ Error
  /\ open' = [open EXCEPT ![p] = "no"]
  /\ result' = [result EXCEPT ![p] = "failed"]
  /\ Goto(p, "error")
  /\ UNCHANGED <<disk, cmd, map, own, work, runs, stamp>>

(***************************************************************************)
(* persistSession and persistError                                         *)
(***************************************************************************)
\* Artifacts found on disk are listed too, unless they already are.
WithFound(l, have) == [l EXCEPT !.names = @ \cup have]

\* The session as the method leaves it.
Final(p) ==
  CASE cmd[p].do = "generate" ->
         [own[p] EXCEPT !.state = "generated",
                        !.listed = WithFound(@, work[p].have)]
    [] cmd[p].do = "accept" -> [own[p] EXCEPT !.state = "prd_accepted"]
    [] OTHER -> own[p]

\* generate reports and records the list with file names.
AsFiles(l) ==
  [names |-> {}, files |-> l.names \cup l.files,
   twice |-> l.twice \/ l.names \cap l.files # {}]

\* A rename takes the file away from those who have it open.
Replace(s) ==
  /\ session' = s
  /\ open' = [q \in Proc |->
       IF /\ pc[q] \in {"reset", "accept", "finish", "fallback"}
          /\ open[q] = "yes"
       THEN "gone" ELSE open[q]]

Persist(p) ==
  /\ At(p, "persist")
  /\ Replace(Final(p))
  /\ IF cmd[p].by = "cli" /\ cmd[p].do = "generate"
     THEN /\ map' = [map EXCEPT ![p].listed = AsFiles(Final(p).listed)]
          /\ Goto(p, "finish")
          /\ own' = [own EXCEPT ![p] = Nil]
          /\ UNCHANGED <<work, result>>
     ELSE /\ map' = [map EXCEPT ![p] = Nil]
          /\ Goto(p, "idle")
          /\ Handle(p, Final(p))
          /\ work' = [work EXCEPT ![p] = NoWork]
          /\ result' = [result EXCEPT ![p] = "ok"]
  /\ UNCHANGED <<prd, art, cmd, counts>>

\* AcceptPRD takes its transition back, the other methods keep theirs in memory.
PersistFails(p) ==
  /\ At(p, "persist")
  /\ Error
  /\ Fail(p, "failed", IF cmd[p].do = "accept" THEN own[p] ELSE Final(p))
  /\ UNCHANGED <<disk, cmd, runs, stamp>>

\* persistError, with the in-place write as a last resort.
PersistError(p) ==
  /\ At(p, "error")
  /\ LET s == [own[p] EXCEPT !.err = TRUE]
     IN \/ /\ Replace(s)
           /\ UNCHANGED faults
           /\ IF cmd[p].by = "cli" /\ cmd[p].do = "generate"
              THEN /\ Goto(p, "cleanup")
                   /\ work' = [work EXCEPT ![p].at = 1]
                   /\ own' = [own EXCEPT ![p] = Nil]
                   /\ UNCHANGED map
              ELSE /\ Goto(p, "idle")
                   /\ work' = [work EXCEPT ![p] = NoWork]
                   /\ Handle(p, s)
                   /\ map' = [map EXCEPT ![p] = Nil]
        \/ /\ Error
           /\ own' = [own EXCEPT ![p] = s]
           /\ Goto(p, "fallback")
           /\ UNCHANGED <<session, map, work, open>>
  /\ UNCHANGED <<prd, art, cmd, result, runs, stamp>>

\* CreateSession, whatever session there was.
Create(p) ==
  /\ At(p, "idle") /\ runs < MaxRuns
  /\ "library" \in Origins
  /\ session = Nil \/ "recreate" \in Habits
  /\ "concurrent" \in Habits \/ \A q \in Proc : At(q, "idle")
  /\ runs' = runs + 1
  /\ \/ /\ Replace(Fresh(TRUE))
        /\ own' = [own EXCEPT ![p] =
                     IF "keep_handle" \in Habits THEN Fresh(TRUE) ELSE Nil]
        /\ result' = [result EXCEPT ![p] = "ok"]
        /\ UNCHANGED faults
     \/ /\ Error
        /\ result' = [result EXCEPT ![p] = "failed"]
        /\ UNCHANGED <<session, open, own>>
  /\ UNCHANGED <<prd, art, pc, cmd, map, work, stamp>>

(***************************************************************************)
(* The environment                                                         *)
(***************************************************************************)
\* The session or the PRD cannot be read, --force cannot remove a file, or a file cannot be
\* opened or written.
CallFails(p) ==
  /\ Error
  /\ \/ /\ At(p, "prd")
        /\ result' = [result EXCEPT ![p] = "failed"]
        /\ Goto(p, "error")
        /\ UNCHANGED <<map, own, work, open>>
     \/ At(p, "call") /\ own[p] = Nil /\ Fail(p, "failed", Nil)
     \/ At(p, "delete") /\ Quit(p, "failed") /\ Handle(p, Nil)
     \/ /\ pc[p] \in {"reset", "accept", "finish"}
        /\ Quit(p, "failed") /\ Handle(p, Nil)
     \/ At(p, "fallback") /\ Fail(p, result[p], own[p])
  /\ UNCHANGED <<disk, cmd, runs, stamp>>

\* The process is killed: its files stay as they are.
Crash(p) ==
  /\ ~At(p, "idle") \/ own[p] # Nil
  /\ Error
  /\ Quit(p, "failed")
  /\ own' = [own EXCEPT ![p] = Nil]
  /\ UNCHANGED <<disk, cmd, runs, stamp>>

-----------------------------------------------------------------------------
Step(p) ==
  \/ DeleteArtifact(p) \/ TruncateSession(p) \/ FillSession(p)
  \/ ShowQuestions(p) \/ Cleanup(p)
  \/ Call(p) \/ ReadPrd(p) \/ Survey(p) \/ Answer(p) \/ AnswerRest(p)
  \/ TruncatePrd(p) \/ FillPrd(p) \/ TruncateArtifact(p) \/ FillArtifact(p)
  \/ Persist(p) \/ PersistError(p)

Fault(p) ==
  \/ Cancel(p) \/ Refuse(p) \/ ArtifactFails(p) \/ PrdFails(p)
  \/ PersistFails(p) \/ CallFails(p) \/ Crash(p)

Next ==
  \E p \in Proc :
    Create(p) \/ (\E c \in Command : Start(p, c)) \/ Step(p) \/ Fault(p)

Spec == Init /\ [][Next]_vars

-----------------------------------------------------------------------------
(***************************************************************************)
(* Properties                                                              *)
(***************************************************************************)
IsGenerated(content) == content \notin {Nil, Torn, Scaffold}

\* Within a session the exchanges answer different assessments, in their order,
\* and none answers the last one: whatever copies of the session commands and
\* programs hold, write over each other or lose (Refine's AssessmentIndex).
QaInOrder ==
  Readable => \A k \in 1..Len(session.qa) :
    /\ session.qa[k] <= session.rounds - 2
    /\ \A j \in 1..(k - 1) : session.qa[j] < session.qa[k]

\* "index of the assessment the answers corresponded to": there is one.
QaAnswersKnown ==
  Readable => \A k \in 1..Len(session.qa) : session.qa[k] \in 0..(session.rounds - 2)

\* Artifacts that are there at the same time were generated together, though they
\* are removed and written one by one and a crash can fall between any two.
SameGeneration ==
  \A a, b \in Artifact :
    IsGenerated(art[a]) /\ IsGenerated(art[b]) => art[a] = art[b]

Complete ==
  SameGeneration /\ \A a \in Artifact : IsGenerated(art[a]) /\ art[a].prd = prd

\* "generated" is written only over a complete set of artifacts generated from
\* the PRD that is there, by Generate as well as by generate's own save.
GeneratedIsComplete ==
  [][session' # session /\ Readable' /\ session'.state = "generated"
     => Complete']_vars

(***************************************************************************)
(* What the documents say of it and the code does not do                   *)
(***************************************************************************)
\* "prd_accepted --> generating --> generated": so ends a successful generate.
GenerateEndsGenerated ==
  [][\A p \in Proc :
       cmd[p].do = "generate" /\ ~At(p, "idle") /\ At(p, "idle")' /\ result'[p] = "ok"
       => Readable' /\ session'.state = "generated"]_vars
=============================================================================
