------------------------- MODULE SpecSessionProofs -------------------------
(***************************************************************************)
(* Theorems about SpecSession for every value of its constants, so for any *)
(* number of processes, calls and faults: with all habits, what the        *)
(* variables hold and that a session is in order in itself; without some   *)
(* of them, that exchanges answer assessments there are, that artifacts    *)
(* are of one generation, and what "generated" promises.                   *)
(***************************************************************************)
EXTENDS SpecSession, TLAPS

\* What QaInOrder says of the session on disk, for any copy of one.
InOrder(s) ==
  \A k \in 1..Len(s.qa) :
    /\ s.qa[k] <= s.rounds - 2
    /\ \A j \in 1..(k - 1) : s.qa[j] < s.qa[k]

Good == {s \in Session : InOrder(s)}

-----------------------------------------------------------------------------
(***************************************************************************)
(* Every update of a session keeps it a good one.                          *)
(***************************************************************************)
LEMMA GoodUpdates ==
  ASSUME NEW s \in Good
  PROVE  /\ \A x \in SessionState : [s EXCEPT !.state = x] \in Good
         /\ \A l \in Listed : [s EXCEPT !.listed = l] \in Good
         /\ \A x \in SessionState, l \in Listed :
              [s EXCEPT !.state = x, !.listed = l] \in Good
         /\ [s EXCEPT !.err = TRUE] \in Good
         /\ s.listed \in Listed /\ s.state \in SessionState /\ s.named \in BOOLEAN
BY DEF Good, Session, InOrder

LEMMA GoodRound ==
  ASSUME NEW s \in Good PROVE [s EXCEPT !.rounds = @ + 1] \in Good
<1> DEFINE t == [s EXCEPT !.rounds = @ + 1]
<1>1. t \in Session /\ t.qa = s.qa /\ t.rounds = s.rounds + 1
  BY DEF Good, Session
<1>2. s.qa \in Seq(Int) /\ s.rounds \in Nat /\ InOrder(s)
  BY DEF Good, Session
<1>3. InOrder(t)
  BY <1>1, <1>2 DEF InOrder
<1>4. QED
  BY <1>1, <1>3 DEF Good

\* The new exchange answers what was the last assessment, and no earlier one did.
LEMMA GoodAnswered ==
  ASSUME NEW s \in Good PROVE Answered(s) \in Good
<1> DEFINE t == Answered(s)
<1>1. s \in Session /\ s.qa \in Seq(Int) /\ s.rounds \in Nat
  BY DEF Good, Session
<1>2. t.qa = Append(s.qa, s.rounds - 1) /\ t.rounds = s.rounds + 1
  BY <1>1 DEF Answered, Session
<1>3. t.qa \in Seq(Int) /\ Len(t.qa) = Len(s.qa) + 1
  BY <1>1, <1>2
<1>4. t \in Session
  <2> DEFINE u == [s EXCEPT !.rounds = s.rounds + 1]
  <2>1. u \in Session
    BY <1>1 DEF Session
  <2>2. \A q \in Seq(Int) : [u EXCEPT !.qa = q] \in Session
    BY <2>1 DEF Session
  <2>3. t = [u EXCEPT !.qa = t.qa]
    BY <1>1, <1>2 DEF Answered, Session
  <2>4. QED
    BY <1>3, <2>2, <2>3
<1>5. \A k \in 1..Len(s.qa) : t.qa[k] = s.qa[k] /\ s.qa[k] \in Int
  BY <1>1, <1>2
<1>6. t.qa[Len(s.qa) + 1] = s.rounds - 1
  BY <1>1, <1>2
<1>7. InOrder(s)
  BY DEF Good
<1>8. ASSUME NEW k \in 1..Len(t.qa)
      PROVE  t.qa[k] <= t.rounds - 2 /\ \A j \in 1..(k - 1) : t.qa[j] < t.qa[k]
  <2>1. CASE k = Len(s.qa) + 1
    <3>1. \A j \in 1..Len(s.qa) : s.qa[j] <= s.rounds - 2
      BY <1>7 DEF InOrder
    <3>2. QED
      BY <2>1, <3>1, <1>1, <1>2, <1>5, <1>6
  <2>2. CASE k \in 1..Len(s.qa)
    <3>1. s.qa[k] <= s.rounds - 2 /\ \A j \in 1..(k - 1) : s.qa[j] < s.qa[k]
      BY <1>7, <2>2 DEF InOrder
    <3>2. Len(s.qa) \in Nat
      BY <1>1
    <3>3. QED
      BY <2>2, <3>1, <3>2, <1>1, <1>2, <1>5
  <2>3. QED
    BY <1>1, <1>3, <2>1, <2>2
<1>9. QED
  BY <1>4, <1>8 DEF Good, InOrder

LEMMA GoodFresh ==
  ASSUME NEW named \in BOOLEAN PROVE Fresh(named) \in Good
<1>1. Fresh(named) \in Session /\ Fresh(named).qa = <<>>
  BY DEF Session, Fresh, SessionState, NoneListed, Listed
<1>2. QED
  BY <1>1 DEF Good, InOrder

LEMMA GoodReset ==
  ASSUME NEW s \in Good PROVE Reset(s) \in Good
<1>1. s.named \in BOOLEAN /\ s.err \in BOOLEAN
  BY DEF Good, Session
<1>2. Fresh(s.named) \in Good /\ Fresh(s.named).qa = <<>>
  BY <1>1, GoodFresh DEF Fresh
<1>3. \A x \in BOOLEAN : [Fresh(s.named) EXCEPT !.err = x] \in Good
  BY <1>2 DEF Good, Session, InOrder
<1>4. QED
  BY <1>1, <1>3 DEF Reset

LEMMA ListedTypes ==
  ASSUME NEW l \in Listed
  PROVE  /\ \A a \in Artifact : WithName(l, a) \in Listed
         /\ \A have \in SUBSET Artifact : WithFound(l, have) \in Listed
         /\ AsFiles(l) \in Listed
BY DEF Listed, WithName, WithFound, AsFiles

-----------------------------------------------------------------------------
(***************************************************************************)
(* The inductive invariant: all copies of the session are good ones, and   *)
(* a process that needs its copy, its generation or its file has it.       *)
(***************************************************************************)
Stage(p) ==
  /\ pc[p] # "idle" /\ cmd[p].by = "cli" => map[p] \in Good
  /\ pc[p] \in {"delete", "reset", "accept", "finish", "questions", "cleanup"} =>
       cmd[p].by = "cli"
  /\ pc[p] \in {"prd", "survey", "ai", "prdfile", "artifact", "ai2", "persist",
                "error", "fallback"} => own[p] \in Good
  /\ pc[p] \in {"artifact", "ai2"} => work[p].gen \in Generated
  /\ pc[p] = "artifact" /\ open[p] # "no" => work[p].file \in Artifact
  /\ open[p] # "no" => pc[p] \in {"reset", "accept", "finish", "fallback",
                                  "prdfile", "artifact"}

LocalTypes ==
  /\ pc \in [Proc -> Label]
  /\ cmd \in [Proc -> Command]
  /\ map \in [Proc -> Good \cup {Nil}]
  /\ own \in [Proc -> Good \cup {Nil}]
  /\ work \in [Proc -> Work]
  /\ open \in [Proc -> {"no", "yes", "gone"}]
  /\ result \in [Proc -> {"none", "ok", "refused", "failed"}]

DiskTypes ==
  /\ session \in Good \cup {Nil, Torn}
  /\ prd \in Nat \cup {Torn}
  /\ art \in [Artifact -> Generated \cup {Nil, Torn, Scaffold}]

CountTypes == runs \in 0..MaxRuns /\ stamp \in Nat /\ faults \in 0..MaxFaults

SInv == LocalTypes /\ DiskTypes /\ CountTypes /\ \A p \in Proc : Stage(p)

LEMMA SInvImplies == SInv => TypeOK /\ QaInOrder
BY DEF SInv, LocalTypes, DiskTypes, CountTypes, TypeOK, QaInOrder, Good, InOrder, Readable

LEMMA NoWorkType == NoWork \in Work
BY DEF NoWork, Work

LEMMA WorkTypes ==
  ASSUME NEW w \in Work
  PROVE  /\ [w EXCEPT !.at = 1] \in Work
         /\ \A t \in Nat \cup {Torn} : [w EXCEPT !.text = t] \in Work
         /\ \A have \in SUBSET Artifact : [w EXCEPT !.have = have] \in Work
         /\ \A todo \in SUBSET Artifact : [w EXCEPT !.todo = todo] \in Work
         /\ \A g \in Generated, todo \in SUBSET Artifact :
              [w EXCEPT !.gen = g, !.todo = todo] \in Work
         /\ \A a \in Artifact, todo \in SUBSET Artifact :
              [w EXCEPT !.file = a, !.todo = todo] \in Work
         /\ [w EXCEPT !.broken = TRUE, !.todo = {}] \in Work
         /\ w.text \in Nat \cup {Torn} /\ w.have \in SUBSET Artifact
         /\ w.todo \in SUBSET Artifact /\ w.at \in 1..3
<1>1. [w EXCEPT !.at = 1] \in Work
  BY DEF Work
<1>2. /\ \A t \in Nat \cup {Torn} : [w EXCEPT !.text = t] \in Work
      /\ \A have \in SUBSET Artifact : [w EXCEPT !.have = have] \in Work
      /\ \A todo \in SUBSET Artifact : [w EXCEPT !.todo = todo] \in Work
  BY DEF Work
<1>3. /\ \A g \in Generated, todo \in SUBSET Artifact :
           [w EXCEPT !.gen = g, !.todo = todo] \in Work
      /\ \A a \in Artifact, todo \in SUBSET Artifact :
           [w EXCEPT !.file = a, !.todo = todo] \in Work
      /\ [w EXCEPT !.broken = TRUE, !.todo = {}] \in Work
  BY DEF Work
<1>4. /\ w.text \in Nat \cup {Torn} /\ w.have \in SUBSET Artifact
      /\ w.todo \in SUBSET Artifact /\ w.at \in 1..3
  BY DEF Work
<1>5. QED
  BY <1>1, <1>2, <1>3, <1>4, Zenon

LEMMA WorkNext ==
  ASSUME NEW w \in Work, w.at < 3 PROVE [w EXCEPT !.at = @ + 1] \in Work
<1>1. \A n \in 1..3 : [w EXCEPT !.at = n] \in Work
  BY DEF Work
<1>2. w.at + 1 \in 1..3
  BY DEF Work
<1>3. QED
  BY <1>1, <1>2, Zenon

\* Calls end with a quiet process.
LEMMA QuitTypes ==
  ASSUME SInv, NEW p \in Proc, NEW r \in {"none", "ok", "refused", "failed"},
         NEW h \in Good \cup {Nil}, Quit(p, r), Handle(p, h), UNCHANGED cmd
  PROVE  LocalTypes' /\ \A q \in Proc : Stage(q)'
<1> USE DEF SInv, LocalTypes, Quit, Handle, Goto, Label
<1>1. LocalTypes'
  BY NoWorkType
<1>2. \A q \in Proc : Stage(q)'
  BY DEF Stage
<1>3. QED
  BY <1>1, <1>2

LEMMA FailTypes ==
  ASSUME SInv, NEW p \in Proc, NEW r \in {"none", "ok", "refused", "failed"},
         NEW h \in Good \cup {Nil}, Fail(p, r, h), UNCHANGED cmd, pc[p] # "idle"
  PROVE  LocalTypes' /\ \A q \in Proc : Stage(q)'
<1>1. CASE cmd[p].by = "cli" /\ cmd[p].do = "generate"
  <2>1. work[p] \in Work
    BY DEF SInv, LocalTypes
  <2>2. PICK w \in Work : w = [work[p] EXCEPT !.at = 1]
    BY <2>1, WorkTypes, Zenon
  <2>3. work' = [work EXCEPT ![p] = w]
    BY <1>1, <2>2 DEF Fail
  <2> USE DEF SInv, LocalTypes, Fail, Goto, Label
  <2>4. LocalTypes'
    BY <1>1, <2>3
  <2>5. \A q \in Proc : Stage(q)'
    BY <1>1 DEF Stage
  <2>6. QED
    BY <2>4, <2>5
<1>2. CASE ~(cmd[p].by = "cli" /\ cmd[p].do = "generate")
  BY <1>2, QuitTypes DEF Fail
<1>3. QED
  BY <1>1, <1>2

LEMMA ProcTypes ==
  ASSUME SInv, NEW p \in Proc
  PROVE  /\ pc[p] \in Label /\ cmd[p] \in Command /\ work[p] \in Work
         /\ map[p] \in Good \cup {Nil} /\ own[p] \in Good \cup {Nil}
         /\ open[p] \in {"no", "yes", "gone"}
         /\ result[p] \in {"none", "ok", "refused", "failed"}
BY DEF SInv, LocalTypes

LEMMA NothingOpen ==
  ASSUME SInv, NEW p \in Proc,
         pc[p] \notin {"reset", "accept", "finish", "fallback", "prdfile", "artifact"}
  PROVE  open[p] = "no"
BY DEF SInv, Stage

LEMMA ErrorTypes == ASSUME CountTypes, Error PROVE faults' \in 0..MaxFaults
BY SessionAssumption DEF CountTypes, Error

-----------------------------------------------------------------------------
(***************************************************************************)
(* The steps of the commands.                                              *)
(***************************************************************************)
LEMMA StartTypes ==
  ASSUME SInv, NEW p \in Proc, NEW c \in Command, Start(p, c)
  PROVE  SInv'
<1> USE DEF Start, disk
<1>1. DiskTypes' /\ CountTypes'
  BY SessionAssumption DEF SInv, DiskTypes, CountTypes
<1>2. /\ c.do \in {"assess", "refine", "generate", "accept"}
      /\ c.by \in {"cli", "host"} /\ c.force \in BOOLEAN
      /\ c.by = "host" => ~c.force
  BY DEF Command
<1>3. c.by = "cli" /\ Readable => session \in Good
  BY DEF SInv, DiskTypes, Readable
<1>4. LocalTypes'
  <2>1. pc' \in [Proc -> Label]
    <3> DEFINE l == CASE c.by = "host" -> "call" [] c.force -> "delete"
                      [] OTHER -> Continue(c, session)
    <3>1. l \in Label
      BY DEF Continue, Label
    <3>2. pc' = pc \/ pc' = [pc EXCEPT ![p] = l]
      BY DEF Goto
    <3> HIDE DEF l
    <3>3. QED
      BY <3>1, <3>2 DEF SInv, LocalTypes
  <2>2. map' \in [Proc -> Good \cup {Nil}] /\ own' \in [Proc -> Good \cup {Nil}]
    BY <1>2, <1>3 DEF SInv, LocalTypes
  <2>3. QED
    BY <2>1, <2>2 DEF SInv, LocalTypes
<1>5. ASSUME NEW q \in Proc PROVE Stage(q)'
  <2>1. CASE q # p \/ pc' = pc
    BY <2>1 DEF SInv, LocalTypes, Stage, Goto, At
  <2>2. CASE q = p /\ pc' # pc
    <3> DEFINE l == CASE c.by = "host" -> "call" [] c.force -> "delete"
                      [] OTHER -> Continue(c, session)
    <3>0. /\ ~(c.by = "cli" /\ ~Readable)
          /\ map' = [map EXCEPT ![p] = IF c.by = "cli" THEN session ELSE Nil]
          /\ pc' = [pc EXCEPT ![p] = l] /\ cmd' = [cmd EXCEPT ![p] = c]
      BY <2>2, Zenon DEF Goto
    <3>1. /\ c.by = "cli" => map'[p] \in Good
          /\ cmd'[p] = c /\ pc'[p] = l
      BY <3>0, <1>3 DEF SInv, LocalTypes
    <3>2. /\ c.by = "host" => pc'[p] = "call"
          /\ pc'[p] \in {"delete", "accept", "questions", "call"}
      <4>1. Continue(c, session) \in {"accept", "questions", "call"}
        BY DEF Continue
      <4>2. /\ c.by = "host" => l = "call"
            /\ l \in {"delete", "accept", "questions", "call"}
        BY <4>1, <1>2
      <4>3. QED
        BY <3>1, <4>2
    <3>3. cmd'[q] = c /\ pc'[q] = pc'[p] /\ map'[q] = map'[p]
      BY <2>2, <3>1
    <3>4. open'[q] = "no"
      BY <2>2, NothingOpen DEF At
    <3>5. QED
      BY <3>3, <3>1, <3>2, <3>4, <1>2 DEF Stage
  <2>3. QED
    BY <2>1, <2>2
<1>6. QED
  BY <1>1, <1>4, <1>5 DEF SInv

LEMMA RemoveTypes ==
  ASSUME SInv, NEW a \in Artifact, Remove(a)
  PROVE  /\ art' \in [Artifact -> Generated \cup {Nil, Torn, Scaffold}]
         /\ open' \in [Proc -> {"no", "yes", "gone"}]
         /\ \A q \in Proc : open'[q] # "no" => open[q] # "no"
BY DEF SInv, LocalTypes, DiskTypes, Remove

LEMMA FileTypes == \A n \in 1..3 : artifactFiles[n] \in Artifact
BY DEF artifactFiles, Artifact

LEMMA DeleteArtifactTypes ==
  ASSUME SInv, NEW p \in Proc, DeleteArtifact(p)
  PROVE  SInv'
<1>1. work[p].at \in 1..3 /\ artifactFiles[work[p].at] \in Artifact
  BY ProcTypes, WorkTypes, FileTypes
<1>2. /\ art' \in [Artifact -> Generated \cup {Nil, Torn, Scaffold}]
      /\ open' \in [Proc -> {"no", "yes", "gone"}]
      /\ \A q \in Proc : open'[q] # "no" => open[q] # "no"
  BY <1>1, RemoveTypes DEF DeleteArtifact
<1>3. DiskTypes' /\ CountTypes'
  BY <1>2 DEF SInv, DiskTypes, CountTypes, DeleteArtifact, counts
<1>4. cmd[p].by = "cli" /\ map[p] \in Good /\ Reset(map[p]) \in Good
  BY GoodReset DEF SInv, Stage, DeleteArtifact, At
<1>5. PICK w \in Work : work' = [work EXCEPT ![p] = w]
  <2>1. CASE work[p].at < 3
    BY <2>1, WorkNext, ProcTypes, Zenon DEF DeleteArtifact
  <2>2. CASE ~(work[p].at < 3)
    BY <2>2, WorkTypes, ProcTypes, Zenon DEF DeleteArtifact
  <2>3. QED
    BY <2>1, <2>2
<1>6. Continue(cmd[p], map[p]) \in {"accept", "questions", "call"}
  BY DEF Continue
<1>7. PICK l \in {"delete", "reset", "accept", "questions", "call"} :
        pc' = [pc EXCEPT ![p] = l]
  BY <1>6 DEF DeleteArtifact, Goto, At, SInv, LocalTypes
<1>8. PICK m \in Good : map' = [map EXCEPT ![p] = m]
  BY <1>4 DEF DeleteArtifact, SInv, LocalTypes
<1>9. LocalTypes'
  BY <1>2, <1>5, <1>7, <1>8 DEF DeleteArtifact, SInv, LocalTypes, Label
<1>10. open'[p] = "no"
  BY <1>2, NothingOpen DEF DeleteArtifact, At, SInv, LocalTypes
<1>11. ASSUME NEW q \in Proc PROVE Stage(q)'
  BY <1>2, <1>4, <1>5, <1>7, <1>8, <1>10 DEF DeleteArtifact, SInv, LocalTypes, Stage
<1>12. QED
  BY <1>3, <1>9, <1>11 DEF SInv

LEMMA ToSaveTypes ==
  ASSUME SInv, NEW p \in Proc, pc[p] \in {"reset", "accept", "finish", "fallback"}
  PROVE  ToSave(p) \in Good
<1>1. pc[p] # "fallback" => map[p] \in Good
  BY DEF SInv, Stage
<1>2. pc[p] = "fallback" => own[p] \in Good
  BY DEF SInv, Stage
<1>3. pc[p] # "fallback" => [map[p] EXCEPT !.state = "prd_accepted"] \in Good
  BY <1>1, GoodUpdates DEF SessionState
<1>4. QED
  BY <1>1, <1>2, <1>3 DEF ToSave, At

LEMMA TruncateSessionTypes ==
  ASSUME SInv, NEW p \in Proc, TruncateSession(p)
  PROVE  SInv'
<1> USE DEF TruncateSession, counts
<1>1. DiskTypes' /\ CountTypes'
  BY DEF SInv, DiskTypes, CountTypes
<1>2. LocalTypes'
  BY DEF SInv, LocalTypes
<1>3. ASSUME NEW q \in Proc PROVE Stage(q)'
  BY DEF SInv, LocalTypes, Stage
<1>4. QED
  BY <1>1, <1>2, <1>3 DEF SInv

LEMMA FillSessionTypes ==
  ASSUME SInv, NEW p \in Proc, FillSession(p)
  PROVE  SInv'
<1>1. ToSave(p) \in Good
  BY ToSaveTypes DEF FillSession
<1>2. DiskTypes' /\ CountTypes'
  BY <1>1 DEF FillSession, Fill, counts, SInv, DiskTypes, CountTypes
<1>3. LocalTypes' /\ \A q \in Proc : Stage(q)'
  <2>1. CASE At(p, "finish")
    BY <2>1, QuitTypes DEF FillSession, At
  <2>2. CASE At(p, "fallback")
    <3>1. Fail(p, result[p], own[p]) /\ UNCHANGED cmd
      BY <2>2 DEF FillSession, At
    <3>2. QED
      BY <2>2, <3>1, FailTypes, ProcTypes DEF At
  <2>3. CASE pc[p] \in {"reset", "accept"}
    <3>1. Continue(cmd[p], map[p]) \in {"accept", "questions", "call"}
      BY DEF Continue
    <3>2. /\ map' = [map EXCEPT ![p] = ToSave(p)]
          /\ open' = [open EXCEPT ![p] = "no"]
          /\ UNCHANGED <<cmd, own, work, result>>
      BY <2>3 DEF FillSession, At
    <3>3. PICK l \in {"accept", "questions", "call"} : pc' = [pc EXCEPT ![p] = l]
      BY <2>3, <3>1 DEF FillSession, At, Goto
    <3>4. cmd[p].by = "cli"
      BY <2>3 DEF SInv, Stage
    <3>5. LocalTypes'
      BY <1>1, <3>2, <3>3 DEF SInv, LocalTypes, Label
    <3>6. ASSUME NEW q \in Proc PROVE Stage(q)'
      BY <1>1, <3>2, <3>3, <3>4 DEF SInv, LocalTypes, Stage
    <3>7. QED
      BY <3>5, <3>6
  <2>4. QED
    BY <2>1, <2>2, <2>3 DEF FillSession, At
<1>4. QED
  BY <1>2, <1>3 DEF SInv

LEMMA ShowQuestionsTypes ==
  ASSUME SInv, NEW p \in Proc, ShowQuestions(p)
  PROVE  SInv'
<1>1. DiskTypes' /\ CountTypes'
  BY DEF SInv, DiskTypes, CountTypes, ShowQuestions, disk, counts
<1>2. LocalTypes' /\ \A q \in Proc : Stage(q)'
  BY QuitTypes DEF ShowQuestions
<1>3. QED
  BY <1>1, <1>2 DEF SInv

LEMMA CleanupTypes ==
  ASSUME SInv, NEW p \in Proc, Cleanup(p)
  PROVE  SInv'
<1>1. work[p].at \in 1..3 /\ artifactFiles[work[p].at] \in Artifact
  BY ProcTypes, WorkTypes, FileTypes
<1>2. /\ art' \in [Artifact -> Generated \cup {Nil, Torn, Scaffold}]
      /\ open' \in [Proc -> {"no", "yes", "gone"}]
      /\ \A q \in Proc : open'[q] # "no" => open[q] # "no"
  <2>1. CASE Remove(artifactFiles[work[p].at])
    BY <1>1, <2>1, RemoveTypes
  <2>2. CASE UNCHANGED <<art, open>>
    BY <2>2 DEF SInv, LocalTypes, DiskTypes
  <2>3. QED
    BY <2>1, <2>2 DEF Cleanup
<1>3. DiskTypes' /\ CountTypes'
  BY <1>2, ErrorTypes DEF SInv, DiskTypes, CountTypes, Cleanup
<1>4. PICK w \in Work : work' = [work EXCEPT ![p] = w]
  <2>1. CASE work[p].at < 3
    BY <2>1, WorkNext, ProcTypes, Zenon DEF Cleanup
  <2>2. CASE ~(work[p].at < 3)
    BY <2>2, NoWorkType, Zenon DEF Cleanup
  <2>3. QED
    BY <2>1, <2>2
<1>5. \/ UNCHANGED <<pc, map>>
      \/ pc' = [pc EXCEPT ![p] = "idle"] /\ map' = [map EXCEPT ![p] = Nil]
  BY DEF Cleanup, Goto
<1>6. LocalTypes'
  BY <1>2, <1>4, <1>5 DEF Cleanup, SInv, LocalTypes, Label
<1>7. ASSUME NEW q \in Proc PROVE Stage(q)'
  BY <1>2, <1>4, <1>5 DEF Cleanup, At, SInv, LocalTypes, Stage
<1>8. QED
  BY <1>3, <1>6, <1>7 DEF SInv

-----------------------------------------------------------------------------
(***************************************************************************)
(* The steps of the library.                                               *)
(***************************************************************************)
LEMMA CallTypes ==
  ASSUME SInv, NEW p \in Proc, Call(p)
  PROVE  SInv'
<1> DEFINE h == IF own[p] # Nil THEN own[p] ELSE session
<1>1. DiskTypes' /\ CountTypes'
  BY DEF SInv, DiskTypes, CountTypes, Call, disk, counts
<1>2. /\ h \in Good \cup {Nil, Torn} /\ UNCHANGED cmd
      /\ pc[p] # "idle" /\ open[p] = "no"
  BY ProcTypes, NothingOpen DEF SInv, DiskTypes, Call, At
<1>3. cmd[p].do \in {"assess", "refine", "generate", "accept"}
  BY ProcTypes DEF Command
<1>4. LocalTypes' /\ \A q \in Proc : Stage(q)'
  <2>1. CASE h \in {Nil, Torn}
    <3>1. Fail(p, "failed", Nil)
      BY <2>1 DEF Call
    <3>2. QED
      BY <3>1, <1>2, FailTypes
  <2>2. CASE h \notin {Nil, Torn} /\ cmd[p].do # "accept"
    <3>1. h \in Good /\ Entered[cmd[p].do] \in SessionState
      BY <1>2, <1>3, <2>2 DEF Entered, SessionState
    <3>2. PICK g \in Good : g = [h EXCEPT !.state = Entered[cmd[p].do]]
      BY <3>1, GoodUpdates
    <3>3. /\ own' = [own EXCEPT ![p] = g]
          /\ pc' = [pc EXCEPT ![p] = "prd"]
          /\ UNCHANGED <<cmd, map, work, open, result>>
      BY <2>2, <3>2 DEF Call, Goto
    <3>4. LocalTypes'
      BY <3>3 DEF SInv, LocalTypes, Label
    <3>5. ASSUME NEW q \in Proc PROVE Stage(q)'
      BY <1>2, <3>3 DEF SInv, LocalTypes, Stage
    <3>6. QED
      BY <3>4, <3>5
  <2>3. CASE h \notin {Nil, Torn} /\ cmd[p].do = "accept"
    <3>1. h \in Good
      BY <1>2, <2>3
    <3>2. CASE h.state \in {"assessing", "refining"}
      <4>1. /\ own' = [own EXCEPT ![p] = h]
            /\ pc' = [pc EXCEPT ![p] = "persist"]
            /\ UNCHANGED <<cmd, map, work, open, result>>
        BY <2>3, <3>2 DEF Call, Goto
      <4> HIDE DEF h
      <4>2. LocalTypes'
        BY <3>1, <4>1 DEF SInv, LocalTypes, Label
      <4>3. ASSUME NEW q \in Proc PROVE Stage(q)'
        BY <1>2, <3>1, <4>1 DEF SInv, LocalTypes, Stage
      <4>4. QED
        BY <4>2, <4>3
    <3>3. CASE h.state \notin {"assessing", "refining"}
      <4>1. Quit(p, "refused") /\ Handle(p, h)
        BY <2>3, <3>3 DEF Call
      <4> HIDE DEF h
      <4>2. QED
        BY <3>1, <4>1, <1>2, QuitTypes
    <3>4. QED
      BY <3>2, <3>3
  <2>4. QED
    BY <2>1, <2>2, <2>3
<1>5. QED
  BY <1>1, <1>4 DEF SInv

LEMMA CancelTypes ==
  ASSUME SInv, NEW p \in Proc, Cancel(p)
  PROVE  SInv'
<1>1. DiskTypes' /\ CountTypes'
  BY DEF SInv, DiskTypes, CountTypes, Cancel, disk, counts
<1>2. LocalTypes' /\ \A q \in Proc : Stage(q)'
  BY FailTypes DEF Cancel, At
<1>3. QED
  BY <1>1, <1>2 DEF SInv

LEMMA ReadPrdTypes ==
  ASSUME SInv, NEW p \in Proc, ReadPrd(p)
  PROVE  SInv'
<1>1. DiskTypes' /\ CountTypes'
  BY DEF SInv, DiskTypes, CountTypes, ReadPrd, disk, counts
<1>2. own[p] \in Good /\ pc[p] = "prd"
  BY DEF SInv, Stage, ReadPrd, At
<1>3. PICK w \in Work : work' = [work EXCEPT ![p] = w]
  <2>1. prd \in Nat \cup {Torn} /\ work[p] \in Work
    BY ProcTypes DEF SInv, DiskTypes
  <2>2. [work[p] EXCEPT !.text = prd] \in Work
    BY <2>1, WorkTypes
  <2>3. work = [work EXCEPT ![p] = work[p]]
    BY DEF SInv, LocalTypes
  <2>4. QED
    BY <2>1, <2>2, <2>3, Zenon DEF ReadPrd
<1>4. PICK l \in {"survey", "ai", "error"} : pc' = [pc EXCEPT ![p] = l]
  BY DEF ReadPrd, Goto
<1>5. result' = result \/ result' = [result EXCEPT ![p] = "failed"]
  BY DEF ReadPrd
<1>6. LocalTypes'
  BY <1>3, <1>4, <1>5 DEF ReadPrd, SInv, LocalTypes, Label
<1>7. ASSUME NEW q \in Proc PROVE Stage(q)'
  BY <1>2, <1>3, <1>4 DEF ReadPrd, SInv, LocalTypes, Stage
<1>8. QED
  BY <1>1, <1>6, <1>7 DEF SInv

LEMMA SurveyTypes ==
  ASSUME SInv, NEW p \in Proc, Survey(p)
  PROVE  SInv'
<1>1. DiskTypes' /\ CountTypes'
  BY DEF SInv, DiskTypes, CountTypes, Survey, disk, counts
<1>2. own[p] \in Good /\ pc[p] = "survey"
  BY DEF SInv, Stage, Survey, At
<1>3. PICK w \in Work : work' = [work EXCEPT ![p] = w]
  <2> DEFINE have == {a \in Artifact : art[a] # Nil}
  <2>1. [work[p] EXCEPT !.have = have] \in Work
    BY ProcTypes, WorkTypes
  <2>2. QED
    BY <2>1, Zenon DEF Survey
<1>4. PICK l \in {"persist", "ai"} : pc' = [pc EXCEPT ![p] = l]
  BY DEF Survey, Goto
<1>5. LocalTypes'
  BY <1>3, <1>4 DEF Survey, SInv, LocalTypes, Label
<1>6. ASSUME NEW q \in Proc PROVE Stage(q)'
  BY <1>2, <1>3, <1>4 DEF Survey, SInv, LocalTypes, Stage
<1>7. QED
  BY <1>1, <1>5, <1>6 DEF SInv

LEMMA AnswerTypes ==
  ASSUME SInv, NEW p \in Proc, Answer(p)
  PROVE  SInv'
<1>1. DiskTypes' /\ CountTypes'
  BY DEF SInv, DiskTypes, CountTypes, Answer, disk
<1>2. own[p] \in Good /\ pc[p] = "ai" /\ UNCHANGED <<cmd, map, open, result>>
  BY DEF SInv, Stage, Answer, At
<1>3. cmd[p].do \in {"assess", "refine", "generate", "accept"}
  BY ProcTypes DEF Command
<1>4. CASE cmd[p].do = "assess"
  <2>1. PICK g \in Good : own' = [own EXCEPT ![p] = g]
    BY <1>2, <1>4, GoodRound, Zenon DEF Answer
  <2>2. pc' = [pc EXCEPT ![p] = "persist"] /\ UNCHANGED work
    BY <1>4 DEF Answer, Goto
  <2>3. LocalTypes'
    BY <1>2, <2>1, <2>2 DEF SInv, LocalTypes, Label
  <2>4. ASSUME NEW q \in Proc PROVE Stage(q)'
    BY <1>2, <2>1, <2>2 DEF SInv, LocalTypes, Stage
  <2>5. QED
    BY <1>1, <2>3, <2>4 DEF SInv
<1>5. CASE cmd[p].do = "refine"
  <2>1. pc' = [pc EXCEPT ![p] = "prdfile"] /\ UNCHANGED <<own, work>>
    BY <1>5 DEF Answer, Goto
  <2>2. LocalTypes'
    BY <1>2, <2>1 DEF SInv, LocalTypes, Label
  <2>3. ASSUME NEW q \in Proc PROVE Stage(q)'
    BY <1>2, <2>1 DEF SInv, LocalTypes, Stage
  <2>4. QED
    BY <1>1, <2>2, <2>3 DEF SInv
<1>6. CASE cmd[p].do \notin {"assess", "refine"}
  <2> DEFINE g == [gen |-> stamp + 1, prd |-> work[p].text]
  <2>1. g \in Generated
    <3>1. work[p].text \in Nat \cup {Torn}
      BY ProcTypes, WorkTypes, Zenon
    <3>2. stamp + 1 \in Nat
      BY DEF SInv, CountTypes
    <3>3. QED
      BY <3>1, <3>2 DEF Generated
  <2>2. /\ work' = [work EXCEPT ![p] = [work[p] EXCEPT !.gen = g,
                                                     !.todo = {"requirements"}]]
        /\ pc' = [pc EXCEPT ![p] = "artifact"] /\ UNCHANGED own
    BY <1>6 DEF Answer, Goto
  <2> HIDE DEF g
  <2>3. PICK w \in Work : work' = [work EXCEPT ![p] = w] /\ w.gen = g
    <3>1. {"requirements"} \in SUBSET Artifact /\ work[p] \in Work
      BY ProcTypes DEF Artifact
    <3>2. [work[p] EXCEPT !.gen = g, !.todo = {"requirements"}] \in Work
      BY <2>1, <3>1, WorkTypes, Zenon
    <3>3. [work[p] EXCEPT !.gen = g, !.todo = {"requirements"}].gen = g
      BY <3>1 DEF Work
    <3>4. QED
      BY <2>2, <3>2, <3>3, Zenon
  <2>4. LocalTypes'
    BY <1>2, <2>2, <2>3 DEF SInv, LocalTypes, Label
  <2>5. ASSUME NEW q \in Proc PROVE Stage(q)'
    <3>1. CASE q # p
      BY <1>2, <2>2, <2>3, <3>1 DEF SInv, LocalTypes, Stage
    <3>2. CASE q = p
      <4>1. open[p] = "no"
        BY <1>2 DEF SInv, Stage
      <4>2. QED
        BY <1>2, <2>1, <2>2, <2>3, <3>2, <4>1 DEF SInv, LocalTypes, Stage
    <3>3. QED
      BY <3>1, <3>2
  <2>6. QED
    BY <1>1, <2>4, <2>5 DEF SInv
<1>7. QED
  BY <1>4, <1>5, <1>6

LEMMA AnswerRestTypes ==
  ASSUME SInv, NEW p \in Proc, AnswerRest(p)
  PROVE  SInv'
<1>1. DiskTypes' /\ CountTypes'
  BY DEF SInv, DiskTypes, CountTypes, AnswerRest, disk, counts
<1>2. /\ own[p] \in Good /\ work[p].gen \in Generated /\ open[p] = "no"
      /\ pc[p] = "ai2" /\ UNCHANGED <<cmd, map, own, open, result>>
  BY NothingOpen DEF SInv, Stage, AnswerRest, At
<1>3. PICK w \in Work : work' = [work EXCEPT ![p] = w] /\ w.gen = work[p].gen
  <2>1. work[p] \in Work /\ {"test_spec", "tasks"} \in SUBSET Artifact
    BY ProcTypes DEF Artifact
  <2>2. [work[p] EXCEPT !.todo = {"test_spec", "tasks"}] \in Work
    BY <2>1, WorkTypes, Zenon
  <2>3. [work[p] EXCEPT !.todo = {"test_spec", "tasks"}].gen = work[p].gen
    BY <2>1 DEF Work
  <2>4. work = [work EXCEPT ![p] = work[p]]
    BY DEF SInv, LocalTypes
  <2>5. QED
    BY <2>1, <2>2, <2>3, <2>4, Zenon DEF AnswerRest
<1>4. PICK l \in {"error", "artifact"} : pc' = [pc EXCEPT ![p] = l]
  BY DEF AnswerRest, Goto
<1>5. LocalTypes'
  BY <1>2, <1>3, <1>4 DEF SInv, LocalTypes, Label
<1>6. ASSUME NEW q \in Proc PROVE Stage(q)'
  BY <1>2, <1>3, <1>4 DEF SInv, LocalTypes, Stage
<1>7. QED
  BY <1>1, <1>5, <1>6 DEF SInv

LEMMA RefuseTypes ==
  ASSUME SInv, NEW p \in Proc, Refuse(p)
  PROVE  SInv'
<1>1. DiskTypes' /\ CountTypes'
  BY DEF SInv, DiskTypes, CountTypes, Refuse, disk, counts
<1>2. own[p] \in Good /\ open[p] = "no" /\ pc[p] \in {"ai", "ai2"}
  BY NothingOpen DEF SInv, Stage, Refuse
<1>3. PICK r \in {"none", "ok", "refused", "failed"} :
        result' = [result EXCEPT ![p] = r]
  BY ProcTypes DEF Refuse
<1>4. LocalTypes'
  BY <1>3 DEF Refuse, Goto, SInv, LocalTypes, Label
<1>5. ASSUME NEW q \in Proc PROVE Stage(q)'
  BY <1>2 DEF Refuse, Goto, SInv, LocalTypes, Stage
<1>6. QED
  BY <1>1, <1>4, <1>5 DEF SInv

LEMMA TruncatePrdTypes ==
  ASSUME SInv, NEW p \in Proc, TruncatePrd(p)
  PROVE  SInv'
<1> USE DEF TruncatePrd, counts
<1>1. DiskTypes' /\ CountTypes'
  BY DEF SInv, DiskTypes, CountTypes
<1>2. LocalTypes'
  BY DEF SInv, LocalTypes
<1>3. ASSUME NEW q \in Proc PROVE Stage(q)'
  BY DEF SInv, LocalTypes, Stage, At
<1>4. QED
  BY <1>1, <1>2, <1>3 DEF SInv

LEMMA FillPrdTypes ==
  ASSUME SInv, NEW p \in Proc, FillPrd(p)
  PROVE  SInv'
<1>1. DiskTypes' /\ CountTypes'
  BY DEF FillPrd, Fill, SInv, DiskTypes, CountTypes
<1>2. own[p] \in Good /\ pc[p] = "prdfile" /\ UNCHANGED <<cmd, map, work, result>>
  BY DEF SInv, Stage, FillPrd, At
<1>3. PICK g \in Good : own' = [own EXCEPT ![p] = g]
  BY <1>2, GoodAnswered, Zenon DEF FillPrd
<1>4. pc' = [pc EXCEPT ![p] = "persist"] /\ open' = [open EXCEPT ![p] = "no"]
  BY DEF FillPrd, Goto
<1>5. LocalTypes'
  BY <1>2, <1>3, <1>4 DEF SInv, LocalTypes, Label
<1>6. ASSUME NEW q \in Proc PROVE Stage(q)'
  BY <1>2, <1>3, <1>4 DEF SInv, LocalTypes, Stage
<1>7. QED
  BY <1>1, <1>5, <1>6 DEF SInv

LEMMA TruncateArtifactTypes ==
  ASSUME SInv, NEW p \in Proc, TruncateArtifact(p)
  PROVE  SInv'
<1>1. PICK a \in work[p].todo :
        /\ art' = [art EXCEPT ![a] = Torn]
        /\ work' = [work EXCEPT ![p] =
             [work[p] EXCEPT !.file = a, !.todo = work[p].todo \ {a}]]
  BY DEF TruncateArtifact
<1>2. work[p] \in Work /\ work[p].todo \in SUBSET Artifact
  BY ProcTypes, WorkTypes, Zenon
<1>3. DiskTypes' /\ CountTypes'
  BY <1>1, <1>2 DEF TruncateArtifact, counts, SInv, DiskTypes, CountTypes
<1>4. /\ own[p] \in Good /\ work[p].gen \in Generated /\ pc[p] = "artifact"
      /\ UNCHANGED <<pc, cmd, map, own, result>>
      /\ open' = [open EXCEPT ![p] = "yes"]
  BY DEF SInv, Stage, TruncateArtifact, At
<1>5. PICK w \in Work : /\ work' = [work EXCEPT ![p] = w]
                        /\ w.file = a /\ w.gen = work[p].gen
  <2> DEFINE w == [work[p] EXCEPT !.file = a, !.todo = work[p].todo \ {a}]
  <2>1. a \in Artifact /\ work[p].todo \ {a} \in SUBSET Artifact
    BY <1>1, <1>2
  <2>2. w \in Work
    BY <1>2, <2>1, WorkTypes, Zenon
  <2>3. w.file = a /\ w.gen = work[p].gen
    BY <1>2 DEF Work
  <2>4. QED
    BY <1>1, <2>2, <2>3, Zenon
<1>6. LocalTypes'
  BY <1>4, <1>5 DEF SInv, LocalTypes
<1>7. ASSUME NEW q \in Proc PROVE Stage(q)'
  BY <1>1, <1>2, <1>4, <1>5 DEF SInv, LocalTypes, Stage
<1>8. QED
  BY <1>3, <1>6, <1>7 DEF SInv

LEMMA FillArtifactTypes ==
  ASSUME SInv, NEW p \in Proc, FillArtifact(p)
  PROVE  SInv'
<1>1. /\ own[p] \in Good /\ work[p].gen \in Generated /\ work[p].file \in Artifact
      /\ pc[p] = "artifact" /\ UNCHANGED <<cmd, map, work, result>>
  BY DEF SInv, Stage, FillArtifact, At
<1>2. PICK content \in Generated \cup {Nil, Torn, Scaffold} :
        art' = [art EXCEPT ![work[p].file] = content]
  BY <1>1 DEF FillArtifact, Fill, SInv, DiskTypes
<1>3. DiskTypes' /\ CountTypes'
  BY <1>1, <1>2 DEF FillArtifact, counts, SInv, DiskTypes, CountTypes
<1>4. PICK g \in Good : own' = [own EXCEPT ![p] = g]
  <2>1. WithName(own[p].listed, work[p].file) \in Listed
    BY <1>1, GoodUpdates, ListedTypes
  <2>2. [own[p] EXCEPT !.listed = WithName(own[p].listed, work[p].file)] \in Good
    BY <1>1, <2>1, GoodUpdates, Zenon
  <2>3. QED
    BY <2>2, Zenon DEF FillArtifact
<1>5. PICK l \in {"artifact", "ai2", "persist"} : pc' = [pc EXCEPT ![p] = l]
  BY DEF FillArtifact, AfterFile, Goto
<1>6. open' = [open EXCEPT ![p] = "no"]
  BY DEF FillArtifact
<1>7. LocalTypes'
  BY <1>1, <1>4, <1>5, <1>6 DEF SInv, LocalTypes, Label
<1>8. ASSUME NEW q \in Proc PROVE Stage(q)'
  BY <1>1, <1>4, <1>5, <1>6 DEF SInv, LocalTypes, Stage
<1>9. QED
  BY <1>3, <1>7, <1>8 DEF SInv

LEMMA ArtifactFailsTypes ==
  ASSUME SInv, NEW p \in Proc, ArtifactFails(p)
  PROVE  SInv'
<1>1. DiskTypes' /\ CountTypes'
  BY ErrorTypes DEF SInv, DiskTypes, CountTypes, ArtifactFails, disk
<1>2. /\ own[p] \in Good /\ work[p].gen \in Generated /\ pc[p] = "artifact"
      /\ UNCHANGED <<cmd, map, own>>
      /\ open' = [open EXCEPT ![p] = "no"]
      /\ result' = [result EXCEPT ![p] = "failed"]
  BY DEF SInv, Stage, ArtifactFails, At
<1>3. PICK l \in {"ai2", "error"} : pc' = [pc EXCEPT ![p] = l]
  BY DEF ArtifactFails, Goto
<1>4. PICK w \in Work : work' = [work EXCEPT ![p] = w] /\ w.gen = work[p].gen
  <2> DEFINE w == [work[p] EXCEPT !.broken = TRUE, !.todo = {}]
  <2>1. work[p] \in Work
    BY ProcTypes
  <2>2. w \in Work
    BY <2>1, WorkTypes, Zenon
  <2>3. w.gen = work[p].gen
    BY <2>1 DEF Work
  <2>4. work' = [work EXCEPT ![p] = w]
    BY DEF ArtifactFails
  <2>5. QED
    BY <2>2, <2>3, <2>4, Zenon
<1>5. LocalTypes'
  BY <1>2, <1>3, <1>4 DEF SInv, LocalTypes, Label
<1>6. ASSUME NEW q \in Proc PROVE Stage(q)'
  BY <1>2, <1>3, <1>4 DEF SInv, LocalTypes, Stage
<1>7. QED
  BY <1>1, <1>5, <1>6 DEF SInv

LEMMA PrdFailsTypes ==
  ASSUME SInv, NEW p \in Proc, PrdFails(p)
  PROVE  SInv'
<1> USE DEF PrdFails, Goto
<1>1. DiskTypes' /\ CountTypes'
  BY ErrorTypes DEF SInv, DiskTypes, CountTypes, disk
<1>2. LocalTypes'
  BY DEF SInv, LocalTypes, Label
<1>3. ASSUME NEW q \in Proc PROVE Stage(q)'
  BY DEF SInv, LocalTypes, Stage, At
<1>4. QED
  BY <1>1, <1>2, <1>3 DEF SInv

-----------------------------------------------------------------------------
(***************************************************************************)
(* Persisting, creating, failing, crashing.                                *)
(***************************************************************************)
LEMMA FinalTypes ==
  ASSUME SInv, NEW p \in Proc, own[p] \in Good
  PROVE  Final(p) \in Good
<1> DEFINE l == WithFound(own[p].listed, work[p].have)
<1>1. l \in Listed
  BY ProcTypes, WorkTypes, GoodUpdates, ListedTypes, Zenon
<1>2. [own[p] EXCEPT !.state = "generated", !.listed = l] \in Good
  BY <1>1, GoodUpdates DEF SessionState
<1>3. [own[p] EXCEPT !.state = "prd_accepted"] \in Good
  BY GoodUpdates DEF SessionState
<1>4. QED
  BY <1>2, <1>3 DEF Final

LEMMA ReplaceTypes ==
  ASSUME SInv, NEW s \in Good, Replace(s)
  PROVE  /\ session' \in Good
         /\ open' \in [Proc -> {"no", "yes", "gone"}]
         /\ \A q \in Proc : open'[q] # "no" => open[q] # "no"
BY DEF SInv, LocalTypes, Replace

LEMMA PersistTypes ==
  ASSUME SInv, NEW p \in Proc, Persist(p)
  PROVE  SInv'
<1>1. /\ own[p] \in Good /\ pc[p] = "persist" /\ UNCHANGED cmd
      /\ open[p] = "no"
  BY NothingOpen DEF SInv, Stage, Persist, At
<1>2. PICK s \in Good : s = Final(p) /\ Replace(s)
  BY <1>1, FinalTypes DEF Persist
<1>3. /\ session' \in Good
      /\ open' \in [Proc -> {"no", "yes", "gone"}]
      /\ \A q \in Proc : open'[q] # "no" => open[q] # "no"
  BY <1>2, ReplaceTypes
<1>4. DiskTypes' /\ CountTypes'
  BY <1>3 DEF Persist, counts, SInv, DiskTypes, CountTypes
<1>5. CASE cmd[p].by = "cli" /\ cmd[p].do = "generate"
  <2>1. PICK m \in Good : map' = [map EXCEPT ![p] = m]
    <3>1. map[p] \in Good
      BY <1>1, <1>5 DEF SInv, Stage
    <3>2. AsFiles(s.listed) \in Listed
      BY GoodUpdates, ListedTypes
    <3>3. [map[p] EXCEPT !.listed = AsFiles(s.listed)] \in Good
      BY <3>1, <3>2, GoodUpdates
    <3>4. map' = [map EXCEPT ![p] = [map[p] EXCEPT !.listed = AsFiles(s.listed)]]
      BY <1>2, <1>5 DEF Persist
    <3>5. QED
      BY <3>3, <3>4, Zenon
  <2>2. /\ pc' = [pc EXCEPT ![p] = "finish"] /\ own' = [own EXCEPT ![p] = Nil]
        /\ UNCHANGED <<work, result>>
    BY <1>5 DEF Persist, Goto
  <2>3. LocalTypes'
    BY <1>1, <1>3, <2>1, <2>2 DEF SInv, LocalTypes, Label
  <2>4. ASSUME NEW q \in Proc PROVE Stage(q)'
    BY <1>1, <1>3, <1>5, <2>1, <2>2 DEF SInv, LocalTypes, Stage
  <2>5. QED
    BY <1>4, <2>3, <2>4 DEF SInv
<1>6. CASE ~(cmd[p].by = "cli" /\ cmd[p].do = "generate")
  <2>1. /\ map' = [map EXCEPT ![p] = Nil]
        /\ pc' = [pc EXCEPT ![p] = "idle"]
        /\ Handle(p, s)
        /\ work' = [work EXCEPT ![p] = NoWork]
        /\ result' = [result EXCEPT ![p] = "ok"]
    BY <1>2, <1>6 DEF Persist, Goto
  <2>2. PICK h \in Good \cup {Nil} : own' = [own EXCEPT ![p] = h]
    BY <2>1 DEF Handle
  <2>3. LocalTypes'
    BY <1>1, <1>3, <2>1, <2>2, NoWorkType DEF SInv, LocalTypes, Label
  <2>4. ASSUME NEW q \in Proc PROVE Stage(q)'
    BY <1>1, <1>3, <2>1, <2>2 DEF SInv, LocalTypes, Stage
  <2>5. QED
    BY <1>4, <2>3, <2>4 DEF SInv
<1>7. QED
  BY <1>5, <1>6

LEMMA PersistFailsTypes ==
  ASSUME SInv, NEW p \in Proc, PersistFails(p)
  PROVE  SInv'
<1>1. DiskTypes' /\ CountTypes'
  BY ErrorTypes DEF SInv, DiskTypes, CountTypes, PersistFails, disk
<1>2. own[p] \in Good /\ pc[p] # "idle"
  BY DEF SInv, Stage, PersistFails, At
<1>3. PICK h \in Good : h = IF cmd[p].do = "accept" THEN own[p] ELSE Final(p)
  BY <1>2, FinalTypes
<1>4. LocalTypes' /\ \A q \in Proc : Stage(q)'
  BY <1>2, <1>3, FailTypes DEF PersistFails
<1>5. QED
  BY <1>1, <1>4 DEF SInv

LEMMA PersistErrorTypes ==
  ASSUME SInv, NEW p \in Proc, PersistError(p)
  PROVE  SInv'
<1>1. /\ own[p] \in Good /\ pc[p] = "error" /\ UNCHANGED <<prd, art, cmd, result>>
      /\ open[p] = "no"
  BY NothingOpen DEF SInv, Stage, PersistError, At
<1>2. PICK s \in Good : s = [own[p] EXCEPT !.err = TRUE]
  BY <1>1, GoodUpdates
<1>3. CASE Replace(s) /\ UNCHANGED faults
  <2>1. /\ session' \in Good
        /\ open' \in [Proc -> {"no", "yes", "gone"}]
        /\ \A q \in Proc : open'[q] # "no" => open[q] # "no"
    BY <1>3, ReplaceTypes
  <2>2. DiskTypes' /\ CountTypes'
    BY <1>1, <1>3, <2>1 DEF PersistError, SInv, DiskTypes, CountTypes
  <2>3. \/ /\ cmd[p].by = "cli"
           /\ pc' = [pc EXCEPT ![p] = "cleanup"]
           /\ work' = [work EXCEPT ![p] = [work[p] EXCEPT !.at = 1]]
           /\ own' = [own EXCEPT ![p] = Nil]
           /\ UNCHANGED map
        \/ /\ pc' = [pc EXCEPT ![p] = "idle"]
           /\ work' = [work EXCEPT ![p] = NoWork]
           /\ Handle(p, s)
           /\ map' = [map EXCEPT ![p] = Nil]
        \/ pc' = [pc EXCEPT ![p] = "fallback"] /\ UNCHANGED <<session, map, work, open>>
           /\ own' = [own EXCEPT ![p] = s]
    BY <1>2 DEF PersistError, Goto
  <2>4. PICK w \in Work : work' = [work EXCEPT ![p] = w]
    <3>1. [work[p] EXCEPT !.at = 1] \in Work /\ work[p] \in Work
      BY ProcTypes, WorkTypes, Zenon
    <3>2. work = [work EXCEPT ![p] = work[p]]
      BY DEF SInv, LocalTypes
    <3>3. QED
      BY <2>3, <3>1, <3>2, NoWorkType, Zenon
  <2>5. PICK h \in Good \cup {Nil} : own' = [own EXCEPT ![p] = h]
    BY <2>3 DEF Handle
  <2>6. LocalTypes'
    BY <1>1, <2>1, <2>3, <2>4, <2>5 DEF SInv, LocalTypes, Label
  <2>7. ASSUME NEW q \in Proc PROVE Stage(q)'
    <3>1. CASE pc' = [pc EXCEPT ![p] = "fallback"]
      <4>1. own' = [own EXCEPT ![p] = s] /\ UNCHANGED <<map, work, open>>
        BY <2>3, <3>1, <1>1 DEF SInv, LocalTypes
      <4>2. QED
        BY <1>1, <2>1, <3>1, <4>1 DEF SInv, LocalTypes, Stage
    <3>2. CASE pc' # [pc EXCEPT ![p] = "fallback"]
      BY <1>1, <2>1, <2>3, <2>4, <2>5, <3>2 DEF SInv, LocalTypes, Stage
    <3>3. QED
      BY <3>1, <3>2
  <2>8. QED
    BY <2>2, <2>6, <2>7 DEF SInv
<1>4. CASE ~(Replace(s) /\ UNCHANGED faults)
  <2>1. /\ Error
        /\ own' = [own EXCEPT ![p] = s]
        /\ pc' = [pc EXCEPT ![p] = "fallback"]
        /\ UNCHANGED <<session, map, work, open>>
    BY <1>2, <1>4 DEF PersistError, Goto
  <2>2. DiskTypes' /\ CountTypes'
    BY <1>1, <2>1, ErrorTypes DEF PersistError, SInv, DiskTypes, CountTypes
  <2>3. LocalTypes'
    BY <1>1, <2>1 DEF SInv, LocalTypes, Label
  <2>4. ASSUME NEW q \in Proc PROVE Stage(q)'
    BY <1>1, <2>1 DEF SInv, LocalTypes, Stage
  <2>5. QED
    BY <2>2, <2>3, <2>4 DEF SInv
<1>5. QED
  BY <1>3, <1>4

LEMMA CreateTypes ==
  ASSUME SInv, NEW p \in Proc, Create(p)
  PROVE  SInv'
<1>1. PICK s \in Good : s = Fresh(TRUE)
  BY GoodFresh
<1>2. /\ session' \in Good \cup {Nil, Torn}
      /\ open' \in [Proc -> {"no", "yes", "gone"}]
      /\ \A q \in Proc : open'[q] # "no" => open[q] # "no"
  <2>1. CASE Replace(s)
    BY <2>1, ReplaceTypes
  <2>2. CASE UNCHANGED <<session, open>>
    BY <2>2 DEF SInv, LocalTypes, DiskTypes
  <2>3. QED
    BY <1>1, <2>1, <2>2 DEF Create
<1>3. DiskTypes'
  BY <1>2 DEF Create, SInv, DiskTypes
<1>4. CountTypes'
  <2>1. CountTypes /\ MaxRuns \in Nat
    BY SessionAssumption DEF SInv
  <2>2. faults' \in 0..MaxFaults
    BY <2>1, ErrorTypes DEF Create, CountTypes
  <2>3. runs' \in 0..MaxRuns /\ stamp' \in Nat
    BY <2>1 DEF Create, CountTypes
  <2>4. QED
    BY <2>2, <2>3 DEF CountTypes
<1>5. PICK h \in Good \cup {Nil} : own' = [own EXCEPT ![p] = h] \/ own' = own
  BY <1>1 DEF Create
<1>6. PICK r \in {"ok", "failed"} : result' = [result EXCEPT ![p] = r]
  BY DEF Create
<1>7. pc[p] = "idle" /\ UNCHANGED <<pc, cmd, map, work>>
  BY DEF Create, At
<1>8. LocalTypes'
  BY <1>2, <1>5, <1>6, <1>7 DEF SInv, LocalTypes
<1>9. ASSUME NEW q \in Proc PROVE Stage(q)'
  BY <1>2, <1>5, <1>7 DEF SInv, LocalTypes, Stage
<1>10. QED
  BY <1>3, <1>4, <1>8, <1>9 DEF SInv

LEMMA CallFailsTypes ==
  ASSUME SInv, NEW p \in Proc, CallFails(p)
  PROVE  SInv'
<1>1. DiskTypes' /\ CountTypes' /\ UNCHANGED cmd
  BY ErrorTypes DEF SInv, DiskTypes, CountTypes, CallFails, disk
<1>2. CASE At(p, "prd")
  <2>1. /\ result' = [result EXCEPT ![p] = "failed"]
        /\ pc' = [pc EXCEPT ![p] = "error"]
        /\ UNCHANGED <<map, own, work, open>>
    BY <1>2 DEF CallFails, At, Goto
  <2>2. LocalTypes'
    BY <1>1, <2>1 DEF SInv, LocalTypes, Label
  <2>3. ASSUME NEW q \in Proc PROVE Stage(q)'
    BY <1>1, <1>2, <2>1 DEF SInv, LocalTypes, Stage, At
  <2>4. QED
    BY <1>1, <2>2, <2>3 DEF SInv
<1>3. CASE At(p, "call")
  BY <1>1, <1>3, FailTypes DEF CallFails, At, SInv
<1>4. CASE pc[p] \in {"delete", "reset", "accept", "finish"}
  <2>1. Quit(p, "failed") /\ Handle(p, Nil)
    BY <1>4 DEF CallFails, At
  <2>2. QED
    BY <1>1, <2>1, QuitTypes DEF SInv
<1>5. CASE At(p, "fallback")
  <2>1. Fail(p, result[p], own[p])
    BY <1>5 DEF CallFails, At
  <2>2. QED
    BY <1>1, <1>5, <2>1, FailTypes, ProcTypes DEF At, SInv
<1>6. QED
  BY <1>2, <1>3, <1>4, <1>5 DEF CallFails, At

LEMMA CrashTypes ==
  ASSUME SInv, NEW p \in Proc, Crash(p)
  PROVE  SInv'
<1>1. DiskTypes' /\ CountTypes'
  BY ErrorTypes DEF SInv, DiskTypes, CountTypes, Crash, disk
<1>2. LocalTypes'
  BY NoWorkType DEF Crash, Quit, Goto, SInv, LocalTypes, Label
<1>3. ASSUME NEW q \in Proc PROVE Stage(q)'
  BY DEF Crash, Quit, Goto, SInv, LocalTypes, Stage
<1>4. QED
  BY <1>1, <1>2, <1>3 DEF SInv

-----------------------------------------------------------------------------
LEMMA SInit == Init => SInv
<1> SUFFICES ASSUME Init PROVE SInv
  OBVIOUS
<1>1. DiskTypes
  BY GoodFresh DEF Init, DiskTypes
<1>2. CountTypes
  BY SessionAssumption DEF Init, CountTypes
<1>3. [by |-> "host", do |-> "assess", force |-> FALSE] \in Command
  BY DEF Command
<1>4. LocalTypes
  BY <1>3, NoWorkType DEF Init, LocalTypes, Label
<1>5. \A p \in Proc : Stage(p)
  BY DEF Init, Stage
<1>6. QED
  BY <1>1, <1>2, <1>4, <1>5 DEF SInv

LEMMA SNext == SInv /\ [Next]_vars => SInv'
<1> SUFFICES ASSUME SInv, [Next]_vars PROVE SInv'
  OBVIOUS
<1>1. ASSUME NEW p \in Proc, Step(p) PROVE SInv'
  BY <1>1, DeleteArtifactTypes, TruncateSessionTypes, FillSessionTypes,
     ShowQuestionsTypes, CleanupTypes, CallTypes, ReadPrdTypes, SurveyTypes,
     AnswerTypes, AnswerRestTypes, TruncatePrdTypes, FillPrdTypes,
     TruncateArtifactTypes, FillArtifactTypes, PersistTypes, PersistErrorTypes
     DEF Step
<1>2. ASSUME NEW p \in Proc, Fault(p) PROVE SInv'
  BY <1>2, CancelTypes, RefuseTypes, ArtifactFailsTypes, PrdFailsTypes,
     PersistFailsTypes, CallFailsTypes, CrashTypes DEF Fault
<1>3. CASE Next
  BY <1>1, <1>2, <1>3, StartTypes, CreateTypes DEF Next
<1>4. CASE UNCHANGED vars
  <2>1. DiskTypes' /\ CountTypes' /\ LocalTypes'
    BY <1>4 DEF SInv, DiskTypes, CountTypes, LocalTypes, vars, disk, local, counts
  <2>2. \A p \in Proc : Stage(p)'
    BY <1>4 DEF SInv, Stage, vars, disk, local, counts
  <2>3. QED
    BY <2>1, <2>2 DEF SInv
<1>5. QED
  BY <1>3, <1>4

\* The types, whatever users, processes and files do.
THEOREM SessionTypes == Spec => []TypeOK
<1>1. SInv => TypeOK
  BY SInvImplies
<1>2. QED
  BY <1>1, SInit, SNext, PTL DEF Spec

\* The exchanges of a session on disk answer assessments in their order and none
\* the last one, for any number of concurrent commands and programs with copies
\* of their own and with every habit (Refine, persistSession, saveSession).
THEOREM ExchangesInOrder == Spec => []QaInOrder
<1>1. SInv => QaInOrder
  BY SInvImplies
<1>2. QED
  BY <1>1, SInit, SNext, PTL DEF Spec

-----------------------------------------------------------------------------
(***************************************************************************)
(* One at a time: without concurrent calls at most one process is doing    *)
(* something, and nobody takes its open file away.                         *)
(***************************************************************************)
Solo ==
  /\ SInv
  /\ \A p, q \in Proc : pc[p] # "idle" /\ pc[q] # "idle" => p = q
  /\ \A p \in Proc : open[p] # "gone"

\* A step of p leaves what the others have alone, but for a file one has open.
Only(p) ==
  \A q \in Proc \ {p} :
    /\ pc'[q] = pc[q] /\ cmd'[q] = cmd[q] /\ map'[q] = map[q]
    /\ own'[q] = own[q] /\ work'[q] = work[q]
    /\ open[q] = "no" => open'[q] = "no"

LEMMA QuitOnly ==
  ASSUME SInv, NEW p \in Proc, NEW r, NEW h, Quit(p, r), Handle(p, h), UNCHANGED cmd
  PROVE  /\ Only(p) /\ pc'[p] = "idle" /\ map'[p] = Nil /\ work'[p] = NoWork
         /\ open'[p] = "no" /\ own'[p] \in {Nil, h}
         /\ "keep_handle" \notin Habits => own'[p] = Nil
BY DEF SInv, LocalTypes, Quit, Handle, Goto, Only

LEMMA FailOnly ==
  ASSUME SInv, NEW p \in Proc, NEW r, NEW h, Fail(p, r, h), UNCHANGED cmd
  PROVE  /\ Only(p) /\ open'[p] = "no" /\ own'[p] \in {Nil, h}
         /\ map'[p] \in {map[p], Nil}
         /\ \/ pc'[p] = "idle" /\ work'[p] = NoWork
            \/ pc'[p] = "cleanup" /\ cmd[p].do = "generate" /\ own'[p] = Nil
         /\ "keep_handle" \notin Habits => own'[p] = Nil
<1>1. CASE cmd[p].by = "cli" /\ cmd[p].do = "generate"
  BY <1>1 DEF SInv, LocalTypes, Fail, Goto, Only
<1>2. CASE ~(cmd[p].by = "cli" /\ cmd[p].do = "generate")
  BY <1>2, QuitOnly DEF Fail
<1>3. QED
  BY <1>1, <1>2

LEMMA RemoveOnly ==
  ASSUME SInv, NEW p \in Proc, NEW a, Remove(a), pc[p] # "artifact"
  PROVE  open'[p] = open[p] /\ \A q \in Proc : open[q] = "no" => open'[q] = "no"
BY DEF SInv, LocalTypes, Remove, At

LEMMA ReplaceOnly ==
  ASSUME SInv, NEW p \in Proc, NEW s, Replace(s),
         pc[p] \notin {"reset", "accept", "finish", "fallback"}
  PROVE  open'[p] = open[p] /\ \A q \in Proc : open[q] = "no" => open'[q] = "no"
BY DEF SInv, LocalTypes, Replace

\* Whatever p does is about it alone.
LEMMA ActsAlone ==
  ASSUME SInv, NEW p \in Proc, Step(p) \/ Fault(p)
  PROVE  /\ Only(p) /\ UNCHANGED cmd
         /\ pc[p] = "idle" =>
              /\ own[p] # Nil /\ pc'[p] = "idle"
              /\ \A q \in Proc \ {p} : open'[q] = open[q]
         /\ open'[p] \in {"no", "yes", open[p]}
<1> USE DEF At, disk, counts
<1>1. LocalTypes
  BY DEF SInv
<1>2. CASE DeleteArtifact(p) \/ Cleanup(p)
  <2>1. open'[p] = open[p] /\ \A q \in Proc : open[q] = "no" => open'[q] = "no"
    BY <1>2, RemoveOnly DEF DeleteArtifact, Cleanup
  <2> QED
    BY <1>1, <1>2, <2>1 DEF DeleteArtifact, Cleanup, LocalTypes, Only, Goto
<1>3. CASE Persist(p) \/ PersistError(p)
  <2>1. open'[p] = open[p] /\ \A q \in Proc : open[q] = "no" => open'[q] = "no"
    BY <1>3, ReplaceOnly DEF Persist, PersistError
  <2> QED
    BY <1>1, <1>3, <2>1 DEF Persist, PersistError, LocalTypes, Only, Goto, Handle
<1>4. CASE FillSession(p)
  <2>1. CASE At(p, "finish") \/ At(p, "fallback")
    BY <1>4, <2>1, QuitOnly, FailOnly DEF FillSession
  <2>2. CASE ~(At(p, "finish") \/ At(p, "fallback"))
    BY <1>1, <1>4, <2>2 DEF FillSession, LocalTypes, Only, Goto
  <2> QED
    BY <2>1, <2>2
<1>5. CASE Call(p)
  <2>1. CASE \E r, h : Fail(p, r, h) \/ (Quit(p, r) /\ Handle(p, h))
    BY <1>5, <2>1, QuitOnly, FailOnly DEF Call
  <2>2. CASE ~\E r, h : Fail(p, r, h) \/ (Quit(p, r) /\ Handle(p, h))
    BY <1>1, <1>5, <2>2 DEF Call, LocalTypes, Only, Goto
  <2> QED
    BY <2>1, <2>2
<1>6. CASE ShowQuestions(p) \/ Cancel(p) \/ PersistFails(p)
  BY <1>6, QuitOnly, FailOnly DEF ShowQuestions, Cancel, PersistFails
<1>7. CASE Crash(p)
  BY <1>1, <1>7 DEF Crash, Quit, Goto, LocalTypes, Only
<1>8. CASE CallFails(p)
  <2>1. CASE pc[p] = "prd"
    BY <1>1, <1>8, <2>1 DEF CallFails, LocalTypes, Only, Goto
  <2>2. CASE pc[p] # "prd"
    BY <1>8, <2>2, QuitOnly, FailOnly DEF CallFails
  <2> QED
    BY <2>1, <2>2
<1>9. CASE TruncateSession(p) \/ TruncatePrd(p) \/ FillPrd(p) \/ TruncateArtifact(p)
           \/ FillArtifact(p) \/ ArtifactFails(p) \/ PrdFails(p)
  BY <1>1, <1>9
     DEF TruncateSession, TruncatePrd, FillPrd, TruncateArtifact, FillArtifact,
         ArtifactFails, PrdFails, LocalTypes, Only, Goto
<1>10. CASE ReadPrd(p) \/ Survey(p) \/ Answer(p) \/ AnswerRest(p) \/ Refuse(p)
  BY <1>1, <1>10 DEF ReadPrd, Survey, Answer, AnswerRest, Refuse, LocalTypes, Only, Goto
<1> QED
  BY <1>2, <1>3, <1>4, <1>5, <1>6, <1>7, <1>8, <1>9, <1>10 DEF Step, Fault

LEMMA StartOnly ==
  ASSUME SInv, NEW p \in Proc, NEW c \in Command, Start(p, c)
  PROVE  Only(p) /\ pc[p] = "idle" /\ UNCHANGED open
BY DEF SInv, LocalTypes, Start, Only, Goto, At

LEMMA CreateOnly ==
  ASSUME SInv, NEW p \in Proc, Create(p)
  PROVE  /\ Only(p) /\ UNCHANGED <<pc, cmd, map, work>>
         /\ pc[p] = "idle" /\ open'[p] = open[p]
<1>1. open'[p] = open[p] /\ \A q \in Proc : open[q] = "no" => open'[q] = "no"
  BY ReplaceOnly DEF Create, At
<1> QED
  BY <1>1 DEF SInv, LocalTypes, Create, Only, At

\* While p does something the others are idle, and stay so.
LEMMA OthersIdle ==
  ASSUME Solo, NEW p \in Proc, Only(p),
         pc[p] # "idle" \/ \A q \in Proc : pc[q] = "idle"
  PROVE  \A q \in Proc \ {p} : pc[q] = "idle" /\ pc'[q] = "idle" /\ open'[q] = "no"
<1>1. \A q \in Proc \ {p} : pc[q] = "idle" /\ open[q] = "no"
  BY NothingOpen DEF Solo
<1> QED
  BY <1>1 DEF Only

LEMMA SoloNext == "concurrent" \notin Habits /\ Solo /\ [Next]_vars => Solo'
<1> SUFFICES ASSUME "concurrent" \notin Habits, Solo, [Next]_vars PROVE Solo'
  OBVIOUS
<1> DEFINE Kept == /\ \A p, q \in Proc : pc'[p] # "idle" /\ pc'[q] # "idle" => p = q
                   /\ \A p \in Proc : open'[p] # "gone"
<1>1. SInv /\ SInv'
  BY SNext DEF Solo
<1>2. ASSUME NEW p \in Proc, Step(p) \/ Fault(p) PROVE Kept
  <2>1. /\ Only(p) /\ open'[p] \in {"no", "yes", open[p]}
        /\ pc[p] = "idle" =>
             pc'[p] = "idle" /\ \A q \in Proc \ {p} : open'[q] = open[q]
    BY <1>1, <1>2, ActsAlone
  <2>2. CASE pc[p] # "idle"
    BY <2>1, <2>2, OthersIdle DEF Solo
  <2>3. CASE pc[p] = "idle"
    BY <2>1, <2>3 DEF Only, Solo
  <2> QED
    BY <2>2, <2>3
<1>3. ASSUME NEW p \in Proc, NEW c \in Command, Start(p, c) PROVE Kept
  <2>1. Only(p) /\ UNCHANGED open /\ \A q \in Proc : pc[q] = "idle"
    BY <1>1, <1>3, StartOnly DEF Start, Disciplined, At
  <2> QED
    BY <2>1 DEF Solo, Only
<1>4. ASSUME NEW p \in Proc, Create(p) PROVE Kept
  <2>1. Only(p) /\ open'[p] = open[p] /\ UNCHANGED pc /\ \A q \in Proc : pc[q] = "idle"
    BY <1>1, <1>4, CreateOnly DEF Create, At
  <2> QED
    BY <2>1, OthersIdle DEF Solo
<1>5. ASSUME UNCHANGED vars PROVE Kept
  BY <1>5 DEF Solo, vars, local
<1> QED
  BY <1>1, <1>2, <1>3, <1>4, <1>5 DEF Next, Solo

LEMMA SoloInit == Init => Solo
BY SInit DEF Init, Solo

-----------------------------------------------------------------------------
(***************************************************************************)
(* Every exchange answers an assessment.  A refine that answers what was   *)
(* asked finds an assessment when it begins; nobody puts another session   *)
(* in its way before it has loaded this one, and nothing it loads is older *)
(* than that.                                                              *)
(***************************************************************************)
Asked == {s \in Good : \A k \in 1..Len(s.qa) : 0 <= s.qa[k]}

\* No copy of the library's is kept here.
Unloaded == {"idle", "delete", "reset", "accept", "questions", "call", "finish", "cleanup"}

Rounds(p) ==
  /\ map[p] \in Asked \cup {Nil} /\ own[p] \in Asked \cup {Nil}
  /\ pc[p] \in Unloaded => own[p] = Nil
  /\ pc[p] = "prdfile" => cmd[p].do = "refine"
  /\ cmd[p].do = "refine" =>
       /\ pc[p] \notin {"delete", "reset", "accept"}
       /\ pc[p] = "call" => Readable /\ 1 <= session.rounds
       /\ pc[p] \in {"prd", "survey", "ai", "prdfile"} => 1 <= own[p].rounds

QaInv == Solo /\ session \in Asked \cup {Nil, Torn} /\ \A p \in Proc : Rounds(p)

LEMMA AskedSame ==
  ASSUME NEW s \in Asked, NEW t \in Good, t.qa = s.qa PROVE t \in Asked
BY DEF Asked

LEMMA AskedUpdates ==
  ASSUME NEW s \in Asked
  PROVE  /\ \A x \in SessionState : [s EXCEPT !.state = x] \in Asked
         /\ \A l \in Listed : [s EXCEPT !.listed = l] \in Asked
         /\ \A x \in SessionState, l \in Listed :
              [s EXCEPT !.state = x, !.listed = l] \in Asked
         /\ [s EXCEPT !.err = TRUE] \in Asked
         /\ [s EXCEPT !.rounds = @ + 1] \in Asked
<1>1. s \in Good /\ s \in Session
  BY DEF Asked, Good
<1>2. /\ \A x \in SessionState : [s EXCEPT !.state = x].qa = s.qa
      /\ \A l \in Listed : [s EXCEPT !.listed = l].qa = s.qa
      /\ \A x \in SessionState, l \in Listed :
           [s EXCEPT !.state = x, !.listed = l].qa = s.qa
      /\ [s EXCEPT !.err = TRUE].qa = s.qa
      /\ [s EXCEPT !.rounds = @ + 1].qa = s.qa
  BY <1>1 DEF Session
<1> QED
  BY <1>1, <1>2, GoodUpdates, GoodRound, AskedSame

LEMMA AskedAnswered ==
  ASSUME NEW s \in Asked, 1 <= s.rounds PROVE Answered(s) \in Asked
<1> DEFINE t == Answered(s)
<1>1. s \in Good /\ s \in Session /\ s.qa \in Seq(Int) /\ s.rounds \in Nat
  BY DEF Asked, Good, Session
<1>2. t \in Good
  BY <1>1, GoodAnswered
<1>3. t.qa = Append(s.qa, s.rounds - 1)
  BY <1>1 DEF Answered, Session
<1>4. \A k \in 1..Len(t.qa) : 0 <= t.qa[k]
  BY <1>1, <1>3 DEF Asked
<1> QED
  BY <1>2, <1>4 DEF Asked

LEMMA AskedFresh ==
  /\ \A named \in BOOLEAN : Fresh(named) \in Asked
  /\ \A s \in Good : Reset(s) \in Asked
<1>1. \A named \in BOOLEAN : Fresh(named) \in Asked
  BY GoodFresh DEF Fresh, Asked
<1>2. ASSUME NEW s \in Good PROVE Reset(s) \in Asked
  <2>1. Reset(s) \in Good /\ Reset(s).qa = <<>>
    BY GoodReset DEF Reset, Fresh
  <2> QED
    BY <2>1 DEF Asked
<1> QED
  BY <1>1, <1>2

\* The copies a step writes, of sessions or of other copies.
LEMMA AskedCopies ==
  ASSUME QaInv, NEW p \in Proc
  PROVE  /\ pc[p] \in {"reset", "accept", "finish", "fallback"} => ToSave(p) \in Asked
         /\ own[p] # Nil => Final(p) \in Asked
<1>1. SInv
  BY DEF QaInv, Solo
<1>2. map[p] \in Asked \cup {Nil} /\ own[p] \in Asked \cup {Nil}
  BY DEF QaInv, Rounds
<1>3. Nil \notin Good
  BY ValueAssumption DEF Good
<1>4. ASSUME pc[p] \in {"reset", "accept", "finish", "fallback"} PROVE ToSave(p) \in Asked
  <2>1. pc[p] # "fallback" => map[p] \in Asked
    BY <1>1, <1>2, <1>3, <1>4 DEF SInv, Stage
  <2>2. pc[p] = "fallback" => own[p] \in Asked
    BY <1>1, <1>2, <1>3 DEF SInv, Stage
  <2> QED
    BY <1>4, <2>1, <2>2, AskedUpdates DEF ToSave, At, SessionState
<1>5. ASSUME own[p] # Nil PROVE Final(p) \in Asked
  <2>1. own[p] \in Asked /\ own[p] \in Good
    BY <1>2, <1>5 DEF Asked
  <2>2. WithFound(own[p].listed, work[p].have) \in Listed
    BY <1>1, <2>1, ProcTypes, WorkTypes, GoodUpdates, ListedTypes, Zenon
  <2>3. /\ [own[p] EXCEPT !.state = "generated",
                          !.listed = WithFound(own[p].listed, work[p].have)] \in Asked
        /\ [own[p] EXCEPT !.state = "prd_accepted"] \in Asked
    BY <2>1, <2>2, AskedUpdates DEF SessionState
  <2> QED
    BY <2>1, <2>3 DEF Final
<1> QED
  BY <1>4, <1>5

\* A call that ends leaves no copy behind.
LEMMA RoundsQuit ==
  ASSUME "keep_handle" \notin Habits, SInv, NEW p \in Proc, NEW r, NEW h,
         Quit(p, r), Handle(p, h), UNCHANGED cmd
  PROVE  Rounds(p)'
BY QuitOnly DEF Rounds

LEMMA RoundsFail ==
  ASSUME "keep_handle" \notin Habits, SInv, NEW p \in Proc, Rounds(p), NEW r, NEW h,
         Fail(p, r, h), UNCHANGED cmd
  PROVE  Rounds(p)'
BY FailOnly DEF Rounds

QaHabits == {"concurrent", "keep_handle", "answer_unasked"}

LEMMA QaActs ==
  ASSUME Habits \cap QaHabits = {}, QaInv, NEW p \in Proc, Step(p) \/ Fault(p)
  PROVE  session' \in Asked \cup {Nil, Torn} /\ Rounds(p)'
<1> DEFINE Kept == session' \in Asked \cup {Nil, Torn} /\ Rounds(p)'
<1> USE DEF At, disk, counts
<1>1. /\ SInv /\ SInv' /\ LocalTypes /\ Stage(p) /\ Rounds(p)
      /\ session \in Asked \cup {Nil, Torn} /\ Nil \notin Good
  BY SNext, ValueAssumption DEF QaInv, Solo, SInv, Next, Good
<1>2. /\ "keep_handle" \notin Habits /\ "concurrent" \notin Habits
      /\ "answer_unasked" \notin Habits
  BY DEF QaHabits
<1>3. UNCHANGED cmd
  BY <1>1, ActsAlone
<1>4. ASSUME UNCHANGED session, \E r, h : Fail(p, r, h) \/ (Quit(p, r) /\ Handle(p, h))
      PROVE  Kept
  BY <1>1, <1>2, <1>3, <1>4, RoundsFail, RoundsQuit
<1>5. CASE ShowQuestions(p) \/ Cancel(p) \/ PersistFails(p)
  BY <1>4, <1>5 DEF ShowQuestions, Cancel, PersistFails
<1>6. CASE Crash(p)
  BY <1>1, <1>6 DEF Crash, Quit, Goto, LocalTypes, Rounds
<1>7. CASE CallFails(p)
  <2>1. CASE pc[p] = "prd"
    BY <1>1, <1>7, <2>1 DEF CallFails, LocalTypes, Goto, Rounds, Unloaded
  <2>2. CASE pc[p] # "prd"
    BY <1>4, <1>7, <2>2 DEF CallFails
  <2> QED
    BY <2>1, <2>2
<1>8. CASE DeleteArtifact(p)
  <2>1. /\ session' = session /\ own' = own /\ pc[p] = "delete"
        /\ map'[p] = map[p] \/ map'[p] = Reset(map[p])
    BY <1>1, <1>8 DEF DeleteArtifact, LocalTypes
  <2>2. map[p] \in Asked /\ Reset(map[p]) \in Asked /\ cmd[p].do # "refine" /\ own[p] = Nil
    BY <1>1, <2>1, AskedFresh DEF Rounds, Stage, Unloaded
  <2>3. pc'[p] \in Unloaded
    BY <1>1, <1>8 DEF DeleteArtifact, Goto, Continue, LocalTypes, Unloaded
  <2> QED
    BY <1>1, <1>3, <2>1, <2>2, <2>3 DEF Rounds, Unloaded
<1>9. CASE TruncateSession(p)
  BY <1>1, <1>9 DEF TruncateSession, Rounds
<1>10. CASE FillSession(p)
  <2>1. session' \in Asked \cup {Nil, Torn}
    BY <1>1, <1>10, AskedCopies DEF FillSession, Fill
  <2>2. CASE pc[p] \in {"finish", "fallback"}
    BY <1>1, <1>2, <1>3, <1>10, <2>1, <2>2, RoundsFail, RoundsQuit DEF FillSession
  <2>3. CASE pc[p] \in {"reset", "accept"}
    <3>1. map'[p] \in Asked /\ own' = own /\ pc'[p] \in Unloaded
      BY <1>1, <1>10, <2>3, AskedCopies
         DEF FillSession, Goto, Continue, LocalTypes, Unloaded
    <3> QED
      BY <1>1, <1>3, <2>1, <2>3, <3>1 DEF Rounds, Unloaded
  <2> QED
    BY <1>10, <2>2, <2>3 DEF FillSession
<1>11. CASE Cleanup(p)
  BY <1>1, <1>11 DEF Cleanup, Goto, LocalTypes, Rounds, Unloaded
<1>12. CASE Call(p)
  <2>1. own[p] = Nil /\ pc[p] = "call" /\ session' = session
    BY <1>1, <1>12 DEF Call, Rounds, Unloaded
  <2>2. CASE session \notin {Nil, Torn} /\ cmd[p].do # "accept"
    <3>1. /\ own'[p] = [session EXCEPT !.state = Entered[cmd[p].do]] /\ pc'[p] = "prd"
          /\ map' = map
      BY <1>1, <1>12, <2>1, <2>2 DEF Call, Goto, LocalTypes
    <3>2. Entered[cmd[p].do] \in SessionState
      BY <1>1, <2>2, ProcTypes DEF Command, Entered, SessionState
    <3>3. own'[p] \in Asked
      BY <1>1, <2>2, <3>1, <3>2, AskedUpdates
    <3>4. own'[p].rounds = session.rounds
      BY <1>1, <2>2, <3>1 DEF Asked, Good, Session
    <3> QED
      BY <1>1, <1>3, <2>1, <3>1, <3>3, <3>4 DEF Rounds, Unloaded
  <2>3. CASE session \notin {Nil, Torn} /\ cmd[p].do = "accept"
              /\ session.state \in {"assessing", "refining"}
    <3>1. own'[p] = session /\ pc'[p] = "persist" /\ map' = map
      BY <1>1, <1>12, <2>1, <2>3 DEF Call, Goto, LocalTypes
    <3> QED
      BY <1>1, <1>3, <2>1, <2>3, <3>1 DEF Rounds, Unloaded
  <2> QED
    BY <1>4, <1>12, <2>1, <2>2, <2>3 DEF Call
<1>13. CASE ReadPrd(p) \/ Survey(p) \/ AnswerRest(p) \/ Refuse(p) \/ TruncatePrd(p)
            \/ TruncateArtifact(p) \/ ArtifactFails(p) \/ PrdFails(p)
  <2>1. session' = session /\ own' = own /\ map' = map
    BY <1>13 DEF ReadPrd, Survey, AnswerRest, Refuse, TruncatePrd, TruncateArtifact,
                 ArtifactFails, PrdFails
  <2>2. /\ pc[p] \notin Unloaded /\ pc'[p] \notin Unloaded
        /\ pc'[p] = "prdfile" => pc[p] = "prdfile"
        /\ pc'[p] \in {"prd", "survey", "ai"} => pc[p] \in {"prd", "survey", "ai"}
    BY <1>1, <1>13 DEF ReadPrd, Survey, AnswerRest, Refuse, TruncatePrd, TruncateArtifact,
                 ArtifactFails, PrdFails, Goto, LocalTypes, Unloaded
  <2> QED
    BY <1>1, <1>3, <2>1, <2>2 DEF Rounds, Unloaded
<1>14. CASE Answer(p)
  <2>1. session' = session /\ map' = map /\ pc[p] = "ai" /\ own[p] \in Asked
    BY <1>1, <1>14 DEF Answer, Rounds, Stage
  <2>2. /\ own'[p] = own[p] \/ own'[p] = [own[p] EXCEPT !.rounds = @ + 1]
        /\ pc'[p] \in {"persist", "prdfile", "artifact"}
        /\ pc'[p] = "prdfile" => own' = own /\ cmd[p].do = "refine"
    BY <1>1, <1>14 DEF Answer, Goto, LocalTypes
  <2>3. own'[p] \in Asked
    BY <2>1, <2>2, AskedUpdates
  <2> QED
    BY <1>1, <1>3, <2>1, <2>2, <2>3 DEF Rounds, Unloaded
<1>15. CASE FillPrd(p)
  <2>1. /\ session' = session /\ map' = map /\ pc[p] = "prdfile" /\ pc'[p] = "persist"
        /\ own' = [own EXCEPT ![p] = Answered(own[p])]
    BY <1>1, <1>15 DEF FillPrd, Goto, LocalTypes
  <2>2. own[p] \in Asked
    BY <1>1, <2>1 DEF Rounds, Stage
  <2>3. 1 <= own[p].rounds
    BY <1>1, <2>1 DEF Rounds
  <2>4. PICK s \in Asked : own' = [own EXCEPT ![p] = s]
    BY <2>1, <2>2, <2>3, AskedAnswered, Zenon
  <2> QED
    BY <1>1, <1>3, <2>1, <2>4 DEF Rounds, Unloaded, LocalTypes
<1>16. CASE FillArtifact(p)
  <2>1. /\ session' = session /\ map' = map /\ own[p] \in Asked /\ own'[p] \in Good
        /\ own'[p] = [own[p] EXCEPT !.listed = WithName(@, work[p].file)]
        /\ pc'[p] \in {"artifact", "ai2", "persist"}
    BY <1>1, <1>16 DEF FillArtifact, Rounds, Stage, Goto, AfterFile, LocalTypes, SInv
  <2>2. own'[p] \in Asked
    BY <2>1, AskedSame DEF Asked, Good, Session
  <2> QED
    BY <1>1, <1>3, <2>1, <2>2 DEF Rounds, Unloaded
<1>17. CASE Persist(p)
  <2>1. own[p] # Nil /\ session' = Final(p)
    BY <1>1, <1>17 DEF Persist, Replace, Stage
  <2>2. /\ pc'[p] \in {"finish", "idle"} /\ own'[p] = Nil
        /\ map'[p] = Nil \/ map'[p] = [map[p] EXCEPT !.listed = AsFiles(Final(p).listed)]
    BY <1>1, <1>2, <1>17 DEF Persist, Goto, Handle, LocalTypes
  <2>3. map'[p] \in Asked \cup {Nil}
    <3>1. CASE map[p] = Nil
      BY <1>1, <1>17, <3>1 DEF Persist, LocalTypes, Stage
    <3>2. CASE map[p] \in Asked
      <4>1. Final(p).listed \in Listed
        BY <2>1, AskedCopies, GoodUpdates DEF Asked
      <4> QED
        BY <2>2, <3>2, <4>1, ListedTypes, AskedUpdates
    <3> QED
      BY <1>1, <3>1, <3>2 DEF Rounds
  <2> QED
    BY <1>3, <2>1, <2>2, <2>3, AskedCopies DEF Rounds
<1>18. CASE PersistError(p)
  <2>1. own[p] \in Asked /\ [own[p] EXCEPT !.err = TRUE] \in Asked
    BY <1>1, <1>18, AskedUpdates DEF PersistError, Stage, Rounds
  <2>2. /\ session' = session \/ session' = [own[p] EXCEPT !.err = TRUE]
        /\ map'[p] = map[p] \/ map'[p] = Nil
        /\ \/ pc'[p] \in {"cleanup", "idle"} /\ own'[p] = Nil
           \/ pc'[p] = "fallback" /\ own'[p] = [own[p] EXCEPT !.err = TRUE]
    BY <1>1, <1>2, <1>18 DEF PersistError, Replace, Goto, Handle, LocalTypes
  <2> QED
    BY <1>1, <1>3, <2>1, <2>2 DEF Rounds, Unloaded
<1> QED
  BY <1>5, <1>6, <1>7, <1>8, <1>9, <1>10, <1>11, <1>12, <1>13, <1>14, <1>15, <1>16, <1>17,
     <1>18 DEF Step, Fault

LEMMA QaNext == Habits \cap QaHabits = {} /\ QaInv /\ [Next]_vars => QaInv'
<1> SUFFICES ASSUME Habits \cap QaHabits = {}, QaInv, [Next]_vars PROVE QaInv'
  OBVIOUS
<1> DEFINE Kept == session' \in Asked \cup {Nil, Torn} /\ \A q \in Proc : Rounds(q)'
<1>1. /\ "keep_handle" \notin Habits /\ "concurrent" \notin Habits
      /\ "answer_unasked" \notin Habits
  BY DEF QaHabits
<1>2. Solo /\ Solo' /\ SInv /\ LocalTypes
  BY <1>1, SoloNext DEF QaInv, Solo, SInv
<1>3. ASSUME NEW p \in Proc, Only(p), pc[p] # "idle" \/ (\A q \in Proc : pc[q] = "idle")
      PROVE  \A q \in Proc \ {p} : Rounds(q)'
  <2>1. \A q \in Proc \ {p} : pc'[q] = "idle" /\ pc[q] = "idle"
    BY <1>2, <1>3, OthersIdle
  <2> QED
    BY <1>3, <2>1 DEF Only, QaInv, Rounds
<1>4. ASSUME NEW p \in Proc, Step(p) \/ Fault(p) PROVE Kept
  <2>1. /\ Only(p) /\ (pc[p] = "idle" => own[p] # Nil)
        /\ session' \in Asked \cup {Nil, Torn} /\ Rounds(p)'
    BY <1>2, <1>4, ActsAlone, QaActs
  <2>2. pc[p] # "idle"
    BY <2>1 DEF QaInv, Rounds, Unloaded
  <2> QED
    BY <1>3, <2>1, <2>2
<1>5. ASSUME NEW p \in Proc, NEW c \in Command, Start(p, c) PROVE Kept
  <2>1. Only(p) /\ session' = session /\ \A q \in Proc : pc[q] = "idle"
    BY <1>1, <1>2, <1>5, StartOnly DEF Start, Disciplined, At, disk
  <2>2. cmd'[p] = c /\ own[p] = Nil /\ own'[p] = Nil
    BY <1>2, <1>5, <2>1 DEF Start, LocalTypes, QaInv, Rounds, Unloaded
  <2>3. map'[p] \in Asked \cup {Nil}
    BY <1>2, <1>5 DEF Start, LocalTypes, Readable, QaInv, Rounds
  <2>4. /\ c.do = "refine" => ~c.force /\ Readable /\ 1 <= session.rounds
        /\ c.by \in {"cli", "host"}
    <3>1. session \in Session \/ ~Readable
      BY DEF QaInv, Asked, Good, Readable
    <3> QED
      BY <1>1, <1>5, <3>1 DEF Start, Disciplined, Session, Command
  <2>5. /\ c.do = "refine" => pc'[p] \in {"idle", "call"}
        /\ pc'[p] # "prdfile"
    <3>1. /\ c.do = "refine" => Continue(c, session) = "call"
          /\ Continue(c, session) # "prdfile"
      BY DEF Continue
    <3> QED
      BY <1>2, <1>5, <2>1, <2>4, <3>1 DEF Start, Goto, LocalTypes
  <2>6. Rounds(p)'
    BY <2>1, <2>2, <2>3, <2>4, <2>5 DEF Rounds, Readable
  <2> QED
    BY <1>3, <2>1, <2>6 DEF QaInv
<1>6. ASSUME NEW p \in Proc, Create(p) PROVE Kept
  <2>1. /\ Only(p) /\ UNCHANGED <<pc, cmd, map>> /\ pc[p] = "idle"
        /\ \A q \in Proc : pc[q] = "idle"
    BY <1>1, <1>2, <1>6, CreateOnly DEF Create, At
  <2>2. session' \in Asked \cup {Nil, Torn} /\ (own'[p] = Nil \/ own' = own)
    BY <1>1, <1>2, <1>6, AskedFresh DEF Create, Replace, LocalTypes, QaInv
  <2>3. Rounds(p)'
    BY <2>1, <2>2 DEF Rounds, QaInv
  <2> QED
    BY <1>3, <2>1, <2>2, <2>3
<1>7. ASSUME UNCHANGED vars PROVE Kept
  BY <1>7 DEF QaInv, Rounds, Readable, vars, disk, local
<1> QED
  BY <1>2, <1>4, <1>5, <1>6, <1>7 DEF Next, QaInv

\* For callers who run one call at a time, load the session each time and answer
\* what was asked, every exchange answers an assessment there was, through failed
\* calls, crashes and sessions created anew (Refine's AssessmentIndex).
THEOREM AnswersAreKnown ==
  ASSUME Habits \cap QaHabits = {} PROVE Spec => []QaAnswersKnown
<1>1. QaInv => QaAnswersKnown
  <2> SUFFICES ASSUME QaInv, Readable, NEW k \in 1..Len(session.qa)
               PROVE  session.qa[k] \in 0..(session.rounds - 2)
    BY DEF QaAnswersKnown
  <2>1. session \in Asked /\ session \in Session
    BY DEF QaInv, Asked, Good, Readable
  <2>2. session.qa[k] \in Int /\ session.rounds \in Nat /\ 0 <= session.qa[k]
    BY <2>1 DEF Session, Asked
  <2>3. session.qa[k] <= session.rounds - 2
    BY <2>1 DEF Asked, Good, InOrder
  <2> QED
    BY <2>2, <2>3
<1>2. Init => QaInv
  BY SoloInit, AskedFresh DEF Init, QaInv, Rounds
<1>3. QaInv /\ [Next]_vars => QaInv'
  BY QaNext
<1> QED
  BY <1>1, <1>2, <1>3, PTL DEF Spec

-----------------------------------------------------------------------------
(***************************************************************************)
(* The course of a generation.  It begins with no artifacts, because the   *)
(* caller or --force has removed them; while it writes them, those there   *)
(* are its own, of the PRD that is there; when it records them, all are.   *)
(* And no copy of the session that a failed call writes says "generated".  *)
(***************************************************************************)
Rest == {"test_spec", "tasks"}

AllAre(x) == \A a \in Artifact : art[a] = x

\* The library is running.
Working == {"prd", "survey", "ai", "prdfile", "artifact", "ai2", "persist", "error", "fallback"}

Labels(p) ==
  /\ pc[p] = "idle" => work[p] = NoWork
  /\ pc[p] \in {"accept", "survey", "artifact", "ai2", "finish", "cleanup"} =>
       cmd[p].do = "generate"
  /\ pc[p] \in {"prdfile", "reset"} => cmd[p].do # "generate"
  /\ pc[p] \in {"prd", "ai"} => cmd[p].do # "accept"
  /\ pc[p] = "reset" => map[p].state = "init"
  /\ pc[p] \in Working => own[p].state # "generated"

\* The files between two callbacks, and between truncation and contents.
Half(p) ==
  \/ work[p].todo = {"requirements"} /\ open[p] = "no" /\ AllAre(Nil)
  \/ /\ work[p].todo = {} /\ work[p].file = "requirements" /\ open[p] = "yes"
     /\ art["requirements"] = Torn /\ \A a \in Rest : art[a] = Nil
  \/ /\ art["requirements"] = work[p].gen
     /\ work[p].todo \subseteq Rest
     /\ \A a \in work[p].todo : art[a] = Nil
     /\ \/ /\ open[p] = "no" /\ work[p].todo # {}
           /\ \A a \in Rest \ work[p].todo : art[a] = work[p].gen
        \/ /\ open[p] = "yes" /\ work[p].file \in Rest \ work[p].todo
           /\ art[work[p].file] = Torn
           /\ \A a \in Rest \ (work[p].todo \cup {work[p].file}) : art[a] = work[p].gen

Files(p) ==
  cmd[p].do = "generate" =>
    /\ pc[p] = "delete" => \A n \in 1..3 : n < work[p].at => art[artifactFiles[n]] = Nil
    /\ pc[p] \in {"accept", "call", "prd", "survey", "ai"} => AllAre(Nil)
    /\ pc[p] \in {"survey", "ai"} => work[p].text = prd
    /\ pc[p] \in {"artifact", "ai2"} => work[p].gen.prd = prd
    /\ pc[p] = "artifact" => Half(p)
    /\ pc[p] = "ai2" /\ ~work[p].broken =>
         art["requirements"] = work[p].gen /\ \A a \in Rest : art[a] = Nil
    /\ pc[p] \in {"persist", "finish"} =>
         work[p].gen \in Generated /\ work[p].gen.prd = prd /\ AllAre(work[p].gen)

CourseInv == Solo /\ SameGeneration /\ \A p \in Proc : Labels(p) /\ Files(p)

CourseHabits == {"concurrent", "rerun"}

LEMMA GeneratedOnes ==
  \A g \in Generated : g \notin {Nil, Torn, Scaffold}
BY ValueAssumption

\* The names of the steps' places, and the states of the library's copy.
LEMMA LabelsQuit ==
  ASSUME SInv, NEW p \in Proc, NEW r, NEW h, UNCHANGED cmd,
         Fail(p, r, h) \/ (Quit(p, r) /\ Handle(p, h))
  PROVE  Labels(p)' /\ Files(p)' /\ pc'[p] \in {"idle", "cleanup"}
<1>1. \/ pc'[p] = "idle" /\ work'[p] = NoWork
      \/ pc'[p] = "cleanup" /\ cmd'[p].do = "generate"
  BY QuitOnly, FailOnly
<1> QED
  BY <1>1 DEF Labels, Files, Working

LEMMA LabelsActs ==
  ASSUME CourseInv, NEW p \in Proc, Step(p) \/ Fault(p)
  PROVE  Labels(p)'
<1> USE DEF At, disk, counts
<1>1. SInv /\ SInv' /\ LocalTypes /\ Stage(p) /\ Labels(p) /\ Files(p)
  BY SNext DEF CourseInv, Solo, SInv, Next
<1>2. UNCHANGED cmd
  BY <1>1, ActsAlone
<1>3. ASSUME \E r, h : Fail(p, r, h) \/ (Quit(p, r) /\ Handle(p, h)) PROVE Labels(p)'
  BY <1>1, <1>2, <1>3, LabelsQuit
<1>4. CASE ShowQuestions(p) \/ Cancel(p) \/ PersistFails(p)
  BY <1>3, <1>4 DEF ShowQuestions, Cancel, PersistFails
<1>5. CASE Crash(p)
  BY <1>1, <1>5 DEF Crash, Quit, Goto, LocalTypes, Labels, Working
<1>6. CASE CallFails(p)
  <2>1. CASE pc[p] = "prd"
    BY <1>1, <1>2, <1>6, <2>1 DEF CallFails, LocalTypes, Goto, Labels, Working
  <2>2. CASE pc[p] # "prd"
    BY <1>3, <1>6, <2>2 DEF CallFails
  <2> QED
    BY <2>1, <2>2
<1>7. CASE DeleteArtifact(p)
  <2>1. \/ Continue(cmd[p], map[p]) \in {"questions", "call"}
        \/ (Continue(cmd[p], map[p]) = "accept" /\ cmd[p].do = "generate")
    BY DEF Continue
  <2>2. map[p] \in Good => Reset(map[p]).state = "init"
    BY DEF Good, Session, Reset, Fresh
  <2> QED
    BY <1>1, <1>2, <1>7, <2>1, <2>2
       DEF DeleteArtifact, Goto, LocalTypes, Stage, Labels, Working
<1>8. CASE TruncateSession(p)
  BY <1>1, <1>8 DEF TruncateSession, Labels
<1>9. CASE FillSession(p)
  <2>1. CASE pc[p] \in {"finish", "fallback"}
    BY <1>3, <1>9, <2>1 DEF FillSession
  <2>2. CASE pc[p] \in {"reset", "accept"}
    <3>1. \/ Continue(cmd[p], map[p]) \in {"questions", "call"}
          \/ (Continue(cmd[p], map[p]) = "accept" /\ cmd[p].do = "generate")
      BY DEF Continue
    <3> QED
      BY <1>1, <1>2, <1>9, <2>2, <3>1 DEF FillSession, Goto, LocalTypes, Labels, Working
  <2> QED
    BY <1>9, <2>1, <2>2 DEF FillSession
<1>10. CASE Cleanup(p)
  BY <1>1, <1>2, <1>10 DEF Cleanup, Goto, LocalTypes, Labels, Working
<1>11. CASE Call(p)
  <2> DEFINE h == IF own[p] # Nil THEN own[p] ELSE session
  <2>1. h \in Session \cup {Nil, Torn}
    BY <1>1 DEF LocalTypes, SInv, DiskTypes, Good
  <2>2. CASE h \notin {Nil, Torn} /\ cmd[p].do # "accept"
    <3>1. own'[p] = [h EXCEPT !.state = Entered[cmd[p].do]] /\ pc'[p] = "prd"
      BY <1>1, <1>11, <2>2 DEF Call, Goto, LocalTypes
    <3>2. Entered[cmd[p].do] # "generated"
      BY <1>1, <2>2, ProcTypes DEF Command, Entered
    <3>3. own'[p].state # "generated"
      BY <2>1, <2>2, <3>1, <3>2 DEF Session
    <3> QED
      BY <1>2, <2>2, <3>1, <3>3 DEF Labels
  <2>3. CASE h \notin {Nil, Torn} /\ cmd[p].do = "accept" /\ h.state \in {"assessing", "refining"}
    <3>1. own'[p] = h /\ pc'[p] = "persist"
      BY <1>1, <1>11, <2>3 DEF Call, Goto, LocalTypes
    <3> QED
      BY <1>2, <2>3, <3>1 DEF Labels
  <2> QED
    BY <1>3, <1>11, <2>2, <2>3 DEF Call
<1>12. CASE ReadPrd(p) \/ Survey(p) \/ AnswerRest(p) \/ Refuse(p) \/ TruncatePrd(p)
            \/ TruncateArtifact(p) \/ ArtifactFails(p) \/ PrdFails(p)
  BY <1>1, <1>2, <1>12
     DEF ReadPrd, Survey, AnswerRest, Refuse, TruncatePrd, TruncateArtifact,
         ArtifactFails, PrdFails, Goto, LocalTypes, Labels, Working
<1>13. CASE Answer(p)
  <2>1. own[p] \in Session /\ pc[p] = "ai"
    BY <1>1, <1>13 DEF Answer, Stage, Good
  <2>2. own'[p].state = own[p].state
    BY <1>1, <1>13, <2>1 DEF Answer, LocalTypes, Session
  <2>3. cmd[p].do \in {"assess", "refine", "generate"}
    BY <1>1, <2>1, ProcTypes DEF Command, Labels
  <2> QED
    BY <1>1, <1>2, <1>13, <2>1, <2>2, <2>3 DEF Answer, Goto, LocalTypes, Labels, Working
<1>14. CASE FillPrd(p)
  <2>1. own[p] \in Session /\ own' = [own EXCEPT ![p] = Answered(own[p])] /\ pc'[p] = "persist"
    BY <1>1, <1>14 DEF FillPrd, Stage, Good, Goto, LocalTypes
  <2>2. Answered(own[p]).state = own[p].state
    BY <2>1 DEF Answered, Session
  <2>3. own'[p].state = own[p].state
    BY <1>1, <2>1, <2>2 DEF LocalTypes
  <2> QED
    BY <1>1, <1>2, <1>14, <2>1, <2>3 DEF FillPrd, Labels, Working
<1>15. CASE FillArtifact(p)
  <2>1. own[p] \in Session /\ pc[p] = "artifact"
    BY <1>1, <1>15 DEF FillArtifact, Stage, Good
  <2>2. own'[p].state = own[p].state
    BY <1>1, <1>15, <2>1 DEF FillArtifact, LocalTypes, Session
  <2> QED
    BY <1>1, <1>2, <1>15, <2>1, <2>2
       DEF FillArtifact, AfterFile, Goto, LocalTypes, Labels, Working
<1>16. CASE Persist(p)
  BY <1>1, <1>2, <1>16 DEF Persist, Goto, LocalTypes, Labels, Working
<1>17. CASE PersistError(p)
  <2>1. own[p] \in Session /\ [own[p] EXCEPT !.err = TRUE].state = own[p].state
    BY <1>1, <1>17 DEF PersistError, Stage, Good, Session
  <2> QED
    BY <1>1, <1>2, <1>17, <2>1 DEF PersistError, Goto, LocalTypes, Labels, Working
<1> QED
  BY <1>4, <1>5, <1>6, <1>7, <1>8, <1>9, <1>10, <1>11, <1>12, <1>13, <1>14, <1>15, <1>16,
     <1>17 DEF Step, Fault

\* What a step may do to the artifacts and to the PRD.
LEMMA ArtSteps ==
  ASSUME SInv, NEW p \in Proc, Step(p) \/ Fault(p)
  PROVE  \/ UNCHANGED art
         \/ \E a \in Artifact : art' = [art EXCEPT ![a] = Nil]
         \/ TruncateArtifact(p)
         \/ FillArtifact(p)
<1>1. artifactFiles[work[p].at] \in Artifact
  BY ProcTypes, FileTypes DEF Work
<1>2. CASE DeleteArtifact(p) \/ Cleanup(p)
  BY <1>1, <1>2 DEF DeleteArtifact, Cleanup, Remove
<1>3. CASE TruncateArtifact(p) \/ FillArtifact(p)
  BY <1>3
<1>4. ASSUME Step(p), ~(DeleteArtifact(p) \/ Cleanup(p)),
             ~(TruncateArtifact(p) \/ FillArtifact(p))
      PROVE  UNCHANGED art
  BY <1>4 DEF Step, TruncateSession, FillSession, ShowQuestions, Call, ReadPrd, Survey,
     Answer, AnswerRest, TruncatePrd, FillPrd, Persist, PersistError, disk
<1>5. ASSUME Fault(p) PROVE UNCHANGED art
  BY <1>5 DEF Fault, Cancel, Refuse, ArtifactFails, PrdFails, PersistFails, CallFails,
     Crash, disk
<1> QED
  BY <1>2, <1>3, <1>4, <1>5

LEMMA PrdSteps ==
  ASSUME SInv, NEW p \in Proc, Step(p) \/ Fault(p), pc[p] # "prdfile"
  PROVE  UNCHANGED prd
<1>1. ASSUME Step(p) PROVE UNCHANGED prd
  BY <1>1 DEF Step, DeleteArtifact, TruncateSession, FillSession, ShowQuestions, Cleanup,
     Call, ReadPrd, Survey, Answer, AnswerRest, TruncatePrd, FillPrd, TruncateArtifact,
     FillArtifact, Persist, PersistError, disk, At
<1>2. ASSUME Fault(p) PROVE UNCHANGED prd
  BY <1>2 DEF Fault, Cancel, Refuse, ArtifactFails, PrdFails, PersistFails, CallFails,
     Crash, disk
<1> QED
  BY <1>1, <1>2

\* Removing or truncating a file mixes no generations.
LEMMA FewerArtifacts ==
  ASSUME SameGeneration, \A a \in Artifact : art'[a] \in {art[a], Nil, Torn}
  PROVE  SameGeneration'
BY DEF SameGeneration, IsGenerated

\* A file gets its contents: the file of a truncation of the same call.
LEMMA FillsHalf ==
  ASSUME CourseInv, NEW p \in Proc, FillArtifact(p)
  PROVE  /\ work[p].gen \in Generated /\ work[p].file \in Artifact
         /\ art' = [art EXCEPT ![work[p].file] = work[p].gen]
         /\ \/ /\ work[p].file = "requirements" /\ work[p].todo = {}
               /\ \A a \in Rest : art[a] = Nil
            \/ /\ work[p].file \in Rest \ work[p].todo /\ work[p].todo \subseteq Rest
               /\ art["requirements"] = work[p].gen
               /\ \A a \in work[p].todo : art[a] = Nil
               /\ \A a \in Rest \ (work[p].todo \cup {work[p].file}) :
                    art[a] = work[p].gen
<1>1. pc[p] = "artifact" /\ open[p] = "yes" /\ cmd[p].do = "generate"
  BY ProcTypes DEF CourseInv, Solo, FillArtifact, At, Labels
<1>2. Half(p) /\ work[p].gen \in Generated /\ work[p].file \in Artifact
  BY <1>1 DEF CourseInv, Solo, SInv, Stage, Files
<1>3. art[work[p].file] = Torn
  BY <1>1, <1>2 DEF Half
<1>4. art' = [art EXCEPT ![work[p].file] = work[p].gen]
  BY <1>1, <1>3 DEF FillArtifact, Fill
<1> QED
  BY <1>1, <1>2, <1>4 DEF Half

LEMMA SameActs ==
  ASSUME CourseInv, NEW p \in Proc, Step(p) \/ Fault(p)
  PROVE  SameGeneration'
<1>1. SInv /\ SameGeneration /\ art \in [Artifact -> Generated \cup {Nil, Torn, Scaffold}]
  BY DEF CourseInv, Solo, SInv, DiskTypes
<1>2. CASE UNCHANGED art \/ \E a \in Artifact : art' = [art EXCEPT ![a] = Nil]
  BY <1>1, <1>2, FewerArtifacts
<1>3. CASE TruncateArtifact(p)
  BY <1>1, <1>3, FewerArtifacts DEF TruncateArtifact
<1>4. CASE FillArtifact(p)
  <2>1. \A a \in Artifact : art'[a] \in {work[p].gen, Nil}
    BY <1>1, <1>4, FillsHalf DEF Artifact, Rest
  <2> QED
    BY <2>1 DEF SameGeneration, IsGenerated
<1> QED
  BY <1>1, <1>2, <1>3, <1>4, ArtSteps

LEMMA FilesActs ==
  ASSUME CourseInv, NEW p \in Proc, Step(p) \/ Fault(p)
  PROVE  Files(p)'
<1> USE DEF At, disk, counts
<1>1. SInv /\ SInv' /\ LocalTypes /\ DiskTypes /\ Stage(p) /\ Labels(p) /\ Files(p)
  BY SNext DEF CourseInv, Solo, SInv, Next
<1>2. UNCHANGED cmd
  BY <1>1, ActsAlone
<1>3. ASSUME \E r, h : Fail(p, r, h) \/ (Quit(p, r) /\ Handle(p, h)) PROVE Files(p)'
  BY <1>1, <1>2, <1>3, LabelsQuit
<1>4. ASSUME pc'[p] \in {"idle", "reset", "questions", "prdfile", "error",
                         "fallback", "cleanup"}
      PROVE  Files(p)'
  BY <1>4 DEF Files
<1>5. ASSUME cmd[p].do # "generate" PROVE Files(p)'
  BY <1>2, <1>5 DEF Files
<1>6. CASE ShowQuestions(p) \/ Cancel(p) \/ PersistFails(p)
  BY <1>3, <1>6 DEF ShowQuestions, Cancel, PersistFails
<1>7. CASE Crash(p)
  BY <1>1, <1>4, <1>7 DEF Crash, Quit, Goto, LocalTypes
<1>8. CASE CallFails(p)
  BY <1>1, <1>3, <1>4, <1>8 DEF CallFails, LocalTypes, Goto
<1>9. CASE DeleteArtifact(p) /\ cmd[p].do = "generate"
  <2>1. work[p].at \in 1..3 /\ artifactFiles[work[p].at] \in Artifact
    BY <1>1, FileTypes DEF LocalTypes, Work
  <2>2. art' = [art EXCEPT ![artifactFiles[work[p].at]] = Nil]
    BY <1>9 DEF DeleteArtifact, Remove
  <2>3. \A n \in 1..3 : n <= work[p].at => art'[artifactFiles[n]] = Nil
    BY <1>1, <1>9, <2>1, <2>2, FileTypes DEF DeleteArtifact, Files, DiskTypes
  <2>4. CASE work[p].at < 3
    <3>1. pc'[p] = "delete" /\ work'[p].at = work[p].at + 1
      BY <1>1, <1>9, <2>1, <2>4 DEF DeleteArtifact, LocalTypes, Work
    <3> QED
      BY <2>1, <2>3, <3>1 DEF Files
  <2>5. CASE work[p].at = 3
    <3>1. AllAre(Nil)'
      BY <2>3, <2>5 DEF AllAre, artifactFiles, Artifact
    <3>2. pc'[p] \in {"accept", "call"}
      BY <1>1, <1>9, <2>5 DEF DeleteArtifact, LocalTypes, Goto, Continue
    <3> QED
      BY <3>1, <3>2 DEF Files
  <2> QED
    BY <2>1, <2>4, <2>5
<1>10. CASE TruncateSession(p)
  BY <1>1, <1>10 DEF TruncateSession, Files, AllAre
<1>11. CASE FillSession(p)
  <2>1. CASE pc[p] \in {"finish", "fallback"}
    BY <1>3, <1>11, <2>1 DEF FillSession
  <2>2. CASE pc[p] = "accept"
    <3>1. pc'[p] = "call" /\ AllAre(Nil)'
      BY <1>1, <1>11, <2>2 DEF FillSession, Goto, LocalTypes, Labels, Files, AllAre
    <3> QED
      BY <3>1 DEF Files
  <2>3. CASE pc[p] = "reset"
    BY <1>1, <1>5, <2>3 DEF Labels
  <2> QED
    BY <1>11, <2>1, <2>2, <2>3 DEF FillSession
<1>12. CASE Cleanup(p)
  <2>1. pc'[p] \in {"cleanup", "idle"}
    BY <1>1, <1>12 DEF Cleanup, Goto, LocalTypes
  <2> QED
    BY <1>4, <2>1
<1>13. CASE Call(p) /\ cmd[p].do = "generate"
  <2>1. CASE pc'[p] = "prd"
    BY <1>1, <1>13, <2>1 DEF Call, Files, AllAre
  <2>2. CASE pc'[p] # "prd"
    <3> DEFINE h == IF own[p] # Nil THEN own[p] ELSE session
    <3>1. h \notin {Nil, Torn} => pc'[p] = "prd"
      BY <1>1, <1>13 DEF Call, Goto, LocalTypes
    <3> QED
      BY <1>3, <1>13, <2>2, <3>1 DEF Call
  <2> QED
    BY <2>1, <2>2
<1>14. CASE ReadPrd(p) /\ cmd[p].do = "generate"
  <2>1. CASE pc'[p] = "error"
    BY <1>4, <2>1
  <2>2. CASE pc'[p] # "error"
    <3>1. work' = [work EXCEPT ![p].text = prd] /\ pc'[p] = "survey"
      BY <1>1, <1>14, <2>2 DEF ReadPrd, Goto, LocalTypes
    <3>2. work'[p].text = prd
      BY <1>1, <3>1 DEF LocalTypes, Work
    <3> QED
      BY <1>1, <1>14, <3>1, <3>2 DEF ReadPrd, Files, AllAre
  <2> QED
    BY <2>1, <2>2
<1>15. CASE Survey(p)
  <2>1. AllAre(Nil) /\ work[p].text = prd /\ cmd[p].do = "generate"
    BY <1>1, <1>15 DEF Survey, Files, Labels
  <2>2. {a \in Artifact : art[a] # Nil} # Artifact
    BY <2>1 DEF AllAre, Artifact
  <2>3. pc'[p] = "ai" /\ work'[p].text = work[p].text
    BY <1>1, <1>15, <2>2 DEF Survey, Goto, LocalTypes, Work
  <2> QED
    BY <1>15, <2>1, <2>3 DEF Survey, Files, AllAre
<1>16. CASE Answer(p) /\ cmd[p].do = "generate"
  <2>1. AllAre(Nil) /\ work[p].text = prd /\ open[p] = "no"
    BY <1>1, <1>16, NothingOpen DEF Answer, Files
  <2>2. /\ pc' = [pc EXCEPT ![p] = "artifact"] /\ UNCHANGED <<art, prd, open>>
        /\ work' = [work EXCEPT
                 ![p].gen = [gen |-> stamp + 1, prd |-> work[p].text],
                 ![p].todo = {"requirements"}]
    BY <1>16 DEF Answer, Goto
  <2>3. /\ pc'[p] = "artifact" /\ work'[p].todo = {"requirements"}
        /\ work'[p].gen = [gen |-> stamp + 1, prd |-> work[p].text]
    BY <1>1, <2>2 DEF LocalTypes, Work
  <2>4. work'[p].gen.prd = prd /\ prd' = prd
    <3>1. prd' = prd
      BY <2>2
    <3>2. work'[p].gen.prd = work[p].text
      BY <2>3
    <3> QED
      BY <2>1, <3>1, <3>2
  <2>5. Half(p)'
    BY <2>1, <2>2, <2>3 DEF Half, AllAre
  <2> QED
    BY <2>3, <2>4, <2>5 DEF Files
<1>17. CASE AnswerRest(p)
  <2>1. CASE pc'[p] = "error"
    BY <1>4, <2>1
  <2>2. CASE pc'[p] # "error"
    <3>1. /\ ~work[p].broken /\ pc'[p] = "artifact"
          /\ work' = [work EXCEPT ![p].todo = {"test_spec", "tasks"}]
          /\ UNCHANGED <<art, prd, open>>
      BY <1>1, <1>17, <2>2 DEF AnswerRest, Goto, LocalTypes
    <3>2. open[p] = "no" /\ cmd[p].do = "generate"
      BY <1>1, <1>17, NothingOpen DEF AnswerRest, Labels
    <3>3. work'[p].todo = Rest /\ work'[p].gen = work[p].gen
      BY <1>1, <3>1 DEF LocalTypes, Work, Rest
    <3>4. /\ work[p].gen.prd = prd /\ art["requirements"] = work[p].gen
          /\ \A a \in Rest : art[a] = Nil
      BY <1>1, <1>17, <3>1, <3>2 DEF AnswerRest, Files
    <3>5. Half(p)'
      BY <3>1, <3>2, <3>3, <3>4 DEF Half, Rest
    <3> QED
      BY <3>1, <3>3, <3>4, <3>5 DEF Files
  <2> QED
    BY <2>1, <2>2
<1>18. CASE Refuse(p)
  BY <1>1, <1>4, <1>18 DEF Refuse, Goto, LocalTypes
<1>19. CASE TruncatePrd(p) \/ FillPrd(p) \/ PrdFails(p)
  BY <1>1, <1>5, <1>19 DEF TruncatePrd, FillPrd, PrdFails, Labels
<1>20. CASE TruncateArtifact(p)
  <2>1. cmd[p].do = "generate" /\ Half(p) /\ work[p].gen.prd = prd /\ open[p] = "no"
    BY <1>1, <1>20 DEF TruncateArtifact, Labels, Files
  <2>2. PICK a \in work[p].todo :
          /\ art' = [art EXCEPT ![a] = Torn]
          /\ work' = [work EXCEPT ![p].file = a, ![p].todo = @ \ {a}]
    BY <1>20 DEF TruncateArtifact
  <2>3. a \in Artifact
    BY <1>1, <2>2 DEF LocalTypes, Work
  <2>4. /\ work'[p].file = a /\ work'[p].todo = work[p].todo \ {a}
        /\ work'[p].gen = work[p].gen
    BY <1>1, <2>2 DEF LocalTypes, Work
  <2>5. pc' = pc /\ open'[p] = "yes" /\ prd' = prd
    BY <1>1, <1>20 DEF TruncateArtifact, LocalTypes
  <2>6. art'[a] = Torn /\ \A b \in Artifact \ {a} : art'[b] = art[b]
    BY <1>1, <2>2, <2>3 DEF DiskTypes
  <2>7. Half(p)'
    <3>1. CASE work[p].todo = {"requirements"} /\ AllAre(Nil)
      BY <2>4, <2>5, <2>6, <3>1 DEF Half, AllAre, Artifact, Rest
    <3>2. CASE /\ art["requirements"] = work[p].gen
               /\ work[p].todo \subseteq Rest
               /\ \A b \in work[p].todo : art[b] = Nil
               /\ \A b \in Rest \ work[p].todo : art[b] = work[p].gen
      <4>1. a \in Rest /\ Rest \subseteq Artifact /\ "requirements" \in Artifact \ {a}
        BY <3>2 DEF Rest, Artifact
      <4> QED
        BY <2>4, <2>5, <2>6, <3>2, <4>1 DEF Half
    <3> QED
      BY <2>1, <3>1, <3>2 DEF Half
  <2> QED
    BY <1>20, <2>1, <2>4, <2>5, <2>7 DEF TruncateArtifact, Files
<1>21. CASE FillArtifact(p)
  <2> DEFINE f == work[p].file
             g == work[p].gen
  <2>1. /\ g \in Generated /\ f \in Artifact /\ art'[f] = g
        /\ \A a \in Artifact \ {f} : art'[a] = art[a]
    BY <1>1, <1>21, FillsHalf DEF DiskTypes
  <2>2. /\ UNCHANGED <<work, prd>> /\ open'[p] = "no" /\ pc'[p] = AfterFile(p)
        /\ cmd[p].do = "generate" /\ g.prd = prd
    BY <1>1, <1>21 DEF FillArtifact, Goto, LocalTypes, Labels, Files
  <2>3. CASE f = "requirements" /\ work[p].todo = {} /\ \A a \in Rest : art[a] = Nil
    <3>1. pc'[p] = "ai2" /\ \A a \in Rest : art'[a] = Nil
      BY <2>1, <2>2, <2>3 DEF AfterFile, Rest, Artifact
    <3> QED
      BY <2>1, <2>2, <2>3, <3>1 DEF Files
  <2>4. CASE /\ f \in Rest \ work[p].todo /\ work[p].todo \subseteq Rest
             /\ art["requirements"] = g
             /\ \A a \in work[p].todo : art[a] = Nil
             /\ \A a \in Rest \ (work[p].todo \cup {f}) : art[a] = g
    <3>0. f # "requirements" /\ Artifact = {"requirements"} \cup Rest
      BY <2>4 DEF Rest, Artifact
    <3>1. /\ art'["requirements"] = g /\ \A a \in work[p].todo : art'[a] = Nil
          /\ \A a \in Rest \ work[p].todo : art'[a] = g
      BY <2>1, <2>4, <3>0
    <3>2. CASE work[p].todo = {}
      <4>1. pc'[p] = "persist" /\ AllAre(g)'
        BY <2>2, <3>0, <3>1, <3>2 DEF AfterFile, AllAre
      <4> QED
        BY <2>1, <2>2, <4>1 DEF Files, AllAre
    <3>3. CASE work[p].todo # {}
      <4>1. pc'[p] = "artifact" /\ Half(p)'
        BY <2>2, <2>4, <3>1, <3>3 DEF AfterFile, Half
      <4> QED
        BY <2>2, <4>1 DEF Files
    <3> QED
      BY <3>2, <3>3
  <2> QED
    BY <1>21, <2>3, <2>4, FillsHalf
<1>22. CASE ArtifactFails(p)
  <2>1. CASE pc'[p] = "error"
    BY <1>4, <2>1
  <2>2. CASE pc'[p] = "ai2"
    <3>1. /\ work'[p].broken /\ work'[p].gen = work[p].gen /\ prd' = prd
          /\ work[p].gen.prd = prd
      BY <1>1, <1>22 DEF ArtifactFails, LocalTypes, Work, Labels, Files
    <3> QED
      BY <2>2, <3>1 DEF Files
  <2> QED
    BY <1>1, <1>22, <2>1, <2>2 DEF ArtifactFails, Goto, LocalTypes
<1>23. CASE Persist(p) /\ cmd[p].do = "generate"
  <2>1. CASE cmd[p].by = "cli"
    <3>1. pc'[p] = "finish" /\ UNCHANGED <<work, prd, art>>
      BY <1>1, <1>23, <2>1 DEF Persist, Goto, LocalTypes
    <3> QED
      BY <1>1, <1>23, <3>1 DEF Persist, Files, AllAre
  <2>2. CASE cmd[p].by # "cli"
    BY <1>1, <1>4, <1>23, <2>2 DEF Persist, Goto, LocalTypes
  <2> QED
    BY <2>1, <2>2
<1>24. CASE PersistError(p)
  BY <1>1, <1>4, <1>24 DEF PersistError, Goto, LocalTypes
<1> QED
  BY <1>5, <1>6, <1>7, <1>8, <1>9, <1>10, <1>11, <1>12, <1>13, <1>14, <1>15, <1>16,
     <1>17, <1>18, <1>19, <1>20, <1>21, <1>22, <1>23, <1>24 DEF Step, Fault

\* Steps that leave the session alone.
LEMMA SessionSteps ==
  ASSUME NEW p \in Proc, Step(p) \/ Fault(p), session' # session
  PROVE  TruncateSession(p) \/ FillSession(p) \/ Persist(p) \/ PersistError(p)
BY DEF Step, Fault, DeleteArtifact, ShowQuestions, Cleanup, Call, ReadPrd, Survey, Answer,
   AnswerRest, TruncatePrd, FillPrd, TruncateArtifact, FillArtifact, Cancel, Refuse,
   ArtifactFails, PrdFails, PersistFails, CallFails, Crash, disk

LEMMA GeneratedActs ==
  ASSUME CourseInv, NEW p \in Proc, Step(p) \/ Fault(p),
         session' # session, Readable', session'.state = "generated"
  PROVE  Complete'
<1> USE DEF At
<1>1. SInv /\ Stage(p) /\ Labels(p) /\ Files(p) /\ pc[p] \in Label
  BY ProcTypes DEF CourseInv, Solo, SInv
<1>2. SameGeneration'
  BY SameActs
<1>3. ASSUME work[p].gen \in Generated, work[p].gen.prd = prd, AllAre(work[p].gen),
             UNCHANGED <<art, prd>>
      PROVE  Complete'
  BY <1>2, <1>3, GeneratedOnes DEF Complete, AllAre, IsGenerated
<1>4. CASE TruncateSession(p)
  BY <1>4 DEF TruncateSession, Readable
<1>5. CASE FillSession(p)
  <2>1. session' = ToSave(p)
    BY <1>5 DEF FillSession, Fill, Readable
  <2>2. CASE pc[p] = "reset"
    BY <1>1, <2>1, <2>2 DEF ToSave, Labels
  <2>3. CASE pc[p] = "accept"
    <3>1. map[p] \in Session /\ session' = [map[p] EXCEPT !.state = "prd_accepted"]
      BY <1>1, <2>1, <2>3 DEF ToSave, Stage, Good
    <3>2. session'.state = "prd_accepted"
      BY <3>1 DEF Session
    <3> QED
      BY <3>2
  <2>4. CASE pc[p] = "fallback"
    BY <1>1, <2>1, <2>4 DEF ToSave, Labels, Working
  <2>5. CASE pc[p] = "finish"
    BY <1>1, <1>3, <1>5, <2>5 DEF FillSession, Labels, Files
  <2> QED
    BY <1>5, <2>2, <2>3, <2>4, <2>5 DEF FillSession
<1>6. CASE Persist(p)
  <2>1. own[p] \in Session /\ own[p].state # "generated" /\ session' = Final(p)
    BY <1>1, <1>6 DEF Persist, Replace, Stage, Good, Labels, Working
  <2>2. CASE cmd[p].do = "generate"
    BY <1>1, <1>3, <1>6, <2>2 DEF Persist, Files
  <2>3. CASE cmd[p].do = "accept"
    <3>1. session' = [own[p] EXCEPT !.state = "prd_accepted"]
      BY <2>1, <2>3 DEF Final
    <3>2. session'.state = "prd_accepted"
      BY <2>1, <3>1 DEF Session
    <3> QED
      BY <3>2
  <2>4. CASE cmd[p].do \notin {"generate", "accept"}
    BY <2>1, <2>4 DEF Final
  <2> QED
    BY <2>2, <2>3, <2>4
<1>7. CASE PersistError(p)
  <2>1. own[p] \in Session /\ own[p].state # "generated"
    BY <1>1, <1>7 DEF PersistError, Stage, Good, Labels, Working
  <2>2. session' = [own[p] EXCEPT !.err = TRUE]
    BY <1>7 DEF PersistError, Replace
  <2>3. session'.state = own[p].state
    BY <2>1, <2>2 DEF Session
  <2> QED
    BY <2>1, <2>3
<1> QED
  BY <1>4, <1>5, <1>6, <1>7, SessionSteps

\* A call begins with nothing there, or removes what is there first.
LEMMA CourseStart ==
  ASSUME CourseInv, "rerun" \notin Habits, NEW p \in Proc, NEW c \in Command, Start(p, c)
  PROVE  Labels(p)' /\ Files(p)' /\ UNCHANGED art
<1> USE DEF At, disk
<1>1. SInv /\ LocalTypes /\ pc[p] = "idle" /\ work[p] = NoWork
  BY DEF CourseInv, Solo, SInv, Start, Labels
<1>2. /\ UNCHANGED <<art, prd, work>> /\ cmd'[p] = c
      /\ c.by = "host" => ~c.force
  BY <1>1 DEF Start, LocalTypes, Command
<1>3. c.do = "generate" /\ ~c.force => AllAre(Nil)
  BY DEF Start, Disciplined, AllAre
<1>4. \/ pc'[p] = "idle"
      \/ pc'[p] = "call" /\ c.by = "host"
      \/ pc'[p] = "delete" /\ c.force
      \/ pc'[p] = Continue(c, session) /\ ~c.force
  BY <1>1 DEF Start, Goto, LocalTypes, Command
<1>5. \/ Continue(c, session) \in {"questions", "call"}
      \/ (Continue(c, session) = "accept" /\ c.do = "generate")
  BY DEF Continue
<1>6. work'[p].at = 1
  BY <1>1, <1>2 DEF NoWork
<1>7. Labels(p)'
  BY <1>1, <1>2, <1>4, <1>5 DEF Labels, Working
<1>8. Files(p)'
  <2>1. CASE pc'[p] \in {"idle", "questions"}
    BY <2>1 DEF Files
  <2>2. CASE pc'[p] = "delete"
    BY <1>2, <1>6, <2>2 DEF Files
  <2>3. CASE pc'[p] \in {"call", "accept"}
    <3>1. c.do = "generate" => AllAre(Nil)
      BY <1>2, <1>3, <1>4, <2>3
    <3> QED
      BY <1>2, <2>3, <3>1 DEF Files, AllAre
  <2> QED
    BY <1>4, <1>5, <2>1, <2>2, <2>3
<1> QED
  BY <1>2, <1>7, <1>8

LEMMA CourseNext ==
  Habits \cap CourseHabits = {} /\ CourseInv /\ [Next]_vars => CourseInv'
<1> SUFFICES ASSUME Habits \cap CourseHabits = {}, CourseInv, [Next]_vars
             PROVE  CourseInv'
  OBVIOUS
<1> USE DEF At
<1>1. "concurrent" \notin Habits /\ "rerun" \notin Habits
  BY DEF CourseHabits
<1>2. Solo /\ Solo' /\ SInv
  BY <1>1, SoloNext DEF CourseInv, Solo
<1> DEFINE Rests == SameGeneration' /\ \A q \in Proc : Labels(q)' /\ Files(q)'
<1>3. ASSUME NEW p \in Proc, Only(p), Labels(p)', Files(p)', SameGeneration',
             pc[p] # "idle" \/ \A q \in Proc : pc[q] = "idle"
      PROVE  Rests
  <2>1. ASSUME NEW q \in Proc \ {p} PROVE Labels(q)' /\ Files(q)'
    <3>1. pc[q] = "idle" /\ pc'[q] = "idle" /\ work'[q] = work[q]
      BY <1>2, <1>3, OthersIdle DEF Only
    <3>2. work'[q] = NoWork
      BY <3>1 DEF CourseInv, Labels
    <3> QED
      BY <3>1, <3>2 DEF Labels, Files, Working
  <2> QED
    BY <1>3, <2>1
<1>4. ASSUME NEW p \in Proc, Step(p) \/ Fault(p) PROVE Rests
  <2>1. Only(p) /\ Labels(p)' /\ Files(p)' /\ SameGeneration' /\ UNCHANGED cmd
    BY <1>2, <1>4, ActsAlone, LabelsActs, FilesActs, SameActs
  <2>2. CASE pc[p] # "idle"
    BY <1>3, <2>1, <2>2
  <2>3. CASE pc[p] = "idle"
    <3>1. Crash(p)
      BY <1>4, <2>3 DEF Step, Fault, DeleteArtifact, TruncateSession, FillSession,
         ShowQuestions, Cleanup, Call, ReadPrd, Survey, Answer, AnswerRest, TruncatePrd,
         FillPrd, TruncateArtifact, FillArtifact, Persist, PersistError, Cancel, Refuse,
         ArtifactFails, PrdFails, PersistFails, CallFails
    <3>2. UNCHANGED <<art, prd>>
      BY <3>1 DEF Crash, disk
    <3>3. ASSUME NEW q \in Proc \ {p} PROVE Labels(q)' /\ Files(q)'
      <4>1. /\ pc'[q] = pc[q] /\ cmd'[q] = cmd[q] /\ map'[q] = map[q]
            /\ own'[q] = own[q] /\ work'[q] = work[q] /\ open'[q] = open[q]
        BY <1>2, <1>4, <2>3, ActsAlone DEF Only
      <4>2. Labels(q) /\ Files(q)
        BY DEF CourseInv
      <4>3. Half(q) => Half(q)'
        BY <3>2, <4>1 DEF Half, AllAre
      <4> QED
        BY <3>2, <4>1, <4>2, <4>3 DEF Labels, Files, AllAre
    <3> QED
      BY <2>1, <3>3
  <2> QED
    BY <2>2, <2>3
<1>5. ASSUME NEW p \in Proc, NEW c \in Command, Start(p, c) PROVE Rests
  <2>1. Only(p) /\ Labels(p)' /\ Files(p)' /\ UNCHANGED art
    BY <1>1, <1>2, <1>5, StartOnly, CourseStart
  <2>2. \A q \in Proc : pc[q] = "idle"
    BY <1>1, <1>5 DEF Start, Disciplined
  <2>3. SameGeneration'
    BY <2>1 DEF CourseInv, SameGeneration
  <2> QED
    BY <1>3, <2>1, <2>2, <2>3
<1>6. ASSUME NEW p \in Proc, Create(p) PROVE Rests
  <2>1. Only(p) /\ UNCHANGED <<pc, cmd, work, art>> /\ \A q \in Proc : pc[q] = "idle"
    BY <1>1, <1>2, <1>6, CreateOnly DEF Create
  <2>2. SameGeneration'
    BY <2>1 DEF CourseInv, SameGeneration
  <2> QED
    BY <2>1, <2>2 DEF CourseInv, Labels, Files, Working
<1>7. CASE UNCHANGED vars
  <2>1. UNCHANGED <<art, prd, pc, cmd, map, own, work, open>>
    BY <1>7 DEF vars, disk, local
  <2> QED
    BY <1>2, <2>1 DEF CourseInv, SameGeneration, Labels, Files, Half, AllAre
<1> QED
  BY <1>2, <1>4, <1>5, <1>6, <1>7 DEF Next, CourseInv

LEMMA CourseInit == Init => CourseInv
<1> SUFFICES ASSUME Init PROVE CourseInv
  OBVIOUS
<1>1. Solo
  BY SoloInit
<1>2. \A a \in Artifact : art[a] \in {Nil, Scaffold}
  BY DEF Init
<1> QED
  BY <1>1, <1>2 DEF Init, CourseInv, SameGeneration, IsGenerated, Labels, Files, Working

\* Users who run one command at a time and generate into a directory without
\* artifacts or with --force never find artifacts of two generations side by side,
\* whatever fails, is cancelled or killed, at whichever file (OnArtifact,
\* cleanupPartialArtifacts, --force).
THEOREM ArtifactsOfOneGeneration ==
  ASSUME Habits \cap CourseHabits = {} PROVE Spec => []SameGeneration
<1>1. CourseInv => SameGeneration
  BY DEF CourseInv
<1>2. CourseInv /\ [Next]_vars => CourseInv'
  BY CourseNext
<1> QED
  BY <1>1, <1>2, CourseInit, PTL DEF Spec

\* And a session that says "generated" was written over three artifacts generated
\* together from the PRD that is there (Generate, generate's own saveSession).
THEOREM GeneratedMeansComplete ==
  ASSUME Habits \cap CourseHabits = {} PROVE Spec => GeneratedIsComplete
<1> DEFINE Recorded == session' # session /\ Readable' /\ session'.state = "generated"
                       => Complete'
<1>1. CourseInv /\ [Next]_vars => [Recorded]_vars
  <2> SUFFICES ASSUME CourseInv, Next PROVE Recorded
    OBVIOUS
  <2>1. ASSUME NEW p \in Proc, Step(p) \/ Fault(p) PROVE Recorded
    BY <2>1, GeneratedActs
  <2>2. ASSUME NEW p \in Proc, NEW c \in Command, Start(p, c) PROVE Recorded
    BY <2>2 DEF Start, disk
  <2>3. ASSUME NEW p \in Proc, Create(p) PROVE Recorded
    BY <2>3 DEF Create, Replace, Fresh
  <2> QED
    BY <2>1, <2>2, <2>3 DEF Next
<1>2. CourseInv /\ [Next]_vars => CourseInv'
  BY CourseNext
<1> QED
  BY <1>1, <1>2, CourseInit, PTL DEF Spec, GeneratedIsComplete
=============================================================================
