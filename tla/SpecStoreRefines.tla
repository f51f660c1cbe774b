-------------------------- MODULE SpecStoreRefines --------------------------
(***************************************************************************)
(* What holds of SpecStore for callers without bad habits, for every value *)
(* of the constants: a clean handle shows what is on disk, frozen specs    *)
(* stay frozen, and every file system call is a step of SpecLifecycle.     *)
(***************************************************************************)
EXTENDS SpecStoreProofs

-----------------------------------------------------------------------------
(***************************************************************************)
(* The inductive invariant of callers without bad habits.  At most one     *)
(* client is active, the one with the lock.  What it has read is on disk;  *)
(* its handle's status, hash and banner are those on disk even when it has *)
(* unsaved edits; and what it is writing is, for a save, its handle, past  *)
(* the guards, and for a transition what is on disk with one step made in  *)
(* prd.md.  Without the last two the middle of a save, after prd.md has    *)
(* been renamed and before the other files have, cannot be told from       *)
(* damage, and neither a crash nor the next rename could be justified.     *)
(***************************************************************************)
Stage(c) ==
  /\ pc[c] = "read" => op[c] \in {"load", "archive"} /\ mem[c] = Nil
  /\ pc[c] \in {"write", "rename"} => op[c] \in {"save", "transition", "archive"}
  /\ pc[c] \in {"check", "move"} => op[c] = "archive" /\ files.prd.status = "archived"
  /\ op[c] = "archive" => mem[c] = Nil
  /\ pc[c] \in {"write", "rename"} /\ op[c] \in {"save", "transition"} => mem[c] # Nil

\* p has the contents on disk, but perhaps not architecture.md.
SameRest(p) ==
  \A f \in File \ {"prd"} : p[f] = files[f] \/ (f = "architecture" /\ p[f] = Nil)

Agrees(p) == p.prd = files.prd /\ SameRest(p)

ReadFresh(c) ==
  pc[c] = "read" =>
    \A i \in 1..5 : i < at[c] =>
      \/ buf[c][FileOrder[i]] = files[FileOrder[i]]
      \/ i = 5 /\ buf[c]["architecture"] = Nil

Bound(c) ==
  mem[c] # Nil /\ (pc[c] = "idle" \/ op[c] = "save") =>
    /\ mem[c].prd.status = files.prd.status
    /\ mem[c].prd.hash = files.prd.hash
    /\ mem[c].prd.banner = files.prd.banner
    /\ files.prd.status = "active" => loaded[c] = files.prd.ident

Clean(c) == Holds(c) /\ ~dirty[c] => Agrees(mem[c])

SaveWrite(c) ==
  pc[c] \in {"write", "rename"} /\ op[c] = "save" =>
    /\ buf[c] = mem[c]
    /\ CanSave(buf[c], loaded[c])
    /\ pc[c] = "rename" =>
         \A i \in 1..5 : i < at[c] => buf[c][FileOrder[i]] = files[FileOrder[i]]

\* One step of the lifecycle in prd.md.
PrdStep(p, q) ==
  \/ /\ p.status = "draft" /\ p.intent # Nil
     /\ q = [p EXCEPT !.status = "active", !.hash = ComputeIntentHash(p.intent)]
  \/ p.status = "active" /\ q = [p EXCEPT !.status = "sealed"]
  \/ p.status = "sealed" /\ q = [p EXCEPT !.status = "superseded", !.banner = TRUE]
  \/ /\ p.status \in {"draft", "sealed", "superseded"}
     /\ q = [p EXCEPT !.status = "archived"]

StepWrite(c) ==
  pc[c] \in {"write", "rename"} /\ op[c] \in {"transition", "archive"} =>
    /\ SameRest(buf[c])
    /\ \/ (pc[c] = "write" \/ at[c] = 1) /\ PrdStep(files.prd, buf[c].prd)
       \/ pc[c] = "rename" /\ at[c] > 1 /\ files.prd = buf[c].prd
    /\ op[c] = "archive" => buf[c].prd.status = "archived"

ClientInv(c) ==
  /\ Owner(c) /\ Stage(c) /\ ReadFresh(c) /\ Bound(c) /\ Clean(c)
  /\ SaveWrite(c) /\ StepWrite(c)

StoreInv ==
  /\ PrdInv
  /\ \A c \in Client : ClientInv(c)

LEMMA InactiveInv ==
  ASSUME NEW c \in Client, pc[c] = "idle", mem[c] = Nil
  PROVE  ClientInv(c)
BY DEF ClientInv, Owner, Active, Stage, ReadFresh, Bound, Clean, Holds, SaveWrite,
       StepWrite

\* While c is active nobody else is.
LEMMA OthersInactive ==
  ASSUME StoreInv, NEW c \in Client, NEW d \in Client, Active(c), c # d
  PROVE  pc[d] = "idle" /\ mem[d] = Nil
BY DEF StoreInv, ClientInv, Owner, Active

\* A step of c that leaves the handles and the control of the others alone only
\* has to restore the invariant of c.
LEMMA Frame ==
  ASSUME StoreInv, NEW c \in Client, Active(c),
         \A d \in Client \ {c} : pc'[d] = pc[d] /\ mem'[d] = mem[d],
         ClientInv(c)'
  PROVE  \A d \in Client : ClientInv(d)'
<1> SUFFICES ASSUME NEW d \in Client, d # c PROVE ClientInv(d)'
  OBVIOUS
<1>1. pc'[d] = "idle" /\ mem'[d] = Nil
  BY OthersInactive
<1>2. QED
  BY <1>1 DEF ClientInv, Owner, Active, Stage, ReadFresh, Bound, Clean, Holds,
              SaveWrite, StepWrite

\* The end of c's activity restores it whatever happened on disk.
LEMMA DropInv ==
  ASSUME StoreInv, NEW c \in Client, Active(c), Drop(c)
  PROVE  \A d \in Client : ClientInv(d)'
<1>1. pc'[c] = "idle" /\ mem'[c] = Nil
  BY DEF Drop, Return, StoreInv, PrdInv, TypeInv, TypeOK
<1>2. \A d \in Client \ {c} : pc'[d] = pc[d] /\ mem'[d] = mem[d]
  BY DEF Drop, Return, StoreInv, PrdInv, TypeInv, TypeOK
<1>3. ClientInv(c)'
  BY <1>1 DEF ClientInv, Owner, Active, Stage, ReadFresh, Bound, Clean, Holds,
              SaveWrite, StepWrite
<1>4. QED
  BY <1>2, <1>3, Frame

LEMMA InitInv == Init => StoreInv
<1> SUFFICES ASSUME Init PROVE StoreInv
  OBVIOUS
<1>1. \A c \in Client : ClientInv(c)
  BY InactiveInv DEF Init
<1>2. QED
  BY <1>1, PrdInit DEF StoreInv

\* The contents of a hash give away its text.
LEMMA HashInjective ==
  ASSUME NEW s \in Intent \cup {Nil}, NEW t \in Intent \cup {Nil},
         ComputeIntentHash(s) = ComputeIntentHash(t)
  PROVE  s = t
BY NilAssumption DEF ComputeIntentHash

\* From a handle that agrees with the disk every transition is one PrdStep.
LEMMA TransitionedStep ==
  ASSUME NEW p \in Package, NEW target \in Status, CanTransition(p, target),
         target \in {"active", "sealed", "archived"}, Agrees(p)
  PROVE  /\ PrdStep(files.prd, Transitioned(p, target).prd)
         /\ SameRest(Transitioned(p, target))
         /\ Transitioned(p, target).prd.status = target
<1>1. p.prd \in Prd /\ p.prd.status \in Status
  BY DEF Package, Prd
<1>2. target \in Transitions[p.prd.status]
  BY DEF CanTransition, ValidTransition
<1>3. /\ Transitioned(p, target).prd =
           [p.prd EXCEPT !.status = target,
                         !.hash = IF target = "active"
                                  THEN ComputeIntentHash(p.prd.intent) ELSE @]
      /\ \A f \in File \ {"prd"} : Transitioned(p, target)[f] = p[f]
  BY <1>1 DEF Transitioned, Package, Prd, File
<1>4. SameRest(Transitioned(p, target))
  BY <1>3 DEF Agrees, SameRest
<1>5. CASE target = "active"
  <2>1. p.prd.status = "draft" /\ p.prd.intent # Nil
    BY <1>1, <1>2, <1>5 DEF Transitions, Status, CanTransition
  <2>2. QED
    BY <1>1, <1>3, <1>4, <1>5, <2>1 DEF PrdStep, Agrees, Prd
<1>6. CASE target = "sealed"
  <2>1. p.prd.status = "active"
    BY <1>1, <1>2, <1>6 DEF Transitions, Status
  <2>2. Transitioned(p, target).prd = [p.prd EXCEPT !.status = "sealed"]
    BY <1>1, <1>3, <1>6 DEF Prd
  <2>3. QED
    BY <1>1, <1>4, <1>6, <2>1, <2>2 DEF PrdStep, Agrees, Prd
<1>7. CASE target = "archived"
  <2>1. p.prd.status \in {"draft", "sealed", "superseded"}
    BY <1>1, <1>2, <1>7 DEF Transitions, Status
  <2>2. Transitioned(p, target).prd = [p.prd EXCEPT !.status = "archived"]
    BY <1>1, <1>3, <1>7 DEF Prd
  <2>3. QED
    BY <1>1, <1>4, <1>7, <2>1, <2>2 DEF PrdStep, Agrees, Prd
<1>8. QED
  BY <1>5, <1>6, <1>7

LEMMA SupersededStep ==
  ASSUME NEW p \in Package, p.prd.status = "sealed", Agrees(p)
  PROVE  PrdStep(files.prd, Superseded(p).prd) /\ SameRest(Superseded(p))
<1>1. p.prd \in Prd
  BY DEF Package
<1>2. /\ Superseded(p).prd = [p.prd EXCEPT !.status = "superseded", !.banner = TRUE]
      /\ \A f \in File \ {"prd"} : Superseded(p)[f] = p[f]
  BY <1>1 DEF Superseded, Package, Prd, File
<1>3. QED
  BY <1>2 DEF PrdStep, Agrees, SameRest

LEMMA NextInv == Habits = {} /\ StoreInv /\ [Next]_vars => StoreInv'
<1> SUFFICES ASSUME Habits = {}, StoreInv, [Next]_vars PROVE StoreInv'
  OBVIOUS
<1> DEFINE Clients == \A d \in Client : ClientInv(d)
<1> USE DEF disk, handle, work
<1>1. PrdInv' /\ TypeOK /\ TypeInv
  BY PrdNext DEF StoreInv, PrdInv, TypeInv, PrdDiscipline
<1>2. \A c \in Client : ClientInv(c)
  BY DEF StoreInv
<1>4. \A c \in Client : mem[c] # Nil => mem[c] \in Package
  BY <1>1 DEF TypeOK
<1>5. ASSUME NEW c \in Client, NEW o \in {"load", "archive"}, BeginRead(c, o)
      PROVE  Clients'
  <2>1. lock = Nil /\ lock' = c /\ place' = "specs"
    BY <1>5 DEF BeginRead
  <2>2. \A d \in Client : ~Active(d)
    BY <1>2, <2>1, NilAssumption DEF ClientInv, Owner
  <2>3. \A d \in Client \ {c} : pc'[d] = "idle" /\ mem'[d] = Nil
    BY <1>1, <1>5, <2>2 DEF BeginRead, Active, TypeOK
  <2>4. \A d \in Client \ {c} : ClientInv(d)'
    BY <2>3 DEF ClientInv, Owner, Active, Stage, ReadFresh, Bound, Clean, Holds,
                SaveWrite, StepWrite
  <2>5. pc'[c] = "read" /\ op'[c] = o /\ mem'[c] = Nil /\ at'[c] = 1
    BY <1>1, <1>5 DEF BeginRead, TypeOK, TypeInv, BeingWritten
  <2>6. ClientInv(c)'
    BY <2>1, <2>5 DEF ClientInv, Owner, Active, Stage, ReadFresh, Bound, Clean,
                      Holds, SaveWrite, StepWrite
  <2>7. QED
    BY <2>4, <2>6
<1>6. ASSUME NEW c \in Client, ReadFile(c)
      PROVE  Clients'
  <2>1. at[c] \in 1..5 /\ at'[c] = at[c] + 1 /\ pc[c] = "read" /\ pc' = pc
        /\ mem' = mem /\ UNCHANGED <<disk, lock, op>>
    BY <1>1, <1>6 DEF ReadFile, TypeOK
  <2>2. PICK content \in {files[FileOrder[at[c]]]} \cup
                         (IF FileOrder[at[c]] = "architecture" THEN {Nil} ELSE {}) :
          buf' = [buf EXCEPT ![c][FileOrder[at[c]]] = content]
    BY <1>6 DEF ReadFile
  <2>3. \/ content = files[FileOrder[at[c]]]
        \/ at[c] = 5 /\ content = Nil
    BY <2>1, <2>2 DEF FileOrder
  <2>4. buf'[c] = [buf[c] EXCEPT ![FileOrder[at[c]]] = content]
        /\ buf[c] \in PartPackage
    BY <1>1, <2>2 DEF TypeOK
  <2>5. /\ buf'[c][FileOrder[at[c]]] = content
        /\ \A i \in 1..5 : i # at[c] => buf'[c][FileOrder[i]] = buf[c][FileOrder[i]]
    BY <2>1, <2>4 DEF FileOrder, PartPackage
  <2>6. ReadFresh(c)'
    BY <1>2, <2>1, <2>3, <2>5 DEF ClientInv, ReadFresh, FileOrder
  <2>7. Active(c) /\ \A d \in Client \ {c} : pc'[d] = pc[d] /\ mem'[d] = mem[d]
    BY <2>1 DEF Active
  <2>8. ClientInv(c)'
    BY <1>2, <2>1, <2>6 DEF ClientInv, Owner, Active, Stage, Bound, Clean, Holds,
                            SaveWrite, StepWrite
  <2>9. QED
    BY <2>7, <2>8, Frame
<1>7. ASSUME NEW c \in Client, LoadReturn(c)
      PROVE  Clients'
  <2>1. pc[c] = "read" /\ op[c] = "load" /\ at[c] = 6 /\ UNCHANGED <<disk, lock>>
    BY <1>7 DEF LoadReturn
  <2>2. buf[c] \in Package
    BY <1>1, <2>1, ReadIsPackage
  <2>3. Agrees(buf[c])
    BY <1>2, <2>1 DEF ClientInv, ReadFresh, Agrees, SameRest, File, FileOrder
  <2>4. /\ pc'[c] = "idle" /\ mem'[c] = buf[c] /\ dirty'[c] = FALSE /\ op'[c] = "none"
        /\ loaded'[c] = IF buf[c].prd.status = "active" THEN buf[c].prd.ident ELSE Nil
        /\ \A d \in Client \ {c} : pc'[d] = pc[d] /\ mem'[d] = mem[d]
    BY <1>1, <1>7 DEF LoadReturn, Return, TypeOK
  <2>5. Agrees(mem[c])' /\ Active(c)
    BY <2>1, <2>3, <2>4 DEF Agrees, SameRest, Active
  <2>6. ClientInv(c)'
    BY <1>2, <2>1, <2>3, <2>4, <2>5
       DEF ClientInv, Owner, Active, Stage, ReadFresh, Bound, Clean, Holds,
           SaveWrite, StepWrite, Agrees
  <2>7. QED
    BY <2>4, <2>5, <2>6, Frame
<1>8. ASSUME NEW c \in Client, Drop(c), Active(c)
      PROVE  Clients'
  BY <1>8, DropInv
<1>9. ASSUME NEW c \in Client, EditPrd(c) \/ EditArtifacts(c)
      PROVE  Clients'
  <2>1. Holds(c) /\ mem[c] \in Package
    BY <1>4, <1>9 DEF EditPrd, EditArtifacts, Holds
  <2>2. PICK value \in Package :
          /\ EditWith(c, value)
          /\ value.prd.status = mem[c].prd.status
          /\ value.prd.hash = mem[c].prd.hash
          /\ value.prd.banner = mem[c].prd.banner
    BY <1>9, <2>1, EditValue
  <2>3. /\ mem'[c] = value /\ dirty'[c] = TRUE /\ UNCHANGED <<disk, lock, loaded, pc, op>>
        /\ \A d \in Client \ {c} : mem'[d] = mem[d]
    BY <1>1, <2>2 DEF EditWith, TypeOK
  <2>4. Active(c) /\ pc[c] = "idle" /\ op[c] # "archive"
    BY <1>2, <2>1 DEF Active, Holds, ClientInv, Stage
  <2>5. ClientInv(c)'
    BY <1>2, <2>1, <2>2, <2>3, <2>4
       DEF ClientInv, Owner, Active, Stage, ReadFresh, Bound, Clean, Holds,
           SaveWrite, StepWrite
  <2>6. QED
    BY <2>3, <2>4, <2>5, Frame
<1>10. ASSUME NEW c \in Client, BeginSave(c)
       PROVE  Clients'
  <2>1. Holds(c) /\ mem[c] \in Package /\ CanSave(mem[c], loaded[c])
        /\ UNCHANGED <<disk, lock, loaded, dirty>>
    BY <1>4, <1>10 DEF BeginSave, Holds
  <2>2. /\ pc'[c] = "write" /\ op'[c] = "save" /\ at'[c] = 1
        /\ buf'[c] = WithCoverage(mem[c]) /\ mem'[c] = WithCoverage(mem[c])
        /\ \A d \in Client \ {c} : pc'[d] = pc[d] /\ mem'[d] = mem[d]
    BY <1>1, <1>10 DEF BeginSave, BeginWrite, TypeOK
  <2>3. WithCoverage(mem[c]) \in Package /\ WithCoverage(mem[c]).prd = mem[c].prd
    BY <2>1, WithCoverageType DEF WithCoverage, Package
  <2>4. CanSave(buf[c], loaded[c])'
    BY <2>1, <2>2, <2>3 DEF CanSave
  <2>5. WithCoverage(mem[c]) # Nil
    BY <2>3, NilAssumption
  <2>6. ClientInv(c)' /\ Active(c)
    BY <1>2, <2>1, <2>2, <2>3, <2>4, <2>5
       DEF ClientInv, Owner, Active, Stage, ReadFresh, Bound, Clean, Holds,
           SaveWrite, StepWrite
  <2>7. QED
    BY <2>2, <2>6, Frame
<1>11. ASSUME NEW c \in Client, MayTransition(c)
       PROVE  /\ Active(c) /\ mem[c] \in Package /\ Agrees(mem[c])
              /\ op[c] # "archive"
  BY <1>2, <1>4, <1>11
     DEF MayTransition, Holds, Active, ClientInv, Clean, Stage
<1>12. ASSUME NEW c \in Client, NEW o \in {"transition", "archive"}, NEW value,
              BeginWrite(c, o, value), PrdStep(files.prd, value.prd), SameRest(value),
              Active(c), UNCHANGED <<files, place, lock, handle>>,
              o = "archive" => mem[c] = Nil /\ value.prd.status = "archived",
              o = "transition" => mem[c] # Nil
       PROVE  Clients'
  <2>1. /\ pc'[c] = "write" /\ op'[c] = o /\ at'[c] = 1 /\ buf'[c] = value
        /\ \A d \in Client \ {c} : pc'[d] = pc[d]
    BY <1>1, <1>12 DEF BeginWrite, TypeOK
  <2>2. SameRest(buf[c])'
    BY <1>12, <2>1 DEF SameRest
  <2>3. ClientInv(c)'
    BY <1>2, <1>12, <2>1, <2>2
       DEF ClientInv, Owner, Active, Stage, ReadFresh, Bound, Clean, Holds,
           SaveWrite, StepWrite
  <2>4. QED
    BY <1>12, <2>1, <2>3, Frame
<1>13. ASSUME NEW c \in Client, BeginTransition(c)
       PROVE  Clients'
  <2>1. PICK target \in {"active", "sealed"} :
          /\ CanTransition(mem[c], target)
          /\ BeginWrite(c, "transition", Transitioned(mem[c], target))
    BY <1>13 DEF BeginTransition
  <2>2. Active(c) /\ mem[c] \in Package /\ Agrees(mem[c])
    BY <1>11, <1>13 DEF BeginTransition
  <2>3. target \in Status
    BY DEF Status
  <2>4. /\ PrdStep(files.prd, Transitioned(mem[c], target).prd)
        /\ SameRest(Transitioned(mem[c], target))
    BY <2>1, <2>2, <2>3, TransitionedStep
  <2>5. mem[c] # Nil
    BY <2>2, NilAssumption
  <2>6. QED
    BY <1>12, <1>13, <2>1, <2>2, <2>4, <2>5 DEF BeginTransition
<1>14. ASSUME NEW c \in Client, BeginSupersede(c)
       PROVE  Clients'
  <2>1. Active(c) /\ mem[c] \in Package /\ Agrees(mem[c])
    BY <1>11, <1>14 DEF BeginSupersede
  <2>2. PrdStep(files.prd, Superseded(mem[c]).prd) /\ SameRest(Superseded(mem[c]))
    BY <1>14, <2>1, SupersededStep DEF BeginSupersede
  <2>3. mem[c] # Nil
    BY <2>1, NilAssumption
  <2>4. QED
    BY <1>12, <1>14, <2>1, <2>2, <2>3 DEF BeginSupersede
<1>15. ASSUME NEW c \in Client, WriteTemp(c)
       PROVE  Clients'
  <2>1. /\ pc[c] = "write" /\ UNCHANGED <<files, place, lock, handle, op, buf>>
        /\ \/ pc'[c] = "write"
           \/ pc'[c] = "rename" /\ at'[c] = 1
        /\ \A d \in Client \ {c} : pc'[d] = pc[d]
    BY <1>1, <1>15 DEF WriteTemp, TypeOK
  <2>2. SameRest(buf[c]) => SameRest(buf[c])'
    BY <2>1 DEF SameRest
  <2>3. ClientInv(c)'
    <3>1. Owner(c)' /\ Stage(c)' /\ ReadFresh(c)'
      BY <1>2, <2>1 DEF ClientInv, Owner, Active, Stage, ReadFresh
    <3>2. Bound(c)' /\ Clean(c)'
      BY <1>2, <2>1 DEF ClientInv, Bound, Clean, Holds
    <3>3. SaveWrite(c)'
      <4>1. CASE pc'[c] = "write"
        BY <1>2, <2>1, <4>1 DEF ClientInv, SaveWrite
      <4>2. CASE pc'[c] = "rename" /\ at'[c] = 1
        BY <1>2, <2>1, <4>2 DEF ClientInv, SaveWrite
      <4>3. QED
        BY <2>1, <4>1, <4>2
    <3>4. StepWrite(c)'
      BY <1>2, <2>1, <2>2 DEF ClientInv, StepWrite
    <3>5. QED
      BY <3>1, <3>2, <3>3, <3>4 DEF ClientInv
  <2>4. QED
    BY <2>1, <2>3, Frame DEF Active
<1>16. ASSUME NEW c \in Client, RenameTemp(c)
       PROVE  Clients'
  <2>1. /\ pc[c] = "rename" /\ pc' = pc /\ at[c] \in 1..FileCount(buf[c])
        /\ at'[c] = at[c] + 1 /\ FileCount(buf[c]) \in 4..5
        /\ UNCHANGED <<place, lock, handle, op, buf>>
    BY <1>1, <1>16, FileCountRange DEF RenameTemp, TypeOK
  <2>2. files \in Package /\ files' \in Package /\ buf[c] \in Package
        /\ op[c] \in {"save", "transition", "archive"}
    BY <1>1, <1>2, <2>1
       DEF PrdInv, TypeInv, TypeOK, BeingWritten, ClientInv, Stage
  <2>3. files' = [files EXCEPT ![FileOrder[at[c]]] = buf[c][FileOrder[at[c]]]]
    BY <1>16 DEF RenameTemp
  <2>4. /\ files'[FileOrder[at[c]]] = buf[c][FileOrder[at[c]]]
        /\ \A f \in File : f # FileOrder[at[c]] => files'[f] = files[f]
    BY <2>1, <2>2, <2>3 DEF FileOrder, File, Package
  <2>5. Owner(c)' /\ Stage(c)' /\ ReadFresh(c)' /\ Clean(c)'
    BY <1>2, <2>1 DEF ClientInv, Owner, Active, Stage, ReadFresh, Clean, Holds
  <2>6. CASE op[c] = "save"
    <3>1. buf[c] = mem[c] /\ CanSave(buf[c], loaded[c]) /\ Bound(c) /\ mem[c] # Nil
          /\ \A i \in 1..5 : i < at[c] => buf[c][FileOrder[i]] = files[FileOrder[i]]
      BY <1>2, <2>1, <2>6 DEF ClientInv, SaveWrite, Stage
    <3>2. SaveWrite(c)'
      <4>1. \A i \in 1..5 : i < at[c] + 1 => buf[c][FileOrder[i]] = files'[FileOrder[i]]
        BY <2>1, <2>4, <3>1 DEF FileOrder, File
      <4>2. QED
        BY <2>1, <3>1, <4>1 DEF SaveWrite
    <3>3. Bound(c)'
      <4>1. CASE at[c] = 1
        <5>1. files'.prd = mem[c].prd
          BY <2>4, <3>1, <4>1 DEF FileOrder
        <5>2. mem[c].prd.status = "active" => loaded[c] = mem[c].prd.ident
          <6>1. mem[c].prd.status = "active" =>
                  loaded[c] = files.prd.ident /\ files.prd.ident \in Ident
            BY <2>2, <2>6, <3>1 DEF Bound, Package, Prd
          <6>2. QED
            BY <3>1, <6>1, NilAssumption DEF CanSave
        <5>3. QED
          BY <2>1, <5>1, <5>2 DEF Bound
      <4>2. CASE at[c] # 1
        <5>1. files'.prd = files.prd
          BY <2>1, <2>4, <4>2 DEF FileOrder, File
        <5>2. QED
          BY <2>1, <3>1, <5>1 DEF Bound
      <4>3. QED
        BY <4>1, <4>2
    <3>4. StepWrite(c)'
      BY <2>1, <2>6 DEF StepWrite
    <3>5. QED
      BY <2>1, <2>5, <3>2, <3>3, <3>4, Frame DEF ClientInv, Active
  <2>7. CASE op[c] \in {"transition", "archive"}
    <3>1. StepWrite(c)
      BY <1>2 DEF ClientInv
    <3>2. StepWrite(c)'
      <4>1. CASE at[c] = 1
        <5>1. files'.prd = buf[c].prd
          BY <2>4, <4>1 DEF FileOrder
        <5>2. SameRest(buf[c])'
          BY <2>1, <2>4, <2>7, <3>1, <4>1 DEF StepWrite, SameRest, FileOrder, File
        <5>3. QED
          BY <2>1, <2>7, <3>1, <4>1, <5>1, <5>2 DEF StepWrite
      <4>2. CASE at[c] # 1
        <5>1. files'.prd = files.prd
          BY <2>1, <2>4, <4>2 DEF FileOrder, File
        <5>2. SameRest(buf[c])'
          BY <2>1, <2>4, <2>7, <3>1 DEF StepWrite, SameRest
        <5>3. QED
          BY <2>1, <2>7, <3>1, <4>2, <5>1, <5>2 DEF StepWrite
      <4>3. QED
        BY <4>1, <4>2
    <3>3. Bound(c)' /\ SaveWrite(c)'
      BY <2>1, <2>7 DEF Bound, SaveWrite
    <3>4. QED
      BY <2>1, <2>5, <3>2, <3>3, Frame DEF ClientInv, Active
  <2>8. QED
    BY <2>2, <2>6, <2>7
<1>17. ASSUME NEW c \in Client, SaveReturn(c)
       PROVE  Clients'
  <2>1. /\ pc[c] = "rename" /\ op[c] = "save" /\ at[c] = FileCount(buf[c]) + 1
        /\ UNCHANGED <<files, place, lock, mem, loaded>>
        /\ pc'[c] = "idle" /\ op'[c] = "none"
        /\ \A d \in Client \ {c} : pc'[d] = pc[d]
    BY <1>1, <1>17 DEF SaveReturn, Written, Return, TypeOK
  <2>2. /\ buf[c] = mem[c] /\ Bound(c) /\ mem[c] # Nil
        /\ \A i \in 1..5 : i < at[c] => buf[c][FileOrder[i]] = files[FileOrder[i]]
    BY <1>2, <2>1 DEF ClientInv, SaveWrite, Stage
  <2>3. Agrees(mem[c])
    <3>1. /\ mem[c]["prd"] = files["prd"]
          /\ mem[c]["requirements"] = files["requirements"]
          /\ mem[c]["test_spec"] = files["test_spec"]
          /\ mem[c]["tasks"] = files["tasks"]
      BY <2>1, <2>2 DEF FileCount, FileOrder
    <3>2. mem[c]["architecture"] = files["architecture"] \/ mem[c]["architecture"] = Nil
      BY <2>1, <2>2 DEF FileCount, FileOrder
    <3>3. QED
      BY <3>1, <3>2 DEF Agrees, SameRest, File
  <2>4. Clean(c)'
    BY <2>1, <2>3 DEF Clean, Agrees, SameRest
  <2>5. Bound(c)'
    BY <2>1, <2>2 DEF Bound
  <2>6. ClientInv(c)'
    BY <1>2, <2>1, <2>2, <2>4, <2>5
       DEF ClientInv, Owner, Active, Stage, ReadFresh, SaveWrite, StepWrite
  <2>7. QED
    BY <2>1, <2>6, Frame DEF Active
<1>18. ASSUME NEW c \in Client, TransitionReturn(c)
       PROVE  Clients'
  <2>1. /\ pc[c] = "rename" /\ op[c] = "transition" /\ at[c] > 1
        /\ UNCHANGED <<files, place, lock>>
        /\ pc'[c] = "idle" /\ op'[c] = "none" /\ mem'[c] = buf[c]
        /\ buf[c].prd.status = "active" => loaded'[c] = buf[c].prd.ident
        /\ \A d \in Client \ {c} : pc'[d] = pc[d] /\ mem'[d] = mem[d]
    BY <1>1, <1>18, FileCountRange DEF TransitionReturn, Written, Return, TypeOK
  <2>2. files.prd = buf[c].prd /\ SameRest(buf[c])
    BY <1>2, <2>1 DEF ClientInv, StepWrite
  <2>3. Agrees(mem[c])'
    BY <2>1, <2>2 DEF Agrees, SameRest
  <2>4. Bound(c)' /\ Clean(c)'
    BY <2>1, <2>2, <2>3 DEF Bound, Clean
  <2>5. ClientInv(c)'
    BY <1>2, <2>1, <2>4
       DEF ClientInv, Owner, Active, Stage, ReadFresh, SaveWrite, StepWrite
  <2>6. QED
    BY <2>1, <2>5, Frame DEF Active
<1>19. ASSUME NEW c \in Client, ArchiveLoaded(c)
       PROVE  Clients'
  <2>1. /\ pc[c] = "read" /\ op[c] = "archive" /\ at[c] = 6 /\ UNCHANGED disk
        /\ Active(c) /\ buf[c] \in Package /\ mem[c] = Nil
    BY <1>1, <1>2, <1>19, ReadIsPackage DEF ArchiveLoaded, Active, ClientInv, Stage
  <2>2. Agrees(buf[c])
    BY <1>2, <2>1 DEF ClientInv, ReadFresh, Agrees, SameRest, File, FileOrder
  <2>3. CASE /\ buf[c].prd.status = "archived" /\ pc' = [pc EXCEPT ![c] = "check"]
             /\ UNCHANGED <<lock, handle, op, at, buf>>
    <3>1. pc'[c] = "check" /\ \A d \in Client \ {c} : pc'[d] = pc[d]
      BY <1>1, <2>3 DEF TypeOK
    <3>2. ClientInv(c)'
      BY <1>2, <2>1, <2>2, <2>3, <3>1
         DEF ClientInv, Owner, Active, Stage, ReadFresh, Bound, Clean, Holds,
             SaveWrite, StepWrite, Agrees
    <3>3. QED
      BY <2>1, <2>3, <3>1, <3>2, Frame
  <2>4. CASE /\ CanTransition(buf[c], "archived")
             /\ BeginWrite(c, "archive", Transitioned(buf[c], "archived"))
             /\ UNCHANGED <<lock, handle>>
    <3>1. /\ PrdStep(files.prd, Transitioned(buf[c], "archived").prd)
          /\ SameRest(Transitioned(buf[c], "archived"))
          /\ Transitioned(buf[c], "archived").prd.status = "archived"
      BY <2>1, <2>2, <2>4, TransitionedStep DEF Status
    <3>2. QED
      BY <1>12, <2>1, <2>4, <3>1
  <2>5. CASE Drop(c)
    BY <1>8, <2>1, <2>5
  <2>6. QED
    BY <1>19, <2>3, <2>4, <2>5 DEF ArchiveLoaded
<1>20. ASSUME NEW c \in Client, pc[c] # "idle", files.prd.status = "archived",
              op[c] = "archive", UNCHANGED <<disk, lock, handle, op, at, buf>>,
              pc' \in {[pc EXCEPT ![c] = "check"], [pc EXCEPT ![c] = "move"]}
       PROVE  Clients'
  <2>1. pc'[c] \in {"check", "move"} /\ \A d \in Client \ {c} : pc'[d] = pc[d]
    BY <1>1, <1>20 DEF TypeOK
  <2>2. ClientInv(c)'
    BY <1>2, <1>20, <2>1
       DEF ClientInv, Owner, Active, Stage, ReadFresh, Bound, Clean, Holds,
           SaveWrite, StepWrite
  <2>3. QED
    BY <1>20, <2>1, <2>2, Frame DEF Active
<1>21. ASSUME NEW c \in Client, ArchiveRecorded(c)
       PROVE  Clients'
  <2>1. pc[c] = "rename" /\ op[c] = "archive" /\ at[c] > 1
    BY <1>1, <1>21, FileCountRange DEF ArchiveRecorded, Written, TypeOK
  <2>2. files.prd.status = "archived"
    BY <1>2, <2>1 DEF ClientInv, StepWrite
  <2>3. QED
    BY <1>20, <1>21, <2>1, <2>2 DEF ArchiveRecorded
<1>22. ASSUME NEW c \in Client, CheckDest(c)
       PROVE  Clients'
  <2>1. pc[c] = "check" /\ op[c] = "archive" /\ files.prd.status = "archived"
    BY <1>2, <1>22 DEF CheckDest, ClientInv, Stage
  <2>2. CASE Drop(c)
    BY <1>8, <2>1, <2>2 DEF Active
  <2>3. CASE pc' = [pc EXCEPT ![c] = "move"] /\ UNCHANGED <<lock, handle, op, at, buf>>
    BY <1>20, <1>22, <2>1, <2>3 DEF CheckDest
  <2>4. QED
    BY <1>22, <2>2, <2>3 DEF CheckDest
<1>23. ASSUME NEW c \in Client,
              LoadFails(c) \/ SaveFails(c) \/ MoveDir(c) \/ MoveFails(c) \/ Crash(c)
              \/ Release(c)
       PROVE  Clients'
  <2>1. Drop(c) /\ Active(c)
    BY <1>23 DEF LoadFails, SaveFails, MoveDir, MoveFails, Crash, Release, Holds,
                 Active
  <2>2. QED
    BY <1>8, <2>1
<1>24. ASSUME files' = files, place' = place, lock' = lock, mem' = mem,
              loaded' = loaded, dirty' = dirty, pc' = pc, op' = op, at' = at,
              buf' = buf
       PROVE  Clients'
  BY <1>2, <1>24
     DEF ClientInv, Owner, Active, Stage, ReadFresh, Bound, Clean, Holds, SaveWrite,
         StepWrite, Agrees, SameRest
<1>25. Clients'
  <2>1. CASE ResolveConflict \/ UNCHANGED vars
    BY <1>24, <2>1 DEF ResolveConflict, vars
  <2>2. CASE \E c \in Client : Progress(c)
    BY <1>6, <1>7, <1>15, <1>16, <1>17, <1>18, <1>19, <1>21, <1>22, <1>23, <2>2
       DEF Progress
  <2>3. CASE \E c \in Client : Call(c)
    BY <1>5, <1>9, <1>10, <1>13, <1>14, <2>3 DEF Call, BeginLoad, BeginArchive
  <2>4. CASE \E c \in Client : Fault(c)
    BY <1>23, <2>4 DEF Fault
  <2>5. QED
    BY <2>1, <2>2, <2>3, <2>4 DEF Next
<1>26. QED
  BY <1>1, <1>25 DEF StoreInv

LEMMA StoreInvariant ==
  ASSUME Habits = {} PROVE Spec => []StoreInv
<1>1. StoreInv /\ [Next]_vars => StoreInv'
  BY NextInv
<1>2. QED
  BY <1>1, InitInv, PTL DEF Spec

\* Every handle without unsaved edits shows what is on disk, also after other
\* callers failed or were killed in the middle of a save.
THEOREM HandlesMatchDisk ==
  ASSUME Habits = {} PROVE Spec => []HandleMatchesDisk
<1>1. StoreInv => HandleMatchesDisk
  BY DEF StoreInv, ClientInv, Clean, Agrees, SameRest, HandleMatchesDisk
<1>2. QED
  BY <1>1, StoreInvariant, PTL

-----------------------------------------------------------------------------
(***************************************************************************)
(* The steps on disk.  Only a rename changes a file and only the move      *)
(* changes the place.                                                      *)
(***************************************************************************)
LEMMA DiskSteps ==
  ASSUME [Next]_vars
  PROVE  \/ UNCHANGED <<files, place>>
         \/ \E c \in Client : RenameTemp(c) \/ MoveDir(c)
<1> USE DEF disk, handle, work
<1>1. CASE UNCHANGED vars \/ ResolveConflict
  BY <1>1 DEF vars, ResolveConflict
<1>2. ASSUME NEW c \in Client, Progress(c)
      PROVE  UNCHANGED <<files, place>> \/ RenameTemp(c) \/ MoveDir(c)
  BY <1>2 DEF Progress, ReadFile, LoadReturn, Release, WriteTemp, SaveReturn,
              TransitionReturn, ArchiveLoaded, ArchiveRecorded, CheckDest
<1>3. ASSUME NEW c \in Client, Call(c)
      PROVE  UNCHANGED <<files, place>>
  BY <1>3 DEF Call, BeginLoad, BeginArchive, BeginRead, EditPrd, EditArtifacts,
              EditWith, BeginSave, BeginTransition, BeginSupersede
<1>4. ASSUME NEW c \in Client, Fault(c)
      PROVE  UNCHANGED <<files, place>>
  BY <1>4 DEF Fault, LoadFails, SaveFails, MoveFails, Crash
<1>5. QED
  BY <1>1, <1>2, <1>3, <1>4 DEF Next

\* A rename of a save leaves status, hash and banner alone, and all of prd.md
\* once the spec is active; the renames of a transition make one step in
\* prd.md and change nothing else.
LEMMA RenameEffect ==
  ASSUME StoreInv, NEW c \in Client, RenameTemp(c)
  PROVE  /\ place' = place
         /\ \/ files' = files
            \/ /\ files.prd.status \in {"draft", "active"}
               /\ files'.prd.status = files.prd.status
               /\ files'.prd.hash = files.prd.hash
               /\ files'.prd.banner = files.prd.banner
               /\ files.prd.status = "active" => files'.prd = files.prd
            \/ /\ PrdStep(files.prd, files'.prd)
               /\ files' = [files EXCEPT !["prd"] = files'.prd]
<1> USE DEF disk, handle, work
<1>1. TypeOK /\ Protected(files.prd) /\ ClientInv(c) /\ TypeInv
  BY DEF StoreInv, PrdInv, TypeInv
<1>2. /\ pc[c] = "rename" /\ at[c] \in 1..FileCount(buf[c])
      /\ FileCount(buf[c]) \in 4..5 /\ place' = place
  BY <1>1, FileCountRange DEF RenameTemp, TypeOK
<1>3. /\ files \in Package /\ buf[c] \in Package
      /\ op[c] \in {"save", "transition", "archive"}
  BY <1>1, <1>2 DEF TypeInv, TypeOK, BeingWritten, ClientInv, Stage
<1>4. files' = [files EXCEPT ![FileOrder[at[c]]] = buf[c][FileOrder[at[c]]]]
  BY DEF RenameTemp
<1>5. CASE op[c] = "save"
  <2>1. /\ CanSave(buf[c], loaded[c])
        /\ buf[c].prd.status = files.prd.status
        /\ buf[c].prd.hash = files.prd.hash
        /\ buf[c].prd.banner = files.prd.banner
        /\ files.prd.status = "active" => loaded[c] = files.prd.ident
    BY <1>1, <1>2, <1>5 DEF ClientInv, SaveWrite, Bound, Stage
  <2>2. files.prd \in Prd /\ buf[c].prd \in Prd
    BY <1>3 DEF Package
  <2>3. files.prd.status \in {"draft", "active"}
    BY <2>1, <2>2 DEF Prd, Status, CanSave, Frozen
  <2>4. files.prd.status = "active" => buf[c].prd = files.prd
    <3> SUFFICES ASSUME files.prd.status = "active" PROVE buf[c].prd = files.prd
      OBVIOUS
    <3>1. buf[c].prd.ident = files.prd.ident
      BY <2>1, <2>2, NilAssumption DEF CanSave, Prd
    <3>2. ComputeIntentHash(buf[c].prd.intent) = ComputeIntentHash(files.prd.intent)
      BY <1>1, <2>1 DEF CanSave, Protected, Marked
    <3>3. buf[c].prd.intent = files.prd.intent
      BY <2>2, <3>2, HashInjective DEF Prd
    <3>4. QED
      BY <2>1, <2>2, <3>1, <3>3 DEF Prd
  <2>5. files'.prd = files.prd \/ files'.prd = buf[c].prd
    BY <1>2, <1>3, <1>4 DEF FileOrder, Package
  <2>6. QED
    BY <1>2, <2>1, <2>3, <2>4, <2>5
<1>6. CASE op[c] # "save" /\ at[c] = 1
  <2>1. PrdStep(files.prd, buf[c].prd)
    BY <1>1, <1>2, <1>3, <1>6 DEF ClientInv, StepWrite
  <2>2. files' = [files EXCEPT !["prd"] = buf[c]["prd"]]
    BY <1>4, <1>6 DEF FileOrder
  <2>3. files'.prd = buf[c].prd
    BY <1>3, <2>2 DEF Package
  <2>4. QED
    BY <1>2, <2>1, <2>2, <2>3
<1>7. CASE op[c] # "save" /\ at[c] # 1
  <2>1. SameRest(buf[c])
    BY <1>1, <1>2, <1>3, <1>7 DEF ClientInv, StepWrite
  <2>2. files[FileOrder[at[c]]] = buf[c][FileOrder[at[c]]]
    BY <1>2, <1>7, <2>1 DEF SameRest, FileOrder, File, FileCount
  <2>3. files' = files
    BY <1>2, <1>3, <1>4, <2>2 DEF FileOrder, Package
  <2>4. QED
    BY <1>2, <2>3
<1>8. QED
  BY <1>5, <1>6, <1>7

LEMMA MoveEffect ==
  ASSUME StoreInv, NEW c \in Client, MoveDir(c)
  PROVE  /\ files' = files /\ files.prd.status = "archived"
         /\ place = "specs" /\ place' = "archive"
BY DEF MoveDir, StoreInv, ClientInv, Stage

\* No step of any caller changes anything of a sealed, superseded or archived
\* spec but status and banner, and nothing of an archived one.
THEOREM FrozenSpecsStayFrozen ==
  ASSUME Habits = {} PROVE Spec => FrozenStaysFrozen
<1> DEFINE Kept ==
      /\ files.prd.status \in Frozen =>
           /\ files'.prd.status \in Frozen
           /\ files' = [files EXCEPT !.prd.status = files'.prd.status,
                                     !.prd.banner = files'.prd.banner]
      /\ files.prd.status = "archived" => files' = files
<1>1. StoreInv /\ [Next]_vars => [Kept]_files
  <2> SUFFICES ASSUME StoreInv, [Next]_vars, files' # files PROVE Kept
    OBVIOUS
  <2>1. files \in Package /\ files.prd \in Prd
    BY DEF StoreInv, PrdInv, TypeInv, TypeOK, Package
  <2>2. PICK c \in Client : RenameTemp(c)
    BY DiskSteps, MoveEffect
  <2>3. CASE files.prd.status \in {"draft", "active"}
    BY <2>3 DEF Frozen
  <2>4. CASE /\ PrdStep(files.prd, files'.prd)
             /\ files' = [files EXCEPT !["prd"] = files'.prd]
             /\ files.prd.status \in Frozen
    <3>1. files'.prd = [files.prd EXCEPT !.status = files'.prd.status,
                                         !.banner = files'.prd.banner]
          /\ files'.prd.status \in Frozen /\ files.prd.status # "archived"
      BY <2>1, <2>4 DEF PrdStep, Prd, Frozen
    <3>2. files' = [files EXCEPT !.prd.status = files'.prd.status,
                                 !.prd.banner = files'.prd.banner]
      BY <2>1, <2>4, <3>1 DEF Package, Prd
    <3>3. QED
      BY <3>1, <3>2
  <2>5. files.prd.status \in {"draft", "active"} \cup Frozen
    BY <2>1 DEF Prd, Status, Frozen
  <2>6. QED
    BY <2>2, <2>3, <2>4, <2>5, RenameEffect
<1>2. QED
  BY <1>1, StoreInvariant, PTL DEF Spec, FrozenStaysFrozen

-----------------------------------------------------------------------------
(***************************************************************************)
(* The refinement                                                          *)
(***************************************************************************)
LEMMA LifecycleInit == Init => Lifecycle!Init
<1> SUFFICES ASSUME Init PROVE Lifecycle!Init
  OBVIOUS
<1>1. files \in Package
  BY InitTypes DEF TypeInv, TypeOK
<1>2. PICK i \in Ident, t \in Intent \cup {Nil}, k \in Content :
             files = Scaffold(i, t, k)
  BY DEF Init
<1>3. QED
  BY <1>1, <1>2 DEF Init, Scaffold, Package, Artifacts, Lifecycle!Init

LEMMA LifecycleNext ==
  StoreInv /\ StoreInv' /\ [Next]_vars => [Lifecycle!Next]_(Lifecycle!vars)
<1> SUFFICES ASSUME StoreInv, StoreInv', [Next]_vars
             PROVE  [Lifecycle!Next]_(Lifecycle!vars)
  OBVIOUS
<1>1. files \in Package /\ files' \in Package /\ files.prd \in Prd /\ files'.prd \in Prd
  BY DEF StoreInv, PrdInv, TypeInv, TypeOK, Package
<1>2. CASE files' = files /\ place' = place
  BY <1>2 DEF Lifecycle!vars
<1>3. ASSUME NEW c \in Client, MoveDir(c) PROVE Lifecycle!Relocate
  BY <1>3, MoveEffect DEF Lifecycle!Relocate
<1>4. CASE /\ place' = place /\ files.prd.status \in {"draft", "active"}
           /\ files'.prd.status = files.prd.status
           /\ files'.prd.hash = files.prd.hash
           /\ files'.prd.banner = files.prd.banner
           /\ files.prd.status = "active" => files'.prd = files.prd
  <2>1. [requirements |-> files.requirements, test_spec |-> files.test_spec,
         tasks |-> files.tasks, architecture |-> files.architecture]' \in Artifacts
    BY <1>1 DEF Package, Artifacts
  <2>2. files'.prd.ident \in Ident /\ files'.prd.intent \in Intent \cup {Nil}
    BY <1>1 DEF Prd
  <2>3. CASE files.prd.status = "draft"
    BY <1>4, <2>1, <2>2, <2>3 DEF Lifecycle!EditDraft, Lifecycle!Next
  <2>4. CASE files.prd.status = "active"
    BY <1>4, <2>1, <2>4 DEF Lifecycle!EditActive, Lifecycle!Next
  <2>5. QED
    BY <1>4, <2>3, <2>4
<1>5. CASE /\ place' = place /\ PrdStep(files.prd, files'.prd)
           /\ files' = [files EXCEPT !["prd"] = files'.prd]
  <2>1. [requirements |-> files.requirements, test_spec |-> files.test_spec,
         tasks |-> files.tasks, architecture |-> files.architecture]'
        = [requirements |-> files.requirements, test_spec |-> files.test_spec,
           tasks |-> files.tasks, architecture |-> files.architecture]
    BY <1>1, <1>5 DEF Package
  <2>2. CASE /\ files.prd.status = "draft" /\ files.prd.intent # Nil
             /\ files'.prd = [files.prd EXCEPT !.status = "active",
                                !.hash = ComputeIntentHash(files.prd.intent)]
    <3>1. /\ files'.prd.status = "active" /\ files'.prd.ident = files.prd.ident
          /\ files'.prd.intent = files.prd.intent
          /\ files'.prd.banner = files.prd.banner
          /\ files'.prd.hash = ComputeIntentHash(files.prd.intent)
          /\ files.prd.intent \in Intent
      BY <1>1, <2>2 DEF Prd
    <3>2. QED
      BY <1>5, <2>1, <2>2, <3>1
         DEF Lifecycle!Activate, Lifecycle!HashOf, Lifecycle!Next, ComputeIntentHash
  <2>3. CASE /\ files.prd.status = "active"
             /\ files'.prd = [files.prd EXCEPT !.status = "sealed"]
    <3>1. /\ files'.prd.status = "sealed" /\ files'.prd.ident = files.prd.ident
          /\ files'.prd.intent = files.prd.intent
          /\ files'.prd.banner = files.prd.banner
          /\ files'.prd.hash = files.prd.hash
      BY <1>1, <2>3 DEF Prd
    <3>2. QED
      BY <1>5, <2>1, <2>3, <3>1 DEF Lifecycle!Seal, Lifecycle!Next
  <2>4. CASE /\ files.prd.status = "sealed"
             /\ files'.prd = [files.prd EXCEPT !.status = "superseded", !.banner = TRUE]
    <3>1. /\ files'.prd.status = "superseded" /\ files'.prd.ident = files.prd.ident
          /\ files'.prd.intent = files.prd.intent
          /\ files'.prd.banner = TRUE
          /\ files'.prd.hash = files.prd.hash
      BY <1>1, <2>4 DEF Prd
    <3>2. QED
      BY <1>5, <2>1, <2>4, <3>1 DEF Lifecycle!Supersede, Lifecycle!Next
  <2>5. CASE /\ files.prd.status \in {"draft", "sealed", "superseded"}
             /\ files'.prd = [files.prd EXCEPT !.status = "archived"]
    <3>1. /\ files'.prd.status = "archived" /\ files'.prd.ident = files.prd.ident
          /\ files'.prd.intent = files.prd.intent
          /\ files'.prd.banner = files.prd.banner
          /\ files'.prd.hash = files.prd.hash
      BY <1>1, <2>5 DEF Prd
    <3>2. QED
      BY <1>5, <2>1, <2>5, <3>1 DEF Lifecycle!Archive, Lifecycle!Next
  <2>6. QED
    BY <1>5, <2>2, <2>3, <2>4, <2>5 DEF PrdStep
<1>6. ASSUME NEW c \in Client, RenameTemp(c)
      PROVE  [Lifecycle!Next]_(Lifecycle!vars)
  BY <1>2, <1>4, <1>5, <1>6, RenameEffect
<1>7. QED
  BY <1>2, <1>3, <1>6, DiskSteps DEF Lifecycle!Next

\* The files and their place behave as SpecLifecycle: every file system call
\* of every operation, crash and failure is one of its steps or changes
\* nothing it knows.
THEOREM StoreImplementsLifecycle ==
  ASSUME Habits = {} PROVE Spec => ImplementsLifecycle
<1>1. Spec => []StoreInv
  BY StoreInvariant
<1>2. QED
  BY <1>1, LifecycleInit, LifecycleNext, PTL
     DEF Spec, ImplementsLifecycle, Lifecycle!Spec
=============================================================================
