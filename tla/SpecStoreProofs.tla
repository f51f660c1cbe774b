-------------------------- MODULE SpecStoreProofs --------------------------
(***************************************************************************)
(* Theorems about SpecStore for every value of its constants: what its     *)
(* variables hold whatever the callers do, and, for callers without bad    *)
(* habits, the safety properties of the directory.                         *)
(***************************************************************************)
EXTENDS SpecStore, TLAPS

-----------------------------------------------------------------------------
(***************************************************************************)
(* The values the operations write are packages.                           *)
(***************************************************************************)
LEMMA FileCountRange ==
  ASSUME NEW p PROVE FileCount(p) \in 4..5
BY DEF FileCount

LEMMA WithCoverageType ==
  ASSUME NEW p \in Package PROVE WithCoverage(p) \in Package
BY DEF WithCoverage, ComputeCoverageStruct, Package, TestSpec

LEMMA TransitionedType ==
  ASSUME NEW p \in Package, NEW target \in Status, CanTransition(p, target)
  PROVE  Transitioned(p, target) \in Package
<1>1. p.prd \in Prd
  BY DEF Package
<1>2. target = "active" =>
        ComputeIntentHash(p.prd.intent) \in {<<"sha256", t>> : t \in Intent} \cup {Nil}
  BY <1>1 DEF Prd, CanTransition, ComputeIntentHash
<1>3. QED
  BY <1>1, <1>2 DEF Transitioned, Package, Prd

LEMMA SupersededType ==
  ASSUME NEW p \in Package PROVE Superseded(p) \in Package
BY DEF Superseded, Package, Prd, Status

\* Every edit of EditPrd and EditArtifacts keeps a handle a package.
LEMMA EditType ==
  ASSUME NEW p \in Package
  PROVE  /\ \A i \in Ident : [p EXCEPT !.prd.ident = i] \in Package
         /\ \A t \in Intent \cup {Nil} : [p EXCEPT !.prd.intent = t] \in Package
         /\ \A s \in Status : [p EXCEPT !.prd.status = s] \in Package
         /\ \A r \in SUBSET Criterion : [p EXCEPT !.requirements = r] \in Package
         /\ \A t \in SUBSET Criterion : [p EXCEPT !.test_spec.tests = t] \in Package
         /\ \A k \in Content : [p EXCEPT !.tasks = k] \in Package
         /\ \A k \in Content \cup {Nil} : [p EXCEPT !.architecture = k] \in Package
<1>1. p.prd \in Prd /\ p.test_spec \in TestSpec
  BY DEF Package
<1>2. \A i \in Ident : [p EXCEPT !.prd.ident = i] \in Package
  BY <1>1 DEF Package, Prd
<1>3. \A t \in Intent \cup {Nil} : [p EXCEPT !.prd.intent = t] \in Package
  BY <1>1 DEF Package, Prd
<1>4. \A s \in Status : [p EXCEPT !.prd.status = s] \in Package
  BY <1>1 DEF Package, Prd
<1>5. \A t \in SUBSET Criterion : [p EXCEPT !.test_spec.tests = t] \in Package
  BY <1>1 DEF Package, TestSpec
<1>6. \A r \in SUBSET Criterion : [p EXCEPT !.requirements = r] \in Package
  BY DEF Package
<1>7. \A k \in Content : [p EXCEPT !.tasks = k] \in Package
  BY DEF Package
<1>8. \A k \in Content \cup {Nil} : [p EXCEPT !.architecture = k] \in Package
  BY DEF Package
<1>9. QED
  BY <1>2, <1>3, <1>4, <1>5, <1>6, <1>7, <1>8

-----------------------------------------------------------------------------
(***************************************************************************)
(* Type correctness, whatever the callers' habits.  TypeOK alone does not  *)
(* say that a value is complete once it is handed over, so it is joined    *)
(* with what has been read and what is being written.                      *)
(***************************************************************************)
ReadSoFar(c) ==
  pc[c] = "read" =>
    /\ at[c] > 1 => buf[c].prd \in Prd
    /\ at[c] > 2 => buf[c].requirements \in SUBSET Criterion
    /\ at[c] > 3 => buf[c].test_spec \in TestSpec
    /\ at[c] > 4 => buf[c].tasks \in Content

BeingWritten(c) ==
  /\ pc[c] \in {"write", "rename"} =>
       buf[c] \in Package /\ at[c] <= FileCount(buf[c]) + 1
  /\ pc[c] = "write" => at[c] <= FileCount(buf[c])
  /\ pc[c] = "idle" => at[c] = 1

TypeInv == TypeOK /\ \A c \in Client : ReadSoFar(c) /\ BeingWritten(c)

LEMMA DropTypes ==
  ASSUME TypeInv, NEW c \in Client, Drop(c)
  PROVE  /\ pc' \in [Client -> {"idle", "read", "write", "rename", "check", "move"}]
         /\ op' \in [Client -> {"none", "load", "save", "transition", "archive"}]
         /\ at' \in [Client -> 1..6]
         /\ mem' \in [Client -> Package \cup {Nil}]
         /\ loaded' \in [Client -> Ident \cup {Nil}]
         /\ dirty' \in [Client -> BOOLEAN]
         /\ buf' \in [Client -> PartPackage]
         /\ lock' \in Client \cup {Nil}
         /\ \A d \in Client : ReadSoFar(d)' /\ BeingWritten(d)'
<1> USE DEF TypeInv, TypeOK, Drop, Return, Unlock
<1>1. NoBuf \in PartPackage
  BY DEF NoBuf, PartPackage
<1>2. \A d \in Client : ReadSoFar(d)' /\ BeingWritten(d)'
  BY DEF ReadSoFar, BeingWritten
<1>3. QED
  BY <1>1, <1>2

LEMMA ReturnTypes ==
  ASSUME TypeInv, NEW c \in Client, Return(c)
  PROVE  /\ pc' \in [Client -> {"idle", "read", "write", "rename", "check", "move"}]
         /\ op' \in [Client -> {"none", "load", "save", "transition", "archive"}]
         /\ at' \in [Client -> 1..6]
         /\ buf' \in [Client -> PartPackage]
         /\ \A d \in Client : ReadSoFar(d)' /\ BeingWritten(d)'
<1> USE DEF TypeInv, TypeOK, Return
<1>1. NoBuf \in PartPackage
  BY DEF NoBuf, PartPackage
<1>2. \A d \in Client : ReadSoFar(d)' /\ BeingWritten(d)'
  BY DEF ReadSoFar, BeingWritten
<1>3. QED
  BY <1>1, <1>2

LEMMA BeginWriteTypes ==
  ASSUME TypeInv, NEW c \in Client, NEW value \in Package,
         NEW o \in {"save", "transition", "archive"}, BeginWrite(c, o, value)
  PROVE  /\ pc' \in [Client -> {"idle", "read", "write", "rename", "check", "move"}]
         /\ op' \in [Client -> {"none", "load", "save", "transition", "archive"}]
         /\ at' \in [Client -> 1..6]
         /\ buf' \in [Client -> PartPackage]
         /\ \A d \in Client : ReadSoFar(d)' /\ BeingWritten(d)'
<1> USE DEF TypeInv, TypeOK, BeginWrite
<1>1. value \in PartPackage
  BY DEF Package, PartPackage
<1>2. FileCount(value) \in 4..5
  BY FileCountRange
<1>3. \A d \in Client : ReadSoFar(d)' /\ BeingWritten(d)'
  BY <1>2 DEF ReadSoFar, BeingWritten
<1>4. QED
  BY <1>1, <1>3

\* A read that has passed every required file has a package.
LEMMA ReadIsPackage ==
  ASSUME TypeInv, NEW c \in Client, pc[c] = "read", at[c] = 6
  PROVE  buf[c] \in Package
BY DEF TypeInv, TypeOK, ReadSoFar, PartPackage, Package

LEMMA InitTypes == Init => TypeInv
<1> SUFFICES ASSUME Init PROVE TypeInv
  OBVIOUS
<1>1. files \in Package
  <2>1. PICK i \in Ident, t \in Intent \cup {Nil}, k \in Content :
               files = Scaffold(i, t, k)
    BY DEF Init
  <2>2. [status |-> "draft", ident |-> i, intent |-> t, hash |-> Nil,
         banner |-> FALSE] \in Prd
    BY DEF Prd, Status
  <2>3. ComputeCoverageStruct({}, {}) \in TestSpec
    BY DEF ComputeCoverageStruct, TestSpec
  <2>4. QED
    BY <2>1, <2>2, <2>3 DEF Scaffold, Package
<1>2. NoBuf \in PartPackage
  BY DEF NoBuf, PartPackage
<1>3. TypeOK
  <2>1. files \in Package /\ place \in {"specs", "archive"} /\ destTaken \in BOOLEAN
        /\ torn \in BOOLEAN
    BY <1>1 DEF Init
  <2>2. temps \subseteq Client \X File /\ crashed \subseteq Client
    BY DEF Init
  <2>3. /\ pc \in [Client -> {"idle", "read", "write", "rename", "check", "move"}]
        /\ op \in [Client -> {"none", "load", "save", "transition", "archive"}]
        /\ at \in [Client -> 1..6]
        /\ buf \in [Client -> PartPackage]
    BY <1>2 DEF Init
  <2>4. /\ lock \in Client \cup {Nil}
        /\ mem \in [Client -> Package \cup {Nil}]
        /\ loaded \in [Client -> Ident \cup {Nil}]
        /\ dirty \in [Client -> BOOLEAN]
    BY DEF Init
  <2>5. edits \in 0..MaxEdits /\ faults \in 0..MaxFaults
    BY StoreAssumption DEF Init
  <2>6. QED
    BY <2>1, <2>2, <2>3, <2>4, <2>5 DEF TypeOK
<1>4. \A c \in Client : ReadSoFar(c) /\ BeingWritten(c)
  BY DEF Init, ReadSoFar, BeingWritten
<1>5. QED
  BY <1>3, <1>4 DEF TypeInv

LEMMA NextTypes == TypeInv /\ [Next]_vars => TypeInv'
<1> SUFFICES ASSUME TypeInv, [Next]_vars PROVE TypeInv'
  OBVIOUS
<1> USE DEF TypeInv, TypeOK, disk, handle, work
<1>1. ASSUME NEW c \in Client, NEW o \in {"load", "archive"}, BeginRead(c, o)
      PROVE  TypeInv'
  <2>1. lock' \in Client \cup {Nil}
    BY <1>1 DEF BeginRead
  <2>2. \A d \in Client : ReadSoFar(d)' /\ BeingWritten(d)'
    BY <1>1 DEF BeginRead, ReadSoFar, BeingWritten
  <2>3. QED
    BY <1>1, <2>1, <2>2 DEF BeginRead
<1>2. ASSUME NEW c \in Client, ReadFile(c)
      PROVE  TypeInv'
  <2>1. at[c] \in 1..5 /\ at' = [at EXCEPT ![c] = at[c] + 1]
    BY <1>2 DEF ReadFile
  <2>2. PICK content \in {files[FileOrder[at[c]]]} \cup
                         (IF FileOrder[at[c]] = "architecture" THEN {Nil} ELSE {}) :
          buf' = [buf EXCEPT ![c][FileOrder[at[c]]] = content]
    BY <1>2 DEF ReadFile
  <2>3. at[c] # 5 => content = files[FileOrder[at[c]]]
    BY <2>1, <2>2 DEF FileOrder
  <2>4. buf[c] \in PartPackage
    BY DEF TypeOK
  <2>5. buf'[c] \in PartPackage /\ (ReadSoFar(c))'
    <3>1. CASE at[c] = 1
      <4>1. buf'[c] = [buf[c] EXCEPT !["prd"] = files["prd"]]
        <5>1. FileOrder[at[c]] = "prd"
          BY <3>1 DEF FileOrder
        <5>2. content = files["prd"]
          BY <2>3, <3>1, <5>1
        <5>3. buf' = [buf EXCEPT ![c] = [buf[c] EXCEPT !["prd"] = files["prd"]]]
          BY <2>2, <5>1, <5>2, Zenon
        <5>4. QED
          BY <5>3
      <4>2. files["prd"] \in Prd
        BY DEF Package
      <4>3. buf'[c] \in PartPackage
        BY <2>4, <4>1, <4>2 DEF PartPackage
      <4>4. (ReadSoFar(c))'
        BY <1>2, <2>1, <2>4, <3>1, <4>1, <4>2 DEF ReadFile, ReadSoFar, PartPackage
      <4>5. QED
        BY <4>3, <4>4
    <3>2. CASE at[c] = 2
      <4>1. buf'[c] = [buf[c] EXCEPT !["requirements"] = files["requirements"]]
        <5>1. FileOrder[at[c]] = "requirements"
          BY <3>2 DEF FileOrder
        <5>2. content = files["requirements"]
          BY <2>3, <3>2, <5>1
        <5>3. buf' = [buf EXCEPT ![c] = [buf[c] EXCEPT !["requirements"] = files["requirements"]]]
          BY <2>2, <5>1, <5>2, Zenon
        <5>4. QED
          BY <5>3
      <4>2. files["requirements"] \in SUBSET Criterion
        BY DEF Package
      <4>3. buf'[c] \in PartPackage
        BY <2>4, <4>1, <4>2 DEF PartPackage
      <4>4. (ReadSoFar(c))'
        BY <1>2, <2>1, <2>4, <3>2, <4>1, <4>2 DEF ReadFile, ReadSoFar, PartPackage
      <4>5. QED
        BY <4>3, <4>4
    <3>3. CASE at[c] = 3
      <4>1. buf'[c] = [buf[c] EXCEPT !["test_spec"] = files["test_spec"]]
        <5>1. FileOrder[at[c]] = "test_spec"
          BY <3>3 DEF FileOrder
        <5>2. content = files["test_spec"]
          BY <2>3, <3>3, <5>1
        <5>3. buf' = [buf EXCEPT ![c] = [buf[c] EXCEPT !["test_spec"] = files["test_spec"]]]
          BY <2>2, <5>1, <5>2, Zenon
        <5>4. QED
          BY <5>3
      <4>2. files["test_spec"] \in TestSpec
        BY DEF Package
      <4>3. buf'[c] \in PartPackage
        BY <2>4, <4>1, <4>2 DEF PartPackage
      <4>4. (ReadSoFar(c))'
        BY <1>2, <2>1, <2>4, <3>3, <4>1, <4>2 DEF ReadFile, ReadSoFar, PartPackage
      <4>5. QED
        BY <4>3, <4>4
    <3>4. CASE at[c] = 4
      <4>1. buf'[c] = [buf[c] EXCEPT !["tasks"] = files["tasks"]]
        <5>1. FileOrder[at[c]] = "tasks"
          BY <3>4 DEF FileOrder
        <5>2. content = files["tasks"]
          BY <2>3, <3>4, <5>1
        <5>3. buf' = [buf EXCEPT ![c] = [buf[c] EXCEPT !["tasks"] = files["tasks"]]]
          BY <2>2, <5>1, <5>2, Zenon
        <5>4. QED
          BY <5>3
      <4>2. files["tasks"] \in Content
        BY DEF Package
      <4>3. buf'[c] \in PartPackage
        BY <2>4, <4>1, <4>2 DEF PartPackage
      <4>4. (ReadSoFar(c))'
        BY <1>2, <2>1, <2>4, <3>4, <4>1, <4>2 DEF ReadFile, ReadSoFar, PartPackage
      <4>5. QED
        BY <4>3, <4>4
    <3>5. CASE at[c] = 5
      <4>1. buf'[c] = [buf[c] EXCEPT !["architecture"] = content]
        <5>1. FileOrder[at[c]] = "architecture"
          BY <3>5 DEF FileOrder
        <5>2. buf' = [buf EXCEPT ![c] = [buf[c] EXCEPT !["architecture"] = content]]
          BY <2>2, <5>1, Zenon
        <5>3. QED
          BY <5>2
      <4>2. content \in Content \cup {Nil}
        BY <2>2, <3>5 DEF Package, FileOrder
      <4>3. buf'[c] \in PartPackage
        BY <2>4, <4>1, <4>2 DEF PartPackage
      <4>4. (ReadSoFar(c))'
        BY <1>2, <2>1, <2>4, <3>5, <4>1 DEF ReadFile, ReadSoFar, PartPackage
      <4>5. QED
        BY <4>3, <4>4
    <3>6. QED
      BY <2>1, <3>1, <3>2, <3>3, <3>4, <3>5
  <2>6. buf' \in [Client -> PartPackage] /\ \A d \in Client \ {c} : buf'[d] = buf[d]
    BY <2>2, <2>5
  <2>7. \A d \in Client : (ReadSoFar(d))' /\ (BeingWritten(d))'
    BY <1>2, <2>1, <2>5, <2>6 DEF ReadFile, ReadSoFar, BeingWritten
  <2>8. QED
    BY <1>2, <2>1, <2>6, <2>7 DEF ReadFile
<1>3. ASSUME NEW c \in Client, LoadReturn(c)
      PROVE  TypeInv'
  <2>1. buf[c] \in Package
    BY <1>3, ReadIsPackage DEF LoadReturn
  <2>2. mem' \in [Client -> Package \cup {Nil}] /\ dirty' \in [Client -> BOOLEAN]
    BY <1>3, <2>1 DEF LoadReturn
  <2>3. loaded' \in [Client -> Ident \cup {Nil}]
    BY <1>3, <2>1 DEF LoadReturn, Package, Prd
  <2>4. QED
    BY <1>3, <2>2, <2>3, ReturnTypes DEF LoadReturn
<1>4. ASSUME NEW c \in Client, LoadFails(c)
      PROVE  TypeInv'
  <2>1. faults' \in 0..MaxFaults
    BY <1>4, StoreAssumption DEF LoadFails
  <2>2. QED
    BY <1>4, <2>1, DropTypes DEF LoadFails
<1>5. ASSUME NEW c \in Client, NEW value \in Package, EditWith(c, value)
      PROVE  TypeInv'
  <2>1. edits' \in 0..MaxEdits
    BY <1>5, StoreAssumption DEF EditWith
  <2>2. \A d \in Client : ReadSoFar(d)' /\ BeingWritten(d)'
    BY <1>5 DEF EditWith, ReadSoFar, BeingWritten
  <2>3. QED
    BY <1>5, <2>1, <2>2 DEF EditWith
<1>6. ASSUME NEW c \in Client, EditPrd(c) \/ EditArtifacts(c)
      PROVE  TypeInv'
  <2>1. mem[c] \in Package
    BY <1>6 DEF EditPrd, EditArtifacts, Holds
  <2>2. \E value \in Package : EditWith(c, value)
    BY <1>6, <2>1, EditType DEF EditPrd, EditArtifacts
  <2>3. QED
    BY <2>2, <1>5
<1>7. ASSUME NEW c \in Client, Release(c)
      PROVE  TypeInv'
  BY <1>7, DropTypes DEF Release
<1>8. ASSUME NEW c \in Client, BeginSave(c)
      PROVE  TypeInv'
  <2>1. mem[c] \in Package /\ WithCoverage(mem[c]) \in Package
    BY <1>8, WithCoverageType DEF BeginSave, Holds
  <2>2. mem' \in [Client -> Package \cup {Nil}]
    BY <1>8, <2>1 DEF BeginSave
  <2>3. BeginWrite(c, "save", WithCoverage(mem[c]))
    BY <1>8 DEF BeginSave
  <2>4. QED
    BY <1>8, <2>1, <2>2, <2>3, BeginWriteTypes DEF BeginSave
<1>9. ASSUME NEW c \in Client, BeginTransition(c)
      PROVE  TypeInv'
  <2>1. mem[c] \in Package
    BY <1>9 DEF BeginTransition, MayTransition, Holds
  <2>2. PICK target \in Status :
          /\ CanTransition(mem[c], target)
          /\ BeginWrite(c, "transition", Transitioned(mem[c], target))
    BY <1>9 DEF BeginTransition
  <2>3. Transitioned(mem[c], target) \in Package
    BY <2>1, <2>2, TransitionedType
  <2>4. QED
    BY <1>9, <2>2, <2>3, BeginWriteTypes DEF BeginTransition
<1>10. ASSUME NEW c \in Client, BeginSupersede(c)
       PROVE  TypeInv'
  <2>1. Superseded(mem[c]) \in Package
    BY <1>10, SupersededType DEF BeginSupersede, MayTransition, Holds
  <2>2. QED
    BY <1>10, <2>1, BeginWriteTypes DEF BeginSupersede
<1>11. ASSUME NEW c \in Client, WriteTemp(c)
       PROVE  TypeInv'
  <2>1. buf[c] \in Package /\ FileCount(buf[c]) \in 4..5
        /\ at[c] \in 1..FileCount(buf[c])
    BY <1>11, FileCountRange DEF WriteTemp, BeingWritten
  <2>2. temps' \subseteq Client \X File
    BY <1>11, <2>1 DEF WriteTemp, FileOrder, File
  <2>3. pc' \in [Client -> {"idle", "read", "write", "rename", "check", "move"}]
        /\ at' \in [Client -> 1..6]
    BY <1>11, <2>1 DEF WriteTemp
  <2>4. \A d \in Client : ReadSoFar(d)' /\ BeingWritten(d)'
    BY <1>11, <2>1 DEF WriteTemp, ReadSoFar, BeingWritten
  <2>5. QED
    BY <1>11, <2>2, <2>3, <2>4 DEF WriteTemp
<1>12. ASSUME NEW c \in Client, RenameTemp(c)
       PROVE  TypeInv'
  <2>1. buf[c] \in Package /\ FileCount(buf[c]) \in 4..5
        /\ at[c] \in 1..FileCount(buf[c])
    BY <1>12, FileCountRange DEF RenameTemp, BeingWritten
  <2>2. files' \in Package
    BY <1>12, <2>1 DEF RenameTemp, FileOrder, Package
  <2>3. temps' \subseteq Client \X File
    BY <1>12 DEF RenameTemp
  <2>4. at' \in [Client -> 1..6] /\ \A d \in Client : ReadSoFar(d)' /\ BeingWritten(d)'
    BY <1>12, <2>1 DEF RenameTemp, ReadSoFar, BeingWritten
  <2>5. QED
    BY <1>12, <2>2, <2>3, <2>4 DEF RenameTemp
<1>13. ASSUME NEW c \in Client, SaveReturn(c)
       PROVE  TypeInv'
  BY <1>13, ReturnTypes DEF SaveReturn
<1>14. ASSUME NEW c \in Client, TransitionReturn(c)
       PROVE  TypeInv'
  <2>1. buf[c] \in Package /\ buf[c].prd.ident \in Ident
    BY <1>14 DEF TransitionReturn, Written, BeingWritten, Package, Prd
  <2>2. mem' \in [Client -> Package \cup {Nil}] /\ dirty' \in [Client -> BOOLEAN]
        /\ loaded' \in [Client -> Ident \cup {Nil}]
    BY <1>14, <2>1 DEF TransitionReturn
  <2>3. QED
    BY <1>14, <2>2, ReturnTypes DEF TransitionReturn
<1>15. ASSUME NEW c \in Client, SaveFails(c)
       PROVE  TypeInv'
  <2>1. faults' \in 0..MaxFaults /\ temps' \subseteq Client \X File /\ torn' \in BOOLEAN
    BY <1>15, StoreAssumption DEF SaveFails, TearsAt
  <2>2. CASE Drop(c)
    BY <1>15, <2>1, <2>2, DropTypes DEF SaveFails
  <2>3. CASE Return(c) /\ UNCHANGED <<handle, lock>>
    BY <1>15, <2>1, <2>3, ReturnTypes DEF SaveFails
  <2>4. QED
    BY <1>15, <2>2, <2>3 DEF SaveFails
<1>16. ASSUME NEW c \in Client, ArchiveLoaded(c)
       PROVE  TypeInv'
  <2>1. buf[c] \in Package
    BY <1>16, ReadIsPackage DEF ArchiveLoaded
  <2>2. CASE pc' = [pc EXCEPT ![c] = "check"] /\ UNCHANGED <<lock, handle, op, at, buf>>
    BY <1>16, <2>2 DEF ArchiveLoaded, ReadSoFar, BeingWritten
  <2>3. CASE /\ CanTransition(buf[c], "archived")
             /\ BeginWrite(c, "archive", Transitioned(buf[c], "archived"))
             /\ UNCHANGED <<lock, handle>>
    <3>1. Transitioned(buf[c], "archived") \in Package
      BY <2>1, <2>3, TransitionedType DEF Status
    <3>2. QED
      BY <1>16, <2>3, <3>1, BeginWriteTypes DEF ArchiveLoaded
  <2>4. CASE Drop(c)
    BY <1>16, <2>4, DropTypes DEF ArchiveLoaded
  <2>5. QED
    BY <1>16, <2>2, <2>3, <2>4 DEF ArchiveLoaded
<1>17. ASSUME NEW c \in Client, ArchiveRecorded(c)
       PROVE  TypeInv'
  BY <1>17 DEF ArchiveRecorded, ReadSoFar, BeingWritten
<1>18. ASSUME NEW c \in Client, CheckDest(c)
       PROVE  TypeInv'
  <2>1. CASE Drop(c)
    BY <1>18, <2>1, DropTypes DEF CheckDest
  <2>2. CASE pc' = [pc EXCEPT ![c] = "move"] /\ UNCHANGED <<lock, handle, op, at, buf>>
    BY <1>18, <2>2 DEF CheckDest, ReadSoFar, BeingWritten
  <2>3. QED
    BY <1>18, <2>1, <2>2 DEF CheckDest
<1>19. ASSUME NEW c \in Client, MoveDir(c)
       PROVE  TypeInv'
  BY <1>19, DropTypes DEF MoveDir
<1>20. ASSUME NEW c \in Client, MoveFails(c)
       PROVE  TypeInv'
  <2>1. faults' \in 0..MaxFaults
    BY <1>20, StoreAssumption DEF MoveFails
  <2>2. QED
    BY <1>20, <2>1, DropTypes DEF MoveFails
<1>21. ASSUME NEW c \in Client, Crash(c)
       PROVE  TypeInv'
  <2>1. faults' \in 0..MaxFaults /\ torn' \in BOOLEAN
    BY <1>21, StoreAssumption DEF Crash, TearsAt
  <2>2. QED
    BY <1>21, <2>1, DropTypes DEF Crash
<1>22. ASSUME ResolveConflict
       PROVE  TypeInv'
  BY <1>22 DEF ResolveConflict, ReadSoFar, BeingWritten
<1>23. ASSUME UNCHANGED vars
       PROVE  TypeInv'
  BY <1>23 DEF vars, ReadSoFar, BeingWritten
<1>24. QED
  BY <1>1, <1>2, <1>3, <1>4, <1>6, <1>7, <1>8, <1>9, <1>10, <1>11, <1>12, <1>13,
     <1>14, <1>15, <1>16, <1>17, <1>18, <1>19, <1>20, <1>21, <1>22, <1>23
     DEF Next, Progress, Call, Fault, BeginLoad, BeginArchive

\* Every variable of every reachable state holds a value of its kind, for any
\* number of clients with any habits: in particular a handle is always a
\* complete package, never one of which LoadSpec has read a part.
THEOREM TypeCorrectness == Spec => []TypeOK
<1>1. Spec => []TypeInv
  BY InitTypes, NextTypes, PTL DEF Spec
<1>2. TypeInv => TypeOK
  BY DEF TypeInv
<1>3. QED
  BY <1>1, <1>2, PTL

-----------------------------------------------------------------------------
(***************************************************************************)
(* What prd.md keeps without any lock.  It is replaced by one rename, so   *)
(* every prd.md anybody reads or writes is one that some process put       *)
(* together; all of them agreeing with themselves is inductive however the *)
(* operations interleave, fail or are repeated.  It needs callers that     *)
(* save their edits before a transition, leave Status alone and supersede  *)
(* with Supersede.                                                         *)
(***************************************************************************)
PrdDiscipline == Habits \cap {"transition_dirty", "edit_status", "raw_transition"} = {}

\* The status, the presence of a hash and the banner fit each other.
Marked(prd) ==
  /\ prd.status = "draft" => prd.hash = Nil
  /\ prd.status \in {"active", "sealed", "superseded"} => prd.hash # Nil
  /\ prd.status = "superseded" => prd.banner
  /\ prd.banner => prd.status \in {"superseded", "archived"}

Protected(prd) ==
  Marked(prd) /\ (prd.hash # Nil => prd.hash = ComputeIntentHash(prd.intent))

HandlePrd(c) ==
  /\ mem[c] # Nil => Marked(mem[c].prd) /\ (~dirty[c] => Protected(mem[c].prd))
  /\ pc[c] = "read" /\ at[c] > 1 => Protected(buf[c].prd)
  /\ pc[c] \in {"write", "rename"} =>
       Protected(buf[c].prd) /\ (op[c] = "save" => mem[c] = buf[c])

PrdInv == TypeInv /\ Protected(files.prd) /\ \A c \in Client : HandlePrd(c)

LEMMA TransitionProtects ==
  ASSUME NEW p \in Package, NEW target \in {"active", "sealed", "archived"},
         CanTransition(p, target), Protected(p.prd)
  PROVE  Protected(Transitioned(p, target).prd)
<1>1. p.prd \in Prd /\ target \in Transitions[p.prd.status]
  BY DEF Package, CanTransition, ValidTransition
<1>2. Transitioned(p, target).prd =
        [p.prd EXCEPT !.status = target,
                      !.hash = IF target = "active"
                               THEN ComputeIntentHash(p.prd.intent) ELSE @]
  BY DEF Transitioned, Package
<1>3. CASE target = "active"
  <2>1. p.prd.status = "draft" /\ p.prd.intent # Nil
    BY <1>1, <1>3 DEF Transitions, Prd, Status, CanTransition
  <2>2. ComputeIntentHash(p.prd.intent) # Nil
    BY <1>1, <2>1, NilAssumption DEF Prd, ComputeIntentHash
  <2>3. QED
    BY <1>1, <1>2, <1>3, <2>1, <2>2 DEF Protected, Marked, Prd
<1>4. CASE target = "sealed"
  <2>1. p.prd.status = "active"
    BY <1>1, <1>4 DEF Transitions, Prd, Status
  <2>2. QED
    BY <1>1, <1>2, <1>4, <2>1 DEF Protected, Marked, Prd
<1>5. CASE target = "archived"
  BY <1>1, <1>2, <1>5 DEF Protected, Marked, Prd
<1>6. QED
  BY <1>3, <1>4, <1>5

LEMMA SupersedeProtects ==
  ASSUME NEW p \in Package, p.prd.status = "sealed", Protected(p.prd)
  PROVE  Protected(Superseded(p).prd)
<1>1. p.prd \in Prd
  BY DEF Package
<1>2. Superseded(p).prd = [p.prd EXCEPT !.status = "superseded", !.banner = TRUE]
  BY DEF Superseded, Package
<1>3. QED
  BY <1>1, <1>2 DEF Protected, Marked, Prd

\* The drift check makes up for what an edit of the Intent section broke.
LEMMA SaveProtects ==
  ASSUME NEW p \in Package, NEW snapshot, CanSave(p, snapshot), Marked(p.prd)
  PROVE  Protected(p.prd) /\ WithCoverage(p).prd = p.prd
<1>1. p.prd \in Prd /\ p.prd.status \in {"draft", "active"}
  BY DEF Package, Prd, Status, CanSave, Frozen
<1>2. WithCoverage(p).prd = p.prd
  BY DEF WithCoverage, Package
<1>3. QED
  BY <1>1, <1>2 DEF Protected, Marked, CanSave

\* A caller that leaves Status alone changes nothing of prd.md that the
\* transitions write.
LEMMA EditValue ==
  ASSUME NEW c \in Client, EditPrd(c) \/ EditArtifacts(c), mem[c] \in Package,
         "edit_status" \notin Habits
  PROVE  \E value \in Package :
           /\ EditWith(c, value)
           /\ value.prd.status = mem[c].prd.status
           /\ value.prd.hash = mem[c].prd.hash
           /\ value.prd.banner = mem[c].prd.banner
<1>1. mem[c].prd \in Prd /\ mem[c].test_spec \in TestSpec
  BY DEF Package
<1>2. CASE \E i \in Ident : EditWith(c, [mem[c] EXCEPT !.prd.ident = i])
  BY <1>1, <1>2, EditType DEF Package, Prd
<1>3. CASE \E t \in Intent \cup {Nil} : EditWith(c, [mem[c] EXCEPT !.prd.intent = t])
  BY <1>1, <1>3, EditType DEF Package, Prd
<1>4. CASE EditArtifacts(c)
  <2>1. CASE \E r \in SUBSET Criterion :
               EditWith(c, [mem[c] EXCEPT !.requirements = r])
    BY <2>1, EditType DEF Package
  <2>2. CASE \E t \in SUBSET Criterion :
               EditWith(c, [mem[c] EXCEPT !.test_spec.tests = t])
    <3>1. PICK t \in SUBSET Criterion :
                 EditWith(c, [mem[c] EXCEPT !.test_spec.tests = t])
      BY <2>2
    <3>2. /\ [mem[c] EXCEPT !.test_spec.tests = t] \in Package
          /\ [mem[c] EXCEPT !.test_spec.tests = t].prd = mem[c].prd
      BY <1>1, EditType DEF Package
    <3>3. QED
      BY <3>1, <3>2, Zenon
  <2>3. CASE \E k \in Content : EditWith(c, [mem[c] EXCEPT !.tasks = k])
    BY <2>3, EditType DEF Package
  <2>4. CASE \E k \in Content \cup {Nil} :
               EditWith(c, [mem[c] EXCEPT !.architecture = k])
    BY <2>4, EditType DEF Package
  <2>5. QED
    BY <1>4, <2>1, <2>2, <2>3, <2>4 DEF EditArtifacts
<1>5. QED
  BY <1>2, <1>3, <1>4 DEF EditPrd

\* A step of c leaves the handles of the others alone.
LEMMA PrdFrame ==
  ASSUME \A d \in Client : HandlePrd(d), NEW c \in Client, HandlePrd(c)',
         \A d \in Client \ {c} :
           /\ pc'[d] = pc[d] /\ op'[d] = op[d] /\ at'[d] = at[d]
           /\ mem'[d] = mem[d] /\ dirty'[d] = dirty[d] /\ buf'[d] = buf[d]
  PROVE  \A d \in Client : HandlePrd(d)'
BY DEF HandlePrd

LEMMA PrdNext ==
  PrdDiscipline /\ PrdInv /\ [Next]_vars => PrdInv'
<1> SUFFICES ASSUME PrdDiscipline, PrdInv, [Next]_vars PROVE PrdInv'
  OBVIOUS
<1> DEFINE Kept == Protected(files.prd)' /\ \A d \in Client : HandlePrd(d)'
<1> USE DEF disk, handle, work
<1>1. TypeInv' /\ TypeOK /\ TypeInv
  BY NextTypes DEF PrdInv, TypeInv
<1>2. Protected(files.prd) /\ \A c \in Client : HandlePrd(c)
  BY DEF PrdInv
<1>3. \A c \in Client : mem[c] # Nil => mem[c] \in Package
  BY <1>1 DEF TypeOK
<1>4. ASSUME NEW c \in Client, Drop(c), UNCHANGED files PROVE Kept
  <2>1. pc'[c] = "idle" /\ mem'[c] = Nil
    BY <1>1, <1>4 DEF Drop, Return, TypeOK
  <2>2. HandlePrd(c)'
    BY <2>1 DEF HandlePrd
  <2>3. QED
    BY <1>1, <1>2, <1>4, <2>2, PrdFrame DEF Drop, Return, TypeOK
<1>5. ASSUME NEW c \in Client, Return(c), UNCHANGED <<files, handle>> PROVE Kept
  <2>1. HandlePrd(c)'
    BY <1>1, <1>2, <1>5 DEF Return, TypeOK, HandlePrd
  <2>2. QED
    BY <1>1, <1>2, <1>5, <2>1, PrdFrame DEF Return, TypeOK
<1>6. ASSUME NEW c \in Client, NEW o, NEW value, BeginWrite(c, o, value),
             Protected(value.prd), UNCHANGED <<files, dirty>>,
             \/ o # "save" /\ UNCHANGED mem
             \/ Marked(value.prd) /\ mem' = [mem EXCEPT ![c] = value]
      PROVE  Kept
  <2>1. pc'[c] = "write" /\ op'[c] = o /\ buf'[c] = value
    BY <1>1, <1>6 DEF BeginWrite, TypeOK
  <2>2. HandlePrd(c)'
    BY <1>1, <1>2, <1>6, <2>1 DEF HandlePrd, TypeOK
  <2>3. QED
    BY <1>1, <1>2, <1>6, <2>2, PrdFrame DEF BeginWrite, TypeOK
<1>7. ASSUME NEW c \in Client, NEW o, BeginRead(c, o) PROVE Kept
  <2>1. pc'[c] = "read" /\ at'[c] = 1 /\ mem'[c] = Nil
    BY <1>1, <1>7 DEF BeginRead, TypeOK, TypeInv, BeingWritten
  <2>2. HandlePrd(c)'
    BY <2>1 DEF HandlePrd
  <2>3. QED
    BY <1>1, <1>2, <1>7, <2>2, PrdFrame DEF BeginRead, TypeOK
<1>8. ASSUME NEW c \in Client, ReadFile(c) PROVE Kept
  <2>1. at[c] \in 1..5 /\ at'[c] = at[c] + 1 /\ pc[c] = "read" /\ buf[c] \in PartPackage
    BY <1>1, <1>8 DEF ReadFile, TypeOK
  <2>2. PICK content :
          /\ buf' = [buf EXCEPT ![c][FileOrder[at[c]]] = content]
          /\ FileOrder[at[c]] # "architecture" => content = files[FileOrder[at[c]]]
    BY <1>8 DEF ReadFile
  <2>3. CASE at[c] = 1
    <3>1. FileOrder[at[c]] = "prd"
      BY <2>3 DEF FileOrder
    <3>2. buf' = [buf EXCEPT ![c] = [buf[c] EXCEPT !["prd"] = files["prd"]]]
      BY <2>2, <3>1, Zenon
    <3>3. buf'[c].prd = files.prd
      BY <1>1, <2>1, <3>2 DEF PartPackage, TypeOK
    <3>4. HandlePrd(c)'
      BY <1>2, <1>8, <2>1, <3>3 DEF ReadFile, HandlePrd
    <3>5. QED
      BY <1>1, <1>2, <1>8, <2>2, <3>4, PrdFrame DEF ReadFile, TypeOK
  <2>4. CASE at[c] # 1
    <3>1. FileOrder[at[c]] # "prd"
      BY <2>1, <2>4 DEF FileOrder
    <3>2. buf'[c].prd = buf[c].prd
      BY <1>1, <2>1, <2>2, <3>1 DEF PartPackage, TypeOK
    <3>3. HandlePrd(c)'
      BY <1>2, <1>8, <2>1, <2>4, <3>2 DEF ReadFile, HandlePrd
    <3>4. QED
      BY <1>1, <1>2, <1>8, <2>2, <3>3, PrdFrame DEF ReadFile, TypeOK
  <2>5. QED
    BY <2>3, <2>4
<1>9. ASSUME NEW c \in Client, LoadReturn(c) PROVE Kept
  <2>1. pc'[c] = "idle" /\ mem'[c] = buf[c] /\ Protected(buf[c].prd)
    BY <1>1, <1>2, <1>9 DEF LoadReturn, Return, TypeOK, HandlePrd
  <2>2. HandlePrd(c)'
    BY <2>1 DEF HandlePrd, Protected
  <2>3. QED
    BY <1>1, <1>2, <1>9, <2>2, PrdFrame DEF LoadReturn, Return, TypeOK
<1>10. ASSUME NEW c \in Client, NEW value \in Package, EditWith(c, value),
              value.prd.status = mem[c].prd.status,
              value.prd.hash = mem[c].prd.hash,
              value.prd.banner = mem[c].prd.banner
       PROVE  Kept
  <2>1. /\ pc[c] = "idle" /\ mem[c] # Nil /\ pc' = pc /\ mem'[c] = value
        /\ dirty'[c] = TRUE
    BY <1>1, <1>10 DEF EditWith, Holds, TypeOK
  <2>2. Marked(mem[c].prd)
    BY <1>2, <2>1 DEF HandlePrd
  <2>3. Marked(value.prd)
    BY <1>10, <2>2 DEF Marked
  <2>4. HandlePrd(c)'
    BY <2>1, <2>3 DEF HandlePrd
  <2>5. QED
    BY <1>1, <1>2, <1>10, <2>4, PrdFrame DEF EditWith, TypeOK
<1>11. ASSUME NEW c \in Client, EditPrd(c) \/ EditArtifacts(c) PROVE Kept
  <2>1. mem[c] \in Package
    BY <1>3, <1>11 DEF EditPrd, EditArtifacts, Holds
  <2>2. QED
    BY <1>10, <1>11, <2>1, EditValue DEF PrdDiscipline
<1>12. ASSUME NEW c \in Client, BeginSave(c) PROVE Kept
  <2>1. mem[c] \in Package /\ CanSave(mem[c], loaded[c]) /\ Marked(mem[c].prd)
    BY <1>2, <1>3, <1>12 DEF BeginSave, Holds, HandlePrd
  <2>2. WithCoverage(mem[c]).prd = mem[c].prd /\ Protected(mem[c].prd)
    BY <2>1, SaveProtects
  <2>3. QED
    BY <1>6, <1>12, <2>1, <2>2 DEF BeginSave
<1>13. ASSUME NEW c \in Client, MayTransition(c)
       PROVE  mem[c] \in Package /\ Protected(mem[c].prd)
  BY <1>2, <1>3, <1>13 DEF MayTransition, Holds, HandlePrd, PrdDiscipline
<1>14. ASSUME NEW c \in Client, BeginTransition(c) PROVE Kept
  <2>1. PICK target \in {"active", "sealed"} :
          /\ CanTransition(mem[c], target)
          /\ BeginWrite(c, "transition", Transitioned(mem[c], target))
    BY <1>14 DEF BeginTransition, PrdDiscipline
  <2>2. Protected(Transitioned(mem[c], target).prd)
    BY <1>13, <1>14, <2>1, TransitionProtects DEF BeginTransition
  <2>3. QED
    BY <1>6, <1>14, <2>1, <2>2 DEF BeginTransition
<1>15. ASSUME NEW c \in Client, BeginSupersede(c) PROVE Kept
  <2>1. Protected(Superseded(mem[c]).prd)
    BY <1>13, <1>15, SupersedeProtects DEF BeginSupersede
  <2>2. QED
    BY <1>6, <1>15, <2>1 DEF BeginSupersede
<1>16. ASSUME NEW c \in Client, WriteTemp(c) PROVE Kept
  <2>1. HandlePrd(c)'
    BY <1>1, <1>2, <1>16 DEF WriteTemp, HandlePrd, TypeOK
  <2>2. QED
    BY <1>1, <1>2, <1>16, <2>1, PrdFrame DEF WriteTemp, TypeOK
<1>17. ASSUME NEW c \in Client, RenameTemp(c) PROVE Kept
  <2>1. HandlePrd(c)' /\ Protected(buf[c].prd) /\ buf[c] \in Package
    BY <1>1, <1>2, <1>17 DEF RenameTemp, HandlePrd, TypeInv, BeingWritten
  <2>2. at[c] \in 1..5
    BY <1>1, <1>17, FileCountRange DEF RenameTemp, TypeOK
  <2>3. files' = [files EXCEPT ![FileOrder[at[c]]] = buf[c][FileOrder[at[c]]]]
    BY <1>17 DEF RenameTemp
  <2>4. files'.prd = files.prd \/ files'.prd = buf[c].prd
    BY <1>1, <2>2, <2>3 DEF FileOrder, Package, TypeOK
  <2>5. Protected(files.prd)'
    BY <1>2, <2>1, <2>4
  <2>6. QED
    BY <1>1, <1>2, <1>17, <2>1, <2>5, PrdFrame DEF RenameTemp, TypeOK
<1>18. ASSUME NEW c \in Client, SaveReturn(c) PROVE Kept
  <2>1. mem[c] = buf[c] /\ Protected(buf[c].prd)
    BY <1>2, <1>18 DEF SaveReturn, Written, HandlePrd
  <2>2. pc'[c] = "idle" /\ mem' = mem
    BY <1>1, <1>18 DEF SaveReturn, Return, TypeOK
  <2>3. HandlePrd(c)'
    BY <2>1, <2>2 DEF HandlePrd, Protected
  <2>4. QED
    BY <1>1, <1>2, <1>18, <2>3, PrdFrame DEF SaveReturn, Return, TypeOK
<1>19. ASSUME NEW c \in Client, TransitionReturn(c) PROVE Kept
  <2>1. CASE mem' = [mem EXCEPT ![c] = buf[c]] /\ dirty' = [dirty EXCEPT ![c] = FALSE]
    <3>1. pc'[c] = "idle" /\ mem'[c] = buf[c] /\ Protected(buf[c].prd)
      BY <1>1, <1>2, <1>19, <2>1
         DEF TransitionReturn, Written, Return, TypeOK, HandlePrd
    <3>2. HandlePrd(c)'
      BY <3>1 DEF HandlePrd, Protected
    <3>3. QED
      BY <1>1, <1>2, <1>19, <2>1, <3>2, PrdFrame DEF TransitionReturn, Return, TypeOK
  <2>2. CASE UNCHANGED handle
    BY <1>5, <1>19, <2>2 DEF TransitionReturn
  <2>3. QED
    BY <1>19, <2>1, <2>2 DEF TransitionReturn
<1>20. ASSUME NEW c \in Client, SaveFails(c) PROVE Kept
  BY <1>4, <1>5, <1>20 DEF SaveFails
<1>21. ASSUME NEW c \in Client, ArchiveLoaded(c) PROVE Kept
  <2>1. buf[c] \in Package /\ Protected(buf[c].prd)
    BY <1>1, <1>2, <1>21, ReadIsPackage DEF ArchiveLoaded, HandlePrd
  <2>2. CASE BeginWrite(c, "archive", Transitioned(buf[c], "archived"))
             /\ CanTransition(buf[c], "archived") /\ UNCHANGED handle
    <3>1. Protected(Transitioned(buf[c], "archived").prd)
      BY <2>1, <2>2, TransitionProtects
    <3>2. QED
      BY <1>6, <1>21, <2>2, <3>1 DEF ArchiveLoaded
  <2>3. CASE pc' = [pc EXCEPT ![c] = "check"] /\ UNCHANGED <<handle, op, at, buf>>
    <3>1. HandlePrd(c)'
      BY <1>1, <1>2, <2>3 DEF HandlePrd, TypeOK
    <3>2. QED
      BY <1>1, <1>2, <1>21, <2>3, <3>1, PrdFrame DEF ArchiveLoaded, TypeOK
  <2>4. CASE Drop(c)
    BY <1>4, <1>21, <2>4 DEF ArchiveLoaded
  <2>5. QED
    BY <1>21, <2>2, <2>3, <2>4 DEF ArchiveLoaded
<1>22. ASSUME NEW c \in Client,
              pc'[c] \in {"check", "move"}, \A d \in Client \ {c} : pc'[d] = pc[d],
              UNCHANGED <<files, handle, op, at, buf>>
       PROVE  Kept
  <2>1. HandlePrd(c)'
    BY <1>2, <1>22 DEF HandlePrd
  <2>2. QED
    BY <1>2, <1>22, <2>1, PrdFrame
<1>23. ASSUME NEW c \in Client, ArchiveRecorded(c) \/ CheckDest(c) PROVE Kept
  <2>1. CASE Drop(c)
    BY <1>4, <1>23, <2>1 DEF ArchiveRecorded, CheckDest
  <2>2. CASE ~Drop(c)
    BY <1>1, <1>22, <1>23, <2>2 DEF ArchiveRecorded, CheckDest, TypeOK
  <2>3. QED
    BY <2>1, <2>2
<1>24. ASSUME NEW c \in Client, LoadFails(c) \/ MoveDir(c) \/ MoveFails(c)
                                \/ Crash(c) \/ Release(c)
       PROVE  Kept
  BY <1>4, <1>24 DEF LoadFails, MoveDir, MoveFails, Crash, Release
<1>25. ASSUME files' = files, mem' = mem, dirty' = dirty, pc' = pc, op' = op,
              at' = at, buf' = buf
       PROVE  Kept
  <2>1. \A d \in Client : HandlePrd(d)'
    BY <1>2, <1>25 DEF HandlePrd
  <2>2. QED
    BY <1>2, <1>25, <2>1
<1>26. Kept
  <2>1. CASE ResolveConflict \/ UNCHANGED vars
    BY <1>25, <2>1 DEF ResolveConflict, vars
  <2>2. CASE \E c \in Client : Progress(c)
    BY <1>8, <1>9, <1>16, <1>17, <1>18, <1>19, <1>21, <1>23, <1>24, <2>2 DEF Progress
  <2>3. CASE \E c \in Client : Call(c)
    BY <1>7, <1>11, <1>12, <1>14, <1>15, <2>3 DEF Call, BeginLoad, BeginArchive
  <2>4. CASE \E c \in Client : Fault(c)
    BY <1>20, <1>24, <2>4 DEF Fault
  <2>5. QED
    BY <2>1, <2>2, <2>3, <2>4 DEF Next
<1>27. QED
  BY <1>1, <1>26 DEF PrdInv

LEMMA PrdInit == Init => PrdInv
<1> SUFFICES ASSUME Init PROVE PrdInv
  OBVIOUS
<1>1. Protected(files.prd)
  BY DEF Init, Scaffold, Protected, Marked
<1>2. \A c \in Client : HandlePrd(c)
  BY DEF Init, HandlePrd
<1>3. QED
  BY <1>1, <1>2, InitTypes DEF PrdInv

\* For any number of clients, locked or not, with stale handles, repeated
\* operations, crashes and failed saves: the stored hash is that of the Intent
\* section from activation on.
THEOREM IntentAlwaysProtected ==
  ASSUME PrdDiscipline PROVE Spec => []IntentProtected
<1>1. PrdInv => IntentProtected
  BY DEF PrdInv, Protected, Marked, IntentProtected
<1>2. PrdInv /\ [Next]_vars => PrdInv'
  BY PrdNext
<1>3. QED
  BY <1>1, <1>2, PrdInit, PTL DEF Spec

\* Under the same conditions superseded specs, and no earlier ones, carry the
\* deprecation banner.
THEOREM BannerAlwaysMarks ==
  ASSUME PrdDiscipline PROVE Spec => []BannerMarksSuperseded
<1>1. PrdInv => BannerMarksSuperseded
  BY DEF PrdInv, Protected, Marked, BannerMarksSuperseded
<1>2. PrdInv /\ [Next]_vars => PrdInv'
  BY PrdNext
<1>3. QED
  BY <1>1, <1>2, PrdInit, PTL DEF Spec
-----------------------------------------------------------------------------
(***************************************************************************)
(* What the lock is enough for, whatever else the callers do: one client   *)
(* at a time, on a directory that is there.                                *)
(***************************************************************************)
Active(c) == pc[c] # "idle" \/ mem[c] # Nil

Owner(c) == Active(c) => lock = c /\ place = "specs"

LockInv == TypeInv /\ \A c \in Client : Owner(c)

\* A step that is not the beginning of a load or an archival.
Step(c) == \/ Progress(c) \/ Fault(c) \/ EditPrd(c) \/ EditArtifacts(c)
           \/ BeginSave(c) \/ BeginTransition(c) \/ BeginSupersede(c)

\* It is the step of an active client, and about it alone.
Alone(c) ==
  \A d \in Client \ {c} : /\ pc'[d] = pc[d] /\ op'[d] = op[d] /\ at'[d] = at[d]
                          /\ mem'[d] = mem[d] /\ dirty'[d] = dirty[d] /\ buf'[d] = buf[d]

LEMMA DropsAlone ==
  ASSUME TypeInv, NEW c \in Client, Drop(c)
  PROVE  Alone(c) /\ pc'[c] = "idle" /\ mem'[c] = Nil
BY DEF Drop, Return, TypeInv, TypeOK, Alone

LEMMA StepsAlone ==
  ASSUME TypeInv, NEW c \in Client, Step(c)
  PROVE  Active(c) /\ Alone(c) /\ (Drop(c) \/ UNCHANGED <<lock, place>>)
<1> USE DEF Active, disk, handle, work
<1>0. TypeOK
  BY DEF TypeInv
<1>1. CASE ReadFile(c) \/ WriteTemp(c) \/ RenameTemp(c)
  BY <1>0, <1>1 DEF ReadFile, WriteTemp, RenameTemp, Alone, TypeOK
<1>2. CASE LoadReturn(c) \/ SaveReturn(c) \/ TransitionReturn(c)
  BY <1>0, <1>2 DEF LoadReturn, SaveReturn, TransitionReturn, Return, Written, Alone, TypeOK
<1>3. CASE Release(c) \/ LoadFails(c) \/ MoveFails(c) \/ MoveDir(c) \/ Crash(c)
  BY <1>3, DropsAlone DEF Release, Holds, LoadFails, MoveFails, MoveDir, Crash
<1>4. CASE ArchiveLoaded(c) \/ CheckDest(c) \/ ArchiveRecorded(c)
  <2>1. CASE Drop(c)
    BY <1>4, <2>1, DropsAlone DEF ArchiveLoaded, CheckDest, ArchiveRecorded, Written
  <2>2. CASE ~Drop(c)
    BY <1>0, <1>4, <2>2
       DEF ArchiveLoaded, CheckDest, ArchiveRecorded, Written, BeginWrite, Alone, TypeOK
  <2> QED
    BY <2>1, <2>2
<1>5. CASE SaveFails(c)
  <2>1. CASE Drop(c)
    BY <1>5, <2>1, DropsAlone DEF SaveFails
  <2>2. CASE ~Drop(c)
    BY <1>0, <1>5, <2>2 DEF SaveFails, Return, Alone, TypeOK
  <2> QED
    BY <2>1, <2>2
<1>6. CASE EditPrd(c) \/ EditArtifacts(c)
  <2>1. PICK value : EditWith(c, value)
    BY <1>6 DEF EditPrd, EditArtifacts
  <2> QED
    BY <1>0, <2>1 DEF EditWith, Holds, Alone, TypeOK
<1>7. CASE BeginSave(c) \/ BeginTransition(c) \/ BeginSupersede(c)
  BY <1>0, <1>7
     DEF BeginSave, BeginTransition, BeginSupersede, MayTransition, Holds, BeginWrite, Alone, TypeOK
<1> QED
  BY <1>1, <1>2, <1>3, <1>4, <1>5, <1>6, <1>7 DEF Step, Progress, Fault

\* While c is active nobody else is.
LEMMA OthersIdle ==
  ASSUME LockInv, NEW c \in Client, NEW d \in Client, Active(c), c # d
  PROVE  pc[d] = "idle" /\ mem[d] = Nil
BY DEF LockInv, Owner, Active

\* Every step is one of these.
LEMMA Steps ==
  ASSUME [Next]_vars
  PROVE  \/ \E c \in Client : Step(c) \/ BeginRead(c, "load") \/ BeginRead(c, "archive")
         \/ ResolveConflict \/ UNCHANGED vars
BY DEF Next, Call, Step, BeginLoad, BeginArchive

LEMMA LockNext == "unlocked" \notin Habits /\ LockInv /\ [Next]_vars => LockInv'
<1> SUFFICES ASSUME "unlocked" \notin Habits, LockInv, [Next]_vars PROVE LockInv'
  OBVIOUS
<1> USE DEF disk, handle, work
<1>1. TypeInv' /\ TypeInv /\ TypeOK
  BY NextTypes DEF LockInv, TypeInv
<1>2. ASSUME NEW c \in Client, Step(c) PROVE \A d \in Client : Owner(d)'
  <2>1. Active(c) /\ Alone(c) /\ (Drop(c) \/ UNCHANGED <<lock, place>>)
    BY <1>1, <1>2, StepsAlone
  <2>2. \A d \in Client \ {c} : pc'[d] = "idle" /\ mem'[d] = Nil
    BY <2>1, OthersIdle DEF Alone
  <2>3. Owner(c)'
    <3>1. CASE Drop(c)
      BY <1>1, <3>1, DropsAlone DEF Owner, Active
    <3>2. CASE UNCHANGED <<lock, place>>
      BY <2>1, <3>2 DEF LockInv, Owner, Active
    <3> QED
      BY <2>1, <3>1, <3>2
  <2> QED
    BY <2>2, <2>3 DEF Owner, Active
<1>3. ASSUME NEW c \in Client, BeginRead(c, "load") \/ BeginRead(c, "archive")
      PROVE  \A d \in Client : Owner(d)'
  <2>1. lock = Nil /\ lock' = c /\ place' = "specs"
    BY <1>3 DEF BeginRead
  <2>2. \A d \in Client : ~Active(d)
    BY <2>1, NilAssumption DEF LockInv, Owner
  <2> QED
    BY <1>1, <1>3, <2>1, <2>2 DEF BeginRead, Owner, Active, TypeOK
<1>4. ASSUME ResolveConflict \/ UNCHANGED vars PROVE \A d \in Client : Owner(d)'
  BY <1>4 DEF ResolveConflict, vars, LockInv, Owner, Active
<1> QED
  BY <1>1, <1>2, <1>3, <1>4, Steps DEF LockInv

LEMMA LockInit == Init => LockInv
BY InitTypes DEF Init, LockInv, Owner, Active

-----------------------------------------------------------------------------
(***************************************************************************)
(* Temporary files.  Those of a save under way are the ones written and    *)
(* not yet renamed; without the exact range nothing would be known at its  *)
(* end.                                                                    *)
(***************************************************************************)
TempsOf(c) ==
  \A i \in 1..5 : <<c, FileOrder[i]>> \in temps =>
    \/ c \in crashed
    \/ pc[c] = "write" /\ i < at[c]
    \/ pc[c] = "rename" /\ at[c] <= i /\ i <= FileCount(buf[c])

TempInv == LockInv /\ \A c \in Client : TempsOf(c)

LEMMA FilesDiffer == \A i, j \in 1..5 : FileOrder[i] = FileOrder[j] => i = j
BY DEF FileOrder

LEMMA AllFiles == \A f \in File : \E i \in 1..5 : f = FileOrder[i]
BY DEF FileOrder, File

LEMMA TempStep ==
  ASSUME "unlocked" \notin Habits, TempInv, NEW c \in Client, Step(c)
  PROVE  TempsOf(c)' /\ \A d \in Client \ {c}, f \in File :
                          <<d, f>> \in temps' => <<d, f>> \in temps /\ d \in crashed'
<1> USE DEF disk, handle, work
<1>1. TypeInv /\ TypeOK /\ LockInv
  BY DEF TempInv, LockInv, TypeInv
<1>2. place = "specs" /\ Active(c)
  BY <1>1, StepsAlone DEF LockInv, Owner
<1>3. \A d \in Client \ {c}, f \in File : <<d, f>> \in temps => d \in crashed
  <2> SUFFICES ASSUME NEW d \in Client \ {c}, NEW f \in File, <<d, f>> \in temps
               PROVE  d \in crashed
    OBVIOUS
  <2>1. PICK i \in 1..5 : f = FileOrder[i]
    BY AllFiles
  <2>2. pc[d] = "idle"
    BY <1>1, <1>2, OthersIdle
  <2> QED
    BY <2>1, <2>2 DEF TempInv, TempsOf
<1>4. crashed \subseteq crashed'
  BY DEF Step, Progress, Fault, ReadFile, LoadReturn, Release, WriteTemp, RenameTemp,
         SaveReturn, TransitionReturn, ArchiveLoaded, ArchiveRecorded, CheckDest, MoveDir,
         EditPrd, EditArtifacts, EditWith, BeginSave, BeginTransition, BeginSupersede,
         LoadFails, SaveFails, MoveFails, Crash
<1>5. CASE WriteTemp(c)
  <2>1. /\ pc[c] = "write" /\ at[c] \in 1..5 /\ buf'[c] = buf[c] /\ crashed' = crashed
        /\ temps' = temps \cup {<<c, FileOrder[at[c]]>>} /\ at[c] <= FileCount(buf[c])
    BY <1>1, <1>5, FileCountRange DEF WriteTemp, TypeInv, TypeOK, BeingWritten
  <2>2. \/ pc'[c] = "rename" /\ at'[c] = 1 /\ at[c] = FileCount(buf[c])
        \/ pc'[c] = "write" /\ at'[c] = at[c] + 1
    BY <1>1, <1>5 DEF WriteTemp, TypeOK
  <2>3. ASSUME NEW i \in 1..5, <<c, FileOrder[i]>> \in temps' PROVE c \in crashed \/ i <= at[c]
    <3>1. CASE <<c, FileOrder[i]>> \in temps
      <4>1. TempsOf(c)
        BY DEF TempInv
      <4> QED
        BY <2>1, <3>1, <4>1 DEF TempsOf
    <3>2. CASE FileOrder[i] = FileOrder[at[c]]
      BY <2>1, <3>2, FilesDiffer
    <3> QED
      BY <2>1, <2>3, <3>1, <3>2
  <2>4. TempsOf(c)'
    BY <2>1, <2>2, <2>3, FileCountRange DEF TempsOf
  <2> QED
    BY <1>3, <2>1, <2>4
<1>6. CASE RenameTemp(c)
  <2>1. /\ pc[c] = "rename" /\ at[c] \in 1..5 /\ buf'[c] = buf[c] /\ crashed' = crashed
        /\ temps' = temps \ {<<c, FileOrder[at[c]]>>}
        /\ pc'[c] = "rename" /\ at'[c] = at[c] + 1
    BY <1>1, <1>6, FileCountRange DEF RenameTemp, TypeInv, TypeOK, BeingWritten
  <2>2. ASSUME NEW i \in 1..5, <<c, FileOrder[i]>> \in temps'
        PROVE  c \in crashed \/ (at[c] < i /\ i <= FileCount(buf[c]))
    <3>1. <<c, FileOrder[i]>> \in temps /\ i # at[c]
      BY <2>1, <2>2
    <3>2. c \in crashed \/ (at[c] <= i /\ i <= FileCount(buf[c]))
      BY <2>1, <3>1 DEF TempInv, TempsOf
    <3> QED
      BY <2>1, <3>1, <3>2
  <2>3. TempsOf(c)'
    BY <2>1, <2>2, FileCountRange DEF TempsOf
  <2> QED
    BY <1>3, <2>1, <2>3
<1>7. CASE SaveReturn(c) \/ TransitionReturn(c) \/ ArchiveRecorded(c)
  <2>1. pc[c] = "rename" /\ at[c] = FileCount(buf[c]) + 1 /\ temps' = temps /\ crashed' = crashed
    BY <1>7 DEF SaveReturn, TransitionReturn, ArchiveRecorded, Written
  <2>2. ASSUME NEW i \in 1..5, <<c, FileOrder[i]>> \in temps PROVE c \in crashed
    <3>1. c \in crashed \/ (at[c] <= i /\ i <= FileCount(buf[c]))
      BY <2>1, <2>2 DEF TempInv, TempsOf
    <3> QED
      BY <2>1, <3>1, FileCountRange
  <2>3. TempsOf(c)'
    BY <2>1, <2>2 DEF TempsOf
  <2> QED
    BY <1>3, <2>1, <2>3
<1>8. CASE SaveFails(c)
  <2>1. temps' = temps \ ({c} \X File) /\ crashed' = crashed
    BY <1>2, <1>8 DEF SaveFails
  <2>2. TempsOf(c)'
    BY <2>1 DEF TempsOf, FileOrder, File
  <2> QED
    BY <1>3, <2>1, <2>2
<1>9. CASE Crash(c)
  BY <1>3, <1>4, <1>9 DEF Crash, TempsOf
<1>10. CASE pc[c] \notin {"write", "rename"} /\ temps' = temps
  BY <1>3, <1>4, <1>10 DEF TempInv, TempsOf
<1>11. CASE \/ ReadFile(c) \/ LoadReturn(c) \/ Release(c) \/ ArchiveLoaded(c) \/ CheckDest(c)
            \/ MoveDir(c) \/ EditPrd(c) \/ EditArtifacts(c) \/ BeginSave(c)
            \/ BeginTransition(c) \/ BeginSupersede(c) \/ LoadFails(c) \/ MoveFails(c)
  BY <1>10, <1>11
     DEF ReadFile, LoadReturn, Release, ArchiveLoaded, CheckDest, MoveDir, EditPrd,
         EditArtifacts, EditWith, BeginSave, BeginTransition, BeginSupersede, MayTransition,
         Holds, LoadFails, MoveFails
<1> QED
  BY <1>5, <1>6, <1>7, <1>8, <1>9, <1>11 DEF Step, Progress, Fault

LEMMA TempNext == "unlocked" \notin Habits /\ TempInv /\ [Next]_vars => TempInv'
<1> SUFFICES ASSUME "unlocked" \notin Habits, TempInv, [Next]_vars PROVE TempInv'
  OBVIOUS
<1>1. LockInv' /\ TypeOK
  BY LockNext DEF TempInv, LockInv, TypeInv
<1>2. ASSUME NEW c \in Client, Step(c) PROVE \A d \in Client : TempsOf(d)'
  <2>1. \A d \in Client \ {c} : TempsOf(d)'
    <3>1. \A i \in 1..5 : FileOrder[i] \in File
      BY DEF FileOrder, File
    <3> QED
      BY <1>2, <3>1, TempStep DEF TempsOf
  <2> QED
    BY <1>2, <2>1, TempStep
<1>3. ASSUME NEW c \in Client, BeginRead(c, "load") \/ BeginRead(c, "archive")
      PROVE  \A d \in Client : TempsOf(d)'
  BY <1>1, <1>3 DEF BeginRead, TempInv, TempsOf, disk, handle, TypeOK
<1>4. ASSUME ResolveConflict \/ UNCHANGED vars PROVE \A d \in Client : TempsOf(d)'
  BY <1>4 DEF ResolveConflict, vars, TempInv, TempsOf, disk, handle, work, FileOrder, FileCount
<1> QED
  BY <1>1, <1>2, <1>3, <1>4, Steps DEF TempInv

\* With a lock, and whatever other liberties the callers take, a temporary file
\* belongs to a save under way or to a client that was killed.
THEOREM TempsAreAccountedFor ==
  ASSUME "unlocked" \notin Habits PROVE Spec => []TempsAccountedFor
<1>1. TempInv => TempsAccountedFor
  <2> SUFFICES ASSUME TempInv, NEW t \in temps
               PROVE  pc[t[1]] \in {"write", "rename"} \/ t[1] \in crashed
    BY DEF TempsAccountedFor
  <2>1. PICK c \in Client, f \in File : t = <<c, f>>
    BY DEF TempInv, LockInv, TypeInv, TypeOK
  <2>2. PICK i \in 1..5 : f = FileOrder[i]
    BY AllFiles
  <2> QED
    BY <2>1, <2>2 DEF TempInv, TempsOf
<1>2. Init => TempInv
  BY LockInit DEF TempInv, TempsOf, Init
<1>3. TempInv /\ [Next]_vars => TempInv'
  BY TempNext
<1> QED
  BY <1>1, <1>2, <1>3, PTL DEF Spec

-----------------------------------------------------------------------------
(***************************************************************************)
(* Coverage.  A handle without unsaved edits has a fresh coverage section, *)
(* unless a save was cut short; so has what a save writes, always.  The    *)
(* section on disk is stale only between the renames of requirements.json  *)
(* and test_spec.json.                                                     *)
(***************************************************************************)
Fresh(p) == p.test_spec = ComputeCoverageStruct(p.test_spec.tests, p.requirements)

\* p is not behind the directory in the files up to the k-th.
Caught(p, k) ==
  /\ k > 2 => p.requirements = files.requirements
  /\ k > 3 => p.test_spec = files.test_spec

Writing(c) == pc[c] \in {"write", "rename"}

CoverageOf(c) ==
  /\ pc[c] \in {"read", "rename"} => Caught(buf[c], at[c])
  /\ ~torn /\ mem[c] # Nil /\ ~dirty[c] => Fresh(mem[c])
  /\ ~torn /\ Writing(c) => Fresh(buf[c])
  /\ Writing(c) /\ op[c] = "save" => Fresh(buf[c]) /\ mem[c] = buf[c]

Renaming(c) == pc[c] = "rename" /\ at[c] = 3

CovInv ==
  /\ LockInv
  /\ ~torn => Fresh(files) \/ \E c \in Client : Renaming(c)
  /\ \A c \in Client : CoverageOf(c)

LEMMA SavedIsFresh ==
  ASSUME NEW p \in Package PROVE Fresh(WithCoverage(p))
BY DEF WithCoverage, ComputeCoverageStruct, Package, TestSpec, Fresh

LEMMA SameIsFresh ==
  ASSUME NEW p, NEW q, p.requirements = q.requirements, p.test_spec = q.test_spec, Fresh(p)
  PROVE  Fresh(q)
BY DEF Fresh

\* A transition carries the section over.
LEMMA SteppedIsFresh ==
  ASSUME NEW p \in Package, NEW target
  PROVE  /\ Fresh(p) => Fresh(Transitioned(p, target))
         /\ Fresh(p) => Fresh(Superseded(p))
<1>1. /\ Transitioned(p, target).requirements = p.requirements
      /\ Transitioned(p, target).test_spec = p.test_spec
      /\ Superseded(p).requirements = p.requirements
      /\ Superseded(p).test_spec = p.test_spec
  BY DEF Transitioned, Superseded, Package
<1> QED
  BY <1>1, SameIsFresh

\* While c is active it alone can be in the middle of its renames.
LEMMA DiskIsFresh ==
  ASSUME CovInv, NEW c \in Client, Active(c), ~torn, ~Renaming(c)
  PROVE  Fresh(files)
BY OthersIdle DEF CovInv, Renaming

LEMMA CovStep ==
  ASSUME Habits \cap {"unlocked", "transition_dirty"} = {},
         CovInv, NEW c \in Client, Step(c)
  PROVE  CoverageOf(c)' /\ (~torn' => Fresh(files') \/ Renaming(c)')
<1> USE DEF disk, handle, work
<1> DEFINE Kept == CoverageOf(c)' /\ (~torn' => Fresh(files') \/ Renaming(c)')
<1>1. TypeInv /\ TypeOK /\ LockInv /\ CoverageOf(c)
  BY DEF CovInv, LockInv, TypeInv
<1>2. Active(c) /\ (~torn /\ ~Renaming(c) => Fresh(files))
  BY <1>1, StepsAlone, DiskIsFresh
<1>3. mem[c] # Nil => mem[c] \in Package
  BY <1>1 DEF TypeOK
<1>4. ASSUME pc'[c] \in {"idle", "check", "move"}, files' = files,
             ~torn' => ~torn, ~torn' => ~Renaming(c),
             mem'[c] = Nil \/ (mem'[c] = mem[c] /\ dirty'[c] = dirty[c])
      PROVE  Kept
  BY <1>1, <1>2, <1>4 DEF CoverageOf, Writing
<1>5. ASSUME Drop(c), files' = files, ~torn' => ~torn, ~torn' => ~Renaming(c) PROVE Kept
  BY <1>1, <1>4, <1>5, DropsAlone
<1>6. ASSUME NEW o, NEW value, BeginWrite(c, o, value), ~torn => Fresh(value), files' = files,
             torn' = torn, ~Renaming(c),
             \/ o # "save" /\ UNCHANGED <<mem, dirty>>
             \/ Fresh(value) /\ mem'[c] = value
      PROVE  Kept
  <2>1. pc'[c] = "write" /\ op'[c] = o /\ buf'[c] = value
    BY <1>1, <1>6 DEF BeginWrite, TypeOK
  <2> QED
    BY <1>1, <1>2, <1>6, <2>1 DEF CoverageOf, Writing
<1>7. CASE ReadFile(c)
  <2>1. /\ pc[c] = "read" /\ pc' = pc /\ at[c] \in 1..5 /\ at'[c] = at[c] + 1
        /\ buf[c] \in PartPackage /\ files' = files /\ torn' = torn /\ mem' = mem
        /\ dirty' = dirty
    BY <1>1, <1>7 DEF ReadFile, TypeOK
  <2>2. PICK content :
          /\ buf' = [buf EXCEPT ![c][FileOrder[at[c]]] = content]
          /\ FileOrder[at[c]] # "architecture" => content = files[FileOrder[at[c]]]
    BY <1>7 DEF ReadFile
  <2>3. buf'[c] = [buf[c] EXCEPT ![FileOrder[at[c]]] = content]
    BY <1>1, <2>2 DEF TypeOK
  <2>4. Caught(buf'[c], at'[c])
    <3>1. CASE at[c] \in {1, 2}
      BY <2>1, <2>2, <2>3, <3>1 DEF FileOrder, Caught, PartPackage
    <3>2. CASE at[c] = 3
      BY <1>1, <2>1, <2>2, <2>3, <3>2 DEF FileOrder, Caught, PartPackage, CoverageOf
    <3>3. CASE at[c] \in {4, 5}
      BY <1>1, <2>1, <2>2, <2>3, <3>3 DEF FileOrder, Caught, PartPackage, CoverageOf
    <3> QED
      BY <2>1, <3>1, <3>2, <3>3
  <2> QED
    BY <1>1, <1>2, <2>1, <2>4 DEF CoverageOf, Caught, Writing, Renaming
<1>8. CASE LoadReturn(c)
  <2>1. /\ pc[c] = "read" /\ at[c] = 6 /\ mem'[c] = buf[c] /\ pc'[c] = "idle"
        /\ files' = files /\ torn' = torn
    BY <1>1, <1>8 DEF LoadReturn, Return, TypeOK
  <2>2. ~torn => Fresh(files) /\ Fresh(buf[c])
    BY <1>1, <1>2, <2>1, SameIsFresh DEF CoverageOf, Caught, Renaming
  <2> QED
    BY <2>1, <2>2 DEF CoverageOf, Writing
<1>9. CASE Release(c) \/ LoadFails(c) \/ MoveFails(c) \/ MoveDir(c)
  BY <1>5, <1>9 DEF Release, Holds, LoadFails, MoveFails, MoveDir, Renaming
<1>10. CASE EditPrd(c) \/ EditArtifacts(c)
  <2>1. PICK value : EditWith(c, value)
    BY <1>10 DEF EditPrd, EditArtifacts
  <2>2. pc[c] = "idle" /\ pc' = pc /\ dirty'[c] /\ files' = files /\ torn' = torn
    BY <1>1, <2>1 DEF EditWith, Holds, TypeOK
  <2> QED
    BY <1>2, <2>2 DEF CoverageOf, Writing, Renaming
<1>11. CASE BeginSave(c)
  <2>1. /\ mem[c] \in Package /\ ~Renaming(c) /\ mem'[c] = WithCoverage(mem[c])
        /\ BeginWrite(c, "save", WithCoverage(mem[c])) /\ files' = files /\ torn' = torn
    BY <1>1, <1>3, <1>11 DEF BeginSave, Holds, TypeOK, Renaming
  <2> QED
    BY <1>6, <2>1, SavedIsFresh
<1>12. CASE BeginTransition(c) \/ BeginSupersede(c)
  <2>1. /\ mem[c] \in Package /\ ~Renaming(c) /\ (~torn => Fresh(mem[c]))
        /\ files' = files /\ torn' = torn /\ UNCHANGED <<mem, dirty>>
    BY <1>1, <1>3, <1>12
       DEF BeginTransition, BeginSupersede, MayTransition, Holds, TypeOK, Renaming, CoverageOf
  <2>2. PICK value : BeginWrite(c, "transition", value) /\ (~torn => Fresh(value))
    BY <1>12, <2>1, SteppedIsFresh DEF BeginTransition, BeginSupersede
  <2> QED
    BY <1>6, <2>1, <2>2
<1>13. CASE WriteTemp(c)
  <2>1. /\ pc[c] = "write" /\ files' = files /\ torn' = torn /\ mem' = mem /\ dirty' = dirty
        /\ buf' = buf /\ op' = op
        /\ pc'[c] = "write" \/ (pc'[c] = "rename" /\ at'[c] = 1)
    BY <1>1, <1>13 DEF WriteTemp, TypeOK
  <2> QED
    BY <1>1, <1>2, <2>1 DEF CoverageOf, Writing, Caught, Renaming
<1>14. CASE RenameTemp(c)
  <2>1. /\ pc[c] = "rename" /\ pc' = pc /\ op' = op /\ at[c] \in 1..5 /\ at'[c] = at[c] + 1
        /\ buf' = buf /\ torn' = torn /\ mem' = mem /\ dirty' = dirty
        /\ files \in Package
        /\ files' = [files EXCEPT ![FileOrder[at[c]]] = buf[c][FileOrder[at[c]]]]
    BY <1>1, <1>14, FileCountRange DEF RenameTemp, TypeOK
  <2>2. at[c] \notin {2, 3} => files'.requirements = files.requirements
                               /\ files'.test_spec = files.test_spec
    BY <2>1 DEF FileOrder, Package
  <2>3. at[c] = 2 => files'.requirements = buf[c].requirements
    BY <2>1 DEF FileOrder, Package
  <2>4. at[c] = 3 => files'.requirements = files.requirements
                     /\ files'.test_spec = buf[c].test_spec
    BY <2>1 DEF FileOrder, Package
  <2>5. Caught(buf[c], at[c])'
    BY <1>1, <2>1, <2>2, <2>3, <2>4 DEF Caught, CoverageOf
  <2>6. ~torn => Fresh(files') \/ at[c] = 2
    <3>1. CASE at[c] = 3
      <4>1. buf[c].requirements = files.requirements /\ (~torn => Fresh(buf[c]))
        BY <1>1, <2>1, <3>1 DEF CoverageOf, Caught, Writing
      <4> QED
        BY <2>4, <3>1, <4>1 DEF Fresh
    <3>2. CASE at[c] \notin {2, 3}
      BY <1>2, <2>2, <3>2, SameIsFresh DEF Renaming
    <3> QED
      BY <3>1, <3>2
  <2> QED
    BY <1>1, <2>1, <2>5, <2>6 DEF CoverageOf, Writing, Renaming, Caught
<1>15. CASE SaveReturn(c)
  <2>1. /\ pc[c] = "rename" /\ op[c] = "save" /\ at[c] > 4 /\ files' = files /\ mem' = mem
        /\ pc'[c] = "idle"
    BY <1>1, <1>15, FileCountRange DEF SaveReturn, Written, Return, TypeOK
  <2>2. /\ buf[c].requirements = files.requirements /\ buf[c].test_spec = files.test_spec
        /\ Fresh(buf[c]) /\ mem[c] = buf[c]
    BY <1>1, <2>1 DEF CoverageOf, Caught, Writing, TypeOK
  <2>3. Fresh(files) /\ Fresh(mem[c])
    BY <2>2 DEF Fresh
  <2> QED
    BY <2>1, <2>3 DEF CoverageOf, Writing
<1>16. CASE TransitionReturn(c)
  <2>1. /\ pc[c] = "rename" /\ at[c] > 4 /\ files' = files /\ torn' = torn /\ pc'[c] = "idle"
        /\ mem'[c] = buf[c] \/ (mem'[c] = mem[c] /\ dirty'[c] = dirty[c])
    BY <1>1, <1>16, FileCountRange DEF TransitionReturn, Written, Return, TypeOK
  <2>2. ~torn => Fresh(files)
    BY <1>2, <2>1 DEF Renaming
  <2> QED
    BY <1>1, <2>1, <2>2 DEF CoverageOf, Writing
<1>17. CASE ArchiveLoaded(c)
  <2>1. /\ pc[c] = "read" /\ at[c] = 6 /\ files' = files /\ torn' = torn /\ buf[c] \in Package
        /\ ~Renaming(c)
    BY <1>1, <1>17, ReadIsPackage DEF ArchiveLoaded, Renaming
  <2>2. ~torn => Fresh(buf[c])
    BY <1>1, <1>2, <2>1, SameIsFresh DEF CoverageOf, Caught
  <2>3. CASE pc' = [pc EXCEPT ![c] = "check"] /\ UNCHANGED handle
    BY <1>1, <1>4, <2>1, <2>3 DEF TypeOK
  <2>4. CASE BeginWrite(c, "archive", Transitioned(buf[c], "archived")) /\ UNCHANGED handle
    BY <1>6, <2>1, <2>2, <2>4, SteppedIsFresh
  <2> QED
    BY <1>5, <1>17, <2>1, <2>3, <2>4 DEF ArchiveLoaded
<1>18. CASE ArchiveRecorded(c) \/ CheckDest(c)
  <2>1. files' = files /\ torn' = torn /\ ~Renaming(c)
    BY <1>18, FileCountRange DEF ArchiveRecorded, CheckDest, Written, Renaming
  <2>2. Drop(c) \/ (pc'[c] \in {"check", "move"} /\ UNCHANGED handle)
    BY <1>1, <1>18 DEF ArchiveRecorded, CheckDest, TypeOK
  <2> QED
    BY <1>4, <1>5, <2>1, <2>2
<1>19. CASE SaveFails(c) \/ Crash(c)
  <2>1. files' = files /\ (~torn' => ~torn) /\ (~torn' => ~Renaming(c))
    <3>1. FileCount(buf[c]) \in 4..5
      BY FileCountRange
    <3>2. Renaming(c) => TearsAt(c)
      BY <3>1 DEF TearsAt, Renaming
    <3>3. files' = files /\ torn' = (torn \/ TearsAt(c))
      BY <1>19 DEF SaveFails, Crash
    <3> QED
      BY <3>2, <3>3
  <2>2. CASE Drop(c)
    BY <1>5, <2>1, <2>2
  <2>3. CASE ~Drop(c)
    <3>1. pc'[c] = "idle" /\ UNCHANGED handle
      BY <1>1, <1>19, <2>3 DEF SaveFails, Crash, Return, TypeOK
    <3> QED
      BY <1>4, <2>1, <3>1
  <2> QED
    BY <2>2, <2>3
<1> QED
  BY <1>7, <1>8, <1>9, <1>10, <1>11, <1>12, <1>13, <1>14, <1>15, <1>16, <1>17, <1>18, <1>19
     DEF Step, Progress, Fault

LEMMA CovNext ==
  Habits \cap {"unlocked", "transition_dirty"} = {} /\ CovInv /\ [Next]_vars => CovInv'
<1> SUFFICES ASSUME Habits \cap {"unlocked", "transition_dirty"} = {}, CovInv, [Next]_vars
             PROVE  CovInv'
  OBVIOUS
<1> USE DEF disk, handle, work
<1> DEFINE Kept == /\ ~torn' => Fresh(files') \/ \E d \in Client : Renaming(d)'
                   /\ \A d \in Client : CoverageOf(d)'
<1>1. LockInv' /\ LockInv /\ TypeInv /\ TypeOK
  BY LockNext DEF CovInv, LockInv, TypeInv
<1>2. ASSUME NEW c \in Client, Step(c) PROVE Kept
  <2>1. \A d \in Client \ {c} : pc'[d] = "idle" /\ mem'[d] = Nil
    BY <1>1, <1>2, StepsAlone, OthersIdle DEF Alone
  <2>2. \A d \in Client \ {c} : CoverageOf(d)'
    BY <2>1 DEF CoverageOf, Writing
  <2> QED
    BY <1>2, <2>2, CovStep
<1>3. ASSUME NEW c \in Client, BeginRead(c, "load") \/ BeginRead(c, "archive") PROVE Kept
  <2>1. /\ pc[c] = "idle" /\ at[c] = 1 /\ at' = at /\ pc'[c] = "read" /\ files' = files
        /\ torn' = torn /\ UNCHANGED <<mem, dirty, buf>>
        /\ \A d \in Client \ {c} : pc'[d] = pc[d] /\ op'[d] = op[d]
    BY <1>1, <1>3 DEF BeginRead, TypeInv, TypeOK, BeingWritten
  <2>2. CoverageOf(c)'
    BY <2>1 DEF CovInv, CoverageOf, Caught, Writing
  <2>3. ASSUME NEW d \in Client \ {c} PROVE CoverageOf(d)' /\ (Renaming(d) => Renaming(d)')
    BY <2>1 DEF CovInv, CoverageOf, Caught, Writing, Renaming
  <2> QED
    BY <2>1, <2>2, <2>3 DEF CovInv, Renaming
<1>4. ASSUME ResolveConflict \/ UNCHANGED vars PROVE Kept
  <2>1. UNCHANGED <<files, torn, handle, work>>
    BY <1>4 DEF ResolveConflict, vars
  <2> QED
    BY <2>1 DEF CovInv, CoverageOf, Caught, Writing, Renaming
<1> QED
  BY <1>1, <1>2, <1>3, <1>4, Steps DEF CovInv

\* Callers who lock, and save their edits before a transition, never leave a
\* stale coverage section behind, other than by a save that was cut short.
THEOREM CoverageStaysFresh ==
  ASSUME Habits \cap {"unlocked", "transition_dirty"} = {}
  PROVE  Spec => []CoverageFresh
<1>1. CovInv => CoverageFresh
  BY DEF CovInv, CoverageFresh, Fresh, Renaming
<1>2. Init => CovInv
  <2> SUFFICES ASSUME Init PROVE CovInv
    OBVIOUS
  <2>1. Fresh(files)
    <3>1. PICK i, t, k : files = Scaffold(i, t, k)
      BY DEF Init
    <3> QED
      BY <3>1 DEF Scaffold, Fresh, ComputeCoverageStruct
  <2> QED
    BY <2>1, LockInit DEF CovInv, CoverageOf, Writing, Init
<1>3. CovInv /\ [Next]_vars => CovInv'
  BY CovNext
<1> QED
  BY <1>1, <1>2, <1>3, PTL DEF Spec
=============================================================================
