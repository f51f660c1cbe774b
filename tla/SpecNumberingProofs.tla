------------------------ MODULE SpecNumberingProofs ------------------------
(***************************************************************************)
(* Theorems about SpecNumbering for any number of processes and names: no  *)
(* number is used twice and no finished spec is lost, in the settings in   *)
(* which the code can promise it.                                          *)
(***************************************************************************)
EXTENDS SpecNumbering, TLAPS

-----------------------------------------------------------------------------
(***************************************************************************)
(* The largest of a set of numbers exists when every set of numbers in use *)
(* has one, and one number more does not change that.                      *)
(***************************************************************************)
HasLargest(numbers, n) == \E m \in numbers \cup {n} : \A k \in numbers \cup {n} : k <= m

LEMMA LargestIs ==
  ASSUME NEW numbers \in SUBSET Nat, NEW n \in Nat, HasLargest(numbers, n)
  PROVE  /\ Largest(n, numbers) \in Nat /\ n <= Largest(n, numbers)
         /\ \A k \in numbers : k <= Largest(n, numbers)
<1>1. \E m : m \in numbers \cup {n} /\ \A k \in numbers \cup {n} : k <= m
  BY DEF HasLargest
<1>2. /\ Largest(n, numbers) \in numbers \cup {n}
      /\ \A k \in numbers \cup {n} : k <= Largest(n, numbers)
  BY <1>1 DEF Largest
<1> QED
  BY <1>2

LEMMA OneNumberMore ==
  ASSUME NEW all \in SUBSET Nat, NEW x \in Nat,
         \A S \in SUBSET all : \A n \in Nat : HasLargest(S, n)
  PROVE  \A S \in SUBSET (all \cup {x}) : \A n \in Nat : HasLargest(S, n)
<1> SUFFICES ASSUME NEW S \in SUBSET (all \cup {x}), NEW n \in Nat PROVE HasLargest(S, n)
  OBVIOUS
<1>1. PICK m \in (S \ {x}) \cup {n} : \A k \in (S \ {x}) \cup {n} : k <= m
  <2>1. S \ {x} \in SUBSET all
    OBVIOUS
  <2> QED
    BY <2>1 DEF HasLargest
<1>2. m \in Nat
  OBVIOUS
<1>3. CASE x \in S /\ m < x
  <2>1. \A k \in S \cup {n} : k <= x
    BY <1>1, <1>2, <1>3
  <2> QED
    BY <1>3, <2>1 DEF HasLargest
<1>4. CASE x \in S /\ x <= m
  <2>1. \A k \in S \cup {n} : k <= m
    BY <1>1, <1>4
  <2> QED
    BY <2>1 DEF HasLargest
<1>5. CASE x \notin S
  BY <1>1, <1>5 DEF HasLargest
<1> QED
  BY <1>2, <1>3, <1>4, <1>5

-----------------------------------------------------------------------------
(***************************************************************************)
(* The invariant.                                                          *)
(***************************************************************************)
Exclusive == setting.kinds = {"cli"} /\ ~setting.archiving

AllNumbers == Numbers(AllDirs)

Largests == \A S \in SUBSET AllNumbers : \A n \in Nat : HasLargest(S, n)

\* Who is at work, and what the archive is when nothing is archived.
Workers ==
  /\ kind \in [Procs -> setting.kinds]
  /\ setting.alone => \A p, q \in Procs : pc[p] \notin Ended /\ pc[q] \notin Ended => p = q
  /\ ~setting.archiving => DOMAIN archive = {}
  /\ \A p \in Procs : pc[p] = "archive" => kind[p] = "library"

\* What the scans have seen.
Scanned ==
  setting.alone => \A p \in Procs :
    /\ pc[p] \in {"archive", "mkdir"} =>
         \A d \in DOMAIN active : IsSpecDirName(d) => d[1] <= largest[p]
    /\ pc[p] = "mkdir" /\ kind[p] = "library" =>
         \A d \in DOMAIN archive : IsSpecDirName(d) => d[1] <= largest[p]

\* A directory in the making is nobody else's.
Making ==
  setting.alone \/ Exclusive =>
    \A p \in Procs :
      /\ pc[p] \in {"prd", "session", "done"} => dir[p] # Nil
      /\ pc[p] = "prd" /\ IsSpecDirName(dir[p]) /\ There(p) => active[dir[p]].prd = Nil
      /\ pc[p] = "session" /\ IsSpecDirName(dir[p]) /\ There(p) => active[dir[p]].prd = p

Apart ==
  Exclusive => \A p, q \in Procs :
    /\ pc[p] \in {"prd", "session"} => There(p)
    /\ pc[p] \in {"prd", "session"} /\ pc[q] \in {"prd", "session"} /\ dir[p] = dir[q] => p = q

NumInv == TypeOK /\ Largests /\ Workers /\ Scanned /\ Making /\ Apart /\ NumbersStayUsed /\ FinishedIsKept

LEMMA NumInit == Init => NumInv
<1> SUFFICES ASSUME Init PROVE NumInv
  OBVIOUS
<1>1. DOMAIN active = {} /\ DOMAIN archive = {} /\ AllDirs = {}
  BY DEF Init, AllDirs
<1>2. setting \in Setting /\ setting.kinds \subseteq {"cli", "library"}
  BY NumberingAssumption DEF Init, Setting
<1>3. TypeOK
  <2>1. kind \in [Procs -> {"cli", "library"}]
    BY <1>2 DEF Init
  <2> QED
    BY <1>1, <1>2, <2>1 DEF Init, TypeOK, Places, Ended
<1>4. Largests
  <2>1. AllNumbers = {}
    BY <1>1 DEF AllNumbers, Numbers
  <2> QED
    BY <2>1 DEF Largests, HasLargest
<1>5. \A p \in Procs : pc[p] = "start"
  BY DEF Init
<1>6. Workers
  BY <1>1, <1>5 DEF Init, Workers, Ended
<1>7. Scanned /\ Making /\ Apart
  BY <1>5 DEF Scanned, Making, Apart
<1>8. NumbersStayUsed /\ FinishedIsKept
  BY <1>1, <1>5 DEF NumbersStayUsed, FinishedIsKept
<1> QED
  BY <1>3, <1>4, <1>6, <1>7, <1>8 DEF NumInv

-----------------------------------------------------------------------------
(***************************************************************************)
(* Steps that touch no directory: the beginning and the scans.             *)
(***************************************************************************)
LEMMA NoDirectory ==
  ASSUME NumInv, NEW p \in Procs, NEW from, NEW to \in Places \ {"prd", "session", "done"}, Step(p, from, to),
         UNCHANGED <<setting, active, archive, kind, name, dir>>
  PROVE  Largests' /\ Making' /\ Apart' /\ NumbersStayUsed' /\ FinishedIsKept'
<1>1. \A q \in Procs : q # p => pc'[q] = pc[q]
  BY DEF Step, NumInv, TypeOK
<1>2. pc'[p] = to
  BY DEF Step, NumInv, TypeOK
<1>3. \A q \in Procs : pc'[q] \in {"prd", "session", "done"} => pc'[q] = pc[q]
  BY <1>1, <1>2
<1>4. Largests'
  BY DEF NumInv, Largests, AllNumbers, Numbers, AllDirs, HasLargest
<1>5. Making'
  BY <1>3 DEF NumInv, Making, Exclusive, There, IsSpecDirName
<1>6. Apart'
  BY <1>3 DEF NumInv, Apart, Exclusive, There
<1>7. NumbersStayUsed'
  BY DEF NumInv, NumbersStayUsed, AllDirs, IsSpecDirName
<1>8. FinishedIsKept'
  BY <1>3 DEF NumInv, FinishedIsKept, IsSpecDirName
<1> QED
  BY <1>4, <1>5, <1>6, <1>7, <1>8

LEMMA BeginStep ==
  ASSUME NumInv, NEW p \in Procs, Begin(p) PROVE NumInv'
<1>1. PICK to \in {"active", "failed"} : Step(p, "start", to)
  BY DEF Begin
<1>2. /\ UNCHANGED <<setting, active, archive, kind, name, largest, dir>>
      /\ campaign' \in {Nil, "dated", "undated"}
      /\ setting.alone => \A q \in Procs : pc[q] \in Ended
  BY DEF Begin, NumInv, TypeOK
<1>3. TypeOK /\ to \in Places /\ to \notin {"prd", "session", "done"}
  BY DEF NumInv, Places, Ended
<1>4. /\ pc[p] = "start" /\ pc'[p] = to /\ pc' \in [Procs -> Places]
      /\ \A q \in Procs : q # p => pc'[q] = pc[q]
  BY <1>1, <1>3 DEF Step, TypeOK
<1>5. TypeOK'
  BY <1>2, <1>3, <1>4 DEF TypeOK
<1>6. Workers'
  BY <1>2, <1>4 DEF NumInv, Workers
<1>7. Scanned'
  BY <1>2, <1>4 DEF NumInv, Scanned, IsSpecDirName
<1>8. Largests' /\ Making' /\ Apart' /\ NumbersStayUsed' /\ FinishedIsKept'
  BY <1>1, <1>2, <1>3, NoDirectory
<1> QED
  BY <1>5, <1>6, <1>7, <1>8 DEF NumInv

\* A scan ends with a number at least as large as all it was to count.
LEMMA ScanFinds ==
  ASSUME NumInv, NEW p \in Procs, NEW dirs \in SUBSET AllDirs, Scan(p, dirs)
  PROVE  /\ largest' \in [Procs -> Nat] /\ largest[p] <= largest'[p]
         /\ \A q \in Procs : q # p => largest'[q] = largest[q]
         /\ \A d \in dirs : IsSpecDirName(d) => d[1] <= largest'[p]
<1> DEFINE numbers == Numbers(Counted(p, dirs))
<1>1. Counted(p, dirs) \subseteq dirs /\ \A d \in dirs : IsSpecDirName(d) => d \in Counted(p, dirs)
  BY DEF Counted
<1>2. AllDirs \subseteq Dir
  BY DEF NumInv, TypeOK, AllDirs
<1>3. numbers \subseteq AllNumbers /\ AllNumbers \subseteq Nat
  BY <1>1, <1>2 DEF Numbers, AllNumbers, Dir
<1>4. largest \in [Procs -> Nat] /\ largest[p] \in Nat
  BY DEF NumInv, TypeOK
<1>5. HasLargest(numbers, largest[p])
  BY <1>3, <1>4 DEF NumInv, Largests
<1>6. largest' = [largest EXCEPT ![p] = Largest(largest[p], numbers)]
  BY DEF Scan
<1> HIDE DEF numbers
<1>7. /\ Largest(largest[p], numbers) \in Nat /\ largest[p] <= Largest(largest[p], numbers)
      /\ \A k \in numbers : k <= Largest(largest[p], numbers)
  BY <1>3, <1>4, <1>5, LargestIs
<1>8. \A d \in dirs : IsSpecDirName(d) => d[1] \in numbers
  BY <1>1 DEF numbers, Numbers
<1> QED
  BY <1>4, <1>6, <1>7, <1>8

LEMMA ScanActiveStep ==
  ASSUME NumInv, NEW p \in Procs, ScanActive(p) PROVE NumInv'
<1> DEFINE to == IF kind[p] = "cli" THEN "mkdir" ELSE "archive"
<1>1. /\ Step(p, "active", to) /\ Scan(p, DOMAIN active)
      /\ UNCHANGED <<setting, active, archive, campaign, kind, name, dir>>
  BY DEF ScanActive
<1>2. /\ TypeOK /\ to \in Places /\ to \in {"mkdir", "archive"}
      /\ to = "archive" => kind[p] = "library"
      /\ to = "mkdir" => kind[p] # "library"
  BY DEF NumInv, Places, TypeOK
<1> HIDE DEF to
<1>3. /\ pc[p] = "active" /\ pc'[p] = to /\ pc' \in [Procs -> Places]
      /\ \A q \in Procs : q # p => pc'[q] = pc[q]
  BY <1>1, <1>2 DEF Step, TypeOK
<1>4. /\ largest' \in [Procs -> Nat]
      /\ \A q \in Procs : q # p => largest'[q] = largest[q]
      /\ \A d \in DOMAIN active : IsSpecDirName(d) => d[1] <= largest'[p]
  <2>1. DOMAIN active \in SUBSET AllDirs
    BY DEF AllDirs
  <2> QED
    BY <1>1, <2>1, ScanFinds
<1>5. TypeOK'
  BY <1>1, <1>2, <1>3, <1>4 DEF TypeOK
<1>6. Workers'
  BY <1>1, <1>2, <1>3 DEF NumInv, Workers, Ended
<1>7. Scanned'
  BY <1>1, <1>2, <1>3, <1>4 DEF NumInv, Scanned, IsSpecDirName
<1>8. Largests' /\ Making' /\ Apart' /\ NumbersStayUsed' /\ FinishedIsKept'
  BY <1>1, <1>2, NoDirectory
<1> QED
  BY <1>5, <1>6, <1>7, <1>8 DEF NumInv

LEMMA ScanArchiveStep ==
  ASSUME NumInv, NEW p \in Procs, ScanArchive(p) PROVE NumInv'
<1>1. /\ Step(p, "archive", "mkdir") /\ Scan(p, DOMAIN archive)
      /\ UNCHANGED <<setting, active, archive, campaign, kind, name, dir>>
  BY DEF ScanArchive
<1>2. TypeOK /\ "mkdir" \in Places \ {"prd", "session", "done"}
  BY DEF NumInv, Places
<1>3. /\ pc[p] = "archive" /\ pc'[p] = "mkdir" /\ pc' \in [Procs -> Places]
      /\ \A q \in Procs : q # p => pc'[q] = pc[q]
  BY <1>1, <1>2 DEF Step, TypeOK
<1>4. /\ largest' \in [Procs -> Nat] /\ largest \in [Procs -> Nat] /\ largest[p] <= largest'[p]
      /\ \A q \in Procs : q # p => largest'[q] = largest[q]
      /\ \A d \in DOMAIN archive : IsSpecDirName(d) => d[1] <= largest'[p]
  <2>1. DOMAIN archive \in SUBSET AllDirs
    BY DEF AllDirs
  <2> QED
    BY <1>1, <1>2, <2>1, ScanFinds DEF TypeOK
<1>5. TypeOK'
  BY <1>1, <1>2, <1>3, <1>4 DEF TypeOK
<1>6. Workers'
  BY <1>1, <1>3 DEF NumInv, Workers, Ended
<1>7. Scanned'
  <2> SUFFICES ASSUME setting.alone, NEW q \in Procs
               PROVE  /\ pc'[q] \in {"archive", "mkdir"} =>
                           \A d \in DOMAIN active : IsSpecDirName(d) => d[1] <= largest'[q]
                      /\ pc'[q] = "mkdir" /\ kind[q] = "library" =>
                           \A d \in DOMAIN archive : IsSpecDirName(d) => d[1] <= largest'[q]
    BY <1>1 DEF Scanned, IsSpecDirName
  <2>1. CASE q # p
    BY <2>1, <1>3, <1>4 DEF NumInv, Scanned
  <2>2. CASE q = p
    <3>1. ASSUME NEW d \in DOMAIN active, IsSpecDirName(d) PROVE d[1] <= largest'[p]
      <4>1. d[1] <= largest[p] /\ d[1] \in Nat
        BY <3>1, <1>2, <1>3 DEF NumInv, Scanned, TypeOK, Dir
      <4>2. largest[p] \in Nat /\ largest'[p] \in Nat
        BY <1>4
      <4> QED
        BY <4>1, <4>2, <1>4
    <3> QED
      BY <2>2, <3>1, <1>4
  <2> QED
    BY <2>1, <2>2
<1>8. Largests' /\ Making' /\ Apart' /\ NumbersStayUsed' /\ FinishedIsKept'
  BY <1>1, <1>2, NoDirectory
<1> QED
  BY <1>5, <1>6, <1>7, <1>8 DEF NumInv

LEMMA GiveUpStep ==
  ASSUME NumInv, NEW p \in Procs, GiveUp(p, "mkdir") PROVE NumInv'
<1>1. /\ Step(p, "mkdir", "failed")
      /\ UNCHANGED <<setting, active, archive, campaign, kind, name, largest, dir>>
  BY DEF GiveUp
<1>2. TypeOK /\ "failed" \in Places \ {"prd", "session", "done"}
  BY DEF NumInv, Places, Ended
<1>3. /\ pc[p] = "mkdir" /\ pc'[p] = "failed" /\ pc' \in [Procs -> Places]
      /\ \A q \in Procs : q # p => pc'[q] = pc[q]
  BY <1>1, <1>2 DEF Step, TypeOK
<1>4. TypeOK'
  BY <1>1, <1>2, <1>3 DEF TypeOK
<1>5. Workers'
  BY <1>1, <1>3 DEF NumInv, Workers, Ended
<1>6. Scanned'
  BY <1>1, <1>3 DEF NumInv, Scanned, IsSpecDirName
<1>7. Largests' /\ Making' /\ Apart' /\ NumbersStayUsed' /\ FinishedIsKept'
  BY <1>1, <1>2, NoDirectory
<1> QED
  BY <1>4, <1>5, <1>6, <1>7 DEF NumInv

-----------------------------------------------------------------------------
(***************************************************************************)
(* The directory is made.  Its number is larger than all that count.       *)
(***************************************************************************)
LEMMA NewIsLarger ==
  ASSUME NumInv, NEW p \in Procs, pc[p] = "mkdir", setting.alone
  PROVE  /\ \A d \in DOMAIN active : IsSpecDirName(d) => d[1] # largest[p] + 1
         /\ (setting.archiving => "cli" \notin setting.kinds) =>
              \A d \in DOMAIN archive : IsSpecDirName(d) => d[1] # largest[p] + 1
<1>1. largest[p] \in Nat /\ DOMAIN active \subseteq Nat \X Names /\ DOMAIN archive \subseteq Nat \X Names
  BY DEF NumInv, TypeOK, Dir
<1>2. ASSUME NEW d \in DOMAIN active, IsSpecDirName(d) PROVE d[1] # largest[p] + 1
  <2>1. d[1] <= largest[p] /\ d[1] \in Nat
    BY <1>1, <1>2 DEF NumInv, Scanned
  <2> QED
    BY <1>1, <2>1
<1>3. ASSUME setting.archiving => "cli" \notin setting.kinds, NEW d \in DOMAIN archive, IsSpecDirName(d)
      PROVE  d[1] # largest[p] + 1
  <2>1. setting.archiving
    BY <1>3 DEF NumInv, Workers
  <2>2. kind[p] = "library"
    BY <2>1, <1>3 DEF NumInv, Workers, TypeOK
  <2>3. d[1] <= largest[p] /\ d[1] \in Nat
    BY <2>2, <1>1, <1>3 DEF NumInv, Scanned
  <2> QED
    BY <1>1, <2>3
<1> QED
  BY <1>2, <1>3

LEMMA MakeStep ==
  ASSUME NumInv, NEW p \in Procs, Step(p, "mkdir", "prd"),
         ~(kind[p] = "cli" /\ (~IsSpecDirName(New(p)) \/ New(p) \in DOMAIN active)),
         active' = IF New(p) \in DOMAIN active THEN active
                   ELSE Put(active, New(p), [prd |-> Nil, session |-> FALSE]),
         dir' = [dir EXCEPT ![p] = New(p)],
         UNCHANGED <<setting, archive, campaign, kind, name, largest>>
  PROVE  NumInv'
<1> DEFINE new == New(p)
<1>1. TypeOK /\ new = <<largest[p] + 1, name[p]>> /\ new \in Dir /\ new[1] = largest[p] + 1
      /\ largest[p] + 1 \in Nat
  BY DEF NumInv, TypeOK, New, Dir
<1>2. /\ pc[p] = "mkdir" /\ pc'[p] = "prd" /\ pc' \in [Procs -> Places]
      /\ dir'[p] = new /\ dir' \in [Procs -> Dir \cup {Nil}]
      /\ \A q \in Procs : q # p => pc'[q] = pc[q] /\ dir'[q] = dir[q]
  <2>1. pc \in [Procs -> Places] /\ "prd" \in Places /\ dir \in [Procs -> Dir \cup {Nil}]
    BY <1>1 DEF TypeOK, Places
  <2> QED
    BY <1>1, <2>1 DEF Step
<1> HIDE DEF new
<1>3. /\ DOMAIN active' = DOMAIN active \cup {new}
      /\ \A d \in DOMAIN active : active'[d] = active[d]
      /\ new \notin DOMAIN active => active'[new] = [prd |-> Nil, session |-> FALSE]
  BY DEF Put, new
<1>4. \A d \in DOMAIN active' : active'[d] \in Entry
  <2>1. [prd |-> Nil, session |-> FALSE] \in Entry
    BY DEF Entry
  <2> QED
    BY <2>1, <1>1, <1>3 DEF TypeOK
<1>5. TypeOK'
  BY <1>1, <1>2, <1>3, <1>4 DEF TypeOK
<1>6. Largests'
  <2>1. AllDirs' = AllDirs \cup {new}
    BY <1>3 DEF AllDirs
  <2>2. AllNumbers' = AllNumbers \cup {largest[p] + 1}
    BY <1>1, <2>1 DEF AllNumbers, Numbers
  <2>3. AllNumbers \subseteq Nat
    BY <1>1 DEF AllNumbers, Numbers, AllDirs, TypeOK, Dir
  <2>4. \A S \in SUBSET AllNumbers : \A n \in Nat : HasLargest(S, n)
    BY DEF NumInv, Largests
  <2>5. \A S \in SUBSET (AllNumbers \cup {largest[p] + 1}) : \A n \in Nat : HasLargest(S, n)
    <3> DEFINE x == largest[p] + 1
    <3>1. x \in Nat /\ AllNumbers \in SUBSET Nat
      BY <1>1, <2>3
    <3> HIDE DEF x
    <3>2. \A S \in SUBSET (AllNumbers \cup {x}) : \A n \in Nat : HasLargest(S, n)
      BY <2>4, <3>1, OneNumberMore
    <3> QED
      BY <3>2 DEF x
  <2> QED
    BY <2>2, <2>5 DEF Largests, HasLargest
<1>7. Workers'
  BY <1>2 DEF NumInv, Workers, Ended
<1>8. \A q \in Procs : setting.alone /\ pc'[q] \notin Ended => q = p
  BY <1>2 DEF NumInv, Workers, Ended
<1>9. Scanned'
  BY <1>2, <1>8 DEF NumInv, Scanned, Ended
<1>10. setting.alone /\ IsSpecDirName(new) => new \notin DOMAIN active
  BY <1>1, <1>2, NewIsLarger
<1>11. Exclusive => new \notin DOMAIN active
  BY DEF NumInv, Workers, Exclusive, new
<1>12. Making'
  <2> SUFFICES ASSUME setting.alone \/ Exclusive, NEW q \in Procs
               PROVE  /\ pc'[q] \in {"prd", "session", "done"} => dir'[q] # Nil
                      /\ pc'[q] = "prd" /\ IsSpecDirName(dir'[q]) /\ dir'[q] \in DOMAIN active'
                           => active'[dir'[q]].prd = Nil
                      /\ pc'[q] = "session" /\ IsSpecDirName(dir'[q]) /\ dir'[q] \in DOMAIN active'
                           => active'[dir'[q]].prd = q
    BY DEF Making, Exclusive, There, IsSpecDirName
  <2>1. CASE q = p
    <3>1. new # Nil
      BY <1>1, NumberingAssumption DEF Dir
    <3> QED
      BY <2>1, <3>1, <1>2, <1>3, <1>10, <1>11
  <2>2. CASE q # p
    <3>1. pc'[q] = pc[q] /\ dir'[q] = dir[q]
      BY <2>2, <1>2
    <3>2. pc[q] \in {"prd", "session"} => Exclusive /\ ~setting.alone
      BY <2>2, <1>8, <3>1 DEF Ended
    <3>3. pc[q] \in {"prd", "session"} => dir[q] \in DOMAIN active
      BY <3>2 DEF NumInv, Apart, There
    <3> QED
      BY <3>1, <3>3, <1>3 DEF NumInv, Making, There
  <2> QED
    BY <2>1, <2>2
<1>13. Apart'
  <2> SUFFICES ASSUME Exclusive, NEW q \in Procs, NEW r \in Procs
               PROVE  /\ pc'[q] \in {"prd", "session"} => dir'[q] \in DOMAIN active'
                      /\ pc'[q] \in {"prd", "session"} /\ pc'[r] \in {"prd", "session"}
                           /\ dir'[q] = dir'[r] => q = r
    BY DEF Apart, Exclusive, There
  <2>1. \A o \in Procs : o # p /\ pc'[o] \in {"prd", "session"} => dir'[o] \in DOMAIN active
    BY <1>2 DEF NumInv, Apart, There
  <2>2. new \notin DOMAIN active
    BY <1>11
  <2> QED
    BY <2>1, <2>2, <1>2, <1>3 DEF NumInv, Apart
<1>14. NumbersStayUsed'
  <2> SUFFICES ASSUME setting.alone, setting.archiving => "cli" \notin setting.kinds
               PROVE  /\ \A d, e \in AllDirs' :
                           IsSpecDirName(d) /\ IsSpecDirName(e) /\ d[1] = e[1] => d = e
                      /\ \A d \in DOMAIN active' \cap DOMAIN archive : ~IsSpecDirName(d)
    BY DEF NumbersStayUsed, IsSpecDirName
  <2>1. AllDirs' = AllDirs \cup {new}
    BY <1>3 DEF AllDirs
  <2>2. \A c \in AllDirs : IsSpecDirName(c) => c[1] # new[1]
    BY <1>1, <1>2, NewIsLarger DEF AllDirs
  <2>3. new \in DOMAIN archive => ~IsSpecDirName(new)
    BY <2>2 DEF AllDirs
  <2> QED
    BY <2>1, <2>2, <2>3, <1>3 DEF NumInv, NumbersStayUsed
<1>15. FinishedIsKept'
  <2> SUFFICES ASSUME setting.alone \/ Exclusive, NEW q \in Procs, pc'[q] = "done",
                      IsSpecDirName(dir'[q])
               PROVE  \E dirs \in {active', archive'} :
                        /\ dir'[q] \in DOMAIN dirs
                        /\ dirs[dir'[q]] = [prd |-> q, session |-> TRUE]
    BY DEF FinishedIsKept, Exclusive, IsSpecDirName
  <2>1. q # p /\ pc[q] = "done" /\ dir'[q] = dir[q]
    BY <1>2
  <2>2. PICK dirs \in {active, archive} : /\ dir[q] \in DOMAIN dirs
                                          /\ dirs[dir[q]] = [prd |-> q, session |-> TRUE]
    BY <2>1 DEF NumInv, FinishedIsKept, Exclusive
  <2> QED
    BY <2>1, <2>2, <1>3
<1> QED
  BY <1>5, <1>6, <1>7, <1>9, <1>12, <1>13, <1>14, <1>15 DEF NumInv

-----------------------------------------------------------------------------
(***************************************************************************)
(* While a process fills its directory nobody else has it.                 *)
(***************************************************************************)
LEMMA NobodyElse ==
  ASSUME NumInv, setting.alone \/ Exclusive, NEW p \in Procs, pc[p] \in {"prd", "session"},
         NEW q \in Procs, q # p
  PROVE  /\ pc[q] \in {"prd", "session"} => dir[q] # dir[p]
         /\ pc[q] = "done" /\ IsSpecDirName(dir[q]) =>
              \/ /\ dir[q] \in DOMAIN archive /\ archive[dir[q]] = [prd |-> q, session |-> TRUE]
              \/ /\ dir[q] \in DOMAIN active /\ active[dir[q]] = [prd |-> q, session |-> TRUE]
                 /\ dir[q] # dir[p]
<1>1. pc[q] \in {"prd", "session"} => dir[q] # dir[p]
  BY DEF NumInv, Workers, Ended, Apart
<1>2. ASSUME pc[q] = "done", IsSpecDirName(dir[q]),
             dir[q] \in DOMAIN active, active[dir[q]] = [prd |-> q, session |-> TRUE]
      PROVE  dir[q] # dir[p]
  <2> SUFFICES ASSUME dir[q] = dir[p] PROVE FALSE
    OBVIOUS
  <2>1. active[dir[p]].prd \in {Nil, p}
    BY <1>2 DEF NumInv, Making, There
  <2>2. active[dir[p]].prd = q
    BY <1>2
  <2> QED
    BY <2>1, <2>2, NumberingAssumption
<1>3. pc[q] = "done" /\ IsSpecDirName(dir[q]) =>
        \E dirs \in {active, archive} : /\ dir[q] \in DOMAIN dirs
                                        /\ dirs[dir[q]] = [prd |-> q, session |-> TRUE]
  BY DEF NumInv, FinishedIsKept, Exclusive
<1> QED
  BY <1>1, <1>2, <1>3

LEMMA FillStep ==
  ASSUME NumInv, NEW p \in Procs, There(p), NEW entry \in Entry, NEW from, NEW to, Step(p, from, to),
         (from = "prd" /\ to = "session") \/ (from = "session" /\ to = "done"),
         active' = Put(active, dir[p], entry),
         (setting.alone \/ Exclusive) /\ IsSpecDirName(dir[p]) => entry.prd = p,
         to = "done" => entry.session = TRUE,
         UNCHANGED <<setting, archive, campaign, kind, name, largest, dir>>
  PROVE  NumInv'
<1>1. TypeOK /\ to \in Places /\ from \in {"prd", "session"}
  BY DEF NumInv, Places, Ended
<1>2. /\ pc[p] = from /\ pc'[p] = to /\ pc' \in [Procs -> Places]
      /\ \A q \in Procs : q # p => pc'[q] = pc[q]
  BY <1>1 DEF Step, TypeOK
<1>3. /\ DOMAIN active' = DOMAIN active
      /\ active'[dir[p]] = entry
      /\ \A d \in DOMAIN active : d # dir[p] => active'[d] = active[d]
  BY DEF Put, There
<1>4. AllDirs' = AllDirs
  BY <1>3 DEF AllDirs
<1>5. \A d \in DOMAIN active' : active'[d] \in Entry
  BY <1>1, <1>3 DEF TypeOK
<1>6. TypeOK'
  BY <1>1, <1>2, <1>3, <1>5 DEF TypeOK
<1>7. Largests'
  BY <1>4 DEF NumInv, Largests, AllNumbers, Numbers, HasLargest
<1>8. Workers'
  BY <1>2 DEF NumInv, Workers, Ended
<1>9. Scanned'
  BY <1>2, <1>3 DEF NumInv, Scanned, IsSpecDirName
<1>10. Making'
  <2> SUFFICES ASSUME setting.alone \/ Exclusive, NEW q \in Procs
               PROVE  /\ pc'[q] \in {"prd", "session", "done"} => dir[q] # Nil
                      /\ pc'[q] = "prd" /\ IsSpecDirName(dir[q]) /\ dir[q] \in DOMAIN active
                           => active'[dir[q]].prd = Nil
                      /\ pc'[q] = "session" /\ IsSpecDirName(dir[q]) /\ dir[q] \in DOMAIN active
                           => active'[dir[q]].prd = q
    BY <1>3 DEF Making, Exclusive, There, IsSpecDirName
  <2>1. CASE q = p
    BY <2>1, <1>2, <1>3 DEF NumInv, Making
  <2>2. CASE q # p
    <3>1. pc[q] \in {"prd", "session"} => dir[q] # dir[p]
      BY <2>2, <1>1, <1>2, NobodyElse
    <3> QED
      BY <2>2, <3>1, <1>2, <1>3 DEF NumInv, Making, There
  <2> QED
    BY <2>1, <2>2
<1>11. Apart'
  BY <1>2, <1>3 DEF NumInv, Apart, Exclusive, There
<1>12. NumbersStayUsed'
  BY <1>3, <1>4 DEF NumInv, NumbersStayUsed, IsSpecDirName
<1>13. FinishedIsKept'
  <2> SUFFICES ASSUME setting.alone \/ Exclusive, NEW q \in Procs, pc'[q] = "done",
                      IsSpecDirName(dir[q])
               PROVE  \E dirs \in {active', archive} :
                        /\ dir[q] \in DOMAIN dirs
                        /\ dirs[dir[q]] = [prd |-> q, session |-> TRUE]
    BY DEF FinishedIsKept, Exclusive, IsSpecDirName
  <2>1. CASE q = p
    <3>1. entry.prd = p /\ entry.session = TRUE
      BY <2>1, <1>2
    <3>2. entry = [prd |-> p, session |-> TRUE]
      BY <3>1 DEF Entry
    <3>3. dir[p] \in DOMAIN active' /\ active'[dir[p]] = [prd |-> p, session |-> TRUE]
      BY <3>2, <1>3 DEF There
    <3> QED
      BY <2>1, <3>3
  <2>2. CASE q # p
    <3>1. pc[q] = "done"
      BY <2>2, <1>2
    <3>2. \/ /\ dir[q] \in DOMAIN archive /\ archive[dir[q]] = [prd |-> q, session |-> TRUE]
          \/ /\ dir[q] \in DOMAIN active /\ active[dir[q]] = [prd |-> q, session |-> TRUE]
             /\ dir[q] # dir[p]
      BY <2>2, <3>1, <1>1, <1>2, NobodyElse
    <3> QED
      BY <3>2, <1>3
  <2> QED
    BY <2>1, <2>2
<1> QED
  BY <1>6, <1>7, <1>8, <1>9, <1>10, <1>11, <1>12, <1>13 DEF NumInv

LEMMA WriteSteps ==
  ASSUME NumInv, NEW p \in Procs, WritePRD(p) \/ WriteSession(p) PROVE NumInv'
<1>1. CASE WritePRD(p)
  <2> DEFINE entry == [active[dir[p]] EXCEPT !.prd = p]
  <2>1. active[dir[p]] \in Entry /\ There(p)
    BY <1>1 DEF WritePRD, There, NumInv, TypeOK
  <2>2. entry \in Entry /\ entry.prd = p
    BY <2>1 DEF Entry
  <2>3. /\ Step(p, "prd", "session") /\ active' = Put(active, dir[p], entry)
        /\ UNCHANGED <<setting, archive, campaign, kind, name, largest, dir>>
    BY <1>1 DEF WritePRD
  <2> HIDE DEF entry
  <2> QED
    BY <2>1, <2>2, <2>3, FillStep
<1>2. CASE WriteSession(p)
  <2> DEFINE entry == [active[dir[p]] EXCEPT !.session = TRUE]
  <2>1. active[dir[p]] \in Entry /\ There(p) /\ pc[p] = "session"
    BY <1>2 DEF WriteSession, There, NumInv, TypeOK, Step
  <2>2. entry \in Entry /\ entry.prd = active[dir[p]].prd /\ entry.session = TRUE
    BY <2>1 DEF Entry
  <2>3. /\ Step(p, "session", "done") /\ active' = Put(active, dir[p], entry)
        /\ UNCHANGED <<setting, archive, campaign, kind, name, largest, dir>>
    BY <1>2 DEF WriteSession
  <2>4. (setting.alone \/ Exclusive) /\ IsSpecDirName(dir[p]) => active[dir[p]].prd = p
    BY <2>1 DEF NumInv, Making
  <2> HIDE DEF entry
  <2> QED
    BY <2>1, <2>2, <2>3, <2>4, FillStep
<1> QED
  BY <1>1, <1>2

-----------------------------------------------------------------------------
(***************************************************************************)
(* A process gives up with its directory.                                  *)
(***************************************************************************)
LEMMA FewerNumbers ==
  ASSUME NumInv, AllDirs' \subseteq AllDirs PROVE Largests'
<1>1. AllNumbers' \subseteq AllNumbers
  BY DEF AllNumbers, Numbers
<1> QED
  BY <1>1 DEF NumInv, Largests, HasLargest

LEMMA BrokenStep ==
  ASSUME NumInv, NEW p \in Procs, Broken(p) PROVE NumInv'
<1>1. PICK from \in {"prd", "session"} : Step(p, from, "failed")
  BY DEF Broken
<1>2. /\ active' = IF kind[p] = "cli" THEN Without(active, dir[p]) ELSE active
      /\ UNCHANGED <<setting, archive, campaign, kind, name, largest, dir>>
  BY DEF Broken
<1>3. TypeOK /\ "failed" \in Places
  BY DEF NumInv, Places, Ended
<1>4. /\ pc[p] = from /\ pc'[p] = "failed" /\ pc' \in [Procs -> Places]
      /\ \A q \in Procs : q # p => pc'[q] = pc[q]
  BY <1>1, <1>3 DEF Step, TypeOK
<1>5. /\ DOMAIN active' \subseteq DOMAIN active
      /\ \A d \in DOMAIN active' : active'[d] = active[d]
      /\ \A d \in DOMAIN active : d # dir[p] => d \in DOMAIN active'
  BY <1>2 DEF Without
<1>6. AllDirs' \subseteq AllDirs
  BY <1>2, <1>5 DEF AllDirs
<1>7. TypeOK'
  <2>1. \A d \in DOMAIN active' : active'[d] \in Entry
    BY <1>3, <1>5 DEF TypeOK
  <2> QED
    BY <2>1, <1>2, <1>3, <1>4, <1>5 DEF TypeOK
<1>8. Largests'
  BY <1>6, FewerNumbers
<1>9. Workers'
  BY <1>2, <1>4 DEF NumInv, Workers, Ended
<1>10. Scanned'
  BY <1>2, <1>4, <1>5 DEF NumInv, Scanned, IsSpecDirName
<1>11. Making'
  <2>1. \A q \in Procs : pc'[q] \in {"prd", "session", "done"} => pc'[q] = pc[q]
    BY <1>4
  <2> QED
    BY <2>1, <1>2, <1>5 DEF NumInv, Making, Exclusive, There, IsSpecDirName
<1>12. Apart'
  <2> SUFFICES ASSUME Exclusive, NEW q \in Procs, pc'[q] \in {"prd", "session"}
               PROVE  /\ dir[q] \in DOMAIN active'
                      /\ \A r \in Procs : pc'[r] \in {"prd", "session"} /\ dir[q] = dir[r] => q = r
    BY <1>2 DEF Apart, Exclusive, There
  <2>1. q # p /\ pc[q] \in {"prd", "session"}
    BY <1>4
  <2>2. dir[q] # dir[p] /\ dir[q] \in DOMAIN active
    BY <2>1, <1>4, NobodyElse DEF NumInv, Apart, There
  <2>3. \A r \in Procs : pc'[r] \in {"prd", "session"} => pc[r] \in {"prd", "session"}
    BY <1>4
  <2> QED
    BY <2>1, <2>2, <2>3, <1>5 DEF NumInv, Apart
<1>13. NumbersStayUsed'
  BY <1>2, <1>5, <1>6 DEF NumInv, NumbersStayUsed, IsSpecDirName
<1>14. FinishedIsKept'
  <2> SUFFICES ASSUME setting.alone \/ Exclusive, NEW q \in Procs, pc'[q] = "done",
                      IsSpecDirName(dir[q])
               PROVE  \E dirs \in {active', archive} :
                        /\ dir[q] \in DOMAIN dirs
                        /\ dirs[dir[q]] = [prd |-> q, session |-> TRUE]
    BY <1>2 DEF FinishedIsKept, Exclusive, IsSpecDirName
  <2>1. q # p /\ pc[q] = "done"
    BY <1>4
  <2>2. \/ /\ dir[q] \in DOMAIN archive /\ archive[dir[q]] = [prd |-> q, session |-> TRUE]
        \/ /\ dir[q] \in DOMAIN active /\ active[dir[q]] = [prd |-> q, session |-> TRUE]
           /\ dir[q] # dir[p]
    BY <2>1, <1>4, NobodyElse
  <2> QED
    BY <2>2, <1>5
<1> QED
  BY <1>7, <1>8, <1>9, <1>10, <1>11, <1>12, <1>13, <1>14 DEF NumInv

-----------------------------------------------------------------------------
(***************************************************************************)
(* A spec is archived.                                                     *)
(***************************************************************************)
LEMMA MoveStep ==
  ASSUME NumInv, MoveToArchive PROVE NumInv'
<1>1. PICK m \in DOMAIN active : /\ m \notin DOMAIN archive
                                 /\ archive' = Put(archive, m, active[m])
                                 /\ active' = Without(active, m)
  BY DEF MoveToArchive
<1>2. setting.archiving /\ UNCHANGED <<setting, campaign, pc, kind, name, largest, dir>>
  BY DEF MoveToArchive
<1>3. /\ DOMAIN active' = DOMAIN active \ {m} /\ DOMAIN archive' = DOMAIN archive \cup {m}
      /\ \A d \in DOMAIN active' : active'[d] = active[d]
      /\ \A d \in DOMAIN archive : archive'[d] = archive[d]
      /\ archive'[m] = active[m]
  BY <1>1 DEF Put, Without
<1>4. AllDirs' = AllDirs
  BY <1>3 DEF AllDirs
<1>5. TypeOK'
  <2>1. /\ \A d \in DOMAIN active' : active'[d] \in Entry
        /\ \A d \in DOMAIN archive' : archive'[d] \in Entry
        /\ DOMAIN active' \subseteq Dir /\ DOMAIN archive' \subseteq Dir
    BY <1>3 DEF NumInv, TypeOK
  <2> QED
    BY <2>1, <1>2 DEF NumInv, TypeOK
<1>6. Largests'
  BY <1>4, FewerNumbers
<1>7. Workers'
  BY <1>2 DEF NumInv, Workers
<1>8. Scanned'
  BY <1>2, <1>3 DEF NumInv, Scanned, IsSpecDirName
<1>9. Making'
  BY <1>2, <1>3 DEF NumInv, Making, Exclusive, There, IsSpecDirName
<1>10. Apart'
  BY <1>2 DEF Apart, Exclusive
<1>11. NumbersStayUsed'
  BY <1>2, <1>3, <1>4 DEF NumInv, NumbersStayUsed, IsSpecDirName
<1>12. FinishedIsKept'
  <2> SUFFICES ASSUME setting.alone \/ Exclusive, NEW q \in Procs, pc[q] = "done",
                      IsSpecDirName(dir[q])
               PROVE  \E dirs \in {active', archive'} :
                        /\ dir[q] \in DOMAIN dirs
                        /\ dirs[dir[q]] = [prd |-> q, session |-> TRUE]
    BY <1>2 DEF FinishedIsKept, Exclusive, IsSpecDirName
  <2>1. PICK dirs \in {active, archive} : /\ dir[q] \in DOMAIN dirs
                                          /\ dirs[dir[q]] = [prd |-> q, session |-> TRUE]
    BY DEF NumInv, FinishedIsKept, Exclusive
  <2>2. CASE dirs = active /\ dir[q] = m
    BY <2>1, <2>2, <1>3
  <2>3. CASE dirs = active /\ dir[q] # m
    BY <2>1, <2>3, <1>3
  <2>4. CASE dirs = archive
    BY <2>1, <2>4, <1>3
  <2> QED
    BY <2>2, <2>3, <2>4
<1> QED
  BY <1>5, <1>6, <1>7, <1>8, <1>9, <1>10, <1>11, <1>12 DEF NumInv

-----------------------------------------------------------------------------
(***************************************************************************)
(* Every step keeps the invariant.                                         *)
(***************************************************************************)
LEMMA NewSpecStep ==
  ASSUME NumInv, NEW p \in Procs, NewSpec(p) PROVE NumInv'
<1>1. CASE Mkdir(p)
  <2>1. CASE kind[p] = "cli" /\ (~IsSpecDirName(New(p)) \/ New(p) \in DOMAIN active)
    BY <1>1, <2>1, GiveUpStep DEF Mkdir
  <2>2. CASE ~(kind[p] = "cli" /\ (~IsSpecDirName(New(p)) \/ New(p) \in DOMAIN active))
    BY <1>1, <2>2, MakeStep DEF Mkdir
  <2> QED
    BY <2>1, <2>2
<1> QED
  BY <1>1, BeginStep, ScanActiveStep, ScanArchiveStep, WriteSteps, BrokenStep DEF NewSpec

LEMMA NumStep == NumInv /\ [Next]_vars => NumInv'
<1> SUFFICES ASSUME NumInv, [Next]_vars PROVE NumInv'
  OBVIOUS
<1>1. CASE Create
  BY <1>1, NewSpecStep DEF Create
<1>2. CASE MoveToArchive
  BY <1>2, MoveStep
<1>3. CASE UNCHANGED vars
  <2>1. TypeOK' /\ Workers' /\ Scanned'
    BY <1>3 DEF vars, NumInv, TypeOK, Workers, Scanned, IsSpecDirName
  <2>2. Making' /\ Apart'
    BY <1>3 DEF vars, NumInv, Making, Apart, Exclusive, There, IsSpecDirName
  <2>3. Largests'
    BY <1>3, FewerNumbers DEF vars, AllDirs
  <2>4. NumbersStayUsed' /\ FinishedIsKept'
    BY <1>3 DEF vars, NumInv, NumbersStayUsed, FinishedIsKept, AllDirs, IsSpecDirName
  <2> QED
    BY <2>1, <2>2, <2>3, <2>4 DEF NumInv
<1> QED
  BY <1>1, <1>2, <1>3 DEF Next

LEMMA NumInvariance == Spec => []NumInv
<1> QED
  BY NumInit, NumStep, PTL DEF Spec

(***************************************************************************)
(* The types of SpecNumbering: the largest number of a scan is a number.   *)
(***************************************************************************)
THEOREM NumberingTypes == Spec => []TypeOK
<1>1. NumInv => TypeOK
  BY DEF NumInv
<1> QED
  BY <1>1, NumInvariance, PTL

(***************************************************************************)
(* One process at a time never gives a number twice, whatever is archived  *)
(* between the two scans of the library.                                   *)
(***************************************************************************)
THEOREM NumbersAreUsedOnce == Spec => []NumbersStayUsed
<1>1. NumInv => NumbersStayUsed
  BY DEF NumInv
<1> QED
  BY <1>1, NumInvariance, PTL

(***************************************************************************)
(* A spec whose creation was finished stays as it was created, also when   *)
(* any number of "spec new" commands run at once and fail.                 *)
(***************************************************************************)
THEOREM FinishedSpecsAreKept == Spec => []FinishedIsKept
<1>1. NumInv => FinishedIsKept
  BY DEF NumInv
<1> QED
  BY <1>1, NumInvariance, PTL
=============================================================================
