---------------------- MODULE ArtifactGenerationProofs ----------------------
(***************************************************************************)
(* Theorems about ArtifactGeneration for every number of attempts, repairs *)
(* and signals: what GenerateArtifacts delivers and returns, whatever the  *)
(* service answers and whenever the context is cancelled.                  *)
(***************************************************************************)
EXTENDS ArtifactGeneration, SequenceFacts, FiniteSetTheorems, TLAPS

-----------------------------------------------------------------------------
(***************************************************************************)
(* The invariant: who is at work in which phase, which errors and results  *)
(* there are, what has been handed over, and which requests came late.     *)
(***************************************************************************)
Active == {"begin", "call", "attempt", "send", "wire", "last", "repair"}

AtWork ==
  /\ main = "start" => \A a \in Artifacts : at[a] = "idle"
  /\ main \in {"first", "handover"} => \A a \in Second : at[a] = "idle"
  /\ main \in {"handover", "second", "deliver"} => at["requirements"] = "valid"
  /\ main = "deliver" => \A a \in Second : at[a] = "valid"
  /\ main = "done" => \A a \in Artifacts : at[a] \notin Active

FirstErrors ==
  /\ err # Nil <=> \E a \in Artifacts : at[a] = "failed"
  /\ ~cancelled => err # "cancelled" /\ outcome # "cancelled"

Arrived ==
  /\ results \in Seq(Second)
  /\ \A i, j \in DOMAIN results : results[i] = results[j] => i = j
  /\ Range(results) = {a \in Second : at[a] = "valid"}

Handed ==
  /\ delivered \in Seq(Artifacts) /\ Len(delivered) <= Len(results) + 1
  /\ main \in {"start", "first", "handover"} => delivered = <<>>
  /\ main = "second" => delivered = <<"requirements">>
  /\ main = "deliver" => Len(delivered) >= 1
  /\ Len(delivered) >= 1 => delivered[1] = "requirements"
  /\ \A i \in 2..Len(delivered) : delivered[i] = results[i - 1]
  /\ Len(delivered) > 1 => \A a \in Artifacts : at[a] = "valid"
  /\ main = "done" <=> outcome # Nil
  /\ outcome \in Errors => Len(delivered) <= 1
  /\ outcome = "ok" => /\ Len(delivered) = Len(results) + 1
                       /\ \A a \in Artifacts : at[a] = "valid"

Late ==
  \A a \in Artifacts : /\ late[a] <= 2
                       /\ ~Over(a) \/ at[a] = "send" => late[a] = 0
                       /\ at[a] = "wire" => late[a] <= 1

GenInv == TypeOK /\ AtWork /\ FirstErrors /\ Arrived /\ Handed /\ Late

LEMMA GenInit == Init => GenInv
<1> SUFFICES ASSUME Init PROVE GenInv
  OBVIOUS
<1>1. TypeOK
  <2>1. MaxAttempts - 1 \in Nat /\ 0 <= MaxAttempts - 1 /\ 0 \in 0..MaxRepairs
    BY GenerationAssumption
  <2>2. attempt \in [Artifacts -> 0..(MaxAttempts - 1)] /\ repairs \in [Artifacts -> 0..MaxRepairs]
        /\ late \in [Artifacts -> Nat] /\ at \in [Artifacts -> Places]
    BY <2>1 DEF Init, Places
  <2>3. results \in Seq(Second) /\ delivered \in Seq(Artifacts)
    BY DEF Init
  <2>4. cacheable \in BOOLEAN /\ cancelled \in BOOLEAN /\ exited \in BOOLEAN
    BY DEF Init
  <2>5. /\ main \in {"start", "first", "handover", "second", "deliver", "done"}
        /\ err \in Errors \cup {Nil} /\ outcome \in Errors \cup {Nil, "ok", "panic"}
        /\ handler \in {"first", "second", "gone"} /\ pending \in 0..2 /\ signals \in Nat
    BY DEF Init
  <2> QED
    BY <2>2, <2>3, <2>4, <2>5 DEF TypeOK
<1>2. AtWork
  BY DEF Init, AtWork, Active, Second, Artifacts
<1>3. FirstErrors
  BY GenerationAssumption DEF Init, FirstErrors, Errors
<1>4. Arrived
  <2>1. results = <<>> /\ DOMAIN results = {} /\ results \in Seq(Second)
    BY DEF Init
  <2>2. Range(results) = {}
    BY <2>1 DEF Range
  <2>3. {a \in Second : at[a] = "valid"} = {}
    BY DEF Init, Artifacts
  <2> QED
    BY <2>1, <2>2, <2>3 DEF Arrived
<1>5. Handed
  BY GenerationAssumption DEF Init, Handed
<1>6. Late
  BY DEF Init, Late
<1> QED
  BY <1>1, <1>2, <1>3, <1>4, <1>5, <1>6 DEF GenInv

-----------------------------------------------------------------------------
(***************************************************************************)
(* What a step of generateOne comes to.                                    *)
(***************************************************************************)
Ends == {"valid", "failed"}

\* The step leads from an active place to the place to, and nothing else moves.
Leads(a, to) ==
  /\ at[a] \in Active /\ at' = [at EXCEPT ![a] = to]
  /\ attempt' \in [Artifacts -> 0..(MaxAttempts - 1)] /\ repairs' \in [Artifacts -> 0..MaxRepairs]

Works(a, to) ==
  /\ Leads(a, to) /\ to \in Active /\ UNCHANGED <<err, results>>
  /\ \/ UNCHANGED late /\ to \notin {"send", "wire"}
     \/ UNCHANGED late /\ to = "send" /\ ~Over(a)
     \/ CountLate(a) /\ to = "wire" /\ at[a] = "send"
     \/ CountLate(a) /\ to = "last" /\ at[a] = "wire"

Accepts(a) ==
  /\ Leads(a, "valid") /\ UNCHANGED <<err, late>>
  /\ results' = IF a \in Second THEN Append(results, a) ELSE results

Fails(a) ==
  /\ Leads(a, "failed") /\ UNCHANGED <<results, late>>
  /\ \E e \in Errors : err' = FirstError(e) /\ (e = "cancelled" => Over(a))

LEMMA GoWorks ==
  ASSUME TypeOK, NEW a \in Artifacts, NEW from \in Active, NEW to \in Active \ {"wire"}, Go(a, from, to)
  PROVE  Works(a, to)
BY DEF TypeOK, Go, Move, Works, Leads

LEMMA FailFails ==
  ASSUME TypeOK, NEW a \in Artifacts, NEW from \in Active, NEW e \in Errors, Fail(a, from, e),
         e = "cancelled" => Over(a)
  PROVE  Fails(a)
BY DEF TypeOK, Fail, Move, Fails, Leads

LEMMA GenerateCases ==
  ASSUME TypeOK, NEW a \in Artifacts, generateOne(a)
  PROVE  Accepts(a) \/ Fails(a) \/ \E to \in Active : Works(a, to)
<1>1. CASE Check(a)
  <2>1. PICK from \in {"begin", "call", "attempt", "repair"} : Over(a) /\ Fail(a, from, "cancelled")
    BY <1>1 DEF Check
  <2>2. from \in Active /\ "cancelled" \in Errors
    BY DEF Active, Errors
  <2> QED
    BY <2>1, <2>2, FailFails
<1>2. CASE BuildPrompt(a)
  <2>1. "begin" \in Active /\ "call" \in Active \ {"wire"} /\ "internal" \in Errors
    BY DEF Active, Errors
  <2> QED
    BY <1>2, <2>1, GoWorks, FailFails DEF BuildPrompt
<1>3. CASE StartCall(a)
  <2>1. "call" \in Active /\ "attempt" \in Active /\ "config" \in Errors
    BY DEF Active, Errors
  <2>2. CASE Fail(a, "call", "config")
    BY <2>1, <2>2, FailFails
  <2>3. CASE /\ Move(a, "call", "attempt") /\ attempt' = [attempt EXCEPT ![a] = 0]
             /\ UNCHANGED <<repairs, late, err, results>>
    <3>1. attempt' \in [Artifacts -> 0..(MaxAttempts - 1)]
      BY <2>3, GenerationAssumption DEF TypeOK
    <3> QED
      BY <2>1, <2>3, <3>1 DEF TypeOK, Move, Works, Leads
  <2> QED
    BY <1>3, <2>2, <2>3 DEF StartCall
<1>4. CASE StartAttempt(a)
  <2>1. at[a] = "attempt" /\ at' = [at EXCEPT ![a] = "send"] /\ ~Over(a)
        /\ UNCHANGED <<attempt, repairs, late, err, results>>
    BY <1>4 DEF StartAttempt, Go, Move
  <2> QED
    BY <2>1 DEF TypeOK, Works, Leads, Active
<1>5. CASE Send(a)
  <2>1. at[a] = "send" /\ at' = [at EXCEPT ![a] = "wire"] /\ CountLate(a)
        /\ UNCHANGED <<attempt, repairs, err, results>>
    BY <1>5 DEF Send, Move
  <2> QED
    BY <2>1 DEF TypeOK, Works, Leads, Active
<1>6. CASE Answer(a)
  <2>1. CASE Accepted(a)
    <3>1. PICK from \in {"wire", "last"} : Move(a, from, "valid")
      BY <2>1 DEF Accepted
    <3> QED
      BY <2>1, <3>1 DEF Accepted, Accepts, Leads, Move, Active, TypeOK
  <2>2. CASE Rejected(a)
    <3>1. PICK from \in {"wire", "last"} : Move(a, from, "repair")
      BY <2>2 DEF Rejected
    <3>2. repairs[a] < MaxRepairs /\ repairs' = [repairs EXCEPT ![a] = @ + 1]
          /\ UNCHANGED <<attempt, late, err, results>>
      BY <2>2 DEF Rejected
    <3>3. repairs' \in [Artifacts -> 0..MaxRepairs]
      BY <3>2, GenerationAssumption DEF TypeOK
    <3> QED
      BY <3>1, <3>2, <3>3 DEF Works, Leads, Move, Active, TypeOK
  <2>3. CASE Refused(a)
    <3>1. PICK from \in {"wire", "last"}, e \in {"no_text", "stop", "validation", "api"} : Fail(a, from, e)
      BY <2>3 DEF Refused
    <3>2. from \in Active /\ e \in Errors /\ e # "cancelled"
      BY DEF Active, Errors
    <3> QED
      BY <3>1, <3>2, FailFails
  <2>4. CASE Aborted(a)
    <3>1. PICK from \in {"wire", "last"} : Over(a) /\ Fail(a, from, "cancelled")
      BY <2>4 DEF Aborted
    <3>2. from \in Active /\ "cancelled" \in Errors
      BY DEF Active, Errors
    <3> QED
      BY <3>1, <3>2, FailFails
  <2>5. CASE Transient(a)
    <3>1. CASE attempt[a] + 1 < MaxAttempts
      <4>1. Move(a, "wire", "attempt") /\ attempt' = [attempt EXCEPT ![a] = @ + 1]
            /\ UNCHANGED <<repairs, late, err, results>>
        BY <2>5, <3>1 DEF Transient
      <4>2. attempt' \in [Artifacts -> 0..(MaxAttempts - 1)]
        BY <4>1, <3>1, GenerationAssumption DEF TypeOK
      <4> QED
        BY <4>1, <4>2 DEF Works, Leads, Move, Active, TypeOK
    <3>2. CASE ~(attempt[a] + 1 < MaxAttempts)
      <4>1. Fail(a, "wire", "api") /\ "wire" \in Active /\ "api" \in Errors
        BY <2>5, <3>2 DEF Transient, Active, Errors
      <4> QED
        BY <4>1, FailFails
    <3> QED
      BY <3>1, <3>2
  <2>6. CASE Uncache(a)
    <3>1. at[a] = "wire" /\ at' = [at EXCEPT ![a] = "last"] /\ CountLate(a)
          /\ UNCHANGED <<attempt, repairs, err, results>>
      BY <2>6 DEF Uncache, Move
    <3> QED
      BY <3>1 DEF TypeOK, Works, Leads, Active
  <2> QED
    BY <1>6, <2>1, <2>2, <2>3, <2>4, <2>5, <2>6 DEF Answer
<1>7. CASE Repair(a)
  <2>1. "repair" \in Active /\ "call" \in Active \ {"wire"}
    BY DEF Active
  <2> QED
    BY <1>7, <2>1, GoWorks DEF Repair
<1> QED
  BY <1>1, <1>2, <1>3, <1>4, <1>5, <1>6, <1>7 DEF generateOne

-----------------------------------------------------------------------------
(***************************************************************************)
(* The steps of generateOne keep the invariant.                            *)
(***************************************************************************)
Outside == <<main, delivered, outcome, cacheable, signalling>>

LEMMA ActiveIsEarly ==
  ASSUME GenInv, NEW a \in Artifacts, at[a] \in Active
  PROVE  /\ (main = "first" /\ a = "requirements") \/ (main = "second" /\ a \in Second)
         /\ outcome = Nil
         /\ at[a] \notin {"idle", "valid", "failed"}
<1>1. at[a] \notin {"idle", "valid", "failed"}
  BY DEF Active
<1>2. main \in {"start", "first", "handover", "second", "deliver", "done"}
  BY DEF GenInv, TypeOK
<1>3. a = "requirements" \/ a \in Second
  BY DEF Artifacts
<1>4. "requirements" \notin Second
  BY DEF Second
<1>5. main \notin {"start", "done"}
  BY <1>1 DEF GenInv, AtWork
<1>6. main # "handover" /\ main # "deliver"
  BY <1>1, <1>3 DEF GenInv, AtWork
<1>7. a = "requirements" => main # "second"
  BY <1>1 DEF GenInv, AtWork
<1>8. a \in Second => main # "first"
  BY <1>1 DEF GenInv, AtWork
<1>9. (main = "first" /\ a = "requirements") \/ (main = "second" /\ a \in Second)
  BY <1>2, <1>3, <1>5, <1>6, <1>7, <1>8
<1> QED
  BY <1>1, <1>9 DEF GenInv, Handed

LEMMA LeadsTypes ==
  ASSUME GenInv, NEW a \in Artifacts, NEW to \in Active \cup Ends, Leads(a, to), UNCHANGED Outside,
         late' \in [Artifacts -> Nat], err' \in Errors \cup {Nil}, results' \in Seq(Second)
  PROVE  TypeOK' /\ AtWork'
<1>1. TypeOK /\ AtWork /\ at[a] \in Active /\ at' = [at EXCEPT ![a] = to]
  BY DEF GenInv, Leads
<1>2. at' \in [Artifacts -> Places]
  BY <1>1 DEF TypeOK, Active, Ends, Places
<1>3. TypeOK'
  BY <1>1, <1>2 DEF TypeOK, Leads, Outside, signalling
<1>4. /\ (main = "first" /\ a = "requirements") \/ (main = "second" /\ a \in Second)
      /\ main' = main /\ "requirements" \notin Second
  BY <1>1, ActiveIsEarly DEF Outside, Second
<1>5. \A b \in Artifacts \ {a} : at'[b] = at[b]
  BY <1>1 DEF TypeOK
<1>6. CASE main = "first" /\ a = "requirements"
  <2>1. \A b \in Second : at'[b] = at[b] /\ at[b] = "idle"
    BY <1>1, <1>4, <1>5, <1>6 DEF AtWork, Artifacts
  <2>2. AtWork'
    BY <1>4, <1>6, <2>1 DEF AtWork
  <2> QED
    BY <1>3, <2>2
<1>7. CASE main = "second" /\ a \in Second
  <2>1. at'["requirements"] = "valid"
    BY <1>1, <1>4, <1>5, <1>7 DEF AtWork, Artifacts
  <2>2. AtWork'
    BY <1>4, <1>7, <2>1 DEF AtWork
  <2> QED
    BY <1>3, <2>2
<1> QED
  BY <1>4, <1>6, <1>7

\* Nothing is handed over while a generateOne is at work.
LEMMA LeadsHanded ==
  ASSUME GenInv, NEW a \in Artifacts, at[a] \in Active, UNCHANGED Outside,
         Len(results') \in Nat, Len(results) <= Len(results')
  PROVE  Handed'
<1>1. /\ (main = "first" /\ a = "requirements") \/ (main = "second" /\ a \in Second)
      /\ outcome = Nil
  BY ActiveIsEarly
<1>2. main' = main /\ delivered' = delivered /\ outcome' = outcome
  BY DEF Outside
<1>3. Handed /\ results \in Seq(Second)
  BY DEF GenInv, Arrived
<1>4. delivered = <<>> \/ delivered = <<"requirements">>
  BY <1>1, <1>3 DEF Handed
<1>5. Len(delivered) <= 1 /\ Len(results) \in Nat
  <2>1. Len(results) \in Nat
    BY <1>3
  <2>2. CASE delivered = <<>>
    BY <2>1, <2>2
  <2>3. CASE delivered = <<"requirements">>
    BY <2>1, <2>3
  <2> QED
    BY <1>4, <2>2, <2>3
<1>6. Nil \notin Errors \cup {"ok"}
  BY GenerationAssumption
<1>8. /\ delivered' \in Seq(Artifacts) /\ Len(delivered') <= Len(results') + 1
      /\ Len(delivered') >= 1 => delivered'[1] = "requirements"
      /\ \A i \in 2..Len(delivered') : FALSE
  BY <1>2, <1>3, <1>4, <1>5 DEF Handed
<1>9. /\ main' \in {"start", "first", "handover"} => delivered' = <<>>
      /\ main' = "second" => delivered' = <<"requirements">>
      /\ main' # "deliver" /\ main' # "done" /\ outcome' = Nil
  BY <1>1, <1>2, <1>3 DEF Handed
<1>10. /\ \A i \in 2..Len(delivered') : delivered'[i] = results'[i - 1]
       /\ ~(Len(delivered') > 1)
  BY <1>2, <1>5, <1>8
<1>11. outcome' \notin Errors /\ outcome' # "ok"
  BY <1>6, <1>9
<1> HIDE DEF Outside
<1> QED
  BY <1>8, <1>9, <1>10, <1>11 DEF Handed

LEMMA WorksStep ==
  ASSUME GenInv, NEW a \in Artifacts, NEW to \in Active, Works(a, to), UNCHANGED Outside
  PROVE  GenInv'
<1>1. /\ TypeOK /\ at[a] \in Active /\ at' = [at EXCEPT ![a] = to] /\ Leads(a, to)
      /\ err' = err /\ results' = results /\ at \in [Artifacts -> Places]
      /\ late \in [Artifacts -> Nat]
  BY DEF Works, Leads, GenInv, TypeOK
<1>2. /\ main' = main /\ outcome' = outcome /\ cancelled' = cancelled /\ delivered' = delivered
  BY DEF Outside, signalling
<1>3. \A b \in Artifacts : /\ b # a => at'[b] = at[b]
                           /\ b = a => at'[b] = to
                           /\ Over(b)' = Over(b)
  BY <1>1, <1>2 DEF Over
<1>4. late' \in [Artifacts -> Nat]
  BY <1>1 DEF Works, CountLate
<1>5. TypeOK' /\ AtWork'
  BY <1>1, <1>4, LeadsTypes DEF GenInv, TypeOK, Arrived
<1>6. \A b \in Artifacts : at'[b] \in {"valid", "failed"} <=> at[b] \in {"valid", "failed"}
  BY <1>1, <1>3 DEF Active
<1>7. \A b \in Artifacts : (at'[b] = "valid" <=> at[b] = "valid") /\ (at'[b] = "failed" <=> at[b] = "failed")
  BY <1>1, <1>3 DEF Active
<1>8. FirstErrors'
  BY <1>1, <1>2, <1>7 DEF GenInv, FirstErrors
<1>9. Arrived'
  BY <1>1, <1>7 DEF GenInv, Arrived, Artifacts
<1>10. Handed'
  <2>1. Len(results) \in Nat
    BY DEF GenInv, Arrived
  <2> QED
    BY <1>1, <2>1, LeadsHanded
<1>11. Late'
  <2> SUFFICES ASSUME NEW b \in Artifacts
               PROVE  /\ late'[b] <= 2
                      /\ ~Over(b) \/ at'[b] = "send" => late'[b] = 0
                      /\ at'[b] = "wire" => late'[b] <= 1
    BY <1>3 DEF Late
  <2>1. late[b] <= 2 /\ (~Over(b) \/ at[b] = "send" => late[b] = 0) /\ (at[b] = "wire" => late[b] <= 1)
        /\ late[b] \in Nat
    BY <1>1 DEF GenInv, Late
  <2>2. CASE b # a
    BY <2>1, <2>2, <1>1, <1>3 DEF Works, CountLate
  <2>3. CASE b = a
    <3>1. CASE UNCHANGED late /\ to \notin {"send", "wire"}
      BY <2>1, <2>3, <3>1, <1>3
    <3>2. CASE UNCHANGED late /\ to = "send" /\ ~Over(a)
      BY <2>1, <2>3, <3>2, <1>3
    <3>3. CASE CountLate(a) /\ to = "wire" /\ at[a] = "send"
      BY <2>1, <2>3, <3>3, <1>1, <1>3 DEF CountLate
    <3>4. CASE CountLate(a) /\ to = "last" /\ at[a] = "wire"
      BY <2>1, <2>3, <3>4, <1>1, <1>3 DEF CountLate
    <3> QED
      BY <3>1, <3>2, <3>3, <3>4 DEF Works
  <2> QED
    BY <2>2, <2>3
<1> QED
  BY <1>5, <1>8, <1>9, <1>10, <1>11 DEF GenInv

LEMMA AcceptsStep ==
  ASSUME GenInv, NEW a \in Artifacts, Accepts(a), UNCHANGED Outside
  PROVE  GenInv'
<1>1. /\ TypeOK /\ at[a] \in Active /\ at' = [at EXCEPT ![a] = "valid"] /\ Leads(a, "valid")
      /\ err' = err /\ late' = late /\ at \in [Artifacts -> Places]
      /\ results' = IF a \in Second THEN Append(results, a) ELSE results
  BY DEF Accepts, Leads, GenInv, TypeOK
<1>2. /\ main' = main /\ outcome' = outcome /\ cancelled' = cancelled /\ delivered' = delivered
  BY DEF Outside, signalling
<1>3. \A b \in Artifacts : /\ b # a => at'[b] = at[b]
                           /\ b = a => at'[b] = "valid"
                           /\ Over(b)' = Over(b)
  BY <1>1, <1>2 DEF Over
<1>4. results \in Seq(Second) /\ at[a] \notin {"valid", "failed"}
  BY <1>1, ActiveIsEarly DEF GenInv, Arrived
<1>5. a \notin Range(results)
  BY <1>4 DEF GenInv, Arrived
<1>6. Arrived'
  <2>1. CASE a \in Second
    <3>1. /\ results' = Append(results, a) /\ results' \in Seq(Second)
          /\ Range(results') = Range(results) \cup {a}
          /\ Len(results') = Len(results) + 1
          /\ \A i \in 1..Len(results) : results'[i] = results[i]
          /\ results'[Len(results) + 1] = a
      BY <2>1, <1>1, <1>4, RangeOfAppend
    <3>2. DOMAIN results = 1..Len(results) /\ DOMAIN results' = 1..(Len(results) + 1)
          /\ Len(results) \in Nat
      BY <3>1, <1>4
    <3>3. \A i \in 1..Len(results) : results[i] # a
      BY <3>2, <1>5 DEF Range
    <3>4. \A i, j \in DOMAIN results' : results'[i] = results'[j] => i = j
      BY <3>1, <3>2, <3>3 DEF GenInv, Arrived
    <3>5. Range(results') = {b \in Second : at'[b] = "valid"}
      BY <2>1, <3>1, <1>3 DEF GenInv, Arrived, Artifacts
    <3> QED
      BY <3>1, <3>4, <3>5 DEF Arrived
  <2>2. CASE a \notin Second
    BY <2>2, <1>1, <1>3 DEF GenInv, Arrived, Artifacts
  <2> QED
    BY <2>1, <2>2
<1>7. TypeOK' /\ AtWork'
  BY <1>1, <1>6, LeadsTypes DEF GenInv, TypeOK, Arrived, Ends
<1>8. FirstErrors'
  BY <1>1, <1>2, <1>3, <1>4 DEF GenInv, FirstErrors
<1>9. Handed'
  <2>1. Len(results) \in Nat /\ (a \in Second => Len(results') = Len(results) + 1)
    BY <1>1, <1>4, RangeOfAppend
  <2> QED
    BY <1>1, <2>1, LeadsHanded
<1>10. Late'
  BY <1>1, <1>3 DEF GenInv, Late
<1> QED
  BY <1>6, <1>7, <1>8, <1>9, <1>10 DEF GenInv

LEMMA FailsStep ==
  ASSUME GenInv, NEW a \in Artifacts, Fails(a), UNCHANGED Outside
  PROVE  GenInv'
<1>1. /\ TypeOK /\ at[a] \in Active /\ at' = [at EXCEPT ![a] = "failed"] /\ Leads(a, "failed")
      /\ results' = results /\ late' = late /\ at \in [Artifacts -> Places]
  BY DEF Fails, Leads, GenInv, TypeOK
<1>2. PICK e \in Errors : err' = FirstError(e) /\ (e = "cancelled" => Over(a))
  BY DEF Fails
<1>3. /\ main' = main /\ outcome' = outcome /\ cancelled' = cancelled /\ delivered' = delivered
  BY DEF Outside, signalling
<1>4. \A b \in Artifacts : /\ b # a => at'[b] = at[b]
                           /\ b = a => at'[b] = "failed"
  BY <1>1
<1>5. err' \in Errors /\ err' # Nil /\ (err # Nil => err' = err)
  BY <1>2, GenerationAssumption DEF FirstError, GenInv, TypeOK
<1>6. \A b \in Artifacts : Over(b) => Over(b)'
  BY <1>3, <1>5 DEF Over
<1>7. at[a] # "valid"
  BY <1>1, ActiveIsEarly
<1>8. FirstErrors'
  <2>1. ~cancelled => err' # "cancelled"
    BY <1>2, <1>5 DEF FirstError, Over, GenInv, FirstErrors
  <2> QED
    BY <2>1, <1>3, <1>4, <1>5 DEF GenInv, FirstErrors
<1>9. Arrived'
  BY <1>1, <1>4, <1>7 DEF GenInv, Arrived, Artifacts
<1>10. TypeOK' /\ AtWork'
  BY <1>1, <1>5, <1>9, LeadsTypes DEF GenInv, TypeOK, Arrived, Ends
<1>11. Handed'
  <2>1. Len(results) \in Nat
    BY DEF GenInv, Arrived
  <2> QED
    BY <1>1, <2>1, LeadsHanded
<1>12. Late'
  BY <1>1, <1>4, <1>6 DEF GenInv, Late
<1> QED
  BY <1>8, <1>9, <1>10, <1>11, <1>12 DEF GenInv

LEMMA GenerateStep ==
  ASSUME GenInv, NEW a \in Artifacts, generateOne(a) PROVE GenInv'
<1>1. UNCHANGED Outside
  BY DEF generateOne, Outside
<1>2. Accepts(a) \/ Fails(a) \/ \E to \in Active : Works(a, to)
  BY GenerateCases DEF GenInv
<1> QED
  BY <1>1, <1>2, AcceptsStep, FailsStep, WorksStep

-----------------------------------------------------------------------------
(***************************************************************************)
(* The steps of GenerateArtifacts.                                         *)
(***************************************************************************)
Still == <<attempt, repairs, late, err, results, cacheable, signalling>>

\* What most of them leave alone.
LEMMA StillStep ==
  ASSUME GenInv, UNCHANGED Still, UNCHANGED at,
         main' \in {"start", "first", "handover", "second", "deliver", "done"},
         outcome' \in Errors \cup {Nil, "ok", "panic"}, delivered' \in Seq(Artifacts),
         ~cancelled => outcome' # "cancelled"
  PROVE  TypeOK' /\ FirstErrors' /\ Arrived' /\ Late'
<1>1. /\ attempt' = attempt /\ repairs' = repairs /\ late' = late /\ err' = err /\ results' = results
      /\ cacheable' = cacheable /\ cancelled' = cancelled /\ handler' = handler
      /\ pending' = pending /\ signals' = signals /\ exited' = exited /\ at' = at
  BY DEF Still, signalling
<1>2. TypeOK'
  BY <1>1 DEF GenInv, TypeOK
<1>3. FirstErrors'
  BY <1>1 DEF GenInv, FirstErrors
<1>4. Arrived'
  BY <1>1 DEF GenInv, Arrived
<1>5. Late'
  BY <1>1 DEF GenInv, Late, Over
<1> QED
  BY <1>2, <1>3, <1>4, <1>5

LEMMA StartFirstStep ==
  ASSUME GenInv, StartFirst PROVE GenInv'
<1>1. /\ main = "start" /\ UNCHANGED Still /\ delivered' = delivered /\ results' = results
      /\ delivered = <<>> /\ (\A a \in Artifacts : at[a] = "idle") /\ outcome = Nil
      /\ delivered \in Seq(Artifacts)
  BY DEF StartFirst, Still, GenInv, Handed, AtWork, TypeOK
<1>2. Len(delivered) = 0 /\ Len(results) \in Nat
  BY <1>1 DEF GenInv, Arrived
<1>3. Nil \notin Errors \cup {"ok", "panic"} /\ "internal" \in Errors /\ "ok" \notin Errors
  BY GenerationAssumption DEF Errors
<1>4. CASE Return("internal") /\ UNCHANGED at
  <2>1. main' = "done" /\ outcome' = "internal" /\ at' = at
    BY <1>4 DEF Return
  <2>2. TypeOK' /\ FirstErrors' /\ Arrived' /\ Late'
    BY <1>1, <1>3, <2>1, StillStep
  <2>3. AtWork'
    BY <1>1, <2>1 DEF AtWork, Active
  <2>4. Handed'
    BY <1>1, <1>2, <1>3, <2>1 DEF Handed
  <2> QED
    BY <2>2, <2>3, <2>4 DEF GenInv
<1>5. CASE main' = "first" /\ at' = [at EXCEPT !["requirements"] = "begin"] /\ UNCHANGED outcome
  <2>1. at \in [Artifacts -> Places] /\ "requirements" \in Artifacts /\ "requirements" \notin Second
    BY DEF GenInv, TypeOK, Artifacts, Second
  <2>2. \A a \in Artifacts : /\ at'[a] \in {"idle", "begin"}
                             /\ a \in Second => at'[a] = "idle"
    BY <1>1, <1>5, <2>1
  <2>3. at' \in [Artifacts -> Places]
    BY <1>5, <2>1 DEF Places
  <2>4. /\ attempt' = attempt /\ repairs' = repairs /\ late' = late /\ err' = err
        /\ cacheable' = cacheable /\ cancelled' = cancelled /\ handler' = handler
        /\ pending' = pending /\ signals' = signals /\ exited' = exited
    BY <1>1 DEF Still, signalling
  <2>5. TypeOK'
    BY <1>1, <1>5, <2>3, <2>4 DEF GenInv, TypeOK
  <2>6. AtWork'
    BY <1>5, <2>2 DEF AtWork, Artifacts
  <2>7. FirstErrors'
    BY <1>1, <1>5, <2>2, <2>4 DEF GenInv, FirstErrors
  <2>8. Arrived'
    BY <1>1, <2>2 DEF GenInv, Arrived, Artifacts
  <2>9. Handed'
    BY <1>1, <1>2, <1>3, <1>5 DEF Handed
  <2>10. Late'
    BY <2>2, <2>4 DEF GenInv, Late, Over
  <2> QED
    BY <2>5, <2>6, <2>7, <2>8, <2>9, <2>10 DEF GenInv
<1> QED
  BY <1>4, <1>5 DEF StartFirst

LEMMA FirstEndsStep ==
  ASSUME GenInv, FirstEnds PROVE GenInv'
<1>1. /\ main = "first" /\ UNCHANGED Still /\ at' = at /\ delivered' = delivered /\ results' = results
      /\ delivered = <<>> /\ (\A a \in Second : at[a] = "idle") /\ outcome = Nil
      /\ delivered \in Seq(Artifacts)
  BY DEF FirstEnds, generators, Still, GenInv, Handed, AtWork, TypeOK
<1>2. Len(delivered) = 0 /\ Len(results) \in Nat
  BY <1>1 DEF GenInv, Arrived
<1>3. Nil \notin Errors \cup {"ok", "panic"} /\ "ok" \notin Errors /\ "requirements" \in Artifacts
  BY GenerationAssumption DEF Errors, Artifacts
<1>4. CASE at["requirements"] = "failed" /\ Return(err)
  <2>1. main' = "done" /\ outcome' = err /\ err # Nil /\ err \in Errors
    BY <1>3, <1>4 DEF Return, GenInv, FirstErrors, TypeOK
  <2>2. ~cancelled => outcome' # "cancelled"
    BY <2>1 DEF GenInv, FirstErrors
  <2>3. TypeOK' /\ FirstErrors' /\ Arrived' /\ Late'
    BY <1>1, <2>1, <2>2, StillStep
  <2>4. AtWork'
    BY <1>1, <1>4, <2>1 DEF AtWork, Active, Artifacts
  <2>5. Handed'
    BY <1>1, <1>2, <1>3, <2>1 DEF Handed
  <2> QED
    BY <2>3, <2>4, <2>5 DEF GenInv
<1>5. CASE at["requirements"] = "valid" /\ main' = "handover" /\ UNCHANGED outcome
  <2>1. TypeOK' /\ FirstErrors' /\ Arrived' /\ Late'
    <3>1. Nil # "cancelled"
      BY <1>3 DEF Errors
    <3> QED
      BY <1>1, <1>5, <3>1, StillStep
  <2>2. AtWork'
    BY <1>1, <1>5 DEF AtWork
  <2>3. Handed'
    BY <1>1, <1>2, <1>3, <1>5 DEF Handed
  <2> QED
    BY <2>1, <2>2, <2>3 DEF GenInv
<1> QED
  BY <1>4, <1>5 DEF FirstEnds

LEMMA StartSecondStep ==
  ASSUME GenInv, StartSecond PROVE GenInv'
<1>1. /\ main = "handover" /\ UNCHANGED Still /\ results' = results
      /\ delivered = <<>> /\ (\A a \in Second : at[a] = "idle") /\ at["requirements"] = "valid"
      /\ outcome = Nil
  BY DEF StartSecond, Still, GenInv, Handed, AtWork
<1>2. Append(delivered, "requirements") = <<"requirements">> /\ "requirements" \in Artifacts
  BY <1>1 DEF Artifacts
<1>3. /\ delivered' \in {<<>>, <<"requirements">>}
      /\ \/ outcome' = Nil /\ delivered' = <<"requirements">>
         \/ outcome' = "panic" /\ main' = "done"
  BY <1>1, <1>2 DEF StartSecond, safeCallback, Return
<1>4. /\ delivered' \in Seq(Artifacts) /\ Len(delivered') <= 1 /\ Len(delivered') \in Nat
      /\ Len(delivered') >= 1 => delivered'[1] = "requirements"
  <2>1. CASE delivered' = <<>>
    BY <2>1
  <2>2. CASE delivered' = <<"requirements">>
    BY <2>2, <1>2
  <2> QED
    BY <2>1, <2>2, <1>3
<1>5. Nil \notin Errors \cup {"ok", "panic"} /\ "panic" \notin Errors /\ "cancelled" \in Errors
  BY GenerationAssumption DEF Errors
<1>6. Len(results) \in Nat
  BY DEF GenInv, Arrived
<1>7. CASE outcome' = Nil
  <2>1. /\ main' = "second" /\ delivered' = <<"requirements">>
        /\ at' = [a \in Artifacts |-> IF a \in Second THEN "begin" ELSE at[a]]
    BY <1>3, <1>5, <1>7 DEF StartSecond
  <2>2. at \in [Artifacts -> Places] /\ "requirements" \notin Second /\ Second \subseteq Artifacts
    BY DEF GenInv, TypeOK, Artifacts, Second
  <2>3. /\ \A a \in Second : at'[a] = "begin"
        /\ \A a \in Artifacts : a \in Second \/ at'[a] = at[a]
        /\ at'["requirements"] = "valid"
    BY <1>1, <1>2, <2>1, <2>2
  <2>4. at' \in [Artifacts -> Places]
    BY <2>1, <2>2 DEF Places
  <2>5. /\ attempt' = attempt /\ repairs' = repairs /\ late' = late /\ err' = err
        /\ cacheable' = cacheable /\ cancelled' = cancelled /\ handler' = handler
        /\ pending' = pending /\ signals' = signals /\ exited' = exited
    BY <1>1 DEF Still, signalling
  <2>6. TypeOK'
    BY <1>1, <1>4, <1>7, <2>1, <2>4, <2>5 DEF GenInv, TypeOK
  <2>7. AtWork'
    BY <2>1, <2>3 DEF AtWork
  <2>8. FirstErrors'
    BY <1>1, <1>5, <1>7, <2>2, <2>3, <2>5 DEF GenInv, FirstErrors
  <2>9. Arrived'
    BY <1>1, <2>2, <2>3 DEF GenInv, Arrived
  <2>10. Handed'
    BY <1>1, <1>4, <1>5, <1>6, <1>7, <2>1 DEF Handed
  <2>11. Late'
    BY <2>2, <2>3, <2>5 DEF GenInv, Late, Over
  <2> QED
    BY <2>6, <2>7, <2>8, <2>9, <2>10, <2>11 DEF GenInv
<1>8. CASE outcome' = "panic" /\ main' = "done"
  <2>1. at' = at
    BY <1>5, <1>8 DEF StartSecond
  <2>2. TypeOK' /\ FirstErrors' /\ Arrived' /\ Late'
    BY <1>1, <1>4, <1>5, <1>8, <2>1, StillStep
  <2>3. AtWork'
    BY <1>1, <1>8, <2>1 DEF AtWork, Active, Artifacts
  <2>4. Handed'
    BY <1>1, <1>4, <1>5, <1>6, <1>8 DEF Handed
  <2> QED
    BY <2>2, <2>3, <2>4 DEF GenInv
<1> QED
  BY <1>3, <1>7, <1>8

LEMMA WaitStep ==
  ASSUME GenInv, Wait PROVE GenInv'
<1>1. /\ main = "second" /\ UNCHANGED Still /\ at' = at /\ delivered' = delivered
      /\ results' = results /\ delivered = <<"requirements">> /\ at["requirements"] = "valid"
      /\ outcome = Nil /\ delivered \in Seq(Artifacts)
      /\ \A a \in Second : at[a] \in {"valid", "failed"}
  BY DEF Wait, generators, Still, GenInv, Handed, AtWork, TypeOK
<1>2. /\ Len(delivered) = 1 /\ delivered[1] = "requirements"
      /\ Len(results) \in Nat
  BY <1>1 DEF GenInv, Arrived
<1>3. Nil \notin Errors \cup {"ok", "panic"} /\ "ok" \notin Errors /\ "cancelled" \in Errors
  BY GenerationAssumption DEF Errors
<1>4. CASE err # Nil /\ Return(err)
  <2>1. main' = "done" /\ outcome' = err /\ err \in Errors /\ err # Nil
    BY <1>4 DEF Return, GenInv, TypeOK
  <2>2. ~cancelled => outcome' # "cancelled"
    BY <2>1 DEF GenInv, FirstErrors
  <2>3. TypeOK' /\ FirstErrors' /\ Arrived' /\ Late'
    BY <1>1, <2>1, <2>2, StillStep
  <2>4. AtWork'
    BY <1>1, <2>1 DEF AtWork, Active, Artifacts
  <2>5. Handed'
    BY <1>1, <1>2, <1>3, <2>1 DEF Handed
  <2> QED
    BY <2>3, <2>4, <2>5 DEF GenInv
<1>5. CASE err = Nil /\ main' = "deliver" /\ UNCHANGED outcome
  <2>1. \A a \in Second : at[a] = "valid"
    BY <1>1, <1>5 DEF GenInv, FirstErrors, Artifacts
  <2>2. Nil # "cancelled"
    BY <1>3
  <2>3. TypeOK' /\ FirstErrors' /\ Arrived' /\ Late'
    BY <1>1, <1>5, <2>2, StillStep
  <2>4. AtWork'
    BY <1>1, <1>5, <2>1 DEF AtWork
  <2>5. Handed'
    BY <1>1, <1>2, <1>3, <1>5 DEF Handed
  <2> QED
    BY <2>3, <2>4, <2>5 DEF GenInv
<1> QED
  BY <1>4, <1>5 DEF Wait

LEMMA AllValid ==
  ASSUME GenInv, main = "deliver" PROVE \A a \in Artifacts : at[a] = "valid"
BY DEF GenInv, AtWork, Artifacts

LEMMA DeliverStep ==
  ASSUME GenInv, Deliver PROVE GenInv'
<1>1. /\ main = "deliver" /\ UNCHANGED Still /\ at' = at /\ results' = results
      /\ outcome = Nil /\ delivered \in Seq(Artifacts) /\ results \in Seq(Second)
      /\ Len(delivered) <= Len(results) /\ Len(delivered) >= 1 /\ delivered[1] = "requirements"
      /\ \A i \in 2..Len(delivered) : delivered[i] = results[i - 1]
  BY DEF Deliver, generators, Still, GenInv, Handed, TypeOK, Arrived
<1> DEFINE n == Len(delivered)
           a == results[n]
<1>2. n \in Nat /\ Len(results) \in Nat /\ a \in Artifacts
  BY <1>1 DEF Artifacts
<1>3. Nil \notin Errors \cup {"ok", "panic"} /\ "panic" \notin Errors /\ "cancelled" \in Errors
  BY GenerationAssumption DEF Errors
<1>4. /\ delivered' \in {delivered, Append(delivered, a)}
      /\ \/ outcome' = Nil /\ main' = "deliver"
         \/ outcome' = "panic" /\ main' = "done"
  BY <1>1, <1>3 DEF Deliver, safeCallback, Return
<1>5. /\ delivered' \in Seq(Artifacts) /\ Len(delivered') \in {n, n + 1}
      /\ \A i \in 1..n : delivered'[i] = delivered[i]
      /\ Len(delivered') = n + 1 => delivered'[n + 1] = a
  <2>1. CASE delivered' = delivered
    BY <2>1, <1>1, <1>2
  <2>2. CASE delivered' = Append(delivered, a)
    BY <2>2, <1>1, <1>2, RangeOfAppend
  <2> QED
    BY <2>1, <2>2, <1>4
<1> HIDE DEF a
<1>6. /\ Len(delivered') >= 1 /\ delivered'[1] = "requirements"
      /\ Len(delivered') <= Len(results) + 1
      /\ \A i \in 2..Len(delivered') : delivered'[i] = results[i - 1]
  <2>1. ASSUME NEW i \in 2..Len(delivered') PROVE delivered'[i] = results[i - 1]
    <3>1. CASE i \in 1..n
      BY <3>1, <1>1, <1>5
    <3>2. CASE i = n + 1
      BY <3>2, <2>1, <1>2, <1>5 DEF a
    <3> QED
      BY <3>1, <3>2, <1>2, <1>5
  <2> QED
    BY <2>1, <1>1, <1>2, <1>5
<1>7. TypeOK' /\ FirstErrors' /\ Arrived' /\ Late'
  BY <1>1, <1>3, <1>4, <1>5, StillStep
<1>8. \A b \in Artifacts : at'[b] = "valid"
  BY <1>1, AllValid
<1>9. AtWork'
  BY <1>4, <1>8 DEF AtWork, Active, Artifacts
<1>10. Handed'
  BY <1>1, <1>3, <1>4, <1>5, <1>6, <1>8 DEF Handed
<1> QED
  BY <1>7, <1>9, <1>10 DEF GenInv

LEMMA FinishStep ==
  ASSUME GenInv, Finish PROVE GenInv'
<1>1. /\ main = "deliver" /\ UNCHANGED Still /\ at' = at /\ results' = results
      /\ delivered' = delivered /\ delivered \in Seq(Artifacts) /\ results \in Seq(Second)
      /\ Len(delivered) > Len(results) /\ Len(delivered) <= Len(results) + 1
      /\ main' = "done" /\ outcome' = "ok"
  BY DEF Finish, Return, generators, Still, GenInv, Handed, TypeOK, Arrived
<1>2. Nil \notin Errors \cup {"ok", "panic"} /\ "ok" \notin Errors /\ "ok" # "cancelled"
  BY GenerationAssumption DEF Errors
<1>3. TypeOK' /\ FirstErrors' /\ Arrived' /\ Late'
  BY <1>1, <1>2, StillStep
<1>4. \A b \in Artifacts : at'[b] = "valid"
  BY <1>1, AllValid
<1>5. AtWork'
  BY <1>1, <1>4 DEF AtWork, Active, Artifacts
<1>6. Len(delivered) = Len(results) + 1
  BY <1>1
<1>7. Handed'
  BY <1>1, <1>2, <1>4, <1>6 DEF Handed, GenInv
<1> QED
  BY <1>3, <1>5, <1>7 DEF GenInv

-----------------------------------------------------------------------------
(***************************************************************************)
(* Signals: the context is only ever cancelled.                            *)
(***************************************************************************)
LEMMA SignalStep ==
  ASSUME GenInv, signalCtx \/ Interrupt PROVE GenInv'
<1>1. /\ main' = main /\ at' = at /\ attempt' = attempt /\ repairs' = repairs /\ late' = late
      /\ err' = err /\ results' = results /\ delivered' = delivered /\ outcome' = outcome
      /\ cacheable' = cacheable
  BY DEF signalCtx, CancelOnSignal, ExitOnSignal, StopListening, Interrupt, program, generators
<1>2. cancelled' \in BOOLEAN /\ (cancelled => cancelled')
  BY DEF signalCtx, CancelOnSignal, ExitOnSignal, StopListening, Interrupt, GenInv, TypeOK
<1>3. exited' \in BOOLEAN
  BY DEF signalCtx, CancelOnSignal, ExitOnSignal, StopListening, Interrupt, GenInv, TypeOK
<1>4. handler' \in {"first", "second", "gone"} /\ pending' \in 0..2 /\ signals' \in Nat
  BY DEF signalCtx, CancelOnSignal, ExitOnSignal, StopListening, Interrupt, GenInv, TypeOK
<1>5. TypeOK'
  BY <1>1, <1>2, <1>3, <1>4 DEF GenInv, TypeOK
<1>6. AtWork' /\ Arrived' /\ Handed'
  BY <1>1 DEF GenInv, AtWork, Arrived, Handed
<1>7. FirstErrors'
  BY <1>1, <1>2 DEF GenInv, FirstErrors
<1>8. \A a \in Artifacts : Over(a) => Over(a)'
  BY <1>1, <1>2 DEF Over
<1>9. Late'
  BY <1>1, <1>8 DEF GenInv, Late
<1> QED
  BY <1>5, <1>6, <1>7, <1>9 DEF GenInv

LEMMA GenStep == GenInv /\ [Next]_vars => GenInv'
<1> SUFFICES ASSUME GenInv, [Next]_vars PROVE GenInv'
  OBVIOUS
<1>1. CASE GenerateArtifacts
  BY <1>1, StartFirstStep, FirstEndsStep, StartSecondStep, WaitStep, DeliverStep, FinishStep
     DEF GenerateArtifacts
<1>2. CASE Generators
  BY <1>2, GenerateStep DEF Generators
<1>3. CASE signalCtx \/ Interrupt
  BY <1>3, SignalStep
<1>4. CASE UNCHANGED vars
  <2>1. TypeOK' /\ AtWork' /\ FirstErrors'
    BY <1>4 DEF vars, GenInv, TypeOK, AtWork, FirstErrors
  <2>2. Arrived' /\ Handed' /\ Late'
    BY <1>4 DEF vars, GenInv, Arrived, Handed, Late, Over
  <2> QED
    BY <2>1, <2>2 DEF GenInv
<1> QED
  BY <1>1, <1>2, <1>3, <1>4 DEF Next

LEMMA GenInvariance == Spec => []GenInv
<1> QED
  BY GenInit, GenStep, PTL DEF Spec

LEMMA TwoAreSecond ==
  ASSUME Arrived, \A a \in Second : at[a] = "valid"
  PROVE  Range(results) = Second /\ Len(results) = 2
<1>1. Range(results) = Second
  BY DEF Arrived
<1>2. Cardinality(Range(results)) = Len(results)
  BY LengthOfRange DEF Arrived
<1>3. Cardinality(Second) = 2
  <2>1. IsFiniteSet({"test_spec"}) /\ Cardinality({"test_spec"}) = 1
    BY FS_Singleton
  <2>2. Cardinality({"test_spec"} \cup {"tasks"}) = 2
    BY <2>1, FS_AddElement
  <2>3. Second = {"test_spec"} \cup {"tasks"}
    BY DEF Second
  <2> QED
    BY <2>2, <2>3
<1> QED
  BY <1>1, <1>2, <1>3

LEMMA WholeOrFirst == GenInv => NoPartialResult
<1> SUFFICES ASSUME GenInv PROVE NoPartialResult
  OBVIOUS
<1>1. Handed /\ Arrived /\ "requirements" \notin Second /\ Artifacts = {"requirements"} \cup Second
  BY DEF GenInv, Second, Artifacts
<1>2. /\ DOMAIN delivered = 1..Len(delivered) /\ Len(delivered) \in Nat
      /\ DOMAIN results = 1..Len(results) /\ Len(results) \in Nat
  BY <1>1 DEF Handed, Arrived
<1>3. /\ delivered \in Seq(Artifacts)
      /\ Len(delivered) >= 1 => delivered[1] = "requirements"
      /\ outcome \in Errors => Len(delivered) <= 1
  BY <1>1 DEF Handed
<1>8. delivered # <<>> => delivered[1] = "requirements"
  BY <1>3
<1>4. Range(delivered) \cap Second # {} => Len(delivered) > 1
  <2> SUFFICES ASSUME NEW i \in 1..Len(delivered), delivered[i] \in Second PROVE Len(delivered) > 1
    BY <1>2 DEF Range
  <2>1. i # 1
    BY <1>1, <1>2, <1>3
  <2> QED
    BY <2>1, <1>2
<1>5. Range(delivered) \cap Second # {} => \A a \in Artifacts : at[a] = "valid"
  BY <1>1, <1>4 DEF Handed
<1>6. outcome = "ok" => Range(delivered) = Artifacts /\ Len(delivered) = 3
  <2> SUFFICES ASSUME outcome = "ok" PROVE Range(delivered) = Artifacts /\ Len(delivered) = 3
    OBVIOUS
  <2>1. Len(delivered) = Len(results) + 1 /\ \A a \in Second : at[a] = "valid"
    BY <1>1 DEF Handed
  <2>2. Range(results) = Second /\ Len(results) = 2
    BY <1>1, <2>1, TwoAreSecond
  <2>3. delivered[1] = "requirements" /\ delivered[2] = results[1] /\ delivered[3] = results[2]
    BY <1>1, <2>1, <2>2 DEF Handed
  <2>4. DOMAIN delivered = {1, 2, 3} /\ DOMAIN results = {1, 2}
    BY <1>2, <2>1, <2>2
  <2>5. Range(delivered) = {delivered[1], delivered[2], delivered[3]}
    BY <2>4 DEF Range
  <2>6. Range(results) = {results[1], results[2]}
    BY <2>4 DEF Range
  <2> QED
    BY <1>1, <2>1, <2>2, <2>3, <2>5, <2>6
<1>7. outcome \in Errors => Range(delivered) \cap Second = {}
  BY <1>2, <1>3, <1>4
<1> QED
  BY <1>5, <1>6, <1>7, <1>8 DEF NoPartialResult

(***************************************************************************)
(* The types of ArtifactGeneration: attempts and repairs stay in bounds.   *)
(***************************************************************************)
THEOREM GenerationTypes == Spec => []TypeOK
<1>1. GenInv => TypeOK
  BY DEF GenInv
<1> QED
  BY <1>1, GenInvariance, PTL

(***************************************************************************)
(* OnArtifact gets all three artifacts, or those before the two concurrent *)
(* ones, whatever the service answers and whenever a signal comes.         *)
(***************************************************************************)
THEOREM NothingPartial == Spec => []NoPartialResult
<1> QED
  BY GenInvariance, WholeOrFirst, PTL

(***************************************************************************)
(* GenerateArtifacts leaves nothing running behind.                        *)
(***************************************************************************)
THEOREM NothingStaysBehind == Spec => []NoStragglers
<1>1. GenInv => NoStragglers
  BY DEF GenInv, AtWork, TypeOK, Places, Active, NoStragglers
<1> QED
  BY <1>1, GenInvariance, PTL

(***************************************************************************)
(* The error returned is a cause: a cancellation only when there was one.  *)
(***************************************************************************)
THEOREM CauseIsReturned == Spec => []ErrorIsTheCause
<1>1. GenInv => ErrorIsTheCause
  BY DEF GenInv, FirstErrors, ErrorIsTheCause
<1> QED
  BY <1>1, GenInvariance, PTL

(***************************************************************************)
(* At most two requests of one generateOne are sent when it is over.       *)
(***************************************************************************)
THEOREM CancellationStopsCalls == Spec => []CancelStopsCalls
<1>1. GenInv => CancelStopsCalls
  BY DEF GenInv, Late, CancelStopsCalls
<1> QED
  BY <1>1, GenInvariance, PTL
=============================================================================
