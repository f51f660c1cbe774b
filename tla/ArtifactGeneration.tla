------------------------ MODULE ArtifactGeneration ------------------------
(***************************************************************************)
(* SpecAgent.GenerateArtifacts (agentspec/agent.go): the requirements      *)
(* first, then test_spec and tasks at the same time in an errgroup, each   *)
(* with a loop of repairs around AICall (agentspec/ai_call.go), which has  *)
(* a loop of attempts of its own.  The context is cancelled by a signal    *)
(* (cmd/spec/signal.go) and, for the two, by the first error of either.    *)
(*                                                                         *)
(* The model service answers a request with anything at any time, also     *)
(* after the context has been cancelled.                                   *)
(***************************************************************************)
EXTENDS Integers, Sequences, FiniteSets, Functions

CONSTANTS Nil,
          MaxAttempts,  \* len(RetryDelays) + 1: requests of one AICall
          MaxRepairs,   \* maxRepairs: AICalls after the first
          MaxSignals    \* bound on the signals sent

Errors == {"internal", "config", "validation", "no_text", "stop", "api", "cancelled"}

ASSUME GenerationAssumption ==
  /\ MaxAttempts \in Nat \ {0} /\ MaxRepairs \in Nat /\ MaxSignals \in Nat
  /\ Nil \notin Errors \cup {"ok", "panic"}

Second    == {"test_spec", "tasks"}
Artifacts == {"requirements"} \cup Second

VARIABLES main,       \* where GenerateArtifacts is
          at,         \* where each generateOne is
          attempt, repairs,
          late,       \* requests it sent with its context already cancelled
          err,        \* the first error: of the requirements, then of the errgroup
          results,    \* the artifacts of the errgroup, as they were finished
          delivered,  \* the artifacts handed to OnArtifact
          outcome,    \* Nil, "ok", or the error returned
          cacheable,  \* does the system prompt carry cache_control
          cancelled,  \* the context of the command
          handler, pending, signals,  \* the signal goroutine, its channel, the sender
          exited      \* the process is gone

generators == <<at, attempt, repairs, late>>
signalling == <<cancelled, handler, pending, signals, exited>>
vars == <<main, at, attempt, repairs, late, err, results, delivered, outcome, cacheable,
          cancelled, handler, pending, signals, exited>>

Init ==
  /\ main = "start" /\ at = [a \in Artifacts |-> "idle"]
  /\ attempt = [a \in Artifacts |-> 0] /\ repairs = [a \in Artifacts |-> 0]
  /\ late = [a \in Artifacts |-> 0]
  /\ err = Nil /\ results = <<>> /\ delivered = <<>> /\ outcome = Nil
  /\ cacheable \in BOOLEAN
  /\ cancelled = FALSE /\ handler = "first" /\ pending = 0 /\ signals = 0 /\ exited = FALSE

\* Is the context of this generateOne over?  The errgroup cancels its own with the error.
Over(a) == cancelled \/ (a \in Second /\ err # Nil)

-----------------------------------------------------------------------------
(***************************************************************************)
(* generateOne and AICall.                                                 *)
(***************************************************************************)
Move(a, from, to) == ~exited /\ at[a] = from /\ at' = [at EXCEPT ![a] = to]

\* Variant: the last error is kept.
LastError(e) == e

FirstError(e) == IF err = Nil THEN e ELSE err

Fail(a, from, e) ==
  /\ Move(a, from, "failed")
  /\ err' = FirstError(e)
  /\ UNCHANGED <<attempt, repairs, late, results>>

Go(a, from, to) ==
  ~Over(a) /\ Move(a, from, to) /\ UNCHANGED <<attempt, repairs, late, err, results>>

\* The three checks of the context: before the prompt is built, in AICall, before an attempt.
Check(a) ==
  \E from \in {"begin", "call", "attempt", "repair"} : Over(a) /\ Fail(a, from, "cancelled")

BuildPrompt(a) == Go(a, "begin", "call") \/ (~Over(a) /\ Fail(a, "begin", "internal"))

\* Variant: the attempts go on counting.
StartCallOn(a) ==
  \/ /\ ~Over(a) /\ Move(a, "call", "attempt")
     /\ attempt' = [attempt EXCEPT ![a] = @ + 1]
     /\ UNCHANGED <<repairs, late, err, results>>
  \/ ~Over(a) /\ Fail(a, "call", "config")

StartCall(a) ==
  \/ /\ ~Over(a) /\ Move(a, "call", "attempt")
     /\ attempt' = [attempt EXCEPT ![a] = 0]
     /\ UNCHANGED <<repairs, late, err, results>>
  \/ ~Over(a) /\ Fail(a, "call", "config")

\* The check comes before the sleep, so what follows may find the context over.
\* Variant: the context is looked at only when AICall begins.
StartAttemptAnyway(a) == Move(a, "attempt", "send") /\ UNCHANGED <<attempt, repairs, late, err, results>>

StartAttempt(a) == Go(a, "attempt", "send")

CountLate(a) == late' = [late EXCEPT ![a] = @ + IF Over(a) THEN 1 ELSE 0]

Send(a) == Move(a, "send", "wire") /\ CountLate(a) /\ UNCHANGED <<attempt, repairs, err, results>>

\* An answer with text and the tool call: checkStopReason and validateArtifactContent.
Accepted(a) ==
  /\ \E from \in {"wire", "last"} : Move(a, from, "valid")
  /\ results' = IF a \in Second THEN Append(results, a) ELSE results
  /\ UNCHANGED <<attempt, repairs, late, err>>

Rejected(a) ==
  /\ repairs[a] < MaxRepairs
  /\ \E from \in {"wire", "last"} : Move(a, from, "repair")
  /\ repairs' = [repairs EXCEPT ![a] = @ + 1]
  /\ UNCHANGED <<attempt, late, err, results>>

Repair(a) == Go(a, "repair", "call")

\* Answers that end it: no text block, a stop reason, no repair left, an error for good.
Refused(a) ==
  \E from \in {"wire", "last"}, e \in {"no_text", "stop", "validation", "api"} :
    /\ e = "validation" => repairs[a] = MaxRepairs
    /\ Fail(a, from, e)

\* CreateMessage returns the error of its context, which is not retried.
Aborted(a) == Over(a) /\ \E from \in {"wire", "last"} : Fail(a, from, "cancelled")

\* Variant: a transient error is retried as long as it takes.
TransientForever(a) == Move(a, "wire", "attempt") /\ UNCHANGED <<attempt, repairs, late, err, results>>

Transient(a) ==
  IF attempt[a] + 1 < MaxAttempts
  THEN /\ Move(a, "wire", "attempt")
       /\ attempt' = [attempt EXCEPT ![a] = @ + 1]
       /\ UNCHANGED <<repairs, late, err, results>>
  ELSE Fail(a, "wire", "api")

\* A rejection of cache_control: sent again at once, without it and without a check.
Uncache(a) ==
  /\ cacheable
  /\ Move(a, "wire", "last") /\ CountLate(a)
  /\ UNCHANGED <<attempt, repairs, err, results>>

Answer(a) == Accepted(a) \/ Rejected(a) \/ Refused(a) \/ Aborted(a) \/ Transient(a) \/ Uncache(a)

generateOne(a) ==
  /\ Check(a) \/ BuildPrompt(a) \/ StartCall(a) \/ StartAttempt(a) \/ Send(a) \/ Answer(a) \/ Repair(a)
  /\ UNCHANGED <<main, delivered, outcome, cacheable, signalling>>

-----------------------------------------------------------------------------
(***************************************************************************)
(* GenerateArtifacts.                                                      *)
(***************************************************************************)
Return(o) == main' = "done" /\ outcome' = o

\* The system prompt cannot be loaded, or the requirements are begun.
StartFirst ==
  /\ main = "start" /\ ~exited
  /\ \/ Return("internal") /\ UNCHANGED at
     \/ main' = "first" /\ at' = [at EXCEPT !["requirements"] = "begin"] /\ UNCHANGED outcome
  /\ UNCHANGED <<attempt, repairs, late, err, results, delivered, cacheable, signalling>>

FirstEnds ==
  /\ main = "first" /\ ~exited
  /\ \/ at["requirements"] = "failed" /\ Return(err)
     \/ at["requirements"] = "valid" /\ main' = "handover" /\ UNCHANGED outcome
  /\ UNCHANGED <<generators, err, results, delivered, cacheable, signalling>>

\* safeCallback: a panic, before or after the artifact was taken, becomes an error.
safeCallback(a) ==
  \/ delivered' = Append(delivered, a) /\ UNCHANGED outcome
  \/ delivered' \in {delivered, Append(delivered, a)} /\ Return("panic")

StartSecond ==
  /\ main = "handover" /\ ~exited
  /\ safeCallback("requirements")
  /\ IF outcome' = Nil
     THEN /\ main' = "second"
          /\ at' = [a \in Artifacts |-> IF a \in Second THEN "begin" ELSE at[a]]
     ELSE UNCHANGED at
  /\ UNCHANGED <<attempt, repairs, late, err, results, cacheable, signalling>>

\* Variant: the first of the two to end is enough.
WaitForOne ==
  /\ main = "second" /\ ~exited
  /\ \E a \in Second : at[a] \in {"valid", "failed"}
  /\ IF err # Nil THEN Return(err) ELSE main' = "deliver" /\ UNCHANGED outcome
  /\ UNCHANGED <<generators, err, results, delivered, cacheable, signalling>>

\* Variant: an error is not looked at.
WaitForBoth ==
  /\ main = "second" /\ ~exited
  /\ \A a \in Second : at[a] \in {"valid", "failed"}
  /\ main' = "deliver"
  /\ UNCHANGED <<outcome, generators, err, results, delivered, cacheable, signalling>>

\* g.Wait comes back when both have ended, with the first error.
Wait ==
  /\ main = "second" /\ ~exited
  /\ \A a \in Second : at[a] \in {"valid", "failed"}
  /\ IF err # Nil THEN Return(err) ELSE main' = "deliver" /\ UNCHANGED outcome
  /\ UNCHANGED <<generators, err, results, delivered, cacheable, signalling>>

Deliver ==
  /\ main = "deliver" /\ ~exited /\ Len(delivered) <= Len(results)
  /\ safeCallback(results[Len(delivered)])
  /\ outcome' = Nil => main' = main
  /\ UNCHANGED <<generators, err, results, cacheable, signalling>>

Finish ==
  /\ main = "deliver" /\ ~exited /\ Len(delivered) > Len(results)
  /\ Return("ok")
  /\ UNCHANGED <<generators, err, results, delivered, cacheable, signalling>>

GenerateArtifacts ==
  StartFirst \/ FirstEnds \/ StartSecond \/ Wait \/ Deliver \/ Finish

-----------------------------------------------------------------------------
(***************************************************************************)
(* signalCtx: a goroutine that waits for a signal, cancels the context,    *)
(* and waits for a second one or for the end of the context, which is over *)
(* already.  When it is gone a signal has its default effect again.        *)
(***************************************************************************)
program == <<main, generators, err, results, delivered, outcome, cacheable>>

Interrupt ==
  /\ signals < MaxSignals /\ ~exited /\ main # "done"
  /\ signals' = signals + 1
  /\ IF handler = "gone" THEN exited' = TRUE /\ UNCHANGED pending
     ELSE pending' = (IF pending = 2 THEN 2 ELSE pending + 1) /\ UNCHANGED exited
  /\ UNCHANGED <<program, cancelled, handler>>

CancelOnSignal ==
  /\ handler = "first" /\ pending > 0 /\ ~exited
  /\ pending' = pending - 1 /\ cancelled' = TRUE /\ handler' = "second"
  /\ UNCHANGED <<program, signals, exited>>

ExitOnSignal ==
  /\ handler = "second" /\ pending > 0 /\ ~exited
  /\ pending' = pending - 1 /\ exited' = TRUE
  /\ UNCHANGED <<program, cancelled, handler, signals>>

StopListening ==
  /\ handler = "second" /\ ~exited
  /\ handler' = "gone"
  /\ UNCHANGED <<program, cancelled, pending, signals, exited>>

signalCtx == CancelOnSignal \/ ExitOnSignal \/ StopListening

-----------------------------------------------------------------------------
Generators == \E a \in Artifacts : generateOne(a)

Next == GenerateArtifacts \/ Generators \/ signalCtx \/ Interrupt

\* Every goroutine runs on and every request is answered; signals need not come.
Spec ==
  /\ Init /\ [][Next]_vars
  /\ WF_vars(GenerateArtifacts) /\ WF_vars(signalCtx)
  /\ \A a \in Artifacts : WF_vars(generateOne(a))

-----------------------------------------------------------------------------
(***************************************************************************)
(* Properties.                                                             *)
(***************************************************************************)
Places == {"idle", "begin", "call", "attempt", "send", "wire", "last", "repair", "valid", "failed"}

\* Types: attempts and repairs stay within their loops.
TypeOK ==
  /\ main \in {"start", "first", "handover", "second", "deliver", "done"}
  /\ at \in [Artifacts -> Places]
  /\ attempt \in [Artifacts -> 0..(MaxAttempts - 1)] /\ repairs \in [Artifacts -> 0..MaxRepairs]
  /\ late \in [Artifacts -> Nat]
  /\ err \in Errors \cup {Nil} /\ outcome \in Errors \cup {Nil, "ok", "panic"}
  /\ results \in Seq(Second) /\ delivered \in Seq(Artifacts)
  /\ cacheable \in BOOLEAN /\ cancelled \in BOOLEAN /\ exited \in BOOLEAN
  /\ handler \in {"first", "second", "gone"} /\ pending \in 0..2 /\ signals \in Nat

(***************************************************************************)
(* OnArtifact gets the requirements before anything else and the other two *)
(* only when both are there: one of them failing, or a cancellation, never *)
(* lets the other one through, in whatever order they end.                 *)
(***************************************************************************)
NoPartialResult ==
  /\ delivered # <<>> => delivered[1] = "requirements"
  /\ Range(delivered) \cap Second # {} => \A a \in Artifacts : at[a] = "valid"
  /\ outcome = "ok" => Range(delivered) = Artifacts /\ Len(delivered) = 3
  /\ outcome \in Errors => Range(delivered) \cap Second = {}

\* When GenerateArtifacts returns nothing it started is still at work.
NoStragglers == main = "done" => \A a \in Artifacts : at[a] \in {"idle", "valid", "failed"}

(***************************************************************************)
(* The error that comes back is what went wrong, and not the cancellation  *)
(* of the other artifact that followed from it.                            *)
(***************************************************************************)
ErrorIsTheCause == ~cancelled => outcome # "cancelled"

(***************************************************************************)
(* After its context is over a generateOne sends two requests at the most: *)
(* the one whose sleep was not interrupted, and its repetition without     *)
(* cache_control.                                                          *)
(***************************************************************************)
CancelStopsCalls == \A a \in Artifacts : late[a] <= 2

\* Every generation ends, if only because the process does.
Terminates == <>(outcome # Nil \/ exited)
=============================================================================
