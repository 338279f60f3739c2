------------------------------- MODULE Tutor -------------------------------
(***************************************************************************)
(* One tutor request inside the assistant: the orchestrator's two steps    *)
(* (the optional preferences, then the tutor), the calls of the model with *)
(* their retries, and the regenerations after a rejected answer.  A run    *)
(* does not know whether anybody still waits for it.                       *)
(***************************************************************************)
EXTENDS Naturals

CONSTANTS
  MaxRetries,      \* calls after the first, within one generation
  Regenerations    \* generations after the first

ASSUME TutorAssumption == MaxRetries \in Nat /\ Regenerations \in Nat

\* The kinds a step of the workflow may fail with.
ContextFailures == {"insufficient_context", "not_available", "handler_error"}
CallFailures == {"malformed_output", "provider_timeout", "provider_error"}
Kinds == ContextFailures \cup CallFailures \cup {"grounding_failure"}

NoRun == [stage |-> "none", task |-> "named", prefs |-> "ok", gen |-> 0, try |-> 0, end |-> "none"]

Started(task) == [NoRun EXCEPT !.stage = "owner", !.task = task]

Running(run) == run.stage \notin {"none", "done"}

Ended(run, end) == [run EXCEPT !.stage = "done", !.end = end]

\* The orchestrator looks the enrollment up before any step; a failing store is thrown.
Ownership(run) ==
  IF run.stage = "owner" THEN {[run EXCEPT !.stage = "prefs"], Ended(run, "thrown")} ELSE {}

\* The preferences.  A named operation goes on without them; a request for help without
\* an intent needs them, and stops.
Preferences(run) ==
  IF run.stage # "prefs" THEN {}
  ELSE {[run EXCEPT !.stage = "context"]} \cup
       IF run.task = "named"
       THEN {[run EXCEPT !.stage = "context", !.prefs = "handler_error"]}
       ELSE {[run EXCEPT !.stage = "done", !.prefs = kind, !.end = "skipped"] :
               kind \in {"handler_error", "insufficient_context"}}

\* The context firewall: nothing has been asked of the model yet.
Context(run) ==
  IF run.stage # "context" THEN {}
  ELSE {[run EXCEPT !.stage = "call"]} \cup {Ended(run, kind) : kind \in ContextFailures}

\* A call returns something that parses, or it fails: what the last one failed with is
\* what is reported.  A call that timed out is abandoned, not cancelled.
Call(run) ==
  IF run.stage # "call" THEN {}
  ELSE {[run EXCEPT !.stage = "ground"]} \cup
       IF run.try < MaxRetries
       THEN {[run EXCEPT !.try = @ + 1]}
       ELSE {Ended(run, kind) : kind \in CallFailures}

\* What was said is grounded in the context, or it is generated again.
Ground(run) ==
  IF run.stage # "ground" THEN {}
  ELSE {Ended(run, "answered"), Ended(run, "insufficient_context")} \cup
       IF run.gen < Regenerations
       THEN {[run EXCEPT !.stage = "call", !.gen = @ + 1, !.try = 0]}
       ELSE {Ended(run, "grounding_failure")}

\* What a run may be after its next step.
Steps(run) == Ownership(run) \cup Preferences(run) \cup Context(run) \cup Call(run) \cup Ground(run)

\* The orchestration is complete when no step failed.
Completed(run) == run.prefs = "ok" /\ run.end = "answered"

\* The kind the student is told about: that of the first step that failed.
FailureKind(run) == IF run.prefs # "ok" THEN run.prefs ELSE run.end

\* The fixed code of a kind.
SafeCode(kind) ==
  CASE kind \in CallFailures \cup {"handler_error"} -> "temporarily_unavailable"
    [] kind = "not_available" -> "not_available"
    [] kind = "insufficient_context" -> "needs_more_information"
    [] kind = "grounding_failure" -> "could_not_verify"

\* What ask may return for a run: its answer unless the output guard refuses it.
Answers(run) ==
  CASE run.end = "thrown" -> {"error"}
    [] Completed(run) -> {"answered", "could_not_verify"}
    [] OTHER -> {SafeCode(FailureKind(run))}

\* A unit is given back when nothing was delivered.
NotDelivered == {"temporarily_unavailable", "not_available"}

\* Mutant of Outcome: a failure is charged like an answer.
AlwaysConsumed(told) == IF told = "error" THEN "released" ELSE "consumed"

\* settleTutor; a handler that threw is not charged.
Outcome(told) == IF told \in NotDelivered \cup {"error"} THEN "released" ELSE "consumed"

=============================================================================
