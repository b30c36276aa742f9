----------------------------- MODULE Escalation -----------------------------
(***************************************************************************)
(* `run --escalate` (runner/escalate.rs): a fast page that the repetition  *)
(* stop ended is read again by a near-exact model, which is loaded when    *)
(* the first page needs it.  Whatever fails, the page keeps its fast       *)
(* result, so the record written is the same one to a later run.           *)
(***************************************************************************)
EXTENDS Naturals

VARIABLES nearExact,  (* "off" without --escalate, else "unloaded", "loaded"  *)
                      (* (Escalation.runner) or "failed" (Escalation.failed)  *)
          loads       (* how often the run called `load`                      *)

escalation == <<nearExact, loads>>

NoEscalation == nearExact = "off" /\ loads = 0
StartEscalation == nearExact' \in {"off", "unloaded"} /\ loads' = 0
EndEscalation == nearExact' = "off" /\ loads' = 0

\* Mutant of RunnerAfter: the error is passed on before the runner is back.
RunnerAfterSuccess(reread) == IF reread THEN "loaded" ELSE "unloaded"

(* The runner is put back whether the page could be reread or not. *)
RunnerAfter(reread) == "loaded"

Reread == \E ok \in BOOLEAN : nearExact' = RunnerAfter(ok)

(* Escalation::rerun: no second load, after a success or a failure. *)
LoadFails == nearExact = "unloaded" /\ nearExact' = "failed" /\ loads' = loads + 1
LoadAndReread == nearExact = "unloaded" /\ Reread /\ loads' = loads + 1
RereadAgain == nearExact = "loaded" /\ Reread /\ UNCHANGED loads
StaysFast == nearExact = "failed" /\ UNCHANGED escalation

(* on_page: the repetition stop may have ended the page, or not. *)
Escalate ==
  \/ UNCHANGED escalation
  \/ LoadFails \/ LoadAndReread \/ RereadAgain \/ StaysFast
=============================================================================
