----------------------------- MODULE PageStream -----------------------------
(***************************************************************************)
(* What every multi-page run of the runner promises its caller             *)
(* (`Runner::recognize_files_streaming`, `recognize_files_pipelined`):     *)
(* pages start in input order, at most Width of them are in flight, each   *)
(* one is answered by a text or by its own error, answers reach the        *)
(* callback in input order and once, a failure held behind an earlier page *)
(* stops admissions until the callback has seen it, and nothing starts or  *)
(* is delivered once the callback has said Break.                          *)
(***************************************************************************)
EXTENDS Naturals, Sequences, FiniteSets

CONSTANTS Pages,  (* the number of pages of the run, numbered from 0 *)
          Width   (* how many pages may be in flight at once         *)

VARIABLES started,    (* pages 0 .. started-1 have started               *)
          held,       (* answers waiting for an earlier page             *)
          delivered,  (* the calls of on_page so far: <<page, answer>>   *)
          stopped     (* the callback answered Break                     *)

vars == <<started, held, delivered, stopped>>

PageSet == 0 .. Pages - 1
Absent == "absent"
Answers == {"text", "error"}

Handed == 0 .. Len(delivered) - 1

(* The pages being prepared or decoded. *)
InFlight == {p \in PageSet : p < started /\ p \notin Handed /\ held[p] = Absent}
FailureHeld == \E p \in PageSet : held[p] = "error"

Init ==
  /\ started = 0
  /\ held = [p \in PageSet |-> Absent]
  /\ delivered = <<>>
  /\ stopped = FALSE

(* The next page starts. *)
Start ==
  /\ ~stopped
  /\ ~FailureHeld
  /\ started < Pages
  /\ Cardinality(InFlight) < Width
  /\ started' = started + 1
  /\ UNCHANGED <<held, delivered, stopped>>

(* A page in flight gets its answer, whatever the order. *)
Resolve(p, answer) ==
  /\ ~stopped
  /\ p \in InFlight
  /\ held' = [held EXCEPT ![p] = answer]
  /\ UNCHANGED <<started, delivered, stopped>>

(* The page the callback waits for. *)
Due == {p \in PageSet : p = Len(delivered)}

(* The next answer in input order reaches the callback, which may stop. *)
Deliver ==
  \E p \in Due :
  /\ ~stopped
  /\ held[p] # Absent
  /\ delivered' = Append(delivered, <<p, held[p]>>)
  /\ held' = [held EXCEPT ![p] = Absent]
  /\ stopped' \in BOOLEAN
  /\ UNCHANGED started

Next ==
  \/ Start
  \/ \E p \in PageSet, answer \in Answers : Resolve(p, answer)
  \/ Deliver

Spec == Init /\ [][Next]_vars
=============================================================================
