------------------------------- MODULE RunJob -------------------------------
(***************************************************************************)
(* The runs that write an OutputFile (main.rs, RunJob), one after the      *)
(* other: each reads and repairs the file, then appends a record per page  *)
(* as the page is done.  Pages reach on_page in the order of `todo`, and   *)
(* none after a Break, as PageStream promises.                             *)
(***************************************************************************)
EXTENDS OutputFile, Escalation

CONSTANTS Inputs,     (* the number of input pages, all of them distinct   *)
          BadPages,   (* the pages whose recognition may fail              *)
          MaxRuns,    (* bound: runs started                               *)
          MaxOutages  (* bound: power losses                               *)

ASSUME RunJobAssumption ==
         /\ Inputs \in Nat
         /\ BadPages \subseteq 1 .. Inputs
         /\ MaxRuns \in Nat
         /\ MaxOutages \in Nat

VARIABLES file,
          durable,    (* the pieces that no power loss takes any more       *)
          running,    (* a run is between its first page and its summary    *)
          resume, keepGoing,  (* its flags                                  *)
          todo,       (* the pages it has still to hand to on_page          *)
          summary,    (* Summary: done, failed, skipped                     *)
          failure,    (* `failure` is set and on_page has answered Break    *)
          exit,       (* how the latest run ended                           *)
          runs, outages

flags == <<resume, keepGoing>>
bounds == <<runs, outages>>
vars == <<file, durable, running, flags, escalation, todo, summary, failure, exit, bounds>>

Pages == 1 .. Inputs
Outcomes(p) == IF p \in BadPages THEN {"text", "error"} ELSE {"text"}

Init ==
  /\ file = <<>>
  /\ durable = 0
  /\ running = FALSE
  /\ resume = FALSE
  /\ keepGoing = FALSE
  /\ todo = <<>>
  /\ summary = [done |-> 0, failed |-> 0, skipped |-> 0]
  /\ failure = FALSE
  /\ exit = "none"
  /\ runs = 0
  /\ outages = 0
  /\ NoEscalation
------------------------------------------------------------------------------
(* A file that is not an output is refused before the model loads. *)
Refuse ==
  /\ ~running
  /\ runs < MaxRuns
  /\ IsForeign(file)
  /\ runs' = runs + 1
  /\ exit' = "refused"
  /\ UNCHANGED <<file, durable, running, flags, escalation, todo, summary, failure, outages>>

(* `todo`: the inputs a run needs, in their order; there is one such list.  *)
InOrder(pages) ==
  {s \in [1 .. Cardinality(pages) -> pages] :
     /\ \A i, j \in DOMAIN s : i < j => s[i] < s[j]
     /\ \A p \in pages : \E i \in DOMAIN s : s[i] = p}

(* A run opens the file, repairing it, and starts on the pages it needs.    *)
StartRun ==
  /\ ~running
  /\ runs < MaxRuns
  /\ ~IsForeign(file)
  /\ file' = Repaired(file)
  /\ durable' = IF durable <= Len(Keep(file)) THEN durable ELSE Len(Keep(file))
  /\ resume' \in BOOLEAN
  /\ keepGoing' \in BOOLEAN
  /\ StartEscalation
  /\ todo' \in InOrder({p \in Pages : ~resume' \/ p \notin Done(file)})
  /\ summary' = [done |-> 0, failed |-> 0, skipped |-> Inputs - Len(todo')]
  /\ failure' = FALSE
  /\ running' = TRUE
  /\ runs' = runs + 1
  /\ exit' = "none"
  /\ UNCHANGED outages

Counted(field) == summary' = [summary EXCEPT ![field] = @ + 1]

(* A page is recognized, reread perhaps, and its record written. *)
PageDone ==
  /\ Escalate
  /\ file' = file \o Line(Head(todo), "text")
  /\ Counted("done")
  /\ UNCHANGED failure

(* A page fails: its error is recorded, or it ends the run. *)
PageFails ==
  /\ Head(todo) \in BadPages
  /\ UNCHANGED escalation
  /\ Counted("failed")
  /\ IF keepGoing
     THEN file' = file \o Line(Head(todo), "error") /\ UNCHANGED failure
     ELSE failure' = TRUE /\ UNCHANGED file

(* What a write that is cut short puts in the file. *)
Partly(p, outcome) == {SubSeq(Line(p, outcome), 1, n) : n \in 0 .. 2}

(* The record cannot be written, or only in part: the page has failed.      *)
WriteFails ==
  /\ \E outcome \in Outcomes(Head(todo)) :
       /\ outcome = "text" \/ keepGoing
       /\ IF outcome = "text" THEN Escalate ELSE UNCHANGED escalation
       /\ \E written \in Partly(Head(todo), outcome) : file' = file \o written
  /\ Counted("failed")
  /\ failure' = TRUE

(* on_page. *)
OnPage ==
  /\ running
  /\ ~failure
  /\ todo # <<>>
  /\ PageDone \/ PageFails \/ WriteFails
  /\ todo' = Tail(todo)
  /\ UNCHANGED <<durable, running, flags, exit, bounds>>

(* The run fails at the end when a page failed. *)
Succeeded == ~failure /\ summary.failed = 0

(* Every page was handed to on_page, or it answered Break. *)
EndRun ==
  /\ running
  /\ todo = <<>> \/ failure
  /\ running' = FALSE
  /\ EndEscalation
  /\ exit' = IF Succeeded THEN "ok" ELSE "error"
  /\ UNCHANGED <<file, durable, flags, todo, summary, failure, bounds>>

(* The recognition call itself fails and the run ends without a summary.    *)
RunFails ==
  /\ running
  /\ running' = FALSE
  /\ EndEscalation
  /\ exit' = "error"
  /\ UNCHANGED <<file, durable, flags, todo, summary, failure, bounds>>

(* The process is killed, in the middle of a write perhaps. *)
Killed ==
  /\ running
  /\ \E written \in IF todo = <<>> \/ failure THEN {<<>>}
                    ELSE UNION {Partly(Head(todo), outcome) : outcome \in Outcomes(Head(todo))} :
       file' = file \o written
  /\ running' = FALSE
  /\ EndEscalation
  /\ exit' = "killed"
  /\ UNCHANGED <<durable, flags, todo, summary, failure, bounds>>

(* A power loss: of the pieces written since the last one, the file loses   *)
(* a last part, and NULs stand where others should be.                      *)
PowerLoss ==
  /\ outages < MaxOutages
  /\ ~running
  /\ \E n \in durable .. Len(file) : \E i \in durable + 1 .. n + 1 : \E j \in i - 1 .. n :
       /\ file' = [k \in 1 .. n |-> IF k \in i .. j THEN NUL ELSE file[k]]
       /\ durable' = n
  /\ outages' = outages + 1
  /\ exit' = "killed"
  /\ UNCHANGED <<running, flags, escalation, todo, summary, failure, runs>>

Next ==
  \/ Refuse
  \/ StartRun
  \/ OnPage
  \/ EndRun
  \/ RunFails
  \/ Killed
  \/ PowerLoss

Spec == Init /\ [][Next]_vars
------------------------------------------------------------------------------
(* The number of lines that are a successful record of a page, whatever the *)
(* code reads back.                                                         *)
Successes(p) ==
  Cardinality({i \in 2 .. Len(file) :
                 /\ file[i] = Rest(p, "text")
                 /\ file[i - 1] = Start(p, "text")
                 /\ i = Len(file) \/ file[i + 1] = Newline
                 /\ \E k \in 1 .. i - 1 :
                      /\ k = 1 \/ file[k - 1] = Newline
                      /\ \A m \in k .. i - 2 : file[m] = NUL})

(* A run that says it succeeded leaves a successful record of every input,  *)
(* however many runs before it were cut short or skipped.                   *)
OkMeansRecorded == exit = "ok" => \A p \in Pages : Successes(p) > 0

(* "A record cut short by a crash is removed": a page once recorded stays   *)
(* recorded through every later repair and write; only a power loss takes   *)
(* records away.                                                            *)
RecordsStay ==
  [][\A p \in Pages : Successes(p)' < Successes(p) => outages' # outages]_vars

(* --resume reads no page again that has a record: it never adds a second   *)
(* one.                                                                     *)
ResumeAddsMissingOnly ==
  [][\A p \in Pages :
       resume /\ running /\ Successes(p)' > Successes(p) => Successes(p) = 0]_vars

(* "So new records start on a line of their own": the file stays one that   *)
(* the next run accepts, unless a power loss damaged it and no record is    *)
(* left to tell it from another file.                                       *)
OwnOutputAccepted ==
  IsForeign(file) =>
    /\ \E i \in DOMAIN file : file[i] = NUL
    /\ \A p \in Pages : Successes(p) = 0

(* "After a failed load the run stops trying", and a reread that fails      *)
(* leaves the model loaded: a run loads the near-exact model at most once,  *)
(* whatever its pages and their records come to.                            *)
LoadsOnce == loads <= 1
=============================================================================
