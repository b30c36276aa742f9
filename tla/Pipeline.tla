------------------------------ MODULE Pipeline ------------------------------
(***************************************************************************)
(* The page pipeline at batch size 1 (runner/pipeline.rs,                  *)
(* Runner::recognize_files_pipelined): the prefetch thread prepares pages, *)
(* and the next page is staged (received and prefilled) by a scoped thread *)
(* on the second pool while the current page decodes.  `main` names the    *)
(* place of the calling thread:                                            *)
(*   next      the top of `for _ in 0..paths.len()`                        *)
(*   decode    finish_staged of the current page                           *)
(*   answer    Emitter::finish calls on_page                               *)
(*   join      the end of the overlap                                      *)
(*   left      the loop is over: the receiver is dropped, then the scope   *)
(*             waits for the prefetch thread                               *)
(***************************************************************************)
EXTENDS Prefetch, FiniteSets

VARIABLES main,       (* the place of the calling thread                    *)
          started,    (* pages staged or being staged                       *)
          current,    (* the page decoding or answered                      *)
          answer,     (* its result: "none", "text" or "error"              *)
          delivered,  (* the calls of on_page                               *)
          broke,      (* on_page answered Break                             *)
          ended,      (* how the run ended: "ok", "reader_stopped", "panic" *)
          second,     (* Runner::side_pool: "undecided", "none" or "pool"   *)
          ahead,      (* the page staged last: {} or {<<index, staged>>}    *)
          stager      (* "idle", "receiving", "prefilling", "done",         *)
                      (* "stopped" (no reader) or "panicked"                *)

mainThread == <<main, started, current, answer, delivered, broke, ended, second>>
staging == <<ahead, stager>>
vars == <<prefetch, mainThread, staging>>

Init ==
  /\ PrefetchInit
  /\ main = "next"
  /\ started = 0
  /\ current = 0
  /\ answer = "none"
  /\ delivered = <<>>
  /\ broke = FALSE
  /\ ended = "ok"
  /\ second = "undecided"
  /\ ahead = {}
  /\ stager = "idle"
------------------------------------------------------------------------------
(* The outcomes of `stage` for a queue entry: prefilling may fail too. *)
Staged(entry) == {<<entry[1], ok>> : ok \in {FALSE, entry[2]}}

(* `index + 1 < paths.len()`: there is a page to stage beside this one. *)
OffersSide(index) == index + 1 < Pages

(* side_pool, asked before a staged page decodes. *)
DecideSecond(index) ==
  IF OffersSide(index) /\ second = "undecided"
  THEN second' \in {"undecided", "none", "pool"}
  ELSE UNCHANGED second

(* A staged page decodes, with the next one staged beside it when there is  *)
(* a second pool; a page that failed to stage is answered by its error.     *)
Begin(page) ==
  /\ current' = page[1]
  /\ IF page[2]
     THEN /\ main' = "decode"
          /\ answer' = "none"
          /\ DecideSecond(page[1])
          /\ stager' = IF OffersSide(page[1]) /\ second' = "pool"
                       THEN "receiving" ELSE "idle"
     ELSE main' = "answer" /\ answer' = "error" /\ stager' = "idle" /\ UNCHANGED second
  /\ started' = IF stager' = "receiving" THEN started + 1 ELSE started
  /\ UNCHANGED <<delivered, broke, ended>>

\* Mutant of MorePages: one turn of the loop too many.
MorePagesLate == Len(delivered) <= Pages

(* `for _ in 0..paths.len()`: a turn of the loop answers one page. *)
MorePages == Len(delivered) < Pages

(* Nothing is staged ahead: stage the next entry on the runner's pool. *)
StageInline ==
  /\ main = "next"
  /\ MorePages
  /\ ahead = {}
  /\ \E entry \in Entries :
       /\ Receive(entry)
       /\ \E page \in Staged(entry) : ahead' = {page}
       /\ started' = entry[1] + 1
  /\ UNCHANGED <<main, current, answer, delivered, broke, ended, second, stager>>

(* The staged page has its turn, whichever thread staged it. *)
TakeStaged ==
  /\ main = "next"
  /\ MorePages
  /\ \E page \in ahead : Begin(page)
  /\ ahead' = {}
  /\ UNCHANGED prefetch

(* The receiver is dropped and the run returns. *)
Leave(how) ==
  /\ main' = "left"
  /\ ended' = how
  /\ UNCHANGED <<started, current, answer, delivered, broke, second>>

(* `self.stage(..)?` without a reader. *)
ReaderLost ==
  /\ main = "next"
  /\ MorePages
  /\ ahead = {}
  /\ ReceiveFails
  /\ Leave("reader_stopped")
  /\ UNCHANGED staging

(* finish_staged: the page's decode and finish. *)
Decode ==
  /\ main = "decode"
  /\ answer' \in {"text", "error"}
  /\ main' = "answer"
  /\ UNCHANGED <<prefetch, started, current, delivered, broke, ended, second, staging>>

(* Emitter::finish: on_page and its answer. *)
Answer ==
  /\ main = "answer"
  /\ delivered' = Append(delivered, <<current, answer>>)
  /\ answer' = "none"
  /\ broke' \in BOOLEAN
  /\ main' = "join"
  /\ UNCHANGED <<prefetch, started, current, ended, second, staging>>

(* The end of the overlap waits for the staging thread. *)
MayJoin == stager \notin {"receiving", "prefilling"}

\* Mutant of Stops: a Break at a failed page is not heard.
StopsAfterText == broke /\ delivered[Len(delivered)][2] = "text"

(* `emit.finish(..).is_break()`, after a failed page or a decoded one. *)
Stops == broke

(* The overlap is over: the page staged in it is kept for the next turn;    *)
(* without a reader the run ends, a panic goes on, a Break ends the run.    *)
Join ==
  /\ main = "join"
  /\ MayJoin
  /\ stager' = IF stager = "done" THEN "idle" ELSE stager
  /\ \/ stager = "stopped" /\ Leave("reader_stopped")
     \/ stager = "panicked" /\ Leave("panic")
     \/ stager \notin {"stopped", "panicked"} /\ Stops /\ Leave("ok")
     \/ /\ stager \notin {"stopped", "panicked"}
        /\ ~Stops
        /\ main' = "next"
        /\ UNCHANGED <<started, current, answer, delivered, broke, ended, second>>
  /\ UNCHANGED <<prefetch, ahead>>

(* Every page has had its turn. *)
AllDone ==
  /\ main = "next"
  /\ ~MorePages
  /\ Leave("ok")
  /\ UNCHANGED <<prefetch, staging>>

\* Mutant of DropReceiver: the receiver lives until the scope has returned.
KeepReceiver == UNCHANGED prefetch

(* The closure's locals go, the receiver with them. *)
DropReceiver == CloseQueue

Drop ==
  /\ main = "left"
  /\ ~closed
  /\ DropReceiver
  /\ UNCHANGED <<mainThread, staging>>

Main ==
  \/ StageInline
  \/ TakeStaged
  \/ ReaderLost
  \/ Decode
  \/ Answer
  \/ Join
  \/ AllDone
  \/ Drop
------------------------------------------------------------------------------
(* The staging thread: stage on the second pool. *)
StagerReceives ==
  /\ stager = "receiving"
  /\ \E entry \in Entries :
       /\ Receive(entry)
       /\ ahead' = {entry}
       /\ stager' = IF entry[2] THEN "prefilling" ELSE "done"
  /\ UNCHANGED mainThread

StagerStopped ==
  /\ stager = "receiving"
  /\ ReceiveFails
  /\ stager' = "stopped"
  /\ UNCHANGED <<mainThread, ahead>>

StagerPrefills ==
  /\ stager = "prefilling"
  /\ stager' = "done"
  /\ \E page \in ahead : \E staged \in Staged(page) : ahead' = {staged}
  /\ UNCHANGED <<prefetch, mainThread>>

StagerPanics ==
  /\ stager = "prefilling"
  /\ stager' = "panicked"
  /\ ahead' = {}
  /\ UNCHANGED <<prefetch, mainThread>>

Stager == StagerReceives \/ StagerStopped \/ StagerPrefills \/ StagerPanics

ReaderStep == Reader /\ UNCHANGED <<mainThread, staging>>

(* std::thread::scope returns once the prefetch thread has ended. *)
Returned == main = "left" /\ closed /\ ReaderGone
Ended == Returned /\ UNCHANGED vars

Next == Main \/ Stager \/ ReaderStep \/ Ended

Spec == Init /\ [][Next]_vars

(* The three threads run, and every model call returns. *)
FairSpec == Spec /\ WF_vars(Main) /\ WF_vars(Stager) /\ WF_vars(ReaderStep)
------------------------------------------------------------------------------
(* One thread at a time takes from the queue: the caller never stages while *)
(* the staging thread runs, and the thread never outlives the page beside   *)
(* which it runs.  So "up to PREFETCH + 2 prepared pages are in flight      *)
(* ahead of the decoding ones": in the queue, at the prefetch thread and on *)
(* the second pool.                                                         *)
InFlightBound ==
  /\ stager \in {"receiving", "prefilling"} => main \in {"decode", "answer", "join"}
  /\ PreparedAhead + Cardinality(ahead) <= PREFETCH + 2

(* The run ends as it says: Ok only with every page answered or after Break, *)
(* and "the reader stopped" only when it panicked - no page is staged past  *)
(* the last one, and none is lost on the way.                               *)
EndsAsItSays ==
  /\ main = "left" /\ ended = "ok" => broke \/ Len(delivered) = Pages
  /\ ended = "reader_stopped" => reader = "panicked"

(* The run returns, stopped or not: the channel and the two threads cannot  *)
(* wait for each other for ever.                                            *)
RunReturns == <>Returned

Held == [p \in PageSet |-> IF p = current /\ answer # "none" THEN answer ELSE "absent"]

Stream == INSTANCE PageStream WITH Width <- 2, held <- Held, stopped <- broke

(* The pipeline keeps the promise of the sequential run: its results reach  *)
(* the callback in input order and none starts after a Break.               *)
KeepsStreamPromise == Stream!Spec
=============================================================================
