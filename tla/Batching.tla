------------------------------ MODULE Batching ------------------------------
(***************************************************************************)
(* Continuous batching (runner/batch): the Scheduler's decisions, the      *)
(* `drive` loop that runs them, the Rows engine it drives and the Emitter  *)
(* that hands answers over in input order.                                 *)
(*                                                                         *)
(* `drive` is one thread, so an action is a stretch of its code up to the  *)
(* next decision somebody else takes: whether a prefill is ready, how the  *)
(* engine's call ends, what the callback answers.  pc names the place:     *)
(*   loop      the outer `while !scheduler.done()`                         *)
(*   admit     the inner `while`                                           *)
(*   joint     after the inner loop: the joint step, or `continue`         *)
(*   close     the next finished or failed page leaves its row             *)
(*   hand      Emitter::finish pops and calls on_page                      *)
(*   returned  `drive` has returned                                        *)
(* Tokens are abstracted to how many a page may still generate (room).     *)
(***************************************************************************)
EXTENDS Naturals, Sequences, FiniteSets

LOCAL INSTANCE SequencesExt

CONSTANTS Pages,         (* the number of input pages, numbered from 0       *)
          Rows,          (* the batch size                                   *)
          MaxNewTokens,  (* the largest output budget a page is fitted to    *)
          Drafting       (* speculation with the document history is on      *)

ASSUME BatchingAssumption ==
         /\ Pages \in Nat
         /\ Rows \in Nat
         /\ MaxNewTokens \in Nat \ {0}
         /\ Drafting \in BOOLEAN

VARIABLES pc,
          next,       (* Scheduler.next: the next page to start              *)
          active,     (* Scheduler.active; ascending, so a set               *)
          closing,    (* pages of this round still to leave their row        *)
          verdict,    (* how they leave: "finish" or "abandon"               *)
          after,      (* where the round came from: "admit" or "loop"        *)
          held,       (* InOrder.waiting                                     *)
          emitNext,   (* InOrder.next                                        *)
          delivered,  (* the calls of on_page so far                         *)
          stopped,    (* Emitter.stopped                                     *)
          sessions,   (* Rows.sessions: the page each session was made for   *)
          cached,     (* indices of the sessions whose cache is allocated    *)
          row,        (* Rows.rows: a page's session index, 0 without a row  *)
          room,       (* tokens a decoding page may still generate           *)
          alone,      (* Rows.alone: {} or the page that ran alone           *)
          history     (* pages whose tokens are in the document history      *)

schedule == <<next, active, closing, verdict, after>>
emitter == <<held, emitNext, delivered, stopped>>
engine == <<sessions, cached, row, room, alone, history>>
vars == <<pc, schedule, emitter, engine>>

PageSet == 0 .. Pages - 1
Absent == "absent"
Answers == {"text", "error"}
RowLimit == IF Rows = 0 THEN 1 ELSE Rows

Done == next >= Pages /\ active = {}
\* Mutant of PendingError: failures behind an earlier page go unnoticed.
NoPendingError == FALSE

(* Emitter::has_pending_error. *)
PendingError == \E p \in PageSet : held[p] = "error"

Init ==
  /\ pc = "loop"
  /\ next = 0
  /\ active = {}
  /\ closing = {}
  /\ verdict = "finish"
  /\ after = "loop"
  /\ held = [p \in PageSet |-> Absent]
  /\ emitNext = 0
  /\ delivered = <<>>
  /\ stopped = FALSE
  /\ sessions = <<>>
  /\ cached = {}
  /\ row = [p \in PageSet |-> 0]
  /\ room = [p \in PageSet |-> 0]
  /\ alone = {}
  /\ history = {}
------------------------------------------------------------------------------
\* Mutant of Admits: an unready page is waited for even with idle rows.
AdmitsReadyOnly(ready) ==
  /\ Cardinality(active) < RowLimit
  /\ next < Pages
  /\ ready

(* Scheduler::admit would hand out a page, given the feed's answer. *)
Admits(ready) ==
  /\ Cardinality(active) < RowLimit
  /\ next < Pages
  /\ active = {} \/ ready

\* Mutant of StartsAlone: pages left to start are forgotten.
StartsWithIdleRows == active = {}

(* Scheduler::alone, once the page has been admitted. *)
StartsAlone == active = {} /\ next + 1 >= Pages

TestDone ==
  /\ pc = "loop"
  /\ pc' = IF Done THEN "returned" ELSE "admit"
  /\ UNCHANGED <<schedule, emitter, engine>>

(* The inner loop ends: a failure is held back, or `admit` gives no page. *)
StopAdmitting ==
  /\ pc = "admit"
  /\ PendingError \/ \E ready \in BOOLEAN : ~Admits(ready)
  /\ pc' = "joint"
  /\ UNCHANGED <<schedule, emitter, engine>>

Admission ==
  /\ pc = "admit"
  /\ ~PendingError
  /\ Admits(TRUE)
  /\ next' = next + 1
  /\ active' = active \cup {next}

(* The pages of `pages` leave their rows next, then control goes to place. *)
CloseNext(pages, how, place) ==
  /\ closing' = pages
  /\ verdict' = how
  /\ after' = place
  /\ pc' = "close"

(* Rows::start of a page prefilled for a row; the prefill pushed its first  *)
(* token, which may have ended it, and then its cache is already released.  *)
StartRow ==
  /\ Admission
  /\ sessions' = Append(sessions, next)
  /\ row' = [row EXCEPT ![next] = Len(sessions) + 1]
  /\ \E budget \in 1 .. MaxNewTokens :
       /\ room' = [room EXCEPT ![next] = budget - 1]
       /\ \/ /\ CloseNext({next}, "finish", "admit")
             /\ UNCHANGED cached
          \/ /\ budget > 1
             /\ cached' = cached \cup {Len(sessions) + 1}
             /\ UNCHANGED <<pc, closing, verdict, after>>
  /\ UNCHANGED <<emitter, alone, history>>

(* Rows::start of a page that runs alone, to its end, drafts included. *)
StartAlone ==
  /\ Admission
  /\ StartsAlone
  /\ alone' = {next}
  /\ history' = IF Drafting THEN history \cup {next} ELSE history
  /\ CloseNext({next}, "finish", "admit")
  /\ UNCHANGED <<emitter, sessions, cached, row, room>>

(* Rows::start fails: preparation, prefill or, alone, the whole page; a     *)
(* page that failed after decoding alone is in the history already.         *)
StartFails ==
  /\ Admission
  /\ \E added \in SUBSET {next} :
       /\ added # {} => StartsAlone /\ Drafting
       /\ history' = history \cup added
  /\ CloseNext({next}, "abandon", "admit")
  /\ UNCHANGED <<emitter, sessions, cached, row, room, alone>>
------------------------------------------------------------------------------
(* `continue` with no page decoding. *)
NothingActive ==
  /\ pc = "joint"
  /\ active = {}
  /\ pc' = "loop"
  /\ UNCHANGED <<schedule, emitter, engine>>

\* Mutant of Exhausted: the budget test runs before the token is counted.
ExhaustedLate == {p \in active : room[p] = 0}

(* Generation::push of the step's token fills these pages' budgets. *)
Exhausted == {p \in active : room[p] <= 1}

(* One joint step: every page gets a token; its budget or a stop ends it. *)
Step ==
  /\ pc = "joint"
  /\ active # {}
  /\ \A p \in active : row[p] # 0
  /\ \E ended \in SUBSET active :
       /\ Exhausted \subseteq ended
       /\ CloseNext(ended, "finish", "loop")
  /\ room' = [p \in PageSet |-> IF p \in active THEN room[p] - 1 ELSE room[p]]
  /\ UNCHANGED <<next, active, emitter, sessions, cached, row, alone, history>>

(* The joint step fails, and with it every page in it. *)
StepFails ==
  /\ pc = "joint"
  /\ active # {}
  /\ CloseNext(active, "abandon", "loop")
  /\ UNCHANGED <<next, active, emitter, engine>>
------------------------------------------------------------------------------
\* Mutant of TakeRow: the finished session leaves the vector, which shifts
\* the sessions after it.
TakeRowAndSession(p) ==
  /\ row' = [row EXCEPT ![p] = 0]
  /\ cached' = cached \ {row[p]}
  /\ sessions' = IF row[p] = 0 THEN sessions ELSE RemoveAt(sessions, row[p])

(* Rows::finish and Rows::abandon take the page's row and release its       *)
(* cache; the empty session stays, so the other rows' indices hold.         *)
TakeRow(p) ==
  /\ row' = [row EXCEPT ![p] = 0]
  /\ cached' = cached \ {row[p]}
  /\ UNCHANGED sessions

(* Rows::finish: the answer of a finished page. *)
FinishPage(p, answer) ==
  /\ verdict = "finish"
  /\ IF p \in alone
     THEN /\ answer = "text"
          /\ alone' = alone \ {p}
          /\ UNCHANGED <<row, cached, sessions, history>>
     ELSE /\ row[p] = 0 => answer = "error"
          /\ TakeRow(p)
          /\ history' = IF Drafting /\ row[p] # 0 THEN history \cup {p} ELSE history
          /\ UNCHANGED alone

\* Mutant of AbandonPage: a failed page keeps its cache.
AbandonRowOnly(p, answer) ==
  /\ verdict = "abandon"
  /\ answer = "error"
  /\ row' = [row EXCEPT ![p] = 0]
  /\ UNCHANGED <<cached, sessions, alone, history>>

(* Rows::abandon: a failed page. *)
AbandonPage(p, answer) ==
  /\ verdict = "abandon"
  /\ answer = "error"
  /\ TakeRow(p)
  /\ UNCHANGED <<alone, history>>

\* Mutant of Free: the page keeps its place among the decoding ones.
FreeNothing(p) == active' = active

(* Scheduler::finish. *)
Free(p) == active' = active \ {p}

(* Emitter::finish up to InOrder::push; nothing is kept after a Break. *)
Push(p, answer) ==
  IF stopped
  THEN pc' = "returned" /\ UNCHANGED held
  ELSE pc' = "hand" /\ held' = [held EXCEPT ![p] = answer]

(* Scheduler::finish, Engine::finish or abandon, and the push of            *)
(* Emitter::finish, for the next page of the round.                         *)
ClosePage ==
  /\ pc = "close"
  /\ \E p \in closing :
       /\ \A q \in closing : p <= q
       /\ Free(p)
       /\ closing' = closing \ {p}
       /\ \E answer \in Answers :
            /\ FinishPage(p, answer) \/ AbandonPage(p, answer)
            /\ Push(p, answer)
  /\ UNCHANGED <<next, verdict, after, emitNext, delivered, stopped, room>>

RoundOver ==
  /\ pc = "close"
  /\ closing = {}
  /\ pc' = after
  /\ UNCHANGED <<schedule, emitter, engine>>

(* InOrder::pop has a page to hand out. *)
Poppable == emitNext \in PageSet /\ held[emitNext] # Absent

\* Mutant of Popped: the item is read and not removed.
PeekedOnly == held

(* InOrder::pop takes the item out. *)
Popped == [held EXCEPT ![emitNext] = Absent]

\* Mutant of AfterCallback: one page is handed over per finished page.
AfterOneCallback(break) == IF break THEN "returned" ELSE "close"

(* `while let Some(..) = self.order.pop()`, left by a Break. *)
AfterCallback(break) == IF break THEN "returned" ELSE "hand"

(* InOrder::pop and the callback's answer; Break ends the run. *)
HandOver ==
  /\ pc = "hand"
  /\ Poppable
  /\ delivered' = Append(delivered, <<emitNext, held[emitNext]>>)
  /\ held' = Popped
  /\ emitNext' = emitNext + 1
  /\ \E break \in BOOLEAN :
       /\ stopped' = break
       /\ pc' = AfterCallback(break)
  /\ UNCHANGED <<schedule, engine>>

NothingToHand ==
  /\ pc = "hand"
  /\ ~Poppable
  /\ pc' = "close"
  /\ UNCHANGED <<schedule, emitter, engine>>

Returned == pc = "returned" /\ UNCHANGED vars
------------------------------------------------------------------------------
Next ==
  \/ TestDone
  \/ StopAdmitting
  \/ StartRow
  \/ StartAlone
  \/ StartFails
  \/ NothingActive
  \/ Step
  \/ StepFails
  \/ ClosePage
  \/ RoundOver
  \/ HandOver
  \/ NothingToHand
  \/ Returned

Spec == Init /\ [][Next]_vars

(* `drive` is one running thread, and every engine call returns. *)
FairSpec == Spec /\ WF_vars(Next)
------------------------------------------------------------------------------
(* The type invariant; room \in Nat also says that no page is given a token *)
(* beyond its output budget (Generation::push).                             *)
TypeOK ==
  /\ pc \in {"loop", "admit", "joint", "close", "hand", "returned"}
  /\ next \in 0 .. Pages
  /\ active \in SUBSET PageSet
  /\ closing \in SUBSET PageSet
  /\ verdict \in {"finish", "abandon"}
  /\ after \in {"admit", "loop"}
  /\ held \in [PageSet -> Answers \cup {Absent}]
  /\ emitNext \in 0 .. Pages
  /\ delivered \in Seq(PageSet \X Answers)
  /\ stopped \in BOOLEAN
  /\ sessions \in Seq(PageSet)
  /\ cached \in SUBSET Nat
  /\ row \in [PageSet -> Nat]
  /\ room \in [PageSet -> Nat]
  /\ alone \in SUBSET PageSet
  /\ history \in SUBSET PageSet

(* Every page is in exactly one place at every moment of `drive`: not       *)
(* started, decoding, held back by the Emitter, or handed to the callback;  *)
(* and the rows never hold more pages than the batch size.                  *)
EveryPageAccounted ==
  /\ \A p \in PageSet :
       /\ p < emitNext => p < next /\ p \notin active /\ held[p] = Absent
       /\ p >= next => p \notin active /\ held[p] = Absent
       /\ emitNext <= p /\ p < next => (p \in active <=> held[p] = Absent)
  /\ Cardinality(active) <= RowLimit

(* `drive` reaches its `continue` with no page decoding only when the run   *)
(* is over, so it cannot spin there while a failure waits (its              *)
(* debug_assert) nor while the reader still prepares a page.                *)
NeverIdles == pc = "joint" /\ active = {} => Done /\ ~PendingError

(* InOrder::push's assertion: an answer arrives once, never for a page      *)
(* already handed out.                                                      *)
ArrivesOnce == \A p \in closing : emitNext <= p /\ held[p] = Absent

(* A decoding page's row leads to the session made for it, whichever pages  *)
(* came and went before, so no page attends to another page's cache; and    *)
(* every page of a joint step has a row (the step's `context`).             *)
RowsKeepTheirSession ==
  /\ \A p \in PageSet :
       row[p] # 0 => row[p] \in 1 .. Len(sessions) /\ sessions[row[p]] = p
  /\ pc = "joint" => \A p \in active : row[p] # 0

(* A page's cache is released when the page leaves its row, finished or     *)
(* failed: every allocated cache belongs to a page that decodes.            *)
NoCacheLeak == cached \subseteq {row[p] : p \in active} \ {0}

(* Pages answered with text, handed over or held back. *)
Transcribed ==
  {p \in PageSet : held[p] = "text"
                     \/ (p < Len(delivered) /\ delivered[p + 1][2] = "text")}

(* A page that runs alone is the last one, nothing decodes beside it for    *)
(* its whole run, and it drafts from every page transcribed before it.      *)
AloneDraftsFromAll ==
  alone # {} => /\ next = Pages
                /\ active = alone
                /\ Drafting => Transcribed \subseteq history

(* The run ends, with every page answered unless the callback stopped it.   *)
AnswersEveryPage ==
  <>(pc = "returned" /\ (stopped \/ Len(delivered) = Pages))

Stream == INSTANCE PageStream
            WITH Width <- RowLimit, started <- next

(* Continuous batching keeps the promise of every multi-page run: order,    *)
(* one answer each, the bound on pages in flight, no admission past a held  *)
(* failure and silence after Break.                                         *)
KeepsStreamPromise == Stream!Spec
=============================================================================
