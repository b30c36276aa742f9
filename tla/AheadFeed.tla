------------------------------ MODULE AheadFeed ------------------------------
(***************************************************************************)
(* The pipelined feed of continuous batching (runner/batch/feed.rs, Ahead):*)
(* `drive` takes the pages in order from the prefetch queue; the next page *)
(* prefills one ahead on the second pool, in a scoped thread that owns the *)
(* queue while it runs and hands it back when it is joined.                *)
(*                                                                         *)
(* The caller is `drive` as the feed sees it: it asks ready(page) while    *)
(* other pages decode and takes the page once it is ready, or takes it     *)
(* without asking when no page decodes, the last page then alone; the      *)
(* callback may end the run between two calls.                             *)
(***************************************************************************)
EXTENDS Prefetch

VARIABLES caller,   (* "driving", "taking", "taking_alone"; "dropped" or    *)
                    (* "unwound" once the feed is gone                      *)
          page,     (* the next page the caller starts                      *)
          taken,    (* what take and take_alone returned: <<index, outcome>>*)
          sidePool, (* Runner::side_pool: "undecided", "none" or "pool"     *)
          owner,    (* who holds the queue: "feed", "side" or "nobody"      *)
          running,  (* Ahead.running: {} or the page given to the thread    *)
          side,     (* "idle", "receiving", "prefilling", "done","panicked" *)
          result    (* the side thread's <<index, outcome>>                 *)

callers == <<caller, page, taken>>
feed == <<sidePool, owner, running, side, result>>
feedVars == <<prefetch, callers, feed>>

Gone == caller \in {"dropped", "unwound"}

FeedInit ==
  /\ PrefetchInit
  /\ caller = "driving"
  /\ page = 0
  /\ taken = <<>>
  /\ sidePool = "undecided"
  /\ owner = "feed"
  /\ running = {}
  /\ side = "idle"
  /\ result = <<0, "prefilled">>
------------------------------------------------------------------------------
(* Runner::side_pool, decided once, when the decode team's size is settled. *)
AskSecondPool ==
  IF sidePool = "undecided"
  THEN sidePool' \in {"undecided", "none", "pool"}
  ELSE UNCHANGED sidePool

(* `page >= self.pages` gives no thread. *)
MaySpawn(next) == next < Pages

(* Ahead::spawn of a page, with the queue at the feed and nothing running.  *)
Spawn(next) ==
  /\ IF MaySpawn(next) THEN AskSecondPool ELSE UNCHANGED sidePool
  /\ IF MaySpawn(next) /\ sidePool' = "pool"
     THEN owner' = "side" /\ running' = {next} /\ side' = "receiving"
     ELSE owner' = "feed" /\ running' = {} /\ side' = "idle"
  /\ UNCHANGED result

\* Mutant of PrefillDone: a failed prefill is never reported as done.
PrefillOk(next) == running # {next} \/ (side = "done" /\ result[2] = "prefilled")

(* `*running != page || handle.is_finished()`, also after a panic. *)
PrefillDone(next) == running # {next} \/ side \in {"done", "panicked"}

(* ready(page), asked while other pages decode. *)
AskReady ==
  /\ caller = "driving"
  /\ page \in 1 .. Pages - 1
  /\ IF running # {}
     THEN /\ PrefillDone(page)
          /\ caller' = "taking"
          /\ UNCHANGED feed
     ELSE /\ Spawn(page)
          /\ caller' = IF running' # {} THEN "driving" ELSE "taking"
  /\ UNCHANGED <<prefetch, page, taken>>

(* No page decodes: the next one starts at once, the last one alone. *)
StartIdle ==
  /\ caller = "driving"
  /\ page < Pages
  /\ caller' = IF page + 1 = Pages THEN "taking_alone" ELSE "taking"
  /\ UNCHANGED <<prefetch, page, taken, feed>>

(* take or take_alone returns. *)
Return(outcome) ==
  /\ taken' = Append(taken, <<page, outcome>>)
  /\ page' = page + 1
  /\ caller' = "driving"

\* Mutant of NextToPrefill: the page just taken is spawned again.
SamePage == page

(* `self.spawn(page + 1)` at the end of take. *)
NextToPrefill == page + 1

(* take of a page given to the side thread: join it; the queue is back. *)
TakePrefilled ==
  /\ caller \in {"taking", "taking_alone"}
  /\ running # {}
  /\ side = "done"
  /\ IF running = {page} /\ result[1] = page
     THEN Return(result[2]) /\ Spawn(NextToPrefill)
     ELSE /\ Return("out_of_step")
          /\ owner' = "feed" /\ running' = {} /\ side' = "idle"
          /\ UNCHANGED <<sidePool, result>>
  /\ UNCHANGED prefetch

(* The joined thread panicked: the panic goes on in the caller, which drops *)
(* the feed; the queue went with the thread.                                *)
TakePanics ==
  /\ caller \in {"taking", "taking_alone"}
  /\ running # {}
  /\ side = "panicked"
  /\ caller' = "unwound"
  /\ UNCHANGED <<prefetch, page, taken, feed>>

(* take with nothing prefilling ahead: receive and prefill on the runner's  *)
(* pool.                                                                    *)
TakeInline ==
  /\ caller = "taking"
  /\ running = {}
  /\ \/ \E entry \in Entries, prefilled \in {"prefilled", "prefill_error"} :
          /\ Receive(entry)
          /\ Return(IF entry[1] # page THEN "out_of_step"
                    ELSE IF entry[2] THEN prefilled ELSE "prepare_error")
     \/ ReceiveFails /\ Return("reader_stopped")
  /\ Spawn(NextToPrefill)

(* take_alone with nothing prefilling ahead: the page is only received. *)
TakeAlone ==
  /\ caller = "taking_alone"
  /\ running = {}
  /\ \/ \E entry \in Entries :
          /\ Receive(entry)
          /\ Return(IF entry[1] # page THEN "out_of_step"
                    ELSE IF entry[2] THEN "prepared" ELSE "prepare_error")
     \/ ReceiveFails /\ Return("reader_stopped")
  /\ UNCHANGED feed

\* Mutant of DropQueue: the queue outlives the feed until the scope ends.
KeepQueue == UNCHANGED <<prefetch, owner>>

(* Dropping the feed drops the queue it holds. *)
DropQueue ==
  IF owner = "feed" THEN CloseQueue /\ owner' = "nobody"
                    ELSE UNCHANGED <<prefetch, owner>>

(* The run is over, or the callback ended it: the feed is dropped. *)
DropFeed ==
  /\ caller = "driving"
  /\ page > 0 \/ Pages = 0
  /\ caller' = "dropped"
  /\ DropQueue
  /\ UNCHANGED <<page, taken, sidePool, running, side, result>>

Caller ==
  \/ AskReady
  \/ StartIdle
  \/ TakePrefilled
  \/ TakePanics
  \/ TakeInline
  \/ TakeAlone
  \/ DropFeed
------------------------------------------------------------------------------
SideReceives ==
  /\ side = "receiving"
  /\ \E entry \in Entries :
       /\ Receive(entry)
       /\ side' = IF entry[2] THEN "prefilling" ELSE "done"
       /\ result' = <<entry[1], "prepare_error">>
  /\ UNCHANGED <<callers, sidePool, owner, running>>

SideReaderGone ==
  /\ side = "receiving"
  /\ ReceiveFails
  /\ side' = "done"
  /\ \E p \in running : result' = <<p, "reader_stopped">>
  /\ UNCHANGED <<callers, sidePool, owner, running>>

SidePrefills ==
  /\ side = "prefilling"
  /\ side' = "done"
  /\ \E outcome \in {"prefilled", "prefill_error"} : result' = <<result[1], outcome>>
  /\ UNCHANGED <<prefetch, callers, sidePool, owner, running>>

(* The prefill panics; unwinding drops the queue. *)
SidePanics ==
  /\ side = "prefilling"
  /\ side' = "panicked"
  /\ owner' = "nobody"
  /\ CloseQueue
  /\ UNCHANGED <<callers, sidePool, running, result>>

(* Thread ended and handle dropped: its result goes, the queue with it. *)
SideResultDropped ==
  /\ side = "done"
  /\ owner = "side"
  /\ Gone
  /\ owner' = "nobody"
  /\ CloseQueue
  /\ UNCHANGED <<callers, sidePool, running, side, result>>

Side ==
  \/ SideReceives
  \/ SideReaderGone
  \/ SidePrefills
  \/ SidePanics
  \/ SideResultDropped

FeedReader == Reader /\ UNCHANGED <<callers, feed>>

(* std::thread::scope returns once both threads have ended. *)
ScopeEnded == Gone /\ ReaderGone /\ owner = "nobody"
FeedEnded == ScopeEnded /\ UNCHANGED feedVars

FeedNext == Caller \/ Side \/ FeedReader \/ FeedEnded

FeedSpec == FeedInit /\ [][FeedNext]_feedVars

(* Threads run.  The caller polls again, finishes a take it started and     *)
(* leaves at the end; that the rows ever go idle after page 0 is not        *)
(* assumed, so every later page must come by polling.                       *)
FairFeedSpec ==
  /\ FeedSpec
  /\ WF_feedVars(FeedReader)
  /\ WF_feedVars(Side)
  /\ WF_feedVars(AskReady)
  /\ WF_feedVars(StartIdle /\ page = 0)
  /\ WF_feedVars(TakePrefilled \/ TakePanics \/ TakeInline \/ TakeAlone)
  /\ WF_feedVars(DropFeed /\ page = Pages)
------------------------------------------------------------------------------
(* Every take consumes its own page's queue entry, whether the page, its    *)
(* preparation or its prefill failed, so a failure never shifts the pages   *)
(* after it; and the reader is missing only when it panicked.               *)
TakesItsOwn ==
  \A i \in DOMAIN taken :
    /\ taken[i][2] # "out_of_step"
    /\ taken[i][2] = "reader_stopped" => reader = "panicked"

(* A page prefilled on the second pool starts although the rows never go    *)
(* idle: the caller that only polls gets to the end.                        *)
PollingSuffices == <>Gone

(* Whenever the run ends, early or not, dropping the queue ends the         *)
(* prefetch thread and the side prefill, so the scope can return.           *)
ScopeReturns == Gone ~> ScopeEnded
=============================================================================
