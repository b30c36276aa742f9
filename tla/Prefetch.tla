------------------------------ MODULE Prefetch ------------------------------
(***************************************************************************)
(* The prefetch thread of a pipelined run and its queue: Runner::read_pages*)
(* sends every page, prepared or failed, in input order through a bounded  *)
(* sync_channel.  Pipeline and AheadFeed are its two consumers.  The queue *)
(* closes when its receiver is dropped; the sender is dropped when the     *)
(* thread ends, also when a panic in a page's preparation ends it.         *)
(***************************************************************************)
EXTENDS Naturals, Sequences

CONSTANTS Pages,     (* the number of input pages, numbered from 0 *)
          PREFETCH   (* the capacity of the queue                  *)

ASSUME PrefetchAssumption ==
         /\ Pages \in Nat
         /\ PREFETCH \in Nat \ {0}

VARIABLES reader,  (* "preparing", "sending", "ended" or "panicked"         *)
          read,    (* the page the prefetch thread prepares or sends        *)
          holds,   (* whether the page it is sending was prepared           *)
          queue,   (* the entries in the queue: <<index, prepared>>         *)
          closed   (* the receiver was dropped                              *)

prefetch == <<reader, read, holds, queue, closed>>

PageSet == 0 .. Pages - 1
Entries == PageSet \X BOOLEAN

PrefetchInit ==
  /\ reader = "preparing"
  /\ read = 0
  /\ holds = FALSE
  /\ queue = <<>>
  /\ closed = FALSE

(* prepare_path of the next page, which may fail. *)
ReaderPrepares ==
  /\ reader = "preparing"
  /\ read < Pages
  /\ holds' \in BOOLEAN
  /\ reader' = "sending"
  /\ UNCHANGED <<read, queue, closed>>

ReaderPanics ==
  /\ reader = "preparing"
  /\ read < Pages
  /\ reader' = "panicked"
  /\ UNCHANGED <<read, holds, queue, closed>>

\* Mutant of HasRoom: one entry too many.
HasRoomForOneMore == Len(queue) <= PREFETCH

(* The queue's capacity, sync_channel(PREFETCH). *)
HasRoom == Len(queue) < PREFETCH

(* send blocks while the queue is full. *)
ReaderSends ==
  /\ reader = "sending"
  /\ ~closed
  /\ HasRoom
  /\ queue' = Append(queue, <<read, holds>>)
  /\ read' = read + 1
  /\ reader' = "preparing"
  /\ UNCHANGED <<holds, closed>>

(* send fails: "a closed queue means the run stopped". *)
ReaderStops ==
  /\ reader = "sending"
  /\ closed
  /\ reader' = "ended"
  /\ UNCHANGED <<read, holds, queue, closed>>

ReaderEnds ==
  /\ reader = "preparing"
  /\ read = Pages
  /\ reader' = "ended"
  /\ UNCHANGED <<read, holds, queue, closed>>

Reader ==
  \/ ReaderPrepares
  \/ ReaderPanics
  \/ ReaderSends
  \/ ReaderStops
  \/ ReaderEnds

ReaderGone == reader \in {"ended", "panicked"}

(* recv of the queue's next entry. *)
Receive(entry) ==
  /\ queue # <<>>
  /\ entry = Head(queue)
  /\ queue' = Tail(queue)
  /\ UNCHANGED <<reader, read, holds, closed>>

(* recv fails: the queue is empty and its sender is gone. *)
ReceiveFails ==
  /\ queue = <<>>
  /\ ReaderGone
  /\ UNCHANGED prefetch

(* The receiver is dropped, with the entries left in the queue. *)
CloseQueue ==
  /\ closed' = TRUE
  /\ queue' = <<>>
  /\ UNCHANGED <<reader, read, holds>>

(* Prepared pages the prefetch thread keeps: those in the queue and the one *)
(* in its hand while the queue is full.                                     *)
PreparedAhead == Len(queue) + (IF reader = "sending" THEN 1 ELSE 0)
=============================================================================
