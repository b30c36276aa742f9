--------------------------- MODULE PrefetchProofs ---------------------------
(***************************************************************************)
(* The prefetch queue of a pipelined run and its two consumers, for every  *)
(* number of pages and every capacity: the queue gives the next page, in   *)
(* input order and once, until the last one or until the prefetch thread   *)
(* panicked (Prefetch); so a run at batch size 1 answers the pages in      *)
(* order (Pipeline), and in continuous batching every take gets its own    *)
(* page (AheadFeed).                                                       *)
(***************************************************************************)
EXTENDS Pipeline, AheadFeed, FiniteSetTheorems, SequenceTheorems, TLAPS

(* The entries that have left the queue, until its receiver is dropped. *)
Received == read - Len(queue)

(* The queue holds the pages read last, in order and each once; the thread  *)
(* that fills it ends at the last page, in a panic or on a closed queue.    *)
QueueInv ==
  /\ reader \in {"preparing", "sending", "ended", "panicked"}
  /\ read \in Nat /\ read <= Pages
  /\ holds \in BOOLEAN
  /\ queue \in Seq(Entries) /\ Len(queue) <= read /\ Len(queue) <= PREFETCH
  /\ closed \in BOOLEAN
  /\ reader = "sending" => read < Pages
  /\ reader = "ended" => closed \/ read = Pages
  /\ closed => queue = <<>>
  /\ \A i \in 1 .. Len(queue) : queue[i][1] = Received + i - 1

(* Nothing has been read yet. *)
LEMMA QueueStarts ==
  ASSUME PrefetchInit
  PROVE  QueueInv /\ Received = 0
<1>1. queue \in Seq(Entries) /\ Len(queue) = 0 /\ read = 0
  BY EmptySeq DEF PrefetchInit
<1>2. Received = 0
  BY <1>1 DEF Received
<1>3. \A i \in 1 .. Len(queue) : queue[i][1] = Received + i - 1
  BY <1>1
<1>4. Len(queue) <= read /\ Len(queue) <= PREFETCH /\ read \in Nat /\ read <= Pages
  BY <1>1, PrefetchAssumption
<1> QED
  BY <1>1, <1>2, <1>3, <1>4 DEF PrefetchInit, QueueInv

(* The thread sends the page it read behind those in the queue. *)
LEMMA SendKeepsQueue ==
  ASSUME QueueInv, ReaderSends
  PROVE  QueueInv' /\ Received' = Received
<1> DEFINE e == <<read, holds>>
<1>1. e \in Entries
  BY PrefetchAssumption DEF QueueInv, ReaderSends, Entries, PageSet
<1>2. queue \in Seq(Entries) /\ queue' = Append(queue, e)
  BY DEF QueueInv, ReaderSends
<1>3. e[1] = read
  OBVIOUS
<1> HIDE DEF e
<1>4. /\ Append(queue, e) \in Seq(Entries)
      /\ Len(Append(queue, e)) = Len(queue) + 1
      /\ \A i \in 1 .. Len(queue) : Append(queue, e)[i] = queue[i]
      /\ Append(queue, e)[Len(queue) + 1] = e
  BY <1>1, <1>2, AppendProperties
<1>5. /\ queue' \in Seq(Entries)
      /\ Len(queue') = Len(queue) + 1
      /\ \A i \in 1 .. Len(queue) : queue'[i] = queue[i]
      /\ queue'[Len(queue) + 1] = e
      /\ Len(queue) \in Nat
  BY <1>2, <1>4, LenProperties
<1>6. read \in Nat /\ read' = read + 1 /\ read' <= Pages
  BY PrefetchAssumption DEF QueueInv, ReaderSends
<1>7. Received' = Received
  BY <1>5, <1>6 DEF Received
<1>8. \A i \in 1 .. Len(queue') : queue'[i][1] = Received' + i - 1
  <2>1. \A i \in 1 .. Len(queue) : queue[i][1] = Received + i - 1
    BY DEF QueueInv
  <2>2. read = Received + (Len(queue) + 1) - 1
    BY <1>5, <1>6 DEF Received
  <2> QED
    BY <1>3, <1>5, <1>7, <2>1, <2>2
<1>9. Len(queue') <= read' /\ Len(queue') <= PREFETCH
  BY <1>5, <1>6, PrefetchAssumption DEF QueueInv, ReaderSends, HasRoom
<1> QED
  BY <1>5, <1>6, <1>7, <1>8, <1>9, PrefetchAssumption DEF QueueInv, ReaderSends

(* Whatever the thread does, nothing leaves the queue; once it ended or     *)
(* panicked it does nothing more.                                           *)
LEMMA ReaderKeepsQueue ==
  ASSUME QueueInv, Reader
  PROVE  QueueInv' /\ Received' = Received /\ closed' = closed /\ ~ReaderGone
<1>1. CASE ReaderSends
  BY <1>1, SendKeepsQueue DEF ReaderSends, ReaderGone
<1>2. CASE ReaderPrepares
  BY <1>2 DEF ReaderPrepares, QueueInv, Received, ReaderGone
<1>3. CASE ReaderPanics
  BY <1>3 DEF ReaderPanics, QueueInv, Received, ReaderGone
<1>4. CASE ReaderStops
  BY <1>4 DEF ReaderStops, QueueInv, Received, ReaderGone
<1>5. CASE ReaderEnds
  BY <1>5 DEF ReaderEnds, QueueInv, Received, ReaderGone
<1> QED
  BY <1>1, <1>2, <1>3, <1>4, <1>5 DEF Reader

(* recv gives the page after those received, and only it. *)
LEMMA ReceiveGivesNext ==
  ASSUME QueueInv, NEW entry, Receive(entry)
  PROVE  /\ QueueInv'
         /\ entry \in Entries
         /\ entry[1] = Received /\ Received \in Nat /\ Received < Pages
         /\ Received' = Received + 1
         /\ ~closed /\ closed' = closed /\ reader' = reader
<1>1. /\ queue \in Seq(Entries) /\ queue # <<>>
      /\ entry = Head(queue) /\ queue' = Tail(queue)
      /\ read' = read /\ read \in Nat /\ read <= Pages /\ Pages \in Nat
      /\ Len(queue) <= read /\ Len(queue) <= PREFETCH
      /\ UNCHANGED <<reader, read, holds, closed>>
  BY PrefetchAssumption DEF QueueInv, Receive
<1>2. Head(queue) \in Entries /\ Tail(queue) \in Seq(Entries)
  BY <1>1, HeadTailProperties
<1>3. /\ Len(Tail(queue)) = Len(queue) - 1
      /\ \A i \in 1 .. Len(Tail(queue)) : Tail(queue)[i] = queue[i + 1]
  BY <1>1, HeadTailProperties
<1>4. Head(queue) = queue[1]
  BY <1>1
<1>5. Len(queue) \in Nat /\ Len(queue) > 0
  BY <1>1, EmptySeq, LenProperties
<1>6. /\ Received \in Nat /\ Received < Pages
  BY <1>1, <1>5 DEF Received
<1>7. Received' = Received + 1
  BY <1>1, <1>3, <1>5 DEF Received
<1>8. \A i \in 1 .. Len(queue) : queue[i][1] = Received + i - 1
  BY DEF QueueInv
<1>9. entry[1] = Received
  BY <1>1, <1>4, <1>5, <1>6, <1>8
<1>10. \A i \in 1 .. Len(queue') : queue'[i][1] = Received' + i - 1
  <2> TAKE i \in 1 .. Len(queue')
  <2>1. i + 1 \in 1 .. Len(queue) /\ queue'[i] = queue[i + 1]
    BY <1>1, <1>3, <1>5
  <2>2. queue[i + 1][1] = Received + (i + 1) - 1
    BY <1>8, <2>1
  <2> QED
    BY <1>6, <1>7, <2>1, <2>2
<1>11. ~closed
  BY <1>1 DEF QueueInv
<1>12. Len(queue') <= read' /\ Len(queue') <= PREFETCH
  BY <1>1, <1>3, <1>5, PrefetchAssumption
<1> QED
  BY <1>1, <1>2, <1>6, <1>7, <1>9, <1>10, <1>11, <1>12 DEF QueueInv

(* recv fails after the last page, or because the thread panicked. *)
LEMMA NothingToReceive ==
  ASSUME QueueInv, ~closed, ReceiveFails
  PROVE  QueueInv' /\ (Received = Pages \/ reader = "panicked")
<1>1. Len(queue) = 0
  BY EmptySeq DEF ReceiveFails
<1>2. read = Pages \/ reader = "panicked"
  BY DEF QueueInv, ReceiveFails, ReaderGone
<1>3. QueueInv'
  BY DEF QueueInv, ReceiveFails, prefetch, Received
<1> QED
  BY <1>1, <1>2, <1>3 DEF QueueInv, Received

(* The receiver goes, with what the queue holds. *)
LEMMA CloseKeepsQueue ==
  ASSUME QueueInv, CloseQueue
  PROVE  QueueInv'
BY PrefetchAssumption, EmptySeq DEF QueueInv, CloseQueue, Received

(* Steps that leave the queue alone keep what it promises. *)
LEMMA QueueUnchanged ==
  ASSUME QueueInv, UNCHANGED prefetch
  PROVE  QueueInv' /\ Received' = Received
BY DEF QueueInv, prefetch, Received
------------------------------------------------------------------------------
(* The pages that had their turn: answered or decoding. *)
Begun == Len(delivered) + (IF main \in {"decode", "answer"} THEN 1 ELSE 0)

Types ==
  /\ main \in {"next", "decode", "answer", "join", "left"}
  /\ started \in Nat
  /\ current \in Nat
  /\ answer \in {"none", "text", "error"}
  /\ delivered \in Seq(Nat \X {"text", "error"})
  /\ broke \in BOOLEAN
  /\ ended \in {"ok", "reader_stopped", "panic"}
  /\ stager \in {"idle", "receiving", "prefilling", "done", "stopped", "panicked"}

(* Where control is says what is staged: between pages nothing runs beside  *)
(* the caller, and the page staged ahead is the next one.                   *)
PlaceInv ==
  /\ closed => main = "left"
  /\ broke => main \in {"join", "left"}
  /\ ended # "ok" => main = "left"
  /\ answer # "none" <=> main = "answer"
  /\ main \in {"decode", "answer"} => current = Len(delivered)
  /\ main = "next" => stager = "idle"
  /\ main = "left" => stager \notin {"receiving", "prefilling"}
  /\ main \in {"decode", "answer", "join"} =>
       (ahead # {} <=> stager \in {"prefilling", "done"})

(* Pages are started and received in input order, one ahead at most. *)
StageInv ==
  /\ ahead = {} \/ \E ok \in BOOLEAN : ahead = {<<Begun, ok>>}
  /\ started = Begun + (IF stager # "idle" \/ ahead # {} THEN 1 ELSE 0)
  /\ ~closed => Received = Begun + (IF stager = "panicked" \/ ahead # {} THEN 1 ELSE 0)
  /\ started <= Pages
  /\ stager = "stopped" => reader = "panicked"

PipeInv == Types /\ QueueInv /\ PlaceInv /\ StageInv /\ EndsAsItSays
------------------------------------------------------------------------------
(* Nothing is staged or received before the run starts. *)
LEMMA PipeInit == Init => PipeInv
<1> SUFFICES ASSUME Init PROVE PipeInv
  OBVIOUS
<1>1. QueueInv /\ Received = 0
  BY QueueStarts DEF Init
<1>2. delivered \in Seq(Nat \X {"text", "error"}) /\ Len(delivered) = 0
  BY EmptySeq DEF Init
<1>3. Types
  BY <1>2 DEF Init, Types
<1>4. Begun = 0
  BY <1>2 DEF Init, Begun
<1>5. StageInv
  BY <1>1, <1>4, PrefetchAssumption DEF Init, StageInv, PrefetchInit
<1>6. PlaceInv /\ EndsAsItSays
  BY DEF Init, PrefetchInit, PlaceInv, EndsAsItSays
<1> QED
  BY <1>1, <1>3, <1>5, <1>6 DEF PipeInv

(* The counts, as the arithmetic of the steps needs them. *)
LEMMA Counts ==
  ASSUME PipeInv
  PROVE  Len(delivered) \in Nat /\ Begun \in Nat /\ Begun <= Pages /\ Pages \in Nat
<1>1. Len(delivered) \in Nat
  BY LenProperties DEF PipeInv, Types
<1>2. Begun \in Nat
  BY <1>1 DEF Begun
<1>3. started = Begun \/ started = Begun + 1
  BY <1>2 DEF PipeInv, StageInv
<1> QED
  BY <1>1, <1>2, <1>3, PrefetchAssumption DEF PipeInv, StageInv

(* Between two pages the caller alone stages: the next entry of the queue   *)
(* is the page whose turn it is.                                            *)
LEMMA StageInlineInv == ASSUME PipeInv, StageInline PROVE PipeInv'
<1>1. PICK entry \in Entries :
         /\ Receive(entry)
         /\ \E item \in Staged(entry) : ahead' = {item}
         /\ started' = entry[1] + 1
  BY DEF StageInline
<1>2. /\ main = "next" /\ stager = "idle" /\ ahead = {} /\ Len(delivered) < Pages
      /\ UNCHANGED <<main, current, answer, delivered, broke, ended, second, stager>>
  BY DEF StageInline, MorePages, PipeInv, PlaceInv
<1>3. /\ QueueInv' /\ entry[1] = Received /\ Received' = Received + 1
      /\ ~closed /\ closed' = closed /\ reader' = reader
  BY <1>1, ReceiveGivesNext DEF PipeInv
<1>4. Begun = Len(delivered) /\ Begun' = Begun /\ Len(delivered) \in Nat /\ Pages \in Nat
  BY <1>2, Counts DEF Begun
<1>5. Received = Begun
  BY <1>2, <1>3, <1>4 DEF PipeInv, StageInv
<1>6. \E ok \in BOOLEAN : ahead' = {<<Begun, ok>>}
  BY <1>1, <1>3, <1>5 DEF Staged, Entries
<1>7. ahead' # {}
  BY <1>6
<1>8. started' = Begun + 1 /\ started' <= Pages /\ started' \in Nat
  BY <1>1, <1>2, <1>3, <1>4, <1>5
<1>9. StageInv'
  BY <1>2, <1>3, <1>4, <1>5, <1>6, <1>7, <1>8 DEF StageInv
<1>10. Types' /\ PlaceInv' /\ EndsAsItSays'
  BY <1>2, <1>3, <1>8 DEF PipeInv, Types, PlaceInv, EndsAsItSays
<1> QED
  BY <1>3, <1>9, <1>10 DEF PipeInv

(* The page staged ahead is the one whose turn it is. *)
LEMMA AheadIsNext ==
  ASSUME PipeInv, NEW item \in ahead
  PROVE  item[1] = Begun /\ item[2] \in BOOLEAN /\ item = <<item[1], item[2]>> /\ ahead = {item}
BY DEF PipeInv, StageInv

(* The staged page has its turn, and the thread beside it may start. *)
LEMMA TakeStagedInv == ASSUME PipeInv, TakeStaged PROVE PipeInv'
<1>1. PICK item \in ahead : Begin(item)
  BY DEF TakeStaged
<1>2. /\ main = "next" /\ stager = "idle" /\ ahead' = {} /\ Len(delivered) < Pages
      /\ UNCHANGED prefetch /\ UNCHANGED <<delivered, broke, ended>>
      /\ answer = "none" /\ ~broke /\ ended = "ok" /\ ~closed
  BY <1>1 DEF TakeStaged, MorePages, Begin, PipeInv, PlaceInv, Types
<1>3. QueueInv' /\ Received' = Received
  BY <1>2, QueueUnchanged DEF PipeInv
<1>4. item[1] = Begun /\ Begun = Len(delivered) /\ Len(delivered) \in Nat /\ Pages \in Nat
  BY <1>2, AheadIsNext, Counts DEF Begun
<1>5. main' \in {"decode", "answer"} /\ Begun' = Begun + 1
  BY <1>1, <1>2, <1>4 DEF Begin, Begun
<1>6. /\ current' = Len(delivered)
      /\ \/ main' = "decode" /\ answer' = "none"
         \/ main' = "answer" /\ answer' = "error"
      /\ \/ stager' = "idle"
         \/ stager' = "receiving" /\ item[1] + 1 < Pages
      /\ started' = IF stager' = "receiving" THEN started + 1 ELSE started
  BY <1>1, <1>4 DEF Begin, OffersSide
<1>7. started = Begun + 1 /\ Received = Begun + 1
  BY <1>1, <1>2, <1>4 DEF PipeInv, StageInv
<1>8. /\ started' = Begun' + (IF stager' # "idle" THEN 1 ELSE 0)
      /\ started' <= Pages /\ started' \in Nat
  BY <1>2, <1>4, <1>5, <1>6, <1>7
<1>9. StageInv'
  BY <1>2, <1>3, <1>5, <1>6, <1>7, <1>8 DEF StageInv
<1>10. Types'
  BY <1>2, <1>4, <1>6, <1>8 DEF PipeInv, Types
<1>11. PlaceInv' /\ EndsAsItSays'
  BY <1>2, <1>5, <1>6 DEF prefetch, PlaceInv, EndsAsItSays
<1> QED
  BY <1>3, <1>9, <1>10, <1>11 DEF PipeInv

(* Without a page to stage the run ends; the pages are not all received, so *)
(* the prefetch thread panicked.                                            *)
LEMMA ReaderLostInv == ASSUME PipeInv, ReaderLost PROVE PipeInv'
<1>1. /\ main = "next" /\ stager = "idle" /\ ahead = {} /\ Len(delivered) < Pages
      /\ UNCHANGED prefetch /\ ReceiveFails /\ ~closed
      /\ main' = "left" /\ ended' = "reader_stopped"
      /\ UNCHANGED <<started, current, answer, delivered, broke, second, ahead, stager>>
  BY DEF ReaderLost, ReceiveFails, MorePages, Leave, staging, PipeInv, PlaceInv
<1>2. QueueInv' /\ Received' = Received /\ (Received = Pages \/ reader = "panicked")
  BY <1>1, NothingToReceive, QueueUnchanged DEF PipeInv
<1>3. Begun = Len(delivered) /\ Begun' = Begun /\ Len(delivered) \in Nat
  BY <1>1, Counts DEF Begun
<1>4. Received = Begun
  BY <1>1, <1>3 DEF PipeInv, StageInv
<1>5. reader = "panicked"
  BY <1>1, <1>2, <1>3, <1>4, PrefetchAssumption
<1>6. StageInv'
  BY <1>1, <1>2, <1>3 DEF PipeInv, StageInv, prefetch
<1>7. Types' /\ PlaceInv' /\ EndsAsItSays'
  BY <1>1, <1>5 DEF PipeInv, Types, PlaceInv, EndsAsItSays, prefetch
<1> QED
  BY <1>2, <1>6, <1>7 DEF PipeInv

(* Decoding the page in turn, while the next one is prepared. *)
LEMMA DecodeInv == ASSUME PipeInv, Decode PROVE PipeInv'
<1>1. /\ main = "decode" /\ main' = "answer" /\ answer' \in {"text", "error"}
      /\ UNCHANGED prefetch
      /\ UNCHANGED <<started, current, delivered, broke, ended, second, ahead, stager>>
  BY DEF Decode, staging
<1>2. QueueInv' /\ Received' = Received
  BY <1>1, QueueUnchanged DEF PipeInv
<1>3. Begun' = Begun
  BY <1>1 DEF Begun
<1>4. StageInv'
  BY <1>1, <1>2, <1>3 DEF PipeInv, StageInv, prefetch
<1>5. Types' /\ PlaceInv' /\ EndsAsItSays'
  BY <1>1 DEF PipeInv, Types, PlaceInv, EndsAsItSays, prefetch
<1> QED
  BY <1>2, <1>4, <1>5 DEF PipeInv

(* The callback's answer on a page that had its turn. *)
LEMMA AnswerInv == ASSUME PipeInv, Answer PROVE PipeInv'
<1>1. /\ main = "answer" /\ main' = "join" /\ answer' = "none" /\ broke' \in BOOLEAN
      /\ delivered' = Append(delivered, <<current, answer>>)
      /\ UNCHANGED prefetch /\ UNCHANGED <<started, current, ended, second, ahead, stager>>
  BY DEF Answer, staging
<1>2. QueueInv' /\ Received' = Received
  BY <1>1, QueueUnchanged DEF PipeInv
<1>3. <<current, answer>> \in Nat \X {"text", "error"}
  BY <1>1 DEF PipeInv, Types, PlaceInv
<1>4. delivered' \in Seq(Nat \X {"text", "error"}) /\ Len(delivered') = Len(delivered) + 1
  BY <1>1, <1>3, AppendProperties DEF PipeInv, Types
<1>5. Begun' = Begun
  BY <1>1, <1>4, Counts DEF Begun
<1>6. StageInv'
  BY <1>1, <1>2, <1>5 DEF PipeInv, StageInv, prefetch
<1>7. Types'
  BY <1>1, <1>4 DEF PipeInv, Types
<1>8. PlaceInv' /\ EndsAsItSays'
  BY <1>1 DEF PipeInv, Types, PlaceInv, EndsAsItSays, prefetch
<1> QED
  BY <1>2, <1>6, <1>7, <1>8 DEF PipeInv

(* The overlap is over: the staging thread has ended, one way or another. *)
LEMMA JoinInv == ASSUME PipeInv, Join PROVE PipeInv'
<1>1. /\ main = "join" /\ stager \in {"idle", "done", "stopped", "panicked"}
      /\ stager' = IF stager = "done" THEN "idle" ELSE stager
      /\ UNCHANGED <<started, current, answer, delivered, broke, second, ahead>>
      /\ UNCHANGED prefetch
  BY DEF Join, MayJoin, Leave, PipeInv, Types
<1>2. \/ stager = "stopped" /\ main' = "left" /\ ended' = "reader_stopped"
      \/ stager = "panicked" /\ main' = "left" /\ ended' = "panic"
      \/ stager \in {"idle", "done"} /\ broke /\ main' = "left" /\ ended' = "ok"
      \/ stager \in {"idle", "done"} /\ ~broke /\ main' = "next" /\ ended' = ended
  BY <1>1 DEF Join, Leave, Stops
<1>3. QueueInv' /\ Received' = Received
  BY <1>1, QueueUnchanged DEF PipeInv
<1>4. Begun' = Begun
  BY <1>1, <1>2 DEF Begun
<1>5. /\ stager = "done" => ahead # {}
      /\ stager = "stopped" => reader = "panicked"
      /\ ended = "ok" /\ ~closed /\ answer = "none"
  BY <1>1 DEF PipeInv, PlaceInv, StageInv, Types
<1>6. StageInv'
  BY <1>1, <1>3, <1>4, <1>5 DEF PipeInv, StageInv, prefetch
<1>7. Types'
  BY <1>1, <1>2 DEF PipeInv, Types
<1>8. PlaceInv'
  BY <1>1, <1>2, <1>5 DEF PlaceInv, prefetch
<1>9. EndsAsItSays'
  BY <1>1, <1>2, <1>5 DEF EndsAsItSays, prefetch
<1> QED
  BY <1>3, <1>6, <1>7, <1>8, <1>9 DEF PipeInv

(* The run ends with every page answered. *)
LEMMA AllDoneInv == ASSUME PipeInv, AllDone PROVE PipeInv'
<1>1. /\ main = "next" /\ main' = "left" /\ ended' = "ok" /\ ~(Len(delivered) < Pages)
      /\ UNCHANGED <<started, current, answer, delivered, broke, second, ahead, stager>>
      /\ UNCHANGED prefetch
  BY DEF AllDone, MorePages, Leave, staging
<1>2. QueueInv' /\ Received' = Received
  BY <1>1, QueueUnchanged DEF PipeInv
<1>3. Begun = Len(delivered) /\ Begun' = Begun
  BY <1>1, Counts DEF Begun
<1>4. Len(delivered) = Pages
  BY <1>1, <1>3, Counts
<1>5. StageInv'
  BY <1>1, <1>2, <1>3 DEF PipeInv, StageInv, prefetch
<1>6. Types' /\ PlaceInv'
  BY <1>1 DEF PipeInv, Types, PlaceInv, prefetch
<1>7. EndsAsItSays'
  BY <1>1, <1>4 DEF EndsAsItSays
<1> QED
  BY <1>2, <1>5, <1>6, <1>7 DEF PipeInv

(* Dropping the receiver after the run ended. *)
LEMMA DropInv == ASSUME PipeInv, Drop PROVE PipeInv'
<1>1. main = "left" /\ CloseQueue /\ UNCHANGED <<mainThread, staging>>
  BY DEF Drop, DropReceiver
<1>2. QueueInv' /\ closed' /\ reader' = reader
  BY <1>1, CloseKeepsQueue DEF PipeInv, CloseQueue
<1>3. Begun' = Begun
  BY <1>1 DEF Begun, mainThread
<1>4. Types' /\ PlaceInv' /\ EndsAsItSays'
  BY <1>1, <1>2 DEF PipeInv, Types, PlaceInv, EndsAsItSays, mainThread, staging
<1>5. StageInv'
  BY <1>1, <1>2, <1>3 DEF PipeInv, StageInv, mainThread, staging
<1> QED
  BY <1>2, <1>4, <1>5 DEF PipeInv
------------------------------------------------------------------------------
(* While the staging thread has nothing yet, the caller is inside the page  *)
(* beside which it runs, and the queue's next entry is the page after.      *)
LEMMA WhileReceiving ==
  ASSUME PipeInv, stager = "receiving"
  PROVE  /\ main \in {"decode", "answer", "join"} /\ ahead = {} /\ ~closed /\ ended = "ok"
         /\ Received = Begun /\ started = Begun + 1 /\ Begun < Pages
<1>1. main \in {"decode", "answer", "join"} /\ ahead = {} /\ ~closed /\ ended = "ok"
  BY DEF PipeInv, Types, PlaceInv
<1>2. Begun \in Nat /\ Pages \in Nat
  BY Counts
<1>3. started = Begun + 1 /\ started <= Pages
  BY DEF PipeInv, StageInv
<1>4. Received = Begun
  BY <1>1, <1>2 DEF PipeInv, StageInv
<1> QED
  BY <1>1, <1>2, <1>3, <1>4

(* The prefetch thread receives the page after the one in turn. *)
LEMMA StagerReceivesInv == ASSUME PipeInv, StagerReceives PROVE PipeInv'
<1>1. PICK entry \in Entries :
         /\ Receive(entry)
         /\ ahead' = {entry}
         /\ stager' = IF entry[2] THEN "prefilling" ELSE "done"
  BY DEF StagerReceives
<1>2. stager = "receiving" /\ UNCHANGED mainThread
  BY DEF StagerReceives
<1>3. /\ QueueInv' /\ entry[1] = Received /\ Received' = Received + 1
      /\ ~closed /\ closed' = closed /\ reader' = reader
  BY <1>1, ReceiveGivesNext DEF PipeInv
<1>4. Begun' = Begun
  BY <1>2 DEF Begun, mainThread
<1>5. \E ok \in BOOLEAN : ahead' = {<<Begun, ok>>}
  BY <1>1, <1>2, <1>3, WhileReceiving DEF Entries
<1>6. ahead' # {} /\ stager' \in {"prefilling", "done"}
  BY <1>1
<1>7. /\ started' = Begun' + 1 /\ started' <= Pages
      /\ Received' = Begun' + 1
  BY <1>2, <1>3, <1>4, WhileReceiving DEF PipeInv, StageInv, mainThread
<1>8. StageInv'
  BY <1>4, <1>5, <1>6, <1>7 DEF StageInv
<1>9. Types' /\ PlaceInv' /\ EndsAsItSays'
  BY <1>2, <1>3, <1>6, WhileReceiving DEF PipeInv, Types, PlaceInv, EndsAsItSays, mainThread
<1> QED
  BY <1>3, <1>8, <1>9 DEF PipeInv

(* It finds the reader gone. *)
LEMMA StagerStoppedInv == ASSUME PipeInv, StagerStopped PROVE PipeInv'
<1>1. /\ stager = "receiving" /\ stager' = "stopped" /\ ReceiveFails
      /\ UNCHANGED <<mainThread, ahead>> /\ UNCHANGED prefetch
  BY DEF StagerStopped, ReceiveFails
<1>2. QueueInv' /\ Received' = Received /\ (Received = Pages \/ reader = "panicked")
  BY <1>1, WhileReceiving, NothingToReceive, QueueUnchanged DEF PipeInv
<1>3. reader = "panicked"
  BY <1>1, <1>2, WhileReceiving, Counts
<1>4. Begun' = Begun
  BY <1>1 DEF Begun, mainThread
<1>5. StageInv'
  BY <1>1, <1>2, <1>3, <1>4 DEF PipeInv, StageInv, mainThread, prefetch
<1>6. Types' /\ PlaceInv' /\ EndsAsItSays'
  BY <1>1, <1>3, WhileReceiving DEF PipeInv, Types, PlaceInv, EndsAsItSays, mainThread, prefetch
<1> QED
  BY <1>2, <1>5, <1>6 DEF PipeInv

(* A prefill in progress has its page. *)
LEMMA WhilePrefilling ==
  ASSUME PipeInv, stager = "prefilling"
  PROVE  /\ main \in {"decode", "answer", "join"} /\ ahead # {} /\ ~closed
         /\ started = Begun + 1 /\ Received = Begun + 1
<1>1. main \in {"decode", "answer", "join"} /\ ahead # {} /\ ~closed
  BY DEF PipeInv, Types, PlaceInv
<1> QED
  BY <1>1 DEF PipeInv, StageInv

(* It stages the page it received, or its failure. *)
LEMMA StagerPrefillsInv == ASSUME PipeInv, StagerPrefills PROVE PipeInv'
<1>1. PICK item \in ahead : \E staged \in Staged(item) : ahead' = {staged}
  BY DEF StagerPrefills
<1>2. stager = "prefilling" /\ stager' = "done" /\ UNCHANGED <<prefetch, mainThread>>
  BY DEF StagerPrefills
<1>3. QueueInv' /\ Received' = Received /\ Begun' = Begun
  BY <1>2, QueueUnchanged DEF PipeInv, Begun, mainThread
<1>4. \E ok \in BOOLEAN : ahead' = {<<Begun, ok>>}
  BY <1>1, AheadIsNext DEF Staged
<1>5. ahead' # {}
  BY <1>4
<1>6. StageInv'
  BY <1>2, <1>3, <1>4, <1>5, WhilePrefilling DEF PipeInv, StageInv, mainThread, prefetch
<1>7. Types' /\ PlaceInv' /\ EndsAsItSays'
  BY <1>2, <1>5, WhilePrefilling DEF PipeInv, Types, PlaceInv, EndsAsItSays, mainThread, prefetch
<1> QED
  BY <1>3, <1>6, <1>7 DEF PipeInv

(* It panics: nothing is staged and the run ends at the join. *)
LEMMA StagerPanicsInv == ASSUME PipeInv, StagerPanics PROVE PipeInv'
<1>1. /\ stager = "prefilling" /\ stager' = "panicked" /\ ahead' = {}
      /\ UNCHANGED <<prefetch, mainThread>>
  BY DEF StagerPanics
<1>2. QueueInv' /\ Received' = Received /\ Begun' = Begun
  BY <1>1, QueueUnchanged DEF PipeInv, Begun, mainThread
<1>3. StageInv'
  BY <1>1, <1>2, WhilePrefilling DEF PipeInv, StageInv, mainThread, prefetch
<1>4. Types' /\ PlaceInv' /\ EndsAsItSays'
  BY <1>1, WhilePrefilling DEF PipeInv, Types, PlaceInv, EndsAsItSays, mainThread, prefetch
<1> QED
  BY <1>2, <1>3, <1>4 DEF PipeInv

(* The reader's steps move only the queue. *)
LEMMA ReaderStepInv == ASSUME PipeInv, ReaderStep PROVE PipeInv'
<1>1. /\ QueueInv' /\ Received' = Received /\ closed' = closed
      /\ reader \notin {"ended", "panicked"}
  BY ReaderKeepsQueue DEF ReaderStep, PipeInv, ReaderGone
<1>2. UNCHANGED <<mainThread, staging>> /\ Begun' = Begun
  BY DEF ReaderStep, Begun, mainThread
<1>3. Types' /\ PlaceInv' /\ EndsAsItSays'
  BY <1>1, <1>2 DEF PipeInv, Types, PlaceInv, EndsAsItSays, mainThread, staging
<1>4. StageInv'
  BY <1>1, <1>2 DEF PipeInv, StageInv, mainThread, staging
<1> QED
  BY <1>1, <1>3, <1>4 DEF PipeInv

(* A step of nothing keeps the invariant. *)
LEMMA PipeStutters == ASSUME PipeInv, UNCHANGED vars PROVE PipeInv'
<1>1. QueueInv' /\ Received' = Received /\ Begun' = Begun
  BY QueueUnchanged DEF PipeInv, vars, Begun, mainThread
<1> QED
  BY <1>1 DEF PipeInv, Types, PlaceInv, StageInv, EndsAsItSays, vars, prefetch, mainThread, staging

(* Every step of the pipelined run keeps the invariant. *)
LEMMA PipeStep == PipeInv /\ [Next]_vars => PipeInv'
<1> SUFFICES ASSUME PipeInv, [Next]_vars PROVE PipeInv'
  OBVIOUS
<1>1. CASE Main
  BY <1>1, StageInlineInv, TakeStagedInv, ReaderLostInv, DecodeInv, AnswerInv, JoinInv,
     AllDoneInv, DropInv DEF Main
<1>2. CASE Stager
  BY <1>2, StagerReceivesInv, StagerStoppedInv, StagerPrefillsInv, StagerPanicsInv DEF Stager
<1>3. CASE ReaderStep
  BY <1>3, ReaderStepInv
<1>4. CASE UNCHANGED vars
  BY <1>4, PipeStutters
<1> QED
  BY <1>1, <1>2, <1>3, <1>4 DEF Next, Ended

(* The pages are received, started, answered and delivered in step, for     *)
(* every interleaving of the caller, the staging thread and the prefetch    *)
(* thread (runner/pipeline.rs).                                             *)
THEOREM PipeInvariant == Spec => []PipeInv
  BY PipeInit, PipeStep, PTL DEF Spec

(* "Up to PREFETCH + 2 prepared pages are in flight ahead of the decoding   *)
(* ones", and the caller and the staging thread never take from the queue   *)
(* at the same time.                                                        *)
THEOREM BoundedAhead == Spec => []InFlightBound
<1>1. PipeInv => InFlightBound
  <2> SUFFICES ASSUME PipeInv PROVE InFlightBound
    OBVIOUS
  <2>1. stager \in {"receiving", "prefilling"} => main \in {"decode", "answer", "join"}
    BY DEF PipeInv, Types, PlaceInv
  <2>2. Cardinality(ahead) \in {0, 1}
    BY FS_EmptySet, FS_Singleton DEF PipeInv, StageInv
  <2>3. Len(queue) \in Nat /\ Len(queue) <= PREFETCH
    BY LenProperties DEF PipeInv, QueueInv
  <2>4. PreparedAhead \in Nat /\ PreparedAhead <= PREFETCH + 1
    BY <2>3, PrefetchAssumption DEF PreparedAhead
  <2> QED
    BY <2>1, <2>2, <2>4, PrefetchAssumption DEF InFlightBound
<1> QED
  BY <1>1, PipeInvariant, PTL

(* A run that returns Ok answered every page or was told to stop, and one   *)
(* that says the reader stopped has lost it to a panic.                     *)
THEOREM EndsTruly == Spec => []EndsAsItSays
<1>1. PipeInv => EndsAsItSays
  BY DEF PipeInv
<1> QED
  BY <1>1, PipeInvariant, PTL
------------------------------------------------------------------------------
(* The pages in flight, as the stream counts them: started, not yet handed  *)
(* over and without an answer.                                              *)
LEMMA InFlightIs ==
  ASSUME PipeInv
  PROVE  \A p : p \in Stream!InFlight <=>
                  /\ p \in PageSet
                  /\ p < started
                  /\ Len(delivered) <= p
                  /\ ~(p = current /\ answer # "none")
<1>1. Stream!PageSet = PageSet /\ Stream!Absent = "absent"
  BY DEF Stream!PageSet, PageSet, Stream!Absent
<1>2. \A p \in PageSet : Held[p] = "absent" <=> ~(p = current /\ answer # "none")
  BY DEF Held, PipeInv, Types
<1>3. \A p \in PageSet : p \notin Stream!Handed <=> Len(delivered) <= p
  BY Counts DEF Stream!Handed, PageSet
<1> QED
  BY <1>1, <1>2, <1>3 DEF Stream!InFlight

(* The stream's Start: between two pages one more is staged, beside the one *)
(* whose turn comes.                                                        *)
LEMMA Starting ==
  ASSUME PipeInv, main = "next", started < Pages, started' = started + 1,
         Held' = Held, UNCHANGED <<delivered, broke>>
  PROVE  Stream!Start
<1>1. ~broke /\ answer = "none"
  BY DEF PipeInv, PlaceInv, Types
<1>2. ~Stream!FailureHeld
  BY <1>1 DEF Stream!FailureHeld, Stream!PageSet, PageSet, Held
<1>3. Len(delivered) \in Nat /\ started \in Nat /\ started <= Len(delivered) + 1
  BY Counts DEF PipeInv, Types, StageInv, Begun
<1>4. Stream!InFlight \subseteq {Len(delivered)}
  BY <1>3, InFlightIs, PrefetchAssumption DEF PageSet
<1>5. Cardinality(Stream!InFlight) < 2
  <2>1. Stream!InFlight = {} \/ Stream!InFlight = {Len(delivered)}
    BY <1>4
  <2>2. Cardinality({}) = 0 /\ Cardinality({Len(delivered)}) = 1
    BY FS_Singleton, FS_EmptySet
  <2>3. CASE Stream!InFlight = {}
    BY <2>2, <2>3
  <2>4. CASE Stream!InFlight = {Len(delivered)}
    BY <2>2, <2>4
  <2> QED
    BY <2>1, <2>3, <2>4
<1>6. Stream!Cardinality(Stream!InFlight) = Cardinality(Stream!InFlight)
  BY DEF Stream!Cardinality, Cardinality
<1> QED
  BY <1>1, <1>2, <1>5, <1>6 DEF Stream!Start

(* The stream's Resolve: the page whose turn it is gets its answer. *)
LEMMA Resolving ==
  ASSUME PipeInv, main \in {"next", "decode"}, Len(delivered) < started,
         current' = Len(delivered), answer' \in {"text", "error"},
         UNCHANGED <<started, delivered, broke>>
  PROVE  Stream!Next
<1> DEFINE turn == Len(delivered)
<1>1. ~broke /\ answer = "none"
  BY DEF PipeInv, PlaceInv, Types
<1>2. turn \in PageSet
  BY Counts, PrefetchAssumption DEF PipeInv, Types, StageInv, PageSet
<1>3. turn \in Stream!InFlight
  BY <1>1, <1>2, InFlightIs, Counts
<1>4. Held = [p \in PageSet |-> "absent"]
  BY <1>1 DEF Held
<1>5. Held' = [p \in PageSet |-> IF p = turn THEN answer' ELSE "absent"]
  BY DEF Held
<1>6. Held' = [Held EXCEPT ![turn] = answer']
  BY <1>2, <1>4, <1>5
<1>7. Stream!Resolve(turn, answer')
  BY <1>1, <1>3, <1>6 DEF Stream!Resolve
<1> QED
  BY <1>2, <1>7 DEF Stream!Next, Stream!PageSet, PageSet, Stream!Answers

(* The stream's Deliver: on_page is called with the page it waits for. *)
LEMMA Delivering ==
  ASSUME PipeInv, Answer
  PROVE  Stream!Deliver
<1>1. /\ main = "answer" /\ answer' = "none" /\ broke' \in BOOLEAN
      /\ delivered' = Append(delivered, <<current, answer>>)
      /\ UNCHANGED <<started, current>>
  BY DEF Answer
<1>2. ~broke /\ answer # "none" /\ answer \in {"text", "error"} /\ current = Len(delivered)
  BY <1>1 DEF PipeInv, PlaceInv, Types
<1>3. current \in PageSet
  BY <1>1, <1>2, Counts, PrefetchAssumption DEF Begun, PageSet
<1>4. Held = [p \in PageSet |-> IF p = current THEN answer ELSE "absent"]
  BY <1>2 DEF Held
<1>5. Held' = [p \in PageSet |-> "absent"]
  BY <1>1 DEF Held
<1>6. Held' = [Held EXCEPT ![current] = "absent"]
  BY <1>3, <1>4, <1>5
<1>7. Held[current] = answer
  BY <1>3, <1>4
<1> QED
  BY <1>1, <1>2, <1>3, <1>6, <1>7
  DEF Stream!Deliver, Stream!Due, Stream!PageSet, PageSet, Stream!Absent

(* A step the stream does not see. *)
LEMMA Unseen ==
  ASSUME UNCHANGED <<started, current, answer, delivered, broke>>
  PROVE  UNCHANGED Stream!vars
BY DEF Stream!vars, Held

(* The next entry is staged by the caller. *)
LEMMA StageInlineStarts == ASSUME PipeInv, StageInline PROVE Stream!Start
<1>1. PICK entry \in Entries : Receive(entry) /\ started' = entry[1] + 1
  BY DEF StageInline
<1>2. /\ main = "next" /\ ahead = {} /\ Len(delivered) < Pages
      /\ UNCHANGED <<current, answer, delivered, broke>>
  BY DEF StageInline, MorePages
<1>3. stager = "idle" /\ Begun = Len(delivered)
  BY <1>2, Counts DEF PipeInv, PlaceInv, Begun
<1>4. entry[1] = Received /\ ~closed
  BY <1>1, ReceiveGivesNext DEF PipeInv
<1>5. started = Len(delivered) /\ Received = Len(delivered)
  BY <1>2, <1>3, <1>4, Counts DEF PipeInv, StageInv
<1>6. Held' = Held
  BY <1>2 DEF Held
<1> QED
  BY <1>1, <1>2, <1>4, <1>5, <1>6, Starting

(* The staged page has its turn: the page after it starts beside it, or its *)
(* staging had failed and it is answered.                                   *)
LEMMA TakeStagedSteps ==
  ASSUME PipeInv, TakeStaged
  PROVE  Stream!Next \/ UNCHANGED Stream!vars
<1>1. PICK item \in ahead : Begin(item)
  BY DEF TakeStaged
<1>2. main = "next" /\ stager = "idle" /\ answer = "none"
  BY DEF TakeStaged, PipeInv, PlaceInv, Types
<1>3. item[1] = Len(delivered) /\ started = Len(delivered) + 1
  BY <1>1, <1>2, AheadIsNext, Counts DEF PipeInv, StageInv, Begun
<1>4. /\ current' = Len(delivered)
      /\ UNCHANGED <<delivered, broke>>
      /\ \/ answer' = "error" /\ started' = started
         \/ answer' = "none" /\ started' = started
         \/ answer' = "none" /\ started' = started + 1 /\ Len(delivered) + 1 < Pages
  BY <1>1, <1>3 DEF Begin, OffersSide
<1>5. CASE answer' = "error"
  BY <1>2, <1>3, <1>4, <1>5, Counts, Resolving
<1>6. CASE answer' = "none"
  <2>1. Held' = Held
    BY <1>2, <1>6 DEF Held
  <2>2. CASE started' = started
    BY <1>4, <2>1, <2>2 DEF Stream!vars
  <2>3. CASE started' = started + 1 /\ Len(delivered) + 1 < Pages
    BY <1>2, <1>3, <1>4, <2>1, <2>3, Starting DEF Stream!Next
  <2> QED
    BY <1>4, <1>6, <2>2, <2>3
<1> QED
  BY <1>4, <1>5, <1>6

(* A decoded page is one step of the contract. *)
LEMMA DecodeResolves == ASSUME PipeInv, Decode PROVE Stream!Next
<1>1. /\ main = "decode" /\ answer' \in {"text", "error"}
      /\ UNCHANGED <<started, current, delivered, broke>>
  BY DEF Decode
<1>2. current = Len(delivered) /\ Len(delivered) < started
  BY <1>1, Counts DEF PipeInv, PlaceInv, StageInv, Begun
<1> QED
  BY <1>1, <1>2, Resolving

(* The pipeline implements the promise of the sequential run: a page starts *)
(* when it is staged or given to the staging thread, gets its answer from   *)
(* its decode or from its failed staging, and is handed over by on_page in  *)
(* input order; no step after a Break starts or answers a page.             *)
THEOREM PipelineStreams == Spec => KeepsStreamPromise
<1>1. Init => Stream!Init
  BY DEF Init, Stream!Init, Held, Stream!PageSet, Stream!Absent, PageSet
<1>2. PipeInv /\ [Next]_vars => [Stream!Next]_(Stream!vars)
  <2> SUFFICES ASSUME PipeInv, [Next]_vars
               PROVE  Stream!Next \/ UNCHANGED Stream!vars
    OBVIOUS
  <2>1. CASE StageInline
    BY <2>1, StageInlineStarts DEF Stream!Next
  <2>2. CASE TakeStaged
    BY <2>2, TakeStagedSteps
  <2>3. CASE Decode
    BY <2>3, DecodeResolves
  <2>4. CASE Answer
    BY <2>4, Delivering DEF Stream!Next
  <2>5. CASE ReaderLost \/ Join \/ AllDone
    BY <2>5, Unseen DEF ReaderLost, Join, AllDone, Leave
  <2>6. CASE Drop \/ Stager \/ ReaderStep \/ UNCHANGED vars
    BY <2>6, Unseen DEF Drop, Stager, StagerReceives, StagerStopped, StagerPrefills,
                        StagerPanics, ReaderStep, vars, mainThread
  <2> QED
    BY <2>1, <2>2, <2>3, <2>4, <2>5, <2>6 DEF Next, Main, Ended
<1> QED
  BY <1>1, <1>2, PipeInvariant, PTL DEF Spec, KeepsStreamPromise, Stream!Spec
------------------------------------------------------------------------------
(* The prefetch thread panicked and nothing of what it sent is left. *)
Lost == reader = "panicked" /\ queue = <<>>

(* The next entry to leave the queue is page n's, or none ever will. *)
HoldsNext(n) == Received = n \/ Lost

Outcomes == {"prefilled", "prefill_error", "prepare_error", "prepared", "reader_stopped"}

FeedTypes ==
  /\ caller \in {"driving", "taking", "taking_alone", "dropped", "unwound"}
  /\ page \in Nat /\ page <= Pages
  /\ caller \in {"taking", "taking_alone"} => page < Pages
  /\ taken \in Seq(Nat \X Outcomes)
  /\ owner \in {"feed", "side", "nobody"}
  /\ side \in {"idle", "receiving", "prefilling", "done", "panicked"}
  /\ result \in Nat \X Outcomes
  /\ result[2] = "reader_stopped" => reader = "panicked"

(* Whoever holds the queue is at the caller's page: the feed before it, the *)
(* side thread before or, once it received, just after it.                  *)
OwnerInv ==
  /\ owner = "feed" =>
       running = {} /\ side = "idle" /\ ~closed /\ HoldsNext(page)
  /\ owner = "side" =>
       /\ running = {page} /\ page < Pages /\ ~closed
       /\ side \in {"receiving", "prefilling", "done"}
       /\ side = "receiving" => HoldsNext(page)
       /\ side # "receiving" => result[1] = page /\ HoldsNext(page + 1)
  /\ owner = "nobody" => Gone \/ (side = "panicked" /\ running = {page})
  /\ side \in {"receiving", "prefilling"} => owner = "side"

FeedInv == QueueInv /\ FeedTypes /\ OwnerInv /\ TakesItsOwn

(* What the prefetch thread does leaves the queue's next entry the same. *)
LEMMA FeedReaderKeeps ==
  ASSUME FeedInv, FeedReader
  PROVE  FeedInv'
<1>1. /\ QueueInv /\ FeedTypes /\ OwnerInv /\ TakesItsOwn
      /\ Reader /\ UNCHANGED <<callers, feed>>
  BY DEF FeedInv, FeedReader
<1>2. QueueInv' /\ Received' = Received /\ closed' = closed /\ ~ReaderGone
  BY <1>1, ReaderKeepsQueue
<1>3. reader # "panicked"
  BY <1>2 DEF ReaderGone
<1>4. ~Lost /\ \A n : HoldsNext(n) => HoldsNext(n)'
  BY <1>2, <1>3 DEF HoldsNext, Lost
<1>5. FeedTypes'
  BY <1>1, <1>3 DEF FeedTypes, callers, feed
<1>6. OwnerInv'
  BY <1>1, <1>2, <1>4 DEF OwnerInv, callers, feed, Gone
<1>7. TakesItsOwn'
  BY <1>1, <1>3 DEF TakesItsOwn, callers
<1> QED
  BY <1>2, <1>5, <1>6, <1>7 DEF FeedInv

(* take hands out the caller's page. *)
LEMMA ReturnKeeps ==
  ASSUME FeedTypes, TakesItsOwn, NEW outcome \in Outcomes, Return(outcome), reader' = reader,
         outcome = "reader_stopped" => reader = "panicked"
  PROVE  taken' \in Seq(Nat \X Outcomes) /\ TakesItsOwn'
<1> DEFINE e == <<page, outcome>>
<1>1. e \in Nat \X Outcomes /\ e[2] = outcome /\ taken' = Append(taken, e)
  BY DEF FeedTypes, Return
<1>2. taken \in Seq(Nat \X Outcomes)
  BY DEF FeedTypes
<1> HIDE DEF e
<1>3. /\ Append(taken, e) \in Seq(Nat \X Outcomes)
      /\ Len(Append(taken, e)) = Len(taken) + 1
      /\ \A i \in 1 .. Len(taken) : Append(taken, e)[i] = taken[i]
      /\ Append(taken, e)[Len(taken) + 1] = e
  BY <1>1, <1>2, AppendProperties
<1>4. DOMAIN taken = 1 .. Len(taken) /\ Len(taken) \in Nat
  BY <1>2, LenProperties
<1>5. DOMAIN Append(taken, e) = 1 .. Len(taken) + 1
  BY <1>3, LenProperties
<1>6. ASSUME NEW i \in DOMAIN taken'
      PROVE  /\ taken'[i][2] # "out_of_step"
             /\ taken'[i][2] = "reader_stopped" => reader = "panicked"
  <2>1. CASE i \in 1 .. Len(taken)
    <3>1. taken'[i] = taken[i]
      BY <1>1, <1>3, <2>1
    <3> QED
      BY <1>4, <2>1, <3>1 DEF TakesItsOwn
  <2>2. CASE i = Len(taken) + 1
    <3>1. taken'[i][2] = outcome
      BY <1>1, <1>3, <2>2
    <3> QED
      BY <3>1 DEF Outcomes
  <2>3. i \in 1 .. Len(taken) \/ i = Len(taken) + 1
    BY <1>1, <1>4, <1>5
  <2> QED
    BY <2>1, <2>2, <2>3
<1> QED
  BY <1>1, <1>3, <1>6 DEF TakesItsOwn

(* The page after is given to the side thread, or the feed keeps the queue. *)
LEMMA SpawnKeeps ==
  ASSUME NEW n, Spawn(n), page' = n, ~closed', HoldsNext(n)', MaySpawn(n) => n < Pages
  PROVE  OwnerInv' /\ UNCHANGED result /\ owner' \in {"feed", "side"}
         /\ side' \in {"idle", "receiving"}
BY DEF Spawn, OwnerInv

(* While no page prefills ahead, the feed of a run that goes on holds the   *)
(* queue.                                                                   *)
LEMMA FeedHolds ==
  ASSUME FeedInv, ~Gone, running = {}
  PROVE  owner = "feed" /\ side = "idle" /\ ~closed /\ HoldsNext(page)
BY DEF FeedInv, FeedTypes, OwnerInv

(* Asking for a page: a side thread that starts gets the queue at that page. *)
LEMMA AskReadyKeeps == ASSUME FeedInv, AskReady PROVE FeedInv'
<1>1. /\ QueueInv /\ FeedTypes /\ OwnerInv /\ TakesItsOwn
      /\ caller = "driving" /\ page \in 1 .. Pages - 1
      /\ UNCHANGED <<prefetch, page, taken>>
  BY DEF FeedInv, AskReady
<1>2. QueueInv' /\ Received' = Received /\ UNCHANGED <<reader, queue, closed>>
  BY <1>1, QueueUnchanged DEF prefetch
<1>3. \A n : HoldsNext(n)' <=> HoldsNext(n)
  BY <1>2 DEF HoldsNext, Lost
<1>4. page < Pages /\ Pages \in Nat
  BY <1>1, PrefetchAssumption
<1>5. TakesItsOwn'
  BY <1>1, <1>2 DEF TakesItsOwn
<1>6. CASE running # {}
  <2>1. caller' = "taking" /\ UNCHANGED feed
    BY <1>6 DEF AskReady
  <2>2. FeedTypes'
    BY <1>1, <1>2, <1>4, <2>1 DEF FeedTypes, feed
  <2>3. OwnerInv'
    BY <1>1, <1>2, <1>3, <2>1 DEF OwnerInv, feed, Gone
  <2> QED
    BY <1>2, <1>5, <2>2, <2>3 DEF FeedInv
<1>7. CASE running = {}
  <2>1. Spawn(page) /\ caller' \in {"driving", "taking"}
    BY <1>7 DEF AskReady
  <2>2. ~closed /\ HoldsNext(page)
    BY <1>1, <1>7, FeedHolds DEF Gone
  <2>3. OwnerInv' /\ UNCHANGED result /\ owner' \in {"feed", "side"} /\ side' \in {"idle", "receiving"}
    BY <1>1, <1>2, <1>3, <1>4, <2>1, <2>2, SpawnKeeps
  <2>4. FeedTypes'
    BY <1>1, <1>2, <1>4, <2>1, <2>3 DEF FeedTypes
  <2> QED
    BY <1>2, <1>5, <2>3, <2>4 DEF FeedInv
<1> QED
  BY <1>6, <1>7

(* Where no page decodes the next one starts at once, and the queue stays put. *)
LEMMA StartIdleKeeps == ASSUME FeedInv, StartIdle PROVE FeedInv'
<1>1. /\ QueueInv /\ FeedTypes /\ OwnerInv /\ TakesItsOwn
      /\ caller = "driving" /\ page < Pages
      /\ caller' \in {"taking", "taking_alone"}
      /\ UNCHANGED <<prefetch, page, taken, feed>>
  BY DEF FeedInv, StartIdle
<1>2. QueueInv' /\ Received' = Received /\ UNCHANGED <<reader, queue, closed>>
  BY <1>1, QueueUnchanged DEF prefetch
<1>3. \A n : HoldsNext(n)' <=> HoldsNext(n)
  BY <1>2 DEF HoldsNext, Lost
<1>4. FeedTypes'
  BY <1>1, <1>2 DEF FeedTypes, feed
<1>5. OwnerInv'
  BY <1>1, <1>2, <1>3 DEF OwnerInv, feed, Gone
<1>6. TakesItsOwn'
  BY <1>1, <1>2 DEF TakesItsOwn
<1> QED
  BY <1>2, <1>4, <1>5, <1>6 DEF FeedInv

(* The joined thread has received the caller's page and no more. *)
LEMMA TakePrefilledKeeps == ASSUME FeedInv, TakePrefilled PROVE FeedInv'
<1>1. /\ QueueInv /\ FeedTypes /\ OwnerInv /\ TakesItsOwn
      /\ caller \in {"taking", "taking_alone"} /\ running # {} /\ side = "done"
      /\ UNCHANGED prefetch
  BY DEF FeedInv, TakePrefilled
<1>2. QueueInv' /\ Received' = Received /\ UNCHANGED <<reader, queue, closed>>
  BY <1>1, QueueUnchanged DEF prefetch
<1>3. \A n : HoldsNext(n)' <=> HoldsNext(n)
  BY <1>2 DEF HoldsNext, Lost
<1>4. owner = "side"
  BY <1>1 DEF FeedTypes, OwnerInv, Gone
<1>5. running = {page} /\ result[1] = page /\ ~closed /\ HoldsNext(page + 1)
  BY <1>1, <1>4 DEF OwnerInv
<1>6. Return(result[2]) /\ Spawn(page + 1)
  BY <1>5 DEF TakePrefilled, NextToPrefill
<1>7. /\ page \in Nat /\ page + 1 <= Pages /\ Pages \in Nat
      /\ result[2] \in Outcomes
      /\ result[2] = "reader_stopped" => reader = "panicked"
  <2>1. page \in Nat /\ page < Pages /\ result \in Nat \X Outcomes
    BY <1>1 DEF FeedTypes
  <2>2. result[2] = "reader_stopped" => reader = "panicked"
    BY <1>1 DEF FeedTypes
  <2> QED
    BY <2>1, <2>2, PrefetchAssumption
<1>8. taken' \in Seq(Nat \X Outcomes) /\ TakesItsOwn'
  BY <1>1, <1>2, <1>6, <1>7, ReturnKeeps
<1>9. page' = page + 1 /\ caller' = "driving"
  BY <1>6 DEF Return
<1>10. OwnerInv' /\ UNCHANGED result /\ owner' \in {"feed", "side"} /\ side' \in {"idle", "receiving"}
  BY <1>2, <1>3, <1>5, <1>6, <1>9, SpawnKeeps DEF MaySpawn
<1>11. FeedTypes'
  BY <1>1, <1>2, <1>7, <1>8, <1>9, <1>10 DEF FeedTypes
<1> QED
  BY <1>2, <1>8, <1>10, <1>11 DEF FeedInv

(* Taking from a side thread that panicked passes the panic on. *)
LEMMA TakePanicsKeeps == ASSUME FeedInv, TakePanics PROVE FeedInv'
<1>1. /\ QueueInv /\ FeedTypes /\ OwnerInv /\ TakesItsOwn
      /\ side = "panicked" /\ caller' = "unwound"
      /\ UNCHANGED <<prefetch, page, taken, feed>>
  BY DEF FeedInv, TakePanics
<1>2. QueueInv' /\ Received' = Received /\ UNCHANGED <<reader, queue, closed>>
  BY <1>1, QueueUnchanged DEF prefetch
<1>3. \A n : HoldsNext(n)' <=> HoldsNext(n)
  BY <1>2 DEF HoldsNext, Lost
<1>4. FeedTypes'
  BY <1>1, <1>2 DEF FeedTypes, feed
<1>5. OwnerInv'
  BY <1>1, <1>2, <1>3 DEF OwnerInv, feed, Gone
<1>6. TakesItsOwn'
  BY <1>1, <1>2 DEF TakesItsOwn
<1> QED
  BY <1>2, <1>4, <1>5, <1>6 DEF FeedInv

(* With nothing prefilling ahead the caller's page is the one received; the *)
(* reader is gone only because it panicked.                                 *)
LEMMA TakesNext ==
  ASSUME FeedInv, ~Gone, running = {}, page < Pages, page' = page + 1
  PROVE  /\ \A entry \in Entries :
              Receive(entry) => /\ QueueInv' /\ entry[1] = page /\ HoldsNext(page)'
                                /\ reader' = reader /\ ~closed'
         /\ ReceiveFails => /\ QueueInv' /\ reader = "panicked" /\ HoldsNext(page)'
                            /\ reader' = reader /\ ~closed'
<1>1. QueueInv /\ ~closed /\ HoldsNext(page) /\ page \in Nat /\ Pages \in Nat
  BY FeedHolds, PrefetchAssumption DEF FeedInv, FeedTypes
<1>2. ASSUME NEW entry \in Entries, Receive(entry)
      PROVE  /\ QueueInv' /\ entry[1] = page /\ HoldsNext(page)'
             /\ reader' = reader /\ ~closed'
  <2>1. Received = page
    BY <1>1, <1>2 DEF Receive, HoldsNext, Lost
  <2>2. /\ QueueInv' /\ entry[1] = Received /\ Received' = Received + 1
        /\ ~closed /\ closed' = closed /\ reader' = reader
    BY <1>1, <1>2, ReceiveGivesNext
  <2>3. Received' = page'
    BY <2>1, <2>2
  <2> QED
    BY <2>1, <2>2, <2>3 DEF HoldsNext
<1>3. ASSUME ReceiveFails
      PROVE  /\ QueueInv' /\ reader = "panicked" /\ HoldsNext(page)'
             /\ reader' = reader /\ ~closed'
  <2>1. QueueInv' /\ (Received = Pages \/ reader = "panicked")
    BY <1>1, <1>3, NothingToReceive
  <2>2. reader = "panicked"
    BY <1>1, <2>1 DEF HoldsNext, Lost
  <2>3. queue = <<>> /\ UNCHANGED prefetch
    BY <1>3 DEF ReceiveFails
  <2> QED
    BY <1>1, <2>1, <2>2, <2>3 DEF HoldsNext, Lost, prefetch
<1> QED
  BY <1>2, <1>3

(* Taking without a side thread receives the caller's page; one may start after it. *)
LEMMA TakeInlineKeeps == ASSUME FeedInv, TakeInline PROVE FeedInv'
<1>1. /\ QueueInv /\ FeedTypes /\ OwnerInv /\ TakesItsOwn
      /\ ~Gone /\ running = {} /\ page < Pages
      /\ Spawn(page + 1)
  BY DEF FeedInv, TakeInline, FeedTypes, Gone, NextToPrefill
<1>2. PICK outcome \in Outcomes :
        /\ Return(outcome)
        /\ QueueInv' /\ HoldsNext(page)' /\ reader' = reader /\ ~closed'
        /\ outcome = "reader_stopped" => reader = "panicked"
  <2>1. ASSUME NEW entry \in Entries, NEW prefilled \in {"prefilled", "prefill_error"},
               Receive(entry),
               Return(IF entry[1] # page THEN "out_of_step"
                      ELSE IF entry[2] THEN prefilled ELSE "prepare_error")
        PROVE  \E outcome \in Outcomes :
                 /\ Return(outcome)
                 /\ QueueInv' /\ HoldsNext(page)' /\ reader' = reader /\ ~closed'
                 /\ outcome = "reader_stopped" => reader = "panicked"
    <3>1. page' = page + 1
      BY <2>1 DEF Return
    <3>2. /\ QueueInv' /\ entry[1] = page /\ HoldsNext(page)'
          /\ reader' = reader /\ ~closed'
      BY <1>1, <2>1, <3>1, TakesNext
    <3>3. CASE entry[2]
      <4>1. Return(prefilled) /\ prefilled \in Outcomes /\ prefilled # "reader_stopped"
        BY <2>1, <3>2, <3>3 DEF Outcomes
      <4> QED
        BY <3>2, <4>1
    <3>4. CASE ~entry[2]
      <4>1. Return("prepare_error") /\ "prepare_error" \in Outcomes
        BY <2>1, <3>2, <3>4 DEF Outcomes
      <4> QED
        BY <3>2, <4>1
    <3> QED
      BY <3>3, <3>4
  <2>2. ASSUME ReceiveFails, Return("reader_stopped")
        PROVE  \E outcome \in Outcomes :
                 /\ Return(outcome)
                 /\ QueueInv' /\ HoldsNext(page)' /\ reader' = reader /\ ~closed'
                 /\ outcome = "reader_stopped" => reader = "panicked"
    <3>1. page' = page + 1
      BY <2>2 DEF Return
    <3>2. /\ QueueInv' /\ reader = "panicked" /\ HoldsNext(page)'
          /\ reader' = reader /\ ~closed'
      BY <1>1, <2>2, <3>1, TakesNext
    <3> QED
      BY <2>2, <3>2 DEF Outcomes
  <2> QED
    BY <2>1, <2>2 DEF TakeInline
<1>3. taken' \in Seq(Nat \X Outcomes) /\ TakesItsOwn'
  BY <1>1, <1>2, ReturnKeeps
<1>4. page' = page + 1 /\ caller' = "driving" /\ page \in Nat /\ page + 1 <= Pages
  BY <1>1, <1>2, PrefetchAssumption DEF Return, FeedTypes
<1>5. \A n : n = page' => HoldsNext(n)'
  BY <1>2
<1>6. OwnerInv' /\ UNCHANGED result /\ owner' \in {"feed", "side"} /\ side' \in {"idle", "receiving"}
  BY <1>1, <1>2, <1>4, <1>5, SpawnKeeps DEF MaySpawn
<1>7. FeedTypes'
  BY <1>1, <1>2, <1>3, <1>4, <1>6 DEF FeedTypes
<1> QED
  BY <1>2, <1>3, <1>6, <1>7 DEF FeedInv

(* So does taking the last page, which is not prefilled. *)
LEMMA TakeAloneKeeps == ASSUME FeedInv, TakeAlone PROVE FeedInv'
<1>1. /\ QueueInv /\ FeedTypes /\ OwnerInv /\ TakesItsOwn
      /\ ~Gone /\ running = {} /\ page < Pages
      /\ UNCHANGED feed
  BY DEF FeedInv, TakeAlone, FeedTypes, Gone
<1>2. PICK outcome \in Outcomes :
        /\ Return(outcome)
        /\ QueueInv' /\ HoldsNext(page)' /\ reader' = reader /\ ~closed'
        /\ outcome = "reader_stopped" => reader = "panicked"
  <2>1. ASSUME NEW entry \in Entries, Receive(entry),
               Return(IF entry[1] # page THEN "out_of_step"
                      ELSE IF entry[2] THEN "prepared" ELSE "prepare_error")
        PROVE  \E outcome \in Outcomes :
                 /\ Return(outcome)
                 /\ QueueInv' /\ HoldsNext(page)' /\ reader' = reader /\ ~closed'
                 /\ outcome = "reader_stopped" => reader = "panicked"
    <3>1. page' = page + 1
      BY <2>1 DEF Return
    <3>2. /\ QueueInv' /\ entry[1] = page /\ HoldsNext(page)'
          /\ reader' = reader /\ ~closed'
      BY <1>1, <2>1, <3>1, TakesNext
    <3>3. Return("prepared") \/ Return("prepare_error")
      BY <2>1, <3>2
    <3> QED
      BY <3>2, <3>3 DEF Outcomes
  <2>2. ASSUME ReceiveFails, Return("reader_stopped")
        PROVE  \E outcome \in Outcomes :
                 /\ Return(outcome)
                 /\ QueueInv' /\ HoldsNext(page)' /\ reader' = reader /\ ~closed'
                 /\ outcome = "reader_stopped" => reader = "panicked"
    <3>1. page' = page + 1
      BY <2>2 DEF Return
    <3>2. /\ QueueInv' /\ reader = "panicked" /\ HoldsNext(page)'
          /\ reader' = reader /\ ~closed'
      BY <1>1, <2>2, <3>1, TakesNext
    <3> QED
      BY <2>2, <3>2 DEF Outcomes
  <2> QED
    BY <2>1, <2>2 DEF TakeAlone
<1>3. taken' \in Seq(Nat \X Outcomes) /\ TakesItsOwn'
  BY <1>1, <1>2, ReturnKeeps
<1>4. page' = page + 1 /\ caller' = "driving" /\ page \in Nat /\ page + 1 <= Pages
  BY <1>1, <1>2, PrefetchAssumption DEF Return, FeedTypes
<1>5. owner = "feed" /\ side = "idle"
  BY <1>1, FeedHolds
<1>6. OwnerInv'
  BY <1>1, <1>2, <1>5 DEF OwnerInv, feed
<1>7. FeedTypes'
  BY <1>1, <1>2, <1>3, <1>4 DEF FeedTypes, feed
<1> QED
  BY <1>2, <1>3, <1>6, <1>7 DEF FeedInv

(* Dropping the feed closes the queue, if the feed holds it. *)
LEMMA DropFeedKeeps == ASSUME FeedInv, DropFeed PROVE FeedInv'
<1>1. /\ QueueInv /\ FeedTypes /\ OwnerInv /\ TakesItsOwn
      /\ caller' = "dropped" /\ DropQueue
      /\ UNCHANGED <<page, taken, sidePool, running, side, result>>
  BY DEF FeedInv, DropFeed
<1>2. CASE owner = "feed"
  <2>1. CloseQueue /\ owner' = "nobody" /\ reader' = reader
    BY <1>1, <1>2 DEF DropQueue, CloseQueue
  <2>2. QueueInv'
    BY <1>1, <2>1, CloseKeepsQueue
  <2>3. FeedTypes'
    BY <1>1, <2>1 DEF FeedTypes
  <2>4. OwnerInv'
    BY <1>1, <1>2, <2>1 DEF OwnerInv, Gone
  <2>5. TakesItsOwn'
    BY <1>1, <2>1 DEF TakesItsOwn
  <2> QED
    BY <2>2, <2>3, <2>4, <2>5 DEF FeedInv
<1>3. CASE owner # "feed"
  <2>1. UNCHANGED <<prefetch, owner>>
    BY <1>1, <1>3 DEF DropQueue
  <2>2. QueueInv' /\ Received' = Received /\ UNCHANGED <<reader, queue, closed>>
    BY <1>1, <2>1, QueueUnchanged DEF prefetch
  <2>3. \A n : HoldsNext(n)' <=> HoldsNext(n)
    BY <2>2 DEF HoldsNext, Lost
  <2>4. FeedTypes'
    BY <1>1, <2>1, <2>2 DEF FeedTypes
  <2>5. OwnerInv'
    BY <1>1, <1>3, <2>1, <2>2, <2>3 DEF OwnerInv, Gone
  <2>6. TakesItsOwn'
    BY <1>1, <2>2 DEF TakesItsOwn
  <2> QED
    BY <2>2, <2>4, <2>5, <2>6 DEF FeedInv
<1> QED
  BY <1>2, <1>3
------------------------------------------------------------------------------
(* The side thread, in possession of the queue, receives the caller's page. *)
LEMMA SideReceivesKeeps == ASSUME FeedInv, SideReceives PROVE FeedInv'
<1>1. PICK entry \in Entries :
        /\ Receive(entry)
        /\ side' = IF entry[2] THEN "prefilling" ELSE "done"
        /\ result' = <<entry[1], "prepare_error">>
  BY DEF SideReceives
<1>2. /\ QueueInv /\ FeedTypes /\ OwnerInv /\ TakesItsOwn
      /\ side = "receiving" /\ UNCHANGED <<callers, sidePool, owner, running>>
  BY DEF FeedInv, SideReceives
<1>3. owner = "side" /\ running = {page} /\ page < Pages /\ HoldsNext(page)
  BY <1>2 DEF OwnerInv
<1>4. /\ QueueInv' /\ entry[1] = Received /\ Received' = Received + 1
      /\ ~closed' /\ reader' = reader
  BY <1>1, <1>2, ReceiveGivesNext
<1>5. Received = page
  BY <1>1, <1>3 DEF HoldsNext, Lost, Receive
<1>6. page \in Nat /\ UNCHANGED <<page, taken, caller>>
  BY <1>2 DEF FeedTypes, callers
<1>7. Received' = page' + 1
  BY <1>4, <1>5, <1>6
<1>8. /\ side' \in {"prefilling", "done"}
      /\ result' \in Nat \X Outcomes /\ result'[1] = page' /\ result'[2] # "reader_stopped"
  BY <1>1, <1>4, <1>5, <1>6 DEF Outcomes
<1>9. FeedTypes'
  BY <1>2, <1>4, <1>6, <1>8 DEF FeedTypes
<1>10. OwnerInv'
  BY <1>2, <1>3, <1>4, <1>6, <1>7, <1>8 DEF OwnerInv, HoldsNext
<1>11. TakesItsOwn'
  BY <1>2, <1>4, <1>6 DEF TakesItsOwn
<1> QED
  BY <1>4, <1>9, <1>10, <1>11 DEF FeedInv

(* The side thread finds the reader gone: nothing is left to receive. *)
LEMMA SideReaderGoneKeeps == ASSUME FeedInv, SideReaderGone PROVE FeedInv'
<1>1. /\ QueueInv /\ FeedTypes /\ OwnerInv /\ TakesItsOwn
      /\ side = "receiving" /\ side' = "done" /\ ReceiveFails
      /\ UNCHANGED <<callers, sidePool, owner, running>>
  BY DEF FeedInv, SideReaderGone
<1>2. owner = "side" /\ running = {page} /\ page < Pages /\ ~closed /\ HoldsNext(page)
  BY <1>1 DEF OwnerInv
<1>3. /\ QueueInv' /\ (Received = Pages \/ reader = "panicked")
      /\ queue = <<>> /\ UNCHANGED <<reader, queue, closed>>
  BY <1>1, <1>2, NothingToReceive DEF ReceiveFails, prefetch
<1>4. page \in Nat /\ Pages \in Nat /\ UNCHANGED <<page, taken, caller>>
  BY <1>1, PrefetchAssumption DEF FeedTypes, callers
<1>5. reader = "panicked"
  BY <1>2, <1>3, <1>4 DEF HoldsNext, Lost
<1>6. result' = <<page, "reader_stopped">>
  BY <1>2 DEF SideReaderGone
<1>7. \A n : HoldsNext(n)'
  BY <1>3, <1>5 DEF HoldsNext, Lost
<1>8. FeedTypes'
  BY <1>1, <1>3, <1>4, <1>5, <1>6 DEF FeedTypes, Outcomes
<1>9. OwnerInv'
  BY <1>1, <1>2, <1>3, <1>4, <1>6, <1>7 DEF OwnerInv
<1>10. TakesItsOwn'
  BY <1>1, <1>3, <1>4 DEF TakesItsOwn
<1> QED
  BY <1>3, <1>8, <1>9, <1>10 DEF FeedInv

(* The side thread's page is the caller's. *)
LEMMA SidePrefillsKeeps == ASSUME FeedInv, SidePrefills PROVE FeedInv'
<1>1. /\ QueueInv /\ FeedTypes /\ OwnerInv /\ TakesItsOwn
      /\ side = "prefilling" /\ side' = "done"
      /\ UNCHANGED <<prefetch, callers, sidePool, owner, running>>
  BY DEF FeedInv, SidePrefills
<1>2. PICK outcome \in {"prefilled", "prefill_error"} : result' = <<result[1], outcome>>
  BY DEF SidePrefills
<1>3. QueueInv' /\ Received' = Received /\ UNCHANGED <<reader, queue, closed>>
  BY <1>1, QueueUnchanged DEF prefetch
<1>4. \A n : HoldsNext(n)' <=> HoldsNext(n)
  BY <1>3 DEF HoldsNext, Lost
<1>5. UNCHANGED <<page, taken, caller>> /\ result[1] \in Nat
  BY <1>1 DEF FeedTypes, callers
<1>6. /\ result' \in Nat \X Outcomes /\ result'[1] = result[1] /\ result'[2] # "reader_stopped"
  BY <1>2, <1>5 DEF Outcomes
<1>7. FeedTypes'
  BY <1>1, <1>3, <1>5, <1>6 DEF FeedTypes
<1>8. OwnerInv'
  BY <1>1, <1>3, <1>4, <1>5, <1>6 DEF OwnerInv
<1>9. TakesItsOwn'
  BY <1>1, <1>3, <1>5 DEF TakesItsOwn
<1> QED
  BY <1>3, <1>7, <1>8, <1>9 DEF FeedInv

(* A panicking prefill, or a result nobody takes, drops the queue. *)
LEMMA SideDropsQueue ==
  ASSUME FeedInv, SidePanics \/ SideResultDropped
  PROVE  FeedInv'
<1>1. /\ QueueInv /\ FeedTypes /\ OwnerInv /\ TakesItsOwn
      /\ owner = "side" /\ owner' = "nobody" /\ CloseQueue
      /\ UNCHANGED <<callers, running, result>>
      /\ side' = "panicked" \/ (Gone /\ side' = "done")
  BY DEF FeedInv, OwnerInv, SidePanics, SideResultDropped
<1>2. QueueInv' /\ reader' = reader
  BY <1>1, CloseKeepsQueue DEF CloseQueue
<1>3. UNCHANGED <<page, taken, caller>> /\ running = {page}
  BY <1>1 DEF callers, OwnerInv
<1>4. FeedTypes'
  BY <1>1, <1>2, <1>3 DEF FeedTypes
<1>5. OwnerInv'
  BY <1>1, <1>3 DEF OwnerInv, Gone
<1>6. TakesItsOwn'
  BY <1>1, <1>2, <1>3 DEF TakesItsOwn
<1> QED
  BY <1>2, <1>4, <1>5, <1>6 DEF FeedInv

(* A step of nothing keeps the invariant. *)
LEMMA FeedStays == ASSUME FeedInv, UNCHANGED feedVars PROVE FeedInv'
<1>1. QueueInv' /\ Received' = Received /\ UNCHANGED <<reader, queue, closed, callers, feed>>
  BY QueueUnchanged DEF FeedInv, feedVars, prefetch
<1>2. FeedTypes' /\ TakesItsOwn'
  BY <1>1 DEF FeedInv, FeedTypes, TakesItsOwn, callers, feed
<1>3. OwnerInv'
  BY <1>1 DEF FeedInv, OwnerInv, HoldsNext, Lost, Gone, callers, feed
<1> QED
  BY <1>1, <1>2, <1>3 DEF FeedInv

(* Whoever holds the queue of a batched pipelined run (Ahead in             *)
(* runner/batch/feed.rs), it is at the caller's page.                       *)
THEOREM FeedInvariant == FeedSpec => []FeedInv
<1>1. FeedInit => FeedInv
  <2> SUFFICES ASSUME FeedInit PROVE FeedInv
    OBVIOUS
  <2>1. QueueInv /\ Received = 0
    BY QueueStarts DEF FeedInit
  <2>2. page = 0 /\ taken = <<>> /\ taken \in Seq(Nat \X Outcomes) /\ DOMAIN taken = {}
    BY EmptySeq DEF FeedInit
  <2>3. FeedTypes
    BY <2>2, PrefetchAssumption DEF FeedInit, FeedTypes, Outcomes
  <2>4. OwnerInv
    BY <2>1, <2>2 DEF FeedInit, OwnerInv, HoldsNext, PrefetchInit
  <2>5. TakesItsOwn
    BY <2>2 DEF TakesItsOwn
  <2> QED
    BY <2>1, <2>3, <2>4, <2>5 DEF FeedInv
<1>2. FeedInv /\ [FeedNext]_feedVars => FeedInv'
  <2> SUFFICES ASSUME FeedInv, [FeedNext]_feedVars PROVE FeedInv'
    OBVIOUS
  <2>1. CASE Caller
    BY <2>1, AskReadyKeeps, StartIdleKeeps, TakePrefilledKeeps, TakePanicsKeeps,
       TakeInlineKeeps, TakeAloneKeeps, DropFeedKeeps DEF Caller
  <2>2. CASE Side
    BY <2>2, SideReceivesKeeps, SideReaderGoneKeeps, SidePrefillsKeeps, SideDropsQueue DEF Side
  <2>3. CASE FeedReader
    BY <2>3, FeedReaderKeeps
  <2>4. CASE FeedEnded \/ UNCHANGED feedVars
    BY <2>4, FeedStays DEF FeedEnded
  <2> QED
    BY <2>1, <2>2, <2>3, <2>4 DEF FeedNext
<1> QED
  BY <1>1, <1>2, PTL DEF FeedSpec

(* Every take of the batched pipelined run gets its own page, failed or     *)
(* not, and misses the reader only when it panicked (Ahead::take and        *)
(* take_alone): for every number of pages and every queue capacity.         *)
THEOREM FeedTakesItsOwn == FeedSpec => []TakesItsOwn
<1>1. FeedInv => TakesItsOwn
  BY DEF FeedInv
<1> QED
  BY <1>1, FeedInvariant, PTL
=============================================================================
