--------------------------- MODULE BatchingProofs ---------------------------
(***************************************************************************)
(* Proofs about Batching, for every number of pages, batch size and        *)
(* budget.  The inductive invariant IInv adds to the properties of         *)
(* Batching what they rest on: where control can be with a page still to   *)
(* close or to pop (Control), and which pages hold a row (RowsHeld).       *)
(***************************************************************************)
EXTENDS Batching, FiniteSetTheorems, TLAPS

(* What each place in `drive` implies.  The last conjunct is why the loop   *)
(* cannot spin: with nothing decoding, only the end of the input stops the  *)
(* inner loop.                                                              *)
Control ==
  /\ closing \subseteq active
  /\ pc \in {"loop", "admit", "joint"} => closing = {}
  /\ stopped => pc = "returned"
  /\ pc \in {"loop", "admit", "joint", "close"} => ~Poppable
  /\ pc = "joint" /\ active = {} => next = Pages
  /\ Len(delivered) = emitNext

(* A page has a row exactly while it decodes; a page about to finish has    *)
(* its row or ran alone, and the others may generate at least one token.    *)
RowsHeld ==
  /\ \A p \in PageSet :
       row[p] # 0 => /\ p \in active
                     /\ row[p] \in 1 .. Len(sessions)
                     /\ sessions[row[p]] = p
  /\ \A p \in active : p \notin closing => row[p] # 0 /\ room[p] >= 1
  /\ NoCacheLeak

(* A page that ran alone is the page being closed, the last one of the      *)
(* input, and what was transcribed is in the history.                       *)
AloneLast ==
  /\ \A p \in alone : alone = {p} /\ row[p] = 0
  /\ alone # {} => /\ next = Pages /\ active = alone
                   /\ closing = alone /\ verdict = "finish"
  /\ Drafting => alone \cup Transcribed \subseteq history

IInv == TypeOK /\ Control /\ EveryPageAccounted /\ RowsHeld /\ AloneLast
------------------------------------------------------------------------------
(* The sets of pages are finite, so counting them makes sense. *)
LEMMA ActiveFinite ==
  ASSUME NEW S \in SUBSET PageSet
  PROVE  IsFiniteSet(S) /\ Cardinality(S) \in Nat
<1>1. IsFiniteSet(PageSet)
  BY FS_Interval, BatchingAssumption DEF PageSet
<1>2. QED
  BY <1>1, FS_Subset, FS_CardinalityType

(* The batch has at least one row. *)
LEMMA RowLimitPositive == RowLimit \in Nat \ {0}
  BY BatchingAssumption DEF RowLimit

(* The invariant holds before the first page is admitted. *)
LEMMA InitInv == Init => IInv
<1> SUFFICES ASSUME Init PROVE IInv
  OBVIOUS
<1> USE BatchingAssumption DEF Init, PageSet, Answers, Absent
<1>1. TypeOK
  <2>1. 0 \in 0 .. Pages
    OBVIOUS
  <2>2. held \in [PageSet -> Answers \cup {Absent}]
    OBVIOUS
  <2>3. delivered \in Seq(PageSet \X Answers) /\ sessions \in Seq(PageSet)
    OBVIOUS
  <2>4. row \in [PageSet -> Nat] /\ room \in [PageSet -> Nat]
    OBVIOUS
  <2>5. QED
    BY <2>1, <2>2, <2>3, <2>4 DEF TypeOK
<1>2. Control
  BY DEF Control, Poppable
<1>3. EveryPageAccounted
  BY FS_EmptySet, RowLimitPositive DEF EveryPageAccounted
<1>4. RowsHeld
  BY DEF RowsHeld, NoCacheLeak
<1>5. AloneLast
  BY DEF AloneLast, Transcribed
<1>6. QED
  BY <1>1, <1>2, <1>3, <1>4, <1>5 DEF IInv
------------------------------------------------------------------------------
(* The emitter and the engine do not move: only the place in `drive` does.  *)
LEMMA ControlSteps ==
  ASSUME IInv, TestDone \/ StopAdmitting \/ NothingActive \/ RoundOver
                 \/ NothingToHand \/ UNCHANGED vars
  PROVE  IInv'
<1>1. UNCHANGED <<schedule, emitter, engine>>
  BY DEF TestDone, StopAdmitting, NothingActive, RoundOver, NothingToHand, vars
<1> USE <1>1 DEF schedule, emitter, engine, IInv
<1>2. TypeOK'
  BY DEF TypeOK, TestDone, StopAdmitting, NothingActive, RoundOver,
         NothingToHand, vars
<1>3. EveryPageAccounted' /\ RowsHeld' /\ AloneLast'
  BY DEF EveryPageAccounted, RowsHeld, NoCacheLeak, AloneLast, Transcribed
<1>4. ASSUME StopAdmitting PROVE Control'
  <2>1. ASSUME active = {} PROVE next = Pages
    <3>1. ~PendingError
      <4>1. \A p \in PageSet : p >= emitNext /\ p < next => held[p] # Absent
        BY <2>1 DEF EveryPageAccounted
      <4>2. \A p \in PageSet : held[p] = Absent
        BY <1>4, <4>1, BatchingAssumption
           DEF StopAdmitting, Control, EveryPageAccounted, Poppable, TypeOK, PageSet
      <4>3. QED
        BY <4>2 DEF PendingError, Absent
    <3>2. \E ready \in BOOLEAN : ~Admits(ready)
      BY <1>4, <3>1 DEF StopAdmitting
    <3>3. Cardinality(active) < RowLimit
      BY <2>1, FS_EmptySet, RowLimitPositive
    <3>4. QED
      BY <2>1, <3>2, <3>3, BatchingAssumption DEF Admits, TypeOK
  <2>2. QED
    BY <1>4, <2>1 DEF StopAdmitting, Control, Poppable
<1>5. ASSUME TestDone \/ NothingActive \/ RoundOver \/ NothingToHand
             \/ UNCHANGED vars
      PROVE  Control'
  BY <1>5 DEF TestDone, NothingActive, RoundOver, NothingToHand, vars, Control,
         Poppable, TypeOK
<1>6. QED
  BY <1>2, <1>3, <1>4, <1>5

(* A page that is admitted is new everywhere, and takes a free row. *)
LEMMA Admitted ==
  ASSUME IInv, Admission, UNCHANGED emitter
  PROVE  /\ next \in PageSet /\ next \notin active /\ row[next] = 0
         /\ held[next] = Absent /\ ~stopped
         /\ next' \in 0 .. Pages /\ active' \in SUBSET PageSet
         /\ EveryPageAccounted'
         /\ alone = {} /\ closing = {}
<1> USE BatchingAssumption DEF IInv, Admission, emitter, Admits, PageSet
<1>1. next \in PageSet /\ next \notin active /\ held[next] = Absent
  BY DEF TypeOK, EveryPageAccounted
<1>2. row[next] = 0
  BY <1>1 DEF RowsHeld
<1>3. next' \in 0 .. Pages /\ active' \in SUBSET PageSet
  BY <1>1 DEF TypeOK
<1>4. Cardinality(active') <= RowLimit
  <2>1. IsFiniteSet(active) /\ Cardinality(active) \in Nat
    BY ActiveFinite DEF TypeOK
  <2>2. Cardinality(active \cup {next}) = Cardinality(active) + 1
    BY <1>1, <2>1, FS_AddElement
  <2>3. QED
    BY <2>1, <2>2, RowLimitPositive
<1>5. EveryPageAccounted'
  BY <1>1, <1>4 DEF EveryPageAccounted, TypeOK
<1>6. ~stopped /\ closing = {} /\ alone = {}
  BY DEF Control, AloneLast, TypeOK
<1>7. QED
  BY <1>1, <1>2, <1>3, <1>5, <1>6

(* Admitting a page: it takes a free row and has room for a token. *)
LEMMA StartRowInv == ASSUME IInv, StartRow PROVE IInv'
<1> USE BatchingAssumption DEF IInv, StartRow, Admission, emitter, CloseNext
<1>1. /\ next \in PageSet /\ next \notin active /\ row[next] = 0
      /\ held[next] = Absent /\ ~stopped
      /\ next' \in 0 .. Pages /\ active' \in SUBSET PageSet
      /\ EveryPageAccounted' /\ alone = {} /\ closing = {}
  BY Admitted
<1>2. PICK budget \in 1 .. MaxNewTokens :
         /\ room' = [room EXCEPT ![next] = budget - 1]
         /\ \/ /\ closing' = {next} /\ verdict' = "finish" /\ after' = "admit"
               /\ pc' = "close" /\ cached' = cached
            \/ /\ budget > 1 /\ cached' = cached \cup {Len(sessions) + 1}
               /\ UNCHANGED <<pc, closing, verdict, after>>
  OBVIOUS
<1>3. sessions' \in Seq(PageSet) /\ Len(sessions) \in Nat
      /\ Len(sessions') = Len(sessions) + 1
      /\ sessions'[Len(sessions) + 1] = next
      /\ \A i \in 1 .. Len(sessions) : sessions'[i] = sessions[i]
  BY <1>1 DEF TypeOK
<1>4. TypeOK'
  <2>1. room' \in [PageSet -> Nat] /\ row' \in [PageSet -> Nat]
    BY <1>1, <1>2, <1>3 DEF TypeOK
  <2>2. cached' \in SUBSET Nat
    <3>1. cached \in SUBSET Nat /\ Len(sessions) + 1 \in Nat
      BY <1>3 DEF TypeOK
    <3>2. cached' \subseteq cached \cup {Len(sessions) + 1}
      BY <1>2
    <3>3. QED
      BY <3>1, <3>2
  <2>4. closing' \in SUBSET PageSet
    BY <1>1, <1>2
  <2>3. QED
    BY <1>1, <1>2, <1>3, <2>1, <2>2, <2>4 DEF TypeOK
<1>5. Control'
  BY <1>1, <1>2 DEF Control, Poppable
<1>6. RowsHeld'
  <2>1. \A p \in PageSet : row'[p] = IF p = next THEN Len(sessions) + 1 ELSE row[p]
    BY DEF TypeOK
  <2>2. \A p \in PageSet : p # next => room'[p] = room[p]
    BY <1>2 DEF TypeOK
  <2>3. room'[next] = budget - 1
    BY <1>1, <1>2 DEF TypeOK
  <2>4. \A p \in PageSet : row'[p] # 0 =>
          p \in active' /\ row'[p] \in 1 .. Len(sessions') /\ sessions'[row'[p]] = p
    BY <1>1, <1>3, <2>1 DEF RowsHeld, TypeOK
  <2>5. \A p \in active' : p \notin closing' => row'[p] # 0 /\ room'[p] >= 1
    BY <1>1, <1>2, <1>3, <2>1, <2>2, <2>3 DEF RowsHeld, TypeOK
  <2>6. NoCacheLeak'
    <3>1. \A p \in active : row'[p] = row[p]
      BY <1>1, <2>1 DEF TypeOK
    <3>2. {row[p] : p \in active} \cup {Len(sessions) + 1}
            \subseteq {row'[p] : p \in active'} /\ Len(sessions) + 1 # 0
      BY <1>1, <1>3, <2>1, <3>1
    <3>3. QED
      BY <1>2, <3>2 DEF NoCacheLeak, RowsHeld
  <2>7. QED
    BY <2>4, <2>5, <2>6 DEF RowsHeld
<1>7. AloneLast'
  BY <1>1 DEF AloneLast, Transcribed
<1>8. QED
  BY <1>1, <1>4, <1>5, <1>6, <1>7

(* A page that starts and ends within Rows::start takes no row. *)
LEMMA StartAloneInv == ASSUME IInv, StartAlone PROVE IInv'
<1> USE BatchingAssumption DEF IInv, StartAlone, Admission, StartsAlone, emitter, CloseNext
<1>1. /\ next \in PageSet /\ next \notin active /\ row[next] = 0
      /\ held[next] = Absent /\ ~stopped
      /\ next' \in 0 .. Pages /\ active' \in SUBSET PageSet
      /\ EveryPageAccounted' /\ alone = {} /\ closing = {}
  BY Admitted
<1>2. TypeOK'
  BY <1>1 DEF TypeOK
<1>3. Control'
  BY <1>1 DEF Control, Poppable
<1>4. RowsHeld'
  BY <1>1 DEF RowsHeld, NoCacheLeak
<1>5. AloneLast'
  BY <1>1, <1>2 DEF AloneLast, Transcribed, TypeOK
<1>6. QED
  BY <1>1, <1>2, <1>3, <1>4, <1>5

(* A prefill that fails keeps its page for the emitter and frees the row. *)
LEMMA StartFailsInv == ASSUME IInv, StartFails PROVE IInv'
<1> USE BatchingAssumption DEF IInv, StartFails, Admission, emitter, CloseNext
<1>1. /\ next \in PageSet /\ next \notin active /\ row[next] = 0
      /\ held[next] = Absent /\ ~stopped
      /\ next' \in 0 .. Pages /\ active' \in SUBSET PageSet
      /\ EveryPageAccounted' /\ alone = {} /\ closing = {}
  BY Admitted
<1>2. TypeOK'
  BY <1>1 DEF TypeOK
<1>3. Control'
  BY <1>1 DEF Control, Poppable
<1>4. RowsHeld'
  BY <1>1 DEF RowsHeld, NoCacheLeak
<1>5. AloneLast'
  BY <1>1 DEF AloneLast, Transcribed
<1>6. QED
  BY <1>1, <1>2, <1>3, <1>4, <1>5
------------------------------------------------------------------------------
(* A joint step: who runs out of room is closed, the others have room left. *)
LEMMA StepInv == ASSUME IInv, Step \/ StepFails PROVE IInv'
<1> USE DEF IInv, Step, StepFails, CloseNext, emitter, engine
<1>1. closing' \in SUBSET active /\ pc = "joint" /\ pc' = "close"
  OBVIOUS
<1>2. \A p \in active : row[p] # 0 /\ room[p] >= 1
  BY DEF RowsHeld, Control
<1>3. alone = {}
  BY DEF AloneLast, Control
<1>4. TypeOK'
  <2>1. \A p \in PageSet : p \in active => room[p] \in Nat /\ room[p] - 1 \in Nat
    BY <1>2 DEF TypeOK
  <2>2. room' \in [PageSet -> Nat]
    BY <2>1 DEF TypeOK
  <2>3. QED
    BY <1>1, <2>2 DEF TypeOK
<1>5. Control'
  BY <1>1 DEF Control, Poppable
<1>6. EveryPageAccounted'
  BY DEF EveryPageAccounted
<1>7. RowsHeld'
  <2>1. \A p \in active : p \notin closing' => room'[p] >= 1
    BY <1>2 DEF Exhausted, TypeOK
  <2>2. QED
    BY <1>2, <2>1 DEF RowsHeld, NoCacheLeak
<1>8. AloneLast'
  BY <1>3 DEF AloneLast, Transcribed
<1>9. QED
  BY <1>4, <1>5, <1>6, <1>7, <1>8

(* The page that leaves moves from the decoding ones to the held answers. *)
LEMMA ClosePageInv == ASSUME IInv, ClosePage PROVE IInv'
<1> USE BatchingAssumption DEF IInv
<1>1. PICK p \in closing, answer \in Answers :
         /\ active' = active \ {p}
         /\ closing' = closing \ {p}
         /\ FinishPage(p, answer) \/ AbandonPage(p, answer)
         /\ Push(p, answer)
  BY DEF ClosePage, Free
<1>2. /\ pc = "close" /\ ~stopped
      /\ UNCHANGED <<next, verdict, after, emitNext, delivered, stopped, room>>
      /\ pc' = "hand" /\ held' = [held EXCEPT ![p] = answer]
  BY <1>1 DEF ClosePage, Push, Control
<1>3. p \in PageSet /\ p \in active /\ held[p] = Absent /\ emitNext <= p /\ p < next
  BY <1>1 DEF Control, TypeOK, EveryPageAccounted, PageSet
<1>4. sessions' = sessions
  BY <1>1 DEF FinishPage, AbandonPage, TakeRow
<1>5. /\ \A q \in PageSet : row'[q] = IF q = p THEN 0 ELSE row[q]
      /\ cached' = cached \ {row[p]}
  <2>1. ASSUME p \in alone
        PROVE  row[p] = 0 /\ cached = cached \ {row[p]}
    BY <2>1 DEF AloneLast, RowsHeld, NoCacheLeak
  <2>2. QED
    BY <1>1, <1>3, <2>1 DEF FinishPage, AbandonPage, TakeRow, TypeOK
<1>6. /\ alone' \in SUBSET alone /\ p \notin alone'
      /\ history \subseteq history' /\ history' \in SUBSET PageSet
  <2>1. verdict = "abandon" => alone = {}
    BY <1>1 DEF AloneLast
  <2>2. QED
    BY <1>1, <1>3, <2>1 DEF FinishPage, AbandonPage, TypeOK
<1>7. TypeOK'
  <2>1. held' \in [PageSet -> Answers \cup {Absent}]
    BY <1>2 DEF TypeOK
  <2>2. row' \in [PageSet -> Nat]
    BY <1>1, <1>3 DEF FinishPage, AbandonPage, TakeRow, TypeOK
  <2>3. active' \in SUBSET PageSet /\ closing' \in SUBSET PageSet
        /\ cached' \in SUBSET Nat /\ alone' \in SUBSET PageSet
    BY <1>1, <1>5, <1>6 DEF TypeOK
  <2>4. QED
    BY <1>2, <1>4, <1>6, <2>1, <2>2, <2>3 DEF TypeOK
<1>8. Control'
  BY <1>1, <1>2 DEF Control
<1>9. EveryPageAccounted'
  <2>1. Cardinality(active') <= RowLimit
    <3>1. IsFiniteSet(active) /\ Cardinality(active) \in Nat
      BY ActiveFinite DEF TypeOK
    <3>2. Cardinality(active') = Cardinality(active) - 1
      BY <1>1, <1>3, <3>1, FS_RemoveElement
    <3>3. QED
      BY <3>1, <3>2, RowLimitPositive DEF EveryPageAccounted
  <2>2. \A q \in PageSet : held'[q] = IF q = p THEN answer ELSE held[q]
    BY <1>2 DEF TypeOK
  <2>3. answer # Absent
    BY DEF Answers, Absent
  <2>4. QED
    BY <1>1, <1>2, <1>3, <2>1, <2>2, <2>3 DEF EveryPageAccounted, TypeOK
<1>10. RowsHeld'
  <2>1. NoCacheLeak'
    <3>1. ASSUME NEW i \in cached' PROVE i # 0 /\ \E q \in active' : row'[q] = i
      <4>1. PICK q \in active : row[q] = i /\ i # 0
        BY <1>5, <3>1 DEF RowsHeld, NoCacheLeak
      <4>2. q # p /\ q \in PageSet
        BY <1>5, <3>1, <4>1 DEF TypeOK
      <4>3. QED
        BY <1>1, <1>5, <4>1, <4>2
    <3>2. QED
      BY <3>1 DEF NoCacheLeak
  <2>2. QED
    BY <1>1, <1>2, <1>3, <1>4, <1>5, <2>1 DEF RowsHeld, TypeOK
<1>11. AloneLast'
  <2>1. alone' = {}
    BY <1>1, <1>6 DEF AloneLast
  <2>2. answer = "text" /\ Drafting => p \in history'
    BY <1>1 DEF FinishPage, AbandonPage, AloneLast
  <2>3. Transcribed' \subseteq Transcribed \cup (IF answer = "text" THEN {p} ELSE {})
    BY <1>2, <1>3 DEF Transcribed, TypeOK
  <2>4. QED
    BY <1>2, <1>6, <2>1, <2>2, <2>3 DEF AloneLast
<1>12. QED
  BY <1>7, <1>8, <1>9, <1>10, <1>11

(* An answer leaves the held ones for the callback. *)
LEMMA HandOverInv == ASSUME IInv, HandOver PROVE IInv'
<1> USE BatchingAssumption DEF IInv
<1>1. /\ emitNext \in PageSet /\ held[emitNext] # Absent
      /\ emitNext' = emitNext + 1
      /\ held' = [held EXCEPT ![emitNext] = Absent]
      /\ delivered' = Append(delivered, <<emitNext, held[emitNext]>>)
      /\ UNCHANGED <<schedule, engine>>
      /\ stopped' \in BOOLEAN
      /\ pc' = IF stopped' THEN "returned" ELSE "hand"
  BY DEF HandOver, Poppable, Popped, AfterCallback
<1>2. held[emitNext] \in Answers /\ emitNext < next /\ emitNext \notin active
  BY <1>1 DEF TypeOK, EveryPageAccounted, PageSet
<1>3. delivered' \in Seq(PageSet \X Answers) /\ Len(delivered') = emitNext'
      /\ delivered'[emitNext + 1] = <<emitNext, held[emitNext]>>
      /\ \A i \in 1 .. Len(delivered) : delivered'[i] = delivered[i]
  BY <1>1, <1>2 DEF TypeOK, Control
<1> USE DEF schedule, engine
<1>4. TypeOK'
  <2>1. held' \in [PageSet -> Answers \cup {Absent}] /\ emitNext' \in 0 .. Pages
    BY <1>1 DEF TypeOK, PageSet
  <2>2. QED
    BY <1>1, <1>3, <2>1 DEF TypeOK
<1>5. Control'
  BY <1>1, <1>3 DEF Control, HandOver
<1>6. EveryPageAccounted'
  BY <1>1, <1>2 DEF EveryPageAccounted, TypeOK, PageSet
<1>7. RowsHeld'
  BY <1>1 DEF RowsHeld, NoCacheLeak
<1>8. AloneLast'
  <2>1. Transcribed' \subseteq Transcribed
    <3>1. ASSUME NEW p \in PageSet, held'[p] = "text" PROVE p \in Transcribed
      BY <1>1, <3>1 DEF Transcribed, TypeOK, Absent
    <3>2. ASSUME NEW p \in PageSet, p < Len(delivered'), delivered'[p + 1][2] = "text"
          PROVE  p \in Transcribed
      <4>1. CASE p = emitNext
        BY <1>3, <3>2, <4>1 DEF Transcribed
      <4>2. CASE p # emitNext
        <5>0. /\ p \in Nat /\ emitNext \in Nat
              /\ Len(delivered) = emitNext /\ Len(delivered') = emitNext + 1
          BY <1>1, <1>3 DEF Control, PageSet
        <5>1. p < Len(delivered) /\ p + 1 \in 1 .. Len(delivered)
          <6> HIDE DEF IInv
          <6> QED BY <3>2, <4>2, <5>0
        <5>2. QED
          BY <1>3, <3>2, <5>1 DEF Transcribed
      <4>3. QED
        BY <4>1, <4>2
    <3>3. QED
      BY <3>1, <3>2 DEF Transcribed
  <2>2. QED
    BY <1>1, <2>1 DEF AloneLast
<1>9. QED
  BY <1>4, <1>5, <1>6, <1>7, <1>8
------------------------------------------------------------------------------
(* IInv is inductive: every step of `drive` keeps it. *)
THEOREM Inductive == Spec => []IInv
<1>1. IInv /\ [Next]_vars => IInv'
  <2> SUFFICES ASSUME IInv, [Next]_vars PROVE IInv'
    OBVIOUS
  <2>1. CASE TestDone \/ StopAdmitting \/ NothingActive \/ RoundOver
             \/ NothingToHand \/ Returned \/ UNCHANGED vars
    BY <2>1, ControlSteps DEF Returned
  <2>2. CASE StartRow
    BY <2>2, StartRowInv
  <2>3. CASE StartAlone
    BY <2>3, StartAloneInv
  <2>4. CASE StartFails
    BY <2>4, StartFailsInv
  <2>5. CASE Step \/ StepFails
    BY <2>5, StepInv
  <2>6. CASE ClosePage
    BY <2>6, ClosePageInv
  <2>7. CASE HandOver
    BY <2>7, HandOverInv
  <2>8. QED
    BY <2>1, <2>2, <2>3, <2>4, <2>5, <2>6, <2>7 DEF Next
<1>2. QED
  BY <1>1, InitInv, PTL DEF Spec

(* Every variable of the scheduler, the emitter and the rows keeps its      *)
(* type; in particular no page is given a token beyond its output budget.   *)
THEOREM TypeCorrect == Spec => []TypeOK
<1>1. IInv => TypeOK
  BY DEF IInv
<1>2. QED
  BY <1>1, Inductive, PTL

(* Started pages are decoding, held or handed over, each in one place, and  *)
(* never more decode than the batch has rows (schedule.rs, stream.rs).      *)
THEOREM Accounted == Spec => []EveryPageAccounted
<1>1. IInv => EveryPageAccounted
  BY DEF IInv
<1>2. QED
  BY <1>1, Inductive, PTL

(* The debug_assert of `drive`: with no page decoding no failure is held,   *)
(* and more, the run is over, so the `continue` is not a busy wait.         *)
THEOREM NoBusyWait == Spec => []NeverIdles
<1>1. ASSUME IInv PROVE NeverIdles
  <2>1. SUFFICES ASSUME pc = "joint", active = {}
                 PROVE  Done /\ ~PendingError
    BY DEF NeverIdles
  <2>2. next = Pages
    BY <1>1, <2>1 DEF IInv, Control
  <2>3. \A p \in PageSet : held[p] = Absent
    BY <1>1, <2>1, BatchingAssumption
       DEF IInv, TypeOK, Control, EveryPageAccounted, Poppable, PageSet
  <2>4. QED
    BY <2>1, <2>2, <2>3, BatchingAssumption DEF Done, PendingError, Absent
<1>2. QED
  BY <1>1, Inductive, PTL

(* InOrder::push's assertion never fires. *)
THEOREM AnswersArriveOnce == Spec => []ArrivesOnce
<1>1. IInv => ArrivesOnce
  BY DEF IInv, ArrivesOnce, Control, EveryPageAccounted, TypeOK, PageSet
<1>2. QED
  BY <1>1, Inductive, PTL

(* Session indices stay good while pages come and go, so each row decodes   *)
(* against its own page's cache.                                            *)
THEOREM SessionsStay == Spec => []RowsKeepTheirSession
<1>1. IInv => RowsKeepTheirSession
  BY DEF IInv, RowsKeepTheirSession, RowsHeld, Control
<1>2. QED
  BY <1>1, Inductive, PTL

(* No cache outlives its page's row. *)
THEOREM CachesReleased == Spec => []NoCacheLeak
<1>1. IInv => NoCacheLeak
  BY DEF IInv, RowsHeld
<1>2. QED
  BY <1>1, Inductive, PTL

(* A page that runs alone has nothing beside it and drafts from every page  *)
(* transcribed before.                                                      *)
THEOREM AloneIsLast == Spec => []AloneDraftsFromAll
<1>1. IInv => AloneDraftsFromAll
  BY DEF IInv, AloneDraftsFromAll, AloneLast
<1>2. QED
  BY <1>1, Inductive, PTL
------------------------------------------------------------------------------
(* The pages in flight, as the stream counts them, are the decoding ones.   *)
LEMMA InFlightIsActive == IInv => Stream!InFlight = active
<1> SUFFICES ASSUME IInv PROVE Stream!InFlight = active
  OBVIOUS
<1>1. Stream!InFlight = {p \in PageSet : p < next /\ p \notin 0 .. emitNext - 1
                                         /\ held[p] = Absent}
  BY DEF Stream!InFlight, Stream!Handed, Stream!PageSet, Stream!Absent, IInv,
         Control, PageSet, Absent
<1>2. \A p \in PageSet : p \notin 0 .. emitNext - 1 <=> emitNext <= p
  BY BatchingAssumption DEF IInv, TypeOK, PageSet
<1>3. active \subseteq PageSet
  BY DEF IInv, TypeOK
<1>4. ASSUME NEW p \in PageSet
      PROVE  p \in active <=> p < next /\ emitNext <= p /\ held[p] = Absent
  <2>1. p \in Nat /\ next \in Nat /\ emitNext \in Nat
    BY BatchingAssumption DEF IInv, TypeOK, PageSet
  <2>2. QED
    BY <2>1 DEF IInv, EveryPageAccounted
<1>5. QED
  BY <1>1, <1>2, <1>3, <1>4

(* A page that starts is the stream's Start. *)
LEMMA AdmissionStarts ==
  ASSUME IInv, Admission, UNCHANGED emitter
  PROVE  Stream!Start
<1>1. ~stopped
  BY DEF IInv, Control, Admission
<1>2. ~Stream!FailureHeld
  BY DEF Admission, PendingError, Stream!FailureHeld, Stream!PageSet, PageSet
<1>3. Cardinality(Stream!InFlight) < RowLimit
  BY InFlightIsActive DEF Admission, Admits
<1>4. Stream!Cardinality(Stream!InFlight) = Cardinality(Stream!InFlight)
  BY DEF Stream!Cardinality, Cardinality
<1>5. QED
  BY <1>1, <1>2, <1>3, <1>4 DEF Admission, Admits, emitter, Stream!Start

(* A page that leaves its row is one step of the contract. *)
LEMMA ClosePageResolves == ASSUME IInv, ClosePage PROVE Stream!Next
<1>1. PICK p \in closing, answer \in Answers : Push(p, answer)
  BY DEF ClosePage
<1>2. p \in active /\ p \in PageSet /\ pc = "close" /\ ~stopped
  BY <1>1 DEF IInv, Control, TypeOK, ClosePage
<1>3. held' = [held EXCEPT ![p] = answer]
  BY <1>1, <1>2 DEF Push
<1>4. Stream!Resolve(p, answer)
  BY <1>2, <1>3, InFlightIsActive DEF Stream!Resolve, ClosePage
<1>5. QED
  BY <1>2, <1>4 DEF Stream!Next, Stream!PageSet, PageSet, Stream!Answers, Answers

(* The emitter's pop and callback are the contract's delivery. *)
LEMMA HandOverDelivers == ASSUME IInv, HandOver PROVE Stream!Deliver
<1>1. emitNext = Len(delivered) /\ ~stopped
  BY DEF IInv, Control, HandOver
<1>2. stopped' \in BOOLEAN
  BY DEF HandOver
<1>3. emitNext \in Stream!Due
  BY <1>1 DEF HandOver, Poppable, Stream!Due, Stream!PageSet, PageSet
<1>4. QED
  BY <1>1, <1>2, <1>3 DEF HandOver, Poppable, Popped, Stream!Deliver,
                          Stream!Absent, Absent, schedule

(* Continuous batching implements the promise every multi-page run makes:   *)
(* each step of `drive` starts a page, answers one, hands one over, or      *)
(* changes nothing the caller can see.                                      *)
THEOREM Implements == Spec => KeepsStreamPromise
<1>1. Init => Stream!Init
  BY DEF Init, Stream!Init, Stream!PageSet, Stream!Absent, PageSet, Absent
<1>2. IInv /\ [Next]_vars => [Stream!Next]_(Stream!vars)
  <2> SUFFICES ASSUME IInv, [Next]_vars
               PROVE  Stream!Next \/ UNCHANGED Stream!vars
    OBVIOUS
  <2> USE DEF emitter, schedule, Stream!vars
  <2>1. CASE TestDone \/ StopAdmitting \/ NothingActive \/ RoundOver
             \/ NothingToHand \/ Returned \/ UNCHANGED vars
    BY <2>1 DEF TestDone, StopAdmitting, NothingActive, RoundOver, NothingToHand,
                Returned, vars
  <2>2. CASE StartRow \/ StartAlone \/ StartFails
    BY <2>2, AdmissionStarts DEF StartRow, StartAlone, StartFails, Stream!Next
  <2>3. CASE Step \/ StepFails
    BY <2>3 DEF Step, StepFails
  <2>4. CASE ClosePage
    BY <2>4, ClosePageResolves
  <2>5. CASE HandOver
    BY <2>5, HandOverDelivers DEF Stream!Next
  <2>6. QED
    BY <2>1, <2>2, <2>3, <2>4, <2>5 DEF Next
<1>3. QED
  BY <1>1, <1>2, Inductive, PTL DEF Spec, KeepsStreamPromise, Stream!Spec
=============================================================================
