--------------------------- MODULE SpinTeamProofs ---------------------------
(***************************************************************************)
(* Proofs about SpinTeam: for every number of callers, workers, tasks,     *)
(* loops and panics, a worker only touches a job that stands on its        *)
(* caller's stack, and a loop whose caller may return has run each of its  *)
(* tasks exactly once.                                                     *)
(***************************************************************************)
EXTENDS SpinTeam, FiniteSetTheorems, TLAPS

(* The caller holds the team's lock; it has published a loop and bumped.    *)
Inside(c) == pc[c] \in {"entered", "bump", "wake", "claim", "exec", "wait"}
Looping(c) == pc[c] \in {"wake", "claim", "exec", "wait"}

(* The worker is in a loop: it has seen its epoch and has not taken its     *)
(* one off `pending`; one that died there never will.                       *)
Working(w) == pc[w] \in {"fetch", "claim", "exec", "finish", "dead"}

(* The workers whose decrement of `pending` is still out. *)
Owing == {w \in Workers : seen[w] # epoch \/ Working(w)}

(* The thread has claimed a task that it has not run to its end. *)
Holds(p) == pc[p] \in {"exec", "dead"}

(* One caller at a time; a panic closes the team for good. *)
LockInv ==
  /\ \A c \in Callers : Inside(c) => busy = "held"
  /\ \A c, d \in Callers : Inside(c) /\ Inside(d) => c = d
  /\ \A c \in Callers : pc[c] = "dead" => busy = "poisoned"

(* `pending` counts the workers that owe a decrement: none between loops.   *)
DebtInv ==
  /\ (\E c \in Callers : pc[c] = "bump") => pending = Participants /\ Owing = {}
  /\ (\A c \in Callers : pc[c] # "bump") => pending = Cardinality(Owing)
  /\ (\A c \in Callers : pc[c] \in {"out", "entered"}) => Owing = {}

(* The job on the stack is that of the epoch, and so is each worker's. *)
JobInv ==
  /\ \A c \in Callers : pc[c] = "bump" => job = epoch + 1
  /\ \A c \in Callers : Looping(c) => job = epoch /\ epoch # 0
  /\ \A w \in Workers : Working(w) => seen[w] = epoch
  /\ (\A c \in Callers : pc[c] # "dead") =>
       \A w \in Workers : pc[w] \in {"claim", "exec"} => mine[w] = epoch

(* Each task below `next` has run once or is held by one thread, the others *)
(* are untouched; a caller waits once all are claimed.                      *)
ClaimInv ==
  /\ \A p \in Threads : Holds(p) =>
       index[p] \in Tasks /\ index[p] < next /\ index[p] < tasks /\ ran[index[p]] = 0
  /\ \A p, q \in Threads : Holds(p) /\ Holds(q) /\ index[p] = index[q] => p = q
  /\ \A t \in Tasks : ran[t] \in {0, 1}
  /\ \A t \in Tasks : t >= next => ran[t] = 0
  /\ \A t \in Tasks : t < next /\ t < tasks /\ ran[t] = 0 =>
       \E p \in Threads : Holds(p) /\ index[p] = t
  /\ \A c \in Callers : pc[c] = "wait" => next >= tasks

IInv == TypeOK /\ LockInv /\ DebtInv /\ JobInv /\ ClaimInv
------------------------------------------------------------------------------
(* Callers and workers are different threads. *)
LEMMA Kinds ==
  /\ \A c \in Callers : c \in Threads
  /\ \A w \in Workers : w \in Threads
  /\ \A c \in Callers, w \in Workers : c # w
BY TeamAssumption DEF Threads

(* A step moves one thread. *)
LEMMA Moved ==
  ASSUME TypeOK, NEW p \in Threads, NEW place, Goto(p, place)
  PROVE  pc'[p] = place /\ \A q \in Threads : q # p => pc'[q] = pc[q]
BY DEF TypeOK, Goto

(* A thread of one kind moves to a place of that kind. *)
LEMMA CallerMoves ==
  ASSUME TypeOK, NEW c \in Callers, NEW place \in CallerPlaces, Goto(c, place)
  PROVE  /\ pc' \in [Threads -> CallerPlaces \cup WorkerPlaces]
         /\ \A d \in Callers : pc'[d] \in CallerPlaces
         /\ \A w \in Workers : pc'[w] \in WorkerPlaces /\ pc'[w] = pc[w]
BY Kinds DEF TypeOK, Goto

(* A worker that moves stays among the workers' places. *)
LEMMA WorkerMoves ==
  ASSUME TypeOK, NEW w \in Workers, NEW place \in WorkerPlaces, Goto(w, place)
  PROVE  /\ pc' \in [Threads -> CallerPlaces \cup WorkerPlaces]
         /\ \A c \in Callers : pc'[c] \in CallerPlaces /\ pc'[c] = pc[c]
         /\ \A v \in Workers : pc'[v] \in WorkerPlaces
BY Kinds DEF TypeOK, Goto

(* The places of a worker that is in no loop, and its moves between them: it *)
(* spins, raises its flag, lies down and rises, and touches nothing else.   *)
Resting == WorkerPlaces \ {"fetch", "claim", "exec", "finish", "dead"}

Rests(w) ==
  \/ Look(w) /\ epoch = seen[w]
  \/ LookAtStop(w) \/ Flag(w) \/ Recheck(w) \/ RecheckStop(w)
  \/ Unparked(w) \/ TimesOut(w) \/ Rise(w)

(* A worker at rest changes nothing of the job: it looks, sleeps or leaves. *)
LEMMA RestingMoves ==
  ASSUME TypeOK, NEW w \in Workers, Rests(w)
  PROVE  /\ pc[w] \in Resting
         /\ \E place \in Resting : Goto(w, place)
         /\ seen' = seen
         /\ UNCHANGED <<busy, epoch, job, tasks, next, pending, mine, index, ran, waking, team>>
         /\ sleeping' \in [Workers -> BOOLEAN] /\ token' \in [Workers -> BOOLEAN]
         /\ stop' = stop
<1> USE DEF loop, sleep, own, Resting, WorkerPlaces
<1>1. CASE Look(w) /\ epoch = seen[w]
  BY <1>1 DEF Look, TypeOK
<1>2. CASE LookAtStop(w)
  BY <1>2 DEF LookAtStop, TypeOK
<1>3. CASE Flag(w)
  BY <1>3 DEF Flag, TypeOK
<1>4. CASE Recheck(w)
  BY <1>4 DEF Recheck, TypeOK
<1>5. CASE RecheckStop(w)
  BY <1>5 DEF RecheckStop, TypeOK
<1>6. CASE Unparked(w)
  BY <1>6 DEF Unparked, TypeOK
<1>7. CASE TimesOut(w)
  BY <1>7 DEF TimesOut, TypeOK
<1>8. CASE Rise(w)
  BY <1>8 DEF Rise, TypeOK
<1>9. QED
  BY <1>1, <1>2, <1>3, <1>4, <1>5, <1>6, <1>7, <1>8 DEF Rests

(* The worker sees the bumped epoch. *)
LooksFresh(w) == Look(w) /\ epoch # seen[w]

(* The steps of a worker, the ones outside of a loop taken together. *)
WorkerStep(w) ==
  \/ Rests(w) \/ LooksFresh(w) \/ Fetch(w) \/ Claim(w) \/ Exec(w)
  \/ Finish(w) \/ WorkerPanics(w)

(* What one step of the team may be. *)
LEMMA Steps ==
  ASSUME [Next]_vars
  PROVE  \/ \E c \in Callers : Caller(c)
         \/ \E w \in Workers : WorkerStep(w)
         \/ Drop
         \/ UNCHANGED vars
BY DEF Next, Worker, WorkerStep, Rests, LooksFresh, Dropped, SpinsOn

(* A worker moves no caller and leaves lock, epoch and job alone. *)
LEMMA WorkerFrame ==
  ASSUME TypeOK, NEW w \in Workers, WorkerStep(w)
  PROVE  /\ UNCHANGED <<busy, epoch, job, tasks>>
         /\ \A c \in Callers : pc'[c] = pc[c]
         /\ \A v \in Workers : v # w => pc'[v] = pc[v]
<1>1. \E place : Goto(w, place)
  BY RestingMoves DEF WorkerStep, LooksFresh, Look, Fetch, Claim, Exec, Finish, WorkerPanics
<1>2. UNCHANGED <<busy, epoch, job, tasks>>
  BY RestingMoves DEF WorkerStep, LooksFresh, Look, Fetch, Claim, Exec, Finish, WorkerPanics, loop
<1>3. QED
  BY <1>1, <1>2, Moved, Kinds

(* A drop of the team leaves the loops alone. *)
LEMMA DropMoves ==
  ASSUME TypeOK, Drop
  PROVE  /\ UNCHANGED <<pc, busy, epoch, job, tasks, next, pending, seen, mine, index, ran>>
         /\ stop' \in BOOLEAN
         /\ sleeping' = sleeping /\ token' \in [Workers -> BOOLEAN]
         /\ waking' \in SUBSET Workers
         /\ team' \in {"alive", "unparking", "joining", "dropped"}
BY DEF Drop, StopTeam, UnparkAll, JoinWorkers, TypeOK, loop, sleep, own, ToUnpark

(* The number of workers that owe a decrement. *)
LEMMA OwingCount ==
  /\ IsFiniteSet(Owing)
  /\ Cardinality(Owing) \in Nat
  /\ Participants \in Nat
  /\ Cardinality(Owing) = 0 <=> Owing = {}
<1>1. Owing \in SUBSET Workers
  BY DEF Owing
<1>2. IsFiniteSet(Owing) /\ IsFiniteSet(Workers)
  BY <1>1, TeamAssumption, FS_Subset
<1>3. QED
  BY <1>2, FS_CardinalityType, FS_EmptySet DEF Participants

(* A worker that finishes a loop pays the decrement it owes. *)
LEMMA FinishPays ==
  ASSUME TypeOK, DebtInv, JobInv, NEW w \in Workers, Finish(w)
  PROVE  /\ \A c \in Callers : pc[c] # "bump"
         /\ w \in Owing
         /\ Owing' = Owing \ {w}
         /\ pending' = Cardinality(Owing')
         /\ pending' \in Nat
<1>1. w \in Owing /\ \A c \in Callers : pc[c] # "bump"
  BY DEF Finish, Owing, Working, DebtInv
<1>2. seen[w] = epoch /\ seen' = seen /\ epoch' = epoch
  BY DEF Finish, Working, JobInv, own
<1>3. pc'[w] = "look" /\ \A v \in Workers : v # w => pc'[v] = pc[v]
  BY Moved, Kinds DEF Finish
<1>4. Owing' = Owing \ {w}
  BY <1>2, <1>3 DEF Owing, Working
<1>5. pending = Cardinality(Owing)
  BY <1>1 DEF DebtInv
<1>6. Cardinality(Owing \ {w}) = Cardinality(Owing) - 1 /\ Cardinality(Owing \ {w}) \in Nat
  BY <1>1, OwingCount, FS_RemoveElement, FS_CardinalityType
<1>7. pending' = pending - 1
  BY DEF Finish
<1>8. QED
  BY <1>1, <1>4, <1>5, <1>6, <1>7

(* Every step keeps the types; `pending` never goes below zero. *)
LEMMA TypeStep ==
  ASSUME TypeOK, DebtInv, JobInv, ClaimInv, [Next]_vars
  PROVE  TypeOK'
<1> USE DEF loop, sleep, own, CallerPlaces, WorkerPlaces
<1>1. ASSUME NEW c \in Callers, Caller(c) PROVE TypeOK'
  <2>1. CASE Enter(c)
    BY <2>1, CallerMoves DEF Enter, TypeOK
  <2>2. CASE Leave(c)
    BY <2>2, CallerMoves DEF Leave, TypeOK
  <2>3. CASE Publish(c)
    <3>1. NoneRan \in [Tasks -> Nat] /\ 2 .. MaxTasks \subseteq 0 .. MaxTasks
      BY TeamAssumption DEF NoneRan
    <3>2. QED
      BY <2>3, <3>1, CallerMoves, OwingCount DEF Publish, TypeOK
  <2>4. CASE Bump(c)
    BY <2>4, CallerMoves DEF Bump, TypeOK
  <2>5. CASE Wake(c)
    <3>1. PICK w \in waking :
            /\ token' = [token EXCEPT ![w] = token[w] \/ sleeping[w]]
            /\ waking' = waking \ {w}
            /\ IF waking = {w} THEN Goto(c, "claim") ELSE UNCHANGED pc
      BY <2>5 DEF Wake
    <3>2. token' \in [Workers -> BOOLEAN] /\ waking' \in SUBSET Workers
      BY <3>1 DEF TypeOK
    <3>3. CASE waking = {w}
      BY <2>5, <3>1, <3>2, <3>3, CallerMoves DEF Wake, TypeOK
    <3>4. CASE waking # {w}
      BY <2>5, <3>1, <3>2, <3>4 DEF Wake, TypeOK
    <3>5. QED
      BY <3>3, <3>4
  <2>6. CASE Return(c)
    BY <2>6, CallerMoves DEF Return, TypeOK
  <2>7. CASE Claim(c)
    <3>1. next + 1 \in Nat /\ [index EXCEPT ![c] = next] \in [Threads -> Nat]
      BY Kinds DEF TypeOK
    <3>2. \E place \in CallerPlaces : Goto(c, place)
      BY <2>7 DEF Claim
    <3>3. QED
      BY <2>7, <3>1, <3>2, CallerMoves DEF Claim, ClaimNext, TypeOK
  <2>8. CASE Exec(c)
    <3>1. index[c] \in Tasks
      BY <2>8, Kinds DEF Exec, ClaimInv, Holds
    <3>2. ran' \in [Tasks -> Nat]
      BY <2>8, <3>1 DEF Exec, TypeOK
    <3>3. QED
      BY <2>8, <3>2, CallerMoves DEF Exec, TypeOK
  <2>9. CASE CallerPanics(c)
    BY <2>9, CallerMoves DEF CallerPanics, TypeOK
  <2>10. QED
    BY <1>1, <2>1, <2>2, <2>3, <2>4, <2>5, <2>6, <2>7, <2>8, <2>9 DEF Caller
<1>2. ASSUME NEW w \in Workers PROVE Rests(w) => TypeOK'
  BY <1>2, RestingMoves, WorkerMoves DEF TypeOK, Resting
<1>3. ASSUME NEW w \in Workers, LooksFresh(w) PROVE TypeOK'
  BY <1>3, WorkerMoves DEF LooksFresh, Look, TypeOK
<1>4. ASSUME NEW w \in Workers, Fetch(w) PROVE TypeOK'
  BY <1>4, WorkerMoves DEF Fetch, TypeOK
<1>5. ASSUME NEW w \in Workers, Claim(w) PROVE TypeOK'
  <2>1. next + 1 \in Nat /\ [index EXCEPT ![w] = next] \in [Threads -> Nat]
    BY Kinds DEF TypeOK
  <2>2. \E place \in WorkerPlaces : Goto(w, place)
    BY <1>5, Kinds DEF Claim
  <2>3. QED
    BY <1>5, <2>1, <2>2, WorkerMoves DEF Claim, ClaimNext, TypeOK
<1>6. ASSUME NEW w \in Workers, Exec(w) PROVE TypeOK'
  <2>1. index[w] \in Tasks
    BY <1>6, Kinds DEF Exec, ClaimInv, Holds
  <2>2. ran' \in [Tasks -> Nat]
    BY <1>6, <2>1 DEF Exec, TypeOK
  <2>3. QED
    BY <1>6, <2>2, WorkerMoves DEF Exec, TypeOK
<1>7. ASSUME NEW w \in Workers, Finish(w) PROVE TypeOK'
  BY <1>7, FinishPays, WorkerMoves DEF Finish, TypeOK
<1>8. ASSUME NEW w \in Workers, WorkerPanics(w) PROVE TypeOK'
  BY <1>8, WorkerMoves DEF WorkerPanics, TypeOK
<1>9. CASE Drop
  BY <1>9, DropMoves DEF TypeOK
<1>10. CASE UNCHANGED vars
  BY <1>10 DEF vars, TypeOK
<1>11. QED
  BY Steps, <1>1, <1>2, <1>3, <1>4, <1>5, <1>6, <1>7, <1>8, <1>9, <1>10 DEF WorkerStep
------------------------------------------------------------------------------
(* The lock changes hands in Enter, Leave and CallerPanics only. *)
LEMMA LockStep ==
  ASSUME TypeOK, LockInv, [Next]_vars
  PROVE  LockInv'
<1>1. ASSUME NEW c \in Callers, Caller(c) PROVE LockInv'
  <2>1. CASE Enter(c)
    <3>1. \A d \in Callers : pc'[d] = IF d = c THEN "entered" ELSE pc[d]
      BY <2>1, Moved, Kinds DEF Enter
    <3>2. \A d \in Callers : ~Inside(d) /\ pc[d] # "dead"
      BY <2>1 DEF Enter, MayEnter, LockInv
    <3>3. busy' = "held"
      BY <2>1 DEF Enter
    <3>4. QED
      BY <3>1, <3>2, <3>3 DEF LockInv, Inside
  <2>2. CASE Leave(c)
    <3>1. \A d \in Callers : pc'[d] = IF d = c THEN "out" ELSE pc[d]
      BY <2>2, Moved, Kinds DEF Leave
    <3>2. Inside(c) /\ busy = "held"
      BY <2>2 DEF Leave, Inside, LockInv
    <3>3. QED
      BY <3>1, <3>2 DEF LockInv, Inside
  <2>3. CASE CallerPanics(c)
    <3>1. \A d \in Callers : pc'[d] = IF d = c THEN "dead" ELSE pc[d]
      BY <2>3, Moved, Kinds DEF CallerPanics
    <3>2. Inside(c) /\ busy' = "poisoned"
      BY <2>3 DEF CallerPanics, Inside
    <3>3. QED
      BY <3>1, <3>2 DEF LockInv, Inside
  <2>4. CASE Publish(c) \/ Bump(c) \/ Wake(c) \/ Return(c) \/ Claim(c) \/ Exec(c)
    <3>1. Inside(c) /\ busy' = busy
      BY <2>4 DEF Publish, Bump, Wake, Return, Await, Claim, Exec, Inside
    <3>2. pc' = pc \/ \E place \in {"entered", "bump", "wake", "claim", "exec", "wait"} : Goto(c, place)
      BY <2>4 DEF Publish, Bump, Wake, Return, Claim, Exec
    <3>3. \A d \in Callers : pc'[d] = "dead" => pc[d] = "dead"
      BY <3>2, Moved, Kinds
    <3>4. \A d \in Callers : Inside(d)' => Inside(d)
      BY <3>1, <3>2, Moved, Kinds DEF Inside
    <3>5. QED
      BY <3>1, <3>3, <3>4 DEF LockInv
  <2>5. QED
    BY <1>1, <2>1, <2>2, <2>3, <2>4 DEF Caller
<1>2. ASSUME (\A c \in Callers : pc'[c] = pc[c]) /\ busy' = busy PROVE LockInv'
  BY <1>2 DEF LockInv, Inside
<1>3. ASSUME NEW w \in Workers, WorkerStep(w)
      PROVE  (\A c \in Callers : pc'[c] = pc[c]) /\ busy' = busy
  BY <1>3, WorkerFrame
<1>4. ASSUME Drop \/ UNCHANGED vars
      PROVE  (\A c \in Callers : pc'[c] = pc[c]) /\ busy' = busy
  BY <1>4, DropMoves DEF vars
<1>5. QED
  BY Steps, <1>1, <1>2, <1>3, <1>4

(* Between loops no worker owes anything: a caller that could publish holds *)
(* the lock, and everyone else is out.                                      *)
LEMMA NoneOwes ==
  ASSUME TypeOK, LockInv, DebtInv, NEW c \in Callers, pc[c] \in {"entered", "bump"}
  PROVE  /\ Owing = {}
         /\ \A d \in Callers : d # c => pc[d] = "out"
         /\ \A w \in Workers : seen[w] = epoch /\ ~Working(w)
<1>1. Inside(c) /\ busy = "held"
  BY DEF Inside, LockInv
<1>2. ASSUME NEW d \in Callers, d # c PROVE pc[d] = "out"
  <2>1. ~Inside(d) /\ pc[d] # "dead"
    BY <1>1, <1>2 DEF LockInv
  <2>2. QED
    BY <2>1 DEF TypeOK, CallerPlaces, Inside
<1>3. Owing = {}
  BY <1>2 DEF DebtInv
<1>4. QED
  BY <1>2, <1>3 DEF Owing

(* Whoever else is inside, it is the caller that moves. *)
LEMMA Alone ==
  ASSUME LockInv, NEW c \in Callers, Inside(c)
  PROVE  \A d \in Callers : d # c => ~Inside(d)
BY DEF LockInv

(* A step of a caller leaves the workers to themselves. *)
LEMMA CallerFrame ==
  ASSUME TypeOK, NEW c \in Callers, Caller(c)
  PROVE  /\ UNCHANGED <<seen, mine>>
         /\ \A d \in Callers : d # c => pc'[d] = pc[d]
         /\ \A w \in Workers : pc'[w] = pc[w]
<1>1. pc' = pc \/ \E place : Goto(c, place)
  BY DEF Caller, Enter, Leave, Publish, Bump, Wake, Return, Claim, Exec, CallerPanics
<1>2. UNCHANGED <<seen, mine>>
  BY DEF Caller, Enter, Leave, Publish, Bump, Wake, Return, Claim, Exec, CallerPanics, own
<1>3. QED
  BY <1>1, <1>2, Moved, Kinds

(* `pending` remains the number of workers that owe a decrement. *)
LEMMA DebtStep ==
  ASSUME TypeOK, LockInv, DebtInv, JobInv, [Next]_vars
  PROVE  DebtInv'
<1>1. ASSUME NEW c \in Callers, Caller(c) PROVE DebtInv'
  <2>1. /\ \A d \in Callers : d # c => pc'[d] = pc[d]
        /\ \A w \in Workers : pc'[w] = pc[w] /\ seen' = seen
    BY <1>1, CallerFrame
  <2>2. epoch' = epoch => Owing' = Owing
    BY <2>1 DEF Owing, Working
  <2>3. CASE Enter(c)
    <3>1. pc'[c] = "entered" /\ pending' = pending /\ epoch' = epoch
      BY <2>3, Moved, Kinds DEF Enter, loop
    <3>2. \A d \in Callers : pc[d] # "bump"
      BY <2>3 DEF Enter, MayEnter, LockInv, Inside
    <3>3. pc[c] = "out"
      BY <2>3 DEF Enter
    <3>4. QED
      BY <2>1, <2>2, <3>1, <3>2, <3>3 DEF DebtInv
  <2>4. CASE Leave(c)
    <3>1. pc'[c] = "out" /\ pending' = pending /\ epoch' = epoch /\ pc[c] = "entered"
      BY <2>4, Moved, Kinds DEF Leave, loop
    <3>2. Owing = {} /\ \A d \in Callers : d # c => pc[d] = "out"
      BY <3>1, NoneOwes
    <3>3. QED
      BY <2>1, <2>2, <3>1, <3>2 DEF DebtInv
  <2>5. CASE Publish(c)
    <3>1. pc'[c] = "bump" /\ pending' = Participants /\ epoch' = epoch /\ pc[c] = "entered"
      BY <2>5, Moved, Kinds DEF Publish
    <3>2. Owing = {}
      BY <3>1, NoneOwes
    <3>3. QED
      BY <2>2, <3>1, <3>2 DEF DebtInv, Participants
  <2>6. CASE Bump(c)
    <3>1. pc'[c] = "wake" /\ pending' = pending /\ epoch' = epoch + 1 /\ pc[c] = "bump"
      BY <2>6, Moved, Kinds DEF Bump, loop
    <3>2. /\ \A d \in Callers : d # c => pc[d] = "out"
          /\ \A w \in Workers : seen[w] = epoch
      BY <3>1, NoneOwes
    <3>3. Owing' = Workers
      BY <2>1, <3>1, <3>2 DEF Owing, TypeOK
    <3>4. pending = Cardinality(Workers)
      BY <3>1 DEF DebtInv, Participants
    <3>5. QED
      BY <2>1, <3>1, <3>2, <3>3, <3>4 DEF DebtInv
  <2>7. CASE Return(c)
    <3>1. pc'[c] = "entered" /\ pending' = pending /\ epoch' = epoch
          /\ pc[c] = "wait" /\ pending = 0
      BY <2>7, Moved, Kinds DEF Return, Await
    <3>2. \A d \in Callers : pc[d] # "bump" /\ pc'[d] # "bump"
      BY <2>1, <3>1, Alone DEF Inside
    <3>3. Owing = {}
      BY <3>1, <3>2, OwingCount DEF DebtInv
    <3>4. QED
      BY <2>2, <3>1, <3>2, <3>3, OwingCount DEF DebtInv
  <2>8. CASE Wake(c) \/ Claim(c) \/ Exec(c) \/ CallerPanics(c)
    <3>1. Looping(c) /\ pending' = pending /\ epoch' = epoch
      BY <2>8 DEF Wake, Claim, Exec, CallerPanics, Looping, loop
    <3>2. pc'[c] \in {"wake", "claim", "exec", "wait", "dead"}
      <4>1. pc' = pc \/ \E place \in {"wake", "claim", "exec", "wait", "dead"} : Goto(c, place)
        BY <2>8 DEF Wake, Claim, Exec, CallerPanics
      <4>2. QED
        BY <3>1, <4>1, Moved, Kinds DEF Looping
    <3>3. QED
      BY <2>1, <2>2, <3>1, <3>2 DEF DebtInv, Looping
  <2>9. QED
    BY <1>1, <2>3, <2>4, <2>5, <2>6, <2>7, <2>8 DEF Caller
<1>2. ASSUME \A c \in Callers : pc'[c] = pc[c], Owing' = Owing, pending' = pending
      PROVE  DebtInv'
  BY <1>2 DEF DebtInv, Participants
<1>3. ASSUME NEW w \in Workers, WorkerStep(w) PROVE DebtInv'
  <2>1. /\ epoch' = epoch
        /\ \A c \in Callers : pc'[c] = pc[c]
        /\ \A v \in Workers : v # w => pc'[v] = pc[v]
    BY <1>3, WorkerFrame
  <2>2. CASE Rests(w)
    <3>1. ~Working(w) /\ ~Working(w)' /\ seen' = seen /\ pending' = pending
      BY <2>2, RestingMoves, Moved, Kinds DEF Working, Resting
    <3>2. Owing' = Owing
      BY <2>1, <3>1 DEF Owing, Working
    <3>3. QED
      BY <1>2, <2>1, <3>1, <3>2
  <2>3. CASE LooksFresh(w)
    <3>1. /\ pc'[w] = "fetch" /\ pending' = pending /\ epoch # seen[w]
          /\ \A v \in Workers : v # w => seen'[v] = seen[v]
      BY <2>3, Moved, Kinds DEF LooksFresh, Look, loop, TypeOK
    <3>2. Owing' = Owing
      BY <2>1, <3>1 DEF Owing, Working
    <3>3. QED
      BY <1>2, <2>1, <3>1, <3>2
  <2>4. CASE Fetch(w) \/ Claim(w) \/ Exec(w) \/ WorkerPanics(w)
    <3>1. Working(w) /\ seen' = seen /\ pending' = pending
      BY <2>4 DEF Fetch, Claim, Exec, WorkerPanics, Working, loop, own
    <3>2. Working(w)'
      BY <2>4, Moved, Kinds DEF Fetch, Claim, Exec, WorkerPanics, Working
    <3>3. Owing' = Owing
      BY <2>1, <3>1, <3>2 DEF Owing, Working
    <3>4. QED
      BY <1>2, <2>1, <3>1, <3>3
  <2>5. CASE Finish(w)
    BY <2>1, <2>5, FinishPays DEF DebtInv
  <2>6. QED
    BY <1>3, <2>2, <2>3, <2>4, <2>5 DEF WorkerStep
<1>4. CASE Drop \/ UNCHANGED vars
  <2>1. UNCHANGED <<pc, epoch, seen, pending>>
    BY <1>4, DropMoves DEF vars, loop, own
  <2>2. Owing' = Owing
    BY <2>1 DEF Owing, Working
  <2>3. QED
    BY <1>2, <2>1, <2>2
<1>5. QED
  BY Steps, <1>1, <1>3, <1>4

(* A worker in the loop keeps the job of the current epoch. *)
LEMMA JobStep ==
  ASSUME TypeOK, LockInv, DebtInv, JobInv, [Next]_vars
  PROVE  JobInv'
<1>1. ASSUME NEW c \in Callers, Caller(c) PROVE JobInv'
  <2>1. /\ \A d \in Callers : d # c => pc'[d] = pc[d]
        /\ \A w \in Workers : pc'[w] = pc[w]
        /\ seen' = seen /\ mine' = mine
    BY <1>1, CallerFrame
  <2>2. CASE Enter(c) \/ Leave(c)
    <3>1. UNCHANGED <<job, epoch>> /\ pc[c] # "dead" /\ pc'[c] \in {"entered", "out"}
      BY <2>2, Moved, Kinds DEF Enter, Leave, loop
    <3>2. QED
      BY <2>1, <3>1 DEF JobInv, Looping, Working
  <2>3. CASE Publish(c)
    <3>1. job' = epoch + 1 /\ epoch' = epoch /\ pc'[c] = "bump" /\ pc[c] = "entered"
      BY <2>3, Moved, Kinds DEF Publish
    <3>2. \A d \in Callers : d # c => pc[d] = "out"
      BY <3>1, NoneOwes
    <3>3. QED
      BY <2>1, <3>1, <3>2 DEF JobInv, Looping, Working
  <2>4. CASE Bump(c)
    <3>1. job' = job /\ epoch' = epoch + 1 /\ pc'[c] = "wake" /\ pc[c] = "bump"
      BY <2>4, Moved, Kinds DEF Bump, loop
    <3>2. /\ \A d \in Callers : d # c => pc[d] = "out"
          /\ \A w \in Workers : ~Working(w)
      BY <3>1, NoneOwes
    <3>3. job = epoch + 1 /\ epoch + 1 # 0
      BY <3>1 DEF JobInv, TypeOK
    <3>4. QED
      BY <2>1, <3>1, <3>2, <3>3 DEF JobInv, Looping, Working
  <2>5. CASE Return(c) \/ CallerPanics(c)
    <3>1. epoch' = epoch /\ Inside(c) /\ pc[c] # "dead" /\ pc'[c] \in {"entered", "dead"}
      BY <2>5, Moved, Kinds DEF Return, Await, CallerPanics, Inside
    <3>2. \A d \in Callers : pc'[d] # "bump" /\ ~Looping(d)'
      BY <2>1, <3>1, Alone DEF Inside, Looping
    <3>3. QED
      BY <2>1, <3>1, <3>2 DEF JobInv, Working
  <2>6. CASE Wake(c) \/ Claim(c) \/ Exec(c)
    <3>1. UNCHANGED <<job, epoch>> /\ Looping(c)
      BY <2>6 DEF Wake, Claim, Exec, Looping, loop
    <3>2. pc'[c] \in {"wake", "claim", "exec", "wait"}
      <4>1. pc' = pc \/ \E place \in {"wake", "claim", "exec", "wait"} : Goto(c, place)
        BY <2>6 DEF Wake, Claim, Exec
      <4>2. QED
        BY <3>1, <4>1, Moved, Kinds DEF Looping
    <3>3. QED
      BY <2>1, <3>1, <3>2 DEF JobInv, Looping, Working
  <2>7. QED
    BY <1>1, <2>2, <2>3, <2>4, <2>5, <2>6 DEF Caller
<1>2. ASSUME NEW w \in Workers, WorkerStep(w) PROVE JobInv'
  <2>1. /\ UNCHANGED <<epoch, job>>
        /\ \A c \in Callers : pc'[c] = pc[c]
        /\ \A v \in Workers : v # w => pc'[v] = pc[v]
    BY <1>2, WorkerFrame
  <2>2. CASE Rests(w)
    <3>1. pc'[w] \in Resting /\ seen' = seen /\ mine' = mine
      BY <2>2, RestingMoves, Moved, Kinds
    <3>2. QED
      BY <2>1, <3>1 DEF JobInv, Looping, Working, Resting
  <2>3. CASE LooksFresh(w)
    <3>1. /\ pc'[w] = "fetch" /\ seen'[w] = epoch /\ mine' = mine
          /\ \A v \in Workers : v # w => seen'[v] = seen[v]
      BY <2>3, Moved, Kinds DEF LooksFresh, Look, TypeOK
    <3>2. QED
      BY <2>1, <3>1 DEF JobInv, Looping, Working
  <2>4. CASE Fetch(w)
    <3>1. /\ pc'[w] = "claim" /\ Working(w) /\ mine'[w] = job /\ seen' = seen
          /\ \A v \in Workers : v # w => mine'[v] = mine[v]
      BY <2>4, Moved, Kinds DEF Fetch, Working, TypeOK
    <3>2. w \in Owing
      BY <3>1 DEF Owing
    <3>3. (\A c \in Callers : pc[c] # "dead") => job = epoch
      <4>1. \A c \in Callers : pc[c] # "bump"
        BY <3>2 DEF DebtInv
      <4>2. \E c \in Callers : pc[c] \notin {"out", "entered"}
        BY <3>2 DEF DebtInv
      <4>3. QED
        BY <4>1, <4>2 DEF JobInv, Looping, TypeOK, CallerPlaces
    <3>4. QED
      BY <2>1, <3>1, <3>3 DEF JobInv, Looping, Working
  <2>5. CASE Claim(w) \/ Exec(w) \/ Finish(w) \/ WorkerPanics(w)
    <3>1. Working(w) /\ seen' = seen /\ mine' = mine
      BY <2>5 DEF Claim, Exec, Finish, WorkerPanics, Working, own
    <3>2. pc'[w] \in {"claim", "exec"} => pc[w] \in {"claim", "exec"}
      BY <2>5, Moved, Kinds DEF Claim, Exec, Finish, WorkerPanics
    <3>3. QED
      BY <2>1, <3>1, <3>2 DEF JobInv, Looping, Working
  <2>6. QED
    BY <1>2, <2>2, <2>3, <2>4, <2>5 DEF WorkerStep
<1>3. CASE Drop \/ UNCHANGED vars
  <2>1. UNCHANGED <<pc, epoch, job, seen, mine>>
    BY <1>3, DropMoves DEF vars, loop, own
  <2>2. QED
    BY <2>1 DEF JobInv, Looping, Working
<1>4. QED
  BY Steps, <1>1, <1>2, <1>3
------------------------------------------------------------------------------
(* Claims are settled by publishing, claiming and running tasks only. *)
LEMMA ClaimFrame ==
  ASSUME ClaimInv, UNCHANGED <<index, next, tasks, ran>>,
         \A p \in Threads : Holds(p)' <=> Holds(p),
         \A c \in Callers : pc'[c] = "wait" => pc[c] = "wait"
  PROVE  ClaimInv'
BY DEF ClaimInv

(* The caller that moves on its own keeps what it holds, if anything. *)
LEMMA HoldsFrame ==
  ASSUME TypeOK, NEW p \in Threads,
         \A q \in Threads : q # p => pc'[q] = pc[q],
         Holds(p)' <=> Holds(p)
  PROVE  \A q \in Threads : Holds(q)' <=> Holds(q)
BY DEF Holds

(* A thread claims the next task, which nobody has had, or finds none left. *)
LEMMA ClaimClaims ==
  ASSUME TypeOK, ClaimInv, NEW p \in Threads, Claim(p)
  PROVE  ClaimInv'
<1>1. next' = next + 1 /\ next \in Nat /\ tasks' = tasks /\ ran' = ran /\ pc[p] = "claim"
  BY DEF Claim, ClaimNext, TypeOK
<1>2. tasks \in Nat /\ tasks <= MaxTasks
  BY TeamAssumption DEF TypeOK
<1>3. CASE next < tasks
  <2>1. /\ pc'[p] = "exec" /\ index'[p] = next
        /\ \A q \in Threads : q # p => pc'[q] = pc[q] /\ index'[q] = index[q]
    BY <1>3, Moved DEF Claim, TypeOK
  <2>2. next \in Tasks /\ ran[next] = 0
    BY <1>1, <1>2, <1>3, TeamAssumption DEF Tasks, ClaimInv
  <2>3. Holds(p)' /\ ~Holds(p) /\ \A q \in Threads : q # p => (Holds(q)' <=> Holds(q))
    BY <1>1, <2>1 DEF Holds
  <2>4. ASSUME NEW q \in Threads, Holds(q)'
        PROVE  index'[q] \in Tasks /\ index'[q] < next' /\ index'[q] < tasks' /\ ran'[index'[q]] = 0
    <3>1. CASE q = p
      BY <1>1, <1>3, <2>1, <2>2, <3>1
    <3>2. CASE q # p
      BY <1>1, <2>1, <2>3, <2>4, <3>2 DEF ClaimInv, Tasks
    <3>3. QED
      BY <3>1, <3>2
  <2>5. ASSUME NEW q \in Threads, NEW r \in Threads, Holds(q)', Holds(r)', index'[q] = index'[r]
        PROVE  q = r
    <3>1. \A u \in Threads : Holds(u) => index[u] < next /\ index[u] \in Nat
      BY DEF ClaimInv, TypeOK
    <3>2. QED
      BY <1>1, <2>1, <2>3, <2>5, <3>1 DEF ClaimInv
  <2>6. ASSUME NEW t \in Tasks, t < next', t < tasks', ran'[t] = 0
        PROVE  \E q \in Threads : Holds(q)' /\ index'[q] = t
    <3>1. CASE t = next
      BY <2>1, <2>3, <3>1
    <3>2. CASE t # next
      <4>1. t < next /\ t < tasks /\ ran[t] = 0
        BY <1>1, <1>2, <2>6, <3>2 DEF Tasks
      <4>2. PICK q \in Threads : Holds(q) /\ index[q] = t
        BY <4>1 DEF ClaimInv
      <4>3. q # p
        BY <2>3, <4>2
      <4>4. QED
        BY <2>1, <2>3, <4>2, <4>3
    <3>3. QED
      BY <3>1, <3>2
  <2>7. \A t \in Tasks : ran'[t] \in {0, 1} /\ (t >= next' => ran'[t] = 0)
    BY <1>1 DEF ClaimInv, Tasks
  <2>8. \A c \in Callers : pc'[c] = "wait" => next' >= tasks'
    BY <1>1, <1>2, <2>1, Kinds DEF ClaimInv
  <2>9. QED
    BY <2>4, <2>5, <2>6, <2>7, <2>8 DEF ClaimInv
<1>4. CASE ~(next < tasks)
  <2>1. index' = index /\ pc'[p] \in {"wait", "finish"} /\ next >= tasks
        /\ \A q \in Threads : q # p => pc'[q] = pc[q]
    BY <1>1, <1>2, <1>4, Moved DEF Claim
  <2>2. \A q \in Threads : Holds(q)' <=> Holds(q)
    BY <1>1, <2>1 DEF Holds
  <2>3. \A t \in Tasks : t < next' /\ t < tasks' => t < next /\ t < tasks
    BY <1>1, <1>2, <2>1 DEF Tasks
  <2>4. \A t \in Tasks : t >= next' => t >= next
    BY <1>1 DEF Tasks
  <2>5. \A q \in Threads : index[q] < next => index[q] < next'
    BY <1>1 DEF TypeOK
  <2>6. next' >= tasks'
    BY <1>1, <1>2, <2>1
  <2>7. QED
    BY <1>1, <2>1, <2>2, <2>3, <2>4, <2>5, <2>6 DEF ClaimInv
<1>5. QED
  BY <1>3, <1>4

(* A thread that ran its task lets go of it, and no other held it. *)
LEMMA ExecRuns ==
  ASSUME TypeOK, ClaimInv, NEW p \in Threads, Exec(p)
  PROVE  ClaimInv'
<1>1. UNCHANGED <<index, next, tasks>> /\ pc[p] = "exec" /\ pc'[p] = "claim"
      /\ \A q \in Threads : q # p => pc'[q] = pc[q]
  BY Moved DEF Exec, loop, own
<1>2. index[p] \in Tasks /\ index[p] < next /\ ran[index[p]] = 0 /\ next \in Nat
  BY <1>1 DEF ClaimInv, Holds, TypeOK
<1>3. ran'[index[p]] = 1 /\ \A t \in Tasks : t # index[p] => ran'[t] = ran[t]
  BY <1>2 DEF Exec, TypeOK
<1>4. \A q \in Threads : Holds(q)' <=> Holds(q) /\ q # p
  BY <1>1 DEF Holds
<1>5. \A q \in Threads : Holds(q)' => index[q] # index[p]
  BY <1>1, <1>4 DEF ClaimInv, Holds
<1>6. \A q \in Threads : Holds(q)' =>
        index'[q] \in Tasks /\ index'[q] < next' /\ index'[q] < tasks' /\ ran'[index'[q]] = 0
  BY <1>1, <1>3, <1>4, <1>5 DEF ClaimInv
<1>7. \A t \in Tasks : ran'[t] \in {0, 1} /\ (t >= next' => ran'[t] = 0)
  BY <1>1, <1>2, <1>3 DEF ClaimInv, Tasks
<1>8. \A t \in Tasks : t < next' /\ t < tasks' /\ ran'[t] = 0 =>
        \E q \in Threads : Holds(q)' /\ index'[q] = t
  BY <1>1, <1>3, <1>4 DEF ClaimInv
<1>9. \A c \in Callers : pc'[c] = "wait" => next' >= tasks'
  BY <1>1, Kinds DEF ClaimInv
<1>10. QED
  BY <1>1, <1>4, <1>6, <1>7, <1>8, <1>9 DEF ClaimInv

(* A claimed task was run once or is held by one thread. *)
LEMMA ClaimStep ==
  ASSUME TypeOK, LockInv, DebtInv, ClaimInv, [Next]_vars
  PROVE  ClaimInv'
<1>1. ASSUME NEW c \in Callers, Caller(c) PROVE ClaimInv'
  <2>1. c \in Threads /\ \A q \in Threads : q # c => pc'[q] = pc[q]
    BY <1>1, CallerFrame, Kinds DEF Threads
  <2>2. CASE Publish(c)
    <3>1. /\ pc'[c] = "bump" /\ next' = 0 /\ pc[c] = "entered"
          /\ ran' = [t \in Tasks |-> 0]
      BY <2>2, Moved, Kinds DEF Publish, NoneRan
    <3>2. \A p \in Threads : ~Holds(p)' /\ (p \in Callers => pc'[p] # "wait")
      BY <2>1, <3>1, NoneOwes DEF Threads, Holds, Working
    <3>3. QED
      BY <3>1, <3>2, Kinds DEF ClaimInv, Tasks
  <2>3. CASE Claim(c)
    BY <2>1, <2>3, ClaimClaims
  <2>4. CASE Exec(c)
    BY <2>1, <2>4, ExecRuns
  <2>5. CASE Enter(c) \/ Leave(c) \/ Bump(c) \/ Wake(c) \/ Return(c) \/ CallerPanics(c)
    <3>1. UNCHANGED <<index, next, tasks, ran>>
      BY <2>5 DEF Enter, Leave, Bump, Wake, Return, CallerPanics, loop, own
    <3>2. (Holds(c)' <=> Holds(c)) /\ (pc'[c] = "wait" => pc[c] = "wait")
      BY <2>1, <2>5, Moved DEF Enter, Leave, Bump, Wake, Return, Await, CallerPanics, Holds
    <3>3. QED
      BY <2>1, <3>1, <3>2, ClaimFrame, HoldsFrame, Kinds
  <2>6. QED
    BY <1>1, <2>2, <2>3, <2>4, <2>5 DEF Caller
<1>2. ASSUME NEW w \in Workers, WorkerStep(w) PROVE ClaimInv'
  <2>1. /\ w \in Threads /\ \A q \in Threads : q # w => pc'[q] = pc[q]
        /\ \A c \in Callers : pc'[c] = pc[c]
    BY <1>2, WorkerFrame, Kinds DEF Threads
  <2>2. CASE Claim(w)
    BY <2>1, <2>2, ClaimClaims
  <2>3. CASE Exec(w)
    BY <2>1, <2>3, ExecRuns
  <2>4. CASE Rests(w)
    <3>1. UNCHANGED <<index, next, tasks, ran>> /\ ~Holds(w) /\ ~Holds(w)'
      BY <2>1, <2>4, RestingMoves, Moved DEF Holds, Resting
    <3>2. QED
      BY <2>1, <3>1, ClaimFrame, HoldsFrame
  <2>5. CASE LooksFresh(w) \/ Fetch(w) \/ Finish(w) \/ WorkerPanics(w)
    <3>1. UNCHANGED <<index, next, tasks, ran>>
      BY <2>5 DEF LooksFresh, Look, Fetch, Finish, WorkerPanics, loop, own
    <3>2. Holds(w)' <=> Holds(w)
      BY <2>1, <2>5, Moved DEF LooksFresh, Look, Fetch, Finish, WorkerPanics, Holds
    <3>3. QED
      BY <2>1, <3>1, <3>2, ClaimFrame, HoldsFrame
  <2>6. QED
    BY <1>2, <2>2, <2>3, <2>4, <2>5 DEF WorkerStep
<1>3. CASE Drop \/ UNCHANGED vars
  <2>1. UNCHANGED <<pc, index, next, tasks, ran>>
    BY <1>3, DropMoves DEF vars, loop, own
  <2>2. QED
    BY <2>1, ClaimFrame DEF Holds
<1>4. QED
  BY Steps, <1>1, <1>2, <1>3
------------------------------------------------------------------------------
(* The invariant holds of a team that has had no job. *)
LEMMA InitInv == Init => IInv
<1> SUFFICES ASSUME Init PROVE IInv
  OBVIOUS
<1>1. /\ \A c \in Callers : pc[c] = "out"
      /\ \A w \in Workers : pc[w] = "look" /\ seen[w] = 0
  BY Kinds DEF Init
<1>2. Owing = {} /\ pending = 0
  BY <1>1 DEF Owing, Working, Init
<1>3. \A p \in Threads : ~Holds(p)
  BY <1>1 DEF Threads, Holds
<1>4. TypeOK
  <2>1. pc \in [Threads -> CallerPlaces \cup WorkerPlaces]
    BY DEF Init, CallerPlaces, WorkerPlaces
  <2>2. /\ \A c \in Callers : pc[c] \in CallerPlaces
        /\ \A w \in Workers : pc[w] \in WorkerPlaces
    BY <1>1 DEF CallerPlaces, WorkerPlaces
  <2>3. ran \in [Tasks -> Nat] /\ tasks \in 0 .. MaxTasks
    BY TeamAssumption DEF Init, NoneRan
  <2>4. index \in [Threads -> Nat]
    BY DEF Init
  <2>5. /\ sleeping \in [Workers -> BOOLEAN] /\ token \in [Workers -> BOOLEAN]
        /\ seen \in [Workers -> Nat] /\ mine \in [Workers -> Nat]
    BY DEF Init
  <2>6. QED
    BY <2>1, <2>2, <2>3, <2>4, <2>5 DEF Init, TypeOK
<1>5. LockInv
  BY <1>1 DEF LockInv, Inside
<1>6. DebtInv
  BY <1>1, <1>2, FS_EmptySet DEF DebtInv
<1>7. JobInv
  BY <1>1 DEF JobInv, Looping, Working
<1>8. ClaimInv
  BY <1>1, <1>3 DEF ClaimInv, Init, NoneRan, Tasks
<1>9. QED
  BY <1>4, <1>5, <1>6, <1>7, <1>8 DEF IInv

(* What each thread of the team may rely on, whichever way they interleave: *)
(* the lock admits one caller, `pending` counts the workers in the loop,    *)
(* and each task is run or held once.                                       *)
THEOREM TeamInvariant == Spec => []IInv
<1>1. IInv /\ [Next]_vars => IInv'
  BY TypeStep, LockStep, DebtStep, JobStep, ClaimStep DEF IInv
<1>2. QED
  BY InitInv, <1>1, PTL DEF Spec

(* TypeOK holds of every behaviour: above all, `pending` never wraps below  *)
(* zero, however many workers finish a loop, are late for it or die in it.  *)
THEOREM TypeCorrect == Spec => []TypeOK
<1>1. IInv => TypeOK
  BY DEF IInv
<1>2. QED
  BY TeamInvariant, <1>1, PTL

(* The SAFETY comments of `run` and `worker` hold for every team: while a   *)
(* worker fetches the job or runs its tasks, that job is on its caller's    *)
(* stack, unless a task that panicked on the caller unwound it.             *)
THEOREM JobOutlives == Spec => []JobOutlivesWorkersUnlessUnwound
<1>1. ASSUME IInv, \A c \in Callers : pc[c] # "dead", NEW w \in Workers, pc[w] \in InLoop
      PROVE  job # 0 /\ job = seen[w] /\ (pc[w] # "fetch" => mine[w] = job)
  <2>1. Working(w) /\ w \in Owing
    BY <1>1 DEF InLoop, Working, Owing
  <2>2. PICK c \in Callers : pc[c] \notin {"out", "entered"}
    BY <1>1, <2>1 DEF IInv, DebtInv
  <2>3. Looping(c)
    <3>1. pc[c] # "bump"
      BY <1>1, <2>1 DEF IInv, DebtInv
    <3>2. QED
      BY <1>1, <2>2, <3>1 DEF IInv, TypeOK, CallerPlaces, Looping
  <2>4. job = epoch /\ epoch # 0 /\ seen[w] = epoch
    BY <1>1, <2>1, <2>3 DEF IInv, JobInv
  <2>5. pc[w] # "fetch" => mine[w] = epoch
    BY <1>1 DEF IInv, JobInv, InLoop
  <2>6. QED
    BY <2>4, <2>5
<1>2. IInv => JobOutlivesWorkersUnlessUnwound
  BY <1>1 DEF JobOutlivesWorkersUnlessUnwound, JobOutlivesWorkers
<1>3. QED
  BY TeamInvariant, <1>2, PTL

(* `run` returns only from a complete loop: when a caller sees `pending` at *)
(* zero every task has run, and run once, on whichever threads.             *)
THEOREM Complete == Spec => []LoopIsComplete
<1>1. ASSUME IInv, NEW c \in Callers, Await(c), NEW t \in 0 .. tasks - 1
      PROVE  ran[t] = 1
  <2>1. Inside(c) /\ next >= tasks /\ pc[c] = "wait"
    BY <1>1 DEF Await, Inside, IInv, ClaimInv
  <2>2. \A d \in Callers : pc[d] \notin {"bump", "exec", "dead"}
    BY <1>1, <2>1 DEF IInv, LockInv, Inside
  <2>3. Owing = {}
    BY <1>1, <2>2, OwingCount DEF IInv, DebtInv, Await
  <2>4. \A p \in Threads : ~Holds(p)
    BY <2>2, <2>3 DEF Threads, Holds, Owing, Working
  <2>5. t \in Tasks /\ t < next /\ t < tasks
    BY <1>1, <2>1, TeamAssumption DEF Tasks, IInv, TypeOK
  <2>6. ran[t] # 0 /\ ran[t] \in {0, 1}
    BY <1>1, <2>4, <2>5 DEF IInv, ClaimInv
  <2>7. QED
    BY <2>6
<1>2. IInv => LoopIsComplete
  BY <1>1 DEF LoopIsComplete
<1>3. QED
  BY TeamInvariant, <1>2, PTL
=============================================================================
