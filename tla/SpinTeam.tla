------------------------------ MODULE SpinTeam ------------------------------
(***************************************************************************)
(* The decode team (team.rs): a calling thread publishes a parallel loop   *)
(* on its stack, bumps an epoch the workers spin on, wakes the sleeping    *)
(* ones, claims tasks beside them from a shared counter and waits until    *)
(* every worker is through with the loop.  A step is one atomic operation  *)
(* of one thread, in sequentially consistent order.                        *)
(*                                                                         *)
(* pc of a caller: "out" (not entered), "entered", "bump", "wake",         *)
(* "claim", "exec", "wait" (for pending = 0), "dead" (its task panicked).  *)
(* pc of a worker: "look" (at the epoch), "stopped?", "flag" (raise its    *)
(* sleeping flag), "recheck", "recheck_stop", "parked", "rise", "fetch"    *)
(* (the job), "claim", "exec", "finish", "exited", "dead".                 *)
(***************************************************************************)
EXTENDS Naturals, FiniteSets

CONSTANTS Callers,   (* threads that decode with the runner                *)
          Workers,   (* the team's workers: size - 1 of them               *)
          MaxTasks,  (* bound: tasks of a loop                             *)
          MaxLoops,  (* bound: loops published in a run                    *)
          Timeouts,  (* park_timeout's 100 ms may pass                     *)
          MaxPanics  (* bound: tasks that panic                            *)

ASSUME TeamAssumption ==
         /\ IsFiniteSet(Workers)
         /\ Workers # {}
         /\ Callers \cap Workers = {}
         /\ MaxTasks \in Nat
         /\ MaxLoops \in Nat
         /\ Timeouts \in BOOLEAN
         /\ MaxPanics \in Nat

VARIABLES pc,
          busy,      (* Team.busy: "free", "held" or "poisoned"            *)
          epoch,     (* Shared.epoch                                       *)
          job,       (* the loop on a caller's stack, by epoch; 0: none    *)
          tasks,     (* Job.tasks                                          *)
          next,      (* Shared.next                                        *)
          pending,   (* Shared.pending                                     *)
          stop,      (* Shared.stop                                        *)
          sleeping,  (* Shared.sleeping                                    *)
          token,     (* each worker's unpark token                         *)
          seen,      (* the epoch each worker saw last                     *)
          mine,      (* the job each worker fetched                        *)
          index,     (* the task each thread claimed                       *)
          ran,       (* how often each task of the loop ran                *)
          waking,    (* workers the publisher or drop has still to look at *)
          team       (* "alive", "unparking", "joining" or "dropped"       *)

loop == <<job, tasks, next, pending>>
sleep == <<sleeping, token>>
own == <<seen, mine, index>>
vars == <<pc, busy, epoch, loop, stop, sleep, own, ran, waking, team>>

Threads == Callers \cup Workers
Tasks == 0 .. MaxTasks - 1
NoneRan == [t \in Tasks |-> 0]

Init ==
  /\ pc = [p \in Threads |-> IF p \in Callers THEN "out" ELSE "look"]
  /\ busy = "free"
  /\ epoch = 0
  /\ job = 0
  /\ tasks = 0
  /\ next = 0
  /\ pending = 0
  /\ stop = FALSE
  /\ sleeping = [w \in Workers |-> FALSE]
  /\ token = [w \in Workers |-> FALSE]
  /\ seen = [w \in Workers |-> 0]
  /\ mine = [w \in Workers |-> 0]
  /\ index = [p \in Threads |-> 0]
  /\ ran = NoneRan
  /\ waking = {}
  /\ team = "alive"

Goto(p, place) == pc' = [pc EXCEPT ![p] = place]
------------------------------------------------------------------------------
\* Mutants of MayEnter: a second caller shares the team; a poisoned lock is
\* taken over.
MayEnterAlways == team = "alive"
MayEnterPoisoned == team = "alive" /\ busy # "held"

(* `busy.try_lock().ok()`: refused while held, and for good once a panic    *)
(* poisoned it; the refused caller keeps to Rayon.                          *)
MayEnter == team = "alive" /\ busy = "free"

(* Team::enter. *)
Enter(c) ==
  /\ pc[c] = "out"
  /\ MayEnter
  /\ busy' = "held"
  /\ Goto(c, "entered")
  /\ UNCHANGED <<epoch, loop, stop, sleep, own, ran, waking, team>>

(* The Entered guard drops. *)
Leave(c) ==
  /\ pc[c] = "entered"
  /\ busy' = "free"
  /\ Goto(c, "out")
  /\ UNCHANGED <<epoch, loop, stop, sleep, own, ran, waking, team>>

\* Mutant of Participants: one worker is not waited for.
ParticipantsButOne == Cardinality(Workers) - 1

(* `self.workers.len()`: who has to be through before `run` returns. *)
Participants == Cardinality(Workers)

(* Team::run stores the job and resets the two counters. *)
Publish(c) ==
  /\ pc[c] = "entered"
  /\ epoch < MaxLoops
  /\ tasks' \in 2 .. MaxTasks
  /\ job' = epoch + 1
  /\ next' = 0
  /\ pending' = Participants
  /\ ran' = NoneRan
  /\ Goto(c, "bump")
  /\ UNCHANGED <<busy, epoch, stop, sleep, own, waking, team>>

(* `epoch.fetch_add(1)`. *)
Bump(c) ==
  /\ pc[c] = "bump"
  /\ epoch' = epoch + 1
  /\ waking' = Workers
  /\ Goto(c, "wake")
  /\ UNCHANGED <<busy, loop, stop, sleep, own, ran, team>>

(* Unpark the next worker, if its sleeping flag is up. *)
Wake(c) ==
  /\ pc[c] = "wake"
  /\ \E w \in waking :
       /\ token' = [token EXCEPT ![w] = token[w] \/ sleeping[w]]
       /\ waking' = waking \ {w}
       /\ IF waking = {w} THEN Goto(c, "claim") ELSE UNCHANGED pc
  /\ UNCHANGED <<busy, epoch, loop, stop, sleeping, own, ran, team>>

(* The caller sees pending at zero. *)
Await(c) == pc[c] = "wait" /\ pending = 0

(* Team::run returns, and the job leaves the stack. *)
Return(c) ==
  /\ Await(c)
  /\ job' = 0
  /\ Goto(c, "entered")
  /\ UNCHANGED <<busy, epoch, tasks, next, pending, stop, sleep, own, ran, waking, team>>

(* `next.fetch_add(1)`. *)
ClaimNext == next' = next + 1

(* run_tasks claims a task, or finds none left. *)
Claim(p) ==
  /\ pc[p] = "claim"
  /\ ClaimNext
  /\ IF next < tasks
     THEN index' = [index EXCEPT ![p] = next] /\ Goto(p, "exec")
     ELSE /\ Goto(p, IF p \in Callers THEN "wait" ELSE "finish")
          /\ UNCHANGED index
  /\ UNCHANGED <<busy, epoch, job, tasks, pending, stop, sleep, seen, mine, ran,
                 waking, team>>

(* run_tasks runs the claimed task; loops inside it run serially. *)
Exec(p) ==
  /\ pc[p] = "exec"
  /\ ran' = [ran EXCEPT ![index[p]] = @ + 1]
  /\ Goto(p, "claim")
  /\ UNCHANGED <<busy, epoch, loop, stop, sleep, own, waking, team>>

MayPanic == Cardinality({p \in Threads : pc[p] = "dead"}) < MaxPanics

(* A task panics on the caller: it unwinds out of `run`, past the wait, and *)
(* the Entered guard poisons the team's lock.                               *)
CallerPanics(c) ==
  /\ MayPanic
  /\ pc[c] = "exec"
  /\ job' = 0
  /\ busy' = "poisoned"
  /\ Goto(c, "dead")
  /\ UNCHANGED <<epoch, tasks, next, pending, stop, sleep, own, ran, waking, team>>

Caller(c) ==
  \/ Enter(c)
  \/ Leave(c)
  \/ Publish(c)
  \/ Bump(c)
  \/ Wake(c)
  \/ Return(c)
  \/ Claim(c)
  \/ Exec(c)
  \/ CallerPanics(c)
------------------------------------------------------------------------------
(* The spinning worker loads the epoch. *)
Look(w) ==
  /\ pc[w] = "look"
  /\ IF epoch # seen[w]
     THEN seen' = [seen EXCEPT ![w] = epoch] /\ Goto(w, "fetch")
     ELSE UNCHANGED seen /\ Goto(w, "stopped?")
  /\ UNCHANGED <<busy, epoch, loop, stop, sleep, mine, index, ran, waking, team>>

(* It returns when stopped, goes on spinning or, idle for long, lies down. *)
LookAtStop(w) ==
  /\ pc[w] = "stopped?"
  /\ IF stop THEN Goto(w, "exited")
             ELSE \E place \in {"look", "flag"} : Goto(w, place)
  /\ UNCHANGED <<busy, epoch, loop, stop, sleep, own, ran, waking, team>>

Flag(w) ==
  /\ pc[w] = "flag"
  /\ sleeping' = [sleeping EXCEPT ![w] = TRUE]
  /\ Goto(w, "recheck")
  /\ UNCHANGED <<busy, epoch, loop, stop, token, own, ran, waking, team>>

\* Mutant of NoNewLoop: the epoch is not looked at again after the flag.
NoRecheck(w) == w \in Workers

(* `epoch.load() == seen`, after the flag is up. *)
NoNewLoop(w) == epoch = seen[w]

Recheck(w) ==
  /\ pc[w] = "recheck"
  /\ Goto(w, IF NoNewLoop(w) THEN "recheck_stop" ELSE "rise")
  /\ UNCHANGED <<busy, epoch, loop, stop, sleep, own, ran, waking, team>>

RecheckStop(w) ==
  /\ pc[w] = "recheck_stop"
  /\ Goto(w, IF stop THEN "rise" ELSE "parked")
  /\ UNCHANGED <<busy, epoch, loop, stop, sleep, own, ran, waking, team>>

(* park_timeout takes the token, at once if it is already there. *)
Unparked(w) ==
  /\ pc[w] = "parked"
  /\ token[w]
  /\ token' = [token EXCEPT ![w] = FALSE]
  /\ Goto(w, "rise")
  /\ UNCHANGED <<busy, epoch, loop, stop, sleeping, own, ran, waking, team>>

(* park_timeout's safety net, or a spurious return. *)
TimesOut(w) ==
  /\ Timeouts
  /\ pc[w] = "parked"
  /\ Goto(w, "rise")
  /\ UNCHANGED <<busy, epoch, loop, stop, sleep, own, ran, waking, team>>

Rise(w) ==
  /\ pc[w] = "rise"
  /\ sleeping' = [sleeping EXCEPT ![w] = FALSE]
  /\ Goto(w, "look")
  /\ UNCHANGED <<busy, epoch, loop, stop, token, own, ran, waking, team>>

(* The worker loads the job pointer of the epoch it saw. *)
Fetch(w) ==
  /\ pc[w] = "fetch"
  /\ mine' = [mine EXCEPT ![w] = job]
  /\ Goto(w, "claim")
  /\ UNCHANGED <<busy, epoch, loop, stop, sleep, seen, index, ran, waking, team>>

(* `pending.fetch_sub(1)`. *)
Finish(w) ==
  /\ pc[w] = "finish"
  /\ pending' = pending - 1
  /\ Goto(w, "look")
  /\ UNCHANGED <<busy, epoch, job, tasks, next, stop, sleep, own, ran, waking, team>>

(* A task panics on a worker: the thread ends without its decrement. *)
WorkerPanics(w) ==
  /\ MayPanic
  /\ pc[w] = "exec"
  /\ Goto(w, "dead")
  /\ UNCHANGED <<busy, epoch, loop, stop, sleep, own, ran, waking, team>>

Worker(w) ==
  \/ Look(w)
  \/ LookAtStop(w)
  \/ Flag(w)
  \/ Recheck(w)
  \/ RecheckStop(w)
  \/ Unparked(w)
  \/ Rise(w)
  \/ Fetch(w)
  \/ Claim(w)
  \/ Exec(w)
  \/ Finish(w)
  \/ WorkerPanics(w)
------------------------------------------------------------------------------
\* Mutant of ToUnpark: one thread is left out.
ToUnparkButOne == Workers \ {CHOOSE w \in Workers : TRUE}

(* Drop unparks every worker, asleep or not. *)
ToUnpark == Workers

(* Drop of the team, which no caller borrows any more. *)
StopTeam ==
  /\ team = "alive"
  /\ \A c \in Callers : pc[c] \in {"out", "dead"}
  /\ stop' = TRUE
  /\ waking' = ToUnpark
  /\ team' = "unparking"
  /\ UNCHANGED <<pc, busy, epoch, loop, sleep, own, ran>>

UnparkAll ==
  /\ team = "unparking"
  /\ \E w \in waking :
       /\ token' = [token EXCEPT ![w] = TRUE]
       /\ waking' = waking \ {w}
       /\ team' = IF waking = {w} THEN "joining" ELSE team
  /\ UNCHANGED <<pc, busy, epoch, loop, stop, sleeping, own, ran>>

JoinWorkers ==
  /\ team = "joining"
  /\ \A w \in Workers : pc[w] \in {"exited", "dead"}
  /\ team' = "dropped"
  /\ UNCHANGED <<pc, busy, epoch, loop, stop, sleep, own, ran, waking>>

Drop == StopTeam \/ UnparkAll \/ JoinWorkers

Dropped == team = "dropped" /\ UNCHANGED vars

(* A worker that died left its decrement out: the caller spins for ever.    *)
SpinsOn ==
  /\ \E c \in Callers : pc[c] = "wait" /\ pending # 0
  /\ \E w \in Workers : pc[w] = "dead"
  /\ UNCHANGED vars

Next ==
  \/ \E c \in Callers : Caller(c)
  \/ \E w \in Workers : Worker(w) \/ TimesOut(w)
  \/ Drop
  \/ Dropped
  \/ SpinsOn

Spec == Init /\ [][Next]_vars

(* Every thread that has started runs on: a caller inside the runner, a     *)
(* worker, and a drop that has begun; whether a caller enters or the runner *)
(* is dropped at all is open.  No park is sure to time out: the sleeping    *)
(* flags alone must do.                                                     *)
FairSpec ==
  /\ Spec
  /\ \A c \in Callers : WF_vars(Caller(c) /\ pc[c] # "out")
  /\ \A w \in Workers : WF_vars(Worker(w))
  /\ WF_vars(Drop /\ team # "alive")
------------------------------------------------------------------------------
CallerPlaces == {"out", "entered", "bump", "wake", "claim", "exec", "wait", "dead"}
WorkerPlaces == {"look", "stopped?", "flag", "recheck", "recheck_stop", "parked",
                 "rise", "fetch", "claim", "exec", "finish", "exited", "dead"}

TypeOK ==
  /\ pc \in [Threads -> CallerPlaces \cup WorkerPlaces]
  /\ \A c \in Callers : pc[c] \in CallerPlaces
  /\ \A w \in Workers : pc[w] \in WorkerPlaces
  /\ busy \in {"free", "held", "poisoned"}
  /\ epoch \in Nat
  /\ job \in Nat
  /\ tasks \in 0 .. MaxTasks
  /\ next \in Nat
  /\ pending \in Nat
  /\ stop \in BOOLEAN
  /\ sleeping \in [Workers -> BOOLEAN]
  /\ token \in [Workers -> BOOLEAN]
  /\ seen \in [Workers -> Nat]
  /\ mine \in [Workers -> Nat]
  /\ index \in [Threads -> Nat]
  /\ ran \in [Tasks -> Nat]
  /\ waking \in SUBSET Workers
  /\ team \in {"alive", "unparking", "joining", "dropped"}

InLoop == {"fetch", "claim", "exec"}

(* The SAFETY comments of `run` and `worker`: while a worker is about to    *)
(* read the job or runs its tasks, that very job is on its caller's stack.  *)
JobOutlivesWorkers ==
  \A w \in Workers : pc[w] \in InLoop =>
    /\ job # 0 /\ job = seen[w]
    /\ pc[w] # "fetch" => mine[w] = job

(* A task that panics on the caller unwinds `run` past its wait and breaks  *)
(* that promise; nothing else does, not a task that panics on a worker, nor *)
(* another caller, whom the poisoned lock keeps off the team.               *)
JobOutlivesWorkersUnlessUnwound == (\A c \in Callers : pc[c] # "dead") => JobOutlivesWorkers

(* When the caller may return from `run`, every task of the loop has run    *)
(* exactly once, also when tasks panicked on workers.                       *)
LoopIsComplete ==
  \A c \in Callers : Await(c) => \A t \in 0 .. tasks - 1 : ran[t] = 1

(* A caller that publishes a loop returns from it unless a task panics, and *)
(* a dropped team's workers exit, without the park timeout: no wake-up is   *)
(* ever lost.                                                               *)
Died == \E p \in Threads : pc[p] = "dead"
LoopsReturn == \A c \in Callers : pc[c] = "bump" ~> pc[c] = "entered" \/ Died
WorkersExit == stop ~> team = "dropped"
=============================================================================
