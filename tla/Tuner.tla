------------------------------- MODULE Tuner -------------------------------
(***************************************************************************)
(* The automatic decode thread count (tune.rs) and the calls that share it *)
(* (runner/mod.rs, DecodeTeam): every decode loop selects the team of the  *)
(* coming step under the tuner's lock, runs the step without it and then   *)
(* records the step under the lock again; a pipelined run limits the tuner *)
(* when it starts.  A candidate is an index from 1; 0 is no candidate.     *)
(* Step times are abstracted: any candidate may turn out the one to keep.  *)
(***************************************************************************)
EXTENDS Integers, Sequences, FiniteSets

CONSTANTS Decoders,   (* threads that may call the runner                   *)
          Machines,   (* what Tuner::new may be given: the candidate team   *)
                      (* sizes, ascending, the candidate decoding starts on *)
                      (* and a reserve below them all, 0 if there is none   *)
          Half,       (* half of the runner's threads: the limit            *)
          WARMUP, RUN, ROUNDS,
          MaxSteps    (* bound: steps the tuner counts before it chooses    *)

ASSUME TunerAssumption ==
         /\ IsFiniteSet(Decoders)
         /\ \A m \in Machines :
              /\ m.sizes \in Seq(Nat \ {0}) /\ m.sizes # <<>>
              /\ \A i, j \in DOMAIN m.sizes : i < j => m.sizes[i] < m.sizes[j]
              /\ m.start \in DOMAIN m.sizes
              /\ m.reserve \in 0 .. m.sizes[1] - 1
         /\ Half \in Nat \ {0}
         /\ {WARMUP, RUN, ROUNDS} \subseteq Nat \ {0}
         /\ MaxSteps \in Nat

VARIABLES sizes,     (* Tuner.sizes                                         *)
          max,       (* Tuner.max; 0 while there is no limit                *)
          reserve,   (* Tuner.reserve, 0 if there is none                   *)
          samples,   (* Tuner.samples: the team each sampled step ran on    *)
          start,
          steps,
          chosen,
          report,    (* TuneReport.chosen, 0 without a report               *)
          reported,
          callers,   (* the decoders that call the runner at all            *)
          pc,        (* each decoder: "idle", "select" or "step"            *)
          index,     (* DecodeTeam.index                                    *)
          size,      (* DecodeTeam.size                                     *)
          entered    (* DecodeTeam.entered: a team size, or Rayon's pool    *)

tuner == <<sizes, max, reserve, samples, start, steps, chosen, report, reported>>
decoders == <<pc, index, size, entered>>
vars == <<tuner, callers, decoders>>

Rayon == 0
Candidates == DOMAIN sizes

Init ==
  /\ \E m \in Machines : sizes = m.sizes /\ start = m.start /\ reserve = m.reserve
  /\ max = 0
  /\ samples = [i \in DOMAIN sizes |-> <<>>]
  /\ callers \in SUBSET Decoders \ {{}}
  /\ steps = 0
  /\ chosen = 0
  /\ report = 0
  /\ reported = FALSE
  /\ pc = [d \in Decoders |-> "idle"]
  /\ index = [d \in Decoders |-> 0]
  /\ size = [d \in Decoders |-> 0]
  /\ entered = [d \in Decoders |-> Rayon]
------------------------------------------------------------------------------
\* Mutant of Current: tuning stays with the candidate it starts on.
CurrentStays == IF chosen # 0 THEN chosen ELSE start

(* Tuner::current. *)
Current ==
  IF chosen # 0 THEN chosen
  ELSE IF steps < WARMUP THEN start
  ELSE 1 + (((steps - WARMUP) \div RUN) % Len(sizes))

(* Tuner::allowed: the largest candidate within the limit, else the first;  *)
(* the sizes ascend.                                                        *)
Allowed(among, limit) ==
  LET within == Cardinality({i \in DOMAIN among : among[i] <= limit}) IN
  IF within = 0 THEN 1 ELSE within

(* `self.samples.iter().all(|s| s.len() >= RUN * ROUNDS)`. *)
Measured(counts) == \A i \in DOMAIN counts : Len(counts[i]) >= RUN * ROUNDS

(* `self.pick().min(self.allowed())`. *)
Best(pick, among, limit) ==
  IF limit = 0 \/ pick <= Allowed(among, limit) THEN pick ELSE Allowed(among, limit)

(* Tuner::choose: the pick rests on measured times, so it may be any one. *)
Choose(among, limit) ==
  \E pick \in DOMAIN among :
    /\ chosen' = Best(pick, among, limit)
    /\ report' = among[chosen']

(* Every candidate exceeds the limit and the reserve is within it. *)
ReserveJoins == reserve # 0 /\ sizes[1] > Half /\ reserve <= Half

\* Mutant of SamplesWithReserve: the new list goes last.
SamplesReserveLast == Append(samples, <<>>)

(* `self.samples.insert(0, Vec::new())`. *)
SamplesWithReserve == <<<<>>>> \o samples

\* Mutant of DropChoice: the choice only moves up with its candidate.
ShiftChoice ==
  /\ chosen' = IF chosen = 0 THEN 0 ELSE chosen + 1
  /\ UNCHANGED <<report, reported>>

(* The choice made without the reserve, and its report, are dropped. *)
DropChoice == chosen' = 0 /\ report' = 0 /\ reported' = FALSE

(* Tuner::limit, when the reserve becomes the smallest candidate: tuning    *)
(* goes on until it is measured too.                                        *)
LimitWithReserve ==
  /\ ReserveJoins
  /\ sizes' = <<reserve>> \o sizes
  /\ samples' = SamplesWithReserve
  /\ start' = start + 1
  /\ reserve' = 0
  /\ DropChoice

(* Tuner::limit among the candidates there are: a choice above the limit is *)
(* made again within it, and its report is handed out again.                *)
LimitChoice ==
  /\ ~ReserveJoins
  /\ IF chosen > Allowed(sizes, Half)
     THEN Choose(sizes, Half) /\ reported' = FALSE
     ELSE UNCHANGED <<chosen, report, reported>>
  /\ UNCHANGED <<sizes, samples, start, reserve>>

(* Tuner::limit(half), called when a pipelined run starts; the first call   *)
(* does it, as half never changes.                                          *)
Limit ==
  IF max # 0
  THEN UNCHANGED tuner
  ELSE /\ max' = Half
       /\ LimitWithReserve \/ LimitChoice
       /\ UNCHANGED steps
------------------------------------------------------------------------------
(* A run starts and reaches its first page's decode; a pipelined run limits *)
(* the tuner first.                                                         *)
Begin(d) ==
  /\ pc[d] = "idle"
  /\ Limit \/ UNCHANGED tuner
  /\ pc' = [pc EXCEPT ![d] = "select"]
  /\ UNCHANGED <<index, size, entered>>

Free(team, d) == \A other \in Decoders \ {d} : entered[other] # team

(* DecodeTeam::select: enter the team of the current candidate, or keep to  *)
(* Rayon while another thread holds it.                                     *)
Select(d) ==
  /\ pc[d] = "select"
  /\ index' = [index EXCEPT ![d] = Current]
  /\ size' = [size EXCEPT ![d] = sizes[Current]]
  /\ entered' = IF sizes[Current] = size[d] THEN entered
                ELSE [entered EXCEPT ![d] = IF Free(sizes[Current], d)
                                            THEN sizes[Current] ELSE Rayon]
  /\ pc' = [pc EXCEPT ![d] = "step"]
  /\ UNCHANGED tuner

(* A step counts as a sample once warm, if its candidate is still current. *)
Sampled(d) == steps >= WARMUP /\ index[d] = Current

(* Tuner::record of the step decoder d ran on its selected team. *)
Record(d) ==
  /\ pc[d] = "step"
  /\ steps < MaxSteps
  /\ IF chosen # 0
     THEN UNCHANGED tuner
     ELSE /\ samples' = IF Sampled(d)
                        THEN [samples EXCEPT ![index[d]] = Append(@, entered[d])]
                        ELSE samples
          /\ steps' = steps + 1
          /\ IF Measured(samples') THEN Choose(sizes, max) ELSE UNCHANGED <<chosen, report>>
          /\ UNCHANGED <<sizes, max, reserve, start, reported>>
  /\ pc' = [pc EXCEPT ![d] = "select"]
  /\ UNCHANGED <<index, size, entered>>

(* A draft-verification step: record_verify leaves the choice alone. *)
RecordVerify(d) ==
  /\ pc[d] = "step"
  /\ pc' = [pc EXCEPT ![d] = "select"]
  /\ UNCHANGED <<tuner, index, size, entered>>

(* The page is finished; its result takes the report if there is a new one. *)
EndPage(d) ==
  /\ pc[d] = "select"
  /\ size[d] # 0
  /\ reported' = (reported \/ report # 0)
  /\ pc' = [pc EXCEPT ![d] = "idle"]
  /\ size' = [size EXCEPT ![d] = 0]
  /\ entered' = [entered EXCEPT ![d] = Rayon]
  /\ UNCHANGED <<sizes, max, reserve, samples, start, steps, chosen, report, index>>

Decoder(d) == Begin(d) \/ Select(d) \/ Record(d) \/ RecordVerify(d) \/ EndPage(d)

Next == (\E d \in callers : Decoder(d)) /\ UNCHANGED callers

Spec == Init /\ [][Next]_vars

(* A caller goes on decoding, and not every step verifies a draft. *)
FairSpec ==
  Spec /\ \A d \in Decoders :
            /\ WF_vars(d \in callers /\ Decoder(d) /\ UNCHANGED callers)
            /\ SF_vars(d \in callers /\ Record(d) /\ UNCHANGED callers)
------------------------------------------------------------------------------
(* Whenever the limit came, before, during or after tuning: a choice in     *)
(* force is within it as soon as any candidate is, was made only after      *)
(* every candidate was measured, a late reserve included, and is what the   *)
(* report says, although both are dropped and made again while pages carry  *)
(* them.                                                                    *)
ChoiceInForce ==
  /\ chosen = 0 <=> report = 0
  /\ chosen # 0 =>
       /\ Measured(samples)
       /\ report = sizes[chosen]
       /\ max # 0 /\ (\E i \in Candidates : sizes[i] <= max) => sizes[chosen] <= max

(* "Record the duration of a step that ran on `sizes[index]`": a sample     *)
(* belongs to the candidate whose team ran the step.                        *)
SamplesRanOnTheirSize ==
  \A i \in Candidates : \A n \in DOMAIN samples[i] : samples[i][n] = sizes[i]

(* ... as long as one thread calls the runner at a time, also when the      *)
(* reserve moves every candidate up between two of its pages.               *)
AloneSamplesRanOnTheirSize == Cardinality(callers) = 1 => SamplesRanOnTheirSize

(* A runner that keeps decoding single steps on one thread always settles   *)
(* on a size, also after a limit took the first choice back.                *)
Settles == Cardinality(callers) = 1 => []<>(chosen # 0)
=============================================================================
