----------------------------- MODULE TunerProofs -----------------------------
(***************************************************************************)
(* Proofs about Tuner, for any candidates, limit, warm-up, rounds and      *)
(* number of threads that call the runner.                                 *)
(***************************************************************************)
EXTENDS Tuner, FiniteSetTheorems, SequenceTheorems, WellFoundedInduction, TLAPS

Types ==
  /\ sizes \in Seq(Nat \ {0}) /\ Len(sizes) > 0
  /\ \A i, j \in DOMAIN sizes : i < j => sizes[i] < sizes[j]
  /\ start \in DOMAIN sizes
  /\ reserve \in Nat /\ reserve < sizes[1]
  /\ max \in {0, Half}
  /\ samples \in Seq(Seq(Nat)) /\ Len(samples) = Len(sizes)
  /\ steps \in Nat
  /\ chosen \in 0 .. Len(sizes)
  /\ callers \subseteq Decoders
  /\ pc \in [Decoders -> {"idle", "select", "step"}]
  /\ index \in [Decoders -> Nat]
  /\ size \in [Decoders -> Nat]
  /\ entered \in [Decoders -> Nat]

(* A choice follows every measurement and stays below the limit. *)
ChoiceInv ==
  /\ chosen = 0 => report = 0
  /\ chosen # 0 => /\ Measured(samples)
                   /\ report = sizes[chosen]
                   /\ max # 0 => chosen <= Allowed(sizes, max)

(* A lone caller finds every team free: it runs each step on the team of    *)
(* the candidate it selected.                                               *)
AloneInv ==
  Cardinality(callers) = 1 =>
    /\ SamplesRanOnTheirSize
    /\ \A d \in Decoders :
         /\ entered[d] = size[d]
         /\ d \notin callers => pc[d] = "idle" /\ size[d] = 0
         /\ pc[d] = "step" => index[d] \in Candidates /\ size[d] = sizes[index[d]]

TunerInv == Types /\ ChoiceInv /\ AloneInv

(* A remainder picks one of the candidates. *)
LEMMA Mod ==
  ASSUME NEW a \in Nat, NEW b \in Nat \ {0}, NEW n \in Nat \ {0}
  PROVE  1 + ((a \div b) % n) \in 1 .. n
<1>1. a \div b \in Nat
  OBVIOUS
<1>2. \A x \in Nat : x % n \in 0 .. n - 1
  OBVIOUS
<1> QED
  BY <1>1, <1>2

(* Tuner::current is a candidate. *)
LEMMA CurrentIs == ASSUME Types PROVE Current \in DOMAIN sizes
<1>1. /\ Len(sizes) \in Nat \ {0} /\ DOMAIN sizes = 1 .. Len(sizes)
      /\ chosen \in 0 .. Len(sizes) /\ start \in DOMAIN sizes /\ steps \in Nat
  BY LenProperties DEF Types
<1>2. WARMUP \in Nat /\ RUN \in Nat \ {0}
  BY TunerAssumption
<1>3. CASE chosen = 0 /\ ~(steps < WARMUP)
  <2>1. steps - WARMUP \in Nat
    BY <1>1, <1>2, <1>3
  <2> QED
    BY <1>1, <1>2, <1>3, <2>1, Mod DEF Current
<1>4. CASE chosen # 0 \/ steps < WARMUP
  BY <1>1, <1>4 DEF Current
<1> QED
  BY <1>3, <1>4
------------------------------------------------------------------------------
(* Every non-empty set of naturals has a least element. *)
LEMMA Least ==
  ASSUME NEW S \in SUBSET Nat, S # {}
  PROVE  \E m \in S : \A k \in S : m <= k
<1> DEFINE Below == {ss \in Nat \X Nat : ss[1] < ss[2]}
<1>1. IsWellFoundedOn(Below, Nat)
  BY NatLessThanWellFounded DEF OpToRel
<1>2. PICK m \in S : \A k \in S : <<k, m>> \notin Below
  BY <1>1, WFMin
<1>3. ASSUME NEW k \in S PROVE m <= k
  <2>1. ~(k < m)
    BY <1>2
  <2> QED
    BY <2>1
<1> QED
  BY <1>3

Sizes == {s \in Seq(Nat \ {0}) : Len(s) > 0 /\ \A i, j \in DOMAIN s : i < j => s[i] < s[j]}

(* Tuner::allowed: the candidates within the limit are the first ones. *)
LEMMA AllowedIs ==
  ASSUME NEW s \in Sizes, NEW limit \in Nat
  PROVE  /\ Allowed(s, limit) \in 1 .. Len(s)
         /\ (\E i \in DOMAIN s : s[i] <= limit) => s[Allowed(s, limit)] <= limit
<1> DEFINE n == Len(s)
           within == {i \in DOMAIN s : s[i] <= limit}
           past == {i \in 1 .. n + 1 : i \notin within}
<1>1. /\ n \in Nat /\ n > 0 /\ DOMAIN s = 1 .. n
      /\ \A i \in 1 .. n : s[i] \in Nat
      /\ \A i, j \in 1 .. n : i < j => s[i] < s[j]
  BY LenProperties DEF Sizes
<1> HIDE DEF n
<1>2. past \in SUBSET Nat /\ n + 1 \in past
  BY <1>1
<1>3. PICK m \in past : \A k \in past : m <= k
  BY <1>2, Least
<1>4. within = 1 .. m - 1
  <2>1. m \in 1 .. n + 1 /\ m \notin within
    BY <1>3
  <2>2. ASSUME NEW i \in 1 .. m - 1 PROVE i \in within
    <3>1. i \in 1 .. n + 1 /\ ~(m <= i)
      BY <1>1, <2>1, <2>2
    <3> QED
      BY <1>3, <3>1
  <2>3. ASSUME NEW i \in within PROVE i \in 1 .. m - 1
    <3>1. i \in 1 .. n /\ s[i] <= limit
      BY <1>1
    <3>2. ~(i > m)
      <4> SUFFICES ASSUME i > m PROVE FALSE
        OBVIOUS
      <4>1. m \in 1 .. n /\ s[m] < s[i]
        BY <1>1, <2>1, <3>1
      <4>2. s[m] <= limit
        BY <1>1, <3>1, <4>1
      <4> QED
        BY <1>1, <2>1, <4>1, <4>2
    <3>3. i # m
      BY <2>1
    <3> QED
      BY <1>1, <2>1, <3>1, <3>2, <3>3
  <2> QED
    BY <2>2, <2>3
<1>5. m - 1 \in 0 .. n /\ m \in Nat
  BY <1>1, <1>3
<1>6. Cardinality(1 .. m - 1) = m - 1
  <2>1. m - 1 \in Int /\ 1 \in Int
    BY <1>5
  <2>2. Cardinality(1 .. m - 1) = IF 1 > m - 1 THEN 0 ELSE m - 1 - 1 + 1
    BY <2>1, FS_Interval
  <2> QED
    BY <1>5, <2>2
<1>7. Allowed(s, limit) = IF m - 1 = 0 THEN 1 ELSE m - 1
  BY <1>4, <1>6, Zenon DEF Allowed
<1> HIDE DEF within
<1>8. Allowed(s, limit) \in 1 .. n
  BY <1>1, <1>5, <1>7
<1>9. ASSUME NEW i \in DOMAIN s, s[i] <= limit PROVE s[Allowed(s, limit)] <= limit
  <2>1. i \in 1 .. m - 1
    BY <1>4, <1>9 DEF within
  <2>2. Allowed(s, limit) \in within
    BY <1>4, <1>5, <1>7, <2>1
  <2> QED
    BY <2>2 DEF within
<1> QED
  BY <1>8, <1>9 DEF n

(* Sizes are what the machine or the reserve made of them. *)
LEMMA SizesAre == ASSUME Types PROVE sizes \in Sizes
BY DEF Types, Sizes

(* Tuner::choose takes a candidate, the allowed one at most. *)
LEMMA ChooseIs ==
  ASSUME NEW s \in Sizes, NEW limit \in Nat, Choose(s, limit)
  PROVE  /\ chosen' \in 1 .. Len(s) /\ report' = s[chosen']
         /\ limit # 0 => chosen' <= Allowed(s, limit)
<1>1. PICK pick \in DOMAIN s : chosen' = Best(pick, s, limit) /\ report' = s[chosen']
  BY DEF Choose
<1>2. Allowed(s, limit) \in 1 .. Len(s) /\ DOMAIN s = 1 .. Len(s) /\ Len(s) \in Nat
  BY AllowedIs, LenProperties DEF Sizes
<1> QED
  BY <1>1, <1>2 DEF Best
------------------------------------------------------------------------------
(* The reserve becomes the smallest candidate: everything moves up by one.  *)
LEMMA ReserveFirst ==
  ASSUME Types, LimitWithReserve
  PROVE  /\ sizes' \in Seq(Nat \ {0}) /\ Len(sizes') = Len(sizes) + 1
         /\ sizes'[1] = reserve /\ reserve \in Nat \ {0}
         /\ \A i \in 1 .. Len(sizes) : sizes'[i + 1] = sizes[i]
         /\ samples' \in Seq(Seq(Nat)) /\ Len(samples') = Len(sizes')
         /\ samples'[1] = <<>>
         /\ \A i \in 1 .. Len(sizes) : samples'[i + 1] = samples[i]
<1>1. /\ reserve \in Nat \ {0} /\ sizes \in Seq(Nat \ {0}) /\ Len(sizes) \in Nat
      /\ samples \in Seq(Seq(Nat)) /\ Len(samples) = Len(sizes)
      /\ sizes' = <<reserve>> \o sizes /\ samples' = <<<<>>>> \o samples
  BY LenProperties DEF Types, LimitWithReserve, ReserveJoins, SamplesWithReserve
<1> DEFINE r == <<reserve>>
           e == <<<<>>>>
<1>2. r \in Seq(Nat \ {0}) /\ Len(r) = 1 /\ r[1] = reserve
  BY <1>1
<1>3. e \in Seq(Seq(Nat)) /\ Len(e) = 1 /\ e[1] = <<>>
  BY EmptySeq
<1> HIDE DEF r, e
<1>4. /\ r \o sizes \in Seq(Nat \ {0}) /\ Len(r \o sizes) = Len(r) + Len(sizes)
      /\ \A i \in 1 .. Len(r) + Len(sizes) :
           (r \o sizes)[i] = IF i <= Len(r) THEN r[i] ELSE sizes[i - Len(r)]
  BY <1>1, <1>2, ConcatProperties
<1>5. /\ e \o samples \in Seq(Seq(Nat)) /\ Len(e \o samples) = Len(e) + Len(samples)
      /\ \A i \in 1 .. Len(e) + Len(samples) :
           (e \o samples)[i] = IF i <= Len(e) THEN e[i] ELSE samples[i - Len(e)]
  BY <1>1, <1>3, ConcatProperties
<1>6. sizes' = r \o sizes /\ samples' = e \o samples
  BY <1>1 DEF r, e
<1>7. /\ 1 \in 1 .. 1 + Len(sizes)
      /\ \A i \in 1 .. Len(sizes) : i + 1 \in 1 .. 1 + Len(sizes) /\ ~(i + 1 <= 1) /\ (i + 1) - 1 = i
  BY <1>1
<1>8. /\ Len(sizes') = Len(sizes) + 1 /\ sizes'[1] = reserve
      /\ \A i \in 1 .. Len(sizes) : sizes'[i + 1] = sizes[i]
  BY <1>1, <1>2, <1>4, <1>6, <1>7
<1>9. /\ Len(samples') = Len(sizes) + 1 /\ samples'[1] = <<>>
      /\ \A i \in 1 .. Len(sizes) : samples'[i + 1] = samples[i]
  BY <1>1, <1>3, <1>5, <1>6, <1>7
<1> QED
  BY <1>1, <1>4, <1>5, <1>6, <1>8, <1>9

(* What a pipelined run's limit makes of the tuner.                         *)
LEMMA LimitWithReserveInv ==
  ASSUME Types, LimitWithReserve, max' = Half, UNCHANGED <<steps, callers>>
  PROVE  /\ sizes' \in Seq(Nat \ {0}) /\ Len(sizes') > 0
         /\ \A i, j \in DOMAIN sizes' : i < j => sizes'[i] < sizes'[j]
         /\ start' \in DOMAIN sizes'
         /\ reserve' \in Nat /\ reserve' < sizes'[1]
         /\ samples' \in Seq(Seq(Nat)) /\ Len(samples') = Len(sizes')
         /\ chosen' \in 0 .. Len(sizes')
         /\ ChoiceInv'
         /\ SamplesRanOnTheirSize => SamplesRanOnTheirSize'
<1>1. /\ sizes' \in Seq(Nat \ {0}) /\ Len(sizes') = Len(sizes) + 1
      /\ sizes'[1] = reserve /\ reserve \in Nat \ {0}
      /\ \A i \in 1 .. Len(sizes) : sizes'[i + 1] = sizes[i]
      /\ samples' \in Seq(Seq(Nat)) /\ Len(samples') = Len(sizes')
      /\ samples'[1] = <<>>
      /\ \A i \in 1 .. Len(sizes) : samples'[i + 1] = samples[i]
  BY ReserveFirst
<1>2. /\ Len(sizes) \in Nat /\ Len(sizes) > 0 /\ DOMAIN sizes = 1 .. Len(sizes)
      /\ \A i \in 1 .. Len(sizes) : sizes[i] \in Nat
      /\ \A i, j \in 1 .. Len(sizes) : i < j => sizes[i] < sizes[j]
      /\ reserve < sizes[1] /\ start \in 1 .. Len(sizes)
  <2>1. sizes \in Seq(Nat \ {0})
    BY DEF Types
  <2>2. DOMAIN sizes = 1 .. Len(sizes) /\ Len(sizes) \in Nat
    BY <2>1, LenProperties
  <2>3. \A i \in 1 .. Len(sizes) : sizes[i] \in Nat
    BY <2>1, ElementOfSeq
  <2> QED
    BY <2>2, <2>3 DEF Types
<1>3. DOMAIN sizes' = 1 .. Len(sizes) + 1
  BY <1>1
<1>4. /\ start' = start + 1 /\ reserve' = 0 /\ chosen' = 0 /\ report' = 0
  BY DEF LimitWithReserve, DropChoice
<1>5. \A i \in 2 .. Len(sizes) + 1 : i - 1 \in 1 .. Len(sizes) /\ (i - 1) + 1 = i
  BY <1>2
<1>6. \A i \in 2 .. Len(sizes) + 1 : sizes'[i] = sizes[i - 1] /\ samples'[i] = samples[i - 1]
  BY <1>1, <1>5
<1>7. ASSUME NEW i \in DOMAIN sizes', NEW j \in DOMAIN sizes', i < j
      PROVE  sizes'[i] < sizes'[j]
  <2>1. j \in 2 .. Len(sizes) + 1 /\ j - 1 \in 1 .. Len(sizes) /\ sizes'[j] = sizes[j - 1]
    BY <1>2, <1>3, <1>6, <1>7
  <2>2. CASE i = 1
    <3>1. sizes[1] \in Nat /\ sizes[j - 1] \in Nat /\ 1 \in 1 .. Len(sizes)
      BY <1>2, <2>1
    <3>2. sizes[1] <= sizes[j - 1]
      <4>1. CASE j - 1 = 1
        BY <3>1, <4>1
      <4>2. CASE 1 < j - 1
        <5>1. sizes[1] < sizes[j - 1]
          BY <1>2, <2>1, <3>1, <4>2
        <5> QED
          BY <3>1, <5>1
      <4> QED
        BY <1>2, <2>1, <4>1, <4>2
    <3>3. sizes'[i] = reserve /\ reserve \in Nat
      BY <1>1, <2>2
    <3>4. reserve < sizes[1]
      BY <1>2
    <3>5. \A a, b, c \in Nat : a < b /\ b <= c => a < c
      OBVIOUS
    <3>6. reserve < sizes[j - 1]
      BY <3>1, <3>2, <3>3, <3>4, <3>5
    <3> QED
      BY <2>1, <3>3, <3>6
  <2>3. CASE i # 1
    <3>1. i \in 2 .. Len(sizes) + 1 /\ i - 1 \in 1 .. Len(sizes) /\ sizes'[i] = sizes[i - 1]
      BY <1>2, <1>3, <1>6, <2>3
    <3>2. i - 1 < j - 1
      BY <1>3, <1>7
    <3> QED
      BY <1>2, <2>1, <3>1, <3>2
  <2> QED
    BY <2>2, <2>3
<1>8. ASSUME SamplesRanOnTheirSize, NEW i \in DOMAIN sizes', NEW n \in DOMAIN samples'[i]
      PROVE  samples'[i][n] = sizes'[i]
  <2>1. i # 1
    BY <1>1
  <2>2. i - 1 \in DOMAIN sizes /\ sizes'[i] = sizes[i - 1] /\ samples'[i] = samples[i - 1]
    BY <1>2, <1>3, <1>5, <1>6, <2>1
  <2> QED
    BY <1>8, <2>2 DEF SamplesRanOnTheirSize, Candidates
<1> QED
  BY <1>1, <1>2, <1>3, <1>4, <1>7, <1>8 DEF ChoiceInv, SamplesRanOnTheirSize, Candidates

(* The choice that a limit makes is within it, if any candidate is. *)
LEMMA LimitChoiceInv ==
  ASSUME Types, ChoiceInv, max = 0, LimitChoice, max' = Half
  PROVE  chosen' \in 0 .. Len(sizes) /\ ChoiceInv'
<1>1. /\ Half \in Nat \ {0} /\ sizes \in Sizes /\ chosen \in 0 .. Len(sizes)
      /\ UNCHANGED <<sizes, samples>>
  BY TunerAssumption, SizesAre DEF LimitChoice, Types
<1>2. Allowed(sizes, Half) \in 1 .. Len(sizes)
  BY <1>1, AllowedIs
<1>3. Measured(samples)' <=> Measured(samples)
  BY <1>1 DEF Measured
<1>4. CASE chosen > Allowed(sizes, Half)
  <2>1. /\ chosen' \in 1 .. Len(sizes) /\ report' = sizes[chosen']
        /\ chosen' <= Allowed(sizes, Half)
    BY <1>1, <1>4, ChooseIs DEF LimitChoice
  <2>2. chosen # 0 /\ chosen' # 0 /\ chosen' \in 0 .. Len(sizes)
    BY <1>1, <1>2, <1>4, <2>1
  <2> QED
    BY <1>1, <1>3, <2>1, <2>2 DEF ChoiceInv
<1>5. CASE ~(chosen > Allowed(sizes, Half))
  <2>1. chosen' = chosen /\ report' = report
    BY <1>5 DEF LimitChoice
  <2>2. chosen <= Allowed(sizes, Half)
    BY <1>1, <1>2, <1>5
  <2> QED
    BY <1>1, <1>3, <2>1, <2>2 DEF ChoiceInv
<1> QED
  BY <1>4, <1>5

(* What a step may make of the tuner, and the invariant keeps. *)
TunerPart ==
  /\ sizes \in Seq(Nat \ {0}) /\ Len(sizes) > 0
  /\ \A i, j \in DOMAIN sizes : i < j => sizes[i] < sizes[j]
  /\ start \in DOMAIN sizes
  /\ reserve \in Nat /\ reserve < sizes[1]
  /\ max \in {0, Half}
  /\ samples \in Seq(Seq(Nat)) /\ Len(samples) = Len(sizes)
  /\ steps \in Nat
  /\ chosen \in 0 .. Len(sizes)
  /\ ChoiceInv

(* What the callers rely on follows from the tuner's invariant. *)
LEMMA TunerPartIs == ASSUME Types, ChoiceInv PROVE TunerPart
BY DEF Types, TunerPart

(* Steps that leave the tuner alone keep its part. *)
LEMMA TunerStays ==
  ASSUME TunerPart, UNCHANGED <<sizes, max, reserve, samples, start, steps, chosen, report>>
  PROVE  TunerPart' /\ (SamplesRanOnTheirSize => SamplesRanOnTheirSize')
BY DEF TunerPart, ChoiceInv, Measured, SamplesRanOnTheirSize, Candidates

(* A limit moves every sample along with its size. *)
LEMMA LimitKeeps ==
  ASSUME Types, ChoiceInv, Limit, UNCHANGED callers
  PROVE  TunerPart' /\ (SamplesRanOnTheirSize => SamplesRanOnTheirSize')
<1>1. TunerPart /\ max \in {0, Half}
  BY TunerPartIs DEF Types
<1>2. CASE max # 0
  BY <1>1, <1>2, TunerStays DEF Limit, tuner
<1>3. CASE max = 0
  <2>1. max' = Half /\ UNCHANGED steps /\ steps \in Nat
    BY <1>3 DEF Limit, Types
  <2>2. CASE LimitWithReserve
    BY <2>1, <2>2, LimitWithReserveInv DEF TunerPart
  <2>3. CASE LimitChoice
    <3>1. chosen' \in 0 .. Len(sizes) /\ ChoiceInv'
      BY <1>3, <2>1, <2>3, LimitChoiceInv
    <3>2. UNCHANGED <<sizes, samples, start, reserve>>
      BY <2>3 DEF LimitChoice
    <3>3. SamplesRanOnTheirSize => SamplesRanOnTheirSize'
      BY <3>2 DEF SamplesRanOnTheirSize, Candidates
    <3> QED
      BY <1>1, <2>1, <3>1, <3>2, <3>3 DEF TunerPart
  <2> QED
    BY <1>3, <2>2, <2>3 DEF Limit
<1> QED
  BY <1>2, <1>3
------------------------------------------------------------------------------
AddsSample(i, team) == samples' = [samples EXCEPT ![i] = Append(samples[i], team)]

(* Record adds one sample at the candidate the step ran for. *)
LEMMA SampleAdded ==
  ASSUME Types, NEW i \in DOMAIN sizes, NEW team \in Nat, AddsSample(i, team)
  PROVE  /\ samples' \in Seq(Seq(Nat)) /\ Len(samples') = Len(samples)
         /\ \A j \in DOMAIN sizes : \A n \in DOMAIN samples'[j] :
              \/ n \in DOMAIN samples[j] /\ samples'[j][n] = samples[j][n]
              \/ j = i /\ samples'[j][n] = team
<1>1. /\ samples \in Seq(Seq(Nat)) /\ DOMAIN samples = DOMAIN sizes
      /\ DOMAIN samples = 1 .. Len(samples)
  BY LenProperties DEF Types
<1>2. samples[i] \in Seq(Nat)
  BY <1>1, ElementOfSeq
<1>3. /\ Append(samples[i], team) \in Seq(Nat)
      /\ Len(Append(samples[i], team)) = Len(samples[i]) + 1
      /\ \A n \in 1 .. Len(samples[i]) : Append(samples[i], team)[n] = samples[i][n]
      /\ Append(samples[i], team)[Len(samples[i]) + 1] = team
  BY <1>2, AppendProperties
<1>4. /\ Append(samples[i], team) \in Seq(Nat) /\ i \in 1 .. Len(samples)
  BY <1>1, <1>3
<1>5. /\ [samples EXCEPT ![i] = Append(samples[i], team)] \in Seq(Seq(Nat))
      /\ Len([samples EXCEPT ![i] = Append(samples[i], team)]) = Len(samples)
  BY <1>1, <1>4, ExceptSeq
<1>6. samples' = [samples EXCEPT ![i] = Append(samples[i], team)]
  BY DEF AddsSample
<1>7. ASSUME NEW j \in DOMAIN sizes, NEW n \in DOMAIN samples'[j]
      PROVE  \/ n \in DOMAIN samples[j] /\ samples'[j][n] = samples[j][n]
             \/ j = i /\ samples'[j][n] = team
  <2>1. CASE j # i
    BY <1>1, <1>6, <2>1
  <2>2. CASE j = i
    <3>1. samples'[j] = Append(samples[i], team)
      BY <1>1, <1>6, <2>2
    <3>2. /\ DOMAIN Append(samples[i], team) = 1 .. Len(samples[i]) + 1
          /\ DOMAIN samples[i] = 1 .. Len(samples[i]) /\ Len(samples[i]) \in Nat
      BY <1>2, <1>3, LenProperties
    <3>3. n \in 1 .. Len(samples[i]) \/ n = Len(samples[i]) + 1
      BY <3>1, <3>2
    <3> QED
      BY <1>3, <2>2, <3>1, <3>2, <3>3
  <2> QED
    BY <2>1, <2>2
<1> QED
  BY <1>5, <1>6, <1>7

(* A recorded sample is of the size that ran the step, if its caller entered it. *)
LEMMA RecordKeeps ==
  ASSUME Types, ChoiceInv, NEW d \in Decoders, Record(d), UNCHANGED callers
  PROVE  /\ TunerPart'
         /\ UNCHANGED sizes
         /\ SamplesRanOnTheirSize /\ (index[d] \in Candidates => entered[d] = sizes[index[d]])
              => SamplesRanOnTheirSize'
<1>1. TunerPart /\ sizes \in Sizes
  BY TunerPartIs, SizesAre
<1>2. CASE chosen # 0
  <2>1. UNCHANGED tuner
    BY <1>2 DEF Record
  <2> QED
    BY <1>1, <2>1, TunerStays DEF tuner
<1>3. CASE chosen = 0
  <2>1. /\ samples' = IF Sampled(d) THEN [samples EXCEPT ![index[d]] = Append(@, entered[d])]
                       ELSE samples
        /\ steps' = steps + 1
        /\ IF Measured(samples') THEN Choose(sizes, max) ELSE UNCHANGED <<chosen, report>>
        /\ UNCHANGED <<sizes, max, reserve, start, reported>>
    BY <1>3 DEF Record
  <2>2. /\ samples' \in Seq(Seq(Nat)) /\ Len(samples') = Len(samples)
        /\ SamplesRanOnTheirSize /\ (index[d] \in Candidates => entered[d] = sizes[index[d]])
              => SamplesRanOnTheirSize'
    <3>1. CASE Sampled(d)
      <4>1. index[d] \in DOMAIN sizes /\ entered[d] \in Nat
        BY <3>1, CurrentIs DEF Sampled, Types
      <4>2. samples' = [samples EXCEPT ![index[d]] = Append(@, entered[d])]
        BY <2>1, <3>1
      <4>3. /\ samples' \in Seq(Seq(Nat)) /\ Len(samples') = Len(samples)
            /\ \A j \in DOMAIN sizes : \A n \in DOMAIN samples'[j] :
                 \/ n \in DOMAIN samples[j] /\ samples'[j][n] = samples[j][n]
                 \/ j = index[d] /\ samples'[j][n] = entered[d]
        <5>1. AddsSample(index[d], entered[d])
          BY <4>2 DEF AddsSample
        <5> QED
          BY <4>1, <5>1, SampleAdded
      <4>4. ASSUME SamplesRanOnTheirSize, entered[d] = sizes[index[d]],
                   NEW j \in DOMAIN sizes, NEW n \in DOMAIN samples'[j]
            PROVE  samples'[j][n] = sizes[j]
        BY <4>3, <4>4 DEF SamplesRanOnTheirSize, Candidates
      <4>5. index[d] \in Candidates /\ Candidates' = DOMAIN sizes /\ sizes' = sizes
        BY <2>1, <4>1 DEF Candidates
      <4>6. SamplesRanOnTheirSize /\ entered[d] = sizes[index[d]] => SamplesRanOnTheirSize'
        BY <4>4, <4>5 DEF SamplesRanOnTheirSize
      <4> QED
        BY <4>3, <4>5, <4>6
    <3>2. CASE ~Sampled(d)
      BY <2>1, <3>2 DEF SamplesRanOnTheirSize, Candidates, Types
    <3> QED
      BY <3>1, <3>2
  <2>3. chosen' \in 0 .. Len(sizes) /\ ChoiceInv'
    <3>1. CASE Measured(samples')
      <4>1. max \in Nat
        BY TunerAssumption DEF Types
      <4>2. /\ chosen' \in 1 .. Len(sizes) /\ report' = sizes[chosen']
            /\ max # 0 => chosen' <= Allowed(sizes, max)
        BY <1>1, <2>1, <3>1, <4>1, ChooseIs
      <4>3. chosen' # 0 /\ chosen' \in 0 .. Len(sizes)
        BY <4>2
      <4>4. Measured(samples)'
        BY <3>1 DEF Measured
      <4> QED
        BY <2>1, <4>2, <4>3, <4>4 DEF ChoiceInv
    <3>2. CASE ~Measured(samples')
      BY <1>3, <2>1, <3>2 DEF ChoiceInv, Types
    <3> QED
      BY <3>1, <3>2
  <2>4. steps' \in Nat
    BY <2>1 DEF Types
  <2> QED
    BY <1>1, <2>1, <2>2, <2>3, <2>4 DEF TunerPart
<1> QED
  BY <1>2, <1>3
------------------------------------------------------------------------------
(* Nothing is measured and nobody decodes at first. *)
LEMMA TunerStart == Init => TunerInv
<1> SUFFICES ASSUME Init PROVE TunerInv
  OBVIOUS
<1>1. PICK m \in Machines : sizes = m.sizes /\ start = m.start /\ reserve = m.reserve
  BY DEF Init
<1>2. /\ sizes \in Seq(Nat \ {0}) /\ sizes # <<>>
      /\ \A i, j \in DOMAIN sizes : i < j => sizes[i] < sizes[j]
      /\ start \in DOMAIN sizes /\ reserve \in 0 .. sizes[1] - 1
  BY <1>1, TunerAssumption
<1>3. Len(sizes) \in Nat /\ Len(sizes) > 0 /\ DOMAIN sizes = 1 .. Len(sizes)
  <2>1. Len(sizes) \in Nat /\ DOMAIN sizes = 1 .. Len(sizes)
    BY <1>2, LenProperties
  <2>2. Len(sizes) # 0
    BY <1>2, EmptySeq
  <2> QED
    BY <2>1, <2>2
<1>4. sizes[1] \in Nat
  <2>1. 1 \in 1 .. Len(sizes)
    BY <1>3
  <2> QED
    BY <1>2, <2>1, ElementOfSeq
<1>5. reserve \in Nat /\ reserve < sizes[1]
  BY <1>2, <1>4
<1>6. samples \in Seq(Seq(Nat)) /\ Len(samples) = Len(sizes)
  <2>1. samples = [i \in 1 .. Len(sizes) |-> <<>>]
    BY <1>3 DEF Init
  <2>2. <<>> \in Seq(Nat)
    BY EmptySeq
  <2> QED
    BY <1>3, <2>1, <2>2
<1>7. Types
  BY <1>2, <1>3, <1>5, <1>6 DEF Init, Types, Rayon
<1>8. ChoiceInv
  BY DEF Init, ChoiceInv
<1>9. AloneInv
  BY DEF Init, AloneInv, SamplesRanOnTheirSize, Candidates, Rayon
<1> QED
  BY <1>7, <1>8, <1>9 DEF TunerInv

(* Every step of the tuner and its callers keeps the invariant. *)
LEMMA TunerStep == TunerInv /\ [Next]_vars => TunerInv'
<1> SUFFICES ASSUME TunerInv, [Next]_vars PROVE TunerInv'
  OBVIOUS
<1>1. Types /\ ChoiceInv /\ AloneInv /\ TunerPart
  BY TunerPartIs DEF TunerInv
<1>2. CASE UNCHANGED vars
  BY <1>1, <1>2 DEF TunerInv, Types, ChoiceInv, AloneInv, Measured, SamplesRanOnTheirSize,
                    Candidates, vars, tuner, decoders
<1>3. ASSUME NEW d \in callers, Decoder(d), UNCHANGED callers PROVE TunerInv'
  <2>1. d \in Decoders /\ callers \subseteq Decoders
    BY <1>1 DEF Types
  <2>2. Cardinality(callers) = 1 => callers = {d}
    BY <1>3, <2>1, TunerAssumption, FS_Subset, FS_Singleton
  <2>3. \A team \in DOMAIN sizes : sizes[team] \in Nat \ {0}
    BY <1>1, ElementOfSeq, LenProperties DEF Types
  <2>4. DOMAIN sizes \subseteq Nat
    BY <1>1, LenProperties DEF Types
  <2>5. CASE Begin(d)
    <3>1. TunerPart' /\ (SamplesRanOnTheirSize => SamplesRanOnTheirSize')
      <4>1. CASE Limit
        BY <1>1, <1>3, <4>1, LimitKeeps
      <4>2. CASE UNCHANGED tuner
        BY <1>1, <4>2, TunerStays DEF tuner
      <4> QED
        BY <2>5, <4>1, <4>2 DEF Begin
    <3>2. pc[d] = "idle" /\ pc' = [pc EXCEPT ![d] = "select"] /\ UNCHANGED <<index, size, entered>>
      BY <2>5 DEF Begin
    <3>3. Types'
      BY <1>1, <1>3, <3>1, <3>2 DEF Types, TunerPart
    <3>4. AloneInv'
      BY <1>1, <1>3, <2>1, <2>2, <3>1, <3>2 DEF AloneInv, Types
    <3> QED
      BY <3>1, <3>3, <3>4 DEF TunerInv, TunerPart
  <2>6. CASE Select(d)
    <3>1. /\ index' = [index EXCEPT ![d] = Current]
          /\ size' = [size EXCEPT ![d] = sizes[Current]]
          /\ entered' = IF sizes[Current] = size[d] THEN entered
                        ELSE [entered EXCEPT ![d] = IF Free(sizes[Current], d)
                                                    THEN sizes[Current] ELSE Rayon]
          /\ pc' = [pc EXCEPT ![d] = "step"]
          /\ UNCHANGED tuner
      BY <2>6 DEF Select
    <3>2. TunerPart' /\ (SamplesRanOnTheirSize => SamplesRanOnTheirSize')
      BY <1>1, <3>1, TunerStays DEF tuner
    <3>3. Current \in DOMAIN sizes /\ sizes[Current] \in Nat \ {0} /\ Current \in Nat
      BY <1>1, <2>3, <2>4, CurrentIs
    <3>4. Types'
      BY <1>1, <1>3, <2>1, <3>1, <3>2, <3>3 DEF Types, TunerPart, Rayon
    <3>5. ASSUME Cardinality(callers) = 1 PROVE AloneInv'
      <4>1. \A other \in Decoders \ {d} : entered[other] = 0
        BY <1>1, <2>2, <3>5 DEF AloneInv
      <4>2. Free(sizes[Current], d)
        BY <3>3, <4>1 DEF Free
      <4>3. entered'[d] = sizes[Current]
        <5>1. entered[d] = size[d] /\ entered \in [Decoders -> Nat]
          BY <1>1, <2>1, <3>5 DEF AloneInv, Types
        <5> QED
          BY <2>1, <3>1, <4>2, <5>1
      <4>4. \A other \in Decoders \ {d} : entered'[other] = entered[other]
        BY <1>1, <3>1 DEF Types
      <4>5. /\ \A x \in Decoders \ {d} : /\ index'[x] = index[x]
                                         /\ size'[x] = size[x] /\ pc'[x] = pc[x]
            /\ index'[d] = Current /\ size'[d] = sizes[Current] /\ pc'[d] = "step"
        BY <1>1, <2>1, <3>1 DEF Types
      <4>6. sizes' = sizes
        BY <3>1 DEF tuner
      <4> QED
        BY <1>1, <1>3, <2>1, <2>2, <3>2, <3>3, <3>5, <4>3, <4>4, <4>5, <4>6 DEF AloneInv, Candidates
    <3>6. AloneInv'
      BY <1>3, <3>5 DEF AloneInv
    <3> QED
      BY <3>2, <3>4, <3>6 DEF TunerInv, TunerPart
  <2>7. CASE Record(d)
    <3>1. /\ TunerPart'
          /\ UNCHANGED sizes
          /\ SamplesRanOnTheirSize /\ (index[d] \in Candidates => entered[d] = sizes[index[d]])
               => SamplesRanOnTheirSize'
      BY <1>1, <1>3, <2>1, <2>7, RecordKeeps
    <3>2. pc[d] = "step" /\ pc' = [pc EXCEPT ![d] = "select"] /\ UNCHANGED <<index, size, entered>>
      BY <2>7 DEF Record
    <3>3. Types'
      BY <1>1, <1>3, <3>1, <3>2 DEF Types, TunerPart
    <3>4. AloneInv'
      BY <1>1, <1>3, <2>1, <2>2, <3>1, <3>2 DEF AloneInv, Types, Candidates
    <3> QED
      BY <3>1, <3>3, <3>4 DEF TunerInv, TunerPart
  <2>8. CASE RecordVerify(d)
    <3>1. pc' = [pc EXCEPT ![d] = "select"] /\ UNCHANGED <<tuner, index, size, entered>>
      BY <2>8 DEF RecordVerify
    <3>2. TunerPart' /\ (SamplesRanOnTheirSize => SamplesRanOnTheirSize')
      BY <1>1, <3>1, TunerStays DEF tuner
    <3>3. Types'
      BY <1>1, <1>3, <3>1, <3>2 DEF Types, TunerPart
    <3>4. AloneInv'
      BY <1>1, <1>3, <2>1, <2>2, <3>1, <3>2 DEF AloneInv, Types, Candidates, tuner
    <3> QED
      BY <3>2, <3>3, <3>4 DEF TunerInv, TunerPart
  <2>9. CASE EndPage(d)
    <3>1. /\ pc' = [pc EXCEPT ![d] = "idle"]
          /\ size' = [size EXCEPT ![d] = 0]
          /\ entered' = [entered EXCEPT ![d] = Rayon]
          /\ UNCHANGED <<sizes, max, reserve, samples, start, steps, chosen, report, index>>
      BY <2>9 DEF EndPage
    <3>2. TunerPart' /\ (SamplesRanOnTheirSize => SamplesRanOnTheirSize')
      BY <1>1, <3>1, TunerStays
    <3>3. Types'
      BY <1>1, <1>3, <3>1, <3>2 DEF Types, TunerPart, Rayon
    <3>4. AloneInv'
      BY <1>1, <1>3, <2>1, <2>2, <3>1, <3>2 DEF AloneInv, Types, Candidates, Rayon
    <3> QED
      BY <3>2, <3>3, <3>4 DEF TunerInv, TunerPart
  <2> QED
    BY <1>3, <2>5, <2>6, <2>7, <2>8, <2>9 DEF Decoder
<1> QED
  BY <1>2, <1>3 DEF Next

(* However the callers' steps, the limit of a pipelined run and the reserve *)
(* it brings in interleave (tune.rs), TunerInv holds.                       *)
THEOREM TunerInvariant == Spec => []TunerInv
<1>1. Init => TunerInv
  BY TunerStart
<1>2. TunerInv /\ [Next]_vars => TunerInv'
  BY TunerStep
<1> QED
  BY <1>1, <1>2, PTL DEF Spec

(* A choice in force follows the measurement of every candidate, is the one *)
(* reported and keeps within the limit as soon as any candidate does        *)
(* (Tuner::limit, Tuner::choose), for any list of candidates and any limit. *)
THEOREM ChoiceStandsInForce == Spec => []ChoiceInForce
<1>1. TunerInv => ChoiceInForce
  <2> SUFFICES ASSUME TunerInv PROVE ChoiceInForce
    OBVIOUS
  <2>1. Types /\ ChoiceInv /\ sizes \in Sizes
    BY SizesAre DEF TunerInv
  <2>2. /\ Len(sizes) \in Nat /\ DOMAIN sizes = 1 .. Len(sizes)
        /\ \A i \in 1 .. Len(sizes) : sizes[i] \in Nat \ {0}
        /\ \A i, j \in 1 .. Len(sizes) : i < j => sizes[i] < sizes[j]
        /\ chosen \in 0 .. Len(sizes) /\ max \in Nat
    <3>1. sizes \in Seq(Nat \ {0})
      BY <2>1 DEF Types
    <3>2. Len(sizes) \in Nat /\ DOMAIN sizes = 1 .. Len(sizes)
      BY <3>1, LenProperties
    <3>3. \A i \in 1 .. Len(sizes) : sizes[i] \in Nat \ {0}
      BY <3>1, ElementOfSeq
    <3>4. max \in Nat
      BY <2>1, TunerAssumption DEF Types
    <3> QED
      BY <2>1, <3>2, <3>3, <3>4 DEF Types
  <2>3. chosen = 0 <=> report = 0
    BY <2>1, <2>2 DEF ChoiceInv
  <2>4. ASSUME chosen # 0, max # 0, \E i \in Candidates : sizes[i] <= max
        PROVE  sizes[chosen] <= max
    <3>1. Allowed(sizes, max) \in 1 .. Len(sizes) /\ sizes[Allowed(sizes, max)] <= max
      BY <2>1, <2>2, <2>4, AllowedIs DEF Candidates
    <3>2. chosen <= Allowed(sizes, max) /\ chosen \in 1 .. Len(sizes)
      BY <2>1, <2>2, <2>4 DEF ChoiceInv
    <3>3. chosen = Allowed(sizes, max) \/ chosen < Allowed(sizes, max)
      BY <3>1, <3>2
    <3>4. sizes[chosen] <= sizes[Allowed(sizes, max)]
      BY <2>2, <3>1, <3>2, <3>3
    <3> QED
      BY <2>2, <3>1, <3>2, <3>4
  <2> QED
    BY <2>1, <2>3, <2>4 DEF ChoiceInForce, ChoiceInv
<1> QED
  BY <1>1, TunerInvariant, PTL

(* While one thread calls the runner, every sample belongs to the candidate *)
(* whose team ran the step (DecodeTeam::select, Tuner::record), however     *)
(* often the candidates rotate and even when the reserve moves them all up. *)
THEOREM AloneSamplesAreTrue == Spec => []AloneSamplesRanOnTheirSize
<1>1. TunerInv => AloneSamplesRanOnTheirSize
  BY DEF TunerInv, AloneInv, AloneSamplesRanOnTheirSize
<1> QED
  BY <1>1, TunerInvariant, PTL
=============================================================================
