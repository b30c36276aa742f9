---------------------------- MODULE EvidenceProofs ----------------------------
(***************************************************************************)
(* What the rules of Ownership and Outlines are good for, whatever the     *)
(* book, the number of invocations, and wherever they are killed or a file *)
(* is edited.  A book that keeps the rule of Ownership: no phase launches  *)
(* twice, no accepted record is rewritten, and a record that is kept is    *)
(* whole whenever it says ok.  One that has an outline besides: what an    *)
(* accepted record rests on was accepted, is whole and agrees with it, and *)
(* what a closed record says of its inputs is what was read.               *)
(***************************************************************************)
EXTENDS Outlines, SequenceTheorems, TLAPS

Experiment == Book[family]

(* How r of experiment F is held: its token, and in each phase the claim   *)
(* and, in the handler, what is 0 when the handler holds r from its start. *)
Alone(F, r) == ~\E t \in F.files : Owned(F, r, t, FALSE)
Token(F, r) == IF Alone(F, r) THEN r ELSE CHOOSE t \in F.files : Owned(F, r, t, FALSE)
Bounds(F, ph) == (0..Len(F.phases[ph].failing)) \X (1..(Len(F.phases[ph].steps) + 1))
Spanning(F, r, ph, x) == Span(F.phases[ph], x[2], x[1], r, Token(F, r), Alone(F, r))
Chosen(F, r, ph) == CHOOSE x \in Bounds(F, ph) : Spanning(F, r, ph, x)
Back(F, r, ph)  == Chosen(F, r, ph)[1]
Front(F, r, ph) == Chosen(F, r, ph)[2]

(* Invocation x is where only one may be, and may still write r. *)
HoldsNow(F, x, r) ==
    /\ x.phase # ""
    /\ IF x.failing
       THEN Within(x.at, Back(F, r, x.phase), Writers(F.phases[x.phase].failing, r))
       ELSE Within(x.at, Front(F, r, x.phase), Holding(F.phases[x.phase], Back(F, r, x.phase), r))

(* The script x is in, what a step s makes of x, and a failure of it. *)
ScriptOf(F, x) == IF x.failing THEN F.phases[x.phase].failing ELSE F.phases[x.phase].steps
Goes(F, s, x, y) ==
    /\ y.phase = x.phase /\ y.failing = x.failing
    /\ y.at \in After(ScriptOf(F, x), x.at)
    /\ y.try = IF s.op = "try" THEN s.by = "on" ELSE x.try
    /\ x.bad => y.bad
    /\ x.launched \/ s.op = "launch" => y.launched
Throws(s, x, y) ==
    /\ s.op \in Raising
    /\ \/ x.try /\ ~x.failing /\ y.phase = x.phase /\ y.at = 1 /\ y.failing /\ y.bad
       \/ ~(x.try /\ ~x.failing) /\ y = Idle

(* An invocation, and one that is at step s. *)
Fields == {"phase", "at", "try", "failing", "bad", "launched", "saw", "read"}
RunTyped(F, x) ==
    /\ DOMAIN x = Fields
    /\ x.phase \in DOMAIN F.phases \cup {""} /\ x.at \in Nat
    /\ x.try \in BOOLEAN /\ x.failing \in BOOLEAN /\ x.bad \in BOOLEAN /\ x.launched \in BOOLEAN
    /\ x.phase # "" => x.at # 0
    /\ x.phase = "" => ~x.failing /\ ~x.try
    /\ x.failing => x.bad
TriesWhere(F, x) ==
    x.phase # "" /\ ~x.failing /\ x.try => Handles(F.phases[x.phase].steps, x.at)
AtStep(F, x, s) ==
    /\ RunTyped(F, x) /\ TriesWhere(F, x) /\ x.phase # ""
    /\ x.at \in DOMAIN ScriptOf(F, x) /\ s = ScriptOf(F, x)[x.at]
-----------------------------------------------------------------------------
(* Scripts: every step is followed by later positions. *)
LEMMA ScriptsAre ==
  ASSUME NEW F, BookShaped(F), NEW ph \in DOMAIN F.phases, NEW s \in {F.phases[ph].steps, F.phases[ph].failing}
  PROVE  /\ DOMAIN s = 1..Len(s) /\ Len(s) \in Nat
         /\ \A i \in DOMAIN s : s[i].past \in Nat /\ s[i].over \in SUBSET F.files
         /\ \A i \in DOMAIN s : s[i].op \in {"create", "place", "fill", "draft"} => s[i].by \in F.files
         /\ \A i \in DOMAIN s : s[i].op = "draft" => s[i].by \in F.records
         /\ \A i \in DOMAIN s : s[i].op \in {"found", "accepted", "skip"} =>
               \A k \in DOMAIN s : i < k /\ k <= i + s[i].past => ~Off(s[k])
         /\ \A i \in DOMAIN s : \A j \in After(s, i) : j \in Nat /\ j > i
<1>1. Shaped(F, s)
  BY DEF BookShaped
<1>2. s \in Seq([op : STRING, over : SUBSET F.files, by : STRING, past : Nat])
  BY <1>1 DEF Shaped
<1>3. DOMAIN s = 1..Len(s) /\ Len(s) \in Nat
  BY <1>2
<1>4. \A i \in DOMAIN s : s[i] \in [op : STRING, over : SUBSET F.files, by : STRING, past : Nat]
  BY <1>2, <1>3, ElementOfSeq
<1>5. \A i \in DOMAIN s : s[i].past \in Nat /\ s[i].over \in SUBSET F.files
  BY <1>4
<1>6. \A i \in DOMAIN s : \A j \in After(s, i) : j \in Nat /\ j > i
  BY <1>3, <1>5 DEF After
<1> QED
  BY <1>1, <1>3, <1>5, <1>6 DEF Shaped

(* An invocation at a step is at a position of one of its two scripts. *)
LEMMA Running ==
  ASSUME NEW F, BookShaped(F), NEW x, NEW s, AtStep(F, x, s)
  PROVE  /\ x.phase \in DOMAIN F.phases /\ x.phase # ""
         /\ x.failing \in BOOLEAN /\ x.try \in BOOLEAN
         /\ x.at \in Nat /\ x.at # 0 /\ x.at <= x.at
         /\ x.at \in DOMAIN ScriptOf(F, x) /\ s = ScriptOf(F, x)[x.at]
         /\ x.failing => ScriptOf(F, x) = F.phases[x.phase].failing
         /\ ~x.failing => ScriptOf(F, x) = F.phases[x.phase].steps
         /\ \A j \in After(ScriptOf(F, x), x.at) : j \in Nat /\ j > x.at
         /\ \A i \in DOMAIN ScriptOf(F, x) : i \in Nat
<1>1. x.phase \in DOMAIN F.phases /\ x.phase # "" /\ x.failing \in BOOLEAN /\ x.try \in BOOLEAN
  BY DEF AtStep, RunTyped
<1>2. x.at \in Nat /\ x.at # 0
  BY DEF AtStep, RunTyped
<1>3. x.at \in DOMAIN ScriptOf(F, x) /\ s = ScriptOf(F, x)[x.at]
  BY DEF AtStep
<1>4. /\ x.failing => ScriptOf(F, x) = F.phases[x.phase].failing
      /\ ~x.failing => ScriptOf(F, x) = F.phases[x.phase].steps
  BY DEF ScriptOf
<1>5. ScriptOf(F, x) \in {F.phases[x.phase].steps, F.phases[x.phase].failing}
  BY DEF ScriptOf
<1>6. /\ \A i \in DOMAIN ScriptOf(F, x) : \A j \in After(ScriptOf(F, x), i) : j \in Nat /\ j > i
      /\ DOMAIN ScriptOf(F, x) = 1..Len(ScriptOf(F, x)) /\ Len(ScriptOf(F, x)) \in Nat
  BY <1>1, <1>5, ScriptsAre
<1>7. x.at <= x.at
  BY <1>2
<1>8. \A i \in DOMAIN ScriptOf(F, x) : i \in Nat
  BY <1>6
<1> QED
  BY <1>1, <1>2, <1>3, <1>4, <1>6, <1>7, <1>8

(* A position before one that is held is held, unless it is not past the claim. *)
LEMMA WithinBefore ==
  ASSUME NEW i \in Nat, NEW j \in Nat, i < j, NEW e \in Nat, ~(i <= e),
         NEW W, \A w \in W : w \in Nat, Within(j, e, W)
  PROVE  Within(i, e, W)
<1>1. PICK w \in W : j <= w
  BY DEF Within
<1>2. i <= w /\ e < i
  BY <1>1
<1> QED
  BY <1>2 DEF Within

(* A handler that is in force stays where the text says it is. *)
LEMMA HandlesStep ==
  ASSUME NEW F, BookShaped(F), NEW x, NEW s, AtStep(F, x, s), NEW y, RunTyped(F, y),
         Goes(F, s, x, y) \/ Throws(s, x, y)
  PROVE  TriesWhere(F, y)
<1>a. Throws(s, x, y) => TriesWhere(F, y)
  <2>1. Idle.phase = ""
    BY DEF Idle
  <2> QED
    BY <2>1 DEF Throws, TriesWhere
<1>1. SUFFICES ASSUME Goes(F, s, x, y), ~y.failing, y.try PROVE Handles(F.phases[y.phase].steps, y.at)
  BY <1>a DEF TriesWhere
<1> DEFINE t == F.phases[x.phase].steps
           i == x.at
           j == y.at
<1>2. /\ y.phase = x.phase /\ ~x.failing /\ i \in DOMAIN t /\ s = t[i] /\ j \in After(t, i)
      /\ x.phase \in DOMAIN F.phases /\ x.try \in BOOLEAN
      /\ IF s.op = "try" THEN s.by = "on" ELSE x.try
      /\ x.try => Handles(t, i)
  BY <1>1 DEF Goes, AtStep, ScriptOf, RunTyped, TriesWhere
<1>3. /\ DOMAIN t = 1..Len(t) /\ Len(t) \in Nat /\ t[i].past \in Nat
      /\ t[i].op \in {"found", "accepted", "skip"} =>
            \A k \in DOMAIN t : i < k /\ k <= i + t[i].past => ~Off(t[k])
      /\ i \in Nat /\ j \in Nat /\ j > i
  <2>1. t \in {F.phases[x.phase].steps, F.phases[x.phase].failing}
    OBVIOUS
  <2>2. /\ DOMAIN t = 1..Len(t) /\ Len(t) \in Nat /\ t[i].past \in Nat
        /\ t[i].op \in {"found", "accepted", "skip"} =>
              \A k \in DOMAIN t : i < k /\ k <= i + t[i].past => ~Off(t[k])
        /\ \A m \in After(t, i) : m \in Nat /\ m > i
    BY <1>2, <2>1, ScriptsAre
  <2>3. j \in Nat /\ j > i
    BY <1>2, <2>2
  <2>4. i \in Nat
    BY DEF AtStep, RunTyped
  <2> QED
    BY <2>2, <2>3, <2>4
<1> HIDE DEF t, i, j
<1>4. CASE s.op = "try"
  <2>1. j = i + 1 /\ On(t[i])
    BY <1>2, <1>4 DEF After, On
  <2>2. i < j /\ \A k \in DOMAIN t : ~(i < k /\ k < j)
    BY <1>3, <2>1
  <2> QED
    BY <1>2, <2>1, <2>2 DEF Handles, t, j
<1>5. CASE s.op # "try"
  <2>1. PICK h \in DOMAIN t : h < i /\ On(t[h]) /\ \A k \in DOMAIN t : h < k /\ k < i => ~Off(t[k])
    BY <1>2, <1>5 DEF Handles
  <2>2. ~Off(t[i])
    BY <1>2, <1>5 DEF Off
  <2>3. \A k \in DOMAIN t : i < k /\ k < j => ~Off(t[k])
    BY <1>2, <1>3 DEF After
  <2>4. h < j /\ \A k \in DOMAIN t : h < k /\ k < j => ~Off(t[k])
    BY <1>3, <2>1, <2>2, <2>3
  <2> QED
    BY <1>2, <2>1, <2>4 DEF Handles, t, j
<1> QED
  BY <1>4, <1>5
-----------------------------------------------------------------------------
(* The token and the bounds are ones the rule allows. *)
LEMMA TokenOwns ==
  ASSUME NEW F, NEW r, (\E t \in F.files : Owned(F, r, t, FALSE)) \/ Owned(F, r, r, TRUE)
  PROVE  /\ Owned(F, r, Token(F, r), Alone(F, r))
         /\ ~Alone(F, r) => Token(F, r) \in F.files
<1>1. CASE Alone(F, r)
  BY <1>1 DEF Alone, Token
<1>2. CASE ~Alone(F, r)
  <2>1. \E t \in F.files : Owned(F, r, t, FALSE)
    BY <1>2 DEF Alone
  <2>2. Token(F, r) = CHOOSE t \in F.files : Owned(F, r, t, FALSE)
    BY <1>2 DEF Token
  <2>3. Token(F, r) \in F.files /\ Owned(F, r, Token(F, r), FALSE)
    BY <2>1, <2>2
  <2>4. Alone(F, r) = FALSE
    BY <1>2 DEF Alone
  <2> QED
    BY <2>3, <2>4
<1> QED
  BY <1>1, <1>2

(* The bounds chosen for a phase span what the rule says. *)
LEMMA BoundsAre ==
  ASSUME NEW F, NEW r, NEW ph \in DOMAIN F.phases, Owned(F, r, Token(F, r), Alone(F, r))
  PROVE  /\ Span(F.phases[ph], Front(F, r, ph), Back(F, r, ph), r, Token(F, r), Alone(F, r))
         /\ Back(F, r, ph) \in 0..Len(F.phases[ph].failing)
         /\ Front(F, r, ph) \in 1..(Len(F.phases[ph].steps) + 1)
<1>1. PICK d \in 0..Len(F.phases[ph].failing), c \in 1..(Len(F.phases[ph].steps) + 1) :
        Span(F.phases[ph], c, d, r, Token(F, r), Alone(F, r))
  BY DEF Owned
<1>2. <<d, c>> \in Bounds(F, ph) /\ Spanning(F, r, ph, <<d, c>>)
  BY <1>1 DEF Bounds, Spanning
<1>3. Chosen(F, r, ph) \in Bounds(F, ph) /\ Spanning(F, r, ph, Chosen(F, r, ph))
  BY <1>2 DEF Chosen
<1> QED
  BY <1>3 DEF Bounds, Spanning, Back, Front

(* Whoever writes r holds it. *)
LEMMA WriterHolds ==
  ASSUME NEW F, BookShaped(F), NEW r, Owned(F, r, Token(F, r), Alone(F, r)),
         NEW x, NEW s, AtStep(F, x, s), Writes(s, r)
  PROVE  HoldsNow(F, x, r)
<1>1. /\ x.phase \in DOMAIN F.phases /\ x.failing \in BOOLEAN /\ x.phase # ""
      /\ x.at \in Nat /\ x.at <= x.at
  BY Running
<1>2. Span(F.phases[x.phase], Front(F, r, x.phase), Back(F, r, x.phase), r, Token(F, r), Alone(F, r))
  BY <1>1, BoundsAre
<1>3. CASE x.failing
  <2>1. x.at \in Writers(F.phases[x.phase].failing, r)
    BY <1>3 DEF AtStep, ScriptOf, Writers
  <2>2. x.at > Back(F, r, x.phase)
    BY <1>2, <2>1 DEF Span
  <2> QED
    BY <1>1, <1>3, <2>1, <2>2 DEF HoldsNow, Within
<1>4. CASE ~x.failing
  <2>1. x.at \in Writers(F.phases[x.phase].steps, r)
    BY <1>4 DEF AtStep, ScriptOf, Writers
  <2>2. x.at \in Holding(F.phases[x.phase], Back(F, r, x.phase), r)
    BY <2>1 DEF Holding
  <2>3. x.at > Front(F, r, x.phase)
    BY <1>2, <2>2 DEF Span
  <2> QED
    BY <1>1, <1>4, <2>2, <2>3 DEF HoldsNow, Within
<1> QED
  BY <1>3, <1>4

(* r is held after a step only when it was held before and not filled, or  *)
(* when the step claimed it.                                               *)
LEMMA HoldsStep ==
  ASSUME NEW F, BookShaped(F), NEW r, Owned(F, r, Token(F, r), Alone(F, r)),
         NEW x, NEW s, AtStep(F, x, s), NEW y, Goes(F, s, x, y) \/ Throws(s, x, y),
         HoldsNow(F, y, r)
  PROVE  \/ /\ HoldsNow(F, x, r)
            /\ s.op = "fill" /\ s.by = r => x.failing
         \/ Goes(F, s, x, y) /\ Claims(ScriptOf(F, x), x.at, y.at, r, Token(F, r), Alone(F, r))
<1> DEFINE phase == F.phases[x.phase]
           t == ScriptOf(F, x)
           c == Front(F, r, x.phase)
           d == Back(F, r, x.phase)
<1>1. /\ x.phase \in DOMAIN F.phases /\ x.failing \in BOOLEAN /\ x.phase # ""
      /\ x.at \in Nat /\ x.at # 0 /\ x.at <= x.at /\ x.at \in DOMAIN t /\ s = t[x.at]
      /\ x.failing => t = phase.failing
      /\ ~x.failing => t = phase.steps
      /\ \A j \in After(t, x.at) : j \in Nat /\ j > x.at
      /\ \A i \in DOMAIN t : i \in Nat
  BY Running
<1>2. Span(phase, c, d, r, Token(F, r), Alone(F, r)) /\ d \in Nat /\ c \in Nat /\ c >= 1
  <2>1. /\ Span(phase, c, d, r, Token(F, r), Alone(F, r))
        /\ d \in 0..Len(phase.failing) /\ c \in 1..(Len(phase.steps) + 1)
    BY <1>1, BoundsAre
  <2> HIDE DEF c, d
  <2>2. d \in Nat /\ c \in Nat /\ c >= 1
    BY <2>1
  <2> QED
    BY <2>1, <2>2
<1> HIDE DEF phase, t, c, d
<1>5. CASE Goes(F, s, x, y) /\ x.failing
  <2>1. /\ y.phase = x.phase /\ y.failing /\ y.at \in After(t, x.at)
        /\ y.at \in Nat /\ x.at < y.at /\ t = phase.failing
    BY <1>1, <1>5 DEF Goes, t
  <2>2. Within(y.at, d, Writers(phase.failing, r))
    BY <2>1 DEF HoldsNow, d, phase
  <2>3. CASE x.at <= d
    <3>1. Entered(t, d, Writers(phase.failing, r), r, Token(F, r), Alone(F, r))
      BY <1>2, <2>1 DEF Span
    <3>2. Claims(t, x.at, y.at, r, Token(F, r), Alone(F, r))
      BY <1>1, <2>1, <2>2, <2>3, <3>1 DEF Entered
    <3> QED
      BY <1>5, <3>2 DEF t
  <2>4. CASE ~(x.at <= d)
    <3>1. \A w \in Writers(phase.failing, r) : w \in Nat
      BY <1>1, <2>1 DEF Writers
    <3>2. Within(x.at, d, Writers(phase.failing, r))
      BY <1>1, <1>2, <2>1, <2>2, <2>4, <3>1, WithinBefore
    <3> QED
      BY <1>1, <1>5, <3>2 DEF HoldsNow, d, phase
  <2> QED
    BY <2>3, <2>4
<1>6. CASE Goes(F, s, x, y) /\ ~x.failing
  <2>1. /\ y.phase = x.phase /\ ~y.failing /\ y.at \in After(t, x.at)
        /\ y.at \in Nat /\ x.at < y.at /\ t = phase.steps
    BY <1>1, <1>6 DEF Goes, t
  <2>2. Within(y.at, c, Holding(phase, d, r))
    BY <2>1 DEF HoldsNow, c, d, phase
  <2>3. CASE x.at <= c
    <3>1. Entered(t, c, Holding(phase, d, r), r, Token(F, r), Alone(F, r))
      BY <1>2, <2>1 DEF Span
    <3>2. Claims(t, x.at, y.at, r, Token(F, r), Alone(F, r))
      BY <1>1, <2>1, <2>2, <2>3, <3>1 DEF Entered
    <3> QED
      BY <1>6, <3>2 DEF t
  <2>4. CASE ~(x.at <= c)
    <3>1. \A w \in Holding(phase, d, r) : w \in Nat
      BY <1>1, <2>1 DEF Holding, Writers
    <3>2. Within(x.at, c, Holding(phase, d, r))
      BY <1>1, <1>2, <2>1, <2>2, <2>4, <3>1, WithinBefore
    <3>3. ASSUME s.op = "fill", s.by = r PROVE FALSE
      <4>1. x.at \in Writers(phase.steps, r) /\ phase.steps[x.at].op = "fill"
        BY <1>1, <2>1, <3>3 DEF Writers, Writes
      <4>2. y.at = x.at + 1
        BY <1>1, <2>1, <3>3 DEF After
      <4>3. ~Within(x.at + 1, c, Holding(phase, d, r))
        BY <1>2, <4>1 DEF Span
      <4> QED
        BY <2>2, <4>2, <4>3
    <3>4. HoldsNow(F, x, r)
      BY <1>1, <1>6, <3>2 DEF HoldsNow, c, d, phase
    <3> QED
      BY <3>3, <3>4
  <2> QED
    BY <2>3, <2>4
<1>7. CASE Throws(s, x, y)
  <2>1. y.phase # ""
    BY DEF HoldsNow
  <2>2. y # Idle
    <3>1. Idle.phase = ""
      BY DEF Idle
    <3> QED
      BY <2>1, <3>1
  <2>3. x.try /\ ~x.failing /\ y.phase = x.phase /\ y.at = 1 /\ y.failing /\ s.op \in Raising
    BY <1>7, <2>2 DEF Throws
  <2>4. Within(1, d, Writers(phase.failing, r))
    BY <2>3 DEF HoldsNow, d, phase
  <2>5. d = 0 /\ Writers(phase.failing, r) # {}
    BY <1>2, <2>4 DEF Within
  <2>6. Handles(phase.steps, x.at) /\ t = phase.steps
    BY <1>1, <2>3 DEF AtStep, TriesWhere, phase
  <2>7. x.at \in Holding(phase, d, r)
    BY <1>1, <2>3, <2>5, <2>6 DEF Holding
  <2>8. c < x.at
    BY <1>1, <1>2, <2>7 DEF Span
  <2>9. Within(x.at, c, Holding(phase, d, r))
    BY <1>1, <2>7, <2>8 DEF Within
  <2>10. HoldsNow(F, x, r)
    BY <1>1, <2>3, <2>9 DEF HoldsNow, c, d, phase
  <2>11. s.op # "fill"
    BY <2>3 DEF Raising
  <2> QED
    BY <2>10, <2>11
<1> QED
  BY <1>1, <1>5, <1>6, <1>7
-----------------------------------------------------------------------------
(* What is true of every state, whatever the scripts do. *)
WorldInv ==
    /\ bound \in Scenarios /\ family \in bound.families
    /\ disk \in [Files -> [ver : Nat, whole : BOOLEAN]]
    /\ \A f \in Files : disk[f].whole => Exists(f)
    /\ DOMAIN record \subseteq Records
    /\ \A r \in DOMAIN record : Exists(r) /\ record[r].ok \in BOOLEAN
    /\ DOMAIN known \subseteq Files
    /\ \A f \in DOMAIN known : known[f] \in Nat /\ known[f] <= disk[f].ver
    /\ DOMAIN run = Invocations
    /\ \A p \in Invocations : RunTyped(Experiment, run[p]) /\ TriesWhere(Experiment, run[p])
    /\ launches \in [Phases -> Nat]

(* One step of invocation p, seen from its program counter. *)
Claimed(p, s) ==
    /\ s.op = "create" => ~Exists(s.by)
    /\ s.op = "fresh" => \A f \in s.over : ~Exists(f)
    /\ s.op = "found" /\ run'[p].at # run[p].at + 1 => ~Exists(s.by)
Turn(p, s) ==
    /\ DOMAIN run' = Invocations
    /\ \A q \in Invocations : q # p => run'[q] = run[q]
    /\ RunTyped(Experiment, run'[p])
    /\ \/ Goes(Experiment, s, run[p], run'[p]) /\ Claimed(p, s)
       \/ Throws(s, run[p], run'[p])

(* The step an invocation is at is one of a script of its experiment. *)
LEMMA NowIs ==
  ASSUME WorldInv, NEW p \in Invocations, NEW s \in Now(p)
  PROVE  /\ BookShaped(Experiment) /\ Script(p) = ScriptOf(Experiment, run[p])
         /\ AtStep(Experiment, run[p], s)
<1>1. BookShaped(Experiment)
  BY BookAssumption DEF WorldInv, Experiment
<1>2. RunTyped(Experiment, run[p]) /\ TriesWhere(Experiment, run[p])
  BY DEF WorldInv
<1>3. run[p].phase # "" /\ s \in At(Script(p), run[p].at)
  BY DEF Now
<1>4. run[p].at <= Len(Script(p)) /\ s = Script(p)[run[p].at]
  BY <1>3 DEF At
<1>5. run[p].at \in Nat /\ run[p].at # 0 /\ run[p].failing \in BOOLEAN /\ run[p].phase \in DOMAIN Experiment.phases
  BY <1>2, <1>3 DEF RunTyped
<1>6. Script(p) = ScriptOf(Experiment, run[p])
  BY <1>5 DEF Script, ScriptOf, Experiment
<1>7. /\ DOMAIN ScriptOf(Experiment, run[p]) = 1..Len(ScriptOf(Experiment, run[p]))
      /\ Len(ScriptOf(Experiment, run[p])) \in Nat
  <2>1. ScriptOf(Experiment, run[p]) \in {Experiment.phases[run[p].phase].steps, Experiment.phases[run[p].phase].failing}
    BY DEF ScriptOf
  <2> QED
    BY <1>1, <1>5, <2>1, ScriptsAre
<1>8. run[p].at \in DOMAIN ScriptOf(Experiment, run[p])
  BY <1>4, <1>5, <1>6, <1>7
<1> QED
  BY <1>1, <1>2, <1>3, <1>4, <1>6, <1>8 DEF AtStep

(* A step that moves to a later position, typed, is a turn. *)
LEMMA Turned ==
  ASSUME WorldInv, NEW p \in Invocations, NEW s \in Now(p),
         NEW y, run' = [run EXCEPT ![p] = y], DOMAIN y = Fields,
         y.phase = run[p].phase, y.failing = run[p].failing,
         y.at \in After(ScriptOf(Experiment, run[p]), run[p].at),
         y.try \in BOOLEAN, y.try = IF s.op = "try" THEN s.by = "on" ELSE run[p].try,
         y.bad \in BOOLEAN, run[p].bad => y.bad,
         y.launched \in BOOLEAN, run[p].launched \/ s.op = "launch" => y.launched,
         Claimed(p, s)
  PROVE  Turn(p, s)
<1>1. DOMAIN run = Invocations /\ run'[p] = y /\ DOMAIN run' = Invocations
  BY DEF WorldInv
<1>2. \A q \in Invocations : q # p => run'[q] = run[q]
  BY DEF WorldInv
<1>3. BookShaped(Experiment) /\ AtStep(Experiment, run[p], s)
  BY NowIs
<1>4. y.at \in Nat /\ y.at # 0 /\ run[p].phase # ""
  <2>1. y.at \in Nat /\ y.at > run[p].at /\ run[p].at \in Nat /\ run[p].phase # ""
    BY <1>3, Running
  <2>2. \A i, j \in Nat : j > i => j # 0
    OBVIOUS
  <2> QED
    BY <2>1, <2>2
<1>5. RunTyped(Experiment, run[p])
  BY DEF WorldInv
<1>6. RunTyped(Experiment, y)
  BY <1>4, <1>5 DEF RunTyped
<1>7. Goes(Experiment, s, run[p], y)
  BY DEF Goes
<1> QED
  BY <1>1, <1>2, <1>6, <1>7 DEF Turn

(* What the EXCEPTs of the steps leave alone. *)
MovesOn(x, i, y) ==
    \/ y = [x EXCEPT !.at = i]
    \/ \E saw : y = [x EXCEPT !.at = i, !.saw = saw]
    \/ \E read : y = [x EXCEPT !.at = i, !.read = read]
    \/ \E read, saw : y = [x EXCEPT !.at = i, !.read = read, !.saw = saw]
Judges(x, i, b, y)      == y = [x EXCEPT !.at = i, !.bad = b]
Tries(x, i, b, y)       == y = [x EXCEPT !.at = i, !.try = b]
LaunchesOn(x, i, y)     == \E read : y = [x EXCEPT !.at = i, !.launched = TRUE, !.read = read]
TurnsToHandler(x, y)    == y = [x EXCEPT !.at = 1, !.failing = TRUE, !.bad = TRUE]
Alike(x, y, i, try, failing, bad, launched) ==
    /\ DOMAIN y = Fields /\ y.phase = x.phase /\ y.at = i /\ y.try = try
    /\ y.failing = failing /\ y.bad = bad /\ y.launched = launched

(* They leave alone what their names do not say. *)
LEMMA Excepts ==
  ASSUME NEW x, DOMAIN x = Fields, NEW i, NEW y
  PROVE  /\ MovesOn(x, i, y) => Alike(x, y, i, x.try, x.failing, x.bad, x.launched)
         /\ \A b : Judges(x, i, b, y) => Alike(x, y, i, x.try, x.failing, b, x.launched)
         /\ \A b : Tries(x, i, b, y) => Alike(x, y, i, b, x.failing, x.bad, x.launched)
         /\ LaunchesOn(x, i, y) => Alike(x, y, i, x.try, x.failing, x.bad, TRUE)
         /\ TurnsToHandler(x, y) => Alike(x, y, 1, x.try, TRUE, TRUE, x.launched)
BY DEF Fields, MovesOn, Judges, Tries, LaunchesOn, TurnsToHandler, Alike

Advances(p) ==
    \/ Advance(p)
    \/ \E saw : Keep(p, saw)
    \/ \E read : run' = [run EXCEPT ![p].at = @ + 1, ![p].read = read]
    \/ \E read, saw : run' = [run EXCEPT ![p].at = @ + 1, ![p].read = read, ![p].saw = saw]

(* Moving on by one, whatever is noted on the way. *)
LEMMA AdvanceTurn ==
  ASSUME WorldInv, NEW p \in Invocations, NEW s \in Now(p), Advances(p),
         s.op \notin {"try", "launch", "skip"}, Claimed(p, s)
  PROVE  Turn(p, s)
<1>1. PICK y : run' = [run EXCEPT ![p] = y] /\ MovesOn(run[p], run[p].at + 1, y)
  <2>1. CASE Advance(p)
    <3>1. run' = [run EXCEPT ![p] = [run[p] EXCEPT !.at = run[p].at + 1]]
      BY <2>1 DEF Advance
    <3>2. MovesOn(run[p], run[p].at + 1, [run[p] EXCEPT !.at = run[p].at + 1])
      BY DEF MovesOn
    <3> QED
      BY <3>1, <3>2
  <2>2. CASE \E saw : Keep(p, saw)
    <3>1. PICK saw : Keep(p, saw)
      BY <2>2
    <3> DEFINE new == Joined(saw, run[p].saw)
    <3>2. run' = [run EXCEPT ![p] = [run[p] EXCEPT !.at = run[p].at + 1, !.saw = new]]
      BY <3>1 DEF Keep
    <3>3. MovesOn(run[p], run[p].at + 1, [run[p] EXCEPT !.at = run[p].at + 1, !.saw = new])
      BY DEF MovesOn
    <3> QED
      BY <3>2, <3>3
  <2>3. CASE \E read : run' = [run EXCEPT ![p].at = @ + 1, ![p].read = read]
    <3>1. PICK read : run' = [run EXCEPT ![p] = [run[p] EXCEPT !.at = run[p].at + 1, !.read = read]]
      BY <2>3
    <3>2. MovesOn(run[p], run[p].at + 1, [run[p] EXCEPT !.at = run[p].at + 1, !.read = read])
      BY DEF MovesOn
    <3> QED
      BY <3>1, <3>2
  <2>4. CASE \E read, saw : run' = [run EXCEPT ![p].at = @ + 1, ![p].read = read, ![p].saw = saw]
    <3>0. DOMAIN run = Invocations
      BY DEF WorldInv
    <3>a. PICK read, saw : run' = [run EXCEPT ![p].at = @ + 1, ![p].read = read, ![p].saw = saw]
      BY <2>4
    <3>1. run' = [run EXCEPT ![p] = [run[p] EXCEPT !.at = run[p].at + 1, !.read = read, !.saw = saw]]
      BY <3>0, <3>a
    <3>2. MovesOn(run[p], run[p].at + 1, [run[p] EXCEPT !.at = run[p].at + 1, !.read = read, !.saw = saw])
      BY DEF MovesOn
    <3> QED
      BY <3>1, <3>2
  <2> QED
    BY <2>1, <2>2, <2>3, <2>4 DEF Advances
<1>2. RunTyped(Experiment, run[p])
  BY DEF WorldInv
<1>3. /\ DOMAIN y = Fields /\ y.phase = run[p].phase /\ y.at = run[p].at + 1 /\ y.try = run[p].try
      /\ y.failing = run[p].failing /\ y.bad = run[p].bad /\ y.launched = run[p].launched
  <2>1. DOMAIN run[p] = Fields
    BY <1>2 DEF RunTyped
  <2>2. Alike(run[p], y, run[p].at + 1, run[p].try, run[p].failing, run[p].bad, run[p].launched)
    BY <1>1, <2>1, Excepts
  <2> QED
    BY <2>2 DEF Alike
<1>4. run[p].at + 1 \in After(ScriptOf(Experiment, run[p]), run[p].at)
  BY NowIs DEF AtStep, After
<1>5. run[p].try \in BOOLEAN /\ run[p].bad \in BOOLEAN /\ run[p].launched \in BOOLEAN
  BY <1>2 DEF RunTyped
<1> QED
  BY <1>1, <1>3, <1>4, <1>5, Turned

(* A require that fails: to the handler, or to the end. *)
LEMMA RaiseTurn ==
  ASSUME WorldInv, NEW p \in Invocations, NEW s \in Now(p), Raise(p), s.op \in Raising
  PROVE  Turn(p, s)
<1>1. RunTyped(Experiment, run[p]) /\ DOMAIN run = Invocations
  BY DEF WorldInv
<1>2. run' = [run EXCEPT ![p] = Raised(p)]
  BY DEF Raise
<1>3. /\ DOMAIN run' = Invocations /\ run'[p] = Raised(p)
      /\ \A q \in Invocations : q # p => run'[q] = run[q]
  BY <1>1, <1>2
<1>4. CASE run[p].try /\ ~run[p].failing
  <2>1. PICK y : y = Raised(p) /\ TurnsToHandler(run[p], y)
    BY <1>4 DEF Raised, TurnsToHandler
  <2>2. /\ DOMAIN y = Fields /\ y.phase = run[p].phase /\ y.at = 1 /\ y.try = run[p].try
        /\ y.failing = TRUE /\ y.bad = TRUE /\ y.launched = run[p].launched
    <3>1. DOMAIN run[p] = Fields
      BY <1>1 DEF RunTyped
    <3>2. Alike(run[p], y, 1, run[p].try, TRUE, TRUE, run[p].launched)
      BY <2>1, <3>1, Excepts
    <3> QED
      BY <3>2 DEF Alike
  <2>3. Raised(p) = y
    BY <2>1
  <2>4. y.phase # ""
    BY <2>2 DEF Now
  <2>5. RunTyped(Experiment, y)
    <3>1. /\ run[p].phase \in DOMAIN Experiment.phases \cup {""}
          /\ run[p].try \in BOOLEAN /\ run[p].launched \in BOOLEAN
      BY <1>1 DEF RunTyped
    <3>2. y.phase \in DOMAIN Experiment.phases \cup {""} /\ y.try \in BOOLEAN /\ y.launched \in BOOLEAN
      BY <2>2, <3>1
    <3>4. y.at \in Nat /\ y.at # 0
      <4>1. y.at = 1
        BY <2>2
      <4> QED
        BY <4>1
    <3>3. y.failing \in BOOLEAN /\ y.bad \in BOOLEAN /\ y.bad
      BY <2>2
    <3> QED
      BY <2>2, <2>4, <3>2, <3>3, <3>4 DEF RunTyped
  <2>6. Throws(s, run[p], y)
    BY <1>4, <2>2 DEF Throws
  <2> QED
    BY <1>3, <2>3, <2>5, <2>6 DEF Turn
<1>5. CASE ~(run[p].try /\ ~run[p].failing)
  <2>1. Raised(p) = Idle
    BY <1>5 DEF Raised
  <2>2. RunTyped(Experiment, Idle)
    BY DEF RunTyped, Idle, Fields
  <2>3. Throws(s, run[p], Idle)
    BY <1>5 DEF Throws
  <2> QED
    BY <1>3, <2>1, <2>2, <2>3 DEF Turn
<1> QED
  BY <1>4, <1>5

(* The steps that move on with a verdict, a handler or a launch. *)
LEMMA JudgeTurn ==
  ASSUME WorldInv, NEW p \in Invocations, NEW s \in Now(p), NEW worse \in BOOLEAN,
         run' = [run EXCEPT ![p].at = @ + 1, ![p].bad = @ \/ worse],
         s.op \in {"judge", "settle"}
  PROVE  Turn(p, s)
<1>1. RunTyped(Experiment, run[p]) /\ DOMAIN run = Invocations /\ DOMAIN run[p] = Fields
  BY DEF WorldInv, RunTyped
<1> DEFINE b == run[p].bad \/ worse
           y == [run[p] EXCEPT !.at = run[p].at + 1, !.bad = b]
<1>2. run' = [run EXCEPT ![p] = y]
  BY <1>1
<1>3. Judges(run[p], run[p].at + 1, b, y)
  BY DEF Judges
<1>4. b \in BOOLEAN /\ (run[p].bad => b)
  OBVIOUS
<1> HIDE DEF b, y
<1>5. Alike(run[p], y, run[p].at + 1, run[p].try, run[p].failing, b, run[p].launched)
  BY <1>1, <1>3, Excepts
<1>6. /\ DOMAIN y = Fields /\ y.phase = run[p].phase /\ y.at = run[p].at + 1 /\ y.try = run[p].try
      /\ y.failing = run[p].failing /\ y.bad = b /\ y.launched = run[p].launched
  BY <1>5 DEF Alike
<1>7. run[p].at + 1 \in After(ScriptOf(Experiment, run[p]), run[p].at)
  BY NowIs DEF AtStep, After
<1>8. run[p].try \in BOOLEAN /\ run[p].bad \in BOOLEAN /\ run[p].launched \in BOOLEAN
  BY <1>1 DEF RunTyped
<1>9. Claimed(p, s) /\ s.op # "try" /\ s.op # "launch"
  BY DEF Claimed
<1> QED
  BY <1>2, <1>4, <1>6, <1>7, <1>8, <1>9, Turned

(* A handler comes into force or is left. *)
LEMMA TryTurn ==
  ASSUME WorldInv, NEW p \in Invocations, NEW s \in Now(p),
         run' = [run EXCEPT ![p].at = @ + 1, ![p].try = (s.by = "on")], s.op = "try"
  PROVE  Turn(p, s)
<1>1. RunTyped(Experiment, run[p]) /\ DOMAIN run = Invocations /\ DOMAIN run[p] = Fields
  BY DEF WorldInv, RunTyped
<1> DEFINE b == s.by = "on"
           y == [run[p] EXCEPT !.at = run[p].at + 1, !.try = b]
<1>2. run' = [run EXCEPT ![p] = y]
  BY <1>1
<1>3. Tries(run[p], run[p].at + 1, b, y)
  BY DEF Tries
<1>4. b \in BOOLEAN /\ b = (IF s.op = "try" THEN s.by = "on" ELSE run[p].try)
  OBVIOUS
<1> HIDE DEF b, y
<1>5. Alike(run[p], y, run[p].at + 1, b, run[p].failing, run[p].bad, run[p].launched)
  BY <1>1, <1>3, Excepts
<1>6. /\ DOMAIN y = Fields /\ y.phase = run[p].phase /\ y.at = run[p].at + 1 /\ y.try = b
      /\ y.failing = run[p].failing /\ y.bad = run[p].bad /\ y.launched = run[p].launched
  BY <1>5 DEF Alike
<1>7. run[p].at + 1 \in After(ScriptOf(Experiment, run[p]), run[p].at)
  BY NowIs DEF AtStep, After
<1>8. run[p].bad \in BOOLEAN /\ run[p].launched \in BOOLEAN
  BY <1>1 DEF RunTyped
<1>9. Claimed(p, s) /\ s.op # "launch"
  BY DEF Claimed
<1> QED
  BY <1>2, <1>4, <1>6, <1>7, <1>8, <1>9, Turned

(* A launch that returned is remembered. *)
LEMMA LaunchTurn ==
  ASSUME WorldInv, NEW p \in Invocations, NEW s \in Now(p), NEW read,
         run' = [run EXCEPT ![p].at = @ + 1, ![p].launched = TRUE, ![p].read = read], s.op = "launch"
  PROVE  Turn(p, s)
<1>1. RunTyped(Experiment, run[p]) /\ DOMAIN run = Invocations /\ DOMAIN run[p] = Fields
  BY DEF WorldInv, RunTyped
<1> DEFINE y == [run[p] EXCEPT !.at = run[p].at + 1, !.launched = TRUE, !.read = read]
<1>2. run' = [run EXCEPT ![p] = y]
  BY <1>1
<1>3. LaunchesOn(run[p], run[p].at + 1, y)
  BY DEF LaunchesOn
<1> HIDE DEF y
<1>5. Alike(run[p], y, run[p].at + 1, run[p].try, run[p].failing, run[p].bad, TRUE)
  BY <1>1, <1>3, Excepts
<1>6. /\ DOMAIN y = Fields /\ y.phase = run[p].phase /\ y.at = run[p].at + 1 /\ y.try = run[p].try
      /\ y.failing = run[p].failing /\ y.bad = run[p].bad /\ y.launched = TRUE
  BY <1>5 DEF Alike
<1>7. run[p].at + 1 \in After(ScriptOf(Experiment, run[p]), run[p].at)
  BY NowIs DEF AtStep, After
<1>8. run[p].bad \in BOOLEAN /\ run[p].try \in BOOLEAN
  BY <1>1 DEF RunTyped
<1>9. Claimed(p, s) /\ s.op # "try"
  BY DEF Claimed
<1> QED
  BY <1>2, <1>6, <1>7, <1>8, <1>9, Turned

(* The steps that choose where to go on. *)
LEMMA JumpTurn ==
  ASSUME WorldInv, NEW p \in Invocations, NEW s \in Now(p), NEW i,
         run' = [run EXCEPT ![p].at = i], s.op \notin {"try", "launch"},
         i \in After(ScriptOf(Experiment, run[p]), run[p].at), Claimed(p, s)
  PROVE  Turn(p, s)
<1>1. RunTyped(Experiment, run[p]) /\ DOMAIN run = Invocations /\ DOMAIN run[p] = Fields
  BY DEF WorldInv, RunTyped
<1> DEFINE y == [run[p] EXCEPT !.at = i]
<1>2. run' = [run EXCEPT ![p] = y]
  BY <1>1
<1>3. MovesOn(run[p], i, y)
  BY DEF MovesOn
<1> HIDE DEF y
<1>5. Alike(run[p], y, i, run[p].try, run[p].failing, run[p].bad, run[p].launched)
  BY <1>1, <1>3, Excepts
<1>6. /\ DOMAIN y = Fields /\ y.phase = run[p].phase /\ y.at = i /\ y.try = run[p].try
      /\ y.failing = run[p].failing /\ y.bad = run[p].bad /\ y.launched = run[p].launched
  BY <1>5 DEF Alike
<1>8. run[p].try \in BOOLEAN /\ run[p].bad \in BOOLEAN /\ run[p].launched \in BOOLEAN
  BY <1>1 DEF RunTyped
<1> QED
  BY <1>2, <1>6, <1>8, Turned

(* Every step is a turn. *)
LEMMA RequireTurn ==
  ASSUME WorldInv, NEW p \in Invocations, NEW s \in Now(p), s.op \in Raising \ {"launch"},
         Raise(p) \/ (Advances(p) /\ Claimed(p, s))
  PROVE  Turn(p, s)
<1>1. s.op \notin {"try", "launch", "skip"}
  BY DEF Raising
<1> QED
  BY <1>1, RaiseTurn, AdvanceTurn

(* The steps on an invocation's own memory. *)
LEMMA InwardTurn ==
  ASSUME WorldInv, NEW p \in Invocations, NEW s \in Now(p), Inward(p, s)
  PROVE  Turn(p, s)
<1>1. CASE TryStep(p, s)
  BY <1>1, TryTurn DEF TryStep
<1>2. CASE PinStep(p, s)
  <2>1. Advances(p) /\ s.op \notin {"try", "launch", "skip"}
    BY <1>2 DEF PinStep, Advances
  <2>2. Claimed(p, s)
    BY <1>2 DEF PinStep, Claimed
  <2> QED
    BY <2>1, <2>2, AdvanceTurn
<1>3. CASE MatchesStep(p, s)
  <2>1. s.op = "matches" /\ (Raise(p) \/ Advance(p))
    BY <1>3 DEF MatchesStep, Require
  <2>2. Claimed(p, s) /\ s.op \in Raising \ {"launch"}
    BY <2>1 DEF Claimed, Raising
  <2> QED
    BY <2>1, <2>2, RequireTurn DEF Advances
<1>4. CASE GateStep(p, s)
  <2>1. s.op = "gate" /\ (Raise(p) \/ Advance(p))
    BY <1>4 DEF GateStep
  <2>2. Claimed(p, s) /\ s.op \in Raising \ {"launch"}
    BY <2>1 DEF Claimed, Raising
  <2> QED
    BY <2>1, <2>2, RequireTurn DEF Advances
<1>5. CASE JudgeStep(p, s)
  BY <1>5, JudgeTurn DEF JudgeStep
<1>6. CASE SkipStep(p, s)
  <2>1. /\ s.op = "skip" /\ run' = [run EXCEPT ![p].at = run[p].at + 1 + s.past]
    BY <1>6 DEF SkipStep
  <2>2. s = ScriptOf(Experiment, run[p])[run[p].at]
    BY NowIs DEF AtStep
  <2>3. run[p].at + 1 + s.past \in After(ScriptOf(Experiment, run[p]), run[p].at)
    BY <2>1, <2>2 DEF After
  <2>4. Claimed(p, s) /\ s.op \notin {"try", "launch"}
    BY <2>1 DEF Claimed
  <2> QED
    BY <2>1, <2>3, <2>4, JumpTurn
<1> QED
  BY <1>1, <1>2, <1>3, <1>4, <1>5, <1>6 DEF Inward

(* The steps that look at the files. *)
LEMMA LookTurn ==
  ASSUME WorldInv, NEW p \in Invocations, NEW s \in Now(p),
         \/ FreshStep(p, s) \/ HashStep(p, s) \/ NamedStep(p, s) \/ FollowStep(p, s)
         \/ SameStep(p, s) \/ ListStep(p, s) \/ ReadStep(p, s) \/ TakeStep(p, s) \/ ValidatedStep(p, s)
  PROVE  Turn(p, s)
<1> USE DEF Require
<1>1. CASE FreshStep(p, s)
  <2>1. s.op = "fresh" /\ (Raise(p) \/ ((\A f \in s.over : ~Exists(f)) /\ Advance(p)))
    BY <1>1 DEF FreshStep
  <2>2. s.op \in Raising \ {"launch"} /\ ((\A f \in s.over : ~Exists(f)) => Claimed(p, s))
    BY <2>1 DEF Claimed, Raising
  <2> QED
    BY <2>1, <2>2, RequireTurn DEF Advances
<1>2. CASE HashStep(p, s)
  <2>1. s.op = "hash" /\ (Raise(p) \/ \E saw : Keep(p, saw))
    BY <1>2, Zenon DEF HashStep
  <2>2. s.op \in Raising \ {"launch"} /\ Claimed(p, s)
    BY <2>1 DEF Claimed, Raising
  <2> QED
    BY <2>1, <2>2, RequireTurn DEF Advances
<1>3. CASE NamedStep(p, s)
  <2>1. s.op = "named" /\ (Raise(p) \/ \E saw : Keep(p, saw))
    BY <1>3, Zenon DEF NamedStep
  <2>2. s.op \in Raising \ {"launch"} /\ Claimed(p, s)
    BY <2>1 DEF Claimed, Raising
  <2> QED
    BY <2>1, <2>2, RequireTurn DEF Advances
<1>4. CASE FollowStep(p, s)
  <2>1. s.op = "follow" /\ (Raise(p) \/ \E saw : Keep(p, saw))
    BY <1>4, Zenon DEF FollowStep
  <2>2. s.op \in Raising \ {"launch"} /\ Claimed(p, s)
    BY <2>1 DEF Claimed, Raising
  <2> QED
    BY <2>1, <2>2, RequireTurn DEF Advances
<1>5. CASE SameStep(p, s)
  <2>1. s.op = "same" /\ (Raise(p) \/ Advance(p))
    BY <1>5, Zenon DEF SameStep
  <2>2. s.op \in Raising \ {"launch"} /\ Claimed(p, s)
    BY <2>1 DEF Claimed, Raising
  <2> QED
    BY <2>1, <2>2, RequireTurn DEF Advances
<1>6. CASE ListStep(p, s)
  <2>1. s.op = "list" /\ \E saw : Keep(p, saw)
    BY <1>6, Zenon DEF ListStep
  <2>2. s.op \notin {"try", "launch", "skip"} /\ Claimed(p, s)
    BY <2>1 DEF Claimed
  <2> QED
    BY <2>1, <2>2, AdvanceTurn DEF Advances
<1>7. CASE ReadStep(p, s)
  <2>1. /\ s.op = "read"
        /\ Raise(p) \/ run' = [run EXCEPT ![p].at = @ + 1, ![p].read = Read(p, s)]
    BY <1>7, Zenon DEF ReadStep
  <2>2. s.op \in Raising \ {"launch"} /\ Claimed(p, s)
    BY <2>1 DEF Claimed, Raising
  <2>3. Raise(p) \/ Advances(p)
    BY <2>1, Zenon DEF Advances
  <2> QED
    BY <2>2, <2>3, RequireTurn
<1>8. CASE TakeStep(p, s)
  <2> DEFINE new == Joined([f \in s.over |-> disk[f].ver], run[p].saw)
  <2>1. /\ s.op = "take"
        /\ Raise(p) \/ run' = [run EXCEPT ![p].at = @ + 1, ![p].read = Read(p, s), ![p].saw = new]
    BY <1>8, Zenon DEF TakeStep
  <2> HIDE DEF new
  <2>2. s.op \in Raising \ {"launch"} /\ Claimed(p, s)
    BY <2>1 DEF Claimed, Raising
  <2>3. Raise(p) \/ Advances(p)
    BY <2>1, Zenon DEF Advances
  <2> QED
    BY <2>2, <2>3, RequireTurn
<1>9. CASE ValidatedStep(p, s)
  <2>1. s.op = "validated" /\ (Raise(p) \/ Advance(p))
    BY <1>9, Zenon DEF ValidatedStep
  <2>2. s.op \in Raising \ {"launch"} /\ Claimed(p, s)
    BY <2>1 DEF Claimed, Raising
  <2> QED
    BY <2>1, <2>2, RequireTurn DEF Advances
<1> QED
  BY <1>1, <1>2, <1>3, <1>4, <1>5, <1>6, <1>7, <1>8, <1>9

(* The steps that change files, and those that branch. *)
LEMMA ActTurn ==
  ASSUME WorldInv, NEW p \in Invocations, NEW s \in Now(p),
         \/ LaunchStep(p, s) \/ SettleStep(p, s) \/ CreateStep(p, s) \/ PlaceStep(p, s) \/ FillStep(p, s)
         \/ DraftStep(p, s) \/ NoteStep(p, s) \/ TellStep(p, s) \/ FoundStep(p, s) \/ AcceptedStep(p, s)
  PROVE  Turn(p, s)
<1> USE DEF Require
<1>0. s = ScriptOf(Experiment, run[p])[run[p].at] /\ run[p].at \in Nat
  BY NowIs DEF AtStep, RunTyped
<1>1. CASE LaunchStep(p, s)
  <2>1. /\ s.op = "launch"
        /\ \/ run' = [run EXCEPT ![p].at = @ + 1, ![p].launched = TRUE, ![p].read = Read(p, s)]
           \/ Raise(p)
    BY <1>1 DEF LaunchStep
  <2>2. s.op \in Raising
    BY <2>1 DEF Raising
  <2> QED
    BY <2>1, <2>2, LaunchTurn, RaiseTurn
<1>2. CASE SettleStep(p, s)
  <2> DEFINE worse == \E f \in DOMAIN run[p].saw :
                        (s.over = {} \/ f \in s.over) /\ run[p].saw[f] # disk[f].ver
  <2>1. s.op = "settle" /\ run' = [run EXCEPT ![p].at = @ + 1, ![p].bad = @ \/ worse]
    BY <1>2 DEF SettleStep
  <2>2. worse \in BOOLEAN
    OBVIOUS
  <2> HIDE DEF worse
  <2> QED
    BY <2>1, <2>2, JudgeTurn
<1>3. CASE CreateStep(p, s)
  <2>1. s.op = "create" /\ (Raise(p) \/ (~Exists(s.by) /\ Advance(p)))
    BY <1>3, Zenon DEF CreateStep
  <2>2. s.op \in Raising \ {"launch"} /\ (~Exists(s.by) => Claimed(p, s))
    BY <2>1 DEF Claimed, Raising
  <2> QED
    BY <2>1, <2>2, RequireTurn DEF Advances
<1>4. CASE PlaceStep(p, s)
  <2>1. s.op = "place" /\ Advances(p)
    BY <1>4 DEF PlaceStep, Advances
  <2>2. s.op \notin {"try", "launch", "skip"} /\ Claimed(p, s)
    BY <2>1 DEF Claimed
  <2> QED
    BY <2>1, <2>2, AdvanceTurn
<1>5. CASE FillStep(p, s)
  <2>1. s.op = "fill" /\ \E saw : Keep(p, saw)
    BY <1>5, Zenon DEF FillStep
  <2>2. s.op \notin {"try", "launch", "skip"} /\ Claimed(p, s)
    BY <2>1 DEF Claimed
  <2> QED
    BY <2>1, <2>2, AdvanceTurn DEF Advances
<1>6. CASE DraftStep(p, s)
  <2>1. s.op = "draft" /\ Advances(p)
    BY <1>6 DEF DraftStep, Advances
  <2>2. s.op \notin {"try", "launch", "skip"} /\ Claimed(p, s)
    BY <2>1 DEF Claimed
  <2> QED
    BY <2>1, <2>2, AdvanceTurn
<1>7. CASE NoteStep(p, s)
  <2>1. s.op = "note" /\ Advances(p)
    BY <1>7 DEF NoteStep, Advances
  <2>2. s.op \notin {"try", "launch", "skip"} /\ Claimed(p, s)
    BY <2>1 DEF Claimed
  <2> QED
    BY <2>1, <2>2, AdvanceTurn
<1>8. CASE TellStep(p, s)
  <2>1. s.op = "tell" /\ Advances(p)
    BY <1>8 DEF TellStep, Advances
  <2>2. s.op \notin {"try", "launch", "skip"} /\ Claimed(p, s)
    BY <2>1 DEF Claimed
  <2> QED
    BY <2>1, <2>2, AdvanceTurn
<1>9. CASE FoundStep(p, s)
  <2> DEFINE i == run[p].at + 1 + (IF Exists(s.by) THEN 0 ELSE s.past)
  <2>1. s.op = "found" /\ run' = [run EXCEPT ![p].at = i]
    BY <1>9 DEF FoundStep
  <2>2. i \in After(ScriptOf(Experiment, run[p]), run[p].at)
    BY <1>0, <2>1 DEF After
  <2>3. run'[p].at # run[p].at + 1 => ~Exists(s.by)
    <3>1. DOMAIN run = Invocations /\ DOMAIN run[p] = Fields
      BY DEF WorldInv, RunTyped
    <3>2. run'[p].at = i
      BY <2>1, <3>1 DEF Fields
    <3>3. Exists(s.by) => i = run[p].at + 1
      BY <1>0
    <3> QED
      BY <3>2, <3>3
  <2>4. Claimed(p, s) /\ s.op \notin {"try", "launch"}
    BY <2>1, <2>3 DEF Claimed
  <2> HIDE DEF i
  <2> QED
    BY <2>1, <2>2, <2>4, JumpTurn
<1>10. CASE AcceptedStep(p, s)
  <2> DEFINE i == run[p].at + 1 + (IF Ok(s.by) THEN 0 ELSE s.past)
  <2>1. s.op = "accepted" /\ (Raise(p) \/ run' = [run EXCEPT ![p].at = i])
    BY <1>10, Zenon DEF AcceptedStep
  <2>2. i \in After(ScriptOf(Experiment, run[p]), run[p].at)
    BY <1>0, <2>1 DEF After
  <2>4. Claimed(p, s) /\ s.op \notin {"try", "launch"} /\ s.op \in Raising
    BY <2>1 DEF Claimed, Raising
  <2> HIDE DEF i
  <2> QED
    BY <2>1, <2>2, <2>4, JumpTurn, RaiseTurn
<1> QED
  BY <1>1, <1>2, <1>3, <1>4, <1>5, <1>6, <1>7, <1>8, <1>9, <1>10

(* Every step is a turn of its invocation. *)
LEMMA StepTurn ==
  ASSUME WorldInv, NEW p \in Invocations, NEW s \in Now(p), Inward(p, s) \/ Outward(p, s)
  PROVE  Turn(p, s)
BY InwardTurn, LookTurn, ActTurn DEF Outward
-----------------------------------------------------------------------------
(* What a step of invocation p does to everything but the invocations. *)
Moved(s, f) ==
    \/ disk'[f] = disk[f]
    \/ Writes(s, f) /\ disk'[f].ver > disk[f].ver
    \/ s.op \in {"create", "note"} /\ ~Exists(f) /\ disk'[f].ver = 1
Effect(p, s) ==
    /\ UNCHANGED <<bound, family>>
    /\ disk' \in [Files -> [ver : Nat, whole : BOOLEAN]]
    /\ \A f \in Files : Moved(s, f)
    /\ s.op = "create" => disk'[s.by].ver # 0
    /\ s.op \in {"fill", "draft"} => disk'[s.by].whole /\ disk'[s.by].ver # 0
    /\ \/ record' = record
       \/ /\ s.op \in {"fill", "draft"} /\ s.by \in Records
          /\ \E v : /\ v.ok \in BOOLEAN /\ (v.ok => s.op = "fill" /\ ~run[p].bad)
                    /\ record' = Joined(Entry(s.by, v), record)
    /\ DOMAIN known' \subseteq Files
    /\ \A f \in DOMAIN known' : known'[f] = disk[f].ver \/ (f \in DOMAIN known /\ known'[f] = known[f])
    /\ \/ launches' = launches
       \/ /\ s.op = "launch" /\ ~run[p].launched
          /\ launches' = [launches EXCEPT ![run[p].phase] = @ + 1]

(* A step names files of its experiment, and a draft is of a record. *)
LEMMA OverFiles ==
  ASSUME WorldInv, NEW p \in Invocations, NEW s \in Now(p)
  PROVE  /\ s.over \subseteq Files
         /\ s.op \in {"create", "place", "fill", "draft"} => s.by \in Files
         /\ s.op = "draft" => s.by \in Records
<1>1. /\ BookShaped(Experiment) /\ AtStep(Experiment, run[p], s)
  BY NowIs
<1> DEFINE x == run[p]
<1>2. /\ x.phase \in DOMAIN Experiment.phases /\ x.at \in DOMAIN ScriptOf(Experiment, x)
      /\ s = ScriptOf(Experiment, x)[x.at]
      /\ ScriptOf(Experiment, x) \in {Experiment.phases[x.phase].steps, Experiment.phases[x.phase].failing}
  BY <1>1 DEF AtStep, RunTyped, ScriptOf
<1>3. /\ s.over \in SUBSET Experiment.files
      /\ s.op \in {"create", "place", "fill", "draft"} => s.by \in Experiment.files
      /\ s.op = "draft" => s.by \in Experiment.records
  BY <1>1, <1>2, ScriptsAre
<1> QED
  BY <1>3 DEF Experiment, Files, Records

(* Steps that leave the files alone. *)
LEMMA QuietEffect ==
  ASSUME WorldInv, NEW p \in Invocations, NEW s \in Now(p),
         UNCHANGED <<bound, family, disk, record, known, launches>>,
         s.op \notin {"create", "fill", "draft"}
  PROVE  Effect(p, s)
BY DEF WorldInv, Effect, Moved

(* Writing over a file: a new version, and a verdict if it is a record. *)
LEMMA WriteEffect ==
  ASSUME WorldInv, NEW p \in Invocations, NEW s \in Now(p), NEW whole \in BOOLEAN,
         disk' = [disk EXCEPT ![s.by] = [ver |-> @.ver + 1, whole |-> whole]],
         UNCHANGED <<bound, family, known, launches>>,
         s.op \in {"place", "fill", "draft"}, s.op # "place" => whole,
         \/ record' = record
         \/ /\ s.op \in {"fill", "draft"} /\ s.by \in Records
            /\ \E v : /\ v.ok \in BOOLEAN /\ (v.ok => s.op = "fill" /\ ~run[p].bad)
                      /\ record' = Joined(Entry(s.by, v), record)
  PROVE  Effect(p, s)
<1>1. s.by \in Files
  BY OverFiles
<1>2. disk \in [Files -> [ver : Nat, whole : BOOLEAN]] /\ disk[s.by].ver \in Nat
  BY <1>1 DEF WorldInv
<1>3. disk'[s.by] = [ver |-> disk[s.by].ver + 1, whole |-> whole]
  BY <1>1, <1>2
<1>4. \A f \in Files : f # s.by => disk'[f] = disk[f]
  BY <1>2
<1>5. [ver |-> disk[s.by].ver + 1, whole |-> whole] \in [ver : Nat, whole : BOOLEAN]
  <2>1. disk[s.by].ver + 1 \in Nat
    BY <1>2
  <2> QED
    BY <2>1
<1>6. disk' \in [Files -> [ver : Nat, whole : BOOLEAN]]
  BY <1>2, <1>5
<1>7. disk'[s.by].ver > disk[s.by].ver /\ disk'[s.by].ver # 0
  BY <1>2, <1>3
<1>8. disk'[s.by].whole = whole
  BY <1>3
<1>9. \A f \in Files : Moved(s, f)
  BY <1>4, <1>7 DEF Moved, Writes
<1>10. /\ DOMAIN known' \subseteq Files
       /\ \A f \in DOMAIN known' : known'[f] = disk[f].ver \/ (f \in DOMAIN known /\ known'[f] = known[f])
  BY DEF WorldInv
<1> QED
  BY <1>6, <1>7, <1>8, <1>9, <1>10 DEF Effect

(* An exclusive creation touches only a path that was not there. *)
LEMMA CreateEffect ==
  ASSUME WorldInv, NEW p \in Invocations, NEW s \in Now(p), CreateStep(p, s)
  PROVE  Effect(p, s)
<1>1. /\ s.op = "create"
      /\ disk' = IF Exists(s.by) THEN disk ELSE [disk EXCEPT ![s.by] = [ver |-> 1, whole |-> FALSE]]
      /\ UNCHANGED <<bound, family, record, known, launches>>
  BY Zenon DEF CreateStep
<1>2. s.by \in Files
  BY <1>1, OverFiles
<1>3. disk \in [Files -> [ver : Nat, whole : BOOLEAN]]
  BY DEF WorldInv
<1>4. /\ DOMAIN known' \subseteq Files
      /\ \A f \in DOMAIN known' : known'[f] = disk[f].ver \/ (f \in DOMAIN known /\ known'[f] = known[f])
  BY <1>1 DEF WorldInv
<1>5. CASE Exists(s.by)
  <2>1. disk' = disk /\ disk'[s.by].ver # 0
    BY <1>1, <1>5 DEF Exists
  <2>2. \A f \in Files : Moved(s, f)
    BY <2>1 DEF Moved
  <2> QED
    BY <1>1, <1>3, <1>4, <2>1, <2>2 DEF Effect
<1>6. CASE ~Exists(s.by)
  <2>1. disk' = [disk EXCEPT ![s.by] = [ver |-> 1, whole |-> FALSE]]
    BY <1>1, <1>6
  <2>2. disk' \in [Files -> [ver : Nat, whole : BOOLEAN]] /\ disk'[s.by].ver = 1
    BY <1>2, <1>3, <2>1
  <2>3. \A f \in Files : f # s.by => disk'[f] = disk[f]
    BY <1>3, <2>1
  <2>4. \A f \in Files : Moved(s, f)
    BY <1>1, <1>6, <2>2, <2>3 DEF Moved
  <2>5. disk'[s.by].ver # 0
    BY <2>2
  <2> QED
    BY <1>1, <1>4, <2>2, <2>4, <2>5 DEF Effect
<1> QED
  BY <1>5, <1>6

(* So does the note of a failure. *)
LEMMA NoteEffect ==
  ASSUME WorldInv, NEW p \in Invocations, NEW s \in Now(p), NoteStep(p, s)
  PROVE  Effect(p, s)
<1>1. /\ s.op = "note"
      /\ disk' = [f \in Files |-> IF f \in s.over /\ Exists(s.by) /\ ~Exists(f)
                                  THEN [ver |-> 1, whole |-> TRUE] ELSE disk[f]]
      /\ UNCHANGED <<bound, family, record, known, launches>>
  BY DEF NoteStep
<1>2. disk \in [Files -> [ver : Nat, whole : BOOLEAN]]
  BY DEF WorldInv
<1>3. disk' \in [Files -> [ver : Nat, whole : BOOLEAN]]
  <2>1. \A f \in Files : disk[f] \in [ver : Nat, whole : BOOLEAN]
    BY <1>2
  <2>2. [ver |-> 1, whole |-> TRUE] \in [ver : Nat, whole : BOOLEAN]
    OBVIOUS
  <2> QED
    BY <1>1, <2>1, <2>2
<1>4. \A f \in Files : disk'[f] = disk[f] \/ (~Exists(f) /\ disk'[f].ver = 1)
  BY <1>1
<1>5. \A f \in Files : Moved(s, f)
  BY <1>1, <1>4 DEF Moved
<1>6. /\ DOMAIN known' \subseteq Files
      /\ \A f \in DOMAIN known' : known'[f] = disk[f].ver \/ (f \in DOMAIN known /\ known'[f] = known[f])
  BY <1>1 DEF WorldInv
<1> QED
  BY <1>1, <1>3, <1>5, <1>6 DEF Effect

(* The operator is told versions that are on disk. *)
LEMMA TellEffect ==
  ASSUME WorldInv, NEW p \in Invocations, NEW s \in Now(p), TellStep(p, s)
  PROVE  Effect(p, s)
<1>1. /\ s.op = "tell"
      /\ known' = Joined([f \in s.over |-> disk[f].ver], known)
      /\ UNCHANGED <<bound, family, disk, record, launches>>
  BY DEF TellStep
<1>2. s.over \subseteq Files /\ DOMAIN known \subseteq Files
  BY OverFiles DEF WorldInv
<1>3. DOMAIN known' = s.over \cup DOMAIN known
  BY <1>1 DEF Joined
<1>4. \A f \in DOMAIN known' : known'[f] = disk[f].ver \/ (f \in DOMAIN known /\ known'[f] = known[f])
  BY <1>1 DEF Joined
<1>5. disk' \in [Files -> [ver : Nat, whole : BOOLEAN]] /\ \A f \in Files : Moved(s, f)
  BY <1>1 DEF WorldInv, Moved
<1> QED
  BY <1>1, <1>2, <1>3, <1>4, <1>5 DEF Effect

(* Every step has such an effect. *)
LEMMA StepEffect ==
  ASSUME WorldInv, NEW p \in Invocations, NEW s \in Now(p), Inward(p, s) \/ Outward(p, s)
  PROVE  Effect(p, s)
<1>1. CASE \/ Inward(p, s)      \/ FreshStep(p, s)  \/ HashStep(p, s) \/ NamedStep(p, s)
           \/ FollowStep(p, s)  \/ SameStep(p, s)   \/ ListStep(p, s) \/ ReadStep(p, s)
           \/ TakeStep(p, s)    \/ SettleStep(p, s) \/ FoundStep(p, s) \/ AcceptedStep(p, s)
           \/ ValidatedStep(p, s)
  <2>1. World' = World /\ s.op \notin {"create", "fill", "draft"}
    BY <1>1, Zenon DEF Inward, TryStep, PinStep, MatchesStep, GateStep, JudgeStep, SkipStep, FreshStep,
          HashStep, NamedStep, FollowStep, SameStep, ListStep, ReadStep, TakeStep, SettleStep,
          FoundStep, AcceptedStep, ValidatedStep
  <2>2. UNCHANGED <<bound, family, disk, record, known, launches>>
    BY <2>1 DEF World
  <2> QED
    BY <2>1, <2>2, QuietEffect
<1>2. CASE LaunchStep(p, s)
  <2>1. /\ s.op = "launch" /\ UNCHANGED <<bound, family, disk, record, known>>
        /\ \/ launches' = launches
           \/ ~run[p].launched /\ launches' = [launches EXCEPT ![run[p].phase] = @ + 1]
    BY <1>2 DEF LaunchStep
  <2> QED
    BY <2>1 DEF WorldInv, Effect, Moved
<1>3. CASE PlaceStep(p, s)
  BY <1>3, WriteEffect DEF PlaceStep
<1>4. CASE FillStep(p, s)
  <2>1. /\ s.op = "fill" /\ UNCHANGED <<bound, family, known, launches>>
        /\ disk' = [disk EXCEPT ![s.by] = [ver |-> @.ver + 1, whole |-> TRUE]]
        /\ record' = IF s.by \in Records THEN Joined(Entry(s.by, Verdict(p)), record) ELSE record
    BY <1>4, Zenon DEF FillStep
  <2>2. Verdict(p).ok = ~run[p].bad /\ Verdict(p).ok \in BOOLEAN
    BY DEF Verdict
  <2> QED
    BY <2>1, <2>2, WriteEffect
<1>5. CASE DraftStep(p, s)
  <2> DEFINE v == [Verdict(p) EXCEPT !.ok = FALSE]
  <2>1. /\ s.op = "draft" /\ UNCHANGED <<bound, family, known, launches>>
        /\ disk' = [disk EXCEPT ![s.by] = [ver |-> @.ver + 1, whole |-> TRUE]]
        /\ record' = Joined(Entry(s.by, v), record)
    BY <1>5, Zenon DEF DraftStep
  <2>2. v.ok = FALSE
    BY DEF Verdict
  <2>3. s.by \in Records
    BY <2>1, OverFiles
  <2> HIDE DEF v
  <2> QED
    BY <2>1, <2>2, <2>3, WriteEffect
<1> QED
  BY <1>1, <1>2, <1>3, <1>4, <1>5, CreateEffect, NoteEffect, TellEffect DEF Outward

(* Versions only grow, and a record is the one there was or a new verdict. *)
LEMMA EffectGrows ==
  ASSUME WorldInv, NEW p \in Invocations, NEW s \in Now(p), Effect(p, s)
  PROVE  /\ \A f \in Files : disk'[f].ver >= disk[f].ver /\ disk'[f].ver \in Nat
         /\ \A f \in Files : Exists(f) => disk'[f].ver # 0
         /\ \A f \in Files : disk'[f].whole => disk'[f].ver # 0
<1>1. disk \in [Files -> [ver : Nat, whole : BOOLEAN]] /\ \A f \in Files : disk[f].whole => Exists(f)
  BY DEF WorldInv
<1>2. disk' \in [Files -> [ver : Nat, whole : BOOLEAN]] /\ \A f \in Files : Moved(s, f)
  BY DEF Effect
<1>3. SUFFICES ASSUME NEW f \in Files
               PROVE  /\ disk'[f].ver >= disk[f].ver /\ disk'[f].ver \in Nat
                      /\ Exists(f) => disk'[f].ver # 0
                      /\ disk'[f].whole => disk'[f].ver # 0
  OBVIOUS
<1>4. disk[f].ver \in Nat /\ disk'[f].ver \in Nat /\ Moved(s, f)
  BY <1>1, <1>2
<1>5. CASE disk'[f] = disk[f]
  BY <1>1, <1>4, <1>5 DEF Exists
<1>6. CASE disk'[f].ver > disk[f].ver
  BY <1>4, <1>6
<1>7. CASE ~Exists(f) /\ disk'[f].ver = 1
  BY <1>4, <1>7 DEF Exists
<1> QED
  BY <1>4, <1>5, <1>6, <1>7 DEF Moved

(* The verdicts after a step are those before it, but for the one it filled. *)
LEMMA EffectRecord ==
  ASSUME WorldInv, NEW p \in Invocations, NEW s \in Now(p), Effect(p, s)
  PROVE  /\ DOMAIN record' \subseteq Records
         /\ DOMAIN record \subseteq DOMAIN record'
         /\ \A r \in DOMAIN record' :
               \/ r \in DOMAIN record /\ record'[r] = record[r]
               \/ /\ s.op \in {"fill", "draft"} /\ s.by = r
                  /\ record'[r].ok \in BOOLEAN /\ (record'[r].ok => s.op = "fill" /\ ~run[p].bad)
                  /\ disk'[r].whole /\ disk'[r].ver # 0
<1>1. CASE record' = record
  BY <1>1 DEF WorldInv
<1>2. CASE record' # record
  <2>1. /\ s.op \in {"fill", "draft"} /\ s.by \in Records
        /\ disk'[s.by].whole /\ disk'[s.by].ver # 0
    BY <1>2 DEF Effect
  <2>2. PICK v : /\ v.ok \in BOOLEAN /\ (v.ok => s.op = "fill" /\ ~run[p].bad)
                 /\ record' = Joined(Entry(s.by, v), record)
    BY <1>2 DEF Effect
  <2>3. DOMAIN record' = {s.by} \cup DOMAIN record
    BY <2>2 DEF Joined, Entry
  <2>4. \A r \in DOMAIN record' : record'[r] = IF r = s.by THEN v ELSE record[r]
    BY <2>2 DEF Joined, Entry
  <2>5. DOMAIN record \subseteq Records
    BY DEF WorldInv
  <2> QED
    BY <2>1, <2>2, <2>3, <2>4, <2>5
<1> QED
  BY <1>1, <1>2

(* Every step keeps the world as it should be. *)
LEMMA StepWorld ==
  ASSUME WorldInv, NEW p \in Invocations, NEW s \in Now(p), Turn(p, s), Effect(p, s)
  PROVE  WorldInv'
<1>1. /\ BookShaped(Experiment) /\ AtStep(Experiment, run[p], s)
  BY NowIs
<1>2. bound' = bound /\ family' = family
  BY DEF Effect
<1>3. Files' = Files /\ Records' = Records /\ Phases' = Phases /\ Invocations' = Invocations /\ Experiment' = Experiment
  BY <1>2 DEF Files, Records, Phases, Invocations, Experiment
<1>4. Records \subseteq Files
  BY <1>1 DEF BookShaped, Experiment, Records, Files
<1>5. bound' \in Scenarios /\ family' \in bound'.families
  BY <1>2 DEF WorldInv
<1>6. /\ \A f \in Files : disk'[f].ver >= disk[f].ver /\ disk'[f].ver \in Nat
      /\ \A f \in Files : Exists(f) => disk'[f].ver # 0
      /\ \A f \in Files : disk'[f].whole => disk'[f].ver # 0
  BY EffectGrows
<1>7. disk' \in [Files -> [ver : Nat, whole : BOOLEAN]]
  BY DEF Effect
<1>8. /\ DOMAIN record' \subseteq Records
      /\ \A r \in DOMAIN record' : disk'[r].ver # 0 /\ record'[r].ok \in BOOLEAN
  <2>1. /\ DOMAIN record \subseteq Records
        /\ \A r \in DOMAIN record : Exists(r) /\ record[r].ok \in BOOLEAN
    BY DEF WorldInv
  <2> QED
    BY <1>4, <1>6, <2>1, EffectRecord
<1>9. /\ DOMAIN known' \subseteq Files
      /\ \A f \in DOMAIN known' : known'[f] \in Nat /\ known'[f] <= disk'[f].ver
  <2>1. /\ DOMAIN known' \subseteq Files
        /\ \A f \in DOMAIN known' : known'[f] = disk[f].ver \/ (f \in DOMAIN known /\ known'[f] = known[f])
    BY DEF Effect
  <2>2. disk \in [Files -> [ver : Nat, whole : BOOLEAN]]
    BY DEF WorldInv
  <2>3. \A f \in DOMAIN known : known[f] \in Nat /\ known[f] <= disk[f].ver
    BY DEF WorldInv
  <2>4. SUFFICES ASSUME NEW f \in DOMAIN known' PROVE known'[f] \in Nat /\ known'[f] <= disk'[f].ver
    BY <2>1
  <2>5. disk[f].ver \in Nat /\ disk'[f].ver \in Nat /\ disk'[f].ver >= disk[f].ver
    BY <1>6, <2>1, <2>2
  <2>6. known'[f] \in Nat /\ known'[f] <= disk[f].ver
    BY <2>1, <2>3, <2>5
  <2> QED
    BY <2>5, <2>6
<1>10. /\ DOMAIN run' = Invocations
       /\ \A q \in Invocations : RunTyped(Experiment, run'[q]) /\ TriesWhere(Experiment, run'[q])
  <2>1. \A q \in Invocations : RunTyped(Experiment, run[q]) /\ TriesWhere(Experiment, run[q])
    BY DEF WorldInv
  <2>2. TriesWhere(Experiment, run'[p])
    BY <1>1, HandlesStep DEF Turn
  <2> QED
    BY <2>1, <2>2 DEF Turn
<1>11. launches' \in [Phases -> Nat]
  <2>1. launches \in [Phases -> Nat]
    BY DEF WorldInv
  <2>2. \A ph \in Phases : launches[ph] + 1 \in Nat
    BY <2>1
  <2> QED
    BY <2>1, <2>2 DEF Effect
<1>12. \A f \in Files : disk'[f].whole => disk'[f].ver # 0
  BY <1>6
<1> QED
  BY <1>3, <1>5, <1>7, <1>8, <1>9, <1>10, <1>11, <1>12 DEF WorldInv, Exists
-----------------------------------------------------------------------------
(* What the operator and the editor do: an invocation starts or is gone,   *)
(* a data file has a new version.                                          *)
Visits(p) ==
    /\ UNCHANGED <<bound, family, disk, record, known, launches>>
    /\ DOMAIN run' = Invocations
    /\ \A q \in Invocations : q # p => run'[q] = run[q]
    /\ RunTyped(Experiment, run'[p]) /\ ~run'[p].try
    /\ run'[p].phase # "" => run'[p].at = 1 /\ ~run'[p].failing
Edited(f) ==
    /\ UNCHANGED <<bound, family, record, known, run, launches>>
    /\ f \in Experiment.editable
    /\ disk' \in [Files -> [ver : Nat, whole : BOOLEAN]]
    /\ \A g \in Files : g # f => disk'[g] = disk[g]
    /\ disk'[f].ver = disk[f].ver + 1
Steps(p, s) == Turn(p, s) /\ Effect(p, s)

(* An invocation is through or killed. *)
LEMMA LeaveVisits ==
  ASSUME WorldInv, NEW p \in Invocations, run' = [run EXCEPT ![p] = Idle],
         UNCHANGED <<bound, family, disk, record, known, launches>>
  PROVE  Visits(p)
<1>1. DOMAIN run = Invocations
  BY DEF WorldInv
<1>2. RunTyped(Experiment, Idle) /\ ~Idle.try /\ Idle.phase = ""
  BY DEF RunTyped, Idle, Fields
<1> HIDE DEF Idle
<1> QED
  BY <1>1, <1>2 DEF Visits

(* An invocation starts at its first step. *)
LEMMA StartVisits ==
  ASSUME WorldInv, NEW p \in Invocations, NEW ph \in Phases, Start(p, ph)
  PROVE  Visits(p)
<1>1. DOMAIN run = Invocations /\ RunTyped(Experiment, run[p]) /\ DOMAIN run[p] = Fields
  BY DEF WorldInv, RunTyped
<1>2. /\ run[p].phase = "" /\ run' = [run EXCEPT ![p].phase = ph, ![p].at = 1]
      /\ UNCHANGED <<bound, family, disk, record, known, launches>>
  BY DEF Start
<1> DEFINE y == [run[p] EXCEPT !.phase = ph, !.at = 1]
<1>3. run' = [run EXCEPT ![p] = y]
  BY <1>1, <1>2
<1>4. /\ DOMAIN y = Fields /\ y.phase = ph /\ y.at = 1 /\ y.try = run[p].try
      /\ y.failing = run[p].failing /\ y.bad = run[p].bad /\ y.launched = run[p].launched
  BY <1>1 DEF Fields
<1> HIDE DEF y
<1>5. ~run[p].failing /\ ~run[p].try
  BY <1>1, <1>2 DEF RunTyped
<1>6. run[p].bad \in BOOLEAN /\ run[p].launched \in BOOLEAN
  BY <1>1 DEF RunTyped
<1>7. ph \in DOMAIN Experiment.phases /\ ph # ""
  <2>1. BookShaped(Experiment)
    BY BookAssumption DEF WorldInv, Experiment
  <2> QED
    BY <2>1 DEF BookShaped, Phases, Experiment
<1>8. y.at \in Nat /\ y.at # 0
  <2>1. y.at = 1
    BY <1>4
  <2> QED
    BY <2>1
<1>9. RunTyped(Experiment, y)
  <2>1. y.phase \in DOMAIN Experiment.phases \cup {""} /\ y.phase # ""
    BY <1>4, <1>7
  <2>2. y.try = FALSE /\ y.failing = FALSE
    <3>1. run[p].try \in BOOLEAN /\ run[p].failing \in BOOLEAN
      BY <1>1 DEF RunTyped
    <3> QED
      BY <1>4, <1>5, <3>1
  <2>3. y.bad \in BOOLEAN /\ y.launched \in BOOLEAN
    BY <1>4, <1>6
  <2>4. DOMAIN y = Fields
    BY <1>4
  <2> QED
    BY <1>8, <2>1, <2>2, <2>3, <2>4 DEF RunTyped
<1> QED
  BY <1>1, <1>2, <1>3, <1>4, <1>5, <1>9 DEF Visits

(* An edit is of a data file. *)
LEMMA EditEdited ==
  ASSUME WorldInv, NEW f \in Files, Edit(f)
  PROVE  Edited(f)
<1>1. /\ f \in Experiment.editable /\ disk' = [disk EXCEPT ![f].ver = @ + 1]
      /\ UNCHANGED <<bound, family, record, known, run, launches>>
  BY DEF Edit, Experiment
<1>2. disk \in [Files -> [ver : Nat, whole : BOOLEAN]]
  BY DEF WorldInv
<1>3. disk[f].ver + 1 \in Nat
  BY <1>2
<1>4. disk' \in [Files -> [ver : Nat, whole : BOOLEAN]] /\ disk'[f].ver = disk[f].ver + 1
  BY <1>1, <1>2, <1>3
<1>5. \A g \in Files : g # f => disk'[g] = disk[g]
  BY <1>1, <1>2
<1> QED
  BY <1>1, <1>4, <1>5 DEF Edited

(* A step of the system is one of these. *)
LEMMA NextIs ==
  ASSUME WorldInv, Next
  PROVE  \/ \E p \in Invocations : \E s \in Now(p) : Steps(p, s)
         \/ \E p \in Invocations : Visits(p)
         \/ \E f \in Files : Edited(f)
<1>1. \/ \E p \in Invocations : \E s \in Now(p) : Inward(p, s) \/ Outward(p, s)
      \/ \E p \in Invocations : (\E ph \in Phases : Start(p, ph)) \/ Finish(p) \/ Kill(p)
      \/ \E f \in Files : Edit(f)
  BY DEF Next
<1>2. ASSUME NEW p \in Invocations, NEW s \in Now(p), Inward(p, s) \/ Outward(p, s)
      PROVE  Steps(p, s)
  BY <1>2, StepTurn, StepEffect DEF Steps
<1>3. ASSUME NEW p \in Invocations, (\E ph \in Phases : Start(p, ph)) \/ Finish(p) \/ Kill(p)
      PROVE  Visits(p)
  <2>1. CASE \E ph \in Phases : Start(p, ph)
    BY <2>1, StartVisits
  <2>2. CASE Finish(p) \/ Kill(p)
    BY <2>2, LeaveVisits DEF Finish, Kill, World
  <2> QED
    BY <1>3, <2>1, <2>2
<1> QED
  BY <1>1, <1>2, <1>3, EditEdited

(* WorldInv is inductive. *)
LEMMA InitWorld ==
  ASSUME Init
  PROVE  WorldInv
<1>1. bound \in Scenarios /\ family \in bound.families /\ BookShaped(Experiment)
  BY BookAssumption DEF Init, Experiment
<1>2. disk = [f \in Files |-> IF f \in Book[family].given THEN [ver |-> 1, whole |-> TRUE]
                                                          ELSE [ver |-> 0, whole |-> FALSE]]
  BY DEF Init
<1>3. disk \in [Files -> [ver : Nat, whole : BOOLEAN]] /\ \A f \in Files : disk[f].whole => Exists(f)
  <2>1. [ver |-> 1, whole |-> TRUE] \in [ver : Nat, whole : BOOLEAN] /\ [ver |-> 0, whole |-> FALSE] \in [ver : Nat, whole : BOOLEAN]
    OBVIOUS
  <2> QED
    BY <1>2, <2>1 DEF Exists
<1>4. DOMAIN record = {}
  BY DEF Init, Nothing
<1>5. DOMAIN known \subseteq Files /\ \A f \in DOMAIN known : known[f] \in Nat /\ known[f] <= disk[f].ver
  <2>1. known = [f \in Book[family].given |-> 1] /\ Book[family].given \subseteq Files
    BY <1>1 DEF Init, BookShaped, Experiment, Files
  <2>2. \A f \in Book[family].given : disk[f].ver = 1
    BY <1>2, <2>1
  <2> QED
    BY <2>1, <2>2
<1>6. DOMAIN run = Invocations /\ \A p \in Invocations : run[p] = Idle
  BY DEF Init
<1>7. RunTyped(Experiment, Idle) /\ TriesWhere(Experiment, Idle)
  BY DEF RunTyped, TriesWhere, Idle, Fields
<1>8. launches \in [Phases -> Nat]
  BY DEF Init
<1> QED
  BY <1>1, <1>3, <1>4, <1>5, <1>6, <1>7, <1>8 DEF WorldInv

(* The steps, the operator and the editor keep the world as it should be. *)
LEMMA NextWorld ==
  ASSUME WorldInv, [Next]_vars
  PROVE  WorldInv'
<1>1. ASSUME NEW p \in Invocations, NEW s \in Now(p), Steps(p, s)
      PROVE  WorldInv'
  BY <1>1, StepWorld DEF Steps
<1>2. ASSUME NEW p \in Invocations, Visits(p)
      PROVE  WorldInv'
  <2>1. UNCHANGED <<bound, family, disk, record, known, launches>>
    BY <1>2 DEF Visits
  <2>2. DOMAIN run' = Invocations /\ \A q \in Invocations : RunTyped(Experiment, run'[q]) /\ TriesWhere(Experiment, run'[q])
    BY <1>2 DEF WorldInv, Visits, TriesWhere
  <2> QED
    BY <2>1, <2>2 DEF WorldInv, Exists, Files, Records, Phases, Invocations, Experiment
<1>3. ASSUME NEW f \in Files, Edited(f)
      PROVE  WorldInv'
  <2>1. UNCHANGED <<bound, family, record, known, run, launches>>
    BY <1>3 DEF Edited
  <2>2. disk' \in [Files -> [ver : Nat, whole : BOOLEAN]]
    BY <1>3 DEF Edited
  <2>3. disk \in [Files -> [ver : Nat, whole : BOOLEAN]] /\ \A g \in Files : disk[g].whole => Exists(g)
    BY DEF WorldInv
  <2>4. \A g \in Files : disk'[g].ver \in Nat /\ disk[g].ver \in Nat /\ disk'[g].ver >= disk[g].ver
    BY <1>3, <2>2, <2>3 DEF Edited
  <2>5. \A g \in Files : (Exists(g) \/ disk'[g] # disk[g]) => disk'[g].ver # 0
    BY <1>3, <2>2, <2>3, <2>4 DEF Edited, Exists
  <2>6. BookShaped(Experiment)
    BY BookAssumption DEF WorldInv, Experiment
  <2>7. \A r \in DOMAIN record : disk'[r].ver # 0
    BY <2>5, <2>6 DEF WorldInv, BookShaped, Experiment, Records, Files
  <2>8. \A g \in DOMAIN known : known[g] <= disk'[g].ver
    BY <2>4 DEF WorldInv
  <2>9. \A g \in Files : disk'[g].whole => disk'[g].ver # 0
    BY <2>3, <2>5
  <2> QED
    BY <2>1, <2>2, <2>7, <2>8, <2>9 DEF WorldInv, Exists, Files, Records, Phases, Invocations, Experiment
<1>4. ASSUME UNCHANGED vars
      PROVE  WorldInv'
  BY <1>4 DEF vars, WorldInv, Exists, Files, Records, Phases, Invocations, Experiment
<1> QED
  BY <1>1, <1>2, <1>3, <1>4, NextIs
-----------------------------------------------------------------------------
(* A record that is kept has one holder at most; while somebody holds it   *)
(* it does not say ok, and once it says ok it is whole and stays claimed.  *)
Holds(p, r) == HoldsNow(Experiment, run[p], r)
TokenOf(r)  == Token(Experiment, r)
AloneOf(r)  == Alone(Experiment, r)
RecordHeld(r) ==
    /\ \A p, q \in Invocations : Holds(p, r) /\ Holds(q, r) => p = q
    /\ \A p \in Invocations : Holds(p, r) /\ ~AloneOf(r) => Exists(TokenOf(r))
    /\ \A p \in Invocations : Holds(p, r) => ~Ok(r)
    /\ Ok(r) => disk[r].whole /\ Exists(TokenOf(r))
RecordsInv == \A r \in Experiment.kept : RecordHeld(r)

(* The rule gives every record that is kept a token. *)
LEMMA KeptIs ==
  ASSUME WorldInv, NEW r \in Experiment.kept
  PROVE  /\ BookShaped(Experiment) /\ Owned(Experiment, r, TokenOf(r), AloneOf(r))
         /\ r \in Files /\ r \in Records /\ r \notin Experiment.editable /\ TokenOf(r) \in Files
         /\ AloneOf(r) => TokenOf(r) = r /\ \A p, q \in Invocations : p = q
<1>1. BookShaped(Experiment)
  BY BookAssumption DEF WorldInv, Experiment
<1>2. r \in Files /\ r \in Records /\ r \notin Experiment.editable
  BY <1>1 DEF BookShaped, Experiment, Files, Records
<1>3. OwnedIn(bound, family, r)
  BY RecordsAssumption DEF WorldInv, Experiment
<1>4. (\E t \in Experiment.files : Owned(Experiment, r, t, FALSE)) \/ Owned(Experiment, r, r, TRUE)
  BY <1>3 DEF OwnedIn, Experiment
<1>5. /\ Owned(Experiment, r, TokenOf(r), AloneOf(r))
      /\ ~AloneOf(r) => TokenOf(r) \in Experiment.files
  BY <1>4, TokenOwns DEF TokenOf, AloneOf
<1>6. AloneOf(r) => TokenOf(r) = r
  BY DEF AloneOf, TokenOf, Token
<1>7. AloneOf(r) => bound.invocations = 1
  BY <1>3 DEF OwnedIn, AloneOf, Alone, Experiment
<1>8. AloneOf(r) => \A p, q \in Invocations : p = q
  BY <1>7 DEF Invocations
<1> QED
  BY <1>1, <1>2, <1>5, <1>6, <1>8 DEF Experiment, Files

(* Whoever comes to hold r by a step claimed it: its token was not there.  *)
LEMMA ComesToHold ==
  ASSUME WorldInv, NEW r \in Experiment.kept, NEW p \in Invocations, NEW s \in Now(p), Steps(p, s),
         HoldsNow(Experiment, run'[p], r)
  PROVE  \/ Holds(p, r) /\ (s.op = "fill" /\ s.by = r => run[p].failing)
         \/ /\ ~Exists(TokenOf(r)) /\ s.op \notin {"fill", "draft"}
            /\ ~AloneOf(r) => disk'[TokenOf(r)].ver # 0
<1>1. /\ BookShaped(Experiment) /\ Owned(Experiment, r, TokenOf(r), AloneOf(r))
      /\ AloneOf(r) => TokenOf(r) = r
  BY KeptIs
<1>2. AtStep(Experiment, run[p], s) /\ s = ScriptOf(Experiment, run[p])[run[p].at]
  BY NowIs DEF AtStep
<1>3. Goes(Experiment, s, run[p], run'[p]) \/ Throws(s, run[p], run'[p])
  BY DEF Steps, Turn
<1> DEFINE claims == Claims(ScriptOf(Experiment, run[p]), run[p].at, run'[p].at, r, TokenOf(r), AloneOf(r))
<1>4. \/ Holds(p, r) /\ (s.op = "fill" /\ s.by = r => run[p].failing)
      \/ Goes(Experiment, s, run[p], run'[p]) /\ claims
  BY <1>1, <1>2, <1>3, HoldsStep DEF Holds, TokenOf, AloneOf
<1>5. ASSUME Goes(Experiment, s, run[p], run'[p]), claims
      PROVE  /\ ~Exists(TokenOf(r)) /\ s.op \notin {"fill", "draft"}
             /\ ~AloneOf(r) => disk'[TokenOf(r)].ver # 0
  <2>1. ~Throws(s, run[p], run'[p])
    <3>1. run[p].phase # ""
      BY <1>2 DEF AtStep
    <3>2. Idle.phase = ""
      BY DEF Idle
    <3> QED
      BY <1>5, <3>1, <3>2 DEF Throws, Goes
  <2>2. Claimed(p, s)
    BY <2>1 DEF Steps, Turn
  <2>3. \/ s.op = "create" /\ s.by = TokenOf(r)
        \/ AloneOf(r) /\ s.op = "fresh" /\ r \in s.over
        \/ AloneOf(r) /\ s.op = "found" /\ s.by = r /\ run'[p].at # run[p].at + 1
    BY <1>2, <1>5 DEF Claims
  <2>4. s.op = "create" => disk'[s.by].ver # 0
    BY DEF Steps, Effect
  <2> QED
    BY <1>1, <2>2, <2>3, <2>4 DEF Claimed
<1> QED
  BY <1>4, <1>5

(* A step that writes over r is one of its holder. *)
LEMMA WriterIs ==
  ASSUME WorldInv, NEW r \in Experiment.kept, NEW p \in Invocations, NEW s \in Now(p), Writes(s, r)
  PROVE  Holds(p, r)
BY KeptIs, NowIs, WriterHolds DEF Holds, TokenOf, AloneOf

(* What says ok is not written over. *)
LEMMA OkStays ==
  ASSUME WorldInv, NEW r \in Experiment.kept, RecordHeld(r), Ok(r),
         NEW p \in Invocations, NEW s \in Now(p), Steps(p, s)
  PROVE  /\ disk'[r] = disk[r] /\ r \in DOMAIN record' /\ record'[r] = record[r]
         /\ ~Writes(s, r)
<1>1. r \in Files
  BY KeptIs
<1>2. ~Writes(s, r)
  BY WriterIs DEF RecordHeld
<1>3. disk[r].whole /\ Exists(r)
  BY <1>1 DEF RecordHeld, WorldInv
<1>4. disk'[r] = disk[r]
  BY <1>1, <1>2, <1>3 DEF Steps, Effect, Moved
<1>5. r \in DOMAIN record' /\ record'[r] = record[r]
  <2>1. r \in DOMAIN record
    BY DEF Ok
  <2>2. ~(s.op \in {"fill", "draft"} /\ s.by = r)
    BY <1>2 DEF Writes
  <2> QED
    BY <2>1, <2>2, EffectRecord DEF Steps
<1> QED
  BY <1>2, <1>4, <1>5

(* Every step keeps a record held as it should be. *)
LEMMA StepRecord ==
  ASSUME WorldInv, NEW r \in Experiment.kept, RecordHeld(r),
         NEW p \in Invocations, NEW s \in Now(p), Steps(p, s)
  PROVE  RecordHeld(r)'
<1> DEFINE h(q)  == Holds(q, r)
           n(q)  == HoldsNow(Experiment, run'[q], r)
           t     == TokenOf(r)
           alone == AloneOf(r)
           ok    == r \in DOMAIN record' /\ record'[r].ok
<1>1. /\ t \in Files /\ r \in Files
      /\ alone => t = r /\ \A q, u \in Invocations : q = u
  BY KeptIs
<1>2. \A q \in Invocations : q # p => (n(q) <=> h(q))
  BY DEF Steps, Turn, Holds
<1>3. n(p) => \/ h(p) /\ (s.op = "fill" /\ s.by = r => run[p].failing)
              \/ ~Exists(t) /\ s.op \notin {"fill", "draft"} /\ (~alone => disk'[t].ver # 0)
  BY ComesToHold
<1>4. Exists(t) => disk'[t].ver # 0
  BY <1>1, EffectGrows DEF Steps
<1>5. /\ \A q, u \in Invocations : h(q) /\ h(u) => q = u
      /\ \A q \in Invocations : h(q) /\ ~alone => Exists(t)
      /\ \A q \in Invocations : h(q) => ~Ok(r)
      /\ Ok(r) => disk[r].whole /\ Exists(t)
  BY DEF RecordHeld
<1>6. Ok(r) => disk'[r] = disk[r]
  BY OkStays
<1>7. ok => \/ Ok(r)
            \/ h(p) /\ s.op = "fill" /\ s.by = r /\ ~run[p].bad /\ disk'[r].whole /\ disk'[r].ver # 0
  <2>1. ASSUME ok, ~Ok(r)
        PROVE  h(p) /\ s.op = "fill" /\ s.by = r /\ ~run[p].bad /\ disk'[r].whole /\ disk'[r].ver # 0
    <3>1. ~(r \in DOMAIN record /\ record'[r] = record[r])
      BY <2>1 DEF Ok
    <3>2. /\ s.op \in {"fill", "draft"} /\ s.by = r
          /\ record'[r].ok => s.op = "fill" /\ ~run[p].bad
          /\ disk'[r].whole /\ disk'[r].ver # 0
      BY <2>1, <3>1, EffectRecord DEF Steps
    <3>3. Writes(s, r)
      BY <3>2 DEF Writes
    <3>4. h(p)
      BY <3>3, WriterIs
    <3> QED
      BY <2>1, <3>2, <3>4
  <2> QED
    BY <2>1
<1>8. run[p].failing => run[p].bad
  BY DEF WorldInv, RunTyped
<1> HIDE DEF h, n, t, alone
<1>9. \A q, u \in Invocations : n(q) /\ n(u) => q = u
  BY <1>1, <1>2, <1>3, <1>5
<1>10. \A q \in Invocations : n(q) /\ ~alone => disk'[t].ver # 0
  BY <1>2, <1>3, <1>4, <1>5
<1>11. \A q \in Invocations : n(q) => ~ok
  <2>1. SUFFICES ASSUME NEW q \in Invocations, n(q), ok PROVE FALSE
    OBVIOUS
  <2>2. CASE Ok(r)
    BY <1>2, <1>3, <1>5, <2>1, <2>2
  <2>3. CASE ~Ok(r)
    BY <1>2, <1>3, <1>5, <1>7, <1>8, <2>1, <2>3
  <2> QED
    BY <2>2, <2>3
<1>12. ok => disk'[r].whole /\ disk'[t].ver # 0
  BY <1>1, <1>4, <1>5, <1>6, <1>7
<1>13. Experiment' = Experiment /\ Invocations' = Invocations
  BY DEF Steps, Effect, Experiment, Invocations
<1>14. TokenOf(r)' = t /\ AloneOf(r)' = alone /\ \A q : Holds(q, r)' <=> n(q)
  BY <1>13 DEF TokenOf, AloneOf, Holds, n, t, alone
<1>15. Ok(r)' <=> ok
  BY DEF Ok
<1> QED
  BY <1>9, <1>10, <1>11, <1>12, <1>13, <1>14, <1>15 DEF RecordHeld, Exists

(* Nobody who starts holds r, and an edit is of another file. *)
LEMMA VisitRecord ==
  ASSUME WorldInv, NEW r \in Experiment.kept, RecordHeld(r), NEW p \in Invocations, Visits(p)
  PROVE  RecordHeld(r)'
<1>1. Experiment' = Experiment /\ Invocations' = Invocations
  BY DEF Visits, Experiment, Invocations
<1>2. ~HoldsNow(Experiment, run'[p], r)
  <2>1. SUFFICES ASSUME HoldsNow(Experiment, run'[p], r) PROVE FALSE
    OBVIOUS
  <2> DEFINE x == run'[p]
             c == Front(Experiment, r, x.phase)
  <2>2. x.phase # "" /\ x.at = 1 /\ ~x.failing /\ x.phase \in DOMAIN Experiment.phases
    BY <2>1 DEF Visits, HoldsNow, RunTyped
  <2>3. c \in 1..(Len(Experiment.phases[x.phase].steps) + 1)
    <3>1. Owned(Experiment, r, Token(Experiment, r), Alone(Experiment, r))
      BY KeptIs DEF TokenOf, AloneOf
    <3> QED
      BY <2>2, <3>1, BoundsAre
  <2>4. c < x.at
    BY <2>1, <2>2 DEF HoldsNow, Within
  <2>5. Len(Experiment.phases[x.phase].steps) \in Nat
    BY <2>2, KeptIs, ScriptsAre
  <2>6. \A i, k : k \in Nat /\ i \in 1..(k + 1) => ~(i < 1)
    OBVIOUS
  <2> HIDE DEF c, x
  <2> QED
    BY <2>2, <2>3, <2>4, <2>5, <2>6
<1>3. \A q \in Invocations : HoldsNow(Experiment, run'[q], r) => Holds(q, r)
  BY <1>2 DEF Visits, Holds
<1>4. /\ \A q : Holds(q, r)' <=> HoldsNow(Experiment, run'[q], r)
      /\ TokenOf(r)' = TokenOf(r) /\ AloneOf(r)' = AloneOf(r)
  BY <1>1 DEF Holds, TokenOf, AloneOf
<1>5. (Ok(r)' <=> Ok(r)) /\ (Exists(TokenOf(r))' <=> Exists(TokenOf(r))) /\ disk' = disk
  BY <1>4 DEF Visits, Ok, Exists
<1> QED
  BY <1>1, <1>3, <1>4, <1>5 DEF RecordHeld

(* An edit takes no claim away. *)
LEMMA EditRecord ==
  ASSUME WorldInv, NEW r \in Experiment.kept, RecordHeld(r), NEW f \in Files, Edited(f)
  PROVE  RecordHeld(r)'
<1>1. /\ Experiment' = Experiment /\ Invocations' = Invocations
      /\ run' = run /\ record' = record
  BY DEF Edited, Experiment, Invocations
<1>2. r \in Files /\ r # f /\ TokenOf(r) \in Files
  BY KeptIs DEF Edited
<1>3. disk'[r] = disk[r]
  BY <1>2 DEF Edited
<1>4. Exists(TokenOf(r)) => disk'[TokenOf(r)].ver # 0
  <2>1. disk[TokenOf(r)].ver \in Nat
    BY <1>2 DEF WorldInv
  <2>2. CASE TokenOf(r) = f
    BY <2>1, <2>2 DEF Edited
  <2>3. CASE TokenOf(r) # f
    BY <1>2, <2>3 DEF Edited, Exists
  <2> QED
    BY <2>2, <2>3
<1>5. /\ \A q : Holds(q, r)' <=> Holds(q, r)
      /\ TokenOf(r)' = TokenOf(r) /\ AloneOf(r)' = AloneOf(r)
  BY <1>1 DEF Holds, TokenOf, AloneOf
<1>6. (Ok(r)' <=> Ok(r)) /\ (Exists(TokenOf(r)) => Exists(TokenOf(r))')
  BY <1>1, <1>4, <1>5 DEF Ok, Exists
<1> QED
  BY <1>1, <1>3, <1>5, <1>6 DEF RecordHeld

(* A step of nothing keeps a record held as it was. *)
LEMMA StillRecord ==
  ASSUME WorldInv, NEW r \in Experiment.kept, RecordHeld(r), UNCHANGED vars
  PROVE  RecordHeld(r)'
<1>1. /\ Experiment' = Experiment /\ Invocations' = Invocations
      /\ run' = run /\ record' = record /\ disk' = disk
  BY DEF vars, Experiment, Invocations
<1>2. /\ \A q : Holds(q, r)' <=> Holds(q, r)
      /\ TokenOf(r)' = TokenOf(r) /\ AloneOf(r)' = AloneOf(r)
  BY <1>1 DEF Holds, TokenOf, AloneOf
<1>3. (Ok(r)' <=> Ok(r)) /\ (Exists(TokenOf(r))' <=> Exists(TokenOf(r)))
  BY <1>1, <1>2 DEF Ok, Exists
<1> QED
  BY <1>1, <1>2, <1>3 DEF RecordHeld

(* All records stay held as they should be. *)
LEMMA NextRecords ==
  ASSUME WorldInv, RecordsInv, [Next]_vars
  PROVE  RecordsInv'
<1>1. Experiment' = Experiment
  <2>1. CASE Next
    BY <2>1, NextIs DEF Steps, Effect, Visits, Edited, Experiment
  <2>2. CASE UNCHANGED vars
    BY <2>2 DEF vars, Experiment
  <2> QED
    BY <2>1, <2>2
<1>2. ASSUME NEW r \in Experiment.kept PROVE RecordHeld(r)'
  <2>1. RecordHeld(r)
    BY DEF RecordsInv
  <2>2. CASE \E p \in Invocations : \E s \in Now(p) : Steps(p, s)
    BY <2>1, <2>2, StepRecord
  <2>3. CASE \E p \in Invocations : Visits(p)
    BY <2>1, <2>3, VisitRecord
  <2>4. CASE \E f \in Files : Edited(f)
    BY <2>1, <2>4, EditRecord
  <2>5. CASE UNCHANGED vars
    BY <2>1, <2>5, StillRecord
  <2> QED
    BY <2>2, <2>3, <2>4, <2>5, NextIs
<1> QED
  BY <1>1, <1>2 DEF RecordsInv

(* Nobody holds a record before the first invocation. *)
LEMMA InitRecords ==
  ASSUME Init
  PROVE  RecordsInv
<1>1. SUFFICES ASSUME NEW r \in Experiment.kept PROVE RecordHeld(r)
  BY DEF RecordsInv
<1>2. \A p \in Invocations : ~Holds(p, r)
  BY DEF Init, Holds, HoldsNow, Idle
<1>3. ~Ok(r)
  BY DEF Init, Nothing, Ok
<1> QED
  BY <1>2, <1>3 DEF RecordHeld

(***************************************************************************)
(* The type invariant of Evidence: a record that its writer never replaces *)
(* is whole whenever it says ok, whatever is interrupted.                  *)
(***************************************************************************)
THEOREM EvidenceTyped == Spec => []TypeOK
<1>1. Init => WorldInv /\ RecordsInv
  BY InitWorld, InitRecords
<1>2. WorldInv /\ RecordsInv /\ [Next]_vars => (WorldInv /\ RecordsInv)'
  BY NextWorld, NextRecords
<1>3. WorldInv /\ RecordsInv => TypeOK
  <2>1. SUFFICES ASSUME WorldInv, RecordsInv PROVE TypeOK
    OBVIOUS
  <2>2. \A r \in DOMAIN record : r \in Records /\ Exists(r)
    BY <2>1 DEF WorldInv
  <2>3. ASSUME NEW r \in DOMAIN record, r \in Book[family].kept PROVE Accepted(r) \/ ~Ok(r)
    <3>1. RecordHeld(r)
      BY <2>1, <2>3 DEF RecordsInv, Experiment
    <3> QED
      BY <3>1 DEF RecordHeld, Accepted
  <2>4. \A p \in Invocations : run[p].phase \in Phases \cup {""}
    BY <2>1 DEF WorldInv, RunTyped, Phases, Experiment
  <2> QED
    BY <2>1, <2>2, <2>3, <2>4 DEF TypeOK, WorldInv
<1> QED
  BY <1>1, <1>2, <1>3, PTL DEF Spec

(***************************************************************************)
(* Once a record that is kept is whole and says ok, neither a later nor a  *)
(* rival invocation, nor one that fails, writes it again.                  *)
(***************************************************************************)
THEOREM AcceptedRecordsStay == Spec => RecordsStay
<1> DEFINE Stays == \A r \in DOMAIN record \cap Book[family].kept : Accepted(r) =>
                       disk'[r] = disk[r] /\ record'[r] = record[r]
<1>1. Init => WorldInv /\ RecordsInv
  BY InitWorld, InitRecords
<1>2. WorldInv /\ RecordsInv /\ [Next]_vars => (WorldInv /\ RecordsInv)'
  BY NextWorld, NextRecords
<1>3. WorldInv /\ RecordsInv /\ [Next]_vars => [Stays]_vars
  <2>1. SUFFICES ASSUME WorldInv, RecordsInv, Next,
                        NEW r \in DOMAIN record \cap Book[family].kept, Accepted(r)
                 PROVE  disk'[r] = disk[r] /\ record'[r] = record[r]
    OBVIOUS
  <2>2. r \in Experiment.kept /\ RecordHeld(r) /\ Ok(r)
    BY <2>1 DEF RecordsInv, Experiment, Accepted
  <2>3. CASE \E p \in Invocations : \E s \in Now(p) : Steps(p, s)
    BY <2>1, <2>2, <2>3, OkStays
  <2>4. CASE \E p \in Invocations : Visits(p)
    BY <2>4 DEF Visits
  <2>5. CASE \E f \in Files : Edited(f)
    BY <2>1, <2>2, <2>5, KeptIs DEF Edited
  <2> QED
    BY <2>1, <2>3, <2>4, <2>5, NextIs
<1>4. Spec => [][Stays]_vars
  BY <1>1, <1>2, <1>3, PTL DEF Spec
<1> QED
  BY <1>4 DEF RecordsStay
-----------------------------------------------------------------------------
(* The exclusive creation all launches of a phase stand behind, and who is *)
(* past it.                                                                *)
StepsOf(ph)  == Experiment.phases[ph].steps
Gateway(ph)  == CHOOSE c \in DOMAIN StepsOf(ph) : Guards(StepsOf(ph), c)
Lock(ph)     == StepsOf(ph)[Gateway(ph)].by
Past(x, ph)  == x.phase = ph /\ ~x.failing /\ x.at > Gateway(ph)
LaunchHeld(ph) ==
    /\ Launches(StepsOf(ph)) = {} => launches[ph] = 0
    /\ Launches(StepsOf(ph)) # {} =>
          /\ launches[ph] <= 1
          /\ launches[ph] # 0 => Exists(Lock(ph))
          /\ \A p \in Invocations : Past(run[p], ph) => Exists(Lock(ph))
          /\ \A p, q \in Invocations : Past(run[p], ph) /\ Past(run[q], ph) => p = q
          /\ \A p \in Invocations : Past(run[p], ph) /\ launches[ph] # 0 => run[p].launched
Once       == DOMAIN Experiment.phases \ Experiment.again
LaunchInv  == \A ph \in Once : LaunchHeld(ph)

(* The rule gives every phase that launches an exclusive creation before it. *)
LEMMA GatewayIs ==
  ASSUME WorldInv, NEW ph \in Once
  PROVE  /\ BookShaped(Experiment) /\ Launches(Experiment.phases[ph].failing) = {}
         /\ Launches(StepsOf(ph)) # {} =>
               /\ Gateway(ph) \in DOMAIN StepsOf(ph) /\ Guards(StepsOf(ph), Gateway(ph))
               /\ Gateway(ph) \in Nat /\ Gateway(ph) >= 1 /\ Lock(ph) \in Files
<1>1. BookShaped(Experiment) /\ family \in DOMAIN Book
  BY BookAssumption DEF WorldInv, Experiment
<1>2. LaunchesBehind(Experiment.phases[ph])
  BY <1>1, LaunchesAssumption DEF Once, Experiment
<1>3. Launches(Experiment.phases[ph].failing) = {}
  BY <1>2 DEF LaunchesBehind
<1>4. ASSUME Launches(StepsOf(ph)) # {}
      PROVE  /\ Gateway(ph) \in DOMAIN StepsOf(ph) /\ Guards(StepsOf(ph), Gateway(ph))
             /\ Gateway(ph) \in Nat /\ Gateway(ph) >= 1 /\ Lock(ph) \in Files
  <2>1. Gateway(ph) \in DOMAIN StepsOf(ph) /\ Guards(StepsOf(ph), Gateway(ph))
    BY <1>2, <1>4 DEF LaunchesBehind, StepsOf, Gateway
  <2>2. /\ DOMAIN StepsOf(ph) = 1..Len(StepsOf(ph)) /\ Len(StepsOf(ph)) \in Nat
        /\ \A i \in DOMAIN StepsOf(ph) : StepsOf(ph)[i].op \in {"create", "place", "fill", "draft"} =>
              StepsOf(ph)[i].by \in Experiment.files
    BY <1>1, ScriptsAre DEF Once, StepsOf
  <2>3. Gateway(ph) \in Nat /\ Gateway(ph) >= 1
    BY <2>1, <2>2
  <2>4. Lock(ph) \in Experiment.files
    BY <2>1, <2>2 DEF Guards, Lock
  <2> QED
    BY <2>1, <2>3, <2>4 DEF Experiment, Files
<1> QED
  BY <1>1, <1>3, <1>4

(* Who is past the creation after a step was past it, or has just made it. *)
LEMMA GetsPast ==
  ASSUME WorldInv, NEW ph \in Once, Launches(StepsOf(ph)) # {},
         NEW p \in Invocations, NEW s \in Now(p), Steps(p, s), Past(run'[p], ph)
  PROVE  /\ Past(run[p], ph) \/ (~Exists(Lock(ph)) /\ disk'[Lock(ph)].ver # 0 /\ s.op = "create")
         /\ run[p].launched \/ s.op = "launch" => run'[p].launched
<1> DEFINE x == run[p]
           y == run'[p]
           c == Gateway(ph)
           t == StepsOf(ph)
<1>1. BookShaped(Experiment) /\ AtStep(Experiment, x, s)
  BY NowIs
<1>2. /\ x.phase # "" /\ x.at \in Nat /\ x.at # 0 /\ x.at \in DOMAIN ScriptOf(Experiment, x)
      /\ s = ScriptOf(Experiment, x)[x.at] /\ x.failing \in BOOLEAN
      /\ ~x.failing => ScriptOf(Experiment, x) = Experiment.phases[x.phase].steps
  BY <1>1 DEF AtStep, RunTyped, ScriptOf
<1>3. y.phase = ph /\ ~y.failing /\ y.at > c
  BY DEF Past
<1>4. ~Throws(s, x, y)
  <2>1. Idle.phase = "" /\ ph # ""
    BY <1>1 DEF Idle, BookShaped, Once
  <2> QED
    BY <1>3, <2>1 DEF Throws
<1>5. Goes(Experiment, s, x, y) /\ Claimed(p, s)
  BY <1>4 DEF Steps, Turn
<1>6. /\ x.phase = ph /\ ~x.failing /\ y.at \in After(t, x.at) /\ s = t[x.at] /\ x.at \in DOMAIN t
      /\ x.launched \/ s.op = "launch" => y.launched
  BY <1>2, <1>3, <1>5 DEF Goes, StepsOf
<1>7. c \in DOMAIN t /\ Guards(t, c) /\ c \in Nat
  BY GatewayIs
<1>8. \A j \in After(t, x.at) : j \in Nat
  BY <1>1, <1>2, <1>6, Running DEF StepsOf
<1>a. x.at \in Nat /\ x.at # 0
  BY <1>2
<1> HIDE DEF x, y, c, t
<1>9. CASE x.at > c
  <2>1. Past(x, ph)
    BY <1>6, <1>9 DEF Past, c
  <2> QED
    BY <1>6, <2>1 DEF x, y
<1>10. CASE x.at = c
  <2>1. s.op = "create" /\ s.by = Lock(ph)
    BY <1>6, <1>7, <1>10 DEF Guards, Lock, c, t
  <2>2. ~Exists(Lock(ph)) /\ disk'[Lock(ph)].ver # 0
    BY <1>5, <2>1 DEF Claimed, Steps, Effect
  <2> QED
    BY <1>6, <2>1, <2>2 DEF x, y
<1>11. CASE x.at < c
  <2>1. x.at \in 1..(c - 1)
    <3>1. \A i, k \in Nat : i # 0 /\ i < k => i \in 1..(k - 1)
      OBVIOUS
    <3> QED
      BY <1>a, <1>7, <1>11, <3>1
  <2>2. y.at <= c
    BY <1>6, <1>7, <2>1 DEF Guards
  <2>3. y.at \in Nat
    BY <1>6, <1>8
  <2> QED
    BY <1>3, <1>7, <2>2, <2>3
<1>12. x.at > c \/ x.at = c \/ x.at < c
  BY <1>a, <1>7
<1> QED
  BY <1>9, <1>10, <1>11, <1>12

(* Whoever launches is past it, and had not launched before. *)
LEMMA LauncherIs ==
  ASSUME WorldInv, NEW ph \in Once, NEW p \in Invocations, NEW s \in Now(p), Steps(p, s),
         launches'[ph] # launches[ph]
  PROVE  /\ Launches(StepsOf(ph)) # {} /\ Past(run[p], ph) /\ ~run[p].launched
         /\ s.op = "launch" /\ launches'[ph] = launches[ph] + 1
<1>1. /\ s.op = "launch" /\ ~run[p].launched
      /\ launches' = [launches EXCEPT ![run[p].phase] = @ + 1]
  BY DEF Steps, Effect
<1>2. launches \in [Phases -> Nat] /\ ph \in Phases
  BY DEF WorldInv, Once, Phases, Experiment
<1>3. run[p].phase = ph /\ launches'[ph] = launches[ph] + 1
  BY <1>1, <1>2
<1>4. BookShaped(Experiment) /\ AtStep(Experiment, run[p], s)
  BY NowIs
<1>5. /\ run[p].at \in DOMAIN ScriptOf(Experiment, run[p]) /\ s = ScriptOf(Experiment, run[p])[run[p].at]
      /\ run[p].failing => ScriptOf(Experiment, run[p]) = Experiment.phases[ph].failing
      /\ ~run[p].failing => ScriptOf(Experiment, run[p]) = StepsOf(ph)
      /\ run[p].failing \in BOOLEAN
  BY <1>3, <1>4 DEF AtStep, RunTyped, ScriptOf, StepsOf
<1>6. ~run[p].failing
  <2>1. Launches(Experiment.phases[ph].failing) = {}
    BY GatewayIs
  <2> QED
    BY <1>1, <1>5, <2>1 DEF Launches
<1>7. run[p].at \in Launches(StepsOf(ph))
  BY <1>1, <1>5, <1>6 DEF Launches
<1>8. Guards(StepsOf(ph), Gateway(ph))
  BY <1>7, GatewayIs
<1>9. run[p].at > Gateway(ph)
  BY <1>7, <1>8 DEF Guards
<1> QED
  BY <1>1, <1>3, <1>6, <1>7, <1>9 DEF Past

(* Every step keeps the launches of a phase behind its creation. *)
LEMMA StepLaunch ==
  ASSUME WorldInv, NEW ph \in Once, LaunchHeld(ph),
         NEW p \in Invocations, NEW s \in Now(p), Steps(p, s)
  PROVE  LaunchHeld(ph)'
<1>1. Experiment' = Experiment /\ Invocations' = Invocations
  BY DEF Steps, Effect, Experiment, Invocations
<1>2. /\ StepsOf(ph)' = StepsOf(ph) /\ Gateway(ph)' = Gateway(ph) /\ Lock(ph)' = Lock(ph)
      /\ \A q : Past(run[q], ph)' <=> Past(run'[q], ph)
  BY <1>1 DEF StepsOf, Gateway, Lock, Past
<1>3. CASE Launches(StepsOf(ph)) = {}
  <2>1. launches'[ph] = launches[ph]
    BY <1>3, LauncherIs
  <2> QED
    BY <1>2, <1>3, <2>1 DEF LaunchHeld
<1>4. CASE Launches(StepsOf(ph)) # {}
  <2> DEFINE h(q) == Past(run[q], ph)
             n(q) == Past(run'[q], ph)
             l(q) == run[q].launched
             m(q) == run'[q].launched
             lock == Lock(ph)
             k    == launches[ph]
             j    == launches'[ph]
  <2>1. /\ k <= 1
        /\ k # 0 => Exists(lock)
        /\ \A q \in Invocations : h(q) => Exists(lock)
        /\ \A q, u \in Invocations : h(q) /\ h(u) => q = u
        /\ \A q \in Invocations : h(q) /\ k # 0 => l(q)
    BY <1>4 DEF LaunchHeld
  <2>2. \A q \in Invocations : q # p => (n(q) <=> h(q)) /\ (m(q) <=> l(q))
    BY DEF Steps, Turn
  <2>3. n(p) => /\ h(p) \/ (~Exists(lock) /\ disk'[lock].ver # 0 /\ s.op = "create")
                /\ l(p) \/ s.op = "launch" => m(p)
    BY <1>4, GetsPast
  <2>4. j # k => h(p) /\ ~l(p) /\ s.op = "launch" /\ j = k + 1
    BY LauncherIs
  <2>5. Exists(lock) => disk'[lock].ver # 0
    BY <1>4, GatewayIs, EffectGrows DEF Steps
  <2>6. k \in Nat
    BY DEF WorldInv, Once, Phases, Experiment
  <2> HIDE DEF h, n, l, m, lock, k, j
  <2>7. \/ j = k
        \/ j = 1 /\ k = 0 /\ h(p) /\ ~l(p) /\ s.op = "launch"
    <3>1. CASE j = k
      BY <3>1
    <3>2. CASE j # k
      <4>1. h(p) /\ ~l(p) /\ s.op = "launch" /\ j = k + 1
        BY <2>4, <3>2
      <4>2. k = 0
        BY <2>1, <4>1
      <4> QED
        BY <4>1, <4>2
    <3> QED
      BY <3>1, <3>2
  <2>8. j <= 1
    BY <2>1, <2>7
  <2>9. j # 0 => Exists(lock)
    BY <2>1, <2>7
  <2>10. \A q \in Invocations : n(q) => disk'[lock].ver # 0
    BY <2>1, <2>2, <2>3, <2>5
  <2>11. \A q, u \in Invocations : n(q) /\ n(u) => q = u
    BY <2>1, <2>2, <2>3
  <2>12. \A q \in Invocations : n(q) /\ j # 0 => m(q)
    <3>1. SUFFICES ASSUME NEW q \in Invocations, n(q), j # 0 PROVE m(q)
      OBVIOUS
    <3>2. CASE j = k /\ q # p
      BY <2>1, <2>2, <3>1, <3>2
    <3>3. CASE j = k /\ q = p
      BY <2>1, <2>3, <3>1, <3>3
    <3>4. CASE h(p) /\ s.op = "launch" /\ q # p
      BY <2>1, <2>2, <3>1, <3>4
    <3>5. CASE h(p) /\ s.op = "launch" /\ q = p
      BY <2>3, <3>1, <3>5
    <3> QED
      BY <2>7, <3>2, <3>3, <3>4, <3>5
  <2>13. j # 0 => disk'[lock].ver # 0
    BY <2>5, <2>9
  <2> QED
    BY <1>1, <1>2, <1>4, <2>8, <2>10, <2>11, <2>12, <2>13 DEF LaunchHeld, Exists, n, m, lock, j
<1> QED
  BY <1>3, <1>4

(* Nobody who starts is past it. *)
LEMMA VisitLaunch ==
  ASSUME WorldInv, NEW ph \in Once, LaunchHeld(ph), NEW p \in Invocations, Visits(p)
  PROVE  LaunchHeld(ph)'
<1>1. Experiment' = Experiment /\ Invocations' = Invocations /\ disk' = disk /\ launches' = launches
  BY DEF Visits, Experiment, Invocations
<1>2. /\ StepsOf(ph)' = StepsOf(ph) /\ Gateway(ph)' = Gateway(ph) /\ Lock(ph)' = Lock(ph)
      /\ \A q : Past(run[q], ph)' <=> Past(run'[q], ph)
  BY <1>1 DEF StepsOf, Gateway, Lock, Past
<1>3. CASE Launches(StepsOf(ph)) = {}
  BY <1>1, <1>2, <1>3 DEF LaunchHeld
<1>4. CASE Launches(StepsOf(ph)) # {}
  <2>1. Gateway(ph) \in Nat /\ Gateway(ph) >= 1 /\ ph # ""
    BY <1>4, GatewayIs DEF BookShaped, Once
  <2>2. ~Past(run'[p], ph)
    <3>1. SUFFICES ASSUME Past(run'[p], ph) PROVE FALSE
      OBVIOUS
    <3>2. run'[p].phase # "" /\ run'[p].at > Gateway(ph)
      BY <2>1, <3>1 DEF Past
    <3>3. run'[p].at = 1
      BY <3>2 DEF Visits
    <3>4. \A k \in Nat : k >= 1 => ~(1 > k)
      OBVIOUS
    <3> QED
      BY <2>1, <3>2, <3>3, <3>4
  <2>3. \A q \in Invocations : Past(run'[q], ph) => Past(run[q], ph) /\ run'[q] = run[q]
    BY <2>2 DEF Visits
  <2> QED
    BY <1>1, <1>2, <1>4, <2>3 DEF LaunchHeld, Exists
<1> QED
  BY <1>3, <1>4

(* An edit does not take it away. *)
LEMMA EditLaunch ==
  ASSUME WorldInv, NEW ph \in Once, LaunchHeld(ph), NEW f \in Files, Edited(f)
  PROVE  LaunchHeld(ph)'
<1>1. Experiment' = Experiment /\ Invocations' = Invocations /\ run' = run /\ launches' = launches
  BY DEF Edited, Experiment, Invocations
<1>2. /\ StepsOf(ph)' = StepsOf(ph) /\ Gateway(ph)' = Gateway(ph) /\ Lock(ph)' = Lock(ph)
      /\ \A q : Past(run[q], ph)' <=> Past(run[q], ph)
  BY <1>1 DEF StepsOf, Gateway, Lock, Past
<1>3. CASE Launches(StepsOf(ph)) = {}
  BY <1>1, <1>2, <1>3 DEF LaunchHeld
<1>4. CASE Launches(StepsOf(ph)) # {}
  <2>1. Lock(ph) \in Files
    BY <1>4, GatewayIs
  <2>2. Exists(Lock(ph)) => disk'[Lock(ph)].ver # 0
    <3>1. disk[Lock(ph)].ver \in Nat
      BY <2>1 DEF WorldInv
    <3>2. CASE Lock(ph) = f
      BY <3>1, <3>2 DEF Edited
    <3>3. CASE Lock(ph) # f
      BY <2>1, <3>3 DEF Edited, Exists
    <3> QED
      BY <3>2, <3>3
  <2> QED
    BY <1>1, <1>2, <1>4, <2>2 DEF LaunchHeld, Exists
<1> QED
  BY <1>3, <1>4

(* A step of nothing keeps the launches as they were. *)
LEMMA StillLaunch ==
  ASSUME NEW ph, LaunchHeld(ph), UNCHANGED vars
  PROVE  LaunchHeld(ph)'
<1>1. /\ Experiment' = Experiment /\ Invocations' = Invocations
      /\ run' = run /\ launches' = launches /\ disk' = disk
  BY DEF vars, Experiment, Invocations
<1>2. /\ StepsOf(ph)' = StepsOf(ph) /\ Gateway(ph)' = Gateway(ph) /\ Lock(ph)' = Lock(ph)
      /\ \A q : Past(run[q], ph)' <=> Past(run[q], ph)
  BY <1>1 DEF StepsOf, Gateway, Lock, Past
<1> QED
  BY <1>1, <1>2 DEF LaunchHeld, Exists

(* All phases keep their launches behind their creation. *)
LEMMA NextLaunches ==
  ASSUME WorldInv, LaunchInv, [Next]_vars
  PROVE  LaunchInv'
<1>1. Once' = Once
  <2>1. CASE Next
    BY <2>1, NextIs DEF Steps, Effect, Visits, Edited, Experiment, Once
  <2>2. CASE UNCHANGED vars
    BY <2>2 DEF vars, Experiment, Once
  <2> QED
    BY <2>1, <2>2
<1>2. ASSUME NEW ph \in Once PROVE LaunchHeld(ph)'
  <2>1. LaunchHeld(ph)
    BY DEF LaunchInv
  <2>2. CASE \E p \in Invocations : \E s \in Now(p) : Steps(p, s)
    BY <2>1, <2>2, StepLaunch
  <2>3. CASE \E p \in Invocations : Visits(p)
    BY <2>1, <2>3, VisitLaunch
  <2>4. CASE \E f \in Files : Edited(f)
    BY <2>1, <2>4, EditLaunch
  <2>5. CASE UNCHANGED vars
    BY <2>1, <2>5, StillLaunch
  <2> QED
    BY <2>2, <2>3, <2>4, <2>5, NextIs
<1> QED
  BY <1>1, <1>2 DEF LaunchInv

(* Nothing is launched before the first invocation. *)
LEMMA InitLaunches ==
  ASSUME Init
  PROVE  LaunchInv
<1>1. SUFFICES ASSUME NEW ph \in Once PROVE LaunchHeld(ph)
  BY DEF LaunchInv
<1>2. launches[ph] = 0
  BY DEF Init, Once, Phases, Experiment
<1>3. \A p \in Invocations : ~Past(run[p], ph)
  <2>1. ph # ""
    BY BookAssumption DEF Init, BookShaped, Once, Experiment
  <2>2. \A p \in Invocations : run[p].phase = ""
    BY DEF Init, Idle
  <2> QED
    BY <2>1, <2>2 DEF Past
<1> QED
  BY <1>2, <1>3 DEF LaunchHeld

(***************************************************************************)
(* "already attempted; no overwrite/retry": whatever is interrupted,       *)
(* edited or started at the same time, the expensive step of a phase that  *)
(* is not made to be resumed is reached once per directory.                *)
(***************************************************************************)
THEOREM EvidenceLaunchedOnce == Spec => []LaunchedOnce
<1>1. Init => WorldInv /\ LaunchInv
  BY InitWorld, InitLaunches
<1>2. WorldInv /\ LaunchInv /\ [Next]_vars => (WorldInv /\ LaunchInv)'
  BY NextWorld, NextLaunches
<1>3. WorldInv /\ LaunchInv => LaunchedOnce
  <2>1. SUFFICES ASSUME WorldInv, LaunchInv, NEW ph \in Phases \ Book[family].again
                 PROVE  launches[ph] <= 1
    BY DEF LaunchedOnce
  <2>2. LaunchHeld(ph)
    BY <2>1 DEF LaunchInv, Once, Phases, Experiment
  <2>3. CASE Launches(StepsOf(ph)) = {}
    <3>1. launches[ph] = 0
      BY <2>2, <2>3 DEF LaunchHeld
    <3> QED
      BY <3>1
  <2>4. CASE Launches(StepsOf(ph)) # {}
    BY <2>2, <2>4 DEF LaunchHeld
  <2> QED
    BY <2>3, <2>4
<1> QED
  BY <1>1, <1>2, <1>3, PTL DEF Spec
-----------------------------------------------------------------------------
(* What a term of a note means: the versions v of f that invocation x, the *)
(* disk d and the records rec have under it; and, in a step that leaves    *)
(* the disk as n, the version it writes.                                   *)
Told(rec, X, f, v) ==
    \/ X = First /\ v = 1
    \/ \E q \in DOMAIN rec :
          /\ rec[q].ok
          /\ \/ X = Says(q) /\ f \in DOMAIN rec[q].claims /\ v = rec[q].claims[f]
             \/ X = Used(q) /\ <<f, v>> \in rec[q].read
Means(x, d, rec, X, f, v) ==
    \/ Told(rec, X, f, v)
    \/ X = Saw /\ f \in DOMAIN x.saw /\ v = x.saw[f]
    \/ X = Looks /\ <<f, v>> \in x.read
    \/ X = Disk /\ v = d[f].ver
Before(x, d, rec, n, X, f, v) ==
    \/ Means(x, d, rec, X, f, v)
    \/ X = Written /\ v = n[f].ver /\ d[f].ver < v
NoNewer(x, d, rec, f, U, W) ==
    \A v, w : Means(x, d, rec, U, f, v) /\ Means(x, d, rec, W, f, w) => v <= w

(* Record q is whole and says ok; record r keeps what its writer announced. *)
AcceptedIn(d, rec, q) == q \in DOMAIN rec /\ rec[q].ok /\ d[q].whole
Digests(F, d, c) == \A f \in DOMAIN c : f \in F.files /\ c[f] \in Nat /\ 1 <= c[f] /\ c[f] <= d[f].ver
Looked(F, d, u) ==
    /\ u \subseteq F.files \X Nat
    /\ \A f, v : <<f, v>> \in u => v \in Nat /\ v <= d[f].ver /\ (f \in F.given => 1 <= v)
TrueRecord(F, T, d, rec, r) ==
    LET c == rec[r].claims
        u == rec[r].read
    IN  /\ T[r].has \subseteq DOMAIN c /\ DOMAIN c \subseteq T[r].may /\ Digests(F, d, c)
        /\ Looked(F, d, u) /\ \A f, v : <<f, v>> \in u => f \in T[r].looked
        /\ \A t \in T[r].facts : t[1] \in F.files =>
              \A v, w : Told(rec, t[2], t[1], v) /\ Told(rec, t[3], t[1], w) => v <= w
        /\ \A q \in F.records \cap DOMAIN c :
              q \in F.kept /\ AcceptedIn(d, rec, q) /\ c[q] = d[q].ver /\ Agree(c, rec[q].claims)
        /\ r \in F.closed =>
              /\ \A f, v : <<f, v>> \in u => f \in DOMAIN c /\ v = c[f]
              /\ \A q \in F.records \cap DOMAIN c : \A f, v :
                    <<f, v>> \in rec[q].read /\ f \in DOMAIN rec[q].claims /\ f \in DOMAIN c => v = c[f]

(* The files and records as they should be, and an invocation that fits a note. *)
Sound(F, T, d, rec) ==
    /\ \A f \in F.files : d[f].ver \in Nat
    /\ \A f \in F.given : 1 <= d[f].ver
    /\ \A f \in F.files : Fixed(F, f) => d[f].ver = 1
    /\ DOMAIN rec \subseteq F.records /\ F.records \subseteq F.files /\ F.kept \subseteq F.records
    /\ \A r \in F.records : \A t \in T[r].facts : {t[2], t[3]} \subseteq {Says(r), Used(r), First}
    /\ \A r \in DOMAIN rec : rec[r].ok => TrueRecord(F, T, d, rec, r)
Fits(F, x, d, rec, a) ==
    /\ a.has \subseteq DOMAIN x.saw /\ DOMAIN x.saw \subseteq a.may /\ Digests(F, d, x.saw)
    /\ Looked(F, d, x.read) /\ \A f, v : <<f, v>> \in x.read => f \in a.looked
    /\ a.acc \subseteq F.kept /\ \A q \in a.acc : AcceptedIn(d, rec, q)
    /\ \A t \in a.facts : t[1] \in F.files => NoNewer(x, d, rec, t[1], t[2], t[3])

(* What a step that went on has checked. *)
Passed(F, x, d, rec, s) ==
    /\ s.op = "follow" => /\ AcceptedIn(d, rec, s.by)
                          /\ \A f \in s.over : /\ f \in DOMAIN rec[s.by].claims
                                               /\ f \in DOMAIN x.saw => x.saw[f] = rec[s.by].claims[f]
    /\ s.op = "named" /\ s.by \in F.records => AcceptedIn(d, rec, s.by)
    /\ s.op \in {"same", "settle"} =>
          \A f \in DOMAIN x.saw : s.over = {} \/ f \in s.over => x.saw[f] = d[f].ver
    /\ s.op = "matches" => \A f, v : <<f, v>> \in x.read /\ f \in s.over => v = x.saw[f]
    /\ s.op = "validated" => \A f, v : <<f, v>> \in rec[s.by].read /\ f \in s.over => v = d[f].ver

(* What step s does to the disk and the records, and, when its invocation  *)
(* goes on and has found nothing wrong, to what that remembers.            *)
Deed(F, s, x, d, rec, n, nrec) ==
    /\ \A f \in F.files : /\ n[f].ver \in Nat
                          /\ n[f] = d[f] \/ (Touches(s, f) /\ d[f].ver < n[f].ver)
    /\ s.op = "fill" => n[s.by].whole /\ d[s.by].ver < n[s.by].ver
    /\ DOMAIN nrec \subseteq F.records
    /\ \A r \in DOMAIN nrec : nrec[r].ok =>
          \/ r \in DOMAIN rec /\ nrec[r] = rec[r] /\ ~(s.op = "fill" /\ s.by = r)
          \/ s.op = "fill" /\ s.by = r /\ ~x.bad /\ nrec[r].claims = x.saw /\ nrec[r].read = x.read
Spares(F, d, rec, n, nrec) ==
    \A q \in F.kept : AcceptedIn(d, rec, q) => n[q] = d[q] /\ q \in DOMAIN nrec /\ nrec[q] = rec[q]
Taken(s, d, rec, n, f, v) ==
    \/ s.op \in {"hash", "take", "named"} /\ v = d[f].ver /\ v # 0
    \/ s.op = "pin" /\ v = 1
    \/ s.op = "follow" /\ f \in DOMAIN rec[s.by].claims /\ v = rec[s.by].claims[f]
    \/ s.op = "fill" /\ v = n[f].ver
Remembers(s, x, d, rec, n, y) ==
    /\ DOMAIN x.saw \cup Adds(s) \subseteq DOMAIN y.saw
    /\ \A f \in DOMAIN y.saw :
          \/ f \in DOMAIN x.saw /\ f \notin Adds(s) /\ y.saw[f] = x.saw[f]
          \/ f \in Adds(s) /\ Taken(s, d, rec, n, f, y.saw[f])
          \/ s.op = "list" /\ f \in s.over /\ y.saw[f] = d[f].ver /\ d[f].ver # 0
    /\ y.read = x.read \cup {<<f, d[f].ver>> : f \in LooksAt(s)}
-----------------------------------------------------------------------------
(* The terms are told apart by what they are called. *)
LEMMA TermsAre ==
         /\ Saw[1] = "saw" /\ Looks[1] = "looks" /\ Disk[1] = "disk" /\ First[1] = "first" /\ Written[1] = "written"
         /\ \A q : Says(q)[1] = "says" /\ Says(q)[2] = q /\ Used(q)[1] = "used" /\ Used(q)[2] = q
         /\ \A q : Says(q) \notin {Saw, Looks, Disk, First, Written} /\ Used(q) \notin {Saw, Looks, Disk, First, Written}
         /\ \A q, r : Says(q) # Used(r) /\ (Says(q) = Says(r) => q = r) /\ (Used(q) = Used(r) => q = r)
         /\ Saw \notin {Looks, Disk, First, Written} /\ Looks \notin {Disk, First, Written}
         /\ Disk \notin {First, Written} /\ First # Written
<1>1. /\ Saw[1] = "saw" /\ Looks[1] = "looks" /\ Disk[1] = "disk" /\ First[1] = "first" /\ Written[1] = "written"
      /\ \A q : Says(q)[1] = "says" /\ Says(q)[2] = q /\ Used(q)[1] = "used" /\ Used(q)[2] = q
  BY DEF Saw, Looks, Disk, First, Written, Says, Used
<1>2. \A q : Says(q) \notin {Saw, Looks, Disk, First, Written}
  BY <1>1
<1>3. \A q : Used(q) \notin {Saw, Looks, Disk, First, Written}
  BY <1>1
<1>4. \A q, r : Says(q) # Used(r) /\ (Says(q) = Says(r) => q = r) /\ (Used(q) = Used(r) => q = r)
  BY <1>1
<1>5. /\ Saw \notin {Looks, Disk, First, Written} /\ Looks \notin {Disk, First, Written}
      /\ Disk \notin {First, Written} /\ First # Written
  BY <1>1
<1> QED
  BY <1>1, <1>2, <1>3, <1>4, <1>5

(* What each term means: the digests kept. *)
LEMMA MeansSaw ==
  ASSUME NEW x, NEW d, NEW rec, NEW f, NEW v
  PROVE  Means(x, d, rec, Saw, f, v) <=> f \in DOMAIN x.saw /\ v = x.saw[f]
BY TermsAre DEF Means, Told

(* The files read. *)
LEMMA MeansLooks ==
  ASSUME NEW x, NEW d, NEW rec, NEW f, NEW v
  PROVE  Means(x, d, rec, Looks, f, v) <=> <<f, v>> \in x.read
BY TermsAre DEF Means, Told

(* The disk. *)
LEMMA MeansDisk ==
  ASSUME NEW x, NEW d, NEW rec, NEW f, NEW v
  PROVE  Means(x, d, rec, Disk, f, v) <=> v = d[f].ver
BY TermsAre DEF Means, Told

(* The first version. *)
LEMMA MeansFirst ==
  ASSUME NEW x, NEW d, NEW rec, NEW f, NEW v
  PROVE  Means(x, d, rec, First, f, v) <=> v = 1
BY TermsAre DEF Means, Told

(* What record q claims. *)
LEMMA MeansSays ==
  ASSUME NEW x, NEW d, NEW rec, NEW f, NEW v, NEW q
  PROVE  Means(x, d, rec, Says(q), f, v) <=> q \in DOMAIN rec /\ rec[q].ok /\ f \in DOMAIN rec[q].claims /\ v = rec[q].claims[f]
BY TermsAre DEF Means, Told

(* What the writer of q read. *)
LEMMA MeansUsed ==
  ASSUME NEW x, NEW d, NEW rec, NEW f, NEW v, NEW q
  PROVE  Means(x, d, rec, Used(q), f, v) <=> q \in DOMAIN rec /\ rec[q].ok /\ <<f, v>> \in rec[q].read
BY TermsAre DEF Means, Told

(* Before the step, what it writes is not there. *)
LEMMA MeansWritten ==
  ASSUME NEW x, NEW d, NEW rec, NEW f, NEW v
  PROVE  ~Means(x, d, rec, Written, f, v)
BY TermsAre DEF Means, Told

(* Every version a term means is a number, at least 1 but for what may have *)
(* been read of a file that was not there, and no newer than the disk.      *)
LEMMA Bounded ==
  ASSUME NEW F, NEW T, NEW x, NEW d, NEW rec, NEW a, Sound(F, T, d, rec), Fits(F, x, d, rec, a),
         NEW f \in F.files, NEW X, NEW v, Means(x, d, rec, X, f, v)
  PROVE  /\ v \in Nat /\ d[f].ver \in Nat
         /\ X # First => v <= d[f].ver
         /\ X = Saw \/ X[1] = "says" => 1 <= v
         /\ f \in F.given => 1 <= v /\ v <= d[f].ver
<1>1. d[f].ver \in Nat /\ (f \in F.given => 1 <= d[f].ver)
  BY DEF Sound
<1>2. CASE X = First
  <2>1. v = 1
    BY <1>2, MeansFirst
  <2> QED
    BY <1>1, <1>2, <2>1, TermsAre
<1>3. CASE X = Disk
  <2>1. v = d[f].ver
    BY <1>3, MeansDisk
  <2> QED
    BY <1>1, <1>3, <2>1, TermsAre
<1>4. CASE X = Saw
  <2>1. f \in DOMAIN x.saw /\ v = x.saw[f]
    BY <1>4, MeansSaw
  <2>2. Digests(F, d, x.saw)
    BY DEF Fits
  <2> QED
    BY <1>1, <2>1, <2>2 DEF Digests
<1>5. CASE X = Looks
  <2>1. <<f, v>> \in x.read
    BY <1>5, MeansLooks
  <2>2. Looked(F, d, x.read)
    BY DEF Fits
  <2> QED
    BY <1>1, <1>5, <2>1, <2>2, TermsAre DEF Looked
<1>6. ASSUME NEW q \in DOMAIN rec, rec[q].ok, X = Says(q), f \in DOMAIN rec[q].claims, v = rec[q].claims[f]
      PROVE  v \in Nat /\ 1 <= v /\ v <= d[f].ver
  <2>1. Digests(F, d, rec[q].claims)
    BY <1>6 DEF Sound, TrueRecord
  <2> QED
    BY <1>1, <1>6, <2>1 DEF Digests
<1>7. ASSUME NEW q \in DOMAIN rec, rec[q].ok, X = Used(q), <<f, v>> \in rec[q].read
      PROVE  v \in Nat /\ v <= d[f].ver /\ (f \in F.given => 1 <= v) /\ X[1] # "says" /\ X # Saw
  <2>1. Looked(F, d, rec[q].read)
    BY <1>7 DEF Sound, TrueRecord
  <2>2. X[1] # "says" /\ X # Saw
    BY <1>7, TermsAre
  <2> QED
    BY <1>1, <1>7, <2>1, <2>2 DEF Looked
<1>8. \/ X \in {First, Disk, Saw, Looks}
      \/ \E q \in DOMAIN rec : rec[q].ok /\ \/ X = Says(q) /\ f \in DOMAIN rec[q].claims /\ v = rec[q].claims[f]
                                            \/ X = Used(q) /\ <<f, v>> \in rec[q].read
  BY DEF Means, Told
<1> QED
  BY <1>1, <1>2, <1>3, <1>4, <1>5, <1>6, <1>7, <1>8

(* Two versions of one record, or of two of which one rests on the other. *)
LEMMA ChainsAgree ==
  ASSUME NEW F, NEW T, NEW x, NEW d, NEW rec, Sound(F, T, d, rec), NEW f, NEW q, NEW r,
         r \in T[q].has \/ q \in T[r].has,
         NEW v, NEW w, Means(x, d, rec, Says(q), f, v), Means(x, d, rec, Says(r), f, w)
  PROVE  v = w
<1>1. /\ q \in DOMAIN rec /\ rec[q].ok /\ f \in DOMAIN rec[q].claims /\ v = rec[q].claims[f]
      /\ r \in DOMAIN rec /\ rec[r].ok /\ f \in DOMAIN rec[r].claims /\ w = rec[r].claims[f]
  BY MeansSays
<1>2. /\ q \in F.records /\ TrueRecord(F, T, d, rec, q)
      /\ r \in F.records /\ TrueRecord(F, T, d, rec, r)
  BY <1>1 DEF Sound
<1>3. CASE r \in T[q].has
  <2>1. r \in F.records \cap DOMAIN rec[q].claims
    BY <1>2, <1>3 DEF TrueRecord
  <2>2. Agree(rec[q].claims, rec[r].claims)
    BY <1>2, <2>1 DEF TrueRecord
  <2> QED
    BY <1>1, <2>2 DEF Agree
<1>4. CASE q \in T[r].has
  <2>1. q \in F.records \cap DOMAIN rec[r].claims
    BY <1>2, <1>4 DEF TrueRecord
  <2>2. Agree(rec[r].claims, rec[q].claims)
    BY <1>2, <2>1 DEF TrueRecord
  <2> QED
    BY <1>1, <2>2 DEF Agree
<1> QED
  BY <1>3, <1>4

(* What a step has checked holds. *)
LEMMA EnsuresHolds ==
  ASSUME NEW F, NEW T, NEW x, NEW d, NEW rec, NEW a, Sound(F, T, d, rec), Fits(F, x, d, rec, a),
         NEW s, Passed(F, x, d, rec, s), NEW f \in F.files, NEW U, NEW W, Ensures(s, f, U, W),
         NEW v, NEW w, Means(x, d, rec, U, f, v), Means(x, d, rec, W, f, w)
  PROVE  v <= w
<1>1. v \in Nat /\ w \in Nat
  BY Bounded
<1>2. CASE s.op = "follow" /\ f \in s.over /\ <<U, W>> \in {<<Saw, Says(s.by)>>, <<Says(s.by), Saw>>}
  <2>1. f \in DOMAIN x.saw => x.saw[f] = rec[s.by].claims[f]
    BY <1>2 DEF Passed
  <2>2. (U = Saw /\ W = Says(s.by)) \/ (U = Says(s.by) /\ W = Saw)
    BY <1>2
  <2>3. CASE U = Saw /\ W = Says(s.by)
    <3>1. f \in DOMAIN x.saw /\ v = x.saw[f]
      BY <2>3, MeansSaw
    <3>2. w = rec[s.by].claims[f]
      BY <2>3, MeansSays
    <3> QED
      BY <1>1, <2>1, <3>1, <3>2
  <2>4. CASE U = Says(s.by) /\ W = Saw
    <3>1. f \in DOMAIN x.saw /\ w = x.saw[f]
      BY <2>4, MeansSaw
    <3>2. v = rec[s.by].claims[f]
      BY <2>4, MeansSays
    <3> QED
      BY <1>1, <2>1, <3>1, <3>2
  <2> QED
    BY <2>2, <2>3, <2>4
<1>3. CASE s.op \in {"same", "settle"} /\ (s.over = {} \/ f \in s.over) /\ <<U, W>> = <<Disk, Saw>>
  <2>1. U = Disk /\ W = Saw
    BY <1>3
  <2>2. v = d[f].ver /\ f \in DOMAIN x.saw /\ w = x.saw[f]
    BY <2>1, MeansDisk, MeansSaw
  <2>3. w = v
    BY <1>3, <2>2 DEF Passed
  <2> QED
    BY <1>1, <2>3
<1>4. CASE s.op = "matches" /\ f \in s.over /\ <<U, W>> \in {<<Looks, Saw>>, <<Saw, Looks>>}
  <2>1. (U = Looks /\ W = Saw) \/ (U = Saw /\ W = Looks)
    BY <1>4
  <2>2. \A y : <<f, y>> \in x.read => y = x.saw[f]
    BY <1>4 DEF Passed
  <2>3. CASE U = Looks /\ W = Saw
    <3>1. <<f, v>> \in x.read
      BY <2>3, MeansLooks
    <3>2. w = x.saw[f]
      BY <2>3, MeansSaw
    <3> QED
      BY <1>1, <2>2, <3>1, <3>2
  <2>4. CASE U = Saw /\ W = Looks
    <3>1. <<f, w>> \in x.read
      BY <2>4, MeansLooks
    <3>2. v = x.saw[f]
      BY <2>4, MeansSaw
    <3> QED
      BY <1>1, <2>2, <3>1, <3>2
  <2> QED
    BY <2>1, <2>3, <2>4
<1>5. CASE /\ s.op = "validated" /\ f \in s.over
           /\ <<U, W>> \in {<<Disk, Used(s.by)>>, <<Used(s.by), Disk>>}
  <2>1. (U = Disk /\ W = Used(s.by)) \/ (U = Used(s.by) /\ W = Disk)
    BY <1>5
  <2>2. \A u : Means(x, d, rec, Used(s.by), f, u) => u = d[f].ver
    BY <1>5, MeansUsed DEF Passed
  <2>3. \A u : Means(x, d, rec, Disk, f, u) => u = d[f].ver
    BY MeansDisk
  <2> QED
    BY <1>1, <2>1, <2>2, <2>3
<1> QED
  BY <1>2, <1>3, <1>4, <1>5 DEF Ensures

(* Of what is silent nothing is meant. *)
LEMMA SilentMeans ==
  ASSUME NEW F, NEW T, NEW x, NEW d, NEW rec, NEW a, Sound(F, T, d, rec), Fits(F, x, d, rec, a),
         NEW f, NEW X, Silent(T, a, f, X), NEW v
  PROVE  ~Means(x, d, rec, X, f, v)
<1>1. SUFFICES ASSUME Means(x, d, rec, X, f, v) PROVE FALSE
  OBVIOUS
<1>2. CASE X = Saw
  <2>1. f \in DOMAIN x.saw
    BY <1>1, <1>2, MeansSaw
  <2>2. f \notin a.may
    BY <1>2, TermsAre DEF Silent
  <2> QED
    BY <2>1, <2>2 DEF Fits
<1>3. CASE X = Looks
  <2>1. <<f, v>> \in x.read
    BY <1>1, <1>3, MeansLooks
  <2>2. f \notin a.looked
    BY <1>3, TermsAre DEF Silent
  <2> QED
    BY <2>1, <2>2 DEF Fits
<1>4. CASE X # Saw /\ X # Looks
  <2>1. \/ X[1] = "says" /\ f \notin T[X[2]].may
        \/ X[1] = "used" /\ f \notin T[X[2]].looked
    BY <1>4 DEF Silent
  <2>2. PICK q \in DOMAIN rec : rec[q].ok /\ \/ X = Says(q) /\ f \in DOMAIN rec[q].claims
                                             \/ X = Used(q) /\ <<f, v>> \in rec[q].read
    BY <1>1, <1>4, <2>1, TermsAre DEF Means, Told
  <2>3. TrueRecord(F, T, d, rec, q)
    BY <2>2 DEF Sound
  <2> QED
    BY <2>1, <2>2, <2>3, TermsAre DEF TrueRecord
<1> QED
  BY <1>2, <1>3, <1>4

(* Whatever is derived directly holds. *)
LEMMA DirectHolds ==
  ASSUME NEW F, NEW T, NEW x, NEW d, NEW rec, NEW a, Sound(F, T, d, rec), Fits(F, x, d, rec, a),
         NEW s, Passed(F, x, d, rec, s), NEW f \in F.files, NEW U, NEW W, Direct(F, T, a, s, f, U, W),
         NEW v, NEW w, Means(x, d, rec, U, f, v), Means(x, d, rec, W, f, w)
  PROVE  v <= w
<1>1. v \in Nat /\ w \in Nat /\ d[f].ver \in Nat
  BY Bounded
<1>2. CASE <<f, U, W>> \in a.facts
  <2> DEFINE t == <<f, U, W>>
  <2>1. t[1] = f /\ t[2] = U /\ t[3] = W
    OBVIOUS
  <2>2. NoNewer(x, d, rec, t[1], t[2], t[3])
    BY <1>2, <2>1 DEF Fits
  <2> QED
    BY <2>1, <2>2 DEF NoNewer
<1>3. CASE Ensures(s, f, U, W)
  BY <1>3, EnsuresHolds
<1>4. CASE U = W /\ U \in {Saw, Disk, First, Says(U[2])}
  <2>1. CASE U = Saw
    BY <1>1, <1>4, <2>1, MeansSaw
  <2>2. CASE U = Disk
    BY <1>1, <1>4, <2>2, MeansDisk
  <2>3. CASE U = First
    BY <1>1, <1>4, <2>3, MeansFirst
  <2>4. CASE U = Says(U[2])
    <3>1. v = rec[U[2]].claims[f] /\ w = rec[U[2]].claims[f]
      BY <1>4, <2>4, MeansSays
    <3> QED
      BY <1>1, <3>1
  <2> QED
    BY <1>4, <2>1, <2>2, <2>3, <2>4
<1>5. CASE W = Disk /\ U # First
  BY <1>5, Bounded, MeansDisk
<1>6. CASE U = First /\ (W = Saw \/ W[1] = "says")
  BY <1>1, <1>6, Bounded, MeansFirst
<1>7. CASE U = Disk /\ W[1] = "says" /\ f \in F.records
  <2>1. PICK q \in DOMAIN rec : rec[q].ok /\ W = Says(q) /\ f \in DOMAIN rec[q].claims /\ w = rec[q].claims[f]
    BY <1>7, TermsAre DEF Means, Told
  <2>2. TrueRecord(F, T, d, rec, q)
    BY <2>1 DEF Sound
  <2>3. w = d[f].ver
    BY <1>7, <2>1, <2>2 DEF TrueRecord
  <2> QED
    BY <1>1, <1>7, <2>3, MeansDisk
<1>8. CASE Silent(T, a, f, U) \/ Silent(T, a, f, W)
  BY <1>8, SilentMeans
<1>9. CASE U[1] = "says" /\ W[1] = "says" /\ (W[2] \in T[U[2]].has \/ U[2] \in T[W[2]].has)
  <2>1. PICK q \in DOMAIN rec : U = Says(q)
    BY <1>9, TermsAre DEF Means, Told
  <2>2. PICK r \in DOMAIN rec : W = Says(r)
    BY <1>9, TermsAre DEF Means, Told
  <2>3. r \in T[q].has \/ q \in T[r].has
    BY <1>9, <2>1, <2>2, TermsAre
  <2>4. v = w
    BY <2>1, <2>2, <2>3, ChainsAgree
  <2> QED
    BY <1>1, <2>4
<1>10. CASE \E q \in {U[2], W[2]} \cap F.records : <<f, U, W>> \in T[q].facts
  <2>1. PICK q \in {U[2], W[2]} \cap F.records : <<f, U, W>> \in T[q].facts
    BY <1>10
  <2> DEFINE t == <<f, U, W>>
  <2>2. t[1] = f /\ t[2] = U /\ t[3] = W /\ t \in T[q].facts
    BY <2>1
  <2>3. U \in {Says(q), Used(q), First} /\ W \in {Says(q), Used(q), First}
    <3>1. {t[2], t[3]} \subseteq {Says(q), Used(q), First}
      BY <2>1, <2>2 DEF Sound
    <3> QED
      BY <2>2, <3>1
  <2>4. Told(rec, U, f, v) /\ Told(rec, W, f, w)
    BY <2>3, TermsAre DEF Means
  <2>5. CASE U = First /\ W = First
    BY <1>1, <2>5, MeansFirst
  <2>6. CASE ~(U = First /\ W = First)
    <3>1. q \in DOMAIN rec /\ rec[q].ok
      <4>1. CASE U = Says(q)
        BY <4>1, MeansSays
      <4>2. CASE W = Says(q)
        BY <4>2, MeansSays
      <4>3. CASE U = Used(q)
        BY <4>3, MeansUsed
      <4>4. CASE W = Used(q)
        BY <4>4, MeansUsed
      <4> QED
        BY <2>3, <2>6, <4>1, <4>2, <4>3, <4>4
    <3>2. TrueRecord(F, T, d, rec, q)
      BY <3>1 DEF Sound
    <3>3. \A y, z : Told(rec, t[2], t[1], y) /\ Told(rec, t[3], t[1], z) => y <= z
      BY <2>2, <3>2 DEF TrueRecord
    <3> QED
      BY <2>2, <2>4, <3>3
  <2> QED
    BY <2>5, <2>6
<1>11. CASE Fixed(F, f)
  <2>1. d[f].ver = 1 /\ f \in F.given
    BY <1>11 DEF Sound, Fixed
  <2>2. 1 <= v /\ v <= d[f].ver /\ 1 <= w /\ w <= d[f].ver
    BY <2>1, Bounded
  <2> QED
    BY <1>1, <2>1, <2>2
<1> QED
  BY <1>2, <1>3, <1>4, <1>5, <1>6, <1>7, <1>8, <1>9, <1>10, <1>11 DEF Direct

(* What is accepted, or was found to be by the step, is. *)
LEMMA AcceptsHolds ==
  ASSUME NEW F, NEW T, NEW x, NEW d, NEW rec, NEW a, Sound(F, T, d, rec), Fits(F, x, d, rec, a),
         NEW s, Passed(F, x, d, rec, s), NEW q \in a.acc \cup Accepts(F, T, s)
  PROVE  q \in F.kept /\ AcceptedIn(d, rec, q)
<1>1. CASE q \in a.acc
  BY <1>1 DEF Fits
<1>2. CASE q \in F.kept /\ s.op \in {"follow", "named"} /\ q = s.by
  <2>1. q \in F.records
    BY <1>2 DEF Sound
  <2> QED
    BY <1>2, <2>1 DEF Passed
<1>3. CASE q \in F.kept /\ s.op = "follow" /\ q \in T[s.by].has
  <2>1. AcceptedIn(d, rec, s.by)
    BY <1>3 DEF Passed
  <2>2. TrueRecord(F, T, d, rec, s.by)
    BY <2>1 DEF AcceptedIn, Sound
  <2>3. q \in F.records \cap DOMAIN rec[s.by].claims
    BY <1>3, <2>2 DEF Sound, TrueRecord
  <2> QED
    BY <2>2, <2>3 DEF TrueRecord
<1> QED
  BY <1>1, <1>2, <1>3 DEF Accepts

(* There is something in a solid term. *)
LEMMA SolidMeans ==
  ASSUME NEW F, NEW T, NEW x, NEW d, NEW rec, NEW a, Sound(F, T, d, rec), Fits(F, x, d, rec, a),
         NEW s, Passed(F, x, d, rec, s), NEW f \in F.files, NEW X \in Solid(F, T, a, s, f)
  PROVE  \E v : Means(x, d, rec, X, f, v)
<1>1. CASE X = First
  BY <1>1, MeansFirst
<1>2. CASE X = Disk
  BY <1>2, MeansDisk
<1>3. CASE X = Saw /\ f \in a.has
  <2>1. f \in DOMAIN x.saw
    BY <1>3 DEF Fits
  <2> QED
    BY <1>3, <2>1, MeansSaw
<1>4. CASE \E q \in a.acc \cup Accepts(F, T, s) : f \in T[q].has /\ X = Says(q)
  <2>1. PICK q \in a.acc \cup Accepts(F, T, s) : f \in T[q].has /\ X = Says(q)
    BY <1>4
  <2>2. AcceptedIn(d, rec, q)
    BY AcceptsHolds
  <2>3. TrueRecord(F, T, d, rec, q)
    BY <2>2 DEF AcceptedIn, Sound
  <2>4. f \in DOMAIN rec[q].claims /\ q \in DOMAIN rec /\ rec[q].ok
    BY <2>1, <2>2, <2>3 DEF TrueRecord, AcceptedIn
  <2>5. Means(x, d, rec, Says(q), f, rec[q].claims[f])
    BY <2>4, MeansSays
  <2> QED
    BY <2>1, <2>5
<1> QED
  BY <1>1, <1>2, <1>3, <1>4 DEF Solid

(* Whatever is derived holds: nothing in U is newer than anything in W. *)
LEMMA DerivedHolds ==
  ASSUME NEW F, NEW T, NEW x, NEW d, NEW rec, NEW a, Sound(F, T, d, rec), Fits(F, x, d, rec, a),
         NEW s, Passed(F, x, d, rec, s), NEW n, NEW f \in F.files, n[f].ver \in Nat,
         NEW U, NEW W, Derived(F, T, a, s, f, U, W),
         NEW v, NEW w, Before(x, d, rec, n, U, f, v), Before(x, d, rec, n, W, f, w)
  PROVE  v <= w
<1>1. CASE W = Written
  <2>1. w = n[f].ver /\ d[f].ver < w
    BY <1>1, MeansWritten DEF Before
  <2>2. CASE U = Written
    <3>1. v = n[f].ver
      BY <2>2, MeansWritten DEF Before
    <3> QED
      BY <2>1, <3>1
  <2>3. CASE U # Written
    <3>1. Means(x, d, rec, U, f, v)
      BY <2>3 DEF Before
    <3>2. v \in Nat /\ d[f].ver \in Nat /\ (U # First => v <= d[f].ver)
      BY <3>1, Bounded
    <3>3. U = First => v = 1
      BY <3>1, MeansFirst
    <3>4. U = First \/ U # First
      OBVIOUS
    <3> QED
      BY <2>1, <3>2, <3>3, <3>4
  <2> QED
    BY <2>2, <2>3
<1>2. CASE W # Written
  <2>1. U # Written
    BY <1>2 DEF Derived
  <2>2. Means(x, d, rec, U, f, v) /\ Means(x, d, rec, W, f, w)
    BY <1>2, <2>1 DEF Before
  <2>3. CASE Direct(F, T, a, s, f, U, W)
    BY <2>2, <2>3, DirectHolds
  <2>4. CASE \E X \in Solid(F, T, a, s, f) : Direct(F, T, a, s, f, U, X) /\ Direct(F, T, a, s, f, X, W)
    <3>1. PICK X \in Solid(F, T, a, s, f) : Direct(F, T, a, s, f, U, X) /\ Direct(F, T, a, s, f, X, W)
      BY <2>4
    <3>2. PICK m : Means(x, d, rec, X, f, m)
      BY SolidMeans
    <3>3. v <= m
      BY <2>2, <3>1, <3>2, DirectHolds
    <3>4. m <= w
      BY <2>2, <3>1, <3>2, DirectHolds
    <3>5. v \in Nat /\ m \in Nat /\ w \in Nat
      BY <2>2, <3>2, Bounded
    <3> QED
      BY <3>3, <3>4, <3>5
  <2> QED
    BY <1>2, <2>3, <2>4 DEF Derived
<1> QED
  BY <1>1, <1>2

(* A step leaves under a term only what one of its earlier terms meant.    *)
LEMMA WasHolds ==
  ASSUME NEW F, NEW T, NEW x, NEW d, NEW rec, NEW a, Sound(F, T, d, rec), Fits(F, x, d, rec, a),
         NEW s, Passed(F, x, d, rec, s), s.op = "fill" => s.over \subseteq {s.by},
         NEW y, NEW n, NEW nrec, Deed(F, s, x, d, rec, n, nrec), Remembers(s, x, d, rec, n, y),
         NEW f \in F.files, NEW X, NEW v, Means(y, n, nrec, X, f, v)
  PROVE  \E U \in Was(s, a, f, X) : Before(x, d, rec, n, U, f, v)
<1>1. CASE X = Saw
  <2>1. f \in DOMAIN y.saw /\ v = y.saw[f]
    BY <1>1, MeansSaw
  <2>2. CASE f \in DOMAIN x.saw /\ f \notin Adds(s) /\ v = x.saw[f]
    <3>1. Means(x, d, rec, Saw, f, v)
      BY <2>2, MeansSaw
    <3>2. Saw \in Was(s, a, f, X)
      BY <1>1, <2>2, TermsAre DEF Was, Anew
    <3> QED
      BY <3>1, <3>2 DEF Before
  <2>3. CASE f \in Adds(s) /\ Taken(s, d, rec, n, f, v)
    <3>1. Source(s) \in {Disk, First, Written, Says(s.by)} => Source(s) \in Was(s, a, f, X)
      BY <1>1, <2>3 DEF Was
    <3>2. CASE s.op \in {"hash", "take", "named"} /\ v = d[f].ver
      <4>1. Source(s) = Disk
        BY <3>2 DEF Source
      <4>2. Means(x, d, rec, Disk, f, v)
        BY <3>2, MeansDisk
      <4> QED
        BY <3>1, <4>1, <4>2 DEF Before
    <3>3. CASE s.op = "pin" /\ v = 1
      <4>1. Source(s) = First
        BY <3>3 DEF Source
      <4>2. Means(x, d, rec, First, f, v)
        BY <3>3, MeansFirst
      <4> QED
        BY <3>1, <4>1, <4>2 DEF Before
    <3>4. CASE s.op = "follow" /\ f \in DOMAIN rec[s.by].claims /\ v = rec[s.by].claims[f]
      <4>1. Source(s) = Says(s.by)
        BY <3>4 DEF Source
      <4>2. s.by \in DOMAIN rec /\ rec[s.by].ok
        BY <3>4 DEF Passed, AcceptedIn
      <4>3. Means(x, d, rec, Says(s.by), f, v)
        BY <3>4, <4>2, MeansSays
      <4> QED
        BY <3>1, <4>1, <4>3 DEF Before
    <3>5. CASE s.op = "fill" /\ v = n[f].ver
      <4>1. Source(s) = Written
        BY <3>5 DEF Source
      <4>2. f = s.by
        BY <2>3, <3>5 DEF Adds
      <4>3. d[f].ver < v
        BY <3>5, <4>2 DEF Deed
      <4> QED
        BY <3>1, <3>5, <4>1, <4>3 DEF Before
    <3> QED
      BY <2>3, <3>2, <3>3, <3>4, <3>5 DEF Taken
  <2>4. CASE s.op = "list" /\ f \in s.over /\ v = d[f].ver
    <3>1. Disk \in Was(s, a, f, X)
      BY <1>1, <2>4 DEF Was
    <3>2. Means(x, d, rec, Disk, f, v)
      BY <2>4, MeansDisk
    <3> QED
      BY <3>1, <3>2 DEF Before
  <2> QED
    BY <2>1, <2>2, <2>3, <2>4 DEF Remembers
<1>2. CASE X = Looks
  <2>1. <<f, v>> \in y.read
    BY <1>2, MeansLooks
  <2>2. <<f, v>> \in x.read \/ (f \in LooksAt(s) /\ v = d[f].ver)
    BY <2>1 DEF Remembers
  <2>3. CASE <<f, v>> \in x.read
    <3>1. Means(x, d, rec, Looks, f, v)
      BY <2>3, MeansLooks
    <3>2. Looks \in Was(s, a, f, X)
      BY <1>2, TermsAre DEF Was, Anew
    <3> QED
      BY <3>1, <3>2 DEF Before
  <2>4. CASE f \in LooksAt(s) /\ v = d[f].ver
    <3>1. Means(x, d, rec, Disk, f, v)
      BY <2>4, MeansDisk
    <3>2. Disk \in Was(s, a, f, X)
      BY <1>2, <2>4 DEF Was
    <3> QED
      BY <3>1, <3>2 DEF Before
  <2> QED
    BY <2>2, <2>3, <2>4
<1>3. CASE X = Disk
  <2>1. v = n[f].ver
    BY <1>3, MeansDisk
  <2>2. CASE n[f] = d[f]
    <3>1. Means(x, d, rec, Disk, f, v)
      BY <2>1, <2>2, MeansDisk
    <3>2. Disk \in Was(s, a, f, X)
      BY <1>3, TermsAre DEF Was, Anew
    <3> QED
      BY <3>1, <3>2 DEF Before
  <2>3. CASE Touches(s, f) /\ d[f].ver < n[f].ver
    <3>1. Written \in Was(s, a, f, X)
      BY <1>3, <2>3 DEF Was
    <3> QED
      BY <2>1, <2>3, <3>1 DEF Before
  <2> QED
    BY <2>2, <2>3 DEF Deed
<1>4. CASE X = First
  <2>1. v = 1
    BY <1>4, MeansFirst
  <2>2. Means(x, d, rec, First, f, v)
    BY <2>1, MeansFirst
  <2>3. First \in Was(s, a, f, X)
    BY <1>4, TermsAre DEF Was, Anew
  <2> QED
    BY <2>2, <2>3 DEF Before
<1>5. ASSUME NEW q \in DOMAIN nrec, nrec[q].ok, X = Says(q), f \in DOMAIN nrec[q].claims, v = nrec[q].claims[f]
      PROVE  \E U \in Was(s, a, f, X) : Before(x, d, rec, n, U, f, v)
  <2>1. CASE q \in DOMAIN rec /\ nrec[q] = rec[q] /\ ~(s.op = "fill" /\ s.by = q)
    <3>1. Means(x, d, rec, Says(q), f, v)
      BY <1>5, <2>1, MeansSays
    <3>2. X \in Was(s, a, f, X)
      BY <1>5, <2>1, TermsAre DEF Was, Anew
    <3> QED
      BY <1>5, <3>1, <3>2 DEF Before
  <2>2. CASE s.op = "fill" /\ s.by = q /\ nrec[q].claims = x.saw
    <3>1. Means(x, d, rec, Saw, f, v)
      BY <1>5, <2>2, MeansSaw
    <3>2. Saw \in Was(s, a, f, X)
      BY <1>5, <2>2 DEF Was
    <3> QED
      BY <3>1, <3>2 DEF Before
  <2> QED
    BY <1>5, <2>1, <2>2 DEF Deed
<1>6. ASSUME NEW q \in DOMAIN nrec, nrec[q].ok, X = Used(q), <<f, v>> \in nrec[q].read
      PROVE  \E U \in Was(s, a, f, X) : Before(x, d, rec, n, U, f, v)
  <2>1. CASE q \in DOMAIN rec /\ nrec[q] = rec[q] /\ ~(s.op = "fill" /\ s.by = q)
    <3>1. Means(x, d, rec, Used(q), f, v)
      BY <1>6, <2>1, MeansUsed
    <3>2. X \in Was(s, a, f, X)
      BY <1>6, <2>1, TermsAre DEF Was, Anew
    <3> QED
      BY <1>6, <3>1, <3>2 DEF Before
  <2>2. CASE s.op = "fill" /\ s.by = q /\ nrec[q].read = x.read
    <3>1. Means(x, d, rec, Looks, f, v)
      BY <1>6, <2>2, MeansLooks
    <3>2. Looks \in Was(s, a, f, X)
      BY <1>6, <2>2 DEF Was
    <3> QED
      BY <3>1, <3>2 DEF Before
  <2> QED
    BY <1>6, <2>1, <2>2 DEF Deed
<1>7. \/ X \in {Saw, Looks, Disk, First}
      \/ \E q \in DOMAIN nrec : nrec[q].ok /\ \/ X = Says(q) /\ f \in DOMAIN nrec[q].claims /\ v = nrec[q].claims[f]
                                              \/ X = Used(q) /\ <<f, v>> \in nrec[q].read
  BY DEF Means, Told
<1> QED
  BY <1>1, <1>2, <1>3, <1>4, <1>5, <1>6, <1>7

(* So what is derived of the earlier terms holds after the step. *)
LEMMA StepHolds ==
  ASSUME NEW F, NEW T, NEW x, NEW d, NEW rec, NEW a, Sound(F, T, d, rec), Fits(F, x, d, rec, a),
         NEW s, Passed(F, x, d, rec, s), s.op = "fill" => s.over \subseteq {s.by},
         NEW y, NEW n, NEW nrec, Deed(F, s, x, d, rec, n, nrec), Remembers(s, x, d, rec, n, y),
         NEW f \in F.files, NEW X, NEW Y,
         \A U \in Was(s, a, f, X), W \in Was(s, a, f, Y) : Derived(F, T, a, s, f, U, W)
  PROVE  NoNewer(y, n, nrec, f, X, Y)
<1>1. SUFFICES ASSUME NEW v, NEW w, Means(y, n, nrec, X, f, v), Means(y, n, nrec, Y, f, w) PROVE v <= w
  BY DEF NoNewer
<1>2. PICK U \in Was(s, a, f, X) : Before(x, d, rec, n, U, f, v)
  BY <1>1, WasHolds
<1>3. PICK W \in Was(s, a, f, Y) : Before(x, d, rec, n, W, f, w)
  BY <1>1, WasHolds
<1>4. Derived(F, T, a, s, f, U, W) /\ n[f].ver \in Nat
  BY DEF Deed
<1> QED
  BY <1>2, <1>3, <1>4, DerivedHolds

(* Digests and files read stay where they were: the disk is only newer.    *)
LEMMA NewerDisk ==
  ASSUME NEW F, NEW d, NEW n, \A f \in F.files : d[f].ver \in Nat /\ n[f].ver \in Nat /\ d[f].ver <= n[f].ver
  PROVE  /\ \A c : Digests(F, d, c) => Digests(F, n, c)
         /\ \A u : Looked(F, d, u) => Looked(F, n, u)
<1>1. ASSUME NEW c, Digests(F, d, c) PROVE Digests(F, n, c)
  BY <1>1 DEF Digests
<1>2. ASSUME NEW u, Looked(F, d, u) PROVE Looked(F, n, u)
  <2>1. \A f, v : <<f, v>> \in u => f \in F.files /\ v \in Nat
    BY <1>2 DEF Looked
  <2>2. ASSUME NEW f, NEW v, <<f, v>> \in u PROVE v <= n[f].ver
    <3>1. f \in F.files /\ v \in Nat /\ v <= d[f].ver
      BY <1>2, <2>1, <2>2 DEF Looked
    <3> QED
      BY <3>1
  <2> QED
    BY <1>2, <2>1, <2>2 DEF Looked
<1> QED
  BY <1>1, <1>2

(* A step makes the disk newer. *)
LEMMA DeedNewer ==
  ASSUME NEW F, NEW T, NEW d, NEW rec, Sound(F, T, d, rec), NEW s, NEW x, NEW n, NEW nrec,
         Deed(F, s, x, d, rec, n, nrec)
  PROVE  \A f \in F.files : d[f].ver \in Nat /\ n[f].ver \in Nat /\ d[f].ver <= n[f].ver
<1>1. SUFFICES ASSUME NEW f \in F.files PROVE d[f].ver \in Nat /\ n[f].ver \in Nat /\ d[f].ver <= n[f].ver
  OBVIOUS
<1>2. d[f].ver \in Nat /\ n[f].ver \in Nat /\ (n[f] = d[f] \/ d[f].ver < n[f].ver)
  BY DEF Sound, Deed
<1> QED
  BY <1>2

(* A record that is not written over stays true. *)
LEMMA OldRecord ==
  ASSUME NEW F, NEW T, NEW d, NEW rec, Sound(F, T, d, rec), NEW n, NEW nrec,
         \A f \in F.files : n[f].ver \in Nat /\ d[f].ver <= n[f].ver, Spares(F, d, rec, n, nrec),
         NEW r \in DOMAIN rec, rec[r].ok, r \in DOMAIN nrec, nrec[r] = rec[r]
  PROVE  TrueRecord(F, T, n, nrec, r)
<1> DEFINE c == rec[r].claims
           u == rec[r].read
<1>1. TrueRecord(F, T, d, rec, r) /\ r \in F.records
  BY DEF Sound
<1>2. Digests(F, n, c) /\ Looked(F, n, u)
  <2>1. \A f \in F.files : d[f].ver \in Nat /\ n[f].ver \in Nat /\ d[f].ver <= n[f].ver
    BY DEF Sound
  <2>2. Digests(F, d, c) /\ Looked(F, d, u)
    BY <1>1 DEF TrueRecord
  <2> QED
    BY <2>1, <2>2, NewerDisk
<1>3. ASSUME NEW t \in T[r].facts, t[1] \in F.files, NEW v, NEW w, Told(nrec, t[2], t[1], v), Told(nrec, t[3], t[1], w)
      PROVE  v <= w
  <2>1. {t[2], t[3]} \subseteq {Says(r), Used(r), First}
    BY <1>1 DEF Sound
  <2>2. ASSUME NEW X \in {Says(r), Used(r), First}, NEW f, NEW z, Told(nrec, X, f, z) PROVE Told(rec, X, f, z)
    <3>1. CASE X = First
      BY <2>2, <3>1, TermsAre DEF Told
    <3>2. CASE X # First
      <4>1. PICK q \in DOMAIN nrec : /\ nrec[q].ok
                                     /\ \/ X = Says(q) /\ f \in DOMAIN nrec[q].claims /\ z = nrec[q].claims[f]
                                        \/ X = Used(q) /\ <<f, z>> \in nrec[q].read
        BY <2>2, <3>2 DEF Told
      <4>2. q = r
        BY <3>2, <4>1, TermsAre
      <4> QED
        BY <4>1, <4>2 DEF Told
    <3> QED
      BY <3>1, <3>2
  <2>3. Told(rec, t[2], t[1], v) /\ Told(rec, t[3], t[1], w)
    BY <1>3, <2>1, <2>2
  <2> QED
    BY <1>1, <1>3, <2>3 DEF TrueRecord
<1>4. ASSUME NEW q \in F.records \cap DOMAIN c
      PROVE  /\ q \in F.kept /\ AcceptedIn(n, nrec, q) /\ c[q] = n[q].ver /\ Agree(c, nrec[q].claims)
             /\ nrec[q] = rec[q]
  <2>1. q \in F.kept /\ AcceptedIn(d, rec, q) /\ c[q] = d[q].ver /\ Agree(c, rec[q].claims)
    BY <1>1 DEF TrueRecord
  <2>2. n[q] = d[q] /\ q \in DOMAIN nrec /\ nrec[q] = rec[q]
    BY <2>1 DEF Spares
  <2> QED
    BY <2>1, <2>2 DEF AcceptedIn
<1>5. ASSUME r \in F.closed
      PROVE  /\ \A f, v : <<f, v>> \in u => f \in DOMAIN c /\ v = c[f]
             /\ \A q \in F.records \cap DOMAIN c : \A f, v :
                   <<f, v>> \in nrec[q].read /\ f \in DOMAIN nrec[q].claims /\ f \in DOMAIN c => v = c[f]
  BY <1>1, <1>4, <1>5 DEF TrueRecord
<1>6. T[r].has \subseteq DOMAIN c /\ DOMAIN c \subseteq T[r].may /\ \A f, v : <<f, v>> \in u => f \in T[r].looked
  BY <1>1 DEF TrueRecord
<1> QED
  BY <1>2, <1>3, <1>4, <1>5, <1>6 DEF TrueRecord

(* A record that is announced as the outline says is true. *)
LEMMA NewRecord ==
  ASSUME NEW F, NEW T, NEW x, NEW d, NEW rec, NEW a, Sound(F, T, d, rec), Fits(F, x, d, rec, a),
         NEW s, Passed(F, x, d, rec, s), s.op = "fill", s.over \subseteq {s.by},
         NEW y, NEW n, NEW nrec, Deed(F, s, x, d, rec, n, nrec), Remembers(s, x, d, rec, n, y),
         Spares(F, d, rec, n, nrec), s.by \in F.records, Announces(F, T, a, s),
         s.by \in DOMAIN nrec, nrec[s.by].ok, nrec[s.by].claims = x.saw, nrec[s.by].read = x.read
  PROVE  TrueRecord(F, T, n, nrec, s.by)
<1> DEFINE r == s.by
           c == x.saw
           u == x.read
<1>1. Digests(F, n, c) /\ Looked(F, n, u)
  <2>1. \A f \in F.files : d[f].ver \in Nat /\ n[f].ver \in Nat /\ d[f].ver <= n[f].ver
    BY DeedNewer
  <2>2. Digests(F, d, c) /\ Looked(F, d, u)
    BY DEF Fits
  <2> QED
    BY <2>1, <2>2, NewerDisk
<1>2. T[r].has \subseteq DOMAIN c /\ DOMAIN c \subseteq T[r].may /\ \A f, v : <<f, v>> \in u => f \in T[r].looked
  BY DEF Fits, Announces
<1>3. ASSUME NEW t \in T[r].facts, t[1] \in F.files, NEW v, NEW w, Told(nrec, t[2], t[1], v), Told(nrec, t[3], t[1], w)
      PROVE  v <= w
  <2>1. \A U \in Was(s, a, t[1], t[2]), W \in Was(s, a, t[1], t[3]) : Derived(F, T, a, s, t[1], U, W)
    BY DEF Announces
  <2>2. NoNewer(y, n, nrec, t[1], t[2], t[3])
    BY <1>3, <2>1, StepHolds
  <2>3. Means(y, n, nrec, t[2], t[1], v) /\ Means(y, n, nrec, t[3], t[1], w)
    BY <1>3 DEF Means
  <2> QED
    BY <2>2, <2>3 DEF NoNewer
<1>4. ASSUME NEW f \in F.files, NEW U, NEW W, Equal(F, T, a, s, f, U, W),
             NEW v, NEW w, Means(x, d, rec, U, f, v), Means(x, d, rec, W, f, w)
      PROVE  v = w
  <2>1. n[f].ver \in Nat
    BY DEF Deed
  <2>2. v <= w /\ w <= v
    BY <1>4, <2>1, DerivedHolds DEF Equal, Before
  <2>3. v \in Nat /\ w \in Nat
    BY <1>4, Bounded
  <2> QED
    BY <2>2, <2>3
<1>5. ASSUME NEW q \in F.records \cap DOMAIN c
      PROVE  /\ q \in F.kept /\ AcceptedIn(n, nrec, q) /\ c[q] = n[q].ver /\ Agree(c, nrec[q].claims)
             /\ nrec[q] = rec[q] /\ q \in a.may \cap F.records /\ AcceptedIn(d, rec, q) /\ TrueRecord(F, T, d, rec, q)
  <2>1. q \in a.may \cap F.records /\ q \in F.files
    BY DEF Fits, Sound
  <2>2. /\ q \in a.acc /\ Derived(F, T, a, s, q, Disk, Saw)
        /\ \A f \in a.may \cap T[q].may : Equal(F, T, a, s, f, Saw, Says(q))
    BY <2>1 DEF Announces
  <2>3. q \in F.kept /\ AcceptedIn(d, rec, q)
    BY <2>2 DEF Fits
  <2>4. n[q] = d[q] /\ q \in DOMAIN nrec /\ nrec[q] = rec[q]
    BY <2>3 DEF Spares
  <2>5. c[q] = d[q].ver
    <3>1. Means(x, d, rec, Disk, q, d[q].ver) /\ Means(x, d, rec, Saw, q, c[q])
      BY MeansDisk, MeansSaw
    <3>2. n[q].ver \in Nat
      BY <2>1 DEF Deed
    <3>3. d[q].ver <= c[q]
      BY <2>1, <2>2, <3>1, <3>2, DerivedHolds DEF Before
    <3>4. d[q].ver \in Nat /\ c[q] \in Nat /\ c[q] <= d[q].ver
      BY <2>1, <3>1, Bounded, TermsAre
    <3> QED
      BY <3>3, <3>4
  <2>6. TrueRecord(F, T, d, rec, q)
    BY <2>3 DEF AcceptedIn, Sound
  <2>7. ASSUME NEW f \in DOMAIN c \cap DOMAIN rec[q].claims PROVE c[f] = rec[q].claims[f]
    <3>1. f \in a.may \cap T[q].may /\ f \in F.files
      BY <2>6, <2>7 DEF Fits, TrueRecord, Digests
    <3>2. Means(x, d, rec, Saw, f, c[f])
      BY <2>7, MeansSaw
    <3>3. Means(x, d, rec, Says(q), f, rec[q].claims[f])
      BY <2>3, <2>7, MeansSays DEF AcceptedIn
    <3> QED
      BY <1>4, <2>2, <3>1, <3>2, <3>3
  <2> QED
    BY <2>1, <2>3, <2>4, <2>5, <2>6, <2>7 DEF AcceptedIn, Agree
<1>6. ASSUME r \in F.closed
      PROVE  /\ \A f, v : <<f, v>> \in u => f \in DOMAIN c /\ v = c[f]
             /\ \A q \in F.records \cap DOMAIN c : \A f, v :
                   <<f, v>> \in nrec[q].read /\ f \in DOMAIN nrec[q].claims /\ f \in DOMAIN c => v = c[f]
  <2>1. /\ a.looked \subseteq a.has
        /\ \A f \in a.looked : Equal(F, T, a, s, f, Saw, Looks)
        /\ \A q \in a.may \cap F.records : \A f \in a.may \cap T[q].may \cap T[q].looked :
              Equal(F, T, a, s, f, Saw, Used(q))
    BY <1>6 DEF Announces
  <2>2. ASSUME NEW f, NEW v, <<f, v>> \in u PROVE f \in DOMAIN c /\ v = c[f]
    <3>1. f \in a.looked /\ f \in DOMAIN c /\ f \in F.files
      BY <2>1, <2>2 DEF Fits, Digests
    <3>2. Means(x, d, rec, Saw, f, c[f]) /\ Means(x, d, rec, Looks, f, v)
      BY <2>2, <3>1, MeansSaw, MeansLooks
    <3>3. c[f] = v
      BY <1>4, <2>1, <3>1, <3>2
    <3> QED
      BY <3>1, <3>3
  <2>3. ASSUME NEW q \in F.records \cap DOMAIN c, NEW f, NEW v,
               <<f, v>> \in nrec[q].read, f \in DOMAIN nrec[q].claims, f \in DOMAIN c
        PROVE  v = c[f]
    <3>1. nrec[q] = rec[q] /\ q \in a.may \cap F.records /\ AcceptedIn(d, rec, q) /\ TrueRecord(F, T, d, rec, q)
      BY <1>5
    <3>2. f \in a.may \cap T[q].may \cap T[q].looked /\ f \in F.files
      BY <2>3, <3>1 DEF Fits, TrueRecord, Digests
    <3>3. Means(x, d, rec, Saw, f, c[f])
      BY <2>3, MeansSaw
    <3>4. Means(x, d, rec, Used(q), f, v)
      BY <2>3, <3>1, MeansUsed DEF AcceptedIn
    <3>5. c[f] = v
      BY <1>4, <2>1, <3>1, <3>2, <3>3, <3>4
    <3> QED
      BY <3>5
  <2> QED
    BY <2>2, <2>3
<1> QED
  BY <1>1, <1>2, <1>3, <1>5, <1>6 DEF TrueRecord

(* What an accepted record says it goes on to say. *)
LEMMA SparesAccepted ==
  ASSUME NEW F, NEW d, NEW rec, NEW n, NEW nrec, Spares(F, d, rec, n, nrec), NEW q \in F.kept, AcceptedIn(d, rec, q)
  PROVE  AcceptedIn(n, nrec, q)
BY DEF Spares, AcceptedIn

(* After a step its invocation fits the note that follows. *)
LEMMA StepFits ==
  ASSUME NEW F, NEW T, NEW x, NEW d, NEW rec, NEW a, Sound(F, T, d, rec), Fits(F, x, d, rec, a),
         NEW s, Passed(F, x, d, rec, s), s.over \subseteq F.files, Adds(s) \subseteq F.files,
         s.op = "fill" => s.over \subseteq {s.by}, s.op = "pin" => s.over \subseteq F.given,
         NEW y, NEW n, NEW nrec, Deed(F, s, x, d, rec, n, nrec), Remembers(s, x, d, rec, n, y),
         Spares(F, d, rec, n, nrec), NEW earned, \A q \in earned : q \in F.kept /\ AcceptedIn(n, nrec, q),
         NEW b, b.has \subseteq a.has \cup Adds(s),
         a.may \cup Adds(s) \cup (IF s.op = "list" THEN s.over ELSE {}) \subseteq b.may,
         a.looked \cup LooksAt(s) \subseteq b.looked,
         b.acc \subseteq a.acc \cup Accepts(F, T, s) \cup earned,
         \A c \in b.facts :
            \A U \in Was(s, a, c[1], c[2]), W \in Was(s, a, c[1], c[3]) : Derived(F, T, a, s, c[1], U, W)
  PROVE  Fits(F, y, n, nrec, b)
<1>1. \A v \in Nat : v # 0 => 1 <= v
  OBVIOUS
<1>2. \A f \in F.files : d[f].ver \in Nat /\ n[f].ver \in Nat /\ d[f].ver <= n[f].ver
  BY DeedNewer
<1>3. Digests(F, n, x.saw) /\ Looked(F, n, x.read)
  BY <1>2, NewerDisk DEF Fits
<1>4. b.has \subseteq DOMAIN y.saw
  BY DEF Fits, Remembers
<1>5. DOMAIN y.saw \subseteq b.may
  BY DEF Fits, Remembers
<1>6. ASSUME NEW f \in DOMAIN y.saw PROVE f \in F.files /\ y.saw[f] \in Nat /\ 1 <= y.saw[f] /\ y.saw[f] <= n[f].ver
  <2>1. CASE f \in DOMAIN x.saw /\ y.saw[f] = x.saw[f]
    BY <1>3, <2>1 DEF Digests
  <2>2. CASE f \in F.files /\ y.saw[f] = d[f].ver /\ d[f].ver # 0
    <3>1. d[f].ver \in Nat /\ n[f].ver \in Nat /\ d[f].ver <= n[f].ver
      BY <1>2, <2>2
    <3>2. 1 <= d[f].ver
      BY <1>1, <2>2, <3>1
    <3> QED
      BY <2>2, <3>1, <3>2
  <2>3. CASE f \in Adds(s) /\ Taken(s, d, rec, n, f, y.saw[f])
    <3>1. f \in F.files
      BY <2>3
    <3>2. CASE s.op \in {"hash", "take", "named"} /\ y.saw[f] = d[f].ver /\ y.saw[f] # 0
      <4>1. d[f].ver \in Nat /\ n[f].ver \in Nat /\ d[f].ver <= n[f].ver
        BY <1>2, <3>1
      <4>2. d[f].ver # 0
        BY <3>2
      <4>3. 1 <= d[f].ver
        BY <1>1, <4>1, <4>2
      <4> QED
        BY <3>1, <3>2, <4>1, <4>3
    <3>3. CASE s.op = "pin" /\ y.saw[f] = 1
      <4>1. f \in F.given
        BY <2>3, <3>3 DEF Adds
      <4>2. 1 <= d[f].ver
        BY <4>1 DEF Sound
      <4> QED
        BY <1>2, <3>1, <3>3, <4>2
    <3>4. CASE s.op = "follow" /\ f \in DOMAIN rec[s.by].claims /\ y.saw[f] = rec[s.by].claims[f]
      <4>1. TrueRecord(F, T, d, rec, s.by)
        BY <3>4 DEF Passed, AcceptedIn, Sound
      <4>2. Digests(F, n, rec[s.by].claims)
        BY <1>2, <4>1, NewerDisk DEF TrueRecord
      <4> QED
        BY <3>4, <4>2 DEF Digests
    <3>5. CASE s.op = "fill" /\ y.saw[f] = n[f].ver
      <4>1. f = s.by
        BY <2>3, <3>5 DEF Adds
      <4>2. d[f].ver < n[f].ver
        BY <3>5, <4>1 DEF Deed
      <4> QED
        BY <1>2, <3>1, <3>5, <4>2
    <3> QED
      BY <2>3, <3>2, <3>3, <3>4, <3>5 DEF Taken
  <2> QED
    BY <2>1, <2>2, <2>3 DEF Remembers
<1>7. Digests(F, n, y.saw)
  BY <1>6 DEF Digests
<1>8. LooksAt(s) \subseteq F.files
  BY DEF LooksAt
<1>9. Looked(F, n, y.read)
  <2>1. y.read \subseteq F.files \X Nat
    <3>1. x.read \subseteq F.files \X Nat
      BY <1>3 DEF Looked
    <3>2. \A f \in LooksAt(s) : <<f, d[f].ver>> \in F.files \X Nat
      BY <1>2, <1>8
    <3>3. y.read = x.read \cup {<<f, d[f].ver>> : f \in LooksAt(s)}
      BY DEF Remembers
    <3>4. {<<f, d[f].ver>> : f \in LooksAt(s)} \subseteq F.files \X Nat
      BY <3>2, Zenon
    <3> QED
      BY <3>1, <3>3, <3>4
  <2>2. ASSUME NEW f, NEW v, <<f, v>> \in y.read PROVE v \in Nat /\ v <= n[f].ver /\ (f \in F.given => 1 <= v)
    <3>1. CASE <<f, v>> \in x.read
      BY <1>3, <3>1 DEF Looked
    <3>2. CASE f \in LooksAt(s) /\ v = d[f].ver
      <4>1. d[f].ver \in Nat /\ n[f].ver \in Nat /\ d[f].ver <= n[f].ver
        BY <1>2, <1>8, <3>2
      <4>2. f \in F.given => 1 <= d[f].ver
        BY DEF Sound
      <4> QED
        BY <3>2, <4>1, <4>2
    <3>a. y.read = x.read \cup {<<g, d[g].ver>> : g \in LooksAt(s)}
      BY DEF Remembers
    <3>b. <<f, v>> \in x.read \/ <<f, v>> \in {<<g, d[g].ver>> : g \in LooksAt(s)}
      BY <2>2, <3>a
    <3>3. <<f, v>> \in x.read \/ \E g \in LooksAt(s) : <<f, v>> = <<g, d[g].ver>>
      BY <3>b, Zenon
    <3>4. <<f, v>> \in x.read \/ (f \in LooksAt(s) /\ v = d[f].ver)
      BY <3>3
    <3> QED
      BY <3>1, <3>2, <3>4
  <2> QED
    BY <2>1, <2>2 DEF Looked
<1>10. \A f, v : <<f, v>> \in y.read => f \in b.looked
  BY DEF Fits, Remembers
<1>11. ASSUME NEW q \in b.acc PROVE q \in F.kept /\ AcceptedIn(n, nrec, q)
  <2>1. CASE q \in a.acc \cup Accepts(F, T, s)
    BY <2>1, AcceptsHolds, SparesAccepted
  <2>2. CASE q \in earned
    BY <2>2
  <2> QED
    BY <1>11, <2>1, <2>2
<1>12. ASSUME NEW c \in b.facts, c[1] \in F.files PROVE NoNewer(y, n, nrec, c[1], c[2], c[3])
  BY <1>12, StepHolds
<1> QED
  BY <1>4, <1>5, <1>7, <1>9, <1>10, <1>11, <1>12 DEF Fits

(* Whatever somebody else did, who did not touch what the notes speak of.  *)
LEMMA OthersFit ==
  ASSUME NEW F, NEW T, NEW x, NEW d, NEW rec, NEW b, Sound(F, T, d, rec), Fits(F, x, d, rec, b),
         NEW n, NEW nrec, \A f \in F.files : n[f].ver \in Nat /\ d[f].ver <= n[f].ver,
         Spares(F, d, rec, n, nrec),
         \A c \in b.facts : c[1] \in F.files =>
            /\ \A X \in {c[2], c[3]} :
                  \/ X \in {Saw, Looks, First, Disk}
                  \/ \E q : /\ X \in {Says(q), Used(q)}
                            /\ q \in DOMAIN nrec /\ nrec[q].ok => q \in DOMAIN rec /\ nrec[q] = rec[q]
            /\ c[2] = Disk => n[c[1]] = d[c[1]]
            /\ c[3] # Disk
  PROVE  Fits(F, x, n, nrec, b)
<1>1. Digests(F, n, x.saw) /\ Looked(F, n, x.read)
  <2>1. \A f \in F.files : d[f].ver \in Nat /\ n[f].ver \in Nat /\ d[f].ver <= n[f].ver
    BY DEF Sound
  <2> QED
    BY <2>1, NewerDisk DEF Fits
<1>2. \A q \in b.acc : AcceptedIn(n, nrec, q)
  BY SparesAccepted DEF Fits
<1>3. ASSUME NEW f \in F.files, NEW X, NEW v, Means(x, n, nrec, X, f, v),
             \/ X \in {Saw, Looks, First}
             \/ X = Disk /\ n[f] = d[f]
             \/ \E q : /\ X \in {Says(q), Used(q)}
                       /\ q \in DOMAIN nrec /\ nrec[q].ok => q \in DOMAIN rec /\ nrec[q] = rec[q]
      PROVE  Means(x, d, rec, X, f, v)
  <2>1. CASE X = Saw
    BY <1>3, <2>1, MeansSaw
  <2>2. CASE X = Looks
    BY <1>3, <2>2, MeansLooks
  <2>3. CASE X = First
    BY <1>3, <2>3, MeansFirst
  <2>4. CASE X = Disk /\ n[f] = d[f]
    BY <1>3, <2>4, MeansDisk
  <2>5. ASSUME NEW q, X = Says(q), q \in DOMAIN nrec /\ nrec[q].ok => q \in DOMAIN rec /\ nrec[q] = rec[q]
        PROVE  Means(x, d, rec, X, f, v)
    <3>1. q \in DOMAIN nrec /\ nrec[q].ok /\ f \in DOMAIN nrec[q].claims /\ v = nrec[q].claims[f]
      BY <1>3, <2>5, MeansSays
    <3>2. q \in DOMAIN rec /\ nrec[q] = rec[q]
      BY <2>5, <3>1
    <3> QED
      BY <2>5, <3>1, <3>2, MeansSays
  <2>6. ASSUME NEW q, X = Used(q), q \in DOMAIN nrec /\ nrec[q].ok => q \in DOMAIN rec /\ nrec[q] = rec[q]
        PROVE  Means(x, d, rec, X, f, v)
    <3>1. q \in DOMAIN nrec /\ nrec[q].ok /\ <<f, v>> \in nrec[q].read
      BY <1>3, <2>6, MeansUsed
    <3>2. q \in DOMAIN rec /\ nrec[q] = rec[q]
      BY <2>6, <3>1
    <3> QED
      BY <2>6, <3>1, <3>2, MeansUsed
  <2> QED
    BY <1>3, <2>1, <2>2, <2>3, <2>4, <2>5, <2>6
<1>4. ASSUME NEW c \in b.facts, c[1] \in F.files, NEW v, NEW w,
             Means(x, n, nrec, c[2], c[1], v), Means(x, n, nrec, c[3], c[1], w)
      PROVE  v <= w
  <2>a. /\ \A X \in {c[2], c[3]} :
              \/ X \in {Saw, Looks, First, Disk}
              \/ \E q : /\ X \in {Says(q), Used(q)}
                        /\ q \in DOMAIN nrec /\ nrec[q].ok => q \in DOMAIN rec /\ nrec[q] = rec[q]
        /\ c[2] = Disk => n[c[1]] = d[c[1]]
        /\ c[3] # Disk
    BY <1>4
  <2>1. Means(x, d, rec, c[2], c[1], v)
    <3> DEFINE X == c[2]
    <3>1. \/ X \in {Saw, Looks, First}
          \/ X = Disk /\ n[c[1]] = d[c[1]]
          \/ \E q : /\ X \in {Says(q), Used(q)}
                    /\ q \in DOMAIN nrec /\ nrec[q].ok => q \in DOMAIN rec /\ nrec[q] = rec[q]
      BY <2>a
    <3>2. Means(x, n, nrec, X, c[1], v)
      BY <1>4
    <3> HIDE DEF X
    <3>3. Means(x, d, rec, X, c[1], v)
      BY <1>3, <1>4, <3>1, <3>2
    <3> QED
      BY <3>3 DEF X
  <2>2. Means(x, d, rec, c[3], c[1], w)
    <3> DEFINE X == c[3]
    <3>1. \/ X \in {Saw, Looks, First}
          \/ X = Disk /\ n[c[1]] = d[c[1]]
          \/ \E q : /\ X \in {Says(q), Used(q)}
                    /\ q \in DOMAIN nrec /\ nrec[q].ok => q \in DOMAIN rec /\ nrec[q] = rec[q]
      BY <2>a
    <3>2. Means(x, n, nrec, X, c[1], w)
      BY <1>4
    <3> HIDE DEF X
    <3>3. Means(x, d, rec, X, c[1], w)
      BY <1>3, <1>4, <3>1, <3>2
    <3> QED
      BY <3>3 DEF X
  <2> QED
    BY <1>4, <2>1, <2>2 DEF Fits, NoNewer
<1> QED
  BY <1>1, <1>2, <1>4 DEF Fits, NoNewer

(* The files and records stay as they should be. *)
LEMMA StaysSound ==
  ASSUME NEW F, NEW T, NEW d, NEW rec, Sound(F, T, d, rec), NEW n, NEW nrec, Spares(F, d, rec, n, nrec),
         \A f \in F.files : n[f].ver \in Nat /\ d[f].ver <= n[f].ver, F.given \subseteq F.files,
         \A f \in F.files : Fixed(F, f) => n[f] = d[f],
         DOMAIN nrec \subseteq F.records,
         \A r \in DOMAIN nrec : nrec[r].ok =>
            (r \in DOMAIN rec /\ nrec[r] = rec[r]) \/ TrueRecord(F, T, n, nrec, r)
  PROVE  Sound(F, T, n, nrec)
<1>1. \A f \in F.given : 1 <= n[f].ver
  <2>1. SUFFICES ASSUME NEW f \in F.given PROVE 1 <= n[f].ver
    OBVIOUS
  <2>2. 1 <= d[f].ver /\ d[f].ver \in Nat /\ n[f].ver \in Nat /\ d[f].ver <= n[f].ver
    BY DEF Sound
  <2> QED
    BY <2>2
<1>2. ASSUME NEW r \in DOMAIN nrec, nrec[r].ok PROVE TrueRecord(F, T, n, nrec, r)
  <2>1. CASE r \in DOMAIN rec /\ nrec[r] = rec[r]
    BY <1>2, <2>1, OldRecord
  <2> QED
    BY <1>2, <2>1
<1> QED
  BY <1>1, <1>2 DEF Sound
-----------------------------------------------------------------------------
(* A step touches only the files its text says it touches, and only writes *)
(* what it announces.                                                      *)
Does(p, s) == Deed(Experiment, s, run[p], disk, record, disk', record')

(* The records stay, or one is written that does not say ok, or is said ok *)
(* of what was seen and read.                                              *)
Announced(p, s) ==
    \/ record' = record
    \/ s.by \in Records /\ \E v : ~v.ok /\ record' = Joined(Entry(s.by, v), record)

(* A step that fills nothing does what its text says. *)
LEMMA DoesNot ==
  ASSUME WorldInv, NEW p \in Invocations, NEW s \in Now(p), Effect(p, s), s.op # "fill",
         \A f \in Files : disk'[f] = disk[f] \/ (Touches(s, f) /\ disk[f].ver < disk'[f].ver),
         Announced(p, s)
  PROVE  Does(p, s)
<1>1. Files = Experiment.files /\ Records = Experiment.records
  BY DEF Files, Records, Experiment
<1>2. disk' \in [Files -> [ver : Nat, whole : BOOLEAN]]
  BY DEF Effect
<1>3. \A f \in Experiment.files : /\ disk'[f].ver \in Nat
                                  /\ disk'[f] = disk[f] \/ (Touches(s, f) /\ disk[f].ver < disk'[f].ver)
  BY <1>1, <1>2
<1>4. DOMAIN record' \subseteq Experiment.records
  BY <1>1, EffectRecord
<1>5. ASSUME NEW r \in DOMAIN record', record'[r].ok
      PROVE  r \in DOMAIN record /\ record'[r] = record[r] /\ ~(s.op = "fill" /\ s.by = r)
  <2>1. CASE record' = record
    BY <1>5, <2>1
  <2>2. CASE record' # record
    <3>1. PICK v : ~v.ok /\ record' = Joined(Entry(s.by, v), record)
      BY <2>2 DEF Announced
    <3>2. r \in {s.by} \cup DOMAIN record /\ record'[r] = IF r = s.by THEN v ELSE record[r]
      BY <1>5, <3>1 DEF Joined, Entry
    <3> QED
      BY <1>5, <3>1, <3>2
  <2> QED
    BY <2>1, <2>2
<1> QED
  BY <1>3, <1>4, <1>5 DEF Does, Deed

(* Writing over one file. *)
LEMMA OverOne ==
  ASSUME WorldInv, NEW g \in Files, NEW whole,
         disk' = [disk EXCEPT ![g] = [ver |-> @.ver + 1, whole |-> whole]]
  PROVE  /\ \A f \in Files : f # g => disk'[f] = disk[f]
         /\ disk[g].ver < disk'[g].ver /\ disk'[g].whole = whole /\ disk'[g].ver = disk[g].ver + 1
<1>1. disk \in [Files -> [ver : Nat, whole : BOOLEAN]] /\ disk[g].ver \in Nat
  BY DEF WorldInv
<1>2. disk'[g] = [ver |-> disk[g].ver + 1, whole |-> whole]
  BY <1>1
<1> QED
  BY <1>1, <1>2

(* Filling a file: it is whole, and a record says what was seen and read.  *)
LEMMA FillDoes ==
  ASSUME WorldInv, NEW p \in Invocations, NEW s \in Now(p), FillStep(p, s)
  PROVE  /\ Does(p, s) /\ disk'[s.by].ver = disk[s.by].ver + 1
         /\ s.by \in Records /\ ~run[p].bad => AcceptedIn(disk', record', s.by)
<1>1. /\ s.op = "fill" /\ disk' = [disk EXCEPT ![s.by] = [ver |-> @.ver + 1, whole |-> TRUE]]
      /\ record' = IF s.by \in Records THEN Joined(Entry(s.by, Verdict(p)), record) ELSE record
  BY Zenon DEF FillStep
<1>2. s.by \in Files
  BY <1>1, OverFiles
<1>3. /\ \A f \in Files : f # s.by => disk'[f] = disk[f]
      /\ disk[s.by].ver < disk'[s.by].ver /\ disk'[s.by].whole = TRUE /\ disk'[s.by].ver = disk[s.by].ver + 1
  BY <1>1, <1>2, OverOne
<1>4. Files = Experiment.files /\ Records = Experiment.records
  BY DEF Files, Records, Experiment
<1>5. Effect(p, s)
  BY StepEffect DEF Outward
<1>6. \A f \in Experiment.files : /\ disk'[f].ver \in Nat
                                  /\ disk'[f] = disk[f] \/ (Touches(s, f) /\ disk[f].ver < disk'[f].ver)
  <2>1. disk' \in [Files -> [ver : Nat, whole : BOOLEAN]]
    BY <1>5 DEF Effect
  <2>2. Touches(s, s.by)
    BY <1>1 DEF Touches
  <2> QED
    BY <1>3, <1>4, <2>1, <2>2
<1>7. DOMAIN record' \subseteq Experiment.records
  BY <1>4, <1>5, EffectRecord
<1>8. ASSUME NEW r \in DOMAIN record', record'[r].ok
      PROVE  \/ r \in DOMAIN record /\ record'[r] = record[r] /\ ~(s.op = "fill" /\ s.by = r)
             \/ s.op = "fill" /\ s.by = r /\ ~run[p].bad /\ record'[r].claims = run[p].saw /\ record'[r].read = run[p].read
  <2>1. CASE s.by \in Records
    <3>1. r \in {s.by} \cup DOMAIN record /\ record'[r] = IF r = s.by THEN Verdict(p) ELSE record[r]
      BY <1>1, <1>8, <2>1 DEF Joined, Entry
    <3>2. Verdict(p).ok = ~run[p].bad /\ Verdict(p).claims = run[p].saw /\ Verdict(p).read = run[p].read
      BY DEF Verdict
    <3> QED
      BY <1>1, <1>8, <3>1, <3>2
  <2>2. CASE s.by \notin Records
    <3>1. record' = record /\ r # s.by
      BY <1>1, <1>8, <2>2 DEF WorldInv
    <3> QED
      BY <1>8, <3>1
  <2> QED
    BY <2>1, <2>2
<1>9. s.by \in Records /\ ~run[p].bad => AcceptedIn(disk', record', s.by)
  <2>1. SUFFICES ASSUME s.by \in Records, ~run[p].bad PROVE AcceptedIn(disk', record', s.by)
    OBVIOUS
  <2>2. s.by \in DOMAIN record' /\ record'[s.by] = Verdict(p)
    BY <1>1, <2>1 DEF Joined, Entry
  <2>3. Verdict(p).ok = ~run[p].bad
    BY DEF Verdict
  <2> QED
    BY <1>3, <2>1, <2>2, <2>3 DEF AcceptedIn
<1> QED
  BY <1>1, <1>3, <1>6, <1>7, <1>8, <1>9 DEF Does, Deed

(* Every step does what its text says. *)
LEMMA StepDoes ==
  ASSUME WorldInv, NEW p \in Invocations, NEW s \in Now(p), Inward(p, s) \/ Outward(p, s)
  PROVE  Does(p, s)
<1>e. Effect(p, s)
  BY StepEffect
<1>1. CASE \/ Inward(p, s)      \/ FreshStep(p, s)  \/ HashStep(p, s) \/ NamedStep(p, s)
           \/ FollowStep(p, s)  \/ SameStep(p, s)   \/ ListStep(p, s) \/ ReadStep(p, s)
           \/ TakeStep(p, s)    \/ SettleStep(p, s) \/ FoundStep(p, s) \/ AcceptedStep(p, s)
           \/ ValidatedStep(p, s)
  <2>1. World' = World /\ s.op \notin {"create", "fill", "draft"}
    BY <1>1, Zenon DEF Inward, TryStep, PinStep, MatchesStep, GateStep, JudgeStep, SkipStep, FreshStep,
          HashStep, NamedStep, FollowStep, SameStep, ListStep, ReadStep, TakeStep, SettleStep,
          FoundStep, AcceptedStep, ValidatedStep
  <2>2. disk' = disk /\ record' = record /\ s.op # "fill"
    BY <2>1 DEF World
  <2> QED
    BY <1>e, <2>2, DoesNot DEF Announced
<1>2. CASE LaunchStep(p, s) \/ TellStep(p, s)
  <2>1. disk' = disk /\ record' = record /\ s.op # "fill"
    BY <1>2 DEF LaunchStep, TellStep
  <2> QED
    BY <1>e, <2>1, DoesNot DEF Announced
<1>3. CASE CreateStep(p, s)
  <2>1. /\ s.op = "create" /\ record' = record
        /\ disk' = IF Exists(s.by) THEN disk ELSE [disk EXCEPT ![s.by] = [ver |-> 1, whole |-> FALSE]]
    BY <1>3, Zenon DEF CreateStep
  <2>2. s.by \in Files /\ Touches(s, s.by)
    BY <2>1, OverFiles DEF Touches
  <2>3. disk \in [Files -> [ver : Nat, whole : BOOLEAN]]
    BY DEF WorldInv
  <2>4. disk'[s.by] = disk[s.by] \/ disk[s.by].ver < disk'[s.by].ver
    <3>1. CASE Exists(s.by)
      BY <2>1, <3>1
    <3>2. CASE ~Exists(s.by)
      <4>1. disk'[s.by].ver = 1 /\ disk[s.by].ver = 0
        BY <2>1, <2>2, <2>3, <3>2 DEF Exists
      <4> QED
        BY <4>1
    <3> QED
      BY <3>1, <3>2
  <2>5. \A f \in Files : f # s.by => disk'[f] = disk[f]
    BY <2>1, <2>3
  <2> QED
    BY <1>e, <2>1, <2>2, <2>4, <2>5, DoesNot DEF Announced
<1>4. CASE PlaceStep(p, s)
  <2>1. s.op = "place" /\ record' = record /\ disk' = [disk EXCEPT ![s.by] = [ver |-> @.ver + 1, whole |-> FALSE]]
    BY <1>4 DEF PlaceStep
  <2>2. s.by \in Files /\ Touches(s, s.by)
    BY <2>1, OverFiles DEF Touches
  <2>3. /\ \A f \in Files : f # s.by => disk'[f] = disk[f]
        /\ disk[s.by].ver < disk'[s.by].ver
    BY <2>1, <2>2, OverOne
  <2> QED
    BY <1>e, <2>1, <2>2, <2>3, DoesNot DEF Announced
<1>5. CASE FillStep(p, s)
  BY <1>5, FillDoes
<1>6. CASE DraftStep(p, s)
  <2> DEFINE v == [Verdict(p) EXCEPT !.ok = FALSE]
  <2>1. /\ s.op = "draft" /\ disk' = [disk EXCEPT ![s.by] = [ver |-> @.ver + 1, whole |-> TRUE]]
        /\ record' = Joined(Entry(s.by, v), record)
    BY <1>6, Zenon DEF DraftStep
  <2>2. v.ok = FALSE
    BY DEF Verdict
  <2>3. s.by \in Files /\ s.by \in Records /\ Touches(s, s.by)
    BY <2>1, OverFiles DEF Touches
  <2>4. /\ \A f \in Files : f # s.by => disk'[f] = disk[f]
        /\ disk[s.by].ver < disk'[s.by].ver
    BY <2>1, <2>3, OverOne
  <2> HIDE DEF v
  <2>5. Announced(p, s)
    BY <2>1, <2>2, <2>3 DEF Announced
  <2> QED
    BY <1>e, <2>1, <2>3, <2>4, <2>5, DoesNot
<1>7. CASE NoteStep(p, s)
  <2>1. /\ s.op = "note" /\ record' = record
        /\ disk' = [f \in Files |-> IF f \in s.over /\ Exists(s.by) /\ ~Exists(f)
                                    THEN [ver |-> 1, whole |-> TRUE] ELSE disk[f]]
    BY <1>7 DEF NoteStep
  <2>2. ASSUME NEW f \in Files PROVE disk'[f] = disk[f] \/ (Touches(s, f) /\ disk[f].ver < disk'[f].ver)
    <3>1. CASE f \in s.over /\ ~Exists(f) /\ disk'[f] = [ver |-> 1, whole |-> TRUE]
      <4>1. disk[f].ver = 0 /\ disk'[f].ver = 1
        BY <3>1 DEF Exists
      <4>2. Touches(s, f)
        BY <2>1, <3>1 DEF Touches
      <4> QED
        BY <4>1, <4>2
    <3> QED
      BY <2>1, <3>1
  <2> QED
    BY <1>e, <2>1, <2>2, DoesNot DEF Announced
<1> QED
  BY <1>1, <1>2, <1>3, <1>4, <1>5, <1>6, <1>7 DEF Outward
-----------------------------------------------------------------------------
(* An invocation that goes on and has found nothing wrong has checked what *)
(* its step checks, and remembers what its step looks at.                  *)
Went(p) == run'[p].phase # "" /\ ~run'[p].bad
Checked(p, s) ==
    /\ Passed(Experiment, run[p], disk, record, s)
    /\ Remembers(s, run[p], disk, record, disk', run'[p])
    /\ s.op = "accepted" /\ run'[p].at = run[p].at + 1 /\ s.past # 0 => AcceptedIn(disk, record, s.by)

(* Who raised is gone or in its handler. *)
LEMMA RaisedIsBad ==
  ASSUME WorldInv, NEW p \in Invocations, Raise(p)
  PROVE  ~Went(p)
<1>1. DOMAIN run = Invocations /\ DOMAIN run[p] = Fields
  BY DEF WorldInv, RunTyped
<1>2. run'[p] = Raised(p)
  BY <1>1 DEF Raise
<1>3. CASE run[p].try /\ ~run[p].failing
  <2>1. Raised(p).bad
    BY <1>1, <1>3 DEF Raised, Fields
  <2> QED
    BY <1>2, <2>1 DEF Went
<1>4. CASE ~(run[p].try /\ ~run[p].failing)
  <2>1. Raised(p) = Idle /\ Idle.phase = ""
    BY <1>4 DEF Raised, Idle
  <2> QED
    BY <1>2, <2>1 DEF Went
<1> QED
  BY <1>3, <1>4

(* What moving on does to the memory of an invocation. *)
LEMMA MemoryIs ==
  ASSUME WorldInv, NEW p \in Invocations
  PROVE  /\ Advance(p) => /\ run'[p].saw = run[p].saw /\ run'[p].read = run[p].read
                          /\ run'[p].at = run[p].at + 1 /\ run'[p].bad = run[p].bad
         /\ \A saw : Keep(p, saw) => /\ run'[p].saw = Joined(saw, run[p].saw) /\ run'[p].read = run[p].read
                                     /\ run'[p].bad = run[p].bad /\ run'[p].phase = run[p].phase
<1>1. DOMAIN run = Invocations /\ DOMAIN run[p] = Fields
  BY DEF WorldInv, RunTyped
<1> QED
  BY <1>1 DEF Advance, Keep, Fields

(* A step that keeps no digest and reads nothing. *)
LEMMA RemembersNothing ==
  ASSUME NEW s, NEW x, NEW d, NEW rec, NEW n, NEW y,
         y.saw = x.saw, y.read = x.read, Adds(s) = {}, LooksAt(s) = {}
  PROVE  Remembers(s, x, d, rec, n, y)
<1>1. y.read = x.read \cup {<<f, d[f].ver>> : f \in LooksAt(s)}
  OBVIOUS
<1> QED
  BY <1>1 DEF Remembers

(* One that keeps digests. *)
LEMMA RemembersKept ==
  ASSUME NEW s, NEW x, NEW d, NEW rec, NEW n, NEW y, NEW g,
         y.saw = Joined(g, x.saw), DOMAIN g = Adds(s), \A f \in DOMAIN g : Taken(s, d, rec, n, f, g[f]),
         y.read = x.read \cup {<<f, d[f].ver>> : f \in LooksAt(s)}
  PROVE  Remembers(s, x, d, rec, n, y)
<1>1. DOMAIN y.saw = DOMAIN g \cup DOMAIN x.saw
  BY DEF Joined
<1>2. \A f \in DOMAIN y.saw : y.saw[f] = IF f \in DOMAIN g THEN g[f] ELSE x.saw[f]
  BY DEF Joined
<1> QED
  BY <1>1, <1>2 DEF Remembers

(* The steps that check and go on. *)
LEMMA ChecksOnly ==
  ASSUME WorldInv, NEW p \in Invocations, NEW s \in Now(p), Went(p),
         \/ FreshStep(p, s) \/ SameStep(p, s) \/ MatchesStep(p, s) \/ GateStep(p, s)
         \/ CreateStep(p, s) \/ PlaceStep(p, s) \/ DraftStep(p, s) \/ NoteStep(p, s) \/ TellStep(p, s)
         \/ ValidatedStep(p, s)
  PROVE  Checked(p, s)
<1> USE DEF Require
<1>1. /\ Advance(p)
      /\ s.op \in {"fresh", "same", "matches", "gate", "create", "place", "draft", "note", "tell", "validated"}
  BY RaisedIsBad, Zenon DEF FreshStep, SameStep, MatchesStep, GateStep, CreateStep, PlaceStep, DraftStep, NoteStep, TellStep,
     ValidatedStep
<1>2. Adds(s) = {} /\ LooksAt(s) = {}
  BY <1>1 DEF Adds, LooksAt
<1>3. Remembers(s, run[p], disk, record, disk', run'[p])
  BY <1>1, <1>2, MemoryIs, RemembersNothing
<1>4. s.op = "same" => \A f \in Rechecked(p, s) : run[p].saw[f] = disk[f].ver
  <2>1. SUFFICES ASSUME s.op = "same" PROVE \A f \in Rechecked(p, s) : run[p].saw[f] = disk[f].ver
    OBVIOUS
  <2>2. SameStep(p, s)
    BY <2>1 DEF FreshStep, MatchesStep, GateStep, CreateStep, PlaceStep, DraftStep, NoteStep, TellStep, ValidatedStep
  <2> QED
    BY <2>2, RaisedIsBad, Zenon DEF SameStep
<1>5. s.op = "same" => \A f \in DOMAIN run[p].saw : s.over = {} \/ f \in s.over => run[p].saw[f] = disk[f].ver
  BY <1>4 DEF Rechecked
<1>6. s.op = "matches" => \A f, v : <<f, v>> \in run[p].read /\ f \in s.over => v = run[p].saw[f]
  <2>1. SUFFICES ASSUME s.op = "matches", NEW f, NEW v, <<f, v>> \in run[p].read, f \in s.over PROVE v = run[p].saw[f]
    OBVIOUS
  <2>2. MatchesStep(p, s)
    BY <2>1 DEF FreshStep, SameStep, GateStep, CreateStep, PlaceStep, DraftStep, NoteStep, TellStep, ValidatedStep
  <2>3. \A e \in run[p].read : e[1] \in s.over => e[2] = run[p].saw[e[1]]
    BY <2>2, RaisedIsBad, Zenon DEF MatchesStep
  <2>4. <<f, v>>[1] \in s.over => <<f, v>>[2] = run[p].saw[<<f, v>>[1]]
    BY <2>1, <2>3
  <2> QED
    BY <2>1, <2>4
<1>7. s.op = "validated" => \A f, v : <<f, v>> \in record[s.by].read /\ f \in s.over => v = disk[f].ver
  <2>1. SUFFICES ASSUME s.op = "validated", NEW f, NEW v, <<f, v>> \in record[s.by].read, f \in s.over
                 PROVE  v = disk[f].ver
    OBVIOUS
  <2>2. ValidatedStep(p, s)
    BY <2>1 DEF FreshStep, SameStep, MatchesStep, GateStep, CreateStep, PlaceStep, DraftStep, NoteStep, TellStep
  <2>3. \A e \in record[s.by].read : e[1] \in s.over => e[2] = disk[e[1]].ver
    BY <2>2, RaisedIsBad, Zenon DEF ValidatedStep
  <2>4. <<f, v>>[1] \in s.over => <<f, v>>[2] = disk[<<f, v>>[1]].ver
    BY <2>1, <2>3
  <2> QED
    BY <2>1, <2>4
<1> QED
  BY <1>1, <1>3, <1>5, <1>6, <1>7 DEF Checked, Passed

(* Those that change nothing of the memory by their own. *)
LEMMA ChecksNot ==
  ASSUME WorldInv, NEW p \in Invocations, NEW s \in Now(p), Went(p),
         \/ TryStep(p, s) \/ JudgeStep(p, s) \/ SkipStep(p, s)
         \/ FoundStep(p, s) \/ AcceptedStep(p, s) \/ SettleStep(p, s)
  PROVE  Checked(p, s)
<1> USE DEF Require
<1>1. DOMAIN run = Invocations /\ DOMAIN run[p] = Fields
  BY DEF WorldInv, RunTyped
<1>2. /\ s.op \in {"try", "judge", "skip", "found", "accepted", "settle"}
      /\ run'[p].saw = run[p].saw /\ run'[p].read = run[p].read
  <2>1. CASE TryStep(p, s)
    BY <1>1, <2>1 DEF TryStep, Fields
  <2>2. CASE JudgeStep(p, s)
    <3>1. PICK bad : run' = [run EXCEPT ![p].at = @ + 1, ![p].bad = @ \/ bad]
      BY <2>2 DEF JudgeStep
    <3>2. s.op = "judge"
      BY <2>2 DEF JudgeStep
    <3> DEFINE worse == run[p].bad \/ bad
    <3>3. run' = [run EXCEPT ![p].at = @ + 1, ![p].bad = worse]
      BY <3>1
    <3> HIDE DEF worse
    <3> QED
      BY <1>1, <3>2, <3>3 DEF Fields
  <2>3. CASE SkipStep(p, s)
    BY <1>1, <2>3 DEF SkipStep, Fields
  <2>4. CASE FoundStep(p, s)
    BY <1>1, <2>4 DEF FoundStep, Fields
  <2>5. CASE AcceptedStep(p, s)
    <3> DEFINE i == run[p].at + 1 + (IF Ok(s.by) THEN 0 ELSE s.past)
    <3>1. s.op = "accepted" /\ run' = [run EXCEPT ![p].at = i]
      BY <2>5, RaisedIsBad, Zenon DEF AcceptedStep
    <3> HIDE DEF i
    <3> QED
      BY <1>1, <3>1 DEF Fields
  <2>6. CASE SettleStep(p, s)
    BY <1>1, <2>6 DEF SettleStep, Fields
  <2> QED
    BY <2>1, <2>2, <2>3, <2>4, <2>5, <2>6
<1>3. Adds(s) = {} /\ LooksAt(s) = {}
  BY <1>2 DEF Adds, LooksAt
<1>4. Remembers(s, run[p], disk, record, disk', run'[p])
  BY <1>2, <1>3, RemembersNothing
<1>5. s.op = "accepted" /\ run'[p].at = run[p].at + 1 /\ s.past # 0 => AcceptedIn(disk, record, s.by)
  <2>1. SUFFICES ASSUME s.op = "accepted", run'[p].at = run[p].at + 1, s.past # 0 PROVE AcceptedIn(disk, record, s.by)
    OBVIOUS
  <2>2. AcceptedStep(p, s)
    BY <2>1 DEF TryStep, JudgeStep, SkipStep, FoundStep, SettleStep
  <2> DEFINE next == run[p].at + 1 + (IF Ok(s.by) THEN 0 ELSE s.past)
  <2>3. disk[s.by].whole /\ run' = [run EXCEPT ![p].at = next]
    BY <2>2, RaisedIsBad, Zenon DEF AcceptedStep
  <2>4. run'[p].at = next
    BY <1>1, <2>3 DEF Fields
  <2>5. run[p].at \in Nat /\ s.past \in Nat
    <3>1. BookShaped(Experiment) /\ AtStep(Experiment, run[p], s)
      BY NowIs
    <3> DEFINE t == ScriptOf(Experiment, run[p])
               i == run[p].at
    <3>2. i \in DOMAIN t /\ s = t[i] /\ i \in Nat /\ run[p].phase \in DOMAIN Experiment.phases
      BY <3>1 DEF AtStep, RunTyped
    <3>3. t \in {Experiment.phases[run[p].phase].steps, Experiment.phases[run[p].phase].failing}
      BY DEF ScriptOf
    <3> HIDE DEF t, i
    <3>4. t[i].past \in Nat
      BY <3>1, <3>2, <3>3, ScriptsAre
    <3> QED
      BY <3>2, <3>4 DEF i
  <2>6. Ok(s.by)
    BY <2>1, <2>4, <2>5
  <2> QED
    BY <2>3, <2>6 DEF AcceptedIn, Ok
<1>6. s.op = "settle" => \A f \in DOMAIN run[p].saw : s.over = {} \/ f \in s.over => run[p].saw[f] = disk[f].ver
  <2>1. SUFFICES ASSUME s.op = "settle"
                 PROVE  \A f \in DOMAIN run[p].saw : s.over = {} \/ f \in s.over => run[p].saw[f] = disk[f].ver
    OBVIOUS
  <2>2. SettleStep(p, s)
    BY <2>1 DEF TryStep, JudgeStep, SkipStep, FoundStep, AcceptedStep
  <2> DEFINE worse == \E f \in DOMAIN run[p].saw :
                        (s.over = {} \/ f \in s.over) /\ run[p].saw[f] # disk[f].ver
  <2>3. run' = [run EXCEPT ![p].at = @ + 1, ![p].bad = @ \/ worse]
    BY <2>2 DEF SettleStep
  <2> HIDE DEF worse
  <2>4. run'[p].bad <=> run[p].bad \/ worse
    BY <1>1, <2>3 DEF Fields
  <2>5. ~worse
    BY <2>4 DEF Went
  <2> QED
    BY <2>5 DEF worse
<1> QED
  BY <1>2, <1>4, <1>5, <1>6 DEF Checked, Passed

(* Those that keep a digest. *)
LEMMA ChecksKept ==
  ASSUME WorldInv, NEW p \in Invocations, NEW s \in Now(p), Went(p),
         s.op = "fill" => s.over \subseteq {s.by}, s.op = "named" => s.by \in Files,
         \/ PinStep(p, s) \/ HashStep(p, s) \/ NamedStep(p, s) \/ FollowStep(p, s) \/ FillStep(p, s)
  PROVE  Checked(p, s)
<1> USE DEF Require
<1>r. LooksAt(s) = {} => run[p].read = run[p].read \cup {<<f, disk[f].ver>> : f \in LooksAt(s)}
  OBVIOUS
<1>1. CASE PinStep(p, s)
  <2> DEFINE g == [f \in s.over |-> 1]
  <2>1. s.op = "pin" /\ Keep(p, g)
    BY <1>1 DEF PinStep
  <2>2. DOMAIN g = Adds(s) /\ LooksAt(s) = {} /\ \A f \in DOMAIN g : Taken(s, disk, record, disk', f, g[f])
    BY <2>1 DEF Adds, LooksAt, Taken
  <2> HIDE DEF g
  <2>3. Remembers(s, run[p], disk, record, disk', run'[p])
    BY <1>r, <2>1, <2>2, MemoryIs, RemembersKept
  <2> QED
    BY <2>1, <2>3 DEF Checked, Passed
<1>2. CASE HashStep(p, s)
  <2> DEFINE g == [f \in s.over |-> disk[f].ver]
  <2>1. s.op = "hash" /\ Keep(p, g) /\ \A f \in s.over : Exists(f)
    BY <1>2, RaisedIsBad, Zenon DEF HashStep
  <2>2. DOMAIN g = Adds(s) /\ LooksAt(s) = {} /\ \A f \in DOMAIN g : Taken(s, disk, record, disk', f, g[f])
    BY <2>1 DEF Adds, LooksAt, Taken, Exists
  <2> HIDE DEF g
  <2>3. Remembers(s, run[p], disk, record, disk', run'[p])
    BY <1>r, <2>1, <2>2, MemoryIs, RemembersKept
  <2> QED
    BY <2>1, <2>3 DEF Checked, Passed
<1>3. CASE NamedStep(p, s)
  <2> DEFINE g == Entry(s.by, known[s.by])
  <2>1. /\ s.op = "named" /\ Keep(p, g)
        /\ disk[s.by] = [ver |-> known[s.by], whole |-> TRUE] /\ (s.by \in Records => Ok(s.by))
    BY <1>3, RaisedIsBad, Zenon DEF NamedStep
  <2>2. DOMAIN g = {s.by} /\ g[s.by] = known[s.by] /\ Adds(s) = {s.by} /\ LooksAt(s) = {}
    BY <2>1 DEF Entry, Adds, LooksAt
  <2>3. disk[s.by].ver = known[s.by] /\ disk[s.by].whole
    BY <2>1
  <2>4. disk[s.by].ver # 0
    BY <2>1, <2>3 DEF WorldInv, Exists
  <2>5. \A f \in DOMAIN g : Taken(s, disk, record, disk', f, g[f])
    BY <2>1, <2>2, <2>3, <2>4 DEF Taken
  <2> HIDE DEF g
  <2>6. Remembers(s, run[p], disk, record, disk', run'[p])
    BY <1>r, <2>1, <2>2, <2>5, MemoryIs, RemembersKept
  <2>7. s.by \in Experiment.records => AcceptedIn(disk, record, s.by)
    BY <2>1, <2>3 DEF Experiment, Records, Ok, AcceptedIn
  <2> QED
    BY <2>1, <2>6, <2>7 DEF Checked, Passed
<1>4. CASE FollowStep(p, s)
  <2> DEFINE g == [f \in s.over |-> record[s.by].claims[f]]
  <2>1. /\ s.op = "follow" /\ Keep(p, g) /\ Accepted(s.by)
        /\ \A f \in s.over : /\ f \in DOMAIN record[s.by].claims
                             /\ f \in DOMAIN run[p].saw => run[p].saw[f] = record[s.by].claims[f]
    BY <1>4, RaisedIsBad, Zenon DEF FollowStep
  <2>2. DOMAIN g = Adds(s) /\ LooksAt(s) = {} /\ \A f \in DOMAIN g : Taken(s, disk, record, disk', f, g[f])
    BY <2>1 DEF Adds, LooksAt, Taken
  <2> HIDE DEF g
  <2>3. Remembers(s, run[p], disk, record, disk', run'[p])
    BY <1>r, <2>1, <2>2, MemoryIs, RemembersKept
  <2>4. AcceptedIn(disk, record, s.by)
    BY <2>1 DEF Accepted, Ok, AcceptedIn
  <2> QED
    BY <2>1, <2>3, <2>4 DEF Checked, Passed
<1>5. CASE FillStep(p, s)
  <2> DEFINE g == [f \in s.over |-> disk[f].ver + 1]
  <2>1. s.op = "fill" /\ Keep(p, g)
    BY <1>5, Zenon DEF FillStep
  <2>2. disk'[s.by].ver = disk[s.by].ver + 1
    BY <1>5, FillDoes
  <2>3. DOMAIN g = Adds(s) /\ LooksAt(s) = {} /\ \A f \in DOMAIN g : Taken(s, disk, record, disk', f, g[f])
    BY <2>1, <2>2 DEF Adds, LooksAt, Taken
  <2> HIDE DEF g
  <2>4. Remembers(s, run[p], disk, record, disk', run'[p])
    BY <1>r, <2>1, <2>3, MemoryIs, RemembersKept
  <2> QED
    BY <2>1, <2>4 DEF Checked, Passed
<1> QED
  BY <1>1, <1>2, <1>3, <1>4, <1>5

(* Those that read. *)
LEMMA ChecksRead ==
  ASSUME WorldInv, NEW p \in Invocations, NEW s \in Now(p), Went(p),
         \/ ReadStep(p, s) \/ TakeStep(p, s) \/ LaunchStep(p, s) \/ ListStep(p, s)
  PROVE  Checked(p, s)
<1> USE DEF Require
<1>0. DOMAIN run = Invocations /\ DOMAIN run[p] = Fields
  BY DEF WorldInv, RunTyped
<1>1. CASE ReadStep(p, s)
  <2> DEFINE u == Read(p, s)
  <2>1. s.op = "read" /\ run' = [run EXCEPT ![p].at = @ + 1, ![p].read = u]
    BY <1>1, RaisedIsBad, Zenon DEF ReadStep
  <2>2. LooksAt(s) = s.over /\ Adds(s) = {}
    BY <2>1 DEF LooksAt, Adds
  <2>3. u = run[p].read \cup {<<f, disk[f].ver>> : f \in LooksAt(s)}
    BY <2>2 DEF Read
  <2> HIDE DEF u
  <2>4. run'[p].saw = run[p].saw /\ run'[p].read = u
    BY <1>0, <2>1 DEF Fields
  <2>5. Remembers(s, run[p], disk, record, disk', run'[p])
    BY <2>2, <2>3, <2>4 DEF Remembers
  <2> QED
    BY <2>1, <2>5 DEF Checked, Passed
<1>2. CASE LaunchStep(p, s)
  <2> DEFINE u == Read(p, s)
  <2>1. s.op = "launch" /\ run' = [run EXCEPT ![p].at = @ + 1, ![p].launched = TRUE, ![p].read = u]
    BY <1>2, RaisedIsBad, Zenon DEF LaunchStep
  <2>2. LooksAt(s) = s.over /\ Adds(s) = {}
    BY <2>1 DEF LooksAt, Adds
  <2>3. u = run[p].read \cup {<<f, disk[f].ver>> : f \in LooksAt(s)}
    BY <2>2 DEF Read
  <2> HIDE DEF u
  <2>4. run'[p].saw = run[p].saw /\ run'[p].read = u
    BY <1>0, <2>1 DEF Fields
  <2>5. Remembers(s, run[p], disk, record, disk', run'[p])
    BY <2>2, <2>3, <2>4 DEF Remembers
  <2> QED
    BY <2>1, <2>5 DEF Checked, Passed
<1>3. CASE TakeStep(p, s)
  <2> DEFINE u == Read(p, s)
             g == [f \in s.over |-> disk[f].ver]
             saw == Joined(g, run[p].saw)
  <2>1. /\ s.op = "take" /\ \A f \in s.over : Exists(f)
        /\ run' = [run EXCEPT ![p].at = @ + 1, ![p].read = u, ![p].saw = saw]
    BY <1>3, RaisedIsBad, Zenon DEF TakeStep
  <2>2. LooksAt(s) = s.over /\ DOMAIN g = Adds(s) /\ \A f \in DOMAIN g : Taken(s, disk, record, disk', f, g[f])
    BY <2>1 DEF LooksAt, Adds, Taken, Exists
  <2>3. u = run[p].read \cup {<<f, disk[f].ver>> : f \in LooksAt(s)}
    BY <2>2 DEF Read
  <2> HIDE DEF u, g, saw
  <2>4. run'[p].saw = saw /\ run'[p].read = u
    BY <1>0, <2>1 DEF Fields
  <2>5. Remembers(s, run[p], disk, record, disk', run'[p])
    BY <2>2, <2>3, <2>4, RemembersKept DEF saw
  <2> QED
    BY <2>1, <2>5 DEF Checked, Passed
<1>4. CASE ListStep(p, s)
  <2> DEFINE there == {f \in s.over : Exists(f)}
             g == [f \in there |-> disk[f].ver]
  <2>1. s.op = "list" /\ Keep(p, g)
    BY <1>4, Zenon DEF ListStep
  <2>2. LooksAt(s) = {} /\ Adds(s) = {}
    BY <2>1 DEF LooksAt, Adds
  <2>3. \A f \in DOMAIN g : f \in s.over /\ g[f] = disk[f].ver /\ disk[f].ver # 0
    BY DEF Exists
  <2> HIDE DEF there, g
  <2>4. run'[p].saw = Joined(g, run[p].saw) /\ run'[p].read = run[p].read
    BY <2>1, MemoryIs
  <2>5. /\ DOMAIN run'[p].saw = DOMAIN g \cup DOMAIN run[p].saw
        /\ \A f \in DOMAIN run'[p].saw : run'[p].saw[f] = IF f \in DOMAIN g THEN g[f] ELSE run[p].saw[f]
    BY <2>4 DEF Joined
  <2>6. run'[p].read = run[p].read \cup {<<f, disk[f].ver>> : f \in LooksAt(s)}
    BY <2>2, <2>4
  <2>7. \A f \in DOMAIN run'[p].saw :
           \/ f \in DOMAIN run[p].saw /\ f \notin Adds(s) /\ run'[p].saw[f] = run[p].saw[f]
           \/ s.op = "list" /\ f \in s.over /\ run'[p].saw[f] = disk[f].ver /\ disk[f].ver # 0
    BY <2>1, <2>2, <2>3, <2>5
  <2>8. Remembers(s, run[p], disk, record, disk', run'[p])
    BY <2>2, <2>5, <2>6, <2>7 DEF Remembers
  <2> QED
    BY <2>1, <2>8 DEF Checked, Passed
<1> QED
  BY <1>1, <1>2, <1>3, <1>4

(* Every step checks what it should. *)
LEMMA StepChecks ==
  ASSUME WorldInv, NEW p \in Invocations, NEW s \in Now(p), Inward(p, s) \/ Outward(p, s), Went(p),
         s.op = "fill" => s.over \subseteq {s.by}, s.op = "named" => s.by \in Files
  PROVE  Checked(p, s)
BY ChecksOnly, ChecksNot, ChecksKept, ChecksRead DEF Inward, Outward
-----------------------------------------------------------------------------
(* Who is idle remembers nothing, and nobody is in another phase than the  *)
(* others where the scenario does not mix them.                            *)
IdleInv  == \A p \in Invocations : run[p].phase = "" => run[p] = Idle
PhaseInv == ~bound.mixed => \A p, q \in Invocations :
                run[p].phase # "" /\ run[q].phase # "" => run[p].phase = run[q].phase

(* A whole step of an invocation; and one that comes or goes. *)
Acts(p, s) ==
    /\ Steps(p, s) /\ Does(p, s)
    /\ Went(p) => Checked(p, s)
    /\ s.op = "fill" => /\ run'[p].phase # "" /\ run'[p].bad = run[p].bad
                        /\ s.by \in Records /\ ~run[p].bad => AcceptedIn(disk', record', s.by)
Comes(p) ==
    /\ Visits(p)
    /\ run'[p].phase = "" => run'[p] = Idle
    /\ run'[p].phase # "" => /\ run'[p].saw = Nothing /\ run'[p].read = {}
                             /\ bound.mixed \/ \A q \in Invocations : run[q].phase \in {"", run'[p].phase}

(* The outline of the experiment: what holds at a position of a phase, and *)
(* what a record tells.                                                    *)
Tells        == Outline[family].tells
Notes(ph, i) == Outline[family].notes[ph][i]

(* The outline fits the scripts of the experiment. *)
LEMMA OutlineIs ==
  ASSUME WorldInv
  PROVE  BookShaped(Experiment) /\ Outlined(family) /\ family \in DOMAIN Book
BY BookAssumption, OutlineAssumption DEF WorldInv, Experiment

(* Who went on did not raise, and found nothing wrong before: it is in the *)
(* script, not in its handler.                                             *)
LEMMA WentGoes ==
  ASSUME WorldInv, NEW p \in Invocations, NEW s \in Now(p), Steps(p, s), Went(p)
  PROVE  /\ Goes(Experiment, s, run[p], run'[p]) /\ ~run[p].bad /\ ~run[p].failing /\ run[p].phase # ""
         /\ run[p].phase \in DOMAIN Experiment.phases /\ run'[p].phase = run[p].phase
         /\ run[p].at \in DOMAIN Experiment.phases[run[p].phase].steps
         /\ s = Experiment.phases[run[p].phase].steps[run[p].at]
         /\ run'[p].at \in After(Experiment.phases[run[p].phase].steps, run[p].at)
<1>1. Goes(Experiment, s, run[p], run'[p]) \/ Throws(s, run[p], run'[p])
  BY DEF Steps, Turn
<1>2. ~Throws(s, run[p], run'[p])
  <2>1. Idle.phase = ""
    BY DEF Idle
  <2> QED
    BY <2>1 DEF Throws, Went
<1>3. Goes(Experiment, s, run[p], run'[p]) /\ ~run[p].bad
  BY <1>1, <1>2 DEF Goes, Went
<1>4. AtStep(Experiment, run[p], s)
  BY NowIs
<1>5. ~run[p].failing /\ run[p].phase # "" /\ run[p].phase \in DOMAIN Experiment.phases
  BY <1>3, <1>4 DEF AtStep, RunTyped
<1>6. ScriptOf(Experiment, run[p]) = Experiment.phases[run[p].phase].steps
  BY <1>5 DEF ScriptOf
<1> QED
  BY <1>3, <1>4, <1>5, <1>6 DEF AtStep, Goes

(* What the outline says of the text of a step of a script. *)
LEMMA TextIs ==
  ASSUME WorldInv, NEW ph \in DOMAIN Experiment.phases, NEW i \in DOMAIN Experiment.phases[ph].steps,
         NEW s, s = Experiment.phases[ph].steps[i]
  PROVE  /\ s.op = "pin" => s.over \subseteq Experiment.given
         /\ s.op = "fill" => s.over \subseteq {s.by}
         /\ s.op = "named" => s.by \in Files
         /\ s.over \subseteq Files /\ Adds(s) \subseteq Files
         /\ \A a \in Notes(ph, i) :
               /\ s.op = "fill" /\ s.by \in Records => Announces(Experiment, Tells, a, s)
               /\ \A j \in After(Experiment.phases[ph].steps, i) : \E b \in Notes(ph, j) : Follows(family, ph, i, j, a, b)
<1>1. BookShaped(Experiment) /\ Outlined(family)
  BY OutlineIs
<1>2. /\ s.op = "pin" => s.over \subseteq Experiment.given
      /\ s.op = "fill" => s.over \subseteq {s.by}
      /\ s.op = "named" => s.by \in Files
      /\ \A a \in Notes(ph, i) :
            /\ s.op = "fill" /\ s.by \in Records => Announces(Experiment, Tells, a, s)
            /\ \A j \in After(Experiment.phases[ph].steps, i) : \E b \in Notes(ph, j) : Follows(family, ph, i, j, a, b)
  BY <1>1 DEF Outlined, Experiment, Files, Records, Tells, Notes
<1>3. s.over \subseteq Files
  BY <1>1, ScriptsAre DEF Experiment, Files
<1>4. Adds(s) \subseteq Files
  BY <1>2, <1>3 DEF Adds
<1> QED
  BY <1>2, <1>3, <1>4

(* Every step of a script does and checks what its text says. *)
LEMMA StepActs ==
  ASSUME WorldInv, NEW p \in Invocations, NEW s \in Now(p), Inward(p, s) \/ Outward(p, s)
  PROVE  Acts(p, s)
<1>1. Steps(p, s) /\ Does(p, s)
  BY StepTurn, StepEffect, StepDoes DEF Steps
<1>2. ASSUME Went(p) PROVE Checked(p, s)
  <2>1. /\ run[p].phase \in DOMAIN Experiment.phases
        /\ run[p].at \in DOMAIN Experiment.phases[run[p].phase].steps
        /\ s = Experiment.phases[run[p].phase].steps[run[p].at]
    BY <1>1, <1>2, WentGoes
  <2>2. (s.op = "fill" => s.over \subseteq {s.by}) /\ (s.op = "named" => s.by \in Files)
    BY <2>1, TextIs
  <2> QED
    BY <1>2, <2>2, StepChecks
<1>3. ASSUME s.op = "fill"
      PROVE  /\ run'[p].phase # "" /\ run'[p].bad = run[p].bad
             /\ s.by \in Records /\ ~run[p].bad => AcceptedIn(disk', record', s.by)
  <2>1. FillStep(p, s)
    BY <1>3, Zenon DEF Inward, Outward, TryStep, PinStep, MatchesStep, GateStep, JudgeStep, SkipStep, FreshStep,
          HashStep, NamedStep, FollowStep, SameStep, ListStep, ReadStep, TakeStep, LaunchStep, SettleStep, CreateStep,
          PlaceStep, DraftStep, NoteStep, TellStep, FoundStep, AcceptedStep, ValidatedStep
  <2> DEFINE g == [f \in s.over |-> disk[f].ver + 1]
  <2>2. Keep(p, g)
    BY <2>1 DEF FillStep
  <2> HIDE DEF g
  <2>3. run'[p].phase = run[p].phase /\ run'[p].bad = run[p].bad
    BY <2>2, MemoryIs
  <2>4. run[p].phase # ""
    BY NowIs DEF AtStep
  <2> QED
    BY <2>1, <2>3, <2>4, FillDoes
<1> QED
  BY <1>1, <1>2, <1>3 DEF Acts

(* Who starts remembers nothing, and starts the phase of the others. *)
LEMMA StartComes ==
  ASSUME WorldInv, IdleInv, NEW p \in Invocations, NEW ph \in Phases, Start(p, ph)
  PROVE  Comes(p)
<1>1. Visits(p)
  BY StartVisits
<1>2. DOMAIN run = Invocations /\ DOMAIN run[p] = Fields /\ run[p].phase = "" /\ run[p] = Idle
  BY DEF WorldInv, RunTyped, IdleInv, Start
<1>3. /\ run' = [run EXCEPT ![p].phase = ph, ![p].at = 1]
      /\ bound.mixed \/ \A q \in Invocations : run[q].phase \in {"", ph}
  BY DEF Start
<1>4. run'[p].phase = ph /\ run'[p].saw = run[p].saw /\ run'[p].read = run[p].read
  BY <1>2, <1>3 DEF Fields
<1>5. ph # ""
  BY OutlineIs DEF BookShaped, Phases, Experiment
<1>6. Idle.saw = Nothing /\ Idle.read = {}
  BY DEF Idle
<1> QED
  BY <1>1, <1>2, <1>3, <1>4, <1>5, <1>6 DEF Comes

(* Who is through or killed is idle. *)
LEMMA LeaveComes ==
  ASSUME WorldInv, NEW p \in Invocations, Finish(p) \/ Kill(p)
  PROVE  Comes(p)
<1>1. /\ run' = [run EXCEPT ![p] = Idle]
      /\ UNCHANGED <<bound, family, disk, record, known, launches>>
  BY DEF Finish, Kill, World
<1>2. Visits(p)
  BY <1>1, LeaveVisits
<1>3. run'[p] = Idle /\ Idle.phase = ""
  BY <1>1 DEF WorldInv, Idle
<1> QED
  BY <1>2, <1>3 DEF Comes

(* A step of the system is one of these. *)
LEMMA NextActs ==
  ASSUME WorldInv, IdleInv, Next
  PROVE  \/ \E p \in Invocations : \E s \in Now(p) : Acts(p, s)
         \/ \E p \in Invocations : Comes(p)
         \/ \E f \in Files : Edited(f)
<1>1. \/ \E p \in Invocations : \E s \in Now(p) : Inward(p, s) \/ Outward(p, s)
      \/ \E p \in Invocations : (\E ph \in Phases : Start(p, ph)) \/ Finish(p) \/ Kill(p)
      \/ \E f \in Files : Edit(f)
  BY DEF Next
<1> QED
  BY <1>1, StepActs, StartComes, LeaveComes, EditEdited

(* Who acts changes nobody else, and is idle or in the phase it was in. *)
LEMMA ActsStay ==
  ASSUME WorldInv, NEW p \in Invocations, NEW s \in Now(p), Steps(p, s)
  PROVE  /\ bound' = bound /\ family' = family /\ Invocations' = Invocations /\ Experiment' = Experiment
         /\ \A q \in Invocations : q # p => run'[q] = run[q]
         /\ run'[p] = Idle \/ (run'[p].phase = run[p].phase /\ run[p].phase # "")
<1>1. bound' = bound /\ family' = family /\ Invocations' = Invocations /\ Experiment' = Experiment
  BY DEF Steps, Effect, Experiment, Invocations
<1>2. AtStep(Experiment, run[p], s)
  BY NowIs
<1> QED
  BY <1>1, <1>2 DEF Steps, Turn, Goes, Throws, AtStep

(* IdleInv and PhaseInv are kept by every step. *)
LEMMA NextMinds ==
  ASSUME WorldInv, IdleInv, PhaseInv, [Next]_vars
  PROVE  IdleInv' /\ PhaseInv'
<1>0. Idle.phase = ""
  BY DEF Idle
<1>1. ASSUME NEW p \in Invocations, NEW s \in Now(p), Acts(p, s) PROVE IdleInv' /\ PhaseInv'
  <2>1. /\ bound' = bound /\ Invocations' = Invocations
        /\ \A q \in Invocations : q # p => run'[q] = run[q]
        /\ run'[p] = Idle \/ (run'[p].phase = run[p].phase /\ run[p].phase # "")
    BY <1>1, ActsStay DEF Acts
  <2>2. Idle' = Idle
    BY DEF Idle, Nothing
  <2>3. \A q \in Invocations : run'[q] = Idle \/ (run'[q].phase = run[q].phase /\ (q = p => run[q].phase # ""))
    BY <2>1
  <2>4. \A q \in Invocations : run'[q].phase = "" => run'[q] = Idle
    BY <2>1, <2>3 DEF IdleInv
  <2>5. \A q \in Invocations : run'[q].phase # "" => run'[q].phase = run[q].phase
    BY <1>0, <2>3
  <2>6. ~bound'.mixed => \A q, u \in Invocations : run'[q].phase # "" /\ run'[u].phase # "" => run'[q].phase = run'[u].phase
    BY <2>1, <2>5 DEF PhaseInv
  <2> QED
    BY <2>1, <2>2, <2>4, <2>6 DEF IdleInv, PhaseInv
<1>2. ASSUME NEW p \in Invocations, Comes(p) PROVE IdleInv' /\ PhaseInv'
  <2>1. /\ bound' = bound /\ Invocations' = Invocations
        /\ \A q \in Invocations : q # p => run'[q] = run[q]
    BY <1>2 DEF Comes, Visits, Invocations
  <2>2. Idle' = Idle
    BY DEF Idle, Nothing
  <2>3. /\ run'[p].phase = "" => run'[p] = Idle
        /\ run'[p].phase # "" => bound.mixed \/ \A q \in Invocations : run[q].phase \in {"", run'[p].phase}
    BY <1>2 DEF Comes
  <2>4. \A q \in Invocations : run'[q].phase = "" => run'[q] = Idle
    BY <2>1, <2>3 DEF IdleInv
  <2>5. ASSUME ~bound.mixed, NEW q \in Invocations, NEW u \in Invocations, run'[q].phase # "", run'[u].phase # ""
        PROVE  run'[q].phase = run'[u].phase
    <3>1. CASE q # p /\ u # p
      BY <2>1, <2>5, <3>1 DEF PhaseInv
    <3>2. CASE q = p \/ u = p
      BY <2>1, <2>3, <2>5, <3>2
    <3> QED
      BY <3>1, <3>2
  <2> QED
    BY <2>1, <2>2, <2>4, <2>5 DEF IdleInv, PhaseInv
<1>3. ASSUME UNCHANGED <<bound, run>> PROVE IdleInv' /\ PhaseInv'
  <2>1. Idle' = Idle /\ Invocations' = Invocations
    BY <1>3 DEF Idle, Nothing, Invocations
  <2> QED
    BY <1>3, <2>1 DEF IdleInv, PhaseInv
<1> QED
  BY <1>1, <1>2, <1>3, NextActs DEF Edited, vars
-----------------------------------------------------------------------------
(* Who is past a bolt on token t, or in the handler behind its barrier: one*)
(* at most, and the token is there.                                        *)
Bolted(F, x, t) ==
    /\ x.phase # ""
    /\ \E c \in DOMAIN F.phases[x.phase].steps :
          /\ F.phases[x.phase].steps[c].by = t /\ Bolt(F.phases[x.phase].steps, c)
          /\ (x.failing /\ Barrier(F.phases[x.phase].steps, c)) \/ (~x.failing /\ x.at > c)
BoltHeld(t) ==
    /\ \A p \in Invocations : Bolted(Experiment, run[p], t) => Exists(t)
    /\ \A p, q \in Invocations : Bolted(Experiment, run[p], t) /\ Bolted(Experiment, run[q], t) => p = q
BoltInv == \A t \in Files : BoltHeld(t)

(* Whoever gets past a bolt was past it, or has just created its token.    *)
LEMMA GetsBolted ==
  ASSUME WorldInv, NEW t, NEW p \in Invocations, NEW s \in Now(p), Steps(p, s),
         Bolted(Experiment, run'[p], t)
  PROVE  \/ Bolted(Experiment, run[p], t)
         \/ ~Exists(t) /\ disk'[t].ver # 0
<1> DEFINE F == Experiment
           x == run[p]
           y == run'[p]
           steps == F.phases[x.phase].steps
<1>1. BookShaped(F) /\ AtStep(F, x, s)
  BY NowIs
<1>2. /\ x.phase # "" /\ x.phase \in DOMAIN F.phases /\ x.at \in Nat /\ x.at # 0 /\ x.at \in DOMAIN ScriptOf(F, x)
      /\ s = ScriptOf(F, x)[x.at] /\ x.failing \in BOOLEAN
      /\ ~x.failing => ScriptOf(F, x) = steps
      /\ ~x.failing /\ x.try => Handles(steps, x.at)
  BY <1>1 DEF AtStep, RunTyped, ScriptOf, TriesWhere
<1>3. (Goes(F, s, x, y) /\ Claimed(p, s)) \/ Throws(s, x, y)
  BY DEF Steps, Turn
<1>4. y.phase = x.phase
  <2>1. Idle.phase = ""
    BY DEF Idle
  <2>2. y.phase # ""
    BY DEF Bolted
  <2> QED
    BY <1>3, <2>1, <2>2 DEF Goes, Throws
<1>5. PICK c \in DOMAIN steps :
         /\ steps[c].by = t /\ Bolt(steps, c)
         /\ (y.failing /\ Barrier(steps, c)) \/ (~y.failing /\ y.at > c)
  BY <1>4 DEF Bolted
<1>6. /\ DOMAIN steps = 1..Len(steps) /\ Len(steps) \in Nat
      /\ \A i \in DOMAIN steps : \A j \in After(steps, i) : j \in Nat /\ j > i
  <2>1. steps \in {F.phases[x.phase].steps, F.phases[x.phase].failing}
    OBVIOUS
  <2> QED
    BY <1>1, <1>2, <2>1, ScriptsAre
<1>7. CASE x.failing
  <2>1. y.failing
    <3>1. Idle.phase = ""
      BY DEF Idle
    <3> QED
      BY <1>2, <1>3, <1>4, <1>7, <3>1 DEF Goes, Throws
  <2> QED
    BY <1>2, <1>5, <1>7, <2>1 DEF Bolted
<1>8. CASE ~x.failing /\ x.at > c
  BY <1>2, <1>5, <1>8 DEF Bolted
<1>9. CASE ~x.failing /\ ~(x.at > c)
  <2>1. x.at \in DOMAIN steps /\ s = steps[x.at] /\ x.at <= c /\ c \in Nat /\ x.at \in 1..c
    <3>1. \A i, k \in Nat : i # 0 /\ ~(i > k) => i <= k /\ i \in 1..k
      OBVIOUS
    <3>2. c \in Nat
      BY <1>5, <1>6
    <3>3. x.at <= c /\ x.at \in 1..c
      BY <1>2, <1>9, <3>1, <3>2
    <3> QED
      BY <1>2, <1>9, <3>2, <3>3
  <2>2. ~Throws(s, x, y)
    <3>1. SUFFICES ASSUME Throws(s, x, y) PROVE FALSE
      OBVIOUS
    <3>2. x.try /\ y.failing
      <4>1. Idle.phase = ""
        BY DEF Idle
      <4> QED
        BY <1>2, <1>4, <3>1, <4>1 DEF Throws
    <3>3. PICK j \in DOMAIN steps : j < x.at /\ On(steps[j])
      BY <1>2, <1>9, <3>2 DEF Handles
    <3>4. j \in 1..(c - 1)
      <4>1. \A i, m, k \in Nat : 1 <= i /\ i < m /\ m <= k => i \in 1..(k - 1)
        OBVIOUS
      <4>2. j \in Nat /\ 1 <= j
        BY <1>6
      <4> QED
        BY <1>2, <2>1, <3>3, <4>1, <4>2
    <3> QED
      BY <1>5, <3>2, <3>3, <3>4 DEF Barrier
  <2>3. Goes(F, s, x, y) /\ Claimed(p, s)
    BY <1>3, <2>2
  <2>4. ~y.failing /\ y.at \in After(steps, x.at) /\ y.at > c
    BY <1>2, <1>5, <1>9, <2>3 DEF Goes
  <2>5. x.at = c
    <3>1. SUFFICES ASSUME x.at # c PROVE FALSE
      OBVIOUS
    <3>2. x.at \in 1..(c - 1)
      BY <2>1, <3>1
    <3>3. y.at <= c
      BY <1>5, <2>4, <3>2 DEF Bolt
    <3>4. y.at \in Nat
      BY <1>6, <2>1, <2>4
    <3> QED
      BY <2>1, <2>4, <3>3, <3>4
  <2>6. s.op = "create" /\ s.by = t
    BY <1>5, <2>1, <2>5 DEF Bolt
  <2>7. disk'[t].ver # 0
    BY <2>6 DEF Steps, Effect
  <2> QED
    BY <2>3, <2>6, <2>7 DEF Claimed
<1> QED
  BY <1>2, <1>7, <1>8, <1>9

(* Nobody who starts is past a bolt. *)
LEMMA ComesUnbolted ==
  ASSUME WorldInv, NEW p \in Invocations, Visits(p), NEW t
  PROVE  ~Bolted(Experiment, run'[p], t)
<1>1. SUFFICES ASSUME Bolted(Experiment, run'[p], t) PROVE FALSE
  OBVIOUS
<1>2. run'[p].phase # "" /\ run'[p].phase \in DOMAIN Experiment.phases /\ run'[p].at = 1 /\ ~run'[p].failing
  BY <1>1 DEF Bolted, Visits, RunTyped
<1> DEFINE steps == Experiment.phases[run'[p].phase].steps
<1>3. DOMAIN steps = 1..Len(steps) /\ Len(steps) \in Nat
  <2>1. BookShaped(Experiment)
    BY OutlineIs
  <2>2. steps \in {Experiment.phases[run'[p].phase].steps, Experiment.phases[run'[p].phase].failing}
    OBVIOUS
  <2> QED
    BY <1>2, <2>1, <2>2, ScriptsAre
<1>4. PICK c \in DOMAIN steps : 1 > c
  BY <1>1, <1>2 DEF Bolted
<1> QED
  BY <1>3, <1>4

(* BoltInv is kept by every step. *)
LEMMA NextBolts ==
  ASSUME WorldInv, BoltInv, [Next]_vars
  PROVE  BoltInv'
<1>1. Experiment' = Experiment /\ Files' = Files /\ Invocations' = Invocations
  <2>1. CASE Next
    BY <2>1, NextIs DEF Steps, Effect, Visits, Edited, Experiment, Files, Invocations
  <2>2. CASE UNCHANGED vars
    BY <2>2 DEF vars, Experiment, Files, Invocations
  <2> QED
    BY <2>1, <2>2
<1>2. ASSUME NEW t \in Files PROVE BoltHeld(t)'
  <2> DEFINE h(q) == Bolted(Experiment, run[q], t)
             n(q) == Bolted(Experiment, run'[q], t)
  <2>1. /\ \A q \in Invocations : h(q) => Exists(t)
        /\ \A q, u \in Invocations : h(q) /\ h(u) => q = u
    BY DEF BoltInv, BoltHeld
  <2>2. SUFFICES /\ \A q \in Invocations : n(q) => disk'[t].ver # 0
                 /\ \A q, u \in Invocations : n(q) /\ n(u) => q = u
    BY <1>1 DEF BoltHeld, Exists
  <2>3. ASSUME NEW p \in Invocations, NEW s \in Now(p), Steps(p, s)
        PROVE  /\ \A q \in Invocations : n(q) => disk'[t].ver # 0
               /\ \A q, u \in Invocations : n(q) /\ n(u) => q = u
    <3>1. \A q \in Invocations : q # p => (n(q) <=> h(q))
      BY <2>3 DEF Steps, Turn
    <3>2. n(p) => h(p) \/ (~Exists(t) /\ disk'[t].ver # 0)
      BY <2>3, GetsBolted
    <3>3. Exists(t) => disk'[t].ver # 0
      BY <2>3, EffectGrows DEF Steps
    <3> HIDE DEF h, n
    <3> QED
      BY <2>1, <3>1, <3>2, <3>3
  <2>4. ASSUME NEW p \in Invocations, Visits(p)
        PROVE  /\ \A q \in Invocations : n(q) => disk'[t].ver # 0
               /\ \A q, u \in Invocations : n(q) /\ n(u) => q = u
    <3>1. \A q \in Invocations : q # p => (n(q) <=> h(q))
      BY <2>4 DEF Visits
    <3>2. ~n(p)
      BY <2>4, ComesUnbolted
    <3>3. Exists(t) => disk'[t].ver # 0
      BY <2>4 DEF Visits, Exists
    <3> HIDE DEF h, n
    <3> QED
      BY <2>1, <3>1, <3>2, <3>3
  <2>5. ASSUME run' = run, Exists(t) => disk'[t].ver # 0
        PROVE  /\ \A q \in Invocations : n(q) => disk'[t].ver # 0
               /\ \A q, u \in Invocations : n(q) /\ n(u) => q = u
    <3>1. \A q : n(q) <=> h(q)
      BY <2>5
    <3> HIDE DEF h, n
    <3> QED
      BY <2>1, <2>5, <3>1
  <2>6. ASSUME NEW f \in Files, Edited(f) PROVE run' = run /\ (Exists(t) => disk'[t].ver # 0)
    <3>1. disk[t].ver \in Nat
      BY DEF WorldInv
    <3>2. CASE t = f
      BY <2>6, <3>1, <3>2 DEF Edited
    <3>3. CASE t # f
      BY <2>6, <3>3 DEF Edited, Exists
    <3> QED
      BY <2>6, <3>2, <3>3 DEF Edited
  <2>7. UNCHANGED vars => run' = run /\ (Exists(t) => disk'[t].ver # 0)
    BY DEF vars, Exists
  <2> HIDE DEF h, n
  <2> QED
    BY <2>3, <2>4, <2>5, <2>6, <2>7, NextIs
<1> QED
  BY <1>1, <1>2 DEF BoltInv
-----------------------------------------------------------------------------
(* The files and records are as they should be, and of every invocation    *)
(* that has found nothing wrong a note of its position is true, whose      *)
(* facts nobody else undoes.                                               *)
NoteHolds(x, d, rec, b) ==
    /\ Fits(Experiment, x, d, rec, b)
    /\ \A c \in b.facts : Lasting(family, x.phase, x.at, b, c)
Noted(x, d, rec) == \E b \in Notes(x.phase, x.at) : NoteHolds(x, d, rec, b)
Clear(x)  == x.phase # "" /\ ~x.bad
TruthInv ==
    /\ Sound(Experiment, Tells, disk, record)
    /\ \A p \in Invocations : Clear(run[p]) => Noted(run[p], disk, record)

(* No step touches a record that is kept and accepted. *)
LEMMA StepSpares ==
  ASSUME WorldInv, RecordsInv, NEW p \in Invocations, NEW s \in Now(p), Steps(p, s)
  PROVE  Spares(Experiment, disk, record, disk', record')
<1>1. ASSUME NEW q \in Experiment.kept, AcceptedIn(disk, record, q)
      PROVE  disk'[q] = disk[q] /\ q \in DOMAIN record' /\ record'[q] = record[q]
  <2>1. RecordHeld(q) /\ Ok(q)
    BY <1>1 DEF RecordsInv, AcceptedIn, Ok
  <2> QED
    BY <2>1, OkStays
<1> QED
  BY <1>1 DEF Spares

(* An invocation that goes on goes on to a note that is true of it. *)
LEMMA OwnNoted ==
  ASSUME WorldInv, RecordsInv, TruthInv, NEW p \in Invocations, NEW s \in Now(p), Acts(p, s), Went(p)
  PROVE  Noted(run'[p], disk', record')
<1> DEFINE x == run[p]
           y == run'[p]
           F == Experiment
           steps == F.phases[x.phase].steps
<1>1. /\ Clear(x) /\ ~x.failing /\ x.phase \in DOMAIN F.phases /\ y.phase = x.phase
      /\ x.at \in DOMAIN steps /\ s = steps[x.at] /\ y.at \in After(steps, x.at)
  BY WentGoes DEF Acts, Clear
<1>2. PICK a \in Notes(x.phase, x.at) : NoteHolds(x, disk, record, a)
  BY <1>1 DEF TruthInv, Noted
<1>3. /\ s.op = "pin" => s.over \subseteq F.given
      /\ s.op = "fill" => s.over \subseteq {s.by}
      /\ s.over \subseteq Files /\ Adds(s) \subseteq Files
      /\ \A j \in After(steps, x.at) : \E b \in Notes(x.phase, j) : Follows(family, x.phase, x.at, j, a, b)
  BY <1>1, <1>2, TextIs
<1>4. PICK b \in Notes(y.phase, y.at) : Follows(family, x.phase, x.at, y.at, a, b)
  BY <1>1, <1>3
<1>5. Checked(p, s) /\ Does(p, s) /\ Steps(p, s)
  BY DEF Acts
<1> DEFINE earned == Earns(F, s, y.at = x.at + 1 /\ s.past # 0)
<1>6. ASSUME NEW q \in earned PROVE q \in F.kept /\ AcceptedIn(disk', record', q)
  <2>1. /\ q \in F.kept /\ q = s.by
        /\ s.op = "fill" \/ (s.op = "accepted" /\ y.at = x.at + 1 /\ s.past # 0)
    BY <1>6 DEF Earns
  <2>2. CASE s.op = "fill"
    <3>1. q \in Records
      BY <2>1, KeptIs
    <3> QED
      BY <1>1, <2>1, <2>2, <3>1 DEF Acts, Clear
  <2>3. CASE s.op = "accepted" /\ y.at = x.at + 1 /\ s.past # 0
    <3>1. AcceptedIn(disk, record, q)
      BY <1>5, <2>1, <2>3 DEF Checked
    <3> QED
      BY <1>5, <2>1, <3>1, StepSpares, SparesAccepted
  <2> QED
    BY <2>1, <2>2, <2>3
<1>7. Fits(F, y, disk', record', b)
  <2>1. /\ Sound(F, Tells, disk, record) /\ Fits(F, x, disk, record, a)
        /\ Passed(F, x, disk, record, s) /\ Remembers(s, x, disk, record, disk', y)
        /\ Deed(F, s, x, disk, record, disk', record') /\ Spares(F, disk, record, disk', record')
    BY <1>2, <1>5, StepSpares DEF TruthInv, NoteHolds, Checked, Does
  <2>2. s.over \subseteq F.files /\ Adds(s) \subseteq F.files
    BY <1>3 DEF Files, Experiment
  <2>3. /\ b.has \subseteq a.has \cup Adds(s)
        /\ a.may \cup Adds(s) \cup (IF s.op = "list" THEN s.over ELSE {}) \subseteq b.may
        /\ a.looked \cup LooksAt(s) \subseteq b.looked
        /\ b.acc \subseteq a.acc \cup Accepts(F, Tells, s) \cup earned
        /\ \A c \in b.facts :
              \A U \in Was(s, a, c[1], c[2]), W \in Was(s, a, c[1], c[3]) : Derived(F, Tells, a, s, c[1], U, W)
    BY <1>1, <1>4 DEF Follows, Experiment, Tells
  <2> HIDE DEF x, y, F, earned
  <2> QED
    BY <1>3, <1>6, <2>1, <2>2, <2>3, StepFits
<1>8. \A c \in b.facts : Lasting(family, y.phase, y.at, b, c)
  BY <1>1, <1>4 DEF Follows
<1> QED
  BY <1>4, <1>7, <1>8 DEF Noted, NoteHolds

(* Somebody else in the experiment is a rival. *)
LEMMA RivalIs ==
  ASSUME WorldInv, PhaseInv, NEW p \in Invocations, NEW q \in Invocations,
         run[p].phase # "", run[q].phase # ""
  PROVE  run[p].phase \in Rivals(family, run[q].phase) /\ run[p].phase \in DOMAIN Experiment.phases
<1>1. run[p].phase \in DOMAIN Experiment.phases
  BY DEF WorldInv, RunTyped
<1>2. CASE Mixed(family)
  BY <1>1, <1>2 DEF Rivals, Experiment
<1>3. CASE ~Mixed(family)
  <2>1. ~bound.mixed
    BY <1>3 DEF Mixed, WorldInv
  <2>2. run[p].phase = run[q].phase
    BY <2>1 DEF PhaseInv
  <2> QED
    BY <1>1, <1>3, <2>2 DEF Rivals
<1> QED
  BY <1>2, <1>3

(* Nobody else changes a file the outline says nobody else changes. *)
LEMMA UntouchedStays ==
  ASSUME WorldInv, PhaseInv, BoltInv, NEW p \in Invocations, NEW s \in Now(p), Acts(p, s),
         NEW q \in Invocations, q # p, Clear(run[q]), NEW f \in Files,
         Untouched(family, run[q].phase, run[q].at, f)
  PROVE  disk'[f] = disk[f]
<1>1. SUFFICES ASSUME Touches(s, f) PROVE FALSE
  BY DEF Acts, Does, Deed, Files, Experiment
<1> DEFINE F == Experiment
           x == run[p]
           z == run[q]
           steps == F.phases[z.phase].steps
           writers == {ph \in Rivals(family, z.phase) : Touched(F.phases[ph], f)}
<1>2. BookShaped(F) /\ AtStep(F, x, s)
  BY NowIs
<1>3. /\ x.phase # "" /\ x.at \in DOMAIN ScriptOf(F, x) /\ s = ScriptOf(F, x)[x.at] /\ x.failing \in BOOLEAN
      /\ x.failing => ScriptOf(F, x) = F.phases[x.phase].failing
      /\ ~x.failing => ScriptOf(F, x) = F.phases[x.phase].steps
  BY <1>2 DEF AtStep, RunTyped, ScriptOf
<1>4. x.phase \in writers
  <2>1. Touched(F.phases[x.phase], f)
    BY <1>1, <1>3 DEF Touched, TouchedBy
  <2>2. x.phase \in Rivals(family, z.phase)
    BY <1>3, RivalIs DEF Clear
  <2> QED
    BY <2>1, <2>2
<1>5. ~Single(family)
  <2>1. SUFFICES ASSUME Single(family) PROVE FALSE
    OBVIOUS
  <2>2. bound.invocations = 1
    BY <2>1 DEF Single, WorldInv
  <2>3. Invocations = {1}
    BY <2>2 DEF Invocations
  <2> QED
    BY <2>3
<1>6. PICK c \in DOMAIN steps : c < z.at /\ Bolt(steps, c) /\ \A ph \in writers : Behind(F.phases[ph], steps[c].by, f)
  BY <1>4, <1>5 DEF Untouched, Experiment
<1> DEFINE t == steps[c].by
<1>7. z.at \in Nat /\ z.phase \in DOMAIN F.phases /\ DOMAIN steps \subseteq Nat /\ t \in Files
  <2>1. z.at \in Nat /\ z.phase \in DOMAIN F.phases
    BY DEF WorldInv, RunTyped, Clear
  <2>2. /\ DOMAIN steps = 1..Len(steps)
        /\ \A i \in DOMAIN steps : steps[i].op \in {"create", "place", "fill", "draft"} => steps[i].by \in F.files
    BY <1>2, <2>1, ScriptsAre
  <2>3. DOMAIN steps \subseteq Nat
    <3>1. steps \in {F.phases[z.phase].steps, F.phases[z.phase].failing}
      OBVIOUS
    <3>2. DOMAIN steps = 1..Len(steps) /\ Len(steps) \in Nat
      BY <1>2, <2>1, <3>1, ScriptsAre
    <3> QED
      BY <3>2
  <2>4. steps[c].op = "create"
    BY <1>6 DEF Bolt
  <2>5. t \in F.files
    BY <1>6, <2>2, <2>4
  <2> QED
    BY <2>1, <2>3, <2>5 DEF Files, Experiment
<1>8. Bolted(F, z, t)
  <2>1. z.at > c
    BY <1>6, <1>7
  <2>2. ~z.failing
    BY DEF WorldInv, RunTyped, Clear
  <2> QED
    BY <1>6, <2>1, <2>2 DEF Bolted, Clear
<1>9. Bolted(F, x, t)
  <2>1. PICK e \in DOMAIN F.phases[x.phase].steps :
           /\ F.phases[x.phase].steps[e].by = t /\ Bolt(F.phases[x.phase].steps, e)
           /\ \A i \in DOMAIN F.phases[x.phase].steps : Touches(F.phases[x.phase].steps[i], f) => e < i
           /\ TouchedBy(F.phases[x.phase].failing, f) => Barrier(F.phases[x.phase].steps, e)
    BY <1>4, <1>6 DEF Behind
  <2>2. x.failing => Barrier(F.phases[x.phase].steps, e)
    BY <1>1, <1>3, <2>1 DEF TouchedBy
  <2>3. x.failing \/ x.at > e
    <3>1. SUFFICES ASSUME ~x.failing PROVE x.at > e
      OBVIOUS
    <3>2. e < x.at
      BY <1>1, <1>3, <2>1, <3>1
    <3>3. x.phase \in DOMAIN F.phases /\ x.at \in Nat
      BY <1>2 DEF AtStep, RunTyped
    <3>4. e \in Nat
      <4> DEFINE script == F.phases[x.phase].steps
      <4>1. script \in {F.phases[x.phase].steps, F.phases[x.phase].failing}
        OBVIOUS
      <4>2. DOMAIN script = 1..Len(script) /\ Len(script) \in Nat
        BY <1>2, <3>3, <4>1, ScriptsAre
      <4>3. e \in DOMAIN script
        OBVIOUS
      <4> HIDE DEF script
      <4> QED
        BY <4>2, <4>3
    <3> QED
      BY <3>2, <3>3, <3>4
  <2> QED
    BY <1>3, <2>1, <2>2, <2>3 DEF Bolted
<1> QED
  BY <1>7, <1>8, <1>9 DEF BoltInv, BoltHeld

(* What nobody else makes say ok does not come to say ok. *)
LEMMA SteadyStays ==
  ASSUME WorldInv, PhaseInv, NEW p \in Invocations, NEW s \in Now(p), Acts(p, s),
         NEW q \in Invocations, Clear(run[q]), NEW r, Steady(family, run[q].phase, r),
         r \in DOMAIN record', record'[r].ok
  PROVE  r \in DOMAIN record /\ record'[r] = record[r]
<1>1. SUFFICES ASSUME s.op = "fill", s.by = r, ~run[p].bad PROVE FALSE
  BY DEF Acts, Does, Deed
<1>2. AtStep(Experiment, run[p], s)
  BY NowIs
<1>3. ~run[p].failing /\ run[p].phase # ""
  BY <1>1, <1>2 DEF AtStep, RunTyped
<1>4. run[p].at \in DOMAIN Experiment.phases[run[p].phase].steps /\ s = Experiment.phases[run[p].phase].steps[run[p].at]
  BY <1>2, <1>3 DEF AtStep, ScriptOf
<1>5. run[p].phase \in Rivals(family, run[q].phase)
  BY <1>3, RivalIs DEF Clear
<1> QED
  BY <1>1, <1>4, <1>5 DEF Steady, Experiment

(* A true note of somebody else stays true. *)
LEMMA OthersNoted ==
  ASSUME WorldInv, RecordsInv, PhaseInv, BoltInv, TruthInv,
         NEW p \in Invocations, NEW s \in Now(p), Acts(p, s), NEW q \in Invocations, q # p, Clear(run[q])
  PROVE  Noted(run[q], disk', record')
<1> DEFINE F == Experiment
           z == run[q]
<1>1. PICK b \in Notes(z.phase, z.at) : NoteHolds(z, disk, record, b)
  BY DEF TruthInv, Noted
<1>2. Spares(F, disk, record, disk', record') /\ Sound(F, Tells, disk, record) /\ Fits(F, z, disk, record, b)
  BY <1>1, StepSpares DEF Acts, TruthInv, NoteHolds
<1>3. \A f \in F.files : disk'[f].ver \in Nat /\ disk[f].ver <= disk'[f].ver
  BY <1>2, DeedNewer DEF Acts, Does
<1>4. ASSUME NEW c \in b.facts, c[1] \in F.files
      PROVE  /\ \A X \in {c[2], c[3]} :
                   \/ X \in {Saw, Looks, First, Disk}
                   \/ \E r : /\ X \in {Says(r), Used(r)}
                             /\ r \in DOMAIN record' /\ record'[r].ok => r \in DOMAIN record /\ record'[r] = record[r]
             /\ c[2] = Disk => disk'[c[1]] = disk[c[1]]
             /\ c[3] # Disk
  <2>1. Lasting(family, z.phase, z.at, b, c)
    BY <1>1 DEF NoteHolds
  <2>2. ASSUME NEW r \in b.acc
        PROVE  r \in DOMAIN record /\ record'[r] = record[r] /\ disk'[r] = disk[r]
    <3>1. r \in F.kept /\ AcceptedIn(disk, record, r)
      BY <1>2 DEF Fits
    <3> QED
      BY <1>2, <3>1 DEF Spares, AcceptedIn
  <2>3. ASSUME NEW r, r \in b.acc \/ Steady(family, z.phase, r), r \in DOMAIN record', record'[r].ok
        PROVE  r \in DOMAIN record /\ record'[r] = record[r]
    BY <2>2, <2>3, SteadyStays
  <2>4. \A X \in {c[2], c[3]} :
           \/ X \in {Saw, Looks, First, Disk}
           \/ \E r : /\ X \in {Says(r), Used(r)}
                     /\ r \in DOMAIN record' /\ record'[r].ok => r \in DOMAIN record /\ record'[r] = record[r]
    BY <2>1, <2>3 DEF Lasting
  <2>5. c[2] = Disk => disk'[c[1]] = disk[c[1]]
    <3>1. SUFFICES ASSUME c[2] = Disk PROVE disk'[c[1]] = disk[c[1]]
      OBVIOUS
    <3>2. c[1] \in b.acc \/ Untouched(family, z.phase, z.at, c[1])
      BY <2>1, <3>1 DEF Lasting
    <3>3. c[1] \in Files
      BY <1>4 DEF Files, Experiment
    <3> QED
      BY <2>2, <3>2, <3>3, UntouchedStays
  <2>6. c[3] # Disk
    BY <2>1 DEF Lasting
  <2> QED
    BY <2>4, <2>5, <2>6
<1> HIDE DEF F
<1>5. Fits(F, z, disk', record', b)
  BY <1>2, <1>3, <1>4, OthersFit
<1> QED
  BY <1>1, <1>5 DEF Noted, NoteHolds, F

(* The files and records stay as they should be. *)
LEMMA ActsSound ==
  ASSUME WorldInv, RecordsInv, TruthInv, NEW p \in Invocations, NEW s \in Now(p), Acts(p, s)
  PROVE  Sound(Experiment, Tells, disk', record')
<1> DEFINE F == Experiment
           x == run[p]
           y == run'[p]
<1>1. /\ Spares(F, disk, record, disk', record') /\ Sound(F, Tells, disk, record)
      /\ Deed(F, s, x, disk, record, disk', record') /\ BookShaped(F)
  BY StepSpares, OutlineIs DEF Acts, TruthInv, Does
<1>2. \A f \in F.files : disk'[f].ver \in Nat /\ disk[f].ver <= disk'[f].ver
  BY <1>1, DeedNewer
<1>3. F.given \subseteq F.files /\ DOMAIN record' \subseteq F.records
  BY <1>1 DEF BookShaped, Deed
<1>4. ASSUME NEW f \in F.files, Fixed(F, f) PROVE disk'[f] = disk[f]
  <2>1. AtStep(F, x, s)
    BY NowIs
  <2>2. x.phase \in DOMAIN F.phases /\ x.at \in DOMAIN ScriptOf(F, x) /\ s = ScriptOf(F, x)[x.at]
    BY <2>1 DEF AtStep, RunTyped
  <2>3. ~Touches(s, f)
    BY <1>4, <2>2 DEF Fixed, Touched, TouchedBy, ScriptOf
  <2> QED
    BY <1>1, <2>3 DEF Deed
<1>5. ASSUME NEW r \in DOMAIN record', record'[r].ok,
             s.op = "fill", s.by = r, ~x.bad, record'[r].claims = x.saw, record'[r].read = x.read
      PROVE  TrueRecord(F, Tells, disk', record', r)
  <2>1. Went(p)
    BY <1>5 DEF Acts, Went
  <2>2. /\ Clear(x) /\ x.phase \in DOMAIN F.phases
        /\ x.at \in DOMAIN F.phases[x.phase].steps /\ s = F.phases[x.phase].steps[x.at]
    BY <2>1, WentGoes DEF Acts, Clear
  <2>3. PICK a \in Notes(x.phase, x.at) : NoteHolds(x, disk, record, a)
    BY <2>2 DEF TruthInv, Noted
  <2>4. s.over \subseteq {s.by} /\ Announces(F, Tells, a, s)
    <3>1. s.by \in Records
      BY <1>3, <1>5 DEF Records, Experiment
    <3> QED
      BY <1>5, <2>2, <2>3, <3>1, TextIs
  <2>5. Passed(F, x, disk, record, s) /\ Remembers(s, x, disk, record, disk', y) /\ Fits(F, x, disk, record, a)
    BY <2>1, <2>3 DEF Acts, Checked, NoteHolds
  <2>6. s.by \in F.records
    BY <1>3, <1>5
  <2> HIDE DEF F, x, y
  <2> QED
    BY <1>1, <1>5, <2>4, <2>5, <2>6, NewRecord
<1>6. \A r \in DOMAIN record' : record'[r].ok =>
        (r \in DOMAIN record /\ record'[r] = record[r]) \/ TrueRecord(F, Tells, disk', record', r)
  BY <1>1, <1>5 DEF Deed
<1> HIDE DEF F
<1> QED
  BY <1>1, <1>2, <1>3, <1>4, <1>6, StaysSound DEF F

(* The notes are those of the experiment, which stays. *)
LEMMA TruthStays ==
  ASSUME Experiment' = Experiment, Invocations' = Invocations, family' = family,
         Sound(Experiment, Tells, disk', record'),
         \A q \in Invocations : Clear(run'[q]) => Noted(run'[q], disk', record')
  PROVE  TruthInv'
<1>1. Tells' = Tells
  BY DEF Tells
<1>2. Sound(Experiment, Tells, disk, record)'
  BY <1>1
<1>3. \A q \in Invocations : Clear(run[q])' => Noted(run[q], disk, record)'
  BY DEF Clear, Noted, NoteHolds, Notes
<1> QED
  BY <1>2, <1>3 DEF TruthInv

(* Whatever an invocation does keeps the notes true. *)
LEMMA ActsTruth ==
  ASSUME WorldInv, RecordsInv, PhaseInv, BoltInv, TruthInv, NEW p \in Invocations, NEW s \in Now(p), Acts(p, s)
  PROVE  TruthInv'
<1>1. /\ Experiment' = Experiment /\ Invocations' = Invocations /\ family' = family
      /\ \A q \in Invocations : q # p => run'[q] = run[q]
  BY ActsStay DEF Acts
<1>2. Sound(Experiment, Tells, disk', record')
  BY ActsSound
<1>3. ASSUME NEW q \in Invocations, Clear(run'[q]) PROVE Noted(run'[q], disk', record')
  <2>1. CASE q = p
    BY <1>3, <2>1, OwnNoted DEF Clear, Went
  <2>2. CASE q # p
    <3>1. run'[q] = run[q]
      BY <1>1, <2>2
    <3> QED
      BY <1>3, <2>2, <3>1, OthersNoted
  <2> QED
    BY <2>1, <2>2
<1> QED
  BY <1>1, <1>2, <1>3, TruthStays

(* Of who starts the note holds that knows nothing. *)
LEMMA StartNoted ==
  ASSUME WorldInv, NEW x, NEW d, NEW rec, x.phase \in DOMAIN Experiment.phases, x.at = 1, x.saw = Nothing, x.read = {}
  PROVE  Noted(x, d, rec)
<1>1. PICK a \in Notes(x.phase, 1) : Begins(a)
  BY OutlineIs DEF Outlined, Notes, Experiment
<1>2. DOMAIN x.saw = {}
  BY DEF Nothing
<1>3. Digests(Experiment, d, x.saw) /\ Looked(Experiment, d, x.read)
  BY <1>2 DEF Digests, Looked
<1>4. a.has = {} /\ a.acc = {} /\ a.facts = {}
  BY <1>1 DEF Begins
<1>5. Fits(Experiment, x, d, rec, a)
  BY <1>2, <1>3, <1>4 DEF Fits
<1> QED
  BY <1>1, <1>4, <1>5 DEF Noted, NoteHolds

(* Nor does anybody change them who comes or goes. *)
LEMMA ComesTruth ==
  ASSUME WorldInv, TruthInv, NEW p \in Invocations, Comes(p)
  PROVE  TruthInv'
<1>1. /\ Experiment' = Experiment /\ Invocations' = Invocations /\ family' = family
      /\ disk' = disk /\ record' = record
      /\ \A q \in Invocations : q # p => run'[q] = run[q]
  BY DEF Comes, Visits, Experiment, Invocations
<1>2. Sound(Experiment, Tells, disk', record')
  BY <1>1 DEF TruthInv
<1>3. ASSUME NEW q \in Invocations, Clear(run'[q]) PROVE Noted(run'[q], disk', record')
  <2>1. CASE q = p
    <3>1. /\ run'[p].phase \in DOMAIN Experiment.phases /\ run'[p].at = 1
          /\ run'[p].saw = Nothing /\ run'[p].read = {}
      BY <1>3, <2>1 DEF Clear, Comes, Visits, RunTyped
    <3> QED
      BY <2>1, <3>1, StartNoted
  <2>2. CASE q # p
    BY <1>1, <1>3, <2>2 DEF TruthInv
  <2> QED
    BY <2>1, <2>2
<1> QED
  BY <1>1, <1>2, <1>3, TruthStays

(* An edit is of a file that the notes do not lean on. *)
LEMMA EditTruth ==
  ASSUME WorldInv, TruthInv, NEW f \in Files, Edited(f)
  PROVE  TruthInv'
<1> DEFINE F == Experiment
<1>1. /\ Experiment' = Experiment /\ Invocations' = Invocations /\ family' = family
      /\ run' = run /\ record' = record /\ f \in F.editable
  BY DEF Edited, Experiment, Invocations
<1>2. BookShaped(F) /\ Sound(F, Tells, disk, record)
  BY OutlineIs DEF TruthInv
<1>3. /\ \A g \in F.files : disk[g].ver \in Nat /\ disk'[g].ver \in Nat
      /\ \A g \in F.files : g # f => disk'[g] = disk[g]
      /\ disk'[f].ver = disk[f].ver + 1
  BY DEF Edited, WorldInv, Files, Experiment
<1>4. \A g \in F.files : disk'[g].ver \in Nat /\ disk[g].ver <= disk'[g].ver
  <2>1. SUFFICES ASSUME NEW g \in F.files PROVE disk'[g].ver \in Nat /\ disk[g].ver <= disk'[g].ver
    OBVIOUS
  <2>2. disk'[g].ver = disk[g].ver \/ disk'[g].ver = disk[g].ver + 1
    BY <1>3
  <2> QED
    BY <1>3, <2>2
<1>5. \A q \in F.kept : q \in F.files /\ q # f /\ disk'[q] = disk[q]
  BY <1>1, <1>2, <1>3 DEF BookShaped
<1>6. Spares(F, disk, record, disk', record')
  BY <1>1, <1>5 DEF Spares, AcceptedIn
<1>7. Sound(F, Tells, disk', record')
  <2>1. \A g \in F.files : Fixed(F, g) => disk'[g] = disk[g]
    BY <1>1, <1>3 DEF Fixed
  <2>2. F.given \subseteq F.files /\ DOMAIN record' \subseteq F.records
    BY <1>1, <1>2 DEF BookShaped, Sound
  <2>3. \A r \in DOMAIN record' : record'[r].ok =>
           (r \in DOMAIN record /\ record'[r] = record[r]) \/ TrueRecord(F, Tells, disk', record', r)
    BY <1>1
  <2> HIDE DEF F
  <2> QED
    BY <1>2, <1>4, <1>6, <2>1, <2>2, <2>3, StaysSound
<1>8. ASSUME NEW q \in Invocations, Clear(run'[q]) PROVE Noted(run'[q], disk', record')
  <2> DEFINE z == run[q]
  <2>0. run'[q] = z
    BY <1>1
  <2>1. PICK b \in Notes(z.phase, z.at) : NoteHolds(z, disk, record, b)
    BY <1>1, <1>8 DEF TruthInv, Noted
  <2>2. Fits(F, z, disk, record, b)
    BY <2>1 DEF NoteHolds
  <2>3. ASSUME NEW c \in b.facts, c[1] \in F.files
        PROVE  /\ \A X \in {c[2], c[3]} :
                     \/ X \in {Saw, Looks, First, Disk}
                     \/ \E r : /\ X \in {Says(r), Used(r)}
                               /\ r \in DOMAIN record' /\ record'[r].ok => r \in DOMAIN record /\ record'[r] = record[r]
               /\ c[2] = Disk => disk'[c[1]] = disk[c[1]]
               /\ c[3] # Disk
    <3>1. Lasting(family, z.phase, z.at, b, c)
      BY <2>1 DEF NoteHolds
    <3>2. c[2] = Disk => c[1] \in F.kept \/ c[1] \notin F.editable
      BY <2>2, <3>1 DEF Lasting, Untouched, Fits, Experiment
    <3>3. c[2] = Disk => disk'[c[1]] = disk[c[1]]
      BY <1>1, <1>3, <1>5, <2>3, <3>2
    <3>4. \A X \in {c[2], c[3]} : X \in {Saw, Looks, First, Disk} \/ \E r : X \in {Says(r), Used(r)}
      BY <3>1 DEF Lasting
    <3>5. c[3] # Disk
      BY <3>1 DEF Lasting
    <3> QED
      BY <1>1, <3>3, <3>4, <3>5
  <2> HIDE DEF F, z
  <2>4. Fits(F, z, disk', record', b)
    BY <1>2, <1>4, <1>6, <2>2, <2>3, OthersFit
  <2>5. Noted(z, disk', record')
    BY <2>1, <2>4 DEF Noted, NoteHolds, F
  <2> QED
    BY <2>0, <2>5
<1> QED
  BY <1>1, <1>7, <1>8, TruthStays

(* TruthInv is kept by every step. *)
LEMMA NextTruth ==
  ASSUME WorldInv, RecordsInv, IdleInv, PhaseInv, BoltInv, TruthInv, [Next]_vars
  PROVE  TruthInv'
<1>1. CASE Next
  BY <1>1, NextActs, ActsTruth, ComesTruth, EditTruth
<1>2. CASE UNCHANGED vars
  <2>1. /\ Experiment' = Experiment /\ Invocations' = Invocations /\ family' = family
        /\ run' = run /\ disk' = disk /\ record' = record
    BY <1>2 DEF vars, Experiment, Invocations
  <2>2. Sound(Experiment, Tells, disk', record')
    BY <2>1 DEF TruthInv
  <2>3. \A q \in Invocations : Clear(run'[q]) => Noted(run'[q], disk', record')
    BY <2>1 DEF TruthInv
  <2> QED
    BY <2>1, <2>2, <2>3, TruthStays
<1> QED
  BY <1>1, <1>2

(* Before the first invocation there is no record and nobody knows a thing. *)
LEMMA InitTruth ==
  ASSUME Init
  PROVE  IdleInv /\ PhaseInv /\ BoltInv /\ TruthInv
<1>1. WorldInv /\ BookShaped(Experiment) /\ Outlined(family)
  BY InitWorld, OutlineIs
<1>2. \A p \in Invocations : run[p] = Idle /\ run[p].phase = ""
  BY DEF Init, Idle
<1>3. IdleInv /\ PhaseInv
  BY <1>2 DEF IdleInv, PhaseInv
<1>4. BoltInv
  BY <1>2 DEF BoltInv, BoltHeld, Bolted
<1>5. \A p \in Invocations : ~Clear(run[p])
  BY <1>2 DEF Clear
<1>6. DOMAIN record = {}
  BY DEF Init, Nothing
<1>7. /\ \A f \in Experiment.files : disk[f].ver \in Nat
      /\ \A f \in Experiment.given : f \in Experiment.files => disk[f].ver = 1
  BY <1>1 DEF Init, WorldInv, Files, Experiment
<1>8. Sound(Experiment, Tells, disk, record)
  <2>1. /\ Experiment.records \subseteq Experiment.files /\ Experiment.kept \subseteq Experiment.records
        /\ Experiment.given \subseteq Experiment.files
    BY <1>1 DEF BookShaped
  <2>2. \A f \in Experiment.given : 1 <= disk[f].ver
    <3>1. SUFFICES ASSUME NEW f \in Experiment.given PROVE 1 <= disk[f].ver
      OBVIOUS
    <3>2. disk[f].ver = 1
      BY <1>7, <2>1
    <3> QED
      BY <3>2
  <2>3. \A f \in Experiment.files : Fixed(Experiment, f) => disk[f].ver = 1
    BY <1>7 DEF Fixed
  <2>4. \A r \in Experiment.records : \A t \in Tells[r].facts : {t[2], t[3]} \subseteq {Says(r), Used(r), First}
    BY <1>1 DEF Outlined, Experiment, Tells
  <2> QED
    BY <1>6, <1>7, <2>1, <2>2, <2>3, <2>4 DEF Sound
<1> QED
  BY <1>3, <1>4, <1>5, <1>8 DEF TruthInv

(* The inductive invariant: the shapes of the state and of invocations,    *)
(* the records that are held, the bolts nobody passes twice, and that what *)
(* the notes and the accepted records tell is so.                          *)
TrueInv == WorldInv /\ RecordsInv /\ IdleInv /\ PhaseInv /\ BoltInv /\ TruthInv

(* Every state of every behaviour keeps it. *)
LEMMA AlwaysTrue == Spec => []TrueInv
<1>1. Init => TrueInv
  BY InitWorld, InitRecords, InitTruth DEF TrueInv
<1>2. TrueInv /\ [Next]_vars => TrueInv'
  BY NextWorld, NextRecords, NextMinds, NextBolts, NextTruth DEF TrueInv
<1> QED
  BY <1>1, <1>2, PTL DEF Spec

(***************************************************************************)
(* An accepted record rests only on records that were accepted and whole,  *)
(* and agrees with them on every file both speak of.                       *)
(***************************************************************************)
THEOREM EvidenceChainAgrees == Spec => []ChainAgrees
<1>1. TrueInv => ChainAgrees
  <2>1. SUFFICES ASSUME TrueInv, NEW r \in DOMAIN record, record[r].ok,
                        NEW q \in Records \cap DOMAIN record[r].claims
                 PROVE  /\ Accepted(q) /\ record[r].claims[q] = disk[q].ver
                        /\ Agree(record[r].claims, record[q].claims)
    BY DEF ChainAgrees
  <2>2. TrueRecord(Experiment, Tells, disk, record, r)
    BY <2>1 DEF TrueInv, TruthInv, Sound
  <2>3. /\ AcceptedIn(disk, record, q) /\ record[r].claims[q] = disk[q].ver
        /\ Agree(record[r].claims, record[q].claims)
    BY <2>1, <2>2 DEF TrueRecord, Records, Experiment
  <2> QED
    BY <2>3 DEF AcceptedIn, Accepted, Ok
<1> QED
  BY <1>1, AlwaysTrue, PTL

(***************************************************************************)
(* "source_and_input_closure": what a closed record says of a file is what *)
(* its phase, and the phases of the records it rests on, really read.      *)
(***************************************************************************)
THEOREM EvidenceClosureIsTrue == Spec => []ClosureIsTrue
<1>1. TrueInv => ClosureIsTrue
  <2>1. SUFFICES ASSUME TrueInv, NEW r \in DOMAIN record \cap Book[family].closed, record[r].ok
                 PROVE  /\ \A e \in record[r].read : e[1] \in DOMAIN record[r].claims
                                                     /\ Speaks(record[r].claims, e)
                        /\ \A q \in DOMAIN record[r].claims \cap DOMAIN record :
                              \A e \in record[q].read : e[1] \in DOMAIN record[q].claims => Speaks(record[r].claims, e)
    BY DEF ClosureIsTrue
  <2>2. Sound(Experiment, Tells, disk, record)
    BY <2>1 DEF TrueInv, TruthInv
  <2>3. TrueRecord(Experiment, Tells, disk, record, r)
    BY <2>1, <2>2 DEF Sound
  <2>4. /\ Looked(Experiment, disk, record[r].read)
        /\ \A f, v : <<f, v>> \in record[r].read => f \in DOMAIN record[r].claims /\ v = record[r].claims[f]
        /\ \A q \in Experiment.records \cap DOMAIN record[r].claims :
              /\ AcceptedIn(disk, record, q)
              /\ \A f, v : <<f, v>> \in record[q].read /\ f \in DOMAIN record[q].claims /\ f \in DOMAIN record[r].claims =>
                    v = record[r].claims[f]
    BY <2>1, <2>3 DEF TrueRecord, Experiment
  <2>5. ASSUME NEW q \in DOMAIN record, record[q].ok, NEW e \in record[q].read
        PROVE  e = <<e[1], e[2]>>
    <3>1. TrueRecord(Experiment, Tells, disk, record, q)
      BY <2>2, <2>5 DEF Sound
    <3>2. e \in Experiment.files \X Nat
      BY <2>5, <3>1 DEF TrueRecord, Looked
    <3> QED
      BY <3>2
  <2>6. ASSUME NEW e \in record[r].read
        PROVE  e[1] \in DOMAIN record[r].claims /\ Speaks(record[r].claims, e)
    <3>1. <<e[1], e[2]>> \in record[r].read
      BY <2>1, <2>5, <2>6
    <3> QED
      BY <2>4, <3>1 DEF Speaks
  <2>7. ASSUME NEW q \in DOMAIN record[r].claims \cap DOMAIN record, NEW e \in record[q].read,
               e[1] \in DOMAIN record[q].claims
        PROVE  Speaks(record[r].claims, e)
    <3>1. q \in Experiment.records \cap DOMAIN record[r].claims
      BY <2>2, <2>7 DEF Sound
    <3>2. record[q].ok
      BY <2>4, <3>1 DEF AcceptedIn
    <3>3. <<e[1], e[2]>> \in record[q].read
      BY <2>5, <2>7, <3>2
    <3> QED
      BY <2>4, <2>7, <3>1, <3>3 DEF Speaks
  <2> QED
    BY <2>6, <2>7
<1> QED
  BY <1>1, AlwaysTrue, PTL
=============================================================================
