------------------------------ MODULE Outlines ------------------------------
(***************************************************************************)
(* What the scripts of a book are sure of.  A proof outline, in the sense  *)
(* of Floyd, notes for every position of a script what is true of an       *)
(* invocation that is there and has found nothing wrong: which digests it  *)
(* keeps, which files it may have read, which records it knows to be       *)
(* accepted, and which versions of a file are no newer than which.  And it *)
(* says what an accepted record tells its readers.  An outline is checked  *)
(* step by step, against the scripts alone; that the states keep to it is  *)
(* proved in EvidenceProofs, for every book that has one.                  *)
(***************************************************************************)
EXTENDS Ownership

CONSTANT Outline   \* experiment |-> [notes, tells].  notes[phase][i]: the notes of which one
                   \* holds at step i, [has, may, looked, acc, facts]; tells[r]: what holds
                   \* of record r when it says ok, the same without acc

(* The versions a note speaks of: those an invocation keeps as digests and *)
(* those it read, the one on the disk, the first, the one a step writes;   *)
(* those record q claims and those its writer read.  A fact <<f, U, W>>    *)
(* says that no version of f in U is newer than one in W.                  *)
Saw     == <<"saw", "">>
Looks   == <<"looks", "">>
Disk    == <<"disk", "">>
First   == <<"first", "">>
Written == <<"written", "">>
Says(q) == <<"says", q>>
Used(q) == <<"used", q>>
-----------------------------------------------------------------------------
(* Who else may be alive, and what they may write. *)
Single(fam) == \A b \in Scenarios : fam \in b.families => b.invocations = 1
Mixed(fam)  == \E b \in Scenarios : fam \in b.families /\ b.mixed
Rivals(fam, ph) == IF Mixed(fam) THEN DOMAIN Book[fam].phases ELSE {ph}

Touches(step, f) == \/ step.op \in {"create", "place", "fill", "draft"} /\ step.by = f
                    \/ step.op = "note" /\ f \in step.over
TouchedBy(s, f)  == \E i \in DOMAIN s : Touches(s[i], f)
Touched(phase, f) == TouchedBy(phase.steps, f) \/ TouchedBy(phase.failing, f)

(* Nobody gets past position c of script s without creating a token there, *)
(* nor, with a barrier, to its handler; a phase writes f only behind t.    *)
Bolt(s, c)    == s[c].op = "create" /\ \A i \in 1..(c - 1) : \A j \in After(s, i) : j <= c
Barrier(s, c) == \A i \in 1..(c - 1) : ~On(s[i])
Behind(phase, t, f) ==
    \E c \in DOMAIN phase.steps :
        /\ phase.steps[c].by = t /\ Bolt(phase.steps, c)
        /\ \A i \in DOMAIN phase.steps : Touches(phase.steps[i], f) => c < i
        /\ TouchedBy(phase.failing, f) => Barrier(phase.steps, c)

(* At step i of phase ph nobody else changes f. *)
Untouched(fam, ph, i, f) ==
    LET phases  == Book[fam].phases
        writers == {x \in Rivals(fam, ph) : Touched(phases[x], f)}
        s == phases[ph].steps
    IN  /\ f \notin Book[fam].editable
        /\ \/ Single(fam)
           \/ writers = {}
           \/ \E c \in DOMAIN s : /\ c < i /\ Bolt(s, c)
                                 /\ \A x \in writers : Behind(phases[x], s[c].by, f)

(* In phase ph nobody else makes record q say ok. *)
Steady(fam, ph, q) ==
    \A x \in Rivals(fam, ph) : \A i \in DOMAIN Book[fam].phases[x].steps :
        ~(Book[fam].phases[x].steps[i].op = "fill" /\ Book[fam].phases[x].steps[i].by = q)

(* A file of which there is one version only. *)
Fixed(F, f) == /\ f \in F.given \ F.editable
               /\ \A ph \in DOMAIN F.phases : ~Touched(F.phases[ph], f)
-----------------------------------------------------------------------------
(* What a step adds to the digests kept, from where, and to the files read. *)
Adds(s) == IF s.op \in {"hash", "take", "pin", "follow", "fill"} THEN s.over
           ELSE IF s.op = "named" THEN {s.by} ELSE {}
Source(s) == [hash |-> Disk, take |-> Disk, named |-> Disk, pin |-> First,
              follow |-> Says(s.by), fill |-> Written][s.op]
LooksAt(s) == IF s.op \in {"read", "take", "launch"} THEN s.over ELSE {}

(* What is X of f after step s was one of these before it. *)
Anew(s, f, X) == \/ X = Saw /\ f \in Adds(s)
                 \/ s.op = "fill" /\ X \in {Says(s.by), Used(s.by)}
Was(s, a, f, X) ==
    {U \in {X, Saw, Looks, Disk, First, Written, Says(s.by)} :
        \/ U = X /\ ~Anew(s, f, X)
        \/ X = Saw /\ f \in Adds(s) /\ U = Source(s)
        \/ X = Saw /\ s.op = "list" /\ f \in s.over /\ U = Disk
        \/ X = Looks /\ f \in LooksAt(s) /\ U = Disk
        \/ X = Disk /\ Touches(s, f) /\ U = Written
        \/ s.op = "fill" /\ X = Says(s.by) /\ U = Saw
        \/ s.op = "fill" /\ X = Used(s.by) /\ U = Looks}

(* What a step that went well has checked, and the records it accepted. *)
Ensures(s, f, U, W) ==
    \/ s.op = "follow" /\ f \in s.over /\ <<U, W>> \in {<<Saw, Says(s.by)>>, <<Says(s.by), Saw>>}
    \/ s.op \in {"same", "settle"} /\ (s.over = {} \/ f \in s.over) /\ <<U, W>> = <<Disk, Saw>>
    \/ s.op = "matches" /\ f \in s.over /\ <<U, W>> \in {<<Looks, Saw>>, <<Saw, Looks>>}
    \/ s.op = "validated" /\ f \in s.over /\ <<U, W>> \in {<<Disk, Used(s.by)>>, <<Used(s.by), Disk>>}
Accepts(F, T, s) ==
    {q \in F.kept : \/ s.op \in {"follow", "named"} /\ q = s.by
                    \/ s.op = "follow" /\ q \in T[s.by].has}
Earns(F, s, there) == {q \in F.kept : q = s.by /\ (s.op = "fill" \/ (s.op = "accepted" /\ there))}
-----------------------------------------------------------------------------
(* Of f there is nothing in X. *)
Silent(T, a, f, X) ==
    \/ X = Saw /\ f \notin a.may
    \/ X = Looks /\ f \notin a.looked
    \/ X[1] = "says" /\ f \notin T[X[2]].may
    \/ X[1] = "used" /\ f \notin T[X[2]].looked

(* Before step s, with note a, no version of f in U is newer than one in W:*)
(* what is on the disk is the newest, digests begin with the first, a file *)
(* that is a record is as the records on it say, and records of one chain  *)
(* agree.                                                                  *)
Direct(F, T, a, s, f, U, W) ==
    \/ <<f, U, W>> \in a.facts
    \/ Ensures(s, f, U, W)
    \/ U = W /\ U \in {Saw, Disk, First, Says(U[2])}
    \/ W = Disk /\ U # First
    \/ U = First /\ (W = Saw \/ W[1] = "says")
    \/ U = Disk /\ W[1] = "says" /\ f \in F.records
    \/ Silent(T, a, f, U) \/ Silent(T, a, f, W)
    \/ U[1] = "says" /\ W[1] = "says" /\ (W[2] \in T[U[2]].has \/ U[2] \in T[W[2]].has)
    \/ \E q \in {U[2], W[2]} \cap F.records : <<f, U, W>> \in T[q].facts
    \/ Fixed(F, f)

(* Of f there is something in each of these. *)
Solid(F, T, a, s, f) ==
    {First, Disk} \cup {X \in {Saw} : f \in a.has}
    \cup {Says(q) : q \in {r \in a.acc \cup Accepts(F, T, s) : f \in T[r].has}}
Derived(F, T, a, s, f, U, W) ==
    \/ W = Written
    \/ /\ U # Written
       /\ \/ Direct(F, T, a, s, f, U, W)
          \/ \E X \in Solid(F, T, a, s, f) : Direct(F, T, a, s, f, U, X) /\ Direct(F, T, a, s, f, X, W)
Equal(F, T, a, s, f, U, W) == Derived(F, T, a, s, f, U, W) /\ Derived(F, T, a, s, f, W, U)
-----------------------------------------------------------------------------
(* A fact of note b at position j is not undone by anybody else. *)
Lasting(fam, ph, j, b, c) ==
    /\ \A X \in {c[2], c[3]} :
          \/ X \in {Saw, Looks, First, Disk}
          \/ \E q \in Book[fam].kept : X \in {Says(q), Used(q)} /\ (q \in b.acc \/ Steady(fam, ph, q))
    /\ c[2] = Disk => c[1] \in b.acc \/ Untouched(fam, ph, j, c[1])
    /\ c[3] # Disk

(* Note b holds at position j when note a did at i, and the step went there. *)
Follows(fam, ph, i, j, a, b) ==
    LET F == Book[fam]
        T == Outline[fam].tells
        s == F.phases[ph].steps[i]
    IN  /\ b.has \subseteq a.has \cup Adds(s)
        /\ a.may \cup Adds(s) \cup (IF s.op = "list" THEN s.over ELSE {}) \subseteq b.may
        /\ a.looked \cup LooksAt(s) \subseteq b.looked
        /\ b.acc \subseteq a.acc \cup Accepts(F, T, s) \cup Earns(F, s, j = i + 1 /\ s.past # 0)
        /\ \A c \in b.facts :
              /\ Lasting(fam, ph, j, b, c)
              /\ \A U \in Was(s, a, c[1], c[2]), W \in Was(s, a, c[1], c[3]) : Derived(F, T, a, s, c[1], U, W)

(* The record that step s announces tells what note a says, rests only on  *)
(* accepted records that agree with it, and is closed if it is to be.      *)
Announces(F, T, a, s) ==
    LET t == T[s.by]
        on == a.may \cap F.records
    IN  /\ t.has \subseteq a.has /\ a.may \subseteq t.may /\ a.looked \subseteq t.looked
        /\ \A c \in t.facts : \A U \in Was(s, a, c[1], c[2]), W \in Was(s, a, c[1], c[3]) :
              Derived(F, T, a, s, c[1], U, W)
        /\ \A q \in on : /\ q \in a.acc /\ Derived(F, T, a, s, q, Disk, Saw)
                         /\ \A f \in a.may \cap T[q].may : Equal(F, T, a, s, f, Saw, Says(q))
        /\ s.by \in F.closed =>
              /\ a.looked \subseteq a.has
              /\ \A f \in a.looked : Equal(F, T, a, s, f, Saw, Looks)
              /\ \A q \in on : \A f \in a.may \cap T[q].may \cap T[q].looked : Equal(F, T, a, s, f, Saw, Used(q))

(* A script begins knowing nothing, and every step leads from note to note. *)
Begins(a) == a.has = {} /\ a.acc = {} /\ a.facts = {}
Outlined(fam) ==
    LET F == Book[fam]
        T == Outline[fam].tells
    IN  /\ DOMAIN T = F.records
        /\ \A r \in F.records : \A c \in T[r].facts : {c[2], c[3]} \subseteq {Says(r), Used(r), First}
        /\ \A ph \in DOMAIN F.phases :
              LET steps == F.phases[ph].steps
                  notes == Outline[fam].notes[ph]
              IN  /\ \E a \in notes[1] : Begins(a)
                  /\ \A i \in DOMAIN steps :
                        /\ steps[i].op = "pin" => steps[i].over \subseteq F.given
                        /\ steps[i].op = "fill" => steps[i].over \subseteq {steps[i].by}
                        /\ steps[i].op = "named" => steps[i].by \in F.files
                        /\ \A a \in notes[i] :
                              /\ steps[i].op = "fill" /\ steps[i].by \in F.records => Announces(F, T, a, steps[i])
                              /\ \A j \in After(steps, i) : \E b \in notes[j] : Follows(fam, ph, i, j, a, b)

ASSUME OutlineAssumption == \A fam \in DOMAIN Book : Outlined(fam)
=============================================================================
