------------------------------ MODULE Inference -----------------------------
(***************************************************************************)
(* The outline of a book, found from its scripts: every phase is walked    *)
(* once, writers first, and a note says what its step makes sure of the    *)
(* files the step is about.  Nothing rests on how it is found: Outlines    *)
(* checks it.                                                              *)
(***************************************************************************)
EXTENDS Outlines, FiniteSets, TLC
LOCAL INSTANCE Functions

Steps(fam, ph)    == Book[fam].phases[ph].steps
Mentions(fam, ph) == UNION {s.over \cup {s.by} : s \in Range(Steps(fam, ph))} \cap Book[fam].records
Fills(fam, ph, r) == {i \in DOMAIN Steps(fam, ph) : Steps(fam, ph)[i].op = "fill" /\ Steps(fam, ph)[i].by = r}
Filled(fam, ph)   == {r \in Book[fam].records : Fills(fam, ph, r) # {}}
(* The records a phase reads that it has not written. *)
Needed(fam, ph) ==
    {r \in Book[fam].records :
        \E i \in DOMAIN Steps(fam, ph) :
            /\ Steps(fam, ph)[i].op \in {"hash", "named", "follow"}
            /\ r \in Steps(fam, ph)[i].over \cup {Steps(fam, ph)[i].by}
            /\ \A k \in Fills(fam, ph, r) : i < k}

(* The files whose facts step s may change. *)
About(F, a, s) ==
    F.files \cap (s.over \cup {s.by}
                  \cup (IF s.op \in {"same", "settle"} /\ s.over = {} THEN a.may ELSE {})
                  \cup (IF s.op = "fill" /\ s.by \in F.records THEN a.may \cup a.looked ELSE {}))
(* What may be worth noting of f. *)
Candidates(f, on) ==
    {f} \X ({<<Looks, Saw>>, <<Saw, Looks>>, <<Saw, First>>, <<Disk, Saw>>, <<Disk, Looks>>}
            \cup UNION {{<<Saw, Says(q)>>, <<Says(q), Saw>>, <<Says(q), Looks>>, <<Used(q), Saw>>, <<Saw, Used(q)>>} : q \in on})
Fact(c) == <<c[1], c[2][1], c[2][2]>>

NoteAt(fam, ph, T, i, j, a) ==
    LET F == Book[fam]
        s == Steps(fam, ph)[i]
        b == [has |-> a.has \cup Adds(s),
              may |-> a.may \cup Adds(s) \cup (IF s.op = "list" THEN s.over ELSE {}),
              looked |-> a.looked \cup LooksAt(s),
              acc |-> a.acc \cup Accepts(F, T, s) \cup Earns(F, s, j = i + 1 /\ s.past # 0),
              facts |-> {}]
        on == {q \in F.kept \cap Mentions(fam, ph) : q \in b.acc \/ Steady(fam, ph, q)}
        about == About(F, a, s)
        old == {c \in a.facts : c[1] \notin about}
        new == {Fact(c) : c \in UNION {Candidates(f, on) : f \in about}}
    IN  [b EXCEPT !.facts =
           old
           \cup {c \in new : /\ c[2] = Disk => c[1] \in b.acc \/ Untouched(fam, ph, j, c[1])
                             /\ ~Direct(F, T, b, Gate[1], c[1], c[2], c[3])
                             /\ \A U \in Was(s, a, c[1], c[2]), W \in Was(s, a, c[1], c[3]) :
                                   Derived(F, T, a, s, c[1], U, W)}]

(* What the record step s announces tells, after notes A and what others do. *)
Telling(F, T, A, s) ==
    IF s.op = "fill" /\ s.by \in F.records
    THEN [T EXCEPT ![s.by] =
            [has    |-> {f \in @.has : \A a \in A : f \in a.has},
             may    |-> @.may \cup UNION {a.may : a \in A},
             looked |-> @.looked \cup UNION {a.looked : a \in A},
             facts  |-> {c \in @.facts : \A a \in A :
                          \A U \in Was(s, a, c[1], c[2]), W \in Was(s, a, c[1], c[3]) : Derived(F, T, a, s, c[1], U, W)}]]
    ELSE T

(* A phase, walked from step to step: found has the notes of the positions *)
(* that a step led to.                                                      *)
Nowhere == [has |-> {}, may |-> {}, looked |-> {}, acc |-> {}, facts |-> {}]
Notes(found, i) == {x[2] : x \in {x \in found : x[1] = i}}
Walked(fam, ph, T) ==
    LET steps == Steps(fam, ph)
        walk[i \in 0..Len(steps)] ==
            IF i = 0 THEN [found |-> {<<1, Nowhere>>}, tells |-> T]
            ELSE LET w == walk[i - 1]
                     A == Notes(w.found, i)
                     U == Telling(Book[fam], w.tells, A, steps[i])
                 IN  [found |-> w.found \cup {<<j, NoteAt(fam, ph, U, i, j, a)>> : j \in After(steps, i), a \in A},
                      tells |-> U]
        all == walk[Len(steps)]
    IN  [notes |-> [i \in 1..(Len(steps) + 1) |-> Notes(all.found, i)], tells |-> all.tells]

(* The phases of an experiment, one after the other. *)
Untold(F) == [q \in F.records |-> [has |-> F.files, may |-> {}, looked |-> {},
                                   facts |-> {<<f, U, W>> : f \in F.files, U \in {Says(q), Used(q), First}, W \in {Says(q), Used(q), First}}]]
Through(fam) ==
    LET phases == DOMAIN Book[fam].phases
        walk[n \in 0..Cardinality(phases)] ==
            IF n = 0 THEN [notes |-> Nothing, tells |-> Untold(Book[fam])]
            ELSE LET w    == walk[n - 1]
                     made == UNION {Filled(fam, ph) : ph \in DOMAIN w.notes}
                     ph   == CHOOSE ph \in phases \ DOMAIN w.notes : Needed(fam, ph) \subseteq made
                     o    == Walked(fam, ph, w.tells)
                 IN  [notes |-> (ph :> o.notes) @@ w.notes, tells |-> o.tells]
    IN  walk[Cardinality(phases)]

Inferred == [fam \in DOMAIN Book |-> Through(fam)]
=============================================================================
