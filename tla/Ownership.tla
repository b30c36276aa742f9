------------------------------ MODULE Ownership ------------------------------
(***************************************************************************)
(* The rule the scripts of a book keep, as a reader would check it line by *)
(* line.  What may happen only once - the expensive step of a phase, the   *)
(* writing of a record that is never replaced - stands behind a claim: a   *)
(* file or a directory that open(path, "x") or mkdir creates, or, where    *)
(* one process runs at a time, a path that was not there.  The rule speaks *)
(* of the text of the scripts alone; what it is good for is proved in      *)
(* EvidenceProofs, for every book that keeps it.                           *)
(***************************************************************************)
EXTENDS Evidence

(* The positions that follow position i of a script. *)
After(s, i) == IF s[i].op = "skip" THEN {i + 1 + s[i].past}
               ELSE IF s[i].op \in {"found", "accepted"} THEN {i + 1, i + 1 + s[i].past}
               ELSE {i + 1}

(* The steps that may raise, and whether a failure at i runs the handler.  *)
Raising == {"fresh", "hash", "named", "follow", "same", "matches", "read", "take",
            "launch", "gate", "accepted", "create", "validated"}
On(step)  == step.op = "try" /\ step.by = "on"
Off(step) == step.op = "try" /\ step.by # "on"
Handles(s, i) == \E j \in DOMAIN s : j < i /\ On(s[j]) /\ \A k \in DOMAIN s : j < k /\ k < i => ~Off(s[k])

Shaped(F, s) ==
    /\ s \in Seq([op : STRING, over : SUBSET F.files, by : STRING, past : Nat])
    /\ \A i \in DOMAIN s :
          /\ s[i].op \in {"create", "place", "fill", "draft"} => s[i].by \in F.files
          /\ s[i].op = "draft" => s[i].by \in F.records
          /\ s[i].op \in {"found", "accepted", "skip"} =>
                \A k \in DOMAIN s : i < k /\ k <= i + s[i].past => ~Off(s[k])

BookShaped(F) ==
    /\ F.records \subseteq F.files /\ F.kept \subseteq F.records /\ F.given \subseteq F.files
    /\ F.given \cap F.records = {} /\ F.kept \cap F.editable = {}
    /\ "" \notin DOMAIN F.phases
    /\ \A ph \in DOMAIN F.phases : Shaped(F, F.phases[ph].steps) /\ Shaped(F, F.phases[ph].failing)
-----------------------------------------------------------------------------
(* Every launch of a phase stands behind one exclusive creation.           *)
Launches(s) == {i \in DOMAIN s : s[i].op = "launch"}
Guards(s, c) == /\ s[c].op = "create"
                /\ \A i \in Launches(s) : i > c
                /\ \A i \in 1..(c - 1) : \A j \in After(s, i) : j <= c
LaunchesBehind(phase) ==
    /\ Launches(phase.failing) = {}
    /\ Launches(phase.steps) # {} => \E c \in DOMAIN phase.steps : Guards(phase.steps, c)
-----------------------------------------------------------------------------
(* The steps that write over record r. *)
Writes(step, r) == step.op \in {"place", "fill", "draft"} /\ step.by = r
Writers(s, r) == {i \in DOMAIN s : Writes(s[i], r)}

(* Going from i to j claims r: its token t was created, or r was not there *)
(* and nobody else is.                                                     *)
Claims(s, i, j, r, t, alone) ==
    \/ s[i].op = "create" /\ s[i].by = t
    \/ alone /\ s[i].op = "fresh" /\ r \in s[i].over
    \/ alone /\ s[i].op = "found" /\ s[i].by = r /\ j # i + 1

(* The positions after c, up to one of T. *)
Within(i, c, T) == c < i /\ \E w \in T : i <= w

(* A script comes to a position that holds r by a claim only. *)
Entered(s, c, T, r, t, alone) ==
    \A i \in DOMAIN s : i <= c =>
        \A j \in After(s, i) : Within(j, c, T) => Claims(s, i, j, r, t, alone)

(* The handler may go on holding r (d = 0): then it is entered from where  *)
(* r is held, and from nowhere else.                                       *)
Holding(phase, d, r) ==
    Writers(phase.steps, r) \cup
    {i \in DOMAIN phase.steps : /\ d = 0 /\ Writers(phase.failing, r) # {}
                                /\ phase.steps[i].op \in Raising /\ Handles(phase.steps, i)}

(* r is held at every step that writes it, and not after it was filled.    *)
Span(phase, c, d, r, t, alone) ==
    /\ \A w \in Holding(phase, d, r) : w > c
    /\ \A w \in Writers(phase.failing, r) : w > d
    /\ \A w \in Writers(phase.steps, r) : phase.steps[w].op = "fill" => ~Within(w + 1, c, Holding(phase, d, r))
    /\ Entered(phase.failing, d, Writers(phase.failing, r), r, t, alone)
    /\ Entered(phase.steps, c, Holding(phase, d, r), r, t, alone)

Owned(F, r, t, alone) ==
    \A ph \in DOMAIN F.phases :
        LET phase == F.phases[ph]
        IN  \E d \in 0..Len(phase.failing), c \in 1..(Len(phase.steps) + 1) : Span(phase, c, d, r, t, alone)

(* How r is held where as many processes run as in scenario b: a token     *)
(* behind which it is written, or that there is one process.               *)
OwnedIn(b, fam, r) ==
    \/ \E t \in Book[fam].files : Owned(Book[fam], r, t, FALSE)
    \/ b.invocations = 1 /\ Owned(Book[fam], r, r, TRUE)

ASSUME BookAssumption ==
    /\ \A b \in Scenarios : b.families \subseteq DOMAIN Book
    /\ \A fam \in DOMAIN Book : BookShaped(Book[fam])
ASSUME LaunchesAssumption ==
    \A fam \in DOMAIN Book : \A ph \in DOMAIN Book[fam].phases \ Book[fam].again :
        LaunchesBehind(Book[fam].phases[ph])
ASSUME RecordsAssumption ==
    \A b \in Scenarios : \A fam \in b.families : \A r \in Book[fam].kept : OwnedIn(b, fam, r)
=============================================================================
