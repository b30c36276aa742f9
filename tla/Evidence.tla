------------------------------ MODULE Evidence ------------------------------
(***************************************************************************)
(* The research tree settles each numerical question with an experiment:   *)
(* a handful of scripts, run by hand one after the other, that freeze      *)
(* their inputs by SHA-256, run something expensive once, and leave JSON   *)
(* records which the next script accepts by hash.  A script is straight-   *)
(* line code over files, so it is modelled as a sequence of steps, and     *)
(* this module is what a step does.  The modules beside it (Crossover,     *)
(* Telescope, ...) translate the scripts into those sequences; a book maps *)
(* every experiment to its phases.                                         *)
(*                                                                         *)
(* Between any two steps a rival invocation may run, an invocation may be  *)
(* killed, and somebody may edit a file the experiment reads.              *)
(*                                                                         *)
(* A file's content is a version: equal hashes are equal versions.  A      *)
(* version never comes back, so an edit undone between two checks is not   *)
(* modelled (no hash can see it).  Only data files are edited, never the   *)
(* JSON records themselves, and what a record says of a file is the        *)
(* version it saw.                                                         *)
(***************************************************************************)
EXTENDS Naturals, Sequences

CONSTANTS Book,      \* experiment |-> [files, records, given, editable, kept, closed, again, phases]
                     \* kept: records their writer never replaces; closed: records that
                     \* say their inputs were the same from beginning to end;
                     \* again: phases made to be run again in the same directory
          Scenarios  \* bounds of a behaviour: [families, invocations, mixed, edits, kills, restarts];
                     \* mixed: invocations alive at once may be in different phases;
                     \* restarts: how often phases of `again' are started

VARIABLES bound,    \* the scenario of this behaviour
          family,   \* its experiment
          disk,     \* file |-> its version (0 when absent) and whether it is whole
          record,   \* JSON file |-> its verdict, the versions it claims, those read
          known,    \* file |-> the version whose hash the operator was given
          run,      \* invocation |-> its phase, next step, and what it saw and read
          launches, \* phase |-> how many invocations reached its expensive step
          edits, kills, restarts
vars == <<bound, family, disk, record, known, run, launches, edits, kills, restarts>>
-----------------------------------------------------------------------------
(* The steps.  `over' is a set of files, `by' the record a step follows. *)
Step(op, F, r) == <<[op |-> op, over |-> F, by |-> r, past |-> 0]>>
Jump(op, f, n) == <<[op |-> op, over |-> {}, by |-> f, past |-> n]>>

Fresh(F)     == Step("fresh", F, "")     \* require(not path.exists())
Hash(F)      == Step("hash", F, "")      \* digest = sha(path), kept
Pinned(F)    == Step("pin", F, "")       \* digest is a literal of the source
Named(f)     == Step("named", {f}, f)    \* digest is a command-line argument
Follow(r, F) == Step("follow", F, r)     \* digests are read out of record r
Check(F)     == Step("same", F, "")      \* these digests kept are checked again
Same         == Check({})                \* all of them are
Matches(F)   == Step("matches", F, "")   \* what was read is what was hashed
Reads(F)     == Step("read", F, "")      \* the script itself reads the bytes
Take(F)      == Step("take", F, "")      \* reads the bytes once and hashes those bytes
Launch(F)    == Step("launch", F, "")    \* the expensive step; may fail
Gate         == Step("gate", {}, "")     \* a check of values, which may refuse
Create(f)    == Step("create", {f}, f)   \* open(path, "x") or mkdir
Place(f)     == Step("place", {f}, f)    \* open(path, "w"), copyfile, save_file
Fill(f)      == Step("fill", {}, f)      \* the last byte is written
Seal(f)      == Step("fill", {f}, f)     \* it is, and the digest of those bytes is kept
Draft(f)     == Place(f) \o Step("draft", {f}, f)   \* a record that accepts nothing yet
Note(dir, f) == Step("note", {f}, dir)   \* a failure record in dir, if there is none
Listed(F)    == Step("list", F, "")      \* hash what is there, whatever digest was kept
Judge        == Step("judge", {}, "")    \* a check of values that only rejects the report
Tell(F)      == Step("tell", F, "")      \* the hashes the next phase is given
SettleOn(F)  == Step("settle", F, "")    \* these digests again; a change only rejects the report
Settle       == SettleOn({})             \* all of them
Validated(r, F) == Step("validated", F, r)  \* what the writer of r read of F is on the disk
Try          == Step("try", {}, "on")    \* from here on a failure runs the handler
Bare         == Step("try", {}, "off")   \* from here on it ends the script

(* if path.exists(): these steps, else those *)
Either(f, there, absent) == Jump("found", f, Len(there) + 1) \o there \o Jump("skip", f, Len(absent)) \o absent

(* if json.loads(r)["accepted"]: these steps *)
IfAccepted(r, then) == Jump("accepted", r, Len(then)) \o then

Times(n, steps) == [i \in 1..(n * Len(steps)) |-> steps[((i - 1) % Len(steps)) + 1]]

ReadBound(F) == Reads(F) \o Matches(F)   \* raw = read_bytes(); require(sha(raw) == kept)
Write(f)     == Place(f) \o Fill(f)
WriteNew(f)  == Create(f) \o Fill(f)

(* An experiment of the book, and its phases. *)
Family(files, records, closed, given, editable, phases) ==
    [files |-> files \cup records \cup given, records |-> records, kept |-> records,
     closed |-> closed, given |-> given, editable |-> editable, again |-> {}, phases |-> phases]
Phase(steps)            == [steps |-> steps, failing |-> <<>>]
Handled(steps, failing) == [steps |-> steps, failing |-> failing]

Files       == Book[family].files
Records     == Book[family].records
Phases      == DOMAIN Book[family].phases
Invocations == 1..bound.invocations
Script(p)   == Book[family].phases[run[p].phase][IF run[p].failing THEN "failing" ELSE "steps"]

Exists(f)   == disk[f].ver # 0
Ok(r)       == r \in DOMAIN record /\ record[r].ok
Accepted(r) == disk[r].whole /\ Ok(r)
Nothing     == [f \in {} |-> 0]
(* dict.update: what g says, and before it what f says. *)
Joined(f, g) == [x \in DOMAIN f \cup DOMAIN g |-> IF x \in DOMAIN f THEN f[x] ELSE g[x]]
Entry(f, v)  == [x \in {f} |-> v]
Idle        == [phase |-> "", at |-> 0, try |-> FALSE, failing |-> FALSE, bad |-> FALSE,
                launched |-> FALSE, saw |-> Nothing, read |-> {}]
-----------------------------------------------------------------------------
Init == /\ bound \in Scenarios
        /\ family \in bound.families
        /\ disk = [f \in Files |->
                     IF f \in Book[family].given THEN [ver |-> 1, whole |-> TRUE]
                                                 ELSE [ver |-> 0, whole |-> FALSE]]
        /\ record = Nothing
        /\ known = [f \in Book[family].given |-> 1]
        /\ run = [p \in Invocations |-> Idle]
        /\ launches = [ph \in Phases |-> 0]
        /\ edits = 0 /\ kills = 0 /\ restarts = 0

(* The step an invocation is at: none when it is idle or through. *)
At(script, i) == IF i <= Len(script) THEN {script[i]} ELSE {}
Now(p)        == IF run[p].phase = "" THEN {} ELSE At(Script(p), run[p].at)

(* The next step; or, when a require fails, the handler's steps. *)
Advance(p)      == run' = [run EXCEPT ![p].at = @ + 1]
Keep(p, saw)    == run' = [run EXCEPT ![p].at = @ + 1, ![p].saw = Joined(saw, @)]
Raised(p)       == IF run[p].try /\ ~run[p].failing
                   THEN [run[p] EXCEPT !.at = 1, !.failing = TRUE, !.bad = TRUE] ELSE Idle
Raise(p)        == run' = [run EXCEPT ![p] = Raised(p)]
Require(p, ok, then) == (ok /\ then) \/ (~ok /\ Raise(p))
World           == <<bound, family, disk, record, known, launches, edits, kills, restarts>>

(* The operator starts a phase whose command-line hashes are at hand. *)
Start(p, ph) ==
    /\ run[p].phase = ""
    /\ bound.mixed \/ \A q \in Invocations : run[q].phase \in {"", ph}
    /\ \A i \in DOMAIN Book[family].phases[ph].steps :
          LET s == Book[family].phases[ph].steps[i]
          IN  s.op = "named" => s.by \in DOMAIN known
    /\ ph \in Book[family].again => restarts < bound.restarts
    /\ restarts' = IF ph \in Book[family].again THEN restarts + 1 ELSE restarts
    /\ run' = [run EXCEPT ![p].phase = ph, ![p].at = 1]
    /\ UNCHANGED <<bound, family, disk, record, known, launches, edits, kills>>

Finish(p) == /\ run[p].phase # ""
             /\ Now(p) = {}
             /\ run' = [run EXCEPT ![p] = Idle]
             /\ UNCHANGED World

(* Mutant: no require(not path.exists()). *)
FreshOrNot(p, s) == s.op = "fresh" /\ Advance(p) /\ UNCHANGED World
FreshStep(p, s) == /\ s.op = "fresh"
                /\ Require(p, \A f \in s.over : ~Exists(f), Advance(p))
                /\ UNCHANGED World

HashStep(p, s) == /\ s.op = "hash"
               /\ Require(p, \A f \in s.over : Exists(f),
                             Keep(p, [f \in s.over |-> disk[f].ver]))
               /\ UNCHANGED World

(* The version the source was written against is the first. *)
PinStep(p, s) == /\ s.op = "pin"
              /\ Keep(p, [f \in s.over |-> 1])
              /\ UNCHANGED World

(* read_bound: the bytes must be the ones the hash was printed for. *)
NamedStep(p, s) ==
    /\ s.op = "named"
    /\ LET f == s.by
       IN  Require(p, disk[f] = [ver |-> known[f], whole |-> TRUE] /\ (f \in Records => Ok(f)),
                      Keep(p, Entry(f, known[f])))
    /\ UNCHANGED World

(* Mutant: a record is followed whatever its verdict. *)
FollowAny(p, s) ==
    /\ s.op = "follow"
    /\ LET r == s.by
           agrees(f) == /\ f \in DOMAIN record[r].claims
                        /\ f \in DOMAIN run[p].saw => run[p].saw[f] = record[r].claims[f]
       IN  Require(p, disk[r].whole /\ r \in DOMAIN record /\ \A f \in s.over : agrees(f),
                      Keep(p, [f \in s.over |-> record[r].claims[f]]))
    /\ UNCHANGED World

(* A record's digests join those kept; two for one path is an error. *)
FollowStep(p, s) ==
    /\ s.op = "follow"
    /\ LET r == s.by
           agrees(f) == /\ f \in DOMAIN record[r].claims
                        /\ f \in DOMAIN run[p].saw => run[p].saw[f] = record[r].claims[f]
       IN  Require(p, Accepted(r) /\ \A f \in s.over : agrees(f),
                      Keep(p, [f \in s.over |-> record[r].claims[f]]))
    /\ UNCHANGED World

Rechecked(p, s) == IF s.over = {} THEN DOMAIN run[p].saw ELSE s.over
SameStep(p, s)  == /\ s.op = "same"
                /\ Require(p, \A f \in Rechecked(p, s) : run[p].saw[f] = disk[f].ver, Advance(p))
                /\ UNCHANGED World

ListStep(p, s) == /\ s.op = "list"
               /\ LET there == {f \in s.over : Exists(f)}
                  IN  Keep(p, [f \in there |-> disk[f].ver])
               /\ UNCHANGED World

(* Mutant: the bytes read are not compared with the digest kept. *)
MatchesAny(p, s)  == s.op = "matches" /\ Advance(p) /\ UNCHANGED World
MatchesStep(p, s) ==
    /\ s.op = "matches"
    /\ Require(p, \A e \in run[p].read : e[1] \in s.over => e[2] = run[p].saw[e[1]],
                  Advance(p))
    /\ UNCHANGED World

Read(p, s) == run[p].read \cup {<<f, disk[f].ver>> : f \in s.over}

ReadStep(p, s) == /\ s.op = "read"
               /\ Require(p, \A f \in s.over : Exists(f),
                             run' = [run EXCEPT ![p].at = @ + 1, ![p].read = Read(p, s)])
               /\ UNCHANGED World

TakeStep(p, s) ==
    /\ s.op = "take"
    /\ Require(p, \A f \in s.over : Exists(f),
                  run' = [run EXCEPT ![p].at = @ + 1, ![p].read = Read(p, s),
                                     ![p].saw = Joined([f \in s.over |-> disk[f].ver], @)])
    /\ UNCHANGED World

JudgeStep(p, s) == /\ s.op = "judge"
                /\ \E bad \in BOOLEAN :
                      run' = [run EXCEPT ![p].at = @ + 1, ![p].bad = @ \/ bad]
                /\ UNCHANGED World

SettleStep(p, s) ==
    /\ s.op = "settle"
    /\ run' = [run EXCEPT ![p].at = @ + 1,
                          ![p].bad = @ \/ \E f \in DOMAIN run[p].saw :
                                            (s.over = {} \/ f \in s.over) /\ run[p].saw[f] # disk[f].ver]
    /\ UNCHANGED World

(* A record's own account of what its writer read is compared with the disk. *)
ValidatedStep(p, s) ==
    /\ s.op = "validated"
    /\ LET r == s.by
       IN  Require(p, r \in DOMAIN record
                      /\ \A e \in record[r].read : e[1] \in s.over => e[2] = disk[e[1]].ver,
                      Advance(p))
    /\ UNCHANGED World

LaunchStep(p, s) ==
    /\ s.op = "launch"
    /\ launches' = IF run[p].launched THEN launches
                   ELSE [launches EXCEPT ![run[p].phase] = @ + 1]
    /\ \/ run' = [run EXCEPT ![p].at = @ + 1, ![p].launched = TRUE, ![p].read = Read(p, s)]
       \/ Raise(p)
    /\ UNCHANGED <<bound, family, disk, record, known, edits, kills, restarts>>

GateStep(p, s) == s.op = "gate" /\ (Advance(p) \/ Raise(p)) /\ UNCHANGED World

TryStep(p, s) == /\ s.op = "try"
              /\ run' = [run EXCEPT ![p].at = @ + 1, ![p].try = (s.by = "on")]
              /\ UNCHANGED World

(* The steps for a path that is there come first, then those for one that is not. *)
FoundStep(p, s) == /\ s.op = "found"
                /\ run' = [run EXCEPT ![p].at = @ + 1 + (IF Exists(s.by) THEN 0 ELSE s.past)]
                /\ UNCHANGED World
AcceptedStep(p, s) ==
    /\ s.op = "accepted"
    /\ LET r == s.by
       IN  Require(p, disk[r].whole,
                      run' = [run EXCEPT ![p].at = @ + 1 + (IF Ok(r) THEN 0 ELSE s.past)])
    /\ UNCHANGED World
SkipStep(p, s)  == /\ s.op = "skip"
                /\ run' = [run EXCEPT ![p].at = @ + 1 + s.past]
                /\ UNCHANGED World

(* Mutant: mkdir(exist_ok=True), and "w" for "x". *)
CreateOrReuse(p, s) ==
    /\ s.op = "create"
    /\ disk' = [disk EXCEPT ![s.by] = [ver |-> @.ver + 1, whole |-> FALSE]]
    /\ Advance(p)
    /\ UNCHANGED <<bound, family, record, known, launches, edits, kills, restarts>>

CreateStep(p, s) ==
    /\ s.op = "create"
    /\ LET f == s.by
       IN  Require(p, ~Exists(f), Advance(p))
           /\ disk' = IF Exists(f) THEN disk
                      ELSE [disk EXCEPT ![f] = [ver |-> 1, whole |-> FALSE]]
    /\ UNCHANGED <<bound, family, record, known, launches, edits, kills, restarts>>

PlaceStep(p, s) ==
    /\ s.op = "place"
    /\ disk' = [disk EXCEPT ![s.by] = [ver |-> @.ver + 1, whole |-> FALSE]]
    /\ Advance(p)
    /\ UNCHANGED <<bound, family, record, known, launches, edits, kills, restarts>>

(* Mutant: the record is announced before its last byte is written. *)
FillEarly(p, s) ==
    /\ s.op = "fill"
    /\ LET f == s.by
       IN  record' = IF f \in Records
                     THEN Joined(Entry(f, [ok |-> ~run[p].bad, claims |-> run[p].saw, read |-> run[p].read]), record)
                     ELSE record
    /\ Advance(p)
    /\ UNCHANGED <<bound, family, disk, known, launches, edits, kills, restarts>>

Verdict(p) == [ok |-> ~run[p].bad, claims |-> run[p].saw, read |-> run[p].read]
FillStep(p, s) ==
    /\ s.op = "fill"
    /\ LET f == s.by
       IN  /\ disk' = [disk EXCEPT ![f] = [ver |-> @.ver + 1, whole |-> TRUE]]
           /\ record' = IF f \in Records THEN Joined(Entry(f, Verdict(p)), record) ELSE record
    /\ Keep(p, [f \in s.over |-> disk[f].ver + 1])
    /\ UNCHANGED <<bound, family, known, launches, edits, kills, restarts>>

DraftStep(p, s) ==
    /\ s.op = "draft"
    /\ LET f == s.by
       IN  /\ disk' = [disk EXCEPT ![f] = [ver |-> @.ver + 1, whole |-> TRUE]]
           /\ record' = Joined(Entry(f, [Verdict(p) EXCEPT !.ok = FALSE]), record)
    /\ Advance(p)
    /\ UNCHANGED <<bound, family, known, launches, edits, kills, restarts>>

NoteStep(p, s) ==
    /\ s.op = "note"
    /\ disk' = [f \in Files |->
                  IF f \in s.over /\ Exists(s.by) /\ ~Exists(f)
                  THEN [ver |-> 1, whole |-> TRUE] ELSE disk[f]]
    /\ Advance(p)
    /\ UNCHANGED <<bound, family, record, known, launches, edits, kills, restarts>>

TellStep(p, s) == /\ s.op = "tell"
                /\ known' = Joined([f \in s.over |-> disk[f].ver], known)
                /\ Advance(p)
                /\ UNCHANGED <<bound, family, disk, record, launches, edits, kills, restarts>>

(* The environment: an invocation is killed, a data file is edited. *)
Kill(p) == /\ run[p].phase # "" /\ kills < bound.kills
           /\ kills' = kills + 1
           /\ run' = [run EXCEPT ![p] = Idle]
           /\ UNCHANGED <<bound, family, disk, record, known, launches, edits, restarts>>

Edit(f) == /\ f \in Book[family].editable /\ Exists(f) /\ edits < bound.edits
           /\ edits' = edits + 1
           /\ disk' = [disk EXCEPT ![f].ver = @ + 1]
           /\ UNCHANGED <<bound, family, record, known, run, launches, kills, restarts>>

(* Steps on an invocation's own memory: they commute with all others, so   *)
(* they are taken first.                                                   *)
Inward(p, s)  == \/ TryStep(p, s)   \/ PinStep(p, s)    \/ MatchesStep(p, s)
                 \/ GateStep(p, s)  \/ JudgeStep(p, s)  \/ SkipStep(p, s)
Outward(p, s) == \/ FreshStep(p, s)  \/ HashStep(p, s)   \/ NamedStep(p, s)
                 \/ FollowStep(p, s) \/ SameStep(p, s)   \/ ListStep(p, s)
                 \/ ReadStep(p, s)   \/ TakeStep(p, s)   \/ LaunchStep(p, s)
                 \/ SettleStep(p, s) \/ CreateStep(p, s) \/ PlaceStep(p, s)
                 \/ FillStep(p, s)   \/ DraftStep(p, s)  \/ NoteStep(p, s)
                 \/ TellStep(p, s)   \/ FoundStep(p, s)  \/ AcceptedStep(p, s)
                 \/ ValidatedStep(p, s)

Local(s) == s.op \in {"try", "pin", "matches", "gate", "judge", "skip"}
Quiet    == \A p \in Invocations : \A s \in Now(p) : ~Local(s)

Next == \/ \E p \in Invocations : \E s \in Now(p) : Inward(p, s)
        \/ /\ Quiet
           /\ \/ \E p \in Invocations : \E s \in Now(p) : Outward(p, s)
              \/ \E p \in Invocations : (\E ph \in Phases : Start(p, ph)) \/ Finish(p) \/ Kill(p)
              \/ \E f \in Files : Edit(f)

Spec == Init /\ [][Next]_vars
-----------------------------------------------------------------------------
(***************************************************************************)
(* Type invariant. *)
(***************************************************************************)
TypeOK ==
    /\ disk \in [Files -> [ver : Nat, whole : BOOLEAN]]
    /\ \A r \in DOMAIN record : r \in Records /\ Exists(r) /\ (r \in Book[family].kept => Accepted(r) \/ ~Ok(r))
    /\ \A f \in DOMAIN known : known[f] <= disk[f].ver
    /\ \A p \in Invocations : run[p].phase \in Phases \cup {""}

(***************************************************************************)
(* "source_and_input_closure": what an accepted record says of a file is   *)
(* what every step of that phase really read - and, where it rests on      *)
(* earlier records, what their phases read of the same file - although the *)
(* file may have been edited before, between or after the checks.          *)
(***************************************************************************)
Speaks(claims, e) == e[1] \in DOMAIN claims => e[2] = claims[e[1]]
ClosureIsTrue ==
    \A r \in DOMAIN record \cap Book[family].closed : record[r].ok =>
        /\ \A e \in record[r].read : e[1] \in DOMAIN record[r].claims
                                     /\ Speaks(record[r].claims, e)
        /\ \A q \in DOMAIN record[r].claims \cap DOMAIN record :
              \A e \in record[q].read : e[1] \in DOMAIN record[q].claims => Speaks(record[r].claims, e)

(***************************************************************************)
(* An accepted record rests only on records that were accepted and whole   *)
(* (never on one a killed phase left half written, or a rejected one), and *)
(* two records of one chain never speak of different versions of a file.   *)
(***************************************************************************)
Agree(a, b) == \A f \in DOMAIN a \cap DOMAIN b : a[f] = b[f]
ChainAgrees ==
    \A r \in DOMAIN record : record[r].ok =>
        \A q \in Records \cap DOMAIN record[r].claims :
            /\ Accepted(q) /\ record[r].claims[q] = disk[q].ver
            /\ Agree(record[r].claims, record[q].claims)

(***************************************************************************)
(* "already attempted; no overwrite/retry": whatever is interrupted or     *)
(* started twice at once, the build and each arm run once per directory;   *)
(* only the phases made to be resumed launch again.                        *)
(***************************************************************************)
LaunchedOnce == \A ph \in Phases \ Book[family].again : launches[ph] <= 1

(***************************************************************************)
(* An accepted record is never rewritten by a later or a rival invocation. *)
(***************************************************************************)
RecordsStay == [][\A r \in DOMAIN record \cap Book[family].kept : Accepted(r) =>
                     disk'[r] = disk[r] /\ record'[r] = record[r]]_vars
=============================================================================
