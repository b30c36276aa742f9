----------------------------- MODULE OutputFile -----------------------------
(***************************************************************************)
(* The records file of a long run (book/mod.rs, book/resume.rs): what is   *)
(* read back from it and how it is repaired.  A page's record is one line. *)
(* A run that is killed leaves the start of one, and a power loss leaves   *)
(* NUL bytes in place of data that never reached the disk.                 *)
(*                                                                         *)
(* A text is a sequence of pieces: the first part of a record's JSON and   *)
(* the rest of it, newlines, and NULs in place of any of them.             *)
(***************************************************************************)
EXTENDS Naturals, Sequences, FiniteSets

Start(p, outcome) == [part |-> "start", of |-> <<p, outcome>>]
Rest(p, outcome) == [part |-> "rest", of |-> <<p, outcome>>]
Newline == [part |-> "newline", of |-> <<>>]
NUL == [part |-> "nul", of |-> <<>>]

(* record_line and its newline. *)
Line(p, outcome) == <<Start(p, outcome), Rest(p, outcome), Newline>>
------------------------------------------------------------------------------
(* The lines of a text, without their newlines: <<first piece, last piece>>.*)
Lines(text) ==
  {l \in (1 .. Len(text)) \X (0 .. Len(text)) :
     /\ l[1] = 1 \/ text[l[1] - 1] = Newline
     /\ l[1] <= l[2] + 1
     /\ l[2] = Len(text) \/ text[l[2] + 1] = Newline
     /\ \A i \in l[1] .. l[2] : text[i] # Newline}

(* A line that parses as a record once its leading NULs are gone. *)
IsRecord(text, l) ==
  /\ l[2] > l[1]
  /\ text[l[2] - 1].part = "start"
  /\ text[l[2]] = [text[l[2] - 1] EXCEPT !.part = "rest"]
  /\ \A i \in l[1] .. l[2] - 2 : text[i] = NUL

HoldsNul(text, l) == \E i \in l[1] .. l[2] : text[i] = NUL

(* starts_like_a_record, NULs around it aside: an incomplete record, or     *)
(* nothing at all.                                                          *)
StartsLikeARecord(text, l) ==
  LET rest == {i \in l[1] .. l[2] : text[i] # NUL} IN
  Cardinality(rest) <= 1 /\ \A i \in rest : text[i].part = "start"

Unterminated(text, l) == l[2] = Len(text)

\* Mutant of IsCut: a whole record without its newline is cut as well.
IsCutWhole(text, l) ==
  Unterminated(text, l) /\ (IsRecord(text, l) \/ StartsLikeARecord(text, l))

(* A last record that a crash cut short. *)
IsCut(text, l) ==
  Unterminated(text, l) /\ ~IsRecord(text, l) /\ StartsLikeARecord(text, l)

(* Existing.keep: the text without its cut last line. *)
Keep(text) ==
  IF \E l \in Lines(text) : IsCut(text, l)
  THEN SubSeq(text, 1, (CHOOSE l \in Lines(text) : IsCut(text, l))[1] - 1)
  ELSE text

Records(text) == {l \in Lines(text) : IsRecord(text, l)}

(* Existing.foreign: a line that is neither a record, empty nor damaged, or *)
(* damage and no record at all.                                             *)
IsForeign(text) ==
  LET kept == Keep(text)
      others == Lines(kept) \ Records(kept)
  IN \/ \E l \in others : l[1] <= l[2] /\ ~HoldsNul(kept, l)
     \/ Records(kept) = {} /\ \E l \in others : HoldsNul(kept, l)

\* Mutants of Done: failed pages count as done; unterminated records do not.
DoneAnyhow(text) == {text[l[2]].of[1] : l \in Records(text)}
DoneTerminated(text) ==
  {text[l[2]].of[1] : l \in {r \in Records(text) :
                               text[r[2]].of[2] = "text" /\ ~Unterminated(text, r)}}

(* Existing.done: the inputs that have a successful record. *)
Done(text) ==
  {text[l[2]].of[1] : l \in {r \in Records(text) : text[r[2]].of[2] = "text"}}

\* Mutant of Repaired: new records go on after what is there.
RepairedAsIs(text) == Keep(text)

(* What open_output leaves: the cut record is gone, and a last line without *)
(* its newline has one.                                                     *)
Repaired(text) ==
  LET kept == Keep(text) IN
  IF kept # <<>> /\ kept[Len(kept)] # Newline THEN Append(kept, Newline) ELSE kept
=============================================================================
