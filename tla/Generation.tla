----------------------------- MODULE Generation -----------------------------
(***************************************************************************)
(* One page's growing output and the stop ladder of every decode loop      *)
(* (runner/generate.rs, Generation): a stop token, a repetition loop, the  *)
(* output budget.  The repetition stop (repetition.rs) counts, for every   *)
(* period, how many of the newest tokens equal the token one period before *)
(* them, so that a push costs the same however long the page is.           *)
(***************************************************************************)
EXTENDS Naturals, Sequences

CONSTANTS Tokens,
          StopTokens,
          StopLoops,     (* stop on repetition loops                      *)
          MaxNewTokens,  (* the page's output budget                      *)
          MAX_PERIOD,    (* longest cycle that is detected                *)
          MIN_WINDOW,    (* shortest periodic window that stops the page  *)
          MIN_REPEATS    (* and the fewest cycles in it                   *)

ASSUME GenerationAssumption ==
         /\ StopTokens \subseteq Tokens
         /\ StopLoops \in BOOLEAN
         /\ MaxNewTokens \in Nat \ {0}
         /\ MAX_PERIOD \in Nat \ {0}
         /\ MIN_WINDOW \in Nat
         /\ MIN_REPEATS \in Nat \ {0, 1}

VARIABLES tokens,   (* Generation.tokens                                *)
          runs,     (* RepetitionStop.runs, by period                   *)
          reason,   (* Generation.reason: "eos", "repetition", "length" *)
          finished  (* push returned true                               *)

generation == <<tokens, runs, reason, finished>>

Periods == 1 .. MAX_PERIOD

(* MIN_WINDOW.max(MIN_REPEATS * p). *)
Window(p) == IF MIN_WINDOW >= MIN_REPEATS * p THEN MIN_WINDOW ELSE MIN_REPEATS * p

GenerationInit ==
  /\ tokens = <<>>
  /\ runs = [p \in Periods |-> 0]
  /\ reason = "length"
  /\ finished = FALSE

\* Mutant of Counted: a token that breaks the cycle leaves the count.
CountedOn(token) ==
  [p \in Periods |->
     IF p <= Len(tokens) /\ tokens[Len(tokens) - p + 1] = token
     THEN runs[p] + 1 ELSE runs[p]]

(* The runs once the token has been appended. *)
Counted(token) ==
  [p \in Periods |->
     IF p > Len(tokens) THEN runs[p]
     ELSE IF tokens[Len(tokens) - p + 1] = token THEN runs[p] + 1 ELSE 0]

(* RepetitionStop::push of the token just appended. *)
Loops(token) ==
  \E p \in Periods : p <= Len(tokens) /\ Counted(token)[p] + p >= Window(p)

(* The reason the page would finish with at this token. *)
Ending(token) ==
  IF token \in StopTokens THEN "eos"
  ELSE IF StopLoops /\ Loops(token) THEN "repetition" ELSE "length"

\* Mutant of Fills: the budget leaves room for a stop token.
FillsLate == Len(tokens) = MaxNewTokens

(* The token being pushed is the last of the budget. *)
Fills == Len(tokens) + 1 = MaxNewTokens

(* Generation::push. *)
Push(token) ==
  /\ tokens' = Append(tokens, token)
  /\ runs' = IF token \in StopTokens \/ ~StopLoops THEN runs ELSE Counted(token)
  /\ reason' = Ending(token)
  /\ finished' = (Ending(token) # "length" \/ Fills)

(* A page that grows token by token, whatever they are. *)
Grow == ~finished /\ \E token \in Tokens : Push(token)

GrowSpec == GenerationInit /\ [][Grow]_generation
------------------------------------------------------------------------------
(* Types; the output never outgrows its budget, which also reserved it.     *)
GenerationTypeOK ==
  /\ tokens \in Seq(Tokens)
  /\ Len(tokens) <= MaxNewTokens
  /\ runs \in [Periods -> Nat]
  /\ reason \in {"eos", "repetition", "length"}
  /\ finished \in BOOLEAN

(* The newest w tokens repeat one period. *)
Periodic(p, w) ==
  /\ w <= Len(tokens)
  /\ \A i \in 1 .. Len(tokens) : i > Len(tokens) - w + p => tokens[i] = tokens[i - p]

(* "The stop ends generation once the most recent tokens repeat one period  *)
(* p for at least max(MIN_WINDOW, MIN_REPEATS * p) tokens": the counters    *)
(* see exactly the loops the rule names, at the first token that completes  *)
(* one, and no page goes on with such a loop at its end.                    *)
StopsExactlyOnLoops ==
  StopLoops /\ reason # "eos" =>
    (reason = "repetition" <=> \E p \in Periods : Periodic(p, Window(p)))

(* A page ends at the first stop token, at its first loop or with its       *)
(* budget spent, and for no other reason.                                   *)
EndsForAReason ==
  /\ finished <=> reason # "length" \/ Len(tokens) = MaxNewTokens
  /\ \A i \in DOMAIN tokens :
       tokens[i] \in StopTokens <=> i = Len(tokens) /\ reason = "eos"
=============================================================================
