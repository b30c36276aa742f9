----------------------------- MODULE PlainDecode -----------------------------
(***************************************************************************)
(* Plain greedy decoding of a page (runner/generate.rs, decode_plain): one *)
(* token per step, each the model's choice after the tokens before it,     *)
(* until the page finishes.  The model is deterministic and its choices    *)
(* after its own output are the text it would write, so a run fixes any    *)
(* text and reveals it token by token.                                     *)
(***************************************************************************)
EXTENDS Generation

VARIABLE text  (* the model's greedy choices for this page *)

vars == <<generation, text>>

Texts == [1 .. MaxNewTokens -> Tokens]

Init == GenerationInit /\ text \in Texts

(* Push the selected token; the next one is selected after it. *)
Step ==
  /\ ~finished
  /\ Push(text[Len(tokens) + 1])
  /\ UNCHANGED text

Spec == Init /\ [][Step]_vars
=============================================================================
