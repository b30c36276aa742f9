----------------------------- MODULE Speculation -----------------------------
(***************************************************************************)
(* Speculative decoding of a page (runner/speculate.rs): drafted tokens are*)
(* verified in one step of several rows, the accepted ones are kept with   *)
(* the model's own next token, the rest is cut from the cache.  What a     *)
(* draft holds is left open, so nothing here depends on the drafters.      *)
(*                                                                         *)
(* The cache is the output tokens it has read, after the prompt.  A row    *)
(* that has read the page's own text predicts the next token of the text;  *)
(* one that has read anything else predicts any token.                     *)
(*                                                                         *)
(* pc: "push" (the next token joins the output), "draft", "single" or      *)
(* "verify" (the step), "accept" (the accepted drafts join), "finished",   *)
(* "failed".                                                               *)
(***************************************************************************)
EXTENDS Generation

CONSTANTS MaxDraft,  (* most tokens drafted at once            *)
          HasHead    (* a trained head reads the feature rows  *)

ASSUME SpeculationAssumption ==
         /\ MaxDraft \in Nat \ {0}
         /\ HasHead \in BOOLEAN

VARIABLES text,      (* the model's greedy choices for this page            *)
          pc,
          nextToken, (* DecodeLoop.next_token                               *)
          cache,     (* the output tokens in the session's cache            *)
          draft,
          accepting, (* accepted drafts still to be pushed                  *)
          fed,       (* tokens whose features the head has still to read    *)
          captured,  (* for each row of the latest forward, how many output *)
                     (* tokens it had read                                  *)
          headRows   (* the head's rows: <<tokens read, token put out>>     *)

step == <<pc, nextToken, cache, draft, accepting>>
head == <<fed, captured, headRows>>
vars == <<generation, text, step, head>>

Texts == [1 .. MaxNewTokens -> Tokens]

(* What a row that has read `read` may predict. *)
Predict(read) ==
  {token \in Tokens :
     (Len(read) < MaxNewTokens /\ \A i \in DOMAIN read : read[i] = text[i])
       => token = text[Len(read) + 1]}

(* The prefill has read the prompt and selected the first token. *)
Init ==
  /\ GenerationInit
  /\ text \in Texts
  /\ pc = "push"
  /\ nextToken = text[1]
  /\ cache = <<>>
  /\ draft = <<>>
  /\ accepting = <<>>
  /\ fed = <<>>
  /\ captured = <<0>>
  /\ headRows = <<>>
------------------------------------------------------------------------------
(* push_rows: row r of the latest forward put out the r-th of these tokens. *)
HeadReads(these) ==
  headRows \o [r \in 1 .. Len(these) |-> <<captured[r], these[r]>>]

(* The top of the loop: the next token joins the output and, unless it ends *)
(* the page, the head reads the verified positions.                         *)
PushNext ==
  /\ pc = "push"
  /\ Push(nextToken)
  /\ IF finished'
     THEN pc' = "finished" /\ UNCHANGED head
     ELSE /\ pc' = "draft"
          /\ IF HasHead
             THEN headRows' = HeadReads(Append(fed, nextToken)) /\ fed' = <<>>
             ELSE UNCHANGED <<headRows, fed>>
          /\ UNCHANGED captured
  /\ UNCHANGED <<text, nextToken, cache, draft, accepting>>

(* n drafts and the token after them stay within the budget and the cache,  *)
(* which was sized for the prompt and the budget.                           *)
Fits(n) ==
  /\ n <= MaxDraft
  /\ n <= MaxNewTokens - Len(tokens) - 1
  /\ n <= MaxNewTokens - Len(cache) - 1

(* The drafters propose as many tokens as they like, or the policy none.    *)
Propose ==
  /\ pc = "draft"
  /\ \E n \in 0 .. MaxDraft :
       /\ n = 0 \/ Fits(n)
       /\ draft' \in [1 .. n -> Tokens]
       /\ pc' = IF n = 0 THEN "single" ELSE "verify"
  /\ UNCHANGED <<generation, text, nextToken, cache, accepting, head>>

(* Nothing drafted: one row reads the newest token. *)
Single ==
  /\ pc = "single"
  /\ cache' = Append(cache, tokens[Len(tokens)])
  /\ nextToken' \in Predict(cache')
  /\ captured' = <<Len(cache')>>
  /\ pc' = "push"
  /\ UNCHANGED <<generation, text, draft, accepting, fed, headRows>>

Inputs == <<tokens[Len(tokens)]>> \o draft
Rows == 1 .. Len(draft) + 1

(* The rows' predictions, each after the inputs up to its own. *)
Predictions ==
  {predicted \in [Rows -> Tokens] :
     \A r \in Rows : predicted[r] \in Predict(cache \o SubSeq(Inputs, 1, r))}

(* Drafts up to the first that differs from its row's prediction. *)
Accepted(n, predicted) ==
  /\ \A i \in 1 .. n : draft[i] = predicted[i]
  /\ n < Len(draft) => draft[n + 1] # predicted[n + 1]

\* Mutant of Kept: rejected rows stay in the cache.
KeptAll(n) == cache \o SubSeq(Inputs, 1, Len(draft) + 1 + 0 * n)

(* truncate(kept + 1 + accepted). *)
Kept(n) == cache \o SubSeq(Inputs, 1, n + 1)

\* Mutant of NextAfter: the last row's prediction whatever was accepted.
NextAfterLast(n, predicted) == predicted[Len(draft) + 1 + 0 * n]

(* predicted[accepted]: the model's own token after the accepted drafts.    *)
NextAfter(n, predicted) == predicted[n + 1]

\* Mutant of Fed: the head is fed the rejected drafts too.
FedAll(n) == fed \o SubSeq(draft, 1, Len(draft) + 0 * n)

(* The accepted drafts are verified positions for the head.                 *)
Fed(n) == fed \o SubSeq(draft, 1, n)

(* One step of several rows, and what is kept of it. *)
Verify ==
  /\ pc = "verify"
  /\ \E predicted \in Predictions, n \in 0 .. Len(draft) :
       /\ Accepted(n, predicted)
       /\ cache' = Kept(n)
       /\ nextToken' = NextAfter(n, predicted)
       /\ accepting' = SubSeq(draft, 1, n)
       /\ fed' = IF HasHead THEN Fed(n) ELSE fed
  /\ captured' = [r \in Rows |-> Len(cache) + r]
  /\ pc' = "accept"
  /\ UNCHANGED <<generation, text, draft, headRows>>

(* The accepted drafts join the output one by one; one may end the page.    *)
PushAccepted ==
  /\ pc = "accept"
  /\ accepting # <<>>
  /\ Push(Head(accepting))
  /\ accepting' = Tail(accepting)
  /\ pc' = IF finished' THEN "finished" ELSE "accept"
  /\ UNCHANGED <<text, nextToken, cache, draft, head>>

AllAccepted ==
  /\ pc = "accept"
  /\ accepting = <<>>
  /\ pc' = "push"
  /\ UNCHANGED <<generation, text, nextToken, cache, draft, accepting, head>>

(* A model call fails, and the page with it. *)
Fail ==
  /\ pc \in {"draft", "single", "verify"}
  /\ pc' = "failed"
  /\ UNCHANGED <<generation, text, nextToken, cache, draft, accepting, head>>

Next ==
  \/ PushNext
  \/ Propose
  \/ Single
  \/ Verify
  \/ PushAccepted
  \/ AllAccepted
  \/ Fail

Spec == Init /\ [][Next]_vars
------------------------------------------------------------------------------
(* The cache has read the output and nothing else whenever a step starts:   *)
(* rejected drafts leave no trace, no accepted token is missing, and        *)
(* neither the drafts nor a forward pass outgrow the budget it was sized    *)
(* for ("accepted drafts never reach the budget").                          *)
CacheFollowsOutput ==
  /\ pc = "push" => cache = tokens
  /\ pc = "accept" => cache = tokens \o accepting /\ Len(cache) < MaxNewTokens
  /\ pc \in {"draft", "single", "verify"} => tokens = Append(cache, tokens[Len(tokens)])
  /\ pc = "verify" => Len(cache) + Len(draft) + 1 <= MaxNewTokens

(* Every token the head has read comes with the features of the position    *)
(* that put it out, and none is missing when it is asked to draft.          *)
HeadReadsItsPositions ==
  /\ \A i \in DOMAIN headRows : headRows[i] = <<i - 1, tokens[i]>>
  /\ HasHead /\ pc = "draft" => Len(headRows) = Len(tokens)

Plain == INSTANCE PlainDecode

(* "The model verifies every drafted token and keeps exactly its own greedy *)
(* output": the output grows token by token as in plain decoding.           *)
KeepsGreedyOutput == Plain!Spec
=============================================================================
