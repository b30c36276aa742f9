---------------------------- MODULE DecodingProofs ----------------------------
(***************************************************************************)
(* Proofs about a page's decoding.  Generation: its counters are exact     *)
(* whatever it puts out, so it stops on the loops the rule names and on no *)
(* other output.  Speculation: for every text, vocabulary, budget and      *)
(* draft, the verified output is the plain one, the cache has read nothing *)
(* else and the head gets each token with the features that put it out.    *)
(***************************************************************************)
EXTENDS Speculation, SequenceTheorems, WellFoundedInduction, TLAPS

(* Generation. *)
(* runs[p] counts the newest tokens that equal the token p before them: so  *)
(* many do (the first part), and not one more (the second).                 *)
Repeats(p) ==
  /\ runs[p] + p <= Len(tokens) \/ runs[p] = 0
  /\ \A i \in 1 .. Len(tokens) :
       i > Len(tokens) - runs[p] => i > p /\ tokens[i] = tokens[i - p]
  /\ runs[p] + p < Len(tokens) =>
       tokens[Len(tokens) - runs[p]] # tokens[Len(tokens) - runs[p] - p]

RunsExact == StopLoops /\ reason # "eos" => \A p \in Periods : Repeats(p)

(* The reason is the rule's verdict on the counters. *)
Verdict ==
  StopLoops /\ reason # "eos" =>
    (reason = "repetition" <=>
       \E p \in Periods : p < Len(tokens) /\ runs[p] + p >= Window(p))

IInv == GenerationTypeOK /\ EndsForAReason /\ RunsExact /\ Verdict

(* A window reaches past the first cycle. *)
LEMMA WindowBound ==
  ASSUME NEW p \in Periods
  PROVE  Window(p) \in Nat /\ Window(p) > p
<1>1. MIN_REPEATS * p \in Nat /\ MIN_REPEATS * p > p
  <2>1. p \in Nat /\ p >= 1 /\ MIN_REPEATS \in Nat /\ MIN_REPEATS >= 2
    BY GenerationAssumption DEF Periods
  <2>2. \A m, q \in Nat : m >= 2 /\ q >= 1 => m * q \in Nat /\ m * q > q
    OBVIOUS
  <2>3. QED
    BY <2>1, <2>2
<1>2. p \in Nat /\ MIN_WINDOW \in Nat
  BY GenerationAssumption DEF Periods
<1>3. \A m \in Nat, w \in Nat : w > p /\ m >= w => m > p
  BY <1>2
<1>4. CASE MIN_WINDOW >= MIN_REPEATS * p
  BY <1>1, <1>2, <1>3, <1>4 DEF Window
<1>5. CASE ~(MIN_WINDOW >= MIN_REPEATS * p)
  BY <1>1, <1>5 DEF Window
<1>6. QED
  BY <1>4, <1>5

(* The counters of an empty output are exact. *)
LEMMA InitInv == GenerationInit => IInv
<1> SUFFICES ASSUME GenerationInit PROVE IInv
  OBVIOUS
<1> USE GenerationAssumption DEF GenerationInit
<1>1. Len(tokens) = 0 /\ tokens \in Seq(Tokens) /\ DOMAIN tokens = {}
  OBVIOUS
<1>2. GenerationTypeOK /\ EndsForAReason
  <2>1. [p \in Periods |-> 0] \in [Periods -> Nat]
    OBVIOUS
  <2>2. 0 <= MaxNewTokens /\ 0 # MaxNewTokens
    OBVIOUS
  <2>3. GenerationTypeOK
    BY <1>1, <2>1, <2>2 DEF GenerationTypeOK
  <2>4. EndsForAReason
    BY <1>1, <2>2 DEF EndsForAReason
  <2>5. QED
    BY <2>3, <2>4
<1>3. RunsExact
  BY <1>1 DEF RunsExact, Repeats, Periods
<1>4. Verdict
  BY <1>1 DEF Verdict, Periods
<1>5. QED
  BY <1>2, <1>3, <1>4 DEF IInv

(* What a push does to the output. *)
LEMMA Appended ==
  ASSUME GenerationTypeOK, ~finished, EndsForAReason, NEW token \in Tokens, Push(token)
  PROVE  /\ Len(tokens') = Len(tokens) + 1 /\ Len(tokens) \in Nat
         /\ tokens' \in Seq(Tokens)
         /\ DOMAIN tokens' = 1 .. Len(tokens')
         /\ tokens'[Len(tokens')] = token
         /\ \A i \in 1 .. Len(tokens) : tokens'[i] = tokens[i]
         /\ Len(tokens) < MaxNewTokens
         /\ reason = "length"
  BY GenerationAssumption DEF GenerationTypeOK, Push, EndsForAReason

(* One counter follows one push. *)
LEMMA CountedExact ==
  ASSUME GenerationTypeOK, ~finished, EndsForAReason,
         NEW token \in Tokens, Push(token), NEW p \in Periods, Repeats(p),
         runs'[p] = Counted(token)[p]
  PROVE  Repeats(p)'
<1>1. p \in Nat /\ p >= 1 /\ runs[p] \in Nat
  BY GenerationAssumption DEF GenerationTypeOK, Periods
<1>2. /\ Len(tokens') = Len(tokens) + 1 /\ Len(tokens) \in Nat
      /\ tokens'[Len(tokens) + 1] = token
      /\ \A i \in 1 .. Len(tokens) : tokens'[i] = tokens[i]
  BY Appended
<1>3. CASE p > Len(tokens)
  <2>1. runs'[p] = 0
    BY <1>1, <1>2, <1>3 DEF Counted, Repeats
  <2>2. QED
    BY <1>1, <1>2, <1>3, <2>1 DEF Repeats
<1>4. CASE p <= Len(tokens) /\ tokens[Len(tokens) - p + 1] # token
  <2>1. runs'[p] = 0
    BY <1>1, <1>2, <1>4 DEF Counted
  <2>2. Len(tokens') - runs'[p] = Len(tokens) + 1
        /\ Len(tokens) + 1 - p \in 1 .. Len(tokens)
        /\ Len(tokens) + 1 - p = Len(tokens) - p + 1
    BY <1>1, <1>2, <1>4, <2>1
  <2>3. tokens'[Len(tokens) + 1] # tokens'[Len(tokens) + 1 - p]
    BY <1>2, <1>4, <2>2
  <2>4. \A i \in 1 .. Len(tokens') : ~(i > Len(tokens') - runs'[p])
    BY <1>2, <2>2
  <2>5. Len(tokens') - runs'[p] - p = Len(tokens) + 1 - p
    BY <1>1, <1>2, <2>1
  <2>6. tokens'[Len(tokens') - runs'[p]] # tokens'[Len(tokens') - runs'[p] - p]
    BY <2>2, <2>3, <2>5
  <2>7. QED
    BY <2>1, <2>4, <2>6 DEF Repeats
<1>5. CASE p <= Len(tokens) /\ tokens[Len(tokens) - p + 1] = token
  <2>1. runs'[p] = runs[p] + 1
    BY <1>1, <1>2, <1>5 DEF Counted
  <2>2. runs'[p] + p <= Len(tokens')
    BY <1>1, <1>2, <1>5, <2>1 DEF Repeats
  <2>3. ASSUME NEW i \in 1 .. Len(tokens'), i > Len(tokens') - runs'[p]
        PROVE  i > p /\ tokens'[i] = tokens'[i - p]
    <3>1. CASE i = Len(tokens')
      BY <1>1, <1>2, <1>5, <3>1
    <3>2. CASE i # Len(tokens')
      <4>1. i \in 1 .. Len(tokens) /\ i > Len(tokens) - runs[p]
        BY <1>1, <1>2, <2>1, <2>3, <3>2
      <4>2. i > p /\ tokens[i] = tokens[i - p]
        BY <4>1 DEF Repeats
      <4>3. QED
        BY <1>1, <1>2, <4>1, <4>2
    <3>3. QED
      BY <3>1, <3>2
  <2>4. ASSUME runs'[p] + p < Len(tokens')
        PROVE  tokens'[Len(tokens') - runs'[p]] # tokens'[Len(tokens') - runs'[p] - p]
    <3>1. runs[p] + p < Len(tokens)
      BY <1>1, <1>2, <2>1, <2>4
    <3>2. tokens[Len(tokens) - runs[p]] # tokens[Len(tokens) - runs[p] - p]
      BY <3>1 DEF Repeats
    <3>3. Len(tokens') - runs'[p] = Len(tokens) - runs[p]
      BY <1>1, <1>2, <2>1
    <3>4. Len(tokens) - runs[p] \in 1 .. Len(tokens)
          /\ Len(tokens) - runs[p] - p \in 1 .. Len(tokens)
      BY <1>1, <1>2, <3>1
    <3>5. /\ tokens'[Len(tokens) - runs[p]] = tokens[Len(tokens) - runs[p]]
          /\ tokens'[Len(tokens) - runs[p] - p] = tokens[Len(tokens) - runs[p] - p]
      BY <1>2, <3>4
    <3>6. QED
      BY <3>2, <3>3, <3>5
  <2>5. QED
    BY <2>2, <2>3, <2>4 DEF Repeats
<1>6. QED
  BY <1>1, <1>2, <1>3, <1>4, <1>5

(* A push keeps the counters exact and the reason the rule's verdict. *)
LEMMA PushInv ==
  ASSUME IInv, ~finished, NEW token \in Tokens, Push(token)
  PROVE  IInv'
<1> USE GenerationAssumption
<1>1. GenerationTypeOK /\ EndsForAReason /\ RunsExact /\ Verdict /\ reason = "length"
  BY Appended DEF IInv
<1>2. /\ Len(tokens') = Len(tokens) + 1 /\ Len(tokens) \in Nat
      /\ tokens' \in Seq(Tokens)
      /\ DOMAIN tokens' = 1 .. Len(tokens')
      /\ tokens'[Len(tokens) + 1] = token
      /\ \A i \in 1 .. Len(tokens) : tokens'[i] = tokens[i]
      /\ Len(tokens) < MaxNewTokens
  BY <1>1, Appended
<1>3. Ending(token) \in {"eos", "repetition", "length"}
      /\ reason' = Ending(token)
      /\ (Ending(token) = "eos" <=> token \in StopTokens)
  BY DEF Ending, Push
<1>4. GenerationTypeOK'
  <2>1. Counted(token) \in [Periods -> Nat]
    <3>1. \A p \in Periods : p \in Nat /\ runs[p] \in Nat
      BY <1>1 DEF GenerationTypeOK, Periods
    <3>2. QED
      BY <3>1 DEF Counted
  <2>2. runs' \in [Periods -> Nat]
    BY <1>1, <2>1 DEF Push, GenerationTypeOK
  <2>3. finished' \in BOOLEAN
    BY DEF Push
  <2>4. QED
    BY <1>2, <1>3, <2>2, <2>3 DEF GenerationTypeOK
<1>5. EndsForAReason'
  <2>1. finished' <=> reason' # "length" \/ Len(tokens') = MaxNewTokens
    BY <1>2, <1>3 DEF Push, Fills
  <2>2. \A i \in 1 .. Len(tokens) : tokens[i] \notin StopTokens
    BY <1>1 DEF EndsForAReason, GenerationTypeOK
  <2>3. QED
    BY <1>2, <1>3, <2>1, <2>2 DEF EndsForAReason
<1>6. ASSUME StopLoops, reason' # "eos"
      PROVE  runs' = Counted(token)
  BY <1>3, <1>6 DEF Push
<1>7. RunsExact'
  <2> SUFFICES ASSUME StopLoops', reason' # "eos", NEW p \in Periods PROVE Repeats(p)'
    BY DEF RunsExact, Periods
  <2>1. runs'[p] = Counted(token)[p]
    BY <1>6
  <2>2. Repeats(p)
    BY <1>1 DEF RunsExact
  <2>3. QED
    BY <1>1, <2>1, <2>2, CountedExact
<1>8. Verdict'
  <2> SUFFICES ASSUME StopLoops, reason' # "eos"
               PROVE  reason' = "repetition" <=>
                        \E p \in Periods : p < Len(tokens') /\ runs'[p] + p >= Window(p)
    BY DEF Verdict, Periods, Window
  <2>1. reason' = "repetition" <=> Loops(token)
    BY <1>3 DEF Ending
  <2>2. \A p \in Periods : p \in Nat /\ (p < Len(tokens') <=> p <= Len(tokens))
    BY <1>2 DEF Periods
  <2>3. QED
    BY <1>6, <2>1, <2>2 DEF Loops
<1>9. QED
  BY <1>4, <1>5, <1>7, <1>8 DEF IInv

(* A page's counters count exactly the newest tokens that repeat each period, *)
(* and its reason is the verdict of the repetition rule on them.              *)
THEOREM GenerationInductive == GrowSpec => []IInv
<1>1. IInv /\ [Grow]_generation => IInv'
  <2> SUFFICES ASSUME IInv, [Grow]_generation PROVE IInv'
    OBVIOUS
  <2>1. CASE Grow
    BY <2>1, PushInv DEF Grow
  <2>2. CASE UNCHANGED generation
    BY <2>2 DEF generation, IInv, GenerationTypeOK, EndsForAReason, RunsExact,
                Repeats, Verdict
  <2>3. QED
    BY <2>1, <2>2
<1>2. QED
  BY <1>1, InitInv, PTL DEF GrowSpec

(* The counters name a loop just where the output ends in one.              *)
LEMMA CountersSeeLoops ==
  ASSUME GenerationTypeOK, NEW p \in Periods, Repeats(p)
  PROVE  (p < Len(tokens) /\ runs[p] + p >= Window(p)) <=> Periodic(p, Window(p))
<1>1. /\ p \in Nat /\ p >= 1 /\ runs[p] \in Nat /\ Len(tokens) \in Nat
      /\ Window(p) \in Nat /\ Window(p) > p
  BY WindowBound, GenerationAssumption DEF GenerationTypeOK, Periods
<1>2. ASSUME p < Len(tokens), runs[p] + p >= Window(p) PROVE Periodic(p, Window(p))
  <2>1. Window(p) <= Len(tokens)
    BY <1>1, <1>2 DEF Repeats
  <2>2. ASSUME NEW i \in 1 .. Len(tokens), i > Len(tokens) - Window(p) + p
        PROVE  tokens[i] = tokens[i - p]
    <3>1. i > Len(tokens) - runs[p]
      BY <1>1, <1>2, <2>2
    <3>2. QED
      BY <3>1 DEF Repeats
  <2>3. QED
    BY <2>1, <2>2 DEF Periodic
<1>3. ASSUME Periodic(p, Window(p)), runs[p] + p < Window(p) PROVE FALSE
  <2>1. runs[p] + p < Len(tokens)
    BY <1>1, <1>3 DEF Periodic
  <2>2. Len(tokens) - runs[p] \in 1 .. Len(tokens)
        /\ Len(tokens) - runs[p] > Len(tokens) - Window(p) + p
    BY <1>1, <1>3, <2>1
  <2>3. tokens[Len(tokens) - runs[p]] = tokens[Len(tokens) - runs[p] - p]
    BY <1>3, <2>2 DEF Periodic
  <2>4. QED
    BY <2>1, <2>3 DEF Repeats
<1>4. QED
  BY <1>1, <1>2, <1>3 DEF Periodic

(* The repetition rule, for every period, window and vocabulary: a page     *)
(* stops when its output ends in a loop as long as the rule says, and then  *)
(* only.                                                                    *)
THEOREM StopsOnLoops == GrowSpec => []StopsExactlyOnLoops
<1>1. IInv => StopsExactlyOnLoops
  BY CountersSeeLoops DEF IInv, RunsExact, Verdict, StopsExactlyOnLoops
<1>2. QED
  BY <1>1, GenerationInductive, PTL

(* The stop ladder ends a page for one of its reasons, at the first chance. *)
THEOREM EndsWithReason == GrowSpec => []EndsForAReason
<1>1. IInv => EndsForAReason
  BY DEF IInv
<1>2. QED
  BY <1>1, GenerationInductive, PTL
-------------------------------------------------------------------------------
(* Speculation. *)

(* A sequence of the text's first tokens. *)
Follows(s) ==
  /\ s \in Seq(Tokens)
  /\ Len(s) <= MaxNewTokens
  /\ \A i \in 1 .. Len(s) : s[i] = text[i]

PageTypeOK ==
  /\ text \in Texts
  /\ pc \in {"push", "draft", "single", "verify", "accept", "finished", "failed"}
  /\ nextToken \in Tokens
  /\ draft \in Seq(Tokens)
  /\ accepting \in Seq(Tokens)
  /\ finished <=> pc = "finished"

(* Output and cache are the beginning of the text, one ahead of the other   *)
(* by what the place in the loop says; the next token is the text's.        *)
TextInv ==
  /\ Follows(tokens)
  /\ Follows(cache)
  /\ pc = "push" =>
       /\ Len(cache) = Len(tokens)
       /\ nextToken = text[Len(tokens) + 1]
  /\ pc \in {"draft", "single", "verify"} => Len(tokens) = Len(cache) + 1
  /\ pc = "verify" => Len(tokens) + Len(draft) + 1 <= MaxNewTokens
  /\ pc = "accept" =>
       /\ Len(cache) = Len(tokens) + Len(accepting)
       /\ Len(cache) < MaxNewTokens
       /\ \A i \in 1 .. Len(accepting) : accepting[i] = text[Len(tokens) + i]
       /\ nextToken = text[Len(cache) + 1]

(* The head has read the first tokens; those it has still to read follow,   *)
(* and the captured rows are the ones that put them and the next one out.   *)
HeadInv ==
  /\ headRows \in Seq(Nat \X Tokens)
  /\ fed \in Seq(Tokens)
  /\ Len(headRows) <= Len(tokens)
  /\ \A i \in 1 .. Len(headRows) : headRows[i] = <<i - 1, text[i]>>
  /\ HasHead =>
       /\ pc = "push" => Len(headRows) + Len(fed) = Len(tokens)
       /\ pc = "accept" => Len(headRows) + Len(fed) = Len(cache)
       /\ pc \in {"draft", "single", "verify"} => Len(headRows) = Len(tokens) /\ fed = <<>>
       /\ \A i \in 1 .. Len(fed) : fed[i] = text[Len(headRows) + i]
       /\ pc \in {"push", "accept"} =>
            \A r \in 1 .. Len(fed) + 1 : captured[r] = Len(headRows) + r - 1

PageInv == IInv /\ PageTypeOK /\ TextInv /\ HeadInv
------------------------------------------------------------------------------
(* Every non-empty set of naturals has a least element. *)
LEMMA Least ==
  ASSUME NEW S \in SUBSET Nat, S # {}
  PROVE  \E m \in S : \A k \in S : m <= k
<1> DEFINE Below == {ss \in Nat \X Nat : ss[1] < ss[2]}
<1>1. IsWellFoundedOn(Below, Nat)
  BY NatLessThanWellFounded DEF OpToRel
<1>2. PICK m \in S : \A k \in S : <<k, m>> \notin Below
  BY <1>1, WFMin
<1>3. ASSUME NEW k \in S PROVE m <= k
  <2>1. ~(k < m)
    BY <1>2
  <2>2. QED
    BY <2>1
<1>4. QED
  BY <1>3

(* A function on 1..n is a sequence of length n. *)
LEMMA IsSequence ==
  ASSUME NEW S, NEW n \in Nat, NEW f \in [1 .. n -> S]
  PROVE  f \in Seq(S) /\ Len(f) = n
OBVIOUS

(* The text holds a token for each place of the budget. *)
LEMMA TextAt ==
  ASSUME text \in Texts, NEW i \in 1 .. MaxNewTokens
  PROVE  text[i] \in Tokens
BY DEF Texts

(* Output that follows the text still does with the text's next token. *)
LEMMA FollowsAppend ==
  ASSUME text \in Texts, NEW s, Follows(s), Len(s) < MaxNewTokens
  PROVE  /\ Follows(Append(s, text[Len(s) + 1]))
         /\ Len(Append(s, text[Len(s) + 1])) = Len(s) + 1
<1>1. s \in Seq(Tokens) /\ Len(s) \in Nat /\ MaxNewTokens \in Nat
  BY GenerationAssumption DEF Follows
<1>2. text[Len(s) + 1] \in Tokens
  BY <1>1, TextAt
<1>3. /\ Append(s, text[Len(s) + 1]) \in Seq(Tokens)
      /\ Len(Append(s, text[Len(s) + 1])) = Len(s) + 1
      /\ \A i \in 1 .. Len(s) : Append(s, text[Len(s) + 1])[i] = s[i]
      /\ Append(s, text[Len(s) + 1])[Len(s) + 1] = text[Len(s) + 1]
  BY <1>1, <1>2, AppendProperties
<1>4. QED
  BY <1>1, <1>3 DEF Follows

(* So it does with as many of the text's next tokens as there is room for. *)
LEMMA FollowsConcat ==
  ASSUME NEW s, Follows(s), NEW t \in Seq(Tokens), Len(s) + Len(t) <= MaxNewTokens,
         \A i \in 1 .. Len(t) : t[i] = text[Len(s) + i]
  PROVE  /\ Follows(s \o t)
         /\ Len(s \o t) = Len(s) + Len(t)
<1>1. s \in Seq(Tokens) /\ Len(s) \in Nat /\ Len(t) \in Nat
  BY DEF Follows
<1>2. /\ s \o t \in Seq(Tokens)
      /\ Len(s \o t) = Len(s) + Len(t)
      /\ \A i \in 1 .. Len(s) + Len(t) :
           (s \o t)[i] = IF i <= Len(s) THEN s[i] ELSE t[i - Len(s)]
  BY <1>1, ConcatProperties
<1>3. ASSUME NEW i \in 1 .. Len(s) + Len(t) PROVE (s \o t)[i] = text[i]
  <2>1. CASE i <= Len(s)
    BY <1>1, <1>2, <2>1 DEF Follows
  <2>2. CASE ~(i <= Len(s))
    <3>1. i - Len(s) \in 1 .. Len(t) /\ Len(s) + (i - Len(s)) = i
      BY <1>1, <2>2
    <3>2. t[i - Len(s)] = text[i]
      BY <3>1
    <3>3. QED
      BY <1>2, <2>2, <3>2
  <2>3. QED
    BY <2>1, <2>2
<1>4. QED
  BY <1>2, <1>3 DEF Follows

(* Two sequences that follow the text to the same length are equal. *)
LEMMA FollowsEqual ==
  ASSUME NEW s, NEW t, Follows(s), Follows(t), Len(s) = Len(t)
  PROVE  s = t
BY SeqEqual DEF Follows

(* A push of the text's next token. *)
LEMMA PushFollows ==
  ASSUME IInv, text \in Texts, Follows(tokens), ~finished,
         Push(text[Len(tokens) + 1]), text' = text
  PROVE  /\ IInv' /\ Follows(tokens)'
         /\ Len(tokens') = Len(tokens) + 1
         /\ Len(tokens) < MaxNewTokens
         /\ \A i \in 1 .. Len(tokens) : tokens'[i] = tokens[i]
         /\ finished' \in BOOLEAN
         /\ ~finished' => Len(tokens') < MaxNewTokens
<1>1. Len(tokens) \in Nat /\ Len(tokens) < MaxNewTokens /\ MaxNewTokens \in Nat
  BY GenerationAssumption DEF IInv, EndsForAReason, GenerationTypeOK
<1>2. text[Len(tokens) + 1] \in Tokens
  BY <1>1, TextAt
<1>3. IInv'
  BY <1>2, PushInv
<1>4. tokens' = Append(tokens, text[Len(tokens) + 1])
  BY DEF Push
<1>5. Follows(tokens)' /\ Len(tokens') = Len(tokens) + 1
  <2>1. Follows(Append(tokens, text[Len(tokens) + 1]))
        /\ Len(Append(tokens, text[Len(tokens) + 1])) = Len(tokens) + 1
    BY <1>1, FollowsAppend
  <2>2. QED
    BY <1>4, <2>1 DEF Follows
<1>6. \A i \in 1 .. Len(tokens) : tokens'[i] = tokens[i]
  BY <1>1, <1>5 DEF Follows
<1>7. finished' \in BOOLEAN /\ (~finished' => Len(tokens') < MaxNewTokens)
  <2>1. finished' \in BOOLEAN /\ (~finished' => Len(tokens') # MaxNewTokens)
    BY <1>3 DEF IInv, GenerationTypeOK, EndsForAReason
  <2>2. Len(tokens') # MaxNewTokens => Len(tokens') < MaxNewTokens
    BY <1>1, <1>5
  <2>3. QED
    BY <2>1, <2>2
<1>8. QED
  BY <1>1, <1>3, <1>5, <1>6, <1>7

(* The page is not finished while it decodes, and has budget left.          *)
LEMMA Decoding ==
  ASSUME PageInv, pc \in {"push", "draft", "single", "verify", "accept"}
  PROVE  /\ ~finished
         /\ Len(tokens) \in Nat /\ Len(cache) \in Nat
         /\ Len(tokens) < MaxNewTokens
         /\ MaxNewTokens \in Nat
BY GenerationAssumption
   DEF PageInv, PageTypeOK, TextInv, Follows, IInv, EndsForAReason, GenerationTypeOK

(* What the rows of a step read, and the next after the accepted ones. *)
LEMMA InputsAre ==
  ASSUME PageInv, pc = "verify"
  PROVE  /\ Inputs \in Seq(Tokens)
         /\ Len(Inputs) = Len(draft) + 1
         /\ Inputs[1] = text[Len(tokens)]
         /\ \A j \in 1 .. Len(draft) : Inputs[j + 1] = draft[j]
<1>1. /\ Len(tokens) \in 1 .. Len(tokens)
      /\ tokens[Len(tokens)] = text[Len(tokens)]
      /\ tokens[Len(tokens)] \in Tokens
  BY Decoding DEF PageInv, TextInv, Follows
<1>2. draft \in Seq(Tokens) /\ Len(draft) \in Nat
  BY DEF PageInv, PageTypeOK
<1> DEFINE newest == <<tokens[Len(tokens)]>>
<1>3. newest \in Seq(Tokens) /\ Len(newest) = 1 /\ newest[1] = tokens[Len(tokens)]
  BY <1>1
<1>4. Inputs = newest \o draft
  BY DEF Inputs
<1> HIDE DEF newest
<1>5. /\ newest \o draft \in Seq(Tokens)
      /\ Len(newest \o draft) = 1 + Len(draft)
      /\ \A i \in 1 .. 1 + Len(draft) :
           (newest \o draft)[i] = IF i <= 1 THEN newest[i] ELSE draft[i - 1]
  <2>1. /\ newest \o draft \in Seq(Tokens)
        /\ Len(newest \o draft) = Len(newest) + Len(draft)
        /\ \A i \in 1 .. Len(newest) + Len(draft) : (newest \o draft)[i] =
             IF i <= Len(newest) THEN newest[i] ELSE draft[i - Len(newest)]
    BY <1>2, <1>3, ConcatProperties
  <2>2. QED
    BY <1>3, <2>1
<1>6. QED
  BY <1>1, <1>2, <1>3, <1>4, <1>5

(* The inputs up to an input whose drafts are the text's are the text.      *)
LEMMA ReadText ==
  ASSUME PageInv, pc = "verify", NEW r \in 1 .. Len(draft) + 1,
         \A i \in 1 .. r - 1 : draft[i] = text[Len(tokens) + i]
  PROVE  /\ Follows(cache \o SubSeq(Inputs, 1, r))
         /\ Len(cache \o SubSeq(Inputs, 1, r)) = Len(cache) + r
<1>1. /\ Len(tokens) = Len(cache) + 1 /\ Len(cache) \in Nat /\ MaxNewTokens \in Nat
      /\ Len(tokens) + Len(draft) + 1 <= MaxNewTokens /\ Len(draft) \in Nat
      /\ Follows(cache)
  BY Decoding DEF PageInv, TextInv, PageTypeOK
<1>2. \A j \in 1 .. r : Inputs[j] \in Tokens
  BY InputsAre, <1>1
<1>3. /\ SubSeq(Inputs, 1, r) \in Seq(Tokens)
      /\ Len(SubSeq(Inputs, 1, r)) = r
      /\ \A j \in 1 .. r : SubSeq(Inputs, 1, r)[j] = Inputs[j]
  <2>1. r \in Int /\ 1 \in Int /\ 1 <= r
    BY <1>1
  <2>2. /\ SubSeq(Inputs, 1, r) \in Seq(Tokens)
        /\ Len(SubSeq(Inputs, 1, r)) = IF 1 <= r THEN r - 1 + 1 ELSE 0
        /\ \A j \in 1 .. r - 1 + 1 : SubSeq(Inputs, 1, r)[j] = Inputs[1 + j - 1]
    BY <1>2, <2>1, SubSeqProperties
  <2>3. QED
    BY <2>1, <2>2
<1>4. ASSUME NEW j \in 1 .. r PROVE Inputs[j] = text[Len(cache) + j]
  <2>1. CASE j = 1
    BY <1>1, <2>1, InputsAre
  <2>2. CASE j # 1
    <3>1. j - 1 \in 1 .. r - 1 /\ j - 1 \in 1 .. Len(draft) /\ (j - 1) + 1 = j
      BY <1>1, <2>2
    <3>2. Inputs[j] = draft[j - 1] /\ draft[j - 1] = text[Len(tokens) + (j - 1)]
      BY <3>1, InputsAre
    <3>3. QED
      BY <1>1, <3>2
  <2>3. QED
    BY <2>1, <2>2
<1>5. Len(cache) + r <= MaxNewTokens
  BY <1>1
<1> DEFINE read == SubSeq(Inputs, 1, r)
<1>6. /\ read \in Seq(Tokens) /\ Len(read) = r
      /\ \A j \in 1 .. Len(read) : read[j] = text[Len(cache) + j]
  BY <1>3, <1>4
<1> HIDE DEF read
<1>7. Follows(cache \o read) /\ Len(cache \o read) = Len(cache) + r
  BY <1>1, <1>5, <1>6, FollowsConcat
<1>8. QED
  BY <1>7 DEF read

(* A row that has read the text predicts the next token of it. *)
LEMMA RowPredicts ==
  ASSUME PageInv, pc = "verify", NEW predicted \in Predictions,
         NEW r \in 1 .. Len(draft) + 1,
         \A i \in 1 .. r - 1 : draft[i] = text[Len(tokens) + i]
  PROVE  predicted[r] = text[Len(tokens) + r] /\ predicted[r] \in Tokens
<1> DEFINE read == cache \o SubSeq(Inputs, 1, r)
<1>1. predicted[r] \in Predict(read)
  BY DEF Predictions, Rows
<1>2. Follows(read) /\ Len(read) = Len(cache) + r
  BY ReadText
<1> HIDE DEF read
<1>3. /\ Len(tokens) = Len(cache) + 1 /\ Len(cache) \in Nat /\ MaxNewTokens \in Nat
      /\ Len(tokens) + Len(draft) + 1 <= MaxNewTokens /\ Len(draft) \in Nat
  BY Decoding DEF PageInv, TextInv, PageTypeOK
<1>4. Len(read) < MaxNewTokens /\ Len(read) + 1 = Len(tokens) + r
  BY <1>2, <1>3
<1>5. \A i \in DOMAIN read : read[i] = text[i]
  BY <1>2 DEF Follows
<1>6. QED
  BY <1>1, <1>4, <1>5 DEF Predict

(* "keeps exactly its own greedy output": an accepted draft is the text's,  *)
(* by induction on its place, and so is the token after the accepted ones.  *)
LEMMA AcceptedIsText ==
  ASSUME PageInv, pc = "verify", NEW predicted \in Predictions,
         NEW n \in 0 .. Len(draft), Accepted(n, predicted)
  PROVE  /\ \A i \in 1 .. n : draft[i] = text[Len(tokens) + i]
         /\ predicted[n + 1] = text[Len(tokens) + n + 1]
         /\ predicted[n + 1] \in Tokens
<1>1. Len(draft) \in Nat /\ Len(tokens) \in Nat
  BY Decoding DEF PageInv, PageTypeOK
<1>2. \A i \in 1 .. n : draft[i] = text[Len(tokens) + i]
  <2> DEFINE Wrong == {i \in 1 .. n : draft[i] # text[Len(tokens) + i]}
  <2>1. SUFFICES ASSUME Wrong # {} PROVE FALSE
    OBVIOUS
  <2>2. Wrong \in SUBSET Nat
    BY <1>1
  <2>3. PICK m \in Wrong : \A k \in Wrong : m <= k
    BY <2>1, <2>2, Least
  <2>4. m \in 1 .. n /\ m \in 1 .. Len(draft) + 1 /\ draft[m] # text[Len(tokens) + m]
    BY <1>1
  <2>5. \A i \in 1 .. m - 1 : draft[i] = text[Len(tokens) + i]
    BY <1>1, <2>3, <2>4
  <2>6. predicted[m] = text[Len(tokens) + m]
    BY <2>4, <2>5, RowPredicts
  <2>7. draft[m] = predicted[m]
    BY <2>4 DEF Accepted
  <2>8. QED
    BY <2>4, <2>6, <2>7
<1>3. n + 1 \in 1 .. Len(draft) + 1 /\ \A i \in 1 .. (n + 1) - 1 : i \in 1 .. n
  BY <1>1
<1>4. \A i \in 1 .. (n + 1) - 1 : draft[i] = text[Len(tokens) + i]
  BY <1>2, <1>3
<1>5. predicted[n + 1] = text[Len(tokens) + (n + 1)] /\ predicted[n + 1] \in Tokens
  BY <1>3, <1>4, RowPredicts
<1>6. Len(tokens) + (n + 1) = Len(tokens) + n + 1
  BY <1>1
<1>7. QED
  BY <1>2, <1>5, <1>6
------------------------------------------------------------------------------
(* The head's rows after the tokens it has still to read and the next one.  *)
LEMMA HeadCatchesUp ==
  ASSUME PageInv, pc = "push", HasHead, NEW these,
         these = Append(fed, nextToken)
  PROVE  /\ HeadReads(these) \in Seq(Nat \X Tokens)
         /\ Len(HeadReads(these)) = Len(tokens) + 1
         /\ \A i \in 1 .. Len(tokens) + 1 : HeadReads(these)[i] = <<i - 1, text[i]>>
<1>1. /\ Len(headRows) + Len(fed) = Len(tokens)
      /\ headRows \in Seq(Nat \X Tokens) /\ fed \in Seq(Tokens)
      /\ Len(headRows) \in Nat /\ Len(fed) \in Nat
      /\ Len(tokens) < MaxNewTokens
      /\ nextToken = text[Len(tokens) + 1] /\ nextToken \in Tokens
  BY Decoding DEF PageInv, HeadInv, TextInv, PageTypeOK
<1>2. /\ Len(these) = Len(fed) + 1
      /\ \A i \in 1 .. Len(fed) : these[i] = fed[i]
      /\ these[Len(fed) + 1] = nextToken
      /\ these \in Seq(Tokens)
  BY <1>1, AppendProperties
<1>3. ASSUME NEW r \in 1 .. Len(fed) + 1
      PROVE  /\ these[r] = text[Len(headRows) + r]
             /\ captured[r] = Len(headRows) + r - 1 /\ captured[r] \in Nat
             /\ these[r] \in Tokens
  <2>1. captured[r] = Len(headRows) + r - 1 /\ captured[r] \in Nat
    BY <1>1 DEF PageInv, HeadInv
  <2>2. these[r] = text[Len(headRows) + r]
    <3>1. CASE r = Len(fed) + 1
      <4>1. Len(headRows) + Len(fed) = Len(tokens) /\ Len(headRows) \in Nat /\ Len(fed) \in Nat
        BY <1>1
      <4>2. Len(headRows) + r = Len(tokens) + 1
        BY <3>1, <4>1
      <4>3. QED
        BY <1>1, <1>2, <3>1, <4>2
    <3>2. CASE r # Len(fed) + 1
      <4>1. r \in 1 .. Len(fed)
        BY <1>1, <3>2
      <4>2. fed[r] = text[Len(headRows) + r]
        BY <4>1 DEF PageInv, HeadInv
      <4>3. QED
        BY <1>2, <4>1, <4>2
    <3>3. QED
      BY <3>1, <3>2
  <2>3. these[r] \in Tokens
    BY <1>2
  <2>4. QED
    BY <2>1, <2>2, <2>3
<1> DEFINE new == [r \in 1 .. Len(these) |-> <<captured[r], these[r]>>]
<1>4. /\ new \in Seq(Nat \X Tokens) /\ Len(new) = Len(fed) + 1
      /\ \A r \in 1 .. Len(fed) + 1 : new[r] = <<Len(headRows) + r - 1, text[Len(headRows) + r]>>
  <2>1. \A r \in 1 .. Len(these) : <<captured[r], these[r]>> \in Nat \X Tokens
    BY <1>2, <1>3
  <2>2. new \in [1 .. Len(fed) + 1 -> Nat \X Tokens]
    BY <1>2, <2>1
  <2>3. Len(fed) + 1 \in Nat
    BY <1>1
  <2>4. \A r \in 1 .. Len(fed) + 1 : new[r] = <<Len(headRows) + r - 1, text[Len(headRows) + r]>>
    BY <1>2, <1>3
  <2>5. QED
    <3> HIDE DEF new
    <3> QED BY <2>2, <2>3, <2>4, IsSequence
<1>5. HeadReads(these) = headRows \o new
  BY DEF HeadReads
<1> HIDE DEF new
<1>6. /\ headRows \o new \in Seq(Nat \X Tokens)
      /\ Len(headRows \o new) = Len(headRows) + Len(new)
      /\ \A i \in 1 .. Len(headRows) + Len(new) : (headRows \o new)[i] =
           IF i <= Len(headRows) THEN headRows[i] ELSE new[i - Len(headRows)]
  BY <1>1, <1>4, ConcatProperties
<1>7. ASSUME NEW i \in 1 .. Len(tokens) + 1
      PROVE  (headRows \o new)[i] = <<i - 1, text[i]>>
  <2>1. CASE i <= Len(headRows)
    <3>1. i \in 1 .. Len(headRows) /\ i \in 1 .. Len(headRows) + Len(new)
      BY <1>1, <1>4, <2>1
    <3>2. headRows[i] = <<i - 1, text[i]>>
      BY <3>1 DEF PageInv, HeadInv
    <3>3. QED
      BY <1>6, <2>1, <3>1, <3>2
  <2>2. CASE ~(i <= Len(headRows))
    <3>1. /\ i - Len(headRows) \in 1 .. Len(fed) + 1
          /\ i \in 1 .. Len(headRows) + Len(new)
          /\ Len(headRows) + (i - Len(headRows)) = i
      BY <1>1, <1>4, <2>2
    <3>2. new[i - Len(headRows)] = <<i - 1, text[i]>>
      BY <1>4, <3>1
    <3>3. (headRows \o new)[i] = new[i - Len(headRows)]
      BY <1>6, <2>2, <3>1
    <3>4. QED
      BY <3>2, <3>3
  <2>3. QED
    BY <2>1, <2>2
<1>8. headRows \o new \in Seq(Nat \X Tokens) /\ Len(headRows \o new) = Len(tokens) + 1
  BY <1>1, <1>4, <1>6
<1>9. QED
  BY <1>5, <1>7, <1>8

(* Pushing the next token; the head then reads the verified positions. *)
LEMMA PushNextInv ==
  ASSUME PageInv, PushNext
  PROVE  PageInv'
<1>1. /\ pc = "push" /\ ~finished /\ text' = text /\ cache' = cache /\ draft' = draft
      /\ accepting' = accepting /\ nextToken' = nextToken
      /\ nextToken = text[Len(tokens) + 1] /\ Len(cache) = Len(tokens)
      /\ text \in Texts /\ IInv /\ Follows(tokens) /\ Follows(cache)
  BY Decoding DEF PushNext, PageInv, TextInv, PageTypeOK
<1>2. /\ IInv' /\ Follows(tokens)' /\ Len(tokens') = Len(tokens) + 1
      /\ Len(tokens) \in Nat /\ finished' \in BOOLEAN
  BY <1>1, PushFollows, Decoding DEF PushNext
<1>3. (finished' /\ pc' = "finished") \/ (~finished' /\ pc' = "draft")
  BY DEF PushNext
<1>4. PageTypeOK'
  BY <1>1, <1>2, <1>3 DEF PageInv, PageTypeOK, Texts
<1>5. TextInv'
  BY <1>1, <1>2, <1>3 DEF TextInv, Follows
<1>6. HeadInv'
  <2>1. CASE finished' \/ ~HasHead
    <3>1. headRows' = headRows /\ fed' = fed
      BY <2>1 DEF PushNext, head
    <3>2. Len(headRows) <= Len(tokens')
      BY <1>2 DEF PageInv, HeadInv
    <3>3. QED
      BY <1>1, <1>3, <2>1, <3>1, <3>2 DEF PageInv, HeadInv
  <2>2. CASE ~finished' /\ HasHead
    <3>1. headRows' = HeadReads(Append(fed, nextToken)) /\ fed' = <<>>
      BY <2>2 DEF PushNext
    <3>2. /\ headRows' \in Seq(Nat \X Tokens)
          /\ Len(headRows') = Len(tokens) + 1
          /\ \A i \in 1 .. Len(tokens) + 1 : headRows'[i] = <<i - 1, text[i]>>
      BY <1>1, <2>2, <3>1, HeadCatchesUp
    <3>3. QED
      BY <1>1, <1>2, <1>3, <2>2, <3>1, <3>2 DEF HeadInv
  <2>3. QED
    BY <2>1, <2>2
<1>7. QED
  BY <1>2, <1>4, <1>5, <1>6 DEF PageInv

(* The output stays as it is in every step but the pushes. *)
LEMMA OutputRests ==
  ASSUME IInv, UNCHANGED generation
  PROVE  IInv'
BY DEF generation, IInv, GenerationTypeOK, EndsForAReason, RunsExact, Repeats, Verdict

(* Asking for a draft: whatever it is, it fits the budget. *)
LEMMA ProposeInv ==
  ASSUME PageInv, Propose
  PROVE  PageInv'
<1>1. PICK n \in 0 .. MaxDraft :
        /\ n = 0 \/ Fits(n)
        /\ draft' \in [1 .. n -> Tokens]
        /\ pc' = IF n = 0 THEN "single" ELSE "verify"
  BY DEF Propose
<1>2. UNCHANGED <<tokens, runs, reason, finished, text, nextToken, cache, accepting, headRows, fed>>
      /\ pc = "draft" /\ UNCHANGED generation
  BY DEF Propose, head, generation
<1>3. n \in Nat /\ MaxDraft \in Nat
  BY SpeculationAssumption
<1>4. draft' \in Seq(Tokens) /\ Len(draft') = n
  BY <1>1, <1>3
<1>5. IInv'
  BY <1>2, OutputRests DEF PageInv
<1>6. PageTypeOK'
  BY <1>1, <1>2, <1>4 DEF PageInv, PageTypeOK, Texts
<1>7. TextInv'
  <2>1. n # 0 => Len(tokens) + n + 1 <= MaxNewTokens
    BY <1>1, <1>2, <1>3, Decoding DEF Fits
  <2>2. pc' \in {"single", "verify"} /\ (pc' = "verify" => n # 0)
    BY <1>1
  <2>3. Len(tokens) = Len(cache) + 1 /\ Follows(tokens) /\ Follows(cache)
    BY <1>2 DEF PageInv, TextInv
  <2>4. QED
    BY <1>2, <1>4, <2>1, <2>2, <2>3 DEF TextInv, Follows
<1>8. HeadInv'
  BY <1>1, <1>2 DEF PageInv, HeadInv
<1>9. QED
  BY <1>5, <1>6, <1>7, <1>8 DEF PageInv

(* A plain step reads the token that was pushed and predicts the next. *)
LEMMA SingleInv ==
  ASSUME PageInv, Single
  PROVE  PageInv'
<1>1. /\ pc = "single" /\ pc' = "push"
      /\ UNCHANGED <<tokens, runs, reason, finished, text, draft, accepting, fed, headRows>>
      /\ UNCHANGED generation
  BY DEF Single, generation
<1>2. /\ Len(tokens) = Len(cache) + 1 /\ Len(cache) \in Nat /\ Len(tokens) < MaxNewTokens
      /\ Follows(tokens) /\ Follows(cache) /\ text \in Texts /\ ~finished
  BY <1>1, Decoding DEF PageInv, TextInv, PageTypeOK
<1>3. cache' = Append(cache, text[Len(cache) + 1])
  BY <1>2 DEF Single, Follows
<1>4. Follows(cache') /\ Len(cache') = Len(tokens)
  <2>1. Len(cache) < MaxNewTokens
    BY <1>2, GenerationAssumption
  <2>2. /\ Follows(Append(cache, text[Len(cache) + 1]))
        /\ Len(Append(cache, text[Len(cache) + 1])) = Len(cache) + 1
    BY <1>2, <2>1, FollowsAppend
  <2>3. QED
    BY <1>2, <1>3, <2>2
<1>5. nextToken' = text[Len(tokens) + 1] /\ nextToken' \in Tokens
  BY <1>2, <1>4 DEF Single, Predict, Follows
<1>6. IInv'
  BY <1>1, OutputRests DEF PageInv
<1>7. PageTypeOK'
  BY <1>1, <1>2, <1>5 DEF PageInv, PageTypeOK, Texts
<1>8. TextInv'
  BY <1>1, <1>2, <1>4, <1>5 DEF TextInv, Follows
<1>9. HeadInv'
  <2>1. captured' = <<Len(tokens)>>
    BY <1>4 DEF Single
  <2>2. HasHead => Len(headRows) = Len(tokens) /\ fed = <<>>
    BY <1>1 DEF PageInv, HeadInv
  <2>3. HasHead => \A r \in 1 .. Len(fed') + 1 : captured'[r] = Len(headRows') + r - 1
    BY <1>1, <1>2, <2>1, <2>2
  <2>4. QED
    BY <1>1, <2>2, <2>3 DEF PageInv, HeadInv
<1>10. QED
  BY <1>6, <1>7, <1>8, <1>9 DEF PageInv

(* A verifying step: the rows up to the first wrong draft read the text. *)
LEMMA VerifyInv ==
  ASSUME PageInv, Verify
  PROVE  PageInv'
<1>1. /\ pc = "verify" /\ pc' = "accept"
      /\ UNCHANGED <<tokens, runs, reason, finished, text, draft, headRows>>
      /\ UNCHANGED generation
      /\ captured' = [r \in Rows |-> Len(cache) + r]
  BY DEF Verify, generation
<1>2. PICK predicted \in Predictions, n \in 0 .. Len(draft) :
        /\ Accepted(n, predicted)
        /\ cache' = Kept(n)
        /\ nextToken' = NextAfter(n, predicted)
        /\ accepting' = SubSeq(draft, 1, n)
        /\ fed' = IF HasHead THEN Fed(n) ELSE fed
  BY DEF Verify
<1>3. /\ \A i \in 1 .. n : draft[i] = text[Len(tokens) + i]
      /\ predicted[n + 1] = text[Len(tokens) + n + 1]
      /\ predicted[n + 1] \in Tokens
  BY <1>1, <1>2, AcceptedIsText
<1>4. /\ Len(tokens) = Len(cache) + 1 /\ Len(cache) \in Nat /\ MaxNewTokens \in Nat
      /\ Len(tokens) + Len(draft) + 1 <= MaxNewTokens /\ Len(draft) \in Nat
      /\ draft \in Seq(Tokens) /\ ~finished /\ n \in Nat
      /\ Follows(tokens) /\ text \in Texts
  BY <1>1, Decoding DEF PageInv, TextInv, PageTypeOK
<1>5. /\ n + 1 \in 1 .. Len(draft) + 1
      /\ \A i \in 1 .. (n + 1) - 1 : draft[i] = text[Len(tokens) + i]
  BY <1>3, <1>4
<1>6. Follows(cache') /\ Len(cache') = Len(tokens) + n
  <2>1. /\ Follows(cache \o SubSeq(Inputs, 1, n + 1))
        /\ Len(cache \o SubSeq(Inputs, 1, n + 1)) = Len(cache) + (n + 1)
    BY <1>1, <1>5, ReadText
  <2>2. QED
    BY <1>2, <1>4, <2>1 DEF Kept
<1>7. /\ accepting' \in Seq(Tokens) /\ Len(accepting') = n
      /\ \A i \in 1 .. n : accepting'[i] = text[Len(tokens) + i]
  <2>1. \A i \in 1 .. n : draft[i] \in Tokens
    BY <1>4
  <2>2. /\ SubSeq(draft, 1, n) \in Seq(Tokens)
        /\ Len(SubSeq(draft, 1, n)) = IF 1 <= n THEN n - 1 + 1 ELSE 0
        /\ \A i \in 1 .. n - 1 + 1 : SubSeq(draft, 1, n)[i] = draft[1 + i - 1]
    BY <1>4, <2>1, SubSeqProperties
  <2>3. QED
    BY <1>2, <1>3, <1>4, <2>2
<1>8. nextToken' = text[Len(cache') + 1] /\ nextToken' \in Tokens
  BY <1>2, <1>3, <1>4, <1>6 DEF NextAfter
<1>9. IInv'
  BY <1>1, OutputRests DEF PageInv
<1>10. PageTypeOK'
  BY <1>1, <1>4, <1>7, <1>8 DEF PageInv, PageTypeOK, Texts
<1>11. TextInv'
  BY <1>1, <1>4, <1>6, <1>7, <1>8 DEF TextInv, Follows
<1>12. HeadInv'
  <2>1. CASE ~HasHead
    BY <1>1, <1>2, <2>1 DEF PageInv, HeadInv
  <2>2. CASE HasHead
    <3>1. Len(headRows) = Len(tokens) /\ fed = <<>>
      BY <1>1, <2>2 DEF PageInv, HeadInv
    <3>2. fed' = accepting'
      <4>1. fed' = <<>> \o SubSeq(draft, 1, n)
        BY <1>2, <2>2, <3>1 DEF Fed
      <4>2. QED
        BY <1>2, <1>7, <4>1, ConcatEmptySeq
    <3>3. \A r \in 1 .. Len(fed') + 1 : captured'[r] = Len(headRows) + r - 1
      BY <1>1, <1>4, <1>7, <3>1, <3>2 DEF Rows
    <3>4. \A i \in 1 .. Len(fed') : fed'[i] = text[Len(headRows) + i]
      BY <1>7, <3>1, <3>2
    <3>5. Len(headRows) + Len(fed') = Len(cache')
      BY <1>6, <1>7, <3>1, <3>2
    <3>6. fed' \in Seq(Tokens)
      BY <1>7, <3>2
    <3>7. QED
      BY <1>1, <2>2, <3>3, <3>4, <3>5, <3>6 DEF PageInv, HeadInv
  <2>3. QED
    BY <2>1, <2>2
<1>13. QED
  BY <1>9, <1>10, <1>11, <1>12 DEF PageInv

(* Pushing an accepted draft is a push of the text's next token. *)
LEMMA PushAcceptedInv ==
  ASSUME PageInv, PushAccepted
  PROVE  PageInv' /\ Push(text[Len(tokens) + 1])
<1>1. /\ pc = "accept" /\ accepting # <<>> /\ Push(Head(accepting))
      /\ accepting' = Tail(accepting)
      /\ pc' = IF finished' THEN "finished" ELSE "accept"
      /\ UNCHANGED <<text, nextToken, cache, draft, fed, captured, headRows>>
  BY DEF PushAccepted, head
<1>2. /\ ~finished /\ text \in Texts /\ IInv /\ Follows(tokens) /\ Follows(cache)
      /\ Len(cache) = Len(tokens) + Len(accepting) /\ Len(cache) < MaxNewTokens
      /\ accepting \in Seq(Tokens) /\ nextToken = text[Len(cache) + 1]
      /\ Len(tokens) \in Nat /\ Len(accepting) \in Nat
  BY <1>1, Decoding DEF PageInv, TextInv, PageTypeOK
<1>3. /\ Tail(accepting) \in Seq(Tokens)
      /\ Len(Tail(accepting)) = Len(accepting) - 1
      /\ \A i \in 1 .. Len(Tail(accepting)) : Tail(accepting)[i] = accepting[i + 1]
      /\ Head(accepting) = accepting[1] /\ Len(accepting) >= 1
  BY <1>1, <1>2, HeadTailProperties
<1>4. \A i \in 1 .. Len(accepting) : accepting[i] = text[Len(tokens) + i]
  BY <1>1 DEF PageInv, TextInv
<1>5. Head(accepting) = text[Len(tokens) + 1]
  BY <1>2, <1>3, <1>4
<1>6. Push(text[Len(tokens) + 1])
  BY <1>1, <1>5
<1>7. /\ IInv' /\ Follows(tokens)' /\ Len(tokens') = Len(tokens) + 1
      /\ finished' \in BOOLEAN
  BY <1>1, <1>2, <1>6, PushFollows
<1>8. (finished' /\ pc' = "finished") \/ (~finished' /\ pc' = "accept")
  BY <1>1, <1>7
<1>9. PageTypeOK'
  BY <1>1, <1>3, <1>7, <1>8 DEF PageInv, PageTypeOK, Texts
<1>10. TextInv'
  <2>1. Len(cache') = Len(tokens') + Len(accepting')
    BY <1>1, <1>2, <1>3, <1>7
  <2>2. \A i \in 1 .. Len(accepting') : accepting'[i] = text[Len(tokens') + i]
    <3>1. \A i \in 1 .. Len(accepting') :
            /\ i + 1 \in 1 .. Len(accepting)
            /\ Len(tokens) + (i + 1) = Len(tokens') + i
      BY <1>1, <1>2, <1>3, <1>7
    <3>2. QED
      BY <1>1, <1>3, <1>4, <3>1
  <2>3. QED
    BY <1>1, <1>2, <1>7, <1>8, <2>1, <2>2 DEF TextInv, Follows
<1>11. HeadInv'
  <2>1. Len(headRows) <= Len(tokens')
    BY <1>2, <1>7 DEF PageInv, HeadInv
  <2>2. QED
    BY <1>1, <1>8, <2>1 DEF PageInv, HeadInv
<1>12. QED
  BY <1>6, <1>7, <1>9, <1>10, <1>11 DEF PageInv

(* With all accepted drafts pushed, output and cache are level again. *)
LEMMA AllAcceptedInv ==
  ASSUME PageInv, AllAccepted
  PROVE  PageInv'
<1>1. /\ pc = "accept" /\ accepting = <<>> /\ pc' = "push"
      /\ UNCHANGED <<tokens, runs, reason, finished, text, nextToken, cache, draft, accepting>>
      /\ UNCHANGED <<fed, captured, headRows>> /\ UNCHANGED generation
  BY DEF AllAccepted, head, generation
<1>2. Len(cache) = Len(tokens) /\ ~finished
  <2>1. Len(cache) = Len(tokens) + Len(accepting) /\ Len(tokens) \in Nat /\ ~finished
    BY <1>1, Decoding DEF PageInv, TextInv
  <2>2. QED
    BY <1>1, <2>1
<1>3. IInv'
  BY <1>1, OutputRests DEF PageInv
<1>4. PageTypeOK'
  BY <1>1, <1>2 DEF PageInv, PageTypeOK, Texts
<1>5. TextInv'
  BY <1>1, <1>2 DEF PageInv, TextInv, Follows
<1>6. HeadInv'
  BY <1>1, <1>2 DEF PageInv, HeadInv
<1>7. QED
  BY <1>3, <1>4, <1>5, <1>6 DEF PageInv

(* A forward pass that fails ends the page. *)
LEMMA FailInv ==
  ASSUME PageInv, Fail
  PROVE  PageInv'
<1>1. /\ pc' = "failed" /\ pc # "finished"
      /\ UNCHANGED <<tokens, runs, reason, finished, text, nextToken, cache, draft, accepting>>
      /\ UNCHANGED <<fed, captured, headRows>> /\ UNCHANGED generation
  BY DEF Fail, head, generation
<1>2. IInv'
  BY <1>1, OutputRests DEF PageInv
<1>3. PageTypeOK' /\ TextInv' /\ HeadInv'
  BY <1>1 DEF PageInv, PageTypeOK, TextInv, HeadInv, Follows, Texts
<1>4. QED
  BY <1>2, <1>3 DEF PageInv

(* The prefill's prediction is the text's first token. *)
LEMMA PageInit == Init => PageInv
<1> SUFFICES ASSUME Init PROVE PageInv
  OBVIOUS
<1>1. GenerationInit /\ IInv
  BY InitInv DEF Init
<1>2. tokens = <<>> /\ ~finished
  BY <1>1 DEF GenerationInit
<1>3. text \in Texts /\ text[1] \in Tokens
  BY GenerationAssumption, TextAt DEF Init
<1>4. PageTypeOK
  BY <1>2, <1>3 DEF Init, PageTypeOK
<1>5. TextInv
  BY <1>2, GenerationAssumption DEF Init, TextInv, Follows
<1>6. HeadInv
  BY <1>2 DEF Init, HeadInv
<1>7. QED
  BY <1>1, <1>4, <1>5, <1>6 DEF PageInv

(* Every step of a speculative page keeps the invariant. *)
LEMMA PageStep == PageInv /\ [Next]_vars => PageInv'
<1> SUFFICES ASSUME PageInv, [Next]_vars PROVE PageInv'
  OBVIOUS
<1>1. CASE UNCHANGED vars
  <2>1. UNCHANGED generation
    BY <1>1 DEF vars
  <2>2. IInv'
    BY <2>1, OutputRests DEF PageInv
  <2>3. PageTypeOK' /\ TextInv' /\ HeadInv'
    BY <1>1 DEF vars, generation, step, head, PageInv, PageTypeOK, TextInv, HeadInv, Follows, Texts
  <2>4. QED
    BY <2>2, <2>3 DEF PageInv
<1>2. QED
  BY <1>1, PushNextInv, ProposeInv, SingleInv, VerifyInv, PushAcceptedInv,
     AllAcceptedInv, FailInv DEF Next

(* Output, cache and head move along the model's own text, whatever is      *)
(* drafted.                                                                 *)
THEOREM PageInvariant == Spec => []PageInv
BY PageInit, PageStep, PTL DEF Spec

(* The cache holds the output and nothing else at every step of a page:     *)
(* truncating after a verification drops the rejected rows and no other,    *)
(* and no forward pass reaches past the budget the cache was sized for.     *)
THEOREM CacheIsOutput == Spec => []CacheFollowsOutput
<1>1. ASSUME PageInv PROVE CacheFollowsOutput
  <2>1. Follows(tokens) /\ Follows(cache) /\ text \in Texts
    BY <1>1 DEF PageInv, TextInv, PageTypeOK
  <2>2. ASSUME pc = "push" PROVE cache = tokens
    BY <1>1, <2>1, <2>2, FollowsEqual DEF PageInv, TextInv
  <2>3. ASSUME pc = "accept" PROVE cache = tokens \o accepting /\ Len(cache) < MaxNewTokens
    <3>1. /\ Len(cache) = Len(tokens) + Len(accepting) /\ Len(cache) < MaxNewTokens
          /\ \A i \in 1 .. Len(accepting) : accepting[i] = text[Len(tokens) + i]
          /\ accepting \in Seq(Tokens)
      BY <1>1, <2>3 DEF PageInv, TextInv, PageTypeOK
    <3>2. Len(tokens) + Len(accepting) <= MaxNewTokens
      BY <2>1, <3>1 DEF Follows
    <3>3. Follows(tokens \o accepting) /\ Len(tokens \o accepting) = Len(cache)
      BY <2>1, <3>1, <3>2, FollowsConcat
    <3>4. QED
      BY <2>1, <3>1, <3>3, FollowsEqual
  <2>4. ASSUME pc \in {"draft", "single", "verify"} PROVE tokens = Append(cache, tokens[Len(tokens)])
    <3>1. /\ Len(tokens) = Len(cache) + 1 /\ Len(cache) \in Nat /\ Len(cache) < MaxNewTokens
          /\ tokens[Len(tokens)] = text[Len(cache) + 1]
      BY <1>1, <2>1, <2>4, Decoding DEF PageInv, TextInv, Follows
    <3>2. /\ Follows(Append(cache, text[Len(cache) + 1]))
          /\ Len(Append(cache, text[Len(cache) + 1])) = Len(cache) + 1
      BY <2>1, <3>1, FollowsAppend
    <3>3. tokens = Append(cache, text[Len(cache) + 1])
      BY <2>1, <3>1, <3>2, FollowsEqual
    <3>4. QED
      BY <3>1, <3>3
  <2>5. ASSUME pc = "verify" PROVE Len(cache) + Len(draft) + 1 <= MaxNewTokens
    <3>1. /\ Len(tokens) = Len(cache) + 1 /\ Len(tokens) + Len(draft) + 1 <= MaxNewTokens
          /\ Len(cache) \in Nat /\ Len(draft) \in Nat /\ MaxNewTokens \in Nat
      BY <1>1, <2>5, Decoding DEF PageInv, TextInv, PageTypeOK
    <3>2. QED
      BY <3>1
  <2>6. QED
    BY <2>2, <2>3, <2>4, <2>5 DEF CacheFollowsOutput
<1>2. QED
  BY <1>1, PageInvariant, PTL

(* The trained head reads every token of the output once, in order, each    *)
(* with the features of the position that put it out, and has read all of   *)
(* them when it is asked to draft.                                          *)
THEOREM HeadReadsPositions == Spec => []HeadReadsItsPositions
<1>1. ASSUME PageInv PROVE HeadReadsItsPositions
  <2>1. \A i \in DOMAIN headRows : headRows[i] = <<i - 1, tokens[i]>>
    <3>1. /\ headRows \in Seq(Nat \X Tokens) /\ Len(headRows) <= Len(tokens)
          /\ \A i \in 1 .. Len(headRows) : headRows[i] = <<i - 1, text[i]>>
          /\ tokens \in Seq(Tokens) /\ \A i \in 1 .. Len(tokens) : tokens[i] = text[i]
      BY <1>1 DEF PageInv, HeadInv, TextInv, Follows
    <3>2. DOMAIN headRows = 1 .. Len(headRows)
          /\ \A i \in 1 .. Len(headRows) : i \in 1 .. Len(tokens)
      BY <3>1
    <3>3. QED
      BY <3>1, <3>2
  <2>2. HasHead /\ pc = "draft" => Len(headRows) = Len(tokens)
    BY <1>1 DEF PageInv, HeadInv
  <2>3. QED
    BY <2>1, <2>2 DEF HeadReadsItsPositions
<1>2. QED
  BY <1>1, PageInvariant, PTL

(* The repetition rule stops a page that speculates exactly as it stops a   *)
(* plain one, and no accepted draft slips past a stop.                      *)
THEOREM SpeculationStopsOnLoops == Spec => [](StopsExactlyOnLoops /\ EndsForAReason)
<1>1. PageInv => StopsExactlyOnLoops /\ EndsForAReason
  BY CountersSeeLoops DEF PageInv, IInv, RunsExact, Verdict, StopsExactlyOnLoops
<1>2. QED
  BY <1>1, PageInvariant, PTL

(* "The model verifies every drafted token and keeps exactly its own greedy *)
(* output": a speculative page is a plain page that takes several tokens a  *)
(* step, whatever was drafted; each token it puts out is a plain step.      *)
THEOREM KeepsGreedy == Spec => KeepsGreedyOutput
<1>1. Init => Plain!Init
  BY DEF Init, Plain!Init, GenerationInit, Plain!GenerationInit, Texts, Plain!Texts,
         Periods, Plain!Periods
<1>2. ASSUME PageInv, ~finished, Push(text[Len(tokens) + 1]), UNCHANGED text
      PROVE  Plain!Step
  BY <1>2 DEF Plain!Step, Push, Plain!Push, Counted, Plain!Counted, Ending, Plain!Ending,
              Loops, Plain!Loops, Fills, Plain!Fills, Periods, Plain!Periods,
              Window, Plain!Window
<1>3. ASSUME PageInv, [Next]_vars PROVE [Plain!Step]_(Plain!vars)
  <2>1. CASE PushNext
    <3>1. ~finished /\ nextToken = text[Len(tokens) + 1] /\ Push(nextToken) /\ UNCHANGED text
      BY <1>3, <2>1, Decoding DEF PushNext, PageInv, TextInv
    <3>2. QED
      BY <1>2, <1>3, <3>1
  <2>2. CASE PushAccepted
    BY <1>2, <1>3, <2>2, PushAcceptedInv, Decoding DEF PushAccepted
  <2>3. CASE Propose \/ Single \/ Verify \/ AllAccepted \/ Fail \/ UNCHANGED vars
    BY <2>3 DEF Propose, Single, Verify, AllAccepted, Fail, vars,
                Plain!vars, generation, Plain!generation
  <2>4. QED
    BY <1>3, <2>1, <2>2, <2>3 DEF Next
<1>4. QED
  BY <1>1, <1>3, PageInvariant, PTL DEF Spec, KeepsGreedyOutput, Plain!Spec
===============================================================================
