------------------------------ MODULE Drafter ------------------------------
(***************************************************************************)
(* Draft tokens looked up in the output so far (draft.rs): an index of the *)
(* page's n-grams that grows with the output (NgramDrafter), and one of    *)
(* the full-length n-grams of the document's earlier pages                 *)
(* (DocumentHistory).  Both keep, for each n-gram, the position of its     *)
(* latest occurrence that something follows; 0 when there is none.         *)
(***************************************************************************)
EXTENDS Naturals, Sequences

CONSTANTS Tokens,
          SEPARATOR,  (* the page boundary in the history                   *)
          MAX_N,      (* longest n-gram looked up                           *)
          MinMatch,   (* and the shortest, clamped to 1 .. MAX_N            *)
          MaxDraft,   (* most tokens drafted at once                        *)
          MaxTokens,  (* bound: tokens of a page                            *)
          MaxPages    (* bound: pages of a document                         *)

ASSUME DrafterAssumption ==
         /\ SEPARATOR \notin Tokens
         /\ MAX_N \in Nat \ {0}
         /\ MinMatch \in 1 .. MAX_N
         /\ MaxDraft \in Nat
         /\ MaxTokens \in Nat
         /\ MaxPages \in Nat

VARIABLES pc,       (* "decode", "propose" or "push_page"                   *)
          tokens,   (* the page's output so far                             *)
          index,    (* NgramDrafter.index                                   *)
          indexed,  (* NgramDrafter.indexed                                 *)
          document, (* DocumentHistory.tokens                               *)
          recent,   (* DocumentHistory.index                                *)
          end,      (* push_page's position                                 *)
          pages,
          asked,    (* the limit of the latest draft, 0 once it is used     *)
          draft

page == <<tokens, index, indexed>>
history == <<document, recent, end, pages>>
vars == <<pc, page, history, asked, draft>>

Grams == UNION {[1 .. n -> Tokens] : n \in 1 .. MAX_N}
FullGrams == [1 .. MAX_N -> Tokens]

(* The n pieces of a text up to its position e. *)
Gram(text, e, n) == [i \in 1 .. n |-> text[e - n + i]]

Init ==
  /\ pc = "decode"
  /\ tokens = <<>>
  /\ index = [g \in Grams |-> 0]
  /\ indexed = 0
  /\ document = <<>>
  /\ recent = [g \in FullGrams |-> 0]
  /\ end = 0
  /\ pages = 0
  /\ asked = 0
  /\ draft = <<>>
------------------------------------------------------------------------------
(* The page's output grows. *)
Push(token) ==
  /\ pc = "decode"
  /\ Len(tokens) < MaxTokens
  /\ tokens' = Append(tokens, token)
  /\ asked' = 0
  /\ draft' = <<>>
  /\ UNCHANGED <<pc, index, indexed, history>>

(* NgramDrafter::propose is called. *)
Ask(limit) ==
  /\ pc = "decode"
  /\ pc' = "propose"
  /\ asked' = limit
  /\ draft' = <<>>
  /\ UNCHANGED <<page, history>>

(* Its loop: every occurrence that ends before the present is indexed. *)
Unindexed == indexed + 1 < Len(tokens)

IndexNext ==
  /\ pc = "propose"
  /\ Unindexed
  /\ indexed' = indexed + 1
  /\ index' = [g \in Grams |->
                 IF Len(g) <= indexed + 1 /\ Gram(tokens, indexed + 1, Len(g)) = g
                 THEN indexed + 1 ELSE index[g]]
  /\ UNCHANGED <<pc, tokens, history, asked, draft>>

Latest(n) == Gram(tokens, Len(tokens), n)
Lengths == {n \in MinMatch .. MAX_N : n <= Len(tokens)}

(* The document's tokens after position e, within their page. *)
RestOfPage(e, k) == \A i \in e + 1 .. e + k : i <= Len(document) /\ document[i] # SEPARATOR

OnPage(n) == index[Latest(n)] # 0
InHistory(n) ==
  /\ n = MAX_N
  /\ recent[Latest(n)] # 0
  /\ RestOfPage(recent[Latest(n)], 1)

(* The longest n-gram with an occurrence. *)
Followed(n) ==
  /\ OnPage(n) \/ InHistory(n)
  /\ \A m \in Lengths : OnPage(m) \/ InHistory(m) => m <= n

(* The tokens after position e, over and over when they reach the present.  *)
Cycle(e, limit) ==
  [j \in 1 .. limit |-> tokens[e + 1 + ((j - 1) % (Len(tokens) - e))]]

(* Its answer. *)
Answer ==
  /\ pc = "propose"
  /\ ~Unindexed
  /\ \/ /\ asked = 0 \/ \A n \in Lengths : ~OnPage(n) /\ ~InHistory(n)
        /\ draft' = <<>>
     \/ \E n \in Lengths :
          /\ asked # 0
          /\ Followed(n)
          /\ OnPage(n)
          /\ draft' = Cycle(index[Latest(n)], asked)
     \/ \E n \in Lengths, k \in 1 .. asked :
          /\ Followed(n)
          /\ ~OnPage(n)
          /\ RestOfPage(recent[Latest(n)], k)
          /\ k < asked => ~RestOfPage(recent[Latest(n)], k + 1)
          /\ draft' = [j \in 1 .. k |-> document[recent[Latest(n)] + j]]
  /\ pc' = "decode"
  /\ UNCHANGED <<page, history, asked>>

(* The page is finished: DocumentHistory::push_page. *)
PushPage ==
  /\ pc = "decode"
  /\ pages < MaxPages
  /\ document' = document \o <<SEPARATOR>> \o tokens
  /\ end' = Len(document) + 1 + MAX_N
  /\ pages' = pages + 1
  /\ pc' = "push_page"
  /\ UNCHANGED <<page, recent, asked, draft>>

\* Mutant of MoreEnds: the n-gram that ends the page is indexed too.
MoreEndsThanFollowed == end <= Len(document)

(* Positions with a token after them are left to index. *)
MoreEnds == end < Len(document)

IndexPage ==
  /\ pc = "push_page"
  /\ MoreEnds
  /\ recent' = [recent EXCEPT ![Gram(document, end, MAX_N)] = end]
  /\ end' = end + 1
  /\ UNCHANGED <<pc, page, document, pages, asked, draft>>

(* The next page gets a new drafter. *)
NextPage ==
  /\ pc' = "decode"
  /\ tokens' = <<>>
  /\ index' = [g \in Grams |-> 0]
  /\ indexed' = 0
  /\ asked' = 0
  /\ draft' = <<>>

PagePushed ==
  /\ pc = "push_page"
  /\ ~MoreEnds
  /\ NextPage
  /\ UNCHANGED history

(* DocumentHistory::clear, at the start of a run. *)
Clear ==
  /\ pc = "decode"
  /\ document' = <<>>
  /\ recent' = [g \in FullGrams |-> 0]
  /\ pages' = 0
  /\ NextPage
  /\ UNCHANGED end

Next ==
  \/ \E token \in Tokens : Push(token)
  \/ \E limit \in 0 .. MaxDraft : Ask(limit)
  \/ IndexNext
  \/ Answer
  \/ PushPage
  \/ IndexPage
  \/ PagePushed
  \/ Clear

Spec == Init /\ [][Next]_vars
------------------------------------------------------------------------------
(* Where the page's newest n tokens occurred before. *)
EarlierOnPage(n) == {e \in n .. Len(tokens) - 1 : Gram(tokens, e, n) = Latest(n)}

(* Where they occurred on an earlier page, with a token after them. *)
EarlierInDocument ==
  {e \in MAX_N .. Len(document) - 1 :
     Gram(document, e, MAX_N) = Latest(MAX_N) /\ document[e + 1] # SEPARATOR}

IsLatest(e, occurrences) == e \in occurrences /\ \A other \in occurrences : other <= e

(* "The tokens that followed the most recent earlier occurrence of the      *)
(* latest n tokens (n from MAX_N down to the minimum match)", repeated      *)
(* periodically, with earlier pages "for full MAX_N-token matches only" and *)
(* never across a page's end: what the incremental indexes find is what a   *)
(* search of the whole output would find.                                   *)
DraftsTheLatestMatch ==
  pc = "decode" /\ asked # 0 =>
    \/ /\ draft = <<>>
       /\ \A n \in Lengths : EarlierOnPage(n) = {}
       /\ MAX_N \in Lengths => EarlierInDocument = {}
    \/ \E n \in Lengths : \E e \in EarlierOnPage(n) :
         /\ IsLatest(e, EarlierOnPage(n))
         /\ \A m \in Lengths : m > n => EarlierOnPage(m) = {}
         /\ n < MAX_N /\ MAX_N \in Lengths => EarlierInDocument = {}
         /\ draft = Cycle(e, asked)
    \/ MAX_N \in Lengths /\ \E e \in EarlierInDocument :
         /\ EarlierOnPage(MAX_N) = {}
         /\ IsLatest(e, EarlierInDocument)
         /\ Len(draft) \in 1 .. asked
         /\ RestOfPage(e, Len(draft))
         /\ \A j \in DOMAIN draft : draft[j] = document[e + j]
         /\ Len(draft) < asked => ~RestOfPage(e, Len(draft) + 1)
=============================================================================
