---------------------------- MODULE DrafterProofs ----------------------------
(***************************************************************************)
(* Proofs about Drafter: for every vocabulary, n-gram length and page, the *)
(* incremental indexes propose what a search of the output would.          *)
(***************************************************************************)
EXTENDS Drafter, TLAPS

TypeOK ==
  /\ pc \in {"decode", "propose", "push_page"}
  /\ tokens \in Seq(Tokens)
  /\ index \in [Grams -> Nat]
  /\ indexed \in Nat
  /\ indexed = 0 \/ indexed < Len(tokens)
  /\ document \in Seq(Tokens \cup {SEPARATOR})
  /\ recent \in [FullGrams -> Nat]
  /\ end \in Nat
  /\ asked \in Nat

(* What a map holds for the occurrences it has seen. *)
LatestOf(e, occurrences) ==
  IF occurrences = {} THEN e = 0 ELSE IsLatest(e, occurrences)

(* The page's occurrences that are in the index. *)
PageEnds(g) == {e \in Len(g) .. indexed : Gram(tokens, e, Len(g)) = g}

IndexExact == \A g \in Grams : LatestOf(index[g], PageEnds(g))

(* While a page is pushed, the positions from `end` on are still to come,   *)
(* and the n-grams that end there lie within the page.                      *)
Reach == IF pc = "push_page" THEN end - 1 ELSE Len(document) - 1

WithinPage ==
  pc = "push_page" =>
    end > MAX_N /\ \A i \in 1 .. Len(document) : i > end - MAX_N => document[i] \in Tokens

DocumentEnds(g) ==
  {e \in MAX_N .. Len(document) - 1 :
     e <= Reach /\ Gram(document, e, MAX_N) = g /\ document[e + 1] # SEPARATOR}

RecentExact == \A g \in FullGrams : LatestOf(recent[g], DocumentEnds(g))

IInv == TypeOK /\ IndexExact /\ WithinPage /\ RecentExact /\ DraftsTheLatestMatch

(* The n-grams are sequences of their length. *)
LEMMA GramLength ==
  ASSUME NEW n \in 1 .. MAX_N, NEW g \in [1 .. n -> Tokens]
  PROVE  g \in Grams /\ Len(g) = n
<1>1. n \in Nat
  BY DrafterAssumption
<1>2. g \in Seq(Tokens) /\ Len(g) = n
  BY <1>1
<1>3. g \in Grams
  BY DEF Grams
<1>4. QED
  BY <1>2, <1>3

(* An n-gram is a sequence of one to MAX_N tokens. *)
LEMMA GramsAre ==
  ASSUME NEW g \in Grams
  PROVE  Len(g) \in 1 .. MAX_N /\ Len(g) \in Nat /\ g \in [1 .. Len(g) -> Tokens]
<1>1. PICK n \in 1 .. MAX_N : g \in [1 .. n -> Tokens]
  BY DEF Grams
<1>2. Len(g) = n /\ n \in Nat
  BY <1>1, GramLength, DrafterAssumption
<1>3. QED
  BY <1>1, <1>2

(* The document's index holds n-grams of the full length only. *)
LEMMA FullGramsAre ==
  ASSUME NEW g \in FullGrams
  PROVE  g \in Grams /\ Len(g) = MAX_N
<1>1. MAX_N \in 1 .. MAX_N
  BY DrafterAssumption
<1>2. QED
  BY <1>1, GramLength DEF FullGrams

(* A map that takes in the next occurrence stays exact. *)
LEMMA Inserted ==
  ASSUME NEW S \in SUBSET Nat, NEW e \in Nat, NEW x \in Nat,
         e # 0, \A other \in S : other < e, LatestOf(x, S)
  PROVE  LatestOf(e, S \cup {e})
BY DEF LatestOf, IsLatest

(* Empty indexes are exact. *)
LEMMA InitInv == Init => IInv
<1> SUFFICES ASSUME Init PROVE IInv
  OBVIOUS
<1>1. TypeOK
  BY DEF Init, TypeOK
<1>2. IndexExact
  <2> SUFFICES ASSUME NEW g \in Grams PROVE LatestOf(index[g], PageEnds(g))
    BY DEF IndexExact
  <2>1. PageEnds(g) = {}
    BY GramsAre DEF PageEnds, Init
  <2>2. index[g] = 0
    BY DEF Init
  <2>3. QED
    BY <2>1, <2>2 DEF LatestOf
<1>3. RecentExact
  <2> SUFFICES ASSUME NEW g \in FullGrams PROVE LatestOf(recent[g], DocumentEnds(g))
    BY DEF RecentExact
  <2>1. DocumentEnds(g) = {}
    BY DrafterAssumption DEF DocumentEnds, Init
  <2>2. recent[g] = 0
    BY DEF Init
  <2>3. QED
    BY <2>1, <2>2 DEF LatestOf
<1>4. WithinPage /\ DraftsTheLatestMatch
  BY DEF Init, WithinPage, DraftsTheLatestMatch
<1>5. QED
  BY <1>1, <1>2, <1>3, <1>4 DEF IInv

(* A step that leaves the page alone leaves its index exact. *)
LEMMA PageKept ==
  ASSUME IndexExact, tokens' = tokens, index' = index, indexed' = indexed
  PROVE  IndexExact'
<1> SUFFICES ASSUME NEW g \in Grams PROVE LatestOf(index[g], PageEnds(g))'
  BY DEF IndexExact, Grams
<1>1. PageEnds(g)' = PageEnds(g)
  BY DEF PageEnds, Gram
<1>2. LatestOf(index[g], PageEnds(g))
  BY DEF IndexExact
<1>3. QED
  BY <1>1, <1>2 DEF LatestOf, IsLatest

(* A new page begins with an empty output and an empty index. *)
LEMMA PageNew ==
  ASSUME NextPage
  PROVE  /\ IndexExact' /\ DraftsTheLatestMatch' /\ WithinPage'
         /\ tokens' \in Seq(Tokens) /\ index' \in [Grams -> Nat] /\ indexed' = 0
<1>1. IndexExact'
  <2> SUFFICES ASSUME NEW g \in Grams PROVE LatestOf(index[g], PageEnds(g))'
    BY DEF IndexExact, Grams
  <2>1. PageEnds(g)' = {}
    BY GramsAre DEF PageEnds, NextPage
  <2>2. index'[g] = 0
    BY DEF NextPage
  <2>3. QED
    BY <2>1, <2>2 DEF LatestOf
<1>2. QED
  BY <1>1 DEF NextPage, WithinPage, DraftsTheLatestMatch

(* A step of the page's decode leaves the document's index exact. *)
LEMMA DocumentKept ==
  ASSUME RecentExact, UNCHANGED history, pc # "push_page", pc' # "push_page"
  PROVE  RecentExact' /\ WithinPage'
<1>1. document' = document /\ recent' = recent
  BY DEF history
<1>2. RecentExact'
  <2> SUFFICES ASSUME NEW g \in FullGrams PROVE LatestOf(recent[g], DocumentEnds(g))'
    BY DEF RecentExact, FullGrams
  <2>1. DocumentEnds(g)' = DocumentEnds(g)
    BY <1>1 DEF DocumentEnds, Reach, Gram
  <2>2. LatestOf(recent[g], DocumentEnds(g))
    BY DEF RecentExact
  <2>3. QED
    BY <1>1, <2>1, <2>2 DEF LatestOf, IsLatest
<1>3. QED
  BY <1>2 DEF WithinPage
------------------------------------------------------------------------------
(* A push moves no index: what was seen ends before the present as before. *)
LEMMA PushInv ==
  ASSUME IInv, NEW token \in Tokens, Push(token)
  PROVE  IInv'
<1> USE DEF IInv
<1>1. TypeOK'
  BY DEF TypeOK, Push, history
<1>2. IndexExact'
  <2> SUFFICES ASSUME NEW g \in Grams PROVE LatestOf(index[g], PageEnds(g))'
    BY DEF IndexExact, Grams
  <2>1. Len(g) \in Nat /\ Len(g) >= 1
    BY GramsAre, DrafterAssumption
  <2>2. ASSUME NEW e \in Len(g) .. indexed
        PROVE  Gram(tokens, e, Len(g))' = Gram(tokens, e, Len(g))
    <3>1. e \in Nat /\ e <= Len(tokens) /\ tokens \in Seq(Tokens)
      BY <2>1 DEF TypeOK
    <3>2. \A i \in 1 .. Len(g) : e - Len(g) + i \in 1 .. Len(tokens)
      BY <2>1, <2>2, <3>1
    <3>3. \A i \in 1 .. Len(g) : tokens'[e - Len(g) + i] = tokens[e - Len(g) + i]
      BY <3>1, <3>2 DEF Push
    <3>4. QED
      BY <3>3 DEF Gram
  <2>3. PageEnds(g)' = PageEnds(g)
    BY <2>2 DEF PageEnds, Push
  <2>4. LatestOf(index[g], PageEnds(g))
    BY DEF IndexExact
  <2>5. QED
    BY <2>3, <2>4 DEF LatestOf, IsLatest, Push
<1>3. RecentExact' /\ WithinPage'
  BY DocumentKept DEF Push
<1>4. DraftsTheLatestMatch'
  BY DEF Push, DraftsTheLatestMatch
<1>5. QED
  BY <1>1, <1>2, <1>3, <1>4

(* Asking for a draft starts the loop that indexes what was pushed. *)
LEMMA AskInv ==
  ASSUME IInv, NEW limit \in 0 .. MaxDraft, Ask(limit)
  PROVE  IInv'
<1> USE DEF IInv
<1>1. TypeOK'
  BY DrafterAssumption DEF TypeOK, Ask, page, history
<1>2. IndexExact'
  BY PageKept DEF Ask, page
<1>3. RecentExact' /\ WithinPage'
  BY DocumentKept DEF Ask
<1>4. DraftsTheLatestMatch'
  BY DEF Ask, DraftsTheLatestMatch
<1>5. QED
  BY <1>1, <1>2, <1>3, <1>4

(* Indexing the next end: its n-grams' latest occurrences are now that one. *)
LEMMA IndexNextInv ==
  ASSUME IInv, IndexNext
  PROVE  IInv'
<1> USE DEF IInv
<1>1. TypeOK'
  <2>1. index' \in [Grams -> Nat]
    BY DEF TypeOK, IndexNext
  <2>2. indexed' \in Nat /\ indexed' < Len(tokens')
    BY DEF TypeOK, IndexNext, Unindexed
  <2>3. QED
    BY <2>1, <2>2 DEF TypeOK, IndexNext, history
<1>2. IndexExact'
  <2> SUFFICES ASSUME NEW g \in Grams PROVE LatestOf(index[g], PageEnds(g))'
    BY DEF IndexExact, Grams
  <2>1. Len(g) \in Nat /\ Len(g) >= 1 /\ indexed \in Nat /\ index[g] \in Nat
    BY GramsAre, DrafterAssumption DEF TypeOK
  <2>2. LatestOf(index[g], PageEnds(g))
    BY DEF IndexExact
  <2>3. CASE Len(g) <= indexed + 1 /\ Gram(tokens, indexed + 1, Len(g)) = g
    <3>1. index'[g] = indexed + 1
      BY <2>3 DEF IndexNext
    <3>2. PageEnds(g)' = PageEnds(g) \cup {indexed + 1}
      <4>1. PageEnds(g)' = {e \in Len(g) .. indexed + 1 : Gram(tokens, e, Len(g)) = g}
        BY DEF PageEnds, IndexNext, Gram
      <4>2. Len(g) .. indexed + 1 = (Len(g) .. indexed) \cup {indexed + 1}
        BY <2>1, <2>3
      <4>3. QED
        BY <2>3, <4>1, <4>2 DEF PageEnds
    <3>3. PageEnds(g) \in SUBSET Nat /\ \A other \in PageEnds(g) : other < indexed + 1
      BY <2>1 DEF PageEnds
    <3>4. LatestOf(indexed + 1, PageEnds(g) \cup {indexed + 1})
      BY <2>1, <2>2, <3>3, Inserted
    <3>5. QED
      BY <3>1, <3>2, <3>4 DEF LatestOf, IsLatest
  <2>4. CASE ~(Len(g) <= indexed + 1 /\ Gram(tokens, indexed + 1, Len(g)) = g)
    <3>1. index'[g] = index[g]
      BY <2>4 DEF IndexNext
    <3>2. PageEnds(g)' = PageEnds(g)
      <4>1. PageEnds(g)' = {e \in Len(g) .. indexed + 1 : Gram(tokens, e, Len(g)) = g}
        BY DEF PageEnds, IndexNext, Gram
      <4>2. \A e \in Len(g) .. indexed + 1 : e = indexed + 1 \/ e \in Len(g) .. indexed
        BY <2>1
      <4>3. \A e \in Len(g) .. indexed : e \in Len(g) .. indexed + 1
        BY <2>1
      <4>4. Gram(tokens, indexed + 1, Len(g)) = g => indexed + 1 \notin Len(g) .. indexed + 1
        BY <2>1, <2>4
      <4>5. QED
        BY <4>1, <4>2, <4>3, <4>4 DEF PageEnds
    <3>3. QED
      BY <2>2, <3>1, <3>2 DEF LatestOf, IsLatest
  <2>5. QED
    BY <2>3, <2>4
<1>3. RecentExact' /\ WithinPage'
  BY DocumentKept DEF IndexNext
<1>4. DraftsTheLatestMatch'
  BY DEF IndexNext, DraftsTheLatestMatch
<1>5. QED
  BY <1>1, <1>2, <1>3, <1>4

(* What the indexes hold once the loop of `propose` is done. *)
LEMMA LatestIsAGram ==
  ASSUME TypeOK, NEW n \in Lengths
  PROVE  n \in Nat /\ n \in 1 .. MAX_N /\ Latest(n) \in [1 .. n -> Tokens]
         /\ Latest(n) \in Grams /\ Len(Latest(n)) = n
<1>1. n \in Nat /\ n \in 1 .. MAX_N /\ n <= Len(tokens) /\ tokens \in Seq(Tokens)
  BY DrafterAssumption DEF Lengths, TypeOK
<1>2. \A i \in 1 .. n : Len(tokens) - n + i \in 1 .. Len(tokens)
  BY <1>1
<1>3. Latest(n) \in [1 .. n -> Tokens]
  BY <1>1, <1>2 DEF Latest, Gram
<1>4. QED
  BY <1>1, <1>3, GramLength

(* What the page's index answers is the latest earlier match of the page. *)
LEMMA PageLookup ==
  ASSUME TypeOK, IndexExact, ~Unindexed, NEW n \in Lengths
  PROVE  /\ OnPage(n) => IsLatest(index[Latest(n)], EarlierOnPage(n))
         /\ ~OnPage(n) => EarlierOnPage(n) = {}
<1>1. /\ n \in Nat /\ n >= 1 /\ n <= Len(tokens) /\ Len(tokens) \in Nat
      /\ Latest(n) \in Grams /\ Len(Latest(n)) = n
  BY LatestIsAGram, DrafterAssumption DEF Lengths, TypeOK
<1>2. indexed = Len(tokens) - 1
  BY <1>1 DEF TypeOK, Unindexed
<1>3. EarlierOnPage(n) = PageEnds(Latest(n))
  BY <1>1, <1>2 DEF EarlierOnPage, PageEnds
<1>4. LatestOf(index[Latest(n)], EarlierOnPage(n))
  BY <1>1, <1>3 DEF IndexExact
<1>5. 0 \notin EarlierOnPage(n)
  BY <1>1 DEF EarlierOnPage
<1>6. QED
  BY <1>4, <1>5 DEF LatestOf, IsLatest, OnPage

(* What the document's index answers is its latest earlier match. *)
LEMMA DocumentLookup ==
  ASSUME TypeOK, RecentExact, pc # "push_page", MAX_N \in Lengths
  PROVE  /\ InHistory(MAX_N) => IsLatest(recent[Latest(MAX_N)], EarlierInDocument)
         /\ ~InHistory(MAX_N) => EarlierInDocument = {}
<1>1. MAX_N \in Nat /\ MAX_N >= 1 /\ Latest(MAX_N) \in FullGrams /\ Len(document) \in Nat
  BY LatestIsAGram, DrafterAssumption DEF FullGrams, TypeOK
<1>2. EarlierInDocument = DocumentEnds(Latest(MAX_N))
  BY <1>1 DEF EarlierInDocument, DocumentEnds, Reach
<1>3. LatestOf(recent[Latest(MAX_N)], EarlierInDocument)
  BY <1>1, <1>2 DEF RecentExact
<1>4. 0 \notin EarlierInDocument
  BY <1>1 DEF EarlierInDocument
<1>5. \A e \in EarlierInDocument : RestOfPage(e, 1)
  BY <1>1 DEF EarlierInDocument, RestOfPage
<1>6. QED
  BY <1>3, <1>4, <1>5 DEF LatestOf, IsLatest, InHistory

(* The answer is what a search of the whole output would give. *)
LEMMA AnswerInv ==
  ASSUME IInv, Answer
  PROVE  IInv'
<1> USE DEF IInv
<1>1. TypeOK'
  BY DEF TypeOK, Answer, page, history
<1>2. IndexExact'
  BY PageKept DEF Answer, page
<1>3. RecentExact' /\ WithinPage'
  BY DocumentKept DEF Answer
<1>4. DraftsTheLatestMatch'
  <2>1. /\ tokens' = tokens /\ document' = document /\ asked' = asked
        /\ pc = "propose" /\ ~Unindexed /\ asked \in Nat
    BY DEF Answer, page, history, TypeOK
  <2>2. Lengths' = Lengths /\ EarlierInDocument' = EarlierInDocument
    BY <2>1 DEF Lengths, EarlierInDocument, Gram, Latest
  <2>3. \A n : EarlierOnPage(n)' = EarlierOnPage(n)
    BY <2>1 DEF EarlierOnPage, Gram, Latest
  <2>4. \A e, k : RestOfPage(e, k)' = RestOfPage(e, k)
    BY <2>1 DEF RestOfPage
  <2>5. \A e : Cycle(e, asked)' = Cycle(e, asked)
    BY <2>1 DEF Cycle
  <2>6. \A n \in Lengths : /\ n \in Nat /\ n <= MAX_N
                           /\ OnPage(n) => IsLatest(index[Latest(n)], EarlierOnPage(n))
                           /\ ~OnPage(n) => EarlierOnPage(n) = {}
    BY <2>1, PageLookup, LatestIsAGram, DrafterAssumption
  <2>7. MAX_N \in Lengths =>
          /\ InHistory(MAX_N) => IsLatest(recent[Latest(MAX_N)], EarlierInDocument)
          /\ ~InHistory(MAX_N) => EarlierInDocument = {}
    BY <2>1, DocumentLookup
  <2> SUFFICES ASSUME asked # 0
      PROVE \/ /\ draft' = <<>>
               /\ \A n \in Lengths : EarlierOnPage(n) = {}
               /\ MAX_N \in Lengths => EarlierInDocument = {}
            \/ \E n \in Lengths : \E e \in EarlierOnPage(n) :
                 /\ IsLatest(e, EarlierOnPage(n))
                 /\ \A m \in Lengths : m > n => EarlierOnPage(m) = {}
                 /\ n < MAX_N /\ MAX_N \in Lengths => EarlierInDocument = {}
                 /\ draft' = Cycle(e, asked)
            \/ MAX_N \in Lengths /\ \E e \in EarlierInDocument :
                 /\ EarlierOnPage(MAX_N) = {}
                 /\ IsLatest(e, EarlierInDocument)
                 /\ Len(draft') \in 1 .. asked
                 /\ RestOfPage(e, Len(draft'))
                 /\ \A j \in DOMAIN draft' : draft'[j] = document[e + j]
                 /\ Len(draft') < asked => ~RestOfPage(e, Len(draft') + 1)
    BY <2>1, <2>2, <2>3, <2>4, <2>5 DEF DraftsTheLatestMatch, IsLatest
  <2>8. CASE draft' = <<>> /\ \A n \in Lengths : ~OnPage(n) /\ ~InHistory(n)
    BY <2>6, <2>7, <2>8
  <2>9. ASSUME NEW n \in Lengths, Followed(n), OnPage(n),
               draft' = Cycle(index[Latest(n)], asked)
        PROVE  \E e \in EarlierOnPage(n) :
                 /\ IsLatest(e, EarlierOnPage(n))
                 /\ \A m \in Lengths : m > n => EarlierOnPage(m) = {}
                 /\ n < MAX_N /\ MAX_N \in Lengths => EarlierInDocument = {}
                 /\ draft' = Cycle(e, asked)
    <3>1. IsLatest(index[Latest(n)], EarlierOnPage(n))
      BY <2>6, <2>9
    <3>2. \A m \in Lengths : m > n => ~OnPage(m) /\ ~InHistory(m)
      BY <2>6, <2>9 DEF Followed
    <3>3. \A m \in Lengths : m > n => EarlierOnPage(m) = {}
      BY <2>6, <3>2
    <3>4. n < MAX_N /\ MAX_N \in Lengths => EarlierInDocument = {}
      BY <2>6, <2>7, <3>2
    <3>5. QED
      BY <2>9, <3>1, <3>3, <3>4 DEF IsLatest
  <2>10. ASSUME NEW n \in Lengths, NEW k \in 1 .. asked, Followed(n), ~OnPage(n),
                RestOfPage(recent[Latest(n)], k),
                k < asked => ~RestOfPage(recent[Latest(n)], k + 1),
                draft' = [j \in 1 .. k |-> document[recent[Latest(n)] + j]]
         PROVE  MAX_N \in Lengths /\ \E e \in EarlierInDocument :
                 /\ EarlierOnPage(MAX_N) = {}
                 /\ IsLatest(e, EarlierInDocument)
                 /\ Len(draft') \in 1 .. asked
                 /\ RestOfPage(e, Len(draft'))
                 /\ \A j \in DOMAIN draft' : draft'[j] = document[e + j]
                 /\ Len(draft') < asked => ~RestOfPage(e, Len(draft') + 1)
    <3>1. n = MAX_N /\ InHistory(n)
      BY <2>10 DEF Followed, InHistory
    <3>2. EarlierOnPage(MAX_N) = {} /\ IsLatest(recent[Latest(MAX_N)], EarlierInDocument)
      BY <2>6, <2>7, <2>10, <3>1
    <3>3. k \in Nat /\ Len(draft') = k /\ DOMAIN draft' = 1 .. k
      BY <2>1, <2>10
    <3>4. \A j \in DOMAIN draft' : draft'[j] = document[recent[Latest(MAX_N)] + j]
      BY <2>10, <3>1, <3>3
    <3>5. QED
      BY <2>10, <3>1, <3>2, <3>3, <3>4 DEF IsLatest
  <2>11. QED
    BY <2>8, <2>9, <2>10 DEF Answer
<1>5. QED
  BY <1>1, <1>2, <1>3, <1>4
------------------------------------------------------------------------------
(* The document's index. *)
LEMMA PushPageInv ==
  ASSUME IInv, PushPage
  PROVE  IInv'
<1> USE DEF IInv
<1> DEFINE before == Len(document)
<1>1. /\ before \in Nat /\ MAX_N \in Nat /\ MAX_N >= 1
      /\ document \in Seq(Tokens \cup {SEPARATOR}) /\ tokens \in Seq(Tokens)
      /\ pc = "decode" /\ SEPARATOR \notin Tokens
  BY DrafterAssumption DEF TypeOK, PushPage
<1>2. /\ document' \in Seq(Tokens \cup {SEPARATOR})
      /\ Len(document') = before + 1 + Len(tokens)
      /\ \A i \in 1 .. before : document'[i] = document[i]
      /\ document'[before + 1] = SEPARATOR
      /\ \A i \in before + 2 .. Len(document') : document'[i] \in Tokens
  BY <1>1 DEF PushPage
<1>3. TypeOK'
  BY <1>1, <1>2 DEF TypeOK, PushPage, page
<1>4. IndexExact'
  BY PageKept DEF PushPage, page
<1>5. WithinPage'
  <2>1. end' = before + 1 + MAX_N
    BY DEF PushPage
  <2>2. QED
    BY <1>1, <1>2, <2>1 DEF WithinPage
<1>6. RecentExact'
  <2> SUFFICES ASSUME NEW g \in FullGrams PROVE LatestOf(recent[g], DocumentEnds(g))'
    BY DEF RecentExact, FullGrams
  <2>1. Reach' = before + MAX_N /\ Reach = before - 1
    BY <1>1 DEF PushPage, Reach
  <2>2. ASSUME NEW e \in MAX_N .. before - 1
        PROVE  /\ Gram(document', e, MAX_N) = Gram(document, e, MAX_N)
               /\ document'[e + 1] = document[e + 1]
    <3>1. \A i \in 1 .. MAX_N : e - MAX_N + i \in 1 .. before
      BY <1>1
    <3>2. e + 1 \in 1 .. before
      BY <1>1
    <3>3. QED
      BY <1>2, <3>1, <3>2 DEF Gram
  <2>3. ASSUME NEW e \in before .. Len(document') - 1, e >= MAX_N, e <= Reach',
               Gram(document', e, MAX_N) = g
        PROVE  document'[e + 1] = SEPARATOR
    <3>1. CASE e = before
      BY <1>2, <3>1
    <3>2. CASE e # before
      <4>1. before + 1 - e + MAX_N \in 1 .. MAX_N
        BY <1>1, <1>2, <2>1, <2>3, <3>2
      <4>2. g[before + 1 - e + MAX_N] \in Tokens
        BY <4>1 DEF FullGrams
      <4>3. g[before + 1 - e + MAX_N] = document'[e - MAX_N + (before + 1 - e + MAX_N)]
        BY <2>3, <4>1 DEF Gram
      <4>4. e - MAX_N + (before + 1 - e + MAX_N) = before + 1
        BY <1>1, <1>2
      <4>5. QED
        BY <1>1, <1>2, <4>2, <4>3, <4>4
    <3>3. QED
      BY <3>1, <3>2
  <2>4. DocumentEnds(g)' =
          {e \in MAX_N .. Len(document') - 1 :
             /\ e <= Reach'
             /\ Gram(document', e, MAX_N) = g
             /\ document'[e + 1] # SEPARATOR}
    BY DEF DocumentEnds, Gram
  <2>5. DocumentEnds(g)' =
          {e \in MAX_N .. before - 1 :
             /\ e <= Reach'
             /\ Gram(document', e, MAX_N) = g
             /\ document'[e + 1] # SEPARATOR}
    <3>1. \A e \in MAX_N .. Len(document') - 1 :
            e \in MAX_N .. before - 1 \/ e \in before .. Len(document') - 1
      BY <1>1, <1>2
    <3>2. \A e \in MAX_N .. before - 1 : e \in MAX_N .. Len(document') - 1
      BY <1>1, <1>2
    <3>3. ASSUME NEW e \in MAX_N .. Len(document') - 1, e <= Reach',
                 Gram(document', e, MAX_N) = g, document'[e + 1] # SEPARATOR
          PROVE  e \in MAX_N .. before - 1
      <4>1. CASE e \in before .. Len(document') - 1
        <5>1. e >= MAX_N
          BY <1>1
        <5>2. QED
          BY <2>3, <3>3, <4>1, <5>1
      <4>2. QED
        BY <3>1, <4>1
    <3>4. QED
      BY <2>4, <3>2, <3>3
  <2>6. DocumentEnds(g)' = DocumentEnds(g)
    <3>1. \A e \in MAX_N .. before - 1 : e <= Reach' /\ e <= Reach
      BY <1>1, <2>1
    <3>2. QED
      BY <2>2, <2>5, <3>1 DEF DocumentEnds
  <2>7. LatestOf(recent[g], DocumentEnds(g)) /\ recent' = recent
    BY DEF RecentExact, PushPage
  <2>8. QED
    BY <2>6, <2>7 DEF LatestOf, IsLatest
<1>7. DraftsTheLatestMatch'
  BY DEF PushPage, DraftsTheLatestMatch
<1>8. QED
  BY <1>3, <1>4, <1>5, <1>6, <1>7

(* Indexing the next position of a page pushed onto the document. *)
LEMMA IndexPageInv ==
  ASSUME IInv, IndexPage
  PROVE  IInv'
<1> USE DEF IInv
<1> DEFINE latest == Gram(document, end, MAX_N)
<1>1. /\ Len(document) \in Nat /\ MAX_N \in Nat /\ MAX_N >= 1 /\ end \in Nat
      /\ pc = "push_page" /\ pc' = pc /\ document' = document /\ end' = end + 1
      /\ SEPARATOR \notin Tokens /\ end > MAX_N /\ end < Len(document)
  BY DrafterAssumption DEF TypeOK, IndexPage, WithinPage, MoreEnds
<1>2. \A i \in 1 .. Len(document) : i > end - MAX_N => document[i] \in Tokens
  BY <1>1 DEF WithinPage
<1>3. latest \in FullGrams
  <2>1. \A i \in 1 .. MAX_N : end - MAX_N + i \in 1 .. Len(document) /\ end - MAX_N + i > end - MAX_N
    BY <1>1
  <2>2. QED
    BY <1>2, <2>1 DEF Gram, FullGrams
<1>4. document[end + 1] # SEPARATOR
  BY <1>1, <1>2
<1>5. TypeOK'
  <2>1. recent' \in [FullGrams -> Nat]
    BY <1>1 DEF TypeOK, IndexPage
  <2>2. QED
    BY <1>1, <2>1 DEF TypeOK, IndexPage, page
<1>6. IndexExact'
  BY PageKept DEF IndexPage, page
<1>7. WithinPage'
  BY <1>1, <1>2 DEF WithinPage
<1>8. RecentExact'
  <2> SUFFICES ASSUME NEW g \in FullGrams PROVE LatestOf(recent[g], DocumentEnds(g))'
    BY DEF RecentExact, FullGrams
  <2>1. DocumentEnds(g)' =
          {e \in MAX_N .. Len(document) - 1 :
             e <= end /\ Gram(document, e, MAX_N) = g /\ document[e + 1] # SEPARATOR}
    BY <1>1 DEF DocumentEnds, Gram, Reach
  <2>2. DocumentEnds(g) =
          {e \in MAX_N .. Len(document) - 1 :
             e < end /\ Gram(document, e, MAX_N) = g /\ document[e + 1] # SEPARATOR}
    BY <1>1 DEF DocumentEnds, Reach
  <2>3. LatestOf(recent[g], DocumentEnds(g))
    BY DEF RecentExact
  <2>4. recent' = [recent EXCEPT ![latest] = end] /\ recent \in [FullGrams -> Nat]
    BY DEF IndexPage, TypeOK
  <2>5. end \in MAX_N .. Len(document) - 1
    BY <1>1
  <2>6. CASE g = latest
    <3>1. DocumentEnds(g)' = DocumentEnds(g) \cup {end}
      BY <1>1, <1>4, <2>1, <2>2, <2>5, <2>6
    <3>2. DocumentEnds(g) \in SUBSET Nat /\ \A other \in DocumentEnds(g) : other < end
      BY <1>1, <2>2
    <3>3. LatestOf(end, DocumentEnds(g) \cup {end})
      BY <1>1, <2>3, <2>4, <3>2, Inserted
    <3>4. QED
      BY <2>4, <2>6, <3>1, <3>3 DEF LatestOf, IsLatest
  <2>7. CASE g # latest
    <3>1. DocumentEnds(g)' = DocumentEnds(g)
      BY <1>1, <2>1, <2>2, <2>7
    <3>2. QED
      BY <2>3, <2>4, <2>7, <3>1 DEF LatestOf, IsLatest
  <2>8. QED
    BY <2>6, <2>7
<1>9. DraftsTheLatestMatch'
  BY <1>1 DEF DraftsTheLatestMatch
<1>10. QED
  BY <1>5, <1>6, <1>7, <1>8, <1>9

(* After the loop the whole of the document is indexed. *)
LEMMA PagePushedInv ==
  ASSUME IInv, PagePushed
  PROVE  IInv'
<1> USE DEF IInv
<1>1. /\ IndexExact' /\ DraftsTheLatestMatch' /\ WithinPage'
      /\ tokens' \in Seq(Tokens) /\ index' \in [Grams -> Nat] /\ indexed' = 0
  BY PageNew DEF PagePushed
<1>2. TypeOK'
  BY <1>1 DEF TypeOK, PagePushed, NextPage, history
<1>3. RecentExact'
  <2> SUFFICES ASSUME NEW g \in FullGrams PROVE LatestOf(recent[g], DocumentEnds(g))'
    BY DEF RecentExact, FullGrams
  <2>1. /\ document' = document /\ recent' = recent /\ end >= Len(document)
        /\ pc = "push_page" /\ pc' = "decode" /\ Len(document) \in Nat /\ end \in Nat
        /\ MAX_N \in Nat
    BY DrafterAssumption DEF PagePushed, NextPage, history, MoreEnds, TypeOK
  <2>2. \A e \in MAX_N .. Len(document) - 1 : e <= Reach /\ (e <= Reach)'
    BY <2>1 DEF Reach
  <2>3. DocumentEnds(g)' = DocumentEnds(g)
    BY <2>1, <2>2 DEF DocumentEnds, Gram
  <2>4. LatestOf(recent[g], DocumentEnds(g))
    BY DEF RecentExact
  <2>5. QED
    BY <2>1, <2>3, <2>4 DEF LatestOf, IsLatest
<1>4. QED
  BY <1>1, <1>2, <1>3

(* A cleared document has nothing to find. *)
LEMMA ClearInv ==
  ASSUME IInv, Clear
  PROVE  IInv'
<1> USE DEF IInv
<1>1. /\ IndexExact' /\ DraftsTheLatestMatch' /\ WithinPage'
      /\ tokens' \in Seq(Tokens) /\ index' \in [Grams -> Nat] /\ indexed' = 0
  BY PageNew DEF Clear
<1>2. TypeOK'
  BY <1>1 DEF TypeOK, Clear, NextPage
<1>3. RecentExact'
  <2> SUFFICES ASSUME NEW g \in FullGrams PROVE LatestOf(recent[g], DocumentEnds(g))'
    BY DEF RecentExact, FullGrams
  <2>1. DocumentEnds(g)' = {}
    BY DrafterAssumption DEF DocumentEnds, Clear
  <2>2. recent'[g] = 0
    BY DEF Clear
  <2>3. QED
    BY <2>1, <2>2 DEF LatestOf
<1>4. QED
  BY <1>1, <1>2, <1>3
------------------------------------------------------------------------------
(* Every step keeps the indexes exact. *)
LEMMA NextInv ==
  ASSUME IInv, [Next]_vars
  PROVE  IInv'
<1>1. CASE UNCHANGED vars
  <2>1. /\ pc' = pc /\ asked' = asked /\ draft' = draft
        /\ tokens' = tokens /\ index' = index /\ indexed' = indexed
        /\ document' = document /\ recent' = recent /\ end' = end
    BY <1>1 DEF vars, page, history
  <2>2. TypeOK'
    BY <2>1 DEF IInv, TypeOK
  <2>3. IndexExact'
    BY <2>1, PageKept DEF IInv
  <2>4. WithinPage'
    BY <2>1 DEF IInv, WithinPage
  <2>5. RecentExact'
    <3> SUFFICES ASSUME NEW g \in FullGrams PROVE LatestOf(recent[g], DocumentEnds(g))'
      BY DEF RecentExact, FullGrams
    <3>1. DocumentEnds(g)' = DocumentEnds(g)
      BY <2>1 DEF DocumentEnds, Gram, Reach
    <3>2. LatestOf(recent[g], DocumentEnds(g))
      BY DEF IInv, RecentExact
    <3>3. QED
      BY <2>1, <3>1, <3>2 DEF LatestOf, IsLatest
  <2>6. DraftsTheLatestMatch'
    <3>1. Lengths' = Lengths /\ EarlierInDocument' = EarlierInDocument
      BY <2>1 DEF Lengths, EarlierInDocument, Gram, Latest
    <3>2. \A n : EarlierOnPage(n)' = EarlierOnPage(n)
      BY <2>1 DEF EarlierOnPage, Gram, Latest
    <3>3. \A e, k : RestOfPage(e, k)' = RestOfPage(e, k)
      BY <2>1 DEF RestOfPage
    <3>4. \A e : Cycle(e, asked)' = Cycle(e, asked)
      BY <2>1 DEF Cycle
    <3>5. QED
      BY <2>1, <3>1, <3>2, <3>3, <3>4 DEF IInv, DraftsTheLatestMatch, IsLatest
  <2>7. QED
    BY <2>2, <2>3, <2>4, <2>5, <2>6 DEF IInv
<1>2. CASE Next
  BY <1>2, PushInv, AskInv, IndexNextInv, AnswerInv, PushPageInv, IndexPageInv,
     PagePushedInv, ClearInv DEF Next
<1>3. QED
  BY <1>1, <1>2

(* Whatever the page and the pages before it hold, a draft continues the    *)
(* latest earlier occurrence of the longest of the page's newest n-grams,   *)
(* and there is no draft only if a search of the output finds none.         *)
THEOREM DraftsWhatASearchWouldFind == Spec => []DraftsTheLatestMatch
<1>1. IInv => DraftsTheLatestMatch
  BY DEF IInv
<1>2. QED
  BY InitInv, NextInv, <1>1, PTL DEF Spec
=============================================================================
