---------------------------- MODULE RunJobProofs ----------------------------
(***************************************************************************)
(* Proofs about RunJob, for any number of pages, runs and power losses:    *)
(* what the repair of the records file keeps, what a run adds to it, and   *)
(* that the near-exact model is loaded once a run.                         *)
(***************************************************************************)
EXTENDS RunJob, FiniteSetTheorems, SequenceTheorems, TLAPS

Outcome == {"text", "error"}

(* What a file is made of. *)
Piece ==
  {Start(p, o) : p \in Pages, o \in Outcome}
    \cup {Rest(p, o) : p \in Pages, o \in Outcome}
    \cup {Newline, NUL}

(* Where a page has a successful record, and how many pages Successes has.  *)
Where(text, p) ==
  {i \in 2 .. Len(text) :
     /\ text[i] = Rest(p, "text")
     /\ text[i - 1] = Start(p, "text")
     /\ i = Len(text) \/ text[i + 1] = Newline
     /\ \E k \in 1 .. i - 1 :
          /\ k = 1 \/ text[k - 1] = Newline
          /\ \A m \in k .. i - 2 : text[m] = NUL}

(* New records start on a line of their own. *)
Closed(text) == text = <<>> \/ text[Len(text)] = Newline

StartsLine(text, a) == a = 1 \/ text[a - 1] = Newline

(* Every line begins with a record, as far as the text or a NUL lets it go: *)
(* nothing else follows on its line.                                        *)
Clean(text) ==
  \A a \in 1 .. Len(text) : StartsLine(text, a) =>
    \/ text[a] \in {Newline, NUL}
    \/ \E p \in Pages, o \in Outcome :
         /\ text[a] = Start(p, o)
         /\ a + 1 <= Len(text) =>
              \/ text[a + 1] = NUL
              \/ /\ text[a + 1] = Rest(p, o)
                 /\ a + 2 <= Len(text) => text[a + 2] \in {NUL, Newline}
------------------------------------------------------------------------------
(* The pieces are told apart. *)
LEMMA Kinds ==
  /\ Newline.part = "newline" /\ NUL.part = "nul" /\ Newline # NUL
  /\ \A p, o : /\ Start(p, o).part = "start" /\ Start(p, o).of = <<p, o>>
               /\ Rest(p, o).part = "rest" /\ Rest(p, o).of = <<p, o>>
               /\ Rest(p, o) = [Start(p, o) EXCEPT !.part = "rest"]
               /\ Start(p, o) # Newline /\ Start(p, o) # NUL
               /\ Rest(p, o) # Newline /\ Rest(p, o) # NUL
  /\ \A p, o, q, r : Start(p, o) # Rest(q, r)
  /\ \A p, o, q, r : Rest(p, o) = Rest(q, r) => p = q /\ o = r
BY DEF Newline, NUL, Start, Rest

(* What the first part of a record is followed by when it is a record. *)
LEMMA PieceIs ==
  ASSUME NEW x \in Piece
  PROVE  /\ x.part = "start" =>
              \E p \in Pages, o \in Outcome :
                x = Start(p, o) /\ [x EXCEPT !.part = "rest"] = Rest(p, o)
         /\ x.part \in {"start", "rest", "newline", "nul"}
         /\ x.part = "newline" <=> x = Newline
         /\ x.part = "nul" <=> x = NUL
BY Kinds DEF Piece

(* Whether a record ends at i is told by the text up to i and by what comes *)
(* after it.                                                                *)
LEMMA SameWhere ==
  ASSUME NEW t \in Seq(Piece), NEW u \in Seq(Piece), NEW p,
         NEW i \in 1 .. Len(t), i <= Len(u),
         \A m \in 1 .. i : u[m] = t[m],
         (i = Len(t) \/ t[i + 1] = Newline) <=> (i = Len(u) \/ u[i + 1] = Newline)
  PROVE  i \in Where(t, p) <=> i \in Where(u, p)
<1>1. i \in Nat /\ Len(t) \in Nat /\ Len(u) \in Nat
  BY LenProperties
<1>2. i \in 2 .. Len(t) <=> i \in 2 .. Len(u)
  BY <1>1
<1>3. ASSUME i \in 2 .. Len(t)
      PROVE  /\ u[i] = t[i] /\ u[i - 1] = t[i - 1]
             /\ \A k \in 1 .. i - 1 : (k = 1 \/ t[k - 1] = Newline) <=> (k = 1 \/ u[k - 1] = Newline)
             /\ \A k \in 1 .. i - 1 : \A m \in k .. i - 2 : u[m] = t[m]
  BY <1>1, <1>3
<1> QED
  BY <1>2, <1>3 DEF Where

(* A record ends with its rest. *)
LEMMA WhereIsRest ==
  ASSUME NEW t, NEW p, NEW i \in Where(t, p)
  PROVE  i \in 2 .. Len(t) /\ t[i] = Rest(p, "text")
BY DEF Where

(* A page's records are the lines that are read back as such. *)
LEMMA WhereIsRecord ==
  ASSUME NEW t \in Seq(Piece), NEW p, NEW i \in Where(t, p)
  PROVE  \E k \in 1 .. i - 1 : /\ <<k, i>> \in Records(t)
                               /\ t[i].of = <<p, "text">>
                               /\ \A m \in k .. i : t[m] # Newline
<1>1. /\ i \in 2 .. Len(t) /\ Len(t) \in Nat
      /\ t[i] = Rest(p, "text") /\ t[i - 1] = Start(p, "text")
      /\ i = Len(t) \/ t[i + 1] = Newline
  BY LenProperties DEF Where
<1>2. PICK k \in 1 .. i - 1 :
         /\ k = 1 \/ t[k - 1] = Newline
         /\ \A m \in k .. i - 2 : t[m] = NUL
  BY DEF Where
<1> DEFINE l == <<k, i>>
<1>3. l \in (1 .. Len(t)) \X (0 .. Len(t)) /\ l[1] = k /\ l[2] = i /\ k <= i + 1 /\ i > k - 1
  BY <1>1, <1>2
<1>4. \A m \in k .. i : t[m] # Newline
  <2> TAKE m \in k .. i
  <2>1. m \in k .. i - 2 \/ m = i - 1 \/ m = i
    BY <1>1
  <2> QED
    BY <1>1, <1>2, <2>1, Kinds
<1>5. l \in Lines(t)
  BY <1>1, <1>2, <1>3, <1>4 DEF Lines
<1>6. IsRecord(t, l)
  BY <1>1, <1>2, <1>3, Kinds DEF IsRecord
<1>7. <<k, i>> \in Records(t)
  BY <1>5, <1>6 DEF Records
<1>8. t[i].of = <<p, "text">>
  BY <1>1, Kinds
<1> QED
  BY <1>4, <1>7, <1>8

(* A successful record among the lines is one of its page's places. *)
LEMMA RecordIsWhere ==
  ASSUME NEW t \in Seq(Piece), NEW l \in Records(t), t[l[2]].of[2] = "text"
  PROVE  l[2] \in Where(t, t[l[2]].of[1])
<1>1. /\ l[1] \in 1 .. Len(t) /\ l[2] \in 0 .. Len(t) /\ Len(t) \in Nat
      /\ l[1] = 1 \/ t[l[1] - 1] = Newline
      /\ l[2] = Len(t) \/ t[l[2] + 1] = Newline
      /\ l[2] > l[1]
      /\ t[l[2] - 1].part = "start"
      /\ t[l[2]] = [t[l[2] - 1] EXCEPT !.part = "rest"]
      /\ \A m \in l[1] .. l[2] - 2 : t[m] = NUL
  BY LenProperties DEF Records, Lines, IsRecord
<1>2. l[2] \in 2 .. Len(t) /\ l[2] - 1 \in 1 .. Len(t) /\ l[1] \in 1 .. l[2] - 1
  BY <1>1
<1>3. t[l[2] - 1] \in Piece
  BY <1>2, ElementOfSeq
<1>4. PICK p \in Pages, o \in Outcome : t[l[2] - 1] = Start(p, o) /\ t[l[2]] = Rest(p, o)
  BY <1>1, <1>3, PieceIs
<1>5. o = "text" /\ t[l[2]].of[1] = p
  BY <1>4, Kinds
<1> QED
  BY <1>1, <1>2, <1>4, <1>5 DEF Where

(* Existing.done: the pages with a successful record, and no others. *)
LEMMA DoneIsWhere ==
  ASSUME NEW t \in Seq(Piece), NEW p
  PROVE  p \in Done(t) <=> Where(t, p) # {}
<1>1. ASSUME NEW i \in Where(t, p) PROVE p \in Done(t)
  <2>1. PICK k \in 1 .. i - 1 : <<k, i>> \in Records(t) /\ t[i].of = <<p, "text">>
    BY WhereIsRecord
  <2>2. t[<<k, i>>[2]].of[1] = p /\ t[<<k, i>>[2]].of[2] = "text"
    BY <2>1
  <2> QED
    BY <2>1, <2>2 DEF Done
<1>2. ASSUME p \in Done(t) PROVE Where(t, p) # {}
  BY <1>2, RecordIsWhere DEF Done
<1> QED
  BY <1>1, <1>2
------------------------------------------------------------------------------
(* Cutting a text short, or putting NULs in it, leaves it clean. *)
LEMMA CleanPart ==
  ASSUME NEW t \in Seq(Piece), NEW u \in Seq(Piece), Clean(t), Len(u) <= Len(t),
         \A i \in 1 .. Len(u) : u[i] = t[i] \/ u[i] = NUL
  PROVE  Clean(u)
<1>1. Len(t) \in Nat /\ Len(u) \in Nat
  BY LenProperties
<1> SUFFICES ASSUME NEW a \in 1 .. Len(u), StartsLine(u, a), u[a] \notin {Newline, NUL}
             PROVE  \E p \in Pages, o \in Outcome :
                      /\ u[a] = Start(p, o)
                      /\ a + 1 <= Len(u) =>
                           \/ u[a + 1] = NUL
                           \/ /\ u[a + 1] = Rest(p, o)
                              /\ a + 2 <= Len(u) => u[a + 2] \in {NUL, Newline}
  BY DEF Clean
<1>2. a \in 1 .. Len(t) /\ u[a] = t[a]
  BY <1>1
<1>3. StartsLine(t, a)
  <2>1. a = 1 \/ (a - 1 \in 1 .. Len(u) /\ u[a - 1] = Newline)
    BY <1>1 DEF StartsLine
  <2> QED
    BY <2>1, Kinds DEF StartsLine
<1>4. PICK p \in Pages, o \in Outcome :
         /\ t[a] = Start(p, o)
         /\ a + 1 <= Len(t) =>
              \/ t[a + 1] = NUL
              \/ /\ t[a + 1] = Rest(p, o)
                 /\ a + 2 <= Len(t) => t[a + 2] \in {NUL, Newline}
  BY <1>2, <1>3 DEF Clean
<1>5. ASSUME a + 1 <= Len(u)
      PROVE  /\ u[a + 1] = t[a + 1] \/ u[a + 1] = NUL
             /\ a + 1 <= Len(t)
             /\ a + 2 <= Len(u) => a + 2 <= Len(t) /\ (u[a + 2] = t[a + 2] \/ u[a + 2] = NUL)
  BY <1>1, <1>5
<1> QED
  BY <1>2, <1>4, <1>5

(* A clean text after a closed one. *)
LEMMA CleanConcat ==
  ASSUME NEW t \in Seq(Piece), NEW s \in Seq(Piece), Clean(t), Closed(t), Clean(s)
  PROVE  Clean(t \o s)
<1> DEFINE u == t \o s
           n == Len(t)
<1>1. n \in Nat /\ Len(s) \in Nat
  BY LenProperties
<1>2. /\ u \in Seq(Piece) /\ Len(u) = n + Len(s)
      /\ \A i \in 1 .. n : u[i] = t[i]
      /\ \A i \in 1 .. Len(s) : u[n + i] = s[i]
  BY ConcatProperties
<1>3. n = 0 \/ (n > 0 /\ t[n] = Newline)
  BY <1>1, EmptySeq DEF Closed
<1> HIDE DEF u, n
<1> SUFFICES ASSUME NEW a \in 1 .. Len(u), StartsLine(u, a), u[a] \notin {Newline, NUL}
             PROVE  \E p \in Pages, o \in Outcome :
                      /\ u[a] = Start(p, o)
                      /\ a + 1 <= Len(u) =>
                           \/ u[a + 1] = NUL
                           \/ /\ u[a + 1] = Rest(p, o)
                              /\ a + 2 <= Len(u) => u[a + 2] \in {NUL, Newline}
  BY DEF Clean, u
<1>4. CASE a <= n
  <2>1. a \in 1 .. n /\ a # n
    BY <1>1, <1>2, <1>3, <1>4
  <2>2. u[a] = t[a] /\ u[a + 1] = t[a + 1] /\ a + 1 <= n
    BY <1>1, <1>2, <2>1
  <2>3. StartsLine(t, a)
    BY <1>1, <1>2, <2>1 DEF StartsLine
  <2>4. PICK p \in Pages, o \in Outcome :
           /\ t[a] = Start(p, o)
           /\ \/ t[a + 1] = NUL
              \/ /\ t[a + 1] = Rest(p, o)
                 /\ a + 2 <= n => t[a + 2] \in {NUL, Newline}
    BY <2>1, <2>2, <2>3 DEF Clean, n
  <2>5. CASE t[a + 1] = NUL
    BY <2>2, <2>4, <2>5
  <2>6. CASE t[a + 1] = Rest(p, o) /\ (a + 2 <= n => t[a + 2] \in {NUL, Newline})
    <3>1. a + 1 # n
      BY <1>3, <2>1, <2>6, Kinds
    <3>2. a + 2 <= n /\ u[a + 2] = t[a + 2]
      BY <1>1, <1>2, <2>1, <2>2, <3>1
    <3> QED
      BY <2>2, <2>4, <2>6, <3>2
  <2> QED
    BY <2>4, <2>5, <2>6
<1>5. CASE a > n
  <2> DEFINE b == a - n
  <2>1. b \in 1 .. Len(s) /\ a = n + b
    BY <1>1, <1>2, <1>5
  <2>2. StartsLine(s, b)
    <3>1. CASE b = 1
      BY <3>1 DEF StartsLine
    <3>2. CASE b # 1
      <4>1. b - 1 \in 1 .. Len(s) /\ a - 1 = n + (b - 1) /\ a # 1
        BY <1>1, <2>1, <3>2
      <4> QED
        BY <1>2, <4>1 DEF StartsLine
    <3> QED
      BY <3>1, <3>2
  <2>3. u[a] = s[b]
    BY <1>2, <2>1
  <2>4. PICK p \in Pages, o \in Outcome :
           /\ s[b] = Start(p, o)
           /\ b + 1 <= Len(s) =>
                \/ s[b + 1] = NUL
                \/ /\ s[b + 1] = Rest(p, o)
                   /\ b + 2 <= Len(s) => s[b + 2] \in {NUL, Newline}
    BY <2>1, <2>2, <2>3 DEF Clean
  <2>5. ASSUME a + 1 <= Len(u) PROVE b + 1 <= Len(s) /\ u[a + 1] = s[b + 1]
    <3>1. b + 1 \in 1 .. Len(s) /\ a + 1 = n + (b + 1)
      BY <1>1, <1>2, <2>1, <2>5
    <3> QED
      BY <1>2, <3>1
  <2>6. ASSUME a + 2 <= Len(u) PROVE b + 2 <= Len(s) /\ u[a + 2] = s[b + 2]
    <3>1. b + 2 \in 1 .. Len(s) /\ a + 2 = n + (b + 2)
      BY <1>1, <1>2, <2>1, <2>6
    <3> QED
      BY <1>2, <3>1
  <2> QED
    BY <2>3, <2>4, <2>5, <2>6
<1> QED
  BY <1>1, <1>2, <1>4, <1>5

(* What Existing.keep keeps: all of the text, or all but a last line that   *)
(* is cut.                                                                  *)
LEMMA KeepIs ==
  ASSUME NEW t \in Seq(Piece)
  PROVE  \/ Keep(t) = t /\ \A l \in Lines(t) : ~IsCut(t, l)
         \/ \E l \in Lines(t) :
              /\ IsCut(t, l)
              /\ l[1] \in 1 .. Len(t) /\ l[2] = Len(t) /\ l = <<l[1], l[2]>>
              /\ Keep(t) \in Seq(Piece)
              /\ Len(Keep(t)) = l[1] - 1
              /\ \A i \in 1 .. l[1] - 1 : Keep(t)[i] = t[i]
              /\ Closed(Keep(t))
<1>1. CASE \A l \in Lines(t) : ~IsCut(t, l)
  BY <1>1 DEF Keep
<1>2. CASE \E l \in Lines(t) : IsCut(t, l)
  <2> DEFINE l == CHOOSE ll \in Lines(t) : IsCut(t, ll)
             n == l[1] - 1
  <2>1. l \in Lines(t) /\ IsCut(t, l)
    BY <1>2
  <2>2. Keep(t) = SubSeq(t, 1, n)
    BY <1>2 DEF Keep
  <2> HIDE DEF l
  <2>3. /\ l[1] \in 1 .. Len(t) /\ l[2] = Len(t) /\ l = <<l[1], l[2]>>
        /\ l[1] = 1 \/ t[l[1] - 1] = Newline
        /\ Len(t) \in Nat
    BY <2>1, LenProperties DEF Lines, IsCut, Unterminated
  <2>4. n \in 0 .. Len(t) /\ n \in Nat
    BY <2>3
  <2> HIDE DEF n
  <2>5. \A i \in 1 .. n : t[i] \in Piece
    BY <2>3, <2>4, ElementOfSeq
  <2>6. /\ SubSeq(t, 1, n) \in Seq(Piece)
        /\ Len(SubSeq(t, 1, n)) = n
        /\ \A i \in 1 .. n : SubSeq(t, 1, n)[i] = t[i]
    BY <2>3, <2>4, <2>5, SubSeqProperties
  <2>7. Closed(SubSeq(t, 1, n))
    <3>1. CASE n = 0
      BY <2>6, <3>1, EmptySeq DEF Closed
    <3>2. CASE n > 0
      BY <2>3, <2>4, <2>6, <3>2 DEF Closed, n
    <3> QED
      BY <2>4, <3>1, <3>2
  <2> QED
    BY <2>1, <2>2, <2>3, <2>6, <2>7 DEF n
<1> QED
  BY <1>1, <1>2

(* The repair cuts no successful record away. *)
LEMMA KeepWhere ==
  ASSUME NEW t \in Seq(Piece), NEW p
  PROVE  Where(Keep(t), p) = Where(t, p)
<1> SUFFICES ASSUME NEW l \in Lines(t),
                    IsCut(t, l),
                    l[1] \in 1 .. Len(t), l[2] = Len(t), l = <<l[1], l[2]>>,
                    Keep(t) \in Seq(Piece),
                    Len(Keep(t)) = l[1] - 1,
                    \A i \in 1 .. l[1] - 1 : Keep(t)[i] = t[i],
                    Closed(Keep(t))
             PROVE  Where(Keep(t), p) = Where(t, p)
  BY KeepIs
<1> DEFINE u == Keep(t)
           n == l[1] - 1
<1>1. /\ u \in Seq(Piece) /\ Len(u) = n /\ n \in Nat /\ n < Len(t) /\ Len(t) \in Nat
      /\ \A i \in 1 .. n : u[i] = t[i]
      /\ n = 0 \/ (n > 0 /\ u[n] = Newline)
  BY LenProperties, EmptySeq DEF Closed
<1> HIDE DEF u, n
<1>2. \A i \in 1 .. n - 1 : i \in Where(t, p) <=> i \in Where(u, p)
  <2> TAKE i \in 1 .. n - 1
  <2>1. /\ i \in 1 .. Len(t) /\ i <= Len(u) /\ \A m \in 1 .. i : u[m] = t[m]
        /\ (i = Len(t) \/ t[i + 1] = Newline) <=> (i = Len(u) \/ u[i + 1] = Newline)
    BY <1>1
  <2> QED
    BY <1>1, <2>1, SameWhere
<1>3. \A i \in Where(u, p) : i \in 1 .. n - 1
  BY <1>1, WhereIsRest, Kinds
<1>4. \A i \in Where(t, p) : i \in 1 .. n - 1
  <2> TAKE i \in Where(t, p)
  <2>1. i \in 2 .. Len(t) /\ t[i] = Rest(p, "text")
    BY WhereIsRest
  <2>2. i # n
    BY <1>1, <2>1, Kinds
  <2>3. ~(i > n)
    <3> SUFFICES ASSUME i > n PROVE FALSE
      OBVIOUS
    <3>1. PICK k \in 1 .. i - 1 : <<k, i>> \in Records(t) /\ \A m \in k .. i : t[m] # Newline
      BY WhereIsRecord
    <3>2. /\ i = Len(t) \/ t[i + 1] = Newline
          /\ k = 1 \/ t[k - 1] = Newline
      BY <3>1 DEF Records, Lines
    <3>3. /\ \A m \in n + 1 .. Len(t) : t[m] # Newline
          /\ n = 0 \/ t[n] = Newline
      BY <1>1 DEF Lines, n
    <3>4. i = Len(t)
      BY <1>1, <2>1, <3>2, <3>3
    <3>5. k = n + 1
      <4>1. ~(k > n + 1)
        <5> SUFFICES ASSUME k > n + 1 PROVE FALSE
          OBVIOUS
        <5>1. k - 1 \in n + 1 .. Len(t) /\ k # 1
          BY <1>1, <2>1
        <5> QED
          BY <3>2, <3>3, <5>1
      <4>2. ~(k < n + 1)
        <5> SUFFICES ASSUME k < n + 1 PROVE FALSE
          OBVIOUS
        <5>1. n \in k .. i /\ n # 0
          BY <1>1, <2>1
        <5> QED
          BY <3>1, <3>3, <5>1
      <4> QED
        BY <1>1, <4>1, <4>2
    <3>6. l = <<k, i>>
      BY <3>4, <3>5, <1>1 DEF n
    <3> QED
      BY <3>1, <3>6 DEF Records, IsCut
  <2> QED
    BY <1>1, <2>1, <2>2, <2>3
<1> QED
  BY <1>2, <1>3, <1>4 DEF u
------------------------------------------------------------------------------
(* A newline at the end changes no record, and records go on behind it. *)
LEMMA NewlineWhere ==
  ASSUME NEW t \in Seq(Piece), NEW p
  PROVE  /\ Append(t, Newline) \in Seq(Piece)
         /\ Closed(Append(t, Newline))
         /\ Where(Append(t, Newline), p) = Where(t, p)
<1> DEFINE u == Append(t, Newline)
           n == Len(t)
<1>1. Newline \in Piece
  BY DEF Piece
<1>2. /\ u \in Seq(Piece) /\ Len(u) = n + 1
      /\ \A i \in 1 .. n : u[i] = t[i]
      /\ u[n + 1] = Newline
      /\ n \in Nat
  BY <1>1, AppendProperties, LenProperties
<1> HIDE DEF u, n
<1>3. \A i \in 1 .. n : i \in Where(t, p) <=> i \in Where(u, p)
  <2> TAKE i \in 1 .. n
  <2>1. /\ i \in 1 .. Len(t) /\ i <= Len(u) /\ \A m \in 1 .. i : u[m] = t[m]
        /\ (i = Len(t) \/ t[i + 1] = Newline) <=> (i = Len(u) \/ u[i + 1] = Newline)
    BY <1>2 DEF n
  <2> QED
    BY <1>2, <2>1, SameWhere
<1>4. \A i \in Where(u, p) : i \in 1 .. n
  BY <1>2, WhereIsRest, Kinds
<1>5. \A i \in Where(t, p) : i \in 1 .. n
  BY <1>2, WhereIsRest DEF n
<1>6. Closed(u)
  BY <1>2 DEF Closed
<1> QED
  BY <1>2, <1>3, <1>4, <1>5, <1>6 DEF u

(* What open_output leaves: the same records, and a text that new ones may  *)
(* follow.                                                                  *)
LEMMA RepairedIs ==
  ASSUME NEW t \in Seq(Piece), Clean(t)
  PROVE  /\ Repaired(t) \in Seq(Piece)
         /\ Clean(Repaired(t))
         /\ Closed(Repaired(t))
         /\ \A p : Where(Repaired(t), p) = Where(t, p)
<1> DEFINE k == Keep(t)
<1>1. k \in Seq(Piece) /\ Clean(k)
  <2>1. CASE k = t
    BY <2>1
  <2>2. CASE \E l \in Lines(t) :
               /\ l[1] \in 1 .. Len(t)
               /\ k \in Seq(Piece)
               /\ Len(k) = l[1] - 1
               /\ \A i \in 1 .. l[1] - 1 : k[i] = t[i]
    <3>1. k \in Seq(Piece) /\ Len(k) <= Len(t) /\ \A i \in 1 .. Len(k) : k[i] = t[i]
      BY <2>2, LenProperties
    <3> HIDE DEF k
    <3> QED
      BY <3>1, CleanPart
  <2> QED
    BY <2>1, <2>2, KeepIs
<1>2. \A p : Where(k, p) = Where(t, p)
  BY KeepWhere
<1>3. CASE ~(k # <<>> /\ k[Len(k)] # Newline)
  BY <1>1, <1>2, <1>3 DEF Repaired, Closed
<1>4. CASE k # <<>> /\ k[Len(k)] # Newline
  <2>1. k = t /\ \A l \in Lines(t) : ~IsCut(t, l)
    BY <1>4, KeepIs DEF Closed
  <2>2. Repaired(t) = Append(k, Newline)
    BY <1>4 DEF Repaired
  <2> HIDE DEF k
  <2> DEFINE u == Append(k, Newline)
             n == Len(k)
  <2>3. /\ u \in Seq(Piece) /\ Closed(u)
        /\ \A p : Where(u, p) = Where(k, p)
    BY <1>1, NewlineWhere
  <2>4. Newline \in Piece
    BY DEF Piece
  <2>5. /\ Len(u) = n + 1 /\ n \in Nat
        /\ \A i \in 1 .. n : u[i] = k[i]
        /\ u[n + 1] = Newline
    BY <1>1, <2>4, AppendProperties, LenProperties
  <2> HIDE DEF u
  <2>6. Clean(u)
    <3> SUFFICES ASSUME NEW a \in 1 .. Len(u), StartsLine(u, a), u[a] \notin {Newline, NUL}
                 PROVE  \E p \in Pages, o \in Outcome :
                          /\ u[a] = Start(p, o)
                          /\ a + 1 <= Len(u) =>
                               \/ u[a + 1] = NUL
                               \/ /\ u[a + 1] = Rest(p, o)
                                  /\ a + 2 <= Len(u) => u[a + 2] \in {NUL, Newline}
      BY DEF Clean
    <3>1. a \in 1 .. n /\ u[a] = k[a]
      BY <2>5
    <3>2. StartsLine(k, a)
      BY <2>5, <3>1 DEF StartsLine
    <3>3. PICK p \in Pages, o \in Outcome :
             /\ k[a] = Start(p, o)
             /\ a + 1 <= n =>
                  \/ k[a + 1] = NUL
                  \/ /\ k[a + 1] = Rest(p, o)
                     /\ a + 2 <= n => k[a + 2] \in {NUL, Newline}
      BY <1>1, <3>1, <3>2 DEF Clean
    <3>4. a # n
      <4> SUFFICES ASSUME a = n PROVE FALSE
        OBVIOUS
      <4> DEFINE l == <<a, a>>
      <4>1. l \in Lines(k)
        BY <2>5, <3>1, <3>2, <3>3, Kinds DEF Lines, StartsLine
      <4>2. ~IsRecord(k, l) /\ Unterminated(k, l)
        BY <3>1 DEF IsRecord, Unterminated
      <4> DEFINE rest == {i \in l[1] .. l[2] : k[i] # NUL}
      <4>3. rest = {a}
        BY <3>1, <3>3, Kinds
      <4> HIDE DEF rest
      <4>4. Cardinality(rest) = 1
        BY <4>3, FS_Singleton
      <4>5. \A i \in rest : k[i].part = "start"
        BY <3>3, <4>3, Kinds
      <4>6. StartsLikeARecord(k, l)
        <5>1. Cardinality(rest) <= 1
          BY <4>4
        <5> QED
          BY <4>5, <5>1, Zenon DEF StartsLikeARecord, rest
      <4> QED
        BY <2>1, <4>1, <4>2, <4>6 DEF IsCut
    <3>5. a + 1 <= n /\ u[a + 1] = k[a + 1]
      BY <2>5, <3>1, <3>4
    <3>6. a + 2 <= Len(u) => u[a + 2] = Newline \/ (a + 2 <= n /\ u[a + 2] = k[a + 2])
      BY <2>5, <3>1
    <3> QED
      BY <3>1, <3>3, <3>5, <3>6
  <2> QED
    BY <1>2, <2>2, <2>3, <2>6 DEF u
<1> QED
  BY <1>3, <1>4
------------------------------------------------------------------------------
(* A record's line as far as it is written. *)
Written(s, q, o) ==
  /\ s \in Seq(Piece)
  /\ Len(s) \in 0 .. 3
  /\ Len(s) >= 1 => s[1] = Start(q, o)
  /\ Len(s) >= 2 => s[2] = Rest(q, o)
  /\ Len(s) >= 3 => s[3] = Newline

(* A whole line is a write, of three pieces. *)
LEMMA LineIsWritten ==
  ASSUME NEW q \in Pages, NEW o \in Outcome
  PROVE  Written(Line(q, o), q, o) /\ Len(Line(q, o)) = 3
<1>1. Start(q, o) \in Piece /\ Rest(q, o) \in Piece /\ Newline \in Piece
  BY DEF Piece
<1> QED
  BY <1>1 DEF Line, Written

(* What a kill leaves of a line is a write too. *)
LEMMA PartIsWritten ==
  ASSUME NEW q \in Pages, NEW o \in Outcome, NEW s \in Partly(q, o)
  PROVE  Written(s, q, o)
<1> DEFINE w == Line(q, o)
<1>1. PICK n \in 0 .. 2 : s = SubSeq(w, 1, n)
  BY DEF Partly
<1>2. w \in Seq(Piece) /\ Len(w) = 3 /\ w[1] = Start(q, o) /\ w[2] = Rest(q, o)
  BY LineIsWritten DEF Written
<1> HIDE DEF w
<1>3. n \in 0 .. Len(w) /\ \A i \in 1 .. n : w[i] \in Piece
  <2>1. n \in 0 .. Len(w) /\ \A i \in 1 .. n : i \in 1 .. Len(w)
    BY <1>2
  <2>2. \A i \in 1 .. Len(w) : w[i] \in Piece
    BY <1>2, ElementOfSeq
  <2> QED
    BY <2>1, <2>2
<1>4. /\ SubSeq(w, 1, n) \in Seq(Piece)
      /\ Len(SubSeq(w, 1, n)) = n
      /\ \A i \in 1 .. n : SubSeq(w, 1, n)[i] = w[i]
  BY <1>2, <1>3, SubSeqProperties
<1> QED
  BY <1>1, <1>2, <1>4 DEF Written

(* A line written behind a closed text: the text stays clean, no record is  *)
(* lost, and the page gets the one that was written.                        *)
LEMMA Adds ==
  ASSUME NEW t \in Seq(Piece), Clean(t), Closed(t),
         NEW q \in Pages, NEW o \in Outcome, NEW s, Written(s, q, o)
  PROVE  /\ t \o s \in Seq(Piece)
         /\ Clean(t \o s)
         /\ Len(s) = 3 => Closed(t \o s)
         /\ \A p : Where(t \o s, p) =
                     Where(t, p) \cup (IF p = q /\ o = "text" /\ Len(s) >= 2
                                       THEN {Len(t) + 2} ELSE {})
<1> DEFINE u == t \o s
           n == Len(t)
<1>1. s \in Seq(Piece) /\ Len(s) \in 0 .. 3 /\ n \in Nat
  BY LenProperties DEF Written
<1>2. /\ u \in Seq(Piece) /\ Len(u) = n + Len(s)
      /\ \A i \in 1 .. n : u[i] = t[i]
      /\ \A i \in 1 .. Len(s) : u[n + i] = s[i]
  BY <1>1, ConcatProperties
<1>3. n = 0 \/ (n > 0 /\ t[n] = Newline)
  BY <1>1, EmptySeq DEF Closed
<1>4. Clean(s)
  <2>1. \A a \in 1 .. Len(s) :
          \/ a = 1 /\ s[a] = Start(q, o)
          \/ a = 2 /\ s[a] = Rest(q, o)
          \/ a = 3 /\ s[a] = Newline
    BY <1>1 DEF Written
  <2>2. \A a \in 1 .. Len(s) : StartsLine(s, a) => a # 2
    BY <1>1, Kinds DEF Written, StartsLine
  <2>3. 2 <= Len(s) => s[2] = Rest(q, o)
    BY DEF Written
  <2>4. 3 <= Len(s) => s[3] = Newline
    BY DEF Written
  <2> QED
    BY <1>1, <2>1, <2>2, <2>3, <2>4 DEF Clean
<1>5. Clean(u)
  BY <1>1, <1>4, CleanConcat
<1> HIDE DEF u, n
<1>6. /\ Len(s) >= 1 => u[n + 1] = Start(q, o)
      /\ Len(s) >= 2 => u[n + 2] = Rest(q, o)
      /\ Len(s) >= 3 => u[n + 3] = Newline
  BY <1>1, <1>2 DEF Written
<1>7. Len(s) = 3 => Closed(u)
  BY <1>1, <1>2, <1>6 DEF Closed
<1>8. ASSUME NEW p
      PROVE  Where(u, p) = Where(t, p) \cup (IF p = q /\ o = "text" /\ Len(s) >= 2
                                             THEN {n + 2} ELSE {})
  <2>1. \A i \in Where(t, p) : i \in 1 .. n - 1
    BY <1>1, <1>3, WhereIsRest, Kinds DEF n
  <2>2. \A i \in 1 .. n - 1 : i \in Where(t, p) <=> i \in Where(u, p)
    <3> TAKE i \in 1 .. n - 1
    <3>1. /\ i \in 1 .. n /\ i <= Len(u) /\ i # n /\ i # Len(u)
          /\ i + 1 \in 1 .. n /\ \A m \in 1 .. i : m \in 1 .. n
      BY <1>1, <1>2
    <3>2. u[i + 1] = t[i + 1] /\ \A m \in 1 .. i : u[m] = t[m]
      BY <1>2, <3>1
    <3> QED
      BY <1>2, <3>1, <3>2, SameWhere DEF n
  <2>3. \A i \in Where(u, p) : i \in 1 .. n - 1 \/ (i = n + 2 /\ Len(s) >= 2 /\ p = q /\ o = "text")
    <3> TAKE i \in Where(u, p)
    <3>1. i \in 2 .. Len(u) /\ u[i] = Rest(p, "text")
      BY WhereIsRest
    <3>2. i # n /\ i # n + 1 /\ i # n + 3
      BY <1>1, <1>2, <1>3, <1>6, <3>1, Kinds
    <3>3. i \in Nat /\ i >= 1 /\ i <= n + Len(s) /\ n \in Nat /\ Len(s) \in 0 .. 3
      BY <1>1, <1>2, <3>1
    <3>4. i \in 1 .. n - 1 \/ (i = n + 2 /\ Len(s) >= 2)
      <4>1. CASE i < n
        BY <3>3, <4>1
      <4>2. CASE i > n
        <5>1. \A a \in Nat, b \in Nat, c \in 0 .. 3 :
                 b > a /\ b <= a + c /\ b # a + 1 /\ b # a + 3 => b = a + 2 /\ c >= 2
          OBVIOUS
        <5> QED
          BY <3>2, <3>3, <4>2, <5>1
      <4> QED
        BY <3>2, <3>3, <4>1, <4>2
    <3> QED
      BY <1>6, <3>1, <3>4, Kinds
  <2>4. ASSUME p = q, o = "text", Len(s) >= 2 PROVE n + 2 \in Where(u, p)
    <3>1. /\ n + 2 \in 2 .. Len(u) /\ u[n + 2] = Rest(p, "text") /\ u[(n + 2) - 1] = Start(p, "text")
          /\ n + 2 = Len(u) \/ u[(n + 2) + 1] = Newline
      BY <1>1, <1>2, <1>6, <2>4
    <3>2. /\ n + 1 \in 1 .. (n + 2) - 1
          /\ n + 1 = 1 \/ u[(n + 1) - 1] = Newline
          /\ \A m \in n + 1 .. (n + 2) - 2 : u[m] = NUL
      BY <1>1, <1>2, <1>3
    <3> QED
      BY <3>1, <3>2 DEF Where
  <2>5. CASE p = q /\ o = "text" /\ Len(s) >= 2
    BY <2>1, <2>2, <2>3, <2>4, <2>5
  <2>6. CASE ~(p = q /\ o = "text" /\ Len(s) >= 2)
    BY <2>1, <2>2, <2>3, <2>6
  <2> QED
    BY <2>5, <2>6
<1> QED
  BY <1>2, <1>5, <1>7, <1>8 DEF u, n
------------------------------------------------------------------------------
(* A clean file is refused only when NULs are all that tells it from an     *)
(* output of the program and no record is left.                             *)
LEMMA ForeignIsDamaged ==
  ASSUME NEW t \in Seq(Piece), Clean(t), IsForeign(t)
  PROVE  (\E i \in DOMAIN t : t[i] = NUL) /\ \A p : Where(t, p) = {}
<1> DEFINE k == Keep(t)
<1>1. /\ k \in Seq(Piece) /\ Len(k) \in Nat /\ Len(t) \in Nat /\ Len(k) <= Len(t)
      /\ \A i \in 1 .. Len(k) : k[i] = t[i]
  BY KeepIs, LenProperties
<1>2. Closed(k) \/ (k = t /\ \A l \in Lines(t) : ~IsCut(t, l))
  BY KeepIs
<1> HIDE DEF k
<1>3. Clean(k)
  BY <1>1, CleanPart
<1>4. ASSUME NEW l \in Lines(k), l[1] <= l[2], ~HoldsNul(k, l)
      PROVE  l \in Records(k)
  <2> DEFINE a == l[1]
             b == l[2]
  <2>1. /\ l = <<a, b>> /\ a \in 1 .. Len(k) /\ b \in 1 .. Len(k) /\ a <= b
        /\ StartsLine(k, a)
        /\ b = Len(k) \/ k[b + 1] = Newline
        /\ \A i \in a .. b : k[i] # Newline /\ k[i] # NUL
    BY <1>1, <1>4 DEF Lines, HoldsNul, StartsLine
  <2> HIDE DEF a, b
  <2>2. PICK p \in Pages, o \in Outcome :
           /\ k[a] = Start(p, o)
           /\ a + 1 <= Len(k) =>
                \/ k[a + 1] = NUL
                \/ /\ k[a + 1] = Rest(p, o)
                   /\ a + 2 <= Len(k) => k[a + 2] \in {NUL, Newline}
    <3>1. k[a] \notin {Newline, NUL}
      BY <2>1
    <3> QED
      BY <1>3, <2>1, <3>1 DEF Clean
  <2>3. b # a
    <3> SUFFICES ASSUME b = a PROVE FALSE
      OBVIOUS
    <3>1. a = Len(k)
      BY <1>1, <2>1, <2>2, Kinds
    <3>2. k = t /\ \A ll \in Lines(t) : ~IsCut(t, ll)
      BY <1>1, <1>2, <2>1, <2>2, <3>1, EmptySeq, Kinds DEF Closed
    <3>3. ~IsRecord(k, l) /\ Unterminated(k, l)
      BY <2>1, <3>1 DEF IsRecord, Unterminated
    <3> DEFINE rest == {i \in l[1] .. l[2] : k[i] # NUL}
    <3>4. rest = {a}
      BY <2>1, <2>2, Kinds
    <3> HIDE DEF rest
    <3>5. Cardinality(rest) = 1
      BY <3>4, FS_Singleton
    <3>6. \A i \in rest : k[i].part = "start"
      BY <2>2, <3>4, Kinds
    <3>7. StartsLikeARecord(k, l)
      <4>1. Cardinality(rest) <= 1
        BY <3>5
      <4> QED
        BY <3>6, <4>1, Zenon DEF StartsLikeARecord, rest
    <3> QED
      BY <3>2, <3>3, <3>7 DEF IsCut
  <2>4. a + 1 \in a .. b /\ a + 1 <= Len(k)
    BY <1>1, <2>1, <2>3
  <2>5. k[a + 1] = Rest(p, o)
    BY <2>1, <2>2, <2>4
  <2>6. b = a + 1
    <3> SUFFICES ASSUME b # a + 1 PROVE FALSE
      OBVIOUS
    <3>1. a + 2 \in a .. b /\ a + 2 <= Len(k)
      BY <1>1, <2>1, <2>4
    <3> QED
      BY <2>1, <2>2, <2>4, <3>1
  <2>7. l[1] = a /\ l[2] = a + 1 /\ l[2] - 1 = a /\ a \in Nat
    BY <2>1, <2>6
  <2>8. IsRecord(k, l)
    <3>1. k[a + 1] = [k[a] EXCEPT !.part = "rest"] /\ k[a].part = "start"
      BY <2>2, <2>5, Kinds
    <3> QED
      BY <2>7, <3>1 DEF IsRecord
  <2> QED
    BY <2>8 DEF Records
<1>5. Records(k) = {} /\ \E l \in Lines(k) : HoldsNul(k, l)
  <2>1. \A l \in Lines(k) \ Records(k) : ~(l[1] <= l[2] /\ ~HoldsNul(k, l))
    BY <1>4
  <2> QED
    BY <2>1 DEF IsForeign, k
<1>6. \E i \in DOMAIN t : t[i] = NUL
  <2>1. PICK l \in Lines(k) : HoldsNul(k, l)
    BY <1>5
  <2>2. PICK i \in l[1] .. l[2] : k[i] = NUL
    BY <2>1 DEF HoldsNul
  <2>3. i \in 1 .. Len(k)
    BY <1>1 DEF Lines
  <2>4. i \in DOMAIN t
    BY <1>1, <2>3, LenProperties
  <2> QED
    BY <1>1, <2>2, <2>3, <2>4
<1>7. ASSUME NEW p PROVE Where(t, p) = {}
  <2>1. Where(k, p) = {}
    BY <1>1, <1>5, WhereIsRecord
  <2> QED
    BY <2>1, KeepWhere DEF k
<1> QED
  BY <1>6, <1>7
------------------------------------------------------------------------------
(* The file is one the program wrote, damaged by no more than power losses. *)
FileInv ==
  /\ file \in Seq(Piece)
  /\ Clean(file)
  /\ durable \in Nat
  /\ outages \in Nat

(* While a run writes: new records go on a line of their own, with --resume *)
(* the pages still to do have no record, and as long as no page failed the  *)
(* pages not to do have one.                                                *)
JobInv ==
  /\ running \in BOOLEAN /\ resume \in BOOLEAN /\ keepGoing \in BOOLEAN /\ failure \in BOOLEAN
  /\ todo \in Seq(Pages)
  /\ \A i, j \in DOMAIN todo : i # j => todo[i] # todo[j]
  /\ summary \in [done : Nat, failed : Nat, skipped : Int]
  /\ running /\ ~failure =>
       /\ Closed(file)
       /\ resume => \A i \in DOMAIN todo : Where(file, todo[i]) = {}
       /\ summary.failed = 0 =>
            \A p \in Pages : Where(file, p) # {} \/ \E i \in DOMAIN todo : todo[i] = p
  /\ exit = "ok" => ~running /\ \A p \in Pages : Where(file, p) # {}

RecordsInv == FileInv /\ JobInv

(* The list of a run's pages, each once. *)
LEMMA InOrderIs ==
  ASSUME NEW S \in SUBSET Pages, NEW s \in InOrder(S)
  PROVE  /\ s \in Seq(Pages) /\ Len(s) \in Nat
         /\ \A i \in DOMAIN s : s[i] \in S
         /\ \A p \in S : \E i \in DOMAIN s : s[i] = p
         /\ \A i, j \in DOMAIN s : i # j => s[i] # s[j]
<1> DEFINE n == Cardinality(S)
<1>1. IsFiniteSet(Pages)
  BY RunJobAssumption, FS_Interval DEF Pages
<1>2. n \in Nat
  BY <1>1, FS_Subset, FS_CardinalityType
<1>3. /\ s \in [1 .. n -> S]
      /\ \A i, j \in DOMAIN s : i < j => s[i] < s[j]
      /\ \A p \in S : \E i \in DOMAIN s : s[i] = p
  BY DEF InOrder
<1> HIDE DEF n
<1>4. s \in [1 .. n -> Pages] /\ DOMAIN s = 1 .. n /\ \A i \in DOMAIN s : s[i] \in S
  BY <1>3
<1>5. s \in Seq(Pages) /\ Len(s) \in Nat
  BY <1>2, <1>4
<1>6. ASSUME NEW i \in DOMAIN s, NEW j \in DOMAIN s, i # j PROVE s[i] # s[j]
  <2>1. i \in Nat /\ j \in Nat /\ s[i] \in Nat /\ s[j] \in Nat
    BY <1>2, <1>4, RunJobAssumption DEF Pages
  <2>2. i < j \/ j < i
    BY <1>6, <2>1
  <2> QED
    BY <1>3, <2>1, <2>2
<1> QED
  BY <1>3, <1>4, <1>5, <1>6

(* The page whose turn it is, and those after it. *)
LEMMA NextPage ==
  ASSUME JobInv, todo # <<>>
  PROVE  /\ Head(todo) \in Pages /\ Head(todo) = todo[1] /\ 1 \in DOMAIN todo
         /\ Tail(todo) \in Seq(Pages)
         /\ \A i \in DOMAIN Tail(todo) : /\ i + 1 \in DOMAIN todo /\ Tail(todo)[i] = todo[i + 1]
                                         /\ Tail(todo)[i] # Head(todo)
         /\ \A i, j \in DOMAIN Tail(todo) : i # j => Tail(todo)[i] # Tail(todo)[j]
         /\ \A p : (\E i \in DOMAIN todo : todo[i] = p) =>
                     p = Head(todo) \/ \E i \in DOMAIN Tail(todo) : Tail(todo)[i] = p
<1>1. todo \in Seq(Pages) /\ \A i, j \in DOMAIN todo : i # j => todo[i] # todo[j]
  BY DEF JobInv
<1> DEFINE t == Tail(todo)
<1>2. /\ Head(todo) \in Pages /\ t \in Seq(Pages) /\ Len(t) = Len(todo) - 1
      /\ \A i \in 1 .. Len(t) : t[i] = todo[i + 1]
  BY <1>1, HeadTailProperties
<1>3. Len(todo) \in Nat /\ Len(todo) > 0 /\ DOMAIN todo = 1 .. Len(todo)
  BY <1>1, EmptySeq, LenProperties
<1>4. Head(todo) = todo[1] /\ 1 \in DOMAIN todo
  BY <1>1, <1>3
<1> HIDE DEF t
<1>5. DOMAIN t = 1 .. Len(t)
  BY <1>2
<1>6. \A i \in DOMAIN t : i + 1 \in DOMAIN todo /\ t[i] = todo[i + 1] /\ i \in Nat /\ i + 1 # 1
  BY <1>2, <1>3, <1>5
<1>7. \A i \in DOMAIN t : t[i] # Head(todo)
  BY <1>1, <1>4, <1>6
<1>8. \A i, j \in DOMAIN t : i # j => t[i] # t[j]
  <2> SUFFICES ASSUME NEW i \in DOMAIN t, NEW j \in DOMAIN t, i # j PROVE t[i] # t[j]
    OBVIOUS
  <2>1. i + 1 # j + 1
    BY <1>6
  <2> QED
    BY <1>1, <1>6, <2>1
<1>9. ASSUME NEW i \in DOMAIN todo
      PROVE  todo[i] = Head(todo) \/ \E j \in DOMAIN t : t[j] = todo[i]
  <2>1. CASE i = 1
    BY <1>4, <2>1
  <2>2. CASE i # 1
    <3>1. i - 1 \in DOMAIN t /\ (i - 1) + 1 = i
      BY <1>2, <1>3, <1>5, <2>2
    <3> QED
      BY <1>6, <3>1
  <2> QED
    BY <2>1, <2>2
<1> QED
  BY <1>2, <1>4, <1>6, <1>7, <1>8, <1>9 DEF t

(* What on_page writes and makes of the run: a whole record and the next    *)
(* page, or part of one and the end.                                        *)
LEMMA OnPageWrites ==
  ASSUME RecordsInv, OnPage
  PROVE  /\ running /\ ~failure /\ todo # <<>> /\ todo' = Tail(todo)
         /\ \E o \in Outcome : \E s :
              /\ Written(s, Head(todo), o) /\ file' = file \o s
              /\ \/ Len(s) = 3 /\ o = "text" /\ failure' = failure /\ Counted("done")
                 \/ Len(s) = 3 /\ failure' = failure /\ Counted("failed")
                 \/ failure' = TRUE /\ Counted("failed")
         /\ UNCHANGED <<durable, running, flags, exit, bounds>>
<1>1. /\ running /\ ~failure /\ todo # <<>> /\ todo' = Tail(todo)
      /\ UNCHANGED <<durable, running, flags, exit, bounds>>
      /\ PageDone \/ PageFails \/ WriteFails
  BY DEF OnPage
<1>2. Head(todo) \in Pages
  BY <1>1, NextPage DEF RecordsInv
<1>3. CASE PageDone
  <2>1. "text" \in Outcome /\ Written(Line(Head(todo), "text"), Head(todo), "text")
                           /\ Len(Line(Head(todo), "text")) = 3
    BY <1>2, LineIsWritten DEF Outcome
  <2> QED
    BY <1>1, <1>3, <2>1 DEF PageDone
<1>4. CASE PageFails /\ keepGoing
  <2>1. "error" \in Outcome /\ Written(Line(Head(todo), "error"), Head(todo), "error")
                            /\ Len(Line(Head(todo), "error")) = 3
    BY <1>2, LineIsWritten DEF Outcome
  <2> QED
    BY <1>1, <1>4, <2>1 DEF PageFails
<1>5. CASE PageFails /\ ~keepGoing
  <2>1. Written(<<>>, Head(todo), "error") /\ "error" \in Outcome
    BY EmptySeq DEF Written, Outcome
  <2>2. file \o <<>> = file
    BY ConcatEmptySeq DEF RecordsInv, FileInv
  <2> QED
    BY <1>1, <1>5, <2>1, <2>2 DEF PageFails
<1>6. CASE WriteFails
  <2>1. PICK o \in Outcomes(Head(todo)) : \E s \in Partly(Head(todo), o) : file' = file \o s
    BY <1>6 DEF WriteFails
  <2>2. o \in Outcome
    BY <2>1 DEF Outcomes, Outcome
  <2>3. PICK s \in Partly(Head(todo), o) : file' = file \o s
    BY <2>1
  <2>4. Written(s, Head(todo), o)
    BY <1>2, <2>2, <2>3, PartIsWritten
  <2> QED
    BY <1>1, <1>6, <2>2, <2>3, <2>4 DEF WriteFails
<1> QED
  BY <1>1, <1>3, <1>4, <1>5, <1>6

(* A kill leaves part of a record, if the run was writing. *)
LEMMA KilledWrites ==
  ASSUME RecordsInv, Killed
  PROVE  \/ file' = file
         \/ /\ ~failure /\ todo # <<>>
            /\ \E o \in Outcome : \E s : Written(s, Head(todo), o) /\ file' = file \o s
<1>1. CASE todo = <<>> \/ failure
  <2>1. file' = file \o <<>>
    BY <1>1 DEF Killed
  <2> QED
    BY <2>1, ConcatEmptySeq DEF RecordsInv, FileInv
<1>2. CASE ~(todo = <<>> \/ failure)
  <2>1. PICK o \in Outcomes(Head(todo)) : \E s \in Partly(Head(todo), o) : file' = file \o s
    BY <1>2 DEF Killed
  <2>2. o \in Outcome
    BY <2>1 DEF Outcomes, Outcome
  <2>3. Head(todo) \in Pages
    BY <1>2, NextPage DEF RecordsInv
  <2> QED
    BY <1>2, <2>1, <2>2, <2>3, PartIsWritten
<1> QED
  BY <1>1, <1>2

(* What is written behind a record changes no other. *)
LEMMA WritingAdds ==
  ASSUME RecordsInv, running, ~failure, NEW q \in Pages, NEW o \in Outcome, NEW s,
         Written(s, q, o), file' = file \o s
  PROVE  /\ file' \in Seq(Piece) /\ Clean(file')
         /\ Len(s) = 3 => Closed(file')
         /\ \A p : p # q \/ o # "text" => Where(file', p) = Where(file, p)
         /\ \A p : Where(file, p) \subseteq Where(file', p)
         /\ o = "text" /\ Len(s) = 3 => Where(file', q) # {}
<1>1. file \in Seq(Piece) /\ Clean(file) /\ Closed(file)
  BY DEF RecordsInv, FileInv, JobInv
<1>2. /\ file' \in Seq(Piece) /\ Clean(file')
      /\ Len(s) = 3 => Closed(file')
      /\ \A p : Where(file', p) =
                  Where(file, p) \cup (IF p = q /\ o = "text" /\ Len(s) >= 2
                                       THEN {Len(file) + 2} ELSE {})
  BY <1>1, Adds
<1>3. Len(s) = 3 => Len(s) >= 2
  OBVIOUS
<1> QED
  BY <1>2, <1>3

(* A page's line, or what a failed write left of it, goes after the last line. *)
LEMMA OnPageInv == ASSUME RecordsInv, OnPage PROVE RecordsInv'
<1>1. /\ running /\ ~failure /\ todo # <<>> /\ todo' = Tail(todo)
      /\ UNCHANGED <<durable, running, flags, exit, bounds>>
  BY OnPageWrites
<1>2. PICK o, s :
         /\ o \in Outcome /\ Written(s, Head(todo), o) /\ file' = file \o s
         /\ \/ Len(s) = 3 /\ o = "text" /\ failure' = failure /\ Counted("done")
            \/ Len(s) = 3 /\ failure' = failure /\ Counted("failed")
            \/ failure' = TRUE /\ Counted("failed")
  BY OnPageWrites
<1>3. /\ Head(todo) \in Pages
      /\ todo' \in Seq(Pages)
      /\ \A i \in DOMAIN todo' : /\ i + 1 \in DOMAIN todo /\ todo'[i] = todo[i + 1]
                                 /\ todo'[i] # Head(todo)
      /\ \A i, j \in DOMAIN todo' : i # j => todo'[i] # todo'[j]
      /\ \A p : (\E i \in DOMAIN todo : todo[i] = p) =>
                  p = Head(todo) \/ \E i \in DOMAIN todo' : todo'[i] = p
  BY <1>1, NextPage DEF RecordsInv
<1>4. /\ file' \in Seq(Piece) /\ Clean(file')
      /\ Len(s) = 3 => Closed(file')
      /\ \A p : p # Head(todo) \/ o # "text" => Where(file', p) = Where(file, p)
      /\ \A p : Where(file, p) \subseteq Where(file', p)
      /\ o = "text" /\ Len(s) = 3 => Where(file', Head(todo)) # {}
  BY <1>1, <1>2, <1>3, WritingAdds
<1>5. /\ summary' \in [done : Nat, failed : Nat, skipped : Int]
      /\ Counted("done") => summary'.failed = summary.failed
      /\ Counted("failed") => summary'.failed # 0
  <2>1. summary \in [done : Nat, failed : Nat, skipped : Int]
    BY DEF RecordsInv, JobInv
  <2>2. summary.done \in Nat /\ summary.failed \in Nat /\ summary.failed + 1 # 0
    BY <2>1
  <2>3. CASE Counted("done")
    <3>1. summary' = [summary EXCEPT !["done"] = @ + 1]
      BY <2>3 DEF Counted
    <3>2. summary'.failed = summary.failed
      BY <2>1, <3>1
    <3>3. summary' \in [done : Nat, failed : Nat, skipped : Int]
      BY <2>1, <2>2, <3>1
    <3>4. ~Counted("failed")
      <4>1. Counted("failed") => summary'.failed = summary.failed + 1
        BY <2>1 DEF Counted
      <4> QED
        BY <2>2, <3>2, <4>1
    <3> QED
      BY <3>2, <3>3, <3>4
  <2>4. CASE Counted("failed")
    <3>1. summary' = [summary EXCEPT !["failed"] = @ + 1]
      BY <2>4 DEF Counted
    <3>2. summary'.failed = summary.failed + 1
      BY <2>1, <3>1
    <3>3. summary' \in [done : Nat, failed : Nat, skipped : Int]
      BY <2>1, <2>2, <3>1
    <3>4. ~Counted("done")
      <4>1. Counted("done") => summary'.failed = summary.failed
        BY <2>1 DEF Counted
      <4> QED
        BY <2>2, <3>2, <4>1
    <3> QED
      BY <2>2, <3>2, <3>3, <3>4
  <2> QED
    BY <1>2, <2>3, <2>4
<1>6. FileInv'
  BY <1>1, <1>4 DEF RecordsInv, FileInv, bounds
<1>7. ASSUME ~failure'
      PROVE  /\ Closed(file')
             /\ resume' => \A i \in DOMAIN todo' : Where(file', todo'[i]) = {}
             /\ summary'.failed = 0 =>
                  \A p \in Pages : Where(file', p) # {} \/ \E i \in DOMAIN todo' : todo'[i] = p
  <2>1. /\ resume => \A i \in DOMAIN todo : Where(file, todo[i]) = {}
        /\ summary.failed = 0 =>
             \A p \in Pages : Where(file, p) # {} \/ \E i \in DOMAIN todo : todo[i] = p
    BY <1>1 DEF RecordsInv, JobInv
  <2>2. Len(s) = 3 /\ (Counted("failed") \/ (o = "text" /\ Counted("done")))
    BY <1>2, <1>7
  <2>3. resume' => \A i \in DOMAIN todo' : Where(file', todo'[i]) = {}
    BY <1>1, <1>3, <1>4, <2>1 DEF flags
  <2>4. ASSUME summary'.failed = 0, NEW p \in Pages
        PROVE  Where(file', p) # {} \/ \E i \in DOMAIN todo' : todo'[i] = p
    <3>1. o = "text" /\ summary.failed = 0
      BY <1>5, <2>2, <2>4
    <3>2. CASE p = Head(todo)
      BY <1>4, <2>2, <3>1, <3>2
    <3>3. CASE p # Head(todo)
      BY <1>3, <1>4, <2>1, <3>1, <3>3
    <3> QED
      BY <3>2, <3>3
  <2> QED
    BY <1>4, <2>2, <2>3, <2>4
<1>8. failure' \in BOOLEAN /\ exit # "ok" /\ running'
  BY <1>1, <1>2 DEF RecordsInv, JobInv
<1>9. JobInv'
  BY <1>1, <1>3, <1>5, <1>7, <1>8 DEF RecordsInv, JobInv, flags
<1> QED
  BY <1>6, <1>9 DEF RecordsInv

(* The next run repairs the file and takes the pages without a record.      *)
LEMMA StartRunInv == ASSUME RecordsInv, StartRun PROVE RecordsInv'
<1>1. /\ file' = Repaired(file)
      /\ durable' = IF durable <= Len(Keep(file)) THEN durable ELSE Len(Keep(file))
      /\ resume' \in BOOLEAN /\ keepGoing' \in BOOLEAN
      /\ todo' \in InOrder({p \in Pages : ~resume' \/ p \notin Done(file)})
      /\ summary' = [done |-> 0, failed |-> 0, skipped |-> Inputs - Len(todo')]
      /\ failure' = FALSE /\ running' = TRUE /\ exit' = "none" /\ outages' = outages
  BY DEF StartRun
<1> DEFINE needed == {p \in Pages : ~resume' \/ p \notin Done(file)}
<1>2. /\ todo' \in Seq(Pages) /\ Len(todo') \in Nat
      /\ \A i \in DOMAIN todo' : todo'[i] \in needed
      /\ \A p \in needed : \E i \in DOMAIN todo' : todo'[i] = p
      /\ \A i, j \in DOMAIN todo' : i # j => todo'[i] # todo'[j]
  BY <1>1, InOrderIs
<1>3. file \in Seq(Piece) /\ Clean(file)
  BY DEF RecordsInv, FileInv
<1>4. /\ file' \in Seq(Piece) /\ Clean(file') /\ Closed(file')
      /\ \A p : Where(file', p) = Where(file, p)
  BY <1>1, <1>3, RepairedIs
<1>5. \A p : p \in Done(file) <=> Where(file', p) # {}
  BY <1>3, <1>4, DoneIsWhere
<1>6. durable' \in Nat
  BY <1>1, <1>3, KeepIs, LenProperties DEF RecordsInv, FileInv
<1>7. summary' \in [done : Nat, failed : Nat, skipped : Int]
  BY <1>1, <1>2, RunJobAssumption
<1>8. resume' => \A i \in DOMAIN todo' : Where(file', todo'[i]) = {}
  BY <1>2, <1>5
<1>9. \A p \in Pages : Where(file', p) # {} \/ \E i \in DOMAIN todo' : todo'[i] = p
  BY <1>2, <1>5
<1>10. FileInv'
  BY <1>1, <1>4, <1>6 DEF RecordsInv, FileInv
<1>11. JobInv'
  BY <1>1, <1>2, <1>4, <1>7, <1>8, <1>9 DEF JobInv
<1> QED
  BY <1>10, <1>11 DEF RecordsInv

(* A run that ends leaves the file as it is. *)
LEMMA EndRunInv == ASSUME RecordsInv, EndRun PROVE RecordsInv'
<1>1. /\ running /\ ~running' /\ (todo = <<>> \/ failure)
      /\ exit' = IF Succeeded THEN "ok" ELSE "error"
      /\ UNCHANGED <<file, durable, flags, todo, summary, failure, bounds>>
  BY DEF EndRun, JobInv, RecordsInv
<1>2. ASSUME exit' = "ok", NEW p \in Pages PROVE Where(file, p) # {}
  <2>1. ~failure /\ summary.failed = 0 /\ todo = <<>>
    BY <1>1, <1>2 DEF Succeeded
  <2>2. DOMAIN todo = {}
    BY <2>1
  <2> QED
    BY <1>1, <2>1, <2>2 DEF RecordsInv, JobInv
<1>3. FileInv'
  BY <1>1 DEF RecordsInv, FileInv, bounds
<1>4. JobInv'
  BY <1>1, <1>2 DEF RecordsInv, JobInv, flags, EndRun
<1> QED
  BY <1>3, <1>4 DEF RecordsInv

(* A kill leaves at most the beginning of one line. *)
LEMMA KilledInv == ASSUME RecordsInv, Killed PROVE RecordsInv'
<1>1. /\ running /\ running' = FALSE /\ exit' = "killed"
      /\ UNCHANGED <<durable, flags, todo, summary, failure, bounds>>
  BY DEF Killed
<1>2. file' \in Seq(Piece) /\ Clean(file')
  <2>1. CASE file' = file
    BY <2>1 DEF RecordsInv, FileInv
  <2>2. CASE /\ ~failure /\ todo # <<>>
             /\ \E o \in Outcome : \E s : Written(s, Head(todo), o) /\ file' = file \o s
    <3>1. Head(todo) \in Pages
      BY <2>2, NextPage DEF RecordsInv
    <3> QED
      BY <1>1, <2>2, <3>1, WritingAdds
  <2> QED
    BY <2>1, <2>2, KilledWrites
<1>3. FileInv' /\ JobInv'
  BY <1>1, <1>2 DEF RecordsInv, FileInv, JobInv, flags, bounds
<1> QED
  BY <1>3 DEF RecordsInv

(* A power loss turns a tail into NULs. *)
LEMMA PowerLossInv == ASSUME RecordsInv, PowerLoss PROVE RecordsInv'
<1>1. /\ ~running /\ outages' = outages + 1 /\ exit' = "killed"
      /\ UNCHANGED <<running, flags, escalation, todo, summary, failure, runs>>
  BY DEF PowerLoss
<1>2. PICK n \in durable .. Len(file) : \E i \in durable + 1 .. n + 1 : \E j \in i - 1 .. n :
         /\ file' = [k \in 1 .. n |-> IF k \in i .. j THEN NUL ELSE file[k]]
         /\ durable' = n
  BY DEF PowerLoss
<1>3. file \in Seq(Piece) /\ Clean(file) /\ durable \in Nat /\ outages \in Nat
  BY DEF RecordsInv, FileInv
<1>4. n \in Nat /\ n <= Len(file) /\ Len(file) \in Nat
  BY <1>2, <1>3, LenProperties
<1>5. \A k \in 1 .. n : file[k] \in Piece /\ NUL \in Piece
  BY <1>3, <1>4, ElementOfSeq DEF Piece
<1>6. file' \in [1 .. n -> Piece] /\ \A k \in 1 .. n : file'[k] = file[k] \/ file'[k] = NUL
  BY <1>2, <1>5
<1>7. file' \in Seq(Piece) /\ Len(file') = n
  BY <1>4, <1>6
<1>8. Clean(file')
  BY <1>3, <1>4, <1>6, <1>7, CleanPart
<1>9. FileInv' /\ JobInv'
  BY <1>1, <1>2, <1>3, <1>4, <1>7, <1>8 DEF RecordsInv, FileInv, JobInv, flags
<1> QED
  BY <1>9 DEF RecordsInv

(* An empty file is one the program can have written. *)
LEMMA RecordsInit == Init => RecordsInv
<1> SUFFICES ASSUME Init PROVE RecordsInv
  OBVIOUS
<1>1. file = <<>> /\ todo = <<>> /\ durable = 0 /\ outages = 0
  BY DEF Init
<1>2. file \in Seq(Piece) /\ todo \in Seq(Pages) /\ Len(file) = 0 /\ DOMAIN todo = {}
  BY <1>1, EmptySeq
<1>3. Clean(file)
  BY <1>2 DEF Clean
<1>4. FileInv
  BY <1>1, <1>2, <1>3 DEF FileInv
<1>5. summary \in [done : Nat, failed : Nat, skipped : Int]
  BY DEF Init
<1>6. JobInv
  BY <1>2, <1>5 DEF Init, JobInv
<1> QED
  BY <1>4, <1>6 DEF RecordsInv

(* Every step of runs, kills and power losses keeps the invariant. *)
LEMMA RecordsStep == RecordsInv /\ [Next]_vars => RecordsInv'
<1> SUFFICES ASSUME RecordsInv, [Next]_vars PROVE RecordsInv'
  OBVIOUS
<1>1. CASE Refuse
  BY <1>1 DEF Refuse, RecordsInv, FileInv, JobInv, flags
<1>2. CASE StartRun
  BY <1>2, StartRunInv
<1>3. CASE OnPage
  BY <1>3, OnPageInv
<1>4. CASE EndRun
  BY <1>4, EndRunInv
<1>5. CASE RunFails
  BY <1>5 DEF RunFails, RecordsInv, FileInv, JobInv, flags, bounds
<1>6. CASE Killed
  BY <1>6, KilledInv
<1>7. CASE PowerLoss
  BY <1>7, PowerLossInv
<1>8. CASE UNCHANGED vars
  BY <1>8 DEF vars, RecordsInv, FileInv, JobInv, flags, bounds
<1> QED
  BY <1>1, <1>2, <1>3, <1>4, <1>5, <1>6, <1>7, <1>8 DEF Next

(* Whatever runs, kills and power losses come one after the other: the file *)
(* is one the program wrote, and a run knows which pages have a record.     *)
THEOREM RecordsInvariant == Spec => []RecordsInv
  BY RecordsInit, RecordsStep, PTL DEF Spec
------------------------------------------------------------------------------
(* Successes counts the places of a page's records. *)
LEMMA Counting ==
  ASSUME NEW t \in Seq(Piece), NEW p
  PROVE  /\ IsFiniteSet(Where(t, p)) /\ Cardinality(Where(t, p)) \in Nat
         /\ Cardinality(Where(t, p)) = 0 <=> Where(t, p) = {}
<1>1. IsFiniteSet(2 .. Len(t))
  BY FS_Interval, LenProperties
<1>2. IsFiniteSet(Where(t, p))
  BY <1>1, FS_Subset DEF Where
<1> QED
  BY <1>2, FS_CardinalityType, FS_EmptySet

(* The successes of a page are its places in the file. *)
LEMMA SuccessesIs == \A p : Successes(p) = Cardinality(Where(file, p))
BY DEF Successes, Where

(* "Ok" is said only when every input has a successful record: the runs     *)
(* before this one may have been cut short anywhere (main.rs, RunJob::run). *)
THEOREM OkIsRecorded == Spec => []OkMeansRecorded
<1>1. RecordsInv => OkMeansRecorded
  <2> SUFFICES ASSUME RecordsInv, exit = "ok", NEW p \in Pages PROVE Successes(p) > 0
    BY DEF OkMeansRecorded
  <2>1. Where(file, p) # {} /\ file \in Seq(Piece)
    BY DEF RecordsInv, FileInv, JobInv
  <2>2. Cardinality(Where(file, p)) \in Nat /\ Cardinality(Where(file, p)) # 0
    BY <2>1, Counting
  <2> QED
    BY <2>2, SuccessesIs
<1> QED
  BY <1>1, RecordsInvariant, PTL

(* The file of any sequence of runs and kills is accepted by the next run:  *)
(* only a power loss that left no record makes it look like another file    *)
(* (book/resume.rs, Existing.foreign).                                      *)
THEOREM OwnOutputIsAccepted == Spec => []OwnOutputAccepted
<1>1. RecordsInv => OwnOutputAccepted
  <2> SUFFICES ASSUME RecordsInv, IsForeign(file)
               PROVE  /\ \E i \in DOMAIN file : file[i] = NUL
                      /\ \A p \in Pages : Successes(p) = 0
    BY DEF OwnOutputAccepted
  <2>1. file \in Seq(Piece) /\ Clean(file)
    BY DEF RecordsInv, FileInv
  <2>2. (\E i \in DOMAIN file : file[i] = NUL) /\ \A p : Where(file, p) = {}
    BY <2>1, ForeignIsDamaged
  <2> QED
    BY <2>2, FS_EmptySet, SuccessesIs
<1> QED
  BY <1>1, RecordsInvariant, PTL

(* Only a power loss takes a record away. *)
LEMMA NoRecordLost ==
  ASSUME RecordsInv, [Next]_vars, ~PowerLoss, NEW p
  PROVE  Where(file, p) \subseteq Where(file', p)
<1>1. CASE StartRun
  BY <1>1, RepairedIs DEF StartRun, RecordsInv, FileInv
<1>2. CASE OnPage
  <2>1. running /\ ~failure /\ todo # <<>> /\ \E o \in Outcome : \E s : Written(s, Head(todo), o) /\ file' = file \o s
    BY <1>2, OnPageWrites
  <2>2. Head(todo) \in Pages
    BY <2>1, NextPage DEF RecordsInv
  <2> QED
    BY <2>1, <2>2, WritingAdds
<1>3. CASE Killed
  <2>1. CASE file' = file
    BY <2>1
  <2>2. CASE /\ ~failure /\ todo # <<>>
             /\ \E o \in Outcome : \E s : Written(s, Head(todo), o) /\ file' = file \o s
    <3>1. Head(todo) \in Pages /\ running
      BY <1>3, <2>2, NextPage DEF RecordsInv, Killed
    <3> QED
      BY <2>2, <3>1, WritingAdds
  <2> QED
    BY <1>3, <2>1, <2>2, KilledWrites
<1>4. CASE Refuse \/ EndRun \/ RunFails \/ UNCHANGED vars
  BY <1>4 DEF Refuse, EndRun, RunFails, vars
<1> QED
  BY <1>1, <1>2, <1>3, <1>4 DEF Next

(* A page once recorded stays recorded through every repair, write and kill *)
(* (book/resume.rs, scan_output and open_output).                           *)
THEOREM RecordsAreKept == Spec => RecordsStay
<1>1. RecordsInv /\ [Next]_vars =>
        [\A p \in Pages : Successes(p)' < Successes(p) => outages' # outages]_vars
  <2> SUFFICES ASSUME RecordsInv, [Next]_vars, NEW p \in Pages, outages' = outages
               PROVE  ~(Successes(p)' < Successes(p))
    OBVIOUS
  <2>1. file \in Seq(Piece) /\ outages \in Nat /\ file' \in Seq(Piece)
    BY RecordsStep DEF RecordsInv, FileInv
  <2>2. ~PowerLoss
    BY <2>1 DEF PowerLoss
  <2>3. Where(file, p) \subseteq Where(file', p)
    BY <2>2, NoRecordLost
  <2>4. /\ Cardinality(Where(file, p)) <= Cardinality(Where(file', p))
        /\ Cardinality(Where(file, p)) \in Nat /\ Cardinality(Where(file', p)) \in Nat
    BY <2>1, <2>3, Counting, FS_Subset
  <2>5. Successes(p)' = Cardinality(Where(file', p))
    BY DEF Successes, Where
  <2> QED
    BY <2>4, <2>5, SuccessesIs
<1> QED
  BY <1>1, RecordsInvariant, PTL DEF Spec, RecordsStay

(* --resume adds a record only to a page that has none (main.rs, `todo`).   *)
THEOREM ResumeAddsOnlyMissing == Spec => ResumeAddsMissingOnly
<1>1. RecordsInv /\ [Next]_vars =>
        [\A p \in Pages :
           resume /\ running /\ Successes(p)' > Successes(p) => Successes(p) = 0]_vars
  <2> SUFFICES ASSUME RecordsInv, [Next]_vars, NEW p \in Pages,
                      resume, running, Successes(p)' > Successes(p)
               PROVE  Successes(p) = 0
    OBVIOUS
  <2>1. file \in Seq(Piece) /\ Cardinality(Where(file, p)) \in Nat
    BY Counting DEF RecordsInv, FileInv
  <2>2. Successes(p)' = Cardinality(Where(file', p)) /\ Successes(p) = Cardinality(Where(file, p))
    BY SuccessesIs DEF Successes, Where
  <2>3. Where(file', p) # Where(file, p)
    BY <2>1, <2>2
  <2>4. /\ ~failure /\ todo # <<>>
        /\ \E o \in Outcome : \E s : Written(s, Head(todo), o) /\ file' = file \o s
    <3>1. file' # file
      BY <2>3
    <3>2. OnPage \/ Killed
      BY <3>1 DEF Next, Refuse, StartRun, EndRun, RunFails, PowerLoss, vars
    <3> QED
      BY <3>1, <3>2, OnPageWrites, KilledWrites
  <2>5. Head(todo) \in Pages /\ Head(todo) = todo[1] /\ 1 \in DOMAIN todo
    BY <2>4, NextPage DEF RecordsInv
  <2>6. p = Head(todo)
    BY <2>3, <2>4, <2>5, WritingAdds
  <2>7. Where(file, p) = {}
    BY <2>4, <2>5, <2>6 DEF RecordsInv, JobInv
  <2> QED
    BY <2>2, <2>7, FS_EmptySet
<1> QED
  BY <1>1, RecordsInvariant, PTL DEF Spec, ResumeAddsMissingOnly
------------------------------------------------------------------------------
(* The loads are told by the state: one when the runner is there or was     *)
(* given up, none before.                                                   *)
LoadsCounted ==
  \/ nearExact \in {"off", "unloaded"} /\ loads = 0
  \/ nearExact \in {"loaded", "failed"} /\ loads = 1

(* What on_page asks of the escalation keeps the count. *)
LEMMA EscalateCounts ==
  ASSUME LoadsCounted, Escalate
  PROVE  LoadsCounted'
<1>1. CASE UNCHANGED escalation
  BY <1>1 DEF LoadsCounted, escalation
<1>2. CASE LoadFails
  BY <1>2 DEF LoadsCounted, LoadFails
<1>3. CASE LoadAndReread
  BY <1>3 DEF LoadsCounted, LoadAndReread, Reread, RunnerAfter
<1>4. CASE RereadAgain
  BY <1>4 DEF LoadsCounted, RereadAgain, Reread, RunnerAfter
<1>5. CASE StaysFast
  BY <1>5 DEF LoadsCounted, StaysFast, escalation
<1>6. QED
  BY <1>1, <1>2, <1>3, <1>4, <1>5 DEF Escalate

(* A page whose record is written, or fails to be. *)
LEMMA OnPageCounts ==
  ASSUME LoadsCounted, OnPage
  PROVE  LoadsCounted'
<1>1. CASE PageDone
  BY <1>1, EscalateCounts DEF PageDone
<1>2. CASE PageFails
  BY <1>2 DEF PageFails, LoadsCounted, escalation
<1>3. CASE WriteFails
  <2>1. Escalate \/ UNCHANGED escalation
    BY <1>3 DEF WriteFails
  <2>2. QED
    BY <2>1, EscalateCounts DEF LoadsCounted, escalation
<1>4. QED
  BY <1>1, <1>2, <1>3 DEF OnPage

(* Every step keeps the count of loads what the escalation's state says. *)
LEMMA StepCounts ==
  ASSUME LoadsCounted, [Next]_vars
  PROVE  LoadsCounted'
<1>1. CASE Refuse
  BY <1>1 DEF Refuse, LoadsCounted, escalation
<1>2. CASE StartRun
  BY <1>2 DEF StartRun, StartEscalation, LoadsCounted
<1>3. CASE OnPage
  BY <1>3, OnPageCounts
<1>4. CASE EndRun
  BY <1>4 DEF EndRun, EndEscalation, LoadsCounted
<1>5. CASE RunFails
  BY <1>5 DEF RunFails, EndEscalation, LoadsCounted
<1>6. CASE Killed
  BY <1>6 DEF Killed, EndEscalation, LoadsCounted
<1>7. CASE PowerLoss
  BY <1>7 DEF PowerLoss, LoadsCounted, escalation
<1>8. CASE UNCHANGED vars
  BY <1>8 DEF vars, LoadsCounted, escalation
<1>9. QED
  BY <1>1, <1>2, <1>3, <1>4, <1>5, <1>6, <1>7, <1>8 DEF Next

(* A run loads the near-exact model at most once, whatever its pages, their *)
(* rereads and its own end come to (runner/escalate.rs, Escalation::rerun). *)
THEOREM LoadedOnce == Spec => []LoadsOnce
<1>1. Init => LoadsCounted
  BY DEF Init, NoEscalation, LoadsCounted
<1>2. LoadsCounted /\ [Next]_vars => LoadsCounted'
  BY StepCounts
<1>3. LoadsCounted => LoadsOnce
  BY DEF LoadsCounted, LoadsOnce
<1>4. QED
  BY <1>1, <1>2, <1>3, PTL DEF Spec
=============================================================================
