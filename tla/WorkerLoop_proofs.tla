-------------------------- MODULE WorkerLoop_proofs --------------------------
(***************************************************************************)
(* Proofs about the worker loop and the state file, for every number of    *)
(* goals, journal length, pause threshold, and number of unpauses and      *)
(* crashes.  The helpers of state.ts write files one after the other: the  *)
(* lemmas first give these files explicitly, then each action keeps Inv.   *)
(***************************************************************************)
EXTENDS WorkerLoop, SequenceTheorems, TLAPS

\* A file state.ts can have written.
Good == {f \in File : Len(f.journal) <= JournalMax}

Noted(f, kind) == AppendJournal(f, kind)[1]

\* What the journal of f says of its last pause or unpause is so.
Mark(kind) == kind \in {"pause", "unpause"}

Tells(f) ==
  \A i \in 1 .. Len(f.journal) :
    Mark(f.journal[i]) /\ (\A k \in i + 1 .. Len(f.journal) : ~Mark(f.journal[k])) =>
      (f.paused <=> f.journal[i] = "pause")

-----------------------------------------------------------------------------

LEMMA NotedFact ==
  ASSUME NEW f \in Good, NEW kind \in Kind
  PROVE  /\ AppendJournal(f, kind) = <<Noted(f, kind)>>
         /\ Noted(f, kind) \in Good
         /\ Noted(f, kind).paused = f.paused
         /\ Noted(f, kind).errorStreak = f.errorStreak
         /\ Noted(f, kind).work = f.work
         /\ \E n \in 0 .. 1 :
              /\ Len(Noted(f, kind).journal) = Len(f.journal) + 1 - n
              /\ Noted(f, kind).journal[Len(f.journal) + 1 - n] = kind
              /\ \A i \in 1 .. Len(f.journal) - n :
                   Noted(f, kind).journal[i] = f.journal[n + i]
<1> DEFINE j == Append(f.journal, kind)
           n == IF Len(j) > JournalMax THEN Len(j) - JournalMax ELSE 0
           r == SubSeq(j, n + 1, Len(j))
           g == [f EXCEPT !.journal = r]
<1>1. f \in File /\ f.journal \in Seq(Kind) /\ Len(f.journal) \in Nat /\ Len(f.journal) <= JournalMax
  BY DEF Good, File
<1>2. /\ j \in Seq(Kind) /\ Len(j) = Len(f.journal) + 1
      /\ \A i \in 1 .. Len(f.journal) : j[i] = f.journal[i]
      /\ j[Len(j)] = kind
  BY <1>1, AppendProperties
<1>3. n \in 0 .. 1 /\ Len(j) - n <= JournalMax /\ Len(j) - n \in Nat \ {0}
  BY <1>1, <1>2, ConstantsAssumption
<1>4. r \in Seq(Kind) /\ Len(r) = Len(j) - n /\ \A i \in 1 .. Len(r) : r[i] = j[n + i]
  <2>1. \A i \in n + 1 .. Len(j) : j[i] \in Kind
    BY <1>2, <1>3, ElementOfSeq
  <2> HIDE DEF j, n
  <2>2. /\ SubSeq(j, n + 1, Len(j)) \in Seq(Kind)
        /\ Len(SubSeq(j, n + 1, Len(j))) = IF n + 1 <= Len(j) THEN Len(j) - (n + 1) + 1 ELSE 0
        /\ \A i \in 1 .. Len(j) - (n + 1) + 1 : SubSeq(j, n + 1, Len(j))[i] = j[(n + 1) + i - 1]
    <3>1. n + 1 \in Int /\ Len(j) \in Int
      BY <1>1, <1>2, <1>3
    <3>2. QED
      BY <2>1, <3>1, SubSeqProperties
  <2>3. QED
    BY <1>1, <1>2, <1>3, <2>2
<1>5. AppendJournal(f, kind) = <<g>>
  BY DEF AppendJournal
<1>6. Noted(f, kind) = g
  BY <1>5 DEF Noted
<1> HIDE DEF j, n, r
<1>7. g \in Good /\ g.paused = f.paused /\ g.errorStreak = f.errorStreak /\ g.work = f.work
  BY <1>1, <1>3, <1>4 DEF Good, File
<1>8. g.journal = r
  BY <1>1 DEF Good, File
<1>9. /\ Len(r) = Len(f.journal) + 1 - n
      /\ r[Len(f.journal) + 1 - n] = kind
      /\ \A i \in 1 .. Len(f.journal) - n : r[i] = f.journal[n + i]
  <2>1. Len(r) = Len(f.journal) + 1 - n /\ Len(r) \in Nat \ {0} /\ n + Len(r) = Len(j)
    BY <1>1, <1>2, <1>3, <1>4
  <2>2. Len(r) \in 1 .. Len(r)
    BY <2>1
  <2>3. r[Len(r)] = kind
    BY <1>2, <1>4, <2>1, <2>2
  <2>4. ASSUME NEW i \in 1 .. Len(f.journal) - n PROVE r[i] = f.journal[n + i]
    <3>1. i \in 1 .. Len(r) /\ n + i \in 1 .. Len(f.journal)
      BY <1>1, <1>3, <2>1
    <3>2. QED
      BY <1>2, <1>4, <3>1
  <2>5. QED
    BY <2>1, <2>3, <2>4
<1>10. QED
  BY <1>3, <1>5, <1>6, <1>7, <1>8, <1>9

\* The entry of a pause or unpause tells the truth when the flag is as it says.
LEMMA MarkTells ==
  ASSUME NEW f \in Good, NEW kind \in {"pause", "unpause"}, f.paused <=> kind = "pause"
  PROVE  Tells(Noted(f, kind))
<1> DEFINE j == Noted(f, kind).journal
<1>1. kind \in Kind
  BY DEF Kind
<1>2. PICK n \in 0 .. 1 : Len(j) = Len(f.journal) + 1 - n /\ j[Len(f.journal) + 1 - n] = kind
  BY <1>1, NotedFact
<1>3. Len(f.journal) \in Nat
  BY DEF Good, File
<1>4. ASSUME NEW i \in 1 .. Len(j), \A k \in i + 1 .. Len(j) : ~Mark(j[k]) PROVE i = Len(j)
  BY <1>2, <1>3, <1>4 DEF Mark
<1>5. j[Len(j)] = kind /\ Noted(f, kind).paused = f.paused
  BY <1>1, <1>2, NotedFact
<1>6. QED
  BY <1>4, <1>5 DEF Tells

\* Any other entry changes nothing of it.
LEMMA OtherTells ==
  ASSUME NEW f \in Good, NEW kind \in {"tick", "error"}, Tells(f)
  PROVE  Tells(Noted(f, kind))
<1> DEFINE j == Noted(f, kind).journal
<1>1. kind \in Kind /\ ~Mark(kind)
  BY DEF Kind, Mark
<1>2. PICK n \in 0 .. 1 :
        /\ Len(j) = Len(f.journal) + 1 - n
        /\ j[Len(f.journal) + 1 - n] = kind
        /\ \A i \in 1 .. Len(f.journal) - n : j[i] = f.journal[n + i]
  BY <1>1, NotedFact
<1>3. Len(f.journal) \in Nat
  BY DEF Good, File
<1>4. Noted(f, kind).paused = f.paused
  BY <1>1, NotedFact
<1>5. SUFFICES ASSUME NEW i \in 1 .. Len(j), Mark(j[i]),
                      \A k \in i + 1 .. Len(j) : ~Mark(j[k])
               PROVE  f.paused <=> j[i] = "pause"
  BY <1>4 DEF Tells
<1>6. i # Len(j)
  BY <1>1, <1>2, <1>5
<1>7. n + i \in 1 .. Len(f.journal) /\ j[i] = f.journal[n + i]
  BY <1>2, <1>3, <1>6
<1>8. ASSUME NEW k \in n + i + 1 .. Len(f.journal) PROVE ~Mark(f.journal[k])
  <2>1. k - n \in i + 1 .. Len(j) /\ k - n \in 1 .. Len(f.journal) - n
    BY <1>2, <1>3
  <2>2. j[k - n] = f.journal[k]
    BY <1>2, <1>3, <2>1
  <2>3. QED
    BY <1>5, <2>1, <2>2
<1>9. QED
  BY <1>5, <1>7, <1>8 DEF Tells

-----------------------------------------------------------------------------
(***************************************************************************)
(* The sequences of files the helpers write.                               *)
(***************************************************************************)

LEMMA ConcatFact ==
  ASSUME NEW a, NEW b, NEW c
  PROVE  /\ <<a>> \o << >> = <<a>>
         /\ <<a>> \o <<b>> = <<a, b>>
         /\ <<a>> \o <<b, c>> = <<a, b, c>>
<1> DEFINE S == {a, b, c}
<1>1. <<a>> \o << >> = <<a>>
  BY ConcatEmptySeq, <<a>> \in Seq(S)
<1>2. <<a>> \o <<b>> = <<a, b>>
  <2>1. <<a>> \in Seq(S) /\ <<b>> \in Seq(S) /\ <<a, b>> \in Seq(S)
    OBVIOUS
  <2>2. /\ <<a>> \o <<b>> \in Seq(S) /\ Len(<<a>> \o <<b>>) = 2
        /\ \A i \in 1 .. 2 : (<<a>> \o <<b>>)[i] = IF i <= 1 THEN <<a>>[i] ELSE <<b>>[i - 1]
    BY <2>1, ConcatProperties
  <2>3. Len(<<a, b>>) = 2 /\ \A i \in 1 .. 2 : (<<a>> \o <<b>>)[i] = <<a, b>>[i]
    BY <2>2
  <2>4. QED
    BY <2>1, <2>2, <2>3, SeqEqual
<1>3. <<a>> \o <<b, c>> = <<a, b, c>>
  <2>1. <<a>> \in Seq(S) /\ <<b, c>> \in Seq(S) /\ <<a, b, c>> \in Seq(S)
    OBVIOUS
  <2>2. /\ <<a>> \o <<b, c>> \in Seq(S) /\ Len(<<a>> \o <<b, c>>) = 3
        /\ \A i \in 1 .. 3 :
             (<<a>> \o <<b, c>>)[i] = IF i <= 1 THEN <<a>>[i] ELSE <<b, c>>[i - 1]
    BY <2>1, ConcatProperties
  <2>3. Len(<<a, b, c>>) = 3 /\ \A i \in 1 .. 3 : (<<a>> \o <<b, c>>)[i] = <<a, b, c>>[i]
    BY <2>2
  <2>4. QED
    BY <2>1, <2>2, <2>3, SeqEqual
<1>4. QED
  BY <1>1, <1>2, <1>3

LEMMA AppendFact ==
  ASSUME NEW a, NEW b, NEW c, NEW d
  PROVE  <<a, b, c>> \o <<d>> = <<a, b, c, d>>
<1> DEFINE S == {a, b, c, d}
<1>1. <<a, b, c>> \in Seq(S) /\ <<d>> \in Seq(S) /\ <<a, b, c, d>> \in Seq(S)
  OBVIOUS
<1>2. /\ <<a, b, c>> \o <<d>> \in Seq(S) /\ Len(<<a, b, c>> \o <<d>>) = 4
      /\ \A i \in 1 .. 4 :
           (<<a, b, c>> \o <<d>>)[i] = IF i <= 3 THEN <<a, b, c>>[i] ELSE <<d>>[i - 3]
  BY <1>1, ConcatProperties
<1>3. Len(<<a, b, c, d>>) = 4 /\ \A i \in 1 .. 4 : (<<a, b, c>> \o <<d>>)[i] = <<a, b, c, d>>[i]
  BY <1>2
<1>4. QED
  BY <1>1, <1>2, <1>3, SeqEqual

\* setPaused: the flag, then the entry.
LEMMA SetPausedFact ==
  ASSUME NEW f \in Good, NEW p \in BOOLEAN, f.paused # p
  PROVE  /\ [f EXCEPT !.paused = p] \in Good
         /\ SetPaused(f, p) =
              <<[f EXCEPT !.paused = p],
                Noted([f EXCEPT !.paused = p], IF p THEN "pause" ELSE "unpause")>>
<1> DEFINE g == [f EXCEPT !.paused = p]
           kind == IF p THEN "pause" ELSE "unpause"
<1>1. g \in Good
  BY DEF Good, File
<1>2. AppendJournal(g, kind) = <<Noted(g, kind)>> /\ Noted(g, kind) \in Good
  BY <1>1, NotedFact DEF Kind
<1>3. Last(f, <<g>>) = g
  BY DEF Last
<1>4. SetPaused(f, p) = <<g>> \o AppendJournal(g, kind)
  BY <1>3 DEF SetPaused, Then
<1>5. <<g>> \o <<Noted(g, kind)>> = <<g, Noted(g, kind)>>
  BY <1>1, <1>2, ConcatFact
<1>6. QED
  BY <1>1, <1>2, <1>4, <1>5

\* The end of a successful tick: the entry, then the streak if there was one.
LEMMA SuccessFact ==
  ASSUME NEW f \in Good
  PROVE  LET N == Noted(f, "tick")
         IN  /\ N \in Good /\ [N EXCEPT !.errorStreak = 0] \in Good
             /\ SuccessWrites(f) =
                  IF f.errorStreak = 0 THEN <<N>> ELSE <<N, [N EXCEPT !.errorStreak = 0]>>
<1> DEFINE N == Noted(f, "tick")
           Z == [N EXCEPT !.errorStreak = 0]
<1>1. AppendJournal(f, "tick") = <<N>> /\ N \in Good /\ N.errorStreak = f.errorStreak
  BY NotedFact DEF Kind
<1>2. Z \in Good
  BY <1>1 DEF Good, File
<1>3. Last(f, <<N>>) = N
  BY DEF Last
<1>4. SuccessWrites(f) = <<N>> \o ResetErrorStreak(N)
  BY <1>1, <1>3 DEF SuccessWrites, Then
<1>5. <<N>> \o << >> = <<N>> /\ <<N>> \o <<Z>> = <<N, Z>>
  BY <1>1, <1>2, ConcatFact
<1>6. QED
  BY <1>1, <1>2, <1>4, <1>5 DEF ResetErrorStreak

\* The end of a failed one: the streak; at the threshold the flag and its entry,
\* unless the file says paused already; the entry of the failure.
Failed(f) == [f EXCEPT !.errorStreak = @ + 1]
AutoPauses(f) == f.errorStreak + 1 >= AutoPause /\ ~f.paused
Flagged(f) == [Failed(f) EXCEPT !.paused = TRUE]
Paused(f) == Noted(Flagged(f), "pause")

LEMMA FailureFact ==
  ASSUME NEW f \in Good
  PROVE  /\ Failed(f) \in Good /\ Flagged(f) \in Good /\ Paused(f) \in Good
         /\ FailureWrites(f) =
              IF AutoPauses(f)
                THEN <<Failed(f), Flagged(f), Paused(f), Noted(Paused(f), "error")>>
                ELSE <<Failed(f), Noted(Failed(f), "error")>>
<1>1. /\ Failed(f) \in Good /\ Flagged(f) \in Good
      /\ Failed(f).errorStreak = f.errorStreak + 1 /\ Failed(f).paused = f.paused
  <2>1. f \in File /\ f.errorStreak \in Nat
    BY DEF Good, File
  <2>2. /\ Failed(f) \in File /\ Failed(f).errorStreak = f.errorStreak + 1
        /\ Failed(f).paused = f.paused /\ Failed(f).journal = f.journal
    BY <2>1 DEF File, Failed
  <2>3. Flagged(f) \in File /\ Flagged(f).journal = Failed(f).journal
    BY <2>2 DEF File, Flagged
  <2>4. QED
    BY <2>2, <2>3 DEF Good
<1>2. Paused(f) \in Good
  BY <1>1, NotedFact DEF Paused, Kind
<1>3. Last(f, <<Failed(f)>>) = Failed(f)
  BY DEF Last
<1>4. IncrementErrorStreak(f) =
        <<Failed(f)>> \o (IF Failed(f).errorStreak >= AutoPause THEN SetPaused(Failed(f), TRUE)
                                                               ELSE << >>)
  BY <1>3 DEF IncrementErrorStreak, Then, Failed
<1>5. CASE AutoPauses(f)
  <2>1. SetPaused(Failed(f), TRUE) = <<Flagged(f), Paused(f)>>
    <3>1. Failed(f).paused # TRUE
      BY <1>1, <1>5 DEF AutoPauses
    <3>2. SetPaused(Failed(f), TRUE) =
            <<Flagged(f), Noted(Flagged(f), IF TRUE THEN "pause" ELSE "unpause")>>
      BY <1>1, <3>1, SetPausedFact DEF Flagged
    <3>3. QED
      BY <3>2 DEF Paused
  <2>2. IncrementErrorStreak(f) = <<Failed(f), Flagged(f), Paused(f)>>
    <3>1. IncrementErrorStreak(f) = <<Failed(f)>> \o <<Flagged(f), Paused(f)>>
      BY <1>1, <1>4, <1>5, <2>1 DEF AutoPauses
    <3>2. QED
      BY <3>1, ConcatFact
  <2>3. Last(f, <<Failed(f), Flagged(f), Paused(f)>>) = Paused(f)
    BY DEF Last
  <2>4. /\ AppendJournal(Paused(f), "error") = <<Noted(Paused(f), "error")>>
        /\ Noted(Paused(f), "error") \in Good
    BY <1>2, NotedFact DEF Kind
  <2>5. FailureWrites(f) = <<Failed(f), Flagged(f), Paused(f)>> \o <<Noted(Paused(f), "error")>>
    BY <2>2, <2>3, <2>4 DEF FailureWrites, Then
  <2>6. QED
    <3>1. <<Failed(f), Flagged(f), Paused(f)>> \o <<Noted(Paused(f), "error")>>
            = <<Failed(f), Flagged(f), Paused(f), Noted(Paused(f), "error")>>
      BY AppendFact
    <3>2. QED
      BY <1>1, <1>2, <1>5, <2>5, <3>1
<1>6. CASE ~AutoPauses(f)
  <2>1. IncrementErrorStreak(f) = <<Failed(f)>> \o << >>
    BY <1>1, <1>4, <1>6 DEF AutoPauses, SetPaused
  <2>2. IncrementErrorStreak(f) = <<Failed(f)>>
    BY <1>1, <2>1, ConcatFact
  <2>3. /\ AppendJournal(Failed(f), "error") = <<Noted(Failed(f), "error")>>
        /\ Noted(Failed(f), "error") \in Good
    BY <1>1, NotedFact DEF Kind
  <2>4. FailureWrites(f) = <<Failed(f)>> \o <<Noted(Failed(f), "error")>>
    BY <1>3, <2>2, <2>3 DEF FailureWrites, Then
  <2>5. QED
    BY <1>1, <1>2, <1>6, <2>3, <2>4, ConcatFact
<1>7. QED
  BY <1>5, <1>6

-----------------------------------------------------------------------------
(***************************************************************************)
(* What the last of these files, and those before it, have in common with  *)
(* the file they start from.                                               *)
(***************************************************************************)

\* A crash that leaves g of f tells the truth, or is seen by torn.
Cut(f, g) ==
  IF g.paused = f.paused THEN Tells(f) => Tells(g) ELSE g.journal = f.journal \/ Tells(g)

\* Only the journal and the flag of a pause differ.
SameAccount(f, g) == g \in Good /\ g.work = f.work /\ g.errorStreak = f.errorStreak

LEMMA SuccessEnds ==
  ASSUME NEW f \in Good
  PROVE  /\ LET g == Last(f, SuccessWrites(f))
            IN  /\ g \in Good /\ g.work = f.work /\ g.errorStreak = 0
                /\ g.paused = f.paused /\ (Tells(f) => Tells(g))
         /\ \A k \in 1 .. Len(SuccessWrites(f)) - 1 :
              LET g == SuccessWrites(f)[k]
              IN  SameAccount(f, g) /\ g.paused = f.paused /\ Cut(f, g)
<1> DEFINE N == Noted(f, "tick")
           Z == [N EXCEPT !.errorStreak = 0]
<1>1. /\ N \in Good /\ Z \in Good /\ N.paused = f.paused /\ N.work = f.work
      /\ N.errorStreak = f.errorStreak
      /\ SuccessWrites(f) = IF f.errorStreak = 0 THEN <<N>> ELSE <<N, Z>>
  BY NotedFact, SuccessFact DEF Kind
<1>2. Tells(f) => Tells(N)
  BY OtherTells
<1> HIDE DEF N
<1>3. /\ Z.errorStreak = 0 /\ Z.paused = N.paused /\ Z.work = N.work /\ Z.journal = N.journal
  BY <1>1 DEF Good, File
<1>4. Tells(N) => Tells(Z)
  BY <1>3 DEF Tells
<1> HIDE DEF Z
<1>5. CASE f.errorStreak = 0
  <2>1. SuccessWrites(f) = <<N>> /\ Last(f, SuccessWrites(f)) = N /\ Len(SuccessWrites(f)) = 1
    BY <1>1, <1>5 DEF Last
  <2>2. QED
    BY <1>1, <1>2, <1>5, <2>1
<1>6. CASE f.errorStreak # 0
  <2>1. /\ SuccessWrites(f) = <<N, Z>> /\ Last(f, SuccessWrites(f)) = Z
        /\ Len(SuccessWrites(f)) = 2 /\ SuccessWrites(f)[1] = N
    BY <1>1, <1>6 DEF Last
  <2>2. SameAccount(f, N) /\ Cut(f, N)
    BY <1>1, <1>2 DEF SameAccount, Cut
  <2>3. \A k \in 1 .. Len(SuccessWrites(f)) - 1 : k = 1
    BY <2>1
  <2>4. QED
    BY <1>1, <1>2, <1>3, <1>4, <2>1, <2>2, <2>3
<1>7. QED
  BY <1>5, <1>6

LEMMA PauseEnds ==
  ASSUME NEW f \in Good, NEW p \in BOOLEAN, f.paused # p
  PROVE  /\ LET g == Last(f, SetPaused(f, p))
            IN  SameAccount(f, g) /\ g.paused = p /\ Tells(g)
         /\ \A k \in 1 .. Len(SetPaused(f, p)) - 1 :
              LET g == SetPaused(f, p)[k]
              IN  SameAccount(f, g) /\ g.paused = p /\ Cut(f, g)
<1> DEFINE F == [f EXCEPT !.paused = p]
           kind == IF p THEN "pause" ELSE "unpause"
           N == Noted(F, kind)
<1>1. F \in Good /\ SetPaused(f, p) = <<F, N>>
  BY SetPausedFact
<1>2. /\ F.paused = p /\ F.work = f.work /\ F.errorStreak = f.errorStreak
      /\ F.journal = f.journal
  BY DEF Good, File
<1>3. kind \in Kind /\ kind \in {"pause", "unpause"} /\ (p <=> kind = "pause")
  BY DEF Kind
<1> HIDE DEF F, kind
<1>4. N \in Good /\ N.paused = p /\ N.work = f.work /\ N.errorStreak = f.errorStreak
  BY <1>1, <1>2, <1>3, NotedFact
<1>5. Tells(N)
  BY <1>1, <1>2, <1>3, MarkTells
<1> HIDE DEF N
<1>6. /\ Last(f, SetPaused(f, p)) = N /\ Len(SetPaused(f, p)) = 2 /\ SetPaused(f, p)[1] = F
  BY <1>1 DEF Last
<1>7. SameAccount(f, N) /\ SameAccount(f, F) /\ Cut(f, F)
  BY <1>1, <1>2, <1>4 DEF SameAccount, Cut
<1>8. \A k \in 1 .. Len(SetPaused(f, p)) - 1 : k = 1
  BY <1>6
<1>9. QED
  BY <1>2, <1>4, <1>5, <1>6, <1>7, <1>8

LEMMA FailureEnds ==
  ASSUME NEW f \in Good
  PROVE  /\ LET g == Last(f, FailureWrites(f))
            IN  /\ g \in Good /\ g.work = f.work /\ g.errorStreak = f.errorStreak + 1
                /\ f.paused => g.paused
                /\ ~g.paused => f.errorStreak + 1 < AutoPause
                /\ Tells(f) => Tells(g)
         /\ \A k \in 1 .. Len(FailureWrites(f)) - 1 :
              LET g == FailureWrites(f)[k]
              IN  /\ g \in Good /\ g.work = f.work /\ g.errorStreak = f.errorStreak + 1
                  /\ f.paused => g.paused
                  /\ Cut(f, g)
<1> DEFINE A == Failed(f)
           B == Flagged(f)
           C == Paused(f)
<1>1. /\ A \in Good /\ B \in Good /\ C \in Good
      /\ FailureWrites(f) = IF AutoPauses(f) THEN <<A, B, C, Noted(C, "error")>>
                                            ELSE <<A, Noted(A, "error")>>
  BY FailureFact
<1>2. /\ A.work = f.work /\ A.errorStreak = f.errorStreak + 1 /\ A.paused = f.paused
      /\ A.journal = f.journal
  BY DEF Good, File, Failed
<1>3. /\ B.work = f.work /\ B.errorStreak = f.errorStreak + 1 /\ B.paused = TRUE
      /\ B.journal = f.journal
  BY <1>1, <1>2 DEF Good, File, Flagged
<1>4. C.work = f.work /\ C.errorStreak = f.errorStreak + 1 /\ C.paused = TRUE
  BY <1>1, <1>3, NotedFact DEF Paused, Kind
<1>5. Tells(C)
  BY <1>1, <1>3, MarkTells DEF Paused
<1>6. Tells(f) => Tells(A)
  BY <1>2 DEF Tells
<1>7. \A g \in Good : /\ Noted(g, "error") \in Good /\ Noted(g, "error").work = g.work
                      /\ Noted(g, "error").errorStreak = g.errorStreak
                      /\ Noted(g, "error").paused = g.paused
                      /\ Tells(g) => Tells(Noted(g, "error"))
  BY NotedFact, OtherTells DEF Kind
<1>8. Cut(f, A) /\ Cut(f, B) /\ Cut(f, C)
  <2>1. B.paused = f.paused => (Tells(f) => Tells(B))
    BY <1>3 DEF Tells
  <2> HIDE DEF A, B, C
  <2>2. QED
    BY <1>2, <1>3, <1>5, <1>6, <2>1 DEF Cut
<1>9. f.paused \in BOOLEAN /\ f.errorStreak \in Nat
  BY DEF Good, File
<1> HIDE DEF A, B, C
<1>10. CASE AutoPauses(f)
  <2>1. /\ FailureWrites(f) = <<A, B, C, Noted(C, "error")>>
        /\ Last(f, FailureWrites(f)) = Noted(C, "error") /\ Len(FailureWrites(f)) = 4
    BY <1>1, <1>10 DEF Last
  <2>2. \A k \in 1 .. Len(FailureWrites(f)) - 1 : FailureWrites(f)[k] \in {A, B, C}
    <3>1. FailureWrites(f)[1] = A /\ FailureWrites(f)[2] = B /\ FailureWrites(f)[3] = C
      BY <2>1
    <3>2. \A k \in 1 .. Len(FailureWrites(f)) - 1 : k \in {1, 2, 3}
      BY <2>1
    <3>3. QED
      BY <3>1, <3>2
  <2>3. QED
    BY <1>1, <1>2, <1>3, <1>4, <1>5, <1>7, <1>8, <2>1, <2>2
<1>11. CASE ~AutoPauses(f)
  <2>1. /\ FailureWrites(f) = <<A, Noted(A, "error")>> /\ FailureWrites(f)[1] = A
        /\ Last(f, FailureWrites(f)) = Noted(A, "error") /\ Len(FailureWrites(f)) = 2
    BY <1>1, <1>11 DEF Last
  <2>2. \A k \in 1 .. Len(FailureWrites(f)) - 1 : k = 1
    BY <2>1
  <2>3. ~f.paused => f.errorStreak + 1 < AutoPause
    BY <1>9, <1>11, ConstantsAssumption DEF AutoPauses
  <2>4. QED
    BY <1>1, <1>2, <1>6, <1>7, <1>8, <2>1, <2>2, <2>3
<1>12. QED
  BY <1>10, <1>11

-----------------------------------------------------------------------------
(***************************************************************************)
(* The invariant.                                                          *)
(***************************************************************************)

Allowance == AutoPause + unpauses + crashes

\* The streak in the file counts the failures in a row; a tick under way, and an
\* agent that is not paused, still have one to spare.
StreakFits ==
  /\ failures = disk.errorStreak
  /\ failures <= Allowance
  /\ pc \in {"gathering", "generating"} \/ ~disk.paused => failures < Allowance

\* At most the tick under way has a call of the model left.
CallsFit ==
  disk.paused => callsPaused <= 1 /\ (pc = "gathering" => callsPaused = 0)

JournalFits == torn \/ Tells(disk)

Inv ==
  /\ TypeOK
  /\ StreakFits
  /\ CallsFit
  /\ JournalFits
  /\ NoLostUpdate

LEMMA DiskIsGood == TypeOK => disk \in Good
  BY DEF TypeOK, Good

LEMMA InitInv == Init => Inv
<1> SUFFICES ASSUME Init PROVE Inv
  OBVIOUS
<1>1. Empty \in File /\ Len(Empty.journal) = 0 /\ ~Empty.paused /\ Empty.errorStreak = 0
      /\ Empty.work = {}
  BY DEF Empty, File
<1>2. TypeOK
  <2>1. running \in BOOLEAN /\ aborted \in BOOLEAN /\ shuttingDown \in BOOLEAN /\ torn \in BOOLEAN
    BY DEF Init
  <2>2. disk \in File /\ Len(disk.journal) <= JournalMax /\ state \in File
    BY <1>1, ConstantsAssumption DEF Init
  <2>3. unpauses \in 0 .. MaxUnpauses /\ crashes \in 0 .. MaxCrashes
    BY ConstantsAssumption DEF Init
  <2>4. QED
    BY <2>1, <2>2, <2>3 DEF Init, TypeOK
<1>3. Tells(Empty)
  BY <1>1 DEF Tells
<1>4. QED
  BY <1>1, <1>2, <1>3, ConstantsAssumption
     DEF Init, Inv, StreakFits, Allowance, CallsFit, JournalFits, NoLostUpdate

\* A tick's beginning, its call of the model, and a throw before it.
LEMMA BeginKeeps ==
  ASSUME Inv, Start \/ Wake \/ Generate \/ GatherThrows
  PROVE  Inv'
<1>1. /\ disk' = disk /\ failures' = failures /\ work' = work /\ torn' = torn
      /\ unpauses' = unpauses /\ crashes' = crashes /\ shuttingDown' = shuttingDown
  BY DEF Start, Wake, Generate, GatherThrows, history
<1>2. TypeOK'
  <2>1. CASE Start \/ Wake
    BY <1>1, <2>1 DEF Inv, TypeOK, Start, Wake, BeginTick, AfterTick, history
  <2>2. CASE Generate \/ GatherThrows
    BY <1>1, <2>2 DEF Inv, TypeOK, Generate, GatherThrows, history
  <2>3. QED
    BY <2>1, <2>2
<1>3. StreakFits'
  BY <1>1 DEF Inv, TypeOK, File, StreakFits, Allowance, Start, Wake, BeginTick, AfterTick, Generate,
              GatherThrows
<1>4. CallsFit'
  BY <1>1 DEF Inv, TypeOK, File, CallsFit, Start, Wake, BeginTick, AfterTick, Generate, GatherThrows,
              history
<1>5. JournalFits' /\ NoLostUpdate'
  BY <1>1 DEF Inv, JournalFits, NoLostUpdate
<1>6. QED
  BY <1>2, <1>3, <1>4, <1>5 DEF Inv

LEMMA SuccessKeeps ==
  ASSUME Inv, TickSucceeds
  PROVE  Inv'
<1> DEFINE g == Last(disk, SuccessWrites(disk))
<1>1. /\ g \in Good /\ g.work = disk.work /\ g.errorStreak = 0 /\ g.paused = disk.paused
      /\ Tells(disk) => Tells(g)
  BY DiskIsGood, SuccessEnds DEF Inv
<1> HIDE DEF g
<1>2. /\ disk' = g /\ failures' = 0 /\ callsPaused' = callsPaused /\ work' = work
      /\ torn' = torn /\ unpauses' = unpauses /\ crashes' = crashes
      /\ pc' \in {"sleeping", "exited"}
      /\ running' = running /\ state' = state /\ aborted' = aborted
      /\ shuttingDown' = shuttingDown
  BY DEF TickSucceeds, EndTick, g
<1>3. TypeOK'
  BY <1>1, <1>2 DEF Inv, TypeOK, Good
<1>4. StreakFits' /\ CallsFit'
  BY <1>1, <1>2, ConstantsAssumption DEF Inv, TypeOK, StreakFits, Allowance, CallsFit
<1>5. JournalFits' /\ NoLostUpdate'
  BY <1>1, <1>2 DEF Inv, JournalFits, NoLostUpdate
<1>6. QED
  BY <1>3, <1>4, <1>5 DEF Inv

LEMMA FailureKeeps ==
  ASSUME Inv, TickFails
  PROVE  Inv'
<1> DEFINE g == Last(disk, FailureWrites(disk))
<1>1. /\ g \in Good /\ g.work = disk.work /\ g.errorStreak = disk.errorStreak + 1
      /\ disk.paused => g.paused
      /\ ~g.paused => disk.errorStreak + 1 < AutoPause
      /\ Tells(disk) => Tells(g)
  BY DiskIsGood, FailureEnds DEF Inv
<1> HIDE DEF g
<1>2. /\ disk' = g /\ failures' = failures + 1
      /\ callsPaused' = (IF disk.paused THEN callsPaused ELSE 0) /\ work' = work
      /\ torn' = torn /\ unpauses' = unpauses /\ crashes' = crashes
      /\ pc = "generating" /\ pc' \in {"sleeping", "exited"}
      /\ running' = running /\ state' = state /\ aborted' = aborted
      /\ shuttingDown' = shuttingDown
  BY DEF TickFails, EndTick, g
<1>3. TypeOK'
  BY <1>1, <1>2 DEF Inv, TypeOK, Good
<1>4. StreakFits'
  BY <1>1, <1>2, ConstantsAssumption DEF Inv, TypeOK, StreakFits, Allowance
<1>5. CallsFit'
  BY <1>1, <1>2 DEF Inv, CallsFit
<1>6. JournalFits' /\ NoLostUpdate'
  BY <1>1, <1>2 DEF Inv, JournalFits, NoLostUpdate
<1>7. QED
  BY <1>3, <1>4, <1>5, <1>6 DEF Inv

\* The owner pauses and unpauses.
LEMMA ToggleKeeps ==
  ASSUME Inv, Pause \/ Unpause
  PROVE  Inv'
<1> DEFINE g == Last(disk, SetPaused(disk, ~disk.paused))
<1>1. SameAccount(disk, g) /\ g.paused = ~disk.paused /\ Tells(g)
  <2>1. disk \in Good /\ disk.paused \in BOOLEAN
    BY DiskIsGood DEF Inv, TypeOK, File
  <2>2. QED
    BY <2>1, PauseEnds
<1>2. disk' = g /\ torn' = FALSE
  <2>1. disk.paused \in BOOLEAN
    BY DEF Inv, TypeOK, File
  <2>2. QED
    BY <2>1 DEF Pause, Unpause
<1>3. /\ failures' = failures /\ work' = work /\ crashes' = crashes
      /\ UNCHANGED loop
      /\ \/ ~disk.paused /\ callsPaused' = 0 /\ unpauses' = unpauses
         \/ /\ disk.paused /\ callsPaused' = callsPaused
            /\ unpauses < MaxUnpauses /\ unpauses' = unpauses + 1
  BY DEF Pause, Unpause
<1> HIDE DEF g
<1>4. TypeOK'
  <2>1. torn' \in BOOLEAN
    BY <1>2
  <2>2. disk' \in File /\ Len(disk'.journal) <= JournalMax
    BY <1>1, <1>2 DEF SameAccount, Good
  <2>3. callsPaused' \in Nat /\ unpauses' \in 0 .. MaxUnpauses
    BY <1>3, ConstantsAssumption DEF Inv, TypeOK
  <2>4. QED
    BY <1>3, <2>1, <2>2, <2>3 DEF Inv, TypeOK, loop
<1>5. StreakFits' /\ CallsFit'
  BY <1>1, <1>2, <1>3, ConstantsAssumption
     DEF Inv, TypeOK, StreakFits, Allowance, CallsFit, SameAccount, loop
<1>6. JournalFits' /\ NoLostUpdate'
  BY <1>1, <1>2, <1>3 DEF Inv, JournalFits, NoLostUpdate, SameAccount
<1>7. QED
  BY <1>4, <1>5, <1>6 DEF Inv

LEMMA WorkKeeps ==
  ASSUME Inv, NEW g \in Goal, OpenWork(g) \/ CloseWork(g)
  PROVE  Inv'
<1>1. /\ disk' \in File /\ disk'.paused = disk.paused /\ disk'.errorStreak = disk.errorStreak
      /\ disk'.journal = disk.journal /\ disk'.work = work' /\ work' \subseteq Goal
  BY DEF Inv, TypeOK, File, NoLostUpdate, OpenWork, CloseWork
<1>2. UNCHANGED <<pc, running, state, aborted, shuttingDown, failures, callsPaused, torn,
                  unpauses, crashes>>
  BY DEF OpenWork, CloseWork, loop
<1>3. TypeOK' /\ StreakFits' /\ CallsFit' /\ NoLostUpdate'
  BY <1>1, <1>2 DEF Inv, TypeOK, StreakFits, Allowance, CallsFit, NoLostUpdate
<1>4. JournalFits'
  BY <1>1, <1>2 DEF Inv, JournalFits, Tells
<1>5. QED
  BY <1>3, <1>4 DEF Inv

\* The process ends and starts again, the file as it was.
LEMMA ProcessKeeps ==
  ASSUME Inv, Shutdown \/ Exit \/ Crash \/ Reboot
  PROVE  Inv'
<1>1. /\ disk' = disk /\ failures' = failures /\ work' = work /\ torn' = torn
      /\ unpauses' = unpauses /\ callsPaused' = callsPaused /\ state' = state
      /\ crashes' = crashes \/ (crashes < MaxCrashes /\ crashes' = crashes + 1)
      /\ pc' = pc \/ pc' \in {"exited", "down", "booting"}
  BY DEF Shutdown, Exit, Crash, Reboot, ProcessEnds, history
<1>2. running' \in BOOLEAN /\ aborted' \in BOOLEAN /\ shuttingDown' \in BOOLEAN
  <2>1. running \in BOOLEAN /\ aborted \in BOOLEAN /\ shuttingDown \in BOOLEAN
    BY DEF Inv, TypeOK
  <2>2. CASE Shutdown
    <3>1. running' = FALSE /\ shuttingDown' = TRUE /\ aborted' = (pc \in {"gathering", "generating"})
      BY <2>2 DEF Shutdown
    <3>2. (pc \in {"gathering", "generating"}) \in BOOLEAN
      OBVIOUS
    <3>3. QED
      BY <3>1, <3>2
  <2>3. CASE Exit \/ Crash
    <3>1. running' = FALSE /\ aborted' = FALSE /\ shuttingDown' = FALSE
      BY <2>3 DEF Exit, Crash, ProcessEnds
    <3>2. QED
      BY <3>1
  <2>4. CASE Reboot
    BY <2>1, <2>4 DEF Reboot
  <2>5. QED
    BY <2>2, <2>3, <2>4
<1>3. TypeOK'
  BY <1>1, <1>2, ConstantsAssumption DEF Inv, TypeOK
<1>4. StreakFits' /\ CallsFit'
  BY <1>1, ConstantsAssumption DEF Inv, TypeOK, StreakFits, Allowance, CallsFit
<1>5. JournalFits' /\ NoLostUpdate'
  BY <1>1 DEF Inv, JournalFits, NoLostUpdate
<1>6. QED
  BY <1>3, <1>4, <1>5 DEF Inv

\* Of a crash between two writes it is enough to know the file it leaves.
Dies ==
  /\ disk' \in Good
  /\ disk'.work = disk.work
  /\ Cut(disk, disk')
  /\ torn' = IF disk'.paused = disk.paused THEN torn ELSE disk'.journal = disk.journal
  /\ callsPaused' = IF disk.paused THEN callsPaused ELSE 0
  /\ crashes < MaxCrashes
  /\ crashes' = crashes + 1
  /\ ProcessEnds
  /\ UNCHANGED work

LEMMA DiesKeeps ==
  ASSUME Inv, Dies, failures' = disk'.errorStreak,
         failures' = failures \/ (pc = "generating" /\ failures' = failures + 1),
         unpauses' = unpauses \/ (unpauses < MaxUnpauses /\ unpauses' = unpauses + 1)
  PROVE  Inv'
<1>1. /\ work' = work /\ state' = state /\ pc' = "down"
      /\ crashes < MaxCrashes /\ crashes' = crashes + 1
      /\ running' = FALSE /\ aborted' = FALSE /\ shuttingDown' = FALSE
  BY DEF Dies, ProcessEnds
<1>2. TypeOK'
  <2>1. torn' \in BOOLEAN
    BY DEF Inv, TypeOK, Dies
  <2>2. running' \in BOOLEAN /\ aborted' \in BOOLEAN /\ shuttingDown' \in BOOLEAN
    BY <1>1
  <2>3. disk' \in File /\ Len(disk'.journal) <= JournalMax /\ failures' \in Nat
    BY DEF Dies, Good, File
  <2>4. /\ callsPaused' \in Nat /\ unpauses' \in 0 .. MaxUnpauses
        /\ crashes' \in 0 .. MaxCrashes
    BY <1>1, ConstantsAssumption DEF Inv, TypeOK, Dies
  <2>5. QED
    BY <1>1, <2>1, <2>2, <2>3, <2>4 DEF Inv, TypeOK
<1>3. StreakFits'
  BY <1>1, ConstantsAssumption DEF Inv, TypeOK, StreakFits, Allowance
<1>4. CallsFit' /\ NoLostUpdate'
  BY <1>1 DEF Inv, CallsFit, NoLostUpdate, Dies
<1>5. JournalFits'
  BY DEF Inv, JournalFits, Cut, Dies
<1>6. QED
  BY <1>2, <1>3, <1>4, <1>5 DEF Inv

LEMMA CrashInTickKeeps ==
  ASSUME Inv, CrashInTick
  PROVE  Inv'
<1>1. disk \in Good /\ failures = disk.errorStreak
  BY DiskIsGood DEF Inv, StreakFits
<1>2. CASE CrashAmid(SuccessWrites(disk)) /\ UNCHANGED <<failures, unpauses>>
  <2>1. \A k \in 1 .. Len(SuccessWrites(disk)) - 1 :
          SameAccount(disk, SuccessWrites(disk)[k]) /\ Cut(disk, SuccessWrites(disk)[k])
    BY <1>1, SuccessEnds
  <2>2. SameAccount(disk, disk') /\ Cut(disk, disk')
    BY <1>2, <2>1 DEF CrashAmid
  <2>3. Dies
    BY <1>2, <2>2 DEF CrashAmid, SameAccount, Dies
  <2>4. QED
    BY <1>1, <1>2, <2>2, <2>3, DiesKeeps DEF SameAccount
<1>3. CASE CrashAmid(FailureWrites(disk)) /\ failures' = failures + 1 /\ UNCHANGED unpauses
  <2>1. \A k \in 1 .. Len(FailureWrites(disk)) - 1 :
          LET g == FailureWrites(disk)[k]
          IN  /\ g \in Good /\ g.work = disk.work /\ g.errorStreak = disk.errorStreak + 1
              /\ Cut(disk, g)
    BY <1>1, FailureEnds
  <2>2. /\ disk' \in Good /\ disk'.work = disk.work
        /\ disk'.errorStreak = disk.errorStreak + 1 /\ Cut(disk, disk')
    BY <1>3, <2>1 DEF CrashAmid
  <2>3. Dies
    BY <1>3, <2>2 DEF CrashAmid, Dies
  <2>4. pc = "generating"
    BY DEF CrashInTick
  <2>5. QED
    BY <1>1, <1>3, <2>2, <2>3, <2>4, DiesKeeps
<1>4. QED
  BY <1>2, <1>3 DEF CrashInTick

LEMMA CrashInToolKeeps ==
  ASSUME Inv, CrashInTool
  PROVE  Inv'
<1>1. disk \in Good /\ failures = disk.errorStreak /\ disk.paused \in BOOLEAN
  BY DiskIsGood DEF Inv, TypeOK, File, StreakFits
<1>2. CASE ~disk.paused /\ CrashAmid(SetPaused(disk, TRUE)) /\ UNCHANGED <<failures, unpauses>>
  <2>1. \A k \in 1 .. Len(SetPaused(disk, TRUE)) - 1 :
          SameAccount(disk, SetPaused(disk, TRUE)[k]) /\ Cut(disk, SetPaused(disk, TRUE)[k])
    BY <1>1, <1>2, PauseEnds
  <2>2. SameAccount(disk, disk') /\ Cut(disk, disk')
    BY <1>2, <2>1 DEF CrashAmid
  <2>3. Dies
    BY <1>2, <2>2 DEF CrashAmid, SameAccount, Dies
  <2>4. QED
    BY <1>1, <1>2, <2>2, <2>3, DiesKeeps DEF SameAccount
<1>3. CASE /\ disk.paused /\ unpauses < MaxUnpauses /\ CrashAmid(SetPaused(disk, FALSE))
           /\ unpauses' = unpauses + 1 /\ UNCHANGED failures
  <2>1. \A k \in 1 .. Len(SetPaused(disk, FALSE)) - 1 :
          SameAccount(disk, SetPaused(disk, FALSE)[k]) /\ Cut(disk, SetPaused(disk, FALSE)[k])
    BY <1>1, <1>3, PauseEnds
  <2>2. SameAccount(disk, disk') /\ Cut(disk, disk')
    BY <1>3, <2>1 DEF CrashAmid
  <2>3. Dies
    BY <1>3, <2>2 DEF CrashAmid, SameAccount, Dies
  <2>4. QED
    BY <1>1, <1>3, <2>2, <2>3, DiesKeeps DEF SameAccount
<1>4. QED
  BY <1>2, <1>3 DEF CrashInTool

LEMMA NextInv == Inv /\ [Next]_vars => Inv'
<1> SUFFICES ASSUME Inv, [Next]_vars PROVE Inv'
  OBVIOUS
<1>1. CASE Next
  BY <1>1, BeginKeeps, SuccessKeeps, FailureKeeps, ToggleKeeps, WorkKeeps, ProcessKeeps,
     CrashInTickKeeps, CrashInToolKeeps DEF Next
<1>2. CASE UNCHANGED vars
  BY <1>2 DEF vars, loop, history, Inv, TypeOK, StreakFits, Allowance, CallsFit, JournalFits,
              Tells, NoLostUpdate
<1>3. QED
  BY <1>1, <1>2

LEMMA Invariance == Spec => []Inv
  BY InitInv, NextInv, PTL DEF Spec

-----------------------------------------------------------------------------
(***************************************************************************)
(* The theorems.                                                           *)
(***************************************************************************)

\* The file and the loop are as state.ts and worker-loop.ts declare them; the
\* journal never outgrows JOURNAL_MAX_ENTRIES.
THEOREM TypeCorrect == Spec => []TypeOK
<1>1. Inv => TypeOK
  BY DEF Inv
<1>2. QED
  BY <1>1, Invariance, PTL

\* However the process crashes and restarts, failed ticks in a row stay within the
\* auto-pause threshold and what the owner's unpauses and the crashes add.
THEOREM FailuresAreBounded == Spec => []FailuresBounded
<1>1. Inv => FailuresBounded
  BY DEF Inv, StreakFits, Allowance, FailuresBounded
<1>2. QED
  BY <1>1, Invariance, PTL

\* A pause lets at most one more call of the model begin.
THEOREM PausesHold == Spec => []PauseHolds
<1>1. Inv => PauseHolds
  BY DEF Inv, CallsFit, PauseHolds
<1>2. QED
  BY <1>1, Invariance, PTL

\* The last pause or unpause entry of the journal says what the flag is, unless
\* the process died between the two writes.
THEOREM JournalTells == Spec => []PauseJournalled
<1>1. Inv => PauseJournalled
  BY DEF Inv, JournalFits, Tells, Mark, PauseJournalled
<1>2. QED
  BY <1>1, Invariance, PTL

\* No write of a tick undoes a goal or task a tool has opened or closed.
THEOREM NothingLost == Spec => []NoLostUpdate
<1>1. Inv => NoLostUpdate
  BY DEF Inv
<1>2. QED
  BY <1>1, Invariance, PTL

\* After a signal the loop is on its way out, or shutdown need not wait for it: it was
\* started after the signal, has been left, or is in a tick that is told to abort.
SignalHeeded ==
  shuttingDown =>
    running \/ pc \in {"booting", "exited"} \/ (aborted /\ pc \in {"gathering", "generating"})

\* A loop that sleeps has not been stopped: stop() wakes the one that does.
SleepsRunning == pc = "sleeping" => running

\* A signal never leaves a loop asleep or in a tick that has not been told: the part of
\* ShutdownEnds that is a matter of safety.
THEOREM SignalsHeeded == Spec => []SignalHeeded
<1>1. Init => SignalHeeded /\ SleepsRunning
  BY DEF Init, SignalHeeded, SleepsRunning
<1>2. TypeOK /\ SignalHeeded /\ SleepsRunning /\ [Next]_vars => (SignalHeeded /\ SleepsRunning)'
  <2> SUFFICES ASSUME TypeOK, SignalHeeded, SleepsRunning, [Next]_vars
               PROVE  SignalHeeded' /\ SleepsRunning'
    OBVIOUS
  <2> USE DEF SignalHeeded, SleepsRunning
  <2>1. CASE Start \/ Wake
    BY <2>1 DEF Start, Wake, BeginTick, AfterTick
  <2>2. CASE Generate \/ GatherThrows \/ TickSucceeds \/ TickFails
    BY <2>2 DEF Generate, GatherThrows, TickSucceeds, TickFails, EndTick
  <2>3. CASE Pause \/ Unpause \/ \E g \in Goal : OpenWork(g) \/ CloseWork(g)
    <3>1. UNCHANGED loop
      BY <2>3 DEF Pause, Unpause, OpenWork, CloseWork
    <3>2. QED
      BY <3>1 DEF loop
  <2>4. CASE Shutdown
    BY <2>4 DEF Shutdown, Up, TypeOK
  <2>5. CASE Exit \/ Crash \/ CrashInTick \/ CrashInTool
    BY <2>5 DEF Exit, Crash, CrashInTick, CrashInTool, CrashAmid, ProcessEnds
  <2>6. CASE Reboot \/ UNCHANGED vars
    BY <2>6 DEF Reboot, vars, loop
  <2>7. QED
    BY <2>1, <2>2, <2>3, <2>4, <2>5, <2>6 DEF Next
<1>3. QED
  BY <1>1, <1>2, TypeCorrect, PTL DEF Spec
=============================================================================
