-------------------------- MODULE TraceMatchProofs ---------------------------
(***************************************************************************)
(* Proofs about TraceMatch, for every set of rows, either GUI and any      *)
(* number of polls of the live trace.                                      *)
(*                                                                         *)
(* The inductive invariant says what the walk has settled so far: the      *)
(* pending list is exactly the visited open requests without a partner,    *)
(* the pairs among the visited rows are mutual and first come first        *)
(* served, and, compared with the pairs the table showed before the walk,  *)
(* each visited row has its old partner back unless that partner is yet    *)
(* to come.                                                                *)
(***************************************************************************)
EXTENDS TraceMatchQueues, Counting, SequenceTheorems

PendingExact ==
    ~Idle => pending = {i \in 1 .. next - 1 : IsOpenRequest(rows[i]) /\ pair[i] = 0}

\* The table before the walk: a prefix of the rows, paired soundly.
ShownSound ==
    /\ Len(shown) <= Len(rows)
    /\ MutualUpTo(shown, Len(shown))
    /\ FirstFitUpTo(shown, Len(shown))

\* What the walk over rows 1 .. n has settled agrees with the table before it.
AgreeUpTo(n) ==
    \A i \in 1 .. n : i <= Len(shown) =>
        IF shown[i] # 0 /\ shown[i] <= n
        THEN pair[i] = shown[i]
        ELSE pair[i] = 0 \/ pair[i] > Len(shown)

Agrees ==
    IF Idle THEN shown = pair ELSE AgreeUpTo(next - 1)

IInv ==
    /\ TypeOK
    /\ PendingExact
    /\ MutualUpTo(pair, Visited)
    /\ FirstFitUpTo(pair, Visited)
    /\ ShownSound
    /\ Agrees

-----------------------------------------------------------------------------

\* Requests, posted requests and completions are different rows.
LEMMA TypesDisjoint ==
    ASSUME NEW r
    PROVE  /\ IsCompletion(r) => ~IsRequest(r) /\ ~IsPosted(r) /\ ~IsOpenRequest(r)
           /\ IsPosted(r) => ~IsRequest(r) /\ ~IsOpenRequest(r)
           /\ IsOneLine(r) => ~IsOpenRequest(r)
  BY DEF IsCompletion, IsRequest, IsPosted, IsOpenRequest, IsOneLine,
         RequestTypes, PostedTypes, CompletionTypes

\* A batch of rows is a sequence of rows.
LEMMA BatchIsSeq ==
    ASSUME NEW batch \in Batch
    PROVE  batch \in Seq(Row)
  BY BoundAssumption DEF Batch

LEMMA InitIInv == Init => IInv
  BY DEF Init, IInv, TypeOK, PendingExact, MutualUpTo, FirstFitUpTo, ShownSound,
         Agrees, Visited, Idle

\* Starting over leaves a table in which nothing is settled yet.
LEMMA StartOverTypes ==
    ASSUME TypeOK, NEW newRows \in Seq(Row), NEW keep \in {0, Len(rows)},
           keep <= Len(newRows), StartOver(keep, newRows), shown' \in Seq(Nat)
    PROVE  TypeOK' /\ rows' = newRows /\ next' = 1
  <1> DEFINE n == IF Gui = "cpp" THEN 0 ELSE keep
             total == Len(newRows)
  <1>1. /\ rows' = newRows /\ next' = 1 /\ pending' = {}
        /\ pair' = [i \in 1 .. total |-> IF i <= n THEN pair[i] ELSE 0]
        /\ label' = [i \in 1 .. total |-> IF i <= n THEN label[i] ELSE "none"]
    BY DEF StartOver
  <1>2. /\ total \in Nat /\ Len(rows) \in Nat /\ n \in {0, Len(rows)} /\ n <= total
    BY DEF TypeOK
  <1>3. /\ rows' \in Seq(Row) /\ next' \in 0 .. Len(rows') + 1
        /\ pending' \subseteq 1 .. Len(rows')
    BY <1>1, <1>2
  <1>4. ASSUME NEW i \in 1 .. total, i <= n
        PROVE  pair[i] \in 0 .. total /\ label[i] \in Labels
    <2>1. i \in 1 .. Len(rows) /\ n = Len(rows)
      BY <1>2, <1>4
    <2>2. pair[i] \in 0 .. Len(rows) /\ label[i] \in Labels
      BY <2>1 DEF TypeOK
    <2> QED
      BY <1>2, <2>1, <2>2
  <1> HIDE DEF n, total
  <1>5. pair' \in [1 .. total -> 0 .. total]
    BY <1>1, <1>2, <1>4
  <1>6. label' \in [1 .. total -> Labels]
    BY <1>1, <1>4 DEF Labels
  <1>7. Len(rows') = total
    BY <1>1 DEF total
  <1> QED
    BY <1>1, <1>3, <1>5, <1>6, <1>7 DEF TypeOK

\* With no row visited, what is settled holds whatever the rows are.
LEMMA NothingSettled ==
    ASSUME TypeOK', next' = 1, pending' = {}, ShownSound'
    PROVE  IInv'
  <1>1. ~Idle' /\ Visited' = 0
    BY DEF Idle, Visited
  <1>2. PendingExact' /\ MutualUpTo(pair, 0)' /\ FirstFitUpTo(pair, 0)' /\ AgreeUpTo(0)'
    BY DEF PendingExact, MutualUpTo, FirstFitUpTo, AgreeUpTo
  <1> QED
    BY <1>1, <1>2 DEF IInv, Agrees, PendingExact, MutualUpTo, FirstFitUpTo, AgreeUpTo

LEMMA LoadStep ==
    ASSUME IInv, NEW batch \in Batch, Load(batch)
    PROVE  IInv'
  <1>1. batch \in Seq(Row) /\ Len(batch) \in Nat
    BY BatchIsSeq
  <1>2. shown' = <<>> /\ shown' \in Seq(Nat) /\ StartOver(0, batch) /\ pending' = {}
    BY DEF Load, StartOver
  <1>3. TypeOK' /\ next' = 1
    BY <1>1, <1>2, StartOverTypes DEF IInv
  <1>4. ShownSound'
    BY <1>2, <1>3 DEF ShownSound, MutualUpTo, FirstFitUpTo, TypeOK
  <1> QED
    BY <1>2, <1>3, <1>4, NothingSettled

LEMMA AppendLiveStep ==
    ASSUME IInv, NEW batch \in Batch, AppendLive(batch)
    PROVE  IInv'
  <1> DEFINE more == rows \o batch
  <1>1. /\ batch \in Seq(Row) /\ rows \in Seq(Row) /\ more \in Seq(Row)
        /\ Len(rows) \in Nat /\ Len(rows) <= Len(more)
        /\ \A i \in 1 .. Len(rows) : more[i] = rows[i]
    BY BatchIsSeq DEF IInv, TypeOK
  <1>2. /\ shown' = shown /\ shown' \in Seq(Nat) /\ pending' = {}
        /\ StartOver(Len(rows), more)
    BY DEF AppendLive, StartOver, IInv, TypeOK
  <1>3. TypeOK' /\ next' = 1 /\ rows' = more
    BY <1>1, <1>2, StartOverTypes DEF IInv
  <1>4. ShownSound'
    <2>1. /\ Len(shown) \in Nat /\ Len(shown) <= Len(rows)
          /\ MutualUpTo(shown, Len(shown)) /\ FirstFitUpTo(shown, Len(shown))
      BY DEF IInv, ShownSound, TypeOK
    <2>2. \A i \in 1 .. Len(shown) : rows'[i] = rows[i]
      BY <1>1, <1>3, <2>1
    <2>3. MutualUpTo(shown, Len(shown))'
      BY SMTT(30), <1>2, <2>1, <2>2 DEF MutualUpTo, Matches, SameAddr, IdsOverlap
    <2>4. FirstFitUpTo(shown, Len(shown))'
      BY <1>2, <2>1, <2>2 DEF FirstFitUpTo, Matches, SameAddr, IdsOverlap
    <2> QED
      BY <1>1, <1>2, <1>3, <2>1, <2>3, <2>4 DEF ShownSound
  <1> QED
    BY <1>2, <1>3, <1>4, NothingSettled

-----------------------------------------------------------------------------

\* While row `next' is visited: where the walk is, and what holds before it.
LEMMA VisitingFacts ==
    ASSUME IInv, Visiting
    PROVE  /\ Len(rows) \in Nat /\ next \in 1 .. Len(rows)
           /\ Len(shown) \in Nat /\ Len(shown) <= Len(rows)
           /\ pair \in [1 .. Len(rows) -> 0 .. Len(rows)]
           /\ ~Idle /\ Visited = next - 1
           /\ pending = {i \in 1 .. next - 1 : IsOpenRequest(rows[i]) /\ pair[i] = 0}
           /\ MutualUpTo(pair, next - 1)
           /\ FirstFitUpTo(pair, next - 1)
           /\ AgreeUpTo(next - 1)
           /\ ShownSound
  <1>1. /\ Len(rows) \in Nat /\ next \in 1 .. Len(rows) /\ Len(shown) \in Nat
        /\ pair \in [1 .. Len(rows) -> 0 .. Len(rows)] /\ ~Idle /\ Visited = next - 1
    BY DEF IInv, TypeOK, Visiting, Idle, Visited
  <1> QED
    BY <1>1 DEF IInv, PendingExact, Agrees, ShownSound

\* A row that had an earlier partner is a completion, and finds that partner
\* waiting.
LEMMA OldPartnerWaits ==
    ASSUME IInv, Visiting, next <= Len(shown), shown[next] \in 1 .. next - 1
    PROVE  IsCompletion(rows[next]) /\ shown[next] \in Candidates(next)
  <1> DEFINE s == shown[next]
  <1>1. /\ shown[s] = next /\ IsOpenRequest(rows[s])
        /\ IsCompletion(rows[next]) /\ Matches(rows[s], rows[next])
    BY VisitingFacts DEF ShownSound, MutualUpTo
  <1>2. s \in 1 .. next - 1 /\ s <= Len(shown) /\ next \in 1 .. Len(rows)
    BY VisitingFacts
  <1>3. pair[s] = 0 \/ pair[s] > Len(shown)
    BY <1>1, <1>2, VisitingFacts DEF AgreeUpTo
  <1>4. pair[s] # 0 => pair[s] \in 1 .. next - 1
    BY <1>2, VisitingFacts DEF MutualUpTo
  <1>5. pair[s] = 0
    BY <1>2, <1>3, <1>4, VisitingFacts
  <1> QED
    BY <1>1, <1>2, <1>5, VisitingFacts DEF Candidates

\* A row that had a later partner never had this one before its visit.
LEMMA OldPartnerMutual ==
    ASSUME IInv, Visiting, NEW i \in 1 .. next - 1, i <= Len(shown), shown[i] = next
    PROVE  next <= Len(shown) /\ shown[next] = i
  BY VisitingFacts DEF ShownSound, MutualUpTo

\* Visiting a row that finds no partner.
LEMMA UnpairedStep ==
    ASSUME IInv, Visiting,
           rows' = rows, shown' = shown, next' = next + 1,
           pair' = [pair EXCEPT ![next] = 0],
           label' \in [1 .. Len(rows) -> Labels],
           pending' = IF IsOpenRequest(rows[next]) THEN pending \union {next} ELSE pending,
           IsCompletion(rows[next]) => Candidates(next) = {}
    PROVE  IInv'
  <1>1. /\ Len(rows) \in Nat /\ next \in 1 .. Len(rows) /\ Len(shown) \in Nat
        /\ pair \in [1 .. Len(rows) -> 0 .. Len(rows)]
        /\ pending = {i \in 1 .. next - 1 : IsOpenRequest(rows[i]) /\ pair[i] = 0}
        /\ next - 1 \in Nat
    BY VisitingFacts
  <1>2. \A i \in 1 .. Len(rows) : pair'[i] = IF i = next THEN 0 ELSE pair[i]
    BY <1>1
  <1>3. TypeOK'
    <2>1. pair' \in [1 .. Len(rows) -> 0 .. Len(rows)]
      BY <1>1
    <2>2. pending' \subseteq 1 .. Len(rows)
      BY <1>1
    <2>3. next' \in 0 .. Len(rows) + 1
      BY <1>1
    <2> QED
      BY <2>1, <2>2, <2>3 DEF TypeOK, IInv
  <1>4. ~Idle' /\ Visited' = next /\ next' - 1 = next
    BY <1>1 DEF Idle, Visited
  <1>5. PendingExact'
    BY <1>1, <1>2 DEF PendingExact
  <1>6. MutualUpTo(pair, Visited)'
    BY <1>1, <1>2, <1>4, VisitingFacts DEF MutualUpTo
  <1>7. FirstFitUpTo(pair, Visited)'
    <2> SUFFICES ASSUME NEW c \in 1 .. next, NEW r \in 1 .. next, r < c,
                        IsCompletion(rows[c]), IsOpenRequest(rows[r]),
                        Matches(rows[r], rows[c]), pair'[c] = 0 \/ r < pair'[c]
                 PROVE  pair'[r] \in 1 .. c - 1
      BY <1>4 DEF FirstFitUpTo, Matches, SameAddr, IdsOverlap
    <2>1. CASE c = next
      <3>1. r \notin pending /\ r \in 1 .. next - 1
        BY <1>1, <2>1 DEF Candidates
      <3>2. pair[r] # 0
        BY <3>1, <1>1
      <3> QED
        BY <1>1, <1>2, <2>1, <3>1, <3>2, VisitingFacts DEF MutualUpTo
    <2>2. CASE c # next
      BY <1>1, <1>2, <2>2, VisitingFacts DEF FirstFitUpTo
    <2> QED
      BY <2>1, <2>2
  <1>8. ShownSound'
    BY VisitingFacts DEF ShownSound, MutualUpTo, FirstFitUpTo, Matches, SameAddr, IdsOverlap
  <1>9. AgreeUpTo(next - 1)'
    <2> SUFFICES ASSUME NEW i \in 1 .. next, i <= Len(shown)
                 PROVE  IF shown[i] # 0 /\ shown[i] <= next
                        THEN pair'[i] = shown[i]
                        ELSE pair'[i] = 0 \/ pair'[i] > Len(shown)
      BY <1>4 DEF AgreeUpTo
    <2>1. CASE i = next
      <3>1. shown[next] \notin 1 .. next - 1
        BY <2>1, OldPartnerWaits
      <3>2. shown[next] # next /\ shown[next] \in Nat
        BY <2>1, <1>1, VisitingFacts DEF ShownSound, MutualUpTo, IInv, TypeOK
      <3> QED
        BY <1>1, <1>2, <2>1, <3>1, <3>2
    <2>2. CASE i # next
      <3>1. shown[i] # next
        <4> SUFFICES ASSUME shown[i] = next PROVE FALSE
          OBVIOUS
        <4>1. i \in 1 .. next - 1
          BY <1>1, <2>2
        <4>2. next <= Len(shown) /\ shown[next] = i
          BY <4>1, OldPartnerMutual
        <4> QED
          BY <4>1, <4>2, OldPartnerWaits
      <3>2. i \in 1 .. next - 1 /\ shown[i] \in Nat
        BY <1>1, <2>2 DEF IInv, TypeOK
      <3> QED
        BY <1>1, <1>2, <2>2, <3>1, <3>2, VisitingFacts DEF AgreeUpTo
    <2> QED
      BY <2>1, <2>2
  <1> QED
    BY <1>3, <1>4, <1>5, <1>6, <1>7, <1>8, <1>9 DEF IInv, Agrees, AgreeUpTo

\* Visiting a completion that some pending request fits.
LEMMA CompletionStep ==
    ASSUME IInv, VisitCompletion
    PROVE  IInv'
  <1>1. /\ Visiting /\ IsCompletion(rows[next])
        /\ rows' = rows /\ shown' = shown /\ next' = next + 1
    BY DEF VisitCompletion
  <1>2. PICK q \in Candidates(next) :
          /\ \A other \in Candidates(next) : q <= other
          /\ pair' = [pair EXCEPT ![next] = q, ![q] = next]
          /\ label' = [label EXCEPT ![next] = "paired", ![q] = "paired"]
          /\ pending' = pending \ {q}
    BY DEF VisitCompletion
  <1>3. /\ Len(rows) \in Nat /\ next \in 1 .. Len(rows) /\ Len(shown) \in Nat
        /\ pair \in [1 .. Len(rows) -> 0 .. Len(rows)]
        /\ pending = {i \in 1 .. next - 1 : IsOpenRequest(rows[i]) /\ pair[i] = 0}
        /\ next - 1 \in Nat
    BY <1>1, VisitingFacts
  <1>4. /\ q \in 1 .. next - 1 /\ pair[q] = 0
        /\ IsOpenRequest(rows[q]) /\ Matches(rows[q], rows[next])
    BY <1>3 DEF Candidates
  <1>5. \A i \in 1 .. Len(rows) :
          pair'[i] = IF i = next THEN q ELSE IF i = q THEN next ELSE pair[i]
    BY <1>2, <1>3, <1>4
  <1>6. TypeOK'
    <2>1. pair' \in [1 .. Len(rows) -> 0 .. Len(rows)]
      BY <1>2, <1>3, <1>4
    <2>2. pending' \subseteq 1 .. Len(rows) /\ next' \in 0 .. Len(rows) + 1
      BY <1>1, <1>2, <1>3
    <2>3. label' \in [1 .. Len(rows) -> Labels]
      BY <1>2 DEF IInv, TypeOK, Labels
    <2> QED
      BY <1>1, <2>1, <2>2, <2>3 DEF TypeOK, IInv
  <1>7. ~Idle' /\ Visited' = next /\ next' - 1 = next
    BY <1>1, <1>3 DEF Idle, Visited
  <1>8. PendingExact'
    BY <1>1, <1>2, <1>3, <1>4, <1>5, TypesDisjoint DEF PendingExact
  <1>9. MutualUpTo(pair, Visited)'
    <2> SUFFICES ASSUME NEW i \in 1 .. next, pair'[i] # 0
                 PROVE  /\ pair'[i] \in 1 .. next
                        /\ pair'[pair'[i]] = i
                        /\ pair'[i] < i => /\ IsOpenRequest(rows[pair'[i]])
                                           /\ IsCompletion(rows[i])
                                           /\ Matches(rows[pair'[i]], rows[i])
                        /\ pair'[i] >= i => i < pair'[i] /\ IsOpenRequest(rows[i])
      BY <1>1, <1>7 DEF MutualUpTo, Matches, SameAddr, IdsOverlap
    <2>1. CASE i = next \/ i = q
      BY <1>1, <1>3, <1>4, <1>5, <2>1
    <2>2. CASE i # next /\ i # q
      <3>1. i \in 1 .. next - 1 /\ pair'[i] = pair[i] /\ pair[i] # 0
        BY <1>3, <1>5, <2>2
      <3>2. /\ pair[i] \in 1 .. next - 1 /\ pair[pair[i]] = i
            /\ pair[i] < i => /\ IsOpenRequest(rows[pair[i]])
                              /\ IsCompletion(rows[i])
                              /\ Matches(rows[pair[i]], rows[i])
            /\ pair[i] >= i => i < pair[i] /\ IsOpenRequest(rows[i])
        BY <1>1, <3>1, VisitingFacts DEF MutualUpTo
      <3>3. pair[i] # q
        BY <1>4, <3>1, <3>2
      <3>4. pair'[pair[i]] = i
        BY <1>3, <1>5, <3>2, <3>3
      <3> QED
        BY <1>3, <3>1, <3>2, <3>4
    <2> QED
      BY <2>1, <2>2
  <1>10. FirstFitUpTo(pair, Visited)'
    <2> SUFFICES ASSUME NEW c \in 1 .. next, NEW r \in 1 .. next, r < c,
                        IsCompletion(rows[c]), IsOpenRequest(rows[r]),
                        Matches(rows[r], rows[c]), pair'[c] = 0 \/ r < pair'[c]
                 PROVE  pair'[r] \in 1 .. c - 1
      BY <1>1, <1>7 DEF FirstFitUpTo, Matches, SameAddr, IdsOverlap
    <2>1. CASE c = next
      <3>1. r < q
        BY <1>3, <1>4, <1>5, <2>1
      <3>2. r \notin pending /\ r \in 1 .. next - 1
        BY <1>2, <1>3, <1>4, <2>1, <3>1 DEF Candidates
      <3>3. pair[r] # 0
        BY <1>3, <3>2
      <3>4. pair[r] \in 1 .. next - 1
        BY <1>1, <3>2, <3>3, VisitingFacts DEF MutualUpTo
      <3> QED
        BY <1>3, <1>4, <1>5, <2>1, <3>1, <3>4
    <2>2. CASE c # next
      <3>1. c # q /\ c \in 1 .. next - 1 /\ r \in 1 .. next - 1
        BY <1>3, <1>4, <2>2, TypesDisjoint
      <3>2. pair'[c] = pair[c]
        BY <1>3, <1>5, <2>2, <3>1
      <3>3. pair[r] \in 1 .. c - 1
        BY <1>1, <3>1, <3>2, VisitingFacts DEF FirstFitUpTo
      <3>4. r # q /\ r # next
        BY <1>3, <1>4, <3>1, <3>3
      <3> QED
        BY <1>3, <1>5, <3>1, <3>3, <3>4
    <2> QED
      BY <2>1, <2>2
  <1>11. ShownSound'
    BY <1>1, VisitingFacts DEF ShownSound, MutualUpTo, FirstFitUpTo, Matches, SameAddr, IdsOverlap
  <1>12. next <= Len(shown) => shown[next] = q
    <2> SUFFICES ASSUME next <= Len(shown)
                 PROVE  shown[next] = q
      OBVIOUS
    <2>1. /\ q <= Len(shown) /\ q < next
          /\ shown[q] \in Nat /\ shown[next] \in Nat
      BY <1>3, <1>4 DEF IInv, TypeOK
    <2>2. shown[q] = 0 \/ shown[q] >= next
      BY <1>1, <1>3, <1>4, <2>1, VisitingFacts DEF AgreeUpTo
    <2>3. ~(shown[next] = 0 \/ q < shown[next])
      <3> SUFFICES ASSUME shown[next] = 0 \/ q < shown[next]
                   PROVE  FALSE
        OBVIOUS
      <3>1. next \in 1 .. Len(shown) /\ q \in 1 .. Len(shown)
        BY <1>3, <1>4, <2>1
      <3>2. shown[q] \in 1 .. next - 1
        BY <1>1, <1>4, <2>1, <3>1, VisitingFacts DEF ShownSound, FirstFitUpTo
      <3> QED
        BY <1>3, <2>2, <3>2
    <2>4. shown[next] \in 1 .. next - 1
      BY <1>3, <1>4, <2>1, <2>3
    <2>5. shown[next] \in Candidates(next)
      BY <1>1, <2>4, OldPartnerWaits
    <2>6. q <= shown[next]
      BY <1>2, <2>5
    <2> QED
      BY <1>4, <2>1, <2>3, <2>6
  <1>13. AgreeUpTo(next - 1)'
    <2> SUFFICES ASSUME NEW i \in 1 .. next, i <= Len(shown)
                 PROVE  IF shown[i] # 0 /\ shown[i] <= next
                        THEN pair'[i] = shown[i]
                        ELSE pair'[i] = 0 \/ pair'[i] > Len(shown)
      BY <1>1, <1>7 DEF AgreeUpTo
    <2>0. shown[i] \in Nat
      BY <1>3 DEF IInv, TypeOK
    <2>1. CASE i = next
      BY <1>3, <1>4, <1>5, <1>12, <2>1
    <2>2. CASE i = q /\ next <= Len(shown)
      <3>1. shown[q] = next
        BY <1>1, <1>3, <1>4, <1>12, <2>2, VisitingFacts DEF ShownSound, MutualUpTo
      <3> QED
        BY <1>3, <1>4, <1>5, <2>2, <3>1
    <2>3. CASE i = q /\ next > Len(shown)
      <3>1. shown[q] = 0 \/ shown[q] > Len(shown)
        BY <1>1, <1>3, <1>4, <2>0, <2>3, VisitingFacts DEF AgreeUpTo
      <3>2. shown[q] = 0
        BY <1>1, <1>3, <1>4, <2>0, <2>3, <3>1, VisitingFacts DEF ShownSound, MutualUpTo
      <3> QED
        BY <1>3, <1>4, <1>5, <2>3, <3>2
    <2>4. CASE i # next /\ i # q
      <3>1. i \in 1 .. next - 1 /\ pair'[i] = pair[i]
        BY <1>3, <1>5, <2>4
      <3>2. shown[i] # next
        BY <1>1, <1>12, <2>4, <3>1, OldPartnerMutual
      <3> QED
        BY <1>1, <1>3, <2>0, <3>1, <3>2, VisitingFacts DEF AgreeUpTo
    <2> QED
      BY <1>3, <2>1, <2>2, <2>3, <2>4
  <1> QED
    BY <1>6, <1>7, <1>8, <1>9, <1>10, <1>11, <1>13 DEF IInv, Agrees

\* At the end every row has its old partner back: the table may be shown.
LEMMA FinishFacts ==
    ASSUME IInv, Finish
    PROVE  /\ rows' = rows /\ pair' = pair /\ shown' = pair /\ next' = 0
           /\ pending' = pending
           /\ next = Len(rows) + 1 /\ Len(rows) \in Nat
           /\ pair \in Seq(Nat) /\ Len(pair) = Len(rows)
           /\ MutualUpTo(pair, Len(rows)) /\ FirstFitUpTo(pair, Len(rows))
           /\ AgreeUpTo(Len(rows)) /\ Len(shown) <= Len(rows)
  <1>1. /\ rows' = rows /\ pair' = pair /\ shown' = pair /\ next' = 0
        /\ pending' = pending /\ ~Idle
    BY DEF Finish
  <1>2. next = Len(rows) + 1 /\ Len(rows) \in Nat
    BY DEF Finish, IInv, TypeOK
  <1>3. pair \in [1 .. Len(rows) -> 0 .. Len(rows)]
    BY DEF IInv, TypeOK
  <1>4. pair \in Seq(Nat) /\ Len(pair) = Len(rows)
    BY <1>2, <1>3
  <1>5. next - 1 = Len(rows) /\ Visited = Len(rows)
    BY <1>1, <1>2 DEF Visited
  <1> QED
    BY <1>1, <1>2, <1>4, <1>5 DEF IInv, Agrees, ShownSound

LEMMA FinishStep ==
    ASSUME IInv, Finish
    PROVE  IInv'
  <1>1. TypeOK'
    <2>1. label' \in [1 .. Len(rows) -> Labels]
      <3>1. label \in [1 .. Len(rows) -> Labels]
        BY DEF IInv, TypeOK
      <3> QED
        BY <3>1 DEF Finish, Labels
    <2>2. /\ rows \in Seq(Row) /\ pending \subseteq 1 .. Len(rows)
          /\ pair \in [1 .. Len(rows) -> 0 .. Len(rows)] /\ Len(rows) \in Nat
      BY DEF IInv, TypeOK
    <2>3. /\ rows' = rows /\ pair' = pair /\ shown' = pair /\ next' = 0
          /\ pending' = pending /\ pair \in Seq(Nat)
      BY FinishFacts
    <2>4. next' \in 0 .. Len(rows) + 1
      BY <2>2, <2>3
    <2> QED
      BY <2>1, <2>2, <2>3, <2>4 DEF TypeOK
  <1>2. Idle' /\ Visited' = Len(rows)
    BY FinishFacts DEF Idle, Visited
  <1>3. /\ MutualUpTo(pair, Len(rows))' /\ MutualUpTo(shown, Len(rows))'
    <2>1. /\ MutualUpTo(pair, Len(rows)) /\ rows' = rows /\ pair' = pair /\ shown' = pair
      BY FinishFacts
    <2> QED
      BY SMTT(30), <2>1 DEF MutualUpTo, Matches, SameAddr, IdsOverlap
  <1>4. /\ FirstFitUpTo(pair, Len(rows))' /\ FirstFitUpTo(shown, Len(rows))'
    BY FinishFacts DEF FirstFitUpTo, Matches, SameAddr, IdsOverlap
  <1> QED
    BY <1>1, <1>2, <1>3, <1>4, FinishFacts DEF IInv, PendingExact, ShownSound, Agrees,
       MutualUpTo, FirstFitUpTo

-----------------------------------------------------------------------------

LEMMA NextIInv == IInv /\ [Next]_vars => IInv'
  <1> SUFFICES ASSUME IInv, [Next]_vars
               PROVE  IInv'
    OBVIOUS
  <1>0. label \in [1 .. Len(rows) -> Labels]
    BY DEF IInv, TypeOK
  <1>1. CASE NewRows
    BY <1>1, LoadStep, AppendLiveStep DEF NewRows
  <1>2. CASE VisitPosted
    BY <1>0, <1>2, UnpairedStep, TypesDisjoint DEF VisitPosted, Leave, Labels
  <1>3. CASE VisitOneLine
    BY <1>0, <1>3, UnpairedStep, TypesDisjoint DEF VisitOneLine, Leave, Labels, IsOneLine
  <1>4. CASE VisitRequest
    BY <1>0, <1>4, UnpairedStep, TypesDisjoint DEF VisitRequest, Leave, Labels
  <1>5. CASE VisitCompletion
    BY <1>5, CompletionStep
  <1>6. CASE VisitOther
    BY <1>0, <1>6, UnpairedStep DEF VisitOther, Leave, Labels, IsOpenRequest
  <1>7. CASE Finish
    BY <1>7, FinishStep
  <1>8. CASE UNCHANGED vars
    <2>1. /\ rows' = rows /\ next' = next /\ pending' = pending
          /\ pair' = pair /\ label' = label /\ shown' = shown
      BY <1>8 DEF vars
    <2>2. TypeOK'
      BY <2>1 DEF IInv, TypeOK
    <2>3. PendingExact' /\ Agrees' /\ Visited' = Visited
      BY <2>1 DEF IInv, PendingExact, Agrees, AgreeUpTo, Visited, Idle
    <2>4. MutualUpTo(pair, Visited)' /\ FirstFitUpTo(pair, Visited)'
      BY <2>1, <2>3 DEF IInv, MutualUpTo, FirstFitUpTo, Matches, SameAddr, IdsOverlap
    <2>5. ShownSound'
      BY <2>1 DEF IInv, ShownSound, MutualUpTo, FirstFitUpTo, Matches, SameAddr, IdsOverlap
    <2> QED
      BY <2>2, <2>3, <2>4, <2>5 DEF IInv
  <1> QED
    BY <1>1, <1>2, <1>3, <1>4, <1>5, <1>6, <1>7, <1>8 DEF Next, Analyze

LEMMA Invariance == Spec => []IInv
  <1> QED
    BY InitIInv, NextIInv, PTL DEF Spec

\* Every table has a pair and a label for each of its rows.
THEOREM TypeCorrect == Spec => []TypeOK
  <1>1. IInv => TypeOK
    BY DEF IInv
  <1> QED
    BY <1>1, Invariance, PTL

\* No row has a partner that has another one, at any point of any analysis.
THEOREM PairingIsMutual == Spec => []PairsMutual
  <1>1. IInv => PairsMutual
    BY DEF IInv, PairsMutual
  <1> QED
    BY <1>1, Invariance, PTL

\* No completion passes over an earlier request it fits.
THEOREM RequestsAreServedInOrder == Spec => []FirstFit
  <1>1. IInv => FirstFit
    BY DEF IInv, FirstFit
  <1> QED
    BY <1>1, Invariance, PTL

\* Whatever lines the live trace adds, rerunning the analysis gives the rows
\* of before their old partners.
THEOREM PairsAreStable == Spec => StablePairs
  <1> DEFINE Keeps ==
        \A i \in DOMAIN shown \intersect DOMAIN shown' :
          \/ shown'[i] = shown[i]
          \/ shown[i] = 0 /\ shown'[i] > Len(shown)
  <1>1. ASSUME IInv, Next
        PROVE  Keeps
    <2>0. shown \in Seq(Nat) /\ Len(shown) \in Nat
      BY <1>1 DEF IInv, TypeOK
    <2>1. CASE Finish
      <3> SUFFICES ASSUME NEW i \in 1 .. Len(shown), i <= Len(rows)
                   PROVE  pair[i] = shown[i] \/ (shown[i] = 0 /\ pair[i] > Len(shown))
        BY SMTT(30), <1>1, <2>0, <2>1, FinishFacts
      <3>1. shown[i] \in Nat /\ shown[i] <= Len(shown)
        BY <1>1, <2>0 DEF IInv, ShownSound, MutualUpTo
      <3>2. IF shown[i] # 0 THEN pair[i] = shown[i] ELSE pair[i] = 0 \/ pair[i] > Len(shown)
        BY <1>1, <2>0, <2>1, <3>1, FinishFacts DEF AgreeUpTo
      <3> QED
        BY <3>1, <3>2
    <2>2. CASE Next /\ ~Finish
      <3>1. shown' = shown \/ shown' = <<>>
        BY <2>2 DEF Next, NewRows, Load, AppendLive, Analyze, VisitPosted, VisitOneLine,
           VisitRequest, VisitCompletion, VisitOther
      <3> QED
        BY <3>1
    <2> QED
      BY <1>1, <2>1, <2>2
  <1>2. ASSUME IInv, [Next]_vars
        PROVE  [Keeps]_vars
    BY <1>1, <1>2
  <1> QED
    BY <1>2, Invariance, PTL DEF Spec, StablePairs

-----------------------------------------------------------------------------
(* The Match column.  The walk labels a row when it visits it and again    *)
(* when a completion answers it; the requests nobody answered get their    *)
(* label at the end, so until then no visited row is called unmatched.     *)

LabelsSettled ==
    ~Idle => \A i \in 1 .. next - 1 :
        /\ label[i] = "paired" <=> pair[i] # 0
        /\ label[i] # "unmatched"
        /\ IsOneLine(rows[i]) => label[i] = "complete"

LabelInv == LabelsAgree /\ LabelsSettled

LEMMA LabelsStart == Init => LabelInv
  BY DEF Init, LabelInv, LabelsAgree, LabelsSettled, Idle

\* A row that is left alone is labelled "none" or "complete".
LEMMA LabelsAtLeave ==
    ASSUME IInv, LabelInv, Visiting, NEW text \in {"none", "complete"}, Leave(text),
           rows' = rows, next' = next + 1,
           IsOneLine(rows[next]) => text = "complete"
    PROVE  LabelInv'
  <1>1. /\ Len(rows) \in Nat /\ next \in 1 .. Len(rows) /\ ~Idle
        /\ pair \in [1 .. Len(rows) -> 0 .. Len(rows)]
    BY VisitingFacts
  <1>2. label \in [1 .. Len(rows) -> Labels]
    BY DEF IInv, TypeOK
  <1>3. ~Idle' /\ next' - 1 = next
    BY <1>1 DEF Idle
  <1>4. \A i \in 1 .. next :
          /\ pair'[i] = IF i = next THEN 0 ELSE pair[i]
          /\ label'[i] = IF i = next THEN text ELSE label[i]
    BY <1>1, <1>2 DEF Leave
  <1>5. \A i \in 1 .. next - 1 :
          /\ label[i] = "paired" <=> pair[i] # 0
          /\ label[i] # "unmatched"
          /\ IsOneLine(rows[i]) => label[i] = "complete"
    BY <1>1 DEF LabelInv, LabelsSettled
  <1>6. ASSUME NEW i \in 1 .. next
        PROVE  /\ label'[i] = "paired" <=> pair'[i] # 0
               /\ label'[i] # "unmatched"
               /\ IsOneLine(rows[i]) => label'[i] = "complete"
    <2>1. CASE i = next
      BY <1>4, <2>1
    <2>2. CASE i # next
      <3>1. i \in 1 .. next - 1
        BY <1>1, <2>2
      <3> QED
        BY <1>4, <1>5, <2>2, <3>1
    <2> QED
      BY <2>1, <2>2
  <1> QED
    BY <1>3, <1>6 DEF LabelInv, LabelsAgree, LabelsSettled, IsOneLine, IsRequest

\* A completion and the request it answers are labelled together.
LEMMA LabelsAtCompletion ==
    ASSUME IInv, LabelInv, VisitCompletion
    PROVE  LabelInv'
  <1>1. Visiting /\ IsCompletion(rows[next]) /\ rows' = rows /\ next' = next + 1
    BY DEF VisitCompletion
  <1>2. PICK q \in Candidates(next) :
          /\ pair' = [pair EXCEPT ![next] = q, ![q] = next]
          /\ label' = [label EXCEPT ![next] = "paired", ![q] = "paired"]
    BY DEF VisitCompletion
  <1>3. /\ Len(rows) \in Nat /\ next \in 1 .. Len(rows) /\ ~Idle
        /\ pair \in [1 .. Len(rows) -> 0 .. Len(rows)]
        /\ q \in 1 .. next - 1 /\ IsOpenRequest(rows[q])
    BY <1>1, VisitingFacts DEF Candidates
  <1>4. label \in [1 .. Len(rows) -> Labels]
    BY DEF IInv, TypeOK
  <1>5. ~Idle' /\ next' - 1 = next
    BY <1>1, <1>3 DEF Idle
  <1>6. \A i \in 1 .. next :
          /\ pair'[i] = IF i = next THEN q ELSE IF i = q THEN next ELSE pair[i]
          /\ label'[i] = IF i \in {next, q} THEN "paired" ELSE label[i]
    BY <1>2, <1>3, <1>4
  <1>7. \A i \in 1 .. next - 1 :
          /\ label[i] = "paired" <=> pair[i] # 0
          /\ label[i] # "unmatched"
          /\ IsOneLine(rows[i]) => label[i] = "complete"
    BY <1>3 DEF LabelInv, LabelsSettled
  <1>8. ~IsOneLine(rows[next]) /\ ~IsOneLine(rows[q])
    BY <1>1, <1>3, TypesDisjoint DEF IsOneLine, IsRequest
  <1>9. ASSUME NEW i \in 1 .. next
        PROVE  /\ label'[i] = "paired" <=> pair'[i] # 0
               /\ label'[i] # "unmatched"
               /\ IsOneLine(rows[i]) => label'[i] = "complete"
    <2>1. CASE i \in {next, q}
      <3>1. pair'[i] # 0 /\ label'[i] = "paired"
        BY <1>3, <1>6, <2>1
      <3> QED
        BY <1>8, <2>1, <3>1
    <2>2. CASE i \notin {next, q}
      <3>1. i \in 1 .. next - 1
        BY <1>3, <2>2
      <3> QED
        BY <1>6, <1>7, <2>2, <3>1
    <2> QED
      BY <2>1, <2>2
  <1> QED
    BY <1>1, <1>5, <1>9 DEF LabelInv, LabelsAgree, LabelsSettled, IsOneLine, IsRequest

\* The pending list is what is left over.
LEMMA LabelsAtFinish ==
    ASSUME IInv, LabelInv, Finish
    PROVE  LabelInv'
  <1>1. /\ rows' = rows /\ pair' = pair /\ next' = 0
        /\ next = Len(rows) + 1 /\ Len(rows) \in Nat
    BY FinishFacts
  <1>2. ~Idle /\ next - 1 = Len(rows) /\ Idle'
    BY <1>1 DEF Idle
  <1>3. label \in [1 .. Len(rows) -> Labels]
    BY DEF IInv, TypeOK
  <1>4. pending = {i \in 1 .. Len(rows) : IsOpenRequest(rows[i]) /\ pair[i] = 0}
    BY <1>2 DEF IInv, PendingExact
  <1>5. \A i \in 1 .. Len(rows) :
          label'[i] = IF i \in pending THEN "unmatched" ELSE label[i]
    BY <1>3 DEF Finish
  <1>6. \A i \in 1 .. Len(rows) :
          /\ label[i] = "paired" <=> pair[i] # 0
          /\ label[i] # "unmatched"
          /\ IsOneLine(rows[i]) => label[i] = "complete"
    BY <1>2 DEF LabelInv, LabelsSettled
  <1>7. ASSUME NEW i \in 1 .. Len(rows)
        PROVE  /\ label'[i] = "paired" <=> pair[i] # 0
               /\ label'[i] = "unmatched" <=> IsOpenRequest(rows[i]) /\ pair[i] = 0
               /\ IsOneLine(rows[i]) => label'[i] = "complete"
    BY <1>4, <1>5, <1>6, TypesDisjoint
  <1> QED
    BY <1>1, <1>2, <1>7 DEF LabelInv, LabelsAgree, LabelsSettled, IsOneLine, IsOpenRequest,
       IsRequest

LEMMA LabelsStep == IInv /\ LabelInv /\ [Next]_vars => LabelInv'
  <1> SUFFICES ASSUME IInv, LabelInv, [Next]_vars
               PROVE  LabelInv'
    OBVIOUS
  <1>1. CASE NewRows
    <2>1. next' = 1
      BY <1>1 DEF NewRows, Load, AppendLive, StartOver
    <2> QED
      BY <2>1 DEF LabelInv, LabelsAgree, LabelsSettled, Idle
  <1>2. CASE VisitPosted
    BY <1>2, LabelsAtLeave, TypesDisjoint DEF VisitPosted, IsOneLine
  <1>3. CASE VisitOneLine
    BY <1>3, LabelsAtLeave DEF VisitOneLine
  <1>4. CASE VisitRequest
    BY <1>4, LabelsAtLeave, TypesDisjoint DEF VisitRequest
  <1>5. CASE VisitCompletion
    BY <1>5, LabelsAtCompletion
  <1>6. CASE VisitOther
    BY <1>6, LabelsAtLeave DEF VisitOther, IsOneLine
  <1>7. CASE Finish
    BY <1>7, LabelsAtFinish
  <1>8. CASE UNCHANGED vars
    BY <1>8 DEF vars, LabelInv, LabelsAgree, LabelsSettled, Idle, IsOneLine, IsOpenRequest,
       IsRequest
  <1> QED
    BY <1>1, <1>2, <1>3, <1>4, <1>5, <1>6, <1>7, <1>8 DEF Next, Analyze

\* When an analysis is over the Match column says what the pairs say, and the
\* rows called unmatched are exactly the open requests nobody answered, also
\* where the Python GUI left the labels of an earlier analysis standing.
THEOREM LabelsTellPairs == Spec => []LabelsAgree
  <1>1. LabelInv => LabelsAgree
    BY DEF LabelInv
  <1> QED
    BY <1>1, Invariance, LabelsStart, LabelsStep, PTL DEF Spec

\* Double-clicking a paired row of the C++ GUI reaches its partner, for every
\* table; in the Python GUI it does not, when the partner is the first row.
THEOREM JumpFindsPartner ==
    ASSUME Gui = "cpp"
    PROVE  Spec => []JumpReachesPair
  <1>1. ASSUME IInv
        PROVE  JumpReachesPair
    <2> SUFFICES ASSUME Idle, NEW i \in 1 .. Len(rows), pair[i] # 0
                 PROVE  JumpTarget(i) = pair[i]
      BY DEF JumpReachesPair
    <2>1. pair[i] \in 1 .. Len(rows) /\ Len(rows) \in Nat
      BY <1>1 DEF IInv, MutualUpTo, Visited, TypeOK
    <2>2. JumpRole(i) = pair[i] - 1
      BY DEF JumpRole, PairRole
    <2> QED
      BY <2>1, <2>2 DEF JumpTarget
  <1> QED
    BY <1>1, Invariance, PTL

-----------------------------------------------------------------------------
(* The queues of requests.  The pending list with one key, in ascending    *)
(* order, grows at its end and is answered at its front.                   *)

\* Each element stands at its rank.
LEMMA StandsAtRank ==
    ASSUME NEW n \in Nat, NEW S \in SUBSET (1 .. n), NEW r \in S
    PROVE  /\ Cardinality(UpTo(S, r)) \in 1 .. Cardinality(S)
           /\ Ascending(S)[Cardinality(UpTo(S, r))] = r
  <1> DEFINE k == Cardinality(UpTo(S, r))
  <1>1. k \in 1 .. Cardinality(S)
    BY RankInRange
  <1>2. \A q \in S : Cardinality(UpTo(S, q)) = k => q = r
    BY RankIsItsOwn
  <1>3. Ascending(S)[k] = CHOOSE q \in S : Cardinality(UpTo(S, q)) = k
    BY <1>1 DEF Ascending, UpTo
  <1> QED
    BY <1>1, <1>2, <1>3

\* Each place holds the element of that rank.
LEMMA PlaceHolds ==
    ASSUME NEW n \in Nat, NEW S \in SUBSET (1 .. n), NEW k \in 1 .. Cardinality(S)
    PROVE  Ascending(S)[k] \in S /\ Cardinality(UpTo(S, Ascending(S)[k])) = k
  <1>1. PICK r \in S : Cardinality(UpTo(S, r)) = k
    BY RankExists
  <1> QED
    BY <1>1, StandsAtRank

LEMMA AscendingIsSeq ==
    ASSUME NEW n \in Nat, NEW S \in SUBSET (1 .. n)
    PROVE  /\ Ascending(S) \in Seq(1 .. n) /\ Len(Ascending(S)) = Cardinality(S)
  <1> DEFINE e(k) == CHOOSE r \in S : Cardinality({q \in S : q <= r}) = k
  <1>1. PICK c : c = Cardinality(S)
    OBVIOUS
  <1>2. c \in Nat
    BY <1>1, RankIsNat
  <1>3. PICK s : s = Ascending(S)
    OBVIOUS
  <1>4. s = [k \in 1 .. c |-> e(k)]
    BY <1>1, <1>3 DEF Ascending
  <1> HIDE DEF e
  <1>5. s = [k \in 1 .. c |-> s[k]]
    BY <1>4
  <1>6. \A k \in 1 .. c : s[k] \in 1 .. n
    BY <1>1, <1>3, PlaceHolds
  <1>7. s \in [1 .. c -> 1 .. n]
    BY <1>5, <1>6
  <1>8. s \in Seq(1 .. n) /\ Len(s) = c
    BY <1>2, <1>7
  <1> QED
    BY <1>1, <1>3, <1>5, <1>8

LEMMA AscendingEmpty == Ascending({}) = <<>>
  <1>1. Cardinality({}) = 0
    BY FS_EmptySet
  <1>2. {} \in SUBSET (1 .. 0)
    OBVIOUS
  <1>3. Ascending({}) \in Seq(1 .. 0) /\ Len(Ascending({})) = 0
    BY <1>1, <1>2, AscendingIsSeq
  <1> QED
    BY <1>3, EmptySeq

\* What comes after all others is appended.
LEMMA AscendingAppends ==
    ASSUME NEW n \in Nat, NEW S \in SUBSET (1 .. n), NEW m \in 1 .. n,
           \A r \in S : r < m
    PROVE  Ascending(S \union {m}) = Append(Ascending(S), m)
  <1>1. PICK T : T = S \union {m}
    OBVIOUS
  <1>2. PICK c : c = Cardinality(S)
    OBVIOUS
  <1>3. T \in SUBSET (1 .. n) /\ m \notin S /\ IsFiniteSet(S) /\ c \in Nat
    <2>1. m \notin S
      <3>1. ~(m < m)
        OBVIOUS
      <3> QED
        BY <3>1
    <2>2. IsFiniteSet(S) /\ c \in Nat
      BY <1>2, RankIsNat
    <2> QED
      BY <1>1, <2>1, <2>2
  <1>4. Cardinality(T) = c + 1
    BY <1>1, <1>2, <1>3, FS_AddElement
  <1>5. ASSUME NEW r \in S
        PROVE  UpTo(T, r) = UpTo(S, r)
    <2>1. r \in Nat /\ m \in Nat /\ ~(m <= r)
      OBVIOUS
    <2> QED
      BY <1>1, <2>1 DEF UpTo
  <1>6. UpTo(T, m) = T
    <2>1. \A r \in T : r <= m
      BY <1>1
    <2> QED
      BY <2>1 DEF UpTo
  <1>7. Ascending(T)[c + 1] = m
    <2>1. m \in T /\ Cardinality(UpTo(T, m)) = c + 1
      BY <1>1, <1>4, <1>6
    <2>2. Ascending(T)[Cardinality(UpTo(T, m))] = m
      BY <1>3, <2>1, StandsAtRank
    <2> QED
      BY <2>1, <2>2
  <1>8. ASSUME NEW k \in 1 .. c
        PROVE  Ascending(T)[k] = Ascending(S)[k]
    <2>1. PICK r : r = Ascending(S)[k]
      OBVIOUS
    <2>2. r \in S /\ Cardinality(UpTo(S, r)) = k
      BY <1>2, <2>1, PlaceHolds
    <2>3. r \in T /\ Cardinality(UpTo(T, r)) = k
      BY <1>1, <1>5, <2>2
    <2> QED
      BY <1>3, <2>1, <2>3, StandsAtRank
  <1>9. PICK s : s = Ascending(S)
    OBVIOUS
  <1>10. PICK t : t = Ascending(T)
    OBVIOUS
  <1>11. s \in Seq(1 .. n) /\ Len(s) = c
    BY <1>2, <1>9, AscendingIsSeq
  <1>12. t \in Seq(1 .. n) /\ Len(t) = c + 1
    BY <1>3, <1>4, <1>10, AscendingIsSeq
  <1>13. PICK a : a = Append(s, m)
    OBVIOUS
  <1>14. /\ a \in Seq(1 .. n) /\ Len(a) = c + 1 /\ a[c + 1] = m
         /\ \A k \in 1 .. c : a[k] = s[k]
    BY <1>3, <1>11, <1>13
  <1>15. ASSUME NEW k \in 1 .. c + 1
         PROVE  t[k] = a[k]
    <2>1. CASE k = c + 1
      BY <1>7, <1>10, <1>14, <2>1
    <2>2. CASE k # c + 1
      <3>1. k \in 1 .. c
        BY <1>3, <2>2
      <3> QED
        BY <1>8, <1>9, <1>10, <1>14, <3>1
    <2> QED
      BY <2>1, <2>2
  <1>16. t = a
    BY <1>12, <1>14, <1>15, SeqEqual
  <1> QED
    BY <1>1, <1>9, <1>10, <1>13, <1>16

\* The least element stands at the front, and without it the rest remains.
LEMMA AscendingTakesLeast ==
    ASSUME NEW n \in Nat, NEW S \in SUBSET (1 .. n), NEW m \in S,
           \A r \in S : m <= r
    PROVE  /\ Ascending(S) # <<>> /\ Head(Ascending(S)) = m
           /\ Ascending(S \ {m}) = Tail(Ascending(S))
  <1>1. PICK T : T = S \ {m}
    OBVIOUS
  <1>2. PICK c : c = Cardinality(T)
    OBVIOUS
  <1>3. T \in SUBSET (1 .. n) /\ m \notin T /\ IsFiniteSet(T) /\ c \in Nat /\ S = T \union {m}
    BY <1>1, <1>2, RankIsNat
  <1>4. Cardinality(S) = c + 1
    BY <1>2, <1>3, FS_AddElement
  <1>5. ASSUME NEW r \in T
        PROVE  Cardinality(UpTo(S, r)) = Cardinality(UpTo(T, r)) + 1
    <2>1. PICK low : low = UpTo(T, r)
      OBVIOUS
    <2>2. IsFiniteSet(low) /\ m \notin low
      BY <1>3, <2>1, RankIsNat DEF UpTo
    <2>3. m <= r
      BY <1>1
    <2>4. UpTo(S, r) = low \union {m}
      BY <1>3, <2>1, <2>3 DEF UpTo
    <2> QED
      BY <2>1, <2>2, <2>4, FS_AddElement
  <1>6. Ascending(S)[1] = m
    <2>1. UpTo(S, m) = {m}
      <3>1. \A r \in S : r <= m <=> r = m
        OBVIOUS
      <3> QED
        BY <3>1 DEF UpTo
    <2>2. Cardinality(UpTo(S, m)) = 1
      BY <2>1, FS_Singleton
    <2> QED
      BY <2>2, StandsAtRank
  <1>7. ASSUME NEW k \in 1 .. c
        PROVE  Ascending(S)[k + 1] = Ascending(T)[k]
    <2>1. PICK r : r = Ascending(T)[k]
      OBVIOUS
    <2>2. r \in T /\ Cardinality(UpTo(T, r)) = k
      BY <1>2, <1>3, <2>1, PlaceHolds
    <2>3. r \in S /\ Cardinality(UpTo(S, r)) = k + 1
      BY <1>1, <1>5, <2>2
    <2> QED
      BY <2>1, <2>3, StandsAtRank
  <1>8. PICK s : s = Ascending(S)
    OBVIOUS
  <1>9. PICK t : t = Ascending(T)
    OBVIOUS
  <1>10. s \in Seq(1 .. n) /\ Len(s) = c + 1
    BY <1>4, <1>8, AscendingIsSeq
  <1>11. t \in Seq(1 .. n) /\ Len(t) = c
    BY <1>2, <1>3, <1>9, AscendingIsSeq
  <1>12. s # <<>> /\ Head(s) = s[1]
    BY <1>3, <1>10
  <1>13. PICK u : u = Tail(s)
    OBVIOUS
  <1>14. /\ u \in Seq(1 .. n) /\ Len(u) = c
         /\ \A k \in 1 .. c : u[k] = s[k + 1]
    <2>1. /\ u \in Seq(1 .. n) /\ Len(u) = Len(s) - 1
          /\ \A k \in 1 .. Len(u) : u[k] = s[k + 1]
      BY <1>10, <1>12, <1>13, HeadTailProperties
    <2>2. Len(s) - 1 = c
      BY <1>3, <1>10
    <2> QED
      BY <2>1, <2>2
  <1>15. \A k \in 1 .. c : t[k] = u[k]
    BY <1>7, <1>8, <1>9, <1>14
  <1>16. t = u
    BY <1>11, <1>14, <1>15, SeqEqual
  <1> QED
    BY <1>1, <1>6, <1>8, <1>9, <1>12, <1>13, <1>16

-----------------------------------------------------------------------------
(* The refinement.  The fits of the Python GUI are equal keys, so the      *)
(* candidates of a completion are the requests of its queue.               *)

WaitingRows(k) == {r \in pending : KeyOf(rows[r]) = k}

LEMMA MatchesIsSameKey ==
    ASSUME Gui = "python", NEW r, NEW c
    PROVE  Matches(r, c) <=> KeyOf(r) = KeyOf(c)
  BY DEF Matches, SameAddr, KeyOf

LEMMA CandidatesWait ==
    ASSUME Gui = "python", NEW c
    PROVE  Candidates(c) = WaitingRows(KeyOf(rows[c]))
  BY MatchesIsSameKey DEF Candidates, WaitingRows

\* The row visited has a key, and the rows that wait come before it.
LEMMA QueueFacts ==
    ASSUME IInv, Visiting
    PROVE  /\ KeyOf(rows[next]) \in Keys /\ Len(rows) \in Nat
           /\ next \in 1 .. Len(rows) /\ Visited = next - 1
           /\ pending \in SUBSET (1 .. next - 1)
  <1>1. /\ Len(rows) \in Nat /\ next \in 1 .. Len(rows) /\ Visited = next - 1
        /\ pending \in SUBSET (1 .. next - 1)
    BY VisitingFacts
  <1>2. rows[next] \in Row
    BY <1>1 DEF IInv, TypeOK
  <1> QED
    BY <1>1, <1>2 DEF Keys

LEMMA QueuesStart == Init => Queues!Init
  <1> SUFFICES ASSUME Init PROVE Queues!Init
    OBVIOUS
  <1>1. pending = {} /\ Visited = 0
    BY DEF Init, Visited, Idle
  <1>2. \A k \in Keys : PendingOf(k) = <<>>
    <2> SUFFICES ASSUME NEW k \in Keys PROVE PendingOf(k) = <<>>
      OBVIOUS
    <2>1. {r \in pending : KeyOf(rows[r]) = k} = {}
      BY <1>1
    <2> QED
      BY <2>1, AscendingEmpty DEF PendingOf
  <1>3. Waiting = [k \in Keys |-> <<>>]
    BY <1>2 DEF Waiting
  <1>4. Answered = {} /\ Refused = {}
    BY <1>1 DEF Answered, Refused
  <1> QED
    BY <1>1, <1>3, <1>4 DEF Queues!Init

\* New rows empty the queues: the walk starts again.
LEMMA QueuesStartOver == NewRows => Queues!Start
  <1> SUFFICES ASSUME NewRows PROVE Queues!Start
    OBVIOUS
  <1>1. pending' = {} /\ next' = 1
    BY DEF NewRows, Load, AppendLive, StartOver
  <1>2. Visited' = 0
    BY <1>1 DEF Visited, Idle
  <1>3. \A k \in Keys : PendingOf(k)' = <<>>
    <2> SUFFICES ASSUME NEW k \in Keys PROVE PendingOf(k)' = <<>>
      OBVIOUS
    <2>1. {r \in pending' : KeyOf(rows'[r]) = k} = {}
      BY <1>1
    <2> QED
      BY <2>1, AscendingEmpty DEF PendingOf, KeyOf
  <1>4. Waiting' = [k \in Keys |-> <<>>]
    BY <1>3 DEF Waiting
  <1>5. Answered' = {} /\ Refused' = {}
    BY <1>2 DEF Answered, Refused
  <1> QED
    BY <1>2, <1>4, <1>5 DEF Queues!Start

\* A row that finds no partner.
LEMMA UnpairedMaps ==
    ASSUME IInv, Visiting, rows' = rows, next' = next + 1,
           pair' = [pair EXCEPT ![next] = 0]
    PROVE  /\ Visited' = Visited + 1 /\ Answered' = Answered
           /\ Refused' = IF IsCompletion(rows[next]) THEN Refused \union {Visited'}
                                                     ELSE Refused
  <1>1. /\ Len(rows) \in Nat /\ next \in 1 .. Len(rows) /\ Visited = next - 1
        /\ pair \in [1 .. Len(rows) -> 0 .. Len(rows)]
    BY VisitingFacts
  <1>2. Visited' = next /\ next - 1 \in Nat
    BY <1>1 DEF Visited, Idle
  <1>3. /\ \A i \in 1 .. next - 1 : pair'[i] = pair[i]
        /\ pair'[next] = 0
        /\ \A i : i \in 1 .. next <=> i \in 1 .. next - 1 \/ i = next
    BY <1>1
  <1>4. \A i : i \in 1 .. next /\ pair'[i] \in 1 .. i
               <=> i \in 1 .. next - 1 /\ pair[i] \in 1 .. i
    BY <1>1, <1>3
  <1>5. Answered' = Answered
    <2>1. \A x : x \in Answered <=>
            \E i : i \in 1 .. next - 1 /\ pair[i] \in 1 .. i /\ x = <<pair[i], i>>
      BY <1>1 DEF Answered
    <2>2. \A x : x \in Answered' <=>
            \E i : i \in 1 .. next /\ pair'[i] \in 1 .. i /\ x = <<pair'[i], i>>
      BY <1>2 DEF Answered
    <2> QED
      BY <1>3, <1>4, <2>1, <2>2
  <1>6. Refused' = IF IsCompletion(rows[next]) THEN Refused \union {next} ELSE Refused
    BY <1>1, <1>2, <1>3 DEF Refused, IsCompletion
  <1> QED
    BY <1>1, <1>2, <1>5, <1>6

\* An open request joins the queue of its key.
LEMMA RequestAsks ==
    ASSUME IInv, VisitRequest
    PROVE  \E k \in Keys : Queues!Ask(k)
  <1>1. /\ Visiting /\ IsOpenRequest(rows[next]) /\ rows' = rows /\ next' = next + 1
        /\ pair' = [pair EXCEPT ![next] = 0] /\ pending' = pending \union {next}
    BY DEF VisitRequest, Leave
  <1>2. Visited' = Visited + 1 /\ Answered' = Answered /\ Refused' = Refused
    BY <1>1, UnpairedMaps, TypesDisjoint
  <1>3. /\ KeyOf(rows[next]) \in Keys /\ Len(rows) \in Nat /\ next \in 1 .. Len(rows)
        /\ Visited = next - 1 /\ pending \in SUBSET (1 .. next - 1)
    BY <1>1, QueueFacts
  <1>4. PICK k \in Keys : k = KeyOf(rows[next])
    BY <1>3
  <1>5. PendingOf(k)' = Append(PendingOf(k), next)
    <2>1. PICK S : S = WaitingRows(k)
      OBVIOUS
    <2>2. S \in SUBSET (1 .. Len(rows)) /\ \A r \in S : r < next
      <3>1. S \in SUBSET pending
        BY <2>1 DEF WaitingRows
      <3>2. \A r \in pending : r \in 1 .. Len(rows) /\ r < next
        BY <1>3
      <3> QED
        BY <3>1, <3>2
    <2>3. {r \in pending' : KeyOf(rows'[r]) = k} = S \union {next}
      BY <1>1, <1>4, <2>1 DEF WaitingRows
    <2>4. Ascending(S \union {next}) = Append(Ascending(S), next)
      BY <1>3, <2>2, AscendingAppends
    <2>5. PendingOf(k)' = Ascending(S \union {next})
      BY <2>3 DEF PendingOf, KeyOf
    <2> QED
      BY <2>1, <2>4, <2>5 DEF PendingOf, WaitingRows
  <1>6. ASSUME NEW j \in Keys, j # k
        PROVE  PendingOf(j)' = PendingOf(j)
    <2>1. {r \in pending' : KeyOf(rows'[r]) = j} = {r \in pending : KeyOf(rows[r]) = j}
      BY <1>1, <1>4, <1>6
    <2> QED
      BY <2>1 DEF PendingOf, KeyOf
  <1>7. Waiting' = [Waiting EXCEPT ![k] = Append(@, Visited')]
    <2>1. Visited' = next
      BY <1>2, <1>3
    <2>2. Waiting' = [j \in Keys |-> IF j = k THEN Append(PendingOf(k), next)
                                              ELSE PendingOf(j)]
      BY <1>5, <1>6 DEF Waiting
    <2> QED
      BY <2>1, <2>2 DEF Waiting
  <1> QED
    BY <1>2, <1>7 DEF Queues!Ask

\* A completion answers the request at the front of its queue.
LEMMA CompletionAnswers ==
    ASSUME IInv, Gui = "python", VisitCompletion
    PROVE  \E k \in Keys : Queues!Answer(k)
  <1>1. Visiting /\ IsCompletion(rows[next]) /\ rows' = rows /\ next' = next + 1
    BY DEF VisitCompletion
  <1>2. PICK q \in Candidates(next) :
          /\ \A other \in Candidates(next) : q <= other
          /\ pair' = [pair EXCEPT ![next] = q, ![q] = next]
          /\ pending' = pending \ {q}
    BY DEF VisitCompletion
  <1>3. /\ KeyOf(rows[next]) \in Keys /\ Len(rows) \in Nat /\ next \in 1 .. Len(rows)
        /\ Visited = next - 1 /\ pending \in SUBSET (1 .. next - 1)
    BY <1>1, QueueFacts
  <1>4. /\ q \in 1 .. next - 1 /\ pair[q] = 0 /\ ~IsCompletion(rows[q])
        /\ pair \in [1 .. Len(rows) -> 0 .. Len(rows)]
    BY <1>1, VisitingFacts, TypesDisjoint DEF Candidates
  <1>5. PICK k \in Keys : k = KeyOf(rows[next])
    BY <1>3
  <1>6. PICK S : S = WaitingRows(k)
    OBVIOUS
  <1>7. S = Candidates(next)
    BY <1>5, <1>6, CandidatesWait
  <1>8. /\ PendingOf(k) # <<>> /\ Head(PendingOf(k)) = q
        /\ PendingOf(k)' = Tail(PendingOf(k))
    <2>1. S \in SUBSET (1 .. Len(rows)) /\ q \in S /\ \A r \in S : q <= r
      <3>1. S \in SUBSET pending
        BY <1>6 DEF WaitingRows
      <3>2. pending \in SUBSET (1 .. Len(rows))
        BY <1>3
      <3> QED
        BY <1>2, <1>7, <3>1, <3>2
    <2>2. /\ Ascending(S) # <<>> /\ Head(Ascending(S)) = q
          /\ Ascending(S \ {q}) = Tail(Ascending(S))
      BY <1>3, <2>1, AscendingTakesLeast
    <2>3. {r \in pending' : KeyOf(rows'[r]) = k} = S \ {q}
      BY <1>1, <1>2, <1>6 DEF WaitingRows
    <2>4. PendingOf(k)' = Ascending(S \ {q})
      BY <2>3 DEF PendingOf, KeyOf
    <2> QED
      BY <1>6, <2>2, <2>4 DEF PendingOf, WaitingRows
  <1>9. ASSUME NEW j \in Keys, j # k
        PROVE  PendingOf(j)' = PendingOf(j)
    <2>1. KeyOf(rows[q]) = k
      BY <1>6, <1>7 DEF WaitingRows
    <2>2. {r \in pending' : KeyOf(rows'[r]) = j} = {r \in pending : KeyOf(rows[r]) = j}
      BY <1>1, <1>2, <1>9, <2>1
    <2> QED
      BY <2>2 DEF PendingOf, KeyOf
  <1>10. Waiting' = [Waiting EXCEPT ![k] = Tail(@)]
    <2>1. Waiting' = [j \in Keys |-> IF j = k THEN Tail(PendingOf(k)) ELSE PendingOf(j)]
      BY <1>8, <1>9 DEF Waiting
    <2> QED
      BY <2>1 DEF Waiting
  <1>11. Visited' = next /\ next - 1 \in Nat
    BY <1>1, <1>3 DEF Visited, Idle
  <1>12. /\ \A i \in 1 .. next - 1 : pair'[i] = IF i = q THEN next ELSE pair[i]
         /\ pair'[next] = q
         /\ \A i : i \in 1 .. next <=> i \in 1 .. next - 1 \/ i = next
    BY <1>2, <1>3, <1>4
  <1>13. Answered' = Answered \union {<<q, next>>}
    <2>1. \A x : x \in Answered <=>
            \E i : i \in 1 .. next - 1 /\ pair[i] \in 1 .. i /\ x = <<pair[i], i>>
      BY <1>3 DEF Answered
    <2>2. \A x : x \in Answered' <=>
            \E i : i \in 1 .. next /\ pair'[i] \in 1 .. i /\ x = <<pair'[i], i>>
      BY <1>11 DEF Answered
    <2>3. \A i \in 1 .. next - 1 : pair'[i] \in 1 .. i <=> pair[i] \in 1 .. i
      BY <1>3, <1>4, <1>12
    <2>4. \A i \in 1 .. next - 1 : pair'[i] \in 1 .. i => pair'[i] = pair[i]
      BY <1>3, <1>4, <1>12
    <2>5. pair'[next] \in 1 .. next
      BY <1>3, <1>4, <1>12
    <2> QED
      BY <1>12, <2>1, <2>2, <2>3, <2>4, <2>5
  <1>14. Refused' = Refused
    <2>1. /\ \A x : x \in Refused <=>
               x \in 1 .. next - 1 /\ IsCompletion(rows[x]) /\ pair[x] = 0
          /\ \A x : x \in Refused' <=>
               x \in 1 .. next /\ IsCompletion(rows[x]) /\ pair'[x] = 0
      BY <1>1, <1>3, <1>11 DEF Refused, IsCompletion
    <2>2. q # 0 /\ next # 0
      BY <1>3, <1>4
    <2>3. next \notin Refused'
      BY <1>12, <2>1, <2>2
    <2>4. q \notin Refused /\ q \notin Refused'
      BY <1>4, <2>1
    <2>5. ASSUME NEW x, x # q, x # next
          PROVE  x \in Refused' <=> x \in Refused
      BY <1>12, <2>1, <2>5
    <2>6. next \notin Refused
      BY <1>3, <2>1
    <2> QED
      BY <2>3, <2>4, <2>5, <2>6
  <1>15. Visited' = Visited + 1 /\ Waiting[k] = PendingOf(k)
    BY <1>3, <1>11 DEF Waiting
  <1> QED
    BY <1>8, <1>10, <1>11, <1>13, <1>14, <1>15 DEF Queues!Answer

\* The queues do not change while the pending list does not.
LEMMA SameQueues ==
    ASSUME pending' = pending, rows' = rows
    PROVE  Waiting' = Waiting
  BY DEF Waiting, PendingOf, KeyOf

\* A row that is no open request and no completion with a request passes.
LEMMA OtherMaps ==
    ASSUME IInv, Gui = "python", VisitPosted \/ VisitOneLine \/ VisitOther
    PROVE  Queues!Pass \/ \E k \in Keys : Queues!Refuse(k)
  <1>1. /\ Visiting /\ rows' = rows /\ next' = next + 1 /\ pending' = pending
        /\ pair' = [pair EXCEPT ![next] = 0]
    BY DEF VisitPosted, VisitOneLine, VisitOther, Leave
  <1>2. Waiting' = Waiting
    BY <1>1, SameQueues
  <1>3. /\ Visited' = Visited + 1 /\ Answered' = Answered
        /\ Refused' = IF IsCompletion(rows[next]) THEN Refused \union {Visited'}
                                                  ELSE Refused
    BY <1>1, UnpairedMaps
  <1>4. CASE ~IsCompletion(rows[next])
    BY <1>2, <1>3, <1>4 DEF Queues!Pass
  <1>5. CASE IsCompletion(rows[next])
    <2>1. Candidates(next) = {}
      BY <1>5, TypesDisjoint DEF VisitPosted, VisitOneLine, VisitOther, IsOneLine
    <2>2. PICK k \in Keys : k = KeyOf(rows[next])
      BY <1>1, QueueFacts
    <2>3. WaitingRows(k) = {}
      BY <2>1, <2>2, CandidatesWait
    <2>4. Waiting[k] = <<>>
      BY <2>3, AscendingEmpty DEF Waiting, PendingOf, WaitingRows
    <2> QED
      BY <1>2, <1>3, <1>5, <2>4 DEF Queues!Refuse
  <1> QED
    BY <1>4, <1>5

\* The end of the walk changes nothing of it.
LEMMA FinishStutters ==
    ASSUME IInv, Finish
    PROVE  UNCHANGED Queues!vars
  <1>1. /\ rows' = rows /\ pair' = pair /\ pending' = pending /\ next' = 0
        /\ next = Len(rows) + 1 /\ Len(rows) \in Nat
    BY FinishFacts
  <1>2. Visited' = Visited
    BY <1>1 DEF Visited, Idle
  <1>3. Waiting' = Waiting
    BY <1>1, SameQueues
  <1>4. Answered' = Answered /\ Refused' = Refused
    BY <1>1, <1>2 DEF Answered, Refused, IsCompletion
  <1> QED
    BY <1>2, <1>3, <1>4 DEF Queues!vars

LEMMA QueuesStep ==
    ASSUME Gui = "python", IInv, [Next]_vars
    PROVE  [Queues!Next]_(Queues!vars)
  <1>1. CASE NewRows
    BY <1>1, QueuesStartOver DEF Queues!Next
  <1>2. CASE VisitPosted \/ VisitOneLine \/ VisitOther
    BY <1>2, OtherMaps DEF Queues!Next
  <1>3. CASE VisitRequest
    BY <1>3, RequestAsks DEF Queues!Next
  <1>4. CASE VisitCompletion
    BY <1>4, CompletionAnswers DEF Queues!Next
  <1>5. CASE Finish
    BY <1>5, FinishStutters
  <1>6. CASE UNCHANGED vars
    BY <1>6 DEF vars, Queues!vars, Waiting, PendingOf, KeyOf, Answered, Refused, Visited,
       Idle, IsCompletion
  <1> QED
    BY <1>1, <1>2, <1>3, <1>4, <1>5, <1>6 DEF Next, Analyze

\* The analysis of the Python GUI implements one queue of requests per tag and
\* address: its search of the pending list never lets a request overtake
\* another with the same key, through every rerun.
THEOREM PythonImplementsQueues ==
    ASSUME Gui = "python"
    PROVE  Spec => ImplementsQueues
  <1>1. IInv /\ [Next]_vars => [Queues!Next]_(Queues!vars)
    BY QueuesStep
  <1> QED
    BY <1>1, QueuesStart, Invariance, PTL DEF Spec, ImplementsQueues, Queues!Spec
=============================================================================
