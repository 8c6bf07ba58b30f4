--------------------------- MODULE ReviewRunProofs ---------------------------
(***************************************************************************)
(* What holds of a review for any index, any evidence, any prices, prompts *)
(* and limits, and whichever of its calls is refused, repaired or denied.  *)
(***************************************************************************)
EXTENDS ReviewRun, FoldInduction, FiniteSetTheorems, SequenceTheorems, TLAPS

-----------------------------------------------------------------------------
(* The evidence a search or a selection comes to, for any hits. *)

\* kept[i] is what was picked of the first i hits, in their order.
Picks(kept, hits) ==
  /\ kept[0] = <<>>
  /\ \A i \in 1 .. Len(hits) : kept[i] \in {kept[i - 1], Append(kept[i - 1], hits[i])}

\* r does not fall along s.
Sorted(r, s) == \A i, j \in DOMAIN s : i < j => r[s[i]] <= r[s[j]]

\* What was picked of a sequence is in it, and as sorted as it.
LEMMA PickedHits ==
  ASSUME NEW H, NEW hits \in Seq(H), NEW kept, Picks(kept, hits), NEW r \in [H -> Nat]
  PROVE  /\ kept[Len(hits)] \in Seq(H) /\ Len(kept[Len(hits)]) <= Len(hits)
         /\ Sorted(r, hits) => Sorted(r, kept[Len(hits)])
<1> DEFINE N == Len(hits)
           From(s, i) == \A k \in 1 .. Len(s) : \E m \in 1 .. i : s[k] = hits[m]
           G == {i \in Nat : i <= N => /\ kept[i] \in Seq(H) /\ Len(kept[i]) <= i
                                       /\ From(kept[i], i)
                                       /\ Sorted(r, hits) => Sorted(r, kept[i])}
<1>1. N \in Nat
  OBVIOUS
<1>2. 0 \in G
  <2>1. kept[0] = <<>>
    BY DEF Picks
  <2>2. <<>> \in Seq(H) /\ Len(<<>>) = 0 /\ From(<<>>, 0) /\ Sorted(r, <<>>)
    BY DEF Sorted
  <2> HIDE DEF From
  <2>3. /\ kept[0] \in Seq(H) /\ Len(kept[0]) <= 0 /\ From(kept[0], 0)
        /\ Sorted(r, hits) => Sorted(r, kept[0])
    BY <2>1, <2>2
  <2> QED
    BY <2>3
<1>3. ASSUME NEW i \in 0 .. (N - 1), i \in G PROVE i + 1 \in G
  <2>1. PICK s \in Seq(H) : /\ s = kept[i] /\ Len(s) <= i /\ From(s, i)
                            /\ Sorted(r, hits) => Sorted(r, s)
    <3>1. i \in Nat /\ i <= N
      BY <1>1, <1>3
    <3> HIDE DEF From
    <3> QED
      BY <1>3, <3>1
  <2>2. i + 1 \in 1 .. N /\ hits[i + 1] \in H /\ i \in Nat
    BY <1>1, <1>3
  <2>3. kept[i + 1] \in {s, Append(s, hits[i + 1])}
    <3>1. kept[i + 1] \in {kept[(i + 1) - 1], Append(kept[(i + 1) - 1], hits[i + 1])}
      BY <2>2 DEF Picks
    <3> QED
      BY <2>1, <2>2, <3>1
  <2>4. ASSUME NEW t, t = Append(s, hits[i + 1])
        PROVE  /\ t \in Seq(H) /\ Len(t) <= i + 1 /\ From(t, i + 1)
               /\ Sorted(r, hits) => Sorted(r, t)
    <3>1. /\ t \in Seq(H) /\ Len(t) = Len(s) + 1 /\ t[Len(s) + 1] = hits[i + 1]
          /\ \A k \in 1 .. Len(s) : t[k] = s[k]
      BY <2>2, <2>4, AppendProperties
    <3>2. Len(s) \in Nat /\ DOMAIN t = 1 .. (Len(s) + 1) /\ DOMAIN hits = 1 .. N
      BY <3>1
    <3>3. ASSUME NEW k \in 1 .. Len(t) PROVE \E m \in 1 .. (i + 1) : t[k] = hits[m]
      <4>1. CASE k = Len(s) + 1
        BY <2>2, <3>1, <4>1
      <4>2. CASE k \in 1 .. Len(s)
        <5>1. PICK m \in 1 .. i : s[k] = hits[m]
          BY <2>1, <4>2
        <5>2. m \in 1 .. (i + 1)
          BY <2>2, <5>1
        <5>3. t[k] = hits[m]
          BY <3>1, <4>2, <5>1
        <5> QED
          BY <5>2, <5>3
      <4> QED
        BY <3>1, <3>2, <4>1, <4>2
    <3>4. ASSUME Sorted(r, hits), NEW j \in DOMAIN t, NEW k \in DOMAIN t, j < k
          PROVE  r[t[j]] <= r[t[k]]
      <4>1. CASE k \in 1 .. Len(s)
        <5>1. j \in DOMAIN s /\ k \in DOMAIN s
          <6>1. DOMAIN s = 1 .. Len(s)
            BY <2>1
          <6> QED
            BY <3>2, <3>4, <4>1, <6>1
        <5>2. r[s[j]] <= r[s[k]]
          <6>1. Sorted(r, s)
            BY <2>1, <3>4
          <6> QED
            BY <3>4, <5>1, <6>1 DEF Sorted
        <5>3. t[j] = s[j] /\ t[k] = s[k]
          <6>1. DOMAIN s = 1 .. Len(s)
            BY <2>1
          <6> QED
            BY <3>1, <5>1, <6>1
        <5> QED
          BY <5>2, <5>3
      <4>2. CASE k = Len(s) + 1
        <5>1. j \in 1 .. Len(s)
          BY <3>2, <3>4, <4>2
        <5>2. PICK m \in 1 .. i : s[j] = hits[m]
          BY <2>1, <5>1
        <5>3. m \in DOMAIN hits /\ i + 1 \in DOMAIN hits /\ m < i + 1
          BY <2>2, <3>2
        <5>4. r[hits[m]] <= r[hits[i + 1]]
          BY <3>4, <5>3 DEF Sorted
        <5> QED
          BY <3>1, <4>2, <5>1, <5>2, <5>4
      <4> QED
        BY <3>2, <4>1, <4>2
    <3>5. Len(t) <= i + 1
      BY <2>1, <2>2, <3>1, <3>2
    <3> QED
      BY <3>1, <3>3, <3>4, <3>5 DEF Sorted
  <2>5. From(s, i + 1) /\ Len(s) <= i + 1
    BY <2>1, <2>2
  <2>6. /\ kept[i + 1] \in Seq(H) /\ Len(kept[i + 1]) <= i + 1 /\ From(kept[i + 1], i + 1)
        /\ Sorted(r, hits) => Sorted(r, kept[i + 1])
    <3> HIDE DEF From
    <3> QED
      BY <2>1, <2>3, <2>4, <2>5
  <2>7. i + 1 \in Nat
    BY <2>2
  <2> HIDE DEF From
  <2> QED
    BY <2>6, <2>7
<1>4. G \in SUBSET Nat
  OBVIOUS
<1> HIDE DEF G
<1>5. N \in 0 .. N
  BY <1>1
<1> HIDE DEF N
<1>6. N \in G
  BY <1>1, <1>2, <1>3, <1>4, <1>5, SetInduction
<1> QED
  BY <1>1, <1>6 DEF G, N

\* TextUnique picks the first hit of every text.
LEMMA TextUniqueUnfolds ==
  ASSUME NEW H, NEW hits \in Seq(H)
  PROVE  \E kept : /\ Picks(kept, hits)
                   /\ TextUnique(hits) = kept[Len(hits)]
<1> DEFINE V == Seq(H)
           N == Len(hits)
           Has(v, h) == \E g \in ToSet(v) : TextOf[g.id] = TextOf[h.id]
           Taken(v, h) == IF Has(v, h) THEN v ELSE Append(v, h)
           step == [v \in V |-> [h \in H |-> Taken(v, h)]]
           F(f) == [i \in 0 .. N |-> IF i = 0 THEN <<>> ELSE Taken(f[i - 1], hits[i])]
           kept == CHOOSE f : f = F(f)
<1>1. TextUnique(hits) = kept[N]
  BY DEF TextUnique
<1> HIDE DEF Has
<1>2. step \in [V -> [H -> V]]
  OBVIOUS
<1>3. PICK f : IsFold(f, V, <<>>, step, hits)
  <2> DEFINE e == <<>>
  <2>1. e \in V /\ hits \in Seq(H)
    OBVIOUS
  <2> HIDE DEF step, V, e
  <2>2. \E f : IsFold(f, V, e, step, hits)
    BY <1>2, <2>1, FoldExists
  <2> QED
    BY <2>2 DEF e
<1>4. /\ f \in [0 .. N -> V] /\ f[0] = <<>>
      /\ \A i \in 1 .. N : f[i] = step[f[i - 1]][hits[i]]
  BY <1>3 DEF IsFold
<1>5. f = F(f)
  <2>1. ASSUME NEW i \in 1 .. N PROVE f[i] = F(f)[i]
    <3>1. f[i - 1] \in V /\ hits[i] \in H
      BY <1>4
    <3>2. step[f[i - 1]][hits[i]] = Taken(f[i - 1], hits[i])
      BY <3>1
    <3>3. i \in 0 .. N /\ i # 0
      OBVIOUS
    <3>4. F(f)[i] = Taken(f[i - 1], hits[i])
      BY <3>3
    <3> QED
      BY <1>4, <3>2, <3>4
  <2>2. f[0] = F(f)[0]
    BY <1>4
  <2>3. \A i \in 0 .. N : i = 0 \/ i \in 1 .. N
    OBVIOUS
  <2>4. \A i \in 0 .. N : f[i] = F(f)[i]
    BY <2>1, <2>2, <2>3
  <2>5. F(f) = [i \in 0 .. N |-> F(f)[i]] /\ f = [i \in 0 .. N |-> f[i]]
    BY <1>4
  <2> HIDE DEF F
  <2> QED
    BY <2>4, <2>5
<1>6. kept = F(kept)
  <2> HIDE DEF F
  <2> QED
    BY <1>5
<1> HIDE DEF kept
<1>7. kept[0] = <<>> /\ N \in Nat
  BY <1>6
<1>8. ASSUME NEW i \in 1 .. N PROVE kept[i] = Taken(kept[i - 1], hits[i])
  <2>1. i \in 0 .. N /\ i # 0
    BY <1>7
  <2>2. kept[i] = F(kept)[i]
    BY <1>6
  <2> QED
    BY <2>1, <2>2
<1>9. Picks(kept, hits)
  BY <1>7, <1>8 DEF Picks
<1> QED
  BY <1>1, <1>9

\* FillSlots picks whole hits while there is room.
LEMMA FillSlotsUnfolds ==
  ASSUME NEW H, NEW hits \in Seq(H)
  PROVE  \E taken : /\ Picks(taken, hits)
                   /\ FillSlots(hits) = taken[Len(hits)]
<1> DEFINE V == Seq(H)
           N == Len(hits)
           Has(v, h) == /\ Len(v) < K
                          /\ Context(v) + EntrySize[h.id] <= ContextBudget
           Taken(v, h) == IF Has(v, h) THEN Append(v, h) ELSE v
           step == [v \in V |-> [h \in H |-> Taken(v, h)]]
           F(f) == [i \in 0 .. N |-> IF i = 0 THEN <<>> ELSE Taken(f[i - 1], hits[i])]
           taken == CHOOSE f : f = F(f)
<1>1. FillSlots(hits) = taken[N]
  BY DEF FillSlots
<1> HIDE DEF Has
<1>2. step \in [V -> [H -> V]]
  OBVIOUS
<1>3. PICK f : IsFold(f, V, <<>>, step, hits)
  <2> DEFINE e == <<>>
  <2>1. e \in V /\ hits \in Seq(H)
    OBVIOUS
  <2> HIDE DEF step, V, e
  <2>2. \E f : IsFold(f, V, e, step, hits)
    BY <1>2, <2>1, FoldExists
  <2> QED
    BY <2>2 DEF e
<1>4. /\ f \in [0 .. N -> V] /\ f[0] = <<>>
      /\ \A i \in 1 .. N : f[i] = step[f[i - 1]][hits[i]]
  BY <1>3 DEF IsFold
<1>5. f = F(f)
  <2>1. ASSUME NEW i \in 1 .. N PROVE f[i] = F(f)[i]
    <3>1. f[i - 1] \in V /\ hits[i] \in H
      BY <1>4
    <3>2. step[f[i - 1]][hits[i]] = Taken(f[i - 1], hits[i])
      BY <3>1
    <3>3. i \in 0 .. N /\ i # 0
      OBVIOUS
    <3>4. F(f)[i] = Taken(f[i - 1], hits[i])
      BY <3>3
    <3> QED
      BY <1>4, <3>2, <3>4
  <2>2. f[0] = F(f)[0]
    BY <1>4
  <2>3. \A i \in 0 .. N : i = 0 \/ i \in 1 .. N
    OBVIOUS
  <2>4. \A i \in 0 .. N : f[i] = F(f)[i]
    BY <2>1, <2>2, <2>3
  <2>5. F(f) = [i \in 0 .. N |-> F(f)[i]] /\ f = [i \in 0 .. N |-> f[i]]
    BY <1>4
  <2> HIDE DEF F
  <2> QED
    BY <2>4, <2>5
<1>6. taken = F(taken)
  <2> HIDE DEF F
  <2> QED
    BY <1>5
<1> HIDE DEF taken
<1>7. taken[0] = <<>> /\ N \in Nat
  BY <1>6
<1>8. ASSUME NEW i \in 1 .. N PROVE taken[i] = Taken(taken[i - 1], hits[i])
  <2>1. i \in 0 .. N /\ i # 0
    BY <1>7
  <2>2. taken[i] = F(taken)[i]
    BY <1>6
  <2> QED
    BY <2>1, <2>2
<1>9. Picks(taken, hits)
  BY <1>7, <1>8 DEF Picks
<1> QED
  BY <1>1, <1>9

\* Without picks the hits of other chunks.
LEMMA WithoutUnfolds ==
  ASSUME NEW H, NEW hits \in Seq(H), NEW chunks
  PROVE  \E kept : /\ Picks(kept, hits)
                   /\ Without(hits, chunks) = kept[Len(hits)]
                   /\ \A i \in 1 .. Len(hits) :
                        hits[i].id \in chunks => kept[i] = kept[i - 1]
<1> DEFINE V == Seq(H)
           N == Len(hits)
           Has(v, h) == h.id \in chunks
           Taken(v, h) == IF Has(v, h) THEN v ELSE Append(v, h)
           step == [v \in V |-> [h \in H |-> Taken(v, h)]]
           F(f) == [i \in 0 .. N |-> IF i = 0 THEN <<>> ELSE Taken(f[i - 1], hits[i])]
           kept == CHOOSE f : f = F(f)
<1>1. Without(hits, chunks) = kept[N]
  BY DEF Without
<1> HIDE DEF Has
<1>2. step \in [V -> [H -> V]]
  OBVIOUS
<1>3. PICK f : IsFold(f, V, <<>>, step, hits)
  <2> DEFINE e == <<>>
  <2>1. e \in V /\ hits \in Seq(H)
    OBVIOUS
  <2> HIDE DEF step, V, e
  <2>2. \E f : IsFold(f, V, e, step, hits)
    BY <1>2, <2>1, FoldExists
  <2> QED
    BY <2>2 DEF e
<1>4. /\ f \in [0 .. N -> V] /\ f[0] = <<>>
      /\ \A i \in 1 .. N : f[i] = step[f[i - 1]][hits[i]]
  BY <1>3 DEF IsFold
<1>5. f = F(f)
  <2>1. ASSUME NEW i \in 1 .. N PROVE f[i] = F(f)[i]
    <3>1. f[i - 1] \in V /\ hits[i] \in H
      BY <1>4
    <3>2. step[f[i - 1]][hits[i]] = Taken(f[i - 1], hits[i])
      BY <3>1
    <3>3. i \in 0 .. N /\ i # 0
      OBVIOUS
    <3>4. F(f)[i] = Taken(f[i - 1], hits[i])
      BY <3>3
    <3> QED
      BY <1>4, <3>2, <3>4
  <2>2. f[0] = F(f)[0]
    BY <1>4
  <2>3. \A i \in 0 .. N : i = 0 \/ i \in 1 .. N
    OBVIOUS
  <2>4. \A i \in 0 .. N : f[i] = F(f)[i]
    BY <2>1, <2>2, <2>3
  <2>5. F(f) = [i \in 0 .. N |-> F(f)[i]] /\ f = [i \in 0 .. N |-> f[i]]
    BY <1>4
  <2> HIDE DEF F
  <2> QED
    BY <2>4, <2>5
<1>6. kept = F(kept)
  <2> HIDE DEF F
  <2> QED
    BY <1>5
<1> HIDE DEF kept
<1>7. kept[0] = <<>> /\ N \in Nat
  BY <1>6
<1>8. ASSUME NEW i \in 1 .. N PROVE kept[i] = Taken(kept[i - 1], hits[i])
  <2>1. i \in 0 .. N /\ i # 0
    BY <1>7
  <2>2. kept[i] = F(kept)[i]
    BY <1>6
  <2> QED
    BY <2>1, <2>2
<1>9. Picks(kept, hits)
  BY <1>7, <1>8 DEF Picks
<1> QED
  BY <1>1, <1>8, <1>9 DEF Has

\* Without leaves out the hits of those chunks, and nothing else is in it than was given.
LEMMA WithoutHits ==
  ASSUME NEW H, NEW hits \in Seq(H), NEW chunks
  PROVE  Without(hits, chunks) \in Seq({h \in H : h.id \notin chunks})
<1> DEFINE N == Len(hits)
           R == {h \in H : h.id \notin chunks}
<1>1. PICK kept : /\ Picks(kept, hits) /\ Without(hits, chunks) = kept[N]
                  /\ \A i \in 1 .. N : hits[i].id \in chunks => kept[i] = kept[i - 1]
  BY WithoutUnfolds
<1> DEFINE G == {i \in Nat : i <= N => kept[i] \in Seq(R)}
<1>2. 0 \in G
  <2>1. kept[0] \in Seq(R)
    BY <1>1 DEF Picks
  <2> QED
    BY <2>1
<1>3. ASSUME NEW i \in 0 .. (N - 1), i \in G PROVE i + 1 \in G
  <2>1. i \in Nat /\ i <= N /\ i + 1 \in 1 .. N /\ (i + 1) - 1 = i /\ i + 1 \in Nat
    BY <1>3
  <2>2. kept[i] \in Seq(R) /\ hits[i + 1] \in H
    BY <1>3, <2>1
  <2>3. /\ kept[i + 1] \in {kept[i], Append(kept[i], hits[i + 1])}
        /\ hits[i + 1].id \in chunks => kept[i + 1] = kept[i]
    BY <1>1, <2>1 DEF Picks
  <2>4. hits[i + 1].id \notin chunks => Append(kept[i], hits[i + 1]) \in Seq(R)
    <3>1. hits[i + 1].id \notin chunks => hits[i + 1] \in R
      BY <2>2
    <3> HIDE DEF R
    <3> QED
      BY <2>2, <3>1, AppendProperties
  <2>5. kept[i + 1] \in Seq(R)
    BY <2>2, <2>3, <2>4
  <2> QED
    BY <2>1, <2>5
<1>4. N \in Nat /\ G \in SUBSET Nat /\ N \in 0 .. N
  OBVIOUS
<1> HIDE DEF G, N
<1>5. N \in G
  BY <1>2, <1>3, <1>4, SetInduction
<1> QED
  BY <1>1, <1>4, <1>5 DEF G

\* Within the quota every hit keeps its place; and nothing is lost or added in any case.
LEMMA PreferenceUnfolds ==
  ASSUME NEW H, NEW hits \in Seq(H), NEW quota \in Nat
  PROVE  \E split :
           /\ split[0] = [preferred |-> <<>>, deferred |-> <<>>]
           /\ \A i \in 1 .. Len(hits) :
                split[i] = IF InFiling(split[i - 1].preferred, hits[i]) < quota
                           THEN [split[i - 1] EXCEPT !.preferred = Append(@, hits[i])]
                           ELSE [split[i - 1] EXCEPT !.deferred = Append(@, hits[i])]
           /\ DocumentPreference(hits, quota) =
                split[Len(hits)].preferred \o split[Len(hits)].deferred
<1> DEFINE S == Seq(H)
           V == [preferred : S, deferred : S]
           N == Len(hits)
           Has(v, h) == InFiling(v.preferred, h) < quota
           Taken(v, h) == IF Has(v, h)
                         THEN [v EXCEPT !.preferred = Append(@, h)]
                         ELSE [v EXCEPT !.deferred = Append(@, h)]
           step == [v \in V |-> [h \in H |-> Taken(v, h)]]
           e == [preferred |-> <<>>, deferred |-> <<>>]
           F(f) == [i \in 0 .. N |-> IF i = 0 THEN e ELSE Taken(f[i - 1], hits[i])]
           split == CHOOSE f : f = F(f)
<1>1. DocumentPreference(hits, quota) = split[N].preferred \o split[N].deferred
  BY DEF DocumentPreference
<1>2. \A v, h : Has(v, h) <=> InFiling(v.preferred, h) < quota
  OBVIOUS
<1> HIDE DEF Has
<1>3. step \in [V -> [H -> V]]
  <2>1. ASSUME NEW v \in V, NEW h \in H PROVE Taken(v, h) \in V
    <3>1. v.preferred \in S /\ v.deferred \in S
      OBVIOUS
    <3>2. Append(v.preferred, h) \in S /\ Append(v.deferred, h) \in S
      BY <3>1, AppendProperties
    <3> HIDE DEF S
    <3> QED
      BY <3>2
  <2> HIDE DEF Taken, V
  <2> QED
    BY <2>1
<1>4. PICK f : IsFold(f, V, e, step, hits)
  <2>1. e \in V /\ hits \in Seq(H)
    OBVIOUS
  <2> HIDE DEF step, V, e
  <2> QED
    BY <1>3, <2>1, FoldExists
<1>5. /\ f \in [0 .. N -> V] /\ f[0] = e
      /\ \A i \in 1 .. N : f[i] = step[f[i - 1]][hits[i]]
  BY <1>4 DEF IsFold
<1>6. f = F(f)
  <2>1. ASSUME NEW i \in 1 .. N PROVE f[i] = F(f)[i]
    <3>1. f[i - 1] \in V /\ hits[i] \in H
      BY <1>5
    <3>2. step[f[i - 1]][hits[i]] = Taken(f[i - 1], hits[i])
      <4> HIDE DEF Taken, V
      <4> QED
        BY <3>1
    <3>3. i \in 0 .. N /\ i # 0
      OBVIOUS
    <3>4. F(f)[i] = Taken(f[i - 1], hits[i])
      <4> HIDE DEF Taken, V
      <4> QED
        BY <3>3
    <3> QED
      BY <1>5, <3>2, <3>4
  <2> HIDE DEF Taken, V, e
  <2>2. f[0] = F(f)[0]
    BY <1>5
  <2>3. \A i \in 0 .. N : i = 0 \/ i \in 1 .. N
    OBVIOUS
  <2>4. \A i \in 0 .. N : f[i] = F(f)[i]
    BY <2>1, <2>2, <2>3
  <2>5. F(f) = [i \in 0 .. N |-> F(f)[i]] /\ f = [i \in 0 .. N |-> f[i]]
    BY <1>5
  <2> HIDE DEF F
  <2> QED
    BY <2>4, <2>5
<1>7. split = F(split)
  <2> HIDE DEF F
  <2> QED
    BY <1>6
<1> HIDE DEF split
<1>8. split[0] = e /\ N \in Nat
  BY <1>7
<1>9. ASSUME NEW i \in 1 .. N PROVE split[i] = Taken(split[i - 1], hits[i])
  <2>1. i \in 0 .. N /\ i # 0
    BY <1>8
  <2>2. split[i] = F(split)[i]
    BY <1>7
  <2> HIDE DEF Taken
  <2> QED
    BY <2>1, <2>2
<1> QED
  BY <1>1, <1>2, <1>8, <1>9

\* No filing has more hits in a sequence than the sequence is long.
LEMMA InFilingBounded ==
  ASSUME NEW H, NEW hits \in Seq(H), NEW h
  PROVE  InFiling(hits, h) \in Nat /\ InFiling(hits, h) <= Len(hits)
<1> DEFINE S == {i \in DOMAIN hits : DocOf[hits[i].id] = DocOf[h.id]}
<1>1. Len(hits) \in Nat /\ DOMAIN hits = 1 .. Len(hits)
  OBVIOUS
<1>2. IsFiniteSet(1 .. Len(hits)) /\ Cardinality(1 .. Len(hits)) = Len(hits)
  BY <1>1, FS_Interval
<1>3. S \subseteq 1 .. Len(hits)
  BY <1>1
<1> HIDE DEF S
<1>4. IsFiniteSet(S) /\ Cardinality(S) <= Cardinality(1 .. Len(hits))
  BY <1>2, <1>3, FS_Subset
<1>5. Cardinality(S) \in Nat
  BY <1>4, FS_CardinalityType
<1> QED
  BY <1>2, <1>4, <1>5 DEF InFiling, S

\* Preferring filings only moves hits, and within the quota it moves none.
LEMMA PreferenceHits ==
  ASSUME NEW H, NEW hits \in Seq(H), NEW quota \in Nat
  PROVE  /\ DocumentPreference(hits, quota) \in Seq(H)
         /\ Len(hits) <= quota => DocumentPreference(hits, quota) = hits
<1> DEFINE N == Len(hits)
           S == Seq(H)
           V == [preferred : S, deferred : S]
           Same(v, i) == /\ v.deferred = <<>> /\ Len(v.preferred) = i
                         /\ \A k \in 1 .. i : v.preferred[k] = hits[k]
           Taken(v, h) == IF InFiling(v.preferred, h) < quota
                          THEN [v EXCEPT !.preferred = Append(@, h)]
                          ELSE [v EXCEPT !.deferred = Append(@, h)]
<1>1. PICK split :
           /\ split[0] = [preferred |-> <<>>, deferred |-> <<>>]
           /\ \A i \in 1 .. N : split[i] = Taken(split[i - 1], hits[i])
           /\ DocumentPreference(hits, quota) = split[N].preferred \o split[N].deferred
  BY PreferenceUnfolds
<1> DEFINE G == {i \in Nat : i <= N => split[i] \in V /\ (N <= quota => Same(split[i], i))}
<1>2. 0 \in G
  <2>1. split[0] \in V /\ split[0].deferred = <<>> /\ split[0].preferred = <<>>
    BY <1>1
  <2>2. Same(split[0], 0)
    BY <2>1
  <2> QED
    BY <2>1, <2>2
<1>3. ASSUME NEW i \in 0 .. (N - 1), i \in G PROVE i + 1 \in G
  <2>1. i \in Nat /\ i <= N /\ i + 1 \in 1 .. N /\ (i + 1) - 1 = i /\ i + 1 \in Nat /\ N \in Nat
    BY <1>3
  <2> HIDE DEF Same, V, Taken
  <2>2. split[i] \in V /\ hits[i + 1] \in H /\ (N <= quota => Same(split[i], i))
    BY <1>3, <2>1
  <2>3. split[i + 1] = Taken(split[i], hits[i + 1])
    BY <1>1, <2>1
  <2>4. split[i].preferred \in S /\ split[i].deferred \in S
    BY <2>2 DEF V
  <2>5. PICK p \in S : p = Append(split[i].preferred, hits[i + 1])
    BY <2>2, <2>4, AppendProperties
  <2>6. PICK d \in S : d = Append(split[i].deferred, hits[i + 1])
    BY <2>2, <2>4, AppendProperties
  <2>7. Taken(split[i], hits[i + 1]) =
          IF InFiling(split[i].preferred, hits[i + 1]) < quota
          THEN [split[i] EXCEPT !.preferred = p] ELSE [split[i] EXCEPT !.deferred = d]
    BY <2>2, <2>5, <2>6 DEF Taken, V
  <2>8. split[i + 1] \in V
    <3> HIDE DEF S
    <3> QED
      BY <2>2, <2>3, <2>7 DEF V
  <2>9. ASSUME N <= quota PROVE Same(split[i + 1], i + 1)
    <3>1. /\ split[i].deferred = <<>> /\ Len(split[i].preferred) = i
          /\ \A k \in 1 .. i : split[i].preferred[k] = hits[k]
      BY <2>2, <2>9 DEF Same
    <3>2. InFiling(split[i].preferred, hits[i + 1]) < quota
      <4>1. /\ InFiling(split[i].preferred, hits[i + 1]) \in Nat
            /\ InFiling(split[i].preferred, hits[i + 1]) <= i
        BY <2>4, <3>1, InFilingBounded
      <4> QED
        BY <2>1, <2>9, <4>1
    <3>3. split[i + 1] = [split[i] EXCEPT !.preferred = p]
      BY <2>3, <2>7, <3>2
    <3>4. split[i + 1].preferred = p /\ split[i + 1].deferred = <<>>
      BY <2>2, <3>1, <3>3 DEF V
    <3>5. Len(p) = i + 1 /\ p[i + 1] = hits[i + 1] /\ \A k \in 1 .. i : p[k] = split[i].preferred[k]
      BY <2>2, <2>4, <2>5, <3>1, AppendProperties
    <3>6. \A k \in 1 .. (i + 1) : p[k] = hits[k]
      <4>1. p[i + 1] = hits[i + 1] /\ \A k \in 1 .. i : p[k] = hits[k]
        BY <3>1, <3>5
      <4>2. \A k \in 1 .. (i + 1) : k = i + 1 \/ k \in 1 .. i
        BY <2>1
      <4> QED
        BY <4>1, <4>2
    <3> QED
      BY <3>4, <3>5, <3>6 DEF Same
  <2> QED
    BY <2>1, <2>8, <2>9
<1>4. N \in Nat /\ G \in SUBSET Nat /\ N \in 0 .. N
  OBVIOUS
<1> HIDE DEF G, N
<1>5. N \in G
  BY <1>2, <1>3, <1>4, SetInduction
<1>6. split[N] \in V /\ (N <= quota => Same(split[N], N))
  BY <1>4, <1>5 DEF G
<1>7. PICK p \in S, d \in S : p = split[N].preferred /\ d = split[N].deferred
  BY <1>6
<1>8. p \o d \in S
  BY <1>7, ConcatProperties
<1>9. ASSUME N <= quota PROVE p \o d = hits
  <2>1. d = <<>> /\ Len(p) = N /\ \A k \in 1 .. N : p[k] = hits[k]
    BY <1>6, <1>7, <1>9
  <2>2. p \o d = p
    BY <1>7, <2>1, ConcatEmptySeq
  <2>3. p = hits
    <3>1. N = Len(hits)
      BY DEF N
    <3> QED
      BY <1>7, <2>1, <3>1, SeqEqual
  <2> QED
    BY <2>2, <2>3
<1> QED
  BY <1>1, <1>7, <1>8, <1>9 DEF N

\* The evidence are hits of the search; without a reordering they keep their order.
LEMMA EvidenceHits ==
  ASSUME NEW H, NEW hits \in Seq(H), NEW quota \in Nat, NEW r \in [H -> Nat]
  PROVE  /\ Evidence(hits, quota) \in Seq(H)
         /\ Len(hits) <= quota /\ Sorted(r, hits) => Sorted(r, Evidence(hits, quota))
<1>1. PICK t \in Seq(H) : /\ t = TextUnique(hits) /\ Len(t) <= Len(hits)
                          /\ Sorted(r, hits) => Sorted(r, t)
  BY TextUniqueUnfolds, PickedHits
<1>2. PICK p \in Seq(H) : /\ p = DocumentPreference(t, quota)
                          /\ Len(t) <= quota => p = t
  BY PreferenceHits
<1>3. /\ FillSlots(p) \in Seq(H)
      /\ Sorted(r, p) => Sorted(r, FillSlots(p))
  BY FillSlotsUnfolds, PickedHits
<1>4. Evidence(hits, quota) = FillSlots(p)
  BY <1>1, <1>2 DEF Evidence
<1>5. Len(t) \in Nat /\ Len(hits) \in Nat
  OBVIOUS
<1> QED
  BY <1>1, <1>2, <1>3, <1>4, <1>5

\* The rank a reviewer's pins give a hit: its place among them, or after all of them.
Rank(x, h) == IF h.id \in ToSet(x.pinned)
              THEN CHOOSE i \in DOMAIN x.pinned : x.pinned[i] = h.id ELSE K + 1

\* What a reviewer excluded is not in the evidence, and what they pinned leads it.
Honours(hits, x) ==
  /\ Ids(hits) \cap x.excluded = {}
  /\ \A i, j \in DOMAIN hits : i < j => Rank(x, hits[i]) <= Rank(x, hits[j])

\* The parts of a selection.
LEMMA SelectionParts ==
  ASSUME NEW x \in Selection
  PROVE  /\ x.pinned \in Seq(Chunk) /\ x.excluded \subseteq Chunk
         /\ \A i, j \in DOMAIN x.pinned : x.pinned[i] = x.pinned[j] => i = j
         /\ ToSet(x.pinned) \cap x.excluded = {}
<1>1. /\ x.pinned \in SeqOf(Chunk, 2) /\ x.excluded \subseteq Chunk /\ IsInjective(x.pinned)
      /\ ToSet(x.pinned) \cap x.excluded = {}
  BY DEF Selection
<1>2. PICK m \in 0 .. 2 : x.pinned \in [1 .. m -> Chunk]
  BY <1>1 DEF SeqOf
<1>3. x.pinned \in Seq(Chunk)
  BY <1>2
<1> QED
  BY <1>1, <1>3 DEF IsInjective

\* A pinned chunk has its place as rank, any other chunk the same one after them.
LEMMA Ranks ==
  ASSUME NEW x \in Selection, Len(x.pinned) <= K, NEW h
  PROVE  /\ Rank(x, h) \in Nat
         /\ h.id \notin ToSet(x.pinned) => Rank(x, h) = K + 1
         /\ \A i \in DOMAIN x.pinned : x.pinned[i] = h.id => Rank(x, h) = i /\ i <= K
<1>1. /\ x.pinned \in Seq(Chunk)
      /\ \A i, j \in DOMAIN x.pinned : x.pinned[i] = x.pinned[j] => i = j
  BY SelectionParts
<1>2. K \in Nat /\ DOMAIN x.pinned = 1 .. Len(x.pinned) /\ Len(x.pinned) \in Nat
  BY <1>1, EvidenceAssumption
<1>3. h.id \notin ToSet(x.pinned) => Rank(x, h) = K + 1
  BY DEF Rank
<1>4. ASSUME NEW i \in DOMAIN x.pinned, x.pinned[i] = h.id
      PROVE  Rank(x, h) = i /\ i <= K
  <2>1. h.id \in ToSet(x.pinned)
    BY <1>4 DEF ToSet
  <2>2. Rank(x, h) = CHOOSE j \in DOMAIN x.pinned : x.pinned[j] = h.id
    BY <2>1 DEF Rank
  <2>3. Rank(x, h) \in DOMAIN x.pinned /\ x.pinned[Rank(x, h)] = h.id
    BY <1>4, <2>2
  <2> QED
    BY <1>1, <1>2, <1>4, <2>3
<1>5. h.id \in ToSet(x.pinned) => \E i \in DOMAIN x.pinned : x.pinned[i] = h.id
  BY DEF ToSet
<1> QED
  BY <1>2, <1>3, <1>4, <1>5

\* What Selected makes of an accepted selection: at most K of the candidates, none of
\* them excluded, the pinned ones first and in the reviewer's order.
LEMMA SelectedHits ==
  ASSUME NEW H, NEW hits \in Seq(H), NEW x \in Selection, SelectionFits(hits, x)
  PROVE  /\ Selected(hits, x) \in Seq({h \in H : h.id \notin x.excluded})
         /\ Len(Selected(hits, x)) <= K
         /\ Sorted([h \in {h \in H : h.id \notin x.excluded} |-> Rank(x, h)], Selected(hits, x))
<1> DEFINE R == {h \in H : h.id \notin x.excluded}
           Q == {h \in H : h.id \notin x.excluded \cup ToSet(x.pinned)}
           r == [h \in R |-> Rank(x, h)]
           byId(c) == CHOOSE h \in ToSet(hits) : h.id = c
           pinned == [i \in DOMAIN x.pinned |-> byId(x.pinned[i])]
           fill == Without(hits, x.excluded \cup ToSet(x.pinned))
           all == pinned \o fill
           n == IF Len(all) < K THEN Len(all) ELSE K
<1>1. /\ x.pinned \in Seq(Chunk) /\ x.excluded \subseteq Chunk
      /\ ToSet(x.pinned) \cap x.excluded = {}
  BY SelectionParts
<1>2. Len(x.pinned) <= K /\ ToSet(x.pinned) \subseteq Ids(hits)
  BY DEF SelectionFits
<1>3. Selected(hits, x) = SubSeq(all, 1, n)
  BY DEF Selected
<1>4. \A i \in DOMAIN x.pinned : byId(x.pinned[i]) \in R /\ byId(x.pinned[i]).id = x.pinned[i]
  <2> SUFFICES ASSUME NEW i \in DOMAIN x.pinned
               PROVE  byId(x.pinned[i]) \in R /\ byId(x.pinned[i]).id = x.pinned[i]
    OBVIOUS
  <2>1. x.pinned[i] \in ToSet(x.pinned)
    BY DEF ToSet
  <2>2. \E h \in ToSet(hits) : h.id = x.pinned[i]
    BY <1>2, <2>1 DEF Ids, ToSet
  <2>3. byId(x.pinned[i]) \in ToSet(hits) /\ byId(x.pinned[i]).id = x.pinned[i]
    BY <2>2
  <2>4. ToSet(hits) \subseteq H
    BY DEF ToSet
  <2>5. x.pinned[i] \notin x.excluded
    BY <1>1, <2>1
  <2> HIDE DEF byId
  <2> QED
    BY <2>3, <2>4, <2>5
<1>5. fill \in Seq(Q)
  BY WithoutHits
<1>6. PICK m \in Nat : m = Len(x.pinned) /\ DOMAIN x.pinned = 1 .. m
  BY <1>1
<1>7. pinned \in Seq(R) /\ Len(pinned) = m
  <2> HIDE DEF byId, R
  <2>1. pinned \in [1 .. m -> R]
    BY <1>4, <1>6
  <2> QED
    BY <1>6, <2>1
<1>8. \A i \in 1 .. m : pinned[i].id = x.pinned[i]
  BY <1>4, <1>6
<1> HIDE DEF byId, pinned
<1>9. Q \subseteq R /\ \A h \in Q : h.id \notin ToSet(x.pinned)
  OBVIOUS
<1> HIDE DEF Q, R, fill
<1>10. fill \in Seq(R) /\ \A i \in 1 .. Len(fill) : fill[i] \in Q
  BY <1>5, <1>9
<1>11. /\ all \in Seq(R) /\ Len(all) = m + Len(fill)
       /\ \A i \in 1 .. m + Len(fill) : all[i] = IF i <= m THEN pinned[i] ELSE fill[i - m]
  BY <1>7, <1>10, ConcatProperties
<1>12. Len(fill) \in Nat /\ K \in Nat /\ Len(all) \in Nat
  BY <1>10, <1>11, EvidenceAssumption
<1>13. \A i \in 1 .. m + Len(fill) :
         /\ all[i] \in R
         /\ i <= m => Rank(x, all[i]) = i
         /\ i > m => Rank(x, all[i]) = K + 1
  <2> SUFFICES ASSUME NEW i \in 1 .. m + Len(fill)
               PROVE  /\ all[i] \in R
                      /\ i <= m => Rank(x, all[i]) = i
                      /\ i > m => Rank(x, all[i]) = K + 1
    OBVIOUS
  <2> HIDE DEF all
  <2>1. all[i] \in R
    BY <1>11
  <2>2. ASSUME i <= m PROVE Rank(x, all[i]) = i
    <3>1. i \in 1 .. m /\ all[i] = pinned[i]
      BY <1>11, <1>12, <2>2
    <3>2. i \in DOMAIN x.pinned /\ x.pinned[i] = all[i].id
      BY <1>6, <1>8, <3>1
    <3> QED
      BY <1>2, <3>2, Ranks
  <2>3. ASSUME i > m PROVE Rank(x, all[i]) = K + 1
    <3>1. i - m \in 1 .. Len(fill) /\ all[i] = fill[i - m]
      BY <1>11, <1>12, <2>3
    <3>2. all[i].id \notin ToSet(x.pinned)
      BY <1>9, <1>10, <3>1
    <3> QED
      BY <1>2, <3>2, Ranks
  <2> QED
    BY <2>1, <2>2, <2>3
<1> HIDE DEF all
<1>14. n \in 0 .. Len(all) /\ n <= K /\ n \in Nat
  BY <1>12
<1> HIDE DEF n
<1>15. PICK s \in Seq(R) : /\ s = SubSeq(all, 1, n) /\ Len(s) = n
                           /\ \A i \in 1 .. n : s[i] = all[i]
  <2>1. \A i \in 1 .. n : all[i] \in R
    BY <1>11, <1>14
  <2>2. /\ SubSeq(all, 1, n) \in Seq(R) /\ Len(SubSeq(all, 1, n)) = IF 1 <= n THEN n - 1 + 1 ELSE 0
        /\ \A i \in 1 .. n - 1 + 1 : SubSeq(all, 1, n)[i] = all[1 + i - 1]
    BY <1>14, <2>1, SubSeqProperties
  <2>3. n - 1 + 1 = n /\ \A i \in 1 .. n : 1 + i - 1 = i
    BY <1>14
  <2>4. n = 0 \/ 1 <= n
    BY <1>14
  <2>5. Len(SubSeq(all, 1, n)) = n
    BY <1>14, <2>2, <2>3, <2>4
  <2>6. \A i \in 1 .. n : SubSeq(all, 1, n)[i] = all[i]
    BY <2>2, <2>3
  <2> QED
    BY <2>2, <2>5, <2>6
<1>16. DOMAIN s = 1 .. n
  BY <1>15
<1>17. \A i \in 1 .. n : r[s[i]] = Rank(x, all[i])
  BY <1>11, <1>12, <1>13, <1>14, <1>15
<1>18. Sorted(r, s)
  <2> SUFFICES ASSUME NEW i \in 1 .. n, NEW j \in 1 .. n, i < j PROVE r[s[i]] <= r[s[j]]
    BY <1>16 DEF Sorted
  <2>1. i \in 1 .. m + Len(fill) /\ j \in 1 .. m + Len(fill)
    BY <1>11, <1>12, <1>14
  <2>2. Rank(x, all[i]) <= Rank(x, all[j])
    BY <1>2, <1>6, <1>12, <1>13, <2>1
  <2> QED
    BY <1>17, <2>2
<1> QED
  BY <1>3, <1>14, <1>15, <1>18 DEF R

\* Evidence chosen by a reviewer honours what they chose; searched evidence is what was found.
LEMMA SelectedEvidence ==
  ASSUME NEW H, NEW hits \in Seq(H), NEW x \in Selection, SelectionFits(hits, x)
  PROVE  LET e == Evidence(Selected(hits, x), K) IN e \in Seq(H) /\ Honours(e, x)
<1> DEFINE R == {h \in H : h.id \notin x.excluded}
           r == [h \in R |-> Rank(x, h)]
           e == Evidence(Selected(hits, x), K)
<1>1. /\ Selected(hits, x) \in Seq(R) /\ Len(Selected(hits, x)) <= K
      /\ Sorted(r, Selected(hits, x))
  BY SelectedHits
<1>2. r \in [R -> Nat] /\ K \in Nat
  <2>1. \A h \in R : Rank(x, h) \in Nat
    BY Ranks DEF SelectionFits
  <2> QED
    BY <2>1, EvidenceAssumption
<1>3. e \in Seq(R) /\ Sorted(r, e)
  <2> HIDE DEF R, r
  <2> QED
    BY <1>1, <1>2, EvidenceHits
<1> HIDE DEF e
<1>4. \A i \in DOMAIN e : e[i] \in R
  BY <1>3
<1>5. \A i, j \in DOMAIN e : i < j => Rank(x, e[i]) <= Rank(x, e[j])
  <2> SUFFICES ASSUME NEW i \in DOMAIN e, NEW j \in DOMAIN e, i < j
               PROVE  Rank(x, e[i]) <= Rank(x, e[j])
    OBVIOUS
  <2>1. r[e[i]] <= r[e[j]]
    <3> HIDE DEF r
    <3> QED
      BY <1>3 DEF Sorted
  <2> QED
    BY <1>4, <2>1
<1>6. Ids(e) \cap x.excluded = {}
  BY <1>4 DEF Ids
<1>7. e \in Seq(H)
  BY <1>3
<1> QED
  BY <1>5, <1>6, <1>7 DEF Honours, e

-----------------------------------------------------------------------------
(* The invariant. *)

\* The types of a run; what the evidence is made of is left open.
RunOK(r) ==
  r \in [evidence : {r.evidence}, relevant : {r.relevant}, decision : Decisions \cup {None},
         path : Seq(Node), steps : Seq(Step), in : Nat, out : Nat, failure : Failure \cup {None}]

InBudget(in, out) ==
  /\ in <= Least(InputCap, RunInput) /\ out <= Least(OutputCap, RunOutput)
  /\ in + out <= CostCap

\* Only supplied evidence is relevant, and only relevant evidence supports a claim.
Grounded(r) ==
  /\ r.relevant \subseteq Ids(r.evidence)
  /\ \/ r.decision = None \/ r.decision.label = "NOT_IN_DOCS"
     \/ r.decision.cited # {} /\ r.decision.cited \subseteq r.relevant

GoodRun(r) == RunOK(r) /\ Grounded(r) /\ (r.failure = None => InBudget(r.in, r.out))

Types ==
  /\ GoodRun(run) /\ billed \in Nat /\ call \in Calls \cup {None}
  /\ denied \in BOOLEAN /\ req \in Requests \cup {None}

Calling(sites) == at \in {"reserve", "sending"} /\ call.site \in sites

\* Before its evidence a request has no run to speak of.
Early ==
  \/ at \in {"admit", "enter", "path", "route", "search", "guidance", "verify", "load",
             "retrieve", "unwind"}
  \/ Calling({"classify", "translate"})
  \/ at = "idle" /\ req = None
  \/ at = "leave" /\ outcome.type = "candidates"
EarlyInv == Early => run = Fresh /\ billed = 0 /\ record = None /\ ~denied

\* What is there at which stage.
LifeInv ==
  /\ at \notin {"idle", "unwind"} => req # None
  /\ record \in {None, Stored}
  /\ record # None => at \in {"leave", "idle"} /\ req # None
  /\ answer # None => at = "idle" /\ req # None
  /\ denied => /\ at \in {"persist", "leave", "idle"} /\ req # None
               /\ run.failure = "budget_exceeded"

\* A call of a node may still be sent only where it would fit, and nothing was billed
\* before the first request of grade; whatever was billed before check is in the steps.
CallInv ==
  /\ at \in {"reserve", "sending", "fragments"} => call # None
  /\ at = "fragments" => call.site = "check" /\ call.status \in Refusal \cup {"ok"}
  /\ Calling({"grade", "check"}) \/ (at = "fragments" /\ call.status = "ok")
       => InBudget(run.in + call.in, run.out + call.out)
  /\ at = "grade" \/ Calling({"grade"}) => run.decision = None
  /\ at = "grade" \/ (Calling({"grade"}) /\ call.attempt = 1) => billed = 0
  /\ at = "check" \/ Calling({"check"}) => run.steps # <<>>

\* A denial leaves nothing billed, or a record of it.
Kept == billed = 0 \/ (record # None /\ record.status = "budget_exceeded")
DenialInv ==
  /\ at = "leave" /\ outcome.type = "error" /\ outcome.what = "denied" => Kept
  /\ DeniedAnswer => Kept

ReviewInv == Types /\ EarlyInv /\ LifeInv /\ CallInv /\ DenialInv

-----------------------------------------------------------------------------
(* What the actions make of a run. *)

\* Limits are positive, so a fresh run is within them.
LEMMA FreshIsGood == GoodRun(Fresh) /\ Fresh.failure = None
<1>1. RunOK(Fresh)
  BY DEF RunOK, Fresh
<1>2. InBudget(0, 0)
  BY ReviewAssumption DEF InBudget, Least
<1> QED
  BY <1>1, <1>2 DEF GoodRun, Fresh, Grounded, Ids

\* A node that ends a run, adds its usage to it, or commits its result.
LEMMA RunUpdates ==
  ASSUME NEW r, RunOK(r), NEW p \in Node
  PROVE  /\ \A f \in Failure :
              LET q == [r EXCEPT !.failure = f, !.path = Append(@, p)] IN
              /\ RunOK(q) /\ q.failure = f /\ q.evidence = r.evidence
              /\ q.relevant = r.relevant /\ q.decision = r.decision
         /\ \A f \in Failure :
              LET q == [r EXCEPT !.failure = f] IN
              /\ RunOK(q) /\ q.failure = f /\ q.evidence = r.evidence
              /\ q.relevant = r.relevant /\ q.decision = r.decision
         /\ \A d \in Decisions :
              LET q == [r EXCEPT !.decision = d, !.path = Append(@, p)] IN
              /\ RunOK(q) /\ q.failure = r.failure /\ q.evidence = r.evidence
              /\ q.relevant = r.relevant /\ q.decision = d /\ q.in = r.in /\ q.out = r.out
<1> DEFINE D == Decisions \cup {None}
           P == Seq(Node)
           S == Seq(Step)
           F == Failure \cup {None}
           R == [evidence : {r.evidence}, relevant : {r.relevant}, decision : D,
                 path : P, steps : S, in : Nat, out : Nat, failure : F]
<1>1. r \in R
  BY DEF RunOK
<1>2. PICK path \in P : path = Append(r.path, p)
  <2>1. r.path \in Seq(Node)
    BY <1>1
  <2> QED
    BY <2>1, AppendProperties
<1>3. \A f \in Failure : f \in F
  OBVIOUS
<1>4. \A d \in Decisions : d \in D
  OBVIOUS
<1> HIDE DEF D, P, S, F
<1>5. ASSUME NEW f \in F
      PROVE  LET q == [r EXCEPT !.failure = f, !.path = path]
                 k == [r EXCEPT !.failure = f] IN
             /\ q \in R /\ q.failure = f /\ q.evidence = r.evidence
             /\ q.relevant = r.relevant /\ q.decision = r.decision
             /\ k \in R /\ k.failure = f /\ k.evidence = r.evidence
             /\ k.relevant = r.relevant /\ k.decision = r.decision
  BY <1>1
<1>6. ASSUME NEW d \in D
      PROVE  LET q == [r EXCEPT !.decision = d, !.path = path] IN
             /\ q \in R /\ q.failure = r.failure /\ q.evidence = r.evidence
             /\ q.relevant = r.relevant /\ q.decision = d /\ q.in = r.in /\ q.out = r.out
  BY <1>1
<1>7. \A q : q \in R /\ q.evidence = r.evidence /\ q.relevant = r.relevant => RunOK(q)
  BY DEF RunOK, D, P, S, F
<1>8. /\ \A f : [r EXCEPT !.failure = f, !.path = Append(@, p)] = [r EXCEPT !.failure = f, !.path = path]
      /\ \A d : [r EXCEPT !.decision = d, !.path = Append(@, p)] = [r EXCEPT !.decision = d, !.path = path]
  BY <1>1, <1>2
<1> HIDE DEF R
<1>9. ASSUME NEW f \in Failure
      PROVE  LET q == [r EXCEPT !.failure = f, !.path = Append(@, p)]
                 k == [r EXCEPT !.failure = f] IN
             /\ RunOK(q) /\ q.failure = f /\ q.evidence = r.evidence
             /\ q.relevant = r.relevant /\ q.decision = r.decision
             /\ RunOK(k) /\ k.failure = f /\ k.evidence = r.evidence
             /\ k.relevant = r.relevant /\ k.decision = r.decision
  <2>1. PICK q, k : /\ q = [r EXCEPT !.failure = f, !.path = path]
                    /\ k = [r EXCEPT !.failure = f]
    OBVIOUS
  <2>2. /\ q \in R /\ q.failure = f /\ q.evidence = r.evidence
        /\ q.relevant = r.relevant /\ q.decision = r.decision
        /\ k \in R /\ k.failure = f /\ k.evidence = r.evidence
        /\ k.relevant = r.relevant /\ k.decision = r.decision
    BY <1>3, <1>5, <2>1
  <2>3. RunOK(q) /\ RunOK(k)
    BY <1>7, <2>2
  <2> QED
    BY <1>8, <2>1, <2>2, <2>3
<1>10. ASSUME NEW d \in Decisions
       PROVE  LET q == [r EXCEPT !.decision = d, !.path = Append(@, p)] IN
              /\ RunOK(q) /\ q.failure = r.failure /\ q.evidence = r.evidence
              /\ q.relevant = r.relevant /\ q.decision = d /\ q.in = r.in /\ q.out = r.out
  <2>1. PICK q : q = [r EXCEPT !.decision = d, !.path = path]
    OBVIOUS
  <2>2. /\ q \in R /\ q.failure = r.failure /\ q.evidence = r.evidence
        /\ q.relevant = r.relevant /\ q.decision = d /\ q.in = r.in /\ q.out = r.out
    BY <1>4, <1>6, <2>1
  <2>3. RunOK(q)
    BY <1>7, <2>2
  <2> QED
    BY <1>8, <2>1, <2>2, <2>3
<1> QED
  BY <1>9, <1>10

\* The usage and the step of a call.
LEMMA TracedRun ==
  ASSUME RunOK(run), NEW c \in Calls, NEW n \in 0 .. 2
  PROVE  /\ RunOK(Traced(c, n))
         /\ Traced(c, n).in = run.in + c.in /\ Traced(c, n).out = run.out + c.out
         /\ Traced(c, n).steps # <<>> /\ Traced(c, n).failure = run.failure
         /\ Traced(c, n).evidence = run.evidence /\ Traced(c, n).relevant = run.relevant
         /\ Traced(c, n).decision = run.decision
<1> DEFINE D == Decisions \cup {None}
           P == Seq(Node)
           S == Seq(Step)
           F == Failure \cup {None}
           R == [evidence : {run.evidence}, relevant : {run.relevant}, decision : D,
                 path : P, steps : S, in : Nat, out : Nat, failure : F]
<1>1. run \in R
  BY DEF RunOK
<1>2. c.in \in Nat /\ c.out \in Nat /\ c.site \in Site
  BY DEF Calls
<1>3. [node |-> c.site, requests |-> n] \in Step
  BY <1>2 DEF Step
<1>4. PICK steps \in S : steps = Append(run.steps, [node |-> c.site, requests |-> n])
  <2>1. run.steps \in Seq(Step)
    BY <1>1
  <2> QED
    BY <1>3, <2>1, AppendProperties
<1>5. steps # <<>>
  <2>1. run.steps \in Seq(Step)
    BY <1>1
  <2>2. Len(steps) = Len(run.steps) + 1 /\ Len(run.steps) \in Nat
    BY <1>3, <1>4, <2>1, AppendProperties
  <2> QED
    BY <2>2
<1> HIDE DEF D, P, S, F
<1>6. Traced(c, n) = [run EXCEPT !.steps = steps, !.in = run.in + c.in, !.out = run.out + c.out]
  BY <1>1, <1>4 DEF Traced
<1>7. /\ run.in + c.in \in Nat /\ run.out + c.out \in Nat
  BY <1>1, <1>2
<1>8. LET q == Traced(c, n) IN
      /\ q \in R /\ q.in = run.in + c.in /\ q.out = run.out + c.out
      /\ q.steps = steps /\ q.failure = run.failure
      /\ q.evidence = run.evidence /\ q.relevant = run.relevant /\ q.decision = run.decision
  BY <1>1, <1>6, <1>7
<1>9. \A q : q \in R /\ q.evidence = run.evidence /\ q.relevant = run.relevant => RunOK(q)
  BY DEF RunOK, D, P, S, F
<1> HIDE DEF R
<1> QED
  BY <1>5, <1>8, <1>9

-----------------------------------------------------------------------------
(* What a task may do, by where it goes next. *)

\* A step that leaves the request alone keeps the invariant.
LEMMA Stays ==
  ASSUME ReviewInv, UNCHANGED <<req, at, work, outcome, answer>>
  PROVE  ReviewInv'
<1>1. /\ req' = req /\ at' = at /\ outcome' = outcome /\ answer' = answer
      /\ call' = call /\ billed' = billed /\ run' = run /\ denied' = denied /\ record' = record
  BY DEF work
<1>2. Types' /\ EarlyInv' /\ LifeInv'
  BY <1>1 DEF ReviewInv, Types, EarlyInv, LifeInv, Early, Calling, Stored
<1>3. CallInv' /\ DenialInv'
  BY <1>1 DEF ReviewInv, CallInv, DenialInv, Calling, Kept, DeniedAnswer
<1> QED
  BY <1>2, <1>3 DEF ReviewInv

\* So does the end of a request, whoever ends it.
LEMMA Drops ==
  ASSUME NEW next \in {"idle", "unwind"}, NEW connection, Drop(next, connection)
  PROVE  ReviewInv'
<1>1. /\ req' = None /\ at' = next /\ answer' = None /\ call' = None /\ billed' = 0
      /\ run' = Fresh /\ denied' = FALSE /\ record' = None
  BY DEF Drop
<1>2. Types'
  BY <1>1, FreshIsGood DEF Types
<1>3. EarlyInv' /\ LifeInv' /\ CallInv' /\ DenialInv'
  BY <1>1 DEF EarlyInv, LifeInv, CallInv, DenialInv, DeniedAnswer, Calling
<1> QED
  BY <1>2, <1>3 DEF ReviewInv

\* Before its evidence a request goes on with a fresh run.
LEMMA StaysEarly ==
  ASSUME ReviewInv, Early, Early', UNCHANGED <<billed, run, denied, record, answer>>,
         req' \in Requests \cup {None}, call' \in Calls \cup {None},
         at' \notin {"idle", "unwind"}, req' # None,
         at' \in {"reserve", "sending"} => call' # None
  PROVE  ReviewInv'
<1>1. run = Fresh /\ billed = 0 /\ record = None /\ ~denied
  BY DEF ReviewInv, EarlyInv
<1>2. Types'
  BY DEF ReviewInv, Types
<1>3. EarlyInv'
  BY <1>1 DEF EarlyInv
<1>4. answer = None
  BY DEF ReviewInv, LifeInv, Early, Calling
<1>5. LifeInv'
  BY <1>1, <1>4 DEF LifeInv
<1>6. CallInv'
  BY DEF CallInv, Early, Calling
<1>7. DenialInv'
  BY <1>1, <1>4 DEF DenialInv, DeniedAnswer, Kept
<1> QED
  BY <1>2, <1>3, <1>5, <1>6, <1>7 DEF ReviewInv

\* A request ends before a run is stored: with candidates before its evidence, with a
\* denial only if no request of a node was billed.
LEMMA Ends ==
  ASSUME ReviewInv, at \notin {"idle", "leave", "unwind", "persist"},
         NEW type, NEW what, End(type, what),
         UNCHANGED <<req, billed, run, denied, record, answer>>, call' \in Calls \cup {None},
         type = "candidates" => Early,
         type = "error" /\ what = "denied" => billed = 0
  PROVE  ReviewInv'
<1>1. at' = "leave" /\ outcome'.type = type /\ outcome'.what = what
  BY DEF End
<1>2. Types'
  BY DEF ReviewInv, Types
<1>3. EarlyInv'
  BY <1>1 DEF ReviewInv, EarlyInv, Early, Calling
<1>4. req # None /\ record = None /\ answer = None /\ ~denied
  BY DEF ReviewInv, LifeInv
<1>5. LifeInv'
  BY <1>1, <1>4 DEF LifeInv
<1>6. CallInv'
  BY <1>1 DEF CallInv, Calling
<1>7. DenialInv'
  BY <1>1, <1>4 DEF DenialInv, DeniedAnswer, Kept
<1> QED
  BY <1>2, <1>3, <1>5, <1>6, <1>7 DEF ReviewInv

\* A request with evidence goes on from node to node, and a denied one to be stored.
LEMMA Proceeds ==
  ASSUME ReviewInv, at \notin {"idle", "leave", "unwind"},
         at' \in {"grade", "check", "reserve", "sending", "fragments", "report", "persist"},
         at' \in {"reserve", "sending"} => call'.site \in {"grade", "check"},
         UNCHANGED <<req, record, answer>>, GoodRun(run)', billed' \in Nat,
         call' \in Calls \cup {None}, CallInv', denied' \in BOOLEAN,
         denied' => at' = "persist" /\ run'.failure = "budget_exceeded"
  PROVE  ReviewInv'
<1>1. Types'
  BY DEF ReviewInv, Types
<1>2. ~Early'
  BY DEF Early, Calling
<1>3. EarlyInv'
  BY <1>2 DEF EarlyInv
<1>4. req # None /\ record = None /\ answer = None
  BY DEF ReviewInv, LifeInv
<1>5. LifeInv'
  BY <1>4 DEF LifeInv
<1>6. DenialInv'
  BY <1>4 DEF DenialInv, DeniedAnswer
<1> QED
  BY <1>1, <1>3, <1>5, <1>6 DEF ReviewInv

-----------------------------------------------------------------------------
(* One lemma per action. *)

LEMMA InitHolds == Init => ReviewInv
<1> SUFFICES ASSUME Init PROVE ReviewInv
  OBVIOUS
<1>1. Types
  BY FreshIsGood DEF Init, Types
<1>2. EarlyInv /\ LifeInv /\ CallInv /\ DenialInv
  BY DEF Init, EarlyInv, LifeInv, CallInv, DenialInv, DeniedAnswer, Calling
<1> QED
  BY <1>1, <1>2 DEF ReviewInv

LEMMA SubmitKeeps ==
  ASSUME ReviewInv, NEW k \in Kind, NEW x \in Selection \cup {None}, Submit(k, x)
  PROVE  ReviewInv'
<1>1. req' = [kind |-> k, selection |-> x] /\ req' \in Requests
  BY DEF Submit, Requests
<1>2. req' # None
  BY <1>1, ReviewAssumption
<1>3. Early
  BY DEF Submit, Early
<1>4. at' = "admit" /\ Early' /\ UNCHANGED <<billed, run, denied, record, answer, call>>
  BY DEF Submit, Early, work
<1>5. call' \in Calls \cup {None}
  BY <1>4 DEF ReviewInv, Types
<1> QED
  BY <1>1, <1>2, <1>3, <1>4, <1>5, StaysEarly

\* An early request that goes on, or ends without candidates and a denial.
LEMMA AdmitKeeps == ReviewInv /\ Admit => ReviewInv'
<1> SUFFICES ASSUME ReviewInv, Admit PROVE ReviewInv'
  OBVIOUS
<1>1. /\ at = "admit" /\ Early /\ req # None
      /\ UNCHANGED <<req, billed, run, denied, record, answer, call>>
      /\ req \in Requests \cup {None} /\ call \in Calls \cup {None}
  BY DEF ReviewInv, Types, LifeInv, Admit, Early, work
<1>2. CASE at' = "enter"
  <2>1. Early'
    BY <1>2 DEF Early
  <2> QED
    BY <1>1, <1>2, <2>1, StaysEarly
<1>3. ASSUME NEW problem \in {"rate_limited", "allowance_unavailable", "capability_disabled"},
             End("error", problem)
      PROVE  ReviewInv'
  BY <1>1, <1>3, Ends
<1> QED
  BY <1>2, <1>3 DEF Admit, Continue

LEMMA EnterKeeps == ReviewInv /\ Enter => ReviewInv'
<1> SUFFICES ASSUME ReviewInv, Enter PROVE ReviewInv'
  OBVIOUS
<1>1. /\ at = "enter" /\ Early /\ req # None
      /\ UNCHANGED <<req, billed, run, denied, record, answer, call>>
      /\ req \in Requests \cup {None} /\ call \in Calls \cup {None}
  BY DEF ReviewInv, Types, LifeInv, Enter, Early, work, request
<1>2. CASE at' = "path"
  <2>1. Early'
    BY <1>2 DEF Early
  <2> QED
    BY <1>1, <1>2, <2>1, StaysEarly
<1>3. CASE End("error", "corpus_updating")
  BY <1>1, <1>3, Ends
<1> QED
  BY <1>2, <1>3 DEF Enter, Continue

\* What every early action starts from.
LEMMA EarlyFacts ==
  ASSUME ReviewInv, at \in {"path", "route", "search", "guidance", "verify", "load", "retrieve"}
  PROVE  /\ Early /\ req # None /\ req \in Requests \cup {None} /\ call \in Calls \cup {None}
         /\ run = Fresh /\ billed = 0 /\ record = None /\ ~denied
BY DEF ReviewInv, Types, LifeInv, EarlyInv, Early

\* The record of a call before its first attempt.
LEMMA FirstAttempt ==
  ASSUME NEW site \in Site, BeginCall(site)
  PROVE  /\ call' \in Calls /\ call' # None /\ call'.site = site /\ call'.attempt = 1
         /\ call'.in = 0 /\ call'.out = 0
<1>1. call' \in Calls
  BY DEF BeginCall, Calls
<1> QED
  BY <1>1, ReviewAssumption DEF BeginCall

LEMMA DecidePathKeeps == ReviewInv /\ DecidePath => ReviewInv'
<1> SUFFICES ASSUME ReviewInv, DecidePath PROVE ReviewInv'
  OBVIOUS
<1>1. /\ at = "path"
      /\ UNCHANGED <<req, billed, run, denied, record, answer>>
  BY DEF DecidePath, request
<1>2. Early /\ req # None /\ req \in Requests \cup {None} /\ call \in Calls \cup {None}
  BY <1>1, EarlyFacts
<1>3. CASE at' \in {"guidance", "route"} /\ call' = call
  <2>1. Early'
    BY <1>3 DEF Early
  <2> QED
    BY <1>1, <1>2, <1>3, <2>1, StaysEarly
<1>4. CASE End("error", "unsupported_request") /\ call' = call
  BY <1>1, <1>2, <1>4, Ends
<1>5. CASE BeginCall("classify") /\ at' = "reserve"
  <2>1. call' \in Calls /\ call' # None /\ call'.site = "classify"
    BY <1>5, FirstAttempt DEF Site
  <2>2. Early'
    BY <1>5, <2>1 DEF Early, Calling
  <2> QED
    BY <1>1, <1>2, <1>5, <2>1, <2>2, StaysEarly
<1> QED
  BY <1>3, <1>4, <1>5 DEF DecidePath, Classified, Continue

LEMMA RouteKeeps == ReviewInv /\ Route => ReviewInv'
<1> SUFFICES ASSUME ReviewInv, Route PROVE ReviewInv'
  OBVIOUS
<1>1. /\ at = "route"
      /\ UNCHANGED <<req, billed, run, denied, record, answer>>
  BY DEF Route, request
<1>2. Early /\ req # None /\ req \in Requests \cup {None} /\ call \in Calls \cup {None}
  BY <1>1, EarlyFacts
<1>3. CASE at' \in {"verify", "search", "retrieve"} /\ call' = call
  <2>1. Early'
    BY <1>3 DEF Early
  <2> QED
    BY <1>1, <1>2, <1>3, <2>1, StaysEarly
<1>4. CASE End("error", "provider_unavailable") /\ call' = call
  BY <1>1, <1>2, <1>4, Ends
<1>5. CASE BeginCall("translate") /\ at' = "reserve"
  <2>1. call' \in Calls /\ call' # None /\ call'.site = "translate"
    BY <1>5, FirstAttempt DEF Site
  <2>2. Early'
    BY <1>5, <2>1 DEF Early, Calling
  <2> QED
    BY <1>1, <1>2, <1>5, <2>1, <2>2, StaysEarly
<1> QED
  BY <1>3, <1>4, <1>5 DEF Route, Continue

\* A search ends its call: with candidates, or with a denial that nothing was billed for.
LEMMA SearchCandidatesKeeps == ReviewInv /\ SearchCandidates => ReviewInv'
<1> SUFFICES ASSUME ReviewInv, SearchCandidates PROVE ReviewInv'
  OBVIOUS
<1>1. /\ at = "search" /\ UNCHANGED <<req, billed, run, denied, record, answer, call>>
  BY DEF SearchCandidates, request, work
<1>2. Early /\ billed = 0 /\ call \in Calls \cup {None}
  BY <1>1, EarlyFacts
<1>3. PICK type, what : End(type, what)
  BY DEF SearchCandidates
<1> QED
  BY <1>1, <1>2, <1>3, Ends

LEMMA GuideKeeps == ReviewInv /\ Guide => ReviewInv'
<1> SUFFICES ASSUME ReviewInv, Guide PROVE ReviewInv'
  OBVIOUS
<1>1. /\ at = "guidance" /\ UNCHANGED <<req, billed, denied, record, answer, call>>
  BY DEF Guide, request
<1>2. /\ Early /\ billed = 0 /\ call \in Calls \cup {None} /\ run = Fresh /\ record = None
      /\ ~denied
  BY <1>1, EarlyFacts
<1>3. CASE End("candidates", None) /\ run' = run
  BY <1>1, <1>2, <1>3, Ends
<1>4. CASE run' = [run EXCEPT !.path = <<"gate">>] /\ at' = "persist"
  <2>1. RunOK([Fresh EXCEPT !.path = <<"gate">>])
    <3> DEFINE P == Seq(Node)
               S == Seq(Step)
               q == [Fresh EXCEPT !.path = <<"gate">>]
    <3>1. \A n \in Node : <<n>> \in Seq(Node)
      OBVIOUS
    <3>2. "gate" \in Node
      BY DEF Node
    <3>3. <<"gate">> \in P
      BY <3>1, <3>2
    <3>4. Fresh.steps \in S
      BY FreshIsGood DEF GoodRun, RunOK
    <3> HIDE DEF P, S
    <3>5. q \in [evidence : {Fresh.evidence}, relevant : {Fresh.relevant},
                 decision : Decisions \cup {None}, path : P, steps : S, in : Nat, out : Nat,
                 failure : Failure \cup {None}]
      BY <3>3, <3>4 DEF Fresh
    <3>6. q.evidence = Fresh.evidence /\ q.relevant = Fresh.relevant
      BY DEF Fresh
    <3> HIDE DEF q
    <3>7. RunOK(q)
      BY <3>5, <3>6 DEF RunOK, P, S
    <3> QED
      BY <3>7 DEF q
  <2>2. GoodRun([Fresh EXCEPT !.path = <<"gate">>])
    BY <2>1, FreshIsGood DEF GoodRun, Grounded, Fresh
  <2>3. GoodRun(run)'
    BY <1>2, <1>4, <2>2
  <2>4. CallInv'
    BY <1>4 DEF CallInv, Calling
  <2> QED
    BY <1>1, <1>2, <1>4, <2>3, <2>4, Proceeds DEF ReviewInv, Types
<1> QED
  BY <1>3, <1>4 DEF Guide, Continue

LEMMA VerifyKeeps == ReviewInv /\ (Verify \/ LoadSelected) => ReviewInv'
<1> SUFFICES ASSUME ReviewInv, Verify \/ LoadSelected PROVE ReviewInv'
  OBVIOUS
<1>1. /\ at \in {"verify", "load"}
      /\ UNCHANGED <<req, billed, run, denied, record, answer, call>>
  BY DEF Verify, LoadSelected, request, work
<1>2. Early /\ req # None /\ req \in Requests \cup {None} /\ call \in Calls \cup {None}
  BY <1>1, EarlyFacts
<1>3. CASE at' \in {"load", "retrieve"}
  <2>1. Early'
    BY <1>3 DEF Early
  <2> QED
    BY <1>1, <1>2, <1>3, <2>1, StaysEarly
<1>4. ASSUME NEW what \in {"candidate_snapshot_expired", "candidate_snapshot_mismatch",
                           "candidate_snapshot_stale", "invalid_evidence_selection"},
             End("error", what)
      PROVE  ReviewInv'
  BY <1>1, <1>2, <1>4, Ends
<1> QED
  BY <1>3, <1>4 DEF Verify, LoadSelected, Continue

\* A node may refuse to start: its run is stored as it stands.
LEMMA BlockedKeeps ==
  ASSUME ReviewInv, at \in {"retrieve", "grade", "check"}, Blocked,
         UNCHANGED <<req, billed, denied, record, answer, call>>
  PROVE  ReviewInv'
<1>1. at' = "persist" /\ run' = [run EXCEPT !.failure = "budget_exceeded"]
  BY DEF Blocked, Continue
<1>2. GoodRun(run) /\ RunOK(run)
  BY DEF ReviewInv, Types, GoodRun
<1>3. /\ RunOK(run') /\ run'.failure = "budget_exceeded" /\ run'.evidence = run.evidence
      /\ run'.relevant = run.relevant /\ run'.decision = run.decision
  <2>1. "budget_exceeded" \in Failure /\ "grade" \in Node
    BY DEF Failure, Refusal, Node
  <2>2. LET q == [run EXCEPT !.failure = "budget_exceeded"] IN
        /\ RunOK(q) /\ q.failure = "budget_exceeded" /\ q.evidence = run.evidence
        /\ q.relevant = run.relevant /\ q.decision = run.decision
    BY <1>2, <2>1, RunUpdates
  <2> QED
    BY <1>1, <2>2
<1>4. GoodRun(run')
  BY <1>2, <1>3, ReviewAssumption DEF GoodRun, Grounded, Failure, Refusal
<1>5. CallInv'
  BY <1>1 DEF CallInv, Calling
<1> QED
  BY <1>1, <1>3, <1>4, <1>5, Proceeds DEF ReviewInv, Types

\* A node that fails: its run is stored as it stands, with what its call used.
LEMMA NodeFailsKeeps ==
  ASSUME ReviewInv, at \notin {"idle", "leave", "unwind", "persist"},
         NEW node \in Node, NEW status \in Failure, NEW traced, RunOK(traced),
         traced.evidence = run.evidence, traced.relevant = run.relevant,
         traced.decision = run.decision, NodeFails(node, status, traced),
         UNCHANGED <<req, record, answer>>, billed' \in Nat, call' \in Calls \cup {None},
         denied' \in BOOLEAN, denied' => status = "budget_exceeded"
  PROVE  ReviewInv'
<1>1. at' = "persist" /\ run' = [traced EXCEPT !.failure = status, !.path = Append(@, node)]
  BY DEF NodeFails, Continue
<1>2. GoodRun(run)
  BY DEF ReviewInv, Types
<1>3. /\ RunOK(run') /\ run'.failure = status /\ run'.evidence = run.evidence
      /\ run'.relevant = run.relevant /\ run'.decision = run.decision
  <2> DEFINE q == [traced EXCEPT !.failure = status, !.path = Append(@, node)]
  <2>1. /\ RunOK(q) /\ q.failure = status /\ q.evidence = traced.evidence
        /\ q.relevant = traced.relevant /\ q.decision = traced.decision
    <3>1. \A f \in Failure :
              LET k == [traced EXCEPT !.failure = f, !.path = Append(@, node)] IN
              /\ RunOK(k) /\ k.failure = f /\ k.evidence = traced.evidence
              /\ k.relevant = traced.relevant /\ k.decision = traced.decision
      BY RunUpdates
    <3> QED
      BY <3>1
  <2>2. run' = q
    BY <1>1
  <2> HIDE DEF q
  <2> QED
    BY <2>1, <2>2
<1>4. GoodRun(run')
  BY <1>2, <1>3, ReviewAssumption DEF GoodRun, Grounded
<1>5. CallInv'
  BY <1>1 DEF CallInv, Calling
<1> QED
  BY <1>1, <1>3, <1>4, <1>5, Proceeds

\* The evidence is new, and nothing is said of it yet.
LEMMA RetrievedRun ==
  ASSUME NEW e
  PROVE  LET q == [Fresh EXCEPT !.evidence = e, !.path = Append(@, "retrieve")] IN
         GoodRun(q) /\ q.decision = None
<1> DEFINE P == Seq(Node)
           S == Seq(Step)
           q == [Fresh EXCEPT !.evidence = e, !.path = Append(@, "retrieve")]
<1>1. Append(Fresh.path, "retrieve") \in P
  <2>1. "retrieve" \in Node
    BY DEF Node
  <2>2. Fresh.path \in Seq(Node)
    BY FreshIsGood DEF GoodRun, RunOK
  <2> QED
    BY <2>1, <2>2, AppendProperties
<1>2. Fresh.steps \in S
  BY FreshIsGood DEF GoodRun, RunOK
<1> HIDE DEF P, S
<1>3. q \in [evidence : {e}, relevant : {{}}, decision : Decisions \cup {None}, path : P,
             steps : S, in : Nat, out : Nat, failure : Failure \cup {None}]
  <2>1. PICK path \in P : path = Append(Fresh.path, "retrieve")
    BY <1>1
  <2>2. q = [Fresh EXCEPT !.evidence = e, !.path = path]
    BY <2>1 DEF Fresh
  <2> QED
    BY <1>2, <2>2 DEF Fresh
<1>4. /\ q.evidence = e /\ q.relevant = {} /\ q.decision = None /\ q.failure = None
      /\ q.in = Fresh.in /\ q.out = Fresh.out
  BY DEF Fresh
<1> HIDE DEF q
<1>5. RunOK(q)
  BY <1>3, <1>4 DEF RunOK, P, S
<1>6. InBudget(q.in, q.out)
  BY <1>4, FreshIsGood DEF GoodRun
<1>7. GoodRun(q)
  BY <1>4, <1>5, <1>6 DEF GoodRun, Grounded
<1> QED
  BY <1>4, <1>7 DEF q

LEMMA RetrieveNodeKeeps == ReviewInv /\ RetrieveNode => ReviewInv'
<1> SUFFICES ASSUME ReviewInv, RetrieveNode PROVE ReviewInv'
  OBVIOUS
<1>1. /\ at = "retrieve" /\ UNCHANGED <<req, billed, denied, record, answer, call>>
  BY DEF RetrieveNode, request
<1>2. /\ Early /\ billed = 0 /\ call \in Calls \cup {None} /\ run = Fresh /\ ~denied
      /\ billed \in Nat
  BY <1>1, EarlyFacts
<1>3. CASE Blocked
  BY <1>1, <1>3, BlockedKeeps
<1>4. CASE End("error", "denied") /\ run' = run
  BY <1>1, <1>2, <1>4, Ends
<1>5. CASE NodeFails("retrieve", "node_error", run)
  <2>1. "retrieve" \in Node /\ "node_error" \in Failure
    BY DEF Node, Failure
  <2>2. RunOK(run)
    BY DEF ReviewInv, Types, GoodRun
  <2> QED
    BY <1>1, <1>2, <1>5, <2>1, <2>2, NodeFailsKeeps DEF ReviewInv, Types
<1>6. ASSUME NEW e, run' = [run EXCEPT !.evidence = e, !.path = Append(@, "retrieve")],
             at' \in {"report", "grade"}
      PROVE  ReviewInv'
  <2>1. GoodRun(run') /\ run'.decision = None
    BY <1>2, <1>6, RetrievedRun
  <2>2. CallInv'
    BY <1>1, <1>2, <1>6, <2>1 DEF CallInv, Calling
  <2> QED
    BY <1>1, <1>2, <1>6, <2>1, <2>2, Proceeds DEF ReviewInv, Types
<1> QED
  BY <1>3, <1>4, <1>5, <1>6 DEF RetrieveNode, Continue

\* A node that may start has something left of every limit.
LEMMA ModelNodeKeeps ==
  ASSUME NEW node \in {"grade", "check"}, ReviewInv, ModelNode(node)
  PROVE  ReviewInv'
<1>1. /\ at = node /\ UNCHANGED <<req, billed, denied, record, answer>>
  BY DEF ModelNode, request
<1>2. /\ GoodRun(run) /\ RunOK(run) /\ billed \in Nat /\ call \in Calls \cup {None}
      /\ ~denied
  BY <1>1 DEF ReviewInv, Types, GoodRun, LifeInv
<1>3. CASE Blocked /\ call' = call
  BY <1>1, <1>3, BlockedKeeps
<1>4. CASE NodeFails(node, "budget_exceeded", run) /\ call' = call
  <2>1. node \in Node /\ "budget_exceeded" \in Failure
    BY DEF Node, Failure, Refusal
  <2> QED
    BY <1>1, <1>2, <1>4, <2>1, NodeFailsKeeps DEF ReviewInv, Types
<1>5. CASE ~NothingLeft /\ BeginCall(node) /\ at' = "reserve" /\ run' = run
  <2>1. /\ call' \in Calls /\ call' # None /\ call'.site = node /\ call'.attempt = 1
        /\ call'.in = 0 /\ call'.out = 0
    BY <1>5, FirstAttempt DEF Site
  <2>2. run.in \in Nat /\ run.out \in Nat
    BY <1>2 DEF RunOK
  <2>3. {InputCap, OutputCap, CostCap, RunInput, RunOutput} \subseteq Nat
    BY ReviewAssumption
  <2>4. InBudget(run.in + call'.in, run.out + call'.out)
    BY <1>5, <2>1, <2>2, <2>3 DEF NothingLeft, InBudget, Least
  <2>5. at = "grade" => run.decision = None /\ billed = 0
    BY DEF ReviewInv, CallInv
  <2>6. at = "check" => run.steps # <<>>
    BY DEF ReviewInv, CallInv
  <2>7. CallInv'
    BY <1>1, <1>5, <2>1, <2>4, <2>5, <2>6 DEF CallInv, Calling
  <2> QED
    BY <1>1, <1>2, <1>5, <2>1, <2>7, Proceeds DEF ReviewInv, Types
<1> QED
  BY <1>3, <1>4, <1>5 DEF ModelNode, Continue

\* A call without a usable output ends its request, its node, or awaits the fragments.
LEMMA CallFailsKeeps ==
  ASSUME ReviewInv, at \in {"reserve", "sending"}, NEW c \in Calls, c.site = call.site,
         NEW n \in 0 .. 2, NEW status \in Refusal, CallFails(c, n, status),
         UNCHANGED <<req, record, answer, denied>>, billed' \in Nat,
         c.site \in {"classify", "translate"} => billed' = billed
  PROVE  ReviewInv'
<1>1. /\ GoodRun(run) /\ RunOK(run) /\ billed \in Nat /\ ~denied /\ c.site \in Site
  BY DEF ReviewInv, Types, GoodRun, LifeInv, Calls
<1>2. CASE c.site = "check" /\ AwaitFragments(c, n, status) /\ run' = run
  <2>1. /\ at' = "fragments" /\ call' = [c EXCEPT !.requests = n, !.status = status]
    BY <1>2 DEF AwaitFragments, Continue
  <2>2. call' \in Calls
    <3>1. status \in {None, "ok"} \cup Refusal
      OBVIOUS
    <3> QED
      BY <2>1, <3>1 DEF Calls
  <2>3. call'.site = "check" /\ call'.status = status /\ call' # None
    BY <1>2, <2>1, <2>2, ReviewAssumption DEF Calls
  <2>4. CallInv'
    BY <2>1, <2>3 DEF CallInv, Calling, Refusal
  <2> QED
    BY <1>1, <1>2, <2>1, <2>2, <2>4, Proceeds DEF ReviewInv, Types
<1>3. CASE c.site = "grade" /\ NodeFails("grade", status, Traced(c, n)) /\ call' = None
  <2>1. "grade" \in Node /\ status \in Failure
    BY DEF Node, Failure
  <2>2. /\ RunOK(Traced(c, n)) /\ Traced(c, n).evidence = run.evidence
        /\ Traced(c, n).relevant = run.relevant /\ Traced(c, n).decision = run.decision
    BY <1>1, TracedRun
  <2> QED
    BY <1>1, <1>3, <2>1, <2>2, NodeFailsKeeps DEF ReviewInv, Types
<1>4. CASE c.site \in {"classify", "translate"} /\ call' = None /\ run' = run
           /\ End("error", IF c.site = "classify" THEN "provider_unavailable"
                           ELSE "query_routing_failed")
  BY <1>4, Ends
<1> QED
  BY <1>2, <1>3, <1>4 DEF CallFails

\* The call under way, and what is known of the task that makes it.
LEMMA CallFacts ==
  ASSUME ReviewInv, at \in {"reserve", "sending", "fragments"}
  PROVE  /\ call \in Calls /\ call.site \in Site /\ call.attempt \in 1 .. 2
         /\ call.in \in Nat /\ call.out \in Nat
         /\ GoodRun(run) /\ RunOK(run) /\ run.in \in Nat /\ run.out \in Nat
         /\ billed \in Nat /\ req # None /\ req \in Requests \cup {None}
         /\ denied \in BOOLEAN /\ ~denied
<1>1. call \in Calls
  BY DEF ReviewInv, CallInv, Types
<1>2. RunOK(run)
  BY DEF ReviewInv, Types, GoodRun
<1>3. run.in \in Nat /\ run.out \in Nat
  BY <1>2 DEF RunOK
<1>4. ~denied
  BY DEF ReviewInv, LifeInv
<1>5. denied \in BOOLEAN
  BY DEF ReviewInv, Types
<1> QED
  BY <1>1, <1>2, <1>3, <1>4, <1>5 DEF ReviewInv, Types, LifeInv, Calls

\* A denial: nothing is billed yet, or the run is about to be stored.
LEMMA CallDeniedKeeps ==
  ASSUME ReviewInv, at = "reserve", CallDenied, call' = None,
         UNCHANGED <<req, record, answer, billed>>
  PROVE  ReviewInv'
<1>1. /\ call \in Calls /\ call.site \in Site /\ RunOK(run) /\ billed \in Nat
  BY CallFacts
<1>2. /\ "budget_exceeded" \in Failure
      /\ call.site \in {"grade", "check"} => call.site \in Node
  BY DEF Failure, Refusal, Node
<1>3. CASE /\ call.site \in {"grade", "check"} /\ denied' = TRUE
           /\ NodeFails(call.site, "budget_exceeded", Traced(call, 1))
  <2>1. /\ RunOK(Traced(call, 1)) /\ Traced(call, 1).evidence = run.evidence
        /\ Traced(call, 1).relevant = run.relevant /\ Traced(call, 1).decision = run.decision
    BY <1>1, TracedRun
  <2> QED
    BY <1>1, <1>2, <1>3, <2>1, NodeFailsKeeps
<1>4. CASE /\ call.site \in {"grade", "check"} /\ denied' = TRUE
           /\ NodeFails(call.site, "budget_exceeded", run)
  BY <1>1, <1>2, <1>4, NodeFailsKeeps
<1>5. CASE /\ call.site \notin {"grade", "check"} \/ (call.attempt = 1 /\ run.steps = <<>>)
           /\ End("error", "denied") /\ UNCHANGED <<run, denied>>
  <2>1. billed = 0
    BY <1>1, <1>5 DEF ReviewInv, EarlyInv, Early, CallInv, Calling, Site
  <2> QED
    BY <1>5, <2>1, Ends
<1> QED
  BY <1>3, <1>4, <1>5 DEF CallDenied

LEMMA ReserveKeeps == ReviewInv /\ Reserve => ReviewInv'
<1> SUFFICES ASSUME ReviewInv, Reserve PROVE ReviewInv'
  OBVIOUS
<1>1. at = "reserve" /\ UNCHANGED <<req, record, answer, billed>>
  BY DEF Reserve, request
<1>2. /\ call \in Calls /\ call.attempt \in 1 .. 2 /\ call.site \in Site /\ billed \in Nat
      /\ GoodRun(run) /\ req # None /\ req \in Requests \cup {None}
      /\ denied \in BOOLEAN /\ ~denied
  BY <1>1, CallFacts
<1>3. ASSUME NEW status \in {"budget_exceeded", "error"},
             CallFails(call, call.attempt - 1, status), UNCHANGED denied
      PROVE  ReviewInv'
  <2>1. status \in Refusal /\ call.attempt - 1 \in 0 .. 2
    BY <1>2 DEF Refusal
  <2> QED
    BY <1>1, <1>2, <1>3, <2>1, CallFailsKeeps
<1>4. CASE at' = "sending" /\ UNCHANGED <<call, run, denied>>
  <2>1. CASE call.site \in {"classify", "translate"}
    <3>1. Early /\ Early'
      BY <1>1, <1>4, <2>1 DEF Early, Calling
    <3>2. call' # None
      BY <1>1, <1>4 DEF ReviewInv, CallInv
    <3> QED
      BY <1>1, <1>2, <1>4, <3>1, <3>2, StaysEarly
  <2>2. CASE call.site \in {"grade", "check"}
    <3>1. CallInv'
      BY <1>1, <1>4, <2>2 DEF ReviewInv, CallInv, Calling
    <3> QED
      BY <1>1, <1>2, <1>4, <2>2, <3>1, Proceeds
  <2> QED
    BY <1>2, <2>1, <2>2 DEF Site
<1>5. CASE CallDenied /\ call' = None
  BY <1>1, <1>5, CallDeniedKeeps
<1> QED
  BY <1>3, <1>4, <1>5 DEF Reserve, Continue

\* An answer within what remained leaves its run within its limits.
LEMMA AnswerFits ==
  ASSUME ReviewInv, at = "sending", call.site \in {"grade", "check"},
         NEW in \in 1 .. MaxPrompt, NEW out \in 0 .. Remaining.out,
         ~(in > Remaining.in \/ in + out > Remaining.cost)
  PROVE  InBudget(run.in + (call.in + in), run.out + (call.out + out))
<1>1. /\ run.in \in Nat /\ run.out \in Nat /\ call.in \in Nat /\ call.out \in Nat
  BY CallFacts
<1>2. {InputCap, OutputCap, CostCap, RunInput, RunOutput} \subseteq Nat
  BY ReviewAssumption
<1>3. /\ Remaining.in = Least(InputCap, RunInput) - run.in - call.in
      /\ Remaining.out = Least(OutputCap, RunOutput) - run.out - call.out
      /\ Remaining.cost = CostCap - run.in - run.out - call.in - call.out
  BY DEF Remaining
<1>4. Least(InputCap, RunInput) \in Nat /\ Least(OutputCap, RunOutput) \in Nat
  BY <1>2 DEF Least
<1> HIDE DEF Remaining
<1>5. in \in Int /\ out \in Int /\ out <= Remaining.out
  BY <1>1, <1>3, <1>4, ReviewAssumption
<1> QED
  BY <1>1, <1>2, <1>3, <1>4, <1>5 DEF InBudget

\* grade's result: a part of the evidence, and what its call used.
LEMMA GradedRun ==
  ASSUME ReviewInv, NEW c \in Calls, run.decision = None,
         NEW relevant \in SUBSET Ids(run.evidence),
         InBudget(run.in + c.in, run.out + c.out)
  PROVE  LET q == [Traced(c, c.attempt) EXCEPT !.path = Append(@, "grade"), !.relevant = relevant]
         IN  GoodRun(q) /\ q.steps # <<>> /\ q.relevant = relevant
<1> DEFINE t == Traced(c, c.attempt)
           P == Seq(Node)
           S == Seq(Step)
           q == [t EXCEPT !.path = Append(@, "grade"), !.relevant = relevant]
<1>1. RunOK(run) /\ c.attempt \in 0 .. 2
  BY DEF ReviewInv, Types, GoodRun, Calls
<1>2. /\ RunOK(t) /\ t.in = run.in + c.in /\ t.out = run.out + c.out /\ t.steps # <<>>
      /\ t.evidence = run.evidence /\ t.decision = None
  BY <1>1, TracedRun
<1> HIDE DEF t
<1>3. PICK path \in P : path = Append(t.path, "grade")
  <2>1. "grade" \in Node
    BY DEF Node
  <2>2. t.path \in Seq(Node)
    BY <1>2 DEF RunOK
  <2> QED
    BY <2>1, <2>2, AppendProperties
<1>4. t \in [evidence : {t.evidence}, relevant : {t.relevant}, decision : Decisions \cup {None},
             path : P, steps : S, in : Nat, out : Nat, failure : Failure \cup {None}]
  BY <1>2 DEF RunOK
<1> HIDE DEF P, S
<1>5. q = [t EXCEPT !.path = path, !.relevant = relevant]
  BY <1>3, <1>4
<1> HIDE DEF q
<1>6. /\ q \in [evidence : {t.evidence}, relevant : {relevant}, decision : Decisions \cup {None},
                path : P, steps : S, in : Nat, out : Nat, failure : Failure \cup {None}]
      /\ q.evidence = t.evidence /\ q.relevant = relevant /\ q.decision = t.decision
      /\ q.in = t.in /\ q.out = t.out /\ q.steps = t.steps
  BY <1>4, <1>5
<1>7. RunOK(q)
  BY <1>6 DEF RunOK, P, S
<1>8. GoodRun(q)
  BY <1>2, <1>6, <1>7 DEF GoodRun, Grounded
<1>9. q = [Traced(c, c.attempt) EXCEPT !.path = Append(@, "grade"), !.relevant = relevant]
  BY DEF q, t
<1> QED
  BY <1>2, <1>6, <1>8, <1>9

\* A parsed output that its limits allow.
LEMMA CallOkKeeps ==
  ASSUME ReviewInv, at = "sending", NEW c \in Calls, c.site = call.site,
         CallOk(c), UNCHANGED <<req, record, answer, denied>>, billed' \in Nat,
         c.site \in {"classify", "translate"} => billed' = billed,
         c.site \in {"grade", "check"} => InBudget(run.in + c.in, run.out + c.out)
  PROVE  ReviewInv'
<1>1. /\ GoodRun(run) /\ req # None /\ req \in Requests \cup {None} /\ denied \in BOOLEAN
      /\ ~denied /\ c.site \in Site /\ c.attempt \in 0 .. 2
  BY CallFacts DEF Calls
<1>2. ASSUME c.site \in {"classify", "translate"}, call' = None, run' = run
      PROVE  ReviewInv'
  <2>1. Early
    BY <1>2 DEF Early, Calling
  <2>2. CASE at' \in {"route", "guidance", "search", "retrieve"}
    <3>1. Early'
      BY <2>2 DEF Early
    <3> QED
      BY <1>1, <1>2, <2>1, <2>2, <3>1, StaysEarly
  <2>3. CASE End("error", "unsupported_request")
    BY <1>1, <1>2, <2>3, Ends
  <2>4. c.site = "classify" \/ c.site = "translate"
    BY <1>2
  <2> QED
    BY <2>2, <2>3, <2>4 DEF CallOk, Classified, Continue
<1>3. CASE c.site = "grade" /\ Graded(Traced(c, c.attempt)) /\ call' = None
  <2>1. run.decision = None
    BY <1>3 DEF ReviewInv, CallInv, Calling
  <2>2. PICK relevant \in SUBSET Ids(run.evidence) :
          /\ run' = [Traced(c, c.attempt) EXCEPT !.path = Append(@, "grade"),
                                                 !.relevant = relevant]
          /\ at' = IF run'.relevant = {} THEN "report" ELSE "check"
    BY <1>3 DEF Graded, Continue
  <2>3. GoodRun(run') /\ run'.steps # <<>>
    BY <1>3, <2>1, <2>2, GradedRun
  <2>4. CallInv'
    BY <2>2, <2>3 DEF CallInv, Calling
  <2> QED
    BY <1>1, <1>3, <2>2, <2>3, <2>4, Proceeds
<1>4. CASE c.site = "check" /\ AwaitFragments(c, c.attempt, "ok") /\ run' = run
  <2>1. at' = "fragments" /\ call' = [c EXCEPT !.requests = c.attempt, !.status = "ok"]
    BY <1>4 DEF AwaitFragments, Continue
  <2>2. "ok" \in {None, "ok"} \cup Refusal
    OBVIOUS
  <2>3. /\ call' \in Calls /\ call'.site = "check" /\ call'.status = "ok"
        /\ call'.in = c.in /\ call'.out = c.out
    BY <1>1, <1>4, <2>1, <2>2 DEF Calls
  <2>4. call' # None
    BY <2>3, ReviewAssumption
  <2>5. CallInv'
    BY <1>4, <2>1, <2>3, <2>4 DEF CallInv, Calling
  <2> QED
    BY <1>1, <1>4, <2>1, <2>3, <2>5, Proceeds
<1> QED
  BY <1>2, <1>3, <1>4 DEF CallOk

\* An unusable output is asked for once more, if something is left of every limit.
LEMMA RepairKeeps ==
  ASSUME ReviewInv, at = "sending", NEW c \in Calls, c.site = call.site,
         call' = [c EXCEPT !.attempt = 2], at' = "reserve", run' = run,
         UNCHANGED <<req, record, answer, denied>>, billed' \in Nat,
         c.site \in {"classify", "translate"} => billed' = billed,
         c.site \in {"grade", "check"} => InBudget(run.in + c.in, run.out + c.out)
  PROVE  ReviewInv'
<1>1. /\ GoodRun(run) /\ req # None /\ req \in Requests \cup {None} /\ denied \in BOOLEAN
      /\ ~denied /\ c.site \in Site
  BY CallFacts DEF Calls
<1>2. /\ call' \in Calls /\ call'.site = c.site /\ call'.attempt = 2
      /\ call'.in = c.in /\ call'.out = c.out
  BY DEF Calls
<1>3. call' # None
  BY <1>2, ReviewAssumption
<1>4. CASE c.site \in {"classify", "translate"}
  <2>1. Early /\ Early'
    BY <1>2, <1>4 DEF Early, Calling
  <2> QED
    BY <1>1, <1>2, <1>3, <1>4, <2>1, StaysEarly
<1>5. CASE c.site \in {"grade", "check"}
  <2>1. /\ c.site = "grade" => run.decision = None
        /\ c.site = "check" => run.steps # <<>>
    BY DEF ReviewInv, CallInv, Calling
  <2>2. CallInv'
    BY <1>2, <1>3, <1>5, <2>1 DEF CallInv, Calling
  <2> QED
    BY <1>1, <1>2, <1>5, <2>2, Proceeds
<1> QED
  BY <1>1, <1>4, <1>5 DEF Site

LEMMA RespondKeeps == ReviewInv /\ Respond => ReviewInv'
<1> SUFFICES ASSUME ReviewInv, Respond PROVE ReviewInv'
  OBVIOUS
<1>1. /\ at = "sending" /\ UNCHANGED <<req, record, answer, denied>>
      /\ billed' = billed + (IF call.site \in {"grade", "check"} THEN 1 ELSE 0)
  BY DEF Respond, request
<1>2. /\ call \in Calls /\ call.site \in Site /\ call.attempt \in 1 .. 2 /\ billed \in Nat
      /\ call.in \in Nat /\ call.out \in Nat
  BY <1>1, CallFacts
<1>3. /\ billed' \in Nat
      /\ call.site \in {"classify", "translate"} => billed' = billed
  BY <1>1, <1>2
<1>4. {"error", "budget_exceeded", "schema_rejected"} \subseteq Refusal
  BY DEF Refusal
<1>5. CASE CallFails(call, call.attempt, "error")
  BY <1>1, <1>2, <1>3, <1>4, <1>5, CallFailsKeeps
<1>6. ASSUME NEW in \in 1 .. MaxPrompt, NEW out \in 0 .. Remaining.out, NEW c,
             c = [call EXCEPT !.in = @ + in, !.out = @ + out]
      PROVE  LET over == in > Remaining.in \/ in + out > Remaining.cost
                 spent == in >= Remaining.in \/ out >= Remaining.out \/ in + out >= Remaining.cost
             IN  \/ Answered(c, over, spent)
                 \/ /\ ~spent /\ call.attempt = 1
                    /\ call' = [c EXCEPT !.attempt = 2]
                    /\ Continue("reserve") /\ UNCHANGED <<intent, run>>
                 => ReviewInv'
  <2> DEFINE over == in > Remaining.in \/ in + out > Remaining.cost
             spent == in >= Remaining.in \/ out >= Remaining.out \/ in + out >= Remaining.cost
  <2>1. in \in Nat /\ out \in Nat
    BY ReviewAssumption
  <2>2. /\ c \in Calls /\ c.site = call.site /\ c.attempt = call.attempt
        /\ c.in = call.in + in /\ c.out = call.out + out
    <3>1. call.in + in \in Nat /\ call.out + out \in Nat
      BY <1>2, <2>1
    <3> QED
      BY <1>2, <1>6, <3>1 DEF Calls
  <2>3. ~over /\ c.site \in {"grade", "check"} => InBudget(run.in + c.in, run.out + c.out)
    BY <1>1, <2>2, AnswerFits
  <2>4. ASSUME NEW n \in 0 .. 2, NEW status \in {"error", "budget_exceeded", "schema_rejected"},
               CallFails(c, n, status)
        PROVE  ReviewInv'
    BY <1>1, <1>3, <1>4, <2>2, <2>4, CallFailsKeeps
  <2>5. ASSUME ~over, CallOk(c) PROVE ReviewInv'
    BY <1>1, <1>3, <2>2, <2>3, <2>5, CallOkKeeps
  <2>6. c.attempt \in 0 .. 2 /\ 1 \in 0 .. 2 /\ 2 \in 0 .. 2
    BY <1>2, <2>2
  <2>7. ASSUME Answered(c, over, spent) PROVE ReviewInv'
    <3>1. \/ CallFails(c, c.attempt, "error")
          \/ CallFails(c, c.attempt, "budget_exceeded")
          \/ ~over /\ CallOk(c)
          \/ CallFails(c, 2, "schema_rejected")
          \/ CallFails(c, 1, "budget_exceeded")
      BY <2>7 DEF Answered
    <3>2. CASE CallFails(c, c.attempt, "error")
      BY <2>4, <2>6, <3>2
    <3>3. CASE CallFails(c, c.attempt, "budget_exceeded")
      BY <2>4, <2>6, <3>3
    <3>4. CASE CallFails(c, 2, "schema_rejected")
      BY <2>4, <2>6, <3>4
    <3>5. CASE CallFails(c, 1, "budget_exceeded")
      BY <2>4, <2>6, <3>5
    <3> QED
      BY <2>5, <3>1, <3>2, <3>3, <3>4, <3>5
  <2>8. ~spent => ~over
    <3>1. Remaining.in \in Int /\ Remaining.cost \in Int
      <4>1. run.in \in Nat /\ run.out \in Nat
        BY <1>1, CallFacts
      <4>2. {InputCap, OutputCap, CostCap, RunInput, RunOutput} \subseteq Nat
        BY ReviewAssumption
      <4> QED
        BY <1>2, <4>1, <4>2 DEF Remaining, Least
    <3> HIDE DEF Remaining
    <3> QED
      BY <2>1, <3>1
  <2>9. CASE /\ ~spent /\ call.attempt = 1 /\ call' = [c EXCEPT !.attempt = 2]
             /\ Continue("reserve") /\ UNCHANGED <<intent, run>>
    BY <1>1, <1>3, <2>2, <2>3, <2>8, <2>9, RepairKeeps DEF Continue
  <2> HIDE DEF over, spent
  <2> QED
    BY <2>7, <2>9 DEF over, spent
<1>7. CASE \E in \in 1 .. MaxPrompt, out \in 0 .. Remaining.out :
              LET c == [call EXCEPT !.in = @ + in, !.out = @ + out]
                  over == in > Remaining.in \/ in + out > Remaining.cost
                  spent == in >= Remaining.in \/ out >= Remaining.out \/ in + out >= Remaining.cost
              IN  \/ Answered(c, over, spent)
                  \/ /\ ~spent /\ call.attempt = 1
                     /\ call' = [c EXCEPT !.attempt = 2]
                     /\ Continue("reserve") /\ UNCHANGED <<intent, run>>
  <2>1. PICK in \in 1 .. MaxPrompt, out \in 0 .. Remaining.out :
              LET c == [call EXCEPT !.in = @ + in, !.out = @ + out]
                  over == in > Remaining.in \/ in + out > Remaining.cost
                  spent == in >= Remaining.in \/ out >= Remaining.out \/ in + out >= Remaining.cost
              IN  \/ Answered(c, over, spent)
                  \/ /\ ~spent /\ call.attempt = 1
                     /\ call' = [c EXCEPT !.attempt = 2]
                     /\ Continue("reserve") /\ UNCHANGED <<intent, run>>
    BY <1>7
  <2> QED
    BY <1>6, <2>1
<1> QED
  BY <1>5, <1>7 DEF Respond

\* check_node()'s guard: a decision that claims support cites relevant evidence only.
LEMMA GuardedIsGrounded ==
  ASSUME NEW cited \in SUBSET Chunk, NEW decision \in Guarded(cited)
  PROVE  /\ decision \in Decisions
         /\ \/ decision.label = "NOT_IN_DOCS"
            \/ decision.cited # {} /\ decision.cited \subseteq run.relevant
<1>1. {} \in SUBSET Chunk
  OBVIOUS
<1>2. CASE decision = [label |-> "NOT_IN_DOCS", cited |-> {}]
  BY <1>1, <1>2 DEF Decisions
<1>3. CASE /\ cited # {} /\ cited \subseteq run.relevant
           /\ decision \in {[label |-> l, cited |-> cited] : l \in {"SUPPORTED", "PERIOD_MISMATCH"}}
  BY <1>3 DEF Decisions
<1> QED
  BY <1>2, <1>3 DEF Guarded

LEMMA CheckNodeKeeps == ReviewInv /\ CheckNode => ReviewInv'
<1> SUFFICES ASSUME ReviewInv, CheckNode PROVE ReviewInv'
  OBVIOUS
<1>1. /\ at = "fragments" /\ call' = None
      /\ UNCHANGED <<req, billed, denied, record, answer>>
  BY DEF CheckNode, request
<1>2. /\ call \in Calls /\ GoodRun(run) /\ RunOK(run) /\ billed \in Nat
      /\ denied \in BOOLEAN /\ ~denied
  BY <1>1, CallFacts
<1>3. call.requests \in 0 .. 2 /\ call.status \in Refusal \cup {"ok"}
  BY <1>1, <1>2 DEF ReviewInv, CallInv, Calls
<1> DEFINE t == Traced(call, call.requests)
<1>4. /\ RunOK(t) /\ t.in = run.in + call.in /\ t.out = run.out + call.out
      /\ t.failure = run.failure /\ t.evidence = run.evidence
      /\ t.relevant = run.relevant /\ t.decision = run.decision
  BY <1>2, <1>3, TracedRun
<1>5. "check" \in Node /\ Refusal \subseteq Failure /\ "node_error" \in Failure
  BY DEF Node, Failure
<1> HIDE DEF t
<1>6. CASE /\ call.status = "ok" /\ at' = "report"
           /\ \E cited \in SUBSET Chunk : \E decision \in Guarded(cited) :
                run' = [t EXCEPT !.decision = decision, !.path = Append(@, "check")]
  <2>1. PICK cited \in SUBSET Chunk : \E decision \in Guarded(cited) :
          run' = [t EXCEPT !.decision = decision, !.path = Append(@, "check")]
    BY <1>6
  <2>2. PICK decision \in Guarded(cited) :
          run' = [t EXCEPT !.decision = decision, !.path = Append(@, "check")]
    BY <2>1
  <2>3. /\ decision \in Decisions
        /\ \/ decision.label = "NOT_IN_DOCS"
           \/ decision.cited # {} /\ decision.cited \subseteq run.relevant
    BY GuardedIsGrounded
  <2>4. /\ RunOK(run') /\ run'.failure = t.failure /\ run'.evidence = t.evidence
        /\ run'.relevant = t.relevant /\ run'.decision = decision
        /\ run'.in = t.in /\ run'.out = t.out
    <3>1. \A d \in Decisions :
            LET q == [t EXCEPT !.decision = d, !.path = Append(@, "check")] IN
            /\ RunOK(q) /\ q.failure = t.failure /\ q.evidence = t.evidence
            /\ q.relevant = t.relevant /\ q.decision = d /\ q.in = t.in /\ q.out = t.out
      BY <1>4, <1>5, RunUpdates
    <3> QED
      BY <2>3, <2>2, <3>1
  <2>5. InBudget(run'.in, run'.out)
    BY <1>1, <1>4, <1>6, <2>4 DEF ReviewInv, CallInv
  <2>6. GoodRun(run')
    BY <1>2, <1>4, <2>3, <2>4, <2>5 DEF GoodRun, Grounded
  <2>7. CallInv'
    BY <1>6 DEF CallInv, Calling
  <2> QED
    BY <1>1, <1>2, <1>6, <2>6, <2>7, Proceeds
<1>7. CASE call.status # "ok" /\ NodeFails("check", call.status, t)
  <2>1. call.status \in Failure
    BY <1>3, <1>5, <1>7
  <2> QED
    BY <1>1, <1>2, <1>4, <1>5, <1>7, <2>1, NodeFailsKeeps
<1>8. CASE NodeFails("check", "node_error", run)
  BY <1>1, <1>2, <1>5, <1>8, NodeFailsKeeps
<1> QED
  BY <1>6, <1>7, <1>8 DEF CheckNode, Continue, t

LEMMA ReportNodeKeeps == ReviewInv /\ ReportNode => ReviewInv'
<1> SUFFICES ASSUME ReviewInv, ReportNode PROVE ReviewInv'
  OBVIOUS
<1> DEFINE d == IF run.decision = None THEN [label |-> "NOT_IN_DOCS", cited |-> {}]
                ELSE run.decision
<1>1. /\ at = "report" /\ at' = "persist"
      /\ UNCHANGED <<req, billed, denied, record, answer, call>>
      /\ run' = [run EXCEPT !.path = Append(@, "report"), !.decision = d]
  BY DEF ReportNode, request, Continue
<1>2. GoodRun(run) /\ RunOK(run)
  BY DEF ReviewInv, Types, GoodRun
<1>3. d \in Decisions
  <2>1. {} \in SUBSET Chunk
    OBVIOUS
  <2>2. [label |-> "NOT_IN_DOCS", cited |-> {}] \in Decisions
    BY <2>1 DEF Decisions
  <2>3. run.decision \in Decisions \cup {None}
    BY <1>2 DEF RunOK
  <2> QED
    BY <2>2, <2>3
<1>4. d.label = "NOT_IN_DOCS" \/ (d = run.decision /\ run.decision # None)
  OBVIOUS
<1> HIDE DEF d
<1>5. run' = [run EXCEPT !.decision = d, !.path = Append(@, "report")]
  BY <1>1, <1>2 DEF RunOK
<1>6. /\ RunOK(run') /\ run'.failure = run.failure /\ run'.evidence = run.evidence
      /\ run'.relevant = run.relevant /\ run'.decision = d
      /\ run'.in = run.in /\ run'.out = run.out
  <2>1. "report" \in Node
    BY DEF Node
  <2>2. \A x \in Decisions :
          LET q == [run EXCEPT !.decision = x, !.path = Append(@, "report")] IN
          /\ RunOK(q) /\ q.failure = run.failure /\ q.evidence = run.evidence
          /\ q.relevant = run.relevant /\ q.decision = x /\ q.in = run.in /\ q.out = run.out
    BY <1>2, <2>1, RunUpdates
  <2> QED
    BY <1>3, <1>5, <2>2
<1>7. GoodRun(run')
  BY <1>2, <1>4, <1>6 DEF GoodRun, Grounded
<1>8. CallInv'
  BY <1>1 DEF CallInv, Calling
<1>9. denied' = FALSE
  BY <1>1 DEF ReviewInv, Types, LifeInv
<1> QED
  BY <1>1, <1>7, <1>8, <1>9, Proceeds DEF ReviewInv, Types

\* What is stored of a run is a record.
LEMMA StoredIsRecord ==
  ASSUME RunOK(run)
  PROVE  /\ Stored \in Records /\ Stored # None
         /\ run.failure = "budget_exceeded" => Stored.status = "budget_exceeded"
         /\ Stored.status = "ok" => run.failure = None
         /\ Stored.decision # None => Stored.decision = run.decision
<1>1. /\ run.failure \in Failure \cup {None} /\ run.decision \in Decisions \cup {None}
      /\ run.path \in Seq(Node) /\ run.steps \in Seq(Step)
  BY DEF RunOK
<1> DEFINE s == CASE run.failure = None -> "ok"
                  [] run.failure = "node_error" -> "error"
                  [] OTHER -> run.failure
           d == IF run.failure = None THEN run.decision ELSE None
           P == Seq(Node)
           S == Seq(Step)
<1>2. /\ s \in Failure \cup {"ok"}
      /\ run.failure = "budget_exceeded" => s = "budget_exceeded"
      /\ s = "ok" => run.failure = None
  BY <1>1, ReviewAssumption DEF Failure, Refusal
<1>3. d \in Decisions \cup {None} /\ (d # None => d = run.decision)
  BY <1>1
<1>4. Stored = [status |-> s, decision |-> d, path |-> run.path, steps |-> run.steps]
  BY DEF Stored
<1>5. run.path \in P /\ run.steps \in S
  BY <1>1
<1> HIDE DEF s, d, P, S
<1>6. Stored.status = s /\ Stored.decision = d
  BY <1>4
<1>7. Stored \in [status : Failure \cup {"ok"}, decision : Decisions \cup {None},
                  path : P, steps : S]
  BY <1>2, <1>3, <1>4, <1>5
<1>8. Stored \in Records
  BY <1>7 DEF Records, P, S
<1>9. Stored # None
  BY <1>8, ReviewAssumption
<1> QED
  BY <1>2, <1>3, <1>6, <1>8, <1>9

LEMMA PersistKeeps == ReviewInv /\ Persist => ReviewInv'
<1> SUFFICES ASSUME ReviewInv, Persist PROVE ReviewInv'
  OBVIOUS
<1>1. /\ at = "persist" /\ at' = "leave"
      /\ UNCHANGED <<req, billed, run, denied, answer, call>>
      /\ \/ /\ record' = Stored
            /\ denied \/ outcome'.type = "report"
         \/ record' = record /\ outcome'.what = "database_unavailable"
      /\ outcome'.type \in {"error", "report"}
  BY DEF Persist, End, request
<1>2. req # None /\ record = None /\ answer = None
  BY <1>1 DEF ReviewInv, LifeInv
<1>3. RunOK(run)
  BY DEF ReviewInv, Types, GoodRun
<1>4. /\ Stored # None
      /\ run.failure = "budget_exceeded" => Stored.status = "budget_exceeded"
  BY <1>3, StoredIsRecord
<1>5. Stored' = Stored
  BY <1>1 DEF Stored
<1>6. denied => run.failure = "budget_exceeded"
  BY DEF ReviewInv, LifeInv
<1>7. Types'
  BY <1>1 DEF ReviewInv, Types
<1>8. EarlyInv'
  BY <1>1 DEF EarlyInv, Early, Calling
<1>9. LifeInv'
  BY <1>1, <1>2, <1>5, <1>6 DEF LifeInv
<1>10. CallInv'
  BY <1>1 DEF CallInv, Calling
<1>11. DenialInv'
  BY <1>1, <1>2, <1>4, <1>6 DEF DenialInv, DeniedAnswer, Kept
<1> QED
  BY <1>7, <1>8, <1>9, <1>10, <1>11 DEF ReviewInv

\* Nothing pinned and nothing excluded is a selection.
LEMMA EmptySelection == [pinned |-> <<>>, excluded |-> {}] \in Selection
<1> DEFINE x == [pinned |-> <<>>, excluded |-> {}]
<1>1. <<>> \in SeqOf(Chunk, 2)
  <2>1. <<>> \in [1 .. 0 -> Chunk] /\ 0 \in 0 .. 2
    OBVIOUS
  <2> QED
    BY <2>1 DEF SeqOf
<1>2. IsInjective(<<>>)
  BY DEF IsInjective
<1>3. Cardinality({}) <= 1
  BY FS_EmptySet
<1>4. {} \in SUBSET Chunk
  OBVIOUS
<1>5. x \in [pinned : SeqOf(Chunk, 2), excluded : SUBSET Chunk]
  BY <1>1, <1>4
<1>6. x.pinned = <<>> /\ x.excluded = {}
  OBVIOUS
<1> HIDE DEF x
<1>7. x \in Selection
  BY <1>2, <1>3, <1>5, <1>6 DEF Selection
<1> QED
  BY <1>7 DEF x

LEMMA LeaveKeeps == ReviewInv /\ Leave => ReviewInv'
<1> SUFFICES ASSUME ReviewInv, Leave PROVE ReviewInv'
  OBVIOUS
<1>1. /\ at = "leave" /\ UNCHANGED <<billed, run, denied, record, call, outcome>>
  BY DEF Leave, work
<1>2. /\ req # None /\ req \in Requests /\ call \in Calls \cup {None} /\ answer = None
  BY <1>1 DEF ReviewInv, Types, LifeInv
<1>3. CASE outcome.type = "candidates" /\ req.kind = "stream"
  <2>1. /\ at' = "enter" /\ UNCHANGED answer
        /\ \/ req' = req
           \/ req' = [req EXCEPT !.selection = [pinned |-> <<>>, excluded |-> {}]]
    BY <1>3 DEF Leave, Continue
  <2>2. req' \in Requests
    BY <1>2, <2>1, EmptySelection DEF Requests
  <2>3. req' # None
    BY <2>2, ReviewAssumption
  <2>4. Early /\ Early'
    BY <1>1, <1>3, <2>1 DEF Early
  <2> QED
    BY <1>1, <1>2, <2>1, <2>2, <2>3, <2>4, StaysEarly
<1>4. CASE ~(outcome.type = "candidates" /\ req.kind = "stream")
  <2>1. /\ at' = "idle" /\ UNCHANGED req /\ answer' \in {outcome, answer}
    BY <1>4 DEF Leave
  <2>2. Types'
    BY <1>1, <2>1 DEF ReviewInv, Types
  <2>3. EarlyInv'
    BY <1>2, <2>1 DEF EarlyInv, Early, Calling
  <2>4. LifeInv'
    BY <1>1, <1>2, <2>1 DEF ReviewInv, LifeInv, Stored
  <2>5. CallInv'
    BY <2>1 DEF CallInv, Calling
  <2>6. DenialInv'
    BY <1>1, <1>2, <2>1 DEF ReviewInv, DenialInv, DeniedAnswer, Kept
  <2> QED
    BY <2>2, <2>3, <2>4, <2>5, <2>6 DEF ReviewInv
<1> QED
  BY <1>3, <1>4

\* The end of a stream, and what the world does to a request under way.
LEMMA WorldKeeps ==
  ReviewInv /\ (Delivered \/ Unwind \/ World \/ UNCHANGED vars) => ReviewInv'
<1> SUFFICES ASSUME ReviewInv, Delivered \/ Unwind \/ World \/ UNCHANGED vars PROVE ReviewInv'
  OBVIOUS
<1>1. CASE Delivered
  BY <1>1, Drops DEF Delivered
<1>2. CASE Unwind
  BY <1>2, Drops DEF Unwind
<1>3. CASE Disconnect
  BY <1>3, Drops DEF Disconnect
<1>4. CASE BeginUpdate \/ EndUpdate \/ TokenLapses \/ UNCHANGED vars
  <2>1. UNCHANGED <<req, at, work, outcome, answer>>
    BY <1>4 DEF BeginUpdate, EndUpdate, TokenLapses, vars, request
  <2> QED
    BY <2>1, Stays
<1> QED
  BY <1>1, <1>2, <1>3, <1>4 DEF World

-----------------------------------------------------------------------------
(* The theorems. *)

\* Every step keeps the invariant.
LEMMA ReviewStep == ReviewInv /\ [Next]_vars => ReviewInv'
<1> SUFFICES ASSUME ReviewInv, [Next]_vars PROVE ReviewInv'
  OBVIOUS
<1>1. CASE \E k \in Kind, x \in Selection \cup {None} : Submit(k, x)
  BY <1>1, SubmitKeeps
<1>2. CASE Admit \/ Enter \/ DecidePath \/ Route
  BY <1>2, AdmitKeeps, EnterKeeps, DecidePathKeeps, RouteKeeps
<1>3. CASE SearchCandidates \/ Guide \/ Verify \/ LoadSelected
  BY <1>3, SearchCandidatesKeeps, GuideKeeps, VerifyKeeps
<1>4. CASE RetrieveNode
  BY <1>4, RetrieveNodeKeeps
<1>5. CASE \E n \in {"grade", "check"} : ModelNode(n)
  BY <1>5, ModelNodeKeeps
<1>6. CASE Reserve \/ Respond
  BY <1>6, ReserveKeeps, RespondKeeps
<1>7. CASE CheckNode \/ ReportNode
  BY <1>7, CheckNodeKeeps, ReportNodeKeeps
<1>8. CASE Persist \/ Leave
  BY <1>8, PersistKeeps, LeaveKeeps
<1>9. CASE Unwind \/ Delivered \/ World \/ UNCHANGED vars
  BY <1>9, WorldKeeps
<1> QED
  BY <1>1, <1>2, <1>3, <1>4, <1>5, <1>6, <1>7, <1>8, <1>9 DEF Next, Task

\* In every reachable state: a run has the types of its data, only relevant evidence
\* supports its decision and it is within its limits until it failed; before its evidence
\* nothing was billed; and a denial leaves nothing billed or a record (runtime.py, the
\* nodes of app/workflow and the provider's budgets).
THEOREM ReviewHolds == Spec => []ReviewInv
<1>1. Init => ReviewInv
  BY InitHolds
<1>2. ReviewInv /\ [Next]_vars => ReviewInv'
  BY ReviewStep
<1> QED
  BY <1>1, <1>2, PTL DEF Spec

\* A record that reports success is of a run that did not fail, and such a run is within
\* the configured and the requested limits (_provider_allowance() of app/workflow and
\* _request() of the OpenAI provider).
THEOREM SuccessStaysWithinBudget == Spec => []SuccessWithinBudget
<1>1. ReviewInv => SuccessWithinBudget
  <2> SUFFICES ASSUME ReviewInv, record # None, record.status = "ok"
               PROVE  InBudget(run.in, run.out)
    BY DEF SuccessWithinBudget, InBudget
  <2>1. GoodRun(run) /\ RunOK(run) /\ record = Stored
    BY DEF ReviewInv, Types, LifeInv, GoodRun
  <2>2. run.failure = None
    BY <2>1, StoredIsRecord
  <2> QED
    BY <2>1, <2>2 DEF GoodRun
<1> QED
  BY <1>1, ReviewHolds, PTL

\* A denial reaches a client only if no request of grade or check was billed, or after the
\* run was stored with the budget as its end (the AIAllowanceError of runtime.py).
THEOREM DenialKeepsRun == Spec => []DeniedRunIsKept
<1>1. ReviewInv => DeniedRunIsKept
  BY DEF ReviewInv, Types, DenialInv, Kept, DeniedRunIsKept
<1> QED
  BY <1>1, ReviewHolds, PTL

-----------------------------------------------------------------------------
(* What is billed is traced. *)

\* What a search finds is what the index holds.
Current(hits) == \A h \in ToSet(hits) : stored[h.id] = h.v

\* What a search finds is in the index, as it stands.
LEMMA RankedHits ==
  ASSUME stored \in [Chunk -> Version \cup {Gone}], NEW ranked \in Rankings
  PROVE  ranked \in Seq(Hit) /\ Current(ranked)
<1>1. PICK s \in SeqOf(Chunk, Cardinality(Chunk)) :
        /\ \A i \in DOMAIN s : stored[s[i]] # Gone
        /\ ranked = [i \in DOMAIN s |-> [id |-> s[i], v |-> stored[s[i]]]]
  BY DEF Rankings
<1>2. PICK m \in 0 .. Cardinality(Chunk) : s \in [1 .. m -> Chunk]
  BY <1>1 DEF SeqOf
<1>3. m \in Nat /\ DOMAIN s = 1 .. m
  BY <1>2
<1>4. \A i \in 1 .. m : [id |-> s[i], v |-> stored[s[i]]] \in Hit
  BY <1>1, <1>2 DEF Hit
<1>5. ranked = [i \in 1 .. m |-> [id |-> s[i], v |-> stored[s[i]]]]
  BY <1>1, <1>3
<1>6. ranked \in Seq(Hit)
  <2> HIDE DEF Hit
  <2>1. ranked \in [1 .. m -> Hit]
    BY <1>4, <1>5
  <2> QED
    BY <1>3, <2>1
<1>7. Current(ranked)
  <2>1. DOMAIN ranked = 1 .. m
    BY <1>5
  <2>2. \A i \in 1 .. m : stored[ranked[i].id] = ranked[i].v
    BY <1>5
  <2> QED
    BY <2>1, <2>2 DEF Current, ToSet
<1> QED
  BY <1>6, <1>7

\* The fold that counts the requests of a list of steps.
CountRequests == [n \in Nat |-> [e \in Step |-> n + e.requests]]

\* The requests of a list of steps are a fold of it, and one more step adds its own.
LEMMA SentUnfolds ==
  ASSUME NEW s \in Seq(Step)
  PROVE  \E f : IsFold(f, Nat, 0, CountRequests, s) /\ Sent(s) = f[Len(s)]
<1> DEFINE N == Len(s)
           F(f) == [i \in 0 .. N |-> IF i = 0 THEN 0 ELSE f[i - 1] + s[i].requests]
           sent == CHOOSE f : f = F(f)
<1>1. Sent(s) = sent[N]
  BY DEF Sent
<1>2. PICK f : IsFold(f, Nat, 0, CountRequests, s)
  <2>1. CountRequests \in [Nat -> [Step -> Nat]]
    <3>1. ASSUME NEW n \in Nat, NEW e \in Step PROVE n + e.requests \in Nat
      BY DEF Step
    <3> HIDE DEF N
    <3> QED
      BY <3>1 DEF CountRequests
  <2> QED
    BY <2>1, FoldExists
<1>3. /\ f \in [0 .. N -> Nat] /\ f[0] = 0
      /\ \A i \in 1 .. N : f[i] = f[i - 1] + s[i].requests
  <2>1. /\ f \in [0 .. N -> Nat] /\ f[0] = 0
        /\ \A i \in 1 .. N : f[i] = CountRequests[f[i - 1]][s[i]]
    BY <1>2 DEF IsFold
  <2>2. \A i \in 1 .. N : f[i - 1] \in Nat /\ s[i] \in Step
    BY <2>1
  <2> QED
    BY <2>1, <2>2 DEF CountRequests
<1>4. f = F(f)
  <2>1. \A i \in 0 .. N : i = 0 \/ i \in 1 .. N
    OBVIOUS
  <2>2. \A i \in 0 .. N : f[i] = F(f)[i]
    BY <1>3, <2>1
  <2>3. F(f) = [i \in 0 .. N |-> F(f)[i]] /\ f = [i \in 0 .. N |-> f[i]]
    BY <1>3
  <2> HIDE DEF F
  <2> QED
    BY <2>2, <2>3
<1>5. sent = F(sent)
  <2> HIDE DEF F
  <2> QED
    BY <1>4
<1> HIDE DEF sent
<1>6. N \in Nat /\ sent[0] = 0 /\ \A i \in 1 .. N : sent[i] = sent[i - 1] + s[i].requests
  BY <1>5
<1> DEFINE G == {i \in Nat : i <= N => sent[i] = f[i]}
<1>7. 0 \in G
  BY <1>3, <1>6
<1>8. ASSUME NEW i \in 0 .. (N - 1), i \in G PROVE i + 1 \in G
  <2>1. i + 1 \in 1 .. N /\ (i + 1) - 1 = i /\ i <= N
    BY <1>8
  <2>2. sent[i + 1] = sent[i] + s[i + 1].requests /\ f[i + 1] = f[i] + s[i + 1].requests
    BY <1>3, <1>6, <2>1
  <2> QED
    BY <1>8, <2>1, <2>2
<1>9. G \in SUBSET Nat /\ N \in 0 .. N
  OBVIOUS
<1> HIDE DEF G, N
<1>10. N \in G
  BY <1>6, <1>7, <1>8, <1>9, SetInduction
<1>11. sent[N] = f[N]
  BY <1>6, <1>10 DEF G
<1> QED
  BY <1>1, <1>2, <1>11 DEF N

\* A step adds its requests to those of the steps before it.
LEMMA SentAppend ==
  ASSUME NEW s \in Seq(Step), NEW e \in Step
  PROVE  Sent(s) \in Nat /\ Sent(Append(s, e)) = Sent(s) + e.requests
<1> DEFINE N == Len(s)
<1>1. PICK t \in Seq(Step) : /\ t = Append(s, e) /\ Len(t) = N + 1 /\ t[N + 1] = e
                             /\ \A i \in 1 .. N : t[i] = s[i]
  <2>1. /\ Append(s, e) \in Seq(Step) /\ Len(Append(s, e)) = N + 1
        /\ \A i \in 1 .. N : Append(s, e)[i] = s[i]
        /\ Append(s, e)[N + 1] = e
    BY AppendProperties
  <2> QED
    BY <2>1
<1>2. PICK f : IsFold(f, Nat, 0, CountRequests, s) /\ Sent(s) = f[N]
  BY SentUnfolds
<1>3. PICK g : IsFold(g, Nat, 0, CountRequests, t) /\ Sent(t) = g[N + 1]
  BY <1>1, SentUnfolds
<1>4. /\ f \in [0 .. N -> Nat] /\ f[0] = 0
      /\ \A i \in 1 .. N : f[i] = CountRequests[f[i - 1]][s[i]]
  BY <1>2 DEF IsFold
<1>5. /\ g \in [0 .. N + 1 -> Nat] /\ g[0] = 0
      /\ \A i \in 1 .. N + 1 : g[i] = CountRequests[g[i - 1]][t[i]]
  BY <1>1, <1>3 DEF IsFold
<1> DEFINE G == {i \in Nat : i <= N => f[i] = g[i]}
<1>6. N \in Nat /\ G \in SUBSET Nat /\ N \in 0 .. N
  OBVIOUS
<1>7. 0 \in G
  BY <1>4, <1>5
<1>8. ASSUME NEW i \in 0 .. (N - 1), i \in G PROVE i + 1 \in G
  <2>1. i + 1 \in 1 .. N /\ i + 1 \in 1 .. N + 1 /\ (i + 1) - 1 = i /\ i <= N /\ i + 1 \in Nat
    BY <1>6, <1>8
  <2>2. /\ f[i + 1] = CountRequests[f[i]][s[i + 1]] /\ g[i + 1] = CountRequests[g[i]][t[i + 1]]
    BY <1>4, <1>5, <2>1
  <2>3. f[i] = g[i] /\ s[i + 1] = t[i + 1]
    BY <1>1, <1>8, <2>1
  <2> QED
    BY <2>1, <2>2, <2>3
<1> HIDE DEF G
<1>9. N \in G
  BY <1>6, <1>7, <1>8, SetInduction
<1>10. f[N] = g[N]
  BY <1>6, <1>9 DEF G
<1>11. g[N + 1] = CountRequests[g[N]][e] /\ g[N] \in Nat
  BY <1>1, <1>5, <1>6
<1>12. g[N + 1] = g[N] + e.requests
  BY <1>11 DEF CountRequests
<1> QED
  BY <1>1, <1>2, <1>3, <1>10, <1>11, <1>12

\* Nothing is sent by no steps.
LEMMA SentNothing == Sent(<<>>) = 0
<1> DEFINE s == <<>>
<1>1. s \in Seq(Step) /\ Len(s) = 0
  OBVIOUS
<1> HIDE DEF s
<1>2. PICK f : IsFold(f, Nat, 0, CountRequests, s) /\ Sent(s) = f[0]
  BY <1>1, SentUnfolds
<1>3. Sent(s) = 0
  BY <1>2 DEF IsFold
<1> QED
  BY <1>3 DEF s

\* The requests of a call under way, which no step counts yet.
Balance == IF Calling({"grade", "check"}) THEN call.attempt - 1
           ELSE IF at = "fragments" THEN call.requests ELSE 0

\* A failed run is stored at once, and what was billed is in its steps or its call.
TraceInv ==
  /\ at \notin {"persist", "leave", "idle"} => run.failure = None
  /\ run.failure # "node_error" => billed = Sent(run.steps) + Balance

\* A task at a node that calls a model, or at the last node.
NodeStage == at \in {"grade", "check", "fragments", "report"} \/ Calling({"grade", "check"})

\* A step of a call or of a node: the evidence stays, a node may be told, its requests are
\* counted, and the request goes on, is stored or ends with an error.
Moves ==
  /\ run'.evidence = run.evidence
  /\ \/ run'.path = run.path
     \/ \E n \in Node \ {"gate"} : run'.path = Append(run.path, n) /\ NodeStage
  /\ TraceInv'
  /\ NodeStage' => NodeStage
  /\ Calling({"translate"})' => Calling({"translate"})
  /\ at' \in {"route", "guidance", "search", "retrieve", "reserve", "sending", "check",
              "fragments", "report", "persist", "leave"}
  /\ at' = "search" => half = "retrieve"
  /\ at' = "retrieve" => half # "retrieve" /\ Calling({"translate"})
  /\ at' = "leave" => outcome'.type = "error"

\* The parts of a run that failed.
LEMMA FailedParts ==
  ASSUME NEW r, RunOK(r), NEW n \in Node, NEW f \in Failure
  PROVE  LET q == [r EXCEPT !.failure = f, !.path = Append(@, n)] IN
         /\ q.evidence = r.evidence /\ q.steps = r.steps /\ q.failure = f
         /\ q.path = Append(r.path, n)
BY DEF RunOK

\* The parts of a run that a call was added to.
LEMMA TracedParts ==
  ASSUME RunOK(run), NEW c \in Calls, NEW n \in 0 .. 2
  PROVE  /\ Traced(c, n).evidence = run.evidence /\ Traced(c, n).path = run.path
         /\ Traced(c, n).failure = run.failure /\ run.steps \in Seq(Step)
         /\ Sent(Traced(c, n).steps) = Sent(run.steps) + n /\ Sent(run.steps) \in Nat
<1>1. run.steps \in Seq(Step)
  BY DEF RunOK
<1>2. [node |-> c.site, requests |-> n] \in Step
  BY DEF Calls, Step
<1>3. /\ Traced(c, n).steps = Append(run.steps, [node |-> c.site, requests |-> n])
      /\ Traced(c, n).evidence = run.evidence /\ Traced(c, n).path = run.path
      /\ Traced(c, n).failure = run.failure
  BY DEF RunOK, Traced
<1> QED
  BY <1>1, <1>2, <1>3, SentAppend

\* A node that fails leaves a run of which every request is counted.
LEMMA NodeFailsMoves ==
  ASSUME NodeStage, NEW node \in Node \ {"gate"}, NEW status \in Failure, NEW traced,
         RunOK(traced), traced.evidence = run.evidence, traced.path = run.path,
         NodeFails(node, status, traced),
         status = "node_error" \/ billed' = Sent(traced.steps), Sent(traced.steps) \in Nat
  PROVE  Moves
<1>1. at' = "persist" /\ run' = [traced EXCEPT !.failure = status, !.path = Append(@, node)]
  BY DEF NodeFails, Continue
<1>2. /\ run'.evidence = run.evidence /\ run'.steps = traced.steps /\ run'.failure = status
      /\ run'.path = Append(run.path, node)
  BY <1>1, FailedParts
<1>3. TraceInv'
  <2>1. Balance' = 0
    BY <1>1 DEF Balance, Calling
  <2> QED
    BY <1>1, <1>2, <2>1 DEF TraceInv
<1>4. ~NodeStage' /\ ~Calling({"translate"})'
  BY <1>1 DEF NodeStage, Calling
<1> QED
  BY <1>1, <1>2, <1>3, <1>4 DEF Moves

\* A call without a usable output.
LEMMA CallFailsMoves ==
  ASSUME ReviewInv, TraceInv, at \in {"reserve", "sending"}, NEW c \in Calls, c.site = call.site,
         NEW n \in 0 .. 2, NEW status \in Refusal, CallFails(c, n, status),
         c.site \in {"classify", "translate"} => billed' = billed,
         c.site \in {"grade", "check"} => billed' = Sent(run.steps) + n
  PROVE  Moves
<1>1. RunOK(run) /\ c.site \in Site /\ run.failure = None
  BY DEF ReviewInv, Types, GoodRun, TraceInv, Calls
<1>2. run.failure # "node_error"
  BY <1>1, ReviewAssumption DEF Failure
<1>3. CASE c.site = "check" /\ AwaitFragments(c, n, status) /\ run' = run
  <2>1. at' = "fragments" /\ call'.requests = n
    BY <1>3 DEF AwaitFragments, Continue, Calls
  <2>2. Balance' = n
    BY <2>1 DEF Balance, Calling
  <2>3. TraceInv'
    BY <1>1, <1>3, <2>1, <2>2 DEF TraceInv
  <2>4. NodeStage /\ ~Calling({"translate"})'
    BY <1>3, <2>1 DEF NodeStage, Calling
  <2> QED
    BY <1>3, <2>1, <2>3, <2>4 DEF Moves
<1>4. CASE c.site = "grade" /\ NodeFails("grade", status, Traced(c, n))
  <2>1. /\ RunOK(Traced(c, n)) /\ Traced(c, n).evidence = run.evidence
        /\ Traced(c, n).path = run.path /\ billed' = Sent(Traced(c, n).steps)
        /\ Sent(Traced(c, n).steps) \in Nat
    BY <1>1, <1>4, TracedRun, TracedParts
  <2>2. "grade" \in Node \ {"gate"} /\ status \in Failure /\ NodeStage
    BY <1>4 DEF Node, Failure, NodeStage, Calling
  <2> QED
    BY <1>4, <2>1, <2>2, NodeFailsMoves
<1>5. CASE c.site \in {"classify", "translate"} /\ run' = run /\ at' = "leave"
           /\ outcome'.type = "error"
  <2>1. Balance = 0 /\ Balance' = 0
    BY <1>5 DEF Balance, Calling
  <2>2. TraceInv'
    BY <1>2, <1>5, <2>1 DEF TraceInv
  <2>3. ~NodeStage' /\ ~Calling({"translate"})'
    BY <1>5 DEF NodeStage, Calling
  <2> QED
    BY <1>5, <2>2, <2>3 DEF Moves
<1> QED
  BY <1>3, <1>4, <1>5 DEF CallFails, End

\* A denial.
LEMMA CallDeniedMoves ==
  ASSUME ReviewInv, TraceInv, at = "reserve", CallDenied, UNCHANGED billed
  PROVE  Moves
<1>1. /\ call \in Calls /\ call.site \in Site /\ RunOK(run) /\ run.failure = None
      /\ billed \in Nat
  BY CallFacts DEF TraceInv
<1>2. run.failure # "node_error"
  BY <1>1, ReviewAssumption DEF Failure
<1>3. Sent(run.steps) \in Nat /\ billed = Sent(run.steps) + Balance
  BY <1>1, <1>2, TracedParts DEF TraceInv
<1>4. call.site \in {"grade", "check"} => /\ NodeStage /\ Balance = call.attempt - 1
                                          /\ call.site \in Node \ {"gate"}
  BY DEF NodeStage, Calling, Balance, Node
<1>5. "budget_exceeded" \in Failure
  BY DEF Failure, Refusal
<1>6. CASE /\ call.site \in {"grade", "check"} /\ call.attempt = 2
           /\ NodeFails(call.site, "budget_exceeded", Traced(call, 1))
  <2>1. /\ RunOK(Traced(call, 1)) /\ Traced(call, 1).evidence = run.evidence
        /\ Traced(call, 1).path = run.path /\ billed' = Sent(Traced(call, 1).steps)
        /\ Sent(Traced(call, 1).steps) \in Nat
    BY <1>1, <1>3, <1>4, <1>6, TracedRun, TracedParts
  <2> QED
    BY <1>4, <1>5, <1>6, <2>1, NodeFailsMoves
<1>7. CASE /\ call.site \in {"grade", "check"} /\ call.attempt = 1
           /\ NodeFails(call.site, "budget_exceeded", run)
  <2>1. billed' = Sent(run.steps)
    BY <1>3, <1>4, <1>7
  <2> QED
    BY <1>1, <1>3, <1>4, <1>5, <1>7, <2>1, NodeFailsMoves
<1>8. CASE /\ ~(call.site \in {"grade", "check"}) \/ call.attempt = 1
           /\ End("error", "denied") /\ run' = run
  <2>1. Balance = 0 /\ Balance' = 0 /\ at' = "leave" /\ outcome'.type = "error"
    BY <1>8 DEF Balance, Calling, End
  <2>2. TraceInv'
    BY <1>3, <1>8, <2>1 DEF TraceInv
  <2>3. ~NodeStage' /\ ~Calling({"translate"})'
    BY <2>1 DEF NodeStage, Calling
  <2> QED
    BY <1>8, <2>1, <2>2, <2>3 DEF Moves
<1> QED
  BY <1>6, <1>7, <1>8 DEF CallDenied

\* A parsed output.
LEMMA CallOkMoves ==
  ASSUME ReviewInv, TraceInv, at = "sending", NEW c \in Calls, c.site = call.site, CallOk(c),
         c.site \in {"classify", "translate"} => billed' = billed,
         c.site \in {"grade", "check"} => billed' = Sent(run.steps) + c.attempt
  PROVE  Moves
<1>1. RunOK(run) /\ c.site \in Site /\ run.failure = None /\ c.attempt \in 0 .. 2
  BY DEF ReviewInv, Types, GoodRun, TraceInv, Calls
<1>2. run.failure # "node_error"
  BY <1>1, ReviewAssumption DEF Failure
<1>3. CASE c.site \in {"classify", "translate"}
  <2>1. /\ run' = run
        /\ at' \in {"route", "guidance", "leave", "search", "retrieve"}
        /\ at' = "search" => half = "retrieve"
        /\ at' = "retrieve" => half # "retrieve" /\ Calling({"translate"})
        /\ at' = "leave" => outcome'.type = "error"
    <3>1. CASE c.site = "classify"
      BY <3>1 DEF CallOk, Classified, Continue, End
    <3>2. CASE c.site = "translate"
      BY <3>2 DEF CallOk, Continue, Calling
    <3> QED
      BY <1>3, <3>1, <3>2
  <2>2. Balance = 0 /\ Balance' = 0
    BY <1>3, <2>1 DEF Balance, Calling
  <2>3. TraceInv'
    BY <1>1, <1>2, <1>3, <2>1, <2>2 DEF TraceInv
  <2>4. ~NodeStage' /\ ~Calling({"translate"})'
    BY <2>1 DEF NodeStage, Calling
  <2> QED
    BY <2>1, <2>3, <2>4 DEF Moves
<1>4. CASE c.site = "grade" /\ Graded(Traced(c, c.attempt))
  <2>1. PICK relevant \in SUBSET Ids(run.evidence) :
          /\ run' = [Traced(c, c.attempt) EXCEPT !.path = Append(@, "grade"),
                                                 !.relevant = relevant]
          /\ at' \in {"report", "check"}
    BY <1>4 DEF Graded, Continue
  <2> DEFINE t == Traced(c, c.attempt)
  <2>2. /\ RunOK(t) /\ t.evidence = run.evidence /\ t.path = run.path
        /\ t.failure = None /\ billed' = Sent(t.steps)
    BY <1>1, <1>4, TracedRun, TracedParts
  <2> HIDE DEF t
  <2>3. run' = [t EXCEPT !.path = Append(@, "grade"), !.relevant = relevant]
    BY <2>1 DEF t
  <2>4. /\ run'.evidence = run.evidence /\ run'.path = Append(run.path, "grade")
        /\ run'.failure = None /\ run'.steps = t.steps
    BY <2>2, <2>3 DEF RunOK
  <2>5. Balance' = 0
    BY <2>1 DEF Balance, Calling
  <2>6. Sent(t.steps) \in Nat
    BY <1>1, <2>2, TracedParts DEF RunOK, t
  <2>7. TraceInv'
    BY <2>1, <2>2, <2>4, <2>5, <2>6 DEF TraceInv
  <2>8. NodeStage /\ ~Calling({"translate"})' /\ "grade" \in Node \ {"gate"}
    BY <1>4, <2>1 DEF NodeStage, Calling, Node
  <2> QED
    BY <2>1, <2>4, <2>7, <2>8 DEF Moves
<1>5. CASE c.site = "check" /\ AwaitFragments(c, c.attempt, "ok") /\ run' = run
  <2>1. at' = "fragments" /\ call'.requests = c.attempt
    BY <1>5 DEF AwaitFragments, Continue, Calls
  <2>2. Balance' = c.attempt
    BY <2>1 DEF Balance, Calling
  <2>3. TraceInv'
    BY <1>1, <1>5, <2>1, <2>2 DEF TraceInv
  <2>4. NodeStage /\ ~Calling({"translate"})'
    BY <1>5, <2>1 DEF NodeStage, Calling
  <2> QED
    BY <1>5, <2>1, <2>3, <2>4 DEF Moves
<1> QED
  BY <1>1, <1>3, <1>4, <1>5 DEF CallOk, Site

\* What is billed and counted while a call is under way.
LEMMA CallBalance ==
  ASSUME ReviewInv, TraceInv, at \in {"reserve", "sending", "fragments"}
  PROVE  /\ run.failure = None /\ run.failure # "node_error" /\ Sent(run.steps) \in Nat
         /\ call.site \in {"grade", "check"} /\ at # "fragments" =>
              billed = Sent(run.steps) + (call.attempt - 1)
         /\ at = "fragments" => billed = Sent(run.steps) + call.requests
<1>1. RunOK(run) /\ run.failure = None
  BY CallFacts DEF TraceInv
<1>2. run.failure # "node_error"
  BY <1>1, ReviewAssumption DEF Failure
<1>3. run.steps \in Seq(Step)
  BY <1>1 DEF RunOK
<1>4. Sent(run.steps) \in Nat
  <2>1. [node |-> "grade", requests |-> 0] \in Step
    BY DEF Step, Site
  <2> QED
    BY <1>3, <2>1, SentAppend
<1> QED
  BY <1>1, <1>2, <1>4 DEF TraceInv, Balance, Calling

\* Preflight and reservation are such a step, whatever they come to.
LEMMA ReserveMoves ==
  ASSUME ReviewInv, TraceInv, Reserve
  PROVE  Moves
<1>1. at = "reserve" /\ UNCHANGED billed
  BY DEF Reserve
<1>2. /\ call \in Calls /\ call.attempt \in 1 .. 2 /\ call.site \in Site /\ billed \in Nat
  BY <1>1, CallFacts
<1>3. /\ run.failure # "node_error" /\ run.failure = None
      /\ call.site \in {"grade", "check"} => billed = Sent(run.steps) + (call.attempt - 1)
  BY <1>1, CallBalance
<1>4. ASSUME NEW status \in {"budget_exceeded", "error"}, CallFails(call, call.attempt - 1, status)
      PROVE  Moves
  <2>1. status \in Refusal /\ call.attempt - 1 \in 0 .. 2
    BY <1>2 DEF Refusal
  <2> QED
    BY <1>1, <1>2, <1>3, <1>4, <2>1, CallFailsMoves
<1>5. CASE at' = "sending" /\ UNCHANGED <<call, run>>
  <2>1. Balance' = Balance
    BY <1>1, <1>5 DEF Balance, Calling
  <2>2. TraceInv'
    BY <1>1, <1>3, <1>5, <2>1 DEF TraceInv
  <2>3. (NodeStage' => NodeStage) /\ (Calling({"translate"})' => Calling({"translate"}))
    BY <1>1, <1>5 DEF NodeStage, Calling
  <2> QED
    BY <1>5, <2>2, <2>3 DEF Moves
<1>6. CASE CallDenied
  BY <1>1, <1>6, CallDeniedMoves
<1> QED
  BY <1>4, <1>5, <1>6 DEF Reserve, Continue

\* So is the answer of the provider.
LEMMA RespondMoves ==
  ASSUME ReviewInv, TraceInv, Respond
  PROVE  Moves
<1>1. /\ at = "sending"
      /\ billed' = billed + (IF call.site \in {"grade", "check"} THEN 1 ELSE 0)
  BY DEF Respond
<1>2. /\ call \in Calls /\ call.site \in Site /\ call.attempt \in 1 .. 2 /\ billed \in Nat
      /\ call.in \in Nat /\ call.out \in Nat
  BY <1>1, CallFacts
<1>3. /\ run.failure # "node_error" /\ run.failure = None
      /\ call.site \in {"classify", "translate"} => billed' = billed
      /\ call.site \in {"grade", "check"} => billed' = Sent(run.steps) + call.attempt
  BY <1>1, <1>2, CallBalance
<1>4. {"error", "budget_exceeded", "schema_rejected"} \subseteq Refusal
  BY DEF Refusal
<1>5. CASE CallFails(call, call.attempt, "error")
  BY <1>1, <1>2, <1>3, <1>4, <1>5, CallFailsMoves
<1>6. ASSUME NEW in \in 1 .. MaxPrompt, NEW out \in 0 .. Remaining.out, NEW c,
             c = [call EXCEPT !.in = @ + in, !.out = @ + out], NEW over, NEW spent,
             \/ Answered(c, over, spent)
             \/ /\ call.attempt = 1 /\ call' = [c EXCEPT !.attempt = 2]
                /\ Continue("reserve") /\ run' = run
      PROVE  Moves
  <2>1. in \in Nat /\ out \in Nat
    BY ReviewAssumption
  <2>2. c \in Calls /\ c.site = call.site /\ c.attempt = call.attempt
    <3>1. call.in + in \in Nat /\ call.out + out \in Nat
      BY <1>2, <2>1
    <3> QED
      BY <1>2, <1>6, <3>1 DEF Calls
  <2>3. ASSUME NEW n \in 0 .. 2, n = c.attempt,
               NEW status \in {"error", "budget_exceeded", "schema_rejected"},
               CallFails(c, n, status)
        PROVE  Moves
    BY <1>1, <1>3, <1>4, <2>2, <2>3, CallFailsMoves
  <2>4. ASSUME CallOk(c) PROVE Moves
    BY <1>1, <1>3, <2>2, <2>4, CallOkMoves
  <2>5. c.attempt \in 0 .. 2 /\ 1 \in 0 .. 2 /\ 2 \in 0 .. 2
    BY <1>2, <2>2
  <2>6. CASE Answered(c, over, spent)
    <3>1. \/ CallFails(c, c.attempt, "error")
          \/ CallFails(c, c.attempt, "budget_exceeded")
          \/ CallOk(c)
          \/ c.attempt = 2 /\ CallFails(c, 2, "schema_rejected")
          \/ c.attempt = 1 /\ CallFails(c, 1, "budget_exceeded")
      BY <2>6 DEF Answered
    <3>2. CASE CallFails(c, c.attempt, "error")
      BY <2>3, <2>5, <3>2
    <3>3. CASE CallFails(c, c.attempt, "budget_exceeded")
      BY <2>3, <2>5, <3>3
    <3>4. CASE c.attempt = 2 /\ CallFails(c, 2, "schema_rejected")
      BY <2>3, <2>5, <3>4
    <3>5. CASE c.attempt = 1 /\ CallFails(c, 1, "budget_exceeded")
      BY <2>3, <2>5, <3>5
    <3> QED
      BY <2>4, <3>1, <3>2, <3>3, <3>4, <3>5
  <2>7. CASE /\ call.attempt = 1 /\ call' = [c EXCEPT !.attempt = 2]
             /\ Continue("reserve") /\ run' = run
    <3>1. call'.site = c.site /\ call'.attempt = 2 /\ at' = "reserve"
      BY <2>2, <2>7 DEF Calls, Continue
    <3>2. /\ call.site \in {"grade", "check"} => Balance' = 1
          /\ call.site \in {"classify", "translate"} => Balance = 0 /\ Balance' = 0
      BY <1>1, <2>2, <3>1 DEF Balance, Calling
    <3>3. TraceInv'
      BY <1>2, <1>3, <2>7, <3>1, <3>2 DEF TraceInv, Site
    <3>4. (NodeStage' => NodeStage) /\ (Calling({"translate"})' => Calling({"translate"}))
      BY <1>1, <2>2, <3>1 DEF NodeStage, Calling
    <3> QED
      BY <2>7, <3>1, <3>3, <3>4 DEF Moves
  <2> QED
    BY <1>6, <2>6, <2>7
<1>7. ASSUME ~CallFails(call, call.attempt, "error") PROVE Moves
  <2>1. PICK in \in 1 .. MaxPrompt, out \in 0 .. Remaining.out :
              LET c == [call EXCEPT !.in = @ + in, !.out = @ + out]
                  over == in > Remaining.in \/ in + out > Remaining.cost
                  spent == in >= Remaining.in \/ out >= Remaining.out \/ in + out >= Remaining.cost
              IN  \/ Answered(c, over, spent)
                  \/ /\ ~spent /\ call.attempt = 1
                     /\ call' = [c EXCEPT !.attempt = 2]
                     /\ Continue("reserve") /\ UNCHANGED <<intent, run>>
    BY <1>7 DEF Respond
  <2> DEFINE c == [call EXCEPT !.in = @ + in, !.out = @ + out]
             over == in > Remaining.in \/ in + out > Remaining.cost
             spent == in >= Remaining.in \/ out >= Remaining.out \/ in + out >= Remaining.cost
  <2>2. \/ Answered(c, over, spent)
        \/ /\ call.attempt = 1 /\ call' = [c EXCEPT !.attempt = 2]
           /\ Continue("reserve") /\ run' = run
    BY <2>1
  <2>3. c = [call EXCEPT !.in = @ + in, !.out = @ + out]
    OBVIOUS
  <2> HIDE DEF c, over, spent
  <2> QED
    BY <1>6, <2>2, <2>3
<1> QED
  BY <1>5, <1>7

\* A node may refuse to start, or begin its call.
LEMMA ModelNodeMoves ==
  ASSUME NEW node \in {"grade", "check"}, ReviewInv, TraceInv, ModelNode(node)
  PROVE  Moves
<1>1. at = node /\ UNCHANGED billed
  BY DEF ModelNode
<1>2. RunOK(run) /\ run.failure = None /\ billed \in Nat
  BY <1>1 DEF ReviewInv, Types, GoodRun, TraceInv
<1>3. run.failure # "node_error" /\ Balance = 0
  BY <1>1, <1>2, ReviewAssumption DEF Failure, Balance, Calling
<1>4. billed = Sent(run.steps)
  <2>1. run.steps \in Seq(Step) /\ [node |-> "grade", requests |-> 0] \in Step
    BY <1>2 DEF RunOK, Step, Site
  <2>2. Sent(run.steps) \in Nat
    BY <2>1, SentAppend
  <2> QED
    BY <1>3, <2>2 DEF TraceInv
<1>5. NodeStage /\ node \in Node \ {"gate"} /\ "budget_exceeded" \in Failure
  BY <1>1 DEF NodeStage, Node, Failure, Refusal
<1>6. CASE Blocked
  <2>1. /\ run'.evidence = run.evidence /\ run'.path = run.path /\ run'.steps = run.steps
        /\ run'.failure = "budget_exceeded" /\ at' = "persist"
    BY <1>2, <1>6 DEF Blocked, Continue, RunOK
  <2>2. Balance' = 0 /\ ~NodeStage' /\ ~Calling({"translate"})'
    BY <2>1 DEF Balance, NodeStage, Calling
  <2>3. TraceInv'
    BY <1>1, <1>2, <1>4, <2>1, <2>2 DEF TraceInv
  <2> QED
    BY <2>1, <2>2, <2>3 DEF Moves
<1>7. CASE NodeFails(node, "budget_exceeded", run)
  BY <1>1, <1>2, <1>4, <1>5, <1>7, NodeFailsMoves
<1>8. CASE BeginCall(node) /\ at' = "reserve" /\ run' = run
  <2>1. call'.site = node /\ call'.attempt = 1
    BY <1>8, FirstAttempt DEF Site
  <2>2. Balance' = 0 /\ ~Calling({"translate"})'
    BY <1>8, <2>1 DEF Balance, Calling
  <2>3. TraceInv'
    BY <1>1, <1>2, <1>4, <1>8, <2>2 DEF TraceInv
  <2> QED
    BY <1>5, <1>8, <2>2, <2>3 DEF Moves
<1> QED
  BY <1>6, <1>7, <1>8 DEF ModelNode, Continue

\* The result of check is a decision, a failure, or lost with its fragments.
LEMMA CheckNodeMoves ==
  ASSUME ReviewInv, TraceInv, CheckNode
  PROVE  Moves
<1>1. at = "fragments" /\ UNCHANGED billed
  BY DEF CheckNode
<1>2. /\ call \in Calls /\ RunOK(run) /\ billed \in Nat /\ call.requests \in 0 .. 2
      /\ call.status \in Refusal \cup {"ok"}
  BY <1>1, CallFacts DEF ReviewInv, CallInv, Calls
<1>3. /\ run.failure = None /\ Sent(run.steps) \in Nat
      /\ billed = Sent(run.steps) + call.requests
  BY <1>1, CallBalance
<1> DEFINE t == Traced(call, call.requests)
<1>4. /\ RunOK(t) /\ t.evidence = run.evidence /\ t.path = run.path /\ t.failure = None
      /\ billed' = Sent(t.steps) /\ Sent(t.steps) \in Nat
  BY <1>1, <1>2, <1>3, TracedRun, TracedParts
<1> HIDE DEF t
<1>5. "check" \in Node \ {"gate"} /\ NodeStage /\ Refusal \subseteq Failure
      /\ "node_error" \in Failure
  BY <1>1 DEF Node, NodeStage, Failure
<1>6. ASSUME at' = "report", NEW decision,
             run' = [t EXCEPT !.decision = decision, !.path = Append(@, "check")]
      PROVE  Moves
  <2>1. /\ run'.evidence = run.evidence /\ run'.path = Append(run.path, "check")
        /\ run'.failure = None /\ run'.steps = t.steps
    BY <1>4, <1>6 DEF RunOK
  <2>2. Balance' = 0 /\ ~Calling({"translate"})'
    BY <1>6 DEF Balance, Calling
  <2>3. TraceInv'
    BY <1>4, <1>6, <2>1, <2>2 DEF TraceInv
  <2> QED
    BY <1>5, <1>6, <2>1, <2>2, <2>3 DEF Moves
<1>7. CASE call.status # "ok" /\ NodeFails("check", call.status, t)
  <2>1. call.status \in Failure
    BY <1>2, <1>5, <1>7
  <2> QED
    BY <1>4, <1>5, <1>7, <2>1, NodeFailsMoves
<1>8. CASE NodeFails("check", "node_error", run)
  BY <1>2, <1>3, <1>5, <1>8, NodeFailsMoves
<1> QED
  BY <1>6, <1>7, <1>8 DEF CheckNode, Continue, t

\* The report closes the run.
LEMMA ReportNodeMoves ==
  ASSUME ReviewInv, TraceInv, ReportNode
  PROVE  Moves
<1>1. at = "report" /\ at' = "persist" /\ UNCHANGED billed
  BY DEF ReportNode, Continue
<1>2. RunOK(run) /\ run.failure = None
  BY <1>1 DEF ReviewInv, Types, GoodRun, TraceInv
<1>3. /\ run'.evidence = run.evidence /\ run'.path = Append(run.path, "report")
      /\ run'.failure = run.failure /\ run'.steps = run.steps
  BY <1>2 DEF ReportNode, RunOK
<1>4. Balance = 0 /\ Balance' = 0 /\ NodeStage /\ ~Calling({"translate"})'
  BY <1>1 DEF Balance, NodeStage, Calling
<1>5. TraceInv'
  BY <1>1, <1>3, <1>4 DEF TraceInv
<1>6. "report" \in Node \ {"gate"}
  BY DEF Node
<1> QED
  BY <1>1, <1>3, <1>4, <1>5, <1>6 DEF Moves

-----------------------------------------------------------------------------
(* The evidence is current, and as its reviewer chose it. *)

\* What a client may be given to select from.
Tokens == [candidates : Seq(Hit), live : BOOLEAN]

\* A task inside the gate.
Working == at \in {"path", "route", "search", "guidance", "verify", "load", "retrieve", "reserve",
                   "sending", "grade", "check", "fragments", "report", "persist"}

\* The types that Types leaves open.
WorldTypes ==
  /\ stored \in [Chunk -> Version \cup {Gone}]
  /\ updating \in BOOLEAN /\ reading \in BOOLEAN
  /\ token \in Tokens \cup {None}
  /\ half \in {None, "retrieve", "review"}
  /\ intent \in {None, "document_review", "service_help"}
  /\ client \in {"away", "reading", "gone"}
  /\ run.evidence \in Seq(Hit)

\* What a task is about at a stage of its request, and whether it holds the gate.
StageInv ==
  /\ Working => reading
  /\ Working \/ at = "enter" => half \in {"retrieve", "review"}
  /\ at \in {"idle", "admit", "enter"} => ~reading
  /\ at = "search" => half = "retrieve"
  /\ at \in {"verify", "load", "retrieve"} => half = "review"
  /\ Calling({"translate"}) /\ half = "review" => req.selection = None
  /\ at = "leave" => /\ outcome.type \in {"error", "report", "candidates"}
                     /\ outcome.type = "candidates" =>
                            outcome.what \in Seq(Hit) \cup {None} /\ half = "retrieve"

\* The evidence is current while the gate is held and as its reviewer chose it, and so
\* are the candidates it is about to be taken from.
EvidenceInv ==
  /\ reading => Current(run.evidence)
  /\ req # None /\ req.selection # None =>
       token \in Tokens /\ Honours(run.evidence, req.selection)
  /\ at = "retrieve" /\ req.selection # None =>
       SelectionFits(token.candidates, req.selection) /\ Current(token.candidates)

\* Together they are inductive: a token taken inside the gate may be stale when it is used, and
\* only the second reading of LoadSelected makes its candidates current again.
SnapshotInv == WorldTypes /\ StageInv /\ EvidenceInv

\* Nothing is current and honours every selection.
LEMMA NoEvidence ==
  /\ Fresh.evidence = <<>> /\ <<>> \in Seq(Hit) /\ Current(<<>>)
  /\ \A x : Honours(<<>>, x)
<1>1. <<>> \in Seq(Hit)
  OBVIOUS
<1> QED
  BY <1>1 DEF Fresh, Current, ToSet, Honours, Ids

\* A task that goes on inside the gate, or is about to leave it.
LEMMA GoesOn ==
  ASSUME SnapshotInv, Working, UNCHANGED <<stored, updating, reading, token, req, half, client>>,
         run'.evidence = run.evidence,
         intent' \in {None, "document_review", "service_help"},
         at' \in {"path", "route", "search", "guidance", "verify", "load", "retrieve", "reserve",
                  "sending", "grade", "check", "fragments", "report", "persist", "leave"},
         at' = "search" => half = "retrieve",
         at' \in {"verify", "load", "retrieve"} => half = "review",
         at' = "retrieve" => \/ req.selection = None
                             \/ SelectionFits(token.candidates, req.selection) /\ Current(token.candidates),
         Calling({"translate"})' => half # "review" \/ req.selection = None,
         at' = "leave" => /\ outcome'.type \in {"error", "report", "candidates"}
                          /\ outcome'.type = "candidates" =>
                               outcome'.what \in Seq(Hit) \cup {None} /\ half = "retrieve"
  PROVE  SnapshotInv'
<1>1. \A hits : Current(hits)' <=> Current(hits')
  BY DEF Current
<1>2. WorldTypes'
  BY DEF SnapshotInv, WorldTypes
<1>3. reading /\ half \in {"retrieve", "review"}
  BY DEF SnapshotInv, StageInv
<1>4. StageInv'
  BY <1>3 DEF StageInv, Working
<1>5. EvidenceInv'
  <2>1. reading => Current(run.evidence)
    BY DEF SnapshotInv, EvidenceInv
  <2>2. Current(run.evidence)' <=> Current(run.evidence)
    BY DEF Current
  <2>3. Current(token.candidates)' <=> Current(token.candidates)
    BY DEF Current
  <2>4. req # None /\ req.selection # None => token \in Tokens /\ Honours(run.evidence, req.selection)
    BY DEF SnapshotInv, EvidenceInv
  <2> QED
    BY <2>1, <2>2, <2>3, <2>4 DEF EvidenceInv
<1> QED
  BY <1>2, <1>4, <1>5 DEF SnapshotInv

\* The step of a call or a node is such a step.
LEMMA MovesGoOn ==
  ASSUME SnapshotInv, Moves, at \in {"reserve", "sending", "grade", "check", "fragments", "report"},
         UNCHANGED <<stored, updating, reading, token, req, half, client>>,
         intent' \in {None, "document_review", "service_help"}
  PROVE  SnapshotInv'
<1>1. Working /\ half \in {"retrieve", "review"}
  BY DEF SnapshotInv, Working, WorldTypes, StageInv
<1>2. at' = "retrieve" => half = "review" /\ req.selection = None
  BY <1>1 DEF Moves, SnapshotInv, StageInv
<1>3. Calling({"translate"})' => half # "review" \/ req.selection = None
  BY DEF Moves, SnapshotInv, StageInv
<1> QED
  BY <1>1, <1>2, <1>3, GoesOn DEF Moves

\* A step of a task before or after its nodes.
LEMMA PathGoesOn ==
  ASSUME ReviewInv, SnapshotInv,
         DecidePath \/ Route \/ SearchCandidates \/ Guide \/ Verify \/ LoadSelected \/ Persist
  PROVE  SnapshotInv'
<1>1. /\ stored \in [Chunk -> Version \cup {Gone}] /\ half \in {None, "retrieve", "review"}
      /\ intent \in {None, "document_review", "service_help"}
  BY DEF SnapshotInv, WorldTypes
<1>2. Working => half \in {"retrieve", "review"}
  BY DEF SnapshotInv, StageInv
<1>3. CASE DecidePath
  <2>1. /\ Working /\ UNCHANGED <<stored, updating, reading, token, req, half, client, run>>
        /\ intent' \in {None, "document_review", "service_help"}
        /\ \/ at' \in {"guidance", "route"}
           \/ at' = "leave" /\ outcome'.type = "error"
           \/ at' = "reserve" /\ call'.site = "classify"
    BY <1>1, <1>3 DEF DecidePath, Working, index, request, channel, Classified, Continue, End, BeginCall
  <2>2. ~Calling({"translate"})'
    BY <2>1 DEF Calling
  <2> QED
    BY <2>1, <2>2, GoesOn
<1>4. CASE Route
  <2>1. /\ Working /\ UNCHANGED <<stored, updating, reading, token, req, half, client, run, intent>>
        /\ \/ at' = "leave" /\ outcome'.type = "error"
           \/ at' = "verify" /\ half = "review"
           \/ ~(half = "review" /\ req.selection # None) /\ at' = "reserve"
           \/ ~(half = "review" /\ req.selection # None)
              /\ at' = IF half = "retrieve" THEN "search" ELSE "retrieve"
    BY <1>4 DEF Route, Working, index, request, channel, Continue, End
  <2>2. at' # "reserve" => ~Calling({"translate"})'
    BY <2>1 DEF Calling
  <2> QED
    BY <1>1, <1>2, <2>1, <2>2, GoesOn
<1>5. CASE SearchCandidates
  <2>1. /\ at = "search" /\ UNCHANGED <<stored, updating, reading, token, req, half, client, run, intent>>
        /\ at' = "leave"
        /\ \/ outcome'.type = "error"
           \/ outcome'.type = "candidates" /\ outcome'.what \in Rankings
    BY <1>5 DEF SearchCandidates, index, request, work, channel, End
  <2>2. outcome'.type = "candidates" => outcome'.what \in Seq(Hit)
    BY <1>1, <2>1, RankedHits
  <2>3. half = "retrieve" /\ Working
    BY <2>1 DEF SnapshotInv, StageInv, Working
  <2>4. ~Calling({"translate"})'
    BY <2>1 DEF Calling
  <2> QED
    BY <1>1, <2>1, <2>2, <2>3, <2>4, GoesOn
<1>6. CASE Guide
  <2>1. /\ at = "guidance" /\ UNCHANGED <<stored, updating, reading, token, req, half, client, intent>>
        /\ \/ /\ half = "retrieve" /\ at' = "leave" /\ outcome'.type = "candidates"
              /\ outcome'.what = None /\ run' = run
           \/ at' = "persist" /\ run' = [run EXCEPT !.path = <<"gate">>]
    BY <1>6 DEF Guide, index, request, channel, Continue, End
  <2>2. RunOK(run)
    BY DEF ReviewInv, Types, GoodRun
  <2>3. run'.evidence = run.evidence
    BY <2>1, <2>2 DEF RunOK
  <2>4. ~Calling({"translate"})' /\ Working
    BY <2>1 DEF Calling, Working
  <2> QED
    BY <1>1, <2>1, <2>3, <2>4, GoesOn
<1>7. CASE Verify
  <2>1. /\ Working /\ UNCHANGED <<stored, updating, reading, token, req, half, client, run, intent>>
        /\ \/ at' = "load" /\ at = "verify"
           \/ at' = "leave" /\ outcome'.type = "error"
    BY <1>7 DEF Verify, index, request, work, channel, Continue, End, Working
  <2>2. ~Calling({"translate"})'
    BY <2>1 DEF Calling
  <2>3. at = "verify" => half = "review"
    BY DEF SnapshotInv, StageInv
  <2> QED
    BY <1>1, <2>1, <2>2, <2>3, GoesOn
<1>8. CASE LoadSelected
  <2>1. /\ at = "load" /\ Working
        /\ UNCHANGED <<stored, updating, reading, token, req, half, client, run, intent>>
        /\ \/ /\ at' = "retrieve" /\ SelectionFits(token.candidates, req.selection)
              /\ Current(token.candidates)
           \/ at' = "leave" /\ outcome'.type = "error"
    BY <1>8 DEF LoadSelected, index, request, work, channel, Continue, End, Working, Current
  <2>2. ~Calling({"translate"})'
    BY <2>1 DEF Calling
  <2>3. half = "review"
    BY <2>1 DEF SnapshotInv, StageInv
  <2> QED
    BY <1>1, <2>1, <2>2, <2>3, GoesOn
<1>9. CASE Persist
  <2>1. /\ Working /\ UNCHANGED <<stored, updating, reading, token, req, half, client, run, intent>>
        /\ at' = "leave" /\ outcome'.type \in {"error", "report"}
    BY <1>9 DEF Persist, index, request, channel, End, Working
  <2>2. ~Calling({"translate"})'
    BY <2>1 DEF Calling
  <2> QED
    BY <1>1, <2>1, <2>2, GoesOn
<1> QED
  BY <1>3, <1>4, <1>5, <1>6, <1>7, <1>8, <1>9

\* Evidence taken from current hits is current, and it honours a selection it was taken by.
LEMMA TakenEvidence ==
  ASSUME NEW hits \in Seq(Hit), Current(hits)
  PROVE  /\ \A quota \in Nat : /\ Evidence(hits, quota) \in Seq(Hit)
                               /\ Current(Evidence(hits, quota))
         /\ \A x \in Selection : SelectionFits(hits, x) =>
              LET e == Evidence(Selected(hits, x), K)
              IN  e \in Seq(Hit) /\ Current(e) /\ Honours(e, x)
<1> DEFINE H == {h \in Hit : stored[h.id] = h.v}
<1>1. hits \in Seq(H)
  <2>1. \A i \in 1 .. Len(hits) : hits[i] \in H
    BY DEF Current, ToSet
  <2> QED
    BY <2>1
<1>2. \A e \in Seq(H) : e \in Seq(Hit) /\ Current(e)
  BY DEF Current, ToSet
<1> HIDE DEF H
<1>3. [h \in H |-> 0] \in [H -> Nat]
  OBVIOUS
<1>4. \A quota \in Nat : Evidence(hits, quota) \in Seq(H)
  BY <1>1, <1>3, EvidenceHits
<1>5. ASSUME NEW x \in Selection, SelectionFits(hits, x)
      PROVE  LET e == Evidence(Selected(hits, x), K) IN e \in Seq(H) /\ Honours(e, x)
  BY <1>1, <1>5, SelectedEvidence
<1> QED
  BY <1>2, <1>4, <1>5

\* The node that takes the evidence.
LEMMA RetrieveNodeSnapshot ==
  ASSUME ReviewInv, SnapshotInv, RetrieveNode
  PROVE  SnapshotInv'
<1>1. /\ at = "retrieve" /\ Working
      /\ UNCHANGED <<stored, updating, reading, token, req, half, client, intent>>
  BY DEF RetrieveNode, Working, index, request
<1>2. /\ intent \in {None, "document_review", "service_help"} /\ half = "review" /\ RunOK(run)
      /\ reading /\ req # None /\ req \in Requests
      /\ stored \in [Chunk -> Version \cup {Gone}]
      /\ req.selection # None => req.selection \in Selection
  <2>1. req \in Requests
    BY <1>1 DEF ReviewInv, Types, LifeInv
  <2>2. req.selection \in Selection \cup {None}
    BY <2>1 DEF Requests
  <2> QED
    BY <1>1, <2>1, <2>2, ReviewAssumption DEF SnapshotInv, WorldTypes, StageInv, ReviewInv, Types, GoodRun
<1>3. ASSUME run'.evidence = run.evidence, at' \in {"persist", "leave"},
             at' = "leave" => outcome'.type = "error"
      PROVE  SnapshotInv'
  <2>1. ~Calling({"translate"})'
    BY <1>3 DEF Calling
  <2> QED
    BY <1>1, <1>2, <1>3, <2>1, GoesOn
<1>4. CASE Blocked \/ (End("error", "denied") /\ UNCHANGED run)
  <2>1. run'.evidence = run.evidence
    BY <1>2, <1>4 DEF Blocked, RunOK
  <2> QED
    BY <1>3, <1>4, <2>1 DEF Blocked, Continue, End
<1>5. CASE NodeFails("retrieve", "node_error", run)
  <2>1. run'.evidence = run.evidence
    BY <1>2, <1>5 DEF NodeFails, RunOK
  <2> QED
    BY <1>3, <1>5, <2>1 DEF NodeFails, Continue
<1>6. ASSUME NEW e \in Seq(Hit), Current(e), req.selection # None => Honours(e, req.selection),
             run' = [run EXCEPT !.evidence = e, !.path = Append(@, "retrieve")],
             at' \in {"report", "grade"}
      PROVE  SnapshotInv'
  <2>1. run'.evidence = e
    BY <1>2, <1>6 DEF RunOK
  <2> DEFINE S == Seq(Hit)
  <2>2. WorldTypes'
    <3>1. e \in S
      BY <1>6
    <3> HIDE DEF S
    <3>2. run'.evidence \in S
      BY <2>1, <3>1
    <3> QED
      BY <1>1, <3>2 DEF SnapshotInv, WorldTypes, S
  <2>3. StageInv'
    BY <1>1, <1>2, <1>6 DEF StageInv, Working, Calling
  <2>4. Current(run.evidence)'
    BY <1>1, <1>6, <2>1 DEF Current
  <2>5. EvidenceInv'
    BY <1>1, <1>6, <2>1, <2>4 DEF SnapshotInv, EvidenceInv
  <2> QED
    BY <2>2, <2>3, <2>5 DEF SnapshotInv
<1> DEFINE Hits == IF req.selection = None THEN Rankings
                   ELSE {Selected(token.candidates, req.selection)}
           Takes(hits) ==
             LET evidence == Evidence(hits, IF req.selection = None THEN MaxPerDocument ELSE K)
             IN  /\ run' = [run EXCEPT !.evidence = evidence, !.path = Append(@, "retrieve")]
                 /\ Continue(IF evidence = <<>> THEN "report" ELSE "grade")
<1>7. ASSUME NEW hits \in Hits, Takes(hits)
      PROVE  SnapshotInv'
  <2> DEFINE e == Evidence(hits, IF req.selection = None THEN MaxPerDocument ELSE K)
  <2>1. /\ run' = [run EXCEPT !.evidence = e, !.path = Append(@, "retrieve")]
        /\ at' \in {"report", "grade"}
    BY <1>7 DEF Continue
  <2>2. CASE req.selection = None
    <3>1. hits \in Seq(Hit) /\ Current(hits)
      BY <1>2, <1>7, <2>2, RankedHits
    <3>2. MaxPerDocument \in Nat
      BY EvidenceAssumption
    <3>3. e \in Seq(Hit) /\ Current(e)
      BY <2>2, <3>1, <3>2, TakenEvidence
    <3> HIDE DEF e
    <3> QED
      BY <1>6, <2>1, <2>2, <3>3
  <2>3. CASE req.selection # None
    <3>1. /\ token.candidates \in Seq(Hit) /\ Current(token.candidates)
          /\ SelectionFits(token.candidates, req.selection)
      BY <1>1, <1>2, <2>3 DEF SnapshotInv, EvidenceInv, Tokens
    <3>2. e = Evidence(Selected(token.candidates, req.selection), K)
      BY <1>7, <2>3
    <3>3. e \in Seq(Hit) /\ Current(e) /\ Honours(e, req.selection)
      BY <1>2, <2>3, <3>1, <3>2, TakenEvidence
    <3> HIDE DEF e
    <3> QED
      BY <1>6, <2>1, <3>3
  <2> QED
    BY <2>2, <2>3
<1>8. \/ Blocked
      \/ End("error", "denied") /\ UNCHANGED run
      \/ NodeFails("retrieve", "node_error", run)
      \/ \E hits \in Hits : Takes(hits)
  BY Zenon DEF RetrieveNode
<1> HIDE DEF Hits, Takes
<1> QED
  BY <1>4, <1>5, <1>7, <1>8

\* A request that begins, passes the guard, or enters the gate has no evidence yet.
LEMMA EntersSnapshot ==
  ASSUME ReviewInv, SnapshotInv,
         Enter \/ Admit \/ \E k \in Kind, x \in Selection \cup {None} : Submit(k, x)
  PROVE  SnapshotInv'
<1>1. /\ at \in {"enter", "admit", "idle"} /\ (at = "idle" => req = None)
      /\ UNCHANGED <<stored, updating, intent, run>>
  BY DEF Enter, Admit, Submit, index, work
<1>2. run = Fresh /\ ~reading
  BY <1>1 DEF ReviewInv, EarlyInv, Early, SnapshotInv, StageInv
<1>3. Current(run.evidence)' /\ \A x : Honours(run'.evidence, x)
  BY <1>1, <1>2, NoEvidence DEF Current, ToSet
<1>4. /\ stored \in [Chunk -> Version \cup {Gone}] /\ updating \in BOOLEAN /\ reading \in BOOLEAN
      /\ token \in Tokens \cup {None} /\ half \in {None, "retrieve", "review"}
      /\ intent \in {None, "document_review", "service_help"}
      /\ client \in {"away", "reading", "gone"} /\ run.evidence \in Seq(Hit)
  BY DEF SnapshotInv, WorldTypes
<1>5. at # "idle" => req # None
  BY <1>1 DEF ReviewInv, LifeInv
<1>6. at = "enter" => half \in {"retrieve", "review"}
  BY DEF SnapshotInv, StageInv
<1>7. CASE Enter
  <2>1. /\ UNCHANGED <<token, req, half, client>>
        /\ \/ at' = "leave" /\ outcome'.type = "error" /\ reading' = reading
           \/ at' = "path" /\ reading' = TRUE
    BY <1>7 DEF Enter, request, channel, End, Continue
  <2>2. WorldTypes'
    BY <1>1, <1>4, <2>1 DEF WorldTypes
  <2>3. at = "enter"
    BY <1>7 DEF Enter
  <2>4. StageInv'
    BY <1>6, <2>1, <2>3 DEF StageInv, Working, Calling
  <2>5. EvidenceInv'
    BY <1>1, <1>3, <2>1 DEF SnapshotInv, EvidenceInv
  <2> QED
    BY <2>2, <2>4, <2>5 DEF SnapshotInv
<1>8. CASE Admit
  <2>1. /\ UNCHANGED <<reading, token, req>> /\ half' \in {None, "retrieve", "review"}
        /\ client' \in {"away", "reading", "gone"}
        /\ \/ at' = "leave" /\ outcome'.type = "error"
           \/ at' = "enter" /\ half' \in {"retrieve", "review"}
    BY <1>4, <1>8 DEF Admit, End, Continue
  <2>2. WorldTypes'
    BY <1>1, <1>4, <2>1 DEF WorldTypes
  <2>3. StageInv'
    BY <1>2, <2>1 DEF StageInv, Working, Calling
  <2>4. EvidenceInv'
    BY <1>1, <1>2, <1>3, <2>1 DEF SnapshotInv, EvidenceInv
  <2> QED
    BY <2>2, <2>3, <2>4 DEF SnapshotInv
<1>9. ASSUME NEW k \in Kind, NEW x \in Selection \cup {None}, Submit(k, x)
      PROVE  SnapshotInv'
  <2>1. /\ UNCHANGED <<reading, half, client>> /\ at' = "admit"
        /\ req' = [kind |-> k, selection |-> x]
        /\ token' = IF x = None THEN None ELSE token
        /\ x # None => token # None
    BY <1>9 DEF Submit, channel
  <2>2. WorldTypes'
    BY <1>1, <1>4, <2>1 DEF WorldTypes
  <2>3. StageInv'
    BY <1>2, <2>1 DEF StageInv, Working, Calling
  <2>4. EvidenceInv'
    BY <1>1, <1>2, <1>3, <1>4, <2>1 DEF EvidenceInv
  <2> QED
    BY <2>2, <2>3, <2>4 DEF SnapshotInv
<1> QED
  BY <1>7, <1>8, <1>9

\* A service call returns its candidates, or answers.
LEMMA LeaveSnapshot ==
  ASSUME ReviewInv, SnapshotInv, Leave
  PROVE  SnapshotInv'
<1>1. /\ at = "leave" /\ reading' = FALSE /\ UNCHANGED <<stored, updating, intent, run, client>>
      /\ at' \in {"enter", "idle"}
  BY DEF Leave, index, work, Continue
<1>2. /\ outcome.type = "candidates" => outcome.what \in Seq(Hit) \cup {None}
      /\ token \in Tokens \cup {None} /\ half \in {None, "retrieve", "review"}
  BY <1>1 DEF SnapshotInv, WorldTypes, StageInv
<1>3. /\ token' \in Tokens \cup {None}
      /\ token \in Tokens => token' \in Tokens
      /\ outcome.type = "candidates" /\ outcome.what # None => token' \in Tokens
  <2>1. CASE outcome.type = "candidates" /\ outcome.what # None
    <3>1. token' = [candidates |-> outcome.what, live |-> TRUE]
      BY <2>1 DEF Leave
    <3>2. token' \in Tokens
      BY <1>2, <2>1, <3>1 DEF Tokens
    <3> QED
      BY <3>2
  <2>2. CASE ~(outcome.type = "candidates" /\ outcome.what # None)
    <3>1. token' = token
      BY <2>2 DEF Leave
    <3> QED
      BY <1>2, <2>2, <3>1
  <2> QED
    BY <2>1, <2>2
<1>4. /\ half' \in {None, "retrieve", "review"}
      /\ at' = "enter" => half' = "review" /\ outcome.type = "candidates"
      /\ \/ req' = req
         \/ /\ outcome.type = "candidates" /\ outcome.what # None
            /\ req' = [req EXCEPT !.selection = [pinned |-> <<>>, excluded |-> {}]]
  BY <1>2 DEF Leave, Continue
<1>5. outcome.type = "candidates" => run = Fresh
  BY <1>1 DEF ReviewInv, EarlyInv, Early
<1>6. WorldTypes'
  BY <1>1, <1>3, <1>4 DEF SnapshotInv, WorldTypes
<1>7. StageInv'
  BY <1>1, <1>4 DEF StageInv, Working, Calling
<1>8. req' # None /\ req'.selection # None =>
        token' \in Tokens /\ Honours(run'.evidence, req'.selection)
  <2>1. CASE req' = req
    BY <1>1, <1>3, <2>1 DEF SnapshotInv, EvidenceInv
  <2>2. CASE outcome.type = "candidates" /\ outcome.what # None
    BY <1>1, <1>3, <1>5, <2>2, NoEvidence
  <2> QED
    BY <1>4, <2>1, <2>2
<1>9. EvidenceInv'
  BY <1>1, <1>8 DEF EvidenceInv
<1> QED
  BY <1>6, <1>7, <1>9 DEF SnapshotInv

\* The end of a request, and what the world does to one under way.
LEMMA WorldSnapshot ==
  ASSUME ReviewInv, SnapshotInv, Delivered \/ Unwind \/ World \/ UNCHANGED vars,
         Delivered => at = "idle"
  PROVE  SnapshotInv'
<1>1. /\ stored \in [Chunk -> Version \cup {Gone}] /\ updating \in BOOLEAN /\ reading \in BOOLEAN
      /\ token \in Tokens \cup {None} /\ half \in {None, "retrieve", "review"}
      /\ intent \in {None, "document_review", "service_help"}
      /\ client \in {"away", "reading", "gone"} /\ run.evidence \in Seq(Hit)
      /\ at \in {"idle", "admit", "enter"} => ~reading
  BY DEF SnapshotInv, WorldTypes, StageInv
<1>2. ASSUME NEW next \in {"idle", "unwind"}, NEW connection \in {"away", "gone"},
             Drop(next, connection), reading' \in BOOLEAN, next = "idle" => ~reading',
             UNCHANGED <<stored, updating, token>>
      PROVE  SnapshotInv'
  <2>1. /\ at' = next /\ req' = None /\ half' = None /\ intent' = None /\ run' = Fresh
        /\ client' = connection
    BY <1>2 DEF Drop
  <2>2. WorldTypes'
    BY <1>1, <1>2, <2>1, NoEvidence DEF WorldTypes
  <2>3. StageInv'
    BY <1>2, <2>1 DEF StageInv, Working, Calling
  <2>4. Current(run.evidence)'
    BY <2>1, NoEvidence DEF Current, ToSet
  <2>5. EvidenceInv'
    BY <1>2, <2>1, <2>4 DEF EvidenceInv
  <2> QED
    BY <2>2, <2>3, <2>5 DEF SnapshotInv
<1>3. CASE Delivered
  <2>1. Drop("idle", "away") /\ UNCHANGED <<stored, updating, reading, token>>
    BY <1>3 DEF Delivered, index
  <2>2. ~reading
    BY <1>1, <1>3
  <2> QED
    BY <1>1, <1>2, <2>1, <2>2
<1>4. CASE Unwind
  BY <1>1, <1>2, <1>4 DEF Unwind, index
<1>5. CASE Disconnect
  BY <1>1, <1>2, <1>5 DEF Disconnect, index
<1>6. CASE BeginUpdate \/ EndUpdate \/ TokenLapses \/ UNCHANGED vars
  <2>1. /\ UNCHANGED <<reading, req, half, at, intent, call, run, outcome, client>>
        /\ updating' \in BOOLEAN /\ stored' \in [Chunk -> Version \cup {Gone}]
        /\ ~reading \/ stored' = stored
    BY <1>1, <1>6 DEF BeginUpdate, EndUpdate, TokenLapses, vars, index, request, work, channel
  <2>2. /\ token' \in Tokens \cup {None}
        /\ token \in Tokens => token' \in Tokens
        /\ token \in Tokens => token'.candidates = token.candidates
    <3>1. CASE TokenLapses
      BY <1>1, <3>1 DEF TokenLapses, Tokens
    <3>2. CASE UNCHANGED token
      BY <1>1, <3>2
    <3> QED
      BY <1>6, <3>1, <3>2 DEF BeginUpdate, EndUpdate, vars, request
  <2>3. WorldTypes'
    BY <1>1, <2>1, <2>2 DEF WorldTypes
  <2>4. StageInv'
    BY <2>1 DEF SnapshotInv, StageInv, Working, Calling
  <2>5. EvidenceInv'
    <3>1. reading => /\ Current(run.evidence)' <=> Current(run.evidence)
                     /\ token \in Tokens => (Current(token.candidates)' <=> Current(token.candidates))
      BY <2>1, <2>2 DEF Current
    <3>2. at = "retrieve" => reading /\ req # None
      BY DEF SnapshotInv, StageInv, Working, ReviewInv, LifeInv
    <3> QED
      BY <2>1, <2>2, <3>1, <3>2 DEF SnapshotInv, EvidenceInv
  <2> QED
    BY <2>3, <2>4, <2>5 DEF SnapshotInv
<1> QED
  BY <1>3, <1>4, <1>5, <1>6 DEF World

-----------------------------------------------------------------------------
(* The stream tells what ran. *)

\* What may be on the queue of a stream.
Events == [event : {"candidates", "node", "report", "error", "end"}, node : Node \cup {None}]

\* The events of a stream: perhaps the candidates, then the nodes, then an end if it ended.
Tells(ev, n, nodes, tail) ==
  /\ Len(ev) = n + Len(nodes) + Len(tail)
  /\ \A i \in 1 .. n : ev[i] = Event("candidates")
  /\ \A i \in 1 .. Len(nodes) : ev[n + i] = [event |-> "node", node |-> nodes[i]]
  /\ \A i \in 1 .. Len(tail) : ev[n + Len(nodes) + i] = tail[i]

\* Service guidance has no node to tell of.
Told == IF run.path = <<"gate">> THEN <<>> ELSE run.path

\* What a stream has told so far is the path of the run, after the candidates if the review
\* already began, and before a terminal event and the end if the request is over.
StreamInv ==
  /\ events \in Seq(Events)
  /\ client = "reading" => req # None /\ req.kind = "stream"
  /\ req = None \/ req.kind # "stream" \/ at = "admit" => events = <<>>
  /\ req # None /\ req.kind = "stream" =>
       \E n \in {0, 1} :
          /\ n = 1 => half = "review"
          /\ \/ Tells(events, n, Told, <<>>)
             \/ at = "idle" /\ Tells(events, n, Told, Closing("error"))
             \/ at = "idle" /\ record # None /\ Tells(events, n, Told, Closing("report"))
  /\ at = "leave" /\ outcome.type = "report" => record # None
  /\ NodeStage => run.path # <<>> /\ run.path[1] = "retrieve"

\* Nothing told, candidates offered, one more node, and the end.
LEMMA TellsStart ==
  /\ Tells(<<>>, 0, <<>>, <<>>)
  /\ Tells(<<Event("candidates")>>, 1, <<>>, <<>>)
BY DEF Tells

\* A node more is told of.
LEMMA TellsNode ==
  ASSUME NEW ev \in Seq(Events), NEW n \in {0, 1}, NEW nodes \in Seq(Node), NEW m \in Node,
         Tells(ev, n, nodes, <<>>)
  PROVE  /\ Append(ev, [event |-> "node", node |-> m]) \in Seq(Events)
         /\ Tells(Append(ev, [event |-> "node", node |-> m]), n, Append(nodes, m), <<>>)
<1> DEFINE e == [event |-> "node", node |-> m]
           k == Len(nodes)
<1>1. e \in Events
  BY DEF Events
<1>2. Len(ev) = n + k /\ k \in Nat /\ n \in Nat
  BY DEF Tells
<1>3. /\ \A i \in 1 .. n : ev[i] = Event("candidates")
      /\ \A i \in 1 .. k : ev[n + i] = [event |-> "node", node |-> nodes[i]]
  BY DEF Tells
<1> HIDE DEF e
<1>4. PICK a \in Seq(Events) : /\ a = Append(ev, e) /\ Len(a) = Len(ev) + 1
  BY <1>1, AppendProperties
<1>5. /\ a[Len(ev) + 1] = e /\ \A i \in 1 .. Len(ev) : a[i] = ev[i]
  BY <1>1, <1>4, AppendProperties
<1>6. PICK b \in Seq(Node) : b = Append(nodes, m) /\ Len(b) = k + 1
  BY AppendProperties
<1>7. b[k + 1] = m /\ \A i \in 1 .. k : b[i] = nodes[i]
  BY <1>6, AppendProperties
<1>8. \A i \in 1 .. n : a[i] = Event("candidates")
  BY <1>2, <1>3, <1>5
<1>9. \A i \in 1 .. (k + 1) : a[n + i] = [event |-> "node", node |-> b[i]]
  <2> SUFFICES ASSUME NEW i \in 1 .. (k + 1) PROVE a[n + i] = [event |-> "node", node |-> b[i]]
    OBVIOUS
  <2>1. CASE i = k + 1
    BY <1>2, <1>5, <1>7, <2>1 DEF e
  <2>2. CASE i \in 1 .. k
    <3>1. n + i \in 1 .. Len(ev)
      BY <1>2, <2>2
    <3> QED
      BY <1>3, <1>5, <1>7, <2>2, <3>1
  <2> QED
    BY <1>2, <2>1, <2>2
<1>10. Tells(a, n, b, <<>>)
  <2>1. Len(a) = n + Len(b) + Len(<<>>) /\ Len(b) = k + 1
    BY <1>2, <1>4, <1>6
  <2> QED
    BY <1>8, <1>9, <2>1 DEF Tells
<1> QED
  BY <1>4, <1>6, <1>10 DEF e

\* A terminal event and the end are told of.
LEMMA TellsEnd ==
  ASSUME NEW ev \in Seq(Events), NEW n \in {0, 1}, NEW nodes \in Seq(Node),
         NEW type \in {"error", "report"}, Tells(ev, n, nodes, <<>>)
  PROVE  /\ ev \o Closing(type) \in Seq(Events)
         /\ Tells(ev \o Closing(type), n, nodes, Closing(type))
<1> DEFINE c == Closing(type)
           k == Len(nodes)
<1>1. c \in Seq(Events) /\ Len(c) = 2
  <2>1. Event(type) \in Events /\ Event("end") \in Events
    BY DEF Event, Events
  <2> HIDE DEF Events
  <2> QED
    BY <2>1 DEF Closing
<1>2. Len(ev) = n + k /\ k \in Nat /\ n \in Nat
  BY DEF Tells
<1>3. /\ \A i \in 1 .. n : ev[i] = Event("candidates")
      /\ \A i \in 1 .. k : ev[n + i] = [event |-> "node", node |-> nodes[i]]
  BY DEF Tells
<1> HIDE DEF c
<1>4. /\ ev \o c \in Seq(Events) /\ Len(ev \o c) = Len(ev) + 2
      /\ \A i \in 1 .. Len(ev) + 2 : (ev \o c)[i] = IF i <= Len(ev) THEN ev[i] ELSE c[i - Len(ev)]
  <2>1. /\ ev \o c \in Seq(Events) /\ Len(ev \o c) = Len(ev) + Len(c)
        /\ \A i \in 1 .. Len(ev) + Len(c) :
             (ev \o c)[i] = IF i <= Len(ev) THEN ev[i] ELSE c[i - Len(ev)]
    BY <1>1, ConcatProperties
  <2> QED
    BY <1>1, <2>1
<1> DEFINE a == ev \o c
<1> HIDE DEF a
<1>5. \A i \in 1 .. n : a[i] = Event("candidates")
  BY <1>2, <1>3, <1>4 DEF a
<1>6. \A i \in 1 .. k : a[n + i] = [event |-> "node", node |-> nodes[i]]
  <2> SUFFICES ASSUME NEW i \in 1 .. k PROVE a[n + i] = [event |-> "node", node |-> nodes[i]]
    OBVIOUS
  <2>1. n + i \in 1 .. Len(ev) + 2 /\ n + i <= Len(ev)
    BY <1>2
  <2> QED
    BY <1>3, <1>4, <2>1 DEF a
<1>7. \A i \in 1 .. 2 : a[n + k + i] = c[i]
  <2> SUFFICES ASSUME NEW i \in 1 .. 2 PROVE a[n + k + i] = c[i]
    OBVIOUS
  <2>1. n + k + i \in 1 .. Len(ev) + 2 /\ ~(n + k + i <= Len(ev)) /\ (n + k + i) - Len(ev) = i
    BY <1>2
  <2> QED
    BY <1>4, <2>1 DEF a
<1>8. Tells(a, n, nodes, c)
  BY <1>1, <1>2, <1>4, <1>5, <1>6, <1>7 DEF Tells, a
<1> QED
  BY <1>4, <1>8 DEF a, c

\* A step between two awaits that tells nothing.
LEMMA Quiet ==
  ASSUME StreamInv, at \notin {"idle", "admit"}, at' \notin {"idle", "admit"},
         UNCHANGED <<events, req, client, half>>, Told' = Told, ~NodeStage',
         at' = "leave" /\ outcome'.type = "report" => record' # None
  PROVE  StreamInv'
<1>1. req # None /\ req.kind = "stream" =>
        \E n \in {0, 1} : (n = 1 => half = "review") /\ Tells(events, n, Told, <<>>)
  BY DEF StreamInv
<1> QED
  BY <1>1 DEF StreamInv

\* A node that ran is told, once.
LEMMA NodeTold ==
  ASSUME ReviewInv, StreamInv, at \notin {"idle", "leave", "unwind", "admit"}, at' \notin {"idle", "admit"},
         UNCHANGED <<req, client, half>>, Notify, run'.path \in Seq(Node),
         run.path # <<"gate">>, run'.path # <<"gate">>,
         \/ run'.path = run.path
         \/ \E n \in Node : run'.path = Append(run.path, n),
         NodeStage' => run'.path # <<>> /\ run'.path[1] = "retrieve",
         at' = "leave" => outcome'.type = "error"
  PROVE  StreamInv'
<1>1. run.path \in Seq(Node) /\ req # None
  BY DEF ReviewInv, Types, GoodRun, RunOK, LifeInv
<1>2. Told = run.path /\ Told' = run'.path
  BY DEF Told
<1>3. /\ events \in Seq(Events) /\ (client = "reading" => req.kind = "stream")
      /\ req.kind # "stream" => events = <<>>
  BY <1>1 DEF StreamInv
<1>4. CASE req.kind # "stream"
  <2>1. events' = events
    BY <1>4 DEF Notify
  <2> QED
    BY <1>1, <1>3, <1>4, <2>1 DEF StreamInv
<1>5. CASE req.kind = "stream"
  <2>1. PICK n \in {0, 1} : (n = 1 => half = "review") /\ Tells(events, n, run.path, <<>>)
    BY <1>1, <1>2, <1>5 DEF StreamInv
  <2>2. events' \in Seq(Events) /\ Tells(events', n, run'.path, <<>>)
    <3>1. CASE run'.path = run.path
      BY <1>3, <2>1, <3>1 DEF Notify
    <3>2. ASSUME NEW m \in Node, run'.path = Append(run.path, m)
          PROVE  events' \in Seq(Events) /\ Tells(events', n, run'.path, <<>>)
      <4>1. /\ Len(run'.path) = Len(run.path) + 1 /\ run'.path[Len(run.path) + 1] = m
            /\ Len(run.path) \in Nat
        BY <1>1, <3>2, AppendProperties
      <4>2. Last(run'.path) = m /\ run'.path # run.path
        BY <4>1 DEF Last
      <4>3. events' = Append(events, [event |-> "node", node |-> m])
        BY <1>5, <4>2 DEF Notify
      <4> QED
        BY <1>1, <1>3, <2>1, <3>2, <4>3, TellsNode
    <3> QED
      BY <3>1, <3>2
  <2> QED
    BY <1>1, <1>2, <1>3, <1>5, <2>1, <2>2 DEF StreamInv
<1> QED
  BY <1>4, <1>5

\* The step of a call or of a node tells of the node that it ends, if it ends one.
LEMMA MovesTold ==
  ASSUME ReviewInv, ReviewInv', StreamInv, Moves, Notify,
         at \in {"reserve", "sending", "grade", "check", "fragments", "report"},
         UNCHANGED <<req, half, client>>
  PROVE  StreamInv'
<1>1. /\ run.path \in Seq(Node) /\ run'.path \in Seq(Node)
  BY DEF ReviewInv, Types, GoodRun, RunOK
<1>2. /\ at' \notin {"idle", "admit"} /\ (at' = "leave" => outcome'.type = "error")
      /\ (NodeStage' => NodeStage)
      /\ \/ run'.path = run.path
         \/ \E n \in Node : run'.path = Append(run.path, n) /\ NodeStage
  BY DEF Moves
<1>3. CASE NodeStage
  <2>1. run.path # <<>> /\ run.path[1] = "retrieve"
    BY <1>3 DEF StreamInv
  <2>2. Len(run.path) \in Nat /\ Len(run.path) >= 1
    BY <1>1, <2>1, EmptySeq
  <2>3. run'.path # <<>> /\ run'.path[1] = "retrieve"
    <3>1. CASE run'.path = run.path
      BY <2>1, <3>1
    <3>2. ASSUME NEW n \in Node, run'.path = Append(run.path, n)
          PROVE  run'.path # <<>> /\ run'.path[1] = "retrieve"
      <4>1. /\ Len(run'.path) = Len(run.path) + 1
            /\ \A i \in 1 .. Len(run.path) : run'.path[i] = run.path[i]
        BY <1>1, <3>2, AppendProperties
      <4> QED
        BY <2>1, <2>2, <4>1
    <3> QED
      BY <1>2, <3>1, <3>2
  <2>4. run.path # <<"gate">> /\ run'.path # <<"gate">>
    BY <2>1, <2>3
  <2> QED
    BY <1>1, <1>2, <2>3, <2>4, NodeTold
<1>4. CASE ~NodeStage
  <2>1. Early
    <3>1. at \in {"reserve", "sending"} /\ call.site \in Site
      <4>1. at \in {"reserve", "sending"}
        BY <1>4 DEF NodeStage
      <4> QED
        BY <4>1, CallFacts
    <3> QED
      BY <1>4, <3>1 DEF NodeStage, Calling, Site, Early
  <2>2. run.path = <<>> /\ run'.path = run.path /\ ~NodeStage'
    BY <1>2, <1>4, <2>1 DEF ReviewInv, EarlyInv, Fresh
  <2>3. run.path # <<"gate">> /\ run'.path # <<"gate">>
    BY <2>2
  <2> QED
    BY <1>1, <1>2, <2>2, <2>3, NodeTold
<1> QED
  BY <1>3, <1>4

\* What the first node of a review makes of its fresh run.
LEMMA RetrievedParts ==
  ASSUME ReviewInv, RetrieveNode
  PROVE  /\ run = Fresh /\ billed' = 0 /\ Notify /\ UNCHANGED <<req, half, client>>
         /\ at' \in {"persist", "leave", "report", "grade"}
         /\ at' = "leave" => outcome'.type = "error"
         /\ at' \in {"report", "grade"} => run'.path = Append(run.path, "retrieve")
         /\ at' \in {"report", "grade"} => run'.failure = None
         /\ run'.path = run.path \/ run'.path = Append(run.path, "retrieve")
         /\ run'.steps = <<>>
<1>1. /\ at = "retrieve" /\ Notify /\ billed' = billed /\ UNCHANGED <<req, half, client>>
  BY DEF RetrieveNode, request
<1>2. run = Fresh /\ billed = 0
  BY <1>1 DEF ReviewInv, EarlyInv, Early
<1> DEFINE Hits == IF req.selection = None THEN Rankings
                   ELSE {Selected(token.candidates, req.selection)}
           Takes(hits) ==
             LET evidence == Evidence(hits, IF req.selection = None THEN MaxPerDocument ELSE K)
             IN  /\ run' = [run EXCEPT !.evidence = evidence, !.path = Append(@, "retrieve")]
                 /\ Continue(IF evidence = <<>> THEN "report" ELSE "grade")
<1>3. \/ Blocked
      \/ End("error", "denied") /\ UNCHANGED run
      \/ NodeFails("retrieve", "node_error", run)
      \/ \E hits \in Hits : Takes(hits)
  BY Zenon DEF RetrieveNode
<1>4. /\ Fresh.path = <<>> /\ Fresh.steps = <<>> /\ Fresh.failure = None
  BY DEF Fresh
<1>5. ASSUME Blocked \/ (End("error", "denied") /\ UNCHANGED run) \/ NodeFails("retrieve", "node_error", run)
      PROVE  /\ at' \in {"persist", "leave"} /\ (at' = "leave" => outcome'.type = "error")
             /\ run'.path = run.path \/ run'.path = Append(run.path, "retrieve")
             /\ run'.steps = <<>>
  <2>1. CASE Blocked
    BY <1>2, <2>1 DEF Blocked, Continue, Fresh
  <2>2. CASE End("error", "denied") /\ UNCHANGED run
    BY <1>2, <1>4, <2>2 DEF End
  <2>3. CASE NodeFails("retrieve", "node_error", run)
    BY <1>2, <2>3 DEF NodeFails, Continue, Fresh
  <2> QED
    BY <1>5, <2>1, <2>2, <2>3
<1>6. ASSUME NEW e, run' = [run EXCEPT !.evidence = e, !.path = Append(@, "retrieve")],
             at' \in {"report", "grade"}
      PROVE  run'.path = Append(run.path, "retrieve") /\ run'.failure = None /\ run'.steps = <<>>
  BY <1>2, <1>6 DEF Fresh
<1>7. ASSUME NEW hits \in Hits, Takes(hits)
      PROVE  /\ at' \in {"report", "grade"} /\ run'.path = Append(run.path, "retrieve")
             /\ run'.failure = None /\ run'.steps = <<>>
  <2>1. at' \in {"report", "grade"}
    BY <1>7 DEF Continue
  <2> QED
    BY <1>6, <1>7, <2>1
<1> HIDE DEF Hits, Takes
<1> QED
  BY <1>1, <1>2, <1>3, <1>5, <1>7

\* The first node is told of.
LEMMA RetrieveTold ==
  ASSUME ReviewInv, ReviewInv', StreamInv, RetrieveNode
  PROVE  StreamInv'
<1>1. /\ run'.path \in Seq(Node) /\ at = "retrieve"
  BY DEF ReviewInv, Types, GoodRun, RunOK, RetrieveNode
<1>2. /\ Notify /\ UNCHANGED <<req, half, client>> /\ run.path = <<>>
      /\ at' \in {"persist", "leave", "report", "grade"}
      /\ at' = "leave" => outcome'.type = "error"
      /\ at' \in {"report", "grade"} => run'.path = Append(run.path, "retrieve")
      /\ run'.path = run.path \/ run'.path = Append(run.path, "retrieve")
  BY RetrievedParts DEF Fresh
<1>3. Append(<<>>, "retrieve") = <<"retrieve">> /\ "retrieve" \in Node
  BY DEF Node
<1>4. run.path # <<"gate">> /\ run'.path # <<"gate">>
  BY <1>2, <1>3
<1>5. NodeStage' => at' \in {"report", "grade"}
  BY <1>2 DEF NodeStage, Calling
<1>6. NodeStage' => run'.path # <<>> /\ run'.path[1] = "retrieve"
  <2>1. NodeStage' => run'.path = <<"retrieve">>
    BY <1>2, <1>3, <1>5
  <2>2. <<"retrieve">> # <<>> /\ <<"retrieve">>[1] = "retrieve"
    OBVIOUS
  <2> QED
    BY <2>1, <2>2
<1>7. run'.path = run.path \/ \E n \in Node : run'.path = Append(run.path, n)
  BY <1>2, <1>3
<1> QED
  BY <1>1, <1>2, <1>4, <1>6, <1>7, NodeTold

\* The steps before and after the nodes tell nothing.
LEMMA PathTold ==
  ASSUME ReviewInv, StreamInv,
         Enter \/ DecidePath \/ Route \/ SearchCandidates \/ Guide \/ Verify \/ LoadSelected \/ Persist
  PROVE  StreamInv'
<1>1. CASE Enter \/ DecidePath \/ Route \/ SearchCandidates \/ Verify \/ LoadSelected
  <2>1. /\ at \in {"enter", "path", "route", "search", "verify", "load"}
        /\ UNCHANGED <<events, req, client, half, run>>
        /\ at' \in {"path", "route", "guidance", "reserve", "verify", "search", "load", "retrieve", "leave"}
        /\ at' = "reserve" => call'.site \in {"classify", "translate"}
        /\ at' = "leave" => outcome'.type \in {"error", "candidates"}
    <3>1. CASE Enter
      BY <3>1 DEF Enter, request, work, channel, End, Continue
    <3>2. CASE DecidePath
      BY <3>2 DEF DecidePath, request, channel, Classified, End, Continue, BeginCall
    <3>3. CASE Route
      BY <3>3 DEF Route, request, channel, End, Continue, BeginCall
    <3>4. CASE SearchCandidates
      BY <3>4 DEF SearchCandidates, request, work, channel, End, Continue
    <3>5. CASE Verify
      BY <3>5 DEF Verify, request, work, channel, End, Continue
    <3>6. CASE LoadSelected
      BY <3>6 DEF LoadSelected, request, work, channel, End, Continue
    <3> QED
      BY <1>1, <3>1, <3>2, <3>3, <3>4, <3>5, <3>6
  <2>2. Told' = Told /\ ~NodeStage'
    BY <2>1 DEF Told, NodeStage, Calling
  <2> QED
    BY <2>1, <2>2, Quiet
<1>2. CASE Guide
  <2>1. /\ at = "guidance" /\ UNCHANGED <<events, req, client, half>>
        /\ \/ run' = run /\ at' = "leave" /\ outcome'.type = "candidates"
           \/ run' = [run EXCEPT !.path = <<"gate">>] /\ at' = "persist"
    BY <1>2 DEF Guide, request, channel, End, Continue
  <2>2. run = Fresh
    BY <2>1 DEF ReviewInv, EarlyInv, Early
  <2>3. run'.path \in {<<>>, <<"gate">>} /\ run.path = <<>>
    BY <2>1, <2>2 DEF Fresh
  <2>4. Told' = Told /\ ~NodeStage'
    BY <2>1, <2>3 DEF Told, NodeStage, Calling
  <2> QED
    BY <2>1, <2>4, Quiet
<1>3. CASE Persist
  <2>1. /\ at = "persist" /\ at' = "leave" /\ UNCHANGED <<events, req, client, half, run>>
        /\ outcome'.type = "report" => record' = Stored
    BY <1>3 DEF Persist, request, channel, End
  <2>2. Stored # None
    BY StoredIsRecord DEF ReviewInv, Types, GoodRun
  <2>3. Told' = Told /\ ~NodeStage'
    BY <2>1 DEF Told, NodeStage, Calling
  <2> QED
    BY <2>1, <2>2, <2>3, Quiet
<1> QED
  BY <1>1, <1>2, <1>3

\* A stream begins with nothing told.
LEMMA BeginsTold ==
  ASSUME ReviewInv, StreamInv,
         Admit \/ \E k \in Kind, x \in Selection \cup {None} : Submit(k, x)
  PROVE  StreamInv'
<1>1. /\ at \in {"idle", "admit"} /\ at' \in {"admit", "leave", "enter"} /\ UNCHANGED <<events, run>>
      /\ at = "idle" => req = None
      /\ at' = "leave" => outcome'.type = "error"
  BY DEF Admit, Submit, work, channel, End, Continue
<1>2. /\ events = <<>> /\ run = Fresh
  BY <1>1 DEF StreamInv, ReviewInv, EarlyInv, Early
<1>3. client' = "reading" => req' # None /\ req'.kind = "stream"
  <2>1. CASE Admit
    BY <2>1 DEF Admit, StreamInv, ReviewInv, LifeInv
  <2>2. ASSUME NEW k \in Kind, NEW x \in Selection \cup {None}, Submit(k, x)
        PROVE  client' # "reading"
    BY <2>2 DEF Submit, channel, StreamInv
  <2> QED
    BY <2>1, <2>2
<1>4. Told' = <<>> /\ ~NodeStage'
  BY <1>1, <1>2 DEF Told, NodeStage, Calling, Fresh
<1>5. Tells(events', 0, Told', <<>>) /\ events' \in Seq(Events)
  <2>1. <<>> \in Seq(Events)
    OBVIOUS
  <2> QED
    BY <1>1, <1>2, <1>4, <2>1, TellsStart
<1> QED
  BY <1>1, <1>2, <1>3, <1>4, <1>5 DEF StreamInv

\* A service call offers its candidates first, and a request ends with its answer.
LEMMA LeaveTold ==
  ASSUME ReviewInv, SnapshotInv, StreamInv, Leave
  PROVE  StreamInv'
<1>1. /\ at = "leave" /\ UNCHANGED <<run, record, client>> /\ req # None /\ req \in Requests
      /\ events \in Seq(Events) /\ Told' = Told /\ Told \in Seq(Node)
  <2>1. at = "leave" /\ UNCHANGED <<run, record, client>>
    BY DEF Leave, work
  <2>2. run.path \in Seq(Node)
    BY DEF ReviewInv, Types, GoodRun, RunOK
  <2> QED
    BY <2>1, <2>2 DEF ReviewInv, Types, LifeInv, StreamInv, Told
<1>2. CASE outcome.type = "candidates" /\ req.kind = "stream"
  <2>1. /\ events' = Append(events, Event("candidates")) /\ half' = "review" /\ at' = "enter"
        /\ \/ req' = req
           \/ req' = [req EXCEPT !.selection = [pinned |-> <<>>, excluded |-> {}]]
    BY <1>2 DEF Leave, Continue
  <2>2. half = "retrieve" /\ Told = <<>>
    BY <1>1, <1>2 DEF SnapshotInv, StageInv, ReviewInv, EarlyInv, Early, Told, Fresh
  <2>3. Tells(events, 0, <<>>, <<>>)
    BY <1>1, <1>2, <2>2 DEF StreamInv
  <2>4. events = <<>>
    <3>1. Len(events) = 0
      BY <2>3 DEF Tells
    <3> QED
      BY <1>1, <3>1, EmptySeq
  <2>5. events' = <<Event("candidates")>>
    BY <2>1, <2>4
  <2>6. events' \in Seq(Events) /\ Tells(events', 1, Told', <<>>)
    <3>1. Event("candidates") \in Events
      BY DEF Event, Events
    <3> QED
      BY <1>1, <2>2, <2>5, <3>1, TellsStart
  <2>7. req'.kind = "stream" /\ req' # None
    <3>1. req' \in Requests
      BY <1>1, <2>1, EmptySelection DEF Requests
    <3> QED
      BY <1>1, <1>2, <2>1, <3>1, ReviewAssumption DEF Requests
  <2>8. ~NodeStage'
    BY <2>1 DEF NodeStage, Calling
  <2> QED
    BY <2>1, <2>6, <2>7, <2>8 DEF StreamInv
<1>3. CASE ~(outcome.type = "candidates" /\ req.kind = "stream")
  <2>1. /\ at' = "idle" /\ UNCHANGED <<half, req>>
        /\ events' = IF client = "reading" THEN events \o Closing(outcome.type) ELSE events
    BY <1>3 DEF Leave
  <2>2. ~NodeStage'
    BY <2>1 DEF NodeStage, Calling
  <2>3. CASE client # "reading"
    <3>1. events' = events
      BY <2>1, <2>3
    <3> QED
      BY <1>1, <2>1, <2>2, <2>3, <3>1 DEF StreamInv
  <2>4. CASE client = "reading"
    <3>1. req.kind = "stream" /\ outcome.type \in {"error", "report"}
      BY <1>1, <1>3, <2>4 DEF StreamInv, SnapshotInv, StageInv
    <3>2. PICK n \in {0, 1} : (n = 1 => half = "review") /\ Tells(events, n, Told, <<>>)
      BY <1>1, <3>1 DEF StreamInv
    <3>3. events' = events \o Closing(outcome.type)
      BY <2>1, <2>4
    <3>4. events' \in Seq(Events) /\ Tells(events', n, Told, Closing(outcome.type))
      BY <1>1, <3>1, <3>2, <3>3, TellsEnd
    <3>5. outcome.type = "report" => record # None
      BY <1>1 DEF StreamInv
    <3> QED
      BY <1>1, <2>1, <2>2, <3>1, <3>2, <3>4, <3>5 DEF StreamInv
  <2> QED
    BY <2>3, <2>4
<1> QED
  BY <1>2, <1>3

\* The end of a request, and what the world does.
LEMMA WorldTold ==
  ASSUME ReviewInv, StreamInv, Delivered \/ Unwind \/ World \/ UNCHANGED vars
  PROVE  StreamInv'
<1>1. ASSUME NEW next \in {"idle", "unwind"}, NEW connection \in {"away", "gone"}, Drop(next, connection)
      PROVE  StreamInv'
  <2>1. /\ req' = None /\ events' = <<>> /\ client' = connection /\ at' = next
    BY <1>1 DEF Drop
  <2>2. <<>> \in Seq(Events)
    OBVIOUS
  <2> QED
    BY <2>1, <2>2 DEF StreamInv, NodeStage, Calling
<1>2. CASE Delivered \/ Unwind \/ Disconnect
  BY <1>1, <1>2 DEF Delivered, Unwind, Disconnect
<1>3. CASE BeginUpdate \/ EndUpdate \/ TokenLapses \/ UNCHANGED vars
  <2>1. UNCHANGED <<req, half, at, call, run, outcome, record, events, client>>
    BY <1>3 DEF BeginUpdate, EndUpdate, TokenLapses, vars, request, work, channel
  <2> QED
    BY <2>1 DEF StreamInv, NodeStage, Calling, Told
<1> QED
  BY <1>2, <1>3 DEF World

\* Only a request that ended is delivered.
LEMMA DeliveredIdle ==
  ASSUME ReviewInv, StreamInv, Delivered
  PROVE  at = "idle"
<1>1. CASE answer # None
  BY <1>1 DEF ReviewInv, LifeInv
<1>2. CASE client = "reading" /\ events # <<>> /\ Last(events).event = "end"
  <2>1. SUFFICES ASSUME at # "idle" PROVE FALSE
    OBVIOUS
  <2>2. PICK n \in {0, 1} : Tells(events, n, Told, <<>>)
    BY <1>2, <2>1 DEF StreamInv
  <2>3. events \in Seq(Events) /\ Told \in Seq(Node)
    BY DEF StreamInv, Told, ReviewInv, Types, GoodRun, RunOK
  <2> DEFINE k == Len(Told)
  <2>4. k \in Nat /\ Len(events) = n + k /\ Len(events) >= 1
    <3>1. Len(events) # 0
      BY <1>2, <2>3, EmptySeq
    <3> QED
      BY <2>2, <2>3, <3>1 DEF Tells
  <2>5. /\ \A i \in 1 .. n : events[i] = Event("candidates")
        /\ \A i \in 1 .. k : events[n + i] = [event |-> "node", node |-> Told[i]]
    BY <2>2 DEF Tells
  <2>6. CASE k = 0
    <3>1. events[Len(events)] = Event("candidates")
      BY <2>4, <2>5, <2>6
    <3> QED
      BY <1>2, <3>1 DEF Last, Event
  <2>7. CASE k # 0
    <3>1. events[Len(events)] = [event |-> "node", node |-> Told[k]]
      BY <2>4, <2>5, <2>7
    <3> QED
      BY <1>2, <3>1 DEF Last
  <2> QED
    BY <2>6, <2>7
<1> QED
  BY <1>1, <1>2 DEF Delivered


\* What was billed stays traced where nothing is sent.
LEMMA TraceStays ==
  ASSUME ReviewInv, TraceInv,
         Admit \/ Enter \/ DecidePath \/ Route \/ SearchCandidates \/ Guide \/ Verify \/ LoadSelected
         \/ RetrieveNode \/ Persist \/ Leave \/ Unwind \/ Delivered \/ World \/ UNCHANGED vars
         \/ \E k \in Kind, x \in Selection \cup {None} : Submit(k, x)
  PROVE  TraceInv'
<1>1. ASSUME Balance' = 0, run'.failure = None, run'.steps = <<>>, billed' = 0
      PROVE  TraceInv'
  BY <1>1, SentNothing DEF TraceInv
<1>2. ASSUME Early, UNCHANGED <<run, billed>>, Balance' = 0
      PROVE  TraceInv'
  BY <1>1, <1>2 DEF ReviewInv, EarlyInv, Fresh
<1>3. CASE \/ Admit \/ Enter \/ DecidePath \/ Route \/ SearchCandidates \/ Verify \/ LoadSelected
           \/ \E k \in Kind, x \in Selection \cup {None} : Submit(k, x)
  <2>1. UNCHANGED <<run, billed>> /\ Early /\ Balance' = 0
    <3>1. CASE Admit \/ Enter \/ SearchCandidates \/ Verify \/ LoadSelected
      <4>1. /\ at \in {"admit", "enter", "search", "verify", "load"} /\ UNCHANGED <<run, billed>>
            /\ at' \in {"leave", "enter", "path", "load", "retrieve"}
        BY <3>1 DEF Admit, Enter, SearchCandidates, Verify, LoadSelected, work, Continue, End
      <4> QED
        BY <4>1 DEF Early, Balance, Calling
    <3>2. CASE DecidePath
      BY <3>2 DEF DecidePath, Classified, BeginCall, Continue, End, Early, Balance, Calling
    <3>3. CASE Route
      BY <3>3 DEF Route, BeginCall, Continue, End, Early, Balance, Calling
    <3>4. ASSUME NEW k \in Kind, NEW x \in Selection \cup {None}, Submit(k, x)
          PROVE  UNCHANGED <<run, billed>> /\ Early /\ Balance' = 0
      BY <3>4 DEF Submit, work, Early, Balance, Calling
    <3> QED
      BY <1>3, <3>1, <3>2, <3>3, <3>4
  <2> QED
    BY <1>2, <2>1
<1>4. CASE Guide
  <2>1. /\ at = "guidance" /\ UNCHANGED billed /\ at' \in {"leave", "persist"}
        /\ run' \in {run, [run EXCEPT !.path = <<"gate">>]}
    BY <1>4 DEF Guide, End, Continue
  <2>2. run = Fresh /\ billed = 0
    BY <2>1 DEF ReviewInv, EarlyInv, Early
  <2>3. run'.failure = None /\ run'.steps = <<>> /\ Balance' = 0
    BY <2>1, <2>2 DEF Fresh, Balance, Calling
  <2> QED
    BY <1>1, <2>1, <2>2, <2>3
<1>5. CASE RetrieveNode
  <2>1. /\ billed' = 0 /\ at' \in {"persist", "leave", "report", "grade"}
        /\ run'.steps = <<>> /\ (at' \in {"report", "grade"} => run'.failure = None)
    BY <1>5, RetrievedParts
  <2>2. Balance' = 0
    BY <2>1 DEF Balance, Calling
  <2> QED
    BY <2>1, <2>2, SentNothing DEF TraceInv
<1>6. CASE Persist \/ Leave
  <2>1. /\ at \in {"persist", "leave"} /\ UNCHANGED <<run, billed>>
        /\ at' \in {"leave", "idle", "enter"}
        /\ at' = "enter" => at = "leave" /\ outcome.type = "candidates"
    BY <1>6 DEF Persist, Leave, work, End, Continue
  <2>2. Balance = 0 /\ Balance' = 0
    BY <2>1 DEF Balance, Calling
  <2>3. at' = "enter" => run.failure = None
    BY <2>1 DEF ReviewInv, EarlyInv, Early, Fresh
  <2> QED
    BY <2>1, <2>2, <2>3 DEF TraceInv
<1>7. CASE Unwind \/ Delivered \/ Disconnect
  <2>1. run' = Fresh /\ billed' = 0 /\ at' \in {"idle", "unwind"}
    BY <1>7 DEF Unwind, Delivered, Disconnect, Drop
  <2>2. run'.failure = None /\ run'.steps = <<>> /\ Balance' = 0
    BY <2>1 DEF Fresh, Balance, Calling
  <2> QED
    BY <1>1, <2>1, <2>2
<1>8. CASE BeginUpdate \/ EndUpdate \/ TokenLapses \/ UNCHANGED vars
  <2>1. UNCHANGED <<at, call, run, billed>>
    BY <1>8 DEF BeginUpdate, EndUpdate, TokenLapses, vars, work
  <2>2. Balance' = Balance
    BY <2>1 DEF Balance, Calling
  <2> QED
    BY <2>1, <2>2 DEF TraceInv
<1> QED
  BY <1>3, <1>4, <1>5, <1>6, <1>7, <1>8 DEF World

-----------------------------------------------------------------------------
(* All of it together. *)

\* The whole invariant.
ServiceInv == ReviewInv /\ TraceInv /\ SnapshotInv /\ StreamInv

\* Before the first request there is nothing to trace, to take or to tell.
LEMMA InitIsFull == Init => TraceInv /\ SnapshotInv /\ StreamInv
<1> SUFFICES ASSUME Init PROVE TraceInv /\ SnapshotInv /\ StreamInv
  OBVIOUS
<1>1. /\ at = "idle" /\ req = None /\ run = Fresh /\ billed = 0 /\ reading = FALSE /\ token = None
      /\ updating = FALSE /\ half = None /\ intent = None /\ client = "away" /\ events = <<>>
      /\ stored \in [Chunk -> Version]
  BY DEF Init
<1>2. TraceInv
  <2>1. Balance = 0
    BY <1>1 DEF Balance, Calling
  <2> QED
    BY <1>1, <2>1, SentNothing DEF TraceInv, Fresh
<1>3. WorldTypes
  <2>1. stored \in [Chunk -> Version \cup {Gone}]
    BY <1>1
  <2> QED
    BY <1>1, <2>1, NoEvidence DEF WorldTypes
<1>4. StageInv /\ EvidenceInv
  BY <1>1 DEF StageInv, EvidenceInv, Working, Calling
<1>5. StreamInv
  <2>1. <<>> \in Seq(Events)
    OBVIOUS
  <2> QED
    BY <1>1, <2>1 DEF StreamInv, NodeStage, Calling
<1> QED
  BY <1>2, <1>3, <1>4, <1>5 DEF SnapshotInv

\* A call or a node after the first.
LEMMA CallsStayFull ==
  ASSUME ReviewInv, ReviewInv', TraceInv, SnapshotInv, StreamInv,
         \/ Reserve \/ Respond \/ CheckNode \/ ReportNode
         \/ \E n \in {"grade", "check"} : ModelNode(n)
  PROVE  TraceInv' /\ SnapshotInv' /\ StreamInv'
<1>1. Moves
  BY ReserveMoves, RespondMoves, CheckNodeMoves, ReportNodeMoves, ModelNodeMoves
<1>2. /\ at \in {"reserve", "sending", "grade", "check", "fragments", "report"} /\ Notify
      /\ UNCHANGED <<stored, updating, reading, token, req, half, client>>
  BY DEF Reserve, Respond, CheckNode, ReportNode, ModelNode, index, request
<1>3. intent' \in {None, "document_review", "service_help"}
  <2>1. intent \in {None, "document_review", "service_help"}
    BY DEF SnapshotInv, WorldTypes
  <2>2. CASE Respond
    <3>1. intent' \in {intent, "document_review", "service_help"}
      <4>1. ASSUME NEW c, CallOk(c) PROVE intent' \in {intent, "document_review", "service_help"}
        BY <4>1 DEF CallOk, Classified
      <4>2. ASSUME NEW c, NEW over, NEW spent, Answered(c, over, spent)
            PROVE  intent' \in {intent, "document_review", "service_help"}
        BY <4>1, <4>2 DEF Answered
      <4> QED
        BY <2>2, <4>2 DEF Respond
    <3> QED
      BY <2>1, <3>1
  <2>3. CASE intent' = intent
    BY <2>1, <2>3
  <2> QED
    BY <2>2, <2>3 DEF Reserve, CheckNode, ReportNode, ModelNode
<1>4. SnapshotInv'
  BY <1>1, <1>2, <1>3, MovesGoOn
<1>5. StreamInv'
  BY <1>1, <1>2, MovesTold
<1> QED
  BY <1>1, <1>4, <1>5 DEF Moves

\* In every reachable state also: what was billed is in the steps of the run or in the call
\* under way, the evidence is current while the gate is held and is as its reviewer chose it,
\* and the stream has told exactly of the nodes that ran (app/api/review/runtime.py).
THEOREM ServiceHolds == Spec => []ServiceInv
<1>1. Init => ServiceInv
  BY InitHolds, InitIsFull DEF ServiceInv
<1>2. ReviewInv /\ [Next]_vars => ReviewInv'
  BY ReviewStep
<1>3. ServiceInv /\ [Next]_vars => ServiceInv'
  <2> SUFFICES ASSUME ServiceInv, [Next]_vars PROVE ServiceInv'
    OBVIOUS
  <2>1. ReviewInv /\ ReviewInv' /\ TraceInv /\ SnapshotInv /\ StreamInv
    BY <1>2 DEF ServiceInv
  <2>2. CASE Admit \/ \E k \in Kind, x \in Selection \cup {None} : Submit(k, x)
    BY <2>1, <2>2, TraceStays, EntersSnapshot, BeginsTold DEF ServiceInv
  <2>3. CASE Enter
    BY <2>1, <2>3, TraceStays, EntersSnapshot, PathTold DEF ServiceInv
  <2>4. CASE DecidePath \/ Route \/ SearchCandidates \/ Guide \/ Verify \/ LoadSelected \/ Persist
    BY <2>1, <2>4, TraceStays, PathGoesOn, PathTold DEF ServiceInv
  <2>5. CASE RetrieveNode
    BY <2>1, <2>5, TraceStays, RetrieveNodeSnapshot, RetrieveTold DEF ServiceInv
  <2>6. CASE \/ Reserve \/ Respond \/ CheckNode \/ ReportNode
             \/ \E n \in {"grade", "check"} : ModelNode(n)
    BY <2>1, <2>6, CallsStayFull DEF ServiceInv
  <2>7. CASE Leave
    BY <2>1, <2>7, TraceStays, LeaveSnapshot, LeaveTold DEF ServiceInv
  <2>8. CASE Unwind \/ Delivered \/ World \/ UNCHANGED vars
    <3>1. Delivered => at = "idle"
      BY <2>1, DeliveredIdle
    <3> QED
      BY <2>1, <2>8, <3>1, TraceStays, WorldSnapshot, WorldTold DEF ServiceInv
  <2> QED
    BY <2>2, <2>3, <2>4, <2>5, <2>6, <2>7, <2>8 DEF Next, Task
<1> QED
  BY <1>1, <1>3, PTL DEF Spec

\* The service, its index and its client have the types of their data.
THEOREM ReviewTyped == Spec => []TypeOK
<1>1. ServiceInv => TypeOK
  <2> SUFFICES ASSUME ServiceInv PROVE TypeOK
    OBVIOUS
  <2>1. /\ WorldTypes /\ RunOK(run) /\ Grounded(run) /\ billed \in Nat /\ call \in Calls \cup {None}
        /\ denied \in BOOLEAN /\ req \in Requests \cup {None}
    BY DEF ServiceInv, ReviewInv, Types, GoodRun, SnapshotInv
  <2>2. ToSet(run.evidence) \subseteq Hit
    BY <2>1 DEF WorldTypes, ToSet
  <2>3. run.relevant \subseteq Chunk
    <3>1. \A c \in Ids(run.evidence) : c \in Chunk
      <4>1. \A h \in ToSet(run.evidence) : h.id \in Chunk
        BY <2>2 DEF Hit
      <4> QED
        BY <4>1 DEF Ids, ToSet
    <3> QED
      BY <2>1, <3>1 DEF Grounded
  <2>4. token # None => ToSet(token.candidates) \subseteq Hit /\ token.live \in BOOLEAN
    BY <2>1 DEF WorldTypes, Tokens, ToSet
  <2>5. run.decision \in Decisions \cup {None}
    BY <2>1 DEF RunOK
  <2> QED
    BY <2>1, <2>2, <2>3, <2>4, <2>5 DEF TypeOK, WorldTypes
<1> QED
  BY <1>1, ServiceHolds, PTL

\* All through the paid calls of a review its evidence is what the index holds: CorpusAccess
\* is held across them and a selection is read again before it is used (runtime.py).
THEOREM EvidenceIsCurrent == Spec => []EvidenceStaysCurrent
<1>1. ServiceInv => EvidenceStaysCurrent
  BY DEF ServiceInv, SnapshotInv, EvidenceInv, Current, EvidenceStaysCurrent
<1> QED
  BY <1>1, ServiceHolds, PTL

\* The evidence of a selection has nothing the reviewer excluded, and what they pinned leads
\* it in their order, whatever the context limit leaves out (select_evidence() of
\* app/api/review/evidence.py and of app/workflow/nodes.py).
THEOREM SelectionIsHonoured == Spec => []SelectionHonoured
<1>1. ServiceInv => SelectionHonoured
  <2> SUFFICES ASSUME ServiceInv, Reviewed, req.selection # None PROVE SelectionHonoured
    BY DEF SelectionHonoured
  <2>1. ~Early
    BY DEF ServiceInv, ReviewInv, EarlyInv, Reviewed, Fresh
  <2>2. req # None
    BY <2>1 DEF Early, ServiceInv, ReviewInv, LifeInv
  <2>3. Honours(run.evidence, req.selection)
    BY <2>2 DEF ServiceInv, SnapshotInv, EvidenceInv
  <2> QED
    BY <2>3 DEF Honours, Rank, SelectionHonoured
<1> QED
  BY <1>1, ServiceHolds, PTL

\* A stored decision that claims support cites something, only chunks of the evidence that
\* were graded relevant, and none that the reviewer excluded (check_node() and grade_node()
\* of app/workflow/nodes.py).
THEOREM SupportIsGrounded == Spec => []SupportedIsGrounded
<1>1. ServiceInv => SupportedIsGrounded
  <2> SUFFICES ASSUME ServiceInv, record # None, record.decision # None,
                      record.decision.label # "NOT_IN_DOCS"
               PROVE  SupportedIsGrounded
    BY DEF SupportedIsGrounded
  <2>1. RunOK(run) /\ Grounded(run) /\ record = Stored /\ req # None
    BY DEF ServiceInv, ReviewInv, Types, LifeInv, GoodRun
  <2>2. record.decision = run.decision
    BY <2>1, StoredIsRecord
  <2>3. req.selection # None => Ids(run.evidence) \cap req.selection.excluded = {}
    BY <2>1 DEF ServiceInv, SnapshotInv, EvidenceInv, Honours
  <2> QED
    BY <2>1, <2>2, <2>3 DEF Grounded, SupportedIsGrounded
<1> QED
  BY <1>1, ServiceHolds, PTL

\* The steps of a stored run account for every request that grade and check were billed for,
\* unless the code of a node raised (_traced() and the provider's request count).
THEOREM RequestsStayTraced == Spec => []RequestsAreTraced
<1>1. ServiceInv => RequestsAreTraced
  <2> SUFFICES ASSUME ServiceInv, record # None, run.failure # "node_error"
               PROVE  Sent(record.steps) = billed
    BY DEF RequestsAreTraced
  <2>1. RunOK(run) /\ record = Stored /\ at \in {"leave", "idle"} /\ billed \in Nat
    BY DEF ServiceInv, ReviewInv, Types, LifeInv, GoodRun
  <2>2. record.steps = run.steps
    BY <2>1 DEF Stored
  <2>3. billed = Sent(run.steps) + 0
    BY <2>1 DEF ServiceInv, TraceInv, Balance, Calling
  <2>4. Sent(run.steps) \in Nat
    <3>1. run.steps \in Seq(Step) /\ [node |-> "grade", requests |-> 0] \in Step
      BY <2>1 DEF RunOK, Step, Site
    <3> QED
      BY <3>1, SentAppend
  <2> QED
    BY <2>2, <2>3, <2>4
<1> QED
  BY <1>1, ServiceHolds, PTL

\* Where each event of a stream is.
LEMMA TellsPlaces ==
  ASSUME NEW ev \in Seq(Events), NEW n \in {0, 1}, NEW nodes \in Seq(Node),
         NEW type \in {"error", "report"}, NEW tail \in {<<>>, Closing(type)},
         Tells(ev, n, nodes, tail)
  PROVE  LET L == n + Len(nodes) IN
         /\ L \in Nat /\ Len(ev) = L + Len(tail) /\ DOMAIN ev = 1 .. (L + Len(tail))
         /\ Len(tail) = IF tail = <<>> THEN 0 ELSE 2
         /\ \A i \in 1 .. n : ev[i].event = "candidates"
         /\ \A i \in (n + 1) .. L : ev[i].event = "node" /\ ev[i].node = nodes[i - n]
         /\ tail # <<>> => ev[L + 1].event = type /\ ev[L + 2].event = "end"
<1> DEFINE k == Len(nodes)
           L == n + k
<1>1. k \in Nat /\ L \in Nat /\ Len(ev) = L + Len(tail)
  BY DEF Tells
<1>2. tail # <<>> => tail = Closing(type) /\ Len(tail) = 2 /\ tail[1] = Event(type) /\ tail[2] = Event("end")
  BY DEF Closing
<1>3. Len(tail) = IF tail = <<>> THEN 0 ELSE 2
  BY <1>2
<1>4. DOMAIN ev = 1 .. (L + Len(tail))
  BY <1>1
<1>5. \A i \in 1 .. n : ev[i].event = "candidates"
  BY DEF Tells, Event
<1>6. ASSUME NEW i \in (n + 1) .. L
      PROVE  ev[i].event = "node" /\ ev[i].node = nodes[i - n]
  <2>1. i - n \in 1 .. k /\ n + (i - n) = i
    BY <1>1
  <2>2. \A j \in 1 .. k : ev[n + j] = [event |-> "node", node |-> nodes[j]]
    BY DEF Tells
  <2>3. ev[n + (i - n)] = [event |-> "node", node |-> nodes[i - n]]
    BY <2>1, <2>2
  <2> QED
    BY <2>1, <2>3
<1>7. tail # <<>> => ev[L + 1].event = type /\ ev[L + 2].event = "end"
  <2> SUFFICES ASSUME tail # <<>> PROVE ev[L + 1].event = type /\ ev[L + 2].event = "end"
    OBVIOUS
  <2>1. \A j \in 1 .. Len(tail) : ev[n + Len(nodes) + j] = tail[j]
    BY DEF Tells
  <2>2. ev[L + 1] = tail[1] /\ ev[L + 2] = tail[2]
    <3> DEFINE m == Len(tail)
    <3>a. m = 2
      BY <1>2
    <3> HIDE DEF m
    <3>b. 1 \in 1 .. m /\ 2 \in 1 .. m
      BY <3>a
    <3>1. 1 \in 1 .. Len(tail) /\ 2 \in 1 .. Len(tail)
      BY <3>b DEF m
    <3>2. ev[n + Len(nodes) + 1] = tail[1] /\ ev[n + Len(nodes) + 2] = tail[2]
      BY <2>1, <3>1
    <3> QED
      BY <3>2
  <2> QED
    BY <1>2, <2>2 DEF Event
<1> QED
  BY <1>1, <1>3, <1>4, <1>5, <1>6, <1>7

\* A stream that tells of a report told every node of the stored run before it, once and in
\* order, and the candidates first; its one terminal event is the last but the end.
THEOREM StreamTells == Spec => []StreamTellsTheRun
<1> DEFINE places(e) == {i \in DOMAIN events : events[i].event = e}
           told == SubSeq(events, 1 + Cardinality(places("candidates")), Len(events) - 2)
<1>1. ServiceInv => StreamTellsTheRun
  <2> SUFFICES ASSUME ServiceInv PROVE StreamTellsTheRun
    OBVIOUS
  <2>1. /\ events \in Seq(Events) /\ Told \in Seq(Node) /\ RunOK(run) /\ record \in {None, Stored}
    BY DEF ServiceInv, StreamInv, ReviewInv, Types, LifeInv, GoodRun, RunOK, Told
  <2>2. CASE events = <<>>
    <3>1. \A e : places(e) = {}
      BY <2>2
    <3> QED
      BY <3>1 DEF StreamTellsTheRun
  <2>3. ASSUME NEW n \in {0, 1}, NEW type \in {"error", "report"}, NEW tail \in {<<>>, Closing(type)},
               Tells(events, n, Told, tail),
               type = "report" /\ tail # <<>> => record # None
        PROVE  StreamTellsTheRun
    <3> DEFINE k == Len(Told)
               L == n + k
    <3>1. /\ L \in Nat /\ k \in Nat /\ Len(events) = L + Len(tail) /\ DOMAIN events = 1 .. (L + Len(tail))
          /\ Len(tail) = IF tail = <<>> THEN 0 ELSE 2
          /\ \A i \in 1 .. n : events[i].event = "candidates"
          /\ \A i \in (n + 1) .. L : events[i].event = "node" /\ events[i].node = Told[i - n]
          /\ tail # <<>> => events[L + 1].event = type /\ events[L + 2].event = "end"
      <4>1. events \in Seq(Events) /\ Told \in Seq(Node)
        BY <2>1
      <4>2. Tells(events, n, Told, tail)
        BY <2>3
      <4>3. k \in Nat
        BY <4>1
      <4> QED
        BY <4>1, <4>2, <4>3, TellsPlaces
    <3>2. \A i \in DOMAIN events : \/ i \in 1 .. n
                                   \/ i \in (n + 1) .. L
                                   \/ tail # <<>> /\ i \in {L + 1, L + 2}
      BY <3>1
    <3>3. places("candidates") = 1 .. n
      BY <3>1, <3>2
    <3>4. \A e \in {"error", "report"} : places(e) = IF tail # <<>> /\ e = type THEN {L + 1} ELSE {}
      BY <3>1, <3>2
    <3>5. places("end") = IF tail # <<>> THEN {L + 2} ELSE {}
      BY <3>1, <3>2
    <3>6. places("candidates") \subseteq {1} /\ Cardinality(places("candidates")) = n
      <4>1. CASE n = 0
        BY <3>3, <4>1, FS_EmptySet
      <4>2. CASE n = 1
        <5>1. places("candidates") = {1}
          BY <3>3, <4>2
        <5> QED
          BY <4>2, <5>1, FS_Singleton
      <4> QED
        BY <4>1, <4>2
    <3>7. \A i \in places("report") \cup places("error") : i = Len(events) - 1
      BY <3>1, <3>4
    <3>8. \A i \in places("end") : i - 1 \in places("report") \cup places("error")
      BY <3>1, <3>4, <3>5
    <3>9. ASSUME places("report") # {}
          PROVE  /\ record # None
                 /\ [i \in DOMAIN told |-> told[i].node] =
                       (IF record.path = <<"gate">> THEN <<>> ELSE record.path)
      <4>1. tail # <<>> /\ type = "report" /\ Len(events) = L + 2
        BY <3>1, <3>4, <3>9
      <4>2. record = Stored /\ record.path = run.path
        BY <2>1, <2>3, <4>1 DEF Stored
      <4>3. (IF record.path = <<"gate">> THEN <<>> ELSE record.path) = Told
        BY <4>2 DEF Told
      <4>4. told = SubSeq(events, 1 + n, L)
        <5>1. Len(events) - 2 = L
          BY <3>1, <4>1
        <5> HIDE DEF places, L
        <5> QED
          BY <3>6, <5>1
      <4>5. /\ told \in Seq(Events) /\ Len(told) = k
            /\ \A i \in 1 .. k : told[i] = events[n + i]
        <5>1. \A i \in (1 + n) .. L : events[i] \in Events
          BY <2>1, <3>1
        <5>2. /\ SubSeq(events, 1 + n, L) \in Seq(Events)
              /\ Len(SubSeq(events, 1 + n, L)) = IF 1 + n <= L THEN L - (1 + n) + 1 ELSE 0
              /\ \A i \in 1 .. L - (1 + n) + 1 :
                   SubSeq(events, 1 + n, L)[i] = events[(1 + n) + i - 1]
          BY <3>1, <5>1, SubSeqProperties
        <5> HIDE DEF told
        <5> QED
          BY <3>1, <4>4, <5>2
      <4>6. DOMAIN told = 1 .. k /\ \A i \in 1 .. k : told[i].node = Told[i]
        <5> HIDE DEF told
        <5>1. ASSUME NEW i \in 1 .. k PROVE told[i].node = Told[i]
          <6>1. n + i \in (n + 1) .. L /\ (n + i) - n = i
            BY <3>1
          <6> QED
            BY <3>1, <4>5, <6>1
        <5> QED
          BY <4>5, <5>1
      <4> HIDE DEF told
      <4>7. Told = [i \in 1 .. k |-> Told[i]]
        BY <2>1
      <4>8. [i \in DOMAIN told |-> told[i].node] = Told
        BY <4>6, <4>7
      <4> QED
        BY <2>3, <4>1, <4>3, <4>8
    <3> QED
      BY <3>6, <3>7, <3>8, <3>9 DEF StreamTellsTheRun
  <2>4. \/ events = <<>>
        \/ \E n \in {0, 1} :
             \/ Tells(events, n, Told, <<>>) \/ Tells(events, n, Told, Closing("error"))
             \/ record # None /\ Tells(events, n, Told, Closing("report"))
    BY DEF ServiceInv, StreamInv
  <2> QED
    BY <2>2, <2>3, <2>4
<1> QED
  BY <1>1, ServiceHolds, PTL

=============================================================================
