-------------------------- MODULE EvidenceSelection --------------------------
(***************************************************************************)
(* Which chunks of a search result become the evidence of a review: the   *)
(* pure functions of app/workflow/nodes.py and app/api/review/evidence.py. *)
(* A hit names a chunk and the version of it that was read.  Hits are     *)
(* sequences in rank order.                                                *)
(***************************************************************************)
EXTENDS Integers, SequencesExt

CONSTANTS
    Chunk,
    DocOf,          \* the filing of each chunk
    IndexText,      \* its header and body as they are indexed
    TextOf,         \* the same up to white space
    IndexSize,      \* the length of its index text
    EntrySize,      \* its length as an entry of the prompt's JSON
    Envelope,       \* what the JSON around the entries takes
    K,              \* evidence slots of the profile
    MaxPerDocument, \* preferred share of one filing
    MaxContext      \* limit on the length of all evidence together

ASSUME EvidenceAssumption ==
    /\ \A c \in Chunk : IndexSize[c] \in Nat /\ EntrySize[c] \in Nat /\ IndexSize[c] < EntrySize[c]
    /\ \A c, d \in Chunk : IndexText[c] = IndexText[d] => TextOf[c] = TextOf[d]
    /\ {Envelope, K, MaxPerDocument, MaxContext} \subseteq Nat

Ids(hits) == {hits[i].id : i \in DOMAIN hits}

\* evidence_chars() and evidence_budget_chars(): the limit is on the serialized entries.
Context(hits) == FoldLeft(LAMBDA n, h : n + EntrySize[h.id], 0, hits)
ContextBudget == IF Envelope < MaxContext THEN MaxContext - Envelope ELSE 0

\* Two chunks with one text are one fact: the first keeps it.
TextUnique(hits) ==
    LET kept[i \in 0 .. Len(hits)] ==
            IF i = 0 THEN <<>>
            ELSE IF \E g \in ToSet(kept[i - 1]) : TextOf[g.id] = TextOf[hits[i].id]
                 THEN kept[i - 1] ELSE Append(kept[i - 1], hits[i])
    IN  kept[Len(hits)]

InFiling(hits, h) == Cardinality({i \in DOMAIN hits : DocOf[hits[i].id] = DocOf[h.id]})

\* The first `quota` hits of every filing come before the rest of each.
DocumentPreference(hits, quota) ==
    LET split[i \in 0 .. Len(hits)] ==
            IF i = 0 THEN [preferred |-> <<>>, deferred |-> <<>>]
            ELSE IF InFiling(split[i - 1].preferred, hits[i]) < quota
                 THEN [split[i - 1] EXCEPT !.preferred = Append(@, hits[i])]
                 ELSE [split[i - 1] EXCEPT !.deferred = Append(@, hits[i])]
    IN  split[Len(hits)].preferred \o split[Len(hits)].deferred

\* Whole hits in the given order; one that does not fit leaves its slot to the next.
FillSlots(hits) ==
    LET taken[i \in 0 .. Len(hits)] ==
            IF i = 0 THEN <<>>
            ELSE IF /\ Len(taken[i - 1]) < K
                    /\ Context(taken[i - 1]) + EntrySize[hits[i].id] <= ContextBudget
                 THEN Append(taken[i - 1], hits[i]) ELSE taken[i - 1]
    IN  taken[Len(hits)]

Evidence(hits, quota) == FillSlots(DocumentPreference(TextUnique(hits), quota))

\* The hits of other chunks, in their order.
Without(hits, chunks) ==
    LET kept[i \in 0 .. Len(hits)] ==
            IF i = 0 THEN <<>>
            ELSE IF hits[i].id \in chunks THEN kept[i - 1] ELSE Append(kept[i - 1], hits[i])
    IN  kept[Len(hits)]

\* Mutant of Selected: pinned chunks keep their rank.
SelectedInRankOrder(candidates, selection) ==
    LET all == Without(candidates, selection.excluded)
    IN  SubSeq(all, 1, IF Len(all) < K THEN Len(all) ELSE K)

\* What a reviewer chose out of a candidate list: pinned first, then the ranked rest.
Selected(candidates, selection) ==
    LET byId(c) == CHOOSE h \in ToSet(candidates) : h.id = c
        pinned == [i \in DOMAIN selection.pinned |-> byId(selection.pinned[i])]
        fill == Without(candidates, selection.excluded \cup ToSet(selection.pinned))
        all == pinned \o fill
    IN  SubSeq(all, 1, IF Len(all) < K THEN Len(all) ELSE K)

\* A selection that the candidate list and the limits admit, measured on the index text.
SelectionFits(candidates, selection) ==
    /\ Len(selection.pinned) <= K
    /\ ToSet(selection.pinned) \cup selection.excluded \subseteq Ids(candidates)
    /\ \A i, j \in DOMAIN selection.pinned :
           i # j => IndexText[selection.pinned[i]] # IndexText[selection.pinned[j]]
    /\ FoldLeft(LAMBDA n, c : n + IndexSize[c], 0, selection.pinned) <= MaxContext
=============================================================================
