------------------------------- MODULE Lists --------------------------------
(***************************************************************************)
(* The kernel's lists, as sequences: what a walk finds, unlinks and makes  *)
(* of the entries.  SequencesExt has these operators and some fifty others *)
(* that would be in the context of every proof about a list; this module   *)
(* keeps the proofs small.                                                 *)
(***************************************************************************)
EXTENDS Integers, Sequences, FiniteSets, FiniteSetsExt

\* A walk over the list meets e.
Contains(list, e) == \E i \in 1 .. Len(list) : list[i] = e

\* The list without the first entry that is e.
RemoveFirst(list, e) ==
    LET first == Min({i \in 1 .. Len(list) : list[i] = e})
    IN  IF Contains(list, e)
        THEN SubSeq(list, 1, first - 1) \o SubSeq(list, first + 1, Len(list))
        ELSE list

\* What a walk over the list makes of base, one entry after the other.
FoldLeft(op(_, _), base, list) ==
    MapThenFoldSet(LAMBDA e, done : op(done, e), base,
                   LAMBDA i : list[i], LAMBDA S : Max(S), DOMAIN list)

\* The elements of a list that are in a set, in list order.
Keep(list, S) ==
    FoldLeft(LAMBDA kept, t : IF t \in S THEN Append(kept, t) ELSE kept, <<>>, list)
=============================================================================
