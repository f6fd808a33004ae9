------------------------------ MODULE RaftLog ------------------------------
(***************************************************************************)
(* The in-memory log of internal/raft/log.go.  An entry is represented by  *)
(* its term: one leader writes each term, so index and term identify it.   *)
(* The sentinel is the pair (first, firstTerm), the compaction point; the  *)
(* entry at index i > first is terms[i - first].                           *)
(***************************************************************************)
EXTENDS Integers, Sequences

NewLog(index, term) == [first |-> index, firstTerm |-> term, terms |-> <<>>]

LastIndex(l) == l.first + Len(l.terms)
LastTerm(l) == IF l.terms = <<>> THEN l.firstTerm ELSE l.terms[Len(l.terms)]

\* The indexes term() can answer for: the sentinel's and the entries'.
Held(l) == l.first..LastIndex(l)
TermAt(l, i) == IF i = l.first THEN l.firstTerm ELSE l.terms[i - l.first]

Suffix(l, from) ==
    IF from <= l.first THEN <<>> ELSE SubSeq(l.terms, from - l.first, Len(l.terms))

Extend(l, entries) == [l EXCEPT !.terms = @ \o entries]

\* Compacted territory cannot be truncated.
TruncateFrom(l, i) ==
    [l EXCEPT !.terms = SubSeq(@, 1, IF i <= l.first THEN 0 ELSE i - l.first - 1)]

\* sort.Search: the least j in 0..Len(terms) from which on the terms exceed t,
\* provided that they do not decrease.
SearchAbove(terms, t) ==
    LET search[i, j \in 0..Len(terms)] ==
            LET h == (i + j) \div 2 IN
            IF i >= j THEN i
            ELSE IF terms[h + 1] > t THEN search[i, h] ELSE search[h + 1, j]
    IN  search[0, Len(terms)]

\* 0 stands for "no such entry".
FirstIndexOfTerm(l, t) ==
    LET i == SearchAbove(l.terms, t - 1) IN
    IF i < Len(l.terms) /\ l.terms[i + 1] = t THEN l.first + i + 1 ELSE 0

LastIndexOfTerm(l, t) ==
    LET i == SearchAbove(l.terms, t) IN
    IF i > 0 /\ l.terms[i] = t THEN l.first + i ELSE 0

\* Mutant: the entry the new sentinel stands for is kept as well.
CompactBelow(l, index, term) ==
    IF index <= l.first THEN l
    ELSE [first |-> index, firstTerm |-> term,
          terms |-> SubSeq(l.terms, index - l.first, Len(l.terms))]

\* What lies beyond the new sentinel is kept, whatever it is.
CompactTo(l, index, term) ==
    IF index <= l.first THEN l
    ELSE [first |-> index, firstTerm |-> term,
          terms |-> SubSeq(l.terms, index - l.first + 1, Len(l.terms))]

=============================================================================
