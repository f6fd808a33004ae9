------------------------------- MODULE MCRaft -------------------------------
EXTENDS Raft, TLC

CONSTANTS n1, n2, n3

\* Who may campaign in each term: one node alone, another after it, that one
\* once more, or the two in turn.
Alone == <<{n1}>>
Succeeded == <<{n1}, {n2}>>
Reelected == <<{n1}, {n2}, {n2}>>
InTurn == <<{n1}, {n2}, {n1}, {n2}>>

\* The nodes that the bounds do not tell apart are interchangeable.
Symmetry ==
    {p \in Permutations(Node) :
        \A S \in {Faulty, FaultySnap, Crashable, Appliers, Readers}
                     \union {Candidates[t] : t \in 1..MaxTerm} :
            \A n \in Node : n \in S <=> p[n] \in S}

=============================================================================
