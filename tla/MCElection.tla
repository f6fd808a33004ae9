----------------------------- MODULE MCElection -----------------------------
EXTENDS Election, TLC

\* The nodes that the bounds do not tell apart are interchangeable.
Symmetry ==
    {p \in Permutations(Node) :
        \A S \in {Candidates, Faulty, Stoppable, Crashable} :
            \A n \in Node : n \in S <=> p[n] \in S}

=============================================================================
