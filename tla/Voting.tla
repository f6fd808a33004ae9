------------------------------- MODULE Voting -------------------------------
(***************************************************************************)
(* What the election half of internal/raft promises to the rest of it:     *)
(* a node casts at most one binding vote per term, and a node leads a term *)
(* only with the votes of a quorum of the cluster.  Messages, timers,      *)
(* disks and crashes do not appear: Election, which has them, is shown to  *)
(* implement this specification.                                           *)
(***************************************************************************)
CONSTANTS Node,              \* the fixed membership, Config.ID and Config.Peers
          Quorum,            \* the sets of nodes that can elect a leader
          Term               \* the terms that can occur

\* What the safety of a leadership rests on: any two quorums share a node.
QuorumsIntersect ==
    /\ Quorum \subseteq SUBSET Node
    /\ \A P, Q \in Quorum : P \intersect Q # {}

VARIABLES ballots,            \* the votes cast: voter, candidate and term
          elected             \* the leaderships won: node and term

vars == <<ballots, elected>>

Ballot == [voter : Node, cand : Node, term : Term]
Leadership == [node : Node, term : Term]

VotersOf(n, t) == {v \in Node : [voter |-> v, cand |-> n, term |-> t] \in ballots}

HasQuorum(n, t) == \E Q \in Quorum : Q \subseteq VotersOf(n, t)

\* v has not voted for anyone but c in t.
MayVote(v, c, t) == \A b \in ballots : b.voter = v /\ b.term = t => b.cand = c

Init == ballots = {} /\ elected = {}

Cast(v, c, t) ==
    /\ ballots' = ballots \union {[voter |-> v, cand |-> c, term |-> t]}
    /\ MayVote(v, c, t)
    /\ UNCHANGED elected

Win(n, t) ==
    /\ elected' = elected \union {[node |-> n, term |-> t]}
    /\ HasQuorum(n, t)
    /\ UNCHANGED ballots

\* The vote that completes a quorum and the leadership it wins, in one step.
CastAndWin(v, n, t) ==
    /\ ballots' = ballots \union {[voter |-> v, cand |-> n, term |-> t]}
    /\ elected' = elected \union {[node |-> n, term |-> t]}
    /\ MayVote(v, n, t)
    /\ HasQuorum(n, t)'

Next == \E n \in Node, t \in Term :
            \/ Win(n, t)
            \/ \E v \in Node : Cast(v, n, t) \/ CastAndWin(v, n, t)

Spec == Init /\ [][Next]_vars

-----------------------------------------------------------------------------
\* Ballots and leaderships have their types.
TypeOK == ballots \subseteq Ballot /\ elected \subseteq Leadership

\* A node's vote in a term, once cast, is never contradicted.
OneVotePerTerm ==
    \A a, b \in ballots : a.voter = b.voter /\ a.term = b.term => a = b

\* Every leadership is backed by the votes of a quorum.
BackedByQuorum == \A l \in elected : HasQuorum(l.node, l.term)

\* Election safety: no two nodes ever lead the same term.
OneLeaderPerTerm ==
    \A a, b \in elected : a.term = b.term => a = b

=============================================================================
