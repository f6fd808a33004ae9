---------------------------- MODULE VotingProofs ----------------------------
(***************************************************************************)
(* Voting keeps one leader per term, for every cluster, every intersecting *)
(* quorum system and every set of terms: two quorums share a voter, and a  *)
(* voter has one vote.                                                     *)
(***************************************************************************)
EXTENDS Voting, TLAPS

\* The two halves of the argument, which are inductive together.
VotingInv == TypeOK /\ OneVotePerTerm /\ BackedByQuorum

\* A vote that agrees with the voter's other votes of its term keeps
\* OneVotePerTerm, and no leadership loses its quorum to it.
LEMMA CastKeeps ==
    ASSUME VotingInv, NEW v \in Node, NEW c \in Node, NEW t \in Term, MayVote(v, c, t),
           ballots' = ballots \union {[voter |-> v, cand |-> c, term |-> t]}
    PROVE  /\ ballots' \subseteq Ballot
           /\ OneVotePerTerm'
           /\ \A l \in elected : HasQuorum(l.node, l.term)'
<1>1. ballots' \subseteq Ballot
  BY DEF VotingInv, TypeOK, Ballot
<1>2. OneVotePerTerm'
  BY DEF VotingInv, TypeOK, OneVotePerTerm, MayVote, Ballot
<1>3. \A l \in elected : HasQuorum(l.node, l.term)'
  BY DEF VotingInv, BackedByQuorum, HasQuorum, VotersOf
<1> QED
  BY <1>1, <1>2, <1>3

LEMMA VotingInvStep == VotingInv /\ [Next]_vars => VotingInv'
<1> SUFFICES ASSUME VotingInv, [Next]_vars PROVE VotingInv'
  OBVIOUS
<1>1. ASSUME NEW n \in Node, NEW t \in Term, Win(n, t) PROVE VotingInv'
  <2>1. elected' \subseteq Leadership
    BY <1>1 DEF Win, VotingInv, TypeOK, Leadership
  <2>2. \A l \in elected' : HasQuorum(l.node, l.term)
    BY <1>1 DEF Win, VotingInv, BackedByQuorum
  <2>3. BackedByQuorum'
    BY <1>1, <2>2 DEF Win, BackedByQuorum, HasQuorum, VotersOf
  <2> QED
    BY <1>1, <2>1, <2>3 DEF Win, VotingInv, TypeOK, OneVotePerTerm
<1>2. ASSUME NEW n \in Node, NEW t \in Term, NEW v \in Node, Cast(v, n, t)
      PROVE  VotingInv'
  BY <1>2, CastKeeps DEF Cast, VotingInv, TypeOK, BackedByQuorum
<1>3. ASSUME NEW n \in Node, NEW t \in Term, NEW v \in Node, CastAndWin(v, n, t)
      PROVE  VotingInv'
  <2>1. /\ ballots' \subseteq Ballot /\ OneVotePerTerm'
        /\ \A l \in elected : HasQuorum(l.node, l.term)'
    BY <1>3, CastKeeps DEF CastAndWin
  <2>2. BackedByQuorum'
    BY <1>3, <2>1 DEF CastAndWin, BackedByQuorum
  <2>3. elected' \subseteq Leadership
    BY <1>3 DEF CastAndWin, VotingInv, TypeOK, Leadership
  <2> QED
    BY <2>1, <2>2, <2>3 DEF VotingInv, TypeOK
<1>4. CASE UNCHANGED vars
  BY <1>4 DEF vars, VotingInv, TypeOK, OneVotePerTerm, BackedByQuorum, HasQuorum, VotersOf
<1> QED
  BY <1>1, <1>2, <1>3, <1>4 DEF Next

\* One vote per voter and term, and a quorum behind every leadership.
THEOREM VotingInvariant == Spec => []VotingInv
<1>1. Init => VotingInv
  BY DEF Init, VotingInv, TypeOK, OneVotePerTerm, BackedByQuorum
<1> QED
  BY <1>1, VotingInvStep, PTL DEF Spec

\* However votes are cast and leaderships won, no two nodes lead one term, if
\* any two quorums share a voter.
THEOREM OneLeader ==
    ASSUME QuorumsIntersect
    PROVE  Spec => []OneLeaderPerTerm
<1>1. VotingInv => OneLeaderPerTerm
  <2> SUFFICES ASSUME VotingInv, NEW a \in elected, NEW b \in elected,
                      a.term = b.term
               PROVE  a = b
    BY DEF OneLeaderPerTerm
  <2>1. a \in Leadership /\ b \in Leadership
    BY DEF VotingInv, TypeOK
  <2>2. PICK v \in Node : v \in VotersOf(a.node, a.term) /\ v \in VotersOf(b.node, b.term)
    BY QuorumsIntersect DEF QuorumsIntersect, VotingInv, BackedByQuorum, HasQuorum
  <2>3. a.node = b.node
    BY <2>2 DEF VotersOf, VotingInv, OneVotePerTerm
  <2> QED
    BY <2>1, <2>3 DEF Leadership
<1> QED
  BY <1>1, VotingInvariant, PTL

=============================================================================
