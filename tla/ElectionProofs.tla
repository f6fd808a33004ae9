--------------------------- MODULE ElectionProofs ---------------------------
(***************************************************************************)
(* Election safety for every finite cluster, every bound, any set of nodes *)
(* with failing disks and any loss of messages.  The inductive invariant   *)
(* is ElectionInv; it is split here into what it says of the nodes, their  *)
(* disks and the history (NodeInv) and of the calls under way (NetInv).    *)
(***************************************************************************)
EXTENDS Election, FiniteSetTheorems, TLAPS

BallotFor(m) == [voter |-> m.to, cand |-> m.from, term |-> m.term]

NodeType ==
    /\ currentTerm \in [Node -> Term]
    /\ votedFor \in [Node -> Node \union {None}]
    /\ role \in [Node -> Role]
    /\ leaderID \in [Node -> Node \union {None}]
    /\ heard \in [Node -> BOOLEAN]
    /\ poll \in [Node -> SUBSET Node]
    /\ votes \in [Node -> SUBSET Node]
    /\ pos \in [Node -> Pos]
    /\ disk \in [Node -> HardState]
    /\ stopped \in [Node -> BOOLEAN]
    /\ ballots \subseteq [voter : Node, cand : Node, term : Term]
    /\ elected \subseteq [node : Node, term : Term]

TalliesReal ==
    \A n \in Node : \A v \in votes[n] :
        [voter |-> v, cand |-> n, term |-> currentTerm[n]] \in ballots

Voters(n, t) == {v \in Node : [voter |-> v, cand |-> n, term |-> t] \in ballots}

Backed == \A l \in elected : Cardinality(Voters(l.node, l.term)) >= Majority

CandidacyDurable == \A b \in ballots : b.term <= disk[b.cand].term

NodeInv == NodeType /\ DiskBehind /\ VoteKept /\ TalliesReal /\ Backed /\ CandidacyDurable

NetInv ==
    /\ rpcs \subseteq RPC
    /\ \A m \in rpcs : m.kind = "vote" =>
        /\ m.answered /\ m.granted => BallotFor(m) \in ballots
        /\ m.term <= disk[m.from].term
        /\ ~m.answered => BallotFor(m) \notin ballots
        /\ \A c \in rpcs : c.kind = "vote" /\ c.from = m.from /\ c.to = m.to
                           /\ c.term = m.term => c = m

LEMMA SplitInv == ElectionInv <=> NodeInv /\ NetInv
BY DEF ElectionInv, NodeInv, NetInv, TypeOK, NodeType, VotesCounted, TalliesReal, Backed,
       Voters, AskedOnce, CandidacyDurable, BallotFor

LEMMA TermFacts ==
    /\ Term \subseteq Nat /\ 0 \in Term
    /\ \A t \in Term : t <= MaxTerm /\ t + 1 \in 0..MaxTerm + 1
    /\ \A t \in Nat : t <= MaxTerm => t \in Term
    /\ Majority \in Nat
<1>1. Cardinality(Node) \in Nat
  BY ConstantsAssumption, FS_CardinalityType
<1> QED
  BY <1>1, ConstantsAssumption DEF Term, Majority

-----------------------------------------------------------------------------
\* The calls under way.

\* An answer that grants a vote only when the vote has been cast keeps NetInv.
LEMMA AnswerKeepsNet ==
    ASSUME NodeInv, NetInv, NEW m \in rpcs, NEW t \in Term, NEW g \in BOOLEAN,
           Answer(m, t, g), ~m.answered,
           \/ ballots' = ballots /\ (m.kind = "vote" => ~g)
           \/ m.kind = "vote" /\ g /\ ballots' = ballots \union {BallotFor(m)},
           \A n \in Node : disk[n].term <= disk'[n].term,
           \A n \in Node : disk'[n].term \in Nat
    PROVE  NetInv'
<1> DEFINE a == [m EXCEPT !.answered = TRUE, !.rterm = t, !.granted = g]
<1>1. m \in RPC /\ a \in RPC
  BY Zenon DEF NetInv, RPC
<1>2. rpcs' \subseteq (rpcs \ {m}) \union {a}
  BY DEF Answer
<1>3. /\ a.kind = m.kind /\ a.from = m.from /\ a.to = m.to /\ a.term = m.term
      /\ a.answered /\ a.granted = g
  BY <1>1 DEF RPC
<1> HIDE DEF a
<1>4. BallotFor(a) = BallotFor(m)
  BY <1>3 DEF BallotFor
<1>5. rpcs' \subseteq RPC
  BY <1>1, <1>2 DEF NetInv
<1>6. ASSUME NEW c \in rpcs', c.kind = "vote"
      PROVE  /\ c.answered /\ c.granted => BallotFor(c) \in ballots'
             /\ c.term <= disk'[c.from].term
             /\ ~c.answered => BallotFor(c) \notin ballots'
             /\ \A d \in rpcs' : d.kind = "vote" /\ d.from = c.from /\ d.to = c.to
                                 /\ d.term = c.term => d = c
  <2>0. c.from \in Node /\ c.term \in Nat
    BY <1>5, <1>6, ConstantsAssumption DEF RPC
  <2>1. c.term <= disk[c.from].term
    <3>1. CASE c = a
      BY <3>1, <1>3, <1>6 DEF NetInv
    <3>2. CASE c \in rpcs
      BY <3>2, <1>6 DEF NetInv
    <3> QED
      BY <3>1, <3>2, <1>2
  <2>2. c.term <= disk'[c.from].term
    BY <2>0, <2>1 DEF NodeInv, NodeType, HardState, Term
  <2>3. c.answered /\ c.granted => BallotFor(c) \in ballots'
    BY <1>2, <1>3, <1>4, <1>6 DEF NetInv
  <2>4. ~c.answered => BallotFor(c) \notin ballots'
    <3> SUFFICES ASSUME ~c.answered, BallotFor(c) \in ballots' PROVE FALSE
      OBVIOUS
    <3>1. c \in rpcs /\ c # m
      BY <1>2, <1>3
    <3>2. BallotFor(c) = BallotFor(m) /\ m.kind = "vote"
      BY <3>1, <1>6 DEF NetInv
    <3>3. c.from = m.from /\ c.to = m.to /\ c.term = m.term
      BY <3>2 DEF BallotFor
    <3> QED
      BY <3>1, <3>2, <3>3, <1>6 DEF NetInv
  <2>5. \A d \in rpcs' : d.kind = "vote" /\ d.from = c.from /\ d.to = c.to
                         /\ d.term = c.term => d = c
    <3> SUFFICES ASSUME NEW d \in rpcs', d.kind = "vote", d.from = c.from,
                        d.to = c.to, d.term = c.term
                 PROVE  d = c
      OBVIOUS
    <3>1. CASE c = a /\ d \in rpcs \ {m}
      BY <3>1, <1>3, <1>6 DEF NetInv
    <3>2. CASE d = a /\ c \in rpcs \ {m}
      BY <3>2, <1>3, <1>6 DEF NetInv
    <3>3. CASE c \in rpcs /\ d \in rpcs
      BY <3>3, <1>6 DEF NetInv
    <3> QED
      BY <3>1, <3>2, <3>3, <1>2
  <2> QED
    BY <2>2, <2>3, <2>4, <2>5
<1> QED
  BY <1>5, <1>6 DEF NetInv

\* Dropping calls, or relabelling calls that are not vote requests, keeps it.
LEMMA FewerCallsKeepNet ==
    ASSUME NodeInv, NetInv, rpcs' \subseteq RPC,
           \A c \in rpcs' : c.kind = "vote" => c \in rpcs,
           ballots' = ballots,
           \A n \in Node : disk[n].term <= disk'[n].term,
           \A n \in Node : disk'[n].term \in Nat
    PROVE  NetInv'
<1>1. ASSUME NEW c \in rpcs', c.kind = "vote"
      PROVE  c.term <= disk'[c.from].term
  <2>1. c \in rpcs /\ c \in RPC /\ c.from \in Node /\ c.term \in Nat
    BY <1>1, TermFacts DEF RPC
  <2>2. c.term <= disk[c.from].term /\ disk[c.from].term \in Nat
    BY <1>1, <2>1 DEF NetInv, NodeInv, NodeType, HardState, Term
  <2> QED
    BY <2>1, <2>2
<1>2. \A c \in rpcs' : BallotFor(c)' = BallotFor(c)
  BY DEF BallotFor
<1> QED
  BY <1>1, <1>2 DEF NetInv

LEMMA DropKeepsNet ==
    ASSUME NodeInv, NetInv, rpcs' \subseteq rpcs, UNCHANGED <<disk, ballots>>
    PROVE  NetInv'
<1>1. disk' = disk /\ \A n \in Node : disk[n].term \in Nat
  BY TermFacts, Zenon DEF NodeInv, NodeType, HardState
<1>2. /\ \A n \in Node : disk[n].term <= disk'[n].term /\ disk'[n].term \in Nat
      /\ rpcs' \subseteq RPC
  BY <1>1 DEF NetInv
<1> QED
  BY <1>2, FewerCallsKeepNet

\* The calls of a process that has died lose their caller, and its own
\* unanswered ones are lost.
LEMMA GoneKeepsNet ==
    ASSUME NodeInv, NetInv, NEW n \in Node, UNCHANGED <<disk, ballots>>,
           rpcs' = {m \in rpcs : n \notin {m.from, m.to}}
                   \union {m \in rpcs : m.to = n /\ m.answered}
                   \union {[m EXCEPT !.caller = "gone"] :
                               m \in {c \in rpcs : c.from = n /\ ~c.answered}}
    PROVE  NetInv'
<1>1. ASSUME NEW m \in rpcs
      PROVE  LET g == [m EXCEPT !.caller = "gone"] IN
             /\ g \in RPC /\ g.kind = m.kind /\ g.from = m.from /\ g.to = m.to
             /\ g.term = m.term /\ g.answered = m.answered /\ g.granted = m.granted
  BY DEF NetInv, RPC
<1>2. ASSUME NEW c \in rpcs'
      PROVE  \E m \in rpcs :
                 /\ \/ c = m /\ (m.from # n \/ m.answered)
                    \/ c = [m EXCEPT !.caller = "gone"] /\ m.from = n /\ ~m.answered
                 /\ c \in RPC /\ c.kind = m.kind /\ c.from = m.from /\ c.to = m.to
                 /\ c.term = m.term /\ c.answered = m.answered /\ c.granted = m.granted
  <2>1. CASE c \in rpcs /\ (c.from # n \/ c.answered)
    BY <2>1 DEF NetInv
  <2>2. CASE \E m \in rpcs : /\ m.from = n /\ ~m.answered
                            /\ c = [m EXCEPT !.caller = "gone"]
    BY <1>1, <2>2
  <2> QED
    BY <1>2, <2>1, <2>2
<1>3. rpcs' \subseteq RPC
  BY <1>2
<1>4. ASSUME NEW c \in rpcs', c.kind = "vote"
      PROVE  /\ c.answered /\ c.granted => BallotFor(c) \in ballots
             /\ c.term <= disk[c.from].term
             /\ ~c.answered => BallotFor(c) \notin ballots
  BY <1>2, <1>4 DEF NetInv, BallotFor
<1>5. ASSUME NEW c \in rpcs', NEW d \in rpcs', c.kind = "vote", d.kind = "vote",
             d.from = c.from, d.to = c.to, d.term = c.term
      PROVE  d = c
  <2>1. PICK m \in rpcs :
            /\ \/ c = m /\ (m.from # n \/ m.answered)
               \/ c = [m EXCEPT !.caller = "gone"] /\ m.from = n /\ ~m.answered
            /\ m.kind = "vote" /\ m.from = c.from /\ m.to = c.to /\ m.term = c.term
    BY <1>2, <1>5
  <2>2. PICK k \in rpcs :
            /\ \/ d = k /\ (k.from # n \/ k.answered)
               \/ d = [k EXCEPT !.caller = "gone"] /\ k.from = n /\ ~k.answered
            /\ k.kind = "vote" /\ k.from = d.from /\ k.to = d.to /\ k.term = d.term
    BY <1>2, <1>5
  <2>3. m = k
    BY <1>5, <2>1, <2>2 DEF NetInv
  <2> QED
    BY <2>1, <2>2, <2>3
<1> QED
  BY <1>3, <1>4, <1>5 DEF NetInv, BallotFor

\* A node that has just saved its candidacy for a new term asks some peers.
LEMMA AskingKeepsNet ==
    ASSUME NodeInv, NetInv, NEW n \in Node, NEW t \in Term, t > currentTerm[n],
           NEW calls \in SUBSET RPC, \A c \in calls : c.kind = "vote" => c \in rpcs,
           NEW S \in SUBSET Peers(n),
           rpcs' = calls \union {Call("vote", n, p, t) : p \in S},
           ballots' = ballots \union {[voter |-> n, cand |-> n, term |-> t]},
           disk' = [disk EXCEPT ![n] = [term |-> t, vote |-> n]],
           \A x \in Node : disk[x].term <= disk'[x].term,
           \A x \in Node : disk'[x].term \in Nat
    PROVE  NetInv'
<1> DEFINE new == {Call("vote", n, p, t) : p \in S}
<1>1. \A x \in Node : disk[x].term \in Nat /\ currentTerm[x] \in Nat /\ t \in Nat
  BY TermFacts, Zenon DEF NodeInv, NodeType, HardState
<1>2. disk[n].term < t /\ disk'[n].term = t
  BY <1>1 DEF NodeInv, NodeType, DiskBehind
<1>3. \A c \in new : /\ c \in RPC /\ c.kind = "vote" /\ c.from = n /\ c.to # n
                     /\ c.term = t /\ ~c.answered
  <2>1. ASSUME NEW p \in S
        PROVE  LET c == Call("vote", n, p, t) IN
               /\ c \in RPC /\ c.kind = "vote" /\ c.from = n /\ c.to = p /\ p # n
               /\ c.term = t /\ ~c.answered
    <3>1. /\ p \in Node /\ p # n /\ pos[n] \in Pos /\ 0 \in Term
          /\ t \in 0..MaxTerm + 1
      BY TermFacts, ConstantsAssumption DEF NodeInv, NodeType, Peers, Term
    <3> QED
      BY <3>1 DEF Call, RPC
  <2> QED
    BY <2>1
<1>4. \A c, d \in new : c.to = d.to => c = d
  <2>1. \A p \in S : Call("vote", n, p, t).to = p
    BY DEF Call
  <2> QED
    BY <2>1
<1> HIDE DEF new
<1>5. rpcs' = calls \union new
  BY DEF new
<1>6. ASSUME NEW c \in calls, c.kind = "vote"
      PROVE  /\ c \in rpcs /\ c.from \in Node /\ c.term \in Nat
             /\ c.term <= disk[c.from].term /\ (c.from = n => c.term < t)
  <2>1. c \in rpcs /\ c.from \in Node /\ c.term \in Nat
    BY <1>6, ConstantsAssumption DEF RPC
  <2>2. c.term <= disk[c.from].term
    BY <1>6, <2>1 DEF NetInv
  <2> QED
    BY <1>1, <1>2, <2>1, <2>2
<1>7. ASSUME NEW c \in rpcs', c.kind = "vote"
      PROVE  /\ c.answered /\ c.granted => BallotFor(c) \in ballots'
             /\ c.term <= disk'[c.from].term
             /\ ~c.answered => BallotFor(c) \notin ballots'
             /\ \A d \in rpcs' : d.kind = "vote" /\ d.from = c.from /\ d.to = c.to
                                 /\ d.term = c.term => d = c
  <2>1. CASE c \in calls
    <3>1. c.answered /\ c.granted => BallotFor(c) \in ballots'
      BY <1>6, <1>7, <2>1 DEF NetInv
    <3>2. c.term <= disk'[c.from].term
      BY <1>1, <1>6, <1>7, <2>1
    <3>3. ~c.answered => BallotFor(c) \notin ballots'
      BY <1>1, <1>6, <1>7, <2>1 DEF NetInv, BallotFor
    <3>4. \A d \in rpcs' : d.kind = "vote" /\ d.from = c.from /\ d.to = c.to
                           /\ d.term = c.term => d = c
      BY <1>1, <1>3, <1>5, <1>6, <1>7, <2>1 DEF NetInv
    <3> QED
      BY <3>1, <3>2, <3>3, <3>4
  <2>2. CASE c \in new
    <3>1. c.from = n /\ c.to # n /\ c.term = t /\ ~c.answered
      BY <1>3, <2>2
    <3>2. BallotFor(c) \notin ballots'
      <4>1. BallotFor(c) \notin ballots
        BY <1>1, <1>2, <3>1 DEF BallotFor, NodeInv, CandidacyDurable
      <4> QED
        BY <3>1, <4>1 DEF BallotFor
    <3>3. \A d \in rpcs' : d.kind = "vote" /\ d.from = c.from /\ d.to = c.to
                           /\ d.term = c.term => d = c
      BY <1>1, <1>3, <1>4, <1>5, <1>6, <2>2
    <3> QED
      BY <1>1, <1>2, <3>1, <3>2, <3>3
  <2> QED
    BY <1>5, <1>7, <2>1, <2>2
<1>8. rpcs' \subseteq RPC
  BY <1>3, <1>5
<1> QED
  BY <1>7, <1>8 DEF NetInv, BallotFor

-----------------------------------------------------------------------------
\* The nodes, their disks and the history.

LEMMA VotersGrow ==
    ASSUME NEW S \in SUBSET Node, NEW T \in SUBSET Node, S \subseteq T,
           Cardinality(S) >= Majority
    PROVE  Cardinality(T) >= Majority
<1>1. IsFiniteSet(T)
  BY ConstantsAssumption, FS_Subset
<1>2. /\ Cardinality(S) \in Nat /\ Cardinality(T) \in Nat
      /\ Cardinality(S) <= Cardinality(T)
  BY <1>1, FS_Subset, FS_CardinalityType
<1> QED
  BY <1>2, TermFacts

LEMMA BackedKept ==
    ASSUME Backed, ballots \subseteq ballots', NEW l \in elected
    PROVE  Cardinality(Voters(l.node, l.term)') >= Majority
<1>1. /\ Voters(l.node, l.term) \in SUBSET Node
      /\ Voters(l.node, l.term)' \in SUBSET Node
      /\ Voters(l.node, l.term) \subseteq Voters(l.node, l.term)'
  BY DEF Voters
<1> QED
  BY <1>1, VotersGrow DEF Backed

\* A step that changes no term, vote, disk or history.
LEMMA QuietKeepsNode ==
    ASSUME NodeInv, NodeType', UNCHANGED <<currentTerm, votedFor, disk, ballots, elected>>,
           \A n \in Node : votes'[n] \subseteq votes[n]
    PROVE  NodeInv'
<1>1. DiskBehind' /\ VoteKept' /\ CandidacyDurable'
  BY DEF NodeInv, DiskBehind, VoteKept, CandidacyDurable
<1>2. TalliesReal'
  BY DEF NodeInv, TalliesReal
<1>3. Backed'
  BY DEF NodeInv, Backed, Voters
<1> QED
  BY <1>1, <1>2, <1>3 DEF NodeInv

\* A node's votes are all of terms it has reached.
LEMMA EarlierVotes ==
    ASSUME NodeInv, NEW n \in Node, NEW t \in Term, t > currentTerm[n]
    PROVE  \A b \in ballots : b.voter = n => b.term < t
<1>1. t \in Nat /\ currentTerm[n] \in Nat /\ disk[n].term \in Nat
  BY TermFacts, Zenon DEF NodeInv, NodeType, HardState
<1> SUFFICES ASSUME NEW b \in ballots, b.voter = n PROVE b.term < t
  OBVIOUS
<1>2. b.term \in Nat /\ b.term <= disk[n].term /\ disk[n].term <= currentTerm[n]
  BY TermFacts, Zenon DEF NodeInv, NodeType, VoteKept
<1> QED
  BY <1>1, <1>2

\* A term in which n has cast no vote is entered, or gone on with, without a
\* binding vote, whether or not the save that goes with it succeeds.
LEMMA AdoptKeepsNode ==
    ASSUME NodeInv, NodeType', NEW n \in Node, NEW t \in Term,
           t >= currentTerm[n], \A b \in ballots : b.voter = n => b.term < t,
           currentTerm' = [currentTerm EXCEPT ![n] = t],
           \/ votes' = [votes EXCEPT ![n] = {}]
           \/ votes' = votes /\ t = currentTerm[n],
           NEW w, votedFor' = [votedFor EXCEPT ![n] = w],
           NEW h, h = disk[n] \/ h.term = t,
           disk' = [disk EXCEPT ![n] = h],
           ballots' = ballots, elected' = elected
    PROVE  NodeInv' /\ \A x \in Node : disk[x].term <= disk'[x].term
<1>1. \A x \in Node : /\ disk[x].term \in Nat /\ disk'[x].term \in Nat
                      /\ currentTerm[x] \in Nat /\ currentTerm'[x] \in Nat /\ t \in Nat
  BY TermFacts, Zenon DEF NodeInv, NodeType, HardState
<1>3. \A x \in Node : disk[x].term <= disk'[x].term
  BY <1>1 DEF NodeInv, NodeType, DiskBehind, HardState
<1>4. DiskBehind'
  BY <1>1 DEF NodeInv, NodeType, DiskBehind, HardState
<1>5. ASSUME NEW b \in ballots
      PROVE  LET v == b.voter IN
             /\ b.term <= disk'[v].term /\ disk'[v].term <= currentTerm'[v]
             /\ b.term = disk'[v].term => disk'[v].vote = b.cand
             /\ b.term = currentTerm'[v] => votedFor'[v] = b.cand
  <2>1. b.voter \in Node /\ b.term \in Nat
    BY <1>5, TermFacts, Zenon DEF NodeInv, NodeType
  <2>2. CASE b.voter # n
    BY <1>1, <1>5, <2>1, <2>2 DEF NodeInv, NodeType, VoteKept
  <2>3. CASE b.voter = n
    <3>1. b.term <= disk[n].term /\ disk[n].term <= currentTerm[n] /\ b.term < t
      BY <1>5, <2>3 DEF NodeInv, VoteKept
    <3>2. CASE h = disk[n]
      BY <1>1, <1>5, <2>1, <2>3, <3>1, <3>2 DEF NodeInv, NodeType, VoteKept
    <3>3. CASE h.term = t
      BY <1>1, <2>1, <2>3, <3>1, <3>3 DEF NodeInv, NodeType
    <3> QED
      BY <3>2, <3>3
  <2> QED
    BY <2>2, <2>3
<1>6. VoteKept'
  BY <1>5 DEF VoteKept
<1>7. TalliesReal'
  BY DEF NodeInv, NodeType, TalliesReal
<1>8. Backed'
  BY BackedKept DEF NodeInv, Backed
<1>9. CandidacyDurable'
  <2> SUFFICES ASSUME NEW b \in ballots PROVE b.term <= disk'[b.cand].term
    BY DEF CandidacyDurable
  <2>1. b.cand \in Node /\ b.term \in Nat /\ b.term <= disk[b.cand].term
    BY TermFacts, Zenon DEF NodeInv, NodeType, CandidacyDurable
  <2> QED
    BY <1>1, <1>3, <2>1
<1> QED
  BY <1>3, <1>4, <1>6, <1>7, <1>8, <1>9 DEF NodeInv

\* A binding vote of v for c in term t, saved before it counts.  The tallies
\* that may change with it are v's own.
LEMMA CastKeepsNode ==
    ASSUME NodeInv, NodeType', NEW v \in Node, NEW c \in Node, NEW t \in Term,
           t >= currentTerm[v], t = currentTerm[v] => votedFor[v] \in {None, c},
           currentTerm' = [currentTerm EXCEPT ![v] = t],
           votedFor' = [votedFor EXCEPT ![v] = c],
           disk' = [disk EXCEPT ![v] = [term |-> t, vote |-> c]],
           ballots' = ballots \union {[voter |-> v, cand |-> c, term |-> t]},
           t <= disk'[c].term,
           \A x \in Node : x # v => votes'[x] = votes[x],
           \/ votes'[v] = {}
           \/ votes'[v] = votes[v] /\ t = currentTerm[v]
           \/ votes'[v] = {v} /\ c = v,
           \A l \in elected' : Cardinality(Voters(l.node, l.term)') >= Majority
    PROVE  NodeInv' /\ \A x \in Node : disk[x].term <= disk'[x].term
<1>1. \A x \in Node : /\ disk[x].term \in Nat /\ disk'[x].term \in Nat
                      /\ currentTerm[x] \in Nat /\ currentTerm'[x] \in Nat /\ t \in Nat
  BY TermFacts, Zenon DEF NodeInv, NodeType, HardState
<1>2. disk'[v] = [term |-> t, vote |-> c] /\ currentTerm'[v] = t /\ votedFor'[v] = c
  BY DEF NodeInv, NodeType
<1>3. \A x \in Node : x # v => /\ disk'[x] = disk[x] /\ currentTerm'[x] = currentTerm[x]
                               /\ votedFor'[x] = votedFor[x]
  BY DEF NodeInv, NodeType
<1>4. \A x \in Node : disk[x].term <= disk'[x].term
  BY <1>1, <1>2, <1>3 DEF NodeInv, DiskBehind
<1>5. DiskBehind'
  BY <1>1, <1>2, <1>3 DEF NodeInv, DiskBehind
<1>6. ASSUME NEW b \in ballots'
      PROVE  LET w == b.voter IN
             /\ b.term <= disk'[w].term /\ disk'[w].term <= currentTerm'[w]
             /\ b.term = disk'[w].term => disk'[w].vote = b.cand
             /\ b.term = currentTerm'[w] => votedFor'[w] = b.cand
  <2>1. CASE b = [voter |-> v, cand |-> c, term |-> t]
    BY <1>1, <1>2, <2>1
  <2>2. CASE b \in ballots
    <3>1. b.voter \in Node /\ b.term \in Nat /\ b.cand \in Node
      BY <2>2, TermFacts DEF NodeInv, NodeType
    <3>2. CASE b.voter # v
      BY <1>3, <2>2, <3>1, <3>2 DEF NodeInv, VoteKept
    <3>3. CASE b.voter = v
      <4>1. /\ b.term <= disk[v].term /\ disk[v].term <= currentTerm[v]
            /\ b.term = currentTerm[v] => votedFor[v] = b.cand
        BY <2>2, <3>3 DEF NodeInv, VoteKept
      <4>2. b.term = t => b.cand = c
        BY <1>1, <3>1, <4>1, ConstantsAssumption
      <4> QED
        BY <1>1, <1>2, <3>1, <3>3, <4>1, <4>2
    <3> QED
      BY <3>2, <3>3
  <2> QED
    BY <2>1, <2>2
<1>7. VoteKept'
  BY <1>6 DEF VoteKept
<1>8. TalliesReal'
  <2> SUFFICES ASSUME NEW x \in Node, NEW w \in votes'[x]
               PROVE  [voter |-> w, cand |-> x, term |-> currentTerm'[x]] \in ballots'
    BY DEF TalliesReal
  <2>1. CASE x # v
    BY <1>3, <2>1 DEF NodeInv, TalliesReal
  <2>2. CASE x = v
    BY <1>2, <2>2 DEF NodeInv, TalliesReal
  <2> QED
    BY <2>1, <2>2
<1>9. Backed'
  BY DEF Backed
<1>10. CandidacyDurable'
  <2> SUFFICES ASSUME NEW b \in ballots' PROVE b.term <= disk'[b.cand].term
    BY DEF CandidacyDurable
  <2>1. CASE b \in ballots
    <3>1. b.cand \in Node /\ b.term \in Nat /\ b.term <= disk[b.cand].term
      BY <2>1, TermFacts DEF NodeInv, NodeType, CandidacyDurable
    <3> QED
      BY <1>1, <1>4, <3>1
  <2> QED
    BY <2>1
<1> QED
  BY <1>4, <1>5, <1>7, <1>8, <1>9, <1>10 DEF NodeInv

-----------------------------------------------------------------------------
\* The steps.

DiskGrows == \A n \in Node : disk[n].term <= disk'[n].term /\ disk'[n].term \in Nat

LEMMA QuietStep ==
    ASSUME NodeInv, NetInv, NodeType',
           UNCHANGED <<currentTerm, votedFor, disk, ballots, elected>>,
           \A n \in Node : votes'[n] \subseteq votes[n],
           \/ /\ rpcs' \subseteq RPC
              /\ \A c \in rpcs' : c.kind = "vote" => c \in rpcs
           \/ \E m \in rpcs, t \in Term, g \in BOOLEAN :
                  Answer(m, t, g) /\ ~m.answered /\ (m.kind = "vote" => ~g)
    PROVE  NodeInv' /\ NetInv'
<1>1. NodeInv'
  BY QuietKeepsNode
<1>2. DiskGrows
  <2>1. disk' = disk /\ \A n \in Node : disk[n].term \in Nat
    BY TermFacts, Zenon DEF NodeInv, NodeType, HardState
  <2> QED
    BY <2>1 DEF DiskGrows
<1>3. NetInv'
  BY <1>2, FewerCallsKeepNet, AnswerKeepsNet, Zenon DEF DiskGrows
<1> QED
  BY <1>1, <1>3, Zenon

LEMMA BecomeFollowerKeepsNode ==
    ASSUME NodeInv, NEW n \in Node, NEW t \in Term, t > currentTerm[n],
           BecomeFollower(n, t)
    PROVE  NodeInv' /\ DiskGrows /\ ballots' = ballots
<1>0. t >= currentTerm[n]
  <2>1. t \in Nat /\ currentTerm[n] \in Nat
    BY TermFacts, Zenon DEF NodeInv, NodeType
  <2> QED
    BY <2>1
<1>1. PICK h \in {disk[n], [term |-> t, vote |-> None]} : disk' = [disk EXCEPT ![n] = h]
  BY Zenon DEF BecomeFollower, EnterTerm, AdoptedHardState, Saved, NotSaved
<1>2. h \in HardState
  BY <1>1 DEF NodeInv, NodeType, HardState
<1>3. NodeType'
  <2>1. heard' \in [Node -> BOOLEAN]
    BY Zenon DEF BecomeFollower, ResetTimer, NodeInv, NodeType
  <2>2. disk' \in [Node -> HardState]
    BY <1>1, <1>2 DEF NodeInv, NodeType
  <2> QED
    BY <2>1, <2>2 DEF BecomeFollower, EnterTerm, AdoptTerm, history, NodeInv, NodeType, Role
<1>4. NodeInv' /\ \A x \in Node : disk[x].term <= disk'[x].term
  <2>1. h = disk[n] \/ h.term = t
    BY <1>1
  <2>2. /\ currentTerm' = [currentTerm EXCEPT ![n] = t]
        /\ votes' = [votes EXCEPT ![n] = {}]
        /\ votedFor' = [votedFor EXCEPT ![n] = None]
        /\ ballots' = ballots /\ elected' = elected
    BY Zenon DEF BecomeFollower, EnterTerm, AdoptTerm, history
  <2> QED
    BY <1>0, <1>1, <1>3, <2>1, <2>2, EarlierVotes, AdoptKeepsNode, Zenon
<1> QED
  BY <1>3, <1>4, TermFacts DEF DiskGrows, NodeType, HardState, BecomeFollower, history

LEMMA AdoptAnswerStep ==
    ASSUME NodeInv, NetInv, NEW m \in rpcs, AdoptAnswer(m)
    PROVE  NodeInv' /\ NetInv'
<1>1. m \in RPC /\ m.from \in Node /\ m.rterm \in Term
  BY DEF NetInv, RPC
<1>2. NodeInv' /\ DiskGrows /\ ballots' = ballots
  BY <1>1, BecomeFollowerKeepsNode DEF AdoptAnswer
<1>3. rpcs' \subseteq rpcs /\ rpcs' \subseteq RPC
  BY DEF AdoptAnswer, NetInv
<1> QED
  BY <1>2, <1>3, FewerCallsKeepNet, Zenon DEF DiskGrows

LEMMA IgnoreStep ==
    ASSUME NodeInv, NetInv, NEW m \in rpcs, Ignore(m)
    PROVE  NodeInv' /\ NetInv'
<1>1. NodeType'
  BY DEF Ignore, volatile, history, NodeInv, NodeType
<1>2. rpcs' \subseteq RPC /\ rpcs' \subseteq rpcs
  BY DEF Ignore, NetInv
<1> QED
  BY <1>1, <1>2, QuietStep DEF Ignore, volatile, history

\* startElectionLocked, on top of some of the calls under way: the candidacy
\* and the node's own vote are on disk before anyone is asked.
LEMMA StartElectionStep ==
    ASSUME NodeInv, NetInv, NEW n \in Node, NEW calls \in SUBSET RPC,
           \A c \in calls : c.kind = "vote" => c \in rpcs,
           StartElection(n, calls)
    PROVE  NodeInv' /\ NetInv'
<1>0. currentTerm[n] \in Nat /\ currentTerm[n] \in Term
  BY TermFacts, Zenon DEF NodeInv, NodeType
<1>1. PICK t \in Term : /\ t = currentTerm[n] + 1 /\ t \in Nat /\ t > currentTerm[n]
                        /\ Stand(n, calls, t) \/ WinAlone(n, calls, t) \/ CallOff(n, calls, t)
  BY <1>0, TermFacts DEF StartElection
<1>2. /\ currentTerm' = [currentTerm EXCEPT ![n] = t]
      /\ votedFor' = [votedFor EXCEPT ![n] = n]
      /\ poll' = [poll EXCEPT ![n] = {}]
      /\ pos' = pos /\ stopped' = stopped
  BY <1>1 DEF StartElection
<1>3. /\ currentTerm' \in [Node -> Term] /\ votedFor' \in [Node -> Node \union {None}]
      /\ poll' \in [Node -> SUBSET Node] /\ pos' \in [Node -> Pos]
      /\ stopped' \in [Node -> BOOLEAN]
  BY <1>1, <1>2 DEF NodeInv, NodeType
<1>4. [term |-> t, vote |-> n] \in HardState
  BY <1>1 DEF HardState
<1>5. CASE CallOff(n, calls, t)
  <2>1. PICK h \in {disk[n], [term |-> t, vote |-> n]} : disk' = [disk EXCEPT ![n] = h]
    BY <1>5, Zenon DEF CallOff, NotSaved
  <2>2. NodeType'
    <3>1. h \in HardState /\ disk' \in [Node -> HardState]
      BY <1>4, <2>1 DEF NodeInv, NodeType
    <3>2. heard' \in [Node -> BOOLEAN]
      BY <1>5 DEF CallOff, ResetTimer, NodeInv, NodeType
    <3> QED
      BY <1>3, <1>5, <3>1, <3>2 DEF CallOff, history, NodeInv, NodeType, Role
  <2>3. NodeInv' /\ \A x \in Node : disk[x].term <= disk'[x].term
    <3>1. h = disk[n] \/ h.term = t
      BY <2>1
    <3>2. votes' = [votes EXCEPT ![n] = {}] /\ ballots' = ballots /\ elected' = elected
      BY <1>5 DEF CallOff, history
    <3>3. t >= currentTerm[n] /\ \A b \in ballots : b.voter = n => b.term < t
      BY <1>0, <1>1, EarlierVotes
    <3> QED
      BY <1>2, <2>1, <2>2, <3>1, <3>2, <3>3, AdoptKeepsNode, Zenon
  <2>4. DiskGrows
    BY <2>2, <2>3, TermFacts DEF DiskGrows, NodeType, HardState
  <2> QED
    BY <1>5, <2>3, <2>4, FewerCallsKeepNet DEF CallOff, history, DiskGrows
<1>6. ASSUME disk' = [disk EXCEPT ![n] = [term |-> t, vote |-> n]],
             ballots' = ballots \union {[voter |-> n, cand |-> n, term |-> t]},
             NodeType', votes' \in {[votes EXCEPT ![n] = {}], [votes EXCEPT ![n] = {n}]},
             \A l \in elected' : Cardinality(Voters(l.node, l.term)') >= Majority
      PROVE  NodeInv' /\ DiskGrows
  <2>1. \A x \in Node : x # n => votes'[x] = votes[x]
    BY <1>6, Zenon DEF NodeInv, NodeType
  <2>2. votes'[n] \in {{}, {n}}
    BY <1>6, Zenon DEF NodeInv, NodeType
  <2>3. t <= disk'[n].term
    <3>1. disk'[n] = [term |-> t, vote |-> n]
      BY <1>6, Zenon DEF NodeInv, NodeType
    <3> QED
      BY <1>1, <3>1
  <2>4. NodeInv' /\ \A x \in Node : disk[x].term <= disk'[x].term
    <3>1. t >= currentTerm[n] /\ t # currentTerm[n]
      BY <1>0, <1>1
    <3> QED
      BY <1>2, <1>6, <2>1, <2>2, <2>3, <3>1, CastKeepsNode, Zenon
  <2> QED
    BY <2>4, <1>6, TermFacts, Zenon DEF DiskGrows, NodeType, HardState
<1>7. ballots \subseteq [voter : Node, cand : Node, term : Term]
      /\ [voter |-> n, cand |-> n, term |-> t] \in [voter : Node, cand : Node, term : Term]
  BY <1>1 DEF NodeInv, NodeType
<1>8. CASE Stand(n, calls, t)
  <2>1. NodeType'
    <3>1. disk' \in [Node -> HardState]
      BY <1>4, <1>8, Zenon DEF Stand, NodeInv, NodeType
    <3>2. heard' \in [Node -> BOOLEAN]
      BY <1>8 DEF Stand, ResetTimer, NodeInv, NodeType
    <3>3. ballots' \subseteq [voter : Node, cand : Node, term : Term]
      BY <1>7, <1>8, Zenon DEF Stand
    <3>4. /\ role \in [Node -> Role] /\ leaderID \in [Node -> Node \union {None}]
          /\ votes \in [Node -> SUBSET Node] /\ elected \subseteq [node : Node, term : Term]
      BY DEF NodeInv, NodeType
    <3>5. /\ role' = [role EXCEPT ![n] = "Candidate"] /\ votes' = [votes EXCEPT ![n] = {n}]
          /\ leaderID' = [leaderID EXCEPT ![n] = None] /\ elected' = elected
      BY <1>8, Zenon DEF Stand
    <3>6. /\ role' \in [Node -> Role] /\ leaderID' \in [Node -> Node \union {None}]
          /\ votes' \in [Node -> SUBSET Node] /\ elected' \subseteq [node : Node, term : Term]
      BY <3>4, <3>5 DEF Role
    <3> QED
      BY <1>3, <3>1, <3>2, <3>3, <3>6, Zenon DEF NodeType
  <2>2. \A l \in elected' : Cardinality(Voters(l.node, l.term)') >= Majority
    BY <1>8, BackedKept DEF Stand, NodeInv
  <2>3. NodeInv' /\ DiskGrows
    BY <1>6, <1>8, <2>1, <2>2 DEF Stand
  <2>4. PICK S \in SUBSET Peers(n) :
            rpcs' = calls \union {Call("vote", n, p, t) : p \in S}
    BY <1>8 DEF Stand, Broadcast, Reached
  <2>5. NetInv'
    BY <1>1, <1>8, <2>3, <2>4, AskingKeepsNet, Zenon DEF Stand, DiskGrows
  <2> QED
    BY <2>3, <2>5
<1>9. CASE WinAlone(n, calls, t)
  <2>1. NodeType'
    <3>1. disk' \in [Node -> HardState]
      BY <1>4, <1>9 DEF WinAlone, NodeInv, NodeType
    <3>2. heard' \in [Node -> BOOLEAN]
      BY <1>9 DEF WinAlone, BecomeLeader, NodeInv, NodeType
    <3>3. elected' \subseteq [node : Node, term : Term]
      BY <1>1, <1>9 DEF WinAlone, BecomeLeader, NodeInv, NodeType
    <3> QED
      BY <1>3, <1>7, <1>9, <3>1, <3>2, <3>3, Zenon DEF WinAlone, BecomeLeader, NodeInv, NodeType, Role
  <2>2. \A l \in elected' : Cardinality(Voters(l.node, l.term)') >= Majority
    <3>1. n \in Voters(n, t)' /\ Voters(n, t)' \in SUBSET Node
      BY <1>9 DEF WinAlone, Voters
    <3>2. Cardinality({n}) = 1 /\ {n} \in SUBSET Node /\ {n} \subseteq Voters(n, t)'
      BY <3>1, FS_Singleton
    <3>3. Cardinality(Voters(n, t)') >= Majority
      BY <1>9, <3>1, <3>2, VotersGrow, TermFacts DEF WinAlone
    <3>4. ASSUME NEW l \in elected' PROVE Cardinality(Voters(l.node, l.term)') >= Majority
      <4>1. CASE l \in elected
        BY <1>9, <4>1, BackedKept DEF WinAlone, NodeInv
      <4>2. CASE l = [node |-> n, term |-> t]
        BY <3>3, <4>2
      <4> QED
        BY <1>9, <4>1, <4>2 DEF WinAlone, BecomeLeader
    <3> QED
      BY <3>4
  <2>3. NodeInv' /\ DiskGrows
    BY <1>6, <1>9, <2>1, <2>2 DEF WinAlone, BecomeLeader
  <2>4. NetInv'
    <3>1. /\ {} \in SUBSET Peers(n)
          /\ rpcs' = calls \union {Call("vote", n, p, t) : p \in {}}
      BY <1>9 DEF WinAlone
    <3> QED
      BY <1>1, <1>9, <2>3, <3>1, AskingKeepsNet, Zenon DEF WinAlone, DiskGrows
  <2> QED
    BY <2>3, <2>4
<1> QED
  BY <1>1, <1>5, <1>8, <1>9

\* The timers: the clock runs on, a poll or an election starts, a leader
\* steps down.
LEMMA TimerStep ==
    ASSUME NodeInv, NetInv, NEW n \in Node,
           Lapse(n) \/ ElectionTimeout(n) \/ StepDown(n)
    PROVE  NodeInv' /\ NetInv'
<1>1. CASE Lapse(n)
  <2>1. NodeType'
    BY <1>1 DEF Lapse, history, NodeInv, NodeType
  <2> QED
    BY <1>1, <2>1, QuietStep DEF Lapse, history, NetInv
<1>2. CASE StepDown(n)
  <2>1. heard' \in [Node -> BOOLEAN]
    BY <1>2 DEF StepDown, ResetTimer, NodeInv, NodeType
  <2>2. NodeType'
    BY <1>2, <2>1, Zenon DEF StepDown, history, NodeInv, NodeType, Role
  <2> QED
    BY <1>2, <2>2, QuietStep, Zenon DEF StepDown, history, NetInv
<1>3. OldRounds(n) \in SUBSET RPC /\ \A c \in OldRounds(n) : c.kind = "vote" => c \in rpcs
  <2>1. ASSUME NEW m \in rpcs
        PROVE  /\ [m EXCEPT !.caller = "old"] \in RPC
               /\ [m EXCEPT !.caller = "old"].kind = m.kind
    BY <2>1 DEF NetInv, RPC
  <2> QED
    BY <2>1, Zenon DEF OldRounds, NetInv
<1>4. CASE StartElection(n, OldRounds(n))
  BY <1>3, <1>4, StartElectionStep
<1>5. CASE StartPreVote(n) /\ ~StartElection(n, OldRounds(n))
  <2>1. heard' \in [Node -> BOOLEAN]
    BY <1>5, Zenon DEF StartPreVote, ResetTimer, NodeInv, NodeType
  <2>2. NodeType'
    BY <1>5, <2>1 DEF StartPreVote, history, NodeInv, NodeType
  <2>3. PICK S \in SUBSET Peers(n) :
            rpcs' = OldRounds(n) \union {Call("prevote", n, p, currentTerm[n] + 1) : p \in S}
    BY <1>5, Zenon DEF StartPreVote, Broadcast, Reached
  <2>4. ASSUME NEW p \in S
        PROVE  /\ Call("prevote", n, p, currentTerm[n] + 1) \in RPC
               /\ Call("prevote", n, p, currentTerm[n] + 1).kind = "prevote"
    <3>1. /\ p \in Node /\ pos[n] \in Pos /\ 0 \in Term
          /\ currentTerm[n] + 1 \in 0..MaxTerm + 1
      BY TermFacts, Zenon DEF NodeInv, NodeType, Peers
    <3> QED
      BY <3>1, Zenon DEF Call, RPC
  <2>5. rpcs' \subseteq RPC /\ \A c \in rpcs' : c.kind = "vote" => c \in rpcs
    BY <1>3, <2>3, <2>4
  <2> QED
    BY <1>5, <2>2, <2>5, QuietStep DEF StartPreVote, history
<1> QED
  BY <1>1, <1>2, <1>4, <1>5, Zenon DEF ElectionTimeout

\* HandleRequestVote: a pre-vote changes nothing, a vote binds.
LEMMA HandleVoteStep ==
    ASSUME NodeInv, NetInv, NEW m \in rpcs,
           HandlePreVote(m) \/ HandleRequestVote(m)
    PROVE  NodeInv' /\ NetInv'
<1> DEFINE n == m.to
<1>1. /\ m \in RPC /\ n \in Node /\ m.from \in Node /\ m.term \in Nat
      /\ currentTerm[n] \in Term /\ currentTerm[n] \in Nat
  <2>1. m \in RPC /\ n \in Node /\ m.from \in Node /\ m.term \in Nat
    BY ConstantsAssumption DEF NetInv, RPC
  <2> QED
    BY <2>1, TermFacts, Zenon DEF NodeInv, NodeType
<1>2. CASE HandlePreVote(m)
  <2>1. NodeType'
    BY <1>2 DEF HandlePreVote, volatile, history, NodeInv, NodeType
  <2>2. PICK g \in BOOLEAN : Answer(m, currentTerm[n], g)
    <3>1. PreVoteGranted(n, m) \in BOOLEAN
      BY Zenon DEF PreVoteGranted
    <3> QED
      BY <1>2, <3>1, Zenon DEF HandlePreVote
  <2>3. UNCHANGED <<currentTerm, votedFor, disk, ballots, elected>> /\ votes' = votes
    BY <1>2, Zenon DEF HandlePreVote, volatile, history
  <2>4. \E t \in Term, b \in BOOLEAN :
            Answer(m, t, b) /\ ~m.answered /\ (m.kind = "vote" => ~b)
    BY <1>1, <1>2, <2>2 DEF HandlePreVote
  <2> QED
    BY <2>1, <2>3, <2>4, QuietStep
<1>3. ASSUME m.kind = "vote" PROVE m.term \in Term
  <2>1. m.term <= disk[m.from].term /\ disk[m.from].term \in Term
    BY <1>1, <1>3 DEF NetInv, NodeInv, NodeType, HardState
  <2> QED
    BY <1>1, <2>1, ConstantsAssumption DEF Term
<1>4. CASE HandleRequestVote(m) /\ RefuseVote(m)
  <2>1. NodeType'
    BY <1>4 DEF RefuseVote, volatile, history, NodeInv, NodeType
  <2> QED
    BY <1>1, <1>4, <2>1, QuietStep, Zenon DEF HandleRequestVote, RefuseVote, volatile, history
<1>5. CASE HandleRequestVote(m) /\ AdoptAndRefuse(m)
  <2>1. NodeInv' /\ DiskGrows /\ ballots' = ballots
    BY <1>1, <1>3, <1>5, BecomeFollowerKeepsNode, Zenon DEF HandleRequestVote, AdoptAndRefuse
  <2> QED
    BY <1>1, <1>3, <1>5, <2>1, AnswerKeepsNet, Zenon
       DEF HandleRequestVote, AdoptAndRefuse, DiskGrows
<1>6. CASE HandleRequestVote(m) /\ GrantVote(m)
  <2>1. m.kind = "vote" /\ ~m.answered /\ m.term >= currentTerm[n]
    BY <1>6, Zenon DEF HandleRequestVote, GrantVote, Considered
  <2>2. m.term \in Term
    BY <1>3, <2>1
  <2>3. /\ votedFor' = [votedFor EXCEPT ![n] = m.from]
        /\ disk' = [disk EXCEPT ![n] = [term |-> m.term, vote |-> m.from]]
        /\ ballots' = ballots \union {BallotFor(m)}
        /\ UNCHANGED <<leaderID, pos, stopped, elected>>
        /\ Answer(m, m.term, TRUE)
    BY <1>6, Zenon DEF GrantVote, BallotFor
  <2>4. \/ m.term > currentTerm[n] /\ AdoptTerm(n, m.term)
        \/ m.term = currentTerm[n] /\ UNCHANGED <<currentTerm, role, poll, votes>>
    BY <1>6, Zenon DEF GrantVote
  <2>5. m.term = currentTerm[n] => votedFor[n] \in {None, m.from}
    <3>1. VoteFree(n, m)
      BY <1>6, Zenon DEF GrantVote
    <3> QED
      BY <1>1, <3>1 DEF VoteFree
  <2>6. currentTerm' = [currentTerm EXCEPT ![n] = m.term]
    BY <2>4 DEF AdoptTerm, NodeInv, NodeType
  <2>7. NodeType'
    <3>1. heard' \in [Node -> BOOLEAN]
      BY <1>6, Zenon DEF GrantVote, ResetTimer, NodeInv, NodeType
    <3>2. disk' \in [Node -> HardState]
      BY <1>1, <2>2, <2>3, Zenon DEF NodeInv, NodeType, HardState
    <3>3. ballots' \subseteq [voter : Node, cand : Node, term : Term]
      <4>1. BallotFor(m) \in [voter : Node, cand : Node, term : Term]
        BY <1>1, <2>2 DEF BallotFor
      <4> QED
        BY <2>3, <4>1, Zenon DEF NodeInv, NodeType
    <3>4. /\ role' \in [Node -> Role] /\ poll' \in [Node -> SUBSET Node]
          /\ votes' \in [Node -> SUBSET Node]
      BY <2>4 DEF AdoptTerm, NodeInv, NodeType, Role
    <3> QED
      BY <1>1, <2>2, <2>3, <2>6, <3>1, <3>2, <3>3, <3>4, Zenon DEF NodeInv, NodeType
  <2>8. m.term <= disk'[m.from].term
    <3>1. m.term <= disk[m.from].term
      BY <2>1, Zenon DEF NetInv
    <3>2. disk'[m.from] \in {disk[m.from], [term |-> m.term, vote |-> m.from]}
      BY <1>1, <2>3, Zenon DEF NodeInv, NodeType
    <3> QED
      BY <1>1, <3>1, <3>2
  <2>9. /\ \A x \in Node : x # n => votes'[x] = votes[x]
        /\ votes'[n] = {} \/ (votes'[n] = votes[n] /\ m.term = currentTerm[n])
    BY <1>1, <2>4 DEF AdoptTerm, NodeInv, NodeType
  <2>10. \A l \in elected' : Cardinality(Voters(l.node, l.term)') >= Majority
    BY <2>3, BackedKept DEF NodeInv
  <2>11. NodeInv' /\ \A x \in Node : disk[x].term <= disk'[x].term
    BY <1>1, <2>1, <2>2, <2>3, <2>5, <2>6, <2>7, <2>8, <2>9, <2>10, CastKeepsNode, Zenon
       DEF BallotFor
  <2>12. DiskGrows
    BY <2>7, <2>11, TermFacts, Zenon DEF DiskGrows, NodeType, HardState
  <2> QED
    BY <2>1, <2>2, <2>3, <2>11, <2>12, AnswerKeepsNet, Zenon DEF DiskGrows
<1>7. CASE HandleRequestVote(m) /\ FailToVote(m)
  <2>1. m.kind = "vote" /\ ~m.answered /\ m.term >= currentTerm[n]
    BY <1>7, Zenon DEF HandleRequestVote, FailToVote, Considered
  <2>2. m.term \in Term
    BY <1>3, <2>1
  <2>3. PICK h : /\ h = disk[n] \/ h.term = m.term
                 /\ h \in HardState /\ disk' = [disk EXCEPT ![n] = h]
    <3>1. PICK h0 \in BeforeVote(n, m) :
              \E h \in {h0, [term |-> m.term, vote |-> m.from]} :
                  disk' = [disk EXCEPT ![n] = h]
      BY <1>7, Zenon DEF FailToVote, NotSaved
    <3>2. h0 \in {disk[n], [term |-> m.term, vote |-> None]}
      BY <3>1, Zenon DEF BeforeVote, AdoptedHardState, Saved, NotSaved
    <3> QED
      BY <1>1, <2>2, <3>1, <3>2, Zenon DEF HardState, NodeInv, NodeType
  <2>4. /\ votedFor' = [votedFor EXCEPT ![n] = None]
        /\ UNCHANGED <<leaderID, pos, stopped, ballots, elected>>
        /\ Answer(m, m.term, FALSE)
    BY <1>7, Zenon DEF FailToVote, history
  <2>5. \/ m.term > currentTerm[n] /\ AdoptTerm(n, m.term) /\ ResetTimer(n, leaderID[n])
        \/ m.term = currentTerm[n] /\ UNCHANGED <<currentTerm, role, heard, poll, votes>>
    BY <1>7, Zenon DEF FailToVote
  <2>6. currentTerm' = [currentTerm EXCEPT ![n] = m.term]
    BY <2>5 DEF AdoptTerm, NodeInv, NodeType
  <2>7. \A b \in ballots : b.voter = n => b.term < m.term
    <3>1. CASE m.term > currentTerm[n]
      BY <1>1, <2>2, <3>1, EarlierVotes
    <3>2. CASE m.term = currentTerm[n]
      <4> SUFFICES ASSUME NEW b \in ballots, b.voter = n PROVE b.term < m.term
        OBVIOUS
      <4>1. /\ b \in [voter : Node, cand : Node, term : Term]
            /\ b.term \in Nat /\ disk[n].term \in Nat
        BY <1>1, TermFacts DEF NodeInv, NodeType, HardState
      <4>2. /\ b.term <= disk[n].term /\ disk[n].term <= currentTerm[n]
            /\ b.term = currentTerm[n] => votedFor[n] = b.cand
        BY DEF NodeInv, VoteKept
      <4>3. votedFor[n] \in {None, m.from}
        <5>1. VoteFree(n, m)
          BY <1>7, Zenon DEF FailToVote
        <5> QED
          BY <1>1, <3>2, <5>1 DEF VoteFree
      <4>4. b.term # m.term
        <5> SUFFICES ASSUME b.term = m.term PROVE FALSE
          OBVIOUS
        <5>1. b.cand = m.from
          BY <3>2, <4>1, <4>2, <4>3, ConstantsAssumption, Zenon
        <5>2. b = BallotFor(m)
          BY <4>1, <5>1 DEF BallotFor
        <5> QED
          BY <2>1, <5>2 DEF NetInv
      <4> QED
        BY <1>1, <3>2, <4>1, <4>2, <4>4
    <3> QED
      BY <2>5, <3>1, <3>2, Zenon
  <2>8. NodeType'
    <3>1. heard' \in [Node -> BOOLEAN]
      BY <2>5, Zenon DEF ResetTimer, NodeInv, NodeType
    <3>2. disk' \in [Node -> HardState]
      BY <2>3, Zenon DEF NodeInv, NodeType
    <3>3. /\ role' \in [Node -> Role] /\ poll' \in [Node -> SUBSET Node]
          /\ votes' \in [Node -> SUBSET Node]
      BY <2>5 DEF AdoptTerm, NodeInv, NodeType, Role
    <3> QED
      BY <1>1, <2>2, <2>4, <2>6, <3>1, <3>2, <3>3, Zenon DEF NodeInv, NodeType
  <2>9. \/ votes' = [votes EXCEPT ![n] = {}]
        \/ votes' = votes /\ m.term = currentTerm[n]
    BY <2>5, Zenon DEF AdoptTerm
  <2>10. NodeInv' /\ \A x \in Node : disk[x].term <= disk'[x].term
    BY <1>1, <2>1, <2>2, <2>3, <2>4, <2>6, <2>7, <2>8, <2>9, AdoptKeepsNode, Zenon
  <2>11. DiskGrows
    BY <2>8, <2>10, TermFacts, Zenon DEF DiskGrows, NodeType, HardState
  <2> QED
    BY <2>1, <2>2, <2>4, <2>10, <2>11, AnswerKeepsNet, Zenon DEF DiskGrows
<1> QED
  BY <1>2, <1>4, <1>5, <1>6, <1>7 DEF HandleRequestVote

\* HandleAppendEntries and HandleInstallSnapshot.
LEMMA HandleLeaderCallStep ==
    ASSUME NodeInv, NetInv, NEW m \in rpcs, HandleLeaderCall(m)
    PROVE  NodeInv' /\ NetInv'
<1> DEFINE n == m.to
<1>1. /\ m \in RPC /\ n \in Node /\ m.from \in Node /\ m.term \in Nat
      /\ m.kind = "append" /\ ~m.answered
  BY ConstantsAssumption DEF NetInv, RPC, HandleLeaderCall
<1>2. currentTerm[n] \in Term /\ currentTerm[n] \in Nat
  BY <1>1, TermFacts, Zenon DEF NodeInv, NodeType
<1>3. CASE RefuseLeader(m)
  <2>1. /\ Answer(m, currentTerm[n], FALSE)
        /\ UNCHANGED <<volatile, pos, disk, stopped, history>>
    BY <1>3, Zenon DEF RefuseLeader
  <2>2. NodeType'
    BY <2>1 DEF volatile, history, NodeInv, NodeType
  <2> QED
    BY <1>1, <1>2, <2>1, <2>2, QuietStep, Zenon DEF volatile, history
<1>4. CASE FollowLeader(m)
  <2>1. /\ leaderID' = [leaderID EXCEPT ![n] = m.from]
        /\ ResetTimer(n, m.from)
        /\ \E r \in Pos : pos' = [pos EXCEPT ![n] = r]
        /\ Answer(m, m.term, FALSE)
        /\ UNCHANGED <<stopped, ballots, elected>>
    <3>1. m.pos \in Pos
      BY <1>1 DEF RPC
    <3>2. 0..m.pos \subseteq Pos
      BY <3>1, ConstantsAssumption DEF Pos
    <3>3. {pos[n]} \union 0..m.pos \subseteq Pos
      BY <1>1, <3>2, Zenon DEF NodeInv, NodeType
    <3> QED
      BY <1>4, <3>3, Zenon DEF FollowLeader, history
  <2>2. /\ leaderID' \in [Node -> Node \union {None}] /\ heard' \in [Node -> BOOLEAN]
        /\ pos' \in [Node -> Pos] /\ stopped' \in [Node -> BOOLEAN]
        /\ ballots' \subseteq [voter : Node, cand : Node, term : Term]
        /\ elected' \subseteq [node : Node, term : Term]
    <3>1. heard' \in [Node -> BOOLEAN]
      BY <2>1, Zenon DEF ResetTimer, NodeInv, NodeType
    <3>2. pos' \in [Node -> Pos]
      BY <2>1, Zenon DEF NodeInv, NodeType
    <3>3. leaderID' \in [Node -> Node \union {None}]
      BY <1>1, <2>1, Zenon DEF NodeInv, NodeType
    <3> QED
      BY <2>1, <3>1, <3>2, <3>3, Zenon DEF NodeInv, NodeType
  <2>3. m.term \in Term
    BY <1>1 DEF RPC
  <2>4. CASE m.term > currentTerm[n] /\ EnterTerm(n, m.term)
    <3>1. /\ AdoptTerm(n, m.term) /\ votedFor' = [votedFor EXCEPT ![n] = None]
          /\ \E h \in AdoptedHardState(n, m.term) : disk' = [disk EXCEPT ![n] = h]
      BY <2>4, Zenon DEF EnterTerm
    <3>2. PICK h \in {disk[n], [term |-> m.term, vote |-> None]} :
              disk' = [disk EXCEPT ![n] = h]
      BY <3>1, Zenon DEF AdoptedHardState, Saved, NotSaved
    <3>3. h \in HardState /\ (h = disk[n] \/ h.term = m.term)
      <4>1. disk[n] \in HardState
        BY <1>1, Zenon DEF NodeInv, NodeType
      <4>2. [term |-> m.term, vote |-> None] \in HardState
        BY <2>3 DEF HardState
      <4> QED
        BY <3>2, <4>1, <4>2
    <3>4. NodeType'
      <4>1. disk' \in [Node -> HardState]
        BY <3>2, <3>3, Zenon DEF NodeInv, NodeType
      <4> QED
        BY <1>1, <2>2, <2>3, <3>1, <4>1, Zenon DEF AdoptTerm, NodeInv, NodeType, Role
    <3>5. m.term >= currentTerm[n] /\ \A b \in ballots : b.voter = n => b.term < m.term
      <4>1. m.term > currentTerm[n] /\ m.term >= currentTerm[n]
        BY <1>1, <1>2, <2>4
      <4> QED
        BY <1>1, <2>3, <4>1, EarlierVotes, Zenon
    <3>6. NodeInv' /\ \A x \in Node : disk[x].term <= disk'[x].term
      BY <1>1, <2>1, <2>3, <3>1, <3>2, <3>3, <3>4, <3>5, AdoptKeepsNode, Zenon DEF AdoptTerm
    <3>7. DiskGrows
      BY <3>4, <3>6, TermFacts, Zenon DEF DiskGrows, NodeType, HardState
    <3> QED
      BY <1>1, <2>1, <2>3, <3>6, <3>7, AnswerKeepsNet, Zenon DEF DiskGrows
  <2>5. CASE m.term = currentTerm[n] /\ StayInTerm(n)
    <3>1. /\ role' = [role EXCEPT ![n] = "Follower"]
          /\ votes' = [votes EXCEPT ![n] = {}]
          /\ UNCHANGED <<currentTerm, votedFor, poll, disk>>
      BY <2>5 DEF StayInTerm
    <3>2. NodeType'
      BY <2>2, <3>1, Zenon DEF NodeInv, NodeType, Role
    <3>3. \A x \in Node : votes'[x] \subseteq votes[x]
      BY <3>1 DEF NodeInv, NodeType
    <3> QED
      BY <1>1, <2>1, <2>3, <3>1, <3>2, <3>3, QuietStep, Zenon
  <2> QED
    BY <1>4, <2>4, <2>5, Zenon DEF FollowLeader
<1> QED
  BY <1>3, <1>4 DEF HandleLeaderCall

\* The goroutines that read the answers.
LEMMA ReadStep ==
    ASSUME NodeInv, NetInv, NEW m \in rpcs, Read(m)
    PROVE  NodeInv' /\ NetInv'
<1> DEFINE n == m.from
<1>1. m \in RPC /\ n \in Node /\ m.to \in Node
  BY DEF NetInv, RPC
<1>2. rpcs \ {m} \in SUBSET RPC /\ \A c \in rpcs \ {m} : c.kind = "vote" => c \in rpcs
  BY DEF NetInv
<1>3. CASE AdoptAnswer(m)
  BY <1>3, AdoptAnswerStep
<1>4. CASE Ignore(m)
  BY <1>4, IgnoreStep
<1>5. CASE PreVoteAnswered(m) /\ ~AdoptAnswer(m) /\ ~Ignore(m)
  <2>1. CASE StartElection(n, rpcs \ {m})
    BY <1>1, <1>2, <2>1, StartElectionStep, Zenon
  <2>2. CASE ~StartElection(n, rpcs \ {m})
    <3>1. /\ poll' = [poll EXCEPT ![n] = poll[n] \union {m.to}]
          /\ rpcs' = rpcs \ {m}
          /\ UNCHANGED <<currentTerm, votedFor, role, leaderID, heard, votes,
                         pos, disk, stopped, ballots, elected>>
      BY <1>5, <2>2, Zenon DEF PreVoteAnswered, Superseded, history
    <3>2. NodeType'
      BY <1>1, <3>1, Zenon DEF NodeInv, NodeType
    <3> QED
      BY <1>2, <3>1, <3>2, QuietStep
  <2> QED
    BY <2>1, <2>2
<1>6. CASE VoteAnswered(m) /\ ~AdoptAnswer(m) /\ ~Ignore(m)
  <2>1. /\ m.kind = "vote" /\ m.answered /\ m.granted /\ m.term = currentTerm[n]
        /\ rpcs' = rpcs \ {m}
        /\ UNCHANGED <<currentTerm, votedFor, poll, pos, disk, stopped, ballots>>
    BY <1>6, Zenon DEF VoteAnswered, Superseded, VoteCounts
  <2>2. BallotFor(m) \in ballots /\ m.term \in Term
    BY <1>1, <2>1, Zenon DEF NetInv, NodeInv, NodeType
  <2> DEFINE granted == votes[n] \union {m.to}
  <2>3. granted \subseteq Voters(n, m.term) /\ granted \subseteq Node
    BY <1>1, <2>1, <2>2, Zenon DEF Voters, BallotFor, NodeInv, NodeType, TalliesReal
  <2>4. DiskBehind' /\ VoteKept' /\ CandidacyDurable'
    BY <2>1 DEF NodeInv, DiskBehind, VoteKept, CandidacyDurable
  <2>5. CASE Cardinality(granted) = Majority /\ BecomeLeader(n, m.term)
    <3>1. NodeType'
      <4>1. heard' \in [Node -> BOOLEAN]
        BY <2>5, Zenon DEF BecomeLeader, NodeInv, NodeType
      <4>2. elected' \subseteq [node : Node, term : Term]
        <5>1. [node |-> n, term |-> m.term] \in [node : Node, term : Term]
          BY <1>1, <2>2
        <5> QED
          BY <2>5, <5>1, Zenon DEF BecomeLeader, NodeInv, NodeType
      <4> QED
        BY <1>1, <2>1, <2>5, <4>1, <4>2, Zenon DEF BecomeLeader, NodeInv, NodeType, Role
    <3>2. Cardinality(Voters(n, m.term)) >= Majority
      <4>1. Voters(n, m.term) \in SUBSET Node /\ Cardinality(granted) >= Majority
        BY <2>5, TermFacts DEF Voters
      <4> QED
        BY <2>3, <4>1, VotersGrow
    <3>3. Backed'
      <4> SUFFICES ASSUME NEW l \in elected'
                   PROVE  Cardinality(Voters(l.node, l.term)') >= Majority
        BY DEF Backed
      <4>1. Voters(l.node, l.term)' = Voters(l.node, l.term)
        BY <2>1 DEF Voters
      <4>2. l \in elected \/ l = [node |-> n, term |-> m.term]
        BY <2>5 DEF BecomeLeader
      <4> QED
        BY <3>2, <4>1, <4>2 DEF NodeInv, Backed
    <3>4. TalliesReal'
      BY <2>1, <2>5, Zenon DEF BecomeLeader, NodeInv, NodeType, TalliesReal
    <3> QED
      BY <1>2, <2>1, <2>4, <3>1, <3>3, <3>4, DropKeepsNet DEF NodeInv
  <2>6. CASE ~(Cardinality(granted) = Majority /\ BecomeLeader(n, m.term))
    <3>1. /\ votes' = [votes EXCEPT ![n] = granted]
          /\ UNCHANGED <<role, leaderID, heard, elected>>
      BY <1>6, <2>6, Zenon DEF VoteAnswered, Superseded
    <3>2. NodeType'
      BY <1>1, <2>1, <2>3, <3>1, Zenon DEF NodeInv, NodeType
    <3>3. Backed'
      BY <2>1, <3>1, Zenon DEF NodeInv, Backed, Voters
    <3>4. TalliesReal'
      <4> SUFFICES ASSUME NEW x \in Node, NEW w \in votes'[x]
                   PROVE  [voter |-> w, cand |-> x, term |-> currentTerm[x]] \in ballots
        BY <2>1, Zenon DEF TalliesReal
      <4>1. CASE x = n
        BY <1>1, <2>1, <2>3, <3>1, <4>1, Zenon DEF Voters, NodeInv, NodeType
      <4>2. CASE x # n
        BY <3>1, <4>2, Zenon DEF NodeInv, NodeType, TalliesReal
      <4> QED
        BY <4>1, <4>2
    <3> QED
      BY <1>2, <2>1, <2>4, <3>2, <3>3, <3>4, DropKeepsNet DEF NodeInv
  <2> QED
    BY <1>6, <2>5, <2>6, Zenon DEF VoteAnswered, Superseded
<1> QED
  BY <1>3, <1>4, <1>5, <1>6, Zenon DEF Read, LeaderCallAnswered

LEMMA SendStep ==
    ASSUME NodeInv, NetInv, NEW n \in Node, NEW p \in Node, n # p, Replicate(n, p)
    PROVE  NodeInv' /\ NetInv'
<1>1. NodeType'
  BY DEF Replicate, volatile, history, NodeInv, NodeType
<1>2. rpcs' = rpcs \union {Call("append", n, p, currentTerm[n])}
  BY DEF Replicate, Broadcast
<1>3. /\ Call("append", n, p, currentTerm[n]) \in RPC
      /\ Call("append", n, p, currentTerm[n]).kind = "append"
  <2>1. /\ pos[n] \in Pos /\ 0 \in Term /\ currentTerm[n] \in Term
        /\ currentTerm[n] \in 0..MaxTerm + 1
    BY TermFacts, ConstantsAssumption DEF NodeInv, NodeType, Term
  <2> QED
    BY <2>1 DEF Call, RPC
<1>4. rpcs' \subseteq RPC /\ \A c \in rpcs' : c.kind = "vote" => c \in rpcs
  BY <1>2, <1>3, Zenon DEF NetInv
<1> QED
  BY <1>1, <1>4, QuietStep, Zenon DEF Replicate, volatile, history

LEMMA ProposeStopStep ==
    ASSUME NodeInv, NetInv, NEW n \in Node, Propose(n) \/ Stop(n)
    PROVE  NodeInv' /\ NetInv'
<1>1. CASE Propose(n)
  <2>1. pos' \in [Node -> Pos]
    <3>1. pos[n] + 1 \in Pos
      BY <1>1, ConstantsAssumption DEF Propose, NodeInv, NodeType, Pos
    <3> QED
      BY <1>1, <3>1 DEF Propose, NodeInv, NodeType
  <2>2. NodeType'
    BY <1>1, <2>1, Zenon DEF Propose, volatile, history, NodeInv, NodeType
  <2> QED
    BY <1>1, <2>2, QuietStep, Zenon DEF Propose, volatile, history, NetInv
<1>2. CASE Stop(n)
  <2>1. NodeType'
    BY <1>2 DEF Stop, volatile, history, NodeInv, NodeType
  <2> QED
    BY <1>2, <2>1, QuietStep, Zenon DEF Stop, volatile, history, NetInv
<1> QED
  BY <1>1, <1>2

\* A process dies and recovers its term and its vote from the disk.
LEMMA RestartStep ==
    ASSUME NodeInv, NetInv, NEW n \in Node, Restart(n)
    PROVE  NodeInv' /\ NetInv'
<1>1. /\ currentTerm' = [currentTerm EXCEPT ![n] = disk[n].term]
      /\ votedFor' = [votedFor EXCEPT ![n] = disk[n].vote]
      /\ votes' = [votes EXCEPT ![n] = {}]
      /\ disk' = disk /\ ballots' = ballots /\ elected' = elected
  BY DEF Restart, history
<1>2. disk[n].term \in Term /\ disk[n].vote \in Node \union {None}
  BY DEF NodeInv, NodeType, HardState
<1>3. NodeType'
  <2>1. heard' \in [Node -> BOOLEAN] /\ stopped' \in [Node -> BOOLEAN]
    BY DEF Restart, ResetTimer, NodeInv, NodeType
  <2>2. pos' \in [Node -> Pos]
    BY DEF Restart, NodeInv, NodeType
  <2>3. /\ role' \in [Node -> Role] /\ leaderID' \in [Node -> Node \union {None}]
        /\ poll' \in [Node -> SUBSET Node]
    BY DEF Restart, NodeInv, NodeType, Role
  <2> QED
    BY <1>1, <1>2, <2>1, <2>2, <2>3, Zenon DEF NodeInv, NodeType
<1>4. \A x \in Node : disk[x].term \in Nat /\ currentTerm[x] \in Nat
  BY TermFacts, Zenon DEF NodeInv, NodeType, HardState
<1>5. DiskBehind'
  BY <1>1, <1>4 DEF NodeInv, NodeType, DiskBehind
<1>6. VoteKept'
  <2> SUFFICES ASSUME NEW b \in ballots
               PROVE  LET v == b.voter IN
                      /\ b.term <= disk[v].term /\ disk[v].term <= currentTerm'[v]
                      /\ b.term = disk[v].term => disk[v].vote = b.cand
                      /\ b.term = currentTerm'[v] => votedFor'[v] = b.cand
    BY <1>1 DEF VoteKept
  <2>1. b.voter \in Node
    BY DEF NodeInv, NodeType
  <2>2. CASE b.voter = n
    BY <1>1, <1>4, <2>1, <2>2 DEF NodeInv, NodeType, VoteKept
  <2>3. CASE b.voter # n
    BY <1>1, <2>1, <2>3 DEF NodeInv, NodeType, VoteKept
  <2> QED
    BY <2>2, <2>3, Zenon
<1>7. TalliesReal'
  BY <1>1, Zenon DEF NodeInv, NodeType, TalliesReal
<1>8. Backed' /\ CandidacyDurable'
  BY <1>1 DEF NodeInv, Backed, Voters, CandidacyDurable
<1>9. NetInv'
  BY <1>1, GoneKeepsNet, Zenon DEF Restart
<1> QED
  BY <1>3, <1>5, <1>6, <1>7, <1>8, <1>9 DEF NodeInv

LEMMA ElectionInvStep == ElectionInv /\ [Next]_vars => ElectionInv'
<1> SUFFICES ASSUME NodeInv, NetInv, [Next]_vars PROVE NodeInv' /\ NetInv'
  <2>1. ElectionInv' <=> NodeInv' /\ NetInv'
    BY SplitInv, PTL
  <2> QED
    BY <2>1, SplitInv
<1>1. ASSUME NEW n \in Node,
             \/ Lapse(n) \/ ElectionTimeout(n) \/ StepDown(n)
             \/ Propose(n) \/ Stop(n) \/ Restart(n)
      PROVE  NodeInv' /\ NetInv'
  BY <1>1, TimerStep, ProposeStopStep, RestartStep
<1>2. ASSUME NEW m \in rpcs, Serve(m) PROVE NodeInv' /\ NetInv'
  BY <1>2, HandleVoteStep, HandleLeaderCallStep DEF Serve
<1>3. CASE UNCHANGED vars
  <2>1. NodeInv'
    BY <1>3, Zenon DEF vars, NodeInv, NodeType, DiskBehind, VoteKept, TalliesReal, Backed,
                Voters, CandidacyDurable
  <2>2. NetInv'
    BY <1>3, Zenon DEF vars, NetInv, BallotFor
  <2> QED
    BY <2>1, <2>2
<1> QED
  BY <1>1, <1>2, <1>3, SendStep, ReadStep DEF Next

\* Type correctness and the rest of the inductive invariant.
THEOREM ElectionInvariant == Spec => []ElectionInv
<1>1. Init => ElectionInv
  <2> SUFFICES ASSUME Init PROVE NodeInv /\ NetInv
    BY SplitInv
  <2>1. NodeType
    BY TermFacts, ConstantsAssumption DEF Init, NodeType, Role, HardState, Pos
  <2>2. DiskBehind
    BY DEF Init, DiskBehind
  <2> QED
    BY <2>1, <2>2 DEF Init, NodeInv, NetInv, VoteKept, TalliesReal, Backed, CandidacyDurable
<1> QED
  BY <1>1, ElectionInvStep, PTL DEF Spec

-----------------------------------------------------------------------------
\* The election implements Voting.

\* A binding vote of the model is a vote of Voting: the voter has no other vote
\* in that term.
LEMMA FreeVote ==
    ASSUME NodeInv, NEW v \in Node, NEW c \in Node, NEW t \in Term,
           \/ t > currentTerm[v]
           \/ t = currentTerm[v] /\ votedFor[v] \in {None, c}
    PROVE  \A b \in ballots : b.voter = v /\ b.term = t => b.cand = c
<1>1. t \in Nat /\ currentTerm[v] \in Nat
  BY TermFacts, Zenon DEF NodeInv, NodeType
<1>2. CASE t > currentTerm[v]
  <2>1. \A b \in ballots : b.voter = v => b.term < t /\ b.term \in Nat
    BY <1>2, EarlierVotes, TermFacts, Zenon DEF NodeInv, NodeType
  <2>2. \A x \in Nat : x < t => x # t
    BY <1>1
  <2> QED
    BY <2>1, <2>2, Zenon
<1>3. CASE t = currentTerm[v] /\ votedFor[v] \in {None, c}
  BY <1>3, ConstantsAssumption, Zenon DEF NodeInv, NodeType, VoteKept
<1> QED
  BY <1>2, <1>3

LEMMA RefinementStep == ElectionInv /\ [Next]_vars => [V!Next]_(V!vars)
<1> SUFFICES ASSUME NodeInv, NetInv, [Next]_vars PROVE V!Next \/ UNCHANGED history
  BY SplitInv DEF V!vars, history
<1>1. ASSUME NEW n \in Node, NEW calls, StartElection(n, calls)
      PROVE  V!Next \/ UNCHANGED history
  <2>1. currentTerm[n] \in Nat /\ currentTerm[n] \in Term
    BY TermFacts, Zenon DEF NodeInv, NodeType
  <2>2. PICK t \in Term :
            /\ t = currentTerm[n] + 1
            /\ Stand(n, calls, t) \/ WinAlone(n, calls, t) \/ CallOff(n, calls, t)
    BY <1>1, <2>1, TermFacts DEF StartElection
  <2>3. \A b \in ballots : b.voter = n /\ b.term = t => b.cand = n
    <3>1. t > currentTerm[n]
      BY <2>1, <2>2
    <3> QED
      BY <3>1, FreeVote
  <2>4. CASE Stand(n, calls, t)
    BY <2>3, <2>4 DEF Stand, V!Cast, V!MayVote, V!Next
  <2>5. CASE WinAlone(n, calls, t)
    <3>1. V!HasQuorum(n, t)'
      <4>1. Cardinality({n}) = 1 /\ {n} \subseteq Node
        BY FS_Singleton
      <4>2. {n} \in Quorums
        BY <2>5, <4>1, TermFacts DEF WinAlone, Quorums
      <4>3. n \in V!VotersOf(n, t)'
        BY <2>5 DEF WinAlone, V!VotersOf
      <4> QED
        BY <4>2, <4>3 DEF V!HasQuorum
    <3> QED
      BY <2>3, <2>5, <3>1, Zenon DEF WinAlone, BecomeLeader, V!CastAndWin, V!MayVote, V!Next
  <2>6. CASE CallOff(n, calls, t)
    BY <2>6 DEF CallOff
  <2> QED
    BY <2>2, <2>4, <2>5, <2>6
<1>2. ASSUME NEW n \in Node,
             \/ Lapse(n) \/ ElectionTimeout(n) \/ StepDown(n)
             \/ Propose(n) \/ Stop(n) \/ Restart(n)
      PROVE  V!Next \/ UNCHANGED history
  BY <1>1, <1>2 DEF Lapse, ElectionTimeout, StartPreVote, StepDown, Propose, Stop, Restart
<1>3. ASSUME NEW m \in rpcs, Serve(m) PROVE V!Next \/ UNCHANGED history
  <2>1. m \in RPC /\ m.to \in Node /\ m.from \in Node /\ m.term \in Nat
    BY ConstantsAssumption DEF NetInv, RPC
  <2>2. CASE HandleRequestVote(m) /\ GrantVote(m)
    <3>1. m.term \in Term /\ currentTerm[m.to] \in Nat
      BY <2>1, <2>2, TermFacts, Zenon DEF HandleRequestVote, RPC, NodeInv, NodeType
    <3>2. \/ m.term > currentTerm[m.to]
          \/ m.term = currentTerm[m.to] /\ votedFor[m.to] \in {None, m.from}
      BY <2>1, <2>2, <3>1, Zenon DEF GrantVote, Considered, VoteFree
    <3>3. \A b \in ballots : b.voter = m.to /\ b.term = m.term => b.cand = m.from
      BY <2>1, <3>1, <3>2, FreeVote
    <3> QED
      <4>1. V!Cast(m.to, m.from, m.term)
        BY <2>2, <3>3, Zenon DEF GrantVote, V!Cast, V!MayVote
      <4> QED
        BY <2>1, <3>1, <4>1, Zenon DEF V!Next
  <2>3. CASE ~GrantVote(m)
    BY <1>3, <2>3, Zenon DEF Serve, HandlePreVote, HandleRequestVote, HandleLeaderCall,
       RefuseVote, AdoptAndRefuse, FailToVote, BecomeFollower, RefuseLeader, FollowLeader
  <2>4. CASE HandlePreVote(m) \/ HandleLeaderCall(m)
    BY <2>4, Zenon DEF HandlePreVote, HandleLeaderCall, RefuseLeader, FollowLeader
  <2> QED
    BY <1>3, <2>2, <2>3, <2>4 DEF Serve
<1>4. ASSUME NEW m \in rpcs, Read(m) PROVE V!Next \/ UNCHANGED history
  <2>1. m \in RPC /\ m.to \in Node /\ m.from \in Node
    BY DEF NetInv, RPC
  <2>2. CASE AdoptAnswer(m) \/ Ignore(m)
    BY <2>2 DEF AdoptAnswer, BecomeFollower, Ignore
  <2>3. CASE PreVoteAnswered(m) /\ ~AdoptAnswer(m) /\ ~Ignore(m)
    BY <1>1, <2>1, <2>3, Zenon DEF PreVoteAnswered, Superseded
  <2>4. CASE VoteAnswered(m) /\ ~AdoptAnswer(m) /\ ~Ignore(m)
    <3>1. /\ m.kind = "vote" /\ m.answered /\ m.granted /\ m.term = currentTerm[m.from]
          /\ ballots' = ballots
      BY <2>4, Zenon DEF VoteAnswered, Superseded, VoteCounts
    <3>2. BallotFor(m) \in ballots /\ m.term \in Term
      BY <2>1, <3>1 DEF NetInv, RPC
    <3> DEFINE granted == votes[m.from] \union {m.to}
    <3>3. granted \subseteq V!VotersOf(m.from, m.term) /\ granted \subseteq Node
      BY <2>1, <3>1, <3>2, Zenon DEF V!VotersOf, BallotFor, NodeInv, NodeType, TalliesReal
    <3>4. CASE Cardinality(granted) = Majority /\ BecomeLeader(m.from, m.term)
      <4>1. granted \in Quorums
        BY <3>3, <3>4, TermFacts DEF Quorums
      <4>2. V!HasQuorum(m.from, m.term)
        BY <3>3, <4>1 DEF V!HasQuorum
      <4> QED
        BY <2>1, <3>1, <3>2, <3>4, <4>2, Zenon DEF BecomeLeader, V!Win, V!Next
    <3>5. CASE ~(Cardinality(granted) = Majority /\ BecomeLeader(m.from, m.term))
      BY <2>4, <3>1, <3>5, Zenon DEF VoteAnswered, Superseded, history
    <3> QED
      BY <3>4, <3>5
  <2> QED
    BY <1>4, <2>2, <2>3, <2>4 DEF Read, LeaderCallAnswered
<1>5. CASE UNCHANGED vars
  BY <1>5 DEF vars, history
<1> QED
  BY <1>2, <1>3, <1>4, <1>5, Zenon DEF Next, Replicate

\* The detailed election implements the abstract one.
THEOREM Refinement == Spec => ImplementsVoting
<1>1. Init => V!Init
  BY DEF Init, V!Init
<1> QED
  BY <1>1, ElectionInvariant, RefinementStep, PTL DEF Spec, ImplementsVoting, V!Spec

\* Two quorums of a cluster share a node.
LEMMA QuorumsMeet ==
    /\ Quorums \subseteq SUBSET Node
    /\ \A P, Q \in Quorums : P \intersect Q # {}
<1>1. Cardinality(Node) \in Nat
  BY ConstantsAssumption, FS_CardinalityType
<1>2. ASSUME NEW P \in Quorums, NEW Q \in Quorums PROVE P \intersect Q # {}
  <2>1. /\ P \subseteq Node /\ Cardinality(P) \in Nat /\ Cardinality(P) >= Majority
        /\ Q \subseteq Node /\ Cardinality(Q) \in Nat /\ Cardinality(Q) >= Majority
    BY ConstantsAssumption, FS_Subset, FS_CardinalityType DEF Quorums
  <2>2. Cardinality(P) + Cardinality(Q) > Cardinality(Node)
    BY <1>1, <2>1 DEF Majority
  <2> QED
    BY <2>1, <2>2, ConstantsAssumption, FS_MajoritiesIntersect
<1> QED
  BY <1>2 DEF Quorums

VP == INSTANCE VotingProofs WITH Quorum <- Quorums

\* One leader per term, whatever is lost, delayed, crashes or fails to be saved.
THEOREM Safety == Spec => []ElectionSafety
<1>1. VP!Spec => []VP!OneLeaderPerTerm
  BY QuorumsMeet, VP!OneLeader DEF VP!QuorumsIntersect
<1>2. V!Spec => VP!Spec
  <2>1. V!Init => VP!Init
    BY DEF V!Init, VP!Init
  <2>2. [V!Next]_(V!vars) => [VP!Next]_(VP!vars)
    BY DEF V!Next, VP!Next, V!vars, VP!vars, V!Cast, VP!Cast, V!Win, VP!Win,
           V!CastAndWin, VP!CastAndWin, V!MayVote, VP!MayVote, V!HasQuorum, VP!HasQuorum,
           V!VotersOf, VP!VotersOf
  <2> QED
    BY <2>1, <2>2, PTL DEF V!Spec, VP!Spec
<1>3. VP!OneLeaderPerTerm => ElectionSafety
  BY DEF VP!OneLeaderPerTerm, ElectionSafety
<1> QED
  BY <1>1, <1>2, <1>3, Refinement, PTL DEF ImplementsVoting

=============================================================================
