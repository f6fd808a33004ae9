------------------------------ MODULE Election ------------------------------
(***************************************************************************)
(* Leader election in internal/raft/node.go: the randomized election       *)
(* timer, the non-binding pre-vote poll, the real election, leader         *)
(* stickiness, stepping down without a term change, and the hard state     *)
(* (term and vote) on disk, under lost and delayed RPCs, crashes, shutdown *)
(* and failing disks.                                                      *)
(*                                                                         *)
(* Time is abstracted to one bit per node: heard[n] says that n knows a    *)
(* leader and its election clock was reset less than ElectionTimeoutMin    *)
(* ago.  A timeout is never shorter than that, so a node that knows a      *)
(* leader times out only when heard[n] is FALSE; how much later (the       *)
(* random spread, the candidacy backoff) is left open.                     *)
(*                                                                         *)
(* The log is abstracted to pos[n], the rank of its (lastTerm, lastIndex)  *)
(* in the order the up-to-date check compares them by.  Replication moves  *)
(* it in Raft; here a leader contact leaves any rank up to the leader's.   *)
(***************************************************************************)
EXTENDS Integers, FiniteSets

CONSTANTS Node,               \* the cluster
          None,               \* noVote, and the leaderID 0 of "unknown"
          Candidates,         \* bound: the nodes whose election timers run out
          Faulty,             \* the nodes whose disk writes may fail
          Stoppable,          \* bound: the nodes that may be shut down
          Crashable,          \* bound: the nodes that may crash and restart
          Lossy,              \* whether calls and answers may be lost
          MaxTerm,            \* bound: no election starts beyond this term
          MaxPos,             \* bound on log positions
          MaxInFlight         \* bound on the RPCs one node has under way

ASSUME ConstantsAssumption ==
    /\ IsFiniteSet(Node)
    /\ None \notin Node
    /\ Candidates \subseteq Node /\ Faulty \subseteq Node
    /\ Stoppable \subseteq Node /\ Crashable \subseteq Node
    /\ Lossy \in BOOLEAN
    /\ MaxTerm \in Nat /\ MaxPos \in Nat /\ MaxInFlight \in Nat

VARIABLES currentTerm, votedFor, role, leaderID,
          heard,              \* heardLeaderRecentlyLocked
          poll,               \* who granted the current pre-vote round
          votes,              \* who granted the current election
          pos,                \* rank of the last log entry
          disk,               \* the durable hard state, term and vote
          stopped,            \* Stop has begun: the persister is about to close
          rpcs,               \* the calls under way
          ballots, elected    \* history: binding votes, leaderships

volatile == <<currentTerm, votedFor, role, leaderID, heard, poll, votes>>
history == <<ballots, elected>>
vars == <<currentTerm, votedFor, role, leaderID, heard, poll, votes, pos, disk,
          stopped, rpcs, ballots, elected>>

Term == 0..MaxTerm
Pos == 0..MaxPos
Role == {"Follower", "Candidate", "Leader"}
HardState == [term : Term, vote : Node \union {None}]

\* One call.  "caller" says what became of the goroutine that made it: it
\* waits for the answer, it belongs to a pre-vote round that is over, or its
\* process is gone.  An answered call carries the answer until it is read.
\* A poll names the term after the caller's own.
RPC == {m \in [kind : {"prevote", "vote", "append"}, from : Node, to : Node,
               term : 0..MaxTerm + 1, pos : Pos, caller : {"waiting", "old", "gone"},
               answered : BOOLEAN, rterm : Term, granted : BOOLEAN] :
            m.kind # "prevote" => m.term \in Term}

Peers(n) == Node \ {n}
Majority == Cardinality(Node) \div 2 + 1

Call(k, n, p, t) ==
    [kind |-> k, from |-> n, to |-> p, term |-> t, pos |-> pos[n],
     caller |-> "waiting", answered |-> FALSE, rterm |-> 0, granted |-> FALSE]

\* The peers a round of calls reaches; a call that fails leaves no trace.
Reached(n) == IF Lossy THEN SUBSET Peers(n) ELSE {Peers(n)}

Broadcast(calls, S, k, n, t) ==
    /\ Cardinality({m \in calls : m.from = n} \union {Call(k, n, p, t) : p \in S})
           <= MaxInFlight
    /\ rpcs' = calls \union {Call(k, n, p, t) : p \in S}

\* The answer to m goes back, unless it is lost.  One that could only be
\* ignored (it carries no higher term, and no grant that is still waited for)
\* is left out: every reader drops it.
AnswerMatters(m, t, g) ==
    /\ m.caller # "gone"
    /\ t > currentTerm[m.from] \/ (g /\ m.caller = "waiting")

Answer(m, t, g) ==
    \/ (Lossy \/ ~AnswerMatters(m, t, g)) /\ rpcs' = rpcs \ {m}
    \/ /\ AnswerMatters(m, t, g)
       /\ rpcs' = (rpcs \ {m}) \union
                  {[m EXCEPT !.answered = TRUE, !.rterm = t, !.granted = g]}

\* What a write of the hard state h may leave on n's disk h0: a write that
\* reports failure may or may not have reached it.
Saved(h) == {h}
NotSaved(n, h0, h) == IF n \in Faulty THEN {h0, h} ELSE {}

\* resetElectionTimerLocked, for the leaderID the node has at that point.
ResetTimer(n, leader) == heard' = [heard EXCEPT ![n] = leader # None]

-----------------------------------------------------------------------------
Init ==
    /\ currentTerm = [n \in Node |-> 0]
    /\ votedFor = [n \in Node |-> None]
    /\ role = [n \in Node |-> "Follower"]
    /\ leaderID = [n \in Node |-> None]
    /\ heard = [n \in Node |-> FALSE]
    /\ poll = [n \in Node |-> {}]
    /\ votes = [n \in Node |-> {}]
    /\ pos = [n \in Node |-> 0]
    /\ disk = [n \in Node |-> [term |-> 0, vote |-> None]]
    /\ stopped = [n \in Node |-> FALSE]
    /\ rpcs = {}
    /\ ballots = {}
    /\ elected = {}

\* becomeFollowerLocked up to its save; leaderID is left as it was.
AdoptTerm(n, t) ==
    /\ currentTerm' = [currentTerm EXCEPT ![n] = t]
    /\ role' = [role EXCEPT ![n] = "Follower"]
    /\ poll' = [poll EXCEPT ![n] = {}]
    /\ votes' = [votes EXCEPT ![n] = {}]

\* Its save of (t, noVote), whose failure is ignored.
AdoptedHardState(n, t) ==
    LET h == [term |-> t, vote |-> None] IN Saved(h) \union NotSaved(n, disk[n], h)

EnterTerm(n, t) ==
    /\ AdoptTerm(n, t)
    /\ votedFor' = [votedFor EXCEPT ![n] = None]
    /\ \E h \in AdoptedHardState(n, t) : disk' = [disk EXCEPT ![n] = h]

BecomeFollower(n, t) ==
    /\ EnterTerm(n, t)
    /\ ResetTimer(n, leaderID[n])
    /\ UNCHANGED <<leaderID, pos, stopped, history>>

BecomeLeader(n, t) ==
    /\ role' = [role EXCEPT ![n] = "Leader"]
    /\ leaderID' = [leaderID EXCEPT ![n] = n]
    /\ heard' = [heard EXCEPT ![n] = TRUE]
    /\ votes' = [votes EXCEPT ![n] = {}]
    /\ elected' = elected \union {[node |-> n, term |-> t]}

\* The clock of n runs past ElectionTimeoutMin.
Lapse(n) ==
    /\ heard[n]
    /\ heard' = [heard EXCEPT ![n] = FALSE]
    /\ UNCHANGED <<currentTerm, votedFor, role, leaderID, poll, votes, pos, disk,
                   stopped, rpcs, history>>

\* Mutant: the peers are asked before the candidacy is on disk.
StandUnsaved(n, calls, t) ==
    /\ Majority > 1
    /\ disk' = disk
    /\ ballots' = ballots \union {[voter |-> n, cand |-> n, term |-> t]}
    /\ role' = [role EXCEPT ![n] = "Candidate"]
    /\ leaderID' = [leaderID EXCEPT ![n] = None]
    /\ ResetTimer(n, None)
    /\ votes' = [votes EXCEPT ![n] = {n}]
    /\ \E S \in Reached(n) : Broadcast(calls, S, "vote", n, t)
    /\ UNCHANGED elected

\* The candidacy is on disk, and the peers are asked.
Stand(n, calls, t) ==
    /\ Majority > 1
    /\ disk' = [disk EXCEPT ![n] = [term |-> t, vote |-> n]]
    /\ ballots' = ballots \union {[voter |-> n, cand |-> n, term |-> t]}
    /\ role' = [role EXCEPT ![n] = "Candidate"]
    /\ leaderID' = [leaderID EXCEPT ![n] = None]
    /\ ResetTimer(n, None)
    /\ votes' = [votes EXCEPT ![n] = {n}]
    /\ \E S \in Reached(n) : Broadcast(calls, S, "vote", n, t)
    /\ UNCHANGED elected

\* The candidacy is on disk, and a lone node's own vote is its majority.
WinAlone(n, calls, t) ==
    /\ Majority <= 1
    /\ disk' = [disk EXCEPT ![n] = [term |-> t, vote |-> n]]
    /\ ballots' = ballots \union {[voter |-> n, cand |-> n, term |-> t]}
    /\ BecomeLeader(n, t)
    /\ rpcs' = calls

\* The candidacy cannot be saved and is called off, in the new term.
CallOff(n, calls, t) ==
    /\ \E h \in NotSaved(n, disk[n], [term |-> t, vote |-> n]) :
           disk' = [disk EXCEPT ![n] = h]
    /\ role' = [role EXCEPT ![n] = "Follower"]
    /\ leaderID' = [leaderID EXCEPT ![n] = None]
    /\ ResetTimer(n, None)
    /\ votes' = [votes EXCEPT ![n] = {}]
    /\ rpcs' = calls
    /\ UNCHANGED history

\* startElectionLocked, on top of the calls already under way.
StartElection(n, calls) ==
    LET t == currentTerm[n] + 1 IN
    /\ t <= MaxTerm
    /\ currentTerm' = [currentTerm EXCEPT ![n] = t]
    /\ votedFor' = [votedFor EXCEPT ![n] = n]
    /\ poll' = [poll EXCEPT ![n] = {}]
    /\ Stand(n, calls, t) \/ WinAlone(n, calls, t) \/ CallOff(n, calls, t)
    /\ UNCHANGED <<pos, stopped>>

\* The answers to n's earlier pre-vote rounds are history from now on.
OldRounds(n) ==
    {IF m.kind = "prevote" /\ m.from = n /\ m.caller = "waiting"
     THEN [m EXCEPT !.caller = "old"] ELSE m : m \in rpcs}

\* Mutant: the poll goes out without its PreVote flag.
PollForVotes(n) ==
    \/ Majority <= 1 /\ StartElection(n, OldRounds(n))
    \/ /\ Majority > 1
       /\ ResetTimer(n, leaderID[n])
       /\ poll' = [poll EXCEPT ![n] = {n}]
       /\ \E S \in Reached(n) :
              Broadcast(OldRounds(n), S, "vote", n, currentTerm[n] + 1)
       /\ UNCHANGED <<currentTerm, votedFor, role, leaderID, votes, pos, disk,
                      stopped, history>>

\* startPreVoteLocked: the peers are polled, unless there are none.
StartPreVote(n) ==
    \/ Majority <= 1 /\ StartElection(n, OldRounds(n))
    \/ /\ Majority > 1
       /\ ResetTimer(n, leaderID[n])
       /\ poll' = [poll EXCEPT ![n] = {n}]
       /\ \E S \in Reached(n) :
              Broadcast(OldRounds(n), S, "prevote", n, currentTerm[n] + 1)
       /\ UNCHANGED <<currentTerm, votedFor, role, leaderID, votes, pos, disk,
                      stopped, history>>

\* runElectionTimer on a node that does not lead.
ElectionTimeout(n) ==
    /\ n \in Candidates
    /\ ~stopped[n]
    /\ role[n] # "Leader"
    /\ ~heard[n]
    /\ StartPreVote(n)

\* Mutant: stepping down forgets the vote, though the term stays.
StepDownForgetting(n) ==
    /\ ~stopped[n]
    /\ role[n] = "Leader"
    /\ Majority > 1 \/ pos[n] > 0
    /\ role' = [role EXCEPT ![n] = "Follower"]
    /\ leaderID' = [leaderID EXCEPT ![n] = None]
    /\ votedFor' = [votedFor EXCEPT ![n] = None]
    /\ ResetTimer(n, None)
    /\ UNCHANGED <<currentTerm, poll, votes, pos, disk, stopped, rpcs, history>>

\* stepDownLocked: CheckQuorum or the commit-stall watchdog deposes a leader.
\* Whose answers have lapsed is left open.  A lone node is its own majority but
\* never commits, so the watchdog deposes it once it holds an entry.
StepDown(n) ==
    /\ ~stopped[n]
    /\ role[n] = "Leader"
    /\ Majority > 1 \/ pos[n] > 0
    /\ role' = [role EXCEPT ![n] = "Follower"]
    /\ leaderID' = [leaderID EXCEPT ![n] = None]
    /\ ResetTimer(n, None)
    /\ UNCHANGED <<currentTerm, votedFor, poll, votes, pos, disk, stopped, rpcs,
                   history>>

-----------------------------------------------------------------------------
PreVoteGranted(n, m) ==
    /\ ~stopped[n]
    /\ m.term > currentTerm[n]
    /\ ~heard[n]
    /\ m.pos >= pos[n]

\* The pre-vote branch of HandleRequestVote: it reads and never writes.
HandlePreVote(m) ==
    /\ m.kind = "prevote" /\ ~m.answered
    /\ Answer(m, currentTerm[m.to], PreVoteGranted(m.to, m))
    /\ UNCHANGED <<volatile, pos, disk, stopped, history>>

\* The vote is free for m's candidate, once m's term has been adopted.
VoteFree(n, m) == m.term > currentTerm[n] \/ votedFor[n] \in {None, m.from}

\* HandleRequestVote answers without a change: shut down, sticky to a live
\* leader, a stale candidate, a vote already given, a log behind ours.
RefuseVote(m) ==
    LET n == m.to IN
    /\ \/ stopped[n]
       \/ m.term > currentTerm[n] /\ heard[n]
       \/ m.term < currentTerm[n]
       \/ m.term = currentTerm[n] /\ (~VoteFree(n, m) \/ m.pos < pos[n])
    /\ Answer(m, currentTerm[n], FALSE)
    /\ UNCHANGED <<volatile, pos, disk, stopped, history>>

\* The handler goes on to a real decision.
Considered(m) ==
    LET n == m.to IN
    /\ ~stopped[n]
    /\ m.term > currentTerm[n] => ~heard[n]
    /\ m.term >= currentTerm[n]

\* A higher term is adopted, but the candidate's log is behind ours.
AdoptAndRefuse(m) ==
    LET n == m.to IN
    /\ Considered(m)
    /\ m.term > currentTerm[n]
    /\ m.pos < pos[n]
    /\ BecomeFollower(n, m.term)
    /\ Answer(m, m.term, FALSE)

\* What the disk holds when the handler comes to save its vote.
BeforeVote(n, m) ==
    IF m.term > currentTerm[n] THEN AdoptedHardState(n, m.term) ELSE {disk[n]}

\* Mutant: the vote is granted from memory.
GrantVoteUnsaved(m) ==
    LET n == m.to IN
    /\ Considered(m) /\ VoteFree(n, m) /\ m.pos >= pos[n]
    /\ \/ m.term > currentTerm[n] /\ AdoptTerm(n, m.term)
       \/ m.term = currentTerm[n] /\ UNCHANGED <<currentTerm, role, poll, votes>>
    /\ ResetTimer(n, leaderID[n])
    /\ votedFor' = [votedFor EXCEPT ![n] = m.from]
    /\ disk' = disk
    /\ ballots' = ballots \union {[voter |-> n, cand |-> m.from, term |-> m.term]}
    /\ Answer(m, m.term, TRUE)
    /\ UNCHANGED <<leaderID, pos, stopped, elected>>

\* The vote is durable and granted.
GrantVote(m) ==
    LET n == m.to IN
    /\ Considered(m) /\ VoteFree(n, m) /\ m.pos >= pos[n]
    /\ \/ m.term > currentTerm[n] /\ AdoptTerm(n, m.term)
       \/ m.term = currentTerm[n] /\ UNCHANGED <<currentTerm, role, poll, votes>>
    /\ ResetTimer(n, leaderID[n])
    /\ votedFor' = [votedFor EXCEPT ![n] = m.from]
    /\ disk' = [disk EXCEPT ![n] = [term |-> m.term, vote |-> m.from]]
    /\ ballots' = ballots \union {[voter |-> n, cand |-> m.from, term |-> m.term]}
    /\ Answer(m, m.term, TRUE)
    /\ UNCHANGED <<leaderID, pos, stopped, elected>>

\* Mutant: the error of the save is not looked at.
GrantAnyway(m) ==
    LET n == m.to IN
    /\ Considered(m) /\ VoteFree(n, m) /\ m.pos >= pos[n]
    /\ \/ m.term > currentTerm[n] /\ AdoptTerm(n, m.term) /\ ResetTimer(n, leaderID[n])
       \/ m.term = currentTerm[n] /\ UNCHANGED <<currentTerm, role, heard, poll, votes>>
    /\ votedFor' = [votedFor EXCEPT ![n] = m.from]
    /\ \E h0 \in BeforeVote(n, m) :
           \E h \in NotSaved(n, h0, [term |-> m.term, vote |-> m.from]) :
               disk' = [disk EXCEPT ![n] = h]
    /\ Answer(m, m.term, TRUE)
    /\ UNCHANGED <<leaderID, pos, stopped, history>>

\* The vote could not be saved: it is withdrawn and refused.
FailToVote(m) ==
    LET n == m.to IN
    /\ Considered(m) /\ VoteFree(n, m) /\ m.pos >= pos[n]
    /\ \/ m.term > currentTerm[n] /\ AdoptTerm(n, m.term) /\ ResetTimer(n, leaderID[n])
       \/ m.term = currentTerm[n] /\ UNCHANGED <<currentTerm, role, heard, poll, votes>>
    /\ votedFor' = [votedFor EXCEPT ![n] = None]
    /\ \E h0 \in BeforeVote(n, m) :
           \E h \in NotSaved(n, h0, [term |-> m.term, vote |-> m.from]) :
               disk' = [disk EXCEPT ![n] = h]
    /\ Answer(m, m.term, FALSE)
    /\ UNCHANGED <<leaderID, pos, stopped, history>>

HandleRequestVote(m) ==
    /\ m.kind = "vote" /\ ~m.answered
    /\ RefuseVote(m) \/ AdoptAndRefuse(m) \/ GrantVote(m) \/ FailToVote(m)

\* HandleAppendEntries and HandleInstallSnapshot as the election sees them.
RefuseLeader(m) ==
    LET n == m.to IN
    /\ stopped[n] \/ m.term < currentTerm[n]
    /\ Answer(m, currentTerm[n], FALSE)
    /\ UNCHANGED <<volatile, pos, disk, stopped, history>>

StayInTerm(n) ==
    /\ role' = [role EXCEPT ![n] = "Follower"]
    /\ votes' = [votes EXCEPT ![n] = {}]
    /\ UNCHANGED <<currentTerm, votedFor, poll, disk>>

FollowLeader(m) ==
    LET n == m.to IN
    /\ ~stopped[n]
    /\ \/ m.term > currentTerm[n] /\ EnterTerm(n, m.term)
       \/ m.term = currentTerm[n] /\ StayInTerm(n)
    /\ leaderID' = [leaderID EXCEPT ![n] = m.from]
    /\ ResetTimer(n, m.from)
    /\ \E r \in {pos[n]} \union 0..m.pos : pos' = [pos EXCEPT ![n] = r]
    /\ Answer(m, m.term, FALSE)
    /\ UNCHANGED <<stopped, history>>

HandleLeaderCall(m) ==
    /\ m.kind = "append" /\ ~m.answered
    /\ RefuseLeader(m) \/ FollowLeader(m)

-----------------------------------------------------------------------------
\* The answer carries a higher term, which is adopted.
AdoptAnswer(m) ==
    LET n == m.from IN
    /\ m.rterm > currentTerm[n]
    /\ BecomeFollower(n, m.rterm)
    /\ rpcs' = rpcs \ {m}

\* How most goroutines start that read an answer: not on a stopped node.
Superseded(m) == ~stopped[m.from] /\ AdoptAnswer(m)

Ignore(m) ==
    /\ rpcs' = rpcs \ {m}
    /\ UNCHANGED <<volatile, pos, disk, stopped, history>>

\* The answer is for the pre-vote round the node is still running.
PollCounts(m) ==
    LET n == m.from IN
    /\ role[n] = "Follower"
    /\ m.term = currentTerm[n] + 1
    /\ m.caller = "waiting"
    /\ m.granted

PreVoteAnswered(m) ==
    LET n == m.from
        granted == poll[n] \union {m.to}
    IN
    /\ m.kind = "prevote" /\ m.answered
    /\ \/ Superseded(m)
       \/ (stopped[n] \/ (m.rterm <= currentTerm[n] /\ ~PollCounts(m))) /\ Ignore(m)
       \/ /\ ~stopped[n] /\ m.rterm <= currentTerm[n] /\ PollCounts(m)
          /\ \/ /\ Cardinality(granted) = Majority
                /\ StartElection(n, rpcs \ {m})
             \/ /\ Cardinality(granted) # Majority
                /\ poll' = [poll EXCEPT ![n] = granted]
                /\ rpcs' = rpcs \ {m}
                /\ UNCHANGED <<currentTerm, votedFor, role, leaderID, heard, votes,
                               pos, disk, stopped, history>>

\* The answer is a vote for the election the node is still standing in.
VoteCounts(m) ==
    LET n == m.from IN
    /\ role[n] = "Candidate"
    /\ m.term = currentTerm[n]
    /\ m.granted

VoteAnswered(m) ==
    LET n == m.from
        granted == votes[n] \union {m.to}
    IN
    /\ m.kind = "vote" /\ m.answered
    /\ \/ Superseded(m)
       \/ (stopped[n] \/ (m.rterm <= currentTerm[n] /\ ~VoteCounts(m))) /\ Ignore(m)
       \/ /\ ~stopped[n] /\ m.rterm <= currentTerm[n] /\ VoteCounts(m)
          /\ rpcs' = rpcs \ {m}
          /\ \/ Cardinality(granted) = Majority /\ BecomeLeader(n, m.term)
             \/ /\ Cardinality(granted) # Majority
                /\ votes' = [votes EXCEPT ![n] = granted]
                /\ UNCHANGED <<role, leaderID, heard, elected>>
          /\ UNCHANGED <<currentTerm, votedFor, poll, pos, disk, stopped, ballots>>

\* The replicator, the snapshot sender, and heartbeatAck of the read-index
\* round, which does not ask whether the node has been stopped.  (Once Stop has
\* closed the persister its save finds none and the process dies: Restart.)
LeaderCallAnswered(m) ==
    LET n == m.from IN
    /\ m.kind = "append" /\ m.answered
    /\ \/ AdoptAnswer(m)
       \/ (stopped[n] \/ m.rterm <= currentTerm[n]) /\ Ignore(m)

\* The replicator of p, or the read-index round, calls p.
Replicate(n, p) ==
    /\ ~stopped[n] /\ role[n] = "Leader"
    /\ Broadcast(rpcs, {p}, "append", n, currentTerm[n])
    /\ UNCHANGED <<volatile, pos, disk, stopped, history>>

\* A leader appends a proposal to its log.
Propose(n) ==
    /\ role[n] = "Leader" /\ pos[n] < MaxPos
    /\ pos' = [pos EXCEPT ![n] = @ + 1]
    /\ UNCHANGED <<volatile, disk, stopped, rpcs, history>>

Stop(n) ==
    /\ n \in Stoppable /\ ~stopped[n]
    /\ stopped' = [stopped EXCEPT ![n] = TRUE]
    /\ UNCHANGED <<volatile, pos, disk, rpcs, history>>

\* The process dies, or exits after Stop, and NewNode recovers from the disk.
\* Calls to it fail; calls by it may still reach their peer, to no one's avail.
Restart(n) ==
    /\ n \in Crashable
    /\ currentTerm' = [currentTerm EXCEPT ![n] = disk[n].term]
    /\ votedFor' = [votedFor EXCEPT ![n] = disk[n].vote]
    /\ role' = [role EXCEPT ![n] = "Follower"]
    /\ leaderID' = [leaderID EXCEPT ![n] = None]
    /\ ResetTimer(n, None)
    /\ poll' = [poll EXCEPT ![n] = {}]
    /\ votes' = [votes EXCEPT ![n] = {}]
    /\ stopped' = [stopped EXCEPT ![n] = FALSE]
    /\ rpcs' = {m \in rpcs : n \notin {m.from, m.to}}
               \union {m \in rpcs : m.to = n /\ m.answered}
               \union {[m EXCEPT !.caller = "gone"] :
                           m \in {c \in rpcs : c.from = n /\ ~c.answered}}
    /\ \E r \in Pos : /\ n \notin Faulty => r = pos[n]
                      /\ pos' = [pos EXCEPT ![n] = r]
    /\ UNCHANGED <<disk, history>>

-----------------------------------------------------------------------------
Serve(m) == HandlePreVote(m) \/ HandleRequestVote(m) \/ HandleLeaderCall(m)
Read(m) == PreVoteAnswered(m) \/ VoteAnswered(m) \/ LeaderCallAnswered(m)

Next ==
    \/ \E n \in Node : \/ Lapse(n) \/ ElectionTimeout(n) \/ StepDown(n)
                       \/ Propose(n) \/ Stop(n) \/ Restart(n)
    \/ \E n, p \in Node : n # p /\ Replicate(n, p)
    \/ \E m \in rpcs : Serve(m) \/ Read(m)

Spec == Init /\ [][Next]_vars

\* The timer ticks, every call has a goroutine that serves it and one that
\* reads its answer, and polls are not always overtaken by the next round's.
Fairness ==
    \A n \in Node :
        /\ WF_vars(Lapse(n) \/ ElectionTimeout(n))
        /\ \A isPoll \in BOOLEAN :
               LET Due(m) == m.caller = "waiting" /\ (m.kind = "prevote") = isPoll IN
               /\ SF_vars(\E m \in rpcs : m.to = n /\ Due(m) /\ Serve(m))
               /\ SF_vars(\E m \in rpcs : m.from = n /\ Due(m) /\ Read(m))

FairSpec == Spec /\ Fairness

-----------------------------------------------------------------------------
\* Every variable has its type; only a poll names a term not yet entered
\* (startPreVoteLocked).
TypeOK ==
    /\ currentTerm \in [Node -> Term]
    /\ votedFor \in [Node -> Node \union {None}]
    /\ role \in [Node -> Role]
    /\ leaderID \in [Node -> Node \union {None}]
    /\ heard \in [Node -> BOOLEAN]
    /\ poll \in [Node -> SUBSET Node]
    /\ votes \in [Node -> SUBSET Node]
    /\ pos \in [Node -> Pos]
    /\ disk \in [Node -> HardState]
    /\ stopped \in [Node -> BOOLEAN]
    /\ rpcs \subseteq RPC
    /\ ballots \subseteq [voter : Node, cand : Node, term : Term]
    /\ elected \subseteq [node : Node, term : Term]

\* Election safety: however votes, crashes and disk errors interleave, no two
\* nodes win the same term (becomeLeaderLocked).
ElectionSafety == \A a, b \in elected : a.term = b.term => a = b

\* A binding vote outlives the process that cast it: the voter's disk holds it
\* or has moved to a later term, and so does its memory.  "If the vote can't be
\* made durable we must not grant it" (HandleRequestVote), under failing saves
\* that becomeFollowerLocked ignores, and crashes at any point.
VoteKept ==
    \A b \in ballots :
        LET v == b.voter IN
        /\ b.term <= disk[v].term /\ disk[v].term <= currentTerm[v]
        /\ b.term = disk[v].term => disk[v].vote = b.cand
        /\ b.term = currentTerm[v] => votedFor[v] = b.cand

\* The counters of startElectionLocked count binding votes: every answer that
\* still grants one, every vote a candidate has counted in its term, and a
\* majority behind every leadership.
VotesCounted ==
    /\ \A m \in rpcs : m.kind = "vote" /\ m.answered /\ m.granted =>
           [voter |-> m.to, cand |-> m.from, term |-> m.term] \in ballots
    /\ \A n \in Node : \A v \in votes[n] :
           [voter |-> v, cand |-> n, term |-> currentTerm[n]] \in ballots
    /\ \A l \in elected :
           Cardinality({v \in Node : [voter |-> v, cand |-> l.node, term |-> l.term]
                                     \in ballots}) >= Majority

\* A candidacy is durable before anyone is asked to vote for it, so that no
\* crash makes a node ask for the same term again: no voter sees a second
\* request (whose failing save would withdraw a vote already given).
AskedOnce ==
    /\ \A m \in rpcs : m.kind = "vote" =>
        /\ m.term <= disk[m.from].term
        /\ ~m.answered => [voter |-> m.to, cand |-> m.from, term |-> m.term] \notin ballots
        /\ \A c \in rpcs : /\ c.kind = "vote" /\ c.from = m.from /\ c.to = m.to
                           /\ c.term = m.term
                           => c = m
    /\ \A b \in ballots : b.term <= disk[b.cand].term

\* The disk never runs ahead of the memory it was written from.
DiskBehind == \A n \in Node : disk[n].term <= currentTerm[n]

\* "if it expires with no winner (split vote), the timer fires again and we
\* start a new election in a higher term" (node.go:724): nobody stays a
\* candidate of one term for ever.
SplitVoteRetried ==
    \A n \in Node, t \in 1..MaxTerm - 1 :
        LET stands == role[n] = "Candidate" /\ currentTerm[n] = t
        IN  stands ~> ~stands

\* The inductive invariant behind ElectionSafety.
ElectionInv ==
    TypeOK /\ DiskBehind /\ VoteKept /\ VotesCounted /\ AskedOnce

\* What startElectionLocked counts to.
Quorums == {Q \in SUBSET Node : Cardinality(Q) >= Majority}

V == INSTANCE Voting WITH Quorum <- Quorums

\* The election implements the abstract one: whatever the messages, crashes and
\* disk errors, its votes and leaderships are those of Voting.
ImplementsVoting == V!Spec

=============================================================================
