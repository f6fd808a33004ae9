-------------------------------- MODULE Raft --------------------------------
(***************************************************************************)
(* Log replication in internal/raft: proposals, the per-follower           *)
(* replicators, the consistency check with its conflict hints, the commit  *)
(* rule, the applier, snapshots and their transfer, linearizable reads,    *)
(* crashes with recovery from the disk, and disk writes that fail.         *)
(*                                                                         *)
(* Elections keep their terms, votes and log comparison.  The timers, the  *)
(* pre-vote and leader stickiness, which only hold elections back, and the *)
(* interleavings of the vote requests themselves are in Election: here a   *)
(* follower may stand at any time, and a campaign is one step.  A voter's  *)
(* log does not change between its vote and the win, as it refuses older   *)
(* leaders and there is no newer one.                                      *)
(*                                                                         *)
(* The machine above the log is the sequence of entries it was handed.     *)
(***************************************************************************)
EXTENDS RaftLog, FiniteSets

CONSTANTS Node, None,
          Faulty,             \* the nodes whose log writes may fail
          FaultySnap,         \* the nodes whose snapshot writes may fail
          Candidates,         \* bound: the nodes that may campaign in each term
          Crashable,          \* bound: the nodes that may crash and restart
          Appliers,           \* bound: the nodes whose applier runs
          Readers,            \* bound: the nodes that serve reads
          Retain,             \* snapshotRetain
          MaxAppend,          \* maxAppendEntries
          SnapshotEvery,      \* bound: distance between snapshots, 0 for none
          MaxTerm,            \* bound: no election starts beyond this term
          MaxLen,             \* bound: no proposal beyond this index
          MaxInFlight         \* bound on the RPCs under way at one time

ASSUME ConstantsAssumption ==
    /\ IsFiniteSet(Node) /\ Cardinality(Node) > 1 /\ None \notin Node
    /\ \A t \in 1..MaxTerm : Candidates[t] \subseteq Node
    /\ Appliers \subseteq Node /\ Readers \subseteq Node
    /\ Faulty \subseteq Node /\ FaultySnap \subseteq Node
    /\ Crashable \subseteq Node \ (Faulty \union FaultySnap)
    /\ Retain \in Nat /\ SnapshotEvery \in Nat /\ MaxAppend \in Nat \ {0}
    /\ MaxTerm \in Nat /\ MaxLen \in Nat /\ MaxInFlight \in Nat

VARIABLES currentTerm, votedFor, role,
          log,
          snap,               \* the snapshot file: index, term and image
          commitIndex, lastApplied,
          pending,            \* pendingSnapshot, an image or None
          applied,            \* what the machine was handed
          nextIndex, matchIndex,
          reading,            \* the read-index round of each node, or None
          rpcs,               \* the AppendEntries and InstallSnapshot under way
          committed,          \* history: the entries committed, and in which term
          reads               \* history: reads that missed a committed entry

electionVars == <<currentTerm, votedFor, role>>
logVars == <<log, snap>>
applyVars == <<commitIndex, lastApplied, pending, applied>>
leaderVars == <<nextIndex, matchIndex>>
readVars == <<reading, reads>>
vars == <<electionVars, logVars, applyVars, leaderVars, readVars, rpcs, committed>>

Term == 0..MaxTerm
Index == 0..MaxLen
Peers(n) == Node \ {n}
Majority == Cardinality(Node) \div 2 + 1
MinOf(i, j) == IF i < j THEN i ELSE j
MaxOf(i, j) == IF i < j THEN j ELSE i
Terms(entries) == [i \in DOMAIN entries |-> entries[i].term]

\* The cursors of a node that does not lead are dead.
NoCursors == [p \in Node |-> 0]

-----------------------------------------------------------------------------
Init ==
    /\ currentTerm = [n \in Node |-> 0]
    /\ votedFor = [n \in Node |-> None]
    /\ role = [n \in Node |-> "Follower"]
    /\ log = [n \in Node |-> NewLog(0, 0)]
    /\ snap = [n \in Node |-> [index |-> 0, term |-> 0, image |-> <<>>]]
    /\ commitIndex = [n \in Node |-> 0]
    /\ lastApplied = [n \in Node |-> 0]
    /\ pending = [n \in Node |-> None]
    /\ applied = [n \in Node |-> <<>>]
    /\ nextIndex = [n \in Node |-> NoCursors]
    /\ matchIndex = [n \in Node |-> NoCursors]
    /\ reading = [n \in Node |-> None]
    /\ rpcs = {}
    /\ committed = <<>>
    /\ reads = {}

-----------------------------------------------------------------------------
\* A node is a follower of term t; its read-index round fails.
Deposed(n, t) ==
    /\ role' = [role EXCEPT ![n] = "Follower"]
    /\ nextIndex' = [nextIndex EXCEPT ![n] = NoCursors]
    /\ matchIndex' = [matchIndex EXCEPT ![n] = NoCursors]
    /\ reading' = [reading EXCEPT ![n] = None]
    /\ currentTerm' = [currentTerm EXCEPT ![n] = t]
    /\ votedFor' = [votedFor EXCEPT ![n] = IF t > currentTerm[n] THEN None ELSE @]
    /\ UNCHANGED reads

\* Mutant: only the length is compared.
LongEnough(l, m) == LastIndex(l) >= LastIndex(m)

\* The order the election restriction compares logs by.
UpToDate(l, m) ==
    \/ LastTerm(l) > LastTerm(m)
    \/ LastTerm(l) = LastTerm(m) /\ LastIndex(l) >= LastIndex(m)

\* HandleRequestVote: v votes for c in term t.
Grants(v, c, t) ==
    /\ t > currentTerm[v] \/ (t = currentTerm[v] /\ votedFor[v] \in {None, c})
    /\ UpToDate(log[c], log[v])

\* startElectionLocked at c, whose requests reach the peers in Q: they follow
\* it into its term, and those that grant their vote may make it the leader.
Campaign(c, Q) ==
    LET t == currentTerm[c] + 1
        voters == {v \in Q : Grants(v, c, t)}
        follow == {v \in Q : t > currentTerm[v]} \union voters
        won == Cardinality(voters) + 1 >= Majority
    IN
    /\ role[c] # "Leader" /\ t <= MaxTerm /\ c \in Candidates[t]
    /\ \A v \in Q : currentTerm[v] <= t
    /\ currentTerm' = [n \in Node |-> IF n \in follow \union {c} THEN t ELSE currentTerm[n]]
    /\ votedFor' = [n \in Node |-> IF n \in voters \union {c} THEN c
                                   ELSE IF n \in follow THEN None ELSE votedFor[n]]
    /\ role' = [n \in Node |-> IF n = c THEN (IF won THEN "Leader" ELSE "Follower")
                               ELSE IF n \in follow THEN "Follower" ELSE role[n]]
    /\ nextIndex' = [n \in Node |-> IF n = c /\ won
                                    THEN [p \in Node |-> LastIndex(log[c]) + 1]
                                    ELSE IF n \in follow THEN NoCursors ELSE nextIndex[n]]
    /\ matchIndex' = [n \in Node |-> IF n \in follow THEN NoCursors ELSE matchIndex[n]]
    /\ reading' = [n \in Node |-> IF n \in follow THEN None ELSE reading[n]]
    /\ UNCHANGED <<logVars, applyVars, reads, rpcs, committed>>

\* The answer of a node of a later term ends the campaign.
CampaignTooLate(c, v) ==
    /\ role[c] # "Leader"
    /\ currentTerm[c] + 1 < currentTerm[v] /\ c \in Candidates[currentTerm[c] + 1]
    /\ Deposed(c, currentTerm[v])
    /\ UNCHANGED <<logVars, applyVars, rpcs, committed>>

\* stepDownLocked: CheckQuorum or the commit-stall watchdog.
StepDown(n) ==
    /\ role[n] = "Leader"
    /\ Deposed(n, currentTerm[n])
    /\ UNCHANGED <<logVars, applyVars, rpcs, committed>>

-----------------------------------------------------------------------------
\* commitPropBatch.  A batch that cannot be saved is taken back out of the log.
Propose(n) ==
    /\ role[n] = "Leader" /\ LastIndex(log[n]) < MaxLen
    /\ log' = [log EXCEPT ![n] = Extend(@, <<currentTerm[n]>>)]
    /\ UNCHANGED <<electionVars, snap, applyVars, leaderVars, readVars, rpcs, committed>>

\* The replicator of p waits for an answer.
Busy(n, p) ==
    \E m \in rpcs : /\ m.from = n /\ m.to = p /\ m.term = currentTerm[n]
                    /\ m.kind # "probe" /\ m.live

Send(m) ==
    /\ Cardinality(rpcs \union {m}) <= MaxInFlight
    /\ rpcs' = rpcs \union {m}
    /\ UNCHANGED <<electionVars, logVars, applyVars, leaderVars, committed>>

AppendCall(kind, n, p, entries) ==
    LET prev == nextIndex[n][p] - 1 IN
    [kind |-> kind, from |-> n, to |-> p, term |-> currentTerm[n], prev |-> prev,
     prevTerm |-> TermAt(log[n], prev), entries |-> entries, commit |-> commitIndex[n],
     live |-> TRUE, reply |-> None]

\* replicateOnce, up to the call.
SendAppend(n, p) ==
    LET next == nextIndex[n][p]
        missing == Suffix(log[n], next)
    IN
    /\ role[n] = "Leader" /\ ~Busy(n, p)
    /\ next > log[n].first
    /\ Send(AppendCall("append", n, p, SubSeq(missing, 1, MinOf(MaxAppend, Len(missing)))))
    /\ UNCHANGED readVars

\* sendSnapshotLocked, up to the call.  The cache and the file hold the same.
SendSnapshot(n, p) ==
    /\ role[n] = "Leader" /\ ~Busy(n, p)
    /\ nextIndex[n][p] <= log[n].first
    /\ snap[n].index # 0
    /\ Send([kind |-> "snapshot", from |-> n, to |-> p, term |-> currentTerm[n],
             snap |-> snap[n], live |-> TRUE, reply |-> None])
    /\ UNCHANGED readVars

\* The call or its answer is lost, or the caller gives up waiting for it.
Drop(m) ==
    /\ \/ rpcs' = rpcs \ {m}
       \/ /\ m.live /\ m.reply = None
          /\ rpcs' = (rpcs \ {m}) \union {[m EXCEPT !.live = FALSE]}
    /\ UNCHANGED <<electionVars, logVars, applyVars, leaderVars, readVars, committed>>

-----------------------------------------------------------------------------
Reply(m, ok, cterm, cindex) ==
    LET r == [term |-> MaxOf(m.term, currentTerm[m.to]), ok |-> ok,
              cterm |-> cterm, cindex |-> cindex]
    IN  rpcs' = (rpcs \ {m}) \union (IF m.live THEN {[m EXCEPT !.reply = r]} ELSE {})

\* A call of a leader whose term is over.
RefuseLeader(m) ==
    /\ m.term < currentTerm[m.to]
    /\ Reply(m, FALSE, 0, 0)
    /\ UNCHANGED <<electionVars, logVars, applyVars, leaderVars, readVars, committed>>

\* The conflict hint of a log that is too short.
HintAfterEnd(l) == LastIndex(l) + 1

\* The log ends before the anchor, or disagrees with it.
RejectAppend(m) ==
    LET n == m.to
        l == log[n]
        start == FirstIndexOfTerm(l, TermAt(l, m.prev))
    IN
    /\ Deposed(n, m.term)
    /\ \/ m.prev > LastIndex(l) /\ Reply(m, FALSE, 0, HintAfterEnd(l))
       \/ /\ m.prev \in Held(l) /\ TermAt(l, m.prev) # m.prevTerm
          /\ Reply(m, FALSE, TermAt(l, m.prev), IF start = 0 THEN l.first + 1 ELSE start)
    /\ UNCHANGED <<logVars, applyVars, committed>>

\* The consistency check: the log reaches the anchor and agrees with it.
Anchored(l, m) ==
    /\ m.prev <= LastIndex(l)
    /\ m.prev >= l.first => TermAt(l, m.prev) = m.prevTerm

\* Mutant: everything after the anchor is replaced.
CutAtAnchor(l, m) ==
    [from |-> MaxOf(m.prev, l.first) + 1,
     entries |-> SubSeq(m.entries, MaxOf(l.first - m.prev, 0) + 1, Len(m.entries))]

\* The entries of m, from the first that l neither holds nor has compacted.
NewEntries(l, m) ==
    LET new == {i \in DOMAIN m.entries :
                    LET x == m.prev + i IN
                    /\ x > l.first
                    /\ x \notin Held(l) \/ TermAt(l, x) # m.entries[i]}
    IN  IF new = {} THEN [from |-> LastIndex(l) + 1, entries |-> <<>>]
        ELSE LET k == CHOOSE i \in new : \A j \in new : i <= j
             IN  [from |-> m.prev + k, entries |-> SubSeq(m.entries, k, Len(m.entries))]

\* Mutant: the conflicting entries stay.
MergeAfter(l, new, k) == Extend(l, SubSeq(new.entries, 1, k))

\* The log once the first k of the new entries are in.
Merge(l, new, k) ==
    Extend(IF new.from <= LastIndex(l) THEN TruncateFrom(l, new.from) ELSE l,
           SubSeq(new.entries, 1, k))

\* Mutant: not capped by what the call has shown to agree.
CommitOfLeader(n, m) == MaxOf(m.commit, commitIndex[n])

\* The commit point that an accepted call leaves.
FollowerCommit(n, m) ==
    IF m.commit > commitIndex[n]
    THEN MinOf(m.commit, MaxOf(m.prev + Len(m.entries), commitIndex[n]))
    ELSE commitIndex[n]

AcceptAppend(m) ==
    LET n == m.to
        new == NewEntries(log[n], m)
    IN
    /\ Anchored(log[n], m)
    /\ Deposed(n, m.term)
    /\ log' = [log EXCEPT ![n] = Merge(@, new, Len(new.entries))]
    /\ commitIndex' = [commitIndex EXCEPT ![n] = FollowerCommit(n, m)]
    /\ Reply(m, TRUE, 0, 0)
    /\ UNCHANGED <<snap, lastApplied, pending, applied, committed>>

\* A write fails: that of the truncation, with the old suffix gone from memory,
\* or that of the entries, which stay there.
FailAppend(m) ==
    LET n == m.to
        new == NewEntries(log[n], m)
    IN
    /\ n \in Faulty
    /\ Anchored(log[n], m) /\ new.entries # <<>>
    /\ Deposed(n, m.term)
    /\ \E k \in {0, Len(new.entries)} :
           /\ k = 0 => new.from <= LastIndex(log[n])
           /\ log' = [log EXCEPT ![n] = Merge(@, new, k)]
    /\ Reply(m, FALSE, 0, 0)
    /\ UNCHANGED <<snap, applyVars, committed>>

HandleAppendEntries(m) ==
    /\ m.kind \in {"append", "probe"} /\ m.reply = None
    /\ \/ RefuseLeader(m)
       \/ /\ m.term >= currentTerm[m.to]
          /\ RejectAppend(m) \/ AcceptAppend(m) \/ FailAppend(m)

\* Mutant: a snapshot is taken whenever it comes.
NeverKnown(n, s) == FALSE

\* The snapshot adds nothing to what n knows to be committed.
Known(n, s) == s.index <= commitIndex[n]

\* HandleInstallSnapshot.  Without the save, only the log has moved; the file may
\* have its new content all the same, as saveSnapshot goes on after the rename.
HandleInstallSnapshot(m) ==
    LET n == m.to
        compacted == CompactTo(log[n], m.snap.index, m.snap.term)
    IN
    /\ m.kind = "snapshot" /\ m.reply = None
    /\ \/ RefuseLeader(m)
       \/ /\ m.term >= currentTerm[n]
          /\ Deposed(n, m.term)
          /\ Reply(m, FALSE, 0, 0)
          /\ UNCHANGED <<applied, committed>>
          /\ \/ /\ Known(n, m.snap)
                /\ UNCHANGED <<logVars, commitIndex, lastApplied, pending>>
             \/ /\ ~Known(n, m.snap)
                /\ log' = [log EXCEPT ![n] = compacted]
                /\ snap' = [snap EXCEPT ![n] = m.snap]
                /\ commitIndex' = [commitIndex EXCEPT ![n] = m.snap.index]
                /\ lastApplied' = [lastApplied EXCEPT ![n] = m.snap.index]
                /\ pending' = [pending EXCEPT ![n] = m.snap.image]
             \/ /\ ~Known(n, m.snap) /\ n \in FaultySnap
                /\ log' = [log EXCEPT ![n] = compacted]
                /\ snap' = [snap EXCEPT ![n] = m.snap] \/ UNCHANGED snap
                /\ UNCHANGED <<commitIndex, lastApplied, pending>>

-----------------------------------------------------------------------------

\* Mutant: the leader's own replica is counted twice.
CountedTwice(n, match) ==
    {i \in Held(log[n]) :
        /\ i > commitIndex[n]
        /\ \A j \in i..LastIndex(log[n]) : TermAt(log[n], j) = currentTerm[n]
        /\ Cardinality({p \in Peers(n) : match[p] >= i}) + 2 >= Majority}

\* The indexes maybeAdvanceCommitLocked would commit: on its way down from the
\* end of the log it stops at the first entry of another term.
Committable(n, match) ==
    {i \in Held(log[n]) :
        /\ i > commitIndex[n]
        /\ \A j \in i..LastIndex(log[n]) : TermAt(log[n], j) = currentTerm[n]
        /\ Cardinality({p \in Peers(n) : match[p] >= i}) + 1 >= Majority}

\* What the leader n takes to be committed up to c.
CommittedUpTo(n, c) ==
    [i \in 1..MaxOf(c, Len(committed)) |->
        IF \/ i > c \/ i <= log[n].first
           \/ i <= Len(committed) /\ TermAt(log[n], i) = committed[i].term
        THEN committed[i]
        ELSE [term |-> TermAt(log[n], i), by |-> currentTerm[n]]]

AdvanceCommit(n, match) ==
    LET ok == Committable(n, match)
        c == CHOOSE i \in ok : \A j \in ok : j <= i
    IN
    \/ ok = {} /\ UNCHANGED <<commitIndex, committed>>
    \/ /\ ok # {}
       /\ commitIndex' = [commitIndex EXCEPT ![n] = c]
       /\ committed' = CommittedUpTo(n, c)

\* The follower holds everything up to i.
Matched(n, p, i) ==
    /\ matchIndex' = [matchIndex EXCEPT ![n][p] = MaxOf(@, i)]
    /\ nextIndex' = [nextIndex EXCEPT ![n][p] = MaxOf(@, i + 1)]

\* Mutant: the jump overshoots the end of the conflicting term.
BackUpPastTerm(n, m) ==
    LET last == LastIndexOfTerm(log[n], m.reply.cterm) IN
    IF m.reply.cterm # 0 THEN (IF last # 0 THEN last + 2 ELSE m.reply.cindex)
    ELSE IF m.reply.cindex # 0 THEN m.reply.cindex
    ELSE MaxOf(nextIndex[n][m.to] - 1, 1)

\* Mutant: the step back has no floor.
BackUpAnywhere(n, m) ==
    IF m.reply.cindex # 0 THEN m.reply.cindex ELSE nextIndex[n][m.to] - 1

\* Where a rejection sends nextIndex.
BackUp(n, m) ==
    LET last == LastIndexOfTerm(log[n], m.reply.cterm) IN
    IF m.reply.cterm # 0 THEN (IF last # 0 THEN last + 1 ELSE m.reply.cindex)
    ELSE IF m.reply.cindex # 0 THEN m.reply.cindex
    ELSE MaxOf(nextIndex[n][m.to] - 1, 1)

Current(m) == role[m.from] = "Leader" /\ currentTerm[m.from] = m.term

\* The answer of a node of a later term.
AnswerDeposes(m) ==
    /\ m.reply.term > currentTerm[m.from]
    /\ Deposed(m.from, m.reply.term)
    /\ UNCHANGED <<applyVars, committed>>

AnswerIgnored(m) ==
    /\ m.reply.term <= currentTerm[m.from] /\ ~Current(m)
    /\ UNCHANGED <<electionVars, applyVars, leaderVars, readVars, committed>>

\* replicateOnce, sendSnapshotLocked and heartbeatAck, from the answer on.
AppendAnswered(m) ==
    LET n == m.from IN
    /\ m.kind = "append" /\ Current(m) /\ m.reply.term <= currentTerm[n]
    /\ \/ /\ m.reply.ok
          /\ Matched(n, m.to, m.prev + Len(m.entries))
          /\ AdvanceCommit(n, matchIndex'[n])
       \/ /\ ~m.reply.ok
          /\ nextIndex' = [nextIndex EXCEPT ![n][m.to] = BackUp(n, m)]
          /\ UNCHANGED <<matchIndex, commitIndex, committed>>
    /\ UNCHANGED <<electionVars, lastApplied, pending, applied, readVars>>

SnapshotAnswered(m) ==
    /\ m.kind = "snapshot" /\ Current(m) /\ m.reply.term <= currentTerm[m.from]
    /\ Matched(m.from, m.to, m.snap.index)
    /\ UNCHANGED <<electionVars, applyVars, readVars, committed>>

ProbeAnswered(m) ==
    LET n == m.from IN
    /\ m.kind = "probe" /\ Current(m) /\ m.reply.term <= currentTerm[n]
    /\ reading' = [reading EXCEPT ![n].acks = IF m.reply.ok THEN @ \union {m.to} ELSE @]
    /\ UNCHANGED <<electionVars, applyVars, leaderVars, reads, committed>>

Answered(m) ==
    /\ m.reply # None
    /\ \/ AnswerDeposes(m) \/ AnswerIgnored(m)
       \/ AppendAnswered(m) \/ SnapshotAnswered(m) \/ ProbeAnswered(m)
    /\ rpcs' = rpcs \ {m}
    /\ UNCHANGED logVars

-----------------------------------------------------------------------------
\* A snapshot replaces what the machine holds.
LoadPending(n) ==
    /\ pending[n] # None
    /\ applied' = [applied EXCEPT ![n] = pending[n]]
    /\ pending' = [pending EXCEPT ![n] = None]
    /\ UNCHANGED lastApplied

\* Everything committed since is handed over.  Below the compaction point the
\* code would index out of its slice and die; only a failed installation leads
\* there (AppliableHeld).  The node then goes on without its applier, or not.
DeliverCommitted(n) ==
    /\ lastApplied[n] < commitIndex[n] /\ lastApplied[n] >= log[n].first
    /\ applied' = [applied EXCEPT ![n] =
           @ \o [i \in 1..commitIndex[n] - lastApplied[n] |->
                     TermAt(log[n], lastApplied[n] + i)]]
    /\ lastApplied' = [lastApplied EXCEPT ![n] = commitIndex[n]]
    /\ UNCHANGED pending

\* Mutant: entries are delivered before the snapshot they follow.
EntriesFirst(n) ==
    DeliverCommitted(n) \/ (lastApplied[n] = commitIndex[n] /\ LoadPending(n))

\* runApplier: a snapshot first, then everything committed since.
Deliver(n) == LoadPending(n) \/ (pending[n] = None /\ DeliverCommitted(n))

Apply(n) ==
    /\ n \in Appliers
    /\ Deliver(n)
    /\ UNCHANGED <<electionVars, logVars, commitIndex, leaderVars, readVars, rpcs, committed>>

\* The state of the machine just after it applied index: the apply loop of
\* internal/kv/cluster.go captures it before it takes the next command.
ImageAt(n, index) == SubSeq(applied[n], 1, index)

\* Snapshot: the machine hands over its state as of index; the log keeps Retain
\* entries below it.  Without the save, only the log has moved.
Snapshot(n, index) ==
    LET cut == MaxOf(index - Retain, 0)
        s == [index |-> index, term |-> TermAt(log[n], index),
              image |-> ImageAt(n, index)]
        compacted == IF cut > log[n].first
                     THEN CompactTo(log[n], cut, TermAt(log[n], cut)) ELSE log[n]
    IN
    /\ SnapshotEvery > 0 /\ index >= snap[n].index + SnapshotEvery
    /\ index > log[n].first /\ index <= lastApplied[n]
    /\ log' = [log EXCEPT ![n] = compacted]
    /\ snap' = [snap EXCEPT ![n] = s] \/ (n \in FaultySnap /\ UNCHANGED snap)
    /\ UNCHANGED <<electionVars, applyVars, leaderVars, readVars, rpcs, committed>>

-----------------------------------------------------------------------------
\* serveReadBatch without a lease: the commit index is noted, and leadership is
\* confirmed by a round of probes.
BeginRead(n) ==
    /\ n \in Readers /\ role[n] = "Leader" /\ reading[n] = None
    /\ reading' = [reading EXCEPT ![n] = [index |-> commitIndex[n],
                                         floor |-> Len(committed), acks |-> {n}]]
    /\ UNCHANGED <<electionVars, logVars, applyVars, leaderVars, reads, rpcs, committed>>

\* heartbeatAck, up to the call.
SendProbe(n, p) ==
    /\ role[n] = "Leader" /\ reading[n] # None /\ p \notin reading[n].acks
    /\ nextIndex[n][p] > log[n].first
    /\ Send(AppendCall("probe", n, p, <<>>))
    /\ UNCHANGED readVars

\* The round is over; what its probes still bring about, any append does too.
EndRound(n) ==
    /\ reading' = [reading EXCEPT ![n] = None]
    /\ rpcs' = {m \in rpcs : ~(m.kind = "probe" /\ m.from = n)}
    /\ UNCHANGED <<electionVars, logVars, applyVars, leaderVars, committed>>

\* Mutant: the leader counts itself twice.
AcknowledgedTwice(n) == Cardinality(reading[n].acks) + 1 >= Majority

Acknowledged(n) == Cardinality(reading[n].acks) >= Majority

\* A majority has acknowledged: the read may be served once the later of the
\* two commit indexes is applied.
ConfirmRead(n) ==
    LET index == MaxOf(reading[n].index, commitIndex[n]) IN
    /\ reading[n] # None /\ Acknowledged(n)
    /\ reads' = IF index >= reading[n].floor THEN reads
                ELSE reads \union {[node |-> n, term |-> currentTerm[n],
                                    own |-> index > 0 /\ committed[index].by = currentTerm[n]]}
    /\ EndRound(n)

\* The context expires, or too few probes are acknowledged.
AbandonRead(n) ==
    /\ reading[n] # None
    /\ EndRound(n) /\ UNCHANGED reads

\* NewNode recovers a process that died: the snapshot, and what the WAL holds
\* beyond it, l.  Calls to it fail; calls by it may still reach their peer.
Recover(n, t, l) ==
    /\ Deposed(n, t)
    /\ log' = [log EXCEPT ![n] = IF snap[n].index = 0 THEN l
                                  ELSE CompactTo(l, snap[n].index, snap[n].term)]
    /\ commitIndex' = [commitIndex EXCEPT ![n] = snap[n].index]
    /\ lastApplied' = [lastApplied EXCEPT ![n] = snap[n].index]
    /\ pending' = [pending EXCEPT ![n] = IF snap[n].index = 0 THEN None ELSE snap[n].image]
    /\ applied' = [applied EXCEPT ![n] = <<>>]
    /\ rpcs' = {m \in rpcs : n \notin {m.from, m.to}}
               \union {m \in rpcs : m.to = n /\ m.reply # None}
               \union {[m EXCEPT !.live = FALSE] :
                           m \in {c \in rpcs : c.from = n /\ c.reply = None}}
    /\ UNCHANGED <<snap, committed>>

\* Between two operations the WAL holds what the log does (DataDir).
Restart(n) == n \in Crashable /\ Recover(n, currentTerm[n], log[n])

\* The process dies in HandleAppendEntries, between the write of the truncation
\* and that of the last entry.
CrashInAppend(m) ==
    LET n == m.to
        new == NewEntries(log[n], m)
    IN
    /\ n \in Crashable
    /\ m.kind = "append" /\ m.reply = None /\ m.term >= currentTerm[n]
    /\ Anchored(log[n], m)
    /\ \E k \in 0..Len(new.entries) - 1 : Recover(n, m.term, Merge(log[n], new, k))

-----------------------------------------------------------------------------
Next ==
    \/ \E n \in Node : \/ \E Q \in SUBSET Peers(n) : Campaign(n, Q)
                       \/ StepDown(n) \/ Propose(n) \/ Apply(n)
                       \/ BeginRead(n) \/ ConfirmRead(n) \/ AbandonRead(n)
                       \/ Restart(n)
                       \/ \E i \in 1..Len(applied[n]) : Snapshot(n, i)
    \/ \E n \in Node, p \in Node :
           n # p /\ (\/ CampaignTooLate(n, p)
                     \/ SendAppend(n, p) \/ SendSnapshot(n, p) \/ SendProbe(n, p))
    \/ \E m \in rpcs : \/ HandleAppendEntries(m) \/ HandleInstallSnapshot(m)
                       \/ Answered(m) \/ Drop(m) \/ CrashInAppend(m)

Spec == Init /\ [][Next]_vars

-----------------------------------------------------------------------------
Log == [first : Index, firstTerm : Term, terms : UNION {[1..k -> Term] : k \in Index}]
Image == UNION {[1..k -> Term] : k \in Index}

\* Every variable has its type; a leader never asks for what precedes index 1
\* (the floor under nextIndex in replicateOnce).
TypeOK ==
    /\ currentTerm \in [Node -> Term]
    /\ votedFor \in [Node -> Node \union {None}]
    /\ role \in [Node -> {"Follower", "Leader"}]
    /\ log \in [Node -> Log]
    /\ \A n \in Node : LastIndex(log[n]) <= MaxLen
    /\ snap \in [Node -> [index : Index, term : Term, image : Image]]
    /\ commitIndex \in [Node -> Index] /\ lastApplied \in [Node -> Index]
    /\ applied \in [Node -> Image]
    /\ nextIndex \in [Node -> [Node -> 0..MaxLen + 1]]
    /\ \A n, p \in Node : role[n] = "Leader" => nextIndex[n][p] > 0
    /\ matchIndex \in [Node -> [Node -> Index]]

\* State machine safety: whatever crashes, is lost, delayed or compacted, every
\* node knows a prefix of the one committed sequence as committed, and has
\* handed one to its machine (runApplier).
StateMachineSafety ==
    \A n \in Node :
        /\ commitIndex[n] <= Len(committed)
        /\ \A i \in Held(log[n]) :
               0 < i /\ i <= commitIndex[n] => TermAt(log[n], i) = committed[i].term
        /\ Len(applied[n]) <= Len(committed)
        /\ \A i \in 1..Len(applied[n]) : applied[n][i] = committed[i].term

\* A commit is for ever: no later leader commits another entry in its place
\* (maybeAdvanceCommitLocked).
CommittedKept ==
    [][\A i \in DOMAIN committed : i \in DOMAIN committed' /\ committed'[i] = committed[i]]_vars


\* Log matching: "an identical (index, term) means identical content", and the
\* same before it.
LogMatching ==
    \A n, p \in Node :
        \A i \in Held(log[n]) \intersect Held(log[p]) :
            TermAt(log[n], i) = TermAt(log[p], i) =>
                \A j \in Held(log[n]) \intersect Held(log[p]) :
                    j < i => TermAt(log[n], j) = TermAt(log[p], j)

\* "The follower now provably holds everything we sent": as long as it has not
\* moved to a later term, a follower holds what its leader counts on, up to
\* matchIndex, in its log with the leader's terms, or else in its snapshot.  One
\* that could not save a snapshot lacks nothing but what is committed without it.
MatchIsHeld ==
    \A n, p \in Node :
        role[n] = "Leader" /\ n # p /\ currentTerm[p] = currentTerm[n] =>
            \A i \in 1..matchIndex[n][p] :
                \/ /\ i > log[p].first /\ i <= LastIndex(log[p])
                   /\ i \in Held(log[n]) => TermAt(log[p], i) = TermAt(log[n], i)
                \/ /\ i <= log[p].first
                   /\ i <= snap[p].index \/ (p \in FaultySnap /\ i <= commitIndex[n])

\* On a sound disk the applier is never ahead of the log: what it has still to
\* deliver has not been compacted (runApplier, HandleInstallSnapshot, Snapshot).
AppliableHeld ==
    \A n \in Node \ FaultySnap :
        log[n].first <= lastApplied[n] /\ lastApplied[n] <= commitIndex[n]
            /\ commitIndex[n] <= LastIndex(log[n])

\* A snapshot is the committed prefix its index says, wherever it came from.
SnapshotIsPrefix ==
    \A n \in Node :
        /\ Len(snap[n].image) = snap[n].index /\ snap[n].index <= Len(committed)
        /\ \A i \in 1..snap[n].index : snap[n].image[i] = committed[i].term

\* Every rejection moves nextIndex back, so that the immediate retries of
\* replicateOnce come to an end; at index 1 only a failing disk rejects.
RejectionsEnd ==
    [][\A m \in rpcs :
          Answered(m) /\ m.kind = "append" /\ ~m.reply.ok /\ Current(m) /\ Current(m)' =>
              \/ nextIndex'[m.from][m.to] < nextIndex[m.from][m.to]
              \/ nextIndex[m.from][m.to] = 1 /\ m.to \in Faulty]_vars

\* A read confirmed by a leader that has committed in its own term returns
\* nothing older than what was committed when it began (serveReadBatch).
OwnTermReads == \A r \in reads : ~r.own

\* "ReadIndex confirms leadership (majority heartbeat) and returns the commit
\* index that must be applied before a linearizable local read is safe."
ReadsLinearizable == reads = {}

=============================================================================
