-------------------------------- MODULE KV --------------------------------
(***************************************************************************)
(* A node of the replicated key-value service (internal/kv/cluster.go):    *)
(* how a proposal finds its result again once its log entry is applied,    *)
(* and how clients that retry, leaders that change, restarts and snapshots *)
(* that replace the machine leave every request executed once.             *)
(*                                                                         *)
(* Raft is what the service sees of it.  While the node believes it leads, *)
(* entries are appended to its log; the committed log grows by them, or by *)
(* what another leader has taken from the clients, which then overwrites   *)
(* them: an index can be given out twice.  The other nodes' machines are   *)
(* not followed; a snapshot of theirs is the image of a committed prefix.  *)
(***************************************************************************)
EXTENDS Machine

CONSTANTS Program,           \* the commands of each client, one after the other
          SnapEvery,         \* SnapshotEntries
          RecentKept,        \* the 256 of handleApply
          SnapshotFails,     \* whether Raft may fail to take an image
          MaxLag,            \* how far a call may be behind its client's newest
          MaxLog             \* bound on log positions

ASSUME KVAssumption ==
    /\ SnapEvery \in Nat \ {0} /\ RecentKept \in Nat /\ MaxLog \in Nat
    /\ MaxLag \in 0..Window /\ SnapshotFails \in BOOLEAN

VARIABLES
    committed,               \* the committed log
    role,                    \* of the node: "stale" is a leader that has been replaced
    held,                    \* how much of the committed log it knows of while it leads
    tail,                    \* the uncommitted entries in its log
    machine, lastApplied,    \* the state machine, and the last index applied to it
    snapshot,                \* the Raft snapshot: index and image
    lastSnapIndex,
    waiters,                 \* index -> the client whose call waits for it
    recent,                  \* index -> the result nobody waited for
    call,                    \* propose, running for a client
    newest,                  \* the request each client works on
    listening,               \* whether the client waits for this node's answer
    answered                 \* whether it has got one

raft == <<committed, role, held, tail>>
replica == <<machine, lastApplied, snapshot, lastSnapIndex>>
client == <<newest, listening, answered>>
vars == <<raft, replica, waiters, recent, call, client>>

\* The command of client c's request r.
Request(c, r) == Program[c][r] @@ [client |-> c, req |-> r]

NoCall == [pc |-> "idle", req |-> 0, index |-> 0, steady |-> FALSE, got |-> <<>>]

Init ==
    /\ committed = <<>> /\ role = "follower" /\ held = 0 /\ tail = <<>>
    /\ machine = NewMachine /\ lastApplied = 0
    /\ snapshot = [index |-> 0, image |-> Image(NewMachine)] /\ lastSnapIndex = 0
    /\ waiters = <<>> /\ recent = <<>>
    /\ call = [c \in Client |-> NoCall]
    /\ newest = [c \in Client |-> 1]
    /\ listening = [c \in Client |-> FALSE] /\ answered = [c \in Client |-> FALSE]

-----------------------------------------------------------------------------
(* Raft, as the service uses it.                                           *)

Leads == role # "follower"

\* The committed entries in the node's log.
Held == IF Leads THEN held ELSE Len(committed)
LogEnd == Held + Len(tail)

\* The calls under way may have lost their place in the log.
Unsettle == call' = [c \in Client |-> [call[c] EXCEPT !.steady = FALSE]]

\* The node wins an election.  What is left of its tail it keeps.
Elect ==
    /\ role = "follower"
    /\ role' = "leader" /\ held' = Len(committed)
    /\ UNCHANGED <<committed, tail, replica, waiters, recent, call, client>>

\* Another node wins one, unnoticed.
Replaced ==
    /\ role = "leader"
    /\ role' = "stale" /\ Unsettle
    /\ UNCHANGED <<committed, held, tail, replica, waiters, recent, client>>

StepDown ==
    /\ Leads
    /\ role' = "follower" /\ held' = 0 /\ Unsettle
    /\ tail' = IF held = Len(committed) THEN tail ELSE <<>>
    /\ UNCHANGED <<committed, replica, waiters, recent, client>>

Commit ==
    /\ role = "leader" /\ tail # <<>>
    /\ committed' = Append(committed, Head(tail))
    /\ held' = held + 1 /\ tail' = Tail(tail)
    /\ UNCHANGED <<role, replica, waiters, recent, call, client>>

\* Another leader commits an entry: one it has from this node, or a request it
\* has taken itself.
CommitElsewhere ==
    /\ role # "leader" /\ Len(committed) < MaxLog
    /\ \/ /\ Held = Len(committed) /\ tail # <<>>
          /\ committed' = Append(committed, Head(tail))
          /\ tail' = IF Leads THEN tail ELSE Tail(tail)
       \/ /\ \E c \in Client : /\ ~listening[c] /\ ~answered[c]
                              /\ committed' = Append(committed, Request(c, newest[c]))
          /\ tail' = IF Leads THEN tail ELSE <<>>
    /\ UNCHANGED <<role, held, replica, waiters, recent, call, client>>

-----------------------------------------------------------------------------
(* The applier goroutine.                                                  *)

\* The result goes to the waiter of the index, or is kept for one to come.
Deliver(i, res) ==
    IF i \in DOMAIN waiters
    THEN /\ call' = [call EXCEPT ![waiters[i]].got = <<res>>]
         /\ waiters' = Restrict(waiters, DOMAIN waiters \ {i})
         /\ UNCHANGED recent
    ELSE /\ LET all == (i :> res) @@ recent
            IN  recent' = Restrict(all, {j \in DOMAIN all : ~(j + RecentKept < i)})
         /\ UNCHANGED <<call, waiters>>

\* Mutant: the cadence forgets the snapshot.
TakeUncounted(i, m) ==
    /\ snapshot' = [index |-> i, image |-> Image(m)]
    /\ UNCHANGED lastSnapIndex

\* maybeSnapshotAt, if Raft takes the image.
TakeSnapshot(i, m) ==
    /\ snapshot' = [index |-> i, image |-> Image(m)]
    /\ lastSnapIndex' = i

SnapshotDue(i) == i >= lastSnapIndex + SnapEvery

\* handleApply on a command.  No snapshot is taken while the node has much to
\* catch up on, as far as its commit index tells it, or when Raft refuses it.
HandleApply ==
    LET i == lastApplied + 1
        m == Apply(machine, committed[i])
    IN
    /\ i <= Held
    /\ machine' = m /\ lastApplied' = i
    /\ Deliver(i, ApplyOutcome(machine, committed[i]))
    /\ \/ SnapshotDue(i) /\ TakeSnapshot(i, m)
       \/ /\ SnapshotDue(i) => SnapshotFails \/ Len(committed) > i + SnapEvery
          /\ UNCHANGED <<snapshot, lastSnapIndex>>
    /\ UNCHANGED <<raft, client>>

\* What any replica's machine is after the first i entries.
MachineAt(i) == FoldLeft(Apply, NewMachine, SubSeq(committed, 1, i))

\* handleApply on a snapshot: the leader's, taken no sooner than the first is due,
\* replaces the machine.
HandleSnapshot ==
    /\ ~Leads
    /\ \E i \in Max({lastApplied + 1, SnapEvery})..Len(committed) :
           /\ machine' = Restore(Image(MachineAt(i)))
           /\ lastApplied' = i /\ lastSnapIndex' = i
           /\ snapshot' = [index |-> i, image |-> Image(MachineAt(i))]
    /\ UNCHANGED <<raft, waiters, recent, call, client>>

\* The process dies and NewCluster starts on the same directory: the snapshot is
\* delivered first.  Callers lose their connection.
Restart ==
    /\ role' = "follower" /\ held' = 0
    /\ tail' = IF Held = Len(committed) THEN tail ELSE <<>>
    /\ machine' = Restore(snapshot.image)
    /\ lastApplied' = snapshot.index /\ lastSnapIndex' = snapshot.index
    /\ waiters' = <<>> /\ recent' = <<>>
    /\ call' = [c \in Client |-> NoCall]
    /\ listening' = [c \in Client |-> FALSE]
    /\ UNCHANGED <<committed, snapshot, newest, answered>>

-----------------------------------------------------------------------------
(* propose: the goroutine that serves client c.                            *)

\* raft.Propose accepts the command at the end of the log.
Accept(c, r) ==
    /\ Leads /\ LogEnd < MaxLog
    /\ tail' = Append(tail, Request(c, r))
    /\ call' = [call EXCEPT ![c] =
                   [pc |-> "register", req |-> r, index |-> LogEnd + 1,
                    steady |-> role = "leader", got |-> <<>>]]
    /\ UNCHANGED <<committed, role, held, replica, waiters, recent>>

\* The call returns a result, to a client that may no longer be there.
Finish(c) ==
    /\ call' = [call EXCEPT ![c] = NoCall]
    /\ answered' = [answered EXCEPT ![c] = @ \/ listening[c]]
    /\ listening' = [listening EXCEPT ![c] = FALSE]
    /\ UNCHANGED <<raft, replica, newest>>

\* The call returns an error.
Refuse(c) ==
    /\ call' = [call EXCEPT ![c] = NoCall]
    /\ listening' = [listening EXCEPT ![c] = FALSE]
    /\ UNCHANGED <<raft, replica, recent, newest, answered>>

\* The result was kept, and is taken from there.
TakeRecent(c) ==
    /\ call[c].index \in DOMAIN recent
    /\ recent' = Restrict(recent, DOMAIN recent \ {call[c].index})
    /\ Finish(c)

\* The result may be there before the waiter is.
Register(c) ==
    /\ call[c].pc = "register"
    /\ \/ TakeRecent(c) /\ UNCHANGED waiters
       \/ /\ call[c].index \notin DOMAIN recent
          /\ waiters' = (call[c].index :> c) @@ waiters
          /\ call' = [call EXCEPT ![c].pc = "wait"]
          /\ UNCHANGED <<raft, replica, recent, client>>

Receive(c) ==
    /\ call[c].pc = "wait" /\ call[c].got # <<>>
    /\ Finish(c)
    /\ UNCHANGED <<waiters, recent>>

\* Whoever waits for the index by now is forgotten.
Forget(i) == waiters' = Restrict(waiters, DOMAIN waiters \ {i})

TimeOut(c) ==
    /\ call[c].pc = "wait"
    /\ Forget(call[c].index)
    /\ \/ TakeRecent(c)
       \/ /\ call[c].index \notin DOMAIN recent
          /\ call' = [call EXCEPT ![c] = [NoCall EXCEPT !.pc = "retry", !.req = call[c].req]]
          /\ UNCHANGED <<raft, replica, recent, client>>

\* The context ends once nobody listens.
Cancel(c) ==
    /\ ~listening[c]
    /\ \/ call[c].pc = "wait" /\ Forget(call[c].index)
       \/ call[c].pc = "retry" /\ UNCHANGED waiters
    /\ Refuse(c)

\* The command is proposed again; MaxLag says how long a context outlives the
\* request it was made for.
Repropose(c) ==
    /\ call[c].pc = "retry" /\ newest[c] <= call[c].req + MaxLag
    /\ \/ Accept(c, call[c].req) /\ UNCHANGED client
       \/ ~Leads /\ Refuse(c) /\ UNCHANGED waiters

-----------------------------------------------------------------------------
(* The clients: loadgen's workers and the traffic agent.                   *)

\* An attempt of viaLeader reaches this node; a client has one call at it at a time.
Send(c) ==
    /\ ~listening[c] /\ ~answered[c] /\ call[c] = NoCall
    /\ Accept(c, newest[c])
    /\ listening' = [listening EXCEPT ![c] = TRUE]
    /\ UNCHANGED <<newest, answered>>

\* The connection breaks or the deadline of the attempt passes; the server's call
\* learns of it later, if at all (Cancel).
Abandon(c) ==
    /\ listening[c]
    /\ listening' = [listening EXCEPT ![c] = FALSE]
    /\ UNCHANGED <<raft, replica, waiters, recent, call, newest, answered>>

\* The next request, after an answer or for want of one.
Advance(c) ==
    /\ ~listening[c] /\ newest[c] < Len(Program[c])
    /\ newest' = [newest EXCEPT ![c] = @ + 1]
    /\ answered' = [answered EXCEPT ![c] = FALSE]
    /\ UNCHANGED <<raft, replica, waiters, recent, call, listening>>

Next ==
    \/ Elect \/ Replaced \/ StepDown \/ Commit \/ CommitElsewhere
    \/ HandleApply \/ HandleSnapshot \/ Restart
    \/ \E c \in Client :
           \/ Register(c) \/ Receive(c) \/ TimeOut(c) \/ Cancel(c) \/ Repropose(c)
           \/ Send(c) \/ Abandon(c) \/ Advance(c)

Spec == Init /\ [][Next]_vars

-----------------------------------------------------------------------------
\* Every variable has its type: the node applies what it knows to be committed,
\* and the cadence of snapshots counts from the one it has (handleApply).
TypeOK ==
    /\ \A i \in 1..Len(committed) : committed[i] \in Command
    /\ held <= Len(committed) /\ LogEnd <= MaxLog
    /\ snapshot.index <= lastApplied /\ lastApplied <= Held
    /\ lastSnapIndex = snapshot.index
    /\ machine.data \in [Slots -> Value \union {Absent}]
    /\ \A i \in DOMAIN waiters : waiters[i] \in Client
    /\ DOMAIN recent \subseteq 1..lastApplied
    /\ \A c \in Client : call[c].steady => call[c].index <= LogEnd

\* Every request in the log is executed at its first entry, whatever has been
\* swept from the table by the time it comes up again: the data are those of a
\* machine that forgets nothing ("the duplicate log entry exists, but the state
\* does not change twice").
Once(m, cmd) ==
    IF Duplicate(m, cmd) THEN m
    ELSE [data |-> Execute(m.data, cmd),
          applied |-> (DedupKey(cmd) :> Result(m.data, cmd)) @@ m.applied]

Executed(i) == FoldLeft(Once, [data |-> NewMachine.data, applied |-> <<>>], SubSeq(committed, 1, i))

ExactlyOnce == machine.data = Executed(lastApplied).data

\* The machine is a function of the log prefix it has applied, table, sweep pace
\* and all, whether it replayed the log or was restored on the way.
ReplicasAgree ==
    machine = MachineAt(lastApplied) /\ Restore(snapshot.image) = MachineAt(snapshot.index)

\* What the call of c returns if it takes the step to answered.
Returned(c) ==
    IF call[c].got # <<>> THEN call[c].got[1] ELSE recent[call[c].index]

Outcome(res) == <<res.found, res.value>>

\* The answer a client gets is what its own request did when it was executed,
\* and that was in the applied prefix.
OwnResult(c) ==
    LET done == Executed(lastApplied).applied
        k == <<c, call[c].req>>
    IN  k \in DOMAIN done /\ Outcome(Returned(c)) = Outcome(done[k])

\* A leader that has led since it took the proposal answers with that result:
\* no retry, timeout or neighbour at the same index gets in between.
SteadyAnswer ==
    [][\A c \in Client : call[c].steady /\ answered'[c] /\ ~answered[c] => OwnResult(c)]_vars

\* "Only after the entry is committed on a majority AND applied locally does the
\* client get success" (cluster.go:15).
AnswerIsOwn ==
    [][\A c \in Client : answered'[c] /\ ~answered[c] => OwnResult(c)]_vars

=============================================================================
