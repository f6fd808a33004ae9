------------------------------ MODULE DataDir ------------------------------
(***************************************************************************)
(* A data directory: a write-ahead log and a snapshot file, used either by *)
(* storage.Store (internal/storage) or by the Raft persister               *)
(* (internal/raft/persist.go).  An operation is the list of file-system    *)
(* steps its function takes; the machine may lose power, and a step may    *)
(* fail, at any of them.                                                   *)
(*                                                                         *)
(* A crash keeps what was forced to the device (fsync) and any part of the *)
(* rest.  A frame cut short is dropped by replayWAL, so a log survives as  *)
(* a prefix of its records, and a rename or a truncation may be undone     *)
(* until it is synced.  A failed write is final, for the buffered writer   *)
(* then refuses all later ones; a failed fsync is not.                     *)
(***************************************************************************)
EXTENDS Integers, Sequences, SequencesExt

CONSTANTS Key, Value,        \* what the store maps, and the commands of the Raft log
          None,              \* an absent key
          Retain,            \* snapshotRetain
          Faulty,            \* the users whose steps can fail
          MaxFailures,       \* bound on failing steps
          MaxHard,           \* bound on hard states saved
          MaxLen,            \* bound on the Raft log's length
          MaxRecords         \* bound on the records of the write-ahead log

ASSUME DataDirAssumption ==
    /\ Retain \in Nat /\ MaxFailures \in Nat /\ MaxHard \in Nat /\ MaxLen \in Nat /\ MaxRecords \in Nat
    /\ Faulty \subseteq {"store", "raft"} /\ None \notin Value

VARIABLES user,              \* whose directory it is: "store" or "raft"
          wal,               \* the records of the log file
          synced,            \* how many of them are on the device
          formerWAL,         \* logs a crash can bring back
          snap,              \* the snapshot file's content
          formerSnap,        \* snapshots a crash can bring back
          usable,            \* the log's handle can be written to
          mem,               \* the state in memory
          todo,              \* the steps left of the operation under way
          goal,              \* the state in memory once it is done
          back,              \* the states in memory it can leave if a step fails
          failures,          \* steps that have failed
          accept             \* the states a recovery may yield (history)

files == <<wal, synced, formerWAL, snap, formerSnap>>
vars == <<user, files, usable, mem, todo, goal, back, failures,
          accept>>

-----------------------------------------------------------------------------
(* The store: a map; its log holds commands.                               *)

Map == [Key -> Value \union {None}]
Command == [key : Key, value : Value \union {None}]      \* None deletes the key

Apply(m, c) == [m EXCEPT ![c.key] = c.value]

\* Open: the snapshot, and the whole log replayed over it.
OpenStore(s, recs) == FoldLeft(Apply, s, recs)

(* The Raft state: the hard state (term and vote, counted as one), the     *)
(* commands of the last snapshot taken or installed, up to which the node  *)
(* knows the log to be committed, and the log kept after `first'.          *)

Hard == 0..MaxHard
Commands == UNION {[1..n -> Value] : n \in 0..MaxLen}
RaftState == [hard : Hard, snap : Commands, first : 0..MaxLen, log : Commands]

LastIndex(m) == m.first + Len(m.log)

\* Every command the state holds, whether in the snapshot or in the log.  (A log
\* that starts beyond the snapshot is what a failed installation leaves.)
Contents(m) == SubSeq(m.snap, 1, Min({m.first, Len(m.snap)})) \o m.log

HardRecord(h) == [type |-> "hardstate", arg |-> h]
TruncateRecord(i) == [type |-> "truncate", arg |-> i]
EntryRecord(i, v) == [type |-> "entry", arg |-> i, value |-> v]
EntryRecords(vs, after) == [i \in DOMAIN vs |-> EntryRecord(after + i, vs[i])]

\* A truncate marker pops trailing entries at or above its index.
DropFrom(es, i) ==
    LET kept == {j \in DOMAIN es : es[j].arg < i}
    IN  SubSeq(es, 1, Max(kept \union {0}))

ReplayRecord(st, r) ==
    CASE r.type = "hardstate" -> [st EXCEPT !.hard = r.arg]
      [] r.type = "entry"     -> [st EXCEPT !.entries = Append(@, r)]
      [] r.type = "truncate"  -> [st EXCEPT !.entries = DropFrom(@, r.arg)]

\* Mutant: entries the snapshot already covers are replayed as well.
AllReplayed(es, index) == es

\* Leading entries at or below the snapshot are dropped.
BeyondSnapshot(es, index) ==
    LET live == {j \in DOMAIN es : es[j].arg > index}
    IN  SubSeq(es, Min(live \union {Len(es) + 1}), Len(es))

\* openPersister, and NewNode's log around it.
Replay(recs) == FoldLeft(ReplayRecord, [hard |-> 0, entries |-> <<>>], recs)
LiveEntries(s, recs) == BeyondSnapshot(Replay(recs).entries, Len(s))
OpenPersister(s, recs) ==
    LET es == LiveEntries(s, recs)
    IN  [hard |-> Replay(recs).hard, snap |-> s, first |-> Len(s),
         log |-> [i \in DOMAIN es |-> es[i].value]]

\* raftLog.compactTo
CompactTo(m, index) ==
    IF index <= m.first THEN m
    ELSE [m EXCEPT !.first = index,
                   !.log = SubSeq(@, index - m.first + 1, Len(@))]

-----------------------------------------------------------------------------
Recover(s, recs) ==
    IF user = "store" THEN OpenStore(s, recs) ELSE OpenPersister(s, recs)

\* What of a state must survive: the map; the hard state and the commands.
Seen(m) == IF user = "store" THEN m ELSE [hard |-> m.hard, all |-> Contents(m)]

\* What a crash can leave of the two files, and what is recovered from them.
Torn == {SubSeq(wal, 1, i) : i \in synced..Len(wal)}
WALsLeft == Torn \union formerWAL
SnapsLeft == {snap} \union formerSnap
Outcomes == {Seen(Recover(s, w)) : s \in SnapsLeft, w \in WALsLeft}

Step(kind, arg) == [step |-> kind, arg |-> arg]
Write(r) == Step("write", r)
Sync == Step("sync", <<>>)                  \* flush, then fsync
Prepare == Step("prepare", <<>>)            \* a temporary file, written and fsynced
InstallSnap(s) == Step("renameSnap", s)
SyncDir == Step("syncDir", <<>>)
CloseWAL == Step("close", <<>>)
SwapWAL(recs) == Step("renameWAL", recs)
EmptyWAL == Step("truncateWAL", <<>>)
OpenWAL == Step("open", <<>>)

Init ==
    /\ user \in {"store", "raft"}
    /\ wal = <<>> /\ synced = 0 /\ formerWAL = {} /\ formerSnap = {}
    /\ snap = IF user = "store" THEN [k \in Key |-> None] ELSE <<>>
    /\ mem = Recover(snap, <<>>)
    /\ usable = TRUE /\ todo = <<>> /\ failures = 0
    /\ goal = mem /\ back = {} /\ accept = {Seen(mem)}

\* A function starts: it will take `steps' and leave m, or a state of `undone'
\* if a step fails; `stages' are the states it passes through on disk.
Begin(steps, m, undone, stages) ==
    /\ todo = <<>>
    /\ todo' = steps /\ goal' = m /\ back' = undone
    /\ accept' = accept \union stages
    /\ UNCHANGED <<user, files, usable, mem, failures>>

Room(n) == Len(wal) + n <= MaxRecords

-----------------------------------------------------------------------------
(* storage.Store *)

\* (On a broken handle it fails and changes nothing.)
LogAndApply(c) ==
    /\ user = "store" /\ usable /\ Room(1)
    /\ Begin(<<Write(c), Sync>>, Apply(mem, c), {mem}, {Apply(s, c) : s \in accept})

\* Mutant: the log is emptied before the snapshot's name is durable.
StoreSnapshotUnsynced ==
    /\ user = "store"
    /\ Begin(<<Prepare, InstallSnap(mem), CloseWAL, EmptyWAL, OpenWAL>>,
             mem, {mem}, {})

StoreSnapshot ==
    /\ user = "store"
    /\ Begin(<<Prepare, InstallSnap(mem), SyncDir, CloseWAL, EmptyWAL, OpenWAL>>,
             mem, {mem}, {})

(* The Raft persister, with the change in memory that each call follows: a *)
(* vote that was not saved is taken back, and so are proposals, but not a  *)
(* new term, a truncation, or entries that a leader sent.                  *)

SaveHardState ==
    /\ user = "raft" /\ Room(1) /\ mem.hard < MaxHard
    /\ LET m == [mem EXCEPT !.hard = @ + 1]
       IN  Begin(<<Write(HardRecord(m.hard)), Sync>>, m, {mem, m}, {Seen(m)})

\* One fsync for the batch; any number of its entries may reach the disk.
AppendEntries(vs) ==
    /\ user = "raft" /\ Room(Len(vs)) /\ LastIndex(mem) + Len(vs) <= MaxLen
    /\ LET With(n) == [mem EXCEPT !.log = @ \o SubSeq(vs, 1, n)]
           recs == EntryRecords(vs, LastIndex(mem))
       IN  Begin([i \in DOMAIN recs |-> Write(recs[i])] \o <<Sync>>,
                 With(Len(vs)), {mem, With(Len(vs))}, {Seen(With(n)) : n \in 1..Len(vs)})

\* Only entries that are not yet committed conflict: none of the snapshot's.
TruncateFrom(i) ==
    /\ user = "raft" /\ Room(1)
    /\ i > Len(mem.snap) /\ i > mem.first /\ i <= LastIndex(mem)
    /\ LET m == [mem EXCEPT !.log = SubSeq(@, 1, i - mem.first - 1)]
       IN  Begin(<<Write(TruncateRecord(i)), Sync>>, m, {m}, {Seen(m)})

\* Mutant: the log is rewritten before the snapshot is in place.
SaveSnapshotSwapped(m, undone) ==
    LET recs == <<HardRecord(m.hard)>> \o EntryRecords(m.log, m.first)
    IN  /\ Len(recs) <= MaxRecords
        /\ Begin(<<Prepare, Prepare, CloseWAL, SwapWAL(recs), SyncDir, OpenWAL,
                   InstallSnap(m.snap), SyncDir>>, m, {undone}, {Seen(m)})

\* m has its log already compacted, and the new snapshot; if a step fails, the
\* memory is left as in `undone', whether or not the new file has its name.
SaveSnapshot(m, undone) ==
    LET recs == <<HardRecord(m.hard)>> \o EntryRecords(m.log, m.first)
    IN  /\ Len(recs) <= MaxRecords
        /\ Begin(<<Prepare, InstallSnap(m.snap), SyncDir, Prepare, CloseWAL,
                   SwapWAL(recs), SyncDir, OpenWAL>>, m, {undone}, {Seen(m)})

Cut(index) == IF index > Retain THEN index - Retain ELSE 0

\* Node.Snapshot: the state machine has captured everything up to index, and
\* holds it whether or not the save succeeds.  (No machine gets past entries
\* that a failed installation has cut off.)
Snapshot(index) ==
    LET m == [CompactTo(mem, Cut(index)) EXCEPT !.snap = SubSeq(Contents(mem), 1, index)]
    IN
    /\ user = "raft" /\ mem.first <= Len(mem.snap)
    /\ index > mem.first /\ index <= LastIndex(mem)
    /\ SaveSnapshot(m, m)

\* HandleInstallSnapshot: the leader's snapshot, of more than is known to be
\* committed; what lies beyond it is kept.  Without the save the data is dropped,
\* and only the log has moved.
InstallSnapshot(data) ==
    LET compacted == CompactTo(mem, Len(data)) IN
    /\ user = "raft" /\ Len(data) > Len(mem.snap) /\ IsPrefix(mem.snap, data)
    /\ SaveSnapshot([compacted EXCEPT !.snap = data], compacted)

-----------------------------------------------------------------------------
(* The steps *)

\* What a step does to the files.
Perform(s) ==
    /\ s.step \in {"write", "sync", "close"} => usable
    /\ wal' = CASE s.step = "write" -> Append(wal, s.arg)
                [] s.step \in {"renameWAL", "truncateWAL"} -> s.arg
                [] OTHER -> wal
    /\ synced' = IF s.step \in {"sync", "renameWAL", "truncateWAL"} THEN Len(wal')
                 ELSE synced
    /\ formerWAL' = CASE s.step \in {"renameWAL", "truncateWAL"} -> WALsLeft
                      [] s.step \in {"sync", "syncDir"} -> {}
                      [] OTHER -> formerWAL
    /\ snap' = IF s.step = "renameSnap" THEN s.arg ELSE snap
    /\ formerSnap' = CASE s.step = "renameSnap" -> formerSnap \union {snap}
                       [] s.step = "syncDir" -> {}
                       [] OTHER -> formerSnap
    /\ usable' = CASE s.step = "close" -> FALSE [] s.step = "open" -> TRUE
                   [] OTHER -> usable

\* The next step succeeds.  After the last one the caller is told so, and what
\* it was told must survive; a snapshot of the store tells it nothing new.
Proceed ==
    /\ todo # <<>>
    /\ Perform(Head(todo))
    /\ todo' = Tail(todo)
    /\ IF Len(todo) > 1 THEN UNCHANGED <<mem, accept>>
       ELSE /\ mem' = goal
            /\ accept' = CASE user = "raft" -> {Seen(goal)}
                           [] Head(todo) = OpenWAL -> accept
                           [] OTHER -> {a \in accept : Apply(a, Last(wal)) = a}
    /\ UNCHANGED <<user, goal, back, failures>>

\* The next step fails, and the function returns.
Fail ==
    /\ user \in Faulty /\ todo # <<>>
    /\ LET s == Head(todo).step IN
       /\ IF s \in {"write", "sync", "close"} /\ ~usable THEN UNCHANGED failures
          ELSE failures < MaxFailures /\ failures' = failures + 1
       /\ \/ s \in {"write", "sync"} /\ wal' \in Torn /\ usable' = FALSE
          \/ s = "close" /\ wal' = wal /\ usable' = FALSE
          \/ s \notin {"write", "close"} /\ UNCHANGED <<wal, usable>>
    /\ todo' = <<>>
    /\ mem' \in back
    /\ UNCHANGED <<user, synced, formerWAL, snap, formerSnap, goal, back, accept>>

\* The machine loses power, and a new process opens what is left.
Crash ==
    /\ \E s \in SnapsLeft, w \in WALsLeft :
           /\ snap' = s /\ wal' = w
           /\ mem' = Recover(s, w)
    /\ synced' = Len(wal') /\ formerWAL' = {} /\ formerSnap' = {}
    /\ usable' = TRUE /\ todo' = <<>> /\ goal' = mem' /\ back' = {}
    /\ accept' = {Seen(mem')}
    /\ UNCHANGED <<user, failures>>

Next ==
    \/ \E c \in Command : LogAndApply(c)
    \/ StoreSnapshot
    \/ SaveHardState
    \/ \E vs \in Commands \ {<<>>} : AppendEntries(vs)
    \/ \E i \in 1..MaxLen : TruncateFrom(i) \/ Snapshot(i)
    \/ \E data \in Commands : InstallSnapshot(data)
    \/ Proceed \/ Fail \/ Crash

Spec == Init /\ [][Next]_vars

-----------------------------------------------------------------------------
\* The files and the memory have their types: a log recovered from any mixture
\* of old and new files is no longer than the one that was written.
TypeOK ==
    /\ synced \in 0..Len(wal) /\ Len(wal) <= MaxRecords
    /\ usable \in BOOLEAN /\ failures \in 0..MaxFailures
    /\ user = "store" => /\ {mem, goal, snap} \union formerSnap \union back \subseteq Map
                         /\ wal \in Seq(Command)
    /\ user = "raft" => /\ {mem, goal} \union back \subseteq RaftState
                        /\ LastIndex(mem) <= MaxLen
                        /\ {snap} \union formerSnap \subseteq Commands

\* "the returned Store reflects every acknowledged write, in order" (store.go,
\* Open): wherever the machine stops, inside a write, inside a snapshot, or
\* after failed ones, Open yields a map with every acknowledged write, and of
\* the others at most those that were cut short or failed.
StoreRecovers == user = "store" => Outcomes \subseteq accept

\* openPersister yields the hard state and the commands of the last call of
\* the persister that returned, or of the one cut short, down to each entry of
\* a batch; a snapshot is never lost together with the entries it replaced.
RaftRecovers == user = "raft" => Outcomes \subseteq accept


=============================================================================
