------------------------------ MODULE Machine ------------------------------
(***************************************************************************)
(* The replicated key-value machine of internal/kv/machine.go, as a        *)
(* function from a machine and a committed command to the next machine and *)
(* the command's result: the operations, the table that makes a request    *)
(* (clientID, requestID) run once, and the sweep that bounds the table.    *)
(***************************************************************************)
EXTENDS Integers, FiniteSets, SequencesExt

CONSTANTS Key, Value, Client,
          NoClient,          \* the empty clientID
          Absent,            \* what a missing key holds
          Empty,             \* the empty value, and no value at all in a result
          Window, HighWater, SweepEvery    \* dedupWindow, dedupHighWater, dedupSweepEvery

ASSUME MachineAssumption ==
    /\ Empty \in Value /\ Absent \notin Value /\ NoClient \notin Client
    /\ Window \in Nat /\ HighWater \in Nat /\ SweepEvery \in Nat \ {0}

Command == [op : {"get", "put", "cas", "checkpoint"}, client : Client \union {NoClient},
            req : Nat, key : Key, expect : Value, value : Value]

ApplyResult == [found : BOOLEAN, value : Value, duplicate : BOOLEAN]

\* Where data is kept: under a key, or under the checkpointKey of a client.
Slots == Key \union Client \union {NoClient}
Slot(cmd) == IF cmd.op = "checkpoint" THEN cmd.client ELSE cmd.key

NewMachine ==
    [data |-> [k \in Slots |-> Absent],
     applied |-> <<>>,       \* the function with the empty domain
     maxReq |-> [c \in Client |-> 0],
     applyCount |-> 0]

DedupKey(cmd) == <<cmd.client, cmd.req>>

Tracked(cmd) == cmd.client # NoClient /\ cmd.req # 0

\* A swap succeeds on the expected value; on a missing key, if none is expected.
Swaps(data, cmd) ==
    IF data[cmd.key] = Absent THEN cmd.expect = Empty ELSE data[cmd.key] = cmd.expect

Mutates(data, cmd) ==
    cmd.op \in {"put", "checkpoint"} \/ (cmd.op = "cas" /\ Swaps(data, cmd))

Execute(data, cmd) ==
    [data EXCEPT ![Slot(cmd)] = IF Mutates(data, cmd) THEN cmd.value ELSE @]

Result(data, cmd) ==
    [found |-> IF cmd.op = "get" THEN data[cmd.key] # Absent ELSE Mutates(data, cmd),
     value |-> CASE cmd.op = "checkpoint"    -> cmd.value
                 [] data[cmd.key] = Absent -> Empty
                 [] OTHER                  -> data[cmd.key],
     duplicate |-> FALSE]

\* Mutant: the newest request but Window falls out of the table too.
SweptTooFar(applied, maxReq) ==
    Restrict(applied, {k \in DOMAIN applied : k[2] + Window > maxReq[k[1]]})

\* sweepDedupLocked
Swept(applied, maxReq) ==
    Restrict(applied, {k \in DOMAIN applied : ~(k[2] + Window < maxReq[k[1]])})

SweepDue(applied, count) ==
    Cardinality(DOMAIN applied) >= HighWater /\ count % SweepEvery = 0

\* Apply, on a command that is not in the table.
Run(m, cmd) ==
    LET data == Execute(m.data, cmd)
        applied == (DedupKey(cmd) :> Result(m.data, cmd)) @@ m.applied
        maxReq == [m.maxReq EXCEPT ![cmd.client] = IF cmd.req > @ THEN cmd.req ELSE @]
        count == m.applyCount + 1
    IN  IF Tracked(cmd)
        THEN [data |-> data, maxReq |-> maxReq, applyCount |-> count,
              applied |-> IF SweepDue(applied, count) THEN Swept(applied, maxReq) ELSE applied]
        ELSE [m EXCEPT !.data = data]

Duplicate(m, cmd) == Tracked(cmd) /\ DedupKey(cmd) \in DOMAIN m.applied

Apply(m, cmd) == IF Duplicate(m, cmd) THEN m ELSE Run(m, cmd)

\* Mutant: a duplicate is answered from the data, not from the table.
OutcomeNow(m, cmd) == Result(m.data, cmd)

ApplyOutcome(m, cmd) ==
    IF Duplicate(m, cmd)
    THEN [m.applied[DedupKey(cmd)] EXCEPT !.duplicate = TRUE]
    ELSE Result(m.data, cmd)

\* The image of a machine holds all that decides later results.
Image(m) == [Data |-> m.data, Applied |-> m.applied, MaxReq |-> m.maxReq,
             ApplyCount |-> m.applyCount]

\* Mutant: the pace of the sweep is left out.
RestoreUnpaced(image) ==
    [data |-> image.Data, applied |-> image.Applied, maxReq |-> image.MaxReq, applyCount |-> 0]

Restore(image) ==
    [data |-> image.Data, applied |-> image.Applied, maxReq |-> image.MaxReq,
     applyCount |-> image.ApplyCount]

=============================================================================
