---------------------------- MODULE ControlPlane ----------------------------
(***************************************************************************)
(* The control plane (internal/controlplane): visitors and the chaos       *)
(* monkey stop, partition and restart the cluster's containers, heal       *)
(* timers bring back what was taken down on purpose, the reconciler brings *)
(* back everything else, and a cache holds the view of the cluster that    *)
(* the monkey and the viewers go by.                                       *)
(*                                                                         *)
(* Every goroutine is a process with the list of steps it has left; a step *)
(* is a Docker call or a critical section, and the steps of all processes  *)
(* interleave.  A Docker call that fails may have had its effect all the   *)
(* same.  Time is left out: a timer fires, a view ages and the monkey's    *)
(* pause ends at some point.                                               *)
(***************************************************************************)
EXTENDS Integers, FiniteSets, SequencesExt

CONSTANTS Node,              \* the whitelist: node ids
          NoNode,
          Visitor,           \* the callers of the API
          Deployments,       \* bounds: who is about (visitors, monkey, viewers),
                             \* how many visitors' actions and crashes there
                             \* are, and how many failing Docker calls and
                             \* restarts of the control plane
          Job,               \* bound: the heal jobs that exist at one time
          NoJob

ASSUME ControlPlaneAssumption ==
    /\ IsFiniteSet(Node) /\ Node \subseteq Nat /\ NoNode \notin Node
    /\ IsFiniteSet(Job) /\ NoJob \notin Job /\ Visitor \intersect Job = {}
    /\ (Visitor \union Job) \intersect {"monkey", "reconciler", "viewer"} = {}
    /\ Deployments \subseteq [who : SUBSET (Visitor \union {"monkey", "viewer"}),
                              maxDisruptions : Nat, maxFailures : Nat]

Process == {"monkey", "reconciler", "viewer"} \union Visitor \union Job

VARIABLES setup,                 \* the deployment
          running, connected,    \* the containers, as Docker has them
          heals,                 \* the pending heal of each node
          work,                  \* each process's node and the steps it has left
          left,                  \* the nodes a loop has yet to reach
          building,              \* the process that holds buildMu
          dirty,                 \* invalidated since the build began
          draft,                 \* the view under construction
          view, fresh,           \* the cached view, kept while it counts as fresh
          settled,               \* no visitor's disruption within chaosSettle
          unseen,                \* history: changed since the view's list call and
                                 \* not announced by invalidateSnapshot
          disruptions, failures

containers == <<running, connected>>
cache == <<building, dirty, draft, view, fresh>>
vars == <<setup, containers, heals, work, left, cache, settled, unseen,
          disruptions, failures>>

\* statusFrom: a running machine off the cluster network is partitioned.
Up(n) == running[n] /\ connected[n]

\* What a view tells of the machines: which are up and which of them are in no
\* heal window.
View == [up : SUBSET Node, calm : SUBSET Node]
NoView == [up |-> {}, calm |-> {}]

Rest == [node |-> NoNode, steps |-> <<>>]

Init ==
    /\ setup \in Deployments
    /\ running = [n \in Node |-> TRUE] /\ connected = [n \in Node |-> TRUE]
    /\ heals = [n \in Node |-> NoJob]
    /\ work = [p \in Process |-> Rest]
    /\ left = [p \in Process |-> {}]
    /\ building = "nobody" /\ dirty = FALSE /\ draft = NoView
    /\ view = NoView /\ fresh = FALSE
    /\ settled = TRUE /\ unseen = {} /\ disruptions = 0 /\ failures = 0

-----------------------------------------------------------------------------
(* Steps.                                                                  *)

Steps(p) == work[p].steps

Target(p) == work[p].node

Idle(p) == work[p] = Rest /\ left[p] = {}

At(p, step) == Steps(p) # <<>> /\ Head(Steps(p)) = step

WithSteps(w, steps) == IF steps = <<>> THEN Rest ELSE [w EXCEPT !.steps = steps]

Goto(p, steps) == work' = [work EXCEPT ![p] = WithSteps(@, steps)]

Begin(p, n, steps) == work' = [work EXCEPT ![p] = [node |-> n, steps |-> steps]]

Continue(p) == Goto(p, Tail(Steps(p)))

\* An early return: what is left is the deletion of a heal's entry, and the
\* monkey's pause.
Deferred(p) == SelectSeq(Tail(Steps(p)), LAMBDA s : s \in {"forget", "pause"})

KillSteps == <<"cancel", "schedule start", "stop", "invalidate">>

Failing == failures < setup.maxFailures /\ failures' = failures + 1

Working == failures' = failures

\* A Docker call that changes container n, done or failed; a failed one may
\* have had its effect.
Set(flag, n, value) ==
    /\ flag' = [flag EXCEPT ![n] = value]
    /\ unseen' = IF flag[n] # value /\ (fresh \/ building # "nobody")
                 THEN unseen \union {n} ELSE unseen

SetOrNot(flag, n, value) ==
    \/ Set(flag, n, value)
    \/ flag' = flag /\ unseen' = unseen

\* cancelHealLocked: a timer that has not fired never will, one that has goes
\* on; the entry is gone either way.
Stopped(j) == IF j # NoJob /\ At(j, "fire") THEN [work EXCEPT ![j] = Rest] ELSE work

\* A mutant of Cancel: the timer is stopped and its entry kept.
CancelTimer(p) ==
    /\ At(p, "cancel")
    /\ work' = [Stopped(heals[Target(p)]) EXCEPT ![p] = WithSteps(@, Tail(Steps(p)))]
    /\ UNCHANGED <<setup, containers, heals, left, cache, settled, unseen, disruptions, failures>>

Cancel(p) ==
    /\ At(p, "cancel")
    /\ work' = [Stopped(heals[Target(p)]) EXCEPT ![p] = WithSteps(@, Tail(Steps(p)))]
    /\ heals' = [heals EXCEPT ![Target(p)] = NoJob]
    /\ UNCHANGED <<setup, containers, left, cache, settled, unseen, disruptions, failures>>

\* scheduleHeal replaces the pending heal by a new one.
Schedule(p, kind, heal) ==
    /\ At(p, kind)
    /\ LET after == Stopped(heals[Target(p)])
           free == {j \in Job : after[j] = Rest}
           j == CHOOSE j \in free : TRUE
       IN /\ free # {}
          /\ work' = [after EXCEPT ![j] = [node |-> Target(p), steps |-> heal],
                                   ![p] = WithSteps(@, Tail(Steps(p)))]
          /\ heals' = [heals EXCEPT ![Target(p)] = j]
    /\ UNCHANGED <<setup, containers, left, cache, settled, unseen, disruptions, failures>>

ScheduleHeal(p) ==
    \/ Schedule(p, "schedule start", <<"fire", "heal look", "forget">>)
    \/ Schedule(p, "schedule reconnect", <<"fire", "rejoin", "invalidate", "forget">>)

\* The timer of a job runs out; the job was not cancelled.
Fire(p) ==
    /\ At(p, "fire")
    /\ Continue(p)
    /\ UNCHANGED <<setup, containers, heals, left, cache, settled, unseen, disruptions, failures>>

\* A heal that has run deletes its node's entry, whichever job that holds.
Forget(p) ==
    /\ At(p, "forget")
    /\ Continue(p)
    /\ heals' = [heals EXCEPT ![Target(p)] = NoJob]
    /\ UNCHANGED <<setup, containers, left, cache, settled, unseen, disruptions, failures>>

\* The cached view counts as fresh no longer.
Stale == view' = NoView /\ fresh' = FALSE /\ unseen' = {}

\* invalidateSnapshot: the cached view no longer counts as fresh, nor will the
\* one being built.
Invalidate(p) ==
    /\ At(p, "invalidate")
    /\ Continue(p)
    /\ dirty' = (building # "nobody") /\ Stale
    /\ UNCHANGED <<setup, containers, heals, left, building, draft, settled, disruptions, failures>>

Stop(p) ==
    /\ At(p, "stop")
    /\ \/ Set(running, Target(p), FALSE) /\ Working /\ Continue(p)
       \/ SetOrNot(running, Target(p), FALSE) /\ Failing /\ Goto(p, <<"cancel">> \o Deferred(p))
    /\ UNCHANGED <<setup, connected, heals, left, cache, settled, disruptions>>

Disconnect(p) ==
    /\ At(p, "disconnect")
    /\ \/ Set(connected, Target(p), FALSE) /\ Working /\ Continue(p)
       \/ SetOrNot(connected, Target(p), FALSE) /\ Failing /\ Goto(p, <<"cancel">> \o Deferred(p))
    /\ UNCHANGED <<setup, running, heals, left, cache, settled, disruptions>>

\* ResetAll goes on after a start that failed, everyone else gives up.
Start(p) ==
    /\ \/ At(p, "start") /\ Set(running, Target(p), TRUE) /\ Working /\ Continue(p)
       \/ At(p, "start") /\ SetOrNot(running, Target(p), TRUE) /\ Failing /\ Goto(p, Deferred(p))
       \/ At(p, "reset start") /\ Set(running, Target(p), TRUE) /\ Working /\ Continue(p)
       \/ At(p, "reset start") /\ SetOrNot(running, Target(p), TRUE) /\ Failing /\ Continue(p)
    /\ UNCHANGED <<setup, connected, heals, left, cache, settled, disruptions>>

\* After a start the connection is best-effort; to a partitioned machine it is
\* all there is to do.
Connect(p) ==
    /\ \/ At(p, "connect") /\ Set(connected, Target(p), TRUE) /\ Working /\ Continue(p)
       \/ At(p, "connect") /\ SetOrNot(connected, Target(p), TRUE) /\ Failing /\ Continue(p)
       \/ At(p, "rejoin") /\ Set(connected, Target(p), TRUE) /\ Working /\ Continue(p)
       \/ At(p, "rejoin") /\ SetOrNot(connected, Target(p), TRUE) /\ Failing /\ Goto(p, Deferred(p))
    /\ UNCHANGED <<setup, running, heals, left, cache, settled, disruptions>>

-----------------------------------------------------------------------------
(* What each operation does once it has inspected its machine.             *)

RestartOf(n) ==
    (IF running[n] THEN <<>> ELSE <<"start">>) \o <<"connect", "invalidate">>

ResetOf(n) == (IF running[n] THEN <<>> ELSE <<"reset start">>) \o <<"connect">>

PartitionOf(n) ==
    IF Up(n) THEN <<"schedule reconnect", "disconnect", "invalidate">> ELSE <<>>

HealOf(n) == IF running[n] THEN <<>> ELSE <<"start", "connect", "invalidate">>

\* A mutant: the reconciler reconnects machines and restarts none.
ReconcileRunning(n) ==
    IF running[n] /\ ~connected[n] THEN <<"check", "rejoin", "invalidate">> ELSE <<>>

ReconcileOf(n) ==
    CASE ~running[n] -> <<"check", "start", "connect", "invalidate">>
      [] running[n] /\ ~connected[n] -> <<"check", "rejoin", "invalidate">>
      [] OTHER -> <<>>

\* A heal whose inspection fails starts the machine anyway.
Inspect(p) ==
    /\ \/ /\ Working
          /\ \/ At(p, "restart look") /\ Goto(p, RestartOf(Target(p)))
             \/ At(p, "reset look") /\ Goto(p, ResetOf(Target(p)) \o Tail(Steps(p)))
             \/ At(p, "partition look") /\ Goto(p, PartitionOf(Target(p)))
             \/ At(p, "heal look") /\ Goto(p, HealOf(Target(p)) \o Tail(Steps(p)))
             \/ At(p, "reconcile look") /\ Goto(p, ReconcileOf(Target(p)))
       \/ /\ Failing
          /\ \/ /\ \E s \in {"restart look", "partition look", "reconcile look"} : At(p, s)
                /\ Goto(p, <<>>)
             \/ At(p, "reset look") /\ Continue(p)
             \/ /\ At(p, "heal look")
                /\ Goto(p, <<"start", "connect", "invalidate">> \o Tail(Steps(p)))
    /\ UNCHANGED <<setup, containers, heals, left, cache, settled, unseen, disruptions>>

\* The reconciler looks once more for a heal window before it acts.
Check(p) ==
    /\ At(p, "check")
    /\ IF heals[Target(p)] = NoJob THEN Continue(p) ELSE Goto(p, <<>>)
    /\ UNCHANGED <<setup, containers, heals, left, cache, settled, unseen, disruptions, failures>>

-----------------------------------------------------------------------------
(* The cached view.                                                        *)

\* A mutant: the monkey acts whenever it finds a victim.
JudgeVictim(p, v) ==
    \/ Goto(p, <<>>)
    \/ /\ p = "monkey" /\ settled
       /\ \E n \in v.calm : Begin(p, n, KillSteps \o <<"pause">>)

\* chaosOnce and chaosBlocked: with every machine of the view v up and in no
\* heal window, and no visitor's kill too recent, the monkey picks a victim.
\* That the cluster has a leader and makes progress is up to the machines.
Judge(p, v) ==
    \/ Goto(p, <<>>)
    \/ /\ p = "monkey" /\ v.calm = Node /\ settled
       /\ \E n \in v.calm : Begin(p, n, KillSteps \o <<"pause">>)

\* refresh: under buildMu, a view that has meanwhile become fresh is shared.
BeginBuild(p) ==
    /\ At(p, "begin") /\ building = "nobody"
    /\ \/ fresh /\ Judge(p, view) /\ UNCHANGED <<building, dirty>>
       \/ ~fresh /\ building' = p /\ dirty' = FALSE /\ Continue(p)
    /\ UNCHANGED <<setup, containers, heals, left, draft, view, fresh, settled, unseen,
                   disruptions, failures>>

\* List: one list call (when it fails no machine is known to run), and then a
\* look at the heals.
ListContainers(p) ==
    /\ At(p, "list")
    /\ \/ draft' = [up |-> {n \in Node : Up(n)}, calm |-> {}] /\ Working
       \/ draft' = NoView /\ Failing
    /\ Continue(p) /\ unseen' = {}
    /\ UNCHANGED <<setup, containers, heals, left, building, dirty, view, fresh, settled,
                   disruptions>>

\* A mutant: a machine in no heal window counts, down or not.
AttachHealsToAll(p) ==
    /\ At(p, "heals")
    /\ draft' = [draft EXCEPT !.calm = {n \in Node : heals[n] = NoJob}]
    /\ Continue(p)
    /\ UNCHANGED <<setup, containers, heals, left, building, dirty, view, fresh, settled,
                   unseen, disruptions, failures>>

AttachHeals(p) ==
    /\ At(p, "heals")
    /\ draft' = [draft EXCEPT !.calm = {n \in draft.up : heals[n] = NoJob}]
    /\ Continue(p)
    /\ UNCHANGED <<setup, containers, heals, left, building, dirty, view, fresh, settled,
                   unseen, disruptions, failures>>

\* A mutant: a view counts as fresh from the moment it is stored.
StoreFresh(p) ==
    /\ At(p, "store")
    /\ view' = draft /\ fresh' = TRUE /\ unseen' = unseen /\ building' = "nobody"
    /\ draft' = NoView /\ dirty' = FALSE
    /\ Judge(p, draft)
    /\ UNCHANGED <<setup, containers, heals, left, settled, disruptions, failures>>

\* A view during whose build something changed serves those who wait for it
\* and does not count as fresh.
StoreView(p) ==
    /\ At(p, "store")
    /\ IF dirty THEN Stale ELSE view' = draft /\ fresh' = TRUE /\ unseen' = unseen
    /\ building' = "nobody"
    /\ draft' = NoView /\ dirty' = FALSE
    /\ Judge(p, draft)
    /\ UNCHANGED <<setup, containers, heals, left, settled, disruptions, failures>>

-----------------------------------------------------------------------------
(* The processes.                                                          *)

\* Do: within the cooldown of their address a visitor's kill or partition is
\* refused and nothing happens.
Act(v, n, steps) ==
    /\ v \in setup.who /\ Idle(v) /\ disruptions < setup.maxDisruptions
    /\ disruptions' = disruptions + 1
    /\ Begin(v, n, steps)
    /\ UNCHANGED <<setup, containers, heals, left, cache, unseen, failures>>

VisitorKill(v, n) == Act(v, n, KillSteps) /\ settled' = FALSE

VisitorPartition(v, n) ==
    Act(v, n, <<"cancel", "partition look">>) /\ settled' = FALSE

VisitorRestart(v, n) ==
    Act(v, n, <<"cancel", "restart look">>) /\ settled' = settled

\* ResetAll: one machine after the other, and one invalidation at the end.
ResetAll(v) ==
    /\ v \in setup.who /\ Idle(v) /\ disruptions < setup.maxDisruptions
    /\ disruptions' = disruptions + 1
    /\ left' = [left EXCEPT ![v] = Node]
    /\ UNCHANGED <<setup, containers, heals, work, cache, settled, unseen, failures>>

ResetNext(v) ==
    /\ v \in Visitor /\ work[v] = Rest /\ left[v] # {}
    /\ LET n == Min(left[v])
       IN /\ left' = [left EXCEPT ![v] = @ \ {n}]
          /\ Begin(v, n, <<"cancel", "reset look">>
                         \o IF left[v] = {n} THEN <<"invalidate">> ELSE <<>>)
    /\ UNCHANGED <<setup, containers, heals, cache, settled, unseen, disruptions, failures>>

\* reconcileOnce: one list call, and then the machines it shows down or
\* partitioned one after the other.  A round whose list fails does nothing.
Reconcile ==
    /\ Idle("reconciler")
    /\ left' = [left EXCEPT !["reconciler"] = {n \in Node : ~Up(n)}]
    /\ left' # left
    /\ UNCHANGED <<setup, containers, heals, work, cache, settled, unseen, disruptions, failures>>

ReconcileNext(p) ==
    /\ p = "reconciler" /\ work[p] = Rest /\ left[p] # {}
    /\ LET n == Min(left[p])
       IN /\ left' = [left EXCEPT ![p] = @ \ {n}]
          /\ IF heals[n] = NoJob THEN Begin(p, n, <<"reconcile look">>) ELSE UNCHANGED work
    /\ UNCHANGED <<setup, containers, heals, cache, settled, unseen, disruptions, failures>>

\* The monkey (chaosOnce) asks for a fresh view, and so does whoever refreshes
\* the viewers' (refreshInBackground); handing out a cached view changes nothing.
Refresh(p) ==
    /\ p \in setup.who /\ Idle(p)
    /\ Goto(p, <<"begin", "list", "heals", "store">>)
    /\ UNCHANGED <<setup, containers, heals, left, cache, settled, unseen, disruptions, failures>>

\* The monkey's pause outlasts a build under way and the freshness of a view.
Pause(p) ==
    /\ At(p, "pause")
    /\ Continue(p)
    /\ Stale /\ dirty' = (building # "nobody")
    /\ UNCHANGED <<setup, containers, heals, left, building, draft, settled, disruptions, failures>>

Age ==
    /\ fresh /\ Stale
    /\ UNCHANGED <<setup, containers, heals, work, left, building, dirty, draft, settled,
                   disruptions, failures>>

\* chaosSettle has passed since the last visitor's kill.
Settle ==
    /\ ~settled /\ settled' = TRUE
    /\ UNCHANGED <<setup, containers, heals, work, left, cache, unseen, disruptions, failures>>

\* A container exits on its own.
Exit(n) ==
    /\ running[n] /\ disruptions < setup.maxDisruptions
    /\ disruptions' = disruptions + 1
    /\ Set(running, n, FALSE)
    /\ UNCHANGED <<setup, connected, heals, work, left, cache, settled, failures>>

\* The control plane is restarted: its goroutines, timers and views are gone.
Reboot ==
    /\ failures < setup.maxFailures /\ failures' = failures + 1
    /\ heals' = [n \in Node |-> NoJob]
    /\ work' = [p \in Process |-> Rest]
    /\ left' = [p \in Process |-> {}]
    /\ building' = "nobody" /\ dirty' = FALSE /\ draft' = NoView
    /\ Stale /\ settled' = TRUE
    /\ UNCHANGED <<setup, containers, disruptions>>

\* Whatever process p does next once it is under way.
Step(p) ==
    /\ ~Idle(p)
    /\ \/ Cancel(p) \/ ScheduleHeal(p) \/ Fire(p) \/ Forget(p) \/ Invalidate(p)
       \/ Stop(p) \/ Disconnect(p) \/ Start(p) \/ Connect(p) \/ Inspect(p) \/ Check(p)
       \/ BeginBuild(p) \/ ListContainers(p) \/ AttachHeals(p) \/ StoreView(p)
       \/ ResetNext(p) \/ ReconcileNext(p) \/ Pause(p)

Next ==
    \/ \E p \in Process : Step(p)
    \/ \E p \in {"monkey", "viewer"} : Refresh(p)
    \/ \E v \in Visitor, n \in Node :
          VisitorKill(v, n) \/ VisitorPartition(v, n) \/ VisitorRestart(v, n)
    \/ \E v \in Visitor : ResetAll(v)
    \/ \E n \in Node : Exit(n)
    \/ Reconcile \/ Age \/ Settle \/ Reboot

Spec == Init /\ [][Next]_vars

\* The reconciler ticks, timers fire, and the scheduler runs both goroutines;
\* of visitors, monkey and viewers nothing is assumed.
FairSpec ==
    /\ Spec
    /\ WF_vars(Reconcile \/ Step("reconciler"))
    /\ WF_vars(\E j \in Job : Step(j))

-----------------------------------------------------------------------------
(* Properties.                                                             *)

\* Every variable has its type: a process at work has a machine to work on
\* unless it builds a view, and no view calls a machine calm that is not up.
TypeOK ==
    /\ running \in [Node -> BOOLEAN] /\ connected \in [Node -> BOOLEAN]
    /\ heals \in [Node -> Job \union {NoJob}]
    /\ \A p \in Process :
          \/ Target(p) = NoNode /\ (Steps(p) = <<>> \/ p \in {"monkey", "viewer"})
          \/ Target(p) \in Node /\ Steps(p) # <<>>
    /\ left \in [Process -> SUBSET Node]
    /\ building \in {"nobody", "monkey", "viewer"} /\ dirty \in BOOLEAN
    /\ draft \in View /\ view \in View /\ view.calm \subseteq view.up
    /\ fresh \in BOOLEAN /\ settled \in BOOLEAN /\ unseen \subseteq Node
    /\ disruptions \in 0..setup.maxDisruptions /\ failures \in 0..setup.maxFailures

\* A node with a pending heal is left alone by the reconciler and the monkey
\* (healPending, chaosCandidates), so every entry of heals must belong to a
\* job that is still waiting or at work on that node and will delete it,
\* whatever cancels, replaces, outruns or fails it.
HealOwned ==
    \A n \in Node : heals[n] # NoJob =>
        Target(heals[n]) = n /\ "forget" \in Range(Steps(heals[n]))

\* refresh and invalidateSnapshot: a view that counts as fresh shows no machine
\* up that has been down since before the last announced change, even when
\* machines change and are announced while it is being built.
FreshView ==
    fresh => \A n \in view.up \ unseen : Up(n)

\* chaosOnce: as long as no visitor acts and no container exits on its own,
\* the monkey has at most one machine down at a time, also when Docker calls
\* fail, heals fail and the control plane restarts.
OneAtATime ==
    disruptions = 0 => Cardinality({n \in Node : ~Up(n)}) <= 1

\* runHeal and reconcileOnce: when visitors let be, the monkey notwithstanding,
\* every machine comes back time and again, whichever heals were cancelled,
\* replaced or lost.
Repaired == []<>(\A n \in Node : Up(n))
=============================================================================
