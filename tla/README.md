# Sensys in TLA+

A verification development for Sensys (ORCM), the cluster monitoring and
resource management system built on OPAL and ORTE. The modules are translated
from the code under `src/`; `PROJECT.json` maps every definition to the lines it
models.

## The system

`orcmsched` runs the scheduler, `orcmd` runs on aggregators and compute nodes,
`octl` and the other tools are clients. All of them are ORTE processes: an
event loop per thread, messages over the RML, states that trigger handlers.

| Part | State | Operations | Talks to |
|---|---|---|---|
| scheduler, `scd/pmf` | queues `running`, `hold`, `default`; scheduling state of the nodes | `pmf_find_queue`, `pmf_schedule`, `pmf_allocated`, `pmf_terminated`, `pmf_cancel` on the scd thread | resource manager, by events |
| resource manager, `scd/base/scd_base_rm*` | node table, list of tracked allocations | request, active, kill; node up, down, drain, resume; step completion, on the orte thread | scheduler, by events; step daemons, by messages |
| command receive, `scd/base/scd_base_recv.c` | last session id | session request, cancel, report; node report; power; launch | clients |
| sensor base | registered modules, database handle, sampling thread, policies | start, stop, sample, log, policy set/get, enable/disable | database, dispatch, sensor plugins |
| heartbeat | beats per daemon, check timer | beat, receive, check | error manager |
| database base | handle table, buckets of handles per data type, a thread per handle | open, close, store, commit, rollback, fetch, remove | dispatch, sensor, analytics |
| dispatch (`dfg`) | commit counters, handles | store event, commit, remote execution | database, RML |
| analytics base | workflows, a thread per workflow | add, delete, list, step hand-over | database, dispatch |
| analytics plugins | window and aggregate statistics | one step per sample | analytics base |
| error manager, state machine, routing (ORCM components in `src/orte`) | lifeline, children, process states | connection lost, route lookup, route lost | scheduler (node state reports) |
| diag, cfgi, sst, parser, util, tools | configuration, files | sequential | |

What is hard in it: the scheduler and the resource manager are two threads that
share the node table, the queues and the sessions without a lock; decisions are
made on one thread and applied on the other; cancels and node reports arrive at
any moment; step daemons may die; the database, analytics and sensor frameworks
hand lists and handles between threads and callbacks. `PROJECT.json` lists the
hazards with their lines.

## Modules

| Module | Content |
|---|---|
| `Scheduler` | the scheduler, the resource manager and the command receive, with the two threads and their event queues |
| `MCScheduler` | request sets, forms of node names and subtrees for TLC |
| `SchedulerLemmas` | list operations, event queues and local state: what they preserve |
| `SchedulerScdProofs` | each handler of the scd thread preserves the inductive invariant |
| `SchedulerProofs` | the same for the orte thread, and the theorems |

### Scheduler

Each thread takes events in order: `scdq` is the queue of the scd progress
thread, `rmq` that of the orte thread, which also runs every RML receive. A
handler is one step unless the other thread can look in between. The loops over
the node table (counting free nodes, searching, marking, freeing) take one step
per node, with the loop's local variables in `scd` or `rm`. The session report
takes one step to count a queue, one per session it walks over, and one to pack.
A receive runs only while the orte thread is between handlers.

| Definition | Code |
|---|---|
| `running`, `hold`, `default` | `orcm_scd_base.queues` as `orcm_scd_base_construct_queues` leaves them. Queues that a configuration adds are never used by pmf and are left out |
| `state`, `scd_state` | `orcm_node_t.state`, `.scd_state` |
| `tracking` | `orcm_scd_base.tracking` |
| `alloc` | `session->alloc`: `min_nodes` and the node regex. A regex is the list of names read back from it; `NULL`, `"ERROR"` and an unreadable string are values of their own |
| `steps`, `launches` | step daemons on the compute nodes (external): they finish, are told to stop, or die. `launches` numbers the launches, so two launches of one session are two sets of daemons |
| `cancels` | how many cancels of each session were confirmed to the client |
| `phase` | auxiliary, never read by a guard: how far each session has come |
| `up` | the process lives. A null pointer read, an index past an array or a list corrupted by double linking ends it, or may end it |

Only what the properties tell apart is kept of a session: `min_nodes` and the
node list. Limits, budgets and the text of the regex are left out. The nodes of
the configuration are `1..NumNodes`; their order in the table is the order of
the search.

**Node names.** The resource manager joins the names it found, compresses them
with `orte_regex_create`, and every later handler reads them back. What a list
of several names keeps depends on the form of each name (`NameKind`). A "plain"
name has at most one number, or a character that is neither letter nor digit,
and comes back unchanged. A name with two numbers ("fields", `rack1node2`) is
padded to the count of all its digits and comes back as a name no node has
(`NoNode`). A name that starts with a number ("digits", `1node`) makes a range
without a base, which the reader rejects (`BAD`). A single name is never
compressed. Names are also regrouped by prefix; that only decides which node is
marked first and is left out. `orte_regex_create` always succeeds, so the branch
that stores `"ERROR"` (`scd_base_rm.c:125-128`) is dead and a client's own node
list is the only source of that string.

**Failing sends.** A launch or a kill goes to the nodes one after the other and
stops at the first send that fails (`Through`). A request whose answer cannot be
sent has an id and goes no further.

**The error path.** The `ERROR` label of `pmf_allocated` takes the first session
off the running queue, whichever it is, and puts its own in front of the default
queue. If they differ, its session is linked into two lists. A debugging build
fails an assertion; any other build carries on with a running queue whose walk
leads into the default queue and does not end (`Endless`, `WalkForever`). Which
pointers further insertions would overwrite is not followed: from there a walk
may reach any session, may stop, or may not.

**The report** walks a list while the other thread changes it. When the session
it stands at was unlinked, the next pointer may lead anywhere (`Astray`), and the
process may die of it, or of writing past the array.

**Step daemons.** The messages `LAUNCH_STEPD`, `CANCEL_STEPD` and
`STEPD_COMPLETE` are the protocol of a step daemon that is not in this
repository. `StepDaemons` says whether the nodes run one: the repository's own
`orcmd` ignores both commands (`orcmd_recv`), so with it no session that runs
ever ends, cancelled or not. The proofs cover both values. The passing runs have
step daemons; of the runs that refute something only `sched_error_path` does.

## Runs

Bounds: two nodes let an allocation be partial, complete or overlapping and let
one node change while the other is marked; two sessions are enough for every
pair of handlers to meet; `sched_queue` and `sched_live` have three so that a
session can wait behind one that waits. Requests range from zero nodes to one
more than there are. A node-down report covers one node or all of them, as
`orcm_util_get_dependents` does for a controller. `MaxSessions` caps the ids and
`MaxCancels` the cancels of one session (two in `sched_kill`, so that a second
kill meets steps that were already told). `packed` stops counting once the array
has overrun, and `launches` grows only with a launch. Deadlock is not checked:
the scheduler may die, and once all ids are used and all sessions are over it
has nothing left to do.

| Run | Checks |
|---|---|
| `sched_commands` | every command that changes state, lost step daemons, failing sends: types, the inductive invariant, no lost or duplicated session, termination, tracking, kill after launch, check-in counts |
| `sched_queue` | three sessions, with session reports running alongside: no leaked allocation, every node of a tracked session owes exactly one check-in, first in first out |
| `sched_given` | requests that bring node lists of their own, good and bad, and a node whose name the regex cannot carry: every hand-over between the threads completes (`HandOversComplete`), the repeated error path included |
| `sched_live` | one SCHEDULE event per request and termination drains the queue (`QueueDrains`) |
| `sched_kill` | a cancel handled while its session runs is passed on to all its step daemons (`CancelReachesSteps`) |

`CheckInsAddUp` is checked without faults: a daemon that dies, or a launch that
stops at a failed send, does break the sum, and nothing in the scheduler repairs
it. `CheckInsBelowNodes` and `TerminationSound` hold with the faults.

`QueueDrains` has two exceptions, both in the code. A running session that never
ends occupies its nodes. A session for no nodes is dropped by
`scd_base_rm_request` without a new SCHEDULE event, so the session behind it
waits for the next one. `sched_live` has no cancels.

Seven runs refute what the code says of itself; each has an entry under
"findings" with the lines.

| Run | Refutes |
|---|---|
| `sched_exclusive` | nodes are exclusive: two requests scheduled before the first is marked get the same node |
| `sched_short` | a session that does not get its nodes is requeued: `pmf_allocated` reads a null node list first |
| `sched_cancel_lost` | a cancel deletes a waiting session: not while the session is between the two threads |
| `sched_info` | the report packs as many sessions as it announced |
| `sched_resume` | a node that comes online becomes schedulable: not when resumed before it ever reported |
| `sched_error_path` | steps are tracked for running sessions only: the error path removes the wrong session, after the launch was ordered |
| `sched_names` | names read back from a node regex are the names it was made of: not those with two numbers |

### Fairness

Each thread runs its event loop forever, so a thread with an event or a loop to
finish takes a step: `FairSpec` is weak fairness of `ScdThread` and `RmThread`.
Nothing is assumed of clients, nodes or step daemons; a step daemon need never
check in. The liveness properties allow the scheduler to die (`~up`), which
`sched_short` shows it can.

## Proofs

The theorems hold for every number of nodes and sessions, every set of commands
and every fault, under two assumptions. `NoGivenNodes`: no request brings a node
list, clients leave the choice of nodes to the resource manager. `NoDigitNames`:
no node's name starts with a number. Without either one the error path of
`pmf_allocated` is reachable, and `sched_error_path` shows what it breaks.

* `SchedulerInvariant`: `Spec => []IndInv`.
* `SchedulerTypes`: `Spec => []TypeOK`.
* `AllocationsOwned`: `Spec => []AllocatedNodesOwned`. No allocation leaks.

`AllocatedNodesOwned` is not inductive. When `pmf_terminated` unlinks a session
it must be known that all of its nodes were freed: that they are the nodes on
the list in the event (`ScdqInv`), which is the list it was launched with
(`StepsInv`, since the list travels with the step daemons and comes back in
their message), and that the loop has passed them all (`ScdInv`). The node list
of a launched session must not change, so a session may be handed to the
resource manager only once: each queue holds it once (`ListsInv`), the events
that carry it occur once (`ScdqInv`, `RmqInv`), and its phase says which of
these places it is in. `AllocInv` says what its node list is in each phase.
`IndInv` is the conjunction; `sched_commands` checks it.

The proof has one lemma per handler. Three arguments are not about one handler.
`RegexNames` shows that under `NoDigitNames` a created regex can be read back
and has as many names as were found, so the length test of `pmf_allocated`
cannot fail. `WalksEnd` shows from `ListsInv` that no session is in two lists,
so no walk of a queue goes on forever and `WalkForever` is never enabled. The
scheduling state has no lock, so the interference of the other thread is in the
invariant: `NodestateStep` shows that node reports never set `ALLOC`, and a
session that shares a node with another may free it early, which
`AllocatedNodesOwned` allows.

Only model-checked: the liveness properties (fairness is beyond the prover), and
`SessionInOnePlace`, `NoOvertaking`, `TerminationSound`,
`TrackedSessionsRunning`, `KillFollowsLaunch`, `CheckInsBelowNodes` and
`CheckInsAddUp`, whose proofs are planned.

## Not modelled

`PROJECT.json` gives the reason per component. Within the scheduler: power
budgets, node topologies and the launch and database commands of the receive;
packing of the messages and failures to pack or allocate; a restart of the
process. OPAL and ORTE are the environment: event queues are first in first out,
a message that was sent arrives once and in order.

## Plan

In this order; each with a module, its MC module and runs.

1. `SessionLife`: a session as its client sees it (submitted, waiting, running,
   over, cancelled), and `Scheduler` shown to implement it.
2. `DbBase`: handle table, buckets, request threads; open, store and close
   interleaved; callbacks called once. Composed with `Dispatch` (commit
   counting, remote execution with a timeout).
3. `Heartbeat` with the error manager and the node-down report: a dead daemon is
   reported, a live one recovers.
4. `SensorBase` and `RuntimeMetrics`: start, stop and sampling against the
   database callback; collection against a change of state.
5. `Workflow`: creation, hand-over and deletion against the workflow's thread.
   `Window`: boundaries, late samples and gaps, against a reference definition.
6. `Routing`: the aggregator tree, next hop and lost lifelines; every message
   reaches its target.
7. Proofs: `CheckInsBelowNodes`, `TerminationSound` and `SessionInOnePlace` from
   extended invariants; the refinement of `SessionLife`; safety of `DbBase` and
   `Workflow`.
