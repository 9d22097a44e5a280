----------------------------- MODULE Scheduler -----------------------------
(***************************************************************************)
(* The session scheduler of orcmsched: the "pmf" scheduler (poor man's     *)
(* FIFO, orcm/mca/scd/pmf) and the resource manager (orcm/mca/scd/base/    *)
(* scd_base_rm*.c).                                                        *)
(*                                                                         *)
(* Two threads share the queues, the node table and the sessions without   *)
(* a lock.  The "scd" progress thread runs the pmf_* handlers, taken in    *)
(* order from scdq.  The orte thread runs the scd_base_rm_* handlers,      *)
(* taken in order from rmq, and every RML receive.  A handler is one step, *)
(* except where the other thread can look in between: the loops over the   *)
(* node table take one step per node, and the session report one step per  *)
(* session it walks over.                                                  *)
(***************************************************************************)
EXTENDS Integers, Sequences, FiniteSets

CONSTANTS
    NumNodes,    \* nodes defined in the cluster configuration
    NameKind,    \* node -> the form of its name, which decides what a node regex keeps of it
    MaxSessions, \* bound: sessions submitted in a behaviour
    MaxCancels,  \* bound: cancels of one session
    Requests,    \* the allocations a client may ask for
    Subtrees,    \* what one node-down report covers: a node or all dependents of a controller
    Commands,    \* the receives that are exercised
    StepDaemons, \* whether the nodes run a daemon that serves the step commands; orcmd does not
    Faults,      \* "step": a step daemon may die silently; "send": a send may fail
    NULL,        \* the null string
    ERROR,       \* the string "ERROR"
    BAD          \* a node regex that orte_regex_extract_node_names rejects

Node == 1..NumNodes
NoNode == 0               \* a name that is no node's
Name == 0..NumNodes
SessionId == 1..MaxSessions
NodeList == {NULL, ERROR, BAD} \cup Seq(Name)
Alloc == [min_nodes : Int, nodes : NodeList]
NodeState == {"UNDEF", "UP", "DOWN", "DRAIN"}
ScdNodeState == {"UNDEF", "UNALLOC", "ALLOC"}

ASSUME ConstantsAssumption ==
    /\ NumNodes \in Nat \ {0}
    /\ NameKind \in [1..NumNodes -> {"plain", "fields", "digits"}]
    /\ MaxSessions \in Nat /\ MaxCancels \in Nat
    /\ Requests \subseteq [min_nodes : Int, nodes : {NULL, ERROR, BAD} \cup Seq(0..NumNodes)]
    /\ Subtrees \subseteq SUBSET (1..NumNodes)
    /\ StepDaemons \in BOOLEAN
    /\ Faults \subseteq {"step", "send"}

ASSUME StringsAssumption ==
    /\ {NULL, ERROR, BAD} \cap Seq(0..NumNodes) = {}
    /\ NULL # ERROR /\ NULL # BAD /\ ERROR # BAD

VARIABLES
    up,              \* the orcmsched process is alive
    last_session_id,
    alloc,           \* session id -> its allocation (min_nodes and the node regex)
    running, hold, default, \* the three queues pmf uses
    state, scd_state,\* node -> its state, its scheduling state
    tracking,        \* allocations whose step daemons have not all checked in
    scdq, rmq,       \* events posted to the scd thread and to the orte thread
    scd, rm,         \* what each thread is in the middle of
    steps,           \* step daemons that run, on the compute nodes
    launches,        \* how often steps were launched: tells the daemons of two launches apart
    cancels,         \* session -> how many cancels were confirmed to the client
    phase            \* auxiliary: how far each session has come

\* opal_list_t as a sequence: what it holds, and opal_list_remove_item of the
\* item at position k.  The index form is the one the provers work with.
ToSet(q) == {q[i] : i \in DOMAIN q}
RemoveAt(q, k) == [i \in 1..(Len(q) - 1) |-> IF i < k THEN q[i] ELSE q[i + 1]]

queues == <<running, hold, default>>
nodes == <<state, scd_state>>
vars == <<up, last_session_id, alloc, running, hold, default, state, scd_state,
          tracking, scdq, rmq, scd, rm, steps, launches, cancels, phase>>

ScdEvent == [state : {"INIT", "SCHEDULE", "ALLOCD", "TERMINATED", "CANCEL"},
             id : SessionId, nodes : Seq(Name)]
RmEvent == [state : {"REQ", "ACTIVE", "KILL"}, id : SessionId]
Tracker == [alloc_id : SessionId, count_checked_in : Nat]
\* the step daemon on node nodes[at], with the node list it was launched with
Step == [id : SessionId, launch : Nat, at : Nat, nodes : Seq(Name), killed : BOOLEAN]
Phase == {"none", "init", "hold", "default", "counting", "req", "scan",
          "allocd", "running", "ended", "cancelled", "dropped"}

ScdLocals == [pc : {"idle", "count", "mark", "unmark", "spin"}, id : 0..MaxSessions,
              i : Nat, free : Nat, nodes : Seq(Name)]
RmLocals == [pc : {"idle", "scan", "info", "walk", "pack"}, id : 0..MaxSessions,
             i : Nat, cnt : Nat, packed : Nat, nodes : Seq(Node)]
ScdIdle == [pc |-> "idle", id |-> 0, i |-> 0, free |-> 0, nodes |-> <<>>]
RmIdle == [pc |-> "idle", id |-> 0, i |-> 0, cnt |-> 0, packed |-> 0, nodes |-> <<>>]
\* a thread enters a loop, for session s
ScdLoop(pc, s, nl) == [pc |-> pc, id |-> s, i |-> 1, free |-> 0, nodes |-> nl]
RmLoop(pc, s) == [pc |-> pc, id |-> s, i |-> 1, cnt |-> 0, packed |-> 0, nodes |-> <<>>]

(***************************************************************************)
(* The one type invariant of the module: what each variable may hold.      *)
(***************************************************************************)
TypeOK ==
    /\ up \in BOOLEAN
    /\ last_session_id \in 0..MaxSessions
    /\ alloc \in [SessionId -> Alloc]
    /\ running \in Seq(SessionId) /\ hold \in Seq(SessionId) /\ default \in Seq(SessionId)
    /\ state \in [Node -> NodeState]
    /\ scd_state \in [Node -> ScdNodeState]
    /\ tracking \in Seq(Tracker)
    /\ scdq \in Seq(ScdEvent)
    /\ rmq \in Seq(RmEvent)
    /\ scd \in ScdLocals
    /\ rm \in RmLocals
    /\ steps \subseteq Step
    /\ launches \in Nat
    /\ cancels \in [SessionId -> 0..MaxCancels]
    /\ phase \in [SessionId -> Phase]

Init ==
    /\ up = TRUE
    /\ last_session_id = 0
    /\ alloc = [s \in SessionId |-> [min_nodes |-> 0, nodes |-> NULL]]
    /\ running = <<>> /\ hold = <<>> /\ default = <<>>
    /\ state = [n \in Node |-> "UNDEF"]
    /\ scd_state = [n \in Node |-> "UNDEF"]
    /\ tracking = <<>>
    /\ scdq = <<>> /\ rmq = <<>>
    /\ scd = ScdIdle /\ rm = RmIdle
    /\ steps = {}
    /\ launches = 0
    /\ cancels = [s \in SessionId |-> 0]
    /\ phase = [s \in SessionId |-> "none"]

\* ORCM_ACTIVATE_SCD_STATE / ORCM_ACTIVATE_RM_STATE: post an event, in order
ScdEv(st, s, nl) == [state |-> st, id |-> s, nodes |-> nl]
RmEv(st, s) == [state |-> st, id |-> s]

\* the thread is between handlers and takes the next event of its queue
ScdTakes(st) == up /\ scd.pc = "idle" /\ scdq # <<>> /\ Head(scdq).state = st
RmTakes(st) == up /\ rm.pc = "idle" /\ rmq # <<>> /\ Head(rmq).state = st
Receives(c) == up /\ rm.pc = "idle" /\ c \in Commands

Free(n) == scd_state[n] = "UNALLOC" /\ state[n] = "UP"

\* a session linked into two lists: a walk of running goes on into default and
\* does not come back to where it would stop
Endless == ToSet(running) \cap ToSet(default) # {}

-----------------------------------------------------------------------------
(* RML receives, on the orte thread *)

\* the answer with the session id is sent first; when that fails, the session
\* goes no further
RecvSessionReq(r) ==
    /\ Receives("request") /\ last_session_id < MaxSessions
    /\ LET s == last_session_id + 1 IN
       /\ last_session_id' = s
       /\ alloc' = [alloc EXCEPT ![s] = r]
       /\ \/ /\ scdq' = Append(scdq, ScdEv("INIT", s, <<>>))
             /\ phase' = [phase EXCEPT ![s] = "init"]
          \/ /\ "send" \in Faults /\ scdq' = scdq
             /\ phase' = [phase EXCEPT ![s] = "dropped"]
    /\ UNCHANGED <<up, queues, nodes, tracking, rmq, scd, rm, steps, launches, cancels>>

\* the answer to the client is "0" before the scheduler has looked at the event
RecvSessionCancel(s) ==
    /\ Receives("cancel") /\ s <= last_session_id /\ cancels[s] < MaxCancels
    /\ cancels' = [cancels EXCEPT ![s] = cancels[s] + 1]
    /\ scdq' = Append(scdq, ScdEv("CANCEL", s, <<>>))
    /\ UNCHANGED <<up, last_session_id, alloc, queues, nodes, tracking, rmq, scd, rm, steps, launches, phase>>

\* the session report: for each queue, its name and length, and its sessions
QueueAt(i) == CASE i = 1 -> running [] i = 2 -> hold [] i = 3 -> default

RecvSessionInfo ==
    /\ Receives("info")
    /\ rm' = RmLoop("info", 0)
    /\ UNCHANGED <<up, last_session_id, alloc, queues, nodes, tracking, scdq, rmq, scd, steps, launches, cancels, phase>>

NextQueue == IF rm.i = 3 THEN RmIdle ELSE [RmLoop("info", 0) EXCEPT !.i = rm.i + 1]

\* the length is announced, and an array of that many sessions allocated
CountSessions ==
    /\ up /\ rm.pc = "info"
    /\ LET cnt == Len(QueueAt(rm.i)) IN
       rm' = IF cnt > 0 THEN [rm EXCEPT !.pc = "walk", !.cnt = cnt] ELSE NextQueue
    /\ UNCHANGED <<up, last_session_id, alloc, queues, nodes, tracking, scdq, rmq, scd, steps, launches, cancels, phase>>

\* the walk stands at a session that the scd thread has unlinked since, or that
\* two lists hold: where its next pointer leads is anybody's guess
Astray == \/ rm.id # 0 /\ rm.id \notin ToSet(QueueAt(rm.i))
          \/ rm.i # 2 /\ Endless

\* the session the next pointer leads to, 0 for the end of the queue
Following ==
    LET q == QueueAt(rm.i)
        at(k) == IF k \in DOMAIN q THEN q[k] ELSE 0
    IN IF Astray THEN 0..last_session_id
       ELSE IF rm.id = 0 THEN {at(1)}
       ELSE {at(k + 1) : k \in {j \in DOMAIN q : q[j] = rm.id}}

\* one session of the walk; packed stops counting when the array has overrun
WalkQueue ==
    /\ up /\ rm.pc = "walk"
    /\ \E s \in Following :
          /\ rm' = IF s = 0 THEN [rm EXCEPT !.pc = "pack"]
                   ELSE [rm EXCEPT !.id = s, !.packed = IF rm.packed > rm.cnt THEN rm.packed ELSE rm.packed + 1]
          /\ up' \in IF Astray \/ (s # 0 /\ rm.packed >= rm.cnt) THEN BOOLEAN ELSE {TRUE}
    /\ UNCHANGED <<last_session_id, alloc, queues, nodes, tracking, scdq, rmq, scd, steps, launches, cancels, phase>>

PackSessions ==
    /\ up /\ rm.pc = "pack"
    /\ rm' = NextQueue
    /\ UNCHANGED <<up, last_session_id, alloc, queues, nodes, tracking, scdq, rmq, scd, steps, launches, cancels, phase>>

\* update_nodestate_byproc: a daemon reports itself up, or its peer reports it down
UpdateNodestateByproc(newstate, N) ==
    /\ state' = [n \in Node |-> IF n \in N THEN newstate ELSE state[n]]
    /\ scd_state' = [n \in Node |->
                        IF n \in N /\ newstate = "UP" /\ scd_state[n] = "UNDEF"
                        THEN "UNALLOC" ELSE scd_state[n]]
    /\ UNCHANGED <<up, last_session_id, alloc, queues, tracking, scdq, rmq, scd, rm, steps, launches, cancels, phase>>

\* update_nodestate_byname: the reset of scd_state tests the requested state,
\* which is DRAIN or RESUME and never UP
NewState_Unconverted(request) == request  \* mutant
NewState(request) == IF request = "RESUME" THEN "UP" ELSE request

UpdateNodestateByname(request, N) ==
    /\ state' = [n \in Node |-> IF n \in N THEN NewState(request) ELSE state[n]]
    /\ UNCHANGED <<up, last_session_id, alloc, queues, scd_state, tracking, scdq, rmq, scd, rm, steps, launches, cancels, phase>>

RecvNodeUp(n) == Receives("up") /\ UpdateNodestateByproc("UP", {n})
RecvNodeDown(N) == Receives("down") /\ UpdateNodestateByproc("DOWN", N)
RecvDrain(n) == Receives("drain") /\ UpdateNodestateByname("DRAIN", {n})
RecvResume(n) == Receives("resume") /\ UpdateNodestateByname("RESUME", {n})

AllCheckedIn_OneEarly(checked, s) == checked + 1 = alloc[s].min_nodes  \* mutant
AllCheckedIn_OneLate(checked, s) == checked > alloc[s].min_nodes  \* mutant
AllCheckedIn(checked, s) == checked = alloc[s].min_nodes
Untrack_Kept(k) == tracking  \* mutant
Untrack(k) == RemoveAt(tracking, k)

\* ORCM_STEPD_COMPLETE_COMMAND: the message carries the allocation as launched
RecvStepdComplete(st) ==
    /\ up /\ rm.pc = "idle" /\ st \in steps
    /\ steps' = steps \ {st}
    /\ \/ \E k \in DOMAIN tracking :
             /\ tracking[k].alloc_id = st.id
             /\ \A j \in 1..(k - 1) : tracking[j].alloc_id # st.id
             /\ LET checked == tracking[k].count_checked_in + 1 IN
                IF AllCheckedIn(checked, st.id)
                THEN /\ tracking' = Untrack(k)
                     /\ scdq' = Append(scdq, ScdEv("TERMINATED", st.id, st.nodes))
                ELSE /\ tracking' = [tracking EXCEPT ![k].count_checked_in = checked]
                     /\ scdq' = scdq
       \/ /\ \A k \in DOMAIN tracking : tracking[k].alloc_id # st.id
          /\ UNCHANGED <<tracking, scdq>>
    /\ UNCHANGED <<up, last_session_id, alloc, queues, nodes, rmq, scd, rm, launches, cancels, phase>>

\* a compute node dies with its step daemon: no message reaches the scheduler
StepLost(st) ==
    /\ up /\ "step" \in Faults /\ st \in steps
    /\ steps' = steps \ {st}
    /\ UNCHANGED <<up, last_session_id, alloc, queues, nodes, tracking, scdq, rmq, scd, rm, launches, cancels, phase>>

-----------------------------------------------------------------------------
(* The resource manager's handlers, on the orte thread *)

scd_base_rm_request ==
    /\ RmTakes("REQ")
    /\ LET s == Head(rmq).id IN
       IF alloc[s].min_nodes > 0
       THEN /\ rm' = RmLoop("scan", s)
            /\ phase' = [phase EXCEPT ![s] = "scan"]
       ELSE /\ rm' = rm  \* no ALLOCD event: the session is dropped
            /\ phase' = [phase EXCEPT ![s] = "dropped"]
    /\ rmq' = Tail(rmq)
    /\ UNCHANGED <<up, last_session_id, alloc, queues, nodes, tracking, scdq, scd, steps, launches, cancels>>

\* A list of several names is compressed to ranges of numbers, and read back as
\* NULL, BAD or the names.  A "plain" name comes back as it was; one with two
\* numbers in it ("fields") is padded to the count of all its digits and comes
\* back as another name; one that starts with a number ("digits") makes the
\* regex unreadable.
orte_regex_create(found) ==
    IF Len(found) <= 1 THEN found
    ELSE IF \E i \in DOMAIN found : NameKind[found[i]] = "digits" THEN BAD
    ELSE [i \in 1..Len(found) |-> IF NameKind[found[i]] = "fields" THEN NoNode ELSE found[i]]

\* the string "ERROR" is read as the one name it spells
orte_regex_extract_node_names(nl) == IF nl = ERROR THEN <<NoNode>> ELSE nl

\* the scheduler is told that the search is over, also of one that found too few
PostAllocd_Found(s) == IF alloc'[s].nodes = NULL THEN scdq ELSE Append(scdq, ScdEv("ALLOCD", s, <<>>))  \* mutant
PostAllocd(s) == Append(scdq, ScdEv("ALLOCD", s, <<>>))

\* one node of the search; alloc.nodes keeps its old value when too few are found
scd_base_rm_scan ==
    /\ up /\ rm.pc = "scan"
    /\ LET found == IF Free(rm.i) THEN Append(rm.nodes, rm.i) ELSE rm.nodes
           enough == Len(found) = alloc[rm.id].min_nodes
       IN IF enough \/ rm.i = NumNodes
          THEN /\ alloc' = IF enough THEN [alloc EXCEPT ![rm.id].nodes = orte_regex_create(found)] ELSE alloc
               /\ scdq' = PostAllocd(rm.id)
               /\ phase' = [phase EXCEPT ![rm.id] = "allocd"]
               /\ rm' = RmIdle
          ELSE /\ rm' = [rm EXCEPT !.i = rm.i + 1, !.nodes = found]
               /\ UNCHANGED <<alloc, scdq, phase>>
    /\ UNCHANGED <<up, last_session_id, queues, nodes, tracking, rmq, scd, steps, launches, cancels>>

\* scd_base_rm_active and scd_base_rm_kill send to the first min_nodes names,
\* one after the other, and give up at the first send that fails: how many
\* names they get through
Names(s) == orte_regex_extract_node_names(alloc[s].nodes)
Through_AllButLast(s) == {alloc[s].min_nodes - 1}  \* mutant
Through(s) ==
    LET all == IF Len(Names(s)) < alloc[s].min_nodes THEN Len(Names(s)) ELSE alloc[s].min_nodes
    IN {all} \cup {m \in 0..(all - 1) : "send" \in Faults /\ Names(s)[m + 1] # NoNode}

\* the strcmp with the name after the last: a list shorter than min_nodes
PastTheEnd(s, m) == m = Len(Names(s)) /\ m < alloc[s].min_nodes

\* orcmd answers LAUNCH_STEPD and CANCEL_STEPD with "COMMAND UNKNOWN"
orcmd_recv(started) == IF StepDaemons THEN started ELSE {}

scd_base_rm_active ==
    /\ RmTakes("ACTIVE")
    /\ LET s == Head(rmq).id IN
       IF alloc[s].nodes \in {NULL, BAD}
       THEN UNCHANGED <<up, tracking, steps, launches>>
       ELSE \E m \in Through(s) :
              /\ tracking' = Append(tracking, [alloc_id |-> s, count_checked_in |-> 0])
              /\ steps' = steps \cup orcmd_recv(
                    {[id |-> s, launch |-> launches, at |-> i, nodes |-> Names(s), killed |-> FALSE] :
                        i \in {j \in 1..m : Names(s)[j] # NoNode}})
              /\ launches' = launches + 1
              /\ up' = ~PastTheEnd(s, m)
    /\ rmq' = Tail(rmq)
    /\ UNCHANGED <<last_session_id, alloc, queues, nodes, scdq, scd, rm, cancels, phase>>

scd_base_rm_kill ==
    /\ RmTakes("KILL")
    /\ LET s == Head(rmq).id IN
       IF alloc[s].nodes \in {NULL, BAD}
       THEN UNCHANGED <<up, steps>>
       ELSE \E m \in Through(s) :
              /\ steps' = {IF st.id = s /\ \E i \in 1..m : Names(s)[i] = st.nodes[st.at]
                           THEN [st EXCEPT !.killed = TRUE] ELSE st : st \in steps}
              /\ up' = ~PastTheEnd(s, m)
    /\ rmq' = Tail(rmq)
    /\ UNCHANGED <<last_session_id, alloc, queues, nodes, tracking, scdq, scd, rm, launches, cancels, phase>>

-----------------------------------------------------------------------------
(* The pmf handlers, on the scd thread *)

pmf_find_queue ==
    /\ ScdTakes("INIT")
    /\ LET s == Head(scdq).id
           fits == alloc[s].min_nodes <= NumNodes
       IN /\ hold' = IF fits THEN hold ELSE Append(hold, s)
          /\ default' = IF fits THEN Append(default, s) ELSE default
          /\ phase' = [phase EXCEPT ![s] = IF fits THEN "default" ELSE "hold"]
          /\ scdq' = Append(Tail(scdq), ScdEv("SCHEDULE", s, <<>>))
    /\ UNCHANGED <<up, last_session_id, alloc, running, nodes, tracking, rmq, scd, rm, steps, launches, cancels>>

\* the session named by the event is not looked at: the head of the queue is taken
pmf_schedule ==
    /\ ScdTakes("SCHEDULE")
    /\ IF default = <<>>
       THEN UNCHANGED <<default, scd, phase>>
       ELSE /\ scd' = ScdLoop("count", Head(default), <<>>)
            /\ default' = Tail(default)
            /\ phase' = [phase EXCEPT ![Head(default)] = "counting"]
    /\ scdq' = Tail(scdq)
    /\ UNCHANGED <<up, last_session_id, alloc, running, hold, nodes, tracking, rmq, rm, steps, launches, cancels>>

pmf_schedule_count ==
    /\ up /\ scd.pc = "count" /\ scd.i <= NumNodes
    /\ scd' = [scd EXCEPT !.i = scd.i + 1, !.free = IF Free(scd.i) THEN scd.free + 1 ELSE scd.free]
    /\ UNCHANGED <<up, last_session_id, alloc, queues, nodes, tracking, scdq, rmq, rm, steps, launches, cancels, phase>>

PutBack_AtEnd(s) == Append(default, s)  \* mutant
PutBack_Forgotten(s) == default  \* mutant
PutBack(s) == <<s>> \o default

pmf_schedule_decide ==
    /\ up /\ scd.pc = "count" /\ scd.i > NumNodes
    /\ LET s == scd.id
           enough == alloc[s].min_nodes <= scd.free
       IN /\ rmq' = IF enough THEN Append(rmq, RmEv("REQ", s)) ELSE rmq
          /\ default' = IF enough THEN default ELSE PutBack(s)
          /\ phase' = [phase EXCEPT ![s] = IF enough THEN "req" ELSE "default"]
    /\ scd' = ScdIdle
    /\ UNCHANGED <<up, last_session_id, alloc, running, hold, nodes, tracking, scdq, rm, steps, launches, cancels>>

\* the ERROR label: the first session of the running queue leaves it, whichever
\* it is; when it is another one, the session is now linked into two lists: an
\* assertion fails in a debugging build, and any other build carries on
Requeue(s) ==
    /\ running' = Tail(Append(running, s))
    /\ default' = PutBack(s)
    /\ scdq' = Append(Tail(scdq), ScdEv("SCHEDULE", s, <<>>))
    /\ phase' = [phase EXCEPT ![s] = "default"]
    /\ up' \in IF running = <<>> THEN {TRUE} ELSE BOOLEAN
    /\ scd' = scd

pmf_allocated ==
    /\ ScdTakes("ALLOCD")
    /\ LET s == Head(scdq).id
           nl == alloc[s].nodes
       IN \/ /\ nl = NULL  \* strcmp reads the null pointer
             /\ up' = FALSE
             /\ running' = Append(running, s)
             /\ phase' = [phase EXCEPT ![s] = "running"]
             /\ scdq' = Tail(scdq)
             /\ UNCHANGED <<default, rmq, scd>>
          \/ /\ nl = ERROR
             /\ Requeue(s)
             /\ rmq' = rmq
          \/ /\ nl \notin {NULL, ERROR}
             /\ rmq' = Append(rmq, RmEv("ACTIVE", s))
             /\ IF nl = BAD
                THEN Requeue(s)
                ELSE IF Len(nl) # alloc[s].min_nodes
                THEN Requeue(s)
                ELSE /\ running' = Append(running, s)
                     /\ scdq' = Tail(scdq)
                     /\ phase' = [phase EXCEPT ![s] = "running"]
                     /\ scd' = ScdLoop("mark", s, nl)
                     /\ UNCHANGED <<up, default>>
    /\ UNCHANGED <<last_session_id, alloc, hold, nodes, tracking, rm, steps, launches, cancels>>

\* one node of the loop that sets the scheduling state of the session's nodes
SetScdState(v) == scd_state' = [n \in Node |-> IF n = scd.nodes[scd.i] THEN v ELSE scd_state[n]]

pmf_allocated_mark ==
    /\ up /\ scd.pc = "mark"
    /\ SetScdState("ALLOC")
    /\ scd' = IF scd.i = Len(scd.nodes) THEN ScdIdle ELSE [scd EXCEPT !.i = scd.i + 1]
    /\ UNCHANGED <<up, last_session_id, alloc, queues, state, tracking, scdq, rmq, rm, steps, launches, cancels, phase>>

\* mutant: the loop over the nodes starts at the second
pmf_terminated_FromSecond ==
    /\ ScdTakes("TERMINATED")
    /\ scd' = [ScdLoop("unmark", Head(scdq).id, Head(scdq).nodes) EXCEPT !.i = 2]
    /\ scdq' = Tail(scdq)
    /\ UNCHANGED <<up, last_session_id, alloc, queues, nodes, tracking, rmq, rm, steps, launches, cancels, phase>>

pmf_terminated ==
    /\ ScdTakes("TERMINATED")
    /\ scd' = ScdLoop("unmark", Head(scdq).id, Head(scdq).nodes)
    /\ scdq' = Tail(scdq)
    /\ UNCHANGED <<up, last_session_id, alloc, queues, nodes, tracking, rmq, rm, steps, launches, cancels, phase>>

pmf_terminated_unmark ==
    /\ up /\ scd.pc = "unmark" /\ scd.i <= Len(scd.nodes)
    /\ SetScdState("UNALLOC")
    /\ scd' = [scd EXCEPT !.i = scd.i + 1]
    /\ UNCHANGED <<up, last_session_id, alloc, queues, state, tracking, scdq, rmq, rm, steps, launches, cancels, phase>>

\* what a list can be after the search for session s, which is unlinked if found
Without(q, s) ==
    IF s \in ToSet(q) THEN {RemoveAt(q, k) : k \in {j \in DOMAIN q : q[j] = s}} ELSE {q}

AfterTermination_Silent(s) == scdq  \* mutant
AfterTermination(s) == Append(scdq, ScdEv("SCHEDULE", s, <<>>))

pmf_terminated_remove ==
    /\ up /\ scd.pc = "unmark" /\ scd.i > Len(scd.nodes)
    /\ running' \in Without(running, scd.id)
    /\ scdq' = AfterTermination(scd.id)
    /\ phase' = [phase EXCEPT ![scd.id] = IF scd.id \in ToSet(running) THEN "ended" ELSE phase[scd.id]]
    /\ scd' = ScdIdle
    /\ UNCHANGED <<up, last_session_id, alloc, hold, default, nodes, tracking, rmq, rm, steps, launches, cancels>>

PostKill_First(s) == <<RmEv("KILL", s)>> \o rmq  \* mutant
PostKill(s) == Append(rmq, RmEv("KILL", s))

pmf_cancel ==
    /\ ScdTakes("CANCEL")
    /\ LET s == Head(scdq).id
           queued == s \in ToSet(hold) \cup ToSet(default)
           walked == ToSet(running) \cup (IF Endless THEN ToSet(default) ELSE {})
       IN /\ rmq' = IF s \in walked THEN PostKill(s) ELSE rmq
          /\ hold' \in Without(hold, s)
          /\ default' \in Without(default, s)
          /\ scdq' = IF queued THEN Append(Tail(scdq), ScdEv("SCHEDULE", s, <<>>)) ELSE Tail(scdq)
          /\ phase' = IF queued THEN [phase EXCEPT ![s] = "cancelled"] ELSE phase
    /\ UNCHANGED <<up, last_session_id, alloc, running, nodes, tracking, scd, rm, steps, launches, cancels>>

\* the search of the running queue by pmf_terminated or pmf_cancel, when the
\* queue has no end
WalkForever ==
    /\ up /\ Endless
    /\ \/ scd.pc = "unmark" /\ scd.i > Len(scd.nodes)
       \/ ScdTakes("CANCEL")
    /\ scd' = [scd EXCEPT !.pc = "spin"]
    /\ UNCHANGED <<up, last_session_id, alloc, queues, nodes, tracking, scdq, rmq, rm, steps, launches, cancels, phase>>

-----------------------------------------------------------------------------
ScdThread ==
    \/ pmf_find_queue
    \/ pmf_schedule \/ pmf_schedule_count \/ pmf_schedule_decide
    \/ pmf_allocated \/ pmf_allocated_mark
    \/ pmf_terminated \/ pmf_terminated_unmark \/ pmf_terminated_remove
    \/ pmf_cancel \/ WalkForever

RmThread ==
    \/ scd_base_rm_request \/ scd_base_rm_scan
    \/ scd_base_rm_active \/ scd_base_rm_kill
    \/ CountSessions \/ WalkQueue \/ PackSessions

Receive ==
    \/ \E r \in Requests : RecvSessionReq(r)
    \/ \E s \in SessionId : RecvSessionCancel(s)
    \/ RecvSessionInfo
    \/ \E n \in Node : RecvNodeUp(n) \/ RecvDrain(n) \/ RecvResume(n)
    \/ \E N \in Subtrees : RecvNodeDown(N)
    \/ \E st \in steps : RecvStepdComplete(st) \/ StepLost(st)

Next == ScdThread \/ RmThread \/ Receive

Spec == Init /\ [][Next]_vars

(***************************************************************************)
(* Fairness.  Each thread runs its event loop, so a thread with work takes *)
(* a step.  Nothing is assumed of clients, nodes or step daemons.          *)
(***************************************************************************)
FairSpec == Spec /\ WF_vars(ScdThread) /\ WF_vars(RmThread)

-----------------------------------------------------------------------------
(* Safety *)

HasNodes(s) == alloc[s].nodes \notin {NULL, ERROR, BAD}
Pending(st, s) == \E i \in DOMAIN scdq : scdq[i].state = st /\ scdq[i].id = s
Posted(st, s) == \E i \in DOMAIN rmq : rmq[i].state = st /\ rmq[i].id = s
Tracked(s) == \E k \in DOMAIN tracking : tracking[k].alloc_id = s
Finished == {"ended", "cancelled", "dropped"}

(***************************************************************************)
(* No allocation leaks: a node that pmf_allocated marked ALLOC belongs to  *)
(* a session of the running queue, so pmf_terminated will free it.  Both   *)
(* loops over the nodes and the removal from the queue are separate steps. *)
(***************************************************************************)
AllocatedNodesOwned ==
    \A n \in Node : scd_state[n] = "ALLOC" =>
        \E s \in ToSet(running) : HasNodes(s) /\ n \in ToSet(alloc[s].nodes)

(***************************************************************************)
(* A session that was assigned an id is in exactly one place: an           *)
(* INIT or ALLOCD event, a REQ event, one queue, or the hands of one of    *)
(* the threads.  It is in no place only once it has ended, was cancelled,  *)
(* or was dropped: asked for no nodes, or got no answer.  pmf moves        *)
(* sessions between two event queues and three lists, and no handler may   *)
(* lose or duplicate one.                                                  *)
(***************************************************************************)
Places(s) ==
      Cardinality({i \in DOMAIN scdq : scdq[i].id = s /\ scdq[i].state \in {"INIT", "ALLOCD"}})
    + Cardinality({i \in DOMAIN rmq : rmq[i].id = s /\ rmq[i].state = "REQ"})
    + Cardinality({i \in DOMAIN running : running[i] = s})
    + Cardinality({i \in DOMAIN hold : hold[i] = s})
    + Cardinality({i \in DOMAIN default : default[i] = s})
    + (IF scd.pc = "count" /\ scd.id = s THEN 1 ELSE 0)
    + (IF rm.pc = "scan" /\ rm.id = s THEN 1 ELSE 0)

SessionInOnePlace ==
    \A s \in 1..last_session_id : Places(s) = IF phase[s] \in Finished THEN 0 ELSE 1

(***************************************************************************)
(* A session is declared terminated once, while it is running, when every  *)
(* one of its step daemons has checked in and its tracker is gone.         *)
(***************************************************************************)
TerminationSound ==
    \A i \in DOMAIN scdq : scdq[i].state = "TERMINATED" =>
        LET s == scdq[i].id IN
        /\ s \in ToSet(running)
        /\ \A st \in steps : st.id # s
        /\ ~Tracked(s)
        /\ \A j \in DOMAIN scdq : scdq[j].state = "TERMINATED" /\ scdq[j].id = s => i = j
        /\ ~(scd.pc = "unmark" /\ scd.id = s)

(***************************************************************************)
(* Step daemons are tracked only for sessions of the running queue.        *)
(***************************************************************************)
TrackedSessionsRunning ==
    \A k \in DOMAIN tracking : tracking[k].alloc_id \in ToSet(running)

(***************************************************************************)
(* A kill never overtakes the launch: when the resource manager sends      *)
(* CANCEL_STEPD, the step daemons were launched and either still run under *)
(* a tracker or have all checked in.                                       *)
(***************************************************************************)
KillFollowsLaunch ==
    rmq # <<>> /\ Head(rmq).state = "KILL" =>
        LET s == Head(rmq).id IN
        \/ Tracked(s) \/ Pending("TERMINATED", s) \/ phase[s] = "ended"
        \/ scd.pc = "unmark" /\ scd.id = s

(***************************************************************************)
(* RecvStepdComplete tests the count for equality, so it must never pass   *)
(* the number of nodes unnoticed.                                          *)
(***************************************************************************)
CheckInsBelowNodes ==
    \A k \in DOMAIN tracking :
        tracking[k].count_checked_in < alloc[tracking[k].alloc_id].min_nodes

(***************************************************************************)
(* Every node of a tracked session owes exactly one check-in: the ones     *)
(* counted and the step daemons still out add up to min_nodes, the number  *)
(* scd_base_rm_recv waits for, so the last daemon's report terminates the  *)
(* session.  Launch, check-in and tracker are changed by three handlers.   *)
(***************************************************************************)
CheckInsAddUp ==
    \A k \in DOMAIN tracking :
        LET s == tracking[k].alloc_id IN
        tracking[k].count_checked_in + Cardinality({st \in steps : st.id = s}) = alloc[s].min_nodes

(***************************************************************************)
(* First in, first out: resources are requested for a session only when no *)
(* earlier session is still waiting to be scheduled.                       *)
(***************************************************************************)
NoOvertaking ==
    [][\A s \in SessionId : phase[s] # "req" /\ phase'[s] = "req" =>
          \A t \in 1..(s - 1) : phase[t] \notin {"init", "default", "counting"}]_vars

-----------------------------------------------------------------------------
(* The inductive invariant behind AllocatedNodesOwned *)

Launched == {"running", "ended"}
Unplaced == {"init", "hold", "default", "counting", "req", "scan"}
GotNodes(s) == alloc[s].nodes \in Seq(Name) /\ Len(alloc[s].nodes) = alloc[s].min_nodes

\* no member of T is in the sequence q twice
UniqueIn(q, T) == \A i, j \in DOMAIN q : q[i] = q[j] /\ q[i] \in T => i = j

\* the queues hold each session once, and its phase says where it is
ListsInv ==
    /\ \A s \in SessionId : s > last_session_id => phase[s] = "none"
    /\ UniqueIn(running, SessionId) /\ UniqueIn(hold, SessionId) /\ UniqueIn(default, SessionId)
    /\ \A s \in ToSet(running) : phase[s] = "running"
    /\ \A s \in ToSet(hold) : phase[s] = "hold"
    /\ \A s \in ToSet(default) : phase[s] = "default"

\* a session has no node list before the resource manager has scanned for it,
\* and a complete one when it is launched (or the process has died)
AllocInv ==
    \A s \in SessionId :
        /\ phase[s] \in Unplaced => alloc[s].nodes = NULL
        /\ phase[s] \in {"scan", "allocd"} => alloc[s].min_nodes > 0
        /\ phase[s] = "allocd" => alloc[s].nodes = NULL \/ GotNodes(s)
        /\ phase[s] \in Launched /\ up => GotNodes(s) /\ alloc[s].min_nodes > 0

OnceScd == {e \in ScdEvent : e.state \in {"INIT", "ALLOCD"}}
OnceRm == {e \in RmEvent : e.state = "REQ"}

ScdqInv ==
    /\ \A e \in ToSet(scdq) :
          /\ e.state = "INIT" => phase[e.id] = "init" /\ e.nodes = <<>>
          /\ e.state = "ALLOCD" => phase[e.id] = "allocd" /\ e.nodes = <<>>
          /\ e.state = "TERMINATED" => phase[e.id] \in Launched /\ e.nodes = alloc[e.id].nodes
    /\ UniqueIn(scdq, OnceScd)

RmqInv ==
    /\ \A e \in ToSet(rmq) :
          /\ e.state = "REQ" => phase[e.id] = "req"
          /\ e.state \in {"ACTIVE", "KILL"} => phase[e.id] \in Launched
    /\ UniqueIn(rmq, OnceRm)

ScdInv ==
    /\ scd.pc = "count" => scd.id \in SessionId /\ phase[scd.id] = "counting" /\ scd.i > 0
    /\ scd.pc = "mark" => /\ scd.id \in ToSet(running) /\ scd.nodes = alloc[scd.id].nodes
                          /\ scd.i \in 1..Len(scd.nodes)
    /\ scd.pc = "unmark" => /\ scd.id \in SessionId /\ phase[scd.id] \in Launched
                            /\ scd.nodes = alloc[scd.id].nodes /\ scd.i > 0
                            /\ \A j \in 1..Len(scd.nodes) :
                                  j < scd.i /\ scd.nodes[j] # NoNode => scd_state[scd.nodes[j]] # "ALLOC"
    /\ scd.pc # "spin"

RmInv ==
    /\ rm.pc = "scan" => rm.id \in SessionId /\ phase[rm.id] = "scan" /\ rm.i \in Node
    /\ rm.pc \in {"info", "walk", "pack"} => rm.i \in 1..3

StepsInv ==
    \A st \in steps : phase[st.id] \in Launched /\ st.nodes = alloc[st.id].nodes

(***************************************************************************)
(* Inductive when no request brings a node list of its own and no node's   *)
(* name starts with a number: then the ERROR label of pmf_allocated is     *)
(* never reached, a session moves through its phases once, and the node    *)
(* list of a launched session never changes.                               *)
(***************************************************************************)
IndInv ==
    /\ TypeOK /\ AllocatedNodesOwned
    /\ ListsInv /\ AllocInv /\ ScdqInv /\ RmqInv /\ ScdInv /\ RmInv /\ StepsInv

-----------------------------------------------------------------------------
(* What comments of the code say, refuted *)

(***************************************************************************)
(* scd_types.h, orcm_alloc_t.exclusive: "true if nodes to be exclusively   *)
(* allocated (i.e., not shared across sessions)"; the constructor sets it. *)
(***************************************************************************)
NodesExclusive ==
    \A s, t \in ToSet(running) : s # t /\ HasNodes(s) /\ HasNodes(t) =>
        ToSet(alloc[s].nodes) \cap ToSet(alloc[t].nodes) = {}

(***************************************************************************)
(* pmf_allocated: a session that did not get its nodes ("what happened? we *)
(* didn't get all of the nodes we needed?") goes back to the default       *)
(* queue; the scheduler does not die of it.                                *)
(***************************************************************************)
ShortAllocationSurvived == up

(***************************************************************************)
(* pmf_cancel: "if session is queued, find it and delete it".  After the   *)
(* cancel was handled, the session is not still on its way to the nodes.   *)
(***************************************************************************)
CancelHonoured ==
    \A s \in SessionId : cancels[s] > 0 =>
        Pending("CANCEL", s) \/ phase[s] \notin {"req", "scan", "allocd"}

(***************************************************************************)
(* The session report announces, for each queue, the "count of sessions on *)
(* the queue" and then packs "all the sessions on the queue": both are the *)
(* same number.                                                            *)
(***************************************************************************)
InfoCountMatches ==
    rm.pc = "pack" => rm.packed = rm.cnt

(***************************************************************************)
(* update_nodestate_byname: "if the node is coming online, reset the       *)
(* scheduling state only if its either undefined or unknown".  A node that *)
(* is up has left the undefined scheduling state.                          *)
(***************************************************************************)
OnlineNodeSchedulable ==
    \A n \in Node : state[n] = "UP" => scd_state[n] # "UNDEF"

(***************************************************************************)
(* test/system/regex.c creates a node regex, extracts the names from it    *)
(* and reports "EXACT MATCH" or an error.  In the list of a session that   *)
(* runs, every name is still the name of a node.                           *)
(***************************************************************************)
NamesSurvive ==
    \A s \in ToSet(running) : HasNodes(s) => NoNode \notin ToSet(alloc[s].nodes)

-----------------------------------------------------------------------------
(* Liveness *)

(***************************************************************************)
(* No hand-over is lost: a session on its way between the threads comes to *)
(* rest on a queue, runs or is finished, whatever node list it brought, or *)
(* pmf_allocated sent it back; unless the process died or the scd thread   *)
(* walks a queue without end.                                              *)
(***************************************************************************)
HandOversComplete ==
    \A s \in SessionId :
        phase[s] \in {"init", "counting", "req", "scan", "allocd"}
            ~> (phase[s] \in {"hold", "default", "running"} \cup Finished \/ ~up \/ scd.pc = "spin")

(***************************************************************************)
(* One SCHEDULE event per request and termination is enough: a session     *)
(* that fits, submitted while every node is up, gets to run, unless        *)
(* sessions that never end keep the running queue occupied, or a session   *)
(* for no nodes was dropped, which scd_base_rm_request does without a new  *)
(* SCHEDULE event.                                                         *)
(***************************************************************************)
QueueDrains ==
    \A s \in SessionId :
        [](phase[s] = "init" /\ alloc[s].min_nodes \in Node /\ (\A n \in Node : state[n] = "UP")
            => <>(\/ phase[s] \in {"running", "ended"} \/ ~up
                  \/ \E t \in SessionId : phase[t] = "dropped"
                  \/ [](running # <<>>)))

(***************************************************************************)
(* A cancel that reaches the scheduler while its session runs is passed on *)
(* to every step daemon of the session, those of a launch that is still in *)
(* the resource manager's queue included.                                  *)
(***************************************************************************)
CancelReachesSteps ==
    \A s \in SessionId :
        (phase[s] = "running" /\ Pending("CANCEL", s))
            ~> (\/ phase[s] = "ended" \/ ~up
                \/ ~Posted("ACTIVE", s) /\ \A st \in steps : st.id = s => st.killed)
=============================================================================
