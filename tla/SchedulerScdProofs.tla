------------------------- MODULE SchedulerScdProofs -------------------------
(***************************************************************************)
(* The handlers of the scd thread preserve the inductive invariant.        *)
(***************************************************************************)
EXTENDS SchedulerLemmas

(***************************************************************************)
(* pmf_find_queue puts a new session on one queue.                         *)
(***************************************************************************)
LEMMA FindQueueStep ==
    ASSUME IndInv, pmf_find_queue
    PROVE  IndInv'
<1> DEFINE s == Head(scdq).id
           q == Tail(scdq)
           fits == alloc[s].min_nodes <= NumNodes
<1>1. /\ Head(scdq) \in ScdEvent /\ Head(scdq).state = "INIT" /\ s \in SessionId
      /\ phase[s] = "init" /\ q \in Seq(ScdEvent) /\ ToSet(q) \subseteq ToSet(scdq)
      /\ \A d \in ToSet(q) : d.state = "INIT" => d.id # s
      /\ UniqueIn(q, OnceScd)
      /\ ToSet(scdq) \subseteq ScdEvent
    BY ScdTake DEF pmf_find_queue, ScdTakes, ScdEvent, IndInv, ScdqInv
<1>2. /\ scdq' \in Seq(ScdEvent) /\ ToSet(scdq') = ToSet(q) \cup {ScdEv("SCHEDULE", s, <<>>)}
      /\ UniqueIn(scdq', OnceScd)
  <2> HIDE DEF q, s
  <2>1. scdq' = Append(q, ScdEv("SCHEDULE", s, <<>>))  BY DEF pmf_find_queue, q, s
  <2> QED  BY <1>1, <2>1, ScdPostSchedule
<1>3. /\ phase' = [phase EXCEPT ![s] = IF fits THEN "default" ELSE "hold"]
      /\ hold' = IF fits THEN hold ELSE Append(hold, s)
      /\ default' = IF fits THEN Append(default, s) ELSE default
      /\ UNCHANGED <<up, last_session_id, alloc, running, nodes, tracking, rmq, scd, rm, steps, launches, cancels>>
    BY DEF pmf_find_queue
<1> HIDE DEF s, q
<1>4. s \notin ToSet(hold) /\ s \notin ToSet(default) /\ s \notin ToSet(running)
    BY <1>1 DEF IndInv, ListsInv
<1>5. /\ hold' \in Seq(SessionId) /\ UniqueIn(hold', SessionId)
      /\ ToSet(hold') = IF fits THEN ToSet(hold) ELSE ToSet(hold) \cup {s}
    BY <1>1, <1>3, <1>4, SessionJoins, Zenon DEF IndInv, TypeOK, ListsInv
<1>6. /\ default' \in Seq(SessionId) /\ UniqueIn(default', SessionId)
      /\ ToSet(default') = IF fits THEN ToSet(default) \cup {s} ELSE ToSet(default)
    BY <1>1, <1>3, <1>4, SessionJoins, ZenonT(60) DEF IndInv, TypeOK, ListsInv
<1>7. /\ phase' \in [SessionId -> Phase] /\ phase'[s] \in {"default", "hold"}
      /\ \A t \in SessionId : t # s => phase'[t] = phase[t]
      /\ phase'[s] = IF fits THEN "default" ELSE "hold"
    BY <1>1, <1>3 DEF IndInv, TypeOK, Phase
<1>8. TypeOK'
    BY <1>2, <1>3, <1>5, <1>6, <1>7 DEF IndInv, TypeOK, nodes
<1>9. AllocatedNodesOwned'
    BY <1>3 DEF IndInv, AllocatedNodesOwned, HasNodes, nodes
<1>10. ListsInv'
    BY <1>1, <1>3, <1>4, <1>5, <1>6, <1>7, QueuesHoldSessions DEF IndInv, ListsInv, TypeOK
<1>11. AllocInv'
    BY <1>1, <1>3, <1>7 DEF IndInv, AllocInv, GotNodes, Unplaced, Launched
<1>12. ScdqInv'
    BY <1>1, <1>2, <1>3, <1>7, ScdEvFields DEF IndInv, ScdqInv, ScdEvent, Launched
<1>13. RmqInv'
    BY <1>1, <1>3, <1>7 DEF IndInv, RmqInv, Launched
<1>14. ScdInv'
    BY <1>1, <1>3, <1>7 DEF IndInv, ScdInv, Launched, nodes
<1>15. RmInv' /\ StepsInv'
    BY <1>1, <1>3, <1>7 DEF IndInv, RmInv, StepsInv, Launched, TypeOK, Step
<1> QED  BY <1>8, <1>9, <1>10, <1>11, <1>12, <1>13, <1>14, <1>15 DEF IndInv

(***************************************************************************)
(* pmf_schedule takes the head of the default queue, counts the free nodes *)
(* and either posts a resource request or puts the session back.           *)
(***************************************************************************)
LEMMA ScheduleStep ==
    ASSUME IndInv, pmf_schedule
    PROVE  IndInv'
<1> DEFINE q == Tail(scdq)
           s == Head(default)
<1>1. /\ q \in Seq(ScdEvent) /\ ToSet(q) \subseteq ToSet(scdq) /\ UniqueIn(q, OnceScd)
      /\ scd.pc = "idle" /\ scdq' = q
      /\ UNCHANGED <<up, last_session_id, alloc, running, hold, nodes, tracking, rmq, rm, steps, launches, cancels>>
    BY ScdTake DEF pmf_schedule, ScdTakes
<1> HIDE DEF q
<1>2. CASE default = <<>>
  <2>1. UNCHANGED <<default, scd, phase>>  BY <1>2 DEF pmf_schedule
  <2>2. TypeOK' /\ ListsInv'  BY <1>1, <2>1 DEF IndInv, TypeOK, ListsInv, nodes
  <2>3. AllocatedNodesOwned' /\ AllocInv'
      BY <1>1, <2>1 DEF IndInv, AllocatedNodesOwned, AllocInv, HasNodes, GotNodes, nodes
  <2>4. ScdqInv' /\ RmqInv'  BY <1>1, <2>1 DEF IndInv, ScdqInv, RmqInv
  <2>5. ScdInv' /\ RmInv' /\ StepsInv'  BY <1>1, <2>1 DEF IndInv, ScdInv, RmInv, StepsInv, nodes
  <2> QED  BY <2>2, <2>3, <2>4, <2>5 DEF IndInv
<1>3. CASE default # <<>>
  <2>1. /\ scd' = ScdLoop("count", s, <<>>)
        /\ default' = Tail(default) /\ phase' = [phase EXCEPT ![s] = "counting"]
      BY <1>3 DEF pmf_schedule
  <2>2. /\ default \in Seq(SessionId) /\ UniqueIn(default, SessionId)
        /\ \A t \in ToSet(default) : phase[t] = "default"
      BY DEF IndInv, TypeOK, ListsInv
  <2>3. /\ s \in SessionId /\ ToSet(default) = {s} \cup ToSet(default')
        /\ default' \in Seq(SessionId) /\ UniqueIn(default', SessionId)
        /\ s \notin ToSet(default')
      BY <1>3, <2>1, <2>2, TailFacts, UniqueTail
  <2> HIDE DEF s
  <2>4. phase[s] = "default" /\ s \notin ToSet(running) /\ s \notin ToSet(hold)
      BY <2>2, <2>3 DEF IndInv, ListsInv
  <2>5. /\ phase' \in [SessionId -> Phase] /\ phase'[s] = "counting"
        /\ \A t \in SessionId : t # s => phase'[t] = phase[t]
      BY <2>1, <2>3 DEF IndInv, TypeOK, Phase
  <2>6. /\ scd' \in ScdLocals
        /\ scd'.pc = "count" /\ scd'.id = s /\ scd'.i = 1
    <3>1. <<>> \in Seq(Name)  OBVIOUS
    <3>2. LET r == ScdLoop("count", s, <<>>) IN
          r \in ScdLocals /\ r.pc = "count" /\ r.id = s /\ r.i = 1
      <4>1. s \in 0..MaxSessions  BY <2>3, ConstantsAssumption DEF SessionId
      <4> QED  BY <3>1, <4>1 DEF ScdLocals, ScdLoop
    <3> QED  BY <2>1, <3>2
  <2>7. TypeOK'  BY <1>1, <2>3, <2>5, <2>6 DEF IndInv, TypeOK, nodes
  <2>8. ListsInv'
      BY <1>1, <2>3, <2>4, <2>5, QueuesHoldSessions DEF IndInv, ListsInv, TypeOK
  <2>9. AllocatedNodesOwned'  BY <1>1 DEF IndInv, AllocatedNodesOwned, HasNodes, nodes
  <2>10. AllocInv'
      BY <1>1, <2>3, <2>4, <2>5 DEF IndInv, AllocInv, GotNodes, Unplaced, Launched
  <2>11. ScdqInv'
      BY <1>1, <2>3, <2>4, <2>5, QueuesHoldSessions DEF IndInv, ScdqInv, ScdEvent, Launched
  <2>12. RmqInv'
      BY <1>1, <2>3, <2>4, <2>5, QueuesHoldSessions DEF IndInv, RmqInv, RmEvent, Launched
  <2>13. ScdInv'  BY <2>3, <2>5, <2>6 DEF ScdInv
  <2>14. RmInv' /\ StepsInv'
      BY <1>1, <2>3, <2>4, <2>5, ZenonT(60) DEF IndInv, RmInv, StepsInv, Launched, TypeOK, Step
  <2> QED  BY <2>7, <2>8, <2>9, <2>10, <2>11, <2>12, <2>13, <2>14 DEF IndInv
<1> QED  BY <1>2, <1>3

LEMMA ScheduleCountStep ==
    ASSUME IndInv, pmf_schedule_count
    PROVE  IndInv'
<1>1. /\ scd' \in ScdLocals
      /\ scd.pc = "count" /\ scd'.pc = "count" /\ scd'.id = scd.id /\ scd'.i = scd.i + 1
  <2> DEFINE f == IF Free(scd.i) THEN scd.free + 1 ELSE scd.free
  <2>1. scd \in ScdLocals  BY DEF IndInv, TypeOK
  <2>2. f \in Nat  BY <2>1 DEF ScdLocals
  <2>3. scd.pc = "count" /\ scd' = [scd EXCEPT !.i = scd.i + 1, !.free = f]
      BY DEF pmf_schedule_count
  <2> HIDE DEF f
  <2> QED  BY <2>1, <2>2, <2>3, ScdAdvance, ZenonT(60)
<1>2. UNCHANGED <<up, last_session_id, alloc, queues, nodes, tracking, scdq, rmq, rm, steps, launches, cancels, phase>>
    BY DEF pmf_schedule_count
<1>3. TypeOK' /\ ListsInv'  BY <1>1, <1>2 DEF IndInv, TypeOK, ListsInv, nodes, queues
<1>4. AllocatedNodesOwned' /\ AllocInv'
    BY <1>2 DEF IndInv, AllocatedNodesOwned, AllocInv, HasNodes, GotNodes, nodes, queues
<1>5. ScdqInv' /\ RmqInv'  BY <1>2 DEF IndInv, ScdqInv, RmqInv
<1>6. ScdInv'  BY <1>1, <1>2 DEF IndInv, ScdInv, TypeOK, ScdLocals
<1>7. RmInv' /\ StepsInv'  BY <1>2 DEF IndInv, RmInv, StepsInv
<1> QED  BY <1>3, <1>4, <1>5, <1>6, <1>7 DEF IndInv

LEMMA ScheduleDecideStep ==
    ASSUME IndInv, pmf_schedule_decide
    PROVE  IndInv'
<1> DEFINE s == scd.id
           enough == alloc[s].min_nodes <= scd.free
<1>1. /\ scd.pc = "count" /\ scd' = ScdIdle
      /\ rmq' = IF enough THEN Append(rmq, RmEv("REQ", s)) ELSE rmq
      /\ default' = IF enough THEN default ELSE <<s>> \o default
      /\ phase' = [phase EXCEPT ![s] = IF enough THEN "req" ELSE "default"]
      /\ UNCHANGED <<up, last_session_id, alloc, running, hold, nodes, tracking, scdq, rm, steps, launches, cancels>>
    BY DEF pmf_schedule_decide, PutBack
<1>2. s \in SessionId /\ phase[s] = "counting"  BY <1>1 DEF IndInv, ScdInv
<1> HIDE DEF s, enough
<1>3. s \notin ToSet(running) /\ s \notin ToSet(hold) /\ s \notin ToSet(default)
    BY <1>2 DEF IndInv, ListsInv
<1>4. /\ default' \in Seq(SessionId) /\ UniqueIn(default', SessionId)
      /\ ToSet(default') = IF enough THEN ToSet(default) ELSE ToSet(default) \cup {s}
    BY <1>1, <1>2, <1>3, SessionJoins, Zenon DEF IndInv, TypeOK, ListsInv
<1>5. \A d \in ToSet(rmq) : ~(d.state = "REQ" /\ d.id = s)
    BY <1>2 DEF IndInv, RmqInv
<1>6. /\ rmq' \in Seq(RmEvent) /\ UniqueIn(rmq', OnceRm)
      /\ ToSet(rmq') = IF enough THEN ToSet(rmq) \cup {RmEv("REQ", s)} ELSE ToSet(rmq)
    BY <1>1, <1>2, <1>5, RmPost, ZenonT(60) DEF IndInv, TypeOK, RmqInv
<1>7. /\ phase' \in [SessionId -> Phase] /\ phase'[s] = IF enough THEN "req" ELSE "default"
      /\ \A t \in SessionId : t # s => phase'[t] = phase[t]
    BY <1>1, <1>2 DEF IndInv, TypeOK, Phase
<1>8. /\ scd' \in ScdLocals
      /\ scd'.pc = "idle"
    BY <1>1, ConstantsAssumption DEF ScdIdle, ScdLocals
<1>9. TypeOK'  BY <1>1, <1>4, <1>6, <1>7, <1>8 DEF IndInv, TypeOK, nodes
<1>10. ListsInv'
    BY <1>1, <1>2, <1>3, <1>4, <1>7, QueuesHoldSessions, ZenonT(60) DEF IndInv, ListsInv, TypeOK
<1>11. AllocatedNodesOwned'  BY <1>1, Zenon DEF IndInv, AllocatedNodesOwned, HasNodes, nodes
<1>12. AllocInv'
    BY <1>1, <1>2, <1>7 DEF IndInv, AllocInv, GotNodes, Unplaced, Launched
<1>13. ScdqInv'
    BY <1>1, <1>2, <1>7, QueuesHoldSessions DEF IndInv, ScdqInv, ScdEvent, Launched
<1>14. RmqInv'
    BY <1>1, <1>2, <1>5, <1>6, <1>7, QueuesHoldSessions, RmEvFields DEF IndInv, RmqInv, RmEvent, Launched
<1>15. ScdInv'  BY <1>8 DEF ScdInv
<1>16. RmInv' /\ StepsInv'
    BY <1>1, <1>2, <1>7 DEF IndInv, RmInv, StepsInv, Launched, TypeOK, Step
<1> QED  BY <1>9, <1>10, <1>11, <1>12, <1>13, <1>14, <1>15, <1>16 DEF IndInv

(***************************************************************************)
(* pmf_allocated starts a session whose nodes are all there.  A null list  *)
(* ends the process, and no other list is ever found.                      *)
(***************************************************************************)
LEMMA AllocatedStep ==
    ASSUME IndInv, pmf_allocated
    PROVE  IndInv'
<1> DEFINE s == Head(scdq).id
           q == Tail(scdq)
           nl == alloc[s].nodes
<1>1. /\ s \in SessionId /\ phase[s] = "allocd" /\ q \in Seq(ScdEvent)
      /\ ToSet(q) \subseteq ToSet(scdq) /\ UniqueIn(q, OnceScd)
      /\ \A d \in ToSet(q) : d.state = "ALLOCD" => d.id # s
      /\ up /\ scd.pc = "idle"
    BY ScdTake, ZenonT(60) DEF pmf_allocated, ScdTakes, ScdEvent, IndInv, ScdqInv
<1>2. alloc[s].min_nodes > 0 /\ (nl = NULL \/ GotNodes(s))
    BY <1>1 DEF IndInv, AllocInv
<1>3. /\ UNCHANGED <<last_session_id, alloc, hold, nodes, tracking, rm, steps, launches, cancels, default>>
      /\ running' = Append(running, s) /\ phase' = [phase EXCEPT ![s] = "running"]
      /\ scdq' = q
      /\ \/ up' = FALSE /\ rmq' = rmq /\ scd' = scd
         \/ /\ up' = up /\ GotNodes(s) /\ rmq' = Append(rmq, RmEv("ACTIVE", s))
            /\ scd' = ScdLoop("mark", s, nl)
  <2>1. CASE nl = NULL
      BY <2>1, StringsAssumption DEF pmf_allocated
  <2>2. CASE nl # NULL
    <3>1. GotNodes(s) /\ nl \notin {NULL, ERROR, BAD} /\ Len(nl) = alloc[s].min_nodes
        BY <1>2, <2>2, StringsAssumption DEF GotNodes, Name
    <3> QED  BY <3>1 DEF pmf_allocated
  <2> QED  BY <2>1, <2>2, Zenon
<1>4. GotNodes(s) => nl \in Seq(Name) /\ Len(nl) > 0
    BY <1>2 DEF GotNodes
<1> HIDE DEF s, q, nl
<1>5. s \notin ToSet(running) /\ s \notin ToSet(hold) /\ s \notin ToSet(default)
    BY <1>1 DEF IndInv, ListsInv
<1>6. /\ running' \in Seq(SessionId) /\ UniqueIn(running', SessionId)
      /\ ToSet(running') = ToSet(running) \cup {s}
    BY <1>1, <1>3, <1>5, SessionJoins, Zenon DEF IndInv, TypeOK, ListsInv
<1>7. /\ rmq' \in Seq(RmEvent) /\ UniqueIn(rmq', OnceRm)
      /\ ToSet(rmq') \subseteq ToSet(rmq) \cup {RmEv("ACTIVE", s)}
  <2>1. rmq \in Seq(RmEvent) /\ UniqueIn(rmq, OnceRm)  BY DEF IndInv, TypeOK, RmqInv
  <2>2. CASE rmq' = rmq  BY <2>1, <2>2
  <2>3. CASE rmq' = Append(rmq, RmEv("ACTIVE", s))  BY <1>1, <2>1, <2>3, RmPostPlain
  <2> QED  BY <1>3, <2>2, <2>3
<1>8. /\ phase' \in [SessionId -> Phase] /\ phase'[s] = "running"
      /\ \A t \in SessionId : t # s => phase'[t] = phase[t]
    BY <1>1, <1>3 DEF IndInv, TypeOK, Phase
<1>9. /\ scd' \in ScdLocals
      /\ \/ scd'.pc = "idle"
         \/ scd'.pc = "mark" /\ scd'.id = s /\ scd'.i = 1 /\ scd'.nodes = nl /\ GotNodes(s)
  <2>1. CASE scd' = scd  BY <1>1, <2>1 DEF IndInv, TypeOK
  <2>2. CASE GotNodes(s) /\ scd' = ScdLoop("mark", s, nl)
      BY <1>1, <1>4, <2>2, ScdLoopFacts
  <2> QED  BY <1>3, <2>1, <2>2
<1>10. TypeOK'  BY <1>1, <1>3, <1>6, <1>7, <1>8, <1>9, Zenon DEF IndInv, TypeOK, nodes
<1>11. ListsInv'
    BY <1>1, <1>3, <1>5, <1>6, <1>8, QueuesHoldSessions DEF IndInv, ListsInv, TypeOK
<1>12. AllocatedNodesOwned'
    BY <1>3, <1>6, ZenonT(60) DEF IndInv, AllocatedNodesOwned, HasNodes, nodes
<1>13. AllocInv'
    BY <1>1, <1>2, <1>3, <1>8, ZenonT(60) DEF IndInv, AllocInv, GotNodes, Unplaced, Launched
<1>14. ScdqInv'
    BY <1>1, <1>3, <1>8, QueuesHoldSessions DEF IndInv, ScdqInv, ScdEvent, Launched
<1>15. RmqInv'
    BY <1>1, <1>3, <1>7, <1>8, QueuesHoldSessions, RmEvFields DEF IndInv, RmqInv, RmEvent, Launched
<1>16. ScdInv'
    BY <1>1, <1>3, <1>4, <1>6, <1>9 DEF ScdInv, nl
<1>17. RmInv' /\ StepsInv'
    BY <1>1, <1>3, <1>8 DEF IndInv, RmInv, StepsInv, Launched, TypeOK, Step
<1> QED  BY <1>10, <1>11, <1>12, <1>13, <1>14, <1>15, <1>16, <1>17 DEF IndInv

LEMMA MarkStep ==
    ASSUME IndInv, pmf_allocated_mark
    PROVE  IndInv'
<1> DEFINE s == scd.id
           n == scd.nodes[scd.i]
<1>1. /\ scd.pc = "mark" /\ scd_state' = [m \in Node |-> IF m = n THEN "ALLOC" ELSE scd_state[m]] /\ up
      /\ scd' = IF scd.i = Len(scd.nodes) THEN ScdIdle ELSE [scd EXCEPT !.i = scd.i + 1]
      /\ UNCHANGED <<up, last_session_id, alloc, queues, state, tracking, scdq, rmq, rm, steps, launches, cancels, phase>>
    BY DEF pmf_allocated_mark, SetScdState
<1>2. /\ s \in ToSet(running) /\ scd.nodes = alloc[s].nodes /\ scd.i \in 1..Len(scd.nodes)
      /\ scd \in ScdLocals /\ scd.nodes \in Seq(Name)
    BY <1>1 DEF IndInv, ScdInv, TypeOK, ScdLocals
<1>3. n \in ToSet(alloc[s].nodes)  BY <1>2 DEF ToSet
<1>4. HasNodes(s)
    BY <1>2, StringsAssumption DEF HasNodes, Name
<1>5. /\ scd' \in ScdLocals
      /\ \/ scd'.pc = "idle"
         \/ /\ scd'.pc = "mark" /\ scd'.id = s /\ scd'.nodes = scd.nodes
            /\ scd'.i \in 1..Len(scd.nodes)
  <2>1. CASE scd.i = Len(scd.nodes)
      BY <1>1, <2>1, ConstantsAssumption DEF ScdIdle, ScdLocals
  <2>2. CASE scd.i # Len(scd.nodes)
      BY <1>1, <1>2, <2>2 DEF ScdLocals
  <2> QED  BY <2>1, <2>2
<1>6. scd_state' \in [Node -> ScdNodeState]
    BY <1>1 DEF IndInv, TypeOK, ScdNodeState
<1>7. TypeOK' /\ ListsInv'
    BY <1>1, <1>5, <1>6 DEF IndInv, TypeOK, ListsInv, queues
<1>8. AllocatedNodesOwned'
  <2> SUFFICES ASSUME NEW m \in Node, scd_state'[m] = "ALLOC"
               PROVE  \E t \in ToSet(running) : HasNodes(t) /\ m \in ToSet(alloc[t].nodes)
      BY <1>1 DEF AllocatedNodesOwned, HasNodes, queues
  <2>1. CASE m = n  BY <1>2, <1>3, <1>4, <2>1
  <2>2. CASE m # n
    <3> HIDE DEF n
    <3>1. scd_state[m] = "ALLOC"  BY <1>1, <2>2
    <3> QED  BY <3>1 DEF IndInv, AllocatedNodesOwned
  <2> QED  BY <2>1, <2>2
<1>9. AllocInv'  BY <1>1 DEF IndInv, AllocInv, GotNodes
<1>10. ScdqInv' /\ RmqInv'  BY <1>1 DEF IndInv, ScdqInv, RmqInv
<1>11. ScdInv'  BY <1>1, <1>2, <1>5 DEF ScdInv, queues
<1>12. RmInv' /\ StepsInv'  BY <1>1 DEF IndInv, RmInv, StepsInv
<1> QED  BY <1>7, <1>8, <1>9, <1>10, <1>11, <1>12 DEF IndInv

(***************************************************************************)
(* pmf_terminated frees the session's nodes, takes it off the running      *)
(* queue and asks for the next one.                                        *)
(***************************************************************************)
LEMMA TerminatedStep ==
    ASSUME IndInv, pmf_terminated
    PROVE  IndInv'
<1> DEFINE e == Head(scdq)
           s == e.id
           nl == e.nodes
           q == Tail(scdq)
<1>1. /\ e \in ScdEvent /\ phase[s] \in Launched /\ nl = alloc[s].nodes
      /\ q \in Seq(ScdEvent) /\ ToSet(q) \subseteq ToSet(scdq) /\ UniqueIn(q, OnceScd)
    BY ScdTake DEF pmf_terminated, ScdTakes, IndInv, ScdqInv
<1>2. s \in SessionId /\ nl \in Seq(Name)  BY <1>1 DEF ScdEvent
<1>3. /\ scd' = ScdLoop("unmark", s, nl)
      /\ scdq' = q
      /\ UNCHANGED <<up, last_session_id, alloc, queues, nodes, tracking, rmq, rm, steps, launches, cancels, phase>>
    BY DEF pmf_terminated
<1> HIDE DEF e, s, nl, q
<1>4. /\ scd' \in ScdLocals /\ scd'.pc = "unmark" /\ scd'.id = s /\ scd'.i = 1
      /\ scd'.nodes = nl
  <2>1. scd' = ScdLoop("unmark", s, nl)  BY <1>3
  <2> QED  BY <1>2, <2>1, ScdLoopFacts
<1>5. TypeOK' /\ ListsInv'  BY <1>1, <1>3, <1>4 DEF IndInv, TypeOK, ListsInv, nodes, queues
<1>6. AllocatedNodesOwned' /\ AllocInv'
    BY <1>3 DEF IndInv, AllocatedNodesOwned, AllocInv, HasNodes, GotNodes, nodes, queues
<1>7. ScdqInv' /\ RmqInv'  BY <1>1, <1>3 DEF IndInv, ScdqInv, RmqInv
<1>8. ScdInv'
  <2>1. scd'.id \in SessionId /\ phase'[scd'.id] \in Launched /\ scd'.nodes = alloc'[scd'.id].nodes
      BY <1>1, <1>2, <1>3, <1>4
  <2>2. \A j \in 1..Len(scd'.nodes) : ~(j < scd'.i)  BY <1>4
  <2> QED  BY <1>4, <2>1, <2>2 DEF ScdInv
<1>9. RmInv' /\ StepsInv'  BY <1>3 DEF IndInv, RmInv, StepsInv
<1> QED  BY <1>5, <1>6, <1>7, <1>8, <1>9 DEF IndInv

LEMMA UnmarkStep ==
    ASSUME IndInv, pmf_terminated_unmark
    PROVE  IndInv'
<1> DEFINE n == scd.nodes[scd.i]
<1>1. /\ scd.pc = "unmark" /\ scd.i <= Len(scd.nodes)
      /\ scd_state' = [m \in Node |-> IF m = n THEN "UNALLOC" ELSE scd_state[m]]
      /\ scd' = [scd EXCEPT !.i = scd.i + 1]
      /\ UNCHANGED <<up, last_session_id, alloc, queues, state, tracking, scdq, rmq, rm, steps, launches, cancels, phase>>
    BY DEF pmf_terminated_unmark, SetScdState
<1>2. /\ scd \in ScdLocals /\ scd.nodes \in Seq(Name) /\ scd.i \in Nat /\ scd.i > 0
      /\ scd.id \in SessionId /\ phase[scd.id] \in Launched /\ scd.nodes = alloc[scd.id].nodes
      /\ \A j \in 1..Len(scd.nodes) :
            j < scd.i /\ scd.nodes[j] # NoNode => scd_state[scd.nodes[j]] # "ALLOC"
      /\ scd_state \in [Node -> ScdNodeState]
    BY <1>1 DEF IndInv, ScdInv, TypeOK, ScdLocals
<1>3. \A j \in 1..Len(scd.nodes) : scd.nodes[j] # NoNode => scd.nodes[j] \in Node
    BY <1>2, NamedNodes
<1>4. /\ scd' \in ScdLocals /\ scd'.pc = "unmark" /\ scd'.id = scd.id
      /\ scd'.i = scd.i + 1 /\ scd'.nodes = scd.nodes
    BY <1>1, <1>2, ScdAdvance, ZenonT(60)
<1>5. scd_state' \in [Node -> ScdNodeState]  BY <1>1, <1>2 DEF ScdNodeState
<1>6. \A m \in Node : scd_state'[m] = "ALLOC" => scd_state[m] = "ALLOC" /\ m # n
  <2> HIDE DEF n
  <2> QED  BY <1>1, <1>2
<1>7. TypeOK' /\ ListsInv'  BY <1>1, <1>4, <1>5 DEF IndInv, TypeOK, ListsInv, queues
<1>8. AllocatedNodesOwned'
    BY <1>1, <1>6 DEF IndInv, AllocatedNodesOwned, HasNodes, queues
<1>9. AllocInv' /\ ScdqInv' /\ RmqInv'
    BY <1>1 DEF IndInv, AllocInv, GotNodes, ScdqInv, RmqInv
<1>10. ScdInv'
  <2>1. ASSUME NEW j \in 1..Len(scd.nodes), j < scd.i + 1, scd.nodes[j] # NoNode
        PROVE  scd_state'[scd.nodes[j]] # "ALLOC"
    <3>1. scd.nodes[j] \in Node  BY <1>3, <2>1
    <3>2. CASE j = scd.i  BY <1>6, <3>1, <3>2
    <3>3. CASE j # scd.i
      <4>1. j < scd.i  BY <1>2, <2>1, <3>3
      <4> QED  BY <1>2, <1>6, <2>1, <3>1, <4>1
    <3> QED  BY <3>2, <3>3
  <2>2. scd.i + 1 > 0  BY <1>2
  <2> QED  BY <1>1, <1>2, <1>4, <2>1, <2>2 DEF ScdInv
<1>11. RmInv' /\ StepsInv'  BY <1>1 DEF IndInv, RmInv, StepsInv
<1> QED  BY <1>7, <1>8, <1>9, <1>10, <1>11 DEF IndInv

LEMMA TerminatedRemoveStep ==
    ASSUME IndInv, pmf_terminated_remove
    PROVE  IndInv'
<1> DEFINE s == scd.id
<1>1. /\ up /\ scd.pc = "unmark" /\ scd.i > Len(scd.nodes) /\ running' \in Without(running, s)
      /\ scdq' = Append(scdq, ScdEv("SCHEDULE", s, <<>>))
      /\ phase' = [phase EXCEPT ![s] = IF s \in ToSet(running) THEN "ended" ELSE phase[s]]
      /\ scd' = ScdIdle
      /\ UNCHANGED <<up, last_session_id, alloc, hold, default, nodes, tracking, rmq, rm, steps, launches, cancels>>
    BY DEF pmf_terminated_remove, AfterTermination
<1>2. /\ s \in SessionId /\ phase[s] \in Launched /\ scd.nodes = alloc[s].nodes
      /\ scd.nodes \in Seq(Name) /\ scd.i \in Nat
      /\ \A j \in 1..Len(scd.nodes) :
            j < scd.i /\ scd.nodes[j] # NoNode => scd_state[scd.nodes[j]] # "ALLOC"
    BY <1>1 DEF IndInv, ScdInv, TypeOK, ScdLocals
<1>3. \A n \in ToSet(alloc[s].nodes) : n \in Node => scd_state[n] # "ALLOC"
  <2>1. ASSUME NEW j \in DOMAIN scd.nodes, scd.nodes[j] \in Node
        PROVE  scd_state[scd.nodes[j]] # "ALLOC"
    <3>1. j \in 1..Len(scd.nodes) /\ j < scd.i
      <4>1. scd.i > Len(scd.nodes)  BY <1>1
      <4>2. scd.nodes \in Seq(Name) /\ scd.i \in Nat  BY <1>2
      <4>3. j \in 1..Len(scd.nodes) /\ Len(scd.nodes) \in Nat  BY <4>2
      <4> QED  BY <4>1, <4>2, <4>3
    <3>2. scd.nodes[j] # NoNode  BY <2>1, ConstantsAssumption DEF Node, NoNode
    <3> QED  BY <1>2, <3>1, <3>2
  <2> QED  BY <1>2, <2>1 DEF ToSet
<1>4. /\ running' \in Seq(SessionId) /\ UniqueIn(running', SessionId)
      /\ ToSet(running') = ToSet(running) \ {s}
    BY <1>1, WithoutFacts DEF IndInv, TypeOK, ListsInv
<1>5. /\ scdq' \in Seq(ScdEvent) /\ ToSet(scdq') = ToSet(scdq) \cup {ScdEv("SCHEDULE", s, <<>>)}
      /\ UniqueIn(scdq', OnceScd)
  <2>1. scdq \in Seq(ScdEvent) /\ UniqueIn(scdq, OnceScd)  BY DEF IndInv, TypeOK, ScdqInv
  <2> QED  BY <1>1, <1>2, <2>1, ScdPostSchedule, ZenonT(60)
<1>6. scd' \in ScdLocals /\ scd'.pc = "idle"  BY <1>1, IdleFacts
<1> HIDE DEF s
<1>7. /\ phase' \in [SessionId -> Phase] /\ phase'[s] \in Launched
      /\ \A t \in SessionId : t # s => phase'[t] = phase[t]
    BY <1>1, <1>2 DEF IndInv, TypeOK, Phase, Launched
<1>8. s \notin ToSet(hold) /\ s \notin ToSet(default)
    BY <1>2 DEF IndInv, ListsInv, Launched
<1>9. TypeOK'  BY <1>1, <1>4, <1>5, <1>6, <1>7 DEF IndInv, TypeOK, nodes
<1>10. ListsInv'
  <2>1. \A t \in SessionId : t > last_session_id => t # s
      BY <1>2 DEF IndInv, ListsInv, Launched
  <2> QED  BY <1>1, <1>2, <1>4, <1>7, <1>8, <2>1, QueuesHoldSessions DEF IndInv, ListsInv
<1>11. AllocatedNodesOwned'
    BY <1>1, <1>3, <1>4, ZenonT(60) DEF IndInv, AllocatedNodesOwned, HasNodes, nodes
<1>12. AllocInv'
    BY <1>1, <1>2, <1>7, ZenonT(60) DEF IndInv, AllocInv, GotNodes, Unplaced, Launched
<1>13. ScdqInv'
    BY <1>1, <1>2, <1>5, <1>7, QueuesHoldSessions, ScdEvFields DEF IndInv, ScdqInv, ScdEvent, Launched
<1>14. RmqInv'
    BY <1>1, <1>2, <1>7, QueuesHoldSessions, ZenonT(60) DEF IndInv, RmqInv, RmEvent, Launched
<1>15. ScdInv'  BY <1>6 DEF ScdInv
<1>16. RmInv' /\ StepsInv'
    BY <1>1, <1>2, <1>7 DEF IndInv, RmInv, StepsInv, Launched, TypeOK, Step
<1> QED  BY <1>9, <1>10, <1>11, <1>12, <1>13, <1>14, <1>15, <1>16 DEF IndInv

(***************************************************************************)
(* pmf_cancel removes a queued session or asks for a running one's death.  *)
(***************************************************************************)
LEMMA CancelStep ==
    ASSUME IndInv, pmf_cancel
    PROVE  IndInv'
<1> DEFINE s == Head(scdq).id
           q == Tail(scdq)
           queued == s \in ToSet(hold) \cup ToSet(default)
<1>1. /\ s \in SessionId /\ q \in Seq(ScdEvent) /\ UniqueIn(q, OnceScd)
      /\ ToSet(q) \subseteq ToSet(scdq) /\ scd.pc = "idle"
    BY ScdTake DEF pmf_cancel, ScdTakes, ScdEvent
<1>2. /\ rmq' = IF s \in ToSet(running) THEN Append(rmq, RmEv("KILL", s)) ELSE rmq
      /\ hold' \in Without(hold, s) /\ default' \in Without(default, s)
      /\ scdq' = IF queued THEN Append(q, ScdEv("SCHEDULE", s, <<>>)) ELSE q
      /\ phase' = IF queued THEN [phase EXCEPT ![s] = "cancelled"] ELSE phase
      /\ UNCHANGED <<up, last_session_id, alloc, running, nodes, tracking, scd, rm, steps, launches, cancels>>
    BY WalksEnd DEF pmf_cancel, PostKill
<1> HIDE DEF s, q
<1>3. /\ hold' \in Seq(SessionId) /\ UniqueIn(hold', SessionId)
      /\ ToSet(hold') = ToSet(hold) \ {s}
    BY <1>2, WithoutFacts DEF IndInv, TypeOK, ListsInv
<1>4. /\ default' \in Seq(SessionId) /\ UniqueIn(default', SessionId)
      /\ ToSet(default') = ToSet(default) \ {s}
    BY <1>2, WithoutFacts DEF IndInv, TypeOK, ListsInv
<1>5. /\ scdq' \in Seq(ScdEvent) /\ UniqueIn(scdq', OnceScd)
      /\ ToSet(scdq') \subseteq ToSet(q) \cup {ScdEv("SCHEDULE", s, <<>>)}
  <2>1. CASE queued
    <3>1. scdq' = Append(q, ScdEv("SCHEDULE", s, <<>>))  BY <1>2, <2>1
    <3> QED  BY <1>1, <3>1, ScdPostSchedule
  <2>2. CASE ~queued
    <3>1. scdq' = q  BY <1>2, <2>2
    <3> QED  BY <1>1, <3>1
  <2> QED  BY <2>1, <2>2
<1>6. /\ rmq' \in Seq(RmEvent) /\ UniqueIn(rmq', OnceRm)
      /\ ToSet(rmq') \subseteq ToSet(rmq) \cup {RmEv("KILL", s)}
      /\ s \notin ToSet(running) => ToSet(rmq') = ToSet(rmq)
  <2>1. rmq \in Seq(RmEvent) /\ UniqueIn(rmq, OnceRm)  BY DEF IndInv, TypeOK, RmqInv
  <2>2. CASE s \in ToSet(running)  BY <1>1, <1>2, <2>1, <2>2, RmPostPlain
  <2>3. CASE s \notin ToSet(running)  BY <1>2, <2>1, <2>3
  <2> QED  BY <2>2, <2>3
<1>7. /\ queued => phase[s] \in {"hold", "default"} /\ s \notin ToSet(running)
      /\ s \in ToSet(running) => phase[s] = "running"
    BY DEF IndInv, ListsInv
<1>8. /\ phase' \in [SessionId -> Phase]
      /\ \A t \in SessionId : t # s => phase'[t] = phase[t]
      /\ phase'[s] = IF queued THEN "cancelled" ELSE phase[s]
    BY <1>1, <1>2 DEF IndInv, TypeOK, Phase
<1> HIDE DEF queued
<1>9. TypeOK'  BY <1>2, <1>3, <1>4, <1>5, <1>6, <1>8 DEF IndInv, TypeOK, nodes
<1>10. ListsInv'
  <2>1. \A t \in SessionId : t > last_session_id => phase'[t] = "none"
      BY <1>1, <1>7, <1>8 DEF IndInv, ListsInv
  <2>2. \A t \in ToSet(running) : phase'[t] = "running"
      BY <1>1, <1>7, <1>8, QueuesHoldSessions DEF IndInv, ListsInv
  <2> QED  BY <1>2, <1>3, <1>4, <1>8, <2>1, <2>2, QueuesHoldSessions DEF IndInv, ListsInv
<1>11. AllocatedNodesOwned'  BY <1>2 DEF IndInv, AllocatedNodesOwned, HasNodes, nodes
<1>12. AllocInv'
    BY <1>1, <1>2, <1>7, <1>8 DEF IndInv, AllocInv, GotNodes, Unplaced, Launched
<1>13. ScdqInv'
    BY <1>1, <1>2, <1>5, <1>7, <1>8, QueuesHoldSessions, ScdEvFields DEF IndInv, ScdqInv, ScdEvent, Launched
<1>14. RmqInv'
    BY <1>1, <1>2, <1>6, <1>7, <1>8, QueuesHoldSessions, RmEvFields DEF IndInv, RmqInv, RmEvent, Launched
<1>15. ScdInv'  BY <1>1, <1>2, ZenonT(60) DEF ScdInv
<1>16. RmInv' /\ StepsInv'
    BY <1>1, <1>2, <1>7, <1>8, ZenonT(60) DEF IndInv, RmInv, StepsInv, Launched, TypeOK, Step
<1> QED  BY <1>9, <1>10, <1>11, <1>12, <1>13, <1>14, <1>15, <1>16 DEF IndInv

(***************************************************************************)
(* No search of the running queue goes on for ever.                        *)
(***************************************************************************)
LEMMA WalkForeverStep ==
    ASSUME IndInv, WalkForever
    PROVE  IndInv'
BY WalksEnd DEF WalkForever

=============================================================================
