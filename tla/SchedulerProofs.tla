-------------------------- MODULE SchedulerProofs ---------------------------
(***************************************************************************)
(* Proofs about Scheduler, for any number of nodes and sessions: the orte  *)
(* thread preserves the inductive invariant, and the theorems.             *)
(***************************************************************************)
EXTENDS SchedulerScdProofs

(***************************************************************************)
(* Clients leave the node list to the resource manager: no request carries *)
(* a node regex of its own.                                                *)
(***************************************************************************)
NoGivenNodes == \A r \in Requests : r.nodes = NULL

(***************************************************************************)
(* No node's name starts with a number, so that every regex                *)
(* orte_regex_create makes can be read back.                               *)
(***************************************************************************)
NoDigitNames == \A n \in Node : NameKind[n] # "digits"

(***************************************************************************)
(* The resource manager looks for nodes.                                   *)
(***************************************************************************)
LEMMA RmRequestStep ==
    ASSUME IndInv, scd_base_rm_request
    PROVE  IndInv'
<1> DEFINE s == Head(rmq).id
           q == Tail(rmq)
<1>1. /\ s \in SessionId /\ phase[s] = "req" /\ q \in Seq(RmEvent)
      /\ ToSet(q) \subseteq ToSet(rmq) /\ UniqueIn(q, OnceRm)
      /\ \A d \in ToSet(q) : d.state = "REQ" => d.id # s
      /\ rm.pc = "idle"
    BY RmTake DEF scd_base_rm_request, RmTakes, RmEvent, IndInv, RmqInv
<1>2. /\ \/ /\ alloc[s].min_nodes > 0 /\ phase' = [phase EXCEPT ![s] = "scan"]
            /\ rm' = RmLoop("scan", s)
         \/ rm' = rm /\ phase' = [phase EXCEPT ![s] = "dropped"]
      /\ rmq' = q
      /\ UNCHANGED <<up, last_session_id, alloc, queues, nodes, tracking, scdq, scd, steps, launches, cancels>>
    BY DEF scd_base_rm_request
<1> HIDE DEF s, q
<1>3. s \notin ToSet(running) /\ s \notin ToSet(hold) /\ s \notin ToSet(default)
    BY <1>1 DEF IndInv, ListsInv
<1>4. /\ phase' \in [SessionId -> Phase] /\ phase'[s] \in {"scan", "dropped"}
      /\ phase'[s] = "scan" => alloc[s].min_nodes > 0
      /\ \A t \in SessionId : t # s => phase'[t] = phase[t]
    BY <1>1, <1>2, ZenonT(60) DEF IndInv, TypeOK, Phase
<1>5. /\ rm' \in RmLocals /\ rm'.pc \in {"idle", "scan"}
      /\ rm'.pc = "scan" => rm'.id = s /\ rm'.i = 1 /\ phase'[s] = "scan"
  <2>1. CASE rm' = rm  BY <1>1, <2>1 DEF IndInv, TypeOK
  <2>2. CASE /\ rm' = RmLoop("scan", s)
             /\ phase' = [phase EXCEPT ![s] = "scan"]
    <3>1. s \in 0..MaxSessions  BY <1>1, ConstantsAssumption DEF SessionId
    <3>2. phase'[s] = "scan"  BY <1>1, <2>2 DEF IndInv, TypeOK
    <3> QED  BY <2>2, <3>1, <3>2, RmLoopFacts
  <2> QED  BY <1>2, <2>1, <2>2
<1>6. TypeOK'  BY <1>1, <1>2, <1>4, <1>5 DEF IndInv, TypeOK, nodes, queues
<1>7. ListsInv'
    BY <1>1, <1>2, <1>3, <1>4, QueuesHoldSessions DEF IndInv, ListsInv, TypeOK, queues
<1>8. AllocatedNodesOwned'  BY <1>2 DEF IndInv, AllocatedNodesOwned, HasNodes, nodes, queues
<1>9. AllocInv'
    BY <1>1, <1>2, <1>4 DEF IndInv, AllocInv, GotNodes, Unplaced, Launched
<1>10. ScdqInv'
    BY <1>1, <1>2, <1>4, QueuesHoldSessions DEF IndInv, ScdqInv, ScdEvent, Launched
<1>11. RmqInv'
    BY <1>1, <1>2, <1>4, QueuesHoldSessions DEF IndInv, RmqInv, RmEvent, Launched
<1>12. ScdInv'  BY <1>1, <1>2, <1>4 DEF IndInv, ScdInv, Launched, nodes, queues
<1>13. RmInv'  BY <1>1, <1>5, ConstantsAssumption DEF RmInv, Node
<1>14. StepsInv'  BY <1>1, <1>2, <1>4, ZenonT(60) DEF IndInv, StepsInv, Launched, TypeOK, Step
<1> QED  BY <1>6, <1>7, <1>8, <1>9, <1>10, <1>11, <1>12, <1>13, <1>14 DEF IndInv

(***************************************************************************)
(* The node regex keeps the number of names, whatever it does to a name.   *)
(***************************************************************************)
LEMMA RegexNames ==
    ASSUME NoDigitNames, NEW found \in Seq(Node)
    PROVE  /\ orte_regex_create(found) \in Seq(Name)
           /\ Len(orte_regex_create(found)) = Len(found)
<1>1. Len(found) \in Nat /\ \A i \in 1..Len(found) : found[i] \in Node /\ found[i] \in Name
    BY ConstantsAssumption DEF Node, Name
<1>2. CASE Len(found) <= 1
  <2>1. found \in Seq(Name)  BY <1>1
  <2> QED  BY <1>2, <2>1 DEF orte_regex_create
<1>3. CASE ~(Len(found) <= 1)
  <2> DEFINE name(i) == IF NameKind[found[i]] = "fields" THEN NoNode ELSE found[i]
             r == [i \in 1..Len(found) |-> name(i)]
  <2>1. ~\E i \in DOMAIN found : NameKind[found[i]] = "digits"  BY <1>1 DEF NoDigitNames
  <2>2. orte_regex_create(found) = r  BY <1>3, <2>1 DEF orte_regex_create
  <2>3. \A i \in 1..Len(found) : name(i) \in Name
      BY <1>1, ConstantsAssumption DEF Name, NoNode
  <2> HIDE DEF name
  <2>4. r \in [1..Len(found) -> Name]  BY <2>3
  <2>5. r \in Seq(Name) /\ Len(r) = Len(found)  BY <1>1, <2>4
  <2> QED  BY <2>2, <2>5
<1> QED  BY <1>2, <1>3

LEMMA RmScanStep ==
    ASSUME IndInv, NoDigitNames, scd_base_rm_scan
    PROVE  IndInv'
<1> DEFINE s == rm.id
           found == IF Free(rm.i) THEN Append(rm.nodes, rm.i) ELSE rm.nodes
           enough == Len(found) = alloc[s].min_nodes
           list == orte_regex_create(found)
<1>1. /\ rm.pc = "scan" /\ rm \in RmLocals /\ rm.nodes \in Seq(Node)
      /\ s \in SessionId /\ phase[s] = "scan" /\ rm.i \in Node
    BY DEF scd_base_rm_scan, IndInv, RmInv, TypeOK, RmLocals
<1>2. found \in Seq(Node)  BY <1>1
<1>3. alloc[s].nodes = NULL /\ alloc[s].min_nodes > 0
    BY <1>1 DEF IndInv, AllocInv, Unplaced
<1>4. UNCHANGED <<up, last_session_id, queues, nodes, tracking, rmq, scd, steps, launches, cancels>>
    BY DEF scd_base_rm_scan
<1>5. CASE ~(enough \/ rm.i = NumNodes)
  <2>1. rm' = [rm EXCEPT !.i = rm.i + 1, !.nodes = found] /\ UNCHANGED <<alloc, scdq, phase>>
      BY <1>5 DEF scd_base_rm_scan
  <2>2. rm.i + 1 \in Node /\ rm.i + 1 \in Nat  BY <1>1, <1>5, ConstantsAssumption DEF Node
  <2> HIDE DEF found
  <2>3. rm' \in RmLocals /\ rm'.pc = "scan" /\ rm'.id = s /\ rm'.i \in Node
      BY <1>1, <1>2, <2>1, <2>2, Zenon DEF RmLocals
  <2>4. TypeOK' /\ ListsInv'  BY <1>4, <2>1, <2>3 DEF IndInv, TypeOK, ListsInv, nodes, queues
  <2>5. AllocatedNodesOwned' /\ AllocInv'
      BY <1>4, <2>1 DEF IndInv, AllocatedNodesOwned, AllocInv, HasNodes, GotNodes, nodes, queues
  <2>6. ScdqInv' /\ RmqInv' /\ StepsInv'  BY <1>4, <2>1 DEF IndInv, ScdqInv, RmqInv, StepsInv
  <2>7. ScdInv'  BY <1>4, <2>1 DEF IndInv, ScdInv, nodes, queues
  <2>8. RmInv'  BY <1>1, <2>1, <2>3 DEF RmInv
  <2> QED  BY <2>4, <2>5, <2>6, <2>7, <2>8 DEF IndInv
<1>6. CASE enough \/ rm.i = NumNodes
  <2>1. /\ alloc' = IF enough THEN [alloc EXCEPT ![s].nodes = list] ELSE alloc
        /\ scdq' = Append(scdq, ScdEv("ALLOCD", s, <<>>))
        /\ phase' = [phase EXCEPT ![s] = "allocd"]
        /\ rm' = RmIdle
      BY <1>6 DEF scd_base_rm_scan, PostAllocd
  <2>2. rm' \in RmLocals /\ rm'.pc = "idle"  BY <2>1, IdleFacts
  <2>3. /\ alloc' \in [SessionId -> Alloc]
        /\ \A t \in SessionId : t # s => alloc'[t] = alloc[t]
        /\ alloc'[s].min_nodes = alloc[s].min_nodes
        /\ \/ alloc'[s].nodes = NULL
           \/ alloc'[s].nodes \in Seq(Name) /\ Len(alloc'[s].nodes) = alloc'[s].min_nodes
    <3>1. alloc \in [SessionId -> Alloc]  BY DEF IndInv, TypeOK
    <3>2. CASE ~enough
      <4>1. alloc' = alloc  BY <2>1, <3>2
      <4> HIDE DEF enough, found, list, s
      <4> QED  BY <1>1, <1>3, <3>1, <4>1
    <3>3. CASE enough
      <4> DEFINE new == [alloc[s] EXCEPT !.nodes = list]
      <4>1. alloc[s] \in Alloc  BY <1>1, <3>1
      <4>2. alloc' = [alloc EXCEPT ![s] = new]  BY <2>1, <3>3
      <4>3. list \in Seq(Name) /\ Len(list) = alloc[s].min_nodes  BY <1>2, <3>3, RegexNames
      <4>4. list \in NodeList  BY <4>3 DEF NodeList
      <4>5. new \in Alloc /\ new.min_nodes = alloc[s].min_nodes /\ new.nodes = list
        <5> HIDE DEF list
        <5> QED  BY <4>1, <4>4 DEF Alloc
      <4> HIDE DEF new, list, found
      <4>6. alloc'[s] = new  BY <1>1, <3>1, <4>2
      <4> QED  BY <1>1, <3>1, <4>2, <4>3, <4>5, <4>6
    <3> QED  BY <3>2, <3>3
  <2> HIDE DEF s, found, list
  <2>4. /\ phase' \in [SessionId -> Phase] /\ phase'[s] = "allocd"
        /\ \A t \in SessionId : t # s => phase'[t] = phase[t]
      BY <1>1, <2>1 DEF IndInv, TypeOK, Phase
  <2>5. \A d \in ToSet(scdq) : ~(d.state = "ALLOCD" /\ d.id = s)
      BY <1>1 DEF IndInv, ScdqInv
  <2>6. /\ scdq' \in Seq(ScdEvent) /\ UniqueIn(scdq', OnceScd)
        /\ ToSet(scdq') = ToSet(scdq) \cup {ScdEv("ALLOCD", s, <<>>)}
    <3>1. <<>> \in Seq(Name)  OBVIOUS
    <3>2. scdq \in Seq(ScdEvent) /\ UniqueIn(scdq, OnceScd)  BY DEF IndInv, TypeOK, ScdqInv
    <3> QED  BY <1>1, <2>1, <2>5, <3>1, <3>2, ScdPostOnce
  <2>7. s \notin ToSet(running) /\ s \notin ToSet(hold) /\ s \notin ToSet(default)
      BY <1>1 DEF IndInv, ListsInv
  <2>8. TypeOK'  BY <1>4, <2>2, <2>3, <2>4, <2>6 DEF IndInv, TypeOK, nodes, queues
  <2>9. ListsInv'
      BY <1>1, <1>4, <2>4, <2>7, QueuesHoldSessions DEF IndInv, ListsInv, queues
  <2>10. AllocatedNodesOwned'
      BY <1>4, <2>3, <2>7, QueuesHoldSessions DEF IndInv, AllocatedNodesOwned, HasNodes, nodes, queues
  <2>11. AllocInv'
      BY <1>1, <1>3, <1>4, <2>3, <2>4 DEF IndInv, AllocInv, GotNodes, Unplaced, Launched
  <2>12. ScdqInv'
    <3>1. ASSUME NEW e \in ToSet(scdq)
          PROVE  /\ e.state = "INIT" => phase'[e.id] = "init" /\ e.nodes = <<>>
                 /\ e.state = "ALLOCD" => phase'[e.id] = "allocd" /\ e.nodes = <<>>
                 /\ e.state = "TERMINATED" => phase'[e.id] \in Launched /\ e.nodes = alloc'[e.id].nodes
        BY <1>1, <2>3, <2>4, QueuesHoldSessions DEF IndInv, ScdqInv, ScdEvent, Launched
    <3>2. LET e == ScdEv("ALLOCD", s, <<>>) IN e.state = "ALLOCD" /\ e.id = s /\ e.nodes = <<>>
        BY DEF ScdEv
    <3> QED  BY <2>4, <2>6, <3>1, <3>2 DEF ScdqInv
  <2>13. RmqInv'
      BY <1>1, <1>4, <2>4, QueuesHoldSessions, ZenonT(60) DEF IndInv, RmqInv, RmEvent, Launched
  <2>14. ScdInv'
      BY <1>1, <1>4, <2>3, <2>4, <2>7, QueuesHoldSessions, ZenonT(60) DEF IndInv, ScdInv, Launched, nodes, queues
  <2>15. RmInv'  BY <2>2 DEF RmInv
  <2>16. StepsInv'
      BY <1>1, <1>4, <2>3, <2>4, ZenonT(60) DEF IndInv, StepsInv, Launched, TypeOK, Step
  <2> QED  BY <2>8, <2>9, <2>10, <2>11, <2>12, <2>13, <2>14, <2>15, <2>16 DEF IndInv
<1> QED  BY <1>5, <1>6

(***************************************************************************)
(* The resource manager launches and kills steps.                          *)
(***************************************************************************)
LEMMA NamesFacts ==
    ASSUME IndInv, up, NEW s \in SessionId, phase[s] \in Launched
    PROVE  /\ alloc[s].nodes \notin {NULL, BAD} /\ Names(s) = alloc[s].nodes
           /\ Names(s) \in Seq(Name) /\ Len(Names(s)) = alloc[s].min_nodes
<1>1. GotNodes(s)  BY DEF IndInv, AllocInv
<1>2. alloc[s].nodes \notin {NULL, ERROR, BAD}
    BY <1>1, StringsAssumption, Zenon DEF GotNodes, Name
<1>3. Names(s) = alloc[s].nodes  BY <1>2 DEF Names, orte_regex_extract_node_names
<1> QED  BY <1>1, <1>2, <1>3 DEF GotNodes

LEMMA RmActiveStep ==
    ASSUME IndInv, scd_base_rm_active
    PROVE  IndInv'
<1> DEFINE s == Head(rmq).id
           q == Tail(rmq)
           nl == Names(s)
           step(i) == [id |-> s, launch |-> launches, at |-> i, nodes |-> nl, killed |-> FALSE]
<1>1. /\ s \in SessionId /\ phase[s] \in Launched /\ q \in Seq(RmEvent)
      /\ ToSet(q) \subseteq ToSet(rmq) /\ UniqueIn(q, OnceRm) /\ up
    BY RmTake, ZenonT(60) DEF scd_base_rm_active, RmTakes, RmEvent, IndInv, RmqInv
<1>2. /\ alloc[s].nodes \notin {NULL, BAD} /\ nl = alloc[s].nodes
      /\ nl \in Seq(Name) /\ Len(nl) = alloc[s].min_nodes
    BY <1>1, NamesFacts
<1>3. /\ rmq' = q
      /\ UNCHANGED <<last_session_id, alloc, queues, nodes, scdq, scd, rm, cancels, phase>>
    BY DEF scd_base_rm_active
<1>4. PICK m \in Through(s) :
        /\ tracking' = Append(tracking, [alloc_id |-> s, count_checked_in |-> 0])
        /\ steps' = steps \cup orcmd_recv({step(i) : i \in {j \in 1..m : nl[j] # NoNode}})
        /\ launches' = launches + 1
        /\ up' = ~PastTheEnd(s, m)
    BY <1>2, Zenon DEF scd_base_rm_active
<1>5. up' = TRUE
  <2>1. ~PastTheEnd(s, m)  BY <1>2 DEF PastTheEnd
  <2> QED  BY <1>4, <2>1, Zenon
<1>6. ASSUME NEW st \in steps', st \notin steps
      PROVE  st \in Step /\ st.id = s /\ st.nodes = alloc[s].nodes
  <2> HIDE DEF s, q, nl, step
  <2>1. PICK i \in 1..m : st = step(i)  BY <1>4, <1>6 DEF orcmd_recv
  <2>2. launches \in Nat /\ i \in Nat  BY DEF IndInv, TypeOK
  <2>3. ASSUME NEW l \in Nat, NEW k \in Nat, NEW ns \in Seq(Name)
        PROVE  LET r == [id |-> s, launch |-> l, at |-> k, nodes |-> ns, killed |-> FALSE] IN
               r \in Step /\ r.id = s /\ r.nodes = ns
      BY <1>1 DEF Step
  <2> QED  BY <1>2, <2>1, <2>2, <2>3 DEF step
<1>7. tracking' \in Seq(Tracker)
  <2>1. tracking \in Seq(Tracker)  BY DEF IndInv, TypeOK
  <2>2. [alloc_id |-> s, count_checked_in |-> 0] \in Tracker  BY <1>1 DEF Tracker
  <2> QED  BY <1>4, <2>1, <2>2, AppendFacts
<1>8. launches' \in Nat /\ steps' \subseteq Step
  <2>1. launches \in Nat /\ steps \subseteq Step  BY DEF IndInv, TypeOK
  <2>2. launches' = launches + 1  BY <1>4
  <2>3. \A st \in steps' : st \in Step  BY <1>6, <2>1, Zenon
  <2> QED  BY <2>1, <2>2, <2>3
<1> HIDE DEF s, q, nl, step
<1>9. TypeOK'  BY <1>1, <1>3, <1>5, <1>7, <1>8, ZenonT(60) DEF IndInv, TypeOK, nodes, queues
<1>10. ListsInv' /\ AllocatedNodesOwned'
    BY <1>3 DEF IndInv, ListsInv, AllocatedNodesOwned, HasNodes, nodes, queues
<1>11. AllocInv'  BY <1>1, <1>3 DEF IndInv, AllocInv, GotNodes
<1>12. ScdqInv' /\ RmqInv'  BY <1>1, <1>3 DEF IndInv, ScdqInv, RmqInv
<1>13. ScdInv' /\ RmInv'  BY <1>3, ZenonT(60) DEF IndInv, ScdInv, RmInv, nodes, queues
<1>14. StepsInv'  BY <1>1, <1>3, <1>6 DEF IndInv, StepsInv
<1> QED  BY <1>9, <1>10, <1>11, <1>12, <1>13, <1>14 DEF IndInv

LEMMA RmKillStep ==
    ASSUME IndInv, scd_base_rm_kill
    PROVE  IndInv'
<1> DEFINE s == Head(rmq).id
           q == Tail(rmq)
           hit(m, st) == st.id = s /\ \E i \in 1..m : Names(s)[i] = st.nodes[st.at]
<1>1. /\ s \in SessionId /\ phase[s] \in Launched /\ q \in Seq(RmEvent)
      /\ ToSet(q) \subseteq ToSet(rmq) /\ UniqueIn(q, OnceRm) /\ up
    BY RmTake, ZenonT(60) DEF scd_base_rm_kill, RmTakes, RmEvent, IndInv, RmqInv
<1>2. alloc[s].nodes \notin {NULL, BAD} /\ Len(Names(s)) = alloc[s].min_nodes
    BY <1>1, NamesFacts
<1>3. /\ rmq' = q
      /\ UNCHANGED <<last_session_id, alloc, queues, nodes, tracking, scdq, scd, rm, launches, cancels, phase>>
    BY DEF scd_base_rm_kill
<1>4. PICK m \in Through(s) :
        /\ steps' = {IF hit(m, st) THEN [st EXCEPT !.killed = TRUE] ELSE st : st \in steps}
        /\ up' = ~PastTheEnd(s, m)
    BY <1>2, Zenon DEF scd_base_rm_kill
<1>5. up' = TRUE
  <2>1. ~PastTheEnd(s, m)  BY <1>2 DEF PastTheEnd
  <2> QED  BY <1>4, <2>1, Zenon
<1> HIDE DEF s, q, hit
<1>6. ASSUME NEW st \in Step
      PROVE  /\ [st EXCEPT !.killed = TRUE] \in Step
             /\ [st EXCEPT !.killed = TRUE].id = st.id
             /\ [st EXCEPT !.killed = TRUE].nodes = st.nodes
    BY Zenon DEF Step
<1>7. ASSUME NEW st \in steps'
      PROVE  st \in Step /\ \E old \in steps : st.id = old.id /\ st.nodes = old.nodes
  <2>1. PICK old \in steps : st = IF hit(m, old) THEN [old EXCEPT !.killed = TRUE] ELSE old
      BY <1>4, <1>7, Zenon
  <2>2. old \in Step  BY DEF IndInv, TypeOK
  <2>3. st = [old EXCEPT !.killed = TRUE] \/ st = old  BY <2>1, Zenon
  <2> QED  BY <1>6, <2>2, <2>3, Zenon
<1>8. TypeOK'  BY <1>1, <1>3, <1>5, <1>7 DEF IndInv, TypeOK, nodes, queues
<1>9. ListsInv' /\ AllocatedNodesOwned'
    BY <1>3 DEF IndInv, ListsInv, AllocatedNodesOwned, HasNodes, nodes, queues
<1>10. AllocInv'  BY <1>1, <1>3 DEF IndInv, AllocInv, GotNodes
<1>11. ScdqInv' /\ RmqInv'  BY <1>1, <1>3 DEF IndInv, ScdqInv, RmqInv
<1>12. ScdInv' /\ RmInv'  BY <1>3 DEF IndInv, ScdInv, RmInv, nodes, queues
<1>13. StepsInv'  BY <1>3, <1>7 DEF IndInv, StepsInv
<1> QED  BY <1>8, <1>9, <1>10, <1>11, <1>12, <1>13 DEF IndInv

(***************************************************************************)
(* The session report only moves the orte thread's own counters; led       *)
(* astray, it ends the process at worst.                                   *)
(***************************************************************************)
LEMMA NextQueueFacts ==
    ASSUME IndInv, rm.pc \in {"info", "walk", "pack"}
    PROVE  /\ NextQueue \in RmLocals /\ NextQueue.pc \in {"idle", "info"}
           /\ NextQueue.pc = "info" => NextQueue.i \in 1..3
<1>1. rm.i \in 1..3  BY DEF IndInv, RmInv
<1>2. CASE rm.i = 3  BY <1>2, IdleFacts DEF NextQueue
<1>3. CASE rm.i # 3
  <2> DEFINE i == rm.i + 1
             r == RmLoop("info", 0)
  <2>1. i \in Nat /\ i \in 1..3  BY <1>1, <1>3
  <2>2. r \in RmLocals /\ r.pc = "info"  BY RmLoopFacts, ConstantsAssumption
  <2>3. NextQueue = [r EXCEPT !.i = i]  BY <1>3 DEF NextQueue
  <2> HIDE DEF i, r
  <2> QED  BY <2>1, <2>2, <2>3, Zenon DEF RmLocals
<1> QED  BY <1>2, <1>3

LEMMA FollowingFacts ==
    ASSUME IndInv, rm.pc = "walk"
    PROVE  Following \subseteq 0..MaxSessions
<1> DEFINE q == QueueAt(rm.i)
           at(k) == IF k \in DOMAIN q THEN q[k] ELSE 0
<1>1. q \in Seq(SessionId)  BY DEF QueueAt, IndInv, RmInv, TypeOK
<1>2. last_session_id \in 0..MaxSessions  BY DEF IndInv, TypeOK
<1>3. \A k : at(k) \in 0..MaxSessions
  <2> HIDE DEF q
  <2>1. \A k \in DOMAIN q : q[k] \in SessionId  BY <1>1
  <2>2. 0 \in 0..MaxSessions /\ SessionId \subseteq 0..MaxSessions  BY ConstantsAssumption DEF SessionId
  <2> QED  BY <2>1, <2>2, Zenon
<1>4. 0..last_session_id \subseteq 0..MaxSessions  BY <1>2, ConstantsAssumption
<1>5. Following = IF Astray THEN 0..last_session_id
                  ELSE IF rm.id = 0 THEN {at(1)}
                  ELSE {at(k + 1) : k \in {j \in DOMAIN q : q[j] = rm.id}}
    BY Zenon DEF Following
<1> HIDE DEF q, at
<1> QED  BY <1>3, <1>4, <1>5, Zenon

LEMMA InfoStep ==
    ASSUME IndInv, RecvSessionInfo \/ CountSessions \/ WalkQueue \/ PackSessions
    PROVE  IndInv'
<1>1. /\ up /\ up' \in BOOLEAN
      /\ UNCHANGED <<last_session_id, alloc, queues, nodes, tracking, scdq, scd, rmq, steps, launches, cancels, phase>>
  <2>1. CASE RecvSessionInfo  BY <2>1 DEF RecvSessionInfo, Receives
  <2>2. CASE CountSessions  BY <2>2 DEF CountSessions
  <2>3. CASE PackSessions  BY <2>3 DEF PackSessions
  <2>4. CASE WalkQueue
    <3>1. \A b : (IF b THEN BOOLEAN ELSE {TRUE}) \subseteq BOOLEAN  BY Zenon
    <3>2. up' \in BOOLEAN  BY <2>4, <3>1, Zenon DEF WalkQueue
    <3> QED  BY <2>4, <3>2, Zenon DEF WalkQueue
  <2> QED  BY <2>1, <2>2, <2>3, <2>4
<1>2. rm \in RmLocals /\ (rm.pc \in {"info", "walk", "pack"} => rm.i \in 1..3)
    BY DEF IndInv, TypeOK, RmInv
<1>3. /\ rm' \in RmLocals /\ rm'.pc # "scan"
      /\ rm'.pc \in {"info", "walk", "pack"} => rm'.i \in 1..3
  <2>1. CASE RecvSessionInfo
    <3>1. rm' = RmLoop("info", 0)  BY <2>1 DEF RecvSessionInfo
    <3>2. 0 \in 0..MaxSessions  BY ConstantsAssumption
    <3> QED  BY <3>1, <3>2, RmLoopFacts
  <2>2. CASE CountSessions
    <3> DEFINE c == Len(QueueAt(rm.i))
    <3>1. rm.pc = "info" /\ (rm' = [rm EXCEPT !.pc = "walk", !.cnt = c] \/ rm' = NextQueue)
        BY <2>2 DEF CountSessions
    <3>2. c \in Nat  BY <1>2, <3>1 DEF QueueAt, IndInv, TypeOK
    <3> HIDE DEF c
    <3>3. CASE rm' = [rm EXCEPT !.pc = "walk", !.cnt = c]
        BY <1>2, <3>1, <3>2, <3>3, Zenon DEF RmLocals
    <3>4. CASE rm' = NextQueue  BY <3>1, <3>4, NextQueueFacts
    <3> QED  BY <3>1, <3>3, <3>4
  <2>3. CASE WalkQueue
    <3>1. rm.pc = "walk"  BY <2>3 DEF WalkQueue
    <3>2. PICK s \in Following :
            rm' = IF s = 0 THEN [rm EXCEPT !.pc = "pack"]
                  ELSE [rm EXCEPT !.id = s, !.packed = IF rm.packed > rm.cnt THEN rm.packed ELSE rm.packed + 1]
        BY <2>3, Zenon DEF WalkQueue
    <3> DEFINE p == IF rm.packed > rm.cnt THEN rm.packed ELSE rm.packed + 1
    <3>3. p \in Nat /\ s \in 0..MaxSessions  BY <1>2, <3>1, FollowingFacts DEF RmLocals
    <3>4. rm' = [rm EXCEPT !.pc = "pack"] \/ rm' = [rm EXCEPT !.id = s, !.packed = p]
        BY <3>2
    <3> HIDE DEF p
    <3>5. CASE rm' = [rm EXCEPT !.pc = "pack"]  BY <1>2, <3>1, <3>5, Zenon DEF RmLocals
    <3>6. CASE rm' = [rm EXCEPT !.id = s, !.packed = p]
        BY <1>2, <3>1, <3>3, <3>6, Zenon DEF RmLocals
    <3> QED  BY <3>4, <3>5, <3>6
  <2>4. CASE PackSessions  BY <2>4, NextQueueFacts DEF PackSessions
  <2> QED  BY <2>1, <2>2, <2>3, <2>4
<1>4. TypeOK' /\ ListsInv'  BY <1>1, <1>3 DEF IndInv, TypeOK, ListsInv, nodes, queues
<1>5. AllocatedNodesOwned' /\ AllocInv'
    BY <1>1 DEF IndInv, AllocatedNodesOwned, AllocInv, HasNodes, GotNodes, nodes, queues
<1>6. ScdqInv' /\ RmqInv' /\ StepsInv'  BY <1>1 DEF IndInv, ScdqInv, RmqInv, StepsInv
<1>7. ScdInv'  BY <1>1 DEF IndInv, ScdInv, nodes, queues
<1>8. RmInv'  BY <1>1, <1>3 DEF RmInv
<1> QED  BY <1>4, <1>5, <1>6, <1>7, <1>8 DEF IndInv

(***************************************************************************)
(* A report about nodes changes their states; it never allocates one.      *)
(***************************************************************************)
LEMMA NodestateStep ==
    ASSUME IndInv, NEW M,
           \/ \E new \in {"UP", "DOWN"} : UpdateNodestateByproc(new, M)
           \/ \E req \in {"DRAIN", "RESUME"} : UpdateNodestateByname(req, M)
    PROVE  IndInv'
<1>1. UNCHANGED <<up, last_session_id, alloc, queues, tracking, scdq, rmq, scd, rm, steps, launches, cancels, phase>>
    BY DEF UpdateNodestateByproc, UpdateNodestateByname
<1>2. /\ state' \in [Node -> NodeState] /\ scd_state' \in [Node -> ScdNodeState]
      /\ \A m \in Node : scd_state'[m] = "ALLOC" => scd_state[m] = "ALLOC"
    BY DEF IndInv, TypeOK, UpdateNodestateByproc, UpdateNodestateByname, NewState, NodeState, ScdNodeState
<1>3. TypeOK' /\ ListsInv'  BY <1>1, <1>2 DEF IndInv, TypeOK, ListsInv, queues
<1>4. AllocatedNodesOwned'  BY <1>1, <1>2, ZenonT(60) DEF IndInv, AllocatedNodesOwned, HasNodes, queues
<1>5. AllocInv' /\ ScdqInv'  BY <1>1 DEF IndInv, AllocInv, GotNodes, ScdqInv
<1>6. RmqInv' /\ RmInv' /\ StepsInv'  BY <1>1, ZenonT(60) DEF IndInv, RmqInv, RmInv, StepsInv
<1>7. ScdInv'
  <2>1. ASSUME scd.pc = "unmark", NEW j \in 1..Len(scd.nodes), j < scd.i, scd.nodes[j] # NoNode
        PROVE  scd_state'[scd.nodes[j]] # "ALLOC"
    <3>1. scd.nodes \in Seq(Name)  BY DEF IndInv, TypeOK, ScdLocals
    <3>2. scd.nodes[j] \in Node  BY <2>1, <3>1, NamedNodes
    <3> QED  BY <1>2, <2>1, <3>2, ZenonT(60) DEF IndInv, ScdInv
  <2> QED  BY <1>1, <2>1, ZenonT(60) DEF IndInv, ScdInv, queues
<1> QED  BY <1>3, <1>4, <1>5, <1>6, <1>7 DEF IndInv

(***************************************************************************)
(* A client submits a session, which has no node list yet.                 *)
(***************************************************************************)
LEMMA SessionReqStep ==
    ASSUME IndInv, NoGivenNodes, NEW r \in Requests, RecvSessionReq(r)
    PROVE  IndInv'
<1> DEFINE s == last_session_id + 1
<1>1. /\ last_session_id < MaxSessions /\ last_session_id' = s
      /\ alloc' = [alloc EXCEPT ![s] = r]
      /\ \/ /\ scdq' = Append(scdq, ScdEv("INIT", s, <<>>))
            /\ phase' = [phase EXCEPT ![s] = "init"]
         \/ scdq' = scdq /\ phase' = [phase EXCEPT ![s] = "dropped"]
      /\ UNCHANGED <<up, queues, nodes, tracking, rmq, scd, rm, steps, launches, cancels>>
    BY DEF RecvSessionReq
<1>2. s \in SessionId /\ s \in 0..MaxSessions /\ s > last_session_id /\ last_session_id \in Nat
    BY <1>1, ConstantsAssumption DEF IndInv, TypeOK, SessionId
<1>3. phase[s] = "none" /\ (\A t \in SessionId : t > s => phase[t] = "none")
    BY <1>2 DEF IndInv, ListsInv, SessionId
<1>4. r \in Alloc /\ r.nodes = NULL
    BY ConstantsAssumption DEF NoGivenNodes, Alloc, NodeList, Name
<1> HIDE DEF s
<1>5. /\ alloc' \in [SessionId -> Alloc] /\ alloc'[s].nodes = NULL
      /\ \A t \in SessionId : t # s => alloc'[t] = alloc[t]
    BY <1>1, <1>2, <1>4 DEF IndInv, TypeOK
<1>6. /\ phase' \in [SessionId -> Phase] /\ phase'[s] \in {"init", "dropped"}
      /\ \A t \in SessionId : t # s => phase'[t] = phase[t]
    BY <1>1, <1>2, ZenonT(60) DEF IndInv, TypeOK, Phase
<1>7. \A d \in ToSet(scdq) : ~(d.state = "INIT" /\ d.id = s)
    BY <1>3 DEF IndInv, ScdqInv
<1>8. /\ scdq' \in Seq(ScdEvent) /\ UniqueIn(scdq', OnceScd)
      /\ \/ scdq' = scdq
         \/ phase'[s] = "init" /\ ToSet(scdq') = ToSet(scdq) \cup {ScdEv("INIT", s, <<>>)}
  <2>1. scdq \in Seq(ScdEvent) /\ UniqueIn(scdq, OnceScd)  BY Zenon DEF IndInv, TypeOK, ScdqInv
  <2>2. CASE scdq' = scdq  BY <2>1, <2>2
  <2>3. CASE scdq' = Append(scdq, ScdEv("INIT", s, <<>>)) /\ phase' = [phase EXCEPT ![s] = "init"]
    <3>1. phase'[s] = "init"  BY <1>2, <2>3 DEF IndInv, TypeOK
    <3> QED  BY <1>2, <1>7, <2>1, <2>3, <3>1, ScdPostOnce
  <2> QED  BY <1>1, <2>2, <2>3
<1>9. s \notin ToSet(running) /\ s \notin ToSet(hold) /\ s \notin ToSet(default)
    BY <1>3 DEF IndInv, ListsInv
<1>10. TypeOK'  BY <1>1, <1>2, <1>5, <1>6, <1>8 DEF IndInv, TypeOK, nodes, queues
<1>11. ListsInv'
  <2>1. \A t \in SessionId : t > last_session_id' => phase'[t] = "none"
      BY <1>1, <1>2, <1>3, <1>6 DEF SessionId
  <2>2. /\ \A t \in ToSet(running) : phase'[t] = "running"
        /\ \A t \in ToSet(hold) : phase'[t] = "hold"
        /\ \A t \in ToSet(default) : phase'[t] = "default"
      BY <1>6, <1>9, QueuesHoldSessions DEF IndInv, ListsInv
  <2> QED  BY <1>1, <2>1, <2>2 DEF IndInv, ListsInv, queues
<1>12. AllocatedNodesOwned'
    BY <1>1, <1>5, <1>9, QueuesHoldSessions, ZenonT(60) DEF IndInv, AllocatedNodesOwned, HasNodes, nodes, queues
<1>13. AllocInv'
    BY <1>1, <1>5, <1>6 DEF IndInv, AllocInv, GotNodes, Unplaced, Launched
<1>14. ScdqInv'
  <2>1. ASSUME NEW e \in ToSet(scdq)
        PROVE  /\ e.state = "INIT" => phase'[e.id] = "init" /\ e.nodes = <<>>
               /\ e.state = "ALLOCD" => phase'[e.id] = "allocd" /\ e.nodes = <<>>
               /\ e.state = "TERMINATED" => phase'[e.id] \in Launched /\ e.nodes = alloc'[e.id].nodes
    <3>1. e.id \in SessionId  BY QueuesHoldSessions DEF ScdEvent
    <3>2. CASE e.id # s  BY <1>5, <1>6, <3>1, <3>2 DEF IndInv, ScdqInv
    <3>3. CASE e.id = s  BY <1>3, <3>3 DEF IndInv, ScdqInv, Launched
    <3> QED  BY <3>2, <3>3
  <2>2. LET e == ScdEv("INIT", s, <<>>) IN e.state = "INIT" /\ e.id = s /\ e.nodes = <<>>
      BY DEF ScdEv
  <2> QED  BY <1>8, <2>1, <2>2 DEF ScdqInv
<1>15. RmqInv'
    BY <1>1, <1>3, <1>6, QueuesHoldSessions DEF IndInv, RmqInv, RmEvent, Launched
<1>16. ScdInv'
    BY <1>1, <1>3, <1>5, <1>6, <1>9, QueuesHoldSessions, ZenonT(60) DEF IndInv, ScdInv, Launched, nodes, queues
<1>17. RmInv' /\ StepsInv'
    BY <1>1, <1>3, <1>5, <1>6 DEF IndInv, RmInv, StepsInv, Launched, TypeOK, Step
<1> QED  BY <1>10, <1>11, <1>12, <1>13, <1>14, <1>15, <1>16, <1>17 DEF IndInv

LEMMA SessionCancelStep ==
    ASSUME IndInv, NEW s \in SessionId, RecvSessionCancel(s)
    PROVE  IndInv'
<1>1. /\ scdq' = Append(scdq, ScdEv("CANCEL", s, <<>>)) /\ cancels' = [cancels EXCEPT ![s] = cancels[s] + 1]
      /\ cancels[s] < MaxCancels
      /\ UNCHANGED <<up, last_session_id, alloc, queues, nodes, tracking, rmq, scd, rm, steps, launches, phase>>
    BY DEF RecvSessionCancel
<1>2. /\ scdq' \in Seq(ScdEvent) /\ UniqueIn(scdq', OnceScd)
      /\ ToSet(scdq') = ToSet(scdq) \cup {ScdEv("CANCEL", s, <<>>)}
  <2>1. scdq \in Seq(ScdEvent) /\ UniqueIn(scdq, OnceScd)  BY DEF IndInv, TypeOK, ScdqInv
  <2>2. <<>> \in Seq(Name)  OBVIOUS
  <2> QED  BY <1>1, <2>1, <2>2, ScdPostPlain, ZenonT(60)
<1>3. TypeOK' /\ ListsInv'
  <2>1. cancels \in [SessionId -> 0..MaxCancels]  BY DEF IndInv, TypeOK
  <2>2. cancels[s] + 1 \in 0..MaxCancels  BY <1>1, <2>1, ConstantsAssumption
  <2>3. cancels' \in [SessionId -> 0..MaxCancels]  BY <1>1, <2>1, <2>2
  <2> QED  BY <1>1, <1>2, <2>3 DEF IndInv, TypeOK, ListsInv, nodes, queues
<1>4. AllocatedNodesOwned' /\ AllocInv'
    BY <1>1, ZenonT(60) DEF IndInv, AllocatedNodesOwned, AllocInv, HasNodes, GotNodes, nodes, queues
<1>5. ScdqInv'
  <2>1. ScdEv("CANCEL", s, <<>>).state = "CANCEL"  BY DEF ScdEv
  <2> QED  BY <1>1, <1>2, <2>1 DEF IndInv, ScdqInv
<1>6. RmqInv' /\ RmInv' /\ StepsInv'  BY <1>1, Zenon DEF IndInv, RmqInv, RmInv, StepsInv
<1>7. ScdInv'  BY <1>1 DEF IndInv, ScdInv, nodes, queues
<1> QED  BY <1>3, <1>4, <1>5, <1>6, <1>7 DEF IndInv

(***************************************************************************)
(* A step daemon checks in, or is lost.                                    *)
(***************************************************************************)
LEMMA StepdStep ==
    ASSUME IndInv, NEW st \in steps, RecvStepdComplete(st) \/ StepLost(st)
    PROVE  IndInv'
<1>1. /\ steps' = steps \ {st}
      /\ UNCHANGED <<up, last_session_id, alloc, queues, nodes, rmq, scd, rm, launches, cancels, phase>>
    BY DEF RecvStepdComplete, StepLost
<1> DEFINE s == st.id
           nl == st.nodes
<1>2. /\ s \in SessionId /\ nl \in Seq(Name) /\ nl = alloc[s].nodes
      /\ phase[s] \in Launched
    BY DEF IndInv, TypeOK, Step, StepsInv
<1>3. /\ tracking' \in Seq(Tracker)
      /\ \/ scdq' = scdq
         \/ scdq' = Append(scdq, ScdEv("TERMINATED", s, nl))
  <2>1. tracking \in Seq(Tracker)  BY DEF IndInv, TypeOK
  <2>2. CASE StepLost(st)  BY <2>1, <2>2 DEF StepLost
  <2>3. CASE UNCHANGED <<tracking, scdq>>  BY <2>1, <2>3
  <2>4. ASSUME NEW k \in DOMAIN tracking,
               LET checked == tracking[k].count_checked_in + 1 IN
               IF AllCheckedIn(checked, st.id)
               THEN /\ tracking' = Untrack(k)
                    /\ scdq' = Append(scdq, ScdEv("TERMINATED", st.id, st.nodes))
               ELSE /\ tracking' = [tracking EXCEPT ![k].count_checked_in = checked]
                    /\ scdq' = scdq
        PROVE  /\ tracking' \in Seq(Tracker)
               /\ \/ scdq' = scdq
                  \/ scdq' = Append(scdq, ScdEv("TERMINATED", s, nl))
    <3> DEFINE checked == tracking[k].count_checked_in + 1
    <3>1. CASE AllCheckedIn(checked, st.id)
      <4>1. tracking' = RemoveAt(tracking, k)  BY <2>4, <3>1 DEF Untrack
      <4> QED  BY <2>1, <2>4, <3>1, <4>1, RemoveAtFacts
    <3>2. CASE ~AllCheckedIn(checked, st.id)
      <4> DEFINE new == [tracking[k] EXCEPT !.count_checked_in = checked]
      <4>1. tracking' = [tracking EXCEPT ![k] = new]  BY <2>4, <3>2
      <4>2. tracking[k] \in Tracker  BY <2>1
      <4>3. new \in Tracker  BY <4>2 DEF Tracker
      <4>4. scdq' = scdq  BY <2>4, <3>2
      <4> HIDE DEF new
      <4> QED  BY <2>1, <4>1, <4>3, <4>4
    <3> QED  BY <3>1, <3>2
  <2> QED  BY <2>2, <2>3, <2>4 DEF RecvStepdComplete
<1> HIDE DEF s, nl
<1>4. /\ scdq' \in Seq(ScdEvent) /\ UniqueIn(scdq', OnceScd)
      /\ ToSet(scdq') \subseteq ToSet(scdq) \cup {ScdEv("TERMINATED", s, nl)}
  <2>1. scdq \in Seq(ScdEvent) /\ UniqueIn(scdq, OnceScd)  BY DEF IndInv, TypeOK, ScdqInv
  <2>2. CASE scdq' = scdq  BY <2>1, <2>2
  <2>3. CASE scdq' = Append(scdq, ScdEv("TERMINATED", s, nl))  BY <1>2, <2>1, <2>3, ScdPostPlain
  <2> QED  BY <1>3, <2>2, <2>3
<1>5. TypeOK'  BY <1>1, <1>3, <1>4 DEF IndInv, TypeOK, nodes, queues
<1>6. ListsInv' /\ AllocatedNodesOwned' /\ AllocInv'
    BY <1>1, ZenonT(60) DEF IndInv, ListsInv, AllocatedNodesOwned, AllocInv, HasNodes, GotNodes, nodes, queues
<1>7. ScdqInv'
  <2>1. LET e == ScdEv("TERMINATED", s, nl) IN e.state = "TERMINATED" /\ e.id = s /\ e.nodes = nl
      BY DEF ScdEv
  <2> QED  BY <1>1, <1>2, <1>4, <2>1 DEF IndInv, ScdqInv
<1>8. RmqInv' /\ RmInv' /\ StepsInv'  BY <1>1 DEF IndInv, RmqInv, RmInv, StepsInv
<1>9. ScdInv'  BY <1>1 DEF IndInv, ScdInv, nodes, queues
<1> QED  BY <1>5, <1>6, <1>7, <1>8, <1>9 DEF IndInv

-----------------------------------------------------------------------------
(* The theorems *)

LEMMA InitInv == Init => IndInv
<1> SUFFICES ASSUME Init PROVE IndInv  OBVIOUS
<1>1. TypeOK
  <2>1. /\ last_session_id \in 0..MaxSessions /\ alloc \in [SessionId -> Alloc]
        /\ state \in [Node -> NodeState] /\ scd_state \in [Node -> ScdNodeState]
        /\ phase \in [SessionId -> Phase] /\ cancels \in [SessionId -> 0..MaxCancels]
      BY ConstantsAssumption DEF Init, Alloc, NodeList, NodeState, ScdNodeState, Phase
  <2>2. /\ running \in Seq(SessionId) /\ hold \in Seq(SessionId) /\ default \in Seq(SessionId)
        /\ tracking \in Seq(Tracker) /\ scdq \in Seq(ScdEvent) /\ rmq \in Seq(RmEvent)
        /\ steps \subseteq Step /\ launches \in Nat /\ up \in BOOLEAN
      BY DEF Init
  <2> QED  BY <2>1, <2>2, IdleFacts DEF Init, TypeOK
<1>2. ListsInv  BY UniqueEmpty DEF Init, ListsInv
<1>3. AllocatedNodesOwned /\ AllocInv
    BY DEF Init, AllocatedNodesOwned, AllocInv, Launched, Unplaced
<1>4. ScdqInv /\ RmqInv  BY UniqueEmpty, ZenonT(60) DEF Init, ScdqInv, RmqInv
<1>5. ScdInv /\ RmInv /\ StepsInv  BY IdleFacts DEF Init, ScdInv, RmInv, StepsInv
<1> QED  BY <1>1, <1>2, <1>3, <1>4, <1>5 DEF IndInv

LEMMA NextInv ==
    ASSUME NoGivenNodes, NoDigitNames
    PROVE  IndInv /\ [Next]_vars => IndInv'
<1> SUFFICES ASSUME IndInv, [Next]_vars PROVE IndInv'  OBVIOUS
<1>1. CASE UNCHANGED vars
    BY <1>1, ZenonT(60) DEF vars, IndInv, TypeOK, AllocatedNodesOwned, ListsInv, AllocInv, ScdqInv,
                RmqInv, ScdInv, RmInv, StepsInv, HasNodes, GotNodes
<1>2. CASE ScdThread
    BY <1>2, FindQueueStep, ScheduleStep, ScheduleCountStep, ScheduleDecideStep, AllocatedStep,
       MarkStep, TerminatedStep, UnmarkStep, TerminatedRemoveStep, CancelStep, WalkForeverStep
    DEF ScdThread
<1>3. CASE RmThread
    BY <1>3, RmRequestStep, RmScanStep, RmActiveStep, RmKillStep, InfoStep DEF RmThread
<1>4. CASE Receive
  <2>1. ASSUME NEW r \in Requests, RecvSessionReq(r) PROVE IndInv'  BY <2>1, SessionReqStep
  <2>2. ASSUME NEW s \in SessionId, RecvSessionCancel(s) PROVE IndInv'  BY <2>2, SessionCancelStep
  <2>3. ASSUME NEW n \in Node, RecvNodeUp(n) \/ RecvDrain(n) \/ RecvResume(n) PROVE IndInv'
      BY <2>3, NodestateStep DEF RecvNodeUp, RecvDrain, RecvResume
  <2>4. ASSUME NEW N \in Subtrees, RecvNodeDown(N) PROVE IndInv'
      BY <2>4, NodestateStep DEF RecvNodeDown
  <2>5. ASSUME NEW st \in steps, RecvStepdComplete(st) \/ StepLost(st) PROVE IndInv'
      BY <2>5, StepdStep
  <2> QED  BY <1>4, <2>1, <2>2, <2>3, <2>4, <2>5, InfoStep DEF Receive
<1> QED  BY <1>1, <1>2, <1>3, <1>4 DEF Next

(***************************************************************************)
(* The inductive invariant holds in every state of the scheduler, for any  *)
(* number of nodes and sessions.                                           *)
(***************************************************************************)
THEOREM SchedulerInvariant ==
    ASSUME NoGivenNodes, NoDigitNames
    PROVE  Spec => []IndInv
<1>1. Init => IndInv  BY InitInv
<1>2. IndInv /\ [Next]_vars => IndInv'  BY NextInv
<1> QED  BY <1>1, <1>2, PTL DEF Spec

(***************************************************************************)
(* Type correctness of the two threads' shared and local state.            *)
(***************************************************************************)
THEOREM SchedulerTypes ==
    ASSUME NoGivenNodes, NoDigitNames
    PROVE  Spec => []TypeOK
<1>1. IndInv => TypeOK  BY DEF IndInv
<1> QED  BY <1>1, SchedulerInvariant, PTL

(***************************************************************************)
(* Every node pmf_allocated marked is owned by a running session, whatever *)
(* the interleaving of the two threads, so pmf_terminated will free it.    *)
(***************************************************************************)
THEOREM AllocationsOwned ==
    ASSUME NoGivenNodes, NoDigitNames
    PROVE  Spec => []AllocatedNodesOwned
<1>1. IndInv => AllocatedNodesOwned  BY DEF IndInv
<1> QED  BY <1>1, SchedulerInvariant, PTL
=============================================================================
