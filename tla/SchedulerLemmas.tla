-------------------------- MODULE SchedulerLemmas ---------------------------
(***************************************************************************)
(* What the list operations and the event queues of Scheduler preserve.    *)
(***************************************************************************)
EXTENDS Scheduler, TLAPS

-----------------------------------------------------------------------------
(* Sequences as the queues use them *)

(***************************************************************************)
(* Taking the head: opal_list_remove_first, or an event leaving its queue. *)
(***************************************************************************)
LEMMA TailFacts ==
    ASSUME NEW S, NEW q \in Seq(S), q # <<>>
    PROVE  /\ Head(q) \in S /\ Tail(q) \in Seq(S)
           /\ ToSet(q) = {Head(q)} \cup ToSet(Tail(q))
           /\ ToSet(q) \subseteq S
<1>1. /\ Head(q) = q[1] /\ Len(q) \in Nat \ {0} /\ DOMAIN q = 1..Len(q)
      /\ Tail(q) \in Seq(S) /\ DOMAIN Tail(q) = 1..(Len(q) - 1)
      /\ \A i \in 1..(Len(q) - 1) : Tail(q)[i] = q[i + 1]
      /\ \A i \in 1..Len(q) : q[i] \in S
    OBVIOUS
<1>2. ASSUME NEW i \in DOMAIN q PROVE q[i] \in {Head(q)} \cup ToSet(Tail(q))
  <2>1. CASE i = 1  BY <1>1, <2>1
  <2>2. CASE i # 1
    <3>1. i - 1 \in 1..(Len(q) - 1) /\ Tail(q)[i - 1] = q[i]  BY <1>1, <1>2, <2>2
    <3> QED  BY <1>1, <3>1 DEF ToSet
  <2> QED  BY <2>1, <2>2
<1>3. ASSUME NEW i \in DOMAIN Tail(q) PROVE Tail(q)[i] \in ToSet(q)
  <2>1. i + 1 \in DOMAIN q /\ Tail(q)[i] = q[i + 1]  BY <1>1, <1>3
  <2> QED  BY <2>1 DEF ToSet
<1>4. 1 \in DOMAIN q  BY <1>1
<1> QED  BY <1>1, <1>2, <1>3, <1>4, Zenon DEF ToSet

(***************************************************************************)
(* Appending: opal_list_append, or an event posted to a queue.             *)
(***************************************************************************)
LEMMA AppendFacts ==
    ASSUME NEW S, NEW q \in Seq(S), NEW e \in S
    PROVE  Append(q, e) \in Seq(S) /\ ToSet(Append(q, e)) = ToSet(q) \cup {e}
<1>1. /\ Append(q, e) \in Seq(S) /\ Len(q) \in Nat
      /\ DOMAIN Append(q, e) = 1..(Len(q) + 1) /\ DOMAIN q = 1..Len(q)
      /\ \A i \in 1..Len(q) : Append(q, e)[i] = q[i]
      /\ Append(q, e)[Len(q) + 1] = e
    OBVIOUS
<1>2. \A i \in 1..(Len(q) + 1) : i \in 1..Len(q) \/ i = Len(q) + 1  BY <1>1
<1>3. \A i \in 1..Len(q) : i \in 1..(Len(q) + 1)  BY <1>1
<1>4. Len(q) + 1 \in 1..(Len(q) + 1)  BY <1>1
<1> QED  BY <1>1, <1>2, <1>3, <1>4, Zenon DEF ToSet

(***************************************************************************)
(* Prepending: opal_list_prepend.                                          *)
(***************************************************************************)
LEMMA PrependFacts ==
    ASSUME NEW S, NEW q \in Seq(S), NEW e \in S
    PROVE  <<e>> \o q \in Seq(S) /\ ToSet(<<e>> \o q) = ToSet(q) \cup {e}
<1> DEFINE p == <<e>> \o q
<1>1. /\ p \in Seq(S) /\ Len(q) \in Nat
      /\ DOMAIN p = 1..(Len(q) + 1) /\ DOMAIN q = 1..Len(q)
      /\ p[1] = e
      /\ \A i \in 1..Len(q) : p[i + 1] = q[i]
    OBVIOUS
<1>2. \A i \in 1..(Len(q) + 1) : i = 1 \/ (i - 1 \in 1..Len(q) /\ p[i] = q[i - 1])  BY <1>1
<1>3. \A i \in 1..Len(q) : i + 1 \in 1..(Len(q) + 1)  BY <1>1
<1>4. 1 \in 1..(Len(q) + 1)  BY <1>1
<1> HIDE DEF p
<1>5. ToSet(p) \subseteq ToSet(q) \cup {e}  BY <1>1, <1>2 DEF ToSet
<1>6. ToSet(q) \cup {e} \subseteq ToSet(p)  BY <1>1, <1>3, <1>4 DEF ToSet
<1> QED  BY <1>1, <1>5, <1>6 DEF p

(***************************************************************************)
(* Unlinking the element at position k: opal_list_remove_item.             *)
(***************************************************************************)
LEMMA RemoveAtFacts ==
    ASSUME NEW S, NEW q \in Seq(S), NEW k \in DOMAIN q
    PROVE  /\ RemoveAt(q, k) \in Seq(S)
           /\ Len(RemoveAt(q, k)) = Len(q) - 1
           /\ \A i \in 1..(Len(q) - 1) :
                RemoveAt(q, k)[i] = IF i < k THEN q[i] ELSE q[i + 1]
<1> DEFINE r == RemoveAt(q, k)
<1>1. k \in 1..Len(q) /\ Len(q) \in Nat /\ Len(q) - 1 \in Nat /\ \A i \in 1..Len(q) : q[i] \in S
    OBVIOUS
<1>2. \A i \in 1..(Len(q) - 1) : r[i] = IF i < k THEN q[i] ELSE q[i + 1]
    BY DEF RemoveAt
<1>3. r \in Seq(S) /\ Len(r) = Len(q) - 1
  <2>1. \A i \in 1..(Len(q) - 1) : (IF i < k THEN q[i] ELSE q[i + 1]) \in S  BY <1>1
  <2>2. r \in [1..(Len(q) - 1) -> S]  BY <2>1 DEF RemoveAt
  <2> QED  BY <1>1, <2>2
<1> QED  BY <1>2, <1>3

(***************************************************************************)
(* No duplicates: what the list operations do to UniqueIn.                 *)
(***************************************************************************)
LEMMA UniqueEmpty ==
    ASSUME NEW T
    PROVE  UniqueIn(<<>>, T) /\ ToSet(<<>>) = {}
BY DEF UniqueIn, ToSet

LEMMA UniqueTail ==
    ASSUME NEW S, NEW T, NEW q \in Seq(S), q # <<>>, UniqueIn(q, T)
    PROVE  /\ UniqueIn(Tail(q), T)
           /\ Head(q) \in T => Head(q) \notin ToSet(Tail(q))
<1>1. /\ Head(q) = q[1] /\ Len(q) \in Nat \ {0} /\ DOMAIN q = 1..Len(q)
      /\ DOMAIN Tail(q) = 1..(Len(q) - 1)
      /\ \A i \in 1..(Len(q) - 1) : Tail(q)[i] = q[i + 1]
    OBVIOUS
<1>2. ASSUME NEW i \in DOMAIN Tail(q), NEW j \in DOMAIN Tail(q),
             Tail(q)[i] = Tail(q)[j], Tail(q)[i] \in T
      PROVE i = j
  <2>1. i \in Nat /\ j \in Nat /\ i + 1 \in DOMAIN q /\ j + 1 \in DOMAIN q  BY <1>1, <1>2
  <2>2. q[i + 1] = q[j + 1] /\ q[i + 1] \in T  BY <1>1, <1>2
  <2>3. i + 1 = j + 1  BY <2>1, <2>2 DEF UniqueIn
  <2> QED  BY <2>1, <2>3
<1>3. ASSUME Head(q) \in T, NEW i \in DOMAIN Tail(q), Tail(q)[i] = Head(q) PROVE FALSE
  <2>1. i \in Nat \ {0} /\ i + 1 \in DOMAIN q /\ 1 \in DOMAIN q  BY <1>1, <1>3
  <2>2. q[i + 1] = q[1] /\ q[1] \in T  BY <1>1, <1>3
  <2>3. i + 1 = 1  BY <2>1, <2>2 DEF UniqueIn
  <2> QED  BY <2>1, <2>3
<1> QED  BY <1>2, <1>3 DEF UniqueIn, ToSet

LEMMA UniqueAppend ==
    ASSUME NEW S, NEW T, NEW q \in Seq(S), NEW e \in S, UniqueIn(q, T),
           e \in T => e \notin ToSet(q)
    PROVE  UniqueIn(Append(q, e), T)
<1> DEFINE p == Append(q, e)
<1>1. /\ Len(q) \in Nat /\ DOMAIN q = 1..Len(q) /\ DOMAIN p = 1..(Len(q) + 1)
      /\ p[Len(q) + 1] = e /\ \A i \in 1..Len(q) : p[i] = q[i]
    OBVIOUS
<1> HIDE DEF p
<1>2. ASSUME NEW i \in DOMAIN p, NEW j \in DOMAIN p, p[i] = p[j], p[i] \in T
      PROVE i = j
  <2>1. CASE i \in DOMAIN q /\ j \in DOMAIN q  BY <1>1, <1>2, <2>1 DEF UniqueIn
  <2>2. CASE i \in DOMAIN q /\ j = Len(q) + 1  BY <1>1, <1>2, <2>2 DEF ToSet
  <2>3. CASE j \in DOMAIN q /\ i = Len(q) + 1  BY <1>1, <1>2, <2>3 DEF ToSet
  <2>4. CASE i = Len(q) + 1 /\ j = Len(q) + 1  BY <2>4
  <2> QED  BY <1>1, <1>2, <2>1, <2>2, <2>3, <2>4
<1> QED  BY <1>2 DEF UniqueIn, p

LEMMA UniquePrepend ==
    ASSUME NEW S, NEW T, NEW q \in Seq(S), NEW e \in S, UniqueIn(q, T),
           e \in T => e \notin ToSet(q)
    PROVE  UniqueIn(<<e>> \o q, T)
<1> DEFINE p == <<e>> \o q
<1>1. /\ Len(q) \in Nat /\ DOMAIN q = 1..Len(q) /\ DOMAIN p = 1..(Len(q) + 1)
      /\ p[1] = e /\ \A i \in 2..(Len(q) + 1) : p[i] = q[i - 1]
    OBVIOUS
<1> HIDE DEF p
<1>2. ASSUME NEW i \in DOMAIN p, NEW j \in DOMAIN p, p[i] = p[j], p[i] \in T
      PROVE i = j
  <2>1. CASE i # 1 /\ j # 1
    <3>1. i - 1 \in DOMAIN q /\ j - 1 \in DOMAIN q /\ i \in Nat /\ j \in Nat  BY <1>1, <2>1
    <3>2. q[i - 1] = q[j - 1] /\ q[i - 1] \in T  BY <1>1, <1>2, <2>1
    <3>3. i - 1 = j - 1  BY <3>1, <3>2 DEF UniqueIn
    <3> QED  BY <3>1, <3>3
  <2>2. CASE i # 1 /\ j = 1
    <3>1. i - 1 \in DOMAIN q /\ q[i - 1] = e /\ e \in T  BY <1>1, <1>2, <2>2
    <3> QED  BY <3>1 DEF ToSet
  <2>3. CASE j # 1 /\ i = 1
    <3>1. j - 1 \in DOMAIN q /\ q[j - 1] = e /\ e \in T  BY <1>1, <1>2, <2>3
    <3> QED  BY <3>1 DEF ToSet
  <2> QED  BY <2>1, <2>2, <2>3
<1> QED  BY <1>2 DEF UniqueIn, p

LEMMA UniqueRemove ==
    ASSUME NEW S, NEW q \in Seq(S), NEW k \in DOMAIN q, UniqueIn(q, S)
    PROVE  /\ UniqueIn(RemoveAt(q, k), S)
           /\ ToSet(RemoveAt(q, k)) = ToSet(q) \ {q[k]}
<1> DEFINE p == RemoveAt(q, k)
           at(i) == IF i < k THEN i ELSE i + 1
<1>1. /\ p \in Seq(S) /\ Len(p) = Len(q) - 1
      /\ \A i \in 1..(Len(q) - 1) : p[i] = IF i < k THEN q[i] ELSE q[i + 1]
    BY RemoveAtFacts
<1> HIDE DEF p
<1>2. /\ Len(q) \in Nat /\ k \in 1..Len(q) /\ DOMAIN q = 1..Len(q)
      /\ DOMAIN p = 1..(Len(q) - 1) /\ \A i \in DOMAIN q : q[i] \in S
    BY <1>1
<1>3. ASSUME NEW i \in DOMAIN p
      PROVE i \in Nat /\ at(i) \in DOMAIN q \ {k} /\ p[i] = q[at(i)]
    BY <1>1, <1>2
<1>4. ASSUME NEW i \in DOMAIN p, NEW j \in DOMAIN p, p[i] = p[j] PROVE i = j
  <2>1. at(i) = at(j)
    <3> HIDE DEF at
    <3> QED  BY <1>2, <1>3, <1>4 DEF UniqueIn
  <2> QED  BY <1>2, <1>3, <2>1
<1>5. ASSUME NEW i \in DOMAIN p PROVE p[i] \in ToSet(q) \ {q[k]}
  <2> HIDE DEF at
  <2> QED  BY <1>2, <1>3 DEF UniqueIn, ToSet
<1>6. ASSUME NEW j \in DOMAIN q, q[j] # q[k] PROVE q[j] \in ToSet(p)
  <2>1. CASE j < k
    <3>1. j \in DOMAIN p /\ p[j] = q[j]  BY <1>1, <1>2, <2>1
    <3> QED  BY <3>1 DEF ToSet
  <2>2. CASE ~(j < k)
    <3>1. j # k  BY <1>6
    <3>2. j - 1 \in DOMAIN p /\ p[j - 1] = q[j]  BY <1>1, <1>2, <2>2, <3>1
    <3> QED  BY <3>2 DEF ToSet
  <2> QED  BY <2>1, <2>2
<1>7. UniqueIn(p, S)  BY <1>4 DEF UniqueIn
<1>8. ToSet(p) \subseteq ToSet(q) \ {q[k]}  BY <1>5 DEF ToSet
<1>9. ToSet(q) \ {q[k]} \subseteq ToSet(p)  BY <1>6 DEF ToSet
<1> QED  BY <1>7, <1>8, <1>9 DEF p

(***************************************************************************)
(* Searching a list for session s and unlinking it.                        *)
(***************************************************************************)
LEMMA WithoutFacts ==
    ASSUME NEW S, NEW q \in Seq(S), NEW s, UniqueIn(q, S), NEW p \in Without(q, s)
    PROVE  /\ p \in Seq(S) /\ UniqueIn(p, S)
           /\ ToSet(p) = ToSet(q) \ {s}
<1>1. CASE s \notin ToSet(q)
  <2>1. p = q  BY <1>1 DEF Without
  <2> QED  BY <1>1, <2>1
<1>2. CASE s \in ToSet(q)
  <2>1. PICK k \in DOMAIN q : q[k] = s /\ p = RemoveAt(q, k)  BY <1>2 DEF Without
  <2> QED  BY <2>1, RemoveAtFacts, UniqueRemove
<1> QED  BY <1>1, <1>2

-----------------------------------------------------------------------------
(* The event queues, the session queues and the local state of the threads *)

(***************************************************************************)
(* An event leaves the scd thread's queue.                                 *)
(***************************************************************************)
LEMMA ScdTake ==
    ASSUME IndInv, scdq # <<>>
    PROVE  LET e == Head(scdq) IN
           /\ e \in ScdEvent /\ e \in ToSet(scdq) /\ ToSet(scdq) \subseteq ScdEvent
           /\ Tail(scdq) \in Seq(ScdEvent)
           /\ ToSet(Tail(scdq)) \subseteq ToSet(scdq)
           /\ UniqueIn(Tail(scdq), OnceScd)
           /\ \A d \in ToSet(Tail(scdq)) :
                 d.state = e.state /\ d.state \in {"INIT", "ALLOCD"} => d.id # e.id
<1> DEFINE e == Head(scdq)
<1>1. scdq \in Seq(ScdEvent)  BY DEF IndInv, TypeOK
<1>2. /\ e \in ScdEvent /\ Tail(scdq) \in Seq(ScdEvent)
      /\ ToSet(scdq) = {e} \cup ToSet(Tail(scdq)) /\ ToSet(scdq) \subseteq ScdEvent
    BY <1>1, TailFacts
<1>3. UniqueIn(scdq, OnceScd)  BY DEF IndInv, ScdqInv
<1>4. UniqueIn(Tail(scdq), OnceScd) /\ (e \in OnceScd => e \notin ToSet(Tail(scdq)))
    BY <1>1, <1>3, UniqueTail
<1>5. ASSUME NEW d \in ToSet(Tail(scdq)), d.state = e.state,
             d.state \in {"INIT", "ALLOCD"}, d.id = e.id
      PROVE FALSE
  <2>1. d \in ScdEvent  BY <1>2
  <2>2. d.nodes = <<>> /\ e.nodes = <<>>  BY <1>2, <1>5 DEF IndInv, ScdqInv
  <2>3. d = e  BY <1>2, <1>5, <2>1, <2>2 DEF ScdEvent
  <2>4. e \in OnceScd  BY <1>2, <1>5 DEF OnceScd
  <2> QED  BY <1>4, <2>3, <2>4
<1> QED  BY <1>2, <1>4, <1>5

(***************************************************************************)
(* An event is posted to the scd thread's queue.                           *)
(***************************************************************************)
LEMMA ScdEvFields ==
    ASSUME NEW st, NEW s, NEW nl
    PROVE  /\ ScdEv(st, s, nl).state = st
           /\ ScdEv(st, s, nl).id = s
           /\ ScdEv(st, s, nl).nodes = nl
BY DEF ScdEv

LEMMA ScdPostOnce ==
    ASSUME NEW q \in Seq(ScdEvent), NEW st \in {"INIT", "ALLOCD"}, NEW s \in SessionId,
           UniqueIn(q, OnceScd), \A d \in ToSet(q) : ~(d.state = st /\ d.id = s)
    PROVE  LET e == ScdEv(st, s, <<>>) IN
           /\ Append(q, e) \in Seq(ScdEvent) /\ ToSet(Append(q, e)) = ToSet(q) \cup {e}
           /\ UniqueIn(Append(q, e), OnceScd)
<1> DEFINE e == ScdEv(st, s, <<>>)
<1>1. e \in ScdEvent /\ e.state = st /\ e.id = s  BY DEF ScdEv, ScdEvent
<1>2. e \notin ToSet(q)  BY <1>1
<1> HIDE DEF e
<1> QED  BY <1>1, <1>2, AppendFacts, UniqueAppend DEF e

LEMMA ScdPostPlain ==
    ASSUME NEW q \in Seq(ScdEvent), NEW st \in {"CANCEL", "TERMINATED"}, NEW s \in SessionId,
           NEW nl \in Seq(Name), UniqueIn(q, OnceScd)
    PROVE  LET e == ScdEv(st, s, nl) IN
           /\ Append(q, e) \in Seq(ScdEvent) /\ ToSet(Append(q, e)) = ToSet(q) \cup {e}
           /\ UniqueIn(Append(q, e), OnceScd)
<1> DEFINE e == ScdEv(st, s, nl)
<1>1. e \in ScdEvent /\ e \notin OnceScd  BY DEF ScdEv, ScdEvent, OnceScd
<1> HIDE DEF e
<1> QED  BY <1>1, AppendFacts, UniqueAppend DEF e

LEMMA ScdPostSchedule ==
    ASSUME NEW q \in Seq(ScdEvent), NEW s \in SessionId, UniqueIn(q, OnceScd)
    PROVE  LET e == ScdEv("SCHEDULE", s, <<>>) IN
           /\ Append(q, e) \in Seq(ScdEvent) /\ ToSet(Append(q, e)) = ToSet(q) \cup {e}
           /\ UniqueIn(Append(q, e), OnceScd)
<1> DEFINE e == ScdEv("SCHEDULE", s, <<>>)
<1>1. e \in ScdEvent /\ e \notin OnceScd  BY DEF ScdEv, ScdEvent, OnceScd
<1> HIDE DEF e
<1> QED  BY <1>1, AppendFacts, UniqueAppend DEF e

(***************************************************************************)
(* The same for the orte thread's queue.                                   *)
(***************************************************************************)
LEMMA RmTake ==
    ASSUME IndInv, rmq # <<>>
    PROVE  LET e == Head(rmq) IN
           /\ e \in RmEvent /\ e \in ToSet(rmq)
           /\ Tail(rmq) \in Seq(RmEvent)
           /\ ToSet(Tail(rmq)) \subseteq ToSet(rmq)
           /\ UniqueIn(Tail(rmq), OnceRm)
           /\ \A d \in ToSet(Tail(rmq)) : d.state = "REQ" /\ e.state = "REQ" => d.id # e.id
<1> DEFINE e == Head(rmq)
<1>1. rmq \in Seq(RmEvent)  BY DEF IndInv, TypeOK
<1>2. /\ e \in RmEvent /\ Tail(rmq) \in Seq(RmEvent)
      /\ ToSet(rmq) = {e} \cup ToSet(Tail(rmq)) /\ ToSet(rmq) \subseteq RmEvent
    BY <1>1, TailFacts
<1>3. UniqueIn(rmq, OnceRm)  BY DEF IndInv, RmqInv
<1>4. UniqueIn(Tail(rmq), OnceRm) /\ (e \in OnceRm => e \notin ToSet(Tail(rmq)))
    BY <1>1, <1>3, UniqueTail
<1>5. ASSUME NEW d \in ToSet(Tail(rmq)), d.state = "REQ", e.state = "REQ", d.id = e.id
      PROVE FALSE
  <2>1. d \in RmEvent  BY <1>2
  <2>2. d = e  BY <1>2, <1>5, <2>1 DEF RmEvent
  <2>3. e \in OnceRm  BY <1>2, <1>5 DEF OnceRm
  <2> QED  BY <1>4, <2>2, <2>3
<1> QED  BY <1>2, <1>4, <1>5

LEMMA RmPost ==
    ASSUME NEW q \in Seq(RmEvent), NEW st, NEW s \in SessionId,
           st \in {"REQ", "ACTIVE", "KILL"},
           UniqueIn(q, OnceRm),
           st = "REQ" => \A d \in ToSet(q) : ~(d.state = "REQ" /\ d.id = s)
    PROVE  LET p == Append(q, RmEv(st, s)) IN
           /\ p \in Seq(RmEvent) /\ ToSet(p) = ToSet(q) \cup {RmEv(st, s)}
           /\ UniqueIn(p, OnceRm)
<1> DEFINE e == RmEv(st, s)
<1>1. e \in RmEvent /\ e.state = st /\ e.id = s  BY DEF RmEv, RmEvent
<1>2. e \in OnceRm => e \notin ToSet(q)  BY <1>1 DEF OnceRm
<1>3. Append(q, e) \in Seq(RmEvent) /\ ToSet(Append(q, e)) = ToSet(q) \cup {e}
    BY <1>1, AppendFacts
<1>4. UniqueIn(Append(q, e), OnceRm)
  <2> HIDE DEF e
  <2> QED  BY <1>1, <1>2, UniqueAppend
<1> QED  BY <1>3, <1>4

LEMMA RmPostPlain ==
    ASSUME NEW q \in Seq(RmEvent), NEW st \in {"ACTIVE", "KILL"}, NEW s \in SessionId,
           UniqueIn(q, OnceRm)
    PROVE  /\ Append(q, RmEv(st, s)) \in Seq(RmEvent)
           /\ ToSet(Append(q, RmEv(st, s))) = ToSet(q) \cup {RmEv(st, s)}
           /\ UniqueIn(Append(q, RmEv(st, s)), OnceRm)
<1> DEFINE e == RmEv(st, s)
<1>1. e \in RmEvent /\ e \notin OnceRm  BY DEF RmEv, RmEvent, OnceRm
<1> HIDE DEF e
<1> QED  BY <1>1, AppendFacts, UniqueAppend DEF e

LEMMA RmEvFields ==
    ASSUME NEW st, NEW s
    PROVE  RmEv(st, s).state = st /\ RmEv(st, s).id = s
BY DEF RmEv

(***************************************************************************)
(* A queue of sessions gains or loses one.                                 *)
(***************************************************************************)
LEMMA SessionJoins ==
    ASSUME NEW q \in Seq(SessionId), UniqueIn(q, SessionId),
           NEW s \in SessionId, s \notin ToSet(q)
    PROVE  /\ Append(q, s) \in Seq(SessionId) /\ UniqueIn(Append(q, s), SessionId)
           /\ ToSet(Append(q, s)) = ToSet(q) \cup {s}
           /\ (<<s>> \o q) \in Seq(SessionId) /\ UniqueIn((<<s>> \o q), SessionId)
           /\ ToSet((<<s>> \o q)) = ToSet(q) \cup {s}
BY AppendFacts, UniqueAppend, PrependFacts, UniquePrepend

LEMMA QueuesHoldSessions ==
    ASSUME IndInv
    PROVE  /\ ToSet(running) \subseteq SessionId
           /\ ToSet(hold) \subseteq SessionId
           /\ ToSet(default) \subseteq SessionId
           /\ ToSet(scdq) \subseteq ScdEvent
           /\ ToSet(rmq) \subseteq RmEvent
BY DEF IndInv, TypeOK, ToSet

(***************************************************************************)
(* What the threads' local state looks like when a handler starts, and     *)
(* after a step of its loop.                                               *)
(***************************************************************************)
LEMMA IdleFacts ==
    /\ ScdIdle \in ScdLocals /\ ScdIdle.pc = "idle"
    /\ RmIdle \in RmLocals /\ RmIdle.pc = "idle" /\ RmIdle.nodes = <<>>
BY ConstantsAssumption DEF ScdIdle, ScdLocals, RmIdle, RmLocals

LEMMA ScdLoopFacts ==
    ASSUME NEW pc \in {"count", "mark", "unmark"}, NEW s \in SessionId, NEW nl \in Seq(Name)
    PROVE  LET r == ScdLoop(pc, s, nl) IN
           r \in ScdLocals /\ r.pc = pc /\ r.id = s /\ r.i = 1 /\ r.nodes = nl
<1>1. s \in 0..MaxSessions  BY ConstantsAssumption DEF SessionId
<1> QED  BY <1>1 DEF ScdLocals, ScdLoop

LEMMA RmLoopFacts ==
    ASSUME NEW pc \in {"scan", "info"}, NEW s \in 0..MaxSessions
    PROVE  LET r == RmLoop(pc, s) IN
           r \in RmLocals /\ r.pc = pc /\ r.id = s /\ r.i = 1
BY DEF RmLocals, RmLoop

(***************************************************************************)
(* The queues have no session in common: a walk of one of them ends.       *)
(***************************************************************************)
LEMMA WalksEnd ==
    ASSUME IndInv
    PROVE  ~Endless
BY DEF IndInv, ListsInv, Endless

(***************************************************************************)
(* A name of a node list is a node's, or no node's.                        *)
(***************************************************************************)
LEMMA NamedNodes ==
    ASSUME NEW nl \in Seq(Name), NEW j \in 1..Len(nl), nl[j] # NoNode
    PROVE  nl[j] \in Node
BY ConstantsAssumption DEF Name, Node, NoNode

LEMMA ScdAdvance ==
    ASSUME NEW x \in ScdLocals, NEW f \in Nat
    PROVE  LET r == [x EXCEPT !.i = x.i + 1, !.free = f]
               t == [x EXCEPT !.i = x.i + 1]
           IN /\ r \in ScdLocals /\ r.pc = x.pc /\ r.id = x.id /\ r.i = x.i + 1
              /\ t \in ScdLocals /\ t.pc = x.pc /\ t.id = x.id /\ t.i = x.i + 1
              /\ t.nodes = x.nodes /\ x.i \in Nat
<1>1. x.i \in Nat /\ x.i + 1 \in Nat  BY DEF ScdLocals
<1> QED  BY <1>1, ZenonT(60) DEF ScdLocals

=============================================================================
