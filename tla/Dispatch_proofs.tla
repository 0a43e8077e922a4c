--------------------------- MODULE Dispatch_proofs ---------------------------
(***************************************************************************)
(* What holds of the dispatch controller for any number of dispatchers,    *)
(* projects and requests and any limits: the type invariant, the quota up  *)
(* to the other dispatchers, and that no task is lost or doubled.          *)
(***************************************************************************)
EXTENDS DispatchProperties, FiniteSetTheorems, TLAPS

USE DispatchersAssumption, ProjectsAssumption, RequestsAssumption,
    ModesAssumption

-----------------------------------------------------------------------------
(* Types.  A request that waits for the dedupe check has a delivery.       *)

ReceivedInv ==
    \A r \in Requests : handler[r] = "received" => DeliveryOf[r] \in Deliveries

TypeInv == TypeOK /\ ReceivedInv

\* The initial states are well typed.
LEMMA TypeInit == Init => TypeInv
  BY DEF Init, TypeInv, TypeOK, ReceivedInv, Places

\* A pushed task is on a queue of tasks.
LEMMA PushedType ==
  ASSUME TypeOK, NEW r \in Requests
  PROVE  Pushed(r) \in [Projects -> Seq(Requests)]
<1>1. ProjectOf[r] \in Projects /\ queue[ProjectOf[r]] \in Seq(Requests)
  BY DEF TypeOK
<1>2. Append(queue[ProjectOf[r]], r) \in Seq(Requests)
  BY <1>1
<1> QED
  BY <1>2 DEF Pushed, TypeOK

\* A step of an HTTP handler keeps the types.
LEMMA TypeHandler ==
  ASSUME TypeInv, NEW r \in Requests, Receive(r) \/ Handler(r)
  PROVE  TypeInv'
<1>1. CASE Receive(r)
  BY <1>1 DEF TypeInv, TypeOK, ReceivedInv, Receive, consumer
<1>2. CASE FirstDelivery(r)
  BY <1>2 DEF TypeInv, TypeOK, ReceivedInv, FirstDelivery, Opened, consumer
<1>3. CASE DuplicateEvent(r)
  BY <1>3 DEF TypeInv, TypeOK, ReceivedInv, DuplicateEvent, consumer
<1>4. CASE NotResolved(r)
  BY <1>4 DEF TypeInv, TypeOK, ReceivedInv, NotResolved, consumer
<1>5. CASE Enqueue(r)
  BY <1>5, PushedType DEF TypeInv, TypeOK, ReceivedInv, Enqueue, consumer
<1>6. CASE HandlerThrows(r)
  BY <1>6, PushedType DEF TypeInv, TypeOK, ReceivedInv, HandlerThrows, Opened, consumer
<1> QED
  BY <1>1, <1>2, <1>3, <1>4, <1>5, <1>6 DEF Handler

\* A step of a dispatcher keeps the types.
LEMMA TypeDispatcher ==
  ASSUME TypeInv, NEW c \in Dispatchers,
         ProcessQueueOnce(c) \/ LocalRunReturns(c) \/ DispatcherDies(c)
  PROVE  TypeInv'
<1> USE DEF TypeInv, TypeOK, ReceivedInv, Places, web, Goes, Leaves, WithSlots,
            SlotsFor
<1>1. CASE Pop(c)
  BY <1>1 DEF Pop, FirstNonEmpty
<1>2. CASE SkipRun(c)
  BY <1>2 DEF SkipRun
<1>3. CASE PurgeLapsed(c)
  BY <1>3 DEF PurgeLapsed
<1>4. CASE CountActive(c)
  BY <1>4 DEF CountActive
<1>5. CASE TakeSlot(c)
  BY ZenonT(30), <1>5 DEF TakeSlot
<1>6. CASE Requeue(c)
  BY <1>6, PushedType DEF Requeue
<1>7. CASE ConsumerThrows(c)
  <2>1. task[c] \in Requests /\ ProjectOf[task[c]] \in Projects
    BY <1>7 DEF ConsumerThrows
  <2>2. queue' \in [Projects -> Seq(Requests)]
    BY <1>7, <2>1, PushedType DEF ConsumerThrows
  <2>3. slots' \in [Projects -> SUBSET Requests]
    BY <1>7, <2>1 DEF ConsumerThrows
  <2>4. dropped' \subseteq Requests
    BY <1>7, <2>1 DEF ConsumerThrows
  <2>5. UNCHANGED <<k8sMode, web, lapsed, runs>> /\ Leaves(c)
    BY <1>7 DEF ConsumerThrows
  <2> QED
    BY <2>2, <2>3, <2>4, <2>5
<1>8. CASE StartRun(c)
  BY ZenonT(30), <1>8 DEF StartRun
<1>9. CASE StartThrows(c)
  BY <1>9 DEF StartThrows
<1>10. CASE LocalRunReturns(c)
  BY <1>10 DEF LocalRunReturns
<1>11. CASE ReleaseSlot(c)
  BY <1>11 DEF ReleaseSlot
<1>12. CASE ReleaseThrows(c)
  BY <1>12 DEF ReleaseThrows
<1>13. CASE DispatcherDies(c)
  BY <1>13 DEF DispatcherDies
<1> QED
  BY <1>1, <1>2, <1>3, <1>4, <1>5, <1>6, <1>7, <1>8, <1>9, <1>10, <1>11, <1>12,
     <1>13 DEF ProcessQueueOnce, Acquire, DispatchTask

\* Runs that end, leases and dedupe keys that expire, and requests that come again
\* keep the types.
LEMMA TypeWorld ==
  ASSUME TypeInv,
         \/ \E r \in Requests : RunEnds(r) \/ LeaseLapses(r) \/ ComesAgain(r)
         \/ \E d \in Deliveries : DedupeExpires(d)
         \/ UNCHANGED vars
  PROVE  TypeInv'
<1> USE DEF TypeInv, TypeOK, ReceivedInv, web, consumer
<1>1. ASSUME NEW r \in Requests, RunEnds(r) PROVE TypeInv'
  BY <1>1 DEF RunEnds
<1>2. ASSUME NEW r \in Requests, LeaseLapses(r) PROVE TypeInv'
  BY <1>2 DEF LeaseLapses
<1>3. ASSUME NEW d \in Deliveries, DedupeExpires(d) PROVE TypeInv'
  BY <1>3 DEF DedupeExpires
<1>4. CASE UNCHANGED vars
  BY <1>4 DEF vars
<1>5. ASSUME NEW r \in Requests, ComesAgain(r) PROVE TypeInv'
  BY <1>5 DEF ComesAgain
<1> QED
  BY <1>1, <1>2, <1>3, <1>4, <1>5

\* Every step keeps the types.
LEMMA TypeNext == TypeInv /\ [Next]_vars => TypeInv'
<1> SUFFICES ASSUME TypeInv, [Next]_vars PROVE TypeInv'
  OBVIOUS
<1> QED
  BY TypeHandler, TypeDispatcher, TypeWorld DEF Next, Idle

\* Every reachable state of the controller is well typed: a dispatcher has a task
\* exactly while processQueueOnce works on one (1805-1846).
THEOREM DispatchTypeCorrect == Spec => []TypeOK
<1>1. Spec => []TypeInv
  BY TypeInit, TypeNext, PTL DEF Spec
<1> QED
  BY <1>1, PTL DEF TypeInv

-----------------------------------------------------------------------------
(* The quota.  A dispatcher that has counted the active runs of a project  *)
(* and not yet added its own is as good as one more active run.            *)

Pending(p) == {c \in Dispatchers : pc[c] = "counted" /\ ProjectOf[task[c]] = p}

QuotaInv ==
    \A p \in Projects :
        /\ IsFiniteSet(slots[p])
        /\ Cardinality(slots[p]) + Cardinality(Pending(p)) + 1
              <= MaxConcurrent[p] + Cardinality(Dispatchers)

\* Dispatchers can be counted, and so can those of them with a count in hand.
LEMMA PendingFinite ==
  ASSUME NEW P, P \subseteq Dispatchers
  PROVE  /\ IsFiniteSet(P) /\ Cardinality(P) \in Nat
         /\ Cardinality(Dispatchers) \in Nat
         /\ Cardinality(P) <= Cardinality(Dispatchers)
  BY FS_Subset, FS_CardinalityType

\* What a step may do to the active set S and the pending dispatchers P of a
\* project: shrink them, count a set that is not full, or add what was counted.
QuotaStep(S, P, S1, P1, limit) ==
    \/ S1 \subseteq S /\ P1 \subseteq P
    \/ S1 = S /\ Cardinality(S) < limit
    \/ \E c \in P, r \in Requests : S1 \subseteq S \cup {r} /\ P1 \subseteq P \ {c}

\* Such a step keeps the sum of active runs and pending dispatchers in its bound.
LEMMA QuotaArithmetic ==
  ASSUME NEW S, NEW P, NEW S1, NEW P1, NEW limit \in Nat,
         IsFiniteSet(S), P \subseteq Dispatchers, P1 \subseteq Dispatchers,
         Cardinality(S) + Cardinality(P) + 1 <= limit + Cardinality(Dispatchers),
         QuotaStep(S, P, S1, P1, limit)
  PROVE  /\ IsFiniteSet(S1)
         /\ Cardinality(S1) + Cardinality(P1) + 1 <= limit + Cardinality(Dispatchers)
<1>1. /\ Cardinality(S) \in Nat /\ Cardinality(P) \in Nat
      /\ Cardinality(P1) \in Nat /\ Cardinality(Dispatchers) \in Nat
      /\ Cardinality(P1) <= Cardinality(Dispatchers)
      /\ IsFiniteSet(P)
  BY PendingFinite, FS_CardinalityType
<1>2. CASE S1 \subseteq S /\ P1 \subseteq P
  <2>1. IsFiniteSet(S1) /\ Cardinality(S1) <= Cardinality(S)
    BY <1>2, FS_Subset
  <2>2. Cardinality(P1) <= Cardinality(P)
    BY <1>1, <1>2, FS_Subset
  <2>3. Cardinality(S1) \in Nat
    BY <2>1, FS_CardinalityType
  <2> QED
    BY <1>1, <2>1, <2>2, <2>3
<1>3. CASE S1 = S /\ Cardinality(S) < limit
  BY <1>1, <1>3
<1>4. ASSUME NEW c \in P, NEW r \in Requests,
             S1 \subseteq S \cup {r}, P1 \subseteq P \ {c}
      PROVE  /\ IsFiniteSet(S1)
             /\ Cardinality(S1) + Cardinality(P1) + 1 <= limit + Cardinality(Dispatchers)
  <2>1. IsFiniteSet(S \cup {r}) /\ Cardinality(S \cup {r}) <= Cardinality(S) + 1
    <3>1. /\ IsFiniteSet(S \cup {r})
          /\ Cardinality(S \cup {r}) = IF r \in S THEN Cardinality(S)
                                                  ELSE Cardinality(S) + 1
      BY FS_AddElement, Zenon
    <3> QED
      BY <1>1, <3>1
  <2>2. IsFiniteSet(S1) /\ Cardinality(S1) <= Cardinality(S \cup {r})
    BY <1>4, <2>1, FS_Subset
  <2>3. IsFiniteSet(P \ {c}) /\ Cardinality(P \ {c}) = Cardinality(P) - 1
    BY <1>1, FS_RemoveElement
  <2>4. Cardinality(P1) <= Cardinality(P \ {c})
    BY <1>4, <2>3, FS_Subset
  <2>5. Cardinality(S1) \in Nat /\ Cardinality(S \cup {r}) \in Nat
    BY <2>1, <2>2, FS_CardinalityType
  <2> QED
    BY <1>1, <2>1, <2>2, <2>3, <2>4, <2>5
<1> QED
  <2>1. CASE \E c \in P, r \in Requests : S1 \subseteq S \cup {r} /\ P1 \subseteq P \ {c}
    BY <2>1, <1>4, Zenon
  <2> QED
    BY <1>2, <1>3, <2>1, Zenon DEF QuotaStep

\* A step that does one of these things to every project keeps QuotaInv.
LEMMA QuotaKept ==
  ASSUME QuotaInv,
         \A p \in Projects :
            QuotaStep(slots[p], Pending(p), slots'[p], Pending(p)', MaxConcurrent[p])
  PROVE  QuotaInv'
<1> SUFFICES ASSUME NEW p \in Projects
             PROVE  /\ IsFiniteSet(slots'[p])
                    /\ Cardinality(slots'[p]) + Cardinality(Pending(p)') + 1
                          <= MaxConcurrent[p] + Cardinality(Dispatchers)
  BY DEF QuotaInv
<1>1. Pending(p) \subseteq Dispatchers /\ Pending(p)' \subseteq Dispatchers
  BY DEF Pending
<1>2. /\ IsFiniteSet(slots[p])
      /\ Cardinality(slots[p]) + Cardinality(Pending(p)) + 1
            <= MaxConcurrent[p] + Cardinality(Dispatchers)
  BY DEF QuotaInv
<1>3. MaxConcurrent[p] \in Nat
  OBVIOUS
<1>4. QuotaStep(slots[p], Pending(p), slots'[p], Pending(p)', MaxConcurrent[p])
  OBVIOUS
<1> QED
  BY <1>1, <1>2, <1>3, <1>4, QuotaArithmetic

\* At first no run is active and no dispatcher has counted.
LEMMA QuotaInit == Init => QuotaInv
<1> SUFFICES ASSUME Init, NEW p \in Projects
             PROVE  /\ IsFiniteSet(slots[p])
                    /\ Cardinality(slots[p]) + Cardinality(Pending(p)) + 1
                          <= MaxConcurrent[p] + Cardinality(Dispatchers)
  BY DEF QuotaInv
<1>1. slots[p] = {} /\ Pending(p) = {}
  BY DEF Init, Pending
<1>2. Cardinality(Dispatchers) \in Nat \ {0} /\ Cardinality({}) = 0 /\ IsFiniteSet({})
  BY FS_EmptySet, FS_CardinalityType
<1>3. MaxConcurrent[p] \in Nat
  OBVIOUS
<1> QED
  BY <1>1, <1>2, <1>3

\* A step of a dispatcher keeps QuotaInv.
LEMMA QuotaDispatcher ==
  ASSUME TypeInv, QuotaInv, NEW c \in Dispatchers,
         ProcessQueueOnce(c) \/ LocalRunReturns(c) \/ DispatcherDies(c)
  PROVE  QuotaInv'
<1> SUFFICES ASSUME NEW p \in Projects
             PROVE  QuotaStep(slots[p], Pending(p), slots'[p], Pending(p)',
                              MaxConcurrent[p])
  BY QuotaKept
<1> USE DEF TypeInv, TypeOK, Goes, Leaves, Pending, QuotaStep
<1>1. CASE Pop(c)
  BY <1>1 DEF Pop
<1>2. CASE SkipRun(c)
  BY <1>2 DEF SkipRun
<1>3. CASE PurgeLapsed(c)
  BY <1>3 DEF PurgeLapsed, WithSlots, SlotsFor
<1>4. CASE CountActive(c)
  <2>1. CASE ProjectOf[task[c]] = p
    <3>1. CASE Cardinality(slots[p]) >= MaxConcurrent[p]
      BY <1>4, <2>1, <3>1 DEF CountActive, SlotsFor
    <3>2. CASE ~(Cardinality(slots[p]) >= MaxConcurrent[p])
      <4>1. Cardinality(slots[p]) \in Nat /\ MaxConcurrent[p] \in Nat
        BY FS_CardinalityType DEF QuotaInv
      <4>2. Cardinality(slots[p]) < MaxConcurrent[p] /\ slots'[p] = slots[p]
        BY <1>4, <3>2, <4>1 DEF CountActive
      <4> QED
        BY <4>2
    <3> QED
      BY <3>1, <3>2
  <2>2. CASE ProjectOf[task[c]] # p
    BY <1>4, <2>2 DEF CountActive
  <2> QED
    BY <2>1, <2>2
<1>5. CASE TakeSlot(c)
  <2>1. CASE ProjectOf[task[c]] = p
    <3>1. c \in Pending(p) /\ task[c] \in Requests
      BY <1>5, <2>1 DEF TakeSlot
    <3>2. slots'[p] \subseteq slots[p] \cup {task[c]}
      BY <1>5, <2>1 DEF TakeSlot, WithSlots, SlotsFor
    <3>3. Pending(p)' \subseteq Pending(p) \ {c}
      BY <1>5 DEF TakeSlot
    <3> QED
      BY <3>1, <3>2, <3>3
  <2>2. CASE ProjectOf[task[c]] # p
    BY <1>5, <2>2 DEF TakeSlot, WithSlots, SlotsFor
  <2> QED
    BY <2>1, <2>2
<1>6. CASE Requeue(c)
  BY <1>6 DEF Requeue
<1>7. CASE ConsumerThrows(c)
  <2>1. task[c] \in Requests
    BY <1>7 DEF ConsumerThrows
  <2>2. Pending(p)' \subseteq Pending(p) \ {c}
    BY <1>7 DEF ConsumerThrows
  <2>3. CASE pc[c] = "counted" /\ ProjectOf[task[c]] = p
    <3>1. slots'[p] \subseteq slots[p] \cup {task[c]}
      BY <1>7, <2>3 DEF ConsumerThrows, WithSlots, SlotsFor
    <3> QED
      BY <2>1, <2>2, <2>3, <3>1
  <2>4. CASE ~(pc[c] = "counted" /\ ProjectOf[task[c]] = p)
    <3>1. slots'[p] \subseteq slots[p]
      BY <1>7, <2>1, <2>4 DEF ConsumerThrows, WithSlots, SlotsFor
    <3> QED
      BY <2>2, <3>1
  <2> QED
    BY <2>3, <2>4
<1>8. CASE StartRun(c)
  BY <1>8 DEF StartRun
<1>9. CASE StartThrows(c)
  BY <1>9 DEF StartThrows
<1>10. CASE LocalRunReturns(c)
  BY <1>10 DEF LocalRunReturns
<1>11. CASE ReleaseSlot(c)
  BY <1>11 DEF ReleaseSlot, WithSlots, SlotsFor
<1>12. CASE ReleaseThrows(c)
  BY <1>12 DEF ReleaseThrows
<1>13. CASE DispatcherDies(c)
  BY <1>13 DEF DispatcherDies
<1> QED
  BY <1>1, <1>2, <1>3, <1>4, <1>5, <1>6, <1>7, <1>8, <1>9, <1>10, <1>11, <1>12,
     <1>13 DEF ProcessQueueOnce, Acquire, DispatchTask

\* Every step keeps QuotaInv: the handlers and the world leave the active sets and
\* the dispatchers alone.
LEMMA QuotaNext == TypeInv /\ QuotaInv /\ [Next]_vars => QuotaInv'
<1> SUFFICES ASSUME TypeInv, QuotaInv, [Next]_vars PROVE QuotaInv'
  OBVIOUS
<1>1. ASSUME UNCHANGED <<slots, pc, task>> PROVE QuotaInv'
  BY <1>1 DEF QuotaInv, Pending
<1>2. ASSUME NEW r \in Requests,
             \/ Receive(r) \/ Handler(r)
             \/ RunEnds(r) \/ LeaseLapses(r) \/ ComesAgain(r)
      PROVE  QuotaInv'
  BY <1>1, <1>2 DEF Receive, Handler, FirstDelivery, DuplicateEvent, NotResolved,
     Enqueue, HandlerThrows, RunEnds, LeaseLapses, ComesAgain, consumer
<1>3. ASSUME NEW d \in Deliveries, DedupeExpires(d) PROVE QuotaInv'
  BY <1>1, <1>3 DEF DedupeExpires, consumer
<1>4. CASE UNCHANGED vars
  BY <1>1, <1>4 DEF vars
<1> QED
  BY <1>2, <1>3, <1>4, QuotaDispatcher DEF Next, Idle

\* For any number of dispatchers, the active set of a project exceeds
\* max_concurrent_runs by less than that number; one dispatcher keeps it exactly.
THEOREM QuotaOvershootBounded == Spec => []QuotaOvershoot
<1>1. QuotaInv => QuotaOvershoot
  <2> SUFFICES ASSUME QuotaInv, NEW p \in Projects
               PROVE  Cardinality(slots[p]) + 1
                        <= MaxConcurrent[p] + Cardinality(Dispatchers)
    BY DEF QuotaOvershoot
  <2>1. IsFiniteSet(slots[p]) /\ Pending(p) \subseteq Dispatchers
    BY DEF QuotaInv, Pending
  <2>2. Cardinality(slots[p]) \in Nat /\ Cardinality(Pending(p)) \in Nat
        /\ Cardinality(Dispatchers) \in Nat /\ MaxConcurrent[p] \in Nat
    BY <2>1, PendingFinite, FS_CardinalityType
  <2> QED
    BY <2>2 DEF QuotaInv
<1>2. Spec => [](TypeInv /\ QuotaInv)
  BY TypeInit, TypeNext, QuotaInit, QuotaNext, PTL DEF Spec
<1> QED
  BY <1>1, <1>2, PTL

-----------------------------------------------------------------------------
(* Places.  What is on a queue is stated without counting, so that pushes  *)
(* and pops can be followed position by position.                          *)

OnQueue(r) ==
    \E i \in DOMAIN queue[ProjectOf[r]] : queue[ProjectOf[r]][i] = r
Held(r) == \E c \in Dispatchers : task[c] = r
Entering == {"unsent", "received", "fresh"}

\* A queue has tasks of its project only, and each of them once.
EachOnce(p, q) ==
    /\ \A i \in DOMAIN q : ProjectOf[q[i]] = p
    /\ \A i, j \in DOMAIN q : q[i] = q[j] => i = j
QueueInv == \A p \in Projects : EachOnce(p, queue[p])

\* A request that has entered is in one place, one that has not is in none.
HoldInv ==
    /\ \A r \in Requests :
          /\ OnQueue(r) => ~Settled(r) /\ ~Held(r)
          /\ handler[r] \in Entering => ~OnQueue(r) /\ ~Held(r) /\ ~Settled(r)
          /\ handler[r] = "queued" => OnQueue(r) \/ Held(r) \/ Settled(r)
    /\ \A c \in Dispatchers : task[c] # NoTask =>
          /\ \A b \in Dispatchers : task[b] = task[c] => b = c
          /\ Settled(task[c]) <=> pc[c] \in {"running", "releasing"}

\* At first nothing is anywhere.
LEMMA PlacesInit == Init => QueueInv /\ HoldInv
  BY DEF Init, QueueInv, EachOnce, HoldInv, OnQueue, Held, Settled, Entering

\* Pushing a task that is not queued adds it, once, to its project's queue.
LEMMA Push ==
  ASSUME TypeOK, QueueInv, NEW r \in Requests, ~OnQueue(r), queue' = Pushed(r)
  PROVE  QueueInv' /\ \A x \in Requests : OnQueue(x)' <=> OnQueue(x) \/ x = r
<1> DEFINE p == ProjectOf[r]
           q == queue[p]
<1>1. p \in Projects /\ q \in Seq(Requests) /\ queue'[p] = Append(q, r)
  BY DEF TypeOK, Pushed
<1>2. /\ DOMAIN queue'[p] = DOMAIN q \cup {Len(q) + 1}
      /\ Len(q) + 1 \notin DOMAIN q
      /\ \A i \in DOMAIN q : queue'[p][i] = q[i]
      /\ queue'[p][Len(q) + 1] = r
  BY <1>1
<1>3. \A o \in Projects : o # p => queue'[o] = queue[o]
  BY DEF TypeOK, Pushed
<1>4. \A i \in DOMAIN q : q[i] # r
  BY DEF OnQueue
<1>5. QueueInv'
  <2> SUFFICES ASSUME NEW o \in Projects PROVE EachOnce(o, queue'[o])
    BY DEF QueueInv, EachOnce
  <2>1. CASE o # p
    <3>1. queue'[o] = queue[o]
      BY <2>1, <1>3
    <3> QED
      BY <3>1 DEF QueueInv
  <2>2. CASE o = p
    <3> HIDE DEF q
    <3>1. EachOnce(p, q)
      BY <1>1 DEF QueueInv, q
    <3> QED
      BY <2>2, <3>1, <1>2, <1>4 DEF EachOnce
  <2> QED
    BY <2>1, <2>2
<1>6. ASSUME NEW x \in Requests PROVE OnQueue(x)' <=> OnQueue(x) \/ x = r
  <2>1. CASE ProjectOf[x] # p
    BY <2>1, <1>1, <1>3 DEF OnQueue
  <2>2. CASE ProjectOf[x] = p
    <3> HIDE DEF q, p
    <3>1. OnQueue(x) <=> \E i \in DOMAIN q : q[i] = x
      BY <2>2 DEF OnQueue, q
    <3>2. OnQueue(x)' <=> \E i \in DOMAIN queue'[p] : queue'[p][i] = x
      BY <2>2 DEF OnQueue
    <3> QED
      BY <3>1, <3>2, <1>2
  <2> QED
    BY <2>1, <2>2
<1> QED
  BY <1>5, <1>6

\* Popping takes the task at the front off its project's queue.
LEMMA PopFront ==
  ASSUME TypeOK, QueueInv, NEW p \in Projects, queue[p] # <<>>,
         queue' = [queue EXCEPT ![p] = Tail(@)]
  PROVE  /\ QueueInv'
         /\ Head(queue[p]) \in Requests /\ OnQueue(Head(queue[p]))
         /\ \A x \in Requests :
               OnQueue(x)' <=> OnQueue(x) /\ x # Head(queue[p])
<1> DEFINE q == queue[p]
           h == Head(q)
<1>1. q \in Seq(Requests) /\ queue'[p] = Tail(q) /\ Len(q) \in Nat \ {0}
  BY DEF TypeOK
<1>2. /\ h = q[1] /\ h \in Requests /\ 1 \in DOMAIN q
      /\ DOMAIN q = 1..Len(q)
      /\ DOMAIN queue'[p] = 1..(Len(q) - 1)
      /\ \A i \in DOMAIN queue'[p] : queue'[p][i] = q[i + 1]
  <2> HIDE DEF q
  <2>1. h = q[1] /\ h \in Requests /\ 1 \in DOMAIN q /\ DOMAIN q = 1..Len(q)
    BY <1>1
  <2>2. DOMAIN Tail(q) = 1..(Len(q) - 1) /\ \A i \in DOMAIN Tail(q) : Tail(q)[i] = q[i + 1]
    BY <1>1
  <2> QED
    BY <2>1, <2>2, <1>1
<1>3. \A o \in Projects : o # p => queue'[o] = queue[o]
  BY DEF TypeOK
<1>4. /\ \A i \in DOMAIN q : ProjectOf[q[i]] = p
      /\ \A i, j \in DOMAIN q : q[i] = q[j] => i = j
  BY DEF QueueInv, EachOnce
<1>5. QueueInv'
  <2> SUFFICES ASSUME NEW o \in Projects PROVE EachOnce(o, queue'[o])
    BY DEF QueueInv, EachOnce
  <2>1. CASE o # p
    <3>1. queue'[o] = queue[o]
      BY <2>1, <1>3
    <3> QED
      BY <3>1 DEF QueueInv
  <2>2. CASE o = p
    <3> HIDE DEF q, h
    <3>1. ASSUME NEW i \in DOMAIN queue'[p]
          PROVE  i + 1 \in DOMAIN q /\ i \in Nat /\ queue'[p][i] = q[i + 1]
      BY <1>1, <1>2
    <3>2. ASSUME NEW i \in DOMAIN queue'[p] PROVE ProjectOf[queue'[p][i]] = p
      BY <3>1, <1>4
    <3>3. ASSUME NEW i \in DOMAIN queue'[p], NEW j \in DOMAIN queue'[p],
                 queue'[p][i] = queue'[p][j]
          PROVE  i = j
      <4>1. q[i + 1] = q[j + 1] /\ i + 1 \in DOMAIN q /\ j + 1 \in DOMAIN q
        BY <3>1, <3>3
      <4>2. i + 1 = j + 1
        BY <4>1, <1>4
      <4> QED
        BY <4>2, <3>1
    <3> QED
      BY <2>2, <3>2, <3>3 DEF EachOnce
  <2> QED
    BY <2>1, <2>2
<1>6. ProjectOf[h] = p /\ OnQueue(h)
  BY <1>2, <1>4 DEF OnQueue
<1>7. ASSUME NEW x \in Requests PROVE OnQueue(x)' <=> OnQueue(x) /\ x # h
  <2>1. CASE ProjectOf[x] # p
    BY <2>1, <1>3, <1>6 DEF OnQueue
  <2>2. CASE ProjectOf[x] = p
    <3> HIDE DEF q, h
    <3>1. OnQueue(x) <=> \E i \in DOMAIN q : q[i] = x
      BY <2>2 DEF OnQueue, q
    <3>2. OnQueue(x)' <=> \E i \in DOMAIN queue'[p] : queue'[p][i] = x
      BY <2>2 DEF OnQueue
    <3>3. ASSUME NEW i \in DOMAIN q, q[i] = x, x # h
          PROVE  i - 1 \in DOMAIN queue'[p] /\ queue'[p][i - 1] = x
      <4>1. i # 1 /\ i \in 1..Len(q)
        BY <3>3, <1>2
      <4>2. i - 1 \in DOMAIN queue'[p] /\ (i - 1) + 1 = i
        BY <4>1, <1>1, <1>2
      <4> QED
        BY <4>2, <3>3, <1>2
    <3>4. ASSUME NEW i \in DOMAIN queue'[p], queue'[p][i] = x
          PROVE  i + 1 \in DOMAIN q /\ q[i + 1] = x /\ x # h
      <4>1. i + 1 \in DOMAIN q /\ i + 1 # 1 /\ q[i + 1] = x
        BY <3>4, <1>1, <1>2
      <4> QED
        BY <4>1, <1>2, <1>4
    <3> QED
      BY <3>1, <3>2, <3>3, <3>4
  <2> QED
    BY <2>1, <2>2
<1> QED
  BY <1>2, <1>5, <1>6, <1>7

\* Nothing moves in a queue that no step touches.
LEMMA SameQueue ==
  ASSUME QueueInv, UNCHANGED queue
  PROVE  QueueInv' /\ \A x \in Requests : OnQueue(x)' <=> OnQueue(x)
  BY DEF QueueInv, OnQueue

PlacesInv == TypeInv /\ QueueInv /\ HoldInv

\* A step of an HTTP handler keeps every request in its place.
LEMMA PlacesHandler ==
  ASSUME PlacesInv, NEW r \in Requests, Receive(r) \/ Handler(r)
  PROVE  QueueInv' /\ HoldInv'
<1>1. UNCHANGED <<pc, task, runs, dropped>>
  BY DEF Receive, Handler, FirstDelivery, DuplicateEvent, NotResolved, Enqueue,
         HandlerThrows, consumer
<1>2. handler[r] \in Entering /\ ~OnQueue(r) /\ ~Held(r) /\ ~Settled(r)
  BY DEF Receive, Handler, FirstDelivery, DuplicateEvent, NotResolved, Enqueue,
         HandlerThrows, Entering, PlacesInv, HoldInv
<1>3. \A x \in Requests : (Held(x)' <=> Held(x)) /\ (Settled(x)' <=> Settled(x))
  BY <1>1 DEF Held, Settled
<1>4. ASSUME NEW h \in {"received", "fresh", "refused"},
             UNCHANGED queue, handler' = [handler EXCEPT ![r] = h]
      PROVE  QueueInv' /\ HoldInv'
  <2>1. QueueInv' /\ \A x \in Requests : OnQueue(x)' <=> OnQueue(x)
    BY <1>4, SameQueue DEF PlacesInv
  <2>2. \A x \in Requests : handler'[x] = IF x = r THEN h ELSE handler[x]
    BY <1>4 DEF PlacesInv, TypeInv, TypeOK
  <2> QED
    BY <1>1, <1>2, <1>3, <2>1, <2>2 DEF PlacesInv, HoldInv, Entering, Settled
<1>5. ASSUME NEW h \in {"refused", "queued"},
             queue' = Pushed(r), handler' = [handler EXCEPT ![r] = h]
      PROVE  QueueInv' /\ HoldInv'
  <2>1. QueueInv' /\ \A x \in Requests : OnQueue(x)' <=> OnQueue(x) \/ x = r
    BY <1>2, <1>5, Push DEF PlacesInv, TypeInv
  <2>2. \A x \in Requests : handler'[x] = IF x = r THEN h ELSE handler[x]
    BY <1>5 DEF PlacesInv, TypeInv, TypeOK
  <2> QED
    BY <1>1, <1>2, <1>3, <2>1, <2>2 DEF PlacesInv, HoldInv, Entering, Settled
<1> QED
  BY <1>4, <1>5 DEF Receive, Handler, FirstDelivery, DuplicateEvent, NotResolved,
                    Enqueue, HandlerThrows

\* What a dispatcher holds, in the words HoldInv uses.
LEMMA Holder ==
  ASSUME PlacesInv, NEW c \in Dispatchers, pc[c] # "idle"
  PROVE  /\ task[c] \in Requests /\ task[c] # NoTask /\ Held(task[c])
         /\ ~OnQueue(task[c]) /\ handler[task[c]] \notin Entering
         /\ \A b \in Dispatchers : task[b] = task[c] => b = c
         /\ Settled(task[c]) <=> pc[c] \in {"running", "releasing"}
<1>1. task[c] # NoTask /\ task[c] \in Requests
  BY DEF PlacesInv, TypeInv, TypeOK
<1>2. Held(task[c])
  BY DEF Held
<1> QED
  BY <1>1, <1>2 DEF PlacesInv, HoldInv

\* A dispatcher that goes on with its task, started or not.
LEMMA GoesOn ==
  ASSUME PlacesInv, NEW c \in Dispatchers, NEW to \in Places \ {"idle"},
         NEW r \in Requests, task[c] = r, pc[c] # "idle",
         Goes(c, to), UNCHANGED <<queue, handler>>,
         \A x \in Requests : x # r => (Settled(x)' <=> Settled(x)),
         Settled(r)' <=> to \in {"running", "releasing"}
  PROVE  QueueInv' /\ HoldInv'
<1>1. QueueInv' /\ \A x \in Requests : OnQueue(x)' <=> OnQueue(x)
  BY SameQueue DEF PlacesInv
<1>2. UNCHANGED <<task, handler>> /\ \A x \in Requests : Held(x)' <=> Held(x)
  BY DEF Goes, Held
<1>3. \A b \in Dispatchers : pc'[b] = IF b = c THEN to ELSE pc[b]
  BY DEF Goes, PlacesInv, TypeInv, TypeOK
<1>4. \A x \in Requests :
        /\ OnQueue(x)' => ~Settled(x)' /\ ~Held(x)'
        /\ handler'[x] \in Entering => ~OnQueue(x)' /\ ~Held(x)' /\ ~Settled(x)'
        /\ handler'[x] = "queued" => OnQueue(x)' \/ Held(x)' \/ Settled(x)'
  BY <1>1, <1>2, Holder DEF PlacesInv, HoldInv
<1>5. ASSUME NEW b \in Dispatchers, NEW x \in Requests, task'[b] = x
      PROVE  /\ \A a \in Dispatchers : task'[a] = x => a = b
             /\ Settled(x)' <=> pc'[b] \in {"running", "releasing"}
  <2>1. task[b] = x /\ x # NoTask
    BY <1>2, <1>5
  <2>2. \A a \in Dispatchers : task[a] = x => a = b
    BY <2>1 DEF PlacesInv, HoldInv
  <2>3. CASE b = c
    <3>1. x = r /\ pc'[b] = to
      BY <2>1, <2>3, <1>3
    <3> QED
      BY <2>2, <3>1, <1>2
  <2>4. CASE b # c
    <3>1. x # r
      BY <2>2, <2>4
    <3>2. Settled(x) <=> pc[b] \in {"running", "releasing"}
      BY <2>1 DEF PlacesInv, HoldInv
    <3> QED
      BY <2>1, <2>2, <2>4, <3>1, <3>2, <1>2, <1>3
  <2> QED
    BY <2>3, <2>4
<1>6. \A b \in Dispatchers : task'[b] # NoTask => task'[b] \in Requests
  BY <1>2 DEF PlacesInv, TypeInv, TypeOK
<1> QED
  BY <1>1, <1>4, <1>5, <1>6 DEF HoldInv, Settled

\* A dispatcher that leaves a task behind: settled, or back on its queue.
LEMMA LeavesTask ==
  ASSUME PlacesInv, NEW c \in Dispatchers, NEW r \in Requests,
         task[c] = r, pc[c] # "idle", Leaves(c),
         UNCHANGED handler, QueueInv',
         \A x \in Requests : x # r =>
            (Settled(x)' <=> Settled(x)) /\ (OnQueue(x)' <=> OnQueue(x)),
         Settled(r)' <=> ~OnQueue(r)'
  PROVE  QueueInv' /\ HoldInv'
<1>1. \A b \in Dispatchers : /\ task'[b] = IF b = c THEN NoTask ELSE task[b]
                             /\ b # c => pc'[b] = pc[b]
  BY DEF Leaves, PlacesInv, TypeInv, TypeOK
<1>2. ~Held(r)'
  BY <1>1, Holder DEF Held
<1>3. \A x \in Requests : x # r => (Held(x)' <=> Held(x))
  BY <1>1, RequestsAssumption DEF Held
<1>4. \A x \in Requests :
        /\ OnQueue(x)' => ~Settled(x)' /\ ~Held(x)'
        /\ handler'[x] \in Entering => ~OnQueue(x)' /\ ~Held(x)' /\ ~Settled(x)'
        /\ handler'[x] = "queued" => OnQueue(x)' \/ Held(x)' \/ Settled(x)'
  BY <1>2, <1>3, Holder DEF PlacesInv, HoldInv
<1>5. ASSUME NEW b \in Dispatchers, NEW x \in Requests, task'[b] = x
      PROVE  /\ \A a \in Dispatchers : task'[a] = x => a = b
             /\ Settled(x)' <=> pc'[b] \in {"running", "releasing"}
  <2>1. b # c /\ task[b] = x /\ pc'[b] = pc[b] /\ x # NoTask
    BY <1>1, <1>5
  <2>2. /\ \A a \in Dispatchers : task[a] = x => a = b
        /\ Settled(x) <=> pc[b] \in {"running", "releasing"}
    BY <2>1 DEF PlacesInv, HoldInv
  <2>3. x # r
    BY <2>1, <2>2
  <2> QED
    BY <2>1, <2>2, <2>3, <1>1
<1>6. \A b \in Dispatchers : task'[b] # NoTask => task'[b] \in Requests
  BY <1>1 DEF PlacesInv, TypeInv, TypeOK
<1> QED
  BY <1>4, <1>5, <1>6 DEF HoldInv, Settled

\* Taking the task at the front of a queue.
LEMMA PlacesPop ==
  ASSUME PlacesInv, NEW c \in Dispatchers, Pop(c)
  PROVE  QueueInv' /\ HoldInv'
<1>1. PICK p \in Projects : /\ queue[p] # <<>>
                            /\ task' = [task EXCEPT ![c] = Head(queue[p])]
                            /\ queue' = [queue EXCEPT ![p] = Tail(@)]
  BY DEF Pop, FirstNonEmpty
<1> DEFINE r == Head(queue[p])
<1>2. /\ QueueInv' /\ r \in Requests /\ OnQueue(r)
      /\ \A x \in Requests : OnQueue(x)' <=> OnQueue(x) /\ x # r
  BY <1>1, PopFront DEF PlacesInv, TypeInv
<1>3. UNCHANGED <<handler, runs, dropped>> /\ pc[c] = "idle" /\ task[c] = NoTask
  BY DEF Pop, web, PlacesInv, TypeInv, TypeOK
<1> HIDE DEF r
<1>4. ~Settled(r) /\ ~Held(r) /\ handler[r] \notin Entering
  BY <1>2 DEF PlacesInv, HoldInv
<1>5. \A b \in Dispatchers : /\ task'[b] = IF b = c THEN r ELSE task[b]
                             /\ pc'[b] = IF b = c THEN "popped" ELSE pc[b]
  BY <1>1 DEF Pop, PlacesInv, TypeInv, TypeOK, r
<1>6. \A x \in Requests : /\ Settled(x)' <=> Settled(x)
                          /\ Held(x)' <=> Held(x) \/ x = r
  BY <1>3, <1>5 DEF Settled, Held
<1>7. \A x \in Requests :
        /\ OnQueue(x)' => ~Settled(x)' /\ ~Held(x)'
        /\ handler'[x] \in Entering => ~OnQueue(x)' /\ ~Held(x)' /\ ~Settled(x)'
        /\ handler'[x] = "queued" => OnQueue(x)' \/ Held(x)' \/ Settled(x)'
  BY <1>2, <1>3, <1>4, <1>6 DEF PlacesInv, HoldInv
<1>8. ASSUME NEW b \in Dispatchers, NEW x \in Requests, task'[b] = x
      PROVE  /\ \A a \in Dispatchers : task'[a] = x => a = b
             /\ Settled(x)' <=> pc'[b] \in {"running", "releasing"}
  <2>1. CASE b = c
    <3>1. x = r /\ pc'[b] = "popped"
      BY <2>1, <1>5, <1>8
    <3>2. \A a \in Dispatchers : task[a] # r
      BY <1>4 DEF Held
    <3> QED
      BY <2>1, <3>1, <3>2, <1>4, <1>5, <1>6
  <2>2. CASE b # c
    <3>1. task[b] = x /\ x # NoTask /\ x # r /\ pc'[b] = pc[b]
      BY <2>2, <1>4, <1>5, <1>8 DEF Held
    <3>2. /\ \A a \in Dispatchers : task[a] = x => a = b
          /\ Settled(x) <=> pc[b] \in {"running", "releasing"}
      BY <3>1 DEF PlacesInv, HoldInv
    <3> QED
      BY <3>1, <3>2, <1>5, <1>6
  <2> QED
    BY <2>1, <2>2
<1>9. \A b \in Dispatchers : task'[b] # NoTask => task'[b] \in Requests
  BY <1>2, <1>5 DEF PlacesInv, TypeInv, TypeOK
<1> QED
  BY <1>2, <1>7, <1>8, <1>9 DEF HoldInv, Settled

\* A step of a dispatcher keeps every request in its place, or moves its own.
LEMMA PlacesDispatcher ==
  ASSUME PlacesInv, NEW c \in Dispatchers,
         ProcessQueueOnce(c) \/ LocalRunReturns(c) \/ DispatcherDies(c)
  PROVE  QueueInv' /\ HoldInv'
<1>1. CASE Pop(c)
  BY <1>1, PlacesPop
<1> SUFFICES ASSUME pc[c] # "idle" PROVE QueueInv' /\ HoldInv'
  BY <1>1 DEF ProcessQueueOnce, Acquire, DispatchTask, LocalRunReturns, DispatcherDies,
     SkipRun, PurgeLapsed, CountActive, TakeSlot, Requeue, ConsumerThrows, StartRun,
     StartThrows, ReleaseSlot, ReleaseThrows
<1>r. PICK r \in Requests : task[c] = r
  BY Holder
<1>2. /\ ~OnQueue(r)
      /\ UNCHANGED queue =>
            QueueInv' /\ \A x \in Requests : OnQueue(x)' <=> OnQueue(x)
  BY <1>r, Holder, SameQueue DEF PlacesInv
<1>3. Settled(r) <=> pc[c] \in {"running", "releasing"}
  BY <1>r, Holder
<1>4. ASSUME UNCHANGED <<queue, handler, runs>>, dropped' = dropped \cup {r}, Leaves(c)
      PROVE  QueueInv' /\ HoldInv'
  <2>1. \A x \in Requests : x # r => (Settled(x)' <=> Settled(x))
    BY <1>4 DEF Settled
  <2>2. Settled(r)'
    BY <1>4 DEF Settled
  <2> QED
    BY <1>r, <1>2, <1>4, <2>1, <2>2, LeavesTask
<1>5. ASSUME queue' = Pushed(r), UNCHANGED <<handler, runs, dropped>>, Leaves(c),
             pc[c] = "full"
      PROVE  QueueInv' /\ HoldInv'
  <2>1. QueueInv' /\ \A x \in Requests : OnQueue(x)' <=> OnQueue(x) \/ x = r
    BY <1>r, <1>2, <1>5, Push DEF PlacesInv, TypeInv
  <2>2. \A x \in Requests : Settled(x)' <=> Settled(x)
    BY <1>5 DEF Settled
  <2> QED
    BY <1>r, <1>2, <1>3, <1>5, <2>1, <2>2, LeavesTask
<1>6. ASSUME NEW to \in {"purged", "full", "counted", "acquired"},
             UNCHANGED <<queue, handler, runs, dropped>>, Goes(c, to),
             pc[c] \in {"popped", "purged", "counted"}
      PROVE  QueueInv' /\ HoldInv'
  <2>1. \A x \in Requests : Settled(x)' <=> Settled(x)
    BY <1>6 DEF Settled
  <2> QED
    BY <1>r, <1>2, <1>3, <1>6, <2>1, GoesOn DEF Places
<1>7. ASSUME UNCHANGED <<queue, handler, runs, dropped>>, pc[c] = "releasing", Leaves(c)
      PROVE  QueueInv' /\ HoldInv'
  <2>1. \A x \in Requests : Settled(x)' <=> Settled(x)
    BY <1>7 DEF Settled
  <2> QED
    BY <1>r, <1>2, <1>3, <1>7, <2>1, LeavesTask
<1>8. CASE SkipRun(c)
  BY <1>4, <1>8, <1>r DEF SkipRun, web
<1>9. CASE PurgeLapsed(c)
  BY <1>6, <1>9, <1>r DEF PurgeLapsed, web
<1>10. CASE CountActive(c)
  BY <1>6, <1>10, <1>r DEF CountActive, web
<1>11. CASE TakeSlot(c)
  BY <1>6, <1>11, <1>r DEF TakeSlot, web
<1>12. CASE Requeue(c)
  BY <1>5, <1>12, <1>r DEF Requeue, web
<1>13. CASE ConsumerThrows(c)
  BY <1>4, <1>5, <1>13, <1>r DEF ConsumerThrows, web
<1>14. CASE StartRun(c)
  <2>1. /\ UNCHANGED <<queue, handler, dropped>>
        /\ runs' = [runs EXCEPT ![r] = "live"]
    BY <1>14, <1>r DEF StartRun, web
  <2>2. Settled(r)' /\ \A x \in Requests : x # r => (Settled(x)' <=> Settled(x))
    BY <1>r, <1>2, <2>1 DEF Settled, PlacesInv, TypeInv, TypeOK
  <2>3. CASE k8sMode
    BY <2>1, <2>2, <2>3, <1>r, <1>2, <1>14, LeavesTask DEF StartRun
  <2>4. CASE ~k8sMode
    BY <2>1, <2>2, <2>4, <1>r, <1>2, <1>14, GoesOn DEF StartRun, Places
  <2> QED
    BY <2>3, <2>4
<1>15. CASE StartThrows(c)
  <2>1. /\ UNCHANGED <<queue, handler>> /\ dropped' = dropped \cup {r}
        /\ \A x \in Requests : x # r => runs'[x] = runs[x]
        /\ Goes(c, "releasing")
    BY <1>15, <1>r DEF StartThrows, web, PlacesInv, TypeInv, TypeOK
  <2>2. Settled(r)' /\ \A x \in Requests : x # r => (Settled(x)' <=> Settled(x))
    BY <2>1 DEF Settled
  <2> QED
    BY <2>1, <2>2, <1>r, <1>2, GoesOn DEF Places
<1>16. CASE LocalRunReturns(c)
  <2>1. /\ UNCHANGED <<queue, handler, dropped>> /\ Goes(c, "releasing")
        /\ runs' = [runs EXCEPT ![r] = "over"]
    BY <1>16, <1>r DEF LocalRunReturns, web
  <2>2. Settled(r)' /\ \A x \in Requests : x # r => (Settled(x)' <=> Settled(x))
    BY <1>r, <1>2, <2>1 DEF Settled, PlacesInv, TypeInv, TypeOK
  <2> QED
    BY <2>1, <2>2, <1>r, <1>2, GoesOn DEF Places
<1>17. CASE ReleaseSlot(c)
  BY <1>7, <1>17, <1>r DEF ReleaseSlot, web
<1>18. CASE ReleaseThrows(c)
  BY <1>7, <1>18, <1>r DEF ReleaseThrows, web
<1>19. CASE DispatcherDies(c)
  <2>1. UNCHANGED <<queue, handler, runs>> /\ Leaves(c)
        /\ dropped' = IF runs[r] = "none" THEN dropped \cup {r} ELSE dropped
    BY <1>19, <1>r DEF DispatcherDies, web
  <2>2. Settled(r)' /\ \A x \in Requests : x # r => (Settled(x)' <=> Settled(x))
    BY <2>1 DEF Settled
  <2> QED
    BY <2>1, <2>2, <1>r, <1>2, LeavesTask
<1> QED
  BY <1>8, <1>9, <1>10, <1>11, <1>12, <1>13, <1>14, <1>15, <1>16, <1>17, <1>18, <1>19,
     <1>1 DEF ProcessQueueOnce, Acquire, DispatchTask

\* A run that ends, a lease and a dedupe key that expire move no request.
LEMMA PlacesWorld ==
  ASSUME PlacesInv,
         \/ \E r \in Requests : RunEnds(r) \/ LeaseLapses(r)
         \/ \E d \in Deliveries : DedupeExpires(d)
         \/ UNCHANGED vars
  PROVE  QueueInv' /\ HoldInv'
<1>1. UNCHANGED <<queue, handler, pc, task, dropped>>
  BY DEF RunEnds, LeaseLapses, DedupeExpires, vars, web, consumer
<1>2. \A x \in Requests : runs'[x] = "none" <=> runs[x] = "none"
  BY DEF RunEnds, LeaseLapses, DedupeExpires, vars, PlacesInv, TypeInv, TypeOK
<1>3. QueueInv' /\ \A x \in Requests : OnQueue(x)' <=> OnQueue(x)
  BY <1>1, SameQueue DEF PlacesInv
<1>4. \A x \in Requests : (Settled(x)' <=> Settled(x)) /\ (Held(x)' <=> Held(x))
  BY <1>1, <1>2 DEF Settled, Held
<1>5. \A c \in Dispatchers : task[c] # NoTask => task[c] \in Requests
  BY DEF PlacesInv, TypeInv, TypeOK
<1> QED
  BY <1>1, <1>2, <1>3, <1>4, <1>5 DEF PlacesInv, HoldInv, Settled

\* The place of a request of which nothing is left is empty.
LEMMA PlacesAgain ==
  ASSUME PlacesInv, NEW r \in Requests, ComesAgain(r)
  PROVE  QueueInv' /\ HoldInv'
<1>1. UNCHANGED <<queue, pc, task>>
  BY DEF ComesAgain, consumer
<1>2. QueueInv' /\ \A x \in Requests : OnQueue(x)' <=> OnQueue(x)
  BY <1>1, SameQueue DEF PlacesInv
<1>3. \A x \in Requests : Held(x)' <=> Held(x)
  BY <1>1 DEF Held
<1>4. ~OnQueue(r) /\ ~Held(r) /\ ~Settled(r)' /\ handler'[r] = "unsent"
  BY DEF ComesAgain, OnQueue, Held, Settled, PlacesInv, TypeInv, TypeOK
<1>5. \A x \in Requests : x # r => handler'[x] = handler[x]
  BY DEF ComesAgain, PlacesInv, TypeInv, TypeOK
<1>8. \A x \in Requests : x # r => (Settled(x)' <=> Settled(x))
  BY DEF ComesAgain, Settled, PlacesInv, TypeInv, TypeOK
<1>6. \A x \in Requests :
        /\ OnQueue(x)' => ~Settled(x)' /\ ~Held(x)'
        /\ handler'[x] \in Entering => ~OnQueue(x)' /\ ~Held(x)' /\ ~Settled(x)'
        /\ handler'[x] = "queued" => OnQueue(x)' \/ Held(x)' \/ Settled(x)'
  <2>1. ASSUME NEW x \in Requests, x # r
        PROVE  /\ OnQueue(x)' => ~Settled(x)' /\ ~Held(x)'
               /\ handler'[x] \in Entering => ~OnQueue(x)' /\ ~Held(x)' /\ ~Settled(x)'
               /\ handler'[x] = "queued" => OnQueue(x)' \/ Held(x)' \/ Settled(x)'
    BY <1>2, <1>3, <1>5, <1>8, <2>1 DEF PlacesInv, HoldInv
  <2>2. ~OnQueue(r)' /\ ~Held(r)' /\ ~Settled(r)' /\ handler'[r] # "queued"
    BY <1>2, <1>3, <1>4
  <2> QED
    BY <2>1, <2>2
<1>7. ASSUME NEW c \in Dispatchers, task'[c] # NoTask
      PROVE  /\ \A b \in Dispatchers : task'[b] = task'[c] => b = c
             /\ Settled(task[c])' <=> pc'[c] \in {"running", "releasing"}
  <2>1. task[c] \in Requests /\ task[c] # r
    BY <1>1, <1>7 DEF ComesAgain, PlacesInv, TypeInv, TypeOK
  <2>2. task[c] # NoTask
    BY <1>1, <1>7
  <2>3. /\ \A b \in Dispatchers : task[b] = task[c] => b = c
        /\ Settled(task[c]) <=> pc[c] \in {"running", "releasing"}
    BY <2>2 DEF PlacesInv, HoldInv
  <2>4. task'[c] = task[c]
    BY <1>1
  <2>5. Settled(task[c])' <=> Settled(task[c])
    BY <1>8, <2>1, <2>4
  <2> QED
    BY <1>1, <2>3, <2>4, <2>5
<1> QED
  BY <1>1, <1>2, <1>6, <1>7 DEF HoldInv, Settled

\* In every reachable state a request is in the place its handler says.
LEMMA PlacesHold == Spec => []PlacesInv
<1>1. Init => PlacesInv
  BY TypeInit, PlacesInit DEF PlacesInv
<1>2. PlacesInv /\ [Next]_vars => PlacesInv'
  <2> SUFFICES ASSUME PlacesInv, [Next]_vars PROVE PlacesInv'
    OBVIOUS
  <2>1. TypeInv'
    BY TypeNext DEF PlacesInv
  <2>2. QueueInv' /\ HoldInv'
    BY PlacesHandler, PlacesDispatcher, PlacesWorld, PlacesAgain DEF Next, Idle
  <2> QED
    BY <2>1, <2>2 DEF PlacesInv
<1> QED
  BY <1>1, <1>2, PTL DEF Spec

\* A set whose members are all equal has at most one member.
LEMMA AtMostOne ==
  ASSUME NEW S, \A x, y \in S : x = y
  PROVE  Cardinality(S) = IF S = {} THEN 0 ELSE 1
<1>1. CASE S = {}
  BY <1>1, FS_EmptySet
<1>2. CASE S # {}
  <2>1. PICK x \in S : TRUE
    BY <1>2
  <2>2. S = {x}
    BY <2>1
  <2> QED
    BY <1>2, <2>2, FS_Singleton
<1> QED
  BY <1>1, <1>2

\* However pushes, pops and failures interleave, a task is never in two places,
\* and a task whose request was accepted is always in one.
THEOREM TasksKept == Spec => []TaskInOnePlace
<1>1. PlacesInv => TaskInOnePlace
  <2> SUFFICES ASSUME PlacesInv, NEW r \in Requests
               PROVE  Placed(r) <= 1 /\ (handler[r] = "queued" => Placed(r) = 1)
    BY DEF TaskInOnePlace
  <2> DEFINE Q == {i \in DOMAIN queue[ProjectOf[r]] : queue[ProjectOf[r]][i] = r}
             H == {c \in Dispatchers : task[c] = r /\ ~Settled(r)}
  <2>1. Q = {} <=> ~OnQueue(r)
    BY DEF OnQueue
  <2>2. Cardinality(Q) = IF OnQueue(r) THEN 1 ELSE 0
    <3>1. \A i, j \in Q : i = j
      BY DEF PlacesInv, QueueInv, EachOnce
    <3> QED
      BY <2>1, <3>1, AtMostOne
  <2>3. Cardinality(H) = IF Held(r) /\ ~Settled(r) THEN 1 ELSE 0
    <3>1. \A b, c \in H : b = c
      BY DEF PlacesInv, HoldInv
    <3>2. H = {} <=> ~(Held(r) /\ ~Settled(r))
      BY DEF Held
    <3> QED
      BY <3>1, <3>2, AtMostOne
  <2>4. /\ OnQueue(r) => ~Settled(r) /\ ~Held(r)
        /\ handler[r] = "queued" => OnQueue(r) \/ Held(r) \/ Settled(r)
    BY DEF PlacesInv, HoldInv
  <2> HIDE DEF Q, H
  <2>5. Placed(r) = Cardinality(Q) + Cardinality(H) + (IF Settled(r) THEN 1 ELSE 0)
    BY DEF Placed, Q, H
  <2> QED
    BY <2>2, <2>3, <2>4, <2>5
<1> QED
  BY <1>1, PlacesHold, PTL

-----------------------------------------------------------------------------
(* Slots.                                                                  *)

\* A run that is started has a slot; only a run that is over, or whose start
\* failed, gives it back.
SlotInv ==
    /\ LiveRunsHoldSlots
    /\ \A c \in Dispatchers :
          /\ pc[c] = "acquired" => task[c] \in slots[ProjectOf[task[c]]] \cup lapsed
          /\ pc[c] = "releasing" =>
                runs[task[c]] # "live" \/ task[c] \in dropped

\* A step of a dispatcher takes no slot from a run that goes on.
LEMMA SlotDispatcher ==
  ASSUME PlacesInv, SlotInv, NEW c \in Dispatchers,
         ProcessQueueOnce(c) \/ LocalRunReturns(c) \/ DispatcherDies(c)
  PROVE  SlotInv'
<1> USE DEF SlotInv, LiveRunsHoldSlots, PlacesInv, TypeInv, TypeOK, Goes, Leaves
<1>1. CASE Pop(c)
  BY <1>1 DEF Pop, web
<1> SUFFICES ASSUME pc[c] # "idle" PROVE SlotInv'
  BY <1>1 DEF ProcessQueueOnce, Acquire, DispatchTask, LocalRunReturns, DispatcherDies,
     SkipRun, PurgeLapsed, CountActive, TakeSlot, Requeue, ConsumerThrows, StartRun,
     StartThrows, ReleaseSlot, ReleaseThrows
<1>r. PICK r \in Requests : task[c] = r
  BY Holder
<1>2. \A b \in Dispatchers : task[b] = r => b = c
  BY <1>r, Holder
<1>3. CASE SkipRun(c)
  BY <1>3, <1>r, <1>2 DEF SkipRun, web
<1>4. CASE PurgeLapsed(c)
  BY <1>4, <1>r, <1>2 DEF PurgeLapsed, web, WithSlots, SlotsFor
<1>5. CASE CountActive(c)
  BY <1>5, <1>r, <1>2 DEF CountActive, web
<1>6. CASE TakeSlot(c)
  BY <1>6, <1>r, <1>2 DEF TakeSlot, web, WithSlots, SlotsFor
<1>7. CASE Requeue(c)
  BY <1>7, <1>r, <1>2 DEF Requeue, web
<1>8. CASE ConsumerThrows(c)
  <2>1. /\ UNCHANGED <<lapsed, runs>> /\ dropped \subseteq dropped' /\ Leaves(c)
        /\ pc[c] \notin {"acquired", "releasing"}
    BY <1>8 DEF ConsumerThrows
  <2>2. \A p \in Projects : slots[p] \ lapsed \subseteq slots'[p]
    <3>1. \/ slots' = slots
          \/ slots' = WithSlots(c, SlotsFor(c) \ lapsed)
          \/ slots' = WithSlots(c, SlotsFor(c) \cup {r})
      BY <1>8, <1>r DEF ConsumerThrows
    <3>2. /\ SlotsFor(c) = slots[ProjectOf[r]] /\ ProjectOf[r] \in Projects
          /\ \A S : WithSlots(c, S) = [slots EXCEPT ![ProjectOf[r]] = S]
      BY <1>r DEF WithSlots, SlotsFor
    <3>3. ASSUME NEW S, slots[ProjectOf[r]] \ lapsed \subseteq S, slots' = WithSlots(c, S)
          PROVE  \A p \in Projects : slots[p] \ lapsed \subseteq slots'[p]
      <4>1. slots' = [slots EXCEPT ![ProjectOf[r]] = S]
        BY <3>2, <3>3, Zenon
      <4>2. \A p \in Projects : slots'[p] = IF p = ProjectOf[r] THEN S ELSE slots[p]
        BY <3>2, <4>1
      <4> QED
        BY <3>3, <4>2
    <3>4. CASE slots' = slots
      BY <3>4
    <3> QED
      BY <3>1, <3>2, <3>3, <3>4, Zenon
  <2>3. LiveRunsHoldSlots'
    BY <2>1, <2>2
  <2>4. \A b \in Dispatchers :
          b # c => pc'[b] = pc[b] /\ task'[b] = task[b] /\ task[b] \in Requests \cup {NoTask}
    BY <2>1
  <2>5. \A b \in Dispatchers : pc[b] # "idle" => ProjectOf[task[b]] \in Projects
    OBVIOUS
  <2> QED
    BY ZenonT(30), <2>1, <2>2, <2>3, <2>4, <2>5
<1>9. CASE StartRun(c)
  BY <1>9, <1>r, <1>2 DEF StartRun, web
<1>10. CASE StartThrows(c)
  BY <1>10, <1>r, <1>2 DEF StartThrows, web
<1>11. CASE LocalRunReturns(c)
  BY <1>11, <1>r, <1>2 DEF LocalRunReturns, web
<1>12. CASE ReleaseSlot(c)
  BY <1>12, <1>r, <1>2 DEF ReleaseSlot, web, WithSlots, SlotsFor
<1>13. CASE ReleaseThrows(c)
  BY <1>13, <1>r, <1>2 DEF ReleaseThrows, web
<1>14. CASE DispatcherDies(c)
  BY <1>14, <1>r, <1>2 DEF DispatcherDies, web
<1> QED
  BY <1>3, <1>4, <1>5, <1>6, <1>7, <1>8, <1>9, <1>10, <1>11, <1>12, <1>13, <1>14,
     <1>1 DEF ProcessQueueOnce, Acquire, DispatchTask

\* A run that goes on, whose lease has not lapsed and whose start was not reported
\* as failed keeps its slot, whatever other dispatchers purge and release.
THEOREM SlotsKept == Spec => []LiveRunsHoldSlots
<1>1. Init => SlotInv
  BY DEF Init, SlotInv, LiveRunsHoldSlots
<1>2. PlacesInv /\ SlotInv /\ [Next]_vars => SlotInv'
  <2> SUFFICES ASSUME PlacesInv, SlotInv, [Next]_vars PROVE SlotInv'
    OBVIOUS
  <2>1. ASSUME UNCHANGED <<slots, pc, task, runs, lapsed, dropped>> PROVE SlotInv'
    BY <2>1 DEF SlotInv, LiveRunsHoldSlots
  <2>2. ASSUME NEW r \in Requests, Receive(r) \/ Handler(r) PROVE SlotInv'
    BY <2>1, <2>2 DEF Receive, Handler, FirstDelivery, DuplicateEvent, NotResolved,
       Enqueue, HandlerThrows, consumer
  <2>3. ASSUME NEW r \in Requests, RunEnds(r) \/ LeaseLapses(r) PROVE SlotInv'
    BY <2>3 DEF RunEnds, LeaseLapses, web, consumer, SlotInv, LiveRunsHoldSlots,
       PlacesInv, TypeInv, TypeOK
  <2>6. ASSUME NEW r \in Requests, ComesAgain(r) PROVE SlotInv'
    BY <2>6 DEF ComesAgain, consumer, SlotInv, LiveRunsHoldSlots, PlacesInv, TypeInv, TypeOK
  <2>4. ASSUME NEW d \in Deliveries, DedupeExpires(d) PROVE SlotInv'
    BY <2>1, <2>4 DEF DedupeExpires, consumer
  <2>5. CASE UNCHANGED vars
    BY <2>1, <2>5 DEF vars
  <2> QED
    BY <2>2, <2>3, <2>4, <2>5, <2>6, SlotDispatcher DEF Next, Idle
<1>3. SlotInv => LiveRunsHoldSlots
  BY DEF SlotInv
<1> QED
  BY <1>1, <1>2, <1>3, PlacesHold, PTL DEF Spec

\* For any number of dispatchers, projects and quotas: the active set of a project is
\* bounded, and whoever should be counted in it is (1743-1755, 1838-1844).
THEOREM QuotaIsHonoured == Spec => []QuotaHonoured
<1>1. QuotaOvershoot /\ LiveRunsHoldSlots => QuotaHonoured
  BY DEF QuotaHonoured
<1> QED
  BY <1>1, QuotaOvershootBounded, SlotsKept, PTL

-----------------------------------------------------------------------------
(* Deliveries.  A request that got past the dedupe check stays inside: its *)
(* handler is to queue it, or it is in one of the places of a task.        *)

Inside(r) ==
    handler[r] \in {"fresh", "queued"} \/ OnQueue(r) \/ Held(r) \/ Settled(r)
InsideOf(d) == {r \in Requests : DeliveryOf[r] = d /\ Inside(r)}

\* OneRunPerDelivery, with the finiteness that makes it a count.
DedupeInv ==
    \A d \in Deliveries : /\ IsFiniteSet(InsideOf(d))
                          /\ Cardinality(InsideOf(d)) <= windows[d]

\* At first no request is inside.
LEMMA DedupeInit == Init => DedupeInv
<1> SUFFICES ASSUME Init, NEW d \in Deliveries
             PROVE  IsFiniteSet(InsideOf(d)) /\ Cardinality(InsideOf(d)) <= windows[d]
  BY DEF DedupeInv
<1>1. InsideOf(d) = {}
  BY DEF Init, InsideOf, Inside, OnQueue, Held, Settled
<1>2. windows[d] = 0
  BY DEF Init
<1> QED
  BY <1>1, <1>2, FS_EmptySet

\* A dispatcher lets no request in: it moves what was inside.
LEMMA InsideDispatcher ==
  ASSUME PlacesInv, NEW c \in Dispatchers,
         ProcessQueueOnce(c) \/ LocalRunReturns(c) \/ DispatcherDies(c)
  PROVE  UNCHANGED web /\ \A x \in Requests : Inside(x)' => Inside(x)
<1>1. CASE Pop(c)
  <2>1. PICK p \in Projects : /\ queue[p] # <<>>
                              /\ task' = [task EXCEPT ![c] = Head(queue[p])]
                              /\ queue' = [queue EXCEPT ![p] = Tail(@)]
    BY <1>1 DEF Pop, FirstNonEmpty
  <2> DEFINE r == Head(queue[p])
  <2>2. OnQueue(r) /\ \A x \in Requests : OnQueue(x)' => OnQueue(x)
    BY <2>1, PopFront DEF PlacesInv, TypeInv
  <2>3. \A b \in Dispatchers : task'[b] = r \/ task'[b] = task[b]
    BY <2>1 DEF PlacesInv, TypeInv, TypeOK
  <2>4. UNCHANGED <<handler, seen, windows, runs, dropped>>
    BY <1>1 DEF Pop, web
  <2> QED
    BY <2>2, <2>3, <2>4 DEF Inside, Held, Settled, web
<1>2. CASE ~Pop(c)
  <2>1. pc[c] # "idle"
    BY <1>2 DEF ProcessQueueOnce, Acquire, DispatchTask, LocalRunReturns, DispatcherDies,
       SkipRun, PurgeLapsed, CountActive, TakeSlot, Requeue, ConsumerThrows, StartRun,
       StartThrows, ReleaseSlot, ReleaseThrows
  <2>2. PICK r \in Requests : task[c] = r
    BY <2>1, Holder
  <2>3. Held(r) /\ ~OnQueue(r)
    BY <2>1, <2>2, Holder
  <2>4. /\ UNCHANGED web
        /\ queue' = queue \/ queue' = Pushed(r)
        /\ task' = task \/ task' = [task EXCEPT ![c] = NoTask]
        /\ dropped' \subseteq dropped \cup {r}
        /\ \A x \in Requests : x # r => runs'[x] = runs[x]
    <3> USE <1>2, <2>2 DEF Goes, Leaves, PlacesInv, TypeInv, TypeOK
    <3>1. CASE SkipRun(c) \/ PurgeLapsed(c) \/ CountActive(c) \/ TakeSlot(c)
      BY <3>1 DEF SkipRun, PurgeLapsed, CountActive, TakeSlot
    <3>2. CASE Requeue(c) \/ ConsumerThrows(c) \/ DispatcherDies(c)
      BY <3>2 DEF Requeue, ConsumerThrows, DispatcherDies
    <3>3. CASE StartRun(c) \/ StartThrows(c) \/ LocalRunReturns(c)
      BY <3>3 DEF StartRun, StartThrows, LocalRunReturns
    <3>4. CASE ReleaseSlot(c) \/ ReleaseThrows(c)
      BY <3>4 DEF ReleaseSlot, ReleaseThrows
    <3> QED
      BY <3>1, <3>2, <3>3, <3>4 DEF ProcessQueueOnce, Acquire, DispatchTask
  <2>5. \A x \in Requests : OnQueue(x)' => OnQueue(x) \/ x = r
    <3>1. CASE queue' = queue
      BY <3>1, SameQueue DEF PlacesInv
    <3>2. CASE queue' = Pushed(r)
      BY <3>2, <2>3, Push DEF PlacesInv, TypeInv
    <3> QED
      BY <2>4, <3>1, <3>2
  <2>6. \A x \in Requests : Held(x)' => Held(x)
    <3>1. \A b \in Dispatchers : task'[b] = task[b] \/ task'[b] = NoTask
      BY <2>4 DEF PlacesInv, TypeInv, TypeOK
    <3> QED
      BY <3>1 DEF Held
  <2>7. \A x \in Requests : Settled(x)' => Settled(x) \/ x = r
    BY <2>4 DEF Settled
  <2> QED
    BY <2>3, <2>4, <2>5, <2>6, <2>7 DEF Inside, web
<1> QED
  BY <1>1, <1>2

\* A handler lets a request in through the dedupe check only, which opens a
\* window; what was sent through the API has no delivery.
LEMMA InsideHandler ==
  ASSUME PlacesInv, NEW r \in Requests, Receive(r) \/ Handler(r),
         NEW d \in Deliveries
  PROVE  \/ InsideOf(d)' \subseteq InsideOf(d) /\ windows'[d] \in {windows[d], windows[d] + 1}
         \/ InsideOf(d)' \subseteq InsideOf(d) \cup {r} /\ windows'[d] = windows[d] + 1
<1>1. UNCHANGED <<pc, task, runs, dropped>>
  BY DEF Receive, Handler, FirstDelivery, DuplicateEvent, NotResolved, Enqueue,
         HandlerThrows, consumer
<1>2. ~OnQueue(r) /\ ~Held(r) /\ ~Settled(r)
  BY DEF Receive, Handler, FirstDelivery, DuplicateEvent, NotResolved, Enqueue,
         HandlerThrows, Entering, PlacesInv, HoldInv
<1>3. \A x \in Requests : (Held(x)' <=> Held(x)) /\ (Settled(x)' <=> Settled(x))
  BY <1>1 DEF Held, Settled
<1>4. \A x \in Requests : x # r => handler'[x] = handler[x]
  BY DEF Receive, Handler, FirstDelivery, DuplicateEvent, NotResolved, Enqueue,
         HandlerThrows, PlacesInv, TypeInv, TypeOK
<1>5. windows'[d] \in {windows[d], windows[d] + 1}
  <2>1. \A e : Opened(e)[d] \in {windows[d], windows[d] + 1}
    BY DEF Opened, PlacesInv, TypeInv, TypeOK
  <2> QED
    BY <2>1 DEF Receive, Handler, FirstDelivery, DuplicateEvent, NotResolved, Enqueue,
       HandlerThrows
<1>6. UNCHANGED queue \/ (queue' = Pushed(r) /\ handler[r] = "fresh")
  BY DEF Receive, Handler, FirstDelivery, DuplicateEvent, NotResolved, Enqueue,
         HandlerThrows
<1>7. \A x \in Requests : x # r => (Inside(x)' => Inside(x))
  <2>1. \A x \in Requests : x # r => (OnQueue(x)' => OnQueue(x))
    BY <1>2, <1>6, SameQueue, Push DEF PlacesInv, TypeInv
  <2> QED
    BY <1>3, <1>4, <2>1 DEF Inside
<1>8. CASE handler[r] = "fresh"
  BY <1>5, <1>7, <1>8 DEF InsideOf, Inside
<1>9. CASE handler[r] # "fresh" /\ handler'[r] # "fresh"
  <2>1. ~OnQueue(r)' /\ handler'[r] # "queued"
    <3>1. UNCHANGED queue
      BY <1>6, <1>9
    <3>2. handler'[r] # "queued"
      BY <1>9 DEF Receive, Handler, FirstDelivery, DuplicateEvent, NotResolved, Enqueue,
         HandlerThrows, PlacesInv, TypeInv, TypeOK
    <3> QED
      BY <1>2, <3>1, <3>2 DEF OnQueue
  <2> QED
    BY <1>2, <1>3, <1>5, <1>7, <1>9, <2>1 DEF InsideOf, Inside
<1>10. CASE handler[r] # "fresh" /\ handler'[r] = "fresh"
  <2>1. Receive(r) \/ FirstDelivery(r)
    BY <1>10 DEF Handler, DuplicateEvent, NotResolved, Enqueue, HandlerThrows, PlacesInv,
       TypeInv, TypeOK
  <2>2. CASE DeliveryOf[r] # d
    BY <2>2, <1>5, <1>7 DEF InsideOf
  <2>3. CASE DeliveryOf[r] = d
    <3>1. FirstDelivery(r)
      BY <1>10, <2>1, <2>3 DEF Receive, PlacesInv, TypeInv, TypeOK
    <3>2. windows'[d] = windows[d] + 1
      BY <2>3, <3>1 DEF FirstDelivery, Opened, PlacesInv, TypeInv, TypeOK
    <3> QED
      BY <1>7, <3>2 DEF InsideOf
  <2> QED
    BY <2>2, <2>3
<1> QED
  BY <1>8, <1>9, <1>10

\* Nothing gets in while runs end, leases lapse and dedupe keys expire.
LEMMA InsideWorld ==
  ASSUME PlacesInv,
         \/ \E r \in Requests : RunEnds(r) \/ LeaseLapses(r)
         \/ \E d \in Deliveries : DedupeExpires(d)
         \/ UNCHANGED vars
  PROVE  UNCHANGED windows /\ \A x \in Requests : Inside(x)' => Inside(x)
<1>1. UNCHANGED <<windows, queue, handler, task, dropped>>
  BY DEF RunEnds, LeaseLapses, DedupeExpires, vars, web, consumer
<1>2. \A x \in Requests : runs'[x] = "none" <=> runs[x] = "none"
  BY DEF RunEnds, LeaseLapses, DedupeExpires, vars, PlacesInv, TypeInv, TypeOK
<1>3. \A x \in Requests : OnQueue(x)' <=> OnQueue(x)
  BY <1>1, SameQueue DEF PlacesInv
<1> QED
  BY <1>1, <1>2, <1>3 DEF Inside, Held, Settled

\* A request that comes again is outside until it is received.
LEMMA InsideAgain ==
  ASSUME PlacesInv, NEW r \in Requests, ComesAgain(r)
  PROVE  UNCHANGED windows /\ \A x \in Requests : Inside(x)' => Inside(x)
<1>1. UNCHANGED <<windows, queue, task>>
  BY DEF ComesAgain, consumer
<1>2. ~OnQueue(r) /\ ~Held(r) /\ ~Settled(r)' /\ handler'[r] = "unsent"
  BY DEF ComesAgain, OnQueue, Held, Settled, PlacesInv, TypeInv, TypeOK
<1>3. \A x \in Requests : x # r => handler'[x] = handler[x]
  BY DEF ComesAgain, PlacesInv, TypeInv, TypeOK
<1>7. \A x \in Requests : x # r => (Settled(x)' <=> Settled(x))
  BY DEF ComesAgain, Settled, PlacesInv, TypeInv, TypeOK
<1>4. \A x \in Requests : (OnQueue(x)' <=> OnQueue(x)) /\ (Held(x)' <=> Held(x))
  BY <1>1, SameQueue DEF PlacesInv, Held
<1>5. ~Inside(r)'
  BY <1>2, <1>4 DEF Inside
<1>6. ASSUME NEW x \in Requests, x # r, Inside(x)' PROVE Inside(x)
  BY <1>3, <1>4, <1>6, <1>7 DEF Inside
<1> QED
  BY <1>1, <1>5, <1>6

\* Every step keeps the count of a delivery's requests below its windows.
LEMMA DedupeNext == PlacesInv /\ DedupeInv /\ [Next]_vars => DedupeInv'
<1> SUFFICES ASSUME PlacesInv, DedupeInv, [Next]_vars, NEW d \in Deliveries
             PROVE  /\ IsFiniteSet(InsideOf(d)')
                    /\ Cardinality(InsideOf(d)') <= windows'[d]
  BY DEF DedupeInv
<1>1. \/ InsideOf(d)' \subseteq InsideOf(d) /\ windows'[d] \in {windows[d], windows[d] + 1}
      \/ \E r \in Requests :
            InsideOf(d)' \subseteq InsideOf(d) \cup {r} /\ windows'[d] = windows[d] + 1
  <2>1. CASE \E r \in Requests : Receive(r) \/ Handler(r)
    BY <2>1, InsideHandler
  <2>2. CASE UNCHANGED windows /\ \A x \in Requests : Inside(x)' => Inside(x)
    BY <2>2 DEF InsideOf
  <2> QED
    BY <2>1, <2>2, InsideDispatcher, InsideWorld, InsideAgain DEF Next, Idle, web
<1>2. /\ IsFiniteSet(InsideOf(d)) /\ Cardinality(InsideOf(d)) \in Nat
      /\ Cardinality(InsideOf(d)) <= windows[d] /\ windows[d] \in Nat
  BY FS_CardinalityType DEF DedupeInv, PlacesInv, TypeInv, TypeOK
<1>3. CASE InsideOf(d)' \subseteq InsideOf(d) /\ windows'[d] \in {windows[d], windows[d] + 1}
  <2>1. IsFiniteSet(InsideOf(d)') /\ Cardinality(InsideOf(d)') <= Cardinality(InsideOf(d))
        /\ Cardinality(InsideOf(d)') \in Nat
    BY <1>2, <1>3, FS_Subset, FS_CardinalityType
  <2> QED
    BY <1>2, <1>3, <2>1
<1>4. ASSUME NEW r \in Requests,
             InsideOf(d)' \subseteq InsideOf(d) \cup {r} /\ windows'[d] = windows[d] + 1
      PROVE  IsFiniteSet(InsideOf(d)') /\ Cardinality(InsideOf(d)') <= windows'[d]
  <2>1. /\ IsFiniteSet(InsideOf(d) \cup {r})
        /\ Cardinality(InsideOf(d) \cup {r}) <= Cardinality(InsideOf(d)) + 1
        /\ Cardinality(InsideOf(d) \cup {r}) \in Nat
    <3> DEFINE S == InsideOf(d)
    <3>1. IsFiniteSet(S) /\ Cardinality(S) \in Nat
      BY <1>2
    <3> HIDE DEF S
    <3>2. /\ IsFiniteSet(S \cup {r})
          /\ Cardinality(S \cup {r}) = Cardinality(S)
             \/ Cardinality(S \cup {r}) = Cardinality(S) + 1
      BY <3>1, FS_AddElement
    <3>3. Cardinality(S \cup {r}) <= Cardinality(S) + 1 /\ Cardinality(S \cup {r}) \in Nat
      BY <3>1, <3>2
    <3> QED
      BY <3>2, <3>3 DEF S
  <2>2. /\ IsFiniteSet(InsideOf(d)') /\ Cardinality(InsideOf(d)') \in Nat
        /\ Cardinality(InsideOf(d)') <= Cardinality(InsideOf(d) \cup {r})
    BY <1>4, <2>1, FS_Subset, FS_CardinalityType
  <2> QED
    BY <1>2, <1>4, <2>1, <2>2
<1> QED
  BY <1>1, <1>3, <1>4

\* A task has a place when it is queued, held or settled, and only then.
LEMMA PlacedInside ==
  ASSUME PlacesInv, NEW r \in Requests, Placed(r) > 0
  PROVE  OnQueue(r) \/ Held(r) \/ Settled(r)
<1> SUFFICES ASSUME ~OnQueue(r), ~Held(r), ~Settled(r) PROVE FALSE
  OBVIOUS
<1>1. /\ {i \in DOMAIN queue[ProjectOf[r]] : queue[ProjectOf[r]][i] = r} = {}
      /\ {c \in Dispatchers : task[c] = r /\ ~Settled(r)} = {}
  BY DEF OnQueue, Held
<1> QED
  BY <1>1, FS_EmptySet DEF Placed

\* For any number of redeliveries, dispatchers and failures: the requests of a
\* delivery that got past the dedupe check are at most as many as the windows its
\* key opened, so that a delivery repeated within its window starts one run.
THEOREM DeliveredOnce == Spec => []OneRunPerDelivery
<1>1. TypeOK /\ PlacesInv /\ DedupeInv => OneRunPerDelivery
  <2> SUFFICES ASSUME TypeOK, PlacesInv, DedupeInv, NEW d \in Deliveries
               PROVE  Cardinality(Entered(d)) <= windows[d]
    BY DEF OneRunPerDelivery
  <2>1. Entered(d) \subseteq InsideOf(d)
    BY PlacedInside DEF Entered, InsideOf, Inside
  <2>2. /\ IsFiniteSet(InsideOf(d)) /\ Cardinality(InsideOf(d)) <= windows[d]
        /\ windows[d] \in Nat
    BY DEF DedupeInv, TypeOK
  <2>3. /\ Cardinality(Entered(d)) <= Cardinality(InsideOf(d))
        /\ Cardinality(Entered(d)) \in Nat /\ Cardinality(InsideOf(d)) \in Nat
    BY <2>1, <2>2, FS_Subset, FS_CardinalityType
  <2> QED
    BY <2>2, <2>3
<1> QED
  BY <1>1, DispatchTypeCorrect, PlacesHold, DedupeInit, DedupeNext, PTL DEF Spec

=============================================================================
