--------------------------- MODULE EventLog_proofs ---------------------------
(* Type correctness of EventLog, that it implements EventLedger, and that its *)
(* files and its channel are in order and complete once closed, for any number *)
(* of events, of faults and of processes.                                      *)
EXTENDS EventProperties, SequenceTheorems, TLAPS

USE EventBounds, TargetsAssumption

-----------------------------------------------------------------------------
(* Sequences of events.                                                       *)

Increasing(s) == \A i, j \in DOMAIN s : i < j => s[i] < s[j]

\* What is in a sequence that got one more event, and whether it is in order.
LEMMA Appended ==
    ASSUME NEW s \in Seq(Events), NEW e \in Events
    PROVE  /\ Append(s, e) \in Seq(Events) /\ Append(s, e) # <<>>
           /\ In(Append(s, e)) = In(s) \cup {e}
           /\ s # <<>> => Head(Append(s, e)) = Head(s)
           /\ s = <<>> => Append(s, e) = <<e>>
           /\ Increasing(s) /\ (\A x \in In(s) : x < e) => Increasing(Append(s, e))
  <1>1. /\ Len(s) \in Nat /\ DOMAIN s = 1..Len(s)
        /\ DOMAIN Append(s, e) = 1..(Len(s) + 1)
        /\ \A i \in 1..Len(s) : Append(s, e)[i] = s[i]
        /\ Append(s, e)[Len(s) + 1] = e
        /\ Append(s, e) \in Seq(Events)
    OBVIOUS
  <1>2. In(Append(s, e)) = In(s) \cup {e}
    <2>1. ASSUME NEW x \in In(Append(s, e)) PROVE x \in In(s) \cup {e}
      <3>1. PICK i \in 1..(Len(s) + 1) : Append(s, e)[i] = x
        BY <1>1 DEF In
      <3> QED
        BY <3>1, <1>1 DEF In
    <2>2. In(s) \subseteq In(Append(s, e))
      BY <1>1 DEF In
    <2>3. e \in In(Append(s, e))
      BY <1>1 DEF In
    <2> QED
      BY <2>1, <2>2, <2>3
  <1>3. ASSUME Increasing(s), \A x \in In(s) : x < e
        PROVE  Increasing(Append(s, e))
    <2> SUFFICES ASSUME NEW i \in 1..(Len(s) + 1), NEW j \in 1..(Len(s) + 1), i < j
                 PROVE  Append(s, e)[i] < Append(s, e)[j]
      BY <1>1 DEF Increasing
    <2>1. i \in 1..Len(s) /\ Append(s, e)[i] = s[i] /\ s[i] \in In(s)
      BY <1>1 DEF In
    <2>2. CASE j = Len(s) + 1
      BY <2>1, <2>2, <1>1, <1>3
    <2>3. CASE j \in 1..Len(s)
      BY <2>1, <2>3, <1>1, <1>3 DEF Increasing
    <2> QED
      BY <2>2, <2>3, <1>1
  <1>4. s # <<>> => Head(Append(s, e)) = Head(s)
    OBVIOUS
  <1>5. s = <<>> => Append(s, e) = <<e>>
    OBVIOUS
  <1>6. Append(s, e) # <<>>
    OBVIOUS
  <1> QED
    BY <1>1, <1>2, <1>3, <1>4, <1>5, <1>6

\* The first of a sequence and the others.
LEMMA Taken ==
    ASSUME NEW s \in Seq(Events), s # <<>>
    PROVE  /\ Tail(s) \in Seq(Events) /\ Head(s) \in Events /\ Head(s) = s[1]
           /\ Len(s) \in Nat \ {0} /\ Len(Tail(s)) = Len(s) - 1
           /\ (Len(s) = 1) = (Tail(s) = <<>>)
           /\ Len(s) > 1 => Tail(s) # <<>> /\ Head(Tail(s)) = s[2]
           /\ In(s) = {Head(s)} \cup In(Tail(s))
           /\ Increasing(s) => Increasing(Tail(s)) /\ \A x \in In(Tail(s)) : Head(s) < x
  <1>1. /\ Len(s) \in Nat \ {0} /\ DOMAIN s = 1..Len(s)
        /\ Tail(s) \in Seq(Events) /\ Len(Tail(s)) = Len(s) - 1
        /\ DOMAIN Tail(s) = 1..(Len(s) - 1)
        /\ \A i \in 1..(Len(s) - 1) : Tail(s)[i] = s[i + 1]
        /\ Head(s) = s[1] /\ Head(s) \in Events
    OBVIOUS
  <1>4. /\ Len(s) > 1 => Tail(s) # <<>> /\ Head(Tail(s)) = Tail(s)[1]
        /\ (Len(s) = 1) = (Tail(s) = <<>>)
    <2>1. (Len(Tail(s)) = 0) = (Tail(s) = <<>>)
      BY <1>1, EmptySeq, Zenon
    <2>2. (Len(s) = 1) = (Len(Tail(s)) = 0)
      BY <1>1
    <2>3. Tail(s) # <<>> => Head(Tail(s)) = Tail(s)[1]
      BY <1>1
    <2> QED
      BY <2>1, <2>2, <2>3, <1>1
  <1>2. In(s) = {Head(s)} \cup In(Tail(s))
    <2>1. ASSUME NEW x \in In(s) PROVE x \in {Head(s)} \cup In(Tail(s))
      <3>1. PICK i \in 1..Len(s) : s[i] = x
        BY <1>1 DEF In
      <3>2. i = 1 \/ (i - 1 \in 1..(Len(s) - 1) /\ Tail(s)[i - 1] = s[i])
        BY <3>1, <1>1
      <3> QED
        BY <3>1, <3>2, <1>1 DEF In
    <2>2. ASSUME NEW x \in In(Tail(s)) PROVE x \in In(s)
      <3>1. PICK i \in 1..(Len(s) - 1) : Tail(s)[i] = x
        BY <1>1 DEF In
      <3>2. i + 1 \in 1..Len(s) /\ s[i + 1] = x
        BY <3>1, <1>1
      <3> QED
        BY <3>2, <1>1 DEF In
    <2>3. Head(s) \in In(s)
      BY <1>1 DEF In
    <2> QED
      BY <2>1, <2>2, <2>3
  <1>3. ASSUME Increasing(s)
        PROVE  Increasing(Tail(s)) /\ \A x \in In(Tail(s)) : Head(s) < x
    <2>1. Increasing(Tail(s))
      <3> SUFFICES ASSUME NEW i \in 1..(Len(s) - 1), NEW j \in 1..(Len(s) - 1), i < j
                   PROVE  Tail(s)[i] < Tail(s)[j]
        BY <1>1 DEF Increasing
      <3>1. i + 1 \in 1..Len(s) /\ j + 1 \in 1..Len(s) /\ i + 1 < j + 1
        BY <1>1
      <3> QED
        BY <3>1, <1>1, <1>3 DEF Increasing
    <2>2. ASSUME NEW x \in In(Tail(s)) PROVE Head(s) < x
      <3>1. PICK i \in 1..(Len(s) - 1) : Tail(s)[i] = x
        BY <1>1 DEF In
      <3>2. i + 1 \in 1..Len(s) /\ 1 \in 1..Len(s) /\ 1 < i + 1 /\ s[i + 1] = x
        BY <3>1, <1>1
      <3> QED
        BY <3>2, <1>1, <1>3 DEF Increasing
    <2> QED
      BY <2>1, <2>2
  <1>5. Len(s) > 1 => Tail(s)[1] = s[2]
    BY <1>1
  <1> QED
    BY <1>1, <1>2, <1>3, <1>4, <1>5

\* A sequence of one event, and of none.
LEMMA Short ==
    ASSUME NEW e \in Events
    PROVE  /\ <<e>> \in Seq(Events) /\ <<e>> # <<>> /\ In(<<e>>) = {e} /\ Increasing(<<e>>)
           /\ Head(<<e>>) = e /\ Tail(<<e>>) = <<>>
           /\ <<>> \in Seq(Events) /\ In(<<>>) = {} /\ Increasing(<<>>)
           /\ <<>> \o <<>> = <<>> /\ <<>> \o <<e>> = <<e>>
           /\ \A s \in Seq(Events) : s \o <<>> = s
  BY DEF In, Increasing

-----------------------------------------------------------------------------
(* The invariant.                                                             *)

Pending == In(queue) \cup In(buffer)
InEvery(e) == \A t \in Targets : e \in In(log[t])
UnderWay(e) == \E a \in appends : a[2] = e

\* What waits to be written is in the order of store(); initialize puts one buffered
\* event after the other into the queue, which is empty until then.
QueueInv ==
  /\ phase \in {"new", "opening"} => queue = <<>> /\ appends = {}
  /\ phase = "flushing" => queue = <<Head(buffer)>>
  /\ phase = "ready" => buffer = <<>>
  /\ Increasing(queue) /\ Increasing(buffer)
  /\ \A e \in Pending : e <= stored
  /\ dead => phase = "new" /\ buffer = <<>> /\ appends = {} /\ sinkQueue = <<>> /\ post = Idle

\* What is written comes before what waits, and an event that waits is in no file unless
\* its appends have started; an event whose appends go on has left the queue only if one
\* of them failed.
WriteInv ==
  /\ \A t \in Targets : \A x \in In(log[t]) : x <= stored /\ \A e \in Pending : x <= e
  /\ \A a \in appends : a[2] <= stored /\ \A e \in Pending : a[2] <= e
  /\ \A e \in Pending : UnderWay(e) \/ \A t \in Targets : e \notin In(log[t])
  /\ \A a \in appends : a[2] \notin In(log[a[1]])
  /\ \A a \in appends : a[2] \in In(queue) =>
       \A t \in Targets : <<t, a[2]>> \in appends \/ a[2] \in In(log[t])
  /\ \A a \in appends : a[2] \in In(queue) \/ a[2] \in failed

\* No event is twice in a file, and only one whose append failed comes late.
FilesInv ==
  \A t \in Targets : \A i, j \in DOMAIN log[t] : i < j =>
    /\ log[t][i] # log[t][j]
    /\ log[t][i] >= log[t][j] => log[t][j] \in failed

\* What is posted has been written to every file, and is posted in its order.
SinkInv ==
  /\ \A e \in In(sinkQueue) : InEvery(e)
  /\ Increasing(sinkQueue)
  /\ post # Idle => /\ sinkQueue # <<>> /\ post.event = Head(sinkQueue)
                    /\ post.try \in 1..2
  /\ \A r \in requests : InEvery(r.event) /\ \A e \in In(sinkQueue) : r.event <= e

\* The one request that inserts an event announces it; of an event that was not given up
\* there is no other request than the one that is waited for.
ServiceInv ==
  /\ \A e \in db : InEvery(e)
  /\ In(published) \subseteq db
  /\ \A x \in In(published), e \in In(sinkQueue) : x <= e
  /\ \A r \in requests : r.at = "inserted" =>
       /\ r.event \in db \ In(published)
       /\ \A q \in requests : q.at = "inserted" /\ q.event = r.event => q = r
  /\ \A r \in requests : r.event \in abandoned \/ (post # Idle /\ Answers(r))
  /\ \A r, q \in requests : r.event = q.event /\ r.event \notin abandoned => r = q
  /\ \A i, j \in DOMAIN published :
       i < j /\ published[i] > published[j] => published[j] \in abandoned

\* Every event stored waits, is written, or is accounted for; what close answers for has
\* left the queue once the writes are awaited, and the posts once it is done.
CloseInv ==
  /\ \A e \in 1..stored : e \in Pending \cup failed \cup lost \/ InEvery(e)
  /\ owed <= stored
  /\ closing # "open" /\ ~dead => phase = "ready" \/ (phase = "new" /\ owed = 0)
  /\ closing = "writes" /\ ~dead => \A e \in 1..owed : e \in In(queue) => e \in awaited
  /\ closing \in {"posts", "closed"} /\ ~dead => \A e \in 1..owed : e \notin In(queue)
  /\ closing = "posts" /\ ~dead => \A e \in 1..owed : e \in In(sinkQueue) => e \in awaited
  /\ closing = "closed" /\ ~dead => \A e \in 1..owed : e \notin In(sinkQueue)

EventInv == TypeOK /\ QueueInv /\ WriteInv /\ FilesInv /\ SinkInv /\ ServiceInv /\ CloseInv

-----------------------------------------------------------------------------
(* The store.                                                                 *)

\* The events that wait, are written, posted or announced are events.
LEMMA PendingTyped ==
    ASSUME TypeOK
    PROVE  /\ Pending \subseteq Events /\ In(queue) \subseteq Events /\ In(buffer) \subseteq Events
           /\ In(sinkQueue) \subseteq Events /\ stored \in Nat
           /\ \A t \in Targets : In(log[t]) \subseteq Events
           /\ Events \subseteq Nat /\ In(published) \subseteq Events
  <1>1. \A q \in Seq(Events) : In(q) \subseteq Events
    BY DEF In
  <1> QED
    BY <1>1 DEF TypeOK, Pending, Events

\* The first of the queue leaves it: the events that wait are the others, and come after
\* it; a failure during initialize loses those it had not put into the queue.
LEMMA Settling ==
    ASSUME TypeOK, QueueInv, queue # <<>>, NEW ok \in BOOLEAN, Settles(ok)
    PROVE  /\ queue' \in Seq(Events) /\ buffer' \in Seq(Events) /\ lost' \subseteq Events
           /\ phase' \in {"flushing", "ready"}
           /\ phase' = "flushing" => buffer' # <<>> /\ queue' = <<Head(buffer')>>
           /\ phase' = "ready" => buffer' = <<>>
           /\ Increasing(queue') /\ Increasing(buffer')
           /\ Head(queue) \in In(queue)
           /\ \A e \in Pending' : e \in Pending /\ Head(queue) < e
           /\ \A e \in Pending : e \in {Head(queue)} \cup Pending' \cup lost'
           /\ \A e \in In(queue) : e = Head(queue) \/ e \in In(queue')
           /\ lost \subseteq lost'
           /\ phase = "ready" => phase' = "ready" /\ In(queue') \subseteq In(queue)
  <1>1. /\ queue \in Seq(Events) /\ buffer \in Seq(Events) /\ lost \subseteq Events
        /\ phase \in {"flushing", "ready"}
    BY DEF TypeOK, QueueInv
  <1>2. /\ Tail(queue) \in Seq(Events) /\ Head(queue) \in Events
        /\ In(queue) = {Head(queue)} \cup In(Tail(queue))
        /\ Increasing(Tail(queue)) /\ \A x \in In(Tail(queue)) : Head(queue) < x
    BY <1>1, Taken DEF QueueInv
  <1>3. CASE phase = "ready"
    <2>1. buffer = <<>> /\ queue' = Tail(queue) /\ buffer' = buffer /\ lost' = lost
          /\ phase' = "ready"
      <3>1. buffer = <<>>
        BY <1>3 DEF QueueInv
      <3>2. queue' = Tail(queue) \o <<>> /\ buffer' = buffer /\ lost' = lost /\ phase' = phase
        BY <1>3 DEF Settles
      <3> QED
        BY <3>1, <3>2, <1>2, <1>3, Short
    <2>2. In(<<>>) = {} /\ Increasing(<<>>) /\ <<>> \in Seq(Events)
      BY <1>2, Short
    <2> QED
      BY <2>1, <2>2, <1>1, <1>2, <1>3 DEF Pending
  <1>4. CASE phase = "flushing"
    <2>1. buffer # <<>> /\ queue = <<Head(buffer)>>
      BY <1>4 DEF TypeOK, QueueInv
    <2>2. /\ Tail(buffer) \in Seq(Events) /\ Head(buffer) \in Events
          /\ Len(buffer) \in Nat \ {0}
          /\ (Len(buffer) = 1) = (Tail(buffer) = <<>>)
          /\ Len(buffer) > 1 => Tail(buffer) # <<>> /\ Head(Tail(buffer)) = buffer[2]
          /\ In(buffer) = {Head(buffer)} \cup In(Tail(buffer))
          /\ Increasing(Tail(buffer)) /\ \A x \in In(Tail(buffer)) : Head(buffer) < x
      BY <2>1, <1>1, Taken DEF QueueInv
    <2>3. Head(queue) = Head(buffer) /\ Tail(queue) = <<>> /\ In(queue) = {Head(buffer)}
      BY <2>1, <2>2, Short
    <2>4. Pending = {Head(buffer)} \cup In(Tail(buffer))
      BY <2>2, <2>3 DEF Pending
    <2>5. In(<<>>) = {} /\ Increasing(<<>>) /\ <<>> \in Seq(Events) /\ <<>> \o <<>> = <<>>
      BY <2>2, Short
    <2>6. CASE ok /\ Len(buffer) > 1
      <3>1. /\ queue' = <<>> \o <<buffer[2]>> /\ buffer' = Tail(buffer) /\ lost' = lost
            /\ phase' = "flushing"
        <4>1. ~(Len(buffer) = 1)
          BY <2>6, <2>2
        <4> QED
          BY <4>1, <2>6, <2>3, <1>4 DEF Settles
      <3>2. buffer[2] = Head(Tail(buffer)) /\ Head(Tail(buffer)) \in Events
            /\ Head(Tail(buffer)) \in In(Tail(buffer))
        <4> DEFINE t == Tail(buffer)
        <4>1. t \in Seq(Events) /\ t # <<>> /\ buffer[2] = Head(t)
          BY <2>6, <2>2
        <4>2. Head(t) \in Events /\ In(t) = {Head(t)} \cup In(Tail(t))
          BY <4>1, Taken
        <4> QED
          BY <4>1, <4>2
      <3>3. /\ queue' = <<Head(buffer')>> /\ queue' \in Seq(Events) /\ Increasing(queue')
            /\ In(queue') = {Head(Tail(buffer))}
        BY <3>1, <3>2, Short
      <3>4. Pending' = In(Tail(buffer))
        BY <3>1, <3>2, <3>3 DEF Pending
      <3> QED
        BY <3>1, <3>3, <3>4, <2>2, <2>3, <2>4, <2>6, <1>1, <1>4
    <2>7. CASE ok /\ Len(buffer) = 1
      <3>1. /\ queue' = <<>> \o <<>> /\ buffer' = Tail(buffer) /\ lost' = lost
            /\ phase' = "ready"
        BY <2>7, <2>3, <1>4 DEF Settles
      <3>2. queue' = <<>> /\ buffer' = <<>> /\ Pending' = {} /\ Pending = {Head(buffer)}
        BY <3>1, <2>2, <2>4, <2>5, <2>7 DEF Pending
      <3> QED
        BY <3>1, <3>2, <2>3, <2>5, <1>1, <1>4
    <2>8. CASE ~ok
      <3>1. /\ queue' = <<>> \o <<>> /\ buffer' = <<>> /\ lost' = lost \cup In(Tail(buffer))
            /\ phase' = "ready"
        BY <2>8, <2>3, <1>4 DEF Settles
      <3>2. queue' = <<>> /\ Pending' = {} /\ In(Tail(buffer)) \subseteq Events
        BY <3>1, <2>2, <2>5 DEF Pending, In
      <3> QED
        BY <3>1, <3>2, <2>3, <2>4, <2>5, <1>1, <1>4
    <2> QED
      BY <2>6, <2>7, <2>8, <2>2
  <1> QED
    BY <1>1, <1>3, <1>4
-----------------------------------------------------------------------------
(* One lemma for each action.                                                 *)

USE DEF store, writer, client, service, closer, counts, history

\* Init has nothing under way.
LEMMA InitInv == Init => EventInv
  <1> SUFFICES ASSUME Init PROVE EventInv
    OBVIOUS
  <1> USE DEF Init
  <1>1. <<>> \in Seq(Events) /\ In(<<>>) = {} /\ Increasing(<<>>) /\ DOMAIN <<>> = {}
    BY DEF In, Increasing
  <1>2. TypeOK
    <2>1. log \in [Targets -> Seq(Events)]
      BY <1>1
    <2>2. post \in [event : Events \cup {0}, try : 0..2]
      BY DEF Idle
    <2>3. stored \in 0..MaxEvents /\ owed \in 0..MaxEvents /\ faults \in 0..MaxFaults
          /\ process \in 0..faults
      OBVIOUS
    <2> QED
      BY <1>1, <2>1, <2>2, <2>3 DEF TypeOK
  <1>3. QueueInv /\ WriteInv /\ FilesInv
    BY <1>1 DEF QueueInv, WriteInv, FilesInv, Pending
  <1>4. SinkInv /\ ServiceInv /\ CloseInv
    BY <1>1 DEF SinkInv, ServiceInv, CloseInv
  <1> QED
    BY <1>2, <1>3, <1>4 DEF EventInv

\* An event that is stored comes after all the others.
LEMMA StoreInv == EventInv /\ Store => EventInv'
  <1> SUFFICES ASSUME EventInv, Store PROVE EventInv'
    OBVIOUS
  <1> USE DEF EventInv
  <1> DEFINE e == stored + 1
  <1>1. /\ stored \in Nat /\ e \in Events /\ stored' = e /\ e \in Nat
        /\ queue \in Seq(Events) /\ buffer \in Seq(Events)
        /\ Pending \subseteq Events /\ Events \subseteq Nat
        /\ In(queue) \subseteq Pending /\ In(buffer) \subseteq Pending
        /\ \A x \in Pending : x < e
    <2>1. stored \in Nat /\ e \in Events /\ stored' = e /\ e \in Nat
      BY DEF Store, TypeOK, Events
    <2>2. \A x \in Pending : x \in Nat /\ x <= stored
      BY PendingTyped DEF QueueInv
    <2> QED
      BY <2>1, <2>2, PendingTyped DEF TypeOK, Pending
  <1>2. /\ queue' \in Seq(Events) /\ buffer' \in Seq(Events)
        /\ Increasing(queue') /\ Increasing(buffer')
        /\ Pending' = Pending \cup {e}
        /\ phase = "new" => queue' = <<>>
        /\ phase = "ready" => buffer' = <<>>
        /\ In(queue) \subseteq In(queue') /\ In(queue') \subseteq In(queue) \cup {e}
    <2>1. CASE phase = "new"
      <3>1. buffer' = Append(buffer, e) /\ queue' = queue
        BY <2>1 DEF Store
      <3>2. buffer' \in Seq(Events) /\ In(buffer') = In(buffer) \cup {e} /\ Increasing(buffer')
        BY <3>1, <1>1, Appended DEF QueueInv
      <3> QED
        BY <3>1, <3>2, <2>1, <1>1 DEF QueueInv, Pending
    <2>2. CASE phase # "new"
      <3>1. queue' = Append(queue, e) /\ buffer' = buffer
        BY <2>2 DEF Store
      <3>2. queue' \in Seq(Events) /\ In(queue') = In(queue) \cup {e} /\ Increasing(queue')
        BY <3>1, <1>1, Appended DEF QueueInv
      <3> QED
        BY <3>1, <3>2, <2>2, <1>1 DEF QueueInv, Pending
    <2> QED
      BY <2>1, <2>2
  <1>3. /\ phase' = phase /\ phase \in {"new", "ready"} /\ ~dead /\ dead' = dead
        /\ UNCHANGED <<appends, log, sinkQueue, post, requests, db, published, closing,
                       awaited, process, faults, failed, abandoned, lost, owed>>
    BY DEF Store
  <1>4. TypeOK'
    <2>1. stored' \in 0..MaxEvents /\ owed' \in 0..MaxEvents
      BY <1>1, <1>3 DEF TypeOK, Events
    <2>2. buffer' \in Seq(Events) /\ queue' \in Seq(Events)
      BY <1>2
    <2> QED
      BY <1>3, <2>1, <2>2 DEF TypeOK
  <1>5. QueueInv'
    BY <1>1, <1>2, <1>3 DEF QueueInv
  <1>6. WriteInv' /\ FilesInv'
    <2>1. \A t \in Targets : \A x \in In(log[t]) : x \in Nat /\ x <= stored
      BY PendingTyped DEF WriteInv
    <2>2. \A a \in appends : a[2] \in Nat /\ a[2] <= stored
      BY <1>1 DEF WriteInv, TypeOK
    <2>3. \A t \in Targets : e \notin In(log[t])
      BY SMTT(30), <2>1, <1>1
    <2>4. \A a \in appends : a[2] # e
      BY <2>2, <1>1
    <2>5. /\ \A t \in Targets : \A x \in In(log'[t]) : x <= stored' /\ \A y \in Pending' : x <= y
          /\ \A a \in appends' : a[2] <= stored' /\ \A y \in Pending' : a[2] <= y
      <3>1. \A t \in Targets : \A x \in In(log'[t]) : x <= stored' /\ \A y \in Pending' : x <= y
        <4>1. ASSUME NEW t \in Targets, NEW x \in In(log'[t])
              PROVE  x <= stored' /\ x < e /\ \A y \in Pending : x <= y
          BY <4>1, <1>1, <1>3, <2>1 DEF WriteInv
        <4> QED
          BY <4>1, <1>2, <2>1, <1>1, <1>3
      <3>2. \A a \in appends' : a[2] <= stored' /\ \A y \in Pending' : a[2] <= y
        BY <1>1, <1>2, <1>3, <2>2 DEF WriteInv
      <3> QED
        BY <3>1, <3>2
    <2>6. \A y \in Pending' : UnderWay(y)' \/ \A t \in Targets : y \notin In(log'[t])
      BY <1>2, <1>3, <2>3 DEF WriteInv, UnderWay
    <2>7. /\ \A a \in appends' : a[2] \notin In(log'[a[1]])
          /\ \A a \in appends' : a[2] \in In(queue') =>
               \A t \in Targets : <<t, a[2]>> \in appends' \/ a[2] \in In(log'[t])
          /\ \A a \in appends' : a[2] \in In(queue') \/ a[2] \in failed'
      BY <1>2, <1>3, <2>4 DEF WriteInv
    <2> QED
      BY <2>5, <2>6, <2>7, <1>3 DEF WriteInv, FilesInv
  <1>7. SinkInv' /\ ServiceInv'
    BY <1>3 DEF SinkInv, ServiceInv, InEvery, Answers
  <1>8. CloseInv'
    <2>1. \A x \in 1..stored' : x = e \/ x \in 1..stored
      BY <1>1
    <2>2. owed \in Nat /\ owed <= stored
      BY DEF CloseInv, TypeOK
    <2>3. \A x \in 1..owed : x # e
      BY <2>2, <1>1
    <2>4. \A x \in 1..stored' : x \in Pending' \cup failed' \cup lost' \/ InEvery(x)'
      BY <1>2, <1>3, <2>1 DEF CloseInv, InEvery
    <2>5. owed' <= stored'
      BY <2>2, <1>1, <1>3
    <2> QED
      BY <1>2, <1>3, <2>3, <2>4, <2>5 DEF CloseInv
  <1> QED
    BY <1>4, <1>5, <1>6, <1>7, <1>8

\* initialize begins, with nothing in the queue.
LEMMA InitializeInv == EventInv /\ Initialize => EventInv'
  <1> SUFFICES ASSUME EventInv, Initialize PROVE EventInv'
    OBVIOUS
  <1> USE DEF EventInv
  <1>1. /\ phase = "new" /\ phase' = "opening" /\ ~dead /\ closing = "open"
        /\ UNCHANGED <<stored, buffer, queue, appends, log, sinkQueue, post, requests, db,
                       published, closing, awaited, process, faults, failed, abandoned,
                       lost, dead, owed>>
    BY DEF Initialize
  <1>2. TypeOK'
    BY <1>1 DEF TypeOK
  <1>3. QueueInv' /\ WriteInv' /\ FilesInv'
    BY <1>1 DEF QueueInv, WriteInv, FilesInv, Pending, UnderWay
  <1>4. SinkInv' /\ ServiceInv' /\ CloseInv'
    BY <1>1 DEF SinkInv, ServiceInv, CloseInv, InEvery, Answers, Pending
  <1> QED
    BY <1>2, <1>3, <1>4

\* The first buffered event is put into the queue.
LEMMA OpenedInv == EventInv /\ Opened => EventInv'
  <1> SUFFICES ASSUME EventInv, Opened PROVE EventInv'
    OBVIOUS
  <1> USE DEF EventInv
  <1>1. /\ phase = "opening" /\ ~dead /\ dead' = dead
        /\ phase' = (IF buffer = <<>> THEN "ready" ELSE "flushing")
        /\ queue' = (IF buffer = <<>> THEN queue ELSE Append(queue, Head(buffer)))
        /\ UNCHANGED <<stored, buffer, appends, log, sinkQueue, post, requests, db,
                       published, closing, awaited, process, faults, failed, abandoned,
                       lost, owed>>
    BY DEF Opened
  <1>2. queue = <<>> /\ In(queue) = {} /\ queue \in Seq(Events) /\ buffer \in Seq(Events)
    BY <1>1 DEF QueueInv, TypeOK, In
  <1>3. /\ queue' \in Seq(Events) /\ Increasing(queue') /\ Pending' = Pending
        /\ In(queue) \subseteq In(queue')
        /\ buffer # <<>> => queue' = <<Head(buffer)>>
    <2>1. CASE buffer = <<>>
      BY <2>1, <1>1, <1>2 DEF Pending, QueueInv
    <2>2. CASE buffer # <<>>
      <3>1. Head(buffer) \in Events /\ Head(buffer) \in In(buffer)
        BY <2>2, <1>2, Taken
      <3>2. queue' = <<Head(buffer)>>
        BY <2>2, <3>1, <1>1, <1>2, Appended
      <3>3. queue' \in Seq(Events) /\ In(queue') = {Head(buffer)} /\ Increasing(queue')
        BY <3>1, <3>2, Short
      <3> QED
        BY <3>1, <3>2, <3>3, <1>1, <1>2 DEF Pending
    <2> QED
      BY <2>1, <2>2
  <1>4. TypeOK'
    BY <1>1, <1>3 DEF TypeOK
  <1>5. QueueInv'
    BY <1>1, <1>2, <1>3 DEF QueueInv
  <1>6. WriteInv' /\ FilesInv'
    <2>1. appends' = {}
      BY <1>1 DEF QueueInv
    <2>2. \A t \in Targets : \A e \in Pending : e \notin In(log[t])
      BY <1>1, <2>1 DEF WriteInv, UnderWay
    <2> QED
      BY <1>1, <1>3, <2>1, <2>2 DEF WriteInv, FilesInv, UnderWay
  <1>7. SinkInv' /\ ServiceInv'
    BY <1>1 DEF SinkInv, ServiceInv, InEvery, Answers
  <1>8. CloseInv'
    BY <1>1, <1>2, <1>3 DEF CloseInv, InEvery
  <1> QED
    BY <1>4, <1>5, <1>6, <1>7, <1>8

\* The appends of the first in the queue start; nothing of it is in a file yet.
LEMMA PersistNextInv == EventInv /\ PersistNext => EventInv'
  <1> SUFFICES ASSUME EventInv, PersistNext PROVE EventInv'
    OBVIOUS
  <1> USE DEF EventInv
  <1> DEFINE h == Head(queue)
  <1>1. /\ queue # <<>> /\ ~dead /\ \A a \in appends : a[2] # h
        /\ appends' = appends \cup (Targets \X {h})
        /\ UNCHANGED <<stored, phase, buffer, queue, log, sinkQueue, post, requests, db,
                       published, closing, awaited, process, faults, failed, abandoned,
                       lost, dead, owed>>
    BY DEF PersistNext
  <1>2. /\ h \in In(queue) /\ h \in Events /\ h \in Pending
        /\ \A e \in Pending : h <= e
        /\ h <= stored /\ phase \notin {"new", "opening"}
    <2>1. /\ queue \in Seq(Events) /\ h \in Events /\ In(queue) = {h} \cup In(Tail(queue))
          /\ \A x \in In(Tail(queue)) : h < x
      BY <1>1, Taken DEF TypeOK, QueueInv
    <2>2. phase \notin {"new", "opening"}
      BY <1>1 DEF QueueInv
    <2>3. \A e \in In(queue) : h <= e
      BY <2>1, PendingTyped
    <2>4. \A e \in In(buffer) : h <= e
      <3>1. CASE phase = "ready"
        BY <3>1 DEF QueueInv, In
      <3>2. CASE phase = "flushing"
        <4>1. buffer \in Seq(Events) /\ buffer # <<>> /\ queue = <<Head(buffer)>>
          BY <3>2 DEF TypeOK, QueueInv
        <4>2. /\ Head(buffer) \in Events /\ In(buffer) = {Head(buffer)} \cup In(Tail(buffer))
              /\ \A x \in In(Tail(buffer)) : Head(buffer) < x
          BY <4>1, Taken DEF QueueInv
        <4>3. h = Head(buffer)
          BY <4>1, <4>2, Short
        <4> QED
          BY <4>2, <4>3, PendingTyped
      <3> QED
        BY <2>2, <3>1, <3>2 DEF TypeOK
    <2> QED
      BY <2>1, <2>2, <2>3, <2>4 DEF Pending, QueueInv
  <1>3. \A a \in appends' : a \in appends \/ (a[1] \in Targets /\ a[2] = h)
    BY <1>1
  <1>4. \A t \in Targets : <<t, h>> \in appends' /\ h \notin In(log[t])
    BY <1>1, <1>2 DEF WriteInv, UnderWay
  <1>5. TypeOK'
    <2>1. appends' \subseteq Targets \X Events
      BY <1>1, <1>2 DEF TypeOK
    <2> QED
      BY <1>1, <2>1 DEF TypeOK
  <1>6. QueueInv'
    BY <1>1, <1>2 DEF QueueInv, Pending
  <1>7. WriteInv' /\ FilesInv'
    <2>1. Pending' = Pending
      BY <1>1 DEF Pending
    <2>2. \A e \in Pending' : UnderWay(e)' \/ \A t \in Targets : e \notin In(log'[t])
      BY <1>1, <2>1 DEF WriteInv, UnderWay
    <2>3. \A a \in appends' : a[2] <= stored' /\ \A e \in Pending' : a[2] <= e
      BY <1>1, <1>2, <1>3, <2>1 DEF WriteInv
    <2>4. \A a \in appends' : a[2] \notin In(log'[a[1]])
      BY <1>1, <1>3, <1>4 DEF WriteInv
    <2>5. \A a \in appends' : a[2] \in In(queue') =>
               \A t \in Targets : <<t, a[2]>> \in appends' \/ a[2] \in In(log'[t])
      <3> SUFFICES ASSUME NEW a \in appends', a[2] \in In(queue'), NEW t \in Targets
                   PROVE  <<t, a[2]>> \in appends' \/ a[2] \in In(log'[t])
        OBVIOUS
      <3>1. CASE a \in appends
        BY <3>1, <1>1 DEF WriteInv
      <3>2. CASE a[2] = h
        BY <3>2, <1>4
      <3> QED
        BY <3>1, <3>2, <1>3
    <2>6. \A a \in appends' : a[2] \in In(queue') \/ a[2] \in failed'
      BY <1>1, <1>2, <1>3 DEF WriteInv
    <2> QED
      BY <1>1, <2>1, <2>2, <2>3, <2>4, <2>5, <2>6 DEF WriteInv, FilesInv
  <1>8. SinkInv' /\ ServiceInv' /\ CloseInv'
    BY <1>1 DEF SinkInv, ServiceInv, CloseInv, InEvery, Answers, Pending
  <1> QED
    BY <1>5, <1>6, <1>7, <1>8

\* What the end of one append does to its file.
LEMMA Written ==
    ASSUME EventInv, NEW a \in appends, AppendDone(a)
    PROVE  /\ a[1] \in Targets /\ a[2] \in Events
           /\ log' \in [Targets -> Seq(Events)]
           /\ log'[a[1]] = Append(log[a[1]], a[2])
           /\ In(log'[a[1]]) = In(log[a[1]]) \cup {a[2]}
           /\ \A t \in Targets \ {a[1]} : log'[t] = log[t]
           /\ \A t \in Targets : In(log[t]) \subseteq In(log'[t])
           /\ \A t \in Targets : In(log'[t]) \subseteq In(log[t]) \cup {a[2]}
  <1>1. /\ a[1] \in Targets /\ a[2] \in Events /\ log \in [Targets -> Seq(Events)]
        /\ log' = [log EXCEPT ![a[1]] = Append(@, a[2])]
    BY DEF AppendDone, EventInv, TypeOK
  <1>2. log[a[1]] \in Seq(Events)
    BY <1>1
  <1>3. /\ Append(log[a[1]], a[2]) \in Seq(Events)
        /\ In(Append(log[a[1]], a[2])) = In(log[a[1]]) \cup {a[2]}
    BY <1>1, <1>2, Appended
  <1>4. /\ log' \in [Targets -> Seq(Events)] /\ log'[a[1]] = Append(log[a[1]], a[2])
        /\ \A t \in Targets \ {a[1]} : log'[t] = log[t]
    BY <1>1, <1>3
  <1> QED
    BY <1>1, <1>3, <1>4

\* An append that is done puts its event after all others of its file unless another
\* append of the event failed; the last append of the first in the queue posts it.
LEMMA AppendDoneInv ==
    ASSUME EventInv, NEW a \in appends, AppendDone(a)
    PROVE  EventInv'
  <1> USE DEF EventInv
  <1> DEFINE e == a[2]
             last == queue # <<>> /\ e = Head(queue) /\ \A b \in appends \ {a} : b[2] # e
  <1>0. /\ a[1] \in Targets /\ a[2] \in Events
        /\ log' \in [Targets -> Seq(Events)]
        /\ log'[a[1]] = Append(log[a[1]], a[2])
        /\ In(log'[a[1]]) = In(log[a[1]]) \cup {a[2]}
        /\ \A t \in Targets \ {a[1]} : log'[t] = log[t]
        /\ \A t \in Targets : In(log[t]) \subseteq In(log'[t])
        /\ \A t \in Targets : In(log'[t]) \subseteq In(log[t]) \cup {a[2]}
    BY Written
  <1>1. /\ ~dead /\ dead' = dead /\ appends' = appends \ {a}
        /\ last => Settles(TRUE) /\ sinkQueue' = Append(sinkQueue, e)
        /\ ~last => UNCHANGED <<queue, buffer, lost, phase, sinkQueue>>
        /\ UNCHANGED <<stored, post, requests, db, published, closing, awaited, process,
                       faults, failed, abandoned, owed>>
    BY DEF AppendDone
  <1>2. /\ e \in Events /\ e \in Nat /\ Pending \subseteq Nat /\ stored \in Nat
        /\ \A t \in Targets : In(log[t]) \subseteq Nat
        /\ In(sinkQueue) \subseteq Nat
    BY PendingTyped, <1>0
  <1>3. last => /\ queue' \in Seq(Events) /\ buffer' \in Seq(Events) /\ lost' \subseteq Events
                /\ phase' \in {"flushing", "ready"}
                /\ phase' = "flushing" => buffer' # <<>> /\ queue' = <<Head(buffer')>>
                /\ phase' = "ready" => buffer' = <<>>
                /\ Increasing(queue') /\ Increasing(buffer')
                /\ e \in In(queue)
                /\ \A x \in Pending' : x \in Pending /\ e < x
                /\ \A x \in Pending : x \in {e} \cup Pending' \cup lost'
                /\ \A x \in In(queue) : x = e \/ x \in In(queue')
                /\ lost \subseteq lost'
                /\ phase = "ready" => phase' = "ready" /\ In(queue') \subseteq In(queue)
    BY <1>1, Settling
  <1>4. /\ phase \in {"flushing", "ready"}
        /\ e \in In(queue) => queue # <<>> /\ e = Head(queue)
    <2>1. phase \in {"flushing", "ready"}
      BY DEF QueueInv, TypeOK
    <2>2. ASSUME e \in In(queue) PROVE queue # <<>> /\ e = Head(queue)
      <3>1. queue \in Seq(Events) /\ queue # <<>>
        BY <2>2 DEF TypeOK, In
      <3>2. Head(queue) \in In(queue) /\ Head(queue) \in Events
            /\ \A x \in In(queue) : x = Head(queue) \/ Head(queue) < x
        BY <3>1, Taken DEF QueueInv
      <3>3. e <= Head(queue)
        BY <3>2 DEF WriteInv, Pending
      <3> QED
        BY <3>1, <3>2, <3>3, <2>2, <1>2 DEF Events
    <2> QED
      BY <2>1, <2>2
  <1>5. \A x \in Pending' : x \in Pending /\ (last => x # e)
    <2>1. CASE last
      BY <2>1, <1>2, <1>3
    <2>2. CASE ~last
      BY <2>2, <1>1 DEF Pending
    <2> QED
      BY <2>1, <2>2
  <1>6. last => InEvery(e)'
    <2> SUFFICES ASSUME last, NEW t \in Targets PROVE e \in In(log'[t])
      BY DEF InEvery
    <2>1. <<t, e>> \in appends \/ e \in In(log[t])
      BY <1>3 DEF WriteInv
    <2>2. CASE <<t, e>> \in appends
      <3>1. <<t, e>>[2] = e /\ <<t, e>>[1] = t
        OBVIOUS
      <3>2. <<t, e>> = a
        BY <2>2, <3>1
      <3> QED
        BY <3>1, <3>2, <1>0
    <2> QED
      BY <2>1, <2>2, <1>0
  <1>7. \A x : InEvery(x) => InEvery(x)'
    BY <1>0 DEF InEvery
  <1>8. TypeOK'
    <2>1. sinkQueue' \in Seq(Events)
      <3>1. sinkQueue \in Seq(Events) /\ e \in Events
        BY <1>2 DEF TypeOK
      <3>2. Append(sinkQueue, e) \in Seq(Events)
        BY <3>1, Appended
      <3> QED
        BY <3>1, <3>2, <1>1
    <2>2. /\ queue' \in Seq(Events) /\ buffer' \in Seq(Events) /\ lost' \subseteq Events
          /\ phase' \in {"new", "opening", "flushing", "ready"}
          /\ phase' = "flushing" => buffer' # <<>>
      BY <1>1, <1>3 DEF TypeOK
    <2>3. appends' \subseteq Targets \X Events /\ log' \in [Targets -> Seq(Events)]
      BY <1>1, <1>0 DEF TypeOK
    <2> QED
      BY <1>1, <2>1, <2>2, <2>3 DEF TypeOK
  <1>9. QueueInv'
    <2>1. \A x \in Pending' : x <= stored'
      BY <1>1, <1>5 DEF QueueInv
    <2>2. CASE last
      BY <2>1, <2>2, <1>1, <1>3 DEF QueueInv
    <2>3. CASE ~last
      BY <2>1, <2>3, <1>1, <1>4 DEF QueueInv
    <2> QED
      BY <2>2, <2>3
  <1>10. WriteInv'
    <2>1. /\ e <= stored /\ \A x \in Pending : e <= x
      BY DEF WriteInv
    <2>2. \A t \in Targets : \A x \in In(log'[t]) : x <= stored' /\ \A y \in Pending' : x <= y
      <3> SUFFICES ASSUME NEW t \in Targets, NEW x \in In(log'[t])
                   PROVE  x <= stored' /\ \A y \in Pending' : x <= y
        OBVIOUS
      <3>1. x = e \/ x \in In(log[t])
        BY <1>0
      <3> QED
        BY <3>1, <2>1, <1>1, <1>5 DEF WriteInv
    <2>3. \A b \in appends' : b \in appends /\ b[2] <= stored' /\ \A y \in Pending' : b[2] <= y
      BY <1>1, <1>5 DEF WriteInv
    <2>4. ASSUME NEW x \in Pending', NEW t \in Targets, x \in In(log'[t])
          PROVE  UnderWay(x)'
      <3>1. CASE x = e
        <4>1. ~last
          BY <3>1, <1>5, <2>4
        <4>2. e \in In(queue)
          <5>1. CASE phase = "ready"
            <6>1. buffer = <<>> /\ e \in Pending
              BY <5>1, <3>1, <2>4, <1>5 DEF QueueInv
            <6> QED
              BY <6>1, <1>2, Short DEF Pending
          <5>2. CASE phase = "flushing"
            <6>1. buffer \in Seq(Events) /\ buffer # <<>> /\ queue = <<Head(buffer)>>
              BY <5>2 DEF TypeOK, QueueInv
            <6>2. /\ Head(buffer) \in Events
                  /\ In(buffer) = {Head(buffer)} \cup In(Tail(buffer))
                  /\ \A y \in In(Tail(buffer)) : Head(buffer) < y
              BY <6>1, Taken DEF QueueInv
            <6>3. In(queue) = {Head(buffer)}
              BY <6>1, <6>2, Short
            <6>4. e \in Pending /\ e <= Head(buffer)
              BY <2>1, <6>3, <3>1, <2>4, <1>5 DEF Pending
            <6> QED
              BY <6>2, <6>3, <6>4, <1>2 DEF Pending, Events
          <5> QED
            BY <5>1, <5>2, <1>4
        <4>3. PICK b \in appends \ {a} : b[2] = e
          BY <4>1, <4>2, <1>4
        <4> QED
          BY <4>3, <3>1, <1>1 DEF UnderWay
      <3>2. CASE x # e
        <4>1. x \in In(log[t])
          BY <3>2, <2>4, <1>0
        <4>2. PICK b \in appends : b[2] = x
          BY <4>1, <2>4, <1>5 DEF WriteInv, UnderWay
        <4>3. b \in appends'
          BY <4>2, <3>2, <1>1
        <4> QED
          BY <4>2, <4>3 DEF UnderWay
      <3> QED
        BY <3>1, <3>2
    <2>5. ASSUME NEW b \in appends' PROVE b[2] \notin In(log'[b[1]])
      <3>1. b \in appends /\ b # a /\ b[2] \notin In(log[b[1]]) /\ b[1] \in Targets
        BY <2>3, <1>1 DEF WriteInv, TypeOK
      <3>2. a \in Targets \X Events /\ b \in Targets \X Events
        BY <3>1 DEF TypeOK
      <3>3. b[1] = a[1] => b[2] # e
        BY <3>1, <3>2
      <3> QED
        BY <3>1, <3>3, <1>0
    <2>6. ASSUME NEW b \in appends', b[2] \in In(queue'), NEW t \in Targets
          PROVE  <<t, b[2]>> \in appends' \/ b[2] \in In(log'[t])
      <3>1. b \in appends /\ b[2] \in In(queue)
        <4>1. CASE ~last
          BY <4>1, <1>1, <2>6
        <4>2. CASE last
          <5>1. b[2] \in Pending' /\ b[2] <= e
            BY <2>3, <2>6, <4>2, <1>3 DEF Pending, WriteInv
          <5> QED
            <6>1. e < b[2] /\ b[2] \in Nat
              BY <5>1, <4>2, <1>2, <1>3, <1>5
            <6> QED
              BY <6>1, <5>1, <1>2
        <4> QED
          BY <4>1, <4>2, <2>3
      <3>2. <<t, b[2]>> \in appends \/ b[2] \in In(log[t])
        BY <3>1 DEF WriteInv
      <3>3. CASE <<t, b[2]>> = a
        BY <3>3, <1>0
      <3> QED
        BY <3>2, <3>3, <1>1, <1>0
    <2>7. ASSUME NEW b \in appends' PROVE b[2] \in In(queue') \/ b[2] \in failed'
      <3>1. b \in appends \ {a} /\ (b[2] \in In(queue) \/ b[2] \in failed)
        BY <2>3, <1>1 DEF WriteInv
      <3> QED
        BY <3>1, <1>1, <1>3
    <2> QED
      BY <2>2, <2>3, <2>4, <2>5, <2>6, <2>7 DEF WriteInv
  <1>11. FilesInv'
    <2> SUFFICES ASSUME NEW t \in Targets, NEW i \in DOMAIN log'[t], NEW j \in DOMAIN log'[t],
                        i < j
                 PROVE  /\ log'[t][i] # log'[t][j]
                        /\ log'[t][i] >= log'[t][j] => log'[t][j] \in failed'
      BY DEF FilesInv
    <2>1. CASE t # a[1]
      <3>1. log'[t] = log[t] /\ failed' = failed
        BY <2>1, <1>0, <1>1
      <3>2. /\ log[t][i] # log[t][j]
            /\ log[t][i] >= log[t][j] => log[t][j] \in failed
        BY <3>1 DEF FilesInv
      <3> QED
        BY <3>1, <3>2
    <2>2. CASE t = a[1]
      <3>1. /\ log[t] \in Seq(Events) /\ log'[t] = Append(log[t], e)
            /\ Len(log[t]) \in Nat /\ DOMAIN log[t] = 1..Len(log[t])
            /\ DOMAIN log'[t] = 1..(Len(log[t]) + 1)
            /\ \A k \in 1..Len(log[t]) : log'[t][k] = log[t][k]
            /\ log'[t][Len(log[t]) + 1] = e
        <4>1. log[t] \in Seq(Events) /\ log'[t] = Append(log[t], e)
          BY <2>2, <1>0 DEF TypeOK
        <4> QED
          BY <4>1, <1>2
      <3>2. i \in 1..Len(log[t]) /\ log'[t][i] = log[t][i]
        BY <3>1
      <3>3. CASE j \in 1..Len(log[t])
        BY <3>1, <3>2, <3>3, <1>1 DEF FilesInv
      <3>4. CASE j = Len(log[t]) + 1
        <4>1. log[t][i] \in In(log[t]) /\ log'[t][j] = e
          BY <3>1, <3>2, <3>4 DEF In
        <4>2. log[t][i] # e /\ log[t][i] \in Nat
          BY <4>1, <2>2, <1>2 DEF WriteInv
        <4>3. e \notin failed => log[t][i] <= e
          BY <4>1 DEF WriteInv, Pending
        <4> QED
          BY <4>1, <4>2, <4>3, <3>2, <1>1, <1>2
      <3> QED
        BY <3>1, <3>3, <3>4
    <2> QED
      BY <2>1, <2>2
  <1>12. /\ In(sinkQueue) \subseteq In(sinkQueue')
         /\ \A x \in In(sinkQueue') : x \in In(sinkQueue) \/ (last /\ x = e)
         /\ Increasing(sinkQueue')
         /\ sinkQueue # <<>> => sinkQueue' # <<>> /\ Head(sinkQueue') = Head(sinkQueue)
    <2>1. CASE ~last
      BY <2>1, <1>1 DEF SinkInv
    <2>2. CASE last
      <3>1. sinkQueue \in Seq(Events) /\ sinkQueue' = Append(sinkQueue, e) /\ Increasing(sinkQueue)
        BY <2>2, <1>1 DEF TypeOK, SinkInv
      <3>2. \A x \in In(sinkQueue) : x < e
        <4> SUFFICES ASSUME NEW x \in In(sinkQueue) PROVE x < e
          OBVIOUS
        <4>1. x \in In(log[a[1]]) /\ a[1] \in Targets
          BY <1>0 DEF SinkInv, InEvery
        <4>2. e \in Pending
          BY <2>2, <1>3 DEF Pending
        <4>3. x <= e /\ x # e
          BY <4>1, <4>2 DEF WriteInv
        <4> QED
          BY <4>3, <1>2
      <3> QED
        BY <3>1, <3>2, <2>2, <1>2, Appended
    <2> QED
      BY <2>1, <2>2
  <1>13. last => \A x : InEvery(x) => x <= e
    <2>1. last => e \in Pending
      BY <1>3 DEF Pending
    <2>2. ASSUME last, NEW x, InEvery(x) PROVE x <= e
      <3>1. x \in In(log[a[1]])
        BY <2>2, <1>0 DEF InEvery
      <3> QED
        BY <3>1, <2>1, <2>2, <1>0 DEF WriteInv
    <2> QED
      BY <2>2
  <1>14. SinkInv'
    <2>1. \A x \in In(sinkQueue') : InEvery(x)'
      BY <1>12, <1>6, <1>7 DEF SinkInv
    <2>2. post' # Idle => /\ sinkQueue' # <<>> /\ post'.event = Head(sinkQueue')
                          /\ post'.try \in 1..2
      BY <1>1, <1>12 DEF SinkInv
    <2>3. \A r \in requests' : InEvery(r.event)' /\ \A x \in In(sinkQueue') : r.event <= x
      BY <1>1, <1>7, <1>12, <1>13 DEF SinkInv
    <2> QED
      BY <2>1, <2>2, <2>3, <1>12 DEF SinkInv
  <1>15. ServiceInv'
    <2>1. \A x \in db' : InEvery(x)'
      BY <1>1, <1>7 DEF ServiceInv
    <2>2. \A x \in In(published'), y \in In(sinkQueue') : x <= y
      BY <1>1, <1>12, <1>13 DEF ServiceInv
    <2>3. \A r : Answers(r)' = Answers(r)
      BY <1>1 DEF Answers
    <2> QED
      BY <2>1, <2>2, <2>3, <1>1 DEF ServiceInv
  <1>16. CloseInv'
    <2>1. \A x \in 1..stored' : x \in Pending' \cup failed' \cup lost' \/ InEvery(x)'
      <3>1. \A x \in Pending : x \in Pending' \cup lost' \/ InEvery(x)'
        BY <1>1, <1>3, <1>6 DEF Pending
      <3>2. lost \subseteq lost'
        BY <1>1, <1>3
      <3> QED
        BY <3>1, <3>2, <1>1, <1>7 DEF CloseInv
    <2>2. closing' # "open" => phase = "ready" /\ phase' = "ready"
      BY <1>1, <1>3, <1>4 DEF CloseInv
    <2>3. closing' # "open" => In(queue') \subseteq In(queue)
      BY <2>2, <1>1, <1>3
    <2>4. closing' \in {"posts", "closed"} =>
            \A x \in 1..owed : x \in In(sinkQueue') => x \in In(sinkQueue)
      BY <1>1, <1>3, <1>12 DEF CloseInv
    <2> QED
      BY <2>1, <2>2, <2>3, <2>4, <1>1 DEF CloseInv
  <1> QED
    BY <1>8, <1>9, <1>10, <1>11, <1>14, <1>15, <1>16

\* An append that fails gives its event up: the first in the queue leaves it, and the
\* other append of it goes on.
LEMMA AppendFailsInv ==
    ASSUME EventInv, NEW a \in appends, AppendFails(a)
    PROVE  EventInv'
  <1> USE DEF EventInv
  <1> DEFINE e == a[2]
             first == queue # <<>> /\ e = Head(queue)
  <1>1. /\ ~dead /\ dead' = dead /\ appends' = appends \ {a} /\ failed' = failed \cup {e}
        /\ faults < MaxFaults /\ faults' = faults + 1
        /\ first => Settles(FALSE)
        /\ ~first => UNCHANGED <<queue, buffer, lost, phase>>
        /\ UNCHANGED <<stored, log, sinkQueue, post, requests, db, published, closing,
                       awaited, process, abandoned, owed>>
    BY DEF AppendFails
  <1>2. /\ a[1] \in Targets /\ e \in Events /\ e \in Nat /\ Pending \subseteq Nat /\ stored \in Nat
    BY PendingTyped DEF TypeOK
  <1>3. first => /\ queue' \in Seq(Events) /\ buffer' \in Seq(Events) /\ lost' \subseteq Events
                 /\ phase' \in {"flushing", "ready"}
                 /\ phase' = "flushing" => buffer' # <<>> /\ queue' = <<Head(buffer')>>
                 /\ phase' = "ready" => buffer' = <<>>
                 /\ Increasing(queue') /\ Increasing(buffer')
                 /\ e \in In(queue)
                 /\ \A x \in Pending' : x \in Pending /\ e < x
                 /\ \A x \in Pending : x \in {e} \cup Pending' \cup lost'
                 /\ \A x \in In(queue) : x = e \/ x \in In(queue')
                 /\ lost \subseteq lost'
                 /\ phase = "ready" => phase' = "ready" /\ In(queue') \subseteq In(queue)
    BY <1>1, Settling
  <1>4. phase \in {"flushing", "ready"}
    BY DEF QueueInv, TypeOK
  <1>5. e \in Pending => first
    <2> SUFFICES ASSUME e \in Pending PROVE first
      OBVIOUS
    <2>1. e \in In(queue)
      <3>1. CASE phase = "ready"
        <4>1. buffer = <<>>
          BY <3>1 DEF QueueInv
        <4> QED
          BY <4>1, <1>2, Short DEF Pending
      <3>2. CASE phase = "flushing"
        <4>1. buffer \in Seq(Events) /\ buffer # <<>> /\ queue = <<Head(buffer)>>
          BY <3>2 DEF TypeOK, QueueInv
        <4>2. /\ Head(buffer) \in Events
              /\ In(buffer) = {Head(buffer)} \cup In(Tail(buffer))
              /\ \A y \in In(Tail(buffer)) : Head(buffer) < y
          BY <4>1, Taken DEF QueueInv
        <4>3. In(queue) = {Head(buffer)}
          BY <4>1, <4>2, Short
        <4>4. e <= Head(buffer)
          BY <4>3 DEF WriteInv, Pending
        <4> QED
          BY <4>2, <4>3, <4>4, <1>2 DEF Pending, Events
      <3> QED
        BY <3>1, <3>2, <1>4
    <2>2. queue \in Seq(Events) /\ queue # <<>>
      BY <2>1 DEF TypeOK, In
    <2>3. Head(queue) \in In(queue) /\ Head(queue) \in Events
          /\ \A x \in In(queue) : x = Head(queue) \/ Head(queue) < x
      BY <2>2, Taken DEF QueueInv
    <2>4. e <= Head(queue)
      BY <2>3 DEF WriteInv, Pending
    <2> QED
      BY <2>1, <2>2, <2>3, <2>4, <1>2 DEF Events
  <1>6. \A x \in Pending' : x \in Pending /\ x # e
    <2>1. CASE first
      BY <2>1, <1>2, <1>3
    <2>2. CASE ~first
      BY <2>2, <1>1, <1>5 DEF Pending
    <2> QED
      BY <2>1, <2>2
  <1>7. TypeOK'
    <2>1. /\ queue' \in Seq(Events) /\ buffer' \in Seq(Events) /\ lost' \subseteq Events
          /\ phase' \in {"new", "opening", "flushing", "ready"}
          /\ phase' = "flushing" => buffer' # <<>>
      BY <1>1, <1>3 DEF TypeOK
    <2>2. appends' \subseteq Targets \X Events /\ failed' \subseteq Events
      BY <1>1, <1>2 DEF TypeOK
    <2>3. faults' \in 0..MaxFaults /\ process' \in 0..faults'
      BY <1>1 DEF TypeOK
    <2> QED
      BY <1>1, <2>1, <2>2, <2>3 DEF TypeOK
  <1>8. QueueInv'
    <2>1. \A x \in Pending' : x <= stored'
      BY <1>1, <1>6 DEF QueueInv
    <2>2. CASE first
      BY <2>1, <2>2, <1>1, <1>3 DEF QueueInv
    <2>3. CASE ~first
      BY <2>1, <2>3, <1>1, <1>4 DEF QueueInv
    <2> QED
      BY <2>2, <2>3
  <1>9. WriteInv'
    <2>1. \A t \in Targets : \A x \in In(log'[t]) : x <= stored' /\ \A y \in Pending' : x <= y
      BY <1>1, <1>6 DEF WriteInv
    <2>2. \A b \in appends' : b \in appends /\ b[2] <= stored' /\ \A y \in Pending' : b[2] <= y
      BY <1>1, <1>6 DEF WriteInv
    <2>3. ASSUME NEW x \in Pending' PROVE UnderWay(x)' \/ \A t \in Targets : x \notin In(log'[t])
      <3>1. CASE \A t \in Targets : x \notin In(log[t])
        BY <3>1, <1>1
      <3>2. CASE UnderWay(x)
        <4>1. PICK b \in appends : b[2] = x
          BY <3>2 DEF UnderWay
        <4>2. b \in appends'
          BY <4>1, <1>1, <1>6
        <4> QED
          BY <4>1, <4>2 DEF UnderWay
      <3> QED
        BY <3>1, <3>2, <1>6 DEF WriteInv
    <2>4. \A b \in appends' : b[2] \notin In(log'[b[1]])
      BY <1>1 DEF WriteInv
    <2>5. \A b \in appends' : b[2] \in In(queue') => b[2] \in In(queue) /\ b[2] # e
      <3> SUFFICES ASSUME NEW b \in appends', b[2] \in In(queue')
                   PROVE  b[2] \in In(queue) /\ b[2] # e
        OBVIOUS
      <3>1. b[2] \in Pending' /\ b[2] # e /\ b[2] \in Nat
        BY <1>2, <1>6 DEF Pending
      <3>2. ~first
        <4> SUFFICES ASSUME first PROVE FALSE
          OBVIOUS
        <4>1. e < b[2]
          BY <3>1, <1>3
        <4>2. b[2] <= e
          BY <2>2, <1>3 DEF WriteInv, Pending
        <4> QED
          BY <4>1, <4>2, <3>1, <1>2
      <3> QED
        BY <3>1, <3>2, <1>1
    <2>6. ASSUME NEW b \in appends', b[2] \in In(queue'), NEW t \in Targets
          PROVE  <<t, b[2]>> \in appends' \/ b[2] \in In(log'[t])
      <3>1. <<t, b[2]>> \in appends \/ b[2] \in In(log[t])
        BY <2>2, <2>5, <2>6 DEF WriteInv
      <3>2. <<t, b[2]>> # a
        BY <2>5, <2>6
      <3> QED
        BY <3>1, <3>2, <1>1
    <2>7. ASSUME NEW b \in appends' PROVE b[2] \in In(queue') \/ b[2] \in failed'
      <3>1. b \in appends /\ (b[2] \in In(queue) \/ b[2] \in failed)
        BY <2>2 DEF WriteInv
      <3> QED
        BY <3>1, <1>1, <1>3
    <2> QED
      BY <2>1, <2>2, <2>3, <2>4, <2>6, <2>7 DEF WriteInv
  <1>10. FilesInv'
    BY <1>1 DEF FilesInv
  <1>11. SinkInv' /\ ServiceInv'
    BY <1>1 DEF SinkInv, ServiceInv, InEvery, Answers
  <1>12. CloseInv'
    <2>1. \A x \in 1..stored' : x \in Pending' \cup failed' \cup lost' \/ InEvery(x)'
      <3>1. \A x \in Pending : x \in Pending' \cup lost' \cup failed'
        BY <1>1, <1>3 DEF Pending
      <3>2. lost \subseteq lost'
        BY <1>1, <1>3
      <3> QED
        BY <3>1, <3>2, <1>1 DEF CloseInv, InEvery
    <2>2. closing' # "open" => phase = "ready" /\ phase' = "ready"
      BY <1>1, <1>3, <1>4 DEF CloseInv
    <2>3. closing' # "open" => In(queue') \subseteq In(queue)
      BY <2>2, <1>1, <1>3
    <2> QED
      BY <2>1, <2>2, <2>3, <1>1 DEF CloseInv
  <1> QED
    BY <1>7, <1>8, <1>9, <1>10, <1>11, <1>12

-----------------------------------------------------------------------------
(* The posts and the service.                                                 *)

\* What the client, the service and close do leaves the store and the files alone.
LEMMA StoreFrame ==
    ASSUME EventInv, UNCHANGED <<stored, phase, buffer, queue, appends, log, failed, dead>>,
           dead => UNCHANGED <<sinkQueue, post>>
    PROVE  QueueInv' /\ WriteInv' /\ FilesInv' /\ Pending' = Pending
           /\ \A e : InEvery(e)' = InEvery(e)
  BY DEF EventInv, QueueInv, WriteInv, FilesInv, Pending, UnderWay, InEvery

\* A post under way is of the first in the sink's queue, whose others come after it.
LEMMA Posting ==
    ASSUME EventInv, sinkQueue # <<>>
    PROVE  /\ Head(sinkQueue) \in Events /\ Head(sinkQueue) \in In(sinkQueue)
           /\ InEvery(Head(sinkQueue)) /\ \A e \in In(sinkQueue) : Head(sinkQueue) <= e
           /\ Tail(sinkQueue) \in Seq(Events) /\ In(Tail(sinkQueue)) \subseteq In(sinkQueue)
           /\ Increasing(Tail(sinkQueue))
  <1>1. sinkQueue \in Seq(Events) /\ Increasing(sinkQueue)
    BY DEF EventInv, TypeOK, SinkInv
  <1>2. /\ Tail(sinkQueue) \in Seq(Events) /\ Head(sinkQueue) \in Events
        /\ In(sinkQueue) = {Head(sinkQueue)} \cup In(Tail(sinkQueue))
        /\ Increasing(Tail(sinkQueue))
        /\ \A x \in In(Tail(sinkQueue)) : Head(sinkQueue) < x
    BY <1>1, Taken
  <1>3. In(sinkQueue) \subseteq Nat
    BY PendingTyped DEF EventInv
  <1>4. ASSUME NEW e \in In(sinkQueue) PROVE Head(sinkQueue) <= e
    <2>1. e \in Nat /\ (e = Head(sinkQueue) \/ Head(sinkQueue) < e)
      BY <1>2, <1>3
    <2>2. Head(sinkQueue) \in Nat
      BY <1>2, <1>3
    <2> QED
      BY <2>1, <2>2
  <1> QED
    BY <1>2, <1>4 DEF EventInv, SinkInv

\* A new post of the first in the queue, of which no request is at the service that was
\* not given up.
LEMMA Sent ==
    ASSUME EventInv, sinkQueue # <<>>, ~dead, ~dead', NEW try \in 1..2, NEW others, others \subseteq requests,
           Sends(try, others), abandoned \subseteq abandoned',
           \A q \in others : q.event \in abandoned',
           UNCHANGED <<stored, phase, buffer, queue, appends, log, failed, sinkQueue, db,
                       published, process>>
    PROVE  /\ SinkInv' /\ ServiceInv'
           /\ requests' \subseteq RequestType /\ post' \in [event : Events \cup {0}, try : 0..2]
  <1> USE DEF EventInv
  <1> DEFINE h == Head(sinkQueue)
             new == [event |-> h, try |-> try, at |-> "sent", by |-> process]
  <1>1. /\ post' = [event |-> h, try |-> try] /\ requests' = others \cup {new}
        /\ h \in Events /\ InEvery(h) /\ \A e \in In(sinkQueue) : h <= e
    BY Posting DEF Sends
  <1>2. /\ new.event = h /\ new.at = "sent" /\ new.try = try /\ new.by = process
        /\ new \in RequestType
    <2>1. process \in 0..MaxFaults
      BY DEF TypeOK
    <2> QED
      BY <1>1, <2>1 DEF RequestType
  <1>3. post' # Idle /\ post'.event = h /\ post'.try = try
    BY <1>1 DEF Idle
  <1>4. \A e : InEvery(e)' = InEvery(e)
    BY DEF InEvery
  <1>5. SinkInv'
    <2>1. \A r \in requests' : InEvery(r.event)' /\ \A e \in In(sinkQueue') : r.event <= e
      BY <1>1, <1>2, <1>4 DEF SinkInv
    <2> QED
      BY <2>1, <1>3, <1>4 DEF SinkInv
  <1>6. Answers(new)'
    BY <1>2, <1>3 DEF Answers
  <1>7. ServiceInv'
    <2>1. \A r \in requests' : r = new \/ (r \in requests /\ r.event \in abandoned')
      BY <1>1
    <2>2. \A r \in requests' : r.at = "inserted" =>
            /\ r.event \in db' \ In(published')
            /\ \A q \in requests' : q.at = "inserted" /\ q.event = r.event => q = r
      BY <1>2, <2>1 DEF ServiceInv
    <2>3. \A r \in requests' : r.event \in abandoned' \/ (post' # Idle /\ Answers(r)')
      BY <2>1, <1>3, <1>6
    <2>4. \A r, q \in requests' : r.event = q.event /\ r.event \notin abandoned' => r = q
      BY <2>1
    <2>5. \A i, j \in DOMAIN published' :
            i < j /\ published'[i] > published'[j] => published'[j] \in abandoned'
      BY DEF ServiceInv
    <2>6. (\A e \in db' : InEvery(e)') /\ In(published') \subseteq db'
          /\ \A x \in In(published'), e \in In(sinkQueue') : x <= e
      BY <1>4 DEF ServiceInv
    <2> QED
      BY <2>2, <2>3, <2>4, <2>5, <2>6 DEF ServiceInv
  <1> QED
    BY <1>1, <1>2, <1>5, <1>7 DEF TypeOK, RequestType

\* The client goes on to the next event: no request is at the service that was not
\* given up.
LEMMA Advanced ==
    ASSUME EventInv, sinkQueue # <<>>, requests' \subseteq requests, abandoned \subseteq abandoned',
           sinkQueue' = Tail(sinkQueue), post' = Idle,
           \A q \in requests' : q.event \in abandoned',
           UNCHANGED <<stored, phase, buffer, queue, appends, log, failed, db, published>>
    PROVE  /\ SinkInv' /\ ServiceInv' /\ sinkQueue' \in Seq(Events)
           /\ requests' \subseteq RequestType /\ post' \in [event : Events \cup {0}, try : 0..2]
  <1> USE DEF EventInv
  <1>1. /\ sinkQueue' \in Seq(Events) /\ In(sinkQueue') \subseteq In(sinkQueue)
        /\ Increasing(sinkQueue')
    BY Posting
  <1>2. \A e : InEvery(e)' = InEvery(e)
    BY DEF InEvery
  <1>3. SinkInv'
    BY <1>1, <1>2 DEF SinkInv
  <1>4. ServiceInv'
    <2>1. \A r \in requests' : r.event \in abandoned' \/ (post' # Idle /\ Answers(r)')
      OBVIOUS
    <2>2. \A r, q \in requests' : r.event = q.event /\ r.event \notin abandoned' => r = q
      OBVIOUS
    <2> QED
      BY <1>1, <1>2, <2>1, <2>2 DEF ServiceInv
  <1> QED
    BY <1>1, <1>3, <1>4 DEF TypeOK, Idle

\* No event that close answers for comes into the queue of the posts.
LEMMA CloseFrame ==
    ASSUME EventInv, In(sinkQueue') \subseteq In(sinkQueue),
           UNCHANGED <<stored, phase, buffer, queue, appends, log, failed, lost, dead, closing,
                       awaited, owed>>
    PROVE  CloseInv'
  BY DEF EventInv, CloseInv, InEvery, Pending

\* The first in the queue of the posts is sent.
LEMMA PostNextInv == EventInv /\ PostNext => EventInv'
  <1> SUFFICES ASSUME EventInv, PostNext PROVE EventInv'
    OBVIOUS
  <1>1. /\ sinkQueue # <<>> /\ post = Idle /\ ~dead /\ dead' = dead /\ Sends(1, requests)
        /\ UNCHANGED <<stored, phase, buffer, queue, appends, log, sinkQueue, db, published,
                       closing, awaited, process, faults, failed, abandoned, lost, owed>>
    BY DEF PostNext
  <1>2. \A q \in requests : q.event \in abandoned'
    BY <1>1 DEF EventInv, ServiceInv
  <1>3. /\ SinkInv' /\ ServiceInv' /\ requests' \subseteq RequestType
        /\ post' \in [event : Events \cup {0}, try : 0..2]
    BY <1>1, <1>2, Sent
  <1>4. QueueInv' /\ WriteInv' /\ FilesInv'
    BY <1>1, StoreFrame
  <1>5. CloseInv'
    BY <1>1, CloseFrame
  <1>6. TypeOK'
    BY <1>1, <1>3 DEF EventInv, TypeOK
  <1> QED
    BY <1>3, <1>4, <1>5, <1>6 DEF EventInv

\* A try that failed is repeated, or the client goes on to the next event.
LEMMA TryFailedInv ==
    ASSUME EventInv, post # Idle, ~dead, dead' = dead, NEW others, others \subseteq requests, TryFailed(others),
           abandoned \subseteq abandoned', abandoned' \subseteq Events,
           \A q \in others : q.event \in abandoned',
           faults' \in 0..MaxFaults, faults <= faults',
           UNCHANGED <<stored, phase, buffer, queue, appends, log, db, published, closing,
                       awaited, process, failed, lost, owed>>
    PROVE  EventInv'
  <1>1. sinkQueue # <<>> /\ post.try \in 1..2
    BY DEF EventInv, SinkInv
  <1>2. /\ SinkInv' /\ ServiceInv' /\ requests' \subseteq RequestType
        /\ post' \in [event : Events \cup {0}, try : 0..2]
        /\ sinkQueue' \in Seq(Events) /\ In(sinkQueue') \subseteq In(sinkQueue)
    <2>1. CASE post.try = 1
      <3>1. Sends(2, others) /\ sinkQueue' = sinkQueue
        BY <2>1 DEF TryFailed
      <3>2. 2 \in 1..2 /\ ~dead'
        OBVIOUS
      <3>3. /\ SinkInv' /\ ServiceInv' /\ requests' \subseteq RequestType
            /\ post' \in [event : Events \cup {0}, try : 0..2]
        BY <3>1, <3>2, <1>1, Sent
      <3> QED
        BY <3>1, <3>3 DEF EventInv, TypeOK
    <2>2. CASE post.try # 1
      <3>1. post' = Idle /\ sinkQueue' = Tail(sinkQueue) /\ requests' = others
        BY <2>2 DEF TryFailed
      <3> QED
        BY <3>1, <1>1, Advanced, Posting
    <2> QED
      BY <2>1, <2>2
  <1>3. QueueInv' /\ WriteInv' /\ FilesInv'
    BY StoreFrame
  <1>4. CloseInv'
    BY <1>2, CloseFrame
  <1>5. TypeOK'
    <2>1. process' \in 0..faults'
      BY DEF EventInv, TypeOK
    <2> QED
      BY <1>2, <2>1 DEF EventInv, TypeOK
  <1> QED
    BY <1>2, <1>3, <1>4, <1>5 DEF EventInv

\* A post that times out is given up: the service may still handle it.
LEMMA TimesOutInv == EventInv /\ TimesOut => EventInv'
  <1> SUFFICES ASSUME EventInv, TimesOut PROVE EventInv'
    OBVIOUS
  <1>1. /\ post # Idle /\ ~dead /\ dead' = dead /\ TryFailed(requests)
        /\ abandoned' = abandoned \cup {post.event}
        /\ faults < MaxFaults /\ faults' = faults + 1
        /\ UNCHANGED <<stored, phase, buffer, queue, appends, log, db, published, closing,
                       awaited, process, failed, lost, owed>>
    BY DEF TimesOut
  <1>2. \A q \in requests : q.event \in abandoned'
    BY <1>1 DEF EventInv, ServiceInv, Answers
  <1>3. abandoned' \subseteq Events
    <2>1. post.event \in Events
      BY <1>1, Posting DEF EventInv, SinkInv
    <2> QED
      BY <2>1, <1>1 DEF EventInv, TypeOK
  <1>4. faults' \in 0..MaxFaults /\ faults <= faults'
    BY <1>1 DEF EventInv, TypeOK
  <1> QED
    BY <1>1, <1>2, <1>3, <1>4, TryFailedInv

\* A request that is refused leaves the service; its post is repeated or dropped.
LEMMA RefusedInv ==
    ASSUME EventInv, NEW r \in requests, Refused(r)
    PROVE  EventInv'
  <1>1. /\ r.at = "sent" /\ dead' = dead
        /\ IF Answers(r) THEN TryFailed(requests \ {r})
           ELSE requests' = requests \ {r} /\ UNCHANGED <<sinkQueue, post>>
        /\ faults < MaxFaults /\ faults' = faults + 1
        /\ UNCHANGED <<stored, phase, buffer, queue, appends, log, db, published, closing,
                       awaited, process, failed, abandoned, lost, owed>>
    BY DEF Refused
  <1>2. faults' \in 0..MaxFaults /\ faults <= faults' /\ process' \in 0..faults'
    BY <1>1 DEF EventInv, TypeOK
  <1>3. CASE Answers(r)
    <2>1. \A q \in requests \ {r} : q.event \in abandoned'
      BY <1>1, <1>3 DEF EventInv, ServiceInv, Answers
    <2>2. post # Idle /\ ~dead
      <3>1. r.event # 0
        BY DEF EventInv, TypeOK, RequestType, Events
      <3> QED
        BY <3>1, <1>3 DEF Answers, Idle
    <2>3. abandoned' \subseteq Events
      BY <1>1 DEF EventInv, TypeOK
    <2>4. requests \ {r} \subseteq requests /\ abandoned \subseteq abandoned'
          /\ TryFailed(requests \ {r})
      BY <1>1, <1>3
    <2> QED
      BY <1>1, <1>2, <2>1, <2>2, <2>3, <2>4, TryFailedInv
  <1>4. CASE ~Answers(r)
    <2>1. requests' = requests \ {r} /\ UNCHANGED <<sinkQueue, post>>
      BY <1>1, <1>4
    <2>2. QueueInv' /\ WriteInv' /\ FilesInv' /\ \A e : InEvery(e)' = InEvery(e)
      BY <1>1, <2>1, StoreFrame
    <2>3. CloseInv'
      BY <1>1, <2>1, CloseFrame
    <2>4. TypeOK'
      BY <1>1, <1>2, <2>1 DEF EventInv, TypeOK
    <2>5. SinkInv'
      BY <1>1, <2>1, <2>2 DEF EventInv, SinkInv
    <2>6. ServiceInv'
      BY <1>1, <2>1, <2>2 DEF EventInv, ServiceInv, Answers
    <2> QED
      BY <2>2, <2>3, <2>4, <2>5, <2>6 DEF EventInv
  <1> QED
    BY <1>3, <1>4

\* A request that is answered leaves the service, and its event may have been announced;
\* the post that waited for the answer is done.
LEMMA AnsweredInv ==
    ASSUME EventInv, NEW r \in requests, Answered(r),
           \/ published' = published
           \/ r.at = "inserted" /\ published' = Append(published, r.event),
           UNCHANGED <<stored, phase, buffer, queue, appends, log, db, closing, awaited, process,
                       faults, failed, abandoned, lost, dead, owed>>
    PROVE  EventInv'
  <1> USE DEF EventInv
  <1>1. /\ requests' = requests \ {r} /\ r.event \in Events
        /\ Answers(r) => post' = Idle /\ sinkQueue' = Tail(sinkQueue)
        /\ ~Answers(r) => UNCHANGED <<sinkQueue, post>>
    BY DEF Answered, TypeOK, RequestType
  <1>2. Answers(r) => /\ ~dead /\ post # Idle /\ sinkQueue # <<>>
                      /\ r.event = Head(sinkQueue)
    <2>1. r.event # 0
      BY <1>1 DEF Events
    <2> QED
      BY <2>1 DEF Answers, Idle, SinkInv
  <1>3. /\ sinkQueue' \in Seq(Events) /\ In(sinkQueue') \subseteq In(sinkQueue)
        /\ Increasing(sinkQueue') /\ post' \in [event : Events \cup {0}, try : 0..2]
    <2>1. CASE Answers(r)
      <3>1. post' \in [event : Events \cup {0}, try : 0..2]
        BY <2>1, <1>1 DEF Idle
      <3> QED
        BY <3>1, <2>1, <1>1, <1>2, Posting
    <2>2. CASE ~Answers(r)
      BY <2>2, <1>1 DEF TypeOK, SinkInv
    <2> QED
      BY <2>1, <2>2
  <1>4. QueueInv' /\ WriteInv' /\ FilesInv' /\ \A e : InEvery(e)' = InEvery(e)
    <2>1. dead => UNCHANGED <<sinkQueue, post>>
      BY <1>1, <1>2
    <2> QED
      BY <2>1, StoreFrame
  <1>5. CloseInv'
    BY <1>3, CloseFrame
  <1>6. /\ published' \in Seq(Events) /\ In(published) \subseteq In(published')
        /\ \A x \in In(published') : x \in In(published) \/ (r.at = "inserted" /\ x = r.event)
    <2>1. published \in Seq(Events)
      BY DEF TypeOK
    <2>2. CASE published' = published
      BY <2>1, <2>2
    <2>3. CASE r.at = "inserted" /\ published' = Append(published, r.event)
      BY <2>1, <2>3, <1>1, Appended
    <2> QED
      BY <2>2, <2>3
  <1>7. TypeOK'
    BY <1>1, <1>3, <1>6 DEF TypeOK
  <1>8. SinkInv'
    <2>1. post' # Idle => /\ sinkQueue' # <<>> /\ post'.event = Head(sinkQueue')
                          /\ post'.try \in 1..2
      BY <1>1 DEF SinkInv
    <2>2. \A e \in In(sinkQueue') : InEvery(e)'
      BY <1>3, <1>4 DEF SinkInv
    <2>3. \A q \in requests' : InEvery(q.event)' /\ \A e \in In(sinkQueue') : q.event <= e
      BY <1>1, <1>3, <1>4 DEF SinkInv
    <2> QED
      BY <2>1, <2>2, <2>3, <1>3 DEF SinkInv
  <1>9. ServiceInv'
    <2>1. (\A x \in db' : InEvery(x)') /\ In(published') \subseteq db'
      BY <1>4, <1>6 DEF ServiceInv
    <2>2. \A x \in In(published'), e \in In(sinkQueue') : x <= e
      BY <1>3, <1>6 DEF ServiceInv, SinkInv
    <2>3. ASSUME NEW q \in requests', q.at = "inserted"
          PROVE  /\ q.event \in db' \ In(published')
                 /\ \A p \in requests' : p.at = "inserted" /\ p.event = q.event => p = q
      <3>1. q \in requests /\ q # r /\ q.event \in db \ In(published)
        BY <2>3, <1>1 DEF ServiceInv
      <3>2. r.at = "inserted" => q.event # r.event
        BY <2>3, <3>1 DEF ServiceInv
      <3>3. \A p \in requests' : p.at = "inserted" /\ p.event = q.event => p = q
        BY <2>3, <3>1, <1>1 DEF ServiceInv
      <3> QED
        BY <3>1, <3>2, <3>3, <1>6
    <2>4. \A q \in requests' : q.event \in abandoned' \/ (post' # Idle /\ Answers(q)')
      <3> SUFFICES ASSUME NEW q \in requests', q.event \notin abandoned'
                   PROVE  post' # Idle /\ Answers(q)'
        OBVIOUS
      <3>1. q \in requests /\ q # r /\ Answers(q) /\ post # Idle
        BY <1>1 DEF ServiceInv
      <3>2. ~Answers(r)
        <4> SUFFICES ASSUME Answers(r) PROVE FALSE
          OBVIOUS
        <4>1. q.event = r.event
          BY <3>1 DEF Answers
        <4> QED
          BY <4>1, <3>1 DEF ServiceInv
      <3> QED
        BY <3>1, <3>2, <1>1 DEF Answers
    <2>5. \A q, p \in requests' : q.event = p.event /\ q.event \notin abandoned' => q = p
      BY <1>1 DEF ServiceInv
    <2>6. ASSUME NEW i \in DOMAIN published', NEW j \in DOMAIN published', i < j,
                 published'[i] > published'[j]
          PROVE  published'[j] \in abandoned'
      <3>1. CASE published' = published
        BY <2>6, <3>1 DEF ServiceInv
      <3>2. CASE r.at = "inserted" /\ published' = Append(published, r.event)
        <4>1. /\ published \in Seq(Events) /\ Len(published) \in Nat
              /\ DOMAIN published = 1..Len(published)
              /\ DOMAIN published' = 1..(Len(published) + 1)
              /\ \A k \in 1..Len(published) : published'[k] = published[k]
              /\ published'[Len(published) + 1] = r.event
          BY <3>2, <1>1 DEF TypeOK
        <4>2. i \in 1..Len(published)
          BY <4>1, <2>6
        <4>3. CASE j \in 1..Len(published)
          BY <4>1, <4>2, <4>3, <2>6 DEF ServiceInv
        <4>4. CASE j = Len(published) + 1
          <5> SUFFICES ASSUME r.event \notin abandoned PROVE FALSE
            BY <4>1, <4>4
          <5>1. published[i] \in In(published) /\ published[i] > r.event
            BY <4>1, <4>2, <4>4, <2>6 DEF In
          <5>2. Answers(r)
            BY DEF ServiceInv
          <5>3. r.event \in In(sinkQueue)
            BY <5>2, <1>2, Posting
          <5>4. published[i] <= r.event
            BY <5>1, <5>3 DEF ServiceInv
          <5>5. published[i] \in Nat /\ r.event \in Nat
            BY <5>1, <1>1, PendingTyped
          <5> QED
            BY <5>1, <5>4, <5>5
        <4> QED
          BY <4>1, <4>3, <4>4
      <3> QED
        BY <3>1, <3>2
    <2> QED
      BY <2>1, <2>2, <2>3, <2>4, <2>5, <2>6 DEF ServiceInv
  <1> QED
    BY <1>4, <1>5, <1>7, <1>8, <1>9

\* The first request for an event inserts it, and is the only one that will announce it.
LEMMA InsertInv ==
    ASSUME EventInv, NEW r \in requests, Insert(r)
    PROVE  EventInv'
  <1> USE DEF EventInv
  <1>1. /\ r.at = "sent"
        /\ UNCHANGED <<stored, phase, buffer, queue, appends, log, published, closing,
                       awaited, process, faults, failed, abandoned, lost, dead, owed>>
    BY DEF Insert
  <1>2. CASE r.event \in db
    <2>1. Answered(r) /\ db' = db
      BY <1>2 DEF Insert
    <2> QED
      BY <1>1, <2>1, AnsweredInv
  <1>3. CASE r.event \notin db
    <2> DEFINE new == [r EXCEPT !.at = "inserted"]
    <2>1. /\ db' = db \cup {r.event} /\ requests' = (requests \ {r}) \cup {new}
          /\ UNCHANGED <<sinkQueue, post>>
      BY <1>3 DEF Insert
    <2>2. /\ r \in RequestType /\ new \in RequestType /\ new.event = r.event
          /\ new.at = "inserted" /\ new.try = r.try /\ new.by = r.by /\ r.event \in Events
      BY DEF TypeOK, RequestType
    <2>3. QueueInv' /\ WriteInv' /\ FilesInv' /\ \A e : InEvery(e)' = InEvery(e)
      BY <1>1, <2>1, StoreFrame
    <2>4. CloseInv'
      BY <1>1, <2>1, CloseFrame
    <2>5. TypeOK'
      BY <1>1, <2>1, <2>2 DEF TypeOK
    <2>6. \A q \in requests' : q = new \/ (q \in requests /\ q # r)
      BY <2>1
    <2>7. SinkInv'
      BY <1>1, <2>1, <2>2, <2>3, <2>6 DEF SinkInv
    <2>8. ServiceInv'
      <3>1. \A x \in db' : InEvery(x)'
        BY <2>1, <2>3 DEF ServiceInv, SinkInv
      <3>2. \A q \in requests' : q.at = "inserted" =>
              /\ q.event \in db' \ In(published')
              /\ \A p \in requests' : p.at = "inserted" /\ p.event = q.event => p = q
        <4>1. r.event \notin In(published)
          BY <1>3 DEF ServiceInv
        <4>2. \A q \in requests : q.at = "inserted" => q.event # r.event
          BY <1>3 DEF ServiceInv
        <4> QED
          <5> SUFFICES ASSUME NEW q \in requests', q.at = "inserted"
                       PROVE  /\ q.event \in db' \ In(published')
                              /\ \A p \in requests' : p.at = "inserted" /\ p.event = q.event
                                                        => p = q
            OBVIOUS
          <5>1. CASE q = new
            BY <5>1, <4>1, <4>2, <1>1, <2>1, <2>2, <2>6
          <5>2. CASE q # new
            <6>1. q \in requests /\ q.event # r.event
              BY <5>2, <4>2, <2>6
            <6>2. q.event \in db \ In(published)
              BY <6>1 DEF ServiceInv
            <6>3. \A p \in requests' : p.at = "inserted" /\ p.event = q.event => p = q
              BY <6>1, <2>2, <2>6 DEF ServiceInv
            <6> QED
              BY <6>2, <6>3, <1>1, <2>1
          <5> QED
            BY <5>1, <5>2
      <3>3. \A q \in requests' : q.event \in abandoned' \/ (post' # Idle /\ Answers(q)')
        BY <1>1, <2>1, <2>2, <2>6 DEF ServiceInv, Answers
      <3>4. \A q, p \in requests' : q.event = p.event /\ q.event \notin abandoned' => q = p
        <4>1. \A q \in requests \ {r} : q.event = r.event => q.event \in abandoned
          BY DEF ServiceInv
        <4> QED
          BY <4>1, <1>1, <2>2, <2>6 DEF ServiceInv
      <3> QED
        BY <3>1, <3>2, <3>3, <3>4, <1>1, <2>1 DEF ServiceInv
    <2> QED
      BY <2>3, <2>4, <2>5, <2>7, <2>8
  <1> QED
    BY <1>2, <1>3

\* The request that inserted an event announces it, or fails to.
LEMMA PublishInv ==
    ASSUME EventInv, NEW r \in requests, Publish(r)
    PROVE  EventInv'
  <1>1. /\ r.at = "inserted" /\ Answered(r)
        /\ published' = published \/ published' = Append(published, r.event)
        /\ UNCHANGED <<stored, phase, buffer, queue, appends, log, db, closing, awaited,
                       process, faults, failed, abandoned, lost, dead, owed>>
    BY DEF Publish
  <1> QED
    BY <1>1, AnsweredInv

-----------------------------------------------------------------------------
(* The end of a process.                                                      *)

\* close waits for what is in the two queues, one after the other.
LEMMA CloseStepInv ==
    ASSUME EventInv, Close \/ WritesAwaited \/ Closed
    PROVE  EventInv'
  <1> USE DEF EventInv
  <1>1. /\ ~dead /\ dead' = dead
        /\ UNCHANGED <<stored, phase, buffer, queue, appends, log, sinkQueue, post, requests,
                       db, published, process, faults, failed, abandoned, lost>>
    BY DEF Close, WritesAwaited, Closed
  <1>2. QueueInv' /\ WriteInv' /\ FilesInv' /\ Pending' = Pending
        /\ \A e : InEvery(e)' = InEvery(e)
    BY <1>1, StoreFrame
  <1>3. SinkInv' /\ ServiceInv'
    BY <1>1, <1>2 DEF SinkInv, ServiceInv, Answers
  <1>4. In(queue) \subseteq Events /\ In(sinkQueue) \subseteq Events /\ stored \in Nat
    BY PendingTyped
  <1>5. CASE Close
    <2>1. /\ closing = "open" /\ phase \in {"new", "ready"} /\ closing' = "writes"
          /\ awaited' = In(queue) /\ owed' = IF phase = "new" THEN 0 ELSE stored
      BY <1>5 DEF Close
    <2>2. TypeOK'
      BY <1>1, <1>4, <2>1 DEF TypeOK
    <2>3. CloseInv'
      BY <1>1, <1>2, <1>4, <2>1 DEF CloseInv
    <2> QED
      BY <1>2, <1>3, <2>2, <2>3
  <1>6. CASE WritesAwaited
    <2>1. /\ closing = "writes" /\ closing' = "posts" /\ awaited' = In(sinkQueue)
          /\ awaited \cap In(queue) = {} /\ owed' = owed
      BY <1>6 DEF WritesAwaited
    <2>2. TypeOK'
      BY <1>1, <1>4, <2>1 DEF TypeOK
    <2>3. CloseInv'
      BY <1>1, <1>2, <2>1 DEF CloseInv
    <2> QED
      BY <1>2, <1>3, <2>2, <2>3
  <1>7. CASE Closed
    <2>1. /\ closing = "posts" /\ closing' = "closed" /\ awaited' = {}
          /\ awaited \cap In(sinkQueue) = {} /\ owed' = owed
      BY <1>7 DEF Closed
    <2>2. TypeOK'
      BY <1>1, <2>1 DEF TypeOK
    <2>3. CloseInv'
      BY <1>1, <1>2, <2>1 DEF CloseInv
    <2> QED
      BY <1>2, <1>3, <2>2, <2>3
  <1> QED
    BY <1>5, <1>6, <1>7

\* With its process, what waits is lost, and what was to be posted is given up.
LEMMA DiesInv == EventInv /\ Dies => EventInv'
  <1> SUFFICES ASSUME EventInv, Dies PROVE EventInv'
    OBVIOUS
  <1> USE DEF EventInv
  <1>1. /\ dead' = TRUE /\ phase' = "new" /\ lost' = lost \cup In(buffer) \cup In(queue)
        /\ abandoned' = abandoned \cup In(sinkQueue)
        /\ buffer' = <<>> /\ queue' = <<>> /\ appends' = {} /\ sinkQueue' = <<>> /\ post' = Idle
        /\ UNCHANGED <<stored, log, requests, db, published, closing, awaited, process,
                       faults, failed, owed>>
    BY DEF Dies
  <1>2. <<>> \in Seq(Events) /\ In(<<>>) = {} /\ Increasing(<<>>)
    BY DEF In, Increasing
  <1>3. Pending' = {}
    BY <1>1, <1>2 DEF Pending
  <1>4. \A e : InEvery(e)' = InEvery(e)
    BY <1>1 DEF InEvery
  <1>5. TypeOK'
    <2>1. lost' \subseteq Events /\ abandoned' \subseteq Events
      BY <1>1, PendingTyped DEF TypeOK
    <2>2. post' \in [event : Events \cup {0}, try : 0..2]
      BY <1>1 DEF Idle
    <2> QED
      BY <1>1, <1>2, <2>1, <2>2 DEF TypeOK
  <1>6. QueueInv' /\ FilesInv'
    BY <1>1, <1>2, <1>3 DEF QueueInv, FilesInv
  <1>7. WriteInv'
    BY <1>1, <1>3 DEF WriteInv
  <1>8. SinkInv'
    BY <1>1, <1>2, <1>4 DEF SinkInv
  <1>9. ServiceInv'
    <2>1. \A r \in requests : r.event \in abandoned'
      <3> SUFFICES ASSUME NEW r \in requests, r.event \notin abandoned PROVE r.event \in In(sinkQueue)
        BY <1>1
      <3>1. post # Idle /\ r.event = post.event
        BY DEF ServiceInv, Answers
      <3> QED
        BY <3>1, Posting DEF SinkInv
    <2> QED
      BY <2>1, <1>1, <1>2, <1>4 DEF ServiceInv
  <1>10. CloseInv'
    BY <1>1, <1>2, <1>4 DEF CloseInv, Pending
  <1> QED
    BY <1>5, <1>6, <1>7, <1>8, <1>9, <1>10

\* A resumed run begins with an empty store.
LEMMA RestartInv == EventInv /\ Restart => EventInv'
  <1> SUFFICES ASSUME EventInv, Restart PROVE EventInv'
    OBVIOUS
  <1> USE DEF EventInv
  <1>1. /\ dead /\ dead' = FALSE /\ closing' = "open" /\ awaited' = {}
        /\ faults < MaxFaults /\ process' = process + 1 /\ faults' = faults + 1
        /\ UNCHANGED <<stored, phase, buffer, queue, appends, log, sinkQueue, post, requests,
                       db, published, failed, abandoned, lost, owed>>
    BY DEF Restart
  <1>2. TypeOK'
    <2>1. faults' \in 0..MaxFaults /\ process' \in 0..faults'
      BY <1>1 DEF TypeOK
    <2> QED
      BY <1>1, <2>1 DEF TypeOK
  <1>3. QueueInv' /\ WriteInv' /\ FilesInv' /\ SinkInv'
    BY <1>1 DEF QueueInv, WriteInv, FilesInv, SinkInv, Pending, UnderWay, InEvery
  <1>4. ServiceInv'
    <2>1. post = Idle
      BY <1>1 DEF QueueInv
    <2> QED
      BY <2>1, <1>1 DEF ServiceInv, InEvery
  <1>5. CloseInv'
    BY <1>1 DEF CloseInv, InEvery, Pending
  <1> QED
    BY <1>2, <1>3, <1>4, <1>5

-----------------------------------------------------------------------------
(* The theorems.                                                              *)

\* Every step keeps the invariant.
LEMMA NextInv == EventInv /\ [Next]_vars => EventInv'
  <1> SUFFICES ASSUME EventInv, [Next]_vars PROVE EventInv'
    OBVIOUS
  <1>1. CASE Store \/ Initialize \/ Dies \/ Restart \/ PostNext \/ TimesOut
    BY <1>1, StoreInv, InitializeInv, DiesInv, RestartInv, PostNextInv, TimesOutInv
  <1>2. CASE StoreStep
    BY <1>2, OpenedInv, PersistNextInv, AppendDoneInv, AppendFailsInv DEF StoreStep
  <1>3. CASE ServiceStep
    BY <1>3, InsertInv, PublishInv, RefusedInv DEF ServiceStep
  <1>4. CASE Close \/ CloseStep
    BY <1>4, CloseStepInv DEF CloseStep
  <1>5. CASE UNCHANGED vars
    <2>1. UNCHANGED <<stored, phase, buffer, queue, appends, log, sinkQueue, post, requests,
                      db, published, closing, awaited, process, faults, failed, abandoned,
                      lost, dead, owed>>
      BY <1>5 DEF vars
    <2> USE DEF EventInv
    <2>2. TypeOK'
      BY <2>1 DEF TypeOK
    <2>3. QueueInv' /\ WriteInv' /\ FilesInv' /\ \A e : InEvery(e)' = InEvery(e)
      BY <2>1, StoreFrame
    <2>4. SinkInv' /\ ServiceInv' /\ CloseInv'
      BY <2>1, <2>3, CloseFrame DEF SinkInv, ServiceInv, Answers
    <2> QED
      BY <2>2, <2>3, <2>4
  <1> QED
    BY <1>1, <1>2, <1>3, <1>4, <1>5 DEF Next

\* The invariant holds of every behaviour.
LEMMA SpecInv == Spec => []EventInv
  BY InitInv, NextInv, PTL DEF Spec

\* Every reachable state of the store, the client and the service is well typed, and the
\* event that is flushed is at the head of the buffer (event-store.ts 31-70).
THEOREM EventsTypeCorrect == Spec => []TypeOK
  <1>1. EventInv => TypeOK
    BY DEF EventInv
  <1> QED
    BY <1>1, SpecInv, PTL

\* For any number of events, faults and processes: each file and the channel are in the
\* order of store() but for events an append of which failed or whose post was given up,
\* and after close no event that was not given up is still on its way.
THEOREM LogIsKept == Spec => []LogKept
  <1>1. EventInv => LogKept
    <2> SUFFICES ASSUME EventInv PROVE LogKept
      OBVIOUS
    <2> USE DEF EventInv
    <2>1. LogInOrder
      BY DEF LogInOrder, FilesInv, ServiceInv
    <2>2. CloseFlushes
      <3> SUFFICES ASSUME closing = "closed", ~dead, NEW e \in 1..owed, e \notin failed \cup lost
                   PROVE  (\A t \in Targets : e \in In(log[t])) /\ e \notin In(sinkQueue)
        BY DEF CloseFlushes
      <3>1. e \in 1..stored
        BY DEF CloseInv, TypeOK
      <3>2. phase = "ready"
        BY DEF CloseInv
      <3>3. buffer = <<>> /\ In(<<>>) = {}
        BY <3>2 DEF QueueInv, In
      <3>4. e \notin Pending
        BY <3>3 DEF Pending, CloseInv
      <3>5. InEvery(e)
        BY <3>1, <3>4 DEF CloseInv
      <3> QED
        BY <3>5 DEF InEvery, CloseInv
    <2> QED
      BY <2>1, <2>2 DEF LogKept
  <1> QED
    BY <1>1, SpecInv, PTL

\* An append that is done logs its event in the ledger if it is of the run's own file.
LEMMA AppendRefines ==
    ASSUME EventInv, NEW a \in appends, AppendDone(a)
    PROVE  [Ledger!Next]_<<log["run"], db, published>>
  <1>1. /\ UNCHANGED <<db, published>> /\ a[1] \in Targets /\ a[2] \in Events
        /\ log'[a[1]] = Append(log[a[1]], a[2])
        /\ \A t \in Targets \ {a[1]} : log'[t] = log[t]
    BY Written DEF AppendDone
  <1>2. CASE a[1] = "run"
    <2>1. a[2] \notin In(log["run"])
      BY <1>2 DEF EventInv, WriteInv
    <2>2. Ledger!Log(a[2])
      BY <2>1, <1>1, <1>2 DEF Ledger!Log, Ledger!In, In
    <2> QED
      BY <2>2, <1>1 DEF Ledger!Next
  <1>3. CASE a[1] # "run"
    BY <1>1, <1>3
  <1> QED
    BY <1>2, <1>3

\* The request that inserts an event receives it in the ledger.
LEMMA InsertRefines ==
    ASSUME EventInv, NEW r \in requests, Insert(r)
    PROVE  [Ledger!Next]_<<log["run"], db, published>>
  <1>1. /\ UNCHANGED <<log, published>> /\ r.event \in Events
        /\ db' = db \/ (r.event \notin db /\ db' = db \cup {r.event})
    BY DEF Insert, EventInv, TypeOK, RequestType
  <1>2. r.event \in In(log["run"])
    BY DEF EventInv, SinkInv, InEvery
  <1>3. CASE r.event \notin db /\ db' = db \cup {r.event}
    <2>1. Ledger!Receive(r.event)
      BY <1>1, <1>2, <1>3 DEF Ledger!Receive, Ledger!In, In
    <2> QED
      BY <2>1, <1>1 DEF Ledger!Next
  <1> QED
    BY <1>1, <1>3

\* The request that publishes an event announces it in the ledger.
LEMMA PublishRefines ==
    ASSUME EventInv, NEW r \in requests, Publish(r)
    PROVE  [Ledger!Next]_<<log["run"], db, published>>
  <1>1. /\ UNCHANGED <<log, db>> /\ r.event \in Events /\ r.at = "inserted"
        /\ published' = published \/ published' = Append(published, r.event)
    BY DEF Publish, EventInv, TypeOK, RequestType
  <1>2. r.event \in db \ In(published)
    BY <1>1 DEF EventInv, ServiceInv
  <1>3. CASE published' = Append(published, r.event)
    <2>1. Ledger!Announce(r.event)
      BY <1>1, <1>2, <1>3 DEF Ledger!Announce, Ledger!In, In
    <2> QED
      BY <2>1, <1>1 DEF Ledger!Next
  <1> QED
    BY <1>1, <1>3

\* EventLog implements EventLedger, whatever fails and whoever dies: an event is in the
\* run's file at most once, reaches the sink's table only after it was logged, and is
\* announced at most once, after that (event-store.ts 72-100, event-ingestion-api.ts 736-762).
THEOREM LedgerIsKept == Spec => KeepsLedger
  <1>1. Init => Ledger!Init
    BY DEF Init, Ledger!Init
  <1>2. EventInv /\ [Next]_vars => [Ledger!Next]_<<log["run"], db, published>>
    <2> SUFFICES ASSUME EventInv, [Next]_vars
                 PROVE  [Ledger!Next]_<<log["run"], db, published>>
      OBVIOUS
    <2>1. CASE \E a \in appends : AppendDone(a)
      BY <2>1, AppendRefines
    <2>2. CASE \E r \in requests : Insert(r)
      BY <2>2, InsertRefines
    <2>3. CASE \E r \in requests : Publish(r)
      BY <2>3, PublishRefines
    <2>4. CASE \/ Store \/ Initialize \/ Close \/ Dies \/ Restart \/ PostNext \/ TimesOut
               \/ CloseStep \/ Opened \/ PersistNext
               \/ (\E a \in appends : AppendFails(a)) \/ (\E r \in requests : Refused(r))
               \/ UNCHANGED vars
      <3>1. UNCHANGED <<log, db, published>>
        BY <2>4 DEF Store, Initialize, Close, Dies, Restart, PostNext, TimesOut, CloseStep,
             WritesAwaited, Closed, Opened, PersistNext, AppendFails, Refused, vars
      <3> QED
        BY <3>1
    <2> QED
      BY <2>1, <2>2, <2>3, <2>4 DEF Next, StoreStep, ServiceStep
  <1> QED
    BY <1>1, <1>2, SpecInv, PTL DEF Spec, KeepsLedger, Ledger!Spec, Ledger!ledgerVars

=============================================================================
