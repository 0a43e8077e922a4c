---------------------------- MODULE AgentStep_proofs ----------------------------
\* Type correctness of AgentRun and of StepLog; that the session file keeps the
\* newest record of each key, for any number of steps, agents and executions; and
\* that what the sink keeps of a step's log is in order and complete but for what
\* is known to be lost, for any number of lines, attempts, lives and faults.
EXTENDS AgentProperties, StepLogProperties, SequenceTheorems, WellFoundedInduction, TLAPS

-----------------------------------------------------------------------------
\* Sets of numbers.  The order of the natural numbers is well-founded: that gives induction.

\* A set of natural numbers that is not empty has a least element.
LEMMA LeastNumber ==
  ASSUME NEW T, T \subseteq Nat, T # {}
  PROVE  \E x \in T : \A y \in T : x <= y
<1>1. IsWellFoundedOn({ss \in Nat \X Nat : ss[1] < ss[2]}, Nat)
  BY NatLessThanWellFounded DEF OpToRel
<1>2. PICK x \in T : \A y \in T : <<y, x>> \notin {ss \in Nat \X Nat : ss[1] < ss[2]}
  BY <1>1, WFMin
<1>3. ASSUME NEW y \in T PROVE x <= y
  <2>1. y \in Nat /\ x \in Nat OBVIOUS
  <2>2. ~(y < x) BY <1>2, <2>1
  <2> QED BY <2>1, <2>2
<1> QED BY <1>3

\* What holds of 0, and of n + 1 when it holds of n, holds of every natural number: T is the
\* set of the numbers it holds of.
LEMMA Induction ==
  ASSUME NEW T, 0 \in T, \A n \in Nat : n \in T => n + 1 \in T
  PROVE  \A n \in Nat : n \in T
<1>1. SUFFICES ASSUME Nat \ T # {} PROVE FALSE OBVIOUS
<1>2. PICK x \in Nat \ T : \A y \in Nat \ T : x <= y
  <2>1. Nat \ T \subseteq Nat OBVIOUS
  <2> QED BY <1>1, <2>1, LeastNumber
<1>3. x # 0 /\ x - 1 \in Nat /\ ~(x <= x - 1) /\ x = (x - 1) + 1
  BY <1>2
<1>4. x - 1 \in T BY <1>2, <1>3
<1> QED BY <1>2, <1>3, <1>4

\* A set of numbers between 1 and n that is not empty has a greatest element, and Max is it.
LEMMA MaxOfBounded ==
  ASSUME NEW n \in Nat, NEW T \in SUBSET (1 .. n), T # {}
  PROVE  Max(T) \in T /\ \A y \in T : Max(T) >= y
<1> DEFINE D == {n - y : y \in T}
<1>1. D \subseteq Nat /\ D # {}
  <2>1. ASSUME NEW y \in T PROVE n - y \in Nat
    <3>1. y \in 1 .. n OBVIOUS
    <3> QED BY <3>1
  <2> QED BY <2>1
<1>2. PICK d \in D : \A e \in D : d <= e BY <1>1, LeastNumber
<1>3. PICK x \in T : d = n - x BY <1>2
<1>4. ASSUME NEW y \in T PROVE x >= y
  <2>1. n - y \in D /\ x \in 1 .. n /\ y \in 1 .. n OBVIOUS
  <2>2. n - x <= n - y BY <1>2, <1>3, <2>1
  <2> QED BY <2>1, <2>2
<1> QED BY <1>3, <1>4 DEF Max

\* The greatest of numbers up to n + 1 is n + 1 where that is one of them.
LEMMA MaxOfPrefix ==
  ASSUME NEW n \in Nat, NEW T \in SUBSET (1 .. n + 1), n + 1 \in T
  PROVE  Max(T) = n + 1
<1>1. n + 1 \in Nat /\ T # {} OBVIOUS
<1>2. Max(T) \in T /\ \A y \in T : Max(T) >= y BY <1>1, MaxOfBounded
<1>3. Max(T) \in 1 .. n + 1 /\ Max(T) >= n + 1 BY <1>2
<1> QED BY <1>3

-----------------------------------------------------------------------------
\* The records of the file.

\* The filter of record, one record after the other: what it has kept of the first k is what
\* it has kept of the k - 1 before, and the k-th unless that has the key of the new one.
LEMMA WithoutUnfolds ==
  ASSUME NEW file, NEW q, NEW n \in Nat, DOMAIN file = 1 .. n
  PROVE  \E g : /\ g[0] = <<>>
                /\ \A k \in 1 .. n : g[k] = IF SameKey(file[k], q) THEN g[k - 1] ELSE Append(g[k - 1], file[k])
                /\ Without(file, q) = g[n]
<1> DEFINE Op(kept, r) == IF SameKey(r, q) THEN kept ELSE Append(kept, r)
           Is(g, k) == g = [T \in SUBSET (1 .. k) |-> IF T = {} THEN <<>> ELSE Op(g[T \ {Max(T)}], file[Max(T)])]
           All == {k \in Nat : \E g : Is(g, k)}
<1>1. 0 \in All
  <2> DEFINE g0 == [T \in SUBSET (1 .. 0) |-> <<>>]
  <2>1. \A T \in SUBSET (1 .. 0) : T = {} OBVIOUS
  <2>2. Is(g0, 0) BY <2>1
  <2> QED BY <2>2
<1>2. ASSUME NEW k \in Nat, k \in All PROVE k + 1 \in All
  <2>1. PICK g : Is(g, k) BY <1>2
  <2> DEFINE h == [T \in SUBSET (1 .. k + 1) |-> IF k + 1 \in T THEN Op(g[T \ {k + 1}], file[k + 1]) ELSE g[T]]
  <2> HIDE DEF Op
  <2>2. ASSUME NEW T \in SUBSET (1 .. k + 1)
        PROVE  h[T] = IF T = {} THEN <<>> ELSE Op(h[T \ {Max(T)}], file[Max(T)])
    <3>1. CASE k + 1 \in T
      <4>1. Max(T) = k + 1 BY <3>1, MaxOfPrefix
      <4>2. T \ {k + 1} \in SUBSET (1 .. k + 1) /\ k + 1 \notin T \ {k + 1} OBVIOUS
      <4>3. h[T \ {k + 1}] = g[T \ {k + 1}] BY <4>2
      <4> QED BY <3>1, <4>1, <4>3
    <3>2. CASE k + 1 \notin T
      <4>1. T \in SUBSET (1 .. k) BY <3>2
      <4>2. h[T] = g[T] BY <3>2
      <4>3. g[T] = IF T = {} THEN <<>> ELSE Op(g[T \ {Max(T)}], file[Max(T)]) BY <2>1, <4>1
      <4>4. T \ {Max(T)} \in SUBSET (1 .. k + 1) /\ k + 1 \notin T \ {Max(T)} BY <3>2
      <4>5. h[T \ {Max(T)}] = g[T \ {Max(T)}] BY <4>4
      <4> QED BY <4>2, <4>3, <4>5
    <3> QED BY <3>1, <3>2
  <2>3. Is(h, k + 1) BY <2>2
  <2>4. \E x : Is(x, k + 1) BY <2>3
  <2> HIDE DEF Is
  <2> QED BY <2>4
<1>3. n \in All
  <2> HIDE DEF All
  <2> QED BY <1>1, <1>2, Induction
<1>4. PICK f : Is(f, n) BY <1>3, Zenon
<1>5. Without(file, q) = (CHOOSE g : Is(g, n))[1 .. n]
  BY DEF Without, FoldLeft, MapThenFoldSet
<1> DEFINE c == CHOOSE g : Is(g, n)
<1>6. Is(c, n) BY <1>4, Zenon
<1> HIDE DEF c, Op
<1> DEFINE e == [k \in 0 .. n |-> c[1 .. k]]
<1>7. e[0] = <<>>
  <2>1. 1 .. 0 = {} /\ {} \in SUBSET (1 .. n) OBVIOUS
  <2> QED BY <1>6, <2>1
<1>8. ASSUME NEW k \in 1 .. n PROVE e[k] = Op(e[k - 1], file[k])
  <2>1. 1 .. k \in SUBSET (1 .. n) /\ 1 .. k # {} /\ (1 .. k) \ {k} = 1 .. (k - 1) OBVIOUS
  <2>2. Max(1 .. k) = k
    <3>1. k - 1 \in Nat /\ 1 .. k \in SUBSET (1 .. (k - 1) + 1) /\ (k - 1) + 1 \in 1 .. k /\ (k - 1) + 1 = k OBVIOUS
    <3> QED BY <3>1, MaxOfPrefix
  <2>3. c[1 .. k] = Op(c[1 .. (k - 1)], file[k]) BY <1>6, <2>1, <2>2
  <2> QED BY <2>3
<1>9. Without(file, q) = e[n] BY <1>5 DEF c
<1> HIDE DEF e
<1> QED BY <1>7, <1>8, <1>9 DEF Op

\* A file with one record of each key
OneEach(file) == \A i, j \in DOMAIN file : SameKey(file[i], file[j]) => i = j

\* A record of a key the file does not have can be appended: each key still has one record.
LEMMA AppendedKeys ==
  ASSUME NEW R, NEW file \in Seq(R), NEW r \in R, OneEach(file), \A x \in ToSet(file) : ~SameKey(x, r)
  PROVE  /\ OneEach(Append(file, r)) /\ Append(file, r) \in Seq(R)
         /\ ToSet(Append(file, r)) = ToSet(file) \cup {r}
<1> DEFINE t == Append(file, r)
<1>1. /\ t \in Seq(R) /\ Len(t) = Len(file) + 1 /\ Len(file) \in Nat
      /\ \A i \in 1 .. Len(file) : t[i] = file[i]
      /\ t[Len(file) + 1] = r
  BY AppendProperties, LenProperties
<1>2. DOMAIN t = 1 .. Len(file) + 1 /\ DOMAIN file = 1 .. Len(file)
  BY <1>1, LenProperties
<1> HIDE DEF t
<1>3. ASSUME NEW i \in DOMAIN t, NEW j \in DOMAIN t, SameKey(t[i], t[j]) PROVE i = j
  <2>1. CASE i \in DOMAIN file /\ j \in DOMAIN file
    BY <1>1, <1>2, <1>3, <2>1 DEF OneEach
  <2>2. CASE i \in DOMAIN file /\ j = Len(file) + 1
    <3>1. t[i] \in ToSet(file) /\ t[j] = r BY <1>1, <1>2, <2>2 DEF ToSet
    <3> QED BY <3>1, <1>3
  <2>3. CASE j \in DOMAIN file /\ i = Len(file) + 1
    <3>1. t[j] \in ToSet(file) /\ t[i] = r BY <1>1, <1>2, <2>3 DEF ToSet
    <3> QED BY <3>1, <1>3 DEF SameKey
  <2>4. CASE i = Len(file) + 1 /\ j = Len(file) + 1
    BY <2>4
  <2> QED BY <1>1, <1>2, <2>1, <2>2, <2>3, <2>4
<1>4. ToSet(t) = ToSet(file) \cup {r}
  <2>1. ASSUME NEW x \in ToSet(t) PROVE x \in ToSet(file) \cup {r}
    <3>1. PICK i \in DOMAIN t : x = t[i] BY <2>1 DEF ToSet
    <3>2. i \in DOMAIN file \/ i = Len(file) + 1 BY <1>1, <1>2
    <3> QED BY <1>1, <1>2, <3>1, <3>2 DEF ToSet
  <2>2. ASSUME NEW x \in ToSet(file) PROVE x \in ToSet(t)
    <3>1. PICK i \in DOMAIN file : x = file[i] BY <2>2 DEF ToSet
    <3>2. i \in DOMAIN t /\ t[i] = x BY <1>1, <1>2, <3>1
    <3> QED BY <3>2 DEF ToSet
  <2>3. Len(file) + 1 \in DOMAIN t BY <1>1, <1>2
  <2>4. r \in ToSet(t) BY <1>1, <2>3 DEF ToSet
  <2> QED BY <2>1, <2>2, <2>4
<1> QED BY <1>1, <1>3, <1>4 DEF OneEach, t

\* What the filter of record keeps: the records of every other key, each still once.
LEMMA WithoutKeeps ==
  ASSUME NEW R, NEW file \in Seq(R), OneEach(file), NEW q
  PROVE  /\ Without(file, q) \in Seq(R) /\ OneEach(Without(file, q))
         /\ ToSet(Without(file, q)) = {r \in ToSet(file) : ~SameKey(r, q)}
<1> DEFINE n == Len(file)
<1>1. n \in Nat /\ DOMAIN file = 1 .. n /\ \A i \in 1 .. n : file[i] \in R
  BY LenProperties, ElementOfSeq
<1> HIDE DEF n
<1>2. PICK g : /\ g[0] = <<>>
               /\ \A k \in 1 .. n : g[k] = IF SameKey(file[k], q) THEN g[k - 1] ELSE Append(g[k - 1], file[k])
               /\ Without(file, q) = g[n]
  BY <1>1, WithoutUnfolds
<1> DEFINE Good(k) == /\ g[k] \in Seq(R) /\ OneEach(g[k])
                      /\ ToSet(g[k]) = {file[i] : i \in {i \in 1 .. k : ~SameKey(file[i], q)}}
           All == {k \in Nat : k <= n => Good(k)}
<1>3. 0 \in All
  <2>1. DOMAIN g[0] = {} /\ g[0] \in Seq(R) BY <1>2, EmptySeq, LenProperties
  <2>2. ToSet(g[0]) = {} /\ OneEach(g[0]) BY <2>1 DEF ToSet, OneEach
  <2>3. {i \in 1 .. 0 : ~SameKey(file[i], q)} = {} OBVIOUS
  <2> QED BY <2>1, <2>2, <2>3
<1>4. ASSUME NEW k \in Nat, k \in All PROVE k + 1 \in All
  <2>1. SUFFICES ASSUME k + 1 <= n PROVE Good(k + 1) OBVIOUS
  <2>2. Good(k) /\ k + 1 \in 1 .. n /\ k = (k + 1) - 1 BY <1>1, <1>4, <2>1
  <2>3. g[k + 1] = IF SameKey(file[k + 1], q) THEN g[k] ELSE Append(g[k], file[k + 1]) BY <1>2, <2>2
  <2>4. CASE SameKey(file[k + 1], q)
    <3>1. {i \in 1 .. k + 1 : ~SameKey(file[i], q)} = {i \in 1 .. k : ~SameKey(file[i], q)} BY <2>4
    <3>2. g[k + 1] = g[k] BY <2>3, <2>4
    <3> QED BY <2>2, <3>1, <3>2
  <2>5. CASE ~SameKey(file[k + 1], q)
    <3>1. g[k + 1] = Append(g[k], file[k + 1]) BY <2>3, <2>5
    <3>2. file[k + 1] \in R BY <1>1, <2>2
    <3>3. \A x \in ToSet(g[k]) : ~SameKey(x, file[k + 1])
      <4>1. SUFFICES ASSUME NEW i \in 1 .. k, SameKey(file[i], file[k + 1]) PROVE FALSE
        BY <2>2
      <4>2. i \in DOMAIN file /\ k + 1 \in DOMAIN file /\ i # k + 1 BY <1>1, <2>2
      <4> QED BY <4>1, <4>2 DEF OneEach
    <3>4. Append(g[k], file[k + 1]) \in Seq(R) /\ OneEach(Append(g[k], file[k + 1]))
          /\ ToSet(Append(g[k], file[k + 1])) = ToSet(g[k]) \cup {file[k + 1]}
      BY <2>2, <3>2, <3>3, AppendedKeys
    <3>5. {i \in 1 .. k + 1 : ~SameKey(file[i], q)} = {i \in 1 .. k : ~SameKey(file[i], q)} \cup {k + 1} BY <2>5
    <3>6. {file[i] : i \in {i \in 1 .. k + 1 : ~SameKey(file[i], q)}}
            = {file[i] : i \in {i \in 1 .. k : ~SameKey(file[i], q)}} \cup {file[k + 1]} BY <3>5
    <3> QED BY <2>2, <3>1, <3>4, <3>6
  <2> QED BY <2>4, <2>5
<1>5. n \in All
  <2> HIDE DEF All
  <2> QED BY <1>1, <1>3, <1>4, Induction
<1>6. Good(n) BY <1>1, <1>5
<1>7. {file[i] : i \in {i \in 1 .. n : ~SameKey(file[i], q)}} = {r \in ToSet(file) : ~SameKey(r, q)}
  BY <1>1 DEF ToSet
<1> QED BY <1>2, <1>6, <1>7

-----------------------------------------------------------------------------
\* Types.

Phases == {"idle", "running", "settled", "recording", "ended", "completed", "rework", "failed"}
TagType == Steps \X Nat
ResultType == [by : TagType, status : Statuses]
RecordType == [agent : Agents, step : Steps, attempt : Nat, by : TagType]
ExecType == [phase : Phases, try : Nat, attempt : Nat, resume : {None} \cup TagType, fresh : BOOLEAN,
             home : BOOLEAN, spawned : Nat, exit : {None} \cup Codes, held : BOOLEAN, timedOut : BOOLEAN,
             outcome : {None} \cup ResultType]
ProcType == [step : Steps, try : Nat, n : Nat, wrote : BOOLEAN, signalled : BOOLEAN]
AgentType ==
  /\ mode \in [Agents -> Modes]
  /\ exec \in [Steps -> ExecType]
  /\ procs \subseteq ProcType
  /\ result \in {None} \cup ResultType
  /\ sessions \in Seq(RecordType) /\ queue \in Seq(Steps)
  /\ drafts \in [Steps -> {None} \cup Seq(RecordType)]
  /\ recorded \subseteq RecordType

\* The variables of AgentRun have their types at first.
LEMMA AgentTypeInit == AgentInit => AgentType
<1> SUFFICES ASSUME AgentInit PROVE AgentType OBVIOUS
<1>1. NotStarted \in ExecType BY DEF NotStarted, ExecType, Phases
<1>2. exec \in [Steps -> ExecType] BY <1>1 DEF AgentInit
<1>3. <<>> \in Seq(RecordType) /\ <<>> \in Seq(Steps) BY EmptySeq
<1> QED BY <1>2, <1>3 DEF AgentInit, AgentType

\* An execution whose process has been started is one, in the same phase, of the same number.
LEMMA SpawnedType ==
  ASSUME NEW e \in ExecType, NEW fresh \in BOOLEAN, NEW home \in BOOLEAN
  PROVE  /\ Spawned(e, fresh, home) \in ExecType
         /\ Spawned(e, fresh, home).phase = e.phase /\ Spawned(e, fresh, home).try = e.try
         /\ Spawned(e, fresh, home).attempt = e.attempt
<1>1. e.spawned + 1 \in Nat BY DEF ExecType
<1>2. Spawned(e, fresh, home) \in ExecType BY <1>1 DEF Spawned, ExecType
<1>3. Spawned(e, fresh, home).phase = e.phase BY DEF Spawned, ExecType
<1>4. Spawned(e, fresh, home).try = e.try BY DEF Spawned, ExecType
<1>5. Spawned(e, fresh, home).attempt = e.attempt BY DEF Spawned, ExecType
<1> QED BY <1>2, <1>3, <1>4, <1>5

\* An execution that is over is one, in the phase it ended in.
LEMMA OverType ==
  ASSUME exec \in [Steps -> ExecType], NEW s \in Steps, NEW next \in Phases
  PROVE  Over(s, next) \in ExecType /\ Over(s, next).phase = next
<1>1. exec[s].try \in Nat /\ exec[s].attempt \in Nat BY DEF ExecType
<1> QED BY <1>1 DEF Over, NotStarted, ExecType

\* The process of an execution is a process.
LEMMA ProcessType ==
  ASSUME NEW s \in Steps, NEW e \in ExecType
  PROVE  Process(s, e) \in ProcType
BY DEF Process, ProcType, ExecType

\* What is recorded of an execution is a record.
LEMMA SessionType ==
  ASSUME exec \in [Steps -> ExecType], NEW s \in Steps
  PROVE  Session(s) \in RecordType /\ Tag(s) \in TagType
BY StepsAssumption DEF Session, Tag, RecordType, TagType, ExecType

\* findLatestByAgent returns the session of an execution, or none.
LEMMA LatestType ==
  ASSUME sessions \in Seq(RecordType), NEW agent
  PROVE  LatestSession(agent) \in {None} \cup TagType
<1> DEFINE own == {i \in DOMAIN sessions : sessions[i].agent = agent}
<1>1. Len(sessions) \in Nat /\ DOMAIN sessions = 1 .. Len(sessions) BY LenProperties
<1>2. CASE own = {} BY <1>2 DEF LatestSession
<1>3. CASE own # {}
  <2>1. own \in SUBSET (1 .. Len(sessions)) BY <1>1
  <2>2. Max(own) \in own BY <1>1, <1>3, <2>1, MaxOfBounded
  <2>3. sessions[Max(own)] \in RecordType BY <1>1, <2>2, ElementOfSeq
  <2> QED BY <1>3, <2>3 DEF LatestSession, RecordType
<1> QED BY <1>2, <1>3

\* What is drafted and written are files of records.
LEMMA DraftType ==
  ASSUME AgentType, OneEach(sessions), NEW s \in Steps
  PROVE  Append(Without(sessions, Session(s)), Session(s)) \in Seq(RecordType)
BY WithoutKeeps, SessionType, AppendProperties DEF AgentType

\* A step of the execution s that leaves the others alone, and the session file.
LEMMA OneExecution ==
  ASSUME AgentType, NEW s \in Steps, NEW e \in ExecType, exec' = [exec EXCEPT ![s] = e]
  PROVE  exec' \in [Steps -> ExecType] /\ exec'[s] = e /\ \A t \in Steps \ {s} : exec'[t] = exec[t]
BY DEF AgentType

Frame == UNCHANGED <<sessions, queue, drafts, recorded>>

\* An execution that is recorded does not change before its record is written.
Still(s) == exec[s].phase = "recording" =>
              exec'[s].phase = "recording" /\ exec'[s].try = exec[s].try /\ exec'[s].attempt = exec[s].attempt

\* Starting a step writes no record and touches no execution being recorded.
LEMMA StartsStep ==
  ASSUME AgentType, NEW s \in Steps, Starts(s)
  PROVE  AgentType' /\ Frame /\ \A t \in Steps : Still(t)
<1> DEFINE why == Reason(s)
           session == IF why = "plan" THEN None ELSE LatestSession(AgentOf[s])
           e0 == [NotStarted EXCEPT !.phase = "running", !.try = exec[s].try + 1,
                    !.attempt = AttemptOf(s), !.resume = session]
           e == Spawned(e0, session = None, TRUE)
<1>1. exec[s] \in ExecType BY DEF AgentType
<1>2. session \in {None} \cup TagType BY LatestType DEF AgentType
<1>3. AttemptOf(s) \in Nat BY <1>1 DEF AttemptOf, ExecType
<1>4. NotStarted \in ExecType BY DEF NotStarted, ExecType, Phases
<1> HIDE DEF session
<1>5. e0 \in ExecType
  <2>1. exec[s].try + 1 \in Nat BY <1>1 DEF ExecType
  <2> QED BY <1>2, <1>3, <2>1 DEF NotStarted, ExecType, Phases
<1>6. (session = None) \in BOOLEAN OBVIOUS
<1> HIDE DEF e0
<1>7. e \in ExecType BY <1>5, <1>6, SpawnedType
<1>8. Process(s, e) \in ProcType BY <1>7, ProcessType
<1> HIDE DEF e
<1>9. /\ exec' = [exec EXCEPT ![s] = e] /\ procs' = procs \cup {Process(s, e)}
      /\ UNCHANGED <<mode, result, sessions, queue, drafts, recorded>> /\ Reason(s) # "none"
  BY DEF Starts, e, e0, session
<1>10. exec[s].phase # "recording" BY <1>9 DEF Reason
<1>11. exec' \in [Steps -> ExecType] /\ \A t \in Steps \ {s} : exec'[t] = exec[t] BY <1>7, <1>9, OneExecution
<1>12. \A t \in Steps : Still(t) BY <1>10, <1>11 DEF Still
<1> QED BY <1>8, <1>9, <1>11, <1>12 DEF AgentType, Frame

\* What an agent writes or ends with writes no record and touches no execution being recorded.
LEMMA AgentStep ==
  ASSUME AgentType, Agent
  PROVE  AgentType' /\ Frame /\ \A t \in Steps : Still(t)
<1> PICK p \in procs : \/ \E status \in Statuses \cup {None} : WritesResult(p, status)
                       \/ \E code \in Codes, held \in BOOLEAN : ProcessExits(p, code, held)
  BY DEF Agent
<1>1. p \in ProcType BY DEF AgentType
<1>2. p.step \in Steps /\ p.try \in Nat BY <1>1 DEF ProcType
<1>3. CASE \E status \in Statuses \cup {None} : WritesResult(p, status)
  <2> PICK status \in Statuses \cup {None} : WritesResult(p, status) BY <1>3
  <2>1. UNCHANGED <<mode, exec, sessions, queue, drafts, recorded>> BY DEF WritesResult
  <2>2. result' \in {None} \cup ResultType
    <3>1. result' = IF status = None THEN None ELSE [by |-> <<p.step, p.try>>, status |-> status]
      BY DEF WritesResult
    <3>2. <<p.step, p.try>> \in TagType BY <1>2 DEF TagType
    <3> QED BY <3>1, <3>2 DEF ResultType
  <2>3. procs' \subseteq ProcType
    <3>1. [p EXCEPT !.wrote = TRUE] \in ProcType BY <1>1 DEF ProcType
    <3>2. procs' = (procs \ {p}) \cup {[p EXCEPT !.wrote = TRUE]} BY DEF WritesResult
    <3> QED BY <3>1, <3>2 DEF AgentType
  <2> QED BY <2>1, <2>2, <2>3 DEF AgentType, Frame, Still
<1>4. CASE \E code \in Codes, held \in BOOLEAN : ProcessExits(p, code, held)
  <2> PICK code \in Codes, held \in BOOLEAN : ProcessExits(p, code, held) BY <1>4
  <2>1. UNCHANGED <<mode, result, sessions, queue, drafts, recorded>> /\ procs' \subseteq ProcType
    BY DEF ProcessExits, AgentType
  <2>2. CASE Current(p)
    <3> DEFINE e == [exec[p.step] EXCEPT !.exit = code, !.held = held]
    <3>1. exec' = [exec EXCEPT ![p.step] = e] BY <2>2, <1>2 DEF ProcessExits, AgentType
    <3>2. exec[p.step] \in ExecType BY <1>2 DEF AgentType
    <3>3. e \in ExecType /\ e.phase = exec[p.step].phase /\ exec[p.step].phase = "running"
      BY <2>2, <3>2 DEF ExecType, Current
    <3> HIDE DEF e
    <3>4. exec' \in [Steps -> ExecType] /\ exec'[p.step] = e /\ \A t \in Steps \ {p.step} : exec'[t] = exec[t]
      BY <1>2, <3>1, <3>3, OneExecution
    <3> QED BY <2>1, <3>3, <3>4 DEF AgentType, Frame, Still
  <2>3. CASE ~Current(p)
    <3>1. UNCHANGED exec BY <2>3 DEF ProcessExits
    <3> QED BY <2>1, <3>1 DEF AgentType, Frame, Still
  <2> QED BY <2>2, <2>3
<1> QED BY <1>3, <1>4

\* A pipe that is let go writes no record and touches no execution being recorded.
LEMMA LetsGoStep ==
  ASSUME AgentType, NEW s \in Steps, LetsGo(s)
  PROVE  AgentType' /\ Frame /\ \A t \in Steps : Still(t)
<1> DEFINE e == [exec[s] EXCEPT !.held = FALSE]
<1>1. exec' = [exec EXCEPT ![s] = e] /\ UNCHANGED <<mode, procs, result, sessions, queue, drafts, recorded>>
  BY DEF LetsGo, AgentType
<1>2. exec[s] \in ExecType BY DEF AgentType
<1>3. e \in ExecType /\ e.phase = exec[s].phase /\ e.try = exec[s].try /\ e.attempt = exec[s].attempt
  BY <1>2 DEF ExecType
<1> HIDE DEF e
<1>4. exec' \in [Steps -> ExecType] /\ exec'[s] = e /\ \A t \in Steps \ {s} : exec'[t] = exec[t]
  BY <1>1, <1>3, OneExecution
<1> QED BY <1>1, <1>3, <1>4 DEF AgentType, Frame, Still

\* A guardrail that blocks writes no record and touches no execution being recorded.
LEMMA GuardrailStep ==
  ASSUME AgentType, NEW s \in Steps, GuardrailBlocks(s)
  PROVE  AgentType' /\ Frame /\ \A t \in Steps : Still(t)
<1>1. /\ exec' = [exec EXCEPT ![s] = Over(s, "failed")] /\ exec[s].phase = "running"
      /\ UNCHANGED <<mode, result, sessions, queue, drafts, recorded>>
  BY DEF GuardrailBlocks
<1>2. procs' \subseteq ProcType
  <2>1. \A p \in ProcType : [p EXCEPT !.signalled = TRUE] \in ProcType BY DEF ProcType
  <2>2. procs' = IF ModeOf(s) = "codex-sdk"
                  THEN {IF p.step = s /\ Current(p) THEN [p EXCEPT !.signalled = TRUE] ELSE p : p \in procs}
                  ELSE {p \in procs : ~(p.step = s /\ Current(p))}
    BY DEF GuardrailBlocks
  <2> QED BY <2>1, <2>2 DEF AgentType
<1>3. Over(s, "failed") \in ExecType BY OverType DEF AgentType, Phases
<1>4. exec' \in [Steps -> ExecType] /\ \A t \in Steps \ {s} : exec'[t] = exec[t]
  BY <1>1, <1>3, OneExecution
<1> QED BY <1>1, <1>2, <1>4 DEF AgentType, Frame, Still

\* A timeout writes no record and touches no execution being recorded.
LEMMA TimesOutStep ==
  ASSUME AgentType, NEW s \in Steps, AgentTimesOut(s)
  PROVE  AgentType' /\ Frame /\ \A t \in Steps : Still(t)
<1> DEFINE e == IF SettlesAtOnce(s) THEN Over(s, "failed") ELSE [exec[s] EXCEPT !.timedOut = TRUE]
<1>1. /\ exec' = [exec EXCEPT ![s] = e] /\ exec[s].phase = "running"
      /\ UNCHANGED <<mode, result, sessions, queue, drafts, recorded>>
  BY DEF AgentTimesOut, AgentType
<1>2. procs' \subseteq ProcType
  <2>1. \A p \in ProcType : [p EXCEPT !.signalled = TRUE] \in ProcType BY DEF ProcType
  <2>2. procs' = {IF p.step = s /\ Current(p) THEN [p EXCEPT !.signalled = TRUE] ELSE p : p \in procs}
    BY DEF AgentTimesOut
  <2> QED BY <2>1, <2>2 DEF AgentType
<1>3. e \in ExecType
  <2>1. Over(s, "failed") \in ExecType BY OverType DEF AgentType, Phases
  <2>2. exec[s] \in ExecType BY DEF AgentType
  <2>3. [exec[s] EXCEPT !.timedOut = TRUE] \in ExecType BY <2>2 DEF ExecType
  <2> QED BY <2>1, <2>3
<1> HIDE DEF e
<1>4. exec' \in [Steps -> ExecType] /\ \A t \in Steps \ {s} : exec'[t] = exec[t]
  BY <1>1, <1>3, OneExecution
<1> QED BY <1>1, <1>2, <1>4 DEF AgentType, Frame, Still

\* A killed process writes no record and touches no execution being recorded.
LEMMA KillsStep ==
  ASSUME AgentType, NEW s \in Steps, NEW held \in BOOLEAN, Kills(s, held)
  PROVE  AgentType' /\ Frame /\ \A t \in Steps : Still(t)
<1> DEFINE e == [exec[s] EXCEPT !.exit = "error", !.held = held]
<1>1. /\ exec' = [exec EXCEPT ![s] = e] /\ exec[s].phase = "running"
      /\ UNCHANGED <<mode, result, sessions, queue, drafts, recorded>> /\ procs' \subseteq ProcType
  BY DEF Kills, AgentType, Current
<1>2. exec[s] \in ExecType BY DEF AgentType
<1>3. e \in ExecType BY <1>2 DEF ExecType, Codes
<1> HIDE DEF e
<1>4. exec' \in [Steps -> ExecType] /\ \A t \in Steps \ {s} : exec'[t] = exec[t]
  BY <1>1, <1>3, OneExecution
<1> QED BY <1>1, <1>4 DEF AgentType, Frame, Still

\* The end of a process writes no record and touches no execution being recorded.
LEMMA ClosesStep ==
  ASSUME AgentType, NEW s \in Steps, Closes(s)
  PROVE  AgentType' /\ Frame /\ \A t \in Steps : Still(t)
<1>1. exec[s].phase = "running" /\ UNCHANGED <<mode, result, sessions, queue, drafts, recorded>>
  BY DEF Closes
<1>2. exec[s] \in ExecType BY DEF AgentType
<1>3. \E e \in ExecType : exec' = [exec EXCEPT ![s] = e] /\ procs' \subseteq ProcType
  <2>1. ASSUME NEW fresh \in BOOLEAN, NEW home \in BOOLEAN, Relaunch(s, fresh, home)
        PROVE  \E e \in ExecType : exec' = [exec EXCEPT ![s] = e] /\ procs' \subseteq ProcType
    <3>1. Spawned(exec[s], fresh, home) \in ExecType BY <1>2, SpawnedType
    <3>2. Process(s, Spawned(exec[s], fresh, home)) \in ProcType BY <3>1, ProcessType
    <3> QED BY <2>1, <3>1, <3>2 DEF Relaunch, AgentType
  <2>2. CASE RetriesWithoutHome(s)
    <3>1. exec[s].fresh \in BOOLEAN /\ Relaunch(s, exec[s].fresh, FALSE) BY <2>2, <1>2 DEF RetriesWithoutHome, ExecType
    <3> QED BY <2>1, <3>1
  <2>3. CASE FallsBackToFresh(s)
    <3>1. Relaunch(s, TRUE, TRUE) BY <2>3 DEF FallsBackToFresh
    <3> QED BY <2>1, <3>1
  <2>4. CASE /\ exec' = [exec EXCEPT ![s] = IF Succeeded(s) THEN [@ EXCEPT !.phase = "settled"] ELSE Over(s, "failed")]
             /\ UNCHANGED procs
    <3> DEFINE e == IF Succeeded(s) THEN [exec[s] EXCEPT !.phase = "settled"] ELSE Over(s, "failed")
    <3>1. [exec[s] EXCEPT !.phase = "settled"] \in ExecType BY <1>2 DEF ExecType, Phases
    <3>2. Over(s, "failed") \in ExecType BY OverType DEF AgentType, Phases
    <3>3. e \in ExecType BY <3>1, <3>2
    <3>4. exec' = [exec EXCEPT ![s] = e] BY <2>4 DEF AgentType
    <3> HIDE DEF e
    <3> QED BY <2>4, <3>3, <3>4 DEF AgentType
  <2> QED BY <2>2, <2>3, <2>4 DEF Closes, Relaunches
<1>4. exec' \in [Steps -> ExecType] /\ \A t \in Steps \ {s} : exec'[t] = exec[t]
  BY <1>3, OneExecution
<1>5. procs' \subseteq ProcType BY <1>3
<1> QED BY <1>1, <1>4, <1>5 DEF AgentType, Frame, Still

\* The outcome of a step writes no record and touches no execution being recorded.
LEMMA HandlesStep ==
  ASSUME AgentType, NEW s \in Steps, Handles(s)
  PROVE  AgentType' /\ Frame /\ \A t \in Steps : Still(t)
<1>1. exec[s].phase = "ended" /\ UNCHANGED <<mode, procs, result, sessions, queue, drafts, recorded>>
  BY DEF Handles
<1>2. PICK next \in Phase(s) : exec' = [exec EXCEPT ![s] = Over(s, next)] BY DEF Handles
<1>3. next \in Phases BY DEF Phase, Phases, Retried
<1>4. Over(s, next) \in ExecType BY <1>3, OverType DEF AgentType
<1>5. exec' \in [Steps -> ExecType] /\ \A t \in Steps \ {s} : exec'[t] = exec[t]
  BY <1>2, <1>4, OneExecution
<1> QED BY <1>1, <1>5 DEF AgentType, Frame, Still

\* The steps that wait for the session file wait once, and all of them are recorded.
QueueInv ==
  /\ \A i, j \in DOMAIN queue : queue[i] = queue[j] => i = j
  /\ \A s \in ToSet(queue) : exec[s].phase = "recording"
\* What has been read to be written is of the first of them, and still up to date.
DraftInv ==
  \A s \in Steps : drafts[s] # None =>
    queue # <<>> /\ Head(queue) = s /\ drafts[s] = Append(Without(sessions, Session(s)), Session(s))
AgentInv == AgentType /\ QueueInv /\ DraftInv /\ SessionsKept

\* The first of the steps that wait is one of them.
LEMMA HeadWaits ==
  ASSUME queue \in Seq(Steps), queue # <<>>
  PROVE  /\ 1 \in DOMAIN queue /\ Head(queue) = queue[1] /\ Head(queue) \in ToSet(queue)
         /\ Head(queue) \in Steps /\ Len(queue) \in Nat /\ DOMAIN queue = 1 .. Len(queue)
<1>1. Len(queue) \in Nat /\ DOMAIN queue = 1 .. Len(queue) /\ Head(queue) \in Steps
  BY LenProperties, HeadTailProperties
<1>2. Len(queue) # 0 BY EmptySeq
<1>3. 1 \in DOMAIN queue BY <1>1, <1>2
<1>4. Head(queue) = queue[1] OBVIOUS
<1> QED BY <1>1, <1>3, <1>4 DEF ToSet

\* A step that writes no record and touches no execution being recorded preserves AgentInv.
LEMMA FrameKeeps ==
  ASSUME AgentInv, AgentType', Frame, \A t \in Steps : Still(t)
  PROVE  AgentInv'
<1>1. QueueInv'
  <2>1. ToSet(queue) \subseteq Steps
    <3>1. \A i \in DOMAIN queue : queue[i] \in Steps BY ElementOfSeq, LenProperties DEF AgentInv, AgentType
    <3> QED BY <3>1 DEF ToSet
  <2>2. queue' = queue BY DEF Frame
  <2>3. \A s \in ToSet(queue) : exec'[s].phase = "recording"
    BY <2>1 DEF AgentInv, QueueInv, Still
  <2> QED BY <2>2, <2>3 DEF AgentInv, QueueInv, ToSet
<1>2. DraftInv'
  <2> SUFFICES ASSUME NEW s \in Steps, drafts'[s] # None
               PROVE  /\ queue' # <<>> /\ Head(queue') = s
                      /\ drafts'[s] = Append(Without(sessions', Session(s)'), Session(s)')
    BY DEF DraftInv
  <2>1. queue # <<>> /\ Head(queue) = s /\ drafts[s] = Append(Without(sessions, Session(s)), Session(s))
    BY DEF AgentInv, DraftInv, Frame
  <2>2. s \in ToSet(queue) BY <2>1, HeadWaits DEF AgentInv, AgentType
  <2>3. exec[s].phase = "recording" BY <2>2 DEF AgentInv, QueueInv
  <2>4. exec'[s].try = exec[s].try /\ exec'[s].attempt = exec[s].attempt BY <2>3 DEF Still
  <2>5. Session(s)' = Session(s) BY <2>4 DEF Session, Tag
  <2> QED BY <2>1, <2>5 DEF Frame
<1>3. SessionsKept' BY DEF AgentInv, SessionsKept, Frame, ToSet, SameKey
<1> QED BY <1>1, <1>2, <1>3 DEF AgentInv

\* Reading the result, and queueing the record of the execution, preserves AgentInv.
LEMMA ReadsStep ==
  ASSUME AgentInv, NEW s \in Steps, NEW hasSession \in BOOLEAN, Reads(s, hasSession)
  PROVE  AgentInv'
<1>1. AgentType /\ exec[s] \in ExecType /\ exec[s].phase = "settled" BY DEF AgentInv, AgentType, Reads
<1>2. /\ UNCHANGED <<mode, procs, sessions, drafts, recorded>>
      /\ queue' = IF hasSession THEN Append(queue, s) ELSE queue
  BY DEF Reads
<1>3. PICK r \in Results(s) :
        /\ exec' = [exec EXCEPT ![s].outcome = r, ![s].phase = IF hasSession THEN "recording" ELSE "ended"]
        /\ result' = IF r = NoResult(s) THEN result ELSE r
  BY DEF Reads
<1>4. r \in ResultType
  <2>1. Tag(s) \in TagType BY <1>1, SessionType DEF AgentType
  <2>2. NoResult(s) \in ResultType /\ Recovered(s) \in ResultType
    BY <2>1 DEF NoResult, Recovered, ResultType, Statuses
  <2>3. result # None => result \in ResultType BY <1>1 DEF AgentType
  <2> QED BY <2>2, <2>3 DEF Results
<1> DEFINE next == IF hasSession THEN "recording" ELSE "ended"
           e == [exec[s] EXCEPT !.outcome = r, !.phase = next]
<1>5. e \in ExecType /\ e.phase = next
  <2>1. next \in Phases BY DEF Phases
  <2> HIDE DEF next
  <2> QED BY <1>1, <1>4, <2>1 DEF ExecType
<1>6. exec' = [exec EXCEPT ![s] = e] BY <1>1, <1>3 DEF AgentType
<1> HIDE DEF e
<1>7. exec' \in [Steps -> ExecType] /\ exec'[s] = e /\ \A t \in Steps \ {s} : exec'[t] = exec[t]
  BY <1>1, <1>5, <1>6, OneExecution
<1>8. queue \in Seq(Steps) /\ \A i \in DOMAIN queue : queue[i] \in Steps \ {s}
  <2>1. queue \in Seq(Steps) BY <1>1 DEF AgentType
  <2>2. ASSUME NEW i \in DOMAIN queue PROVE queue[i] \in Steps /\ queue[i] # s
    <3>1. queue[i] \in Steps BY <2>1, LenProperties, ElementOfSeq
    <3>2. queue[i] \in ToSet(queue) BY DEF ToSet
    <3> QED BY <1>1, <3>1, <3>2 DEF AgentInv, QueueInv
  <2> QED BY <2>1, <2>2
<1>9. \A t \in ToSet(queue) : t \in Steps \ {s} BY <1>8 DEF ToSet
<1>10. AgentType'
  <2>1. queue' \in Seq(Steps) BY <1>2, <1>8, AppendProperties
  <2>2. result' \in {None} \cup ResultType BY <1>1, <1>3, <1>4 DEF AgentType
  <2> QED BY <1>1, <1>2, <1>7, <2>1, <2>2 DEF AgentType
<1>11. \A t \in ToSet(queue) : exec'[t] = exec[t] /\ exec'[t].phase = "recording"
  BY <1>7, <1>9 DEF AgentInv, QueueInv
<1>12. QueueInv'
  <2>1. CASE ~hasSession BY <1>2, <1>11, <2>1 DEF AgentInv, QueueInv, ToSet
  <2>2. CASE hasSession
    <3>1. queue' = Append(queue, s) BY <1>2, <2>2
    <3>2. /\ Len(queue') = Len(queue) + 1 /\ Len(queue) \in Nat /\ DOMAIN queue' = 1 .. Len(queue) + 1
          /\ DOMAIN queue = 1 .. Len(queue)
          /\ \A i \in 1 .. Len(queue) : queue'[i] = queue[i]
          /\ queue'[Len(queue) + 1] = s
      BY <1>8, <3>1, AppendProperties, LenProperties
    <3>3. ASSUME NEW i \in DOMAIN queue', NEW j \in DOMAIN queue', queue'[i] = queue'[j] PROVE i = j
      <4>1. CASE i \in DOMAIN queue /\ j \in DOMAIN queue
        BY <3>2, <3>3, <4>1 DEF AgentInv, QueueInv
      <4>2. CASE i \in DOMAIN queue /\ j \notin DOMAIN queue
        BY <1>8, <3>2, <3>3, <4>2
      <4>3. CASE i \notin DOMAIN queue /\ j \in DOMAIN queue
        BY <1>8, <3>2, <3>3, <4>3
      <4>4. CASE i \notin DOMAIN queue /\ j \notin DOMAIN queue
        BY <3>2, <4>4
      <4> QED BY <4>1, <4>2, <4>3, <4>4
    <3>4. ASSUME NEW t \in ToSet(queue') PROVE exec'[t].phase = "recording"
      <4>1. PICK i \in DOMAIN queue' : t = queue'[i] BY DEF ToSet
      <4>2. CASE i \in DOMAIN queue
        <5>1. t \in ToSet(queue) BY <3>2, <4>1, <4>2 DEF ToSet
        <5> QED BY <1>11, <5>1
      <4>3. CASE i \notin DOMAIN queue
        <5>1. t = s BY <3>2, <4>1, <4>3
        <5> QED BY <1>5, <1>7, <2>2, <5>1
      <4> QED BY <4>2, <4>3
    <3> QED BY <3>3, <3>4 DEF QueueInv
  <2> QED BY <2>1, <2>2
<1>13. DraftInv'
  <2> SUFFICES ASSUME NEW t \in Steps, drafts'[t] # None
               PROVE  /\ queue' # <<>> /\ Head(queue') = t
                      /\ drafts'[t] = Append(Without(sessions', Session(t)'), Session(t)')
    BY DEF DraftInv
  <2>1. queue # <<>> /\ Head(queue) = t /\ drafts[t] = Append(Without(sessions, Session(t)), Session(t))
    BY <1>2 DEF AgentInv, DraftInv
  <2>2. t \in ToSet(queue) BY <1>8, <2>1, HeadWaits
  <2>3. Session(t)' = Session(t) BY <1>11, <2>2 DEF Session, Tag
  <2>4. queue' # <<>> /\ Head(queue') = t
    <3>1. Append(queue, s) # <<>> /\ Head(Append(queue, s)) = Head(queue)
      BY <1>8, <2>1, AppendProperties, HeadTailAppend
    <3> QED BY <1>2, <2>1, <3>1
  <2> QED BY <1>2, <2>1, <2>3, <2>4
<1>14. SessionsKept' BY <1>2 DEF AgentInv, SessionsKept, ToSet, SameKey
<1> QED BY <1>10, <1>12, <1>13, <1>14 DEF AgentInv

\* Reading the file for the record that is first in the queue preserves AgentInv.
LEMMA StoreReadsStep ==
  ASSUME AgentInv, NEW s \in Steps, StoreReads(s)
  PROVE  AgentInv'
<1> DEFINE draft == Append(Without(sessions, Session(s)), Session(s))
<1>1. /\ queue # <<>> /\ Head(queue) = s /\ drafts' = [drafts EXCEPT ![s] = draft]
      /\ UNCHANGED <<mode, exec, procs, result, sessions, queue, recorded>>
  BY DEF StoreReads
<1>2. draft \in Seq(RecordType)
  BY DraftType DEF AgentInv, SessionsKept, OneEach
<1> HIDE DEF draft
<1>3. AgentType' BY <1>1, <1>2 DEF AgentInv, AgentType
<1>4. QueueInv' BY <1>1 DEF AgentInv, QueueInv, ToSet
<1>5. DraftInv'
  <2> SUFFICES ASSUME NEW t \in Steps, drafts'[t] # None
               PROVE  /\ queue' # <<>> /\ Head(queue') = t
                      /\ drafts'[t] = Append(Without(sessions', Session(t)'), Session(t)')
    BY DEF DraftInv
  <2>1. Session(t)' = Session(t) BY <1>1 DEF Session, Tag
  <2>2. CASE t = s BY <1>1, <2>1, <2>2 DEF draft, AgentInv, AgentType
  <2>3. CASE t # s
    <3>1. drafts'[t] = drafts[t] BY <1>1, <2>3 DEF AgentInv, AgentType
    <3> QED BY <1>1, <2>1, <3>1 DEF AgentInv, DraftInv
  <2> QED BY <2>2, <2>3
<1>6. SessionsKept' BY <1>1 DEF AgentInv, SessionsKept, ToSet, SameKey
<1> QED BY <1>3, <1>4, <1>5, <1>6 DEF AgentInv

\* Writing what was read and changed preserves AgentInv: nothing was written in between.
LEMMA StoreWritesStep ==
  ASSUME AgentInv, NEW s \in Steps, StoreWrites(s)
  PROVE  AgentInv'
<1>1. /\ drafts[s] # None /\ sessions' = drafts[s] /\ drafts' = [drafts EXCEPT ![s] = None]
      /\ queue' = Tail(queue)
      /\ recorded' = {r \in recorded : ~SameKey(r, Session(s))} \cup {Session(s)}
      /\ exec' = [exec EXCEPT ![s].phase = "ended"]
      /\ UNCHANGED <<mode, procs, result>>
  BY DEF StoreWrites
<1>2. queue # <<>> /\ Head(queue) = s /\ drafts[s] = Append(Without(sessions, Session(s)), Session(s))
  BY <1>1 DEF AgentInv, DraftInv
<1>3. AgentType /\ exec[s] \in ExecType /\ queue \in Seq(Steps) BY DEF AgentInv, AgentType
<1> DEFINE e == [exec[s] EXCEPT !.phase = "ended"]
<1>4. e \in ExecType BY <1>3 DEF ExecType, Phases
<1>5. exec' = [exec EXCEPT ![s] = e] BY <1>1, <1>3 DEF AgentType
<1> HIDE DEF e
<1>6. exec' \in [Steps -> ExecType] /\ \A t \in Steps \ {s} : exec'[t] = exec[t]
  BY <1>3, <1>4, <1>5, OneExecution
<1>7. Session(s) \in RecordType BY <1>3, SessionType DEF AgentType
<1>8. /\ Without(sessions, Session(s)) \in Seq(RecordType) /\ OneEach(Without(sessions, Session(s)))
      /\ ToSet(Without(sessions, Session(s))) = {r \in ToSet(sessions) : ~SameKey(r, Session(s))}
  <2>1. sessions \in Seq(RecordType) /\ OneEach(sessions) BY DEF AgentInv, AgentType, SessionsKept, OneEach
  <2> QED BY <2>1, WithoutKeeps
<1>9. \A x \in ToSet(Without(sessions, Session(s))) : ~SameKey(x, Session(s)) BY <1>8
<1>10. /\ sessions' \in Seq(RecordType) /\ OneEach(sessions')
       /\ ToSet(sessions') = {r \in ToSet(sessions) : ~SameKey(r, Session(s))} \cup {Session(s)}
  BY <1>1, <1>2, <1>7, <1>8, <1>9, AppendedKeys
<1>11. SessionsKept'
  <2>1. ToSet(sessions') = recorded' BY <1>1, <1>10 DEF AgentInv, SessionsKept
  <2>2. \A i, j \in DOMAIN sessions' : SameKey(sessions'[i], sessions'[j]) => i = j BY <1>10 DEF OneEach
  <2> QED BY <2>1, <2>2 DEF SessionsKept, ToSet, SameKey
<1>12. /\ Tail(queue) \in Seq(Steps) /\ Len(Tail(queue)) = Len(queue) - 1
       /\ \A i \in 1 .. Len(Tail(queue)) : Tail(queue)[i] = queue[i + 1]
       /\ DOMAIN queue' = 1 .. Len(queue') /\ Len(queue) \in Nat /\ DOMAIN queue = 1 .. Len(queue)
  BY <1>1, <1>2, <1>3, HeadTailProperties, LenProperties
<1>13. \A i \in DOMAIN queue' : i \in Nat /\ i + 1 \in DOMAIN queue /\ queue'[i] = queue[i + 1]
  BY <1>1, <1>12
<1>14. AgentType'
  <2>1. recorded' \subseteq RecordType BY <1>1, <1>3, <1>7 DEF AgentType
  <2> QED BY <1>1, <1>3, <1>6, <1>10, <1>12, <2>1 DEF AgentType
<1>15. QueueInv'
  <2>1. ASSUME NEW i \in DOMAIN queue', NEW j \in DOMAIN queue', queue'[i] = queue'[j] PROVE i = j
    <3>1. i + 1 = j + 1 BY <1>13, <2>1 DEF AgentInv, QueueInv
    <3> QED BY <1>13, <3>1
  <2>2. ASSUME NEW t \in ToSet(queue') PROVE exec'[t].phase = "recording"
    <3>1. PICK i \in DOMAIN queue' : t = queue'[i] BY DEF ToSet
    <3>2. i + 1 \in DOMAIN queue /\ t = queue[i + 1] /\ i + 1 # 1 BY <1>12, <1>13, <3>1, <1>1
    <3>3. 1 \in DOMAIN queue /\ queue[1] = s BY <1>2, <1>3, HeadWaits
    <3>4. t # s BY <3>2, <3>3 DEF AgentInv, QueueInv
    <3>5. t \in ToSet(queue) BY <3>2 DEF ToSet
    <3>6. t \in Steps BY <1>3, <3>2, LenProperties, ElementOfSeq
    <3> QED BY <1>6, <3>4, <3>5, <3>6 DEF AgentInv, QueueInv
  <2> QED BY <2>1, <2>2 DEF QueueInv
<1>16. DraftInv'
  <2>1. \A t \in Steps : drafts'[t] = None
    <3> TAKE t \in Steps
    <3>1. CASE t = s BY <1>1, <3>1, <1>3 DEF AgentType
    <3>2. CASE t # s
      <4>1. drafts'[t] = drafts[t] BY <1>1, <3>2, <1>3 DEF AgentType
      <4> QED BY <1>2, <3>2, <4>1 DEF AgentInv, DraftInv
    <3> QED BY <3>1, <3>2
  <2> QED BY <2>1 DEF DraftInv
<1> QED BY <1>11, <1>14, <1>15, <1>16 DEF AgentInv

\* AgentInv is inductive.
LEMMA AgentInvNext == AgentInv /\ [AgentNext]_agentVars => AgentInv'
<1> SUFFICES ASSUME AgentInv, [AgentNext]_agentVars PROVE AgentInv' OBVIOUS
<1>0. AgentType BY DEF AgentInv
<1>1. ASSUME AgentType', Frame, \A t \in Steps : Still(t) PROVE AgentInv'
  BY <1>1, FrameKeeps
<1>2. CASE UNCHANGED agentVars
  <2>1. AgentType' BY <1>0, <1>2 DEF agentVars, AgentType
  <2>2. Frame /\ \A t \in Steps : Still(t) BY <1>2 DEF agentVars, Frame, Still
  <2> QED BY <1>1, <2>1, <2>2
<1>3. CASE Agent BY <1>0, <1>1, <1>3, AgentStep
<1>4. ASSUME NEW s \in Steps, Starts(s) PROVE AgentInv' BY <1>0, <1>1, <1>4, StartsStep
<1>5. ASSUME NEW s \in Steps, LetsGo(s) PROVE AgentInv' BY <1>0, <1>1, <1>5, LetsGoStep
<1>6. ASSUME NEW s \in Steps, GuardrailBlocks(s) PROVE AgentInv' BY <1>0, <1>1, <1>6, GuardrailStep
<1>7. ASSUME NEW s \in Steps, Closes(s) PROVE AgentInv' BY <1>0, <1>1, <1>7, ClosesStep
<1>8. ASSUME NEW s \in Steps, AgentTimesOut(s) PROVE AgentInv' BY <1>0, <1>1, <1>8, TimesOutStep
<1>9. ASSUME NEW s \in Steps, NEW held \in BOOLEAN, Kills(s, held) PROVE AgentInv' BY <1>0, <1>1, <1>9, KillsStep
<1>10. ASSUME NEW s \in Steps, NEW hasSession \in BOOLEAN, Reads(s, hasSession) PROVE AgentInv' BY <1>10, ReadsStep
<1>11. ASSUME NEW s \in Steps, StoreReads(s) PROVE AgentInv' BY <1>11, StoreReadsStep
<1>12. ASSUME NEW s \in Steps, StoreWrites(s) PROVE AgentInv' BY <1>12, StoreWritesStep
<1>13. ASSUME NEW s \in Steps, Handles(s) PROVE AgentInv' BY <1>0, <1>1, <1>13, HandlesStep
<1> QED BY <1>2, <1>3, <1>4, <1>5, <1>6, <1>7, <1>8, <1>9, <1>10, <1>11, <1>12, <1>13 DEF AgentNext

\* AgentInv holds at first.
LEMMA AgentInvInit == AgentInit => AgentInv
<1> SUFFICES ASSUME AgentInit PROVE AgentInv OBVIOUS
<1>1. AgentType BY AgentTypeInit
<1>2. DOMAIN <<>> = {} BY EmptySeq, LenProperties
<1>3. QueueInv BY <1>2 DEF AgentInit, QueueInv, ToSet
<1>4. DraftInv BY DEF AgentInit, DraftInv
<1>5. SessionsKept BY <1>2 DEF AgentInit, SessionsKept, ToSet
<1> QED BY <1>1, <1>3, <1>4, <1>5 DEF AgentInv

\* AgentInv holds throughout.
LEMMA AgentInvHolds == AgentSpec => []AgentInv
BY AgentInvInit, AgentInvNext, PTL DEF AgentSpec

\* Type correctness of AgentRun: the executions, the processes, the session file and the
\* writes under way have their types, for any plan, agents, runtimes and bounds.
THEOREM AgentTypeCorrect == AgentSpec => []AgentType
<1>1. AgentInv => AgentType BY DEF AgentInv
<1> QED BY <1>1, AgentInvHolds, PTL

\* RuntimeSessionStore.record: the file always holds one record of each run, agent, step and
\* attempt recorded, the newest, whatever steps end together and in any order of their reads
\* and writes (SessionsKept).
THEOREM SessionFileKept == AgentSpec => []SessionsKept
<1>1. AgentInv => SessionsKept BY DEF AgentInv
<1> QED BY <1>1, AgentInvHolds, PTL

-----------------------------------------------------------------------------
\* StepLog.

USE BoundsAssumption

-----------------------------------------------------------------------------
(* Types.                                                                     *)

Chunk == Seq(Nat)
Waiting == [chunk : Chunk, sequence : Nat]
Post == [chunk : Chunk, sequence : Nat, tries : Nat]
Writer == [buffer : Chunk, timer : {"none", "set", "fired"}, chain : Seq(BOOLEAN), sequence : Nat,
           waiting : Seq(Waiting), post : Post]
RowType == [key : Nat \X Nat, by : Executions, chunk : Chunk]

TypeInv ==
  /\ kind \in {"structured", "live", "silent"}
  /\ life \in 1 .. MaxLives /\ attempt \in 1 .. MaxAttempts
  /\ phase \in {"running", "fallback", "idle", "exited"}
  /\ lines \in [Executions -> Nat]
  /\ writer \in [Executions -> Writer]
  /\ rows \subseteq RowType /\ late \subseteq RowType
  /\ \A r \in rows \cup late : r.key[1] = r.by[2]
  /\ faults \in Nat

-----------------------------------------------------------------------------
(* Executions that have not begun, and those whose process is gone.           *)

Begun(x) == x[1] < life \/ (x[1] = life /\ x[2] <= attempt)
Quiet(w) == w.buffer = <<>> /\ w.waiting = <<>> /\ w.post = NoPost
Own(x) == {r \in rows \cup late : r.by = x}

LifeInv ==
  \A x \in Executions :
    /\ ~Begun(x) => Quiet(writer[x]) /\ Own(x) = {} /\ lines[x] = 0
    /\ ~Alive(x) => Quiet(writer[x])
    /\ kind = "structured" => writer[x].waiting = <<>>
    /\ kind = "silent" => writer[x].buffer = <<>>

-----------------------------------------------------------------------------
(* LogReadsInOrder.                                                           *)

Before(c, d) == \A m \in ToSet(c), n \in ToSet(d) : m < n
Within(c, n) == \A m \in ToSet(c) : m <= n

\* What has been sent of an execution is in order.
SentInOrder(O) ==
  \A r, q \in O : /\ r.key[2] < q.key[2] => Before(r.chunk, q.chunk)
                  /\ r.key[2] = q.key[2] => r.chunk = q.chunk
\* What is being posted comes after it.
PostInOrder(O, p) ==
  p # NoPost => \A r \in O : /\ r.key[2] <= p.sequence
                             /\ r.key[2] < p.sequence => Before(r.chunk, p.chunk)
                             /\ r.key[2] = p.sequence => r.chunk = p.chunk
\* The buffer of a dispatcher comes after both, and so does its next number.
BufferInOrder(O, w, n) ==
  /\ \A r \in O : r.key[2] < w.sequence /\ Before(r.chunk, w.buffer) /\ Within(r.chunk, n)
  /\ w.post # NoPost =>
       w.post.sequence < w.sequence /\ Before(w.post.chunk, w.buffer) /\ Within(w.post.chunk, n)
  /\ Within(w.buffer, n)
\* And so do the chunks of the fallback that wait.
WaitingInOrder(O, w) ==
  \A i \in DOMAIN w.waiting :
    /\ \A r \in O : r.key[2] < w.waiting[i].sequence /\ Before(r.chunk, w.waiting[i].chunk)
    /\ w.post # NoPost => /\ w.post.sequence < w.waiting[i].sequence
                          /\ Before(w.post.chunk, w.waiting[i].chunk)
    /\ \A j \in DOMAIN w.waiting :
         i < j => /\ w.waiting[i].sequence < w.waiting[j].sequence
                  /\ Before(w.waiting[i].chunk, w.waiting[j].chunk)

SenderInOrder(x) ==
  /\ SentInOrder(Own(x)) /\ PostInOrder(Own(x), writer[x].post)
  /\ kind = "structured" /\ Alive(x) => BufferInOrder(Own(x), writer[x], lines[x])
  /\ kind = "silent" => WaitingInOrder(Own(x), writer[x])
OrderInv ==
  kind # "live" =>
    /\ \A x \in Executions : SenderInOrder(x)
    /\ kind = "silent" /\ phase = "running" => Own(Now) = {} /\ Quiet(writer[Now])

-----------------------------------------------------------------------------
(* LinesAccounted.                                                            *)

Accounted(x, n) ==
  \/ n \in ToSet(writer[x].buffer) \/ n \in ToSet(writer[x].post.chunk)
  \/ InRows(<<x, n>>) \/ <<x, n>> \in lost \/ NumberUsedBefore(x)
AccountInv ==
  kind = "structured" => \A x \in Executions : \A n \in 1 .. lines[x] : Accounted(x, n)

-----------------------------------------------------------------------------
(* Chunks.                                                                    *)

\* What is in a chunk that got one more line, and in none.
LEMMA ChunkGrows ==
  ASSUME NEW c \in Chunk, NEW n \in Nat
  PROVE  /\ Append(c, n) \in Chunk /\ ToSet(Append(c, n)) = ToSet(c) \cup {n}
         /\ ToSet(c) \subseteq Nat
         /\ <<>> \in Chunk /\ ToSet(<<>>) = {}
<1>1. /\ c \in Seq(Nat) /\ Append(c, n) \in Seq(Nat)
      /\ Len(c) \in Nat /\ DOMAIN c = 1 .. Len(c) /\ \A i \in 1 .. Len(c) : c[i] \in Nat
      /\ DOMAIN Append(c, n) = 1 .. (Len(c) + 1)
      /\ \A i \in 1 .. Len(c) : Append(c, n)[i] = c[i]
      /\ Append(c, n)[Len(c) + 1] = n
  BY AppendProperties, LenProperties, ElementOfSeq DEF Chunk
<1>2. ToSet(Append(c, n)) \subseteq ToSet(c) \cup {n}
  BY <1>1 DEF ToSet
<1>3. ToSet(c) \subseteq ToSet(Append(c, n))
  BY <1>1 DEF ToSet
<1>4. n \in ToSet(Append(c, n))
  <2>1. Len(c) + 1 \in DOMAIN Append(c, n) /\ n = Append(c, n)[Len(c) + 1]
    BY <1>1
  <2>2. QED
    BY <2>1 DEF ToSet
<1>5. ToSet(c) \subseteq Nat
  BY <1>1 DEF ToSet
<1>6. <<>> \in Seq(Nat) /\ ToSet(<<>>) = {}
  BY DEF ToSet
<1>7. QED
  BY <1>1, <1>2, <1>3, <1>4, <1>5, <1>6 DEF Chunk

\* Products keep the order.
LEMMA Times == ASSUME NEW a \in Nat, NEW b \in Nat, NEW c \in Nat, a <= b
               PROVE  a * c \in Nat /\ b * c \in Nat /\ a * c <= b * c
<1>1. PICK d \in Nat : b = a + d
  BY SMT
<1>2. b * c = a * c + d * c /\ d * c \in Nat /\ a * c \in Nat
  BY <1>1, SMT
<1>3. QED
  BY <1>2, SMT

\* As many chunks as the lines need, and none too many.
LEMMA ChunkCount ==
  ASSUME NEW n \in Nat, NEW F \in Nat \ {0}
  PROVE  /\ (n + F - 1) \div F \in Nat /\ ((n + F - 1) \div F) * F <= n + F - 1
         /\ n = 0 => (n + F - 1) \div F = 0
OBVIOUS

\* The numbers of the fallback's chunks and their lines are in order.
LEMMA FileChunksFacts ==
  ASSUME NEW n \in Nat
  PROVE  /\ FileChunks(n) \in Seq(Waiting)
         /\ n = 0 => FileChunks(n) = <<>>
         /\ \A i, j \in DOMAIN FileChunks(n) :
              i < j => /\ FileChunks(n)[i].sequence < FileChunks(n)[j].sequence
                       /\ Before(FileChunks(n)[i].chunk, FileChunks(n)[j].chunk)
<1> DEFINE F == FileChunkLines
           q == (n + F - 1) \div F
           piece(i) == [sequence |-> i - 1,
                        chunk |-> [j \in 1 .. Least(F, n - (i - 1) * F) |-> (i - 1) * F + j]]
<1>1. F \in Nat \ {0} /\ q \in Nat /\ q * F <= n + F - 1 /\ (n = 0 => q = 0)
  BY ChunkCount
<1>2. FileChunks(n) = [i \in 1 .. q |-> piece(i)]
  BY DEF FileChunks
<1> HIDE DEF q
<1>3. ASSUME NEW i \in 1 .. q
      PROVE  /\ piece(i) \in Waiting /\ piece(i).sequence = i - 1
             /\ \A m \in ToSet(piece(i).chunk) : (i - 1) * F < m /\ m <= (i - 1) * F + F
  <2> DEFINE k == (i - 1) * F
  <2>1. i - 1 \in Nat /\ i \in Nat /\ i <= q /\ F \in Nat
    BY <1>1
  <2>2. i * F <= q * F /\ i * F = (i - 1) * F + F
    BY <1>1, <2>1, Times
  <2>3. k \in Nat /\ k + F <= n + F - 1
    BY <1>1, <2>1, <2>2
  <2> HIDE DEF k
  <2>4. n - k \in Nat
    BY <1>1, <2>3
  <2>5. Least(F, n - k) \in Nat /\ Least(F, n - k) <= F
    BY <1>1, <2>4 DEF Least
  <2>6. piece(i) = [sequence |-> i - 1, chunk |-> [j \in 1 .. Least(F, n - k) |-> k + j]]
    BY DEF k
  <2>7. PICK l \in Nat : l = Least(F, n - k)
    BY <2>5
  <2>8. [j \in 1 .. l |-> k + j] \in Seq(Nat)
    BY <2>3
  <2>9. piece(i).chunk = [j \in 1 .. l |-> k + j] /\ piece(i).sequence = i - 1
    BY <2>6, <2>7
  <2>10. \A m \in ToSet(piece(i).chunk) : k < m /\ m <= k + F
    <3>1. l <= F /\ k \in Nat /\ F \in Nat
      BY <1>1, <2>3, <2>5, <2>7
    <3>2. \A m \in ToSet(piece(i).chunk) : \E j \in 1 .. l : m = k + j
      <4>1. ToSet([j \in 1 .. l |-> k + j]) = {k + j : j \in 1 .. l}
        BY DEF ToSet
      <4> HIDE DEF piece
      <4>2. QED
        BY <2>9, <4>1
    <3> HIDE DEF piece
    <3>3. \A j \in 1 .. l : k < k + j /\ k + j <= k + F
      BY <3>1, <2>5, <2>7
    <3>4. QED
      BY <3>2, <3>3
  <2>11. piece(i) \in Waiting
    <3>1. piece(i) = [sequence |-> i - 1, chunk |-> [j \in 1 .. l |-> k + j]]
      BY <2>6, <2>7
    <3> HIDE DEF piece
    <3>2. QED
      BY <2>1, <2>8, <3>1 DEF Waiting, Chunk
  <2> HIDE DEF piece
  <2>12. k = (i - 1) * F
    BY DEF k
  <2>13. QED
    BY <2>9, <2>10, <2>11, <2>12
<1>4. FileChunks(n) \in Seq(Waiting) /\ DOMAIN FileChunks(n) = 1 .. q
  <2>1. \A i \in 1 .. q : piece(i) \in Waiting
    BY <1>3
  <2> HIDE DEF piece
  <2>2. QED
    BY <1>1, <1>2, <2>1
<1>5. n = 0 => FileChunks(n) = <<>>
  BY <1>1, <1>2
<1>6. ASSUME NEW i \in 1 .. q, NEW j \in 1 .. q, i < j
      PROVE  /\ piece(i).sequence < piece(j).sequence
             /\ Before(piece(i).chunk, piece(j).chunk)
  <2>1. i \in Nat /\ j - 1 \in Nat /\ i <= j - 1 /\ F \in Nat /\ i - 1 \in Nat
    BY <1>1, <1>6
  <2>2. i * F <= (j - 1) * F /\ i * F = (i - 1) * F + F /\ i * F \in Nat /\ (j - 1) * F \in Nat
    BY <2>1, Times
  <2>3. /\ \A m \in ToSet(piece(i).chunk) : m \in Nat /\ m <= i * F
        /\ \A m \in ToSet(piece(j).chunk) : m \in Nat /\ (j - 1) * F < m
    <3>1. ToSet(piece(i).chunk) \subseteq Nat /\ ToSet(piece(j).chunk) \subseteq Nat
      <4>1. piece(i) \in Waiting /\ piece(j) \in Waiting
        BY <1>3
      <4> HIDE DEF piece
      <4>2. QED
        BY <4>1, ChunkGrows DEF Waiting
    <3>2. QED
      BY <1>3, <2>2, <3>1
  <2>4. piece(i).sequence = i - 1 /\ piece(j).sequence = j - 1
    BY <1>3
  <2> HIDE DEF piece
  <2>5. PICK a \in Nat : a = i * F
    BY <2>2
  <2>6. PICK b \in Nat : b = (j - 1) * F
    BY <2>2
  <2>7. a <= b /\ \A m \in ToSet(piece(i).chunk) : m \in Nat /\ m <= a
    BY <2>2, <2>3, <2>5, <2>6
  <2>8. \A m \in ToSet(piece(j).chunk) : m \in Nat /\ b < m
    BY <2>3, <2>6
  <2>9. Before(piece(i).chunk, piece(j).chunk)
    BY <2>7, <2>8 DEF Before
  <2>10. i - 1 < j - 1
    BY <2>1
  <2>11. QED
    BY <2>4, <2>9, <2>10
<1> HIDE DEF piece, F
<1>7. \A i \in 1 .. q : FileChunks(n)[i] = piece(i)
  BY <1>2
<1>8. ASSUME NEW i \in DOMAIN FileChunks(n), NEW j \in DOMAIN FileChunks(n), i < j
      PROVE  /\ FileChunks(n)[i].sequence < FileChunks(n)[j].sequence
             /\ Before(FileChunks(n)[i].chunk, FileChunks(n)[j].chunk)
  <2>1. i \in 1 .. q /\ j \in 1 .. q
    BY <1>4
  <2>2. FileChunks(n)[i] = piece(i) /\ FileChunks(n)[j] = piece(j)
    BY <1>7, <2>1
  <2>3. QED
    BY <1>6, <1>8, <2>1, <2>2
<1>9. QED
  BY <1>4, <1>5, <1>8

-----------------------------------------------------------------------------
(* Type correctness.                                                          *)

\* The fields of a writer.
LEMMA WriterFacts ==
  ASSUME NEW w \in Writer
  PROVE  /\ w.buffer \in Chunk /\ w.chain \in Seq(BOOLEAN) /\ w.sequence \in Nat
         /\ w.waiting \in Seq(Waiting) /\ w.post \in Post
         /\ w.timer \in {"none", "set", "fired"}
BY DEF Writer

\* No post under way.
LEMMA NoPostType == NoPost \in Post /\ NoPost.chunk = <<>> /\ <<>> \in Chunk
BY DEF NoPost, Post, Chunk

\* A new writer, and what is left of one whose process is gone.
LEMMA NewWriterType ==
  /\ NewWriter \in Writer /\ Quiet(NewWriter)
  /\ [NewWriter EXCEPT !.chain = <<>>] \in Writer /\ Quiet([NewWriter EXCEPT !.chain = <<>>])
<1>1. <<TRUE>> \in Seq(BOOLEAN) /\ <<>> \in Seq(BOOLEAN) /\ <<>> \in Seq(Waiting)
  OBVIOUS
<1>2. PICK c \in Seq(BOOLEAN) : c = <<TRUE>>
  BY <1>1
<1>3. NewWriter = [buffer |-> <<>>, timer |-> "none", chain |-> c, sequence |-> 0,
                   waiting |-> <<>>, post |-> NoPost]
  BY <1>2 DEF NewWriter
<1>4. QED
  BY <1>1, <1>3, NoPostType DEF Writer, Quiet

\* The dispatcher's own steps.
LEMMA EmitFacts ==
  ASSUME NEW w \in Writer, NEW n \in Nat
  PROVE  /\ Emit(w, n) \in Writer
         /\ Emit(w, n).buffer = Append(w.buffer, n) /\ Emit(w, n).post = w.post
         /\ Emit(w, n).waiting = w.waiting /\ Emit(w, n).sequence = w.sequence
<1> DEFINE g == [w EXCEPT !.buffer = Append(@, n)]
<1>1. Append(w.buffer, n) \in Chunk
  BY WriterFacts, ChunkGrows
<1>2. /\ g \in Writer /\ g.buffer = Append(w.buffer, n) /\ g.post = w.post
      /\ g.waiting = w.waiting /\ g.sequence = w.sequence
  BY <1>1 DEF Writer
<1>3. Append(g.chain, FALSE) \in Seq(BOOLEAN)
  BY <1>2, WriterFacts, AppendProperties
<1>4. PICK t \in {"none", "set", "fired"} : t = IF g.timer = "none" THEN "set" ELSE g.timer
  BY <1>2, WriterFacts
<1> HIDE DEF g
<1>5. Emit(w, n) = IF Len(g.buffer) >= ChunkLines THEN [g EXCEPT !.chain = Append(g.chain, FALSE)]
                   ELSE [g EXCEPT !.timer = t]
  BY <1>2, <1>4 DEF Emit, g, Writer
<1>6. /\ [g EXCEPT !.chain = Append(g.chain, FALSE)] \in Writer
      /\ [g EXCEPT !.timer = t] \in Writer
  BY <1>2, <1>3, <1>4 DEF Writer
<1>7. QED
  BY <1>2, <1>5, <1>6 DEF Writer

\* A live chunk.
LEMMA QueueFacts ==
  ASSUME NEW w \in Writer, NEW n \in Nat
  PROVE  Queue(w, n) \in Writer /\ Queue(w, n).buffer = w.buffer
<1> <<n>> \in Seq(Nat) /\ w.sequence \in Nat
  BY WriterFacts
<1>0. PICK c \in Chunk : c = <<n>>
  BY DEF Chunk
<1>1. PICK e \in Waiting : e = [chunk |-> <<n>>, sequence |-> w.sequence]
  BY <1>0 DEF Waiting
<1>2. PICK a \in Seq(Waiting) : a = Append(w.waiting, e)
  BY <1>1, WriterFacts, AppendProperties
<1>3. PICK k \in Nat : k = w.sequence + 1
  BY WriterFacts
<1>4. Queue(w, n) = [w EXCEPT !.waiting = a, !.sequence = k]
  BY <1>1, <1>2, <1>3 DEF Queue, Writer
<1>5. QED
  BY <1>4 DEF Writer

\* A flush takes the buffer and its number.
LEMMA TakenFacts ==
  ASSUME NEW w \in Writer
  PROVE  /\ Taken(w) \in Writer /\ Taken(w).buffer = <<>> /\ Taken(w).waiting = w.waiting
         /\ Taken(w).sequence = w.sequence + 1 /\ Taken(w).sequence \in Nat
         /\ Taken(w).post = [chunk |-> w.buffer, sequence |-> w.sequence, tries |-> 1]
<1>1. PICK p \in Post : p = [chunk |-> w.buffer, sequence |-> w.sequence, tries |-> 1]
  BY WriterFacts DEF Post
<1>2. PICK k \in Nat : k = w.sequence + 1
  BY WriterFacts
<1>3. Taken(w) = [w EXCEPT !.post = p, !.sequence = k, !.buffer = <<>>, !.timer = "none"]
  BY <1>1, <1>2 DEF Taken, Writer
<1>4. QED
  BY <1>1, <1>2, <1>3, NoPostType DEF Writer

\* The end of a post.
LEMMA PostedFacts ==
  ASSUME NEW w \in Writer
  PROVE  /\ Posted(w) \in Writer /\ Posted(w).buffer = w.buffer /\ Posted(w).waiting = w.waiting
         /\ Posted(w).sequence = w.sequence /\ Posted(w).post = NoPost
<1>1. PICK t \in {"none", "set", "fired"} : t = IF w.timer = "none" /\ w.buffer # <<>> THEN "set" ELSE w.timer
  BY WriterFacts
<1>2. Posted(w) = [w EXCEPT !.post = NoPost, !.timer = t]
  BY <1>1 DEF Posted, Writer
<1>3. QED
  BY <1>2, NoPostType DEF Writer

\* What is posted becomes a row of its execution.
LEMMA RowFacts ==
  ASSUME TypeInv, NEW x \in Executions
  PROVE  /\ writer[x] \in Writer /\ writer[x].post \in Post
         /\ Row(x) \in RowType /\ Row(x).key[1] = x[2] /\ Row(x).by = x
         /\ Row(x).key[2] = writer[x].post.sequence /\ Row(x).chunk = writer[x].post.chunk
<1>1. writer[x] \in Writer /\ writer[x].post \in Post /\ x[2] \in Nat
  BY WriterFacts DEF TypeInv, Executions
<1>2. writer[x].post.sequence \in Nat /\ writer[x].post.chunk \in Chunk
  BY <1>1 DEF Post
<1>3. Row(x) = [key |-> <<x[2], writer[x].post.sequence>>, by |-> x, chunk |-> writer[x].post.chunk]
  BY DEF Row
<1>4. QED
  BY <1>1, <1>2, <1>3 DEF RowType

\* The execution that runs.
LEMMA NowFacts ==
  ASSUME TypeInv
  PROVE  Now \in Executions /\ Now[1] = life /\ Now[2] = attempt /\ writer[Now] \in Writer
BY DEF TypeInv, Now, Executions

-----------------------------------------------------------------------------
(* What the actions do to the one writer they are about.                      *)

\* The writer of x becomes w.
Turns(x, w) == w \in Writer /\ writer' = [writer EXCEPT ![x] = w]
Same(w, v) == /\ w.buffer = v.buffer /\ w.waiting = v.waiting
              /\ w.post = v.post /\ w.sequence = v.sequence

\* A line of the agent.
LEMMA AgentShape ==
  ASSUME TypeInv, AgentWrites
  PROVE  \E w : /\ Turns(Now, w)
                /\ kind = "structured" =>
                     /\ w.buffer = Append(writer[Now].buffer, lines[Now] + 1)
                     /\ w.waiting = writer[Now].waiting /\ w.post = writer[Now].post
                     /\ w.sequence = writer[Now].sequence
                /\ kind = "silent" => w = writer[Now]
<1>1. /\ Now \in Executions /\ writer[Now] \in Writer /\ lines[Now] + 1 \in Nat
      /\ kind \in {"structured", "live", "silent"}
  BY NowFacts DEF TypeInv
<1>2. CASE kind = "structured"
  <2>1. writer' = [writer EXCEPT ![Now] = Emit(writer[Now], lines[Now] + 1)]
    BY <1>1, <1>2 DEF AgentWrites, TypeInv
  <2>2. QED
    BY <1>1, <1>2, <2>1, EmitFacts DEF Turns
<1>3. CASE kind = "live"
  <2>1. writer' = [writer EXCEPT ![Now] = Queue(writer[Now], lines[Now] + 1)]
    BY <1>1, <1>3 DEF AgentWrites, TypeInv
  <2>2. QED
    BY <1>1, <1>3, <2>1, QueueFacts DEF Turns
<1>4. CASE kind = "silent"
  <2>1. writer' = [writer EXCEPT ![Now] = writer[Now]]
    BY <1>1, <1>4 DEF AgentWrites, TypeInv
  <2>2. QED
    BY <1>1, <1>4, <2>1 DEF Turns
<1>5. QED
  BY <1>1, <1>2, <1>3, <1>4

\* The timer.
LEMMA TimerShape ==
  ASSUME TypeInv, NEW x \in Executions, TimerFires(x)
  PROVE  \E w : Turns(x, w) /\ Same(w, writer[x])
<1>1. writer[x] \in Writer
  BY RowFacts
<1>2. PICK c \in Seq(BOOLEAN) : c = Append(writer[x].chain, FALSE)
  BY <1>1, WriterFacts, AppendProperties
<1> DEFINE w == [writer[x] EXCEPT !.timer = "fired", !.chain = c]
<1>3. w \in Writer /\ Same(w, writer[x])
  BY <1>1 DEF Writer, Same
<1>4. writer' = [writer EXCEPT ![x] = w]
  BY <1>1, <1>2 DEF TimerFires, TypeInv, Writer
<1>5. QED
  BY <1>3, <1>4 DEF Turns

\* A flush.
LEMMA FlushShape ==
  ASSUME TypeInv, NEW x \in Executions, Flush(x)
  PROVE  \E w : /\ Turns(x, w)
                /\ \/ Same(w, writer[x])
                   \/ /\ w.buffer = <<>> /\ w.waiting = writer[x].waiting
                      /\ w.sequence = writer[x].sequence + 1
                      /\ w.post = [chunk |-> writer[x].buffer, sequence |-> writer[x].sequence,
                                   tries |-> 1]
                      /\ writer[x].buffer # <<>>
<1>1. writer[x] \in Writer /\ writer[x].chain # <<>>
  BY RowFacts DEF Flush
<1>2. PICK c \in Seq(BOOLEAN) : c = Tail(writer[x].chain)
  BY <1>1, WriterFacts, HeadTailProperties
<1> DEFINE rest == [writer[x] EXCEPT !.chain = c]
<1>3. rest \in Writer /\ Same(rest, writer[x])
  BY <1>1 DEF Writer, Same
<1>4. writer' = [writer EXCEPT ![x] = IF rest.buffer = <<>> THEN [rest EXCEPT !.timer = "none"]
                                       ELSE Taken(rest)]
  BY <1>1, <1>2 DEF Flush, TypeInv, Writer
<1> HIDE DEF rest
<1>5. CASE rest.buffer = <<>>
  <2>1. [rest EXCEPT !.timer = "none"] \in Writer /\ Same([rest EXCEPT !.timer = "none"], rest)
    BY <1>3 DEF Writer, Same
  <2>2. QED
    BY <1>3, <1>4, <1>5, <2>1 DEF Turns, Same
<1>6. CASE rest.buffer # <<>>
  BY <1>3, <1>4, <1>6, TakenFacts DEF Turns, Same
<1>7. QED
  BY <1>5, <1>6

\* A chunk that has waited.
LEMMA WaitingShape ==
  ASSUME TypeInv, NEW x \in Executions, PostWaiting(x)
  PROVE  \E w : /\ Turns(x, w) /\ w.buffer = writer[x].buffer /\ w.sequence = writer[x].sequence
                /\ w.waiting = Tail(writer[x].waiting)
                /\ w.post = [chunk |-> Head(writer[x].waiting).chunk,
                             sequence |-> Head(writer[x].waiting).sequence, tries |-> 1]
<1>1. writer[x] \in Writer /\ writer[x].waiting # <<>>
  BY RowFacts DEF PostWaiting
<1>2. Head(writer[x].waiting) \in Waiting /\ Tail(writer[x].waiting) \in Seq(Waiting)
  BY <1>1, WriterFacts, HeadTailProperties
<1>3. PICK p \in Post : p = [chunk |-> Head(writer[x].waiting).chunk,
                             sequence |-> Head(writer[x].waiting).sequence, tries |-> 1]
  BY <1>2 DEF Post, Waiting
<1>4. PICK t \in Seq(Waiting) : t = Tail(writer[x].waiting)
  BY <1>2
<1>5. writer' = [writer EXCEPT ![x] = [writer[x] EXCEPT !.waiting = t, !.post = p]]
  BY <1>1, <1>3, <1>4 DEF PostWaiting, TypeInv, Writer
<1>6. PICK w : w = [writer[x] EXCEPT !.waiting = t, !.post = p]
  OBVIOUS
<1>7. /\ w \in Writer /\ w.buffer = writer[x].buffer /\ w.sequence = writer[x].sequence
      /\ w.waiting = t /\ w.post = p
  BY <1>1, <1>6 DEF Writer
<1>8. QED
  BY <1>3, <1>4, <1>5, <1>6, <1>7 DEF Turns

\* A post that arrives.
LEMMA DeliveredShape ==
  ASSUME TypeInv, NEW x \in Executions, Delivered(x)
  PROVE  \E w : /\ Turns(x, w) /\ w.buffer = writer[x].buffer /\ w.waiting = writer[x].waiting
                /\ w.sequence = writer[x].sequence /\ w.post = NoPost
<1>1. writer[x] \in Writer
  BY RowFacts
<1>2. writer' = [writer EXCEPT ![x] = Posted(writer[x])]
  BY DEF Delivered, TypeInv
<1>3. QED
  BY <1>1, <1>2, PostedFacts DEF Turns

\* A post that fails: the same again, or none, and then what has waited in the fallback
\* may be dropped with it.
LEMMA FailsShape ==
  ASSUME TypeInv, NEW x \in Executions, Fails(x)
  PROVE  /\ \E w : /\ Turns(x, w) /\ w.buffer = writer[x].buffer /\ w.sequence = writer[x].sequence
                   /\ \/ /\ w.waiting = writer[x].waiting /\ w.post # NoPost
                         /\ w.post.chunk = writer[x].post.chunk
                         /\ w.post.sequence = writer[x].post.sequence
                      \/ /\ w.waiting \in {writer[x].waiting, <<>>} /\ w.post = NoPost
                         /\ Of(x, writer[x].post.chunk) \subseteq lost'
         /\ lost \subseteq lost' /\ faults' = faults + 1
<1> DEFINE v == writer[x]
<1>1. v \in Writer /\ v.post \in Post
  BY RowFacts
<1>2. CASE Again(v.post.tries)
  <2>1. PICK k \in Nat : k = v.post.tries + 1
    BY <1>1 DEF Post
  <2>2. PICK p \in Post : p = [v.post EXCEPT !.tries = k]
    BY <1>1, <2>1 DEF Post
  <2>3. writer' = [writer EXCEPT ![x] = [v EXCEPT !.post = p]] /\ lost' = lost /\ faults' = faults + 1
    BY <1>1, <1>2, <2>1, <2>2 DEF Fails, TypeInv, Writer, Post
  <2>4. p.tries # 0 /\ p.chunk = v.post.chunk /\ p.sequence = v.post.sequence
    BY <1>1, <2>1, <2>2 DEF Post
  <2>5. p # NoPost
    BY <2>4 DEF NoPost
  <2>6. PICK w : w = [v EXCEPT !.post = p]
    OBVIOUS
  <2>7. /\ w \in Writer /\ w.buffer = v.buffer /\ w.sequence = v.sequence
        /\ w.waiting = v.waiting /\ w.post = p
    BY <1>1, <2>6 DEF Writer
  <2>8. QED
    BY <2>3, <2>4, <2>5, <2>6, <2>7 DEF Turns
<1>3. CASE ~Again(v.post.tries)
  <2>1. PICK u \in {v.waiting, <<>>} :
          /\ writer' = [writer EXCEPT ![x] = [Posted(v) EXCEPT !.waiting = u]]
          /\ lost \subseteq lost' /\ Of(x, v.post.chunk) \subseteq lost' /\ faults' = faults + 1
    BY <1>3 DEF Fails
  <2>2. <<>> \in Seq(Waiting) /\ v.waiting \in Seq(Waiting)
    BY <1>1, WriterFacts
  <2>3. /\ Posted(v) \in Writer /\ Posted(v).buffer = v.buffer /\ Posted(v).sequence = v.sequence
        /\ Posted(v).post = NoPost
    BY <1>1, PostedFacts
  <2>4. PICK w : w = [Posted(v) EXCEPT !.waiting = u]
    OBVIOUS
  <2>5. /\ w \in Writer /\ w.buffer = v.buffer /\ w.sequence = v.sequence /\ w.post = NoPost
        /\ w.waiting = u
    BY <2>1, <2>2, <2>3, <2>4 DEF Writer
  <2>6. QED
    BY <2>1, <2>4, <2>5 DEF Turns
<1>4. QED
  BY <1>2, <1>3

\* The end of the step: the fallback's chunks wait.
LEMMA SucceedsShape ==
  ASSUME TypeInv, StepSucceeds
  PROVE  \/ writer' = writer /\ phase' = "idle" /\ kind = "structured"
         \/ /\ phase' = "fallback"
            /\ kind = "structured" => lines[Now] = 0
            /\ \E w : /\ Turns(Now, w) /\ w.buffer = writer[Now].buffer
                      /\ w.sequence = writer[Now].sequence /\ w.post = writer[Now].post
                      /\ w.waiting = FileChunks(lines[Now])
<1>1. Now \in Executions /\ writer[Now] \in Writer /\ lines[Now] \in Nat
  BY NowFacts DEF TypeInv
<1>2. PICK c \in Seq(Waiting) : c = FileChunks(lines[Now])
  BY <1>1, FileChunksFacts
<1>3. CASE kind # "structured" \/ lines[Now] = 0
  <2>1. phase' = "fallback" /\ writer' = [writer EXCEPT ![Now] = [writer[Now] EXCEPT !.waiting = c]]
    BY <1>1, <1>2, <1>3 DEF StepSucceeds, TypeInv, Writer
  <2>2. PICK w : w = [writer[Now] EXCEPT !.waiting = c]
    OBVIOUS
  <2>3. /\ w \in Writer /\ w.buffer = writer[Now].buffer /\ w.sequence = writer[Now].sequence
        /\ w.waiting = c /\ w.post = writer[Now].post
    BY <1>1, <2>2 DEF Writer
  <2>4. QED
    BY <1>2, <1>3, <2>1, <2>2, <2>3 DEF Turns
<1>4. QED
  BY <1>3 DEF StepSucceeds

-----------------------------------------------------------------------------
(* The steps keep the types.                                                  *)

\* A row is stored at most once.
LEMMA StoredFacts ==
  ASSUME NEW r
  PROVE  /\ rows \subseteq Stored(r) /\ Stored(r) \subseteq rows \cup {r}
         /\ Stored(r) = rows => \E q \in rows : q.key = r.key
BY DEF Stored

\* Rows and late posts stay, or come from a post under way.
LEMMA RowsCome ==
  ASSUME TypeInv, [Next]_vars
  PROVE  /\ rows \subseteq rows'
         /\ \A r \in rows' \cup late' :
              r \in rows \cup late \/ \E x \in Executions : Posting(x) /\ r = Row(x)
<1>1. CASE rows' = rows /\ late' = late
  BY <1>1
<1>2. ASSUME NEW x \in Executions, Delivered(x)
      PROVE  /\ rows \subseteq rows'
             /\ \A r \in rows' \cup late' : r \in rows \cup late \/ (Posting(x) /\ r = Row(x))
  BY <1>2, StoredFacts DEF Delivered
<1>3. ASSUME NEW x \in Executions, TimesOut(x)
      PROVE  /\ rows \subseteq rows'
             /\ \A r \in rows' \cup late' : r \in rows \cup late \/ (Posting(x) /\ r = Row(x))
  BY <1>3 DEF TimesOut, Fails
<1>4. ASSUME NEW row \in late, NEW handled \in BOOLEAN, LateHandled(row, handled)
      PROVE  rows \subseteq rows' /\ rows' \cup late' \subseteq rows \cup late
  BY <1>4, StoredFacts DEF LateHandled
<1>5. CASE Exits
  BY <1>5 DEF Exits
<1>6. QED
  BY <1>1, <1>2, <1>3, <1>4, <1>5 DEF Next, vars, AgentWrites, TimerFires, Flush, PostWaiting,
     Refused, StepSucceeds, StepFails, FallbackEnds, Retries, Resumes

\* The initial states have their types.
LEMMA TypeInit == Init => TypeInv
<1> SUFFICES ASSUME Init PROVE TypeInv
  OBVIOUS
<1>1. kind \in {"structured", "live", "silent"}
  BY KindsAssumption DEF Init
<1>2. writer \in [Executions -> Writer]
  BY NewWriterType DEF Init
<1>3. QED
  BY <1>1, <1>2 DEF Init, TypeInv

\* The writers keep their type.
LEMMA WriterNext ==
  ASSUME TypeInv, [Next]_vars
  PROVE  writer' \in [Executions -> Writer]
<1>1. writer \in [Executions -> Writer]
  BY DEF TypeInv
<1>2. ASSUME NEW x \in Executions, NEW w, Turns(x, w) PROVE writer' \in [Executions -> Writer]
  BY <1>1, <1>2 DEF Turns
<1>3. CASE AgentWrites \/ StepSucceeds
  BY <1>1, <1>2, <1>3, AgentShape, SucceedsShape, NowFacts
<1>4. ASSUME NEW x \in Executions,
             TimerFires(x) \/ Flush(x) \/ PostWaiting(x) \/ Delivered(x) \/ Refused(x) \/ TimesOut(x)
      PROVE  writer' \in [Executions -> Writer]
  <2>1. \E w : Turns(x, w)
    BY <1>4, TimerShape, FlushShape, WaitingShape, DeliveredShape, FailsShape DEF Refused, TimesOut
  <2>2. QED
    BY <1>2, <2>1
<1>5. CASE Exits
  BY <1>5, NewWriterType DEF Exits
<1>6. CASE Resumes
  BY <1>1, <1>6, NewWriterType DEF Resumes
<1>7. CASE UNCHANGED writer
  BY <1>1, <1>7
<1>8. QED
  BY <1>3, <1>4, <1>5, <1>6, <1>7 DEF Next, vars, LateHandled, StepFails, FallbackEnds, Retries

\* Every step keeps the types.
LEMMA TypeNext == TypeInv /\ [Next]_vars => TypeInv'
<1> SUFFICES ASSUME TypeInv, [Next]_vars PROVE TypeInv'
  OBVIOUS
<1>1. writer' \in [Executions -> Writer]
  BY WriterNext
<1>2. /\ rows' \subseteq RowType /\ late' \subseteq RowType
      /\ \A r \in rows' \cup late' : r.key[1] = r.by[2]
  BY RowsCome, RowFacts DEF TypeInv
<1>3. /\ life' \in 1 .. MaxLives /\ attempt' \in 1 .. MaxAttempts
      /\ phase' \in {"running", "fallback", "idle", "exited"} /\ kind' = kind
      /\ faults' \in Nat
  <2>1. /\ life \in 1 .. MaxLives /\ attempt \in 1 .. MaxAttempts /\ faults \in Nat
        /\ phase \in {"running", "fallback", "idle", "exited"}
    BY DEF TypeInv
  <2>2. ASSUME NEW x \in Executions, Refused(x) \/ TimesOut(x)
        PROVE  faults' = faults + 1 /\ UNCHANGED <<kind, life, attempt, phase>>
    BY <2>2 DEF Refused, TimesOut, Fails
  <2>3. CASE \E x \in Executions : Refused(x) \/ TimesOut(x)
    BY <2>1, <2>2, <2>3
  <2>4. CASE /\ UNCHANGED <<kind, life, attempt, faults>>
             /\ phase' \in {phase, "fallback", "idle", "exited"}
    BY <2>1, <2>4
  <2>5. CASE Retries
    BY <2>1, <2>5 DEF Retries
  <2>6. CASE Resumes
    BY <2>1, <2>6 DEF Resumes
  <2>7. ASSUME NEW x \in Executions, TimerFires(x) \/ Flush(x) \/ PostWaiting(x) \/ Delivered(x)
        PROVE  UNCHANGED <<kind, life, attempt, faults, phase>>
    BY <2>7 DEF TimerFires, Flush, PostWaiting, Delivered
  <2>8. ASSUME AgentWrites \/ StepSucceeds \/ StepFails \/ FallbackEnds \/ Exits \/ UNCHANGED vars
               \/ \E row \in late, handled \in BOOLEAN : LateHandled(row, handled)
        PROVE  /\ UNCHANGED <<kind, life, attempt, faults>>
               /\ phase' \in {phase, "fallback", "idle", "exited"}
    BY <2>8 DEF vars, AgentWrites, LateHandled, StepSucceeds, StepFails, FallbackEnds, Exits
  <2>9. QED
    BY <2>3, <2>4, <2>5, <2>6, <2>7, <2>8 DEF Next
<1>4. lines' \in [Executions -> Nat]
  <2>1. lines \in [Executions -> Nat] /\ Now \in Executions
    BY NowFacts DEF TypeInv
  <2>2. CASE AgentWrites
    BY <2>1, <2>2 DEF AgentWrites
  <2>3. CASE UNCHANGED lines
    BY <2>1, <2>3
  <2>4. QED
    BY <2>2, <2>3 DEF Next, vars, TimerFires, Flush, PostWaiting, Delivered, Refused, TimesOut,
       LateHandled, StepSucceeds, StepFails, FallbackEnds, Retries, Exits, Resumes
<1>5. QED
  BY <1>1, <1>2, <1>3, <1>4 DEF TypeInv

\* In every state that the log of a step reaches, the senders, the posts under way and
\* the table have their types.
THEOREM StepLogTypeCorrect == Spec => []TypeInv
BY TypeInit, TypeNext, PTL DEF Spec

-----------------------------------------------------------------------------
(* Order, of fewer rows and of one more.                                      *)

\* A part of what has been sent is in order too.
LEMMA FewerInOrder ==
  ASSUME NEW O, NEW P \in SUBSET O, NEW p, NEW w, NEW n
  PROVE  /\ SentInOrder(O) => SentInOrder(P)
         /\ PostInOrder(O, p) => PostInOrder(P, p)
         /\ BufferInOrder(O, w, n) => BufferInOrder(P, w, n)
         /\ WaitingInOrder(O, w) => WaitingInOrder(P, w)
BY DEF SentInOrder, PostInOrder, BufferInOrder, WaitingInOrder

\* The row of the post that is under way comes after what has been sent.
LEMMA OneMoreInOrder ==
  ASSUME NEW O \in SUBSET RowType, NEW r \in RowType, NEW w \in Writer, NEW n,
         w.post # NoPost, r.key[2] = w.post.sequence, r.chunk = w.post.chunk,
         SentInOrder(O), PostInOrder(O, w.post)
  PROVE  /\ SentInOrder(O \cup {r}) /\ PostInOrder(O \cup {r}, w.post)
         /\ BufferInOrder(O, w, n) => BufferInOrder(O \cup {r}, w, n)
         /\ WaitingInOrder(O, w) => WaitingInOrder(O \cup {r}, w)
<1>1. \A q \in O \cup {r} : q.key[2] \in Nat
  BY DEF RowType
<1>2. \A q \in O : /\ q.key[2] <= r.key[2]
                   /\ q.key[2] < r.key[2] => Before(q.chunk, r.chunk)
                   /\ q.key[2] = r.key[2] => q.chunk = r.chunk
  BY DEF PostInOrder
<1>3. SentInOrder(O \cup {r})
  BY <1>1, <1>2 DEF SentInOrder
<1>4. PostInOrder(O \cup {r}, w.post)
  BY <1>1 DEF PostInOrder
<1>5. BufferInOrder(O, w, n) => BufferInOrder(O \cup {r}, w, n)
  BY DEF BufferInOrder
<1>6. WaitingInOrder(O, w) => WaitingInOrder(O \cup {r}, w)
  BY DEF WaitingInOrder
<1>7. QED
  BY <1>3, <1>4, <1>5, <1>6

\* The order of a writer is that of its chunks and numbers.
LEMMA SameInOrder ==
  ASSUME NEW O, NEW w, NEW v, NEW n, Same(w, v)
  PROVE  /\ PostInOrder(O, v.post) => PostInOrder(O, w.post)
         /\ BufferInOrder(O, v, n) => BufferInOrder(O, w, n)
         /\ WaitingInOrder(O, v) => WaitingInOrder(O, w)
         /\ Quiet(v) => Quiet(w)
BY DEF Same, PostInOrder, BufferInOrder, WaitingInOrder, Quiet

-----------------------------------------------------------------------------
(* What a step of one sender has to show.                                     *)

StepLogInv == TypeInv /\ LifeInv /\ OrderInv /\ AccountInv

InOrder(O, w, n) ==
  /\ SentInOrder(O) /\ PostInOrder(O, w.post)
  /\ kind = "structured" => BufferInOrder(O, w, n)
  /\ kind = "silent" => WaitingInOrder(O, w)

\* An execution whose process works is in order.
LEMMA AliveInOrder ==
  ASSUME OrderInv, NEW x \in Executions, kind # "live", Alive(x)
  PROVE  InOrder(Own(x), writer[x], lines[x])
BY DEF OrderInv, SenderInOrder, InOrder

\* What is accounted for stays so, for every execution whose writer does not change.
LEMMA AccountStays ==
  ASSUME NEW y \in Executions, NEW n, writer'[y] = writer[y], rows \subseteq rows', lost \subseteq lost',
         Accounted(y, n)
  PROVE  Accounted(y, n)'
BY DEF Accounted, InRows, NumberUsedBefore

\* So does the order, of a part of what an execution has sent.
LEMMA FewerSender ==
  ASSUME NEW y, NEW P \in SUBSET Own(y), SenderInOrder(y)
  PROVE  /\ SentInOrder(P) /\ PostInOrder(P, writer[y].post)
         /\ kind = "structured" /\ Alive(y) => BufferInOrder(P, writer[y], lines[y])
         /\ kind = "silent" => WaitingInOrder(P, writer[y])
BY FewerInOrder DEF SenderInOrder

\* The writer of x changes, and nothing of the other executions.
LEMMA SenderStep ==
  ASSUME StepLogInv, NEW x \in Executions, NEW w, Turns(x, w), Alive(x),
         UNCHANGED <<kind, life, attempt>>,
         phase' # "exited", phase' = "running" => phase = "running",
         \A y \in Executions : y # x => Own(y)' \subseteq Own(y) /\ lines'[y] = lines[y],
         rows \subseteq rows', lost \subseteq lost',
         ~Begun(x) => Quiet(w) /\ Own(x)' = {} /\ lines'[x] = 0,
         kind = "structured" => w.waiting = <<>>,
         kind = "silent" => w.buffer = <<>>,
         kind # "live" => InOrder(Own(x)', w, lines'[x]),
         kind = "silent" /\ phase' = "running" /\ x = Now => Own(x)' = {} /\ Quiet(w),
         kind = "structured" => \A n \in 1 .. lines'[x] : Accounted(x, n)'
  PROVE  LifeInv' /\ OrderInv' /\ AccountInv'
<1>1. /\ writer \in [Executions -> Writer] /\ writer'[x] = w
      /\ \A y \in Executions : y # x => writer'[y] = writer[y]
  BY DEF StepLogInv, TypeInv, Turns
<1>2. \A y \in Executions : Alive(y)' = Alive(y) /\ Begun(y)' = Begun(y)
  BY DEF Alive, Begun
<1>3. LifeInv'
  <2> SUFFICES ASSUME NEW y \in Executions
               PROVE  /\ ~Begun(y)' => Quiet(writer'[y]) /\ Own(y)' = {} /\ lines'[y] = 0
                      /\ ~Alive(y)' => Quiet(writer'[y])
                      /\ kind' = "structured" => writer'[y].waiting = <<>>
                      /\ kind' = "silent" => writer'[y].buffer = <<>>
    BY DEF LifeInv
  <2>1. CASE y = x
    BY <1>1, <1>2, <2>1
  <2>2. CASE y # x
    BY <1>1, <1>2, <2>2 DEF StepLogInv, LifeInv
  <2>3. QED
    BY <2>1, <2>2
<1>4. ASSUME kind # "live", NEW y \in Executions PROVE SenderInOrder(y)'
  <2>1. CASE y = x
    BY <1>1, <1>4, <2>1 DEF SenderInOrder, InOrder
  <2>2. CASE y # x
    <3>1. SenderInOrder(y) /\ Own(y)' \in SUBSET Own(y) /\ lines'[y] = lines[y]
      BY <1>4, <2>2 DEF StepLogInv, OrderInv
    <3>2. PICK P : P = Own(y)'
      OBVIOUS
    <3>3. /\ SentInOrder(P) /\ PostInOrder(P, writer[y].post)
          /\ kind = "structured" /\ Alive(y) => BufferInOrder(P, writer[y], lines[y])
          /\ kind = "silent" => WaitingInOrder(P, writer[y])
      BY <3>1, <3>2, FewerSender
    <3>4. QED
      BY <1>1, <1>2, <2>2, <3>1, <3>2, <3>3 DEF SenderInOrder
  <2>3. QED
    BY <2>1, <2>2
<1>5. ASSUME kind = "silent", phase' = "running" PROVE Own(Now)' = {} /\ Quiet(writer[Now])'
  <2>1. Now' = Now /\ Now \in Executions
    BY NowFacts DEF StepLogInv, Now
  <2>2. CASE x = Now
    BY <1>1, <1>5, <2>1, <2>2
  <2>3. CASE x # Now
    <3>1. Own(Now)' \subseteq Own(Now) /\ writer'[Now] = writer[Now]
      BY <1>1, <2>1, <2>3 DEF Own
    <3>2. Own(Now) = {} /\ Quiet(writer[Now])
      BY <1>5 DEF StepLogInv, OrderInv
    <3>3. QED
      BY <2>1, <3>1, <3>2
  <2>4. QED
    BY <2>2, <2>3
<1>6. OrderInv'
  BY <1>4, <1>5 DEF OrderInv
<1>7. AccountInv'
  <2> SUFFICES ASSUME kind = "structured", NEW y \in Executions, NEW n \in 1 .. lines'[y]
               PROVE  Accounted(y, n)'
    BY DEF AccountInv
  <2>1. CASE y # x
    <3>1. Accounted(y, n)
      BY <2>1 DEF StepLogInv, AccountInv
    <3>2. QED
      BY <1>1, <2>1, <3>1, AccountStays
  <2>2. QED
    BY <2>1
<1>8. QED
  BY <1>3, <1>6, <1>7

\* No writer changes, and nothing is sent.
LEMMA StillStep ==
  ASSUME StepLogInv, UNCHANGED <<kind, life, attempt, writer, lines>>,
         (phase' = "exited") = (phase = "exited"), phase' = "running" => phase = "running",
         \A y \in Executions : Own(y)' \subseteq Own(y),
         rows \subseteq rows', lost \subseteq lost'
  PROVE  LifeInv' /\ OrderInv' /\ AccountInv'
<1>1. \A y \in Executions : Alive(y)' = Alive(y) /\ Begun(y)' = Begun(y)
  BY DEF Alive, Begun
<1>2. LifeInv'
  BY <1>1 DEF StepLogInv, LifeInv
<1>3. ASSUME kind # "live", NEW y \in Executions PROVE SenderInOrder(y)'
  <2>1. SenderInOrder(y) /\ Own(y)' \in SUBSET Own(y)
    BY <1>3 DEF StepLogInv, OrderInv
  <2>2. PICK P : P = Own(y)'
    OBVIOUS
  <2>3. /\ SentInOrder(P) /\ PostInOrder(P, writer[y].post)
        /\ kind = "structured" /\ Alive(y) => BufferInOrder(P, writer[y], lines[y])
        /\ kind = "silent" => WaitingInOrder(P, writer[y])
    BY <2>1, <2>2, FewerSender
  <2>4. QED
    BY <1>1, <2>2, <2>3 DEF SenderInOrder
<1>4. ASSUME kind = "silent", phase' = "running" PROVE Own(Now)' = {} /\ Quiet(writer[Now])'
  <2>1. Now' = Now /\ Now \in Executions
    BY NowFacts DEF StepLogInv, Now
  <2>2. Own(Now) = {} /\ Quiet(writer[Now])
    BY <1>4 DEF StepLogInv, OrderInv
  <2>3. Own(Now)' \subseteq Own(Now)
    BY <2>1 DEF Own
  <2>4. QED
    BY <2>1, <2>2, <2>3
<1>5. OrderInv'
  BY <1>3, <1>4 DEF OrderInv
<1>6. AccountInv'
  <2> SUFFICES ASSUME kind = "structured", NEW y \in Executions, NEW n \in 1 .. lines'[y]
               PROVE  Accounted(y, n)'
    BY DEF AccountInv
  <2>1. Accounted(y, n)
    BY DEF StepLogInv, AccountInv
  <2>2. QED
    BY <2>1, AccountStays
<1>7. QED
  BY <1>2, <1>5, <1>6

-----------------------------------------------------------------------------
(* The steps of the senders.                                                  *)

\* Who has something to send has begun.
LEMMA SendsBegun ==
  ASSUME StepLogInv, NEW x \in Executions, ~Quiet(writer[x]) \/ Own(x) # {}
  PROVE  Begun(x)
BY DEF StepLogInv, LifeInv

\* Lines are numbers.
LEMMA OwnFacts ==
  ASSUME TypeInv, NEW x \in Executions
  PROVE  /\ Own(x) \subseteq RowType
         /\ \A r \in Own(x) : ToSet(r.chunk) \subseteq Nat /\ r.key[2] \in Nat
         /\ ToSet(writer[x].buffer) \subseteq Nat /\ ToSet(writer[x].post.chunk) \subseteq Nat
         /\ writer[x].sequence \in Nat /\ writer[x].post.sequence \in Nat /\ lines[x] \in Nat
<1>1. Own(x) \subseteq RowType
  BY DEF Own, TypeInv
<1>2. \A r \in RowType : r.chunk \in Chunk /\ r.key[2] \in Nat
  BY DEF RowType
<1>3. writer[x] \in Writer /\ writer[x].buffer \in Chunk /\ writer[x].post \in Post
  BY RowFacts, WriterFacts
<1>4. writer[x].post.chunk \in Chunk /\ writer[x].post.sequence \in Nat /\ writer[x].sequence \in Nat
  BY <1>3, WriterFacts DEF Post
<1>5. \A c \in Chunk : ToSet(c) \subseteq Nat
  BY ChunkGrows
<1>6. QED
  BY <1>1, <1>2, <1>3, <1>4, <1>5 DEF TypeInv

\* Nobody else sends anything meanwhile.
LEMMA OthersStay ==
  ASSUME NEW x \in Executions, rows' \cup late' \subseteq rows \cup late \cup {Row(x)}, Row(x).by = x
  PROVE  /\ \A y \in Executions : y # x => Own(y)' \subseteq Own(y)
         /\ Own(x)' \subseteq Own(x) \cup {Row(x)}
BY DEF Own

\* The agent writes a line: it comes last.
LEMMA AgentKeeps ==
  ASSUME StepLogInv, AgentWrites
  PROVE  LifeInv' /\ OrderInv' /\ AccountInv'
<1>1. TypeInv /\ Now \in Executions /\ Now[1] = life /\ Now[2] = attempt /\ phase = "running"
  BY NowFacts DEF StepLogInv, AgentWrites
<1>2. Alive(Now) /\ Begun(Now)
  BY <1>1 DEF Alive, Begun, TypeInv
<1>3. PICK w : /\ Turns(Now, w)
               /\ kind = "structured" =>
                    /\ w.buffer = Append(writer[Now].buffer, lines[Now] + 1)
                    /\ w.waiting = writer[Now].waiting /\ w.post = writer[Now].post
                    /\ w.sequence = writer[Now].sequence
               /\ kind = "silent" => w = writer[Now]
  BY <1>1, AgentShape
<1> DEFINE v == writer[Now]
           k == lines[Now]
           O == Own(Now)
<1>4. /\ UNCHANGED <<kind, life, attempt, phase, late, rows, faults, lost>>
      /\ lines' = [lines EXCEPT ![Now] = k + 1]
  BY DEF AgentWrites
<1>5. /\ \A y \in Executions : Own(y)' = Own(y)
      /\ lines'[Now] = k + 1 /\ \A y \in Executions : y # Now => lines'[y] = lines[y]
      /\ Own(Now)' = O
  BY <1>1, <1>4 DEF Own, TypeInv, Now
<1>6. /\ k \in Nat /\ \A r \in O : ToSet(r.chunk) \subseteq Nat
      /\ ToSet(v.buffer) \subseteq Nat /\ ToSet(v.post.chunk) \subseteq Nat /\ v.buffer \in Chunk
  BY <1>1, OwnFacts, RowFacts, WriterFacts
<1>7. PICK l \in Nat : l = k + 1
  BY <1>6
<1>8. ToSet(Append(v.buffer, l)) = ToSet(v.buffer) \cup {l}
  BY <1>6, ChunkGrows
<1>9. ASSUME kind = "structured" PROVE BufferInOrder(O, w, l)
  <2>1. BufferInOrder(O, v, k)
    BY <1>1, <1>2, <1>9, AliveInOrder DEF InOrder, StepLogInv
  <2>2. /\ w.buffer = Append(v.buffer, l) /\ w.post = v.post /\ w.sequence = v.sequence
    BY <1>3, <1>7, <1>9
  <2>3. Within(w.buffer, l)
    <3>1. Within(v.buffer, k)
      BY <2>1 DEF BufferInOrder
    <3>2. ToSet(w.buffer) = ToSet(v.buffer) \cup {l}
      BY <1>8, <2>2
    <3>3. QED
      BY <1>6, <1>7, <3>1, <3>2 DEF Within
  <2>4. ASSUME NEW r \in O
        PROVE  r.key[2] < w.sequence /\ Before(r.chunk, w.buffer) /\ Within(r.chunk, l)
    <3>1. ToSet(r.chunk) \subseteq Nat /\ r.key[2] < v.sequence /\ Before(r.chunk, v.buffer) /\ Within(r.chunk, k)
      BY <1>6, <2>1 DEF BufferInOrder
    <3>2. QED
      BY <1>6, <1>7, <1>8, <2>2, <3>1 DEF Before, Within
  <2>5. ASSUME v.post # NoPost
        PROVE  /\ v.post.sequence < w.sequence /\ Before(v.post.chunk, w.buffer)
               /\ Within(v.post.chunk, l)
    <3>1. v.post.sequence < v.sequence /\ Before(v.post.chunk, v.buffer) /\ Within(v.post.chunk, k)
      BY <2>1, <2>5 DEF BufferInOrder
    <3>2. QED
      BY <1>6, <1>7, <1>8, <2>2, <3>1 DEF Before, Within
  <2>6. QED
    BY <2>2, <2>3, <2>4, <2>5 DEF BufferInOrder
<1>10. kind # "live" => InOrder(O, w, l)
  <2> SUFFICES ASSUME kind # "live" PROVE InOrder(O, w, l)
    OBVIOUS
  <2>1. InOrder(O, v, k) /\ kind \in {"structured", "silent"}
    BY <1>1, <1>2, AliveInOrder DEF StepLogInv, TypeInv
  <2>2. w.post = v.post
    BY <1>3, <2>1
  <2>3. QED
    BY <1>3, <1>9, <2>1, <2>2 DEF InOrder
<1>11. kind = "silent" => O = {} /\ Quiet(w) /\ w.buffer = <<>>
  BY <1>1, <1>3 DEF StepLogInv, OrderInv, Quiet
<1>12. ASSUME kind = "structured", NEW n \in 1 .. l PROVE Accounted(Now, n)'
  <2>1. /\ writer'[Now] = w /\ w.buffer = Append(v.buffer, l) /\ w.post = v.post
        /\ Now' = Now /\ rows' = rows /\ lost' = lost
    BY <1>1, <1>3, <1>4, <1>7, <1>12 DEF Turns, TypeInv, Now
  <2>2. CASE n = l
    BY <1>8, <2>1, <2>2 DEF Accounted
  <2>3. CASE n \in 1 .. k
    <3>1. Accounted(Now, n)
      BY <1>1, <1>12, <2>3 DEF StepLogInv, AccountInv
    <3>2. QED
      BY <1>8, <2>1, <3>1 DEF Accounted, InRows, NumberUsedBefore
  <2>4. QED
    BY <1>6, <1>7, <2>2, <2>3
<1>13. kind = "structured" => w.waiting = <<>>
  BY <1>1, <1>3 DEF StepLogInv, LifeInv
<1>14. PICK x \in Executions : x = Now
  BY <1>1
<1>15. Now' = Now /\ lines'[x] = l /\ Own(x)' = O
  BY <1>4, <1>5, <1>7, <1>14 DEF Now
<1>16. kind = "structured" => \A n \in 1 .. lines'[x] : Accounted(x, n)'
  BY <1>12, <1>14, <1>15 DEF Accounted, InRows, NumberUsedBefore
<1> HIDE DEF v, k, O
<1>17. QED
  BY <1>1, <1>2, <1>3, <1>4, <1>5, <1>10, <1>11, <1>13, <1>14, <1>15, <1>16, SenderStep

-----------------------------------------------------------------------------
\* A step that leaves a sender's chunks and numbers alone.
LEMMA SameKeeps ==
  ASSUME StepLogInv, NEW x \in Executions, NEW w, Turns(x, w), Same(w, writer[x]), Alive(x),
         UNCHANGED <<kind, life, attempt, phase, lines, late, rows, lost>>
  PROVE  LifeInv' /\ OrderInv' /\ AccountInv'
<1> DEFINE v == writer[x]
<1>1. /\ w.buffer = v.buffer /\ w.waiting = v.waiting /\ w.post = v.post /\ writer'[x] = w
      /\ Quiet(v) => Quiet(w)
  BY SameInOrder DEF Same, StepLogInv, TypeInv, Turns
<1>2. /\ ~Begun(x) => Quiet(v) /\ Own(x) = {} /\ lines[x] = 0
      /\ kind = "structured" => v.waiting = <<>>
      /\ kind = "silent" => v.buffer = <<>>
  BY DEF StepLogInv, LifeInv
<1>3. kind # "live" => InOrder(Own(x), w, lines[x])
  <2> SUFFICES ASSUME kind # "live" PROVE InOrder(Own(x), w, lines[x])
    OBVIOUS
  <2>1. InOrder(Own(x), v, lines[x])
    BY AliveInOrder DEF StepLogInv
  <2> HIDE DEF v
  <2>2. Same(w, v)
    BY DEF v
  <2>3. QED
    BY <2>1, <2>2, SameInOrder DEF InOrder
<1>4. kind = "silent" /\ phase = "running" /\ x = Now => Own(x) = {} /\ Quiet(v)
  BY DEF StepLogInv, OrderInv
<1>5. ASSUME kind = "structured", NEW n \in 1 .. lines[x] PROVE Accounted(x, n)'
  <2>1. Accounted(x, n)
    BY <1>5 DEF StepLogInv, AccountInv
  <2>2. QED
    BY <1>1, <2>1 DEF Accounted, InRows, NumberUsedBefore
<1>6. \A y \in Executions : Own(y)' = Own(y)
  BY DEF Own
<1>7. Own(x)' = Own(x) /\ lines' = lines /\ phase # "exited"
  BY <1>6 DEF Alive
<1> HIDE DEF v
<1>8. QED
  BY <1>1, <1>2, <1>3, <1>4, <1>5, <1>6, <1>7, SenderStep

\* The timer goes off.
LEMMA TimerKeeps ==
  ASSUME StepLogInv, NEW x \in Executions, TimerFires(x)
  PROVE  LifeInv' /\ OrderInv' /\ AccountInv'
<1>1. PICK w : Turns(x, w) /\ Same(w, writer[x])
  BY TimerShape DEF StepLogInv
<1>2. Alive(x) /\ UNCHANGED <<kind, life, attempt, phase, lines, late, rows, lost>>
  BY DEF TimerFires
<1>3. QED
  BY <1>1, <1>2, SameKeeps

\* A flush takes a number that nothing sent has reached.
LEMMA FlushKeeps ==
  ASSUME StepLogInv, NEW x \in Executions, Flush(x)
  PROVE  LifeInv' /\ OrderInv' /\ AccountInv'
<1> DEFINE v == writer[x]
           O == Own(x)
           n == lines[x]
<1>1. /\ Alive(x) /\ v.post = NoPost /\ phase # "exited"
      /\ UNCHANGED <<kind, life, attempt, phase, lines, late, rows, lost>>
  BY DEF Flush, Posting, Alive
<1>2. PICK w : /\ Turns(x, w)
               /\ \/ Same(w, v)
                  \/ /\ w.buffer = <<>> /\ w.waiting = v.waiting
                     /\ w.sequence = v.sequence + 1
                     /\ w.post = [chunk |-> v.buffer, sequence |-> v.sequence, tries |-> 1]
                     /\ v.buffer # <<>>
  BY FlushShape DEF StepLogInv
<1>3. CASE Same(w, v)
  BY <1>1, <1>2, <1>3, SameKeeps
<1>4. ASSUME /\ w.buffer = <<>> /\ w.waiting = v.waiting
             /\ w.sequence = v.sequence + 1
             /\ w.post = [chunk |-> v.buffer, sequence |-> v.sequence, tries |-> 1]
             /\ v.buffer # <<>>
      PROVE  LifeInv' /\ OrderInv' /\ AccountInv'
  <2>1. /\ kind # "silent" /\ Begun(x)
        /\ kind = "structured" => v.waiting = <<>>
    BY <1>4, SendsBegun DEF StepLogInv, LifeInv, Quiet
  <2>2. /\ v.sequence \in Nat /\ \A r \in O : r.key[2] \in Nat
        /\ w.post.chunk = v.buffer /\ w.post.sequence = v.sequence /\ ToSet(<<>>) = {}
    <3>1. ToSet(<<>>) = {}
      BY DEF ToSet
    <3>2. QED
      BY <1>4, <3>1, OwnFacts DEF StepLogInv
  <2>3. ASSUME kind # "live" PROVE InOrder(O, w, n)
    <3>1. SentInOrder(O) /\ BufferInOrder(O, v, n) /\ kind = "structured"
      BY <1>1, <2>1, <2>3, AliveInOrder DEF InOrder, StepLogInv, TypeInv
    <3>2. PostInOrder(O, w.post)
      BY <2>2, <3>1 DEF PostInOrder, BufferInOrder
    <3>3. BufferInOrder(O, w, n)
      BY <1>4, <2>2, <3>1 DEF BufferInOrder, Before, Within
    <3>4. QED
      BY <2>1, <3>1, <3>2, <3>3 DEF InOrder
  <2>4. writer'[x] = w
    BY <1>2 DEF Turns, StepLogInv, TypeInv
  <2>5. ASSUME kind = "structured", NEW m \in 1 .. n PROVE Accounted(x, m)'
    <3>1. Accounted(x, m)
      BY <2>5 DEF StepLogInv, AccountInv
    <3>2. v.post.chunk = <<>>
      BY <1>1 DEF NoPost
    <3>3. QED
      BY <1>1, <2>2, <2>4, <3>1, <3>2 DEF Accounted, InRows, NumberUsedBefore
  <2>6. \A y \in Executions : Own(y)' = Own(y)
    BY <1>1 DEF Own
  <2>7. Own(x)' = O /\ lines' = lines
    BY <1>1, <2>6
  <2> HIDE DEF v, O
  <2>8. QED
    BY <1>1, <1>2, <1>4, <2>1, <2>3, <2>5, <2>6, <2>7, SenderStep
<1>5. QED
  BY <1>2, <1>3, <1>4

\* What is left of a sequence without its first element is one place further on.
LEMMA OneFurther ==
  ASSUME NEW S, NEW c \in Seq(S), c # <<>>
  PROVE  /\ 1 \in DOMAIN c /\ Head(c) = c[1]
         /\ \A i \in DOMAIN Tail(c) :
              i \in Nat /\ i + 1 \in DOMAIN c /\ 1 < i + 1 /\ Tail(c)[i] = c[i + 1]
<1>1. /\ Len(c) \in Nat \ {0} /\ DOMAIN c = 1 .. Len(c) /\ Head(c) = c[1]
      /\ DOMAIN Tail(c) = 1 .. (Len(c) - 1)
      /\ \A i \in 1 .. (Len(c) - 1) : Tail(c)[i] = c[i + 1]
  BY HeadTailProperties, EmptySeq, LenProperties
<1>2. QED
  BY <1>1

\* The first of the chunks that wait is posted.
LEMMA WaitingKeeps ==
  ASSUME StepLogInv, NEW x \in Executions, PostWaiting(x)
  PROVE  LifeInv' /\ OrderInv' /\ AccountInv'
<1> DEFINE v == writer[x]
           O == Own(x)
           n == lines[x]
<1>1. /\ Alive(x) /\ v.post = NoPost /\ phase # "exited" /\ v.waiting # <<>>
      /\ UNCHANGED <<kind, life, attempt, phase, lines, late, rows, lost>>
  BY DEF PostWaiting, Posting, Alive
<1>2. PICK w : /\ Turns(x, w) /\ w.buffer = v.buffer /\ w.sequence = v.sequence
               /\ w.waiting = Tail(v.waiting)
               /\ w.post = [chunk |-> Head(v.waiting).chunk,
                            sequence |-> Head(v.waiting).sequence, tries |-> 1]
  BY WaitingShape DEF StepLogInv
<1>3. /\ kind # "structured" /\ Begun(x)
      /\ kind = "silent" => v.buffer = <<>>
  BY <1>1, SendsBegun DEF StepLogInv, LifeInv, Quiet
<1>4. ~(kind = "silent" /\ phase = "running" /\ x = Now)
  BY <1>1 DEF StepLogInv, OrderInv, Quiet
<1>5. ASSUME kind # "live" PROVE InOrder(O, w, n)
  <2>1. SentInOrder(O) /\ WaitingInOrder(O, v) /\ kind = "silent"
    BY <1>1, <1>3, <1>5, AliveInOrder DEF InOrder, StepLogInv, TypeInv
  <2>2. v.waiting \in Seq(Waiting)
    BY RowFacts, WriterFacts DEF StepLogInv
  <2> HIDE DEF v, O, n
  <2>3. /\ 1 \in DOMAIN v.waiting /\ Head(v.waiting) = v.waiting[1]
        /\ \A i \in DOMAIN w.waiting : /\ i \in Nat /\ i + 1 \in DOMAIN v.waiting /\ 1 < i + 1
                                       /\ w.waiting[i] = v.waiting[i + 1]
    BY <1>1, <1>2, <2>2, OneFurther
  <2>4. /\ w.post.chunk = v.waiting[1].chunk /\ w.post.sequence = v.waiting[1].sequence
        /\ \A r \in O : r.key[2] \in Nat
        /\ v.waiting[1].sequence \in Nat
    <3>1. v.waiting[1] \in Waiting
      BY <2>2, <2>3, ElementOfSeq
    <3>2. QED
      BY <1>2, <2>3, <3>1, OwnFacts DEF StepLogInv, Waiting, O
  <2>8. \A i \in DOMAIN v.waiting : \A r \in O :
           r.key[2] < v.waiting[i].sequence /\ Before(r.chunk, v.waiting[i].chunk)
    BY <2>1 DEF WaitingInOrder
  <2>9. \A i, j \in DOMAIN v.waiting :
           i < j => /\ v.waiting[i].sequence < v.waiting[j].sequence
                    /\ Before(v.waiting[i].chunk, v.waiting[j].chunk)
    BY <2>1 DEF WaitingInOrder
  <2>5. PostInOrder(O, w.post)
    <3> SUFFICES ASSUME NEW r \in O
                 PROVE  /\ r.key[2] <= w.post.sequence
                        /\ r.key[2] < w.post.sequence => Before(r.chunk, w.post.chunk)
                        /\ r.key[2] = w.post.sequence => r.chunk = w.post.chunk
      BY DEF PostInOrder
    <3>1. r.key[2] < w.post.sequence /\ Before(r.chunk, w.post.chunk)
      BY <2>3, <2>4, <2>8
    <3>2. r.key[2] \in Nat /\ w.post.sequence \in Nat
      BY <2>4
    <3>3. QED
      BY <3>1, <3>2
  <2>6. WaitingInOrder(O, w)
    <3> SUFFICES ASSUME NEW i \in DOMAIN w.waiting
                 PROVE  /\ \A r \in O : r.key[2] < w.waiting[i].sequence /\ Before(r.chunk, w.waiting[i].chunk)
                        /\ w.post # NoPost => /\ w.post.sequence < w.waiting[i].sequence
                                              /\ Before(w.post.chunk, w.waiting[i].chunk)
                        /\ \A j \in DOMAIN w.waiting :
                             i < j => /\ w.waiting[i].sequence < w.waiting[j].sequence
                                      /\ Before(w.waiting[i].chunk, w.waiting[j].chunk)
      BY DEF WaitingInOrder
    <3>1. i \in Nat /\ i + 1 \in DOMAIN v.waiting /\ w.waiting[i] = v.waiting[i + 1] /\ 1 < i + 1
      BY <2>3
    <3>3. \A r \in O : r.key[2] < w.waiting[i].sequence /\ Before(r.chunk, w.waiting[i].chunk)
      BY <2>8, <3>1
    <3>4. /\ w.post.sequence < w.waiting[i].sequence
          /\ Before(w.post.chunk, w.waiting[i].chunk)
      BY <2>3, <2>4, <2>9, <3>1
    <3>5. ASSUME NEW j \in DOMAIN w.waiting, i < j
          PROVE  /\ w.waiting[i].sequence < w.waiting[j].sequence
                 /\ Before(w.waiting[i].chunk, w.waiting[j].chunk)
      <4>1. j + 1 \in DOMAIN v.waiting /\ w.waiting[j] = v.waiting[j + 1] /\ j \in Nat
        BY <2>3, <3>5
      <4>2. /\ v.waiting[i + 1].sequence < v.waiting[j + 1].sequence
            /\ Before(v.waiting[i + 1].chunk, v.waiting[j + 1].chunk)
        <5>1. i + 1 < j + 1
          BY <3>1, <3>5, <4>1
        <5>2. QED
          BY <2>9, <3>1, <4>1, <5>1
      <4>3. QED
        BY <3>1, <4>1, <4>2
    <3>6. QED
      BY <3>3, <3>4, <3>5
  <2>7. QED
    BY <2>1, <2>5, <2>6 DEF InOrder
<1>6. \A y \in Executions : Own(y)' = Own(y)
  BY <1>1 DEF Own
<1>7. Own(x)' = O /\ lines' = lines
  BY <1>1, <1>6
<1> HIDE DEF v, O
<1>8. QED
  BY <1>1, <1>2, <1>3, <1>4, <1>5, <1>6, <1>7, SenderStep

-----------------------------------------------------------------------------
\* The order of a sender whose post is answered, given up or sent again.
LEMMA LessInOrder ==
  ASSUME NEW O, NEW v, NEW w, NEW n, InOrder(O, v, n), v.post # NoPost,
         w.buffer = v.buffer, w.sequence = v.sequence, w.waiting \in {v.waiting, <<>>},
         \/ w.post = NoPost
         \/ w.post # NoPost /\ w.post.chunk = v.post.chunk /\ w.post.sequence = v.post.sequence
  PROVE  InOrder(O, w, n)
<1>1. PostInOrder(O, w.post)
  BY DEF InOrder, PostInOrder
<1>2. ASSUME BufferInOrder(O, v, n) PROVE BufferInOrder(O, w, n)
  BY <1>2 DEF BufferInOrder
<1>3. ASSUME WaitingInOrder(O, v) PROVE WaitingInOrder(O, w)
  <2>1. CASE w.waiting = v.waiting
    BY <1>3, <2>1 DEF WaitingInOrder
  <2>2. CASE w.waiting = <<>>
    BY <2>2 DEF WaitingInOrder
  <2>3. QED
    BY <2>1, <2>2
<1>4. QED
  BY <1>1, <1>2, <1>3 DEF InOrder

\* The row of a post is in order with what its execution has sent.
LEMMA RowInOrder ==
  ASSUME StepLogInv, NEW x \in Executions, Alive(x), Posting(x), kind # "live"
  PROVE  InOrder(Own(x) \cup {Row(x)}, writer[x], lines[x])
<1>1. /\ Own(x) \in SUBSET RowType /\ Row(x) \in RowType /\ writer[x] \in Writer
      /\ Row(x).key[2] = writer[x].post.sequence /\ Row(x).chunk = writer[x].post.chunk
      /\ writer[x].post # NoPost
  BY OwnFacts, RowFacts DEF StepLogInv, Posting
<1>2. InOrder(Own(x), writer[x], lines[x])
  BY AliveInOrder DEF StepLogInv
<1>3. PICK O \in SUBSET RowType : O = Own(x)
  BY <1>1
<1>4. PICK r \in RowType : r = Row(x)
  BY <1>1
<1>5. PICK v \in Writer : v = writer[x]
  BY <1>1
<1>6. v.post # NoPost /\ r.key[2] = v.post.sequence /\ r.chunk = v.post.chunk /\ InOrder(O, v, lines[x])
  BY <1>1, <1>2, <1>3, <1>4, <1>5
<1>7. SentInOrder(O) /\ PostInOrder(O, v.post)
  BY <1>6 DEF InOrder
<1>8. InOrder(O \cup {r}, v, lines[x])
  BY <1>6, <1>7, OneMoreInOrder DEF InOrder
<1>9. QED
  BY <1>3, <1>4, <1>5, <1>8

\* What holds after a post is answered, given up or sent again.
LEMMA PostStep ==
  ASSUME StepLogInv, NEW x \in Executions, NEW w, Turns(x, w), Alive(x), Posting(x),
         UNCHANGED <<kind, life, attempt, phase, lines>>,
         w.buffer = writer[x].buffer, w.sequence = writer[x].sequence,
         w.waiting \in {writer[x].waiting, <<>>},
         \/ w.post = NoPost
         \/ /\ w.post # NoPost /\ w.post.chunk = writer[x].post.chunk
            /\ w.post.sequence = writer[x].post.sequence,
         rows \subseteq rows', lost \subseteq lost',
         rows' \cup late' \subseteq rows \cup late \cup {Row(x)},
         kind = "structured" => \A n \in 1 .. lines[x] : Accounted(x, n)'
  PROVE  LifeInv' /\ OrderInv' /\ AccountInv'
<1> DEFINE v == writer[x]
<1>1. /\ Begun(x) /\ phase # "exited" /\ v.post # NoPost
      /\ kind = "structured" => v.waiting = <<>>
      /\ kind = "silent" => v.buffer = <<>>
      /\ ~(kind = "silent" /\ phase = "running" /\ x = Now)
  BY SendsBegun DEF StepLogInv, LifeInv, OrderInv, Quiet, Posting, Alive
<1>2. /\ \A y \in Executions : y # x => Own(y)' \subseteq Own(y)
      /\ Own(x)' \subseteq Own(x) \cup {Row(x)}
  BY RowFacts, OthersStay DEF StepLogInv
<1>3. PICK P : P = Own(x)'
  OBVIOUS
<1>4. ASSUME kind # "live" PROVE InOrder(P, w, lines[x])
  <2>1. PICK O : O = Own(x) \cup {Row(x)}
    OBVIOUS
  <2>2. InOrder(O, v, lines[x]) /\ P \in SUBSET O
    BY <1>2, <1>3, <1>4, <2>1, RowInOrder
  <2> HIDE DEF v
  <2>3. InOrder(P, v, lines[x])
    BY <2>2, FewerInOrder DEF InOrder
  <2>4. /\ w.buffer = v.buffer /\ w.sequence = v.sequence /\ w.waiting \in {v.waiting, <<>>}
        /\ \/ w.post = NoPost
           \/ w.post # NoPost /\ w.post.chunk = v.post.chunk /\ w.post.sequence = v.post.sequence
    BY DEF v
  <2>5. QED
    BY <1>1, <2>3, <2>4, LessInOrder
<1>5. lines' = lines
  OBVIOUS
<1>6. kind = "structured" => w.waiting = <<>>
  BY <1>1
<1>7. kind = "silent" => w.buffer = <<>>
  BY <1>1
<1> HIDE DEF v
<1>8. QED
  BY <1>1, <1>2, <1>3, <1>4, <1>5, <1>6, <1>7, SenderStep

\* A row whose number is taken: by the same lines, or by an earlier life.
LEMMA NumberTaken ==
  ASSUME StepLogInv, NEW x \in Executions, Alive(x), Posting(x), kind = "structured",
         NEW q \in rows, q.key = Row(x).key
  PROVE  \/ q.by = x /\ q.chunk = writer[x].post.chunk
         \/ q.by[2] = x[2] /\ q.by[1] < x[1]
<1>1. /\ q \in RowType /\ q.by \in Executions /\ q.key[1] = q.by[2]
      /\ Row(x).key[1] = x[2] /\ Row(x).key[2] = writer[x].post.sequence
  BY RowFacts DEF StepLogInv, TypeInv, RowType
<1>2. CASE q.by = x
  <2>1. q \in Own(x) /\ PostInOrder(Own(x), writer[x].post)
    BY <1>2, AliveInOrder DEF Own, StepLogInv, InOrder
  <2>2. QED
    BY <1>1, <1>2, <2>1 DEF PostInOrder, Posting
<1>3. CASE q.by # x
  <2>1. Begun(q.by)
    BY <1>1, SendsBegun DEF Own
  <2>2. PICK y \in Executions : y = q.by
    BY <1>1
  <2>3. y[2] = x[2] /\ y # x
    BY <1>1, <1>3, <2>2
  <2>4. y[1] # x[1] /\ y[1] \in Nat /\ x[1] \in Nat
    BY <2>3 DEF Executions
  <2>5. QED
    BY <2>1, <2>2, <2>3, <2>4 DEF Begun, Alive, StepLogInv, TypeInv
<1>4. QED
  BY <1>2, <1>3

\* A post arrives.
LEMMA DeliveredKeeps ==
  ASSUME StepLogInv, NEW x \in Executions, Delivered(x)
  PROVE  LifeInv' /\ OrderInv' /\ AccountInv'
<1> DEFINE v == writer[x]
<1>1. /\ Alive(x) /\ Posting(x) /\ rows' = Stored(Row(x))
      /\ UNCHANGED <<kind, life, attempt, phase, lines, late, lost>>
  BY DEF Delivered
<1>2. PICK w : /\ Turns(x, w) /\ w.buffer = v.buffer /\ w.waiting = v.waiting
               /\ w.sequence = v.sequence /\ w.post = NoPost
  BY DeliveredShape DEF StepLogInv
<1>3. rows \subseteq rows' /\ rows' \subseteq rows \cup {Row(x)}
  BY <1>1, StoredFacts
<1>4. /\ writer'[x] = w /\ Row(x).by = x /\ Row(x).chunk = v.post.chunk
  BY <1>2, RowFacts DEF Turns, StepLogInv, TypeInv
<1>5. ASSUME kind = "structured", NEW n \in 1 .. lines[x] PROVE Accounted(x, n)'
  <2>1. Accounted(x, n)
    BY <1>5 DEF StepLogInv, AccountInv
  <2>2. CASE n \in ToSet(v.post.chunk)
    <3>1. CASE Row(x) \in rows'
      <4>1. <<x, n>> \in Of(Row(x).by, Row(x).chunk)
        BY <1>4, <2>2 DEF Of
      <4>2. QED
        BY <3>1, <4>1 DEF Accounted, InRows
    <3>2. CASE Row(x) \notin rows'
      <4>1. PICK q \in rows : q.key = Row(x).key
        BY <1>1, <3>2 DEF Stored
      <4>2. CASE q.by = x /\ q.chunk = v.post.chunk
        <5>1. <<x, n>> \in Of(q.by, q.chunk) /\ q \in rows'
          BY <1>3, <2>2, <4>2 DEF Of
        <5>2. QED
          BY <5>1 DEF Accounted, InRows
      <4>3. CASE q.by[2] = x[2] /\ q.by[1] < x[1]
        BY <1>3, <4>3 DEF Accounted, NumberUsedBefore
      <4>4. QED
        BY <1>1, <1>5, <4>1, <4>2, <4>3, NumberTaken
    <3>3. QED
      BY <3>1, <3>2
  <2>3. CASE n \notin ToSet(v.post.chunk)
    BY <1>1, <1>2, <1>3, <1>4, <2>1, <2>3 DEF Accounted, InRows, NumberUsedBefore
  <2>4. QED
    BY <2>2, <2>3
<1>6. rows' \cup late' \subseteq rows \cup late \cup {Row(x)}
  BY <1>1, <1>3
<1>7. QED
  BY <1>1, <1>2, <1>3, <1>5, <1>6, PostStep

\* A post fails.
LEMMA FailsKeeps ==
  ASSUME StepLogInv, NEW x \in Executions, Fails(x),
         UNCHANGED <<kind, life, attempt, phase, lines, rows>>, late' \subseteq late \cup {Row(x)}
  PROVE  LifeInv' /\ OrderInv' /\ AccountInv'
<1> DEFINE v == writer[x]
<1>1. Alive(x) /\ Posting(x)
  BY DEF Fails
<1>2. PICK w : /\ Turns(x, w) /\ w.buffer = v.buffer /\ w.sequence = v.sequence
               /\ \/ /\ w.waiting = v.waiting /\ w.post # NoPost
                     /\ w.post.chunk = v.post.chunk /\ w.post.sequence = v.post.sequence
                  \/ /\ w.waiting \in {v.waiting, <<>>} /\ w.post = NoPost
                     /\ Of(x, v.post.chunk) \subseteq lost'
  BY FailsShape DEF StepLogInv
<1>3. lost \subseteq lost'
  BY FailsShape DEF StepLogInv
<1>4. writer'[x] = w
  BY <1>2 DEF Turns, StepLogInv, TypeInv
<1>5. ASSUME kind = "structured", NEW n \in 1 .. lines[x] PROVE Accounted(x, n)'
  <2>1. Accounted(x, n)
    BY <1>5 DEF StepLogInv, AccountInv
  <2>2. CASE n \in ToSet(v.post.chunk)
    <3>1. <<x, n>> \in Of(x, v.post.chunk)
      BY <2>2 DEF Of
    <3>2. CASE w.post.chunk = v.post.chunk
      BY <1>4, <2>2, <3>2 DEF Accounted
    <3>3. CASE Of(x, v.post.chunk) \subseteq lost'
      BY <3>1, <3>3 DEF Accounted
    <3>4. QED
      BY <1>2, <3>2, <3>3
  <2>3. CASE n \notin ToSet(v.post.chunk)
    BY <1>2, <1>3, <1>4, <2>1, <2>3 DEF Accounted, InRows, NumberUsedBefore
  <2>4. QED
    BY <2>2, <2>3
<1>6. rows' \cup late' \subseteq rows \cup late \cup {Row(x)} /\ rows \subseteq rows'
  OBVIOUS
<1>7. w.waiting \in {v.waiting, <<>>}
  BY <1>2
<1>8. \/ w.post = NoPost
      \/ w.post # NoPost /\ w.post.chunk = v.post.chunk /\ w.post.sequence = v.post.sequence
  BY <1>2
<1>9. QED
  BY <1>1, <1>2, <1>3, <1>5, <1>6, <1>7, <1>8, PostStep

-----------------------------------------------------------------------------
(* The steps of the sink and of the orchestrator.                             *)

\* A post that was given up is handled after all, or not: it is still the execution's.
LEMMA LateKeeps ==
  ASSUME StepLogInv, NEW row \in late, NEW handled \in BOOLEAN, LateHandled(row, handled)
  PROVE  LifeInv' /\ OrderInv' /\ AccountInv'
<1>1. rows \subseteq rows' /\ rows' \subseteq rows \cup {row} /\ late' \subseteq late
  BY StoredFacts DEF LateHandled
<1>2. \A y \in Executions : Own(y)' \subseteq Own(y)
  BY <1>1 DEF Own
<1>3. UNCHANGED <<kind, life, attempt, writer, lines, phase, lost>>
  BY DEF LateHandled
<1>4. QED
  BY <1>1, <1>2, <1>3, StillStep

\* The step ends without a fallback, or after it.
LEMMA EndKeeps ==
  ASSUME StepLogInv, phase \notin {"exited"}, phase' = "idle",
         UNCHANGED <<kind, life, attempt, lines, writer, late, rows, lost>>
  PROVE  LifeInv' /\ OrderInv' /\ AccountInv'
<1>1. \A y \in Executions : Own(y)' \subseteq Own(y)
  BY DEF Own
<1>2. QED
  BY <1>1, StillStep

\* The fallback has the lines of the log: nothing of the execution is sent before.
LEMMA SucceedsKeeps ==
  ASSUME StepLogInv, StepSucceeds
  PROVE  LifeInv' /\ OrderInv' /\ AccountInv'
<1>1. /\ phase = "running" /\ UNCHANGED <<kind, life, attempt, lines, late, rows, lost>>
  BY DEF StepSucceeds
<1>2. CASE writer' = writer /\ phase' = "idle"
  BY <1>1, <1>2, EndKeeps
<1>3. ASSUME phase' = "fallback", kind = "structured" => lines[Now] = 0,
             NEW w, Turns(Now, w), w.buffer = writer[Now].buffer, w.sequence = writer[Now].sequence,
             w.post = writer[Now].post, w.waiting = FileChunks(lines[Now])
      PROVE  LifeInv' /\ OrderInv' /\ AccountInv'
  <2>1. PICK x \in Executions : x = Now /\ x[1] = life /\ x[2] = attempt
    BY NowFacts DEF StepLogInv
  <2>2. Alive(x) /\ Begun(x) /\ lines[x] \in Nat
    BY <1>1, <2>1 DEF Alive, Begun, StepLogInv, TypeInv
  <2>3. /\ kind = "structured" => w.waiting = <<>>
        /\ kind = "silent" => w.buffer = <<>>
    BY <1>3, <2>1, <2>2, FileChunksFacts DEF StepLogInv, LifeInv
  <2>4. \A y \in Executions : Own(y)' = Own(y)
    BY <1>1 DEF Own
  <2>5. Own(x)' = Own(x) /\ lines' = lines
    BY <1>1, <2>4
  <2>6. ASSUME kind # "live" PROVE InOrder(Own(x), w, lines[x])
    <3>1. InOrder(Own(x), writer[x], lines[x])
      BY <2>2, <2>6, AliveInOrder DEF StepLogInv
    <3>2. ASSUME kind = "structured" PROVE BufferInOrder(Own(x), w, lines[x])
      BY <1>3, <2>1, <3>1, <3>2 DEF InOrder, BufferInOrder
    <3>3. ASSUME kind = "silent" PROVE WaitingInOrder(Own(x), w)
      <4>1. Own(x) = {} /\ w.post = NoPost
        BY <1>1, <1>3, <2>1, <3>3 DEF StepLogInv, OrderInv, Quiet
      <4>2. \A i, j \in DOMAIN w.waiting :
              i < j => /\ w.waiting[i].sequence < w.waiting[j].sequence
                       /\ Before(w.waiting[i].chunk, w.waiting[j].chunk)
        BY <1>3, <2>1, <2>2, FileChunksFacts
      <4>3. QED
        BY <4>1, <4>2 DEF WaitingInOrder
    <3>4. QED
      BY <1>3, <2>1, <3>1, <3>2, <3>3 DEF InOrder
  <2>7. kind = "structured" => \A n \in 1 .. lines[x] : Accounted(x, n)'
    BY <1>3, <2>1, <2>2
  <2>8. Turns(x, w)
    BY <1>3, <2>1
  <2>9. QED
    BY <1>1, <1>3, <2>2, <2>3, <2>4, <2>5, <2>6, <2>7, <2>8, SenderStep
<1>4. QED
  BY <1>2, <1>3, SucceedsShape DEF StepLogInv

\* The next execution runs: nothing of it has been sent, and nobody else sends.
LEMMA BeginsStep ==
  ASSUME StepLogInv, UNCHANGED <<kind, lines, late, rows, lost>>,
         \A y \in Executions : Begun(y) => Begun(y)',
         \A y \in Executions : writer'[y] = writer[y] \/ (Quiet(writer[y]) /\ Quiet(writer'[y])),
         \A y \in Executions : Alive(y)' => \/ Alive(y) /\ writer'[y] = writer[y]
                                            \/ Quiet(writer'[y]) /\ Own(y) = {},
         \A y \in Executions : ~Alive(y)' => Quiet(writer'[y]),
         kind = "silent" /\ phase' = "running" =>
           \E x \in Executions : x = Now' /\ Own(x) = {} /\ Quiet(writer'[x])
  PROVE  LifeInv' /\ OrderInv' /\ AccountInv'
<1>1. \A y \in Executions : Own(y)' = Own(y)
  BY DEF Own
<1>2. LifeInv'
  BY <1>1 DEF StepLogInv, LifeInv, Quiet
<1>3. ASSUME kind # "live", NEW y \in Executions PROVE SenderInOrder(y)'
  <2>1. SenderInOrder(y)
    BY <1>3 DEF StepLogInv, OrderInv
  <2>2. PICK O : O = Own(y)
    OBVIOUS
  <2>3. CASE Quiet(writer'[y])
    <3>1. DOMAIN <<>> = {} /\ ToSet(<<>>) = {}
      BY DEF ToSet
    <3>2. PostInOrder(O, writer'[y].post) /\ WaitingInOrder(O, writer'[y])
      BY <2>3, <3>1 DEF Quiet, PostInOrder, WaitingInOrder
    <3>3. ASSUME kind = "structured", Alive(y)' PROVE BufferInOrder(O, writer'[y], lines[y])
      <4>1. CASE O = {}
        BY <2>3, <3>1, <4>1 DEF Quiet, BufferInOrder, Within
      <4>2. CASE Alive(y) /\ writer'[y] = writer[y]
        <5>1. BufferInOrder(O, writer[y], lines[y])
          BY <2>1, <2>2, <3>3, <4>2 DEF SenderInOrder
        <5>2. QED
          BY <4>2, <5>1
      <4>3. QED
        BY <2>2, <3>3, <4>1, <4>2
    <3>4. QED
      BY <1>1, <2>1, <2>2, <3>2, <3>3 DEF SenderInOrder
  <2>4. CASE writer'[y] = writer[y] /\ ~Quiet(writer'[y])
    BY <1>1, <2>1, <2>4 DEF SenderInOrder
  <2>5. QED
    BY <2>3, <2>4
<1>4. OrderInv'
  <2>1. ASSUME kind = "silent", phase' = "running" PROVE Own(Now)' = {} /\ Quiet(writer[Now])'
    <3>1. PICK x \in Executions : x = Now' /\ Own(x) = {} /\ Quiet(writer'[x])
      BY <2>1
    <3>2. Own(x)' = {}
      BY <1>1, <3>1
    <3>3. QED
      BY <3>1, <3>2 DEF Own
  <2>2. QED
    BY <1>3, <2>1 DEF OrderInv
<1>5. AccountInv'
  <2> SUFFICES ASSUME kind = "structured", NEW y \in Executions, NEW n \in 1 .. lines[y]
               PROVE  Accounted(y, n)'
    BY DEF AccountInv
  <2>1. Accounted(y, n)
    BY DEF StepLogInv, AccountInv
  <2>2. CASE writer'[y] = writer[y]
    BY <2>1, <2>2, AccountStays
  <2>3. CASE writer'[y] # writer[y]
    BY <2>1, <2>3 DEF Quiet, Accounted, InRows, NumberUsedBefore
  <2>4. QED
    BY <2>2, <2>3
<1>6. QED
  BY <1>2, <1>4, <1>5

-----------------------------------------------------------------------------
\* The attempt that a rework starts.
LEMMA RetriesKeeps ==
  ASSUME StepLogInv, Retries
  PROVE  LifeInv' /\ OrderInv' /\ AccountInv'
<1>1. /\ phase = "idle" /\ attempt < MaxAttempts /\ attempt' = attempt + 1 /\ phase' = "running"
      /\ UNCHANGED <<kind, life, lines, writer, late, rows, lost>>
      /\ life \in 1 .. MaxLives /\ attempt \in 1 .. MaxAttempts
  BY DEF Retries, StepLogInv, TypeInv
<1>2. \A y \in Executions : Begun(y) => Begun(y)'
  BY <1>1 DEF Begun, Executions
<1>3. \A y \in Executions : ~Alive(y) => Quiet(writer[y])
  BY DEF StepLogInv, LifeInv
<1>4. \E x \in Executions : x = Now' /\ Own(x) = {} /\ Quiet(writer'[x])
  <2>1. PICK x \in Executions : x = <<life, attempt + 1>>
    <3>1. MaxAttempts \in Nat /\ attempt \in Nat
      BY <1>1
    <3>2. attempt + 1 \in 1 .. MaxAttempts
      BY <1>1, <3>1
    <3>3. QED
      BY <1>1, <3>2 DEF Executions
  <2>2. ~Begun(x)
    BY <1>1, <2>1 DEF Begun
  <2>3. QED
    <3>1. x = Now'
      BY <1>1, <2>1 DEF Now
    <3>2. Own(x) = {} /\ Quiet(writer[x])
      BY <2>2 DEF StepLogInv, LifeInv
    <3>3. Quiet(writer'[x])
      BY <1>1, <3>2 DEF Quiet
    <3>4. QED
      BY <3>1, <3>2, <3>3
<1>5. \A y \in Executions : writer'[y] = writer[y] \/ (Quiet(writer[y]) /\ Quiet(writer'[y]))
  BY <1>1
<1>6. \A y \in Executions : Alive(y)' => \/ Alive(y) /\ writer'[y] = writer[y]
                                         \/ Quiet(writer'[y]) /\ Own(y) = {}
  BY <1>1 DEF Alive
<1>7. \A y \in Executions : ~Alive(y)' => Quiet(writer'[y])
  BY <1>1, <1>3 DEF Alive
<1>8. UNCHANGED <<kind, lines, late, rows, lost>>
  BY <1>1
<1>9. kind = "silent" /\ phase' = "running" =>
        \E x \in Executions : x = Now' /\ Own(x) = {} /\ Quiet(writer'[x])
  BY <1>4
<1>10. QED
  BY <1>2, <1>5, <1>6, <1>7, <1>8, <1>9, BeginsStep

\* The life that a resume starts.
LEMMA ResumesKeeps ==
  ASSUME StepLogInv, Resumes
  PROVE  LifeInv' /\ OrderInv' /\ AccountInv'
<1>1. /\ phase = "exited" /\ life < MaxLives /\ life' = life + 1 /\ attempt' = 1 /\ phase' = "running"
      /\ writer' = [writer EXCEPT ![<<life + 1, 1>>] = NewWriter]
      /\ UNCHANGED <<kind, lines, late, rows, lost>>
      /\ life \in 1 .. MaxLives /\ attempt \in 1 .. MaxAttempts
      /\ writer \in [Executions -> Writer]
  BY DEF Resumes, StepLogInv, TypeInv
<1>2. PICK x \in Executions : x = <<life + 1, 1>>
  BY <1>1 DEF Executions
<1>3. \A y \in Executions : Quiet(writer[y])
  BY <1>1 DEF StepLogInv, LifeInv, Alive
<1>4. \A y \in Executions : Quiet(writer'[y])
  BY <1>1, <1>2, <1>3, NewWriterType
<1>5. \A y \in Executions : Begun(y) => Begun(y)'
  BY <1>1 DEF Begun, Executions
<1>6. ASSUME NEW y \in Executions, y[1] = life + 1 PROVE Own(y) = {}
  <2>1. ~Begun(y)
    BY <1>1, <1>6 DEF Begun
  <2>2. QED
    BY <2>1 DEF StepLogInv, LifeInv
<1>7. \A y \in Executions : Alive(y)' => Own(y) = {}
  BY <1>1, <1>6 DEF Alive
<1>8. x = Now' /\ Own(x) = {}
  BY <1>1, <1>2, <1>6 DEF Now
<1>9. QED
  BY <1>1, <1>3, <1>4, <1>5, <1>7, <1>8, BeginsStep

\* The process ends: what is under way may still arrive, the rest is lost.
LEMMA ExitsKeeps ==
  ASSUME StepLogInv, Exits
  PROVE  LifeInv' /\ OrderInv' /\ AccountInv'
<1>1. /\ phase' = "exited" /\ UNCHANGED <<kind, life, attempt, lines, rows>>
      /\ lost' = lost \cup UNION {Pending(x) : x \in Executions}
      /\ late' = late \cup {Row(x) : x \in {y \in Executions : Posting(y)}}
      /\ writer' = [x \in Executions |-> [NewWriter EXCEPT !.chain = <<>>]]
  BY DEF Exits
<1>2. \A y \in Executions : Quiet(writer'[y])
  BY <1>1, NewWriterType
<1>3. ASSUME NEW y \in Executions
      PROVE  /\ Own(y)' \subseteq Own(y) \cup {Row(y)}
             /\ ~Posting(y) => Own(y)' \subseteq Own(y)
  <2>1. \A x \in Executions : Row(x).by = x
    BY RowFacts DEF StepLogInv
  <2>2. QED
    BY <1>1, <2>1 DEF Own
<1>4. \A y \in Executions : Posting(y) => Begun(y) /\ Alive(y)
  BY SendsBegun DEF StepLogInv, LifeInv, Quiet, Posting
<1>5. \A y \in Executions : ~Alive(y)' /\ Begun(y)' = Begun(y)
  BY <1>1 DEF Alive, Begun
<1>6. LifeInv'
  <2> SUFFICES ASSUME NEW y \in Executions PROVE ~Begun(y) => Own(y)' = {} /\ lines[y] = 0
    BY <1>1, <1>2, <1>5 DEF LifeInv, Quiet
  <2>1. QED
    BY <1>3, <1>4 DEF StepLogInv, LifeInv
<1>7. ASSUME kind # "live", NEW y \in Executions PROVE SenderInOrder(y)'
  <2>1. PICK P : P = Own(y)'
    OBVIOUS
  <2>2. SentInOrder(P)
    <3>1. CASE Posting(y)
      <4>1. PICK O : O = Own(y) \cup {Row(y)}
        OBVIOUS
      <4>2. SentInOrder(O) /\ P \in SUBSET O
        BY <1>3, <1>4, <1>7, <2>1, <3>1, <4>1, RowInOrder DEF InOrder
      <4>3. QED
        BY <4>2, FewerInOrder
    <3>2. CASE ~Posting(y)
      <4>1. SentInOrder(Own(y)) /\ P \in SUBSET Own(y)
        BY <1>3, <1>7, <2>1, <3>2 DEF StepLogInv, OrderInv, SenderInOrder
      <4>2. QED
        BY <4>1, FewerInOrder
    <3>3. QED
      BY <3>1, <3>2
  <2>3. DOMAIN <<>> = {}
    OBVIOUS
  <2>4. PostInOrder(P, writer'[y].post) /\ WaitingInOrder(P, writer'[y])
    BY <1>2, <2>3 DEF Quiet, PostInOrder, WaitingInOrder
  <2>5. QED
    BY <1>5, <2>1, <2>2, <2>4 DEF SenderInOrder
<1>8. OrderInv'
  BY <1>1, <1>7 DEF OrderInv
<1>9. AccountInv'
  <2> SUFFICES ASSUME kind = "structured", NEW y \in Executions, NEW n \in 1 .. lines[y]
               PROVE  Accounted(y, n)'
    BY <1>1 DEF AccountInv
  <2>1. Accounted(y, n)
    BY DEF StepLogInv, AccountInv
  <2>2. ASSUME n \in ToSet(writer[y].buffer) \/ n \in ToSet(writer[y].post.chunk)
        PROVE  <<y, n>> \in lost'
    <3>1. <<y, n>> \in Pending(y)
      BY <2>2 DEF Pending, Of
    <3>2. QED
      BY <1>1, <3>1
  <2>3. QED
    BY <1>1, <2>1, <2>2 DEF Accounted, InRows, NumberUsedBefore
<1>10. QED
  BY <1>6, <1>8, <1>9

-----------------------------------------------------------------------------
(* The invariant, and what follows from it.                                   *)

\* Nothing has been written or sent when the step starts.
LEMMA StepLogInit == Init => StepLogInv
<1> SUFFICES ASSUME Init PROVE StepLogInv
  OBVIOUS
<1>1. TypeInv
  BY TypeInit
<1>2. /\ \A x \in Executions : writer[x] = NewWriter /\ lines[x] = 0 /\ Own(x) = {}
      /\ rows = {} /\ late = {}
  BY DEF Init, Own
<1>3. \A x \in Executions : Quiet(writer[x])
  BY <1>2, NewWriterType
<1>4. DOMAIN <<>> = {} /\ ToSet(<<>>) = {}
  BY DEF ToSet
<1>5. LifeInv
  BY <1>2, <1>3 DEF LifeInv, Quiet
<1>6. OrderInv
  <2>1. ASSUME NEW x \in Executions PROVE SenderInOrder(x)
    <3>1. SentInOrder({}) /\ PostInOrder({}, writer[x].post)
      BY DEF SentInOrder, PostInOrder
    <3>2. BufferInOrder({}, writer[x], lines[x]) /\ WaitingInOrder({}, writer[x])
      BY <1>3, <1>4 DEF Quiet, BufferInOrder, WaitingInOrder, Within
    <3>3. QED
      BY <1>2, <3>1, <3>2 DEF SenderInOrder
  <2>2. Own(Now) = {} /\ Quiet(writer[Now])
    BY <1>1, <1>2, <1>3, NowFacts
  <2>3. QED
    BY <2>1, <2>2 DEF OrderInv
<1>7. AccountInv
  BY <1>2 DEF AccountInv
<1>8. QED
  BY <1>1, <1>5, <1>6, <1>7 DEF StepLogInv

\* A step that changes nothing.
LEMMA StutterKeeps ==
  ASSUME StepLogInv, UNCHANGED vars
  PROVE  LifeInv' /\ OrderInv' /\ AccountInv'
<1>1. \A y \in Executions : Own(y)' \subseteq Own(y)
  BY DEF Own, vars
<1>2. QED
  BY <1>1, StillStep DEF vars

\* Every step keeps the invariant.
LEMMA StepLogNext == StepLogInv /\ [Next]_vars => StepLogInv'
<1> SUFFICES ASSUME StepLogInv, [Next]_vars PROVE StepLogInv'
  OBVIOUS
<1>1. TypeInv'
  BY TypeNext DEF StepLogInv
<1> SUFFICES LifeInv' /\ OrderInv' /\ AccountInv'
  BY <1>1 DEF StepLogInv
<1>2. CASE UNCHANGED vars
  BY <1>2, StutterKeeps
<1>3. CASE AgentWrites
  BY <1>3, AgentKeeps
<1>4. ASSUME NEW x \in Executions,
             TimerFires(x) \/ Flush(x) \/ PostWaiting(x) \/ Delivered(x) \/ Refused(x) \/ TimesOut(x)
      PROVE  LifeInv' /\ OrderInv' /\ AccountInv'
  <2>1. CASE TimerFires(x)
    BY <2>1, TimerKeeps
  <2>2. CASE Flush(x)
    BY <2>2, FlushKeeps
  <2>3. CASE PostWaiting(x)
    BY <2>3, WaitingKeeps
  <2>4. CASE Delivered(x)
    BY <2>4, DeliveredKeeps
  <2>5. CASE Refused(x)
    <3>1. /\ Fails(x) /\ UNCHANGED <<kind, life, attempt, phase, lines, rows>>
          /\ late' \subseteq late \cup {Row(x)}
      BY <2>5 DEF Refused
    <3>2. QED
      BY <3>1, FailsKeeps
  <2>6. CASE TimesOut(x)
    <3>1. /\ Fails(x) /\ UNCHANGED <<kind, life, attempt, phase, lines, rows>>
          /\ late' \subseteq late \cup {Row(x)}
      BY <2>6 DEF TimesOut
    <3>2. QED
      BY <3>1, FailsKeeps
  <2>7. QED
    BY <1>4, <2>1, <2>2, <2>3, <2>4, <2>5, <2>6
<1>5. ASSUME NEW row \in late, NEW handled \in BOOLEAN, LateHandled(row, handled)
      PROVE  LifeInv' /\ OrderInv' /\ AccountInv'
  BY <1>5, LateKeeps
<1>6. CASE StepSucceeds
  BY <1>6, SucceedsKeeps
<1>7. CASE StepFails \/ FallbackEnds
  <2>1. /\ phase \notin {"exited"} /\ phase' = "idle"
        /\ UNCHANGED <<kind, life, attempt, lines, writer, late, rows, lost>>
    BY <1>7 DEF StepFails, FallbackEnds
  <2>2. QED
    BY <2>1, EndKeeps
<1>8. CASE Retries
  BY <1>8, RetriesKeeps
<1>9. CASE Exits
  BY <1>9, ExitsKeeps
<1>10. CASE Resumes
  BY <1>10, ResumesKeeps
<1>11. QED
  BY <1>2, <1>3, <1>4, <1>5, <1>6, <1>7, <1>8, <1>9, <1>10 DEF Next

\* What an execution has had stored is in order, and its lines are accounted for.
LEMMA StepLogFollows == StepLogInv => StepLogKept
<1> SUFFICES ASSUME StepLogInv PROVE StepLogKept
  OBVIOUS
<1>1. LogReadsInOrder
  <2> SUFFICES ASSUME kind # "live", NEW r \in rows, NEW q \in rows, r.by = q.by, r.key[2] < q.key[2]
               PROVE  \A m \in ToSet(r.chunk), n \in ToSet(q.chunk) : m < n
    BY DEF LogReadsInOrder
  <2>1. r.by \in Executions /\ r \in Own(r.by) /\ q \in Own(r.by)
    BY DEF StepLogInv, TypeInv, RowType, Own
  <2>2. SentInOrder(Own(r.by))
    BY <2>1 DEF StepLogInv, OrderInv, SenderInOrder
  <2>3. QED
    BY <2>1, <2>2 DEF SentInOrder, Before
<1>2. LinesAccounted
  <2> SUFFICES ASSUME kind = "structured", NEW x \in Executions, NEW n \in 1 .. lines[x]
               PROVE  <<x, n>> \in Pending(x) \/ InRows(<<x, n>>) \/ <<x, n>> \in lost \/ NumberUsedBefore(x)
    BY DEF LinesAccounted, SentLines
  <2>1. Accounted(x, n)
    BY DEF StepLogInv, AccountInv
  <2>2. QED
    BY <2>1 DEF Accounted, Pending, Of
<1>3. QED
  BY <1>1, <1>2 DEF StepLogKept

\* What the sink keeps of a step's log is in order, execution by execution, and a line that
\* is not there is known to be on its way, lost, or refused because of an earlier life.
THEOREM StepLogIsKept == Spec => []StepLogKept
BY StepLogInit, StepLogNext, StepLogFollows, PTL DEF Spec

=============================================================================
