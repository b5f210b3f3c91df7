----------------------------- MODULE LifeProofs -----------------------------
(***************************************************************************)
(* The safety of ProcessLife, for any goroutines, any finite number of     *)
(* requests and any pool size.                                             *)
(***************************************************************************)
EXTENDS ProcessLife, FiniteSetTheorems, SequenceTheorems, TLAPS

(***************************************************************************)
(* The inductive invariant: how far Run has come decides what it has and   *)
(* what it will give back, and with what settings and beside whom it runs. *)
(***************************************************************************)
AllResources == {"pool", "nats", "subscription"}

FromJoin        == <<"join", "unsubscribe", "cancel", "drain", "close">>
FromUnsubscribe == <<"unsubscribe", "cancel", "drain", "close">>
FromCancel      == <<"cancel", "drain", "close">>
FromDrain       == <<"drain", "close">>
FromClose       == <<"close">>

ResourcesFollowRun ==
  /\ run \in {"down", "open"} => deferred = <<>> /\ resources = {}
  /\ run = "connect" => deferred = FromClose /\ resources = {"pool"}
  /\ run \in {"stream", "addStream", "consumer", "addConsumer", "upsertConsumer", "consumerAgain"} =>
       deferred = FromDrain /\ resources = {"pool", "nats"}
  /\ run = "subscribe" => deferred = FromCancel /\ resources = {"pool", "nats"}
  /\ run = "hydrate" => deferred = FromCancel /\ resources = AllResources
  /\ run \in {"serve", "shutdown"} => deferred = FromJoin /\ resources = AllResources
  /\ run = "return" =>
       \/ deferred \in {FromJoin, FromUnsubscribe} /\ resources = AllResources
       \/ deferred \in {FromCancel, FromDrain} /\ resources = {"pool", "nats"}
       \/ deferred = FromClose /\ resources \in {{"pool"}, {}}
       \/ deferred = <<>> /\ resources = {}

AcceptedConsumer == consumer = "ours" \/ overwritten

Provisioned == stream = "ours" /\ AcceptedConsumer

SettingsFollowRun ==
  /\ run \in {"consumer", "addConsumer", "upsertConsumer", "consumerAgain"} => stream = "ours"
  /\ run \in {"subscribe", "hydrate", "serve", "shutdown"} => Provisioned
  /\ serverEnd # "none" => run = "down" \/ (run = "return" /\ Provisioned)

TasksFollowRun ==
  /\ \A t \in Background : task[t] # "off" =>
       run \in {"serve", "shutdown"} \/ (run = "return" /\ deferred = FromJoin)
  /\ \A r \in Requests : task[r] # "off" =>
       run \in {"serve", "shutdown"} \/ (run = "return" /\ serverEnd # "none")
  /\ \A t \in Tasks : task[t] # "off" => Provisioned

LifeInv == LifeTypeOK /\ ResourcesFollowRun /\ SettingsFollowRun /\ TasksFollowRun

-----------------------------------------------------------------------------
(***************************************************************************)
(* The queue of the pool.                                                  *)
(***************************************************************************)
IsQueueOf(q, waiting) == q \in Seq(Tasks) /\ IsInjective(q) /\ ToSet(q) = waiting

LEMMA AppendToQueue ==
  ASSUME NEW q, NEW waiting, IsQueueOf(q, waiting), NEW t \in Tasks \ waiting
  PROVE  IsQueueOf(Append(q, t), waiting \cup {t})
<1> USE DEF IsQueueOf
<1>1. /\ Append(q, t) \in Seq(Tasks)
      /\ Len(q) \in Nat
      /\ DOMAIN q = 1 .. Len(q)
      /\ DOMAIN Append(q, t) = 1 .. Len(q) + 1
      /\ \A k \in 1 .. Len(q) : Append(q, t)[k] = q[k] /\ q[k] # t
      /\ Append(q, t)[Len(q) + 1] = t
  BY DEF ToSet
<1>2. IsInjective(Append(q, t))
  BY <1>1 DEF IsInjective
<1>3. ToSet(Append(q, t)) = waiting \cup {t}
  BY <1>1 DEF ToSet
<1>4. QED
  BY <1>1, <1>2, <1>3

LEMMA TailOfQueue ==
  ASSUME NEW q, NEW waiting, IsQueueOf(q, waiting), q # <<>>
  PROVE  /\ Head(q) \in Tasks \cap waiting
         /\ IsQueueOf(Tail(q), waiting \ {Head(q)})
<1> USE DEF IsQueueOf
<1>1. /\ Tail(q) \in Seq(Tasks)
      /\ Len(q) \in Nat \ {0}
      /\ DOMAIN q = 1 .. Len(q)
      /\ DOMAIN Tail(q) = 1 .. Len(q) - 1
      /\ \A k \in 1 .. Len(q) - 1 : Tail(q)[k] = q[k + 1]
      /\ Head(q) = q[1]
  BY HeadTailProperties, EmptySeq, LenProperties
<1>2. Head(q) \in Tasks \cap waiting
  BY <1>1 DEF ToSet
<1>3. IsInjective(Tail(q))
  BY <1>1 DEF IsInjective
<1>4. ToSet(Tail(q)) = waiting \ {Head(q)}
  <2>1. waiting = {q[k] : k \in 1 .. Len(q)}
    BY <1>1 DEF ToSet
  <2>2. \A k \in 2 .. Len(q) : q[k] # q[1]
    BY <1>1 DEF IsInjective
  <2>3. ASSUME NEW x \in ToSet(Tail(q))
        PROVE  x \in waiting \ {Head(q)}
    <3>1. PICK k \in 1 .. Len(q) - 1 : x = q[k + 1]
      BY <1>1, <2>3 DEF ToSet
    <3>2. k + 1 \in 2 .. Len(q)
      BY <1>1
    <3>3. QED
      BY <1>1, <2>1, <2>2, <3>1, <3>2
  <2>4. ASSUME NEW x \in waiting \ {Head(q)}
        PROVE  x \in ToSet(Tail(q))
    <3>1. PICK k \in 1 .. Len(q) : x = q[k] /\ k # 1
      BY <1>1, <2>1, <2>4
    <3>2. k - 1 \in 1 .. Len(q) - 1 /\ Tail(q)[k - 1] = x
      BY <1>1, <3>1
    <3>3. QED
      BY <1>1, <3>2 DEF ToSet
  <2>5. QED
    BY <2>3, <2>4
<1>5. QED
  BY <1>1, <1>2, <1>3, <1>4

LEMMA RemoveFromQueue ==
  ASSUME NEW q, NEW waiting, IsQueueOf(q, waiting), NEW n \in DOMAIN q
  PROVE  IsQueueOf(RemoveAt(q, n), waiting \ {q[n]})
<1> USE DEF IsQueueOf
<1> DEFINE left == SubSeq(q, 1, n - 1)
           right == SubSeq(q, n + 1, Len(q))
<1>1. /\ Len(q) \in Nat /\ n \in 1 .. Len(q)
      /\ DOMAIN q = 1 .. Len(q)
      /\ \A k \in 1 .. Len(q) : q[k] \in Tasks
  BY LenProperties
<1>2. /\ left \in Seq(Tasks) /\ Len(left) = n - 1
      /\ \A k \in 1 .. n - 1 : left[k] = q[k]
  BY <1>1, SubSeqProperties
<1>3. /\ right \in Seq(Tasks) /\ Len(right) = Len(q) - n
      /\ \A k \in 1 .. Len(q) - n : right[k] = q[k + n]
  BY <1>1, SubSeqProperties
<1> DEFINE rest == left \o right
<1> HIDE DEF left, right
<1>4. /\ rest \in Seq(Tasks)
      /\ Len(rest) = Len(left) + Len(right)
      /\ \A k \in 1 .. Len(left) + Len(right) :
           rest[k] = IF k <= Len(left) THEN left[k] ELSE right[k - Len(left)]
  BY <1>2, <1>3, ConcatProperties
<1> HIDE DEF rest
<1>5. rest \in Seq(Tasks) /\ Len(rest) = Len(q) - 1
  BY <1>1, <1>2, <1>3, <1>4
<1>6. DOMAIN rest = 1 .. Len(q) - 1
  BY <1>5, LenProperties
<1>7. \A k \in 1 .. Len(q) - 1 : /\ k < n => rest[k] = q[k]
                                 /\ k >= n => rest[k] = q[k + 1]
  <2>1. ASSUME NEW k \in 1 .. Len(q) - 1
        PROVE  rest[k] = IF k <= n - 1 THEN left[k] ELSE right[k - (n - 1)]
    BY <1>1, <1>2, <1>3, <1>4
  <2>2. ASSUME NEW k \in 1 .. Len(q) - 1, k < n
        PROVE  rest[k] = q[k]
    BY <1>1, <1>2, <2>1, <2>2
  <2>3. ASSUME NEW k \in 1 .. Len(q) - 1, k >= n
        PROVE  rest[k] = q[k + 1]
    <3>1. k - (n - 1) \in 1 .. Len(q) - n /\ k - (n - 1) + n = k + 1
      BY <1>1, <2>3
    <3>2. rest[k] = right[k - (n - 1)]
      BY <1>1, <2>1, <2>3
    <3>3. QED
      BY <1>3, <3>1, <3>2
  <2>4. QED
    BY <2>2, <2>3
<1>8. \A j, k \in 1 .. Len(q) : q[j] = q[k] => j = k
  BY <1>1 DEF IsInjective
<1>9. IsInjective(rest)
  <2>1. ASSUME NEW j \in 1 .. Len(q) - 1, NEW k \in 1 .. Len(q) - 1, rest[j] = rest[k]
        PROVE  j = k
    <3>1. CASE j < n /\ k < n
      BY <1>1, <1>7, <1>8, <2>1, <3>1
    <3>2. CASE j < n /\ k >= n
      <4>1. q[j] = q[k + 1] /\ k + 1 \in 1 .. Len(q) /\ j \in 1 .. Len(q)
        BY <1>1, <1>7, <2>1, <3>2
      <4>2. QED
        BY <1>1, <1>8, <3>2, <4>1
    <3>3. CASE j >= n /\ k < n
      <4>1. q[j + 1] = q[k] /\ j + 1 \in 1 .. Len(q) /\ k \in 1 .. Len(q)
        BY <1>1, <1>7, <2>1, <3>3
      <4>2. QED
        BY <1>1, <1>8, <3>3, <4>1
    <3>4. CASE j >= n /\ k >= n
      <4>1. q[j + 1] = q[k + 1] /\ j + 1 \in 1 .. Len(q) /\ k + 1 \in 1 .. Len(q)
        BY <1>1, <1>7, <2>1, <3>4
      <4>2. QED
        BY <1>1, <1>8, <3>4, <4>1
    <3>5. QED
      BY <1>1, <3>1, <3>2, <3>3, <3>4
  <2>2. QED
    BY <1>6, <2>1 DEF IsInjective
<1>10. ToSet(rest) = waiting \ {q[n]}
  <2>1. ASSUME NEW k \in 1 .. Len(q) - 1
        PROVE  rest[k] \in waiting \ {q[n]}
    <3>1. \A m \in 1 .. Len(q) : m # n => q[m] \in waiting \ {q[n]}
      BY <1>1, <1>8 DEF ToSet
    <3>2. \/ k < n /\ k \in 1 .. Len(q) /\ rest[k] = q[k]
          \/ k >= n /\ k + 1 \in 1 .. Len(q) /\ k + 1 # n /\ rest[k] = q[k + 1]
      BY <1>1, <1>7
    <3>3. QED
      BY <1>1, <3>1, <3>2
  <2>2. ASSUME NEW x \in waiting \ {q[n]}
        PROVE  \E k \in 1 .. Len(q) - 1 : rest[k] = x
    <3>1. PICK m \in 1 .. Len(q) : q[m] = x /\ m # n
      BY <1>1, <2>2 DEF ToSet
    <3>2. CASE m < n
      BY <1>1, <1>7, <3>1, <3>2
    <3>3. CASE m > n
      <4>1. m - 1 \in 1 .. Len(q) - 1 /\ m - 1 >= n /\ m - 1 + 1 = m
        BY <1>1, <3>1, <3>3
      <4>2. rest[m - 1] = x
        BY <1>7, <3>1, <4>1
      <4>3. QED
        BY <4>1, <4>2
    <3>4. QED
      BY <1>1, <3>1, <3>2, <3>3
  <2>3. ToSet(rest) = {rest[k] : k \in 1 .. Len(q) - 1}
    BY <1>6 DEF ToSet
  <2>4. QED
    BY <2>1, <2>2, <2>3
<1>11. RemoveAt(q, n) = rest
  BY DEF RemoveAt, rest, left, right
<1>12. QED
  BY <1>5, <1>9, <1>10, <1>11

-----------------------------------------------------------------------------
(***************************************************************************)
(* The connections in use.                                                 *)
(***************************************************************************)
Holding(states) == {t \in Tasks : task[t] \in states}

Weight(state) == CASE state \in {"use", "lead", "leadWait"} -> 1
                   [] state = "leadUse" -> 2
                   [] OTHER -> 0

LEMMA FiniteTasks == IsFiniteSet(Tasks)
<1>1. IsFiniteSet({Election})
  BY FS_Singleton
<1>2. IsFiniteSet(Loops \cup {Election})
  BY <1>1, FS_Union, LifeAssumption
<1>3. QED
  BY <1>2, FS_Union, LifeAssumption DEF Tasks, Background

LEMMA FiniteHolding ==
  ASSUME NEW states
  PROVE  IsFiniteSet(Holding(states)) /\ Cardinality(Holding(states)) \in Nat
<1>1. Holding(states) \in SUBSET Tasks
  BY DEF Holding
<1>2. IsFiniteSet(Holding(states))
  BY <1>1, FiniteTasks, FS_Subset
<1>3. QED
  BY <1>2, FS_CardinalityType

\* One task's move changes a count by that task alone.
LEMMA HoldingMoves ==
  ASSUME NEW states, task \in [Tasks -> TaskStates], NEW t \in Tasks, NEW to \in TaskStates,
         task' = [task EXCEPT ![t] = to]
  PROVE  Cardinality(Holding(states)') =
           Cardinality(Holding(states)) - (IF task[t] \in states THEN 1 ELSE 0)
                                        + (IF to \in states THEN 1 ELSE 0)
<1> DEFINE H == Holding(states)
           rest == H \ {t}
<1>1. IsFiniteSet(H) /\ Cardinality(H) \in Nat
  BY FiniteHolding
<1>2. t \in H <=> task[t] \in states
  BY DEF Holding
<1>3. /\ IsFiniteSet(rest)
      /\ Cardinality(rest) = IF t \in H THEN Cardinality(H) - 1 ELSE Cardinality(H)
  BY <1>1, FS_RemoveElement
<1>4. H' = IF to \in states THEN rest \cup {t} ELSE rest
  BY DEF Holding
<1>5. Cardinality(rest \cup {t}) = Cardinality(rest) + 1
  BY <1>3, FS_AddElement
<1>6. QED
  BY <1>1, <1>2, <1>3, <1>4, <1>5

LEMMA InUseIsCount ==
  /\ InUse = Cardinality(Holding({"use", "lead", "leadWait"})) + 2 * Cardinality(Holding({"leadUse"}))
  /\ InUse \in Nat
<1>1. {t \in Tasks : task[t] = "leadUse"} = Holding({"leadUse"})
  BY DEF Holding
<1>2. InUse = Cardinality(Holding({"use", "lead", "leadWait"})) + 2 * Cardinality(Holding({"leadUse"}))
  BY <1>1 DEF InUse, Holding
<1>3. QED
  BY <1>2, FiniteHolding

LEMMA InUseMoves ==
  ASSUME task \in [Tasks -> TaskStates], NEW t \in Tasks, NEW to \in TaskStates,
         task' = [task EXCEPT ![t] = to]
  PROVE  InUse' = InUse - Weight(task[t]) + Weight(to)
<1> DEFINE one == Holding({"use", "lead", "leadWait"})
           two == Holding({"leadUse"})
<1>1. InUse = Cardinality(one) + 2 * Cardinality(two)
  BY InUseIsCount
<1>2. InUse' = Cardinality(one') + 2 * Cardinality(two')
  <2>1. {u \in Tasks : task'[u] = "leadUse"} = {u \in Tasks : task'[u] \in {"leadUse"}}
    OBVIOUS
  <2>2. QED
    BY <2>1 DEF InUse, Holding
<1>3. Cardinality(one') = Cardinality(one) - (IF task[t] \in {"use", "lead", "leadWait"} THEN 1 ELSE 0)
                                           + (IF to \in {"use", "lead", "leadWait"} THEN 1 ELSE 0)
  BY HoldingMoves
<1>4. Cardinality(two') = Cardinality(two) - (IF task[t] \in {"leadUse"} THEN 1 ELSE 0)
                                           + (IF to \in {"leadUse"} THEN 1 ELSE 0)
  BY HoldingMoves
<1>5. Cardinality(one) \in Nat /\ Cardinality(two) \in Nat
  BY FiniteHolding
<1>6. task[t] \in TaskStates
  OBVIOUS
<1> HIDE DEF one, two
<1>7. QED
  BY <1>1, <1>2, <1>3, <1>4, <1>5, <1>6 DEF Weight, TaskStates

-----------------------------------------------------------------------------
(***************************************************************************)
(* The pool: the part of the type invariant that its users change.         *)
(***************************************************************************)
OnlyElectionLeads == \A t \in Tasks : task[t] \in {"lead", "leadWait", "leadUse"} => t = Election

Waiters == {t \in Tasks : Waiting(t)}

PoolTypeOK ==
  /\ maxConns \in {n \in PoolSizes : PositiveInt(n)}
  /\ task \in [Tasks -> TaskStates]
  /\ OnlyElectionLeads
  /\ IsQueueOf(queue, Waiters)
  /\ InUse <= maxConns

SharedTypeOK ==
  /\ {stream, consumer} \subseteq {"none", "ours", "theirs"}
  /\ others \subseteq Rivals
  /\ overwritten \in BOOLEAN

RunTypeOK ==
  /\ run \in {"open", "connect", "stream", "addStream", "consumer", "addConsumer", "upsertConsumer",
              "consumerAgain", "subscribe", "hydrate", "serve", "shutdown", "return", "down"}
  /\ deferred \in Seq({"close", "drain", "cancel", "unsubscribe", "join"})
  /\ {signalled, cancelled} \subseteq BOOLEAN
  /\ serverEnd \in {"none", "failed", "late"}
  /\ resources \in SUBSET {"pool", "nats", "subscription"}
  /\ SharedTypeOK

LEMMA TypesSplit == LifeTypeOK <=> RunTypeOK /\ PoolTypeOK
BY DEF LifeTypeOK, RunTypeOK, SharedTypeOK, PoolTypeOK, OnlyElectionLeads, IsQueueOf, Waiters

LEMMA SizesAreNumbers ==
  ASSUME PoolTypeOK
  PROVE  maxConns \in Int /\ maxConns > 0 /\ InUse \in Nat
BY LifeAssumption, InUseIsCount DEF PoolTypeOK, PositiveInt

\* A move that fits the pool and the queue it leaves keeps the pool well typed.
LEMMA MoveKeepsPool ==
  ASSUME PoolTypeOK, NEW t \in Tasks, NEW from, NEW to \in TaskStates, Does(t, from, to),
         to \in {"lead", "leadWait", "leadUse"} => t = Election,
         InUse - Weight(from) + Weight(to) <= maxConns,
         IsQueueOf(queue', IF to \in {"wait", "leadWait"} THEN Waiters \cup {t} ELSE Waiters \ {t}),
         UNCHANGED maxConns
  PROVE  PoolTypeOK'
<1>1. /\ task \in [Tasks -> TaskStates] /\ task[t] = from
      /\ task' = [task EXCEPT ![t] = to]
  BY DEF PoolTypeOK, Does
<1>2. task' \in [Tasks -> TaskStates]
  BY <1>1
<1>3. OnlyElectionLeads'
  BY <1>1 DEF OnlyElectionLeads, PoolTypeOK
<1>4. Waiters' = IF to \in {"wait", "leadWait"} THEN Waiters \cup {t} ELSE Waiters \ {t}
  BY <1>1 DEF Waiters, Waiting
<1>5. InUse' = InUse - Weight(from) + Weight(to)
  BY <1>1, InUseMoves
<1>6. IsQueueOf(queue, Waiters)'
  BY <1>4 DEF IsQueueOf
<1>7. QED
  BY <1>2, <1>3, <1>5, <1>6 DEF PoolTypeOK

\* Nobody waits that is not in the queue.
LEMMA QueueHoldsWaiters ==
  ASSUME PoolTypeOK
  PROVE  /\ ToSet(queue) = Waiters
         /\ \A t \in Tasks : t \in Waiters <=> task[t] \in {"wait", "leadWait"}
BY DEF PoolTypeOK, IsQueueOf, Waiters, Waiting

LEMMA JoinKeepsPool ==
  ASSUME PoolTypeOK, NEW t \in Tasks, NEW from, NEW to, Does(t, from, to), Enqueue(t),
         UNCHANGED maxConns,
         \/ from \in {"off", "idle"} /\ to = "wait"
         \/ from = "lead" /\ to = "leadWait" /\ t = Election
  PROVE  PoolTypeOK'
<1>1. task[t] = from /\ to \in TaskStates /\ to \in {"wait", "leadWait"}
  BY DEF Does, TaskStates
<1>2. t \notin Waiters
  BY <1>1, QueueHoldsWaiters
<1>3. IsQueueOf(queue, Waiters)
  BY DEF PoolTypeOK
<1>4. IsQueueOf(queue', Waiters \cup {t})
  BY <1>2, <1>3, AppendToQueue DEF Enqueue
<1>5. Weight(from) = Weight(to) /\ Weight(to) \in Int
  BY DEF Weight
<1>6. InUse - Weight(from) + Weight(to) <= maxConns
  BY <1>5, SizesAreNumbers DEF PoolTypeOK
<1>7. to \in {"lead", "leadWait", "leadUse"} => t = Election
  OBVIOUS
<1>8. QED
  BY <1>1, <1>4, <1>6, <1>7, MoveKeepsPool

LEMMA AcquireKeepsPool ==
  ASSUME PoolTypeOK, Acquire
  PROVE  /\ Head(queue) \in Tasks /\ Waiting(Head(queue))
         /\ PoolTypeOK'
<1> DEFINE t == Head(queue)
           to == IF task[t] = "wait" THEN "use" ELSE "leadUse"
<1>1. IsQueueOf(queue, Waiters) /\ queue # <<>>
  BY DEF PoolTypeOK, Acquire
<1>2. t \in Tasks /\ t \in Waiters /\ IsQueueOf(Tail(queue), Waiters \ {t})
  BY <1>1, TailOfQueue
<1>3. task[t] \in {"wait", "leadWait"} /\ Waiting(t)
  BY <1>2 DEF Waiters, Waiting
<1>4. /\ Does(t, task[t], to) /\ queue' = Tail(queue)
      /\ InUse < maxConns /\ UNCHANGED maxConns
  BY DEF Acquire, PoolStep
<1>5. to \in TaskStates /\ to \notin {"wait", "leadWait"}
  BY DEF TaskStates
<1>6. to \in {"lead", "leadWait", "leadUse"} => t = Election
  BY <1>2, <1>3 DEF PoolTypeOK, OnlyElectionLeads
<1>7. Weight(to) = Weight(task[t]) + 1 /\ Weight(task[t]) \in Int
  BY <1>3 DEF Weight
<1>8. InUse - Weight(task[t]) + Weight(to) <= maxConns
  BY <1>4, <1>7, SizesAreNumbers
<1> HIDE DEF t, to
<1>9. PoolTypeOK'
  BY <1>2, <1>4, <1>5, <1>6, <1>8, MoveKeepsPool
<1>10. QED
  BY <1>2, <1>3, <1>9 DEF t

\* Who ends a statement or resigns was not waiting.
LEMMA ReleaseKeepsPool ==
  ASSUME PoolTypeOK, NEW t \in Tasks, NEW from, NEW to, Does(t, from, to),
         UNCHANGED <<queue, maxConns>>,
         \/ from = "use" /\ to \in {"idle", "off"}
         \/ from \in {"use", "leadUse"} /\ to = "lead" /\ t = Election
         \/ from = "lead" /\ to = "idle"
  PROVE  PoolTypeOK'
<1>1. task[t] = from /\ to \in TaskStates /\ to \notin {"wait", "leadWait"}
  BY DEF Does, TaskStates
<1>2. t \notin Waiters
  BY <1>1, QueueHoldsWaiters
<1>3. IsQueueOf(queue', Waiters \ {t})
  <2>1. Waiters \ {t} = Waiters
    BY <1>2
  <2>2. QED
    BY <2>1 DEF PoolTypeOK
<1>4. Weight(to) <= Weight(from) /\ Weight(to) \in Int /\ Weight(from) \in Int
  BY DEF Weight
<1>5. InUse - Weight(from) + Weight(to) <= maxConns
  BY <1>4, SizesAreNumbers DEF PoolTypeOK
<1>6. to \in {"lead", "leadWait", "leadUse"} => t = Election
  OBVIOUS
<1>7. QED
  BY <1>1, <1>3, <1>5, <1>6, MoveKeepsPool

LEMMA LeaveKeepsPool ==
  ASSUME PoolTypeOK, NEW t \in Tasks, NEW from, Does(t, from, "off"), Leave(t),
         UNCHANGED maxConns
  PROVE  PoolTypeOK'
<1>1. "off" \in TaskStates /\ task[t] = from /\ from \in TaskStates
  BY DEF Does, PoolTypeOK, TaskStates
<1>2. IsQueueOf(queue, Waiters)
  BY DEF PoolTypeOK
<1>3. IsQueueOf(queue', Waiters \ {t})
  <2>1. CASE t \notin ToSet(queue) /\ UNCHANGED queue
    <3>1. Waiters \ {t} = Waiters
      BY <2>1, QueueHoldsWaiters
    <3>2. QED
      BY <1>2, <2>1, <3>1
  <2>2. CASE \E k \in DOMAIN queue : queue[k] = t /\ queue' = RemoveAt(queue, k)
    BY <1>2, <2>2, RemoveFromQueue
  <2>3. QED
    BY <2>1, <2>2 DEF Leave
<1>4. Weight("off") = 0 /\ Weight(from) \in Nat
  BY DEF Weight
<1>5. InUse - Weight(from) + Weight("off") <= maxConns
  BY <1>4, SizesAreNumbers DEF PoolTypeOK
<1>6. QED
  BY <1>1, <1>3, <1>5, MoveKeepsPool

\* Nobody waits and nothing is in use while everybody is off or idle.
LEMMA RestKeepsPool ==
  ASSUME PoolTypeOK, UNCHANGED maxConns, queue' = <<>>, task' \in [Tasks -> {"off", "idle"}]
  PROVE  PoolTypeOK'
<1>1. task' \in [Tasks -> TaskStates]
  BY DEF TaskStates
<1>2. Waiters' = {} /\ OnlyElectionLeads'
  BY DEF Waiters, Waiting, OnlyElectionLeads
<1>3. IsQueueOf(<<>>, {})
  BY EmptySeq DEF IsQueueOf, IsInjective, ToSet
<1>4. InUse' = 0
  <2>1. Holding({"use", "lead", "leadWait"})' = {} /\ {t \in Tasks : task[t] = "leadUse"}' = {}
    BY DEF Holding
  <2>2. InUse' = Cardinality({}) + 2 * Cardinality({})
    BY <2>1 DEF InUse, Holding
  <2>3. Cardinality({}) = 0
    BY FS_EmptySet
  <2>4. QED
    BY <2>2, <2>3
<1>5. InUse' <= maxConns'
  BY <1>4, SizesAreNumbers
<1>6. IsQueueOf(queue, Waiters)'
  BY <1>2, <1>3
<1>7. QED
  BY <1>1, <1>2, <1>5, <1>6 DEF PoolTypeOK

-----------------------------------------------------------------------------
(***************************************************************************)
(* The calls of Run and the calls it defers.                               *)
(***************************************************************************)
Calls == {"close", "drain", "cancel", "unsubscribe", "join"}

\* What concatenation with a short list of calls yields.
LEMMA Deferring ==
  ASSUME NEW defers \in Seq(Calls), NEW d \in Seq(Calls), NEW all \in Seq(Calls),
         Len(all) = Len(defers) + Len(d),
         \A k \in 1 .. Len(defers) : all[k] = defers[k],
         \A k \in 1 .. Len(d) : all[k + Len(defers)] = d[k]
  PROVE  defers \o d = all
<1>1. /\ defers \o d \in Seq(Calls)
      /\ Len(defers \o d) = Len(defers) + Len(d)
      /\ \A k \in 1 .. Len(defers) + Len(d) :
           (defers \o d)[k] = IF k <= Len(defers) THEN defers[k] ELSE d[k - Len(defers)]
  BY ConcatProperties
<1>2. Len(defers) \in Nat /\ Len(d) \in Nat
  BY LenProperties
<1>3. ASSUME NEW k \in 1 .. Len(all)
      PROVE  (defers \o d)[k] = all[k]
  <2>1. CASE k <= Len(defers)
    BY <1>1, <1>2, <2>1
  <2>2. CASE k > Len(defers)
    <3>1. k - Len(defers) \in 1 .. Len(d) /\ k - Len(defers) + Len(defers) = k
      BY <1>2, <2>2
    <3>2. all[k] = d[k - Len(defers)]
      BY <3>1
    <3>3. QED
      BY <1>1, <1>2, <2>2, <3>2
  <2>3. QED
    BY <1>2, <2>1, <2>2
<1>4. QED
  BY <1>1, <1>3, SeqEqual

LEMMA DeferredCalls ==
  /\ {<<>>, FromClose, FromDrain, FromCancel, FromUnsubscribe, FromJoin} \subseteq Seq(Calls)
  /\ <<"close">> \o <<>> = FromClose
  /\ <<"drain">> \o FromClose = FromDrain
  /\ <<"cancel">> \o FromDrain = FromCancel
  /\ <<"join", "unsubscribe">> \o FromCancel = FromJoin
  /\ \A d \in Seq(Calls) : <<>> \o d = d
<1> USE DEF Calls, FromClose, FromDrain, FromCancel, FromUnsubscribe, FromJoin
<1>1. {<<>>, FromClose, FromDrain, FromCancel, FromUnsubscribe, FromJoin} \subseteq Seq(Calls)
  OBVIOUS
<1>2. <<"close">> \o <<>> = FromClose
  BY <1>1, Deferring
<1>3. <<"drain">> \o FromClose = FromDrain
  <2>1. <<"drain">> \in Seq(Calls) /\ FromClose \in Seq(Calls) /\ FromDrain \in Seq(Calls)
    OBVIOUS
  <2>2. Len(FromDrain) = Len(<<"drain">>) + Len(FromClose)
    OBVIOUS
  <2>3. \A k \in 1 .. Len(<<"drain">>) : FromDrain[k] = <<"drain">>[k]
    OBVIOUS
  <2>4. \A k \in 1 .. Len(FromClose) : FromDrain[k + Len(<<"drain">>)] = FromClose[k]
    OBVIOUS
  <2> HIDE DEF Calls, FromClose, FromDrain, FromCancel, FromJoin
  <2>5. QED
    BY <2>1, <2>2, <2>3, <2>4, Deferring
<1>4. <<"cancel">> \o FromDrain = FromCancel
  <2>1. <<"cancel">> \in Seq(Calls) /\ FromDrain \in Seq(Calls) /\ FromCancel \in Seq(Calls)
    OBVIOUS
  <2>2. Len(FromCancel) = Len(<<"cancel">>) + Len(FromDrain)
    OBVIOUS
  <2>3. \A k \in 1 .. Len(<<"cancel">>) : FromCancel[k] = <<"cancel">>[k]
    OBVIOUS
  <2>4. \A k \in 1 .. Len(FromDrain) : FromCancel[k + Len(<<"cancel">>)] = FromDrain[k]
    OBVIOUS
  <2> HIDE DEF Calls, FromClose, FromDrain, FromCancel, FromJoin
  <2>5. QED
    BY <2>1, <2>2, <2>3, <2>4, Deferring
<1>5. <<"join", "unsubscribe">> \o FromCancel = FromJoin
  <2>1. <<"join", "unsubscribe">> \in Seq(Calls) /\ FromCancel \in Seq(Calls) /\ FromJoin \in Seq(Calls)
    OBVIOUS
  <2>2. Len(FromJoin) = Len(<<"join", "unsubscribe">>) + Len(FromCancel)
    OBVIOUS
  <2>3. \A k \in 1 .. Len(<<"join", "unsubscribe">>) : FromJoin[k] = <<"join", "unsubscribe">>[k]
    OBVIOUS
  <2>4. \A k \in 1 .. Len(FromCancel) : FromJoin[k + Len(<<"join", "unsubscribe">>)] = FromCancel[k]
    OBVIOUS
  <2> HIDE DEF Calls, FromClose, FromDrain, FromCancel, FromJoin
  <2>5. QED
    BY <2>1, <2>2, <2>3, <2>4, Deferring
<1>6. \A d \in Seq(Calls) : <<>> \o d = d
  BY ConcatEmptySeq
<1>7. QED
  BY <1>1, <1>2, <1>3, <1>4, <1>5, <1>6

LEMMA NextCall ==
  /\ FromJoin # <<>> /\ Head(FromJoin) = "join" /\ Tail(FromJoin) = FromUnsubscribe
  /\ FromUnsubscribe # <<>> /\ Head(FromUnsubscribe) = "unsubscribe" /\ Tail(FromUnsubscribe) = FromCancel
  /\ FromCancel # <<>> /\ Head(FromCancel) = "cancel" /\ Tail(FromCancel) = FromDrain
  /\ FromDrain # <<>> /\ Head(FromDrain) = "drain" /\ Tail(FromDrain) = FromClose
  /\ FromClose # <<>> /\ Head(FromClose) = "close" /\ Tail(FromClose) = <<>>
BY DEF FromClose, FromDrain, FromCancel, FromUnsubscribe, FromJoin

-----------------------------------------------------------------------------
(***************************************************************************)
(* Every step keeps the invariant.                                         *)
(***************************************************************************)
Runs == {"open", "connect", "stream", "addStream", "consumer", "addConsumer", "upsertConsumer",
         "consumerAgain", "subscribe", "hydrate", "serve", "shutdown", "return", "down"}

\* What Run has and what it defers is well typed as long as it follows run.
LEMMA RunTyped ==
  ASSUME run' \in Runs, ResourcesFollowRun',
         {signalled, cancelled}' \subseteq BOOLEAN, serverEnd' \in {"none", "failed", "late"},
         SharedTypeOK'
  PROVE  RunTypeOK'
<1>1. deferred' \in {<<>>, FromClose, FromDrain, FromCancel, FromUnsubscribe, FromJoin}
  BY DEF ResourcesFollowRun, Runs
<1>2. deferred' \in Seq(Calls)
  BY <1>1, DeferredCalls
<1>3. resources' \in SUBSET AllResources
  BY DEF ResourcesFollowRun, Runs, AllResources
<1>4. QED
  BY <1>2, <1>3 DEF RunTypeOK, Runs, Calls, AllResources

LEMMA PoolUnchanged ==
  ASSUME PoolTypeOK, UNCHANGED poolVars
  PROVE  PoolTypeOK'
<1>1. Waiters' = Waiters /\ InUse' = InUse
  BY DEF poolVars, Waiters, Waiting, InUse
<1>2. QED
  BY <1>1 DEF PoolTypeOK, poolVars, OnlyElectionLeads

LEMMA NobodyAtWork ==
  ASSUME LifeInv, run \notin {"serve", "shutdown", "return"}
  PROVE  \A t \in Tasks : task[t] = "off"
BY DEF LifeInv, TasksFollowRun, Tasks

LEMMA InvParts == LifeInv <=> /\ RunTypeOK /\ PoolTypeOK
                              /\ ResourcesFollowRun /\ SettingsFollowRun /\ TasksFollowRun
BY TypesSplit DEF LifeInv

LEMMA InvPartsNext ==
  ASSUME RunTypeOK', PoolTypeOK', ResourcesFollowRun', SettingsFollowRun', TasksFollowRun'
  PROVE  LifeInv'
<1>1. (RunTypeOK /\ PoolTypeOK)' => LifeTypeOK'
  BY DEF LifeTypeOK, RunTypeOK, SharedTypeOK, PoolTypeOK, OnlyElectionLeads, IsQueueOf, Waiters, Waiting,
         InUse
<1>2. QED
  BY <1>1 DEF LifeInv

\* Until it serves, Run is alone: its calls disturb nobody.
LEMMA AloneStep ==
  ASSUME LifeInv, run \notin {"serve", "shutdown", "return"}, UNCHANGED poolVars,
         run' \in Runs, {signalled, cancelled}' \subseteq BOOLEAN,
         serverEnd' \in {"none", "failed", "late"}, SharedTypeOK',
         ResourcesFollowRun', SettingsFollowRun'
  PROVE  LifeInv'
<1>1. RunTypeOK'
  BY RunTyped
<1>2. PoolTypeOK'
  BY InvParts, PoolUnchanged
<1>3. TasksFollowRun'
  BY NobodyAtWork DEF poolVars, TasksFollowRun, Tasks
<1>4. QED
  BY <1>1, <1>2, <1>3, InvPartsNext

LEMMA SharedUnchanged ==
  ASSUME LifeInv, UNCHANGED sharedVars
  PROVE  SharedTypeOK'
BY InvParts DEF RunTypeOK, SharedTypeOK, sharedVars

LEMMA ExecKeepsInv ==
  ASSUME LifeInv, Exec
  PROVE  LifeInv'
<1>1. ResourcesFollowRun' /\ SettingsFollowRun'
  BY DEF LifeInv, Exec, ResourcesFollowRun, SettingsFollowRun
<1>2. SharedTypeOK'
  BY InvParts DEF RunTypeOK, SharedTypeOK, Exec
<1>3. QED
  BY <1>1, <1>2, AloneStep DEF Exec, Runs

\* The stream: only one that has our settings lets Run go on.
LEMMA StreamStepKeepsSettings ==
  ASSUME LifeInv, Open \/ Connect \/ LookUpStream \/ AddStream
  PROVE  SettingsFollowRun' /\ SharedTypeOK'
<1>1. SharedTypeOK /\ SettingsFollowRun
  BY InvParts DEF RunTypeOK
<1>2. CASE Open \/ Connect \/ LookUpStream
  BY <1>1, <1>2 DEF Open, Connect, LookUpStream, Proceed, Accepted, SettingsFollowRun, SharedTypeOK, sharedVars
<1>3. CASE AddStream
  BY <1>1, <1>3 DEF AddStream, Proceed, Accepted, SettingsFollowRun, SharedTypeOK
<1>4. QED
  BY <1>2, <1>3

\* The consumer: Run goes on with one that it has just created, updated or found
\* to have our settings.
LEMMA ConsumerStepKeepsSettings ==
  ASSUME LifeInv,
         \/ LookUpConsumer \/ AddConsumerLooksUp \/ UpsertConsumer \/ AddConsumerErrs
         \/ LookUpConsumerAgain \/ Subscribe
  PROVE  SettingsFollowRun' /\ SharedTypeOK'
<1> USE DEF Proceed, Accepted, SettingsFollowRun, SharedTypeOK, Provisioned, AcceptedConsumer, sharedVars
<1>1. SharedTypeOK /\ SettingsFollowRun
  BY InvParts DEF RunTypeOK
<1>2. CASE LookUpConsumer \/ LookUpConsumerAgain
  BY <1>1, <1>2 DEF LookUpConsumer, LookUpConsumerAgain
<1>3. CASE AddConsumerLooksUp \/ AddConsumerErrs
  BY <1>1, <1>3 DEF AddConsumerLooksUp, AddConsumerErrs
<1>4. CASE UpsertConsumer \/ Subscribe
  BY <1>1, <1>4 DEF UpsertConsumer, Subscribe
<1>5. QED
  BY <1>2, <1>3, <1>4

LEMMA StartStepKeepsInv ==
  ASSUME LifeInv,
         \/ Open \/ Connect \/ LookUpStream \/ AddStream \/ LookUpConsumer \/ AddConsumerLooksUp
         \/ UpsertConsumer \/ AddConsumerErrs \/ LookUpConsumerAgain \/ Subscribe
  PROVE  LifeInv'
<1> USE DEF Open, Connect, LookUpStream, AddStream, LookUpConsumer, AddConsumerLooksUp, UpsertConsumer,
            AddConsumerErrs, LookUpConsumerAgain, Subscribe
<1>1. PICK from, to, acquired, defers : Proceed(from, to, acquired, defers)
  OBVIOUS
<1>2. /\ UNCHANGED poolVars
      /\ {signalled, cancelled}' \subseteq BOOLEAN /\ serverEnd' \in {"none", "failed", "late"}
  BY <1>1, InvParts DEF Proceed, RunTypeOK
<1>3. run \notin {"serve", "shutdown", "return"} /\ run' \in Runs
  BY DEF Runs, Proceed, Accepted
<1>4. ResourcesFollowRun'
  <2> USE DeferredCalls DEF Proceed, Accepted, Bound
  <2>1. ResourcesFollowRun /\ deferred \in Seq(Calls)
    BY InvParts DEF RunTypeOK, Calls
  <2>2. CASE Open
    BY <2>1, <2>2 DEF ResourcesFollowRun
  <2>3. CASE Connect
    BY <2>1, <2>3 DEF ResourcesFollowRun
  <2>4. CASE LookUpStream
    BY <2>1, <2>4 DEF ResourcesFollowRun
  <2>5. CASE AddStream
    BY <2>1, <2>5 DEF ResourcesFollowRun
  <2>6. CASE LookUpConsumer \/ LookUpConsumerAgain
    BY <2>1, <2>6 DEF ResourcesFollowRun
  <2>7. CASE AddConsumerLooksUp \/ AddConsumerErrs
    BY <2>1, <2>7 DEF ResourcesFollowRun
  <2>8. CASE UpsertConsumer
    BY <2>1, <2>8 DEF ResourcesFollowRun
  <2>9. CASE Subscribe
    BY <2>1, <2>9 DEF ResourcesFollowRun, AllResources
  <2>10. QED
    BY <2>2, <2>3, <2>4, <2>5, <2>6, <2>7, <2>8, <2>9
<1>5. SettingsFollowRun' /\ SharedTypeOK'
  BY StreamStepKeepsSettings, ConsumerStepKeepsSettings
<1>6. QED
  BY <1>2, <1>3, <1>4, <1>5, AloneStep

LEMMA NobodyWaits ==
  ASSUME PoolTypeOK, \A t \in Tasks : task[t] = "off"
  PROVE  queue = <<>>
<1>1. queue \in Seq(Tasks) /\ ToSet(queue) = {}
  BY DEF PoolTypeOK, IsQueueOf, Waiters, Waiting
<1>2. Len(queue) \in Nat /\ DOMAIN queue = 1 .. Len(queue)
  BY <1>1, LenProperties
<1>3. Len(queue) = 0
  <2>1. \A k \in 1 .. Len(queue) : queue[k] \in ToSet(queue)
    BY <1>2 DEF ToSet
  <2>2. QED
    BY <1>1, <1>2, <2>1
<1>4. QED
  BY <1>1, <1>3, EmptySeq

LEMMA StartKeepsInv ==
  ASSUME LifeInv, Start
  PROVE  LifeInv'
<1> USE DEF Start, StartAll
<1>1. \A t \in Tasks : task[t] = "off"
  BY NobodyAtWork
<1>2. ResourcesFollowRun'
  BY DeferredCalls, InvParts DEF ResourcesFollowRun, AllResources
<1>3. RunTypeOK'
  BY <1>2, InvParts, RunTyped, SharedUnchanged DEF RunTypeOK, Runs
<1>4. PoolTypeOK'
  <2>1. queue' = <<>>
    BY <1>1, InvParts, NobodyWaits
  <2>2. task' \in [Tasks -> {"off", "idle"}]
    OBVIOUS
  <2>3. QED
    BY <2>1, <2>2, InvParts, RestKeepsPool
<1>5. SettingsFollowRun' /\ Provisioned'
  BY InvParts DEF SettingsFollowRun, Provisioned, AcceptedConsumer, sharedVars
<1>6. TasksFollowRun'
  <2>1. \A r \in Requests : task'[r] = "off"
    BY LifeAssumption DEF Tasks, Background
  <2>2. QED
    BY <1>5, <2>1 DEF TasksFollowRun
<1>7. QED
  BY <1>2, <1>3, <1>4, <1>5, <1>6, InvPartsNext

LEMMA StartFailsKeepsInv ==
  ASSUME LifeInv, StartFails
  PROVE  LifeInv'
<1>1. ResourcesFollowRun' /\ SettingsFollowRun'
  BY InvParts DEF StartFails, ResourcesFollowRun, SettingsFollowRun, AllResources
<1>2. /\ {signalled, cancelled}' \subseteq BOOLEAN /\ serverEnd' \in {"none", "failed", "late"}
      /\ SharedTypeOK'
  BY InvParts, SharedUnchanged DEF StartFails, RunTypeOK
<1>3. QED
  BY <1>1, <1>2, AloneStep DEF StartFails, Runs

\* What leaves everything as it is but the flags.
LEMMA SignalKeepsInv ==
  ASSUME LifeInv, Signal
  PROVE  LifeInv'
<1>1. ResourcesFollowRun' /\ SettingsFollowRun' /\ TasksFollowRun'
  BY InvParts DEF Signal, ResourcesFollowRun, SettingsFollowRun, TasksFollowRun, Provisioned,
                  AcceptedConsumer, poolVars, sharedVars
<1>2. RunTypeOK' /\ PoolTypeOK'
  BY InvParts, PoolUnchanged, SharedUnchanged DEF Signal, RunTypeOK
<1>3. QED
  BY <1>1, <1>2, InvPartsNext

\* The server stops: only a failure or the end of the grace period leaves requests behind.
LEMMA ServerKeepsInv ==
  ASSUME LifeInv, Shutdown \/ ShutdownDone \/ GraceOver \/ ServerFails
  PROVE  LifeInv'
<1>1. /\ run \in {"serve", "shutdown"} /\ run' \in {"shutdown", "return"}
      /\ UNCHANGED <<deferred, signalled, cancelled, resources, poolVars, sharedVars>>
      /\ serverEnd' \in {serverEnd, "failed", "late"}
      /\ run' = "shutdown" => UNCHANGED serverEnd
  BY DEF Shutdown, ShutdownDone, GraceOver, ServerFails, Server
<1>2. ResourcesFollowRun' /\ SettingsFollowRun'
  BY <1>1, InvParts DEF ResourcesFollowRun, SettingsFollowRun, Provisioned, AcceptedConsumer, sharedVars
<1>3. RunTypeOK'
  BY <1>1, <1>2, InvParts, RunTyped, SharedUnchanged DEF RunTypeOK, Runs
<1>4. PoolTypeOK'
  BY <1>1, InvParts, PoolUnchanged
<1>5. TasksFollowRun'
  <2>1. UNCHANGED <<task, stream, consumer, overwritten, deferred>>
    BY <1>1 DEF poolVars, sharedVars
  <2>2. \A t \in Background : task'[t] # "off" =>
          run' \in {"serve", "shutdown"} \/ (run' = "return" /\ deferred' = FromJoin)
    BY <1>1, <2>1, InvParts DEF ResourcesFollowRun
  <2>3. \A r \in Requests : task'[r] # "off" =>
          run' \in {"serve", "shutdown"} \/ (run' = "return" /\ serverEnd' # "none")
    BY <2>1 DEF Shutdown, ShutdownDone, GraceOver, ServerFails, Server
  <2>4. QED
    BY <2>1, <2>2, <2>3, InvParts DEF TasksFollowRun, Provisioned, AcceptedConsumer
<1>6. QED
  BY <1>2, <1>3, <1>4, <1>5, InvPartsNext

\* Run returns: the goroutines are gone before anything is given back.
LEMMA ReturnKeepsInv ==
  ASSUME LifeInv, Cancel \/ Join \/ Unsubscribe \/ Drain \/ ClosePool \/ PoolClosed
  PROVE  LifeInv'
<1> USE DEF Cancel, Join, Unsubscribe, Drain, ClosePool, PoolClosed, Deferred
<1>1. /\ run = "return" /\ UNCHANGED <<run, signalled, serverEnd, poolVars, sharedVars>>
      /\ cancelled' \in {cancelled, TRUE}
      /\ deferred # <<>>
  OBVIOUS
<1>2. deferred \in {FromClose, FromDrain, FromCancel, FromUnsubscribe, FromJoin}
  BY <1>1, InvParts DEF ResourcesFollowRun
<1>3. ResourcesFollowRun'
  <2>1. CASE Cancel
    BY <1>1, <1>2, <2>1, InvParts, NextCall DEF ResourcesFollowRun
  <2>2. CASE Join
    BY <1>1, <1>2, <2>2, InvParts, NextCall DEF ResourcesFollowRun
  <2>3. CASE Unsubscribe
    BY <1>1, <1>2, <2>3, InvParts, NextCall DEF ResourcesFollowRun, AllResources
  <2>4. CASE Drain
    BY <1>1, <1>2, <2>4, InvParts, NextCall DEF ResourcesFollowRun
  <2>5. CASE ClosePool
    BY <1>1, <1>2, <2>5, InvParts, NextCall DEF ResourcesFollowRun
  <2>6. CASE PoolClosed
    BY <1>1, <1>2, <2>6, InvParts, NextCall DEF ResourcesFollowRun
  <2>7. QED
    BY <2>1, <2>2, <2>3, <2>4, <2>5, <2>6
<1>4. SettingsFollowRun'
  BY <1>1, InvParts DEF SettingsFollowRun, Provisioned, AcceptedConsumer, sharedVars
<1>5. RunTypeOK'
  BY <1>1, <1>3, InvParts, RunTyped, SharedUnchanged DEF RunTypeOK, Runs
<1>6. PoolTypeOK'
  BY <1>1, InvParts, PoolUnchanged
<1>7. TasksFollowRun'
  <2>1. UNCHANGED <<task, stream, consumer, overwritten, serverEnd>>
    BY <1>1 DEF poolVars, sharedVars
  <2>2. (\A t \in Background : task[t] = "off") \/ deferred' = FromJoin
    BY <1>1, <1>2, NextCall, InvParts DEF TasksFollowRun
  <2>3. QED
    BY <1>1, <2>1, <2>2, InvParts DEF TasksFollowRun, Provisioned, AcceptedConsumer
<1>8. QED
  BY <1>3, <1>4, <1>5, <1>6, <1>7, InvPartsNext

LEMMA DownKeepsInv ==
  ASSUME LifeInv, Exit \/ Kill
  PROVE  LifeInv'
<1>1. Down
  BY DEF Exit, Kill
<1>2. ResourcesFollowRun' /\ SettingsFollowRun'
  BY <1>1 DEF Down, ResourcesFollowRun, SettingsFollowRun
<1>3. RunTypeOK'
  BY <1>1, <1>2, InvParts, RunTyped, SharedUnchanged DEF Down, RunTypeOK, Runs
<1>4. PoolTypeOK'
  BY <1>1, InvParts, RestKeepsPool DEF Down
<1>5. TasksFollowRun'
  BY <1>1 DEF Down, TasksFollowRun, Tasks
<1>6. QED
  BY <1>2, <1>3, <1>4, <1>5, InvPartsNext

\* Requests come in while the server serves or after it has failed.
LetIn == run = "serve" \/ (run = "return" /\ serverEnd = "failed")

\* The users of the pool leave Run alone, and whoever becomes busy is let in.
LEMMA PoolStepKeepsInv ==
  ASSUME LifeInv, PoolTypeOK', PoolStep, NEW t \in Tasks, NEW from, NEW to, Does(t, from, to),
         to = "off" \/ from # "off" \/ (t \in Requests /\ LetIn)
  PROVE  LifeInv'
<1>1. UNCHANGED <<run, deferred, signalled, cancelled, serverEnd, resources, sharedVars>>
  BY DEF PoolStep, runVars
<1>2. RunTypeOK' /\ ResourcesFollowRun' /\ SettingsFollowRun'
  BY <1>1, InvParts, SharedUnchanged DEF RunTypeOK, ResourcesFollowRun, SettingsFollowRun, Provisioned,
                                         AcceptedConsumer, sharedVars
<1>3. \A u \in Tasks : task'[u] # "off" => task[u] # "off" \/ (u \in Requests /\ LetIn)
  BY InvParts DEF Does, PoolTypeOK
<1>4. TasksFollowRun'
  <2>1. \A u \in Background : task'[u] # "off" => task[u] # "off"
    BY <1>3, LifeAssumption DEF Tasks, Background
  <2>2. \A u \in Requests : task'[u] # "off" => task[u] # "off" \/ LetIn
    BY <1>3 DEF Tasks
  <2>3. LetIn => Provisioned
    BY InvParts DEF SettingsFollowRun, LetIn
  <2>4. Provisioned' = Provisioned
    BY <1>1 DEF Provisioned, AcceptedConsumer, sharedVars
  <2>5. QED
    BY <1>1, <1>3, <2>1, <2>2, <2>3, <2>4, InvParts DEF TasksFollowRun, LetIn
<1>5. QED
  BY <1>2, <1>4, InvPartsNext

LEMMA UserKeepsInv ==
  ASSUME LifeInv,
         \/ \E r \in Requests : Handle(r) \/ GiveUp(r)
         \/ \E t \in Background : Ask(t) \/ Stop(t)
         \/ Poll \/ Acquire \/ Release \/ Resign
  PROVE  LifeInv'
<1>1. PoolTypeOK /\ Election \in Tasks /\ Requests \subseteq Tasks /\ Background \subseteq Tasks
      /\ Loops \subseteq Tasks
  BY InvParts DEF Tasks, Background
<1>2. ASSUME NEW r \in Requests, Handle(r)
      PROVE  LifeInv'
  <2>1. /\ r \in Tasks /\ Does(r, "off", "wait") /\ Enqueue(r) /\ PoolStep /\ LetIn
        /\ UNCHANGED maxConns
    BY <1>1, <1>2 DEF Handle, PoolStep, LetIn
  <2>2. PoolTypeOK'
    BY <1>1, <2>1, JoinKeepsPool
  <2>3. QED
    BY <2>1, <2>2, PoolStepKeepsInv
<1>3. ASSUME NEW r \in Requests, GiveUp(r)
      PROVE  LifeInv'
  <2>1. r \in Tasks /\ Does(r, "wait", "off") /\ Leave(r) /\ PoolStep /\ UNCHANGED maxConns
    BY <1>1, <1>3 DEF GiveUp, PoolStep
  <2>2. PoolTypeOK'
    BY <1>1, <2>1, LeaveKeepsPool
  <2>3. QED
    BY <2>1, <2>2, PoolStepKeepsInv
<1>4. ASSUME NEW t \in Background, Ask(t)
      PROVE  LifeInv'
  <2>1. t \in Tasks /\ Does(t, "idle", "wait") /\ Enqueue(t) /\ PoolStep /\ UNCHANGED maxConns
    BY <1>1, <1>4 DEF Ask, PoolStep
  <2>2. PoolTypeOK'
    BY <1>1, <2>1, JoinKeepsPool
  <2>3. QED
    BY <2>1, <2>2, PoolStepKeepsInv
<1>5. ASSUME NEW t \in Background, Stop(t)
      PROVE  LifeInv'
  <2>1. t \in Tasks /\ Does(t, task[t], "off") /\ Leave(t) /\ PoolStep /\ UNCHANGED maxConns
    BY <1>1, <1>5 DEF Stop, PoolStep
  <2>2. PoolTypeOK'
    BY <1>1, <2>1, LeaveKeepsPool
  <2>3. QED
    BY <2>1, <2>2, PoolStepKeepsInv
<1>6. CASE Poll
  <2>1. Does(Election, "lead", "leadWait") /\ Enqueue(Election) /\ PoolStep /\ UNCHANGED maxConns
    BY <1>6 DEF Poll, PoolStep
  <2>2. PoolTypeOK'
    BY <1>1, <2>1, JoinKeepsPool
  <2>3. QED
    BY <1>1, <2>1, <2>2, PoolStepKeepsInv
<1>7. CASE Acquire
  <2>1. Head(queue) \in Tasks /\ Waiting(Head(queue)) /\ PoolTypeOK'
    BY <1>1, <1>7, AcquireKeepsPool
  <2>2. PICK to : Does(Head(queue), task[Head(queue)], to) /\ PoolStep
    BY <1>7 DEF Acquire
  <2>3. task[Head(queue)] # "off"
    BY <2>1 DEF Waiting
  <2>4. QED
    BY <2>1, <2>2, <2>3, PoolStepKeepsInv
<1>8. CASE Release \/ Resign
  <2>1. /\ UNCHANGED <<queue, maxConns>> /\ PoolStep
        /\ \/ Does(Election, "use", "idle") \/ Does(Election, "use", "lead")
           \/ Does(Election, "leadUse", "lead") \/ Does(Election, "lead", "idle")
           \/ \E t \in Loops : Does(t, "use", "idle")
           \/ \E r \in Requests : Does(r, "use", "off")
    BY <1>8 DEF Release, Resign, PoolStep
  <2>2. PICK t \in Tasks, from \in TaskStates, to \in TaskStates :
          /\ Does(t, from, to)
          /\ \/ from = "use" /\ to \in {"idle", "off"}
             \/ from \in {"use", "leadUse"} /\ to = "lead" /\ t = Election
             \/ from = "lead" /\ to = "idle"
    BY <1>1, <2>1 DEF TaskStates
  <2>3. PoolTypeOK'
    BY <1>1, <2>1, <2>2, ReleaseKeepsPool
  <2>4. QED
    BY <2>1, <2>2, <2>3, PoolStepKeepsInv
<1>9. QED
  BY <1>2, <1>3, <1>4, <1>5, <1>6, <1>7, <1>8

\* Others never change a stream that exists; when they change our consumer, it
\* counts as overwritten.
LEMMA OthersKeepInv ==
  ASSUME LifeInv,
         \/ OtherProvisions
         \/ \E settings \in Rivals : OtherFindsNoConsumer(settings) \/ OtherUpsertsConsumer(settings)
  PROVE  LifeInv'
<1>1. /\ UNCHANGED <<run, deferred, signalled, cancelled, serverEnd, resources, task>>
      /\ UNCHANGED poolVars
  BY DEF OtherProvisions, OtherFindsNoConsumer, OtherUpsertsConsumer, runVars, poolVars
<1>2. /\ SharedTypeOK'
      /\ stream # "none" => UNCHANGED stream
      /\ AcceptedConsumer => AcceptedConsumer'
  <2>1. SharedTypeOK
    BY InvParts DEF RunTypeOK
  <2>2. CASE OtherProvisions
    BY <2>1, <2>2 DEF OtherProvisions, SharedTypeOK, AcceptedConsumer
  <2>3. ASSUME NEW settings \in Rivals, OtherFindsNoConsumer(settings) \/ OtherUpsertsConsumer(settings)
        PROVE  /\ SharedTypeOK'
               /\ stream # "none" => UNCHANGED stream
               /\ AcceptedConsumer => AcceptedConsumer'
    BY <2>1, <2>3, LifeAssumption
       DEF OtherFindsNoConsumer, OtherUpsertsConsumer, SharedTypeOK, AcceptedConsumer
  <2>4. QED
    BY <2>2, <2>3
<1>3. RunTypeOK' /\ ResourcesFollowRun' /\ PoolTypeOK'
  BY <1>1, <1>2, InvParts, PoolUnchanged DEF RunTypeOK, ResourcesFollowRun
<1>4. Provisioned => Provisioned'
  BY <1>2 DEF Provisioned
<1>5. SettingsFollowRun' /\ TasksFollowRun'
  BY <1>1, <1>2, <1>4, InvParts DEF SettingsFollowRun, TasksFollowRun
<1>6. QED
  BY <1>3, <1>5, InvPartsNext

LEMMA NothingKeepsInv ==
  ASSUME LifeInv, UNCHANGED lifeVars
  PROVE  LifeInv'
<1>1. RunTypeOK' /\ PoolTypeOK' /\ ResourcesFollowRun' /\ SettingsFollowRun' /\ TasksFollowRun'
  BY InvParts, PoolUnchanged, SharedUnchanged
     DEF lifeVars, runVars, poolVars, sharedVars, RunTypeOK, ResourcesFollowRun, SettingsFollowRun,
         TasksFollowRun, Provisioned, AcceptedConsumer
<1>2. QED
  BY <1>1, InvPartsNext

LEMMA InitHasInv ==
  ASSUME LifeInit
  PROVE  LifeInv
<1>1. RunTypeOK /\ ResourcesFollowRun /\ SettingsFollowRun
  BY EmptySeq DEF LifeInit, RunTypeOK, SharedTypeOK, ResourcesFollowRun, SettingsFollowRun
<1>2. TasksFollowRun
  BY DEF LifeInit, TasksFollowRun, Tasks
<1>3. PoolTypeOK
  <2>1. task \in [Tasks -> TaskStates] /\ OnlyElectionLeads /\ Waiters = {}
    BY DEF LifeInit, TaskStates, OnlyElectionLeads, Waiters, Waiting
  <2>2. IsQueueOf(<<>>, {})
    BY EmptySeq DEF IsQueueOf, IsInjective, ToSet
  <2>3. InUse = 0
    <3>1. Holding({"use", "lead", "leadWait"}) = {} /\ Holding({"leadUse"}) = {}
      BY DEF LifeInit, Holding
    <3>2. Cardinality({}) = 0
      BY FS_EmptySet
    <3>3. InUse = Cardinality({}) + 2 * Cardinality({})
      BY <3>1, InUseIsCount
    <3>4. QED
      BY <3>2, <3>3
  <2>4. QED
    BY <2>1, <2>2, <2>3, LifeAssumption DEF LifeInit, PoolTypeOK, PositiveInt
<1>4. QED
  BY <1>1, <1>2, <1>3, InvParts

LEMMA NextKeepsInv ==
  ASSUME LifeInv, [LifeNext]_lifeVars
  PROVE  LifeInv'
<1>1. CASE Exec
  BY <1>1, ExecKeepsInv
<1>2. CASE StartStep
  BY <1>2, StartStepKeepsInv, StartKeepsInv, StartFailsKeepsInv DEF StartStep
<1>3. CASE StopStep \/ ServerFails \/ Kill
  BY <1>3, ServerKeepsInv, ReturnKeepsInv, DownKeepsInv DEF StopStep
<1>4. CASE Signal
  BY <1>4, SignalKeepsInv
<1>5. CASE \/ \E r \in Requests : Handle(r) \/ GiveUp(r)
           \/ \E t \in Background : Ask(t) \/ Stop(t)
           \/ Poll \/ Acquire \/ Release \/ Resign
  BY <1>5, UserKeepsInv
<1>6. CASE \/ OtherProvisions
           \/ \E settings \in Rivals : OtherFindsNoConsumer(settings) \/ OtherUpsertsConsumer(settings)
  BY <1>6, OthersKeepInv
<1>7. CASE UNCHANGED lifeVars
  BY <1>7, NothingKeepsInv
<1>8. QED
  BY <1>1, <1>2, <1>3, <1>4, <1>5, <1>6, <1>7 DEF LifeNext

-----------------------------------------------------------------------------
(***************************************************************************)
(* The theorems.                                                           *)
(***************************************************************************)
\* What Run has, defers and runs beside follows from how far it has come.
THEOREM LifeInvariant == LifeSpec => []LifeInv
<1>1. LifeInit => LifeInv
  BY InitHasInv
<1>2. LifeInv /\ [LifeNext]_lifeVars => LifeInv'
  BY NextKeepsInv
<1>3. QED
  BY <1>1, <1>2, PTL DEF LifeSpec

\* The state is well typed: whoever waits for a connection is in the queue,
\* once, and no more connections are taken than DATABASE_MAX_CONNS.
THEOREM LifeTypeCorrect == LifeSpec => []LifeTypeOK
<1>1. LifeInv => LifeTypeOK
  BY DEF LifeInv
<1>2. QED
  BY <1>1, LifeInvariant, PTL

\* No goroutine meets a closed pool, a drained connection or an ended
\* subscription: the deferred calls of app.Run wait for all of them first.
THEOREM ResourcesOutliveGoroutines == LifeSpec => []GoroutinesKeepResources
<1>1. LifeInv => GoroutinesKeepResources
  BY NextCall DEF LifeInv, ResourcesFollowRun, TasksFollowRun, GoroutinesKeepResources, AllResources
<1>2. QED
  BY <1>1, LifeInvariant, PTL

\* A request meets a closed pool only after the HTTP server failed or the
\* grace period ran out.
THEOREM PoolOutlivesRequests == LifeSpec => []RequestsKeepPool
<1>1. LifeInv => RequestsKeepPool
  BY DEF LifeInv, ResourcesFollowRun, TasksFollowRun, RequestsKeepPool, AllResources
<1>2. QED
  BY <1>1, LifeInvariant, PTL

\* However other instances' provisioning interleaves and whichever calls fail,
\* goroutines and requests run beside a stream with our settings and a consumer
\* that had them too, unless an instance that had found no consumer replaced it.
THEOREM AcceptedSettingsOnly == LifeSpec => []WorksWithAcceptedSettings
<1>1. LifeInv => WorksWithAcceptedSettings
  BY DEF LifeInv, TasksFollowRun, WorksWithAcceptedSettings, Provisioned, AcceptedConsumer
<1>2. QED
  BY <1>1, LifeInvariant, PTL
=============================================================================
