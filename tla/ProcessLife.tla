----------------------------- MODULE ProcessLife -----------------------------
(***************************************************************************)
(* One instance's process: internal/app/run.go acquires its resources one  *)
(* after the other, serves until it is told to stop, and gives them back   *)
(* in the opposite order (Go runs deferred calls last in, first out).      *)
(* Meanwhile its goroutines and the requests it serves share a pool of     *)
(* DATABASE_MAX_CONNS database connections.                                *)
(***************************************************************************)
EXTENDS Integers, FiniteSets, SequencesExt

CONSTANTS
  Loops,       \* goroutines that use one connection at a time: dispatchers, workers
  Election,    \* the goroutine that as leader keeps one and polls with another
  Requests,    \* requests served at the same time
  PoolSizes,   \* what DATABASE_MAX_CONNS may be
  Rivals       \* settings that other instances demand of the consumer, compared with ours

ASSUME LifeAssumption ==
  /\ Election \notin Loops \cup Requests
  /\ Loops \cap Requests = {}
  /\ IsFiniteSet(Loops) /\ IsFiniteSet(Requests)
  /\ PoolSizes \subseteq Int
  /\ Rivals \subseteq {"ours", "theirs"}

Background == Loops \cup {Election}
Tasks == Background \cup Requests

VARIABLES
  run,            \* the call app.Run is at, "down" outside of it
  deferred,       \* its deferred calls, the next one first
  signalled,      \* SIGTERM or SIGINT has come
  cancelled,      \* cancel() was called
  serverEnd,      \* how the HTTP server left requests behind, if it did
  resources,      \* what Run has and has not given back
  maxConns,
  task,           \* what each user of the pool does
  queue,          \* who waits for a connection, in order
  stream, consumer, \* settings of the shared stream and consumer, once they exist
  others,         \* settings of the instances that found no consumer: each may request its own
  overwritten     \* another instance has replaced our settings since Run was called

runVars    == <<run, deferred, signalled, cancelled, serverEnd, resources>>
poolVars   == <<maxConns, task, queue>>
sharedVars == <<stream, consumer, others, overwritten>>
lifeVars   == <<runVars, poolVars, sharedVars>>

\* "lead": the leader between its polls; "leadWait" and "leadUse": its poll.
TaskStates == {"off", "idle", "wait", "use", "lead", "leadWait", "leadUse"}
Waiting(t) == task[t] \in {"wait", "leadWait"}

InUse == Cardinality({t \in Tasks : task[t] \in {"use", "lead", "leadWait"}})
         + 2 * Cardinality({t \in Tasks : task[t] = "leadUse"})

PositiveInt(value) == value > 0

LifeTypeOK ==
  /\ run \in {"open", "connect", "stream", "addStream", "consumer", "addConsumer", "upsertConsumer",
              "consumerAgain", "subscribe", "hydrate", "serve", "shutdown", "return", "down"}
  /\ deferred \in Seq({"close", "drain", "cancel", "unsubscribe", "join"})
  /\ {signalled, cancelled, overwritten} \subseteq BOOLEAN
  /\ serverEnd \in {"none", "failed", "late"}
  /\ resources \in SUBSET {"pool", "nats", "subscription"}
  /\ maxConns \in {n \in PoolSizes : PositiveInt(n)}
  /\ task \in [Tasks -> TaskStates]
  /\ \A t \in Tasks : task[t] \in {"lead", "leadWait", "leadUse"} => t = Election
  /\ queue \in Seq(Tasks) /\ IsInjective(queue)
  /\ ToSet(queue) = {t \in Tasks : Waiting(t)}
  /\ InUse <= maxConns
  /\ {stream, consumer} \subseteq {"none", "ours", "theirs"}
  /\ others \subseteq Rivals

LifeInit ==
  /\ run = "down"
  /\ deferred = <<>>
  /\ signalled = FALSE /\ cancelled = FALSE /\ serverEnd = "none"
  /\ resources = {}
  /\ maxConns \in {n \in PoolSizes : PositiveInt(n)}
  /\ task = [t \in Tasks |-> "off"]
  /\ queue = <<>>
  /\ stream = "none" /\ consumer = "none"
  /\ others = {} /\ overwritten = FALSE

\* runCtx is done.
Stopping == signalled \/ cancelled

-----------------------------------------------------------------------------
(***************************************************************************)
(* Start.                                                                  *)
(***************************************************************************)
Exec ==
  /\ run = "down"
  /\ run' = "open"
  /\ signalled' = FALSE /\ cancelled' = FALSE /\ serverEnd' = "none"
  /\ overwritten' = FALSE
  /\ UNCHANGED <<deferred, resources, poolVars, stream, consumer, others>>

\* One call of Run succeeds: it goes on, with a resource and a deferred call.
Proceed(from, to, acquired, defers) ==
  /\ run = from
  /\ run' = to
  /\ resources' = resources \cup acquired
  /\ deferred' = defers \o deferred
  /\ UNCHANGED <<signalled, cancelled, serverEnd, poolVars>>

Open ==
  /\ ~signalled
  /\ Proceed("open", "connect", {"pool"}, <<"close">>)
  /\ UNCHANGED sharedVars

Connect ==
  /\ Proceed("connect", "stream", {"nats"}, <<"drain">>)
  /\ UNCHANGED sharedVars

\* Provisioning looks the object up, creates it if it is absent, and then
\* accepts it only with its own settings; after both, cancel is deferred.
Accepted(settings, next) == IF settings = "ours" THEN next ELSE "return"
Bound(settings) == IF settings = "ours" THEN <<"cancel">> ELSE <<>>

LookUpStream ==
  /\ Proceed("stream", IF stream = "none" THEN "addStream" ELSE Accepted(stream, "consumer"), {}, <<>>)
  /\ UNCHANGED sharedVars

\* JetStream creates a stream only if there is none of the name; it reports one
\* that exists with the same settings as created.
AddStream ==
  /\ stream' = IF stream = "none" THEN "ours" ELSE stream
  /\ Proceed("addStream", Accepted(stream', "consumer"), {}, <<>>)
  /\ UNCHANGED <<consumer, others, overwritten>>

LookUpConsumer ==
  /\ Proceed("consumer", IF consumer = "none" THEN "addConsumer" ELSE Accepted(consumer, "subscribe"),
             {}, Bound(consumer))
  /\ UNCHANGED sharedVars

\* AddConsumer of nats.go looks the consumer up itself: it refuses other settings
\* and may return at once what has ours.
AddConsumerLooksUp ==
  /\ \/ consumer # "theirs" /\ Proceed("addConsumer", "upsertConsumer", {}, <<>>)
     \/ /\ consumer # "none"
        /\ Proceed("addConsumer", IF consumer = "ours" THEN "subscribe" ELSE "consumerAgain", {}, Bound(consumer))
  /\ UNCHANGED sharedVars

\* Then it requests one, and JetStream creates it or updates the one there is.
UpsertConsumer ==
  /\ consumer' = "ours"
  /\ Proceed("upsertConsumer", "subscribe", {}, <<"cancel">>)
  /\ UNCHANGED <<stream, others, overwritten>>

\* AddConsumer errs for another reason, perhaps with its request carried out.
AddConsumerErrs ==
  /\ \/ Proceed("addConsumer", "consumerAgain", {}, <<>>) /\ UNCHANGED consumer
     \/ Proceed("upsertConsumer", "consumerAgain", {}, <<>>) /\ consumer' \in {consumer, "ours"}
  /\ UNCHANGED <<stream, others, overwritten>>

\* Mutant: one that another instance has created meanwhile will do.
LookUpConsumerAgainUnread ==
  /\ consumer # "none"
  /\ Proceed("consumerAgain", "subscribe", {}, <<"cancel">>)
  /\ UNCHANGED sharedVars

\* A creation that fails is followed by a second lookup.
LookUpConsumerAgain ==
  /\ Proceed("consumerAgain", Accepted(consumer, "subscribe"), {}, Bound(consumer))
  /\ UNCHANGED sharedVars

Subscribe ==
  /\ Proceed("subscribe", "hydrate", {"subscription"}, <<>>)
  /\ UNCHANGED sharedVars

StartAll(defers) ==
  /\ run = "hydrate"
  /\ ~Stopping
  /\ run' = "serve"
  /\ deferred' = defers \o deferred
  /\ task' = [t \in Tasks |-> IF t \in Background THEN "idle" ELSE "off"]
  /\ UNCHANGED <<signalled, cancelled, serverEnd, resources, maxConns, queue, sharedVars>>

\* Mutant: the goroutines are waited for after the subscription has ended.
StartJoinedLate == StartAll(<<"unsubscribe", "join">>)

\* Hydrate succeeds, then dispatcher, workers and election are started.
Start == StartAll(<<"join", "unsubscribe">>)

\* Any call may fail; only Hydrate gives something back before Run returns.
StartFails ==
  /\ run \in {"open", "connect", "stream", "addStream", "consumer", "addConsumer", "upsertConsumer",
              "consumerAgain", "subscribe", "hydrate"}
  /\ run' = "return"
  /\ resources' = resources \ {"subscription"}
  /\ UNCHANGED <<deferred, signalled, cancelled, serverEnd, poolVars, sharedVars>>

-----------------------------------------------------------------------------
(***************************************************************************)
(* Stop.                                                                   *)
(***************************************************************************)
Signal ==
  /\ run # "down"
  /\ ~signalled
  /\ signalled' = TRUE
  /\ UNCHANGED <<run, deferred, cancelled, serverEnd, resources, poolVars, sharedVars>>

\* httpserver.Run goes on to another call.
Server(from, to) ==
  /\ run = from
  /\ run' = to
  /\ UNCHANGED <<deferred, signalled, cancelled, resources, poolVars, sharedVars>>

\* ctx.Done: the listener closes, requests that are under way go on.
Shutdown ==
  /\ Stopping
  /\ Server("serve", "shutdown")
  /\ UNCHANGED serverEnd

\* Mutant: Shutdown is not waited for.
ShutdownAtOnce ==
  /\ Server("shutdown", "return")
  /\ UNCHANGED serverEnd

ShutdownDone ==
  /\ \A r \in Requests : task[r] = "off"
  /\ Server("shutdown", "return")
  /\ UNCHANGED serverEnd

\* shutdownTimeout ends with requests still under way.
GraceOver ==
  /\ \E r \in Requests : task[r] # "off"
  /\ Server("shutdown", "return")
  /\ serverEnd' = "late"

ServerFails ==
  /\ Server("serve", "return")
  /\ serverEnd' = "failed"

\* Run returns: the next deferred call, which may have to wait.
Deferred(call) ==
  /\ run = "return"
  /\ deferred # <<>>
  /\ Head(deferred) = call
  /\ deferred' = Tail(deferred)
  /\ UNCHANGED <<run, signalled, serverEnd, poolVars, sharedVars>>

\* Mutant: the goroutines are waited for without being told to stop.
CancelLast ==
  /\ Deferred("cancel")
  /\ cancelled' = TRUE
  /\ UNCHANGED resources

\* cancel() is called before the goroutines are waited for, and deferred too.
Cancel ==
  /\ \/ Deferred("cancel") /\ UNCHANGED resources
     \/ /\ run = "return" /\ deferred # <<>> /\ Head(deferred) = "join" /\ ~cancelled
        /\ UNCHANGED <<run, deferred, signalled, serverEnd, resources, poolVars, sharedVars>>
  /\ cancelled' = TRUE

Join ==
  /\ cancelled
  /\ \A t \in Background : task[t] = "off"
  /\ Deferred("join")
  /\ UNCHANGED <<cancelled, resources>>

Unsubscribe ==
  /\ Deferred("unsubscribe")
  /\ resources' = resources \ {"subscription"}
  /\ UNCHANGED cancelled

\* Drain goes on in the background; nothing waits for it.
Drain ==
  /\ Deferred("drain")
  /\ resources' = resources \ {"nats"}
  /\ UNCHANGED cancelled

\* pool.Close refuses connections from now on and waits for those in use.
ClosePool ==
  /\ run = "return" /\ deferred # <<>> /\ Head(deferred) = "close"
  /\ "pool" \in resources
  /\ resources' = resources \ {"pool"}
  /\ UNCHANGED <<run, deferred, signalled, cancelled, serverEnd, poolVars, sharedVars>>

PoolClosed ==
  /\ "pool" \notin resources
  /\ InUse = 0
  /\ Deferred("close")
  /\ UNCHANGED <<cancelled, resources>>

Down ==
  /\ run' = "down"
  /\ deferred' = <<>>
  /\ resources' = {}
  /\ task' = [t \in Tasks |-> "off"]
  /\ queue' = <<>>
  /\ UNCHANGED <<signalled, cancelled, serverEnd, maxConns, sharedVars>>

\* main returns, and with it every handler that is still running.
Exit ==
  /\ run = "return"
  /\ deferred = <<>>
  /\ Down

Kill ==
  /\ run # "down"
  /\ Down

-----------------------------------------------------------------------------
(***************************************************************************)
(* The users of the pool.                                                  *)
(***************************************************************************)
Does(t, from, to) ==
  /\ task[t] = from
  /\ task' = [task EXCEPT ![t] = to]

Enqueue(t) == queue' = Append(queue, t)

Leave(t) ==
  \/ t \notin ToSet(queue) /\ UNCHANGED queue
  \/ \E k \in DOMAIN queue : queue[k] = t /\ queue' = RemoveAt(queue, k)

PoolStep == UNCHANGED <<runVars, maxConns, sharedVars>>

\* A request comes in and asks for its connection.  A server that failed is not
\* shut down: the connections that its clients keep alive are still served.
Handle(r) ==
  /\ run = "serve" \/ (run = "return" /\ serverEnd = "failed")
  /\ Does(r, "off", "wait")
  /\ Enqueue(r)
  /\ PoolStep

\* A loop's next statement; for the election, TryHealthLeadership.
Ask(t) ==
  /\ Does(t, "idle", "wait")
  /\ Enqueue(t)
  /\ PoolStep

\* The leader's poll reads or writes with a connection of its own.
Poll ==
  /\ Does(Election, "lead", "leadWait")
  /\ Enqueue(Election)
  /\ PoolStep

\* Mutant: MaxConns is left at the library's default.
AcquireUnlimited ==
  /\ queue # <<>>
  /\ "pool" \in resources
  /\ Does(Head(queue), task[Head(queue)], IF task[Head(queue)] = "wait" THEN "use" ELSE "leadUse")
  /\ queue' = Tail(queue)
  /\ PoolStep

\* pgxpool serves those who wait in the order in which they came.
Acquire ==
  /\ queue # <<>>
  /\ "pool" \in resources
  /\ InUse < maxConns
  /\ Does(Head(queue), task[Head(queue)], IF task[Head(queue)] = "wait" THEN "use" ELSE "leadUse")
  /\ queue' = Tail(queue)
  /\ PoolStep

\* Mutant: a leader's statement does not give its connection back.
KeepBoth ==
  /\ \/ Does(Election, "use", "idle") \/ Does(Election, "use", "lead")
     \/ \E t \in Loops : Does(t, "use", "idle")
     \/ \E r \in Requests : Does(r, "use", "off")
  /\ UNCHANGED queue
  /\ PoolStep

\* A statement ends and gives its connection back; the election keeps the one
\* with the advisory lock.
Release ==
  /\ \/ Does(Election, "use", "idle") \/ Does(Election, "use", "lead") \/ Does(Election, "leadUse", "lead")
     \/ \E t \in Loops : Does(t, "use", "idle")
     \/ \E r \in Requests : Does(r, "use", "off")
  /\ UNCHANGED queue
  /\ PoolStep

\* The leader finds its session broken and closes it.
Resign ==
  /\ Does(Election, "lead", "idle")
  /\ UNCHANGED queue
  /\ PoolStep

\* Every call of a goroutine takes runCtx: it ends at once and gives back all
\* it has, and the goroutine returns.
Stop(t) ==
  /\ Stopping
  /\ task[t] # "off"
  /\ Does(t, task[t], "off")
  /\ Leave(t)
  /\ PoolStep

\* Requests have a context of their own: the client may go, and a pool that
\* closes refuses those who wait.
GiveUp(r) ==
  /\ Does(r, "wait", "off")
  /\ Leave(r)
  /\ PoolStep

\* Other instances, with the same or another configuration, provision.
OtherProvisions ==
  /\ stream = "none"
  /\ stream' \in {"ours", "theirs"}
  /\ UNCHANGED <<runVars, poolVars, consumer, others, overwritten>>

OtherFindsNoConsumer(settings) ==
  /\ stream # "none" /\ consumer = "none"
  /\ others' = others \cup {settings}
  /\ UNCHANGED <<runVars, poolVars, stream, consumer, overwritten>>

OtherUpsertsConsumer(settings) ==
  /\ settings \in others
  /\ consumer' = settings
  /\ overwritten' = (overwritten \/ (consumer = "ours" /\ settings = "theirs"))
  /\ UNCHANGED <<runVars, poolVars, stream, others>>

-----------------------------------------------------------------------------
StartStep == \/ Open \/ Connect \/ LookUpStream \/ AddStream \/ LookUpConsumer
             \/ AddConsumerLooksUp \/ UpsertConsumer \/ AddConsumerErrs \/ LookUpConsumerAgain
             \/ Subscribe \/ Start \/ StartFails

StopStep == \/ Shutdown \/ ShutdownDone \/ GraceOver \/ Cancel \/ Join \/ Unsubscribe \/ Drain
            \/ ClosePool \/ PoolClosed \/ Exit

LifeNext ==
  \/ Exec \/ StartStep \/ StopStep \/ Signal \/ ServerFails \/ Kill
  \/ \E r \in Requests : Handle(r) \/ GiveUp(r)
  \/ \E t \in Background : Ask(t) \/ Stop(t)
  \/ Poll \/ Acquire \/ Release \/ Resign
  \/ OtherProvisions
  \/ \E settings \in Rivals : OtherFindsNoConsumer(settings) \/ OtherUpsertsConsumer(settings)

\* Calls return, statements end, the grace period ends, contexts are obeyed
\* and a closed pool refuses; no signal, request or failure has to come.
LifeFairness ==
  /\ WF_lifeVars(StartStep)
  /\ WF_lifeVars(StopStep)
  /\ WF_lifeVars(Acquire)
  /\ \A t \in Tasks : WF_lifeVars(Release /\ task'[t] # task[t])
  /\ \A t \in Background : WF_lifeVars(Stop(t))
  /\ \A r \in Requests : WF_lifeVars("pool" \notin resources /\ GiveUp(r))

LifeSpec == LifeInit /\ [][LifeNext]_lifeVars /\ LifeFairness

-----------------------------------------------------------------------------
\* No goroutine ever meets a closed pool, a drained connection or an ended
\* subscription, however and whenever the process stops.
GoroutinesKeepResources ==
  \A t \in Background : task[t] # "off" => resources = {"pool", "nats", "subscription"}

\* A request that was let in meets a closed pool only after the HTTP server
\* failed or the grace period ran out.
RequestsKeepPool ==
  \A r \in Requests : task[r] # "off" => "pool" \in resources \/ serverEnd # "none"

\* "ProvisionWorkConsumer ensures the single durable pull consumer shared by all
\* instances has the delivery semantics required by processing workers": an
\* instance works only on a stream and a consumer that have its own settings.
WorksWithOwnSettings ==
  \A t \in Tasks : task[t] # "off" => stream = "ours" /\ consumer = "ours"

\* What does hold, whoever provisions first and whichever calls fail: the stream
\* has our settings, and the consumer had them when Run went on; only a request of
\* an instance that had found no consumer either replaces them afterwards.
WorksWithAcceptedSettings ==
  \A t \in Tasks : task[t] # "off" => stream = "ours" /\ (consumer = "ours" \/ overwritten)

\* With two connections or more nobody waits for one for ever, although the
\* leader keeps one and its polls need another.  With one connection they do:
\* the leader's first poll waits for itself, and everybody behind it.
CallersAreServed == \A t \in Tasks : maxConns > 1 /\ Waiting(t) ~> ~Waiting(t)

\* A signal always ends the process, and so does any error of Run, with one
\* connection too: nothing that Run waits for waits for something else.
RunEnds == signalled \/ run = "return" ~> run = "down"
=============================================================================
