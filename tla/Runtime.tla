------------------------------ MODULE Runtime ------------------------------
(* RuntimeApplication under main: it starts the services of its role and    *)
(* the two HTTP sockets in order, serves until it is told to stop, and      *)
(* takes everything down again; a start that throws half way takes down     *)
(* what it had started.  The main thread, the processor's worker and the    *)
(* accept threads of the sockets run concurrently; the event bus joins      *)
(* the worker to the geofence engine.                                       *)
EXTENDS Configuration

CONSTANTS
  Boots,       \* what a process may be given: [file, role, checked]
  Requests,    \* what clients ask: [method, path]
  Built,       \* dependencies whose adapters this build has
  Faults,      \* TRUE: a start, a flush and an evaluation may throw
  MaxStarts,   \* bound on the starts of one application object
  MaxBytes,    \* reads that fill admin_max_request_bytes
  MaxClients   \* bound on the connections a socket takes per start

VARIABLES
  mode,     \* what the main thread is doing; running_ is Up
  todo,     \* what start() or stop_started_services() has left to do
  fatal,    \* main is in its catch clause, or the object in its destructor
  starts,   \* how often start() was called
  cfg,      \* config_
  roles,    \* roles_
  failed,   \* startup_failed_
  svc,      \* lifecycle state of each service
  engine,   \* which Evaluator object exists: 0 before the first
  bus,      \* the handlers subscribed: [who, of], of the object they call
  worker,   \* the processor's thread: [at, calls]
  probes,   \* AdminService::components_, by name
  loop,     \* AdminRequestLoop::running_
  sock      \* the two servers with their accept threads

vars == <<mode, todo, fatal, starts, cfg, roles, failed, svc, engine, bus, worker, probes,
          loop, sock>>

Services == {"processor", "query", "geofence", "matching", "gateway"}
Sockets == {"admin", "metrics"}
Dependencies == {"kafka", "redis", "postgis", "h3"}
States == {"stopped", "starting", "ready", "draining", "failed"}
Methods == {"GET", "HEAD", "POST"}

ASSUME RuntimeAssumption ==
  /\ Built \subseteq Dependencies /\ Faults \in BOOLEAN
  /\ {MaxStarts, MaxClients} \subseteq Nat /\ MaxBytes \in Nat \ {0}
  /\ Requests \subseteq [method : Methods, path : STRING]

\* What start() may be called with: by main a checked configuration, by a test
\* whatever was read.
Offered ==
  {Loaded(b.file, b.role) :
     b \in {x \in Boots : Reads(x.file) /\ (x.checked => Loads(x.file, x.role))}}

Up == mode \in {"up", "stopping"}
Down == mode \in {"down", "dead"}
Live(x) == svc[x] \in {"starting", "ready", "draining"}
Runs(x) == svc[x] = "ready"

(****************************** configuration ******************************)
Selected(c) ==
  LET r == c.server.role
      Plays(part) == r \in {"standalone", part} IN
  {x \in Services \ {"geofence", "matching"} : Plays(x)}
    \cup {x \in {"geofence"} : Plays("geofence") /\ c.geofence.eval_enabled}
    \cup {x \in {"matching"} : Plays("matcher")}

Enabled(c, s) == IF s = "admin" THEN c.observability.admin_socket_enabled
                                ELSE c.observability.metrics_exporter_enabled
ConfiguredPort(c, s) == IF s = "admin" THEN c.observability.admin_socket_port
                                       ELSE c.observability.metrics_port

Needed(c) ==
  {d \in Dependencies : \/ d = "kafka" /\ c.observability.require_kafka_readiness
                        \/ d = "redis" /\ c.observability.require_redis_readiness
                        \/ d = "postgis" /\ c.observability.require_postgis_readiness
                        \/ d = "h3" /\ c.observability.require_h3_readiness}

EnabledSockets(c) == {s \in Sockets : Enabled(c, s)}

\* What start() and stop_started_services() go through, and in which order.
StartPlan(c) == Selected(c) \cup {"probes"} \cup EnabledSockets(c)
StopPlan(rs, c) == rs \cup EnabledSockets(c)
StartTurn ==
  [processor |-> 1, query |-> 2, geofence |-> 3, matching |-> 4, gateway |-> 5, probes |-> 6,
   admin |-> 7, metrics |-> 8]
\* Mutant: the services first, the sockets last.
ServicesFirst ==
  [gateway |-> 1, matching |-> 2, geofence |-> 3, query |-> 4, processor |-> 5, metrics |-> 6,
   admin |-> 7]
StopTurn ==
  [metrics |-> 1, admin |-> 2, gateway |-> 3, matching |-> 4, geofence |-> 5, query |-> 6,
   processor |-> 7]

(************************** health and the answers *************************)
\* The list of probes start() registers, and which of them count.
ProbesOf(rs, c) ==
  {"runtime_startup", "event_bus"} \cup rs \cup {s \in Sockets : Enabled(c, s)} \cup Needed(c)
Required(p) == p \notin Sockets \cup {"event_bus"}

\* A dependency counts as ready when the build has its adapter.
HasAdapter(d) == d \in Built

Passes(p, readiness) ==
  CASE p = "runtime_startup" -> ~failed
    [] p \in Services -> IF readiness THEN Runs(p) ELSE Live(p)
    [] p \in Dependencies -> readiness => HasAdapter(p)
    [] OTHER -> TRUE
Healthy(readiness) == \A p \in probes : Required(p) => Passes(p, readiness)
IsHealthy == Up /\ ~failed /\ (\A x \in roles : svc[x] \in {"ready", "draining"})
                /\ Healthy(FALSE)

\* The admin routes: each configured path with an alias, health before
\* readiness before metrics.
Alias(path, plain, other) == IF path = plain THEN other ELSE plain
Route(c, path) ==
  LET o == c.observability IN
  CASE path \in {o.health_path, Alias(o.health_path, "/health", "/healthz")} -> "health"
    [] path \in {o.readiness_path, Alias(o.readiness_path, "/ready", "/readyz")} -> "ready"
    [] path = o.metrics_path -> "metrics"
    [] OTHER -> "none"

\* The endpoints; above them the router, the application, the request loop.
Status(route) == IF route = "metrics" \/ Healthy(route = "ready") THEN 200 ELSE 503
Routed(req) ==
  CASE req.method = "POST" -> 405
    [] Route(cfg, req.path) = "none" -> 404
    [] OTHER -> Status(Route(cfg, req.path))
Handled(req) == IF cfg.observability.admin_http_enabled THEN Routed(req) ELSE 404
AdminAnswer(req) == IF loop THEN Handled(req) ELSE 503

MetricsAnswer(req) ==
  CASE req.method = "POST" -> 405
    [] req.path # cfg.observability.metrics_path -> 404
    [] OTHER -> 200

AnswerOf(s, req) == IF s = "admin" THEN AdminAnswer(req) ELSE MetricsAnswer(req)

\* What a request line without two spaces is taken for.
Unparsed(s) == [method |-> "GET", path |-> IF s = "admin" THEN "/health" ELSE "/"]

(****************************** the beginning ******************************)
NewSocket == [life |-> "stopped", port |-> 0, running |-> FALSE, fd |-> "none", at |-> "none",
              taken |-> 0, got |-> 0, req |-> Unparsed("admin"), code |-> 0, whole |-> FALSE]

Init ==
  /\ mode = "down" /\ todo = {} /\ fatal = FALSE /\ starts = 0
  /\ cfg = Default /\ roles = {} /\ failed = FALSE
  /\ svc = [x \in Services |-> "stopped"] /\ engine = 0 /\ bus = {}
  /\ worker = [at |-> "none", calls |-> {}]
  /\ probes = {} /\ loop = FALSE /\ sock = [s \in Sockets |-> NewSocket]

Threads == <<svc, engine, bus, worker, loop, sock>>

\* x is next, and its turn is over.
Doing(turn, x) == x \in todo /\ \A y \in todo : turn[x] <= turn[y]
Done(x) == todo' = todo \ {x}

(******************************* the main thread ***************************)
\* start(): everything the last start left is replaced before the configuration
\* is looked at.
Start ==
  /\ mode = "down" /\ ~fatal /\ starts < MaxStarts
  /\ starts' = starts + 1
  /\ \E c \in Offered :
       /\ cfg' = c
       /\ IF Valid(c) THEN mode' = "starting" /\ roles' = Selected(c) /\ todo' = StartPlan(c)
                      ELSE mode' = "failing" /\ roles' = {} /\ todo' = StopPlan({}, c)
  /\ failed' = FALSE /\ probes' = {} /\ sock' = [s \in Sockets |-> NewSocket] /\ loop' = FALSE
  /\ UNCHANGED <<fatal, svc, engine, bus, worker>>

\* The catch clauses of start(): back through stop_started_services().
\* Mutant: what had been started stays.
GiveUpAtOnce == mode' = "failing" /\ todo' = {}
GiveUp == mode' = "failing" /\ todo' = StopPlan(roles, cfg)

\* subscribe(), and subscriptions that are dropped, all of those of a kind.
Subscribed(handlers) == bus \cup handlers
Unsubscribed(kinds) == {h \in bus : h.who \notin kinds}

\* The handlers a service wires.  The metrics of every service are counted by
\* handlers that the processor alone subscribes.
Wires(x) ==
  CASE x = "processor" -> [who : {"observer", "writer", "metrics"}, of : {starts}]
    [] x = "geofence" -> {[who |-> "fence", of |-> engine + 1]}
    [] OTHER -> {}

\* A service's start_with_bus returns: its objects are new, its handlers wired,
\* its thread running.
Began(x) ==
  /\ svc' = [svc EXCEPT ![x] = "ready"]
  /\ engine' = IF x = "geofence" THEN engine + 1 ELSE engine
  /\ bus' = Subscribed(Wires(x))
  /\ worker' = IF x = "processor" THEN [at |-> "test", calls |-> {}] ELSE worker

StartService(x) ==
  /\ mode = "starting" /\ Doing(StartTurn, x)
  /\ \/ Began(x) /\ Done(x) /\ UNCHANGED mode
     \/ /\ Faults /\ GiveUp
        /\ svc' = [svc EXCEPT ![x] = "starting"] /\ UNCHANGED <<engine, bus, worker>>
  /\ UNCHANGED <<fatal, starts, cfg, roles, failed, probes, loop, sock>>

RegisterProbes ==
  /\ mode = "starting" /\ Doing(StartTurn, "probes")
  /\ probes' = ProbesOf(roles, cfg) /\ Done("probes")
  /\ UNCHANGED <<mode, fatal, starts, cfg, roles, failed, Threads>>

\* The request loop behind the admin socket starts and stops with it.
LoopStarts(s) == loop' = (loop \/ s = "admin")
LoopStops(s) == loop' = (loop /\ s # "admin")

\* A server's start: the port goes through a uint16_t; socket, bind or listen may
\* fail, and then the descriptor is closed again.
Listen(s) ==
  /\ mode = "starting" /\ Doing(StartTurn, s)
  /\ \/ /\ sock' = [sock EXCEPT ![s].life = "ready", ![s].running = TRUE, ![s].fd = "open",
                                ![s].at = "test", ![s].port = ConfiguredPort(cfg, s) % PortCount]
        /\ LoopStarts(s)
        /\ Done(s) /\ UNCHANGED mode
     \/ /\ Faults /\ GiveUp
        /\ sock' = [sock EXCEPT ![s].life = "failed"] /\ UNCHANGED loop
  /\ UNCHANGED <<fatal, starts, cfg, roles, failed, svc, engine, bus, worker, probes>>

Started ==
  /\ mode = "starting" /\ todo = {} /\ mode' = "up"
  /\ UNCHANGED <<todo, fatal, starts, cfg, roles, failed, probes, Threads>>

\* main leaves its wait on a signal, or when the runtime is not healthy.
Stop ==
  /\ mode = "up"
  /\ mode' = "stopping" /\ todo' = StopPlan(roles, cfg)
  /\ UNCHANGED <<fatal, starts, cfg, roles, failed, probes, Threads>>

Stopping == mode \in {"stopping", "failing"}
StepDone(x) == Done(x) /\ UNCHANGED <<mode, fatal>>

\* stop() of a server, step by step: nothing to do, the flag, the descriptor,
\* the join.  shutdown() wakes a thread that waits in accept().
Drain(s) ==
  /\ Stopping /\ Doing(StopTurn, s) /\ sock[s].life # "draining"
  /\ IF sock[s].running \/ sock[s].fd = "open"
       THEN /\ sock' = [sock EXCEPT ![s].life = "draining", ![s].running = FALSE]
            /\ UNCHANGED <<todo, mode, fatal>>
       ELSE StepDone(s) /\ UNCHANGED sock
  /\ UNCHANGED <<starts, cfg, roles, failed, svc, engine, bus, worker, probes, loop>>

\* Mutant: close() alone, which leaves a thread in accept() where it is.
CloseOnly(s) ==
  /\ Stopping /\ Doing(StopTurn, s) /\ sock[s].life = "draining" /\ sock[s].fd = "open"
  /\ sock' = [sock EXCEPT ![s].fd = "closed"]
  /\ UNCHANGED <<mode, todo, fatal, starts, cfg, roles, failed, svc, engine, bus, worker, probes, loop>>
Close(s) ==
  /\ Stopping /\ Doing(StopTurn, s) /\ sock[s].life = "draining" /\ sock[s].fd = "open"
  /\ sock' = [sock EXCEPT ![s].fd = "shut"]
  /\ UNCHANGED <<mode, todo, fatal, starts, cfg, roles, failed, svc, engine, bus, worker, probes, loop>>

Join(s) ==
  /\ Stopping /\ Doing(StopTurn, s)
  /\ sock[s].life = "draining" /\ sock[s].fd # "open" /\ sock[s].at = "gone"
  /\ sock' = [sock EXCEPT ![s].life = "stopped", ![s].at = "none"]
  /\ LoopStops(s) /\ StepDone(s)
  /\ UNCHANGED <<starts, cfg, roles, failed, svc, engine, bus, worker, probes>>

\* Mutant: the engine's objects go with it, as those of query and matching do.
StopDropsObjects(x) ==
  /\ Stopping /\ Doing(StopTurn, x) /\ (x = "processor" => svc[x] \in {"stopped", "starting"})
  /\ svc' = IF x = "matching" \/ Runs(x) THEN [svc EXCEPT ![x] = "stopped"] ELSE svc
  /\ bus' = IF x = "geofence" /\ Runs(x) THEN Unsubscribed({"fence"}) ELSE bus
  /\ engine' = IF x = "geofence" THEN engine + 1 ELSE engine
  /\ StepDone(x)
  /\ UNCHANGED <<starts, cfg, roles, failed, worker, probes, loop, sock>>

\* stop() of the services that only change themselves.  Matching stops whatever
\* its state; the others return when they do not run.  Stopping the engine drops
\* its subscription and leaves its objects: publish() calls a copy of the list.
StopService(x) ==
  /\ Stopping /\ Doing(StopTurn, x) /\ (x = "processor" => svc[x] \in {"stopped", "starting"})
  /\ svc' = IF x = "matching" \/ Runs(x) THEN [svc EXCEPT ![x] = "stopped"] ELSE svc
  /\ bus' = IF x = "geofence" /\ Runs(x) THEN Unsubscribed({"fence"}) ELSE bus
  /\ StepDone(x)
  /\ UNCHANGED <<starts, cfg, roles, failed, engine, worker, probes, loop, sock>>

TellWorker ==
  /\ Stopping /\ Doing(StopTurn, "processor") /\ Runs("processor")
  /\ svc' = [svc EXCEPT !["processor"] = "draining"]
  /\ UNCHANGED <<mode, todo, fatal, starts, cfg, roles, failed, engine, bus, worker, probes, loop, sock>>

\* The join with the worker, the last flush and the end of the subscriptions.
\* The flush may throw out of stop(): main's catch clause, or after a failed
\* start the destructor, then stops once more what still runs, and a second
\* throw from there ends the process.
StopProcessor ==
  /\ Stopping /\ Doing(StopTurn, "processor") /\ svc["processor"] = "draining"
  /\ worker.at = "gone"
  /\ \/ /\ svc' = [svc EXCEPT !["processor"] = "stopped"]
        /\ bus' = Unsubscribed({"observer", "writer", "metrics"})
        /\ worker' = [worker EXCEPT !.at = "none"]
        /\ StepDone("processor")
     \/ /\ Faults /\ fatal' = TRUE
        /\ mode' = IF fatal THEN "dead" ELSE mode
        /\ todo' = StopPlan(roles, cfg) /\ UNCHANGED <<svc, bus, worker>>
  /\ UNCHANGED <<starts, cfg, roles, failed, engine, probes, loop, sock>>

Stopped ==
  /\ Stopping /\ todo = {}
  /\ mode' = "down"
  /\ IF mode = "failing"
       THEN failed' = TRUE /\ roles' = {} /\ probes' = {"runtime_startup"}
       ELSE UNCHANGED <<failed, roles, probes>>
  /\ UNCHANGED <<todo, fatal, starts, cfg, Threads>>

(******************************** the worker *******************************)
Main == <<mode, todo, fatal, starts, cfg, roles, failed, svc, engine, bus, probes, loop, sock>>

\* The handlers that write an event that is accepted to the state store.
WriterWired == {"observer", "writer"} \subseteq {h.who : h \in bus}

\* The loop looks at the stop flag, then polls; an event that is accepted goes
\* over the bus: the observers ask for the state write, the writer does it, the
\* observers ask for the evaluation.
WorkerTests ==
  /\ worker.at = "test"
  /\ worker' = [worker EXCEPT !.at = IF svc["processor"] = "draining" THEN "gone" ELSE "poll"]
  /\ UNCHANGED Main
Accepts ==
  /\ worker.at = "poll" /\ \E got \in BOOLEAN :
       worker' = [worker EXCEPT !.at = IF got /\ WriterWired THEN "publish" ELSE "test"]
  /\ UNCHANGED Main

\* publish() copies the callbacks under its lock and calls them outside it.
Publish ==
  /\ worker.at = "publish"
  /\ worker' = [at |-> "call", calls |-> {h.of : h \in {g \in bus : g.who = "fence"}}]
  /\ UNCHANGED Main
Call ==
  /\ worker.at = "call"
  /\ \/ worker' = [worker EXCEPT !.at = IF worker.calls = {} THEN "test" ELSE "call",
                                 !.calls = {}]
        /\ UNCHANGED Main
     \/ \* an exception nobody catches on this thread
        /\ Faults /\ worker.calls # {} /\ mode' = "dead"
        /\ UNCHANGED <<todo, fatal, starts, cfg, roles, failed, svc, engine, bus, worker,
                       probes, loop, sock>>

(***************************** an accept thread ****************************)
NotSocket == <<mode, todo, fatal, starts, cfg, roles, failed, svc, engine, bus, worker, probes, loop>>
Set(s, new) == sock' = [sock EXCEPT ![s] = new] /\ UNCHANGED NotSocket

AcceptTests(s) ==
  /\ sock[s].at = "test"
  /\ Set(s, [sock[s] EXCEPT !.at = IF sock[s].running THEN "accept" ELSE "gone"])

Accept(s) ==
  /\ sock[s].at = "accept" /\ sock[s].fd = "open" /\ sock[s].taken < MaxClients
  /\ \E r \in Requests :
       Set(s, [sock[s] EXCEPT !.at = "read", !.taken = @ + 1, !.got = 0, !.req = r])

AcceptFails(s) ==
  /\ sock[s].at = "accept" /\ sock[s].fd = "shut"
  /\ Set(s, [sock[s] EXCEPT !.at = "gone"])

\* One more read that does not end the header.
Recv(s) ==
  /\ sock[s].at = "read" /\ sock[s].got < MaxBytes
  /\ Set(s, [sock[s] EXCEPT !.got = @ + 1])

\* The read loop ends: with a whole request, a full buffer, a time-out, or the
\* client's end of the stream, after which what came is taken for a request.
\* The answer is made there and then.
Reply(s) ==
  /\ sock[s].at = "read"
  /\ \/ sock[s].got = MaxBytes /\ Set(s, [sock[s] EXCEPT !.at = "send", !.code = 413, !.whole = FALSE])
     \/ sock[s].got < MaxBytes /\ Set(s, [sock[s] EXCEPT !.at = "send", !.code = 408, !.whole = FALSE])
     \/ sock[s].got < MaxBytes /\ \E r \in {sock[s].req, Unparsed(s)} :
          Set(s, [sock[s] EXCEPT !.at = "send", !.req = r, !.code = AnswerOf(s, r), !.whole = TRUE])

Send(s) ==
  /\ sock[s].at = "send"
  /\ Set(s, [sock[s] EXCEPT !.at = "test", !.got = 0, !.req = Unparsed("admin"),
                            !.code = 0, !.whole = FALSE])

(******************************** the system *******************************)
\* The exporter is the admin server over again, without a request loop.
ServerStops(s) == Drain(s) \/ Close(s) \/ Join(s)
ExporterStops == ServerStops("metrics")
ExporterListens == Listen("metrics")
TakeDown ==
  \/ ServerStops("admin") \/ ExporterStops
  \/ \E x \in Services : StopService(x)
  \/ TellWorker \/ StopProcessor \/ Stopped
BringUp ==
  \/ \E x \in Services : StartService(x)
  \/ Listen("admin") \/ ExporterListens
  \/ RegisterProbes \/ Started
WorkerStep == WorkerTests \/ Accepts \/ Publish \/ Call
ThreadStep(s) == AcceptTests(s) \/ AcceptFails(s) \/ Reply(s) \/ Send(s)
ServerThread(s) == ThreadStep(s) \/ Accept(s) \/ Recv(s)
ExporterThread == ServerThread("metrics")

Next ==
  /\ mode # "dead"
  /\ \/ Start \/ BringUp \/ Stop \/ TakeDown \/ WorkerStep
     \/ ServerThread("admin") \/ ExporterThread

\* The threads are scheduled, and a read does not wait longer than its time-out;
\* no signal need come, and no client.
Fairness ==
  /\ WF_vars(mode # "dead" /\ BringUp) /\ WF_vars(mode # "dead" /\ TakeDown)
  /\ WF_vars(mode # "dead" /\ WorkerStep)
  /\ \A s \in Sockets : WF_vars(mode # "dead" /\ ThreadStep(s))

Spec == Init /\ [][Next]_vars
FairSpec == Spec /\ Fairness

(******************************** properties *******************************)
\* The variables keep to their types; the sockets get ports that fit a uint16_t.
TypeOK ==
  /\ mode \in {"down", "starting", "failing", "up", "stopping", "dead"}
  /\ fatal \in BOOLEAN /\ failed \in BOOLEAN /\ loop \in BOOLEAN
  /\ starts \in 0..MaxStarts /\ engine \in 0..MaxStarts
  /\ roles \subseteq Services /\ svc \in [Services -> States]
  /\ bus \subseteq [who : {"observer", "writer", "metrics", "fence"}, of : 1..MaxStarts]
  /\ worker \in [at : {"none", "test", "poll", "publish", "call", "gone"}, calls : SUBSET (1..MaxStarts)]
  /\ probes \subseteq Services \cup Sockets \cup Dependencies \cup {"runtime_startup", "event_bus"}
  /\ mode \in {"starting", "up", "stopping"} =>
       \A s \in Sockets : Enabled(cfg, s) => ConfiguredPort(cfg, s) \in PortNumbers

\* What runs is what the configuration selects, no more and no less: while the
\* application is up every service of its role runs, each handler is subscribed
\* once, the enabled sockets listen on the configured ports, and it counts as
\* healthy, so it never gives itself up; once it is down, after a failed start
\* or a stop that threw on the way, nothing of it is left.
WiredAsConfigured ==
  /\ mode = "up" =>
       /\ {x \in Services : Runs(x)} = Selected(cfg)
       /\ {h.who : h \in bus} =
            (IF "processor" \in roles THEN {"observer", "writer", "metrics"} ELSE {})
              \cup (IF "geofence" \in roles THEN {"fence"} ELSE {})
       /\ \A g, h \in bus : g.who = h.who => g = h
       /\ \A s \in Sockets :
            Enabled(cfg, s) <=> sock[s].fd = "open" /\ sock[s].port = ConfiguredPort(cfg, s)
       /\ IsHealthy
  /\ mode = "down" =>
       /\ \A x \in Services : svc[x] \in {"stopped", "starting"}
       /\ bus = {} /\ worker.at = "none" /\ ~loop
       /\ \A s \in Sockets : ~sock[s].running /\ sock[s].fd # "open" /\ sock[s].at = "none"

\* A handler that the worker is about to call, although its subscription may be
\* gone, belongs to an engine that still exists.
HandlersAlive == worker.calls \subseteq {engine}

\* When a client is sent its answer, the answer is the one it would get now: no
\* service it speaks of stopped, no probe list changed, while it was on its way.
AnswersAreCurrent ==
  \A s \in Sockets : sock[s].at = "send" /\ sock[s].whole /\ mode # "dead" =>
                       sock[s].code = AnswerOf(s, sock[s].req)

\* A stop ends, whatever clients are connected and whatever the worker does.
StopCompletes == [](Stopping => <>Down)
=============================================================================
