--------------------------- MODULE Runtime_proofs ---------------------------
(* Proofs about Runtime, for any files, requests, adapters and bounds.      *)
EXTENDS Runtime, TLAPS

Serves(x) == svc[x] \in {"ready", "draining"}
Open(s) == sock[s].life \in {"ready", "draining"}
Names == Services \cup Sockets \cup {"probes"}

\* What a socket may be asked, and be taken to be asked.
Asked == Requests \cup {Unparsed(s) : s \in Sockets}
SockType ==
  [life : States, port : Int, running : BOOLEAN, fd : {"none", "open", "shut"},
   at : {"none", "test", "accept", "read", "send", "gone"}, taken : Nat, got : Nat,
   req : Asked, code : Nat, whole : BOOLEAN]

\* The plan: what start() has not come to, and what it has got done.
PlanOK ==
  /\ sock \in [Sockets -> SockType] /\ todo \subseteq Names
  /\ mode \in {"down", "up"} => todo = {}
  /\ mode = "starting" => todo \subseteq StartPlan(cfg)
  /\ Stopping => "probes" \notin todo
  /\ mode \in {"starting", "up"} =>
       /\ roles = Selected(cfg) /\ ~failed
       /\ \A x \in roles : x \in todo \/ Runs(x)
       /\ \A s \in EnabledSockets(cfg) : s \in todo \/ sock[s].life = "ready"
       /\ "probes" \in todo \/ probes = ProbesOf(roles, cfg)
  /\ mode # "down" => starts > 0
  /\ engine <= starts
  /\ mode = "starting" /\ "geofence" \in todo => engine < starts

\* A service that runs was started and is still to be stopped.
ServiceOK(x) ==
  /\ svc[x] # "failed"
  /\ svc[x] = "draining" => x = "processor" /\ mode \notin {"starting", "up"}
  /\ Serves(x) => /\ x \in roles /\ mode # "down"
                  /\ mode = "starting" => x \notin todo
                  /\ Stopping => x \in todo

\* So is an open socket.
SocketOK(s) ==
  /\ sock[s].at # "none" \/ sock[s].fd = "open" \/ sock[s].running => Open(s)
  /\ sock[s].life = "ready" => sock[s].running /\ sock[s].fd = "open"
  /\ sock[s].life = "draining" => mode \notin {"starting", "up"} /\ ~sock[s].running
  /\ Open(s) => /\ Enabled(cfg, s) /\ mode # "down" /\ sock[s].at # "none"
                /\ mode = "starting" => s \notin todo
                /\ Stopping => s \in todo
                /\ mode \in {"starting", "up"} => sock[s].port = ConfiguredPort(cfg, s)

\* Handlers are there as long as their service runs, and name its objects.
BusOK ==
  /\ \A h \in bus : IF h.who = "fence" THEN Runs("geofence") /\ h.of = engine
                                       ELSE Serves("processor") /\ h.of = starts
  /\ Runs("geofence") => \E h \in bus : h.who = "fence"
  /\ Serves("processor") =>
       \A w \in {"observer", "writer", "metrics"} : \E h \in bus : h.who = w

\* The worker lives as long as the processor, and has nothing to call while the
\* engine is still to be started.
WorkerOK ==
  /\ worker.at # "none" <=> Serves("processor")
  /\ worker.at = "gone" => svc["processor"] = "draining"
  /\ worker.calls # {} => worker.at = "call"
  /\ worker.calls \subseteq {engine}
  /\ mode = "starting" /\ "geofence" \in todo => worker.calls = {}

\* The admin socket is opened last but for the exporter, and closed before any
\* service stops.
AdminOK ==
  /\ loop <=> Open("admin")
  /\ mode = "starting" /\ Open("admin") => todo \subseteq {"metrics"}
  /\ AnswersAreCurrent

LifeInv ==
  /\ TypeOK /\ PlanOK /\ BusOK /\ WorkerOK
  /\ \A x \in Services : ServiceOK(x)
  /\ \A s \in Sockets : SocketOK(s)

LEMMA KeepsPort == \A n \in PortNumbers : n \in Int /\ n % PortCount = n
<1>1. PortCount \in Nat /\ PortCount > 0
  BY DEF PortCount
<1>. QED BY <1>1 DEF PortNumbers

LEMMA LifeInit == Init => LifeInv
<1> SUFFICES ASSUME Init PROVE LifeInv
  OBVIOUS
<1>1. NewSocket \in SockType
  <2>1. Unparsed("admin") \in Asked
    BY DEF Sockets, Asked
  <2> HIDE DEF Unparsed
  <2>. QED BY <2>1 DEF NewSocket, SockType, States
<1>2. sock \in [Sockets -> SockType] /\ \A s \in Sockets : sock[s] = NewSocket
  BY <1>1 DEF Init
<1>3. TypeOK
  <2>1. starts \in 0..MaxStarts /\ engine \in 0..MaxStarts
    BY RuntimeAssumption DEF Init
  <2>2. svc \in [Services -> States] /\ roles \subseteq Services
    BY DEF Init, States
  <2>3. worker \in [at : {"none", "test", "poll", "publish", "call", "gone"}, calls : SUBSET (1..MaxStarts)]
    BY DEF Init
  <2>4. mode = "down" /\ bus = {} /\ probes = {} /\ fatal = FALSE /\ failed = FALSE /\ loop = FALSE
    BY DEF Init
  <2>. QED BY <2>1, <2>2, <2>3, <2>4 DEF TypeOK
<1>4. PlanOK
  BY <1>2 DEF Init, PlanOK, Stopping
<1>5. \A s \in Sockets : SocketOK(s)
  BY <1>2 DEF SocketOK, NewSocket, Open
<1>6. BusOK /\ WorkerOK /\ \A x \in Services : ServiceOK(x)
  BY DEF Init, BusOK, WorkerOK, ServiceOK, Serves, Runs, Services
<1>. QED BY <1>3, <1>4, <1>5, <1>6 DEF LifeInv

\* Whatever is valid has ports a socket can have.
LEMMA ValidPorts ==
  ASSUME NEW c, Valid(c)
  PROVE  \A s \in Sockets : ConfiguredPort(c, s) \in PortNumbers
<1> DEFINE o == c.observability
<1>1. /\ "observability" \in DOMAIN Default /\ Default["observability"] = ObservabilityConfig
      /\ {"metrics_port", "admin_socket_port"} \subseteq DOMAIN ObservabilityConfig
  BY SMT DEF Default, ObservabilityConfig
<1>2. /\ Admits("metrics_port", c["observability"]["metrics_port"])
      /\ Admits("admin_socket_port", c["observability"]["admin_socket_port"])
  BY <1>1, Zenon DEF Valid
<1>3. ASSUME NEW k \in PortsOrZero, NEW v, Admits(k, v) PROVE v \in PortNumbers
  <2>1. /\ k # "role" /\ k # "log_level" /\ k # "h3_resolution"
        /\ k \notin PathKeys /\ k \notin Bools \cup MayBeEmpty /\ k \notin Strings
        /\ k \notin NonNegative /\ k \notin Ports
    BY DEF PortsOrZero, Ports, PathKeys, Bools, MayBeEmpty, Strings, NonNegative
  <2>2. v \in PortsFor(k)
    BY <1>3, <2>1, Zenon DEF Admits
  <2>. QED BY <2>1, <2>2 DEF PortsFor
<1>4. o.metrics_port \in PortNumbers /\ o.admin_socket_port \in PortNumbers
  BY <1>2, <1>3 DEF PortsOrZero
<1>. QED BY <1>4 DEF ConfiguredPort, Sockets
-----------------------------------------------------------------------------
(********************************* the steps *******************************)
\* Only the worker moves.
LEMMA WorkerSteps == LifeInv /\ mode # "dead" /\ WorkerStep => LifeInv'
<1> SUFFICES ASSUME LifeInv, mode # "dead", WorkerStep PROVE LifeInv'
  OBVIOUS
<1>0. TypeOK /\ PlanOK /\ BusOK /\ WorkerOK /\ (\A x \in Services : ServiceOK(x)) /\ (\A s \in Sockets : SocketOK(s))
  BY DEF LifeInv
<1>1. UNCHANGED <<todo, fatal, starts, cfg, roles, failed, svc, engine, bus, probes, loop, sock>>
  BY DEF WorkerStep, WorkerTests, Accepts, Publish, Call, Main
<1>2. worker.at # "none" /\ mode # "down"
  <2>1. worker.at # "none"
    BY DEF WorkerStep, WorkerTests, Accepts, Publish, Call
  <2>. QED BY <1>0, <2>1 DEF WorkerOK, ServiceOK, Services
<1>3. CASE UNCHANGED mode
  <2>1. /\ worker' \in [at : {"test", "poll", "publish", "call", "gone"}, calls : SUBSET (1..MaxStarts)]
        /\ worker'.calls \subseteq {engine}
        /\ worker'.at = "gone" => svc["processor"] = "draining"
        /\ worker'.calls # {} => worker'.at = "call"
        /\ mode = "starting" /\ "geofence" \in todo => worker'.calls = {}
    <3>1. CASE WorkerTests
      BY <1>0, <3>1 DEF WorkerTests, TypeOK, WorkerOK
    <3>2. CASE Accepts
      BY <1>0, <3>2 DEF Accepts, TypeOK, WorkerOK
    <3>3. CASE Publish
      <4> DEFINE fences == {h.of : h \in {g \in bus : g.who = "fence"}}
      <4>1. fences \subseteq {engine} /\ fences \subseteq 1..MaxStarts /\ (~Runs("geofence") => fences = {})
        BY <1>0 DEF BusOK, TypeOK
      <4>2. mode = "starting" /\ "geofence" \in todo => ~Runs("geofence")
        BY <1>0 DEF ServiceOK, Services, Serves, Runs
      <4>3. worker' = [at |-> "call", calls |-> fences]
        BY <3>3 DEF Publish
      <4> HIDE DEF fences
      <4>. QED BY <4>1, <4>2, <4>3
    <3>4. CASE Call
      BY <1>0, <1>3, <3>4 DEF Call, TypeOK, WorkerOK
    <3>. QED BY <3>1, <3>2, <3>3, <3>4 DEF WorkerStep
  <2>2. WorkerOK'
    BY <1>0, <1>1, <1>2, <1>3, <2>1 DEF WorkerOK, Serves
  <2>3. PlanOK' /\ BusOK' /\ (\A x \in Services : ServiceOK(x)') /\ (\A s \in Sockets : SocketOK(s)')
    BY <1>0, <1>1, <1>3 DEF PlanOK, BusOK, ServiceOK, SocketOK, Serves, Runs, Open, Stopping
  <2>4. TypeOK'
    <3>1. worker' \in [at : {"none", "test", "poll", "publish", "call", "gone"}, calls : SUBSET (1..MaxStarts)]
      BY <2>1
    <3>. QED BY <1>0, <1>1, <1>3, <3>1 DEF TypeOK
  <2>. QED BY <2>2, <2>3, <2>4 DEF LifeInv
<1>4. CASE mode' # mode
  <2>1. mode' = "dead" /\ UNCHANGED worker
    BY <1>4 DEF WorkerStep, WorkerTests, Accepts, Publish, Call, Main
  <2>2. PlanOK' /\ BusOK' /\ WorkerOK' /\ (\A x \in Services : ServiceOK(x)') /\ (\A s \in Sockets : SocketOK(s)')
    BY <1>0, <1>1, <1>2, <2>1 DEF PlanOK, BusOK, WorkerOK, ServiceOK, SocketOK, Serves, Runs, Open, Stopping
  <2>3. TypeOK'
    BY <1>0, <1>1, <2>1 DEF TypeOK
  <2>. QED BY <2>2, <2>3 DEF LifeInv
<1>. QED BY <1>3, <1>4

\* What an accept thread does with its socket.
LEMMA ThreadType ==
  ASSUME NEW s \in Sockets, ServerThread(s), sock \in [Sockets -> SockType]
  PROVE  /\ sock' \in [Sockets -> SockType]
         /\ \A t \in Sockets : /\ sock'[t].life = sock[t].life /\ sock'[t].port = sock[t].port
                               /\ sock'[t].running = sock[t].running /\ sock'[t].fd = sock[t].fd
                               /\ sock'[t].at = "none" <=> sock[t].at = "none"
         /\ UNCHANGED NotSocket
<1>1. PICK new \in SockType :
        /\ Set(s, new) /\ new.at # "none" /\ sock[s].at # "none"
        /\ new.life = sock[s].life /\ new.port = sock[s].port
        /\ new.running = sock[s].running /\ new.fd = sock[s].fd
  <2> DEFINE Kept(new) ==
        /\ new \in SockType /\ Set(s, new) /\ new.at # "none" /\ sock[s].at # "none"
        /\ new.life = sock[s].life /\ new.port = sock[s].port
        /\ new.running = sock[s].running /\ new.fd = sock[s].fd
  <2>0. sock[s] \in SockType
    OBVIOUS
  <2>1. CASE AcceptTests(s)
    <3> DEFINE new == [sock[s] EXCEPT !.at = IF sock[s].running THEN "accept" ELSE "gone"]
    <3>1. Kept(new)
      BY <2>0, <2>1 DEF AcceptTests, SockType
    <3>. QED BY <3>1
  <2>2. CASE Accept(s)
    <3>1. PICK r \in Requests :
            Set(s, [sock[s] EXCEPT !.at = "read", !.taken = @ + 1, !.got = 0, !.req = r])
      BY <2>2 DEF Accept
    <3> DEFINE new == [sock[s] EXCEPT !.at = "read", !.taken = @ + 1, !.got = 0, !.req = r]
    <3>2. r \in Asked
      BY DEF Asked
    <3>3. new \in SockType
      <4> DEFINE asked == [sock[s] EXCEPT !.at = "read", !.got = 0, !.req = r]
      <4>1. asked \in SockType
        BY <2>0, <3>2 DEF SockType
      <4>2. new = [asked EXCEPT !.taken = @ + 1]
        BY <2>0 DEF SockType
      <4> HIDE DEF asked, new
      <4>. QED BY <4>1, <4>2 DEF SockType
    <3>4. sock[s].at = "accept"
      BY <2>2 DEF Accept
    <3>5. /\ new.at # "none" /\ new.life = sock[s].life /\ new.port = sock[s].port
          /\ new.running = sock[s].running /\ new.fd = sock[s].fd
      BY <2>0 DEF SockType
    <3>6. Kept(new)
      BY <3>1, <3>3, <3>4, <3>5
    <3>. QED BY <3>6
  <2>3. CASE AcceptFails(s)
    <3> DEFINE new == [sock[s] EXCEPT !.at = "gone"]
    <3>1. Kept(new)
      BY <2>0, <2>3 DEF AcceptFails, SockType
    <3>. QED BY <3>1
  <2>4. CASE Recv(s)
    <3> DEFINE new == [sock[s] EXCEPT !.got = @ + 1]
    <3>1. Kept(new)
      BY <2>0, <2>4 DEF Recv, SockType
    <3>. QED BY <3>1
  <2>5. CASE Reply(s)
    <3>1. \A r : AnswerOf(s, r) \in Nat
      BY SMT DEF AnswerOf, AdminAnswer, Handled, Routed, Status, MetricsAnswer
    <3>2. Unparsed(s) \in Asked
      BY DEF Asked
    <3> DEFINE Told(c, w, r) == [sock[s] EXCEPT !.at = "send", !.req = r, !.code = c, !.whole = w]
               Untold(c) == [sock[s] EXCEPT !.at = "send", !.code = c, !.whole = FALSE]
    <3>3. PICK code \in Nat, whole \in BOOLEAN, r \in Asked : Set(s, Told(code, whole, r))
      <4>1. sock[s].req \in Asked
        BY <2>0 DEF SockType
      <4>2. \A c \in Nat : Untold(c) = Told(c, FALSE, sock[s].req)
        BY <2>0 DEF SockType
      <4>3. 408 \in Nat /\ 413 \in Nat
        BY SMT
      <4>4. \/ \E c \in {408, 413} : Set(s, Untold(c))
            \/ \E r \in {sock[s].req, Unparsed(s)} : Set(s, Told(AnswerOf(s, r), TRUE, r))
        BY <2>5, SMT DEF Reply
      <4> HIDE DEF Told, Untold
      <4>5. CASE \E c \in {408, 413} : Set(s, Untold(c))
        <5>1. PICK c \in Nat : Set(s, Untold(c))
          BY <4>3, <4>5
        <5>2. Untold(c) = Told(c, FALSE, sock[s].req)
          BY <4>2
        <5>3. Set(s, Told(c, FALSE, sock[s].req))
          BY <5>1, <5>2
        <5>. QED BY <4>1, <5>3
      <4>6. CASE \E r \in {sock[s].req, Unparsed(s)} : Set(s, Told(AnswerOf(s, r), TRUE, r))
        <5>1. PICK r \in Asked : Set(s, Told(AnswerOf(s, r), TRUE, r))
          BY <3>2, <4>1, <4>6
        <5>. QED BY <3>1, <5>1
      <4>. QED BY <4>4, <4>5, <4>6
    <3> DEFINE new == [sock[s] EXCEPT !.at = "send", !.req = r, !.code = code, !.whole = whole]
    <3>4. Kept(new)
      BY <2>0, <2>5, <3>3 DEF Reply, SockType
    <3>. QED BY <3>4
  <2>6. CASE Send(s)
    <3>1. Unparsed("admin") \in Asked
      BY DEF Sockets, Asked
    <3> DEFINE new == [sock[s] EXCEPT !.at = "test", !.got = 0, !.req = Unparsed("admin"),
                                      !.code = 0, !.whole = FALSE]
    <3> HIDE DEF Unparsed
    <3>2. Kept(new)
      BY <2>0, <2>6, <3>1 DEF Send, SockType
    <3>. QED BY <3>2
  <2>. QED BY <2>1, <2>2, <2>3, <2>4, <2>5, <2>6 DEF ServerThread, ThreadStep
<1>2. sock' = [sock EXCEPT ![s] = new] /\ UNCHANGED NotSocket
  BY <1>1 DEF Set
<1>. QED BY <1>1, <1>2

LEMMA ThreadSteps == ASSUME NEW s \in Sockets PROVE LifeInv /\ ServerThread(s) => LifeInv'
<1> SUFFICES ASSUME LifeInv, ServerThread(s) PROVE LifeInv'
  OBVIOUS
<1>0. TypeOK /\ PlanOK /\ BusOK /\ WorkerOK /\ (\A x \in Services : ServiceOK(x)) /\ (\A t \in Sockets : SocketOK(t))
  BY DEF LifeInv
<1>1. /\ sock' \in [Sockets -> SockType]
      /\ \A t \in Sockets : /\ sock'[t].life = sock[t].life /\ sock'[t].port = sock[t].port
                            /\ sock'[t].running = sock[t].running /\ sock'[t].fd = sock[t].fd
                            /\ sock'[t].at = "none" <=> sock[t].at = "none"
      /\ UNCHANGED <<mode, todo, fatal, starts, cfg, roles, failed, svc, engine, bus, worker, probes, loop>>
  BY <1>0, ThreadType DEF PlanOK, NotSocket
<1>2. TypeOK'
  BY <1>0, <1>1 DEF TypeOK
<1>3. PlanOK'
  BY <1>0, <1>1 DEF PlanOK, Runs, Stopping, EnabledSockets
<1>4. BusOK' /\ WorkerOK' /\ \A x \in Services : ServiceOK(x)'
  BY <1>0, <1>1 DEF BusOK, WorkerOK, ServiceOK, Serves, Runs, Stopping
<1>5. \A t \in Sockets : SocketOK(t)'
  BY <1>0, <1>1 DEF SocketOK, Open, Stopping
<1>. QED BY <1>2, <1>3, <1>4, <1>5 DEF LifeInv

LEMMA NamesDiffer ==
  /\ Services \cap Sockets = {} /\ "probes" \notin Services \cup Sockets
  /\ {"processor", "geofence"} \subseteq Services
  /\ \A c : Selected(c) \subseteq Services /\ EnabledSockets(c) \subseteq Sockets
<1>1. ASSUME NEW c, NEW x \in Selected(c) PROVE x \in Services
  BY DEF Selected, Services
<1>. QED BY <1>1 DEF Services, Sockets, EnabledSockets

LEMMA NewSocketType == NewSocket \in SockType
<1>1. Unparsed("admin") \in Asked
  BY DEF Sockets, Asked
<1> HIDE DEF Unparsed
<1>. QED BY <1>1 DEF NewSocket, SockType, States

LEMMA StartSteps == LifeInv /\ Start => LifeInv'
<1> SUFFICES ASSUME LifeInv, Start PROVE LifeInv'
  OBVIOUS
<1>0. TypeOK /\ PlanOK /\ BusOK /\ WorkerOK /\ (\A x \in Services : ServiceOK(x)) /\ (\A t \in Sockets : SocketOK(t))
  BY DEF LifeInv
<1>1. PICK c \in Offered :
        /\ cfg' = c
        /\ IF Valid(c) THEN mode' = "starting" /\ roles' = Selected(c) /\ todo' = StartPlan(c)
                       ELSE mode' = "failing" /\ roles' = {} /\ todo' = StopPlan({}, c)
  BY DEF Start
<1>2. /\ mode = "down" /\ starts < MaxStarts /\ starts' = starts + 1
      /\ failed' = FALSE /\ probes' = {} /\ sock' = [s \in Sockets |-> NewSocket] /\ loop' = FALSE
      /\ UNCHANGED <<fatal, svc, engine, bus, worker>>
  BY DEF Start
<1>3. /\ \A x \in Services : svc[x] \notin {"ready", "draining"}
      /\ bus = {} /\ worker.at = "none" /\ worker.calls = {}
  <2>1. \A x \in Services : svc[x] \notin {"ready", "draining"}
    BY <1>0, <1>2 DEF ServiceOK, Serves
  <2>. QED BY <1>0, <2>1, NamesDiffer DEF BusOK, WorkerOK, Serves, Runs
<1>4. sock' \in [Sockets -> SockType] /\ \A s \in Sockets : sock'[s] = NewSocket
  BY <1>2, NewSocketType
<1>5. TypeOK'
  <2>1. starts' \in 0..MaxStarts
    BY <1>0, <1>2, RuntimeAssumption DEF TypeOK
  <2>2. roles' \subseteq Services /\ mode' \in {"starting", "failing"}
    BY <1>1, NamesDiffer
  <2>3. mode' = "starting" => \A s \in Sockets : ConfiguredPort(cfg', s) \in PortNumbers
    BY <1>1, ValidPorts
  <2>. QED BY <1>0, <1>2, <2>1, <2>2, <2>3 DEF TypeOK
<1>6. PlanOK'
  <2>1. /\ todo' \subseteq Names /\ "probes" \in StartPlan(c) /\ "probes" \notin StopPlan({}, c)
        /\ Selected(c) \subseteq StartPlan(c) /\ EnabledSockets(c) \subseteq StartPlan(c)
    BY <1>1, NamesDiffer DEF Names, StartPlan, StopPlan
  <2>2. starts \in Nat /\ engine \in Nat /\ engine <= starts
    BY <1>0 DEF TypeOK, PlanOK
  <2>. QED BY <1>1, <1>2, <1>4, <2>1, <2>2 DEF PlanOK, Stopping
<1>7. BusOK' /\ WorkerOK' /\ \A x \in Services : ServiceOK(x)'
  BY <1>0, <1>1, <1>2, <1>3, NamesDiffer DEF BusOK, WorkerOK, ServiceOK, Serves, Runs
<1>8. \A s \in Sockets : SocketOK(s)'
  BY <1>4 DEF SocketOK, Open, NewSocket
<1>. QED BY <1>5, <1>6, <1>7, <1>8 DEF LifeInv

LEMMA StartServiceSteps == ASSUME NEW x \in Services PROVE LifeInv /\ StartService(x) => LifeInv'
<1> SUFFICES ASSUME LifeInv, StartService(x) PROVE LifeInv'
  OBVIOUS
<1>0. TypeOK /\ PlanOK /\ BusOK /\ WorkerOK /\ (\A y \in Services : ServiceOK(y)) /\ (\A t \in Sockets : SocketOK(t))
  BY DEF LifeInv
<1>1. /\ mode = "starting" /\ x \in todo
      /\ UNCHANGED <<fatal, starts, cfg, roles, failed, probes, loop, sock>>
  BY DEF StartService, Doing
<1>2. svc \in [Services -> States] /\ ~Serves(x) /\ x \in roles /\ roles = Selected(cfg)
  BY <1>0, <1>1, NamesDiffer DEF TypeOK, ServiceOK, PlanOK, StartPlan
<1>3. CASE Began(x) /\ Done(x) /\ UNCHANGED mode
  <2>1. svc' = [svc EXCEPT ![x] = "ready"] /\ todo' = todo \ {x}
    BY <1>3 DEF Began, Subscribed, Done
  <2>2. svc' \in [Services -> States] /\ svc'[x] = "ready" /\ \A y \in Services \ {x} : svc'[y] = svc[y]
    BY <1>2, <2>1 DEF States
  <2>3. starts \in 1..MaxStarts /\ engine \in 0..MaxStarts /\ engine <= starts /\ MaxStarts \in Nat
    BY <1>0, <1>1, RuntimeAssumption DEF TypeOK, PlanOK
  <2>4. ("fence" \notin {h.who : h \in bus} \/ x # "geofence") /\ (x = "geofence" => engine < starts /\ worker.calls = {})
    BY <1>0, <1>1, <1>2 DEF BusOK, Serves, Runs, PlanOK, WorkerOK
  <2>5. engine' = (IF x = "geofence" THEN engine + 1 ELSE engine)
    BY <1>3 DEF Began, Subscribed
  <2>6. /\ x = "processor" => worker' = [at |-> "test", calls |-> {}]
        /\ x # "processor" => worker' = worker
    BY <1>3 DEF Began, Subscribed
  <2>7. /\ x = "processor" => bus' = bus \cup [who : {"observer", "writer", "metrics"}, of : {starts}]
        /\ x = "geofence" => bus' = bus \cup {[who |-> "fence", of |-> engine + 1]}
        /\ x \notin {"processor", "geofence"} => bus' = bus
    BY <1>3 DEF Began, Subscribed, Wires
  <2>8. TypeOK'
    <3>1. bus' \subseteq [who : {"observer", "writer", "metrics", "fence"}, of : 1..MaxStarts]
      <4>1. bus \subseteq [who : {"observer", "writer", "metrics", "fence"}, of : 1..MaxStarts]
        BY <1>0 DEF TypeOK
      <4>2. CASE x = "processor"
        BY <2>3, <2>7, <4>1, <4>2
      <4>3. CASE x = "geofence"
        BY <2>3, <2>4, <2>7, <4>1, <4>3
      <4>. QED BY <2>7, <4>1, <4>2, <4>3
    <3>2. worker' \in [at : {"none", "test", "poll", "publish", "call", "gone"}, calls : SUBSET (1..MaxStarts)]
      BY <1>0, <2>6 DEF TypeOK
    <3>3. engine' \in 0..MaxStarts
      BY <2>3, <2>4, <2>5
    <3>. QED BY <1>0, <1>1, <1>3, <2>2, <3>1, <3>2, <3>3 DEF TypeOK
  <2>9. PlanOK'
    <3>1. x # "probes" /\ x \notin Sockets
      BY NamesDiffer
    <3>2. engine' <= starts /\ ("geofence" \in todo' => engine' < starts)
      BY <1>0, <1>1, <2>1, <2>3, <2>4, <2>5 DEF PlanOK
    <3>3. \A y \in roles : y \in todo' \/ svc'[y] = "ready"
      BY <1>0, <1>1, <2>1, <2>2 DEF PlanOK, Runs, TypeOK
    <3>4. \A s \in EnabledSockets(cfg) : s \in todo' \/ sock[s].life = "ready"
      BY <1>0, <1>1, <2>1, <3>1, NamesDiffer DEF PlanOK
    <3>5. "probes" \in todo' \/ probes = ProbesOf(roles, cfg)
      BY <1>0, <1>1, <2>1, <3>1 DEF PlanOK
    <3>6. sock \in [Sockets -> SockType] /\ todo' \subseteq Names /\ todo' \subseteq StartPlan(cfg) /\ starts > 0 /\ ~failed
      BY <1>0, <1>1, <2>1 DEF PlanOK
    <3>. QED BY <1>1, <1>2, <1>3, <3>2, <3>3, <3>4, <3>5, <3>6 DEF PlanOK, Runs, Stopping
  <2>10. BusOK'
    <3>1. CASE x = "processor"
      <4>1. \A w \in {"observer", "writer", "metrics"} : [who |-> w, of |-> starts] \in bus'
        BY <2>7, <3>1
      <4>2. \A h \in bus' : h \in bus \/ (h.who # "fence" /\ h.of = starts)
        BY <2>7, <3>1
      <4>3. \A h \in bus : h.who = "fence" => svc["geofence"] = "ready" /\ h.of = engine
        BY <1>0 DEF BusOK, Runs
      <4>4. \A h \in bus : h.who # "fence" => h.of = starts
        BY <1>0 DEF BusOK
      <4>5. svc["geofence"] = "ready" => \E h \in bus' : h.who = "fence"
        BY <1>0, <2>7, <3>1 DEF BusOK, Runs
      <4>. QED BY <1>1, <2>2, <2>5, <3>1, <4>1, <4>2, <4>3, <4>4, <4>5, NamesDiffer DEF BusOK, Serves, Runs
    <3>2. CASE x = "geofence"
      <4>1. [who |-> "fence", of |-> engine + 1] \in bus'
        BY <2>7, <3>2
      <4>. QED BY <1>0, <1>1, <2>2, <2>4, <2>5, <2>7, <3>2, <4>1, NamesDiffer DEF BusOK, Serves, Runs
    <3>3. CASE x \notin {"processor", "geofence"}
      BY <1>0, <1>1, <2>2, <2>5, <2>7, <3>3, NamesDiffer DEF BusOK, Serves, Runs
    <3>. QED BY <3>1, <3>2, <3>3
  <2>11. WorkerOK'
    BY <1>0, <1>1, <2>1, <2>2, <2>4, <2>5, <2>6, NamesDiffer DEF WorkerOK, Serves
  <2>12. \A y \in Services : ServiceOK(y)'
    BY <1>0, <1>1, <1>2, <1>3, <2>1, <2>2 DEF ServiceOK, Serves, Stopping
  <2>13. \A s \in Sockets : SocketOK(s)'
    BY <1>0, <1>1, <1>3, <2>1 DEF SocketOK, Open, Stopping
  <2>. QED BY <2>8, <2>9, <2>10, <2>11, <2>12, <2>13 DEF LifeInv
<1>4. CASE GiveUp /\ svc' = [svc EXCEPT ![x] = "starting"] /\ UNCHANGED <<engine, bus, worker>>
  <2>1. mode' = "failing" /\ todo' = StopPlan(roles, cfg)
    BY <1>4 DEF GiveUp
  <2>2. svc' \in [Services -> States] /\ svc'[x] = "starting" /\ \A y \in Services \ {x} : svc'[y] = svc[y]
    BY <1>2, <1>4 DEF States
  <2>3. TypeOK'
    BY <1>0, <1>1, <1>4, <2>1, <2>2 DEF TypeOK
  <2>4. PlanOK'
    <3>1. todo' \subseteq Names /\ "probes" \notin todo'
      BY <1>2, <2>1, NamesDiffer DEF StopPlan, Names
    <3>. QED BY <1>0, <1>1, <1>4, <2>1, <3>1 DEF PlanOK, Stopping
  <2>5. BusOK' /\ WorkerOK'
    BY <1>0, <1>1, <1>2, <1>4, <2>1, <2>2, NamesDiffer DEF BusOK, WorkerOK, Serves, Runs
  <2>6. \A y \in Services : ServiceOK(y)'
    BY <1>0, <1>1, <1>2, <2>1, <2>2 DEF ServiceOK, Serves, Stopping, StopPlan
  <2>7. \A s \in Sockets : SocketOK(s)'
    BY <1>0, <1>1, <2>1 DEF SocketOK, Open, Stopping, StopPlan, EnabledSockets
  <2>. QED BY <2>3, <2>4, <2>5, <2>6, <2>7 DEF LifeInv
<1>. QED BY <1>3, <1>4 DEF StartService

LEMMA ListenSteps == ASSUME NEW s \in Sockets PROVE LifeInv /\ Listen(s) => LifeInv'
<1> SUFFICES ASSUME LifeInv, Listen(s) PROVE LifeInv'
  OBVIOUS
<1>0. TypeOK /\ PlanOK /\ BusOK /\ WorkerOK /\ (\A y \in Services : ServiceOK(y)) /\ (\A t \in Sockets : SocketOK(t))
  BY DEF LifeInv
<1>1. /\ mode = "starting" /\ s \in todo
      /\ UNCHANGED <<fatal, starts, cfg, roles, failed, svc, engine, bus, worker, probes>>
  BY DEF Listen, LoopStarts, Doing
<1>2. s \in EnabledSockets(cfg) /\ ~Open(s) /\ sock \in [Sockets -> SockType] /\ roles = Selected(cfg)
  BY <1>0, <1>1, NamesDiffer DEF SocketOK, PlanOK, StartPlan
<1>3. ConfiguredPort(cfg, s) \in PortNumbers /\ ConfiguredPort(cfg, s) % PortCount = ConfiguredPort(cfg, s)
      /\ ConfiguredPort(cfg, s) \in Int
  BY <1>0, <1>1, <1>2, KeepsPort DEF TypeOK, EnabledSockets
<1>4. ASSUME /\ sock' = [sock EXCEPT ![s].life = "ready", ![s].running = TRUE, ![s].fd = "open",
                                     ![s].at = "test", ![s].port = ConfiguredPort(cfg, s) % PortCount]
             /\ loop' = (loop \/ s = "admin") /\ Done(s) /\ UNCHANGED mode
      PROVE  LifeInv'
  <2> DEFINE p == ConfiguredPort(cfg, s)
             new == [sock[s] EXCEPT !.life = "ready", !.running = TRUE, !.fd = "open", !.at = "test", !.port = p]
  <2>1. sock' = [sock EXCEPT ![s] = new] /\ todo' = todo \ {s}
    BY <1>2, <1>3, <1>4 DEF Done
  <2>2. new \in SockType
    <3>1. p \in Int /\ sock[s] \in SockType
      BY <1>2, <1>3
    <3> HIDE DEF p
    <3>. QED BY <3>1 DEF SockType, States
  <2>3. new.life = "ready" /\ new.running = TRUE /\ new.fd = "open" /\ new.at = "test" /\ new.port = p
    <3>1. sock[s] \in SockType
      BY <1>2
    <3> HIDE DEF p
    <3>. QED BY <3>1 DEF SockType
  <2> HIDE DEF new
  <2>4. sock' \in [Sockets -> SockType] /\ sock'[s] = new /\ \A t \in Sockets \ {s} : sock'[t] = sock[t]
    BY <1>2, <2>1, <2>2
  <2>5. TypeOK'
    BY <1>0, <1>1, <1>4 DEF TypeOK
  <2>6. PlanOK'
    BY <1>0, <1>1, <1>2, <1>4, <2>1, <2>3, <2>4, NamesDiffer DEF PlanOK, Runs, Stopping
  <2>7. BusOK' /\ WorkerOK' /\ \A x \in Services : ServiceOK(x)'
    BY <1>0, <1>1, <1>4, <2>1, NamesDiffer DEF BusOK, WorkerOK, ServiceOK, Serves, Runs, Stopping
  <2>8. SocketOK(s)'
    BY <1>1, <1>2, <1>4, <2>1, <2>3, <2>4 DEF SocketOK, Open, Stopping, EnabledSockets
  <2>9. \A t \in Sockets \ {s} : SocketOK(t)'
    BY <1>0, <1>1, <1>4, <2>1, <2>4 DEF SocketOK, Open, Stopping
  <2>. QED BY <2>5, <2>6, <2>7, <2>8, <2>9 DEF LifeInv
<1>5. ASSUME GiveUp, sock' = [sock EXCEPT ![s].life = "failed"], UNCHANGED loop
      PROVE  LifeInv'
  <2>1. mode' = "failing" /\ todo' = StopPlan(roles, cfg)
    BY <1>5 DEF GiveUp
  <2>2. sock' = [sock EXCEPT ![s] = [sock[s] EXCEPT !.life = "failed"]]
    BY <1>5
  <2>3. sock' \in [Sockets -> SockType] /\ sock'[s].life = "failed" /\ \A t \in Sockets \ {s} : sock'[t] = sock[t]
    BY <1>2, <2>2 DEF SockType, States
  <2>4. sock'[s].at = sock[s].at /\ sock'[s].fd = sock[s].fd /\ sock'[s].running = sock[s].running
    BY <1>2, <2>2 DEF SockType
  <2>5. TypeOK'
    BY <1>0, <1>1, <1>5, <2>1 DEF TypeOK
  <2>6. PlanOK'
    <3>1. todo' \subseteq Names /\ "probes" \notin todo'
      BY <1>2, <2>1, NamesDiffer DEF StopPlan, Names
    <3>. QED BY <1>0, <1>1, <2>1, <2>3, <3>1 DEF PlanOK, Stopping
  <2>7. BusOK' /\ WorkerOK'
    BY <1>0, <1>1, <2>1, NamesDiffer DEF BusOK, WorkerOK, Serves, Runs
  <2>8. \A y \in Services : ServiceOK(y)'
    BY <1>0, <1>1, <2>1 DEF ServiceOK, Serves, Stopping, StopPlan
  <2>9. SocketOK(s)'
    BY <1>0, <1>2, <2>1, <2>3, <2>4 DEF SocketOK, Open
  <2>10. \A t \in Sockets \ {s} : SocketOK(t)'
    BY <1>0, <1>1, <2>1, <2>3 DEF SocketOK, Open, Stopping, StopPlan, EnabledSockets
  <2>. QED BY <2>5, <2>6, <2>7, <2>8, <2>9, <2>10 DEF LifeInv
<1>. QED BY <1>4, <1>5 DEF Listen, LoopStarts

LEMMA PlainSteps == LifeInv /\ (RegisterProbes \/ Started \/ Stop \/ Stopped) => LifeInv'
<1> SUFFICES ASSUME LifeInv, RegisterProbes \/ Started \/ Stop \/ Stopped PROVE LifeInv'
  OBVIOUS
<1>0. TypeOK /\ PlanOK /\ BusOK /\ WorkerOK /\ (\A y \in Services : ServiceOK(y)) /\ (\A t \in Sockets : SocketOK(t))
  BY DEF LifeInv
<1>1. UNCHANGED <<fatal, starts, cfg, svc, engine, bus, worker, loop, sock>>
  BY DEF RegisterProbes, Started, Stop, Stopped, Threads
<1>2. CASE RegisterProbes
  <2>1. mode = "starting" /\ todo' = todo \ {"probes"} /\ probes' = ProbesOf(roles, cfg) /\ UNCHANGED <<mode, roles, failed>>
    BY <1>2 DEF RegisterProbes, Done
  <2>2. probes' \subseteq Services \cup Sockets \cup Dependencies \cup {"runtime_startup", "event_bus"}
    BY <1>0, <2>1 DEF ProbesOf, TypeOK, Needed
  <2>3. TypeOK'
    BY <1>0, <1>1, <2>1, <2>2 DEF TypeOK
  <2>4. PlanOK'
    BY <1>0, <1>1, <2>1, NamesDiffer DEF PlanOK, Runs, Stopping
  <2>5. BusOK' /\ WorkerOK' /\ \A x \in Services : ServiceOK(x)'
    BY <1>0, <1>1, <2>1 DEF BusOK, WorkerOK, ServiceOK, Serves, Runs, Stopping
  <2>6. \A s \in Sockets : SocketOK(s)'
    BY <1>0, <1>1, <2>1 DEF SocketOK, Open, Stopping
  <2>. QED BY <2>3, <2>4, <2>5, <2>6 DEF LifeInv
<1>3. CASE Started
  <2>1. mode = "starting" /\ todo = {} /\ todo' = {} /\ mode' = "up" /\ UNCHANGED <<roles, failed, probes>>
    BY <1>3 DEF Started
  <2>2. TypeOK'
    BY <1>0, <1>1, <2>1 DEF TypeOK
  <2>3. PlanOK'
    BY <1>0, <1>1, <2>1 DEF PlanOK, Runs, Stopping
  <2>4. BusOK' /\ WorkerOK' /\ \A x \in Services : ServiceOK(x)'
    BY <1>0, <1>1, <2>1 DEF BusOK, WorkerOK, ServiceOK, Serves, Runs, Stopping
  <2>5. \A s \in Sockets : SocketOK(s)'
    BY <1>0, <1>1, <2>1 DEF SocketOK, Open, Stopping
  <2>. QED BY <2>2, <2>3, <2>4, <2>5 DEF LifeInv
<1>4. CASE Stop
  <2>1. mode = "up" /\ todo' = StopPlan(roles, cfg) /\ mode' = "stopping" /\ UNCHANGED <<roles, failed, probes>>
    BY <1>4 DEF Stop
  <2>2. TypeOK'
    BY <1>0, <1>1, <2>1 DEF TypeOK
  <2>3. PlanOK'
    <3>1. todo' \subseteq Names /\ "probes" \notin todo'
      BY <1>0, <2>1, NamesDiffer DEF StopPlan, Names, TypeOK
    <3>. QED BY <1>0, <1>1, <2>1, <3>1 DEF PlanOK, Stopping
  <2>4. BusOK' /\ WorkerOK' /\ \A x \in Services : ServiceOK(x)'
    BY <1>0, <1>1, <2>1 DEF BusOK, WorkerOK, ServiceOK, Serves, Runs, Stopping, StopPlan
  <2>5. \A s \in Sockets : SocketOK(s)'
    BY <1>0, <1>1, <2>1 DEF SocketOK, Open, Stopping, StopPlan, EnabledSockets
  <2>. QED BY <2>2, <2>3, <2>4, <2>5 DEF LifeInv
<1>5. CASE Stopped
  <2>1. /\ Stopping /\ todo = {} /\ todo' = {} /\ mode' = "down"
        /\ \/ failed' = TRUE /\ roles' = {} /\ probes' = {"runtime_startup"}
           \/ UNCHANGED <<failed, roles, probes>>
    BY <1>5 DEF Stopped
  <2>2. TypeOK'
    BY <1>0, <1>1, <2>1 DEF TypeOK
  <2>3. PlanOK'
    BY <1>0, <1>1, <2>1 DEF PlanOK, Stopping
  <2>4. BusOK' /\ WorkerOK' /\ \A x \in Services : ServiceOK(x)'
    BY <1>0, <1>1, <2>1 DEF BusOK, WorkerOK, ServiceOK, Serves, Runs, Stopping
  <2>5. \A s \in Sockets : SocketOK(s)'
    BY <1>0, <1>1, <2>1 DEF SocketOK, Open, Stopping
  <2>. QED BY <2>2, <2>3, <2>4, <2>5 DEF LifeInv
<1>. QED BY <1>2, <1>3, <1>4, <1>5

LEMMA CloseSteps == ASSUME NEW s \in Sockets PROVE LifeInv /\ mode # "dead" /\ ServerStops(s) => LifeInv'
<1> SUFFICES ASSUME LifeInv, mode # "dead", ServerStops(s) PROVE LifeInv'
  OBVIOUS
<1>0. TypeOK /\ PlanOK /\ BusOK /\ WorkerOK /\ (\A y \in Services : ServiceOK(y)) /\ (\A t \in Sockets : SocketOK(t))
  BY DEF LifeInv
<1>1. /\ Stopping /\ s \in todo
      /\ UNCHANGED <<mode, fatal, starts, cfg, roles, failed, svc, engine, bus, worker, probes>>
  BY DEF ServerStops, Drain, Close, Join, LoopStops, Doing, StepDone
<1>2. sock \in [Sockets -> SockType] /\ sock[s] \in SockType
  BY <1>0 DEF PlanOK
<1>3. PICK new \in SockType :
        /\ sock' = [sock EXCEPT ![s] = new]
        /\ \/ /\ todo' = todo
              /\ new.life = "draining" /\ new.at # "none"
              /\ ~new.running /\ Open(s)
           \/ /\ todo' = todo \ {s} /\ new.life \notin {"ready", "draining"}
              /\ new.at = "none" /\ new.fd # "open" /\ ~new.running
  <2>1. CASE Drain(s)
    <3>1. CASE sock[s].running \/ sock[s].fd = "open"
      <4> DEFINE new == [sock[s] EXCEPT !.life = "draining", !.running = FALSE]
      <4>1. Open(s) /\ sock[s].at # "none"
        BY <1>0, <3>1 DEF SocketOK
      <4>2. new \in SockType /\ new.life = "draining" /\ new.at = sock[s].at /\ ~new.running
        BY <1>2 DEF SockType, States
      <4>3. sock' = [sock EXCEPT ![s] = new] /\ todo' = todo
        BY <1>2, <2>1, <3>1 DEF Drain
      <4>. QED BY <4>1, <4>2, <4>3
    <3>2. CASE ~(sock[s].running \/ sock[s].fd = "open")
      <4>1. sock' = sock /\ todo' = todo \ {s} /\ sock[s].life # "draining"
        BY <2>1, <3>2 DEF Drain, StepDone, Done
      <4>2. sock[s].life # "ready"
        BY <1>0, <3>2 DEF SocketOK
      <4>3. sock[s].at = "none"
        BY <1>0, <4>1, <4>2 DEF SocketOK, Open
      <4>4. sock' = [sock EXCEPT ![s] = sock[s]]
        BY <1>2, <4>1
      <4>. QED BY <1>2, <3>2, <4>1, <4>2, <4>3, <4>4
    <3>. QED BY <3>1, <3>2
  <2>2. CASE Close(s)
    <3> DEFINE new == [sock[s] EXCEPT !.fd = "shut"]
    <3>1. sock[s].life = "draining" /\ sock' = [sock EXCEPT ![s] = new] /\ todo' = todo
      BY <1>2, <2>2 DEF Close
    <3>2. Open(s) /\ sock[s].at # "none" /\ ~sock[s].running
      BY <1>0, <2>2, <3>1 DEF SocketOK, Open
    <3>3. new \in SockType /\ new.life = sock[s].life /\ new.at = sock[s].at /\ new.running = sock[s].running
      BY <1>2 DEF SockType
    <3>. QED BY <3>1, <3>2, <3>3
  <2>3. CASE Join(s)
    <3> DEFINE new == [sock[s] EXCEPT !.life = "stopped", !.at = "none"]
    <3>1. sock[s].life = "draining" /\ sock[s].fd # "open" /\ sock' = [sock EXCEPT ![s] = new] /\ todo' = todo \ {s}
      BY <1>2, <2>3 DEF Join, LoopStops, StepDone, Done
    <3>2. ~sock[s].running
      BY <1>0, <3>1 DEF SocketOK
    <3>3. new \in SockType /\ new.life = "stopped" /\ new.at = "none" /\ new.fd = sock[s].fd /\ new.running = sock[s].running
      BY <1>2 DEF SockType, States
    <3>. QED BY <3>1, <3>2, <3>3
  <2>. QED BY <2>1, <2>2, <2>3 DEF ServerStops
<1>4. sock' \in [Sockets -> SockType] /\ sock'[s] = new /\ \A t \in Sockets \ {s} : sock'[t] = sock[t]
  BY <1>2, <1>3
<1>5. TypeOK'
  <2>1. loop' \in BOOLEAN
    BY <1>0 DEF ServerStops, Drain, Close, Join, LoopStops, TypeOK
  <2>. QED BY <1>0, <1>1, <2>1 DEF TypeOK
<1>6. PlanOK'
  BY <1>0, <1>1, <1>3, <1>4 DEF PlanOK, Stopping
<1>7. BusOK' /\ WorkerOK' /\ \A x \in Services : ServiceOK(x)'
  <2>1. \A x \in Services : x \in todo => x \in todo'
    BY <1>3, NamesDiffer
  <2>. QED BY <1>0, <1>1, <2>1 DEF BusOK, WorkerOK, ServiceOK, Serves, Runs, Stopping
<1>8. SocketOK(s)'
  BY <1>0, <1>1, <1>3, <1>4 DEF SocketOK, Open, Stopping
<1>9. \A t \in Sockets \ {s} : SocketOK(t)'
  BY <1>0, <1>1, <1>3, <1>4 DEF SocketOK, Open, Stopping
<1>. QED BY <1>5, <1>6, <1>7, <1>8, <1>9 DEF LifeInv

LEMMA StopServiceSteps == ASSUME NEW x \in Services PROVE LifeInv /\ StopService(x) => LifeInv'
<1> SUFFICES ASSUME LifeInv, StopService(x) PROVE LifeInv'
  OBVIOUS
<1>0. TypeOK /\ PlanOK /\ BusOK /\ WorkerOK /\ (\A y \in Services : ServiceOK(y)) /\ (\A t \in Sockets : SocketOK(t))
  BY DEF LifeInv
<1>1. /\ Stopping /\ x \in todo /\ todo' = todo \ {x}
      /\ UNCHANGED <<mode, fatal, starts, cfg, roles, failed, engine, worker, probes, loop, sock>>
      /\ x = "processor" => svc[x] \in {"stopped", "starting"}
  BY DEF StopService, Doing, StepDone, Done
<1>2. svc \in [Services -> States]
  BY <1>0 DEF TypeOK
<1>3. /\ svc' \in [Services -> States] /\ \A y \in Services \ {x} : svc'[y] = svc[y]
      /\ svc'[x] \notin {"ready", "draining", "failed"}
  <2>1. svc[x] # "draining" /\ svc[x] # "failed"
    BY <1>0, <1>1 DEF ServiceOK
  <2>2. svc' = IF x = "matching" \/ svc[x] = "ready" THEN [svc EXCEPT ![x] = "stopped"] ELSE svc
    BY DEF StopService, Runs
  <2>. QED BY <1>2, <2>1, <2>2 DEF States
<1>4. /\ x = "geofence" => bus' = {h \in bus : h.who # "fence"}
      /\ x # "geofence" => bus' = bus
  <2>1. CASE x = "geofence" /\ ~Runs(x)
    BY <1>0, <2>1 DEF StopService, Unsubscribed, BusOK
  <2>2. CASE ~(x = "geofence" /\ ~Runs(x))
    BY <2>2 DEF StopService, Unsubscribed
  <2>. QED BY <2>1, <2>2
<1>5. x = "processor" => svc[x] \notin {"ready", "draining"}
  BY <1>1
<1>6. TypeOK'
  BY <1>0, <1>1, <1>3, <1>4 DEF TypeOK
<1>7. PlanOK'
  BY <1>0, <1>1 DEF PlanOK, Stopping
<1>8. BusOK'
  <2>1. svc'["processor"] \in {"ready", "draining"} <=> svc["processor"] \in {"ready", "draining"}
    BY <1>3, <1>5, NamesDiffer
  <2>2. CASE x = "geofence"
    <3>1. svc'["geofence"] # "ready" /\ bus' = {h \in bus : h.who # "fence"}
      BY <1>3, <1>4, <2>2
    <3>2. \A w \in {"observer", "writer", "metrics"} : w # "fence"
      OBVIOUS
    <3>. QED BY <1>0, <1>1, <2>1, <3>1, <3>2 DEF BusOK, Serves, Runs
  <2>3. CASE x # "geofence"
    BY <1>0, <1>1, <1>3, <1>4, <2>1, <2>3, NamesDiffer DEF BusOK, Serves, Runs
  <2>. QED BY <2>2, <2>3
<1>9. WorkerOK'
  BY <1>0, <1>1, <1>3, <1>5, NamesDiffer DEF WorkerOK, Serves, Stopping
<1>10. \A y \in Services : ServiceOK(y)'
  BY <1>0, <1>1, <1>3 DEF ServiceOK, Serves, Stopping
<1>11. \A s \in Sockets : SocketOK(s)'
  BY <1>0, <1>1, NamesDiffer DEF SocketOK, Open, Stopping
<1>. QED BY <1>6, <1>7, <1>8, <1>9, <1>10, <1>11 DEF LifeInv

LEMMA StopProcessorSteps == LifeInv /\ (TellWorker \/ StopProcessor) => LifeInv'
<1> SUFFICES ASSUME LifeInv, TellWorker \/ StopProcessor PROVE LifeInv'
  OBVIOUS
<1>0. TypeOK /\ PlanOK /\ BusOK /\ WorkerOK /\ (\A y \in Services : ServiceOK(y)) /\ (\A t \in Sockets : SocketOK(t))
  BY DEF LifeInv
<1>1. /\ Stopping /\ "processor" \in todo /\ Serves("processor")
      /\ UNCHANGED <<starts, cfg, roles, failed, engine, probes, loop, sock>>
  BY DEF TellWorker, StopProcessor, Doing, Serves, Runs
<1>2. svc \in [Services -> States] /\ "processor" \in Services
  BY <1>0, NamesDiffer DEF TypeOK
<1>3. CASE TellWorker
  <2>1. svc' = [svc EXCEPT !["processor"] = "draining"] /\ UNCHANGED <<mode, todo, fatal, bus, worker>>
    BY <1>3 DEF TellWorker
  <2>2. /\ svc' \in [Services -> States] /\ svc'["processor"] = "draining"
        /\ \A y \in Services \ {"processor"} : svc'[y] = svc[y]
    BY <1>2, <2>1 DEF States
  <2>3. TypeOK'
    BY <1>0, <1>1, <2>1, <2>2 DEF TypeOK
  <2>4. PlanOK'
    BY <1>0, <1>1, <2>1 DEF PlanOK, Stopping
  <2>5. BusOK' /\ WorkerOK'
    BY <1>0, <1>1, <2>1, <2>2, NamesDiffer DEF BusOK, WorkerOK, Serves, Runs
  <2>6. \A y \in Services : ServiceOK(y)'
    BY <1>0, <1>1, <1>2, <2>1, <2>2 DEF ServiceOK, Serves, Stopping
  <2>7. \A s \in Sockets : SocketOK(s)'
    BY <1>0, <1>1, <2>1 DEF SocketOK, Open, Stopping
  <2>. QED BY <2>3, <2>4, <2>5, <2>6, <2>7 DEF LifeInv
<1>4. ASSUME StopProcessor, svc' = [svc EXCEPT !["processor"] = "stopped"], bus' = {h \in bus : h.who = "fence"},
             worker' = [worker EXCEPT !.at = "none"], StepDone("processor")
      PROVE  LifeInv'
  <2>1. todo' = todo \ {"processor"} /\ UNCHANGED <<mode, fatal>> /\ worker.at = "gone"
    BY <1>4 DEF StepDone, Done, StopProcessor
  <2>2. /\ svc' \in [Services -> States] /\ svc'["processor"] = "stopped"
        /\ \A y \in Services \ {"processor"} : svc'[y] = svc[y]
    BY <1>2, <1>4 DEF States
  <2>3. worker' = [at |-> "none", calls |-> {}]
    <3>1. worker.calls = {}
      BY <1>0, <2>1 DEF WorkerOK
    <3>. QED BY <1>0, <1>4, <3>1 DEF TypeOK
  <2>4. TypeOK'
    BY <1>0, <1>1, <1>4, <2>1, <2>2, <2>3 DEF TypeOK
  <2>5. PlanOK'
    BY <1>0, <1>1, <2>1 DEF PlanOK, Stopping
  <2>6. BusOK'
    <3>1. \A h \in bus' : h \in bus /\ h.who = "fence"
      BY <1>4
    <3>2. svc'["geofence"] = svc["geofence"]
      BY <2>2, NamesDiffer
    <3>3. svc["geofence"] = "ready" => \E h \in bus' : h.who = "fence"
      BY <1>0, <1>4 DEF BusOK, Runs
    <3>. QED BY <1>0, <1>1, <2>2, <3>1, <3>2, <3>3 DEF BusOK, Serves, Runs
  <2>7. WorkerOK'
    BY <1>1, <2>1, <2>2, <2>3 DEF WorkerOK, Serves, Stopping
  <2>8. \A y \in Services : ServiceOK(y)'
    BY <1>0, <1>1, <2>1, <2>2 DEF ServiceOK, Serves, Stopping
  <2>9. \A s \in Sockets : SocketOK(s)'
    BY <1>0, <1>1, <2>1, NamesDiffer DEF SocketOK, Open, Stopping
  <2>. QED BY <2>4, <2>5, <2>6, <2>7, <2>8, <2>9 DEF LifeInv
<1>5. ASSUME fatal' = TRUE, mode' = (IF fatal THEN "dead" ELSE mode), todo' = StopPlan(roles, cfg),
             UNCHANGED <<svc, bus, worker>>
      PROVE  LifeInv'
  <2>1. TypeOK'
    BY <1>0, <1>1, <1>5 DEF TypeOK, Stopping
  <2>2. PlanOK'
    <3>1. todo' \subseteq Names /\ "probes" \notin todo'
      BY <1>0, <1>5, NamesDiffer DEF StopPlan, Names, TypeOK
    <3>. QED BY <1>0, <1>1, <1>5, <3>1 DEF PlanOK, Stopping
  <2>3. BusOK' /\ WorkerOK'
    BY <1>0, <1>1, <1>5 DEF BusOK, WorkerOK, Serves, Runs, Stopping
  <2>4. \A y \in Services : ServiceOK(y)'
    BY <1>0, <1>1, <1>5 DEF ServiceOK, Serves, Stopping, StopPlan
  <2>5. \A s \in Sockets : SocketOK(s)'
    BY <1>0, <1>1, <1>5 DEF SocketOK, Open, Stopping, StopPlan, EnabledSockets
  <2>. QED BY <2>1, <2>2, <2>3, <2>4, <2>5 DEF LifeInv
<1>6. Unsubscribed({"observer", "writer", "metrics"}) = {h \in bus : h.who = "fence"}
  BY <1>0 DEF Unsubscribed, TypeOK
<1>. QED BY <1>3, <1>4, <1>5, <1>6 DEF StopProcessor

LEMMA LifeNext == LifeInv /\ [Next]_vars => LifeInv'
<1> SUFFICES ASSUME LifeInv, [Next]_vars PROVE LifeInv'
  OBVIOUS
<1>1. CASE UNCHANGED vars
  BY <1>1 DEF vars, LifeInv, TypeOK, PlanOK, BusOK, WorkerOK, ServiceOK, SocketOK, Serves, Runs, Open, Stopping
<1>2. CASE Next
  <2>1. "admin" \in Sockets /\ "metrics" \in Sockets
    BY DEF Sockets
  <2>2. mode # "dead"
    BY <1>2 DEF Next
  <2>3. CASE BringUp
    BY <2>1, <2>3, StartServiceSteps, ListenSteps, PlainSteps DEF BringUp, ExporterListens
  <2>4. CASE TakeDown
    BY <2>1, <2>2, <2>4, CloseSteps, StopServiceSteps, StopProcessorSteps, PlainSteps DEF TakeDown, ExporterStops
  <2>5. CASE Start \/ Stop \/ WorkerStep
    BY <2>2, <2>5, StartSteps, PlainSteps, WorkerSteps
  <2>6. CASE ServerThread("admin") \/ ExporterThread
    BY <2>1, <2>6, ThreadSteps DEF ExporterThread
  <2>. QED BY <1>2, <2>3, <2>4, <2>5, <2>6 DEF Next
<1>. QED BY <1>1, <1>2

LEMMA LifeInvariant == Spec => []LifeInv
  BY LifeInit, LifeNext, PTL DEF Spec

\* The application is well typed in every reachable state.
THEOREM TypeCorrect == Spec => []TypeOK
  BY LifeInvariant, PTL DEF LifeInv

\* A handler that the worker is about to call belongs to an engine that still
\* exists, whoever stops or starts meanwhile.
THEOREM EngineOutlivesCalls == Spec => []HandlersAlive
<1>1. LifeInv => HandlersAlive
  BY DEF LifeInv, WorkerOK, HandlersAlive
<1>. QED BY <1>1, LifeInvariant, PTL
-----------------------------------------------------------------------------
(******************************* the answers *******************************)
\* What an answer is made from.
LEMMA SameAnswers ==
  ASSUME UNCHANGED cfg, NEW s \in Sockets, NEW r,
         s = "metrics" \/ UNCHANGED <<loop, probes, failed, svc>>
  PROVE  AnswerOf(s, r)' = AnswerOf(s, r)
<1>1. MetricsAnswer(r)' = MetricsAnswer(r)
  BY DEF MetricsAnswer
<1>2. CASE s = "metrics"
  BY <1>1, <1>2 DEF AnswerOf
<1>3. CASE UNCHANGED <<loop, probes, failed, svc>>
  <2>1. ASSUME NEW route PROVE Status(route)' = Status(route)
    BY <1>3, SMT DEF Status, Healthy, Passes, Runs, Live
  <2>2. Route(cfg, r.path)' = Route(cfg, r.path)
    BY DEF Route
  <2>3. AdminAnswer(r)' = AdminAnswer(r)
    BY <1>3, <2>1, <2>2 DEF AdminAnswer, Handled, Routed
  <2>. QED BY <1>1, <2>3 DEF AnswerOf
<1>. QED BY <1>2, <1>3

\* A step that leaves what answers are made from, or is taken with the admin
\* socket shut.
LEMMA AnswersKept ==
  ASSUME LifeInv, AnswersAreCurrent, mode # "dead", UNCHANGED cfg,
         ~Open("admin") \/ UNCHANGED <<loop, probes, failed, svc>>,
         \A s \in Sockets : sock'[s].at = "send" =>
            /\ sock[s].at = "send" /\ sock'[s].whole = sock[s].whole
            /\ sock'[s].code = sock[s].code /\ sock'[s].req = sock[s].req
  PROVE  AnswersAreCurrent'
<1> SUFFICES ASSUME NEW s \in Sockets, sock'[s].at = "send", sock'[s].whole
             PROVE  sock'[s].code = AnswerOf(s, sock[s].req)'
  BY DEF AnswersAreCurrent
<1>1. sock[s].at = "send" /\ Open(s)
  BY DEF LifeInv, SocketOK
<1>2. sock'[s].code = AnswerOf(s, sock[s].req)
  BY <1>1 DEF AnswersAreCurrent
<1>3. s = "metrics" \/ UNCHANGED <<loop, probes, failed, svc>>
  BY <1>1 DEF Sockets
<1>. QED BY <1>2, <1>3, SameAnswers

LEMMA AdminInit == Init => AdminOK
<1> SUFFICES ASSUME Init PROVE AdminOK
  OBVIOUS
<1>1. \A s \in Sockets : sock[s].life = "stopped" /\ sock[s].at = "none"
  BY DEF Init, NewSocket
<1>. QED BY <1>1 DEF Init, AdminOK, AnswersAreCurrent, Open, Sockets

\* No service starts or stops while the admin socket is open, and the list of
\* probes stays.
LEMMA AdminShut ==
  ASSUME LifeInv, AdminOK, NEW x \in Services \cup {"probes"},
         \/ mode = "starting" /\ Doing(StartTurn, x)
         \/ Stopping /\ Doing(StopTurn, x)
  PROVE  ~Open("admin")
<1> SUFFICES ASSUME Open("admin") PROVE FALSE
  OBVIOUS
<1>0. PlanOK /\ SocketOK("admin") /\ x \notin {"admin", "metrics"}
  BY NamesDiffer DEF LifeInv, Sockets
<1>1. CASE mode = "starting" /\ Doing(StartTurn, x)
  BY <1>0, <1>1 DEF AdminOK, Doing
<1>2. CASE Stopping /\ Doing(StopTurn, x)
  <2>1. x # "probes" /\ StopTurn[x] <= StopTurn["admin"]
    BY <1>0, <1>2 DEF SocketOK, Doing, PlanOK
  <2>2. x \in Services
    BY <2>1
  <2>. QED BY <2>1, <2>2 DEF StopTurn, Services
<1>. QED BY <1>1, <1>2

LEMMA AdminThread ==
  ASSUME LifeInv, AdminOK, mode # "dead", NEW s \in Sockets, ServerThread(s)
  PROVE  AdminOK'
<1>1. sock \in [Sockets -> SockType]
  BY DEF LifeInv, PlanOK
<1>2. /\ \A t \in Sockets : sock'[t].life = sock[t].life
      /\ UNCHANGED <<mode, todo, cfg, loop, probes, failed, svc>>
  BY <1>1, ThreadType DEF NotSocket
<1>3. \A t \in Sockets \ {s} : sock'[t] = sock[t]
  BY <1>1 DEF ServerThread, ThreadStep, AcceptTests, Accept, AcceptFails, Recv, Reply, Send, Set
<1>4. sock'[s].at = "send" /\ sock'[s].whole => sock'[s].code = AnswerOf(s, sock'[s].req)
  <2>1. CASE Reply(s)
    <3>0. sock[s] \in SockType
      BY <1>1
    <3>1. CASE \E c \in Nat : Set(s, [sock[s] EXCEPT !.at = "send", !.code = c, !.whole = FALSE])
      BY <1>1, <3>0, <3>1 DEF Set, SockType
    <3>2. CASE \E r \in {sock[s].req, Unparsed(s)} :
                 Set(s, [sock[s] EXCEPT !.at = "send", !.req = r, !.code = AnswerOf(s, r), !.whole = TRUE])
      <4>1. PICK r \in {sock[s].req, Unparsed(s)} :
               Set(s, [sock[s] EXCEPT !.at = "send", !.req = r, !.code = AnswerOf(s, r), !.whole = TRUE])
        BY <3>2
      <4>2. sock'[s] = [sock[s] EXCEPT !.at = "send", !.req = r, !.code = AnswerOf(s, r), !.whole = TRUE]
        BY <1>1, <4>1 DEF Set
      <4> HIDE DEF AnswerOf
      <4>. QED BY <3>0, <4>2 DEF SockType
    <3>3. 408 \in Nat /\ 413 \in Nat
      BY SMT
    <3>4. \/ \E c \in {408, 413} : Set(s, [sock[s] EXCEPT !.at = "send", !.code = c, !.whole = FALSE])
          \/ \E r \in {sock[s].req, Unparsed(s)} :
               Set(s, [sock[s] EXCEPT !.at = "send", !.req = r, !.code = AnswerOf(s, r), !.whole = TRUE])
      BY <2>1, SMT DEF Reply
    <3>5. CASE \E c \in {408, 413} : Set(s, [sock[s] EXCEPT !.at = "send", !.code = c, !.whole = FALSE])
      <4>1. \E c \in Nat : Set(s, [sock[s] EXCEPT !.at = "send", !.code = c, !.whole = FALSE])
        BY <3>3, <3>5
      <4>. QED BY <3>1, <4>1
    <3>. QED BY <3>2, <3>4, <3>5
  <2>2. CASE ~Reply(s)
    <3>1. sock'[s].at # "send"
      BY <1>1, <2>2 DEF ServerThread, ThreadStep, AcceptTests, Accept, AcceptFails, Recv, Send, Set, SockType
    <3>. QED BY <3>1
  <2>. QED BY <2>1, <2>2
<1>5. \A t \in Sockets : \A r : AnswerOf(t, r)' = AnswerOf(t, r)
  BY <1>2, SameAnswers
<1>6. AnswersAreCurrent'
  <2>1. \A t \in Sockets : sock'[t].at = "send" /\ sock'[t].whole => sock'[t].code = AnswerOf(t, sock'[t].req)
    BY <1>3, <1>4 DEF AdminOK, AnswersAreCurrent
  <2> SUFFICES ASSUME NEW t \in Sockets, NEW r, sock'[t].at = "send", sock'[t].whole, r = sock'[t].req
               PROVE  sock'[t].code = AnswerOf(t, r)'
    BY DEF AnswersAreCurrent
  <2>2. sock'[t].code = AnswerOf(t, r)
    BY <2>1
  <2>. QED BY <1>5, <2>2
<1>. QED BY <1>2, <1>6 DEF AdminOK, Open, Sockets

\* Starting anew, or opening a socket: the answers under way keep.
LEMMA AdminStart == LifeInv /\ AdminOK /\ Start => AdminOK'
<1> SUFFICES ASSUME LifeInv, AdminOK, Start PROVE AdminOK'
  OBVIOUS
<1>1. loop' = FALSE /\ sock' = [s \in Sockets |-> NewSocket]
  BY DEF Start
<1>2. \A s \in Sockets : sock'[s].life = "stopped" /\ sock'[s].at = "none"
  BY <1>1 DEF NewSocket
<1>. QED BY <1>1, <1>2 DEF AdminOK, AnswersAreCurrent, Open, Sockets

\* A step of the main thread that leaves the sockets: it changes a service or the
\* probes with the admin socket shut, or neither.
LEMMA AdminPlain ==
  ASSUME LifeInv, AdminOK, mode # "dead", UNCHANGED <<cfg, loop, sock>>,
         ~Open("admin") \/ UNCHANGED <<probes, failed, svc>>,
         mode' = "starting" => mode = "starting" /\ todo' \subseteq todo
  PROVE  AdminOK'
<1>1. AnswersAreCurrent'
  BY AnswersKept DEF AdminOK
<1>. QED BY <1>1 DEF AdminOK, Open

LEMMA AdminListen ==
  ASSUME LifeInv, AdminOK, mode # "dead", NEW s \in Sockets, Listen(s)
  PROVE  AdminOK'
<1>0. TypeOK /\ PlanOK /\ \A t \in Sockets : SocketOK(t)
  BY DEF LifeInv
<1>1. mode = "starting" /\ s \in todo /\ UNCHANGED <<cfg, probes, failed, svc>>
  BY DEF Listen, LoopStarts, Doing
<1>2. ~Open(s)
  BY <1>0, <1>1 DEF SocketOK
<1>3. sock \in [Sockets -> SockType]
  BY <1>0 DEF PlanOK
<1>4. /\ \A t \in Sockets \ {s} : sock'[t] = sock[t]
      /\ sock'[s].at # "send"
  <2>1. sock[s].at = "none" /\ sock[s] \in SockType
    BY <1>0, <1>2, <1>3 DEF SocketOK
  <2>. QED BY <1>3, <2>1 DEF Listen, LoopStarts, SockType
<1>5. CASE s = "metrics"
  <2>1. UNCHANGED loop /\ (mode' = "starting" => todo' \subseteq todo)
    <3>1. loop \in BOOLEAN /\ s # "admin"
      BY <1>0, <1>5 DEF TypeOK
    <3>2. UNCHANGED loop
      <4>1. UNCHANGED loop \/ loop' = (loop \/ s = "admin")
        BY DEF Listen, LoopStarts
      <4>2. CASE loop = TRUE
        BY <4>1, <4>2
      <4>3. CASE loop = FALSE
        BY <3>1, <4>1, <4>3
      <4>. QED BY <3>1, <4>2, <4>3
    <3>. QED BY <3>2 DEF Listen, LoopStarts, Done, GiveUp
  <2>2. AnswersAreCurrent'
    BY <1>1, <1>4, <2>1, AnswersKept DEF AdminOK
  <2>3. sock'["admin"] = sock["admin"]
    BY <1>4, <1>5 DEF Sockets
  <2>. QED BY <1>1, <2>1, <2>2, <2>3 DEF AdminOK, Open
<1>6. CASE s = "admin"
  <2>1. ~Open("admin") /\ ~loop
    BY <1>2, <1>6 DEF AdminOK
  <2>2. AnswersAreCurrent'
    BY <1>1, <1>4, <2>1, AnswersKept DEF AdminOK
  <2>3. todo \ {"admin"} \subseteq {"metrics"}
    BY <1>0, <1>6 DEF Listen, LoopStarts, Doing, StartTurn, PlanOK, Names, Services, Sockets
  <2>4. \/ sock'["admin"].life = "ready" /\ loop' /\ todo' = todo \ {"admin"}
        \/ sock'["admin"].life = "failed" /\ loop' = loop /\ mode' = "failing"
    <3>1. sock["admin"] \in SockType
      BY <1>3 DEF Sockets
    <3>. QED BY <1>3, <1>6, <3>1 DEF Listen, LoopStarts, Done, GiveUp, SockType, Sockets
  <2>. QED BY <2>1, <2>2, <2>3, <2>4 DEF AdminOK, Open
<1>. QED BY <1>5, <1>6 DEF Sockets

\* A socket that closes, or goes on closing, has no more answers than before.
LEMMA AdminClose ==
  ASSUME LifeInv, AdminOK, mode # "dead", NEW s \in Sockets, ServerStops(s)
  PROVE  AdminOK'
<1>0. TypeOK /\ PlanOK /\ \A t \in Sockets : SocketOK(t)
  BY DEF LifeInv
<1>1. sock \in [Sockets -> SockType]
  BY <1>0 DEF PlanOK
<1>2. UNCHANGED <<cfg, mode, probes, failed, svc>> /\ mode # "starting"
  BY DEF ServerStops, Drain, Close, Join, LoopStops, StepDone, Stopping
<1>3. \A t \in Sockets \ {s} : sock'[t] = sock[t]
  BY <1>1 DEF ServerStops, Drain, Close, Join, LoopStops
<1>4. \/ /\ Open(s)' <=> Open(s)
         /\ sock'[s].at = sock[s].at /\ sock'[s].whole = sock[s].whole
         /\ sock'[s].code = sock[s].code /\ sock'[s].req = sock[s].req
         /\ UNCHANGED loop
      \/ /\ ~Open(s)' /\ sock'[s].at = "none"
         /\ loop' = (loop /\ s # "admin")
  <2>0. sock[s] \in SockType
    BY <1>1
  <2>1. CASE Drain(s)
    BY <1>0, <1>1, <2>0, <2>1 DEF Drain, SocketOK, SockType, Open
  <2>2. CASE Close(s)
    BY <1>1, <2>0, <2>2 DEF Close, SockType, Open
  <2>3. CASE Join(s)
    BY <1>1, <2>0, <2>3 DEF Join, LoopStops, SockType, Open
  <2>. QED BY <2>1, <2>2, <2>3 DEF ServerStops
<1>5. loop' <=> Open("admin")'
  <2>1. CASE s = "admin"
    <3>1. CASE UNCHANGED loop /\ (Open(s)' <=> Open(s))
      BY <2>1, <3>1 DEF AdminOK, Open
    <3>2. CASE ~Open(s)' /\ loop' = (loop /\ s # "admin")
      <4>1. ~loop'
        BY <2>1, <3>2, Zenon
      <4>. QED BY <2>1, <3>2, <4>1 DEF Open
    <3>. QED BY <1>4, <3>1, <3>2
  <2>2. CASE s = "metrics"
    <3>1. UNCHANGED loop
      BY <1>0, <1>4, <2>2, Zenon DEF TypeOK
    <3>2. sock'["admin"] = sock["admin"]
      BY <1>3, <2>2 DEF Sockets
    <3>. QED BY <3>1, <3>2 DEF AdminOK, Open
  <2>. QED BY <2>1, <2>2 DEF Sockets
<1>6. AnswersAreCurrent'
  <2>1. CASE UNCHANGED loop
    BY <1>2, <1>3, <1>4, <2>1, AnswersKept DEF AdminOK
  <2>2. CASE s = "admin" /\ sock'[s].at = "none"
    <3> SUFFICES ASSUME NEW t \in Sockets, sock'[t].at = "send", sock'[t].whole
                 PROVE  sock'[t].code = AnswerOf(t, sock[t].req)'
      BY <1>3, <2>2 DEF AnswersAreCurrent, Sockets
    <3>1. t = "metrics" /\ sock'[t] = sock[t]
      BY <1>3, <2>2 DEF Sockets
    <3>2. sock[t].code = AnswerOf(t, sock[t].req)
      BY <3>1 DEF AdminOK, AnswersAreCurrent
    <3>. QED BY <1>2, <3>1, <3>2, SameAnswers
  <2>. QED BY <1>0, <1>4, <2>1, <2>2 DEF TypeOK
<1>. QED BY <1>2, <1>5, <1>6 DEF AdminOK

LEMMA AdminNext == LifeInv /\ AdminOK /\ [Next]_vars => AdminOK'
<1> SUFFICES ASSUME LifeInv, AdminOK, [Next]_vars PROVE AdminOK'
  OBVIOUS
<1>0. PlanOK /\ \A t \in Sockets : SocketOK(t)
  BY DEF LifeInv
<1>1. CASE UNCHANGED vars
  <2>1. AnswersAreCurrent'
    <3>1. CASE mode = "dead"
      BY <1>1, <3>1 DEF vars, AnswersAreCurrent
    <3>. QED BY <1>1, <3>1, AnswersKept DEF vars, AdminOK
  <2>. QED BY <1>1, <2>1 DEF vars, AdminOK, Open
<1>2. CASE Next
  <2>0. mode # "dead"
    BY <1>2 DEF Next
  <2>1. CASE Start
    BY <2>1, AdminStart
  <2>2. ASSUME NEW x \in Services, StartService(x) PROVE AdminOK'
    <3>1. ~Open("admin")
      BY <2>2, AdminShut DEF StartService
    <3>2. UNCHANGED <<cfg, loop, sock>> /\ (mode' = "starting" => mode = "starting" /\ todo' \subseteq todo)
      BY <2>2 DEF StartService, GiveUp, Done
    <3>. QED BY <2>0, <3>1, <3>2, AdminPlain
  <2>3. CASE RegisterProbes
    <3>1. ~Open("admin")
      BY <2>3, AdminShut DEF RegisterProbes
    <3>2. UNCHANGED <<cfg, loop, sock>> /\ (mode' = "starting" => mode = "starting" /\ todo' \subseteq todo)
      BY <2>3 DEF RegisterProbes, Done, Threads
    <3>. QED BY <2>0, <3>1, <3>2, AdminPlain
  <2>4. CASE Started \/ Stop
    BY <2>0, <2>4, AdminPlain DEF Started, Stop, Threads
  <2>5. ASSUME NEW s \in Sockets, Listen(s) \/ ServerStops(s) \/ ServerThread(s) PROVE AdminOK'
    BY <2>0, <2>5, AdminListen, AdminClose, AdminThread
  <2>6. ASSUME NEW x \in Services, StopService(x) PROVE AdminOK'
    <3>1. ~Open("admin")
      BY <2>6, AdminShut DEF StopService
    <3>2. UNCHANGED <<cfg, loop, sock, mode>> /\ mode # "starting"
      BY <2>6 DEF StopService, StepDone, Stopping
    <3>. QED BY <2>0, <3>1, <3>2, AdminPlain
  <2>7. CASE TellWorker \/ StopProcessor
    <3>1. ~Open("admin")
      BY <2>7, AdminShut, NamesDiffer DEF TellWorker, StopProcessor
    <3>2. UNCHANGED <<cfg, loop, sock>> /\ mode' # "starting"
      BY <2>7 DEF TellWorker, StopProcessor, StepDone, Stopping
    <3>. QED BY <2>0, <3>1, <3>2, AdminPlain
  <2>8. CASE Stopped
    <3>1. ~Open("admin")
      BY <1>0, <2>8 DEF Stopped, SocketOK, Sockets
    <3>2. UNCHANGED <<cfg, loop, sock>> /\ mode' # "starting"
      BY <2>8 DEF Stopped, Threads
    <3>. QED BY <2>0, <3>1, <3>2, AdminPlain
  <2>9. CASE WorkerStep
    <3>1. UNCHANGED <<todo, cfg, failed, svc, probes, loop, sock>> /\ mode' \in {mode, "dead"}
      BY <2>9 DEF WorkerStep, WorkerTests, Accepts, Publish, Call, Main
    <3>. QED BY <2>0, <3>1, AdminPlain
  <2>. QED BY <1>2, <2>1, <2>2, <2>3, <2>4, <2>5, <2>6, <2>7, <2>8, <2>9
           DEF Next, BringUp, TakeDown, ExporterListens, ExporterStops, ExporterThread, Sockets
<1>. QED BY <1>1, <1>2

LEMMA AdminInvariant == Spec => []AdminOK
<1>1. Init => AdminOK
  BY AdminInit
<1>2. LifeInv /\ AdminOK /\ [Next]_vars => AdminOK'
  BY AdminNext
<1>. QED BY <1>1, <1>2, LifeInvariant, PTL DEF Spec

\* A client is told what it would be told now: no service it speaks of stops, and
\* no probe comes or goes, while its answer is on the way.
THEOREM AnswersStayTrue == Spec => []AnswersAreCurrent
<1>1. AdminOK => AnswersAreCurrent
  BY DEF AdminOK
<1>. QED BY <1>1, AdminInvariant, PTL

\* What runs is what the configuration selects, and after a stop or a failed start
\* nothing of it is left.
THEOREM RunsWhatIsConfigured == Spec => []WiredAsConfigured
<1>1. LifeInv /\ AdminOK => WiredAsConfigured
  <2> SUFFICES ASSUME LifeInv, AdminOK PROVE WiredAsConfigured
    OBVIOUS
  <2>0. TypeOK /\ PlanOK /\ BusOK /\ WorkerOK /\ (\A y \in Services : ServiceOK(y)) /\ (\A t \in Sockets : SocketOK(t))
    BY DEF LifeInv
  <2>1. ASSUME mode = "up"
        PROVE  /\ {x \in Services : Runs(x)} = Selected(cfg)
               /\ {h.who : h \in bus} =
                    (IF "processor" \in roles THEN {"observer", "writer", "metrics"} ELSE {})
                      \cup (IF "geofence" \in roles THEN {"fence"} ELSE {})
               /\ \A g, h \in bus : g.who = h.who => g = h
               /\ \A s \in Sockets :
                    Enabled(cfg, s) <=> sock[s].fd = "open" /\ sock[s].port = ConfiguredPort(cfg, s)
               /\ IsHealthy
    <3>1. todo = {} /\ roles = Selected(cfg) /\ ~failed /\ probes = ProbesOf(roles, cfg)
      BY <2>0, <2>1 DEF PlanOK
    <3>2. \A x \in Services : Runs(x) <=> x \in roles
      BY <2>0, <2>1, <3>1 DEF PlanOK, ServiceOK, Serves, Runs
    <3>3. \A x \in Services : Serves(x) <=> Runs(x)
      BY <2>0, <2>1 DEF ServiceOK, Serves, Runs
    <3>4. {h.who : h \in bus} =
            (IF "processor" \in roles THEN {"observer", "writer", "metrics"} ELSE {})
              \cup (IF "geofence" \in roles THEN {"fence"} ELSE {})
      <4>1. bus \subseteq [who : {"observer", "writer", "metrics", "fence"}, of : 1..MaxStarts]
        BY <2>0 DEF TypeOK
      <4>2. Runs("geofence") <=> "geofence" \in roles
        BY <3>2, NamesDiffer
      <4>3. Serves("processor") <=> "processor" \in roles
        BY <3>2, <3>3, NamesDiffer
      <4>. QED BY <2>0, <4>1, <4>2, <4>3 DEF BusOK
    <3>5. \A g, h \in bus : g.who = h.who => g = h
      BY <2>0 DEF BusOK, TypeOK
    <3>6. \A s \in Sockets :
            Enabled(cfg, s) <=> sock[s].fd = "open" /\ sock[s].port = ConfiguredPort(cfg, s)
      BY <2>0, <2>1, <3>1 DEF PlanOK, SocketOK, Open, EnabledSockets
    <3>7. IsHealthy
      <4>1. \A x \in roles : Runs(x) /\ Live(x)
        BY <2>0, <3>2 DEF TypeOK, Runs, Live
      <4>2. ASSUME NEW q \in probes, Required(q) PROVE Passes(q, FALSE)
        <5>1. q \in roles \cup Dependencies \cup {"runtime_startup"}
          BY <3>1, <4>2 DEF ProbesOf, Required, Needed
        <5>. QED BY <2>0, <3>1, <4>1, <5>1 DEF Passes, TypeOK, Services, Dependencies
      <4>. QED BY <2>1, <3>1, <4>1, <4>2 DEF IsHealthy, Up, Healthy, Runs
    <3>. QED BY <3>1, <3>2, <3>4, <3>5, <3>6, <3>7, NamesDiffer
  <2>2. ASSUME mode = "down"
        PROVE  /\ \A x \in Services : svc[x] \in {"stopped", "starting"}
               /\ bus = {} /\ worker.at = "none" /\ ~loop
               /\ \A s \in Sockets : ~sock[s].running /\ sock[s].fd # "open" /\ sock[s].at = "none"
    <3>1. \A x \in Services : ~Serves(x) /\ svc[x] # "failed" /\ svc[x] \in States
      BY <2>0, <2>2 DEF ServiceOK, TypeOK
    <3>2. \A s \in Sockets : ~Open(s) /\ sock[s].at = "none" /\ sock[s].fd # "open" /\ ~sock[s].running
      BY <2>0, <2>2 DEF SocketOK
    <3>3. bus = {} /\ worker.at = "none"
      BY <2>0, <3>1, NamesDiffer DEF BusOK, WorkerOK, Serves, Runs
    <3>. QED BY <3>1, <3>2, <3>3 DEF AdminOK, Serves, States, Sockets
  <2>. QED BY <2>1, <2>2 DEF WiredAsConfigured
<1>. QED BY <1>1, LifeInvariant, AdminInvariant, PTL
=============================================================================
