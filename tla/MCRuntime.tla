----------------------------- MODULE MCRuntime -----------------------------
(* Instances of Runtime for TLC. *)
EXTENDS Runtime

Section(n) == [kind |-> "section", name |-> n]
Str(k, v) == [kind |-> "pair", key |-> k, raw |-> [form |-> "string", val |-> v]]
Bool(k, v) == [kind |-> "pair", key |-> k, raw |-> [form |-> "bool", val |-> v]]
Num(k, v) == [kind |-> "pair", key |-> k, raw |-> [form |-> "int", val |-> v]]

Dsn == <<Section("postgis"), Str("dsn", "db")>>
Watch == Section("observability")
BothSockets == <<Watch, Bool("admin_socket_enabled", TRUE), Bool("metrics_exporter_enabled", TRUE)>>

MCBoots ==
  {\* everything, with both sockets and a dependency the build lacks
   [file |-> Dsn \o BothSockets \o <<Bool("require_redis_readiness", TRUE)>>,
    role |-> "", checked |-> TRUE],
   \* the processor alone; the later port counts, and a key nobody reads
   [file |-> Dsn \o BothSockets \o <<Num("metrics_port", 70000), Num("metrics_port", 0),
                                     Str("metric_path", "/live")>>,
    role |-> "processor", checked |-> TRUE],
   \* the health path on the readiness alias, no fences
   [file |-> Dsn \o <<Watch, Bool("admin_socket_enabled", TRUE), Str("health_path", "/live")>>
                 \o <<Section("geofence"), Bool("eval_enabled", FALSE)>>,
    role |-> "geofence", checked |-> TRUE],
   \* a port no socket has, handed over unchecked
   [file |-> Dsn \o BothSockets \o <<Num("metrics_port", 70000)>>, role |-> "", checked |-> FALSE],
   \* refused: no DSN; a wide integer; a key before any section; an unknown role
   [file |-> BothSockets, role |-> "", checked |-> TRUE],
   [file |-> Dsn \o <<Watch, [kind |-> "pair", key |-> "metrics_port",
                              raw |-> [form |-> "wide", val |-> 0]]>>, role |-> "", checked |-> FALSE],
   [file |-> <<Str("dsn", "db")>>, role |-> "", checked |-> FALSE],
   [file |-> Dsn, role |-> "worker", checked |-> TRUE]}

MCRequests ==
  {[method |-> "GET", path |-> "/ready"], [method |-> "POST", path |-> "/health"],
   [method |-> "HEAD", path |-> "/metrics"]}
=============================================================================
