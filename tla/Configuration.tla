--------------------------- MODULE Configuration ---------------------------
(* What a configuration file means: Config::load overlays the pairs of the  *)
(* file on the defaults and validates the result.  A file is a sequence of  *)
(* lines, comments and blank lines left out:                                *)
(*   [kind |-> "section", name |-> ...]                                     *)
(*   [kind |-> "pair", key |-> ..., raw |-> [form |-> ..., val |-> ...]]    *)
(*   [kind |-> "bad"]   a header, key or value the parser does not accept   *)
(* A raw value's form says how it is written: "string", "bool", "int",      *)
(* "number" (with a fraction), "wide" (more than an int holds), or "junk".  *)
EXTENDS Integers, Sequences, FiniteSets

\* The sections, each with every key that validation reads, and their defaults.
ServerConfig ==
  [role |-> "standalone", listen_addr |-> "0.0.0.0", grpc_port |-> 9090,
   udp_port |-> 9091, tls_cert |-> "", tls_key |-> ""]
KafkaConfig ==
  [brokers |-> "localhost:9092", ingest_topic |-> "tm.location.events",
   geofence_topic |-> "tm.geofence.events", dlq_topic |-> "tm.location.dlq",
   consumer_group |-> "signalroute-processor", num_partitions |-> 16,
   batch_size_bytes |-> 65536, linger_ms |-> 5]
RedisConfig ==
  [addrs |-> "localhost:6379", pool_size |-> 32, connect_timeout_ms |-> 1000,
   read_timeout_ms |-> 500, key_prefix |-> "sr", device_ttl_s |-> 3600]
PostGISConfig ==
  [dsn |-> "", pool_size |-> 16, write_batch_size |-> 500,
   write_flush_interval_ms |-> 500, query_timeout_ms |-> 5000]
ProcessorConfig ==
  [dedup_ttl_s |-> 300, dedup_max_entries |-> 500000,
   sequence_guard_enabled |-> TRUE, out_of_order_tolerance_s |-> 60,
   history_batch_size |-> 500, history_flush_interval_ms |-> 500,
   history_buffer_max_rows |-> 10000, redis_max_retries |-> 3,
   redis_backoff_max_ms |-> 5000]
SpatialConfig ==
  [h3_resolution |-> 7, nearby_max_results |-> 1000,
   nearby_max_radius_m |-> 50000, h3_cache_size_mb |-> 64]
GeofenceConfig ==
  [eval_enabled |-> TRUE, dwell_threshold_s |-> 300, max_fences |-> 10000,
   reload_interval_s |-> 60]
GatewayConfig ==
  [max_batch_events |-> 1000, rate_limit_rps_per_device |-> 100,
   timestamp_skew_tolerance_s |-> 30, queue_full_timeout_ms |-> 500,
   auth_required |-> FALSE, api_key |-> "", max_in_flight_requests |-> 0]
MatchingConfig ==
  [strategy_name |-> "default", request_topic |-> "sr.match.requests",
   result_topic |-> "sr.match.results", request_ttl_ms |-> 5000]
ThreadConfig ==
  [io_threads |-> 0, processor_threads |-> 0, geofence_eval_threads |-> 4,
   blocking_pool_size |-> 16]
ObservabilityConfig ==
  [metrics_addr |-> "0.0.0.0", metrics_port |-> 9100,
   metrics_path |-> "/metrics", metrics_exporter_enabled |-> FALSE, log_level |-> "info",
   admin_http_enabled |-> TRUE, admin_socket_enabled |-> FALSE,
   admin_socket_addr |-> "127.0.0.1", admin_socket_port |-> 9101,
   admin_socket_backlog |-> 16, admin_request_timeout_ms |-> 1000,
   admin_max_request_bytes |-> 8192, admin_access_log_enabled |-> FALSE,
   health_path |-> "/health", readiness_path |-> "/ready",
   require_kafka_readiness |-> FALSE, require_redis_readiness |-> FALSE,
   require_postgis_readiness |-> FALSE, require_h3_readiness |-> FALSE]
Default ==
  [server |-> ServerConfig,
   kafka |-> KafkaConfig,
   redis |-> RedisConfig,
   postgis |-> PostGISConfig,
   processor |-> ProcessorConfig,
   spatial |-> SpatialConfig,
   geofence |-> GeofenceConfig,
   gateway |-> GatewayConfig,
   matching |-> MatchingConfig,
   threads |-> ThreadConfig,
   observability |-> ObservabilityConfig]

\* How each key is read; the others are strings.
Bools ==
  {"sequence_guard_enabled", "eval_enabled", "auth_required", "metrics_exporter_enabled",
   "admin_http_enabled", "admin_socket_enabled", "admin_access_log_enabled",
   "require_kafka_readiness", "require_redis_readiness", "require_postgis_readiness",
   "require_h3_readiness"}
Doubles == {"nearby_max_radius_m"}
Strings ==
  {"role", "listen_addr", "tls_cert", "tls_key", "brokers", "ingest_topic", "geofence_topic",
   "dlq_topic", "consumer_group", "addrs", "key_prefix", "dsn", "api_key", "strategy_name",
   "request_topic", "result_topic", "metrics_addr", "metrics_path", "log_level",
   "admin_socket_addr", "health_path", "readiness_path"}

\* What validation asks of a key; the other integers must be positive.
NonNegative ==
  {"linger_ms", "out_of_order_tolerance_s", "redis_max_retries", "redis_backoff_max_ms",
   "timestamp_skew_tolerance_s", "max_in_flight_requests", "io_threads", "processor_threads"}
Ports == {"grpc_port", "udp_port"}
PortsOrZero == {"metrics_port", "admin_socket_port"}
MayBeEmpty == {"tls_cert", "tls_key", "api_key"}
PathKeys == {"metrics_path", "health_path", "readiness_path"}
Roles == {"standalone", "gateway", "processor", "query", "geofence", "matcher"}
LogLevels == {"trace", "debug", "info", "warn", "error"}
\* Strings do not come apart here: the paths are those that start with a slash.
Slashed == {"/metrics", "/health", "/healthz", "/ready", "/readyz", "/live"}

(***************************** parsing a file ******************************)
SectionAt(file, i) ==
  LET heads == {j \in 1..i : file[j].kind = "section"} IN
  IF heads = {} THEN ""
  ELSE file[CHOOSE j \in heads : \A h \in heads : h <= j].name

Parses(file) ==
  \A i \in 1..Len(file) : /\ file[i].kind # "bad"
                          /\ file[i].kind = "pair" => SectionAt(file, i) # ""

\* The lines that give key k of section s a value: the last one counts.
Lines(file, s, k) ==
  {i \in 1..Len(file) : file[i].kind = "pair" /\ file[i].key = k /\ SectionAt(file, i) = s}
Raw(file, s, k) ==
  file[CHOOSE i \in Lines(file, s, k) : \A j \in Lines(file, s, k) : j <= i].raw

Readable(k, raw) ==
  \/ k \in Strings /\ raw.form = "string"
  \/ k \in Bools /\ raw.form = "bool"
  \/ k \in Doubles /\ raw.form \in {"int", "number", "wide"}
  \/ k \notin Strings \cup Bools \cup Doubles /\ raw.form = "int"

\* A key the file leaves out keeps its default, a key no section has is ignored.
Reads(file) ==
  /\ Parses(file)
  /\ \A s \in DOMAIN Default : \A k \in DOMAIN Default[s] :
       Lines(file, s, k) # {} => Readable(k, Raw(file, s, k))
Overlay(file) ==
  [s \in DOMAIN Default |-> [k \in DOMAIN Default[s] |->
     IF Lines(file, s, k) = {} THEN Default[s][k] ELSE Raw(file, s, k).val]]

(******************************* validation ********************************)
\* What a uint16_t holds.
PortCount == 256 * 256
PortNumbers == 0..(PortCount - 1)
\* Mutant: a port is any number that is not negative.
AnyPort(k) == IF k \in Ports THEN 1..99999 ELSE 0..99999
PortsFor(k) == IF k \in Ports THEN PortNumbers \ {0} ELSE PortNumbers

Admits(k, v) ==
  CASE k = "role" -> v \in Roles
    [] k = "log_level" -> v \in LogLevels
    [] k \in PathKeys -> v \in Slashed
    [] k \in Bools \cup MayBeEmpty -> TRUE
    [] k \in Strings -> v # ""
    [] k = "h3_resolution" -> v \in 0..15
    [] k \in NonNegative -> v >= 0
    [] k \in Ports \cup PortsOrZero -> v \in PortsFor(k)
    [] OTHER -> v > 0

Valid(c) ==
  /\ \A s \in DOMAIN Default : \A k \in DOMAIN Default[s] : Admits(k, c[s][k])
  /\ c.gateway.auth_required => c.gateway.api_key # ""

(*************************** loading, and the role *************************)
WithRole(c, role) == IF role = "" THEN c ELSE [c EXCEPT !.server.role = role]

\* main: the file is loaded and validated, then the role given on the command
\* line replaces the file's and the whole is validated again.
Loads(file, role) ==
  Reads(file) /\ Valid(Overlay(file)) /\ Valid(WithRole(Overlay(file), role))
Loaded(file, role) == WithRole(Overlay(file), role)
=============================================================================
