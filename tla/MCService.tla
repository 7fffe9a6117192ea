----------------------------- MODULE MCService -----------------------------
(***************************************************************************)
(* Components of the services and of their Kafka clients that share no     *)
(* state, for TLC: a behaviour is one of the component that part names,    *)
(* and the others stay where they start.                                   *)
(***************************************************************************)
EXTENDS TaskCache, TaskList, Migrate, EventWorker, Health, HttpRequest, LogLevel, ServiceConfig, RdkafkaPoll,
        KafkaSend, KafkaConfig, TLC

CONSTANTS old, new

VARIABLE part

\* Two releases of the tasks service, the later one with one more migration.
MCReplicas == {old, new}
MCFiles == old :> {1, 2} @@ new :> {1, 2, 3}

\* Configurations: every choice of security, of sizes and of the rest, around
\* the one that only names its brokers.
Plain ==
  [brokers |-> "addresses", protocol |-> "", mechanism |-> "", user |-> FALSE, password |-> FALSE,
   passwordFile |-> FALSE, ca |-> "", cert |-> FALSE, key |-> FALSE, identification |-> "",
   codec |-> "", reset |-> "", strategy |-> "", session |-> 0, pollInterval |-> 0, linger |-> 0,
   backoff |-> 0, backoffMax |-> 0, queueKB |-> 0, messageMax |-> 0, consumerKB |-> 0,
   fetchMax |-> 0, partitionMax |-> 0, extra |-> {}]

MCRaw ==
  {[Plain EXCEPT !.protocol = p, !.mechanism = m, !.user = u, !.password = w, !.passwordFile = f,
                 !.ca = a, !.cert = x, !.key = y, !.identification = i] :
     p \in {"plaintext", " SSL", "sasl_ssl", "other"}, m \in {"", "plain", "other"},
     u, w, f, x, y \in BOOLEAN, a \in {"", "probe", "path"}, i \in {"", "none"}}
  \union
  {[Plain EXCEPT !.queueKB = q, !.messageMax = m, !.fetchMax = f, !.partitionMax = p, !.consumerKB = c,
                 !.extra = e] :
     q \in {-1, 0, 100}, m \in {0, 1, 100 * KiB, 10000 * KiB}, f \in {-1, 0, 50 * MiB, 2048 * MiB},
     p \in {0, 60 * MiB}, c \in {0, 200000}, e \in {{}, {"acks"}, {"other"}}}
  \union
  {[Plain EXCEPT !.brokers = b, !.codec = c, !.reset = r, !.session = s, !.pollInterval = i,
                 !.backoff = x, !.backoffMax = y] :
     b \in {"none", "blank", "addresses"}, c \in {"none", "other"}, r \in {"latest", "earliest", "other"},
     s \in {-1, 0, 400}, i \in {-1, 0, 40}, x \in {0, 400}, y \in {0, 1}}

----------------------------------------------------------------------------
MCNumbers == {-1, 0, 1, 2000}

\* One initial state for each component that part does not name.
Resting ==
  /\ part = "cache" \/ (row = [ver |-> 0, live |-> FALSE] /\ proc = CHOOSE f \in [Requests -> Procs] : TRUE)
  /\ part = "send" \/ provider = "franz"
  /\ part = "request"
       \/ req = [op |-> "get", route |-> "found", body |-> "ok", valid |-> TRUE,
                 timeout |-> 0, floor |-> 0, asked |-> 0]

MCInit ==
  /\ part \in {"cache", "list", "migration", "worker", "health", "request", "log", "settings", "poll", "send", "config"}
  /\ Resting
  /\ CacheInit /\ MigrateInit /\ WorkerInit /\ HealthInit /\ RequestInit /\ LogInit /\ PollInit /\ SendInit
  /\ IF part = "list" THEN ListInit
     ELSE table = {} /\ cursor = {} /\ done = FALSE /\ listed = << >> /\ stable = {} /\ deleted = {} /\ changes = 0
  /\ IF part = "settings" THEN SettingsInit
     ELSE service = "ping" /\ file = << >> /\ env = << >> /\ settings = << >> /\ phase = "given"
  /\ IF part = "config" THEN ConfigInit
     ELSE driver = "franz" /\ conf = Plain /\ files = << >> /\ step = "raw" /\ client = {}

MCNext ==
  /\ UNCHANGED part
  /\ \/ /\ part = "cache" /\ CacheNext
        /\ UNCHANGED <<listVars, migrateVars, workerVars, healthVars, requestVars,
                       logVars, settingVars, pollVars, sendVars, configVars>>
     \/ /\ part = "list" /\ ListNext
        /\ UNCHANGED <<cacheVars, migrateVars, workerVars, healthVars, requestVars,
                       logVars, settingVars, pollVars, sendVars, configVars>>
     \/ /\ part = "migration" /\ MigrateNext
        /\ UNCHANGED <<cacheVars, listVars, workerVars, healthVars, requestVars,
                       logVars, settingVars, pollVars, sendVars, configVars>>
     \/ /\ part = "worker" /\ WorkerNext
        /\ UNCHANGED <<cacheVars, listVars, migrateVars, healthVars, requestVars,
                       logVars, settingVars, pollVars, sendVars, configVars>>
     \/ /\ part = "health" /\ HealthNext
        /\ UNCHANGED <<cacheVars, listVars, migrateVars, workerVars, requestVars,
                       logVars, settingVars, pollVars, sendVars, configVars>>
     \/ /\ part = "request" /\ RequestNext
        /\ UNCHANGED <<cacheVars, listVars, migrateVars, workerVars, healthVars,
                       logVars, settingVars, pollVars, sendVars, configVars>>
     \/ /\ part = "log" /\ LogNext
        /\ UNCHANGED <<cacheVars, listVars, migrateVars, workerVars, healthVars,
                       requestVars, settingVars, pollVars, sendVars, configVars>>
     \/ /\ part = "settings" /\ SettingsNext
        /\ UNCHANGED <<cacheVars, listVars, migrateVars, workerVars, healthVars,
                       requestVars, logVars, pollVars, sendVars, configVars>>
     \/ /\ part = "poll" /\ PollNext
        /\ UNCHANGED <<cacheVars, listVars, migrateVars, workerVars, healthVars,
                       requestVars, logVars, settingVars, sendVars, configVars>>
     \/ /\ part = "send" /\ SendNext
        /\ UNCHANGED <<cacheVars, listVars, migrateVars, workerVars, healthVars,
                       requestVars, logVars, settingVars, pollVars, configVars>>
     \/ /\ part = "config" /\ ConfigNext
        /\ UNCHANGED <<cacheVars, listVars, migrateVars, workerVars, healthVars,
                       requestVars, logVars, settingVars, pollVars, sendVars>>

MCSpec ==
  MCInit /\ [][MCNext]_<<part, cacheVars, listVars, migrateVars, workerVars, healthVars, requestVars, logVars,
                        settingVars, pollVars, sendVars, configVars>>
============================================================================
