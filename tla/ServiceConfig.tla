--------------------------- MODULE ServiceConfig ---------------------------
(***************************************************************************)
(* The configuration of the services and of the resilient HTTP client:     *)
(* presets, tag defaults, a YAML file and the environment laid over each   *)
(* other, the defaults each part fills into zero fields, and the rules.    *)
(* Durations and sizes are numbers that keep the order of the real ones;   *)
(* ratios are in percent.                                                  *)
(***************************************************************************)
EXTENDS Integers

CONSTANTS
  Numbers,     \* numbers a key may be given
  Addresses    \* listen addresses a key may be given

ASSUME NumbersAssumption == Numbers \subseteq Int

VARIABLES
  service,   \* whose configuration it is
  file,      \* the keys the YAML file sets
  env,       \* the keys the environment sets
  settings,  \* the effective value of each key
  phase      \* "given", "loaded", "accepted", "refused"

settingVars == <<service, file, env, settings, phase>>

\* envDefault tags, DefaultTarget.
HttpTags == [addr |-> ":8080", adminAddr |-> ":9080", adminToken |-> 0, adminInsecure |-> 0,
             readTimeout |-> 30, requestTimeout |-> 30, requestTimeoutMin |-> 1, shutdownDelay |-> 2,
             shutdownTimeout |-> 10, healthInterval |-> 10, healthTimeout |-> 3,
             logLevelMaxTTL |-> 1440, logSampleInitial |-> 100, logSampleThereafter |-> 100]
TaskTags == [databaseURL |-> 0, dbHost |-> 1, cacheTTL |-> 60, tombstoneTTL |-> 5,
             pollInterval |-> 1, batchSize |-> 100, maxBackoff |-> 30, maxAttempts |-> 10, rejectBackoff |-> 1,
             idempotencyTTL |-> 1440, purgeInterval |-> 10,
             valkeyAddr |-> 0, valkeyOpTimeout |-> 5, kafkaBrokers |-> 0, kafkaTopic |-> 1]
TargetTags == [breakerRatio |-> 50, breakerMinRequests |-> 20, breakerWindow |-> 10, breakerOpenTimeout |-> 30,
               breakerProbes |-> 1, maxAttempts |-> 3, baseDelay |-> 1, maxDelay |-> 50,
               budgetRatio |-> 20, budgetMinRetries |-> 10, budgetWindow |-> 10, maxConcurrent |-> 0]

Over(f, g) == [k \in DOMAIN f \union DOMAIN g |-> IF k \in DOMAIN g THEN g[k] ELSE f[k]]

Tags(s) ==
  CASE s = "ping"      -> HttpTags
    [] s = "tasks"     -> Over(HttpTags, TaskTags)
    [] s = "consumer"  -> Over(HttpTags, [kafkaBrokers |-> 0, dedupeSize |-> 10000])
    [] s = "heartbeat" -> Over(HttpTags, [interval |-> 5])
    [] s = "target"    -> TargetTags

\* The service's own defaults, over the tags.
Preset(s) ==
  CASE s = "tasks"     -> [addr |-> ":8082", adminAddr |-> ":9082"]
    [] s = "consumer"  -> [adminAddr |-> ":9083"]
    [] s = "heartbeat" -> [adminAddr |-> ":9081"]
    [] OTHER           -> << >>

IsAddress(k) == k \in {"addr", "adminAddr"}
Unset(k) == IF IsAddress(k) THEN "" ELSE 0

\* What a deployment must set for the service to start with its defaults.
Needed(s) == IF s = "consumer" THEN [adminToken |-> 1, kafkaBrokers |-> 1] ELSE [adminToken |-> 1]

\* At most one key in each layer besides the needed ones; an empty variable
\* counts as unset.
Layers(keys, addresses) ==
  {<< >>} \union UNION {[{k} -> IF IsAddress(k) THEN addresses ELSE Numbers] : k \in keys}

SettingsInit ==
  /\ service \in {"ping", "tasks", "consumer", "heartbeat", "target"}
  /\ file \in IF service \in {"ping", "heartbeat"} THEN {<< >>} ELSE Layers(DOMAIN Tags(service), Addresses)
  /\ IF service = "target" THEN env = << >>
     ELSE \E needed \in {<< >>, Needed(service)},
             layer \in Layers(DOMAIN Tags(service), IF service = "heartbeat" THEN Addresses ELSE Addresses \ {""}) :
            env = Over(needed, layer)
  /\ settings = [k \in DOMAIN Tags(service) |-> Unset(k)] /\ phase = "given"

----------------------------------------------------------------------------
\* fillZero: the tag defaults go into the fields still at zero.
fillZero(dst, def) == [k \in DOMAIN def |-> IF dst[k] = Unset(k) THEN def[k] ELSE dst[k]]

\* Defaults filled in last, as "whatever is still zero".
LoadConfigMutant ==
  /\ phase = "given" /\ phase' = "loaded"
  /\ LET read == fillZero(Over(Over(Over(settings, Preset(service)), file), env), Tags(service))
     IN settings' = IF service \in {"consumer", "heartbeat"} THEN [read EXCEPT !.addr = ""] ELSE read
  /\ UNCHANGED <<service, file, env>>

\* LoadYAML, LoadConfig and the services' Load: defaults, file, environment; a
\* worker has no API listener.
LoadConfig ==
  /\ phase = "given" /\ phase' = "loaded"
  /\ LET read == Over(Over(fillZero(Over(settings, Preset(service)), Tags(service)), file), env)
     IN settings' = IF service \in {"consumer", "heartbeat"} THEN [read EXCEPT !.addr = ""] ELSE read
  /\ UNCHANGED <<service, file, env>>

----------------------------------------------------------------------------
Filled == {"readTimeout", "shutdownTimeout", "healthInterval", "healthTimeout", "logLevelMaxTTL"}

\* httpx.Config.withDefaults
withDefaults(c) == [k \in DOMAIN c |-> IF k \in Filled /\ c[k] = 0 THEN HttpTags[k] ELSE c[k]]

isLoopback(a) == a = "localhost:1"

\* httpx.Config.Validate
HttpValid(c) ==
  /\ c.addr # "" \/ c.adminAddr # ""
  /\ c.addr # "" /\ c.addr = c.adminAddr => c.addr = ":0"
  /\ c.shutdownTimeout > 0 /\ c.shutdownDelay >= 0
  /\ c.requestTimeoutMin >= 0 /\ (c.requestTimeout > 0 => c.requestTimeoutMin <= c.requestTimeout)
  /\ c.healthTimeout < c.healthInterval
  /\ c.logLevelMaxTTL > 0 /\ c.logSampleInitial >= 0 /\ c.logSampleThereafter >= 0
  /\ c.adminAddr # "" => c.adminToken # 0 \/ c.adminInsecure # 0 \/ isLoopback(c.adminAddr)

\* strayKeys: a key of an integration whose address is not set.
strayKeys(c) ==
  \/ c.valkeyAddr = 0 /\ c.valkeyOpTimeout # TaskTags.valkeyOpTimeout
  \/ c.kafkaBrokers = 0 /\ c.kafkaTopic # TaskTags.kafkaTopic

\* config.Config.Validate of the tasks service
TasksValid(c) ==
  /\ ~strayKeys(c)
  /\ c.databaseURL # 0 \/ c.dbHost # 0
  /\ c.kafkaBrokers # 0 => c.kafkaTopic # 0
  /\ c.cacheTTL > 0 /\ c.tombstoneTTL > 0
  /\ c.pollInterval > 0 /\ c.maxBackoff >= c.pollInterval
  /\ c.batchSize \in 1..1000 /\ c.maxAttempts >= 1 /\ c.rejectBackoff > 0
  /\ c.idempotencyTTL > 0 /\ c.purgeInterval > 0

\* TargetConfig.validate
TargetValid(c) ==
  /\ c.maxConcurrent >= 0 /\ c.breakerRatio \in 0..100
  /\ c.breakerRatio > 0 => /\ c.breakerMinRequests >= 1 /\ c.breakerProbes >= 1
                           /\ c.breakerWindow > 0 /\ c.breakerOpenTimeout > 0
  /\ c.maxAttempts >= 0 /\ c.baseDelay >= 0 /\ c.maxDelay >= c.baseDelay
  /\ c.budgetRatio \in 0..100 /\ c.budgetMinRetries >= 0 /\ c.budgetWindow >= 0

SettingsValid(c) ==
  /\ service # "target" => HttpValid(c)
  /\ service = "tasks" => TasksValid(c)
  /\ service = "consumer" => c.kafkaBrokers # 0 /\ c.dedupeSize > 0
  /\ service = "heartbeat" => c.interval > 0
  /\ service = "target" => TargetValid(c)

Validate ==
  /\ phase = "loaded"
  /\ LET c == IF service = "target" THEN settings ELSE withDefaults(settings)
     IN settings' = c /\ phase' = IF SettingsValid(c) THEN "accepted" ELSE "refused"
  /\ UNCHANGED <<service, file, env>>

SettingsNext == LoadConfig \/ Validate

SettingsSpec == SettingsInit /\ [][SettingsNext]_settingVars

----------------------------------------------------------------------------
\* NewHealth: what the health checks run with.
NewHealth(c) == [interval |-> IF c.healthInterval <= 0 THEN 10 ELSE c.healthInterval,
                 timeout  |-> IF c.healthTimeout <= 0 THEN 3 ELSE c.healthTimeout]

\* newSamplingHandler
SampleEvery(c) == IF c.logSampleThereafter <= 0 THEN 100 ELSE c.logSampleThereafter

----------------------------------------------------------------------------
\* What the layers ask for.
Requested(k) ==
  IF k \in DOMAIN env THEN env[k]
  ELSE IF k \in DOMAIN file THEN file[k]
  ELSE Over(Tags(service), Preset(service))[k]

\* A key has the value of the highest layer that sets it, an explicit zero
\* included; only httpx's own zero fields are filled afterwards.
HighestLayerWins ==
  phase # "given" =>
    \A k \in DOMAIN settings :
      \/ settings[k] = Requested(k)
      \/ k = "addr" /\ service \in {"consumer", "heartbeat"}
      \/ phase # "loaded" /\ k \in Filled /\ Requested(k) = 0 /\ service # "target"

\* A service starts with settings its parts can run with: tickers have a
\* positive period, the relay a batch, attempts and a backoff no shorter than
\* its poll, the cache a tombstone, the log sampler a step, the consumer room for
\* an id, the breaker a request, a probe and a window; a readiness check ends
\* before the next one (a negative timeout, replaced by NewHealth, left out);
\* the request floor is below the timeout.  And they are the ones given: every
\* key has the value of the highest layer that sets it (the Validate functions of
\* httpx, the services and the resilient client; config_yaml.go LoadYAML, the
\* services' Load).
StartsAsConfigured ==
  /\ HighestLayerWins
  /\ phase = "accepted" =>
      /\ service # "target" =>
           /\ NewHealth(settings).interval > 0
           /\ settings.healthTimeout > 0 => NewHealth(settings).timeout < NewHealth(settings).interval
           /\ settings.shutdownTimeout > 0 /\ SampleEvery(settings) > 0
           /\ settings.requestTimeout > 0 => settings.requestTimeoutMin <= settings.requestTimeout
      /\ service = "tasks" =>
           /\ settings.pollInterval > 0 /\ settings.pollInterval <= settings.maxBackoff
           /\ settings.batchSize > 0 /\ settings.maxAttempts > 0 /\ settings.rejectBackoff > 0
           /\ settings.purgeInterval > 0 /\ settings.tombstoneTTL > 0
           /\ settings.kafkaBrokers = 0 => "kafkaTopic" \notin DOMAIN env \/ env.kafkaTopic = TaskTags.kafkaTopic
      /\ service = "consumer" => settings.dedupeSize > 0 /\ settings.kafkaBrokers # 0
      /\ service = "heartbeat" => settings.interval > 0 /\ settings.adminAddr # ""
      /\ service = "target" /\ settings.breakerRatio > 0 =>
           settings.breakerProbes > 0 /\ settings.breakerMinRequests > 0 /\ settings.breakerWindow > 0
=============================================================================
