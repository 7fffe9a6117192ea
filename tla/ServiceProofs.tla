--------------------------- MODULE ServiceProofs ----------------------------
(***************************************************************************)
(* What a service is made of, each for any constants and any number of     *)
(* steps: the read cache, readiness, a request's way through the           *)
(* middleware, Send, and the way from the configuration to a service that  *)
(* starts and to its clients.  A section has a component's inductive       *)
(* invariant, the lemmas about its steps and the theorem they are for.     *)
(***************************************************************************)
EXTENDS TaskCache, Health, HttpRequest, KafkaSend, ServiceConfig, KafkaConfig, TLAPS

----------------------------------------------------------------------------
(* From the layers of the configuration to a service that starts.          *)

Configured == {"ping", "tasks", "consumer", "heartbeat", "target"}

\* Every key but the two addresses has a number.
Numeric(f) == \A k \in DOMAIN f : ~IsAddress(k) => f[k] \in Int

SettingsInv ==
  /\ service \in Configured /\ Numeric(file) /\ Numeric(env)
  /\ phase = "given" => settings = [k \in DOMAIN Tags(service) |-> Unset(k)]
  /\ phase # "given" =>
       /\ DOMAIN Tags(service) \subseteq DOMAIN settings /\ Numeric(settings)
       /\ service \in {"consumer", "heartbeat"} => settings.addr = ""
  /\ HighestLayerWins
  /\ phase = "accepted" => SettingsValid(settings)

\* A layer over another.
LEMMA OverNumeric == ASSUME NEW f, NEW g, Numeric(f), Numeric(g) PROVE Numeric(Over(f, g))
BY Zenon DEF Numeric, Over

\* The tags by themselves.
LEMMA TagsNumeric == Numeric(HttpTags) /\ Numeric(TaskTags) /\ Numeric(TargetTags)
<1>1. Numeric(HttpTags)
  BY DEF Numeric, HttpTags, IsAddress
<1>2. Numeric(TaskTags)
  BY DEF Numeric, TaskTags, IsAddress
<1>3. Numeric(TargetTags)
  BY DEF Numeric, TargetTags, IsAddress
<1>4. QED
  BY <1>1, <1>2, <1>3, Zenon

\* Each service has the keys of its parts, with numbers for their defaults.
LEMMA TagsAre ==
  /\ \A s \in Configured : Numeric(Tags(s))
  /\ \A s \in Configured \ {"target"} : DOMAIN HttpTags \subseteq DOMAIN Tags(s)
  /\ DOMAIN TaskTags \subseteq DOMAIN Tags("tasks") /\ Tags("target") = TargetTags
<1> DEFINE c == [kafkaBrokers |-> 0, dedupeSize |-> 10000]
           h == [interval |-> 5]
<1>1. Numeric(c) /\ Numeric(h)
  BY DEF Numeric, IsAddress
<1> HIDE DEF c, h
<1>2. /\ Tags("ping") = HttpTags /\ Tags("tasks") = Over(HttpTags, TaskTags)
      /\ Tags("consumer") = Over(HttpTags, c) /\ Tags("heartbeat") = Over(HttpTags, h)
      /\ Tags("target") = TargetTags
  BY DEF Tags, c, h
<1>3. \A f, g : DOMAIN f \subseteq DOMAIN Over(f, g) /\ DOMAIN g \subseteq DOMAIN Over(f, g)
  BY Zenon DEF Over
<1>4. Numeric(Over(HttpTags, TaskTags)) /\ Numeric(Over(HttpTags, c)) /\ Numeric(Over(HttpTags, h))
  BY <1>1, OverNumeric, TagsNumeric, Zenon
<1>5. \A s \in Configured : Numeric(Tags(s))
  BY <1>2, <1>4, TagsNumeric, Zenon DEF Configured
<1>6. \A s \in Configured \ {"target"} : DOMAIN HttpTags \subseteq DOMAIN Tags(s)
  BY <1>2, <1>3, Zenon DEF Configured
<1>7. QED
  BY <1>2, <1>3, <1>5, <1>6, Zenon

\* A service presets only addresses, and no empty one.
LEMMA PresetIs ==
  ASSUME NEW s \in Configured, NEW k \in DOMAIN Preset(s)
  PROVE  IsAddress(k) /\ Preset(s)[k] # ""
<1>1. /\ Preset("tasks") = [addr |-> ":8082", adminAddr |-> ":9082"]
      /\ Preset("consumer") = [adminAddr |-> ":9083"] /\ Preset("heartbeat") = [adminAddr |-> ":9081"]
      /\ Preset("ping") = << >> /\ Preset("target") = << >>
  BY DEF Preset
<1>2. /\ DOMAIN Preset("tasks") = {"addr", "adminAddr"} /\ DOMAIN Preset("consumer") = {"adminAddr"}
      /\ DOMAIN Preset("heartbeat") = {"adminAddr"} /\ DOMAIN Preset("ping") = {} /\ DOMAIN Preset("target") = {}
  BY <1>1
<1>3. /\ Preset("tasks")["addr"] = ":8082" /\ Preset("tasks")["adminAddr"] = ":9082"
      /\ Preset("consumer")["adminAddr"] = ":9083" /\ Preset("heartbeat")["adminAddr"] = ":9081"
  BY <1>1
<1>4. QED
  BY <1>2, <1>3, Zenon DEF Configured, IsAddress

\* The layers as they are given.
LEMMA LayersNumeric ==
  ASSUME NEW keys, NEW addresses, NEW f \in Layers(keys, addresses)
  PROVE  Numeric(f)
<1>1. CASE f = << >>
  BY <1>1 DEF Numeric
<1>2. ASSUME NEW k \in keys, f \in [{k} -> IF IsAddress(k) THEN addresses ELSE Numbers]
      PROVE  Numeric(f)
  BY <1>2, NumbersAssumption, Zenon DEF Numeric
<1>3. QED
  BY <1>1, <1>2, Zenon DEF Layers

LEMMA SettingsStart == SettingsInit => SettingsInv
<1> SUFFICES ASSUME SettingsInit PROVE SettingsInv
  OBVIOUS
<1>1. Numeric(<< >>)
  BY DEF Numeric
<1>2. Numeric(Needed(service))
  BY DEF Numeric, Needed, IsAddress
<1>3. Numeric(file)
  <2>1. file = << >> \/ file \in Layers(DOMAIN Tags(service), Addresses)
    BY Zenon DEF SettingsInit
  <2>2. QED
    BY <1>1, <2>1, LayersNumeric, Zenon
<1>4. Numeric(env)
  <2>1. CASE service = "target"
    <3>1. env = << >>
      BY <2>1 DEF SettingsInit
    <3>2. QED
      BY <1>1, <3>1, Zenon
  <2>2. CASE service # "target"
    <3>1. PICK needed \in {<< >>, Needed(service)},
               layer \in Layers(DOMAIN Tags(service), IF service = "heartbeat" THEN Addresses ELSE Addresses \ {""}) :
                 env = Over(needed, layer)
      BY <2>2, Zenon DEF SettingsInit
    <3>2. Numeric(needed) /\ Numeric(layer)
      BY <1>1, <1>2, LayersNumeric, Zenon
    <3>3. QED
      BY <3>1, <3>2, OverNumeric, Zenon
  <2>3. QED
    BY <2>1, <2>2, Zenon
<1>5. /\ service \in Configured /\ phase = "given"
      /\ settings = [k \in DOMAIN Tags(service) |-> Unset(k)]
  BY Zenon DEF SettingsInit, Configured
<1>6. HighestLayerWins
  BY <1>5, Zenon DEF HighestLayerWins
<1>7. phase # "accepted"
  BY <1>5
<1>8. QED
  BY <1>3, <1>4, <1>5, <1>6, <1>7, Zenon DEF SettingsInv

\* What the layers ask for is a number wherever a number is expected.
LEMMA RequestedNumeric ==
  ASSUME service \in Configured, Numeric(file), Numeric(env), NEW k, ~IsAddress(k),
         k \in DOMAIN Tags(service) \union DOMAIN file \union DOMAIN env
  PROVE  Requested(k) \in Int
<1>1. CASE k \in DOMAIN env \union DOMAIN file
  BY <1>1, Zenon DEF Requested, Numeric
<1>2. CASE k \notin DOMAIN env \union DOMAIN file
  <2>1. k \in DOMAIN Tags(service) /\ k \notin DOMAIN Preset(service)
    BY <1>2, PresetIs, Zenon
  <2>2. Requested(k) = Tags(service)[k]
    BY <1>2, <2>1, Zenon DEF Requested, Over
  <2>3. QED
    BY <2>1, <2>2, TagsAre, Zenon DEF Numeric
<1>3. QED
  BY <1>1, <1>2, Zenon

\* The layers one over the other.
LEMMA LoadStep == ASSUME SettingsInv, LoadConfig PROVE SettingsInv'
<1> DEFINE base == fillZero(Over(settings, Preset(service)), Tags(service))
           read == Over(Over(base, file), env)
<1>1. /\ service \in Configured /\ Numeric(file) /\ Numeric(env)
      /\ settings = [k \in DOMAIN Tags(service) |-> Unset(k)]
      /\ phase' = "loaded" /\ UNCHANGED <<service, file, env>>
  BY Zenon DEF LoadConfig, SettingsInv
<1>2. ASSUME NEW k \in DOMAIN Tags(service)
      PROVE  base[k] = Over(Tags(service), Preset(service))[k]
  <2>1. base[k] = IF Over(settings, Preset(service))[k] = Unset(k) THEN Tags(service)[k]
                  ELSE Over(settings, Preset(service))[k]
    BY Zenon DEF fillZero
  <2>2. k \in DOMAIN settings /\ settings[k] = Unset(k)
    BY <1>1, Zenon
  <2>3. CASE k \in DOMAIN Preset(service)
    <3>1. Preset(service)[k] # Unset(k)
      BY <1>1, <2>3, PresetIs, Zenon DEF Unset
    <3>2. QED
      BY <2>1, <2>3, <3>1, Zenon DEF Over
  <2>4. CASE k \notin DOMAIN Preset(service)
    BY <2>1, <2>2, <2>4, Zenon DEF Over
  <2>5. QED
    BY <2>3, <2>4, Zenon
<1>3. DOMAIN base = DOMAIN Tags(service)
  BY Zenon DEF fillZero
<1> HIDE DEF base
<1>4. DOMAIN read = DOMAIN Tags(service) \union DOMAIN file \union DOMAIN env
  BY <1>3, Zenon DEF Over
<1>5. ASSUME NEW k \in DOMAIN read PROVE read[k] = Requested(k)
  <2>1. CASE k \in DOMAIN env
    BY <2>1, Zenon DEF Requested, Over
  <2>2. CASE k \notin DOMAIN env /\ k \in DOMAIN file
    BY <2>2, Zenon DEF Requested, Over
  <2>3. CASE k \notin DOMAIN env /\ k \notin DOMAIN file
    <3>1. k \in DOMAIN base
      BY <1>3, <1>4, <2>3, Zenon
    <3>2. read[k] = base[k]
      BY <2>3, <3>1, Zenon DEF Over
    <3>3. QED
      BY <1>2, <1>3, <2>3, <3>1, <3>2, Zenon DEF Requested
  <2>4. QED
    BY <2>1, <2>2, <2>3, Zenon
<1>6. settings' = IF service \in {"consumer", "heartbeat"} THEN [read EXCEPT !.addr = ""] ELSE read
  BY Zenon DEF LoadConfig, base
<1> HIDE DEF read
<1>7. \A k : Requested(k)' = Requested(k)
  BY <1>1, Zenon DEF Requested
<1>8. /\ DOMAIN settings' = DOMAIN read
      /\ \A k \in DOMAIN read :
           settings'[k] = Requested(k) \/ (k = "addr" /\ service \in {"consumer", "heartbeat"})
  <2>1. CASE service \in {"consumer", "heartbeat"}
    BY <1>5, <1>6, <2>1, Zenon
  <2>2. CASE service \notin {"consumer", "heartbeat"}
    BY <1>5, <1>6, <2>2, Zenon
  <2>3. QED
    BY <2>1, <2>2, Zenon
<1>9. Numeric(settings)'
  <2>1. ASSUME NEW k \in DOMAIN settings', ~IsAddress(k) PROVE settings'[k] \in Int
    <3>1. k # "addr"
      BY <2>1, Zenon DEF IsAddress
    <3>2. settings'[k] = Requested(k) /\ k \in DOMAIN Tags(service) \union DOMAIN file \union DOMAIN env
      BY <1>4, <1>8, <2>1, <3>1, Zenon
    <3>3. QED
      BY <1>1, <2>1, <3>2, RequestedNumeric, Zenon
  <2>2. QED
    BY <2>1, Zenon DEF Numeric
<1>10. service \in {"consumer", "heartbeat"} => settings'.addr = ""
  <2>1. "addr" \in DOMAIN HttpTags
    BY DEF HttpTags
  <2>2. service # "target" => "addr" \in DOMAIN read
    BY <1>1, <1>4, <2>1, TagsAre, Zenon
  <2>3. QED
    BY <1>6, <2>2
<1>11. HighestLayerWins'
  BY <1>1, <1>7, <1>8, Zenon DEF HighestLayerWins
<1>12. QED
  BY <1>1, <1>4, <1>8, <1>9, <1>10, <1>11, Zenon DEF SettingsInv

\* Validate fills httpx's zero fields and keeps what was asked for otherwise.
LEMMA ValidateStep == ASSUME SettingsInv, Validate PROVE SettingsInv'
<1>1. /\ phase = "loaded" /\ phase' \in {"accepted", "refused"} /\ UNCHANGED <<service, file, env>>
      /\ settings' = IF service = "target" THEN settings ELSE withDefaults(settings)
      /\ phase' = "accepted" => SettingsValid(settings')
  BY Zenon DEF Validate
<1>2. phase # "given" /\ phase' # "given" /\ phase' # "loaded"
  BY <1>1
<1>3. /\ DOMAIN Tags(service) \subseteq DOMAIN settings /\ Numeric(settings)
      /\ service \in {"consumer", "heartbeat"} => settings.addr = ""
      /\ \A k \in DOMAIN settings :
           settings[k] = Requested(k) \/ (k = "addr" /\ service \in {"consumer", "heartbeat"})
  BY <1>1, <1>2, Zenon DEF SettingsInv, HighestLayerWins
<1>4. /\ DOMAIN settings' = DOMAIN settings
      /\ \A k \in DOMAIN settings :
           \/ settings'[k] = settings[k]
           \/ k \in Filled /\ settings[k] = 0 /\ service # "target" /\ settings'[k] = HttpTags[k]
  BY <1>1, Zenon DEF withDefaults
<1>5. Filled \subseteq DOMAIN HttpTags /\ "addr" \notin Filled
  BY DEF Filled, HttpTags
<1>6. Numeric(settings)'
  BY <1>3, <1>4, <1>5, TagsNumeric, Zenon DEF Numeric
<1>7. service \in {"consumer", "heartbeat"} => settings'.addr = ""
  <2>1. "addr" \in DOMAIN HttpTags
    BY DEF HttpTags
  <2>2. service \in {"consumer", "heartbeat"} => service \in Configured \ {"target"}
    BY DEF Configured
  <2>3. service \in {"consumer", "heartbeat"} => "addr" \in DOMAIN settings
    BY <1>3, <2>1, <2>2, TagsAre, Zenon
  <2>4. QED
    BY <1>3, <1>4, <1>5, <2>3, Zenon
<1>8. \A k : Requested(k)' = Requested(k)
  BY <1>1, Zenon DEF Requested
<1>9. HighestLayerWins'
  <2>1. ASSUME NEW k \in DOMAIN settings
        PROVE  \/ settings'[k] = Requested(k)
               \/ k = "addr" /\ service \in {"consumer", "heartbeat"}
               \/ k \in Filled /\ Requested(k) = 0 /\ service # "target"
    BY <1>3, <1>4, <1>5, Zenon
  <2>2. QED
    BY <1>1, <1>2, <1>4, <1>8, <2>1, Zenon DEF HighestLayerWins
<1>10. SettingsValid(settings)' = SettingsValid(settings')
  BY <1>1, Zenon DEF SettingsValid
<1>11. QED
  BY <1>1, <1>2, <1>3, <1>4, <1>6, <1>7, <1>9, <1>10, Zenon DEF SettingsInv

\* The keys the parts run with are among those of their service.
LEMMA KeysThere ==
  ASSUME SettingsInv, phase = "accepted"
  PROVE  /\ service # "target" => /\ settings.healthInterval \in Int /\ settings.healthTimeout \in Int
                                  /\ settings.logSampleThereafter \in Int
         /\ service = "tasks" => settings.maxAttempts \in Int /\ "kafkaTopic" \in DOMAIN settings
         /\ service = "target" => settings.breakerProbes \in Int /\ settings.breakerMinRequests \in Int
<1>1. service \in Configured /\ DOMAIN Tags(service) \subseteq DOMAIN settings /\ Numeric(settings)
  <2>1. phase # "given"
    OBVIOUS
  <2>2. QED
    BY <2>1, Zenon DEF SettingsInv
<1>2. {"healthInterval", "healthTimeout", "logSampleThereafter"} \subseteq DOMAIN HttpTags
  BY DEF HttpTags
<1>3. {"maxAttempts", "kafkaTopic"} \subseteq DOMAIN TaskTags
  BY DEF TaskTags
<1>4. {"breakerProbes", "breakerMinRequests"} \subseteq DOMAIN TargetTags
  BY DEF TargetTags
<1>5. /\ ~IsAddress("healthInterval") /\ ~IsAddress("healthTimeout") /\ ~IsAddress("logSampleThereafter")
      /\ ~IsAddress("maxAttempts") /\ ~IsAddress("breakerProbes") /\ ~IsAddress("breakerMinRequests")
  BY DEF IsAddress
<1>6. service # "target" => DOMAIN HttpTags \subseteq DOMAIN settings
  BY <1>1, TagsAre, Zenon
<1>7. service = "tasks" => DOMAIN TaskTags \subseteq DOMAIN settings
  BY <1>1, TagsAre, Zenon
<1>8. service = "target" => DOMAIN TargetTags \subseteq DOMAIN settings
  BY <1>1, TagsAre, Zenon
<1>9. QED
  BY <1>1, <1>2, <1>3, <1>4, <1>5, <1>6, <1>7, <1>8, Zenon DEF Numeric

\* The rules are enough for the parts.
LEMMA SettingsSafe == SettingsInv => StartsAsConfigured
<1> SUFFICES ASSUME SettingsInv, phase = "accepted"
             PROVE  StartsAsConfigured
  BY Zenon DEF SettingsInv, StartsAsConfigured
<1>1. HighestLayerWins /\ SettingsValid(settings)
  BY Zenon DEF SettingsInv
<1>2. ASSUME service # "target"
      PROVE  /\ NewHealth(settings).interval > 0
             /\ settings.healthTimeout > 0 => NewHealth(settings).timeout < NewHealth(settings).interval
             /\ settings.shutdownTimeout > 0 /\ SampleEvery(settings) > 0
             /\ settings.requestTimeout > 0 => settings.requestTimeoutMin <= settings.requestTimeout
  <2>1. /\ settings.shutdownTimeout > 0 /\ settings.healthTimeout < settings.healthInterval
        /\ settings.requestTimeout > 0 => settings.requestTimeoutMin <= settings.requestTimeout
    BY <1>1, <1>2, Zenon DEF SettingsValid, HttpValid
  <2>2. /\ NewHealth(settings).interval = IF settings.healthInterval <= 0 THEN 10 ELSE settings.healthInterval
        /\ NewHealth(settings).timeout = IF settings.healthTimeout <= 0 THEN 3 ELSE settings.healthTimeout
    BY Zenon DEF NewHealth
  <2>3. /\ settings.healthInterval \in Int /\ settings.healthTimeout \in Int
        /\ settings.logSampleThereafter \in Int
    BY <1>2, KeysThere, Zenon
  <2>4. SampleEvery(settings) > 0
    BY <2>3 DEF SampleEvery
  <2>5. /\ NewHealth(settings).interval > 0
        /\ settings.healthTimeout > 0 => NewHealth(settings).timeout < NewHealth(settings).interval
    BY <2>1, <2>2, <2>3
  <2>6. QED
    BY <2>1, <2>4, <2>5, Zenon
<1>3. ASSUME service = "tasks"
      PROVE  /\ settings.pollInterval > 0 /\ settings.pollInterval <= settings.maxBackoff
             /\ settings.batchSize > 0 /\ settings.maxAttempts > 0 /\ settings.rejectBackoff > 0
             /\ settings.purgeInterval > 0 /\ settings.tombstoneTTL > 0
             /\ settings.kafkaBrokers = 0 => "kafkaTopic" \notin DOMAIN env \/ env.kafkaTopic = TaskTags.kafkaTopic
  <2>1. TasksValid(settings)
    BY <1>1, <1>3, Zenon DEF SettingsValid
  <2>2. settings.kafkaBrokers = 0 => settings.kafkaTopic = TaskTags.kafkaTopic
    BY <2>1, Zenon DEF TasksValid, strayKeys
  <2>3. "kafkaTopic" \in DOMAIN env => settings.kafkaTopic = env.kafkaTopic
    <3>1. "kafkaTopic" \notin Filled /\ "kafkaTopic" # "addr" /\ phase # "given"
      BY DEF Filled
    <3>2. settings["kafkaTopic"] = Requested("kafkaTopic")
      BY <1>1, <1>3, <3>1, KeysThere, Zenon DEF HighestLayerWins
    <3>3. QED
      BY <3>2, Zenon DEF Requested
  <2>4. settings.batchSize > 0 /\ settings.maxAttempts > 0
    <3>1. settings.batchSize \in 1..1000 /\ settings.maxAttempts >= 1
      BY <2>1 DEF TasksValid
    <3>2. settings.maxAttempts \in Int
      BY <1>3, KeysThere, Zenon
    <3>3. QED
      BY <3>1, <3>2
  <2>5. /\ settings.pollInterval > 0 /\ settings.maxBackoff >= settings.pollInterval
        /\ settings.rejectBackoff > 0 /\ settings.purgeInterval > 0 /\ settings.tombstoneTTL > 0
    BY <2>1 DEF TasksValid
  <2>6. QED
    BY <2>2, <2>3, <2>4, <2>5
<1>4. ASSUME service = "consumer" PROVE settings.dedupeSize > 0 /\ settings.kafkaBrokers # 0
  BY <1>1, <1>4, Zenon DEF SettingsValid
<1>5. ASSUME service = "heartbeat" PROVE settings.interval > 0 /\ settings.adminAddr # ""
  <2>1. settings.addr = ""
    BY <1>5 DEF SettingsInv
  <2>2. service # "target"
    BY <1>5
  <2>3. QED
    BY <1>1, <1>5, <2>1, <2>2, Zenon DEF SettingsValid, HttpValid
<1>6. ASSUME service = "target", settings.breakerRatio > 0
      PROVE  settings.breakerProbes > 0 /\ settings.breakerMinRequests > 0 /\ settings.breakerWindow > 0
  <2>1. settings.breakerMinRequests >= 1 /\ settings.breakerProbes >= 1 /\ settings.breakerWindow > 0
    BY <1>1, <1>6 DEF SettingsValid, TargetValid
  <2>2. settings.breakerProbes \in Int /\ settings.breakerMinRequests \in Int
    BY <1>6, KeysThere, Zenon
  <2>3. QED
    BY <2>1, <2>2
<1>7. QED
  BY <1>1, <1>2, <1>3, <1>4, <1>5, <1>6, Zenon DEF StartsAsConfigured

\* Every service, and the resilient client, starts with the settings its layers
\* ask for, and with ones its parts can run with, whatever numbers and addresses
\* the layers hold.
THEOREM StartsAsConfiguredProved == SettingsSpec => []StartsAsConfigured
<1>1. SettingsInv /\ [SettingsNext]_settingVars => SettingsInv'
  <2>1. ASSUME SettingsInv, UNCHANGED settingVars PROVE SettingsInv'
    BY <2>1, Zenon DEF settingVars, SettingsInv, HighestLayerWins, Requested, SettingsValid
  <2>2. QED
    BY <2>1, LoadStep, ValidateStep, Zenon DEF SettingsNext
<1>2. QED
  BY <1>1, SettingsStart, SettingsSafe, PTL DEF SettingsSpec

----------------------------------------------------------------------------
(* The read cache.                                                         *)

\* A change whose invalidation is still to come, or will not come.
Pardoned == excused \/ \E w \in Writers : pc[w] = "invalidate"

\* A fill under way, or to come, with a version that is no longer the task's.
OldOnItsWay ==
  \/ \E p \in Procs : Old(flight[p].got)
  \/ \E w \in Writers : pc[w] = "warm" /\ Old(1)
  \/ Old(late)

CacheTypes ==
  /\ row \in [ver : Int, live : BOOLEAN] /\ cached \in Int /\ late \in Int
  /\ flight \in [Procs -> [stage : {"idle", "load", "fill"}, got : Int]]
  /\ pc \in [Requests -> {"idle", "miss", "wait", "done", "warm", "invalidate"}]

\* The tombstone stays until the fills that would bring an old task back are over.
CacheInv == CacheTypes /\ NoSilentStaleness /\ (OldOnItsWay => Pardoned \/ cached = Tomb)

\* What a row is.
LEMMA RowTyped ==
  ASSUME NEW v \in Int, NEW b \in BOOLEAN PROVE [ver |-> v, live |-> b] \in [ver : Int, live : BOOLEAN]
OBVIOUS

\* Nothing is cached, or the task as it is.
LEMMA CacheStarts == CacheInit => CacheInv
<1> SUFFICES ASSUME CacheInit PROVE CacheInv
  OBVIOUS
<1>1. CacheTypes
  <2>0. 0 \in Int /\ 1 \in Int /\ None \in Int
    BY DEF None
  <2>1. row \in [ver : Int, live : BOOLEAN] /\ cached \in Int /\ late \in Int
    BY <2>0, RowTyped, Zenon DEF CacheInit
  <2>2. Idle \in [stage : {"idle", "load", "fill"}, got : Int]
    BY DEF Idle
  <2>3. QED
    BY <2>1, <2>2, Zenon DEF CacheInit, CacheTypes
<1>2. ~Old(cached) /\ ~Old(late) /\ ~Old(0)
  BY DEF CacheInit, Old, None
<1>3. ~OldOnItsWay
  <2>1. \A p \in Procs : flight[p].got = 0
    BY Zenon DEF CacheInit, Idle
  <2>2. \A w \in Writers : pc[w] # "warm"
    BY Zenon DEF CacheInit, Requests
  <2>3. QED
    BY <1>2, <2>1, <2>2, Zenon DEF OldOnItsWay
<1>4. QED
  BY <1>1, <1>2, <1>3, Zenon DEF CacheInv, NoSilentStaleness

\* A step that changes neither the task nor the key, begins no fill with an old
\* version and leaves the invalidations to come to come.
LEMMA CacheUntouched ==
  ASSUME CacheInv, CacheTypes', row' = row, cached' = cached,
         Pardoned => Pardoned', OldOnItsWay' => OldOnItsWay
  PROVE  CacheInv'
BY Zenon DEF CacheInv, NoSilentStaleness, Pardoned, Old

\* Of the steps only the four kinds below touch the key or the task.
LEMMA CacheTyped == CacheInv /\ [CacheNext]_cacheVars => CacheTypes'
<1> SUFFICES ASSUME CacheTypes, [CacheNext]_cacheVars PROVE CacheTypes'
  BY Zenon DEF CacheInv
<1> USE DEF CacheTypes
<1>1. CASE UNCHANGED cacheVars
  BY <1>1, Zenon DEF cacheVars
<1>2. ASSUME NEW r \in Readers, GetHit(r) \/ GetMiss(r) \/ Join(r) \/ GiveUp(r) PROVE CacheTypes'
  BY <1>2 DEF GetHit, GetMiss, Join, GiveUp, Goto
<1>3. ASSUME NEW w \in Writers, Create(w) \/ Warm(w) \/ Change(w) PROVE CacheTypes'
  <2>1. row' \in [ver : Int, live : BOOLEAN]
    <3>1. 1 \in Int /\ row.ver + 1 \in Int
      OBVIOUS
    <3>2. QED
      BY <1>3, <3>1, RowTyped, Zenon DEF Create, Warm, Change
  <2>2. cached' \in Int
    BY <1>3 DEF Create, Warm, Change, SetNX
  <2>3. pc' \in [Requests -> {"idle", "miss", "wait", "done", "warm", "invalidate"}]
    BY <1>3 DEF Create, Warm, Change, Goto
  <2>4. QED
    BY <1>3, <2>1, <2>2, <2>3, Zenon DEF Create, Warm, Change
<1>4. ASSUME NEW w \in Writers, Invalidate(w) \/ InvalidateFails(w) PROVE CacheTypes'
  BY <1>4 DEF Invalidate, InvalidateFails, Goto, Tomb
<1>5. ASSUME NEW p \in Procs, Load(p) \/ LoadFails(p) PROVE CacheTypes'
  BY <1>5 DEF Load, LoadFails, Answer, Idle
<1>6. ASSUME NEW p \in Procs, Fill(p) \/ FillFails(p) \/ ProcessDies(p) PROVE CacheTypes'
  BY <1>6 DEF Fill, FillFails, ProcessDies, Answer, SetNX, Idle
<1>7. CASE LateFill \/ Expire
  <2>1. None \in Int
    BY DEF None
  <2>2. QED
    BY <1>7, <2>1, Zenon DEF LateFill, Expire, SetNX
<1>8. QED
  BY <1>1, <1>2, <1>3, <1>4, <1>5, <1>6, <1>7, Zenon DEF CacheNext

\* Whatever a fill that is under way finds, the key holds no old version after it
\* unless it already did or its task's change is pardoned.
LEMMA CacheFilled ==
  ASSUME CacheInv, CacheTypes', NEW v \in Int, SetNX(v), Old(v) => OldOnItsWay, row' = row,
         Pardoned => Pardoned', OldOnItsWay' => OldOnItsWay
  PROVE  CacheInv'
<1>1. \A u \in Int : Old(u)' <=> Old(u)
  BY Zenon DEF Old
<1>2. CASE cached = None
  <2>1. cached' = v /\ cached # Tomb
    BY <1>2 DEF SetNX, None, Tomb
  <2>2. OldOnItsWay => Pardoned'
    BY <2>1, Zenon DEF CacheInv
  <2>3. QED
    BY <2>1, <2>2, Zenon DEF CacheInv, NoSilentStaleness, Pardoned, Old
<1>3. CASE cached # None
  BY <1>3, CacheUntouched, Zenon DEF SetNX
<1>4. QED
  BY <1>2, <1>3, Zenon

\* The tombstone of an invalidation outlives every fill that could bring the old
\* task back, or its expiry is recorded.
LEMMA CacheSteps == CacheInv /\ [CacheNext]_cacheVars => CacheInv'
<1> SUFFICES ASSUME CacheInv, [CacheNext]_cacheVars PROVE CacheInv'
  OBVIOUS
<1>0. CacheTypes /\ CacheTypes'
  BY CacheTyped, Zenon DEF CacheInv
<1>a. ~Old(0)
  BY DEF Old
<1>1. CASE UNCHANGED cacheVars
  BY <1>1, Zenon DEF cacheVars, CacheInv, CacheTypes, NoSilentStaleness, OldOnItsWay, Pardoned, Old
<1>2. ASSUME NEW r \in Readers, GetHit(r) \/ GetMiss(r) \/ GiveUp(r) PROVE CacheInv'
  <2>1. UNCHANGED <<row, cached, flight, late, excused>>
    BY <1>2, Zenon DEF GetHit, GetMiss, GiveUp
  <2>2. \A w \in Writers : pc'[w] = "invalidate" <=> pc[w] = "invalidate"
    BY <1>0, <1>2, Zenon DEF GetHit, GetMiss, GiveUp, Goto, CacheTypes, Requests
  <2>3. \A w \in Writers : pc'[w] = "warm" <=> pc[w] = "warm"
    BY <1>0, <1>2, Zenon DEF GetHit, GetMiss, GiveUp, Goto, CacheTypes, Requests
  <2>4. QED
    BY <1>0, <2>1, <2>2, <2>3, CacheUntouched, Zenon DEF Pardoned, OldOnItsWay, Old
<1>3. ASSUME NEW r \in Readers, Join(r) PROVE CacheInv'
  <2>1. UNCHANGED <<row, cached, late, excused>>
    BY <1>3, Zenon DEF Join
  <2>2. \A w \in Writers : pc'[w] = "invalidate" <=> pc[w] = "invalidate"
    BY <1>0, <1>3, Zenon DEF Join, Goto, CacheTypes, Requests
  <2>3. \A w \in Writers : pc'[w] = "warm" <=> pc[w] = "warm"
    BY <1>0, <1>3, Zenon DEF Join, Goto, CacheTypes, Requests
  <2>4. \A p \in Procs : flight'[p].got \in {flight[p].got, 0}
    BY <1>0, <1>3, Zenon DEF Join, CacheTypes, Requests
  <2>5. QED
    BY <1>0, <1>a, <2>1, <2>2, <2>3, <2>4, CacheUntouched, Zenon DEF Pardoned, OldOnItsWay, Old
<1>4. ASSUME NEW w \in Writers, Create(w) PROVE CacheInv'
  <2>1. row' = [ver |-> 1, live |-> TRUE]
    BY <1>4, Zenon DEF Create
  <2>2. \A v \in Int : ~Old(v)'
    BY <2>1 DEF Old
  <2>3. QED
    BY <1>0, <2>2 DEF CacheInv, NoSilentStaleness, OldOnItsWay, CacheTypes
<1>5. ASSUME NEW w \in Writers, Warm(w) PROVE CacheInv'
  <2>1. UNCHANGED <<row, flight, late, excused>>
    BY <1>5, Zenon DEF Warm
  <2>2. \A x \in Writers : pc[x] = "invalidate" => pc'[x] = "invalidate"
    BY <1>0, <1>5, Zenon DEF Warm, Goto, CacheTypes, Requests
  <2>3. \A x \in Writers : pc'[x] = "warm" => pc[x] = "warm"
    BY <1>0, <1>5, Zenon DEF Warm, Goto, CacheTypes, Requests
  <2>4. (Pardoned => Pardoned') /\ (OldOnItsWay' => OldOnItsWay)
    BY <2>1, <2>2, <2>3, Zenon DEF Pardoned, OldOnItsWay, Old
  <2>5. CASE SetNX(1)
    <3>1. Old(1) => OldOnItsWay
      BY <1>5, Zenon DEF Warm, Goto, OldOnItsWay
    <3>2. QED
      BY <1>0, <2>1, <2>4, <2>5, <3>1, CacheFilled
  <2>6. CASE cached' = cached
    BY <1>0, <2>1, <2>4, <2>6, CacheUntouched, Zenon
  <2>7. QED
    BY <1>5, <2>5, <2>6, Zenon DEF Warm
<1>6. ASSUME NEW w \in Writers, Change(w) PROVE CacheInv'
  <2>1. pc'[w] = "invalidate"
    BY <1>0, <1>6, Zenon DEF Change, Goto, CacheTypes, Requests
  <2>2. QED
    BY <1>0, <2>1, Zenon DEF CacheInv, NoSilentStaleness, Pardoned
<1>7. ASSUME NEW w \in Writers, Invalidate(w) PROVE CacheInv'
  <2>1. cached' = Tomb /\ ~(Tomb > 0)
    BY <1>7 DEF Invalidate, Tomb
  <2>2. QED
    BY <1>0, <2>1, Zenon DEF CacheInv, NoSilentStaleness, Old
<1>8. ASSUME NEW w \in Writers, InvalidateFails(w) PROVE CacheInv'
  BY <1>0, <1>8, Zenon DEF InvalidateFails, CacheInv, NoSilentStaleness, Pardoned
<1>9. ASSUME NEW p \in Procs, Load(p) PROVE CacheInv'
  <2>1. UNCHANGED <<row, cached, late, excused>>
    BY <1>9, Zenon DEF Load
  <2>2. \A w \in Writers : (pc'[w] = "invalidate" <=> pc[w] = "invalidate") /\ (pc'[w] = "warm" <=> pc[w] = "warm")
    BY <1>9, Zenon DEF Load, Answer, Requests
  <2>3. \A q \in Procs : flight'[q].got \in {flight[q].got, 0} \/ (row.live /\ flight'[q].got = row.ver)
    BY <1>0, <1>9 DEF Load, Answer, CacheTypes, Idle
  <2>4. row.live => ~Old(row.ver)
    BY <1>0 DEF Old, CacheTypes
  <2>5. QED
    BY <1>0, <1>a, <2>1, <2>2, <2>3, <2>4, CacheUntouched, Zenon DEF Pardoned, OldOnItsWay, Old
<1>10. ASSUME NEW p \in Procs, LoadFails(p) \/ Fill(p) \/ FillFails(p) PROVE CacheInv'
  <2>1. UNCHANGED <<row, excused>> /\ late' \in {late, flight[p].got}
    BY <1>10, Zenon DEF LoadFails, Fill, FillFails
  <2>2. \A w \in Writers : (pc'[w] = "invalidate" <=> pc[w] = "invalidate") /\ (pc'[w] = "warm" <=> pc[w] = "warm")
    BY <1>10, Zenon DEF LoadFails, Fill, FillFails, Answer, Requests
  <2>3. \A q \in Procs : flight'[q].got \in {flight[q].got, 0}
    BY <1>0, <1>10 DEF LoadFails, Fill, FillFails, Answer, CacheTypes, Idle
  <2>4. (Pardoned => Pardoned') /\ (OldOnItsWay' => OldOnItsWay)
    BY <1>a, <2>1, <2>2, <2>3, Zenon DEF Pardoned, OldOnItsWay, Old
  <2>5. CASE cached' = cached
    BY <1>0, <2>1, <2>4, <2>5, CacheUntouched, Zenon
  <2>6. CASE SetNX(flight[p].got)
    <3>1. flight[p].got \in Int /\ (Old(flight[p].got) => OldOnItsWay)
      BY <1>0, Zenon DEF OldOnItsWay, CacheTypes
    <3>2. QED
      BY <1>0, <2>1, <2>4, <2>6, <3>1, CacheFilled, Zenon
  <2>7. QED
    BY <1>10, <2>5, <2>6, Zenon DEF LoadFails, Fill, FillFails
<1>11. ASSUME NEW p \in Procs, ProcessDies(p) PROVE CacheInv'
  <2>1. UNCHANGED <<row, cached, late>>
    BY <1>11, Zenon DEF ProcessDies
  <2>2. \A w \in Writers : pc'[w] = "warm" => pc[w] = "warm"
    BY <1>11, Zenon DEF ProcessDies, Requests
  <2>3. \A q \in Procs : flight'[q].got \in {flight[q].got, 0}
    BY <1>0, <1>11, Zenon DEF ProcessDies, CacheTypes, Idle
  <2>4. Pardoned => Pardoned'
    BY <1>11, Zenon DEF ProcessDies, Pardoned, Requests
  <2>5. OldOnItsWay' => OldOnItsWay
    BY <1>a, <2>1, <2>2, <2>3, Zenon DEF OldOnItsWay, Old
  <2>6. QED
    BY <1>0, <2>1, <2>4, <2>5, CacheUntouched, Zenon
<1>12. CASE LateFill
  <2>1. UNCHANGED <<row, flight, pc, excused>> /\ SetNX(late) /\ late' = None /\ ~(None > 0)
    BY <1>12 DEF LateFill, None
  <2>2. (Pardoned => Pardoned') /\ (OldOnItsWay' => OldOnItsWay)
    BY <2>1, Zenon DEF Pardoned, OldOnItsWay, Old
  <2>3. Old(late) => OldOnItsWay
    BY Zenon DEF OldOnItsWay
  <2>4. QED
    BY <1>0, <2>1, <2>2, <2>3, CacheFilled, Zenon DEF CacheTypes
<1>13. CASE Expire
  <2>1. UNCHANGED <<row, flight, pc, late>> /\ cached' = None /\ ~(None > 0)
    BY <1>13 DEF Expire, None
  <2>2. OldOnItsWay' => OldOnItsWay
    BY <2>1, Zenon DEF OldOnItsWay, Old
  <2>3. Pardoned \/ (cached = Tomb /\ OldOnItsWay) => Pardoned'
    BY <1>13, <2>1, Zenon DEF Expire, Pardoned, OldOnItsWay
  <2>4. QED
    BY <1>0, <2>1, <2>2, <2>3, Zenon DEF CacheInv, NoSilentStaleness, Old
<1>14. QED
  BY <1>1, <1>2, <1>3, <1>4, <1>5, <1>6, <1>7, <1>8, <1>9, <1>10, <1>11, <1>12, <1>13, Zenon DEF CacheNext

\* For any number of processes, readers and writers and any failures, the cache
\* holds an old version only while its invalidation is to come, or after it
\* failed or the tombstone expired before a fill (aside.go Aside, Tombstone;
\* cache.go Warm; api.go update, delete).
THEOREM NoSilentStalenessProved == CacheSpec => []NoSilentStaleness
<1>1. CacheInv => NoSilentStaleness
  BY Zenon DEF CacheInv
<1>2. QED
  BY <1>1, CacheStarts, CacheSteps, PTL DEF CacheSpec

----------------------------------------------------------------------------
(* Readiness.                                                              *)

Taken(n) == [name |-> n, id |-> n, critical |-> n \in Critical]

IsPass(x) == x = [at |-> x.at, took |-> x.took, left |-> x.left, out |-> x.out]
IsOut(o) == o = [c |-> o.c, res |-> o.res]
IsResult(x) == x = [ok |-> x.ok, of |-> x.of, aged |-> x.aged]

\* The refreshes and the results are records; only a refresh that runs has
\* checks, and a probe gets past the gate only once it is open.
PassInv ==
  /\ pass = [f \in Refreshers |-> pass[f]] /\ results = [n \in Names |-> results[n]] /\ replaced \in Nat
  /\ \A f \in Refreshers :
       /\ IsPass(pass[f]) /\ \A o \in pass[f].out : IsOut(o)
       /\ pass[f].at # "run" => pass[f].left = {} /\ pass[f].out = {}
  /\ \A n \in Names : IsResult(results[n])
  /\ \A p \in Probes : pass[p].at # "idle" => gate

\* A refresh has something to say of the check n.
Has(f, n) == \E o \in pass[f].out : o.c = Taken(n)

\* A refresh has checks of main.
OwnPass(x) ==
  /\ \A c \in x.left : \E n \in Names : c = Taken(n)
  /\ \A o \in x.out : \E n \in Names : o.c = Taken(n)

\* The checks are main's, and so are those of each refresh.
MainChecks == \A n \in Names : checks[n].id = n /\ checks[n].critical = (n \in Critical)
OwnChecks == MainChecks /\ \A f \in Refreshers : OwnPass(pass[f])

\* While the gate is closed the first pass starts every check; once it is open
\* every name has a result.
FirstPass ==
  \A n \in Names :
    /\ gate => results[n].of = n
    /\ ~gate /\ n \in running => Has(Loop, n)
    /\ ~gate /\ pass[Loop].at = "run" => Taken(n) \in pass[Loop].left \/ Has(Loop, n)

\* All of it, unless a check was replaced.
HealthInv == PassInv /\ (replaced = 0 => OwnChecks /\ FirstPass)

\* A check of main keeps its name.
LEMMA TakenIs == \A n : Taken(n).name = n /\ Taken(n).id = n
BY Zenon DEF Taken

\* What a refresh copies.
LEMMA Copied ==
  ASSUME MainChecks, NEW n \in Names
  PROVE  [name |-> n, id |-> checks[n].id, critical |-> checks[n].critical] = Taken(n)
BY Zenon DEF MainChecks, Taken

\* A refresh begins with every check.
LEMMA Collected ==
  ASSUME PassInv, NEW f \in Refreshers, collect(f)
  PROVE  /\ pass' = [g \in Refreshers |-> pass'[g]]
         /\ \A g \in Refreshers \ {f} : pass'[g] = pass[g]
         /\ pass'[f].at = "run" /\ pass'[f].out = {}
         /\ IsPass(pass'[f])
         /\ MainChecks => pass'[f].left = {Taken(n) : n \in Names}
<1> DEFINE took == {[name |-> n, id |-> checks[n].id, critical |-> checks[n].critical] : n \in Names}
<1>1. pass' = [pass EXCEPT ![f] = [at |-> "run", took |-> took, left |-> took, out |-> {}]]
  BY Zenon DEF collect
<1>2. MainChecks => took = {Taken(n) : n \in Names}
  BY Copied, Zenon
<1> HIDE DEF took
<1>3. pass'[f] = [at |-> "run", took |-> took, left |-> took, out |-> {}]
  BY <1>1, Zenon DEF PassInv, IsPass
<1>4. QED
  BY <1>1, <1>2, <1>3, Zenon DEF PassInv, IsPass

\* A refresh moves on with other checks left and other outcomes.
LEMMA Updated ==
  ASSUME PassInv, NEW f \in Refreshers, NEW L, NEW O,
         pass' = [pass EXCEPT ![f].left = L, ![f].out = O]
  PROVE  /\ pass' = [g \in Refreshers |-> pass'[g]]
         /\ \A g \in Refreshers \ {f} : pass'[g] = pass[g]
         /\ pass'[f].at = pass[f].at /\ pass'[f].left = L /\ pass'[f].out = O
         /\ IsPass(pass'[f])
<1> DEFINE half == [pass EXCEPT ![f].left = L]
<1>1. pass' = [half EXCEPT ![f].out = O]
  OBVIOUS
<1>2. /\ half = [g \in Refreshers |-> half[g]] /\ \A g \in Refreshers \ {f} : half[g] = pass[g]
      /\ half[f] = [at |-> pass[f].at, took |-> pass[f].took, left |-> L, out |-> pass[f].out]
  BY DEF PassInv, IsPass
<1> HIDE DEF half
<1>3. pass'[f] = [half[f] EXCEPT !.out = O]
  BY <1>1, <1>2, Zenon
<1>4. pass'[f] = [at |-> pass[f].at, took |-> pass[f].took, left |-> L, out |-> O]
  BY <1>2, <1>3
<1>5. pass' = [g \in Refreshers |-> pass'[g]]
  BY <1>1, <1>2, Zenon
<1>6. \A g \in Refreshers \ {f} : pass'[g] = pass[g]
  BY <1>1, <1>2, Zenon
<1>7. pass'[f].at = pass[f].at /\ pass'[f].took = pass[f].took /\ pass'[f].left = L /\ pass'[f].out = O
  BY <1>4
<1>8. QED
  BY <1>4, <1>5, <1>6, <1>7, Zenon DEF IsPass

\* A refresh moves to another place.
LEMMA MovedTo ==
  ASSUME PassInv, NEW f \in Refreshers, NEW to, pass' = [pass EXCEPT ![f].at = to]
  PROVE  /\ pass' = [g \in Refreshers |-> pass'[g]]
         /\ \A g \in Refreshers \ {f} : pass'[g] = pass[g]
         /\ pass'[f].at = to /\ pass'[f].left = pass[f].left /\ pass'[f].out = pass[f].out
         /\ IsPass(pass'[f])
BY DEF PassInv, IsPass

\* A step of one refresh that leaves the rest of the registry in shape.
LEMMA PassKept ==
  ASSUME PassInv, NEW f \in Refreshers, pass' = [g \in Refreshers |-> pass'[g]],
         \A g \in Refreshers \ {f} : pass'[g] = pass[g],
         IsPass(pass'[f]), \A o \in pass'[f].out : IsOut(o),
         pass'[f].at # "run" => pass'[f].left = {} /\ pass'[f].out = {},
         f \in Probes /\ pass'[f].at # "idle" => gate', gate => gate',
         results' = [n \in Names |-> results'[n]], \A n \in Names : IsResult(results'[n]),
         replaced' = replaced
  PROVE  PassInv'
BY Zenon DEF PassInv, Refreshers

\* A step of one refresh that takes no check of another.
LEMMA OwnKept ==
  ASSUME PassInv, OwnChecks, NEW f \in Refreshers, checks' = checks,
         \A g \in Refreshers \ {f} : pass'[g] = pass[g], OwnPass(pass'[f])
  PROVE  OwnChecks'
<1>1. MainChecks'
  BY Zenon DEF OwnChecks, MainChecks
<1>2. ASSUME NEW g \in Refreshers PROVE OwnPass(pass'[g])
  BY Zenon DEF OwnChecks
<1>3. ASSUME NEW g \in Refreshers PROVE OwnPass(pass[g])'
  BY <1>2, Zenon DEF OwnPass
<1>4. QED
  BY <1>1, <1>3, Zenon DEF OwnChecks

\* A refresh starts a check, or passes it over because it still runs.
LEMMA StartStep ==
  ASSUME HealthInv, NEW f \in Refreshers, NEW c \in pass[f].left, start(f, c)
  PROVE  HealthInv'
<1> DEFINE skips == c.id \in running
<1> DEFINE news == IF skips THEN {} ELSE {[c |-> c, res |-> "pending"]}
<1>0. PassInv
  BY Zenon DEF HealthInv
<1>1. /\ pass' = [pass EXCEPT ![f].left = pass[f].left \ {c}, ![f].out = pass[f].out \union news]
      /\ running' = IF skips THEN running ELSE running \union {c.id}
      /\ UNCHANGED <<checks, results, gate, replaced>>
  BY <1>0, Zenon DEF start, Take
<1>u. UNCHANGED <<checks, results, gate, replaced>>
  BY <1>1, Zenon
<1>n. \A o \in news : o.c = c
  OBVIOUS
<1> HIDE DEF news
<1>2. /\ pass' = [g \in Refreshers |-> pass'[g]]
      /\ \A g \in Refreshers \ {f} : pass'[g] = pass[g]
      /\ pass'[f].at = pass[f].at /\ pass'[f].left = pass[f].left \ {c}
      /\ pass'[f].out = pass[f].out \union news /\ IsPass(pass'[f])
  <2> DEFINE L == pass[f].left \ {c}
  <2> DEFINE O == pass[f].out \union news
  <2>1. pass' = [pass EXCEPT ![f].left = L, ![f].out = O]
    BY <1>1, Zenon
  <2> HIDE DEF L, O
  <2>2. /\ pass' = [g \in Refreshers |-> pass'[g]]
        /\ \A g \in Refreshers \ {f} : pass'[g] = pass[g]
        /\ pass'[f].at = pass[f].at /\ pass'[f].left = L /\ pass'[f].out = O /\ IsPass(pass'[f])
    BY <1>0, <2>1, Updated, Zenon
  <2>3. QED
    BY <2>2, Zenon DEF L, O
<1>3. \A o \in news : IsOut(o) /\ o.c = c
  BY <1>n DEF IsOut, news
<1>4. PassInv'
  <2>1. pass[f].at = "run"
    BY Zenon DEF start
  <2>2. f \in Probes => gate'
    BY <1>0, <1>1, <2>1, Zenon DEF PassInv
  <2>3. \A o \in pass'[f].out : IsOut(o)
    BY <1>0, <1>2, <1>3, Zenon DEF PassInv
  <2>4. QED
    BY <1>0, <1>1, <1>2, <2>1, <2>2, <2>3, PassKept, Zenon DEF PassInv
<1>5. ASSUME replaced' = 0 PROVE OwnChecks' /\ FirstPass'
  <2>1. OwnChecks /\ FirstPass
    BY <1>1, <1>5, Zenon DEF HealthInv
  <2>2. PICK m \in Names : c = Taken(m)
    BY <2>1, Zenon DEF OwnChecks, OwnPass
  <2>3. OwnChecks'
    <3>1. OwnPass(pass[f])
      BY <2>1, Zenon DEF OwnChecks
    <3>2. OwnPass(pass'[f])
      BY <1>2, <1>3, <2>2, <3>1, Zenon DEF OwnPass
    <3>3. QED
      BY <1>0, <1>u, <1>2, <2>1, <3>2, OwnKept, Zenon
  <2>4. CASE gate
    BY <1>u, <2>1, <2>3, <2>4, Zenon DEF FirstPass
  <2>5. CASE ~gate
    <3>1. f = Loop /\ c.id = m
      BY <1>0, <2>2, <2>5, TakenIs, Zenon DEF PassInv, Refreshers, start
    <3>2. \A n \in Names : Has(Loop, n) => Has(Loop, n)'
      BY <1>2, <3>1, Zenon DEF Has
    <3>3. Has(Loop, m)'
      <4>1. CASE skips
        BY <2>1, <2>5, <3>1, <3>2, <4>1, Zenon DEF FirstPass
      <4>2. CASE ~skips
        <5>1. [c |-> c, res |-> "pending"] \in pass'[Loop].out /\ [c |-> c, res |-> "pending"].c = Taken(m)
          BY <1>2, <2>2, <3>1, <4>2, Zenon DEF news
        <5>2. QED
          BY <5>1, Zenon DEF Has
      <4>3. QED
        BY <4>1, <4>2, Zenon
    <3>4. \A n \in Names : Taken(n) = c => n = m
      BY <2>2, TakenIs
    <3>5. \A n \in Names : n \in running' => n \in running \/ n = m
      BY <1>1, <3>1, Zenon
    <3>6. QED
      <4>1. ASSUME NEW n \in Names, n \in running' PROVE Has(Loop, n)'
        BY <2>1, <2>5, <3>2, <3>3, <3>5, <4>1, Zenon DEF FirstPass
      <4>2. ASSUME NEW n \in Names, pass'[Loop].at = "run"
            PROVE  Taken(n) \in pass'[Loop].left \/ Has(Loop, n)'
        <5>1. Taken(n) \in pass[Loop].left \/ Has(Loop, n)
          BY <1>2, <2>1, <2>5, <3>1, <4>2, Zenon DEF FirstPass
        <5>2. Taken(n) = c => Has(Loop, n)'
          BY <3>3, <3>4, Zenon
        <5>3. QED
          BY <1>2, <3>1, <3>2, <5>1, <5>2, Zenon
      <4>3. ~gate'
        BY <1>u, <2>5, Zenon
      <4>4. QED
        BY <2>3, <4>1, <4>2, <4>3, Zenon DEF FirstPass
  <2>6. QED
    BY <2>3, <2>4, <2>5, Zenon
<1>6. QED
  BY <1>4, <1>5, Zenon DEF HealthInv

\* A check's function returns, or its time is up.
LEMMA OutcomeStep ==
  ASSUME HealthInv, NEW f \in Refreshers, NEW o \in pass[f].out, NEW r,
         pass' = [pass EXCEPT ![f].out = (@ \ {o}) \union {[o EXCEPT !.res = r]}],
         running' \subseteq running, UNCHANGED <<checks, results, gate, replaced>>
  PROVE  HealthInv'
<1> DEFINE later == [o EXCEPT !.res = r]
<1>0. PassInv
  BY Zenon DEF HealthInv
<1>1. /\ pass' = [g \in Refreshers |-> pass'[g]]
      /\ \A g \in Refreshers \ {f} : pass'[g] = pass[g]
      /\ pass'[f].at = pass[f].at /\ pass'[f].left = pass[f].left
      /\ pass'[f].out = (pass[f].out \ {o}) \union {later} /\ IsPass(pass'[f])
  <2>1. pass'[f] = [pass[f] EXCEPT !.out = (@ \ {o}) \union {later}]
    BY <1>0, Zenon DEF PassInv
  <2>2. pass'[f] = [at |-> pass[f].at, took |-> pass[f].took, left |-> pass[f].left,
                    out |-> (pass[f].out \ {o}) \union {later}]
    <3>1. IsPass(pass[f])
      BY <1>0, Zenon DEF PassInv
    <3>2. QED
      BY <2>1, <3>1 DEF IsPass
  <2>3. /\ pass'[f].at = pass[f].at /\ pass'[f].left = pass[f].left /\ pass'[f].took = pass[f].took
        /\ pass'[f].out = (pass[f].out \ {o}) \union {later}
    BY <2>2
  <2>4. /\ pass' = [g \in Refreshers |-> pass'[g]] /\ \A g \in Refreshers \ {f} : pass'[g] = pass[g]
    BY <1>0, Zenon DEF PassInv
  <2>5. QED
    BY <2>2, <2>3, <2>4, Zenon DEF IsPass
<1>2. IsOut(later) /\ later.c = o.c
  <2>1. o = [c |-> o.c, res |-> o.res]
    BY <1>0, Zenon DEF PassInv, IsOut
  <2>2. later = [c |-> o.c, res |-> r]
    BY <2>1
  <2>3. QED
    BY <2>2, Zenon DEF IsOut
<1> HIDE DEF later
<1>3. PassInv'
  <2>1. pass[f].at = "run"
    BY <1>0, Zenon DEF PassInv
  <2>2. (\A x \in pass'[f].out : IsOut(x)) /\ (f \in Probes => gate')
    BY <1>0, <1>1, <1>2, <2>1, Zenon DEF PassInv
  <2>3. QED
    BY <1>0, <1>1, <2>1, <2>2, PassKept, Zenon DEF PassInv
<1>4. ASSUME replaced' = 0 PROVE OwnChecks' /\ FirstPass'
  <2>1. OwnChecks /\ FirstPass
    BY <1>4, Zenon DEF HealthInv
  <2>2. OwnChecks'
    <3>1. OwnPass(pass[f])
      BY <2>1, Zenon DEF OwnChecks
    <3>2. OwnPass(pass'[f])
      <4>1. \A x \in pass'[f].out : \E y \in pass[f].out : x.c = y.c
        BY <1>1, <1>2, Zenon
      <4>2. ASSUME NEW x \in pass'[f].out PROVE \E n \in Names : x.c = Taken(n)
        <5>1. PICK y \in pass[f].out : x.c = y.c
          BY <4>1, Zenon
        <5>2. PICK n \in Names : y.c = Taken(n)
          BY <3>1, Zenon DEF OwnPass
        <5>3. QED
          BY <5>1, <5>2, Zenon
      <4>3. \A c \in pass'[f].left : \E n \in Names : c = Taken(n)
        BY <1>1, <3>1, Zenon DEF OwnPass
      <4>4. QED
        BY <4>2, <4>3, Zenon DEF OwnPass
    <3>3. QED
      BY <1>0, <1>1, <2>1, <3>2, OwnKept, Zenon
  <2>3. \A n \in Names : Has(Loop, n) => Has(Loop, n)'
    BY <1>1, <1>2, Zenon DEF Has, Refreshers
  <2>4. pass'[Loop].at = pass[Loop].at /\ pass'[Loop].left = pass[Loop].left
    BY <1>1, Zenon DEF Refreshers
  <2>5. QED
    BY <2>1, <2>2, <2>3, <2>4, Zenon DEF FirstPass
<1>5. QED
  BY <1>3, <1>4, Zenon DEF HealthInv

\* A refresh stores its results: each is of the check that has the name.
LEMMA Stored ==
  ASSUME PassInv, NEW f \in Refreshers, store(f)
  PROVE  /\ results' = [n \in Names |-> results'[n]] /\ \A n \in Names : IsResult(results'[n])
         /\ OwnPass(pass[f]) =>
              \A n \in Names : Has(f, n) \/ results[n].of = n => results'[n].of = n
<1> DEFINE Of(n) == CHOOSE o \in pass[f].out : o.c.name = n
<1>1. results' = [n \in Names |-> IF \E o \in pass[f].out : o.c.name = n THEN Result(Of(n)) ELSE results[n]]
  BY Zenon DEF store
<1>2. \A o : IsResult(Result(o)) /\ Result(o).of = o.c.id
  BY Zenon DEF Result, IsResult
<1>3. \A n \in Names : IsResult(results[n])
  BY Zenon DEF PassInv
<1>4. ASSUME NEW n \in Names
      PROVE  results'[n] = IF \E o \in pass[f].out : o.c.name = n THEN Result(Of(n)) ELSE results[n]
  BY <1>1, Zenon
<1>5. ASSUME OwnPass(pass[f]), NEW n \in Names, Has(f, n) \/ results[n].of = n
      PROVE  results'[n].of = n
  <2>1. CASE \E o \in pass[f].out : o.c.name = n
    <3>1. Of(n) \in pass[f].out /\ Of(n).c.name = n
      BY <2>1, Zenon
    <3>2. PICK m \in Names : Of(n).c = Taken(m)
      BY <1>5, <3>1, Zenon DEF OwnPass
    <3>3. Of(n).c.id = n
      BY <3>1, <3>2, TakenIs
    <3>4. QED
      BY <1>2, <1>4, <2>1, <3>3, Zenon
  <2>2. CASE ~ \E o \in pass[f].out : o.c.name = n
    <3>1. ~Has(f, n)
      BY <2>2, TakenIs DEF Has
    <3>2. QED
      BY <1>4, <1>5, <2>2, <3>1, Zenon
  <2>3. QED
    BY <2>1, <2>2, Zenon
<1>6. ASSUME NEW n \in Names PROVE IsResult(results'[n])
  <2>1. results'[n] = Result(Of(n)) \/ results'[n] = results[n]
    BY <1>4, Zenon
  <2>2. IsResult(Result(Of(n))) /\ IsResult(results[n])
    BY <1>2, <1>3, Zenon
  <2>3. QED
    BY <2>1, <2>2, Zenon
<1>7. results' = [n \in Names |-> results'[n]]
  BY <1>1, Zenon
<1>8. QED
  BY <1>5, <1>6, <1>7, Zenon

\* The pass of the background loop, whose first store opens the gate.
LEMMA LoopSteps ==
  ASSUME HealthInv, runPass \/ runStore
  PROVE  HealthInv'
<1>0. PassInv /\ Loop \in Refreshers /\ Loop \notin Probes
  BY LoopIsNoProbe, Zenon DEF HealthInv, Refreshers
<1>1. CASE runPass
  <2>1. pass[Loop].at = "idle" /\ collect(Loop) /\ UNCHANGED <<checks, results, running, gate, replaced>>
    BY <1>1, Zenon DEF runPass
  <2>2. /\ pass' = [g \in Refreshers |-> pass'[g]]
        /\ \A g \in Refreshers \ {Loop} : pass'[g] = pass[g]
        /\ pass'[Loop].at = "run" /\ pass'[Loop].out = {} /\ IsPass(pass'[Loop])
        /\ MainChecks => pass'[Loop].left = {Taken(n) : n \in Names}
    BY <1>0, <2>1, Collected, Zenon
  <2>3. PassInv'
    <3>1. \A o \in pass'[Loop].out : IsOut(o)
      BY <2>2, Zenon
    <3>2. QED
      BY <1>0, <2>1, <2>2, <3>1, PassKept, Zenon DEF PassInv
  <2>4. ASSUME replaced' = 0 PROVE OwnChecks' /\ FirstPass'
    <3>1. OwnChecks /\ FirstPass /\ MainChecks
      BY <2>1, <2>4, Zenon DEF HealthInv, OwnChecks
    <3>2. OwnPass(pass'[Loop])
      BY <2>2, <3>1, Zenon DEF OwnPass
    <3>3. OwnChecks'
      BY <1>0, <2>1, <2>2, <3>1, <3>2, OwnKept, Zenon
    <3>4. \A n \in Names : Taken(n) \in pass'[Loop].left
      BY <2>2, <3>1, Zenon
    <3>5. \A n \in Names : ~gate => n \notin running
      <4>1. \A n \in Names : ~Has(Loop, n)
        BY <1>0, <2>1, Zenon DEF Has, PassInv
      <4>2. QED
        BY <3>1, <4>1, Zenon DEF FirstPass
    <3>6. QED
      BY <2>1, <3>1, <3>3, <3>4, <3>5, Zenon DEF FirstPass
  <2>5. QED
    BY <2>3, <2>4, Zenon DEF HealthInv
<1>2. CASE runStore
  <2>1. /\ store(Loop) /\ pass[Loop].at = "run" /\ pass[Loop].left = {}
        /\ pass' = [pass EXCEPT ![Loop] = NoPass] /\ gate' = TRUE /\ UNCHANGED <<checks, running, replaced>>
    BY <1>2, Zenon DEF runStore, store
  <2>2. /\ pass' = [g \in Refreshers |-> pass'[g]] /\ pass'[Loop] = NoPass
        /\ \A g \in Refreshers \ {Loop} : pass'[g] = pass[g]
    BY <1>0, <2>1, Zenon DEF PassInv
  <2>3. NoPass.at = "idle" /\ NoPass.left = {} /\ NoPass.out = {} /\ IsPass(NoPass)
    BY Zenon DEF NoPass, IsPass
  <2>4. PassInv'
    <3>1. \A o \in pass'[Loop].out : IsOut(o)
      BY <2>2, <2>3, Zenon
    <3>2. QED
      BY <1>0, <2>1, <2>2, <2>3, <3>1, Stored, PassKept, Zenon
  <2>5. ASSUME replaced' = 0 PROVE OwnChecks' /\ FirstPass'
    <3>1. OwnChecks /\ FirstPass /\ OwnPass(pass[Loop])
      BY <1>0, <2>1, <2>5, Zenon DEF HealthInv, OwnChecks
    <3>2. OwnPass(pass'[Loop])
      BY <2>2, <2>3, Zenon DEF OwnPass
    <3>3. OwnChecks'
      BY <1>0, <2>1, <2>2, <3>1, <3>2, OwnKept, Zenon
    <3>4. \A n \in Names : Has(Loop, n) \/ results[n].of = n
      BY <2>1, <3>1, Zenon DEF FirstPass
    <3>5. \A n \in Names : results'[n].of = n
      BY <1>0, <2>1, <3>1, <3>4, Stored, Zenon
    <3>6. QED
      BY <2>1, <3>3, <3>5, Zenon DEF FirstPass
  <2>6. QED
    BY <2>4, <2>5, Zenon DEF HealthInv
<1>3. QED
  BY <1>1, <1>2, Zenon

\* A probe: the gate, the age of the results, a refresh of its own, the answer.
LEMMA ProbeSteps ==
  ASSUME HealthInv, NEW p \in Probes,
         ReadyHandler(p) \/ lockRefresh(p) \/ probeStore(p) \/ unlockRefresh(p) \/ respond(p)
  PROVE  HealthInv'
<1>0. PassInv /\ p \in Refreshers /\ Loop \in Refreshers \ {p}
  BY LoopIsNoProbe, Zenon DEF HealthInv, Refreshers
<1>1. UNCHANGED <<checks, running, gate, replaced>>
  BY Zenon DEF ReadyHandler, lockRefresh, probeStore, store, unlockRefresh, respond
<1>2. CASE UNCHANGED <<pass, results>>
  BY <1>1, <1>2, Zenon DEF HealthInv, PassInv, OwnChecks, MainChecks, FirstPass, Has
<1>3. ASSUME \A g \in Refreshers \ {p} : pass'[g] = pass[g], OwnChecks => OwnPass(pass'[p]), PassInv', gate,
             \A n \in Names : OwnChecks /\ results[n].of = n => results'[n].of = n
      PROVE  HealthInv'
  <2>1. ASSUME replaced' = 0 PROVE OwnChecks' /\ FirstPass'
    <3>1. OwnChecks /\ FirstPass
      BY <1>1, <2>1, Zenon DEF HealthInv
    <3>2. OwnChecks'
      BY <1>0, <1>1, <1>3, <3>1, OwnKept, Zenon
    <3>3. QED
      BY <1>1, <1>3, <3>1, <3>2, Zenon DEF FirstPass
  <2>2. QED
    BY <1>3, <2>1, Zenon DEF HealthInv
<1>4. ASSUME NEW to, pass' = [pass EXCEPT ![p].at = to], results' = results, gate, pass[p].at # "run", to # "run"
      PROVE  HealthInv'
  <2>1. /\ pass' = [g \in Refreshers |-> pass'[g]]
        /\ \A g \in Refreshers \ {p} : pass'[g] = pass[g]
        /\ pass'[p].at = to /\ pass'[p].left = {} /\ pass'[p].out = {} /\ IsPass(pass'[p])
    BY <1>0, <1>4, MovedTo, Zenon DEF PassInv
  <2>2. PassInv'
    <3>1. \A o \in pass'[p].out : IsOut(o)
      BY <2>1, Zenon
    <3>2. QED
      BY <1>0, <1>1, <1>4, <2>1, <3>1, PassKept, Zenon DEF PassInv
  <2>3. OwnPass(pass'[p])
    BY <2>1, Zenon DEF OwnPass
  <2>4. QED
    BY <1>3, <1>4, <2>1, <2>2, <2>3, Zenon
<1>5. CASE ReadyHandler(p)
  <2>1. CASE gate /\ At(p, "idle", IF stale THEN "lock" ELSE "read")
    BY <1>4, <1>5, <2>1, Zenon DEF At, ReadyHandler
  <2>2. QED
    BY <1>2, <1>5, <2>1, Zenon DEF ReadyHandler
<1>6. CASE lockRefresh(p)
  <2>1. pass[p].at = "lock" /\ gate /\ results' = results
    BY <1>0, <1>6, Zenon DEF lockRefresh, PassInv
  <2>2. CASE collect(p)
    <3>1. /\ pass' = [g \in Refreshers |-> pass'[g]]
          /\ \A g \in Refreshers \ {p} : pass'[g] = pass[g]
          /\ pass'[p].at = "run" /\ pass'[p].out = {} /\ IsPass(pass'[p])
          /\ MainChecks => pass'[p].left = {Taken(n) : n \in Names}
      BY <1>0, <2>2, Collected, Zenon
    <3>2. PassInv'
      <4>1. \A o \in pass'[p].out : IsOut(o)
        BY <3>1, Zenon
      <4>2. QED
        BY <1>0, <1>1, <2>1, <3>1, <4>1, PassKept, Zenon DEF PassInv
    <3>3. OwnChecks => OwnPass(pass'[p])
      <4>1. ASSUME OwnChecks PROVE OwnPass(pass'[p])
        <5>1. pass'[p].left = {Taken(n) : n \in Names} /\ pass'[p].out = {}
          BY <3>1, <4>1, Zenon DEF OwnChecks
        <5>2. QED
          BY <5>1, Zenon DEF OwnPass
      <4>2. QED
        BY <4>1, Zenon
    <3>4. QED
      BY <1>3, <2>1, <3>1, <3>2, <3>3, Zenon
  <2>3. QED
    BY <1>4, <1>6, <2>1, <2>2, Zenon DEF lockRefresh
<1>7. CASE probeStore(p)
  <2>1. /\ store(p) /\ pass[p].at = "run" /\ gate
        /\ pass' = [pass EXCEPT ![p] = [NoPass EXCEPT !.at = "unlock"]]
    BY <1>0, <1>7, Zenon DEF probeStore, store, PassInv
  <2>2. /\ pass' = [g \in Refreshers |-> pass'[g]] /\ pass'[p] = [NoPass EXCEPT !.at = "unlock"]
        /\ \A g \in Refreshers \ {p} : pass'[g] = pass[g]
    BY <1>0, <2>1, Zenon DEF PassInv
  <2>3. pass'[p] = [at |-> "unlock", took |-> {}, left |-> {}, out |-> {}]
    BY <2>2, Zenon DEF NoPass
  <2>4. pass'[p].at = "unlock" /\ pass'[p].left = {} /\ pass'[p].out = {} /\ IsPass(pass'[p])
    BY <2>3 DEF IsPass
  <2>5. PassInv'
    <3>1. \A o \in pass'[p].out : IsOut(o)
      BY <2>4, Zenon
    <3>2. QED
      BY <1>0, <1>1, <2>1, <2>2, <2>4, <3>1, Stored, PassKept, Zenon
  <2>6. OwnPass(pass'[p])
    BY <2>4, Zenon DEF OwnPass
  <2>7. \A n \in Names : OwnChecks /\ results[n].of = n => results'[n].of = n
    BY <1>0, <2>1, Stored, Zenon DEF OwnChecks
  <2>8. QED
    BY <1>3, <2>1, <2>2, <2>5, <2>6, <2>7, Zenon
<1>8. CASE unlockRefresh(p)
  <2>1. gate
    BY <1>0, <1>8, Zenon DEF unlockRefresh, At, PassInv
  <2>2. QED
    BY <1>4, <1>8, <2>1, Zenon DEF unlockRefresh, At
<1>9. CASE respond(p)
  <2>1. gate
    BY <1>0, <1>9, Zenon DEF respond, At, PassInv
  <2>2. QED
    BY <1>4, <1>9, <2>1, Zenon DEF respond, At
<1>10. QED
  BY <1>5, <1>6, <1>7, <1>8, <1>9, Zenon

\* Every step of the registry.
LEMMA HealthSteps == HealthInv /\ [HealthNext]_healthVars => HealthInv'
<1> SUFFICES ASSUME HealthInv, [HealthNext]_healthVars PROVE HealthInv'
  OBVIOUS
<1>0. PassInv
  BY Zenon DEF HealthInv
<1>1. CASE UNCHANGED healthVars
  BY <1>1, Zenon DEF healthVars, HealthInv, PassInv, OwnChecks, MainChecks, FirstPass, Has
<1>2. ASSUME NEW n \in Names, NEW critical \in BOOLEAN, Register(n, critical) PROVE HealthInv'
  <2>1. replaced' \in Nat /\ replaced' # 0
    BY <1>0, <1>2 DEF Register, PassInv
  <2>2. /\ results' = [results EXCEPT ![n] = NoResult] /\ UNCHANGED <<pass, gate>>
    BY <1>2, Zenon DEF Register
  <2>3. results' = [m \in Names |-> results'[m]] /\ \A m \in Names : results'[m] \in {results[m], NoResult}
    BY <1>0, <2>2, Zenon DEF PassInv
  <2>4. IsResult(NoResult)
    BY Zenon DEF NoResult, IsResult
  <2>5. ASSUME NEW m \in Names PROVE IsResult(results'[m])
    BY <1>0, <2>3, <2>4, Zenon DEF PassInv
  <2>6. QED
    BY <1>0, <2>1, <2>2, <2>3, <2>5, Zenon DEF HealthInv, PassInv
<1>3. ASSUME NEW f \in Refreshers, NEW o \in pass[f].out,
             timesOut(f, o) \/ \E ok \in BOOLEAN : returns(f, o, ok)
      PROVE  HealthInv'
  <2>1. CASE timesOut(f, o)
    BY <2>1, OutcomeStep, Zenon DEF timesOut
  <2>2. ASSUME NEW ok \in BOOLEAN, returns(f, o, ok) PROVE HealthInv'
    <3>1. running' \subseteq running
      BY <2>2, Zenon DEF returns
    <3>2. QED
      BY <2>2, <3>1, OutcomeStep, Zenon DEF returns
  <2>3. QED
    BY <1>3, <2>1, <2>2, Zenon
<1>4. ASSUME NEW k \in running, clears(k) PROVE HealthInv'
  BY <1>4, Zenon DEF clears, HealthInv, PassInv, OwnChecks, MainChecks, FirstPass, Has
<1>5. CASE Age
  <2>1. /\ results' = [n \in Names |-> IF results[n].of # 0 THEN [results[n] EXCEPT !.aged = TRUE] ELSE results[n]]
        /\ UNCHANGED <<checks, running, pass, gate, replaced>>
    BY <1>5, Zenon DEF Age
  <2>2. ASSUME NEW n \in Names PROVE IsResult(results'[n]) /\ results'[n].of = results[n].of
    <3>1. IsResult(results[n])
      BY <1>0, Zenon DEF PassInv
    <3>2. results'[n] \in {[results[n] EXCEPT !.aged = TRUE], results[n]}
      BY <2>1, Zenon
    <3>3. QED
      BY <3>1, <3>2, Zenon DEF IsResult
  <2>3. results' = [n \in Names |-> results'[n]]
    BY <2>1, Zenon
  <2>4. QED
    BY <2>1, <2>2, <2>3, Zenon DEF HealthInv, PassInv, OwnChecks, MainChecks, FirstPass, Has
<1>6. QED
  BY <1>1, <1>2, <1>3, <1>4, <1>5, StartStep, LoopSteps, ProbeSteps, Zenon DEF HealthNext

\* Only a probe's answer and its refusal at the gate set its answer.
AnswersTyped == answer = [p \in Probes |-> answer[p]]
LEMMA AnswerSteps ==
  ASSUME AnswersTyped, [HealthNext]_healthVars
  PROVE  /\ AnswersTyped'
         /\ \/ answer' = answer
            \/ \E p \in Probes : answer' = [answer EXCEPT ![p] = "not_ready"]
            \/ \E p \in Probes : respond(p)
<1>1. \/ answer' = answer
      \/ \E p \in Probes : answer' = [answer EXCEPT ![p] = "not_ready"]
      \/ \E p \in Probes : respond(p)
  <2>1. ASSUME NEW p \in Probes, ReadyHandler(p)
        PROVE  answer' = answer \/ answer' = [answer EXCEPT ![p] = "not_ready"]
    BY <2>1, Zenon DEF ReadyHandler
  <2>2. ASSUME NEW p \in Probes, lockRefresh(p) \/ probeStore(p) \/ unlockRefresh(p) PROVE answer' = answer
    BY <2>2, Zenon DEF lockRefresh, probeStore, unlockRefresh
  <2>3. ASSUME NEW f \in Refreshers,
               (\E c \in pass[f].left : start(f, c))
                 \/ \E o \in pass[f].out : timesOut(f, o) \/ \E ok \in BOOLEAN : returns(f, o, ok)
        PROVE  answer' = answer
    BY <2>3, Zenon DEF start, timesOut, returns
  <2>4. ASSUME NEW n \in Names, NEW critical \in BOOLEAN, Register(n, critical) PROVE answer' = answer
    BY <2>4, Zenon DEF Register
  <2>5. ASSUME NEW k \in running, clears(k) PROVE answer' = answer
    BY <2>5, Zenon DEF clears
  <2>6. runPass \/ runStore \/ Age \/ UNCHANGED healthVars => answer' = answer
    BY Zenon DEF runPass, runStore, Age, healthVars
  <2>7. HealthNext /\ answer' # answer => \E p \in Probes : ReadyHandler(p) \/ respond(p)
    BY <2>2, <2>3, <2>4, <2>5, <2>6, Zenon DEF HealthNext
  <2>8. QED
    BY <2>1, <2>6, <2>7, Zenon
<1>2. ASSUME NEW p \in Probes, respond(p) PROVE AnswersTyped'
  BY <1>2, Zenon DEF respond, AnswersTyped
<1>3. QED
  BY <1>1, <1>2, Zenon DEF AnswersTyped

\* With any checks, any number of probes and any refreshes that overlap, time out
\* or skip a check, a probe that answers "ready" or "degraded" before a check was
\* replaced has a passing result of every critical check, taken by that check
\* (health.go snapshot, refresh; httpx.go Run).
THEOREM ReadyRestsOnResultsProved == HealthSpec => ReadyRestsOnResults
<1> DEFINE Rests ==
      \A p \in Probes : answer[p] = "none" /\ answer'[p] \in {"ready", "degraded"} /\ replaced = 0
        => \A n \in Names : checks[n].critical => results[n].ok /\ results[n].of = checks[n].id
<1>1. HealthInit => HealthInv
  <2> SUFFICES ASSUME HealthInit PROVE HealthInv
    OBVIOUS
  <2>1. \A f \in Refreshers : pass[f] = NoPass
    BY Zenon DEF HealthInit
  <2>2. NoPass.at = "idle" /\ NoPass.left = {} /\ NoPass.out = {} /\ IsPass(NoPass) /\ IsResult(NoResult)
    BY Zenon DEF NoPass, IsPass, NoResult, IsResult
  <2>3. PassInv
    <3>1. pass = [f \in Refreshers |-> pass[f]] /\ results = [n \in Names |-> results[n]] /\ replaced \in Nat
      BY Zenon DEF HealthInit
    <3>2. \A n \in Names : results[n] = NoResult
      BY Zenon DEF HealthInit
    <3>3. QED
      BY <2>1, <2>2, <3>1, <3>2, Zenon DEF PassInv, Refreshers
  <2>4. MainChecks
    BY Zenon DEF HealthInit, MainChecks
  <2>5. \A f \in Refreshers : OwnPass(pass[f])
    BY <2>1, <2>2, Zenon DEF OwnPass
  <2>6. FirstPass
    BY <2>1, <2>2, Zenon DEF HealthInit, FirstPass, Refreshers
  <2>7. QED
    BY <2>3, <2>4, <2>5, <2>6, Zenon DEF HealthInv, OwnChecks
<1>2. HealthInv /\ AnswersTyped /\ [HealthNext]_healthVars => [Rests]_healthVars
  <2> SUFFICES ASSUME HealthInv, AnswersTyped, [HealthNext]_healthVars, NEW p \in Probes, answer[p] = "none",
                      answer'[p] \in {"ready", "degraded"}, replaced = 0,
                      NEW n \in Names, checks[n].critical
               PROVE  results[n].ok /\ results[n].of = checks[n].id
    BY Zenon
  <2>1. PICK q \in Probes : respond(q)
    <3>1. answer' # answer
      BY Zenon
    <3>2. \A q \in Probes : answer' # [answer EXCEPT ![q] = "not_ready"]
      BY Zenon DEF AnswersTyped
    <3>3. QED
      BY <3>1, <3>2, AnswerSteps, Zenon
  <2>2. PassInv /\ MainChecks /\ FirstPass
    BY Zenon DEF HealthInv, OwnChecks
  <2>3. q = p
    BY <2>1, Zenon DEF respond, AnswersTyped
  <2>4. gate
    BY <2>1, <2>2, Zenon DEF respond, At, PassInv
  <2>5. Failing(TRUE) = {}
    <3>1. answer'[p] = IF Failing(TRUE) # {} THEN "not_ready" ELSE IF Failing(FALSE) # {} THEN "degraded" ELSE "ready"
      BY <2>1, <2>3, Zenon DEF respond, AnswersTyped
    <3>2. QED
      BY <3>1, Zenon
  <2>6. checks[n].critical = TRUE
    BY <2>2, Zenon DEF MainChecks
  <2>7. results[n].ok
    BY <2>5, <2>6, Zenon DEF Failing
  <2>8. QED
    BY <2>2, <2>4, <2>7, Zenon DEF FirstPass, MainChecks
<1>3. HealthInit => AnswersTyped
  BY Zenon DEF HealthInit, AnswersTyped
<1>4. QED
  BY <1>1, <1>2, <1>3, HealthSteps, AnswerSteps, PTL DEF HealthSpec, ReadyRestsOnResults

----------------------------------------------------------------------------
(* A request.                                                              *)

\* What holds at each place of the chain: nothing is written before a handler
\* is done or panics, recovery leaves no panic but an abort and an answer
\* otherwise, and what the defers then read changes no more.
RequestInv ==
  /\ at \in {"entry", "route", "check", "store", "recovery", "metrics", "log", "tracing", "done"}
  /\ panic \in {"none", "bug", "abort"} /\ status \in Nat
  /\ inFlight = IF at \in {"route", "check", "store", "recovery", "metrics"} THEN 1 ELSE 0
  /\ at \in {"entry", "route", "check", "store"} => status = 0 /\ panic = "none"
  /\ at \in {"entry", "route", "check", "store", "recovery"} => ~aborted
  /\ at = "recovery" => status # 0 \/ panic # "none"
  /\ status >= 500 => cause # "none"
  /\ at \in {"metrics", "log", "tracing", "done"} =>
       panic # "bug" /\ (aborted <=> panic = "abort") /\ (panic = "none" => status # 0)
  /\ at \in {"log", "tracing", "done"} => counted = IF panic = "abort" THEN 499 ELSE status
  /\ at \in {"tracing", "done"} => logged = IF panic = "abort" THEN 499 ELSE status
  /\ req.op \in {"create", "get", "list", "update", "delete"}
  /\ req.timeout \in Nat /\ req.floor \in Nat /\ req.asked \in Nat
  /\ at # "entry" => budget = requestBudget(req.timeout, req.floor, req.asked)

\* A deadline that is asked for shortens the server's, and never lengthens it.
LEMMA BudgetBounded ==
  ASSUME NEW configured \in Nat, NEW floor \in Nat, NEW wanted \in Nat, configured > 0
  PROVE  requestBudget(configured, floor, wanted) \in 1..configured
BY DEF requestBudget, Max2

\* The store's answers are no server errors.
LEMMA AnswersAreNoErrors ==
  ASSUME NEW op \in {"create", "get", "list", "update", "delete"}, NEW code \in Answers[op]
  PROVE  code \in Nat /\ code # 0 /\ code < 500
BY DEF Answers

\* Along the chain.
LEMMA RequestSteps == RequestInv /\ [RequestNext]_requestVars => RequestInv'
<1> SUFFICES ASSUME RequestInv, [RequestNext]_requestVars PROVE RequestInv'
  OBVIOUS
<1> USE DEF RequestInv
<1>1. CASE UNCHANGED requestVars
  BY <1>1 DEF requestVars
<1>2. CASE entry
  BY <1>2 DEF entry
<1>3. CASE route
  BY <1>3 DEF route, rest, WriteHeader
<1>4. CASE check
  BY <1>4 DEF check, rest, Problem, WriteHeader
<1>5. CASE answered
  BY <1>5, AnswersAreNoErrors DEF answered, rest, Problem, WriteHeader
<1>6. CASE fail
  BY <1>6 DEF fail, rest, Problem, WriteHeader
<1>7. CASE handlerPanics
  BY <1>7 DEF handlerPanics
<1>8. CASE recovery
  <2>1. aborted' <=> panic = "abort"
    BY <1>8, Zenon DEF recovery
  <2>2. /\ at = "recovery" /\ at' = "metrics" /\ UNCHANGED <<req, budget, inFlight, counted, logged>>
        /\ IF panic = "bug" THEN panic' = "none" /\ cause' = "panic" /\ status' = IF status = 0 THEN 500 ELSE status
                            ELSE UNCHANGED <<panic, cause, status>>
    BY <1>8, Zenon DEF recovery, WriteHeader
  <2>3. CASE panic = "bug"
    BY <2>1, <2>2, <2>3
  <2>4. CASE panic # "bug"
    BY <2>1, <2>2, <2>4
  <2>5. QED
    BY <2>3, <2>4, Zenon
<1>9. CASE metrics
  BY <1>9 DEF metrics, StatusOf
<1>10. CASE accessLog
  BY <1>10 DEF accessLog, StatusOf
<1>11. CASE tracing
  BY <1>11 DEF tracing
<1>12. CASE ContextEnds
  BY <1>12 DEF ContextEnds, rest
<1>13. QED
  BY <1>1, <1>2, <1>3, <1>4, <1>5, <1>6, <1>7, <1>8, <1>9, <1>10, <1>11, <1>12, Zenon DEF RequestNext

\* Whatever is asked for, whenever the client leaves, the deadline passes or a
\* handler panics, a request is counted and logged with what its client got, within
\* the server's deadline (middleware.go recovery, accessLog, status, requestBudget;
\* metrics.go Middleware; problem.go WriteProblem).
THEOREM CountedAsAnsweredProved == RequestSpec => []CountedAsAnswered
<1>1. RequestInit => RequestInv
  <2> SUFFICES ASSUME RequestInit PROVE RequestInv
    OBVIOUS
  <2>1. ~aborted
    BY Zenon DEF RequestInit
  <2>2. /\ req.op \in {"create", "get", "list", "update", "delete"}
        /\ req.timeout \in Timeouts /\ req.floor \in Timeouts /\ req.asked \in Asked
    BY Zenon DEF RequestInit
  <2>3. at = "entry" /\ status = 0 /\ panic = "none" /\ inFlight = 0
    BY Zenon DEF RequestInit
  <2>4. QED
    <3>1. 0 \in Nat /\ ~(0 >= 500)
      OBVIOUS
    <3>2. req.timeout \in Nat /\ req.floor \in Nat /\ req.asked \in Nat
      BY <2>2, TimeoutsAreDurations, Zenon
    <3>3. QED
      BY <2>1, <2>2, <2>3, <3>1, <3>2, Zenon DEF RequestInv
<1>2. RequestInv => CountedAsAnswered
  <2> SUFFICES ASSUME RequestInv, at = "done" PROVE CountedAsAnswered
    BY Zenon DEF CountedAsAnswered
  <2>1. req.timeout > 0 => budget \in 1..req.timeout
    <3>1. /\ req.timeout \in Nat /\ req.floor \in Nat /\ req.asked \in Nat
          /\ budget = requestBudget(req.timeout, req.floor, req.asked)
      BY Zenon DEF RequestInv
    <3>2. QED
      BY <3>1, BudgetBounded, Zenon
  <2>2. inFlight = 0 /\ panic # "bug"
    BY Zenon DEF RequestInv
  <2>3. IF aborted THEN counted = 499 /\ logged = 499
        ELSE status # 0 /\ counted = status /\ logged = status /\ (status >= 500 => cause # "none")
    BY DEF RequestInv
  <2>4. QED
    BY <2>1, <2>2, <2>3, Zenon DEF CountedAsAnswered
<1>3. QED
  BY <1>1, <1>2, RequestSteps, PTL DEF RequestSpec

----------------------------------------------------------------------------
(* Send.                                                                   *)

\* A report is the client's last word on a record: it was acknowledged because
\* it was appended, and refused because it was not, and has left the buffer.
ReportInv ==
  /\ stage \in [Messages -> {"idle", "produce", "full", "await", "done"}]
  /\ report \in [Messages -> Codes \union {"", "ok"}] /\ kind = [m \in Messages |-> kind[m]]
  /\ \A m \in Messages :
       /\ report[m] # "" \/ m \in buffered => stage[m] \in {"await", "done"}
       /\ report[m] = "ok" => m \in stored
       /\ report[m] \in Refusals => m \notin stored \union buffered
       /\ kind[m] = "rejected" => stage[m] = "done"

SendInv == ReportInv /\ KindsTellTheTruth

\* Only an acknowledgement is returned as success, and only a refusal as one.
LEMMA KindsOfCodes ==
  ASSUME NEW err \in Codes \union {"ok", "context", "QueueFull"}
  PROVE  /\ sendError(err) = "ok" => err = "ok"
         /\ sendError(err) = "rejected" => err \in Refusals
<1>1. sendErrorKinds(err) # "ok" /\ (sendErrorKinds(err) = "rejected" => err \in Refusals)
  BY Zenon DEF sendErrorKinds
<1>2. QED
  BY <1>1, Zenon DEF sendError

\* A code that leaves open whether the record was appended refuses nothing.
LEMMA RefusalsAreCertain == \A err \in Refusals : err \notin Ambiguous \union {"", "ok", "context", "QueueFull"}
BY Zenon DEF Refusals, Ambiguous

\* The answer of one call.
LEMMA ReturnsTruly ==
  ASSUME SendInv, NEW m \in Messages, NEW err \in Codes \union {"ok", "context", "QueueFull"},
         Returns(m, err), err = "ok" => m \in stored, err \in Refusals => m \notin stored \union buffered,
         UNCHANGED <<buffered, stored, report>>
  PROVE  SendInv'
<1>1. /\ stage' = [stage EXCEPT ![m] = "done"]
      /\ kind' = [kind EXCEPT ![m] = sendError(err)]
  BY Zenon DEF Returns
<1>2. \A n \in Messages : n # m => kind'[n] = kind[n] /\ stage'[n] = stage[n]
  BY <1>1, Zenon DEF SendInv, ReportInv
<1>3. kind'[m] = sendError(err) /\ stage'[m] = "done"
  BY <1>1, Zenon DEF SendInv, ReportInv
<1>4. kind' = [n \in Messages |-> kind'[n]] /\ stage' \in [Messages -> {"idle", "produce", "full", "await", "done"}]
  BY <1>1, Zenon DEF SendInv, ReportInv
<1>5. KindsTellTheTruth'
  BY <1>2, <1>3, KindsOfCodes, Zenon DEF SendInv, KindsTellTheTruth
<1>6. ReportInv'
  BY <1>2, <1>3, <1>4, Zenon DEF SendInv, ReportInv
<1>7. QED
  BY <1>5, <1>6, Zenon DEF SendInv

\* Every step of the calls, of the client and of the brokers.
LEMMA SendSteps == SendInv /\ [SendNext]_sendVars => SendInv'
<1> SUFFICES ASSUME SendInv, [SendNext]_sendVars PROVE SendInv'
  OBVIOUS
<1> USE DEF SendInv, ReportInv
<1>1. CASE UNCHANGED sendVars
  BY <1>1, Zenon DEF sendVars, KindsTellTheTruth
<1>2. ASSUME NEW m \in Messages, Send(m) PROVE SendInv'
  BY <1>2 DEF Send, KindsTellTheTruth
<1>3. ASSUME NEW m \in Messages, Produce(m) PROVE SendInv'
  <2>1. CASE ended /\ Returns(m, "ClientClosed") /\ UNCHANGED buffered
    <3>1. "ClientClosed" \in Codes /\ "ClientClosed" \notin Refusals
      BY Zenon DEF Codes, Ambiguous, Refusals
    <3>2. QED
      BY <1>3, <2>1, <3>1, ReturnsTruly, Zenon DEF Produce
  <2>2. CASE stage' = [stage EXCEPT ![m] = "full"] /\ UNCHANGED <<buffered, kind>>
    BY <1>3, <2>2 DEF Produce, KindsTellTheTruth
  <2>3. CASE /\ buffered' = buffered \union {m}
             /\ stage' = [stage EXCEPT ![m] = "await"] /\ UNCHANGED kind
    <3>1. report[m] = "" /\ kind[m] # "rejected" /\ UNCHANGED <<stored, report>>
      BY <1>3, Zenon DEF Produce
    <3>2. "" \notin Refusals
      BY RefusalsAreCertain, Zenon
    <3>3. QED
      BY <1>3, <2>3, <3>1, <3>2, Zenon DEF KindsTellTheTruth
  <2>4. QED
    BY <1>3, <2>1, <2>2, <2>3, Zenon DEF Produce
<1>4. ASSUME NEW m \in Messages, Retry(m) PROVE SendInv'
  <2>1. CASE stage' = [stage EXCEPT ![m] = "produce"] /\ UNCHANGED kind
    BY <1>4, <2>1, Zenon DEF Retry, KindsTellTheTruth
  <2>2. CASE Returns(m, "QueueFull")
    BY <1>4, <2>2, ReturnsTruly, RefusalsAreCertain, Zenon DEF Retry
  <2>3. QED
    BY <1>4, <2>1, <2>2, Zenon DEF Retry
<1>5. ASSUME NEW m \in Messages, Await(m) PROVE SendInv'
  <2>1. CASE report[m] # "" /\ Returns(m, report[m])
    BY <1>5, <2>1, ReturnsTruly, Zenon DEF Await
  <2>2. CASE Returns(m, "context")
    BY <1>5, <2>2, ReturnsTruly, RefusalsAreCertain, Zenon DEF Await
  <2>3. QED
    BY <1>5, <2>1, <2>2, Zenon DEF Await
<1>6. ASSUME NEW m \in Messages, BudgetEnds(m) PROVE SendInv'
  BY <1>6, Zenon DEF BudgetEnds, KindsTellTheTruth
<1>7. ASSUME NEW m \in Messages, BrokersAppend(m) PROVE SendInv'
  BY <1>7, Zenon DEF BrokersAppend, KindsTellTheTruth
<1>8. ASSUME NEW m \in Messages, NEW err \in Codes \union {"ok"}, Report(m, err) PROVE SendInv'
  <2>1. /\ m \in buffered /\ buffered' = buffered \ {m} /\ report' = [report EXCEPT ![m] = err]
        /\ UNCHANGED <<stage, stored, kind>>
    BY <1>8, Zenon DEF Report
  <2>2. (err = "ok" => m \in stored) /\ (err \in Refusals => m \notin stored)
    <3>1. "ok" \notin Codes
      BY Zenon DEF Codes, Unavailable, NotProvisioned, Refusals, Ambiguous
    <3>2. QED
      BY <1>8, <3>1, RefusalsAreCertain, Zenon DEF Report
  <2>3. report'[m] = err /\ \A n \in Messages : n # m => report'[n] = report[n]
    BY <2>1, Zenon
  <2>4. report' \in [Messages -> Codes \union {"", "ok"}]
    BY <2>1, Zenon
  <2>5. QED
    BY <2>1, <2>2, <2>3, <2>4, Zenon DEF KindsTellTheTruth
<1>9. CASE Close
  BY <1>9, Zenon DEF Close, KindsTellTheTruth
<1>10. QED
  BY <1>1, <1>2, <1>3, <1>4, <1>5, <1>6, <1>7, <1>8, <1>9, Zenon DEF SendNext

\* For any number of calls, any size of the buffer and whatever the client reports
\* or the contexts end: a send that succeeded is in the topic, and a rejected one is
\* not and never will be (producer.go Send, errors.go Rejected, the drivers' Send).
THEOREM KindsTellTheTruthProved == SendSpec => []KindsTellTheTruth
<1>1. SendInit => SendInv
  <2>1. "" \notin Refusals
    BY RefusalsAreCertain, Zenon
  <2>2. QED
    BY <2>1, Zenon DEF SendInit, SendInv, ReportInv, KindsTellTheTruth
<1>2. SendInv => KindsTellTheTruth
  BY Zenon DEF SendInv
<1>3. QED
  BY <1>1, <1>2, SendSteps, PTL DEF SendSpec

----------------------------------------------------------------------------
(* From the configuration to a client.                                     *)

\* What a client needs of a configuration that was found valid, which no change
\* of the files takes away.
Sound ==
  /\ conf.reset \in {"earliest", "latest"} /\ validateBuffers(conf)
  /\ Sasl(conf) \/ conf.mechanism = ""
  /\ driver # "franz" => "acks" \notin conf.extra

ConfigInv ==
  /\ step = "raw" => conf \in Raw /\ client = {}
  /\ step # "raw" => \A k \in Sizes : conf[k] \in Int /\ conf[k] # 0
  /\ client # {} => step # "raw" /\ Sound
  /\ client \subseteq {IF driver = "franz" THEN franzClient(conf) ELSE rdkafkaClient(conf)}

\* No size is zero once the defaults are in.
LEMMA SizesSet ==
  ASSUME NEW c \in Raw, NEW k \in Sizes
  PROVE  withKafkaDefaults(c)[k] \in Int /\ withKafkaDefaults(c)[k] # 0
<1>1. k \in DOMAIN c /\ c[k] \in Int
  BY RawSizes, Zenon
<1>2. k \in DOMAIN Defaults /\ k \notin {"codec", "reset", "strategy"}
  BY DEF Sizes, Defaults
<1>3. Defaults[k] \in Int /\ Defaults[k] # 0
  BY DEF Sizes, Defaults, MiB, KiB
<1>4. withKafkaDefaults(c)[k] = IF c[k] = 0 THEN Defaults[k] ELSE c[k]
  BY <1>1, <1>2, Zenon DEF withKafkaDefaults
<1>5. QED
  BY <1>1, <1>3, <1>4, Zenon

LEMMA ConfigSteps == ConfigInv /\ [ConfigNext]_configVars => ConfigInv'
<1> SUFFICES ASSUME ConfigInv, [ConfigNext]_configVars PROVE ConfigInv'
  OBVIOUS
<1>1. CASE ValidateConfig
  <2>1. step = "raw" /\ conf \in Raw /\ client' = {}
    BY <1>1, Zenon DEF ValidateConfig, ConfigInv
  <2>2. conf' = withKafkaDefaults(conf) /\ step' \in {"valid", "refused"}
    BY <1>1, Zenon DEF ValidateConfig
  <2>3. \A k \in Sizes : conf'[k] \in Int /\ conf'[k] # 0
    BY <2>1, <2>2, SizesSet, Zenon
  <2>4. step' # "raw"
    BY <2>2
  <2>5. QED
    BY <2>1, <2>3, <2>4, Zenon DEF ConfigInv
<1>2. ASSUME UNCHANGED <<driver, conf, step>>
      PROVE  /\ Sound' = Sound
             /\ franzClient(conf)' = franzClient(conf) /\ rdkafkaClient(conf)' = rdkafkaClient(conf)
  BY <1>2, Zenon DEF Sound, validateBuffers, Sasl, franzClient, rdkafkaClient, Tls, saslMechanism
<1>3. CASE New
  <2>1. /\ step = "valid" /\ UNCHANGED <<driver, conf, step>>
        /\ client' = {IF driver = "franz" THEN franzClient(conf) ELSE rdkafkaClient(conf)}
    BY <1>3, Zenon DEF New
  <2>2. Sound
    <3>1. ConfigValid(conf)
      BY <1>3, Zenon DEF New
    <3>2. conf.reset \in {"earliest", "latest"} /\ validateBuffers(conf) /\ (Sasl(conf) \/ conf.mechanism = "")
      BY <3>1, Zenon DEF ConfigValid, validateSecurity
    <3>3. driver # "franz" => "acks" \notin conf.extra
      BY <3>1, Zenon DEF ConfigValid, driverValidate
    <3>4. QED
      BY <3>2, <3>3, Zenon DEF Sound
  <2>3. step # "raw"
    BY <2>1
  <2>4. QED
    BY <1>2, <2>1, <2>2, <2>3, Zenon DEF ConfigInv
<1>4. CASE FilesChange \/ UNCHANGED configVars
  <2>1. UNCHANGED <<driver, conf, step, client>>
    BY <1>4, Zenon DEF FilesChange, configVars
  <2>2. QED
    BY <1>2, <2>1, Zenon DEF ConfigInv
<1>5. QED
  BY <1>1, <1>3, <1>4, Zenon DEF ConfigNext

\* A size below 2 GiB survives the conversion.
LEMMA Int32Keeps ==
  ASSUME NEW n \in Nat, n < 2048 * MiB
  PROVE  int32(n) = n
<1>1. MiB = 16384
  BY DEF MiB, KiB
<1>2. (n + 33554432) % 67108864 = n + 33554432
  BY <1>1
<1>3. QED
  BY <1>1, <1>2 DEF int32

\* Whole fetches that fit the queue, or one.
LEMMA WholeFetches ==
  ASSUME NEW x \in Nat, NEW f \in Nat \ {0}
  PROVE  Larger(x \div f, 1) * f =< Larger(x, f)
<1> DEFINE q == x \div f
<1>f. f \in Nat /\ f > 0
  OBVIOUS
<1>1. q \in Int /\ x % f \in 0..(f - 1) /\ x = f * q + (x % f)
  BY <1>f
<1> HIDE DEF q
<1>2. f * q =< x /\ f * q = q * f
  BY <1>1
<1>3. QED
  BY <1>1, <1>2 DEF Larger, q

\* So what was built is what was configured.
LEMMA ConfigSafe == ConfigInv => ClientAsConfigured
<1> SUFFICES ASSUME ConfigInv, NEW k \in client
             PROVE  /\ k.acks = "all" /\ ~k.autoCommit /\ k.fromStart = (conf.reset = "earliest")
                    /\ k.tls = Tls(conf) /\ k.sasl = (IF Sasl(conf) THEN conf.mechanism ELSE "")
                    /\ conf.fetchMax + MiB < 2048 * MiB =>
                         /\ 0 < k.message /\ k.message <= k.queue /\ k.message <= k.fetch
                         /\ k.partition <= k.fetch /\ k.fetch < k.read
                         /\ k.prefetch <= Larger(conf.consumerKB * KiB, k.fetch)
  BY Zenon DEF ClientAsConfigured
<1> DEFINE mode == k.acks = "all" /\ ~k.autoCommit /\ k.fromStart = (conf.reset = "earliest") /\ k.tls = Tls(conf)
           sasl == k.sasl = (IF Sasl(conf) THEN conf.mechanism ELSE "")
           sizes == /\ 0 < k.message /\ k.message <= k.queue /\ k.message <= k.fetch
                    /\ k.partition <= k.fetch /\ k.fetch < k.read
                    /\ k.prefetch <= Larger(conf.consumerKB * KiB, k.fetch)
<1> SUFFICES mode /\ sasl /\ (conf.fetchMax + MiB < 2048 * MiB => sizes)
  OBVIOUS
<1>1. Sound /\ k = IF driver = "franz" THEN franzClient(conf) ELSE rdkafkaClient(conf)
  BY Zenon DEF ConfigInv
<1>2. MiB = 16384 /\ KiB = 16
  BY DEF MiB, KiB
<1>3. /\ conf.messageMax \in Nat \ {0} /\ conf.queueKB \in Nat /\ conf.consumerKB \in Nat
      /\ conf.fetchMax \in Nat /\ conf.partitionMax \in Nat
      /\ conf.messageMax =< conf.queueKB * KiB /\ conf.messageMax =< conf.fetchMax
      /\ conf.partitionMax =< conf.fetchMax
  <2>1. \A s \in Sizes : conf[s] \in Int /\ conf[s] # 0 /\ conf[s] >= 0
    BY <1>1, Zenon DEF ConfigInv, Sound, validateBuffers
  <2>2. /\ conf.messageMax \in Int /\ conf.messageMax # 0 /\ conf.messageMax >= 0
        /\ conf.queueKB \in Int /\ conf.queueKB >= 0 /\ conf.consumerKB \in Int /\ conf.consumerKB >= 0
        /\ conf.fetchMax \in Int /\ conf.fetchMax >= 0 /\ conf.partitionMax \in Int /\ conf.partitionMax >= 0
    BY <2>1, Zenon DEF Sizes
  <2>3. /\ conf.messageMax <= conf.queueKB * KiB /\ conf.fetchMax >= conf.messageMax
        /\ conf.partitionMax <= conf.fetchMax
    BY <1>1, Zenon DEF Sound, validateBuffers
  <2>4. QED
    BY <1>2, <2>2, <2>3
<1>4. CASE driver = "franz"
  <2>1. /\ k.acks = "all" /\ k.autoCommit = FALSE /\ k.fromStart = (conf.reset # "latest")
        /\ k.tls = Tls(conf) /\ k.sasl = saslMechanism(conf)
        /\ k.message = int32(conf.messageMax) /\ k.queue = conf.queueKB * KiB
        /\ k.fetch = int32(conf.fetchMax) /\ k.partition = int32(conf.partitionMax)
        /\ k.read = int32(Larger(conf.fetchMax + MiB, 16 * MiB))
        /\ k.prefetch = Larger((conf.consumerKB * KiB) \div conf.fetchMax, 1) * conf.fetchMax
    BY <1>1, <1>4, Zenon DEF franzClient
  <2>2. (conf.reset # "latest") = (conf.reset = "earliest")
    BY <1>1 DEF Sound
  <2>3. ASSUME conf.fetchMax + MiB < 2048 * MiB
        PROVE  sizes
    <3>1. k.message = conf.messageMax /\ k.fetch = conf.fetchMax /\ k.partition = conf.partitionMax
      BY <1>2, <1>3, <2>1, <2>3, Int32Keeps
    <3>2. k.read = Larger(conf.fetchMax + MiB, 16 * MiB)
      BY <1>2, <1>3, <2>1, <2>3, Int32Keeps DEF Larger
    <3>3. k.prefetch =< Larger(conf.consumerKB * KiB, conf.fetchMax)
      <4>1. conf.consumerKB * KiB \in Nat /\ conf.fetchMax \in Nat \ {0}
        BY <1>2, <1>3
      <4>2. QED
        BY <2>1, <4>1, WholeFetches, Zenon
    <3>4. conf.fetchMax < Larger(conf.fetchMax + MiB, 16 * MiB)
      BY <1>2, <1>3 DEF Larger
    <3>5. 0 < conf.messageMax
      BY <1>3
    <3>6. QED
      BY <1>3, <2>1, <3>1, <3>2, <3>3, <3>4, <3>5, Zenon
  <2>4. mode /\ sasl
    BY <2>1, <2>2, Zenon DEF saslMechanism
  <2> HIDE DEF mode, sasl, sizes
  <2>5. QED
    BY <2>3, <2>4, Zenon
<1>5. CASE driver # "franz"
  <2>1. /\ "acks" \notin conf.extra => k.acks = "all"
        /\ k.autoCommit = FALSE /\ k.fromStart = (conf.reset = "earliest")
        /\ k.tls = Tls(conf) /\ k.sasl = conf.mechanism
        /\ k.message = conf.messageMax /\ k.queue = conf.queueKB * KiB
        /\ k.fetch = conf.fetchMax /\ k.partition = conf.partitionMax
        /\ k.read = conf.fetchMax + 8 /\ k.prefetch = conf.consumerKB * KiB
    BY <1>1, <1>5, Zenon DEF rdkafkaClient
  <2>2. /\ 0 < conf.messageMax /\ conf.fetchMax < conf.fetchMax + 8
        /\ conf.consumerKB * KiB =< Larger(conf.consumerKB * KiB, conf.fetchMax)
    BY <1>2, <1>3 DEF Larger
  <2>3. "acks" \notin conf.extra /\ conf.mechanism = IF Sasl(conf) THEN conf.mechanism ELSE ""
    BY <1>1, <1>5, Zenon DEF Sound
  <2>4. mode
    BY <2>1, <2>3, Zenon
  <2>5. sasl
    BY <2>1, <2>3, Zenon
  <2>6. sizes
    BY <1>3, <2>1, <2>2, Zenon
  <2> HIDE DEF mode, sasl, sizes
  <2>7. QED
    BY <2>4, <2>5, <2>6
<1>6. QED
  BY <1>4, <1>5, Zenon

\* A client is what was configured, for any configurations: whatever they ask
\* for and however the files change between Validate and New.
THEOREM ClientAsConfiguredProved == ConfigSpec => []ClientAsConfigured
<1>1. ConfigInit => ConfigInv
  BY Zenon DEF ConfigInit, ConfigInv
<1>2. QED
  BY <1>1, ConfigSteps, ConfigSafe, PTL DEF ConfigSpec
=============================================================================
