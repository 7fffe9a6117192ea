---------------------------- MODULE KafkaConfig ----------------------------
(***************************************************************************)
(* libs/kafka's configuration on its way to a client: Validate (defaults,  *)
(* normalisation, the rules, the linked driver's own rules), then a driver *)
(* builds a client from it: franz-go options, or librdkafka properties.    *)
(* The files it names may change in between, and a client may be built     *)
(* again later.  Sizes are counted in units of 64 bytes, so 2^31 is 2^25.  *)
(***************************************************************************)
EXTENDS Integers, FiniteSets

CONSTANT Raw    \* configurations as given: the set of records below

VARIABLES
  driver,    \* the linked provider
  conf,      \* the configuration
  files,     \* what the paths lead to: password, ca, pair
  step,      \* "raw", "valid", "refused"
  client     \* what was built from it: {} or {client}

configVars == <<driver, conf, files, step, client>>

KiB == 16
MiB == 1024 * KiB

States == [password : {"text", "unusable"}, ca : {"pem", "directory", "missing"}, pair : {"ok", "missing"}]

ConfigInit ==
  /\ driver \in {"franz", "rdkafka"} /\ conf \in Raw /\ files \in States
  /\ step = "raw" /\ client = {}

\* The sizes of buffers and messages are numbers.
Sizes == {"queueKB", "messageMax", "consumerKB", "fetchMax", "partitionMax"}
ASSUME RawSizes == \A c \in Raw : Sizes \subseteq DOMAIN c /\ \A k \in Sizes : c[k] \in Int

----------------------------------------------------------------------------
Defaults == [codec |-> "lz4", reset |-> "earliest", strategy |-> "cooperative-sticky",
             session |-> 45, pollInterval |-> 300, backoff |-> 2, backoffMax |-> 300, linger |-> 5,
             queueKB |-> 65536, messageMax |-> 15625, consumerKB |-> 4096,
             fetchMax |-> 4 * MiB, partitionMax |-> MiB]

\* Upper or lower case and spaces do not matter in these two.
Normal == [p \in {" SSL", "plain"} |-> IF p = " SSL" THEN "ssl" ELSE "PLAIN"]
Normalised(p) == IF p \in DOMAIN Normal THEN Normal[p] ELSE p

\* Zero and the empty string mean unset.
withKafkaDefaults(c) ==
  [k \in DOMAIN c |->
     IF k \in {"codec", "reset", "strategy"} THEN (IF c[k] = "" THEN Defaults[k] ELSE c[k])
     ELSE IF k \in DOMAIN Defaults THEN (IF c[k] = 0 THEN Defaults[k] ELSE c[k])
     ELSE IF k \in {"protocol", "mechanism"} THEN Normalised(c[k]) ELSE c[k]]

Sasl(c) == c.protocol \in {"sasl_plaintext", "sasl_ssl"}
Tls(c)  == c.protocol \in {"ssl", "sasl_ssl"}

\* The files named are there, and the password file is not empty.
validateFiles(c) ==
  /\ c.passwordFile => files.password = "text"
  /\ c.ca = "path" => files.ca # "missing"
  /\ c.cert \/ c.key => files.pair = "ok"

validateSecurity(c) ==
  /\ c.protocol \in {"", "plaintext", "ssl", "sasl_plaintext", "sasl_ssl"}
  /\ ~(c.password /\ c.passwordFile)
  /\ IF Sasl(c)
       THEN c.mechanism \in {"PLAIN", "SCRAM-SHA-256", "SCRAM-SHA-512"} /\ c.user /\ (c.password \/ c.passwordFile)
       ELSE c.mechanism = "" /\ ~c.user /\ ~c.password /\ ~c.passwordFile
  /\ ~Tls(c) => c.ca = "" /\ ~c.cert /\ ~c.key /\ c.identification = ""
  /\ c.cert = c.key
  /\ validateFiles(c)
  /\ c.identification \in {"", "https", "none"}

\* One that does not compare a fetch with the largest message.
validateBuffersMutant(c) ==
  /\ \A k \in Sizes : c[k] >= 0
  /\ c.messageMax <= c.queueKB * KiB
  /\ c.partitionMax <= c.fetchMax

validateBuffers(c) ==
  /\ \A k \in Sizes : c[k] >= 0
  /\ c.messageMax <= c.queueKB * KiB
  /\ c.fetchMax >= c.messageMax
  /\ c.partitionMax <= c.fetchMax

\* The linked driver: franz-go takes no properties, librdkafka none that a
\* named key or the library owns ("acks"), nor those of its Go wrapper.
driverValidate(c) ==
  IF driver = "franz" THEN c.extra = {} ELSE c.extra \intersect {"acks", "go.events"} = {}

ConfigValid(c) ==
  /\ c.brokers = "addresses"
  /\ validateSecurity(c) /\ validateBuffers(c)
  /\ c.codec \in {"none", "gzip", "snappy", "lz4", "zstd"}
  /\ c.reset \in {"earliest", "latest"}
  /\ c.strategy \in {"cooperative-sticky", "range", "roundrobin"}
  /\ c.session >= 0 /\ c.pollInterval >= c.session
  /\ c.linger >= 0 /\ c.backoff >= 0 /\ c.backoffMax >= c.backoff
  /\ driverValidate(c)

ValidateConfig ==
  /\ step = "raw"
  /\ LET c == withKafkaDefaults(conf)
     IN conf' = c /\ step' = IF ConfigValid(c) THEN "valid" ELSE "refused"
  /\ UNCHANGED <<driver, files, client>>

----------------------------------------------------------------------------
\* int32(n): the conversion wraps.
int32(n) == ((n + 2048 * MiB) % (4096 * MiB)) - 2048 * MiB

Larger(a, b) == IF a > b THEN a ELSE b

\* A password file is read again for each client.
Readable(c) == c.passwordFile => files.password = "text"

\* tlsConfig: the CA must be a file with a certificate.
tlsConfig(c) == Tls(c) => /\ c.ca # "" => c.ca = "path" /\ files.ca = "pem"
                          /\ c.cert => files.pair = "ok"

\* saslMechanism
saslMechanism(c) == IF Sasl(c) THEN c.mechanism ELSE ""

\* commonOpts, producerOpts, consumerOpts
franzClient(c) ==
  [tls |-> Tls(c), hostChecked |-> c.identification # "none", sasl |-> saslMechanism(c),
   acks |-> "all", autoCommit |-> FALSE, fromStart |-> c.reset # "latest",
   message |-> int32(c.messageMax), queue |-> c.queueKB * KiB,
   fetch |-> int32(c.fetchMax), partition |-> int32(c.partitionMax),
   read |-> int32(Larger(c.fetchMax + MiB, 16 * MiB)),
   prefetch |-> Larger((c.consumerKB * KiB) \div c.fetchMax, 1) * c.fetchMax]

\* commonProperties, producerProperties, consumerProperties: the extra ones come last.
rdkafkaClient(c) ==
  [tls |-> Tls(c), hostChecked |-> c.identification # "none", sasl |-> c.mechanism,
   acks |-> IF "acks" \in c.extra THEN "extra" ELSE "all", autoCommit |-> FALSE, fromStart |-> c.reset = "earliest",
   message |-> c.messageMax, queue |-> c.queueKB * KiB,
   fetch |-> c.fetchMax, partition |-> c.partitionMax,
   read |-> c.fetchMax + 8,
   prefetch |-> c.consumerKB * KiB]

Builds(c) == Readable(c) /\ (driver = "franz" => tlsConfig(c))

\* NewProducer and NewConsumer: Validate again, then the client.
New ==
  /\ step = "valid" /\ ConfigValid(conf) /\ Builds(conf)
  /\ client' = {IF driver = "franz" THEN franzClient(conf) ELSE rdkafkaClient(conf)}
  /\ UNCHANGED <<driver, conf, files, step>>

\* A mount changes while the process runs.
FilesChange ==
  /\ step = "valid" /\ files' \in States
  /\ UNCHANGED <<driver, conf, step, client>>

ConfigNext == ValidateConfig \/ New \/ FilesChange

ConfigSpec == ConfigInit /\ [][ConfigNext]_configVars

----------------------------------------------------------------------------
\* A client is what was configured, whichever driver built it and whatever
\* properties were added: acknowledged by all replicas, commits by hand, TLS and
\* SASL exactly when the protocol says so; and its bounds agree, so that the
\* largest record it accepts can be buffered, fetched and read.  Sizes of 2 GiB
\* and more are left out: the conversions of franz-go's options wrap there
\* (config.go Validate; kafka-franz and kafka-rdkafka config.go).
ClientAsConfigured ==
  \A k \in client :
    /\ k.acks = "all" /\ ~k.autoCommit /\ k.fromStart = (conf.reset = "earliest")
    /\ k.tls = Tls(conf) /\ k.sasl = (IF Sasl(conf) THEN conf.mechanism ELSE "")
    /\ conf.fetchMax + MiB < 2048 * MiB =>
         /\ 0 < k.message /\ k.message <= k.queue /\ k.message <= k.fetch
         /\ k.partition <= k.fetch /\ k.fetch < k.read
         /\ k.prefetch <= Larger(conf.consumerKB * KiB, k.fetch)
=============================================================================
