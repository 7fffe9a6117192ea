----------------------------- MODULE KafkaSend -----------------------------
(***************************************************************************)
(* Producer.Send of libs/kafka over either driver: the record goes into    *)
(* the client's bounded buffer (waiting while it is full), the client      *)
(* delivers it or fails it, the caller waits for that within its context,  *)
(* and every failure becomes one of the kinds callers branch on.  One call *)
(* per record.                                                             *)
(***************************************************************************)
EXTENDS Naturals, FiniteSets

CONSTANTS
  Messages,   \* one call of Send each
  MaxBuffered \* records the client's buffer holds

VARIABLES
  provider,   \* "franz" or "rdkafka"
  stage,      \* where each call is: "idle", "produce", "full", "await", "done"
  expired,    \* calls whose context has ended
  buffered,   \* records in the client's buffer
  stored,     \* records the brokers have appended
  report,     \* what the client said of a record: "" until then, "ok", or a code
  kind,       \* what Send returned: "" until then, "ok", or a kind
  ended       \* the client is closed

sendVars == <<provider, stage, expired, buffered, stored, report, kind, ended>>

SendInit ==
  /\ provider \in {"franz", "rdkafka"}
  /\ stage = [m \in Messages |-> "idle"] /\ expired = {} /\ buffered = {} /\ stored = {}
  /\ report = [m \in Messages |-> ""] /\ kind = [m \in Messages |-> ""] /\ ended = FALSE

----------------------------------------------------------------------------
Unavailable == {"RequestTimedOut", "LeaderNotAvailable", "NotLeaderForPartition", "NetworkException",
                "NotEnoughReplicas", "NotEnoughReplicasAfterAppend", "KafkaStorageError", "ThrottlingQuotaExceeded"}
NotProvisioned == {"UnknownTopicOrPartition", "TopicAuthorizationFailed", "ClusterAuthorizationFailed",
                   "SaslAuthenticationFailed"}
                  \* and SASL and transactional ids, which only franz maps
Refusals == {"MessageTooLarge", "RecordListTooLarge", "InvalidRecord", "CorruptMessage", "PolicyViolation",
             "InvalidTopicException"}

\* A table that takes one more failure for a refusal.
sendErrorKindsMutant(code) ==
  CASE code \in {"MessageTimedOut"} \union Refusals -> "rejected"
    [] code \in Unavailable                         -> "unavailable"
    [] code \in NotProvisioned                      -> "not_provisioned"
    [] OTHER                                        -> "unknown"

\* The drivers' tables, by the broker's code or the client's own.
sendErrorKinds(code) ==
  CASE code \in Refusals       -> "rejected"
    [] code \in Unavailable    -> "unavailable"
    [] code \in NotProvisioned -> "not_provisioned"
    [] code = "QueueFull"      -> "queue_full"
    [] code = "Fatal"          -> "fatal"
    [] code = "MessageTimedOut" -> "unavailable"
    [] code = "ClientClosed" /\ provider = "franz" -> "unavailable"
    [] OTHER                   -> "unknown"

\* sendError and NewSendError: a context that ended is never the record's fault.
sendError(code) ==
  CASE code = "ok"      -> "ok"
    [] code = "context" -> "unavailable"
    [] OTHER            -> sendErrorKinds(code)

\* Codes of a record that may have been appended all the same.
Ambiguous == {"RequestTimedOut", "NetworkException", "NotEnoughReplicasAfterAppend", "MessageTimedOut",
              "ClientClosed", "Fatal", "other"}
Codes == Unavailable \union NotProvisioned \union Refusals \union Ambiguous

Returns(m, code) ==
  /\ stage' = [stage EXCEPT ![m] = "done"]
  /\ kind' = [kind EXCEPT ![m] = sendError(code)]

----------------------------------------------------------------------------
\* send: the budget starts.
Send(m) ==
  /\ stage[m] = "idle"
  /\ stage' = [stage EXCEPT ![m] = "produce"]
  /\ UNCHANGED <<provider, expired, buffered, stored, report, kind, ended>>

\* TryProduce, or produce: the record is in the buffer, or there is no room,
\* or the client is closed.
Produce(m) ==
  /\ stage[m] = "produce"
  /\ \/ /\ ~ended /\ Cardinality(buffered) < MaxBuffered
        /\ buffered' = buffered \union {m}
        /\ stage' = [stage EXCEPT ![m] = "await"] /\ UNCHANGED kind
     \/ /\ ~ended /\ Cardinality(buffered) = MaxBuffered
        /\ stage' = [stage EXCEPT ![m] = "full"] /\ UNCHANGED <<buffered, kind>>
     \/ ended /\ Returns(m, "ClientClosed") /\ UNCHANGED buffered
  /\ UNCHANGED <<provider, expired, stored, report, ended>>

\* The queue was full: try again after queueFullRetry, or give up with the context.
Retry(m) ==
  /\ stage[m] = "full"
  /\ \/ stage' = [stage EXCEPT ![m] = "produce"] /\ UNCHANGED kind
     \/ m \in expired /\ Returns(m, "QueueFull")
  /\ UNCHANGED <<provider, expired, buffered, stored, report, ended>>

\* The wait for the delivery report.
Await(m) ==
  /\ stage[m] = "await"
  /\ \/ report[m] # "" /\ Returns(m, report[m])
     \/ m \in expired /\ Returns(m, "context")
  /\ UNCHANGED <<provider, expired, buffered, stored, report, ended>>

\* The context ends: the caller's, or KAFKA_PUBLISH_TIMEOUT and a second.
BudgetEnds(m) ==
  /\ stage[m] \notin {"idle", "done"} /\ m \notin expired
  /\ expired' = expired \union {m}
  /\ UNCHANGED <<provider, stage, buffered, stored, report, kind, ended>>

\* The brokers append a buffered record.
BrokersAppend(m) ==
  /\ m \in buffered \ stored
  /\ stored' = stored \union {m}
  /\ UNCHANGED <<provider, stage, expired, buffered, report, kind, ended>>

\* The client is done with a record: acknowledged, or failed with a code.
Report(m, code) ==
  /\ m \in buffered
  /\ IF m \in stored THEN code \in {"ok"} \union Ambiguous ELSE code \in Codes
  /\ code = "ClientClosed" => ended
  /\ code = "Fatal" => provider = "rdkafka"
  /\ buffered' = buffered \ {m} /\ report' = [report EXCEPT ![m] = code]
  /\ UNCHANGED <<provider, stage, expired, stored, kind, ended>>

\* Close: a flush that may leave records, which then fail.
Close ==
  /\ ~ended /\ ended' = TRUE
  /\ UNCHANGED <<provider, stage, expired, buffered, stored, report, kind>>

SendNext ==
  \/ \E m \in Messages :
       \/ Send(m) \/ Produce(m) \/ Retry(m) \/ Await(m) \/ BudgetEnds(m) \/ BrokersAppend(m)
       \/ \E code \in Codes \union {"ok"} : Report(m, code)
  \/ Close

SendSpec == SendInit /\ [][SendNext]_sendVars

----------------------------------------------------------------------------
\* What the outbox and the dead-letter path build on: a send that returned nil
\* is in the topic, and one that was "rejected" is not and never will be, though
\* any other failure may leave its record there, now or later (producer.go Send,
\* errors.go Rejected, the drivers' Send and sendError).
KindsTellTheTruth ==
  \A m \in Messages :
    /\ kind[m] = "ok" => m \in stored
    /\ kind[m] = "rejected" => m \notin stored \union buffered
============================================================================
