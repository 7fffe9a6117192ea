-------------------------- MODULE HttpClientProofs --------------------------
(***************************************************************************)
(* The HTTP client, for any constants and any number of steps: the         *)
(* accounting of its slots, requests and probes, each the size of a set of *)
(* callers that a step moves at most one caller into or out of, and its    *)
(* two windows, the breaker's and the retry budget's.                      *)
(***************************************************************************)
EXTENDS HttpClient, CountProofs

----------------------------------------------------------------------------
(* Sets of callers and their sizes.                                        *)

\* A counter that goes up as one caller enters a set, or down as one leaves
\* it, stays the size of the set.
LEMMA CountStep ==
  ASSUME NEW S \in SUBSET Callers, NEW T \in SUBSET Callers, NEW c \in Callers,
         NEW n, NEW m, n = Cardinality(S),
         \A d \in Callers : d # c => (d \in T <=> d \in S),
         \/ m = n /\ (c \in T <=> c \in S)
         \/ m = n + 1 /\ c \notin S /\ c \in T
         \/ m = n - 1 /\ c \in S /\ c \notin T
  PROVE  m = Cardinality(T)
<1>1. IsFiniteSet(S) /\ IsFiniteSet(Callers)
  BY FS_Subset, BreakerSizes, Zenon
<1>2. CASE m = n /\ (c \in T <=> c \in S)
  <2>1. T = S
    BY <1>2
  <2>2. QED
    BY <1>2, <2>1, Zenon
<1>3. CASE m = n + 1 /\ c \notin S /\ c \in T
  <2>1. T = S \union {c}
    BY <1>3, Zenon
  <2>2. QED
    BY <1>1, <1>3, <2>1, FS_AddElement, Zenon
<1>4. CASE m = n - 1 /\ c \in S /\ c \notin T
  <2>1. T = S \ {c}
    BY <1>4, Zenon
  <2>2. QED
    BY <1>1, <1>4, <2>1, FS_RemoveElement, Zenon
<1>5. QED
  BY <1>2, <1>3, <1>4, Zenon

----------------------------------------------------------------------------
(* The breaker.                                                            *)

Ticket == [gen : Nat, probe : BOOLEAN]

BreakerType ==
  /\ clock \in Nat /\ cur \in Snapshot
  /\ ticket \in [Callers -> Ticket]
  /\ stage \in [Callers -> {"none", "held", "count", "trip"}]
  /\ heard \in [Callers -> [failed : BOOLEAN, now : Nat]]

\* No ticket is of a generation to come, and the results that go through the
\* window are not those of probes.
TicketInv ==
  \A c \in Callers :
    /\ ticket[c].gen <= cur.gen
    /\ stage[c] \in {"count", "trip"} => ~ticket[c].probe

BreakerInv == BreakerType /\ TicketInv /\ ProbesAccounted

LEMMA BreakerStarts == BreakerInit => BreakerInv
<1> SUFFICES ASSUME BreakerInit PROVE BreakerInv
  OBVIOUS
<1>1. BreakerType
  BY Zenon DEF BreakerInit, BreakerType, Fresh, Snapshot, Ticket, NoTicket, Nothing
<1>2. TicketInv
  BY DEF BreakerInit, TicketInv, Fresh, NoTicket
<1>3. ProbesAccounted
  BY Zenon DEF BreakerInit, ProbesAccounted, Fresh
<1>4. QED
  BY <1>1, <1>2, <1>3, Zenon DEF BreakerInv

\* While half-open there are as many slots in use as probes.
LEMMA ProbingCounted ==
  ASSUME BreakerInv, NEW c \in Probing
  PROVE  cur.state = "half-open" /\ cur.probes - 1 \in Nat
<1>1. IsFiniteSet(Probing) /\ Probing # {}
  BY FS_Subset, BreakerSizes, Zenon DEF Probing
<1>2. cur.state = "half-open" /\ cur \in Snapshot
  BY Zenon DEF Probing, LiveProbe, BreakerInv, BreakerType
<1>3. Cardinality(Probing) \in Nat /\ Cardinality(Probing) # 0
  BY <1>1, FS_CardinalityType, FS_EmptySet, Zenon
<1>4. cur.probes = Cardinality(Probing) + cur.successes /\ cur.successes \in Nat
  BY <1>2, Zenon DEF BreakerInv, ProbesAccounted, Snapshot
<1>5. QED
  BY <1>2, <1>3, <1>4

\* The snapshots a probe's outcome leads to.
LEMMA ProbeNextIs ==
  ASSUME BreakerInv, NEW c \in Probing, NEW o \in Outcomes
  PROVE  /\ ProbeNext(o) \in Snapshot
         /\ \/ ProbeNext(o).gen = cur.gen + 1 /\ ProbeNext(o).state \in {"open", "closed"}
            \/ /\ ProbeNext(o) = [cur EXCEPT !.probes = @ - 1]
            \/ /\ ProbeNext(o) = [cur EXCEPT !.successes = @ + 1]
               /\ cur.successes + 1 < MaxProbes
<1>1. cur \in Snapshot /\ clock \in Nat /\ cur.probes - 1 \in Nat
  BY ProbingCounted, Zenon DEF BreakerInv, BreakerType
<1>2. CASE o = "ignored"
  <2>1. ProbeNext(o) = [cur EXCEPT !.probes = @ - 1]
    BY <1>2, Zenon DEF ProbeNext
  <2>2. QED
    BY <1>1, <2>1, Zenon DEF Snapshot
<1>3. CASE o = "failure"
  <2>1. ProbeNext(o) = Fresh("open", cur.gen + 1, 0, clock)
    BY <1>3, Zenon DEF ProbeNext
  <2>2. QED
    BY <1>1, <2>1 DEF Snapshot, Fresh
<1>4. CASE o = "success"
  <2>1. ProbeNext(o) = IF cur.successes + 1 >= MaxProbes
                          THEN Fresh("closed", cur.gen + 1, 0, 0)
                          ELSE [cur EXCEPT !.successes = @ + 1]
    BY <1>4, Zenon DEF ProbeNext
  <2>2. QED
    BY <1>1, <2>1, BreakerSizes DEF Snapshot, Fresh
<1>5. QED
  BY <1>2, <1>3, <1>4, Zenon DEF Outcomes

\* What allow does to the snapshot and to the caller's ticket.
LEMMA AllowEffect ==
  ASSUME BreakerInv, NEW c \in Callers, allow(c)
  PROVE  /\ stage[c] = "none" /\ stage' = [stage EXCEPT ![c] = "held"]
         /\ UNCHANGED <<clock, heard>> /\ cur' \in Snapshot
         /\ \/ /\ cur.state = "closed" /\ cur' = cur
               /\ ticket' = [ticket EXCEPT ![c] = [gen |-> cur'.gen, probe |-> FALSE]]
            \/ /\ cur.state = "open" /\ cur'.state = "half-open" /\ cur'.gen = cur.gen + 1
               /\ cur'.probes = 1 /\ cur'.successes = 0
               /\ ticket' = [ticket EXCEPT ![c] = [gen |-> cur'.gen, probe |-> TRUE]]
            \/ /\ cur.state = "half-open" /\ cur' = [cur EXCEPT !.probes = @ + 1]
               /\ cur.probes < MaxProbes
               /\ ticket' = [ticket EXCEPT ![c] = [gen |-> cur'.gen, probe |-> TRUE]]
<1>1. cur \in Snapshot
  BY Zenon DEF BreakerInv, BreakerType
<1>2. stage[c] = "none" /\ UNCHANGED <<clock, heard>> /\ stage' = [stage EXCEPT ![c] = "held"]
  BY Zenon DEF allow, Admit
<1>3. CASE cur.state = "closed"
  BY <1>1, <1>2, <1>3, Zenon DEF allow, Admit
<1>4. CASE cur.state = "open"
  <2>1. cur' = Fresh("half-open", cur.gen + 1, 1, 0)
    BY <1>4, Zenon DEF allow, Swap
  <2>2. ticket' = [ticket EXCEPT ![c] = [gen |-> cur.gen + 1, probe |-> TRUE]]
    BY <1>4, Zenon DEF allow, Admit
  <2>3. cur' \in Snapshot
    BY <1>1, <2>1 DEF Fresh, Snapshot
  <2>4. QED
    BY <1>2, <1>4, <2>1, <2>2, <2>3, Zenon DEF Fresh
<1>5. CASE cur.state = "half-open"
  <2>1. cur' = [cur EXCEPT !.probes = @ + 1]
    BY <1>5, Zenon DEF allow, Swap
  <2>2. ticket' = [ticket EXCEPT ![c] = [gen |-> cur.gen, probe |-> TRUE]]
    BY <1>5, Zenon DEF allow, Admit
  <2>3. cur.probes < MaxProbes
    BY <1>1, <1>5, BreakerSizes DEF allow, Rejects, Snapshot
  <2>4. cur' \in Snapshot
    BY <1>1, <2>1 DEF Snapshot
  <2>5. cur'.gen = cur.gen
    BY <1>1, <2>1, Zenon DEF Snapshot
  <2>6. QED
    BY <1>2, <1>5, <2>1, <2>2, <2>3, <2>4, <2>5, Zenon
<1>6. QED
  BY <1>3, <1>4, <1>5, Zenon DEF allow

\* What record does under the lock.
LEMMA CountEffect ==
  ASSUME NEW c \in Callers, recordCount(c)
  PROVE  /\ stage[c] = "count" /\ UNCHANGED <<clock, cur>>
         /\ Recorded(c) \/ (stage' = [stage EXCEPT ![c] = "trip"] /\ UNCHANGED <<ticket, heard>>)
  BY Zenon DEF recordCount

\* The ticket allow issues is of the newest generation.
LEMMA AllowTicket ==
  ASSUME BreakerInv, NEW c \in Callers, allow(c)
  PROVE  /\ cur.gen \in Nat /\ cur'.gen \in Nat /\ cur.gen <= cur'.gen
         /\ \E p \in BOOLEAN : ticket' = [ticket EXCEPT ![c] = [gen |-> cur'.gen, probe |-> p]]
<1>1. cur \in Snapshot /\ cur' \in Snapshot
  BY AllowEffect, Zenon DEF BreakerInv, BreakerType
<1>2. cur.gen \in Nat /\ cur'.gen \in Nat
  BY <1>1, Zenon DEF Snapshot
<1>3. cur' = [cur EXCEPT !.probes = @ + 1] => cur'.gen = cur.gen
  BY <1>1, Zenon DEF Snapshot
<1>4. cur.gen <= cur'.gen
  BY <1>2, <1>3, AllowEffect
<1>5. QED
  BY <1>2, <1>4, AllowEffect, Zenon


LEMMA BreakerTypeStep ==
  ASSUME BreakerInv, BreakerNext
  PROVE  BreakerType'
<1> USE DEF BreakerInv
<1>1. ASSUME NEW c \in Callers, allow(c) PROVE BreakerType'
  <2>1. PICK p \in BOOLEAN : ticket' = [ticket EXCEPT ![c] = [gen |-> cur'.gen, probe |-> p]]
    BY <1>1, AllowTicket, Zenon
  <2>2. ticket' \in [Callers -> Ticket]
    BY <1>1, <2>1, AllowTicket, Zenon DEF BreakerType, Ticket
  <2>3. cur' \in Snapshot /\ UNCHANGED <<clock, heard>> /\ stage' = [stage EXCEPT ![c] = "held"]
    BY <1>1, AllowEffect, Zenon
  <2>4. QED
    BY <2>2, <2>3, Zenon DEF BreakerType
<1>2. ASSUME NEW c \in Callers, Recorded(c),
             UNCHANGED clock, cur' \in Snapshot
      PROVE  BreakerType'
  BY <1>2, Zenon DEF BreakerType, Recorded, NoTicket, Nothing, Ticket
<1>3. ASSUME NEW c \in Callers, recordCount(c) PROVE BreakerType'
  BY <1>2, <1>3, CountEffect, Zenon DEF BreakerType
<1>4. ASSUME NEW c \in Callers, recordTrip(c) PROVE BreakerType'
  <2>1. cur' \in Snapshot
    BY <1>4 DEF BreakerType, recordTrip, Swap, Fresh, Snapshot
  <2>2. QED
    BY <1>2, <1>4, <2>1, Zenon DEF recordTrip
<1>5. ASSUME NEW c \in Callers, NEW o \in Outcomes, record(c, o) PROVE BreakerType'
  <2>1. CASE o # "ignored" /\ Current(c)
    <3>1. heard' \in [Callers -> [failed : BOOLEAN, now : Nat]]
      <4>1. PICK f \in BOOLEAN : heard' = [heard EXCEPT ![c] = [failed |-> f, now |-> clock]]
        BY <1>5, <2>1, Zenon DEF record
      <4>2. QED
        BY <4>1, Zenon DEF BreakerType
    <3>2. QED
      BY <1>5, <2>1, <3>1, Zenon DEF BreakerType, record
  <2>2. CASE ~(o # "ignored" /\ Current(c))
    BY <1>2, <1>5, <2>2, Zenon DEF BreakerType, record
  <2>3. QED
    BY <2>1, <2>2, Zenon
<1>6. ASSUME NEW c \in Callers, NEW o \in Outcomes, recordProbe(c, o) PROVE BreakerType'
  <2>1. LiveProbe(c) => c \in Probing
    BY <1>6, Zenon DEF recordProbe, Probing
  <2>2. cur' \in Snapshot
    BY <1>6, <2>1, ProbeNextIs, Zenon DEF BreakerType, recordProbe, Swap
  <2>3. QED
    BY <1>2, <1>6, <2>2, Zenon DEF recordProbe
<1>7. CASE Tick
  BY <1>7 DEF BreakerType, Tick
<1>8. QED
  BY <1>1, <1>3, <1>4, <1>5, <1>6, <1>7, Zenon DEF BreakerNext

LEMMA TicketStep ==
  ASSUME BreakerInv, BreakerNext
  PROVE  TicketInv'
<1> USE DEF BreakerInv
<1>1. ASSUME NEW c \in Callers, allow(c) PROVE TicketInv'
  <2>1. PICK p \in BOOLEAN : ticket' = [ticket EXCEPT ![c] = [gen |-> cur'.gen, probe |-> p]]
    BY <1>1, AllowTicket
  <2>2. cur.gen \in Nat /\ cur'.gen \in Nat /\ cur.gen <= cur'.gen
    BY <1>1, AllowTicket, Zenon
  <2>3. stage' = [stage EXCEPT ![c] = "held"]
    BY <1>1, AllowEffect, Zenon
  <2>4. QED
    BY <2>1, <2>2, <2>3 DEF BreakerType, TicketInv, Ticket
<1>2. ASSUME NEW c \in Callers, Recorded(c), cur' \in Snapshot, cur'.gen >= cur.gen
      PROVE  TicketInv'
  BY <1>2 DEF BreakerType, TicketInv, Recorded, NoTicket, Ticket, Snapshot
<1>3. ASSUME NEW c \in Callers, recordCount(c) PROVE TicketInv'
  <2>1. UNCHANGED cur /\ (Recorded(c) \/ (stage' = [stage EXCEPT ![c] = "trip"] /\ UNCHANGED ticket))
    BY <1>3, CountEffect, Zenon
  <2>2. CASE Recorded(c)
    BY <1>2, <2>1, <2>2 DEF BreakerType, Snapshot
  <2>3. CASE stage' = [stage EXCEPT ![c] = "trip"] /\ UNCHANGED ticket
    BY <1>3, <2>1, <2>3, CountEffect, Zenon DEF BreakerType, TicketInv
  <2>4. QED
    BY <2>1, <2>2, <2>3, Zenon
<1>4. ASSUME NEW c \in Callers, recordTrip(c) PROVE TicketInv'
  BY <1>2, <1>4 DEF BreakerType, recordTrip, Swap, Fresh, Snapshot
<1>5. ASSUME NEW c \in Callers, NEW o \in Outcomes, record(c, o) PROVE TicketInv'
  <2>1. CASE o # "ignored" /\ Current(c)
    BY <1>5, <2>1, Zenon DEF BreakerType, TicketInv, record
  <2>2. CASE ~(o # "ignored" /\ Current(c))
    BY <1>2, <1>5, <2>2 DEF BreakerType, record, Snapshot
  <2>3. QED
    BY <2>1, <2>2, Zenon
<1>6. ASSUME NEW c \in Callers, NEW o \in Outcomes, recordProbe(c, o) PROVE TicketInv'
  <2>1. CASE LiveProbe(c)
    <3>1. c \in Probing
      BY <1>6, <2>1, Zenon DEF recordProbe, Probing
    <3>2. cur' = ProbeNext(o) /\ Recorded(c)
      BY <1>6, <2>1, Zenon DEF recordProbe, Swap
    <3>3. cur' \in Snapshot /\ cur'.gen >= cur.gen
      BY <3>1, <3>2, ProbeNextIs DEF BreakerType, Snapshot
    <3>4. QED
      BY <1>2, <3>2, <3>3, Zenon
  <2>2. CASE ~LiveProbe(c)
    BY <1>2, <1>6, <2>2 DEF BreakerType, recordProbe, Snapshot
  <2>3. QED
    BY <2>1, <2>2, Zenon
<1>7. CASE Tick
  BY <1>7, Zenon DEF TicketInv, Tick
<1>8. QED
  BY <1>1, <1>3, <1>4, <1>5, <1>6, <1>7, Zenon DEF BreakerNext

\* A probe slot is taken by allow, and given back with the probe's result
\* or with the whole generation.
LEMMA ProbesStep ==
  ASSUME BreakerInv, BreakerNext
  PROVE  ProbesAccounted'
<1> USE DEF BreakerInv
<1>0. BreakerType' /\ TicketInv'
  BY BreakerTypeStep, TicketStep, Zenon
<1>1. IsFiniteSet(Probing) /\ Probing \in SUBSET Callers /\ Probing' \in SUBSET Callers
  BY FS_Subset, BreakerSizes, Zenon DEF Probing
<1>2. ASSUME NEW c \in Callers, allow(c), cur'.state = "half-open" PROVE ProbesAccounted'
  <2>1. \A d \in Callers : d # c => stage'[d] = stage[d] /\ ticket'[d] = ticket[d]
    BY <1>2, AllowEffect DEF BreakerType
  <2>2. stage'[c] = "held" /\ ticket'[c].gen = cur'.gen /\ (cur.state # "closed" => ticket'[c].probe)
    BY <1>2, AllowEffect DEF BreakerType
  <2>3. CASE cur.state = "open"
    <3>1. /\ cur'.gen = cur.gen + 1 /\ cur'.probes = 1 /\ cur'.successes = 0
      BY <1>2, <2>3, AllowEffect, Zenon
    <3>2. Probing' = {c}
      <4>1. c \in Probing'
        BY <1>2, <2>2, <2>3, Zenon DEF Probing, LiveProbe
      <4>2. ASSUME NEW d \in Probing' PROVE d = c
        <5>1. d \in Callers /\ ticket'[d].gen = cur'.gen
          BY <4>2, Zenon DEF Probing, LiveProbe
        <5>2. ticket[d].gen <= cur.gen /\ ticket[d].gen \in Nat /\ cur.gen \in Nat
          BY <5>1, Zenon DEF TicketInv, BreakerType, Ticket, Snapshot
        <5>3. QED
          BY <2>1, <3>1, <5>1, <5>2
      <4>3. QED
        BY <4>1, <4>2, Zenon
    <3>3. Cardinality(Probing') = 1
      BY <3>2, FS_Singleton, Zenon
    <3>4. QED
      BY <3>1, <3>3, BreakerSizes DEF ProbesAccounted
  <2>4. CASE cur.state = "half-open"
    <3>1. cur' = [cur EXCEPT !.probes = @ + 1] /\ cur.probes < MaxProbes
      BY <1>2, <2>4, AllowEffect, Zenon
    <3>2. cur'.probes = cur.probes + 1 /\ cur'.gen = cur.gen /\ cur'.successes = cur.successes
      BY <3>1, Zenon DEF BreakerType, Snapshot
    <3>3. c \notin Probing /\ c \in Probing'
      BY <1>2, <2>2, <2>4, AllowEffect, Zenon DEF Probing, LiveProbe
    <3>4. \A d \in Callers : d # c => (d \in Probing' <=> d \in Probing)
      BY <1>2, <2>1, <2>4, <3>2, Zenon DEF Probing, LiveProbe
    <3>5. Cardinality(Probing') = Cardinality(Probing) + 1
      BY <1>1, <3>3, <3>4, CountStep
    <3>6. QED
      <4>1. /\ cur.probes \in Nat /\ cur.successes \in Nat /\ cur.probes < MaxProbes
            /\ cur.probes = Cardinality(Probing) + cur.successes /\ cur.successes < MaxProbes
            /\ Cardinality(Probing) \in Nat
        BY <1>1, <2>4, <3>1, FS_CardinalityType, Zenon DEF ProbesAccounted, BreakerType, Snapshot
      <4>2. QED
        BY <3>2, <3>5, <4>1, BreakerSizes DEF ProbesAccounted
  <2>5. QED
    BY <1>2, <2>3, <2>4, AllowEffect, Zenon
<1>3. ASSUME NEW c \in Callers, UNCHANGED cur, c \notin Probing, Recorded(c) PROVE ProbesAccounted'
  <2>1. Probing' = Probing
    BY <1>3, Zenon DEF Probing, LiveProbe, Recorded, BreakerType
  <2>2. QED
    BY <1>3, <2>1, Zenon DEF ProbesAccounted
<1>4. ASSUME NEW c \in Callers, recordCount(c) PROVE ProbesAccounted'
  <2>1. c \notin Probing /\ UNCHANGED cur
    BY <1>4, CountEffect, Zenon DEF Probing
  <2>2. CASE Recorded(c)
    BY <1>3, <2>1, <2>2, Zenon
  <2>3. CASE stage' = [stage EXCEPT ![c] = "trip"] /\ UNCHANGED ticket
    <3>1. Probing' = Probing
      BY <1>4, <2>1, <2>3, CountEffect, Zenon DEF Probing, LiveProbe, BreakerType
    <3>2. QED
      BY <2>1, <3>1, Zenon DEF ProbesAccounted
  <2>4. QED
    BY <1>4, <2>2, <2>3, CountEffect, Zenon
<1>5. ASSUME NEW c \in Callers, recordTrip(c) PROVE ProbesAccounted'
  <2>1. CASE Current(c)
    BY <1>5, <2>1 DEF recordTrip, Swap, Fresh, ProbesAccounted
  <2>2. CASE ~Current(c)
    <3>1. c \notin Probing /\ UNCHANGED cur /\ Recorded(c)
      BY <1>5, <2>2, Zenon DEF recordTrip, Probing
    <3>2. QED
      BY <1>3, <3>1, Zenon
  <2>3. QED
    BY <2>1, <2>2, Zenon
<1>6. ASSUME NEW c \in Callers, NEW o \in Outcomes, record(c, o) PROVE ProbesAccounted'
  <2>1. c \notin Probing /\ UNCHANGED cur
    BY <1>6, Zenon DEF record, Probing, LiveProbe
  <2>2. CASE o # "ignored" /\ Current(c)
    <3>1. Probing' = Probing
      BY <1>6, <2>1, <2>2, Zenon DEF record, Probing, LiveProbe, BreakerType
    <3>2. QED
      BY <2>1, <3>1, Zenon DEF ProbesAccounted
  <2>3. CASE ~(o # "ignored" /\ Current(c))
    BY <1>3, <1>6, <2>1, <2>3, Zenon DEF record
  <2>4. QED
    BY <2>2, <2>3, Zenon
<1>7. ASSUME NEW c \in Callers, NEW o \in Outcomes, recordProbe(c, o) PROVE ProbesAccounted'
  <2>1. CASE ~LiveProbe(c)
    BY <1>3, <1>7, <2>1, Zenon DEF recordProbe, Probing
  <2>2. CASE LiveProbe(c)
    <3>1. c \in Probing /\ cur' = ProbeNext(o) /\ Recorded(c)
      BY <1>7, <2>2, Zenon DEF recordProbe, Probing, Swap
    <3>2. cur.state = "half-open" /\ cur.probes - 1 \in Nat
      BY <3>1, ProbingCounted, Zenon
    <3>3. c \notin Probing' /\ \A d \in Callers : d # c /\ cur'.state = "half-open" /\ cur'.gen = cur.gen
                                                  => (d \in Probing' <=> d \in Probing)
      BY <3>1, <3>2, Zenon DEF Probing, LiveProbe, Recorded, BreakerType
    <3> DEFINE k == Cardinality(Probing)
    <3>n. /\ k \in Nat /\ cur.probes \in Nat /\ cur.successes \in Nat /\ MaxProbes \in Nat
          /\ cur.probes = k + cur.successes /\ cur.probes <= MaxProbes /\ cur.successes < MaxProbes
      BY <1>1, <3>2, BreakerSizes, FS_CardinalityType DEF ProbesAccounted, BreakerType, Snapshot
    <3>4. CASE cur'.state # "half-open"
      BY <3>4, Zenon DEF ProbesAccounted
    <3>5. CASE cur' = [cur EXCEPT !.probes = @ - 1]
      <4>1. /\ cur'.state = "half-open" /\ cur'.gen = cur.gen
            /\ cur'.probes = cur.probes - 1 /\ cur'.successes = cur.successes
        BY <3>2, <3>5, Zenon DEF BreakerType, Snapshot
      <4>2. Cardinality(Probing') = Cardinality(Probing) - 1
        BY <1>1, <3>1, <3>3, <4>1, CountStep
      <4>3. QED
        BY <3>n, <4>1, <4>2 DEF ProbesAccounted
    <3>6. CASE cur' = [cur EXCEPT !.successes = @ + 1] /\ cur.successes + 1 < MaxProbes
      <4>1. /\ cur'.state = "half-open" /\ cur'.gen = cur.gen
            /\ cur'.probes = cur.probes /\ cur'.successes = cur.successes + 1
        BY <3>2, <3>6, Zenon DEF BreakerType, Snapshot
      <4>2. Cardinality(Probing') = Cardinality(Probing) - 1
        BY <1>1, <3>1, <3>3, <4>1, CountStep
      <4>3. QED
        BY <3>n, <3>6, <4>1, <4>2 DEF ProbesAccounted
    <3>7. QED
      BY <3>1, <3>4, <3>5, <3>6, ProbeNextIs, Zenon
  <2>3. QED
    BY <2>1, <2>2, Zenon
<1>8. CASE Tick
  BY <1>8, Zenon DEF ProbesAccounted, Probing, LiveProbe, Tick
<1>9. ASSUME NEW c \in Callers, allow(c), cur'.state # "half-open" PROVE ProbesAccounted'
  BY <1>9, Zenon DEF ProbesAccounted
<1>10. QED
  BY <1>2, <1>4, <1>5, <1>6, <1>7, <1>8, <1>9, Zenon DEF BreakerNext

LEMMA BreakerStep ==
  BreakerInv /\ [BreakerNext]_breakerVars => BreakerInv'
<1>1. CASE BreakerInv /\ BreakerNext
  BY <1>1, BreakerTypeStep, TicketStep, ProbesStep, Zenon DEF BreakerInv
<1>2. CASE BreakerInv /\ UNCHANGED breakerVars
  BY <1>2, Zenon DEF BreakerInv, BreakerType, TicketInv, ProbesAccounted, Probing, LiveProbe, breakerVars
<1>3. QED
  BY <1>1, <1>2, Zenon

----------------------------------------------------------------------------
(* The callers and the calls of Shutdown.                                  *)

Places == {"idle", "entered", "request", "attempt", "limiter", "queue", "send", "report",
           "recorded", "decide", "sleep", "body", "leave", "signal"}
Kinds == Responses \union Errors \union {"none"}

ClientType ==
  /\ pc \in [Callers -> Places] /\ got \in [Callers -> Kinds]
  /\ closing \in BOOLEAN
  /\ closer \in [Closers -> {"none", "load", "wait", "nil", "gave up"}]

HoldsSlot(c) ==
  \/ pc[c] \in {"send", "body"}
  \/ pc[c] \in {"report", "recorded"} /\ got[c] \in Responses
IsEntered(c) == pc[c] \notin {"idle", "signal"}
Settled(c) == pc[c] \in {"idle", "entered", "leave", "signal"}

Holders == {c \in Callers : HoldsSlot(c)}
Entered == {c \in Callers : IsEntered(c)}

\* The two counters are the sizes of their sets; a Shutdown past its first
\* step has set closing; one that has returned nil leaves every caller
\* outside the requests.
ClientInv ==
  /\ ClientType
  /\ slots = Cardinality(Holders) /\ slots <= MaxConcurrent
  /\ inFlight = Cardinality(Entered)
  /\ \A s \in Closers : closer[s] # "none" => closing
  /\ (\E s \in Closers : closer[s] = "nil") => \A c \in Callers : Settled(c)

HttpInv == BreakerInv /\ ClientInv

\* A counter follows the caller's move into or out of a set.
Follows(n, m, before, after) ==
  \/ m = n /\ (after <=> before)
  \/ m = n + 1 /\ ~before /\ after
  \/ m = n - 1 /\ before /\ ~after

\* What a step of caller c does to the state of the client.
CallerMove(c) ==
  /\ ClientType'
  /\ \A d \in Callers : d # c => pc'[d] = pc[d] /\ got'[d] = got[d]
  /\ Follows(slots, slots', HoldsSlot(c), HoldsSlot(c)')
  /\ slots' = slots \/ slots' = slots - 1 \/ slots < MaxConcurrent
  /\ Follows(inFlight, inFlight', IsEntered(c), IsEntered(c)')
  /\ closing /\ Settled(c) => Settled(c)'
  /\ UNCHANGED <<closing, closer>>

\* Each step of a caller moves the counters with the caller.
LEMMA CallerMoves ==
  ASSUME ClientType, NEW c \in Callers, enter(c) \/ SendStep(c) \/ cancel(c)
  PROVE  CallerMove(c)
<1> USE DEF CallerMove, Follows, ClientType, Places, Kinds, HoldsSlot, IsEntered, Settled,
            Goto, clientVars, Responses, Errors
<1>1. CASE enter(c)
  BY <1>1, Zenon DEF enter
<1>2. CASE enterCheck(c)
  BY <1>2, Zenon DEF enterCheck
<1>3. CASE request(c)
  BY <1>3, Zenon DEF request
<1>4. CASE refused(c)
  BY <1>4, Zenon DEF refused
<1>5. CASE admitted(c)
  BY <1>5, Zenon DEF admitted
<1>6. CASE limited(c)
  BY <1>6, Zenon DEF limited
<1>7. CASE acquire(c)
  BY <1>7, Zenon DEF acquire
<1>8. CASE acquireQueued(c)
  BY <1>8, Zenon DEF acquireQueued
<1>9. CASE bulkheadFull(c)
  BY <1>9, Zenon DEF bulkheadFull
<1>10. ASSUME NEW k \in Answers, failed(c, k) PROVE CallerMove(c)
  BY <1>10, Zenon DEF failed
<1>11. ASSUME NEW k \in Answers, responded(c, k) PROVE CallerMove(c)
  BY <1>11, Zenon DEF responded
<1>12. CASE report(c)
  BY <1>12, Zenon DEF report
<1>13. CASE recording(c)
  BY <1>13, Zenon DEF recording
<1>14. CASE attemptReturns(c)
  BY <1>14, Zenon DEF attemptReturns
<1>15. CASE giveUp(c)
  BY <1>15, Zenon DEF giveUp
<1>16. CASE retry(c)
  BY <1>16, Zenon DEF retry
<1>17. CASE sleep(c)
  BY <1>17, Zenon DEF sleep
<1>18. CASE Close(c)
  BY <1>18, Zenon DEF Close
<1>19. CASE leave(c)
  BY <1>19, Zenon DEF leave
<1>20. CASE signal(c)
  BY <1>20, Zenon DEF signal
<1>21. CASE cancel(c)
  BY <1>21, Zenon DEF cancel
<1>22. QED
  BY <1>1, <1>2, <1>3, <1>4, <1>5, <1>6, <1>7, <1>8, <1>9, <1>10, <1>11, <1>12, <1>13, <1>14, <1>15, <1>16, <1>17, <1>18, <1>19, <1>20, <1>21, Zenon DEF SendStep

\* A step of a caller keeps both counts, and admits nobody once Shutdown has
\* begun.
LEMMA CallerKeeps ==
  ASSUME ClientInv, NEW c \in Callers, CallerMove(c)
  PROVE  ClientInv'
<1>1. /\ Holders \in SUBSET Callers /\ Holders' \in SUBSET Callers
      /\ Entered \in SUBSET Callers /\ Entered' \in SUBSET Callers
  BY Zenon DEF Holders, Entered
<1>2. \A d \in Callers : d # c => (d \in Holders' <=> d \in Holders) /\ (d \in Entered' <=> d \in Entered)
  BY DEF CallerMove, Holders, Entered, HoldsSlot, IsEntered
<1>3. slots' = Cardinality(Holders')
  <2>1. slots = Cardinality(Holders)
    BY Zenon DEF ClientInv
  <2>2. \/ slots' = slots /\ (c \in Holders' <=> c \in Holders)
        \/ slots' = slots + 1 /\ c \notin Holders /\ c \in Holders'
        \/ slots' = slots - 1 /\ c \in Holders /\ c \notin Holders'
    BY Zenon DEF CallerMove, Follows, Holders
  <2>3. QED
    BY <1>1, <1>2, <2>1, <2>2, CountStep
<1>4. inFlight' = Cardinality(Entered')
  <2>1. inFlight = Cardinality(Entered)
    BY Zenon DEF ClientInv
  <2>2. \/ inFlight' = inFlight /\ (c \in Entered' <=> c \in Entered)
        \/ inFlight' = inFlight + 1 /\ c \notin Entered /\ c \in Entered'
        \/ inFlight' = inFlight - 1 /\ c \in Entered /\ c \notin Entered'
    BY Zenon DEF CallerMove, Follows, Entered
  <2>3. QED
    BY <1>1, <1>2, <2>1, <2>2, CountStep
<1>5. slots' <= MaxConcurrent
  <2>1. slots \in Nat
    BY <1>1, FS_Subset, FS_CardinalityType, BreakerSizes, Zenon DEF ClientInv
  <2>2. QED
    BY <2>1, ClientSizes DEF CallerMove, Follows, ClientInv
<1>6. \A s \in Closers : closer'[s] # "none" => closing'
  BY Zenon DEF ClientInv, CallerMove
<1>7. (\E s \in Closers : closer'[s] = "nil") => \A d \in Callers : Settled(d)'
  BY Zenon DEF ClientInv, ClientType, CallerMove, Settled
<1>8. QED
  BY <1>3, <1>4, <1>5, <1>6, <1>7, Zenon DEF ClientInv, CallerMove

\* Shutdown returns nil when the count of the requests in flight is zero:
\* then none is.
LEMMA ShutdownKeeps ==
  ASSUME ClientInv, NEW s \in Closers, Shutdown(s) \/ ShutdownStep(s) \/ shutdownGivesUp(s)
  PROVE  ClientInv'
<1>1. UNCHANGED <<pc, got, slots, inFlight>>
  BY Zenon DEF Shutdown, ShutdownStep, shutdownLoad, shutdownIdle, shutdownGivesUp
<1>2. UNCHANGED <<Holders, Entered>> /\ \A c \in Callers : Settled(c)' <=> Settled(c)
  BY <1>1, Zenon DEF Holders, Entered, HoldsSlot, IsEntered, Settled
<1>3. ClientType' /\ \A r \in Closers : closer'[r] # "none" => closing'
  BY <1>1, Zenon DEF ClientInv, ClientType, Shutdown, ShutdownStep, shutdownLoad, shutdownIdle, shutdownGivesUp,
              ShutdownMoves
<1>4. ASSUME NEW r \in Closers, closer'[r] = "nil", closer[r] # "nil"
      PROVE  \A c \in Callers : Settled(c)
  <2>1. inFlight = 0
    BY <1>4, Zenon DEF ClientInv, ClientType, Shutdown, ShutdownStep, shutdownLoad, shutdownIdle, shutdownGivesUp,
                ShutdownMoves
  <2>2. IsFiniteSet(Entered)
    BY FS_Subset, BreakerSizes, Zenon DEF Entered
  <2>3. Entered = {}
    BY <2>1, <2>2, FS_EmptySet, Zenon DEF ClientInv
  <2>4. QED
    BY <2>3, Zenon DEF Entered, IsEntered, Settled
<1>5. QED
  BY <1>1, <1>2, <1>3, <1>4, Zenon DEF ClientInv

\* A step of the client is a step of the breaker, or leaves it alone.
LEMMA ClientBreaker ==
  ClientType /\ [Next]_vars => [BreakerNext]_breakerVars
<1> SUFFICES ASSUME ClientType, [Next]_vars PROVE [BreakerNext]_breakerVars
  OBVIOUS
<1>1. ASSUME NEW c \in Callers, NEW o \in Outcomes, Report(c, o) PROVE BreakerNext
  BY <1>1, Zenon DEF Report, BreakerNext
<1>2. ASSUME NEW k PROVE Outcome(k) \in Outcomes
  BY Zenon DEF Outcome, Outcomes
<1>3. ASSUME NEW c \in Callers, enter(c) \/ SendStep(c) \/ cancel(c) PROVE [BreakerNext]_breakerVars
  <2>1. CASE admitted(c) \/ recording(c)
    BY <2>1, Zenon DEF admitted, recording, BreakerNext
  <2>2. CASE limited(c) \/ bulkheadFull(c)
    BY <1>1, <2>2 DEF limited, bulkheadFull, Outcomes
  <2>3. CASE report(c)
    BY <1>1, <1>2, <2>3, Zenon DEF report
  <2>4. CASE \/ enter(c) \/ enterCheck(c) \/ request(c) \/ refused(c) \/ acquire(c) \/ acquireQueued(c)
             \/ attemptReturns(c) \/ giveUp(c) \/ retry(c) \/ sleep(c) \/ Close(c) \/ leave(c)
             \/ signal(c) \/ cancel(c)
    BY <2>4, Zenon DEF enter, enterCheck, request, refused, acquire, acquireQueued, attemptReturns, giveUp, retry,
                sleep, Close, leave, signal, cancel
  <2>5. ASSUME NEW k \in Answers, failed(c, k) \/ responded(c, k) PROVE [BreakerNext]_breakerVars
    BY <2>5, Zenon DEF failed, responded
  <2>6. QED
    BY <1>3, <2>1, <2>2, <2>3, <2>4, <2>5, Zenon DEF SendStep
<1>4. ASSUME NEW s \in Closers, Shutdown(s) \/ ShutdownStep(s) \/ shutdownGivesUp(s)
      PROVE  [BreakerNext]_breakerVars
  BY <1>4, Zenon DEF Shutdown, ShutdownStep, shutdownLoad, shutdownIdle, shutdownGivesUp
<1>5. CASE tick
  BY <1>5, Zenon DEF tick, BreakerNext
<1>6. CASE UNCHANGED vars
  BY <1>6 DEF vars
<1>7. QED
  BY <1>3, <1>4, <1>5, <1>6, Zenon DEF Next

LEMMA HttpStep ==
  HttpInv /\ [Next]_vars => HttpInv'
<1> SUFFICES ASSUME HttpInv, [Next]_vars PROVE HttpInv'
  OBVIOUS
<1>1. BreakerInv'
  BY ClientBreaker, BreakerStep, Zenon DEF HttpInv, ClientInv
<1>2. ASSUME NEW c \in Callers, enter(c) \/ SendStep(c) \/ cancel(c) PROVE ClientInv'
  BY <1>2, CallerMoves, CallerKeeps DEF HttpInv, ClientInv
<1>3. ASSUME NEW s \in Closers, Shutdown(s) \/ ShutdownStep(s) \/ shutdownGivesUp(s) PROVE ClientInv'
  BY <1>3, ShutdownKeeps, Zenon DEF HttpInv
<1>4. CASE tick \/ UNCHANGED vars
  <2>1. UNCHANGED <<pc, got, slots, inFlight, closing, closer>>
    BY <1>4, Zenon DEF tick, vars, clientVars
  <2>2. UNCHANGED <<Holders, Entered>> /\ \A c \in Callers : Settled(c)' <=> Settled(c)
    BY <2>1, Zenon DEF Holders, Entered, HoldsSlot, IsEntered, Settled
  <2>3. ClientType'
    BY <2>1, Zenon DEF HttpInv, ClientInv, ClientType
  <2>4. QED
    BY <1>1, <2>1, <2>2, <2>3 DEF HttpInv, ClientInv
<1>5. QED
  BY <1>1, <1>2, <1>3, <1>4, Zenon DEF HttpInv, Next

LEMMA HttpStarts == Init => HttpInv
<1> SUFFICES ASSUME Init PROVE HttpInv
  OBVIOUS
<1>1. BreakerInv
  BY BreakerStarts, Zenon DEF Init
<1>2. Holders = {} /\ Entered = {}
  BY Zenon DEF Init, Holders, Entered, HoldsSlot, IsEntered
<1>3. Cardinality(Holders) = 0 /\ Cardinality(Entered) = 0
  BY <1>2, FS_EmptySet, Zenon
<1>4. ClientType
  BY Zenon DEF Init, ClientType, Places, Kinds
<1>5. QED
  BY <1>1, <1>3, <1>4, ClientSizes DEF Init, HttpInv, ClientInv

LEMMA HttpInvariant == Spec => []HttpInv
  BY HttpStarts, HttpStep, PTL DEF Spec

\* For any number of callers, slots and probes no slot of the bulkhead and no
\* probe of the breaker leaks or is freed twice, and neither limit is passed.
THEOREM SlotsAlwaysAccounted == Spec => []SlotsAccounted
<1>1. HttpInv => SlotsAccounted
  BY DEF HttpInv, BreakerInv, ClientInv, Holders, HoldsSlot, SlotsAccounted
<1>2. QED
  BY <1>1, HttpInvariant, PTL

\* After a Shutdown that returned nil no request is admitted or under way,
\* however many callers and calls of Shutdown there are.
THEOREM ShutdownStaysFinal == Spec => []ShutdownIsFinal
<1>1. HttpInv => ShutdownIsFinal
  <2> SUFFICES ASSUME HttpInv, NEW s \in Closers, closer[s] = "nil"
               PROVE  (\A c \in Callers : Settled(c)) /\ slots = 0
    BY Zenon DEF ShutdownIsFinal, Settled
  <2>1. \A c \in Callers : Settled(c)
    BY Zenon DEF HttpInv, ClientInv
  <2>2. Holders = {}
    BY <2>1, Zenon DEF Holders, HoldsSlot, Settled
  <2>3. QED
    BY <2>1, <2>2, FS_EmptySet, Zenon DEF HttpInv, ClientInv
<1>2. QED
  BY <1>1, HttpInvariant, PTL

----------------------------------------------------------------------------
(* Windows.                                                                *)

Ring == 0..(WindowSlots - 1)
Slot == [idx : Nat, a : Nat, b : Nat]

\* Everything a window holds, in its first count.
Total(w) == SumFunctionOnSet([i \in DOMAIN w |-> w[i].a], DOMAIN w)

LEMMA RingFinite == IsFiniteSet(Ring)
  BY BreakerSizes, FS_Interval DEF Ring

\* A time has a slot.
LEMMA SlotOfTime == ASSUME NEW t \in Nat PROVE t % WindowSlots \in Ring
  BY BreakerSizes DEF Ring

\* The zero ring.
LEMMA NewWindowIs == newWindow \in [Ring -> Slot] /\ Total(newWindow) = 0
<1> DEFINE f == [i \in DOMAIN newWindow |-> newWindow[i].a]
<1>1. newWindow \in [Ring -> Slot] /\ DOMAIN newWindow = Ring
  BY DEF newWindow, Ring, Slot
<1>2. \A i \in Ring : f[i] = 0
  BY <1>1 DEF newWindow, Ring
<1> HIDE DEF f
<1>3. SumFunctionOnSet(f, Ring) = 0
  BY <1>2, RingFinite, SumZero, Zenon
<1>4. QED
  BY <1>1, <1>3, Zenon DEF Total, f

\* add puts into the slot of the time what it adds, and perhaps what was there.
AddedTo(w, v, i, t, x, y) ==
  /\ v \in [Ring -> Slot] /\ i \in Ring /\ v[i].idx = t
  /\ w[i].idx = t => v[i].a = w[i].a + x /\ v[i].b = w[i].b + y
  /\ w[i].idx # t => v[i].a = x /\ v[i].b = y
  /\ \A j \in Ring \ {i} : v[j] = w[j]

LEMMA AddIs ==
  ASSUME NEW w \in [Ring -> Slot], NEW t \in Nat, NEW x \in Nat, NEW y \in Nat
  PROVE  AddedTo(w, add(w, t, x, y), t % WindowSlots, t, x, y)
<1> DEFINE i == t % WindowSlots
           v == add(w, t, x, y)
           s == IF w[i].idx # t THEN [idx |-> t, a |-> 0, b |-> 0] ELSE w[i]
           new == [idx |-> t, a |-> s.a + x, b |-> s.b + y]
<1>1. i \in Ring
  BY SlotOfTime, Zenon
<1>2. v = [w EXCEPT ![i] = new]
  BY Zenon DEF add
<1> HIDE DEF i, v
<1>3. w[i] \in Slot
  BY <1>1, Zenon
<1>4. /\ new \in Slot /\ new.idx = t
      /\ w[i].idx = t => new.a = w[i].a + x /\ new.b = w[i].b + y
      /\ w[i].idx # t => new.a = x /\ new.b = y
  BY <1>3 DEF Slot
<1> HIDE DEF new
<1>5. /\ v \in [Ring -> Slot] /\ v[i] = new
      /\ \A j \in Ring \ {i} : v[j] = w[j]
  BY <1>1, <1>2, <1>4, Zenon
<1>6. AddedTo(w, v, i, t, x, y)
  BY <1>1, <1>4, <1>5, Zenon DEF AddedTo
<1>7. QED
  BY <1>6, Zenon DEF i, v

\* One result more adds at most one to the window, and the sum over the slots
\* inside is at most the total.
LEMMA AddTotal ==
  ASSUME NEW w \in [Ring -> Slot], NEW t \in Nat, NEW y \in Nat
  PROVE  /\ Total(w) \in Nat /\ Total(add(w, t, 1, y)) \in Nat
         /\ Total(add(w, t, 1, y)) =< Total(w) + 1
         /\ sum(add(w, t, 1, y), t).a \in Nat
         /\ sum(add(w, t, 1, y), t).a =< Total(add(w, t, 1, y))
<1> DEFINE v == add(w, t, 1, y)
           i == t % WindowSlots
           f == [j \in DOMAIN w |-> w[j].a]
           g == [j \in DOMAIN v |-> v[j].a]
           inside == {j \in DOMAIN v : t - v[j].idx < WindowSlots}
<1>0. 1 \in Nat /\ AddedTo(w, v, i, t, 1, y)
  BY AddIs
<1> HIDE DEF v, i
<1>1. /\ v \in [Ring -> Slot] /\ i \in Ring
      /\ v[i].a = w[i].a + 1 \/ v[i].a = 1
      /\ \A j \in Ring \ {i} : v[j] = w[j]
  BY <1>0, Zenon DEF AddedTo
<1>2. DOMAIN w = Ring /\ DOMAIN v = Ring /\ inside \in SUBSET Ring
  BY <1>1
<1>3. ASSUME NEW j \in Ring PROVE w[j] \in Slot /\ v[j] \in Slot
  BY <1>1, Zenon
<1>4. ASSUME NEW j \in Ring PROVE f[j] \in Nat /\ g[j] \in Nat
  BY <1>2, <1>3 DEF Slot
<1>5. \A j \in Ring \ {i} : f[j] = g[j]
  BY <1>1, <1>2
<1>6. g[i] =< f[i] + 1
  <2>1. w[i].a \in Nat
    BY <1>1, <1>3 DEF Slot
  <2>2. QED
    BY <1>1, <1>2, <2>1
<1>7. Total(w) = SumFunctionOnSet(f, Ring) /\ Total(v) = SumFunctionOnSet(g, Ring)
  BY <1>2, Zenon DEF Total
<1>8. sum(v, t).a = SumFunctionOnSet(g, inside)
  BY Zenon DEF sum
<1> HIDE DEF f, g, inside
<1>9. SumFunctionOnSet(f, Ring) \in Nat /\ SumFunctionOnSet(g, Ring) \in Nat
  BY <1>4, RingFinite, SumNat, Zenon
<1>10. SumFunctionOnSet(g, Ring) = SumFunctionOnSet(f, Ring) - f[i] + g[i]
  BY <1>1, <1>4, <1>5, RingFinite, SumChanged
<1>11. SumFunctionOnSet(g, inside) \in Nat /\ SumFunctionOnSet(g, inside) =< SumFunctionOnSet(g, Ring)
  <2>1. IsFiniteSet(inside) /\ \A j \in inside : g[j] \in Nat
    BY <1>2, <1>4, RingFinite, FS_Subset, Zenon
  <2>2. QED
    BY <1>2, <1>4, <2>1, RingFinite, SumNat, SumOfPart, Zenon
<1>12. f[i] \in Nat /\ g[i] \in Nat
  BY <1>1, <1>4, Zenon
<1>13. SumFunctionOnSet(g, Ring) =< SumFunctionOnSet(f, Ring) + 1
  BY <1>6, <1>9, <1>10, <1>12
<1>14. QED
  BY <1>7, <1>8, <1>9, <1>11, <1>13, Zenon DEF v

----------------------------------------------------------------------------
(* The breaker's evidence.                                                 *)

\* The window's generation is no newer than the breaker's, and while it is the
\* same one the window holds at most what was counted in it; a result about to
\* trip the breaker of its own generation was preceded by enough others.
EvidenceInv ==
  /\ win \in [Ring -> Slot] /\ winGen \in Nat /\ counted \in Nat
  /\ winGen =< cur.gen
  /\ winGen = cur.gen => Total(win) =< counted
  /\ \A c \in Callers : stage[c] = "trip" /\ ticket[c].gen = cur.gen => counted >= MinRequests

LEMMA EvidenceStarts == BreakerInit => EvidenceInv
<1> SUFFICES ASSUME BreakerInit PROVE EvidenceInv
  OBVIOUS
<1>1. win \in [Ring -> Slot] /\ Total(win) = 0
  BY NewWindowIs, Zenon DEF BreakerInit
<1>2. winGen = 0 /\ counted = 0 /\ cur.gen = 0 /\ \A c \in Callers : stage[c] # "trip"
  BY DEF BreakerInit, Fresh
<1>3. QED
  BY <1>1, <1>2 DEF EvidenceInv

\* A step that leaves the window and moves no caller to the trip keeps it: the
\* breaker stays in its generation, with its count, or begins one that no window
\* and no ticket is of.
LEMMA EvidenceKept ==
  ASSUME BreakerInv, BreakerInv', EvidenceInv, UNCHANGED <<win, winGen>>,
         \/ cur'.gen = cur.gen /\ counted' = counted
         \/ cur'.gen = cur.gen + 1 /\ counted' = 0,
         \A c \in Callers : stage'[c] = "trip" => stage[c] = "trip" /\ ticket'[c] = ticket[c]
  PROVE  EvidenceInv'
<1>1. cur.gen \in Nat
  BY DEF BreakerInv, BreakerType, Snapshot
<1>2. CASE cur'.gen = cur.gen /\ counted' = counted
  <2>1. Total(win') = Total(win)
    BY Zenon
  <2>2. QED
    BY <1>2, <2>1, Zenon DEF EvidenceInv
<1>3. CASE cur'.gen = cur.gen + 1 /\ counted' = 0
  <2>1. ASSUME NEW c \in Callers, stage'[c] = "trip" PROVE ticket'[c].gen # cur'.gen
    <3>1. ticket[c].gen =< cur.gen /\ ticket[c].gen \in Nat
      BY DEF BreakerInv, TicketInv, BreakerType, Ticket
    <3>2. ticket'[c].gen = ticket[c].gen
      BY <2>1, Zenon
    <3>3. QED
      BY <1>1, <1>3, <3>1, <3>2
  <2>2. winGen \in Nat /\ winGen' =< cur'.gen /\ winGen' # cur'.gen
    BY <1>1, <1>3 DEF EvidenceInv
  <2>3. QED
    BY <1>3, <2>1, <2>2 DEF EvidenceInv
<1>4. QED
  BY <1>2, <1>3, Zenon

\* A total that grew by one at most is within a count that grew by one.
LEMMA OneMoreCounted ==
  ASSUME NEW a \in Nat, NEW b \in Nat, NEW n \in Nat, a =< b + 1, b =< n
  PROVE  a =< n + 1
OBVIOUS

\* The evidence only grows within a generation.
LEMMA EvidenceStep ==
  ASSUME BreakerInv, BreakerInv', EvidenceInv, BreakerNext
  PROVE  EvidenceInv'
<1>1. cur \in Snapshot /\ cur.gen \in Nat
  BY DEF BreakerInv, BreakerType, Snapshot
<1>2. ASSUME NEW c \in Callers, Recorded(c)
      PROVE  \A d \in Callers : stage'[d] = "trip" => stage[d] = "trip" /\ ticket'[d] = ticket[d]
  BY <1>2 DEF Recorded, BreakerInv, BreakerType
<1>3. ASSUME NEW c \in Callers, allow(c) PROVE EvidenceInv'
  <2>1. UNCHANGED <<win, winGen>> /\ cur'.gen \in {cur.gen, cur.gen + 1}
    BY <1>1, <1>3, AllowEffect, Zenon DEF allow, Snapshot
  <2>2. cur'.gen = cur.gen => counted' = counted
    BY <1>3, Zenon DEF allow, Swap
  <2>3. cur'.gen # cur.gen => counted' = 0
    BY <1>3, Zenon DEF allow, Swap
  <2>4. \A d \in Callers : stage'[d] = "trip" => stage[d] = "trip" /\ ticket'[d] = ticket[d]
    BY <1>3, AllowEffect DEF BreakerInv, BreakerType
  <2>5. QED
    BY <2>1, <2>2, <2>3, <2>4, EvidenceKept
<1>4. ASSUME NEW c \in Callers, recordTrip(c) PROVE EvidenceInv'
  <2>1. UNCHANGED <<win, winGen>>
    BY <1>4 DEF recordTrip
  <2>2. \/ cur' = cur /\ counted' = counted
        \/ cur'.gen = cur.gen + 1 /\ counted' = 0
    BY <1>1, <1>4 DEF recordTrip, Swap, Fresh
  <2>3. QED
    BY <1>2, <1>4, <2>1, <2>2, EvidenceKept DEF recordTrip
<1>5. ASSUME NEW c \in Callers, NEW o \in Outcomes, recordProbe(c, o) PROVE EvidenceInv'
  <2>1. UNCHANGED <<win, winGen>>
    BY <1>5 DEF recordProbe
  <2>2. \/ cur'.gen = cur.gen /\ counted' = counted
        \/ cur'.gen = cur.gen + 1 /\ counted' = 0
    <3>1. CASE ~LiveProbe(c)
      BY <1>5, <3>1 DEF recordProbe
    <3>2. CASE LiveProbe(c)
      <4>1. c \in Probing
        BY <1>5, <3>2 DEF recordProbe, Probing
      <4>2. ProbeNext(o).gen \in {cur.gen, cur.gen + 1}
        BY <1>1, <4>1, ProbeNextIs DEF Snapshot
      <4>3. cur' = ProbeNext(o) /\ counted' = IF ProbeNext(o).gen = cur.gen THEN counted ELSE 0
        BY <1>5, <3>2 DEF recordProbe, Swap
      <4>4. cur.gen + 1 # cur.gen
        BY <1>1
      <4>5. QED
        BY <4>2, <4>3, <4>4, Zenon
    <3>3. QED
      BY <3>1, <3>2, Zenon
  <2>3. QED
    BY <1>2, <1>5, <2>1, <2>2, EvidenceKept DEF recordProbe
<1>6. ASSUME NEW c \in Callers, NEW o \in Outcomes, record(c, o) PROVE EvidenceInv'
  <2>1. UNCHANGED <<win, winGen, cur, counted>>
    BY <1>6 DEF record
  <2>2. \A d \in Callers : stage'[d] = "trip" => stage[d] = "trip" /\ ticket'[d] = ticket[d]
    BY <1>2, <1>6 DEF record, BreakerInv, BreakerType
  <2>3. QED
    BY <2>1, <2>2, EvidenceKept
<1>7. CASE Tick
  BY <1>7, EvidenceKept DEF Tick
<1>8. ASSUME NEW c \in Callers, recordCount(c) PROVE EvidenceInv'
  <2> DEFINE h == heard[c]
             old == IF winGen = ticket[c].gen THEN win ELSE newWindow
             y == IF h.failed THEN 1 ELSE 0
             w == add(old, h.now, 1, y)
  <2>1. /\ win' = w /\ winGen' = ticket[c].gen /\ UNCHANGED cur
        /\ counted' = IF ticket[c].gen = cur.gen THEN counted + 1 ELSE counted
        /\ Recorded(c) \/ (/\ sum(w, h.now).a >= MinRequests
                           /\ stage' = [stage EXCEPT ![c] = "trip"] /\ UNCHANGED ticket)
    BY <1>8, Zenon DEF recordCount
  <2>2. h.now \in Nat /\ y \in Nat /\ ticket[c].gen \in Nat /\ ticket[c].gen =< cur.gen
    BY DEF BreakerInv, TicketInv, BreakerType, Ticket
  <2>3. old \in [Ring -> Slot] /\ Total(old) \in Nat /\ (ticket[c].gen = cur.gen => Total(old) =< counted)
    <3>1. old \in [Ring -> Slot]
      BY NewWindowIs, Zenon DEF EvidenceInv
    <3>2. CASE winGen = ticket[c].gen
      BY <3>1, <3>2, <2>2, AddTotal DEF EvidenceInv
    <3>3. CASE winGen # ticket[c].gen
      BY <3>1, <3>3, NewWindowIs DEF EvidenceInv
    <3>4. QED
      BY <3>1, <3>2, <3>3
  <2> HIDE DEF old, h, y
  <2>4. /\ w \in [Ring -> Slot] /\ Total(w) \in Nat /\ Total(w) =< Total(old) + 1
        /\ sum(w, h.now).a \in Nat /\ sum(w, h.now).a =< Total(w)
    BY <2>2, <2>3, AddIs, AddTotal, Zenon DEF AddedTo
  <2> HIDE DEF w
  <2>5. counted' \in Nat /\ counted' >= counted /\ counted \in Nat
    <3>1. counted \in Nat
      BY Zenon DEF EvidenceInv
    <3>2. counted' \in {counted, counted + 1}
      BY <2>1, Zenon
    <3>3. QED
      BY <3>1, <3>2
  <2>6. ASSUME winGen' = cur'.gen PROVE Total(win') =< counted'
    <3>1. win' = w /\ ticket[c].gen = cur.gen
      BY <2>1, <2>6, Zenon
    <3>2. Total(old) =< counted /\ counted' = counted + 1
      BY <2>1, <2>3, <3>1, Zenon
    <3>3. Total(win') = Total(w)
      BY <3>1, Zenon
    <3>4. QED
      BY <2>3, <2>4, <2>5, <3>2, <3>3, OneMoreCounted, Zenon
  <2>7. ASSUME NEW d \in Callers, stage'[d] = "trip", ticket'[d].gen = cur'.gen PROVE counted' >= MinRequests
    <3>1. CASE stage[d] = "trip" /\ ticket'[d] = ticket[d]
      BY <2>1, <2>5, <2>7, <3>1, BreakerSizes DEF EvidenceInv
    <3>2. CASE ~(stage[d] = "trip" /\ ticket'[d] = ticket[d])
      <4>1. sum(w, h.now).a >= MinRequests /\ d = c /\ ticket' = ticket
        BY <1>2, <2>1, <2>7, <3>2 DEF BreakerInv, BreakerType
      <4>2. Total(w) =< counted'
        BY <2>1, <2>6, <2>7, <4>1, Zenon
      <4>3. QED
        BY <2>4, <2>5, <4>1, <4>2, BreakerSizes
    <3>3. QED
      BY <3>1, <3>2
  <2>8. QED
    BY <2>1, <2>2, <2>4, <2>5, <2>6, <2>7, Zenon DEF EvidenceInv
<1>9. QED
  BY <1>3, <1>4, <1>5, <1>6, <1>7, <1>8, Zenon DEF BreakerNext

\* Only the swap that trips leaves the closed state.
LEMMA TripStep ==
  ASSUME BreakerInv, EvidenceInv, BreakerNext, cur.state = "closed", cur'.state # "closed"
  PROVE  counted >= MinRequests
<1>1. ASSUME NEW c \in Callers, recordTrip(c) PROVE counted >= MinRequests
  BY <1>1 DEF recordTrip, Current, EvidenceInv
<1>2. ASSUME NEW c \in Callers, allow(c) PROVE FALSE
  BY <1>2, AllowEffect
<1>3. ASSUME NEW c \in Callers, NEW o \in Outcomes, record(c, o) \/ recordProbe(c, o) \/ recordCount(c) PROVE FALSE
  BY <1>3, CountEffect DEF record, recordProbe, LiveProbe
<1>4. ~Tick
  BY DEF Tick
<1>5. QED
  <2>1. "ignored" \in Outcomes
    BY DEF Outcomes
  <2>2. QED
    BY <1>1, <1>2, <1>3, <1>4, <2>1, Zenon DEF BreakerNext

LEMMA EvidenceInvariant == Spec => []EvidenceInv
<1>1. Init => EvidenceInv
  BY EvidenceStarts, Zenon DEF Init
<1>2. EvidenceInv /\ HttpInv /\ HttpInv' /\ [Next]_vars => EvidenceInv'
  <2> SUFFICES ASSUME EvidenceInv, HttpInv, HttpInv', [Next]_vars PROVE EvidenceInv'
    OBVIOUS
  <2>1. BreakerInv /\ BreakerInv' /\ [BreakerNext]_breakerVars
    BY ClientBreaker, Zenon DEF HttpInv, ClientInv
  <2>2. CASE BreakerNext
    BY <2>1, <2>2, EvidenceStep, Zenon
  <2>3. CASE UNCHANGED breakerVars
    BY <2>1, <2>3, EvidenceKept, Zenon DEF breakerVars
  <2>4. QED
    BY <2>1, <2>2, <2>3, Zenon
<1>3. QED
  BY <1>1, <1>2, HttpInvariant, PTL DEF Spec

\* The breaker leaves the closed state only on the results of its own
\* generation, for any number of callers and whatever record of another
\* generation falls between a load, the lock and the swap.
THEOREM TripsOnItsOwnEvidenceProved == Spec => TripsOnItsOwnEvidence
<1>1. HttpInv /\ EvidenceInv /\ [Next]_vars
        => [cur.state = "closed" /\ cur'.state # "closed" => counted >= MinRequests]_breakerVars
  <2> SUFFICES ASSUME HttpInv, EvidenceInv, [Next]_vars, ~(UNCHANGED breakerVars),
                      cur.state = "closed", cur'.state # "closed"
               PROVE  counted >= MinRequests
    OBVIOUS
  <2>1. BreakerInv /\ BreakerNext
    BY ClientBreaker, Zenon DEF HttpInv, ClientInv
  <2>2. QED
    BY <2>1, TripStep, Zenon
<1>2. QED
  BY <1>1, HttpInvariant, EvidenceInvariant, PTL DEF Spec, TripsOnItsOwnEvidence


\* Two times less than a window apart that share a slot are one.
LEMMA SameSlot ==
  ASSUME NEW t \in Nat, NEW u \in Nat, t % WindowSlots = u % WindowSlots,
         t - u < WindowSlots, u - t < WindowSlots
  PROVE  t = u
<1> DEFINE p == t \div WindowSlots
           q == u \div WindowSlots
<1>1. /\ t = WindowSlots * p + (t % WindowSlots) /\ u = WindowSlots * q + (u % WindowSlots)
      /\ p \in Int /\ q \in Int /\ t % WindowSlots \in Int
  BY Division, BreakerSizes
<1> HIDE DEF p, q
<1>2. p - q \in Int /\ t - u = WindowSlots * (p - q)
  BY <1>1, BreakerSizes
<1>3. QED
  BY <1>2, Multiples, BreakerSizes

----------------------------------------------------------------------------
(* The retry budget.                                                       *)

\* The slots of window w hold, in x, what z holds of the times they stand for,
\* and no time inside the window has lost its slot.
Mirrors(w, end, x, z) ==
  /\ \A i \in Ring : x[i] \in Nat /\ (x[i] # 0 => w[i].idx % WindowSlots = i)
  /\ \A i \in Ring : w[i].idx % WindowSlots = i => x[i] = z[w[i].idx]
  /\ \A t \in 0..MaxTime :
       z[t] \in Nat /\ (z[t] # 0 /\ end - t < WindowSlots => w[t % WindowSlots].idx = t)

\* A window with no slot of a time to come.
UpTo(w, end) == end \in 0..MaxTime /\ w \in [Ring -> Slot] /\ \A i \in Ring : w[i].idx =< end

\* So the sum over the slots inside the window is that over its times.
LEMMA SumMirrors ==
  ASSUME NEW x, NEW z, UpTo(budget, clock), Mirrors(budget, clock, x, z)
  PROVE  SumFunctionOnSet(x, {i \in DOMAIN budget : clock - budget[i].idx < WindowSlots})
           = SumFunctionOnSet(z, Recent)
<1> DEFINE inside == {i \in DOMAIN budget : clock - budget[i].idx < WindowSlots}
           f == [i \in Ring |-> IF i \in inside THEN x[i] ELSE 0]
           h == [t \in Recent |-> t % WindowSlots]
           times == {h[t] : t \in Recent}
<1>0. budget \in [Ring -> Slot] /\ clock \in 0..MaxTime /\ \A i \in Ring : budget[i].idx =< clock
  BY DEF UpTo
<1>1. DOMAIN budget = Ring /\ inside \in SUBSET Ring /\ \A i \in Ring : budget[i].idx \in Nat /\ budget[i].idx =< clock
  BY <1>0 DEF Slot
<1>2. \A i \in Ring : f[i] \in Nat /\ x[i] \in Nat
  BY DEF Mirrors
<1>3. ASSUME NEW t \in Recent PROVE t \in 0..MaxTime /\ t \in Nat /\ t =< clock /\ clock - t < WindowSlots
  BY <1>0, <1>3, BreakerSizes DEF Recent
<1>4. ASSUME NEW t \in Recent PROVE h[t] = t % WindowSlots /\ h[t] \in Ring
  BY <1>3, SlotOfTime
<1>5. times \in SUBSET Ring
  BY <1>4
<1>6. IsFiniteSet(Recent)
  <2>1. IsFiniteSet(0..MaxTime)
    BY FS_Interval, BreakerSizes
  <2>2. QED
    BY <2>1, FS_Subset, Zenon DEF Recent
<1>7. ASSUME NEW t \in Recent, NEW u \in Recent, h[t] = h[u] PROVE t = u
  BY <1>0, <1>3, <1>4, <1>7, SameSlot, BreakerSizes
<1>8. ASSUME NEW t \in Recent PROVE f[h[t]] = z[t] /\ z[t] \in Nat
  <2> DEFINE i == t % WindowSlots
  <2>1. z[t] \in Nat /\ i \in Ring /\ h[t] = i
    BY <1>3, <1>4 DEF Mirrors
  <2>2. CASE budget[i].idx = t
    <3>1. i \in inside
      BY <1>1, <1>3, <2>1, <2>2
    <3>2. QED
      BY <2>1, <2>2, <3>1, Zenon DEF Mirrors
  <2>3. CASE budget[i].idx # t
    <3>1. z[t] = 0
      BY <1>3, <2>3 DEF Mirrors
    <3>2. ASSUME i \in inside, x[i] # 0 PROVE FALSE
      <4>1. budget[i].idx % WindowSlots = i
        BY <2>1, <3>2, Zenon DEF Mirrors
      <4>2. clock - budget[i].idx < WindowSlots /\ budget[i].idx =< clock /\ budget[i].idx \in Nat
        BY <1>1, <2>1, <3>2, Zenon
      <4>3. t - budget[i].idx < WindowSlots /\ budget[i].idx - t < WindowSlots
        BY <1>0, <1>3, <4>2, BreakerSizes
      <4>4. QED
        BY <1>3, <2>3, <4>1, <4>2, <4>3, SameSlot, Zenon
    <3>3. f[i] = 0
      BY <2>1, <3>2, Zenon
    <3>4. QED
      BY <2>1, <3>1, <3>3, Zenon
  <2>4. QED
    BY <2>2, <2>3, Zenon
<1>9. ASSUME NEW i \in Ring \ times PROVE f[i] = 0
  <2>1. ASSUME i \in inside, x[i] # 0 PROVE FALSE
    <3> DEFINE t == budget[i].idx
    <3>1. t % WindowSlots = i
      BY <2>1, Zenon DEF Mirrors
    <3>2. clock - t < WindowSlots /\ t =< clock /\ t \in Nat
      BY <1>1, <2>1, Zenon
    <3> HIDE DEF t
    <3>3. t \in Recent
      BY <1>0, <3>2, BreakerSizes DEF Recent
    <3>4. QED
      BY <1>4, <3>1, <3>3, Zenon
  <2>2. QED
    BY <2>1, Zenon
<1>10. \A i \in inside : x[i] = f[i] /\ f[i] \in Nat
  BY <1>1, <1>2
<1>11. \A i \in Ring \ inside : f[i] = 0
  OBVIOUS
<1>12. IsFiniteSet(inside)
  BY <1>1, RingFinite, FS_Subset, Zenon
<1> HIDE DEF inside, f, h
<1>13. SumFunctionOnSet(x, inside) = SumFunctionOnSet(f, inside)
  BY <1>10, <1>12, SumSame, Zenon
<1>14. SumFunctionOnSet(f, inside) = SumFunctionOnSet(f, Ring)
  BY <1>1, <1>2, <1>11, RingFinite, SumOfPart, Zenon
<1>15. SumFunctionOnSet(f, {h[t] : t \in Recent}) = SumFunctionOnSet(z, Recent)
  <2>1. /\ \A t, u \in Recent : h[t] = h[u] => t = u
        /\ \A t \in Recent : f[h[t]] = z[t] /\ z[t] \in Nat
    BY <1>7, <1>8
  <2>2. QED
    BY <1>6, <2>1, SumReindexed
<1> HIDE DEF times
<1>16. SumFunctionOnSet(f, times) = SumFunctionOnSet(f, Ring)
  BY <1>2, <1>5, <1>9, RingFinite, SumOfPart, Zenon
<1>17. QED
  BY <1>13, <1>14, <1>15, <1>16, Zenon DEF inside, times

\* An addition of d to the slot of the time, beside the same one to the history.
Accrues(w, v, end, x, y, z, s, d) ==
  LET i == end % WindowSlots
  IN /\ v \in [Ring -> Slot] /\ v[i].idx = end /\ \A j \in Ring \ {i} : v[j] = w[j]
     /\ y[i] = IF w[i].idx = end THEN x[i] + d ELSE d
     /\ \A j \in Ring \ {i} : y[j] = x[j]
     /\ s[end] = z[end] + d /\ \A t \in (0..MaxTime) \ {end} : s[t] = z[t]

LEMMA MirrorsAdd ==
  ASSUME NEW w, NEW v, NEW end, NEW x, NEW y, NEW z, NEW s, NEW d \in Nat,
         UpTo(w, end), Mirrors(w, end, x, z), Accrues(w, v, end, x, y, z, s, d)
  PROVE  UpTo(v, end) /\ Mirrors(v, end, y, s)
<1> DEFINE i == end % WindowSlots
<1>0. /\ v \in [Ring -> Slot] /\ v[i].idx = end /\ \A j \in Ring \ {i} : v[j] = w[j]
      /\ y[i] = IF w[i].idx = end THEN x[i] + d ELSE d
      /\ \A j \in Ring \ {i} : y[j] = x[j]
      /\ s[end] = z[end] + d /\ \A t \in (0..MaxTime) \ {end} : s[t] = z[t]
  BY Zenon DEF Accrues
<1>1. end \in 0..MaxTime /\ end \in Nat /\ w \in [Ring -> Slot] /\ \A j \in Ring : w[j].idx =< end
  BY BreakerSizes DEF UpTo
<1>2. i \in Ring
  BY <1>1, SlotOfTime
<1>3. \A j \in Ring : w[j].idx \in 0..MaxTime /\ w[j].idx \in Nat
  BY <1>1, BreakerSizes DEF Slot
<1>4. UpTo(v, end)
  BY <1>0, <1>1, <1>2, <1>3 DEF UpTo
<1>5. z[end] \in Nat /\ x[i] \in Nat /\ s[end] \in Nat /\ y[i] \in Nat
  BY <1>0, <1>1, <1>2 DEF Mirrors
<1>6. y[i] = s[end]
  <2>1. CASE w[i].idx = end
    <3>1. x[i] = z[end]
      BY <1>2, <2>1, Zenon DEF Mirrors
    <3>2. QED
      BY <1>0, <2>1, <3>1, Zenon
  <2>2. CASE w[i].idx # end
    <3>1. end - end < WindowSlots
      BY <1>1, BreakerSizes
    <3>2. z[end] = 0
      BY <1>1, <2>2, <3>1, Zenon DEF Mirrors
    <3>3. y[i] = d /\ s[end] = 0 + d
      BY <1>0, <2>2, <3>2, Zenon
    <3>4. QED
      BY <3>3
  <2>3. QED
    BY <2>1, <2>2, Zenon
<1>7. ASSUME NEW j \in Ring
      PROVE  /\ y[j] \in Nat /\ (y[j] # 0 => v[j].idx % WindowSlots = j)
             /\ v[j].idx % WindowSlots = j => y[j] = s[v[j].idx]
  <2>1. CASE j = i
    BY <1>0, <1>5, <1>6, <2>1, Zenon
  <2>2. CASE j # i
    <3>1. y[j] = x[j] /\ v[j] = w[j]
      BY <1>0, <2>2, Zenon
    <3>2. w[j].idx % WindowSlots = j => s[w[j].idx] = z[w[j].idx]
      BY <1>0, <1>3, <2>2, Zenon
    <3>3. /\ x[j] \in Nat /\ (x[j] # 0 => w[j].idx % WindowSlots = j)
          /\ w[j].idx % WindowSlots = j => x[j] = z[w[j].idx]
      BY Zenon DEF Mirrors
    <3>4. QED
      BY <3>1, <3>2, <3>3, Zenon
  <2>3. QED
    BY <2>1, <2>2, Zenon
<1>8. ASSUME NEW t \in 0..MaxTime
      PROVE  s[t] \in Nat /\ (s[t] # 0 /\ end - t < WindowSlots => v[t % WindowSlots].idx = t)
  <2>1. CASE t = end
    BY <1>0, <1>5, <2>1, Zenon
  <2>2. CASE t # end
    <3>1. s[t] = z[t] /\ z[t] \in Nat
      BY <1>0, <2>2, Zenon DEF Mirrors
    <3>2. ASSUME s[t] # 0, end - t < WindowSlots PROVE v[t % WindowSlots].idx = t
      <4> DEFINE j == t % WindowSlots
      <4>0. t \in Nat
        BY BreakerSizes
      <4>1. w[j].idx = t
        BY <3>1, <3>2, Zenon DEF Mirrors
      <4>2. j \in Ring
        BY <4>0, SlotOfTime, Zenon
      <4> HIDE DEF j
      <4>3. t =< end
        BY <1>1, <4>1, <4>2, Zenon
      <4>4. t - end < WindowSlots
        BY <1>1, <4>0, <4>3, BreakerSizes
      <4>5. j # i
        BY <1>1, <2>2, <3>2, <4>0, <4>4, SameSlot, Zenon DEF j
      <4>6. QED
        BY <1>0, <4>1, <4>2, <4>5, Zenon DEF j
    <3>3. QED
      BY <3>1, <3>2, Zenon
  <2>3. QED
    BY <2>1, <2>2, Zenon
<1>9. QED
  BY <1>4, <1>7, <1>8, Zenon DEF Mirrors

\* Time passes.
LEMMA MirrorsTick ==
  ASSUME NEW w, NEW end, UpTo(w, end), end < MaxTime, NEW x, NEW z, Mirrors(w, end, x, z)
  PROVE  UpTo(w, end + 1) /\ Mirrors(w, end + 1, x, z)
<1>1. end \in Nat /\ end + 1 \in 0..MaxTime /\ \A j \in Ring : w[j].idx \in Nat /\ w[j].idx =< end
  BY BreakerSizes DEF UpTo, Slot
<1>2. UpTo(w, end + 1)
  BY <1>1 DEF UpTo
<1>3. ASSUME NEW t \in 0..MaxTime, (end + 1) - t < WindowSlots PROVE end - t < WindowSlots
  BY <1>1, <1>3, BreakerSizes
<1>4. Mirrors(w, end + 1, x, z)
  <2>1. \A t \in 0..MaxTime :
          z[t] \in Nat /\ (z[t] # 0 /\ (end + 1) - t < WindowSlots => w[t % WindowSlots].idx = t)
    BY <1>3, Zenon DEF Mirrors
  <2>2. QED
    BY <2>1, Zenon DEF Mirrors
<1>5. QED
  BY <1>2, <1>4, Zenon

\* What the ring holds of requests and of retries, and what happened of them.
RequestsHeld == [i \in DOMAIN budget |-> budget[i].a]
RetriesHeld == [i \in DOMAIN budget |-> budget[i].b]
Requests == [t \in 0..MaxTime |-> granted[t].a]
Retries == [t \in 0..MaxTime |-> granted[t].b]

\* The ring has lost nothing that happened in the window, and has kept nothing
\* that did not.
BudgetInv ==
  /\ UpTo(budget, clock) /\ granted \in [0..MaxTime -> [a : Nat, b : Nat]]
  /\ Mirrors(budget, clock, RequestsHeld, Requests)
  /\ Mirrors(budget, clock, RetriesHeld, Retries)

LEMMA BudgetStarts == Init => BudgetInv
<1> SUFFICES ASSUME Init PROVE BudgetInv
  OBVIOUS
<1>1. budget = newWindow /\ clock = 0 /\ granted = [t \in 0..MaxTime |-> [a |-> 0, b |-> 0]]
  BY Zenon DEF Init, BreakerInit
<1>2. budget \in [Ring -> Slot] /\ DOMAIN budget = Ring
  BY <1>1, NewWindowIs
<1>3. \A i \in Ring : budget[i] = [idx |-> 0, a |-> 0, b |-> 0]
  BY <1>1 DEF newWindow, Ring
<1>4. UpTo(budget, clock)
  BY <1>1, <1>2, <1>3, BreakerSizes DEF UpTo
<1>5. \A i \in Ring : RequestsHeld[i] = 0 /\ RetriesHeld[i] = 0 /\ budget[i].idx = 0
  BY <1>2, <1>3 DEF RequestsHeld, RetriesHeld
<1>6. \A t \in 0..MaxTime : Requests[t] = 0 /\ Retries[t] = 0
  BY <1>1 DEF Requests, Retries
<1>7. granted \in [0..MaxTime -> [a : Nat, b : Nat]]
  BY <1>1
<1>8. 0 \in 0..MaxTime
  BY BreakerSizes
<1>9. Mirrors(budget, clock, RequestsHeld, Requests) /\ Mirrors(budget, clock, RetriesHeld, Retries)
  BY <1>5, <1>6, <1>8 DEF Mirrors
<1>10. QED
  BY <1>4, <1>7, <1>9, Zenon DEF BudgetInv

\* budget.request and a granted tryRetry.
LEMMA BudgetAdds ==
  ASSUME BudgetInv, NEW p \in Nat, NEW q \in Nat, UNCHANGED clock,
         budget' = add(budget, clock, p, q),
         granted' = [granted EXCEPT ![clock] = [a |-> granted[clock].a + p, b |-> granted[clock].b + q]]
  PROVE  BudgetInv'
<1> DEFINE i == clock % WindowSlots
<1>1. clock \in 0..MaxTime /\ clock \in Nat /\ budget \in [Ring -> Slot] /\ UpTo(budget, clock)
  BY BreakerSizes DEF BudgetInv, UpTo
<1>2. AddedTo(budget, budget', i, clock, p, q)
  BY <1>1, AddIs
<1>3. budget' \in [Ring -> Slot] /\ DOMAIN budget = Ring /\ DOMAIN budget' = Ring
  BY <1>1, <1>2, Zenon DEF AddedTo
<1>4. /\ i \in Ring /\ budget'[i].idx = clock
      /\ \A j \in Ring \ {i} : budget'[j] = budget[j]
  BY <1>2 DEF AddedTo
<1>5. granted \in [0..MaxTime -> [a : Nat, b : Nat]]
  BY DEF BudgetInv
<1>6. granted' \in [0..MaxTime -> [a : Nat, b : Nat]]
  <2>1. [a |-> granted[clock].a + p, b |-> granted[clock].b + q] \in [a : Nat, b : Nat]
    BY <1>1, <1>5
  <2>2. QED
    BY <1>1, <1>5, <2>1, Zenon
<1>7. /\ Requests'[clock] = Requests[clock] + p /\ Retries'[clock] = Retries[clock] + q
      /\ \A t \in (0..MaxTime) \ {clock} : Requests'[t] = Requests[t] /\ Retries'[t] = Retries[t]
  <2>1. /\ granted'[clock] = [a |-> granted[clock].a + p, b |-> granted[clock].b + q]
        /\ \A t \in (0..MaxTime) \ {clock} : granted'[t] = granted[t]
    BY <1>1, <1>5, Zenon
  <2>2. \A t \in 0..MaxTime : /\ Requests[t] = granted[t].a /\ Requests'[t] = granted'[t].a
                             /\ Retries[t] = granted[t].b /\ Retries'[t] = granted'[t].b
    BY Zenon DEF Requests, Retries
  <2>3. QED
    BY <1>1, <2>1, <2>2
<1>8. /\ RequestsHeld'[i] = IF budget[i].idx = clock THEN RequestsHeld[i] + p ELSE p
      /\ RetriesHeld'[i] = IF budget[i].idx = clock THEN RetriesHeld[i] + q ELSE q
  BY <1>2, <1>3, <1>4, Zenon DEF AddedTo, RequestsHeld, RetriesHeld
<1>9. \A j \in Ring \ {i} : RequestsHeld'[j] = RequestsHeld[j] /\ RetriesHeld'[j] = RetriesHeld[j]
  BY <1>3, <1>4 DEF RequestsHeld, RetriesHeld
<1> HIDE DEF i
<1>10. /\ Accrues(budget, budget', clock, RequestsHeld, RequestsHeld', Requests, Requests', p)
       /\ Accrues(budget, budget', clock, RetriesHeld, RetriesHeld', Retries, Retries', q)
  BY <1>3, <1>4, <1>7, <1>8, <1>9, Zenon DEF Accrues, i
<1>11. /\ UpTo(budget', clock) /\ Mirrors(budget', clock, RequestsHeld', Requests')
       /\ Mirrors(budget', clock, RetriesHeld', Retries')
  BY <1>1, <1>10, MirrorsAdd, Zenon DEF BudgetInv
<1>12. QED
  BY <1>6, <1>11 DEF BudgetInv

\* Only request, retry and tick touch the budget, its history or the clock.
LEMMA BudgetAlone ==
  ASSUME [Next]_vars
  PROVE  \/ UNCHANGED <<clock, budget, granted>> \/ tick
         \/ \E c \in Callers : request(c) \/ retry(c)
<1> DEFINE Same == UNCHANGED <<clock, budget, granted>>
<1>1. CASE UNCHANGED vars
  BY <1>1, Zenon DEF vars, breakerVars, clientVars
<1>2. ASSUME NEW c \in Callers, NEW o, Report(c, o) PROVE UNCHANGED clock
  BY <1>2, Zenon DEF Report, record, recordProbe
<1>3. ASSUME NEW c \in Callers, enter(c) \/ cancel(c) PROVE Same
  BY <1>3, Zenon DEF enter, cancel, breakerVars
<1>4. ASSUME NEW c \in Callers, SendStep(c), ~request(c), ~retry(c) PROVE Same
  <2>1. CASE enterCheck(c) \/ refused(c) \/ attemptReturns(c) \/ giveUp(c) \/ sleep(c) \/ Close(c) \/ leave(c) \/ signal(c)
    BY <2>1, Zenon DEF enterCheck, refused, attemptReturns, giveUp, sleep, Close, leave, signal, breakerVars, clientVars
  <2>2. CASE limited(c) \/ bulkheadFull(c) \/ report(c)
    BY <1>2, <2>2, Zenon DEF limited, bulkheadFull, report, clientVars
  <2>3. CASE admitted(c) \/ recording(c)
    BY <2>3, Zenon DEF admitted, allow, recording, recordCount, recordTrip, clientVars
  <2>4. CASE acquire(c) \/ acquireQueued(c) \/ \E k \in Answers : failed(c, k) \/ responded(c, k)
    BY <2>4, Zenon DEF acquire, acquireQueued, failed, responded, breakerVars
  <2>5. QED
    BY <1>4, <2>1, <2>2, <2>3, <2>4, Zenon DEF SendStep
<1>5. ASSUME NEW s \in Closers, Shutdown(s) \/ ShutdownStep(s) \/ shutdownGivesUp(s) PROVE Same
  BY <1>5, Zenon DEF Shutdown, ShutdownStep, shutdownLoad, shutdownIdle, shutdownGivesUp, breakerVars
<1>6. QED
  BY <1>1, <1>3, <1>4, <1>5, Zenon DEF Next

LEMMA BudgetStep == ASSUME BudgetInv, [Next]_vars PROVE BudgetInv'
<1>1. clock \in 0..MaxTime /\ granted \in [0..MaxTime -> [a : Nat, b : Nat]]
  BY DEF BudgetInv, UpTo
<1>2. CASE UNCHANGED <<clock, budget, granted>>
  BY <1>2, Zenon DEF BudgetInv, RequestsHeld, RetriesHeld, Requests, Retries
<1>3. CASE tick
  <2>1. clock < MaxTime /\ clock' = clock + 1 /\ UNCHANGED <<budget, granted>>
    BY <1>3, Zenon DEF tick, Tick, clientVars
  <2>2. UNCHANGED <<RequestsHeld, RetriesHeld, Requests, Retries>>
    BY <2>1, Zenon DEF RequestsHeld, RetriesHeld, Requests, Retries
  <2>3. QED
    BY <2>1, <2>2, MirrorsTick, Zenon DEF BudgetInv
<1>4. ASSUME NEW c \in Callers, request(c) PROVE BudgetInv'
  <2>1. budget' = add(budget, clock, 1, 0) /\ granted' = [granted EXCEPT ![clock].a = @ + 1] /\ UNCHANGED clock
    BY <1>4, Zenon DEF request, breakerVars
  <2>2. granted' = [granted EXCEPT ![clock] = [a |-> granted[clock].a + 1, b |-> granted[clock].b + 0]]
    <3>1. [granted[clock] EXCEPT !.a = @ + 1] = [a |-> granted[clock].a + 1, b |-> granted[clock].b + 0]
      BY <1>1
    <3>2. QED
      BY <2>1, <3>1, Zenon
  <2>3. QED
    BY <2>1, <2>2, BudgetAdds, Zenon
<1>5. ASSUME NEW c \in Callers, retry(c) PROVE BudgetInv'
  <2>1. budget' = add(budget, clock, 0, 1) /\ granted' = [granted EXCEPT ![clock].b = @ + 1] /\ UNCHANGED clock
    BY <1>5, Zenon DEF retry, breakerVars
  <2>2. granted' = [granted EXCEPT ![clock] = [a |-> granted[clock].a + 0, b |-> granted[clock].b + 1]]
    <3>1. [granted[clock] EXCEPT !.b = @ + 1] = [a |-> granted[clock].a + 0, b |-> granted[clock].b + 1]
      BY <1>1
    <3>2. QED
      BY <2>1, <3>1, Zenon
  <2>3. QED
    BY <2>1, <2>2, BudgetAdds, Zenon
<1>6. QED
  BY <1>2, <1>3, <1>4, <1>5, BudgetAlone, Zenon

LEMMA BudgetInvariant == Spec => []BudgetInv
<1>1. BudgetInv /\ [Next]_vars => BudgetInv'
  BY BudgetStep
<1>2. QED
  BY <1>1, BudgetStarts, PTL DEF Spec

\* For any window, ratio and number of callers, a retry is granted only while
\* the retries of the window that ends now are fewer than its requests allow:
\* the ring of slots, however old, never forgets a retry or invents a request.
THEOREM RetriesWithinBudgetProved == Spec => RetriesWithinBudget
<1>1. ASSUME BudgetInv, [Next]_vars, granted'[clock].b > granted[clock].b
      PROVE  RecentRetries * BudgetDen < MinRetries * BudgetDen + BudgetNum * RecentRequests
  <2>1. clock \in 0..MaxTime /\ granted \in [0..MaxTime -> [a : Nat, b : Nat]]
    BY <1>1 DEF BudgetInv, UpTo
  <2>2. \E c \in Callers : retry(c)
    <3>1. ~(UNCHANGED <<clock, budget, granted>>) /\ ~tick
      <4>1. granted[clock].b \in Nat
        BY <2>1
      <4>2. granted' # granted
        BY <1>1, <4>1
      <4>3. QED
        BY <4>2, Zenon DEF tick, clientVars
    <3>2. ASSUME NEW c \in Callers, request(c) PROVE FALSE
      BY <1>1, <2>1, <3>2 DEF request
    <3>3. QED
      BY <1>1, <3>1, <3>2, BudgetAlone, Zenon
  <2>3. BudgetLeft
    BY <2>2, Zenon DEF retry
  <2>4. sum(budget, clock).a = RecentRequests /\ sum(budget, clock).b = RecentRetries
    <3>1. RecentRequests = SumFunctionOnSet(Requests, Recent) /\ RecentRetries = SumFunctionOnSet(Retries, Recent)
      BY Zenon DEF RecentRequests, RecentRetries, Requests, Retries
    <3>2. sum(budget, clock).a
            = SumFunctionOnSet(RequestsHeld, {i \in DOMAIN budget : clock - budget[i].idx < WindowSlots})
      BY DEF sum, RequestsHeld
    <3>3. sum(budget, clock).b
            = SumFunctionOnSet(RetriesHeld, {i \in DOMAIN budget : clock - budget[i].idx < WindowSlots})
      BY DEF sum, RetriesHeld
    <3>4. QED
      BY <1>1, <3>1, <3>2, <3>3, SumMirrors, Zenon DEF BudgetInv
  <2>5. QED
    BY <2>3, <2>4, Zenon DEF BudgetLeft
<1>2. BudgetInv /\ [Next]_vars
        => [granted'[clock].b > granted[clock].b
              => RecentRetries * BudgetDen < MinRetries * BudgetDen + BudgetNum * RecentRequests]_vars
  BY <1>1, Zenon
<1>3. QED
  BY <1>2, BudgetInvariant, PTL DEF Spec, RetriesWithinBudget
====
