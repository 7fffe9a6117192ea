----------------------------- MODULE TaskCache -----------------------------
(***************************************************************************)
(* One task behind the read cache, in several processes of the tasks       *)
(* service: the handlers of internal/api (create, get, update, delete) as  *)
(* far as they touch the store and the cache, internal/cache, and          *)
(* cache-aside with tombstones and shared loads (libs/valkey).  A change   *)
(* of the store is one step, its commit (TaskStore has the transaction).   *)
(* A request that fails before it commits changes nothing and is left out. *)
(***************************************************************************)
EXTENDS Integers

CONSTANTS Procs, Readers, Writers,
          MaxFaults  \* bound: failed commands, crashes

None == -1  \* the key is not in Valkey
Tomb == -2  \* the key holds the tombstone

VARIABLES
  row,     \* the committed task: its version, 0 before it is created; live or deleted
  cached,  \* the key in Valkey: None, Tomb or the version of the cached task
  flight,  \* the shared load of each process: idle, or "load", or "fill" of got
  pc,      \* readers: idle, miss, wait, done; writers: idle, warm, invalidate, done
  proc,    \* the process of each request under way
  late,    \* a fill that timed out and that Valkey may still carry out, or None
  excused, \* history: see NoSilentStaleness
  faults   \* bound counter

cacheVars == <<row, cached, flight, pc, proc, late, excused, faults>>

Requests == Readers \union Writers
Idle == [stage |-> "idle", got |-> 0]

CacheInit ==
  /\ \/ row = [ver |-> 0, live |-> FALSE] /\ cached = None
     \/ row = [ver |-> 1, live |-> TRUE] /\ cached \in {None, 1}
  /\ late = None
  /\ flight = [p \in Procs |-> Idle]
  /\ pc = [r \in Requests |-> "idle"]
  /\ proc \in [Requests -> Procs]
  /\ excused = FALSE /\ faults = 0

Goto(r, from, to) == pc[r] = from /\ pc' = [pc EXCEPT ![r] = to]
Fault == faults < MaxFaults /\ faults' = faults + 1

\* A version that is not, or no longer, the task's.
Old(v) == v > 0 /\ (v < row.ver \/ ~row.live)

----------------------------------------------------------------------------
\* get, Aside: the lookup is a hit ...
GetHit(r) ==
  /\ Goto(r, "idle", "done") /\ cached > 0
  /\ UNCHANGED <<row, cached, flight, proc, late, excused, faults>>

\* ... or a miss, as a tombstone is, or fails, which counts as one.
GetMiss(r) ==
  /\ Goto(r, "idle", "miss")
  /\ cached > 0 => faults < MaxFaults
  /\ faults' = IF cached > 0 THEN faults + 1 ELSE faults
  /\ UNCHANGED <<row, cached, flight, proc, late, excused>>

\* DoChan: the request starts its process's load, or joins the one under way.
Join(r) ==
  /\ Goto(r, "miss", "wait")
  /\ flight' = [flight EXCEPT ![proc[r]] = IF @ = Idle THEN [stage |-> "load", got |-> 0] ELSE @]
  /\ UNCHANGED <<row, cached, proc, late, excused, faults>>

\* The waiting requests of process p have their answer.
Answer(p) ==
  /\ pc' = [r \in Requests |-> IF pc[r] = "wait" /\ proc[r] = p THEN "done" ELSE pc[r]]
  /\ flight' = [flight EXCEPT ![p] = Idle]

\* The load: Store.Get.  A task that is not there is not cached.
Load(p) ==
  /\ flight[p].stage = "load"
  /\ IF row.live THEN /\ flight' = [flight EXCEPT ![p] = [stage |-> "fill", got |-> row.ver]]
                      /\ UNCHANGED pc
                 ELSE Answer(p)
  /\ UNCHANGED <<row, cached, proc, late, excused, faults>>

\* SetNX
SetNX(v) == cached' = IF cached = None THEN v ELSE cached

\* Code that fills with a plain SET.
FillMutant(p) ==
  /\ flight[p].stage = "fill"
  /\ cached' = flight[p].got
  /\ Answer(p)
  /\ UNCHANGED <<row, proc, late, excused, faults>>

\* The fill, and the answer.
Fill(p) ==
  /\ flight[p].stage = "fill"
  /\ SetNX(flight[p].got)
  /\ Answer(p)
  /\ UNCHANGED <<row, proc, late, excused, faults>>

\* The fill fails; Valkey may carry it out later.
FillFails(p) ==
  /\ flight[p].stage = "fill" /\ Fault
  /\ late' \in {late, flight[p].got}
  /\ Answer(p)
  /\ UNCHANGED <<row, cached, proc, excused>>

LateFill ==
  /\ late # None /\ SetNX(late) /\ late' = None
  /\ UNCHANGED <<row, flight, pc, proc, excused, faults>>

\* The load fails: nothing is cached, and the waiting requests fail.
LoadFails(p) ==
  /\ flight[p].stage = "load" /\ Fault /\ Answer(p)
  /\ UNCHANGED <<row, cached, proc, late, excused>>

\* A reader's context ends; the load goes on.
GiveUp(r) ==
  /\ Goto(r, "wait", "done")
  /\ UNCHANGED <<row, cached, flight, proc, late, excused, faults>>

----------------------------------------------------------------------------
\* create has committed; Warm follows.
Create(w) ==
  /\ Goto(w, "idle", "warm") /\ row.ver = 0
  /\ row' = [ver |-> 1, live |-> TRUE]
  /\ UNCHANGED <<cached, flight, proc, late, excused, faults>>

\* Warm: a fill, which may fail.
Warm(w) ==
  /\ Goto(w, "warm", "done")
  /\ \/ SetNX(1) /\ UNCHANGED faults
     \/ Fault /\ UNCHANGED cached
  /\ UNCHANGED <<row, flight, proc, late, excused>>

\* update or delete has committed; invalidate follows.
Change(w) ==
  /\ Goto(w, "idle", "invalidate") /\ row.live
  /\ \E live \in BOOLEAN : row' = [ver |-> row.ver + 1, live |-> live]
  /\ UNCHANGED <<cached, flight, proc, late, excused, faults>>

\* Invalidate sets the tombstone, whatever the key holds ...
Invalidate(w) ==
  /\ Goto(w, "invalidate", "done")
  /\ cached' = Tomb /\ excused' = FALSE
  /\ UNCHANGED <<row, flight, proc, late, faults>>

\* ... or fails, which is only logged.
InvalidateFails(w) ==
  /\ Goto(w, "invalidate", "done") /\ Fault
  /\ excused' = TRUE
  /\ UNCHANGED <<row, cached, flight, proc, late>>

\* The key expires (external: Valkey's clock, or an eviction).
Expire ==
  /\ cached # None /\ cached' = None
  /\ excused' = \/ excused
                \/ cached = Tomb /\ \/ \E p \in Procs : Old(flight[p].got)
                                    \/ \E w \in Writers : pc[w] = "warm" /\ Old(1)
                                    \/ Old(late)
  /\ UNCHANGED <<row, flight, pc, proc, late, faults>>

\* A process dies with its requests.
ProcessDies(p) ==
  /\ Fault
  /\ flight' = [flight EXCEPT ![p] = Idle]
  /\ pc' = [r \in Requests |-> IF proc[r] = p /\ pc[r] # "idle" THEN "done" ELSE pc[r]]
  /\ excused' = (excused \/ \E w \in Writers : proc[w] = p /\ pc[w] = "invalidate")
  /\ UNCHANGED <<row, cached, proc, late>>

CacheNext ==
  \/ \E r \in Readers : GetHit(r) \/ GetMiss(r) \/ Join(r) \/ GiveUp(r)
  \/ \E w \in Writers : Create(w) \/ Warm(w) \/ Change(w) \/ Invalidate(w) \/ InvalidateFails(w)
  \/ \E p \in Procs : Load(p) \/ LoadFails(p) \/ Fill(p) \/ FillFails(p) \/ ProcessDies(p)
  \/ LateFill \/ Expire

CacheSpec == CacheInit /\ [][CacheNext]_cacheVars

----------------------------------------------------------------------------
\* The cache holds a version that is no longer the task's only while the
\* request that changed it has yet to invalidate, unless that invalidation
\* failed or died with its process, or a tombstone expired before a fill that
\* had loaded an older version came.  In particular a fill or a Warm that
\* raced a change never brings the old task back (aside.go Aside, Tombstone;
\* cache.go Warm; api.go update, delete).
NoSilentStaleness ==
  Old(cached) => excused \/ \E w \in Writers : pc[w] = "invalidate"
=============================================================================
