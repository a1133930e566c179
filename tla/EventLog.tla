------------------------------ MODULE EventLog ------------------------------
(***************************************************************************)
(* The event log and what is made from it: the projection a context        *)
(* caches, the projection files in the loop directory, the check of the    *)
(* hash chain, and the replay that compares (EventStore.append,            *)
(* CommandHandler, RunEventContext.export_projections and                  *)
(* projection_replay).  A tick, the refiner's batch and a finalize each    *)
(* have a context of their own; two are open at once when a tick outlives  *)
(* its lease (module WriteLease).  The command "replay" takes no lease.    *)
(*                                                                         *)
(* An event is what it says and the event it was chained to; its number    *)
(* stands for its hash.  run_projection.json stands for all that an export *)
(* writes: the other projections and the mirrors.                          *)
(***************************************************************************)
EXTENDS Integers, Sequences, SequencesExt

CONSTANTS
  LogContexts,   \* contexts that may be open
  MaxEvents,     \* bound: events ever appended
  MaxPowerLoss   \* bound: power failures

ASSUME EventLogAssumption == MaxEvents \in Nat /\ MaxPowerLoss \in Nat

VARIABLES
  elog,       \* events.db
  fresh,      \* hashes that were used
  ctx,        \* the contexts: what they do and the log they have reduced
  runFile,    \* run_projection.json: the log it was made from
  replay,     \* the command: what it does and the log it has read
  outages

logVars == <<elog, fresh, ctx, runFile, replay, outages>>

Closed == [at |-> "closed", cache |-> <<>>]
Terminal(l) == \E i \in DOMAIN l : l[i].type \in {"ended", "faulted"}

\* verify_hash_chain
Chained(l) ==
  \A i \in DOMAIN l : l[i].prev = IF i = 1 THEN 0 ELSE l[i - 1].hash

EventLogInit ==
  /\ elog = <<>> /\ fresh = 0
  /\ ctx = [c \in LogContexts |-> Closed]
  /\ runFile = <<>>
  /\ replay = Closed
  /\ outages = 0

\* Mutant of TailHash: the last event the context knows.
CachedTail(c) == IF ctx[c].cache = <<>> THEN 0 ELSE Last(ctx[c].cache).hash

\* _append_once reads the tail inside its transaction.
TailHash(c) == IF elog = <<>> THEN 0 ELSE Last(elog).hash

\* CommandHandler._append: the cached projection takes this event in,
\* whatever else was appended since.
AppendBy(c, type, at) ==
  /\ fresh < MaxEvents
  /\ fresh' = fresh + 1
  /\ LET e == [type |-> type, prev |-> TailHash(c), hash |-> fresh + 1, by |-> c]
     IN  /\ elog' = Append(elog, e)
         /\ ctx' = [ctx EXCEPT ![c] = [at |-> at, cache |-> Append(@.cache, e)]]
  /\ UNCHANGED <<runFile, replay, outages>>

\* RunEventContext.acquire and bootstrap_if_needed: the chain is verified and
\* the log is reduced once.  A broken chain would fault the run; ChainIntact
\* says there is none.
OpenContext(c) ==
  /\ ctx[c].at = "closed" /\ Chained(elog)
  /\ ctx' = [ctx EXCEPT ![c] = [at |-> "open", cache |-> elog]]
  /\ UNCHANGED <<elog, fresh, runFile, replay, outages>>

\* Any command; events that only account are appended to an ended run too.
AppendEvent(c) ==
  /\ ctx[c].at = "open"
  /\ \E type \in {"work", "ended"} :
       /\ type = "ended" => ~Terminal(ctx[c].cache)
       /\ AppendBy(c, type, "open")

\* Mutant of Rebuild: the cache is exported.
Unrebuilt(c) == ctx[c].cache

\* projection(force_rebuild=True)
Rebuild(c) == elog

\* export_projections: the log is reduced anew ...
ExportRebuild(c) ==
  /\ ctx[c].at = "open"
  /\ ctx' = [ctx EXCEPT ![c] = [at |-> "run", cache |-> Rebuild(c)]]
  /\ UNCHANGED <<elog, fresh, runFile, replay, outages>>

\* ... written ...
ExportRun(c) ==
  /\ ctx[c].at = "run"
  /\ runFile' = ctx[c].cache
  /\ ctx' = [ctx EXCEPT ![c].at = "compare"]
  /\ UNCHANGED <<elog, fresh, replay, outages>>

\* ... and compared with another replay of the log.
Compare(c) ==
  /\ ctx[c].at = "compare"
  /\ ctx' = [ctx EXCEPT ![c].at =
       IF elog # ctx[c].cache /\ ~Terminal(ctx[c].cache) THEN "drift" ELSE "open"]
  /\ UNCHANGED <<elog, fresh, runFile, replay, outages>>

FaultDrift(c) == ctx[c].at = "drift" /\ AppendBy(c, "faulted", "open")

\* Release and close, an error or the death of the process.
CloseContext(c) ==
  /\ ctx[c].at # "closed"
  /\ ctx' = [ctx EXCEPT ![c] = Closed]
  /\ UNCHANGED <<elog, fresh, runFile, replay, outages>>

\* replay_workdir, by whoever runs the command.
ReplayRead ==
  /\ replay.at = "closed"
  /\ replay' = [at |-> "run", cache |-> elog]
  /\ UNCHANGED <<elog, fresh, ctx, runFile, outages>>

ReplayRun ==
  /\ replay.at = "run"
  /\ runFile' = replay.cache
  /\ replay' = Closed
  /\ UNCHANGED <<elog, fresh, ctx, outages>>

\* The log is written with synchronous=NORMAL: a power failure loses the last
\* commits, of files already exported too.
PowerLoss ==
  /\ outages < MaxPowerLoss
  /\ outages' = outages + 1
  /\ \E n \in 0..Len(elog) : elog' = SubSeq(elog, 1, n)
  /\ ctx' = [c \in LogContexts |-> Closed]
  /\ replay' = Closed
  /\ UNCHANGED <<fresh, runFile>>

EventLogNext ==
  \/ \E c \in LogContexts :
       \/ OpenContext(c) \/ AppendEvent(c) \/ ExportRebuild(c)
       \/ ExportRun(c) \/ Compare(c) \/ FaultDrift(c)
       \/ CloseContext(c)
  \/ ReplayRead \/ ReplayRun \/ PowerLoss

EventLogSpec == EventLogInit /\ [][EventLogNext]_logVars

-----------------------------------------------------------------------------
EventLogTypeOK ==
  /\ fresh \in 0..MaxEvents /\ outages \in 0..MaxPowerLoss
  /\ \A l \in {elog, runFile} : \A i \in DOMAIN l :
       l[i].hash \in 1..fresh /\ l[i].type \in {"work", "ended", "faulted"}
  /\ \A c \in LogContexts : ctx[c].at \in
       {"closed", "open", "run", "compare", "drift"}
  /\ replay.at \in {"closed", "run"}

\* The chain is intact when contexts with caches of different ages append in
\* turns and after a power failure: "prev_hash mismatch" is never raised of a
\* log nobody tampered with (EventStore.verify_hash_chain).
ChainIntact == Chained(elog)

\* A run is faulted for projection_drift only if another context appended to
\* the log while this one exported it.  A context that was left behind by
\* another one before its export is no reason, nor is a replay, nor a file
\* that a power failure left ahead of the log (export_projections).
FaultedByRace ==
  \A c \in LogContexts : ctx[c].at = "drift" =>
    /\ IsPrefix(ctx[c].cache, elog)
    /\ \E i \in Len(ctx[c].cache) + 1..Len(elog) : elog[i].by # c

\* What was exported is a log that was there: of every event it counts, all
\* earlier ones are counted (CommandHandler.export_projections rebuilds, for
\* the cache of a context that was overtaken skips events).
ExportedWhole == Chained(runFile)
=============================================================================
