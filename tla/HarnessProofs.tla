---------------------------- MODULE HarnessProofs ----------------------------
(***************************************************************************)
(* Proofs about the parts of the harness around the ticks: the event log   *)
(* (EventLog), the agent processes (AgentGroups), the plugins (Plugins), the*)
(* closing of a run (Closure) and its task tree (TaskTree).  Each part is a*)
(* specification of its own.                                               *)
(***************************************************************************)
EXTENDS EventLog, AgentGroups, Plugins, Closure, TaskTree,
        SequenceTheorems, FiniteSetTheorems, WellFoundedInduction, TLAPS

------------------------------------------------------------------------------
(***************************************************************************)
(* Proofs about EventLog for any number of contexts, events and power      *)
(* failures: the log's chain, what an export writes, and what a drift      *)
(* means.                                                                  *)
(*                                                                         *)
(* While a context exports, what it reduced is a prefix of the log and     *)
(* what came after is not its own; a context that does not export may hold *)
(* anything, a projection that skips events too.                           *)
(***************************************************************************)

USE EventLogAssumption

Event == [type : {"work", "ended", "faulted"}, prev : Nat, hash : Nat, by : LogContexts]

Exporting(c) == ctx[c].at \in {"run", "compare", "drift"}

\* IsPrefix by its elements.
Begins(s, t) == Len(s) <= Len(t) /\ \A i \in 1..Len(s) : s[i] = t[i]

\* What a context that exports has reduced.
ExportOf(c) ==
  /\ Chained(ctx[c].cache)
  /\ Begins(ctx[c].cache, elog)
  /\ \A i \in Len(ctx[c].cache) + 1..Len(elog) : elog[i].by # c
  /\ ctx[c].at = "drift" => Len(ctx[c].cache) < Len(elog)

LogTyped ==
  /\ elog \in Seq(Event) /\ runFile \in Seq(Event) /\ fresh \in Nat
  /\ ctx \in [LogContexts -> [at : {"closed", "open", "run", "compare", "drift"},
                              cache : Seq(Event)]]
  /\ replay \in [at : {"closed", "run"}, cache : Seq(Event)]

LogInv ==
  /\ LogTyped
  /\ Chained(elog) /\ Chained(runFile) /\ Chained(replay.cache)
  /\ \A c \in LogContexts : Exporting(c) => ExportOf(c)

-----------------------------------------------------------------------------
LEMMA EmptyChained == Chained(<<>>) /\ <<>> \in Seq(Event)
  BY DEF Chained

\* The link an append makes.
LEMMA AppendChained ==
  ASSUME NEW l \in Seq(Event), NEW e \in Event, Chained(l),
         e.prev = IF l = <<>> THEN 0 ELSE Last(l).hash
  PROVE  Chained(Append(l, e))
<1>1. Len(Append(l, e)) = Len(l) + 1 /\ DOMAIN l = 1..Len(l)
      /\ DOMAIN Append(l, e) = 1..Len(l) + 1 /\ Len(l) \in Nat
  OBVIOUS
<1>2. \A i \in 1..Len(l) : Append(l, e)[i] = l[i]
  OBVIOUS
<1>3. Append(l, e)[Len(l) + 1] = e
  OBVIOUS
<1>4. CASE l = <<>>
  <2>1. Len(l) = 0
    BY <1>4
  <2>2. QED
    BY <1>1, <1>3, <1>4, <2>1 DEF Chained
<1>5. CASE l # <<>>
  <2>1. Len(l) >= 1 /\ Last(l) = l[Len(l)]
    BY <1>1, <1>5 DEF Last
  <2>2. \A i \in 1..Len(l) : i # 1 => i - 1 \in 1..Len(l)
    BY <1>1
  <2>3. \A i \in 1..Len(l) : l[i].prev = IF i = 1 THEN 0 ELSE l[i - 1].hash
    BY <1>1 DEF Chained
  <2>4. \A i \in 1..Len(l) :
          Append(l, e)[i].prev = IF i = 1 THEN 0 ELSE Append(l, e)[i - 1].hash
    BY <1>2, <2>2, <2>3
  <2>5. e.prev = Append(l, e)[Len(l)].hash
    BY <1>1, <1>2, <1>5, <2>1
  <2>6. QED
    BY <1>1, <1>3, <2>1, <2>4, <2>5 DEF Chained
<1>6. QED
  BY <1>4, <1>5

\* A power failure leaves a beginning of the log.
LEMMA CutChained ==
  ASSUME NEW l \in Seq(Event), NEW n \in 0..Len(l), Chained(l)
  PROVE  SubSeq(l, 1, n) \in Seq(Event) /\ Chained(SubSeq(l, 1, n))
<1>1. /\ SubSeq(l, 1, n) \in Seq(Event) /\ Len(SubSeq(l, 1, n)) = n
      /\ \A i \in 1..n : SubSeq(l, 1, n)[i] = l[i]
  OBVIOUS
<1>2. \A i \in 1..n : i \in DOMAIN l /\ (i # 1 => i - 1 \in 1..n)
  OBVIOUS
<1>3. DOMAIN SubSeq(l, 1, n) = 1..n
  BY <1>1
<1>4. QED
  BY <1>1, <1>2, <1>3 DEF Chained

\* What an append of another context leaves true of an export.
LEMMA AppendedExport ==
  ASSUME LogTyped, LogTyped', NEW c \in LogContexts, NEW e \in Event, e.by # c,
         elog' = Append(elog, e), ctx'[c] = ctx[c], ExportOf(c)
  PROVE  ExportOf(c)'
<1>1. /\ Len(elog') = Len(elog) + 1 /\ elog'[Len(elog) + 1] = e
      /\ \A i \in 1..Len(elog) : elog'[i] = elog[i]
      /\ Len(elog) \in Nat /\ Len(ctx[c].cache) \in Nat
  BY DEF LogTyped
<1>2. Len(ctx[c].cache) <= Len(elog)
  BY DEF ExportOf, Begins
<1>3. \A i \in Len(ctx[c].cache) + 1..Len(elog') : elog'[i].by # c
  BY <1>1, <1>2 DEF ExportOf
<1>4. Begins(ctx[c].cache, elog')
  BY <1>1, <1>2 DEF ExportOf, Begins
<1>5. QED
  BY <1>1, <1>2, <1>3, <1>4 DEF ExportOf

\* An append, of a command or of the fault for a drift.
LEMMA AppendInv ==
  ASSUME LogInv, NEW c \in LogContexts, NEW type \in {"work", "ended", "faulted"},
         AppendBy(c, type, "open")
  PROVE  LogInv'
<1> DEFINE e == [type |-> type, prev |-> TailHash(c), hash |-> fresh + 1, by |-> c]
<1>1. /\ elog' = Append(elog, e) /\ fresh' = fresh + 1
      /\ ctx' = [ctx EXCEPT ![c] = [at |-> "open", cache |-> Append(ctx[c].cache, e)]]
      /\ UNCHANGED <<runFile, replay>>
  BY DEF AppendBy
<1>2. TailHash(c) = (IF elog = <<>> THEN 0 ELSE Last(elog).hash) /\ TailHash(c) \in Nat
  <2>1. CASE elog = <<>>
    BY <2>1 DEF TailHash
  <2>2. CASE elog # <<>>
    <3>1. Last(elog) \in Event
      BY <2>2 DEF LogInv, LogTyped, Last
    <3>2. QED
      BY <2>2, <3>1 DEF TailHash, Event
  <2>3. QED
    BY <2>1, <2>2
<1>3. e \in Event
  BY <1>2 DEF Event, LogInv, LogTyped
<1>4. elog' \in Seq(Event) /\ Append(ctx[c].cache, e) \in Seq(Event)
  BY <1>1, <1>3 DEF LogInv, LogTyped
<1>5. LogTyped'
  BY <1>1, <1>4 DEF LogInv, LogTyped
<1>6. Chained(elog')
  BY <1>1, <1>2, <1>3, AppendChained DEF LogInv, LogTyped
<1>7. ASSUME NEW d \in LogContexts, Exporting(d)'
      PROVE  ExportOf(d)'
  <2>1. d # c /\ ctx'[d] = ctx[d]
    BY <1>1, <1>7 DEF Exporting, LogInv, LogTyped
  <2>2. Exporting(d)
    BY <1>7, <2>1 DEF Exporting
  <2>3. e.by # d
    BY <2>1
  <2>4. QED
    BY <1>1, <1>3, <1>5, <2>1, <2>2, <2>3, AppendedExport DEF LogInv
<1>8. QED
  BY <1>1, <1>5, <1>6, <1>7 DEF LogInv

\* The steps that leave the log alone.
LEMMA ReaderInv ==
  ASSUME LogInv, NEW c \in LogContexts,
         OpenContext(c) \/ ExportRebuild(c) \/ ExportRun(c) \/ Compare(c) \/ CloseContext(c)
  PROVE  LogInv'
<1>1. PICK r \in [at : {"closed", "open", "run", "compare", "drift"}, cache : Seq(Event)] :
        /\ ctx' = [ctx EXCEPT ![c] = r]
        /\ r.at \in {"run", "compare", "drift"} =>
             \/ r.cache = elog /\ r.at = "run"
             \/ /\ Exporting(c) /\ r.cache = ctx[c].cache
                /\ r.at = "drift" => ctx[c].at = "compare" /\ elog # ctx[c].cache
  <2> USE DEF LogInv, LogTyped
  <2>1. CASE OpenContext(c)
    <3> WITNESS [at |-> "open", cache |-> elog] \in
          [at : {"closed", "open", "run", "compare", "drift"}, cache : Seq(Event)]
    <3> QED
      BY <2>1 DEF OpenContext
  <2>2. CASE ExportRebuild(c)
    <3> WITNESS [at |-> "run", cache |-> elog] \in
          [at : {"closed", "open", "run", "compare", "drift"}, cache : Seq(Event)]
    <3> QED
      BY <2>2 DEF ExportRebuild, Rebuild
  <2>3. CASE ExportRun(c)
    <3> WITNESS [ctx[c] EXCEPT !.at = "compare"] \in
          [at : {"closed", "open", "run", "compare", "drift"}, cache : Seq(Event)]
    <3> QED
      BY <2>3 DEF ExportRun, Exporting
  <2>4. CASE Compare(c)
    <3> DEFINE to == IF elog # ctx[c].cache /\ ~Terminal(ctx[c].cache) THEN "drift" ELSE "open"
    <3>1. ctx' = [ctx EXCEPT ![c] = [ctx[c] EXCEPT !.at = to]] /\ ctx[c].at = "compare"
      BY <2>4 DEF Compare
    <3>2. to \in {"drift", "open"} /\ (to = "drift" => elog # ctx[c].cache)
      OBVIOUS
    <3> HIDE DEF to
    <3>3. [ctx[c] EXCEPT !.at = to] \in
            [at : {"closed", "open", "run", "compare", "drift"}, cache : Seq(Event)]
      BY <3>2
    <3> WITNESS [ctx[c] EXCEPT !.at = to] \in
          [at : {"closed", "open", "run", "compare", "drift"}, cache : Seq(Event)]
    <3> QED
      BY <3>1, <3>2 DEF Exporting
  <2>5. CASE CloseContext(c)
    <3>1. Closed \in [at : {"closed", "open", "run", "compare", "drift"}, cache : Seq(Event)]
      BY EmptyChained DEF Closed
    <3> WITNESS Closed \in
          [at : {"closed", "open", "run", "compare", "drift"}, cache : Seq(Event)]
    <3> QED
      BY <2>5 DEF CloseContext, Closed
  <2>6. QED
    BY <2>1, <2>2, <2>3, <2>4, <2>5
<1>2. /\ UNCHANGED <<elog, fresh, replay>>
      /\ runFile' = runFile \/ (Exporting(c) /\ runFile' = ctx[c].cache)
  BY DEF OpenContext, ExportRebuild, ExportRun, Compare, CloseContext, Exporting
<1>3. runFile' \in Seq(Event) /\ Chained(runFile')
  BY <1>2 DEF LogInv, LogTyped, ExportOf
<1>4. LogTyped'
  BY <1>1, <1>2, <1>3 DEF LogInv, LogTyped
<1>5. ASSUME NEW d \in LogContexts, Exporting(d)'
      PROVE  ExportOf(d)'
  <2>1. CASE d # c
    <3>1. ctx'[d] = ctx[d]
      BY <1>1, <2>1 DEF LogInv, LogTyped
    <3>2. ExportOf(d)
      BY <1>5, <3>1 DEF LogInv, Exporting
    <3>3. QED
      BY <1>2, <3>1, <3>2 DEF ExportOf
  <2>2. CASE d = c
    <3>1. ctx'[c] = r
      BY <1>1 DEF LogInv, LogTyped
    <3>2. CASE r.cache = elog /\ r.at = "run"
      <4>1. Begins(elog, elog) /\ Len(elog) \in Nat
        BY DEF Begins, LogInv, LogTyped
      <4>2. QED
        BY <1>2, <2>2, <3>1, <3>2, <4>1 DEF ExportOf, LogInv
    <3>3. CASE /\ Exporting(c) /\ r.cache = ctx[c].cache
               /\ r.at = "drift" => ctx[c].at = "compare" /\ elog # ctx[c].cache
      <4>1. ExportOf(c)
        BY <3>3 DEF LogInv
      <4>2. r.at = "drift" => Len(ctx[c].cache) < Len(elog)
        <5> SUFFICES ASSUME r.at = "drift" PROVE Len(ctx[c].cache) < Len(elog)
          OBVIOUS
        <5>1. ctx[c].cache \in Seq(Event) /\ elog \in Seq(Event)
          BY DEF LogInv, LogTyped
        <5>2. CASE Len(ctx[c].cache) = Len(elog)
          <6>1. \A i \in 1..Len(elog) : ctx[c].cache[i] = elog[i]
            BY <4>1, <5>2 DEF ExportOf, Begins
          <6>2. ctx[c].cache = elog
            BY <5>1, <5>2, <6>1, SeqEqual
          <6>3. QED
            BY <3>3, <6>2
        <5>3. QED
          BY <4>1, <5>1, <5>2 DEF ExportOf, Begins
      <4>3. QED
        BY <1>2, <2>2, <3>1, <3>3, <4>1, <4>2 DEF ExportOf
    <3>4. QED
      BY <1>1, <1>5, <2>2, <3>1, <3>2, <3>3 DEF Exporting
  <2>3. QED
    BY <2>1, <2>2
<1>6. QED
  BY <1>2, <1>3, <1>4, <1>5 DEF LogInv

LEMMA LogInvHolds == EventLogSpec => []LogInv
<1>1. EventLogInit => LogInv
  <2> SUFFICES ASSUME EventLogInit PROVE LogInv
    OBVIOUS
  <2>1. Closed \in [at : {"closed", "run"}, cache : Seq(Event)] /\ Closed.cache = <<>>
        /\ Closed \in [at : {"closed", "open", "run", "compare", "drift"}, cache : Seq(Event)]
    BY EmptyChained DEF Closed
  <2>2. LogTyped
    BY <2>1, EmptyChained DEF EventLogInit, LogTyped
  <2>3. \A c \in LogContexts : ~Exporting(c)
    BY DEF EventLogInit, Exporting, Closed
  <2>4. QED
    BY <2>1, <2>2, <2>3, EmptyChained DEF EventLogInit, LogInv
<1>2. LogInv /\ [EventLogNext]_logVars => LogInv'
  <2> SUFFICES ASSUME LogInv, [EventLogNext]_logVars PROVE LogInv'
    OBVIOUS
  <2>1. ASSUME NEW c \in LogContexts, AppendEvent(c) \/ FaultDrift(c)
        PROVE  LogInv'
    BY <2>1, AppendInv DEF AppendEvent, FaultDrift
  <2>2. ASSUME NEW c \in LogContexts,
               OpenContext(c) \/ ExportRebuild(c) \/ ExportRun(c) \/ Compare(c)
               \/ CloseContext(c)
        PROVE  LogInv'
    BY <2>2, ReaderInv
  <2>3. CASE ReplayRead
    BY <2>3 DEF ReplayRead, LogInv, LogTyped, Exporting, ExportOf
  <2>4. CASE ReplayRun
    <3>1. Closed \in [at : {"closed", "run"}, cache : Seq(Event)] /\ Chained(Closed.cache)
      BY EmptyChained DEF Closed
    <3>2. QED
      BY <2>4, <3>1 DEF ReplayRun, LogInv, LogTyped, Exporting, ExportOf
  <2>5. CASE PowerLoss
    <3>1. elog' \in Seq(Event) /\ Chained(elog')
      BY <2>5, CutChained DEF PowerLoss, LogInv, LogTyped
    <3>2. Closed \in [at : {"closed", "run"}, cache : Seq(Event)] /\ Chained(Closed.cache)
          /\ Closed \in [at : {"closed", "open", "run", "compare", "drift"}, cache : Seq(Event)]
      BY EmptyChained DEF Closed
    <3>3. \A c \in LogContexts : ~Exporting(c)'
      BY <2>5 DEF PowerLoss, Exporting, Closed
    <3>4. QED
      BY <2>5, <3>1, <3>2, <3>3 DEF PowerLoss, LogInv, LogTyped
  <2>6. CASE UNCHANGED logVars
    BY <2>6 DEF logVars, LogInv, LogTyped, Exporting, ExportOf
  <2>7. QED
    BY <2>1, <2>2, <2>3, <2>4, <2>5, <2>6 DEF EventLogNext
<1>3. QED
  BY <1>1, <1>2, PTL DEF EventLogSpec

-----------------------------------------------------------------------------
\* The chain of the log is intact at every moment (verify_hash_chain never
\* raises of it).
THEOREM ChainStaysIntact == EventLogSpec => []ChainIntact
<1>1. LogInv => ChainIntact
  BY DEF LogInv, ChainIntact
<1>2. QED
  BY <1>1, LogInvHolds, PTL

\* An export writes a log that was there, whole (export_projections).
THEOREM ExportsAreWhole == EventLogSpec => []ExportedWhole
<1>1. LogInv => ExportedWhole
  BY DEF LogInv, ExportedWhole
<1>2. QED
  BY <1>1, LogInvHolds, PTL

\* A run is faulted for a drift only when another context appended meanwhile
\* (projection_drift).
THEOREM DriftsAreRaces == EventLogSpec => []FaultedByRace
<1>1. LogInv => FaultedByRace
  <2> SUFFICES ASSUME LogInv, NEW c \in LogContexts, ctx[c].at = "drift"
               PROVE  /\ IsPrefix(ctx[c].cache, elog)
                      /\ \E i \in Len(ctx[c].cache) + 1..Len(elog) : elog[i].by # c
    BY DEF FaultedByRace
  <2>1. ExportOf(c) /\ ctx[c].cache \in Seq(Event) /\ elog \in Seq(Event)
    BY DEF LogInv, LogTyped, Exporting
  <2>2. Len(ctx[c].cache) < Len(elog) /\ Len(ctx[c].cache) \in Nat /\ Len(elog) \in Nat
    BY <2>1 DEF ExportOf
  <2>3. \E i \in Len(ctx[c].cache) + 1..Len(elog) : elog[i].by # c
    BY <2>1, <2>2 DEF ExportOf
  <2>4. IsPrefix(ctx[c].cache, elog)
    <3> DEFINE s == ctx[c].cache
               n == Len(s)
    <3>1. \A i \in 1..n : s[i] = elog[i]
      BY <2>1 DEF ExportOf, Begins
    <3>2. /\ SubSeq(s, 1, n) \in Seq(Event) /\ SubSeq(elog, 1, n) \in Seq(Event)
          /\ Len(SubSeq(s, 1, n)) = n /\ Len(SubSeq(elog, 1, n)) = n
          /\ \A i \in 1..n : SubSeq(s, 1, n)[i] = s[i] /\ SubSeq(elog, 1, n)[i] = elog[i]
      BY <2>1, <2>2
    <3>3. SubSeq(s, 1, n) = SubSeq(elog, 1, n)
      BY <3>1, <3>2, SeqEqual
    <3>4. QED
      BY <2>2, <3>3 DEF IsPrefix
  <2>5. QED
    BY <2>3, <2>4
<1>2. QED
  BY <1>1, LogInvHolds, PTL

\* The hashes of a log have been used.
Spent(l) == \A i \in 1..Len(l) : l[i].hash \in 1..fresh

HashesSpent ==
  /\ fresh \in 0..MaxEvents /\ outages \in 0..MaxPowerLoss
  /\ Spent(elog) /\ Spent(runFile) /\ Spent(replay.cache)
  /\ \A c \in LogContexts : Spent(ctx[c].cache)

\* A new event has a hash that was not used.
LEMMA AppendSpends ==
  ASSUME NEW l \in Seq(Event), NEW e \in Event, e.hash = fresh + 1, fresh' = fresh + 1,
         fresh \in Nat, Spent(l)
  PROVE  Spent(l)' /\ \A i \in 1..Len(Append(l, e)) : Append(l, e)[i].hash \in 1..fresh'
<1>1. /\ Len(Append(l, e)) = Len(l) + 1 /\ Len(l) \in Nat
      /\ \A i \in 1..Len(l) : Append(l, e)[i] = l[i]
      /\ Append(l, e)[Len(l) + 1] = e
  OBVIOUS
<1>. QED
  BY <1>1 DEF Spent

\* The events, the contexts and the files keep their types, and the hashes in
\* them are among those that were used.
LEMMA EventLogTyping == EventLogSpec => []EventLogTypeOK
<1>1. EventLogInit => HashesSpent
  <2>1. Len(<<>>) = 0
    OBVIOUS
  <2>. QED
    BY <2>1 DEF EventLogInit, HashesSpent, Spent, Closed
<1>2. ASSUME LogInv, LogInv', HashesSpent, [EventLogNext]_logVars
      PROVE  HashesSpent'
  <2>1. ASSUME NEW c \in LogContexts, NEW type, AppendBy(c, type, "open")
        PROVE  HashesSpent'
    <3> DEFINE e == [type |-> type, prev |-> TailHash(c), hash |-> fresh + 1, by |-> c]
    <3>1. /\ elog' = Append(elog, e) /\ fresh' = fresh + 1 /\ fresh < MaxEvents
          /\ ctx' = [ctx EXCEPT ![c] = [at |-> "open", cache |-> Append(ctx[c].cache, e)]]
          /\ UNCHANGED <<runFile, replay, outages>>
      BY <2>1 DEF AppendBy
    <3>2. /\ elog \in Seq(Event) /\ runFile \in Seq(Event) /\ replay.cache \in Seq(Event)
          /\ \A d \in LogContexts : ctx[d].cache \in Seq(Event)
          /\ fresh \in Nat /\ elog' \in Seq(Event)
      BY <1>2 DEF LogInv, LogTyped
    <3>3. e \in Event /\ e.hash = fresh + 1
      <4>1. elog'[Len(elog) + 1] = e /\ Len(elog) + 1 \in 1..Len(elog')
        BY <3>1, <3>2
      <4>. QED
        BY <3>2, <4>1
    <3>. HIDE DEF e
    <3>4. /\ Spent(elog)' /\ Spent(runFile)' /\ Spent(replay.cache)'
      BY <1>2, <3>1, <3>2, <3>3, AppendSpends DEF HashesSpent, Spent
    <3>5. ASSUME NEW d \in LogContexts PROVE Spent(ctx[d].cache)'
      <4>1. ctx'[d].cache = ctx[d].cache \/ ctx'[d].cache = Append(ctx[d].cache, e)
        BY <3>1 DEF LogInv, LogTyped
      <4>. QED
        BY <1>2, <3>1, <3>2, <3>3, <4>1, AppendSpends DEF HashesSpent, Spent
    <3>6. fresh' \in 0..MaxEvents /\ outages' \in 0..MaxPowerLoss
      BY <1>2, <3>1 DEF HashesSpent
    <3>. QED
      BY <3>4, <3>5, <3>6 DEF HashesSpent
  <2>2. ASSUME NEW c \in LogContexts,
               OpenContext(c) \/ ExportRebuild(c) \/ ExportRun(c) \/ Compare(c)
               \/ CloseContext(c)
        PROVE  HashesSpent'
    <3>1. /\ UNCHANGED <<elog, fresh, replay, outages>>
          /\ runFile' = runFile \/ runFile' = ctx[c].cache
      BY <2>2 DEF OpenContext, ExportRebuild, ExportRun, Compare, CloseContext
    <3>2. ASSUME NEW d \in LogContexts
          PROVE  ctx'[d].cache \in {ctx[d].cache, elog, <<>>}
      <4>1. /\ ctx \in [LogContexts -> [at : {"closed", "open", "run", "compare", "drift"},
                                       cache : Seq(Event)]]
            /\ ctx[c] \in [at : {"closed", "open", "run", "compare", "drift"},
                           cache : Seq(Event)]
        BY <1>2 DEF LogInv, LogTyped
      <4>2. CASE OpenContext(c) \/ ExportRebuild(c) \/ CloseContext(c)
        <5>1. PICK r \in [at : {"open", "run", "closed"}, cache : {elog, <<>>}] :
                ctx' = [ctx EXCEPT ![c] = r]
          <6>1. CASE OpenContext(c)
            BY <6>1, Zenon DEF OpenContext
          <6>2. CASE ExportRebuild(c)
            BY <6>2, Zenon DEF ExportRebuild, Rebuild
          <6>3. CASE CloseContext(c)
            BY <6>3, Zenon DEF CloseContext, Closed
          <6>. QED
            BY <4>2, <6>1, <6>2, <6>3
        <5>. QED
          BY <4>1, <5>1
      <4>3. CASE ExportRun(c)
        BY <4>1, <4>3 DEF ExportRun
      <4>4. CASE Compare(c)
        <5>1. PICK to : ctx' = [ctx EXCEPT ![c] = [ctx[c] EXCEPT !.at = to]]
          BY <4>4 DEF Compare
        <5>. QED
          BY <4>1, <5>1
      <4>. QED
        BY <2>2, <4>2, <4>3, <4>4
    <3>3. Spent(<<>>)
      BY DEF Spent
    <3>. QED
      BY <1>2, <3>1, <3>2, <3>3 DEF HashesSpent, Spent
  <2>3. CASE ReplayRead
    BY <1>2, <2>3 DEF ReplayRead, HashesSpent, Spent
  <2>4. CASE ReplayRun
    <3>1. Spent(<<>>)
      BY DEF Spent
    <3>. QED
      BY <1>2, <2>4, <3>1 DEF ReplayRun, HashesSpent, Spent, Closed
  <2>5. CASE PowerLoss
    <3>1. PICK n \in 0..Len(elog) : elog' = SubSeq(elog, 1, n)
      BY <2>5 DEF PowerLoss
    <3>2. Len(elog') = n /\ \A i \in 1..n : elog'[i] = elog[i] /\ i \in 1..Len(elog)
      BY <1>2, <3>1 DEF LogInv, LogTyped
    <3>3. Spent(<<>>)
      BY DEF Spent
    <3>4. /\ UNCHANGED <<fresh, runFile>> /\ replay' = Closed /\ outages' = outages + 1
          /\ outages < MaxPowerLoss /\ \A c \in LogContexts : ctx'[c] = Closed
      BY <2>5 DEF PowerLoss
    <3>5. Spent(elog)' /\ outages' \in 0..MaxPowerLoss
      BY <1>2, <3>2, <3>4 DEF HashesSpent, Spent
    <3>. QED
      BY <1>2, <3>3, <3>4, <3>5 DEF HashesSpent, Spent, Closed
  <2>6. CASE UNCHANGED logVars
    BY <1>2, <2>6 DEF logVars, HashesSpent, Spent
  <2>. QED
    BY <1>2, <2>1, <2>2, <2>3, <2>4, <2>5, <2>6
       DEF EventLogNext, AppendEvent, FaultDrift
<1>3. ASSUME LogInv, HashesSpent PROVE EventLogTypeOK
  <2>1. ASSUME NEW l \in Seq(Event), Spent(l), NEW i \in DOMAIN l
        PROVE  l[i].hash \in 1..fresh /\ l[i].type \in {"work", "ended", "faulted"}
    <3>1. i \in 1..Len(l) /\ l[i] \in Event
      BY <2>1
    <3>. QED
      BY <2>1, <3>1 DEF Spent, Event
  <2>2. /\ elog \in Seq(Event) /\ runFile \in Seq(Event) /\ Spent(elog) /\ Spent(runFile)
        /\ replay.at \in {"closed", "run"}
        /\ \A c \in LogContexts : ctx[c].at \in {"closed", "open", "run", "compare", "drift"}
    BY <1>3 DEF LogInv, LogTyped, HashesSpent
  <2>. QED
    BY <1>3, <2>1, <2>2 DEF HashesSpent, EventLogTypeOK
<1>. QED
  BY <1>1, <1>2, <1>3, LogInvHolds, PTL DEF EventLogSpec

HIDE EventLogAssumption

------------------------------------------------------------------------------
(***************************************************************************)
(* Proofs about AgentGroups for any actors and any number of agents.       *)
(*                                                                         *)
(* What the property says of the moment of exit follows from what holds at *)
(* every moment: a group that may still run is remembered somewhere, in    *)
(* the set of tracked groups, in the list of a killing that goes on, or by *)
(* the coroutine that is about to track it.                                *)
(***************************************************************************)

USE AgentGroupsAssumption

\* What is about to start an agent may still do so, and what has started one
\* has its group.
EpisodeShape ==
  \A w \in AgentActors :
    /\ exec[w].at = "spawn" => exec[w].agents < MaxAgents
    /\ exec[w].at \notin {"idle", "spawn"} => exec[w].pid \in GroupIds

Typed == AgentGroupsTypeOK /\ EpisodeShape

LEMMA IdleEpisode == Idle \in Episodes /\ Idle.at = "idle"
  BY DEF Idle, Episodes, AtAwait, MaxAgents

\* The end of an episode, in whatever action.
LEMMA EndEpisodeTyped ==
  ASSUME Typed, NEW w \in AgentActors, EndEpisode(w)
  PROVE  exec' \in [AgentActors -> Episodes] /\ awaited' \in AgentActors \cup {"none"}
         /\ EpisodeShape'
  BY IdleEpisode DEF Typed, AgentGroupsTypeOK, EpisodeShape, EndEpisode

\* A coroutine goes on to another place.
LEMMA ReachTyped ==
  ASSUME Typed, NEW w \in AgentActors,
         NEW at \in AtAwait \cup {"track", "tracking", "tee", "done", "failed",
                                  "untracking", "untracking_failed"},
         Reach(w, at), at # "idle", at = "spawn" => exec[w] = Idle,
         exec[w].at \in {"idle", "spawn"} => at = "spawn"
  PROVE  exec' \in [AgentActors -> Episodes] /\ EpisodeShape'
<1>1. exec[w] \in Episodes
  BY DEF Typed, AgentGroupsTypeOK
<1>2. [exec[w] EXCEPT !.at = at] \in Episodes
  BY <1>1 DEF Episodes
<1>3. exec' = [exec EXCEPT ![w] = [exec[w] EXCEPT !.at = at]]
  BY DEF Reach, Typed, AgentGroupsTypeOK
<1>4. exec' \in [AgentActors -> Episodes]
  BY <1>2, <1>3 DEF Typed, AgentGroupsTypeOK
<1>5. ASSUME NEW v \in AgentActors
      PROVE  /\ exec'[v].at = "spawn" => exec'[v].agents < MaxAgents
             /\ exec'[v].at \notin {"idle", "spawn"} => exec'[v].pid \in GroupIds
  <2>1. CASE v = w
    BY <2>1, <1>1, <1>3 DEF Typed, AgentGroupsTypeOK, Episodes, Idle, MaxAgents,
       EpisodeShape
  <2>2. CASE v # w
    BY <2>2, <1>3 DEF Typed, AgentGroupsTypeOK, EpisodeShape
  <2>3. QED
    BY <2>1, <2>2
<1>6. QED
  BY <1>4, <1>5 DEF EpisodeShape

\* The types of the harness's bookkeeping and of the groups.
THEOREM AgentGroupsTyping == AgentGroupsSpec => []AgentGroupsTypeOK
<1>1. AgentGroupsInit => Typed
  BY IdleEpisode DEF AgentGroupsInit, Typed, EpisodeShape, AgentGroupsTypeOK
<1>2. Typed /\ [AgentGroupsNext]_agentVars => Typed'
  <2> SUFFICES ASSUME Typed, [AgentGroupsNext]_agentVars
               PROVE  Typed'
    OBVIOUS
  <2>0. /\ mode \in {"running", "ending", "exiting", "exited", "killed", "hung"}
        /\ awaited \in AgentActors \cup {"none"}
        /\ exec \in [AgentActors -> Episodes]
        /\ members \in [GroupIds -> SUBSET Processes]
        /\ born \subseteq GroupIds /\ tracked \subseteq GroupIds
        /\ doomed \subseteq GroupIds /\ abandoned \subseteq GroupIds
        /\ locked \in BOOLEAN /\ hooked \in BOOLEAN /\ EpisodeShape
    BY DEF Typed, AgentGroupsTypeOK
  <2>1. ASSUME NEW w \in AgentActors, RequestStage(w)
        PROVE  Typed'
    BY <2>0, <2>1, ReachTyped DEF RequestStage, AtAwait, Idle, Typed,
       AgentGroupsTypeOK, EpisodeShape
  <2>2. ASSUME NEW w \in AgentActors, Spawn(w)
        PROVE  Typed'
    <3>1. CASE EndEpisode(w) /\ UNCHANGED <<members, born>>
      BY <2>0, <2>2, <3>1, EndEpisodeTyped DEF Spawn, Typed, AgentGroupsTypeOK
    <3>2. ASSUME NEW p \in GroupIds \ born,
                 born' = born \cup {p},
                 members' = [members EXCEPT ![p] = {"leader"}],
                 exec' = [exec EXCEPT ![w] =
                            [at |-> "track", pid |-> p, agents |-> @.agents + 1]],
                 UNCHANGED awaited
          PROVE  Typed'
      <4>1. exec[w] \in Episodes /\ exec[w].agents < MaxAgents
        BY <2>0, <2>2 DEF Spawn, EpisodeShape
      <4>2. [at |-> "track", pid |-> p, agents |-> exec[w].agents + 1] \in Episodes
        BY <4>1 DEF Episodes, MaxAgents
      <4>3. exec' \in [AgentActors -> Episodes] /\ EpisodeShape'
        BY <2>0, <3>2, <4>2 DEF EpisodeShape
      <4>4. members' \in [GroupIds -> SUBSET Processes]
        BY <2>0, <3>2 DEF Processes
      <4>5. QED
        BY <2>0, <2>2, <3>2, <4>3, <4>4 DEF Spawn, Typed, AgentGroupsTypeOK
    <3>3. QED
      BY <2>2, <3>1, <3>2 DEF Spawn
  <2>3. ASSUME NEW w \in AgentActors,
               \/ TakeLock(w, "track", "tracking") \/ TakeLock(w, "done", "untracking")
               \/ TakeLock(w, "failed", "untracking_failed")
        PROVE  Typed'
    <3>1. exec' \in [AgentActors -> Episodes] /\ EpisodeShape'
      BY <2>3, ReachTyped DEF TakeLock
    <3>2. locked' \in BOOLEAN /\ hooked' \in BOOLEAN
      BY <2>3 DEF TakeLock
    <3>3. UNCHANGED <<mode, awaited, members, born, tracked, doomed, abandoned>>
      BY <2>3 DEF TakeLock
    <3>4. QED
      BY <2>0, <3>1, <3>2, <3>3 DEF Typed, AgentGroupsTypeOK
  <2>4. ASSUME NEW w \in AgentActors, Track(w)
        PROVE  Typed'
    <3>1. exec' \in [AgentActors -> Episodes] /\ EpisodeShape'
      BY <2>4, ReachTyped DEF Track
    <3>2. tracked' \subseteq GroupIds
      BY <2>0, <2>4 DEF Track, EpisodeShape
    <3>3. QED
      BY <2>0, <2>4, <3>1, <3>2 DEF Track, Typed, AgentGroupsTypeOK
  <2>5. ASSUME NEW w \in AgentActors, OpenTee(w)
        PROVE  Typed'
    <3>1. exec' \in [AgentActors -> Episodes] /\ EpisodeShape'
          /\ awaited' \in AgentActors \cup {"none"}
      BY <2>0, <2>5, ReachTyped, EndEpisodeTyped DEF OpenTee, AtAwait
    <3>2. QED
      BY <2>0, <2>5, <3>1 DEF OpenTee, Typed, AgentGroupsTypeOK
  <2>6. ASSUME NEW w \in AgentActors, Feed(w) \/ Read(w) \/ Reap(w)
        PROVE  Typed'
    <3>1. exec' \in [AgentActors -> Episodes] /\ EpisodeShape'
      BY <2>6, ReachTyped DEF Feed, Read, Reap, AtAwait
    <3>2. QED
      BY <2>0, <2>6, <3>1 DEF Feed, Read, Reap, Typed, AgentGroupsTypeOK
  <2>7. ASSUME NEW w \in AgentActors, ExecFails(w) \/ CancelActor(w)
        PROVE  Typed'
    <3>1. exec' \in [AgentActors -> Episodes] /\ EpisodeShape'
          /\ awaited' \in AgentActors \cup {"none"}
      BY <2>0, <2>7, ReachTyped, EndEpisodeTyped DEF ExecFails, CancelActor
    <3>2. abandoned' \subseteq GroupIds
      BY <2>0, <2>7 DEF ExecFails, CancelActor, EpisodeShape
    <3>3. QED
      BY <2>0, <2>7, <3>1, <3>2 DEF ExecFails, CancelActor, Typed, AgentGroupsTypeOK
  <2>8. ASSUME NEW w \in AgentActors, ExecTimesOut(w)
        PROVE  Typed'
    <3>1. exec' \in [AgentActors -> Episodes] /\ EpisodeShape'
      BY <2>8, ReachTyped DEF ExecTimesOut, AtAwait
    <3>2. QED
      BY <2>0, <2>8, <3>1 DEF ExecTimesOut, Killed, Typed, AgentGroupsTypeOK
  <2>9. ASSUME NEW w \in AgentActors, Untrack(w)
        PROVE  Typed'
    <3>1. CASE EndEpisode(w)
      BY <2>0, <2>9, <3>1, EndEpisodeTyped DEF Untrack, Typed, AgentGroupsTypeOK
    <3>2. CASE TryAgain(w)
      <4>1. exec[w] \in Episodes
        BY <2>0
      <4>2. [exec[w] EXCEPT !.at = "spawn", !.pid = "none"] \in Episodes
        BY <4>1 DEF Episodes, AtAwait
      <4>3. exec' = [exec EXCEPT ![w] = [exec[w] EXCEPT !.at = "spawn", !.pid = "none"]]
        BY <2>0, <3>2 DEF TryAgain
      <4>4. exec' \in [AgentActors -> Episodes] /\ EpisodeShape'
        BY <2>0, <3>2, <4>1, <4>2, <4>3 DEF TryAgain, EpisodeShape, Episodes
      <4>5. QED
        BY <2>0, <2>9, <3>2, <4>4 DEF Untrack, TryAgain, Typed, AgentGroupsTypeOK
    <3>3. QED
      BY <2>9, <3>1, <3>2 DEF Untrack
  <2>10. ASSUME NEW p \in GroupIds, KillDoomed(p) \/ AgentMoves(p)
         PROVE  Typed'
    BY <2>0, <2>10 DEF KillDoomed, AgentMoves, Killed, Processes, Typed,
       AgentGroupsTypeOK, EpisodeShape
  <2>11. CASE StageTimesOut \/ EndHarness \/ Terminate \/ Exit
              \/ InterruptExit \/ Exited \/ KillHarness
    BY <2>0, <2>11 DEF StageTimesOut, EndHarness, Terminate, Exit, InterruptExit,
       Exited, KillHarness, KillAllTracked, Typed, AgentGroupsTypeOK, EpisodeShape
  <2>12. CASE UNCHANGED agentVars
    BY <2>0, <2>12 DEF agentVars, Typed, AgentGroupsTypeOK, EpisodeShape
  <2>13. QED
    BY <2>1, <2>2, <2>3, <2>4, <2>5, <2>6, <2>7, <2>8, <2>9, <2>10, <2>11, <2>12
       DEF AgentGroupsNext
<1>3. Typed => AgentGroupsTypeOK
  BY DEF Typed
<1>4. QED
  BY <1>1, <1>2, <1>3, PTL DEF AgentGroupsSpec

-----------------------------------------------------------------------------
\* A group of no more than processes without its output, or one that is
\* remembered.
Remembered(p) ==
  members[p] \subseteq {"detached"} \/ p \in abandoned \cup tracked \cup doomed

\* Groups that may run are remembered or about to be.
NoneForgotten ==
  \A p \in GroupIds :
    \/ Remembered(p)
    \/ \E w \in AgentActors : exec[w].pid = p /\ exec[w].at \in {"track", "tracking"}

\* A group id in use is not given out again.
PidsBorn ==
  \A w \in AgentActors : exec[w].at \notin {"idle", "spawn"} => exec[w].pid \in born

\* What exec untracks need not be remembered.
MayUntrack ==
  \A w \in AgentActors :
    /\ exec[w].at \in {"reap", "done", "untracking"} =>
         members[exec[w].pid] \subseteq {"detached"}
    /\ exec[w].at \in {"failed", "untracking_failed"} => exec[w].pid \in abandoned

\* atexit finds no coroutine and leaves nothing tracked.
ExitClean ==
  /\ mode \in {"exiting", "exited"} =>
       tracked = {} /\ \A w \in AgentActors : exec[w].at = "idle"
  /\ mode = "exited" => doomed = {}

GroupsInv == NoneForgotten /\ PidsBorn /\ MayUntrack /\ ExitClean

LEMMA GroupsInvInit == AgentGroupsInit => GroupsInv
  BY DEF AgentGroupsInit, GroupsInv, NoneForgotten, Remembered, PidsBorn, MayUntrack,
     ExitClean, Idle

\* An agent's own moves: only a leader starts processes.
LEMMA AgentMovesInv ==
  ASSUME AgentGroupsTypeOK, GroupsInv, NEW p \in GroupIds, AgentMoves(p)
  PROVE  GroupsInv'
<1> USE DEF AgentMoves, AgentGroupsTypeOK, Episodes
<1>1. \A q \in GroupIds : members[q] \subseteq {"detached"} => members'[q] \subseteq {"detached"}
  OBVIOUS
<1>2. NoneForgotten'
  BY <1>1 DEF GroupsInv, NoneForgotten, Remembered
<1>3. PidsBorn' /\ ExitClean'
  BY DEF GroupsInv, PidsBorn, ExitClean
<1>4. MayUntrack'
  BY <1>1 DEF GroupsInv, PidsBorn, MayUntrack
<1>5. QED
  BY <1>2, <1>3, <1>4 DEF GroupsInv

\* The steps of an episode.
LEMMA EpisodeInv ==
  ASSUME AgentGroupsTypeOK, GroupsInv, NEW w \in AgentActors,
         \/ RequestStage(w) \/ Spawn(w) \/ TakeLock(w, "track", "tracking")
         \/ Track(w) \/ OpenTee(w) \/ Feed(w) \/ ExecFails(w) \/ Read(w)
         \/ ExecTimesOut(w) \/ Reap(w) \/ CancelActor(w)
         \/ TakeLock(w, "done", "untracking")
         \/ TakeLock(w, "failed", "untracking_failed") \/ Untrack(w)
  PROVE  GroupsInv'
<1> USE DEF AgentGroupsTypeOK, Episodes, AtAwait, Processes
<1> USE DEF GroupsInv, NoneForgotten, Remembered, PidsBorn, MayUntrack, ExitClean
<1>1. CASE RequestStage(w)
  BY <1>1 DEF RequestStage, MayRun, Reach, Idle
<1>2. CASE Spawn(w)
  BY <1>2 DEF Spawn, MayRun, EndEpisode, Idle
<1>3. CASE TakeLock(w, "track", "tracking")
  BY <1>3 DEF TakeLock, MayRun, Reach
<1>4. CASE Track(w)
  BY <1>4 DEF Track, MayRun, Reach
<1>5. CASE OpenTee(w)
  BY <1>5 DEF OpenTee, MayRun, Reach, EndEpisode, Idle
<1>6. CASE Feed(w)
  BY <1>6 DEF Feed, MayRun, Reach
<1>7. CASE ExecFails(w)
  BY <1>7 DEF ExecFails, MayRun, Reach
<1>8. CASE Read(w)
  BY <1>8 DEF Read, MayRun, Reach
<1>9. CASE ExecTimesOut(w)
  BY <1>9 DEF ExecTimesOut, MayRun, Reach, Killed
<1>10. CASE Reap(w)
  BY <1>10 DEF Reap, MayRun, Reach
<1>11. CASE CancelActor(w)
  BY <1>11 DEF CancelActor, MayRun, Reach, EndEpisode, Idle
<1>12. CASE TakeLock(w, "done", "untracking")
  BY <1>12 DEF TakeLock, MayRun, Reach
<1>13. CASE TakeLock(w, "failed", "untracking_failed")
  BY <1>13 DEF TakeLock, MayRun, Reach
<1>14. CASE Untrack(w)
  BY <1>14 DEF Untrack, MayRun, EndEpisode, TryAgain, Idle
<1>15. QED
  BY <1>1, <1>2, <1>3, <1>4, <1>5, <1>6, <1>7, <1>8, <1>9, <1>10, <1>11, <1>12,
     <1>13, <1>14

\* Signals and the end of the harness.
LEMMA EndInv ==
  ASSUME AgentGroupsTypeOK, GroupsInv,
         \/ \E p \in GroupIds : KillDoomed(p)
         \/ StageTimesOut \/ EndHarness \/ Terminate \/ Exit
         \/ InterruptExit \/ Exited \/ KillHarness
  PROVE  GroupsInv'
<1> USE DEF AgentGroupsTypeOK, Episodes
<1> USE DEF GroupsInv, NoneForgotten, Remembered, PidsBorn, MayUntrack, ExitClean
<1>1. ASSUME NEW p \in GroupIds, KillDoomed(p) PROVE GroupsInv'
  BY <1>1 DEF KillDoomed, Killed
<1>2. CASE StageTimesOut \/ EndHarness \/ KillHarness
  BY <1>2 DEF StageTimesOut, EndHarness, KillHarness
<1>3. CASE Terminate
  BY <1>3 DEF Terminate, KillAllTracked
<1>4. CASE Exit
  BY <1>4 DEF Exit, KillAllTracked
<1>5. CASE InterruptExit \/ Exited
  BY <1>5 DEF InterruptExit, Exited
<1>6. QED
  BY <1>1, <1>2, <1>3, <1>4, <1>5

\* No agent is left when the harness has exited by itself, but for those the
\* property names ("Guarantee that agent CLIs die with the harness").
THEOREM AgentsDie == AgentGroupsSpec => []AgentsDieWithHarness
<1>1. AgentGroupsTypeOK /\ GroupsInv /\ [AgentGroupsNext]_agentVars => GroupsInv'
  <2> SUFFICES ASSUME AgentGroupsTypeOK, GroupsInv, [AgentGroupsNext]_agentVars
               PROVE  GroupsInv'
    OBVIOUS
  <2>1. CASE UNCHANGED agentVars
    BY <2>1 DEF agentVars, GroupsInv, NoneForgotten, Remembered, PidsBorn, MayUntrack,
       ExitClean
  <2>2. CASE AgentGroupsNext
    BY <2>2, AgentMovesInv, EpisodeInv, EndInv DEF AgentGroupsNext
  <2>3. QED
    BY <2>1, <2>2
<1>2. GroupsInv => AgentsDieWithHarness
  BY DEF GroupsInv, NoneForgotten, Remembered, ExitClean, AgentsDieWithHarness
<1>3. QED
  BY GroupsInvInit, AgentGroupsTyping, <1>1, <1>2, PTL DEF AgentGroupsSpec

HIDE AgentGroupsAssumption

------------------------------------------------------------------------------
(***************************************************************************)
(* Proofs about Plugins for any community plugins, agents and terminals.   *)
(*                                                                         *)
(* A command that runs alone knows the package and the configurations of   *)
(* its plugin; when it ends, or when nobody works on a plugin that is in   *)
(* no doubt, a configuration means a package.  installed.json, which loses *)
(* updates, is not needed for that.                                        *)
(***************************************************************************)

USE PluginsAssumption

Entries == [PluginIds -> SUBSET PluginAgents]
Command == [does : {"nothing", "install", "uninstall"}, plugin : PluginIds,
            agents : SUBSET PluginAgents, todo : SUBSET PluginAgents,
            at : {"idle", "query", "configs", "load", "save", "rmtree"},
            read : Entries \cup {<<>>}, alone : BOOLEAN]

Busy(c, p) == command[c].does # "nothing" /\ command[c].plugin = p

Configured(p) == \E a \in PluginAgents : <<p, a>> \in mcpFiles

CommandsTyped ==
  /\ command \in [Terminals -> Command]
  /\ \A c \in Terminals :
       /\ command[c].at = "save" => command[c].read \in Entries
       /\ command[c].at \in {"load", "save"} => command[c].does # "nothing"
       /\ command[c].at \in {"configs", "rmtree"} => command[c].plugin \in ToSet(Community)
       /\ command[c].plugin = Gui => command[c].todo \subseteq {"codex"}

\* Commands that run alone on a plugin are the only ones on it.
AloneIsAlone ==
  \A c, d \in Terminals :
    c # d /\ command[c].alone /\ command[c].does # "nothing" => ~Busy(d, command[c].plugin)

\* What a command that runs alone has done.
DoneAlone(c) ==
  command[c].alone /\ command[c].does = "install" /\ command[c].plugin # Gui
    /\ command[c].at \in {"configs", "load", "save"}
  => command[c].plugin \in packages

\* A plugin nobody works on and whose last commands are in no doubt.
Quiet(p) == p \notin doubtful /\ \A c \in Terminals : ~Busy(c, p)

PluginsInv ==
  /\ PluginsTypeOK
  /\ CommandsTyped
  /\ AloneIsAlone
  /\ \A c \in Terminals : DoneAlone(c)
  /\ \A p \in ToSet(Community) : Quiet(p) /\ Configured(p) => p \in packages

-----------------------------------------------------------------------------
LEMMA GuiAside == Gui \notin ToSet(Community) /\ Gui \in PluginIds /\ "none" \notin ToSet(Community)
  BY DEF Gui, PluginIds

LEMMA NoCommandTyped ==
  /\ NoCommand \in Command
  /\ NoCommand.does = "nothing" /\ NoCommand.at = "idle" /\ NoCommand.todo = {}
  BY GuiAside DEF NoCommand, Command

\* The first usable plugin is usable.
LEMMA ActiveIsConfigured ==
  ASSUME NEW a \in PluginAgents, NEW p \in AllowedServers(a)
  PROVE  p \in ToSet(Community) /\ <<p, a>> \in mcpFiles
<1> DEFINE usable == {i \in DOMAIN Community : ConfigThere(Community[i], a)}
           first == CHOOSE i \in usable : \A j \in usable : i <= j
           R == {ss \in Nat \X Nat : ss[1] < ss[2]}
<1>1. p = ActivePlugin(a) /\ p \in ToSet(Community)
  BY DEF AllowedServers
<1>2. usable # {} /\ p = Community[first]
  BY <1>1, GuiAside DEF ActivePlugin
<1>3. usable \subseteq Nat
  BY DEF PluginsAssumption
<1>4. IsWellFoundedOn(R, Nat)
  BY NatLessThanWellFounded DEF OpToRel
<1>5. PICK x \in usable : \A y \in usable : ~ (<<y, x>> \in R)
  BY <1>2, <1>3, <1>4, WFMin
<1>6. ASSUME NEW y \in usable PROVE x <= y
  <2>1. x \in Nat /\ y \in Nat
    BY <1>3
  <2>2. ~(y < x)
    BY <1>5, <2>1
  <2>. QED
    BY <2>1, <2>2
<1>7. first \in usable
  BY <1>5, <1>6
<1>. QED
  BY <1>1, <1>2, <1>7 DEF ConfigThere

-----------------------------------------------------------------------------
LEMMA PluginsInvInit == PluginsInit => PluginsInv
<1> SUFFICES ASSUME PluginsInit PROVE PluginsInv
  OBVIOUS
<1>1. command \in [Terminals -> Command] /\ \A c \in Terminals : command[c] = NoCommand
  BY NoCommandTyped DEF PluginsInit
<1>2. CommandsTyped
  BY <1>1, NoCommandTyped DEF CommandsTyped
<1>3. PluginsTypeOK
  BY <1>1, NoCommandTyped DEF PluginsInit, PluginsTypeOK
<1>. QED
  BY <1>1, <1>2, <1>3, NoCommandTyped DEF PluginsInit, PluginsInv, AloneIsAlone, DoneAlone, Configured

\* An action of terminal c that goes on with its command, or ends it.
LEMMA OthersKept ==
  ASSUME PluginsInv, NEW c \in Terminals, NEW cmd \in Command,
         command' = [command EXCEPT ![c] = cmd],
         \/ cmd.does = "nothing"
         \/ cmd.does = command[c].does /\ cmd.plugin = command[c].plugin /\ cmd.alone = command[c].alone
  PROVE  /\ \A d \in Terminals : command'[d] = IF d = c THEN cmd ELSE command[d]
         /\ command' \in [Terminals -> Command]
         /\ AloneIsAlone'
  BY DEF PluginsInv, CommandsTyped, AloneIsAlone, Busy

LEMMA GoOnIs ==
  ASSUME PluginsInv, NEW c \in Terminals, NEW at \in {"query", "configs", "load", "save", "rmtree"}, GoOn(c, at)
  PROVE  LET cmd == [command[c] EXCEPT !.at = at] IN
         /\ cmd \in Command
         /\ command' = [command EXCEPT ![c] = cmd]
         /\ cmd.does = command[c].does /\ cmd.plugin = command[c].plugin
         /\ cmd.alone = command[c].alone /\ cmd.at = at /\ cmd.read = command[c].read
         /\ cmd.todo = command[c].todo /\ cmd.agents = command[c].agents
  BY DEF PluginsInv, CommandsTyped, Command, GoOn

\* What the invariant asks of the command of a terminal.
Proper(cmd, pkgs) ==
  /\ cmd.at = "save" => cmd.read \in Entries
  /\ cmd.at \in {"load", "save"} => cmd.does # "nothing"
  /\ cmd.at \in {"configs", "rmtree"} => cmd.plugin \in ToSet(Community)
  /\ cmd.plugin = Gui => cmd.todo \subseteq {"codex"}
  /\ cmd.alone /\ cmd.does = "install" /\ cmd.plugin # Gui /\ cmd.at \in {"configs", "load", "save"}
       => cmd.plugin \in pkgs

\* A step of the command of terminal c keeps the invariant if it keeps the
\* packages other commands rely on.
LEMMA CommandStep ==
  ASSUME PluginsInv, NEW c \in Terminals, NEW cmd \in Command,
         command' = [command EXCEPT ![c] = cmd],
         \/ cmd.does = "nothing"
         \/ cmd.does = command[c].does /\ cmd.plugin = command[c].plugin /\ cmd.alone = command[c].alone,
         command[c].does # "nothing",
         Proper(cmd, packages'),
         \A p \in packages : p # command[c].plugin => p \in packages',
         PluginsTypeOK',
         \A f \in mcpFiles' \ mcpFiles : f[1] = command[c].plugin,
         doubtful \ {command[c].plugin} \subseteq doubtful',
         cmd.does = "nothing" =>
           \/ command[c].plugin \in doubtful'
           \/ command[c].plugin \notin ToSet(Community)
           \/ command[c].plugin \in packages'
           \/ \A a \in PluginAgents : <<command[c].plugin, a>> \notin mcpFiles'
  PROVE  PluginsInv'
<1>1. /\ \A d \in Terminals : command'[d] = IF d = c THEN cmd ELSE command[d]
      /\ command' \in [Terminals -> Command]
      /\ AloneIsAlone'
  BY OthersKept
<1>2. CommandsTyped'
  BY <1>1 DEF PluginsInv, CommandsTyped, Proper
<1>3. ASSUME NEW d \in Terminals PROVE DoneAlone(d)'
  <2>1. CASE d = c
    BY <1>1, <2>1 DEF DoneAlone, Proper
  <2>2. CASE d # c
    <3>1. command'[d] = command[d]
      BY <1>1, <2>2
    <3>2. DoneAlone(d) /\ (command[d].alone /\ command[d].does # "nothing" => command[d].plugin # command[c].plugin)
      BY <2>2 DEF PluginsInv, AloneIsAlone, Busy
    <3>. QED
      BY <3>1, <3>2 DEF DoneAlone
  <2>. QED
    BY <2>1, <2>2
<1>4. ASSUME NEW p \in ToSet(Community), Quiet(p)', Configured(p)'
      PROVE  p \in packages'
  <2>1. CASE p = command[c].plugin
    BY <1>1, <1>4, <2>1 DEF Quiet, Busy, Configured
  <2>2. CASE p # command[c].plugin
    <3>1. Quiet(p)
      BY <1>1, <1>4, <2>2 DEF Quiet, Busy
    <3>2. Configured(p)
      BY <1>4, <2>2 DEF Configured
    <3>. QED
      BY <2>2, <3>1, <3>2 DEF PluginsInv
  <2>. QED
    BY <2>1, <2>2
<1>. QED
  BY <1>1, <1>2, <1>3, <1>4 DEF PluginsInv

\* Another command may begin on any plugin.
LEMMA StartStep ==
  ASSUME PluginsInv, NEW c \in Terminals, StartAny(c)
  PROVE  PluginsInv'
<1>1. PICK does \in {"install", "uninstall"}, p \in PluginIds, agents \in SUBSET PluginAgents :
        StartCommand(c, does, p, agents) /\ (p = Gui => agents \subseteq {"codex"})
  BY GuiAside DEF StartAny, PluginIds
<1> DEFINE cmd == [does |-> does, plugin |-> p, agents |-> agents, todo |-> agents,
                   at |-> "query", read |-> <<>>, alone |-> OthersOn(c, p) = {}]
<1>2. /\ command' \in [Terminals -> Command]
      /\ command'[c] = cmd
      /\ \A d \in Terminals \ {c} :
           /\ command'[d].does = command[d].does /\ command'[d].plugin = command[d].plugin
           /\ command'[d].at = command[d].at /\ command'[d].read = command[d].read
           /\ command'[d].todo = command[d].todo
           /\ command'[d].alone = (command[d].alone /\ d \notin OthersOn(c, p))
  <2>1. \A d \in Terminals : command[d] \in Command
    BY DEF PluginsInv, CommandsTyped
  <2>2. cmd \in Command
    BY DEF Command
  <2>3. \A d \in Terminals : [command[d] EXCEPT !.alone = FALSE] \in Command
    BY <2>1 DEF Command
  <2>4. command' = [d \in Terminals |->
                      CASE d = c -> cmd
                        [] d \in OthersOn(c, p) -> [command[d] EXCEPT !.alone = FALSE]
                        [] OTHER -> command[d]]
    BY <1>1 DEF StartCommand
  <2>5. c \notin OthersOn(c, p)
    BY DEF OthersOn
  <2>6. \A d \in Terminals : command'[d] \in Command
    BY <2>1, <2>2, <2>3, <2>4
  <2>7. command'[c] = cmd
    BY <2>4, <2>5
  <2>8. \A d \in Terminals \ {c} : command'[d] = IF d \in OthersOn(c, p) THEN [command[d] EXCEPT !.alone = FALSE]
                                                 ELSE command[d]
    BY <2>4
  <2>9. command' \in [Terminals -> Command]
    BY <2>4, <2>6
  <2>10. ASSUME NEW d \in Terminals \ {c}
         PROVE  /\ command'[d].does = command[d].does /\ command'[d].plugin = command[d].plugin
                /\ command'[d].at = command[d].at /\ command'[d].read = command[d].read
                /\ command'[d].todo = command[d].todo
                /\ command'[d].alone = (command[d].alone /\ d \notin OthersOn(c, p))
    <3>1. CASE d \in OthersOn(c, p)
      BY <2>1, <2>8, <3>1 DEF Command
    <3>2. CASE d \notin OthersOn(c, p)
      BY <2>1, <2>8, <3>2 DEF Command
    <3>. QED
      BY <3>1, <3>2
  <2>. QED
    BY <2>7, <2>9, <2>10
<1>3. /\ packages' = packages /\ installed' = installed /\ mcpFiles' = mcpFiles
      /\ doubtful' = doubtful /\ codexGui' = codexGui /\ commands' \in 0..MaxCommands
  BY <1>1 DEF StartCommand, PluginsInv, PluginsTypeOK
<1>4. CommandsTyped'
  BY <1>1, <1>2 DEF PluginsInv, CommandsTyped
<1>5. PluginsTypeOK'
  BY <1>2, <1>3 DEF PluginsInv, PluginsTypeOK, Command
<1>6. AloneIsAlone'
  <2> SUFFICES ASSUME NEW d \in Terminals, NEW e \in Terminals, d # e,
                      command'[d].alone, command'[d].does # "nothing",
                      command'[e].does # "nothing"
               PROVE  command'[e].plugin # command'[d].plugin
    BY DEF AloneIsAlone, Busy
  <2>1. \A t \in Terminals \ {c} : t \in OthersOn(c, p) <=> command[t].does # "nothing" /\ command[t].plugin = p
    BY DEF OthersOn
  <2>2. cmd.does # "nothing" /\ cmd.plugin = p /\ cmd.alone = (OthersOn(c, p) = {})
    OBVIOUS
  <2>3. CASE d = c
    <3>1. e \notin OthersOn(c, p)
      BY <1>2, <2>2, <2>3
    <3>. QED
      BY <1>2, <2>1, <2>2, <2>3, <3>1
  <2>4. CASE e = c
    <3>1. d \in Terminals \ {c} /\ d \notin OthersOn(c, p) /\ command[d].does # "nothing"
      BY <1>2, <2>4
    <3>. QED
      BY <1>2, <2>1, <2>2, <2>4, <3>1
  <2>5. CASE d # c /\ e # c
    <3>1. command[d].alone /\ command[d].does # "nothing" /\ command[e].does # "nothing"
      BY <1>2, <2>5
    <3>2. command[e].plugin # command[d].plugin
      BY <3>1 DEF PluginsInv, AloneIsAlone, Busy
    <3>. QED
      BY <1>2, <2>5, <3>2
  <2>. QED
    BY <2>3, <2>4, <2>5
<1>7. ASSUME NEW d \in Terminals PROVE DoneAlone(d)'
  <2>1. CASE d = c
    BY <1>2, <2>1 DEF DoneAlone
  <2>2. CASE d # c
    <3>1. DoneAlone(d)
      BY DEF PluginsInv
    <3>2. /\ command'[d].does = command[d].does /\ command'[d].plugin = command[d].plugin
          /\ command'[d].at = command[d].at
          /\ command'[d].alone => command[d].alone
      BY <1>2, <2>2
    <3>. QED
      BY <1>3, <3>1, <3>2 DEF DoneAlone
  <2>. QED
    BY <2>1, <2>2
<1>8. \A q \in ToSet(Community) : Quiet(q)' => Quiet(q)
  <2>1. command[c].does = "nothing"
    BY <1>1 DEF StartCommand
  <2>. QED
    BY <1>2, <1>3, <2>1 DEF Quiet, Busy
<1>. QED
  BY <1>3, <1>4, <1>5, <1>6, <1>7, <1>8 DEF PluginsInv, Configured

LEMMA PluginsInvStep ==
  ASSUME PluginsInv, [PluginsNext]_pluginVars
  PROVE  PluginsInv'
<1>1. CASE UNCHANGED pluginVars
  BY <1>1 DEF pluginVars, PluginsInv, PluginsTypeOK, CommandsTyped, AloneIsAlone, DoneAlone,
     Quiet, Busy, Configured
<1>2. ASSUME NEW c \in Terminals,
             CommandDies(c) \/ InstallPackage(c) \/ WriteMcpConfig(c)
               \/ LoadInstalled(c) \/ RecordInstall(c) \/ RemovePackage(c) \/ ForgetInstall(c)
               \/ RemoveConfigs(c) \/ InstallGui(c) \/ UninstallGui(c)
      PROVE  PluginsInv'
  <2> DEFINE old == command[c]
  <2>0. /\ old \in Command
        /\ Proper(old, packages)
        /\ PluginsTypeOK
    BY DEF PluginsInv, CommandsTyped, DoneAlone, Proper
  <2>1. CASE CommandDies(c)
    <3>1. Proper(NoCommand, packages')
      BY NoCommandTyped DEF Proper
    <3>2. PluginsTypeOK'
      BY <2>0, <2>1, NoCommandTyped DEF CommandDies, PluginsTypeOK, Command
    <3>. QED
      BY <2>1, <3>1, <3>2, NoCommandTyped, CommandStep DEF CommandDies
  <2>2. CASE InstallPackage(c)
    <3> DEFINE cmd == [old EXCEPT !.at = "configs"]
    <3>1. GoOn(c, "configs") /\ packages' = packages \cup {old.plugin}
          /\ old.plugin \in ToSet(Community) /\ old.does = "install" /\ old.plugin # Gui
      BY <2>0, <2>2 DEF InstallPackage, CommandAt, Command, PluginIds
    <3>2. /\ cmd \in Command /\ command' = [command EXCEPT ![c] = cmd]
          /\ cmd.does = old.does /\ cmd.plugin = old.plugin /\ cmd.alone = old.alone
          /\ cmd.at = "configs" /\ cmd.todo = old.todo
      BY <3>1, GoOnIs
    <3>3. Proper(cmd, packages')
      BY <3>1, <3>2 DEF Proper
    <3>4. PluginsTypeOK'
      BY <2>0, <2>2, <3>1, <3>2 DEF InstallPackage, PluginsTypeOK, PluginsInv, CommandsTyped, Command
    <3>. QED
      BY <2>2, <3>1, <3>2, <3>3, <3>4, CommandStep DEF InstallPackage
  <2>3. CASE WriteMcpConfig(c)
    <3>1. PICK a \in old.todo :
            /\ mcpFiles' = mcpFiles \cup {<<old.plugin, a>>}
            /\ command' = [command EXCEPT ![c].todo = @ \ {a},
                                          ![c].at = IF old.todo = {a} THEN "load" ELSE @]
      BY <2>3 DEF WriteMcpConfig
    <3> DEFINE cmd == [old EXCEPT !.todo = @ \ {a}, !.at = IF old.todo = {a} THEN "load" ELSE @]
    <3>2. old.at = "configs" /\ old.does = "install"
      BY <2>3 DEF WriteMcpConfig, CommandAt
    <3>3. /\ cmd \in Command /\ command' = [command EXCEPT ![c] = cmd]
          /\ cmd.does = old.does /\ cmd.plugin = old.plugin /\ cmd.alone = old.alone
          /\ cmd.at \in {"configs", "load"} /\ cmd.todo \subseteq old.todo
      BY <2>0, <3>1, <3>2 DEF Command, PluginsInv, CommandsTyped
    <3>4. Proper(cmd, packages')
      BY <2>0, <2>3, <3>2, <3>3 DEF Proper, WriteMcpConfig
    <3>5. a \in PluginAgents /\ old.plugin \in ToSet(Community)
      BY <2>0, <3>1, <3>2 DEF Command, Proper
    <3>6. /\ packages' = packages /\ installed' = installed /\ doubtful' = doubtful
          /\ codexGui' = codexGui /\ commands' = commands
      BY <2>3 DEF WriteMcpConfig
    <3>7. command' \in [Terminals -> Command]
      BY <3>3, OthersKept
    <3>8. mcpFiles' \subseteq ToSet(Community) \X PluginAgents
      BY <2>0, <3>1, <3>5 DEF PluginsTypeOK
    <3>9. PluginsTypeOK'
      BY <2>0, <3>6, <3>7, <3>8 DEF PluginsTypeOK, Command
    <3>10. \A f \in mcpFiles' \ mcpFiles : f[1] = old.plugin
      BY <3>1
    <3>. QED
      BY <3>2, <3>3, <3>4, <3>6, <3>9, <3>10, CommandStep
  <2>4. CASE LoadInstalled(c)
    <3> DEFINE cmd == [old EXCEPT !.read = installed, !.at = "save"]
    <3>1. command' = [command EXCEPT ![c] = cmd] /\ old.at = "load" /\ old.does # "nothing"
      BY <2>0, <2>4 DEF LoadInstalled, PluginsInv, CommandsTyped, Command, Proper
    <3>2. installed \in Entries
      BY <2>0 DEF PluginsTypeOK, Entries
    <3>3. /\ cmd \in Command
          /\ cmd.does = old.does /\ cmd.plugin = old.plugin /\ cmd.alone = old.alone
          /\ cmd.at = "save" /\ cmd.todo = old.todo /\ cmd.read = installed
      BY <2>0, <3>2 DEF Command
    <3>4. Proper(cmd, packages')
      BY <2>0, <2>4, <3>1, <3>2, <3>3 DEF Proper, LoadInstalled
    <3>5. PluginsTypeOK'
      BY <2>0, <2>4, <3>1, <3>3 DEF LoadInstalled, PluginsTypeOK, PluginsInv, CommandsTyped, Command
    <3>. QED
      BY <2>4, <3>1, <3>3, <3>4, <3>5, CommandStep DEF LoadInstalled
  <2>5. CASE RecordInstall(c)
    <3>1. /\ old.at = "save" /\ old.does = "install" /\ old.read \in Entries
          /\ command' = [command EXCEPT ![c] = NoCommand]
          /\ packages' = packages /\ mcpFiles' = mcpFiles
          /\ doubtful' = IF old.alone THEN doubtful \ {old.plugin} ELSE doubtful \cup {old.plugin}
      BY <2>0, <2>5 DEF RecordInstall, CommandAt, Finished, Proper
    <3>2. installed' \in Entries
      BY <2>0, <2>5, <3>1 DEF RecordInstall, Entries, Command
    <3>3. PluginsTypeOK'
      BY <2>0, <2>5, <3>1, <3>2, NoCommandTyped DEF RecordInstall, PluginsTypeOK, Entries, Command, PluginsInv, CommandsTyped
    <3>4. Proper(NoCommand, packages')
      BY NoCommandTyped DEF Proper
    <3>5. old.alone => old.plugin \in packages \/ old.plugin \notin ToSet(Community)
      BY <2>0, <3>1, GuiAside DEF Proper
    <3>. QED
      BY <3>1, <3>3, <3>4, <3>5, NoCommandTyped, CommandStep
  <2>6. CASE RemovePackage(c)
    <3> DEFINE cmd == [old EXCEPT !.at = "load"]
    <3>1. GoOn(c, "load") /\ packages' = packages \ {old.plugin} /\ old.does = "uninstall"
      BY <2>6 DEF RemovePackage, CommandAt
    <3>2. /\ cmd \in Command /\ command' = [command EXCEPT ![c] = cmd]
          /\ cmd.does = old.does /\ cmd.plugin = old.plugin /\ cmd.alone = old.alone
          /\ cmd.at = "load" /\ cmd.todo = old.todo
      BY <3>1, GoOnIs
    <3>3. Proper(cmd, packages')
      BY <2>0, <3>1, <3>2 DEF Proper
    <3>4. PluginsTypeOK'
      BY <2>0, <2>6, <3>1, <3>2 DEF RemovePackage, PluginsTypeOK, PluginsInv, CommandsTyped, Command
    <3>. QED
      BY <2>6, <3>1, <3>2, <3>3, <3>4, CommandStep DEF RemovePackage
  <2>7. CASE ForgetInstall(c)
    <3>1. /\ old.at = "save" /\ old.does = "uninstall" /\ old.read \in Entries
          /\ packages' = packages /\ mcpFiles' = mcpFiles
      BY <2>0, <2>7 DEF ForgetInstall, CommandAt, Proper
    <3>2. installed' \in Entries
      BY <2>0, <2>7, <3>1 DEF ForgetInstall, Entries, Command, PluginsTypeOK
    <3>3. CASE old.plugin = Gui
      <4>1. /\ command' = [command EXCEPT ![c] = NoCommand]
            /\ doubtful' = IF old.alone THEN doubtful \ {old.plugin} ELSE doubtful \cup {old.plugin}
        BY <2>7, <3>3 DEF ForgetInstall, Finished
      <4>2. PluginsTypeOK'
        BY <2>0, <2>7, <3>2, <4>1, NoCommandTyped DEF ForgetInstall, PluginsTypeOK, Entries, Command, PluginsInv, CommandsTyped
      <4>3. Proper(NoCommand, packages')
        BY NoCommandTyped DEF Proper
      <4>. QED
        BY <3>1, <3>3, <4>1, <4>2, <4>3, GuiAside, NoCommandTyped, CommandStep
    <3>4. CASE old.plugin # Gui
      <4> DEFINE cmd == [old EXCEPT !.at = "rmtree"]
      <4>1. GoOn(c, "rmtree") /\ doubtful' = doubtful /\ old.plugin \in ToSet(Community)
        BY <2>0, <2>7, <3>4 DEF ForgetInstall, Command, PluginIds
      <4>2. /\ cmd \in Command /\ command' = [command EXCEPT ![c] = cmd]
            /\ cmd.does = old.does /\ cmd.plugin = old.plugin /\ cmd.alone = old.alone
            /\ cmd.at = "rmtree" /\ cmd.todo = old.todo
        BY <4>1, GoOnIs
      <4>3. Proper(cmd, packages')
        BY <2>0, <3>1, <4>1, <4>2 DEF Proper
      <4>4. PluginsTypeOK'
        BY <2>0, <2>7, <3>2, <4>1, <4>2 DEF ForgetInstall, PluginsTypeOK, Entries, PluginsInv, CommandsTyped, Command
      <4>. QED
        BY <3>1, <4>1, <4>2, <4>3, <4>4, CommandStep
    <3>. QED
      BY <3>3, <3>4
  <2>8. CASE RemoveConfigs(c)
    <3>1. /\ old.does = "uninstall"
          /\ command' = [command EXCEPT ![c] = NoCommand]
          /\ packages' = packages
          /\ mcpFiles' = {f \in mcpFiles : f[1] # old.plugin}
          /\ doubtful' = IF old.alone THEN doubtful \ {old.plugin} ELSE doubtful \cup {old.plugin}
      BY <2>8 DEF RemoveConfigs, CommandAt, Finished
    <3>2. PluginsTypeOK'
      BY <2>0, <2>8, <3>1, NoCommandTyped DEF RemoveConfigs, PluginsTypeOK, Command, PluginsInv, CommandsTyped
    <3>3. Proper(NoCommand, packages')
      BY NoCommandTyped DEF Proper
    <3>4. \A a \in PluginAgents : <<old.plugin, a>> \notin mcpFiles'
      BY <3>1
    <3>. QED
      BY <3>1, <3>2, <3>3, <3>4, NoCommandTyped, CommandStep
  <2>9. ASSUME old.plugin = Gui, old.does # "nothing", codexGui' \in {"absent", "disabled", "ready"},
               UNCHANGED <<packages, installed, mcpFiles, commands>>,
               \/ Finished(c)
               \/ UNCHANGED doubtful /\ \E at \in {"load", "query"} : GoOn(c, at)
        PROVE  PluginsInv'
    <3>1. CASE Finished(c)
      <4>1. /\ command' = [command EXCEPT ![c] = NoCommand]
            /\ doubtful' = IF old.alone THEN doubtful \ {old.plugin} ELSE doubtful \cup {old.plugin}
        BY <3>1 DEF Finished
      <4>2. PluginsTypeOK'
        BY <2>0, <2>9, <4>1, NoCommandTyped DEF PluginsTypeOK, Command, PluginsInv, CommandsTyped
      <4>3. Proper(NoCommand, packages')
        BY NoCommandTyped DEF Proper
      <4>. QED
        BY <2>9, <4>1, <4>2, <4>3, GuiAside, NoCommandTyped, CommandStep
    <3>2. ASSUME UNCHANGED doubtful, NEW at \in {"load", "query"}, GoOn(c, at)
          PROVE  PluginsInv'
      <4> DEFINE cmd == [old EXCEPT !.at = at]
      <4>1. /\ cmd \in Command /\ command' = [command EXCEPT ![c] = cmd]
            /\ cmd.does = old.does /\ cmd.plugin = old.plugin /\ cmd.alone = old.alone
            /\ cmd.at = at /\ cmd.todo = old.todo
        <5>1. at \in {"query", "configs", "load", "save", "rmtree"}
          OBVIOUS
        <5>. QED
          BY <3>2, <5>1, GoOnIs
      <4>2. Proper(cmd, packages')
        BY <2>0, <2>9, <4>1 DEF Proper
      <4>3. PluginsTypeOK'
        BY <2>0, <2>9, <3>2, <4>1 DEF PluginsTypeOK, PluginsInv, CommandsTyped, Command
      <4>. QED
        BY <2>9, <3>2, <4>1, <4>2, <4>3, CommandStep
    <3>. QED
      BY <2>9, <3>1, <3>2
  <2>10. CASE InstallGui(c)
    BY <2>9, <2>10 DEF InstallGui, CommandAt
  <2>11. CASE UninstallGui(c)
    BY <2>9, <2>11 DEF UninstallGui, CommandAt
  <2>. QED
    BY <1>2, <2>1, <2>2, <2>3, <2>4, <2>5, <2>6, <2>7, <2>8, <2>10, <2>11
<1>. QED
  BY <1>1, <1>2, StartStep DEF PluginsNext

LEMMA PluginsInvHolds == PluginsSpec => []PluginsInv
  BY PluginsInvInit, PluginsInvStep, PTL DEF PluginsSpec

\* A server a run may reach belongs to a package that is there, for any
\* number of plugins, agents and terminals, although installed.json is read
\* and written without a lock (record_install, forget_install).
THEOREM AllowedServersInstalled == PluginsSpec => []AllowedHavePackages
<1>1. PluginsInv => AllowedHavePackages
  <2> SUFFICES ASSUME PluginsInv, NEW a \in PluginAgents, NEW p \in AllowedServers(a) \ doubtful
               PROVE  \/ p \in packages
                      \/ \E c \in Terminals : command[c].plugin = p /\ command[c].does # "nothing"
    BY DEF AllowedHavePackages
  <2>1. p \in ToSet(Community) /\ Configured(p)
    BY ActiveIsConfigured DEF Configured
  <2>. QED
    BY <2>1 DEF PluginsInv, Quiet, Busy
<1>. QED
  BY <1>1, PluginsInvHolds, PTL

\* The packages, the files and the commands keep their types.
LEMMA PluginsTyping == PluginsSpec => []PluginsTypeOK
<1>1. PluginsInv => PluginsTypeOK
  BY DEF PluginsInv
<1>. QED
  BY <1>1, PluginsInvHolds, PTL

HIDE PluginsAssumption

------------------------------------------------------------------------------
(***************************************************************************)
(* Proofs about Closure for any files, contents and obligations: what the  *)
(* closing of a run attests again comes from admitted attempts, and there  *)
(* always is something to attest.                                          *)
(*                                                                         *)
(* The log keeps the verdicts of rejected attempts, and an obligation that *)
(* is satisfied may well have one of those for its last: a repair of its   *)
(* node that failed elsewhere.  The invariant is that then another         *)
(* obligation of the node is not satisfied, so that the run does not close *)
(* before an attempt at all of them is admitted.                           *)
(***************************************************************************)

USE ClosureAssumption

HeldTyped ==
  held \in [Obls -> [status : {"open", "satisfied", "invalidated"}, watch : SUBSET WorkFiles]]

\* Of a node with a verdict that was rolled back something is not satisfied.
RolledBackUnclosed ==
  \A o \in rolledBack :
    \E u \in Obls : Owner[u] = Owner[o] /\ held[u].status # "satisfied"

\* What is satisfied has attestations, or a rejected verdict after it.
SatisfiedAttested ==
  \A o \in Obls : held[o].status = "satisfied" => latest[o] # {} \/ o \in rolledBack

ClosureInv == ClosureTypeOK /\ RolledBackUnclosed /\ SatisfiedAttested

-----------------------------------------------------------------------------
LEMMA AttestedTyped ==
  ASSUME NEW c \in [WorkFiles -> Versions \cup {"none"}], NEW s \in Attested(c)
  PROVE  s \subseteq Attestations
<1>1. CASE s = {}
  BY <1>1
<1>2. ASSUME NEW f \in WorkFiles, s = {[ref |-> f, digest |-> c[f], watch |-> {f}]}
      PROVE  s \subseteq Attestations
  <2>1. c[f] \in Versions \cup {"none"}
    OBVIOUS
  <2>2. [ref |-> f, digest |-> c[f], watch |-> {f}] \in Attestations
    BY <2>1 DEF Attestations
  <2>3. QED
    BY <1>2, <2>2
<1>3. ASSUME NEW w \in {{}, WorkFiles},
             s = {[ref |-> NoRef, digest |-> "claimed", watch |-> w]}
      PROVE  s \subseteq Attestations
  <2>1. [ref |-> NoRef, digest |-> "claimed", watch |-> w] \in Attestations
    BY DEF Attestations
  <2>2. QED
    BY <1>3, <2>1
<1>4. QED
  BY <1>1, <1>2, <1>3 DEF Attested

\* The watch set of an obligation that an attempt settles.
LEMMA WatchTyped ==
  ASSUME NEW s, s \subseteq Attestations
  PROVE  UNION {a.watch : a \in s} \subseteq WorkFiles
<1>1. \A a \in s : a.watch \subseteq WorkFiles
  BY DEF Attestations
<1>2. QED
  BY <1>1

\* What an attempt does to the obligations, its own and others.
LEMMA AttemptHeld ==
  ASSUME HeldTyped, NEW n, NEW good \in SUBSET ObligationsOf(n), NEW found, NEW touched,
         NEW admit \in BOOLEAN,
         \A o \in good : found[o] \subseteq Attestations,
         admit => good = ObligationsOf(n),
         held' = LET h == Settled(n, found, good, admit)
                 IN  IF admit THEN Invalidated(n, h, touched) ELSE h
  PROVE  /\ HeldTyped'
         /\ \A o \in Obls :
              /\ ~admit => held'[o] = held[o]
              /\ admit /\ Owner[o] = n => held'[o].status = "satisfied"
              /\ Owner[o] # n /\ held'[o].status = "satisfied" => held[o].status = "satisfied"
              /\ admit /\ Owner[o] # n /\ held[o].status # "satisfied" =>
                   held'[o].status # "satisfied"
<1> DEFINE H == [status : {"open", "satisfied", "invalidated"}, watch : SUBSET WorkFiles]
<1> DEFINE h == Settled(n, found, good, admit)
<1>1. CASE ~admit
  <2>1. h = [o \in Obls |-> held[o]]
    BY <1>1 DEF Settled
  <2>2. held' = held
    BY <1>1, <2>1 DEF HeldTyped
  <2>3. QED
    BY <1>1, <2>2 DEF HeldTyped
<1>2. CASE admit
  <2>1. ASSUME NEW o \in Obls
        PROVE  /\ h[o] \in H
               /\ Owner[o] = n => h[o].status = "satisfied"
               /\ Owner[o] # n => h[o] = held[o]
    <3>1. CASE Owner[o] = n
      <4>1. o \in good
        BY <1>2, <3>1 DEF ObligationsOf
      <4>2. h[o] = [status |-> "satisfied", watch |-> UNION {a.watch : a \in found[o]}]
        BY <1>2, <3>1 DEF Settled, ObligationsOf
      <4>3. UNION {a.watch : a \in found[o]} \subseteq WorkFiles
        BY <4>1, WatchTyped
      <4> HIDE DEF h
      <4>4. QED
        BY <3>1, <4>2, <4>3
    <3>2. CASE Owner[o] # n
      BY <3>2 DEF Settled, ObligationsOf, HeldTyped
    <3>3. QED
      BY <3>1, <3>2
  <2>2. held' = Invalidated(n, h, touched)
    BY <1>2
  <2> HIDE DEF h
  <2>3. ASSUME NEW o \in Obls
        PROVE  /\ held'[o] \in H
               /\ Owner[o] = n => held'[o] = h[o]
               /\ held'[o] # h[o] => held'[o].status = "invalidated" /\ h[o].status = "satisfied"
    BY <2>1, <2>2 DEF Invalidated, ObligationsOf
  <2>4. held' \in [Obls -> H]
    BY <2>2, <2>3 DEF Invalidated
  <2>5. QED
    BY <1>2, <2>1, <2>3, <2>4 DEF HeldTyped
<1>3. QED
  BY <1>1, <1>2

\* An attempt keeps the invariant, admitted or not.
LEMMA AttemptInv ==
  ASSUME ClosureInv, NEW n, Attempt(n)
  PROVE  ClosureInv'
<1>1. PICK c \in [WorkFiles -> Versions \cup {"none"}], good \in SUBSET ObligationsOf(n) :
        \E found \in [good -> Attested(c)] :
          LET touched == {f \in WorkFiles : c[f] # content[f]}
              admit == Admits(n, found, good)
          IN  /\ content' = IF admit THEN c ELSE content
              /\ latest' = [o \in Obls |-> IF o \in good THEN found[o] ELSE latest[o]]
              /\ rolledBack' = IF admit THEN rolledBack \ good ELSE rolledBack \cup good
              /\ held' = LET h == Settled(n, found, good, admit)
                         IN  IF admit THEN Invalidated(n, h, touched) ELSE h
  BY DEF Attempt
<1>2. PICK found \in [good -> Attested(c)] :
          LET touched == {f \in WorkFiles : c[f] # content[f]}
              admit == Admits(n, found, good)
          IN  /\ content' = IF admit THEN c ELSE content
              /\ latest' = [o \in Obls |-> IF o \in good THEN found[o] ELSE latest[o]]
              /\ rolledBack' = IF admit THEN rolledBack \ good ELSE rolledBack \cup good
              /\ held' = LET h == Settled(n, found, good, admit)
                         IN  IF admit THEN Invalidated(n, h, touched) ELSE h
  BY <1>1
<1> DEFINE touched == {f \in WorkFiles : c[f] # content[f]}
           admit == Admits(n, found, good)
<1>3. /\ content' = IF admit THEN c ELSE content
      /\ latest' = [o \in Obls |-> IF o \in good THEN found[o] ELSE latest[o]]
      /\ rolledBack' = IF admit THEN rolledBack \ good ELSE rolledBack \cup good
      /\ held' = LET h == Settled(n, found, good, admit)
                 IN  IF admit THEN Invalidated(n, h, touched) ELSE h
  BY <1>2
<1>4. admit \in BOOLEAN /\ (admit => good = ObligationsOf(n) /\ \A o \in good : found[o] # {})
  BY DEF Admits
<1> HIDE DEF touched, admit
<1>5. \A o \in good : found[o] \subseteq Attestations
  BY AttestedTyped
<1>6. good \subseteq Obls /\ \A o \in good : Owner[o] = n
  BY DEF ObligationsOf
<1>7. HeldTyped
  BY DEF ClosureInv, ClosureTypeOK, HeldTyped
<1>8. /\ HeldTyped'
      /\ \A o \in Obls :
           /\ ~admit => held'[o] = held[o]
           /\ admit /\ Owner[o] = n => held'[o].status = "satisfied"
           /\ Owner[o] # n /\ held'[o].status = "satisfied" => held[o].status = "satisfied"
           /\ admit /\ Owner[o] # n /\ held[o].status # "satisfied" =>
                held'[o].status # "satisfied"
  <2>1. admit => good = ObligationsOf(n)
    BY <1>4
  <2>2. held' = LET h == Settled(n, found, good, admit)
                IN  IF admit THEN Invalidated(n, h, touched) ELSE h
    BY <1>3
  <2>3. good \in SUBSET ObligationsOf(n) /\ admit \in BOOLEAN
    BY <1>4
  <2>. QED
    BY <1>5, <1>7, <2>1, <2>2, <2>3, AttemptHeld
<1>9. PICK v \in Obls : Owner[v] = n /\ held[v].status # "satisfied"
  BY DEF Attempt, ObligationsOf
<1>10. ClosureTypeOK'
  <2>1. content' \in [WorkFiles -> Versions \cup {"none"}]
    BY <1>3 DEF ClosureInv, ClosureTypeOK
  <2>2. \A o \in Obls : latest'[o] \subseteq Attestations
    BY <1>3, <1>5 DEF ClosureInv, ClosureTypeOK
  <2>3. rolledBack' \subseteq Obls
    BY <1>3, <1>6 DEF ClosureInv, ClosureTypeOK
  <2>4. succeeded' \in BOOLEAN
    BY DEF Attempt, ClosureInv, ClosureTypeOK
  <2>5. QED
    BY <1>8, <2>1, <2>2, <2>3, <2>4 DEF ClosureTypeOK, HeldTyped
<1>11. RolledBackUnclosed'
  <2> SUFFICES ASSUME NEW o \in rolledBack'
               PROVE  \E u \in Obls : Owner[u] = Owner[o] /\ held'[u].status # "satisfied"
    BY DEF RolledBackUnclosed
  <2>1. CASE ~admit /\ o \in good
    BY <1>6, <1>8, <1>9, <2>1
  <2>2. CASE ~admit /\ o \notin good
    <3>1. o \in rolledBack
      BY <1>3, <2>2
    <3>2. QED
      BY <1>8, <2>2, <3>1 DEF ClosureInv, RolledBackUnclosed
  <2>3. CASE admit
    <3>1. o \in rolledBack /\ o \notin good /\ o \in Obls
      BY <1>3, <2>3 DEF ClosureInv, ClosureTypeOK
    <3>2. Owner[o] # n
      BY <1>4, <2>3, <3>1 DEF ObligationsOf
    <3>3. PICK u \in Obls : Owner[u] = Owner[o] /\ held[u].status # "satisfied"
      BY <3>1 DEF ClosureInv, RolledBackUnclosed
    <3>4. QED
      BY <1>8, <2>3, <3>2, <3>3
  <2>4. QED
    BY <1>4, <2>1, <2>2, <2>3
<1>12. SatisfiedAttested'
  <2> SUFFICES ASSUME NEW o \in Obls, held'[o].status = "satisfied"
               PROVE  latest'[o] # {} \/ o \in rolledBack'
    BY DEF SatisfiedAttested
  <2>1. CASE o \in good
    BY <1>3, <1>4, <2>1
  <2>2. CASE o \notin good
    <3>1. latest'[o] = latest[o] /\ (o \in rolledBack => o \in rolledBack')
      BY <1>3, <2>2
    <3>2. held[o].status = "satisfied"
      BY <1>4, <1>8, <2>2 DEF ObligationsOf
    <3>3. QED
      BY <3>1, <3>2 DEF ClosureInv, SatisfiedAttested
  <2>3. QED
    BY <2>1, <2>2
<1>13. QED
  BY <1>10, <1>11, <1>12 DEF ClosureInv

LEMMA ClosureInvHolds == ClosureSpec => []ClosureInv
<1>1. ClosureInit => ClosureInv
  <2> SUFFICES ASSUME ClosureInit PROVE ClosureInv
    OBVIOUS
  <2>1. /\ held \in [Obls -> [status : {"open", "satisfied", "invalidated"},
                              watch : SUBSET WorkFiles]]
        /\ \A o \in Obls : held[o].status = "open"
    BY DEF ClosureInit
  <2>2. ClosureTypeOK
    BY <2>1 DEF ClosureInit, ClosureTypeOK
  <2>3. QED
    BY <2>1, <2>2 DEF ClosureInit, ClosureInv, RolledBackUnclosed, SatisfiedAttested
<1>2. ClosureInv /\ [ClosureNext]_closureVars => ClosureInv'
  <2> SUFFICES ASSUME ClosureInv, [ClosureNext]_closureVars PROVE ClosureInv'
    OBVIOUS
  <2>1. CASE CloseRun
    BY <2>1 DEF CloseRun, ClosureInv, ClosureTypeOK, RolledBackUnclosed, SatisfiedAttested
  <2>2. ASSUME NEW n \in {Owner[o] : o \in Obls}, Attempt(n) PROVE ClosureInv'
    BY <2>2, AttemptInv
  <2>3. CASE OutsideChange
    BY <2>3 DEF OutsideChange, ClosureInv, ClosureTypeOK, RolledBackUnclosed,
       SatisfiedAttested
  <2>4. CASE UNCHANGED closureVars
    BY <2>4 DEF closureVars, ClosureInv, ClosureTypeOK, RolledBackUnclosed,
       SatisfiedAttested
  <2>5. QED
    BY <2>1, <2>2, <2>3, <2>4 DEF ClosureNext
<1>3. QED
  BY <1>1, <1>2, PTL DEF ClosureSpec

-----------------------------------------------------------------------------
\* Nothing a rejected attempt saw is attested again (find_latest_satisfied_verdict
\* looks at all verdicts).
THEOREM ClosesFromAdmitted == ClosureSpec => []ClosureFromAdmitted
<1>1. ClosureInv => ClosureFromAdmitted
  BY DEF ClosureInv, RolledBackUnclosed, ClosureFromAdmitted, Closable, ClosureTypeOK
<1>2. QED
  BY <1>1, ClosureInvHolds, PTL

\* There is an attestation of every obligation (missing_rebind_attestation).
THEOREM ClosesAlways == ClosureSpec => []ClosureNeverStuck
<1>1. ClosureInv => ClosureNeverStuck
  <2> SUFFICES ASSUME ClosureInv, Closable, NEW o \in Obls
               PROVE  ClosureVerdict(o) # {}
    BY DEF ClosureNeverStuck
  <2>1. rolledBack = {}
    BY DEF ClosureInv, RolledBackUnclosed, Closable, ClosureTypeOK
  <2>2. held[o].status = "satisfied"
    BY DEF Closable
  <2>3. PICK a \in latest[o] : TRUE
    BY <2>1, <2>2 DEF ClosureInv, SatisfiedAttested
  <2>4. PICK b : b \in Rebound(a)
    BY DEF Rebound
  <2>5. b \in UNION {Rebound(x) : x \in latest[o]}
    BY <2>3, <2>4
  <2>6. QED
    BY <2>2, <2>5 DEF ClosureVerdict
<1>2. QED
  BY <1>1, ClosureInvHolds, PTL

\* The files, the obligations and their attestations keep their types.
LEMMA ClosureTyping == ClosureSpec => []ClosureTypeOK
<1>1. ClosureInv => ClosureTypeOK
  BY DEF ClosureInv
<1>. QED
  BY <1>1, ClosureInvHolds, PTL

HIDE ClosureAssumption

------------------------------------------------------------------------------
(***************************************************************************)
(* Proofs about TaskTree for any number of ticks and any depth.            *)
(*                                                                         *)
(* The obligations of a node never change, and those of a child are its    *)
(* share of its parent's; hence a node that replaces one of its name has   *)
(* the same obligations.  An obligation that is not refined is in the      *)
(* contract of a node that may still be worked on, or satisfied and in     *)
(* that of an admitted one, which a commit that invalidates it reopens.    *)
(***************************************************************************)

Statuses == {"pending", "ready", "in_progress", "admitted", "split", "superseded"}
Live == {"pending", "ready", "in_progress"}
NodeType ==
  [status : Statuses, refs : Seq(Seq(Nat)), streak : Nat, children : Seq(Seq(Nat))]

TreeTyped ==
  /\ RootNode \in DOMAIN nodes /\ DOMAIN nodes \subseteq Seq(Nat)
  /\ nodes \in [DOMAIN nodes -> NodeType]
  /\ DOMAIN covers \subseteq Seq(Nat)
  /\ covers \in [DOMAIN covers -> {"open", "satisfied", "invalidated"}]
  /\ treeTick \in Nat

\* The share of a node is at most four obligations, each once.
SmallShare(refs) ==
  /\ refs # <<>> /\ Len(refs) <= 4
  /\ \A i, j \in 1..Len(refs) : refs[i] = refs[j] => i = j

SharesSmall ==
  \A n \in DOMAIN nodes : /\ SmallShare(nodes[n].refs)
                          /\ ToSet(nodes[n].refs) \subseteq DOMAIN covers

\* A child has its parent, and a share of the parent's obligations: the child
\* of a split one of them, at its place.
ChildrenShare ==
  \A p \in Seq(Nat), i \in Nat : Append(p, i) \in DOMAIN nodes =>
    /\ p \in DOMAIN nodes
    /\ i <= MergeId + treeTick
    /\ treePc = "plan" => i < MergeId + treeTick
    /\ ToSet(nodes[Append(p, i)].refs) \subseteq ToSet(ChildRefs(nodes[p].refs))
    /\ i < MergeId => /\ i \in DOMAIN ChildRefs(nodes[p].refs)
                      /\ nodes[Append(p, i)].refs = <<ChildRefs(nodes[p].refs)[i]>>

\* The children a node lists are its own and exist.
ListsOwn ==
  \A p \in DOMAIN nodes : \A c \in ToSet(nodes[p].children) :
    c \in DOMAIN nodes /\ \E i \in Nat : c = Append(p, i)

Vouched(o) ==
  /\ covers[o] = "satisfied"
  /\ \E n \in DOMAIN nodes : nodes[n].status = "admitted" /\ o \in ToSet(nodes[n].refs)

AllCarried ==
  \A o \in DOMAIN covers : DerivedFrom(o) # {} \/ Assigned(o) \/ Vouched(o)

TreeInv ==
  TreeTyped /\ SharesSmall /\ ChildrenShare /\ ListsOwn /\ AllCarried /\ SomethingToDo

-----------------------------------------------------------------------------
LEMMA Appends ==
  ASSUME NEW p \in Seq(Nat), NEW i \in Nat
  PROVE  /\ Append(p, i) \in Seq(Nat) /\ Append(p, i) # <<>> /\ Append(p, i) # p
         /\ Last(Append(p, i)) = i
BY DEF Last

LEMMA AppendOnce ==
  ASSUME NEW p \in Seq(Nat), NEW q \in Seq(Nat), NEW i \in Nat, NEW j \in Nat,
         Append(p, i) = Append(q, j)
  PROVE  p = q /\ i = j
<1>1. /\ Len(Append(p, i)) = Len(p) + 1 /\ Len(Append(q, j)) = Len(q) + 1
      /\ Len(p) \in Nat /\ Len(q) \in Nat
      /\ Append(p, i)[Len(p) + 1] = i /\ Append(q, j)[Len(q) + 1] = j
  OBVIOUS
<1>2. Len(p) = Len(q) /\ i = j
  BY <1>1
<1>3. \A r \in Seq(Nat) : \A m \in Nat : \A k \in 1..Len(r) : r[k] = Append(r, m)[k]
  OBVIOUS
<1>4. [k \in 1..Len(p) |-> p[k]] = [k \in 1..Len(q) |-> q[k]]
  BY <1>2, <1>3
<1>5. p = [k \in 1..Len(p) |-> p[k]] /\ q = [k \in 1..Len(q) |-> q[k]]
  OBVIOUS
<1>. QED
  BY <1>2, <1>4, <1>5

LEMMA FirstOf ==
  ASSUME NEW T, NEW s \in Seq(T), s # <<>>
  PROVE  Len(s) \in Nat /\ Len(s) >= 1 /\ s[1] \in T
OBVIOUS

LEMMA OneOf ==
  ASSUME NEW x
  PROVE  ToSet(<<x>>) = {x}
<1>1. DOMAIN <<x>> = {1} /\ <<x>>[1] = x
  OBVIOUS
<1>. QED
  BY <1>1 DEF ToSet

LEMMA JoinedMembers ==
  ASSUME NEW T, NEW a \in Seq(T), NEW b \in Seq(T)
  PROVE  ToSet(a \o b) \subseteq ToSet(a) \cup ToSet(b)
<1>1. /\ DOMAIN a = 1..Len(a) /\ DOMAIN b = 1..Len(b)
      /\ DOMAIN (a \o b) = 1..(Len(a) + Len(b)) /\ Len(a) \in Nat /\ Len(b) \in Nat
      /\ \A i \in 1..Len(a) : (a \o b)[i] = a[i]
      /\ \A i \in 1..Len(b) : (a \o b)[Len(a) + i] = b[i]
  OBVIOUS
<1>2. ASSUME NEW i \in 1..(Len(a) + Len(b)), ~(i \in 1..Len(a))
      PROVE  i - Len(a) \in 1..Len(b) /\ (a \o b)[i] = b[i - Len(a)]
  <2>1. i - Len(a) \in 1..Len(b) /\ Len(a) + (i - Len(a)) = i
    BY <1>1, <1>2
  <2>. QED
    BY <1>1, <2>1
<1>. QED
  BY <1>1, <1>2 DEF ToSet

LEMMA AppendedMember ==
  ASSUME NEW T, NEW s \in Seq(T), NEW x \in T
  PROVE  ToSet(Append(s, x)) \subseteq ToSet(s) \cup {x}
<1>1. /\ DOMAIN s = 1..Len(s) /\ DOMAIN Append(s, x) = 1..(Len(s) + 1) /\ Len(s) \in Nat
      /\ \A i \in 1..Len(s) : Append(s, x)[i] = s[i]
      /\ Append(s, x)[Len(s) + 1] = x
  OBVIOUS
<1>2. \A i \in 1..(Len(s) + 1) : i = Len(s) + 1 \/ i \in 1..Len(s)
  BY <1>1
<1>. QED
  BY <1>1, <1>2 DEF ToSet

\* A new node is one.
LEMMA NewNodeTyped ==
  ASSUME NEW r \in Seq(Seq(Nat))
  PROVE  LET x == [NewNode(r) EXCEPT !.status = "ready"]
         IN  /\ x \in NodeType /\ x.refs = r /\ x.children = <<>> /\ x.status = "ready"
<1>. DEFINE x == [NewNode(r) EXCEPT !.status = "ready"]
<1>1. x = [status |-> "ready", refs |-> r, streak |-> 0, children |-> <<>>]
  BY DEF NewNode
<1>2. <<>> \in Seq(Seq(Nat)) /\ 0 \in Nat /\ "ready" \in Statuses
  BY DEF Statuses
<1>. HIDE DEF x
<1>3. x \in NodeType /\ x.refs = r /\ x.children = <<>> /\ x.status = "ready"
  BY <1>1, <1>2 DEF NodeType
<1>. QED
  BY <1>3 DEF x

\* A list without repetition of members of a finite set.
LEMMA DistinctFits ==
  ASSUME NEW T, NEW s \in Seq(T), NEW S, IsFiniteSet(S), ToSet(s) \subseteq S,
         \A i, j \in 1..Len(s) : s[i] = s[j] => i = j
  PROVE  Len(s) <= Cardinality(S)
<1>1. Len(s) \in Nat /\ DOMAIN s = 1..Len(s) /\ s = [i \in 1..Len(s) |-> s[i]]
  OBVIOUS
<1>2. \A i \in 1..Len(s) : s[i] \in S
  BY <1>1 DEF ToSet
<1>3. s \in Injection(1..Len(s), S)
  <2>1. s \in [1..Len(s) -> S]
    BY <1>1, <1>2
  <2>. QED
    BY <1>1, <2>1 DEF Injection, IsInjective
<1>4. Cardinality(1..Len(s)) <= Cardinality(S)
  BY <1>3, FS_Injection
<1>5. Cardinality(1..Len(s)) = Len(s)
  <2>1. \A n \in Nat : Cardinality(1..n) = n
    BY FS_Interval
  <2>. QED
    BY <1>1, <2>1
<1>. QED
  BY <1>4, <1>5

\* The members of a list are no more than its length.
LEMMA MembersFit ==
  ASSUME NEW T, NEW s \in Seq(T)
  PROVE  IsFiniteSet(ToSet(s)) /\ Cardinality(ToSet(s)) <= Len(s)
<1>1. Len(s) \in Nat /\ DOMAIN s = 1..Len(s) /\ s = [i \in 1..Len(s) |-> s[i]]
  OBVIOUS
<1>2. s \in Surjection(1..Len(s), ToSet(s))
  BY <1>1 DEF Surjection, ToSet
<1>3. ExistsSurjection(1..Len(s), ToSet(s))
  BY <1>2 DEF ExistsSurjection
<1>. QED
  BY <1>1, <1>3, FS_NatSurjection, FS_SurjCardinalityBound

\* What is dealt out to the children of a node.
LEMMA DealtOut ==
  ASSUME NEW refs \in Seq(Seq(Nat)), SmallShare(refs)
  PROVE  /\ ChildRefs(refs) \in Seq(Seq(Nat))
         /\ Len(ChildRefs(refs)) \in 1..4
         /\ DOMAIN ChildRefs(refs) = 1..Len(ChildRefs(refs))
         /\ IsFiniteSet(ToSet(ChildRefs(refs)))
         /\ Cardinality(ToSet(ChildRefs(refs))) <= 4
         /\ ~Refinement(refs) => ChildRefs(refs) = refs
<1>1. Len(refs) \in 1..4 /\ refs[1] \in Seq(Nat)
  <2>1. refs # <<>> /\ Len(refs) <= 4
    BY DEF SmallShare
  <2>2. Len(refs) \in Nat /\ Len(refs) >= 1 /\ refs[1] \in Seq(Nat)
    BY <2>1, FirstOf
  <2>3. \A m \in Nat : m >= 1 /\ m <= 4 => m \in 1..4
    OBVIOUS
  <2>. QED
    BY <2>1, <2>2, <2>3
<1>2. ChildRefs(refs) \in Seq(Seq(Nat)) /\ Len(ChildRefs(refs)) \in 1..4
  <2>1. CASE Refinement(refs)
    <3>1. Append(refs[1], 1) \in Seq(Nat) /\ Append(refs[1], 2) \in Seq(Nat)
      BY <1>1, Appends
    <3>. QED
      BY <2>1, <3>1 DEF ChildRefs
  <2>2. CASE ~Refinement(refs)
    BY <1>1, <2>2 DEF ChildRefs
  <2>. QED
    BY <2>1, <2>2
<1>3. /\ IsFiniteSet(ToSet(ChildRefs(refs)))
      /\ Cardinality(ToSet(ChildRefs(refs))) <= Len(ChildRefs(refs))
      /\ Cardinality(ToSet(ChildRefs(refs))) \in Nat
  BY <1>2, MembersFit, FS_CardinalityType
<1>4. Cardinality(ToSet(ChildRefs(refs))) <= 4
  <2>1. \A c \in Nat : \A m \in 1..4 : c <= m => c <= 4
    OBVIOUS
  <2>. QED
    BY <1>2, <1>3, <2>1
<1>5. DOMAIN ChildRefs(refs) = 1..Len(ChildRefs(refs))
  BY <1>2
<1>6. ~Refinement(refs) => ChildRefs(refs) = refs
  BY DEF ChildRefs
<1>. QED
  BY <1>2, <1>3, <1>4, <1>5, <1>6

\* SetToSeq lists the members of a finite set.
LEMMA ListOfSet ==
  ASSUME NEW T, NEW D \in SUBSET T, IsFiniteSet(D)
  PROVE  /\ SetToSeq(D) \in Seq(T) /\ ToSet(SetToSeq(D)) = D
         /\ \A i, j \in 1..Len(SetToSeq(D)) : SetToSeq(D)[i] = SetToSeq(D)[j] => i = j
<1>. DEFINE n == Cardinality(D)
            l == SetToSeq(D)
<1>1. n \in Nat /\ ExistsBijection(1..n, D)
  BY FS_CardinalityType
<1>2. PICK f \in [1..n -> D] : IsInjective(f)
  BY <1>1 DEF ExistsBijection, Bijection, Injection, IsInjective
<1>3. l \in [1..n -> D] /\ IsInjective(l)
  BY <1>2 DEF SetToSeq
<1>4. l \in Injection(1..n, D)
  BY <1>3 DEF IsInjective, Injection
<1>5. IsFiniteSet(1..n) /\ Cardinality(1..n) = n
  BY <1>1, FS_Interval
<1>6. l \in Surjection(1..n, D)
  BY <1>4, <1>5, FS_Injection
<1>. HIDE DEF n, l
<1>7. l \in Seq(T) /\ Len(l) = n
  <2>1. \A m \in Nat : \A q \in [1..m -> D] : q \in Seq(T) /\ Len(q) = m
    OBVIOUS
  <2>. QED
    BY <1>1, <1>3, <2>1
<1>8. ToSet(l) = D
  BY <1>3, <1>6 DEF ToSet, Surjection
<1>9. \A i, j \in 1..Len(l) : l[i] = l[j] => i = j
  BY <1>3, <1>7 DEF IsInjective
<1>. QED
  BY <1>7, <1>8, <1>9 DEF l

LEMMA JoinedLists ==
  ASSUME NEW T, NEW a \in Seq(T), NEW b \in Seq(T),
         ToSet(a) \cap ToSet(b) = {},
         \A i, j \in 1..Len(a) : a[i] = a[j] => i = j,
         \A i, j \in 1..Len(b) : b[i] = b[j] => i = j
  PROVE  /\ a \o b \in Seq(T) /\ ToSet(a \o b) = ToSet(a) \cup ToSet(b)
         /\ \A i, j \in 1..Len(a \o b) : (a \o b)[i] = (a \o b)[j] => i = j
<1>1. /\ DOMAIN a = 1..Len(a) /\ DOMAIN b = 1..Len(b)
      /\ DOMAIN (a \o b) = 1..(Len(a) + Len(b)) /\ Len(a) \in Nat /\ Len(b) \in Nat
      /\ Len(a \o b) = Len(a) + Len(b)
      /\ \A i \in 1..Len(a) : (a \o b)[i] = a[i]
      /\ \A i \in 1..Len(b) : (a \o b)[Len(a) + i] = b[i]
      /\ a \o b \in Seq(T)
  OBVIOUS
<1>2. \A i \in 1..(Len(a) + Len(b)) :
        \/ i \in 1..Len(a) /\ (a \o b)[i] = a[i]
        \/ /\ i - Len(a) \in 1..Len(b)
           /\ (a \o b)[i] = b[i - Len(a)]
  <2>. SUFFICES ASSUME NEW i \in 1..(Len(a) + Len(b)), ~(i \in 1..Len(a))
                PROVE  i - Len(a) \in 1..Len(b) /\ (a \o b)[i] = b[i - Len(a)]
    BY <1>1
  <2>1. i - Len(a) \in 1..Len(b) /\ Len(a) + (i - Len(a)) = i
    BY <1>1
  <2>. QED
    BY <1>1, <2>1
<1>3. ToSet(a \o b) \subseteq ToSet(a) \cup ToSet(b)
  BY <1>1, <1>2 DEF ToSet
<1>4. ToSet(a) \subseteq ToSet(a \o b)
  <2>1. \A i \in 1..Len(a) : i \in DOMAIN (a \o b)
    BY <1>1
  <2>. QED
    BY <1>1, <2>1 DEF ToSet
<1>5. ToSet(b) \subseteq ToSet(a \o b)
  <2>1. \A i \in 1..Len(b) : Len(a) + i \in DOMAIN (a \o b)
    BY <1>1
  <2>2. \A i \in DOMAIN b : \E k \in DOMAIN (a \o b) : (a \o b)[k] = b[i]
    BY <1>1, <2>1
  <2>. QED
    BY <2>2 DEF ToSet
<1>6. ASSUME NEW i \in 1..Len(a \o b), NEW j \in 1..Len(a \o b), (a \o b)[i] = (a \o b)[j]
      PROVE  i = j
  <2>1. \A k \in 1..Len(a), m \in 1..Len(b) : a[k] # b[m]
    <3>1. \A k \in DOMAIN a : a[k] \in ToSet(a)
      BY DEF ToSet
    <3>2. \A m \in DOMAIN b : b[m] \in ToSet(b)
      BY DEF ToSet
    <3>. QED
      BY <1>1, <3>1, <3>2
  <2>2. i \in 1..(Len(a) + Len(b)) /\ j \in 1..(Len(a) + Len(b))
    BY <1>1
  <2>3. CASE i \in 1..Len(a) /\ (a \o b)[i] = a[i]
    <3>1. j \in 1..Len(a) /\ (a \o b)[j] = a[j]
      BY <1>2, <1>6, <2>1, <2>2, <2>3
    <3>. QED
      BY <1>6, <2>3, <3>1
  <2>4. CASE i - Len(a) \in 1..Len(b) /\ (a \o b)[i] = b[i - Len(a)]
    <3>1. j - Len(a) \in 1..Len(b) /\ (a \o b)[j] = b[j - Len(a)]
      BY <1>2, <1>6, <2>1, <2>2, <2>4
    <3>2. i - Len(a) = j - Len(a)
      BY <1>6, <2>4, <3>1
    <3>. QED
      BY <1>1, <2>2, <3>2
  <2>. QED
    BY <1>2, <2>2, <2>3, <2>4
<1>. QED
  BY <1>1, <1>3, <1>4, <1>5, <1>6

\* The obligations of a merged node are those of its sources, and still few.
LEMMA MergedShare ==
  ASSUME NEW a, NEW b, NEW S, IsFiniteSet(S), Cardinality(S) <= 4,
         nodes[a].refs \in Seq(Seq(Nat)), nodes[b].refs \in Seq(Seq(Nat)),
         SmallShare(nodes[a].refs), SmallShare(nodes[b].refs),
         ToSet(nodes[a].refs) \subseteq S, ToSet(nodes[b].refs) \subseteq S
  PROVE  /\ MergedRefs(a, b) \in Seq(Seq(Nat)) /\ SmallShare(MergedRefs(a, b))
         /\ ToSet(MergedRefs(a, b)) = ToSet(nodes[a].refs) \cup ToSet(nodes[b].refs)
<1>. DEFINE r == nodes[a].refs
            q == nodes[b].refs
            D == ToSet(q) \ ToSet(r)
            l == SetToSeq(D)
<1>1. /\ r \in Seq(Seq(Nat)) /\ q \in Seq(Seq(Nat)) /\ SmallShare(r) /\ SmallShare(q)
      /\ ToSet(r) \subseteq S /\ ToSet(q) \subseteq S /\ MergedRefs(a, b) = r \o l
  BY DEF MergedRefs
<1>. HIDE DEF r, q
<1>2. IsFiniteSet(D) /\ D \subseteq Seq(Nat)
  <2>1. IsFiniteSet(ToSet(q)) /\ D \subseteq ToSet(q)
    BY <1>1, MembersFit
  <2>2. ToSet(q) \subseteq Seq(Nat)
    BY <1>1 DEF ToSet
  <2>. QED
    BY <2>1, <2>2, FS_Subset
<1>3. /\ l \in Seq(Seq(Nat)) /\ ToSet(l) = D
      /\ \A i, j \in 1..Len(l) : l[i] = l[j] => i = j
  <2>. HIDE DEF D
  <2>. QED
    BY <1>2, ListOfSet
<1>4. ToSet(r) \cap ToSet(l) = {} /\ ToSet(r) \cup ToSet(l) = ToSet(r) \cup ToSet(q)
  BY <1>3
<1>. HIDE DEF l, D
<1>5. /\ r \o l \in Seq(Seq(Nat)) /\ ToSet(r \o l) = ToSet(r) \cup ToSet(l)
      /\ \A i, j \in 1..Len(r \o l) : (r \o l)[i] = (r \o l)[j] => i = j
  <2>1. \A i, j \in 1..Len(r) : r[i] = r[j] => i = j
    BY <1>1 DEF SmallShare
  <2>. QED
    BY <1>1, <1>3, <1>4, <2>1, JoinedLists
<1>6. Len(r \o l) <= Cardinality(S)
  BY <1>1, <1>4, <1>5, DistinctFits
<1>7. r \o l # <<>> /\ Len(r \o l) \in Nat /\ Cardinality(S) \in Nat
  BY <1>1, <1>3, FS_CardinalityType DEF SmallShare
<1>8. Len(r \o l) <= 4
  BY <1>6, <1>7
<1>9. SmallShare(r \o l)
  BY <1>5, <1>7, <1>8 DEF SmallShare
<1>. QED
  BY <1>1, <1>4, <1>5, <1>9 DEF r, q

-----------------------------------------------------------------------------
\* A promotion makes pending nodes ready and changes nothing else.
LEMMA PromotedFacts ==
  ASSUME NEW K, NEW N \in [K -> NodeType], NEW D
  PROVE  /\ PromotedNodes(N, D) \in [K -> NodeType]
         /\ \A n \in K : /\ PromotedNodes(N, D)[n].refs = N[n].refs
                         /\ PromotedNodes(N, D)[n].children = N[n].children
                         /\ \/ PromotedNodes(N, D)[n].status = N[n].status
                            \/ /\ N[n].status = "pending"
                               /\ PromotedNodes(N, D)[n].status = "ready"
<1>1. PromotedNodes(N, D) =
        [n \in K |-> IF /\ N[n].status = "pending"
                        /\ \A d \in D : d[1] = n => N[d[2]].status = "admitted"
                     THEN [N[n] EXCEPT !.status = "ready"] ELSE N[n]]
  BY DEF PromotedNodes
<1>2. ASSUME NEW x \in NodeType
      PROVE  /\ [x EXCEPT !.status = "ready"] \in NodeType
             /\ [x EXCEPT !.status = "ready"].status = "ready"
             /\ [x EXCEPT !.status = "ready"].refs = x.refs
             /\ [x EXCEPT !.status = "ready"].children = x.children
  BY DEF NodeType, Statuses
<1>3. \A n \in K : N[n] \in NodeType
  OBVIOUS
<1>. QED
  BY <1>1, <1>2, <1>3

LEMMA ReopenedFacts ==
  ASSUME TreeTyped
  PROVE  /\ Reopened \in [DOMAIN nodes -> NodeType]
         /\ \A n \in DOMAIN nodes :
              /\ Reopened[n].refs = nodes[n].refs
              /\ Reopened[n].children = nodes[n].children
              /\ Reopened[n].status = IF nodes[n].status = "in_progress" THEN "ready"
                                      ELSE nodes[n].status
<1>1. \A n \in DOMAIN nodes : nodes[n] \in NodeType
  BY DEF TreeTyped
<1>2. ASSUME NEW x \in NodeType
      PROVE  /\ [x EXCEPT !.status = "ready"] \in NodeType
             /\ [x EXCEPT !.status = "ready"].status = "ready"
             /\ [x EXCEPT !.status = "ready"].refs = x.refs
             /\ [x EXCEPT !.status = "ready"].children = x.children
  BY DEF NodeType, Statuses
<1>. QED
  BY <1>1, <1>2 DEF Reopened

\* The new state has the nodes and the shares of the old one.
SameShares ==
  /\ DOMAIN nodes' = DOMAIN nodes
  /\ nodes' \in [DOMAIN nodes -> NodeType]
  /\ \A n \in DOMAIN nodes : /\ nodes'[n].refs = nodes[n].refs
                             /\ nodes'[n].children = nodes[n].children

LEMMA SharesStay ==
  ASSUME TreeInv, SameShares, DOMAIN covers' = DOMAIN covers,
         covers' \in [DOMAIN covers -> {"open", "satisfied", "invalidated"}],
         \/ treeTick' = treeTick /\ treePc' # "plan"
         \/ treeTick' = treeTick + 1
  PROVE  TreeTyped' /\ SharesSmall' /\ ChildrenShare' /\ ListsOwn'
<1>1. TreeTyped'
  BY DEF TreeInv, TreeTyped, SameShares
<1>2. SharesSmall'
  BY DEF TreeInv, SharesSmall, SameShares
<1>3. ChildrenShare'
  <2>. SUFFICES ASSUME NEW p \in Seq(Nat), NEW i \in Nat, Append(p, i) \in DOMAIN nodes
                PROVE  /\ p \in DOMAIN nodes
                       /\ i <= MergeId + treeTick'
                       /\ treePc' = "plan" => i < MergeId + treeTick'
                       /\ ToSet(nodes[Append(p, i)].refs) \subseteq ToSet(ChildRefs(nodes[p].refs))
                       /\ i < MergeId =>
                            /\ i \in DOMAIN ChildRefs(nodes[p].refs)
                            /\ nodes[Append(p, i)].refs = <<ChildRefs(nodes[p].refs)[i]>>
    <3>1. \A q \in DOMAIN nodes : nodes'[q].refs = nodes[q].refs
      BY DEF SameShares
    <3>. QED
      BY <3>1 DEF ChildrenShare, SameShares, TreeInv
  <2>1. treeTick \in Nat
    BY DEF TreeInv, TreeTyped
  <2>2. /\ p \in DOMAIN nodes
        /\ i <= MergeId + treeTick
        /\ ToSet(nodes[Append(p, i)].refs) \subseteq ToSet(ChildRefs(nodes[p].refs))
        /\ i < MergeId => /\ i \in DOMAIN ChildRefs(nodes[p].refs)
                          /\ nodes[Append(p, i)].refs = <<ChildRefs(nodes[p].refs)[i]>>
    BY DEF TreeInv, ChildrenShare
  <2>3. /\ i <= MergeId + treeTick'
        /\ treePc' = "plan" => i < MergeId + treeTick'
    BY <2>1, <2>2 DEF MergeId
  <2>. QED
    BY <2>2, <2>3
<1>4. ListsOwn'
  BY DEF TreeInv, ListsOwn, SameShares
<1>. QED
  BY <1>1, <1>2, <1>3, <1>4

\* Nodes to work on stay such nodes, or are admitted with what is satisfied;
\* admitted ones stay admitted or are worked on again.
StatusKept ==
  \A n \in DOMAIN nodes :
    /\ nodes[n].status \in Live =>
         \/ nodes'[n].status \in Live
         \/ /\ nodes'[n].status = "admitted"
            /\ \A o \in ToSet(nodes[n].refs) : covers'[o] = "satisfied"
    /\ nodes[n].status = "admitted" =>
         \/ nodes'[n].status \in Live
         \/ nodes'[n].status = "admitted"

LEMMA CarriedStays ==
  ASSUME TreeInv, SameShares, StatusKept, UNCHANGED covers
  PROVE  AllCarried'
<1>. SUFFICES ASSUME NEW o \in DOMAIN covers
              PROVE  (DerivedFrom(o) # {})' \/ Assigned(o)' \/ Vouched(o)'
  BY DEF AllCarried
<1>1. DerivedFrom(o) # {} => (DerivedFrom(o) # {})'
  BY DEF DerivedFrom
<1>2. ASSUME Assigned(o) PROVE Assigned(o)' \/ Vouched(o)'
  <2>1. PICK n \in DOMAIN nodes : nodes[n].status \in Live /\ o \in ToSet(nodes[n].refs)
    BY <1>2 DEF Assigned, Live
  <2>2. n \in DOMAIN nodes' /\ o \in ToSet(nodes'[n].refs)
    BY <2>1 DEF SameShares
  <2>. QED
    BY <2>1, <2>2 DEF StatusKept, Assigned, Vouched, Live
<1>3. ASSUME Vouched(o) PROVE Assigned(o)' \/ Vouched(o)'
  <2>1. PICK n \in DOMAIN nodes : nodes[n].status = "admitted" /\ o \in ToSet(nodes[n].refs)
    BY <1>3 DEF Vouched
  <2>2. n \in DOMAIN nodes' /\ o \in ToSet(nodes'[n].refs)
    BY <2>1 DEF SameShares
  <2>. QED
    BY <1>3, <2>1, <2>2 DEF StatusKept, Assigned, Vouched, Live
<1>. QED
  BY <1>1, <1>2, <1>3 DEF TreeInv, AllCarried

-----------------------------------------------------------------------------
LEMMA QuietKeeps ==
  ASSUME TreeInv, LeaveTree \/ SplitRefused \/ NothingReady
  PROVE  TreeInv'
<1>1. TreeTyped
  BY DEF TreeInv
<1>2. SameShares /\ StatusKept
  <2>1. CASE NothingReady
    <3>1. nodes' = Reopened
      BY <2>1 DEF NothingReady
    <3>. QED
      BY <1>1, <3>1, ReopenedFacts DEF SameShares, StatusKept, Live
  <2>2. CASE LeaveTree \/ SplitRefused
    <3>1. nodes' = nodes
      BY <2>2 DEF LeaveTree, SplitRefused
    <3>. QED
      BY <1>1, <3>1 DEF SameShares, StatusKept, TreeTyped
  <2>. QED
    BY <2>1, <2>2
<1>3. UNCHANGED covers
  BY DEF LeaveTree, SplitRefused, NothingReady
<1>4. \/ treeTick' = treeTick /\ treePc' # "plan"
      \/ treeTick' = treeTick + 1
  BY DEF LeaveTree, SplitRefused, NothingReady, NextTick
<1>5. TreeTyped' /\ SharesSmall' /\ ChildrenShare' /\ ListsOwn'
  BY <1>1, <1>2, <1>3, <1>4, SharesStay DEF TreeTyped
<1>6. AllCarried'
  BY <1>2, <1>3, CarriedStays
<1>7. SomethingToDo'
  BY DEF TreeInv, SomethingToDo, LeaveTree, SplitRefused, NothingReady, NextTick,
         AllReady, WithStatus
<1>. QED
  BY <1>5, <1>6, <1>7 DEF TreeInv

LEMMA RepairKeeps ==
  ASSUME TreeInv, NEW n \in DOMAIN nodes, RepairNode(n)
  PROVE  TreeInv'
<1>1. TreeTyped
  BY DEF TreeInv
<1>2. Reopened \in [DOMAIN nodes -> NodeType]
  BY <1>1, ReopenedFacts
<1>3. Reopened[n].streak + 1 \in Nat
  BY <1>2 DEF NodeType
<1>4. nodes' = [Reopened EXCEPT ![n].status = "ready", ![n].streak = Reopened[n].streak + 1]
  BY DEF RepairNode
<1>5. /\ nodes' \in [DOMAIN nodes -> NodeType]
      /\ \A m \in DOMAIN nodes :
           /\ nodes'[m].refs = Reopened[m].refs /\ nodes'[m].children = Reopened[m].children
           /\ nodes'[m].status = IF m = n THEN "ready" ELSE Reopened[m].status
  BY <1>2, <1>3, <1>4 DEF NodeType, Statuses
<1>6. SameShares /\ StatusKept
  BY <1>1, <1>5, ReopenedFacts DEF SameShares, StatusKept, Live
<1>7. UNCHANGED covers /\ treeTick' = treeTick /\ treePc' = "close"
  BY DEF RepairNode
<1>8. TreeTyped' /\ SharesSmall' /\ ChildrenShare' /\ ListsOwn'
  BY <1>1, <1>6, <1>7, SharesStay DEF TreeTyped
<1>9. AllCarried' /\ SomethingToDo'
  BY <1>6, <1>7, CarriedStays DEF SomethingToDo
<1>. QED
  BY <1>8, <1>9 DEF TreeInv

LEMMA CloseKeeps ==
  ASSUME TreeInv, CloseTree
  PROVE  TreeInv'
<1>1. TreeTyped /\ nodes \in [DOMAIN nodes -> NodeType] /\ RootNode \in DOMAIN nodes
  BY DEF TreeInv, TreeTyped
<1>2. UNCHANGED covers /\ treeTick' = treeTick + 1 /\ treePc' = "plan"
  BY DEF CloseTree, NextTick
<1>3. nodes[RootNode].streak + 1 \in Nat /\ 0 \in Nat
  BY <1>1 DEF NodeType
<1>4. SameShares /\ StatusKept /\ SomethingToDo'
  <2>1. CASE ~ClosureWanted
    <3>1. UNCHANGED <<nodes, runState>>
      BY <2>1 DEF CloseTree
    <3>2. AllReady # {}
      BY <2>1 DEF ClosureWanted, AllReady, Pool, WithStatus
    <3>. QED
      BY <1>1, <3>1, <3>2 DEF SameShares, StatusKept, SomethingToDo, AllReady, WithStatus
  <2>2. CASE ClosureWanted /\ \A o \in ToSet(nodes[RootNode].refs) : covers[o] = "satisfied"
    <3>1. /\ runState' = "succeeded"
          /\ nodes' = [nodes EXCEPT ![RootNode].status = "admitted", ![RootNode].streak = 0]
      BY <2>2 DEF CloseTree
    <3>2. /\ nodes' \in [DOMAIN nodes -> NodeType]
          /\ \A m \in DOMAIN nodes :
               /\ nodes'[m].refs = nodes[m].refs /\ nodes'[m].children = nodes[m].children
               /\ nodes'[m].status = IF m = RootNode THEN "admitted" ELSE nodes[m].status
      BY <1>1, <1>3, <3>1 DEF NodeType, Statuses
    <3>. QED
      BY <1>2, <2>2, <3>1, <3>2 DEF SameShares, StatusKept, SomethingToDo, Live
  <2>3. CASE ClosureWanted /\ ~\A o \in ToSet(nodes[RootNode].refs) : covers[o] = "satisfied"
    <3>1. nodes' = [nodes EXCEPT ![RootNode].status = "ready",
                                 ![RootNode].streak = nodes[RootNode].streak + 1]
      BY <2>3 DEF CloseTree
    <3>2. /\ nodes' \in [DOMAIN nodes -> NodeType]
          /\ \A m \in DOMAIN nodes :
               /\ nodes'[m].refs = nodes[m].refs /\ nodes'[m].children = nodes[m].children
               /\ nodes'[m].status = IF m = RootNode THEN "ready" ELSE nodes[m].status
      BY <1>1, <1>3, <3>1 DEF NodeType, Statuses
    <3>3. RootNode \in AllReady'
      BY <1>1, <3>2 DEF AllReady, WithStatus
    <3>. QED
      BY <3>2, <3>3 DEF SameShares, StatusKept, SomethingToDo, Live
  <2>. QED
    BY <2>1, <2>2, <2>3
<1>5. TreeTyped' /\ SharesSmall' /\ ChildrenShare' /\ ListsOwn'
  BY <1>1, <1>2, <1>4, SharesStay DEF TreeTyped
<1>6. AllCarried'
  BY <1>2, <1>4, CarriedStays
<1>. QED
  BY <1>4, <1>5, <1>6 DEF TreeInv

LEMMA AdmitKeeps ==
  ASSUME TreeInv, NEW n \in DOMAIN nodes, AdmitNode(n)
  PROVE  TreeInv'
<1>. DEFINE own == ToSet(nodes[n].refs)
            admitted == [Reopened EXCEPT ![n].status = "admitted", ![n].streak = 0]
            promoted == PromotedNodes(admitted, depends)
<1>1. TreeTyped
  BY DEF TreeInv
<1>2. PICK stale \in SUBSET {o \in DOMAIN covers \ own : covers[o] = "satisfied"} :
        /\ covers' = [o \in DOMAIN covers |->
             CASE o \in own -> "satisfied" [] o \in stale -> "invalidated"
               [] OTHER -> covers[o]]
        /\ nodes' = [m \in DOMAIN nodes |->
             IF promoted[m].status = "admitted" /\ ToSet(promoted[m].refs) \cap stale # {}
             THEN [promoted[m] EXCEPT !.status = "in_progress"] ELSE promoted[m]]
  BY DEF AdmitNode
<1>3. Reopened \in [DOMAIN nodes -> NodeType]
  BY <1>1, ReopenedFacts
<1>4. /\ admitted \in [DOMAIN nodes -> NodeType]
      /\ \A m \in DOMAIN nodes :
           /\ admitted[m].refs = Reopened[m].refs /\ admitted[m].children = Reopened[m].children
           /\ admitted[m].status = IF m = n THEN "admitted" ELSE Reopened[m].status
  BY <1>3 DEF NodeType, Statuses
<1>. HIDE DEF admitted
<1>5. /\ promoted \in [DOMAIN nodes -> NodeType]
      /\ \A m \in DOMAIN nodes :
           /\ promoted[m].refs = admitted[m].refs /\ promoted[m].children = admitted[m].children
           /\ \/ promoted[m].status = admitted[m].status
              \/ admitted[m].status = "pending" /\ promoted[m].status = "ready"
  BY <1>4, PromotedFacts
<1>. HIDE DEF promoted
<1>6. \A m \in DOMAIN nodes :
        /\ promoted[m].refs = nodes[m].refs /\ promoted[m].children = nodes[m].children
        /\ m = n => promoted[m].status = "admitted"
        /\ m # n /\ nodes[m].status \in Live => promoted[m].status \in Live
        /\ m # n /\ nodes[m].status = "admitted" => promoted[m].status = "admitted"
  BY <1>1, <1>4, <1>5, ReopenedFacts DEF Live
<1>7. /\ nodes' \in [DOMAIN nodes -> NodeType]
      /\ \A m \in DOMAIN nodes :
           /\ nodes'[m].refs = promoted[m].refs /\ nodes'[m].children = promoted[m].children
           /\ nodes'[m].status =
                IF promoted[m].status = "admitted" /\ ToSet(promoted[m].refs) \cap stale # {}
                THEN "in_progress" ELSE promoted[m].status
  <2>1. ASSUME NEW x \in NodeType
        PROVE  /\ [x EXCEPT !.status = "in_progress"] \in NodeType
               /\ [x EXCEPT !.status = "in_progress"].status = "in_progress"
               /\ [x EXCEPT !.status = "in_progress"].refs = x.refs
               /\ [x EXCEPT !.status = "in_progress"].children = x.children
    BY DEF NodeType, Statuses
  <2>2. \A m \in DOMAIN nodes : promoted[m] \in NodeType
    BY <1>5
  <2>. QED
    BY <1>2, <2>1, <2>2
<1>8. SameShares
  BY <1>6, <1>7 DEF SameShares
<1>9. /\ DOMAIN covers' = DOMAIN covers
      /\ covers' \in [DOMAIN covers -> {"open", "satisfied", "invalidated"}]
      /\ \A o \in own \cap DOMAIN covers : covers'[o] = "satisfied"
      /\ \A o \in DOMAIN covers \ (own \cup stale) : covers'[o] = covers[o]
      /\ stale \cap own = {}
  BY <1>1, <1>2 DEF TreeTyped
<1>10. treeTick' = treeTick /\ treePc' = "close"
  BY DEF AdmitNode
<1>11. TreeTyped' /\ SharesSmall' /\ ChildrenShare' /\ ListsOwn'
  BY <1>8, <1>9, <1>10, SharesStay
<1>12. ASSUME NEW o \in DOMAIN covers
       PROVE  (DerivedFrom(o) # {})' \/ Assigned(o)' \/ Vouched(o)'
  <2>1. DerivedFrom(o) # {} => (DerivedFrom(o) # {})'
    BY <1>9 DEF DerivedFrom
  <2>2. CASE o \in own
    <3>1. covers'[o] = "satisfied"
      BY <1>9, <2>2
    <3>2. nodes'[n].status = "admitted" /\ o \in ToSet(nodes'[n].refs)
      BY <1>6, <1>7, <1>9, <2>2
    <3>3. n \in DOMAIN nodes'
      BY <1>8 DEF SameShares
    <3>. QED
      BY <3>1, <3>2, <3>3 DEF Vouched
  <2>3. CASE o \notin own /\ Assigned(o)
    <3>1. PICK m \in DOMAIN nodes : nodes[m].status \in Live /\ o \in ToSet(nodes[m].refs)
      BY <2>3 DEF Assigned, Live
    <3>2. m # n /\ m \in DOMAIN nodes'
      BY <1>8, <2>3, <3>1 DEF SameShares
    <3>3. nodes'[m].status \in Live /\ o \in ToSet(nodes'[m].refs)
      BY <1>6, <1>7, <3>1, <3>2 DEF Live
    <3>. QED
      BY <3>2, <3>3 DEF Assigned, Live
  <2>4. CASE o \notin own /\ Vouched(o)
    <3>1. PICK m \in DOMAIN nodes : nodes[m].status = "admitted" /\ o \in ToSet(nodes[m].refs)
      BY <2>4 DEF Vouched
    <3>2. m # n /\ m \in DOMAIN nodes'
      BY <1>8, <2>4, <3>1 DEF SameShares
    <3>3. o \in ToSet(nodes'[m].refs)
      BY <1>6, <1>7, <3>1
    <3>4. CASE nodes'[m].status = "in_progress"
      BY <3>2, <3>3, <3>4 DEF Assigned
    <3>5. CASE nodes'[m].status # "in_progress"
      <4>1. nodes'[m].status = "admitted" /\ ToSet(promoted[m].refs) \cap stale = {}
        BY <1>6, <1>7, <3>1, <3>2, <3>5
      <4>2. o \notin stale
        BY <1>6, <3>1, <4>1
      <4>3. covers'[o] = "satisfied"
        BY <1>9, <2>4, <4>2 DEF Vouched
      <4>. QED
        BY <3>2, <3>3, <4>1, <4>3 DEF Vouched
    <3>. QED
      BY <3>4, <3>5
  <2>. QED
    BY <2>1, <2>2, <2>3, <2>4 DEF TreeInv, AllCarried
<1>13. AllCarried'
  BY <1>9, <1>12 DEF AllCarried
<1>14. SomethingToDo'
  BY <1>10 DEF SomethingToDo
<1>. QED
  BY <1>11, <1>13, <1>14 DEF TreeInv

\* The children of a split replace the nodes of their names, whose obligations
\* they have; a refined obligation has its two derived ones.
LEMMA SplitKeeps ==
  ASSUME TreeInv, NEW n \in DOMAIN nodes, CommitSplit(n)
  PROVE  TreeInv'
<1>. DEFINE single == Refinement(nodes[n].refs)
            refs == ChildRefs(nodes[n].refs)
            children == [i \in DOMAIN refs |-> Append(n, i)]
            new == [c \in ToSet(children) |-> NewNode(<<refs[Last(c)]>>)]
            split == [nodes EXCEPT ![n].status = "split",
                                   ![n].children = nodes[n].children \o children]
            tree == Upserted(new, split)
            K == DOMAIN nodes \cup ToSet(children)
<1>1. /\ TreeTyped /\ SharesSmall /\ ChildrenShare /\ ListsOwn
      /\ n \in Seq(Nat) /\ nodes[n] \in NodeType /\ nodes \in [DOMAIN nodes -> NodeType]
  BY DEF TreeInv, TreeTyped
<1>2. /\ treePc = "plan" /\ treePc' = "phase1" /\ treeTick' = treeTick
      /\ covers' = IF single THEN Upserted([o \in ToSet(refs) |-> "open"], covers) ELSE covers
      /\ nodes' = PromotedNodes(tree, depends')
  BY DEF CommitSplit
<1>3. nodes[n].refs \in Seq(Seq(Nat)) /\ SmallShare(nodes[n].refs)
  BY <1>1 DEF NodeType, SharesSmall
<1>4. /\ refs \in Seq(Seq(Nat)) /\ Len(refs) \in 1..4 /\ DOMAIN refs = 1..Len(refs)
      /\ ~single => refs = nodes[n].refs
  BY <1>3, DealtOut
<1>. HIDE DEF refs, single
<1>5. \A i \in DOMAIN refs : i \in Nat /\ i <= 4 /\ refs[i] \in Seq(Nat)
  <2>1. \A m \in 1..4 : \A i \in 1..m : i \in Nat /\ i <= 4
    OBVIOUS
  <2>2. \A i \in 1..Len(refs) : refs[i] \in Seq(Nat)
    BY <1>4
  <2>. QED
    BY <1>4, <2>1, <2>2
<1>6. /\ ToSet(children) = {Append(n, i) : i \in DOMAIN refs}
      /\ ToSet(children) \subseteq Seq(Nat) /\ n \notin ToSet(children)
      /\ children \in Seq(Seq(Nat))
  <2>1. ToSet(children) = {Append(n, i) : i \in DOMAIN refs}
    BY DEF ToSet
  <2>2. \A i \in DOMAIN refs : Append(n, i) \in Seq(Nat) /\ Append(n, i) # n
    BY <1>1, <1>5, Appends
  <2>3. children \in Seq(Seq(Nat))
    BY <1>4, <2>2
  <2>. QED
    BY <2>1, <2>2, <2>3
<1>7. \A i \in DOMAIN refs : new[Append(n, i)] = NewNode(<<refs[i]>>)
  <2>1. \A i \in DOMAIN refs : Last(Append(n, i)) = i
    BY <1>1, <1>5, Appends
  <2>. QED
    BY <1>6, <2>1
<1>8. \A o \in Seq(Nat) : /\ NewNode(<<o>>) \in NodeType
                          /\ NewNode(<<o>>).refs = <<o>> /\ NewNode(<<o>>).children = <<>>
                          /\ NewNode(<<o>>).status = "pending"
  BY DEF NewNode, NodeType, Statuses
<1>9. /\ split \in [DOMAIN nodes -> NodeType]
      /\ \A m \in DOMAIN nodes :
           /\ split[m].refs = nodes[m].refs
           /\ split[m].status = IF m = n THEN "split" ELSE nodes[m].status
           /\ split[m].children = IF m = n THEN nodes[n].children \o children
                                  ELSE nodes[m].children
  <2>1. nodes[n].children \in Seq(Seq(Nat))
    BY <1>1 DEF NodeType
  <2>. HIDE DEF children
  <2>2. nodes[n].children \o children \in Seq(Seq(Nat))
    BY <1>6, <2>1
  <2>. QED
    BY <1>1, <2>2 DEF NodeType, Statuses
<1>10. /\ tree = [m \in K |-> IF m \in ToSet(children) THEN new[m] ELSE split[m]]
       /\ DOMAIN new = ToSet(children)
  <2>1. DOMAIN new = ToSet(children) /\ DOMAIN split = DOMAIN nodes
    BY <1>9
  <2>. HIDE DEF new, split, children
  <2>2. tree = [m \in ToSet(children) \cup DOMAIN nodes |->
                  IF m \in ToSet(children) THEN new[m] ELSE split[m]]
    BY <2>1 DEF Upserted
  <2>3. K = ToSet(children) \cup DOMAIN nodes
    OBVIOUS
  <2>. QED
    BY <2>1, <2>2, <2>3
<1>. HIDE DEF children, new, split, tree, K
<1>11. /\ tree \in [K -> NodeType]
       /\ \A i \in DOMAIN refs : /\ Append(n, i) \in K /\ tree[Append(n, i)].refs = <<refs[i]>>
                                 /\ tree[Append(n, i)].children = <<>>
                                 /\ tree[Append(n, i)].status = "pending"
       /\ \A m \in DOMAIN nodes \ ToSet(children) :
            /\ m \in K /\ tree[m] = split[m]
  <2>1. \A i \in DOMAIN refs : /\ Append(n, i) \in ToSet(children)
                               /\ Append(n, i) \in K
    BY <1>6 DEF K
  <2>2. \A i \in DOMAIN refs : tree[Append(n, i)] = NewNode(<<refs[i]>>)
    BY <1>7, <1>10, <2>1
  <2>3. \A m \in DOMAIN nodes \ ToSet(children) : m \in K /\ tree[m] = split[m]
    BY <1>10 DEF K
  <2>4. ASSUME NEW m \in K PROVE tree[m] \in NodeType
    <3>1. CASE m \in ToSet(children)
      <4>1. PICK i \in DOMAIN refs : m = Append(n, i)
        BY <1>6, <3>1
      <4>. QED
        BY <1>5, <1>8, <2>2, <4>1
    <3>2. CASE m \notin ToSet(children)
      <4>1. m \in DOMAIN nodes /\ tree[m] = split[m]
        BY <2>3, <3>2 DEF K
      <4>. QED
        BY <1>9, <4>1
    <3>. QED
      BY <3>1, <3>2
  <2>5. tree \in [K -> NodeType]
    BY <1>10, <2>4
  <2>6. \A i \in DOMAIN refs : /\ tree[Append(n, i)].refs = <<refs[i]>>
                               /\ tree[Append(n, i)].children = <<>>
                               /\ tree[Append(n, i)].status = "pending"
    <3>1. TAKE i \in DOMAIN refs
    <3>2. refs[i] \in Seq(Nat)
      BY <1>5
    <3>. QED
      BY <1>8, <2>2, <3>2
  <2>. QED
    BY <2>1, <2>3, <2>5, <2>6
<1>12. /\ nodes' \in [K -> NodeType]
       /\ \A m \in K : /\ nodes'[m].refs = tree[m].refs
                       /\ nodes'[m].children = tree[m].children
                       /\ \/ nodes'[m].status = tree[m].status
                          \/ tree[m].status = "pending" /\ nodes'[m].status = "ready"
  BY <1>2, <1>11, PromotedFacts
<1>13. /\ DOMAIN nodes' = K /\ DOMAIN nodes \subseteq K
       /\ \A i \in DOMAIN refs : /\ Append(n, i) \in K
                                 /\ nodes'[Append(n, i)].refs = <<refs[i]>>
                                 /\ nodes'[Append(n, i)].children = <<>>
                                 /\ nodes'[Append(n, i)].status \in Live
  BY <1>11, <1>12 DEF K, Live
\* The nodes that were there keep their obligations.
<1>14. \A m \in DOMAIN nodes : nodes'[m].refs = nodes[m].refs
  <2>. SUFFICES ASSUME NEW m \in DOMAIN nodes PROVE nodes'[m].refs = nodes[m].refs
    OBVIOUS
  <2>1. CASE m \in ToSet(children)
    <3>1. PICK i \in DOMAIN refs : m = Append(n, i)
      BY <1>6, <2>1
    <3>2. i \in Nat /\ i < MergeId
      BY <1>5 DEF MergeId
    <3>3. nodes[m].refs = <<refs[i]>>
      BY <1>1, <3>1, <3>2 DEF ChildrenShare, refs
    <3>. QED
      BY <1>13, <3>1, <3>3
  <2>2. CASE m \notin ToSet(children)
    BY <1>9, <1>11, <1>12, <2>2
  <2>. QED
    BY <2>1, <2>2
<1>15. \A m \in DOMAIN nodes \ (ToSet(children) \cup {n}) :
         \/ nodes'[m].status = nodes[m].status
         \/ nodes[m].status = "pending" /\ nodes'[m].status = "ready"
  BY <1>9, <1>11, <1>12
<1>16. /\ DOMAIN covers' \subseteq DOMAIN covers \cup ToSet(refs)
       /\ DOMAIN covers \subseteq DOMAIN covers' /\ ToSet(refs) \subseteq DOMAIN covers'
       /\ \A o \in DOMAIN covers \ ToSet(refs) : covers'[o] = covers[o]
       /\ covers' \in [DOMAIN covers' -> {"open", "satisfied", "invalidated"}]
       /\ DOMAIN covers' \subseteq Seq(Nat)
  <2>1. ToSet(nodes[n].refs) \subseteq DOMAIN covers
    BY <1>1 DEF SharesSmall
  <2>2. ToSet(refs) \subseteq Seq(Nat)
    BY <1>5 DEF ToSet
  <2>3. CASE single
    <3>1. covers' = [o \in ToSet(refs) \cup DOMAIN covers |->
                       IF o \in ToSet(refs) THEN "open" ELSE covers[o]]
      BY <1>2, <2>3 DEF Upserted
    <3>. QED
      BY <1>1, <2>2, <3>1 DEF TreeTyped
  <2>4. CASE ~single
    <3>1. covers' = covers /\ ToSet(refs) = ToSet(nodes[n].refs)
      BY <1>2, <1>4, <2>4
    <3>. QED
      BY <1>1, <2>1, <3>1 DEF TreeTyped
  <2>. QED
    BY <2>3, <2>4
<1>17. TreeTyped'
  <2>1. K \subseteq Seq(Nat) /\ RootNode \in K
    BY <1>1, <1>6 DEF K, TreeTyped
  <2>. QED
    BY <1>1, <1>2, <1>12, <1>13, <1>16, <2>1 DEF TreeTyped
<1>18. SharesSmall'
  <2>. SUFFICES ASSUME NEW m \in K
                PROVE  SmallShare(nodes'[m].refs) /\ ToSet(nodes'[m].refs) \subseteq DOMAIN covers'
    BY <1>13 DEF SharesSmall
  <2>1. CASE m \in DOMAIN nodes
    BY <1>1, <1>14, <1>16, <2>1 DEF SharesSmall
  <2>2. CASE m \notin DOMAIN nodes
    <3>1. PICK i \in DOMAIN refs : m = Append(n, i)
      BY <1>6, <2>2 DEF K
    <3>2. nodes'[m].refs = <<refs[i]>> /\ refs[i] \in ToSet(refs)
      BY <1>13, <3>1 DEF ToSet
    <3>3. SmallShare(<<refs[i]>>)
      BY DEF SmallShare
    <3>. QED
      BY <1>16, <3>2, <3>3, OneOf
  <2>. QED
    BY <2>1, <2>2
<1>19. ChildrenShare'
  <2>. SUFFICES ASSUME NEW p \in Seq(Nat), NEW i \in Nat, Append(p, i) \in K
                PROVE  /\ p \in K
                       /\ i <= MergeId + treeTick
                       /\ ToSet(nodes'[Append(p, i)].refs) \subseteq ToSet(ChildRefs(nodes'[p].refs))
                       /\ i < MergeId =>
                            /\ i \in DOMAIN ChildRefs(nodes'[p].refs)
                            /\ nodes'[Append(p, i)].refs = <<ChildRefs(nodes'[p].refs)[i]>>
    BY <1>2, <1>13 DEF ChildrenShare
  <2>1. CASE Append(p, i) \in DOMAIN nodes
    <3>1. /\ p \in DOMAIN nodes
          /\ i <= MergeId + treeTick
          /\ ToSet(nodes[Append(p, i)].refs) \subseteq ToSet(ChildRefs(nodes[p].refs))
          /\ i < MergeId => /\ i \in DOMAIN ChildRefs(nodes[p].refs)
                            /\ nodes[Append(p, i)].refs = <<ChildRefs(nodes[p].refs)[i]>>
      BY <1>1, <2>1 DEF ChildrenShare
    <3>2. nodes'[p].refs = nodes[p].refs /\ nodes'[Append(p, i)].refs = nodes[Append(p, i)].refs
      BY <1>14, <2>1, <3>1
    <3>. QED
      BY <1>13, <3>1, <3>2
  <2>2. CASE Append(p, i) \notin DOMAIN nodes
    <3>1. PICK j \in DOMAIN refs : Append(p, i) = Append(n, j)
      BY <1>6, <2>2 DEF K
    <3>2. p = n /\ i = j
      <4>1. j \in Nat /\ n \in Seq(Nat)
        BY <1>1, <1>5
      <4>. QED
        BY <3>1, <4>1, AppendOnce
    <3>3. ChildRefs(nodes'[p].refs) = refs
      BY <1>14, <3>2 DEF refs
    <3>4. nodes'[Append(p, i)].refs = <<refs[i]>> /\ refs[i] \in ToSet(refs)
      BY <1>13, <3>2 DEF ToSet
    <3>5. treeTick \in Nat /\ i <= MergeId + treeTick
      BY <1>1, <1>5, <3>2 DEF MergeId, TreeTyped
    <3>. QED
      BY <1>13, <3>2, <3>3, <3>4, <3>5, OneOf
  <2>. QED
    BY <2>1, <2>2
<1>20. ListsOwn'
  <2>. SUFFICES ASSUME NEW p \in K, NEW c \in ToSet(nodes'[p].children)
                PROVE  c \in K /\ \E i \in Nat : c = Append(p, i)
    BY <1>13 DEF ListsOwn
  <2>1. CASE p \in ToSet(children)
    <3>1. PICK i \in DOMAIN refs : p = Append(n, i)
      BY <1>6, <2>1
    <3>2. c \in ToSet(<<>>)
      BY <1>13, <3>1
    <3>. QED
      BY <3>2 DEF ToSet
  <2>2. CASE p = n
    <3>1. nodes'[p].children = nodes[n].children \o children
      <4>1. n \in DOMAIN nodes \ ToSet(children)
        BY <1>6
      <4>2. n \in K /\ tree[n] = split[n]
        BY <1>11, <4>1
      <4>3. split[n].children = nodes[n].children \o children
        BY <1>9
      <4>. QED
        BY <1>12, <2>2, <4>2, <4>3
    <3>2. nodes[n].children \in Seq(Seq(Nat))
      BY <1>1 DEF NodeType
    <3>3. c \in ToSet(nodes[n].children) \cup ToSet(children)
      BY <1>6, <3>1, <3>2, JoinedMembers
    <3>. QED
      BY <1>1, <1>5, <1>6, <1>13, <2>2, <3>3 DEF ListsOwn
  <2>3. CASE p \notin ToSet(children) /\ p # n
    <3>1. p \in DOMAIN nodes
      BY <2>3 DEF K
    <3>2. nodes'[p].children = nodes[p].children
      <4>1. p \in K /\ tree[p] = split[p]
        BY <1>11, <2>3, <3>1
      <4>2. split[p].children = nodes[p].children
        BY <1>9, <2>3, <3>1
      <4>. QED
        BY <1>12, <4>1, <4>2
    <3>. QED
      BY <1>1, <1>13, <3>1, <3>2 DEF ListsOwn
  <2>. QED
    BY <2>1, <2>2, <2>3
<1>21. ASSUME NEW o \in DOMAIN covers'
       PROVE  (DerivedFrom(o) # {})' \/ Assigned(o)' \/ Vouched(o)'
  <2>1. CASE o \in ToSet(refs)
    <3>1. PICK i \in DOMAIN refs : o = refs[i]
      BY <2>1 DEF ToSet
    <3>2. /\ Append(n, i) \in DOMAIN nodes' /\ nodes'[Append(n, i)].status \in Live
          /\ o \in ToSet(nodes'[Append(n, i)].refs)
      BY <1>13, <3>1, OneOf
    <3>. QED
      BY <3>2 DEF Assigned, Live
  <2>2. CASE o \notin ToSet(refs)
    <3>1. o \in DOMAIN covers /\ covers'[o] = covers[o]
      BY <1>16, <1>21, <2>2
    <3>2. DerivedFrom(o) # {} => (DerivedFrom(o) # {})'
      BY <1>16 DEF DerivedFrom
    <3>3. ASSUME NEW m \in DOMAIN nodes, o \in ToSet(nodes[m].refs),
                 nodes[m].status \in Live \/ (Vouched(o) /\ nodes[m].status = "admitted")
          PROVE  (DerivedFrom(o) # {})' \/ Assigned(o)' \/ Vouched(o)'
      <4>1. m \in DOMAIN nodes' /\ o \in ToSet(nodes'[m].refs)
        BY <1>13, <1>14, <3>3
      <4>2. CASE m \in ToSet(children)
        <5>1. nodes'[m].status \in Live
          BY <1>6, <1>13, <4>2
        <5>. QED
          BY <4>1, <5>1 DEF Assigned, Live
      <4>3. CASE m = n
        <5>1. single
          BY <1>4, <2>2, <3>3, <4>3
        <5>2. nodes[n].refs = <<nodes[n].refs[1]>>
          BY <1>3, <5>1 DEF single, Refinement
        <5>3. o = nodes[n].refs[1]
          BY <3>3, <4>3, <5>2, OneOf
        <5>4. refs = <<Append(o, 1), Append(o, 2)>>
          BY <5>1, <5>3 DEF refs, single, ChildRefs
        <5>5. Append(o, 1) \in ToSet(refs)
          BY <5>4 DEF ToSet
        <5>6. Append(o, 1) \in DOMAIN covers'
          BY <1>16, <5>5
        <5>7. Append(o, 1) \in DerivedFrom(o)'
          <6>1. 1 \in 1..2
            OBVIOUS
          <6>. QED
            BY <5>6, <6>1 DEF DerivedFrom
        <5>. QED
          BY <5>7
      <4>4. CASE m \notin ToSet(children) /\ m # n
        <5>1. \/ nodes'[m].status = nodes[m].status
              \/ nodes[m].status = "pending" /\ nodes'[m].status = "ready"
          BY <1>15, <4>4
        <5>. QED
          BY <3>1, <3>3, <4>1, <5>1 DEF Assigned, Vouched, Live
      <4>. QED
        BY <4>2, <4>3, <4>4
    <3>4. DerivedFrom(o) # {} \/ Assigned(o) \/ Vouched(o)
      BY <3>1 DEF TreeInv, AllCarried
    <3>5. CASE Assigned(o)
      <4>1. PICK m \in DOMAIN nodes : nodes[m].status \in Live /\ o \in ToSet(nodes[m].refs)
        BY <3>5 DEF Assigned, Live
      <4>2. nodes[m].status \in Live \/ (Vouched(o) /\ nodes[m].status = "admitted")
        BY <4>1
      <4>. QED
        BY <3>3, <4>1, <4>2
    <3>6. CASE Vouched(o)
      <4>1. PICK m \in DOMAIN nodes :
              nodes[m].status = "admitted" /\ o \in ToSet(nodes[m].refs)
        BY <3>6 DEF Vouched
      <4>. QED
        BY <3>3, <3>6, <4>1
    <3>. QED
      BY <3>2, <3>4, <3>5, <3>6
  <2>. QED
    BY <2>1, <2>2
<1>22. AllCarried'
  BY <1>21 DEF AllCarried
<1>23. SomethingToDo'
  BY <1>2 DEF SomethingToDo
<1>. QED
  BY <1>17, <1>18, <1>19, <1>20, <1>22, <1>23 DEF TreeInv

\* A merge adds a new node with the obligations of its sources.
LEMMA MergeKeeps ==
  ASSUME TreeInv, NEW p \in DOMAIN nodes, NEW a, NEW b, <<a, b>> \in SiblingPairs(p),
         CommitMerge(p, a, b)
  PROVE  TreeInv'
<1>. DEFINE into == Append(p, MergeId + treeTick)
            refs == MergedRefs(a, b)
            merged == [NewNode(refs) EXCEPT !.status = "ready"]
            new == [n \in {into} |-> merged]
            old == [nodes EXCEPT ![a].status = "superseded", ![b].status = "superseded",
                                 ![p].children = Append(nodes[p].children, into)]
            S == ToSet(ChildRefs(nodes[p].refs))
            K == DOMAIN nodes \cup {into}
<1>1. /\ TreeTyped /\ SharesSmall /\ ChildrenShare /\ ListsOwn
      /\ p \in Seq(Nat) /\ nodes[p] \in NodeType /\ nodes \in [DOMAIN nodes -> NodeType]
      /\ treeTick \in Nat /\ MergeId + treeTick \in Nat
  BY DEF TreeInv, TreeTyped, MergeId
<1>2. /\ treePc = "plan" /\ treePc' = "phase1" /\ treeTick' = treeTick
      /\ UNCHANGED covers
      /\ nodes' = Upserted(new, [nodes EXCEPT ![a].status = "superseded",
                                 ![b].status = "superseded",
                                 ![p].children = Append(@, into)])
  BY DEF CommitMerge
<1>3. /\ a \in ToSet(nodes[p].children) /\ b \in ToSet(nodes[p].children)
      /\ nodes[a].status = "ready" /\ nodes[b].status = "ready"
  BY DEF SiblingPairs, ReadyLeaf, ToSet
<1>4. /\ a \in DOMAIN nodes /\ b \in DOMAIN nodes
      /\ a # p /\ b # p
  <2>1. /\ a \in DOMAIN nodes /\ \E i \in Nat : a = Append(p, i)
        /\ b \in DOMAIN nodes /\ \E i \in Nat : b = Append(p, i)
    BY <1>1, <1>3 DEF ListsOwn
  <2>. QED
    BY <1>1, <2>1, Appends
<1>5. ToSet(nodes[a].refs) \subseteq S /\ ToSet(nodes[b].refs) \subseteq S
  <2>1. /\ \E i \in Nat : a = Append(p, i)
        /\ \E i \in Nat : b = Append(p, i)
    BY <1>1, <1>3 DEF ListsOwn
  <2>. QED
    BY <1>1, <1>4, <2>1 DEF ChildrenShare
<1>6. /\ nodes[p].refs \in Seq(Seq(Nat)) /\ SmallShare(nodes[p].refs)
      /\ nodes[a].refs \in Seq(Seq(Nat)) /\ SmallShare(nodes[a].refs)
      /\ nodes[b].refs \in Seq(Seq(Nat)) /\ SmallShare(nodes[b].refs)
  BY <1>1, <1>4 DEF NodeType, SharesSmall
<1>7. IsFiniteSet(S) /\ Cardinality(S) <= 4
  BY <1>6, DealtOut
<1>8. /\ refs \in Seq(Seq(Nat)) /\ SmallShare(refs)
      /\ ToSet(refs) = ToSet(nodes[a].refs) \cup ToSet(nodes[b].refs)
  <2>. HIDE DEF S
  <2>. QED
    BY <1>5, <1>6, <1>7, MergedShare
<1>9. into \in Seq(Nat) /\ into # p /\ into # RootNode /\ into \notin DOMAIN nodes
  <2>1. into \in Seq(Nat) /\ into # p /\ into # <<>>
    BY <1>1, Appends
  <2>2. ASSUME into \in DOMAIN nodes PROVE FALSE
    <3>1. MergeId + treeTick < MergeId + treeTick
      BY <1>1, <1>2, <2>2 DEF ChildrenShare
    <3>. QED
      BY <1>1, <3>1
  <2>. QED
    BY <2>1, <2>2 DEF RootNode
<1>. HIDE DEF refs, into
<1>10. /\ merged \in NodeType /\ merged.refs = refs /\ merged.children = <<>>
       /\ merged.status = "ready"
  BY <1>8, NewNodeTyped
<1>11. /\ old \in [DOMAIN nodes -> NodeType]
       /\ \A m \in DOMAIN nodes :
            /\ old[m].refs = nodes[m].refs
            /\ old[m].status = IF m \in {a, b} THEN "superseded" ELSE nodes[m].status
            /\ old[m].children = IF m = p THEN Append(nodes[p].children, into)
                                 ELSE nodes[m].children
  <2>1. nodes[p].children \in Seq(Seq(Nat))
    BY <1>1 DEF NodeType
  <2>2. Append(nodes[p].children, into) \in Seq(Seq(Nat))
    BY <1>9, <2>1
  <2>. QED
    BY <1>1, <1>4, <2>2 DEF NodeType, Statuses
<1>12. nodes' = [m \in K |-> IF m = into THEN merged ELSE old[m]]
  <2>1. DOMAIN new = {into} /\ new[into] = merged
    OBVIOUS
  <2>2. nodes' = Upserted(new, old)
    BY <1>2, <1>4
  <2>3. DOMAIN old = DOMAIN nodes
    BY <1>11
  <2>. HIDE DEF new, old, merged
  <2>. QED
    BY <2>1, <2>2, <2>3 DEF Upserted
<1>. HIDE DEF merged, old
<1>13. /\ nodes' \in [K -> NodeType] /\ DOMAIN nodes' = K
       /\ nodes'[into].refs = refs /\ nodes'[into].children = <<>>
       /\ nodes'[into].status = "ready"
       /\ \A m \in DOMAIN nodes :
            /\ nodes'[m].refs = nodes[m].refs
            /\ nodes'[m].status = IF m \in {a, b} THEN "superseded" ELSE nodes[m].status
            /\ nodes'[m].children = IF m = p THEN Append(nodes[p].children, into)
                                    ELSE nodes[m].children
  BY <1>9, <1>10, <1>11, <1>12
<1>14. TreeTyped'
  <2>1. K \subseteq Seq(Nat) /\ RootNode \in K
    BY <1>1, <1>9 DEF TreeTyped
  <2>. QED
    BY <1>1, <1>2, <1>13, <2>1 DEF TreeTyped
<1>15. SharesSmall'
  <2>1. ToSet(refs) \subseteq DOMAIN covers
    BY <1>1, <1>4, <1>8 DEF SharesSmall
  <2>. QED
    BY <1>1, <1>2, <1>8, <1>13, <2>1 DEF SharesSmall
<1>16. ChildrenShare'
  <2>. SUFFICES ASSUME NEW q \in Seq(Nat), NEW i \in Nat, Append(q, i) \in K
                PROVE  /\ q \in K
                       /\ i <= MergeId + treeTick
                       /\ ToSet(nodes'[Append(q, i)].refs) \subseteq ToSet(ChildRefs(nodes'[q].refs))
                       /\ i < MergeId =>
                            /\ i \in DOMAIN ChildRefs(nodes'[q].refs)
                            /\ nodes'[Append(q, i)].refs = <<ChildRefs(nodes'[q].refs)[i]>>
    BY <1>2, <1>13 DEF ChildrenShare
  <2>1. CASE Append(q, i) \in DOMAIN nodes
    <3>1. /\ q \in DOMAIN nodes
          /\ i <= MergeId + treeTick
          /\ ToSet(nodes[Append(q, i)].refs) \subseteq ToSet(ChildRefs(nodes[q].refs))
          /\ i < MergeId => /\ i \in DOMAIN ChildRefs(nodes[q].refs)
                            /\ nodes[Append(q, i)].refs = <<ChildRefs(nodes[q].refs)[i]>>
      BY <1>1, <2>1 DEF ChildrenShare
    <3>2. nodes'[q].refs = nodes[q].refs /\ nodes'[Append(q, i)].refs = nodes[Append(q, i)].refs
      BY <1>13, <2>1, <3>1
    <3>. QED
      BY <3>1, <3>2
  <2>2. CASE Append(q, i) \notin DOMAIN nodes
    <3>1. Append(q, i) = into
      BY <2>2
    <3>2. q = p /\ i = MergeId + treeTick
      <4>1. Append(q, i) = Append(p, MergeId + treeTick)
        BY <3>1 DEF into
      <4>. QED
        BY <1>1, <4>1, AppendOnce
    <3>3. nodes'[q].refs = nodes[p].refs /\ nodes'[Append(q, i)].refs = refs
      BY <1>13, <3>1, <3>2
    <3>4. ToSet(refs) \subseteq S
      BY <1>5, <1>8
    <3>5. ~(i < MergeId) /\ i <= MergeId + treeTick
      BY <1>1, <3>2 DEF MergeId
    <3>. QED
      BY <3>2, <3>3, <3>4, <3>5
  <2>. QED
    BY <2>1, <2>2
<1>17. ListsOwn'
  <2>. SUFFICES ASSUME NEW q \in K, NEW c \in ToSet(nodes'[q].children)
                PROVE  c \in K /\ \E i \in Nat : c = Append(q, i)
    BY <1>13 DEF ListsOwn
  <2>1. CASE q = into
    <3>1. c \in ToSet(<<>>)
      BY <1>13, <2>1
    <3>. QED
      BY <3>1 DEF ToSet
  <2>2. CASE q = p
    <3>1. nodes'[q].children = Append(nodes[p].children, into)
      BY <1>13, <2>2
    <3>2. nodes[p].children \in Seq(Seq(Nat))
      BY <1>1 DEF NodeType
    <3>3. ToSet(Append(nodes[p].children, into)) \subseteq ToSet(nodes[p].children) \cup {into}
      BY <1>9, <3>2, AppendedMember
    <3>4. c \in ToSet(nodes[p].children) \cup {into}
      BY <3>1, <3>3
    <3>5. CASE c = into
      BY <1>1, <2>2, <3>5 DEF into
    <3>6. CASE c \in ToSet(nodes[p].children)
      BY <1>1, <2>2, <3>6 DEF ListsOwn
    <3>. QED
      BY <3>4, <3>5, <3>6
  <2>3. CASE q # into /\ q # p
    <3>1. q \in DOMAIN nodes /\ nodes'[q].children = nodes[q].children
      BY <1>13, <2>3
    <3>. QED
      BY <1>1, <3>1 DEF ListsOwn
  <2>. QED
    BY <2>1, <2>2, <2>3
<1>18. ASSUME NEW o \in DOMAIN covers
       PROVE  (DerivedFrom(o) # {})' \/ Assigned(o)' \/ Vouched(o)'
  <2>1. DerivedFrom(o) # {} => (DerivedFrom(o) # {})'
    BY <1>2 DEF DerivedFrom
  <2>2. CASE Assigned(o)
    <3>1. PICK m \in DOMAIN nodes : nodes[m].status \in Live /\ o \in ToSet(nodes[m].refs)
      BY <2>2 DEF Assigned, Live
    <3>2. CASE m \in {a, b}
      <4>1. o \in ToSet(nodes'[into].refs) /\ into \in DOMAIN nodes'
        BY <1>8, <1>13, <3>1, <3>2
      <4>. QED
        BY <1>13, <4>1 DEF Assigned
    <3>3. CASE m \notin {a, b}
      <4>1. /\ m \in DOMAIN nodes' /\ nodes'[m].status \in Live
            /\ o \in ToSet(nodes'[m].refs)
        BY <1>13, <3>1, <3>3
      <4>. QED
        BY <4>1 DEF Assigned, Live
    <3>. QED
      BY <3>2, <3>3
  <2>3. CASE Vouched(o)
    <3>1. PICK m \in DOMAIN nodes : nodes[m].status = "admitted" /\ o \in ToSet(nodes[m].refs)
      BY <2>3 DEF Vouched
    <3>2. m \notin {a, b}
      BY <1>3, <3>1
    <3>3. /\ m \in DOMAIN nodes' /\ nodes'[m].status = "admitted"
          /\ o \in ToSet(nodes'[m].refs)
      BY <1>13, <3>1, <3>2
    <3>. QED
      BY <1>2, <2>3, <3>3 DEF Vouched
  <2>. QED
    BY <2>1, <2>2, <2>3 DEF TreeInv, AllCarried
<1>19. AllCarried'
  BY <1>2, <1>18 DEF AllCarried
<1>20. SomethingToDo'
  BY <1>2 DEF SomethingToDo
<1>. QED
  BY <1>14, <1>15, <1>16, <1>17, <1>19, <1>20 DEF TreeInv

-----------------------------------------------------------------------------
LEMMA TreeInitial == TreeInit => TreeInv
<1>. SUFFICES ASSUME TreeInit PROVE TreeInv
  OBVIOUS
<1>1. PICK size \in GoalSizes :
        /\ nodes = [n \in {RootNode} |->
             [NewNode([i \in 1..size |-> <<i>>]) EXCEPT !.status = "ready"]]
        /\ covers = [o \in {<<i>> : i \in 1..size} |-> "open"]
        /\ treePc = "plan" /\ treeTick = 1
  BY DEF TreeInit
<1>. DEFINE refs == [i \in 1..size |-> <<i>>]
<1>2. size \in 1..4
  BY <1>1, TreeAssumption
<1>3. /\ refs \in Seq(Seq(Nat)) /\ Len(refs) = size /\ refs # <<>>
      /\ DOMAIN refs = 1..size /\ \A i \in 1..size : refs[i] = <<i>>
  <2>1. \A i \in 1..size : <<i>> \in Seq(Nat)
    BY <1>2
  <2>. QED
    BY <1>2, <2>1
<1>4. SmallShare(refs) /\ ToSet(refs) = {<<i>> : i \in 1..size}
  <2>1. Len(refs) <= 4
    BY <1>2, <1>3
  <2>2. \A i, j \in 1..Len(refs) : refs[i] = refs[j] => i = j
    BY <1>2, <1>3
  <2>3. ToSet(refs) = {<<i>> : i \in 1..size}
    BY <1>3 DEF ToSet
  <2>. QED
    BY <1>3, <2>1, <2>2, <2>3 DEF SmallShare
<1>. HIDE DEF refs
<1>5. /\ nodes \in [{RootNode} -> NodeType] /\ DOMAIN nodes = {RootNode}
      /\ nodes[RootNode].refs = refs /\ nodes[RootNode].children = <<>>
      /\ nodes[RootNode].status = "ready"
  <2>1. nodes = [n \in {RootNode} |-> [NewNode(refs) EXCEPT !.status = "ready"]]
    BY <1>1 DEF refs
  <2>2. [NewNode(refs) EXCEPT !.status = "ready"] \in NodeType
    BY <1>3, NewNodeTyped
  <2>3. /\ [NewNode(refs) EXCEPT !.status = "ready"].refs = refs
        /\ [NewNode(refs) EXCEPT !.status = "ready"].children = <<>>
        /\ [NewNode(refs) EXCEPT !.status = "ready"].status = "ready"
    BY <1>3, NewNodeTyped
  <2>. QED
    BY <2>1, <2>2, <2>3
<1>6. /\ DOMAIN covers = ToSet(refs)
      /\ covers \in [DOMAIN covers -> {"open", "satisfied", "invalidated"}]
      /\ DOMAIN covers \subseteq Seq(Nat)
  <2>1. \A i \in 1..size : <<i>> \in Seq(Nat)
    BY <1>2
  <2>. QED
    BY <1>1, <1>4, <2>1
<1>7. TreeTyped
  BY <1>1, <1>5, <1>6 DEF TreeTyped, RootNode
<1>8. SharesSmall
  BY <1>4, <1>5, <1>6 DEF SharesSmall
<1>9. ChildrenShare
  <2>1. \A p \in Seq(Nat), i \in Nat : Append(p, i) \notin DOMAIN nodes
    BY <1>5, Appends DEF RootNode
  <2>. QED
    BY <2>1 DEF ChildrenShare
<1>10. ListsOwn
  <2>1. ToSet(<<>>) = {}
    BY DEF ToSet
  <2>. QED
    BY <1>5, <2>1 DEF ListsOwn
<1>11. AllCarried
  BY <1>5, <1>6 DEF AllCarried, Assigned
<1>12. SomethingToDo
  BY <1>5 DEF SomethingToDo, AllReady, WithStatus
<1>. QED
  BY <1>7, <1>8, <1>9, <1>10, <1>11, <1>12 DEF TreeInv

LEMMA TreeStutters ==
  ASSUME TreeInv, UNCHANGED treeVars
  PROVE  TreeInv'
BY DEF treeVars, TreeInv, TreeTyped, SharesSmall, ChildrenShare, ListsOwn, AllCarried,
       Assigned, Vouched, DerivedFrom, SomethingToDo, AllReady, WithStatus

\* The strengthened invariant holds in every reachable state.
LEMMA TreeInvariant == TreeSpec => []TreeInv
<1>1. ASSUME TreeInv, TreeNext PROVE TreeInv'
  <2>1. CASE \E n \in DOMAIN nodes : CommitSplit(n) \/ AdmitNode(n) \/ RepairNode(n)
    BY <1>1, <2>1, SplitKeeps, AdmitKeeps, RepairKeeps
  <2>2. CASE \E p \in DOMAIN nodes : \E ab \in SiblingPairs(p) : CommitMerge(p, ab[1], ab[2])
    <3>1. PICK p \in DOMAIN nodes :
            \E ab \in SiblingPairs(p) : CommitMerge(p, ab[1], ab[2])
      BY <2>2
    <3>2. PICK ab \in SiblingPairs(p) : CommitMerge(p, ab[1], ab[2])
      BY <3>1
    <3>3. <<ab[1], ab[2]>> \in SiblingPairs(p)
      BY <3>2 DEF SiblingPairs
    <3>. QED
      BY <1>1, <3>2, <3>3, MergeKeeps
  <2>3. CASE LeaveTree \/ SplitRefused \/ NothingReady \/ CloseTree
    BY <1>1, <2>3, QuietKeeps, CloseKeeps
  <2>. QED
    BY <1>1, <2>1, <2>2, <2>3 DEF TreeNext
<1>2. ASSUME TreeInv, [TreeNext]_treeVars PROVE TreeInv'
  BY <1>1, <1>2, TreeStutters
<1>. QED
  BY <1>2, TreeInitial, PTL DEF TreeSpec

\* commit_split, commit_merge, gate_decide and the closure gate: however the
\* tree was split, merged and split again, every obligation is satisfied,
\* refined, or in the contract of a node that may still be worked on.
THEOREM NoObligationLost == TreeSpec => []RootsCarried
<1>1. TreeInv => RootsCarried
  BY DEF TreeInv, TreeTyped, SharesSmall, AllCarried, Vouched, RootsCarried
<1>. QED
  BY <1>1, TreeInvariant, PTL

\* closure_needed and run_closure_gate: at the start of a tick of a running
\* run some node is ready, or in progress and about to be reopened.
THEOREM RunNeverWedged == TreeSpec => []SomethingToDo
<1>1. TreeInv => SomethingToDo
  BY DEF TreeInv
<1>. QED
  BY <1>1, TreeInvariant, PTL

-----------------------------------------------------------------------------
\* The tree is no deeper than MaxSplitDepth: what is split is less deep, and a
\* merge makes a sibling of what it merges.  Edges stay among the nodes.
TreeFits ==
  /\ \A n \in DOMAIN nodes : Len(n) <= MaxSplitDepth
  /\ depends \subseteq (DOMAIN nodes) \X (DOMAIN nodes)
  /\ runState \in {"running", "succeeded"}
  /\ treePc \in {"plan", "phase1", "close"}
  /\ treeTick \in 1..(TreeTicks + 1)

LEMMA SplitFits ==
  ASSUME TreeInv, TreeFits, TreeNext, NEW n \in DOMAIN nodes, CommitSplit(n)
  PROVE  TreeFits'
<1>. DEFINE single == Refinement(nodes[n].refs)
            refs == ChildRefs(nodes[n].refs)
            children == [i \in DOMAIN refs |-> Append(n, i)]
            new == [c \in ToSet(children) |-> NewNode(<<refs[Last(c)]>>)]
            split == [nodes EXCEPT ![n].status = "split",
                                   ![n].children = nodes[n].children \o children]
<1>1. /\ n \in Seq(Nat) /\ Len(n) \in Nat /\ Len(n) < MaxSplitDepth
      /\ nodes[n].refs \in Seq(Seq(Nat)) /\ SmallShare(nodes[n].refs)
      /\ DOMAIN nodes \subseteq Seq(Nat) /\ nodes \in [DOMAIN nodes -> NodeType]
  BY DEF TreeInv, TreeTyped, SharesSmall, NodeType, CommitSplit, Splittable
<1>2. /\ treePc' = "phase1" /\ UNCHANGED <<runState, treeTick>>
      /\ depends' = depends \cup (IF single THEN {<<children[2], children[1]>>} ELSE {})
      /\ nodes' = PromotedNodes(Upserted(new, split), depends')
  BY DEF CommitSplit
<1>3. /\ DOMAIN refs = 1..Len(refs) /\ Len(refs) \in 1..4
      /\ single => Len(refs) = 2
  BY <1>1, DealtOut DEF ChildRefs
<1>4. DOMAIN nodes' = DOMAIN nodes \cup ToSet(children)
  <2>1. DOMAIN new = ToSet(children) /\ DOMAIN split = DOMAIN nodes
    OBVIOUS
  <2>. HIDE DEF new, split, children
  <2>. QED
    BY <1>2, <2>1 DEF PromotedNodes, Upserted
<1>5. ToSet(children) = {Append(n, i) : i \in DOMAIN refs}
  BY DEF ToSet
<1>6. \A i \in DOMAIN refs : Len(Append(n, i)) = Len(n) + 1
  BY <1>1, <1>3
<1>7. \A m \in DOMAIN nodes' : Len(m) <= MaxSplitDepth
  <2>1. MaxSplitDepth \in Nat
    BY TreeAssumption
  <2>2. \A m \in ToSet(children) : Len(m) = Len(n) + 1
    BY <1>5, <1>6
  <2>. HIDE DEF children
  <2>. QED
    BY <1>1, <1>4, <2>1, <2>2 DEF TreeFits
<1>8. depends' \subseteq (DOMAIN nodes') \X (DOMAIN nodes')
  <2>1. CASE single
    <3>1. 1 \in DOMAIN refs /\ 2 \in DOMAIN refs
      BY <1>3, <2>1
    <3>2. children[1] \in ToSet(children) /\ children[2] \in ToSet(children)
      BY <1>5, <3>1
    <3>3. depends' = depends \cup {<<children[2], children[1]>>}
      BY <1>2, <2>1
    <3>. HIDE DEF children
    <3>4. /\ children[1] \in DOMAIN nodes' /\ children[2] \in DOMAIN nodes'
          /\ depends \subseteq (DOMAIN nodes') \X (DOMAIN nodes')
      BY <1>4, <3>2 DEF TreeFits
    <3>. QED
      BY <3>3, <3>4
  <2>2. CASE ~single
    <3>1. depends' = depends
      BY <1>2, <2>2
    <3>. HIDE DEF children
    <3>. QED
      BY <1>4, <3>1 DEF TreeFits
  <2>. QED
    BY <2>1, <2>2
<1>. QED
  BY <1>2, <1>7, <1>8 DEF TreeFits

LEMMA MergeFits ==
  ASSUME TreeInv, TreeFits, NEW p \in DOMAIN nodes, NEW a, NEW b,
         <<a, b>> \in SiblingPairs(p), CommitMerge(p, a, b)
  PROVE  TreeFits'
<1>. DEFINE into == Append(p, MergeId + treeTick)
            new == [n \in {into} |-> [NewNode(MergedRefs(a, b)) EXCEPT !.status = "ready"]]
            old == [nodes EXCEPT ![a].status = "superseded", ![b].status = "superseded",
                                 ![p].children = Append(nodes[p].children, into)]
<1>1. /\ p \in Seq(Nat) /\ MergeId + treeTick \in Nat
      /\ nodes[p] \in NodeType /\ ListsOwn
  BY DEF TreeInv, TreeTyped, MergeId
<1>2. a \in ToSet(nodes[p].children)
  BY DEF SiblingPairs, ReadyLeaf, ToSet
<1>3. PICK i \in Nat : a \in DOMAIN nodes /\ a = Append(p, i)
  BY <1>1, <1>2 DEF ListsOwn
<1>4. Len(into) = Len(a)
  <2>1. \A j \in Nat : Len(Append(p, j)) = Len(p) + 1
    BY <1>1
  <2>. QED
    BY <1>1, <1>3, <2>1
<1>5. DOMAIN nodes' = DOMAIN nodes \cup {into}
  <2>1. nodes' = Upserted(new, old)
    BY DEF CommitMerge
  <2>2. DOMAIN new = {into} /\ DOMAIN old = DOMAIN nodes
    OBVIOUS
  <2>. HIDE DEF new, old, into
  <2>. QED
    BY <2>1, <2>2 DEF Upserted
<1>6. UNCHANGED <<depends, runState, treeTick>> /\ treePc' = "phase1"
  BY DEF CommitMerge
<1>. HIDE DEF into
<1>. QED
  BY <1>3, <1>4, <1>5, <1>6 DEF TreeFits

\* The nodes, the obligations and the edges keep their types.
LEMMA TreeTyping == TreeSpec => []TreeTypeOK
<1>1. TreeInit => TreeFits
  <2>. SUFFICES ASSUME TreeInit PROVE TreeFits
    OBVIOUS
  <2>1. /\ DOMAIN nodes = {RootNode} /\ depends = {} /\ runState = "running"
        /\ treePc = "plan" /\ treeTick = 1
    BY DEF TreeInit
  <2>2. Len(RootNode) = 0
    BY DEF RootNode
  <2>. QED
    BY <2>1, <2>2, TreeAssumption DEF TreeFits
<1>2. ASSUME TreeInv, TreeInv', TreeFits, [TreeNext]_treeVars
      PROVE  TreeFits'
  <2>1. CASE \E n \in DOMAIN nodes : TreeNext /\ CommitSplit(n)
    BY <1>2, <2>1, SplitFits
  <2>2. CASE \E p \in DOMAIN nodes : \E ab \in SiblingPairs(p) : CommitMerge(p, ab[1], ab[2])
    <3>1. PICK p \in DOMAIN nodes :
            \E ab \in SiblingPairs(p) : CommitMerge(p, ab[1], ab[2])
      BY <2>2
    <3>2. PICK ab \in SiblingPairs(p) : CommitMerge(p, ab[1], ab[2])
      BY <3>1
    <3>3. <<ab[1], ab[2]>> \in SiblingPairs(p)
      BY <3>2 DEF SiblingPairs
    <3>. QED
      BY <1>2, <3>2, <3>3, MergeFits
  <2>3. ASSUME NEW n \in DOMAIN nodes, AdmitNode(n) \/ RepairNode(n)
        PROVE  TreeFits'
    <3>1. DOMAIN nodes' = DOMAIN nodes
      BY <2>3 DEF AdmitNode, RepairNode, Reopened
    <3>2. UNCHANGED <<depends, runState, treeTick>> /\ treePc' = "close"
      BY <2>3 DEF AdmitNode, RepairNode
    <3>. QED
      BY <1>2, <3>1, <3>2 DEF TreeFits
  <2>4. CASE TreeNext /\ (LeaveTree \/ SplitRefused \/ NothingReady \/ CloseTree)
    <3>1. DOMAIN nodes' = DOMAIN nodes
      BY <2>4 DEF LeaveTree, SplitRefused, NothingReady, CloseTree, Reopened
    <3>2. /\ UNCHANGED depends /\ runState' \in {runState, "succeeded"}
          /\ treePc' \in {"plan", "phase1", "close"}
          /\ treeTick' \in {treeTick, treeTick + 1} /\ treeTick <= TreeTicks
      BY <2>4 DEF TreeNext, LeaveTree, SplitRefused, NothingReady, CloseTree, NextTick
    <3>. QED
      BY <1>2, <3>1, <3>2, TreeAssumption DEF TreeFits
  <2>5. CASE UNCHANGED treeVars
    BY <1>2, <2>5 DEF treeVars, TreeFits
  <2>. QED
    BY <1>2, <2>1, <2>2, <2>3, <2>4, <2>5 DEF TreeNext
<1>3. ASSUME TreeInv, TreeFits PROVE TreeTypeOK
  <2>1. ASSUME NEW n \in DOMAIN nodes
        PROVE  /\ nodes[n].status \in Statuses
               /\ nodes[n].refs # <<>> /\ ToSet(nodes[n].refs) \subseteq DOMAIN covers
               /\ nodes[n].streak \in Nat
               /\ ToSet(nodes[n].children) \subseteq DOMAIN nodes
    BY <1>3 DEF TreeInv, TreeTyped, NodeType, SharesSmall, SmallShare, ListsOwn
  <2>2. RootNode \in DOMAIN nodes /\ covers \in [DOMAIN covers -> {"open", "satisfied", "invalidated"}]
    BY <1>3 DEF TreeInv, TreeTyped
  <2>. QED
    BY <1>3, <2>1, <2>2 DEF TreeFits, TreeTypeOK, Statuses
<1>. QED
  BY <1>1, <1>2, <1>3, TreeInvariant, PTL DEF TreeSpec

==============================================================================
