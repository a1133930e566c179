----------------------------- MODULE WriteLease -----------------------------
(***************************************************************************)
(* The write lease of the event store and the writers that take it:        *)
(* EventStore.acquire_lease / release_lease / _append_once and the         *)
(* projection a CommandHandler caches (CommandHandler.projection/_append). *)
(*                                                                         *)
(* A process (one "pid-N" holder) runs ticks one after the other.  A tick  *)
(* takes the lease, reads the log into its cached projection, appends, and *)
(* releases.  acquire_lease reads the clock BEFORE it queues for the file  *)
(* lock, then works on the file under that lock; the lease itself is only  *)
(* the record in the file, and nothing checks it when an event is          *)
(* appended.                                                               *)
(***************************************************************************)
EXTENDS Integers

CONSTANTS
  Proc,        \* the processes that write this run's event log
  NoProc,      \* the empty lease file, and the free file lock
  TTL,         \* EGLK_LEASE_TTL, in units of the model's clock
  MaxClock,    \* bound: the clock stops here
  MaxAppends   \* bound: events appended in a behaviour

ASSUME LeaseAssumption ==
  /\ NoProc \notin Proc
  /\ TTL \in Nat \ {0}
  /\ MaxClock \in Nat
  /\ MaxAppends \in Nat

VARIABLES
  clock,   \* time.time()
  file,    \* the record in .write_lease; holder NoProc when it is empty
  flock,   \* the process that holds the flock on the file
  pc,      \* where each process is
  now,     \* acquire_lease's local "now", read before the flock
  lease,   \* the expires_at each process wrote in this tick
  len,     \* number of events in the log
  known,   \* the events each process's cached projection was reduced from
  late     \* history: the processes that ran past a lease of theirs

vars == <<clock, file, flock, pc, now, lease, len, known, late>>

Pcs == {"idle", "want", "locked", "truncated", "leased", "working",
        "releasing", "dead"}

EmptyFile == [holder |-> NoProc, expires |-> 0]

\* In a tick that has its lease.
Holding(p) == pc[p] \in {"leased", "working", "releasing"}

\* acquire_lease has read the clock and not yet written the record.
Acquiring(p) == pc[p] \in {"want", "locked", "truncated"}

Init ==
  /\ clock = 0
  /\ file = EmptyFile
  /\ flock = NoProc
  /\ pc = [p \in Proc |-> "idle"]
  /\ now = [p \in Proc |-> 0]
  /\ lease = [p \in Proc |-> 0]
  /\ len = 0
  /\ known = [p \in Proc |-> {}]
  /\ late = {}

-----------------------------------------------------------------------------
(* acquire_lease *)

\* now = time.time(), then wait for the flock.
StartAcquire(p) ==
  /\ pc[p] = "idle"
  /\ pc' = [pc EXCEPT ![p] = "want"]
  /\ now' = [now EXCEPT ![p] = clock]
  /\ UNCHANGED <<clock, file, flock, lease, len, known, late>>

Lock(p) ==
  /\ pc[p] = "want"
  /\ flock = NoProc
  /\ flock' = p
  /\ pc' = [pc EXCEPT ![p] = "locked"]
  /\ UNCHANGED <<clock, file, now, lease, len, known, late>>

\* Mutant of Blocked: a record is expired one unit early.
BlockedUntilLast(p) ==
  /\ file.holder # NoProc
  /\ file.holder # p
  /\ file.expires > now[p] + 1

\* The record belongs to another holder and has not expired at "now".
Blocked(p) ==
  /\ file.holder # NoProc
  /\ file.holder # p
  /\ file.expires > now[p]

\* WriteLeaseError: the file is closed, which drops the flock.
Reject(p) ==
  /\ pc[p] = "locked"
  /\ Blocked(p)
  /\ flock' = NoProc
  /\ pc' = [pc EXCEPT ![p] = "idle"]
  /\ now' = [now EXCEPT ![p] = 0]
  /\ UNCHANGED <<clock, file, lease, len, known, late>>

\* seek(0); truncate().  A process that dies here leaves an empty file.
Truncate(p) ==
  /\ pc[p] = "locked"
  /\ ~Blocked(p)
  /\ file' = EmptyFile
  /\ pc' = [pc EXCEPT ![p] = "truncated"]
  /\ UNCHANGED <<clock, flock, now, lease, len, known, late>>

\* write, flush, unlock.
WriteRecord(p) ==
  /\ pc[p] = "truncated"
  /\ file' = [holder |-> p, expires |-> now[p] + TTL]
  /\ lease' = [lease EXCEPT ![p] = now[p] + TTL]
  /\ flock' = NoProc
  /\ pc' = [pc EXCEPT ![p] = "leased"]
  /\ now' = [now EXCEPT ![p] = 0]
  /\ UNCHANGED <<clock, len, known, late>>

-----------------------------------------------------------------------------
(* The tick *)

\* Mutant of Load: the cache of an earlier tick is kept.
LoadKept(p) ==
  /\ pc[p] = "leased"
  /\ pc' = [pc EXCEPT ![p] = "working"]
  /\ UNCHANGED <<clock, file, flock, now, lease, len, known, late>>

\* Mutant of Load: counts an event past the tail.
LoadPastTail(p) ==
  /\ pc[p] = "leased"
  /\ known' = [known EXCEPT ![p] = 1..(len + 1)]
  /\ pc' = [pc EXCEPT ![p] = "working"]
  /\ UNCHANGED <<clock, file, flock, now, lease, len, late>>

\* CommandHandler.projection(): reduce the whole log once, then cache it.
Load(p) ==
  /\ pc[p] = "leased"
  /\ known' = [known EXCEPT ![p] = 1..len]
  /\ pc' = [pc EXCEPT ![p] = "working"]
  /\ UNCHANGED <<clock, file, flock, now, lease, len, late>>

\* CommandHandler._append: no expected_sequence, no look at the lease; the
\* cache takes in this event only.
Append(p) ==
  /\ pc[p] = "working"
  /\ len < MaxAppends
  /\ len' = len + 1
  /\ known' = [known EXCEPT ![p] = @ \cup {len + 1}]
  /\ UNCHANGED <<clock, file, flock, pc, now, lease, late>>

StartRelease(p) ==
  /\ pc[p] = "working"
  /\ pc' = [pc EXCEPT ![p] = "releasing"]
  /\ UNCHANGED <<clock, file, flock, now, lease, len, known, late>>

\* The file is opened in "a+" mode, so fd.read() starts at the end of the
\* file and returns "", read as "{}": a record without a holder.
ReleaseRead == EmptyFile

\* release_lease, whole under the flock: truncate and unlink only when the
\* holder that was read is this process.
Release(p) ==
  /\ pc[p] = "releasing"
  /\ flock = NoProc
  /\ file' = IF ReleaseRead.holder = p THEN EmptyFile ELSE file
  /\ pc' = [pc EXCEPT ![p] = "idle"]
  /\ lease' = [lease EXCEPT ![p] = 0]
  /\ UNCHANGED <<clock, flock, now, len, known, late>>

-----------------------------------------------------------------------------
(* The environment *)

\* The operating system drops the flock of a process that dies.
Crash(p) ==
  /\ pc[p] # "dead"
  /\ pc' = [pc EXCEPT ![p] = "dead"]
  /\ flock' = IF flock = p THEN NoProc ELSE flock
  /\ now' = [now EXCEPT ![p] = 0]
  /\ lease' = [lease EXCEPT ![p] = 0]
  /\ UNCHANGED <<clock, file, len, known, late>>

\* The lease that p takes or holds is over at time t.
Expired(p, t) ==
  \/ Holding(p) /\ lease[p] <= t
  \/ Acquiring(p) /\ now[p] + TTL <= t

\* Nothing stops a tick whose lease is over; "late" remembers it.
Advance ==
  /\ clock < MaxClock
  /\ clock' = clock + 1
  /\ late' = late \cup {p \in Proc : Expired(p, clock + 1)}
  /\ UNCHANGED <<file, flock, pc, now, lease, len, known>>

Next ==
  \/ Advance
  \/ \E p \in Proc :
       \/ StartAcquire(p) \/ Lock(p) \/ Reject(p) \/ Truncate(p)
       \/ WriteRecord(p) \/ Load(p) \/ Append(p) \/ StartRelease(p)
       \/ Release(p) \/ Crash(p)

Spec == Init /\ [][Next]_vars

-----------------------------------------------------------------------------
\* The types of the variables (EventStore and CommandHandler attributes).
TypeOK ==
  /\ clock \in Nat
  /\ file \in [holder : Proc \cup {NoProc}, expires : Nat]
  /\ flock \in Proc \cup {NoProc}
  /\ pc \in [Proc -> Pcs]
  /\ now \in [Proc -> Nat]
  /\ lease \in [Proc -> Nat]
  /\ len \in Nat
  /\ known \in [Proc -> SUBSET (1..len)]
  /\ late \subseteq Proc

\* Two processes never hold an unexpired lease together, although each
\* decides on a clock it read before it queued for the file lock and a
\* process may die between the truncation and the write (acquire_lease).
LeaseExclusive ==
  \A p, q \in Proc :
    Holding(p) /\ Holding(q) /\ clock < lease[p] /\ clock < lease[q] => p = q

\* As long as every tick ended within its lease, the projection a tick
\* decides on is the reduction of the whole log: no other process has
\* appended since it was cached (CommandHandler.projection is reduced once
\* and then follows only its own appends; _append checks no lease).
CacheCurrent ==
  late = {} => \A p \in Proc : pc[p] = "working" => known[p] = 1..len

\* A tick that has ended no longer owns the lease file ("Always drop write
\* lease", actors/tick/__init__.py, TickJob.finish).
FinishedDropsLease ==
  \A p \in Proc : pc[p] = "idle" => file.holder # p
=============================================================================
