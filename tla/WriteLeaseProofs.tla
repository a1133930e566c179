-------------------------- MODULE WriteLeaseProofs --------------------------
(***************************************************************************)
(* Proofs about WriteLease for any set of processes, any TTL and clock.    *)
(*                                                                         *)
(* Exclusive is inductive whatever the length of ticks; TickInv adds what  *)
(* holds as long as no tick has outlived its lease.                        *)
(***************************************************************************)
EXTENDS WriteLease, TLAPS

USE LeaseAssumption

\* The variables keep their types (the attributes of EventStore and
\* CommandHandler that the lease protocol reads and writes).
THEOREM LeaseTyping == Spec => []TypeOK
<1>1. Init => TypeOK
  BY DEF Init, TypeOK, EmptyFile, Pcs
<1>2. TypeOK /\ [Next]_vars => TypeOK'
  <2> SUFFICES ASSUME TypeOK, [Next]_vars PROVE TypeOK'
    OBVIOUS
  <2> USE DEF TypeOK, Pcs
  <2>1. CASE Advance
    BY <2>1 DEF Advance
  <2>2. ASSUME NEW p \in Proc, StartAcquire(p) PROVE TypeOK'
    BY <2>2 DEF StartAcquire
  <2>3. ASSUME NEW p \in Proc, Lock(p) PROVE TypeOK'
    BY <2>3 DEF Lock
  <2>4. ASSUME NEW p \in Proc, Reject(p) PROVE TypeOK'
    BY <2>4 DEF Reject
  <2>5. ASSUME NEW p \in Proc, Truncate(p) PROVE TypeOK'
    BY <2>5 DEF Truncate, EmptyFile
  <2>6. ASSUME NEW p \in Proc, WriteRecord(p) PROVE TypeOK'
    BY <2>6 DEF WriteRecord
  <2>7. ASSUME NEW p \in Proc, Load(p) PROVE TypeOK'
    BY <2>7 DEF Load
  <2>8. ASSUME NEW p \in Proc, Append(p) PROVE TypeOK'
    BY <2>8 DEF Append
  <2>9. ASSUME NEW p \in Proc, StartRelease(p) PROVE TypeOK'
    BY <2>9 DEF StartRelease
  <2>10. ASSUME NEW p \in Proc, Release(p) PROVE TypeOK'
    BY <2>10 DEF Release, ReleaseRead, EmptyFile
  <2>11. ASSUME NEW p \in Proc, Crash(p) PROVE TypeOK'
    BY <2>11 DEF Crash
  <2>12. CASE UNCHANGED vars
    BY <2>12 DEF vars
  <2>13. QED
    BY <2>1, <2>2, <2>3, <2>4, <2>5, <2>6, <2>7, <2>8, <2>9, <2>10, <2>11,
       <2>12 DEF Next
<1>3. QED
  BY <1>1, <1>2, PTL DEF Spec

-----------------------------------------------------------------------------
\* acquire_lease decides on a clock that is not ahead of the present one.
ReadClock == \A p \in Proc : Acquiring(p) => now[p] <= clock

\* The process inside acquire_lease's critical section owns the flock, and
\* finds the file empty once it has truncated it.
Section ==
  \A p \in Proc :
    /\ pc[p] \in {"locked", "truncated"} => flock = p
    /\ pc[p] = "truncated" => file = EmptyFile

\* The record in the file is that of the process whose lease still runs.
Recorded ==
  \A p \in Proc : Holding(p) /\ clock < lease[p] =>
    file.holder = p /\ file.expires = lease[p]

Exclusive == TypeOK /\ ReadClock /\ Section /\ Recorded

LEMMA ExclusiveInit == Init => Exclusive
  BY DEF Init, Exclusive, TypeOK, EmptyFile, Pcs, ReadClock, Section,
         Recorded, Holding, Acquiring

LEMMA ExclusiveStep == TypeOK' /\ Exclusive /\ [Next]_vars => Exclusive'
<1> SUFFICES ASSUME TypeOK', Exclusive, [Next]_vars PROVE Exclusive'
  OBVIOUS
<1> USE DEF Exclusive, TypeOK, Pcs, ReadClock, Section, Recorded, Holding,
            Acquiring, EmptyFile
<1>1. CASE Advance
  BY <1>1 DEF Advance
<1>2. ASSUME NEW p \in Proc, StartAcquire(p) PROVE Exclusive'
  BY <1>2 DEF StartAcquire
<1>3. ASSUME NEW p \in Proc, Lock(p) PROVE Exclusive'
  BY <1>3 DEF Lock
<1>4. ASSUME NEW p \in Proc, Reject(p) PROVE Exclusive'
  BY <1>4 DEF Reject
<1>5. ASSUME NEW p \in Proc, Truncate(p) PROVE Exclusive'
  <2>1. ASSUME NEW q \in Proc, Holding(q), clock < lease[q] PROVE FALSE
    BY <1>5, <2>1 DEF Truncate, Blocked
  <2>2. Recorded'
    BY <1>5, <2>1 DEF Truncate
  <2>3. ReadClock' /\ Section'
    BY <1>5 DEF Truncate
  <2>4. QED
    BY <2>2, <2>3
<1>6. ASSUME NEW p \in Proc, WriteRecord(p) PROVE Exclusive'
  <2>1. ASSUME NEW q \in Proc, Holding(q), clock < lease[q] PROVE FALSE
    BY <1>6, <2>1 DEF WriteRecord
  <2>2. Recorded'
    BY <1>6, <2>1 DEF WriteRecord
  <2>3. ReadClock' /\ Section'
    BY <1>6 DEF WriteRecord
  <2>4. QED
    BY <2>2, <2>3
<1>7. ASSUME NEW p \in Proc, Load(p) PROVE Exclusive'
  BY <1>7 DEF Load
<1>8. ASSUME NEW p \in Proc, Append(p) PROVE Exclusive'
  BY <1>8 DEF Append
<1>9. ASSUME NEW p \in Proc, StartRelease(p) PROVE Exclusive'
  BY <1>9 DEF StartRelease
<1>10. ASSUME NEW p \in Proc, Release(p) PROVE Exclusive'
  BY <1>10 DEF Release, ReleaseRead
<1>11. ASSUME NEW p \in Proc, Crash(p) PROVE Exclusive'
  BY <1>11 DEF Crash
<1>12. CASE UNCHANGED vars
  BY <1>12 DEF vars
<1>13. QED
  BY <1>1, <1>2, <1>3, <1>4, <1>5, <1>6, <1>7, <1>8, <1>9, <1>10, <1>11,
     <1>12 DEF Next

LEMMA ExclusiveAlways == Spec => []Exclusive
<1>1. TypeOK /\ TypeOK' /\ Exclusive /\ [Next]_vars => Exclusive'
  BY ExclusiveStep
<1>2. QED
  BY <1>1, ExclusiveInit, LeaseTyping, PTL DEF Spec

\* Two processes never hold an unexpired lease together, whatever the TTL
\* and however long the ticks last (acquire_lease).
THEOREM LeaseIsExclusive == Spec => []LeaseExclusive
<1>1. Exclusive => LeaseExclusive
  BY DEF Exclusive, Recorded, LeaseExclusive, TypeOK
<1>2. QED
  BY <1>1, ExclusiveAlways, PTL

-----------------------------------------------------------------------------
\* As long as no tick has been late, a lease that is being taken or held has
\* not expired, so its process alone is in a tick and alone appends.
Running == late = {} => \A p \in Proc : ~Expired(p, clock)

TickInv == Running /\ CacheCurrent

LEMMA TickInvStep ==
  ASSUME Exclusive, TickInv, [Next]_vars
  PROVE  TickInv'
<1> USE DEF Exclusive, TypeOK, Pcs, TickInv, Running, CacheCurrent, Holding,
            Acquiring, Expired
<1>1. CASE Advance
  BY <1>1 DEF Advance
<1>2. ASSUME NEW p \in Proc, StartAcquire(p) PROVE TickInv'
  BY <1>2 DEF StartAcquire
<1>3. ASSUME NEW p \in Proc, Lock(p) PROVE TickInv'
  BY <1>3 DEF Lock
<1>4. ASSUME NEW p \in Proc, Reject(p) PROVE TickInv'
  BY <1>4 DEF Reject
<1>5. ASSUME NEW p \in Proc, Truncate(p) PROVE TickInv'
  BY <1>5 DEF Truncate
<1>6. ASSUME NEW p \in Proc, WriteRecord(p) PROVE TickInv'
  BY <1>6 DEF WriteRecord
<1>7. ASSUME NEW p \in Proc, Load(p) PROVE TickInv'
  BY <1>7 DEF Load
<1>8. ASSUME NEW p \in Proc, Append(p) PROVE TickInv'
  <2>1. ASSUME NEW q \in Proc, pc[q] = "working", late = {} PROVE q = p
    BY <1>8, <2>1 DEF Append, Recorded
  <2>2. ASSUME late = {} PROVE known'[p] = 1..len'
    BY <1>8, <2>2 DEF Append
  <2>3. CacheCurrent'
    BY <1>8, <2>1, <2>2 DEF Append
  <2>4. Running'
    BY <1>8 DEF Append
  <2>5. QED
    BY <2>3, <2>4
<1>9. ASSUME NEW p \in Proc, StartRelease(p) PROVE TickInv'
  BY <1>9 DEF StartRelease
<1>10. ASSUME NEW p \in Proc, Release(p) PROVE TickInv'
  BY <1>10 DEF Release
<1>11. ASSUME NEW p \in Proc, Crash(p) PROVE TickInv'
  BY <1>11 DEF Crash
<1>12. CASE UNCHANGED vars
  BY <1>12 DEF vars
<1>13. QED
  BY <1>1, <1>2, <1>3, <1>4, <1>5, <1>6, <1>7, <1>8, <1>9, <1>10, <1>11,
     <1>12 DEF Next

\* As long as every tick ended within its lease, the projection a tick
\* decides on is the reduction of the whole log, although no append checks
\* the lease (CommandHandler.projection, _append).
THEOREM CacheIsCurrent == Spec => []CacheCurrent
<1>1. Init => TickInv
  BY DEF Init, TickInv, Running, CacheCurrent, Expired, Holding, Acquiring
<1>2. Exclusive /\ TickInv /\ [Next]_vars => TickInv'
  BY TickInvStep
<1>3. TickInv => CacheCurrent
  BY DEF TickInv
<1>4. QED
  BY <1>1, <1>2, <1>3, ExclusiveAlways, PTL DEF Spec
=============================================================================
