---------------------------- MODULE WorkdirProofs ----------------------------
(***************************************************************************)
(* Proofs about what the ticks of a run leave in the workdir: the staged   *)
(* lessons (Staging), the memory made of them (Lifecycle) and the claimed  *)
(* deliverables (Delivery).  Each part is a specification of its own.      *)
(***************************************************************************)
EXTENDS Staging, Lifecycle, Delivery, FiniteSetTheorems, WellFoundedInduction, TLAPS

------------------------------------------------------------------------------
(***************************************************************************)
(* Proofs about Staging for any cap, any number of ticks below 1000 and    *)
(* any number of crashes.                                                  *)
(*                                                                         *)
(* The files beyond the cap are never more than two, so that an archive is *)
(* named after every file it is made of.  A file carries the ticks in its  *)
(* name but those that are lost, so that a file that replaces one of its   *)
(* name carries the same lessons or the difference is lost.  While a batch *)
(* runs, every recorded tick is still to be staged, or its lesson is in a  *)
(* file, in the archive about to be written or among the candidates, or it *)
(* is lost.                                                                *)
(***************************************************************************)

Names == {n \in Seq(Nat) : ToSet(n) \subseteq 1..StagingTicks \cup {Archive}}
NamedAfter == [name : Names, lessons : SUBSET (1..StagingTicks)]

\* Files of different names.
FilesOf(S) == S \subseteq NamedAfter /\ \A f, g \in S : f.name = g.name => f = g

\* The lessons of a file are the ticks in its name that are not gone.
Tells(f, gone) ==
  /\ f.lessons \subseteq ToSet(f.name)
  /\ ToSet(f.name) \subseteq f.lessons \cup gone \cup {Archive}

StagingTyped ==
  /\ recorded \in Seq(1..StagingTicks)
  /\ lastTick \in 0..StagingTicks
  /\ stageJob \in {"none", "tick", "batch"}
  /\ stagePc \in {"idle", "stage", "write", "cap", "archive", "polish", "flush",
                  "delete", "done"}
  /\ todo \in Seq(1..StagingTicks)
  /\ candidates \subseteq 1..StagingTicks
  /\ archive.file \in NamedAfter
  /\ archive.next \in {"idle", "write", "stage", "polish"}
  /\ flushed \in NamedAfter
  /\ stageCrashes \in 0..StagingCrashes
  /\ lost \subseteq 1..StagingTicks

NamesTell ==
  /\ FilesOf(refined)
  /\ \A f \in refined : Tells(f, lost)
  /\ Tells(archive.file, lost)

\* How many files there are at each step.
CountsHold ==
  /\ IsFiniteSet(refined)
  /\ Cardinality(refined) <= StagingCap + 2
  /\ stagePc = "archive" => Cardinality(refined) <= StagingCap
  /\ stagePc \in {"write", "polish"} => Cardinality(refined) <= StagingCap + 1

\* What the steps leave in the variables.
StepsHold ==
  /\ stagePc # "archive" => archive = NoArchive
  /\ stagePc \in {"write", "cap"} => todo # <<>>
  /\ stagePc = "archive" /\ archive.next = "write" => todo # <<>>
  /\ stagePc \in {"polish", "flush", "delete", "done"} => todo = <<>> /\ stageJob = "batch"
  /\ stagePc = "archive" /\ archive.next = "polish" => todo = <<>> /\ stageJob = "batch"
  /\ stagePc = "archive" => archive.next # "idle"
  /\ stagePc = "idle" <=> stageJob = "none"
  /\ stageJob = "tick" => lastTick \in 1..StagingTicks
  /\ stagePc = "cap" => \E f \in refined : f.name = <<Head(todo)>>
  /\ stagePc = "delete" => flushed.lessons \subseteq candidates
  /\ stagePc = "done" => refined = {}

\* A lesson is in a file of S.
InFile(t, S) == \E f \in S : t \in f.lessons

Carried(t) ==
  \/ t \in candidates
  \/ InFile(t, refined)
  \/ t \in archive.file.lessons
  \/ t \in ToSet(todo)
  \/ t \in lost

BatchCarries == stageJob = "batch" => \A t \in ToSet(recorded) : Carried(t)

StagingInv ==
  StagingTyped /\ NamesTell /\ CountsHold /\ StepsHold /\ BatchCarries

USE StagingAssumption

-----------------------------------------------------------------------------
LEMMA OneSet ==
  ASSUME NEW x
  PROVE  ToSet(<<x>>) = {x}
<1>1. DOMAIN <<x>> = {1} /\ <<x>>[1] = x
  OBVIOUS
<1>. QED
  BY <1>1 DEF ToSet

LEMMA JoinedSet ==
  ASSUME NEW a \in Seq(Nat), NEW b \in Seq(Nat)
  PROVE  a \o b \in Seq(Nat) /\ ToSet(a \o b) = ToSet(a) \cup ToSet(b)
<1>1. /\ DOMAIN a = 1..Len(a) /\ DOMAIN b = 1..Len(b)
      /\ DOMAIN (a \o b) = 1..(Len(a) + Len(b)) /\ Len(a) \in Nat /\ Len(b) \in Nat
      /\ \A i \in 1..Len(a) : (a \o b)[i] = a[i]
      /\ a \o b \in Seq(Nat)
  OBVIOUS
<1>2. \A i \in 1..Len(b) : Len(a) + i \in DOMAIN (a \o b) /\ (a \o b)[Len(a) + i] = b[i]
  BY <1>1
<1>3. ASSUME NEW i \in DOMAIN (a \o b) PROVE (a \o b)[i] \in ToSet(a) \cup ToSet(b)
  <2>1. CASE i <= Len(a)
    <3>1. i \in DOMAIN a /\ (a \o b)[i] = a[i]
      BY <1>1, <2>1
    <3>. QED
      BY <3>1 DEF ToSet
  <2>2. CASE i > Len(a)
    <3>1. i - Len(a) \in 1..Len(b) /\ i - Len(a) \in DOMAIN b /\ Len(a) + (i - Len(a)) = i
      BY <1>1, <2>2
    <3>2. (a \o b)[i] = b[i - Len(a)]
      BY <1>2, <3>1
    <3>. QED
      BY <3>1, <3>2 DEF ToSet
  <2>. QED
    BY <1>1, <2>1, <2>2
<1>4. ToSet(a) \subseteq ToSet(a \o b)
  <2>1. \A i \in DOMAIN a : i \in DOMAIN (a \o b) /\ (a \o b)[i] = a[i]
    BY <1>1
  <2>. QED
    BY <2>1 DEF ToSet
<1>5. ToSet(b) \subseteq ToSet(a \o b)
  BY <1>1, <1>2 DEF ToSet
<1>. QED
  BY <1>1, <1>3, <1>4, <1>5 DEF ToSet

LEMMA JoinedSets ==
  ASSUME NEW a \in Seq(Nat), NEW b \in Seq(Nat), NEW c \in Seq(Nat)
  PROVE  /\ a \o b \o c \in Seq(Nat)
         /\ ToSet(a \o b \o c) = ToSet(a) \cup ToSet(b) \cup ToSet(c)
<1>1. a \o b \in Seq(Nat) /\ ToSet(a \o b) = ToSet(a) \cup ToSet(b)
  BY JoinedSet
<1>2. (a \o b) \o c \in Seq(Nat) /\ ToSet((a \o b) \o c) = ToSet(a \o b) \cup ToSet(c)
  BY <1>1, JoinedSet
<1>. QED
  BY <1>1, <1>2

-----------------------------------------------------------------------------
LEMMA NotBeforeItself ==
  ASSUME NEW a \in Seq(Nat)
  PROVE  ~Before(a, a)
<1>1. Len(a) \in Nat /\ \A i \in 1..Len(a) : a[i] \in Nat
  OBVIOUS
<1>2. ASSUME NEW n \in 0..Len(a), n < Len(a), n = Len(a) \/ a[n + 1] < a[n + 1]
      PROVE  FALSE
  <2>1. n + 1 \in 1..Len(a)
    BY <1>1, <1>2
  <2>2. a[n + 1] \in Nat
    BY <1>1, <2>1
  <2>. QED
    BY <1>1, <1>2, <2>2
<1>. QED
  BY <1>2 DEF Before

LEMMA BeforeIsTransitive ==
  ASSUME NEW a \in Seq(Nat), NEW b \in Seq(Nat), NEW c \in Seq(Nat),
         Before(a, b), Before(b, c)
  PROVE  Before(a, c)
<1>1. /\ Len(a) \in Nat /\ \A i \in 1..Len(a) : a[i] \in Nat
      /\ Len(b) \in Nat /\ \A i \in 1..Len(b) : b[i] \in Nat
      /\ Len(c) \in Nat /\ \A i \in 1..Len(c) : c[i] \in Nat
  OBVIOUS
<1>2. PICK m \in 0..Len(a) : /\ m < Len(b)
                             /\ \A i \in 1..m : a[i] = b[i]
                             /\ m = Len(a) \/ a[m + 1] < b[m + 1]
  BY DEF Before
<1>3. PICK n \in 0..Len(b) : /\ n < Len(c)
                             /\ \A i \in 1..n : b[i] = c[i]
                             /\ n = Len(b) \/ b[n + 1] < c[n + 1]
  BY DEF Before
<1>4. m \in Nat /\ n \in Nat
  BY <1>1
<1>5. CASE m < n
  <2>1. \A i \in 1..m : a[i] = c[i]
    BY <1>2, <1>3, <1>4, <1>5
  <2>2. m < Len(c)
    BY <1>1, <1>3, <1>4, <1>5
  <2>3. m + 1 \in 1..n
    BY <1>4, <1>5
  <2>4. b[m + 1] = c[m + 1]
    BY <1>3, <2>3
  <2>. QED
    BY <1>2, <2>1, <2>2, <2>4 DEF Before
<1>6. CASE n < m
  <2>1. \A i \in 1..n : a[i] = c[i]
    BY <1>2, <1>3, <1>4, <1>6
  <2>2. n + 1 \in 1..m /\ n # Len(b) /\ n \in 0..Len(a)
    BY <1>1, <1>2, <1>4, <1>6
  <2>3. a[n + 1] = b[n + 1] /\ b[n + 1] < c[n + 1]
    BY <1>2, <1>3, <2>2
  <2>. QED
    BY <1>3, <2>1, <2>2, <2>3 DEF Before
<1>7. CASE m = n
  <2>1. \A i \in 1..m : a[i] = c[i]
    BY <1>2, <1>3, <1>7
  <2>2. m < Len(c) /\ m # Len(b)
    BY <1>1, <1>2, <1>3, <1>7
  <2>3. CASE m = Len(a)
    BY <2>1, <2>2, <2>3 DEF Before
  <2>4. CASE m # Len(a)
    <3>1. m + 1 \in 1..Len(a) /\ m + 1 \in 1..Len(b) /\ m + 1 \in 1..Len(c)
      <4>1. Len(a) \in Nat /\ Len(b) \in Nat /\ Len(c) \in Nat
        BY <1>1
      <4>2. m \in 0..Len(a) /\ m < Len(b)
        BY <1>2
      <4>3. m < Len(c)
        BY <2>2
      <4>. QED
        BY <2>4, <4>1, <4>2, <4>3
    <3>2. a[m + 1] \in Nat /\ b[m + 1] \in Nat /\ c[m + 1] \in Nat
      BY <1>1, <3>1
    <3>3. a[m + 1] < b[m + 1] /\ b[m + 1] < c[m + 1]
      BY <1>2, <1>3, <1>7, <2>2, <2>4
    <3>4. a[m + 1] < c[m + 1]
      BY <3>2, <3>3
    <3>. QED
      BY <2>1, <2>2, <3>4 DEF Before
  <2>. QED
    BY <2>3, <2>4
<1>. QED
  BY <1>4, <1>5, <1>6, <1>7

\* Of two different names one comes before the other.
LEMMA BeforeIsTotal ==
  ASSUME NEW a \in Seq(Nat), NEW b \in Seq(Nat), a # b
  PROVE  Before(a, b) \/ Before(b, a)
<1>. DEFINE Apart == {n \in Nat : n = Len(a) \/ n = Len(b) \/ a[n + 1] # b[n + 1]}
            R == {ss \in Nat \X Nat : ss[1] < ss[2]}
<1>1. /\ Len(a) \in Nat /\ \A i \in 1..Len(a) : a[i] \in Nat
      /\ Len(b) \in Nat /\ \A i \in 1..Len(b) : b[i] \in Nat
  OBVIOUS
<1>2. Apart \subseteq Nat /\ Apart # {}
  BY <1>1
<1>3. IsWellFoundedOn(R, Nat)
  BY NatLessThanWellFounded DEF OpToRel
<1>4. PICK n \in Apart : \A m \in Apart : ~(<<m, n>> \in R)
  <2>. HIDE DEF Apart, R
  <2>. QED
    BY <1>2, <1>3, WFMin
<1>5. n \in Nat
  BY <1>2, <1>4
<1>6. \A m \in 0..(n - 1) : m \notin Apart
  <2>. SUFFICES ASSUME NEW m \in 0..(n - 1), m \in Apart PROVE FALSE
    OBVIOUS
  <2>1. m \in Nat /\ m < n
    BY <1>5
  <2>2. <<m, n>> \in R
    BY <1>5, <2>1
  <2>. QED
    BY <1>4, <2>2
<1>7. n <= Len(a) /\ n <= Len(b)
  <2>1. Len(a) \in Apart /\ Len(b) \in Apart
    BY <1>1
  <2>2. ~(Len(a) < n) /\ ~(Len(b) < n)
    BY <1>1, <1>4, <1>5, <2>1
  <2>. QED
    BY <1>1, <1>5, <2>2
<1>8. \A i \in 1..n : a[i] = b[i]
  <2>. SUFFICES ASSUME NEW i \in 1..n PROVE a[i] = b[i]
    OBVIOUS
  <2>1. i - 1 \in 0..(n - 1) /\ i - 1 \in Nat /\ (i - 1) + 1 = i
    BY <1>5
  <2>2. i - 1 \notin Apart
    BY <1>6, <2>1
  <2>. QED
    BY <2>1, <2>2
<1>9. n \in 0..Len(a) /\ n \in 0..Len(b)
  BY <1>1, <1>5, <1>7
<1>10. CASE n = Len(a) /\ n = Len(b)
  <2>1. /\ a = [i \in 1..Len(a) |-> a[i]]
        /\ b = [i \in 1..Len(b) |-> b[i]]
    OBVIOUS
  <2>2. [i \in 1..Len(a) |-> a[i]] = [i \in 1..Len(b) |-> b[i]]
    BY <1>8, <1>10
  <2>. QED
    BY <2>1, <2>2
<1>11. CASE n = Len(a) /\ n # Len(b)
  <2>1. n < Len(b)
    BY <1>1, <1>5, <1>7, <1>11
  <2>. QED
    BY <1>8, <1>9, <1>11, <2>1 DEF Before
<1>12. CASE n # Len(a) /\ n = Len(b)
  <2>1. n < Len(a) /\ \A i \in 1..n : b[i] = a[i]
    BY <1>1, <1>5, <1>7, <1>8, <1>12
  <2>. QED
    BY <1>9, <1>12, <2>1 DEF Before
<1>13. CASE n # Len(a) /\ n # Len(b)
  <2>1. n < Len(a) /\ n < Len(b) /\ \A i \in 1..n : b[i] = a[i]
    BY <1>1, <1>5, <1>7, <1>8, <1>13
  <2>2. n + 1 \in 1..Len(a) /\ n + 1 \in 1..Len(b)
    BY <1>1, <1>5, <2>1
  <2>3. a[n + 1] \in Nat /\ b[n + 1] \in Nat /\ a[n + 1] # b[n + 1]
    BY <1>1, <1>4, <1>13, <2>2
  <2>4. a[n + 1] < b[n + 1] \/ b[n + 1] < a[n + 1]
    BY <2>3
  <2>. QED
    BY <1>8, <1>9, <2>1, <2>4 DEF Before
<1>. QED
  BY <1>10, <1>11, <1>12, <1>13

-----------------------------------------------------------------------------
LEMMA NamesDiffer ==
  ASSUME NEW S, FilesOf(S), NEW f \in S, NEW g \in S, f # g
  PROVE  f.name \in Seq(Nat) /\ g.name \in Seq(Nat) /\ f.name # g.name
BY DEF FilesOf, NamedAfter, Names

LEMMA SomeFiles ==
  ASSUME NEW S, FilesOf(S), NEW T \in SUBSET S
  PROVE  FilesOf(T)
BY DEF FilesOf

\* A finite set of files has a first one.
LEMMA FirstFile ==
  ASSUME NEW S, FilesOf(S), IsFiniteSet(S), S # {}
  PROVE  \E f \in S : \A g \in S \ {f} : Before(f.name, g.name)
<1>. DEFINE Earlier(f) == {g \in S : Before(g.name, f.name)}
            Counts == {Cardinality(Earlier(f)) : f \in S}
            R == {ss \in Nat \X Nat : ss[1] < ss[2]}
<1>1. \A f \in S : IsFiniteSet(Earlier(f)) /\ Cardinality(Earlier(f)) \in Nat
  BY FS_Subset, FS_CardinalityType
<1>2. Counts \subseteq Nat /\ Counts # {}
  BY <1>1
<1>3. IsWellFoundedOn(R, Nat)
  BY NatLessThanWellFounded DEF OpToRel
<1>4. PICK n \in Counts : \A m \in Counts : ~(<<m, n>> \in R)
  <2>. HIDE DEF Counts, R
  <2>. QED
    BY <1>2, <1>3, WFMin
<1>5. PICK f \in S : n = Cardinality(Earlier(f))
  BY <1>4
<1>6. ASSUME NEW g \in S \ {f} PROVE Before(f.name, g.name)
  <2>1. f.name \in Seq(Nat) /\ g.name \in Seq(Nat) /\ f.name # g.name
    BY <1>6, NamesDiffer
  <2>2. CASE Before(g.name, f.name)
    <3>1. ASSUME NEW h \in Earlier(g) PROVE h \in Earlier(f)
      <4>1. h \in S /\ Before(h.name, g.name)
        BY <3>1
      <4>2. h.name \in Seq(Nat)
        BY <4>1 DEF FilesOf, NamedAfter, Names
      <4>. QED
        BY <2>1, <2>2, <4>1, <4>2, BeforeIsTransitive
    <3>2. g \in Earlier(f) /\ g \notin Earlier(g)
      BY <1>6, <2>1, <2>2, NotBeforeItself
    <3>3. Earlier(g) \subseteq Earlier(f) /\ Earlier(g) # Earlier(f)
      BY <3>1, <3>2
    <3>4. Cardinality(Earlier(g)) < Cardinality(Earlier(f))
      <4>. HIDE DEF Earlier
      <4>. QED
        BY <1>1, <3>3, FS_Subset, FS_CardinalityType
    <3>5. Cardinality(Earlier(g)) \in Counts
      BY <1>6
    <3>6. Cardinality(Earlier(g)) \in Nat /\ Cardinality(Earlier(f)) \in Nat
      BY <1>1, <1>5, <1>6
    <3>. QED
      BY <1>4, <1>5, <3>4, <3>5, <3>6
  <2>. QED
    BY <2>1, <2>2, BeforeIsTotal
<1>. QED
  BY <1>6

\* A pair of files has an oldest and a newest one.
LEMMA PairOrdered ==
  ASSUME NEW a, NEW b, FilesOf({a, b}), Before(a.name, b.name)
  PROVE  Oldest({a, b}) = a /\ Newest({a, b}) = b
<1>1. a.name \in Seq(Nat) /\ b.name \in Seq(Nat)
  BY DEF FilesOf, NamedAfter, Names
<1>2. ~Before(b.name, a.name) /\ a # b
  BY <1>1, BeforeIsTransitive, NotBeforeItself
<1>3. \A f \in {a, b} :
        /\ (\A g \in {a, b} \ {f} : Before(f.name, g.name)) <=> f = a
        /\ (\A g \in {a, b} \ {f} : Before(g.name, f.name)) <=> f = b
  BY <1>2
<1>. QED
  BY <1>3 DEF Oldest, Newest

LEMMA OneOrdered ==
  ASSUME NEW a
  PROVE  Oldest({a}) = a /\ Newest({a}) = a
BY DEF Oldest, Newest

LEMMA OldestIsOne ==
  ASSUME NEW S, FilesOf(S), IsFiniteSet(S), S # {}
  PROVE  Oldest(S) \in S
BY FirstFile DEF Oldest

\* With one or two files beyond the cap these are the oldest, and the archive
\* is named after all of them.
LEMMA OverflowFacts ==
  ASSUME FilesOf(refined), IsFiniteSet(refined),
         Cardinality(refined) > StagingCap, Cardinality(refined) <= StagingCap + 2
  PROVE  /\ Overflow \subseteq refined
         /\ Cardinality(refined \ Overflow) = StagingCap
         /\ \E x, y \in Overflow :
              /\ Overflow = {x, y}
              /\ Oldest(Overflow) = x /\ Newest(Overflow) = y
<1>. DEFINE k == Cardinality(refined) - StagingCap
            Oldies(S) == \A f \in S, g \in refined \ S : Before(f.name, g.name)
<1>1. Cardinality(refined) \in Nat /\ StagingCap \in Nat \ {0} /\ k \in {1, 2}
  BY FS_CardinalityType
<1>2. refined # {}
  BY <1>1, FS_EmptySet
<1>3. PICK a \in refined : \A g \in refined \ {a} : Before(a.name, g.name)
  BY <1>2, FirstFile
<1>4. \E S \in kSubset(k, refined) : Oldies(S)
  <2>1. CASE k = 1
    <3>1. {a} \in kSubset(k, refined)
      BY <1>3, <2>1, FS_Singleton DEF kSubset
    <3>2. Oldies({a})
      BY <1>3
    <3>. QED
      BY <3>1, <3>2
  <2>2. CASE k = 2
    <3>1. /\ IsFiniteSet(refined \ {a})
          /\ Cardinality(refined \ {a}) = Cardinality(refined) - 1
      BY <1>3, FS_RemoveElement
    <3>2. refined \ {a} # {} /\ FilesOf(refined \ {a})
      BY <1>1, <2>2, <3>1, FS_EmptySet, SomeFiles
    <3>3. PICK b \in refined \ {a} :
            \A g \in (refined \ {a}) \ {b} : Before(b.name, g.name)
      BY <3>1, <3>2, FirstFile
    <3>4. Cardinality({a} \cup {b}) = 2
      <4>1. IsFiniteSet({a}) /\ Cardinality({a}) = 1 /\ b \notin {a}
        BY <3>3, FS_Singleton
      <4>2. Cardinality({a} \cup {b}) = Cardinality({a}) + 1
        BY <4>1, FS_AddElement
      <4>. QED
        BY <4>1, <4>2
    <3>5. {a, b} = {a} \cup {b}
      OBVIOUS
    <3>6. {a, b} \in kSubset(k, refined)
      BY <1>3, <2>2, <3>3, <3>4, <3>5 DEF kSubset
    <3>7. Oldies({a, b})
      BY <1>3, <3>3
    <3>. QED
      BY <3>6, <3>7
  <2>. QED
    BY <1>1, <2>1, <2>2
<1>5. Overflow \in kSubset(k, refined)
  BY <1>4 DEF Overflow
<1>6. Overflow \subseteq refined /\ Cardinality(Overflow) = k /\ IsFiniteSet(Overflow)
  BY <1>5, FS_Subset DEF kSubset
<1>7. Cardinality(refined \ Overflow) = StagingCap
  <2>1. Overflow \cap refined = Overflow
    BY <1>6
  <2>2. Cardinality(refined \ Overflow) = Cardinality(refined) - Cardinality(Overflow)
    BY <1>6, <2>1, FS_Difference
  <2>. QED
    BY <1>1, <1>6, <2>2
<1>8. FilesOf(Overflow)
  BY <1>6, SomeFiles
<1>9. PICK x \in Overflow : \A g \in Overflow \ {x} : Before(x.name, g.name)
  BY <1>1, <1>6, <1>8, FS_EmptySet, FirstFile
<1>10. \E y \in Overflow : /\ Overflow = {x, y}
                           /\ Oldest(Overflow) = x /\ Newest(Overflow) = y
  <2>1. /\ IsFiniteSet(Overflow \ {x})
        /\ Cardinality(Overflow \ {x}) = k - 1
    BY <1>6, <1>9, FS_RemoveElement
  <2>2. CASE k = 1
    <3>1. Overflow \ {x} = {}
      BY <2>1, <2>2, FS_EmptySet
    <3>2. Overflow = {x} /\ Overflow = {x, x}
      BY <1>9, <3>1
    <3>. QED
      BY <1>9, <3>2, OneOrdered
  <2>3. CASE k = 2
    <3>1. PICK y : Overflow \ {x} = {y}
      <4>1. Cardinality(Overflow \ {x}) = 1
        BY <2>1, <2>3
      <4>. QED
        BY <2>1, <4>1, FS_Singleton
    <3>2. y \in Overflow /\ y # x /\ Overflow = {x, y}
      BY <1>9, <3>1
    <3>3. Before(x.name, y.name)
      BY <1>9, <3>2
    <3>. QED
      BY <1>8, <3>2, <3>3, PairOrdered
  <2>. QED
    BY <1>1, <2>2, <2>3
<1>. QED
  BY <1>6, <1>7, <1>9, <1>10

\* The archive is named after all the files it is made of; of their lessons
\* it tells those it has room for.
LEMMA MergedFacts ==
  ASSUME FilesOf(refined), IsFiniteSet(refined), \A g \in refined : Tells(g, lost),
         Cardinality(refined) > StagingCap, Cardinality(refined) <= StagingCap + 2,
         NEW f \in Overflow, NEW part \in SUBSET f.lessons
  PROVE  LET m == Merged(f, part)
         IN  /\ m \in NamedAfter
             /\ m.lessons \subseteq LessonsOf(Overflow)
             /\ Tells(m, lost \cup (LessonsOf(Overflow) \ m.lessons))
<1>. DEFINE m == Merged(f, part)
            all == LessonsOf(Overflow)
<1>1. Overflow \subseteq refined
  BY OverflowFacts
<1>2. PICK x \in Overflow, y \in Overflow :
        Overflow = {x, y} /\ Oldest(Overflow) = x /\ Newest(Overflow) = y
  BY OverflowFacts
<1>3. /\ x \in NamedAfter /\ y \in NamedAfter
      /\ Tells(x, lost) /\ Tells(y, lost)
  BY <1>1, <1>2 DEF FilesOf
<1>4. all = x.lessons \cup y.lessons
  BY <1>2 DEF LessonsOf
<1>5. m = [name |-> <<Archive>> \o x.name \o y.name,
           lessons |-> part \cup LessonsOf({g \in Overflow : Before(g.name, f.name)})]
  BY <1>2 DEF Merged
<1>6. m.lessons \subseteq all
  BY <1>5 DEF LessonsOf
<1>7. /\ <<Archive>> \o x.name \o y.name \in Seq(Nat)
      /\ ToSet(<<Archive>> \o x.name \o y.name)
           = {Archive} \cup ToSet(x.name) \cup ToSet(y.name)
  <2>1. x.name \in Seq(Nat) /\ y.name \in Seq(Nat) /\ <<Archive>> \in Seq(Nat)
    BY <1>3 DEF NamedAfter, Names, Archive
  <2>2. ToSet(<<Archive>>) = {Archive}
    BY OneSet
  <2>3. /\ <<Archive>> \o x.name \o y.name \in Seq(Nat)
        /\ ToSet(<<Archive>> \o x.name \o y.name)
             = ToSet(<<Archive>>) \cup ToSet(x.name) \cup ToSet(y.name)
    <3>. DEFINE u == <<Archive>>
                v == x.name
                w == y.name
    <3>1. u \in Seq(Nat) /\ v \in Seq(Nat) /\ w \in Seq(Nat)
      BY <2>1
    <3>. HIDE DEF u, v, w
    <3>2. u \o v \o w \in Seq(Nat) /\ ToSet(u \o v \o w) = ToSet(u) \cup ToSet(v) \cup ToSet(w)
      BY <3>1, JoinedSets
    <3>. QED
      BY <3>2 DEF u, v, w
  <2>. QED
    BY <2>2, <2>3
<1>8. ToSet(m.name) = {Archive} \cup ToSet(x.name) \cup ToSet(y.name)
  BY <1>5, <1>7
<1>9. m \in NamedAfter
  <2>1. /\ ToSet(x.name) \subseteq 1..StagingTicks \cup {Archive}
        /\ ToSet(y.name) \subseteq 1..StagingTicks \cup {Archive}
    BY <1>3 DEF NamedAfter, Names
  <2>2. m.name \in Names
    BY <1>5, <1>7, <1>8, <2>1 DEF Names
  <2>3. m.lessons \subseteq 1..StagingTicks
    BY <1>3, <1>4, <1>6 DEF NamedAfter
  <2>. QED
    BY <1>5, <2>2, <2>3 DEF NamedAfter
<1>10. Tells(m, lost \cup (all \ m.lessons))
  <2>1. m.lessons \subseteq ToSet(m.name)
    BY <1>3, <1>4, <1>6, <1>8 DEF Tells
  <2>2. /\ ToSet(x.name) \subseteq x.lessons \cup lost \cup {Archive}
        /\ ToSet(y.name) \subseteq y.lessons \cup lost \cup {Archive}
    BY <1>3 DEF Tells
  <2>. HIDE DEF m, all
  <2>3. ToSet(m.name) \subseteq m.lessons \cup (lost \cup (all \ m.lessons)) \cup {Archive}
    BY <1>4, <1>8, <2>2
  <2>. QED
    BY <2>1, <2>3 DEF Tells
<1>. QED
  BY <1>6, <1>9, <1>10

LEMMA TellsMore ==
  ASSUME NEW f, NEW gone, NEW more, Tells(f, gone), gone \subseteq more
  PROVE  Tells(f, more)
BY DEF Tells

-----------------------------------------------------------------------------
\* The cap either finds nothing to do or takes the overflow to the archive.
CapGoes(next) ==
  \/ /\ Cardinality(refined) <= StagingCap
     /\ stagePc' = next /\ refined' = refined /\ archive' = archive /\ lost' = lost
  \/ /\ stagePc' = "archive"
     /\ archive' = [file |-> archive'.file, next |-> next]
     /\ archive'.file \in NamedAfter /\ Tells(archive'.file, lost')
     /\ refined' \subseteq refined
     /\ IsFiniteSet(refined') /\ Cardinality(refined') <= StagingCap
     /\ lost \subseteq lost' /\ lost' \subseteq 1..StagingTicks
     /\ \A t : InFile(t, refined) =>
          InFile(t, refined') \/ t \in archive'.file.lessons \/ t \in lost'

LEMMA CapKeeps ==
  ASSUME FilesOf(refined), IsFiniteSet(refined), \A f \in refined : Tells(f, lost),
         lost \subseteq 1..StagingTicks,
         Cardinality(refined) <= StagingCap + 2,
         NEW next, EnforceCap(next)
  PROVE  CapGoes(next)
<1>1. Cardinality(refined) \in Nat /\ StagingCap \in Nat
  BY FS_CardinalityType
<1>2. CASE Cardinality(refined) <= StagingCap
  BY <1>2 DEF EnforceCap, CapGoes
<1>3. CASE Cardinality(refined) > StagingCap
  <2>0. PICK f \in Overflow : \E part \in SUBSET f.lessons :
          /\ refined' = refined \ Overflow
          /\ archive' = [file |-> Merged(f, part), next |-> next]
          /\ lost' = lost \cup (LessonsOf(Overflow) \ Merged(f, part).lessons)
          /\ stagePc' = "archive"
    BY <1>1, <1>3 DEF EnforceCap
  <2>1. PICK part \in SUBSET f.lessons :
          /\ refined' = refined \ Overflow
          /\ archive' = [file |-> Merged(f, part), next |-> next]
          /\ lost' = lost \cup (LessonsOf(Overflow) \ Merged(f, part).lessons)
          /\ stagePc' = "archive"
    BY <2>0
  <2>. DEFINE m == Merged(f, part)
              all == LessonsOf(Overflow)
  <2>2. Overflow \subseteq refined /\ Cardinality(refined \ Overflow) = StagingCap
    BY <1>3, OverflowFacts
  <2>3. /\ m \in NamedAfter /\ m.lessons \subseteq all
        /\ Tells(m, lost \cup (all \ m.lessons))
    BY <1>3, MergedFacts
  <2>4. archive'.file = m /\ lost' = lost \cup (all \ m.lessons)
    BY <2>1
  <2>. HIDE DEF m
  <2>5. IsFiniteSet(refined') /\ Cardinality(refined') <= StagingCap
    BY <1>1, <2>1, <2>2, FS_Subset
  <2>6. all \subseteq 1..StagingTicks
    BY <2>2 DEF LessonsOf, FilesOf, NamedAfter
  <2>7. ASSUME NEW t, InFile(t, refined)
        PROVE  InFile(t, refined') \/ t \in archive'.file.lessons \/ t \in lost'
    <3>1. PICK g \in refined : t \in g.lessons
      BY <2>7 DEF InFile
    <3>2. CASE g \in Overflow
      <4>1. t \in all
        BY <3>1, <3>2 DEF LessonsOf
      <4>. HIDE DEF all
      <4>. QED
        BY <2>4, <4>1
    <3>3. CASE g \notin Overflow
      BY <2>1, <3>1, <3>3 DEF InFile
    <3>. QED
      BY <3>2, <3>3
  <2>. HIDE DEF all
  <2>8. lost \subseteq lost' /\ lost' \subseteq 1..StagingTicks
    BY <2>4, <2>6
  <2>9. archive' = [file |-> archive'.file, next |-> next]
    BY <2>1 DEF m
  <2>10. archive'.file \in NamedAfter /\ Tells(archive'.file, lost')
    BY <2>3, <2>4
  <2>11. refined' \subseteq refined
    BY <2>1
  <2>. QED
    BY <2>1, <2>5, <2>7, <2>8, <2>9, <2>10, <2>11 DEF CapGoes
<1>. QED
  BY <1>1, <1>2, <1>3

\* What a file that is replaced told and the new one does not is gone.
LEMMA WrittenKeeps ==
  ASSUME FilesOf(refined), IsFiniteSet(refined),
         NEW gone, \A f \in refined : Tells(f, gone),
         NEW file \in NamedAfter, Tells(file, gone)
  PROVE  /\ FilesOf(Written(file)) /\ IsFiniteSet(Written(file))
         /\ \A f \in Written(file) : Tells(f, gone)
         /\ Cardinality(Written(file)) <= Cardinality(refined) + 1
         /\ \A t \in 1..StagingTicks : InFile(t, refined) \/ t \in file.lessons =>
              InFile(t, Written(file)) \/ t \in gone
<1>. DEFINE others == {f \in refined : f.name # file.name}
<1>1. /\ IsFiniteSet(others) /\ Cardinality(others) <= Cardinality(refined)
      /\ Cardinality(others) \in Nat /\ Cardinality(refined) \in Nat
  BY FS_Subset, FS_CardinalityType
<1>2. /\ IsFiniteSet(others \cup {file})
      /\ Cardinality(others \cup {file}) <= Cardinality(others) + 1
  <2>. HIDE DEF others
  <2>1. /\ IsFiniteSet(others \cup {file})
        /\ Cardinality(others \cup {file})
             = IF file \in others THEN Cardinality(others) ELSE Cardinality(others) + 1
    BY <1>1, FS_AddElement
  <2>. QED
    BY <1>1, <2>1
<1>3. Written(file) = others \cup {file}
  BY DEF Written
<1>4. FilesOf(Written(file)) /\ \A f \in Written(file) : Tells(f, gone)
  BY <1>3 DEF FilesOf
<1>5. ASSUME NEW t \in 1..StagingTicks, InFile(t, refined) \/ t \in file.lessons
      PROVE  InFile(t, Written(file)) \/ t \in gone
  <2>1. CASE t \in file.lessons
    BY <1>3, <2>1 DEF InFile
  <2>2. CASE InFile(t, refined)
    <3>1. PICK f \in refined : t \in f.lessons
      BY <2>2 DEF InFile
    <3>2. CASE f.name = file.name
      <4>1. t \in ToSet(file.name) /\ t # Archive
        BY <3>1, <3>2 DEF Tells, Archive
      <4>2. t \in file.lessons \/ t \in gone
        BY <4>1 DEF Tells
      <4>. QED
        BY <2>1, <4>2
    <3>3. CASE f.name # file.name
      <4>1. f \in Written(file)
        BY <1>3, <3>3
      <4>. QED
        BY <3>1, <4>1 DEF InFile
    <3>. QED
      BY <3>2, <3>3
  <2>. QED
    BY <1>5, <2>1, <2>2
<1>6. /\ IsFiniteSet(Written(file))
      /\ Cardinality(Written(file)) <= Cardinality(refined) + 1
  <2>. HIDE DEF others
  <2>1. Cardinality(others \cup {file}) \in Nat
    BY <1>2, FS_CardinalityType
  <2>. QED
    BY <1>1, <1>2, <1>3, <2>1
<1>. QED
  BY <1>4, <1>5, <1>6

-----------------------------------------------------------------------------
LEMMA StagingNothing ==
  /\ NoFile \in NamedAfter /\ NoFile.lessons = {}
  /\ \A gone : Tells(NoFile, gone)
  /\ NoArchive.file = NoFile /\ NoArchive.next = "idle"
<1>1. ToSet(<<>>) = {} /\ <<>> \in Seq(Nat)
  BY DEF ToSet
<1>. QED
  BY <1>1 DEF NoFile, NoArchive, NamedAfter, Tells, Names

LEMMA StagingInitial == StagingInit => StagingInv
<1>. SUFFICES ASSUME StagingInit PROVE StagingInv
  OBVIOUS
<1>1. StagingTyped
  BY StagingNothing DEF StagingInit, StagingTyped
<1>2. NamesTell
  BY StagingNothing DEF StagingInit, NamesTell, FilesOf
<1>3. CountsHold
  BY FS_EmptySet DEF StagingInit, CountsHold
<1>4. StepsHold
  BY DEF StagingInit, StepsHold
<1>5. BatchCarries
  BY DEF StagingInit, BatchCarries
<1>. QED
  BY <1>1, <1>2, <1>3, <1>4, <1>5 DEF StagingInv

\* The first of the ticks to stage and the others.
LEMMA HeadAndTail ==
  ASSUME NEW s \in Seq(1..StagingTicks), s # <<>>
  PROVE  /\ Head(s) \in 1..StagingTicks /\ Tail(s) \in Seq(1..StagingTicks)
         /\ ToSet(s) \subseteq {Head(s)} \cup ToSet(Tail(s))
<1>1. /\ Len(s) \in Nat \ {0} /\ DOMAIN s = 1..Len(s) /\ Head(s) = s[1]
      /\ Tail(s) \in Seq(1..StagingTicks) /\ DOMAIN Tail(s) = 1..(Len(s) - 1)
      /\ \A i \in 1..(Len(s) - 1) : Tail(s)[i] = s[i + 1]
      /\ \A i \in 1..Len(s) : s[i] \in 1..StagingTicks
  OBVIOUS
<1>2. ASSUME NEW i \in DOMAIN s, i # 1 PROVE s[i] \in ToSet(Tail(s))
  <2>1. i - 1 \in 1..(Len(s) - 1) /\ (i - 1) + 1 = i
    BY <1>1, <1>2
  <2>2. i - 1 \in DOMAIN Tail(s) /\ Tail(s)[i - 1] = s[i]
    BY <1>1, <2>1
  <2>. QED
    BY <2>2 DEF ToSet
<1>3. ToSet(s) \subseteq {Head(s)} \cup ToSet(Tail(s))
  BY <1>1, <1>2 DEF ToSet
<1>. QED
  BY <1>1, <1>3

\* The name and the lesson of a tick's own file, which may be empty.
LEMMA TickFile ==
  ASSUME NEW t \in 1..StagingTicks
  PROVE  /\ <<t>> \in Names /\ ToSet(<<t>>) = {t} /\ t # Archive
         /\ \A gone : Tells([name |-> <<t>>, lessons |-> {t}], gone)
<1>1. <<t>> \in Seq(Nat) /\ ToSet(<<t>>) = {t} /\ t # Archive
  BY OneSet DEF Archive
<1>. QED
  BY <1>1 DEF Tells, Names

\* A file of that name carries the lesson, unless it is lost.
LEMMA NamedTick ==
  ASSUME \A f \in refined : Tells(f, lost), NEW t \in 1..StagingTicks,
         \E f \in refined : f.name = <<t>>
  PROVE  InFile(t, refined) \/ t \in lost
BY TickFile DEF Tells, InFile

\* What the cap leaves is as it should be.
LEMMA CapLeaves ==
  ASSUME StagingInv, NEW next \in {"write", "stage", "polish"}, CapGoes(next),
         archive = NoArchive
  PROVE  /\ archive'.file \in NamedAfter /\ archive'.next \in {"idle", next}
         /\ stagePc' = "archive" => archive'.next = next
         /\ stagePc' # "archive" => stagePc' = next /\ archive' = NoArchive
         /\ lost \subseteq lost' /\ lost' \subseteq 1..StagingTicks
         /\ NamesTell' /\ CountsHold'
         /\ \A t : InFile(t, refined) =>
              InFile(t, refined') \/ t \in archive'.file.lessons \/ t \in lost'
<1>. USE DEF StagingInv
<1>1. /\ lost \subseteq lost' /\ refined' \subseteq refined
      /\ Tells(archive'.file, lost')
  BY StagingNothing DEF CapGoes, NamesTell
<1>2. NamesTell'
  <2>1. FilesOf(refined')
    BY <1>1, SomeFiles DEF NamesTell
  <2>2. ASSUME NEW f \in refined' PROVE Tells(f, lost')
    BY <1>1, TellsMore DEF NamesTell
  <2>. QED
    BY <1>1, <2>1, <2>2 DEF NamesTell
<1>3. CountsHold'
  BY FS_CardinalityType DEF CapGoes, CountsHold
<1>4. archive'.file \in NamedAfter /\ archive'.next \in {"idle", next}
  BY StagingNothing DEF CapGoes
<1>5. stagePc' = "archive" => archive'.next = next
  BY DEF CapGoes
<1>. QED
  BY <1>1, <1>2, <1>3, <1>4, <1>5 DEF CapGoes, StagingTyped

LEMMA RecordedTicks ==
  ASSUME StagingTyped
  PROVE  ToSet(recorded) \subseteq 1..StagingTicks
BY DEF StagingTyped, ToSet

LEMMA StagingStarts ==
  ASSUME StagingInv, StartPhase3 \/ StartBatch \/ RecordTick
  PROVE  StagingInv'
<1>. USE DEF StagingInv, stagingRest
<1>1. StagingTyped'
  <2>1. lastTick \in 0..StagingTicks /\ recorded \in Seq(1..StagingTicks)
    BY DEF StagingTyped
  <2>2. CASE StartPhase3
    <3>1. <<lastTick + 1>> \in Seq(1..StagingTicks) /\ lastTick + 1 \in 0..StagingTicks
      BY <2>1, <2>2 DEF StartPhase3
    <3>. QED
      BY <2>2, <3>1 DEF StartPhase3, StagingTyped
  <2>3. CASE StartBatch
    BY <2>1, <2>3 DEF StartBatch, StagingTyped, ToStage
  <2>4. CASE RecordTick
    <3>1. Append(recorded, lastTick) \in Seq(1..StagingTicks)
      BY <2>1, <2>4 DEF RecordTick, StepsHold
    <3>. QED
      BY <2>4, <3>1 DEF RecordTick, StagingTyped
  <2>. QED
    BY <2>2, <2>3, <2>4
<1>2. NamesTell'
  BY DEF StartPhase3, StartBatch, RecordTick, NamesTell
<1>3. CountsHold'
  BY DEF StartPhase3, StartBatch, RecordTick, CountsHold
<1>4. StepsHold'
  <2>1. CASE StartPhase3
    <3>1. lastTick + 1 \in 1..StagingTicks
      BY <2>1 DEF StartPhase3, StagingTyped
    <3>. QED
      BY <2>1, <3>1 DEF StartPhase3, StepsHold
  <2>2. CASE StartBatch
    BY <2>2 DEF StartBatch, StepsHold
  <2>3. CASE RecordTick
    BY <2>3 DEF RecordTick, StepsHold
  <2>. QED
    BY <2>1, <2>2, <2>3
<1>5. BatchCarries'
  <2>1. CASE StartBatch
    BY <2>1 DEF StartBatch, BatchCarries, Carried, ToStage
  <2>2. CASE StartPhase3 \/ RecordTick
    BY <2>2 DEF StartPhase3, RecordTick, BatchCarries
  <2>. QED
    BY <2>1, <2>2
<1>. QED
  BY <1>1, <1>2, <1>3, <1>4, <1>5

LEMMA StageLessonKeeps ==
  ASSUME StagingInv, StageLesson
  PROVE  StagingInv'
<1>. USE DEF StagingInv
<1>2. /\ stagePc = "stage" /\ todo # <<>> /\ todo \in Seq(1..StagingTicks)
      /\ UNCHANGED <<recorded, lastTick, candidates, stageJob, flushed, stageCrashes>>
      /\ archive = NoArchive
  BY DEF StageLesson, StagingTyped, StepsHold, stagingRest
<1>3. /\ Head(todo) \in 1..StagingTicks /\ Tail(todo) \in Seq(1..StagingTicks)
      /\ ToSet(todo) \subseteq {Head(todo)} \cup ToSet(Tail(todo))
  BY <1>2, HeadAndTail
<1>4. CASE \E f \in refined : f.name = <<Head(todo)>>
  <2>1. todo' = Tail(todo) /\ UNCHANGED <<stagePc, refined, archive, lost>>
    BY <1>4 DEF StageLesson
  <2>2. InFile(Head(todo), refined) \/ Head(todo) \in lost
    BY <1>3, <1>4, NamedTick DEF NamesTell
  <2>3. StagingTyped' /\ NamesTell' /\ CountsHold' /\ StepsHold'
    BY <1>2, <1>3, <2>1 DEF StagingTyped, NamesTell, CountsHold, StepsHold
  <2>4. BatchCarries'
    BY <1>2, <1>3, <2>1, <2>2 DEF BatchCarries, Carried
  <2>. QED
    BY <2>3, <2>4
<1>5. CASE ~ \E f \in refined : f.name = <<Head(todo)>>
  <2>1. EnforceCap("write") /\ UNCHANGED todo
    BY <1>5 DEF StageLesson
  <2>2. CapGoes("write")
    BY <2>1, CapKeeps DEF NamesTell, CountsHold, StagingTyped
  <2>3. /\ archive'.file \in NamedAfter /\ archive'.next \in {"idle", "write"}
        /\ stagePc' = "archive" => archive'.next = "write"
        /\ stagePc' # "archive" => stagePc' = "write" /\ archive' = NoArchive
        /\ lost \subseteq lost' /\ lost' \subseteq 1..StagingTicks
        /\ NamesTell' /\ CountsHold'
        /\ \A t : InFile(t, refined) =>
             InFile(t, refined') \/ t \in archive'.file.lessons \/ t \in lost'
    BY <1>2, <2>2, CapLeaves
  <2>4. StagingTyped' /\ StepsHold'
    BY <1>2, <2>1, <2>3 DEF StagingTyped, StepsHold
  <2>5. BatchCarries'
    BY <1>2, <2>1, <2>3, StagingNothing DEF BatchCarries, Carried
  <2>. QED
    BY <2>3, <2>4, <2>5
<1>. QED
  BY <1>4, <1>5

LEMMA WriteLessonKeeps ==
  ASSUME StagingInv, WriteLesson
  PROVE  StagingInv'
<1>. USE DEF StagingInv
<1>. DEFINE file == [name |-> <<Head(todo)>>, lessons |-> {Head(todo)}]
<1>1. Cardinality(refined) <= StagingCap + 1
  BY DEF CountsHold, WriteLesson
<1>2. /\ stagePc = "write" /\ todo # <<>> /\ todo \in Seq(1..StagingTicks)
      /\ stagePc' = "cap" /\ refined' = Written(file)
      /\ UNCHANGED <<recorded, lastTick, candidates, stageJob, todo, archive, flushed,
                     stageCrashes, lost>>
      /\ archive = NoArchive
  BY DEF WriteLesson, StagingTyped, StepsHold, stagingRest
<1>3. file \in NamedAfter /\ Tells(file, lost)
  BY <1>2, HeadAndTail, TickFile DEF NamedAfter
<1>4. \E f \in refined' : f.name = <<Head(todo)>>
  <2>1. file \in refined'
    BY <1>2 DEF Written
  <2>2. file.name = <<Head(todo)>>
    OBVIOUS
  <2>. HIDE DEF file
  <2>. QED
    BY <2>1, <2>2
<1>. HIDE DEF file
<1>5. /\ FilesOf(refined') /\ IsFiniteSet(refined')
      /\ \A f \in refined' : Tells(f, lost)
      /\ Cardinality(refined') <= Cardinality(refined) + 1
      /\ \A t \in 1..StagingTicks : InFile(t, refined) \/ t \in file.lessons =>
           InFile(t, refined') \/ t \in lost
  BY <1>2, <1>3, WrittenKeeps DEF NamesTell, CountsHold
<1>6. StagingTyped' /\ NamesTell'
  BY <1>2, <1>5 DEF StagingTyped, NamesTell
<1>7. CountsHold'
  <2>1. Cardinality(refined) \in Nat /\ Cardinality(refined') \in Nat
    BY <1>5, FS_CardinalityType DEF CountsHold
  <2>. QED
    BY <1>1, <1>2, <1>5, <2>1 DEF CountsHold
<1>8. StepsHold'
  BY <1>2, <1>4 DEF StepsHold
<1>9. BatchCarries'
  BY <1>2, <1>5, RecordedTicks DEF BatchCarries, Carried
<1>. QED
  BY <1>6, <1>7, <1>8, <1>9

LEMMA CapStagedKeeps ==
  ASSUME StagingInv, CapStaged \/ Polish
  PROVE  StagingInv'
<1>. USE DEF StagingInv
<1>2. PICK next \in {"stage", "polish"} :
        /\ EnforceCap(next)
        /\ next = "stage" => todo' = Tail(todo) /\ todo # <<>>
                             /\ \E f \in refined : f.name = <<Head(todo)>>
        /\ next = "polish" => todo' = todo /\ todo = <<>> /\ stageJob = "batch"
  BY DEF CapStaged, Polish, StepsHold
<1>3. /\ UNCHANGED <<recorded, lastTick, candidates, stageJob, flushed, stageCrashes>>
      /\ archive = NoArchive /\ todo \in Seq(1..StagingTicks) /\ stagePc # "idle"
  BY DEF CapStaged, Polish, StepsHold, StagingTyped, stagingRest
<1>4. /\ todo' \in Seq(1..StagingTicks)
      /\ \A t \in ToSet(todo) : t \in ToSet(todo') \/ InFile(t, refined) \/ t \in lost
  <2>1. CASE next = "stage"
    <3>1. /\ Head(todo) \in 1..StagingTicks /\ Tail(todo) \in Seq(1..StagingTicks)
          /\ ToSet(todo) \subseteq {Head(todo)} \cup ToSet(Tail(todo))
      BY <1>2, <1>3, <2>1, HeadAndTail
    <3>2. InFile(Head(todo), refined) \/ Head(todo) \in lost
      BY <1>2, <2>1, <3>1, NamedTick DEF NamesTell
    <3>. QED
      BY <1>2, <2>1, <3>1, <3>2
  <2>. QED
    BY <1>2, <1>3, <2>1
<1>5. CapGoes(next)
  BY <1>2, CapKeeps DEF NamesTell, CountsHold, StagingTyped
<1>6. /\ archive'.file \in NamedAfter /\ archive'.next \in {"idle", next}
      /\ stagePc' = "archive" => archive'.next = next
      /\ stagePc' # "archive" => stagePc' = next /\ archive' = NoArchive
      /\ lost \subseteq lost' /\ lost' \subseteq 1..StagingTicks
      /\ NamesTell' /\ CountsHold'
      /\ \A t : InFile(t, refined) =>
           InFile(t, refined') \/ t \in archive'.file.lessons \/ t \in lost'
  BY <1>3, <1>5, CapLeaves
<1>7. StagingTyped'
  BY <1>2, <1>3, <1>4, <1>6 DEF StagingTyped
<1>8. StepsHold'
  BY <1>2, <1>3, <1>6 DEF StepsHold
<1>9. BatchCarries'
  BY <1>3, <1>4, <1>6, StagingNothing DEF BatchCarries, Carried
<1>. QED
  BY <1>6, <1>7, <1>8, <1>9

LEMMA WriteArchiveKeeps ==
  ASSUME StagingInv, WriteArchive
  PROVE  StagingInv'
<1>. USE DEF StagingInv
<1>1. Cardinality(refined) <= StagingCap
  BY DEF CountsHold, WriteArchive
<1>2. archive.file \in NamedAfter /\ Tells(archive.file, lost)
  BY DEF StagingTyped, NamesTell
<1>3. /\ FilesOf(refined') /\ IsFiniteSet(refined')
      /\ \A f \in refined' : Tells(f, lost)
      /\ Cardinality(refined') <= Cardinality(refined) + 1
      /\ \A t \in 1..StagingTicks : InFile(t, refined) \/ t \in archive.file.lessons =>
           InFile(t, refined') \/ t \in lost
  BY <1>2, WrittenKeeps DEF WriteArchive, NamesTell, CountsHold
<1>4. /\ stagePc = "archive" /\ archive' = NoArchive /\ stagePc' = archive.next
      /\ archive.next \in {"write", "stage", "polish"}
      /\ UNCHANGED <<recorded, lastTick, candidates, stageJob, todo, flushed,
                     stageCrashes, lost>>
  BY DEF WriteArchive, StagingTyped, StepsHold, stagingRest
<1>5. StagingTyped' /\ NamesTell'
  BY <1>3, <1>4, StagingNothing DEF StagingTyped, NamesTell
<1>6. CountsHold'
  <2>1. Cardinality(refined) \in Nat /\ Cardinality(refined') \in Nat
    BY <1>3, FS_CardinalityType DEF CountsHold
  <2>. QED
    BY <1>1, <1>3, <1>4, <2>1 DEF CountsHold
<1>7. StepsHold'
  BY <1>4 DEF StepsHold
<1>8. BatchCarries'
  BY <1>3, <1>4, RecordedTicks DEF BatchCarries, Carried
<1>. QED
  BY <1>5, <1>6, <1>7, <1>8

LEMMA FlushKeeps ==
  ASSUME StagingInv, Flush
  PROVE  StagingInv'
<1>. USE DEF StagingInv
<1>. DEFINE oldest == Oldest(refined)
<1>1. FilesOf(refined) /\ IsFiniteSet(refined)
  BY DEF NamesTell, CountsHold
<1>2. /\ stagePc = "flush"
      /\ UNCHANGED <<recorded, lastTick, stageJob, todo, archive, stageCrashes, lost>>
      /\ todo = <<>> /\ archive = NoArchive /\ stageJob = "batch"
  BY DEF Flush, StepsHold
<1>3. CASE refined = {}
  <2>1. stagePc' = "done" /\ UNCHANGED <<refined, candidates, flushed>>
    BY <1>3 DEF Flush
  <2>2. StagingTyped' /\ NamesTell' /\ CountsHold' /\ StepsHold'
    BY <1>2, <1>3, <2>1 DEF StagingTyped, NamesTell, CountsHold, StepsHold
  <2>3. BatchCarries'
    BY <1>2, <2>1 DEF BatchCarries, Carried
  <2>. QED
    BY <2>2, <2>3
<1>4. CASE refined # {} /\ oldest.lessons = {}
  <2>1. refined' = refined \ {oldest} /\ UNCHANGED <<stagePc, candidates, flushed>>
    BY <1>4 DEF Flush
  <2>. HIDE DEF oldest
  <2>2. StagingTyped' /\ StepsHold'
    BY <1>2, <2>1 DEF StagingTyped, StepsHold
  <2>3. NamesTell'
    <3>1. FilesOf(refined')
      BY <1>1, <2>1, SomeFiles
    <3>. QED
      BY <1>2, <2>1, <3>1 DEF NamesTell
  <2>4. CountsHold'
    <3>1. /\ IsFiniteSet(refined') /\ Cardinality(refined') <= Cardinality(refined)
          /\ Cardinality(refined) \in Nat /\ Cardinality(refined') \in Nat
      BY <1>1, <2>1, FS_Subset, FS_CardinalityType
    <3>. QED
      BY <1>2, <2>1, <3>1 DEF CountsHold
  <2>5. BatchCarries'
    BY <1>2, <1>4, <2>1 DEF BatchCarries, Carried, InFile
  <2>. QED
    BY <2>2, <2>3, <2>4, <2>5
<1>5. CASE refined # {} /\ oldest.lessons # {}
  <2>1. /\ candidates' = candidates \cup oldest.lessons
        /\ flushed' = oldest /\ stagePc' = "delete" /\ UNCHANGED refined
    BY <1>5 DEF Flush
  <2>2. oldest \in NamedAfter
    BY <1>1, <1>5, OldestIsOne DEF FilesOf
  <2>3. oldest.lessons \subseteq 1..StagingTicks
    BY <2>2 DEF NamedAfter
  <2>4. StagingTyped'
    BY <1>2, <2>1, <2>2, <2>3 DEF StagingTyped
  <2>5. NamesTell' /\ CountsHold' /\ StepsHold'
    BY <1>2, <2>1 DEF NamesTell, CountsHold, StepsHold
  <2>6. BatchCarries'
    BY <1>2, <2>1 DEF BatchCarries, Carried
  <2>. QED
    BY <2>4, <2>5, <2>6
<1>. QED
  BY <1>3, <1>4, <1>5

LEMMA DeleteKeeps ==
  ASSUME StagingInv, DeleteFlushed
  PROVE  StagingInv'
<1>. USE DEF StagingInv
<1>1. /\ stagePc = "delete" /\ stagePc' = "flush" /\ flushed' = NoFile
      /\ refined' = refined \ {flushed} /\ flushed.lessons \subseteq candidates
      /\ UNCHANGED <<recorded, lastTick, candidates, stageJob, todo, archive,
                     stageCrashes, lost>>
      /\ todo = <<>> /\ archive = NoArchive /\ stageJob = "batch"
  BY DEF DeleteFlushed, StepsHold
<1>2. StagingTyped'
  BY <1>1, StagingNothing DEF StagingTyped
<1>3. NamesTell'
  <2>1. FilesOf(refined')
    BY <1>1, SomeFiles DEF NamesTell
  <2>. QED
    BY <1>1, <2>1 DEF NamesTell
<1>4. CountsHold'
  <2>1. /\ IsFiniteSet(refined') /\ Cardinality(refined') <= Cardinality(refined)
        /\ Cardinality(refined) \in Nat /\ Cardinality(refined') \in Nat
    BY <1>1, FS_Subset, FS_CardinalityType DEF CountsHold
  <2>. QED
    BY <1>1, <2>1 DEF CountsHold
<1>5. StepsHold'
  BY <1>1 DEF StepsHold
<1>6. BatchCarries'
  BY <1>1 DEF BatchCarries, Carried, InFile
<1>. QED
  BY <1>2, <1>3, <1>4, <1>5, <1>6

LEMMA PolishedKeeps ==
  ASSUME StagingInv, Polished
  PROVE  StagingInv'
<1>. USE DEF StagingInv, stagingRest
<1>1. StagingTyped' /\ NamesTell' /\ CountsHold'
  BY DEF Polished, StagingTyped, NamesTell, CountsHold
<1>2. StepsHold' /\ BatchCarries'
  BY DEF Polished, StepsHold, BatchCarries, Carried
<1>. QED
  BY <1>1, <1>2

LEMMA EndBatchKeeps ==
  ASSUME StagingInv, EndBatch
  PROVE  StagingInv'
<1>. USE DEF StagingInv
<1>1. /\ UNCHANGED <<recorded, lastTick, candidates, refined, todo, archive, flushed,
                     stageCrashes>>
      /\ stageJob' = "none" /\ stagePc' = "idle" /\ lost' = {}
      /\ refined = {} /\ archive = NoArchive
  BY DEF EndBatch, StepsHold, stagingRest
<1>2. StagingTyped'
  BY <1>1 DEF StagingTyped
<1>3. NamesTell'
  BY <1>1, StagingNothing DEF NamesTell
<1>4. CountsHold' /\ StepsHold' /\ BatchCarries'
  BY <1>1 DEF CountsHold, StepsHold, BatchCarries
<1>. QED
  BY <1>2, <1>3, <1>4

\* A crash with a file open for writing leaves it empty, and its ticks lost.
LEMMA CrashKeeps ==
  ASSUME StagingInv, CrashStaging
  PROVE  StagingInv'
<1>. USE DEF StagingInv
<1>1. /\ UNCHANGED <<recorded, lastTick, candidates>>
      /\ stageJob' = "none" /\ stagePc' = "idle" /\ archive' = NoArchive
      /\ todo' = <<>> /\ flushed' = NoFile
      /\ stageCrashes' \in 0..StagingCrashes
  BY DEF CrashStaging, StagingTyped
<1>2. StepsHold' /\ BatchCarries'
  BY <1>1 DEF StepsHold, BatchCarries
<1>3. CASE UNCHANGED <<refined, lost>>
  <2>1. StagingTyped'
    BY <1>1, <1>3, StagingNothing DEF StagingTyped
  <2>2. NamesTell' /\ CountsHold'
    BY <1>1, <1>3, StagingNothing DEF NamesTell, CountsHold
  <2>. QED
    BY <1>2, <2>1, <2>2
<1>4. CASE ~UNCHANGED <<refined, lost>>
  <2>1. PICK name \in Open :
          /\ refined' = Written([name |-> name, lessons |-> {}])
          /\ lost' = lost \cup (ToSet(name) \ {Archive})
    BY <1>4 DEF CrashStaging
  <2>2. name \in Names /\ Cardinality(refined) <= StagingCap + 1
    <3>1. CASE stagePc = "write"
      <4>1. Head(todo) \in 1..StagingTicks
        BY <3>1, HeadAndTail DEF StepsHold, StagingTyped
      <4>. QED
        BY <2>1, <3>1, <4>1, TickFile DEF Open, CountsHold
    <3>2. CASE stagePc = "archive"
      <4>1. name \in Names
        BY <2>1, <3>2 DEF Open, StagingTyped, NamedAfter
      <4>2. Cardinality(refined) \in Nat /\ StagingCap \in Nat
        BY FS_CardinalityType DEF CountsHold
      <4>. QED
        BY <3>2, <4>1, <4>2 DEF CountsHold
    <3>3. CASE stagePc = "polish"
      BY <2>1, <3>3 DEF Open, CountsHold, NamesTell, FilesOf, NamedAfter
    <3>. QED
      BY <2>1, <3>1, <3>2, <3>3 DEF Open
  <2>. DEFINE file == [name |-> name, lessons |-> {}]
  <2>3. file \in NamedAfter /\ Tells(file, lost')
    BY <2>1, <2>2 DEF NamedAfter, Tells
  <2>4. \A f \in refined : Tells(f, lost')
    BY <2>1, TellsMore DEF NamesTell
  <2>5. refined' = Written(file)
    BY <2>1
  <2>. HIDE DEF file
  <2>6. /\ FilesOf(refined') /\ IsFiniteSet(refined')
        /\ \A f \in refined' : Tells(f, lost')
        /\ Cardinality(refined') <= Cardinality(refined) + 1
    BY <2>3, <2>4, <2>5, WrittenKeeps DEF NamesTell, CountsHold
  <2>7. lost' \subseteq 1..StagingTicks
    BY <2>1, <2>2 DEF StagingTyped, Names
  <2>8. StagingTyped'
    BY <1>1, <2>7, StagingNothing DEF StagingTyped
  <2>9. NamesTell'
    BY <1>1, <2>6, StagingNothing DEF NamesTell
  <2>10. CountsHold'
    <3>1. Cardinality(refined) \in Nat /\ Cardinality(refined') \in Nat
      BY <2>6, FS_CardinalityType DEF CountsHold
    <3>. QED
      BY <1>1, <2>2, <2>6, <3>1 DEF CountsHold
  <2>. QED
    BY <1>2, <2>8, <2>9, <2>10
<1>. QED
  BY <1>3, <1>4

LEMMA StagingStutters ==
  ASSUME StagingInv, UNCHANGED stagingVars
  PROVE  StagingInv'
BY DEF stagingVars, stagingRest, StagingInv, StagingTyped, NamesTell, CountsHold,
       StepsHold, BatchCarries, Carried

\* The strengthened invariant holds in every reachable state.
LEMMA StagingInvariant == StagingSpec => []StagingInv
<1>1. ASSUME StagingInv, [StagingNext]_stagingVars PROVE StagingInv'
  BY <1>1, StagingStarts, StageLessonKeeps, WriteLessonKeeps, CapStagedKeeps,
     WriteArchiveKeeps, PolishedKeeps, FlushKeeps, DeleteKeeps, EndBatchKeeps,
     CrashKeeps, StagingStutters
     DEF StagingNext
<1>. QED
  BY <1>1, StagingInitial, PTL DEF StagingSpec

\* run_end_refiner_batch: whatever the archives replaced and whatever a crash
\* between two file operations took, a batch that comes to its end has made
\* candidates of the lessons of all recorded ticks, but for those of a file
\* that a crash left empty and those an archive had no room for, since the
\* last batch that ended.
THEOREM BatchKeepsLessons == StagingSpec => []LessonsKept
<1>1. ASSUME StagingInv PROVE LessonsKept
  <2>. SUFFICES ASSUME stagePc = "done", NEW t \in ToSet(recorded), t \notin lost
                PROVE  t \in candidates
    BY DEF LessonsKept
  <2>1. /\ Carried(t) /\ todo = <<>> /\ refined = {} /\ archive = NoArchive
    BY <1>1 DEF StagingInv, StepsHold, BatchCarries
  <2>2. ToSet(<<>>) = {}
    BY DEF ToSet
  <2>. QED
    BY <2>1, <2>2, StagingNothing DEF Carried, InFile
<1>. QED
  BY <1>1, StagingInvariant, PTL

\* enforce_staging_cap: the directory of staged lessons never holds more than
\* two files beyond the cap, whatever its order and whichever step dies.
THEOREM StagedFilesBounded == StagingSpec => []StagingBounded
<1>1. StagingInv => StagingBounded
  BY DEF StagingInv, CountsHold, StagingBounded
<1>. QED
  BY <1>1, StagingInvariant, PTL

\* The files, the lists and the counters of the staging keep their types.
LEMMA StagingTyping == StagingSpec => []StagingTypeOK
<1>1. NamedAfter \subseteq Files
  BY DEF NamedAfter, Names, Files, Ticks
<1>2. StagingInv => StagingTypeOK
  BY <1>1 DEF StagingInv, StagingTyped, NamesTell, FilesOf, StagingTypeOK, Ticks
<1>. QED
  BY <1>2, StagingInvariant, PTL
HIDE StagingAssumption

------------------------------------------------------------------------------
(***************************************************************************)
(* Proofs about Lifecycle for any number of goals, records, batches and    *)
(* crashes.                                                                *)
(*                                                                         *)
(* Whatever copies of a record there are, in the directories, in the hands *)
(* of a batch or in what it is about to write, none counts a goal or a     *)
(* verification that the history of judgements does not, those left aside  *)
(* that are judged but not counted yet.  And a record that is not torn is  *)
(* in one directory, or in the two of the only move of it under way.       *)
(***************************************************************************)

USE LifecycleAssumption

Good == [ver : Nat, goals : SUBSET Goals, sure : BOOLEAN]
RecordFile == Good \cup {Absent, Broken}
OpType == [rec : Records, from : Stage, to : Stage, data : Good, moves : BOOLEAN,
           next : {"open", "write", "delete"}]

MemoryTyped ==
  /\ files \in [Records -> [Stage -> RecordFile]]
  /\ origin \in [Records -> [goal : Goals, length : Nat] \cup {NoOrigin}]
  /\ length \in [Goals -> Nat]
  /\ step \in [Goals -> Steps]
  /\ list \in [Goals -> Seq(Records)]
  /\ hand \in [Goals -> [dir : Stage, data : RecordFile]]
  /\ op \in [Goals -> OpType \cup {NoOp}]
  /\ kept \in [Records -> Seq(Goals)]
  /\ rejected \subseteq Records /\ torn \subseteq Records

\* The batches that judged the record worth keeping and have not counted it.
Pending(r) ==
  {g \in Goals : step[g] \in {"mark", "bump"} /\ list[g] # <<>> /\ Head(list[g]) = r}

\* The judgements that may have been counted.
Judged(r) == Len(kept[r]) - Cardinality(Pending(r))

Honest(data, r) == data.ver <= Judged(r) /\ data.goals \subseteq ToSet(kept[r])

Earned(r) ==
  Len(kept[r]) >= MinVerifications /\ \E g \in ToSet(kept[r]) : g # origin[r].goal

\* Steps in which the batch is at the head of its listing.
AtHead == {"judge", "reject", "mark", "bump", "verify", "toVerified", "approve", "toActive"}

\* What a batch has read and means to do.
HandHolds(g) ==
  /\ step[g] \in AtHead => list[g] # <<>>
  /\ \A i \in 1..Len(list[g]) : origin[list[g][i]] # NoOrigin
  /\ step[g] \in {"judge", "toVerified", "toActive"} =>
       hand[g].data \in Good /\ Honest(hand[g].data, Head(list[g]))
  /\ step[g] = "mark" => g \in ToSet(kept[Head(list[g])])
  /\ step[g] \in {"approve", "toActive"} => Earned(Head(list[g]))
  /\ step[g] \in {"toVerified", "toActive"} /\ Head(list[g]) \notin torn =>
       hand[g].dir # "deprecated"

OpHolds(g) ==
  op[g] # NoOp =>
    /\ op[g] \in OpType
    /\ origin[op[g].rec] # NoOrigin
    /\ Honest(op[g].data, op[g].rec)
    /\ op[g].to = "active" => Earned(op[g].rec)
    /\ op[g].next = "delete" => op[g].moves

FilesHold ==
  /\ \A r \in Records : Judged(r) >= 0
  /\ \A r \in Records, s \in Stage :
       At(r, s) => origin[r] # NoOrigin /\ Honest(files[r][s], r)
  /\ \A r \in Records : At(r, "active") => Earned(r)
  /\ \A r \in rejected : origin[r] # NoOrigin

\* Where a record is that is not torn.
Located ==
  \A r \in Records \ torn :
    /\ \A g, h \in Goals : Moving(g, r) /\ Moving(h, r) => g = h
    /\ \A g \in Goals : Moving(g, r) =>
         /\ op[g].from # "deprecated" /\ At(r, op[g].from)
         /\ \A s \in Stage :
              At(r, s) => s = op[g].from \/ (s = op[g].to /\ op[g].next # "open")
         /\ r \in rejected => op[g].to = "deprecated"
    /\ (\A g \in Goals : ~Moving(g, r)) =>
         /\ \A s, t \in Stage : At(r, s) /\ At(r, t) => s = t
         /\ \A s \in Stage : r \in rejected /\ At(r, s) => s = "deprecated"

MemoryInv ==
  MemoryTyped /\ (\A g \in Goals : HandHolds(g) /\ OpHolds(g)) /\ FilesHold /\ Located

-----------------------------------------------------------------------------
LEMMA StageNames ==
  /\ Stage = {"candidate", "quarantined", "verified", "active", "deprecated"}
  /\ DOMAIN Stages = 1..5
  /\ \A s \in Stage : \E i \in 1..5 : Stages[i] = s
<1>1. DOMAIN Stages = 1..5
  BY DEF Stages
<1>2. /\ Stages[1] = "candidate" /\ Stages[2] = "quarantined" /\ Stages[3] = "verified"
      /\ Stages[4] = "active" /\ Stages[5] = "deprecated"
  BY DEF Stages
<1>3. 1..5 = {1, 2, 3, 4, 5}
  OBVIOUS
<1>. QED
  BY <1>1, <1>2, <1>3 DEF Stage, ToSet

LEMMA DataKinds ==
  /\ Absent \in RecordFile /\ Broken \in RecordFile /\ Absent # Broken
  /\ Absent \notin Good /\ Broken \notin Good
  /\ NoOp \notin OpType /\ NoOp.rec \notin Records /\ ~NoOp.moves
  /\ NoHand \in [dir : Stage, data : RecordFile]
<1>1. Absent.ver = -1 /\ Broken.ver = -2
  BY DEF Absent, Broken
<1>2. Absent \notin Good /\ Broken \notin Good /\ Absent # Broken
  BY <1>1 DEF Good
<1>3. NoOp.rec = 0 /\ NoOp.moves = FALSE
  BY DEF NoOp
<1>4. 0 \notin Records
  BY DEF Records
<1>5. NoOp \notin OpType
  BY <1>3, <1>4 DEF OpType
<1>. QED
  BY <1>2, <1>3, <1>4, <1>5, StageNames DEF RecordFile, NoHand

LEMMA ReadableGood ==
  ASSUME MemoryTyped, NEW r \in Records, NEW s \in Stage, Readable(r, s)
  PROVE  files[r][s] \in Good /\ At(r, s)
BY DEF MemoryTyped, Readable, At, RecordFile

\* The first of some directories is one of them.
LEMMA FirstHeld ==
  ASSUME NEW held \in SUBSET Stage, held # {}
  PROVE  First(held) \in held
<1> DEFINE at == {i \in DOMAIN Stages : Stages[i] \in held}
           R == {ss \in Nat \X Nat : ss[1] < ss[2]}
<1>1. at # {} /\ at \subseteq Nat
  <2>1. PICK s \in held : s \in Stage
    OBVIOUS
  <2>2. PICK i \in 1..5 : Stages[i] = s
    BY <2>1, StageNames
  <2>3. i \in at
    BY <2>1, <2>2, StageNames
  <2>4. 1..5 \subseteq Nat
    OBVIOUS
  <2>. QED
    BY <2>3, <2>4, StageNames
<1>2. IsWellFoundedOn(R, Nat)
  BY NatLessThanWellFounded DEF OpToRel
<1>3. PICK x \in at : \A y \in at : ~ (<<y, x>> \in R)
  BY <1>1, <1>2, WFMin
<1>4. ASSUME NEW y \in at PROVE x <= y
  <2>1. x \in Nat /\ y \in Nat
    BY <1>1
  <2>2. ~(y < x)
    BY <1>3, <2>1
  <2>. QED
    BY <2>1, <2>2
<1>5. (CHOOSE i \in at : \A j \in at : i <= j) \in at
  BY <1>3, <1>4
<1>. QED
  BY <1>5 DEF First

\* A listing names records that are there.
LEMMA GlobLists ==
  ASSUME NEW s
  PROVE  Glob(s) \in Seq(Records) /\ \A i \in 1..Len(Glob(s)) : At(Glob(s)[i], s)
<1> DEFINE S == {r \in Records : At(r, s)}
           n == Cardinality(S)
<1>1. IsFiniteSet(Records) /\ S \in SUBSET Records
  BY FS_Interval DEF Records
<1>2. IsFiniteSet(S)
  BY <1>1, FS_Subset
<1>3. n \in Nat /\ ExistsBijection(1..n, S)
  BY <1>2, FS_CardinalityType
<1>4. PICK f \in [1..n -> S] : f \in Bijection(1..n, S)
  BY <1>3 DEF ExistsBijection, Bijection, Injection
<1>5. IsInjective(f)
  BY <1>4 DEF Bijection, Injection, IsInjective
<1>6. Glob(s) \in [1..n -> S]
  BY <1>5 DEF SetToSeq, Glob
<1>7. Glob(s) \in Seq(S) /\ Len(Glob(s)) = n
  <2> HIDE DEF n, S
  <2>1. \A m \in Nat : \A q \in [1..m -> S] : q \in Seq(S) /\ Len(q) = m
    OBVIOUS
  <2>. QED
    BY <1>3, <1>6, <2>1
<1>8. \A i \in 1..Len(Glob(s)) : Glob(s)[i] \in S
  BY <1>6, <1>7
<1>9. Glob(s) \in Seq(Records)
  BY <1>1, <1>7
<1>. QED
  BY <1>8, <1>9

\* A file replaced.
LEMMA FileWritten ==
  ASSUME NEW F \in [Records -> [Stage -> RecordFile]], NEW r \in Records, NEW s \in Stage,
         NEW data \in RecordFile
  PROVE  /\ [F EXCEPT ![r][s] = data] \in [Records -> [Stage -> RecordFile]]
         /\ \A q \in Records, t \in Stage :
              [F EXCEPT ![r][s] = data][q][t] = IF q = r /\ t = s THEN data ELSE F[q][t]
  OBVIOUS

LEMMA MoreKept ==
  ASSUME NEW s \in Seq(Goals), NEW g \in Goals
  PROVE  /\ Append(s, g) \in Seq(Goals) /\ Len(Append(s, g)) = Len(s) + 1
         /\ ToSet(Append(s, g)) = ToSet(s) \cup {g}
<1>1. /\ Append(s, g) \in Seq(Goals) /\ Len(Append(s, g)) = Len(s) + 1
      /\ Len(s) \in Nat /\ DOMAIN s = 1..Len(s)
      /\ DOMAIN Append(s, g) = 1..(Len(s) + 1)
      /\ Append(s, g)[Len(s) + 1] = g
      /\ \A i \in 1..Len(s) : Append(s, g)[i] = s[i]
  OBVIOUS
<1>2. \A i \in 1..(Len(s) + 1) : i \in 1..Len(s) \/ i = Len(s) + 1
  BY <1>1
<1>3. 1..Len(s) \subseteq 1..(Len(s) + 1) /\ Len(s) + 1 \in 1..(Len(s) + 1)
  BY <1>1
<1>. QED
  BY <1>1, <1>2, <1>3 DEF ToSet

-----------------------------------------------------------------------------
(* The judgements counted *)

LEMMA PendingCounts ==
  ASSUME MemoryTyped, NEW r \in Records
  PROVE  /\ IsFiniteSet(Pending(r)) /\ Cardinality(Pending(r)) \in Nat
         /\ Judged(r) \in Int /\ Judged(r) <= Len(kept[r]) /\ Len(kept[r]) \in Nat
<1>1. IsFiniteSet(Pending(r)) /\ Cardinality(Pending(r)) \in Nat
  <2>1. Pending(r) \subseteq Goals /\ IsFiniteSet(Goals)
    BY DEF Pending
  <2>. QED
    BY <2>1, FS_Subset, FS_CardinalityType
<1>2. kept[r] \in Seq(Goals)
  BY DEF MemoryTyped
<1>3. Len(kept[r]) \in Nat
  BY <1>2
<1>. QED
  BY <1>1, <1>3 DEF Judged

LEMMA JudgedSame ==
  ASSUME NEW r \in Records, UNCHANGED <<step, list, kept>>
  PROVE  Judged(r)' = Judged(r)
BY DEF Judged, Pending

\* A batch that is not, or no longer, about to count has counted.
LEMMA JudgedLeaves ==
  ASSUME MemoryTyped, NEW g \in Goals, NEW r \in Records,
         \A h \in Goals \ {g} : step'[h] = step[h] /\ list'[h] = list[h],
         step'[g] \notin {"mark", "bump"}, UNCHANGED kept
  PROVE  /\ Judged(r)' \in Int /\ Judged(r)' >= Judged(r)
         /\ g \in Pending(r) => Judged(r)' >= Judged(r) + 1
<1>1. Pending(r)' = Pending(r) \ {g}
  BY DEF Pending
<1>2. /\ IsFiniteSet(Pending(r)) /\ Cardinality(Pending(r)) \in Nat
      /\ Len(kept[r]) \in Nat
  BY PendingCounts
<1>3. Cardinality(Pending(r)')
        = IF g \in Pending(r) THEN Cardinality(Pending(r)) - 1 ELSE Cardinality(Pending(r))
  BY <1>1, <1>2, FS_RemoveElement
<1>4. Judged(r)' = Len(kept[r]) - Cardinality(Pending(r)')
  BY DEF Judged
<1>. QED
  BY <1>2, <1>3, <1>4 DEF Judged

LEMMA JudgedMarks ==
  ASSUME NEW g \in Goals, NEW r \in Records, step \in [Goals -> Steps],
         step[g] = "mark", step' = [step EXCEPT ![g] = "bump"], UNCHANGED <<list, kept>>
  PROVE  Judged(r)' = Judged(r)
<1>1. Pending(r)' = Pending(r)
  BY DEF Pending
<1>. QED
  BY <1>1 DEF Judged

\* A judgement more, which is not counted yet.
LEMMA JudgedMore ==
  ASSUME MemoryTyped, NEW g \in Goals, NEW r \in Records, NEW q \in Records,
         step[g] = "judge", step' = [step EXCEPT ![g] = "mark"], UNCHANGED list,
         list[g] # <<>>, q = Head(list[g]), kept' = [kept EXCEPT ![q] = Append(@, g)]
  PROVE  /\ Judged(r)' \in Int /\ Judged(r)' = Judged(r)
         /\ ToSet(kept[r]) \subseteq ToSet(kept'[r])
         /\ Len(kept'[r]) >= Len(kept[r])
         /\ g \in ToSet(kept'[q])
<1>1. step'[g] = "mark" /\ \A h \in Goals \ {g} : step'[h] = step[h]
  BY DEF MemoryTyped
<1>2. Pending(r)' = IF q = r THEN Pending(r) \cup {g} ELSE Pending(r)
  BY <1>1 DEF Pending
<1>3. g \notin Pending(r)
  BY DEF Pending
<1>4. /\ IsFiniteSet(Pending(r)) /\ Cardinality(Pending(r)) \in Nat
      /\ Len(kept[r]) \in Nat
  BY PendingCounts
<1>5. Cardinality(Pending(r) \cup {g}) = Cardinality(Pending(r)) + 1
  BY <1>3, <1>4, FS_AddElement
<1>6. kept[q] \in Seq(Goals) /\ kept'[q] = Append(kept[q], g) /\ (r # q => kept'[r] = kept[r])
  BY DEF MemoryTyped
<1>7. Len(kept'[q]) = Len(kept[q]) + 1 /\ ToSet(kept'[q]) = ToSet(kept[q]) \cup {g}
  BY <1>6, MoreKept
<1>8. Judged(r)' = Len(kept'[r]) - Cardinality(Pending(r)')
  BY DEF Judged
<1>9. Judged(r)' \in Int /\ Judged(r)' = Judged(r)
  <2>1. CASE q = r
    <3>1. /\ Cardinality(Pending(r)') = Cardinality(Pending(r)) + 1
          /\ Len(kept'[r]) = Len(kept[r]) + 1
      BY <1>2, <1>5, <1>7, <2>1
    <3>. QED
      BY <1>4, <1>8, <3>1 DEF Judged
  <2>2. CASE q # r
    <3>1. /\ Cardinality(Pending(r)') = Cardinality(Pending(r))
          /\ Len(kept'[r]) = Len(kept[r])
      BY <1>2, <1>6, <2>2
    <3>. QED
      BY <1>4, <1>8, <3>1 DEF Judged
  <2>. QED
    BY <2>1, <2>2
<1>10. ToSet(kept[r]) \subseteq ToSet(kept'[r]) /\ Len(kept'[r]) >= Len(kept[r])
  BY <1>4, <1>6, <1>7
<1>. QED
  BY <1>7, <1>9, <1>10

-----------------------------------------------------------------------------
(* What a step of one batch leaves to the others *)

\* The history does not shrink.
Keeps ==
  /\ torn \subseteq torn'
  /\ \A r \in Records :
       /\ Judged(r)' \in Int /\ Judged(r)' >= Judged(r)
       /\ ToSet(kept[r]) \subseteq ToSet(kept'[r])
       /\ Len(kept'[r]) \in Nat /\ Len(kept'[r]) >= Len(kept[r])
       /\ origin[r] # NoOrigin => origin'[r] = origin[r]

LEMMA KeepsHonest ==
  ASSUME MemoryTyped, Keeps, NEW r \in Records, NEW data \in RecordFile, Honest(data, r)
  PROVE  Honest(data, r)'
<1>1. data.ver \in Int
  BY DEF RecordFile, Good, Absent, Broken
<1>2. Judged(r) \in Int /\ Judged(r)' \in Int /\ Judged(r)' >= Judged(r)
  BY PendingCounts DEF Keeps
<1>3. data.ver <= Judged(r) /\ data.goals \subseteq ToSet(kept[r])
  BY DEF Honest
<1>4. data.ver <= Judged(r)' /\ data.goals \subseteq ToSet(kept'[r])
  BY <1>1, <1>2, <1>3 DEF Keeps
<1>. QED
  BY <1>4 DEF Honest

LEMMA KeepsEarned ==
  ASSUME MemoryTyped, Keeps, NEW r \in Records, origin[r] # NoOrigin, Earned(r)
  PROVE  Earned(r)'
<1>1. Len(kept[r]) \in Nat /\ Len(kept'[r]) \in Nat /\ Len(kept'[r]) >= Len(kept[r])
  BY PendingCounts DEF Keeps
<1>2. Len(kept[r]) >= 2
  BY DEF Earned, MinVerifications
<1>3. Len(kept'[r]) >= 2
  BY <1>1, <1>2
<1>4. PICK g \in ToSet(kept[r]) : g # origin[r].goal
  BY DEF Earned
<1>5. g \in ToSet(kept'[r]) /\ origin'[r] = origin[r]
  BY DEF Keeps
<1>. QED
  BY <1>3, <1>4, <1>5 DEF Earned, MinVerifications

LEMMA OthersHold ==
  ASSUME MemoryInv, Keeps, NEW h \in Goals,
         step'[h] = step[h], list'[h] = list[h], hand'[h] = hand[h]
  PROVE  HandHolds(h)'
<1>. USE DEF MemoryInv
<1>1. HandHolds(h) /\ list[h] \in Seq(Records)
  BY DEF MemoryTyped
<1>2. \A i \in 1..Len(list[h]) : list[h][i] \in Records
  BY <1>1
<1>3. \A i \in 1..Len(list'[h]) : origin'[list'[h][i]] # NoOrigin
  BY <1>1, <1>2 DEF HandHolds, Keeps
<1>4. list[h] # <<>> => Head(list[h]) \in Records /\ origin[Head(list[h])] # NoOrigin
  <2>. SUFFICES ASSUME list[h] # <<>> PROVE Head(list[h]) \in Records /\ origin[Head(list[h])] # NoOrigin
    OBVIOUS
  <2>1. 1 \in 1..Len(list[h]) /\ Head(list[h]) = list[h][1]
    BY <1>1
  <2>. QED
    BY <1>1, <1>2, <2>1 DEF HandHolds
<1>5. step[h] \in {"judge", "toVerified", "toActive"} =>
        hand[h].data \in Good /\ Honest(hand[h].data, Head(list[h]))'
  BY <1>1, <1>4, KeepsHonest DEF HandHolds, AtHead, RecordFile
<1>6. step[h] \in {"approve", "toActive"} => Earned(Head(list[h]))'
  BY <1>1, <1>4, KeepsEarned DEF HandHolds, AtHead
<1>7. step[h] \in {"toVerified", "toActive"} /\ Head(list[h]) \notin torn' =>
        hand[h].dir # "deprecated"
  BY <1>1 DEF HandHolds, Keeps
<1>8. step[h] = "mark" => h \in ToSet(kept'[Head(list[h])])
  BY <1>1, <1>4 DEF HandHolds, AtHead, Keeps
<1>. QED
  BY <1>1, <1>3, <1>5, <1>6, <1>7, <1>8 DEF HandHolds

LEMMA OpStays ==
  ASSUME MemoryInv, Keeps, NEW h \in Goals, op'[h] = op[h]
  PROVE  OpHolds(h)'
<1>. SUFFICES ASSUME op[h] # NoOp PROVE OpHolds(h)'
  BY DEF OpHolds
<1>1. OpHolds(h) /\ op[h] \in OpType
  BY DEF MemoryInv, OpHolds
<1>2. op[h].rec \in Records /\ op[h].data \in Good
  BY <1>1 DEF OpType
<1>3. origin'[op[h].rec] # NoOrigin
  BY <1>1, <1>2 DEF OpHolds, Keeps
<1>4. Honest(op[h].data, op[h].rec)'
  BY <1>1, <1>2, KeepsHonest DEF OpHolds, MemoryInv, RecordFile
<1>5. op[h].to = "active" => Earned(op[h].rec)'
  BY <1>1, <1>2, KeepsEarned DEF OpHolds, MemoryInv
<1>. QED
  BY <1>1, <1>3, <1>4, <1>5 DEF OpHolds

LEMMA FilesStay ==
  ASSUME MemoryInv, Keeps, UNCHANGED <<files, origin>>,
         \A r \in rejected' \ rejected : r \in Records /\ origin[r] # NoOrigin
  PROVE  FilesHold'
<1>. USE DEF MemoryInv
<1>1. \A r \in Records : Judged(r)' >= 0
  BY PendingCounts DEF FilesHold, Keeps
<1>2. ASSUME NEW r \in Records, NEW s \in Stage, At(r, s)'
      PROVE  origin'[r] # NoOrigin /\ Honest(files[r][s], r)'
  <2>1. At(r, s) /\ files[r][s] \in RecordFile
    BY <1>2 DEF At, MemoryTyped
  <2>. QED
    BY <2>1, KeepsHonest DEF FilesHold
<1>3. ASSUME NEW r \in Records, At(r, "active")' PROVE Earned(r)'
  <2>1. At(r, "active") /\ "active" \in Stage
    BY <1>3, StageNames DEF At
  <2>. QED
    BY <2>1, KeepsEarned DEF FilesHold
<1>4. \A r \in rejected' : origin'[r] # NoOrigin
  BY DEF FilesHold
<1>5. \A r \in Records, s \in Stage :
        (At(r, s) => origin[r] # NoOrigin /\ Honest(files[r][s], r))'
  BY <1>2 DEF Honest
<1>. QED
  BY <1>1, <1>3, <1>4, <1>5 DEF FilesHold

\* Nothing is done to the files, and no move starts.
LEMMA LocatedStays ==
  ASSUME MemoryInv, UNCHANGED <<files, rejected>>, torn \subseteq torn',
         \A h \in Goals, r \in Records \ torn' :
           /\ Moving(h, r)' <=> Moving(h, r)
           /\ Moving(h, r) => op'[h] = op[h]
  PROVE  Located'
<1>. SUFFICES ASSUME NEW r \in Records \ torn'
              PROVE  /\ \A g, h \in Goals : Moving(g, r)' /\ Moving(h, r)' => g = h
                     /\ \A g \in Goals : Moving(g, r)' =>
                          /\ op'[g].from # "deprecated" /\ At(r, op'[g].from)
                          /\ \A s \in Stage :
                               At(r, s) => s = op'[g].from \/ (s = op'[g].to /\ op'[g].next # "open")
                          /\ r \in rejected => op'[g].to = "deprecated"
                     /\ (\A g \in Goals : ~Moving(g, r)') =>
                          /\ \A s, t \in Stage : At(r, s) /\ At(r, t) => s = t
                          /\ \A s \in Stage : r \in rejected /\ At(r, s) => s = "deprecated"
  BY DEF Located, At
<1>1. r \in Records \ torn
  OBVIOUS
<1>2. \A h \in Goals : (Moving(h, r)' <=> Moving(h, r)) /\ (Moving(h, r) => op'[h] = op[h])
  OBVIOUS
<1>3. /\ \A g, h \in Goals : Moving(g, r) /\ Moving(h, r) => g = h
      /\ \A g \in Goals : Moving(g, r) =>
           /\ op[g].from # "deprecated" /\ At(r, op[g].from)
           /\ \A s \in Stage :
                At(r, s) => s = op[g].from \/ (s = op[g].to /\ op[g].next # "open")
           /\ r \in rejected => op[g].to = "deprecated"
      /\ (\A g \in Goals : ~Moving(g, r)) =>
           /\ \A s, t \in Stage : At(r, s) /\ At(r, t) => s = t
           /\ \A s \in Stage : r \in rejected /\ At(r, s) => s = "deprecated"
  BY <1>1 DEF MemoryInv, Located
<1>. HIDE DEF Moving, At
<1>. QED
  BY <1>2, <1>3

-----------------------------------------------------------------------------
(* The steps of a batch *)

\* Steps in which the batch has nothing in its hands.
Resting == {"idle", "quarantine", "review", "promote", "activate", "flush"}

Rests(g, next) == GoTo(g, next) \/ (list[g] # <<>> /\ Advance(g, next))

LEMMA AtHeadOf ==
  ASSUME MemoryInv, NEW g \in Goals, list[g] # <<>>
  PROVE  Head(list[g]) \in Records /\ origin[Head(list[g])] # NoOrigin
<1>1. list[g] \in Seq(Records) /\ HandHolds(g)
  BY DEF MemoryInv, MemoryTyped
<1>2. 1 \in 1..Len(list[g]) /\ Head(list[g]) = list[g][1] /\ list[g][1] \in Records
  BY <1>1
<1>. QED
  BY <1>1, <1>2 DEF HandHolds

LEMMA RestLists ==
  ASSUME MemoryInv, NEW g \in Goals, NEW next \in Resting, Rests(g, next)
  PROVE  /\ step' \in [Goals -> Steps] /\ list' \in [Goals -> Seq(Records)]
         /\ step'[g] = next
         /\ \A h \in Goals \ {g} : step'[h] = step[h] /\ list'[h] = list[h]
         /\ \A i \in 1..Len(list'[g]) : origin[list'[g][i]] # NoOrigin
<1>. DEFINE new == CASE next = "quarantine" -> Glob("candidate")
                     [] next \in {"review", "promote"} -> Glob("quarantined")
                     [] next = "activate" -> Glob("verified")
                     [] OTHER -> <<>>
<1>. USE DEF MemoryInv, MemoryTyped
<1>1. next \in Steps
  BY DEF Resting, Steps
<1>2. CASE GoTo(g, next)
  <2>1. new \in Seq(Records) /\ \A i \in 1..Len(new) : \E s \in Stage : At(new[i], s)
    <3>1. CASE next = "quarantine"
      BY <3>1, GlobLists, StageNames
    <3>2. CASE next \in {"review", "promote"}
      BY <3>2, GlobLists, StageNames
    <3>3. CASE next = "activate"
      BY <3>3, GlobLists, StageNames
    <3>4. CASE next \notin {"quarantine", "review", "promote", "activate"}
      BY <3>4
    <3>. QED
      BY <3>1, <3>2, <3>3, <3>4
  <2>2. list' = [list EXCEPT ![g] = new] /\ step' = [step EXCEPT ![g] = next]
    BY <1>2 DEF GoTo
  <2>. HIDE DEF new
  <2>3. \A i \in 1..Len(new) : new[i] \in Records
    BY <2>1
  <2>4. \A i \in 1..Len(new) : origin[new[i]] # NoOrigin
    BY <2>1, <2>3 DEF FilesHold
  <2>. QED
    BY <1>1, <2>1, <2>2, <2>4
<1>3. CASE list[g] # <<>> /\ Advance(g, next)
  <2>1. list[g] \in Seq(Records) /\ HandHolds(g)
    OBVIOUS
  <2>2. list' = [list EXCEPT ![g] = Tail(list[g])] /\ step' = [step EXCEPT ![g] = next]
    BY <1>3 DEF Advance
  <2>3. /\ Tail(list[g]) \in Seq(Records) /\ Len(Tail(list[g])) = Len(list[g]) - 1
        /\ \A i \in 1..Len(Tail(list[g])) : Tail(list[g])[i] = list[g][i + 1]
        /\ Len(list[g]) \in Nat /\ Len(list[g]) > 0
    BY <1>3, <2>1
  <2>4. \A i \in 1..Len(Tail(list[g])) : origin[Tail(list[g])[i]] # NoOrigin
    <3>1. \A i \in 1..Len(list[g]) : origin[list[g][i]] # NoOrigin
      BY <2>1 DEF HandHolds
    <3>2. \A i \in 1..Len(Tail(list[g])) : i + 1 \in 1..Len(list[g])
      BY <2>3
    <3>. QED
      BY <2>3, <3>1, <3>2
  <2>. QED
    BY <1>1, <2>2, <2>3, <2>4
<1>. QED
  BY <1>2, <1>3 DEF Rests

LEMMA RestHolds ==
  ASSUME MemoryInv, NEW g \in Goals, NEW next \in Resting, Rests(g, next),
         UNCHANGED <<origin, kept>>, torn \subseteq torn'
  PROVE  /\ Keeps /\ HandHolds(g)'
         /\ \A r \in Records : g \in Pending(r) => Judged(r)' >= Judged(r) + 1
<1>1. /\ step'[g] = next
      /\ \A h \in Goals \ {g} : step'[h] = step[h] /\ list'[h] = list[h]
      /\ \A i \in 1..Len(list'[g]) : origin[list'[g][i]] # NoOrigin
  BY RestLists
<1>2. step'[g] \notin {"mark", "bump"} /\ step'[g] \notin AtHead
  BY <1>1 DEF Resting, AtHead
<1>3. ASSUME NEW r \in Records
      PROVE  /\ Judged(r)' \in Int /\ Judged(r)' >= Judged(r)
             /\ g \in Pending(r) => Judged(r)' >= Judged(r) + 1
  BY <1>1, <1>2, JudgedLeaves DEF MemoryInv
<1>4. \A r \in Records : kept[r] \in Seq(Goals) /\ Len(kept[r]) \in Nat
  BY PendingCounts DEF MemoryInv, MemoryTyped
<1>5. Keeps
  BY <1>3, <1>4 DEF Keeps
<1>6. HandHolds(g)'
  BY <1>1, <1>2 DEF HandHolds, AtHead
<1>. QED
  BY <1>3, <1>5, <1>6

\* All together.
LEMMA StepKeeps ==
  ASSUME MemoryInv, NEW g \in Goals, MemoryTyped', Keeps,
         \A h \in Goals \ {g} : /\ step'[h] = step[h] /\ list'[h] = list[h]
                                /\ hand'[h] = hand[h] /\ op'[h] = op[h],
         HandHolds(g)', OpHolds(g)', FilesHold', Located'
  PROVE  MemoryInv'
<1>1. \A h \in Goals : HandHolds(h)' /\ OpHolds(h)'
  BY OthersHold, OpStays
<1>. QED
  BY <1>1 DEF MemoryInv

LEMMA HandEmptied ==
  ASSUME MemoryTyped, NEW g \in Goals,
         hand' = hand \/ hand' = [hand EXCEPT ![g] = NoHand]
  PROVE  /\ hand' \in [Goals -> [dir : Stage, data : RecordFile]]
         /\ \A h \in Goals \ {g} : hand'[h] = hand[h]
<1>1. hand \in [Goals -> [dir : Stage, data : RecordFile]]
  BY DEF MemoryTyped
<1>2. NoHand \in [dir : Stage, data : RecordFile]
  BY DataKinds
<1>. HIDE DEF NoHand
<1>. QED
  BY <1>1, <1>2

\* The batch goes on with empty hands, or ends; when it dies, what it was
\* doing is torn.
LEMMA RestKeeps ==
  ASSUME MemoryInv, NEW g \in Goals, NEW next \in Resting, Rests(g, next),
         UNCHANGED <<files, origin, kept, rejected>>, length' \in [Goals -> Nat],
         torn \subseteq torn', torn' \subseteq Records,
         hand' = hand \/ hand' = [hand EXCEPT ![g] = NoHand],
         op' = op \/ (op' = [op EXCEPT ![g] = NoOp] /\ (op[g] = NoOp \/ op[g].rec \in torn'))
  PROVE  MemoryInv'
<1>1. Keeps /\ HandHolds(g)'
  BY RestHolds
<1>2. /\ step' \in [Goals -> Steps] /\ list' \in [Goals -> Seq(Records)]
      /\ \A h \in Goals \ {g} : step'[h] = step[h] /\ list'[h] = list[h]
  BY RestLists
<1>3. /\ hand' \in [Goals -> [dir : Stage, data : RecordFile]]
      /\ \A h \in Goals \ {g} : hand'[h] = hand[h]
  BY HandEmptied DEF MemoryInv
<1>4. /\ op' \in [Goals -> OpType \cup {NoOp}]
      /\ \A h \in Goals \ {g} : op'[h] = op[h]
      /\ op'[g] = op[g] \/ (op'[g] = NoOp /\ op[g].rec \in torn')
  BY DEF MemoryInv, MemoryTyped
<1>5. MemoryTyped'
  BY <1>2, <1>3, <1>4 DEF MemoryInv, MemoryTyped
<1>6. OpHolds(g)'
  <2>1. CASE op'[g] = op[g]
    BY <1>1, <2>1, OpStays
  <2>2. CASE op'[g] = NoOp
    BY <2>2 DEF OpHolds
  <2>. QED
    BY <1>4, <2>1, <2>2
<1>7. FilesHold'
  BY <1>1, FilesStay
<1>8. Located'
  <2>1. ASSUME NEW h \in Goals, NEW r \in Records \ torn'
        PROVE  (Moving(h, r)' <=> Moving(h, r)) /\ (Moving(h, r) => op'[h] = op[h])
    <3>1. CASE op'[h] = op[h]
      BY <3>1 DEF Moving
    <3>2. CASE op'[h] # op[h]
      <4>1. op'[h] = NoOp /\ op[h].rec \in torn'
        BY <1>4, <3>2
      <4>. QED
        BY <4>1, DataKinds DEF Moving
    <3>. QED
      BY <3>1, <3>2
  <2>. QED
    BY <2>1, LocatedStays
<1>. QED
  BY <1>1, <1>2, <1>3, <1>4, <1>5, <1>6, <1>7, <1>8, StepKeeps

\* The batch plans to write a file again, or to do nothing to the files.
LEMMA RewriteKeeps ==
  ASSUME MemoryInv, NEW g \in Goals, op[g] = NoOp, MemoryTyped', Keeps,
         UNCHANGED <<files, origin, rejected>>,
         \A h \in Goals \ {g} : /\ step'[h] = step[h] /\ list'[h] = list[h]
                                /\ hand'[h] = hand[h] /\ op'[h] = op[h],
         HandHolds(g)', OpHolds(g)', ~op'[g].moves
  PROVE  MemoryInv'
<1>1. FilesHold'
  BY FilesStay
<1>2. Located'
  <2>1. ASSUME NEW h \in Goals, NEW r \in Records
        PROVE  (Moving(h, r)' <=> Moving(h, r)) /\ (Moving(h, r) => op'[h] = op[h])
    <3>1. CASE h = g
      BY <3>1, DataKinds DEF Moving
    <3>2. CASE h # g
      BY <3>2 DEF Moving
    <3>. QED
      BY <3>1, <3>2
  <2>. QED
    BY <2>1, LocatedStays DEF Keeps
<1>. QED
  BY <1>1, <1>2, StepKeeps

\* A move of a record from where it is starts; it is the only one, or the
\* record is torn.
LEMMA MoveLocated ==
  ASSUME MemoryInv, NEW g \in Goals, op[g] = NoOp, UNCHANGED files,
         NEW r \in Records, NEW from \in Stage, NEW to \in Stage, NEW data \in Good,
         Move(g, r, from, to, data), At(r, from), r \notin torn' => from # "deprecated",
         rejected' = rejected \/ (rejected' = rejected \cup {r} /\ to = "deprecated")
  PROVE  Located'
<1>. DEFINE new == [rec |-> r, from |-> from, to |-> to, data |-> data,
                    moves |-> TRUE, next |-> "open"]
<1>1. op'[g] = new /\ \A h \in Goals \ {g} : op'[h] = op[h]
  BY DEF Move, MemoryInv, MemoryTyped
<1>2. /\ torn \subseteq torn'
      /\ r \notin torn' => \A h \in Goals \ {g} : ~Moving(h, r)
  BY DEF Move
<1>3. \A q \in Records : ~Moving(g, q)
  BY DataKinds DEF Moving
<1>4. /\ \A h \in Goals \ {g}, q \in Records : Moving(h, q)' <=> Moving(h, q)
      /\ \A q \in Records : Moving(g, q)' <=> q = r
  BY <1>1 DEF Moving
<1>5. \A q \in Records, s \in Stage : At(q, s)' <=> At(q, s)
  BY DEF At
<1>. SUFFICES ASSUME NEW q \in Records \ torn'
     PROVE  /\ \A x, y \in Goals : Moving(x, q)' /\ Moving(y, q)' => x = y
            /\ \A x \in Goals : Moving(x, q)' =>
                 /\ op'[x].from # "deprecated" /\ At(q, op'[x].from)
                 /\ \A s \in Stage :
                      At(q, s) => s = op'[x].from \/ (s = op'[x].to /\ op'[x].next # "open")
                 /\ q \in rejected' => op'[x].to = "deprecated"
            /\ (\A x \in Goals : ~Moving(x, q)') =>
                 /\ \A s, t \in Stage : At(q, s) /\ At(q, t) => s = t
                 /\ \A s \in Stage : q \in rejected' /\ At(q, s) => s = "deprecated"
  BY DEF Located, At
<1>6. q \in Records \ torn
  BY <1>2
<1>7. /\ \A x, y \in Goals : Moving(x, q) /\ Moving(y, q) => x = y
      /\ \A x \in Goals : Moving(x, q) =>
           /\ op[x].from # "deprecated" /\ At(q, op[x].from)
           /\ \A s \in Stage :
                At(q, s) => s = op[x].from \/ (s = op[x].to /\ op[x].next # "open")
           /\ q \in rejected => op[x].to = "deprecated"
      /\ (\A x \in Goals : ~Moving(x, q)) =>
           /\ \A s, t \in Stage : At(q, s) /\ At(q, t) => s = t
           /\ \A s \in Stage : q \in rejected /\ At(q, s) => s = "deprecated"
  BY <1>6 DEF MemoryInv, Located
<1>. HIDE DEF Moving, At
<1>8. CASE q # r
  <2>1. q \in rejected' <=> q \in rejected
    BY <1>8
  <2>. QED
    BY <1>1, <1>3, <1>4, <1>7, <1>8, <2>1
<1>9. CASE q = r
  <2>1. \A x \in Goals : ~Moving(x, q)
    BY <1>2, <1>3, <1>9
  <2>2. from # "deprecated" /\ q \notin rejected
    BY <1>7, <1>9, <2>1
  <2>3. \A x \in Goals : Moving(x, q)' => x = g
    BY <1>4, <2>1
  <2>4. op'[g].from = from /\ op'[g].to = to
    BY <1>1
  <2>5. \A s \in Stage : At(q, s) => s = from
    BY <1>7, <1>9, <2>1
  <2>6. q \in rejected' => to = "deprecated"
    BY <2>2
  <2>7. Moving(g, q)'
    BY <1>4, <1>9
  <2>. QED
    BY <1>9, <2>2, <2>3, <2>4, <2>5, <2>6, <2>7
<1>. QED
  BY <1>8, <1>9

LEMMA MoveKeeps ==
  ASSUME MemoryInv, NEW g \in Goals, op[g] = NoOp, NEW next \in Resting, Rests(g, next),
         UNCHANGED <<files, origin, length, kept>>,
         hand' = hand \/ hand' = [hand EXCEPT ![g] = NoHand],
         NEW r \in Records, NEW from \in Stage, NEW to \in Stage, NEW data \in Good,
         Move(g, r, from, to, data), At(r, from), r \notin torn' => from # "deprecated",
         rejected' = rejected \/ (rejected' = rejected \cup {r} /\ to = "deprecated"),
         Honest(data, r), to = "active" => Earned(r)
  PROVE  MemoryInv'
<1>. DEFINE new == [rec |-> r, from |-> from, to |-> to, data |-> data,
                    moves |-> TRUE, next |-> "open"]
<1>1. /\ op' = [op EXCEPT ![g] = new] /\ new \in OpType
      /\ torn \subseteq torn' /\ torn' \subseteq Records
  BY DEF Move, OpType, MemoryInv, MemoryTyped
<1>2. Keeps /\ HandHolds(g)'
  BY <1>1, RestHolds
<1>3. /\ step' \in [Goals -> Steps] /\ list' \in [Goals -> Seq(Records)]
      /\ \A h \in Goals \ {g} : step'[h] = step[h] /\ list'[h] = list[h]
  BY RestLists
<1>4. /\ hand' \in [Goals -> [dir : Stage, data : RecordFile]]
      /\ \A h \in Goals \ {g} : hand'[h] = hand[h]
  BY HandEmptied DEF MemoryInv
<1>5. op' \in [Goals -> OpType \cup {NoOp}] /\ op'[g] = new
      /\ \A h \in Goals \ {g} : op'[h] = op[h]
  BY <1>1 DEF MemoryInv, MemoryTyped
<1>6. rejected' \subseteq Records
  BY DEF MemoryInv, MemoryTyped
<1>7. MemoryTyped'
  BY <1>1, <1>3, <1>4, <1>5, <1>6 DEF MemoryInv, MemoryTyped
<1>8. origin[r] # NoOrigin
  BY DEF MemoryInv, FilesHold
<1>9. OpHolds(g)'
  <2>1. Honest(data, r)'
    BY <1>2, KeepsHonest DEF MemoryInv, RecordFile
  <2>2. to = "active" => Earned(r)'
    BY <1>2, <1>8, KeepsEarned DEF MemoryInv
  <2>3. /\ op'[g].rec = r /\ op'[g].data = data /\ op'[g].to = to
        /\ op'[g].next = "open" /\ op'[g] \in OpType
    BY <1>1, <1>5
  <2>. HIDE DEF new
  <2>. QED
    BY <1>8, <2>1, <2>2, <2>3 DEF OpHolds
<1>10. FilesHold'
  BY <1>2, <1>8, FilesStay
<1>11. Located'
  BY MoveLocated
<1>. QED
  BY <1>2, <1>3, <1>4, <1>5, <1>7, <1>9, <1>10, <1>11, StepKeeps

\* Nothing of the batches' places changes: only a file operation goes on.
LEMMA StillKeeps ==
  ASSUME MemoryInv, UNCHANGED <<step, list, hand, kept, origin>>, torn \subseteq torn'
  PROVE  Keeps /\ \A h \in Goals : HandHolds(h)'
<1>1. \A r \in Records : Judged(r)' = Judged(r)
  BY JudgedSame
<1>2. \A r \in Records : Judged(r) \in Int /\ Len(kept[r]) \in Nat
  BY PendingCounts DEF MemoryInv
<1>3. Keeps
  BY <1>1, <1>2 DEF Keeps
<1>. QED
  BY <1>3, OthersHold

LEMMA FileHonest ==
  ASSUME MemoryInv, NEW r \in Records, NEW s \in Stage, Readable(r, s)
  PROVE  files[r][s] \in Good /\ At(r, s) /\ Honest(files[r][s], r) /\ origin[r] # NoOrigin
BY ReadableGood DEF MemoryInv, FilesHold

LEMMA ReviewKeeps ==
  ASSUME MemoryInv, NEW g \in Goals, Review(g)
  PROVE  MemoryInv'
<1>. DEFINE r == Head(list[g])
<1>1. step[g] = "review" /\ list[g] # <<>> /\ op[g] = NoOp
  BY DEF Review, Turn
<1>2. r \in Records /\ origin[r] # NoOrigin
  BY <1>1, AtHeadOf
<1>3. CASE ~(Readable(r, "quarantined") /\ ~OwnBatch(g, r))
  <2>1. /\ Advance(g, "review")
        /\ UNCHANGED <<hand, files, origin, length, op, kept, rejected, torn>>
    BY <1>3 DEF Review
  <2>2. Rests(g, "review") /\ "review" \in Resting
    BY <1>1, <2>1 DEF Rests, Resting
  <2>. QED
    BY <2>1, <2>2, RestKeeps DEF MemoryInv, MemoryTyped
<1>4. CASE Readable(r, "quarantined") /\ ~OwnBatch(g, r)
  <2>. DEFINE d == files[r]["quarantined"]
  <2>1. /\ hand' = [hand EXCEPT ![g] = [dir |-> "quarantined", data |-> d]]
        /\ step' = [step EXCEPT ![g] = "judge"]
        /\ UNCHANGED <<list, files, origin, length, op, kept, rejected, torn>>
    BY <1>4 DEF Review
  <2>2. d \in Good /\ Honest(d, r)
    BY <1>2, <1>4, FileHonest, StageNames
  <2>12. d' = d /\ r' = r
    BY <2>1
  <2>. HIDE DEF d
  <2>3. [dir |-> "quarantined", data |-> d] \in [dir : Stage, data : RecordFile]
    BY <2>2, StageNames DEF RecordFile
  <2>4. /\ step' \in [Goals -> Steps] /\ step'[g] = "judge"
        /\ \A h \in Goals \ {g} : step'[h] = step[h]
    BY <2>1 DEF Steps, MemoryInv, MemoryTyped
  <2>5. /\ hand' \in [Goals -> [dir : Stage, data : RecordFile]]
        /\ hand'[g].data = d /\ \A h \in Goals \ {g} : hand'[h] = hand[h]
    <3>1. hand \in [Goals -> [dir : Stage, data : RecordFile]]
      BY DEF MemoryInv, MemoryTyped
    <3>. QED
      BY <2>1, <2>3, <3>1
  <2>6. MemoryTyped'
    BY <2>1, <2>4, <2>5 DEF MemoryInv, MemoryTyped
  <2>7. \A q \in Records : /\ Judged(q)' \in Int /\ Judged(q)' >= Judged(q)
                           /\ Len(kept[q]) \in Nat
    BY <2>1, <2>4, JudgedLeaves, PendingCounts DEF MemoryInv
  <2>8. Keeps
    BY <2>1, <2>7 DEF Keeps
  <2>9. HandHolds(g)'
    <3>1. Honest(d, r)'
      BY <1>2, <2>2, <2>8, <2>12, KeepsHonest DEF MemoryInv, RecordFile
    <3>2. \A i \in 1..Len(list[g]) : origin[list[g][i]] # NoOrigin
      BY DEF MemoryInv, HandHolds
    <3>. QED
      BY <1>1, <2>1, <2>2, <2>4, <2>5, <2>12, <3>1, <3>2 DEF HandHolds, AtHead
  <2>10. OpHolds(g)'
    BY <2>1, <2>8, OpStays
  <2>11. ~op'[g].moves
    BY <1>1, <2>1, DataKinds
  <2>. QED
    BY <1>1, <2>1, <2>4, <2>5, <2>6, <2>8, <2>9, <2>10, <2>11, RewriteKeeps
<1>. QED
  BY <1>3, <1>4

\* The batch leaves the review of a record for the next one, or goes on with
\* it, and plans at most to write it again.
LEMMA TurnKeeps ==
  ASSUME MemoryInv, NEW g \in Goals, op[g] = NoOp, Keeps, HandHolds(g)',
         UNCHANGED <<files, origin, length, rejected>>,
         torn' \subseteq Records,
         step' \in [Goals -> Steps], list' \in [Goals -> Seq(Records)],
         \A h \in Goals \ {g} : step'[h] = step[h] /\ list'[h] = list[h],
         hand' \in [Goals -> [dir : Stage, data : RecordFile]],
         \A h \in Goals \ {g} : hand'[h] = hand[h],
         kept' \in [Records -> Seq(Goals)],
         NEW r \in Records, origin[r] # NoOrigin, NEW s \in Stage, NEW data,
         \/ op' = op
         \/ /\ op' = [op EXCEPT ![g] = [rec |-> r, from |-> s, to |-> s, data |-> data,
                                        moves |-> FALSE, next |-> "open"]]
            /\ data \in Good /\ Honest(data, r)' /\ (s = "active" => Earned(r)')
  PROVE  MemoryInv'
<1>. DEFINE new == [rec |-> r, from |-> s, to |-> s, data |-> data,
                    moves |-> FALSE, next |-> "open"]
<1>1. op \in [Goals -> OpType \cup {NoOp}]
  BY DEF MemoryInv, MemoryTyped
<1>2. CASE op' = op
  <2>1. MemoryTyped'
    BY <1>2 DEF MemoryInv, MemoryTyped
  <2>2. OpHolds(g)' /\ ~op'[g].moves
    BY <1>2, DataKinds, OpStays
  <2>. QED
    BY <1>2, <2>1, <2>2, RewriteKeeps
<1>3. CASE /\ op' = [op EXCEPT ![g] = new]
           /\ data \in Good /\ Honest(data, r)' /\ (s = "active" => Earned(r)')
  <2>1. new \in OpType
    BY <1>3 DEF OpType
  <2>2. op'[g] = new /\ \A h \in Goals \ {g} : op'[h] = op[h]
    BY <1>1, <1>3
  <2>3. op' \in [Goals -> OpType \cup {NoOp}]
    BY <1>1, <1>3, <2>1
  <2>4. MemoryTyped'
    BY <2>3 DEF MemoryInv, MemoryTyped
  <2>5. /\ op'[g].rec = r /\ op'[g].to = s /\ op'[g].data = data
        /\ op'[g].moves = FALSE /\ op'[g].next = "open" /\ op'[g] \in OpType
    BY <2>1, <2>2
  <2>6. OpHolds(g)'
    BY <1>3, <2>5 DEF OpHolds
  <2>. QED
    BY <2>2, <2>4, <2>5, <2>6, RewriteKeeps
<1>. QED
  BY <1>2, <1>3

LEMMA JudgeKeeps ==
  ASSUME MemoryInv, NEW g \in Goals, Judge(g)
  PROVE  MemoryInv'
<1>1. /\ step[g] = "judge" /\ list[g] # <<>> /\ op[g] = NoOp
      /\ hand' = [hand EXCEPT ![g] = NoHand]
      /\ UNCHANGED <<files, origin, length, list, rejected>>
  BY DEF Judge, Turn
<1>2. PICK r \in Records : r = Head(list[g]) /\ origin[r] # NoOrigin
  BY <1>1, AtHeadOf
<1>3. PICK d \in Good : d = hand[g].data /\ Honest(d, r)
  BY <1>1, <1>2 DEF MemoryInv, HandHolds
<1>4. /\ hand' \in [Goals -> [dir : Stage, data : RecordFile]]
      /\ \A h \in Goals \ {g} : hand'[h] = hand[h]
  BY <1>1, HandEmptied DEF MemoryInv
<1>5. torn' = torn
  BY DEF Judge, Rewrite
<1>6. \A i \in 1..Len(list[g]) : origin[list[g][i]] # NoOrigin
  BY DEF MemoryInv, HandHolds
<1>7. /\ Keeps /\ HandHolds(g)'
      /\ step' \in [Goals -> Steps] /\ \A h \in Goals \ {g} : step'[h] = step[h]
      /\ kept' \in [Records -> Seq(Goals)]
  <2>1. CASE step' = [step EXCEPT ![g] = "reject"] /\ kept' = kept
    <3>1. /\ step' \in [Goals -> Steps] /\ step'[g] = "reject"
          /\ \A h \in Goals \ {g} : step'[h] = step[h]
      BY <2>1 DEF Steps, MemoryInv, MemoryTyped
    <3>2. \A q \in Records : /\ Judged(q)' \in Int /\ Judged(q)' >= Judged(q)
                             /\ Len(kept[q]) \in Nat
      BY <1>1, <2>1, <3>1, JudgedLeaves, PendingCounts DEF MemoryInv
    <3>3. Keeps
      BY <1>1, <1>5, <2>1, <3>2 DEF Keeps
    <3>4. HandHolds(g)'
      BY <1>1, <1>6, <3>1 DEF HandHolds
    <3>. QED
      BY <2>1, <3>1, <3>3, <3>4 DEF MemoryInv, MemoryTyped
  <2>2. CASE /\ step' = [step EXCEPT ![g] = "mark"]
             /\ kept' = [kept EXCEPT ![r] = Append(@, g)]
    <3>1. /\ step' \in [Goals -> Steps] /\ step'[g] = "mark"
          /\ \A h \in Goals \ {g} : step'[h] = step[h]
      BY <2>2 DEF Steps, MemoryInv, MemoryTyped
    <3>2. ASSUME NEW q \in Records
          PROVE  /\ Judged(q)' \in Int /\ Judged(q)' = Judged(q)
                 /\ ToSet(kept[q]) \subseteq ToSet(kept'[q])
                 /\ Len(kept'[q]) >= Len(kept[q])
                 /\ g \in ToSet(kept'[r])
      BY <1>1, <1>2, <2>2, JudgedMore DEF MemoryInv
    <3>3. kept' \in [Records -> Seq(Goals)]
      <4>1. kept \in [Records -> Seq(Goals)]
        BY DEF MemoryInv, MemoryTyped
      <4>2. Append(kept[r], g) \in Seq(Goals)
        BY <4>1, MoreKept
      <4>. QED
        BY <2>2, <4>1, <4>2
    <3>4. \A q \in Records : Len(kept'[q]) \in Nat
      BY <3>3
    <3>5. \A q \in Records : Judged(q) \in Int
      BY PendingCounts DEF MemoryInv
    <3>6. Keeps
      BY <1>1, <1>5, <3>2, <3>4, <3>5 DEF Keeps
    <3>7. g \in ToSet(kept'[r])
      BY <3>2
    <3>8. HandHolds(g)'
      BY <1>1, <1>2, <1>6, <3>1, <3>7 DEF HandHolds
    <3>. QED
      BY <3>1, <3>3, <3>6, <3>8
  <2>. QED
    BY <1>2, <2>1, <2>2 DEF Judge
<1>8. list' \in [Goals -> Seq(Records)] /\ torn' \subseteq Records
  BY <1>1, <1>5 DEF MemoryInv, MemoryTyped
<1>9. CASE op' = op
  BY <1>1, <1>2, <1>4, <1>7, <1>8, <1>9, StageNames, TurnKeeps
<1>10. CASE \E sure \in {d.sure, TRUE} : Rewrite(g, r, "quarantined", [d EXCEPT !.sure = sure])
  <2>1. PICK sure \in {d.sure, TRUE} : Rewrite(g, r, "quarantined", [d EXCEPT !.sure = sure])
    BY <1>10
  <2>2. PICK data : data = [d EXCEPT !.sure = sure]
    OBVIOUS
  <2>3. data \in Good /\ data.ver = d.ver /\ data.goals = d.goals
    BY <2>2 DEF Good
  <2>4. Honest(data, r)
    BY <1>3, <2>3 DEF Honest
  <2>5. Honest(data, r)'
    BY <1>7, <2>3, <2>4, KeepsHonest DEF MemoryInv, RecordFile
  <2>6. op' = [op EXCEPT ![g] = [rec |-> r, from |-> "quarantined", to |-> "quarantined",
                                 data |-> data, moves |-> FALSE, next |-> "open"]]
    BY <2>1, <2>2 DEF Rewrite
  <2>7. "quarantined" \in Stage /\ "quarantined" # "active"
    BY StageNames
  <2>. QED
    BY <1>1, <1>2, <1>4, <1>7, <1>8, <2>3, <2>5, <2>6, <2>7, TurnKeeps
<1>. QED
  BY <1>2, <1>3, <1>9, <1>10 DEF Judge

LEMMA MarkKeeps ==
  ASSUME MemoryInv, NEW g \in Goals, Mark(g)
  PROVE  MemoryInv'
<1>1. /\ step[g] = "mark" /\ list[g] # <<>> /\ op[g] = NoOp
      /\ step' = [step EXCEPT ![g] = "bump"]
      /\ UNCHANGED <<files, origin, length, list, hand, kept, rejected>>
  BY DEF Mark, Turn
<1>2. PICK r \in Records : r = Head(list[g]) /\ origin[r] # NoOrigin
  BY <1>1, AtHeadOf
<1>3. /\ step' \in [Goals -> Steps] /\ step'[g] = "bump"
      /\ \A h \in Goals \ {g} : step'[h] = step[h]
  BY <1>1 DEF Steps, MemoryInv, MemoryTyped
<1>4. torn' = torn
  BY DEF Mark, Rewrite
<1>5. Keeps
  <2>1. \A q \in Records : Judged(q)' = Judged(q)
    BY <1>1, JudgedMarks DEF MemoryInv, MemoryTyped
  <2>2. \A q \in Records : Judged(q) \in Int /\ Len(kept[q]) \in Nat
    BY PendingCounts DEF MemoryInv
  <2>. QED
    BY <1>1, <1>4, <2>1, <2>2 DEF Keeps
<1>6. HandHolds(g)'
  <2>1. \A i \in 1..Len(list[g]) : origin[list[g][i]] # NoOrigin
    BY DEF MemoryInv, HandHolds
  <2>. QED
    BY <1>1, <1>3, <2>1 DEF HandHolds
<1>7. /\ list' \in [Goals -> Seq(Records)] /\ torn' \subseteq Records
      /\ kept' \in [Records -> Seq(Goals)]
      /\ hand' \in [Goals -> [dir : Stage, data : RecordFile]]
  BY <1>1, <1>4 DEF MemoryInv, MemoryTyped
<1>8. CASE op' = op
  BY <1>1, <1>2, <1>3, <1>5, <1>6, <1>7, <1>8, StageNames, TurnKeeps
<1>9. CASE /\ Readable(r, "quarantined")
           /\ Rewrite(g, r, "quarantined",
                      [files[r]["quarantined"] EXCEPT !.goals = @ \cup {g}])
  <2>1. PICK d \in Good : d = files[r]["quarantined"] /\ Honest(d, r)
    BY <1>9, FileHonest, StageNames
  <2>2. PICK data : data = [d EXCEPT !.goals = @ \cup {g}]
    OBVIOUS
  <2>3. data \in Good /\ data.ver = d.ver /\ data.goals = d.goals \cup {g}
    BY <2>2 DEF Good
  <2>4. g \in ToSet(kept[r])
    BY <1>1, <1>2 DEF MemoryInv, HandHolds
  <2>5. Honest(data, r)
    BY <2>1, <2>3, <2>4 DEF Honest
  <2>6. Honest(data, r)'
    BY <1>5, <2>3, <2>5, KeepsHonest DEF MemoryInv, RecordFile
  <2>7. op' = [op EXCEPT ![g] = [rec |-> r, from |-> "quarantined", to |-> "quarantined",
                                 data |-> data, moves |-> FALSE, next |-> "open"]]
    BY <1>9, <2>1, <2>2 DEF Rewrite
  <2>8. PICK s \in Stage : s = "quarantined" /\ s # "active"
    BY StageNames
  <2>9. op' = [op EXCEPT ![g] = [rec |-> r, from |-> s, to |-> s, data |-> data,
                                 moves |-> FALSE, next |-> "open"]]
    BY <2>7, <2>8
  <2>10. /\ \A h \in Goals \ {g} : /\ step'[h] = step[h] /\ list'[h] = list[h]
                                    /\ hand'[h] = hand[h]
         /\ op[g] = NoOp /\ UNCHANGED <<files, origin, length, rejected>>
         /\ origin[r] # NoOrigin /\ step' \in [Goals -> Steps]
    BY <1>1, <1>2, <1>3
  <2>11. \/ op' = op
         \/ /\ op' = [op EXCEPT ![g] = [rec |-> r, from |-> s, to |-> s, data |-> data,
                                        moves |-> FALSE, next |-> "open"]]
            /\ data \in Good /\ Honest(data, r)' /\ (s = "active" => Earned(r)')
    BY <2>3, <2>6, <2>8, <2>9
  <2>. QED
    BY <1>5, <1>6, <1>7, <2>10, <2>11, TurnKeeps
<1>. QED
  BY <1>2, <1>8, <1>9 DEF Mark

LEMMA BumpKeeps ==
  ASSUME MemoryInv, NEW g \in Goals, Bump(g)
  PROVE  MemoryInv'
<1>1. /\ step[g] = "bump" /\ list[g] # <<>> /\ op[g] = NoOp
      /\ UNCHANGED <<files, origin, length>>
  BY DEF Bump, Turn
<1>2. PICK r \in Records : r = Head(list[g]) /\ origin[r] # NoOrigin
  BY <1>1, AtHeadOf
<1>3. CASE Held(r) # {} /\ ~Readable(r, First(Held(r)))
  <2>1. Fail(g)
    BY <1>2, <1>3 DEF Bump
  <2>. QED
    BY <1>1, <2>1, RestKeeps DEF Fail, Rests, Resting, MemoryInv, MemoryTyped
<1>4. CASE ~(Held(r) # {} /\ ~Readable(r, First(Held(r))))
  <2>1. /\ Advance(g, "review") /\ UNCHANGED <<hand, kept, rejected>>
        /\ \/ Held(r) = {} /\ UNCHANGED <<op, torn>>
           \/ /\ Held(r) # {} /\ Readable(r, First(Held(r)))
              /\ Rewrite(g, r, First(Held(r)),
                         [files[r][First(Held(r))] EXCEPT !.ver = @ + 1])
    BY <1>2, <1>4 DEF Bump
  <2>2. torn' = torn
    BY <2>1 DEF Rewrite
  <2>3. Rests(g, "review") /\ "review" \in Resting
    BY <1>1, <2>1 DEF Rests, Resting
  <2>4. /\ Keeps /\ HandHolds(g)'
        /\ g \in Pending(r) => Judged(r)' >= Judged(r) + 1
    BY <1>1, <2>1, <2>2, <2>3, RestHolds
  <2>5. /\ step' \in [Goals -> Steps] /\ list' \in [Goals -> Seq(Records)]
        /\ \A h \in Goals \ {g} : step'[h] = step[h] /\ list'[h] = list[h]
    BY <2>3, RestLists
  <2>6. /\ torn' \subseteq Records /\ kept' \in [Records -> Seq(Goals)]
        /\ hand' \in [Goals -> [dir : Stage, data : RecordFile]]
        /\ \A h \in Goals \ {g} : hand'[h] = hand[h]
    BY <2>1, <2>2 DEF MemoryInv, MemoryTyped
  <2>7. CASE op' = op
    BY <1>1, <1>2, <2>1, <2>4, <2>5, <2>6, <2>7, StageNames, TurnKeeps
  <2>8. CASE /\ Held(r) # {} /\ Readable(r, First(Held(r)))
             /\ Rewrite(g, r, First(Held(r)),
                        [files[r][First(Held(r))] EXCEPT !.ver = @ + 1])
    <3>1. PICK s \in Stage : s = First(Held(r)) /\ Readable(r, s)
      BY <2>8, FirstHeld DEF Held
    <3>2. PICK d \in Good : d = files[r][s] /\ Honest(d, r) /\ At(r, s)
      BY <3>1, FileHonest
    <3>3. PICK data : data = [d EXCEPT !.ver = @ + 1]
      OBVIOUS
    <3>4. data \in Good /\ data.ver = d.ver + 1 /\ data.goals = d.goals /\ d.ver \in Nat
      BY <3>3 DEF Good
    <3>5. Judged(r)' >= Judged(r) + 1
      BY <1>1, <1>2, <2>4 DEF Pending
    <3>6. /\ Judged(r) \in Int /\ Judged(r)' \in Int
          /\ ToSet(kept[r]) \subseteq ToSet(kept'[r])
      BY <2>4, PendingCounts DEF Keeps, MemoryInv
    <3>7. Honest(data, r)'
      <4>1. d.ver <= Judged(r) /\ d.goals \subseteq ToSet(kept[r])
        BY <3>2 DEF Honest
      <4>2. data.ver <= Judged(r)'
        BY <3>4, <3>5, <3>6, <4>1
      <4>3. data.goals \subseteq ToSet(kept'[r])
        BY <3>4, <3>6, <4>1
      <4>. QED
        BY <4>2, <4>3 DEF Honest
    <3>8. s = "active" => Earned(r)'
      <4>1. s = "active" => Earned(r)
        BY <3>2 DEF MemoryInv, FilesHold
      <4>. QED
        BY <1>2, <2>4, <4>1, KeepsEarned DEF MemoryInv
    <3>9. op' = [op EXCEPT ![g] = [rec |-> r, from |-> s, to |-> s, data |-> data,
                                   moves |-> FALSE, next |-> "open"]]
      BY <2>8, <3>1, <3>2, <3>3 DEF Rewrite
    <3>. QED
      BY <1>1, <1>2, <2>1, <2>4, <2>5, <2>6, <3>4, <3>7, <3>8, <3>9, TurnKeeps
  <2>. QED
    BY <2>1, <2>7, <2>8
<1>. QED
  BY <1>3, <1>4

LEMMA CheckVerifiedKeeps ==
  ASSUME MemoryInv, NEW g \in Goals, CheckVerified(g)
  PROVE  MemoryInv'
<1>1. /\ step[g] = "promote" /\ list[g] # <<>> /\ op[g] = NoOp
      /\ UNCHANGED <<files, origin, length, hand, op, kept, rejected, torn>>
  BY DEF CheckVerified, Turn
<1>2. PICK r \in Records : r = Head(list[g]) /\ origin[r] # NoOrigin
  BY <1>1, AtHeadOf
<1>3. CASE Advance(g, "promote")
  <2>1. Rests(g, "promote") /\ "promote" \in Resting
    BY <1>1, <1>3 DEF Rests, Resting
  <2>. QED
    BY <1>1, <2>1, RestKeeps DEF MemoryInv, MemoryTyped
<1>4. CASE step' = [step EXCEPT ![g] = "verify"] /\ UNCHANGED list
  <2>1. /\ step' \in [Goals -> Steps] /\ step'[g] = "verify"
        /\ \A h \in Goals \ {g} : step'[h] = step[h]
    BY <1>4 DEF Steps, MemoryInv, MemoryTyped
  <2>2. \A q \in Records : /\ Judged(q)' \in Int /\ Judged(q)' >= Judged(q)
                           /\ Len(kept[q]) \in Nat
    BY <1>1, <1>4, <2>1, JudgedLeaves, PendingCounts DEF MemoryInv
  <2>3. Keeps
    BY <1>1, <2>2 DEF Keeps
  <2>4. HandHolds(g)'
    <3>1. \A i \in 1..Len(list[g]) : origin[list[g][i]] # NoOrigin
      BY DEF MemoryInv, HandHolds
    <3>. QED
      BY <1>1, <1>4, <2>1, <3>1 DEF HandHolds
  <2>5. /\ torn' \subseteq Records /\ list' \in [Goals -> Seq(Records)]
        /\ hand' \in [Goals -> [dir : Stage, data : RecordFile]]
        /\ kept' \in [Records -> Seq(Goals)]
        /\ \A h \in Goals \ {g} : list'[h] = list[h] /\ hand'[h] = hand[h]
    BY <1>1, <1>4 DEF MemoryInv, MemoryTyped
  <2>. QED
    BY <1>1, <1>2, <2>1, <2>3, <2>4, <2>5, StageNames, TurnKeeps
<1>. QED
  BY <1>3, <1>4 DEF CheckVerified

\* Two goals and two verifications counted in a file are as many judgements.
LEMMA CountsEarned ==
  ASSUME MemoryInv, NEW r \in Records, NEW d \in Good, Honest(d, r),
         d.ver >= MinVerifications, Cardinality(DistinctGoals(r, d)) >= MinGoals
  PROVE  Earned(r)
<1>1. Len(kept[r]) >= MinVerifications
  <2>1. /\ Judged(r) \in Int /\ Judged(r) <= Len(kept[r]) /\ Len(kept[r]) \in Nat
        /\ d.ver \in Nat /\ d.ver <= Judged(r)
    BY PendingCounts DEF MemoryInv, Honest, Good
  <2>. QED
    BY <2>1 DEF MinVerifications
<1>2. PICK g \in d.goals : g # origin[r].goal
  <2>1. CASE d.goals \subseteq {origin[r].goal}
    <3>1. DistinctGoals(r, d) = {origin[r].goal}
      BY <2>1 DEF DistinctGoals
    <3>2. Cardinality(DistinctGoals(r, d)) = 1
      BY <3>1, FS_Singleton
    <3>. QED
      BY <3>2 DEF MinGoals
  <2>2. CASE ~(d.goals \subseteq {origin[r].goal})
    BY <2>2
  <2>. QED
    BY <2>1, <2>2
<1>3. g \in ToSet(kept[r])
  BY DEF Honest
<1>. QED
  BY <1>1, <1>2, <1>3 DEF Earned

LEMMA CheckActiveKeeps ==
  ASSUME MemoryInv, NEW g \in Goals, CheckActive(g)
  PROVE  MemoryInv'
<1>1. /\ step[g] = "activate" /\ list[g] # <<>> /\ op[g] = NoOp
      /\ UNCHANGED <<files, origin, length, hand, op, kept, rejected, torn>>
  BY DEF CheckActive, Turn
<1>2. PICK r \in Records : r = Head(list[g]) /\ origin[r] # NoOrigin
  BY <1>1, AtHeadOf
<1>3. CASE Advance(g, "activate")
  <2>1. Rests(g, "activate") /\ "activate" \in Resting
    BY <1>1, <1>3 DEF Rests, Resting
  <2>. QED
    BY <1>1, <2>1, RestKeeps DEF MemoryInv, MemoryTyped
<1>4. CASE /\ Readable(r, "verified")
           /\ files[r]["verified"].ver >= MinVerifications
           /\ Cardinality(DistinctGoals(r, files[r]["verified"])) >= MinGoals
           /\ step' = [step EXCEPT ![g] = "approve"] /\ UNCHANGED list
  <2>1. /\ step' \in [Goals -> Steps] /\ step'[g] = "approve"
        /\ \A h \in Goals \ {g} : step'[h] = step[h]
    BY <1>4 DEF Steps, MemoryInv, MemoryTyped
  <2>2. \A q \in Records : /\ Judged(q)' \in Int /\ Judged(q)' >= Judged(q)
                           /\ Len(kept[q]) \in Nat
    BY <1>1, <1>4, <2>1, JudgedLeaves, PendingCounts DEF MemoryInv
  <2>3. Keeps
    BY <1>1, <2>2 DEF Keeps
  <2>4. Earned(r)
    <3>1. files[r]["verified"] \in Good /\ Honest(files[r]["verified"], r)
      BY <1>4, FileHonest, StageNames
    <3>. QED
      BY <1>4, <3>1, CountsEarned
  <2>5. Earned(r)'
    BY <1>2, <2>3, <2>4, KeepsEarned DEF MemoryInv
  <2>6. HandHolds(g)'
    <3>1. \A i \in 1..Len(list[g]) : origin[list[g][i]] # NoOrigin
      BY DEF MemoryInv, HandHolds
    <3>2. r = Head(list'[g])
      BY <1>2, <1>4
    <3>3. Earned(Head(list[g]))'
      BY <2>5, <3>2
    <3>. QED
      BY <1>1, <1>4, <2>1, <3>1, <3>3 DEF HandHolds
  <2>7. /\ torn' \subseteq Records /\ list' \in [Goals -> Seq(Records)]
        /\ hand' \in [Goals -> [dir : Stage, data : RecordFile]]
        /\ kept' \in [Records -> Seq(Goals)]
        /\ \A h \in Goals \ {g} : list'[h] = list[h] /\ hand'[h] = hand[h]
    BY <1>1, <1>4 DEF MemoryInv, MemoryTyped
  <2>. QED
    BY <1>1, <1>2, <2>1, <2>3, <2>6, <2>7, StageNames, TurnKeeps
<1>. QED
  BY <1>2, <1>3, <1>4 DEF CheckActive

LEMMA FindKeeps ==
  ASSUME MemoryInv, NEW g \in Goals, Find(g)
  PROVE  MemoryInv'
<1>1. /\ step[g] \in {"verify", "approve"} /\ list[g] # <<>> /\ op[g] = NoOp
      /\ UNCHANGED <<files, origin, length, kept, rejected>>
  BY DEF Find, Turn, Fail
<1>2. PICK r \in Records : r = Head(list[g]) /\ origin[r] # NoOrigin
  BY <1>1, AtHeadOf
<1>3. CASE Held(r) = {} \/ (step[g] = "approve" /\ files[r][First(Held(r))].ver < MinVerifications)
  <2>1. /\ Advance(g, IF step[g] = "approve" THEN "activate" ELSE "promote")
        /\ UNCHANGED <<hand, op, torn>>
    BY <1>2, <1>3 DEF Find
  <2>2. PICK next \in Resting : Rests(g, next)
    <3>1. CASE step[g] = "approve"
      BY <1>1, <2>1, <3>1 DEF Rests, Resting
    <3>2. CASE step[g] # "approve"
      BY <1>1, <2>1, <3>2 DEF Rests, Resting
    <3>. QED
      BY <3>1, <3>2
  <2>. QED
    BY <1>1, <2>1, <2>2, RestKeeps DEF MemoryInv, MemoryTyped
<1>4. CASE Held(r) # {} /\ step[g] # "approve" /\ files[r][First(Held(r))] = Broken
  <2>1. Fail(g)
    BY <1>2, <1>4 DEF Find
  <2>. QED
    BY <1>1, <2>1, RestKeeps DEF Fail, Rests, Resting, MemoryInv, MemoryTyped
<1>5. CASE /\ Held(r) # {}
           /\ step[g] = "approve" => ~(files[r][First(Held(r))].ver < MinVerifications)
           /\ step[g] # "approve" => files[r][First(Held(r))] # Broken
  <2>1. PICK s \in Stage : s = First(Held(r)) /\ At(r, s)
    BY <1>5, FirstHeld DEF Held
  <2>2. files[r][s] \in Good
    <3>1. files[r][s] \in RecordFile /\ files[r][s] # Absent
      BY <2>1 DEF At, MemoryInv, MemoryTyped
    <3>2. files[r][s] # Broken
      BY <1>5, <2>1 DEF Broken, MinVerifications
    <3>. QED
      BY <3>1, <3>2 DEF RecordFile
  <2>3. PICK d \in Good : d = files[r][s] /\ Honest(d, r)
    BY <2>1, <2>2 DEF MemoryInv, FilesHold
  <2>4. /\ hand' = [hand EXCEPT ![g] = [dir |-> s, data |-> d]]
        /\ step' = [step EXCEPT ![g] = IF step[g] = "approve" THEN "toActive" ELSE "toVerified"]
        /\ torn' = IF s # (IF step[g] = "approve" THEN "verified" ELSE "quarantined")
                   THEN torn \cup {r} ELSE torn
        /\ op' = IF step[g] = "approve"
                 THEN [op EXCEPT ![g] = [rec |-> r, from |-> s, to |-> s, data |-> d,
                                         moves |-> FALSE, next |-> "open"]]
                 ELSE op
        /\ UNCHANGED list
    BY <1>2, <1>5, <2>1, <2>3 DEF Find
  <2>5. /\ step' \in [Goals -> Steps]
        /\ step'[g] = IF step[g] = "approve" THEN "toActive" ELSE "toVerified"
        /\ \A h \in Goals \ {g} : step'[h] = step[h]
    BY <2>4 DEF Steps, MemoryInv, MemoryTyped
  <2>6. /\ hand' \in [Goals -> [dir : Stage, data : RecordFile]]
        /\ hand'[g] = [dir |-> s, data |-> d] /\ \A h \in Goals \ {g} : hand'[h] = hand[h]
    <3>1. [dir |-> s, data |-> d] \in [dir : Stage, data : RecordFile]
      BY DEF RecordFile
    <3>2. hand \in [Goals -> [dir : Stage, data : RecordFile]]
      BY DEF MemoryInv, MemoryTyped
    <3>. QED
      BY <2>4, <3>1, <3>2
  <2>7. torn \subseteq torn' /\ torn' \subseteq Records
    BY <2>4 DEF MemoryInv, MemoryTyped
  <2>8. \A q \in Records : /\ Judged(q)' \in Int /\ Judged(q)' >= Judged(q)
                           /\ Len(kept[q]) \in Nat
    <3>1. step'[g] \notin {"mark", "bump"}
      BY <2>5
    <3>. QED
      BY <1>1, <2>4, <2>5, <3>1, JudgedLeaves, PendingCounts DEF MemoryInv
  <2>9. Keeps
    BY <1>1, <2>7, <2>8 DEF Keeps
  <2>10. Honest(d, r)'
    BY <2>3, <2>9, KeepsHonest DEF MemoryInv, RecordFile
  <2>11. step[g] = "approve" => Earned(r)'
    <3>1. step[g] = "approve" => Earned(r)
      BY <1>1, <1>2 DEF MemoryInv, HandHolds
    <3>. QED
      BY <1>2, <2>9, <3>1, KeepsEarned DEF MemoryInv
  <2>12. r \notin torn' => s # "deprecated"
    BY <2>4
  <2>13. HandHolds(g)'
    <3>1. \A i \in 1..Len(list[g]) : origin[list[g][i]] # NoOrigin
      BY DEF MemoryInv, HandHolds
    <3>2. r = Head(list'[g]) /\ list'[g] # <<>>
      BY <1>1, <1>2, <2>4
    <3>3. hand'[g].dir = s /\ hand'[g].data = d
      BY <2>6
    <3>4. \A i \in 1..Len(list'[g]) : origin'[list'[g][i]] # NoOrigin
      BY <1>1, <2>4, <3>1
    <3>5. Honest(hand[g].data, Head(list[g]))'
      BY <2>10, <3>2, <3>3
    <3>6. step[g] = "approve" => Earned(Head(list[g]))'
      BY <2>11, <3>2
    <3>. QED
      BY <2>5, <2>12, <3>2, <3>3, <3>4, <3>5, <3>6 DEF HandHolds
  <2>14. \/ op' = op
         \/ /\ op' = [op EXCEPT ![g] = [rec |-> r, from |-> s, to |-> s, data |-> d,
                                        moves |-> FALSE, next |-> "open"]]
            /\ d \in Good /\ Honest(d, r)' /\ (s = "active" => Earned(r)')
    BY <2>4, <2>10, <2>11
  <2>15. /\ list' \in [Goals -> Seq(Records)] /\ kept' \in [Records -> Seq(Goals)]
         /\ \A h \in Goals \ {g} : step'[h] = step[h] /\ list'[h] = list[h]
         /\ op[g] = NoOp /\ UNCHANGED <<files, origin, length, rejected>>
    BY <1>1, <2>4, <2>5 DEF MemoryInv, MemoryTyped
  <2>. QED
    BY <1>2, <2>5, <2>6, <2>7, <2>9, <2>13, <2>14, <2>15, TurnKeeps
<1>. QED
  BY <1>3, <1>4, <1>5

LEMMA QuarantineKeeps ==
  ASSUME MemoryInv, NEW g \in Goals, Quarantine(g)
  PROVE  MemoryInv'
<1>1. /\ step[g] = "quarantine" /\ list[g] # <<>> /\ op[g] = NoOp
      /\ UNCHANGED <<files, origin, length>>
  BY DEF Quarantine, Turn
<1>2. PICK r \in Records : r = Head(list[g]) /\ origin[r] # NoOrigin
  BY <1>1, AtHeadOf
<1>3. CASE Fail(g)
  BY <1>1, <1>3, RestKeeps DEF Fail, Rests, Resting, MemoryInv, MemoryTyped
<1>4. CASE /\ Readable(r, "candidate")
           /\ Move(g, r, "candidate", "quarantined", files[r]["candidate"])
           /\ Advance(g, "quarantine")
           /\ UNCHANGED <<hand, kept, rejected>>
  <2>1. PICK d \in Good : d = files[r]["candidate"] /\ Honest(d, r) /\ At(r, "candidate")
    BY <1>4, FileHonest, StageNames
  <2>2. PICK from \in Stage, to \in Stage : from = "candidate" /\ to = "quarantined"
    BY StageNames
  <2>3. Rests(g, "quarantine") /\ "quarantine" \in Resting
    BY <1>1, <1>4 DEF Rests, Resting
  <2>4. Move(g, r, from, to, d) /\ At(r, from) /\ from # "deprecated" /\ to # "active"
    BY <1>4, <2>1, <2>2
  <2>5. UNCHANGED <<files, origin, length, kept, hand, rejected>>
    BY <1>1, <1>4
  <2>. QED
    BY <1>1, <2>1, <2>3, <2>4, <2>5, MoveKeeps
<1>. QED
  BY <1>2, <1>3, <1>4 DEF Quarantine

LEMMA RejectKeeps ==
  ASSUME MemoryInv, NEW g \in Goals, Reject(g)
  PROVE  MemoryInv'
<1>1. /\ step[g] = "reject" /\ list[g] # <<>> /\ op[g] = NoOp
      /\ UNCHANGED <<files, origin, length>>
  BY DEF Reject, Turn
<1>2. PICK r \in Records : r = Head(list[g]) /\ origin[r] # NoOrigin
  BY <1>1, AtHeadOf
<1>. DEFINE held == Held(r) \ {"deprecated"}
<1>3. CASE Fail(g)
  BY <1>1, <1>3, RestKeeps DEF Fail, Rests, Resting, MemoryInv, MemoryTyped
<1>4. CASE ~Fail(g)
  <2>1. /\ ~(held # {} /\ ~Readable(r, First(held)))
        /\ IF held = {} THEN UNCHANGED <<op, torn>>
           ELSE Move(g, r, First(held), "deprecated", files[r][First(held)])
        /\ rejected' = rejected \cup {r}
        /\ Advance(g, "review")
        /\ UNCHANGED <<hand, kept>>
    BY <1>2, <1>4 DEF Reject
  <2>2. Rests(g, "review") /\ "review" \in Resting
    BY <1>1, <2>1 DEF Rests, Resting
  <2>3. CASE held # {}
    <3>1. PICK from \in Stage : from = First(held) /\ from \in held
      BY <2>3, FirstHeld DEF Held
    <3>2. Readable(r, from) /\ from # "deprecated"
      BY <2>1, <2>3, <3>1
    <3>3. PICK d \in Good : d = files[r][from] /\ Honest(d, r) /\ At(r, from)
      BY <3>2, FileHonest
    <3>4. PICK to \in Stage : to = "deprecated" /\ to # "active"
      BY StageNames
    <3>5. Move(g, r, from, to, d)
      BY <2>1, <2>3, <3>1, <3>3, <3>4
    <3>6. /\ UNCHANGED <<files, origin, length, kept>> /\ hand' = hand
          /\ rejected' = rejected \cup {r} /\ to = "deprecated"
      BY <1>1, <2>1, <3>4
    <3>. HIDE DEF held
    <3>. QED
      BY <1>1, <2>2, <3>2, <3>3, <3>4, <3>5, <3>6, MoveKeeps
  <2>4. CASE held = {}
    <3>1. /\ UNCHANGED <<op, torn, files, origin, length, hand, kept>>
          /\ rejected' = rejected \cup {r}
      BY <1>1, <2>1, <2>4
    <3>2. /\ step' \in [Goals -> Steps] /\ list' \in [Goals -> Seq(Records)]
          /\ \A h \in Goals \ {g} : step'[h] = step[h] /\ list'[h] = list[h]
      BY <2>2, RestLists
    <3>3. Keeps /\ HandHolds(g)'
      BY <2>2, <3>1, RestHolds
    <3>4. MemoryTyped'
      BY <3>1, <3>2 DEF MemoryInv, MemoryTyped
    <3>5. FilesHold'
      BY <1>2, <3>1, <3>3, FilesStay
    <3>6. OpHolds(g)'
      BY <3>1, <3>3, OpStays
    <3>7. \A s \in Stage : At(r, s) => s = "deprecated"
      BY <2>4 DEF Held
    <3>8. Located'
      <4>1. ASSUME NEW q \in Records \ torn
            PROVE  /\ \A x, y \in Goals : Moving(x, q) /\ Moving(y, q) => x = y
                   /\ \A x \in Goals : Moving(x, q) =>
                        /\ op[x].from # "deprecated" /\ At(q, op[x].from)
                        /\ \A s \in Stage :
                             At(q, s) => s = op[x].from \/ (s = op[x].to /\ op[x].next # "open")
                        /\ q \in rejected' => op[x].to = "deprecated"
                   /\ (\A x \in Goals : ~Moving(x, q)) =>
                        /\ \A s, t \in Stage : At(q, s) /\ At(q, t) => s = t
                        /\ \A s \in Stage : q \in rejected' /\ At(q, s) => s = "deprecated"
        <5>1. /\ \A x, y \in Goals : Moving(x, q) /\ Moving(y, q) => x = y
              /\ \A x \in Goals : Moving(x, q) =>
                   /\ op[x].from # "deprecated" /\ At(q, op[x].from)
                   /\ \A s \in Stage :
                        At(q, s) => s = op[x].from \/ (s = op[x].to /\ op[x].next # "open")
                   /\ q \in rejected => op[x].to = "deprecated"
              /\ (\A x \in Goals : ~Moving(x, q)) =>
                   /\ \A s, t \in Stage : At(q, s) /\ At(q, t) => s = t
                   /\ \A s \in Stage : q \in rejected /\ At(q, s) => s = "deprecated"
          BY DEF MemoryInv, Located
        <5>2. \A x \in Goals : Moving(x, q) => op[x].from \in Stage
          BY DataKinds DEF Moving, MemoryInv, OpHolds, OpType
        <5>3. CASE q # r
          BY <3>1, <5>1, <5>3
        <5>4. CASE q = r
          <6>1. \A x \in Goals : ~Moving(x, q)
            BY <3>7, <5>1, <5>2, <5>4
          <6>. QED
            BY <3>7, <5>1, <5>4, <6>1
        <5>. QED
          BY <5>3, <5>4
      <4>. QED
        BY <3>1, <4>1 DEF Located, Moving, At
    <3>. QED
      BY <3>1, <3>2, <3>3, <3>4, <3>5, <3>6, <3>8, StepKeeps
  <2>. QED
    BY <2>3, <2>4
<1>. QED
  BY <1>3, <1>4

LEMMA PromoteKeeps ==
  ASSUME MemoryInv, NEW g \in Goals, NEW at, NEW to \in Stage, NEW next \in Resting,
         <<at, to>> \in {<<"toVerified", "verified">>, <<"toActive", "active">>},
         Promote(g, at, to, next)
  PROVE  MemoryInv'
<1>1. /\ step[g] = at /\ list[g] # <<>> /\ op[g] = NoOp
      /\ UNCHANGED <<files, origin, length>>
  BY DEF Promote, Turn
<1>2. PICK r \in Records : r = Head(list[g]) /\ origin[r] # NoOrigin
  BY <1>1, AtHeadOf
<1>3. hand[g] \in [dir : Stage, data : RecordFile] /\ hand[g].dir \in Stage
  BY DEF MemoryInv, MemoryTyped
<1>4. PICK from \in Stage : from = hand[g].dir
  BY <1>3
<1>5. PICK h \in Good : h = hand[g].data /\ Honest(h, r)
  BY <1>1, <1>2 DEF MemoryInv, HandHolds
<1>6. /\ at = "toActive" => Earned(r)
      /\ r \notin torn => from # "deprecated"
  BY <1>1, <1>2, <1>4 DEF MemoryInv, HandHolds
<1>7. CASE Fail(g)
  BY <1>1, <1>7, RestKeeps DEF Fail, Rests, Resting, MemoryInv, MemoryTyped
<1>8. CASE /\ Advance(g, next) /\ hand' = [hand EXCEPT ![g] = NoHand]
           /\ UNCHANGED <<op, kept, rejected, torn>>
  <2>1. Rests(g, next)
    BY <1>1, <1>8 DEF Rests
  <2>. QED
    BY <1>1, <1>8, <2>1, RestKeeps DEF MemoryInv, MemoryTyped
<1>9. CASE /\ Readable(r, from)
           /\ Move(g, r, from, to, [files[r][from] EXCEPT !.ver = h.ver])
           /\ Advance(g, next) /\ hand' = [hand EXCEPT ![g] = NoHand]
           /\ UNCHANGED <<kept, rejected>>
  <2>1. PICK d \in Good : d = files[r][from] /\ Honest(d, r) /\ At(r, from)
    BY <1>9, FileHonest
  <2>2. PICK data : data = [d EXCEPT !.ver = h.ver]
    OBVIOUS
  <2>3. data \in Good /\ data.ver = h.ver /\ data.goals = d.goals
    BY <2>2 DEF Good
  <2>4. Honest(data, r)
    BY <1>5, <2>1, <2>3 DEF Honest
  <2>5. Rests(g, next)
    BY <1>1, <1>9 DEF Rests
  <2>6. Move(g, r, from, to, data)
    BY <1>9, <2>1, <2>2
  <2>7. r \notin torn' => from # "deprecated"
    BY <1>6, <2>6 DEF Move
  <2>8. to = "active" => Earned(r)
    BY <1>6
  <2>9. UNCHANGED <<files, origin, length, kept>> /\ rejected' = rejected
    BY <1>1, <1>9
  <2>. QED
    BY <1>1, <1>9, <2>1, <2>3, <2>4, <2>5, <2>6, <2>7, <2>8, <2>9, MoveKeeps
<1>. QED
  BY <1>2, <1>4, <1>5, <1>7, <1>8, <1>9 DEF Promote

\* A batch starts, goes on to the next step, or dies.
LEMMA TurnsKeep ==
  ASSUME MemoryInv, NEW g \in Goals, StartRefiner(g) \/ NextStep(g) \/ CrashRefiner(g)
  PROVE  MemoryInv'
<1>1. CASE StartRefiner(g)
  BY <1>1, RestKeeps DEF StartRefiner, Rests, Resting, MemoryInv, MemoryTyped
<1>2. CASE NextStep(g)
  <2>1. PICK next \in Resting : Rests(g, next)
    BY <1>2 DEF NextStep, Rests, Resting
  <2>2. length' \in [Goals -> Nat]
    BY <1>2 DEF NextStep, MemoryInv, MemoryTyped
  <2>3. UNCHANGED <<files, origin, kept, rejected, torn, hand, op>>
    BY <1>2 DEF NextStep
  <2>. QED
    BY <2>1, <2>2, <2>3, RestKeeps DEF MemoryInv, MemoryTyped
<1>3. CASE CrashRefiner(g)
  <2>1. /\ Rests(g, "idle") /\ "idle" \in Resting
        /\ UNCHANGED <<files, origin, length, kept, rejected>>
        /\ hand' = [hand EXCEPT ![g] = NoHand] /\ op' = [op EXCEPT ![g] = NoOp]
        /\ torn' = IF op[g] = NoOp THEN torn ELSE torn \cup {op[g].rec}
    BY <1>3 DEF CrashRefiner, Rests, Resting
  <2>2. op[g] = NoOp \/ op[g].rec \in Records
    BY DEF MemoryInv, MemoryTyped, OpType
  <2>3. /\ torn \subseteq torn' /\ torn' \subseteq Records
        /\ op[g] = NoOp \/ op[g].rec \in torn'
    BY <2>1, <2>2 DEF MemoryInv, MemoryTyped
  <2>4. length' \in [Goals -> Nat]
    BY <2>1 DEF MemoryInv, MemoryTyped
  <2>. QED
    BY <2>1, <2>3, <2>4, RestKeeps
<1>. QED
  BY <1>1, <1>2, <1>3

-----------------------------------------------------------------------------
(* The file operations *)

\* A file is written, or deleted, as what the batch is doing says.
LEMMA FilesWritten ==
  ASSUME MemoryInv, Keeps, NEW r \in Records, NEW s \in Stage, NEW data \in RecordFile,
         files' = [files EXCEPT ![r][s] = data], UNCHANGED <<origin, rejected>>,
         origin[r] # NoOrigin, data = Absent \/ Honest(data, r),
         data # Absent /\ s = "active" => Earned(r)
  PROVE  /\ FilesHold' /\ files' \in [Records -> [Stage -> RecordFile]]
         /\ \A q \in Records, t \in Stage :
              At(q, t)' <=> IF q = r /\ t = s THEN data # Absent ELSE At(q, t)
<1>. USE DEF MemoryInv
<1>1. /\ files' \in [Records -> [Stage -> RecordFile]]
      /\ \A q \in Records, t \in Stage :
           files'[q][t] = IF q = r /\ t = s THEN data ELSE files[q][t]
  BY FileWritten DEF MemoryTyped
<1>2. \A q \in Records, t \in Stage :
        At(q, t)' <=> IF q = r /\ t = s THEN data # Absent ELSE At(q, t)
  BY <1>1 DEF At
<1>3. \A q \in Records : Judged(q)' >= 0
  BY PendingCounts DEF FilesHold, Keeps
<1>4. ASSUME NEW q \in Records, NEW t \in Stage, At(q, t)'
      PROVE  origin'[q] # NoOrigin /\ Honest(files[q][t], q)'
  <2>1. PICK d \in RecordFile : d = files'[q][t]
    BY <1>1
  <2>2. Honest(d, q) /\ origin[q] # NoOrigin
    <3>1. CASE q = r /\ t = s
      BY <1>1, <1>2, <1>4, <2>1, <3>1
    <3>2. CASE ~(q = r /\ t = s)
      BY <1>1, <1>2, <1>4, <2>1, <3>2 DEF FilesHold
    <3>. QED
      BY <3>1, <3>2
  <2>3. Honest(d, q)'
    BY <2>2, KeepsHonest
  <2>. QED
    BY <2>1, <2>2, <2>3
<1>5. ASSUME NEW q \in Records, At(q, "active")' PROVE Earned(q)'
  <2>1. Earned(q) /\ origin[q] # NoOrigin
    <3>1. CASE q = r /\ s = "active"
      BY <1>2, <1>5, <3>1
    <3>2. CASE ~(q = r /\ s = "active")
      <4>1. At(q, "active")
        BY <1>2, <1>5, <3>2, StageNames
      <4>. QED
        BY <4>1, StageNames DEF FilesHold
    <3>. QED
      BY <3>1, <3>2
  <2>. QED
    BY <2>1, KeepsEarned
<1>6. \A q \in rejected' : origin'[q] # NoOrigin
  BY DEF FilesHold
<1>7. \A q \in Records, t \in Stage :
        (At(q, t) => origin[q] # NoOrigin /\ Honest(files[q][t], q))'
  BY <1>4
<1>. QED
  BY <1>1, <1>2, <1>3, <1>5, <1>6, <1>7 DEF FilesHold

LEMMA OpInProgress ==
  ASSUME MemoryInv, NEW g \in Goals, op[g].next # "none"
  PROVE  /\ op[g] \in OpType /\ op[g] # NoOp /\ OpHolds(g)
         /\ op[g].rec \in Records /\ op[g].from \in Stage /\ op[g].to \in Stage
         /\ op[g].data \in Good /\ op[g].moves \in BOOLEAN
         /\ origin[op[g].rec] # NoOrigin /\ Honest(op[g].data, op[g].rec)
         /\ op[g].to = "active" => Earned(op[g].rec)
<1>1. op[g] # NoOp /\ op[g] \in OpType /\ OpHolds(g)
  BY DEF MemoryInv, MemoryTyped, NoOp
<1>. QED
  BY <1>1 DEF OpHolds, OpType

\* What is known of a record that is not torn.
LEMMA LocatedAt ==
  ASSUME MemoryInv, NEW q \in Records \ torn
  PROVE  /\ \A x, y \in Goals : Moving(x, q) /\ Moving(y, q) => x = y
         /\ \A x \in Goals : Moving(x, q) =>
              /\ op[x].from # "deprecated" /\ At(q, op[x].from)
              /\ \A s \in Stage :
                   At(q, s) => s = op[x].from \/ (s = op[x].to /\ op[x].next # "open")
              /\ q \in rejected => op[x].to = "deprecated"
         /\ (\A x \in Goals : ~Moving(x, q)) =>
              /\ \A s, t \in Stage : At(q, s) /\ At(q, t) => s = t
              /\ \A s \in Stage : q \in rejected /\ At(q, s) => s = "deprecated"
BY DEF MemoryInv, Located

LEMMA OpenFileKeeps ==
  ASSUME MemoryInv, NEW g \in Goals, OpenFile(g)
  PROVE  MemoryInv'
<1>1. PICK o \in OpType : /\ o = op[g] /\ o.next = "open" /\ o # NoOp
                          /\ o.rec \in Records /\ o.from \in Stage /\ o.to \in Stage
                          /\ o.data \in Good /\ o.moves \in BOOLEAN
                          /\ origin[o.rec] # NoOrigin /\ Honest(o.data, o.rec)
                          /\ o.to = "active" => Earned(o.rec)
  BY OpInProgress DEF OpenFile
<1>2. /\ files' = [files EXCEPT ![o.rec][o.to] = Broken]
      /\ op' = [op EXCEPT ![g].next = "write"]
      /\ torn' = IF ~o.moves /\ ~At(o.rec, o.to) THEN torn \cup {o.rec} ELSE torn
      /\ UNCHANGED <<origin, length, step, list, hand, kept, rejected>>
  BY <1>1 DEF OpenFile
<1>3. torn \subseteq torn' /\ torn' \subseteq Records
  BY <1>1, <1>2 DEF MemoryInv, MemoryTyped
<1>4. Keeps /\ HandHolds(g)'
  BY <1>2, <1>3, StillKeeps
<1>5. Honest(Broken, o.rec)
  <2>1. Judged(o.rec) \in Int /\ Judged(o.rec) >= 0
    BY <1>1, PendingCounts DEF MemoryInv, FilesHold
  <2>2. Broken.ver = -2 /\ Broken.goals = {}
    BY DEF Broken
  <2>. QED
    BY <2>1, <2>2 DEF Honest
<1>6. /\ FilesHold' /\ files' \in [Records -> [Stage -> RecordFile]]
      /\ \A q \in Records, t \in Stage :
           At(q, t)' <=> ((q = o.rec /\ t = o.to) \/ At(q, t))
  <2>1. Broken \in RecordFile /\ Broken # Absent
    BY DataKinds
  <2>2. PICK r \in Records, s \in Stage : r = o.rec /\ s = o.to
    BY <1>1
  <2>3. files' = [files EXCEPT ![r][s] = Broken]
    BY <1>2, <2>2
  <2>4. /\ Honest(Broken, r) /\ origin[r] # NoOrigin /\ (s = "active" => Earned(r))
        /\ UNCHANGED <<origin, rejected>>
    BY <1>1, <1>2, <1>5, <2>2
  <2>5. /\ FilesHold' /\ files' \in [Records -> [Stage -> RecordFile]]
        /\ \A q \in Records, t \in Stage :
             At(q, t)' <=> IF q = r /\ t = s THEN Broken # Absent ELSE At(q, t)
    BY <1>4, <2>1, <2>3, <2>4, FilesWritten
  <2>. QED
    BY <2>1, <2>2, <2>5
<1>7. PICK p \in OpType : p = [o EXCEPT !.next = "write"]
  BY DEF OpType
<1>8. /\ p.rec = o.rec /\ p.from = o.from /\ p.to = o.to /\ p.data = o.data
      /\ p.moves = o.moves /\ p.next = "write"
  BY <1>7 DEF OpType
<1>9. /\ op' \in [Goals -> OpType \cup {NoOp}] /\ op'[g] = p
      /\ \A h \in Goals \ {g} : op'[h] = op[h]
  BY <1>1, <1>2, <1>7 DEF MemoryInv, MemoryTyped
<1>10. MemoryTyped'
  BY <1>2, <1>3, <1>6, <1>9 DEF MemoryInv, MemoryTyped
<1>11. OpHolds(g)'
  <2>1. Honest(p.data, p.rec)'
    BY <1>1, <1>4, <1>8, KeepsHonest DEF MemoryInv, RecordFile
  <2>2. p.to = "active" => Earned(p.rec)'
    BY <1>1, <1>4, <1>8, KeepsEarned DEF MemoryInv
  <2>3. origin'[p.rec] # NoOrigin
    BY <1>1, <1>2, <1>8
  <2>. QED
    BY <1>8, <1>9, <2>1, <2>2, <2>3 DEF OpHolds
<1>12. Located'
  <2>1. \A h \in Goals, q \in Records : Moving(h, q)' <=> Moving(h, q)
    BY <1>1, <1>8, <1>9 DEF Moving
  <2>2. \A h \in Goals : /\ op'[h].from = op[h].from /\ op'[h].to = op[h].to
                         /\ op'[h].next # "open" \/ (op'[h] = op[h] /\ h # g)
    BY <1>1, <1>8, <1>9
  <2>3. ASSUME NEW q \in Records \ torn'
        PROVE  /\ \A x, y \in Goals : Moving(x, q) /\ Moving(y, q) => x = y
               /\ \A x \in Goals : Moving(x, q) =>
                    /\ op'[x].from # "deprecated" /\ At(q, op[x].from)'
                    /\ \A s \in Stage :
                         At(q, s)' => s = op'[x].from \/ (s = op'[x].to /\ op'[x].next # "open")
                    /\ q \in rejected' => op'[x].to = "deprecated"
               /\ (\A x \in Goals : ~Moving(x, q)) =>
                    /\ \A s, t \in Stage : At(q, s)' /\ At(q, t)' => s = t
                    /\ \A s \in Stage : q \in rejected' /\ At(q, s)' => s = "deprecated"
    <3>1. /\ \A x, y \in Goals : Moving(x, q) /\ Moving(y, q) => x = y
          /\ \A x \in Goals : Moving(x, q) =>
               /\ op[x].from # "deprecated" /\ At(q, op[x].from)
               /\ \A s \in Stage :
                    At(q, s) => s = op[x].from \/ (s = op[x].to /\ op[x].next # "open")
               /\ q \in rejected => op[x].to = "deprecated"
          /\ (\A x \in Goals : ~Moving(x, q)) =>
               /\ \A s, t \in Stage : At(q, s) /\ At(q, t) => s = t
               /\ \A s \in Stage : q \in rejected /\ At(q, s) => s = "deprecated"
      BY <1>3, LocatedAt
    <3>2. \A x \in Goals : Moving(x, q) => op[x].from \in Stage
      BY DataKinds DEF Moving, MemoryInv, OpHolds, OpType
    <3>3. CASE q = o.rec /\ o.moves
      <4>1. Moving(g, q)
        BY <1>1, <3>3 DEF Moving
      <4>2. \A x \in Goals : Moving(x, q) => x = g
        BY <3>1, <4>1
      <4>3. \A s \in Stage : At(q, s)' <=> (s = o.to \/ At(q, s))
        BY <1>6, <3>3
      <4>4. op'[g].from = op[g].from /\ op'[g].to = op[g].to /\ op'[g].next # "open" /\ o.to = op[g].to
        BY <1>1, <1>8, <1>9
      <4>5. At(q, op[g].from)'
        <5>1. PICK from \in Stage : from = op[g].from /\ At(q, from)
          BY <3>1, <3>2, <4>1
        <5>2. At(q, from)'
          BY <4>3, <5>1
        <5>. QED
          BY <4>4, <5>1, <5>2
      <4>6. op'[g].from # "deprecated" /\ (q \in rejected' => op'[g].to = "deprecated")
        BY <1>2, <3>1, <4>1, <4>4
      <4>7. \A s \in Stage : At(q, s)' => s = op'[g].from \/ s = op'[g].to
        BY <3>1, <4>1, <4>3, <4>4
      <4>. HIDE DEF At, Moving
      <4>. QED
        BY <4>1, <4>2, <4>4, <4>5, <4>6, <4>7
    <3>4. CASE ~(q = o.rec /\ o.moves)
      <4>1. \A s \in Stage : At(q, s)' <=> At(q, s)
        BY <1>1, <1>2, <1>6, <3>4
      <4>2. ~Moving(g, q)
        BY <1>1, <3>4 DEF Moving
      <4>. HIDE DEF At, Moving
      <4>3. ASSUME NEW x \in Goals, Moving(x, q)
            PROVE  /\ op'[x] = op[x] /\ At(q, op[x].from)'
        <5>1. PICK from \in Stage : from = op[x].from /\ At(q, from)
          BY <3>1, <3>2, <4>3
        <5>2. At(q, from)'
          BY <4>1, <5>1
        <5>3. op'[x] = op[x]
          BY <1>9, <4>2, <4>3
        <5>. QED
          BY <5>1, <5>2, <5>3
      <4>4. rejected' = rejected
        BY <1>2
      <4>. QED
        BY <3>1, <4>1, <4>3, <4>4
    <3>. QED
      BY <3>3, <3>4
  <2>. HIDE DEF At, Moving
  <2>4. torn \subseteq torn'
    BY <1>3
  <2>. QED
    BY <2>1, <2>3, <2>4 DEF Located
<1>. QED
  BY <1>2, <1>4, <1>6, <1>9, <1>10, <1>11, <1>12, StepKeeps

LEMMA WriteFileKeeps ==
  ASSUME MemoryInv, NEW g \in Goals, WriteFile(g)
  PROVE  MemoryInv'
<1>1. PICK o \in OpType : /\ o = op[g] /\ o.next = "write" /\ o # NoOp
                          /\ o.rec \in Records /\ o.from \in Stage /\ o.to \in Stage
                          /\ o.data \in Good /\ o.moves \in BOOLEAN
                          /\ origin[o.rec] # NoOrigin /\ Honest(o.data, o.rec)
                          /\ o.to = "active" => Earned(o.rec)
  BY OpInProgress DEF WriteFile
<1>2. /\ files' = [files EXCEPT ![o.rec][o.to] = IF @ = Absent THEN @ ELSE o.data]
      /\ op' = [op EXCEPT ![g] = IF o.moves THEN [o EXCEPT !.next = "delete"] ELSE NoOp]
      /\ UNCHANGED <<origin, length, step, list, hand, kept, rejected, torn>>
  BY <1>1 DEF WriteFile
<1>3. Keeps /\ HandHolds(g)'
  BY <1>2, StillKeeps
<1>4. /\ FilesHold' /\ files' \in [Records -> [Stage -> RecordFile]]
      /\ \A q \in Records, t \in Stage : At(q, t)' <=> At(q, t)
  <2>1. PICK r \in Records, s \in Stage : r = o.rec /\ s = o.to
    BY <1>1
  <2>2. PICK data \in RecordFile : data = IF files[r][s] = Absent THEN Absent ELSE o.data
    BY <1>1, DataKinds DEF RecordFile
  <2>3. files' = [files EXCEPT ![r][s] = data]
    BY <1>2, <2>1, <2>2 DEF MemoryInv, MemoryTyped
  <2>4. /\ data = Absent \/ Honest(data, r)
        /\ origin[r] # NoOrigin /\ (data # Absent /\ s = "active" => Earned(r))
        /\ UNCHANGED <<origin, rejected>>
    BY <1>1, <1>2, <2>1, <2>2
  <2>5. /\ FilesHold' /\ files' \in [Records -> [Stage -> RecordFile]]
        /\ \A q \in Records, t \in Stage :
             At(q, t)' <=> IF q = r /\ t = s THEN data # Absent ELSE At(q, t)
    BY <1>3, <2>3, <2>4, FilesWritten
  <2>6. data # Absent <=> At(r, s)
    BY <1>1, <2>2, DataKinds DEF At
  <2>. QED
    BY <2>5, <2>6
<1>5. PICK p \in OpType \cup {NoOp} :
        /\ p = IF o.moves THEN [o EXCEPT !.next = "delete"] ELSE NoOp
        /\ o.moves => p \in OpType
  <2>1. [o EXCEPT !.next = "delete"] \in OpType
    BY DEF OpType
  <2>2. PICK p : p = IF o.moves THEN [o EXCEPT !.next = "delete"] ELSE NoOp
    OBVIOUS
  <2>3. p \in OpType \cup {NoOp} /\ (o.moves => p \in OpType)
    BY <2>1, <2>2
  <2>. QED
    BY <2>2, <2>3
<1>6. o.moves => /\ p.rec = o.rec /\ p.from = o.from /\ p.to = o.to /\ p.data = o.data
                 /\ p.moves = TRUE /\ p.next = "delete"
  BY <1>1, <1>5 DEF OpType
<1>7. /\ op' \in [Goals -> OpType \cup {NoOp}] /\ op'[g] = p
      /\ \A h \in Goals \ {g} : op'[h] = op[h]
  BY <1>2, <1>5 DEF MemoryInv, MemoryTyped
<1>8. MemoryTyped'
  BY <1>2, <1>4, <1>7 DEF MemoryInv, MemoryTyped
<1>9. OpHolds(g)'
  <2>1. CASE ~o.moves
    BY <1>5, <1>7, <2>1 DEF OpHolds
  <2>2. CASE o.moves
    <3>1. Honest(p.data, p.rec)'
      BY <1>1, <1>3, <1>6, <2>2, KeepsHonest DEF MemoryInv, RecordFile
    <3>2. p.to = "active" => Earned(p.rec)'
      BY <1>1, <1>3, <1>6, <2>2, KeepsEarned DEF MemoryInv
    <3>3. origin'[p.rec] # NoOrigin
      BY <1>1, <1>2, <1>6, <2>2
    <3>. QED
      BY <1>5, <1>6, <1>7, <2>2, <3>1, <3>2, <3>3 DEF OpHolds
  <2>. QED
    BY <2>1, <2>2
<1>10. Located'
  <2>1. \A h \in Goals, q \in Records : Moving(h, q)' <=> Moving(h, q)
    <3>1. ASSUME NEW q \in Records PROVE Moving(g, q)' <=> Moving(g, q)
      <4>1. CASE o.moves
        BY <1>1, <1>6, <1>7, <4>1 DEF Moving
      <4>2. CASE ~o.moves
        BY <1>1, <1>5, <1>7, <4>2, DataKinds DEF Moving
      <4>. QED
        BY <4>1, <4>2
    <3>. QED
      BY <1>7, <3>1 DEF Moving
  <2>2. \A h \in Goals, q \in Records : Moving(h, q) =>
          /\ op'[h].from = op[h].from /\ op'[h].to = op[h].to
          /\ op'[h].next # "open" <=> op[h].next # "open"
    BY <1>1, <1>6, <1>7 DEF Moving
  <2>3. \A h \in Goals, q \in Records : Moving(h, q) => op[h].from \in Stage
    BY DataKinds DEF Moving, MemoryInv, OpHolds, OpType
  <2>4. ASSUME NEW q \in Records \ torn
        PROVE  /\ \A x, y \in Goals : Moving(x, q) /\ Moving(y, q) => x = y
               /\ \A x \in Goals : Moving(x, q) =>
                    /\ op[x].from # "deprecated" /\ At(q, op[x].from)
                    /\ \A s \in Stage :
                         At(q, s) => s = op[x].from \/ (s = op[x].to /\ op[x].next # "open")
                    /\ q \in rejected => op[x].to = "deprecated"
               /\ (\A x \in Goals : ~Moving(x, q)) =>
                    /\ \A s, t \in Stage : At(q, s) /\ At(q, t) => s = t
                    /\ \A s \in Stage : q \in rejected /\ At(q, s) => s = "deprecated"
    BY LocatedAt
  <2>5. torn' = torn /\ rejected' = rejected
    BY <1>2
  <2>6. ASSUME NEW q \in Records \ torn, NEW x \in Goals, Moving(x, q)
        PROVE  At(q, op[x].from)'
    <3>1. PICK from \in Stage : from = op[x].from /\ At(q, from)
      BY <2>3, <2>4, <2>6
    <3>2. At(q, from)' /\ from = op'[x].from
      BY <1>4, <2>2, <2>6, <3>1
    <3>. QED
      BY <3>2
  <2>. HIDE DEF At, Moving
  <2>. QED
    BY <1>4, <2>1, <2>2, <2>4, <2>5, <2>6 DEF Located
<1>. QED
  BY <1>2, <1>3, <1>4, <1>7, <1>8, <1>9, <1>10, StepKeeps

LEMMA DeleteMovedKeeps ==
  ASSUME MemoryInv, NEW g \in Goals, DeleteMoved(g)
  PROVE  MemoryInv'
<1>1. PICK o \in OpType : /\ o = op[g] /\ o.next = "delete" /\ o # NoOp
                          /\ o.rec \in Records /\ o.from \in Stage /\ o.to \in Stage
                          /\ origin[o.rec] # NoOrigin
  BY OpInProgress DEF DeleteMoved
<1>2. /\ files' = [files EXCEPT ![o.rec][o.from] = Absent]
      /\ op' = [op EXCEPT ![g] = NoOp]
      /\ UNCHANGED <<origin, length, step, list, hand, kept, rejected, torn>>
  BY <1>1 DEF DeleteMoved
<1>3. Keeps /\ HandHolds(g)'
  BY <1>2, StillKeeps
<1>4. /\ FilesHold' /\ files' \in [Records -> [Stage -> RecordFile]]
      /\ \A q \in Records, t \in Stage :
           At(q, t)' <=> (At(q, t) /\ ~(q = o.rec /\ t = o.from))
  <2>1. PICK r \in Records, s \in Stage : r = o.rec /\ s = o.from
    BY <1>1
  <2>2. /\ files' = [files EXCEPT ![r][s] = Absent] /\ Absent \in RecordFile
        /\ origin[r] # NoOrigin /\ UNCHANGED <<origin, rejected>>
    BY <1>1, <1>2, <2>1, DataKinds
  <2>3. /\ FilesHold' /\ files' \in [Records -> [Stage -> RecordFile]]
        /\ \A q \in Records, t \in Stage :
             At(q, t)' <=> IF q = r /\ t = s THEN Absent # Absent ELSE At(q, t)
    BY <1>3, <2>2, FilesWritten
  <2>. QED
    BY <2>1, <2>3
<1>5. /\ op' \in [Goals -> OpType \cup {NoOp}] /\ op'[g] = NoOp
      /\ \A h \in Goals \ {g} : op'[h] = op[h]
  BY <1>2 DEF MemoryInv, MemoryTyped
<1>6. MemoryTyped'
  BY <1>2, <1>4, <1>5 DEF MemoryInv, MemoryTyped
<1>7. OpHolds(g)'
  BY <1>5 DEF OpHolds
<1>8. Located'
  <2>1. /\ \A h \in Goals \ {g}, q \in Records : Moving(h, q)' <=> Moving(h, q)
        /\ \A q \in Records : ~Moving(g, q)'
    BY <1>5, DataKinds DEF Moving
  <2>2. Moving(g, o.rec) /\ \A q \in Records : Moving(g, q) => q = o.rec
    BY <1>1 DEF Moving, MemoryInv, OpHolds
  <2>3. \A h \in Goals, q \in Records : Moving(h, q) => op[h].from \in Stage
    BY DataKinds DEF Moving, MemoryInv, OpHolds, OpType
  <2>4. torn' = torn /\ rejected' = rejected
    BY <1>2
  <2>5. ASSUME NEW q \in Records \ torn
        PROVE  /\ \A x, y \in Goals : Moving(x, q)' /\ Moving(y, q)' => x = y
               /\ \A x \in Goals : Moving(x, q)' =>
                    /\ op[x].from # "deprecated" /\ At(q, op[x].from)'
                    /\ \A s \in Stage :
                         At(q, s)' => s = op[x].from \/ (s = op[x].to /\ op[x].next # "open")
                    /\ q \in rejected => op[x].to = "deprecated"
                    /\ op'[x] = op[x]
               /\ (\A x \in Goals : ~Moving(x, q)') =>
                    /\ \A s, t \in Stage : At(q, s)' /\ At(q, t)' => s = t
                    /\ \A s \in Stage : q \in rejected /\ At(q, s)' => s = "deprecated"
    <3>1. /\ \A x, y \in Goals : Moving(x, q) /\ Moving(y, q) => x = y
          /\ \A x \in Goals : Moving(x, q) =>
               /\ op[x].from # "deprecated" /\ At(q, op[x].from)
               /\ \A s \in Stage :
                    At(q, s) => s = op[x].from \/ (s = op[x].to /\ op[x].next # "open")
               /\ q \in rejected => op[x].to = "deprecated"
          /\ (\A x \in Goals : ~Moving(x, q)) =>
               /\ \A s, t \in Stage : At(q, s) /\ At(q, t) => s = t
               /\ \A s \in Stage : q \in rejected /\ At(q, s) => s = "deprecated"
      BY LocatedAt
    <3>2. CASE q = o.rec
      <4>1. \A x \in Goals : ~Moving(x, q)'
        BY <2>1, <2>2, <3>1, <3>2
      <4>2. \A s \in Stage : At(q, s)' => s = o.to
        BY <1>1, <1>4, <2>2, <3>1, <3>2
      <4>3. q \in rejected => o.to = "deprecated"
        BY <1>1, <2>2, <3>1, <3>2
      <4>. HIDE DEF At, Moving
      <4>. QED
        BY <4>1, <4>2, <4>3
    <3>3. CASE q # o.rec
      <4>1. \A s \in Stage : At(q, s)' <=> At(q, s)
        BY <1>4, <3>3
      <4>2. \A x \in Goals : (Moving(x, q)' <=> Moving(x, q)) /\ (Moving(x, q) => x # g)
        BY <2>1, <2>2, <3>3
      <4>3. ASSUME NEW x \in Goals, Moving(x, q)
            PROVE  op'[x] = op[x] /\ At(q, op[x].from)'
        <5>1. PICK from \in Stage : from = op[x].from /\ At(q, from)
          BY <2>3, <3>1, <4>3
        <5>2. At(q, from)' /\ op'[x] = op[x]
          BY <1>5, <4>1, <4>2, <4>3, <5>1
        <5>. QED
          BY <5>1, <5>2
      <4>. HIDE DEF At, Moving
      <4>. QED
        BY <3>1, <4>1, <4>2, <4>3
    <3>. QED
      BY <3>2, <3>3
  <2>. HIDE DEF At, Moving
  <2>. QED
    BY <2>4, <2>5 DEF Located
<1>. QED
  BY <1>2, <1>3, <1>4, <1>5, <1>6, <1>7, <1>8, StepKeeps

\* A new record: the name of its file is that of no other, so that no batch
\* has anything to do with it yet.
LEMMA NewRecordKeeps ==
  ASSUME MemoryInv, NEW g \in Goals, FlushCandidate(g)
  PROVE  MemoryInv'
<1>1. /\ step[g] = "flush" /\ op[g] = NoOp
      /\ step' = [step EXCEPT ![g] = "flushed"]
      /\ UNCHANGED <<length, list, hand, kept, rejected, torn>>
  BY DEF FlushCandidate
<1>2. PICK r \in Records, sure \in BOOLEAN :
        /\ origin[r] = NoOrigin
        /\ origin' = [origin EXCEPT ![r] = [goal |-> g, length |-> length[g]]]
        /\ files' = [files EXCEPT ![r]["candidate"] = Broken]
        /\ op' = [op EXCEPT ![g] = [rec |-> r, from |-> "candidate", to |-> "candidate",
                                    data |-> [ver |-> 0, goals |-> {}, sure |-> sure],
                                    moves |-> FALSE, next |-> "write"]]
  BY DEF FlushCandidate
<1>3. PICK s \in Stage : s = "candidate" /\ s # "active"
  BY StageNames
<1>4. PICK d \in Good : d = [ver |-> 0, goals |-> {}, sure |-> sure] /\ d.ver = 0 /\ d.goals = {}
  <2>1. PICK d : d = [ver |-> 0, goals |-> {}, sure |-> sure]
    OBVIOUS
  <2>2. d \in Good /\ d.ver = 0 /\ d.goals = {}
    BY <2>1 DEF Good
  <2>. QED
    BY <2>1, <2>2
<1>5. PICK o \in OpType : /\ o = [rec |-> r, from |-> s, to |-> s, data |-> d,
                                  moves |-> FALSE, next |-> "write"]
                          /\ o.rec = r /\ o.to = s /\ o.data = d /\ o.moves = FALSE
                          /\ o.next = "write"
  <2>1. PICK o : o = [rec |-> r, from |-> s, to |-> s, data |-> d,
                      moves |-> FALSE, next |-> "write"]
    OBVIOUS
  <2>2. /\ o \in OpType /\ o.rec = r /\ o.to = s /\ o.data = d /\ o.moves = FALSE
        /\ o.next = "write"
    BY <2>1 DEF OpType
  <2>. QED
    BY <2>1, <2>2
<1>6. PICK b : b = [goal |-> g, length |-> length[g]]
  OBVIOUS
<1>7. b \in [goal : Goals, length : Nat] /\ b # NoOrigin
  BY <1>6, LifecycleAssumption DEF NoOrigin, MemoryInv, MemoryTyped
<1>8. /\ origin' \in [Records -> [goal : Goals, length : Nat] \cup {NoOrigin}]
      /\ origin'[r] = b /\ \A q \in Records \ {r} : origin'[q] = origin[q]
  BY <1>2, <1>6, <1>7 DEF MemoryInv, MemoryTyped
<1>9. /\ op' \in [Goals -> OpType \cup {NoOp}] /\ op'[g] = o
      /\ \A h \in Goals \ {g} : op'[h] = op[h]
  BY <1>2, <1>3, <1>4, <1>5 DEF MemoryInv, MemoryTyped
<1>10. /\ files' \in [Records -> [Stage -> RecordFile]]
       /\ \A q \in Records, t \in Stage :
            files'[q][t] = IF q = r /\ t = s THEN Broken ELSE files[q][t]
  <2>1. files' = [files EXCEPT ![r][s] = Broken] /\ Broken \in RecordFile
    BY <1>2, <1>3, DataKinds
  <2>. QED
    BY <2>1, FileWritten DEF MemoryInv, MemoryTyped
<1>11. /\ step' \in [Goals -> Steps] /\ step'[g] = "flushed"
       /\ \A h \in Goals \ {g} : step'[h] = step[h]
  BY <1>1 DEF Steps, MemoryInv, MemoryTyped
<1>12. MemoryTyped'
  BY <1>1, <1>8, <1>9, <1>10, <1>11 DEF MemoryInv, MemoryTyped
<1>13. \A q \in Records : /\ Judged(q)' \in Int /\ Judged(q)' >= Judged(q) /\ Judged(q) \in Int
                          /\ Len(kept[q]) \in Nat
  BY <1>1, <1>11, JudgedLeaves, PendingCounts DEF MemoryInv
<1>14. Keeps
  BY <1>1, <1>2, <1>8, <1>13 DEF Keeps
<1>15. HandHolds(g)'
  <2>1. /\ list[g] \in Seq(Records)
        /\ \A i \in 1..Len(list[g]) : origin[list[g][i]] # NoOrigin
    BY DEF MemoryInv, MemoryTyped, HandHolds
  <2>2. \A i \in 1..Len(list[g]) : list[g][i] \in Records
    BY <2>1
  <2>3. \A i \in 1..Len(list'[g]) : origin'[list'[g][i]] # NoOrigin
    BY <1>1, <1>14, <2>1, <2>2 DEF Keeps
  <2>. QED
    BY <1>11, <2>3 DEF HandHolds, AtHead
<1>16. Judged(r) >= 0 /\ Judged(r)' >= 0
  BY <1>13 DEF MemoryInv, FilesHold
<1>17. OpHolds(g)'
  <2>1. Honest(d, r)'
    BY <1>4, <1>13, <1>16 DEF Honest
  <2>. QED
    BY <1>3, <1>5, <1>7, <1>8, <1>9, <2>1 DEF OpHolds
<1>18. \A t \in Stage : ~At(r, t)
  BY <1>2 DEF MemoryInv, FilesHold
<1>19. \A q \in Records, t \in Stage : At(q, t)' <=> (At(q, t) \/ (q = r /\ t = s))
  BY <1>10, DataKinds DEF At
<1>20. FilesHold'
  <2>1. \A q \in Records : Judged(q)' >= 0
    BY <1>13 DEF MemoryInv, FilesHold
  <2>2. ASSUME NEW q \in Records, NEW t \in Stage, At(q, t)'
        PROVE  origin'[q] # NoOrigin /\ Honest(files[q][t], q)'
    <3>1. CASE q = r /\ t = s
      <4>1. files'[q][t] = Broken
        BY <1>10, <3>1
      <4>2. Honest(Broken, r)'
        <5>1. Broken.ver = -2 /\ Broken.goals = {}
          BY DEF Broken
        <5>. QED
          BY <1>13, <1>16, <5>1 DEF Honest
      <4>. QED
        BY <1>7, <1>8, <3>1, <4>1, <4>2
    <3>2. CASE ~(q = r /\ t = s)
      <4>1. PICK f \in RecordFile : f = files[q][t] /\ f = files'[q][t]
        BY <1>10, <3>2
      <4>2. At(q, t)
        BY <1>19, <2>2, <3>2
      <4>3. origin[q] # NoOrigin /\ Honest(f, q)
        BY <4>1, <4>2 DEF MemoryInv, FilesHold
      <4>4. Honest(f, q)' /\ origin'[q] # NoOrigin
        BY <1>14, <4>3, KeepsHonest DEF MemoryInv, Keeps
      <4>. QED
        BY <4>1, <4>4
    <3>. QED
      BY <3>1, <3>2
  <2>3. ASSUME NEW q \in Records, At(q, "active")' PROVE Earned(q)'
    <3>1. At(q, "active")
      BY <1>3, <1>19, <2>3, StageNames
    <3>2. Earned(q) /\ origin[q] # NoOrigin
      BY <3>1, StageNames DEF MemoryInv, FilesHold
    <3>. QED
      BY <1>14, <3>2, KeepsEarned DEF MemoryInv
  <2>4. \A q \in rejected' : origin'[q] # NoOrigin
    BY <1>1, <1>14 DEF MemoryInv, MemoryTyped, FilesHold, Keeps
  <2>5. \A q \in Records, t \in Stage :
          (At(q, t) => origin[q] # NoOrigin /\ Honest(files[q][t], q))'
    BY <2>2
  <2>. QED
    BY <2>1, <2>3, <2>4, <2>5 DEF FilesHold
<1>21. Located'
  <2>1. \A h \in Goals, q \in Records : Moving(h, q)' <=> Moving(h, q)
    BY <1>1, <1>5, <1>9, DataKinds DEF Moving
  <2>2. \A h \in Goals, q \in Records : Moving(h, q) => /\ op'[h] = op[h] /\ op[h].from \in Stage
                                                        /\ q # r
    BY <1>1, <1>2, <1>9, DataKinds DEF Moving, MemoryInv, OpHolds, OpType
  <2>3. torn' = torn /\ rejected' = rejected /\ r \notin rejected
    BY <1>1, <1>2 DEF MemoryInv, FilesHold
  <2>4. ASSUME NEW q \in Records \ torn
        PROVE  /\ \A x, y \in Goals : Moving(x, q)' /\ Moving(y, q)' => x = y
               /\ \A x \in Goals : Moving(x, q)' =>
                    /\ op[x].from # "deprecated" /\ At(q, op[x].from)'
                    /\ \A t \in Stage :
                         At(q, t)' => t = op[x].from \/ (t = op[x].to /\ op[x].next # "open")
                    /\ q \in rejected => op[x].to = "deprecated"
                    /\ op'[x] = op[x]
               /\ (\A x \in Goals : ~Moving(x, q)') =>
                    /\ \A t, u \in Stage : At(q, t)' /\ At(q, u)' => t = u
                    /\ \A t \in Stage : q \in rejected /\ At(q, t)' => t = "deprecated"
    <3>1. /\ \A x, y \in Goals : Moving(x, q) /\ Moving(y, q) => x = y
          /\ \A x \in Goals : Moving(x, q) =>
               /\ op[x].from # "deprecated" /\ At(q, op[x].from)
               /\ \A t \in Stage :
                    At(q, t) => t = op[x].from \/ (t = op[x].to /\ op[x].next # "open")
               /\ q \in rejected => op[x].to = "deprecated"
          /\ (\A x \in Goals : ~Moving(x, q)) =>
               /\ \A t, u \in Stage : At(q, t) /\ At(q, u) => t = u
               /\ \A t \in Stage : q \in rejected /\ At(q, t) => t = "deprecated"
      BY LocatedAt
    <3>2. CASE q = r
      <4>1. \A x \in Goals : ~Moving(x, q)'
        BY <2>1, <2>2, <3>2
      <4>2. \A t \in Stage : At(q, t)' => t = s
        BY <1>18, <1>19, <3>2
      <4>. HIDE DEF At, Moving
      <4>. QED
        BY <2>3, <3>2, <4>1, <4>2
    <3>3. CASE q # r
      <4>1. \A t \in Stage : At(q, t)' <=> At(q, t)
        BY <1>19, <3>3
      <4>2. ASSUME NEW x \in Goals, Moving(x, q)
            PROVE  op'[x] = op[x] /\ At(q, op[x].from)'
        <5>1. PICK from \in Stage : from = op[x].from /\ At(q, from)
          BY <2>2, <3>1, <4>2
        <5>2. At(q, from)' /\ op'[x] = op[x]
          BY <2>2, <4>1, <4>2, <5>1
        <5>. QED
          BY <5>1, <5>2
      <4>. HIDE DEF At, Moving
      <4>. QED
        BY <2>1, <3>1, <4>1, <4>2
    <3>. QED
      BY <3>2, <3>3
  <2>. HIDE DEF At, Moving
  <2>. QED
    BY <2>3, <2>4 DEF Located
<1>22. \A h \in Goals \ {g} : list'[h] = list[h] /\ hand'[h] = hand[h]
  BY <1>1
<1>. QED
  BY <1>9, <1>11, <1>12, <1>14, <1>15, <1>17, <1>20, <1>21, <1>22, StepKeeps

-----------------------------------------------------------------------------
LEMMA MemoryInvInit == LifecycleInit => MemoryInv
<1>. SUFFICES ASSUME LifecycleInit PROVE MemoryInv
  OBVIOUS
<1>1. /\ step = [g \in Goals |-> "idle"] /\ list = [g \in Goals |-> <<>>]
      /\ op = [g \in Goals |-> NoOp] /\ hand = [g \in Goals |-> NoHand]
      /\ files = [r \in Records |-> [s \in Stage |-> Absent]]
      /\ origin = [r \in Records |-> NoOrigin]
      /\ length = [g \in Goals |-> 0] /\ kept = [r \in Records |-> <<>>]
      /\ rejected = {} /\ torn = {}
  BY DEF LifecycleInit
<1>2. MemoryTyped
  <2>1. /\ Absent \in RecordFile /\ NoHand \in [dir : Stage, data : RecordFile]
        /\ "idle" \in Steps /\ <<>> \in Seq(Records) /\ <<>> \in Seq(Goals)
    BY DataKinds DEF Steps
  <2>. QED
    BY <1>1, <2>1 DEF MemoryTyped
<1>3. \A r \in Records : Judged(r) = 0
  <2>1. \A r \in Records : Pending(r) = {}
    BY <1>1 DEF Pending
  <2>2. Cardinality({}) = 0
    BY FS_EmptySet
  <2>3. \A r \in Records : kept[r] = <<>> /\ Len(kept[r]) = 0
    BY <1>1
  <2>. SUFFICES ASSUME NEW r \in Records PROVE Judged(r) = 0
    OBVIOUS
  <2>4. Pending(r) = {} /\ Len(kept[r]) = 0
    BY <2>1, <2>3
  <2>5. Judged(r) = 0 - 0
    BY <2>2, <2>4 DEF Judged
  <2>. QED
    BY <2>5
<1>4. \A r \in Records, s \in Stage : ~At(r, s)
  BY <1>1 DEF At
<1>5. FilesHold
  BY <1>1, <1>3, <1>4, StageNames DEF FilesHold
<1>6. \A g \in Goals : HandHolds(g) /\ OpHolds(g)
  BY <1>1 DEF HandHolds, AtHead, OpHolds
<1>7. Located
  <2>1. \A g \in Goals, r \in Records : ~Moving(g, r)
    BY <1>1, DataKinds DEF Moving
  <2>. HIDE DEF At, Moving
  <2>. QED
    BY <1>4, <2>1 DEF Located
<1>. QED
  BY <1>2, <1>5, <1>6, <1>7 DEF MemoryInv

LEMMA MemoryInvStep == MemoryInv /\ [LifecycleNext]_memoryVars => MemoryInv'
<1>. SUFFICES ASSUME MemoryInv, [LifecycleNext]_memoryVars PROVE MemoryInv'
  OBVIOUS
<1>1. CASE LifecycleNext
  <2>1. PICK g \in Goals :
          \/ StartRefiner(g) \/ NextStep(g) \/ OpenFile(g) \/ WriteFile(g) \/ DeleteMoved(g)
          \/ Quarantine(g) \/ Review(g) \/ Judge(g) \/ Reject(g) \/ Mark(g) \/ Bump(g)
          \/ CheckVerified(g) \/ CheckActive(g) \/ Find(g) \/ PromoteVerified(g)
          \/ PromoteActive(g) \/ FlushCandidate(g) \/ CrashRefiner(g)
    BY <1>1 DEF LifecycleNext
  <2>2. CASE StartRefiner(g) \/ NextStep(g) \/ CrashRefiner(g)
    BY <2>2, TurnsKeep
  <2>3. CASE OpenFile(g)
    BY <2>3, OpenFileKeeps
  <2>4. CASE WriteFile(g)
    BY <2>4, WriteFileKeeps
  <2>5. CASE DeleteMoved(g)
    BY <2>5, DeleteMovedKeeps
  <2>6. CASE Quarantine(g)
    BY <2>6, QuarantineKeeps
  <2>7. CASE Review(g)
    BY <2>7, ReviewKeeps
  <2>8. CASE Judge(g)
    BY <2>8, JudgeKeeps
  <2>9. CASE Reject(g)
    BY <2>9, RejectKeeps
  <2>10. CASE Mark(g)
    BY <2>10, MarkKeeps
  <2>11. CASE Bump(g)
    BY <2>11, BumpKeeps
  <2>12. CASE CheckVerified(g)
    BY <2>12, CheckVerifiedKeeps
  <2>13. CASE CheckActive(g)
    BY <2>13, CheckActiveKeeps
  <2>14. CASE Find(g)
    BY <2>14, FindKeeps
  <2>15. CASE PromoteVerified(g)
    <3>1. "promote" \in Resting /\ "verified" \in Stage
      BY StageNames DEF Resting
    <3>2. Promote(g, "toVerified", "verified", "promote")
      BY <2>15 DEF PromoteVerified
    <3>. QED
      BY <3>1, <3>2, PromoteKeeps
  <2>16. CASE PromoteActive(g)
    <3>1. "activate" \in Resting /\ "active" \in Stage
      BY StageNames DEF Resting
    <3>. QED
      BY <2>16, <3>1, PromoteKeeps DEF PromoteActive
  <2>17. CASE FlushCandidate(g)
    BY <2>17, NewRecordKeeps
  <2>. QED
    BY <2>1, <2>2, <2>3, <2>4, <2>5, <2>6, <2>7, <2>8, <2>9, <2>10, <2>11, <2>12, <2>13,
       <2>14, <2>15, <2>16, <2>17
<1>2. CASE UNCHANGED memoryVars
  <2>1. UNCHANGED <<files, origin, length, step, list, hand, op, kept, rejected, torn>>
    BY <1>2 DEF memoryVars, batchVars
  <2>2. Keeps /\ \A h \in Goals : HandHolds(h)'
    BY <2>1, StillKeeps
  <2>3. MemoryTyped' /\ \A h \in Goals : OpHolds(h)'
    BY <2>1, <2>2, OpStays DEF MemoryInv, MemoryTyped
  <2>4. FilesHold'
    BY <2>1, <2>2, FilesStay
  <2>5. Located'
    BY <2>1, LocatedStays DEF Moving
  <2>. QED
    BY <2>2, <2>3, <2>4, <2>5 DEF MemoryInv
<1>. QED
  BY <1>1, <1>2

LEMMA MemoryInvHolds == LifecycleSpec => []MemoryInv
BY MemoryInvInit, MemoryInvStep, PTL DEF LifecycleSpec

\* A record is active only when two judgements, and one of another goal's run,
\* kept it, for every number of goals, records, batches and crashes.
THEOREM ActiveWasEarned == LifecycleSpec => []ActiveEarned
<1>1. MemoryInv => ActiveEarned
  BY DEF MemoryInv, FilesHold, ActiveEarned, Earned
<1>. QED
  BY <1>1, MemoryInvHolds, PTL

\* A rejected record is in deprecated only, once nothing is being done to it
\* (code: deprecate_record, _move), unless it is torn: for every number of
\* goals, whose batches share no lock, records, batches and crashes.
THEOREM RejectedStaysOut == LifecycleSpec => []RejectedOut
<1>1. MemoryInv => RejectedOut
  <2>. SUFFICES ASSUME MemoryInv, NEW r \in rejected \ torn, NEW s \in Stage \ {"deprecated"},
                       \A g \in Goals : op[g].rec # r
       PROVE  ~At(r, s)
    BY DEF RejectedOut
  <2>1. r \in Records \ torn
    BY DEF MemoryInv, MemoryTyped
  <2>2. \A g \in Goals : ~Moving(g, r)
    BY DEF Moving
  <2>. HIDE DEF At, Moving
  <2>. QED
    BY <2>1, <2>2, LocatedAt
<1>. QED
  BY <1>1, MemoryInvHolds, PTL

LEMMA LifecycleTyping == LifecycleSpec => []LifecycleTypeOK
<1>1. MemoryInv => LifecycleTypeOK
  <2>. SUFFICES ASSUME MemoryInv PROVE LifecycleTypeOK
    OBVIOUS
  <2>1. RecordFile \subseteq Data /\ Good \subseteq Data
    <3>1. Absent \in Data /\ Broken \in Data
      BY DEF Data, Absent, Broken
    <3>2. Good \subseteq Data
      BY DEF Good, Data
    <3>. QED
      BY <3>1, <3>2 DEF RecordFile
  <2>2. DOMAIN files = Records /\ \A r \in Records, s \in Stage : files[r][s] \in Data
    BY <2>1 DEF MemoryInv, MemoryTyped
  <2>3. ASSUME NEW g \in Goals
        PROVE  /\ step[g] \in Steps /\ hand[g].dir \in Stage /\ hand[g].data \in Data
               /\ op[g].rec \in Records \cup {0} /\ op[g].data \in Data
    <3>1. step[g] \in Steps /\ hand[g] \in [dir : Stage, data : RecordFile]
      BY DEF MemoryInv, MemoryTyped
    <3>2. CASE op[g] = NoOp
      BY <2>1, <3>1, <3>2, DataKinds DEF NoOp
    <3>3. CASE op[g] \in OpType
      BY <2>1, <3>1, <3>3 DEF OpType
    <3>. QED
      BY <3>2, <3>3 DEF MemoryInv, MemoryTyped
  <2>. QED
    BY <2>2, <2>3 DEF LifecycleTypeOK, MemoryInv, MemoryTyped
<1>. QED
  BY <1>1, MemoryInvHolds, PTL

HIDE LifecycleAssumption

------------------------------------------------------------------------------
(***************************************************************************)
(* Proofs about Delivery for any deliverables, contracts and claims, and   *)
(* whatever tools leave in the workdir.                                    *)
(***************************************************************************)

ClaimTyped(c) ==
  /\ c = [actions |-> c.actions, mechanical |-> c.mechanical]
  /\ c.actions \subseteq ClaimActions
  /\ c.mechanical \in BOOLEAN

EvidenceTyped(e) ==
  /\ e = [satisfied |-> e.satisfied, boundaryGap |-> e.boundaryGap,
          integrity |-> e.integrity, by |-> e.by]
  /\ e.satisfied \subseteq obligations

DeliveryTyped ==
  /\ DeliveryTypeOK
  /\ ClaimTyped(claim)
  /\ EvidenceTyped(evidence)
  /\ tries <= MaxRepairs

\* An action whose target is a JSON file with a plain object in it does not
\* say that anything is written.
Harmless(a) == a.form = "ack" \/ (a.form = "data" /\ a.body # "embed")

CarriesObjects(c, d) ==
  \A p \in JsonPaths \ Captures : d[p] \in {"good", "better"} =>
    \A a \in c.actions : a.target = p => Harmless(a)

\* While the claim waits to be applied, its payloads are the objects.
BoundToDisk == dpc = "apply" /\ bound => CarriesObjects(claim, disk)

\* What a workdir without a gap has as long as browsers only flush captures.
Delivered(d) ==
  /\ \A p \in Paths \ Captures : Holds(p, d[p])
  /\ \A p \in Captures : d[p] # "absent"

\* The evidence tells the gaps of the workdir as it is from then on.
GapTold ==
  dpc \in {"deliver", "gate"} /\ ~evidence.boundaryGap => ~forbidden /\ Delivered(disk)

IntegrityTold ==
  dpc = "gate" /\ ~evidence.integrity => \A p \in Paths \ Captures : disk[p] = before[p]

IntentJudged ==
  dpc \in {"deliver", "gate"} /\ (\E o \in evidence.satisfied : Intent(o))
    => evidence.by = "checker"

DeliveryInv ==
  DeliveryTyped /\ BoundToDisk /\ GapTold /\ IntegrityTold /\ IntentJudged

-----------------------------------------------------------------------------
\* The sequence of a finite set has the elements of the set.
LEMMA SequenceOfSet ==
  ASSUME NEW S, IsFiniteSet(S)
  PROVE  SetToSeq(S) \in [1..Cardinality(S) -> S] /\ DOMAIN SetToSeq(S) = 1..Cardinality(S)
<1>1. ExistsBijection(1..Cardinality(S), S)
  BY FS_CardinalityType
<1>2. PICK f \in [1..Cardinality(S) -> S] : f \in Bijection(1..Cardinality(S), S)
  BY <1>1 DEF ExistsBijection, Bijection, Injection
<1>3. IsInjective(f)
  BY <1>2 DEF Bijection, Injection, IsInjective
<1>4. SetToSeq(S) \in [1..Cardinality(S) -> S]
  BY <1>3 DEF SetToSeq
<1>. QED
  BY <1>4

LEMMA AlignedSatisfies ==
  ASSUME NEW vs, DeliveryTypeOK
  PROVE  Aligned(vs) \subseteq obligations
<1>1. IsFiniteSet(obligations)
  BY DeliveryAssumption DEF DeliveryTypeOK
<1> DEFINE refs == SetToSeq(obligations)
<1>2. \A i \in DOMAIN refs : refs[i] \in obligations
  BY <1>1, SequenceOfSet
<1>. QED
  BY <1>2 DEF Aligned

LEMMA PromotedTyped ==
  ASSUME NEW d \in Disks, NEW q \in Disks
  PROVE  PromotedTo(d, q) \in Disks /\ LeftStaged(q) \in Disks
<1>1. \A p \in Paths : d[p] \in Contents(p) /\ q[p] \in Contents(p) /\ "absent" \in Contents(p)
  BY DEF Disks, Contents
<1>2. \A p \in Paths : d[p] \in AnyContent /\ q[p] \in AnyContent /\ "absent" \in AnyContent
  BY DEF Disks, AnyContent
<1>. QED
  BY <1>1, <1>2 DEF PromotedTo, LeftStaged, Disks

\* A deliverable that is asked for only by name is there, too, when the
\* boundary holds.
LEMMA BoundaryDelivers ==
  ASSUME NEW d, NEW f, BoundaryHolds(d, f)
  PROVE  ~f /\ Delivered(d)
<1>1. Captures \subseteq Paths
  BY DeliveryAssumption DEF Paths
<1>. QED
  BY <1>1 DEF BoundaryHolds, Delivered, Holds, Valid

LEMMA CarryTyped ==
  ASSUME NEW d \in Disks, embedPath \in Paths \cup {"none"}, NEW p \in Objects(d)
  PROVE  Carry(p, d) \in ClaimActions
<1>1. p \in Paths /\ d[p] \in AnyContent
  BY DEF Objects, Disks, Paths
<1> DEFINE x == IF d[p] = "embed" /\ embedPath # "none" THEN embedPath ELSE p
<1>2. x \in Paths
  BY <1>1
<1>. QED
  BY <1>1, <1>2 DEF Carry, ClaimActions

LEMMA MechanicalTyped ==
  ASSUME NEW d \in Disks, embedPath \in Paths \cup {"none"}
  PROVE  ClaimTyped(Mechanical(d))
<1>1. \A p \in Paths : Ack(p, d) \in ClaimActions
  BY DEF Ack, ClaimActions, Disks
<1>. QED
  BY <1>1, CarryTyped DEF ClaimTyped, Mechanical

\* Whatever was claimed, a claim bound to a workdir that satisfies the
\* boundary carries the objects in the JSON deliverables.
LEMMA BoundTyped ==
  ASSUME NEW d \in Disks, NEW f, NEW c, ClaimTyped(c), embedPath \in Paths \cup {"none"}
  PROVE  ClaimTyped(Bound(c, d, f))
<1> DEFINE r == [c EXCEPT !.actions = ReboundActions(c, d)]
<1>1. ReboundActions(c, d) \subseteq ClaimActions
  BY CarryTyped DEF ReboundActions, ClaimTyped
<1>2. r = [actions |-> ReboundActions(c, d), mechanical |-> c.mechanical]
  BY DEF ClaimTyped
<1>3. ClaimTyped(r)
  BY <1>1, <1>2 DEF ClaimTyped
<1>4. Bound(c, d, f) \in {c, r, Mechanical(d)}
  <2> DEFINE m == \A p \in JsonPaths :
                    \E a \in FileWrites(r) : a.target = p /\ Matches(a, d)
  <2>1. Bound(c, d, f) = (CASE ~BoundaryHolds(d, f) -> c
                            [] BoundaryHolds(d, f) /\ m -> r
                            [] OTHER -> Mechanical(d))
    BY DEF Bound
  <2>. HIDE DEF m, r
  <2>. QED
    BY <2>1
<1>. QED
  BY <1>3, <1>4, MechanicalTyped

LEMMA BoundCarries ==
  ASSUME NEW d \in Disks, NEW f, NEW c, ClaimTyped(c), BoundaryHolds(d, f)
  PROVE  CarriesObjects(Bound(c, d, f), d)
<1> DEFINE r == [c EXCEPT !.actions = ReboundActions(c, d)]
<1>1. Bound(c, d, f) \in {r, Mechanical(d)}
  <2> DEFINE m == \A p \in JsonPaths :
                    \E a \in FileWrites(r) : a.target = p /\ Matches(a, d)
  <2>1. Bound(c, d, f) = (CASE ~BoundaryHolds(d, f) -> c
                            [] BoundaryHolds(d, f) /\ m -> r
                            [] OTHER -> Mechanical(d))
    BY DEF Bound
  <2>. HIDE DEF m, r
  <2>. QED
    BY <2>1
<1>2. r.actions = ReboundActions(c, d)
  BY DEF ClaimTyped
<1>3. ASSUME NEW p \in JsonPaths, d[p] \in {"good", "better"}, NEW q, NEW a,
             a = Carry(q, d), a.target = p
      PROVE  Harmless(a)
  BY <1>3 DEF Carry, Harmless
<1>4. ASSUME NEW p \in JsonPaths, d[p] \in {"good", "better"},
             NEW a \in ReboundActions(c, d), a.target = p
      PROVE  Harmless(a)
  <2>1. p \in Objects(d)
    BY <1>4 DEF Objects
  <2>2. CASE \E q \in Objects(d) : a = Carry(q, d)
    BY <2>2, <1>3, <1>4
  <2>3. CASE ~ \E q \in Objects(d) : a = Carry(q, d)
    <3>1. a \in {IF b.form # "ack" /\ b.target \in Objects(d) THEN Carry(b.target, d) ELSE b : b \in c.actions}
      BY <2>3, <1>4 DEF ReboundActions
    <3>2. PICK b \in c.actions :
            a = IF b.form # "ack" /\ b.target \in Objects(d) THEN Carry(b.target, d) ELSE b
      BY <3>1
    <3>3. CASE b.form # "ack" /\ b.target \in Objects(d)
      BY <3>2, <3>3, <2>3
    <3>4. CASE ~(b.form # "ack" /\ b.target \in Objects(d))
      BY <3>2, <3>4, <2>1, <1>4 DEF Harmless
    <3>. QED
      BY <3>3, <3>4
  <2>. QED
    BY <2>2, <2>3
<1>5. ASSUME NEW p \in JsonPaths, d[p] \in {"good", "better"},
             NEW a \in Mechanical(d).actions, a.target = p
      PROVE  Harmless(a)
  <2>1. (\E q \in Objects(d) : a = Carry(q, d)) \/ (\E q \in Paths : a = Ack(q, d))
    BY <1>5 DEF Mechanical
  <2>. QED
    BY <2>1, <1>3, <1>5 DEF Ack, Harmless
<1>. QED
  BY <1>1, <1>2, <1>4, <1>5 DEF CarriesObjects

LEMMA AppliedTyped ==
  ASSUME NEW d \in Disks, NEW c, NEW e \in Applied(c, d)
  PROVE  e \in Disks
  BY DEF Applied

\* A file that only harmless actions name is left alone.
LEMMA AppliedKeeps ==
  ASSUME NEW d, NEW c, NEW e \in Applied(c, d), NEW p \in Paths,
         \A a \in c.actions : a.dest = p => Harmless(a)
  PROVE  e[p] = d[p]
<1>1. \A a \in Effective(p, c) : MayHold(p, a, d) = {d[p]}
  BY DEF Effective, MayHold, Harmless
<1>. QED
  BY <1>1 DEF Applied

LEMMA FinalizedTyped ==
  ASSUME NEW a, NEW d, NEW f, DeliveryTypeOK
  PROVE  /\ EvidenceTyped(Finalized(a, d, f))
         /\ Finalized(a, d, f).boundaryGap = ~BoundaryHolds(d, f)
         /\ Finalized(a, d, f).by = "checker"
<1>1. \A vs : Aligned(vs) \subseteq obligations
  BY AlignedSatisfies
<1>. QED
  BY <1>1 DEF Finalized, EvidenceTyped

\* The evidence made from the files satisfies no obligation about the intent.
LEMMA MechanicalNoIntent ==
  ASSUME NEW d, NEW f
  PROVE  /\ EvidenceTyped(FinalizedMechanical(d, f))
         /\ FinalizedMechanical(d, f).boundaryGap = ~BoundaryHolds(d, f)
         /\ ~ \E o \in FinalizedMechanical(d, f).satisfied : Intent(o)
<1>1. \A o \in MechanicalVerdicts(d, f) : o \in obligations /\ ~Intent(o)
  BY DEF MechanicalVerdicts
<1>. QED
  BY <1>1 DEF FinalizedMechanical, EvidenceTyped

-----------------------------------------------------------------------------
LEMMA DeliveryInvInit == DeliveryInit => DeliveryInv
<1> SUFFICES ASSUME DeliveryInit PROVE DeliveryInv
  OBVIOUS
<1>1. [p \in Paths |-> "absent"] \in Disks
  BY DEF Disks, Contents, AnyContent
<1>2. ClaimTyped(NoClaim) /\ NoClaim.mechanical = FALSE /\ NoClaim.actions = {}
  BY DEF ClaimTyped, NoClaim
<1>3. EvidenceTyped(NoEvidence) /\ NoEvidence.satisfied = {}
  BY DEF EvidenceTyped, NoEvidence
<1>4. tries = 0 /\ MaxRepairs \in 1..2 /\ dpc = "work"
  BY DEF DeliveryInit, MaxRepairs
<1>5. DeliveryTypeOK
  <2>1. disk \in Disks /\ partial \in Disks /\ before \in Disks
    BY <1>1 DEF DeliveryInit
  <2>2. /\ claim.actions \subseteq ClaimActions /\ claim.mechanical \in BOOLEAN
        /\ evidence.satisfied \subseteq obligations
    BY <1>2, <1>3 DEF DeliveryInit
  <2>3. /\ forbidden \in BOOLEAN /\ dual \in BOOLEAN /\ obligations \in Contracts
        /\ hinted \in BOOLEAN /\ embedPath \in Paths \cup {"none"} /\ bound \in BOOLEAN
    BY DEF DeliveryInit
  <2>. QED
    BY <1>4, <2>1, <2>2, <2>3 DEF DeliveryTypeOK
<1>6. DeliveryTyped
  BY <1>2, <1>3, <1>4, <1>5 DEF DeliveryInit, DeliveryTyped
<1>. QED
  BY <1>4, <1>6 DEF DeliveryInv, BoundToDisk, GapTold, IntegrityTold, IntentJudged

\* What no action changes.
LEMMA DeliveryConstants ==
  DeliveryNext => obligations' = obligations /\ dual' = dual /\ hinted' = hinted
                  /\ embedPath' = embedPath
  BY DEF DeliveryNext, Work, MechanicalFirst, AskClaim, RecoverClaim, Bind, ApplyClaim,
     FlushCapture, MechanicalCheck, Audit, Deliver, givenVars

\* The types of the next state, from those of what an action changes.
LEMMA DeliveryTypedStep ==
  ASSUME DeliveryTyped,
         obligations' = obligations, dual' = dual, hinted' = hinted, embedPath' = embedPath,
         disk' \in Disks, partial' \in Disks, before' \in Disks, forbidden' \in BOOLEAN,
         dpc' \in {"first", "ask", "recover", "bind", "apply", "check", "audit",
                   "deliver", "gate", "failed"},
         tries' \in 0..2, tries' <= MaxRepairs, ClaimTyped(claim'), bound' \in BOOLEAN,
         EvidenceTyped(evidence')
  PROVE  DeliveryTyped'
<1>1. MaxRepairs' = MaxRepairs
  BY DEF MaxRepairs
<1>2. DeliveryTypeOK'
  BY DEF DeliveryTyped, DeliveryTypeOK, ClaimTyped, EvidenceTyped
<1>3. ClaimTyped(claim)' /\ EvidenceTyped(evidence)'
  BY DEF ClaimTyped, EvidenceTyped
<1>. QED
  BY <1>1, <1>2, <1>3 DEF DeliveryTyped

\* Evidence with the gaps of the workdir tells them.
LEMMA GapsAreTold ==
  ASSUME hinted' = hinted, evidence'.boundaryGap = ~BoundaryHolds(disk', forbidden'),
         ~evidence'.boundaryGap
  PROVE  ~forbidden' /\ Delivered(disk)'
<1>1. BoundaryHolds(disk', forbidden')
  OBVIOUS
<1>2. ~forbidden' /\ Delivered(disk')
  BY <1>1, BoundaryDelivers
<1>. QED
  BY <1>2 DEF Delivered, Holds, Valid

LEMMA DeliveryInvStep ==
  ASSUME DeliveryInv, [DeliveryNext]_deliveryVars
  PROVE  DeliveryInv'
<1> USE DEF DeliveryInv
<1>1. CASE UNCHANGED deliveryVars
  BY <1>1 DEF deliveryVars, DeliveryTyped, DeliveryTypeOK, ClaimTyped, EvidenceTyped,
     BoundToDisk, CarriesObjects, GapTold, Delivered, Holds, Valid, IntegrityTold,
     IntentJudged, MaxRepairs
<1>2. CASE DeliveryNext
  <2>0. /\ obligations' = obligations /\ dual' = dual /\ hinted' = hinted
        /\ embedPath' = embedPath
    BY <1>2, DeliveryConstants
  <2>t. /\ disk \in Disks /\ partial \in Disks /\ before \in Disks /\ forbidden \in BOOLEAN
        /\ embedPath \in Paths \cup {"none"} /\ bound \in BOOLEAN
        /\ tries \in 0..2 /\ tries <= MaxRepairs /\ MaxRepairs \in 1..2
        /\ ClaimTyped(claim) /\ EvidenceTyped(evidence)
    BY DEF DeliveryTyped, DeliveryTypeOK, MaxRepairs
  <2>m. \A m \in MakerClaims : ClaimTyped([actions |-> m, mechanical |-> FALSE])
    BY DeliveryAssumption DEF ClaimTyped
  <2>1. CASE Work
    <3>1. PICK l \in Leavings : disk' = l[1] /\ partial' = l[2] /\ forbidden' = l[3]
      BY <2>1 DEF Work
    <3>2. disk' \in Disks /\ partial' \in Disks /\ forbidden' \in BOOLEAN
      BY <3>1, DeliveryAssumption
    <3>3. DeliveryTyped'
      BY <2>0, <2>t, <2>1, <3>2, DeliveryTypedStep DEF Work
    <3>. QED
      BY <2>1, <3>3 DEF Work, BoundToDisk, GapTold, IntegrityTold, IntentJudged
  <2>2. CASE MechanicalFirst
    <3>1. disk' \in Disks /\ partial' \in Disks
      BY <2>2, <2>t, PromotedTyped DEF MechanicalFirst, Verify
    <3>2. ClaimTyped(claim')
      BY <2>2, <2>t, <3>1, MechanicalTyped DEF MechanicalFirst
    <3>3. DeliveryTyped'
      BY <2>0, <2>t, <2>2, <3>1, <3>2, DeliveryTypedStep DEF MechanicalFirst
    <3>. QED
      BY <2>2, <3>3 DEF MechanicalFirst, BoundToDisk, GapTold, IntegrityTold, IntentJudged
  <2>3. CASE AskClaim
    <3>1. ClaimTyped(claim') /\ tries' \in 0..2 /\ tries' <= MaxRepairs
      BY <2>3, <2>t, <2>m DEF AskClaim, Claimed
    <3>2. dpc' \in {"ask", "bind", "recover"}
      BY <2>3 DEF AskClaim
    <3>3. DeliveryTyped'
      BY <2>0, <2>t, <2>3, <3>1, <3>2, DeliveryTypedStep DEF AskClaim
    <3>. QED
      BY <3>2, <3>3 DEF BoundToDisk, GapTold, IntegrityTold, IntentJudged
  <2>4. CASE RecoverClaim
    <3>1. disk' \in Disks /\ partial' \in Disks
      BY <2>4, <2>t, PromotedTyped DEF RecoverClaim, Verify
    <3>2. ClaimTyped(claim')
      BY <2>4, <2>t, <2>m, <3>1, MechanicalTyped DEF RecoverClaim, Claimed
    <3>3. dpc' \in {"bind", "failed"}
      BY <2>4 DEF RecoverClaim
    <3>4. DeliveryTyped'
      BY <2>0, <2>t, <2>4, <3>1, <3>2, <3>3, DeliveryTypedStep DEF RecoverClaim
    <3>. QED
      BY <3>3, <3>4 DEF BoundToDisk, GapTold, IntegrityTold, IntentJudged
  <2>5. CASE Bind
    <3>1. disk' \in Disks /\ partial' \in Disks
      BY <2>5, <2>t, PromotedTyped DEF Bind, Verify
    <3>2. ClaimTyped(claim')
      BY <2>5, <2>t, <3>1, BoundTyped DEF Bind
    <3>3. bound' => CarriesObjects(claim', disk')
      BY <2>5, <2>t, <3>1, BoundCarries DEF Bind
    <3>4. bound' \in BOOLEAN
      BY <2>5 DEF Bind, BoundaryHolds
    <3>5. DeliveryTyped'
      BY <2>0, <2>t, <2>5, <3>1, <3>2, <3>4, DeliveryTypedStep DEF Bind
    <3>. QED
      BY <2>5, <3>3, <3>5 DEF Bind, BoundToDisk, CarriesObjects, GapTold, IntegrityTold, IntentJudged
  <2>6. CASE ApplyClaim
    <3>1. PICK e \in Applied(claim, disk) : Verify(e)
      BY <2>6 DEF ApplyClaim
    <3>2. disk' \in Disks /\ partial' \in Disks
      BY <2>t, <3>1, PromotedTyped, AppliedTyped DEF Verify
    <3>3. DeliveryTyped'
      BY <2>0, <2>t, <2>6, <3>2, DeliveryTypedStep DEF ApplyClaim
    <3>. QED
      BY <2>6, <3>3 DEF ApplyClaim, BoundToDisk, GapTold, IntegrityTold, IntentJudged
  <2>7. CASE FlushCapture
    <3>1. /\ forbidden' = forbidden /\ before' = before /\ evidence' = evidence
          /\ dpc' = dpc /\ claim' = claim /\ bound' = bound /\ tries' = tries
          /\ dpc \notin {"work", "failed"}
      BY <2>7 DEF FlushCapture
    <3>2. partial' \in Disks /\ disk' \in Disks
      <4>1. CASE \E p \in HarPaths : partial' = [partial EXCEPT ![p] = "good"]
                 /\ UNCHANGED disk
        BY <4>1, <2>t DEF Disks, Contents, AnyContent, Paths
      <4>2. CASE (\E p \in Captures, c \in {"empty", "good"} : disk' = [disk EXCEPT ![p] = c])
                 /\ UNCHANGED partial
        <5>1. PICK p \in Captures, c \in {"empty", "good"} : disk' = [disk EXCEPT ![p] = c]
          BY <4>2
        <5>2. p \in Paths /\ c \in Contents(p) /\ c \in AnyContent
          BY DeliveryAssumption DEF Contents, AnyContent, Paths
        <5>. QED
          BY <4>2, <5>1, <5>2, <2>t DEF Disks
      <4>. QED
        BY <2>7, <4>1, <4>2 DEF FlushCapture
    <3>3. /\ \A p \in Paths \ Captures : disk'[p] = disk[p]
          /\ \A p \in Captures : disk'[p] # disk[p] => disk'[p] # "absent"
      <4>1. disk \in [Paths -> AnyContent]
        BY <2>t DEF Disks
      <4>. QED
        BY <2>7, <4>1, DeliveryAssumption DEF FlushCapture, Paths
    <3>4. DeliveryTyped'
      <4>1. dpc' \in {"first", "ask", "recover", "bind", "apply", "check", "audit",
                      "deliver", "gate", "failed"}
        BY <3>1 DEF DeliveryTyped, DeliveryTypeOK
      <4>. QED
        BY <2>0, <2>t, <3>1, <3>2, <4>1, DeliveryTypedStep
    <3>5. BoundToDisk'
      BY <3>1, <3>3 DEF BoundToDisk, CarriesObjects, Paths
    <3>6. GapTold'
      BY <2>0, <3>1, <3>3 DEF GapTold, Delivered, Holds, Valid
    <3>. QED
      BY <3>1, <3>3, <3>4, <3>5, <3>6 DEF IntegrityTold, IntentJudged
  <2>8. CASE MechanicalCheck
    <3>1. CASE \E o \in obligations : Intent(o)
      <4>1. DeliveryTyped'
        BY <2>0, <2>t, <2>8, <3>1, DeliveryTypedStep DEF MechanicalCheck
      <4>. QED
        BY <2>8, <3>1, <4>1 DEF MechanicalCheck, BoundToDisk, GapTold, IntegrityTold, IntentJudged
    <3>2. CASE ~\E o \in obligations : Intent(o)
      <4>1. disk' \in Disks /\ partial' \in Disks
        BY <2>8, <2>t, <3>2, PromotedTyped DEF MechanicalCheck, Verify
      <4>2. /\ EvidenceTyped(evidence')
            /\ evidence'.boundaryGap = ~BoundaryHolds(disk', forbidden')
            /\ ~ \E o \in evidence'.satisfied : Intent(o)
        BY <2>8, <3>2, MechanicalNoIntent DEF MechanicalCheck
      <4>3. dpc' = "deliver"
        BY <2>8, <3>2 DEF MechanicalCheck
      <4>4. DeliveryTyped'
        BY <2>0, <2>t, <2>8, <4>1, <4>2, <4>3, DeliveryTypedStep DEF MechanicalCheck
      <4>5. GapTold'
        BY <2>0, <4>2, GapsAreTold DEF GapTold
      <4>. QED
        BY <4>2, <4>3, <4>4, <4>5 DEF BoundToDisk, IntegrityTold, IntentJudged
    <3>. QED
      BY <3>1, <3>2
  <2>9. CASE Audit
    <3>1. PICK d \in {disk} \cup {[disk EXCEPT ![p] = c] : p \in Paths, c \in {"absent", "good"}} :
            /\ Verify(d)
            /\ \/ \E a \in Answers : evidence' = Finalized(a, disk', forbidden)
               \/ evidence' = FinalizedMechanical(disk', forbidden)
      BY <2>9 DEF Audit
    <3>2. d \in Disks
      BY <2>t DEF Disks, Contents, AnyContent
    <3>3. disk' \in Disks /\ partial' \in Disks
      BY <2>t, <3>1, <3>2, PromotedTyped DEF Verify
    <3>5. dpc' = "deliver" /\ forbidden' = forbidden
      BY <2>9 DEF Audit
    <3>4. /\ EvidenceTyped(evidence')
          /\ evidence'.boundaryGap = ~BoundaryHolds(disk', forbidden')
          /\ (\E o \in evidence'.satisfied : Intent(o)) => evidence'.by = "checker"
      BY <3>1, <3>5, MechanicalNoIntent, FinalizedTyped DEF DeliveryTyped
    <3>6. DeliveryTyped'
      BY <2>0, <2>t, <2>9, <3>3, <3>4, DeliveryTypedStep DEF Audit
    <3>7. GapTold'
      <4>1. ~evidence'.boundaryGap => ~forbidden' /\ Delivered(disk)'
        BY <2>0, <3>4, GapsAreTold
      <4>. QED
        BY <4>1 DEF GapTold
    <3>. QED
      BY <3>4, <3>5, <3>6, <3>7 DEF BoundToDisk, IntegrityTold, IntentJudged
  <2>10. CASE Deliver
    <3>1. PICK i \in BOOLEAN : i = \E p \in Paths \ Captures : disk[p] # before[p]
      OBVIOUS
    <3>2. evidence' = [satisfied |-> evidence.satisfied, boundaryGap |-> evidence.boundaryGap,
                       integrity |-> i, by |-> evidence.by]
      BY <2>10, <2>t, <3>1 DEF Deliver, EvidenceTyped
    <3>3. EvidenceTyped(evidence')
      BY <2>t, <3>2 DEF EvidenceTyped
    <3>4. DeliveryTyped'
      BY <2>0, <2>t, <2>10, <3>3, DeliveryTypedStep DEF Deliver
    <3>5. disk' = disk /\ before' = before /\ forbidden' = forbidden /\ dpc = "deliver"
          /\ dpc' = "gate"
      BY <2>10 DEF Deliver
    <3>6. GapTold'
      BY <2>0, <3>2, <3>5 DEF GapTold, Delivered, Holds, Valid
    <3>7. IntegrityTold'
      BY <3>1, <3>2, <3>5 DEF IntegrityTold
    <3>. QED
      BY <3>2, <3>4, <3>5, <3>6, <3>7 DEF BoundToDisk, IntentJudged
  <2>. QED
    BY <1>2, <2>1, <2>2, <2>3, <2>4, <2>5, <2>6, <2>7, <2>8, <2>9, <2>10 DEF DeliveryNext
<1>. QED
  BY <1>1, <1>2

LEMMA DeliveryInvHolds == DeliverySpec => []DeliveryInv
  BY DeliveryInvInit, DeliveryInvStep, PTL DEF DeliverySpec

\* What the Gate can admit holds the files the maker left and satisfies the
\* boundary then, but for the content of screenshots, for any deliverables,
\* contracts, claims and answers of the checker (_finalize_evidence and the
\* fingerprint of the run loop).
THEOREM AcceptedWorkdirHolds == DeliverySpec => []AcceptedHolds
<1>1. DeliveryInv => AcceptedHolds
  BY DEF DeliveryInv, GapTold, Delivered, IntegrityTold, AcceptedHolds, Acceptable
<1>. QED
  BY <1>1, DeliveryInvHolds, PTL

\* No obligation about the intent is satisfied by the files
\* (synthesize_mechanical_evidence), also when the checker failed.
THEOREM IntentNeedsChecker == DeliverySpec => []IntentByChecker
<1>1. DeliveryInv => IntentByChecker
  BY DEF DeliveryInv, IntentJudged, IntentByChecker
<1>. QED
  BY <1>1, DeliveryInvHolds, PTL

\* The claim that is applied keeps the objects in the JSON deliverables of a
\* workdir that satisfied the boundary when the claim was bound, unless an
\* action on another target names the file as its path
\* (prefer_disk_bound_claim, then apply_claim_payload).
THEOREM ClaimKeepsVerified == DeliverySpec => VerifiedKept
<1> DEFINE Kept(p) == disk'[p] = disk[p] \/ \E a \in claim.actions : a.target # p /\ a.dest = p
<1>1. ASSUME DeliveryInv, [DeliveryNext]_deliveryVars, dpc = "apply", dpc' = "check", bound,
             NEW p \in JsonPaths \ Captures, disk[p] \in {"good", "better"},
             ~ \E a \in claim.actions : a.target # p /\ a.dest = p
      PROVE  disk'[p] = disk[p]
  <2>1. ApplyClaim
    BY <1>1 DEF DeliveryNext, Work, MechanicalFirst, AskClaim, RecoverClaim, Bind,
       FlushCapture, MechanicalCheck, Audit, Deliver, deliveryVars
  <2>2. PICK e \in Applied(claim, disk) : Verify(e)
    BY <2>1 DEF ApplyClaim
  <2>3. \A a \in claim.actions : a.dest = p => Harmless(a)
    BY <1>1 DEF DeliveryInv, BoundToDisk, CarriesObjects
  <2>4. p \in Paths
    BY DEF Paths
  <2>5. e[p] = disk[p]
    BY <2>2, <2>3, <2>4, AppliedKeeps
  <2>6. Valid(p, e[p])
    BY <1>1, <2>5, DeliveryAssumption DEF Valid
  <2>. QED
    BY <2>2, <2>4, <2>5, <2>6 DEF Verify, PromotedTo
<1>2. DeliveryInv /\ [DeliveryNext]_deliveryVars =>
        (dpc = "apply" /\ dpc' = "check" /\ bound =>
           \A p \in JsonPaths \ Captures : disk[p] \in {"good", "better"} => Kept(p))
  BY <1>1
<1>. QED
  BY <1>2, DeliveryInvHolds, PTL DEF DeliverySpec, VerifiedKept

\* The workdir, the claim and the evidence of an attempt keep their types.
LEMMA DeliveryTyping == DeliverySpec => []DeliveryTypeOK
<1>1. DeliveryInv => DeliveryTypeOK
  BY DEF DeliveryInv, DeliveryTyped
<1>. QED
  BY <1>1, DeliveryInvHolds, PTL

==============================================================================
