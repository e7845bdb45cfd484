--------------------------- MODULE RegistryProofs ---------------------------
(***************************************************************************)
(* What holds of Registry for every set of names and callers, every        *)
(* schedule of the generator and every bound.                              *)
(***************************************************************************)
EXTENDS Registry, NaturalLemmas, SequenceTheorems, FiniteSetTheorems, TLAPS

USE DEF owned, cells, loop, client, gen

-----------------------------------------------------------------------------
(* Sequences of entries and the sets of their entries.                     *)

EntriesOf(s) == {s[k] : k \in DOMAIN s}

EntryType == [id : Ids, name : Names]

(* A task that is added is one more entry. *)
LEMMA AppendEntries ==
  ASSUME NEW S, NEW s \in Seq(S), NEW e \in S
  PROVE  EntriesOf(Append(s, e)) = EntriesOf(s) \union {e}
<1> DEFINE t == Append(s, e)
<1>1. /\ Len(s) \in Nat /\ DOMAIN s = 1..Len(s)
      /\ DOMAIN t = 1..Len(s) + 1
      /\ \A i \in 1..Len(s) : t[i] = s[i]
      /\ t[Len(s) + 1] = e
  BY AppendProperties, LenProperties
<1> HIDE DEF t
<1>2. ASSUME NEW x \in EntriesOf(t) PROVE x \in EntriesOf(s) \union {e}
  BY <1>1, <1>2 DEF EntriesOf
<1>3. ASSUME NEW x \in EntriesOf(s) \union {e} PROVE x \in EntriesOf(t)
  <2>1. CASE x = e
    BY <1>1, <2>1 DEF EntriesOf
  <2>2. CASE x \in EntriesOf(s)
    <3>1. PICK k \in DOMAIN s : x = s[k]
      BY <2>2 DEF EntriesOf
    <3>2. k \in DOMAIN t /\ x = t[k]
      BY <1>1, <3>1
    <3> QED
      BY <3>2 DEF EntriesOf
  <2> QED
    BY <1>3, <2>1, <2>2
<1> QED
  BY <1>2, <1>3 DEF t

(* A handle that is taken out of the vector leaves all the others there.   *)
LEMMA RemoveEntry ==
  ASSUME NEW S, NEW s \in Seq(S), NEW p \in DOMAIN s,
         NEW r, r = SubSeq(s, 1, p - 1) \o SubSeq(s, p + 1, Len(s))
  PROVE  /\ r \in Seq(S)
         /\ EntriesOf(r) \subseteq EntriesOf(s)
         /\ EntriesOf(s) \subseteq EntriesOf(r) \union {s[p]}
<1>0. /\ Len(s) \in Nat /\ DOMAIN s = 1..Len(s) /\ p \in 1..Len(s)
      /\ \A i \in 1..Len(s) : s[i] \in S
  BY LenProperties, ElementOfSeq
<1> DEFINE a == SubSeq(s, 1, p - 1)
           b == SubSeq(s, p + 1, Len(s))
<1>1. /\ a \in Seq(S) /\ Len(a) = p - 1
      /\ \A i \in 1..p - 1 : a[i] = s[i]
  <2>1. \A i \in 1..p - 1 : s[i] \in S
    BY <1>0
  <2>2. /\ a \in Seq(S)
        /\ Len(a) = IF 1 <= p - 1 THEN p - 1 - 1 + 1 ELSE 0
        /\ \A i \in 1..p - 1 - 1 + 1 : a[i] = s[1 + i - 1]
    BY <1>0, <2>1, SubSeqProperties
  <2> QED
    BY <1>0, <2>2
<1>2. /\ b \in Seq(S) /\ Len(b) = Len(s) - p
      /\ \A i \in 1..Len(s) - p : b[i] = s[p + i]
  <2>1. \A i \in p + 1..Len(s) : s[i] \in S
    BY <1>0
  <2>2. /\ b \in Seq(S)
        /\ Len(b) = IF p + 1 <= Len(s) THEN Len(s) - (p + 1) + 1 ELSE 0
        /\ \A i \in 1..Len(s) - (p + 1) + 1 : b[i] = s[p + 1 + i - 1]
    <3>1. p + 1 \in Nat /\ p + 1 \in 1..Len(s) + 1
      BY <1>0
    <3> QED
      BY <1>0, <2>1, <3>1, SubSeqProperties, SMTT(30)
  <2> HIDE DEF b
  <2>3. /\ Len(s) - (p + 1) + 1 = Len(s) - p
        /\ ~(p + 1 <= Len(s)) => Len(s) - p = 0
        /\ \A i \in 1..Len(s) - p : p + 1 + i - 1 = p + i
    BY <1>0
  <2> QED
    BY <2>2, <2>3
<1> HIDE DEF a, b
<1>3. /\ r \in Seq(S) /\ Len(r) = Len(a) + Len(b)
      /\ \A i \in 1..Len(a) + Len(b) : r[i] = IF i <= Len(a) THEN a[i] ELSE b[i - Len(a)]
  BY <1>1, <1>2, ConcatProperties DEF a, b
<1>4. /\ DOMAIN r = 1..Len(s) - 1
      /\ \A i \in 1..Len(s) - 1 : r[i] = IF i <= p - 1 THEN s[i] ELSE s[i + 1]
  <2>1. DOMAIN r = 1..Len(r) /\ Len(r) = Len(s) - 1
    <3>1. Len(r) = (p - 1) + (Len(s) - p)
      BY <1>1, <1>2, <1>3
    <3>2. DOMAIN r = 1..Len(r)
      BY <1>3, LenProperties
    <3> QED
      BY <1>0, <3>1, <3>2
  <2>2. ASSUME NEW i \in 1..Len(s) - 1
        PROVE  r[i] = IF i <= p - 1 THEN s[i] ELSE s[i + 1]
    <3>1. CASE i <= p - 1
      <4>1. i \in 1..p - 1 /\ i \in 1..(p - 1) + (Len(s) - p)
        BY <1>0, <3>1
      <4>2. r[i] = a[i]
        BY <1>1, <1>2, <1>3, <3>1, <4>1
      <4> QED
        BY <1>1, <3>1, <4>1, <4>2
    <3>2. CASE ~(i <= p - 1)
      <4> DEFINE n == Len(s)
                 j == i - (p - 1)
      <4>1. n \in Nat /\ p \in Nat /\ p <= n /\ p >= 1 /\ i \in Nat /\ i <= n - 1
        BY <1>0
      <4>2. j \in 1..n - p /\ p + j = i + 1 /\ i \in 1..(p - 1) + (n - p)
        <5>1. \A x, y, z \in Nat :
                1 <= x /\ 1 <= z /\ ~(z <= x - 1) /\ z <= y - 1 =>
                  /\ z - (x - 1) \in 1..y - x
                  /\ x + (z - (x - 1)) = z + 1
                  /\ z \in 1..(x - 1) + (y - x)
          OBVIOUS
        <5>2. i >= 1
          BY <1>0
        <5> QED
          BY <3>2, <4>1, <5>1, <5>2
      <4>3. b[j] = s[p + j]
        BY <1>2, <4>2
      <4>4. r[i] = b[j]
        BY <1>1, <1>2, <1>3, <3>2, <4>2
      <4> QED
        BY <3>2, <4>2, <4>3, <4>4
    <3> QED
      BY <3>1, <3>2
  <2> QED
    BY <2>1, <2>2
<1>5. EntriesOf(r) \subseteq EntriesOf(s)
  <2>1. ASSUME NEW i \in DOMAIN r PROVE r[i] \in EntriesOf(s)
    <3>1. Len(s) \in Nat /\ i \in Nat /\ i >= 1 /\ i <= Len(s) - 1
      BY <1>0, <1>4
    <3>2. i \in DOMAIN s /\ i + 1 \in DOMAIN s
      BY <1>0, <3>1
    <3>3. r[i] = s[i] \/ r[i] = s[i + 1]
      BY <1>4
    <3> QED
      BY <3>2, <3>3 DEF EntriesOf
  <2> QED
    BY <2>1 DEF EntriesOf
<1>6. ASSUME NEW k \in DOMAIN s PROVE s[k] \in EntriesOf(r) \union {s[p]}
  <2>0. Len(s) \in Nat /\ k \in Nat /\ p \in Nat /\ k >= 1 /\ k <= Len(s) /\ p >= 1 /\ p <= Len(s)
    BY <1>0
  <2>1. CASE k = p
    BY <2>1
  <2>2. CASE k < p
    <3>1. k \in 1..Len(s) - 1 /\ k <= p - 1
      <4>1. \A x, y, z \in Nat : 1 <= x /\ x < y /\ y <= z => x \in 1..z - 1 /\ x <= y - 1
        OBVIOUS
      <4> QED
        BY <2>0, <2>2, <4>1
    <3>2. k \in DOMAIN r /\ r[k] = s[k]
      BY <1>4, <3>1
    <3> QED
      BY <3>2 DEF EntriesOf
  <2>3. CASE k > p
    <3> DEFINE j == k - 1
    <3>1. j \in 1..Len(s) - 1 /\ ~(j <= p - 1) /\ j + 1 = k
      BY <2>0, <2>3
    <3> HIDE DEF j
    <3>2. j \in DOMAIN r /\ r[j] = s[k]
      BY <1>4, <3>1
    <3> QED
      BY <3>2 DEF EntriesOf
  <2> QED
    BY <2>0, <2>1, <2>2, <2>3
<1> QED
  BY <1>3, <1>5, <1>6 DEF EntriesOf

-----------------------------------------------------------------------------
(* The generator's schedule.                                               *)

(* Schedule::upcoming is the first instant after now, or 0 for none. *)
LEMMA UpcomingFirst ==
  \/ Upcoming = 0 /\ {s \in GenSlots : s > now} = {}
  \/ /\ Upcoming \in GenSlots /\ Upcoming > now
     /\ \A s \in GenSlots : s > now => Upcoming <= s
<1> DEFINE later == {s \in GenSlots : s > now}
<1>1. CASE later = {}
  BY <1>1 DEF Upcoming
<1>2. CASE later # {}
  <2>1. later \in SUBSET Nat
    BY ConstantsAssumption
  <2>2. \E s \in later : \A r \in later : s <= r
    BY <1>2, <2>1, LeastNatural
  <2>3. Upcoming \in later /\ \A r \in later : Upcoming <= r
    BY <1>2, <2>2 DEF Upcoming
  <2> QED
    BY <2>3
<1> QED
  BY <1>1, <1>2

(* It is an instant. *)
LEMMA UpcomingType == Upcoming \in Nat
<1>1. Upcoming = 0 \/ Upcoming \in GenSlots
  BY UpcomingFirst, Zenon
<1>2. \A s \in GenSlots : s \in Nat
  BY ConstantsAssumption
<1> QED
  BY <1>1, <1>2

-----------------------------------------------------------------------------
(* Types.                                                                  *)

(* Each id and each request that waits is one of the tasks handed in, so   *)
(* the ids never leave their range.                                        *)
TypeInv ==
  /\ TypeOK
  /\ nextId + Len(queue) <= tasks
  /\ tasks <= MaxTasks

(* The initial values have their types. *)
LEMMA TypeInit == Init => TypeInv
<1> SUFFICES ASSUME Init PROVE TypeInv
  OBVIOUS
<1>1. <<>> \in Seq(EntryType) /\ <<>> \in Seq(Names) /\ Len(queue) = 0
  BY EmptySeq DEF Init
<1>2. MaxTasks \in Nat /\ 0 \in Ids
  BY ConstantsAssumption DEF Ids
<1> QED
  BY <1>1, <1>2 DEF Init, TypeInv, TypeOK, EntryType, Names

(* A task that is registered takes the next id, which is in range.         *)
LEMMA RegisterType ==
  ASSUME TypeOK, NEW name \in Names, nextId < MaxTasks, Register(name)
  PROVE  /\ handles' \in Seq(EntryType) /\ registry' \in Seq(EntryType)
         /\ nextId' = nextId + 1
         /\ driver' \in [Ids -> {"none", "live", "finished", "aborted", "returned"}]
         /\ removeRequested' \in [Ids -> BOOLEAN]
<1>1. nextId \in Ids
  BY ConstantsAssumption DEF TypeOK, Ids
<1>2. [id |-> nextId, name |-> name] \in EntryType
  BY <1>1 DEF EntryType
<1>3. handles' \in Seq(EntryType)
  BY <1>2, AppendProperties DEF TypeOK, Register, NewId, EntryType
<1> QED
  BY <1>1, <1>3 DEF TypeOK, Register, NewId, Refreshed

(* What a step that may add a task does to the tasks of the scheduler.     *)
LEMMA Adds ==
  ASSUME TypeInv, AddTask \/ Discover \/ TakeSpawn
  PROVE  /\ spc \in {"setup", "stopped", "discover", "drain"}
         /\ spc' = IF spc = "discover" THEN "drain" ELSE spc
         /\ \/ UNCHANGED <<owned, cells>>
            \/ nextId < MaxTasks /\ \E name \in Names : ~Taken(name) /\ Register(name)
         /\ UNCHANGED <<now, mode, starts, pos, permit, call, calls>>
<1>1. CASE AddTask
  <2>1. nextId < MaxTasks
    <3>1. Len(queue) \in Nat /\ tasks < MaxTasks
      BY <1>1, LenProperties DEF AddTask, HandIn, TypeInv, TypeOK
    <3> QED
      BY <3>1, ConstantsAssumption DEF TypeInv, TypeOK
  <2> QED
    BY <1>1, <2>1 DEF AddTask, Idle, AddTaskGetId
<1>2. CASE Discover
  <2>1. HandIn => nextId < MaxTasks
    <3>1. Len(queue) \in Nat
      BY LenProperties DEF TypeInv, TypeOK
    <3> QED
      BY <3>1, ConstantsAssumption DEF HandIn, TypeInv, TypeOK
  <2> QED
    BY <1>2, <2>1 DEF Discover, AddTaskGetId
<1>3. CASE TakeSpawn
  <2>1. Head(queue) \in Names /\ Len(queue) \in Nat \ {0}
    BY <1>3, HeadTailProperties, EmptySeq DEF TakeSpawn, TypeInv, TypeOK
  <2>2. nextId < MaxTasks
    BY <2>1, ConstantsAssumption DEF TypeInv, TypeOK
  <2> QED
    BY <1>3, <2>1, <2>2 DEF TakeSpawn, AddTaskGetId
<1> QED
  BY <1>1, <1>2, <1>3

(* Adding a task keeps the types. *)
LEMMA TypeAdds ==
  ASSUME TypeInv, AddTask \/ Discover \/ TakeSpawn
  PROVE  TypeInv'
<1>1. /\ handles' \in Seq(EntryType) /\ registry' \in Seq(EntryType)
      /\ nextId' = nextId \/ nextId' = nextId + 1
      /\ driver' \in [Ids -> {"none", "live", "finished", "aborted", "returned"}]
      /\ removeRequested' \in [Ids -> BOOLEAN]
  BY Adds, RegisterType DEF TypeInv, TypeOK, EntryType
<1>2. /\ spc' \in {"setup", "stopped", "discover", "drain"}
      /\ UNCHANGED <<now, mode, starts, pos, permit, call, calls>>
  <2>1. /\ spc \in {"setup", "stopped", "discover", "drain"}
        /\ spc' = IF spc = "discover" THEN "drain" ELSE spc
        /\ UNCHANGED <<now, mode, starts, pos, permit, call, calls>>
    BY Adds, Zenon
  <2> QED
    BY <2>1
<1>3. /\ genNext' \in Nat /\ discoveries' \in Nat
      /\ queue' \in Seq(Names)
      /\ tasks' \in Nat /\ tasks' <= MaxTasks /\ nextId' + Len(queue') <= tasks'
  <2>0. Len(queue) \in Nat /\ tasks \in Nat /\ nextId \in Nat /\ MaxTasks \in Nat
    BY LenProperties, ConstantsAssumption DEF TypeInv, TypeOK
  <2>1. CASE AddTask
    BY <1>1, <2>0, <2>1 DEF AddTask, HandIn, TypeInv, TypeOK
  <2>2. CASE Discover
    <3>1. genNext' = Upcoming /\ discoveries' \in Nat /\ UNCHANGED queue
      BY <2>2 DEF Discover, Rescheduled, TypeInv, TypeOK
    <3>2. \/ UNCHANGED <<nextId, tasks>>
          \/ tasks < MaxTasks /\ tasks' = tasks + 1
      BY <2>2 DEF Discover, HandIn
    <3> QED
      BY <1>1, <2>0, <3>1, <3>2, UpcomingType DEF TypeInv, TypeOK
  <2>3. CASE TakeSpawn
    <3>1. queue' \in Seq(Names) /\ Len(queue') = Len(queue) - 1 /\ UNCHANGED <<tasks, gen>>
      BY <2>3, HeadTailProperties DEF TakeSpawn, TypeInv, TypeOK
    <3> QED
      BY <1>1, <2>0, <3>1 DEF TypeInv, TypeOK
  <2> QED
    BY <2>1, <2>2, <2>3
<1> QED
  BY <1>1, <1>2, <1>3 DEF TypeInv, TypeOK, EntryType

(* An entry of a vector has an id and a name. *)
LEMMA EntryOf ==
  ASSUME NEW s \in Seq(EntryType), NEW k \in DOMAIN s
  PROVE  s[k] \in EntryType /\ s[k].id \in Ids /\ s[k].name \in Names
<1>1. s[k] \in EntryType
  BY LenProperties, ElementOfSeq
<1> QED
  BY <1>1 DEF EntryType

(* Taking a handle out of the vector keeps the types. *)
LEMMA TypeReap ==
  ASSUME TypeInv, Reap
  PROVE  TypeInv'
<1> USE DEF TypeInv, TypeOK
<1>1. pos \in DOMAIN handles /\ handles \in Seq(EntryType)
  BY DEF Reap, EntryType
<1>2. handles[pos].id \in Ids
  BY <1>1, EntryOf
<1>3. \/ handles' = SubSeq(handles, 1, pos - 1) \o SubSeq(handles, pos + 1, Len(handles))
      \/ UNCHANGED handles
  BY DEF Reap
<1>4. handles' \in Seq(EntryType)
  BY <1>1, <1>3, RemoveEntry
<1>5. driver' \in [Ids -> {"none", "live", "finished", "aborted", "returned"}]
  BY <1>2 DEF Reap, Abort
<1>6. pos' = pos \/ pos' = pos + 1
  BY DEF Reap
<1>7. UNCHANGED <<now, tasks, nextId, registry, removeRequested, spc, mode, starts, permit, queue,
                  client, gen>>
  BY DEF Reap
<1> QED
  BY <1>4, <1>5, <1>6, <1>7 DEF EntryType

(* Every step keeps the types. *)
LEMMA TypeStep ==
  ASSUME TypeInv, [Next]_vars
  PROVE  TypeInv'
<1>0. /\ Len(queue) \in Nat /\ tasks \in Nat /\ MaxTasks \in Nat /\ nextId \in Nat
      /\ <<>> \in Seq(EntryType) /\ <<>> \in Seq(Names) /\ Len(<<>>) = 0
      /\ 0 \in Ids
  BY LenProperties, EmptySeq, ConstantsAssumption DEF TypeInv, TypeOK, Ids
<1> USE DEF TypeInv, TypeOK
<1>1. CASE AddTask \/ Discover \/ TakeSpawn
  BY <1>1, TypeAdds
<1>2. CASE SetTaskGen
  BY <1>2, UpcomingType DEF SetTaskGen
<1>3. CASE StartRun
  BY <1>3 DEF StartRun
<1>4. CASE CancelRun
  BY <1>4 DEF CancelRun
<1>5. CASE Drop
  BY <1>0, <1>5 DEF Drop, EntryType
<1>6. CASE DropHandles
  BY <1>0, <1>6 DEF DropHandles, EntryType
<1>7. CASE StopTasks
  BY <1>0, <1>7 DEF StopTasks, EntryType
<1>8. CASE ClearRegistry
  BY <1>0, <1>8 DEF ClearRegistry, EntryType
<1>9. CASE BeginTick
  BY <1>9 DEF BeginTick, AfterCheck
<1>10. CASE ScheduleEnds
  BY <1>10 DEF ScheduleEnds
<1>11. CASE BeginRound
  BY <1>11 DEF BeginRound
<1>12. CASE Reap
  BY <1>12, TypeReap
<1>13. CASE EndRound
  BY <1>13 DEF EndRound, Refreshed
<1>14. CASE Spawn
  <2>1. PICK name \in Names : queue' = Append(queue, name)
    BY <1>14 DEF Spawn
  <2>2. queue' \in Seq(Names) /\ Len(queue') = Len(queue) + 1
    BY <2>1, AppendProperties
  <2> QED
    BY <1>0, <1>14, <2>2 DEF Spawn, HandIn
<1>15. ASSUME NEW h \in Client, FindName(h) PROVE TypeInv'
  <2>1. PICK k \in DOMAIN registry : call' = [call EXCEPT ![h] = registry[k]]
    BY <1>15 DEF FindName
  <2>2. registry[k] \in EntryType
    <3>1. registry \in Seq(EntryType)
      BY DEF EntryType
    <3> QED
      BY <3>1, EntryOf
  <2> QED
    BY <1>15, <2>1, <2>2 DEF FindName, EntryType
<1>16. ASSUME NEW h \in Client, ActOnId(h) PROVE TypeInv'
  <2>1. [id |-> 0, name |-> NoName] \in EntryType
    BY <1>0 DEF EntryType, Names
  <2>2. call' \in [Client -> EntryType]
    BY <1>16, <2>1 DEF ActOnId, EntryType
  <2>3. removeRequested' \in [Ids -> BOOLEAN]
    BY <1>16 DEF ActOnId, WithEntry
  <2> QED
    BY <1>16, <2>2, <2>3 DEF ActOnId, EntryType
<1>17. ASSUME NEW h \in Client, CallById(h) PROVE TypeInv'
  <2>1. removeRequested' \in [Ids -> BOOLEAN]
    BY <1>17 DEF CallById, WithEntry
  <2> QED
    BY <1>17, <2>1 DEF CallById
<1>18. CASE Shutdown
  BY <1>18 DEF Shutdown
<1>19. ASSUME NEW i \in Ids, DriverFinishes(i) PROVE TypeInv'
  BY <1>19 DEF DriverFinishes
<1>20. CASE Advance
  BY <1>20 DEF Advance
<1>21. CASE UNCHANGED vars
  BY <1>21 DEF vars
<1> QED
  BY <1>1, <1>2, <1>3, <1>4, <1>5, <1>6, <1>7, <1>8, <1>9, <1>10, <1>11, <1>12, <1>13, <1>14,
     <1>15, <1>16, <1>17, <1>18, <1>19, <1>20, <1>21 DEF Next, Loop, Owner, Others

(* Hence the types are kept in every behaviour. *)
LEMMA TypeInvCorrect == Spec => []TypeInv
  BY TypeInit, TypeStep, PTL DEF Spec

(* Type correctness: every cell keeps a value of its type; in particular   *)
(* the ids that were given stay below the number of tasks handed in.       *)
THEOREM RegistryTypes == Spec => []TypeOK
<1>1. TypeInv => TypeOK
  BY DEF TypeInv
<1> QED
  BY <1>1, TypeInvCorrect, PTL

-----------------------------------------------------------------------------
(* The scheduler's tasks and what handles see.                             *)

(* What the vector of the scheduler, the registry and the ids hold         *)
(* together.  Names and ids are not given twice, so an entry that a caller *)
(* has looked up can go but never become another.                          *)
RegInv ==
  /\ spc \in {"stopping", "dropped"} => handles = <<>>
  /\ EntriesOf(handles) \subseteq EntriesOf(registry)
  /\ \A e \in EntriesOf(registry) : e.id < nextId
  /\ \A e, f \in EntriesOf(registry) : e.id = f.id => e = f
  /\ \A h \in Client : call[h].name # NoName =>
       /\ call[h].id < nextId
       /\ \A e \in EntriesOf(registry) : e.id = call[h].id => e = call[h]
  /\ RegistryLagsOneRound
  /\ LiveIsRegistered

(* The ids of a vector are those of its entries. *)
LEMMA IdsOfEntries == \A s : IdsOf(s) = {e.id : e \in EntriesOf(s)}
  BY DEF IdsOf, EntriesOf

(* An empty vector has no entries. *)
LEMMA NoEntries == EntriesOf(<<>>) = {} /\ IdsOf(<<>>) = {}
  BY DEF IdsOf, EntriesOf

(* The invariant holds at the start. *)
LEMMA RegInit == Init => RegInv
  BY NoEntries DEF Init, RegInv, RegistryLagsOneRound, LiveIsRegistered

(* What a task that is registered changes: one entry more, with a new id,  *)
(* which is at once in the registry, and a driver that lives.              *)
LEMMA Registered ==
  ASSUME TypeInv, NEW name \in Names, nextId < MaxTasks, Register(name)
  PROVE  /\ registry' = handles'
         /\ EntriesOf(handles') = EntriesOf(handles) \union {[id |-> nextId, name |-> name]}
         /\ IdsOf(handles') = IdsOf(handles) \union {nextId}
         /\ nextId \in Ids /\ nextId' = nextId + 1
         /\ driver' = [driver EXCEPT ![nextId] = "live"]
<1>1. nextId \in Ids
  BY ConstantsAssumption DEF TypeInv, TypeOK, Ids
<1>2. [id |-> nextId, name |-> name] \in EntryType /\ handles \in Seq(EntryType)
  BY <1>1 DEF TypeInv, TypeOK, EntryType
<1>3. EntriesOf(handles') = EntriesOf(handles) \union {[id |-> nextId, name |-> name]}
  <2> DEFINE new == [id |-> nextId, name |-> name]
  <2>1. handles' = Append(handles, new)
    BY DEF Register, NewId
  <2>2. new \in EntryType
    BY <1>2
  <2> HIDE DEF new
  <2>3. EntriesOf(Append(handles, new)) = EntriesOf(handles) \union {new}
    BY <1>2, <2>2, AppendEntries
  <2>4. EntriesOf(handles') = EntriesOf(handles) \union {new}
    BY <2>1, <2>3, Zenon
  <2> QED
    BY <2>4, Zenon DEF new
<1>4. IdsOf(handles') = IdsOf(handles) \union {nextId}
  <2>1. /\ IdsOf(handles') = {e.id : e \in EntriesOf(handles')}
        /\ IdsOf(handles) = {e.id : e \in EntriesOf(handles)}
    BY IdsOfEntries, Zenon
  <2>2. \A A, e : {f.id : f \in A \union {e}} = {f.id : f \in A} \union {e.id}
    OBVIOUS
  <2>3. [id |-> nextId, name |-> name].id = nextId
    OBVIOUS
  <2> QED
    BY <1>3, <2>1, <2>2, <2>3, Zenon
<1> QED
  BY <1>1, <1>3, <1>4 DEF Register, NewId, Refreshed

(* Adding a task keeps the invariant. *)
LEMMA RegAdds ==
  ASSUME TypeInv, RegInv, AddTask \/ Discover \/ TakeSpawn
  PROVE  RegInv'
<1>1. /\ spc \in {"setup", "stopped", "discover", "drain"}
      /\ spc' = IF spc = "discover" THEN "drain" ELSE spc
      /\ UNCHANGED call
      /\ \/ UNCHANGED <<owned, cells>>
         \/ nextId < MaxTasks /\ \E name \in Names : Register(name)
  BY Adds
<1>2. CASE UNCHANGED <<owned, cells>>
  BY <1>1, <1>2 DEF RegInv, RegistryLagsOneRound, LiveIsRegistered
<1>3. ASSUME nextId < MaxTasks, NEW name \in Names, Register(name) PROVE RegInv'
  <2> DEFINE new == [id |-> nextId, name |-> name]
  <2>1. /\ registry' = handles'
        /\ EntriesOf(handles') = EntriesOf(handles) \union {new}
        /\ IdsOf(handles') = IdsOf(handles) \union {nextId}
        /\ nextId \in Ids /\ nextId' = nextId + 1
        /\ driver' = [driver EXCEPT ![nextId] = "live"]
    BY <1>3, Registered
  <2>2. registry = handles /\ spc' \notin {"reap", "stopping", "dropped"}
    BY <1>1 DEF RegInv, RegistryLagsOneRound
  <2>3. nextId \in Nat /\ \A e \in EntriesOf(handles) : e.id < nextId /\ e.id \in Ids
    BY <2>2, EntryOf DEF RegInv, TypeInv, TypeOK, EntriesOf, EntryType
  <2>4. \A e \in EntriesOf(handles') : e.id < nextId'
    BY <2>1, <2>3 DEF Ids
  <2>5. \A e, f \in EntriesOf(handles') : e.id = f.id => e = f
    BY <2>1, <2>2, <2>3 DEF RegInv, Ids
  <2>6. ASSUME NEW h \in Client, call'[h].name # NoName
        PROVE  /\ call'[h].id < nextId'
               /\ \A e \in EntriesOf(handles') : e.id = call'[h].id => e = call'[h]
    <3>1. call'[h] = call[h] /\ call[h].id < nextId /\ call[h].id \in Ids
      BY <1>1, <2>6 DEF RegInv, TypeInv, TypeOK
    <3>2. call[h].id \in Nat
      BY <3>1, ConstantsAssumption DEF Ids
    <3> QED
      BY <1>1, <2>1, <2>2, <2>3, <2>6, <3>1, <3>2 DEF RegInv
  <2>7. LiveIsRegistered'
    BY <1>1, <2>1, <2>2 DEF RegInv, LiveIsRegistered, TypeInv, TypeOK
  <2>8. RegistryLagsOneRound'
    BY <2>1, <2>2 DEF RegistryLagsOneRound
  <2> QED
    BY <2>1, <2>2, <2>4, <2>5, <2>6, <2>7, <2>8 DEF RegInv
<1> QED
  BY <1>1, <1>2, <1>3

(* A task that is taken out of the vector stays in the registry until the  *)
(* round ends, but its driver is aborted.                                  *)
LEMMA RegReap ==
  ASSUME TypeInv, RegInv, Reap
  PROVE  RegInv'
<1>1. CASE UNCHANGED <<driver, handles>>
  BY <1>1 DEF Reap, RegInv, RegistryLagsOneRound, LiveIsRegistered
<1>2. CASE ~UNCHANGED <<driver, handles>>
  <2> DEFINE i == handles[pos].id
  <2>1. /\ spc = "reap" /\ pos \in DOMAIN handles
        /\ handles' = SubSeq(handles, 1, pos - 1) \o SubSeq(handles, pos + 1, Len(handles))
        /\ driver' = [driver EXCEPT ![i] = "aborted"]
        /\ UNCHANGED <<registry, nextId, call, spc>>
    BY <1>2 DEF Reap, Abort
  <2>2. handles \in Seq(EntryType)
    BY DEF TypeInv, TypeOK, EntryType
  <2>3. i \in Ids
    BY <2>1, <2>2, EntryOf
  <2>4. /\ EntriesOf(handles') \subseteq EntriesOf(handles)
        /\ EntriesOf(handles) \subseteq EntriesOf(handles') \union {handles[pos]}
    <3> DEFINE r == SubSeq(handles, 1, pos - 1) \o SubSeq(handles, pos + 1, Len(handles))
    <3>1. /\ EntriesOf(r) \subseteq EntriesOf(handles)
          /\ EntriesOf(handles) \subseteq EntriesOf(r) \union {handles[pos]}
      BY <2>1, <2>2, RemoveEntry, ZenonT(30)
    <3> QED
      BY <2>1, <3>1, Zenon
  <2>5. /\ IdsOf(handles') \subseteq IdsOf(handles)
        /\ IdsOf(handles) \subseteq IdsOf(handles') \union {i}
    BY <2>4, IdsOfEntries
  <2> HIDE DEF i
  <2>6. RegistryLagsOneRound'
    BY <2>1, <2>3, <2>5 DEF RegInv, RegistryLagsOneRound, TypeInv, TypeOK
  <2>7. LiveIsRegistered'
    BY <2>1, <2>3, <2>5 DEF RegInv, LiveIsRegistered, TypeInv, TypeOK
  <2> QED
    BY <2>1, <2>4, <2>6, <2>7 DEF RegInv
<1> QED
  BY <1>1, <1>2

(* The end of a round, of the loop and of the scheduler keep it.           *)
LEMMA RegEnds ==
  ASSUME TypeInv, RegInv, EndRound \/ StopTasks \/ ClearRegistry \/ Drop \/ DropHandles
  PROVE  RegInv'
<1> USE NoEntries DEF RegInv, RegistryLagsOneRound, LiveIsRegistered
<1>1. CASE EndRound
  <2>1. /\ spc = "reap" /\ spc' = "select" /\ registry' = handles
        /\ UNCHANGED <<handles, nextId, driver, call>>
    BY <1>1 DEF EndRound, Refreshed
  <2>2. LiveIsRegistered' /\ RegistryLagsOneRound'
    BY <2>1
  <2>3. ASSUME NEW h \in Client, call'[h].name # NoName
        PROVE  /\ call'[h].id < nextId'
               /\ \A e \in EntriesOf(handles) : e.id = call'[h].id => e = call'[h]
    BY <2>1, <2>3
  <2> QED
    BY <2>1, <2>2, <2>3
<1>2. CASE StopTasks
  <2>1. /\ spc = "select" /\ spc' = "stopping" /\ handles' = <<>>
        /\ driver' = [i \in Ids |-> IF i \in IdsOf(handles) THEN "aborted" ELSE driver[i]]
        /\ UNCHANGED <<registry, nextId, call>>
    BY <1>2 DEF StopTasks
  <2>2. registry = handles /\ IdsOf(handles') = {}
    <3>1. registry = handles
      BY <2>1
    <3>2. IdsOf(handles') = {}
      BY <2>1, NoEntries, Zenon
    <3> QED
      BY <3>1, <3>2
  <2>3. IdsOf(registry) \subseteq Ids
    <3>1. registry \in Seq(EntryType)
      BY DEF TypeInv, TypeOK, EntryType
    <3>2. \A k \in DOMAIN registry : registry[k].id \in Ids
      BY <3>1, EntryOf
    <3> QED
      BY <3>2 DEF IdsOf
  <2>4. \A i \in IdsOf(registry) : driver'[i] = "aborted"
    BY <2>1, <2>2, <2>3
  <2>5. RegistryLagsOneRound'
    BY <2>1, <2>2, <2>4
  <2>6. LiveIsRegistered'
    BY <2>1, <2>2
  <2> QED
    BY <2>1, <2>2, <2>5, <2>6
<1>3. CASE ClearRegistry
  BY <1>3 DEF ClearRegistry
<1>4. CASE Drop
  BY <1>4 DEF Drop, Idle
<1>5. CASE DropHandles
  BY <1>5 DEF DropHandles
<1> QED
  BY <1>1, <1>2, <1>3, <1>4, <1>5

(* A caller that looks a name up gets an entry of the registry, and one    *)
(* that acts leaves the registry as it is.                                 *)
LEMMA RegCalls ==
  ASSUME TypeInv, RegInv, NEW h \in Client, FindName(h) \/ ActOnId(h) \/ CallById(h)
  PROVE  RegInv'
<1>1. CASE FindName(h)
  <2>1. PICK k \in DOMAIN registry : call' = [call EXCEPT ![h] = registry[k]]
    BY <1>1 DEF FindName
  <2>2. registry[k] \in EntriesOf(registry)
    BY DEF EntriesOf
  <2>3. UNCHANGED <<owned, driver, spc>>
    BY <1>1 DEF FindName
  <2>4. ASSUME NEW g \in Client, call'[g].name # NoName
        PROVE  /\ call'[g].id < nextId
               /\ \A e \in EntriesOf(registry) : e.id = call'[g].id => e = call'[g]
    <3>1. call'[g] = registry[k] \/ call'[g] = call[g]
      BY <2>1 DEF TypeInv, TypeOK
    <3> QED
      BY <2>2, <2>4, <3>1 DEF RegInv
  <2> QED
    BY <2>3, <2>4 DEF RegInv, RegistryLagsOneRound, LiveIsRegistered
<1>2. CASE ActOnId(h)
  <2>1. call' = [call EXCEPT ![h] = [id |-> 0, name |-> NoName]]
    BY <1>2 DEF ActOnId
  <2>2. UNCHANGED <<owned, driver, spc>>
    BY <1>2 DEF ActOnId
  <2>3. \A g \in Client : call'[g].name # NoName => call'[g] = call[g]
    BY <2>1 DEF TypeInv, TypeOK
  <2> QED
    BY <2>2, <2>3 DEF RegInv, RegistryLagsOneRound, LiveIsRegistered
<1>3. CASE CallById(h)
  BY <1>3 DEF CallById, RegInv, RegistryLagsOneRound, LiveIsRegistered
<1> QED
  BY <1>1, <1>2, <1>3

(* Every step keeps the invariant. *)
LEMMA RegStep ==
  ASSUME TypeInv, RegInv, [Next]_vars
  PROVE  RegInv'
<1>1. CASE AddTask \/ Discover \/ TakeSpawn
  BY <1>1, RegAdds
<1>2. CASE Reap
  BY <1>2, RegReap
<1>3. CASE EndRound \/ StopTasks \/ ClearRegistry \/ Drop \/ DropHandles
  BY <1>3, RegEnds
<1>4. ASSUME NEW h \in Client, FindName(h) \/ ActOnId(h) \/ CallById(h) PROVE RegInv'
  BY <1>4, RegCalls
<1>5. ASSUME NEW i \in Ids, DriverFinishes(i) PROVE RegInv'
  BY <1>5 DEF DriverFinishes, RegInv, RegistryLagsOneRound, LiveIsRegistered, TypeInv, TypeOK
<1>6. CASE SetTaskGen \/ StartRun \/ CancelRun \/ BeginTick \/ ScheduleEnds \/ BeginRound
  <2>1. /\ UNCHANGED <<owned, driver, call>>
        /\ spc' \notin {"stopping", "dropped"} /\ spc \notin {"reap", "stopping", "dropped"}
    BY <1>6
    DEF SetTaskGen, StartRun, CancelRun, BeginTick, AfterCheck, ScheduleEnds, BeginRound, Idle
  <2> QED
    BY <2>1 DEF RegInv, RegistryLagsOneRound, LiveIsRegistered
<1>7. CASE Spawn \/ Shutdown \/ Advance \/ UNCHANGED vars
  <2>1. UNCHANGED <<owned, driver, call, spc>>
    BY <1>7 DEF Spawn, Shutdown, Advance, vars
  <2> QED
    BY <2>1 DEF RegInv, RegistryLagsOneRound, LiveIsRegistered
<1> QED
  BY <1>1, <1>2, <1>3, <1>4, <1>5, <1>6, <1>7 DEF Next, Loop, Owner, Others

(* Hence the invariant holds in every behaviour. *)
LEMMA RegCorrect == Spec => []RegInv
  BY RegInit, RegStep, TypeInvCorrect, PTL DEF Spec

(* What handles see is what the scheduler has, except between a retain or  *)
(* an abort and the next refresh; what they see besides is aborted.        *)
THEOREM LagIsOneRound == Spec => []RegistryLagsOneRound
<1>1. RegInv => RegistryLagsOneRound
  BY DEF RegInv
<1> QED
  BY <1>1, RegCorrect, PTL

(* No driver lives that handles cannot find, or that the scheduler would   *)
(* not abort: a task never runs on out of reach.                           *)
THEOREM LiveIsFound == Spec => []LiveIsRegistered
<1>1. RegInv => LiveIsRegistered
  BY DEF RegInv
<1> QED
  BY <1>1, RegCorrect, PTL

-----------------------------------------------------------------------------
(* Calls by name, and the answers of spawn_get_id.                         *)

(* An entry of the registry with an id is the one a lookup returns.        *)
LEMMA EntryFound ==
  ASSUME NEW i \in IdsOf(registry)
  PROVE  Entry(i) \in EntriesOf(registry) /\ Entry(i).id = i
<1>1. \E e \in EntriesOf(registry) : e.id = i
  BY DEF IdsOf, EntriesOf
<1> QED
  BY <1>1 DEF Entry, EntriesOf

(* The second lookup of a call by name finds the task of the first lookup, *)
(* or none: between the two, the name may have been freed and taken again, *)
(* but by a task with another id.                                          *)
THEOREM CallsHitTheirTask == Spec => NameCallHitsNamedTask
<1>1. ASSUME RegInv, NEW h \in Client, call[h].name # NoName, call[h].id \in IdsOf(registry)
      PROVE  Entry(call[h].id).name = call[h].name
  <2>1. /\ Entry(call[h].id) \in EntriesOf(registry)
        /\ Entry(call[h].id).id = call[h].id
    BY <1>1, EntryFound
  <2>2. Entry(call[h].id) = call[h]
    BY <1>1, <2>1 DEF RegInv
  <2> QED
    BY <2>2
<1>2. RegInv /\ [Next]_vars =>
        [\A h \in Client :
           call[h].name # NoName /\ call'[h].name = NoName /\ call[h].id \in IdsOf(registry) =>
             Entry(call[h].id).name = call[h].name]_vars
  BY <1>1
<1> QED
  BY <1>2, RegCorrect, PTL DEF Spec, NameCallHitsNamedTask

(* Only the loop takes requests out of the channel while it drains it.     *)
LEMMA OnlyTakeSpawnTakes ==
  ASSUME TypeInv, [Next]_vars, spc = "drain", Len(queue') < Len(queue)
  PROVE  TakeSpawn
<1>1. Len(queue) \in Nat
  BY LenProperties DEF TypeInv, TypeOK
<1>2. queue' # queue
  BY <1>1
<1>3. ~Spawn
  <2>1. \A name \in Names : Len(Append(queue, name)) = Len(queue) + 1
    BY AppendProperties DEF TypeInv, TypeOK
  <2> QED
    BY <1>1, <2>1 DEF Spawn
<1>4. ~Loop \/ TakeSpawn
  BY <1>2 DEF Loop, StopTasks, ClearRegistry, BeginTick, ScheduleEnds, Discover, BeginRound,
              Reap, EndRound
<1>5. ~StopTasks /\ ~Owner
  BY DEF StopTasks, Owner, AddTask, SetTaskGen, StartRun, CancelRun, Drop, DropHandles, Idle
<1>6. ~Others
  BY <1>2, <1>3 DEF Others, FindName, ActOnId, CallById, Shutdown, DriverFinishes, Advance
<1> QED
  BY <1>2, <1>4, <1>5, <1>6 DEF Next, vars

(* Whoever is answered can see why: the registry holds the task under the  *)
(* id in the answer, or the task that has the name.                        *)
LEMMA TakenIsVisible ==
  ASSUME TypeInv, RegInv, TakeSpawn
  PROVE  \E k \in DOMAIN registry' :
           /\ registry'[k].name = Head(queue)
           /\ nextId' # nextId => registry'[k].id = nextId
           /\ nextId' = nextId => Head(queue) # NoName
<1>1. registry = handles /\ nextId \in Nat
  BY DEF TakeSpawn, RegInv, RegistryLagsOneRound, TypeInv, TypeOK
<1>2. CASE Taken(Head(queue)) /\ UNCHANGED <<owned, cells>>
  <2>1. PICK k \in DOMAIN handles : handles[k].name = Head(queue)
    BY <1>2 DEF Taken
  <2>2. Head(queue) # NoName
    BY <1>2 DEF Taken
  <2> QED
    BY <1>1, <1>2, <2>1, <2>2
<1>3. CASE Register(Head(queue))
  <2> DEFINE new == [id |-> nextId, name |-> Head(queue)]
  <2>1. registry' = Append(handles, new) /\ nextId' = nextId + 1
    BY <1>3 DEF Register, NewId, Refreshed
  <2>2. Head(queue) \in Names /\ nextId \in Ids
    <3>1. Head(queue) \in Names /\ Len(queue) \in Nat \ {0}
      BY HeadTailProperties, EmptySeq DEF TakeSpawn, TypeInv, TypeOK
    <3> QED
      BY <3>1, ConstantsAssumption DEF TypeInv, TypeOK, Ids
  <2>3. new \in EntryType /\ handles \in Seq(EntryType)
    BY <2>2 DEF TypeInv, TypeOK, EntryType
  <2>4. new.id = nextId /\ new.name = Head(queue)
    OBVIOUS
  <2> HIDE DEF new
  <2>5. /\ Len(handles) + 1 \in DOMAIN Append(handles, new)
        /\ Append(handles, new)[Len(handles) + 1] = new
    BY <2>3, AppendProperties, LenProperties
  <2>6. nextId' # nextId
    BY <1>1, <2>1
  <2>7. /\ Len(handles) + 1 \in DOMAIN registry'
        /\ registry'[Len(handles) + 1] = new
    BY <2>1, <2>5, Zenon
  <2> QED
    BY <2>4, <2>6, <2>7, Zenon
<1> QED
  BY <1>2, <1>3 DEF TakeSpawn, AddTaskGetId

(* Hence it is so for every answer of every behaviour. *)
THEOREM AnswersAreVisible == Spec => AnswerIsVisible
<1>1. TypeInv /\ RegInv /\ [Next]_vars =>
        [spc = "drain" /\ Len(queue') < Len(queue) =>
           \E k \in DOMAIN registry' :
             /\ registry'[k].name = Head(queue)
             /\ nextId' # nextId => registry'[k].id = nextId
             /\ nextId' = nextId => Head(queue) # NoName]_vars
  BY OnlyTakeSpawnTakes, TakenIsVisible, Zenon
<1> QED
  BY <1>1, TypeInvCorrect, RegCorrect, PTL DEF Spec, AnswerIsVisible

-----------------------------------------------------------------------------
(* The generator.                                                          *)

(* The instants of the schedule before n that have come by time t. *)
Past(n, t) == {s \in GenSlots : s < n /\ s <= t}

(* There are finitely many, and time adds to them. *)
LEMMA PastGrows ==
  ASSUME NEW n \in Nat, NEW m \in Nat, NEW t \in Nat, NEW u \in Nat, n <= m, t <= u
  PROVE  /\ IsFiniteSet(Past(n, t)) /\ Cardinality(Past(n, t)) \in Nat
         /\ Cardinality(Past(n, t)) <= Cardinality(Past(m, u))
<1>1. GenSlots \subseteq Nat
  BY ConstantsAssumption
<1>2. Past(n, t) \subseteq Past(m, u) /\ Past(m, u) \subseteq 0..u
  <2>1. \A s \in GenSlots : /\ s < n /\ s <= t => s < m /\ s <= u
                            /\ s <= u => s \in 0..u
    BY <1>1
  <2> QED
    BY <2>1 DEF Past
<1>3. IsFiniteSet(0..u)
  BY FS_Interval
<1>4. IsFiniteSet(Past(m, u))
  BY <1>2, <1>3, FS_Subset
<1> QED
  BY <1>2, <1>4, FS_Subset, FS_CardinalityType

(* One instant that has come makes one more. *)
LEMMA PastNext ==
  ASSUME NEW n \in GenSlots, NEW m \in Nat, NEW t \in Nat, n <= t, t < m
  PROVE  Cardinality(Past(n, t)) + 1 <= Cardinality(Past(m, t))
<1>1. n \in Nat /\ GenSlots \subseteq Nat
  BY ConstantsAssumption
<1>2. /\ IsFiniteSet(Past(n, t)) /\ Cardinality(Past(n, t)) \in Nat
      /\ IsFiniteSet(Past(m, t))
  BY <1>1, PastGrows
<1>3. n \notin Past(n, t) /\ Past(n, t) \union {n} \subseteq Past(m, t)
  <2>1. \A s \in GenSlots : s <= t => s < m
    BY <1>1
  <2>2. ~ (n < n)
    BY <1>1
  <2> QED
    BY <2>1, <2>2 DEF Past
<1>4. Cardinality(Past(n, t) \union {n}) = Cardinality(Past(n, t)) + 1
  BY <1>2, <1>3, FS_AddElement
<1>5. Cardinality(Past(n, t) \union {n}) <= Cardinality(Past(m, t))
  BY <1>2, <1>3, FS_Subset
<1> QED
  BY <1>4, <1>5

(* The generator waits for an instant of its schedule; every discovery it  *)
(* has made was for an earlier one, and it makes the next one only when    *)
(* that instant has come.                                                  *)
GenInv ==
  /\ genNext = 0 => discoveries = 0
  /\ genNext # 0 => genNext \in GenSlots /\ discoveries <= Cardinality(Past(genNext, now))
  /\ spc = "discover" => GenDue

(* A discovery takes the generator on to the first instant in the future. *)
LEMMA GenDiscover ==
  ASSUME TypeInv, GenInv, Discover
  PROVE  GenInv'
<1>1. /\ spc' = "drain" /\ genNext' = Upcoming /\ discoveries' = discoveries + 1
      /\ now' = now /\ Upcoming # 0
  BY DEF Discover, Rescheduled
<1>2. Upcoming \in GenSlots /\ Upcoming > now /\ Upcoming \in Nat
  BY <1>1, UpcomingFirst, UpcomingType
<1>3. /\ genNext \in GenSlots /\ genNext <= now /\ genNext \in Nat /\ now \in Nat
      /\ discoveries <= Cardinality(Past(genNext, now)) /\ discoveries \in Nat
  BY DEF Discover, GenInv, GenDue, TypeInv, TypeOK
<1>4. /\ Cardinality(Past(genNext, now)) + 1 <= Cardinality(Past(Upcoming, now))
      /\ Cardinality(Past(genNext, now)) \in Nat
      /\ Cardinality(Past(Upcoming, now)) \in Nat
  BY <1>2, <1>3, PastNext, PastGrows
<1>5. discoveries + 1 <= Cardinality(Past(Upcoming, now))
  BY <1>3, <1>4
<1>6. genNext' # 0 /\ genNext' \in GenSlots /\ discoveries' <= Cardinality(Past(genNext', now'))
  BY <1>1, <1>2, <1>5, Zenon
<1> QED
  BY <1>1, <1>6 DEF GenInv

(* A generator that replaces another one starts with the first instant in  *)
(* the future too.                                                         *)
LEMMA GenSet ==
  ASSUME TypeInv, GenInv, SetTaskGen
  PROVE  GenInv'
<1>1. /\ spc' = spc /\ spc # "discover" /\ genNext' = Upcoming /\ discoveries' = discoveries
      /\ now' = now /\ Upcoming # 0
  BY DEF SetTaskGen, Idle
<1>2. Upcoming \in GenSlots /\ Upcoming > now /\ Upcoming \in Nat
  BY <1>1, UpcomingFirst, UpcomingType
<1>3. now \in Nat /\ genNext \in Nat /\ discoveries \in Nat
  BY DEF TypeInv, TypeOK
<1>4. Cardinality(Past(Upcoming, now)) \in Nat
  BY <1>2, <1>3, PastGrows
<1>5. CASE genNext = 0
  BY <1>1, <1>2, <1>4, <1>5 DEF GenInv
<1>6. CASE genNext # 0
  <2>1. \A s \in GenSlots : s <= now => s < Upcoming
    BY <1>2, <1>3, ConstantsAssumption
  <2>2. Past(genNext, now) \subseteq Past(Upcoming, now)
    BY <2>1 DEF Past
  <2>3. /\ Cardinality(Past(genNext, now)) <= Cardinality(Past(Upcoming, now))
        /\ Cardinality(Past(genNext, now)) \in Nat
    BY <1>2, <1>3, <2>2, PastGrows, FS_Subset
  <2>4. discoveries <= Cardinality(Past(Upcoming, now))
    BY <1>3, <1>4, <1>6, <2>3 DEF GenInv
  <2>5. genNext' # 0 /\ genNext' \in GenSlots /\ discoveries' <= Cardinality(Past(genNext', now'))
    BY <1>1, <1>2, <2>4, Zenon
  <2> QED
    BY <1>1, <2>5 DEF GenInv
<1> QED
  BY <1>5, <1>6

(* Time passes. *)
LEMMA GenAdvance ==
  ASSUME TypeInv, GenInv, Advance
  PROVE  GenInv'
<1>1. UNCHANGED <<spc, genNext, discoveries>> /\ now' = now + 1
  BY DEF Advance
<1>2. now \in Nat /\ genNext \in Nat /\ discoveries \in Nat
  BY DEF TypeInv, TypeOK
<1>3. /\ Cardinality(Past(genNext, now)) <= Cardinality(Past(genNext, now + 1))
      /\ Cardinality(Past(genNext, now)) \in Nat /\ Cardinality(Past(genNext, now + 1)) \in Nat
  BY <1>2, PastGrows
<1>4. genNext # 0 => discoveries <= Cardinality(Past(genNext, now + 1))
  BY <1>2, <1>3 DEF GenInv
<1>5. genNext' # 0 => discoveries' <= Cardinality(Past(genNext', now'))
  BY <1>1, <1>4, Zenon
<1>6. spc' = "discover" => GenDue'
  BY <1>1, <1>2 DEF GenInv, GenDue
<1> QED
  BY <1>1, <1>5, <1>6 DEF GenInv

(* Every other step leaves the generator alone, and a tick asks it for a   *)
(* discovery only if it is due.                                            *)
LEMMA GenOthers ==
  ASSUME [Next]_vars, ~Discover, ~SetTaskGen, ~Advance
  PROVE  /\ UNCHANGED <<now, gen>>
         /\ spc' = "discover" => spc = "discover" \/ GenDue
<1>1. CASE StopTasks \/ ClearRegistry \/ BeginTick \/ ScheduleEnds \/ TakeSpawn \/ BeginRound
           \/ Reap \/ EndRound
  BY <1>1 DEF StopTasks, ClearRegistry, BeginTick, AfterCheck, ScheduleEnds, TakeSpawn, BeginRound,
              Reap, EndRound
<1>2. CASE AddTask \/ StartRun \/ CancelRun \/ Drop \/ DropHandles
  BY <1>2 DEF AddTask, StartRun, CancelRun, Drop, DropHandles
<1>3. CASE Spawn \/ (\E h \in Client : FindName(h) \/ ActOnId(h) \/ CallById(h)) \/ Shutdown
           \/ (\E i \in Ids : DriverFinishes(i)) \/ UNCHANGED vars
  BY <1>3 DEF Spawn, FindName, ActOnId, CallById, Shutdown, DriverFinishes, vars
<1> QED
  BY <1>1, <1>2, <1>3 DEF Next, Loop, Owner, Others

(* Hence the generator makes at most one discovery per instant of its      *)
(* schedule that has come.                                                 *)
THEOREM OneDiscoveryPerInstant == Spec => []DiscoveryPerInstant
<1>1. Init => GenInv
  BY DEF Init, GenInv
<1>2. ASSUME TypeInv, GenInv, [Next]_vars PROVE GenInv'
  <2>1. CASE Discover \/ SetTaskGen \/ Advance
    BY <1>2, <2>1, GenDiscover, GenSet, GenAdvance
  <2>2. CASE ~(Discover \/ SetTaskGen \/ Advance)
    <3>1. UNCHANGED <<now, gen>> /\ (spc' = "discover" => spc = "discover" \/ GenDue)
      BY <1>2, <2>2, GenOthers
    <3> QED
      BY <1>2, <3>1 DEF GenInv, GenDue
  <2> QED
    BY <2>1, <2>2
<1>3. TypeInv /\ GenInv => DiscoveryPerInstant
  <2> SUFFICES ASSUME TypeInv, GenInv PROVE DiscoveryPerInstant
    OBVIOUS
  <2> DEFINE come == {s \in GenSlots : s <= now}
  <2>1. now \in Nat /\ genNext \in Nat /\ discoveries \in Nat
    BY DEF TypeInv, TypeOK
  <2>2. come = Past(now + 1, now)
    <3>1. ASSUME NEW s \in GenSlots, s <= now PROVE s < now + 1
      <4>1. s \in Nat
        BY ConstantsAssumption
      <4> QED
        BY <2>1, <3>1, <4>1
    <3> QED
      BY <3>1 DEF Past
  <2>3. IsFiniteSet(come) /\ Cardinality(come) \in Nat
    <3>1. now + 1 \in Nat /\ now + 1 <= now + 1 /\ now <= now
      BY <2>1
    <3>2. /\ IsFiniteSet(Past(now + 1, now))
          /\ Cardinality(Past(now + 1, now)) \in Nat
      BY <2>1, <3>1, PastGrows, Zenon
    <3> QED
      BY <2>2, <3>2, Zenon
  <2>4. Past(genNext, now) \subseteq come
    BY DEF Past
  <2>5. /\ Cardinality(Past(genNext, now)) <= Cardinality(come)
        /\ Cardinality(Past(genNext, now)) \in Nat
    BY <2>1, <2>3, <2>4, PastGrows, FS_Subset
  <2> QED
    BY <2>1, <2>3, <2>5 DEF GenInv, DiscoveryPerInstant
<1> QED
  BY <1>1, <1>2, <1>3, TypeInvCorrect, PTL DEF Spec

-----------------------------------------------------------------------------
(* The directory.                                                          *)

(* A task that is registered enters the directory, under its name if that  *)
(* is free, and under an id greater than all before.                       *)
LEMMA EntersDirectory ==
  ASSUME TypeInv, RegInv, AddTask \/ Discover \/ TakeSpawn
  PROVE  D!Next \/ UNCHANGED <<registry, nextId>>
<1>1. CASE UNCHANGED <<owned, cells>>
  BY <1>1
<1>2. ASSUME nextId < MaxTasks, NEW name \in Names, ~Taken(name), Register(name)
      PROVE  D!Enter(name)
  <2>1. /\ registry' = handles' /\ nextId' = nextId + 1
        /\ EntriesOf(handles') = EntriesOf(handles) \union {[id |-> nextId, name |-> name]}
    BY <1>2, Registered
  <2>2. registry = handles
    BY Adds DEF RegInv, RegistryLagsOneRound
  <2>3. EntriesOf(registry') = EntriesOf(registry) \union {[id |-> nextId, name |-> name]}
    BY <2>1, <2>2, Zenon
  <2>4. \A e \in EntriesOf(registry) : e.name = name => name = NoName
    BY <1>2, <2>2 DEF Taken, EntriesOf
  <2> QED
    BY <2>1, <2>3, <2>4, Zenon DEF D!Enter, EntriesOf
<1>3. \/ UNCHANGED <<owned, cells>>
      \/ nextId < MaxTasks /\ \E name \in Names : ~Taken(name) /\ Register(name)
  BY Adds, Zenon
<1> QED
  BY <1>1, <1>2, <1>3, Zenon DEF D!Next, Names

(* What the registry holds besides the scheduler's tasks leaves it at the  *)
(* end of a round, and all the rest with the loop and the handles.         *)
LEMMA LeavesDirectory ==
  ASSUME RegInv, EndRound \/ ClearRegistry \/ DropHandles
  PROVE  D!Leave
<1>1. UNCHANGED nextId
  BY DEF EndRound, ClearRegistry, DropHandles
<1>2. registry' = handles \/ registry' = <<>>
  BY DEF EndRound, Refreshed, ClearRegistry, DropHandles
<1>3. EntriesOf(registry') \subseteq EntriesOf(registry)
  <2>1. EntriesOf(handles) \subseteq EntriesOf(registry)
    BY DEF RegInv
  <2> QED
    BY <1>2, <2>1, NoEntries, Zenon
<1> QED
  BY <1>1, <1>3, Zenon DEF D!Leave, EntriesOf

(* No other step changes what handles see, or gives an id. *)
LEMMA DirectoryUntouched ==
  ASSUME [Next]_vars,
         ~(AddTask \/ Discover \/ TakeSpawn), ~(EndRound \/ ClearRegistry \/ DropHandles)
  PROVE  UNCHANGED <<registry, nextId>>
<1>1. CASE StopTasks \/ BeginTick \/ ScheduleEnds \/ BeginRound \/ Reap
  BY <1>1 DEF StopTasks, BeginTick, ScheduleEnds, BeginRound, Reap
<1>2. CASE SetTaskGen \/ StartRun \/ CancelRun \/ Drop
  BY <1>2 DEF SetTaskGen, StartRun, CancelRun, Drop
<1>3. CASE Others \/ UNCHANGED vars
  BY <1>3
  DEF Others, Spawn, FindName, ActOnId, CallById, Shutdown, DriverFinishes, Advance, vars
<1> QED
  BY <1>1, <1>2, <1>3 DEF Next, Loop, Owner

(* Registry implements Directory: tasks enter what handles see one at a    *)
(* time, under new ids and free names, leave for good, and are never       *)
(* changed while they are in it.                                           *)
THEOREM RegistryIsDirectory == Spec => ImplementsDirectory
<1>1. Init => D!Init
  BY NoEntries DEF Init, D!Init, EntriesOf
<1>2. ASSUME TypeInv, RegInv, [Next]_vars
      PROVE  [D!Next]_<<{registry[k] : k \in DOMAIN registry}, nextId>>
  <2>1. CASE AddTask \/ Discover \/ TakeSpawn
    BY <1>2, <2>1, EntersDirectory
  <2>2. CASE EndRound \/ ClearRegistry \/ DropHandles
    BY <1>2, <2>2, LeavesDirectory DEF D!Next
  <2>3. CASE /\ ~(AddTask \/ Discover \/ TakeSpawn)
             /\ ~(EndRound \/ ClearRegistry \/ DropHandles)
    BY <1>2, <2>3, DirectoryUntouched
  <2> QED
    BY <2>1, <2>2, <2>3
<1> QED
  BY <1>1, <1>2, TypeInvCorrect, RegCorrect, PTL DEF Spec, ImplementsDirectory, D!Spec
=============================================================================
