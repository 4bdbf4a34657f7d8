-------------------------- MODULE SpendGuardProofs --------------------------
(***************************************************************************)
(* Theorems about SpendGuard.  The invariant behind the bound of the       *)
(* shared counter counts the calls it does not know of yet: those that     *)
(* were admitted by it and have not been recorded.  A call is admitted     *)
(* below the cap only, and then there are at most as many as jobs.  What a *)
(* window costs is bounded by accounts: each unit billed is counted, in a  *)
(* guard's memory, on its way, or charged to a failure or a death.         *)
(***************************************************************************)
EXTENDS SpendGuard, FiniteSetTheorems, TLAPS

\* The jobs whose call the shared counter admitted and does not count yet.
Pending == {j \in Jobs : job[j].pc \in {"call", "record"} /\ ~job[j].fallback}

Room == value + Cardinality(Pending) * MaxUnits <= Cap - 1 + Overshoot

\* A job that is to send EXPIRE is alone, and its key does not expire yet.
ExpireAlone ==
  \A j \in Jobs : At(j, "expire") =>
    /\ value > 0 /\ ~ttl
    /\ \A k \in Jobs : At(k, "expire") => k = j

IInv == TypeOK /\ ExpireAlone /\ Room

-----------------------------------------------------------------------------
(* Arithmetic and cardinalities *)

LEMMA Products ==
  ASSUME NEW a \in Nat, NEW b \in Nat, NEW m \in Nat
  PROVE  /\ a * m \in Nat
         /\ a <= b => a * m <= b * m
         /\ a + 1 <= b => a * m + m <= b * m
OBVIOUS

LEMMA Bounds ==
  ASSUME SpendAssumption
  PROVE  /\ Cap \in Nat /\ 0 < Cap /\ MaxUnits \in Nat /\ 0 < MaxUnits
         /\ MaxFaults \in Nat /\ MaxBilled \in Nat
BY DEF SpendAssumption

LEMMA SubsetCount ==
  ASSUME SpendAssumption, NEW P \in SUBSET Jobs
  PROVE  /\ IsFiniteSet(P) /\ Cardinality(P) \in Nat
         /\ Cardinality(Jobs) \in Nat /\ Cardinality(P) <= Cardinality(Jobs)
BY FS_Subset, FS_CardinalityType DEF SpendAssumption

\* Below the cap there is room for a call of every job.
LEMMA RoomBelowCap ==
  ASSUME SpendAssumption, NEW P \in SUBSET Jobs, NEW v \in Nat, v < Cap
  PROVE  v + Cardinality(P) * MaxUnits <= Cap - 1 + Overshoot
<1>1. Cardinality(P) * MaxUnits <= Cardinality(Jobs) * MaxUnits
  BY SubsetCount, Products DEF SpendAssumption
<1>2. Cardinality(P) * MaxUnits \in Nat /\ Cardinality(Jobs) * MaxUnits \in Nat
  BY SubsetCount, Products DEF SpendAssumption
<1>. QED  BY <1>1, <1>2 DEF Overshoot, SpendAssumption

\* There is room for fewer calls where there is room for more.
LEMMA RoomForFewer ==
  ASSUME SpendAssumption, NEW P \in SUBSET Jobs, NEW Q \in SUBSET P, NEW v \in Nat,
         v + Cardinality(P) * MaxUnits <= Cap - 1 + Overshoot
  PROVE  v + Cardinality(Q) * MaxUnits <= Cap - 1 + Overshoot
<1>1. Cardinality(Q) <= Cardinality(P) /\ Cardinality(P) \in Nat /\ Cardinality(Q) \in Nat
  BY SubsetCount, FS_Subset
<1>2. Cardinality(Q) * MaxUnits <= Cardinality(P) * MaxUnits
  BY <1>1, Products DEF SpendAssumption
<1>3. /\ Cardinality(Q) * MaxUnits \in Nat /\ Cardinality(P) * MaxUnits \in Nat
      /\ Cardinality(Jobs) * MaxUnits \in Nat
  BY <1>1, SubsetCount, Products DEF SpendAssumption
<1>. QED  BY <1>2, <1>3 DEF Overshoot, SpendAssumption

\* A pending call that is recorded takes the room it had.
LEMMA RoomRecorded ==
  ASSUME SpendAssumption, NEW P \in SUBSET Jobs, NEW j \in P, NEW v \in Nat,
         NEW u \in Nat, u <= MaxUnits,
         v + Cardinality(P) * MaxUnits <= Cap - 1 + Overshoot
  PROVE  v + u + Cardinality(P \ {j}) * MaxUnits <= Cap - 1 + Overshoot
<1>. DEFINE p == Cardinality(P)
            q == Cardinality(P \ {j})
<1>1. q = p - 1 /\ p \in Nat /\ q \in Nat
  BY SubsetCount, FS_RemoveElement, FS_CardinalityType
<1>2. q + 1 <= p  BY <1>1
<1>. HIDE DEF p, q
<1>3. q * MaxUnits + MaxUnits <= p * MaxUnits
  BY <1>1, <1>2, Products DEF SpendAssumption
<1>4. /\ q * MaxUnits \in Nat /\ p * MaxUnits \in Nat
      /\ Cardinality(Jobs) * MaxUnits \in Nat
  BY <1>1, SubsetCount, Products DEF SpendAssumption
<1>5. v + p * MaxUnits <= Cap - 1 + Overshoot  BY DEF p
<1>6. v + u + q * MaxUnits <= Cap - 1 + Overshoot
  BY <1>3, <1>4, <1>5 DEF Overshoot, SpendAssumption
<1>. QED  BY <1>6 DEF q

-----------------------------------------------------------------------------
(* Jobs *)

\* What a job in each place carries.
LEMMA JobShape ==
  ASSUME TypeOK, NEW j \in Jobs
  PROVE  /\ job[j].fallback \in BOOLEAN /\ job[j].memory \in Nat
         /\ job[j].pc \in {"gone", "ready", "call", "record", "expire"}
         /\ job[j].pc \in {"record", "expire"} => job[j].units \in Units
         /\ job[j].pc \notin {"record", "expire"} => job[j].units = 0
         /\ job[j] \in [pc : {"gone", "ready", "call", "record", "expire"},
                        fallback : BOOLEAN, memory : Nat, units : Nat]
BY DEF TypeOK, Units

Idlers == [pc : {"gone", "ready", "call"}, fallback : BOOLEAN, memory : Nat, units : {0}]
Payers == [pc : {"record", "expire"}, fallback : BOOLEAN, memory : Nat, units : Units]

\* Whether the EXPIRE was lost stays a truth value.
LEMMA LostIsBoolean ==
  ASSUME TypeOK, NEW j \in Jobs, Step(j)
  PROVE  lost' \in BOOLEAN
<1>1. lost \in BOOLEAN  BY DEF TypeOK
<1>2. CASE UNCHANGED lost  BY <1>1, <1>2
<1>3. CASE Record(j)
  <2>1. UNCHANGED lost \/ lost' = (lost \/ CreatesKey(job[j].units))
    BY <1>3 DEF Record
  <2>2. (lost \/ CreatesKey(job[j].units)) \in BOOLEAN  OBVIOUS
  <2>. QED  BY <1>2, <2>1, <2>2
<1>4. CASE Expire(j)
  <2>1. UNCHANGED lost \/ lost' = TRUE  BY <1>4 DEF Expire
  <2>. QED  BY <1>2, <2>1
<1>5. CASE Die(j)
  <2>1. lost' = (lost \/ At(j, "expire"))  BY <1>5 DEF Die
  <2>2. (lost \/ At(j, "expire")) \in BOOLEAN  OBVIOUS
  <2>. QED  BY <2>1, <2>2
<1>. QED  BY <1>2, <1>3, <1>4, <1>5 DEF Step, Start, End, Check, RealCall, Unbilled

\* A job changes, and none is to send EXPIRE that was not before.
LEMMA BecomesKept ==
  ASSUME IInv, NEW j \in Jobs, NEW n \in Idlers \cup Payers, Becomes(j, n),
         n.pc # "expire", value' \in Nat, value <= value', ttl' = ttl,
         billed' \in 0..MaxBilled, failed' \in Nat, died' \in Nat,
         failed' + died' <= MaxFaults, lost' \in BOOLEAN
  PROVE  TypeOK' /\ ExpireAlone'
<1>1. /\ job' \in [Jobs -> Idlers \cup Payers]
      /\ job'[j] = n
      /\ \A k \in Jobs : k # j => job'[k] = job[k]
  BY DEF IInv, TypeOK, Becomes, Idlers, Payers
<1>2. TypeOK'  BY <1>1 DEF IInv, TypeOK, Idlers, Payers
<1>3. ExpireAlone'  BY <1>1 DEF IInv, TypeOK, ExpireAlone, At
<1>. QED  BY <1>2, <1>3

\* A step that leaves the counter alone keeps the invariant, if it admits no call, or
\* one below the cap.
LEMMA CounterAlone ==
  ASSUME SpendAssumption, IInv, NEW j \in Jobs, NEW n \in Idlers \cup Payers,
         Becomes(j, n), n.pc # "expire", UNCHANGED <<value, ttl>>,
         billed' \in 0..MaxBilled, failed' \in Nat, died' \in Nat,
         failed' + died' <= MaxFaults, lost' \in BOOLEAN,
         n.pc \in {"call", "record"} /\ ~n.fallback => value < Cap \/ j \in Pending
  PROVE  IInv'
<1>0. value \in Nat /\ job \in [Jobs -> Idlers \cup Payers]
  BY DEF IInv, TypeOK, Idlers, Payers
<1>1. TypeOK' /\ ExpireAlone'  BY <1>0, BecomesKept
<1>2. Pending' \subseteq Jobs /\ Pending \subseteq Jobs /\ value' = value
  BY DEF Pending
<1>3. value + Cardinality(Pending') * MaxUnits <= Cap - 1 + Overshoot
  <2>1. CASE value < Cap
    BY <1>0, <1>2, <2>1, RoomBelowCap
  <2>2. CASE ~(value < Cap)
    <3>1. Pending' \subseteq Pending  BY <1>0, <2>2 DEF Becomes, Pending
    <3>. QED  BY <1>0, <1>2, <3>1, RoomForFewer DEF IInv, Room
  <2>. QED  BY <2>1, <2>2
<1>4. Room'  BY <1>2, <1>3 DEF Room
<1>. QED  BY <1>1, <1>4 DEF IInv

-----------------------------------------------------------------------------
(* Steps *)

\* Steps that read the counter, or do not ask for it.
LEMMA CallsKeep ==
  ASSUME SpendAssumption, IInv, NEW j \in Jobs,
         Start(j) \/ End(j) \/ Check(j) \/ RealCall(j) \/ Unbilled(j) \/ Die(j)
  PROVE  IInv'
<1>. lost' \in BOOLEAN  BY LostIsBoolean DEF IInv, Step
<1>0. /\ TypeOK /\ job \in [Jobs -> Idlers \cup Payers]
      /\ billed \in 0..MaxBilled /\ failed \in Nat /\ died \in Nat
      /\ failed + died <= MaxFaults
  BY DEF IInv, TypeOK, Idlers, Payers
<1>1. CASE Start(j)
  <2>. DEFINE n == [Gone EXCEPT !.pc = "ready"]
  <2>1. n \in Idlers /\ n.pc = "ready"  BY DEF Gone, Idlers
  <2>2. Becomes(j, n) /\ UNCHANGED <<value, ttl, billed, failed, died>>
    BY <1>1 DEF Start
  <2>. HIDE DEF n
  <2>. QED  BY <1>0, <2>1, <2>2, CounterAlone
<1>2. CASE End(j) \/ Die(j)
  <2>1. Gone \in Idlers /\ Gone.pc = "gone"  BY DEF Gone, Idlers
  <2>2. /\ Becomes(j, Gone) /\ UNCHANGED <<value, ttl, billed, failed>>
        /\ died' \in Nat /\ failed + died' <= MaxFaults
    BY <1>0, <1>2 DEF End, Die, SpendAssumption
  <2>. QED  BY <1>0, <2>1, <2>2, CounterAlone
<1>3. CASE Check(j)
  <2>1. PICK current \in {value, job[j].memory}, f \in BOOLEAN :
          /\ Admit(j, current, f) /\ UNCHANGED <<value, ttl, billed, died>>
          /\ ~f => current = value
          /\ failed' \in Nat /\ failed' + died <= MaxFaults
    <3>1. UNCHANGED <<value, ttl, billed, died>>  BY <1>3 DEF Check
    <3>2. CASE job[j].fallback /\ Admit(j, job[j].memory, TRUE) /\ UNCHANGED failed
      BY <1>0, <3>1, <3>2
    <3>3. CASE ~job[j].fallback /\ Admit(j, value, FALSE) /\ UNCHANGED failed
      BY <1>0, <3>1, <3>3
    <3>4. CASE CommandFails /\ Admit(j, job[j].memory, TRUE)
      <4>1. failed' \in Nat /\ failed' + died <= MaxFaults
        BY <1>0, <3>4, Bounds DEF CommandFails
      <4>. QED  BY <1>0, <3>1, <3>4, <4>1
    <3>. QED  BY <1>3, <3>2, <3>3, <3>4 DEF Check
  <2>. DEFINE n == [job[j] EXCEPT !.pc = IF Allows(current) THEN "call" ELSE "ready",
                                  !.fallback = f]
  <2>2. /\ n \in Idlers /\ n.pc \in {"call", "ready"}
        /\ (n.pc = "call" => current < Cap) /\ (~n.fallback => ~f)
    BY <1>0, <1>3, <2>1, JobShape DEF Check, At, Idlers, Allows
  <2>3. Becomes(j, n)  BY <2>1 DEF Admit
  <2>. HIDE DEF n
  <2>4. n.pc \in {"call", "record"} /\ ~n.fallback => value < Cap
    BY <2>1, <2>2
  <2>5. n.pc # "expire"  BY <2>2
  <2>. QED  BY <1>0, <2>1, <2>2, <2>3, <2>4, <2>5, CounterAlone
<1>4. CASE RealCall(j)
  <2>1. PICK u \in Units : /\ billed' = billed + u /\ billed + u <= MaxBilled
                           /\ Becomes(j, [job[j] EXCEPT !.pc = "record", !.units = u])
    BY <1>4 DEF RealCall
  <2>. DEFINE n == [job[j] EXCEPT !.pc = "record", !.units = u]
  <2>2. n \in Payers /\ n.pc = "record" /\ (~n.fallback => j \in Pending)
    BY <1>0, <1>4, JobShape DEF RealCall, At, Payers, Pending
  <2>3. billed' \in 0..MaxBilled  BY <1>0, <2>1 DEF Units, SpendAssumption
  <2>4. Becomes(j, n) /\ UNCHANGED <<value, ttl, failed, died>>
    BY <1>4, <2>1 DEF RealCall
  <2>. HIDE DEF n
  <2>. QED  BY <1>0, <2>2, <2>3, <2>4, CounterAlone
<1>5. CASE Unbilled(j)
  <2>. DEFINE n == [job[j] EXCEPT !.pc = "ready"]
  <2>1. n \in Idlers /\ n.pc = "ready"
    BY <1>0, <1>5, JobShape DEF Unbilled, At, Idlers
  <2>2. Becomes(j, n) /\ UNCHANGED <<value, ttl, billed, failed, died>>
    BY <1>5 DEF Unbilled
  <2>. HIDE DEF n
  <2>. QED  BY <1>0, <2>1, <2>2, CounterAlone
<1>. QED  BY <1>1, <1>2, <1>3, <1>4, <1>5

\* Recording a call takes the room that was kept for it.
LEMMA RecordKeeps ==
  ASSUME SpendAssumption, IInv, NEW j \in Jobs, Record(j)
  PROVE  IInv'
<1>. DEFINE u == job[j].units
<1>. TypeOK /\ lost' \in BOOLEAN  BY LostIsBoolean DEF IInv, Step
<1>0. /\ TypeOK /\ job \in [Jobs -> Idlers \cup Payers] /\ value \in Nat
      /\ billed \in 0..MaxBilled /\ failed \in Nat /\ died \in Nat
      /\ failed + died <= MaxFaults
  BY DEF IInv, TypeOK, Idlers, Payers
<1>1. /\ job[j].pc = "record" /\ u \in Nat /\ 0 < u /\ u <= MaxUnits
      /\ UNCHANGED <<ttl, billed, died>>
  BY <1>0, JobShape DEF Record, At, Units, SpendAssumption
<1>2. CASE job[j].fallback
  <2>. DEFINE n == [job[j] EXCEPT !.pc = "ready", !.units = 0, !.memory = @ + u]
  <2>0. job[j].memory + u \in Nat  BY <1>0, <1>1, JobShape
  <2>1. n \in Idlers /\ n.pc = "ready"  BY <1>0, <1>1, <2>0, JobShape DEF Idlers
  <2>2. Becomes(j, n) /\ UNCHANGED <<value, failed>>  BY <1>2 DEF Record
  <2>. HIDE DEF n
  <2>. QED  BY <1>0, <1>1, <2>1, <2>2, CounterAlone
<1>3. ASSUME ~job[j].fallback, NEW n \in Idlers \cup Payers, Becomes(j, n),
             n.pc \notin {"call", "record"}, value' \in {value, value + u}
      PROVE  Room'
  <2>1. j \in Pending /\ Pending \subseteq Jobs  BY <1>1, <1>3 DEF Pending
  <2>2. Pending' \subseteq Pending \ {j}  BY <1>0, <1>3 DEF Becomes, Pending
  <2>3. value + u + Cardinality(Pending \ {j}) * MaxUnits <= Cap - 1 + Overshoot
    BY <1>0, <1>1, <2>1, RoomRecorded DEF IInv, Room
  <2>4. value + u \in Nat /\ Pending \ {j} \subseteq Jobs  BY <1>0, <1>1, <2>1
  <2>5. value + u + Cardinality(Pending') * MaxUnits <= Cap - 1 + Overshoot
    BY <2>2, <2>3, <2>4, RoomForFewer
  <2>6. value + Cardinality(Pending') * MaxUnits <= Cap - 1 + Overshoot
    <3>1. Pending' \subseteq Pending  BY <2>2
    <3>. QED  BY <1>0, <2>1, <3>1, RoomForFewer DEF IInv, Room
  <2>. QED  BY <1>3, <2>5, <2>6 DEF Room
<1>4. CASE /\ ~job[j].fallback /\ value' = value + u /\ UNCHANGED failed
           /\ CreatesKey(u) /\ Becomes(j, [job[j] EXCEPT !.pc = "expire"])
  <2>. DEFINE n == [job[j] EXCEPT !.pc = "expire"]
  <2>1. n \in Payers /\ n.pc = "expire"  BY <1>0, <1>1, JobShape DEF Payers, Units
  <2>2. value = 0  BY <1>0, <1>1, <1>4 DEF CreatesKey
  <2>3. ~ttl /\ \A k \in Jobs : job[k].pc # "expire"
    BY <1>0, <2>2 DEF IInv, TypeOK, ExpireAlone, At
  <2>4. /\ job' \in [Jobs -> Idlers \cup Payers]
        /\ job'[j] = n
        /\ \A k \in Jobs : k # j => job'[k] = job[k]
    BY <1>0, <1>4, <2>1 DEF Becomes
  <2>. HIDE DEF n
  <2>5. value' \in Nat /\ value' > 0  BY <1>0, <1>1, <1>4
  <2>6. TypeOK'  BY <1>0, <1>1, <1>4, <2>4, <2>5 DEF TypeOK, Idlers, Payers
  <2>7. ExpireAlone'  BY <1>1, <2>3, <2>4, <2>5 DEF ExpireAlone, At
  <2>8. Room'  BY <1>3, <1>4, <2>1 DEF n
  <2>. QED  BY <2>6, <2>7, <2>8 DEF IInv
<1>5. CASE /\ ~job[j].fallback /\ value' = value + u /\ UNCHANGED failed
           /\ Becomes(j, [job[j] EXCEPT !.pc = "ready", !.units = 0])
  <2>. DEFINE n == [job[j] EXCEPT !.pc = "ready", !.units = 0]
  <2>1. n \in Idlers /\ n.pc = "ready"  BY <1>0, <1>1, JobShape DEF Idlers
  <2>2. Becomes(j, n)  BY <1>5
  <2>. HIDE DEF n
  <2>3. value' \in Nat /\ value <= value'  BY <1>0, <1>1, <1>5
  <2>4. TypeOK' /\ ExpireAlone'  BY <1>0, <1>1, <1>5, <2>1, <2>2, <2>3, BecomesKept
  <2>5. Room'  BY <1>3, <1>5, <2>1, <2>2
  <2>. QED  BY <2>4, <2>5 DEF IInv
<1>6. CASE /\ ~job[j].fallback /\ CommandFails
           /\ value' \in {value, value + u} /\ FallBack(j, "ready")
  <2>. DEFINE n == [job[j] EXCEPT !.pc = "ready", !.fallback = TRUE, !.units = 0,
                                  !.memory = @ + u]
  <2>0. job[j].memory + u \in Nat  BY <1>0, <1>1, JobShape
  <2>1. n \in Idlers /\ n.pc = "ready"  BY <1>0, <1>1, <2>0, JobShape DEF Idlers
  <2>2. Becomes(j, n)  BY <1>6 DEF FallBack
  <2>. HIDE DEF n
  <2>3. value' \in Nat /\ value <= value'  BY <1>0, <1>1, <1>6
  <2>4. failed' \in Nat /\ failed' + died <= MaxFaults
    BY <1>0, <1>6 DEF CommandFails, SpendAssumption
  <2>5. TypeOK' /\ ExpireAlone'  BY <1>0, <1>1, <2>1, <2>2, <2>3, <2>4, BecomesKept
  <2>6. Room'  BY <1>3, <1>6, <2>1, <2>2
  <2>. QED  BY <2>5, <2>6 DEF IInv
<1>. QED  BY <1>2, <1>4, <1>5, <1>6 DEF Record

LEMMA ExpireKeeps ==
  ASSUME SpendAssumption, IInv, NEW j \in Jobs, Expire(j)
  PROVE  IInv'
<1>. TypeOK /\ lost' \in BOOLEAN  BY LostIsBoolean DEF IInv, Step
<1>0. /\ TypeOK /\ job \in [Jobs -> Idlers \cup Payers] /\ value \in Nat
      /\ billed \in 0..MaxBilled /\ failed \in Nat /\ died \in Nat
      /\ failed + died <= MaxFaults
  BY DEF IInv, TypeOK, Idlers, Payers
<1>1. /\ job[j].pc = "expire" /\ job[j].units \in Nat
      /\ UNCHANGED <<value, billed, died>>
  BY <1>0, JobShape DEF Expire, At, Units
<1>2. PICK n \in Idlers : Becomes(j, n) /\ n.pc = "ready"
  <2>1. [job[j] EXCEPT !.pc = "ready", !.units = 0] \in Idlers
        /\ [job[j] EXCEPT !.pc = "ready", !.units = 0].pc = "ready"
    BY <1>0, <1>1, JobShape DEF Idlers
  <2>2. [job[j] EXCEPT !.pc = "ready", !.fallback = TRUE, !.units = 0,
                       !.memory = @ + job[j].units] \in Idlers
        /\ [job[j] EXCEPT !.pc = "ready", !.fallback = TRUE, !.units = 0,
                          !.memory = @ + job[j].units].pc = "ready"
    <3>1. job[j].memory + job[j].units \in Nat  BY <1>0, <1>1, JobShape
    <3>. QED  BY <1>0, <1>1, <3>1, JobShape DEF Idlers
  <2>. QED  BY <2>1, <2>2 DEF Expire, FallBack
<1>3. ttl' \in BOOLEAN /\ failed' \in Nat /\ failed' + died <= MaxFaults
  <2>1. CASE ttl' = TRUE /\ UNCHANGED failed  BY <1>0, <2>1
  <2>2. CASE CommandFails /\ ttl' \in {ttl, TRUE}
    <3>1. ttl' \in BOOLEAN  BY <1>0, <2>2 DEF TypeOK
    <3>2. failed' \in Nat /\ failed' + died <= MaxFaults
      BY <1>0, <2>2, Bounds DEF CommandFails
    <3>. QED  BY <3>1, <3>2
  <2>. QED  BY <2>1, <2>2 DEF Expire
<1>4. value > 0 /\ \A k \in Jobs : job[k].pc = "expire" => k = j
  BY <1>1 DEF IInv, ExpireAlone, At
<1>5. /\ job' \in [Jobs -> Idlers \cup Payers]
      /\ job'[j] = n
      /\ \A k \in Jobs : k # j => job'[k] = job[k]
  BY <1>0, <1>2 DEF Becomes
<1>6. TypeOK'  BY <1>0, <1>1, <1>3, <1>4, <1>5 DEF TypeOK, Idlers, Payers
<1>7. ExpireAlone'  BY <1>2, <1>4, <1>5 DEF ExpireAlone, At
<1>8. Room'
  <2>1. Pending' \subseteq Pending /\ Pending \subseteq Jobs
    BY <1>2, <1>5 DEF Pending
  <2>. QED  BY <1>0, <1>1, <2>1, RoomForFewer DEF IInv, Room
<1>. QED  BY <1>6, <1>7, <1>8 DEF IInv

LEMMA WindowEndsKeeps ==
  ASSUME SpendAssumption, IInv, WindowEnds
  PROVE  IInv'
<1>1. TypeOK'
  <2>1. value' = 0 /\ ttl' = FALSE /\ billed' = 0 /\ UNCHANGED <<job, failed, died, lost>>
    BY DEF WindowEnds
  <2>2. billed' \in 0..MaxBilled  BY <2>1, Bounds
  <2>. QED  BY <2>1, <2>2 DEF IInv, TypeOK
<1>2. ExpireAlone'  BY DEF IInv, ExpireAlone, At, WindowEnds
<1>3. Room'
  <2>1. Pending' \subseteq Jobs /\ value' = 0 /\ 0 < Cap
    BY DEF Pending, WindowEnds, SpendAssumption
  <2>. QED  BY <2>1, RoomBelowCap DEF Room
<1>. QED  BY <1>1, <1>2, <1>3 DEF IInv

-----------------------------------------------------------------------------
(* Theorems *)

LEMMA InitHolds == ASSUME SpendAssumption, Init PROVE IInv
<1>1. TypeOK
  <2>1. Gone \in Idlers  BY DEF Gone, Idlers
  <2>2. job \in [Jobs -> Idlers \cup Payers]  BY <2>1 DEF Init
  <2>3. billed \in 0..MaxBilled /\ failed + died <= MaxFaults  BY Bounds DEF Init
  <2>. QED  BY <2>2, <2>3 DEF Init, TypeOK, Idlers, Payers
<1>2. ExpireAlone  BY DEF Init, ExpireAlone, At, Gone
<1>3. Room
  <2>1. Pending \subseteq Jobs /\ value = 0 /\ 0 < Cap
    BY DEF Pending, Init, SpendAssumption
  <2>. QED  BY <2>1, RoomBelowCap DEF Room
<1>. QED  BY <1>1, <1>2, <1>3 DEF IInv

LEMMA StutterKeeps == ASSUME IInv, UNCHANGED vars PROVE IInv'
BY DEF IInv, vars, TypeOK, ExpireAlone, At, Room, Pending

\* The invariant holds in every reachable state, whatever fails or dies.
THEOREM InductiveInvariant == Spec => []IInv
<1>1. Init => IInv  BY SpendAssumption, InitHolds
<1>2. IInv /\ [Next]_vars => IInv'
  BY SpendAssumption, CallsKeep, RecordKeeps, ExpireKeeps, WindowEndsKeeps, StutterKeeps
     DEF Next, Step
<1>. QED  BY <1>1, <1>2, PTL DEF Spec

\* Every variable keeps its type; only a key that exists expires.
THEOREM TypeCorrect == Spec => []TypeOK
<1>1. IInv => TypeOK  BY DEF IInv
<1>. QED  BY <1>1, InductiveInvariant, PTL

\* However many jobs call the provider at once, the shared counter overshoots the cap
\* by no more than a call of each (checkCapacity before, recordUsage after the call).
THEOREM Overshoots == Spec => []CounterBounded
<1>1. IInv => CounterBounded
  <2>1. ASSUME IInv PROVE CounterBounded
    <3>1. Pending \subseteq Jobs  BY DEF Pending
    <3>2. Cardinality(Pending) * MaxUnits \in Nat
      BY SpendAssumption, <3>1, SubsetCount, Products DEF SpendAssumption
    <3>3. Cardinality(Jobs) * MaxUnits \in Nat
      BY SpendAssumption, <3>1, SubsetCount, Products DEF SpendAssumption
    <3>. QED  BY SpendAssumption, <2>1, <3>2, <3>3
              DEF IInv, TypeOK, Room, CounterBounded, Overshoot, SpendAssumption
  <2>. QED  BY <2>1
<1>. QED  BY <1>1, InductiveInvariant, PTL

-----------------------------------------------------------------------------
(* What a window may cost *)

\* What the memory of one guard may come to.
MemoryCap == Cap - 1 + MaxUnits

\* What a job has spent that the shared counter does not count.
Owes(r) == r.memory + IF r.pc = "record" THEN r.units ELSE 0

Owed == [j \in Jobs |-> Owes(job[j])]

\* A sum over the jobs, as a number of pairs.
Counted(f) == {p \in Jobs \X (1..MemoryCap) : p[2] <= f[p[1]]}

\* The jobs whose guard lost Redis.
Fallen == {j \in Jobs : job[j].fallback}

MemoryOK(r) ==
  /\ ~r.fallback => r.memory = 0
  /\ r.fallback => r.memory <= MemoryCap /\ r.pc \notin {"gone", "expire"}
  /\ r.fallback /\ r.pc \in {"call", "record"} => r.memory < Cap

\* Every unit billed is in the shared counter, in the memory of a guard or on its way to
\* one of them, or it was in a guard that is gone or with a job that died.
Paid ==
  billed <= value + Cardinality(Counted(Owed))
             + (failed - Cardinality(Fallen)) * MemoryCap + died * MaxUnits

Accounts ==
  /\ \A j \in Jobs : MemoryOK(job[j])
  /\ Cardinality(Fallen) <= failed
  /\ Paid

LEMMA CapOfMemory ==
  ASSUME SpendAssumption
  PROVE  MemoryCap \in Nat /\ 0 < MemoryCap /\ MaxUnits <= MemoryCap /\ Cap <= MemoryCap
BY Bounds DEF MemoryCap

LEMMA UpTo ==
  ASSUME NEW m \in Nat
  PROVE  IsFiniteSet(1..m) /\ Cardinality(1..m) = m
<1>1. IsFiniteSet(1..m) /\ Cardinality(1..m) = IF 1 > m THEN 0 ELSE m - 1 + 1
  BY FS_Interval
<1>2. (IF 1 > m THEN 0 ELSE m - 1 + 1) = m  OBVIOUS
<1>. QED  BY <1>1, <1>2

\* The pairs of one job are as many as its number.
LEMMA CountedSplit ==
  ASSUME SpendAssumption, NEW f \in [Jobs -> 0..MemoryCap], NEW j \in Jobs
  PROVE  LET rest == {p \in Counted(f) : p[1] # j}
         IN  /\ IsFiniteSet(rest) /\ Cardinality(rest) \in Nat
             /\ Cardinality(Counted(f)) = Cardinality(rest) + f[j]
<1>. DEFINE rest == {p \in Counted(f) : p[1] # j}
            own == {j} \X (1..f[j])
<1>0. f[j] \in 0..MemoryCap /\ MemoryCap \in Nat /\ f[j] \in Nat  BY CapOfMemory
<1>1. IsFiniteSet(rest) /\ Cardinality(rest) \in Nat
  <2>1. IsFiniteSet(1..MemoryCap)  BY <1>0, FS_Interval
  <2>2. IsFiniteSet(Jobs \X (1..MemoryCap))
    BY <2>1, FS_Product DEF SpendAssumption
  <2>3. rest \subseteq Jobs \X (1..MemoryCap)  BY DEF Counted
  <2>. QED  BY <2>2, <2>3, FS_Subset, FS_CardinalityType
<1>2. IsFiniteSet(own) /\ Cardinality(own) = f[j]
  <2>1. IsFiniteSet(1..f[j]) /\ Cardinality(1..f[j]) = f[j]  BY <1>0, UpTo
  <2>2. IsFiniteSet({j}) /\ Cardinality({j}) = 1  BY FS_Singleton
  <2>3. IsFiniteSet(own) /\ Cardinality(own) = Cardinality({j}) * Cardinality(1..f[j])
    BY <2>1, <2>2, FS_Product
  <2>. QED  BY <1>0, <2>1, <2>2, <2>3
<1>3. Counted(f) = rest \cup own
  <2>1. ASSUME NEW p \in Counted(f) PROVE p \in rest \cup own
    BY <1>0 DEF Counted
  <2>2. ASSUME NEW p \in own PROVE p \in Counted(f)
    BY <1>0 DEF Counted
  <2>. QED  BY <2>1, <2>2
<1>4. rest \cap own = {}  OBVIOUS
<1>. HIDE DEF rest, own
<1>5. Cardinality(rest \cup own)
        = Cardinality(rest) + Cardinality(own) - Cardinality(rest \cap own)
  BY <1>1, <1>2, FS_Union
<1>6. Cardinality(rest \cap own) = 0  BY <1>4, FS_EmptySet
<1>7. Cardinality(Counted(f)) = Cardinality(rest) + f[j]
  BY <1>0, <1>1, <1>2, <1>3, <1>5, <1>6
<1>. QED  BY <1>1, <1>7 DEF rest

\* When one job's number changes, so does the sum.
LEMMA CountedChange ==
  ASSUME SpendAssumption, NEW f \in [Jobs -> 0..MemoryCap],
         NEW g \in [Jobs -> 0..MemoryCap], NEW j \in Jobs,
         \A k \in Jobs : k # j => f[k] = g[k]
  PROVE  /\ Cardinality(Counted(f)) \in Nat /\ Cardinality(Counted(g)) \in Nat
         /\ Cardinality(Counted(g)) + f[j] = Cardinality(Counted(f)) + g[j]
<1>. DEFINE rest(h) == {p \in Counted(h) : p[1] # j}
<1>1. rest(f) = rest(g)
  <2>1. ASSUME NEW p \in Jobs \X (1..MemoryCap), p[1] # j
        PROVE  p[2] <= f[p[1]] <=> p[2] <= g[p[1]]
    BY <2>1
  <2>. QED  BY <2>1 DEF Counted
<1>2. /\ Cardinality(rest(f)) \in Nat /\ f[j] \in Nat
      /\ Cardinality(Counted(f)) = Cardinality(rest(f)) + f[j]
  BY CountedSplit, CapOfMemory
<1>3. /\ Cardinality(rest(g)) \in Nat /\ g[j] \in Nat
      /\ Cardinality(Counted(g)) = Cardinality(rest(g)) + g[j]
  BY CountedSplit, CapOfMemory
<1>. HIDE DEF rest
<1>. QED  BY <1>1, <1>2, <1>3

\* What a job owes fits the memory of a guard.
LEMMA OwedIsSmall ==
  ASSUME SpendAssumption, NEW r \in Idlers \cup Payers, MemoryOK(r)
  PROVE  Owes(r) \in 0..MemoryCap
BY Bounds DEF MemoryOK, Owes, Idlers, Payers, Units, MemoryCap

LEMMA OwedTyped ==
  ASSUME SpendAssumption, TypeOK, \A j \in Jobs : MemoryOK(job[j])
  PROVE  Owed \in [Jobs -> 0..MemoryCap] /\ \A j \in Jobs : Owed[j] = Owes(job[j])
<1>1. \A j \in Jobs : job[j] \in Idlers \cup Payers
  BY DEF TypeOK, Idlers, Payers
<1>. QED  BY <1>1, OwedIsSmall DEF Owed

\* A job's step keeps the accounts when what is billed is counted or owed, and a guard
\* that lost Redis stays or pays with a failure.
LEMMA StepOfAccounts ==
  ASSUME SpendAssumption, TypeOK, Accounts, NEW j \in Jobs,
         NEW n \in Idlers \cup Payers, Becomes(j, n), MemoryOK(n),
         value' \in Nat, billed' \in Nat, failed' \in Nat, died' \in Nat,
         \/ n.fallback = job[j].fallback /\ failed' = failed
         \/ n.fallback /\ ~job[j].fallback /\ failed' = failed + 1,
         \/ died' = died /\ billed' + value + Owes(job[j]) <= billed + value' + Owes(n)
         \/ /\ died' = died + 1
            /\ billed' + value + Owes(job[j]) <= billed + value' + Owes(n) + MaxUnits
  PROVE  Accounts'
<1>. DEFINE fell == Cardinality(Fallen)
            fell2 == Cardinality(Fallen')
            sum == Cardinality(Counted(Owed))
            sum2 == Cardinality(Counted(Owed'))
<1>0. /\ job \in [Jobs -> Idlers \cup Payers] /\ value \in Nat /\ billed \in Nat
      /\ failed \in Nat /\ died \in Nat
  BY DEF TypeOK, Idlers, Payers
<1>1. /\ job' \in [Jobs -> Idlers \cup Payers] /\ job'[j] = n
      /\ \A k \in Jobs : k # j => job'[k] = job[k]
  BY <1>0 DEF Becomes
<1>2. \A k \in Jobs : MemoryOK(job'[k])  BY <1>1 DEF Accounts
<1>3. /\ Owed \in [Jobs -> 0..MemoryCap] /\ Owed' \in [Jobs -> 0..MemoryCap]
      /\ \A k \in Jobs : Owed[k] = Owes(job[k]) /\ Owed'[k] = Owes(job'[k])
  BY <1>0, <1>1, <1>2, OwedIsSmall DEF Owed, Accounts
<1>4. \A k \in Jobs : k # j => Owed[k] = Owed'[k]  BY <1>1, <1>3
<1>5. sum \in Nat /\ sum2 \in Nat /\ sum2 + Owes(job[j]) = sum + Owes(n)
  BY <1>1, <1>3, <1>4, CountedChange
<1>6. fell \in Nat /\ fell2 \in Nat /\ fell <= failed
  <2>1. Fallen \subseteq Jobs /\ Fallen' \subseteq Jobs  BY DEF Fallen
  <2>. QED  BY <2>1, SubsetCount DEF Accounts
<1>7. fell2 <= failed' /\ failed' - fell2 = failed - fell
  <2>1. CASE n.fallback = job[j].fallback /\ failed' = failed
    <3>1. Fallen' = Fallen  BY <1>1, <2>1 DEF Fallen
    <3>. QED  BY <1>6, <2>1, <3>1
  <2>2. CASE n.fallback /\ ~job[j].fallback /\ failed' = failed + 1
    <3>1. Fallen' = Fallen \cup {j} /\ j \notin Fallen  BY <1>1, <2>2 DEF Fallen
    <3>2. IsFiniteSet(Fallen)
      <4>1. Fallen \subseteq Jobs  BY DEF Fallen
      <4>. QED  BY <4>1, SubsetCount
    <3>3. fell2 = fell + 1  BY <3>1, <3>2, FS_AddElement
    <3>. QED  BY <1>0, <1>6, <2>2, <3>3
  <2>. QED  BY <2>1, <2>2
<1>8. Owes(job[j]) \in Nat /\ Owes(n) \in Nat
  <2>1. 0..MemoryCap \subseteq Nat  BY CapOfMemory
  <2>2. Owed[j] \in 0..MemoryCap /\ Owed'[j] \in 0..MemoryCap  BY <1>3
  <2>. QED  BY <1>1, <1>3, <2>1, <2>2
<1>9. billed <= value + sum + (failed - fell) * MemoryCap + died * MaxUnits
  BY DEF Accounts, Paid
<1>10. /\ failed - fell \in Nat /\ (failed - fell) * MemoryCap \in Nat
       /\ died * MaxUnits \in Nat /\ MaxUnits \in Nat
       /\ (died + 1) * MaxUnits = died * MaxUnits + MaxUnits
  <2>1. MaxUnits \in Nat /\ MemoryCap \in Nat  BY Bounds, CapOfMemory
  <2>2. failed - fell \in Nat  BY <1>0, <1>6
  <2>3. (failed - fell) * MemoryCap \in Nat  BY <2>1, <2>2, Products
  <2>4. died * MaxUnits \in Nat  BY <1>0, <2>1, Products
  <2>5. (died + 1) * MaxUnits = died * MaxUnits + MaxUnits  BY <1>0, <2>1
  <2>. QED  BY <2>1, <2>2, <2>3, <2>4, <2>5
<1>. HIDE DEF fell, fell2, sum, sum2
<1>11. billed' <= value' + sum2 + (failed' - fell2) * MemoryCap + died' * MaxUnits
  <2>. DEFINE forgone == (failed - fell) * MemoryCap
              dead == died * MaxUnits
              dead2 == died' * MaxUnits
  <2>1. (failed' - fell2) * MemoryCap = forgone  BY <1>7
  <2>2. \/ dead2 = dead /\ billed' + value + Owes(job[j]) <= billed + value' + Owes(n)
        \/ /\ dead2 = dead + MaxUnits
           /\ billed' + value + Owes(job[j]) <= billed + value' + Owes(n) + MaxUnits
    BY <1>10
  <2>3. billed <= value + sum + forgone + dead  BY <1>9
  <2>4. forgone \in Nat /\ dead \in Nat  BY <1>10
  <2>. HIDE DEF forgone, dead, dead2
  <2>5. dead2 \in Nat  BY <1>10, <2>2, <2>4
  <2>. DEFINE o == Owes(job[j])
              o2 == Owes(n)
              v2 == value'
              b2 == billed'
  <2>6. /\ v2 \in Nat /\ b2 \in Nat /\ o \in Nat /\ o2 \in Nat
        /\ sum2 + o = sum + o2
        /\ \/ dead2 = dead /\ b2 + value + o <= billed + v2 + o2
           \/ dead2 = dead + MaxUnits /\ b2 + value + o <= billed + v2 + o2 + MaxUnits
    BY <1>5, <1>8, <2>2
  <2>. HIDE DEF o, o2, v2, b2
  <2>7. b2 <= v2 + sum2 + forgone + dead2
    BY <1>0, <1>5, <1>10, <2>3, <2>4, <2>5, <2>6
  <2>8. billed' <= value' + sum2 + forgone + dead2  BY <2>7 DEF b2, v2
  <2>. QED  BY <2>1, <2>8 DEF dead2
<1>12. Paid'  BY <1>11 DEF Paid, fell2, sum2
<1>. QED  BY <1>2, <1>7, <1>12 DEF Accounts, fell2

\* A guard that lost Redis and is gone leaves its memory to the account of the failures.
LEMMA GuardGone ==
  ASSUME SpendAssumption, TypeOK, Accounts, NEW j \in Jobs, job[j].fallback,
         Becomes(j, Gone), UNCHANGED <<value, billed, failed>>,
         died' = died \/ died' = died + 1
  PROVE  Accounts'
<1>. DEFINE fell == Cardinality(Fallen)
            fell2 == Cardinality(Fallen')
            sum == Cardinality(Counted(Owed))
            sum2 == Cardinality(Counted(Owed'))
<1>0. /\ job \in [Jobs -> Idlers \cup Payers] /\ value \in Nat /\ billed \in Nat
      /\ failed \in Nat /\ died \in Nat /\ Gone \in Idlers /\ MemoryOK(Gone)
      /\ ~Gone.fallback /\ Owes(Gone) = 0
  BY DEF TypeOK, Idlers, Payers, Gone, MemoryOK, Owes
<1>1. /\ job' \in [Jobs -> Idlers \cup Payers] /\ job'[j] = Gone
      /\ \A k \in Jobs : k # j => job'[k] = job[k]
  BY <1>0 DEF Becomes
<1>2. \A k \in Jobs : MemoryOK(job'[k])  BY <1>0, <1>1 DEF Accounts
<1>3. /\ Owed \in [Jobs -> 0..MemoryCap] /\ Owed' \in [Jobs -> 0..MemoryCap]
      /\ \A k \in Jobs : Owed[k] = Owes(job[k]) /\ Owed'[k] = Owes(job'[k])
  BY <1>0, <1>1, <1>2, OwedIsSmall DEF Owed, Accounts
<1>4. \A k \in Jobs : k # j => Owed[k] = Owed'[k]  BY <1>1, <1>3
<1>5. sum \in Nat /\ sum2 \in Nat /\ sum2 + Owed[j] = sum
  <2>1. sum \in Nat /\ sum2 \in Nat /\ sum2 + Owed[j] = sum + Owed'[j]
    BY <1>3, <1>4, CountedChange
  <2>2. Owed'[j] = 0 /\ 0..MemoryCap \subseteq Nat  BY <1>0, <1>1, <1>3, CapOfMemory
  <2>. QED  BY <1>3, <2>1, <2>2
<1>6. Owed[j] \in Nat /\ Owed[j] <= MemoryCap /\ MemoryCap \in Nat
  BY <1>3, CapOfMemory
<1>7. fell \in Nat /\ fell2 \in Nat /\ fell <= failed /\ fell2 = fell - 1
  <2>1. Fallen \subseteq Jobs  BY DEF Fallen
  <2>2. j \in Fallen /\ Fallen' = Fallen \ {j}  BY <1>0, <1>1 DEF Fallen
  <2>3. IsFiniteSet(Fallen) /\ fell \in Nat  BY <2>1, SubsetCount
  <2>4. IsFiniteSet(Fallen') /\ fell2 \in Nat  BY <2>2, <2>3, FS_Subset, FS_CardinalityType
  <2>. QED  BY <2>2, <2>3, <2>4, FS_RemoveElement DEF Accounts
<1>8. billed <= value + sum + (failed - fell) * MemoryCap + died * MaxUnits
  BY DEF Accounts, Paid
<1>9. failed - fell \in Nat /\ failed - fell2 = failed - fell + 1
  BY <1>0, <1>7
<1>. HIDE DEF fell, fell2, sum, sum2
<1>. DEFINE spare == failed - fell
            forgone == spare * MemoryCap
            dead == died * MaxUnits
            dead2 == died' * MaxUnits
<1>10. (failed - fell2) * MemoryCap = forgone + MemoryCap
  <2>1. (spare + 1) * MemoryCap = spare * MemoryCap + MemoryCap
    <3>1. spare \in Nat  BY <1>9
    <3>. HIDE DEF spare
    <3>. QED  BY <1>6, <3>1
  <2>. QED  BY <1>9, <2>1
<1>11. forgone \in Nat  BY <1>6, <1>9, Products
<1>12. dead \in Nat /\ dead2 \in Nat /\ dead <= dead2
  BY <1>0, Bounds, Products
<1>13. billed <= value + sum + forgone + dead  BY <1>8
<1>. HIDE DEF spare, forgone, dead, dead2
<1>14. billed <= value + sum2 + (forgone + MemoryCap) + dead2
  BY <1>0, <1>5, <1>6, <1>11, <1>12, <1>13
<1>15. Paid'  BY <1>10, <1>14 DEF Paid, fell2, sum2, dead2
<1>16. fell2 <= failed'  BY <1>0, <1>7
<1>. QED  BY <1>2, <1>15, <1>16 DEF Accounts, fell2

\* The steps that neither bill nor count.
LEMMA CallsAreAccounted ==
  ASSUME SpendAssumption, IInv, Accounts, NEW j \in Jobs,
         Start(j) \/ End(j) \/ Check(j) \/ Unbilled(j) \/ Die(j)
  PROVE  Accounts'
<1>0. /\ TypeOK /\ job \in [Jobs -> Idlers \cup Payers] /\ value \in Nat
      /\ billed \in Nat /\ failed \in Nat /\ died \in Nat /\ MemoryOK(job[j])
      /\ 0 < Cap /\ Cap \in Nat /\ MaxUnits \in Nat
  BY Bounds DEF IInv, TypeOK, Idlers, Payers, Accounts
<1>1. Owes(job[j]) \in Nat
  BY <1>0, OwedIsSmall, CapOfMemory
<1>2. CASE Start(j)
  <2>. DEFINE n == [Gone EXCEPT !.pc = "ready"]
  <2>1. /\ n \in Idlers /\ MemoryOK(n) /\ Owes(n) = Owes(job[j])
        /\ n.fallback = job[j].fallback
    BY <1>0, <1>2 DEF Start, At, Gone, Idlers, Payers, MemoryOK, Owes
  <2>2. Becomes(j, n) /\ UNCHANGED <<value, ttl, billed, failed, died>>
    BY <1>2 DEF Start
  <2>. HIDE DEF n
  <2>. QED  BY <1>0, <1>1, <2>1, <2>2, StepOfAccounts
<1>3. CASE End(j) \/ Die(j)
  <2>1. /\ Becomes(j, Gone) /\ UNCHANGED <<value, billed, failed>>
        /\ \/ died' = died /\ job[j].pc = "ready"
           \/ died' = died + 1
    BY <1>3 DEF End, Die, At
  <2>2. CASE job[j].fallback  BY <1>0, <2>1, <2>2, GuardGone
  <2>3. CASE ~job[j].fallback
    <3>1. Gone \in Idlers /\ MemoryOK(Gone) /\ Owes(Gone) = 0
      BY DEF Gone, Idlers, MemoryOK, Owes
    <3>4. Gone.fallback = job[j].fallback
      <4>1. job[j].fallback = FALSE  BY <1>0, <2>3, JobShape
      <4>. QED  BY <4>1 DEF Gone
    <3>2. Owes(job[j]) <= MaxUnits /\ (job[j].pc = "ready" => Owes(job[j]) = 0)
      BY <1>0, <2>3 DEF MemoryOK, Owes, Idlers, Payers, Units
    <3>3. died' \in Nat  BY <1>0, <2>1
    <3>. QED  BY <1>0, <1>1, <2>1, <3>1, <3>2, <3>3, <3>4, StepOfAccounts
  <2>4. job[j].fallback \in BOOLEAN  BY <1>0, JobShape
  <2>. QED  BY <2>2, <2>3, <2>4
<1>4. CASE Check(j)
  <2>1. PICK current \in {value, job[j].memory}, f \in BOOLEAN :
          /\ Admit(j, current, f) /\ UNCHANGED <<value, ttl, billed, died>>
          /\ f => current = job[j].memory
          /\ \/ f = job[j].fallback /\ failed' = failed
             \/ f /\ ~job[j].fallback /\ failed' = failed + 1
    <3>1. UNCHANGED <<value, ttl, billed, died>>  BY <1>4 DEF Check
    <3>2. CASE job[j].fallback /\ Admit(j, job[j].memory, TRUE) /\ UNCHANGED failed
      BY <1>0, <3>1, <3>2, JobShape
    <3>3. CASE ~job[j].fallback /\ Admit(j, value, FALSE) /\ UNCHANGED failed
      BY <1>0, <3>1, <3>3, JobShape
    <3>4. CASE ~job[j].fallback /\ CommandFails /\ Admit(j, job[j].memory, TRUE)
      <4>1. failed' = failed + 1  BY <3>4 DEF CommandFails
      <4>. QED  BY <1>0, <3>1, <3>4, <4>1
    <3>. QED  BY <1>4, <3>2, <3>3, <3>4 DEF Check
  <2>. DEFINE n == [job[j] EXCEPT !.pc = IF Allows(current) THEN "call" ELSE "ready",
                                  !.fallback = f]
  <2>2. job[j].pc = "ready"  BY <1>4 DEF Check, At
  <2>3. /\ n \in Idlers /\ n.pc \in {"call", "ready"} /\ n.memory = job[j].memory
        /\ n.fallback = f /\ (n.pc = "call" => current < Cap)
    BY <1>0, <2>1, <2>2, JobShape DEF Idlers, Allows
  <2>4. Becomes(j, n)  BY <2>1 DEF Admit
  <2>. HIDE DEF n
  <2>5. MemoryOK(n)
    <3>1. /\ job[j].memory <= MemoryCap /\ job[j].memory \in Nat
          /\ ~job[j].fallback => job[j].memory = 0
      BY <1>0, JobShape, CapOfMemory DEF MemoryOK
    <3>. QED  BY <1>0, <2>1, <2>3, <3>1 DEF MemoryOK
  <2>6. Owes(n) = Owes(job[j])  BY <1>0, <2>2, <2>3 DEF Owes
  <2>7. \/ n.fallback = job[j].fallback /\ failed' = failed
        \/ n.fallback /\ ~job[j].fallback /\ failed' = failed + 1
    BY <2>1, <2>3
  <2>8. failed' \in Nat  BY <1>0, <2>7
  <2>. QED  BY <1>0, <1>1, <2>1, <2>3, <2>4, <2>5, <2>6, <2>7, <2>8, StepOfAccounts
<1>5. CASE Unbilled(j)
  <2>. DEFINE n == [job[j] EXCEPT !.pc = "ready"]
  <2>1. /\ n \in Idlers /\ MemoryOK(n) /\ Owes(n) = Owes(job[j])
        /\ n.fallback = job[j].fallback
    BY <1>0, <1>5, JobShape DEF Unbilled, At, Idlers, MemoryOK, Owes
  <2>2. Becomes(j, n) /\ UNCHANGED <<value, ttl, billed, failed, died>>
    BY <1>5 DEF Unbilled
  <2>. HIDE DEF n
  <2>. QED  BY <1>0, <1>1, <2>1, <2>2, StepOfAccounts
<1>. QED  BY <1>2, <1>3, <1>4, <1>5

\* What the provider bills is owed until it is recorded.
LEMMA BillingIsAccounted ==
  ASSUME SpendAssumption, IInv, Accounts, NEW j \in Jobs, RealCall(j)
  PROVE  Accounts'
<1>0. /\ TypeOK /\ job \in [Jobs -> Idlers \cup Payers] /\ value \in Nat
      /\ billed \in Nat /\ failed \in Nat /\ died \in Nat /\ MemoryOK(job[j])
  BY Bounds DEF IInv, TypeOK, Idlers, Payers, Accounts
<1>1. job[j].pc = "call" /\ UNCHANGED <<value, ttl, failed, died>>
  BY DEF RealCall, At
<1>2. PICK u \in Units : /\ billed' = billed + u
                         /\ Becomes(j, [job[j] EXCEPT !.pc = "record", !.units = u])
  BY DEF RealCall
<1>. DEFINE n == [job[j] EXCEPT !.pc = "record", !.units = u]
<1>3. u \in Nat  BY Bounds DEF Units
<1>8. /\ n \in Payers /\ n.fallback = job[j].fallback /\ n.memory = job[j].memory
      /\ n.pc = "record" /\ n.units = u /\ job[j].memory \in Nat
  BY <1>0, <1>1, <1>3, JobShape DEF Payers
<1>5. Owes(job[j]) \in Nat  BY <1>0, OwedIsSmall, CapOfMemory
<1>. HIDE DEF n
<1>4. MemoryOK(n) /\ Owes(n) = Owes(job[j]) + u
  BY <1>0, <1>1, <1>3, <1>8 DEF MemoryOK, Owes
<1>6. billed' \in Nat /\ billed' + value + Owes(job[j]) <= billed + value' + Owes(n)
  BY <1>0, <1>1, <1>2, <1>3, <1>4, <1>5
<1>7. Becomes(j, n)  BY <1>2 DEF n
<1>. QED  BY <1>0, <1>1, <1>4, <1>6, <1>7, <1>8, StepOfAccounts

\* Recording moves the units to the shared counter, to the memory, or to both.
LEMMA RecordIsAccounted ==
  ASSUME SpendAssumption, IInv, Accounts, NEW j \in Jobs, Record(j)
  PROVE  Accounts'
<1>. DEFINE u == job[j].units
            m == job[j].memory
<1>0. /\ TypeOK /\ job \in [Jobs -> Idlers \cup Payers] /\ value \in Nat
      /\ billed \in Nat /\ failed \in Nat /\ died \in Nat /\ MemoryOK(job[j])
  BY DEF IInv, TypeOK, Idlers, Payers, Accounts
<1>1. /\ job[j].pc = "record" /\ u \in Nat /\ u <= MaxUnits /\ u \in Units
      /\ m \in Nat /\ m + u \in Nat /\ UNCHANGED <<ttl, billed, died>>
  BY <1>0, JobShape, Bounds DEF Record, At, Units
<1>2. Owes(job[j]) = m + u /\ Owes(job[j]) \in Nat  BY <1>1 DEF Owes
<1>. DEFINE Goes(n) ==
       /\ Becomes(j, n) /\ MemoryOK(n) /\ value' \in Nat /\ Owes(n) \in Nat
       /\ value + Owes(job[j]) <= value' + Owes(n)
       /\ \/ n.fallback = job[j].fallback /\ failed' = failed
          \/ n.fallback /\ ~job[j].fallback /\ failed' = failed + 1
<1>3. PICK n \in Idlers \cup Payers : Goes(n)
  <2>1. CASE job[j].fallback
    <3>. DEFINE n == [job[j] EXCEPT !.pc = "ready", !.units = 0, !.memory = @ + u]
    <3>1. n \in Idlers /\ n.pc = "ready" /\ n.memory = m + u /\ n.fallback
      BY <1>0, <1>1, <2>1, JobShape DEF Idlers
    <3>2. Becomes(j, n) /\ UNCHANGED <<value, failed>>  BY <2>1 DEF Record
    <3>. HIDE DEF n
    <3>3. m + u <= MemoryCap
      <4>1. m < Cap  BY <1>0, <1>1, <2>1 DEF MemoryOK
      <4>. QED  BY <1>1, <4>1, Bounds DEF MemoryCap
    <3>4. MemoryOK(n) /\ Owes(n) = m + u  BY <3>1, <3>3, <1>1 DEF MemoryOK, Owes
    <3>9. Goes(n)  BY <1>0, <1>1, <1>2, <2>1, <3>1, <3>2, <3>4
    <3>. HIDE DEF Goes
    <3>. QED  BY <3>1, <3>9
  <2>2. CASE /\ ~job[j].fallback /\ value' = value + u /\ UNCHANGED failed
             /\ Becomes(j, [job[j] EXCEPT !.pc = "expire"])
    <3>. DEFINE n == [job[j] EXCEPT !.pc = "expire"]
    <3>1. n \in Payers /\ n.pc = "expire" /\ n.memory = m /\ m = 0
          /\ ~n.fallback /\ n.fallback = job[j].fallback
      BY <1>0, <1>1, <2>2, JobShape DEF Payers, MemoryOK
    <3>. HIDE DEF n
    <3>2. MemoryOK(n) /\ Owes(n) = 0  BY <3>1 DEF MemoryOK, Owes
    <3>3. Becomes(j, n)  BY <2>2 DEF n
    <3>9. Goes(n)  BY <1>0, <1>1, <1>2, <2>2, <3>1, <3>2, <3>3
    <3>. HIDE DEF Goes
    <3>. QED  BY <3>1, <3>9
  <2>3. CASE /\ ~job[j].fallback /\ value' = value + u /\ UNCHANGED failed
             /\ Becomes(j, [job[j] EXCEPT !.pc = "ready", !.units = 0])
    <3>. DEFINE n == [job[j] EXCEPT !.pc = "ready", !.units = 0]
    <3>1. n \in Idlers /\ n.pc = "ready" /\ n.memory = m /\ m = 0
          /\ ~n.fallback /\ n.fallback = job[j].fallback
      BY <1>0, <1>1, <2>3, JobShape DEF Idlers, MemoryOK
    <3>. HIDE DEF n
    <3>2. MemoryOK(n) /\ Owes(n) = 0  BY <3>1 DEF MemoryOK, Owes
    <3>3. Becomes(j, n)  BY <2>3 DEF n
    <3>9. Goes(n)  BY <1>0, <1>1, <1>2, <2>3, <3>1, <3>2, <3>3
    <3>. HIDE DEF Goes
    <3>. QED  BY <3>1, <3>9
  <2>4. CASE /\ ~job[j].fallback /\ CommandFails
             /\ value' \in {value, value + u} /\ FallBack(j, "ready")
    <3>. DEFINE n == [job[j] EXCEPT !.pc = "ready", !.fallback = TRUE, !.units = 0,
                                    !.memory = @ + u]
    <3>1. /\ n \in Idlers /\ n.pc = "ready" /\ n.memory = m + u /\ n.fallback /\ m = 0
      BY <1>0, <1>1, <2>4, JobShape DEF Idlers, MemoryOK
    <3>. HIDE DEF n
    <3>2. m + u <= MemoryCap  BY <1>1, <3>1, CapOfMemory, Bounds
    <3>3. MemoryOK(n) /\ Owes(n) = m + u  BY <3>1, <3>2, <1>1 DEF MemoryOK, Owes
    <3>4. Becomes(j, n)  BY <2>4 DEF FallBack, n
    <3>5. failed' = failed + 1  BY <2>4 DEF CommandFails
    <3>6. value' \in Nat /\ value <= value'  BY <1>0, <1>1, <2>4
    <3>7. value + Owes(job[j]) <= value' + Owes(n)
      BY <1>0, <1>1, <1>2, <3>3, <3>6
    <3>9. Goes(n)  BY <1>1, <2>4, <3>1, <3>3, <3>4, <3>5, <3>6, <3>7
    <3>. HIDE DEF Goes
    <3>. QED  BY <3>1, <3>9
  <2>. QED  BY <2>1, <2>2, <2>3, <2>4 DEF Record
<1>4. failed' \in Nat  BY <1>0, <1>3
<1>5. billed' + value + Owes(job[j]) <= billed + value' + Owes(n)
  BY <1>0, <1>1, <1>2, <1>3
<1>. QED  BY <1>0, <1>1, <1>3, <1>4, <1>5, StepOfAccounts

LEMMA ExpireIsAccounted ==
  ASSUME SpendAssumption, IInv, Accounts, NEW j \in Jobs, Expire(j)
  PROVE  Accounts'
<1>. DEFINE u == job[j].units
<1>0. /\ TypeOK /\ job \in [Jobs -> Idlers \cup Payers] /\ value \in Nat
      /\ billed \in Nat /\ failed \in Nat /\ died \in Nat /\ MemoryOK(job[j])
  BY DEF IInv, TypeOK, Idlers, Payers, Accounts
<1>1. /\ job[j].pc = "expire" /\ u \in Nat /\ u <= MaxUnits
      /\ ~job[j].fallback /\ job[j].memory = 0 /\ UNCHANGED <<value, billed, died>>
  BY <1>0, JobShape, Bounds DEF Expire, At, Units, MemoryOK
<1>2. Owes(job[j]) = 0  BY <1>1 DEF Owes
<1>. DEFINE Goes(n) ==
       /\ Becomes(j, n) /\ MemoryOK(n) /\ Owes(n) \in Nat
       /\ \/ n.fallback = job[j].fallback /\ failed' = failed
          \/ n.fallback /\ ~job[j].fallback /\ failed' = failed + 1
<1>3. PICK n \in Idlers : Goes(n)
  <2>1. CASE UNCHANGED failed /\ Becomes(j, [job[j] EXCEPT !.pc = "ready", !.units = 0])
    <3>. DEFINE n == [job[j] EXCEPT !.pc = "ready", !.units = 0]
    <3>1. n \in Idlers /\ n.pc = "ready" /\ n.memory = 0
          /\ ~n.fallback /\ n.fallback = job[j].fallback
      BY <1>0, <1>1, JobShape DEF Idlers
    <3>. HIDE DEF n
    <3>2. MemoryOK(n) /\ Owes(n) = 0  BY <3>1 DEF MemoryOK, Owes
    <3>3. Becomes(j, n)  BY <2>1 DEF n
    <3>9. Goes(n)  BY <1>1, <2>1, <3>1, <3>2, <3>3
    <3>. HIDE DEF Goes
    <3>. QED  BY <3>1, <3>9
  <2>2. CASE CommandFails /\ FallBack(j, "ready")
    <3>. DEFINE n == [job[j] EXCEPT !.pc = "ready", !.fallback = TRUE, !.units = 0,
                                    !.memory = @ + u]
    <3>0. job[j].memory + u = u  BY <1>1
    <3>1. n \in Idlers /\ n.pc = "ready" /\ n.memory = u /\ n.fallback
      BY <1>0, <1>1, <3>0, JobShape DEF Idlers
    <3>. HIDE DEF n
    <3>2. u <= MemoryCap  BY <1>1, CapOfMemory, Bounds
    <3>3. MemoryOK(n) /\ Owes(n) = u  BY <3>1, <3>2, <1>1 DEF MemoryOK, Owes
    <3>4. Becomes(j, n)  BY <2>2 DEF FallBack, n
    <3>5. failed' = failed + 1  BY <2>2 DEF CommandFails
    <3>9. Goes(n)  BY <1>1, <3>1, <3>3, <3>4, <3>5
    <3>. HIDE DEF Goes
    <3>. QED  BY <3>1, <3>9
  <2>. QED  BY <2>1, <2>2 DEF Expire
<1>4. failed' \in Nat  BY <1>0, <1>3
<1>5. billed' + value + Owes(job[j]) <= billed + value' + Owes(n)
  BY <1>0, <1>1, <1>2, <1>3
<1>. QED  BY <1>0, <1>1, <1>3, <1>4, <1>5, StepOfAccounts

LEMMA NothingBilled ==
  ASSUME SpendAssumption, value' \in Nat, billed' = 0, failed' \in Nat, died' \in Nat,
         Cardinality(Fallen') \in Nat, Cardinality(Fallen') <= failed',
         Cardinality(Counted(Owed')) \in Nat
  PROVE  Paid'
<1>. DEFINE spare == failed' - Cardinality(Fallen')
<1>1. spare \in Nat  OBVIOUS
<1>2. spare * MemoryCap \in Nat /\ died' * MaxUnits \in Nat
  <2>. HIDE DEF spare
  <2>. QED  BY <1>1, Bounds, CapOfMemory, Products
<1>. QED  BY <1>2 DEF Paid

\* Sums and counts are numbers in every state the invariants allow.
LEMMA CountsTyped ==
  ASSUME SpendAssumption, TypeOK, \A j \in Jobs : MemoryOK(job[j])
  PROVE  Cardinality(Counted(Owed)) \in Nat /\ Cardinality(Fallen) \in Nat
<1>1. Owed \in [Jobs -> 0..MemoryCap]  BY OwedTyped
<1>2. Cardinality(Counted(Owed)) \in Nat
  <2>1. IsFiniteSet(1..MemoryCap)  BY CapOfMemory, UpTo
  <2>2. IsFiniteSet(Jobs \X (1..MemoryCap))
    BY <2>1, FS_Product DEF SpendAssumption
  <2>3. Counted(Owed) \subseteq Jobs \X (1..MemoryCap)  BY DEF Counted
  <2>. QED  BY <2>2, <2>3, FS_Subset, FS_CardinalityType
<1>3. Fallen \subseteq Jobs  BY DEF Fallen
<1>. QED  BY <1>2, <1>3, SubsetCount

LEMMA WindowIsAccounted ==
  ASSUME SpendAssumption, IInv, Accounts, WindowEnds
  PROVE  Accounts'
<1>1. /\ value' = 0 /\ billed' = 0 /\ UNCHANGED <<job, failed, died>>
      /\ failed \in Nat /\ died \in Nat
  BY DEF WindowEnds, IInv, TypeOK
<1>2. Owed' = Owed /\ Fallen' = Fallen  BY <1>1 DEF Owed, Fallen
<1>3. Cardinality(Counted(Owed)) \in Nat /\ Cardinality(Fallen) \in Nat
  BY CountsTyped DEF IInv, Accounts
<1>4. Paid'
  <2>1. /\ value' \in Nat /\ failed' \in Nat /\ died' \in Nat
        /\ Cardinality(Fallen') \in Nat /\ Cardinality(Fallen') <= failed'
        /\ Cardinality(Counted(Owed')) \in Nat
    BY <1>1, <1>2, <1>3 DEF Accounts
  <2>. QED  BY <1>1, <2>1, NothingBilled
<1>. QED  BY <1>1, <1>2, <1>4 DEF Accounts

LEMMA AccountsAtFirst == ASSUME SpendAssumption, Init PROVE Accounts
<1>1. /\ IInv /\ TypeOK  BY InitHolds DEF IInv
<1>2. \A j \in Jobs : MemoryOK(job[j])  BY DEF Init, Gone, MemoryOK
<1>3. Fallen = {}  BY DEF Init, Fallen, Gone
<1>4. Cardinality(Fallen) = 0  BY <1>3, FS_EmptySet
<1>5. Cardinality(Counted(Owed)) \in Nat  BY <1>1, <1>2, CountsTyped
<1>6. MemoryCap \in Nat /\ MaxUnits \in Nat  BY Bounds, CapOfMemory
<1>7. value = 0 /\ billed = 0 /\ failed = 0 /\ died = 0  BY DEF Init
<1>8. Paid
  <2>1. (failed - Cardinality(Fallen)) * MemoryCap = 0 /\ died * MaxUnits = 0
    BY <1>4, <1>6, <1>7
  <2>. QED  BY <1>5, <1>7, <2>1 DEF Paid
<1>. QED  BY <1>2, <1>4, <1>7, <1>8 DEF Accounts

\* The account of the bill balances in every reachable state, whatever fails or dies.
THEOREM AccountsInvariant == Spec => [](IInv /\ Accounts)
<1>1. Init => IInv /\ Accounts  BY SpendAssumption, InitHolds, AccountsAtFirst
<1>2. IInv /\ Accounts /\ [Next]_vars => (IInv /\ Accounts)'
  <2>1. IInv /\ [Next]_vars => IInv'
    BY SpendAssumption, CallsKeep, RecordKeeps, ExpireKeeps, WindowEndsKeeps, StutterKeeps
       DEF Next, Step
  <2>2. IInv /\ Accounts /\ Next => Accounts'
    BY SpendAssumption, CallsAreAccounted, BillingIsAccounted, RecordIsAccounted,
       ExpireIsAccounted, WindowIsAccounted
       DEF Next, Step
  <2>3. Accounts /\ UNCHANGED vars => Accounts'
    <3>1. UNCHANGED vars => Owed' = Owed /\ Fallen' = Fallen  BY DEF vars, Owed, Fallen
    <3>. QED  BY <3>1 DEF vars, Accounts, Paid
  <2>. QED  BY <2>1, <2>2, <2>3
<1>. QED  BY <1>1, <1>2, PTL DEF Spec

\* What the jobs owe together: the memories of the guards that lost Redis, and the calls
\* that the shared counter admitted.
LEMMA OwedTogether ==
  ASSUME SpendAssumption, IInv, Accounts
  PROVE  Cardinality(Counted(Owed))
           <= Cardinality(Fallen) * MemoryCap + Cardinality(Pending) * MaxUnits
<1>. DEFINE inMemory == Fallen \X (1..MemoryCap)
            onTheWay == Pending \X (1..MaxUnits)
<1>1. /\ Fallen \subseteq Jobs /\ Pending \subseteq Jobs /\ TypeOK
      /\ job \in [Jobs -> Idlers \cup Payers]
  BY DEF Fallen, Pending, IInv, TypeOK, Idlers, Payers
<1>2. /\ IsFiniteSet(Fallen) /\ Cardinality(Fallen) \in Nat
      /\ IsFiniteSet(Pending) /\ Cardinality(Pending) \in Nat
  BY <1>1, SubsetCount
<1>3. /\ IsFiniteSet(1..MemoryCap) /\ Cardinality(1..MemoryCap) = MemoryCap
      /\ IsFiniteSet(1..MaxUnits) /\ Cardinality(1..MaxUnits) = MaxUnits
  BY Bounds, CapOfMemory, UpTo
<1>4. /\ IsFiniteSet(inMemory) /\ Cardinality(inMemory) = Cardinality(Fallen) * MemoryCap
      /\ IsFiniteSet(onTheWay) /\ Cardinality(onTheWay) = Cardinality(Pending) * MaxUnits
  BY <1>2, <1>3, FS_Product
<1>5. Counted(Owed) \subseteq inMemory \cup onTheWay
  <2>. SUFFICES ASSUME NEW k \in Jobs, NEW i \in 1..MemoryCap, i <= Owes(job[k])
                PROVE  <<k, i>> \in inMemory \cup onTheWay
    BY DEF Counted, Owed
  <2>1. CASE job[k].fallback  BY <2>1 DEF Fallen
  <2>2. CASE ~job[k].fallback
    <3>1. job[k] \in Idlers \cup Payers /\ MemoryOK(job[k])  BY <1>1 DEF Accounts
    <3>2. i \in Nat /\ 1 <= i  BY CapOfMemory
    <3>3. job[k].memory = 0  BY <2>2, <3>1 DEF MemoryOK
    <3>4. job[k].pc = "record"  BY <3>2, <3>3 DEF Owes
    <3>5. job[k].units \in 1..MaxUnits  BY <3>1, <3>4 DEF Idlers, Payers, Units
    <3>6. i <= job[k].units  BY <3>2, <3>3, <3>4, <3>5, Bounds DEF Owes
    <3>7. i \in 1..MaxUnits  BY <3>2, <3>5, <3>6, Bounds
    <3>. QED  BY <2>2, <3>4, <3>7 DEF Pending
  <2>. QED  BY <2>1, <2>2
<1>. HIDE DEF inMemory, onTheWay
<1>6. /\ IsFiniteSet(inMemory \cup onTheWay)
      /\ Cardinality(inMemory \cup onTheWay) <= Cardinality(inMemory) + Cardinality(onTheWay)
  <2>1. /\ IsFiniteSet(inMemory \cup onTheWay)
        /\ Cardinality(inMemory \cup onTheWay) = Cardinality(inMemory)
             + Cardinality(onTheWay) - Cardinality(inMemory \cap onTheWay)
    BY <1>4, FS_Union
  <2>2. IsFiniteSet(inMemory \cap onTheWay)  BY <1>4, FS_Subset
  <2>3. /\ Cardinality(inMemory \cap onTheWay) \in Nat /\ Cardinality(inMemory) \in Nat
        /\ Cardinality(onTheWay) \in Nat
    BY <1>4, <2>2, FS_CardinalityType
  <2>. QED  BY <2>1, <2>3
<1>7. Cardinality(Counted(Owed)) <= Cardinality(inMemory \cup onTheWay)
  BY <1>5, <1>6, FS_Subset
<1>8. /\ Cardinality(Counted(Owed)) \in Nat /\ Cardinality(inMemory) \in Nat
      /\ Cardinality(onTheWay) \in Nat /\ Cardinality(inMemory \cup onTheWay) \in Nat
  <2>1. Cardinality(Counted(Owed)) \in Nat  BY <1>1, CountsTyped DEF Accounts
  <2>. QED  BY <2>1, <1>4, <1>6, FS_CardinalityType
<1>9. Cardinality(Counted(Owed)) <= Cardinality(inMemory) + Cardinality(onTheWay)
  BY <1>6, <1>7, <1>8
<1>. QED  BY <1>4, <1>9

\* Whatever fails or dies, a window costs no more than the cap and its overshoot, once
\* more what one guard may spend from its memory for each command that failed, and a
\* call for each job that died (runGuardedProviderCall, withFallback).
THEOREM SpendIsBounded == Spec => []SpendBounded
<1>1. ASSUME IInv, Accounts PROVE SpendBounded
  <2>. DEFINE fell == Cardinality(Fallen)
              sum == Cardinality(Counted(Owed))
              late == Cardinality(Pending) * MaxUnits
              fallen == fell * MemoryCap
              spare == (failed - fell) * MemoryCap
              dead == died * MaxUnits
  <2>1. /\ fell \in Nat /\ sum \in Nat /\ failed \in Nat /\ died \in Nat
        /\ value \in Nat /\ billed \in Nat /\ fell <= failed
    BY <1>1, SpendAssumption, CountsTyped DEF IInv, TypeOK, Accounts
  <2>2. sum <= fallen + late  BY <1>1, SpendAssumption, OwedTogether
  <2>3. billed <= value + sum + spare + dead  BY <1>1 DEF Accounts, Paid
  <2>4. value + late <= Cap - 1 + Overshoot  BY <1>1 DEF IInv, Room
  <2>5. fallen + spare = failed * MemoryCap
    <3>. HIDE DEF fell
    <3>. QED  BY <2>1, SpendAssumption, CapOfMemory
  <2>6. /\ late \in Nat /\ fallen \in Nat /\ spare \in Nat /\ dead \in Nat
        /\ Cap \in Nat /\ Overshoot \in Nat
    <3>1. Pending \subseteq Jobs /\ failed - fell \in Nat  BY <2>1 DEF Pending
    <3>2. Cardinality(Pending) \in Nat /\ Cardinality(Jobs) \in Nat
      BY <3>1, SpendAssumption, SubsetCount
    <3>3. /\ late \in Nat /\ fallen \in Nat /\ dead \in Nat /\ Cap \in Nat
          /\ Overshoot \in Nat
      BY <2>1, <3>2, SpendAssumption, Bounds, CapOfMemory, Products DEF Overshoot
    <3>4. spare \in Nat
      <4>. HIDE DEF fell
      <4>. QED  BY <3>1, SpendAssumption, CapOfMemory, Products
    <3>. QED  BY <3>3, <3>4
  <2>. HIDE DEF fell, sum, late, fallen, spare, dead
  <2>7. billed <= Cap - 1 + Overshoot + (fallen + spare) + dead
    BY <2>1, <2>2, <2>3, <2>4, <2>6
  <2>. QED  BY <2>5, <2>7 DEF SpendBounded, MemoryCap, dead
<1>2. IInv /\ Accounts => SpendBounded  BY <1>1
<1>. QED  BY <1>2, AccountsInvariant, PTL
=============================================================================
