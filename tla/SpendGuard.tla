----------------------------- MODULE SpendGuard -----------------------------
(***************************************************************************)
(* The spend guard of one metered provider (src/core/spend-guard.ts).  The *)
(* units spent in a window are counted in Redis, shared by all jobs and    *)
(* servers.  A job makes its own guard, whose memory takes over, for as     *)
(* long as the job runs, when a command to Redis fails.  A job makes one    *)
(* call after another.                                                     *)
(***************************************************************************)
EXTENDS Integers, FiniteSets

CONSTANTS
  Jobs,         \* bound: jobs at work at once
  Cap,          \* the cap of the provider
  MaxUnits,     \* the units one call may cost
  MaxFaults,    \* bound: commands that fail, jobs that die
  MaxBilled     \* bound: units billed in one window

ASSUME SpendAssumption ==
  /\ IsFiniteSet(Jobs)
  /\ {Cap, MaxUnits} \subseteq Nat \ {0} /\ {MaxFaults, MaxBilled} \subseteq Nat

VARIABLES
  value,        \* the shared counter, 0 when its key does not exist
  ttl,          \* does the key expire
  job,          \* job[j]: where it is in a guarded call, and its guard
  billed,       \* what the provider billed since the key last expired
  failed,       \* how many commands failed
  died,         \* how many jobs died
  lost          \* was the EXPIRE of a counter lost; only the properties read it

vars == <<value, ttl, job, billed, failed, died, lost>>

Units == 1..MaxUnits
Gone == [pc |-> "gone", fallback |-> FALSE, memory |-> 0, units |-> 0]

At(j, pc) == job[j].pc = pc
Becomes(j, j2) == job' = [job EXCEPT ![j] = j2]

-----------------------------------------------------------------------------
(* withFallback, and the two stores *)

\* A command to Redis fails or times out.
CommandFails == failed + died < MaxFaults /\ failed' = failed + 1

\* A faulty fallback that does not repeat the operation it failed.
FallBackSilently(j, pc) ==
  Becomes(j, [job[j] EXCEPT !.pc = pc, !.fallback = TRUE, !.units = 0])

\* The guard turns to its memory for good, and repeats the operation there.
FallBack(j, pc) ==
  Becomes(j, [job[j] EXCEPT !.pc = pc, !.fallback = TRUE, !.units = 0,
                            !.memory = @ + job[j].units])

\* A faulty increment that never gives the key a time to live.
NeverCreates(u) == FALSE

\* The increment that creates the key sends EXPIRE after it.
CreatesKey(u) == value + u = u

\* A faulty check that stops one unit late.
AllowsAtCap(current) == current <= Cap

Allows(current) == current < Cap

-----------------------------------------------------------------------------
(* runGuardedProviderCall *)

\* createAiDependencies and its like: a job's guard is new, and so is its memory.
Start(j) ==
  /\ At(j, "gone")
  /\ Becomes(j, [Gone EXCEPT !.pc = "ready"])
  /\ UNCHANGED <<value, ttl, billed, failed, died, lost>>

End(j) ==
  /\ At(j, "ready")
  /\ Becomes(j, Gone)
  /\ UNCHANGED <<value, ttl, billed, failed, died, lost>>

\* Below the cap the provider is called, otherwise its mock.
Admit(j, current, fallback) ==
  Becomes(j, [job[j] EXCEPT !.pc = IF Allows(current) THEN "call" ELSE "ready",
                            !.fallback = fallback])

Check(j) ==
  /\ At(j, "ready")
  /\ UNCHANGED <<value, ttl, billed, died, lost>>
  /\ \/ job[j].fallback /\ Admit(j, job[j].memory, TRUE) /\ UNCHANGED failed
     \/ ~job[j].fallback /\ Admit(j, value, FALSE) /\ UNCHANGED failed
     \/ ~job[j].fallback /\ CommandFails /\ Admit(j, job[j].memory, TRUE)

\* The provider bills u units.
RealCall(j) ==
  /\ At(j, "call")
  /\ \E u \in Units :
       /\ billed + u <= MaxBilled
       /\ billed' = billed + u
       /\ Becomes(j, [job[j] EXCEPT !.pc = "record", !.units = u])
  /\ UNCHANGED <<value, ttl, failed, died, lost>>

\* The provider fails or bills nothing: the caller gets the mock, an error, or the
\* answer of a continuation.
Unbilled(j) ==
  /\ At(j, "call")
  /\ Becomes(j, [job[j] EXCEPT !.pc = "ready"])
  /\ UNCHANGED <<value, ttl, billed, failed, died, lost>>

\* INCRBY, which may be applied though its answer does not arrive.
Record(j) ==
  LET u == job[j].units IN
    /\ At(j, "record")
    /\ UNCHANGED <<ttl, billed, died>>
    /\ \/ /\ job[j].fallback
          /\ Becomes(j, [job[j] EXCEPT !.pc = "ready", !.units = 0, !.memory = @ + u])
          /\ UNCHANGED <<value, failed, lost>>
       \/ /\ ~job[j].fallback
          /\ value' = value + u
          /\ Becomes(j, IF CreatesKey(u) THEN [job[j] EXCEPT !.pc = "expire"]
                        ELSE [job[j] EXCEPT !.pc = "ready", !.units = 0])
          /\ UNCHANGED <<failed, lost>>
       \/ /\ ~job[j].fallback
          /\ CommandFails
          /\ \/ UNCHANGED <<value, lost>>
             \/ value' = value + u /\ lost' = (lost \/ CreatesKey(u))
          /\ FallBack(j, "ready")

\* EXPIRE is a command of its own.
Expire(j) ==
  /\ At(j, "expire")
  /\ UNCHANGED <<value, billed, died>>
  /\ \/ /\ ttl' = TRUE
        /\ Becomes(j, [job[j] EXCEPT !.pc = "ready", !.units = 0])
        /\ UNCHANGED <<failed, lost>>
     \/ /\ CommandFails
        /\ \/ UNCHANGED ttl /\ lost' = TRUE
           \/ ttl' = TRUE /\ UNCHANGED lost
        /\ FallBack(j, "ready")

\* The process dies with what the job had not recorded.
Die(j) ==
  /\ job[j].pc \in {"call", "record", "expire"}
  /\ failed + died < MaxFaults
  /\ died' = died + 1
  /\ lost' = (lost \/ At(j, "expire"))
  /\ Becomes(j, Gone)
  /\ UNCHANGED <<value, ttl, billed, failed>>

\* The window ends: Redis drops the key.
WindowEnds ==
  /\ ttl
  /\ value' = 0 /\ ttl' = FALSE /\ billed' = 0
  /\ UNCHANGED <<job, failed, died, lost>>

-----------------------------------------------------------------------------
Init ==
  /\ value = 0 /\ ttl = FALSE
  /\ job = [j \in Jobs |-> Gone]
  /\ billed = 0 /\ failed = 0 /\ died = 0 /\ lost = FALSE

Step(j) ==
  \/ Start(j) \/ End(j)
  \/ Check(j) \/ RealCall(j) \/ Unbilled(j)
  \/ Record(j) \/ Expire(j) \/ Die(j)

Next == WindowEnds \/ \E j \in Jobs : Step(j)

\* Time passes, and a job that has created the key goes on to its next command.
Fairness == WF_vars(WindowEnds) /\ \A j \in Jobs : WF_vars(Expire(j))

Spec == Init /\ [][Next]_vars
FairSpec == Spec /\ Fairness

-----------------------------------------------------------------------------
(* Properties *)

\* Every variable has its type, only a key that exists expires, and a job has units to
\* record when and only when it comes back from the provider.
TypeOK ==
  /\ value \in Nat /\ billed \in 0..MaxBilled
  /\ failed \in Nat /\ died \in Nat /\ failed + died <= MaxFaults
  /\ ttl \in BOOLEAN /\ lost \in BOOLEAN
  /\ ttl => value > 0
  /\ job \in [Jobs ->
       [pc : {"gone", "ready", "call"}, fallback : BOOLEAN, memory : Nat, units : {0}]
         \cup [pc : {"record", "expire"}, fallback : BOOLEAN, memory : Nat, units : Units]]

\* What may still be added to a counter when it has reached the cap: the check comes
\* before the call and the record after it, so every other job may be in between.
Overshoot == Cardinality(Jobs) * MaxUnits

\* The shared counter overshoots the cap by no more than the calls at work at once,
\* however they interleave with the end of a window, failures and deaths.
CounterBounded == value <= Cap - 1 + Overshoot

\* What a window may cost: the cap and the overshoot, once more the cap and a call for
\* each guard that lost Redis (it starts to count from nothing), and a call for
\* each job that died before it recorded one.
SpendBounded ==
  billed <= Cap - 1 + Overshoot + failed * (Cap - 1 + MaxUnits) + died * MaxUnits

\* A provider that is denied is allowed again when the window has passed, whatever reads,
\* increments, calls and jobs failed.  Only the EXPIRE of its counter may not be lost: with
\* the command that failed, with the answer of the increment that created the key, or with
\* the job between the two.
DenialEnds == ~Allows(value) ~> Allows(value) \/ lost

-----------------------------------------------------------------------------
(* Not kept by the code; see the README *)

\* "Spend is hard-bounded", and a missing Redis degrades to memory
\* (specs/25-real-integrations-cost.md, 3): the cap once in Redis and once in the
\* memory of the process, whatever fails.  But the memory is that of one job.
HardBounded == billed <= 2 * (Cap - 1 + Overshoot) + died * MaxUnits

\* A denied provider is always allowed again after its window.
DenialAlwaysEnds == ~Allows(value) ~> Allows(value)
=============================================================================
