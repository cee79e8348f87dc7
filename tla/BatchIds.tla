------------------------------ MODULE BatchIds ------------------------------
(***************************************************************************)
(* The ids of batches: milliseconds, then bits drawn once per process,     *)
(* then a counter.  The sampler role of a task moves from process to       *)
(* process; recovery and the completion cursor compare the ids of all of   *)
(* them.                                                                   *)
(***************************************************************************)
EXTENDS Integers, Sequences, SequencesExt, FiniteSets

CONSTANTS Mask,       \* BATCH_ID_COUNTER_MASK
          Entropies,  \* BATCH_ID_PROCESS_ENTROPY_BITS: numbers from 0
          MaxClock,   \* bound: milliseconds
          MaxIds,     \* bound: ids issued
          ClockSteps, \* what may happen to the wall clock between two readings
          MaxProcesses\* bound: processes that take the role up

IdsAssumption ==
  /\ Mask \in Nat /\ MaxClock \in Nat \ {0}
  /\ IsFiniteSet(Entropies) /\ Entropies # {} /\ Entropies \subseteq Nat

VARIABLES now, last, counter, entropy, \* the clock and BatchIdGenerator
          ids,      \* the ids issued (history)
          owners    \* the process that issued each of them (history)
vars == <<now, last, counter, entropy, ids, owners>>

Scale == Mask + 1
Process == IF owners = <<>> THEN 1 ELSE Last(owners)

Init ==
  /\ now = 1 /\ last = 0 /\ counter = 0 /\ entropy \in Entropies
  /\ ids = <<>> /\ owners = <<>>

\* Mutant: the counter starts over while the clock stands still.
ReadingWraps(t) ==
  IF t > last THEN <<t, 0>> ELSE IF counter >= Mask THEN <<last, 0>> ELSE <<last, counter>>

\* next_ids: a new millisecond, the next number of this one, or a millisecond ahead.
Reading(t) ==
  IF t > last THEN <<t, 0>> ELSE IF counter >= Mask THEN <<last + 1, 0>> ELSE <<last, counter>>

Id(millis, e, c) == (millis * (Cardinality(Entropies) * Scale)) + (e * Scale) + c

\* next_batch_ids, one id; process names the caller.
NextId(process) ==
  /\ Len(ids) < MaxIds
  /\ LET r == Reading(now) IN
     /\ last' = r[1] /\ counter' = r[2] + 1
     /\ ids' = Append(ids, Id(r[1], entropy, r[2])) /\ owners' = Append(owners, process)
  /\ UNCHANGED <<now, entropy>>

Clock == \E d \in ClockSteps : now + d \in 1 .. MaxClock /\ now' = now + d /\ UNCHANGED <<last, counter, entropy, ids, owners>>

\* Another process takes the role up, issuing its first id.
Restart ==
  /\ ids # <<>> /\ Process < MaxProcesses /\ Len(ids) < MaxIds
  /\ \E e \in Entropies :
       /\ entropy' = e /\ last' = now /\ counter' = 1
       /\ ids' = Append(ids, Id(now, e, 0)) /\ owners' = Append(owners, Process + 1)
  /\ UNCHANGED now

Next == NextId(Process) \/ Clock \/ Restart
Spec == Init /\ [][Next]_vars

\* A process's ids grow, whatever the clock does and however many are drawn in one
\* millisecond (batch_ids.rs:36).
MonotonePerProcess ==
  \A i \in 2 .. Len(ids) : owners[i] = owners[i - 1] => ids[i - 1] < ids[i]

\* A generator runs ahead of the clock only by what it issued: a process cannot
\* push its successor's ids back by more than its own ids need (batch_ids.rs:37).
AheadBounded == Mask * (last - MaxClock) <= Len(ids)

\* Both: what makes ids usable as an order of creation.
IdsGrow == MonotonePerProcess /\ AheadBounded
=============================================================================
