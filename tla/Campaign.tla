------------------------------ MODULE Campaign ------------------------------
(***************************************************************************)
(* An integration campaign: the controller tick that creates children,     *)
(* observes them, grants samples and places samplers                       *)
(* (src/runners/integration_campaign.rs), the durable sample budget        *)
(* (src/stores/queries/campaign_budget.rs) and the children's samplers,    *)
(* which produce within their grant, publish progress and may be rolled    *)
(* back to a checkpoint (src/runners/sampler_aggregator.rs,                *)
(* src/stores/recovery.rs).                                                *)
(*                                                                         *)
(* Estimates are abstracted to whether the error target is met, which may  *)
(* change with every observation.                                          *)
(***************************************************************************)
EXTENDS Integers, FiniteSets, FiniteSetsExt

CONSTANTS
  Children,
  Cap,        \* max_total_samples
  Window,     \* allocation_window_samples
  MinSamples, \* min_samples_per_child
  MinTotal,   \* min_total_samples
  Train,      \* samples of the stages before a child's publishing stage
  Size,       \* samples of a child's whole queue
  MaxSlots,   \* samplers the campaign can use at most
  MaxFaults,  \* bound on failures of any kind
  None

CampaignAssumption ==
  /\ {Cap, Window, MinSamples, Size, MaxSlots} \subseteq Nat \ {0} /\ {Train, MinTotal, MaxFaults} \subseteq Nat
  /\ IsFiniteSet(Children) /\ Children # {}

VARIABLES
  task,    \* the campaign's task: active, completed or failed
  kid,     \* each child run: created, state, persisted progress, checkpoint
  role,    \* the child's live sampler: samples produced and completed, or None
  grant,   \* campaign_sample_budgets, -1 before the child is seeded
  placed,  \* children a sampler is wanted for
  slots,   \* samplers in the pool
  out,     \* persisted controller output: selected children, draining
  ctl,     \* the controller tick: where it is and what it has read
  peak,    \* history: most samples each child has published as completed
  faults

vars == <<task, kid, role, grant, placed, slots, out, ctl, peak, faults>>
children == <<kid, role, peak>>

Zero == [prod |-> 0, done |-> 0]
IdleCtl == [pc |-> "idle"]
Fault == faults < MaxFaults /\ faults' = faults + 1
SumOf(f) == MapThenSumSet(LAMBDA c : f[c], DOMAIN f)

-----------------------------------------------------------------------------
(* The sample budget                                                       *)

\* Allowance is reused only when the child's queue is completed.
Reusable(c) == kid[c].state = "completed"

\* Children are seeded with what they have produced; completed ones give back the rest.
Seeded == [c \in Children |->
  IF ~kid[c].made THEN -1
  ELSE IF grant[c] = -1 \/ Reusable(c) THEN kid[c].prod
  ELSE grant[c]]

Granted(g) == SumOf([c \in Children |-> Max({g[c], 0})])

\* Mutant: each request is limited by the cap, not by what is left of it.
ExtendedSeparately(g, requests) ==
  {[c \in Children |-> IF c \in DOMAIN requests THEN Max({g[c], Min({requests[c], Cap})}) ELSE g[c]]}

\* The requests are granted one after the other as far as the cap allows, in any order: all of
\* them, or some in full, at most one in part and the others not at all.
Extended(g, requests) ==
  LET wanted == [c \in Children |-> IF c \in DOMAIN requests THEN Max({g[c], requests[c]}) ELSE g[c]]
      InPart(h) == {c \in Children : g[c] < h[c] /\ h[c] < wanted[c]}
  IN {h \in [Children -> -1 .. Cap] :
        /\ \A c \in Children : g[c] <= h[c] /\ h[c] <= wanted[c]
        /\ Granted(h) = Min({Cap, Granted(wanted)})
        /\ \A c, d \in InPart(h) : c = d}

-----------------------------------------------------------------------------
(* A child's sampler                                                       *)

\* Activation rolls the child back to its checkpoint.
StartRole(c) ==
  /\ role[c] = None /\ c \in placed /\ kid[c].state = "active"
  /\ role' = [role EXCEPT ![c] = kid[c].ck]
  /\ kid' = [kid EXCEPT ![c].prod = kid[c].ck.prod, ![c].done = kid[c].ck.done]
  /\ UNCHANGED <<task, grant, placed, slots, out, ctl, peak, faults>>

\* campaign_sample_allowance, within the child's own budget.
Allowance(c) == Min({grant[c], Size})

Produce(c) ==
  /\ role[c] # None /\ c \in placed /\ role[c].prod < Allowance(c)
  /\ role' = [role EXCEPT ![c].prod = @ + 1]
  /\ UNCHANGED <<task, kid, grant, placed, slots, out, ctl, peak, faults>>

Ingest(c) ==
  /\ role[c] # None /\ role[c].done < role[c].prod
  /\ role' = [role EXCEPT ![c].done = @ + 1]
  /\ UNCHANGED <<task, kid, grant, placed, slots, out, ctl, peak, faults>>

Published(c, ck) ==
  /\ kid' = [kid EXCEPT ![c].prod = role[c].prod, ![c].done = role[c].done, ![c].ck = ck,
                        ![c].state = IF role[c].done = Size THEN "completed" ELSE @]
  /\ peak' = [peak EXCEPT ![c] = Max({@, role[c].done})]

\* Progress and accumulator are published.
Publish(c) ==
  /\ role[c] # None /\ kid[c].done # role[c].done /\ role[c].done < Size
  /\ Published(c, kid[c].ck)
  /\ UNCHANGED <<task, role, grant, placed, slots, out, ctl, faults>>

Checkpoint(c) ==
  /\ role[c] # None /\ kid[c].ck # role[c] /\ role[c].done < Size
  /\ Published(c, role[c])
  /\ UNCHANGED <<task, role, grant, placed, slots, out, ctl, faults>>

\* The last checkpoint of a role that is finished or no longer wanted.
EndRole(c) ==
  /\ role[c] # None /\ (c \notin placed \/ role[c].done = Size)
  /\ Published(c, role[c])
  /\ role' = [role EXCEPT ![c] = None]
  /\ UNCHANGED <<task, grant, placed, slots, out, ctl, faults>>

Crash(c) ==
  /\ role[c] # None /\ Fault
  /\ role' = [role EXCEPT ![c] = None]
  /\ UNCHANGED <<task, kid, grant, placed, slots, out, ctl, peak>>

FailChild(c) ==
  /\ role[c] # None /\ Fault
  /\ role' = [role EXCEPT ![c] = None]
  /\ kid' = [kid EXCEPT ![c].state = "failed"]
  /\ UNCHANGED <<task, grant, placed, slots, out, ctl, peak>>

\* Workers join or leave the pool.
PoolChanges(n) ==
  /\ n # slots /\ Fault /\ slots' = n
  /\ UNCHANGED <<task, kid, role, grant, placed, out, ctl, peak>>

-----------------------------------------------------------------------------
(* The controller tick                                                     *)

Made == {c \in Children : kid[c].made}

\* Missing children are created one by one.
CreateChild(c) ==
  /\ task = "active" /\ ctl = IdleCtl /\ ~kid[c].made
  /\ kid' = [kid EXCEPT ![c].made = TRUE]
  /\ UNCHANGED <<task, role, grant, placed, slots, out, ctl, peak, faults>>

\* load_published_child_result: is the publishing stage usable.
Ready(done) == done >= Train + 2

Observe ==
  /\ task = "active" /\ ctl = IdleCtl /\ Made = Children
  /\ ctl' = [pc |-> "nodes", was |-> out,
             seen |-> [c \in Children |-> [state |-> kid[c].state, done |-> kid[c].done, ready |-> Ready(kid[c].done)]]]
  /\ UNCHANGED <<task, children, grant, placed, slots, out, faults>>

\* list_nodes: current placements, wanted placements, capacity.
ReadNodes ==
  /\ ctl.pc = "nodes"
  /\ ctl' = [pc |-> "budget", was |-> ctl.was, seen |-> ctl.seen, cur |-> {c \in Children : role[c] # None},
             inc |-> placed, cap |-> slots]
  /\ UNCHANGED <<task, children, grant, placed, slots, out, faults>>

ReadBudget ==
  /\ ctl.pc = "budget"
  /\ grant' = Seeded
  /\ ctl' = [pc |-> "decide", was |-> ctl.was, seen |-> ctl.seen, cur |-> ctl.cur, inc |-> ctl.inc, cap |-> ctl.cap,
             budget |-> Seeded]
  /\ UNCHANGED <<task, children, placed, slots, out, faults>>

Unfinished(c) == ctl.budget[c] > ctl.seen[c].done
Unallocated   == Cap - Granted(ctl.budget)

Outstanding   == \E c \in Children : ctl.seen[c].state # "completed" /\ Unfinished(c)
Total         == SumOf([c \in Children |-> ctl.seen[c].done])
AllReady      == \A c \in Children : ctl.seen[c].ready
NeedsPilot(c) == ~ctl.seen[c].ready \/ ctl.seen[c].done - Train < MinSamples
Failed        == (\E c \in Children : ctl.seen[c].state = "failed") \/ (~AllReady /\ Total >= Cap)

\* campaign_should_stop, given whether the error target is met.
ShouldStop(met) ==
  Total >= MinTotal /\ (Total >= Cap \/ (met /\ \A c \in Children : ~NeedsPilot(c)))

Target(met) == AllReady /\ ShouldStop(met)

Draining(met) == Outstanding /\ (Target(met) \/ ctl.was.draining)

CanAllocate(met) == Unallocated # 0 /\ ~Draining(met)
Eligible(met) == {c \in Children : ctl.seen[c].state # "completed" /\ (CanAllocate(met) \/ Unfinished(c))}

\* schedule_children: unfinished quanta keep their slot; the others by need.
Before(a, b) ==
  \/ Unfinished(a) /\ ~Unfinished(b)
  \/ /\ Unfinished(a) = Unfinished(b)
     /\ \/ NeedsPilot(a) /\ ~NeedsPilot(b)
        \/ NeedsPilot(a) /\ NeedsPilot(b) /\ ctl.seen[a].done < ctl.seen[b].done

Schedules(met) ==
  LET E == Eligible(met)
      live == {c \in E \cap ctl.inc : Unfinished(c)}
      saved == {c \in E \cap ctl.was.selected : Unfinished(c)} \ live
      n == Min({ctl.cap, Cardinality(E)})
      Keeps(S) == /\ live \subseteq S \/ S \subseteq live
                  /\ (live \cup saved) \subseteq S \/ S \subseteq live \cup saved
      kept(S) == S \cap (live \cup saved)
  IN {S \in kSubset(n, E) : Keeps(S) /\ \A a \in E \ S, b \in S \ kept(S) : ~Before(a, b)}

Quantum(c) ==
  LET missing == Max({MinSamples, 2}) - (IF ctl.seen[c].ready THEN ctl.seen[c].done - Train ELSE 0)
  IN IF NeedsPilot(c) /\ missing > 0 THEN Min({Window, missing}) ELSE Window

\* Mutant: a request is for one quantum in all, not for one more.
RequestsOnce(S, met) == IF CanAllocate(met) THEN [c \in S |-> Quantum(c)] ELSE [c \in {} |-> 0]

Requests(S, met) ==
  IF CanAllocate(met) THEN [c \in {d \in S : ~Unfinished(d)} |-> ctl.seen[c].done + Quantum(c)] ELSE [c \in {} |-> 0]

\* Every branch of the tick after its reads; met: the error target holds of what was read.
Decide(met) ==
  /\ ctl.pc = "decide"
  /\ \/ /\ Failed
        /\ ctl' = [pc |-> "release", to |-> "failed"] /\ out' = [selected |-> {}, draining |-> FALSE]
     \/ /\ ~Failed /\ Target(met) /\ ~Outstanding
        /\ out' = [selected |-> {}, draining |-> ctl.cur # {}]
        /\ ctl' = [pc |-> "release", to |-> IF ctl.cur # {} THEN "active" ELSE "completed"]
     \/ /\ ~Failed /\ ~(Target(met) /\ ~Outstanding) /\ Eligible(met) = {}
        /\ ctl' = [pc |-> "release", to |-> "failed"] /\ out' = [selected |-> {}, draining |-> FALSE]
     \/ /\ ~Failed /\ ~(Target(met) /\ ~Outstanding) /\ Eligible(met) # {}
        /\ \E S \in Schedules(met) :
             ctl' = [pc |-> "grant", to |-> S, requests |-> Requests(S, met), draining |-> Draining(met)]
        /\ UNCHANGED out
  /\ UNCHANGED <<task, children, grant, placed, slots, faults>>

\* allocate_campaign_samples with the requests.
Allocate ==
  /\ ctl.pc = "grant"
  /\ grant' \in Extended(Seeded, ctl.requests)
  /\ ctl' = [pc |-> "place", to |-> ctl.to, draining |-> ctl.draining]
  /\ UNCHANGED <<task, children, placed, slots, out, faults>>

Place ==
  /\ ctl.pc = "place" /\ placed' = ctl.to
  /\ ctl' = [ctl EXCEPT !.pc = "publish"]
  /\ UNCHANGED <<task, children, grant, slots, out, faults>>

PersistOutput ==
  /\ ctl.pc = "publish"
  /\ out' = [selected |-> ctl.to, draining |-> ctl.draining]
  /\ ctl' = IdleCtl
  /\ UNCHANGED <<task, children, grant, placed, slots, faults>>

\* finish_controller: placements are released, then the task ends.
Release ==
  /\ ctl.pc = "release" /\ placed' = {}
  /\ ctl' = IF ctl.to = "active" THEN IdleCtl ELSE [pc |-> "finish", to |-> ctl.to]
  /\ UNCHANGED <<task, children, grant, slots, out, faults>>

Finish ==
  /\ ctl.pc = "finish" /\ task' = ctl.to /\ ctl' = IdleCtl
  /\ UNCHANGED <<children, grant, placed, slots, out, faults>>

TickFails ==
  /\ ctl # IdleCtl /\ Fault /\ ctl' = IdleCtl
  /\ UNCHANGED <<task, children, grant, placed, slots, out>>

-----------------------------------------------------------------------------

Init ==
  /\ task = "active" /\ role = [c \in Children |-> None] /\ grant = [c \in Children |-> -1]
  /\ kid = [c \in Children |-> [made |-> FALSE, state |-> "active", prod |-> 0, done |-> 0, ck |-> Zero]]
  /\ placed = {} /\ slots = MaxSlots /\ out = [selected |-> {}, draining |-> FALSE] /\ ctl = IdleCtl
  /\ peak = [c \in Children |-> 0] /\ faults = 0

ChildStep(c) == StartRole(c) \/ Produce(c) \/ Ingest(c) \/ Publish(c) \/ EndRole(c)

TickStep ==
  \/ Observe \/ ReadNodes \/ ReadBudget \/ Allocate \/ Place \/ PersistOutput \/ Release \/ Finish
  \/ \E c \in Children : CreateChild(c)
  \/ \E met \in BOOLEAN : Decide(met)

Done == task # "active" /\ (\A c \in Children : role[c] = None) /\ UNCHANGED vars

Next ==
  \/ TickStep \/ TickFails \/ Done
  \/ \E c \in Children : ChildStep(c) \/ Checkpoint(c) \/ Crash(c) \/ FailChild(c)
  \/ \E n \in 0 .. MaxSlots : PoolChanges(n)

Spec == Init /\ [][Next]_vars

-----------------------------------------------------------------------------
(* Properties                                                              *)

TypeOK ==
  /\ task \in {"active", "completed", "failed"} /\ placed \subseteq Children /\ slots \in 0 .. MaxSlots
  /\ grant \in [Children -> -1 .. Cap] /\ peak \in [Children -> 0 .. Size]
  /\ \A c \in Children : /\ kid[c].state \in {"active", "completed", "failed"} /\ kid[c].made \in BOOLEAN
                         /\ kid[c].ck.prod \in 0 .. Size /\ kid[c].ck.done <= kid[c].ck.prod
                         /\ role[c] # None => role[c].prod \in 0 .. Size /\ role[c].done <= role[c].prod
  /\ out.selected \subseteq Children /\ out.draining \in BOOLEAN

\* Grants are disjoint portions of the cap, and no sampler ever has more samples in play
\* than its child's grant, through crashes, rollbacks and hand-overs.
CapKept ==
  /\ Granted(grant) <= Cap
  /\ \A c \in Children : role[c] # None => role[c].prod <= grant[c]

\* A grant is one quantum beyond what the child had completed: a tick that is repeated
\* after a crash between grant, placement and output does not grant it twice.
QuantumOnce == \A c \in Children : grant[c] <= peak[c] + Window

\* A campaign completes on what was granted: each child had published all of it, or its
\* queue was completed, and its publishing stage was usable.
CompletedDrained ==
  task = "completed" => \A c \in Children : /\ peak[c] >= grant[c] \/ kid[c].state = "completed"
                                            /\ Ready(peak[c])

\* An error target ends a campaign only after every child's pilot, unless the cap did.
PilotsFirst ==
  task = "completed" => SumOf(peak) >= Cap \/ \A c \in Children : peak[c] - Train >= MinSamples

\* The budget as a whole: grants are disjoint portions of the cap, one quantum at a time, and a
\* campaign completes drained and after every pilot.
BudgetShared == TypeOK /\ CapKept /\ QuantumOnce /\ CompletedDrained /\ PilotsFirst
=============================================================================
