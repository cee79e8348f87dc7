-------------------------- MODULE NodeControlProofs --------------------------
(***************************************************************************)
(* What NodeControl guarantees for any names, processes, runs and bounds.  *)
(* A row of the nodes table changes under statements of operators, of the  *)
(* process that holds the name and of processes that held it before; the   *)
(* invariant says whose role a row may record and whose request it holds.  *)
(***************************************************************************)
EXTENDS NodeControl, FiniteSetTheorems, TLAPS

Sampler(r) == [run |-> r, role |-> "sampler"]

\* A row's uuid is that of a process started under its name; only such a row
\* records a role.
RowsNamed ==
  \A n \in Names : /\ nodes[n].uuid # None => NameOf[nodes[n].uuid] = n
                   /\ nodes[n].current # None => nodes[n].uuid # None

PoolOne ==
  \A r \in Runs \ Controllers, n, m \in Names :
    nodes[n].pool = Sampler(r) /\ nodes[m].pool = Sampler(r) => n = m

CurrentOne ==
  \A r \in Runs, n, m \in Names :
    nodes[n].current = Sampler(r) /\ nodes[m].current = Sampler(r) => n = m

\* The inductive invariant.
NodeInv == TypeOK /\ RowsNamed /\ PoolOne /\ CurrentOne /\ CurrentOwned /\ ShutdownTargeted

-----------------------------------------------------------------------------
(* Rows.                                                                   *)

\* What no statement but those of the row's own process may do to a row: it keeps its
\* process, its recorded role stands or goes, and its lease is not given.
Passive(w, v) ==
  /\ v \in Row /\ v.uuid = w.uuid /\ (v.live => w.live)
  /\ v.current \in {w.current, None}

\* The root of a run is a run, and a pool is a target.
LEMMA RootTyped ==
  ASSUME NodeAssumption, NEW r \in Runs
  PROVE  Root(r) \in Runs
BY DEF NodeAssumption, Root

\* None is no target.
LEMMA NoneNoTarget ==
  ASSUME NEW t \in Targets, NodeAssumption
  PROVE  t.run \in Runs /\ t.role \in Roles
BY DEF Targets

\* clear_expired_assignments touches assignments only, of lapsed rows only, and spares
\* those that are kept for a resume.
LEMMA ClearExpiredRows ==
  ASSUME nodes \in [Names -> Row]
  PROVE  /\ ClearExpired(nodes) \in [Names -> Row]
         /\ \A n \in Names :
              LET w == nodes[n]
                  v == ClearExpired(nodes)[n] IN
              /\ v.uuid = w.uuid /\ v.live = w.live /\ v.shutdown = w.shutdown /\ v.resume = w.resume
              /\ v.pool \in {w.pool, None} /\ v.current \in {w.current, None}
              /\ w.live => v = w
              /\ w.resume => v.pool = w.pool /\ v.desired = w.desired
<1> DEFINE Clr(w) == [w EXCEPT !.pool = IF Kept(w) THEN @ ELSE None,
                               !.desired = IF Kept(w) THEN @ ELSE None,
                               !.current = None]
<1>1. ASSUME NEW w \in Row
      PROVE  /\ Clr(w) \in Row
             /\ Clr(w).uuid = w.uuid /\ Clr(w).live = w.live /\ Clr(w).shutdown = w.shutdown /\ Clr(w).resume = w.resume
             /\ Clr(w).pool \in {w.pool, None} /\ Clr(w).current = None
             /\ w.resume => Clr(w).pool = w.pool /\ Clr(w).desired = w.desired
  <2>1. w.resume => Kept(w)
    BY DEF Kept
  <2> DEFINE p == IF Kept(w) THEN w.pool ELSE None
             d == IF Kept(w) THEN w.desired ELSE None
  <2>2. p \in Maybe /\ d \in Maybe /\ p \in {w.pool, None} /\ (w.resume => p = w.pool /\ d = w.desired)
    BY <2>1 DEF Row, Maybe
  <2> HIDE DEF p, d
  <2>3. Clr(w) = [w EXCEPT !.pool = p, !.desired = d, !.current = None]
    BY DEF p, d
  <2>4. [w EXCEPT !.pool = p, !.desired = d, !.current = None] \in Row
    BY <2>2 DEF Row, Maybe
  <2> HIDE DEF Clr
  <2> QED BY <2>2, <2>3, <2>4 DEF Row
<1>2. \A n \in Names : ClearExpired(nodes)[n] =
          IF nodes[n].reg /\ ~nodes[n].live /\ (nodes[n].desired # None \/ nodes[n].current # None)
          THEN Clr(nodes[n]) ELSE nodes[n]
  BY DEF ClearExpired
<1>3. ClearExpired(nodes) = [n \in Names |-> ClearExpired(nodes)[n]]
  BY DEF ClearExpired
<1> HIDE DEF Clr
<1>4. \A n \in Names : ClearExpired(nodes)[n] \in Row
  BY <1>1, <1>2
<1> QED BY <1>1, <1>2, <1>3, <1>4

-----------------------------------------------------------------------------
(* Steps of statements, which change no process.                           *)

\* Passive changes of rows that keep the pools and the shutdown requests right keep all.
LEMMA PassiveSafe ==
  ASSUME NodeAssumption, NodeInv,
         UNCHANGED proc, runs' \subseteq Runs, nodes' \in [Names -> Row], askedOf' \in [Names -> Procs \cup {None}],
         ops' \in 0 .. MaxOps, faults' \in 0 .. MaxFaults,
         \A n \in Names : Passive(nodes[n], nodes'[n]),
         PoolOne', ShutdownTargeted'
  PROVE  NodeInv'
<1>1. TypeOK'
  BY DEF NodeInv, TypeOK, Passive
<1>2. RowsNamed'
  BY DEF NodeInv, RowsNamed, Passive
<1>3. CurrentOne'
  <2>1. ASSUME NEW r \in Runs, NEW n \in Names, nodes'[n].current = Sampler(r) PROVE nodes[n].current = Sampler(r)
    <3>1. Sampler(r) \in Targets /\ Sampler(r) # None
      BY DEF Sampler, Targets, Roles, NodeAssumption
    <3> QED BY <2>1, <3>1 DEF Passive
  <2> QED BY <2>1 DEF NodeInv, CurrentOne
<1>4. CurrentOwned'
  BY DEF NodeInv, CurrentOwned, Passive
<1> QED BY <1>1, <1>2, <1>3, <1>4 DEF NodeInv

\* Pools that are kept or taken away stay unique.
LEMMA PoolsKept ==
  ASSUME NodeAssumption, NodeInv, \A n \in Names : nodes'[n].pool \in {nodes[n].pool, None}
  PROVE  PoolOne'
<1>1. ASSUME NEW r \in Runs, NEW n \in Names, nodes'[n].pool = Sampler(r) PROVE nodes[n].pool = Sampler(r)
  <2>1. Sampler(r) # None
    BY DEF Sampler, Targets, Roles, NodeAssumption
  <2> QED BY <1>1, <2>1
<1> QED BY <1>1 DEF NodeInv, PoolOne

\* So do shutdown requests.
LEMMA RequestsKept ==
  ASSUME NodeInv, UNCHANGED askedOf,
         \A n \in Names : nodes'[n].uuid = nodes[n].uuid /\ (nodes'[n].shutdown => nodes[n].shutdown)
  PROVE  ShutdownTargeted'
BY DEF NodeInv, ShutdownTargeted

-----------------------------------------------------------------------------
(* Statements on the nodes table.                                          *)

\* What every step keeps: the invariant, and the two promises about steps.
StepKept == NodeInv' /\ OnlyOwnerReleases /\ SuspendedKept

\* A statement that counts as an operator's changes assignments at will.
LEMMA OperatorKept ==
  ASSUME NodeAssumption, NodeInv, Op, UNCHANGED <<proc, faults>>,
         runs' \subseteq Runs, nodes' \in [Names -> Row], askedOf' \in [Names -> Procs \cup {None}],
         \A n \in Names : /\ Passive(nodes[n], nodes'[n])
                          /\ nodes[n].live /\ nodes'[n].current # nodes[n].current
                               => nodes[n].current.run \notin runs',
         PoolOne', ShutdownTargeted'
  PROVE  StepKept
<1>1. ops' \in 0 .. MaxOps /\ faults' \in 0 .. MaxFaults /\ ops' # ops
  BY DEF Op, NodeInv, TypeOK, NodeAssumption
<1>2. NodeInv'
  BY <1>1, PassiveSafe
<1>3. OnlyOwnerReleases
  BY DEF OnlyOwnerReleases
<1>4. SuspendedKept
  BY <1>1 DEF SuspendedKept
<1> QED BY <1>2, <1>3, <1>4 DEF StepKept

\* Rows change in their assignments only.
Reassigned(w, v) ==
  /\ v \in Row /\ v.uuid = w.uuid /\ v.live = w.live /\ v.current = w.current /\ v.shutdown = w.shutdown

LEMMA ReassignedKept ==
  ASSUME NodeAssumption, NodeInv, Op, UNCHANGED <<runs, proc, askedOf, faults>>,
         nodes' = [n \in Names |-> nodes'[n]],
         \A n \in Names : Reassigned(nodes[n], nodes'[n]),
         PoolOne'
  PROVE  StepKept
<1>1. nodes' \in [Names -> Row] /\ runs' \subseteq Runs /\ askedOf' \in [Names -> Procs \cup {None}]
  BY DEF Reassigned, NodeInv, TypeOK
<1>2. \A n \in Names : Passive(nodes[n], nodes'[n]) /\ nodes'[n].current = nodes[n].current
  BY DEF Reassigned, Passive
<1>3. ShutdownTargeted'
  BY RequestsKept DEF Reassigned
<1> QED BY <1>1, <1>2, <1>3, OperatorKept

LEMMA NoDesiredRow ==
  ASSUME NEW w \in Row
  PROVE  Reassigned(w, NoDesired(w)) /\ NoDesired(w).pool = None
BY DEF Row, Maybe, NoDesired, Reassigned

LEMMA ClearDesiredKept ==
  ASSUME NodeAssumption, NodeInv, NEW S \in SUBSET Names, ClearDesired(S)
  PROVE  StepKept
<1>1. nodes' = [n \in Names |-> IF n \in S THEN NoDesired(nodes[n]) ELSE nodes[n]]
  BY DEF ClearDesired
<1>2. \A n \in Names : nodes[n] \in Row
  BY DEF NodeInv, TypeOK
<1>3. \A n \in Names : Reassigned(nodes[n], nodes'[n]) /\ nodes'[n].pool \in {nodes[n].pool, None}
  BY <1>1, <1>2, NoDesiredRow DEF Reassigned
<1>4. PoolOne'
  BY <1>3, PoolsKept
<1> QED BY <1>1, <1>3, <1>4, ReassignedKept DEF ClearDesired

LEMMA PausePoolKept ==
  ASSUME NodeAssumption, NodeInv, NEW r \in Runs, PausePool(r)
  PROVE  StepKept
<1>1. nodes' = [n \in Names |-> IF nodes[n].pool # None /\ nodes[n].pool.run = Root(r)
                                THEN [nodes[n] EXCEPT !.desired = None] ELSE nodes[n]]
  BY DEF PausePool
<1>2. \A n \in Names : nodes[n] \in Row
  BY DEF NodeInv, TypeOK
<1>3. \A n \in Names : Reassigned(nodes[n], nodes'[n]) /\ nodes'[n].pool \in {nodes[n].pool, None}
  <2>1. ASSUME NEW w \in Row
        PROVE  Reassigned(w, [w EXCEPT !.desired = None]) /\ [w EXCEPT !.desired = None].pool = w.pool
    BY DEF Row, Maybe, Reassigned
  <2> QED BY <1>1, <1>2, <2>1 DEF Reassigned
<1>4. PoolOne'
  BY <1>3, PoolsKept
<1> QED BY <1>1, <1>3, <1>4, ReassignedKept DEF PausePool

LEMMA ResumePoolKept ==
  ASSUME NodeAssumption, NodeInv, NEW r \in Runs, ResumePool(r)
  PROVE  StepKept
<1>1. nodes' = [n \in Names |->
                 IF nodes[n].pool # None /\ nodes[n].pool.run = Root(r) /\ nodes[n].desired = None
                 THEN [nodes[n] EXCEPT !.desired = nodes[n].pool] ELSE nodes[n]]
  BY DEF ResumePool
<1>2. \A n \in Names : nodes[n] \in Row
  BY DEF NodeInv, TypeOK
<1>3. \A n \in Names : Reassigned(nodes[n], nodes'[n]) /\ nodes'[n].pool \in {nodes[n].pool, None}
  <2>1. ASSUME NEW w \in Row
        PROVE  Reassigned(w, [w EXCEPT !.desired = w.pool]) /\ [w EXCEPT !.desired = w.pool].pool = w.pool
    BY DEF Row, Maybe, Reassigned
  <2> QED BY <1>1, <1>2, <2>1 DEF Reassigned
<1>4. PoolOne'
  BY <1>3, PoolsKept
<1> QED BY <1>1, <1>3, <1>4, ReassignedKept DEF ResumePool

\* A finished child's workers return to a run that exists.
LEMMA FinishRunKept ==
  ASSUME NodeAssumption, NodeInv, NEW r \in Runs, NEW a \in BOOLEAN, FinishRun(r, a)
  PROVE  StepKept
<1> DEFINE back == a /\ Parent[r] # None
           Back(w) == [w EXCEPT !.desired = IF @ = None THEN None ELSE [@ EXCEPT !.run = Parent[r]]]
<1>1. nodes' = [n \in Names |->
                 LET w == nodes[n] IN
                 IF ~((w.desired # None /\ w.desired.run = r) \/ (w.pool # None /\ w.pool.run = r)) THEN w
                 ELSE IF ~back THEN NoDesired(w)
                 ELSE Back(w)]
  BY DEF FinishRun
<1>2. \A n \in Names : nodes[n] \in Row
  BY DEF NodeInv, TypeOK
<1>3. ASSUME NEW w \in Row, back PROVE Reassigned(w, Back(w)) /\ Back(w).pool = w.pool
  <2> DEFINE d == IF w.desired = None THEN None ELSE [w.desired EXCEPT !.run = Parent[r]]
  <2>1. Parent[r] \in Runs
    BY <1>3 DEF NodeAssumption
  <2>2. d \in Maybe
    BY <2>1 DEF Row, Maybe, Targets
  <2>3. Back(w) = [w EXCEPT !.desired = d]
    BY DEF Row
  <2> HIDE DEF d
  <2>4. Reassigned(w, [w EXCEPT !.desired = d]) /\ [w EXCEPT !.desired = d].pool = w.pool
    BY <2>2 DEF Row, Maybe, Reassigned
  <2> QED BY <2>3, <2>4
<1> HIDE DEF Back, back
<1>4. \A n \in Names : nodes'[n] \in {nodes[n], NoDesired(nodes[n])} \cup {w \in {Back(nodes[n])} : back}
  BY <1>1
<1>5. \A n \in Names : Reassigned(nodes[n], nodes'[n]) /\ nodes'[n].pool \in {nodes[n].pool, None}
  BY <1>2, <1>3, <1>4, NoDesiredRow DEF Reassigned
<1>6. PoolOne'
  BY <1>5, PoolsKept
<1>7. nodes' = [n \in Names |-> nodes'[n]]
  BY <1>1
<1> QED BY <1>5, <1>6, <1>7, ReassignedKept DEF FinishRun

\* A controller places a worker: its pool stays.
LEMMA UpdateDesiredKept ==
  ASSUME NodeAssumption, NodeInv, NEW n \in Names, NEW t \in Maybe, UpdateDesired(n, t)
  PROVE  StepKept
<1> DEFINE ns == ClearExpired(nodes)
<1>1. /\ ns \in [Names -> Row]
      /\ \A m \in Names : /\ ns[m].uuid = nodes[m].uuid /\ ns[m].live = nodes[m].live
                          /\ ns[m].shutdown = nodes[m].shutdown
                          /\ ns[m].pool \in {nodes[m].pool, None} /\ ns[m].current \in {nodes[m].current, None}
                          /\ nodes[m].live => ns[m] = nodes[m]
  BY ClearExpiredRows DEF NodeInv, TypeOK
<1>2. nodes' = [ns EXCEPT ![n].desired = t]
  BY DEF UpdateDesired
<1> HIDE DEF ns
<1>3. ASSUME NEW w \in Row
      PROVE  Reassigned(w, [w EXCEPT !.desired = t]) /\ [w EXCEPT !.desired = t].pool = w.pool
  BY DEF Row, Reassigned
<1>4. nodes' = [ns EXCEPT ![n] = [ns[n] EXCEPT !.desired = t]]
  BY <1>1, <1>2
<1>5. \A m \in Names : Reassigned(ns[m], nodes'[m]) /\ nodes'[m].pool = ns[m].pool
  BY <1>1, <1>3, <1>4 DEF Reassigned
<1>6. nodes' \in [Names -> Row]
  BY <1>1, <1>4, <1>5 DEF Reassigned
<1>7. \A m \in Names : /\ Passive(nodes[m], nodes'[m])
                       /\ nodes[m].live => nodes'[m].current = nodes[m].current
                       /\ nodes'[m].uuid = nodes[m].uuid /\ nodes'[m].shutdown = nodes[m].shutdown
                       /\ nodes'[m].pool \in {nodes[m].pool, None}
  BY <1>1, <1>5 DEF Reassigned, Passive
<1>8. PoolOne' /\ ShutdownTargeted'
  <2>1. PoolOne'
    BY <1>7, PoolsKept
  <2>2. UNCHANGED askedOf
    BY DEF UpdateDesired
  <2> QED BY <1>7, <2>1, <2>2, RequestsKept
<1> QED
  <2>1. runs' \subseteq Runs /\ askedOf' \in [Names -> Procs \cup {None}] /\ Op /\ UNCHANGED <<proc, faults>>
    BY DEF UpdateDesired, NodeInv, TypeOK
  <2> QED BY <1>6, <1>7, <1>8, <2>1, OperatorKept

\* A worker enters the pool of a run only if the run's sampler slot is free.
LEMMA AssignPoolKept ==
  ASSUME NodeAssumption, NodeInv, NEW n \in Names, NEW t \in Targets, AssignPool(n, t)
  PROVE  StepKept
<1> DEFINE ns == ClearExpired(nodes)
           pool == [run |-> Root(t.run), role |-> t.role]
           d == IF ns[n].pool = pool /\ ns[n].desired # None THEN ns[n].desired ELSE pool
           v == [ns[n] EXCEPT !.pool = pool, !.desired = d]
<1>1. /\ ns \in [Names -> Row]
      /\ \A m \in Names : /\ ns[m].uuid = nodes[m].uuid /\ ns[m].live = nodes[m].live
                          /\ ns[m].shutdown = nodes[m].shutdown
                          /\ ns[m].pool \in {nodes[m].pool, None} /\ ns[m].current \in {nodes[m].current, None}
                          /\ nodes[m].live => ns[m] = nodes[m]
  BY ClearExpiredRows DEF NodeInv, TypeOK
<1>2. nodes' = IF ~ns[n].live THEN ns
               ELSE [ns EXCEPT ![n].pool = pool,
                               ![n].desired = IF ns[n].pool = pool /\ @ # None THEN @ ELSE pool]
  BY DEF AssignPool
<1>3. ~Occupied(ns, n, t)
  BY DEF AssignPool
<1>4. t.run \in Runs /\ t.role \in Roles
  BY DEF Targets
<1>5. pool \in Targets
  BY <1>4, RootTyped DEF Targets
<1> HIDE DEF ns
<1>6. nodes' = ns \/ nodes' = [ns EXCEPT ![n] = v]
  BY <1>1, <1>2
<1> HIDE DEF pool
<1>7. Reassigned(ns[n], v) /\ v.pool = pool
  <2>1. d \in Maybe /\ pool \in Maybe
    BY <1>1, <1>5 DEF Row, Maybe
  <2>2. ns[n] \in Row
    BY <1>1
  <2> HIDE DEF d
  <2> QED BY <2>1, <2>2 DEF Row, Reassigned
<1> HIDE DEF v
<1>8. \A m \in Names : Reassigned(ns[m], nodes'[m]) /\ (nodes'[m].pool = ns[m].pool \/ (m = n /\ nodes'[m].pool = pool))
  <2>1. \A m \in Names : Reassigned(ns[m], ns[m])
    BY <1>1 DEF Reassigned
  <2>2. CASE nodes' = ns
    BY <2>1, <2>2
  <2>3. CASE nodes' = [ns EXCEPT ![n] = v]
    BY <1>1, <1>7, <2>1, <2>3
  <2> QED BY <1>6, <2>2, <2>3
<1>9. nodes' \in [Names -> Row]
  BY <1>1, <1>6, <1>7 DEF Reassigned
<1>10. \A m \in Names : /\ Passive(nodes[m], nodes'[m])
                        /\ nodes[m].live => nodes'[m].current = nodes[m].current
                        /\ nodes'[m].uuid = nodes[m].uuid /\ nodes'[m].shutdown = nodes[m].shutdown
  BY <1>1, <1>8 DEF Reassigned, Passive
<1>11. PoolOne'
  <2> SUFFICES ASSUME NEW r \in Runs \ Controllers, NEW a \in Names, NEW b \in Names,
                      nodes'[a].pool = Sampler(r), nodes'[b].pool = Sampler(r)
               PROVE  a = b
    BY DEF PoolOne
  <2>1. Sampler(r) # None
    BY DEF Sampler, Targets, Roles, NodeAssumption
  <2>2. \A m \in Names : ns[m].pool = Sampler(r) => nodes[m].pool = Sampler(r)
    BY <1>1, <2>1
  <2>3. CASE ns[a].pool = Sampler(r) /\ ns[b].pool = Sampler(r)
    BY <2>2, <2>3 DEF NodeInv, PoolOne
  <2>4. CASE pool = Sampler(r)
    <3>1. Root(t.run) = r /\ t.role = "sampler"
      BY <2>4 DEF pool, Sampler
    <3>2. \A m \in Names \ {n} : ns[m].pool # Sampler(r)
      BY <1>3, <3>1 DEF Occupied, Sampler
    <3>3. \A m \in Names \ {n} : nodes'[m].pool # Sampler(r)
      BY <1>8, <3>2
    <3> QED BY <3>3
  <2> QED BY <1>8, <2>3, <2>4
<1>12. ShutdownTargeted'
  <2>1. UNCHANGED askedOf
    BY DEF AssignPool
  <2> QED BY <1>10, <2>1, RequestsKept
<1> QED
  <2>1. runs' \subseteq Runs /\ askedOf' \in [Names -> Procs \cup {None}] /\ Op /\ UNCHANGED <<proc, faults>>
    BY DEF AssignPool, NodeInv, TypeOK
  <2> QED BY <1>9, <1>10, <1>11, <1>12, <2>1, OperatorKept

\* A removed run takes every assignment to it along.
LEMMA RemoveRunKept ==
  ASSUME NodeAssumption, NodeInv, NEW r \in Runs, RemoveRun(r)
  PROVE  StepKept
<1> DEFINE Gone(t) == IF t # None /\ t.run \in Tree(r) THEN None ELSE t
           Cut(w) == [w EXCEPT !.pool = Gone(@), !.desired = Gone(@), !.current = Gone(@)]
<1>1. nodes' = [n \in Names |-> Cut(nodes[n])] /\ runs' = runs \ Tree(r)
  BY DEF RemoveRun
<1>2. ASSUME NEW t \in Maybe PROVE Gone(t) \in Maybe /\ Gone(t) \in {t, None} /\ (Gone(t) # t => t.run \in Tree(r))
  BY <1>2 DEF Maybe
<1> HIDE DEF Gone
<1>3. ASSUME NEW w \in Row
      PROVE  /\ Cut(w) \in Row /\ Cut(w).uuid = w.uuid /\ Cut(w).live = w.live /\ Cut(w).shutdown = w.shutdown
             /\ Cut(w).pool \in {w.pool, None} /\ Cut(w).current \in {w.current, None}
             /\ Cut(w).current # w.current => w.current.run \in Tree(r)
  <2> DEFINE a == Gone(w.pool)
             b == Gone(w.desired)
             c == Gone(w.current)
  <2>1. w.pool \in Maybe /\ w.desired \in Maybe /\ w.current \in Maybe
    BY DEF Row
  <2>2. /\ a \in Maybe /\ b \in Maybe /\ c \in Maybe /\ a \in {w.pool, None} /\ c \in {w.current, None}
        /\ c # w.current => w.current.run \in Tree(r)
    BY <1>2, <2>1
  <2>3. Cut(w) = [w EXCEPT !.pool = a, !.desired = b, !.current = c]
    BY DEF Row
  <2> HIDE DEF a, b, c, Cut
  <2>4. /\ [w EXCEPT !.pool = a, !.desired = b, !.current = c] \in Row
        /\ [w EXCEPT !.pool = a, !.desired = b, !.current = c].uuid = w.uuid
        /\ [w EXCEPT !.pool = a, !.desired = b, !.current = c].live = w.live
        /\ [w EXCEPT !.pool = a, !.desired = b, !.current = c].shutdown = w.shutdown
        /\ [w EXCEPT !.pool = a, !.desired = b, !.current = c].pool = a
        /\ [w EXCEPT !.pool = a, !.desired = b, !.current = c].current = c
    BY <2>2 DEF Row
  <2> QED BY <2>2, <2>3, <2>4
<1> HIDE DEF Cut
<1>4. \A n \in Names : nodes[n] \in Row
  BY DEF NodeInv, TypeOK
<1>5. nodes' \in [Names -> Row]
  BY <1>1, <1>3, <1>4
<1>6. \A n \in Names : /\ Passive(nodes[n], nodes'[n])
                       /\ nodes[n].live /\ nodes'[n].current # nodes[n].current
                            => nodes[n].current.run \notin runs'
                       /\ nodes'[n].uuid = nodes[n].uuid /\ nodes'[n].shutdown = nodes[n].shutdown
                       /\ nodes'[n].pool \in {nodes[n].pool, None}
  BY <1>1, <1>3, <1>4 DEF Passive
<1>7. PoolOne'
  BY <1>6, PoolsKept
<1>8. ShutdownTargeted'
  <2>1. UNCHANGED askedOf
    BY DEF RemoveRun
  <2> QED BY <1>6, <2>1, RequestsKept
<1> QED
  <2>1. runs' \subseteq Runs /\ askedOf' \in [Names -> Procs \cup {None}] /\ Op /\ UNCHANGED <<proc, faults>>
    BY DEF RemoveRun, NodeInv, TypeOK
  <2> QED BY <1>5, <1>6, <1>7, <1>8, <2>1, OperatorKept

\* A shutdown request of the rows S, which is made of the processes that hold them.
LEMMA RequestedKept ==
  ASSUME NodeAssumption, NodeInv, NEW S \in SUBSET Names, Op, UNCHANGED <<runs, proc, faults>>,
         nodes' \in [Names -> Row],
         \A n \in Names : /\ Reassigned([nodes[n] EXCEPT !.shutdown = nodes'[n].shutdown], nodes'[n])
                          /\ nodes'[n].pool \in {nodes[n].pool, None},
         \A n \in Names \ S : nodes'[n].shutdown = nodes[n].shutdown,
         askedOf' = [n \in Names |-> IF n \in S THEN nodes[n].uuid ELSE askedOf[n]]
  PROVE  StepKept
<1>1. \A n \in Names : nodes[n] \in Row /\ askedOf[n] \in Procs \cup {None}
  BY DEF NodeInv, TypeOK
<1>2. \A n \in Names : nodes[n].uuid \in Procs \cup {None}
  BY <1>1 DEF Row
<1>3. \A n \in Names : /\ nodes'[n].uuid = nodes[n].uuid /\ nodes'[n].live = nodes[n].live
                       /\ nodes'[n].current = nodes[n].current /\ nodes'[n] \in Row
  BY <1>1 DEF Reassigned, Row
<1>4. \A n \in Names : Passive(nodes[n], nodes'[n])
  BY <1>3 DEF Passive
<1>5. askedOf' \in [Names -> Procs \cup {None}]
  BY <1>1, <1>2
<1>6. PoolOne'
  BY PoolsKept
<1>7. ShutdownTargeted'
  <2> SUFFICES ASSUME NEW n \in Names, nodes'[n].shutdown PROVE nodes'[n].uuid = askedOf'[n]
    BY DEF ShutdownTargeted
  <2>1. CASE n \in S
    BY <1>3, <2>1
  <2>2. CASE n \notin S
    <3>1. nodes[n].shutdown
      BY <2>2
    <3> QED BY <1>3, <2>2, <3>1 DEF NodeInv, ShutdownTargeted
  <2> QED BY <2>1, <2>2
<1>8. runs' \subseteq Runs
  BY DEF NodeInv, TypeOK
<1> QED BY <1>3, <1>4, <1>5, <1>6, <1>7, <1>8, OperatorKept

LEMMA ShutDownRow ==
  ASSUME NEW w \in Row
  PROVE  /\ ShutDown(w) \in Row /\ ShutDown(w).pool = None
         /\ Reassigned([w EXCEPT !.shutdown = ShutDown(w).shutdown], ShutDown(w))
BY DEF Row, Maybe, ShutDown, NoDesired, Reassigned

LEMMA SameRow ==
  ASSUME NEW w \in Row
  PROVE  Reassigned([w EXCEPT !.shutdown = w.shutdown], w)
BY DEF Row, Reassigned

LEMMA RequestShutdownKept ==
  ASSUME NodeAssumption, NodeInv, NEW n \in Names, RequestShutdown(n)
  PROVE  StepKept
<1>1. \A m \in Names : nodes[m] \in Row
  BY DEF NodeInv, TypeOK
<1>2. \A m \in Names : nodes'[m] = IF m = n THEN ShutDown(nodes[m]) ELSE nodes[m]
  BY DEF RequestShutdown, NodeInv, TypeOK
<1>3. nodes' \in [Names -> Row]
  BY <1>1, ShutDownRow DEF RequestShutdown, NodeInv, TypeOK
<1>4. \A m \in Names : /\ Reassigned([nodes[m] EXCEPT !.shutdown = nodes'[m].shutdown], nodes'[m])
                       /\ nodes'[m].pool \in {nodes[m].pool, None}
  BY <1>1, <1>2, ShutDownRow, SameRow
<1>5. askedOf' = [m \in Names |-> IF m \in {n} THEN nodes[m].uuid ELSE askedOf[m]]
  BY DEF RequestShutdown, NodeInv, TypeOK
<1>6. \A m \in Names \ {n} : nodes'[m].shutdown = nodes[m].shutdown
  BY <1>2
<1>7. Op /\ UNCHANGED <<runs, proc, faults>>
  BY DEF RequestShutdown
<1> QED BY <1>3, <1>4, <1>5, <1>6, <1>7, RequestedKept

LEMMA RequestAllShutdownKept ==
  ASSUME NodeAssumption, NodeInv, RequestAllShutdown
  PROVE  StepKept
<1> DEFINE S == {n \in Names : nodes[n].live \/ nodes[n].resume}
<1>1. \A m \in Names : nodes[m] \in Row
  BY DEF NodeInv, TypeOK
<1>2. nodes' = [n \in Names |-> IF n \in S THEN ShutDown(nodes[n]) ELSE nodes[n]]
  BY DEF RequestAllShutdown
<1>3. askedOf' = [n \in Names |-> IF n \in S THEN nodes[n].uuid ELSE askedOf[n]]
  BY DEF RequestAllShutdown
<1>4. S \in SUBSET Names
  OBVIOUS
<1> HIDE DEF S
<1>5. nodes' \in [Names -> Row]
  BY <1>1, <1>2, ShutDownRow
<1>6. \A m \in Names : /\ Reassigned([nodes[m] EXCEPT !.shutdown = nodes'[m].shutdown], nodes'[m])
                       /\ nodes'[m].pool \in {nodes[m].pool, None}
  BY <1>1, <1>2, ShutDownRow, SameRow
<1>7. \A m \in Names \ S : nodes'[m].shutdown = nodes[m].shutdown
  BY <1>2
<1>8. Op /\ UNCHANGED <<runs, proc, faults>>
  BY DEF RequestAllShutdown
<1> QED BY <1>3, <1>4, <1>5, <1>6, <1>7, <1>8, RequestedKept

LEMMA SuspendWorkersKept ==
  ASSUME NodeAssumption, NodeInv, SuspendWorkers
  PROVE  StepKept
<1> DEFINE S == {n \in Names : nodes[n].live /\ ~nodes[n].shutdown}
           Marked(w) == [w EXCEPT !.resume = TRUE, !.shutdown = TRUE]
<1>1. \A m \in Names : nodes[m] \in Row
  BY DEF NodeInv, TypeOK
<1>2. nodes' = [n \in Names |-> IF n \in S THEN Marked(nodes[n]) ELSE nodes[n]]
  BY DEF SuspendWorkers
<1>3. askedOf' = [n \in Names |-> IF n \in S THEN nodes[n].uuid ELSE askedOf[n]]
  BY DEF SuspendWorkers
<1>4. S \in SUBSET Names
  OBVIOUS
<1>5. \A w \in Row : /\ Marked(w) \in Row /\ Marked(w).pool = w.pool
                     /\ Reassigned([w EXCEPT !.shutdown = Marked(w).shutdown], Marked(w))
  BY DEF Row, Reassigned
<1> HIDE DEF S, Marked
<1>6. nodes' \in [Names -> Row]
  BY <1>1, <1>2, <1>5
<1>7. \A m \in Names : /\ Reassigned([nodes[m] EXCEPT !.shutdown = nodes'[m].shutdown], nodes'[m])
                       /\ nodes'[m].pool \in {nodes[m].pool, None}
  BY <1>1, <1>2, <1>5, SameRow
<1>8. \A m \in Names \ S : nodes'[m].shutdown = nodes[m].shutdown
  BY <1>2
<1>9. Op /\ UNCHANGED <<runs, proc, faults>>
  BY DEF SuspendWorkers
<1> QED BY <1>3, <1>4, <1>6, <1>7, <1>8, <1>9, RequestedKept

\* A resumed worker keeps its assignments, and no request outlives the resumption.
LEMMA EnqueueResumedKept ==
  ASSUME NodeAssumption, NodeInv, EnqueueResumed
  PROVE  StepKept
<1> DEFINE S == {n \in Launched : nodes[n].resume /\ ~nodes[n].live}
           Resumed(w) == [w EXCEPT !.resume = FALSE, !.reserved = TRUE, !.shutdown = FALSE]
<1>1. \A m \in Names : nodes[m] \in Row
  BY DEF NodeInv, TypeOK
<1>2. nodes' = [n \in Names |-> IF n \in S THEN Resumed(nodes[n]) ELSE nodes[n]]
  BY DEF EnqueueResumed
<1>3. askedOf' = [n \in Names |-> IF n \in S THEN None ELSE askedOf[n]]
  BY DEF EnqueueResumed
<1>4. \A w \in Row : /\ Resumed(w) \in Row /\ Resumed(w).pool = w.pool /\ Resumed(w).desired = w.desired
                     /\ Resumed(w).uuid = w.uuid /\ Resumed(w).live = w.live /\ Resumed(w).current = w.current
                     /\ ~Resumed(w).shutdown
  BY DEF Row
<1> HIDE DEF S, Resumed
<1>5. nodes' \in [Names -> Row]
  BY <1>1, <1>2, <1>4
<1>6. \A m \in Names : /\ Passive(nodes[m], nodes'[m])
                       /\ nodes'[m].pool = nodes[m].pool /\ nodes'[m].desired = nodes[m].desired
                       /\ nodes'[m].current = nodes[m].current /\ nodes'[m].uuid = nodes[m].uuid
                       /\ nodes'[m].shutdown => m \notin S /\ nodes[m].shutdown
  BY <1>1, <1>2, <1>4 DEF Passive
<1>7. PoolOne'
  BY <1>6, PoolsKept
<1>8. ShutdownTargeted'
  BY <1>3, <1>6 DEF ShutdownTargeted, NodeInv
<1>9. UNCHANGED <<runs, proc, ops, faults>> /\ askedOf' \in [Names -> Procs \cup {None}]
  BY <1>3 DEF EnqueueResumed, NodeInv, TypeOK
<1>10. NodeInv'
  <2>1. runs' \subseteq Runs /\ ops' \in 0 .. MaxOps /\ faults' \in 0 .. MaxFaults /\ UNCHANGED proc
    BY <1>9 DEF NodeInv, TypeOK
  <2> QED BY <1>5, <1>6, <1>7, <1>8, <1>9, <2>1, PassiveSafe
<1>11. OnlyOwnerReleases /\ SuspendedKept
  BY <1>6 DEF OnlyOwnerReleases, SuspendedKept, Assigned
<1> QED BY <1>10, <1>11 DEF StepKept

\* A lapsed lease leaves the row as it is.
LEMMA LeaseLapsesKept ==
  ASSUME NodeAssumption, NodeInv, NEW n \in Names, LeaseLapses(n)
  PROVE  StepKept
<1>1. \A m \in Names : nodes[m] \in Row
  BY DEF NodeInv, TypeOK
<1>2. nodes' = [nodes EXCEPT ![n] = [nodes[n] EXCEPT !.live = FALSE]]
  BY <1>1 DEF LeaseLapses, NodeInv, TypeOK
<1>3. \A w \in Row : LET v == [w EXCEPT !.live = FALSE] IN
        /\ v \in Row /\ v.pool = w.pool /\ v.desired = w.desired /\ v.uuid = w.uuid
        /\ v.current = w.current /\ v.shutdown = w.shutdown /\ ~v.live
  BY DEF Row
<1>4. nodes' \in [Names -> Row]
  BY <1>1, <1>2, <1>3 DEF NodeInv, TypeOK
<1>5. \A m \in Names : /\ Passive(nodes[m], nodes'[m])
                       /\ nodes'[m].pool = nodes[m].pool /\ nodes'[m].desired = nodes[m].desired
                       /\ nodes'[m].current = nodes[m].current /\ nodes'[m].uuid = nodes[m].uuid
                       /\ nodes'[m].shutdown = nodes[m].shutdown
  <2> TAKE m \in Names
  <2>1. CASE m = n
    BY <1>1, <1>2, <1>3, <2>1 DEF Passive, NodeInv, TypeOK
  <2>2. CASE m # n
    BY <1>1, <1>2, <2>2 DEF Passive, NodeInv, TypeOK
  <2> QED BY <2>1, <2>2
<1>6. PoolOne'
  BY <1>5, PoolsKept
<1>7. ShutdownTargeted'
  <2>1. UNCHANGED askedOf
    BY DEF LeaseLapses
  <2> QED BY <1>5, <2>1, RequestsKept
<1>8. UNCHANGED <<runs, proc, askedOf, ops>> /\ faults' \in 0 .. MaxFaults
  BY DEF LeaseLapses, Fault, NodeInv, TypeOK, NodeAssumption
<1>9. NodeInv'
  <2>1. runs' \subseteq Runs /\ ops' \in 0 .. MaxOps /\ UNCHANGED proc /\ askedOf' \in [Names -> Procs \cup {None}]
    BY <1>8 DEF NodeInv, TypeOK
  <2> QED BY <1>4, <1>5, <1>6, <1>7, <1>8, <2>1, PassiveSafe
<1>10. OnlyOwnerReleases /\ SuspendedKept
  BY <1>5 DEF OnlyOwnerReleases, SuspendedKept, Assigned
<1> QED BY <1>9, <1>10 DEF StepKept

-----------------------------------------------------------------------------
(* Steps of a supervisor.                                                  *)

\* A process changes its own state, and rows passively: what must be shown is that the
\* role it lets go is no longer on the row of its name.
LEMMA ProcessKept ==
  ASSUME NodeAssumption, NodeInv, NEW p \in Procs, NEW s \in Proc, proc' = [proc EXCEPT ![p] = s],
         UNCHANGED runs, nodes' \in [Names -> Row], askedOf' \in [Names -> Procs \cup {None}],
         ops' \in 0 .. MaxOps, faults' \in 0 .. MaxFaults,
         \A n \in Names : Passive(nodes[n], nodes'[n]) /\ nodes'[n].pool \in {nodes[n].pool, None},
         LET w == nodes'[NameOf[p]] IN
           w.uuid = p /\ w.current # None => s.phase = "gone" \/ s.orphan \/ s.active = w.current,
         ShutdownTargeted'
  PROVE  NodeInv'
<1>1. TypeOK'
  <2>1. proc' \in [Procs -> Proc] /\ runs' \subseteq Runs
    BY DEF NodeInv, TypeOK
  <2> QED BY <2>1 DEF NodeInv, TypeOK, Passive
<1>2. RowsNamed'
  BY DEF NodeInv, RowsNamed, Passive
<1>3. CurrentOne'
  <2>1. ASSUME NEW r \in Runs, NEW n \in Names, nodes'[n].current = Sampler(r) PROVE nodes[n].current = Sampler(r)
    <3>1. Sampler(r) \in Targets /\ Sampler(r) # None
      BY DEF Sampler, Targets, Roles, NodeAssumption
    <3> QED BY <2>1, <3>1 DEF Passive
  <2> QED BY <2>1 DEF NodeInv, CurrentOne
<1>4. CurrentOwned'
  <2> SUFFICES ASSUME NEW n \in Names, nodes'[n].current # None
               PROVE  LET c == proc'[nodes'[n].uuid] IN
                        c.phase = "gone" \/ c.orphan \/ c.active = nodes'[n].current
    BY DEF CurrentOwned
  <2>1. nodes'[n].uuid = nodes[n].uuid /\ nodes[n].current = nodes'[n].current
    BY DEF Passive
  <2>2. nodes[n].uuid \in Procs /\ NameOf[nodes[n].uuid] = n
    BY <2>1 DEF NodeInv, RowsNamed, TypeOK, Row
  <2>3. CASE nodes[n].uuid = p
    BY <2>1, <2>2, <2>3 DEF NodeInv, TypeOK
  <2>4. CASE nodes[n].uuid # p
    <3>1. proc'[nodes[n].uuid] = proc[nodes[n].uuid]
      BY <2>2, <2>4 DEF NodeInv, TypeOK
    <3> QED BY <2>1, <3>1 DEF NodeInv, CurrentOwned
  <2> QED BY <2>3, <2>4
<1>5. PoolOne'
  BY PoolsKept
<1> QED BY <1>1, <1>2, <1>3, <1>4, <1>5 DEF NodeInv

\* A step of a process that touches no row.
LEMMA AloneKept ==
  ASSUME NodeAssumption, NodeInv, NEW p \in Procs, NEW s \in Proc, proc' = [proc EXCEPT ![p] = s],
         UNCHANGED <<runs, nodes, askedOf, ops>>, faults' \in 0 .. MaxFaults,
         s.phase = "gone" \/ (s.active = proc[p].active /\ s.orphan = proc[p].orphan /\ proc[p].phase # "gone")
  PROVE  StepKept
<1>1. \A n \in Names : nodes[n] \in Row /\ nodes'[n] = nodes[n]
  BY DEF NodeInv, TypeOK
<1>2. \A n \in Names : Passive(nodes[n], nodes'[n]) /\ nodes'[n].pool \in {nodes[n].pool, None}
  BY <1>1 DEF Passive
<1>3. LET w == nodes'[NameOf[p]] IN
        w.uuid = p /\ w.current # None => s.phase = "gone" \/ s.orphan \/ s.active = w.current
  <2>1. NameOf[p] \in Names
    BY DEF NodeAssumption
  <2>2. CurrentOwned
    BY DEF NodeInv
  <2> QED BY <1>1, <2>1, <2>2 DEF CurrentOwned
<1>4. ShutdownTargeted'
  BY DEF NodeInv, ShutdownTargeted
<1>5. /\ UNCHANGED runs /\ nodes' \in [Names -> Row] /\ askedOf' \in [Names -> Procs \cup {None}]
      /\ ops' \in 0 .. MaxOps
  BY DEF NodeInv, TypeOK
<1>6. NodeInv'
  BY <1>2, <1>3, <1>4, <1>5, ProcessKept
<1>7. OnlyOwnerReleases /\ SuspendedKept
  BY <1>1 DEF OnlyOwnerReleases, SuspendedKept, Assigned
<1> QED BY <1>6, <1>7 DEF StepKept

LEMMA FaultTyped ==
  ASSUME NodeAssumption, NodeInv
  PROVE  Fault \/ UNCHANGED faults => faults' \in 0 .. MaxFaults
BY DEF Fault, NodeInv, TypeOK, NodeAssumption

LEMMA StartProcessKept ==
  ASSUME NodeAssumption, NodeInv, NEW p \in Procs, StartProcess(p)
  PROVE  StepKept
<1> DEFINE s == [proc[p] EXCEPT !.phase = "starting"]
<1>1. proc[p] \in Proc /\ proc[p].phase = "off"
  BY DEF NodeInv, TypeOK, StartProcess
<1>2. s \in Proc /\ s.active = proc[p].active /\ s.orphan = proc[p].orphan
  BY <1>1 DEF Proc
<1>3. proc' = [proc EXCEPT ![p] = s] /\ UNCHANGED <<runs, nodes, askedOf, ops, faults>>
  BY DEF StartProcess, NodeInv, TypeOK
<1>4. faults' \in 0 .. MaxFaults
  BY <1>3, FaultTyped
<1> HIDE DEF s
<1> QED BY <1>1, <1>2, <1>3, <1>4, AloneKept

LEMMA LeaseFatalKept ==
  ASSUME NodeAssumption, NodeInv, NEW p \in Procs, LeaseFatal(p)
  PROVE  StepKept
<1> DEFINE s == [proc[p] EXCEPT !.phase = IF @ = "starting" THEN "gone" ELSE "leaving"]
<1>1. proc[p] \in Proc /\ proc[p].phase \in {"starting", "up"}
  BY DEF NodeInv, TypeOK, LeaseFatal
<1>2. s \in Proc /\ s.active = proc[p].active /\ s.orphan = proc[p].orphan
  BY <1>1 DEF Proc
<1>3. proc' = [proc EXCEPT ![p] = s] /\ UNCHANGED <<runs, nodes, askedOf, ops, faults>>
  BY DEF LeaseFatal, NodeInv, TypeOK
<1>4. faults' \in 0 .. MaxFaults
  BY <1>3, FaultTyped
<1> HIDE DEF s
<1> QED BY <1>1, <1>2, <1>3, <1>4, AloneKept

LEMMA SignalKept ==
  ASSUME NodeAssumption, NodeInv, NEW p \in Procs, Signal(p)
  PROVE  StepKept
<1> DEFINE s == [proc[p] EXCEPT !.phase = "leaving"]
<1>1. proc[p] \in Proc /\ proc[p].phase = "up"
  BY DEF NodeInv, TypeOK, Signal
<1>2. s \in Proc /\ s.active = proc[p].active /\ s.orphan = proc[p].orphan
  BY <1>1 DEF Proc
<1>3. proc' = [proc EXCEPT ![p] = s] /\ UNCHANGED <<runs, nodes, askedOf, ops>> /\ Fault
  BY DEF Signal, NodeInv, TypeOK
<1>4. faults' \in 0 .. MaxFaults
  BY <1>3, FaultTyped
<1> HIDE DEF s
<1> QED BY <1>1, <1>2, <1>3, <1>4, AloneKept

LEMMA NewProcTyped ==
  ASSUME NodeAssumption
  PROVE  NewProc \in Proc /\ [NewProc EXCEPT !.phase = "gone"] \in Proc /\ [NewProc EXCEPT !.phase = "gone"].phase = "gone"
<1>1. 0 \in 0 .. MaxStarts
  BY DEF NodeAssumption
<1>2. NewProc \in Proc
  BY <1>1 DEF NewProc, Proc, Maybe
<1>3. [NewProc EXCEPT !.phase = "gone"] \in Proc
  BY <1>2 DEF Proc
<1> QED BY <1>2, <1>3 DEF NewProc

LEMMA CrashKept ==
  ASSUME NodeAssumption, NodeInv, NEW p \in Procs, Crash(p)
  PROVE  StepKept
<1> DEFINE s == [NewProc EXCEPT !.phase = "gone"]
<1>1. s \in Proc /\ s.phase = "gone"
  BY NewProcTyped
<1>2. proc' = [proc EXCEPT ![p] = s] /\ UNCHANGED <<runs, nodes, askedOf, ops>> /\ Fault
  BY DEF Crash
<1>3. faults' \in 0 .. MaxFaults
  BY <1>2, FaultTyped
<1> HIDE DEF s
<1> QED BY <1>1, <1>2, <1>3, AloneKept

\* RetryState of a process with a new target, and of one that failed.
LEMMA RetargetedTyped ==
  ASSUME NodeAssumption, NEW s \in Proc, NEW t \in Maybe
  PROVE  /\ Retargeted(s, t) \in Proc /\ Retargeted(s, t).active = s.active
         /\ Retargeted(s, t).orphan = s.orphan /\ Retargeted(s, t).phase = s.phase
<1>1. 0 \in 0 .. MaxStarts
  BY DEF NodeAssumption
<1> DEFINE b == IF s.blocked = t THEN s.blocked ELSE None
<1>2. b \in Maybe
  BY DEF Proc, Maybe
<1>3. Retargeted(s, t) = s \/ Retargeted(s, t) = [s EXCEPT !.failTarget = t, !.failures = 0, !.blocked = b]
  BY DEF Retargeted, Proc
<1> HIDE DEF b
<1> QED BY <1>1, <1>2, <1>3 DEF Proc

LEMMA FailedTyped ==
  ASSUME NodeAssumption, NEW s \in Proc, NEW t \in Targets
  PROVE  /\ Failed(s, t) \in Proc /\ Failed(s, t).active = s.active
         /\ Failed(s, t).orphan = s.orphan /\ Failed(s, t).phase = s.phase
<1> DEFINE k == IF s.failTarget = t THEN s.failures + 1 ELSE 1
           c == IF k > MaxStarts THEN MaxStarts ELSE k
           b == IF c >= MaxStarts THEN t ELSE s.blocked
<1>1. c \in 0 .. MaxStarts
  <2>1. s.failures \in 0 .. MaxStarts /\ MaxStarts \in Nat \ {0}
    BY DEF Proc, NodeAssumption
  <2> QED BY <2>1
<1>2. b \in Maybe
  BY DEF Proc, Maybe
<1>3. Failed(s, t) = [s EXCEPT !.failTarget = t, !.failures = c, !.blocked = b]
  BY DEF Failed, Proc
<1> HIDE DEF b, c
<1>4. t \in Maybe
  BY DEF Maybe
<1> QED BY <1>1, <1>2, <1>3, <1>4 DEF Proc

LEMMA ReconcileKept ==
  ASSUME NodeAssumption, NodeInv, NEW p \in Procs, Reconcile(p)
  PROVE  StepKept
<1> DEFINE t == RowOf(p).desired
           s == Retargeted(proc[p], t)
           c == IF s.active # None THEN "stop" ELSE "build"
           u == [s EXCEPT !.want = t, !.step = c]
<1>1. proc[p] \in Proc /\ proc[p].phase = "up" /\ t \in Maybe
  BY DEF NodeInv, TypeOK, Row, RowOf, NodeAssumption, Reconcile
<1>2. proc' = [proc EXCEPT ![p] = u] /\ UNCHANGED <<runs, nodes, askedOf, ops, faults>>
  BY DEF Reconcile
<1> HIDE DEF t
<1>3. s \in Proc /\ s.active = proc[p].active /\ s.orphan = proc[p].orphan
  BY <1>1, RetargetedTyped
<1> HIDE DEF s
<1>4. u \in Proc /\ u.active = proc[p].active /\ u.orphan = proc[p].orphan
  BY <1>1, <1>3 DEF Proc
<1>5. faults' \in 0 .. MaxFaults
  BY <1>2, FaultTyped
<1> HIDE DEF u
<1> QED BY <1>1, <1>2, <1>4, <1>5, AloneKept

LEMMA ReconcileIdleKept ==
  ASSUME NodeAssumption, NodeInv, NEW p \in Procs, ReconcileIdle(p)
  PROVE  StepKept
<1> DEFINE t == RowOf(p).desired
           s == Retargeted(proc[p], t)
<1>1. proc[p] \in Proc /\ proc[p].phase = "up" /\ t \in Maybe
  BY DEF NodeInv, TypeOK, Row, RowOf, NodeAssumption, ReconcileIdle
<1>2. proc' = [proc EXCEPT ![p] = s] /\ UNCHANGED <<runs, nodes, askedOf, ops, faults>>
  BY DEF ReconcileIdle
<1> HIDE DEF t
<1>3. s \in Proc /\ s.active = proc[p].active /\ s.orphan = proc[p].orphan
  BY <1>1, RetargetedTyped
<1>5. faults' \in 0 .. MaxFaults
  BY <1>2, FaultTyped
<1> HIDE DEF s
<1> QED BY <1>1, <1>2, <1>3, <1>5, AloneKept

\* The two outcomes of a consumed shutdown request: the row loses it either way.
LEMMA ConsumedRow ==
  ASSUME NodeAssumption, NodeInv, NEW p \in Procs, nodes' = [nodes EXCEPT ![NameOf[p]].shutdown = FALSE]
  PROVE  /\ nodes' \in [Names -> Row]
         /\ \A n \in Names : /\ Passive(nodes[n], nodes'[n])
                             /\ nodes'[n].pool = nodes[n].pool /\ nodes'[n].desired = nodes[n].desired
                             /\ nodes'[n].current = nodes[n].current /\ nodes'[n].uuid = nodes[n].uuid
                             /\ nodes'[n].shutdown => nodes[n].shutdown /\ n # NameOf[p]
<1>1. NameOf[p] \in Names /\ nodes \in [Names -> Row]
  BY DEF NodeAssumption, NodeInv, TypeOK
<1>2. nodes' = [nodes EXCEPT ![NameOf[p]] = [nodes[NameOf[p]] EXCEPT !.shutdown = FALSE]]
  BY <1>1
<1>3. \A w \in Row : LET v == [w EXCEPT !.shutdown = FALSE] IN
        /\ v \in Row /\ v.pool = w.pool /\ v.desired = w.desired /\ v.uuid = w.uuid
        /\ v.current = w.current /\ v.live = w.live /\ ~v.shutdown
  BY DEF Row
<1>4. nodes' \in [Names -> Row]
  BY <1>1, <1>2, <1>3
<1>5. ASSUME NEW n \in Names
      PROVE  /\ Passive(nodes[n], nodes'[n])
             /\ nodes'[n].pool = nodes[n].pool /\ nodes'[n].desired = nodes[n].desired
             /\ nodes'[n].current = nodes[n].current /\ nodes'[n].uuid = nodes[n].uuid
             /\ nodes'[n].shutdown => nodes[n].shutdown /\ n # NameOf[p]
  <2>1. CASE n = NameOf[p]
    BY <1>1, <1>2, <1>3, <2>1 DEF Passive
  <2>2. CASE n # NameOf[p]
    BY <1>1, <1>2, <2>2 DEF Passive
  <2> QED BY <2>1, <2>2
<1> QED BY <1>4, <1>5

LEMMA ConsumeShutdownKept ==
  ASSUME NodeAssumption, NodeInv, NEW p \in Procs, ConsumeShutdown(p)
  PROVE  StepKept
<1> DEFINE s == [proc[p] EXCEPT !.phase = "leaving"]
<1>1. proc[p] \in Proc /\ proc[p].phase = "up"
  BY DEF NodeInv, TypeOK, ConsumeShutdown
<1>2. s \in Proc /\ s.active = proc[p].active /\ s.orphan = proc[p].orphan
  BY <1>1 DEF Proc
<1>3. /\ proc' = [proc EXCEPT ![p] = s] /\ UNCHANGED <<runs, askedOf, ops, faults>>
      /\ nodes' = [nodes EXCEPT ![NameOf[p]].shutdown = FALSE]
  BY DEF ConsumeShutdown, NodeInv, TypeOK
<1> HIDE DEF s
<1>4. /\ nodes' \in [Names -> Row]
      /\ \A n \in Names : /\ Passive(nodes[n], nodes'[n])
                          /\ nodes'[n].pool = nodes[n].pool /\ nodes'[n].desired = nodes[n].desired
                          /\ nodes'[n].current = nodes[n].current /\ nodes'[n].uuid = nodes[n].uuid
                          /\ nodes'[n].shutdown => nodes[n].shutdown /\ n # NameOf[p]
  BY <1>3, ConsumedRow
<1>5. LET w == nodes'[NameOf[p]] IN
        w.uuid = p /\ w.current # None => s.phase = "gone" \/ s.orphan \/ s.active = w.current
  <2>1. NameOf[p] \in Names /\ CurrentOwned
    BY DEF NodeAssumption, NodeInv
  <2> QED BY <1>1, <1>2, <1>4, <2>1 DEF CurrentOwned
<1>6. ShutdownTargeted'
  BY <1>3, <1>4, RequestsKept
<1>7. /\ UNCHANGED runs /\ askedOf' \in [Names -> Procs \cup {None}]
      /\ ops' \in 0 .. MaxOps /\ faults' \in 0 .. MaxFaults
  BY <1>3 DEF NodeInv, TypeOK
<1>8. NodeInv'
  BY <1>2, <1>3, <1>4, <1>5, <1>6, <1>7, ProcessKept
<1>9. OnlyOwnerReleases /\ SuspendedKept
  BY <1>4 DEF OnlyOwnerReleases, SuspendedKept, Assigned
<1> QED BY <1>8, <1>9 DEF StepKept

LEMMA ConsumeLostKept ==
  ASSUME NodeAssumption, NodeInv, NEW p \in Procs, ConsumeLost(p)
  PROVE  StepKept
<1>1. /\ UNCHANGED <<runs, proc, askedOf, ops>> /\ Fault
      /\ nodes' = [nodes EXCEPT ![NameOf[p]].shutdown = FALSE]
  BY DEF ConsumeLost
<1>2. /\ nodes' \in [Names -> Row]
      /\ \A n \in Names : /\ Passive(nodes[n], nodes'[n])
                          /\ nodes'[n].pool = nodes[n].pool /\ nodes'[n].desired = nodes[n].desired
                          /\ nodes'[n].current = nodes[n].current /\ nodes'[n].uuid = nodes[n].uuid
                          /\ nodes'[n].shutdown => nodes[n].shutdown /\ n # NameOf[p]
  BY <1>1, ConsumedRow
<1>3. PoolOne'
  BY <1>2, PoolsKept
<1>4. ShutdownTargeted'
  BY <1>1, <1>2 DEF NodeInv, TypeOK, ShutdownTargeted
<1>5. runs' \subseteq Runs /\ ops' \in 0 .. MaxOps /\ askedOf' \in [Names -> Procs \cup {None}]
  BY <1>1 DEF NodeInv, TypeOK
<1>6. faults' \in 0 .. MaxFaults /\ UNCHANGED proc
  BY <1>1, FaultTyped
<1>7. NodeInv'
  BY <1>2, <1>3, <1>4, <1>5, <1>6, PassiveSafe
<1>8. OnlyOwnerReleases /\ SuspendedKept
  BY <1>2 DEF OnlyOwnerReleases, SuspendedKept, Assigned
<1> QED BY <1>7, <1>8 DEF StepKept

\* A release clears the role of the row the process owns and nothing else.
LEMMA ReleasedRows ==
  ASSUME NodeAssumption, NodeInv, NEW p \in Procs
  PROVE  /\ Released(p) \in [Names -> Row]
         /\ \A n \in Names :
              LET w == nodes[n]
                  v == Released(p)[n] IN
              /\ v.pool = w.pool /\ v.desired = w.desired /\ v.uuid = w.uuid /\ v.live = w.live
              /\ v.shutdown = w.shutdown /\ v.resume = w.resume
              /\ IF n = NameOf[p] /\ LiveNode(p) THEN v.current = None ELSE v.current = w.current
<1>1. NameOf[p] \in Names /\ nodes \in [Names -> Row]
  BY DEF NodeAssumption, NodeInv, TypeOK
<1> DEFINE v == [nodes[NameOf[p]] EXCEPT !.current = None]
<1>2. Released(p) = IF LiveNode(p) THEN [nodes EXCEPT ![NameOf[p]] = v] ELSE nodes
  BY <1>1 DEF Released
<1>3. LET w == nodes[NameOf[p]] IN
        /\ v \in Row /\ v.pool = w.pool /\ v.desired = w.desired /\ v.uuid = w.uuid /\ v.live = w.live
        /\ v.shutdown = w.shutdown /\ v.resume = w.resume /\ v.current = None
  BY <1>1 DEF Row, Maybe
<1> HIDE DEF v
<1>4. Released(p) \in [Names -> Row]
  BY <1>1, <1>2, <1>3
<1> QED BY <1>1, <1>2, <1>3, <1>4

LEMMA StopKept ==
  ASSUME NodeAssumption, NodeInv, NEW p \in Procs, Stop(p)
  PROVE  StepKept
<1>1. PICK orphan \in BOOLEAN :
        /\ IF orphan THEN Fault /\ UNCHANGED nodes ELSE nodes' = Released(p) /\ UNCHANGED faults
        /\ proc' = [proc EXCEPT ![p].active = None, ![p].orphan = @ \/ orphan \/ Missed(p),
                                ![p].step = IF proc[p].want = None THEN "poll" ELSE "build"]
  BY DEF Stop
<1> DEFINE o == proc[p].orphan \/ orphan \/ Missed(p)
           c == IF proc[p].want = None THEN "poll" ELSE "build"
           s == [proc[p] EXCEPT !.active = None, !.orphan = o, !.step = c]
<1>2. proc[p] \in Proc /\ proc \in [Procs -> Proc] /\ NameOf[p] \in Names
  BY DEF NodeInv, TypeOK, NodeAssumption
<1>3. proc' = [proc EXCEPT ![p] = s]
  BY <1>1, <1>2
<1>4. s \in Proc /\ s.active = None /\ s.orphan = o
  <2>1. o \in BOOLEAN /\ c \in {"poll", "stop", "build"}
    BY <1>2 DEF Proc, Missed
  <2> HIDE DEF o, c
  <2> QED BY <1>2, <2>1 DEF Proc, Maybe
<1> HIDE DEF s
<1>5. /\ Released(p) \in [Names -> Row]
      /\ \A n \in Names :
           /\ Released(p)[n].pool = nodes[n].pool /\ Released(p)[n].desired = nodes[n].desired
           /\ Released(p)[n].uuid = nodes[n].uuid /\ Released(p)[n].live = nodes[n].live
           /\ Released(p)[n].shutdown = nodes[n].shutdown
           /\ IF n = NameOf[p] /\ LiveNode(p) THEN Released(p)[n].current = None
                                              ELSE Released(p)[n].current = nodes[n].current
  BY ReleasedRows
<1>6. nodes' = nodes \/ nodes' = Released(p)
  BY <1>1
<1>7. /\ nodes' \in [Names -> Row]
      /\ \A n \in Names :
           /\ nodes'[n].pool = nodes[n].pool /\ nodes'[n].desired = nodes[n].desired
           /\ nodes'[n].uuid = nodes[n].uuid /\ nodes'[n].live = nodes[n].live
           /\ nodes'[n].shutdown = nodes[n].shutdown
           /\ nodes'[n].current = nodes[n].current \/ (nodes'[n].current = None /\ n = NameOf[p] /\ LiveNode(p))
  BY <1>5, <1>6 DEF NodeInv, TypeOK
<1>8. \A n \in Names : Passive(nodes[n], nodes'[n]) /\ nodes'[n].pool \in {nodes[n].pool, None}
  BY <1>7 DEF Passive
<1>9. LET w == nodes'[NameOf[p]] IN
        w.uuid = p /\ w.current # None => s.phase = "gone" \/ s.orphan \/ s.active = w.current
  <2> SUFFICES ASSUME nodes'[NameOf[p]].uuid = p, nodes'[NameOf[p]].current # None PROVE o
    BY <1>4
  <2>1. CASE orphan
    BY <2>1
  <2>2. CASE ~orphan
    <3>1. nodes' = Released(p)
      BY <1>1, <2>2
    <3>2. Holds(p) /\ ~LiveNode(p) /\ RowOf(p).current # None
      BY <1>2, <1>5, <3>1 DEF Holds, RowOf
    <3> QED BY <3>2 DEF Missed, LiveNode
  <2> QED BY <2>1, <2>2
<1>10. UNCHANGED <<runs, askedOf, ops>> /\ faults' \in 0 .. MaxFaults
  <2>1. Fault \/ UNCHANGED faults
    BY <1>1
  <2> QED BY <2>1, FaultTyped DEF Stop
<1>11. ShutdownTargeted'
  BY <1>7, <1>10, RequestsKept
<1>12. NodeInv'
  <2>1. askedOf' \in [Names -> Procs \cup {None}] /\ ops' \in 0 .. MaxOps /\ UNCHANGED runs
    BY <1>10 DEF NodeInv, TypeOK
  <2> QED BY <1>3, <1>4, <1>7, <1>8, <1>9, <1>10, <1>11, <2>1, ProcessKept
<1>13. OnlyOwnerReleases
  <2> SUFFICES ASSUME NEW n \in Names, nodes[n].live, nodes[n].current # None, nodes'[n].current = None
               PROVE  proc'[nodes[n].uuid].active # nodes[n].current
    BY DEF OnlyOwnerReleases
  <2>1. nodes[n].uuid = p
    BY <1>7 DEF LiveNode, Holds, RowOf
  <2> QED BY <1>2, <1>3, <1>4, <2>1
<1>14. SuspendedKept
  BY <1>7 DEF SuspendedKept, Assigned
<1> QED BY <1>12, <1>13, <1>14 DEF StepKept

\* finish_current_assignment.
LEMMA RoleDoneKept ==
  ASSUME NodeAssumption, NodeInv, NEW p \in Procs, RoleDone(p)
  PROVE  StepKept
<1> DEFINE o == proc[p].orphan \/ Missed(p)
           s == [proc[p] EXCEPT !.active = None, !.failTarget = None, !.failures = 0, !.blocked = None,
                                !.orphan = o]
<1>1. proc[p] \in Proc /\ proc \in [Procs -> Proc] /\ NameOf[p] \in Names
  BY DEF NodeInv, TypeOK, NodeAssumption
<1>2. proc' = [proc EXCEPT ![p] = s] /\ nodes' = Released(p) /\ Fault /\ UNCHANGED <<runs, askedOf, ops>>
  BY <1>1 DEF RoleDone
<1>3. s \in Proc /\ s.active = None /\ s.orphan = o
  <2>1. o \in BOOLEAN /\ 0 \in 0 .. MaxStarts
    BY <1>1 DEF Proc, Missed, NodeAssumption
  <2> HIDE DEF o
  <2> QED BY <1>1, <2>1 DEF Proc, Maybe
<1> HIDE DEF s
<1>4. /\ nodes' \in [Names -> Row]
      /\ \A n \in Names :
           /\ nodes'[n].pool = nodes[n].pool /\ nodes'[n].desired = nodes[n].desired
           /\ nodes'[n].uuid = nodes[n].uuid /\ nodes'[n].live = nodes[n].live
           /\ nodes'[n].shutdown = nodes[n].shutdown
           /\ IF n = NameOf[p] /\ LiveNode(p) THEN nodes'[n].current = None
                                              ELSE nodes'[n].current = nodes[n].current
  BY <1>2, ReleasedRows
<1>5. \A n \in Names : Passive(nodes[n], nodes'[n]) /\ nodes'[n].pool \in {nodes[n].pool, None}
  BY <1>4 DEF Passive
<1>6. LET w == nodes'[NameOf[p]] IN
        w.uuid = p /\ w.current # None => s.phase = "gone" \/ s.orphan \/ s.active = w.current
  <2> SUFFICES ASSUME nodes'[NameOf[p]].uuid = p, nodes'[NameOf[p]].current # None PROVE Missed(p)
    BY <1>3
  <2> QED BY <1>1, <1>4 DEF Missed, LiveNode, Holds, RowOf
<1>7. faults' \in 0 .. MaxFaults
  BY <1>2, FaultTyped
<1>8. ShutdownTargeted'
  BY <1>2, <1>4, RequestsKept
<1>9. NodeInv'
  <2>1. askedOf' \in [Names -> Procs \cup {None}] /\ ops' \in 0 .. MaxOps /\ UNCHANGED runs
    BY <1>2 DEF NodeInv, TypeOK
  <2>2. proc' = [proc EXCEPT ![p] = s]
    BY <1>2
  <2> QED BY <1>3, <1>4, <1>5, <1>6, <1>7, <1>8, <2>1, <2>2, ProcessKept
<1>10. OnlyOwnerReleases
  <2> SUFFICES ASSUME NEW n \in Names, nodes[n].live, nodes[n].current # None, nodes'[n].current = None
               PROVE  proc'[nodes[n].uuid].active # nodes[n].current
    BY DEF OnlyOwnerReleases
  <2>1. nodes[n].uuid = p
    BY <1>4 DEF LiveNode, Holds, RowOf
  <2> QED BY <1>1, <1>2, <1>3, <2>1
<1>11. SuspendedKept
  BY <1>4 DEF SuspendedKept, Assigned
<1> QED BY <1>9, <1>10, <1>11 DEF StepKept

LEMMA ClearedForRunRows ==
  ASSUME NodeAssumption, NodeInv, NEW r \in Runs
  PROVE  /\ ClearedForRun(r) \in [Names -> Row]
         /\ \A n \in Names : Reassigned(nodes[n], ClearedForRun(r)[n])
                             /\ ClearedForRun(r)[n].pool \in {nodes[n].pool, None}
<1>1. \A n \in Names : nodes[n] \in Row
  BY DEF NodeInv, TypeOK
<1>2. \A n \in Names : Reassigned(nodes[n], nodes[n])
  BY <1>1 DEF Reassigned
<1>3. \A n \in Names : ClearedForRun(r)[n] = IF ForRun(nodes[n], r) THEN NoDesired(nodes[n]) ELSE nodes[n]
  BY DEF ClearedForRun
<1>4. \A n \in Names : Reassigned(nodes[n], ClearedForRun(r)[n])
                       /\ ClearedForRun(r)[n].pool \in {nodes[n].pool, None}
  BY <1>1, <1>2, <1>3, NoDesiredRow
<1> QED BY <1>4 DEF ClearedForRun, Reassigned

LEMMA BuildFailsKept ==
  ASSUME NodeAssumption, NodeInv, NEW p \in Procs, BuildFails(p)
  PROVE  StepKept
<1> DEFINE t == proc[p].want
           s == Failed(proc[p], t)
           u == [s EXCEPT !.step = "poll", !.want = None]
<1>1. proc[p] \in Proc /\ proc \in [Procs -> Proc] /\ NameOf[p] \in Names /\ t \in Targets
  BY DEF NodeInv, TypeOK, NodeAssumption, BuildFails, Proc, Maybe
<1>2. /\ proc' = [proc EXCEPT ![p] = u] /\ Fault /\ UNCHANGED <<runs, askedOf, ops>>
      /\ nodes' \in {nodes} \cup {ns \in {ClearedForRun(t.run)} : s.blocked = t}
      /\ proc[p].phase = "up"
  BY DEF BuildFails
<1>3. /\ s \in Proc /\ s.active = proc[p].active /\ s.orphan = proc[p].orphan
  BY <1>1, FailedTyped
<1> HIDE DEF s, t
<1>4. u \in Proc /\ u.active = proc[p].active /\ u.orphan = proc[p].orphan /\ u.blocked = s.blocked
  BY <1>3 DEF Proc, Maybe
<1> HIDE DEF u
<1>5. nodes' = nodes \/ (nodes' = ClearedForRun(t.run) /\ s.blocked = t)
  BY <1>2
<1>6. /\ ClearedForRun(t.run) \in [Names -> Row]
      /\ \A n \in Names : Reassigned(nodes[n], ClearedForRun(t.run)[n])
                          /\ ClearedForRun(t.run)[n].pool \in {nodes[n].pool, None}
  <2>1. t.run \in Runs
    BY <1>1 DEF Targets
  <2> QED BY <2>1, ClearedForRunRows
<1>7. /\ nodes' \in [Names -> Row]
      /\ \A n \in Names : /\ nodes'[n].pool \in {nodes[n].pool, None} /\ nodes'[n].current = nodes[n].current
                          /\ nodes'[n].uuid = nodes[n].uuid /\ nodes'[n].live = nodes[n].live
                          /\ nodes'[n].shutdown = nodes[n].shutdown
  BY <1>5, <1>6 DEF Reassigned, NodeInv, TypeOK
<1>8. \A n \in Names : Passive(nodes[n], nodes'[n]) /\ nodes'[n].pool \in {nodes[n].pool, None}
  BY <1>7 DEF Passive
<1>9. LET w == nodes'[NameOf[p]] IN
        w.uuid = p /\ w.current # None => u.phase = "gone" \/ u.orphan \/ u.active = w.current
  <2>1. CurrentOwned /\ proc[p].phase # "gone"
    BY <1>2 DEF NodeInv
  <2> QED BY <1>1, <1>4, <1>7, <2>1 DEF CurrentOwned
<1>10. faults' \in 0 .. MaxFaults
  BY <1>2, FaultTyped
<1>11. ShutdownTargeted'
  BY <1>2, <1>7, RequestsKept
<1>12. NodeInv'
  <2>1. askedOf' \in [Names -> Procs \cup {None}] /\ ops' \in 0 .. MaxOps /\ UNCHANGED runs
    BY <1>2 DEF NodeInv, TypeOK
  <2>2. proc' = [proc EXCEPT ![p] = u]
    BY <1>2
  <2> QED BY <1>4, <1>7, <1>8, <1>9, <1>10, <1>11, <2>1, <2>2, ProcessKept
<1>13. OnlyOwnerReleases
  BY <1>7 DEF OnlyOwnerReleases
<1>14. SuspendedKept
  <2>1. CASE nodes' = nodes
    BY <2>1 DEF SuspendedKept, Assigned
  <2>2. CASE s.blocked = t
    <3>1. proc'[p].blocked = t /\ t # None
      BY <1>1, <1>2, <1>4, <2>2 DEF NodeAssumption
    <3> QED BY <3>1 DEF SuspendedKept, GaveUp
  <2> QED BY <1>5, <2>1, <2>2
<1> QED BY <1>12, <1>13, <1>14 DEF StepKept

\* fail_current_assignment.
LEMMA RoleFailsKept ==
  ASSUME NodeAssumption, NodeInv, NEW p \in Procs, RoleFails(p)
  PROVE  StepKept
<1> DEFINE t == proc[p].active
           f == Failed(proc[p], t)
           o == f.orphan \/ Missed(p)
           s == [f EXCEPT !.active = None, !.orphan = o]
           giveUp == t.role = "sampler" \/ f.blocked = t
           rel == Released(p)
<1>1. proc[p] \in Proc /\ proc \in [Procs -> Proc] /\ NameOf[p] \in Names /\ t \in Targets
  BY DEF NodeInv, TypeOK, NodeAssumption, RoleFails, Proc, Maybe
<1>2. f \in Proc
  BY <1>1, FailedTyped
<1>3. /\ proc' = [proc EXCEPT ![p] = s] /\ Fault /\ UNCHANGED <<runs, askedOf, ops>>
      /\ nodes' = [n \in Names |-> IF giveUp /\ ForRun(nodes[n], t.run) THEN NoDesired(rel[n]) ELSE rel[n]]
  <2>1. proc' = [proc EXCEPT ![p] = [f EXCEPT !.active = None, !.orphan = @ \/ Missed(p)]]
    BY DEF RoleFails
  <2>2. [f EXCEPT !.active = None, !.orphan = @ \/ Missed(p)] = s
    BY <1>2 DEF Proc
  <2> QED BY <2>1, <2>2 DEF RoleFails
<1> HIDE DEF f, giveUp
<1>4. s \in Proc /\ s.active = None /\ s.orphan = o
  <2>1. o \in BOOLEAN
    BY <1>2 DEF Proc, Missed
  <2> HIDE DEF o
  <2> QED BY <1>2, <2>1 DEF Proc, Maybe
<1> HIDE DEF s
<1>5. /\ rel \in [Names -> Row]
      /\ \A n \in Names :
           /\ rel[n].pool = nodes[n].pool /\ rel[n].desired = nodes[n].desired
           /\ rel[n].uuid = nodes[n].uuid /\ rel[n].live = nodes[n].live
           /\ rel[n].shutdown = nodes[n].shutdown
           /\ IF n = NameOf[p] /\ LiveNode(p) THEN rel[n].current = None ELSE rel[n].current = nodes[n].current
  BY ReleasedRows
<1> HIDE DEF rel
<1>6. \A n \in Names : nodes'[n] = rel[n] \/ nodes'[n] = NoDesired(rel[n])
  BY <1>3
<1>7. \A n \in Names : Reassigned(rel[n], nodes'[n]) /\ nodes'[n].pool \in {rel[n].pool, None}
  <2>1. \A n \in Names : Reassigned(rel[n], rel[n])
    BY <1>5 DEF Reassigned
  <2> QED BY <1>5, <1>6, <2>1, NoDesiredRow
<1>8. /\ nodes' \in [Names -> Row]
      /\ \A n \in Names : /\ nodes'[n].pool \in {nodes[n].pool, None}
                          /\ nodes'[n].uuid = nodes[n].uuid /\ nodes'[n].live = nodes[n].live
                          /\ nodes'[n].shutdown = nodes[n].shutdown
                          /\ IF n = NameOf[p] /\ LiveNode(p) THEN nodes'[n].current = None
                                                             ELSE nodes'[n].current = nodes[n].current
  BY <1>3, <1>5, <1>7 DEF Reassigned
<1>9. \A n \in Names : Passive(nodes[n], nodes'[n]) /\ nodes'[n].pool \in {nodes[n].pool, None}
  BY <1>7, <1>8 DEF Passive, Reassigned
<1>10. LET w == nodes'[NameOf[p]] IN
        w.uuid = p /\ w.current # None => s.phase = "gone" \/ s.orphan \/ s.active = w.current
  <2> SUFFICES ASSUME nodes'[NameOf[p]].uuid = p, nodes'[NameOf[p]].current # None PROVE Missed(p)
    BY <1>4
  <2> QED BY <1>1, <1>8 DEF Missed, LiveNode, Holds, RowOf
<1>11. faults' \in 0 .. MaxFaults
  BY <1>3, FaultTyped
<1>12. ShutdownTargeted'
  BY <1>3, <1>8, RequestsKept
<1>13. NodeInv'
  <2>1. askedOf' \in [Names -> Procs \cup {None}] /\ ops' \in 0 .. MaxOps /\ UNCHANGED runs
    BY <1>3 DEF NodeInv, TypeOK
  <2>2. proc' = [proc EXCEPT ![p] = s]
    BY <1>3
  <2> QED BY <1>4, <1>8, <1>9, <1>10, <1>11, <1>12, <2>1, <2>2, ProcessKept
<1>14. t # None /\ proc'[p].active = None
  BY <1>1, <1>3, <1>4 DEF NodeAssumption
<1>15. OnlyOwnerReleases
  <2> SUFFICES ASSUME NEW n \in Names, nodes[n].live, nodes[n].current # None, nodes'[n].current = None
               PROVE  proc'[nodes[n].uuid].active # nodes[n].current
    BY DEF OnlyOwnerReleases
  <2>1. nodes[n].uuid = p
    BY <1>8 DEF LiveNode, Holds, RowOf
  <2> QED BY <1>14, <2>1
<1>16. SuspendedKept
  BY <1>14 DEF SuspendedKept, GaveUp
<1> QED BY <1>13, <1>15, <1>16 DEF StepKept

\* A process that leaves expires the lease of its own row only.
LEMMA LeaveKept ==
  ASSUME NodeAssumption, NodeInv, NEW p \in Procs, Leave(p)
  PROVE  StepKept
<1> DEFINE s == [NewProc EXCEPT !.phase = "gone"]
           m == NameOf[p]
<1>1. m \in Names /\ nodes \in [Names -> Row] /\ s \in Proc /\ s.phase = "gone"
  BY NewProcTyped DEF NodeInv, TypeOK, NodeAssumption
<1>2. proc' = [proc EXCEPT ![p] = s] /\ UNCHANGED <<runs, askedOf, ops, faults>>
  BY DEF Leave
<1>3. nodes' = IF Holds(p) THEN [nodes EXCEPT ![m] = Expired(nodes[m])] ELSE nodes
  BY <1>1 DEF Leave
<1> HIDE DEF s
<1>4. ASSUME NEW w \in Row
      PROVE  /\ Expired(w) \in Row /\ Expired(w).uuid = w.uuid /\ ~Expired(w).live /\ ~Expired(w).shutdown
             /\ Expired(w).current = None /\ Expired(w).pool \in {w.pool, None}
             /\ w.resume => Expired(w).pool = w.pool /\ Expired(w).desired = w.desired
  <2> DEFINE a == IF w.resume THEN w.pool ELSE None
             b == IF w.resume THEN w.desired ELSE None
  <2>1. a \in Maybe /\ b \in Maybe
    BY DEF Row, Maybe
  <2>2. Expired(w) = [w EXCEPT !.live = FALSE, !.shutdown = FALSE, !.current = None, !.pool = a, !.desired = b]
    BY DEF Expired, Row
  <2>3. a \in {w.pool, None} /\ (w.resume => a = w.pool /\ b = w.desired)
    OBVIOUS
  <2> HIDE DEF a, b
  <2> QED BY <2>1, <2>2, <2>3 DEF Row, Maybe
<1>5. /\ nodes' \in [Names -> Row]
      /\ \A n \in Names :
           \/ nodes'[n] = nodes[n]
           \/ /\ nodes'[n].uuid = nodes[n].uuid /\ ~nodes'[n].live /\ ~nodes'[n].shutdown
              /\ nodes'[n].current = None /\ nodes'[n].pool \in {nodes[n].pool, None}
              /\ nodes[n].resume => nodes'[n].pool = nodes[n].pool /\ nodes'[n].desired = nodes[n].desired
  <2>1. CASE Holds(p)
    BY <1>1, <1>3, <1>4, <2>1
  <2>2. CASE ~Holds(p)
    BY <1>1, <1>3, <2>2
  <2> QED BY <2>1, <2>2
<1>6. \A n \in Names : Passive(nodes[n], nodes'[n]) /\ nodes'[n].pool \in {nodes[n].pool, None}
  BY <1>5 DEF Passive
<1>7. ShutdownTargeted'
  BY <1>2, <1>5, RequestsKept
<1>8. NodeInv'
  <2>1. /\ UNCHANGED runs /\ askedOf' \in [Names -> Procs \cup {None}]
        /\ ops' \in 0 .. MaxOps /\ faults' \in 0 .. MaxFaults
    BY <1>2 DEF NodeInv, TypeOK
  <2>2. LET w == nodes'[NameOf[p]] IN
          w.uuid = p /\ w.current # None => s.phase = "gone" \/ s.orphan \/ s.active = w.current
    BY <1>1
  <2>3. s \in Proc
    BY <1>1
  <2> QED BY <1>2, <1>5, <1>6, <1>7, <2>1, <2>2, <2>3, ProcessKept
<1>9. OnlyOwnerReleases /\ SuspendedKept
  BY <1>5 DEF OnlyOwnerReleases, SuspendedKept, Assigned
<1> QED BY <1>8, <1>9 DEF StepKept

\* A start that is put off may have cleared lapsed rows.
LEMMA StartDeferredKept ==
  ASSUME NodeAssumption, NodeInv, NEW p \in Procs, StartDeferred(p)
  PROVE  StepKept
<1> DEFINE s == [proc[p] EXCEPT !.step = "poll", !.want = None]
<1>1. proc[p] \in Proc /\ proc[p].phase = "up" /\ NameOf[p] \in Names
  BY DEF NodeInv, TypeOK, NodeAssumption, StartDeferred
<1>2. s \in Proc /\ s.active = proc[p].active /\ s.orphan = proc[p].orphan
  BY <1>1 DEF Proc, Maybe
<1>3. /\ proc' = [proc EXCEPT ![p] = s] /\ UNCHANGED <<runs, askedOf, ops>>
      /\ nodes' \in {nodes, ClearExpired(nodes)} /\ (Fault \/ UNCHANGED faults)
  BY DEF StartDeferred, NodeInv, TypeOK
<1> HIDE DEF s
<1>4. /\ nodes' \in [Names -> Row]
      /\ \A n \in Names : /\ nodes'[n].uuid = nodes[n].uuid /\ nodes'[n].live = nodes[n].live
                          /\ nodes'[n].shutdown = nodes[n].shutdown
                          /\ nodes'[n].pool \in {nodes[n].pool, None}
                          /\ nodes'[n].current \in {nodes[n].current, None}
                          /\ nodes[n].live => nodes'[n] = nodes[n]
                          /\ nodes[n].resume => nodes'[n].pool = nodes[n].pool /\ nodes'[n].desired = nodes[n].desired
  <2>1. CASE nodes' = nodes
    BY <2>1 DEF NodeInv, TypeOK
  <2>2. CASE nodes' = ClearExpired(nodes)
    BY <2>2, ClearExpiredRows DEF NodeInv, TypeOK
  <2> QED BY <1>3, <2>1, <2>2
<1>5. \A n \in Names : Passive(nodes[n], nodes'[n]) /\ nodes'[n].pool \in {nodes[n].pool, None}
  BY <1>4 DEF Passive
<1>6. LET w == nodes'[NameOf[p]] IN
        w.uuid = p /\ w.current # None => s.phase = "gone" \/ s.orphan \/ s.active = w.current
  <2>1. CurrentOwned
    BY DEF NodeInv
  <2> QED BY <1>1, <1>2, <1>4, <2>1 DEF CurrentOwned
<1>7. ShutdownTargeted'
  BY <1>3, <1>4, RequestsKept
<1>8. NodeInv'
  <2>1. /\ UNCHANGED runs /\ askedOf' \in [Names -> Procs \cup {None}] /\ ops' \in 0 .. MaxOps
        /\ faults' \in 0 .. MaxFaults
    BY <1>3, FaultTyped DEF NodeInv, TypeOK
  <2>2. proc' = [proc EXCEPT ![p] = s]
    BY <1>3
  <2> QED BY <1>2, <1>4, <1>5, <1>6, <1>7, <2>1, <2>2, ProcessKept
<1>9. OnlyOwnerReleases /\ SuspendedKept
  BY <1>4 DEF OnlyOwnerReleases, SuspendedKept, Assigned
<1> QED BY <1>8, <1>9 DEF StepKept

\* A renewal changes nothing but the lease; a registration takes a lapsed row over without
\* the role and the requests of the process that had it.
LEMMA AnnounceKept ==
  ASSUME NodeAssumption, NodeInv, NEW p \in Procs, Announce(p)
  PROVE  StepKept
<1> DEFINE m == NameOf[p]
           s == [proc[p] EXCEPT !.phase = IF @ = "starting" THEN "up" ELSE @]
           v == Announced(nodes[m], p)
<1>1. m \in Names /\ nodes \in [Names -> Row] /\ proc \in [Procs -> Proc] /\ nodes[m] \in Row
  BY DEF NodeInv, TypeOK, NodeAssumption
<1>2. /\ nodes' = [nodes EXCEPT ![m] = v] /\ proc' = [proc EXCEPT ![p] = s]
      /\ UNCHANGED <<runs, askedOf, ops, faults>> /\ (nodes[m].uuid = p \/ ~nodes[m].live)
      /\ proc[p].phase \in {"starting", "up", "leaving"}
  BY <1>1 DEF Announce, Holds, RowOf
<1>3. s \in Proc /\ s.active = proc[p].active /\ s.orphan = proc[p].orphan /\ proc[p].phase # "gone"
  BY <1>1, <1>2 DEF Proc
<1> HIDE DEF s
<1>4. ASSUME NEW w \in Row
      PROVE  /\ TakenOver(w, p) \in Row /\ TakenOver(w, p).uuid = p /\ ~TakenOver(w, p).shutdown
             /\ TakenOver(w, p).current = None /\ TakenOver(w, p).pool \in {w.pool, None}
             /\ w.resume => TakenOver(w, p).pool = w.pool /\ TakenOver(w, p).desired = w.desired
  <2> DEFINE a == IF Kept(w) THEN w.pool ELSE None
             b == IF Kept(w) THEN w.desired ELSE None
  <2>1. a \in Maybe /\ b \in Maybe /\ a \in {w.pool, None}
    BY DEF Row, Maybe
  <2>2. w.resume => a = w.pool /\ b = w.desired
    BY DEF Kept
  <2>3. TakenOver(w, p) = [w EXCEPT !.reg = TRUE, !.uuid = p, !.live = TRUE, !.current = None,
                             !.shutdown = FALSE, !.pool = a, !.desired = b, !.reserved = FALSE]
    BY DEF TakenOver, Row
  <2> HIDE DEF a, b
  <2> QED BY <2>1, <2>2, <2>3 DEF Row, Maybe
<1>5. \/ /\ nodes[m].uuid = p /\ v \in Row /\ v.uuid = p /\ v.current = nodes[m].current
         /\ v.shutdown = nodes[m].shutdown /\ v.pool = nodes[m].pool /\ v.desired = nodes[m].desired
      \/ /\ nodes[m].uuid # p /\ v \in Row /\ v.uuid = p /\ ~v.shutdown /\ v.current = None
         /\ v.pool \in {nodes[m].pool, None}
         /\ nodes[m].resume => v.pool = nodes[m].pool /\ v.desired = nodes[m].desired
  <2>1. CASE nodes[m].uuid = p
    <3>1. v = [nodes[m] EXCEPT !.live = TRUE]
      BY <2>1 DEF Announced
    <3> HIDE DEF v
    <3> QED BY <1>1, <2>1, <3>1 DEF Row
  <2>2. CASE nodes[m].uuid # p
    <3>1. v = TakenOver(nodes[m], p)
      BY <2>2 DEF Announced
    <3> HIDE DEF v
    <3> QED BY <1>1, <1>4, <2>2, <3>1
  <2> QED BY <2>1, <2>2
<1> HIDE DEF v
<1>6. nodes' \in [Names -> Row] /\ nodes'[m] = v /\ \A n \in Names \ {m} : nodes'[n] = nodes[n]
  BY <1>1, <1>2, <1>5
<1>7. TypeOK'
  <2>1. proc' \in [Procs -> Proc]
    BY <1>1, <1>2, <1>3
  <2>2. \A n \in Names : nodes'[n].live => nodes'[n].uuid # None /\ NameOf[nodes'[n].uuid] = n
    <3>1. p # None
      BY DEF NodeAssumption
    <3> QED BY <1>5, <1>6, <3>1 DEF NodeInv, TypeOK
  <2> QED BY <1>2, <1>6, <2>1, <2>2 DEF NodeInv, TypeOK
<1>8. RowsNamed'
  <2>1. p # None
    BY DEF NodeAssumption
  <2> QED BY <1>5, <1>6, <2>1 DEF NodeInv, RowsNamed
<1>9. PoolOne'
  <2>1. \A n \in Names : nodes'[n].pool \in {nodes[n].pool, None}
    BY <1>5, <1>6
  <2> QED BY <2>1, PoolsKept
<1>10. \A n \in Names : nodes'[n].current = nodes[n].current \/ nodes'[n].current = None
  BY <1>5, <1>6
<1>11. CurrentOne'
  <2>1. \A r \in Runs : Sampler(r) # None
    BY DEF Sampler, Targets, Roles, NodeAssumption
  <2> QED BY <1>10, <2>1 DEF NodeInv, CurrentOne
<1>12. CurrentOwned'
  <2> SUFFICES ASSUME NEW n \in Names, nodes'[n].current # None
               PROVE  LET c == proc'[nodes'[n].uuid] IN
                        c.phase = "gone" \/ c.orphan \/ c.active = nodes'[n].current
    BY DEF CurrentOwned
  <2>1. nodes'[n].uuid = nodes[n].uuid /\ nodes[n].current = nodes'[n].current
    BY <1>5, <1>6
  <2>2. nodes[n].uuid \in Procs /\ NameOf[nodes[n].uuid] = n
    BY <1>1, <2>1 DEF NodeInv, RowsNamed, Row
  <2>3. LET c == proc[nodes[n].uuid] IN c.phase = "gone" \/ c.orphan \/ c.active = nodes[n].current
    BY <2>1 DEF NodeInv, CurrentOwned
  <2>4. CASE nodes[n].uuid = p
    BY <1>1, <1>2, <1>3, <2>1, <2>3, <2>4
  <2>5. CASE nodes[n].uuid # p
    <3>1. proc'[nodes[n].uuid] = proc[nodes[n].uuid]
      BY <1>1, <1>2, <2>2, <2>5
    <3> QED BY <2>1, <2>3, <3>1
  <2> QED BY <2>4, <2>5
<1>13. ShutdownTargeted'
  <2>1. UNCHANGED askedOf
    BY <1>2
  <2> QED BY <1>5, <1>6, <2>1 DEF NodeInv, ShutdownTargeted
<1>14. OnlyOwnerReleases
  BY <1>2, <1>5, <1>6 DEF OnlyOwnerReleases
<1>15. SuspendedKept
  BY <1>5, <1>6 DEF SuspendedKept, Assigned
<1> QED BY <1>7, <1>8, <1>9, <1>11, <1>12, <1>13, <1>14, <1>15 DEF StepKept, NodeInv

\* A role starts under a live lease, in a slot no other row holds.
LEMMA StartKept ==
  ASSUME NodeAssumption, NodeInv, NEW p \in Procs, Start(p)
  PROVE  StepKept
<1> DEFINE ns == ClearExpired(nodes)
           t  == proc[p].want
           m  == NameOf[p]
           s  == [proc[p] EXCEPT !.active = t, !.step = "poll", !.want = None,
                    !.failTarget = None, !.failures = 0, !.blocked = None, !.orphan = FALSE]
           v  == [ns[m] EXCEPT !.current = t]
<1>1. /\ m \in Names /\ nodes \in [Names -> Row] /\ proc \in [Procs -> Proc] /\ proc[p] \in Proc
      /\ t \in Targets
  BY DEF NodeInv, TypeOK, NodeAssumption, Start, Proc, Maybe
<1>2. /\ ns \in [Names -> Row]
      /\ \A n \in Names : /\ ns[n].uuid = nodes[n].uuid /\ ns[n].live = nodes[n].live
                          /\ ns[n].shutdown = nodes[n].shutdown
                          /\ ns[n].pool \in {nodes[n].pool, None} /\ ns[n].current \in {nodes[n].current, None}
                          /\ nodes[n].live => ns[n] = nodes[n]
                          /\ nodes[n].resume => ns[n].pool = nodes[n].pool /\ ns[n].desired = nodes[n].desired
  BY <1>1, ClearExpiredRows
<1>3. /\ nodes' = [ns EXCEPT ![m] = v] /\ proc' = [proc EXCEPT ![p] = s]
      /\ UNCHANGED <<runs, askedOf, ops, faults>> /\ LiveNode(p)
      /\ t.role = "sampler" => \A n \in Names \ {m} : ns[n].current # t
  BY <1>1, <1>2 DEF Start, SlotFree
<1> HIDE DEF ns, t
<1>4. v \in Row /\ v.uuid = ns[m].uuid /\ v.live = ns[m].live /\ v.shutdown = ns[m].shutdown
      /\ v.pool = ns[m].pool /\ v.desired = ns[m].desired /\ v.current = t
  BY <1>1, <1>2 DEF Row, Maybe
<1>5. s \in Proc /\ s.active = t
  <2>1. 0 \in 0 .. MaxStarts
    BY DEF NodeAssumption
  <2> QED BY <1>1, <2>1 DEF Proc, Maybe
<1> HIDE DEF s, v
<1>6. nodes' \in [Names -> Row] /\ nodes'[m] = v /\ \A n \in Names \ {m} : nodes'[n] = ns[n]
  BY <1>1, <1>2, <1>3, <1>4
<1>7. nodes[m].uuid = p /\ nodes[m].live /\ t # None /\ p # None
  BY <1>1, <1>3 DEF LiveNode, Holds, RowOf, NodeAssumption
<1>8. \A n \in Names : /\ nodes'[n].uuid = nodes[n].uuid /\ nodes'[n].live = nodes[n].live
                       /\ nodes'[n].shutdown = nodes[n].shutdown /\ nodes'[n].pool \in {nodes[n].pool, None}
                       /\ nodes[n].resume => nodes'[n].pool = nodes[n].pool /\ nodes'[n].desired = nodes[n].desired
                       /\ n # m => nodes'[n].current \in {nodes[n].current, None}
                       /\ nodes[n].live /\ n # m => nodes'[n].current = nodes[n].current
  BY <1>2, <1>4, <1>6
<1>9. TypeOK'
  <2>1. proc' \in [Procs -> Proc]
    BY <1>1, <1>3, <1>5
  <2> QED BY <1>3, <1>6, <1>8, <2>1 DEF NodeInv, TypeOK
<1>10. RowsNamed'
  BY <1>7, <1>8 DEF NodeInv, RowsNamed
<1>11. PoolOne'
  BY <1>8, PoolsKept
<1>12. CurrentOne'
  <2> SUFFICES ASSUME NEW r \in Runs, NEW a \in Names, NEW b \in Names,
                      nodes'[a].current = Sampler(r), nodes'[b].current = Sampler(r)
               PROVE  a = b
    BY DEF CurrentOne
  <2>1. Sampler(r) # None
    BY DEF Sampler, Targets, Roles, NodeAssumption
  <2>2. CASE a # m /\ b # m
    BY <1>8, <2>1, <2>2 DEF NodeInv, CurrentOne
  <2>3. CASE t = Sampler(r)
    <3>1. \A n \in Names \ {m} : nodes'[n].current # Sampler(r)
      BY <1>3, <1>6, <2>3 DEF Sampler
    <3> QED BY <3>1
  <2>4. CASE t # Sampler(r)
    BY <1>4, <1>6, <2>2, <2>4
  <2> QED BY <2>3, <2>4
<1>13. CurrentOwned'
  <2> SUFFICES ASSUME NEW n \in Names, nodes'[n].current # None
               PROVE  LET c == proc'[nodes'[n].uuid] IN
                        c.phase = "gone" \/ c.orphan \/ c.active = nodes'[n].current
    BY DEF CurrentOwned
  <2>1. CASE n = m
    BY <1>1, <1>3, <1>4, <1>5, <1>6, <1>7, <1>8, <2>1
  <2>2. CASE n # m
    <3>1. nodes[n].current = nodes'[n].current
      BY <1>8, <2>2
    <3>2. nodes[n].uuid \in Procs /\ NameOf[nodes[n].uuid] = n
      BY <1>1, <3>1 DEF NodeInv, RowsNamed, Row
    <3>3. proc'[nodes[n].uuid] = proc[nodes[n].uuid]
      BY <1>1, <1>3, <2>2, <3>2
    <3> QED BY <1>8, <3>1, <3>3 DEF NodeInv, CurrentOwned
  <2> QED BY <2>1, <2>2
<1>14. ShutdownTargeted'
  BY <1>3, <1>8, RequestsKept
<1>15. OnlyOwnerReleases
  BY <1>4, <1>6, <1>7, <1>8 DEF OnlyOwnerReleases
<1>16. SuspendedKept
  BY <1>8 DEF SuspendedKept, Assigned
<1> QED BY <1>9, <1>10, <1>11, <1>12, <1>13, <1>14, <1>15, <1>16 DEF StepKept, NodeInv

-----------------------------------------------------------------------------
(* The invariant and the theorems.                                         *)

LEMMA NodeInvInit ==
  ASSUME NodeAssumption, Init
  PROVE  NodeInv
<1>1. NoRow \in Row /\ NewProc \in Proc
  BY NewProcTyped DEF NoRow, Row, Maybe
<1>2. \A n \in Names : nodes[n] = NoRow
  BY DEF Init
<1>3. TypeOK
  BY <1>1 DEF Init, TypeOK, NoRow, NodeAssumption
<1>4. \A r \in Runs : Sampler(r) # None
  BY DEF Sampler, Targets, Roles, NodeAssumption
<1>5. RowsNamed /\ PoolOne /\ CurrentOne /\ CurrentOwned /\ ShutdownTargeted
  BY <1>2, <1>4 DEF NoRow, RowsNamed, PoolOne, CurrentOne, CurrentOwned, ShutdownTargeted
<1> QED BY <1>3, <1>5 DEF NodeInv

LEMMA StepsKept ==
  ASSUME NodeAssumption, NodeInv, Next
  PROVE  StepKept
<1>1. ASSUME NEW n \in Names, NEW t \in Targets, AssignPool(n, t) \/ UpdateDesired(n, t) PROVE StepKept
  <2>1. t \in Maybe
    BY DEF Maybe
  <2> QED BY <1>1, <2>1, AssignPoolKept, UpdateDesiredKept
<1>2. ASSUME NEW n \in Names, \/ UpdateDesired(n, None) \/ ClearDesired({n}) \/ RequestShutdown(n)
                              \/ LeaseLapses(n)
      PROVE  StepKept
  <2>1. None \in Maybe /\ {n} \in SUBSET Names
    BY DEF Maybe
  <2> QED BY <1>2, <2>1, UpdateDesiredKept, ClearDesiredKept, RequestShutdownKept, LeaseLapsesKept
<1>3. CASE ClearDesired(Names)
  <2>1. Names \in SUBSET Names
    OBVIOUS
  <2> QED BY <1>3, <2>1, ClearDesiredKept
<1>4. CASE RequestAllShutdown \/ SuspendWorkers \/ EnqueueResumed
  BY <1>4, RequestAllShutdownKept, SuspendWorkersKept, EnqueueResumedKept
<1>5. ASSUME NEW r \in Runs, PausePool(r) \/ ResumePool(r) \/ RemoveRun(r) PROVE StepKept
  BY <1>5, PausePoolKept, ResumePoolKept, RemoveRunKept
<1>6. ASSUME NEW r \in Runs, NEW a \in BOOLEAN, FinishRun(r, a) PROVE StepKept
  BY <1>6, FinishRunKept
<1>7. ASSUME NEW p \in Procs,
             \/ StartProcess(p) \/ Announce(p) \/ LeaseFatal(p) \/ ConsumeShutdown(p) \/ ConsumeLost(p)
             \/ Reconcile(p) \/ ReconcileIdle(p) \/ Stop(p)
      PROVE  StepKept
  BY <1>7, StartProcessKept, AnnounceKept, LeaseFatalKept, ConsumeShutdownKept, ConsumeLostKept,
     ReconcileKept, ReconcileIdleKept, StopKept
<1>8. ASSUME NEW p \in Procs,
             \/ Start(p) \/ StartDeferred(p) \/ BuildFails(p) \/ RoleDone(p) \/ RoleFails(p)
             \/ Signal(p) \/ Leave(p) \/ Crash(p)
      PROVE  StepKept
  BY <1>8, StartKept, StartDeferredKept, BuildFailsKept, RoleDoneKept, RoleFailsKept, SignalKept,
     LeaveKept, CrashKept
<1> QED BY <1>1, <1>2, <1>3, <1>4, <1>5, <1>6, <1>7, <1>8 DEF Next

LEMMA StutterKept ==
  ASSUME NodeAssumption, NodeInv, UNCHANGED vars
  PROVE  StepKept
<1>1. NodeInv'
  BY DEF vars, NodeInv, TypeOK, RowsNamed, PoolOne, CurrentOne, CurrentOwned, ShutdownTargeted
<1>2. OnlyOwnerReleases /\ SuspendedKept
  BY DEF vars, OnlyOwnerReleases, SuspendedKept, Assigned
<1> QED BY <1>1, <1>2 DEF StepKept

LEMMA InvariantHolds ==
  ASSUME NodeAssumption
  PROVE  Spec => []NodeInv
<1>1. Init => NodeInv
  BY NodeInvInit
<1>2. NodeInv /\ [Next]_vars => NodeInv'
  BY StepsKept, StutterKept DEF StepKept
<1> QED BY <1>1, <1>2, PTL DEF Spec

\* A set without two members has at most one.
LEMMA AtMostOne ==
  ASSUME NEW S, \A a, b \in S : a = b
  PROVE  Cardinality(S) <= 1
<1>1. CASE S = {}
  BY <1>1, FS_EmptySet
<1>2. CASE S # {}
  <2>1. PICK a \in S : S = {a}
    BY <1>2
  <2> QED BY <2>1, FS_Singleton
<1> QED BY <1>1, <1>2

\* Every row, process and counter stays in its type, and a row under lease has a process of
\* its name (announce_node, the control plane's statements).
THEOREM NodesTyped ==
  ASSUME NodeAssumption
  PROVE  Spec => []TypeOK
<1>1. NodeInv => TypeOK
  BY DEF NodeInv
<1> QED BY <1>1, InvariantHolds, PTL

\* However operators, pauses, resumptions and replacements interleave, the pool of a
\* standalone run has at most one sampler (assign_worker_pool).
THEOREM OneSamplerPerPool ==
  ASSUME NodeAssumption
  PROVE  Spec => []PoolSamplerUnique
<1>1. NodeInv => PoolSamplerUnique
  <2> SUFFICES ASSUME NodeInv, NEW r \in Runs \ Controllers
               PROVE  Cardinality({n \in Names : nodes[n].pool = [run |-> r, role |-> "sampler"]}) <= 1
    BY DEF PoolSamplerUnique
  <2> DEFINE S == {n \in Names : nodes[n].pool = [run |-> r, role |-> "sampler"]}
  <2>1. \A a, b \in S : a = b
    BY DEF NodeInv, PoolOne, Sampler
  <2> HIDE DEF S
  <2>2. Cardinality(S) <= 1
    BY <2>1, AtMostOne
  <2> QED BY <2>2 DEF S
<1> QED BY <1>1, InvariantHolds, PTL

\* At most one row records the sampler of a run, through crashes, lapsed leases and late
\* releases (set_current_assignment, clear_current_assignment).
THEOREM OneSamplerRunning ==
  ASSUME NodeAssumption
  PROVE  Spec => []CurrentSamplerUnique
<1>1. NodeInv => CurrentSamplerUnique
  <2> SUFFICES ASSUME NodeInv, NEW r \in Runs
               PROVE  Cardinality({n \in Names : nodes[n].current = [run |-> r, role |-> "sampler"]}) <= 1
    BY DEF CurrentSamplerUnique
  <2> DEFINE S == {n \in Names : nodes[n].current = [run |-> r, role |-> "sampler"]}
  <2>1. \A a, b \in S : a = b
    BY DEF NodeInv, CurrentOne, Sampler
  <2> HIDE DEF S
  <2>2. Cardinality(S) <= 1
    BY <2>1, AtMostOne
  <2> QED BY <2>2 DEF S
<1> QED BY <1>1, InvariantHolds, PTL

\* The role a row records is the role of its own process, unless that process died or a
\* release missed the row (announce_node, stop_current, expire_node_lease).
THEOREM RolesHaveOwners ==
  ASSUME NodeAssumption
  PROVE  Spec => []CurrentOwned
<1>1. NodeInv => CurrentOwned
  BY DEF NodeInv
<1> QED BY <1>1, InvariantHolds, PTL

\* No shutdown request reaches a replacement of the process it was made of
\* (request_node_shutdown, announce_node, consume_node_shutdown_request).
THEOREM RequestsReachTheirProcess ==
  ASSUME NodeAssumption
  PROVE  Spec => []ShutdownTargeted
<1>1. NodeInv => ShutdownTargeted
  BY DEF NodeInv
<1> QED BY <1>1, InvariantHolds, PTL

\* A superseded process never releases the role of its replacement
\* (clear_current_assignment, finish_current_assignment, fail_current_assignment).
THEOREM ReleasedByOwner ==
  ASSUME NodeAssumption
  PROVE  Spec => [][OnlyOwnerReleases]_vars
<1>1. NodeInv /\ [Next]_vars => [OnlyOwnerReleases]_vars
  BY StepsKept DEF StepKept
<1> QED BY <1>1, InvariantHolds, PTL DEF Spec

\* A suspended worker keeps its assignments until it is resumed, whatever its processes and
\* its lease do (suspend_workers, expire_node_lease, clear_expired_assignments).
THEOREM SuspendedWorkersKept ==
  ASSUME NodeAssumption
  PROVE  Spec => [][SuspendedKept]_vars
<1>1. NodeInv /\ [Next]_vars => [SuspendedKept]_vars
  BY StepsKept DEF StepKept
<1> QED BY <1>1, InvariantHolds, PTL DEF Spec

\* The control plane as a whole (control_plane.rs, node_runner): one sampler in a pool and on record,
\* recorded roles, releases and shutdown requests of the process they are about, and the assignments
\* of suspended workers kept, for any processes that share names, lapse, crash and supersede.
THEOREM RolesSafe == ASSUME NodeAssumption PROVE Spec => RolesOwned
BY NodesTyped, OneSamplerPerPool, OneSamplerRunning, RequestsReachTheirProcess, RolesHaveOwners,
   ReleasedByOwner, SuspendedWorkersKept, PTL DEF RolesOwned
=============================================================================
