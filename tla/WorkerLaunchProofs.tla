------------------------- MODULE WorkerLaunchProofs -------------------------
(***************************************************************************)
(* What WorkerLaunch guarantees for any names, requests, launchers and     *)
(* bounds.  A reservation is turned into a process by a launcher that      *)
(* holds no transaction across the scheduler and the database; the         *)
(* invariant ties what a launcher has read to the token it read it under.  *)
(***************************************************************************)
EXTENDS WorkerLaunch, FiniteSetTheorems, TLAPS

WorkStates == {"none", "connected"} \cup Open \cup Terminal

ReqT == [state : {"none", "pending", "starting", "fulfilled", "failed", "canceled"},
         backend : {"external", "local"}, names : SUBSET Names,
         started : 0 .. Cardinality(Names), token : 0 .. MaxTokens, leased : BOOLEAN]
JobT == [state : {"none", "queued", "up", "ended"}, dep : 0 .. MaxDeployments]
NodeT == [req : Reqs \cup {None}, seen : BOOLEAN, up : Reqs \cup {None}, resume : BOOLEAN, sampler : BOOLEAN]
LchT == [pc : {"idle", "work", "intent", "sbatch", "receipt"}, q : Reqs \cup {None}, tok : 0 .. MaxTokens,
         todo : SUBSET Names, cur : Names \cup {None}, view : [Names -> WorkStates \cup {"registered"}],
         dep : 0 .. MaxDeployments]

Typed ==
  /\ req \in [Reqs -> ReqT]
  /\ work \in [Reqs -> [Names -> WorkStates]]
  /\ job \in [Reqs -> [Names -> JobT]]
  /\ starts \in [Reqs -> [Names -> {0, 1}]]
  /\ node \in [Names -> NodeT]
  /\ lch \in [Launchers -> LchT]
  /\ local \in LchT
  /\ bound \in 1 .. MaxDeployments

\* A request: a process exists where one was started, and none was for a worker whose
\* submission was not intended.  What says connected is so.
ReqOK(q) ==
  /\ req[q].state = "none" => \A n \in Names : starts[q][n] = 0 /\ work[q][n] = "none"
  /\ req[q].backend = "local" /\ req[q].state = "pending" => \A n \in Names : starts[q][n] = 0
  /\ \A n \in Names :
       /\ starts[q][n] = 0 <=> job[q][n].state = "none"
       /\ req[q].backend = "external" /\ work[q][n] \in {"none", "pending"} => starts[q][n] = 0
       /\ work[q][n] = "connected" /\ node[n].req = q => node[n].seen
       /\ n \in req[q].names \/ job[q][n].state # "none" => node[n].req # None
       /\ req[q].state = "fulfilled" /\ n \in req[q].names /\ node[n].req = q => node[n].seen

\* A row: a live worker has a running job of the deployment that is bound.
NodeOK(n) ==
  /\ node[n].up # None => /\ node[n].req # None /\ job[node[n].up][n].state = "up"
                          /\ job[node[n].up][n].dep = bound
  /\ node[n].resume => node[n].req # None

Critical(l) == lch[l].pc \in {"intent", "sbatch", "receipt"}

\* A launcher: what it takes for pending is pending or connected as long as its token is
\* the current one, except the worker it is submitting itself.
LauncherOK(l) ==
  LET s == lch[l]
      q == s.q
  IN s.pc # "idle" =>
       /\ q \in Reqs /\ req[q].backend = "external" /\ req[q].state # "none"
       /\ s.todo \subseteq req[q].names
       /\ \A n \in req[q].names : work[q][n] # "none"
       /\ Critical(l) => s.cur \in s.todo
       /\ s.pc = "intent" => s.view[s.cur] = "pending"
       /\ s.pc = "sbatch" => starts[q][s.cur] = 0 /\ work[q][s.cur] \notin {"none", "pending"}
       /\ s.tok = req[q].token =>
            \A n \in s.todo : s.view[n] = "pending" =>
               work[q][n] \in {"pending", "connected"} \/ (n = s.cur /\ s.pc \in {"sbatch", "receipt"})

\* Two launchers hold different claims, and one at most is inside the guard.
LaunchersApart ==
  \A l, k \in Launchers : l # k =>
    /\ ~(Critical(l) /\ Critical(k))
    /\ lch[l].pc # "idle" /\ lch[k].pc # "idle" /\ lch[l].q = lch[k].q => lch[l].tok # lch[k].tok

\* The local launch under way: it was claimed once and starts what it has left.
LocalOK ==
  local.pc # "idle" =>
    /\ local.q \in Reqs /\ req[local.q].backend = "local" /\ req[local.q].state \notin {"none", "pending"}
    /\ local.todo \subseteq req[local.q].names
    /\ \A n \in local.todo : starts[local.q][n] = 0

\* The inductive invariant.
LaunchInv ==
  /\ Typed
  /\ \A q \in Reqs : ReqOK(q)
  /\ \A n \in Names : NodeOK(n)
  /\ \A l \in Launchers : LauncherOK(l)
  /\ LaunchersApart
  /\ LocalOK

-----------------------------------------------------------------------------
(* Steps that start nothing and submit nothing.                            *)

\* A request keeps what it is for; its state may move on, to fulfilled only truthfully.
SameRequest(q) ==
  /\ req'[q].backend = req[q].backend /\ req'[q].names = req[q].names /\ req'[q].token = req[q].token
  /\ \/ req'[q].state = req[q].state
     \/ /\ req[q].state # "none" /\ req'[q].state \notin {"none", "pending"}
        /\ req'[q].state = "fulfilled" => \A n \in req[q].names : node'[n].req = q => node'[n].seen

\* A row keeps its request and what was seen of it.
SameRow(n) ==
  /\ node'[n].req = node[n].req /\ (node[n].seen => node'[n].seen)
  /\ node'[n].up # None => /\ node[n].req # None /\ job'[node'[n].up][n].state = "up"
                           /\ job'[node'[n].up][n].dep = bound'
  /\ node'[n].resume => node[n].req # None

\* A launcher goes on without submitting, or is idle.
SameLauncher(l) ==
  \/ lch'[l].pc = "idle"
  \/ lch'[l] = lch[l]
  \/ /\ lch[l].pc # "idle" /\ lch'[l].pc = "work" /\ lch'[l].q = lch[l].q /\ lch'[l].tok = lch[l].tok
     /\ lch'[l].todo \subseteq lch[l].todo /\ ~Critical(l)
     /\ \A n \in Names : lch'[l].view[n] = "pending" => lch[l].view[n] = "pending"

LEMMA QuietKept ==
  ASSUME LaunchAssumption, LaunchInv, Typed', UNCHANGED <<work, starts>>,
         \A q \in Reqs : SameRequest(q),
         \A q \in Reqs, n \in Names : job'[q][n].state = "none" <=> job[q][n].state = "none",
         \A n \in Names : SameRow(n),
         \A l \in Launchers : SameLauncher(l),
         LocalOK'
  PROVE  LaunchInv'
<1>1. ASSUME NEW q \in Reqs PROVE ReqOK(q)'
  <2>1. ReqOK(q) /\ SameRequest(q) /\ work'[q] = work[q] /\ starts'[q] = starts[q]
    BY DEF LaunchInv
  <2>2. \A n \in Names : node'[n].req = node[n].req /\ (node[n].seen => node'[n].seen)
    BY DEF SameRow
  <2> QED BY <2>1, <2>2 DEF ReqOK, SameRequest
<1>2. ASSUME NEW n \in Names PROVE NodeOK(n)'
  BY DEF SameRow, NodeOK
<1>3. ASSUME NEW l \in Launchers PROVE LauncherOK(l)'
  <2>1. LauncherOK(l) /\ SameLauncher(l) /\ work' = work /\ starts' = starts
    BY DEF LaunchInv
  <2>2. lch[l].pc # "idle" => SameRequest(lch[l].q) /\ lch[l].q \in Reqs
    BY <2>1 DEF LauncherOK
  <2>3. lch[l] \in LchT /\ lch'[l] \in LchT
    BY DEF LaunchInv, Typed
  <2>4. CASE lch'[l].pc = "idle"
    BY <2>4 DEF LauncherOK
  <2>5. CASE lch'[l] = lch[l]
    BY <2>1, <2>2, <2>5 DEF LauncherOK, SameRequest, Critical
  <2>6. CASE /\ lch[l].pc # "idle" /\ lch'[l].pc = "work" /\ lch'[l].q = lch[l].q /\ lch'[l].tok = lch[l].tok
             /\ lch'[l].todo \subseteq lch[l].todo /\ ~Critical(l)
             /\ \A n \in Names : lch'[l].view[n] = "pending" => lch[l].view[n] = "pending"
    BY <2>1, <2>2, <2>3, <2>6 DEF LauncherOK, SameRequest, Critical, LchT
  <2> QED BY <2>1, <2>4, <2>5, <2>6 DEF SameLauncher
<1>4. LaunchersApart'
  <2>1. \A l \in Launchers : lch'[l].pc # "idle" =>
          /\ lch[l].pc # "idle" /\ lch'[l].q = lch[l].q /\ lch'[l].tok = lch[l].tok
          /\ Critical(l)' => Critical(l)
    BY DEF SameLauncher, Critical
  <2>2. \A l \in Launchers : Critical(l)' => lch'[l].pc # "idle"
    BY DEF Critical
  <2> QED BY <2>1, <2>2 DEF LaunchInv, LaunchersApart
<1> QED BY <1>1, <1>2, <1>3, <1>4 DEF LaunchInv

\* The local launch is as it was, or over.
LEMMA LocalKept ==
  ASSUME LaunchInv, UNCHANGED starts, \A q \in Reqs : SameRequest(q), local' = local \/ local'.pc = "idle"
  PROVE  LocalOK'
<1>1. local.pc # "idle" => SameRequest(local.q)
  BY DEF LaunchInv, LocalOK
<1> QED BY <1>1 DEF LaunchInv, LocalOK, SameRequest

\* Nothing but rows changes.
LEMMA RowsKept ==
  ASSUME LaunchAssumption, LaunchInv, UNCHANGED <<req, work, job, starts, lch, local, bound>>,
         node' \in [Names -> NodeT], \A n \in Names : SameRow(n)
  PROVE  LaunchInv'
<1>1. Typed'
  BY DEF LaunchInv, Typed
<1>2. (\A q \in Reqs : SameRequest(q)) /\ (\A l \in Launchers : SameLauncher(l))
  BY DEF SameRequest, SameLauncher
<1>3. LocalOK'
  BY <1>2, LocalKept
<1> QED BY <1>1, <1>2, <1>3, QuietKept

LEMMA SuspendKept ==
  ASSUME LaunchAssumption, LaunchInv, NEW n \in Names, Suspend(n)
  PROVE  LaunchInv'
<1>1. \A m \in Names : node[m] \in NodeT /\ NodeOK(m)
  BY DEF LaunchInv, Typed
<1>2. node' = [node EXCEPT ![n] = [node[n] EXCEPT !.resume = TRUE]] /\ node[n].up # None
  BY DEF Suspend, LaunchInv, Typed
<1>3. node' \in [Names -> NodeT]
  BY <1>1, <1>2 DEF NodeT, LaunchInv, Typed
<1>4. UNCHANGED <<req, work, job, starts, lch, local, bound>>
  BY DEF Suspend
<1>5. \A m \in Names : SameRow(m)
  BY <1>1, <1>2, <1>4 DEF SameRow, NodeOK, NodeT, LaunchInv, Typed
<1> QED BY <1>3, <1>4, <1>5, RowsKept

LEMMA AssignSamplerKept ==
  ASSUME LaunchAssumption, LaunchInv, NEW n \in Names, AssignSampler(n)
  PROVE  LaunchInv'
<1>1. \A m \in Names : node[m] \in NodeT /\ NodeOK(m)
  BY DEF LaunchInv, Typed
<1>2. node' = [node EXCEPT ![n] = [node[n] EXCEPT !.sampler = TRUE]]
  BY DEF AssignSampler, LaunchInv, Typed
<1>3. node' \in [Names -> NodeT]
  BY <1>1, <1>2 DEF NodeT, LaunchInv, Typed
<1>4. UNCHANGED <<req, work, job, starts, lch, local, bound>>
  BY DEF AssignSampler
<1>5. \A m \in Names : SameRow(m)
  BY <1>1, <1>2, <1>4 DEF SameRow, NodeOK, NodeT, LaunchInv, Typed
<1> QED BY <1>3, <1>4, <1>5, RowsKept

LEMMA LeaseLapsesKept ==
  ASSUME LaunchAssumption, LaunchInv, NEW n \in Names, LeaseLapses(n)
  PROVE  LaunchInv'
<1>1. \A m \in Names : node[m] \in NodeT /\ NodeOK(m)
  BY DEF LaunchInv, Typed
<1>2. node' = [node EXCEPT ![n] = [node[n] EXCEPT !.up = None]]
  BY DEF LeaseLapses, LaunchInv, Typed
<1>3. node' \in [Names -> NodeT]
  BY <1>1, <1>2 DEF NodeT, LaunchInv, Typed
<1>4. UNCHANGED <<req, work, job, starts, lch, local, bound>>
  BY DEF LeaseLapses
<1>5. \A m \in Names : SameRow(m)
  BY <1>1, <1>2, <1>4 DEF SameRow, NodeOK, NodeT, LaunchInv, Typed
<1> QED BY <1>3, <1>4, <1>5, RowsKept

\* A process that announces itself, or ends.
LEMMA AnnounceKept ==
  ASSUME LaunchAssumption, LaunchInv, NEW q \in Reqs, NEW n \in Names, Announce(q, n)
  PROVE  LaunchInv'
<1>1. /\ \A m \in Names : node[m] \in NodeT /\ NodeOK(m)
      /\ job \in [Reqs -> [Names -> JobT]] /\ node \in [Names -> NodeT] /\ ReqOK(q)
  BY DEF LaunchInv, Typed
<1> DEFINE j == [job[q][n] EXCEPT !.state = "up"]
           w == [node[n] EXCEPT !.up = q, !.seen = TRUE]
<1>2. j \in JobT /\ j.state = "up" /\ j.dep = bound /\ job[q][n].state # "none"
  BY <1>1 DEF Announce, Accepts, JobT
<1>3. w \in NodeT /\ w.req = node[n].req /\ w.up = q /\ w.seen /\ w.resume = node[n].resume
  BY <1>1 DEF NodeT
<1>4. job' = [job EXCEPT ![q] = [job[q] EXCEPT ![n] = j]] /\ node' = [node EXCEPT ![n] = w]
  BY <1>1 DEF Announce
<1>5. UNCHANGED <<req, work, starts, lch, local, bound>> /\ node[n].up = None
  BY DEF Announce, Accepts
<1> HIDE DEF j, w
<1>6. \A p \in Reqs, m \in Names : job'[p][m] = IF p = q /\ m = n THEN j ELSE job[p][m]
  BY <1>1, <1>4
<1>7. \A m \in Names : node'[m] = IF m = n THEN w ELSE node[m]
  BY <1>1, <1>4
<1>8. Typed'
  <2>1. job' \in [Reqs -> [Names -> JobT]] /\ node' \in [Names -> NodeT]
    BY <1>1, <1>2, <1>3, <1>4
  <2> QED BY <1>5, <2>1 DEF LaunchInv, Typed
<1>9. \A m \in Names : SameRow(m)
  <2> TAKE m \in Names
  <2>1. CASE m = n
    BY <1>1, <1>2, <1>3, <1>5, <1>6, <1>7, <2>1 DEF SameRow, ReqOK, NodeOK
  <2>2. CASE m # n
    <3>1. node[m].up # None => node[m].up \in Reqs
      BY <1>1 DEF NodeT
    <3> QED BY <1>1, <1>5, <1>6, <1>7, <2>2, <3>1 DEF SameRow, NodeOK
  <2> QED BY <2>1, <2>2
<1>10. \A p \in Reqs, m \in Names : job'[p][m].state = "none" <=> job[p][m].state = "none"
  BY <1>2, <1>6
<1>11. (\A p \in Reqs : SameRequest(p)) /\ (\A l \in Launchers : SameLauncher(l))
  BY <1>5 DEF SameRequest, SameLauncher
<1>12. LocalOK'
  BY <1>5, <1>11, LocalKept
<1> QED BY <1>5, <1>8, <1>9, <1>10, <1>11, <1>12, QuietKept

LEMMA JobEndsKept ==
  ASSUME LaunchAssumption, LaunchInv, NEW q \in Reqs, NEW n \in Names, JobEnds(q, n)
  PROVE  LaunchInv'
<1>1. /\ \A m \in Names : node[m] \in NodeT /\ NodeOK(m)
      /\ job \in [Reqs -> [Names -> JobT]] /\ node \in [Names -> NodeT] /\ ReqOK(q)
  BY DEF LaunchInv, Typed
<1> DEFINE j == [job[q][n] EXCEPT !.state = "ended"]
           w == [node[n] EXCEPT !.up = None, !.sampler = node[n].sampler /\ node[n].resume]
<1>2. j \in JobT /\ j.state = "ended" /\ job[q][n].state # "none"
  BY <1>1 DEF JobEnds, JobT
<1>3. w \in NodeT /\ w.req = node[n].req /\ w.up = None /\ w.seen = node[n].seen /\ w.resume = node[n].resume
  <2>1. (node[n].sampler /\ node[n].resume) \in BOOLEAN
    OBVIOUS
  <2> QED BY <1>1, <2>1 DEF NodeT
<1>4. /\ job' = [job EXCEPT ![q] = [job[q] EXCEPT ![n] = j]]
      /\ node' = IF node[n].up = q THEN [node EXCEPT ![n] = w] ELSE node
  BY <1>1 DEF JobEnds, Gone
<1>5. UNCHANGED <<req, work, starts, lch, local, bound>>
  BY DEF JobEnds
<1> HIDE DEF j, w
<1>6. \A p \in Reqs, m \in Names : job'[p][m] = IF p = q /\ m = n THEN j ELSE job[p][m]
  BY <1>1, <1>4
<1>7. \A m \in Names : node'[m] = IF m = n /\ node[n].up = q THEN w ELSE node[m]
  BY <1>1, <1>4
<1>8. Typed'
  <2>1. job' \in [Reqs -> [Names -> JobT]]
    BY <1>1, <1>2, <1>4
  <2>2. node' \in [Names -> NodeT]
    BY <1>1, <1>3, <1>4
  <2> QED BY <1>5, <2>1, <2>2 DEF LaunchInv, Typed
<1>9. \A m \in Names : SameRow(m)
  <2> TAKE m \in Names
  <2>0. node[m].up # None => node[m].up \in Reqs
    BY <1>1 DEF NodeT
  <2>1. CASE m = n /\ node[n].up = q
    BY <1>1, <1>3, <1>5, <1>6, <1>7, <2>1 DEF SameRow, NodeOK
  <2>2. CASE ~(m = n /\ node[n].up = q)
    BY <1>1, <1>5, <1>6, <1>7, <2>0, <2>2 DEF SameRow, NodeOK
  <2> QED BY <2>1, <2>2
<1>10. \A p \in Reqs, m \in Names : job'[p][m].state = "none" <=> job[p][m].state = "none"
  BY <1>2, <1>6
<1>11. (\A p \in Reqs : SameRequest(p)) /\ (\A l \in Launchers : SameLauncher(l))
  BY <1>5 DEF SameRequest, SameLauncher
<1>12. LocalOK'
  BY <1>5, <1>11, LocalKept
<1> QED BY <1>5, <1>8, <1>9, <1>10, <1>11, <1>12, QuietKept

\* Rows, work and processes are as they were; requests and launchers move on.
LEMMA RequestsKept ==
  ASSUME LaunchAssumption, LaunchInv, UNCHANGED <<work, job, starts, node, bound>>,
         req' \in [Reqs -> ReqT], lch' \in [Launchers -> LchT], local' \in LchT,
         \A q \in Reqs : SameRequest(q), \A l \in Launchers : SameLauncher(l), LocalOK'
  PROVE  LaunchInv'
<1>1. Typed'
  BY DEF LaunchInv, Typed
<1>2. \A n \in Names : SameRow(n)
  BY DEF SameRow, LaunchInv, NodeOK
<1> QED BY <1>1, <1>2, QuietKept

LEMMA IdleTyped ==
  ASSUME LaunchAssumption
  PROVE  Idle \in LchT /\ Idle.pc = "idle"
<1>1. 0 \in 0 .. MaxTokens /\ 0 \in 0 .. MaxDeployments
  BY DEF LaunchAssumption
<1>2. [n \in Names |-> "none"] \in [Names -> WorkStates \cup {"registered"}]
  BY DEF WorkStates
<1> QED BY <1>1, <1>2 DEF Idle, LchT

\* One request changes, and so do at most its launchers.
LEMMA OneRequest ==
  ASSUME LaunchInv, NEW q \in Reqs, NEW r \in ReqT, req' = [req EXCEPT ![q] = r], UNCHANGED node,
         r.backend = req[q].backend, r.names = req[q].names, r.token = req[q].token,
         \/ r.state = req[q].state
         \/ req[q].state # "none" /\ r.state \notin {"none", "pending", "fulfilled"}
  PROVE  req' \in [Reqs -> ReqT] /\ \A p \in Reqs : SameRequest(p)
<1>1. req \in [Reqs -> ReqT]
  BY DEF LaunchInv, Typed
<1> QED BY <1>1 DEF SameRequest

LEMMA BindDeploymentKept ==
  ASSUME LaunchAssumption, LaunchInv, BindDeployment
  PROVE  LaunchInv'
<1> DEFINE Canceled(q) == [req[q] EXCEPT !.state = "canceled"]
           hit(q) == req[q].backend = "external" /\ req[q].state \in {"pending", "starting"}
<1>1. /\ req' = [q \in Reqs |-> IF hit(q) THEN Canceled(q) ELSE req[q]]
      /\ UNCHANGED <<work, job, starts, node, lch, local>> /\ bound' = bound + 1 /\ bound < MaxDeployments
      /\ \A n \in Names : node[n].up = None
  BY DEF BindDeployment
<1>2. \A q \in Reqs : /\ Canceled(q) \in ReqT /\ Canceled(q).backend = req[q].backend
                      /\ Canceled(q).names = req[q].names /\ Canceled(q).token = req[q].token
                      /\ Canceled(q).state = "canceled"
  BY DEF LaunchInv, Typed, ReqT
<1>3. \A q \in Reqs : hit(q) => req[q].state # "none"
  OBVIOUS
<1> HIDE DEF Canceled, hit
<1>4. Typed'
  <2>1. req' \in [Reqs -> ReqT]
    BY <1>1, <1>2 DEF LaunchInv, Typed
  <2>2. bound' \in 1 .. MaxDeployments
    BY <1>1 DEF LaunchInv, Typed, LaunchAssumption
  <2> QED BY <1>1, <2>1, <2>2 DEF LaunchInv, Typed
<1>5. \A q \in Reqs : SameRequest(q)
  BY <1>1, <1>2, <1>3 DEF SameRequest
<1>6. (\A n \in Names : SameRow(n)) /\ (\A l \in Launchers : SameLauncher(l))
  BY <1>1 DEF SameRow, SameLauncher, LaunchInv, NodeOK
<1>7. LocalOK'
  BY <1>1, <1>5, LocalKept
<1> QED BY <1>1, <1>4, <1>5, <1>6, <1>7, QuietKept

\* A launcher that gives up gives its lease back if it still has it.
LEMMA AbandonKept ==
  ASSUME LaunchAssumption, LaunchInv, NEW l \in Launchers, lch[l].pc # "idle", Abandon(l),
         UNCHANGED <<job, starts, node, local, bound>>
  PROVE  LaunchInv'
<1> DEFINE q == lch[l].q
           r == [req[q] EXCEPT !.leased = FALSE]
<1>1. q \in Reqs /\ req[q] \in ReqT /\ Idle \in LchT /\ Idle.pc = "idle" /\ lch \in [Launchers -> LchT]
  BY IdleTyped DEF LaunchInv, LauncherOK, Typed
<1>2. /\ lch' = [lch EXCEPT ![l] = Idle] /\ UNCHANGED work
      /\ req' = req \/ req' = [req EXCEPT ![q] = r]
  BY <1>1 DEF Abandon, LaunchInv, Typed
<1>3. /\ r \in ReqT /\ r.backend = req[q].backend /\ r.names = req[q].names /\ r.token = req[q].token
      /\ r.state = req[q].state
  BY <1>1 DEF ReqT
<1> HIDE DEF r, q
<1>4. req' \in [Reqs -> ReqT] /\ \A p \in Reqs : SameRequest(p)
  <2>1. CASE req' = req
    BY <2>1 DEF SameRequest, LaunchInv, Typed
  <2>2. CASE req' = [req EXCEPT ![q] = r]
    BY <1>1, <1>3, <2>2, OneRequest
  <2> QED BY <1>2, <2>1, <2>2
<1>5. lch' \in [Launchers -> LchT] /\ \A k \in Launchers : SameLauncher(k)
  BY <1>1, <1>2 DEF SameLauncher
<1>6. LocalOK'
  BY <1>4, LocalKept
<1>7. local' \in LchT
  BY DEF LaunchInv, Typed
<1> QED BY <1>2, <1>4, <1>5, <1>6, <1>7, RequestsKept

LEMMA EndPassKept ==
  ASSUME LaunchAssumption, LaunchInv, NEW l \in Launchers, EndPass(l)
  PROVE  LaunchInv'
BY AbandonKept DEF EndPass

LEMMA LauncherCrashKept ==
  ASSUME LaunchAssumption, LaunchInv, NEW l \in Launchers, LauncherCrash(l)
  PROVE  LaunchInv'
<1>1. Idle \in LchT /\ Idle.pc = "idle" /\ lch \in [Launchers -> LchT] /\ req \in [Reqs -> ReqT] /\ local \in LchT
  BY IdleTyped DEF LaunchInv, Typed
<1>2. lch' = [lch EXCEPT ![l] = Idle] /\ UNCHANGED <<req, work, job, starts, node, local, bound>>
  BY DEF LauncherCrash
<1>3. lch' \in [Launchers -> LchT] /\ (\A k \in Launchers : SameLauncher(k)) /\ (\A p \in Reqs : SameRequest(p))
  BY <1>1, <1>2 DEF SameLauncher, SameRequest
<1>4. LocalOK'
  BY <1>2, <1>3, LocalKept
<1> QED BY <1>1, <1>2, <1>3, <1>4, RequestsKept

LEMMA LauncherLeaseExpiresKept ==
  ASSUME LaunchAssumption, LaunchInv, NEW q \in Reqs, LauncherLeaseExpires(q)
  PROVE  LaunchInv'
<1> DEFINE r == [req[q] EXCEPT !.leased = FALSE]
<1>1. lch \in [Launchers -> LchT] /\ req \in [Reqs -> ReqT] /\ local \in LchT
  BY DEF LaunchInv, Typed
<1>2. req' = [req EXCEPT ![q] = r] /\ UNCHANGED <<work, job, starts, node, lch, local, bound>>
  BY <1>1 DEF LauncherLeaseExpires
<1>3. /\ r \in ReqT /\ r.backend = req[q].backend /\ r.names = req[q].names /\ r.token = req[q].token
      /\ r.state = req[q].state
  BY <1>1 DEF ReqT
<1> HIDE DEF r
<1>4. req' \in [Reqs -> ReqT] /\ \A p \in Reqs : SameRequest(p)
  BY <1>2, <1>3, OneRequest
<1>5. \A k \in Launchers : SameLauncher(k)
  BY <1>2 DEF SameLauncher
<1>6. LocalOK'
  BY <1>2, <1>4, LocalKept
<1> QED BY <1>1, <1>2, <1>4, <1>5, <1>6, RequestsKept

-----------------------------------------------------------------------------
(* Local launches.                                                         *)

LEMMA CountTyped ==
  ASSUME LaunchAssumption, NEW S \in SUBSET Names
  PROVE  Cardinality(S) \in 0 .. Cardinality(Names)
<1>1. IsFiniteSet(Names) /\ IsFiniteSet(S) /\ Cardinality(S) <= Cardinality(Names)
  BY FS_Subset DEF LaunchAssumption
<1>2. Cardinality(S) \in Nat /\ Cardinality(Names) \in Nat
  BY <1>1, FS_CardinalityType
<1> QED BY <1>1, <1>2

LEMMA Counted ==
  ASSUME NEW r \in ReqT, NEW c \in 0 .. Cardinality(Names),
         NEW st \in {"none", "pending", "starting", "fulfilled", "failed", "canceled"}
  PROVE  LET v == [r EXCEPT !.state = st, !.started = c] IN
         v \in ReqT /\ v.backend = r.backend /\ v.names = r.names /\ v.token = r.token /\ v.state = st
<1> DEFINE C == 0 .. Cardinality(Names)
           T == 0 .. MaxTokens
<1>1. ReqT = [state : {"none", "pending", "starting", "fulfilled", "failed", "canceled"},
              backend : {"external", "local"}, names : SUBSET Names,
              started : C, token : T, leased : BOOLEAN]
  BY DEF ReqT
<1>2. c \in C
  OBVIOUS
<1> HIDE DEF C, T
<1> QED BY <1>1, <1>2

\* A local request is claimed once: nothing was started for it before.
LEMMA ClaimLocalKept ==
  ASSUME LaunchAssumption, LaunchInv, NEW q \in Reqs, ClaimLocal(q)
  PROVE  LaunchInv'
<1> DEFINE r == [req[q] EXCEPT !.state = "starting"]
           s == [Idle EXCEPT !.pc = "work", !.q = q, !.todo = req[q].names]
<1>1. lch \in [Launchers -> LchT] /\ req \in [Reqs -> ReqT] /\ Idle \in LchT /\ ReqOK(q)
  BY IdleTyped DEF LaunchInv, Typed
<1>2. /\ req' = [req EXCEPT ![q] = r] /\ local' = s /\ UNCHANGED <<work, job, starts, node, lch, bound>>
      /\ req[q].backend = "local" /\ req[q].state = "pending"
  BY <1>1 DEF ClaimLocal
<1>3. /\ r \in ReqT /\ r.backend = req[q].backend /\ r.names = req[q].names /\ r.token = req[q].token
      /\ r.state = "starting"
  BY <1>1 DEF ReqT
<1>4. s \in LchT /\ s.q = q /\ s.todo = req[q].names
  BY <1>1 DEF LchT, ReqT
<1> HIDE DEF r, s
<1>5. req' \in [Reqs -> ReqT] /\ \A p \in Reqs : SameRequest(p)
  BY <1>2, <1>3, OneRequest
<1>6. \A k \in Launchers : SameLauncher(k)
  BY <1>2 DEF SameLauncher
<1>7. LocalOK'
  <2>1. req'[q] = r /\ \A n \in Names : starts[q][n] = 0
    BY <1>1, <1>2 DEF ReqOK
  <2>2. req[q].names \subseteq Names
    BY <1>1 DEF ReqT
  <2> QED BY <1>2, <1>3, <1>4, <2>1, <2>2 DEF LocalOK
<1> QED BY <1>1, <1>2, <1>4, <1>5, <1>6, <1>7, RequestsKept

LEMMA MarkStartingKept ==
  ASSUME LaunchAssumption, LaunchInv, MarkStarting
  PROVE  LaunchInv'
<1> DEFINE q == local.q
           r == [req[q] EXCEPT !.state = "starting", !.started = Cardinality(req[q].names)]
<1>1. lch \in [Launchers -> LchT] /\ req \in [Reqs -> ReqT] /\ Idle \in LchT /\ Idle.pc = "idle"
  BY IdleTyped DEF LaunchInv, Typed
<1>2. local.pc # "idle"
  BY DEF MarkStarting
<1>3. q \in Reqs /\ req[q].state # "none"
  BY <1>2 DEF LaunchInv, LocalOK
<1>4. req' = [req EXCEPT ![q] = r] /\ local' = Idle /\ UNCHANGED <<work, job, starts, node, lch, bound>>
  BY <1>1, <1>3 DEF MarkStarting
<1>5. /\ r \in ReqT /\ r.backend = req[q].backend /\ r.names = req[q].names /\ r.token = req[q].token
      /\ r.state = "starting"
  <2>1. Cardinality(req[q].names) \in 0 .. Cardinality(Names)
    BY <1>1, <1>3, CountTyped DEF ReqT
  <2>2. req[q] \in ReqT
    BY <1>1, <1>3
  <2> QED BY <2>1, <2>2, Counted
<1> HIDE DEF r, q
<1>6. req' \in [Reqs -> ReqT] /\ \A p \in Reqs : SameRequest(p)
  BY <1>3, <1>4, <1>5, OneRequest
<1>7. \A k \in Launchers : SameLauncher(k)
  BY <1>4 DEF SameLauncher
<1>8. LocalOK'
  BY <1>1, <1>4, <1>6, LocalKept
<1> QED BY <1>1, <1>4, <1>6, <1>7, <1>8, RequestsKept

LEMMA SpawnFailsKept ==
  ASSUME LaunchAssumption, LaunchInv, SpawnFails
  PROVE  LaunchInv'
<1> DEFINE q == local.q
           c == Cardinality(req[q].names \ local.todo)
           r == [req[q] EXCEPT !.state = "failed", !.started = c]
<1>1. lch \in [Launchers -> LchT] /\ req \in [Reqs -> ReqT] /\ Idle \in LchT /\ Idle.pc = "idle"
  BY IdleTyped DEF LaunchInv, Typed
<1>2. local.pc # "idle"
  BY DEF SpawnFails
<1>3. q \in Reqs /\ req[q].state # "none"
  BY <1>2 DEF LaunchInv, LocalOK
<1>4. req' = [req EXCEPT ![q] = r] /\ local' = Idle /\ UNCHANGED <<work, job, starts, node, lch, bound>>
  BY <1>1, <1>3 DEF SpawnFails
<1>5. /\ r \in ReqT /\ r.backend = req[q].backend /\ r.names = req[q].names /\ r.token = req[q].token
      /\ r.state = "failed"
  <2>1. (req[q].names \ local.todo) \in SUBSET Names
    BY <1>1, <1>3 DEF ReqT
  <2>2. c \in 0 .. Cardinality(Names)
    BY <2>1, CountTyped
  <2>3. req[q] \in ReqT
    BY <1>1, <1>3
  <2> QED BY <2>2, <2>3, Counted
<1> HIDE DEF r, q
<1>6. req' \in [Reqs -> ReqT] /\ \A p \in Reqs : SameRequest(p)
  BY <1>3, <1>4, <1>5, OneRequest
<1>7. \A k \in Launchers : SameLauncher(k)
  BY <1>4 DEF SameLauncher
<1>8. LocalOK'
  BY <1>1, <1>4, <1>6, LocalKept
<1> QED BY <1>1, <1>4, <1>6, <1>7, <1>8, RequestsKept

LEMMA LocalCrashKept ==
  ASSUME LaunchAssumption, LaunchInv, LocalCrash
  PROVE  LaunchInv'
<1>1. lch \in [Launchers -> LchT] /\ req \in [Reqs -> ReqT] /\ Idle \in LchT /\ Idle.pc = "idle"
  BY IdleTyped DEF LaunchInv, Typed
<1>2. local' = Idle /\ UNCHANGED <<req, work, job, starts, node, lch, bound>>
  BY DEF LocalCrash
<1>3. (\A q \in Reqs : SameRequest(q)) /\ (\A k \in Launchers : SameLauncher(k))
  BY <1>2 DEF SameRequest, SameLauncher
<1>4. LocalOK'
  BY <1>1, <1>2, <1>3, LocalKept
<1> QED BY <1>1, <1>2, <1>3, <1>4, RequestsKept

\* A process is started where none was: for a worker of a request that has left the
\* states in which nothing may run.
LEMMA StartedKept ==
  ASSUME LaunchInv, NEW q \in Reqs, NEW n \in req[q].names, NEW dep \in 0 .. MaxDeployments,
         Started(q, n, dep), starts[q][n] = 0, UNCHANGED <<req, work, node, bound>>,
         req[q].state \notin {"none", "pending"} \/ (req[q].backend = "external" /\ req[q].state # "none"),
         req[q].backend = "external" => work[q][n] \notin {"none", "pending"}
  PROVE  /\ job' \in [Reqs -> [Names -> JobT]] /\ starts' \in [Reqs -> [Names -> {0, 1}]]
         /\ \A p \in Reqs : ReqOK(p)'
         /\ \A m \in Names : NodeOK(m)'
         /\ \A p \in Reqs, m \in Names : p # q \/ m # n => starts'[p][m] = starts[p][m]
<1>1. /\ job \in [Reqs -> [Names -> JobT]] /\ starts \in [Reqs -> [Names -> {0, 1}]] /\ n \in Names
      /\ node \in [Names -> NodeT]
  BY DEF LaunchInv, Typed, ReqT
<1> DEFINE j == [state |-> "queued", dep |-> dep]
<1>2. j \in JobT /\ j.state = "queued"
  BY DEF JobT
<1>3. job' = [job EXCEPT ![q] = [job[q] EXCEPT ![n] = j]] /\ starts' = [starts EXCEPT ![q] = [starts[q] EXCEPT ![n] = 1]]
  BY <1>1 DEF Started
<1> HIDE DEF j
<1>4. \A p \in Reqs, m \in Names : /\ job'[p][m] = IF p = q /\ m = n THEN j ELSE job[p][m]
                                   /\ starts'[p][m] = IF p = q /\ m = n THEN 1 ELSE starts[p][m]
  BY <1>1, <1>3
<1>5. job' \in [Reqs -> [Names -> JobT]] /\ starts' \in [Reqs -> [Names -> {0, 1}]]
  BY <1>1, <1>2, <1>3
<1>6. ASSUME NEW p \in Reqs PROVE ReqOK(p)'
  <2>1. ReqOK(p)
    BY DEF LaunchInv
  <2> QED BY <1>2, <1>4, <2>1 DEF ReqOK
<1>7. ASSUME NEW m \in Names PROVE NodeOK(m)'
  <2>1. NodeOK(m) /\ (node[m].up # None => node[m].up \in Reqs)
    BY <1>1 DEF LaunchInv, NodeT
  <2>2. job[q][n].state = "none"
    BY <1>1 DEF LaunchInv, ReqOK
  <2> QED BY <1>4, <2>1, <2>2 DEF NodeOK
<1> QED BY <1>4, <1>5, <1>6, <1>7

LEMMA SpawnNodeKept ==
  ASSUME LaunchAssumption, LaunchInv, NEW n \in Names, SpawnNode(n)
  PROVE  LaunchInv'
<1> DEFINE q == local.q
           s == [local EXCEPT !.todo = local.todo \ {n}]
<1>1. /\ q \in Reqs /\ req[q].backend = "local" /\ req[q].state \notin {"none", "pending"}
      /\ local.todo \subseteq req[q].names /\ n \in local.todo /\ starts[q][n] = 0
      /\ \A m \in local.todo : starts[q][m] = 0
  BY DEF SpawnNode, LaunchInv, LocalOK
<1>2. /\ Started(q, n, bound) /\ local' = s /\ UNCHANGED <<req, work, node, lch, bound>>
      /\ local.pc = "work" /\ local \in LchT /\ bound \in 0 .. MaxDeployments /\ req[q] \in ReqT
  BY <1>1 DEF SpawnNode, LaunchInv, Typed
<1>3. s \in LchT /\ s.q = q /\ s.todo = local.todo \ {n}
  BY <1>2 DEF LchT
<1> HIDE DEF q, s
<1>4. /\ job' \in [Reqs -> [Names -> JobT]] /\ starts' \in [Reqs -> [Names -> {0, 1}]]
      /\ \A p \in Reqs : ReqOK(p)'
      /\ \A m \in Names : NodeOK(m)'
      /\ \A p \in Reqs, m \in Names : p # q \/ m # n => starts'[p][m] = starts[p][m]
  BY <1>1, <1>2, StartedKept
<1>5. Typed'
  BY <1>2, <1>3, <1>4 DEF LaunchInv, Typed
<1>6. ASSUME NEW l \in Launchers PROVE LauncherOK(l)'
  <2>1. LauncherOK(l) /\ lch[l].pc # "idle" => lch[l].q # q
    BY <1>1 DEF LaunchInv, LauncherOK
  <2>2. LauncherOK(l) /\ lch[l] \in LchT
    BY DEF LaunchInv, Typed
  <2>3. lch[l].pc # "idle" => lch[l].q \in Reqs /\ req[lch[l].q].names \subseteq Names
    BY <2>2 DEF LauncherOK, LaunchInv, Typed, ReqT
  <2>4. lch[l].pc # "idle" => \A m \in Names : starts'[lch[l].q][m] = starts[lch[l].q][m]
    BY <1>4, <2>1, <2>2, <2>3
  <2> QED BY <1>2, <2>2, <2>3, <2>4 DEF LauncherOK, Critical
<1>7. LaunchersApart'
  BY <1>2 DEF LaunchInv, LaunchersApart, Critical
<1>8. LocalOK'
  <2>1. req[q].names \subseteq Names
    BY <1>2 DEF ReqT
  <2> QED BY <1>1, <1>2, <1>3, <1>4, <2>1 DEF LocalOK
<1> QED BY <1>4, <1>5, <1>6, <1>7, <1>8 DEF LaunchInv

-----------------------------------------------------------------------------
(* Requests are made, claimed, reset and reconciled.                       *)

\* A new request takes an id that was never used, and rows that are free of processes.
LEMMA NewRequestKept ==
  ASSUME LaunchAssumption, LaunchInv, NEW q \in Reqs, NEW r \in ReqT, req[q].state = "none",
         req' = [req EXCEPT ![q] = r], r.state = "pending", node' \in [Names -> NodeT],
         \A m \in Names : \/ node'[m] = node[m]
                          \/ node'[m].req = q /\ node'[m].up = None /\ ~node'[m].resume,
         \A m \in r.names : node'[m].req = q,
         UNCHANGED <<work, job, starts, lch, local, bound>>
  PROVE  LaunchInv'
<1>1. req \in [Reqs -> ReqT] /\ q # None /\ r.names \subseteq Names
  BY DEF LaunchInv, Typed, LaunchAssumption, ReqT
<1>2. \A p \in Reqs : req'[p] = IF p = q THEN r ELSE req[p]
  BY <1>1
<1>3. Typed'
  BY <1>1 DEF LaunchInv, Typed
<1>4. ASSUME NEW p \in Reqs PROVE ReqOK(p)'
  <2>1. ReqOK(p)
    BY DEF LaunchInv
  <2>2. CASE p = q
    BY <1>1, <1>2, <2>1, <2>2 DEF ReqOK
  <2>3. CASE p # q
    BY <1>1, <1>2, <2>1, <2>3 DEF ReqOK
  <2> QED BY <2>2, <2>3
<1>5. ASSUME NEW m \in Names PROVE NodeOK(m)'
  <2>1. NodeOK(m)
    BY DEF LaunchInv
  <2> QED BY <2>1 DEF NodeOK
<1>6. ASSUME NEW l \in Launchers PROVE LauncherOK(l)'
  <2>1. LauncherOK(l)
    BY DEF LaunchInv
  <2> QED BY <1>2, <2>1 DEF LauncherOK, Critical
<1>7. LaunchersApart' /\ LocalOK'
  BY <1>2 DEF LaunchInv, LaunchersApart, Critical, LocalOK
<1> QED BY <1>3, <1>4, <1>5, <1>6, <1>7 DEF LaunchInv

LEMMA NewRequestTyped ==
  ASSUME LaunchAssumption, NEW b \in {"external", "local"}, NEW S \in SUBSET Names
  PROVE  LET r == [NoReq EXCEPT !.state = "pending", !.backend = b, !.names = S] IN
         r \in ReqT /\ r.state = "pending" /\ r.names = S
<1> DEFINE C == 0 .. Cardinality(Names)
           T == 0 .. MaxTokens
<1>1. ReqT = [state : {"none", "pending", "starting", "fulfilled", "failed", "canceled"},
              backend : {"external", "local"}, names : SUBSET Names,
              started : C, token : T, leased : BOOLEAN]
  BY DEF ReqT
<1>2. 0 \in T
  BY DEF LaunchAssumption
<1>3. 0 \in C
  <2>1. Cardinality({}) \in 0 .. Cardinality(Names)
    BY CountTyped
  <2> QED BY <2>1, FS_EmptySet
<1> HIDE DEF C, T
<1> QED BY <1>1, <1>2, <1>3 DEF NoReq

LEMMA ReserveKept ==
  ASSUME LaunchAssumption, LaunchInv, NEW q \in Reqs, NEW b \in {"external", "local"}, NEW S \in SUBSET Names,
         Reserve(q, b, S)
  PROVE  LaunchInv'
<1> DEFINE r == [NoReq EXCEPT !.state = "pending", !.backend = b, !.names = S]
           w == [NoNode EXCEPT !.req = q]
<1>1. r \in ReqT /\ r.state = "pending" /\ r.names = S
  BY NewRequestTyped
<1>2. w \in NodeT /\ w.req = q /\ w.up = None /\ ~w.resume
  BY DEF NoNode, NodeT
<1>3. /\ req' = [req EXCEPT ![q] = r] /\ node' = [n \in Names |-> IF n \in S THEN w ELSE node[n]]
      /\ UNCHANGED <<work, job, starts, lch, local, bound>> /\ req[q].state = "none"
  BY DEF Reserve
<1> HIDE DEF r, w
<1>4. node' \in [Names -> NodeT]
  BY <1>2, <1>3 DEF LaunchInv, Typed
<1>5. /\ \A m \in Names : \/ node'[m] = node[m]
                          \/ node'[m].req = q /\ node'[m].up = None /\ ~node'[m].resume
      /\ \A m \in r.names : node'[m].req = q
  BY <1>1, <1>2, <1>3
<1> QED BY <1>1, <1>3, <1>4, <1>5, NewRequestKept

LEMMA EnqueueResumedKept ==
  ASSUME LaunchAssumption, LaunchInv, NEW n \in Names, NEW q \in Reqs, EnqueueResumed(n, q)
  PROVE  LaunchInv'
<1> DEFINE b == req[node[n].req].backend
           r == [NoReq EXCEPT !.state = "pending", !.backend = b, !.names = {n}]
           w == [node[n] EXCEPT !.resume = FALSE, !.req = q, !.seen = FALSE]
<1>1. node \in [Names -> NodeT] /\ req \in [Reqs -> ReqT] /\ node[n] \in NodeT /\ node[n].resume /\ node[n].up = None
  BY DEF LaunchInv, Typed, EnqueueResumed
<1>2. node[n].req \in Reqs
  BY <1>1 DEF LaunchInv, NodeOK, NodeT
<1>3. b \in {"external", "local"} /\ {n} \in SUBSET Names
  BY <1>1, <1>2 DEF ReqT
<1>4. /\ req' = [req EXCEPT ![q] = r] /\ node' = [node EXCEPT ![n] = w]
      /\ UNCHANGED <<work, job, starts, lch, local, bound>> /\ req[q].state = "none"
  <2>1. req' = [req EXCEPT ![q] = [NoReq EXCEPT !.state = "pending", !.names = {n}, !.backend = b]]
    BY DEF EnqueueResumed
  <2>2. [NoReq EXCEPT !.state = "pending", !.names = {n}, !.backend = b] = r
    BY DEF NoReq
  <2> QED BY <1>1, <2>1, <2>2 DEF EnqueueResumed
<1>5. w \in NodeT /\ w.req = q /\ w.up = None /\ ~w.resume
  BY <1>1 DEF NodeT
<1> HIDE DEF b, w
<1>6. r \in ReqT /\ r.state = "pending" /\ r.names = {n}
  BY <1>3, NewRequestTyped
<1> HIDE DEF r
<1>7. node' \in [Names -> NodeT]
  BY <1>1, <1>4, <1>5
<1>8. /\ \A m \in Names : \/ node'[m] = node[m]
                          \/ node'[m].req = q /\ node'[m].up = None /\ ~node'[m].resume
      /\ \A m \in r.names : node'[m].req = q
  BY <1>1, <1>4, <1>5, <1>6
<1> QED BY <1>4, <1>6, <1>7, <1>8, NewRequestKept

\* What is found connected becomes so, and a request may come to its end by it.
LEMMA ReconcileFulfilledKept ==
  ASSUME LaunchAssumption, LaunchInv, ReconcileFulfilled
  PROVE  LaunchInv'
<1> DEFINE S == {q \in Reqs : req[q].state = "starting"}
           ended(q) == Finished(req[q], Reconciled(q), \A n \in req[q].names : work[q][n] # "none")
           all(q) == req[q].started >= Cardinality(req[q].names) /\ \A n \in req[q].names : Registered(q, n)
           A(q) == [req[q] EXCEPT !.state = ended(q)]
           B(q) == [req[q] EXCEPT !.state = IF all(q) THEN "fulfilled" ELSE @]
<1>1. /\ work' = [q \in Reqs |-> IF q \in S THEN Reconciled(q) ELSE work[q]]
      /\ req' = [q \in Reqs |-> IF q \notin S THEN req[q] ELSE IF req[q].backend = "external" THEN A(q) ELSE B(q)]
      /\ UNCHANGED <<job, starts, node, lch, local, bound>>
  BY DEF ReconcileFulfilled
<1>2. req \in [Reqs -> ReqT] /\ work \in [Reqs -> [Names -> WorkStates]]
  BY DEF LaunchInv, Typed
<1>3. \A q \in Reqs, n \in Names :
        \/ Reconciled(q)[n] = work[q][n]
        \/ Reconciled(q)[n] = "connected" /\ work[q][n] \in Open /\ Registered(q, n)
  BY DEF Reconciled
<1>4. \A q \in Reqs : Reconciled(q) \in [Names -> WorkStates]
  BY <1>2 DEF Reconciled, WorkStates
<1>5. \A q \in Reqs, n \in Names :
        \/ work'[q][n] = work[q][n]
        \/ work'[q][n] = "connected" /\ work[q][n] \in Open /\ Registered(q, n)
  BY <1>1, <1>3
<1>6. work' \in [Reqs -> [Names -> WorkStates]]
  BY <1>1, <1>2, <1>4
<1>7. ASSUME NEW q \in S
      PROVE  ended(q) \in {"starting", "failed", "fulfilled"}
             /\ (ended(q) = "fulfilled" => \A n \in req[q].names : node[n].req = q => node[n].seen)
  <2>1. req[q].state = "starting" /\ ReqOK(q) /\ req[q].names \subseteq Names
    BY <1>2 DEF LaunchInv, ReqT
  <2>2. ended(q) \in {"starting", "failed", "fulfilled"}
    BY <2>1 DEF Finished
  <2>3. ASSUME ended(q) = "fulfilled", NEW n \in req[q].names, node[n].req = q PROVE node[n].seen
    <3>1. Reconciled(q)[n] \notin Open /\ Reconciled(q)[n] \notin Terminal /\ work[q][n] # "none"
      BY <2>1, <2>3 DEF Finished
    <3>2. Reconciled(q)[n] = "connected"
      BY <1>2, <1>3, <2>1, <3>1 DEF WorkStates
    <3> QED BY <1>3, <2>1, <2>3, <3>2 DEF ReqOK, Registered
  <2> QED BY <2>2, <2>3
<1> HIDE DEF ended
<1>8. ASSUME NEW q \in Reqs PROVE req'[q] \in ReqT /\ SameRequest(q)
  <2>0. req[q] \in ReqT
    BY <1>2
  <2>1. CASE q \notin S
    BY <1>1, <1>2, <2>1 DEF SameRequest
  <2>2. CASE q \in S /\ req[q].backend = "external"
    <3>1. req'[q] = A(q)
      BY <1>1, <2>2
    <3>2. /\ A(q) \in ReqT /\ A(q).backend = req[q].backend /\ A(q).names = req[q].names
          /\ A(q).token = req[q].token /\ A(q).state = ended(q)
      BY <1>7, <2>0, <2>2 DEF ReqT
    <3> HIDE DEF A
    <3> QED BY <1>1, <1>7, <2>2, <3>1, <3>2 DEF SameRequest
  <2>3. CASE q \in S /\ req[q].backend # "external"
    <3>1. req'[q] = B(q)
      BY <1>1, <2>3
    <3> DEFINE c == IF all(q) THEN "fulfilled" ELSE req[q].state
    <3>2. c \in {"starting", "fulfilled"} /\ (c = "fulfilled" => all(q))
      BY <2>3
    <3>3. B(q) = [req[q] EXCEPT !.state = c]
      BY <2>0 DEF ReqT
    <3> HIDE DEF c, B
    <3>4. /\ B(q) \in ReqT /\ B(q).backend = req[q].backend /\ B(q).names = req[q].names
          /\ B(q).token = req[q].token /\ B(q).state = c
      BY <2>0, <3>2, <3>3 DEF ReqT
    <3>5. all(q) => \A n \in req[q].names : node[n].seen
      BY DEF Registered
    <3> HIDE DEF all
    <3> QED BY <1>1, <2>3, <3>1, <3>2, <3>4, <3>5 DEF SameRequest
  <2> QED BY <2>1, <2>2, <2>3
<1>9. Typed'
  <2>1. req' \in [Reqs -> ReqT]
    BY <1>1, <1>8
  <2> QED BY <1>1, <1>6, <2>1 DEF LaunchInv, Typed
<1>10. ASSUME NEW q \in Reqs PROVE ReqOK(q)'
  <2>1. ReqOK(q) /\ SameRequest(q)
    BY <1>8 DEF LaunchInv
  <2>2. \A n \in Names : work[q][n] \in Open => work[q][n] \in {"pending", "submitting", "submitted"}
    BY DEF Open
  <2> QED BY <1>1, <1>5, <2>1, <2>2 DEF ReqOK, SameRequest, Registered
<1>11. ASSUME NEW n \in Names PROVE NodeOK(n)'
  BY <1>1 DEF LaunchInv, NodeOK
<1>12. ASSUME NEW l \in Launchers PROVE LauncherOK(l)'
  <2>1. LauncherOK(l) /\ lch[l] \in LchT
    BY DEF LaunchInv, Typed
  <2>2. lch[l].pc # "idle" => lch[l].q \in Reqs /\ SameRequest(lch[l].q) /\ req[lch[l].q].names \subseteq Names
    BY <1>2, <1>8, <2>1 DEF LauncherOK, ReqT
  <2> QED BY <1>1, <1>5, <2>1, <2>2 DEF LauncherOK, SameRequest, Critical, Open, LchT
<1>13. LaunchersApart'
  BY <1>1 DEF LaunchInv, LaunchersApart, Critical
<1>14. LocalOK'
  <2>1. UNCHANGED starts /\ local' = local
    BY <1>1
  <2> QED BY <1>8, <2>1, LocalKept
<1> QED BY <1>9, <1>10, <1>11, <1>12, <1>13, <1>14 DEF LaunchInv

\* A new token is none of those in use.
LEMMA TokenNew ==
  ASSUME NEW q \in Reqs, FreshTokens(q) # {}
  PROVE  /\ NewToken(q) \in 0 .. MaxTokens /\ NewToken(q) # req[q].token
         /\ \A k \in Launchers : lch[k].tok # NewToken(q)
<1>1. NewToken(q) \in FreshTokens(q)
  BY DEF NewToken
<1>2. \A t \in FreshTokens(q) : t \in 0 .. MaxTokens /\ t # req[q].token /\ \A k \in Launchers : lch[k].tok # t
  BY DEF FreshTokens
<1> QED BY <1>1, <1>2

\* A claim: a fresh token, so that every older reading of the request is void.
LEMMA ClaimKept ==
  ASSUME LaunchAssumption, LaunchInv, NEW l \in Launchers, NEW q \in Reqs, Claim(l, q)
  PROVE  LaunchInv'
<1> DEFINE rows == [n \in Names |-> IF n \in req[q].names /\ work[q][n] = "none" THEN "pending" ELSE work[q][n]]
           r == [req[q] EXCEPT !.state = "starting", !.leased = TRUE, !.token = NewToken(q)]
           todo == {n \in req[q].names : rows[n] \in Open}
           view == [n \in Names |-> IF Registered(q, n) THEN "registered" ELSE rows[n]]
           s == [pc |-> "work", q |-> q, tok |-> NewToken(q), cur |-> None, dep |-> bound,
                 todo |-> todo, view |-> view]
<1>1. /\ req \in [Reqs -> ReqT] /\ work \in [Reqs -> [Names -> WorkStates]] /\ lch \in [Launchers -> LchT]
      /\ req[q] \in ReqT /\ ReqOK(q) /\ bound \in 0 .. MaxDeployments /\ req[q].names \subseteq Names
  BY DEF LaunchInv, Typed, ReqT
<1>0. /\ NewToken(q) \in 0 .. MaxTokens /\ NewToken(q) # req[q].token
      /\ \A k \in Launchers : lch[k].tok # NewToken(q)
  <2>1. FreshTokens(q) # {}
    BY DEF Claim
  <2> QED BY <2>1, TokenNew
<1>2. /\ work' = [work EXCEPT ![q] = rows] /\ req' = [req EXCEPT ![q] = r] /\ lch' = [lch EXCEPT ![l] = s]
      /\ UNCHANGED <<job, starts, node, local, bound>>
      /\ lch[l].pc = "idle" /\ req[q].backend = "external" /\ req[q].state \in {"pending", "starting"}
  BY <1>1 DEF Claim, Claimable
<1>3. rows \in [Names -> WorkStates]
  BY <1>1 DEF WorkStates, Open
<1>4. /\ r \in ReqT /\ r.backend = "external" /\ r.names = req[q].names /\ r.token = NewToken(q)
      /\ r.state = "starting"
  BY <1>0, <1>1, <1>2 DEF ReqT
<1>5. view \in [Names -> WorkStates \cup {"registered"}] /\ todo \subseteq req[q].names
  BY <1>3
<1>6. \A n \in Names : view[n] = "pending" => rows[n] = "pending"
  OBVIOUS
<1>7. /\ s \in LchT /\ s.pc = "work" /\ s.q = q /\ s.tok = NewToken(q) /\ s.todo = todo /\ s.view = view
  <2> HIDE DEF todo, view
  <2> QED BY <1>0, <1>1, <1>5 DEF LchT
<1>8. \A n \in Names : \/ rows[n] = work[q][n]
                       \/ rows[n] = "pending" /\ work[q][n] = "none"
  OBVIOUS
<1>9. \A n \in req[q].names : rows[n] # "none"
  BY <1>1
<1> HIDE DEF rows, r, todo, view, s
<1>10. /\ \A p \in Reqs : req'[p] = IF p = q THEN r ELSE req[p]
       /\ \A p \in Reqs : work'[p] = IF p = q THEN rows ELSE work[p]
       /\ \A k \in Launchers : lch'[k] = IF k = l THEN s ELSE lch[k]
  BY <1>1, <1>2
<1>11. Typed'
  BY <1>1, <1>2, <1>3, <1>4, <1>7 DEF LaunchInv, Typed
<1>12. ASSUME NEW p \in Reqs PROVE ReqOK(p)'
  <2>1. ReqOK(p)
    BY DEF LaunchInv
  <2>2. CASE p = q
    BY <1>2, <1>4, <1>8, <1>10, <2>1, <2>2 DEF ReqOK
  <2>3. CASE p # q
    BY <1>2, <1>10, <2>1, <2>3 DEF ReqOK
  <2> QED BY <2>2, <2>3
<1>13. ASSUME NEW n \in Names PROVE NodeOK(n)'
  BY <1>2 DEF LaunchInv, NodeOK
<1>14. ASSUME NEW k \in Launchers PROVE LauncherOK(k)'
  <2>1. CASE k = l
    BY <1>1, <1>4, <1>5, <1>6, <1>7, <1>9, <1>10, <2>1 DEF LauncherOK, Critical
  <2>2. CASE k # l
    <3>1. LauncherOK(k) /\ lch'[k] = lch[k] /\ lch[k] \in LchT
      BY <1>1, <1>10, <2>2 DEF LaunchInv
    <3>2. CASE lch[k].pc # "idle" /\ lch[k].q = q
      <4>1. lch[k].todo \subseteq req[q].names
        BY <3>1, <3>2 DEF LauncherOK
      <4>2. lch[k].tok # r.token
        BY <1>0, <1>4
      <4>3. lch[k].pc = "sbatch" => starts[q][lch[k].cur] = 0 /\ rows[lch[k].cur] \notin {"none", "pending"}
        BY <1>1, <1>8, <3>1, <3>2, <4>1 DEF LauncherOK, Critical
      <4> QED BY <1>2, <1>4, <1>9, <1>10, <3>1, <3>2, <4>1, <4>2, <4>3 DEF LauncherOK, Critical
    <3>3. CASE lch[k].pc # "idle" /\ lch[k].q # q
      BY <1>2, <1>10, <3>1, <3>3 DEF LauncherOK, Critical
    <3> QED BY <3>1, <3>2, <3>3 DEF LauncherOK
  <2> QED BY <2>1, <2>2
<1>15. LaunchersApart'
  <2>1. \A k \in Launchers : lch[k].pc # "idle" /\ lch[k].q = q => lch[k].tok # s.tok
    BY <1>0, <1>7
  <2> QED BY <1>7, <1>10, <2>1 DEF LaunchInv, LaunchersApart, Critical
<1>16. LocalOK'
  BY <1>2, <1>10 DEF LaunchInv, LocalOK
<1> QED BY <1>11, <1>12, <1>13, <1>14, <1>15, <1>16 DEF LaunchInv

\* An operator's reset: nobody is inside the guard, nothing was started, and the new token
\* voids what launchers have read.
LEMMA ResetSubmissionKept ==
  ASSUME LaunchAssumption, LaunchInv, NEW q \in Reqs, NEW n \in Names, ResetSubmission(q, n)
  PROVE  LaunchInv'
<1> DEFINE rows == [work[q] EXCEPT ![n] = "pending"]
           r == [req[q] EXCEPT !.token = NewToken(q)]
<1>1. /\ req \in [Reqs -> ReqT] /\ work \in [Reqs -> [Names -> WorkStates]] /\ lch \in [Launchers -> LchT]
      /\ req[q] \in ReqT /\ ReqOK(q) /\ req[q].names \subseteq Names
  BY DEF LaunchInv, Typed, ReqT
<1>0. /\ NewToken(q) \in 0 .. MaxTokens /\ NewToken(q) # req[q].token
      /\ \A k \in Launchers : lch[k].tok # NewToken(q)
  <2>1. FreshTokens(q) # {}
    BY DEF ResetSubmission
  <2> QED BY <2>1, TokenNew
<1>2. /\ work' = [work EXCEPT ![q] = rows] /\ req' = [req EXCEPT ![q] = r]
      /\ UNCHANGED <<job, starts, node, lch, local, bound>>
      /\ req[q].backend = "external" /\ req[q].state \in {"pending", "starting"}
      /\ work[q][n] = "submitting" /\ job[q][n].state = "none"
  BY <1>1 DEF ResetSubmission
<1>3. \A k \in Launchers : ~Critical(k)
  BY DEF ResetSubmission, GuardFree, Critical
<1>4. rows \in [Names -> WorkStates] /\ \A m \in Names : rows[m] = IF m = n THEN "pending" ELSE work[q][m]
  BY <1>1 DEF WorkStates, Open
<1>5. /\ r \in ReqT /\ r.backend = req[q].backend /\ r.names = req[q].names /\ r.token = NewToken(q)
      /\ r.state = req[q].state
  BY <1>0, <1>1 DEF ReqT
<1> HIDE DEF rows, r
<1>6. /\ \A p \in Reqs : req'[p] = IF p = q THEN r ELSE req[p]
      /\ \A p \in Reqs : work'[p] = IF p = q THEN rows ELSE work[p]
  BY <1>1, <1>2
<1>7. Typed'
  BY <1>1, <1>2, <1>4, <1>5 DEF LaunchInv, Typed
<1>8. ASSUME NEW p \in Reqs PROVE ReqOK(p)'
  <2>1. ReqOK(p)
    BY DEF LaunchInv
  <2>2. CASE p = q
    BY <1>2, <1>4, <1>5, <1>6, <2>1, <2>2 DEF ReqOK
  <2>3. CASE p # q
    BY <1>2, <1>6, <2>1, <2>3 DEF ReqOK
  <2> QED BY <2>2, <2>3
<1>9. ASSUME NEW m \in Names PROVE NodeOK(m)'
  BY <1>2 DEF LaunchInv, NodeOK
<1>10. ASSUME NEW k \in Launchers PROVE LauncherOK(k)'
  <2>1. LauncherOK(k) /\ lch[k] \in LchT /\ ~Critical(k)
    BY <1>1, <1>3 DEF LaunchInv
  <2>2. CASE lch[k].pc # "idle" /\ lch[k].q = q
    <3>1. lch[k].todo \subseteq req[q].names
      BY <2>1, <2>2 DEF LauncherOK
    <3>2. lch[k].tok # r.token
      BY <1>0, <1>5
    <3>3. \A m \in req[q].names : rows[m] # "none"
      BY <1>1, <1>4, <2>1, <2>2 DEF LauncherOK
    <3> QED BY <1>2, <1>5, <1>6, <2>1, <2>2, <3>1, <3>2, <3>3 DEF LauncherOK, Critical
  <2>3. CASE lch[k].pc # "idle" /\ lch[k].q # q
    BY <1>2, <1>6, <2>1, <2>3 DEF LauncherOK, Critical
  <2>4. CASE lch[k].pc = "idle"
    BY <1>2, <2>4 DEF LauncherOK
  <2> QED BY <2>2, <2>3, <2>4
<1>11. LaunchersApart'
  BY <1>2 DEF LaunchInv, LaunchersApart, Critical
<1>12. LocalOK'
  BY <1>2, <1>6 DEF LaunchInv, LocalOK
<1> QED BY <1>7, <1>8, <1>9, <1>10, <1>11, <1>12 DEF LaunchInv

-----------------------------------------------------------------------------
(* The pass of a launcher over the workers of its claim.                   *)

\* What an accepted update does: the token is the current one, and one worker's state
\* changes, to one that says that a submission was intended.
LEMMA UpdateDoes ==
  ASSUME LaunchAssumption, LaunchInv, NEW l \in Launchers, lch[l].pc # "idle", NEW n \in lch[l].todo,
         NEW state \in {"connected", "submitting", "submitted", "failed"}, Update(l, n, state),
         UNCHANGED node
  PROVE  /\ lch[l].tok = req[lch[l].q].token
         /\ req' \in [Reqs -> ReqT] /\ work' \in [Reqs -> [Names -> WorkStates]]
         /\ \A p \in Reqs : SameRequest(p)
         /\ \A p \in Reqs, m \in Names : p # lch[l].q \/ m # n => work'[p][m] = work[p][m]
         /\ work'[lch[l].q][n] \in {state, "connected"}
         /\ work'[lch[l].q][n] = "connected" =>
              work[lch[l].q][n] = "connected" \/ Registered(lch[l].q, n)
         /\ Allowed(work[lch[l].q][n], work'[lch[l].q][n])
         /\ work[lch[l].q][n] = "connected" => work'[lch[l].q][n] = "connected"
<1> DEFINE q == lch[l].q
           s == Recorded(work[q][n], state)
           ws == [work[q] EXCEPT ![n] = s]
           fin == Finished(req[q], ws, TRUE)
           r == [req[q] EXCEPT !.state = fin]
<1>1. /\ req \in [Reqs -> ReqT] /\ work \in [Reqs -> [Names -> WorkStates]] /\ q \in Reqs /\ req[q] \in ReqT
      /\ n \in req[q].names /\ n \in Names /\ LauncherOK(l) /\ ReqOK(q)
  BY DEF LaunchInv, LauncherOK, Typed, ReqT
<1>2. /\ work' = [work EXCEPT ![q] = ws] /\ req' = [req EXCEPT ![q] = r] /\ Owns(l) /\ Allowed(work[q][n], s)
      /\ s = "connected" => Registered(q, n)
  BY <1>1 DEF Update
<1>3. s \in {state, "connected"} /\ (s = "connected" => work[q][n] = "connected" \/ Registered(q, n))
      /\ s \in WorkStates
  BY <1>2 DEF Recorded, WorkStates, Open, Terminal
<1>4. work[q][n] = "connected" => s = "connected"
  BY <1>2 DEF Recorded, Allowed, Terminal
<1> HIDE DEF s
<1>5. ws \in [Names -> WorkStates] /\ \A m \in Names : ws[m] = IF m = n THEN s ELSE work[q][m]
  BY <1>1, <1>3
<1> HIDE DEF ws
<1>6. \A p \in Reqs : work'[p] = IF p = q THEN ws ELSE work[p]
  BY <1>1, <1>2
<1>7. work' \in [Reqs -> [Names -> WorkStates]]
  BY <1>1, <1>2, <1>5
<1>8. req[q].state \in {"starting", "fulfilled", "failed"} /\ lch[l].tok = req[q].token
  BY <1>2 DEF Owns
<1>9. fin = req[q].state \/ (fin \in {"failed", "fulfilled"} /\
        (fin = "fulfilled" => \A m \in req[q].names : node[m].req = q => node[m].seen))
  <2>1. CASE \E m \in req[q].names : ws[m] \in Open
    BY <2>1 DEF Finished
  <2>2. CASE ~\E m \in req[q].names : ws[m] \in Open
    <3>1. fin \in {"failed", "fulfilled"}
      BY <2>2 DEF Finished
    <3>2. ASSUME fin = "fulfilled", NEW m \in req[q].names, node[m].req = q PROVE node[m].seen
      <4>1. ws[m] \notin Open /\ ws[m] \notin Terminal /\ m \in Names
        BY <1>1, <2>2, <3>2 DEF Finished, ReqT
      <4>2. work[q][m] # "none"
        BY <1>1 DEF LauncherOK
      <4>3. s # "none"
        BY <1>3
      <4>4. ws[m] = "connected"
        BY <1>5, <4>1, <4>2, <4>3 DEF WorkStates
      <4> QED BY <1>1, <1>3, <1>5, <3>2, <4>1, <4>4 DEF ReqOK, Registered
    <3> QED BY <3>1, <3>2
  <2> QED BY <2>1, <2>2
<1> HIDE DEF fin
<1>10. /\ r \in ReqT /\ r.backend = req[q].backend /\ r.names = req[q].names /\ r.token = req[q].token
       /\ r.state = fin
  BY <1>1, <1>9 DEF ReqT
<1> HIDE DEF r
<1>11. req' \in [Reqs -> ReqT]
  BY <1>1, <1>2, <1>10
<1>12. \A p \in Reqs : SameRequest(p)
  BY <1>1, <1>2, <1>8, <1>9, <1>10 DEF SameRequest
<1> QED BY <1>1, <1>2, <1>3, <1>4, <1>5, <1>6, <1>7, <1>8, <1>11, <1>12

\* An accepted update keeps the invariant if its launcher goes on rightly: nobody else
\* holds the current token.
LEMMA UpdateKept ==
  ASSUME LaunchAssumption, LaunchInv, NEW l \in Launchers, lch[l].pc # "idle", NEW n \in lch[l].todo,
         NEW state \in {"connected", "submitting", "submitted", "failed"}, Update(l, n, state),
         UNCHANGED <<job, starts, node, local, bound>>,
         NEW s \in LchT, lch' = [lch EXCEPT ![l] = s], s.q = lch[l].q, s.tok = lch[l].tok, s.pc # "idle",
         s.pc \in {"intent", "sbatch", "receipt"} => Critical(l), LauncherOK(l)'
  PROVE  LaunchInv'
<1> DEFINE q == lch[l].q
<1>1. /\ lch[l].tok = req[q].token
      /\ req' \in [Reqs -> ReqT] /\ work' \in [Reqs -> [Names -> WorkStates]]
      /\ \A p \in Reqs : SameRequest(p)
      /\ \A p \in Reqs, m \in Names : p # q \/ m # n => work'[p][m] = work[p][m]
      /\ work'[q][n] \in {state, "connected"}
      /\ work'[q][n] = "connected" => work[q][n] = "connected" \/ Registered(q, n)
  BY UpdateDoes
<1>2. q \in Reqs /\ n \in Names /\ lch \in [Launchers -> LchT] /\ req \in [Reqs -> ReqT]
  BY DEF LaunchInv, LauncherOK, Typed, ReqT
<1> HIDE DEF q
<1>3. Typed'
  BY <1>1, <1>2 DEF LaunchInv, Typed
<1>4. ASSUME NEW p \in Reqs PROVE ReqOK(p)'
  <2>1. ReqOK(p) /\ SameRequest(p)
    BY <1>1 DEF LaunchInv
  <2>2. CASE p # q
    <3>1. \A m \in Names : work'[p][m] = work[p][m]
      BY <1>1, <2>2
    <3>2. job' = job /\ starts' = starts /\ node' = node
      OBVIOUS
    <3> QED BY <2>1, <3>1, <3>2 DEF ReqOK, SameRequest
  <2>3. CASE p = q
    <3>1. req[q].state # "none" /\ req[q].backend = "external"
      BY <2>3 DEF LaunchInv, LauncherOK, q
    <3>2. work'[q][n] \notin {"none", "pending"}
      BY <1>1
    <3>3. req'[q].state # "none"
      BY <2>1, <2>3, <3>1 DEF SameRequest
    <3> QED BY <1>1, <1>2, <2>1, <2>3, <3>1, <3>2, <3>3 DEF ReqOK, SameRequest, Registered
  <2> QED BY <2>2, <2>3
<1>5. ASSUME NEW m \in Names PROVE NodeOK(m)'
  BY DEF LaunchInv, NodeOK
<1>6. ASSUME NEW k \in Launchers PROVE LauncherOK(k)'
  <2>1. CASE k = l
    BY <2>1
  <2>2. CASE k # l
    <3>1. LauncherOK(k) /\ lch'[k] = lch[k] /\ lch[k] \in LchT
      BY <1>2, <2>2 DEF LaunchInv
    <3>2. CASE lch[k].pc # "idle" /\ lch[k].q = q
      <4>1. SameRequest(q) /\ lch[k].todo \subseteq req[q].names /\ req[q].names \subseteq Names
        BY <1>1, <1>2, <3>1, <3>2 DEF LauncherOK, ReqT
      <4>2. lch[k].tok # req[q].token
        BY <1>1, <2>2, <3>2 DEF LaunchInv, LaunchersApart, q
      <4>3. \A m \in req[q].names : work'[q][m] # "none"
        BY <1>1, <1>2, <3>1, <3>2, <4>1 DEF LauncherOK
      <4>4. lch[k].pc = "sbatch" => work'[q][lch[k].cur] \notin {"none", "pending"}
        BY <1>1, <1>2, <3>1, <3>2, <4>1 DEF LauncherOK, Critical
      <4> QED BY <3>1, <3>2, <4>1, <4>2, <4>3, <4>4 DEF LauncherOK, Critical, SameRequest
    <3>3. CASE lch[k].pc # "idle" /\ lch[k].q # q
      <4>1. lch[k].q \in Reqs /\ SameRequest(lch[k].q) /\ req[lch[k].q].names \subseteq Names
        BY <1>1, <1>2, <3>1, <3>3 DEF LauncherOK, ReqT
      <4>2. \A m \in Names : work'[lch[k].q][m] = work[lch[k].q][m]
        BY <1>1, <3>3, <4>1
      <4>3. starts' = starts /\ (Critical(k)' <=> Critical(k))
        BY <3>1 DEF Critical
      <4>4. /\ req'[lch[k].q].backend = "external" /\ req'[lch[k].q].state # "none"
            /\ lch[k].todo \subseteq req'[lch[k].q].names
            /\ req'[lch[k].q].names \subseteq Names /\ req'[lch[k].q].token = req[lch[k].q].token
        BY <3>1, <3>3, <4>1 DEF LauncherOK, SameRequest
      <4>5. \A m \in req'[lch[k].q].names : work'[lch[k].q][m] # "none"
        BY <3>1, <3>3, <4>1, <4>2 DEF LauncherOK, SameRequest
      <4>6. /\ Critical(k) => lch[k].cur \in lch[k].todo
            /\ lch[k].pc = "intent" => lch[k].view[lch[k].cur] = "pending"
            /\ lch[k].pc = "sbatch" => /\ starts'[lch[k].q][lch[k].cur] = 0
                                       /\ work'[lch[k].q][lch[k].cur] \notin {"none", "pending"}
        BY <3>1, <3>3, <4>1, <4>2, <4>3 DEF LauncherOK, Critical
      <4>7. lch[k].tok = req'[lch[k].q].token =>
              \A m \in lch[k].todo : lch[k].view[m] = "pending" =>
                \/ work'[lch[k].q][m] \in {"pending", "connected"}
                \/ m = lch[k].cur /\ lch[k].pc \in {"sbatch", "receipt"}
        BY <3>1, <3>3, <4>1, <4>2, <4>4 DEF LauncherOK
      <4> QED BY <3>1, <4>1, <4>3, <4>4, <4>5, <4>6, <4>7 DEF LauncherOK
    <3> QED BY <3>1, <3>2, <3>3 DEF LauncherOK
  <2> QED BY <2>1, <2>2
<1>7. LaunchersApart'
  <2>1. \A k \in Launchers : lch'[k] = IF k = l THEN s ELSE lch[k]
    BY <1>2
  <2> QED BY <2>1 DEF LaunchInv, LaunchersApart, Critical
<1>8. LocalOK'
  BY <1>1, LocalKept
<1> QED BY <1>3, <1>4, <1>5, <1>6, <1>7, <1>8 DEF LaunchInv

\* A launcher goes on within its pass without a statement.
LEMMA PassKept ==
  ASSUME LaunchAssumption, LaunchInv, NEW l \in Launchers, UNCHANGED <<req, work, job, starts, node, local, bound>>,
         NEW s \in LchT, lch' = [lch EXCEPT ![l] = s], LauncherOK(l)',
         lch[l].pc # "idle", s.q = lch[l].q, s.tok = lch[l].tok,
         s.pc \in {"intent", "sbatch", "receipt"} => \A k \in Launchers \ {l} : ~Critical(k)
  PROVE  LaunchInv'
<1>1. lch \in [Launchers -> LchT]
  BY DEF LaunchInv, Typed
<1>2. \A k \in Launchers : lch'[k] = IF k = l THEN s ELSE lch[k]
  BY <1>1
<1>3. Typed'
  BY <1>1 DEF LaunchInv, Typed
<1>4. ASSUME NEW q \in Reqs PROVE ReqOK(q)'
  BY DEF LaunchInv, ReqOK
<1>5. ASSUME NEW n \in Names PROVE NodeOK(n)'
  BY DEF LaunchInv, NodeOK
<1>6. ASSUME NEW k \in Launchers PROVE LauncherOK(k)'
  <2>1. CASE k # l
    BY <1>2, <2>1 DEF LaunchInv, LauncherOK, Critical
  <2> QED BY <2>1
<1>7. LaunchersApart'
  BY <1>2 DEF LaunchInv, LaunchersApart, Critical
<1>8. LocalOK'
  BY DEF LaunchInv, LocalOK
<1> QED BY <1>3, <1>4, <1>5, <1>6, <1>7, <1>8 DEF LaunchInv

LEMMA VisitKept ==
  ASSUME LaunchAssumption, LaunchInv, NEW l \in Launchers, NEW n \in Names, Visit(l, n)
  PROVE  LaunchInv'
<1> DEFINE q == lch[l].q
           st == lch[l].view[n]
           state == CASE st = "registered" -> "connected"
                      [] st = "submitting" -> "submitted"
                      [] OTHER -> "failed"
           a == [lch[l] EXCEPT !.pc = "intent", !.cur = n]
           b == [lch[l] EXCEPT !.todo = @ \ {n}]
           c == [lch[l] EXCEPT !.view = [lch[l].view EXCEPT ![n] = "submitted"]]
<1>1. /\ lch[l].pc = "work" /\ n \in lch[l].todo /\ UNCHANGED <<job, starts, node, local, bound>>
      /\ lch \in [Launchers -> LchT] /\ lch[l] \in LchT /\ LauncherOK(l) /\ req \in [Reqs -> ReqT]
      /\ work \in [Reqs -> [Names -> WorkStates]]
  BY DEF Visit, LaunchInv, Typed
<1>2. state \in {"connected", "submitting", "submitted", "failed"}
  OBVIOUS
<1>3. \/ st = "pending" /\ GuardFree /\ lch' = [lch EXCEPT ![l] = a] /\ UNCHANGED <<req, work>>
      \/ Abandon(l)
      \/ st # "pending" /\ Update(l, n, state) /\ (lch' = [lch EXCEPT ![l] = b] \/ lch' = [lch EXCEPT ![l] = c])
      \/ lch' = [lch EXCEPT ![l] = b] /\ UNCHANGED <<req, work>>
  <2>1. [lch EXCEPT ![l].pc = "intent", ![l].cur = n] = [lch EXCEPT ![l] = a]
    BY <1>1
  <2>2. [lch EXCEPT ![l].todo = @ \ {n}] = [lch EXCEPT ![l] = b]
    BY <1>1
  <2>3. [lch EXCEPT ![l].view[n] = "submitted"] = [lch EXCEPT ![l] = c]
    BY <1>1
  <2> HIDE DEF a, b, c
  <2> QED BY <2>1, <2>2, <2>3 DEF Visit, Submits
<1> HIDE DEF state
<1>4. a \in LchT /\ a.q = q /\ a.tok = lch[l].tok /\ a.pc = "intent" /\ a.cur = n
      /\ a.todo = lch[l].todo /\ a.view = lch[l].view
  BY <1>1 DEF LchT
<1>5. b \in LchT /\ b.q = q /\ b.tok = lch[l].tok /\ b.pc = "work" /\ b.todo = lch[l].todo \ {n} /\ b.view = lch[l].view
  BY <1>1 DEF LchT
<1>6. c \in LchT /\ c.q = q /\ c.tok = lch[l].tok /\ c.pc = "work" /\ c.todo = lch[l].todo
      /\ \A m \in Names : c.view[m] = IF m = n THEN "submitted" ELSE lch[l].view[m]
  <2>1. [lch[l].view EXCEPT ![n] = "submitted"] \in [Names -> WorkStates \cup {"registered"}]
    BY <1>1 DEF LchT, WorkStates, Open
  <2> QED BY <1>1, <2>1 DEF LchT
<1> HIDE DEF a, b, c
<1>7. CASE st = "pending" /\ GuardFree /\ lch' = [lch EXCEPT ![l] = a] /\ UNCHANGED <<req, work>>
  <2>1. lch'[l] = a
    BY <1>1, <1>7
  <2>2. LauncherOK(l)'
    BY <1>1, <1>4, <1>7, <2>1 DEF LauncherOK, Critical
  <2>3. \A k \in Launchers \ {l} : ~Critical(k)
    BY <1>7 DEF GuardFree, Critical
  <2> QED BY <1>1, <1>4, <1>7, <2>2, <2>3, PassKept
<1>8. CASE Abandon(l)
  BY <1>1, <1>8, AbandonKept
<1>9. CASE lch' = [lch EXCEPT ![l] = b] /\ UNCHANGED <<req, work>>
  <2>1. lch'[l] = b
    BY <1>1, <1>9
  <2>2. LauncherOK(l)'
    BY <1>1, <1>5, <1>9, <2>1 DEF LauncherOK, Critical
  <2> QED BY <1>1, <1>5, <1>9, <2>2, PassKept
<1>10. ASSUME st # "pending", Update(l, n, state), NEW s \in {b, c}, lch' = [lch EXCEPT ![l] = s] PROVE LaunchInv'
  <2>1. /\ s \in LchT /\ s.q = q /\ s.tok = lch[l].tok /\ s.pc = "work" /\ s.todo \subseteq lch[l].todo
        /\ \A m \in s.todo : s.view[m] = "pending" => lch[l].view[m] = "pending" /\ m # n
    BY <1>1, <1>5, <1>6, <1>10 DEF LchT
  <2>2. /\ \A p \in Reqs : SameRequest(p)
        /\ \A p \in Reqs, m \in Names : p # q \/ m # n => work'[p][m] = work[p][m]
        /\ work'[q][n] \in {state, "connected"}
    BY <1>1, <1>2, <1>10, UpdateDoes
  <2>3. lch'[l] = s
    BY <1>1, <1>10
  <2>4. LauncherOK(l)'
    <3>1. q \in Reqs /\ req[q].names \subseteq Names /\ lch[l].todo \subseteq req[q].names
      BY <1>1 DEF LauncherOK, ReqT
    <3>2. \A m \in req[q].names : work'[q][m] # "none"
      BY <1>1, <1>2, <2>2, <3>1 DEF LauncherOK
    <3>3. \A m \in s.todo : s.view[m] = "pending" => work'[q][m] = work[q][m]
      BY <2>1, <2>2, <3>1
    <3>4. SameRequest(q)
      BY <2>2, <3>1
    <3> QED BY <1>1, <2>1, <2>3, <3>1, <3>2, <3>3, <3>4 DEF LauncherOK, Critical, SameRequest
  <2> QED BY <1>1, <1>2, <1>10, <2>1, <2>4, UpdateKept
<1> QED BY <1>3, <1>7, <1>8, <1>9, <1>10

\* The durable intent is accepted only of a worker that is pending still.
LEMMA IntendKept ==
  ASSUME LaunchAssumption, LaunchInv, NEW l \in Launchers, Intend(l)
  PROVE  LaunchInv'
<1> DEFINE q == lch[l].q
           n == lch[l].cur
           s == [lch[l] EXCEPT !.pc = "sbatch"]
<1>1. /\ lch[l].pc = "intent" /\ UNCHANGED <<job, starts, node, local, bound>>
      /\ lch \in [Launchers -> LchT] /\ lch[l] \in LchT /\ LauncherOK(l) /\ req \in [Reqs -> ReqT]
      /\ q \in Reqs /\ req[q].names \subseteq Names /\ ReqOK(q)
  BY DEF Intend, LaunchInv, LauncherOK, Typed, ReqT
<1>2. n \in lch[l].todo /\ n \in Names /\ lch[l].view[n] = "pending" /\ lch[l].todo \subseteq req[q].names
  BY <1>1 DEF LauncherOK, Critical
<1>3. CASE Abandon(l)
  BY <1>1, <1>3, AbandonKept
<1>4. CASE Update(l, n, "submitting") /\ lch' = [lch EXCEPT ![l] = s]
  <2>1. /\ s \in LchT /\ s.q = q /\ s.tok = lch[l].tok /\ s.pc = "sbatch" /\ s.cur = n /\ s.todo = lch[l].todo
        /\ s.view = lch[l].view
    BY <1>1 DEF LchT
  <2> HIDE DEF s
  <2>2. /\ lch[l].tok = req[q].token /\ \A p \in Reqs : SameRequest(p)
        /\ \A p \in Reqs, m \in Names : p # q \/ m # n => work'[p][m] = work[p][m]
        /\ work'[q][n] \in {"submitting", "connected"}
        /\ Allowed(work[q][n], work'[q][n])
    BY <1>1, <1>2, <1>4, UpdateDoes
  <2>3. work[q][n] \in {"pending", "connected"}
    BY <1>1, <1>2, <2>2 DEF LauncherOK
  <2>4. work[q][n] = "pending"
    BY <1>4, <2>3 DEF Update, Recorded, Allowed, Terminal
  <2>5. starts[q][n] = 0
    BY <1>1, <1>2, <2>4 DEF ReqOK, LauncherOK
  <2>6. lch'[l] = s
    BY <1>1, <1>4
  <2>7. LauncherOK(l)'
    <3>1. \A m \in req[q].names : work'[q][m] # "none"
      BY <1>1, <2>2 DEF LauncherOK
    <3>2. \A m \in lch[l].todo \ {n} : work'[q][m] = work[q][m]
      BY <1>1, <1>2, <2>2
    <3>3. SameRequest(q)
      BY <1>1, <2>2
    <3>4. \A m \in s.todo : s.view[m] = "pending" /\ s.tok = req'[q].token =>
            work'[q][m] \in {"pending", "connected"} \/ m = s.cur
      BY <1>1, <1>2, <2>1, <2>2, <3>2, <3>3 DEF LauncherOK, SameRequest
    <3>5. /\ req'[q].backend = "external" /\ req'[q].state # "none" /\ req'[q].names = req[q].names
          /\ s.todo \subseteq req'[q].names
      BY <1>1, <1>2, <2>1, <3>3 DEF LauncherOK, SameRequest
    <3>6. starts'[q][s.cur] = 0 /\ work'[q][s.cur] \notin {"none", "pending"} /\ s.cur \in s.todo
      BY <1>1, <1>2, <2>1, <2>2, <2>5
    <3> QED BY <1>1, <2>1, <2>6, <3>1, <3>4, <3>5, <3>6 DEF LauncherOK
  <2> QED BY <1>1, <1>2, <1>4, <2>1, <2>7, UpdateKept DEF Critical
<1>5. [lch EXCEPT ![l].pc = "sbatch"] = [lch EXCEPT ![l] = s]
  BY <1>1
<1> QED BY <1>3, <1>4, <1>5 DEF Intend

\* The scheduler is contacted once for a submission that was intended.
LEMMA SbatchKept ==
  ASSUME LaunchAssumption, LaunchInv, NEW l \in Launchers, Sbatch(l)
  PROVE  LaunchInv'
<1> DEFINE q == lch[l].q
           n == lch[l].cur
           s == [lch[l] EXCEPT !.pc = "receipt"]
<1>1. /\ lch[l].pc = "sbatch" /\ UNCHANGED <<req, work, node, local, bound>> /\ Started(q, n, lch[l].dep)
      /\ lch \in [Launchers -> LchT] /\ lch[l] \in LchT /\ LauncherOK(l) /\ req \in [Reqs -> ReqT]
      /\ q \in Reqs /\ req[q].names \subseteq Names /\ lch[l].dep \in 0 .. MaxDeployments
  BY DEF Sbatch, LaunchInv, LauncherOK, Typed, ReqT, LchT
<1>2. /\ n \in lch[l].todo /\ lch[l].todo \subseteq req[q].names /\ starts[q][n] = 0
      /\ work[q][n] \notin {"none", "pending"} /\ req[q].backend = "external" /\ req[q].state # "none"
  BY <1>1 DEF LauncherOK, Critical
<1>3. lch' = [lch EXCEPT ![l] = s]
  BY <1>1 DEF Sbatch
<1>4. s \in LchT /\ s.q = q /\ s.tok = lch[l].tok /\ s.pc = "receipt" /\ s.cur = n /\ s.todo = lch[l].todo
      /\ s.view = lch[l].view
  BY <1>1 DEF LchT
<1> HIDE DEF s
<1>5. /\ job' \in [Reqs -> [Names -> JobT]] /\ starts' \in [Reqs -> [Names -> {0, 1}]]
      /\ \A p \in Reqs : ReqOK(p)'
      /\ \A m \in Names : NodeOK(m)'
      /\ \A p \in Reqs, m \in Names : p # q \/ m # n => starts'[p][m] = starts[p][m]
  <2>1. n \in req[q].names
    BY <1>2
  <2> HIDE DEF q, n
  <2> QED BY <1>1, <1>2, <2>1, StartedKept
<1>6. Typed'
  BY <1>1, <1>3, <1>4, <1>5 DEF LaunchInv, Typed
<1>7. \A k \in Launchers : lch'[k] = IF k = l THEN s ELSE lch[k]
  BY <1>1, <1>3
<1>8. ASSUME NEW k \in Launchers PROVE LauncherOK(k)'
  <2>1. CASE k = l
    BY <1>1, <1>4, <1>7, <2>1 DEF LauncherOK, Critical
  <2>2. CASE k # l
    <3>1. LauncherOK(k) /\ lch'[k] = lch[k]
      BY <1>7, <2>2 DEF LaunchInv
    <3>2. ~Critical(k)
      BY <1>1, <2>2 DEF LaunchInv, LaunchersApart, Critical
    <3> QED BY <1>1, <3>1, <3>2 DEF LauncherOK, Critical
  <2> QED BY <2>1, <2>2
<1>9. LaunchersApart'
  BY <1>1, <1>4, <1>7 DEF LaunchInv, LaunchersApart, Critical
<1>10. LocalOK'
  <2>1. local.pc # "idle" => local.q \in Reqs /\ local.q # q /\ local.todo \subseteq Names
    BY <1>1, <1>2 DEF LaunchInv, LocalOK, ReqT
  <2> QED BY <1>1, <1>5, <2>1 DEF LaunchInv, LocalOK
<1> QED BY <1>5, <1>6, <1>8, <1>9, <1>10 DEF LaunchInv

LEMMA ReceiptKept ==
  ASSUME LaunchAssumption, LaunchInv, NEW l \in Launchers, Receipt(l)
  PROVE  LaunchInv'
<1> DEFINE q == lch[l].q
           n == lch[l].cur
           s == [lch[l] EXCEPT !.pc = "work", !.todo = @ \ {n}, !.cur = None]
<1>1. /\ lch[l].pc = "receipt" /\ UNCHANGED <<job, starts, node, local, bound>>
      /\ lch \in [Launchers -> LchT] /\ lch[l] \in LchT /\ LauncherOK(l) /\ req \in [Reqs -> ReqT]
      /\ q \in Reqs /\ req[q].names \subseteq Names
  BY DEF Receipt, LaunchInv, LauncherOK, Typed, ReqT
<1>2. n \in lch[l].todo /\ n \in Names /\ lch[l].todo \subseteq req[q].names
  BY <1>1 DEF LauncherOK, Critical
<1>3. CASE Abandon(l)
  BY <1>1, <1>3, AbandonKept
<1>4. CASE Update(l, n, "submitted") /\ lch' = [lch EXCEPT ![l] = s]
  <2>1. /\ s \in LchT /\ s.q = q /\ s.tok = lch[l].tok /\ s.pc = "work" /\ s.todo = lch[l].todo \ {n}
        /\ s.view = lch[l].view
    BY <1>1 DEF LchT
  <2> HIDE DEF s
  <2>2. /\ lch[l].tok = req[q].token /\ \A p \in Reqs : SameRequest(p)
        /\ \A p \in Reqs, m \in Names : p # q \/ m # n => work'[p][m] = work[p][m]
        /\ work'[q][n] \in {"submitted", "connected"}
    BY <1>1, <1>2, <1>4, UpdateDoes
  <2>3. lch'[l] = s
    BY <1>1, <1>4
  <2>4. LauncherOK(l)'
    <3>1. \A m \in req[q].names : work'[q][m] # "none"
      BY <1>1, <2>2 DEF LauncherOK
    <3>2. \A m \in lch[l].todo \ {n} : work'[q][m] = work[q][m]
      BY <1>1, <1>2, <2>2
    <3>3. SameRequest(q)
      BY <1>1, <2>2
    <3> QED BY <1>1, <1>2, <2>1, <2>2, <2>3, <3>1, <3>2, <3>3 DEF LauncherOK, Critical, SameRequest
  <2> QED BY <1>1, <1>2, <1>4, <2>1, <2>4, UpdateKept
<1>5. [lch EXCEPT ![l].pc = "work", ![l].todo = @ \ {lch[l].cur}, ![l].cur = None] = [lch EXCEPT ![l] = s]
  BY <1>1
<1> QED BY <1>3, <1>4, <1>5 DEF Receipt

-----------------------------------------------------------------------------
(* The invariant and the theorems.                                         *)

LEMMA LaunchInvInit ==
  ASSUME LaunchAssumption, Init
  PROVE  LaunchInv
<1>1. Idle \in LchT /\ Idle.pc = "idle"
  BY IdleTyped
<1>2. NoReq \in ReqT
  <2> DEFINE C == 0 .. Cardinality(Names)
             T == 0 .. MaxTokens
  <2>1. ReqT = [state : {"none", "pending", "starting", "fulfilled", "failed", "canceled"},
                backend : {"external", "local"}, names : SUBSET Names,
                started : C, token : T, leased : BOOLEAN]
    BY DEF ReqT
  <2>2. 0 \in C /\ 0 \in T
    <3>1. Cardinality({}) \in 0 .. Cardinality(Names)
      BY CountTyped
    <3> QED BY <3>1, FS_EmptySet DEF LaunchAssumption
  <2> HIDE DEF C, T
  <2> QED BY <2>1, <2>2 DEF NoReq
<1>3. NoNode \in NodeT /\ [state |-> "none", dep |-> 0] \in JobT /\ 1 \in 1 .. MaxDeployments
  BY DEF NoNode, NodeT, JobT, LaunchAssumption
<1>4. Typed
  BY <1>1, <1>2, <1>3 DEF Init, Typed, WorkStates
<1>5. \A q \in Reqs : ReqOK(q)
  BY DEF Init, ReqOK, NoReq
<1>6. \A n \in Names : NodeOK(n)
  BY DEF Init, NodeOK, NoNode
<1>7. (\A l \in Launchers : LauncherOK(l)) /\ LaunchersApart /\ LocalOK
  BY <1>1 DEF Init, LauncherOK, LaunchersApart, LocalOK, Critical
<1> QED BY <1>4, <1>5, <1>6, <1>7 DEF LaunchInv

LEMMA LaunchInvStep ==
  ASSUME LaunchAssumption, LaunchInv, [Next]_vars
  PROVE  LaunchInv'
<1>1. ASSUME NEW q \in Reqs, NEW b \in {"external", "local"}, NEW S \in SUBSET Names, Reserve(q, b, S)
      PROVE  LaunchInv'
  BY <1>1, ReserveKept
<1>2. ASSUME NEW n \in Names, Suspend(n) \/ AssignSampler(n) \/ SpawnNode(n) \/ LeaseLapses(n)
      PROVE  LaunchInv'
  BY <1>2, SuspendKept, AssignSamplerKept, SpawnNodeKept, LeaseLapsesKept
<1>3. ASSUME NEW q \in Reqs, ClaimLocal(q) \/ LauncherLeaseExpires(q)
      PROVE  LaunchInv'
  BY <1>3, ClaimLocalKept, LauncherLeaseExpiresKept
<1>4. ASSUME NEW q \in Reqs, NEW n \in Names,
             EnqueueResumed(n, q) \/ ResetSubmission(q, n) \/ Announce(q, n) \/ JobEnds(q, n)
      PROVE  LaunchInv'
  BY <1>4, EnqueueResumedKept, ResetSubmissionKept, AnnounceKept, JobEndsKept
<1>5. ASSUME NEW l \in Launchers, NEW q \in Reqs, Claim(l, q)
      PROVE  LaunchInv'
  BY <1>5, ClaimKept
<1>6. ASSUME NEW l \in Launchers, NEW n \in Names, Visit(l, n)
      PROVE  LaunchInv'
  BY <1>6, VisitKept
<1>7. ASSUME NEW l \in Launchers, Intend(l) \/ Sbatch(l) \/ Receipt(l) \/ EndPass(l) \/ LauncherCrash(l)
      PROVE  LaunchInv'
  BY <1>7, IntendKept, SbatchKept, ReceiptKept, EndPassKept, LauncherCrashKept
<1>8. CASE ReconcileFulfilled \/ BindDeployment \/ MarkStarting \/ SpawnFails \/ LocalCrash
  BY <1>8, ReconcileFulfilledKept, BindDeploymentKept, MarkStartingKept, SpawnFailsKept, LocalCrashKept
<1>9. CASE UNCHANGED vars
  BY <1>9 DEF vars, LaunchInv, Typed, ReqOK, NodeOK, LauncherOK, LaunchersApart, LocalOK, Critical
<1> QED BY <1>1, <1>2, <1>3, <1>4, <1>5, <1>6, <1>7, <1>8, <1>9 DEF Next

LEMMA InvariantHolds ==
  ASSUME LaunchAssumption
  PROVE  Spec => []LaunchInv
<1>1. Init => LaunchInv
  BY LaunchInvInit
<1>2. LaunchInv /\ [Next]_vars => LaunchInv'
  BY LaunchInvStep
<1> QED BY <1>1, <1>2, PTL DEF Spec

\* Every variable has its type, and a live row is that of a running process.
THEOREM LaunchTyped ==
  ASSUME LaunchAssumption
  PROVE  Spec => []TypeOK
<1>1. LaunchInv => TypeOK
  <2> SUFFICES ASSUME LaunchInv PROVE TypeOK
    OBVIOUS
  <2>1. starts \in [Reqs -> [Names -> Nat]]
    BY DEF LaunchInv, Typed
  <2>2. \A n \in Names : node[n].up # None => job[node[n].up][n].state = "up"
    BY DEF LaunchInv, NodeOK
  <2> QED BY <2>1, <2>2 DEF LaunchInv, Typed, TypeOK, ReqT, JobT, NodeT, WorkStates
<1> QED BY <1>1, InvariantHolds, PTL

\* One process at most is started for a reservation, although sbatch and the database share
\* no transaction (claim_external_launch, update_external_worker, repair_submission).
THEOREM StartedOnce ==
  ASSUME LaunchAssumption
  PROVE  Spec => []OneJobPerReservation
<1>1. LaunchInv => OneJobPerReservation
  BY DEF LaunchInv, Typed, OneJobPerReservation
<1> QED BY <1>1, InvariantHolds, PTL

\* No live worker is of a deployment the database is not bound to (bind_deployment,
\* announce_node), whatever a superseded launcher still submits.
THEOREM DeploymentsSeparate ==
  ASSUME LaunchAssumption
  PROVE  Spec => []CohortsSeparate
<1>1. LaunchInv => CohortsSeparate
  BY DEF LaunchInv, NodeOK, CohortsSeparate
<1> QED BY <1>1, InvariantHolds, PTL

\* A request that is reported fulfilled had each of its workers connected
\* (reconcile_fulfilled_node_launch_requests, update_external_worker).
THEOREM FulfilledMeansConnected ==
  ASSUME LaunchAssumption
  PROVE  Spec => []FulfilledTruthful
<1>1. LaunchInv => FulfilledTruthful
  <2> SUFFICES ASSUME LaunchInv, NEW q \in Reqs, req[q].state = "fulfilled", NEW n \in req[q].names,
                      node[n].req = q
               PROVE  node[n].seen
    BY DEF FulfilledTruthful
  <2>1. n \in Names /\ ReqOK(q)
    BY DEF LaunchInv, Typed, ReqT
  <2> QED BY <2>1 DEF ReqOK
<1> QED BY <1>1, InvariantHolds, PTL

\* No step takes back that a worker connected: late receipts and late failures of slow or
\* superseded launchers leave it (update_external_worker).
THEOREM ConnectedForGood ==
  ASSUME LaunchAssumption
  PROVE  Spec => [][ConnectedStays]_vars
<1>1. LaunchInv /\ [Next]_vars => [ConnectedStays]_vars
  <2> SUFFICES ASSUME LaunchInv, Next, NEW q \in Reqs, NEW n \in Names, work[q][n] = "connected"
               PROVE  work'[q][n] = "connected"
    BY DEF ConnectedStays
  <2>0. req \in [Reqs -> ReqT] /\ work \in [Reqs -> [Names -> WorkStates]]
    BY DEF LaunchInv, Typed
  <2>1. CASE UNCHANGED work
    BY <2>1
  <2>2. ASSUME NEW p \in Reqs, NEW m \in Names, ResetSubmission(p, m) PROVE work'[q][n] = "connected"
    <3>1. work' = [work EXCEPT ![p] = [work[p] EXCEPT ![m] = "pending"]] /\ work[p][m] = "submitting"
      BY <2>0, <2>2 DEF ResetSubmission
    <3> QED BY <2>0, <3>1
  <2>3. ASSUME NEW l \in Launchers, NEW p \in Reqs, Claim(l, p) PROVE work'[q][n] = "connected"
    <3> DEFINE rows == [m \in Names |-> IF m \in req[p].names /\ work[p][m] = "none" THEN "pending" ELSE work[p][m]]
    <3>1. work' = [work EXCEPT ![p] = rows]
      BY <2>3 DEF Claim
    <3> QED BY <2>0, <3>1
  <2>4. ASSUME NEW l \in Launchers, lch[l].pc # "idle", NEW m \in lch[l].todo,
               NEW state \in {"connected", "submitting", "submitted", "failed"}, Update(l, m, state),
               UNCHANGED node
        PROVE  work'[q][n] = "connected"
    <3>1. /\ \A p \in Reqs, k \in Names : p # lch[l].q \/ k # m => work'[p][k] = work[p][k]
          /\ work[lch[l].q][m] = "connected" => work'[lch[l].q][m] = "connected"
      BY <2>4, UpdateDoes
    <3> QED BY <3>1
  <2>5. ASSUME NEW l \in Launchers, NEW m \in Names, Visit(l, m) PROVE work'[q][n] = "connected"
    <3> DEFINE st == lch[l].view[m]
               state == CASE st = "registered" -> "connected"
                          [] st = "submitting" -> "submitted"
                          [] OTHER -> "failed"
    <3>1. state \in {"connected", "submitting", "submitted", "failed"}
      OBVIOUS
    <3>2. UNCHANGED work \/ Update(l, m, state)
      BY <2>5 DEF Visit, Abandon
    <3>3. lch[l].pc # "idle" /\ m \in lch[l].todo /\ UNCHANGED node
      BY <2>5 DEF Visit
    <3> HIDE DEF state
    <3> QED BY <2>1, <2>4, <3>1, <3>2, <3>3
  <2>6. ASSUME NEW l \in Launchers, Intend(l) \/ Receipt(l) PROVE work'[q][n] = "connected"
    <3>1. lch[l].pc # "idle" /\ UNCHANGED node /\ lch[l].cur \in lch[l].todo
      BY <2>6 DEF Intend, Receipt, LaunchInv, LauncherOK, Critical
    <3>2. UNCHANGED work \/ Update(l, lch[l].cur, "submitting") \/ Update(l, lch[l].cur, "submitted")
      BY <2>6 DEF Intend, Receipt, Abandon
    <3> QED BY <2>1, <2>4, <3>1, <3>2
  <2>7. CASE ReconcileFulfilled
    <3>1. work'[q] = work[q] \/ work'[q] = Reconciled(q)
      BY <2>7 DEF ReconcileFulfilled
    <3> QED BY <3>1 DEF Reconciled, Open
  <2>8. ASSUME NEW l \in Launchers, Sbatch(l) \/ EndPass(l) \/ LauncherCrash(l) PROVE UNCHANGED work
    BY <2>8 DEF Sbatch, EndPass, Abandon, LauncherCrash
  <2>9. ASSUME NEW p \in Reqs, NEW m \in Names, EnqueueResumed(m, p) \/ Announce(p, m) \/ JobEnds(p, m)
        PROVE  UNCHANGED work
    BY <2>9 DEF EnqueueResumed, Announce, JobEnds
  <2>10. ASSUME NEW p \in Reqs, ClaimLocal(p) \/ LauncherLeaseExpires(p) PROVE UNCHANGED work
    BY <2>10 DEF ClaimLocal, LauncherLeaseExpires
  <2>11. ASSUME NEW m \in Names, Suspend(m) \/ AssignSampler(m) \/ SpawnNode(m) \/ LeaseLapses(m)
         PROVE  UNCHANGED work
    BY <2>11 DEF Suspend, AssignSampler, SpawnNode, LeaseLapses
  <2>12. ASSUME NEW p \in Reqs, NEW b \in {"external", "local"}, NEW S \in SUBSET Names, Reserve(p, b, S)
         PROVE  UNCHANGED work
    BY <2>12 DEF Reserve
  <2>13. CASE BindDeployment \/ MarkStarting \/ SpawnFails \/ LocalCrash
    BY <2>1, <2>13 DEF BindDeployment, MarkStarting, SpawnFails, LocalCrash
  <2> QED BY <2>1, <2>2, <2>3, <2>5, <2>6, <2>7, <2>8, <2>9, <2>10, <2>11, <2>12, <2>13 DEF Next
<1> QED BY <1>1, InvariantHolds, PTL DEF Spec

-----------------------------------------------------------------------------
(* The connection budget, as long as no live worker loses its lease.  A    *)
(* worker is charged from its reservation until it is gone: every process  *)
(* that can still announce itself is of a reservation that is charged.     *)

\* A process for the reservation will register: it is queued, or about to be started.
Due(q, n) ==
  \/ job[q][n].state = "queued" /\ job[q][n].dep = bound
  \/ \E l \in Launchers : lch[l].pc = "sbatch" /\ lch[l].q = q /\ lch[l].cur = n /\ lch[l].dep = bound
  \/ local.pc = "work" /\ local.q = q /\ n \in local.todo

\* What the tables say of it meanwhile.
Expected(q, n) ==
  IF req[q].backend = "external"
  THEN req[q].state = "starting" /\ work[q][n] \in {"submitting", "submitted"}
  ELSE req[q].state \in {"starting", "failed"}

\* The records of a request: it ends with all its workers, and waits for those that are due.
LedgerOK(q) ==
  /\ req[q].backend = "external" /\ req[q].state \in {"fulfilled", "failed"} =>
       \A n \in req[q].names : work[q][n] \in {"connected"} \cup Terminal
  /\ req[q].backend = "local" => \A n \in Names : work[q][n] = "none"
  /\ \A n \in Names : Due(q, n) => Expected(q, n)

\* Its processes and rows: a row moves on to another request when its process has ended.
JobsOK(q) ==
  /\ req[q].state = "none" => req[q].names = {}
  /\ \A n \in req[q].names : node[n].req # None /\ (node[n].req # q => job[q][n].state = "ended")
  /\ \A n \in Names :
       /\ job[q][n].state # "none" \/ node[n].req = q => n \in req[q].names
       /\ node[n].req = q /\ node[n].seen => job[q][n].state \in {"up", "ended"}
       /\ job[q][n].state = "up" => node[n].up = q
       /\ job[q][n].dep <= bound

\* A local launch is one that was claimed.
ClaimedOK == local.pc # "idle" => local.pc = "work" /\ req[local.q].state \in {"starting", "fulfilled"}

Admitted ==
  /\ \A q \in Reqs : JobsOK(q) /\ LedgerOK(q)
  /\ \A n \in Names : node[n].resume \/ node[n].up # None => node[n].seen
  /\ \A l \in Launchers : lch[l].dep <= bound
  /\ ClaimedOK
  /\ lapses = 0

\* The workers that the budget is charged for, and the samplers among them.
Charged(n) == (node[n].up # None \/ Awaits(node, n)) /\ ~Escaped(n)
Heavy(n)   == Charged(n) /\ node[n].sampler /\ ~Resumed(n)

Within(B, H) ==
  B # {} => PerWorker * Cardinality(B) + ExtraSampler * Cardinality(H) <= MaxConnections - PgReserved - Headroom

Budgeted == Within({n \in Names : Charged(n)}, {n \in Names : Heavy(n)})

LEMMA WithinFewer ==
  ASSUME LaunchAssumption, NEW B \in SUBSET Names, NEW H \in SUBSET Names, Within(B, H),
         NEW C \in SUBSET B, NEW K \in SUBSET H
  PROVE  Within(C, K)
<1>1. IsFiniteSet(B) /\ IsFiniteSet(H)
  BY FS_Subset DEF LaunchAssumption
<1>2. Cardinality(C) <= Cardinality(B) /\ Cardinality(K) <= Cardinality(H) /\ IsFiniteSet(C) /\ IsFiniteSet(K)
  BY <1>1, FS_Subset
<1>3. {Cardinality(B), Cardinality(C), Cardinality(H), Cardinality(K)} \subseteq Nat
  BY <1>1, <1>2, FS_CardinalityType
<1> DEFINE b == Cardinality(B) c == Cardinality(C) h == Cardinality(H) k == Cardinality(K)
<1>4. B # {} => 4 * b + 4 * h <= MaxConnections - PgReserved - 16
  BY DEF Within, PerWorker, ExtraSampler, Headroom
<1>5. C # {} => B # {}
  OBVIOUS
<1>6. b \in Nat /\ c \in Nat /\ h \in Nat /\ k \in Nat /\ c <= b /\ k <= h /\ MaxConnections \in Nat /\ PgReserved \in Nat
  BY <1>2, <1>3 DEF LaunchAssumption
<1>7. C # {} => 4 * c + 4 * k <= MaxConnections - PgReserved - 16
  <2> HIDE DEF b, c, h, k
  <2> QED BY <1>4, <1>5, <1>6
<1> QED BY <1>7 DEF Within, PerWorker, ExtraSampler, Headroom

\* An admission leaves room for what was there and for what it adds.
LEMMA FitsWithin ==
  ASSUME LaunchAssumption, NEW nd, NEW more \in Nat, Fits(nd, more),
         NEW X \in SUBSET Names, Cardinality(X) <= more,
         NEW B \in SUBSET Names, NEW H \in SUBSET Names,
         \A n \in B : n \in X \/ nd[n].up # None \/ Awaits(nd, n),
         \A n \in H : nd[n].sampler /\ (nd[n].up # None \/ Awaits(nd, n))
  PROVE  Within(B, H)
<1> DEFINE live == {n \in Names : nd[n].up # None}
           reserved == {n \in Names : Awaits(nd, n)}
           samplers == {n \in live \cup reserved : nd[n].sampler}
           L == Cardinality(live)
           R == Cardinality(reserved)
           S == Cardinality(samplers)
           b == Cardinality(B)
           h == Cardinality(H)
           x == Cardinality(X)
<1>1. \A s \in SUBSET Names : IsFiniteSet(s) /\ Cardinality(s) \in Nat
  BY FS_Subset, FS_CardinalityType DEF LaunchAssumption
<1>2. L + R + more <= Capacity(MaxConnections, PgReserved, S)
  BY DEF Fits
<1>3. b <= Cardinality((live \cup reserved) \cup X)
  <2>1. B \subseteq (live \cup reserved) \cup X /\ (live \cup reserved) \cup X \in SUBSET Names
    OBVIOUS
  <2> HIDE DEF live, reserved
  <2> QED BY <1>1, <2>1, FS_Subset
<1>4. live \cap reserved = {}
  BY DEF Awaits
<1>5. Cardinality((live \cup reserved) \cup X) <= L + R + x
  <2>1. live \in SUBSET Names /\ reserved \in SUBSET Names /\ (live \cup reserved) \in SUBSET Names
    OBVIOUS
  <2> HIDE DEF live, reserved
  <2>2. Cardinality(live \cup reserved) = L + R - Cardinality(live \cap reserved)
    BY <1>1, <2>1, FS_Union
  <2>3. Cardinality((live \cup reserved) \cup X) = Cardinality(live \cup reserved) + x - Cardinality((live \cup reserved) \cap X)
    BY <1>1, <2>1, FS_Union
  <2>4. (live \cup reserved) \cap X \in SUBSET Names /\ live \cap reserved \in SUBSET Names
        /\ (live \cup reserved) \cup X \in SUBSET Names
    BY <2>1
  <2>5. /\ Cardinality((live \cup reserved) \cap X) \in Nat /\ Cardinality(live \cap reserved) \in Nat
        /\ Cardinality(live \cup reserved) \in Nat /\ L \in Nat /\ R \in Nat /\ x \in Nat
    BY <1>1, <2>1, <2>4
  <2> HIDE DEF L, R, x
  <2> QED BY <2>2, <2>3, <2>5
<1>6. h <= S
  <2>1. H \subseteq samplers /\ samplers \in SUBSET Names
    OBVIOUS
  <2> HIDE DEF samplers
  <2> QED BY <1>1, <2>1, FS_Subset
<1>7. B # {} => b > 0
  <2>1. IsFiniteSet(B) /\ Cardinality(B) \in Nat
    BY <1>1
  <2>2. Cardinality(B) = 0 <=> B = {}
    BY <2>1, FS_EmptySet
  <2> QED BY <2>1, <2>2
<1>8. L \in Nat /\ R \in Nat /\ S \in Nat /\ b \in Nat /\ h \in Nat /\ x \in Nat
  <2>1. live \in SUBSET Names /\ reserved \in SUBSET Names /\ samplers \in SUBSET Names
    OBVIOUS
  <2> HIDE DEF live, reserved, samplers
  <2> QED BY <1>1, <2>1
<1>9. MaxConnections \in Nat /\ PgReserved \in Nat
  BY DEF LaunchAssumption
<1>10. Cardinality((live \cup reserved) \cup X) \in Nat
  <2>1. (live \cup reserved) \cup X \in SUBSET Names
    OBVIOUS
  <2> QED BY <1>1, <2>1
<1> HIDE DEF L, R, S, b, h, x, live, reserved, samplers
<1>11. b <= L + R + more
  BY <1>3, <1>5, <1>8, <1>10 DEF x
<1> DEFINE free == MaxConnections - PgReserved - 16 - S * 4
           room == IF free < 0 THEN 0 ELSE free
<1>12. L + R + more <= room \div 4 /\ room \in Nat
  BY <1>2, <1>8, <1>9 DEF Capacity, Headroom, ExtraSampler, PerWorker
<1>13. b > 0 => 4 * b <= free
  <2>1. 4 * (room \div 4) <= room
    BY <1>12
  <2>2. room \div 4 \in Nat
    BY <1>12
  <2> HIDE DEF room
  <2>3. 4 * b <= room
    BY <1>8, <1>11, <1>12, <2>1, <2>2
  <2> QED BY <1>8, <1>9, <2>3 DEF room
<1>14. b > 0 => 4 * b + 4 * h <= MaxConnections - PgReserved - 16
  BY <1>6, <1>8, <1>9, <1>13
<1> QED BY <1>7, <1>14 DEF Within, PerWorker, ExtraSampler, Headroom, b, h

\* A reservation that is due is not registered and its worker's row is that of the request.
LEMMA DueFacts ==
  ASSUME LaunchAssumption, LaunchInv, Admitted, NEW q \in Reqs, NEW n \in Names, Due(q, n)
  PROVE  /\ job[q][n].state \in {"none", "queued"} /\ n \in req[q].names /\ node[n].req = q
         /\ ~node[n].seen /\ node[n].up # q /\ Expected(q, n)
<1>1. JobsOK(q) /\ LedgerOK(q) /\ ReqOK(q) /\ NodeOK(n)
  BY DEF Admitted, LaunchInv
<1>2. job[q][n].state \in {"none", "queued"} /\ n \in req[q].names
  <2>1. CASE job[q][n].state = "queued"
    BY <1>1, <2>1 DEF JobsOK
  <2>2. ASSUME NEW l \in Launchers, lch[l].pc = "sbatch", lch[l].q = q, lch[l].cur = n
        PROVE  job[q][n].state = "none" /\ n \in req[q].names
    BY <1>1, <2>2 DEF LaunchInv, LauncherOK, Critical, ReqOK
  <2>3. CASE local.pc = "work" /\ local.q = q /\ n \in local.todo
    BY <1>1, <2>3 DEF LaunchInv, LocalOK, ReqOK
  <2> QED BY <2>1, <2>2, <2>3 DEF Due
<1>3. node[n].req = q /\ ~node[n].seen
  BY <1>1, <1>2 DEF JobsOK
<1>4. node[n].up # q
  <2>1. q # None
    BY DEF LaunchAssumption
  <2> QED BY <1>1, <1>2, <2>1 DEF NodeOK
<1> QED BY <1>1, <1>2, <1>3, <1>4 DEF LedgerOK

\* Less is due when no launcher gets ready to submit and no local launch begins.
LEMMA DueFewer ==
  ASSUME UNCHANGED <<job, bound>>,
         \A l \in Launchers : lch'[l].pc = "sbatch" => lch'[l] = lch[l],
         local'.pc = "work" => local.pc = "work" /\ local'.q = local.q /\ local'.todo \subseteq local.todo
  PROVE  \A q \in Reqs, n \in Names : Due(q, n)' => Due(q, n)
<1> SUFFICES ASSUME NEW q \in Reqs, NEW n \in Names, Due(q, n)' PROVE Due(q, n)
  OBVIOUS
<1> QED BY DEF Due

\* A statement on the records of requests: nobody is reserved anew.
NothingAdded(q) ==
  /\ req'[q].names = req[q].names /\ req'[q].backend = req[q].backend
  /\ req'[q].state = "none" => req[q].state = "none"
  /\ req[q].state = "failed" /\ req[q].backend = "local" => req'[q].state = "failed"
  /\ \A n \in Names :
       /\ node[n].req = q /\ ~node[n].seen
       /\ req'[q].state \in {"pending", "starting"} /\ work'[q][n] \notin Terminal
       => req[q].state \in {"pending", "starting"} /\ work[q][n] \notin Terminal

\* Nobody is charged for more than before.
LEMMA FewerCharged ==
  ASSUME LaunchAssumption, Budgeted,
         \A n \in Names : Charged(n)' => Charged(n),
         \A n \in Names : node'[n].sampler => node[n].sampler,
         \A n \in Names : Charged(n)' /\ Resumed(n) => Resumed(n)'
  PROVE  Budgeted'
<1> DEFINE B == {n \in Names : Charged(n)}
           H == {n \in Names : Heavy(n)}
           C == {n \in Names : Charged(n)'}
           K == {n \in Names : Heavy(n)'}
<1>1. B \in SUBSET Names /\ H \in SUBSET Names /\ Within(B, H)
  BY DEF Budgeted
<1>2. C \in SUBSET B /\ K \in SUBSET H
  BY DEF Heavy
<1>3. Within(C, K)
  <2> HIDE DEF B, H, C, K
  <2> QED BY <1>1, <1>2, WithinFewer
<1> QED BY <1>3 DEF Budgeted, Within

LEMMA PaperKept ==
  ASSUME LaunchAssumption, LaunchInv, LaunchInv', Admitted, Budgeted, UNCHANGED <<job, node, bound, lapses>>,
         \A q \in Reqs : NothingAdded(q) /\ LedgerOK(q)',
         \A l \in Launchers : lch'[l].dep <= bound,
         ClaimedOK'
  PROVE  Admitted' /\ Budgeted'
<1>1. ASSUME NEW q \in Reqs PROVE JobsOK(q)'
  <2>1. JobsOK(q) /\ NothingAdded(q)
    BY DEF Admitted
  <2> QED BY <2>1 DEF JobsOK, NothingAdded
<1>2. Admitted'
  BY <1>1 DEF Admitted
<1>3. \A n \in Names : node[n].req # None => node[n].req \in Reqs
  BY DEF LaunchInv, Typed, NodeT
<1>4. ASSUME NEW n \in Names, Charged(n)' PROVE Charged(n) /\ (Resumed(n) => Resumed(n)')
  <2>1. node' = node
    OBVIOUS
  <2>2. node[n].req \in Reqs
    <3>1. node[n].req # None
      BY <1>4, <2>1 DEF Charged, Awaits, LaunchInv, NodeOK
    <3> QED BY <1>3, <3>1
  <2>3. NothingAdded(node[n].req)
    BY <2>2
  <2>4. Charged(n)
    BY <1>4, <2>1, <2>2, <2>3 DEF Charged, Awaits, Escaped, NothingAdded
  <2>5. Resumed(n) => Resumed(n)'
    BY <2>1 DEF Resumed, NothingAdded
  <2> QED BY <2>4, <2>5
<1>5. Budgeted'
  BY <1>4, FewerCharged
<1> QED BY <1>2, <1>5

\* Requests change in their leases and tokens at most; launchers and the local launch do not
\* submit anything new.
LEMMA StillKept ==
  ASSUME LaunchAssumption, LaunchInv, LaunchInv', Admitted, Budgeted, UNCHANGED <<work, job, node, bound, lapses>>,
         \A q \in Reqs : /\ req'[q].names = req[q].names /\ req'[q].backend = req[q].backend
                         /\ req'[q].state = req[q].state,
         \A l \in Launchers : lch'[l] = lch[l] \/ (lch'[l].pc # "sbatch" /\ lch'[l].dep <= bound),
         local' = local \/ local'.pc = "idle"
  PROVE  Admitted' /\ Budgeted'
<1>1. \A q \in Reqs, n \in Names : Due(q, n)' => Due(q, n)
  BY DueFewer
<1>2. ASSUME NEW q \in Reqs PROVE NothingAdded(q) /\ LedgerOK(q)'
  <2>1. LedgerOK(q)
    BY DEF Admitted
  <2>2. NothingAdded(q)
    BY DEF NothingAdded
  <2>3. LedgerOK(q)'
    BY <1>1, <2>1 DEF LedgerOK, Expected
  <2> QED BY <2>2, <2>3
<1>3. \A l \in Launchers : lch'[l].dep <= bound
  BY DEF Admitted
<1>4. ClaimedOK'
  <2>1. local.pc # "idle" => local.q \in Reqs
    BY DEF LaunchInv, LocalOK
  <2> QED BY <2>1 DEF Admitted, ClaimedOK
<1> QED BY <1>2, <1>3, <1>4, PaperKept

LEMMA AbandonAdmitted ==
  ASSUME LaunchAssumption, LaunchInv, LaunchInv', Admitted, Budgeted, NEW l \in Launchers, Abandon(l),
         lch[l].pc # "idle", UNCHANGED <<job, node, bound, local, lapses>>
  PROVE  Admitted' /\ Budgeted'
<1>1. req \in [Reqs -> ReqT] /\ lch \in [Launchers -> LchT] /\ lch[l].q \in Reqs
  BY DEF LaunchInv, Typed, LauncherOK
<1>2. /\ lch' = [lch EXCEPT ![l] = Idle] /\ UNCHANGED work
      /\ req' = req \/ req' = [req EXCEPT ![lch[l].q].leased = FALSE]
  BY DEF Abandon
<1>3. \A q \in Reqs : req'[q].names = req[q].names /\ req'[q].backend = req[q].backend /\ req'[q].state = req[q].state
  <2>1. CASE req' = req
    BY <2>1
  <2>2. CASE req' = [req EXCEPT ![lch[l].q].leased = FALSE]
    BY <1>1, <2>2 DEF ReqT
  <2> QED BY <1>2, <2>1, <2>2
<1>4. Idle.pc = "idle" /\ Idle.dep = 0 /\ 0 <= bound
  BY DEF Idle, LaunchInv, Typed
<1>5. \A k \in Launchers : lch'[k] = lch[k] \/ (lch'[k].pc # "sbatch" /\ lch'[k].dep <= bound)
  <2> HIDE DEF Idle
  <2> QED BY <1>1, <1>2, <1>4
<1> QED BY <1>2, <1>3, <1>5, StillKept

LEMMA LeaseExpiresAdmitted ==
  ASSUME LaunchAssumption, LaunchInv, LaunchInv', Admitted, Budgeted, NEW p \in Reqs, LauncherLeaseExpires(p)
  PROVE  Admitted' /\ Budgeted'
<1>1. req \in [Reqs -> ReqT]
  BY DEF LaunchInv, Typed
<1>2. req' = [req EXCEPT ![p].leased = FALSE] /\ UNCHANGED <<work, job, node, lch, local, bound, lapses>>
  BY DEF LauncherLeaseExpires
<1>3. \A q \in Reqs : req'[q].names = req[q].names /\ req'[q].backend = req[q].backend /\ req'[q].state = req[q].state
  BY <1>1, <1>2 DEF ReqT
<1> QED BY <1>2, <1>3, StillKept

LEMMA CrashesAdmitted ==
  ASSUME LaunchAssumption, LaunchInv, LaunchInv', Admitted, Budgeted,
         LocalCrash \/ \E l \in Launchers : LauncherCrash(l)
  PROVE  Admitted' /\ Budgeted'
<1>1. Idle.pc = "idle" /\ Idle.dep = 0 /\ 0 <= bound /\ lch \in [Launchers -> LchT]
  BY DEF Idle, LaunchInv, Typed
<1>2. /\ UNCHANGED <<req, work, job, node, bound, lapses>>
      /\ local' = local \/ local' = Idle
      /\ lch' = lch \/ \E l \in Launchers : lch' = [lch EXCEPT ![l] = Idle]
  BY DEF LocalCrash, LauncherCrash
<1> HIDE DEF Idle
<1>3. \A k \in Launchers : lch'[k] = lch[k] \/ (lch'[k].pc # "sbatch" /\ lch'[k].dep <= bound)
  BY <1>1, <1>2
<1> QED BY <1>1, <1>2, <1>3, StillKept

\* An accepted update closes no worker that is due: such a one is neither registered nor ended.
LEMMA UpdateAdmitted ==
  ASSUME LaunchAssumption, LaunchInv, LaunchInv', Admitted, Budgeted, NEW l \in Launchers, lch[l].pc # "idle",
         NEW q \in Reqs, lch[l].q = q, NEW n \in lch[l].todo, NEW state \in {"connected", "submitting", "submitted", "failed"},
         Update(l, n, state), UNCHANGED <<job, node, local, bound, lapses>>,
         state = "failed" => job[q][n].state = "ended",
         lch'[l].pc = "sbatch" => state = "submitting",
         \A k \in Launchers : /\ lch'[k] = lch[k] \/ k = l
                              /\ lch'[k].dep <= bound
                              /\ lch'[k].pc = "sbatch" =>
                                   lch'[k] = lch[k] \/ (k = l /\ lch'[l].q = q /\ lch'[l].cur = n)
  PROVE  Admitted' /\ Budgeted'
<1> DEFINE s == Recorded(work[q][n], state)
           ws == [work[q] EXCEPT ![n] = s]
           fin == Finished(req[q], ws, TRUE)
<1>1. /\ req \in [Reqs -> ReqT] /\ work \in [Reqs -> [Names -> WorkStates]] /\ q \in Reqs /\ req[q] \in ReqT
      /\ n \in req[q].names /\ n \in Names /\ req[q].names \subseteq Names /\ LauncherOK(l) /\ ReqOK(q)
      /\ LedgerOK(q) /\ JobsOK(q) /\ req[q].backend = "external"
  BY DEF LaunchInv, LauncherOK, Typed, ReqT, Admitted
<1>2. /\ work' = [work EXCEPT ![q] = ws] /\ req' = [req EXCEPT ![q].state = fin]
      /\ Owns(l) /\ Allowed(work[q][n], s) /\ (s = "connected" => Registered(q, n))
  BY DEF Update
<1>3. req[q].state \in {"starting", "fulfilled", "failed"}
  BY <1>2 DEF Owns
<1>4. s \in {state, "connected"} /\ (state = "submitting" => s = "submitting")
  BY DEF Recorded, Terminal
<1> HIDE DEF s
<1>5. \A m \in Names : ws[m] = IF m = n THEN s ELSE work[q][m]
  BY <1>1
<1>6. \A p \in Reqs : /\ work'[p] = IF p = q THEN ws ELSE work[p]
                      /\ req'[p].names = req[p].names /\ req'[p].backend = req[p].backend
                      /\ req'[p].state = IF p = q THEN fin ELSE req[p].state
  BY <1>1, <1>2 DEF ReqT
<1>7. /\ fin \in {req[q].state, "fulfilled", "failed"}
      /\ (\E m \in req[q].names : ws[m] \in Open) => fin = req[q].state
      /\ fin # req[q].state => \A m \in req[q].names : ws[m] \notin Open
  BY DEF Finished
<1> HIDE DEF fin, ws
<1>8. /\ work[q][n] \in {"connected"} \cup Terminal => s = work[q][n]
      /\ s # "none"
  <2>1. work[q][n] \notin Open \/ work[q][n] \notin {"connected"} \cup Terminal
    BY DEF Open, Terminal
  <2>2. s = work[q][n] \/ work[q][n] \in Open
    BY <1>2 DEF Allowed, Open
  <2> QED BY <1>4, <2>1, <2>2
<1>9. \A p \in Reqs, m \in Names : Due(p, m)' => Due(p, m) \/ (p = q /\ m = n /\ lch'[l].pc = "sbatch")
  BY DEF Due
<1>10. Due(q, n) => s \in {"submitting", "submitted"}
  <2>1. Due(q, n) => /\ job[q][n].state \in {"none", "queued"} /\ ~Registered(q, n)
    BY <1>1, DueFacts DEF Registered
  <2> QED BY <1>2, <1>4, <2>1
<1>11. ASSUME NEW p \in Reqs, p # q PROVE NothingAdded(p) /\ LedgerOK(p)'
  <2>1. /\ work'[p] = work[p] /\ req'[p].names = req[p].names /\ req'[p].backend = req[p].backend
        /\ req'[p].state = req[p].state /\ LedgerOK(p)
    BY <1>6, <1>11 DEF Admitted
  <2>2. \A m \in Names : Due(p, m)' => Due(p, m)
    BY <1>9, <1>11
  <2> QED BY <2>1, <2>2 DEF NothingAdded, LedgerOK, Expected
<1>12. NothingAdded(q)
  <2>1. \A m \in Names : ws[m] \notin Terminal => work[q][m] \notin Terminal
    BY <1>5, <1>8
  <2> QED BY <1>1, <1>3, <1>6, <1>7, <2>1 DEF NothingAdded
<1>13. LedgerOK(q)'
  <2>1. ASSUME req'[q].state \in {"fulfilled", "failed"}, NEW m \in req[q].names
        PROVE  ws[m] \in {"connected"} \cup Terminal
    <3>1. CASE fin # req[q].state
      <4>1. ws[m] \notin Open /\ ws[m] # "none" /\ ws[m] \in WorkStates
        <5>1. ws[m] \notin Open
          BY <1>7, <3>1
        <5>2. work[q][m] # "none" /\ work[q][m] \in WorkStates
          BY <1>1, <2>1 DEF LauncherOK
        <5>3. s \in WorkStates
          BY <1>4 DEF WorkStates, Open, Terminal
        <5> QED BY <1>1, <1>5, <1>8, <5>1, <5>2, <5>3
      <4> QED BY <4>1 DEF WorkStates
    <3>2. CASE fin = req[q].state
      <4>1. \A k \in req[q].names : work[q][k] \in {"connected"} \cup Terminal
        BY <1>1, <1>6, <2>1, <3>2 DEF LedgerOK
      <4> QED BY <1>1, <1>5, <1>8, <2>1, <4>1
    <3> QED BY <3>1, <3>2
  <2>2. ASSUME NEW m \in Names, Due(q, m)' PROVE Expected(q, m)'
    <3>1. ws[m] \in {"submitting", "submitted"} /\ m \in req[q].names
      <4>1. CASE Due(q, m)
        <5>1. Expected(q, m) /\ m \in req[q].names
          BY <1>1, <4>1, DueFacts
        <5> QED BY <1>1, <1>5, <1>10, <4>1, <5>1 DEF Expected
      <4>2. CASE m = n /\ lch'[l].pc = "sbatch"
        BY <1>1, <1>4, <1>5, <4>2
      <4> QED BY <1>1, <1>9, <2>2, <4>1, <4>2
    <3>2. fin = req[q].state
      BY <1>7, <3>1 DEF Open
    <3>3. req[q].state = "starting"
      <4>1. ASSUME req[q].state \in {"fulfilled", "failed"} PROVE FALSE
        <5>1. work[q][m] \in {"connected"} \cup Terminal
          BY <1>1, <3>1, <4>1 DEF LedgerOK
        <5>2. ws[m] = work[q][m]
          BY <1>5, <1>8, <5>1
        <5> QED BY <3>1, <5>1, <5>2 DEF Terminal
      <4> QED BY <1>3, <4>1
    <3> QED BY <1>1, <1>6, <3>1, <3>2, <3>3 DEF Expected
  <2>3. req'[q].backend = "external" /\ req'[q].names = req[q].names /\ work'[q] = ws
    BY <1>1, <1>6
  <2> QED BY <2>1, <2>2, <2>3 DEF LedgerOK
<1>14. ClaimedOK'
  <2>1. local.pc # "idle" => local.q \in Reqs /\ local.q # q
    BY <1>1 DEF LaunchInv, LocalOK
  <2> QED BY <1>6, <2>1 DEF Admitted, ClaimedOK
<1>15. \A p \in Reqs : NothingAdded(p) /\ LedgerOK(p)'
  BY <1>11, <1>12, <1>13
<1> QED BY <1>14, <1>15, PaperKept

LEMMA VisitAdmitted ==
  ASSUME LaunchAssumption, LaunchInv, LaunchInv', Admitted, Budgeted, NEW l \in Launchers, NEW n \in Names, Visit(l, n)
  PROVE  Admitted' /\ Budgeted'
<1> DEFINE st == lch[l].view[n]
           state == CASE st = "registered" -> "connected"
                      [] st = "submitting" -> "submitted"
                      [] OTHER -> "failed"
           a == [lch EXCEPT ![l].pc = "intent", ![l].cur = n]
           b == [lch EXCEPT ![l].todo = @ \ {n}]
           c == [lch EXCEPT ![l].view[n] = "submitted"]
<1>1. PICK q \in Reqs : lch[l].q = q
  <2>1. lch[l].pc # "idle"
    BY DEF Visit
  <2>2. lch[l].q \in Reqs
    BY <2>1 DEF LaunchInv, LauncherOK
  <2> QED BY <2>2
<1>2. /\ lch[l].pc = "work" /\ n \in lch[l].todo /\ UNCHANGED <<job, node, local, bound, lapses>>
      /\ lch \in [Launchers -> LchT] /\ lch[l].dep <= bound
  BY DEF Visit, LaunchInv, Typed, Admitted
<1>3. \/ UNCHANGED <<req, work>> /\ (lch' = a \/ lch' = b)
      \/ Abandon(l)
      \/ /\ Update(l, n, state) /\ (lch' = b \/ lch' = c)
         /\ state = "failed" => job[q][n].state = "ended"
  <2>1. st # "registered" /\ st # "submitting" <=> state = "failed"
    OBVIOUS
  <2> HIDE DEF state, a, b, c
  <2>2. \/ UNCHANGED <<req, work>> /\ (lch' = a \/ lch' = b)
        \/ Abandon(l)
        \/ /\ Update(l, n, state) /\ (lch' = b \/ lch' = c)
           /\ st \in {"registered", "submitting"} \/ (st = "submitted" /\ job[q][n].state = "ended")
    BY <1>1 DEF Visit, state, a, b, c
  <2> QED BY <2>1, <2>2
<1>4. \A k \in Launchers : /\ a[k] = lch[k] \/ (k = l /\ a[k].pc = "intent" /\ a[k].dep = lch[k].dep)
                           /\ b[k] = lch[k] \/ (k = l /\ b[k].pc = "work" /\ b[k].dep = lch[k].dep)
                           /\ c[k] = lch[k] \/ (k = l /\ c[k].pc = "work" /\ c[k].dep = lch[k].dep)
  BY <1>2 DEF LchT
<1>5. state \in {"connected", "submitting", "submitted", "failed"}
  OBVIOUS
<1>6. \A k \in Launchers : lch[k].dep <= bound
  BY DEF Admitted
<1> HIDE DEF state, a, b, c
<1>7. CASE UNCHANGED <<req, work>> /\ (lch' = a \/ lch' = b)
  <2>1. \A k \in Launchers : lch'[k] = lch[k] \/ (lch'[k].pc # "sbatch" /\ lch'[k].dep <= bound)
    BY <1>4, <1>6, <1>7
  <2> QED BY <1>2, <1>7, <2>1, StillKept
<1>8. CASE Abandon(l)
  BY <1>2, <1>8, AbandonAdmitted
<1>9. CASE /\ Update(l, n, state) /\ (lch' = b \/ lch' = c)
           /\ state = "failed" => job[q][n].state = "ended"
  <2>1. \A k \in Launchers : /\ lch'[k] = lch[k] \/ k = l
                             /\ lch'[k].dep <= bound
                             /\ lch'[k].pc = "sbatch" => lch'[k] = lch[k]
    BY <1>4, <1>6, <1>9
  <2>2. lch'[l].pc # "sbatch"
    BY <1>2, <1>4, <1>9
  <2> QED BY <1>1, <1>2, <1>5, <1>9, <2>1, <2>2, UpdateAdmitted
<1> QED BY <1>3, <1>7, <1>8, <1>9

LEMMA IntendAdmitted ==
  ASSUME LaunchAssumption, LaunchInv, LaunchInv', Admitted, Budgeted, NEW l \in Launchers, Intend(l)
  PROVE  Admitted' /\ Budgeted'
<1>1. PICK q \in Reqs, n \in Names : lch[l].q = q /\ lch[l].cur = n /\ n \in lch[l].todo
  <2>1. lch[l].q \in Reqs /\ lch[l].cur \in lch[l].todo /\ lch[l].todo \subseteq req[lch[l].q].names
    BY DEF Intend, LaunchInv, LauncherOK, Critical
  <2> QED BY <2>1 DEF LaunchInv, Typed, ReqT
<1>2. /\ lch[l].pc = "intent" /\ UNCHANGED <<job, node, local, bound, lapses>>
      /\ lch \in [Launchers -> LchT] /\ \A k \in Launchers : lch[k].dep <= bound
  BY DEF Intend, LaunchInv, Typed, Admitted
<1>3. CASE Abandon(l)
  BY <1>2, <1>3, AbandonAdmitted
<1>4. CASE Update(l, n, "submitting") /\ lch' = [lch EXCEPT ![l].pc = "sbatch"]
  <2>1. \A k \in Launchers : lch'[k] = IF k = l THEN [lch[l] EXCEPT !.pc = "sbatch"] ELSE lch[k]
    BY <1>2, <1>4
  <2>2. \A k \in Launchers : /\ lch'[k] = lch[k] \/ k = l
                             /\ lch'[k].dep <= bound
                             /\ lch'[k].pc = "sbatch" => lch'[k] = lch[k] \/ (k = l /\ lch'[l].q = q /\ lch'[l].cur = n)
    BY <1>1, <1>2, <2>1 DEF LchT
  <2> QED BY <1>1, <1>2, <1>4, <2>2, UpdateAdmitted
<1> QED BY <1>1, <1>3, <1>4 DEF Intend

LEMMA ReceiptAdmitted ==
  ASSUME LaunchAssumption, LaunchInv, LaunchInv', Admitted, Budgeted, NEW l \in Launchers, Receipt(l)
  PROVE  Admitted' /\ Budgeted'
<1>1. PICK q \in Reqs, n \in Names : lch[l].q = q /\ lch[l].cur = n /\ n \in lch[l].todo
  <2>1. lch[l].q \in Reqs /\ lch[l].cur \in lch[l].todo /\ lch[l].todo \subseteq req[lch[l].q].names
    BY DEF Receipt, LaunchInv, LauncherOK, Critical
  <2> QED BY <2>1 DEF LaunchInv, Typed, ReqT
<1>2. /\ lch[l].pc = "receipt" /\ UNCHANGED <<job, node, local, bound, lapses>>
      /\ lch \in [Launchers -> LchT] /\ \A k \in Launchers : lch[k].dep <= bound
  BY DEF Receipt, LaunchInv, Typed, Admitted
<1> DEFINE s == [lch EXCEPT ![l].pc = "work", ![l].todo = @ \ {lch[l].cur}, ![l].cur = None]
<1>3. CASE Abandon(l)
  BY <1>2, <1>3, AbandonAdmitted
<1>4. CASE Update(l, n, "submitted") /\ lch' = s
  <2>1. \A k \in Launchers : s[k] = lch[k] \/ (k = l /\ s[k].pc = "work" /\ s[k].dep = lch[k].dep)
    BY <1>2 DEF LchT
  <2> HIDE DEF s
  <2>2. \A k \in Launchers : /\ lch'[k] = lch[k] \/ k = l
                             /\ lch'[k].dep <= bound
                             /\ lch'[k].pc = "sbatch" => lch'[k] = lch[k]
    BY <1>2, <1>4, <2>1
  <2>3. lch'[l].pc # "sbatch"
    BY <1>2, <1>4, <2>1
  <2> QED BY <1>1, <1>2, <1>4, <2>2, <2>3, UpdateAdmitted
<1> QED BY <1>1, <1>3, <1>4 DEF Receipt

\* A claim lists the workers of a request that waits.
LEMMA ClaimAdmitted ==
  ASSUME LaunchAssumption, LaunchInv, LaunchInv', Admitted, Budgeted, NEW l \in Launchers, NEW q \in Reqs, Claim(l, q)
  PROVE  Admitted' /\ Budgeted'
<1> DEFINE rows == [n \in Names |-> IF n \in req[q].names /\ work[q][n] = "none" THEN "pending" ELSE work[q][n]]
<1>1. /\ req \in [Reqs -> ReqT] /\ work \in [Reqs -> [Names -> WorkStates]] /\ lch \in [Launchers -> LchT]
      /\ LedgerOK(q)
  BY DEF LaunchInv, Typed, Admitted
<1>2. /\ work' = [work EXCEPT ![q] = rows]
      /\ req' = [req EXCEPT ![q].state = "starting", ![q].leased = TRUE, ![q].token = NewToken(q)]
      /\ UNCHANGED <<job, node, local, bound, lapses>>
      /\ req[q].backend = "external" /\ req[q].state \in {"pending", "starting"}
  BY DEF Claim, Claimable
<1>3. \A n \in Names : rows[n] = work[q][n] \/ (rows[n] = "pending" /\ work[q][n] = "none")
  OBVIOUS
<1> HIDE DEF rows
<1>4. \A p \in Reqs : /\ work'[p] = IF p = q THEN rows ELSE work[p]
                      /\ req'[p].names = req[p].names /\ req'[p].backend = req[p].backend
                      /\ req'[p].state = IF p = q THEN "starting" ELSE req[p].state
  BY <1>1, <1>2 DEF ReqT
<1>5. \A k \in Launchers : lch'[k] = lch[k] \/ (lch'[k].pc = "work" /\ lch'[k].dep = bound)
  BY <1>1 DEF Claim
<1>6. \A p \in Reqs, n \in Names : Due(p, n)' => Due(p, n)
  BY <1>2, <1>5, DueFewer
<1>7. ASSUME NEW p \in Reqs PROVE NothingAdded(p) /\ LedgerOK(p)'
  <2>1. LedgerOK(p)
    BY DEF Admitted
  <2>2. CASE p = q
    <3>0. /\ work'[q] = rows /\ req'[q].names = req[q].names /\ req'[q].backend = req[q].backend
          /\ req'[q].state = "starting" /\ req[q].backend = "external" /\ req[q].state \in {"pending", "starting"}
      BY <1>2, <1>4
    <3>1. NothingAdded(q)
      BY <1>3, <3>0 DEF NothingAdded, Terminal
    <3>2. LedgerOK(q)'
      <4>1. \A n \in Names : Due(q, n)' => Expected(q, n)'
        BY <1>3, <1>6, <2>1, <2>2, <3>0 DEF LedgerOK, Expected
      <4> QED BY <3>0, <4>1 DEF LedgerOK
    <3> QED BY <2>2, <3>1, <3>2
  <2>3. CASE p # q
    BY <1>4, <1>6, <2>1, <2>3 DEF NothingAdded, LedgerOK, Expected
  <2> QED BY <2>2, <2>3
<1>8. \A k \in Launchers : lch'[k].dep <= bound
  <2>1. bound \in Int
    BY DEF LaunchInv, Typed
  <2> QED BY <1>5, <2>1 DEF Admitted
<1>9. ClaimedOK'
  <2>1. local.pc # "idle" => local.q \in Reqs
    BY DEF LaunchInv, LocalOK
  <2> QED BY <1>2, <1>4, <2>1 DEF Admitted, ClaimedOK
<1> QED BY <1>2, <1>7, <1>8, <1>9, PaperKept

LEMMA ResetAdmitted ==
  ASSUME LaunchAssumption, LaunchInv, LaunchInv', Admitted, Budgeted, NEW q \in Reqs, NEW n \in Names,
         ResetSubmission(q, n)
  PROVE  Admitted' /\ Budgeted'
<1>1. /\ req \in [Reqs -> ReqT] /\ work \in [Reqs -> [Names -> WorkStates]]
      /\ LedgerOK(q) /\ JobsOK(q) /\ ReqOK(q)
  BY DEF LaunchInv, Typed, Admitted
<1>2. /\ work' = [work EXCEPT ![q][n] = "pending"]
      /\ req' = [req EXCEPT ![q].token = NewToken(q)]
      /\ UNCHANGED <<job, node, lch, local, bound, lapses>>
      /\ req[q].backend = "external" /\ work[q][n] = "submitting" /\ job[q][n].state = "none"
      /\ req[q].state \in {"pending", "starting"} /\ GuardFree
  BY DEF ResetSubmission
<1>3. /\ \A p \in Reqs, m \in Names : work'[p][m] = IF p = q /\ m = n THEN "pending" ELSE work[p][m]
      /\ \A p \in Reqs : /\ req'[p].names = req[p].names /\ req'[p].backend = req[p].backend
                         /\ req'[p].state = req[p].state
  BY <1>1, <1>2 DEF ReqT
<1>4. \A p \in Reqs, m \in Names : Due(p, m)' => Due(p, m)
  BY <1>2, DueFewer
<1>5. ~Due(q, n)
  <2>1. ~(local.pc = "work" /\ local.q = q)
    BY <1>2 DEF LaunchInv, LocalOK
  <2> QED BY <1>2, <2>1 DEF Due, GuardFree
<1>6. ASSUME NEW p \in Reqs PROVE NothingAdded(p) /\ LedgerOK(p)'
  <2>1. LedgerOK(p) /\ req[p].names \subseteq Names
    BY <1>1 DEF Admitted, ReqT
  <2>2. NothingAdded(p)
    BY <1>2, <1>3 DEF NothingAdded, Terminal
  <2>3. LedgerOK(p)'
    BY <1>2, <1>3, <1>4, <1>5, <2>1 DEF LedgerOK, Expected
  <2> QED BY <2>2, <2>3
<1>7. ClaimedOK'
  <2>1. local.pc # "idle" => local.q \in Reqs
    BY DEF LaunchInv, LocalOK
  <2> QED BY <1>2, <1>3, <2>1 DEF Admitted, ClaimedOK
<1>8. \A k \in Launchers : lch'[k].dep <= bound
  BY <1>2 DEF Admitted
<1> QED BY <1>2, <1>6, <1>7, <1>8, PaperKept

\* Reconciliation closes what has registered, never what is due.
LEMMA ReconcileAdmitted ==
  ASSUME LaunchAssumption, LaunchInv, LaunchInv', Admitted, Budgeted, ReconcileFulfilled
  PROVE  Admitted' /\ Budgeted'
<1> DEFINE fin(q) == Finished(req[q], Reconciled(q), \A n \in req[q].names : work[q][n] # "none")
           all(q) == req[q].started >= Cardinality(req[q].names) /\ \A n \in req[q].names : Registered(q, n)
           st(q) == IF req[q].state # "starting" THEN req[q].state
                    ELSE IF req[q].backend = "external" THEN fin(q)
                    ELSE IF all(q) THEN "fulfilled" ELSE req[q].state
           w(q) == IF req[q].state = "starting" THEN Reconciled(q) ELSE work[q]
<1>1. /\ req \in [Reqs -> ReqT] /\ work \in [Reqs -> [Names -> WorkStates]]
      /\ UNCHANGED <<job, node, lch, local, bound, lapses>>
  BY DEF LaunchInv, Typed, ReconcileFulfilled
<1>2. \A q \in Reqs : /\ work'[q] = w(q)
                      /\ req'[q].names = req[q].names /\ req'[q].backend = req[q].backend /\ req'[q].state = st(q)
  BY <1>1 DEF ReconcileFulfilled, ReqT
<1>3. ASSUME NEW q \in Reqs PROVE NothingAdded(q) /\ LedgerOK(q)'
  <2>1. LedgerOK(q) /\ req[q].names \subseteq Names
    BY <1>1 DEF Admitted, ReqT
  <2>2. \A n \in Names : Due(q, n)' => Due(q, n)
    BY <1>1, DueFewer
  <2>3. CASE req[q].state # "starting"
    <3>1. work'[q] = work[q] /\ req'[q].state = req[q].state
      BY <1>2, <2>3
    <3> QED BY <1>2, <2>1, <2>2, <3>1 DEF NothingAdded, LedgerOK, Expected
  <2>4. CASE req[q].state = "starting" /\ req[q].backend = "external"
    <3>1. \A n \in Names : \/ work'[q][n] = work[q][n]
                           \/ work'[q][n] = "connected" /\ work[q][n] \in Open /\ Registered(q, n)
      BY <1>2, <2>4 DEF Reconciled
    <3>2. req'[q].state \in {"starting", "fulfilled", "failed"}
      BY <1>2, <2>4 DEF Finished
    <3>3. req'[q].state # "starting" =>
            \A n \in req[q].names : work'[q][n] \notin Open /\ work[q][n] # "none"
      BY <1>2, <2>4 DEF Finished
    <3>4. NothingAdded(q)
      BY <1>2, <2>4, <3>1, <3>2 DEF NothingAdded, Open, Terminal
    <3>5. ASSUME NEW n \in Names, Due(q, n) PROVE work'[q][n] \in {"submitting", "submitted"} /\ req'[q].state = "starting"
      <4>1. n \in req[q].names /\ ~Registered(q, n) /\ work[q][n] \in {"submitting", "submitted"}
        BY <2>4, <3>5, DueFacts DEF Registered, Expected
      <4> QED BY <3>1, <3>2, <3>3, <4>1 DEF Open
    <3>6. ASSUME req'[q].state # "starting", NEW n \in req[q].names PROVE work'[q][n] \in {"connected"} \cup Terminal
      <4>1. work'[q][n] \notin Open /\ work[q][n] # "none" /\ work[q][n] \in WorkStates /\ n \in Names
        BY <1>1, <2>1, <3>3, <3>6
      <4> QED BY <3>1, <4>1 DEF WorkStates
    <3>7. req'[q].names = req[q].names /\ req'[q].backend = "external"
      BY <1>2, <2>4
    <3> QED BY <2>2, <3>4, <3>5, <3>6, <3>7 DEF LedgerOK, Expected
  <2>5. CASE req[q].state = "starting" /\ req[q].backend # "external"
    <3>1. \A n \in Names : work'[q][n] = work[q][n]
      <4>1. req[q].backend = "local"
        BY <1>1, <2>5 DEF ReqT
      <4> QED BY <1>2, <2>1, <2>5, <4>1 DEF LedgerOK, Reconciled, Open
    <3>2. req'[q].state = IF all(q) THEN "fulfilled" ELSE "starting"
      BY <1>2, <2>5
    <3>3. \A n \in Names : Due(q, n) => req'[q].state = "starting"
      <4>1. \A n \in Names : Due(q, n) => n \in req[q].names /\ ~Registered(q, n)
        BY DueFacts DEF Registered
      <4> QED BY <3>2, <4>1
    <3> HIDE DEF all
    <3> QED BY <1>2, <2>1, <2>2, <2>5, <3>1, <3>2, <3>3 DEF NothingAdded, LedgerOK, Expected
  <2> QED BY <2>3, <2>4, <2>5
<1>4. ClaimedOK'
  <2>1. local.pc # "idle" => local.q \in Reqs /\ req[local.q].backend = "local"
    BY DEF LaunchInv, LocalOK
  <2>2. local.pc # "idle" => local'.pc = "work" /\ local' = local /\ req[local.q].state \in {"starting", "fulfilled"}
    BY <1>1 DEF Admitted, ClaimedOK
  <2>3. local.pc # "idle" => st(local.q) \in {"starting", "fulfilled"}
    BY <2>1, <2>2
  <2> QED BY <1>1, <1>2, <2>1, <2>2, <2>3 DEF ClaimedOK
<1>5. \A k \in Launchers : lch'[k].dep <= bound
  BY <1>1 DEF Admitted
<1> QED BY <1>1, <1>3, <1>4, <1>5, PaperKept

\* The steps of a local launch on its request.
LEMMA ClaimLocalAdmitted ==
  ASSUME LaunchAssumption, LaunchInv, LaunchInv', Admitted, Budgeted, NEW q \in Reqs, ClaimLocal(q)
  PROVE  Admitted' /\ Budgeted'
<1>1. req \in [Reqs -> ReqT] /\ Idle \in LchT
  BY IdleTyped DEF LaunchInv, Typed
<1>2. /\ req' = [req EXCEPT ![q].state = "starting"] /\ UNCHANGED <<work, job, node, lch, bound, lapses>>
      /\ local.pc = "idle" /\ req[q].backend = "local" /\ req[q].state = "pending"
      /\ local' = [Idle EXCEPT !.pc = "work", !.q = q, !.todo = req[q].names]
  BY DEF ClaimLocal
<1>3. \A p \in Reqs : /\ req'[p].names = req[p].names /\ req'[p].backend = req[p].backend
                      /\ req'[p].state = IF p = q THEN "starting" ELSE req[p].state
  BY <1>1, <1>2 DEF ReqT
<1>4. local'.pc = "work" /\ local'.q = q
  BY <1>1, <1>2 DEF LchT
<1>5. \A p \in Reqs, n \in Names : Due(p, n)' => p = q \/ Due(p, n)
  BY <1>2, <1>4 DEF Due
<1>6. ASSUME NEW p \in Reqs PROVE NothingAdded(p) /\ LedgerOK(p)'
  <2>1. LedgerOK(p)
    BY DEF Admitted
  <2>2. CASE p = q
    <3>1. req'[q].state = "starting" /\ req'[q].backend = "local" /\ req'[q].names = req[q].names
          /\ req[q].backend = "local" /\ req[q].state = "pending" /\ work' = work
      BY <1>2, <1>3
    <3> QED BY <2>1, <2>2, <3>1 DEF NothingAdded, LedgerOK, Expected
  <2>3. CASE p # q
    <3>1. req'[p].state = req[p].state /\ req'[p].backend = req[p].backend /\ req'[p].names = req[p].names /\ work' = work
      BY <1>2, <1>3, <2>3
    <3> QED BY <1>5, <2>1, <2>3, <3>1 DEF NothingAdded, LedgerOK, Expected
  <2> QED BY <2>2, <2>3
<1>7. ClaimedOK'
  BY <1>3, <1>4 DEF ClaimedOK
<1>8. \A k \in Launchers : lch'[k].dep <= bound
  BY <1>2 DEF Admitted
<1> QED BY <1>2, <1>6, <1>7, <1>8, PaperKept

\* The end of a local launch: marked started, or failed with what is left of it.
LEMMA LocalEndAdmitted ==
  ASSUME LaunchAssumption, LaunchInv, LaunchInv', Admitted, Budgeted, MarkStarting \/ SpawnFails
  PROVE  Admitted' /\ Budgeted'
<1>1. PICK q \in Reqs : local.q = q
  <2>1. local.pc # "idle"
    BY DEF MarkStarting, SpawnFails
  <2>2. local.q \in Reqs
    BY <2>1 DEF LaunchInv, LocalOK
  <2> QED BY <2>2
<1>2. /\ req[q].backend = "local" /\ req[q].state \in {"starting", "fulfilled"} /\ local.pc = "work"
      /\ local.todo \subseteq req[q].names
  BY <1>1 DEF MarkStarting, SpawnFails, LaunchInv, LocalOK, Admitted, ClaimedOK
<1>3. /\ UNCHANGED <<work, job, node, lch, bound, lapses>> /\ local' = Idle
      /\ MarkStarting \/ SpawnFails
  BY DEF MarkStarting, SpawnFails
<1>4. PICK state \in {"starting", "failed"} :
         /\ \A p \in Reqs : /\ req'[p].names = req[p].names /\ req'[p].backend = req[p].backend
                            /\ req'[p].state = IF p = q THEN state ELSE req[p].state
  <2>1. req \in [Reqs -> ReqT]
    BY DEF LaunchInv, Typed
  <2>2. CASE MarkStarting
    <3>1. req' = [req EXCEPT ![q].state = "starting", ![q].started = Cardinality(req[q].names)]
      BY <1>1, <2>2 DEF MarkStarting
    <3> WITNESS "starting" \in {"starting", "failed"}
    <3> QED BY <2>1, <3>1 DEF ReqT
  <2>3. CASE SpawnFails
    <3>1. req' = [req EXCEPT ![q].state = "failed", ![q].started = Cardinality(req[q].names \ local.todo)]
      BY <1>1, <2>3 DEF SpawnFails
    <3> WITNESS "failed" \in {"starting", "failed"}
    <3> QED BY <2>1, <3>1 DEF ReqT
  <2> QED BY <1>3, <2>2, <2>3
<1>5. Idle.pc = "idle"
  BY DEF Idle
<1>6. \A p \in Reqs, n \in Names : Due(p, n)' => Due(p, n)
  <2> HIDE DEF Idle
  <2> QED BY <1>3, <1>5, DueFewer
<1>7. ASSUME NEW p \in Reqs PROVE NothingAdded(p) /\ LedgerOK(p)'
  <2>1. LedgerOK(p) /\ ReqOK(p) /\ JobsOK(p)
    BY DEF Admitted, LaunchInv
  <2>2. CASE p = q
    <3>1. req'[q].state = state /\ req'[q].backend = "local" /\ req'[q].names = req[q].names /\ work' = work
      BY <1>2, <1>3, <1>4
    <3>2. NothingAdded(q)
      <4>1. \A n \in Names : work[q][n] = "none"
        BY <1>2, <2>1, <2>2 DEF LedgerOK
      <4>2. \A n \in Names : node[n].req = q /\ ~node[n].seen => req[q].state = "starting"
        BY <1>2, <2>1, <2>2 DEF ReqOK, JobsOK
      <4> QED BY <1>2, <3>1, <4>1, <4>2 DEF NothingAdded, Terminal
    <3>3. LedgerOK(q)'
      BY <1>2, <2>1, <2>2, <3>1 DEF LedgerOK, Expected
    <3> QED BY <2>2, <3>2, <3>3
  <2>3. CASE p # q
    <3>1. req'[p].state = req[p].state /\ req'[p].backend = req[p].backend /\ req'[p].names = req[p].names /\ work' = work
      BY <1>3, <1>4, <2>3
    <3> QED BY <1>6, <2>1, <3>1 DEF NothingAdded, LedgerOK, Expected
  <2> QED BY <2>2, <2>3
<1>8. ClaimedOK'
  BY <1>3, <1>5 DEF ClaimedOK
<1>9. \A k \in Launchers : lch'[k].dep <= bound
  BY <1>3 DEF Admitted
<1> QED BY <1>3, <1>7, <1>8, <1>9, PaperKept

\* Marks on the rows of live workers.
LEMMA MarksAdmitted ==
  ASSUME LaunchInv, Admitted, UNCHANGED <<req, work, job, lch, local, bound, lapses>>,
         \A n \in Names : /\ node'[n].req = node[n].req /\ node'[n].seen = node[n].seen /\ node'[n].up = node[n].up
                          /\ node'[n].resume => node[n].resume \/ node[n].up # None
  PROVE  Admitted'
<1>1. \A q \in Reqs, n \in Names : Due(q, n)' <=> Due(q, n)
  BY DEF Due
<1>2. ASSUME NEW q \in Reqs PROVE JobsOK(q)' /\ LedgerOK(q)'
  <2>1. JobsOK(q) /\ LedgerOK(q) /\ req[q].names \subseteq Names
    BY DEF Admitted, LaunchInv, Typed, ReqT
  <2>2. JobsOK(q)'
    BY <2>1 DEF JobsOK
  <2> QED BY <1>1, <2>1, <2>2 DEF LedgerOK, Expected
<1> QED BY <1>2 DEF Admitted, ClaimedOK

LEMMA SuspendAdmitted ==
  ASSUME LaunchAssumption, LaunchInv, Admitted, Budgeted, NEW n \in Names, Suspend(n)
  PROVE  Admitted' /\ Budgeted'
<1>1. node \in [Names -> NodeT]
  BY DEF LaunchInv, Typed
<1>2. /\ node' = [node EXCEPT ![n].resume = TRUE] /\ node[n].up # None
      /\ UNCHANGED <<req, work, job, lch, local, bound, lapses>>
  BY DEF Suspend
<1>3. \A m \in Names : /\ node'[m].req = node[m].req /\ node'[m].seen = node[m].seen /\ node'[m].up = node[m].up
                       /\ node'[m].sampler = node[m].sampler /\ (m # n => node'[m] = node[m])
  BY <1>1, <1>2 DEF NodeT
<1>4. Admitted'
  BY <1>2, <1>3, MarksAdmitted
<1>5. \A m \in Names : /\ Charged(m)' => Charged(m)
                       /\ node'[m].sampler => node[m].sampler
                       /\ Resumed(m) => Resumed(m)'
  BY <1>2, <1>3 DEF Charged, Awaits, Escaped, Resumed
<1> QED BY <1>4, <1>5, FewerCharged

\* The sampler role is given to a worker whose connections are counted with it.
LEMMA AssignSamplerAdmitted ==
  ASSUME LaunchAssumption, LaunchInv, Admitted, NEW n \in Names, AssignSampler(n)
  PROVE  Admitted' /\ Budgeted'
<1>1. node \in [Names -> NodeT]
  BY DEF LaunchInv, Typed
<1>2. /\ node' = [node EXCEPT ![n].sampler = TRUE] /\ Fits(node', 0)
      /\ UNCHANGED <<req, work, job, lch, local, bound, lapses>>
  BY DEF AssignSampler
<1>3. \A m \in Names : /\ node'[m].req = node[m].req /\ node'[m].seen = node[m].seen /\ node'[m].up = node[m].up
                       /\ node'[m].resume = node[m].resume
  BY <1>1, <1>2 DEF NodeT
<1>4. Admitted'
  BY <1>2, <1>3, MarksAdmitted
<1> DEFINE B == {m \in Names : Charged(m)'}
           H == {m \in Names : Heavy(m)'}
           nd == node'
<1>5. \A m \in B : nd[m].up # None \/ Awaits(nd, m)
  BY <1>2 DEF Charged, Awaits
<1>6. \A m \in H : nd[m].sampler /\ (nd[m].up # None \/ Awaits(nd, m))
  BY <1>2 DEF Heavy, Charged, Awaits
<1>7. Cardinality({}) <= 0 /\ {} \in SUBSET Names /\ 0 \in Nat
  BY FS_EmptySet
<1>8. Within(B, H)
  <2>1. B \in SUBSET Names /\ H \in SUBSET Names /\ Fits(nd, 0)
    BY <1>2
  <2> HIDE DEF B, H, nd
  <2> QED BY <1>5, <1>6, <1>7, <2>1, FitsWithin
<1>9. Budgeted'
  BY <1>8 DEF Budgeted, Within
<1> QED BY <1>4, <1>9

\* A new request for names that are free.
LEMMA ReserveAdmitted ==
  ASSUME LaunchAssumption, LaunchInv, LaunchInv', Admitted, NEW q \in Reqs, NEW b \in {"external", "local"},
         NEW S \in SUBSET Names, Reserve(q, b, S)
  PROVE  Admitted' /\ Budgeted'
<1> DEFINE r == [NoReq EXCEPT !.state = "pending", !.backend = b, !.names = S]
           v == [NoNode EXCEPT !.req = q]
<1>1. /\ req \in [Reqs -> ReqT] /\ node \in [Names -> NodeT] /\ JobsOK(q) /\ ReqOK(q) /\ q # None
      /\ \A p \in Reqs : req[p].names \subseteq Names
  BY DEF LaunchInv, Typed, Admitted, LaunchAssumption, ReqT
<1>2. r.state = "pending" /\ r.backend = b /\ r.names = S
  BY DEF NoReq
<1>3. v.req = q /\ v.up = None /\ ~v.resume /\ ~v.seen /\ ~v.sampler
  BY DEF NoNode
<1>4. /\ req' = [req EXCEPT ![q] = r] /\ node' = [n \in Names |-> IF n \in S THEN v ELSE node[n]]
      /\ UNCHANGED <<work, job, lch, local, bound, lapses>>
      /\ req[q].state = "none" /\ \A n \in S : node[n].req = None
      /\ Fits(node, Cardinality(S))
  BY DEF Reserve
<1> HIDE DEF r, v
<1>5. \A p \in Reqs : req'[p] = IF p = q THEN r ELSE req[p]
  BY <1>1, <1>4
<1>6. \A n \in Names : node'[n] = IF n \in S THEN v ELSE node[n]
  BY <1>4
<1>7. \A p \in Reqs, n \in Names : Due(p, n)' => Due(p, n)
  BY <1>4, DueFewer
<1>8. \A n \in Names : ~Due(q, n)
  BY <1>1, <1>4, DueFacts DEF JobsOK
<1>9. ASSUME NEW p \in Reqs PROVE JobsOK(p)' /\ LedgerOK(p)'
  <2>1. JobsOK(p) /\ LedgerOK(p)
    BY DEF Admitted
  <2>2. CASE p = q
    <3>1. JobsOK(q)'
      <4>1. \A n \in Names : job[q][n].state = "none" /\ node[n].req # q
        BY <1>1, <1>4 DEF ReqOK, JobsOK
      <4> QED BY <1>1, <1>2, <1>3, <1>4, <1>5, <1>6, <4>1 DEF JobsOK
    <3>2. LedgerOK(q)'
      BY <1>1, <1>2, <1>4, <1>5, <1>7, <1>8 DEF LedgerOK, ReqOK
    <3> QED BY <2>2, <3>1, <3>2
  <2>3. CASE p # q
    <3>1. req'[p] = req[p] /\ work' = work /\ job' = job /\ bound' = bound
      BY <1>4, <1>5, <2>3
    <3>2. JobsOK(p)'
      <4>1. \A n \in S : n \notin req[p].names /\ job[p][n].state = "none"
        BY <1>4, <2>1 DEF JobsOK
      <4> QED BY <1>1, <1>3, <1>6, <2>1, <2>3, <3>1, <4>1 DEF JobsOK
    <3>3. LedgerOK(p)'
      BY <1>7, <2>1, <3>1 DEF LedgerOK, Expected
    <3> QED BY <3>2, <3>3
  <2> QED BY <2>2, <2>3
<1>10. ClaimedOK'
  BY <1>4, <1>5 DEF Admitted, ClaimedOK, LaunchInv, LocalOK
<1>11. Admitted'
  BY <1>3, <1>4, <1>6, <1>9, <1>10 DEF Admitted
<1> DEFINE B == {n \in Names : Charged(n)'}
           H == {n \in Names : Heavy(n)'}
<1>12. ASSUME NEW n \in Names, Charged(n)', n \notin S PROVE node[n].up # None \/ Awaits(node, n)
  <2>1. node'[n] = node[n]
    BY <1>6, <1>12
  <2>2. CASE node[n].up # None
    BY <2>2
  <2>3. CASE node[n].up = None
    <3>1. node[n].req # None /\ node[n].req \in Reqs
      BY <1>1, <1>12, <2>1, <2>3 DEF Charged, Awaits, NodeT
    <3>2. node[n].req # q
      BY <1>1, <1>4 DEF JobsOK
    <3> QED BY <1>4, <1>5, <1>12, <2>1, <2>3, <3>1, <3>2 DEF Charged, Awaits
  <2> QED BY <2>2, <2>3
<1>13. \A n \in B : n \in S \/ node[n].up # None \/ Awaits(node, n)
  BY <1>12
<1>14. \A n \in H : node[n].sampler /\ (node[n].up # None \/ Awaits(node, n))
  BY <1>3, <1>6, <1>12 DEF Heavy
<1>15. Cardinality(S) \in Nat /\ Cardinality(S) <= Cardinality(S)
  <2>1. Cardinality(S) \in Nat
    BY FS_Subset, FS_CardinalityType DEF LaunchAssumption
  <2> QED BY <2>1
<1>16. Within(B, H)
  <2>1. B \in SUBSET Names /\ H \in SUBSET Names
    OBVIOUS
  <2> HIDE DEF B, H
  <2> QED BY <1>4, <1>13, <1>14, <1>15, <2>1, FitsWithin
<1>17. Budgeted'
  BY <1>16 DEF Budgeted, Within
<1> QED BY <1>11, <1>17

\* A worker that is resumed has no process left, and moves to its new request.
LEMMA ResumedAdmitted ==
  ASSUME LaunchAssumption, LaunchInv, LaunchInv', Admitted, NEW n \in Names, NEW q \in Reqs, EnqueueResumed(n, q)
  PROVE  Admitted' /\ Budgeted'
<1> DEFINE r == [NoReq EXCEPT !.state = "pending", !.names = {n}, !.backend = req[node[n].req].backend]
           v == [node[n] EXCEPT !.resume = FALSE, !.req = q, !.seen = FALSE]
<1>1. /\ req \in [Reqs -> ReqT] /\ node \in [Names -> NodeT] /\ node[n] \in NodeT
      /\ JobsOK(q) /\ ReqOK(q) /\ NodeOK(n) /\ q # None
      /\ \A p \in Reqs : req[p].names \subseteq Names
  BY DEF LaunchInv, Typed, Admitted, LaunchAssumption, ReqT
<1>2. r.state = "pending" /\ r.names = {n}
  BY DEF NoReq
<1>3. v.req = q /\ v.up = node[n].up /\ ~v.resume /\ ~v.seen
  BY <1>1 DEF NodeT
<1>4. /\ req' = [req EXCEPT ![q] = r] /\ node' = [node EXCEPT ![n] = v]
      /\ UNCHANGED <<work, job, lch, local, bound, lapses>>
      /\ req[q].state = "none" /\ node[n].resume /\ node[n].up = None
      /\ Fits(node, 1)
  BY <1>1 DEF EnqueueResumed
<1> HIDE DEF r, v
<1>5. \A p \in Reqs : req'[p] = IF p = q THEN r ELSE req[p]
  BY <1>1, <1>4
<1>6. \A m \in Names : node'[m] = IF m = n THEN v ELSE node[m]
  BY <1>1, <1>4
<1>7. \A p \in Reqs, m \in Names : Due(p, m)' => Due(p, m)
  BY <1>4, DueFewer
<1>8. \A m \in Names : ~Due(q, m)
  BY <1>1, <1>4, DueFacts DEF JobsOK
<1>9. node[n].seen /\ node[n].req \in Reqs /\ node[n].req # q /\ job[node[n].req][n].state = "ended"
  <2>1. node[n].seen /\ node[n].req \in Reqs
    BY <1>1, <1>4 DEF Admitted, NodeOK, NodeT
  <2>2. node[n].req # q
    BY <1>1, <1>4 DEF JobsOK
  <2>3. JobsOK(node[n].req) /\ node[n].req # None
    BY <1>1, <1>4, <2>1 DEF Admitted, NodeOK
  <2>4. job[node[n].req][n].state # "up"
    BY <1>4, <2>3 DEF JobsOK
  <2> QED BY <2>1, <2>2, <2>3, <2>4 DEF JobsOK
<1>10. ASSUME NEW p \in Reqs PROVE JobsOK(p)' /\ LedgerOK(p)'
  <2>1. JobsOK(p) /\ LedgerOK(p)
    BY DEF Admitted
  <2>2. CASE p = q
    <3>1. JobsOK(q)'
      <4>1. \A m \in Names : job[q][m].state = "none" /\ node[m].req # q
        BY <1>1, <1>4 DEF ReqOK, JobsOK
      <4> QED BY <1>1, <1>2, <1>3, <1>4, <1>5, <1>6, <4>1 DEF JobsOK
    <3>2. LedgerOK(q)'
      BY <1>1, <1>2, <1>4, <1>5, <1>7, <1>8 DEF LedgerOK, ReqOK
    <3> QED BY <2>2, <3>1, <3>2
  <2>3. CASE p # q
    <3>1. req'[p] = req[p] /\ work' = work /\ job' = job /\ bound' = bound
      BY <1>4, <1>5, <2>3
    <3>2. JobsOK(p)'
      <4>1. n \in req[p].names => job[p][n].state = "ended"
        BY <1>9, <2>1 DEF JobsOK
      <4>2. job[p][n].state # "up"
        BY <1>1, <1>4, <2>1 DEF JobsOK, LaunchAssumption
      <4> QED BY <1>1, <1>3, <1>6, <1>9, <2>1, <2>3, <3>1, <4>1, <4>2 DEF JobsOK
    <3>3. LedgerOK(p)'
      BY <1>7, <2>1, <3>1 DEF LedgerOK, Expected
    <3> QED BY <3>2, <3>3
  <2> QED BY <2>2, <2>3
<1>11. ClaimedOK'
  BY <1>4, <1>5 DEF Admitted, ClaimedOK, LaunchInv, LocalOK
<1>12. Admitted'
  BY <1>3, <1>4, <1>6, <1>10, <1>11 DEF Admitted
<1> DEFINE B == {m \in Names : Charged(m)'}
           H == {m \in Names : Heavy(m)'}
<1>13. ASSUME NEW m \in Names, Charged(m)', m # n PROVE node[m].up # None \/ Awaits(node, m)
  <2>1. node'[m] = node[m]
    BY <1>6, <1>13
  <2>2. CASE node[m].up # None
    BY <2>2
  <2>3. CASE node[m].up = None
    <3>1. node[m].req # None /\ node[m].req \in Reqs
      BY <1>1, <1>13, <2>1, <2>3 DEF Charged, Awaits, NodeT
    <3>2. node[m].req # q
      BY <1>1, <1>4 DEF JobsOK
    <3> QED BY <1>4, <1>5, <1>13, <2>1, <2>3, <3>1, <3>2 DEF Charged, Awaits
  <2> QED BY <2>2, <2>3
<1>14. \A m \in B : m \in {n} \/ node[m].up # None \/ Awaits(node, m)
  BY <1>13
<1>15. Resumed(n)'
  <2>1. JobsOK(node[n].req)
    BY <1>9 DEF Admitted
  <2>2. n \in req[node[n].req].names
    BY <1>9, <2>1 DEF JobsOK
  <2>3. n \in req'[node[n].req].names /\ node[n].req # node'[n].req
    BY <1>3, <1>5, <1>6, <1>9, <2>2
  <2> QED BY <1>9, <2>3 DEF Resumed
<1>16. \A m \in H : node[m].sampler /\ (node[m].up # None \/ Awaits(node, m))
  BY <1>6, <1>13, <1>15 DEF Heavy
<1>17. Cardinality({n}) <= 1 /\ {n} \in SUBSET Names /\ 1 \in Nat
  <2>1. Cardinality({n}) = 1
    BY FS_Singleton
  <2> QED BY <2>1
<1>18. Within(B, H)
  <2>1. B \in SUBSET Names /\ H \in SUBSET Names
    OBVIOUS
  <2> HIDE DEF B, H
  <2> QED BY <1>4, <1>14, <1>16, <1>17, <2>1, FitsWithin
<1>19. Budgeted'
  BY <1>18 DEF Budgeted, Within
<1> QED BY <1>12, <1>19

\* A process is started for a reservation that is due and had none.
LEMMA StartAdmitted ==
  ASSUME LaunchAssumption, LaunchInv, LaunchInv', Admitted, Budgeted, UNCHANGED <<req, work, node, bound, lapses>>,
         NEW q \in Reqs, NEW n \in Names, NEW d \in Nat, d <= bound,
         job' = [job EXCEPT ![q][n] = [state |-> "queued", dep |-> d]],
         job[q][n].state = "none", n \in req[q].names,
         \A p \in Reqs, m \in Names : Due(p, m)' => Due(p, m),
         \A l \in Launchers : lch'[l].dep <= bound,
         ClaimedOK'
  PROVE  Admitted' /\ Budgeted'
<1>1. job \in [Reqs -> [Names -> JobT]]
  BY DEF LaunchInv, Typed
<1>2. \A p \in Reqs, m \in Names :
        job'[p][m] = IF p = q /\ m = n THEN [state |-> "queued", dep |-> d] ELSE job[p][m]
  BY <1>1
<1>3. ASSUME NEW p \in Reqs PROVE JobsOK(p)' /\ LedgerOK(p)'
  <2>1. JobsOK(p) /\ LedgerOK(p) /\ req[p].names \subseteq Names
    BY DEF Admitted, LaunchInv, Typed, ReqT
  <2>2. CASE p # q
    <3>1. \A m \in Names : job'[p][m] = job[p][m]
      BY <1>2, <2>2
    <3> QED BY <2>1, <3>1 DEF JobsOK, LedgerOK, Expected
  <2>3. CASE p = q
    <3>1. \A m \in Names : m # n => job'[q][m] = job[q][m]
      BY <1>2
    <3>2. job'[q][n].state = "queued" /\ job'[q][n].dep = d
      BY <1>2
    <3>3. node[n].req = q /\ ~node[n].seen
      BY <2>1, <2>3 DEF JobsOK
    <3>4. JobsOK(q)'
      BY <2>1, <2>3, <3>1, <3>2, <3>3 DEF JobsOK
    <3> QED BY <2>1, <2>3, <3>4 DEF LedgerOK, Expected
  <2> QED BY <2>2, <2>3
<1>4. Admitted'
  BY <1>3 DEF Admitted
<1>5. \A m \in Names : /\ Charged(m)' => Charged(m)
                       /\ node'[m].sampler => node[m].sampler
                       /\ Resumed(m) => Resumed(m)'
  BY DEF Charged, Awaits, Escaped, Resumed
<1> QED BY <1>4, <1>5, FewerCharged

LEMMA SbatchAdmitted ==
  ASSUME LaunchAssumption, LaunchInv, LaunchInv', Admitted, Budgeted, NEW l \in Launchers, Sbatch(l)
  PROVE  Admitted' /\ Budgeted'
<1>1. lch \in [Launchers -> LchT] /\ lch[l] \in LchT
  BY DEF LaunchInv, Typed
<1>2. PICK q \in Reqs, n \in Names, d \in Nat : lch[l].q = q /\ lch[l].cur = n /\ lch[l].dep = d
  BY <1>1 DEF Sbatch, LaunchInv, LauncherOK, Critical, ReqT, Typed, LchT
<1>3. /\ lch[l].pc = "sbatch" /\ job' = [job EXCEPT ![q][n] = [state |-> "queued", dep |-> d]]
      /\ lch' = [lch EXCEPT ![l].pc = "receipt"]
      /\ UNCHANGED <<req, work, node, local, bound, lapses>>
  BY <1>2 DEF Sbatch, Started
<1>4. job[q][n].state = "none" /\ n \in req[q].names
  BY <1>2, <1>3 DEF LaunchInv, LauncherOK, Critical, ReqOK
<1>5. d <= bound
  BY <1>2 DEF Admitted
<1>6. \A k \in Launchers : /\ lch'[k].dep = lch[k].dep
                           /\ lch'[k].pc = "sbatch" => k # l /\ lch'[k] = lch[k]
  BY <1>1, <1>3 DEF LchT
<1>7. job \in [Reqs -> [Names -> JobT]]
  BY DEF LaunchInv, Typed
<1>8. \A p \in Reqs, m \in Names :
        job'[p][m] = IF p = q /\ m = n THEN [state |-> "queued", dep |-> d] ELSE job[p][m]
  BY <1>3, <1>7
<1>9. \A p \in Reqs, m \in Names : Due(p, m)' => Due(p, m)
  BY <1>2, <1>3, <1>6, <1>8 DEF Due
<1>10. (\A k \in Launchers : lch'[k].dep <= bound) /\ ClaimedOK'
  BY <1>3, <1>6 DEF Admitted, ClaimedOK
<1> QED BY <1>3, <1>4, <1>5, <1>9, <1>10, StartAdmitted

LEMMA SpawnNodeAdmitted ==
  ASSUME LaunchAssumption, LaunchInv, LaunchInv', Admitted, Budgeted, NEW n \in Names, SpawnNode(n)
  PROVE  Admitted' /\ Budgeted'
<1>1. local \in LchT /\ bound \in Nat /\ job \in [Reqs -> [Names -> JobT]]
  BY DEF LaunchInv, Typed
<1>2. PICK q \in Reqs : local.q = q
  BY DEF SpawnNode, LaunchInv, LocalOK
<1>3. /\ local.pc = "work" /\ n \in local.todo
      /\ job' = [job EXCEPT ![q][n] = [state |-> "queued", dep |-> bound]]
      /\ local' = [local EXCEPT !.todo = @ \ {n}]
      /\ UNCHANGED <<req, work, node, lch, bound, lapses>>
  BY <1>2 DEF SpawnNode, Started
<1>4. job[q][n].state = "none" /\ n \in req[q].names
  BY <1>2, <1>3 DEF LaunchInv, LocalOK, ReqOK
<1>5. local'.pc = "work" /\ local'.q = q /\ local'.todo = local.todo \ {n}
  BY <1>1, <1>2, <1>3 DEF LchT
<1>6. \A p \in Reqs, m \in Names :
        job'[p][m] = IF p = q /\ m = n THEN [state |-> "queued", dep |-> bound] ELSE job[p][m]
  BY <1>1, <1>3
<1>7. \A p \in Reqs, m \in Names : Due(p, m)' => Due(p, m)
  BY <1>2, <1>3, <1>5, <1>6 DEF Due
<1>8. (\A k \in Launchers : lch'[k].dep <= bound) /\ ClaimedOK' /\ bound <= bound
  BY <1>1, <1>2, <1>3, <1>5 DEF Admitted, ClaimedOK
<1> QED BY <1>1, <1>3, <1>4, <1>7, <1>8, StartAdmitted

\* A process that announces itself was charged for, unless its worker escaped.
LEMMA AnnounceAdmitted ==
  ASSUME LaunchAssumption, LaunchInv, LaunchInv', Admitted, Budgeted, NEW q \in Reqs, NEW n \in Names, Announce(q, n)
  PROVE  Admitted' /\ Budgeted'
<1>1. job \in [Reqs -> [Names -> JobT]] /\ node \in [Names -> NodeT] /\ q # None /\ JobsOK(q)
  BY DEF LaunchInv, Typed, LaunchAssumption, Admitted
<1>2. /\ job[q][n].state \in {"queued", "up"} /\ node[n].up = None /\ job[q][n].dep = bound
      /\ job' = [job EXCEPT ![q][n].state = "up"]
      /\ node' = [node EXCEPT ![n].up = q, ![n].seen = TRUE]
      /\ UNCHANGED <<req, work, lch, local, bound, lapses>>
  BY DEF Announce, Accepts
<1>3. Due(q, n)
  BY <1>1, <1>2 DEF JobsOK, Due
<1>4. n \in req[q].names /\ node[n].req = q /\ ~node[n].seen /\ Expected(q, n)
  BY <1>3, DueFacts
<1>5. \A p \in Reqs, m \in Names : /\ p # q \/ m # n => job'[p][m] = job[p][m]
                                   /\ job'[p][m].dep = job[p][m].dep
  BY <1>1, <1>2 DEF JobT
<1>6. job'[q][n].state = "up"
  BY <1>1, <1>2 DEF JobT
<1>7. \A m \in Names : /\ node'[m].req = node[m].req /\ node'[m].resume = node[m].resume
                       /\ node'[m].sampler = node[m].sampler
                       /\ (m = n \/ node[m].seen) => node'[m].seen
                       /\ m # n => (node'[m].seen => node[m].seen)
                       /\ node'[m].up = IF m = n THEN q ELSE node[m].up
  BY <1>1, <1>2 DEF NodeT
<1>8. \A p \in Reqs, m \in Names : Due(p, m)' => Due(p, m)
  BY <1>2, <1>5, <1>6 DEF Due
<1>9. ASSUME NEW p \in Reqs PROVE JobsOK(p)' /\ LedgerOK(p)'
  <2>1. JobsOK(p) /\ LedgerOK(p) /\ req[p].names \subseteq Names
    BY DEF Admitted, LaunchInv, Typed, ReqT
  <2>2. LedgerOK(p)'
    BY <1>2, <1>8, <2>1 DEF LedgerOK, Expected
  <2>3. CASE p # q
    <3>1. job[p][n].state # "up" /\ node[n].req # p
      BY <1>2, <1>4, <2>1, <2>3 DEF JobsOK, LaunchAssumption
    <3>2. \A m \in Names : /\ job'[p][m] = job[p][m]
                           /\ job[p][m].state = "up" => node'[m].up = node[m].up
                           /\ node[m].req = p => (node'[m].seen => node[m].seen)
      BY <1>5, <1>7, <2>3, <3>1
    <3>3. \A m \in Names : node'[m].req = node[m].req
      BY <1>7
    <3>4. UNCHANGED <<req, bound>>
      BY <1>2
    <3>5. JobsOK(p)'
      BY <2>1, <3>2, <3>3, <3>4 DEF JobsOK
    <3> QED BY <2>2, <3>5
  <2>4. CASE p = q
    <3>1. JobsOK(q)'
      BY <1>1, <1>2, <1>4, <1>5, <1>6, <1>7, <2>1, <2>4 DEF JobsOK
    <3> QED BY <2>2, <2>4, <3>1
  <2> QED BY <2>3, <2>4
<1>10. Admitted'
  BY <1>2, <1>7, <1>9 DEF Admitted, ClaimedOK
<1>11. Escaped(n) \/ Awaits(node, n)
  <2>1. req[q] \in ReqT /\ LedgerOK(q)
    BY DEF LaunchInv, Typed, Admitted
  <2>2. CASE req[q].backend = "external"
    BY <1>1, <1>2, <1>4, <2>2 DEF Expected, Awaits, Terminal
  <2>3. CASE req[q].backend = "local"
    <3>1. work[q][n] = "none"
      BY <2>1, <2>3 DEF LedgerOK
    <3> QED BY <1>1, <1>2, <1>4, <2>3, <3>1 DEF Expected, Awaits, Escaped, Terminal
  <2> QED BY <2>1, <2>2, <2>3 DEF ReqT
<1>12. \A m \in Names : /\ Charged(m)' => Charged(m)
                        /\ node'[m].sampler => node[m].sampler
                        /\ Resumed(m) => Resumed(m)'
  <2>1. ASSUME NEW m \in Names, Charged(m)' PROVE Charged(m)
    <3>1. CASE m = n
      <4>1. ~Escaped(n)
        BY <1>2, <1>7, <2>1, <3>1 DEF Charged, Escaped
      <4> QED BY <1>11, <3>1, <4>1 DEF Charged
    <3>2. CASE m # n
      BY <1>2, <1>7, <2>1, <3>2 DEF Charged, Awaits, Escaped
    <3> QED BY <3>1, <3>2
  <2> QED BY <1>2, <1>7, <2>1 DEF Resumed
<1> QED BY <1>10, <1>12, FewerCharged

\* A process that ends leaves room.
LEMMA JobEndsAdmitted ==
  ASSUME LaunchAssumption, LaunchInv, LaunchInv', Admitted, Budgeted, NEW q \in Reqs, NEW n \in Names, JobEnds(q, n)
  PROVE  Admitted' /\ Budgeted'
<1>1. job \in [Reqs -> [Names -> JobT]] /\ node \in [Names -> NodeT] /\ q # None
  BY DEF LaunchInv, Typed, LaunchAssumption
<1>2. /\ job[q][n].state \in {"queued", "up"}
      /\ job' = [job EXCEPT ![q][n].state = "ended"] /\ node' = Gone(node, q, n)
      /\ UNCHANGED <<req, work, lch, local, bound, lapses>>
  BY DEF JobEnds
<1>3. \A p \in Reqs, m \in Names : /\ p # q \/ m # n => job'[p][m] = job[p][m]
                                   /\ job'[p][m].dep = job[p][m].dep
  BY <1>1, <1>2 DEF JobT
<1>4. job'[q][n].state = "ended"
  BY <1>1, <1>2 DEF JobT
<1>5. \A m \in Names : /\ node'[m].req = node[m].req /\ node'[m].resume = node[m].resume
                       /\ node'[m].sampler => node[m].sampler
                       /\ node'[m].seen = node[m].seen
                       /\ node'[m].up = IF m = n /\ node[n].up = q THEN None ELSE node[m].up
  BY <1>1, <1>2 DEF Gone, NodeT
<1>6. \A p \in Reqs, m \in Names : Due(p, m)' => Due(p, m)
  BY <1>2, <1>3, <1>4 DEF Due
<1>7. ASSUME NEW p \in Reqs PROVE JobsOK(p)' /\ LedgerOK(p)'
  <2>1. JobsOK(p) /\ LedgerOK(p) /\ req[p].names \subseteq Names
    BY DEF Admitted, LaunchInv, Typed, ReqT
  <2>2. LedgerOK(p)'
    BY <1>2, <1>6, <2>1 DEF LedgerOK, Expected
  <2>3. CASE p # q
    <3>1. \A m \in Names : job'[p][m] = job[p][m] /\ (job[p][m].state = "up" => node'[m].up = node[m].up)
      BY <1>3, <1>5, <2>1, <2>3 DEF JobsOK
    <3> QED BY <1>2, <1>5, <2>1, <2>2, <3>1 DEF JobsOK
  <2>4. CASE p = q
    <3>1. JobsOK(q)'
      BY <1>2, <1>3, <1>4, <1>5, <2>1, <2>4 DEF JobsOK
    <3> QED BY <2>2, <2>4, <3>1
  <2> QED BY <2>3, <2>4
<1>8. Admitted'
  BY <1>2, <1>5, <1>7 DEF Admitted, ClaimedOK
<1>9. \A m \in Names : /\ Charged(m)' => Charged(m)
                       /\ node'[m].sampler => node[m].sampler
                       /\ Resumed(m) => Resumed(m)'
  <2>1. node[n].up = q => node[n].seen
    BY <1>1 DEF Admitted
  <2> QED BY <1>2, <1>5, <2>1 DEF Charged, Awaits, Escaped, Resumed
<1> QED BY <1>8, <1>9, FewerCharged

\* Another deployment: nothing of the last one is due but what a local launch has left.
LEMMA BindDeploymentAdmitted ==
  ASSUME LaunchAssumption, LaunchInv, LaunchInv', Admitted, Budgeted, BindDeployment
  PROVE  Admitted' /\ Budgeted'
<1>1. req \in [Reqs -> ReqT] /\ bound \in Nat /\ job \in [Reqs -> [Names -> JobT]] /\ lch \in [Launchers -> LchT]
  BY DEF LaunchInv, Typed
<1>2. /\ bound' = bound + 1 /\ UNCHANGED <<work, job, node, lch, local, lapses>>
      /\ \A n \in Names : node[n].up = None
  BY DEF BindDeployment
<1>3. \A q \in Reqs :
        /\ req'[q].names = req[q].names /\ req'[q].backend = req[q].backend
        /\ req'[q].state # req[q].state =>
             req[q].backend = "external" /\ req'[q].state = "canceled" /\ req[q].state \in {"pending", "starting"}
  BY <1>1 DEF BindDeployment, ReqT
<1>4. ASSUME NEW q \in Reqs, NEW n \in Names, Due(q, n)'
      PROVE  Due(q, n) /\ req[q].backend = "local"
  <2>1. job[q][n].dep \in Nat /\ job[q][n].dep <= bound
    BY <1>1 DEF Admitted, JobsOK, JobT
  <2>2. \A l \in Launchers : lch[l].dep \in Nat /\ lch[l].dep <= bound
    BY <1>1 DEF Admitted, LchT
  <2>3. local.pc = "work" /\ local.q = q /\ n \in local.todo
    BY <1>1, <1>2, <1>4, <2>1, <2>2 DEF Due
  <2> QED BY <2>3 DEF Due, LaunchInv, LocalOK
<1>5. ASSUME NEW q \in Reqs PROVE JobsOK(q)' /\ LedgerOK(q)'
  <2>1. JobsOK(q) /\ LedgerOK(q) /\ req[q].names \subseteq Names
    BY <1>1 DEF Admitted, ReqT
  <2>2. \A n \in Names : job[q][n].dep \in Nat /\ job[q][n].dep <= bound
    BY <1>1 DEF Admitted, JobsOK, JobT
  <2>3. \A n \in Names : job[q][n].dep <= bound + 1
    BY <1>1, <2>2
  <2>4. JobsOK(q)'
    BY <1>2, <1>3, <2>1, <2>3 DEF JobsOK
  <2>5. LedgerOK(q)'
    BY <1>2, <1>3, <1>4, <2>1 DEF LedgerOK, Expected
  <2> QED BY <2>4, <2>5
<1>6. \A l \in Launchers : lch'[l].dep <= bound'
  <2>1. \A l \in Launchers : lch[l].dep \in Nat /\ lch[l].dep <= bound
    BY <1>1 DEF Admitted, LchT
  <2> QED BY <1>1, <1>2, <2>1
<1>7. ClaimedOK'
  BY <1>2, <1>3 DEF Admitted, ClaimedOK, LaunchInv, LocalOK
<1>8. Admitted'
  BY <1>2, <1>5, <1>6, <1>7 DEF Admitted
<1>9. \A n \in Names : node[n].req # None => node[n].req \in Reqs
  BY DEF LaunchInv, Typed, NodeT
<1>10. \A n \in Names : /\ Charged(n)' => Charged(n)
                        /\ node'[n].sampler => node[n].sampler
                        /\ Resumed(n) => Resumed(n)'
  BY <1>2, <1>3, <1>9 DEF Charged, Awaits, Escaped, Resumed
<1> QED BY <1>8, <1>10, FewerCharged

LEMMA AdmittedInit ==
  ASSUME LaunchAssumption, Init
  PROVE  Admitted /\ Budgeted
<1>1. Idle.pc = "idle" /\ Idle.dep = 0 /\ 0 <= bound
  BY DEF Idle, Init
<1>2. ASSUME NEW q \in Reqs PROVE JobsOK(q) /\ LedgerOK(q)
  <2>1. req[q] = NoReq /\ q # None
    BY DEF Init, LaunchAssumption
  <2>2. \A n \in Names : ~Due(q, n)
    BY <1>1 DEF Init, Due
  <2>3. JobsOK(q)
    BY <1>1, <2>1 DEF Init, JobsOK, NoReq, NoNode
  <2> QED BY <2>1, <2>2, <2>3 DEF LedgerOK, NoReq
<1>3. Admitted
  BY <1>1, <1>2 DEF Init, Admitted, ClaimedOK, NoNode
<1>4. {n \in Names : Charged(n)} = {}
  BY DEF Init, Charged, Awaits, NoNode
<1> QED BY <1>3, <1>4 DEF Budgeted, Within

LEMMA AdmittedStep ==
  ASSUME LaunchAssumption, MaxLapses = 0, LaunchInv, LaunchInv', Admitted, Budgeted, [Next]_vars
  PROVE  Admitted' /\ Budgeted'
<1>1. ASSUME NEW q \in Reqs, NEW b \in {"external", "local"}, NEW S \in SUBSET Names, Reserve(q, b, S)
      PROVE  Admitted' /\ Budgeted'
  BY <1>1, ReserveAdmitted
<1>2. ASSUME NEW n \in Names, Suspend(n) \/ AssignSampler(n) \/ SpawnNode(n) \/ LeaseLapses(n)
      PROVE  Admitted' /\ Budgeted'
  <2>1. ~LeaseLapses(n)
    BY DEF LeaseLapses, Admitted
  <2> QED BY <1>2, <2>1, SuspendAdmitted, AssignSamplerAdmitted, SpawnNodeAdmitted
<1>3. ASSUME NEW q \in Reqs, ClaimLocal(q) \/ LauncherLeaseExpires(q)
      PROVE  Admitted' /\ Budgeted'
  BY <1>3, ClaimLocalAdmitted, LeaseExpiresAdmitted
<1>4. ASSUME NEW q \in Reqs, NEW n \in Names,
             EnqueueResumed(n, q) \/ ResetSubmission(q, n) \/ Announce(q, n) \/ JobEnds(q, n)
      PROVE  Admitted' /\ Budgeted'
  BY <1>4, ResumedAdmitted, ResetAdmitted, AnnounceAdmitted, JobEndsAdmitted
<1>5. ASSUME NEW l \in Launchers, NEW q \in Reqs, Claim(l, q)
      PROVE  Admitted' /\ Budgeted'
  BY <1>5, ClaimAdmitted
<1>6. ASSUME NEW l \in Launchers, NEW n \in Names, Visit(l, n)
      PROVE  Admitted' /\ Budgeted'
  BY <1>6, VisitAdmitted
<1>7. ASSUME NEW l \in Launchers, Intend(l) \/ Sbatch(l) \/ Receipt(l) \/ EndPass(l) \/ LauncherCrash(l)
      PROVE  Admitted' /\ Budgeted'
  <2>1. CASE EndPass(l)
    <3>1. Abandon(l) /\ lch[l].pc # "idle" /\ UNCHANGED <<job, node, bound, local, lapses>>
      BY <2>1 DEF EndPass
    <3> QED BY <3>1, AbandonAdmitted
  <2> QED BY <1>7, <2>1, IntendAdmitted, SbatchAdmitted, ReceiptAdmitted, CrashesAdmitted
<1>8. CASE ReconcileFulfilled \/ BindDeployment \/ MarkStarting \/ SpawnFails \/ LocalCrash
  BY <1>8, ReconcileAdmitted, BindDeploymentAdmitted, LocalEndAdmitted, CrashesAdmitted
<1>9. CASE UNCHANGED vars
  <2>1. UNCHANGED <<req, work, job, node, lch, local, bound, lapses>>
    BY <1>9 DEF vars
  <2>2. Admitted'
    BY <2>1, MarksAdmitted DEF Admitted
  <2>3. \A n \in Names : /\ Charged(n)' => Charged(n)
                         /\ node'[n].sampler => node[n].sampler
                         /\ Resumed(n) => Resumed(n)'
    BY <2>1 DEF Charged, Awaits, Escaped, Resumed
  <2> QED BY <2>2, <2>3, FewerCharged
<1> QED BY <1>1, <1>2, <1>3, <1>4, <1>5, <1>6, <1>7, <1>8, <1>9 DEF Next

\* The processes with a live lease fit the connections PostgreSQL has beyond its reserve and
\* the headroom (check_worker_connection_budget under the lock of all admissions), as long as
\* no worker that still runs loses its lease; workers of a failed local launch and the role of
\* resumed samplers are outside the budget.
THEOREM ConnectionsSuffice ==
  ASSUME LaunchAssumption, MaxLapses = 0
  PROVE  Spec => []WithinBudget
<1>1. Init => LaunchInv /\ Admitted /\ Budgeted
  BY LaunchInvInit, AdmittedInit
<1>2. LaunchInv /\ Admitted /\ Budgeted /\ [Next]_vars => (LaunchInv /\ Admitted /\ Budgeted)'
  BY LaunchInvStep, AdmittedStep
<1>3. Budgeted => WithinBudget
  <2> SUFFICES ASSUME Budgeted PROVE WithinBudget
    OBVIOUS
  <2> DEFINE B == {n \in Names : Charged(n)}
             H == {n \in Names : Heavy(n)}
             live == {n \in Names : node[n].up # None /\ ~Escaped(n)}
             samplers == {n \in live : node[n].sampler /\ ~Resumed(n)}
  <2>1. live \in SUBSET B /\ samplers \in SUBSET H /\ B \in SUBSET Names /\ H \in SUBSET Names
    BY DEF Charged, Heavy
  <2>2. Within(B, H)
    BY DEF Budgeted
  <2>3. Within(live, samplers)
    <3> HIDE DEF B, H, live, samplers
    <3> QED BY <2>1, <2>2, WithinFewer
  <2> QED BY <2>3 DEF Within, WithinBudget
<1> QED BY <1>1, <1>2, <1>3, PTL DEF Spec

\* Launches as a whole (external_launch.rs, node_launch.rs, connection_budget.rs): one process for a
\* reservation, live workers within the connection budget and of the bound deployment, and no
\* success reported that was not or taken back, for any launchers, crashes and superseded claims.
THEOREM LaunchSafe ==
  ASSUME LaunchAssumption, MaxLapses = 0
  PROVE  Spec => LaunchedOnce
BY LaunchTyped, StartedOnce, ConnectionsSuffice, DeploymentsSeparate, FulfilledMeansConnected,
   ConnectedForGood, PTL DEF LaunchedOnce
=============================================================================
