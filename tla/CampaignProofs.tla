--------------------------- MODULE CampaignProofs ---------------------------
(***************************************************************************)
(* What Campaign guarantees for any children, cap, quantum, minima and     *)
(* bounds: grants are portions of the cap, at most one quantum is granted  *)
(* at a time, and a campaign completes on what it granted and after every  *)
(* child's pilot.  The first part shows that the sum of a function, which  *)
(* the library defines by a fold over subsets, exists and grows with its   *)
(* terms; the invariant then ties each tick to the children it has seen.   *)
(***************************************************************************)
EXTENDS Campaign, FiniteSetTheorems, WellFoundedInduction, TLAPS

-----------------------------------------------------------------------------
(* Sums.                                                                   *)

\* A family of subsets of a finite set has a smallest member.
LEMMA LeastSet ==
  ASSUME NEW D, IsFiniteSet(D), NEW B \in SUBSET (SUBSET D), B # {}
  PROVE  \E s \in B : \A u \in SUBSET s : u \in B => u = s
<1> DEFINE N == {Cardinality(s) : s \in B}
           R == {ss \in Nat \X Nat : ss[1] < ss[2]}
<1>1. \A s \in SUBSET D : IsFiniteSet(s) /\ Cardinality(s) \in Nat
  BY FS_Subset, FS_CardinalityType
<1>2. N \in SUBSET Nat /\ N # {}
  BY <1>1
<1>3. IsWellFoundedOn(R, Nat)
  BY NatLessThanWellFounded DEF OpToRel
<1>4. \A x, y \in Nat : <<y, x>> \in R <=> y < x
  OBVIOUS
<1> HIDE DEF R
<1>5. PICK m \in N : \A n \in N : ~ (n < m)
  <2> HIDE DEF N
  <2>1. PICK m \in N : \A n \in N : ~ (<<n, m>> \in R)
    BY <1>2, <1>3, WFMin
  <2> QED BY <1>2, <1>4, <2>1
<1>6. PICK s \in B : m = Cardinality(s)
  BY <1>5
<1>7. ASSUME NEW u \in SUBSET s, u \in B PROVE u = s
  <2>1. IsFiniteSet(s) /\ Cardinality(s) \in Nat /\ Cardinality(u) \in Nat
    BY <1>1
  <2>2. Cardinality(u) <= Cardinality(s) /\ (Cardinality(s) = Cardinality(u) => s = u)
    BY <2>1, FS_Subset
  <2>3. ~ (Cardinality(u) < Cardinality(s))
    BY <1>5, <1>6, <1>7
  <2> QED BY <2>1, <2>2, <2>3
<1> QED BY <1>7

\* The folding function of a sum over the subsets of T.
Picked(s) == CHOOSE x \in s : TRUE
IsSum(f, T, h) ==
  h = [s \in SUBSET T |-> IF s = {} THEN 0 ELSE f[Picked(s)] + h[s \ {Picked(s)}]]

LEMMA SumOfIs ==
  ASSUME NEW f
  PROVE  SumOf(f) = (CHOOSE h : IsSum(f, DOMAIN f, h))[DOMAIN f]
BY DEF SumOf, MapThenSumSet, MapThenFoldSet, IsSum, Picked

LEMMA IsSumAt ==
  ASSUME NEW f, NEW T, NEW h, IsSum(f, T, h), NEW s \in SUBSET T
  PROVE  /\ s = {} => h[s] = 0
         /\ s # {} => /\ Picked(s) \in s /\ s \ {Picked(s)} \in SUBSET T /\ s \ {Picked(s)} # s
                      /\ h[s] = f[Picked(s)] + h[s \ {Picked(s)}]
<1>1. h[s] = IF s = {} THEN 0 ELSE f[Picked(s)] + h[s \ {Picked(s)}]
  BY DEF IsSum
<1>2. s # {} => Picked(s) \in s
  BY DEF Picked
<1> QED BY <1>1, <1>2

LEMMA EmptySum ==
  ASSUME NEW f, NEW T, NEW h, IsSum(f, T, h)
  PROVE  h[{}] = 0
<1>1. {} \in SUBSET T
  OBVIOUS
<1> QED BY <1>1 DEF IsSum

\* Two of them agree where both are defined.
LEMMA SumUnique ==
  ASSUME NEW f, NEW T, NEW U, IsFiniteSet(T), NEW g, NEW h, IsSum(f, T, g), IsSum(f, U, h),
         NEW s \in SUBSET T, s \in SUBSET U
  PROVE  g[s] = h[s]
<1> DEFINE B == {u \in SUBSET T : u \in SUBSET U /\ g[u] # h[u]}
<1> SUFFICES B = {}
  OBVIOUS
<1> SUFFICES ASSUME B # {} PROVE FALSE
  OBVIOUS
<1>1. PICK u \in B : \A v \in SUBSET u : v \in B => v = u
  <2>1. B \in SUBSET (SUBSET T)
    OBVIOUS
  <2> HIDE DEF B
  <2> QED BY <2>1, LeastSet
<1>2. u \in SUBSET T /\ u \in SUBSET U /\ g[u] # h[u]
  BY <1>1
<1>3. u # {}
  BY <1>2, IsSumAt
<1>4. /\ Picked(u) \in u /\ u \ {Picked(u)} # u
      /\ g[u] = f[Picked(u)] + g[u \ {Picked(u)}]
      /\ h[u] = f[Picked(u)] + h[u \ {Picked(u)}]
  BY <1>2, <1>3, IsSumAt
<1>5. u \ {Picked(u)} \notin B
  BY <1>1, <1>4
<1>6. g[u \ {Picked(u)}] = h[u \ {Picked(u)}]
  BY <1>2, <1>5
<1> QED BY <1>2, <1>4, <1>6

\* There is one.
LEMMA SumExists ==
  ASSUME NEW f, NEW D, IsFiniteSet(D)
  PROVE  \E h : IsSum(f, D, h)
<1> DEFINE B == {T \in SUBSET D : ~ \E h : IsSum(f, T, h)}
<1> SUFFICES ASSUME B # {} PROVE FALSE
  OBVIOUS
<1>1. PICK T \in B : \A u \in SUBSET T : u \in B => u = T
  <2>1. B \in SUBSET (SUBSET D)
    OBVIOUS
  <2> HIDE DEF B
  <2> QED BY <2>1, LeastSet
<1>2. T \in SUBSET D /\ ~ \E h : IsSum(f, T, h)
  BY <1>1
<1> DEFINE Val(u) == (CHOOSE h : IsSum(f, u, h))[u]
           g == [s \in SUBSET T |-> IF s = {} THEN 0 ELSE f[Picked(s)] + Val(s \ {Picked(s)})]
<1>3. ASSUME NEW u \in SUBSET T, u # T
      PROVE  IsSum(f, u, CHOOSE h : IsSum(f, u, h))
  <2>1. u \notin B
    BY <1>1, <1>3
  <2>2. \E h : IsSum(f, u, h)
    BY <2>1
  <2> QED BY <2>2
<1>4. ASSUME NEW u \in SUBSET T, u # T
      PROVE  g[u] = Val(u)
  <2> DEFINE k == CHOOSE h : IsSum(f, u, h)
  <2>1. IsSum(f, u, k)
    BY <1>3, <1>4
  <2>2. CASE u = {}
    <3>1. k[u] = 0
      <4> HIDE DEF k
      <4> QED BY <2>1, <2>2, IsSumAt
    <3> QED BY <2>2, <3>1
  <2>3. CASE u # {}
    <3> DEFINE v == u \ {Picked(u)}
               j == CHOOSE h : IsSum(f, v, h)
    <3>1. Picked(u) \in u
      BY <2>3 DEF Picked
    <3>2. v \in SUBSET T /\ v # T /\ v \in SUBSET u
      BY <3>1
    <3>3. IsSum(f, v, j)
      BY <1>3, <3>2
    <3>4. k[u] = f[Picked(u)] + k[v]
      <4> HIDE DEF k
      <4> QED BY <2>1, <2>3, IsSumAt
    <3>5. IsFiniteSet(u)
      BY <1>2, FS_Subset
    <3>6. k[v] = j[v]
      <4> HIDE DEF k, j, v
      <4> QED BY <2>1, <3>2, <3>3, <3>5, SumUnique
    <3>7. Val(u) = k[u] /\ Val(v) = j[v]
      OBVIOUS
    <3>8. g[u] = f[Picked(u)] + Val(v)
      BY <2>3
    <3> QED BY <3>4, <3>6, <3>7, <3>8
  <2> QED BY <2>2, <2>3
<1>5. IsSum(f, T, g)
  <2>1. ASSUME NEW s \in SUBSET T, s # {}
        PROVE  Val(s \ {Picked(s)}) = g[s \ {Picked(s)}]
    <3>1. Picked(s) \in s
      BY <2>1 DEF Picked
    <3>2. s \ {Picked(s)} \in SUBSET T /\ s \ {Picked(s)} # T
      BY <3>1
    <3> HIDE DEF g, Val
    <3> QED BY <1>4, <3>2
  <2>2. \A s \in SUBSET T : g[s] = IF s = {} THEN 0 ELSE f[Picked(s)] + g[s \ {Picked(s)}]
    <3>1. \A s \in SUBSET T : g[s] = IF s = {} THEN 0 ELSE f[Picked(s)] + Val(s \ {Picked(s)})
      OBVIOUS
    <3> HIDE DEF g, Val
    <3> QED BY <2>1, <3>1
  <2>3. g = [s \in SUBSET T |-> g[s]]
    OBVIOUS
  <2> HIDE DEF g
  <2> QED BY <2>2, <2>3 DEF IsSum
<1> QED BY <1>2, <1>5

\* A sum of natural numbers is one, and grows with its terms.
LEMMA SumGrows ==
  ASSUME NEW D, IsFiniteSet(D), NEW f \in [D -> Nat], NEW g \in [D -> Nat],
         \A x \in D : f[x] <= g[x]
  PROVE  SumOf(f) \in Nat /\ SumOf(g) \in Nat /\ SumOf(f) <= SumOf(g)
<1> DEFINE h == CHOOSE h : IsSum(f, D, h)
           k == CHOOSE k : IsSum(g, D, k)
<1>1. IsSum(f, D, h) /\ IsSum(g, D, k)
  BY SumExists
<1>2. SumOf(f) = h[D] /\ SumOf(g) = k[D]
  <2>1. DOMAIN f = D /\ DOMAIN g = D
    OBVIOUS
  <2> QED BY <2>1, SumOfIs
<1> HIDE DEF h, k
<1> DEFINE B == {s \in SUBSET D : ~ (h[s] \in Nat /\ k[s] \in Nat /\ h[s] <= k[s])}
<1> SUFFICES B = {}
  BY <1>2
<1> SUFFICES ASSUME B # {} PROVE FALSE
  OBVIOUS
<1>3. PICK s \in B : \A u \in SUBSET s : u \in B => u = s
  <2>1. B \in SUBSET (SUBSET D)
    OBVIOUS
  <2> HIDE DEF B
  <2> QED BY <2>1, LeastSet
<1>4. s # {}
  <2>1. h[{}] = 0
    BY <1>1, EmptySum
  <2>2. k[{}] = 0
    BY <1>1, EmptySum
  <2>3. \A t \in B : ~ (h[t] \in Nat /\ k[t] \in Nat /\ h[t] <= k[t])
    OBVIOUS
  <2>4. h[{}] \in Nat /\ k[{}] \in Nat /\ h[{}] <= k[{}]
    <3> HIDE DEF B
    <3> QED BY <2>1, <2>2
  <2>5. {} \notin B
    <3> HIDE DEF B
    <3> QED BY <2>3, <2>4
  <2> HIDE DEF B
  <2> QED BY <1>3, <2>5
<1>5. /\ Picked(s) \in s /\ s \ {Picked(s)} \in SUBSET D /\ s \ {Picked(s)} # s
      /\ h[s] = f[Picked(s)] + h[s \ {Picked(s)}]
      /\ k[s] = g[Picked(s)] + k[s \ {Picked(s)}]
  BY <1>1, <1>3, <1>4, IsSumAt
<1> DEFINE u == s \ {Picked(s)}
<1>6. h[u] \in Nat /\ k[u] \in Nat /\ h[u] <= k[u]
  BY <1>3, <1>5
<1>7. Picked(s) \in D
  BY <1>5
<1>8. f[Picked(s)] \in Nat /\ g[Picked(s)] \in Nat /\ f[Picked(s)] <= g[Picked(s)]
  BY <1>7
<1> HIDE DEF u
<1>9. h[s] \in Nat /\ k[s] \in Nat /\ h[s] <= k[s]
  BY <1>5, <1>6, <1>8 DEF u
<1> QED BY <1>3, <1>9
-----------------------------------------------------------------------------
(* The invariant.                                                          *)

States   == {"active", "completed", "failed"}
SamplerT == [prod : 0 .. Size, done : 0 .. Size]
KidT     == [made : BOOLEAN, state : States, prod : 0 .. Size, done : 0 .. Size, ck : SamplerT]
OutT     == [selected : SUBSET Children, draining : BOOLEAN]

Typed ==
  /\ task \in States
  /\ kid \in [Children -> KidT]
  /\ role \in [Children -> {None} \cup SamplerT]
  /\ grant \in [Children -> -1 .. Cap]
  /\ placed \subseteq Children /\ slots \in 0 .. MaxSlots
  /\ out \in OutT
  /\ peak \in [Children -> 0 .. Size]
  /\ faults \in 0 .. MaxFaults

\* A sampler runs for an active child, beyond its checkpoint and within the grant.
SamplerOK(c) ==
  role[c] # None =>
    /\ kid[c].state = "active"
    /\ kid[c].ck.prod <= role[c].prod
    /\ role[c].done <= role[c].prod /\ role[c].prod <= grant[c]

\* What is persisted of a child lies within its grant, and the grant at most one quantum
\* beyond what the child has ever completed.
ChildOK(c) ==
  /\ kid[c].ck.done <= kid[c].ck.prod /\ kid[c].ck.prod <= kid[c].prod
  /\ kid[c].prod > 0 => kid[c].prod <= grant[c]
  /\ kid[c].done <= peak[c] /\ kid[c].ck.done <= peak[c]
  /\ grant[c] >= 0 => kid[c].made
  /\ grant[c] <= peak[c] + Window
  /\ c \in placed => grant[c] >= 0

\* What completion promises of a child; it stays so as long as grants stay.
DrainedChild(c) ==
  (peak[c] >= grant[c] \/ kid[c].state = "completed") /\ Ready(peak[c])
Drained == \A c \in Children : DrainedChild(c)
Piloted == SumOf(peak) >= Cap \/ \A c \in Children : peak[c] - Train >= MinSamples

\* What a tick has seen of a child was so, and what is final still is.
SeenOK(s, c) ==
  /\ kid[c].made /\ s.state \in States /\ s.done \in 0 .. Size /\ s.ready \in BOOLEAN
  /\ s.done <= peak[c]
  /\ s.ready => Ready(s.done)
  /\ s.state = "completed" => kid[c].state = "completed"

Reading == ctl.pc \in {"nodes", "budget", "decide"}
Granting == ctl.pc \in {"grant", "place", "publish"}
Ending == ctl.pc \in {"release", "finish"}

\* The tick: the grants it read are those in force, it asks for one quantum, and it ends
\* a campaign that is drained.
CtlOK ==
  /\ ctl = IdleCtl \/ Reading \/ Granting \/ Ending
  /\ Reading => ctl.was \in OutT /\ \A c \in Children : SeenOK(ctl.seen[c], c)
  /\ ctl.pc = "decide" => ctl.budget = grant
  /\ ctl.pc = "decide" \/ Granting => \A c \in Children : grant[c] >= 0
  /\ Granting => ctl.to \in SUBSET Children /\ ctl.draining \in BOOLEAN
  /\ ctl.pc = "grant" =>
       /\ DOMAIN ctl.requests \subseteq Children
       /\ \A c \in DOMAIN ctl.requests : ctl.requests[c] \in Nat /\ ctl.requests[c] <= peak[c] + Window
  /\ ctl.pc = "place" => ctl = [pc |-> "place", to |-> ctl.to, draining |-> ctl.draining]
  /\ ctl.pc = "release" => ctl.to \in States
  /\ ctl.pc = "finish" => ctl.to \in {"completed", "failed"}
  /\ Ending /\ ctl.to = "completed" => Drained /\ Piloted

EndOK ==
  /\ task # "active" => ctl = IdleCtl
  /\ task = "completed" => Drained /\ Piloted

\* The inductive invariant.
CampaignInv ==
  /\ Typed
  /\ \A c \in Children : SamplerOK(c) /\ ChildOK(c)
  /\ Granted(grant) <= Cap
  /\ CtlOK /\ EndOK
-----------------------------------------------------------------------------
(* Numbers.                                                                *)

LEMMA MaxTwo ==
  ASSUME NEW a \in Int, NEW b \in Int
  PROVE  Max({a, b}) \in {a, b} /\ Max({a, b}) >= a /\ Max({a, b}) >= b
<1>1. \E x \in {a, b} : \A y \in {a, b} : x >= y
  <2>1. CASE a >= b
    BY <2>1
  <2>2. CASE b >= a
    BY <2>2
  <2> QED BY <2>1, <2>2
<1> QED BY <1>1 DEF Max

LEMMA MinTwo ==
  ASSUME NEW a \in Int, NEW b \in Int
  PROVE  Min({a, b}) \in {a, b} /\ Min({a, b}) <= a /\ Min({a, b}) <= b
<1>1. \E x \in {a, b} : \A y \in {a, b} : x <= y
  <2>1. CASE a <= b
    BY <2>1
  <2>2. CASE b <= a
    BY <2>2
  <2> QED BY <2>1, <2>2
<1> QED BY <1>1 DEF Min

\* The numbers of the constants.
LEMMA Numbers ==
  ASSUME CampaignAssumption
  PROVE  /\ Cap \in Nat /\ Window \in Nat /\ MinSamples \in Nat /\ Size \in Nat /\ MaxSlots \in Nat
         /\ Cap > 0 /\ Window > 0 /\ Size > 0
         /\ Train \in Nat /\ MinTotal \in Nat /\ MaxFaults \in Nat /\ IsFiniteSet(Children)
BY DEF CampaignAssumption

\* Grants sum up to a number, and to no more when none grows.
LEMMA GrantedGrows ==
  ASSUME CampaignAssumption, NEW g \in [Children -> Int], NEW h \in [Children -> Int],
         \A c \in Children : g[c] <= h[c] \/ g[c] <= 0
  PROVE  Granted(g) \in Nat /\ Granted(h) \in Nat /\ Granted(g) <= Granted(h)
<1> DEFINE f == [c \in Children |-> Max({g[c], 0})]
           k == [c \in Children |-> Max({h[c], 0})]
<1>1. ASSUME NEW c \in Children
      PROVE  f[c] \in Nat /\ k[c] \in Nat /\ f[c] <= k[c]
  <2>1. g[c] \in Int /\ h[c] \in Int /\ 0 \in Int
    OBVIOUS
  <2>2. Max({g[c], 0}) \in {g[c], 0} /\ Max({g[c], 0}) >= 0
    BY <2>1, MaxTwo
  <2>3. Max({h[c], 0}) \in {h[c], 0} /\ Max({h[c], 0}) >= 0 /\ Max({h[c], 0}) >= h[c]
    BY <2>1, MaxTwo
  <2>4. f[c] = Max({g[c], 0}) /\ k[c] = Max({h[c], 0})
    OBVIOUS
  <2> HIDE DEF f, k
  <2> QED BY <2>1, <2>2, <2>3, <2>4
<1>2. f \in [Children -> Nat] /\ k \in [Children -> Nat]
  BY <1>1
<1>3. Granted(g) = SumOf(f) /\ Granted(h) = SumOf(k)
  BY DEF Granted
<1> HIDE DEF f, k
<1> QED BY <1>1, <1>2, <1>3, SumGrows, Numbers

-----------------------------------------------------------------------------
(* Steps of a child.                                                       *)

\* What is promised of all children stays while children only get further.
LEMMA PromiseStays ==
  ASSUME CampaignAssumption, Typed, Typed',
         \A c \in Children : /\ peak[c] <= peak'[c] /\ grant'[c] = grant[c]
                             /\ kid[c].state = "completed" => kid'[c].state = "completed"
  PROVE  /\ Drained => Drained'
         /\ Piloted => Piloted'
<1>1. /\ \A c \in Children : peak[c] \in Nat /\ peak'[c] \in Nat /\ grant[c] \in Int
      /\ peak \in [Children -> Nat] /\ peak' \in [Children -> Nat]
  BY Numbers DEF Typed
<1>2. Drained => Drained'
  BY <1>1, Numbers DEF Drained, DrainedChild, Ready
<1>3. SumOf(peak) \in Nat /\ SumOf(peak') \in Nat /\ SumOf(peak) <= SumOf(peak')
  BY <1>1, SumGrows, Numbers
<1>4. Piloted => Piloted'
  BY <1>1, <1>3, Numbers DEF Piloted
<1> QED BY <1>2, <1>4

\* What a tick has seen stays true.
LEMMA SeenStays ==
  ASSUME CampaignAssumption, Typed, Typed', NEW c \in Children, NEW s, SeenOK(s, c),
         kid'[c].made = kid[c].made, peak[c] <= peak'[c],
         kid[c].state = "completed" => kid'[c].state = "completed"
  PROVE  SeenOK(s, c)'
<1>1. peak[c] \in Nat /\ peak'[c] \in Nat
  BY Numbers DEF Typed
<1> QED BY <1>1 DEF SeenOK, Ready

\* A child moves on within its grant.
LEMMA ChildMoves ==
  ASSUME CampaignAssumption, CampaignInv, NEW c \in Children,
         UNCHANGED <<task, grant, placed, slots, out, ctl>>, faults' \in 0 .. MaxFaults,
         NEW k \in KidT, kid' = [kid EXCEPT ![c] = k],
         NEW r \in {None} \cup SamplerT, role' = [role EXCEPT ![c] = r],
         NEW p \in 0 .. Size, peak' = [peak EXCEPT ![c] = p],
         k.made = kid[c].made, kid[c].state = "completed" => k.state = "completed",
         peak[c] <= p, SamplerOK(c)',
         k.ck.done <= k.ck.prod, k.ck.prod <= k.prod, k.prod > 0 => k.prod <= grant[c],
         k.done <= p, k.ck.done <= p
  PROVE  CampaignInv'
<1>1. Typed'
  BY DEF CampaignInv, Typed
<1>2. \A d \in Children : /\ kid'[d] = IF d = c THEN k ELSE kid[d]
                          /\ role'[d] = IF d = c THEN r ELSE role[d]
                          /\ peak'[d] = IF d = c THEN p ELSE peak[d]
  BY DEF CampaignInv, Typed
<1>3. \A d \in Children : /\ peak[d] <= peak'[d] /\ grant'[d] = grant[d] /\ kid'[d].made = kid[d].made
                          /\ kid[d].state = "completed" => kid'[d].state = "completed"
  <2>1. \A d \in Children : peak[d] \in Nat
    BY Numbers DEF CampaignInv, Typed
  <2> QED BY <1>2, <2>1
<1>4. ASSUME NEW d \in Children PROVE SamplerOK(d)'
  BY <1>2 DEF CampaignInv, SamplerOK
<1>5. ASSUME NEW d \in Children PROVE ChildOK(d)'
  <2>1. CASE d # c
    BY <1>2, <2>1 DEF CampaignInv, ChildOK
  <2>2. CASE d = c
    <3>1. grant[c] \in Int /\ peak[c] \in Int /\ p \in Int /\ Window \in Int
      BY Numbers DEF CampaignInv, Typed
    <3> QED BY <1>2, <2>2, <3>1 DEF CampaignInv, ChildOK
  <2> QED BY <2>1, <2>2
<1>6. Granted(grant)' <= Cap
  BY DEF CampaignInv, Granted
<1>7. (Drained => Drained') /\ (Piloted => Piloted')
  BY <1>1, <1>3, PromiseStays DEF CampaignInv
<1>8. Reading => \A d \in Children : SeenOK(ctl.seen[d], d)'
  BY <1>1, <1>3, SeenStays DEF CampaignInv, CtlOK
<1>9. ctl.pc = "grant" => \A d \in DOMAIN ctl.requests : ctl.requests[d] <= peak'[d] + Window
  <2>1. \A d \in Children : peak[d] \in Int /\ peak'[d] \in Int
    BY <1>1, Numbers DEF CampaignInv, Typed
  <2> QED BY <1>3, <2>1, Numbers DEF CampaignInv, CtlOK
<1>10. CtlOK'
  <2>1. ctl.seen = ctl'.seen
    OBVIOUS
  <2> QED BY <1>3, <1>7, <1>8, <1>9 DEF CampaignInv, CtlOK, Reading, Granting, Ending, SeenOK, Ready
<1>11. EndOK'
  BY <1>7 DEF CampaignInv, EndOK
<1> QED BY <1>1, <1>4, <1>5, <1>6, <1>10, <1>11 DEF CampaignInv

LEMMA StartRoleSafe ==
  ASSUME CampaignAssumption, CampaignInv, NEW c \in Children, StartRole(c)
  PROVE  CampaignInv'
<1> DEFINE k == [kid[c] EXCEPT !.prod = kid[c].ck.prod, !.done = kid[c].ck.done]
<1>0. kid[c] \in KidT /\ grant[c] \in Int /\ peak[c] \in 0 .. Size /\ Size \in Nat
  BY Numbers DEF CampaignInv, Typed
<1>1. k \in KidT /\ kid' = [kid EXCEPT ![c] = k] /\ kid[c].ck \in SamplerT
  <2>1. kid[c].ck \in SamplerT
    BY <1>0 DEF KidT
  <2>2. kid[c].ck.prod \in 0 .. Size /\ kid[c].ck.done \in 0 .. Size
    BY <2>1 DEF SamplerT
  <2>3. k \in KidT
    BY <1>0, <2>2 DEF KidT
  <2>4. kid' = [kid EXCEPT ![c] = k]
    BY DEF StartRole, CampaignInv, Typed
  <2> QED BY <2>1, <2>3, <2>4
<1>2. /\ k.made = kid[c].made /\ k.state = kid[c].state /\ k.ck = kid[c].ck
      /\ k.prod = kid[c].ck.prod /\ k.done = kid[c].ck.done
  BY <1>0 DEF KidT
<1> HIDE DEF k
<1>3. role' = [role EXCEPT ![c] = kid[c].ck] /\ peak' = [peak EXCEPT ![c] = peak[c]]
  BY DEF StartRole, CampaignInv, Typed
<1>4. /\ kid[c].ck.prod \in Nat /\ kid[c].ck.done \in Nat /\ kid[c].prod \in Nat
      /\ kid[c].ck.done <= kid[c].ck.prod /\ kid[c].ck.prod <= kid[c].prod
      /\ kid[c].prod > 0 => kid[c].prod <= grant[c]
      /\ kid[c].ck.done <= peak[c]
      /\ grant[c] >= 0 /\ kid[c].state = "active"
  BY <1>0 DEF CampaignInv, ChildOK, StartRole, KidT, SamplerT
<1>5. SamplerOK(c)'
  <2>1. role'[c] = kid[c].ck /\ kid'[c] = k /\ grant'[c] = grant[c]
    BY <1>1, <1>3 DEF StartRole, CampaignInv, Typed
  <2> QED BY <1>0, <1>2, <1>4, <2>1 DEF SamplerOK
<1>6. UNCHANGED <<task, grant, placed, slots, out, ctl>> /\ faults' \in 0 .. MaxFaults
  BY DEF StartRole, CampaignInv, Typed
<1>7. /\ kid[c].state = "completed" => k.state = "completed"
      /\ k.ck.done <= k.ck.prod /\ k.ck.prod <= k.prod /\ (k.prod > 0 => k.prod <= grant[c])
      /\ k.done <= peak[c] /\ k.ck.done <= peak[c] /\ peak[c] <= peak[c]
  BY <1>0, <1>2, <1>4
<1>8. kid[c].ck \in {None} \cup SamplerT
  BY <1>1
<1> QED BY <1>0, <1>1, <1>2, <1>3, <1>5, <1>6, <1>7, <1>8, ChildMoves

\* Producing and ingesting change the sampler alone.
LEMMA SamplerMoves ==
  ASSUME CampaignAssumption, CampaignInv, NEW c \in Children, NEW r \in {None} \cup SamplerT,
         role' = [role EXCEPT ![c] = r],
         UNCHANGED <<task, kid, grant, placed, slots, out, ctl, peak>>, faults' \in 0 .. MaxFaults,
         r # None => /\ role[c] # None /\ role[c].prod <= r.prod
                     /\ r.done <= r.prod /\ r.prod <= grant[c]
  PROVE  CampaignInv'
<1>0. kid[c] \in KidT /\ grant[c] \in Int /\ peak[c] \in 0 .. Size /\ Size \in Nat
      /\ role[c] \in {None} \cup SamplerT
  BY Numbers DEF CampaignInv, Typed
<1>1. kid' = [kid EXCEPT ![c] = kid[c]] /\ peak' = [peak EXCEPT ![c] = peak[c]]
  BY DEF CampaignInv, Typed
<1>2. /\ kid[c].ck.done <= kid[c].ck.prod /\ kid[c].ck.prod <= kid[c].prod
      /\ kid[c].prod > 0 => kid[c].prod <= grant[c]
      /\ kid[c].done <= peak[c] /\ kid[c].ck.done <= peak[c]
  BY DEF CampaignInv, ChildOK
<1>3. SamplerOK(c)'
  <2>1. role'[c] = r /\ kid'[c] = kid[c] /\ grant'[c] = grant[c]
    BY DEF CampaignInv, Typed
  <2>2. CASE r = None
    BY <2>1, <2>2 DEF SamplerOK
  <2>3. CASE r # None
    <3>1. SamplerOK(c)
      BY DEF CampaignInv
    <3>2. role[c].prod \in Int /\ r.prod \in Int /\ kid[c].ck.prod \in Int
      BY <1>0, <2>3 DEF SamplerT, KidT
    <3> QED BY <2>1, <2>3, <3>1, <3>2 DEF SamplerOK
  <2> QED BY <2>2, <2>3
<1>4. peak[c] <= peak[c]
  BY <1>0
<1>5. UNCHANGED <<task, grant, placed, slots, out, ctl>>
  OBVIOUS
<1> QED BY <1>0, <1>1, <1>2, <1>3, <1>4, <1>5, ChildMoves

LEMMA ProduceSafe ==
  ASSUME CampaignAssumption, CampaignInv, NEW c \in Children, Produce(c)
  PROVE  CampaignInv'
<1> DEFINE r == [role[c] EXCEPT !.prod = @ + 1]
<1>0. role[c] \in SamplerT /\ grant[c] \in Int /\ Size \in Nat
  BY Numbers DEF CampaignInv, Typed, Produce
<1>1. role[c].prod < grant[c] /\ role[c].prod < Size
  <2>1. Allowance(c) <= grant[c] /\ Allowance(c) <= Size /\ Allowance(c) \in {grant[c], Size}
    <3>1. \A a, b \in Int : Min({a, b}) \in {a, b} /\ Min({a, b}) <= a /\ Min({a, b}) <= b
      BY MinTwo
    <3>2. grant[c] \in Int /\ Size \in Int
      BY <1>0
    <3> QED BY <3>1, <3>2 DEF Allowance
  <2> QED BY <1>0, <2>1 DEF Produce, SamplerT
<1>2. r \in SamplerT /\ r.done = role[c].done /\ r.prod = role[c].prod + 1
  BY <1>0, <1>1 DEF SamplerT
<1>3. role' = [role EXCEPT ![c] = r]
  BY DEF Produce
<1>4. role[c].done <= role[c].prod /\ role[c] # None
  BY DEF CampaignInv, SamplerOK, Produce
<1> HIDE DEF r
<1>5. UNCHANGED <<task, kid, grant, placed, slots, out, ctl, peak>> /\ faults' \in 0 .. MaxFaults
  BY DEF Produce, CampaignInv, Typed
<1>6. role[c].prod \in Nat /\ role[c].done \in Nat
  BY <1>0 DEF SamplerT
<1>7. role[c].prod <= r.prod /\ r.done <= r.prod /\ r.prod <= grant[c]
  BY <1>0, <1>1, <1>2, <1>4, <1>6
<1> QED BY <1>2, <1>3, <1>4, <1>5, <1>7, SamplerMoves

LEMMA IngestSafe ==
  ASSUME CampaignAssumption, CampaignInv, NEW c \in Children, Ingest(c)
  PROVE  CampaignInv'
<1> DEFINE r == [role[c] EXCEPT !.done = @ + 1]
<1>0. role[c] \in SamplerT /\ Size \in Nat /\ role[c] # None
  BY Numbers DEF CampaignInv, Typed, Ingest
<1>1. role[c].done < role[c].prod /\ role[c].prod <= grant[c]
  BY <1>0 DEF Ingest, CampaignInv, SamplerOK
<1>2. r \in SamplerT /\ r.done = role[c].done + 1 /\ r.prod = role[c].prod
  BY <1>0, <1>1 DEF SamplerT
<1>3. role' = [role EXCEPT ![c] = r]
  BY DEF Ingest
<1> HIDE DEF r
<1>4. UNCHANGED <<task, kid, grant, placed, slots, out, ctl, peak>> /\ faults' \in 0 .. MaxFaults
  BY DEF Ingest, CampaignInv, Typed
<1>5. role[c].prod \in Nat /\ role[c].done \in Nat
  BY <1>0 DEF SamplerT
<1>6. role[c].prod <= r.prod /\ r.done <= r.prod /\ r.prod <= grant[c]
  BY <1>1, <1>2, <1>5
<1> QED BY <1>0, <1>2, <1>3, <1>4, <1>6, SamplerMoves

LEMMA CrashSafe ==
  ASSUME CampaignAssumption, CampaignInv, NEW c \in Children, Crash(c)
  PROVE  CampaignInv'
<1>1. faults' \in 0 .. MaxFaults
  BY Numbers DEF Crash, Fault, CampaignInv, Typed
<1> QED BY <1>1, SamplerMoves DEF Crash

LEMMA FailChildSafe ==
  ASSUME CampaignAssumption, CampaignInv, NEW c \in Children, FailChild(c)
  PROVE  CampaignInv'
<1> DEFINE k == [kid[c] EXCEPT !.state = "failed"]
<1>0. kid[c] \in KidT /\ grant[c] \in Int /\ peak[c] \in 0 .. Size /\ Size \in Nat
  BY Numbers DEF CampaignInv, Typed
<1>1. k \in KidT /\ kid' = [kid EXCEPT ![c] = k]
  BY <1>0 DEF FailChild, KidT, States
<1>2. /\ k.made = kid[c].made /\ k.ck = kid[c].ck /\ k.prod = kid[c].prod /\ k.done = kid[c].done
      /\ kid[c].state = "active"
  BY <1>0 DEF KidT, FailChild, CampaignInv, SamplerOK
<1> HIDE DEF k
<1>3. role' = [role EXCEPT ![c] = None] /\ peak' = [peak EXCEPT ![c] = peak[c]]
  BY DEF FailChild, CampaignInv, Typed
<1>4. SamplerOK(c)'
  BY <1>3 DEF SamplerOK, CampaignInv, Typed
<1>5. UNCHANGED <<task, grant, placed, slots, out, ctl>> /\ faults' \in 0 .. MaxFaults
  BY Numbers DEF FailChild, Fault, CampaignInv, Typed
<1>6. ChildOK(c) /\ peak[c] <= peak[c]
  BY <1>0 DEF CampaignInv
<1> QED BY <1>0, <1>1, <1>2, <1>3, <1>4, <1>5, <1>6, ChildMoves DEF ChildOK

\* Publishing takes the sampler's progress, and its state or the old checkpoint.
LEMMA PublishedSafe ==
  ASSUME CampaignAssumption, CampaignInv, NEW c \in Children, role[c] # None,
         NEW ck \in {kid[c].ck, role[c]}, Published(c, ck),
         NEW r \in {None, role[c]}, role' = [role EXCEPT ![c] = r],
         r # None => role[c].done < Size,
         UNCHANGED <<task, grant, placed, slots, out, ctl, faults>>
  PROVE  CampaignInv'
<1> DEFINE st == IF role[c].done = Size THEN "completed" ELSE kid[c].state
           k == [kid[c] EXCEPT !.prod = role[c].prod, !.done = role[c].done, !.ck = ck, !.state = st]
           p == Max({peak[c], role[c].done})
<1>0. /\ kid[c] \in KidT /\ grant[c] \in Int /\ peak[c] \in 0 .. Size /\ Size \in Nat
      /\ role[c] \in SamplerT /\ kid[c].ck \in SamplerT
  BY Numbers DEF CampaignInv, Typed, KidT
<1>1. k \in KidT
  <2>1. st \in States /\ ck \in SamplerT /\ role[c].prod \in 0 .. Size /\ role[c].done \in 0 .. Size
    BY <1>0 DEF KidT, States, SamplerT
  <2> HIDE DEF st
  <2> QED BY <1>0, <2>1 DEF KidT
<1>2. kid' = [kid EXCEPT ![c] = k]
  BY DEF Published, CampaignInv, Typed
<1>3. k.made = kid[c].made /\ k.ck = ck /\ k.prod = role[c].prod /\ k.done = role[c].done /\ k.state = st
  BY <1>0 DEF KidT
<1>4. peak[c] \in Int /\ role[c].done \in Int
  BY <1>0 DEF SamplerT
<1>5. p \in 0 .. Size /\ peak[c] <= p /\ role[c].done <= p
  <2>1. p \in {peak[c], role[c].done} /\ p >= peak[c] /\ p >= role[c].done
    BY <1>4, MaxTwo
  <2> HIDE DEF p
  <2> QED BY <1>0, <2>1 DEF SamplerT
<1>6. peak' = [peak EXCEPT ![c] = p]
  BY DEF Published
<1> HIDE DEF k, p
<1>7. SamplerOK(c) /\ ChildOK(c)
  BY DEF CampaignInv
<1>8. /\ role[c].prod \in Nat /\ role[c].done \in Nat /\ kid[c].ck.prod \in Nat /\ kid[c].ck.done \in Nat
      /\ role[c].done <= role[c].prod /\ role[c].prod <= grant[c] /\ kid[c].ck.prod <= role[c].prod
      /\ kid[c].ck.done <= kid[c].ck.prod /\ kid[c].ck.done <= peak[c] /\ kid[c].state = "active"
  BY <1>0, <1>7 DEF SamplerOK, ChildOK, SamplerT
<1>9. ck.prod <= role[c].prod /\ ck.done <= ck.prod /\ ck.done <= p /\ ck.done \in Nat /\ ck.prod \in Nat
  <2>1. CASE ck = role[c]
    BY <1>5, <1>8, <2>1
  <2>2. CASE ck = kid[c].ck
    BY <1>0, <1>5, <1>8, <2>2
  <2> QED BY <2>1, <2>2
<1>10. SamplerOK(c)'
  <2>1. role'[c] = r /\ kid'[c] = k /\ grant'[c] = grant[c]
    BY <1>2 DEF CampaignInv, Typed
  <2> QED BY <1>3, <1>8, <1>9, <2>1 DEF SamplerOK
<1>11. r \in {None} \cup SamplerT /\ faults' \in 0 .. MaxFaults
  BY <1>0 DEF CampaignInv, Typed
<1>12. /\ kid[c].state = "completed" => k.state = "completed"
       /\ k.ck.done <= k.ck.prod /\ k.ck.prod <= k.prod /\ (k.prod > 0 => k.prod <= grant[c])
       /\ k.done <= p /\ k.ck.done <= p
  BY <1>3, <1>5, <1>8, <1>9
<1> QED BY <1>1, <1>2, <1>3, <1>5, <1>6, <1>10, <1>11, <1>12, ChildMoves

LEMMA ChildSafe ==
  ASSUME CampaignAssumption, CampaignInv, NEW c \in Children,
         ChildStep(c) \/ Checkpoint(c) \/ Crash(c) \/ FailChild(c)
  PROVE  CampaignInv'
<1>1. CASE StartRole(c)
  BY <1>1, StartRoleSafe
<1>2. CASE Produce(c)
  BY <1>2, ProduceSafe
<1>3. CASE Ingest(c)
  BY <1>3, IngestSafe
<1>4. CASE Publish(c)
  <2>1. role' = [role EXCEPT ![c] = role[c]]
    BY <1>4 DEF Publish, CampaignInv, Typed
  <2> QED BY <1>4, <2>1, PublishedSafe DEF Publish
<1>5. CASE Checkpoint(c)
  <2>1. role' = [role EXCEPT ![c] = role[c]]
    BY <1>5 DEF Checkpoint, CampaignInv, Typed
  <2> QED BY <1>5, <2>1, PublishedSafe DEF Checkpoint
<1>6. CASE EndRole(c)
  BY <1>6, PublishedSafe DEF EndRole
<1>7. CASE Crash(c)
  BY <1>7, CrashSafe
<1>8. CASE FailChild(c)
  BY <1>8, FailChildSafe
<1> QED BY <1>1, <1>2, <1>3, <1>4, <1>5, <1>6, <1>7, <1>8 DEF ChildStep

-----------------------------------------------------------------------------
(* Steps of the tick.                                                      *)

LEMMA PoolSafe ==
  ASSUME CampaignAssumption, CampaignInv, NEW n \in 0 .. MaxSlots, PoolChanges(n)
  PROVE  CampaignInv'
<1>1. Typed'
  BY Numbers DEF PoolChanges, Fault, CampaignInv, Typed
<1>2. UNCHANGED <<task, kid, role, grant, placed, out, ctl, peak>>
  BY DEF PoolChanges
<1>3. (\A c \in Children : SamplerOK(c) /\ ChildOK(c))'
  BY <1>2 DEF CampaignInv, SamplerOK, ChildOK
<1>4. (Granted(grant) <= Cap)'
  BY <1>2 DEF CampaignInv
<1>5. CtlOK' /\ EndOK'
  BY <1>2 DEF CampaignInv, CtlOK, EndOK, Reading, Granting, Ending, SeenOK, Drained, DrainedChild, Piloted
<1> QED BY <1>1, <1>3, <1>4, <1>5 DEF CampaignInv

\* A step of the tick leaves the children and the grants alone; what it must establish is
\* about the tick and the placements.
LEMMA TickMoves ==
  ASSUME CampaignAssumption, CampaignInv, UNCHANGED <<children, grant, slots>>,
         task' \in States, out' \in OutT, faults' \in 0 .. MaxFaults, placed' \subseteq Children,
         \A c \in placed' : c \in placed \/ grant[c] >= 0,
         CtlOK', EndOK'
  PROVE  CampaignInv'
<1>1. Typed'
  BY DEF CampaignInv, Typed, children
<1>2. UNCHANGED <<kid, role, peak, grant>>
  BY DEF children
<1>3. (\A c \in Children : SamplerOK(c) /\ ChildOK(c))'
  BY <1>2 DEF CampaignInv, SamplerOK, ChildOK
<1>4. (Granted(grant) <= Cap)'
  BY <1>2 DEF CampaignInv
<1> QED BY <1>1, <1>3, <1>4 DEF CampaignInv

\* A tick that is over leaves no promise of its own.
LEMMA TickOver ==
  ASSUME ctl' = IdleCtl
  PROVE  CtlOK'
BY DEF CtlOK, IdleCtl, Reading, Granting, Ending

LEMMA CreateSafe ==
  ASSUME CampaignAssumption, CampaignInv, NEW c \in Children, CreateChild(c)
  PROVE  CampaignInv'
<1> DEFINE k == [kid[c] EXCEPT !.made = TRUE]
<1>0. kid[c] \in KidT
  BY DEF CampaignInv, Typed
<1>1. k \in KidT /\ k.made = TRUE /\ k.state = kid[c].state /\ k.prod = kid[c].prod
      /\ k.done = kid[c].done /\ k.ck = kid[c].ck
  BY <1>0 DEF KidT
<1>2. kid' = [kid EXCEPT ![c] = k]
  BY DEF CreateChild, CampaignInv, Typed
<1> HIDE DEF k
<1>3. Typed'
  BY <1>1, <1>2 DEF CreateChild, CampaignInv, Typed
<1>4. \A d \in Children : kid'[d] = IF d = c THEN k ELSE kid[d]
  BY <1>2 DEF CampaignInv, Typed
<1>5. UNCHANGED <<task, role, grant, placed, slots, out, ctl, peak, faults>> /\ task = "active" /\ ctl = IdleCtl
  BY DEF CreateChild
<1>6. (\A d \in Children : SamplerOK(d) /\ ChildOK(d))'
  BY <1>1, <1>4, <1>5 DEF CampaignInv, SamplerOK, ChildOK
<1>7. (Granted(grant) <= Cap)'
  BY <1>5 DEF CampaignInv
<1>8. CtlOK'
  BY <1>5, TickOver
<1>9. EndOK'
  BY <1>5 DEF EndOK
<1> QED BY <1>3, <1>6, <1>7, <1>8, <1>9 DEF CampaignInv

LEMMA ObserveSafe ==
  ASSUME CampaignAssumption, CampaignInv, Observe
  PROVE  CampaignInv'
<1>1. UNCHANGED <<kid, role, peak, task, grant, placed, slots, out, faults>> /\ task = "active"
  BY DEF Observe, children
<1>2. ASSUME NEW c \in Children
      PROVE  SeenOK(ctl.seen[c], c)'
  <2>1. ctl'.seen[c] = [state |-> kid[c].state, done |-> kid[c].done, ready |-> Ready(kid[c].done)]
    BY DEF Observe
  <2>2. kid[c].made /\ kid[c] \in KidT /\ kid[c].done <= peak[c]
    BY DEF Observe, Made, CampaignInv, Typed, ChildOK
  <2>3. kid[c].state \in States /\ kid[c].done \in 0 .. Size /\ Ready(kid[c].done) \in BOOLEAN
    BY <2>2 DEF KidT, Ready
  <2> QED BY <1>1, <2>1, <2>2, <2>3 DEF SeenOK
<1>3. ctl'.pc = "nodes" /\ ctl'.was \in OutT
  BY DEF Observe, CampaignInv, Typed
<1>4. CtlOK'
  BY <1>2, <1>3 DEF CtlOK, Reading, Granting, Ending
<1>5. EndOK'
  BY <1>1 DEF EndOK
<1> QED BY <1>1, <1>4, <1>5, TickMoves DEF CampaignInv, Typed, children

LEMMA ReadNodesSafe ==
  ASSUME CampaignAssumption, CampaignInv, ReadNodes
  PROVE  CampaignInv'
<1>1. UNCHANGED <<kid, role, peak, task, grant, placed, slots, out, faults>> /\ ctl.pc = "nodes"
  BY DEF ReadNodes, children
<1>2. ctl'.pc = "budget" /\ ctl'.was = ctl.was /\ ctl'.seen = ctl.seen
  BY DEF ReadNodes
<1>3. ctl.was \in OutT /\ \A c \in Children : SeenOK(ctl.seen[c], c)
  BY <1>1 DEF CampaignInv, CtlOK, Reading
<1>4. CtlOK'
  BY <1>1, <1>2, <1>3 DEF CtlOK, Reading, Granting, Ending, SeenOK
<1>5. task = "active"
  BY <1>1 DEF CampaignInv, EndOK, IdleCtl
<1>6. EndOK'
  BY <1>1, <1>5 DEF EndOK
<1> QED BY <1>1, <1>4, <1>6, TickMoves DEF CampaignInv, Typed, children

\* Only a tick that is not idle takes these steps, so the task is active.
LEMMA TickActive ==
  ASSUME CampaignInv, ctl # IdleCtl
  PROVE  task = "active"
BY DEF CampaignInv, EndOK

LEMMA PlaceSafe ==
  ASSUME CampaignAssumption, CampaignInv, Place
  PROVE  CampaignInv'
<1>1. UNCHANGED <<kid, role, peak, task, grant, slots, out, faults>> /\ ctl.pc = "place" /\ placed' = ctl.to
  BY DEF Place, children
<1>2. /\ ctl = [pc |-> "place", to |-> ctl.to, draining |-> ctl.draining]
      /\ ctl.to \in SUBSET Children /\ ctl.draining \in BOOLEAN /\ \A c \in Children : grant[c] >= 0
  BY <1>1 DEF CampaignInv, CtlOK, Granting
<1>3. ctl'.pc = "publish" /\ ctl'.to = ctl.to /\ ctl'.draining = ctl.draining
  BY <1>2 DEF Place
<1>4. CtlOK'
  BY <1>1, <1>2, <1>3 DEF CtlOK, Reading, Granting, Ending
<1>5. task = "active"
  BY <1>1, TickActive DEF IdleCtl
<1>6. EndOK'
  BY <1>1, <1>5 DEF EndOK
<1> QED BY <1>1, <1>2, <1>4, <1>6, TickMoves DEF CampaignInv, Typed, children

LEMMA OutputSafe ==
  ASSUME CampaignAssumption, CampaignInv, PersistOutput
  PROVE  CampaignInv'
<1>1. UNCHANGED <<kid, role, peak, task, grant, placed, slots, faults>> /\ ctl.pc = "publish"
      /\ out' = [selected |-> ctl.to, draining |-> ctl.draining] /\ ctl' = IdleCtl
  BY DEF PersistOutput, children
<1>2. ctl.to \in SUBSET Children /\ ctl.draining \in BOOLEAN
  BY <1>1 DEF CampaignInv, CtlOK, Granting
<1>3. CtlOK' /\ out' \in OutT
  BY <1>1, <1>2, TickOver DEF OutT
<1>4. task = "active"
  BY <1>1, TickActive DEF IdleCtl
<1>5. EndOK'
  BY <1>1, <1>4 DEF EndOK
<1> QED BY <1>1, <1>3, <1>5, TickMoves DEF CampaignInv, Typed, children

LEMMA ReleaseSafe ==
  ASSUME CampaignAssumption, CampaignInv, Release
  PROVE  CampaignInv'
<1>1. UNCHANGED <<kid, role, peak, task, grant, slots, out, faults>> /\ ctl.pc = "release" /\ placed' = {}
  BY DEF Release, children
<1>2. ctl.to \in States /\ (ctl.to = "completed" => Drained /\ Piloted)
  BY <1>1 DEF CampaignInv, CtlOK, Ending
<1>3. (Drained => Drained') /\ (Piloted => Piloted')
  BY <1>1 DEF Drained, DrainedChild, Piloted
<1>4. CtlOK'
  <2>1. CASE ctl.to = "active"
    BY <2>1, TickOver DEF Release
  <2>2. CASE ctl.to # "active"
    <3>1. ctl'.pc = "finish" /\ ctl'.to = ctl.to /\ ctl.to \in {"completed", "failed"}
      BY <1>2, <2>2 DEF Release, States
    <3> QED BY <1>2, <1>3, <3>1 DEF CtlOK, Reading, Granting, Ending
  <2> QED BY <2>1, <2>2
<1>5. task = "active"
  BY <1>1, TickActive DEF IdleCtl
<1>6. EndOK'
  BY <1>1, <1>5 DEF EndOK
<1> QED BY <1>1, <1>4, <1>6, TickMoves DEF CampaignInv, Typed, children

LEMMA FinishSafe ==
  ASSUME CampaignAssumption, CampaignInv, Finish
  PROVE  CampaignInv'
<1>1. UNCHANGED <<kid, role, peak, grant, placed, slots, out, faults>> /\ ctl.pc = "finish"
      /\ task' = ctl.to /\ ctl' = IdleCtl
  BY DEF Finish, children
<1>2. ctl.to \in {"completed", "failed"} /\ (ctl.to = "completed" => Drained /\ Piloted)
  BY <1>1 DEF CampaignInv, CtlOK, Ending
<1>3. (Drained => Drained') /\ (Piloted => Piloted')
  BY <1>1 DEF Drained, DrainedChild, Piloted
<1>4. EndOK'
  BY <1>1, <1>2, <1>3 DEF EndOK, IdleCtl
<1>5. CtlOK' /\ task' \in States
  BY <1>1, <1>2, TickOver DEF States
<1> QED BY <1>1, <1>4, <1>5, TickMoves DEF CampaignInv, Typed, children

LEMMA TickFailsSafe ==
  ASSUME CampaignAssumption, CampaignInv, TickFails
  PROVE  CampaignInv'
<1>1. UNCHANGED <<kid, role, peak, task, grant, placed, slots, out>> /\ ctl # IdleCtl /\ ctl' = IdleCtl
  BY DEF TickFails, children
<1>2. faults' \in 0 .. MaxFaults
  BY Numbers DEF TickFails, Fault, CampaignInv, Typed
<1>3. EndOK' /\ CtlOK'
  BY <1>1, TickActive, TickOver DEF EndOK
<1> QED BY <1>1, <1>2, <1>3, TickMoves DEF CampaignInv, Typed, children

-----------------------------------------------------------------------------
(* Grants.                                                                 *)

\* Seeding keeps what counts of a grant: completed children give back, the others keep theirs,
\* and a child is seeded with what it has produced, which a grant it lacks cannot exceed.
LEMMA SeededIs ==
  ASSUME CampaignAssumption, CampaignInv, NEW c \in Children
  PROVE  /\ Seeded[c] \in -1 .. Cap
         /\ Seeded[c] <= grant[c] \/ Seeded[c] <= 0
         /\ kid[c].made => Seeded[c] >= 0
         /\ kid[c].prod > 0 => kid[c].prod <= Seeded[c]
         /\ kid[c].made /\ kid[c].state # "completed" => Seeded[c] >= grant[c]
         /\ kid[c].state = "completed" /\ kid[c].made => Seeded[c] = kid[c].prod
         /\ Seeded[c] <= peak[c] + Window
         /\ grant[c] >= 0 => kid[c].made
<1>1. Seeded[c] = IF ~kid[c].made THEN -1
                  ELSE IF grant[c] = -1 \/ kid[c].state = "completed" THEN kid[c].prod ELSE grant[c]
  BY DEF Seeded, Reusable
<1>2. /\ kid[c] \in KidT /\ grant[c] \in -1 .. Cap /\ peak[c] \in 0 .. Size /\ Size \in Nat
      /\ Window \in Nat /\ Cap \in Nat /\ kid[c].prod \in Nat
  BY Numbers DEF CampaignInv, Typed, KidT
<1>3. /\ kid[c].prod > 0 => kid[c].prod <= grant[c]
      /\ grant[c] >= 0 => kid[c].made
      /\ grant[c] <= peak[c] + Window
  BY DEF CampaignInv, ChildOK
<1> QED BY <1>1, <1>2, <1>3

\* Grants may change to any that hold what children have in play and stay within the cap.
LEMMA GrantsMove ==
  ASSUME CampaignAssumption, CampaignInv, UNCHANGED <<task, children, placed, slots, out, faults>>,
         task = "active", grant' \in [Children -> -1 .. Cap], Granted(grant') <= Cap,
         \A c \in Children : /\ Seeded[c] <= grant'[c] /\ grant'[c] <= peak[c] + Window
                             /\ kid[c].made,
         CtlOK'
  PROVE  CampaignInv'
<1>1. UNCHANGED <<kid, role, peak>>
  BY DEF children
<1>2. Typed'
  BY <1>1 DEF CampaignInv, Typed
<1>3. ASSUME NEW c \in Children
      PROVE  SamplerOK(c)' /\ ChildOK(c)'
  <2>1. /\ kid[c].prod > 0 => kid[c].prod <= Seeded[c]
        /\ Seeded[c] >= 0 /\ Seeded[c] \in -1 .. Cap
        /\ kid[c].state # "completed" => Seeded[c] >= grant[c]
    BY SeededIs
  <2>2. kid[c] \in KidT /\ grant[c] \in Int /\ grant'[c] \in Int /\ Seeded[c] \in Int /\ kid[c].prod \in Nat
    BY <2>1, Numbers DEF CampaignInv, Typed, KidT
  <2>3. SamplerOK(c) /\ ChildOK(c)
    BY DEF CampaignInv
  <2>4. ChildOK(c)'
    BY <1>1, <2>1, <2>2, <2>3 DEF ChildOK
  <2>5. CASE role[c] # None
    <3>1. role[c].prod \in Int /\ role[c].prod <= grant[c] /\ Seeded[c] >= grant[c]
      BY <2>1, <2>3, <2>5 DEF SamplerOK, CampaignInv, Typed, SamplerT
    <3>2. role[c].prod <= grant'[c]
      BY <2>2, <3>1
    <3> QED BY <1>1, <2>3, <2>4, <3>2 DEF SamplerOK
  <2>6. CASE role[c] = None
    BY <1>1, <2>4, <2>6 DEF SamplerOK
  <2> QED BY <2>5, <2>6
<1>4. EndOK'
  BY DEF EndOK
<1> QED BY <1>2, <1>3, <1>4 DEF CampaignInv

LEMMA SeededWithin ==
  ASSUME CampaignAssumption, CampaignInv
  PROVE  Seeded \in [Children -> -1 .. Cap] /\ Granted(Seeded) \in Nat /\ Granted(Seeded) <= Cap
<1>1. Seeded \in [Children -> -1 .. Cap]
  BY SeededIs DEF Seeded
<1>2. grant \in [Children -> Int] /\ Seeded \in [Children -> Int]
  BY <1>1, Numbers DEF CampaignInv, Typed
<1>3. \A c \in Children : Seeded[c] <= grant[c] \/ Seeded[c] <= 0
  BY SeededIs
<1>4. Granted(Seeded) \in Nat /\ Granted(grant) \in Nat /\ Granted(Seeded) <= Granted(grant)
  BY <1>2, <1>3, GrantedGrows
<1>5. Granted(grant) <= Cap
  BY DEF CampaignInv
<1> QED BY <1>1, <1>4, <1>5, Numbers

LEMMA ReadBudgetSafe ==
  ASSUME CampaignAssumption, CampaignInv, ReadBudget
  PROVE  CampaignInv'
<1>1. UNCHANGED <<task, kid, role, peak, placed, slots, out, faults>> /\ ctl.pc = "budget" /\ grant' = Seeded
  BY DEF ReadBudget, children
<1>2. ctl'.pc = "decide" /\ ctl'.was = ctl.was /\ ctl'.seen = ctl.seen /\ ctl'.budget = grant'
  BY DEF ReadBudget
<1>3. task = "active"
  BY <1>1, TickActive DEF IdleCtl
<1>4. ctl.was \in OutT /\ \A c \in Children : SeenOK(ctl.seen[c], c)
  BY <1>1 DEF CampaignInv, CtlOK, Reading
<1>5. \A c \in Children : kid[c].made
  BY <1>4 DEF SeenOK
<1>6. \A c \in Children : grant'[c] >= 0 /\ Seeded[c] <= grant'[c] /\ grant'[c] <= peak[c] + Window
  BY <1>1, <1>5, SeededIs, Numbers
<1>7. CtlOK'
  BY <1>1, <1>2, <1>4, <1>6 DEF CtlOK, Reading, Granting, Ending, SeenOK
<1> QED BY <1>1, <1>3, <1>5, <1>6, <1>7, SeededWithin, GrantsMove DEF children

\* What is granted is wanted, and the whole stays within the cap.
LEMMA ExtendedIs ==
  ASSUME CampaignAssumption, CampaignInv, NEW requests, DOMAIN requests \subseteq Children,
         \A c \in DOMAIN requests : requests[c] \in Nat /\ requests[c] <= peak[c] + Window,
         NEW h \in Extended(Seeded, requests)
  PROVE  /\ h \in [Children -> -1 .. Cap] /\ Granted(h) <= Cap
         /\ \A c \in Children : Seeded[c] <= h[c] /\ h[c] <= peak[c] + Window
<1> DEFINE wanted == [c \in Children |-> IF c \in DOMAIN requests THEN Max({Seeded[c], requests[c]}) ELSE Seeded[c]]
<1>1. /\ h \in [Children -> -1 .. Cap]
      /\ \A c \in Children : Seeded[c] <= h[c] /\ h[c] <= wanted[c]
      /\ Granted(h) = Min({Cap, Granted(wanted)})
  BY DEF Extended
<1>2. ASSUME NEW c \in Children
      PROVE  wanted[c] \in Int /\ wanted[c] <= peak[c] + Window
  <2>1. Seeded[c] \in Int /\ Seeded[c] <= peak[c] + Window
    BY SeededIs, Numbers
  <2>2. CASE c \in DOMAIN requests
    <3>1. wanted[c] = Max({Seeded[c], requests[c]})
      BY <2>2
    <3>2. requests[c] \in Int /\ requests[c] <= peak[c] + Window
      BY <2>2
    <3>3. Max({Seeded[c], requests[c]}) \in {Seeded[c], requests[c]}
      BY <2>1, <3>2, MaxTwo
    <3> HIDE DEF wanted
    <3> QED BY <2>1, <3>1, <3>2, <3>3
  <2>3. CASE c \notin DOMAIN requests
    BY <2>1, <2>3
  <2> QED BY <2>2, <2>3
<1>3. wanted \in [Children -> Int]
  BY <1>2
<1> HIDE DEF wanted
<1>4. Granted(wanted) \in Nat
  <2>1. \A c \in Children : wanted[c] <= wanted[c] \/ wanted[c] <= 0
    BY <1>2
  <2> QED BY <1>3, <2>1, GrantedGrows
<1>5. Granted(h) <= Cap
  <2>1. Cap \in Int /\ Granted(wanted) \in Int
    BY <1>4, Numbers
  <2>2. Min({Cap, Granted(wanted)}) <= Cap
    BY <2>1, MinTwo
  <2> QED BY <1>1, <2>2
<1>6. ASSUME NEW c \in Children
      PROVE  h[c] <= peak[c] + Window
  <2>1. h[c] \in Int /\ wanted[c] \in Int /\ peak[c] + Window \in Int
    BY <1>1, <1>2, Numbers DEF CampaignInv, Typed
  <2>2. h[c] <= wanted[c] /\ wanted[c] <= peak[c] + Window
    BY <1>1, <1>2
  <2> QED BY <2>1, <2>2
<1> QED BY <1>1, <1>5, <1>6

LEMMA AllocateSafe ==
  ASSUME CampaignAssumption, CampaignInv, Allocate
  PROVE  CampaignInv'
<1>1. /\ UNCHANGED <<task, kid, role, peak, placed, slots, out, faults>> /\ ctl.pc = "grant"
      /\ grant' \in Extended(Seeded, ctl.requests)
      /\ ctl' = [pc |-> "place", to |-> ctl.to, draining |-> ctl.draining]
  BY DEF Allocate, children
<1>2. /\ ctl.to \in SUBSET Children /\ ctl.draining \in BOOLEAN /\ \A c \in Children : grant[c] >= 0
      /\ DOMAIN ctl.requests \subseteq Children
      /\ \A c \in DOMAIN ctl.requests : ctl.requests[c] \in Nat /\ ctl.requests[c] <= peak[c] + Window
  BY <1>1 DEF CampaignInv, CtlOK, Granting
<1>3. task = "active"
  BY <1>1, TickActive DEF IdleCtl
<1>4. /\ grant' \in [Children -> -1 .. Cap] /\ Granted(grant') <= Cap
      /\ \A c \in Children : Seeded[c] <= grant'[c] /\ grant'[c] <= peak[c] + Window
  BY <1>1, <1>2, ExtendedIs
<1>5. \A c \in Children : kid[c].made
  BY <1>2, SeededIs
<1>6. \A c \in Children : grant'[c] >= 0
  <2>1. \A c \in Children : Seeded[c] \in Int /\ Seeded[c] >= 0 /\ grant'[c] \in Int
    BY <1>4, <1>5, SeededIs, Numbers
  <2> QED BY <1>4, <2>1
<1>7. CtlOK'
  BY <1>1, <1>2, <1>6 DEF CtlOK, Reading, Granting, Ending
<1> QED BY <1>1, <1>3, <1>4, <1>5, <1>7, GrantsMove DEF children

-----------------------------------------------------------------------------
(* The decision.                                                           *)

\* A campaign whose target is met and has nothing outstanding is drained and piloted.
LEMMA TargetReached ==
  ASSUME CampaignAssumption, CampaignInv, ctl.pc = "decide", NEW met \in BOOLEAN,
         Target(met), ~Outstanding
  PROVE  Drained /\ Piloted
<1> DEFINE done == [c \in Children |-> ctl.seen[c].done]
<1>1. ASSUME NEW c \in Children
      PROVE  /\ SeenOK(ctl.seen[c], c) /\ ctl.budget[c] = grant[c]
             /\ ctl.seen[c].done \in Nat /\ peak[c] \in Nat /\ grant[c] \in Int
             /\ ctl.seen[c].done <= peak[c]
  <2>1. SeenOK(ctl.seen[c], c) /\ ctl.budget = grant
    BY DEF CampaignInv, CtlOK, Reading
  <2> QED BY <2>1, Numbers DEF SeenOK, CampaignInv, Typed
<1>2. Drained
  <2>1. ASSUME NEW c \in Children PROVE DrainedChild(c)
    <3>1. ctl.seen[c].state = "completed" \/ ~(grant[c] > ctl.seen[c].done)
      BY <1>1 DEF Outstanding, Unfinished
    <3>2. peak[c] >= grant[c] \/ kid[c].state = "completed"
      BY <1>1, <3>1 DEF SeenOK
    <3>3. Ready(ctl.seen[c].done)
      BY <1>1 DEF Target, AllReady, SeenOK
    <3> QED BY <1>1, <3>2, <3>3, Numbers DEF DrainedChild, Ready
  <2> QED BY <2>1 DEF Drained
<1>3. Total >= Cap \/ \A c \in Children : ~NeedsPilot(c)
  BY DEF Target, ShouldStop
<1>4. CASE \A c \in Children : ~NeedsPilot(c)
  <2>1. ASSUME NEW c \in Children PROVE peak[c] - Train >= MinSamples
    <3>1. ~(ctl.seen[c].done - Train < MinSamples)
      BY <1>4 DEF NeedsPilot
    <3> QED BY <1>1, <3>1, Numbers
  <2> QED BY <1>2, <2>1 DEF Piloted
<1>5. CASE Total >= Cap
  <2>1. done \in [Children -> Nat] /\ peak \in [Children -> Nat]
    BY <1>1 DEF CampaignInv, Typed
  <2>2. \A c \in Children : done[c] <= peak[c]
    BY <1>1
  <2>3. Total = SumOf(done)
    BY DEF Total
  <2> HIDE DEF done
  <2>4. SumOf(done) \in Nat /\ SumOf(peak) \in Nat /\ SumOf(done) <= SumOf(peak)
    BY <2>1, <2>2, SumGrows, Numbers
  <2> QED BY <1>2, <1>5, <2>3, <2>4, Numbers DEF Piloted
<1> QED BY <1>3, <1>4, <1>5

\* A request is for at most one quantum beyond what the child has completed.
LEMMA RequestsBounded ==
  ASSUME CampaignAssumption, CampaignInv, ctl.pc = "decide", NEW met \in BOOLEAN,
         NEW S \in SUBSET Children
  PROVE  /\ DOMAIN Requests(S, met) \subseteq Children
         /\ \A c \in DOMAIN Requests(S, met) :
              Requests(S, met)[c] \in Nat /\ Requests(S, met)[c] <= peak[c] + Window
<1>1. ASSUME NEW c \in Children
      PROVE  Quantum(c) \in Nat /\ Quantum(c) <= Window
  <2> DEFINE missing == Max({MinSamples, 2}) - (IF ctl.seen[c].ready THEN ctl.seen[c].done - Train ELSE 0)
  <2>1. ctl.seen[c].done \in Nat
    BY Numbers DEF CampaignInv, CtlOK, Reading, SeenOK
  <2>2. Max({MinSamples, 2}) \in Int
    <3>1. \A a, b \in Int : Max({a, b}) \in {a, b}
      BY MaxTwo
    <3>2. MinSamples \in Int /\ 2 \in Int
      BY Numbers
    <3> QED BY <3>1, <3>2
  <2>3. missing \in Int
    <3> HIDE DEF CampaignInv
    <3> QED BY <2>1, <2>2, Numbers
  <2>4. Quantum(c) = IF NeedsPilot(c) /\ missing > 0 THEN Min({Window, missing}) ELSE Window
    BY DEF Quantum
  <2> HIDE DEF missing
  <2>5. Min({Window, missing}) \in {Window, missing} /\ Min({Window, missing}) <= Window
    <3>1. Window \in Int
      BY Numbers
    <3> QED BY <2>3, <3>1, MinTwo
  <2> QED BY <2>3, <2>4, <2>5, Numbers
<1>2. ASSUME NEW c \in Children
      PROVE  ctl.seen[c].done + Quantum(c) \in Nat /\ ctl.seen[c].done + Quantum(c) <= peak[c] + Window
  <2>1. ctl.seen[c].done \in Nat /\ peak[c] \in Nat /\ ctl.seen[c].done <= peak[c]
    BY Numbers DEF CampaignInv, CtlOK, Reading, SeenOK, Typed
  <2> QED BY <1>1, <2>1, Numbers
<1>3. CASE CanAllocate(met)
  BY <1>2, <1>3 DEF Requests
<1>4. CASE ~CanAllocate(met)
  BY <1>4 DEF Requests
<1> QED BY <1>3, <1>4

LEMMA DecideSafe ==
  ASSUME CampaignAssumption, CampaignInv, NEW met \in BOOLEAN, Decide(met)
  PROVE  CampaignInv'
<1>1. UNCHANGED <<task, kid, role, peak, grant, placed, slots, faults>> /\ ctl.pc = "decide"
  BY DEF Decide, children
<1>2. task = "active"
  BY <1>1, TickActive DEF IdleCtl
<1>3. EndOK'
  BY <1>1, <1>2 DEF EndOK
<1>4. out \in OutT /\ ctl.was \in OutT
  BY <1>1 DEF CampaignInv, Typed, CtlOK, Reading
<1>5. ASSUME ctl'.pc = "release", ctl'.to \in States, ctl'.to = "completed" => Drained /\ Piloted
      PROVE  CtlOK'
  <2>1. (Drained => Drained') /\ (Piloted => Piloted')
    BY <1>1 DEF Drained, DrainedChild, Piloted
  <2> QED BY <1>5, <2>1 DEF CtlOK, Reading, Granting, Ending
<1>6. CtlOK' /\ out' \in OutT
  <2>1. CASE out' = [selected |-> {}, draining |-> FALSE] /\ ctl' = [pc |-> "release", to |-> "failed"]
    BY <1>5, <2>1 DEF States, OutT
  <2>2. CASE /\ Target(met) /\ ~Outstanding
             /\ out' = [selected |-> {}, draining |-> ctl.cur # {}]
             /\ ctl' = [pc |-> "release", to |-> IF ctl.cur # {} THEN "active" ELSE "completed"]
    <3>1. Drained /\ Piloted
      BY <1>1, <2>2, TargetReached
    <3>2. CtlOK'
      BY <1>5, <2>2, <3>1 DEF States
    <3>3. out' \in OutT
      BY <2>2 DEF OutT
    <3> QED BY <3>2, <3>3
  <2>3. CASE /\ UNCHANGED out
             /\ \E S \in Schedules(met) :
                  ctl' = [pc |-> "grant", to |-> S, requests |-> Requests(S, met), draining |-> Draining(met)]
    <3>1. PICK S \in Schedules(met) :
            ctl' = [pc |-> "grant", to |-> S, requests |-> Requests(S, met), draining |-> Draining(met)]
      BY <2>3
    <3>2. S \in SUBSET Children
      BY DEF Schedules, kSubset, Eligible
    <3>3. /\ DOMAIN Requests(S, met) \subseteq Children
          /\ \A c \in DOMAIN Requests(S, met) :
               Requests(S, met)[c] \in Nat /\ Requests(S, met)[c] <= peak[c] + Window
      BY <1>1, <3>2, RequestsBounded
    <3>4. Draining(met) \in BOOLEAN
      BY DEF Draining
    <3>5. \A c \in Children : grant[c] >= 0
      BY <1>1 DEF CampaignInv, CtlOK
    <3>6. /\ ctl'.pc = "grant" /\ ctl'.to \in SUBSET Children /\ ctl'.draining \in BOOLEAN
          /\ ctl'.requests = Requests(S, met)
      BY <3>1, <3>2, <3>4
    <3>7. CtlOK'
      BY <1>1, <3>3, <3>5, <3>6 DEF CtlOK, Reading, Granting, Ending
    <3> QED BY <1>4, <2>3, <3>7
  <2> QED BY <2>1, <2>2, <2>3 DEF Decide
<1> QED BY <1>1, <1>3, <1>6, TickMoves DEF CampaignInv, Typed, children

-----------------------------------------------------------------------------
(* The invariant holds.                                                    *)

\* Nothing is granted of what is not seeded.
LEMMA NothingGranted ==
  ASSUME CampaignAssumption, NEW g \in [Children -> Int], \A c \in Children : g[c] <= 0
  PROVE  Granted(g) = 0
<1> DEFINE f == [c \in Children |-> Max({g[c], 0})]
           h == CHOOSE h : IsSum(f, Children, h)
<1>1. IsFiniteSet(Children)
  BY Numbers
<1>2. IsSum(f, Children, h)
  BY <1>1, SumExists
<1>3. Granted(g) = h[Children]
  <2>1. Granted(g) = SumOf(f)
    BY DEF Granted
  <2>2. DOMAIN f = Children
    OBVIOUS
  <2> HIDE DEF f
  <2> QED BY <2>1, <2>2, SumOfIs
<1>4. \A c \in Children : f[c] = 0
  <2>1. \A a \in Int : Max({a, 0}) \in {a, 0} /\ Max({a, 0}) >= 0
    BY MaxTwo
  <2>2. ASSUME NEW c \in Children PROVE Max({g[c], 0}) = 0
    <3>1. g[c] \in Int /\ g[c] <= 0
      OBVIOUS
    <3> QED BY <2>1, <3>1
  <2> QED BY <2>2
<1> HIDE DEF f, h
<1> DEFINE B == {s \in SUBSET Children : h[s] # 0}
<1> SUFFICES ASSUME B # {} PROVE FALSE
  BY <1>3
<1>5. PICK s \in B : \A u \in SUBSET s : u \in B => u = s
  <2>1. B \in SUBSET (SUBSET Children)
    OBVIOUS
  <2> HIDE DEF B
  <2> QED BY <1>1, <2>1, LeastSet
<1>6. s \in SUBSET Children /\ h[s] # 0
  BY <1>5
<1>7. s # {}
  BY <1>2, <1>6, EmptySum
<1>8. /\ Picked(s) \in s /\ s \ {Picked(s)} \in SUBSET Children /\ s \ {Picked(s)} # s
      /\ h[s] = f[Picked(s)] + h[s \ {Picked(s)}]
  BY <1>2, <1>6, <1>7, IsSumAt
<1>9. h[s \ {Picked(s)}] = 0
  BY <1>5, <1>8
<1>10. f[Picked(s)] = 0
  BY <1>4, <1>8
<1>11. h[s] = 0
  BY <1>8, <1>9, <1>10
<1> QED BY <1>6, <1>11

LEMMA InitHolds ==
  ASSUME CampaignAssumption, Init
  PROVE  CampaignInv
<1>1. Typed
  BY Numbers DEF Init, Typed, KidT, SamplerT, OutT, States, Zero
<1>2. ASSUME NEW c \in Children
      PROVE  SamplerOK(c) /\ ChildOK(c)
  BY Numbers DEF Init, Zero, SamplerOK, ChildOK
<1>3. Granted(grant) <= Cap
  <2>1. grant \in [Children -> Int] /\ \A c \in Children : grant[c] <= 0
    BY DEF Init
  <2> QED BY <2>1, NothingGranted, Numbers
<1>4. CtlOK /\ EndOK
  BY DEF Init, CtlOK, EndOK, IdleCtl, Reading, Granting, Ending
<1> QED BY <1>1, <1>2, <1>3, <1>4 DEF CampaignInv

LEMMA StepHolds ==
  ASSUME CampaignAssumption, CampaignInv, [Next]_vars
  PROVE  CampaignInv'
<1>1. CASE TickStep
  <2>1. CASE Observe
    BY <2>1, ObserveSafe
  <2>2. CASE ReadNodes
    BY <2>2, ReadNodesSafe
  <2>3. CASE ReadBudget
    BY <2>3, ReadBudgetSafe
  <2>4. CASE Allocate
    BY <2>4, AllocateSafe
  <2>5. CASE Place
    BY <2>5, PlaceSafe
  <2>6. CASE PersistOutput
    BY <2>6, OutputSafe
  <2>7. CASE Release
    BY <2>7, ReleaseSafe
  <2>8. CASE Finish
    BY <2>8, FinishSafe
  <2>9. CASE \E c \in Children : CreateChild(c)
    BY <2>9, CreateSafe
  <2>10. CASE \E met \in BOOLEAN : Decide(met)
    BY <2>10, DecideSafe
  <2> QED BY <1>1, <2>1, <2>2, <2>3, <2>4, <2>5, <2>6, <2>7, <2>8, <2>9, <2>10 DEF TickStep
<1>2. CASE TickFails
  BY <1>2, TickFailsSafe
<1>3. CASE \E c \in Children : ChildStep(c) \/ Checkpoint(c) \/ Crash(c) \/ FailChild(c)
  BY <1>3, ChildSafe
<1>4. CASE \E n \in 0 .. MaxSlots : PoolChanges(n)
  BY <1>4, PoolSafe
<1>5. CASE UNCHANGED vars
  BY <1>5 DEF vars, CampaignInv, Typed, SamplerOK, ChildOK, CtlOK, EndOK, Reading, Granting, Ending,
              SeenOK, Drained, DrainedChild, Piloted
<1> QED BY <1>1, <1>2, <1>3, <1>4, <1>5 DEF Next, Done

\* The tick's transactions, crashes between them and rollbacks of samplers keep grants, children
\* and what the tick has seen of them together (tick of integration_campaign.rs, campaign_budget.rs).
THEOREM Invariance == ASSUME CampaignAssumption PROVE Spec => []CampaignInv
<1>1. Init => CampaignInv
  BY InitHolds
<1>2. CampaignInv /\ [Next]_vars => CampaignInv'
  BY StepHolds
<1> QED BY <1>1, <1>2, PTL DEF Spec

-----------------------------------------------------------------------------
(* What the checks ask of a campaign, for every value of the constants.    *)

\* Task, children, samplers, grants and output keep their types, and a checkpoint or a sampler
\* never has more completed than produced.
THEOREM CampaignTyped == ASSUME CampaignAssumption PROVE Spec => []TypeOK
<1>1. ASSUME CampaignInv PROVE TypeOK
  <2>1. ASSUME NEW c \in Children
        PROVE  /\ kid[c].state \in States /\ kid[c].made \in BOOLEAN
               /\ kid[c].ck.prod \in 0 .. Size /\ kid[c].ck.done <= kid[c].ck.prod
               /\ role[c] # None => role[c].prod \in 0 .. Size /\ role[c].done <= role[c].prod
    <3>1. kid[c] \in KidT /\ role[c] \in {None} \cup SamplerT /\ SamplerOK(c) /\ ChildOK(c)
      BY <1>1 DEF CampaignInv, Typed
    <3> QED BY <3>1 DEF KidT, SamplerT, SamplerOK, ChildOK
  <2> QED BY <1>1, <2>1 DEF CampaignInv, Typed, TypeOK, OutT, States
<1> QED BY <1>1, Invariance, PTL

\* The grants of all children together stay within the campaign's cap, and no sampler produces
\* beyond its child's grant, through crashes, rollbacks and hand-overs (allocate_campaign_samples,
\* campaign_sample_allowance).
THEOREM GrantsWithinCap == ASSUME CampaignAssumption PROVE Spec => []CapKept
<1>1. CampaignInv => CapKept
  BY DEF CampaignInv, CapKept, SamplerOK
<1> QED BY <1>1, Invariance, PTL

\* A tick repeated after a crash between grant, placement and output does not grant another
\* quantum (tick of integration_campaign.rs, allocate_campaign_samples).
THEOREM OneQuantum == ASSUME CampaignAssumption PROVE Spec => []QuantumOnce
<1>1. CampaignInv => QuantumOnce
  BY DEF CampaignInv, ChildOK, QuantumOnce
<1> QED BY <1>1, Invariance, PTL

\* A campaign that completed had every child publish all of its grant, or finish its queue, with
\* a usable publishing stage (finish_controller after outstanding quanta are drained).
THEOREM CompletionDrained == ASSUME CampaignAssumption PROVE Spec => []CompletedDrained
<1>1. CampaignInv => CompletedDrained
  BY DEF CampaignInv, EndOK, Drained, DrainedChild, CompletedDrained
<1> QED BY <1>1, Invariance, PTL

\* An error target completes a campaign only after the pilot of every child, unless the cap is
\* used up (campaign_should_stop).
THEOREM PilotsComeFirst == ASSUME CampaignAssumption PROVE Spec => []PilotsFirst
<1>1. CampaignInv => PilotsFirst
  BY DEF CampaignInv, EndOK, Piloted, PilotsFirst
<1> QED BY <1>1, Invariance, PTL

\* Campaigns as a whole (campaign_budget.rs, integration_campaign.rs): grants are portions of the cap,
\* one quantum beyond what was completed, and a campaign completes drained and after every pilot.
THEOREM BudgetSafe == ASSUME CampaignAssumption PROVE Spec => []BudgetShared
BY CampaignTyped, GrantsWithinCap, OneQuantum, CompletionDrained, PilotsComeFirst, PTL DEF BudgetShared
=============================================================================
