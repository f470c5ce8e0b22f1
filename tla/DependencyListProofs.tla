------------------------ MODULE DependencyListProofs ------------------------
(***************************************************************************)
(* The lists and loops of backend/jobqueue/job.go compute what             *)
(* JobDependency says of sets, for any set of parents and lists of any     *)
(* length: Merge by induction over the list that is given, Evaluate by     *)
(* what its two counts say of all dependencies and of some.                *)
(***************************************************************************)
EXTENDS DependencyList, SequenceTheorems, FiniteSetTheorems, WellFoundedInduction, TLAPS

(* Once every parent is completed, failed or gone, the verdict on a set of *)
(* dependencies is not to wait, under every strategy.                      *)
THEOREM SettledParentsDecide ==
  ASSUME NEW Id, NEW d \in DependsOn(Id),
         NEW statusOf \in [Id -> {"completed", "failed", "none"}]
  PROVE  ~MustWait(d, statusOf)
<1>1. ASSUME NEW e \in d.deps
      PROVE  Satisfied(e, statusOf) \/ Impossible(e, statusOf)
  <2>1. e.id \in Id /\ e.cond \in Condition
    BY DEF DependsOn, Dependency
  <2> QED BY <2>1 DEF Satisfied, Impossible, Condition
<1> QED BY <1>1 DEF MustWait, IsReady, IsHopeless

(* A job is never found ready and hopeless at once. *)
THEOREM VerdictsExclude ==
  ASSUME NEW Id, NEW d \in DependsOn(Id), NEW statusOf \in [Id -> Status]
  PROVE  ~(IsReady(d, statusOf) /\ IsHopeless(d, statusOf))
<1>1. ASSUME NEW e \in d.deps
      PROVE  ~(Satisfied(e, statusOf) /\ Impossible(e, statusOf))
  BY DEF Satisfied, Impossible
<1> QED BY <1>1 DEF IsReady, IsHopeless

-----------------------------------------------------------------------------
(* Induction up to a bound, over a set of numbers, and what it defines. *)

LEMMA LeastNumber ==
  ASSUME NEW T, T \subseteq Nat, T # {}
  PROVE  \E m \in T : \A n \in T : m <= n
<1>1. PICK m \in T : \A n \in T : ~ (<<n, m>> \in OpToRel(<, Nat))
  BY NatLessThanWellFounded, WFMin
<1>2. \A n \in T : ~ (n < m)
  BY <1>1 DEF OpToRel
<1> QED
  BY <1>2

LEMMA ReachesAll ==
  ASSUME NEW N \in Nat, NEW G, 0 \in G, \A n \in 1 .. N : n - 1 \in G => n \in G
  PROVE  \A n \in 0 .. N : n \in G
<1> DEFINE Missing == {n \in 0 .. N : n \notin G}
<1> SUFFICES ASSUME Missing # {} PROVE FALSE
  OBVIOUS
<1>1. Missing \subseteq Nat
  OBVIOUS
<1>2. PICK m \in Missing : \A n \in Missing : m <= n
  BY <1>1, LeastNumber
<1>3. m \in 1 .. N /\ m - 1 \in 0 .. N /\ ~ (m <= m - 1)
  BY <1>2
<1>4. m - 1 \notin Missing
  BY <1>2, <1>3
<1> QED
  BY <1>2, <1>3, <1>4

(* A recursion over the numbers up to a bound has a value at each of them. *)
Iterated(N, S, s0, step, g) ==
  /\ g \in [0 .. N -> S] /\ g[0] = s0
  /\ \A n \in 1 .. N : g[n] = step[<<n, g[n - 1]>>]

LEMMA Iterates ==
  ASSUME NEW N \in Nat, NEW S, NEW s0 \in S, NEW step \in [(1 .. N) \X S -> S]
  PROVE  \E g : Iterated(N, S, s0, step, g)
<1> DEFINE Runs(n, g) == g[0] = s0 /\ \A k \in 1 .. n : g[k] = step[<<k, g[k - 1]>>]
           Reached == {n \in 0 .. N : \E g \in [0 .. n -> S] : Runs(n, g)}
<1>1. 0 \in Reached
  <2>1. [k \in 0 .. 0 |-> s0] \in [0 .. 0 -> S] /\ Runs(0, [k \in 0 .. 0 |-> s0])
    OBVIOUS
  <2>2. 0 \in 0 .. N
    OBVIOUS
  <2> HIDE DEF Runs
  <2> QED
    BY <2>1, <2>2
<1>2. ASSUME NEW n \in 1 .. N, n - 1 \in Reached PROVE n \in Reached
  <2>1. PICK g \in [0 .. n - 1 -> S] : Runs(n - 1, g)
    BY <1>2
  <2> DEFINE h == [k \in 0 .. n |-> IF k = n THEN step[<<n, g[n - 1]>>] ELSE g[k]]
  <2>2. g[n - 1] \in S /\ <<n, g[n - 1]>> \in (1 .. N) \X S
    OBVIOUS
  <2>3. \A k \in 0 .. n : k # n => k \in 0 .. n - 1
    OBVIOUS
  <2>4. h \in [0 .. n -> S]
    BY <2>2, <2>3
  <2>5. h[0] = s0
    BY <2>1
  <2>6. ASSUME NEW k \in 1 .. n PROVE h[k] = step[<<k, h[k - 1]>>]
    <3>1. h[k - 1] = g[k - 1]
      OBVIOUS
    <3>2. k # n => h[k] = g[k] /\ k \in 1 .. n - 1
      OBVIOUS
    <3>3. k = n => h[k] = step[<<n, g[n - 1]>>]
      OBVIOUS
    <3> HIDE DEF h
    <3> QED
      BY <2>1, <3>1, <3>2, <3>3
  <2> HIDE DEF h
  <2>7. n \in 0 .. N
    OBVIOUS
  <2> QED
    BY <2>4, <2>5, <2>6, <2>7
<1> HIDE DEF Reached
<1>3. N \in Reached
  BY <1>1, <1>2, ReachesAll
<1> QED
  BY <1>3 DEF Reached, Iterated

-----------------------------------------------------------------------------
(* Lists of dependencies. *)

Dep == Dependency(Parent)
List == Seq(Dep)

LEMMA ListElements ==
  ASSUME NEW deps \in List
  PROVE  /\ Len(deps) \in Nat /\ DOMAIN deps = 1 .. Len(deps)
         /\ \A i \in DOMAIN deps : deps[i] \in Dep /\ deps[i].id \in Parent
         /\ ToSet(deps) \subseteq Dep
         /\ \A x : x \in ToSet(deps) <=> \E i \in DOMAIN deps : x = deps[i]
<1>1. Len(deps) \in Nat /\ DOMAIN deps = 1 .. Len(deps)
  BY LenProperties DEF List
<1>2. \A i \in DOMAIN deps : deps[i] \in Dep
  BY <1>1, ElementOfSeq DEF List
<1>3. \A x \in Dep : x.id \in Parent
  BY DEF Dep, Dependency
<1> QED
  BY <1>1, <1>2, <1>3 DEF ToSet

LEMMA GivenIsList == \A given \in Given : given.deps \in List /\ given.strategy \in Strategy
<1>1. \A m \in Nat : [1 .. m -> Dep] \subseteq Seq(Dep)
  BY SeqDef
<1>2. \A m \in 0 .. MaxGiven : m \in Nat
  BY ListAssumption
<1>3. SeqOf(Dep, MaxGiven) \subseteq List
  BY <1>1, <1>2 DEF SeqOf, List
<1> QED
  BY <1>3 DEF Given, Dep

(* A dependency that is added comes last, unless its parent is known. *)
LEMMA AddsOne ==
  ASSUME NEW deps \in List, NEW dep \in Dep
  PROVE  LET new == AddDependency(deps, dep)
         IN  /\ new \in List
             /\ Len(deps) <= Len(new) /\ \A i \in 1 .. Len(deps) : new[i] = deps[i]
             /\ ToSet(new) = IF HasId(deps, dep.id) THEN ToSet(deps) ELSE ToSet(deps) \cup {dep}
             /\ \A id : HasId(new, id) <=> HasId(deps, id) \/ id = dep.id
             /\ IdsAreDistinct(deps) => IdsAreDistinct(new)
<1>1. Len(deps) \in Nat /\ DOMAIN deps = 1 .. Len(deps)
  BY ListElements
<1>2. CASE HasId(deps, dep.id)
  BY <1>1, <1>2 DEF AddDependency
<1>3. CASE ~HasId(deps, dep.id)
  <2> DEFINE new == Append(deps, dep)
  <2>1. /\ new \in List /\ Len(new) = Len(deps) + 1
        /\ \A i \in 1 .. Len(deps) : new[i] = deps[i]
        /\ new[Len(deps) + 1] = dep
    BY AppendProperties DEF List
  <2>2. AddDependency(deps, dep) = new
    BY <1>3 DEF AddDependency
  <2> HIDE DEF new
  <2>3. DOMAIN new = 1 .. Len(deps) + 1
    BY <2>1, ListElements
  <2>4. \A i \in DOMAIN new : i \in DOMAIN deps \/ i = Len(deps) + 1
    BY <1>1, <2>3
  <2>5. \A i \in DOMAIN deps : i \in DOMAIN new /\ new[i] = deps[i]
    BY <1>1, <2>1, <2>3
  <2>6. Len(deps) + 1 \in DOMAIN new
    BY <1>1, <2>3
  <2>7. ToSet(new) = ToSet(deps) \cup {dep}
    BY <2>1, <2>4, <2>5, <2>6 DEF ToSet
  <2>8. \A id : HasId(new, id) <=> HasId(deps, id) \/ id = dep.id
    BY <2>1, <2>4, <2>5, <2>6 DEF HasId
  <2>9. ASSUME IdsAreDistinct(deps) PROVE IdsAreDistinct(new)
    <3>1. \A i, j \in DOMAIN deps : deps[i].id = deps[j].id => i = j
      BY <2>9 DEF IdsAreDistinct, IsInjective
    <3>2. \A i \in DOMAIN deps : deps[i].id # dep.id
      BY <1>3 DEF HasId
    <3>3. \A i, j \in DOMAIN new : new[i].id = new[j].id => i = j
      BY <2>1, <2>4, <2>5, <3>1, <3>2
    <3> QED
      BY <3>3 DEF IdsAreDistinct, IsInjective
  <2>10. Len(deps) <= Len(new)
    BY <1>1, <2>1
  <2> QED
    BY <1>3, <2>1, <2>2, <2>7, <2>8, <2>9, <2>10
<1> QED
  BY <1>2, <1>3

(* The recursion of AddDependencies, unfolded. *)
LEMMA AddsInOrder ==
  ASSUME NEW deps \in List, NEW given \in List
  PROVE  \E g \in [0 .. Len(given) -> List] :
           /\ g[0] = deps /\ AddDependencies(deps, given) = g[Len(given)]
           /\ \A i \in 1 .. Len(given) : g[i] = AddDependency(g[i - 1], given[i])
<1> DEFINE N == Len(given)
           step == [x \in (1 .. N) \X List |-> AddDependency(x[2], given[x[1]])]
<1>1. N \in Nat /\ \A i \in 1 .. N : given[i] \in Dep
  BY ListElements
<1> HIDE DEF N
<1>2. \A l \in List : \A i \in 1 .. N : AddDependency(l, given[i]) \in List
  BY <1>1, AddsOne
<1>3. step \in [(1 .. N) \X List -> List]
  BY <1>2
<1>4. \A l \in List : \A i \in 1 .. N : step[<<i, l>>] = AddDependency(l, given[i])
  OBVIOUS
<1> HIDE DEF step
<1>5. PICK g : Iterated(N, List, deps, step, g)
  BY <1>1, <1>3, Iterates
<1>6. /\ g \in [0 .. N -> List] /\ g[0] = deps
      /\ \A i \in 1 .. N : g[i] = step[<<i, g[i - 1]>>]
  BY <1>5 DEF Iterated
<1>7. \A i \in 1 .. N : i - 1 \in 0 .. N
  BY <1>1
<1>8. \A i \in 1 .. N : g[i] = AddDependency(g[i - 1], given[i])
  BY <1>4, <1>6, <1>7
<1> DEFINE Is(h) == h = [i \in 0 .. N |->
                           IF i = 0 THEN deps ELSE AddDependency(h[i - 1], given[i])]
           upTo == CHOOSE h : Is(h)
<1>9. Is(g)
  <2>1. \A i \in 0 .. N : i # 0 => i \in 1 .. N
    BY <1>1
  <2>2. g = [i \in 0 .. N |-> g[i]]
    BY <1>6
  <2>3. \A i \in 0 .. N : g[i] = IF i = 0 THEN deps ELSE AddDependency(g[i - 1], given[i])
    BY <1>6, <1>8, <2>1
  <2> QED
    BY <2>2, <2>3
<1>10. Is(upTo)
  <2> HIDE DEF Is
  <2> QED
    BY <1>9
<1>11. AddDependencies(deps, given) = upTo[N]
  BY DEF AddDependencies, N
<1> HIDE DEF upTo
<1>12. upTo[0] = deps /\ \A i \in 1 .. N : upTo[i] = AddDependency(upTo[i - 1], given[i])
  BY <1>1, <1>10
<1>13. \A i \in 0 .. N : upTo[i] = g[i]
  <2> DEFINE Equal == {i \in 0 .. N : upTo[i] = g[i]}
  <2>1. 0 \in Equal
    BY <1>1, <1>6, <1>12
  <2>2. ASSUME NEW n \in 1 .. N, n - 1 \in Equal PROVE n \in Equal
    BY <1>1, <1>8, <1>12, <2>2
  <2> HIDE DEF Equal
  <2>3. \A n \in 0 .. N : n \in Equal
    BY <1>1, <2>1, <2>2, ReachesAll
  <2> QED
    BY <2>3 DEF Equal
<1>14. N \in 0 .. N
  BY <1>1
<1> QED
  BY <1>6, <1>8, <1>11, <1>13, <1>14 DEF N

(* What the loop of Merge adds: the dependencies whose parent is new, after *)
(* those that were there, when the list that is given names a parent once.  *)
LEMMA AddsMissing ==
  ASSUME NEW deps \in List, NEW given \in List, IdsAreDistinct(given)
  PROVE  LET new == AddDependencies(deps, given)
         IN  /\ new \in List
             /\ Len(deps) <= Len(new) /\ \A i \in 1 .. Len(deps) : new[i] = deps[i]
             /\ ToSet(new) = ToSet(deps) \cup {d \in ToSet(given) : ~HasId(deps, d.id)}
             /\ IdsAreDistinct(deps) => IdsAreDistinct(new)
<1>1. PICK g \in [0 .. Len(given) -> List] :
        /\ g[0] = deps /\ AddDependencies(deps, given) = g[Len(given)]
        /\ \A i \in 1 .. Len(given) : g[i] = AddDependency(g[i - 1], given[i])
  BY AddsInOrder
<1> DEFINE N == Len(given)
           Added(i) == {d \in Dep : ~HasId(deps, d.id) /\ \E k \in 1 .. i : d = given[k]}
           Good(i) == /\ Len(deps) <= Len(g[i])
                      /\ \A k \in 1 .. Len(deps) : g[i][k] = deps[k]
                      /\ ToSet(g[i]) = ToSet(deps) \cup Added(i)
                      /\ \A id : HasId(g[i], id) <=>
                           HasId(deps, id) \/ \E k \in 1 .. i : given[k].id = id
                      /\ IdsAreDistinct(deps) => IdsAreDistinct(g[i])
           G == {i \in 0 .. N : Good(i)}
<1>2. N \in Nat /\ Len(deps) \in Nat /\ DOMAIN given = 1 .. N
  BY ListElements
<1>3. \A i \in 1 .. N : given[i] \in Dep
  BY <1>2, ListElements
<1>4. \A i, j \in 1 .. N : given[i].id = given[j].id => i = j
  BY <1>2 DEF IdsAreDistinct, IsInjective
<1> HIDE DEF N
<1>5. 0 \in G
  BY <1>1, <1>2
<1>6. ASSUME NEW i \in 1 .. N, i - 1 \in G PROVE i \in G
  <2> DEFINE old == g[i - 1]
             dep == given[i]
             new == AddDependency(old, dep)
  <2>1. i - 1 \in 0 .. N /\ i \in 0 .. N /\ old \in List /\ dep \in Dep /\ g[i] = new
    BY <1>1, <1>2, <1>3 DEF N
  <2>2. Good(i - 1)
    BY <1>6
  <2> HIDE DEF old, dep, new
  <2>3. /\ new \in List
        /\ Len(old) <= Len(new) /\ \A k \in 1 .. Len(old) : new[k] = old[k]
        /\ ToSet(new) = IF HasId(old, dep.id) THEN ToSet(old) ELSE ToSet(old) \cup {dep}
        /\ \A id : HasId(new, id) <=> HasId(old, id) \/ id = dep.id
        /\ IdsAreDistinct(old) => IdsAreDistinct(new)
    BY <2>1, AddsOne DEF new
  <2>4. Len(old) \in Nat /\ Len(new) \in Nat
    BY <2>1, <2>3, ListElements
  <2>5. \A k \in 1 .. i : k \in 1 .. i - 1 \/ k = i
    BY <1>2
  <2>6. i \in 1 .. i /\ \A k \in 1 .. i - 1 : k \in 1 .. i /\ k \in 1 .. N /\ k # i
    BY <1>2
  <2>7. HasId(old, dep.id) <=> HasId(deps, dep.id)
    <3>1. \A k \in 1 .. i - 1 : given[k].id # dep.id
      BY <1>4, <2>6 DEF dep
    <3> QED
      BY <2>2, <3>1 DEF old
  <2>8. Added(i) = IF HasId(deps, dep.id) THEN Added(i - 1) ELSE Added(i - 1) \cup {dep}
    BY <2>1, <2>5, <2>6 DEF dep
  <2>9. /\ Len(deps) <= Len(new) /\ \A k \in 1 .. Len(deps) : new[k] = deps[k]
    BY <1>2, <2>2, <2>3, <2>4 DEF old
  <2>10. \A id : HasId(new, id) <=> HasId(deps, id) \/ \E k \in 1 .. i : given[k].id = id
    BY <2>2, <2>3, <2>5, <2>6 DEF old, dep
  <2>11. ToSet(new) = ToSet(deps) \cup Added(i)
    <3>1. ToSet(old) = ToSet(deps) \cup Added(i - 1)
      BY <2>2 DEF old
    <3> HIDE DEF Added
    <3> QED
      BY <2>3, <2>7, <2>8, <3>1
  <2>12. IdsAreDistinct(deps) => IdsAreDistinct(new)
    BY <2>2, <2>3 DEF old
  <2> HIDE DEF Added
  <2> QED
    BY <2>1, <2>9, <2>10, <2>11, <2>12
<1>7. Good(N)
  <2> HIDE DEF G, Good
  <2>1. \A i \in 0 .. N : i \in G
    BY <1>2, <1>5, <1>6, ReachesAll
  <2>2. N \in 0 .. N
    BY <1>2
  <2> QED
    BY <2>1, <2>2 DEF G
<1>8. Added(N) = {d \in ToSet(given) : ~HasId(deps, d.id)}
  BY <1>2, <1>3, ListElements
<1>9. g[N] \in List
  BY <1>1, <1>2 DEF N
<1> HIDE DEF Added
<1> QED
  BY <1>1, <1>7, <1>8, <1>9 DEF N

-----------------------------------------------------------------------------
(* Evaluate counts all dependencies, or one at least, as the sets say. *)

LEMMA Counting ==
  ASSUME NEW deps \in List, NEW S, S \subseteq DOMAIN deps
  PROVE  /\ Cardinality(S) \in Nat
         /\ Cardinality(S) = 0 <=> S = {}
         /\ Cardinality(S) = Len(deps) <=> S = DOMAIN deps
<1>1. Len(deps) \in Nat /\ DOMAIN deps = 1 .. Len(deps)
  BY ListElements
<1>2. IsFiniteSet(1 .. Len(deps)) /\ Cardinality(1 .. Len(deps)) = Len(deps)
  BY <1>1, FS_Interval
<1>3. S \in SUBSET (1 .. Len(deps))
  BY <1>1
<1>4. IsFiniteSet(S) /\ (Cardinality(1 .. Len(deps)) = Cardinality(S) => 1 .. Len(deps) = S)
  BY <1>2, <1>3, FS_Subset
<1>5. Cardinality(S) \in Nat /\ (Cardinality(S) = 0 <=> S = {})
  BY <1>4, FS_CardinalityType, FS_EmptySet
<1> QED
  BY <1>1, <1>2, <1>4, <1>5

(* A job whose status is looked up is one that the definition on sets asks for. *)
LEMMA StatusesAgree ==
  ASSUME NEW dep \in Dep, NEW statusOf \in [Parent -> Status]
  PROVE  /\ statusOf[dep.id] = "none" \/ IsSatisfied(dep, statusOf) <=> Satisfied(dep, statusOf)
         /\ statusOf[dep.id] # "none" /\ IsImpossible(dep, statusOf) <=> Impossible(dep, statusOf)
<1>1. dep.cond \in {"completed", "finished"} /\ dep.id \in Parent
  BY DEF Dep, Dependency, Condition
<1> QED
  BY <1>1 DEF IsSatisfied, Satisfied, IsImpossible, Impossible

LEMMA VerdictsAgree ==
  ASSUME NEW d, d.deps \in List, NEW s, s.deps = ToSet(d.deps),
         s.strategy = "any" <=> d.strategy = "any", NEW statusOf \in [Parent -> Status]
  PROVE  /\ Evaluate(d, statusOf) = "ready" <=> IsReady(s, statusOf)
         /\ Evaluate(d, statusOf) = "fail" <=> IsHopeless(s, statusOf)
         /\ Evaluate(d, statusOf) = "wait" <=> MustWait(s, statusOf)
<1> DEFINE deps == d.deps
           sat == {i \in DOMAIN deps : ~(statusOf[deps[i].id] # "none") \/ IsSatisfied(deps[i], statusOf)}
           imp == {i \in DOMAIN deps : statusOf[deps[i].id] # "none" /\ IsImpossible(deps[i], statusOf)}
           isSat == {x \in s.deps : Satisfied(x, statusOf)}
           isImp == {x \in s.deps : Impossible(x, statusOf)}
<1>1. /\ Len(deps) \in Nat /\ DOMAIN deps = 1 .. Len(deps)
      /\ \A i \in DOMAIN deps : deps[i] \in Dep
      /\ \A x : x \in s.deps <=> \E i \in DOMAIN deps : x = deps[i]
  BY ListElements
<1>2. deps = <<>> <=> DOMAIN deps = {}
  BY <1>1, EmptySeq DEF List
<1>3. Evaluate(d, statusOf) =
        IF deps = <<>> THEN "ready"
        ELSE IF d.strategy = "any"
             THEN CASE Cardinality(sat) > 0 -> "ready"
                    [] Cardinality(sat) = 0 /\ Cardinality(imp) = Len(deps) -> "fail"
                    [] OTHER -> "wait"
             ELSE CASE Cardinality(imp) > 0 -> "fail"
                    [] Cardinality(imp) = 0 /\ Cardinality(sat) = Len(deps) -> "ready"
                    [] OTHER -> "wait"
  BY DEF Evaluate
<1>4. \A i \in DOMAIN deps : /\ i \in sat <=> Satisfied(deps[i], statusOf)
                             /\ i \in imp <=> Impossible(deps[i], statusOf)
  BY <1>1, StatusesAgree
<1>5. sat \subseteq DOMAIN deps /\ imp \subseteq DOMAIN deps
  OBVIOUS
<1> HIDE DEF deps, sat, imp
<1>6. /\ Cardinality(sat) \in Nat /\ Cardinality(imp) \in Nat
      /\ Cardinality(sat) = 0 <=> sat = {}
      /\ Cardinality(imp) = 0 <=> imp = {}
      /\ Cardinality(sat) = Len(deps) <=> sat = DOMAIN deps
      /\ Cardinality(imp) = Len(deps) <=> imp = DOMAIN deps
  BY <1>5, Counting DEF deps
<1>7. /\ sat = {} <=> isSat = {}
      /\ imp = {} <=> isImp = {}
      /\ sat = DOMAIN deps <=> isSat = s.deps
      /\ imp = DOMAIN deps <=> isImp = s.deps
      /\ DOMAIN deps = {} <=> s.deps = {}
  <2>1. sat = {} <=> isSat = {}
    BY <1>1, <1>4, <1>5
  <2>2. imp = {} <=> isImp = {}
    BY <1>1, <1>4, <1>5
  <2>3. sat = DOMAIN deps <=> isSat = s.deps
    <3>1. sat = DOMAIN deps <=> \A i \in DOMAIN deps : Satisfied(deps[i], statusOf)
      BY <1>4, <1>5
    <3>2. isSat = s.deps <=> \A x \in s.deps : Satisfied(x, statusOf)
      OBVIOUS
    <3> QED
      BY <1>1, <3>1, <3>2
  <2>4. imp = DOMAIN deps <=> isImp = s.deps
    <3>1. imp = DOMAIN deps <=> \A i \in DOMAIN deps : Impossible(deps[i], statusOf)
      BY <1>4, <1>5
    <3>2. isImp = s.deps <=> \A x \in s.deps : Impossible(x, statusOf)
      OBVIOUS
    <3> QED
      BY <1>1, <3>1, <3>2
  <2>5. DOMAIN deps = {} <=> s.deps = {}
    BY <1>1
  <2> QED
    BY <2>1, <2>2, <2>3, <2>4, <2>5
<1>8. isSat \cap isImp = {}
  BY DEF Satisfied, Impossible
<1>9. /\ IsReady(s, statusOf) <=>
           \/ s.deps = {}
           \/ s.strategy = "any" /\ isSat # {}
           \/ s.strategy # "any" /\ isSat = s.deps
      /\ IsHopeless(s, statusOf) <=>
           /\ s.deps # {}
           /\ IF s.strategy = "any" THEN isImp = s.deps ELSE isImp # {}
  BY DEF IsReady, IsHopeless
<1> HIDE DEF isSat, isImp
<1>10. isSat \subseteq s.deps /\ isImp \subseteq s.deps
  BY DEF isSat, isImp
<1>11. CASE deps = <<>>
  BY <1>2, <1>3, <1>7, <1>9, <1>11 DEF MustWait
<1>12. CASE deps # <<>> /\ d.strategy = "any"
  BY <1>2, <1>3, <1>6, <1>7, <1>8, <1>9, <1>10, <1>12 DEF MustWait
<1>13. CASE deps # <<>> /\ d.strategy # "any"
  BY <1>2, <1>3, <1>6, <1>7, <1>8, <1>9, <1>10, <1>13 DEF MustWait
<1> QED
  BY <1>11, <1>12, <1>13

-----------------------------------------------------------------------------
(* The list that is stored, and the set. *)

Agrees ==
  /\ dependsOn \in [deps : List, strategy : Strategy] /\ asSet \in DependsOn(Parent)
  /\ MergeAgrees

LEMMA InitAgrees == Init => Agrees
<1> SUFFICES ASSUME Init PROVE Agrees
  OBVIOUS
<1>1. <<>> \in List /\ ToSet(<<>>) = {}
  BY EmptySeq DEF List, ToSet
<1> QED
  BY <1>1 DEF Init, Agrees, Nothing, NoDependsOn, Strategy, DependsOn, MergeAgrees

LEMMA StoreAgrees ==
  ASSUME Agrees, NEW given \in Given, Store(given)
  PROVE  Agrees'
<1>1. given \in [deps : List, strategy : Strategy]
  BY GivenIsList DEF Given
<1>2. ToSet(given.deps) \subseteq Dep
  BY <1>1, ListElements
<1> QED
  BY <1>1, <1>2 DEF Store, Agrees, AsSet, DependsOn, MergeAgrees, Dep

LEMMA MergeGivenAgrees ==
  ASSUME Agrees, NEW given \in Given, MergeGiven(given)
  PROVE  Agrees'
<1> DEFINE old == dependsOn.deps
           new == AddDependencies(old, given.deps)
           strategy2 == CASE given.strategy # "unset" -> given.strategy
                  [] given.strategy = "unset" /\ dependsOn.strategy = "unset" -> "all"
                  [] OTHER -> dependsOn.strategy
<1>1. /\ given.deps \in List /\ given.strategy \in Strategy /\ IdsAreDistinct(given.deps)
      /\ given = [deps |-> given.deps, strategy |-> given.strategy]
  BY GivenIsList DEF MergeGiven, MayMerge, Given
<1>2. /\ old \in List /\ dependsOn.strategy \in Strategy
      /\ ToSet(old) = asSet.deps /\ asSet.strategy \in Strategy
  BY DEF Agrees, DependsOn, MergeAgrees
<1>3. /\ new \in List
      /\ Len(old) <= Len(new) /\ \A i \in 1 .. Len(old) : new[i] = old[i]
      /\ ToSet(new) = ToSet(old) \cup {d \in ToSet(given.deps) : ~HasId(old, d.id)}
      /\ IdsAreDistinct(old) => IdsAreDistinct(new)
  BY <1>1, <1>2, AddsMissing
<1>4. dependsOn' = [deps |-> new, strategy |-> strategy2]
  BY DEF MergeGiven, MergeList
<1>5. \A id : HasId(old, id) <=> id \in ParentIds(asSet)
  BY <1>2, ListElements DEF HasId, ParentIds
<1>6. AsSet(given) # NoDependsOn
  <2>1. ToSet(given.deps) = {} => given.deps = <<>>
    BY <1>1, ListElements, EmptySeq DEF List
  <2> QED
    BY <1>1, <2>1 DEF AsSet, NoDependsOn, MergeGiven, MayMerge, Nothing
<1>7. /\ asSet'.deps = asSet.deps \cup {d \in ToSet(given.deps) : d.id \notin ParentIds(asSet)}
      /\ asSet'.strategy = IF given.strategy # "unset" THEN given.strategy
                            ELSE IF asSet.strategy # "unset" THEN asSet.strategy ELSE "all"
      /\ asSet' = [deps |-> asSet'.deps, strategy |-> asSet'.strategy]
  BY <1>6 DEF MergeGiven, Merge, AsSet
<1> HIDE DEF new, old, strategy2
<1>8. ToSet(new) = asSet'.deps
  BY <1>2, <1>3, <1>5, <1>7
<1>9. strategy2 \in Strategy /\ asSet'.strategy \in Strategy
  BY <1>1, <1>2, <1>7 DEF strategy2, Strategy
<1>10. (IF strategy2 = "unset" THEN "all" ELSE strategy2)
         = (IF asSet'.strategy = "unset" THEN "all" ELSE asSet'.strategy)
  <2>1. (IF dependsOn.strategy = "unset" THEN "all" ELSE dependsOn.strategy)
          = (IF asSet.strategy = "unset" THEN "all" ELSE asSet.strategy)
    BY DEF Agrees, MergeAgrees
  <2>2. CASE given.strategy # "unset"
    BY <1>7, <2>2 DEF strategy2
  <2>3. CASE given.strategy = "unset"
    <3>1. strategy2 = IF dependsOn.strategy = "unset" THEN "all" ELSE dependsOn.strategy
      BY <2>3 DEF strategy2
    <3>2. asSet'.strategy = IF asSet.strategy = "unset" THEN "all" ELSE asSet.strategy
      BY <1>7, <2>3
    <3> QED
      BY <2>1, <3>1, <3>2
  <2> QED
    BY <2>2, <2>3
<1>11. MergeAgrees'
  BY <1>4, <1>8, <1>10 DEF MergeAgrees
<1>12. asSet' \in DependsOn(Parent)
  BY <1>3, <1>7, <1>8, <1>9, ListElements DEF DependsOn, Dep
<1>13. dependsOn' \in [deps : List, strategy : Strategy]
  BY <1>3, <1>4, <1>9
<1> QED
  BY <1>3, <1>4, <1>11, <1>12, <1>13 DEF Agrees, old

(* The loop over the list adds what the definition on sets adds, whatever the *)
(* sequence of enqueues.                                                      *)
THEOREM MergeIsMergeOfSets == Spec => []Agrees
<1>1. Agrees /\ [Next]_vars => Agrees'
  <2> SUFFICES ASSUME Agrees, [Next]_vars PROVE Agrees'
    OBVIOUS
  <2>1. CASE Next
    BY <2>1, StoreAgrees, MergeGivenAgrees DEF Next
  <2>2. CASE UNCHANGED vars
    BY <2>2 DEF vars, Agrees, MergeAgrees
  <2> QED
    BY <2>1, <2>2
<1> QED
  BY <1>1, InitAgrees, PTL DEF Spec

(* The stored list names exactly the (parent, condition) pairs that the      *)
(* definition on sets keeps, under the same strategy, after any enqueues.    *)
THEOREM ListIsSet == Spec => []MergeAgrees
<1>1. Agrees => MergeAgrees
  BY DEF Agrees
<1> QED
  BY <1>1, MergeIsMergeOfSets, PTL

(* The counting of Evaluate gives the verdict of the definitions on sets,  *)
(* for every state of the parents.                                         *)
THEOREM EvaluateIsVerdictOnSets == Spec => []EvaluateAgrees
<1>1. ASSUME Agrees PROVE EvaluateAgrees
  <2>1. /\ dependsOn.deps \in List /\ asSet.deps = ToSet(dependsOn.deps)
        /\ asSet.strategy = "any" <=> dependsOn.strategy = "any"
    BY <1>1 DEF Agrees, MergeAgrees
  <2> QED
    BY <2>1, VerdictsAgree DEF EvaluateAgrees
<1> QED
  BY <1>1, MergeIsMergeOfSets, PTL

(* No ghost jobs: once every parent is settled the job runs or fails, it   *)
(* does not wait for ever.                                                 *)
THEOREM NoJobWaitsForNothing == Spec => []NoGhostJob
<1>1. ASSUME Agrees PROVE NoGhostJob
  <2> SUFFICES ASSUME NEW statusOf \in [Parent -> {"completed", "failed", "none"}]
               PROVE  Evaluate(dependsOn, statusOf) # "wait"
    BY DEF NoGhostJob
  <2>1. statusOf \in [Parent -> Status]
    BY DEF Status
  <2>2. /\ dependsOn.deps \in List /\ asSet.deps = ToSet(dependsOn.deps)
        /\ asSet.strategy = "any" <=> dependsOn.strategy = "any"
        /\ asSet \in DependsOn(Parent)
    BY <1>1 DEF Agrees, MergeAgrees
  <2>3. ~MustWait(asSet, statusOf)
    BY <2>2, SettledParentsDecide
  <2> QED
    BY <2>1, <2>2, <2>3, VerdictsAgree
<1> QED
  BY <1>1, MergeIsMergeOfSets, PTL

(* Of two lists, where the first asks for all its dependencies and those of *)
(* the second are among them: ready by the first is ready by the second.    *)
LEMMA ReadyByFewer ==
  ASSUME NEW d, d.deps \in List, NEW e, e.deps \in List, d.strategy # "any",
         ToSet(e.deps) \subseteq ToSet(d.deps), NEW statusOf \in [Parent -> Status],
         Evaluate(d, statusOf) = "ready"
  PROVE  Evaluate(e, statusOf) = "ready"
<1> DEFINE s == [deps |-> ToSet(d.deps), strategy |-> d.strategy]
           t == [deps |-> ToSet(e.deps), strategy |-> e.strategy]
<1>1. IsReady(s, statusOf)
  BY VerdictsAgree
<1>2. \A x \in t.deps : Satisfied(x, statusOf)
  BY <1>1 DEF IsReady
<1>3. IsReady(t, statusOf)
  BY <1>2 DEF IsReady
<1> QED
  BY <1>3, VerdictsAgree

(* A merge runs the job no earlier than what is stored or what is given     *)
(* allows, but under "any" and where a parent is known under a condition of *)
(* its own; what is stored stays in front, and no parent is named twice.    *)
THEOREM MergeWeakensOnlyByAny == Spec => []WeakenedOnlyByAny
<1>1. ASSUME Agrees, NEW given \in Given, MayMerge(given)
      PROVE  LET new == MergeList(dependsOn, given)
             IN  /\ IsPrefix(dependsOn.deps, new.deps)
                 /\ IdsAreDistinct(dependsOn.deps) => IdsAreDistinct(new.deps)
                 /\ new.strategy = "any" \/ NothingWeakened(given)
  <2> DEFINE merged == MergeList(dependsOn, given)
             old == dependsOn.deps
             new == merged.deps
  <2>1. given.deps \in List /\ IdsAreDistinct(given.deps) /\ old \in List
    BY <1>1, GivenIsList DEF MayMerge, Agrees
  <2>2. new = AddDependencies(old, given.deps)
    BY DEF MergeList
  <2> HIDE DEF old, merged
  <2>3. /\ new \in List
        /\ Len(old) <= Len(new) /\ \A i \in 1 .. Len(old) : new[i] = old[i]
        /\ ToSet(new) = ToSet(old) \cup {d \in ToSet(given.deps) : ~HasId(old, d.id)}
        /\ IdsAreDistinct(old) => IdsAreDistinct(new)
    BY <2>1, <2>2, AddsMissing
  <2>4. IsPrefix(old, new)
    <3>1. Len(old) \in Nat /\ DOMAIN old = 1 .. Len(old)
      BY <2>1, ListElements
    <3> HIDE DEF new
    <3>2. \A i \in 1 .. Len(old) : old[i] \in Dep /\ new[i] \in Dep
      BY <2>1, <2>3, <3>1, ListElements
    <3>3. /\ SubSeq(old, 1, Len(old)) \in Seq(Dep) /\ SubSeq(new, 1, Len(old)) \in Seq(Dep)
          /\ Len(SubSeq(old, 1, Len(old))) = Len(old) /\ Len(SubSeq(new, 1, Len(old))) = Len(old)
          /\ \A i \in 1 .. Len(old) : /\ SubSeq(old, 1, Len(old))[i] = old[i]
                                      /\ SubSeq(new, 1, Len(old))[i] = new[i]
      BY <3>1, <3>2, SubSeqProperties
    <3>4. SubSeq(old, 1, Len(old)) = SubSeq(new, 1, Len(old))
      BY <2>3, <3>3, SeqEqual
    <3> QED
      BY <2>3, <3>4 DEF IsPrefix
  <2>5. ASSUME merged.strategy # "any" PROVE NothingWeakened(given)
    <3> SUFFICES ASSUME NEW statusOf \in [Parent -> Status],
                        Evaluate(merged, statusOf) = "ready"
                 PROVE  /\ Evaluate(dependsOn, statusOf) = "ready"
                        /\ ConditionsAgree(given) => Evaluate(given, statusOf) = "ready"
      BY DEF NothingWeakened, merged
    <3>1. Evaluate(dependsOn, statusOf) = "ready"
      BY <2>1, <2>3, <2>5, ReadyByFewer DEF old
    <3>2. ASSUME ConditionsAgree(given) PROVE Evaluate(given, statusOf) = "ready"
      <4>1. ToSet(given.deps) \subseteq ToSet(new)
        BY <2>3, <3>2 DEF ConditionsAgree, old
      <4> QED
        BY <2>1, <2>3, <2>5, <4>1, ReadyByFewer
    <3> QED
      BY <3>1, <3>2
  <2> QED
    BY <2>3, <2>4, <2>5 DEF old, merged
<1>2. Agrees => WeakenedOnlyByAny
  BY <1>1 DEF WeakenedOnlyByAny
<1> QED
  BY <1>2, MergeIsMergeOfSets, PTL
=============================================================================
