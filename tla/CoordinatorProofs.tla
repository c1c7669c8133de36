------------------------- MODULE CoordinatorProofs ---------------------------
(***************************************************************************)
(* Proofs of what adds up to a limit. The budget, the dependencies and the  *)
(* results of a team of workers hold, whenever workers end, tasks are       *)
(* cancelled and time runs out; what the memory of a project promised is    *)
(* kept, in its file whoever dies holding the lock and in its rows whatever *)
(* is decided of them. Tasks, budgets, processes, texts and limits are      *)
(* arbitrary. The first part is what both need of sums over finite sets.    *)
(***************************************************************************)
EXTENDS Coordinator, Memory, FiniteSetTheorems, TLAPS

-----------------------------------------------------------------------------
(* Sums over finite sets *)

\* A set of natural numbers that is not empty has a least element.
LEMMA LeastNumber ==
    ASSUME NEW S, S \subseteq Nat, S # {}
    PROVE  \E n \in S : \A m \in S : n <= m
<1>1. PICK n \in S : \A m \in S : ~(<<m, n>> \in OpToRel(<, Nat))
  BY NatLessThanWellFounded, WFMin
<1>2. ASSUME NEW m \in S PROVE n <= m
  <2>1. SUFFICES ASSUME m < n PROVE FALSE
    OBVIOUS
  <2>2. <<m, n>> \in Nat \X Nat
    OBVIOUS
  <2>3. <<m, n>>[1] = m /\ <<m, n>>[2] = n
    OBVIOUS
  <2>4. <<m, n>> \in OpToRel(<, Nat)
    BY <2>1, <2>2, <2>3 DEF OpToRel
  <2> QED BY <1>1, <2>4
<1> QED BY <1>2

\* Among sets of a finite whole there is one none of whose elements can be taken away.
LEMMA SmallestSet ==
    ASSUME NEW S, IsFiniteSet(S), NEW Bad, Bad \subseteq SUBSET S, Bad # {}
    PROVE  \E s \in Bad : \A x \in s : s \ {x} \notin Bad
<1> DEFINE sizes == {Cardinality(s) : s \in Bad}
<1>1. \A s \in Bad : IsFiniteSet(s) /\ Cardinality(s) \in Nat
  BY FS_Subset, FS_CardinalityType
<1>2. sizes \subseteq Nat /\ sizes # {}
  BY <1>1
<1> HIDE DEF sizes
<1>3. PICK n \in sizes : \A m \in sizes : n <= m
  BY <1>2, LeastNumber
<1>4. PICK s \in Bad : Cardinality(s) = n
  BY <1>3 DEF sizes
<1>5. ASSUME NEW x \in s, s \ {x} \in Bad
      PROVE  FALSE
  <2> DEFINE m == Cardinality(s \ {x})
  <2>1. m \in sizes
    BY <1>5 DEF sizes
  <2>2. m = n - 1 /\ n \in Nat
    BY <1>1, <1>4, FS_RemoveElement
  <2> HIDE DEF m
  <2> QED BY <1>3, <2>1, <2>2
<1> QED BY <1>4, <1>5

\* The element that a sum over s takes first: SumFunctionOnSet folds the set by CHOOSE.
First(s) == CHOOSE x \in s : TRUE

\* The function over the subsets of S that the library's sum is the value of.
Sums(h, g, S) ==
    h = [s \in SUBSET S |-> IF s = {} THEN 0
                            ELSE g[First(s)] + h[s \ {First(s)}]]

\* The sum of g over S is what that function says of S.
LEMMA SumIs ==
    ASSUME NEW g, NEW S
    PROVE  SumFunctionOnSet(g, S) = (CHOOSE h : Sums(h, g, S))[S]
BY DEF SumFunctionOnSet, FoldFunctionOnSet, MapThenFoldSet, Sums, First

\* The recursion of a sum over the subsets of a finite set has a solution.
LEMMA SumsExist ==
    ASSUME NEW g, NEW S, IsFiniteSet(S)
    PROVE  \E h : Sums(h, g, S)
<1> DEFINE Low(n) == {s \in SUBSET S : Cardinality(s) <= n}
           Upto(h, n) == h = [s \in Low(n) |->
                IF s = {} THEN 0
                ELSE g[First(s)] + h[s \ {First(s)}]]
           bad == {n \in Nat : \A h : ~Upto(h, n)}
<1>1. \A s \in SUBSET S : IsFiniteSet(s) /\ Cardinality(s) \in Nat /\ Cardinality(s) <= Cardinality(S)
  BY FS_Subset, FS_CardinalityType
<1>2. \A s \in SUBSET S : Cardinality(s) = 0 <=> s = {}
  BY <1>1, FS_EmptySet
<1>3. \A s \in SUBSET S : s # {} =>
        /\ First(s) \in s /\ s \ {First(s)} \in SUBSET S
        /\ Cardinality(s \ {First(s)}) = Cardinality(s) - 1
  BY <1>1, FS_RemoveElement DEF First
<1>4. SUFFICES bad = {}
  <2>1. PICK c \in Nat : c = Cardinality(S)
    BY <1>1
  <2>2. Low(c) = SUBSET S
    BY <1>1, <2>1
  <2>3. c \notin bad
    BY <1>4
  <2>4. \E h : Upto(h, c)
    <3> HIDE DEF Upto
    <3> QED BY <2>3
  <2>5. PICK h : Upto(h, c)
    BY <2>4
  <2> HIDE DEF Low
  <2> QED BY <2>2, <2>5 DEF Sums
<1>5. SUFFICES ASSUME bad # {} PROVE FALSE
  OBVIOUS
<1>6. PICK n \in bad : \A m \in bad : n <= m
  <2>1. bad \subseteq Nat
    OBVIOUS
  <2> HIDE DEF bad
  <2> QED BY <1>5, <2>1, LeastNumber
<1>7. n \in Nat
  OBVIOUS
<1>8. CASE n = 0
  <2>1. Low(0) = {{}}
    BY <1>1, <1>2
  <2>2. Upto([s \in Low(0) |-> 0], 0)
    BY <2>1
  <2> QED BY <1>6, <1>8, <2>2
<1>9. CASE n # 0
  <2>1. n - 1 \in Nat /\ n - 1 \notin bad
    <3> HIDE DEF bad
    <3> QED BY <1>6, <1>7, <1>9
  <2>2. PICK h : Upto(h, n - 1)
    BY <2>1
  <2> DEFINE next(s) == s \ {First(s)}
             up == [s \in Low(n) |-> IF s = {} THEN 0
                                     ELSE g[First(s)] + h[next(s)]]
  <2>3. \A s \in Low(n) : s # {} => next(s) \in Low(n - 1) /\ next(s) \in Low(n)
    BY <1>1, <1>3, <1>7
  <2>4. \A s \in Low(n - 1) : up[s] = h[s]
    <3>1. \A s \in Low(n - 1) : s \in Low(n)
      BY <1>1, <1>7
    <3> QED BY <2>2, <3>1
  <2>5. Upto(up, n)
    <3>1. \A s \in Low(n) : s # {} => up[next(s)] = h[next(s)]
      BY <2>3, <2>4
    <3>2. up = [s \in Low(n) |-> IF s = {} THEN 0
                                ELSE g[First(s)] + up[next(s)]]
      <4> DEFINE one(s) == IF s = {} THEN 0 ELSE g[First(s)] + h[next(s)]
                 two(s) == IF s = {} THEN 0 ELSE g[First(s)] + up[next(s)]
      <4>1. \A s \in Low(n) : one(s) = two(s)
        BY <3>1
      <4>2. up = [s \in Low(n) |-> one(s)]
        OBVIOUS
      <4> HIDE DEF up
      <4> HIDE DEF one, two, Low
      <4>3. up = [s \in Low(n) |-> two(s)]
        BY <4>1, <4>2
      <4> QED BY <4>3 DEF two
    <3> HIDE DEF up, Low
    <3> QED BY <3>2
  <2> QED BY <1>6, <2>5
<1> QED BY <1>7, <1>8, <1>9

\* So a sum over a finite set is one element more than the sum over the rest.
LEMMA SumUnfolds ==
    ASSUME NEW g, NEW S, IsFiniteSet(S)
    PROVE  /\ SumFunctionOnSet(g, {}) = 0
           /\ S # {} => \E x \in S : SumFunctionOnSet(g, S) = g[x] + SumFunctionOnSet(g, S \ {x})
<1> DEFINE h(T) == CHOOSE h : Sums(h, g, T)
<1>1. \A T : IsFiniteSet(T) => Sums(h(T), g, T)
  BY SumsExist
<1>2. \A T : SumFunctionOnSet(g, T) = h(T)[T]
  BY SumIs
<1>3. SumFunctionOnSet(g, {}) = 0
  <2>1. IsFiniteSet({})
    BY FS_EmptySet
  <2>2. Sums(h({}), g, {})
    BY <1>1, <2>1
  <2> HIDE DEF h
  <2> QED BY <1>2, <2>2 DEF Sums
<1>4. ASSUME S # {}
      PROVE  \E x \in S : SumFunctionOnSet(g, S) = g[x] + SumFunctionOnSet(g, S \ {x})
  <2> DEFINE x == First(S)
             T == S \ {x}
  <2>1. x \in S /\ IsFiniteSet(T)
    BY <1>4, FS_Subset DEF First
  <2>2. Sums(h(S), g, S) /\ Sums(h(T), g, T)
    BY <1>1, <2>1
  <2> DEFINE bad == {s \in SUBSET T : h(S)[s] # h(T)[s]}
  <2>3. bad = {}
    <3>1. SUFFICES ASSUME bad # {} PROVE FALSE
      OBVIOUS
    <3>2. bad \subseteq SUBSET T
      OBVIOUS
    <3>3. PICK s \in bad : \A y \in s : s \ {y} \notin bad
      <4> HIDE DEF bad, T
      <4> QED BY <2>1, <3>1, <3>2, SmallestSet
    <3> HIDE DEF h
    <3>4. s \in SUBSET T /\ s \in SUBSET S
      OBVIOUS
    <3>5. s # {}
      BY <2>2, <3>3, <3>4 DEF Sums
    <3> DEFINE y == First(s)
    <3>6. y \in s /\ h(S)[s \ {y}] = h(T)[s \ {y}]
      BY <3>3, <3>4, <3>5 DEF First
    <3> QED BY <2>2, <3>3, <3>4, <3>5, <3>6 DEF Sums
  <2> HIDE DEF h
  <2>4. h(S)[S] = g[x] + h(S)[T]
    BY <1>4, <2>1, <2>2 DEF Sums
  <2>5. h(S)[T] = h(T)[T]
    BY <2>3
  <2> QED BY <1>2, <2>1, <2>4, <2>5
<1> QED BY <1>3, <1>4

\* g counts: its values on S are natural numbers.
Counts(g, S) == \A x \in S : g[x] \in Nat

\* A sum of natural numbers is one.
LEMMA SumIsNumber ==
    ASSUME NEW g, NEW S, IsFiniteSet(S), Counts(g, S)
    PROVE  SumFunctionOnSet(g, S) \in Nat
<1> DEFINE bad == {s \in SUBSET S : SumFunctionOnSet(g, s) \notin Nat}
<1>1. SUFFICES ASSUME bad # {} PROVE FALSE
  OBVIOUS
<1>2. bad \subseteq SUBSET S
  OBVIOUS
<1>3. PICK s \in bad : \A x \in s : s \ {x} \notin bad
  <2> HIDE DEF bad
  <2> QED BY <1>1, <1>2, SmallestSet
<1>4. s \in SUBSET S /\ IsFiniteSet(s)
  BY FS_Subset
<1>5. PICK x \in s : SumFunctionOnSet(g, s) = g[x] + SumFunctionOnSet(g, s \ {x})
  BY <1>3, <1>4, SumUnfolds
<1>6. SumFunctionOnSet(g, s \ {x}) \in Nat /\ g[x] \in Nat
  BY <1>3, <1>4 DEF Counts
<1> QED BY <1>3, <1>5, <1>6

\* Any element may be taken out of a sum first.
LEMMA SumTakes ==
    ASSUME NEW g, NEW S, IsFiniteSet(S), Counts(g, S), NEW x \in S
    PROVE  SumFunctionOnSet(g, S) = g[x] + SumFunctionOnSet(g, S \ {x})
<1> DEFINE sum(s) == SumFunctionOnSet(g, s)
           bad == {s \in SUBSET S : \E y \in s : sum(s) # g[y] + sum(s \ {y})}
<1>1. SUFFICES ASSUME bad # {} PROVE FALSE
  OBVIOUS
<1>2. bad \subseteq SUBSET S
  OBVIOUS
<1>3. PICK s \in bad : \A y \in s : s \ {y} \notin bad
  <2> HIDE DEF bad
  <2> QED BY <1>1, <1>2, SmallestSet
<1>4. \A r \in SUBSET S : IsFiniteSet(r) /\ sum(r) \in Nat
  BY FS_Subset, SumIsNumber DEF Counts
<1>5. PICK y \in s : sum(s) # g[y] + sum(s \ {y})
  BY <1>3
<1>6. PICK z \in s : sum(s) = g[z] + sum(s \ {z})
  <2>1. s \in SUBSET S /\ s # {}
    BY <1>3, <1>5
  <2>2. IsFiniteSet(s)
    BY <1>4, <2>1
  <2> HIDE DEF bad, sum
  <2>3. \E e \in s : SumFunctionOnSet(g, s) = g[e] + SumFunctionOnSet(g, s \ {e})
    BY <2>1, <2>2, SumUnfolds
  <2> QED BY <2>3 DEF sum
<1>7. y # z
  BY <1>5, <1>6
<1>8. y \in S /\ z \in S /\ g[y] \in Nat /\ g[z] \in Nat
  BY <1>3, <1>5, <1>6 DEF Counts
<1>9. (s \ {y}) \ {z} = (s \ {z}) \ {y} /\ s \ {y} \in SUBSET S /\ s \ {z} \in SUBSET S
  BY <1>3
<1>10. sum(s \ {z}) = g[y] + sum((s \ {z}) \ {y})
  BY <1>3, <1>7, <1>9
<1>11. sum(s \ {y}) = g[z] + sum((s \ {y}) \ {z})
  BY <1>3, <1>7, <1>9
<1>12. PICK rest \in Nat : rest = sum((s \ {y}) \ {z})
  BY <1>4, <1>9
<1>13. sum(s \ {z}) = g[y] + rest /\ sum(s \ {y}) = g[z] + rest
  BY <1>9, <1>10, <1>11, <1>12
<1>14. sum(s) = g[z] + (g[y] + rest) /\ sum(s) # g[y] + (g[z] + rest)
  BY <1>5, <1>6, <1>13
<1> QED BY <1>8, <1>12, <1>14

\* Where no summand is larger, neither is the sum.
LEMMA SumGrows ==
    ASSUME NEW f, NEW g, NEW S, IsFiniteSet(S), Counts(f, S), Counts(g, S),
           \A x \in S : f[x] <= g[x]
    PROVE  SumFunctionOnSet(f, S) <= SumFunctionOnSet(g, S)
<1> DEFINE low(s) == SumFunctionOnSet(f, s)
           high(s) == SumFunctionOnSet(g, s)
           bad == {s \in SUBSET S : ~(low(s) <= high(s))}
<1>1. SUFFICES ASSUME bad # {} PROVE FALSE
  OBVIOUS
<1>2. bad \subseteq SUBSET S
  OBVIOUS
<1>3. PICK s \in bad : \A y \in s : s \ {y} \notin bad
  <2> HIDE DEF bad
  <2> QED BY <1>1, <1>2, SmallestSet
<1>4. \A r \in SUBSET S : IsFiniteSet(r) /\ low(r) \in Nat /\ high(r) \in Nat
  BY FS_Subset, SumIsNumber DEF Counts
<1>5. low({}) = 0 /\ high({}) = 0
  BY FS_EmptySet, SumUnfolds
<1>6. PICK x \in s : TRUE
  BY <1>3, <1>5
<1>7. /\ low(s) = f[x] + low(s \ {x}) /\ high(s) = g[x] + high(s \ {x})
      /\ f[x] \in Nat /\ g[x] \in Nat /\ f[x] <= g[x]
  BY <1>3, <1>4, SumTakes DEF Counts
<1>8. s \ {x} \in SUBSET S /\ s \ {x} \notin bad
  BY <1>3
<1>9. low(s \ {x}) <= high(s \ {x}) /\ low(s \ {x}) \in Nat /\ high(s \ {x}) \in Nat
  BY <1>4, <1>8
<1>10. ~(low(s) <= high(s))
  BY <1>3
<1> HIDE DEF low, high, bad
<1> QED BY <1>7, <1>9, <1>10

\* Sums of the same summands are the same.
LEMMA SumSame ==
    ASSUME NEW f, NEW g, NEW S, IsFiniteSet(S), Counts(f, S), \A x \in S : f[x] = g[x]
    PROVE  SumFunctionOnSet(f, S) = SumFunctionOnSet(g, S)
<1>1. Counts(g, S) /\ \A x \in S : f[x] <= g[x] /\ g[x] <= f[x]
  BY DEF Counts
<1>2. /\ SumFunctionOnSet(f, S) <= SumFunctionOnSet(g, S)
      /\ SumFunctionOnSet(g, S) <= SumFunctionOnSet(f, S)
  BY <1>1, SumGrows
<1>3. SumFunctionOnSet(f, S) \in Nat /\ SumFunctionOnSet(g, S) \in Nat
  BY <1>1, SumIsNumber
<1> QED BY <1>2, <1>3

\* A sum falls into the sum over a part and the sum over the rest.
LEMMA SumSplits ==
    ASSUME NEW g, NEW S, IsFiniteSet(S), Counts(g, S), NEW T, T \subseteq S
    PROVE  SumFunctionOnSet(g, S) = SumFunctionOnSet(g, T) + SumFunctionOnSet(g, S \ T)
<1> DEFINE sum(s) == SumFunctionOnSet(g, s)
           bad == {s \in SUBSET T : sum(S) # sum(s) + sum(S \ s)}
<1>1. SUFFICES ASSUME bad # {} PROVE FALSE
  OBVIOUS
<1>2. bad \subseteq SUBSET T /\ IsFiniteSet(T)
  BY FS_Subset
<1>3. PICK s \in bad : \A y \in s : s \ {y} \notin bad
  <2> HIDE DEF bad
  <2> QED BY <1>1, <1>2, SmallestSet
<1>4. \A r \in SUBSET S : IsFiniteSet(r) /\ sum(r) \in Nat
  BY FS_Subset, SumIsNumber DEF Counts
<1>5. sum({}) = 0 /\ S \ {} = S /\ sum(S) \in Nat
  BY <1>4, FS_EmptySet, SumUnfolds
<1>6. PICK x \in s : TRUE
  <2> HIDE DEF sum
  <2> QED BY <1>3, <1>5
<1> DEFINE r == s \ {x}
<1>7. r \in SUBSET T /\ r \notin bad
  BY <1>3
<1>8. sum(s) = g[x] + sum(r) /\ g[x] \in Nat
  BY <1>3, <1>4, SumTakes DEF Counts
<1>9. (S \ r) \ {x} = S \ s /\ x \in S \ r /\ S \ r \in SUBSET S
  BY <1>3
<1>10. sum(S \ r) = g[x] + sum(S \ s)
  BY <1>4, <1>9, SumTakes DEF Counts
<1>11. sum(S) = sum(r) + sum(S \ r)
  BY <1>7
<1>12. sum(r) \in Nat /\ sum(S \ s) \in Nat
  BY <1>4, <1>7
<1>13. sum(S) # sum(s) + sum(S \ s)
  BY <1>3
<1> HIDE DEF sum, bad, r
<1> QED BY <1>8, <1>10, <1>11, <1>12, <1>13

\* A sum of noughts is nought.
LEMMA SumOfNothing ==
    ASSUME NEW g, NEW S, IsFiniteSet(S), \A x \in S : g[x] = 0
    PROVE  SumFunctionOnSet(g, S) = 0
<1> DEFINE bad == {s \in SUBSET S : SumFunctionOnSet(g, s) # 0}
<1>1. SUFFICES ASSUME bad # {} PROVE FALSE
  OBVIOUS
<1>2. bad \subseteq SUBSET S
  OBVIOUS
<1>3. PICK s \in bad : \A x \in s : s \ {x} \notin bad
  <2> HIDE DEF bad
  <2> QED BY <1>1, <1>2, SmallestSet
<1>4. s \in SUBSET S /\ IsFiniteSet(s)
  BY FS_Subset
<1>5. PICK x \in s : SumFunctionOnSet(g, s) = g[x] + SumFunctionOnSet(g, s \ {x})
  BY <1>3, <1>4, SumUnfolds
<1>6. SumFunctionOnSet(g, s \ {x}) = 0 /\ g[x] = 0
  BY <1>3, <1>4
<1> QED BY <1>3, <1>5, <1>6

\* A sum over S is the sum over the image of S under a renaming of its elements.
LEMMA SumMoves ==
    ASSUME NEW f, NEW g, NEW h, NEW S, NEW T, IsFiniteSet(S), IsFiniteSet(T), Counts(f, S), Counts(g, T),
           \A x \in S : h[x] \in T /\ g[h[x]] = f[x],
           \A x, y \in S : h[x] = h[y] => x = y
    PROVE  SumFunctionOnSet(f, S) = SumFunctionOnSet(g, {h[x] : x \in S})
<1> DEFINE to(s) == {h[x] : x \in s}
           from(s) == SumFunctionOnSet(f, s)
           sum(s) == SumFunctionOnSet(g, s)
           bad == {s \in SUBSET S : from(s) # sum(to(s))}
<1>1. SUFFICES ASSUME bad # {} PROVE FALSE
  OBVIOUS
<1>2. bad \subseteq SUBSET S
  OBVIOUS
<1>3. PICK s \in bad : \A y \in s : s \ {y} \notin bad
  <2> HIDE DEF bad
  <2> QED BY <1>1, <1>2, SmallestSet
<1>4. s \in SUBSET S /\ from(s) # sum(to(s))
  BY <1>3
<1>5. IsFiniteSet(s) /\ Counts(f, s) /\ to(s) \in SUBSET T
  BY <1>4, FS_Subset DEF Counts
<1>6. IsFiniteSet(to(s)) /\ Counts(g, to(s))
  BY <1>5, FS_Subset DEF Counts
<1>7. from({}) = 0 /\ sum({}) = 0 /\ to({}) = {}
  BY FS_EmptySet, SumUnfolds
<1>8. PICK x \in s : TRUE
  <2> HIDE DEF from, sum, to
  <2> QED BY <1>4, <1>7
<1>9. to(s \ {x}) = to(s) \ {h[x]} /\ h[x] \in to(s)
  BY <1>4
<1>10. from(s) = f[x] + from(s \ {x})
  BY <1>5, SumTakes
<1>11. sum(to(s)) = g[h[x]] + sum(to(s) \ {h[x]})
  <2> HIDE DEF to
  <2> QED BY <1>6, <1>9, SumTakes
<1>12. from(s \ {x}) = sum(to(s \ {x}))
  BY <1>3, <1>4
<1>13. g[h[x]] = f[x]
  BY <1>4
<1> HIDE DEF from, sum, to
<1> QED BY <1>4, <1>9, <1>10, <1>11, <1>12, <1>13

-----------------------------------------------------------------------------
(* The inductive invariant *)

\* The values of a row, of a worker's thread and of the coordinator itself; Loop is the loop of
\* the parallel scheduler.
TaskStatuses == {"pending", "running", "completed", "failed", "blocked", "cancelled"}
Outcomes == {"completed", "failed", "blocked", "cancelled"}

Threads == [pc : {"none", "alive", "ended"}, cap : Nat, steps : Nat, calls : Nat,
            status : Outcomes \cup {"none"}]
Stages == {"start", "next", "work", "check", "cancels", "schedule", "collect",
           "stragglers", "review", "done"}
Loop == {"check", "cancels", "schedule", "collect"}
CoRows == [pc : Stages, i : Plan, steps : Nat, calls : Nat, fix : 0..MaxFixRounds,
           stop : {"none", "all", "blocked", "budget", "reflection_limit"}]
\* A thread's work is within its cap, and a thread that ended has a status.
ThreadOK(w) ==
    /\ w.pc = "none" => w = NoThread
    /\ w.pc = "alive" => w.steps = 0 /\ w.calls = 0
    /\ w.pc = "ended" => w.steps <= w.cap /\ w.calls <= w.cap + Reserve /\ w.status # "none"

\* Every variable has its type, and every thread keeps within its own cap.
CoTypes ==
    /\ deps \in [Tasks -> SUBSET Tasks]
    /\ status \in [Plan -> TaskStatuses]
    /\ thread \in [Plan -> Threads]
    /\ result \in [Plan -> Outcomes \cup {"none"}]
    /\ active \subseteq Plan /\ queued \subseteq Plan
    /\ co \in CoRows
    /\ \A t \in Plan : ThreadOK(thread[t])

\* Which path the coordinator is on, parallel or sequential, is settled by the plan; nobody is
\* active before a round, in the review and at the end; a review comes only after a round that
\* was done.
PhasesOK ==
    /\ co.pc \in Loop \cup {"stragglers"} => Parallel
    /\ co.pc \in {"next", "work"} => ~Parallel
    /\ co.pc \notin {"start", "done"} => Valid
    /\ co.pc \in {"start", "next"} => co.fix = 0
    /\ co.pc = "review" => co.stop = "all"
    /\ co.pc \in {"start", "next", "work", "review", "done"} => active = {}
    /\ co.pc = "stragglers" /\ co.stop = "all" => active = {}
    /\ co.pc = "work" => /\ thread[co.i].pc \in {"alive", "ended"}
                         /\ result[co.i] = "none"
                         /\ IF co.fix = 0 THEN co.i \in Tasks
                            ELSE co.i = N + co.fix /\ co.stop = "all"

\* Until a round is given up, only active workers run and only active workers have queued their
\* end.
Open == co.pc \in Loop \cup {"start"} \/ (co.pc \in {"stragglers", "review"} /\ co.stop = "all")
OpenOK ==
    Parallel /\ Open =>
        /\ queued \subseteq active
        /\ \A t \in Plan : thread[t].pc = "alive" => t \in active

\* Active is the same as running. A thread that is alive belongs to an active worker, or to one
\* told to cancel, or to the task in hand of a sequential team. A task that is pending was never
\* started, and a fix task is not known before its round.
WorkersOK ==
    /\ \A t \in Plan : t \in active <=> status[t] = "running"
    /\ queued \subseteq {t \in Plan : thread[t].pc = "ended"}
    /\ \A t \in Plan : thread[t].pc = "alive" =>
            t \in active \/ t \in told \/ (co.pc = "work" /\ co.i = t)
    /\ \A t \in Plan :
        /\ Parallel /\ status[t] = "pending" => thread[t] = NoThread /\ result[t] = "none"
        /\ ~Parallel /\ result[t] = "none" =>
                thread[t] = NoThread \/ (co.pc = "work" /\ co.i = t)
        /\ t > N + co.fix => thread[t] = NoThread /\ result[t] = "none" /\ status[t] = "pending"
        /\ status[t] = "running" => result[t] = "none" /\ thread[t].pc # "none"

\* A completed row has a completed result, and a completed result was returned by the thread.
CompletedOK ==
    \A t \in Plan :
        /\ status[t] = "completed" => result[t] = "completed"
        /\ result[t] = "completed" => thread[t].pc = "ended" /\ thread[t].status = "completed"

\* All tasks up to n have a completed result: so it is at a review that accepts and, for all
\* rounds before the present one, within a fix round.
Whole(n) == \A t \in 1..n : result[t] = "completed"
WholeOK ==
    /\ co.pc \in {"stragglers", "review", "done"} /\ co.stop = "all" => Whole(N + co.fix)
    /\ co.pc \in Loop \cup {"work"} => Whole(IF co.fix = 0 THEN 0 ELSE N + co.fix - 1)

\* While a round is open, a task is blocked only beside one that failed.
BlockedOK ==
    co.pc \in Loop \cup {"start"} =>
        \A t \in Round : status[t] = "blocked" => \E u \in Round : status[u] = "failed"

\* What a worker may still use.
StepBound(th) == [t \in Plan |-> IF th[t].pc = "alive" THEN th[t].cap ELSE th[t].steps]
CallBound(th) == [t \in Plan |-> IF th[t].pc = "alive" THEN th[t].cap + Reserve ELSE th[t].calls]

\* The budget as it is when every worker alive uses all it may: within the team's, and for those
\* that are no longer active within what the coordinator has recorded. This is what the start of
\* a worker checks (Fits), and why what has been spent stays within the budget when workers end
\* late.
BoundsOK ==
    Parallel =>
        /\ SumFunctionOnSet(StepBound(thread), Plan) <= TeamSteps
        /\ SumFunctionOnSet(CallBound(thread), Plan) <= TeamCalls
        /\ Open => /\ SumFunctionOnSet(StepBound(thread), Plan \ active) <= co.steps
                   /\ SumFunctionOnSet(CallBound(thread), Plan \ active) <= co.calls

\* The inductive invariant.
CoInv == CoTypes /\ PhasesOK /\ OpenOK /\ WorkersOK /\ CompletedOK /\ WholeOK /\ BlockedOK
         /\ BoundsOK /\ WorksAfterDependencies

-----------------------------------------------------------------------------
(* The plan *)

\* The plan is a finite set of numbers, and the constants of the budget are numbers.
LEMMA PlanFacts ==
    /\ N \in Nat /\ N >= 1 /\ MaxFixRounds \in Nat /\ MaxSteps \in Nat /\ TeamSteps \in Nat
    /\ TeamCalls \in Nat /\ Reserve \in Nat
    /\ Plan \subseteq Nat /\ Tasks \subseteq Plan /\ IsFiniteSet(Plan)
    /\ \A t : t \in Plan <=> t \in Nat /\ 1 <= t /\ t <= N + MaxFixRounds
    /\ \A t : t \in Tasks <=> t \in Nat /\ 1 <= t /\ t <= N
<1>1. IsFiniteSet(Plan)
  BY CoAssumption, FS_Interval DEF Plan
<1> QED BY <1>1, CoAssumption DEF Plan, Tasks

\* The levels of Kahn's algorithm are what their recursion says.
LEMMA LevelsUnfold ==
    \A k \in 0..N : Levels[k] = IF k = 0 THEN {} ELSE {t \in Tasks : deps[t] \subseteq Levels[k - 1]}
<1> DEFINE Upto(h, n) == h = [k \in 0..n |->
                IF k = 0 THEN {} ELSE {t \in Tasks : deps[t] \subseteq h[k - 1]}]
           bad == {n \in Nat : \A h : ~Upto(h, n)}
<1>1. SUFFICES bad = {}
  <2>1. \E h : Upto(h, N)
    <3>1. N \notin bad /\ N \in Nat
      BY <1>1, PlanFacts
    <3> HIDE DEF Upto
    <3> QED BY <3>1
  <2>2. Levels = CHOOSE h : Upto(h, N)
    BY DEF Levels
  <2>3. Upto(Levels, N)
    <3> HIDE DEF Upto
    <3> QED BY <2>1, <2>2
  <2> QED BY <2>3
<1>2. SUFFICES ASSUME bad # {} PROVE FALSE
  OBVIOUS
<1>3. PICK n \in bad : \A m \in bad : n <= m
  <2>1. bad \subseteq Nat
    OBVIOUS
  <2> HIDE DEF bad
  <2> QED BY <1>2, <2>1, LeastNumber
<1>4. n \in Nat /\ \A h : ~Upto(h, n)
  OBVIOUS
<1>5. CASE n = 0
  <2>1. Upto([k \in 0..0 |-> {}], 0)
    OBVIOUS
  <2> QED BY <1>4, <1>5, <2>1
<1>6. CASE n # 0
  <2>1. n - 1 \in Nat /\ n - 1 \notin bad
    <3> HIDE DEF bad
    <3> QED BY <1>3, <1>4, <1>6
  <2>2. \E h : Upto(h, n - 1)
    <3> HIDE DEF Upto
    <3> QED BY <2>1
  <2>3. PICK h : Upto(h, n - 1)
    BY <2>2
  <2> DEFINE next(g, k) == IF k = 0 THEN {} ELSE {t \in Tasks : deps[t] \subseteq g[k - 1]}
             up == [k \in 0..n |-> next(h, k)]
  <2>4. \A k \in 0..(n - 1) : up[k] = h[k] /\ k \in 0..n
    <3>1. \A k \in 0..(n - 1) : k \in 0..n
      BY <1>4
    <3>2. \A k \in 0..(n - 1) : h[k] = next(h, k)
      BY <2>3
    <3> HIDE DEF next
    <3> QED BY <3>1, <3>2
  <2>5. ASSUME NEW k \in 0..n PROVE next(h, k) = next(up, k)
    <3>1. CASE k # 0
      <4>1. k - 1 \in 0..(n - 1)
        BY <1>4, <3>1
      <4>2. up[k - 1] = h[k - 1]
        BY <2>4, <4>1
      <4> HIDE DEF up
      <4> QED BY <4>2
    <3> HIDE DEF up
    <3> QED BY <3>1
  <2>6. up = [k \in 0..n |-> next(h, k)]
    OBVIOUS
  <2> HIDE DEF up
  <2>7. up = [k \in 0..n |-> next(up, k)]
    <3> HIDE DEF next
    <3> QED BY <2>5, <2>6
  <2>8. Upto(up, n)
    BY <2>7
  <2> QED BY <1>4, <2>8
<1> QED BY <1>5, <1>6

\* What the plan check accepts has no cycle: among any of its tasks there is one that
\* depends on none of the others.
LEMMA AcceptedIsAcyclic ==
    ASSUME Valid, NEW U, U \subseteq Tasks, U # {}
    PROVE  \E t \in U : deps[t] \cap U = {}
<1> DEFINE levels == {k \in 0..N : Levels[k] \cap U # {}}
<1>1. N \in levels /\ levels \subseteq Nat
  <2>1. N \in 0..N /\ 0..N \subseteq Nat
    BY PlanFacts
  <2>2. Levels[N] \cap U # {}
    BY DEF Valid
  <2> QED BY <2>1, <2>2
<1>2. PICK k \in levels : \A m \in levels : k <= m
  <2> HIDE DEF levels
  <2> QED BY <1>1, LeastNumber
<1>3. k \in 0..N /\ N \in Nat /\ Levels[k] \cap U # {}
  BY PlanFacts
<1>4. k # 0 /\ Levels[k] = {t \in Tasks : deps[t] \subseteq Levels[k - 1]}
  BY <1>3, LevelsUnfold
<1>5. k - 1 \in 0..N /\ k - 1 \notin levels
  <2> HIDE DEF levels
  <2> QED BY <1>2, <1>3, <1>4
<1>6. PICK t \in U : deps[t] \subseteq Levels[k - 1]
  BY <1>3, <1>4
<1> QED BY <1>5, <1>6

-----------------------------------------------------------------------------
(* Steps *)

\* What a step that leaves the dependencies alone leaves alone: the path, the check, the
\* dependencies of each task.
LEMMA SamePlan ==
    ASSUME deps' = deps
    PROVE  Parallel' = Parallel /\ Valid' = Valid /\ \A t \in Plan : DepsOf(t)' = DepsOf(t)
BY DEF Parallel, Valid, Levels, DepsOf

\* A step that leaves tasks, workers and results alone, and does not reopen a round.
LEMMA QuietStep ==
    ASSUME CoInv, UNCHANGED <<deps, status, thread, queued, active, result>>, told \subseteq told',
           CoTypes', PhasesOK', WholeOK', BlockedOK',
           co'.fix = co.fix, co'.steps = co.steps, co'.calls = co.calls,
           co'.pc = "work" <=> co.pc = "work", co'.i = co.i, Parallel /\ Open' => Open
    PROVE  CoInv'
<1>1. Parallel' = Parallel /\ \A t \in Plan : DepsOf(t)' = DepsOf(t)
  BY SamePlan
<1>2. OpenOK'
  BY <1>1 DEF CoInv, OpenOK
<1>3. WorkersOK'
  BY <1>1 DEF CoInv, WorkersOK
<1>4. CompletedOK'
  BY DEF CoInv, CompletedOK
<1>5. BoundsOK'
  BY <1>1 DEF CoInv, BoundsOK
<1>6. WorksAfterDependencies'
  BY <1>1 DEF CoInv, WorksAfterDependencies
<1> QED BY <1>2, <1>3, <1>4, <1>5, <1>6 DEF CoInv

\* The start of a run: the plan is refused, or a path is taken.
LEMMA StartKeeps ==
    ASSUME CoInv, Start
    PROVE  CoInv'
<1>1. Parallel' = Parallel /\ Valid' = Valid
  BY SamePlan DEF Start
<1>2. CoTypes'
  BY DEF CoInv, CoTypes, CoRows, Start, Stages, Loop
<1>3. PhasesOK'
  BY <1>1 DEF CoInv, CoTypes, CoRows, PhasesOK, Start, Stages, Loop
<1>4. WholeOK' /\ BlockedOK'
  BY DEF CoInv, CoTypes, CoRows, PhasesOK, WholeOK, BlockedOK, Start, Stages, Loop, Whole, Round
<1> QED BY <1>2, <1>3, <1>4, QuietStep DEF Start, CoInv, CoTypes, CoRows, Open, Loop

\* The head of the loop: the deadline and cancellation of the whole team.
LEMMA CheckKeeps ==
    ASSUME CoInv, Check
    PROVE  CoInv'
<1>1. Parallel' = Parallel /\ Valid' = Valid
  BY SamePlan DEF Check
<1>2. CoTypes'
  BY DEF CoInv, CoTypes, CoRows, Check, Stages, Loop
<1>3. PhasesOK'
  BY <1>1 DEF CoInv, CoTypes, CoRows, PhasesOK, Check, Stages, Loop
<1>4. WholeOK' /\ BlockedOK'
  BY DEF CoInv, CoTypes, CoRows, PhasesOK, WholeOK, BlockedOK, Check, Stages, Loop, Whole, Round
<1> QED BY <1>2, <1>3, <1>4, QuietStep DEF Check, CoInv, CoTypes, CoRows, Open, Loop

\* Time, cancellations of tasks and what they tell workers change no row and no thread.
LEMMA OutsideKeeps ==
    ASSUME CoInv,
           TimePasses \/ (\E t \in Tasks : Cancel(t)) \/ (\E t \in Plan : Tell(t)) \/ UNCHANGED coVars
    PROVE  CoInv'
<1>1. /\ UNCHANGED <<deps, status, thread, queued, active, result, co>> /\ told \subseteq told'
  BY DEF TimePasses, Cancel, Tell, coVars
<1>2. Parallel' = Parallel /\ Valid' = Valid
  BY <1>1, SamePlan
<1>3. CoTypes' /\ PhasesOK' /\ WholeOK' /\ BlockedOK' /\ Open' = Open
  BY <1>1, <1>2 DEF CoInv, CoTypes, CoRows, PhasesOK, WholeOK, BlockedOK, Whole, Round, Open
<1> QED BY <1>1, <1>3, QuietStep

\* The workers of a round that is open are tasks of it.
LEMMA ActiveInRound ==
    ASSUME CoInv, co.pc \in Loop, NEW t \in active
    PROVE  t \in Round /\ t \in Plan /\ status[t] = "running" /\ result[t] = "none"
<1>1. t \in Plan /\ status[t] = "running" /\ result[t] = "none" /\ t <= N + co.fix
  BY PlanFacts DEF CoInv, CoTypes, CoRows, WorkersOK
<1>2. co.fix \in Nat /\ t \in Nat /\ 1 <= t
  BY <1>1, PlanFacts DEF CoInv, CoTypes, CoRows
<1>3. CASE co.fix = 0
  BY <1>1, <1>2, <1>3, PlanFacts DEF Round
<1>4. CASE co.fix # 0
  <2>1. \A u \in 1..(N + co.fix - 1) : result[u] = "completed"
    BY <1>4 DEF CoInv, WholeOK, Whole, Loop
  <2>2. t = N + co.fix
    BY <1>1, <1>2, <2>1, PlanFacts
  <2> QED BY <1>1, <1>4, <2>2 DEF Round
<1> QED BY <1>3, <1>4

\* The end of a pass of the loop: the round is done, blocked, out of budget, or goes on.
LEMMA JudgeKeeps ==
    ASSUME CoInv, Judge
    PROVE  CoInv'
<1>1. Parallel' = Parallel /\ Valid' = Valid /\ Parallel
  BY SamePlan DEF Judge, CoInv, PhasesOK, Loop
<1>2. CoTypes'
  BY DEF CoInv, CoTypes, CoRows, Judge, Stages, Loop
<1> DEFINE whole == (\A t \in Round : Ended(t)) /\ ~\E t \in Round : status[t] \in {"failed", "cancelled"}
<1>3. ASSUME whole PROVE (\A t \in Round : result[t] = "completed") /\ active = {} /\ Whole(N + co.fix)
  <2>1. Round \subseteq Plan /\ co.fix \in Nat
    BY PlanFacts DEF Round, CoInv, CoTypes, CoRows
  <2>2. \A t \in Round : status[t] = "completed"
    BY <1>3, <2>1 DEF CoInv, BlockedOK, Judge, Ended, Loop
  <2>3. \A t \in Round : result[t] = "completed"
    BY <2>1, <2>2 DEF CoInv, CompletedOK
  <2>4. active = {}
    BY <2>2, ActiveInRound DEF Judge, Loop
  <2>5. Whole(N + co.fix)
    <3>1. CASE co.fix = 0
      BY <2>3, <3>1, PlanFacts DEF Whole, Round
    <3>2. CASE co.fix # 0
      <4>1. \A u \in 1..(N + co.fix - 1) : result[u] = "completed"
        BY <3>2 DEF CoInv, WholeOK, Whole, Loop, Judge
      <4>2. result[N + co.fix] = "completed"
        BY <2>3, <3>2 DEF Round
      <4> QED BY <2>1, <4>1, <4>2, PlanFacts DEF Whole
    <3> QED BY <3>1, <3>2
  <2> QED BY <2>3, <2>4, <2>5
<1>4. /\ co'.pc \in {"stragglers", "check"} /\ co'.fix = co.fix /\ co'.i = co.i
      /\ co'.steps = co.steps /\ co'.calls = co.calls
      /\ co'.pc = "stragglers" /\ co'.stop = "all" => whole
  BY DEF Judge, CoInv, CoTypes, CoRows
<1> HIDE DEF whole
<1>5. PhasesOK'
  BY <1>1, <1>3, <1>4 DEF CoInv, PhasesOK, Judge, Loop
<1>6. WholeOK'
  BY <1>3, <1>4 DEF CoInv, CoTypes, CoRows, WholeOK, Judge, Loop, Whole
<1>7. BlockedOK'
  BY <1>4 DEF CoInv, BlockedOK, Judge, Loop, Round
<1> QED BY <1>2, <1>4, <1>5, <1>6, <1>7, QuietStep DEF Judge, Open, Loop

\* A thread starts alive, with the cap of a worker and nothing used.
LEMMA ThreadStarts ==
    ASSUME CoInv, NEW t \in Plan, StartThread(t)
    PROVE  /\ Cap \in Nat
           /\ \E w \in Threads : /\ thread' = [thread EXCEPT ![t] = w]
                                 /\ w.pc = "alive" /\ w.cap = Cap /\ ThreadOK(w)
<1>1. Cap \in Nat
  BY PlanFacts DEF Cap, CoInv, CoTypes, CoRows
<1> DEFINE w == [NoThread EXCEPT !.pc = "alive", !.cap = Cap]
<1>2. w \in Threads /\ w.pc = "alive" /\ w.cap = Cap /\ ThreadOK(w)
  BY <1>1 DEF Threads, ThreadOK, NoThread
<1>3. thread' = [thread EXCEPT ![t] = w]
  BY DEF StartThread
<1> HIDE DEF w
<1> QED BY <1>1, <1>2, <1>3

\* While tasks of a chain have no result, one of them is next.
LEMMA OneIsNext ==
    ASSUME CoInv, co.pc = "next", \E t \in Tasks : result[t] = "none"
    PROVE  NextTask \in Tasks /\ result[NextTask] = "none"
<1> DEFINE U == {t \in Tasks : result[t] = "none"}
<1>1. Valid /\ U \subseteq Tasks /\ U # {}
  BY DEF CoInv, PhasesOK
<1>2. PICK t \in U : deps[t] \cap U = {}
  <2> HIDE DEF U
  <2> QED BY <1>1, AcceptedIsAcyclic
<1>3. \A u \in deps[t] : result[u] # "none"
  BY <1>2 DEF CoInv, CoTypes, CoRows
<1> QED BY <1>2, <1>3 DEF NextTask

\* The sequential path takes the next task of the chain, blocks it, or goes to the review.
LEMMA SeqNextKeeps ==
    ASSUME CoInv, SeqNext
    PROVE  CoInv'
<1>1. /\ co.pc = "next" /\ ~Parallel /\ Parallel' = Parallel /\ Valid' = Valid /\ Valid /\ co.fix = 0
      /\ active = {} /\ UNCHANGED <<deps, status, queued, active, asked, told, late>>
      /\ \A t \in Plan : DepsOf(t)' = DepsOf(t)
  BY SamePlan DEF SeqNext, CoInv, PhasesOK
<1>2. CASE \A t \in Tasks : result[t] # "none"
  <2>1. CoTypes'
    BY <1>2 DEF CoInv, CoTypes, CoRows, SeqNext, Stages, Loop
  <2>2. UNCHANGED <<result, thread>>
    BY <1>2 DEF SeqNext
  <2>3. \/ co' = [co EXCEPT !.pc = "review", !.stop = "all"] /\ \A t \in Tasks : result[t] = "completed"
        \/ co' = [co EXCEPT !.pc = "done", !.stop = "blocked"]
    BY <1>2 DEF SeqNext
  <2>4. /\ co'.fix = co.fix /\ co'.i = co.i /\ co'.steps = co.steps /\ co'.calls = co.calls
        /\ \/ co'.pc = "review" /\ co'.stop = "all" /\ \A t \in Tasks : result[t] = "completed"
           \/ co'.pc = "done" /\ co'.stop = "blocked"
    BY <2>3 DEF CoInv, CoTypes, CoRows
  <2>5. PhasesOK'
    BY <1>1, <2>2, <2>4 DEF PhasesOK, Loop
  <2>6. WholeOK' /\ BlockedOK'
    BY <1>1, <2>2, <2>4, PlanFacts DEF WholeOK, BlockedOK, Loop, Whole, Tasks
  <2> QED BY <1>1, <2>1, <2>2, <2>4, <2>5, <2>6, QuietStep
<1>3. CASE \E t \in Tasks : result[t] = "none"
  <2>1. PICK t \in Tasks : t = NextTask /\ result[t] = "none"
    BY <1>1, <1>3, OneIsNext
  <2>2. t \in Plan /\ DepsOf(t) = deps[t] /\ thread[t] = NoThread
    BY <1>1, <2>1, PlanFacts DEF CoInv, WorkersOK, DepsOf
  <2>3. \/ /\ \A u \in deps[t] : result[u] = "completed"
           /\ StartThread(t) /\ co' = [co EXCEPT !.pc = "work", !.i = t] /\ result' = result
        \/ /\ \E v \in {"cancelled", "blocked"} : result' = [result EXCEPT ![t] = v]
           /\ UNCHANGED <<co, thread>>
    BY <1>3, <2>1 DEF SeqNext
  <2>4. CASE /\ \A u \in deps[t] : result[u] = "completed"
             /\ StartThread(t) /\ co' = [co EXCEPT !.pc = "work", !.i = t] /\ result' = result
    <3>1. PICK w \in Threads : /\ thread' = [thread EXCEPT ![t] = w]
                               /\ w.pc = "alive" /\ ThreadOK(w)
      BY <2>2, <2>4, ThreadStarts
    <3>2. /\ co'.pc = "work" /\ co'.i = t /\ co'.fix = 0 /\ co'.stop = co.stop
      BY <1>1, <2>4 DEF CoInv, CoTypes, CoRows
    <3>3. CoTypes'
      BY <1>1, <2>2, <2>4, <3>1 DEF CoInv, CoTypes, CoRows, Stages
    <3>4. /\ thread'[t] = w /\ \A u \in Plan : u # t => thread'[u] = thread[u]
      BY <2>2, <3>1 DEF CoInv, CoTypes, CoRows
    <3>5. PhasesOK'
      BY <1>1, <2>1, <2>4, <3>1, <3>2, <3>4 DEF CoInv, PhasesOK, Loop
    <3>6. OpenOK' /\ BoundsOK'
      BY <1>1 DEF OpenOK, BoundsOK
    <3>7. WorkersOK'
      BY <1>1, <2>1, <2>2, <2>4, <3>1, <3>2, <3>4, PlanFacts DEF CoInv, CoTypes, CoRows, WorkersOK, NoThread
    <3>8. CompletedOK'
      BY <1>1, <2>1, <2>4, <3>4 DEF CoInv, CompletedOK
    <3>9. WholeOK' /\ BlockedOK'
      BY <1>1, <3>2, PlanFacts DEF WholeOK, BlockedOK, Whole, Loop
    <3>10. WorksAfterDependencies'
      BY <1>1, <2>2, <2>4, <3>4 DEF CoInv, WorksAfterDependencies
    <3> QED BY <3>3, <3>5, <3>6, <3>7, <3>8, <3>9, <3>10 DEF CoInv
  <2>5. CASE /\ \E v \in {"cancelled", "blocked"} : result' = [result EXCEPT ![t] = v]
             /\ UNCHANGED <<co, thread>>
    <3>1. CoTypes'
      BY <1>1, <2>2, <2>5 DEF CoInv, CoTypes, CoRows, Outcomes
    <3>2. /\ result'[t] \in {"cancelled", "blocked"}
          /\ \A u \in Plan : u # t => result'[u] = result[u]
      BY <2>2, <2>5 DEF CoInv, CoTypes, CoRows
    <3>3. PhasesOK'
      BY <1>1, <2>5 DEF CoInv, PhasesOK, Loop
    <3>4. OpenOK' /\ BoundsOK'
      BY <1>1 DEF OpenOK, BoundsOK
    <3>5. WorkersOK'
      BY <1>1, <2>1, <2>2, <2>5, <3>2, PlanFacts DEF CoInv, CoTypes, CoRows, WorkersOK, NoThread
    <3>6. CompletedOK'
      BY <1>1, <2>1, <2>5, <3>2 DEF CoInv, CompletedOK
    <3>7. WholeOK' /\ BlockedOK'
      BY <1>1, <2>5 DEF WholeOK, BlockedOK, Loop
    <3>8. WorksAfterDependencies'
      <4>1. \A u \in Plan : DepsOf(u) \subseteq Plan
        BY PlanFacts DEF DepsOf, CoInv, CoTypes, CoRows
      <4> QED BY <1>1, <2>1, <2>5, <3>2, <4>1 DEF CoInv, WorksAfterDependencies
    <3> QED BY <3>1, <3>3, <3>4, <3>5, <3>6, <3>7, <3>8 DEF CoInv
  <2> QED BY <2>3, <2>4, <2>5
<1> QED BY <1>2, <1>3

\* The work of the thread in hand is counted.
LEMMA TotalsGrow ==
    ASSUME CoInv, NEW t \in Plan
    PROVE  LET c == Totals(thread[t].steps, thread[t].calls)
           IN  /\ c \in CoRows /\ c.pc = co.pc /\ c.i = co.i /\ c.fix = co.fix /\ c.stop = co.stop
               /\ c.steps = co.steps + thread[t].steps
               /\ c.calls = co.calls + thread[t].calls
<1>1. thread[t].steps \in Nat /\ thread[t].calls \in Nat /\ co.steps \in Nat /\ co.calls \in Nat
  BY DEF CoInv, CoTypes, CoRows, Threads
<1> DEFINE s == co.steps + thread[t].steps
           c == co.calls + thread[t].calls
<1>2. s \in Nat /\ c \in Nat
  BY <1>1
<1>3. Totals(thread[t].steps, thread[t].calls) = [co EXCEPT !.steps = s, !.calls = c]
  BY DEF Totals
<1> HIDE DEF s, c
<1> DEFINE r == [co EXCEPT !.steps = s, !.calls = c]
<1>4. /\ r \in CoRows /\ r.pc = co.pc /\ r.i = co.i /\ r.fix = co.fix /\ r.stop = co.stop
      /\ r.steps = s /\ r.calls = c
  BY <1>2 DEF CoInv, CoTypes, CoRows
<1> HIDE DEF r
<1> QED BY <1>3, <1>4 DEF s, c, r

\* The thread in hand has ended, and its outcome is the task's result.
LEMMA SeqWorkedKeeps ==
    ASSUME CoInv, SeqWorked
    PROVE  CoInv'
<1> DEFINE t == co.i
           o == thread[t].status
           c == Totals(thread[t].steps, thread[t].calls)
           pc == IF co.fix = 0 THEN "next" ELSE IF o = "completed" THEN "review" ELSE "done"
           stop == IF co.fix > 0 /\ o # "completed" THEN "blocked" ELSE co.stop
<1>1. /\ co.pc = "work" /\ thread[t].pc = "ended" /\ t \in Plan /\ result[t] = "none"
      /\ IF co.fix = 0 THEN t \in Tasks ELSE t = N + co.fix /\ co.stop = "all"
      /\ ~Parallel /\ Parallel' = Parallel /\ Valid /\ Valid' = Valid /\ active = {}
      /\ co.fix \in Nat /\ \A u \in Plan : DepsOf(u)' = DepsOf(u)
  BY SamePlan DEF SeqWorked, CoInv, CoTypes, CoRows, PhasesOK
<1>2. o \in Outcomes
  BY <1>1 DEF CoInv, CoTypes, Threads, ThreadOK
<1>3. /\ result' = [result EXCEPT ![t] = o] /\ queued' = queued \ {t}
      /\ co' = [c EXCEPT !.pc = pc, !.stop = stop]
      /\ UNCHANGED <<deps, status, thread, active, asked, told, late>>
  <2>1. c.stop = co.stop
    BY <1>1, TotalsGrow
  <2> QED BY <2>1 DEF SeqWorked
<1>4. c \in CoRows /\ c.i = co.i /\ c.fix = co.fix /\ c.stop = co.stop
  BY <1>1, TotalsGrow
<1>5. pc \in {"next", "review", "done"} /\ stop \in {"none", "all", "blocked", "budget", "reflection_limit"}
  BY DEF CoInv, CoTypes, CoRows
<1> HIDE DEF c
<1>6. /\ co' \in CoRows /\ co'.pc = pc /\ co'.stop = stop /\ co'.i = co.i /\ co'.fix = co.fix
  <2> HIDE DEF pc, stop
  <2> QED BY <1>3, <1>4, <1>5 DEF CoRows, Stages
<1>7. /\ result'[t] = o /\ \A u \in Plan : u # t => result'[u] = result[u]
      /\ result' \in [Plan -> Outcomes \cup {"none"}]
  BY <1>1, <1>2, <1>3 DEF CoInv, CoTypes
<1>8. CoTypes'
  BY <1>3, <1>6, <1>7 DEF CoInv, CoTypes
<1>9. PhasesOK'
  <2>1. co.fix = 0 => pc = "next"
    OBVIOUS
  <2>2. co.fix # 0 => (pc = "review" /\ stop = "all") \/ pc = "done"
    BY <1>1
  <2> HIDE DEF pc, stop
  <2> QED BY <1>1, <1>3, <1>6, <2>1, <2>2 DEF PhasesOK, Loop
<1>10. OpenOK' /\ BoundsOK'
  BY <1>1 DEF OpenOK, BoundsOK
<1>11. WorkersOK'
  BY <1>1, <1>2, <1>3, <1>6, <1>7, PlanFacts DEF CoInv, CoTypes, WorkersOK, Outcomes, NoThread
<1>12. CompletedOK'
  BY <1>1, <1>3, <1>7 DEF CoInv, CompletedOK
<1>13. WholeOK'
  <2>1. (pc \in {"review", "done"} /\ stop = "all") => co.fix # 0 /\ o = "completed"
    BY <1>1, <1>2
  <2>2. ASSUME co.fix # 0, o = "completed" PROVE \A u \in 1..(N + co.fix) : result'[u] = "completed"
    <3>1. \A u \in 1..(N + co.fix - 1) : result[u] = "completed" /\ u \in Plan /\ u # t
      BY <1>1, <2>2, PlanFacts DEF CoInv, CoTypes, CoRows, WholeOK, Whole
    <3> QED BY <1>1, <1>7, <2>2, <3>1, PlanFacts
  <2>3. pc \in {"next", "review", "done"}
    OBVIOUS
  <2> HIDE DEF pc, stop, o
  <2> QED BY <1>6, <2>1, <2>2, <2>3 DEF WholeOK, Whole, Loop
<1>14. BlockedOK'
  <2>1. pc \in {"next", "review", "done"}
    OBVIOUS
  <2> HIDE DEF pc
  <2> QED BY <1>6, <2>1 DEF BlockedOK, Loop
<1>15. WorksAfterDependencies'
  <2>1. \A u \in Plan : DepsOf(u) \subseteq Plan
    BY PlanFacts DEF DepsOf, CoInv, CoTypes
  <2> QED BY <1>1, <1>3, <1>7, <2>1 DEF CoInv, WorksAfterDependencies
<1> QED BY <1>8, <1>9, <1>10, <1>11, <1>12, <1>13, <1>14, <1>15 DEF CoInv

\* Cancelled tasks that were not started are rows at once; running ones are told.
LEMMA CancelsKeeps ==
    ASSUME CoInv, Cancels
    PROVE  CoInv'
<1>1. /\ co.pc = "cancels" /\ Parallel /\ Parallel' = Parallel /\ Valid' = Valid
      /\ UNCHANGED <<deps, thread, queued, active, result, asked, late>> /\ told \subseteq told'
      /\ 1 \in Plan /\ Round' = Round /\ \A t \in Plan : DepsOf(t)' = DepsOf(t)
  <2>1. co'.fix = co.fix
    BY DEF Cancels, CoInv, CoTypes, CoRows
  <2> QED BY <2>1, SamePlan, PlanFacts DEF Cancels, CoInv, PhasesOK, Loop, Round
<1>2. /\ co' \in CoRows /\ co'.pc = "schedule" /\ co'.fix = co.fix /\ co'.stop = co.stop
      /\ co'.steps = co.steps /\ co'.calls = co.calls
  BY <1>1 DEF Cancels, CoInv, CoTypes, CoRows, Stages, Loop
<1>3. /\ status' \in [Plan -> TaskStatuses]
      /\ \A t \in Plan : \/ status'[t] = status[t]
                         \/ status[t] = "pending" /\ status'[t] = "cancelled"
  BY DEF Cancels, CoInv, CoTypes, TaskStatuses
<1>4. CoTypes' /\ PhasesOK' /\ OpenOK'
  BY <1>1, <1>2, <1>3 DEF CoInv, CoTypes, PhasesOK, OpenOK, Open, Loop
<1>5. WorkersOK'
  <2>1. \A t \in Plan : t > N + co.fix => status'[t] = "pending"
    <3>1. ASSUME NEW t \in Plan, t > N + co.fix PROVE t \notin Round
      BY <3>1, PlanFacts DEF Round, CoInv, CoTypes, CoRows
    <3> QED BY <3>1 DEF Cancels, CoInv, WorkersOK
  <2> QED BY <1>1, <1>2, <1>3, <2>1 DEF CoInv, WorkersOK
<1>6. CompletedOK' /\ WholeOK'
  BY <1>1, <1>2, <1>3 DEF CoInv, CompletedOK, WholeOK, Whole, Loop
<1>7. BlockedOK'
  <2>1. Round \subseteq Plan
    BY PlanFacts DEF Round, CoInv, CoTypes, CoRows
  <2> QED BY <1>1, <1>2, <1>3, <2>1 DEF CoInv, BlockedOK, Loop
<1>8. BoundsOK'
  BY <1>1, <1>2 DEF CoInv, BoundsOK, Open, Loop
<1>9. WorksAfterDependencies'
  BY <1>1 DEF CoInv, WorksAfterDependencies
<1> QED BY <1>4, <1>5, <1>6, <1>7, <1>8, <1>9 DEF CoInv

\* The end of a round, when the last straggler is in.
LEMMA RoundEndsKeeps ==
    ASSUME CoInv, RoundEnds
    PROVE  CoInv'
<1>1. /\ co.pc = "stragglers" /\ Parallel /\ Parallel' = Parallel /\ Valid' = Valid /\ active = {}
      /\ UNCHANGED <<deps, thread, queued, active, asked, told, late>>
      /\ \A t \in Plan : DepsOf(t)' = DepsOf(t)
  BY SamePlan DEF RoundEnds, CoInv, PhasesOK
<1>2. /\ co' \in CoRows /\ co'.fix = co.fix /\ co'.stop = co.stop
      /\ co'.steps = co.steps /\ co'.calls = co.calls
      /\ co'.pc = IF co.stop = "all" THEN "review" ELSE "done"
  BY DEF RoundEnds, CoInv, CoTypes, CoRows, Stages
<1>3. /\ status' \in [Plan -> TaskStatuses]
      /\ \A t \in Plan : \/ status'[t] = status[t]
                         \/ status[t] = "pending" /\ status'[t] \in {"cancelled", "blocked"}
      /\ \A t \in Plan : t \notin Round => status'[t] = status[t]
  BY DEF RoundEnds, CoInv, CoTypes, TaskStatuses
<1>4. /\ result' \in [Plan -> Outcomes \cup {"none"}]
      /\ \A t \in Plan : \/ result'[t] = result[t]
                         \/ result[t] = "none" /\ status'[t] = "cancelled" /\ result'[t] = "cancelled"
      /\ \A t \in Plan : t \notin Round => result'[t] = result[t]
  BY DEF RoundEnds, CoInv, CoTypes, Outcomes
<1>5. CoTypes' /\ PhasesOK' /\ OpenOK'
  BY <1>1, <1>2, <1>3, <1>4 DEF CoInv, CoTypes, PhasesOK, OpenOK, Open, Loop
<1>6. WorkersOK'
  <2>1. \A t \in Plan : t > N + co.fix => t \notin Round
    BY PlanFacts DEF Round, CoInv, CoTypes, CoRows
  <2> QED BY <1>1, <1>2, <1>3, <1>4, <2>1 DEF CoInv, WorkersOK
<1>7. CompletedOK'
  BY <1>1, <1>3, <1>4 DEF CoInv, CompletedOK
<1>8. WholeOK'
  <2>1. co.stop = "all" => \A t \in 1..(N + co.fix) : result[t] = "completed" /\ t \in Plan
    BY <1>1, PlanFacts DEF CoInv, CoTypes, CoRows, WholeOK, Whole
  <2> QED BY <1>2, <1>4, <2>1 DEF WholeOK, Whole, Loop
<1>9. BlockedOK'
  BY <1>2 DEF BlockedOK, Loop
<1>10. BoundsOK'
  BY <1>1, <1>2 DEF CoInv, BoundsOK, Open, Loop
<1>11. WorksAfterDependencies'
  <2>1. \A u \in Plan : DepsOf(u) \subseteq Plan
    BY PlanFacts DEF DepsOf, CoInv, CoTypes
  <2> QED BY <1>1, <1>4, <2>1 DEF CoInv, WorksAfterDependencies
<1> QED BY <1>5, <1>6, <1>7, <1>8, <1>9, <1>10, <1>11 DEF CoInv

\* The review accepts, gives up, or opens a fix round of one more task.
LEMMA ReviewKeeps ==
    ASSUME CoInv, Review
    PROVE  CoInv'
<1>1. /\ co.pc = "review" /\ Parallel' = Parallel /\ Valid' = Valid /\ active = {} /\ co.stop = "all"
      /\ UNCHANGED <<deps, status, queued, active, result, asked, told, late>>
      /\ \A t \in Plan : DepsOf(t)' = DepsOf(t)
      /\ co.fix \in 0..MaxFixRounds /\ co \in CoRows
  BY SamePlan DEF Review, CoInv, PhasesOK, CoTypes, CoRows
<1>2. CASE /\ thread' = thread
           /\ \/ co' = [co EXCEPT !.pc = "done"]
              \/ \E why \in {"reflection_limit", "blocked"} : co' = [co EXCEPT !.pc = "done", !.stop = why]
  <2>1. /\ co' \in CoRows /\ co'.pc = "done" /\ co'.fix = co.fix /\ co'.steps = co.steps
        /\ co'.calls = co.calls /\ co'.i = co.i /\ co'.stop \in {"all", "reflection_limit", "blocked"}
    BY <1>1, <1>2 DEF CoRows, Stages
  <2>2. CoTypes' /\ PhasesOK'
    BY <1>1, <1>2, <2>1 DEF CoInv, CoTypes, PhasesOK, Loop
  <2>3. WholeOK' /\ BlockedOK'
    BY <1>1, <2>1 DEF CoInv, WholeOK, BlockedOK, Loop, Whole
  <2> QED BY <1>1, <1>2, <2>1, <2>2, <2>3, QuietStep DEF Open, Loop
<1> DEFINE fix == co.fix + 1
<1>3. ASSUME co.fix < MaxFixRounds
      PROVE  /\ fix \in 0..MaxFixRounds /\ fix > 0 /\ fix - 1 = co.fix /\ N + fix = N + co.fix + 1
             /\ N + fix \in Plan /\ N + fix \notin Tasks /\ N + fix > N + co.fix /\ fix > co.fix
             /\ N + fix - 1 = N + co.fix
             /\ \A t \in Plan : t > N + fix => t > N + co.fix
             /\ thread[N + fix] = NoThread /\ result[N + fix] = "none" /\ status[N + fix] = "pending"
  <2>1. /\ fix \in 0..MaxFixRounds /\ fix > 0 /\ fix - 1 = co.fix /\ N + fix = N + co.fix + 1
        /\ N + fix \in Plan /\ N + fix \notin Tasks /\ N + fix > N + co.fix /\ fix > co.fix
        /\ N + fix - 1 = N + co.fix
        /\ \A t \in Plan : t > N + fix => t > N + co.fix
    BY <1>1, <1>3, PlanFacts
  <2> HIDE DEF fix
  <2> QED BY <2>1 DEF CoInv, WorkersOK
<1>4. Whole(N + co.fix)
  BY <1>1 DEF CoInv, WholeOK
<1>5. CASE /\ co.fix < MaxFixRounds /\ Parallel /\ thread' = thread
           /\ co' = [co EXCEPT !.pc = "check", !.fix = fix]
  <2> HIDE DEF fix
  <2>1. /\ co' \in CoRows /\ co'.pc = "check" /\ co'.fix = fix /\ co'.steps = co.steps
        /\ co'.calls = co.calls /\ co'.i = co.i /\ co'.stop = "all"
    BY <1>1, <1>3, <1>5 DEF CoRows, Stages, Loop
  <2>2. CoTypes' /\ PhasesOK' /\ OpenOK'
    BY <1>1, <1>5, <2>1 DEF CoInv, CoTypes, PhasesOK, OpenOK, Open, Loop
  <2>3. WorkersOK' /\ CompletedOK'
    BY <1>1, <1>3, <1>5, <2>1 DEF CoInv, WorkersOK, CompletedOK
  <2>4. WholeOK' /\ BlockedOK'
    BY <1>1, <1>3, <1>4, <1>5, <2>1 DEF WholeOK, BlockedOK, Loop, Whole, Round
  <2>5. BoundsOK'
    BY <1>1, <1>5, <2>1 DEF CoInv, BoundsOK, Open, Loop
  <2>6. WorksAfterDependencies'
    BY <1>1, <1>5 DEF CoInv, WorksAfterDependencies
  <2> QED BY <2>2, <2>3, <2>4, <2>5, <2>6 DEF CoInv
<1>6. CASE /\ co.fix < MaxFixRounds /\ ~Parallel /\ StartThread(N + fix)
           /\ co' = [co EXCEPT !.pc = "work", !.fix = fix, !.i = N + fix]
  <2> DEFINE t == N + fix
  <2>1. PICK w \in Threads : thread' = [thread EXCEPT ![t] = w] /\ w.pc = "alive" /\ ThreadOK(w)
    BY <1>3, <1>6, ThreadStarts
  <2>2. /\ thread' \in [Plan -> Threads] /\ thread'[t] = w
        /\ \A u \in Plan : u # t => thread'[u] = thread[u]
    BY <1>3, <1>6, <2>1 DEF CoInv, CoTypes
  <2>3. t \in Plan /\ t \notin Tasks /\ t = N + fix
    BY <1>3, <1>6
  <2> HIDE DEF fix, t
  <2>4. /\ co' \in CoRows /\ co'.pc = "work" /\ co'.fix = fix /\ co'.i = t /\ co'.stop = "all"
    BY <1>1, <1>3, <1>6, <2>3 DEF CoRows, Stages
  <2>5. CoTypes'
    BY <1>1, <2>1, <2>2, <2>4 DEF CoInv, CoTypes
  <2>6. Valid
    BY <1>1, <1>6 DEF CoInv, PhasesOK
  <2>7. PhasesOK'
    BY <1>1, <1>3, <1>6, <2>1, <2>2, <2>3, <2>4, <2>6 DEF PhasesOK, Loop
  <2>8. OpenOK' /\ BoundsOK'
    BY <1>1, <1>6 DEF OpenOK, BoundsOK
  <2>9. WorkersOK'
    <3>1. thread[t] = NoThread /\ result[t] = "none" /\ status[t] = "pending"
      BY <1>3, <1>6 DEF t
    <3>2. w # NoThread /\ \A u \in Plan : u > N + fix => u > N + co.fix /\ u # t
      BY <1>3, <1>6, <2>1, <2>3, PlanFacts DEF NoThread
    <3>3. queued \subseteq {u \in Plan : thread[u].pc = "ended"} /\ t \notin queued
      BY <3>1 DEF CoInv, WorkersOK, NoThread
    <3>4. queued' \subseteq {u \in Plan : thread'[u].pc = "ended"}
      BY <1>1, <2>2, <3>3
    <3>5. ASSUME NEW u \in Plan, thread'[u].pc = "alive" PROVE u \in active' \/ u \in told' \/ u = t
      BY <1>1, <2>2, <3>5 DEF CoInv, WorkersOK
    <3>6. ASSUME NEW u \in Plan, ~Parallel, result'[u] = "none" PROVE thread'[u] = NoThread \/ u = t
      BY <1>1, <2>2, <3>6 DEF CoInv, WorkersOK
    <3>7. ASSUME NEW u \in Plan, u > N + fix
          PROVE  thread'[u] = NoThread /\ result'[u] = "none" /\ status'[u] = "pending"
      BY <1>1, <2>2, <3>2, <3>7 DEF CoInv, WorkersOK
    <3>8. ASSUME NEW u \in Plan, status'[u] = "running"
          PROVE  result'[u] = "none" /\ thread'[u].pc # "none"
      BY <1>1, <2>1, <2>2, <3>8 DEF CoInv, WorkersOK
    <3>9. \A u \in Plan : u \in active' <=> status'[u] = "running"
      BY <1>1 DEF CoInv, WorkersOK
    <3> QED BY <1>1, <1>6, <2>4, <3>4, <3>5, <3>6, <3>7, <3>8, <3>9 DEF WorkersOK
  <2>10. CompletedOK'
    BY <1>1, <1>3, <1>6, <2>2, <2>3 DEF CoInv, CompletedOK
  <2>11. WholeOK' /\ BlockedOK'
    BY <1>1, <1>3, <1>4, <1>6, <2>4 DEF WholeOK, BlockedOK, Loop, Whole
  <2>12. WorksAfterDependencies'
    BY <1>1, <2>2, <2>3 DEF CoInv, WorksAfterDependencies, DepsOf
  <2> QED BY <2>5, <2>7, <2>8, <2>9, <2>10, <2>11, <2>12 DEF CoInv
<1>7. \/ /\ \/ co' = [co EXCEPT !.pc = "done"]
            \/ \E why \in {"reflection_limit", "blocked"} : co' = [co EXCEPT !.pc = "done", !.stop = why]
         /\ thread' = thread
      \/ /\ co.fix < MaxFixRounds /\ Parallel /\ thread' = thread
         /\ co' = [co EXCEPT !.pc = "check", !.fix = fix]
      \/ /\ co.fix < MaxFixRounds /\ ~Parallel /\ StartThread(N + fix)
         /\ co' = [co EXCEPT !.pc = "work", !.fix = fix, !.i = N + fix]
  BY <1>3 DEF Review
<1> QED BY <1>2, <1>5, <1>6, <1>7

\* The bounds of what workers may use are numbers, and their sums over any part of the plan are.
LEMMA BoundsCount ==
    ASSUME NEW th \in [Plan -> Threads]
    PROVE  \A S \in SUBSET Plan :
                /\ IsFiniteSet(S)
                /\ Counts(StepBound(th), S) /\ Counts(CallBound(th), S)
                /\ SumFunctionOnSet(StepBound(th), S) \in Nat
                /\ SumFunctionOnSet(CallBound(th), S) \in Nat
<1>1. \A t \in Plan : th[t].cap \in Nat /\ th[t].steps \in Nat /\ th[t].calls \in Nat
  BY DEF Threads
<1>2. \A S \in SUBSET Plan : Counts(StepBound(th), S) /\ Counts(CallBound(th), S)
  BY <1>1, PlanFacts DEF Counts, StepBound, CallBound
<1>3. ASSUME NEW S \in SUBSET Plan PROVE IsFiniteSet(S)
  BY PlanFacts, FS_Subset
<1> QED BY <1>2, <1>3, SumIsNumber

\* A worker ends, within its cap, at any time: its bound becomes what it used.
LEMMA ThreadEndsKeeps ==
    ASSUME CoInv, NEW t \in Plan, ThreadEnds(t)
    PROVE  CoInv'
<1>1. /\ thread[t].pc = "alive" /\ queued' = queued \cup {t}
      /\ UNCHANGED <<deps, status, active, result, asked, told, late, co>>
      /\ Parallel' = Parallel /\ Valid' = Valid /\ \A u \in Plan : DepsOf(u)' = DepsOf(u)
      /\ Open' = Open
  BY SamePlan DEF ThreadEnds, Open
<1>2. PICK w \in Threads : /\ thread' = [thread EXCEPT ![t] = w] /\ w.pc = "ended" /\ w.cap = thread[t].cap
                           /\ ThreadOK(w)
  <2>1. PICK s \in 0..thread[t].cap, extra \in {0, Reserve}, st \in Outcomes :
            thread' = [thread EXCEPT ![t].pc = "ended", ![t].steps = s,
                                     ![t].calls = s + extra, ![t].status = st]
    BY DEF ThreadEnds, Outcomes
  <2>2. thread[t] \in Threads /\ thread[t].cap \in Nat
    BY DEF CoInv, CoTypes, CoRows, Threads
  <2> DEFINE calls == s + extra
             w == [thread[t] EXCEPT !.pc = "ended", !.steps = s, !.calls = calls, !.status = st]
  <2>3. s \in Nat /\ calls \in Nat /\ s <= thread[t].cap /\ calls <= thread[t].cap + Reserve
    BY <2>1, <2>2, PlanFacts
  <2>4. thread' = [thread EXCEPT ![t] = w]
    BY <2>1
  <2> HIDE DEF calls
  <2>5. w \in Threads /\ w.pc = "ended" /\ w.cap = thread[t].cap /\ ThreadOK(w)
    BY <2>1, <2>2, <2>3 DEF Threads, ThreadOK, Outcomes
  <2> QED BY <2>4, <2>5
<1>3. /\ thread' \in [Plan -> Threads] /\ thread'[t] = w
      /\ \A u \in Plan : u # t => thread'[u] = thread[u]
  BY <1>2 DEF CoInv, CoTypes
<1>4. result[t] # "completed" /\ thread[t] # NoThread /\ status[t] # "completed"
  BY <1>1 DEF CoInv, CompletedOK, NoThread
<1>5. CoTypes'
  BY <1>1, <1>2, <1>3 DEF CoInv, CoTypes
<1>6. PhasesOK'
  <2>1. co.pc = "work" => thread'[co.i].pc \in {"alive", "ended"}
    BY <1>2, <1>3 DEF CoInv, CoTypes, CoRows, PhasesOK
  <2> QED BY <1>1, <2>1 DEF CoInv, PhasesOK
<1>7. OpenOK'
  BY <1>1, <1>2, <1>3 DEF CoInv, OpenOK
<1>8. WorkersOK'
  <2>1. queued' \subseteq {u \in Plan : thread'[u].pc = "ended"}
    BY <1>1, <1>2, <1>3 DEF CoInv, WorkersOK
  <2>2. ASSUME NEW u \in Plan, thread'[u].pc = "alive"
        PROVE  u \in active' \/ u \in told' \/ (co'.pc = "work" /\ co'.i = u)
    BY <1>1, <1>2, <1>3, <2>2 DEF CoInv, WorkersOK
  <2>3. ASSUME NEW u \in Plan
        PROVE  /\ Parallel /\ status'[u] = "pending" => thread'[u] = NoThread /\ result'[u] = "none"
               /\ ~Parallel /\ result'[u] = "none" =>
                        thread'[u] = NoThread \/ (co'.pc = "work" /\ co'.i = u)
               /\ u > N + co'.fix => thread'[u] = NoThread /\ result'[u] = "none" /\ status'[u] = "pending"
               /\ status'[u] = "running" => result'[u] = "none" /\ thread'[u].pc # "none"
    BY <1>1, <1>2, <1>3, <1>4 DEF CoInv, WorkersOK
  <2> QED BY <1>1, <2>1, <2>2, <2>3 DEF CoInv, WorkersOK
<1>9. CompletedOK'
  BY <1>1, <1>3, <1>4 DEF CoInv, CompletedOK
<1>10. WholeOK' /\ BlockedOK'
  BY <1>1 DEF CoInv, WholeOK, BlockedOK, Whole, Round
<1>11. BoundsOK'
  <2> DEFINE steps == StepBound(thread)
             calls == CallBound(thread)
  <2>1. \A u \in Plan : steps'[u] <= steps[u] /\ calls'[u] <= calls[u]
    <3>1. w.steps <= thread[t].cap /\ w.calls <= thread[t].cap + Reserve
      BY <1>2 DEF ThreadOK
    <3>2. \A u \in Plan : steps[u] \in Nat /\ calls[u] \in Nat
      BY BoundsCount DEF CoInv, CoTypes, Counts
    <3>3. steps'[t] <= steps[t] /\ calls'[t] <= calls[t]
      BY <1>1, <1>2, <1>3, <3>1 DEF StepBound, CallBound
    <3>4. \A u \in Plan : u # t => steps'[u] = steps[u] /\ calls'[u] = calls[u]
      BY <1>3 DEF StepBound, CallBound
    <3> HIDE DEF steps, calls
    <3> QED BY <3>2, <3>3, <3>4
  <2>2. \A S \in SUBSET Plan :
            /\ IsFiniteSet(S) /\ Counts(steps, S) /\ Counts(calls, S)
            /\ SumFunctionOnSet(steps, S) \in Nat /\ SumFunctionOnSet(calls, S) \in Nat
    BY BoundsCount DEF CoInv, CoTypes
  <2>3. \A S \in SUBSET Plan :
            /\ Counts(steps', S) /\ Counts(calls', S)
            /\ SumFunctionOnSet(steps', S) \in Nat /\ SumFunctionOnSet(calls', S) \in Nat
    BY <1>3, BoundsCount
  <2> HIDE DEF steps, calls
  <2>4. \A S \in SUBSET Plan :
            /\ SumFunctionOnSet(steps', S) <= SumFunctionOnSet(steps, S)
            /\ SumFunctionOnSet(calls', S) <= SumFunctionOnSet(calls, S)
    BY <2>1, <2>2, <2>3, SumGrows
  <2>5. Plan \in SUBSET Plan /\ Plan \ active \in SUBSET Plan /\ co.steps \in Nat /\ co.calls \in Nat
        /\ TeamSteps \in Nat /\ TeamCalls \in Nat
    BY PlanFacts DEF CoInv, CoTypes, CoRows
  <2>6. Parallel =>
            /\ SumFunctionOnSet(steps, Plan) <= TeamSteps /\ SumFunctionOnSet(calls, Plan) <= TeamCalls
            /\ Open => /\ SumFunctionOnSet(steps, Plan \ active) <= co.steps
                       /\ SumFunctionOnSet(calls, Plan \ active) <= co.calls
    BY DEF CoInv, BoundsOK, steps, calls
  <2>7. Parallel =>
            /\ SumFunctionOnSet(steps', Plan) <= TeamSteps /\ SumFunctionOnSet(calls', Plan) <= TeamCalls
            /\ Open => /\ SumFunctionOnSet(steps', Plan \ active) <= co.steps
                       /\ SumFunctionOnSet(calls', Plan \ active) <= co.calls
    BY <2>2, <2>3, <2>4, <2>5, <2>6
  <2> QED BY <1>1, <2>7 DEF BoundsOK, steps, calls
<1>12. WorksAfterDependencies'
  <2>1. thread[t].pc # "none"
    BY <1>1
  <2> QED BY <1>1, <1>3, <2>1 DEF CoInv, WorksAfterDependencies
<1> QED BY <1>5, <1>6, <1>7, <1>8, <1>9, <1>10, <1>11, <1>12 DEF CoInv

\* The coordinator takes one end from the queue: the worker leaves the active ones, and the
\* totals take its work.
LEMMA CollectKeeps ==
    ASSUME CoInv, Collect
    PROVE  CoInv'
<1>1. PICK t \in queued : /\ active' = active \ {t} /\ queued' = queued \ {t}
                          /\ result' = [result EXCEPT ![t] = thread[t].status]
                          /\ status' = Collected(t, thread[t].status)
                          /\ co' = Totals(thread[t].steps, thread[t].calls)
  BY DEF Collect
<1> DEFINE o == thread[t].status
<1>2. /\ co.pc = "collect" /\ Parallel /\ Parallel' = Parallel /\ Valid' = Valid /\ Valid
      /\ UNCHANGED <<deps, thread, asked, told, late>> /\ Open
      /\ \A u \in Plan : DepsOf(u)' = DepsOf(u)
  BY SamePlan DEF Collect, CoInv, PhasesOK, Loop, Open
<1>3. t \in active /\ t \in Round /\ t \in Plan /\ status[t] = "running" /\ result[t] = "none"
  BY <1>2, ActiveInRound DEF CoInv, OpenOK, Loop
<1>4. thread[t].pc = "ended" /\ o \in Outcomes
  BY <1>3 DEF CoInv, CoTypes, WorkersOK, Threads, ThreadOK
<1>5. /\ co' \in CoRows /\ co'.pc = "collect" /\ co'.i = co.i /\ co'.fix = co.fix /\ co'.stop = co.stop
      /\ co'.steps = co.steps + thread[t].steps /\ co'.calls = co.calls + thread[t].calls
  BY <1>1, <1>2, <1>3, TotalsGrow
<1>6. Round' = Round /\ Round \subseteq Plan
  BY <1>5, PlanFacts DEF Round, CoInv, CoTypes, CoRows
<1>7. /\ status' \in [Plan -> TaskStatuses]
      /\ status'[t] = IF o = "blocked" THEN "failed" ELSE o
      /\ \A u \in Plan : u # t =>
            \/ status'[u] = status[u]
            \/ /\ status[u] = "pending" /\ u \in Round
               /\ \/ status'[u] = "cancelled"
                  \/ status'[u] = "blocked" /\ o \in {"failed", "blocked"}
  BY <1>1, <1>3, <1>4 DEF Collected, CoInv, CoTypes, TaskStatuses, Outcomes
<1>8. /\ result' \in [Plan -> Outcomes \cup {"none"}] /\ result'[t] = o
      /\ \A u \in Plan : u # t => result'[u] = result[u]
  BY <1>1, <1>3, <1>4 DEF CoInv, CoTypes
<1>9. /\ status'[t] \in {"completed", "failed", "cancelled"}
      /\ status'[t] = "completed" <=> o = "completed"
      /\ o \in {"failed", "blocked"} => status'[t] = "failed"
      /\ o # "none"
  BY <1>4, <1>7 DEF Outcomes
<1> HIDE DEF o
<1>10. CoTypes' /\ PhasesOK'
  BY <1>1, <1>2, <1>5, <1>7, <1>8 DEF CoInv, CoTypes, PhasesOK, Loop
<1>11. OpenOK'
  <2>1. thread[t].pc # "alive"
    BY <1>4
  <2> QED BY <1>1, <1>2, <2>1 DEF CoInv, OpenOK
<1>12. WorkersOK'
  <2>1. queued' \subseteq {u \in Plan : thread'[u].pc = "ended"}
    BY <1>1, <1>2 DEF CoInv, WorkersOK
  <2>2. ASSUME NEW u \in Plan PROVE u \in active' <=> status'[u] = "running"
    <3>1. CASE u = t
      BY <1>1, <1>9, <3>1
    <3>2. CASE u # t
      BY <1>1, <1>7, <3>2 DEF CoInv, WorkersOK
    <3> QED BY <3>1, <3>2
  <2>3. ASSUME NEW u \in Plan, thread'[u].pc = "alive"
        PROVE  u \in active' \/ u \in told'
    BY <1>1, <1>2, <1>4, <2>3 DEF CoInv, WorkersOK
  <2>4. ASSUME NEW u \in Plan
        PROVE  /\ status'[u] = "pending" => thread'[u] = NoThread /\ result'[u] = "none"
               /\ u > N + co'.fix => thread'[u] = NoThread /\ result'[u] = "none" /\ status'[u] = "pending"
               /\ status'[u] = "running" => result'[u] = "none" /\ thread'[u].pc # "none"
    <3>1. CASE u = t
      BY <1>3, <1>5, <1>9, <3>1 DEF CoInv, WorkersOK
    <3>2. CASE u # t
      <4>1. u > N + co.fix => u \notin Round
        BY PlanFacts DEF Round, CoInv, CoTypes, CoRows
      <4> QED BY <1>2, <1>5, <1>7, <1>8, <3>2, <4>1 DEF CoInv, WorkersOK
    <3> QED BY <3>1, <3>2
  <2> QED BY <1>2, <2>1, <2>2, <2>3, <2>4 DEF WorkersOK
<1>13. CompletedOK'
  <2>1. ASSUME NEW u \in Plan
        PROVE  /\ status'[u] = "completed" => result'[u] = "completed"
               /\ result'[u] = "completed" => thread'[u].pc = "ended" /\ thread'[u].status = "completed"
    <3>1. CASE u = t
      BY <1>2, <1>4, <1>8, <1>9, <3>1 DEF o
    <3>2. CASE u # t
      BY <1>2, <1>7, <1>8, <3>2 DEF CoInv, CompletedOK
    <3> QED BY <3>1, <3>2
  <2> QED BY <2>1 DEF CompletedOK
<1>14. WholeOK'
  <2>1. co.fix # 0 => \A u \in 1..(N + co.fix - 1) : result[u] = "completed" /\ u \in Plan
    BY <1>2, PlanFacts DEF CoInv, CoTypes, CoRows, WholeOK, Whole, Loop
  <2>2. co.fix # 0 => \A u \in 1..(N + co.fix - 1) : result'[u] = "completed"
    BY <1>3, <1>8, <2>1
  <2> QED BY <1>5, <2>2, PlanFacts DEF WholeOK, Whole, Loop
<1>15. BlockedOK'
  <2>1. ASSUME NEW u \in Round, status'[u] = "blocked"
        PROVE  \E v \in Round : status'[v] = "failed"
    <3>1. u # t
      BY <1>9, <2>1
    <3>2. CASE status[u] = "blocked"
      <4>1. PICK v \in Round : status[v] = "failed"
        BY <1>2, <3>2 DEF CoInv, BlockedOK, Loop
      <4>2. v # t /\ v \in Plan
        BY <1>3, <1>6, <4>1
      <4> QED BY <1>7, <4>1, <4>2
    <3>3. CASE status[u] # "blocked"
      BY <1>3, <1>6, <1>7, <1>9, <2>1, <3>1, <3>3
    <3> QED BY <3>2, <3>3
  <2> QED BY <1>6, <2>1 DEF BlockedOK
<1>16. BoundsOK'
  <2> DEFINE steps == StepBound(thread)
             calls == CallBound(thread)
             rest == Plan \ active
             more == Plan \ (active \ {t})
  <2>1. \A S \in SUBSET Plan :
            /\ IsFiniteSet(S) /\ Counts(steps, S) /\ Counts(calls, S)
            /\ SumFunctionOnSet(steps, S) \in Nat /\ SumFunctionOnSet(calls, S) \in Nat
    BY BoundsCount DEF CoInv, CoTypes
  <2>2. steps[t] = thread[t].steps /\ calls[t] = thread[t].calls
    BY <1>3, <1>4 DEF StepBound, CallBound
  <2>3. more \in SUBSET Plan /\ t \in more /\ more \ {t} = rest /\ rest \in SUBSET Plan
    BY <1>3
  <2> HIDE DEF steps, calls, more
  <2>4. /\ SumFunctionOnSet(steps, more) = thread[t].steps + SumFunctionOnSet(steps, rest)
        /\ SumFunctionOnSet(calls, more) = thread[t].calls + SumFunctionOnSet(calls, rest)
    BY <2>1, <2>2, <2>3, SumTakes
  <2>5. /\ SumFunctionOnSet(steps, rest) <= co.steps /\ SumFunctionOnSet(calls, rest) <= co.calls
        /\ SumFunctionOnSet(steps, Plan) <= TeamSteps /\ SumFunctionOnSet(calls, Plan) <= TeamCalls
    BY <1>2 DEF CoInv, BoundsOK, steps, calls
  <2>6. /\ co.steps \in Nat /\ co.calls \in Nat /\ thread[t].steps \in Nat /\ thread[t].calls \in Nat
    BY <1>3 DEF CoInv, CoTypes, CoRows, Threads
  <2>7. /\ SumFunctionOnSet(steps, more) <= co'.steps /\ SumFunctionOnSet(calls, more) <= co'.calls
    <3>1. SumFunctionOnSet(steps, rest) \in Nat /\ SumFunctionOnSet(calls, rest) \in Nat
      BY <2>1, <2>3
    <3> HIDE DEF rest
    <3> QED BY <1>5, <2>4, <2>5, <2>6, <3>1
  <2>8. Plan \ active' = more
    BY <1>1 DEF more
  <2> QED BY <1>2, <2>5, <2>7, <2>8 DEF BoundsOK, steps, calls
<1>17. WorksAfterDependencies'
  <2>1. \A u \in Plan : DepsOf(u) \subseteq Plan
    BY PlanFacts DEF DepsOf, CoInv, CoTypes
  <2> QED BY <1>2, <1>3, <1>8, <2>1 DEF CoInv, WorksAfterDependencies
<1> QED BY <1>10, <1>11, <1>12, <1>13, <1>14, <1>15, <1>16, <1>17 DEF CoInv

\* A straggler is joined, or given up after its time: then it was told, and its result is
\* cancelled.
LEMMA JoinedKeeps ==
    ASSUME CoInv, NEW t \in Plan, Joined(t)
    PROVE  CoInv'
<1>1. PICK kept \in BOOLEAN :
        /\ kept => thread[t].pc = "ended"
        /\ ~kept => t \in told
        /\ result' = [result EXCEPT ![t] = IF kept THEN thread[t].status ELSE "cancelled"]
        /\ co' = IF kept THEN Totals(thread[t].steps, thread[t].calls) ELSE co
  BY DEF Joined
<1> DEFINE o == IF kept THEN thread[t].status ELSE "cancelled"
<1>2. /\ co.pc = "stragglers" /\ co.stop # "all" /\ t \in active /\ status[t] = "running"
      /\ result[t] = "none" /\ t <= N + co.fix
      /\ Parallel /\ Parallel' = Parallel /\ Valid' = Valid /\ Valid
      /\ active' = active \ {t} /\ queued' = queued \ {t}
      /\ UNCHANGED <<deps, thread, asked, told, late>>
      /\ thread[t].pc = "ended" \/ t \in told
      /\ \A u \in Plan : DepsOf(u)' = DepsOf(u)
  <2>1. t \in active /\ status[t] = "running" /\ result[t] = "none" /\ ~(t > N + co.fix)
    BY DEF Joined, CoInv, WorkersOK
  <2>2. t <= N + co.fix
    BY <2>1, PlanFacts DEF CoInv, CoTypes, CoRows
  <2> QED BY <2>1, <2>2, SamePlan DEF Joined, CoInv, PhasesOK
<1>3. o \in Outcomes /\ (o = "completed" => thread[t].pc = "ended" /\ thread[t].status = "completed")
  BY <1>1 DEF CoInv, CoTypes, Threads, ThreadOK, Outcomes
<1>4. /\ status' \in [Plan -> TaskStatuses] /\ status'[t] = "cancelled"
      /\ \A u \in Plan : u # t => status'[u] = status[u]
  BY DEF Joined, CoInv, CoTypes, TaskStatuses
<1>5. /\ result' \in [Plan -> Outcomes \cup {"none"}] /\ result'[t] = o
      /\ \A u \in Plan : u # t => result'[u] = result[u]
  BY <1>1, <1>3 DEF CoInv, CoTypes
<1>6. /\ co' \in CoRows /\ co'.pc = "stragglers" /\ co'.i = co.i /\ co'.fix = co.fix /\ co'.stop = co.stop
  BY <1>1, <1>2, TotalsGrow DEF CoInv, CoTypes
<1> HIDE DEF o
<1>7. CoTypes' /\ PhasesOK' /\ OpenOK'
  BY <1>2, <1>4, <1>5, <1>6 DEF CoInv, CoTypes, PhasesOK, OpenOK, Open, Loop
<1>8. WorkersOK'
  <2>1. queued' \subseteq {u \in Plan : thread'[u].pc = "ended"}
    BY <1>2 DEF CoInv, WorkersOK
  <2>2. \A u \in Plan : u \in active' <=> status'[u] = "running"
    BY <1>2, <1>4 DEF CoInv, WorkersOK
  <2>3. \A u \in Plan : thread'[u].pc = "alive" => u \in active' \/ u \in told'
    BY <1>2 DEF CoInv, WorkersOK
  <2>4. ASSUME NEW u \in Plan
        PROVE  /\ status'[u] = "pending" => thread'[u] = NoThread /\ result'[u] = "none"
               /\ u > N + co'.fix => thread'[u] = NoThread /\ result'[u] = "none" /\ status'[u] = "pending"
               /\ status'[u] = "running" => result'[u] = "none" /\ thread'[u].pc # "none"
    <3>1. CASE u = t
      <4>1. ~(u > N + co.fix)
        BY <1>2, <3>1 DEF CoInv, WorkersOK
      <4> QED BY <1>4, <1>6, <3>1, <4>1
    <3>2. CASE u # t
      BY <1>2, <1>4, <1>5, <1>6, <3>2 DEF CoInv, WorkersOK
    <3> QED BY <3>1, <3>2
  <2> QED BY <1>2, <2>1, <2>2, <2>3, <2>4 DEF WorkersOK
<1>9. CompletedOK'
  BY <1>2, <1>3, <1>4, <1>5 DEF CoInv, CompletedOK
<1>10. WholeOK' /\ BlockedOK'
  BY <1>2, <1>6 DEF WholeOK, BlockedOK, Loop
<1>11. BoundsOK'
  BY <1>2, <1>6 DEF CoInv, BoundsOK, Open, Loop
<1>12. WorksAfterDependencies'
  <2>1. \A u \in Plan : DepsOf(u) \subseteq Plan
    BY PlanFacts DEF DepsOf, CoInv, CoTypes
  <2> QED BY <1>2, <1>5, <2>1 DEF CoInv, WorksAfterDependencies
<1> QED BY <1>7, <1>8, <1>9, <1>10, <1>11, <1>12 DEF CoInv

\* A worker added to those of A, within what the others have used and A has reserved.
LEMMA OneMore ==
    ASSUME NEW P, IsFiniteSet(P), NEW A, A \subseteq P, NEW t \in P, t \notin A,
           NEW old, NEW new, NEW caps, Counts(old, P), Counts(new, P), Counts(caps, P),
           old[t] = 0, \A u \in P : u # t => new[u] = old[u], \A u \in A : old[u] <= caps[u],
           NEW used \in Nat, NEW total \in Nat,
           SumFunctionOnSet(old, P \ A) <= used,
           used + SumFunctionOnSet(caps, A) + new[t] <= total
    PROVE  /\ SumFunctionOnSet(new, P) <= total
           /\ SumFunctionOnSet(new, P \ (A \cup {t})) <= used
<1> DEFINE B == A \cup {t}
           R == P \ B
<1>1. /\ B \subseteq P /\ R \subseteq P /\ t \in B /\ B \ {t} = A /\ t \in P \ A /\ (P \ A) \ {t} = R
      /\ P \ A \subseteq P /\ t \notin R /\ A \subseteq P
  OBVIOUS
<1>2. \A S : S \subseteq P => /\ IsFiniteSet(S) /\ Counts(old, S) /\ Counts(new, S) /\ Counts(caps, S)
  BY FS_Subset DEF Counts
<1>3. \A S : S \subseteq P => /\ SumFunctionOnSet(old, S) \in Nat /\ SumFunctionOnSet(new, S) \in Nat
                              /\ SumFunctionOnSet(caps, S) \in Nat
  BY <1>2, SumIsNumber
<1> HIDE DEF B, R
<1>4. SumFunctionOnSet(new, R) = SumFunctionOnSet(old, R)
  BY <1>1, <1>2, SumSame
<1>5. SumFunctionOnSet(old, P \ A) = old[t] + SumFunctionOnSet(old, R)
  BY <1>1, <1>2, SumTakes
<1>6. SumFunctionOnSet(new, R) <= used
  BY <1>1, <1>3, <1>4, <1>5
<1>7. SumFunctionOnSet(new, B) = new[t] + SumFunctionOnSet(new, A)
  BY <1>1, <1>2, SumTakes
<1>8. SumFunctionOnSet(new, A) <= SumFunctionOnSet(caps, A)
  <2>1. \A u \in A : new[u] <= caps[u]
    BY <1>1
  <2> QED BY <1>1, <1>2, <2>1, SumGrows
<1>9. SumFunctionOnSet(new, P) = SumFunctionOnSet(new, B) + SumFunctionOnSet(new, R)
  BY <1>1, SumSplits DEF R
<1>10. new[t] \in Nat
  BY DEF Counts
<1>11. PICK x \in Nat : x = SumFunctionOnSet(new, R)
  BY <1>1, <1>3
<1>12. PICK y \in Nat : y = SumFunctionOnSet(new, A)
  BY <1>1, <1>3
<1>13. PICK z \in Nat : z = SumFunctionOnSet(caps, A)
  BY <1>1, <1>3
<1>14. SumFunctionOnSet(new, P) = new[t] + y + x /\ y <= z /\ x <= used /\ used + z + new[t] <= total
  BY <1>6, <1>7, <1>8, <1>9, <1>11, <1>12, <1>13
<1> QED BY <1>6, <1>10, <1>11, <1>12, <1>13, <1>14 DEF R, B

\* A worker is started within what is neither used nor reserved.
LEMMA StartFits ==
    ASSUME CoInv, Parallel, Open, NEW t \in Plan \ active, thread[t] = NoThread,
           NEW th \in [Plan -> Threads], th[t].pc = "alive", th[t].cap = Cap, Cap \in Nat,
           \A u \in Plan : u # t => th[u] = thread[u],
           Fits(t)
    PROVE  /\ SumFunctionOnSet(StepBound(th), Plan) <= TeamSteps
           /\ SumFunctionOnSet(CallBound(th), Plan) <= TeamCalls
           /\ SumFunctionOnSet(StepBound(th), Plan \ (active \cup {t})) <= co.steps
           /\ SumFunctionOnSet(CallBound(th), Plan \ (active \cup {t})) <= co.calls
<1> DEFINE caps == [u \in Plan |-> thread[u].cap]
           most == [u \in Plan |-> thread[u].cap + Reserve]
<1>1. /\ Counts(StepBound(thread), Plan) /\ Counts(CallBound(thread), Plan) /\ IsFiniteSet(Plan)
      /\ Counts(StepBound(th), Plan) /\ Counts(CallBound(th), Plan)
  <2>1. Plan \in SUBSET Plan
    OBVIOUS
  <2> QED BY <2>1, BoundsCount DEF CoInv, CoTypes
<1>2. Counts(caps, Plan) /\ Counts(most, Plan)
  BY PlanFacts DEF Counts, CoInv, CoTypes, Threads
<1>3. ASSUME NEW u \in Plan
      PROVE  StepBound(thread)[u] <= caps[u] /\ CallBound(thread)[u] <= most[u]
  <2>1. thread[u] \in Threads /\ ThreadOK(thread[u])
    BY DEF CoInv, CoTypes
  <2> QED BY <2>1, PlanFacts DEF ThreadOK, Threads, StepBound, CallBound, NoThread
<1>4. /\ StepBound(thread)[t] = 0 /\ CallBound(thread)[t] = 0
      /\ StepBound(th)[t] = Cap /\ CallBound(th)[t] = Cap + Reserve
  BY DEF StepBound, CallBound, NoThread
<1>5. \A u \in Plan : u # t => /\ StepBound(th)[u] = StepBound(thread)[u]
                               /\ CallBound(th)[u] = CallBound(thread)[u]
  BY DEF StepBound, CallBound
<1>6. /\ SumFunctionOnSet(StepBound(thread), Plan \ active) <= co.steps
      /\ SumFunctionOnSet(CallBound(thread), Plan \ active) <= co.calls
      /\ co.steps \in Nat /\ co.calls \in Nat /\ TeamSteps \in Nat /\ TeamCalls \in Nat
      /\ active \subseteq Plan
  BY PlanFacts DEF CoInv, BoundsOK, CoTypes, CoRows
<1>7. /\ co.steps + SumFunctionOnSet(caps, active) + StepBound(th)[t] <= TeamSteps
      /\ co.calls + SumFunctionOnSet(most, active) + CallBound(th)[t] <= TeamCalls
  <2>1. /\ co.steps + SumFunctionOnSet(caps, active) + Cap <= TeamSteps
        /\ co.calls + SumFunctionOnSet(most, active) + Cap + Reserve <= TeamCalls
    BY DEF Fits, ReservedSteps, ReservedCalls
  <2>2. SumFunctionOnSet(most, active) \in Nat /\ Reserve \in Nat
    <3>1. IsFiniteSet(active) /\ Counts(most, active)
      BY <1>1, <1>2, <1>6, FS_Subset DEF Counts
    <3> QED BY <3>1, PlanFacts, SumIsNumber
  <2> HIDE DEF most, caps
  <2> QED BY <1>4, <1>6, <2>1, <2>2
<1> HIDE DEF caps, most
<1> DEFINE old == StepBound(thread)
           new == StepBound(th)
           oldCalls == CallBound(thread)
           newCalls == CallBound(th)
<1>8. SumFunctionOnSet(new, Plan) <= TeamSteps /\ SumFunctionOnSet(new, Plan \ (active \cup {t})) <= co.steps
  <2>1. /\ Counts(old, Plan) /\ Counts(new, Plan) /\ Counts(caps, Plan) /\ IsFiniteSet(Plan)
        /\ active \subseteq Plan /\ t \in Plan /\ t \notin active
        /\ old[t] = 0 /\ \A u \in Plan : u # t => new[u] = old[u]
        /\ \A u \in active : old[u] <= caps[u]
        /\ co.steps \in Nat /\ TeamSteps \in Nat
        /\ SumFunctionOnSet(old, Plan \ active) <= co.steps
        /\ co.steps + SumFunctionOnSet(caps, active) + new[t] <= TeamSteps
    BY <1>1, <1>2, <1>3, <1>4, <1>5, <1>6, <1>7
  <2> HIDE DEF old, new
  <2> QED BY <2>1, OneMore
<1>9. /\ SumFunctionOnSet(newCalls, Plan) <= TeamCalls
      /\ SumFunctionOnSet(newCalls, Plan \ (active \cup {t})) <= co.calls
  <2>1. /\ Counts(oldCalls, Plan) /\ Counts(newCalls, Plan) /\ Counts(most, Plan) /\ IsFiniteSet(Plan)
        /\ active \subseteq Plan /\ t \in Plan /\ t \notin active
        /\ oldCalls[t] = 0 /\ \A u \in Plan : u # t => newCalls[u] = oldCalls[u]
        /\ \A u \in active : oldCalls[u] <= most[u]
        /\ co.calls \in Nat /\ TeamCalls \in Nat
        /\ SumFunctionOnSet(oldCalls, Plan \ active) <= co.calls
        /\ co.calls + SumFunctionOnSet(most, active) + newCalls[t] <= TeamCalls
    BY <1>1, <1>2, <1>3, <1>4, <1>5, <1>6, <1>7
  <2> HIDE DEF oldCalls, newCalls
  <2> QED BY <2>1, OneMore
<1> QED BY <1>8, <1>9

\* One turn of the scheduler over the plan: the task is blocked, started within the budget, or
\* left for later.
LEMMA ScheduleKeeps ==
    ASSUME CoInv, Schedule
    PROVE  CoInv'
<1> DEFINE t == co.i
           next == co.i + 1
<1>1. /\ co.pc = "schedule" /\ Parallel /\ Parallel' = Parallel /\ Valid' = Valid /\ Valid /\ Open
      /\ t \in Plan /\ UNCHANGED <<deps, queued, result, asked, told, late>>
      /\ \A u \in Plan : DepsOf(u)' = DepsOf(u)
  BY SamePlan DEF Schedule, CoInv, CoTypes, CoRows, PhasesOK, Open, Loop
<1>2. /\ co' \in CoRows /\ co'.pc \in Loop /\ co'.fix = co.fix /\ co'.stop = co.stop
      /\ co'.steps = co.steps /\ co'.calls = co.calls
  <2>1. co.i < N + co.fix => next \in Plan
    BY <1>1, PlanFacts DEF CoInv, CoTypes, CoRows
  <2>2. co' = IF co.i < N + co.fix THEN [co EXCEPT !.i = next] ELSE [co EXCEPT !.pc = "collect"]
    BY DEF Schedule
  <2> HIDE DEF next
  <2> QED BY <1>1, <2>1, <2>2 DEF CoInv, CoTypes, CoRows, Stages, Loop
<1>3. Round' = Round /\ Round \subseteq Plan
  BY <1>2, PlanFacts DEF Round, CoInv, CoTypes, CoRows
<1>4. PhasesOK' /\ WholeOK'
  BY <1>1, <1>2 DEF CoInv, PhasesOK, WholeOK, Whole, Loop
<1>5. CASE ~Ready(t)
  <2>1. UNCHANGED <<status, active, thread>>
    BY <1>5 DEF Schedule
  <2>2. CoTypes' /\ OpenOK' /\ CompletedOK'
    BY <1>1, <1>2, <2>1 DEF CoInv, CoTypes, OpenOK, Open, CompletedOK
  <2>3. WorkersOK' /\ BlockedOK'
    BY <1>1, <1>2, <1>3, <2>1 DEF CoInv, WorkersOK, BlockedOK, Loop
  <2>4. BoundsOK' /\ WorksAfterDependencies'
    BY <1>1, <1>2, <2>1 DEF CoInv, BoundsOK, WorksAfterDependencies
  <2> QED BY <1>4, <2>2, <2>3, <2>4 DEF CoInv
<1>6. ASSUME Ready(t)
      PROVE  /\ t \in Round /\ status[t] = "pending" /\ thread[t] = NoThread /\ result[t] = "none"
             /\ t \notin active /\ ~(t > N + co.fix)
             /\ \A u \in DepsOf(t) : result[u] = "completed"
  <2>1. t \in Round /\ status[t] = "pending" /\ thread[t] = NoThread /\ result[t] = "none" /\ t \notin active
    BY <1>1, <1>6 DEF Ready, CoInv, WorkersOK
  <2>2. \A u \in DepsOf(t) : status[u] = "completed" /\ u \in Plan
    BY <1>6, PlanFacts DEF Ready, DepsOf, CoInv, CoTypes
  <2>3. ~(t > N + co.fix)
    BY <2>1, PlanFacts DEF Round, CoInv, CoTypes, CoRows
  <2> QED BY <2>1, <2>2, <2>3 DEF CoInv, CompletedOK
<1>7. CASE Ready(t) /\ ~Fits(t)
  <2>1. /\ UNCHANGED <<active, thread>> /\ status' \in [Plan -> TaskStatuses] /\ status'[t] = "cancelled"
        /\ \A u \in Plan : u # t => status'[u] = status[u]
    BY <1>1, <1>7 DEF Schedule, CoInv, CoTypes, TaskStatuses
  <2>2. CoTypes' /\ OpenOK' /\ CompletedOK'
    BY <1>1, <1>2, <2>1 DEF CoInv, CoTypes, OpenOK, Open, CompletedOK
  <2>3. WorkersOK'
    <3>1. \A u \in Plan : u \in active' <=> status'[u] = "running"
      BY <1>6, <1>7, <2>1 DEF CoInv, WorkersOK
    <3>2. \A u \in Plan : thread'[u].pc = "alive" => u \in active' \/ u \in told'
      BY <1>1, <2>1 DEF CoInv, WorkersOK
    <3>3. ASSUME NEW u \in Plan
          PROVE  /\ status'[u] = "pending" => thread'[u] = NoThread /\ result'[u] = "none"
                 /\ u > N + co'.fix =>
                        thread'[u] = NoThread /\ result'[u] = "none" /\ status'[u] = "pending"
                 /\ status'[u] = "running" => result'[u] = "none" /\ thread'[u].pc # "none"
      <4>1. CASE u = t
        BY <1>2, <1>6, <1>7, <2>1, <4>1
      <4>2. CASE u # t
        BY <1>1, <1>2, <2>1, <4>2 DEF CoInv, WorkersOK
      <4> QED BY <4>1, <4>2
    <3>4. queued' \subseteq {u \in Plan : thread'[u].pc = "ended"}
      BY <1>1, <2>1 DEF CoInv, WorkersOK
    <3> QED BY <1>1, <3>1, <3>2, <3>3, <3>4 DEF WorkersOK
  <2>4. BlockedOK'
    BY <1>1, <1>2, <1>3, <1>6, <1>7, <2>1 DEF CoInv, BlockedOK, Loop
  <2>5. BoundsOK' /\ WorksAfterDependencies'
    BY <1>1, <1>2, <2>1 DEF CoInv, BoundsOK, WorksAfterDependencies
  <2> QED BY <1>4, <2>2, <2>3, <2>4, <2>5 DEF CoInv
<1>8. CASE Ready(t) /\ Fits(t)
  <2>1. /\ active' = active \cup {t} /\ status' \in [Plan -> TaskStatuses] /\ status'[t] = "running"
        /\ \A u \in Plan : u # t => status'[u] = status[u]
        /\ StartThread(t)
    BY <1>1, <1>8 DEF Schedule, CoInv, CoTypes, TaskStatuses
  <2>2. PICK w \in Threads : thread' = [thread EXCEPT ![t] = w] /\ w.pc = "alive" /\ w.cap = Cap /\ ThreadOK(w)
    BY <1>1, <2>1, ThreadStarts
  <2>3. /\ thread' \in [Plan -> Threads] /\ thread'[t] = w
        /\ \A u \in Plan : u # t => thread'[u] = thread[u]
    BY <1>1, <2>2 DEF CoInv, CoTypes
  <2>4. CoTypes' /\ OpenOK' /\ CompletedOK'
    <3>1. CoTypes'
      BY <1>1, <1>2, <2>1, <2>2, <2>3 DEF CoInv, CoTypes
    <3>2. OpenOK'
      BY <1>1, <2>1, <2>2, <2>3 DEF CoInv, OpenOK
    <3>3. CompletedOK'
      BY <1>1, <1>6, <1>8, <2>1, <2>3 DEF CoInv, CompletedOK
    <3> QED BY <3>1, <3>2, <3>3
  <2>5. WorkersOK'
    <3>1. \A u \in Plan : u \in active' <=> status'[u] = "running"
      BY <2>1 DEF CoInv, WorkersOK
    <3>2. \A u \in Plan : thread'[u].pc = "alive" => u \in active' \/ u \in told'
      BY <1>1, <2>1, <2>3 DEF CoInv, WorkersOK
    <3>3. ASSUME NEW u \in Plan
          PROVE  /\ status'[u] = "pending" => thread'[u] = NoThread /\ result'[u] = "none"
                 /\ u > N + co'.fix =>
                        thread'[u] = NoThread /\ result'[u] = "none" /\ status'[u] = "pending"
                 /\ status'[u] = "running" => result'[u] = "none" /\ thread'[u].pc # "none"
      <4>1. CASE u = t
        BY <1>1, <1>2, <1>6, <1>8, <2>1, <2>2, <2>3, <4>1
      <4>2. CASE u # t
        BY <1>1, <1>2, <2>1, <2>3, <4>2 DEF CoInv, WorkersOK
      <4> QED BY <4>1, <4>2
    <3>4. t \notin queued
      BY <1>6, <1>8 DEF CoInv, WorkersOK, NoThread
    <3>5. queued' \subseteq {u \in Plan : thread'[u].pc = "ended"}
      BY <1>1, <2>3, <3>4 DEF CoInv, WorkersOK
    <3> QED BY <1>1, <3>1, <3>2, <3>3, <3>5 DEF WorkersOK
  <2>6. BlockedOK'
    BY <1>1, <1>2, <1>3, <1>6, <1>8, <2>1 DEF CoInv, BlockedOK, Loop
  <2>7. BoundsOK'
    <3>1. t \in Plan \ active /\ Cap \in Nat
      BY <1>1, <1>6, <1>8, <2>1, ThreadStarts
    <3> HIDE DEF t
    <3>2. /\ SumFunctionOnSet(StepBound(thread'), Plan) <= TeamSteps
          /\ SumFunctionOnSet(CallBound(thread'), Plan) <= TeamCalls
          /\ SumFunctionOnSet(StepBound(thread'), Plan \ (active \cup {t})) <= co.steps
          /\ SumFunctionOnSet(CallBound(thread'), Plan \ (active \cup {t})) <= co.calls
      BY <1>1, <1>6, <1>8, <2>2, <2>3, <3>1, StartFits
    <3> QED BY <1>2, <2>1, <3>2 DEF BoundsOK
  <2>8. WorksAfterDependencies'
    BY <1>1, <1>6, <1>8, <2>1, <2>3 DEF CoInv, WorksAfterDependencies
  <2> QED BY <1>4, <2>4, <2>5, <2>6, <2>7, <2>8 DEF CoInv
<1> QED BY <1>5, <1>7, <1>8

-----------------------------------------------------------------------------
(* The theorems *)

\* The initial states.
LEMMA CoStarts ==
    ASSUME CoInit
    PROVE  CoInv
<1>1. CoTypes
  BY CoAssumption, PlanFacts
     DEF CoInit, CoTypes, CoRows, Threads, NoThread, ThreadOK, TaskStatuses, Outcomes, Stages, Tasks
<1>2. PhasesOK /\ OpenOK /\ CompletedOK /\ WholeOK
  BY DEF CoInit, PhasesOK, OpenOK, CompletedOK, WholeOK, NoThread, Loop
<1>3. WorkersOK /\ WorksAfterDependencies
  BY DEF CoInit, WorkersOK, WorksAfterDependencies, NoThread
<1>4. BlockedOK
  BY PlanFacts DEF CoInit, BlockedOK, Round
<1>5. BoundsOK
  <2> DEFINE none == [t \in Plan |-> 0]
  <2>1. StepBound(thread) = none /\ CallBound(thread) = none
    BY DEF CoInit, NoThread, StepBound, CallBound
  <2>2. \A S \in SUBSET Plan : SumFunctionOnSet(none, S) = 0
    <3>1. \A S \in SUBSET Plan : IsFiniteSet(S)
      BY PlanFacts, FS_Subset
    <3>2. \A x \in Plan : none[x] = 0
      OBVIOUS
    <3> HIDE DEF none
    <3> QED BY <3>1, <3>2, SumOfNothing
  <2>3. active = {} /\ co.steps = 0 /\ co.calls = 0
    BY DEF CoInit
  <2> HIDE DEF none
  <2> QED BY <2>1, <2>2, <2>3, PlanFacts DEF BoundsOK
<1> QED BY <1>1, <1>2, <1>3, <1>4, <1>5 DEF CoInv

\* CoInv is an invariant for every plan the check accepts and every one it refuses, for any
\* number of tasks, fix rounds, cancellations and lengths of the budget, whenever workers end.
THEOREM CoordinatorInvariant == CoSpec => []CoInv
<1>1. CoInit => CoInv
  BY CoStarts
<1>2. CoInv /\ [CoNext]_coVars => CoInv'
  <2> SUFFICES ASSUME CoInv, [CoNext]_coVars PROVE CoInv'
    OBVIOUS
  <2>1. CASE CoNext
    <3>1. CASE CoStep
      BY <3>1, StartKeeps, SeqNextKeeps, SeqWorkedKeeps, CheckKeeps, CancelsKeeps, ScheduleKeeps,
         CollectKeeps, JudgeKeeps, JoinedKeeps, OutsideKeeps, RoundEndsKeeps, ReviewKeeps DEF CoStep
    <3>2. CASE TimePasses \/ \E t \in Tasks : Cancel(t)
      BY <3>2, OutsideKeeps
    <3>3. CASE \E t \in Plan : ThreadEnds(t)
      BY <3>3, ThreadEndsKeeps
    <3> QED BY <2>1, <3>1, <3>2, <3>3 DEF CoNext
  <2>2. CASE UNCHANGED coVars
    BY <2>2, OutsideKeeps
  <2> QED BY <2>1, <2>2
<1> QED BY <1>1, <1>2, PTL DEF CoSpec

\* What the invariant says of the work that was done: what workers used is no more than what
\* they might have.
LEMMA CoInvIsSound ==
    ASSUME CoInv
    PROVE  TeamWorkSound
<1>1. CoTypeOK
  BY PlanFacts DEF CoInv, CoTypes, CoRows, Stages, Loop, Outcomes, TaskStatuses, WorkersOK, CoTypeOK
<1>2. BudgetKept
  <2> DEFINE steps == [t \in Plan |-> thread[t].steps]
             calls == [t \in Plan |-> thread[t].calls]
  <2>1. /\ Counts(StepBound(thread), Plan) /\ Counts(CallBound(thread), Plan) /\ IsFiniteSet(Plan)
        /\ SumFunctionOnSet(StepBound(thread), Plan) \in Nat
        /\ SumFunctionOnSet(CallBound(thread), Plan) \in Nat
    <3>1. Plan \in SUBSET Plan
      OBVIOUS
    <3> QED BY <3>1, BoundsCount DEF CoInv, CoTypes
  <2>2. Counts(steps, Plan) /\ Counts(calls, Plan)
    BY DEF Counts, CoInv, CoTypes, Threads
  <2>3. ASSUME NEW u \in Plan
        PROVE  steps[u] <= StepBound(thread)[u] /\ calls[u] <= CallBound(thread)[u]
    <3>1. thread[u] \in Threads /\ ThreadOK(thread[u])
      BY DEF CoInv, CoTypes
    <3> QED BY <3>1, PlanFacts DEF ThreadOK, Threads, StepBound, CallBound
  <2> HIDE DEF steps, calls
  <2>4. /\ SumFunctionOnSet(steps, Plan) <= SumFunctionOnSet(StepBound(thread), Plan)
        /\ SumFunctionOnSet(calls, Plan) <= SumFunctionOnSet(CallBound(thread), Plan)
        /\ SumFunctionOnSet(steps, Plan) \in Nat /\ SumFunctionOnSet(calls, Plan) \in Nat
    BY <2>1, <2>2, <2>3, SumGrows, SumIsNumber
  <2> QED BY <2>1, <2>4, PlanFacts DEF CoInv, BoundsOK, BudgetKept, StepsDone, CallsDone, steps, calls
<1>3. SuccessIsWhole
  <2>1. \A t \in 1..(N + co.fix) : t \in Plan
    BY PlanFacts DEF CoInv, CoTypes, CoRows
  <2> QED BY <2>1 DEF CoInv, WholeOK, Whole, CompletedOK, SuccessIsWhole
<1>4. NobodyForgotten
  BY DEF CoInv, PhasesOK, WorkersOK, NobodyForgotten
<1> QED BY <1>1, <1>2, <1>3, <1>4 DEF CoInv, TeamWorkSound

\* TeamWorkSound is an invariant (src/src/paperclaw/multiagent/coordinator.py, _run_parallel,
\* _run_sequential, _run_fix_round): parallel workers together stay within the team's steps and
\* calls, those that end after their deadline included (SameBudget says why not the sequential
\* ones); a task starts only when everything it depends on is completed; a run that reports
\* success has completed all of its tasks, fix tasks too; and no worker is left running untold.
THEOREM TeamWorkIsSound == CoSpec => []TeamWorkSound
BY CoordinatorInvariant, CoInvIsSound, PTL

-----------------------------------------------------------------------------
(* Memory: what the state holds *)

Entries == [id : Nat, text : Texts]
IdsOf(list) == {list[i].id : i \in 1..Len(list)}
Bounded(list) == list \in Seq(Entries) /\ Len(list) <= MaxEntries /\ TotalWords(list) <= CharLimit

\* The ids that are promised once a request is written.
Owed(w) == IF w.op = "remove" THEN promised \ {w.id} ELSE promised \cup {w.id}

Requests == [pc : {"idle", "want", "break", "locked", "read", "temp", "unlock"},
             op : {"none", "add", "replace", "remove"}, list : Seq(Entries), id : Nat]

\* What a process has in hand between the lock and the rename.
WriterOK(p) ==
    /\ wr[p].pc \in Holding => lock.by = p
    /\ wr[p].pc = "read" => Owed(wr[p]) \subseteq IdsOf(wr[p].list)
    /\ wr[p].pc = "temp" => tmp = NoFile \/ Owed(wr[p]) \subseteq IdsOf(tmp)

MfTypes ==
    /\ lock \in [by : Writers \cup {Nobody}, old : BOOLEAN]
    /\ made \in Nat /\ robbed \in BOOLEAN
    /\ Bounded(memfile) /\ (tmp = NoFile \/ Bounded(tmp))
    /\ wr \in [Writers -> Requests]
    /\ \A p \in Writers : wr[p].pc = "read" => Bounded(wr[p].list)

MfInv ==
    /\ MfTypes
    /\ ~robbed => promised \subseteq IdsOf(memfile) /\ \A p \in Writers : WriterOK(p)

ItemRows == [of : Nat, tomb : BOOLEAN, root : Nat, pinned : BOOLEAN]
Changes == {"replace", "remove"} \X Nat

\* An item supersedes one that is there, and comes from one.
ItemsOK ==
    /\ items \in Seq(ItemRows)
    /\ \A i \in Ids : items[i].of \in Ids \cup {None} /\ items[i].root \in Ids

\* A memory has one head.
HeadsOK == \A i, k \in Ids : Active(i) /\ Active(k) /\ items[i].root = items[k].root => i = k

Works == [pc : {"idle", "write", "next", "record", "capture"}, kind : {"none", "supersede", "reject", "merge"},
          cand : Nat, conf : Nat, todo : Seq(Changes), result : Nat, pins : SUBSET Nat, stale : BOOLEAN]

Merged(d) == ~Active(d.cand) /\ d.result \in Ids /\ items[d.result].of = d.cand

\* How far a decision has been carried out: what it has still to change, the rest is done.
CarriedOut(w) ==
    /\ w.cand \in Ids /\ w.conf \in Ids /\ w.cand # w.conf
    /\ w.kind \in {"supersede", "reject", "merge"}
    /\ w.pc = "record" <=> w.todo = <<>>
    /\ w.kind = "supersede" => w.todo = << <<"remove", w.conf>> >> \/ (w.todo = <<>> /\ ~Active(w.conf))
    /\ w.kind = "reject" => w.todo = << <<"remove", w.cand>> >> \/ (w.todo = <<>> /\ ~Active(w.cand))
    /\ w.kind = "merge" =>
          \/ w.todo = << <<"replace", w.cand>>, <<"remove", w.conf>> >>
          \/ Merged(w) /\ (w.todo = << <<"remove", w.conf>> >> \/ (w.todo = <<>> /\ ~Active(w.conf)))

UserOK(w) ==
    /\ w.pc = "write" /\ w.kind = "none" => \E i \in Ids, k \in {"replace", "remove"} : w.todo = << <<k, i>> >>
    /\ w.pc \in {"next", "record"} \/ (w.pc = "write" /\ w.kind # "none") => CarriedOut(w)
    /\ w.pc = "capture" => w.stale = FALSE /\ Cardinality(w.pins) <= PinnedBudget

DecisionOK(d) ==
    /\ d.cand \in Ids /\ d.conf \in Ids
    /\ d.kind # "reject" => ~Active(d.conf)
    /\ d.kind # "supersede" => ~Active(d.cand)
    /\ d.kind = "merge" => Merged(d)

MiInv ==
    /\ ItemsOK /\ raced \in BOOLEAN /\ (~raced => HeadsOK)
    /\ us \in [Users -> Works] /\ \A u \in Users : UserOK(us[u])
    /\ \A d \in decided : DecisionOK(d)
    /\ snaps \in Seq([pins : SUBSET Nat, stale : BOOLEAN]) /\ SnapshotsAreCurrent

-----------------------------------------------------------------------------
(* Memory: lists of entries *)

\* A list without one of its entries, place by place.
LEMMA RemovedList ==
    ASSUME NEW l \in Seq(Entries), NEW at \in 1..Len(l)
    PROVE  /\ RemoveAt(l, at) \in Seq(Entries) /\ Len(RemoveAt(l, at)) = Len(l) - 1
           /\ \A i \in 1..(Len(l) - 1) : RemoveAt(l, at)[i] = l[IF i < at THEN i ELSE i + 1]
<1> DEFINE front == SubSeq(l, 1, at - 1)
           back == SubSeq(l, at + 1, Len(l))
<1>1. Len(l) \in Nat /\ at \in Nat /\ 1 <= at /\ at <= Len(l)
  OBVIOUS
<1>2. front \in Seq(Entries) /\ Len(front) = at - 1 /\ \A i \in 1..(at - 1) : front[i] = l[i]
  BY <1>1
<1>3. /\ back \in Seq(Entries) /\ Len(back) = Len(l) - at
      /\ \A i \in 1..(Len(l) - at) : back[i] = l[i + at]
  <2>1. CASE at = Len(l)
    BY <1>1, <2>1
  <2>2. CASE at < Len(l)
    BY <1>1, <2>2
  <2> QED BY <1>1, <2>1, <2>2
<1> HIDE DEF front, back
<1>4. front \o back \in Seq(Entries) /\ Len(front \o back) = Len(l) - 1
  <2>1. front \o back \in Seq(Entries) /\ Len(front \o back) = Len(front) + Len(back)
    <3>1. front \in Seq(Entries) /\ back \in Seq(Entries)
      BY <1>2, <1>3
    <3> QED BY <3>1
  <2> QED BY <1>1, <1>2, <1>3, <2>1
<1>5. ASSUME NEW i \in 1..(Len(l) - 1)
      PROVE  (front \o back)[i] = l[IF i < at THEN i ELSE i + 1]
  <2>1. CASE i < at
    <3>1. i \in 1..Len(front)
      BY <1>1, <1>2, <2>1
    <3> QED BY <1>1, <1>2, <1>3, <2>1, <3>1
  <2>2. CASE ~(i < at)
    <3>1. /\ i - Len(front) \in 1..(Len(l) - at) /\ i > Len(front) /\ i \in 1..(Len(front) + Len(back))
          /\ (i - Len(front)) + at = i + 1
      BY <1>1, <1>2, <1>3, <2>2
    <3>2. (front \o back)[i] = back[i - Len(front)]
      BY <1>2, <1>3, <3>1
    <3> QED BY <1>3, <2>2, <3>1, <3>2
  <2> QED BY <2>1, <2>2
<1>6. RemoveAt(l, at) = front \o back
  BY DEF RemoveAt, front, back
<1> QED BY <1>4, <1>5, <1>6

\* Without one of its entries a list is no longer than it was, and has the ids of the others.
LEMMA RemovedIsBounded ==
    ASSUME NEW l, Bounded(l), NEW at \in 1..Len(l)
    PROVE  Bounded(RemoveAt(l, at)) /\ IdsOf(l) \ {l[at].id} \subseteq IdsOf(RemoveAt(l, at))
<1> DEFINE r == RemoveAt(l, at)
           n == Len(l)
           big == [i \in DOMAIN l |-> Cardinality(l[i].text)]
           small == [i \in DOMAIN r |-> Cardinality(r[i].text)]
           h == [i \in 1..(n - 1) |-> IF i < at THEN i ELSE i + 1]
<1>1. l \in Seq(Entries) /\ n \in Nat /\ n <= MaxEntries
  BY DEF Bounded
<1>2. /\ r \in Seq(Entries) /\ Len(r) = n - 1
      /\ \A i \in 1..(n - 1) : r[i] = l[IF i < at THEN i ELSE i + 1]
  <2> HIDE DEF r
  <2>1. /\ RemoveAt(l, at) \in Seq(Entries) /\ Len(RemoveAt(l, at)) = Len(l) - 1
        /\ \A i \in 1..(Len(l) - 1) : RemoveAt(l, at)[i] = l[IF i < at THEN i ELSE i + 1]
    BY <1>1, RemovedList
  <2> QED BY <2>1 DEF r
<1> HIDE DEF r
<1>3. DOMAIN l = 1..n /\ DOMAIN r = 1..(n - 1)
  BY <1>1, <1>2
<1>4. IsFiniteSet(1..n) /\ IsFiniteSet(1..(n - 1)) /\ at \in Nat /\ 1 <= at /\ at <= n
  BY <1>1, FS_Interval
<1>5. \A i \in 1..n : big[i] = Cardinality(l[i].text) /\ big[i] \in Nat
  <2>1. \A i \in 1..n : l[i] \in Entries
    BY <1>1
  <2> QED BY <1>3, <2>1, MemoryAssumption, FS_CardinalityType DEF Entries
<1>6. \A i \in 1..(n - 1) : h[i] \in 1..n /\ h[i] = IF i < at THEN i ELSE i + 1
  BY <1>1, <1>4
<1>7. \A i \in 1..(n - 1) : small[i] = big[h[i]] /\ small[i] \in Nat
  BY <1>2, <1>3, <1>5, <1>6
<1>8. \A i, j \in 1..(n - 1) : h[i] = h[j] => i = j
  BY <1>1, <1>4, <1>6
<1> HIDE DEF h, big, small
<1>9. Counts(small, 1..(n - 1)) /\ Counts(big, 1..n)
  BY <1>5, <1>7 DEF Counts
<1> DEFINE image == {h[x] : x \in 1..(n - 1)}
<1>10. SumFunctionOnSet(small, 1..(n - 1)) = SumFunctionOnSet(big, image)
  <2> DEFINE S == 1..(n - 1)
             T == 1..n
  <2>1. /\ IsFiniteSet(S) /\ IsFiniteSet(T) /\ Counts(small, S) /\ Counts(big, T)
        /\ \A x \in S : h[x] \in T /\ big[h[x]] = small[x]
        /\ \A x, y \in S : h[x] = h[y] => x = y
    BY <1>4, <1>6, <1>7, <1>8, <1>9
  <2> HIDE DEF S, T
  <2>2. SumFunctionOnSet(small, S) = SumFunctionOnSet(big, {h[x] : x \in S})
    BY <2>1, SumMoves
  <2> QED BY <2>2 DEF S
<1>11. image \subseteq 1..n
  BY <1>6
<1>12. SumFunctionOnSet(big, image) <= SumFunctionOnSet(big, 1..n)
  <2> HIDE DEF image
  <2> DEFINE places == 1..n
  <2>1. IsFiniteSet(places) /\ Counts(big, places) /\ image \subseteq places
    BY <1>4, <1>9, <1>11
  <2> HIDE DEF places
  <2>2. SumFunctionOnSet(big, places) = SumFunctionOnSet(big, image) + SumFunctionOnSet(big, places \ image)
    BY <2>1, SumSplits
  <2>3. /\ IsFiniteSet(image) /\ IsFiniteSet(places \ image)
        /\ Counts(big, image) /\ Counts(big, places \ image)
    BY <2>1, FS_Subset DEF Counts
  <2>4. SumFunctionOnSet(big, image) \in Nat /\ SumFunctionOnSet(big, places \ image) \in Nat
    BY <2>3, SumIsNumber
  <2> QED BY <2>2, <2>4 DEF places
<1>13. /\ TotalWords(l) = SumFunctionOnSet(big, 1..n)
       /\ TotalWords(r) = SumFunctionOnSet(small, 1..(n - 1))
  BY <1>3 DEF TotalWords, SumFunction, big, small
<1>14. SumFunctionOnSet(big, 1..n) \in Nat /\ SumFunctionOnSet(big, image) \in Nat
  <2>1. IsFiniteSet(image) /\ Counts(big, image)
    BY <1>4, <1>9, <1>11, FS_Subset DEF Counts
  <2> QED BY <1>4, <1>9, <2>1, SumIsNumber
<1>15. TotalWords(r) <= CharLimit
  <2>1. TotalWords(l) <= CharLimit
    BY DEF Bounded
  <2> HIDE DEF image
  <2> QED BY <1>10, <1>12, <1>13, <1>14, <2>1, MemoryAssumption
<1>16. Bounded(r)
  BY <1>1, <1>2, <1>15, MemoryAssumption DEF Bounded
<1>17. ASSUME NEW i \in 1..n, l[i].id # l[at].id
       PROVE  \E k \in 1..Len(r) : r[k].id = l[i].id
  <2>1. i # at /\ i \in Nat
    BY <1>17
  <2> DEFINE k == IF i < at THEN i ELSE i - 1
  <2>2. k \in 1..(n - 1) /\ (IF k < at THEN k ELSE k + 1) = i
    BY <1>1, <1>4, <2>1
  <2>3. r[k] = l[i]
    BY <1>2, <2>2
  <2> QED BY <1>2, <2>2, <2>3
<1>18. IdsOf(l) \ {l[at].id} \subseteq IdsOf(r)
  BY <1>17 DEF IdsOf
<1> QED BY <1>16, <1>18 DEF r

\* No words are in no list.
LEMMA NothingIsBounded == Bounded(<<>>)
<1> DEFINE none == [i \in DOMAIN <<>> |-> Cardinality(<<>>[i].text)]
<1>1. DOMAIN none = {}
  OBVIOUS
<1>2. SumFunction(none) = 0
  <2> HIDE DEF none
  <2> QED BY <1>1, FS_EmptySet, SumUnfolds DEF SumFunction
<1>3. TotalWords(<<>>) = 0
  BY <1>2 DEF TotalWords
<1> QED BY <1>3, MemoryAssumption DEF Bounded

\* The words of a list are counted.
LEMMA WordsAreCounted ==
    ASSUME NEW l \in Seq(Entries)
    PROVE  TotalWords(l) \in Nat
<1> DEFINE n == Len(l)
           g == [i \in DOMAIN l |-> Cardinality(l[i].text)]
<1>1. n \in Nat /\ DOMAIN l = 1..n /\ \A i \in 1..n : l[i] \in Entries
  OBVIOUS
<1>2. \A i \in 1..n : g[i] \in Nat
  BY <1>1, MemoryAssumption, FS_CardinalityType DEF Entries
<1>3. IsFiniteSet(1..n) /\ DOMAIN g = 1..n
  BY <1>1, FS_Interval
<1> HIDE DEF g, n
<1>4. SumFunctionOnSet(g, 1..n) \in Nat
  BY <1>2, <1>3, SumIsNumber DEF Counts
<1> QED BY <1>3, <1>4 DEF TotalWords, SumFunction, g

-----------------------------------------------------------------------------
(* Memory: what a request makes of the list *)

\* What a request leaves is refused or within the bounds, and has the ids it owes.
Answers(r, op, list) ==
    /\ r.list \in Seq(Entries) /\ r.id \in Nat
    /\ r.id # 0 => /\ Bounded(r.list)
                   /\ IF op = "remove" THEN IdsOf(list) \ {r.id} \subseteq IdsOf(r.list)
                      ELSE IdsOf(list) \cup {r.id} \subseteq IdsOf(r.list)

LEMMA RefusalAnswers ==
    ASSUME NEW op, NEW list
    PROVE  Answers(Keep(list), op, list)
  BY DEF Answers, Keep

LEMMA AddAnswers ==
    ASSUME NEW list, Bounded(list), NEW text \in Texts, made \in Nat
    PROVE  Answers(AddTo(list, text), "add", list)
<1> DEFINE e == [id |-> made + 1, text |-> text]
           new == Append(list, e)
           refused == \/ \E i \in 1..Len(list) : list[i].text = text
                      \/ Len(list) >= MaxEntries \/ TotalWords(new) > CharLimit
<1>1. CASE refused
  BY <1>1, RefusalAnswers DEF AddTo
<1>2. CASE ~refused
  <2>1. list \in Seq(Entries) /\ Len(list) \in Nat /\ e \in Entries
    BY DEF Bounded, Entries
  <2>2. /\ new \in Seq(Entries) /\ Len(new) = Len(list) + 1 /\ new[Len(list) + 1] = e
        /\ \A i \in 1..Len(list) : new[i] = list[i]
    BY <2>1
  <2>3. TotalWords(new) \in Nat
    <3> HIDE DEF new
    <3> QED BY <2>2, WordsAreCounted
  <2>4. AddTo(list, text) = [list |-> new, id |-> made + 1]
    BY <1>2 DEF AddTo
  <2> HIDE DEF new
  <2>5. ~(Len(list) >= MaxEntries) /\ ~(TotalWords(new) > CharLimit)
    BY <1>2
  <2>6. Bounded(new)
    BY <2>1, <2>2, <2>3, <2>5, MemoryAssumption DEF Bounded
  <2>7. IdsOf(list) \cup {made + 1} \subseteq IdsOf(new)
    <3>1. Len(list) + 1 \in 1..Len(new) /\ \A i \in 1..Len(list) : i \in 1..Len(new)
      BY <2>1, <2>2
    <3>2. made + 1 \in IdsOf(new)
      BY <2>2, <3>1 DEF IdsOf
    <3>3. IdsOf(list) \subseteq IdsOf(new)
      BY <2>2, <3>1 DEF IdsOf
    <3> QED BY <3>2, <3>3
  <2> QED BY <2>2, <2>4, <2>6, <2>7 DEF Answers
<1> QED BY <1>1, <1>2

\* One entry that matches is one of the list.
LEMMA TheMatch ==
    ASSUME NEW list, NEW text, Cardinality(Matches(list, text)) = 1
    PROVE  (CHOOSE i \in Matches(list, text) : TRUE) \in 1..Len(list)
<1>1. Matches(list, text) # {}
  BY FS_EmptySet
<1> QED BY <1>1 DEF Matches

LEMMA ReplaceAnswers ==
    ASSUME NEW list, Bounded(list), NEW text \in Texts, NEW new \in Texts
    PROVE  Answers(ReplaceIn(list, text, new), "replace", list)
<1> DEFINE at == CHOOSE i \in Matches(list, text) : TRUE
           after == [list EXCEPT ![at].text = new]
           refused == Cardinality(Matches(list, text)) # 1 \/ TotalWords(after) > CharLimit
<1>1. CASE refused
  BY <1>1, RefusalAnswers DEF ReplaceIn
<1>2. CASE ~refused
  <2>1. list \in Seq(Entries) /\ Len(list) \in Nat /\ DOMAIN list = 1..Len(list)
    BY DEF Bounded
  <2>2. at \in 1..Len(list)
    BY <1>2, TheMatch
  <2>3. ReplaceIn(list, text, new) = [list |-> after, id |-> list[at].id]
    BY <1>2 DEF ReplaceIn
  <2>4. ~(TotalWords(after) > CharLimit)
    BY <1>2
  <2> HIDE DEF at
  <2>5. list[at] \in Entries /\ [list[at] EXCEPT !.text = new] \in Entries
        /\ [list[at] EXCEPT !.text = new].id = list[at].id
    <3>1. list[at] \in Entries
      BY <2>1, <2>2
    <3> QED BY <3>1 DEF Entries
  <2>6. /\ after \in Seq(Entries) /\ Len(after) = Len(list)
        /\ \A i \in 1..Len(list) : after[i].id = list[i].id
    <3>1. after = [list EXCEPT ![at] = [list[at] EXCEPT !.text = new]]
      BY <2>1, <2>2
    <3> HIDE DEF after
    <3> QED BY <2>1, <2>2, <2>5, <3>1
  <2> HIDE DEF after
  <2>7. TotalWords(after) \in Nat
    BY <2>6, WordsAreCounted
  <2>8. Bounded(after)
    BY <2>4, <2>6, <2>7, MemoryAssumption DEF Bounded
  <2>9. IdsOf(list) \cup {list[at].id} \subseteq IdsOf(after)
    BY <2>2, <2>6 DEF IdsOf
  <2>10. list[at].id \in Nat
    BY <2>5 DEF Entries
  <2> QED BY <2>3, <2>6, <2>8, <2>9, <2>10 DEF Answers
<1> QED BY <1>1, <1>2

LEMMA RemoveAnswers ==
    ASSUME NEW list, Bounded(list), NEW text \in Texts
    PROVE  Answers(RemoveFrom(list, text), "remove", list)
<1> DEFINE at == CHOOSE i \in Matches(list, text) : TRUE
<1>1. CASE Cardinality(Matches(list, text)) # 1
  BY <1>1, RefusalAnswers DEF RemoveFrom
<1>2. CASE Cardinality(Matches(list, text)) = 1
  <2>1. at \in 1..Len(list)
    BY <1>2, TheMatch
  <2>2. RemoveFrom(list, text) = [list |-> RemoveAt(list, at), id |-> list[at].id]
    BY <1>2 DEF RemoveFrom
  <2> HIDE DEF at
  <2>3. Bounded(RemoveAt(list, at)) /\ IdsOf(list) \ {list[at].id} \subseteq IdsOf(RemoveAt(list, at))
    BY <2>1, RemovedIsBounded
  <2>4. list[at].id \in Nat
    <3>1. list[at] \in Entries
      BY <2>1 DEF Bounded
    <3> QED BY <3>1 DEF Entries
  <2>5. RemoveAt(list, at) \in Seq(Entries)
    BY <2>3 DEF Bounded
  <2> QED BY <2>2, <2>3, <2>4, <2>5 DEF Answers
<1> QED BY <1>1, <1>2

-----------------------------------------------------------------------------
(* Memory: every step keeps the invariant of the file *)

\* A step of the lock: one process goes on, with nothing read or written in its hand.
LEMMA LockStepKeeps ==
    ASSUME MfInv, NEW p \in Writers, NEW w \in Requests, w.pc \notin {"read", "temp"},
           wr' = [wr EXCEPT ![p] = w], UNCHANGED <<tmp, memfile, promised, made>>,
           lock' \in [by : Writers \cup {Nobody}, old : BOOLEAN],
           robbed' \in BOOLEAN, robbed => robbed',
           ~robbed' => \A q \in Writers : wr'[q].pc \in Holding => lock'.by = q
    PROVE  MfInv'
<1>1. wr' \in [Writers -> Requests] /\ \A q \in Writers : wr'[q] = IF q = p THEN w ELSE wr[q]
  BY DEF MfInv, MfTypes
<1>2. MfTypes'
  BY <1>1 DEF MfInv, MfTypes, Bounded
<1>3. ASSUME ~robbed', NEW q \in Writers
      PROVE  WriterOK(q)'
  <2>1. CASE q = p
    BY <1>1, <1>3, <2>1 DEF WriterOK
  <2>2. CASE q # p
    <3>1. WriterOK(q) /\ wr'[q] = wr[q]
      BY <1>1, <1>3, <2>2 DEF MfInv
    <3> QED BY <1>3, <3>1 DEF WriterOK, Owed, IdsOf
  <2> QED BY <2>1, <2>2
<1>4. ~robbed' => (promised \subseteq IdsOf(memfile))'
  BY DEF MfInv, IdsOf
<1> QED BY <1>2, <1>3, <1>4 DEF MfInv

\* Where a process is in its call is one field of its record.
LEMMA StepIs ==
    ASSUME MfTypes, NEW p \in Writers, NEW c \in {"want", "break", "locked", "idle", "unlock"}, Step(p, c)
    PROVE  \E w \in Requests : w.pc = c /\ wr' = [wr EXCEPT ![p] = w]
<1> DEFINE w == [wr[p] EXCEPT !.pc = c]
<1>1. w \in Requests /\ w.pc = c
  BY DEF MfTypes, Requests
<1>2. wr' = [wr EXCEPT ![p] = w]
  BY DEF Step, MfTypes
<1> QED BY <1>1, <1>2

LEMMA LockKeeps ==
    ASSUME MfInv, NEW p \in Writers,
           AskWrite(p) \/ TakeLock(p) \/ SeeOld(p) \/ BreakLock(p) \/ LockTimesOut(p) \/ Unlock(p) \/ DieWriting(p)
    PROVE  MfInv'
<1>1. /\ MfTypes /\ lock \in [by : Writers \cup {Nobody}, old : BOOLEAN] /\ robbed \in BOOLEAN
      /\ wr \in [Writers -> Requests] /\ Nobody \notin Writers
      /\ ~robbed => \A q \in Writers : wr[q].pc \in Holding => lock.by = q
  BY MemoryAssumption DEF MfInv, MfTypes, WriterOK
<1>2. Resting \in Requests /\ Resting.pc = "idle"
  BY DEF Resting, Requests
<1>3. Unlocked \in [by : Writers \cup {Nobody}, old : BOOLEAN] /\ Unlocked.by = Nobody
  BY DEF Unlocked
<1>4. CASE AskWrite(p) \/ SeeOld(p) \/ LockTimesOut(p)
  <2>1. PICK c \in {"want", "break", "idle"} : Step(p, c) /\ UNCHANGED <<lock, tmp, memfile, promised, robbed, made>>
    BY <1>4 DEF AskWrite, SeeOld, LockTimesOut
  <2>2. PICK w \in Requests : w.pc = c /\ wr' = [wr EXCEPT ![p] = w]
    BY <1>1, <2>1, StepIs
  <2>3. ~robbed' => \A q \in Writers : wr'[q].pc \in Holding => lock'.by = q
    BY <1>1, <2>1, <2>2 DEF Holding
  <2> QED BY <1>1, <2>1, <2>2, <2>3, LockStepKeeps
<1>5. CASE TakeLock(p)
  <2>1. /\ Step(p, "locked") /\ UNCHANGED <<tmp, memfile, promised, robbed, made>>
        /\ lock.by = Nobody /\ lock' = [by |-> p, old |-> FALSE]
    BY <1>5 DEF TakeLock
  <2>2. PICK w \in Requests : w.pc = "locked" /\ wr' = [wr EXCEPT ![p] = w]
    BY <1>1, <2>1, StepIs
  <2>3. ~robbed' => \A q \in Writers : wr'[q].pc \in Holding => lock'.by = q
    BY <1>1, <2>1, <2>2
  <2>4. lock' \in [by : Writers \cup {Nobody}, old : BOOLEAN]
    BY <2>1
  <2> QED BY <1>1, <2>1, <2>2, <2>3, <2>4, LockStepKeeps
<1>6. CASE BreakLock(p)
  <2>1. /\ Step(p, "want") /\ UNCHANGED <<tmp, memfile, promised, made>>
        /\ RobbedBy(p) /\ lock' = Unlocked /\ wr[p].pc = "break"
    BY <1>6 DEF BreakLock
  <2>2. PICK w \in Requests : w.pc = "want" /\ wr' = [wr EXCEPT ![p] = w]
    BY <1>1, <2>1, StepIs
  <2>3. ~robbed' => \A q \in Writers : wr'[q].pc \in Holding => lock'.by = q
    BY <1>1, <2>1, <2>2 DEF RobbedBy, Holding
  <2>4. robbed' \in BOOLEAN /\ (robbed => robbed')
    BY <1>1, <2>1 DEF RobbedBy
  <2> QED BY <1>1, <1>3, <2>1, <2>2, <2>3, <2>4, LockStepKeeps
<1>7. CASE Unlock(p)
  <2>1. /\ wr' = [wr EXCEPT ![p] = Resting] /\ UNCHANGED <<tmp, memfile, promised, made>>
        /\ RobbedBy(p) /\ lock' = Unlocked /\ wr[p].pc = "unlock"
    BY <1>7 DEF Unlock
  <2>2. ~robbed' => \A q \in Writers : wr'[q].pc \in Holding => lock'.by = q
    BY <1>1, <1>2, <2>1 DEF RobbedBy, Holding
  <2>3. robbed' \in BOOLEAN /\ (robbed => robbed')
    BY <1>1, <2>1 DEF RobbedBy
  <2> QED BY <1>1, <1>2, <1>3, <2>1, <2>2, <2>3, LockStepKeeps
<1>8. CASE DieWriting(p)
  <2>1. wr' = [wr EXCEPT ![p] = Resting] /\ UNCHANGED <<lock, tmp, memfile, promised, robbed, made>>
    BY <1>8 DEF DieWriting
  <2>2. ~robbed' => \A q \in Writers : wr'[q].pc \in Holding => lock'.by = q
    BY <1>1, <1>2, <2>1 DEF Holding
  <2> QED BY <1>1, <1>2, <2>1, <2>2, LockStepKeeps
<1> QED BY <1>4, <1>5, <1>6, <1>7, <1>8

\* A request is carried out on the list that is read.
LEMMA ReadKeeps ==
    ASSUME MfInv, NEW p \in Writers, ReadMemory(p)
    PROVE  MfInv'
<1>1. PICK op \in {"add", "replace", "remove"}, text \in Texts, new \in Texts :
        LET r == CASE op = "add" -> AddTo(memfile, text)
                   [] op = "replace" -> ReplaceIn(memfile, text, new)
                   [] OTHER -> RemoveFrom(memfile, text)
        IN /\ op # "replace" => new = text
           /\ made' = IF op = "add" /\ r.id # 0 THEN made + 1 ELSE made
           /\ made' <= MaxEntryId
           /\ wr' = [wr EXCEPT ![p] = [pc |-> IF r.id = 0 THEN "unlock" ELSE "read",
                                       op |-> op, list |-> r.list, id |-> r.id]]
  BY DEF ReadMemory
<1> DEFINE r == CASE op = "add" -> AddTo(memfile, text)
                  [] op = "replace" -> ReplaceIn(memfile, text, new)
                  [] OTHER -> RemoveFrom(memfile, text)
           w == [pc |-> IF r.id = 0 THEN "unlock" ELSE "read", op |-> op, list |-> r.list, id |-> r.id]
<1>2. Bounded(memfile) /\ made \in Nat /\ wr \in [Writers -> Requests]
  BY DEF MfInv, MfTypes
<1>3. Answers(r, op, memfile)
  <2>1. CASE op = "add"
    BY <1>2, <2>1, AddAnswers
  <2>2. CASE op = "replace"
    BY <1>2, <2>2, ReplaceAnswers
  <2>3. CASE op = "remove"
    BY <1>2, <2>3, RemoveAnswers
  <2> QED BY <2>1, <2>2, <2>3
<1> HIDE DEF r
<1>4. /\ wr[p].pc = "locked" /\ UNCHANGED <<lock, tmp, memfile, promised, robbed>>
      /\ made' = IF op = "add" /\ r.id # 0 THEN made + 1 ELSE made
      /\ wr' = [wr EXCEPT ![p] = w]
  BY <1>1 DEF ReadMemory, r
<1>5. w \in Requests /\ w.op = op /\ w.list = r.list /\ w.id = r.id /\ w.pc = IF r.id = 0 THEN "unlock" ELSE "read"
  BY <1>3 DEF Answers, Requests
<1> HIDE DEF w
<1>6. wr' \in [Writers -> Requests] /\ \A q \in Writers : wr'[q] = IF q = p THEN w ELSE wr[q]
  BY <1>2, <1>4, <1>5
<1>7. MfTypes'
  <2>1. \A q \in Writers : wr'[q].pc = "read" => Bounded(wr'[q].list)
    BY <1>3, <1>5, <1>6 DEF MfInv, MfTypes, Answers
  <2>2. made' \in Nat
    BY <1>2, <1>4
  <2> QED BY <1>4, <1>6, <2>1, <2>2 DEF MfInv, MfTypes, Bounded
<1>8. ASSUME ~robbed'
      PROVE  (promised \subseteq IdsOf(memfile))' /\ \A q \in Writers : WriterOK(q)'
  <2>1. promised \subseteq IdsOf(memfile) /\ \A q \in Writers : WriterOK(q)
    BY <1>4, <1>8 DEF MfInv
  <2>2. (promised \subseteq IdsOf(memfile))'
    BY <1>4, <2>1 DEF IdsOf
  <2>3. WriterOK(p)'
    <3>1. w.pc # "temp" /\ lock'.by = p
      BY <1>4, <1>5, <2>1 DEF WriterOK, Holding
    <3>2. w.pc = "read" => Owed(w) \subseteq IdsOf(w.list)
      BY <1>3, <1>5, <2>1 DEF Owed, Answers
    <3> QED BY <1>4, <1>6, <3>1, <3>2 DEF WriterOK, Owed, IdsOf
  <2>4. ASSUME NEW q \in Writers, q # p
        PROVE  WriterOK(q)'
    <3>1. wr'[q] = wr[q] /\ WriterOK(q)
      BY <1>6, <2>1, <2>4
    <3> QED BY <1>4, <3>1 DEF WriterOK, Owed, IdsOf
  <2> QED BY <2>2, <2>3, <2>4
<1> QED BY <1>7, <1>8 DEF MfInv

\* The new list is written to the temporary file.
LEMMA WriteTempKeeps ==
    ASSUME MfInv, NEW p \in Writers, WriteTemp(p)
    PROVE  MfInv'
<1> DEFINE w == [wr[p] EXCEPT !.pc = "temp", !.list = <<>>]
<1>1. /\ wr \in [Writers -> Requests] /\ wr[p] \in Requests /\ Bounded(wr[p].list)
      /\ wr[p].pc = "read" /\ UNCHANGED <<lock, memfile, promised, robbed, made>> /\ tmp' = wr[p].list
  BY DEF MfInv, MfTypes, WriteTemp
<1>2. wr' = [wr EXCEPT ![p] = w]
  BY <1>1 DEF WriteTemp
<1>3. w \in Requests /\ w.pc = "temp" /\ w.op = wr[p].op /\ w.id = wr[p].id
  <2> DEFINE v == [wr[p] EXCEPT !.pc = "temp"]
  <2>1. v \in Requests /\ v.pc = "temp" /\ v.op = wr[p].op /\ v.id = wr[p].id
    BY <1>1 DEF Requests
  <2>2. w = [v EXCEPT !.list = <<>>]
    OBVIOUS
  <2>3. <<>> \in Seq(Entries)
    OBVIOUS
  <2> HIDE DEF v, w
  <2> QED BY <2>1, <2>2, <2>3 DEF Requests
<1> HIDE DEF w
<1>4. wr' \in [Writers -> Requests] /\ \A q \in Writers : wr'[q] = IF q = p THEN w ELSE wr[q]
  BY <1>1, <1>2, <1>3
<1>5. MfTypes'
  BY <1>1, <1>3, <1>4 DEF MfInv, MfTypes, Bounded
<1>6. ASSUME ~robbed'
      PROVE  (promised \subseteq IdsOf(memfile))' /\ \A q \in Writers : WriterOK(q)'
  <2>1. promised \subseteq IdsOf(memfile) /\ \A q \in Writers : WriterOK(q)
    BY <1>1, <1>6 DEF MfInv
  <2>2. lock.by = p /\ Owed(wr[p]) \subseteq IdsOf(wr[p].list)
    BY <1>1, <2>1 DEF WriterOK, Holding
  <2>3. WriterOK(p)'
    <3>1. (Owed(wr[p]))' \subseteq (IdsOf(tmp))'
      <4>1. wr'[p].op = wr[p].op /\ wr'[p].id = wr[p].id
        BY <1>3, <1>4
      <4>2. (Owed(wr[p]))' = Owed(wr[p])
        BY <1>1, <4>1 DEF Owed
      <4>3. (IdsOf(tmp))' = IdsOf(wr[p].list)
        BY <1>1 DEF IdsOf
      <4> QED BY <2>2, <4>2, <4>3
    <3>2. wr'[p].pc = "temp" /\ lock'.by = p
      BY <1>1, <1>3, <1>4, <2>2
    <3> QED BY <3>1, <3>2 DEF WriterOK
  <2>4. ASSUME NEW q \in Writers, q # p
        PROVE  WriterOK(q)'
    <3>1. wr'[q] = wr[q] /\ wr[q].pc \notin Holding
      BY <1>4, <2>1, <2>2, <2>4 DEF WriterOK
    <3> QED BY <3>1 DEF WriterOK, Holding
  <2> QED BY <1>1, <2>1, <2>3, <2>4 DEF IdsOf
<1> QED BY <1>5, <1>6 DEF MfInv

\* The temporary file takes the place of the memory file.
LEMMA RenameKeeps ==
    ASSUME MfInv, NEW p \in Writers, RenameTemp(p)
    PROVE  MfInv'
<1>1. /\ wr \in [Writers -> Requests] /\ MfTypes /\ wr[p].pc = "temp"
      /\ Step(p, "unlock") /\ UNCHANGED <<lock, robbed, made>>
  BY DEF MfInv, MfTypes, RenameTemp
<1>2. PICK w \in Requests : w.pc = "unlock" /\ wr' = [wr EXCEPT ![p] = w]
  BY <1>1, StepIs
<1>3. wr' \in [Writers -> Requests] /\ \A q \in Writers : wr'[q] = IF q = p THEN w ELSE wr[q]
  BY <1>1, <1>2
<1>4. \/ UNCHANGED <<tmp, memfile, promised>>
      \/ tmp # NoFile /\ memfile' = tmp /\ tmp' = NoFile /\ promised' = Owed(wr[p])
  BY DEF RenameTemp, Owed
<1>5. MfTypes'
  <2>1. Bounded(memfile)' /\ (tmp' = NoFile \/ Bounded(tmp)')
    BY <1>4 DEF MfInv, MfTypes, Bounded
  <2>2. \A q \in Writers : wr'[q].pc = "read" => Bounded(wr'[q].list)
    BY <1>2, <1>3 DEF MfInv, MfTypes
  <2> QED BY <1>1, <1>3, <2>1, <2>2 DEF MfTypes, Bounded
<1>6. ASSUME ~robbed'
      PROVE  (promised \subseteq IdsOf(memfile))' /\ \A q \in Writers : WriterOK(q)'
  <2>1. promised \subseteq IdsOf(memfile) /\ \A q \in Writers : WriterOK(q)
    BY <1>1, <1>6 DEF MfInv
  <2>2. lock.by = p /\ (tmp = NoFile \/ Owed(wr[p]) \subseteq IdsOf(tmp))
    BY <1>1, <2>1 DEF WriterOK, Holding
  <2>3. (promised \subseteq IdsOf(memfile))'
    BY <1>4, <2>1, <2>2 DEF IdsOf
  <2>4. WriterOK(p)'
    BY <1>2, <1>3 DEF WriterOK, Holding
  <2>5. ASSUME NEW q \in Writers, q # p
        PROVE  WriterOK(q)'
    <3>1. wr'[q] = wr[q] /\ wr[q].pc \notin Holding
      BY <1>3, <2>1, <2>2, <2>5 DEF WriterOK
    <3> QED BY <3>1 DEF WriterOK, Holding
  <2> QED BY <2>3, <2>4, <2>5
<1> QED BY <1>5, <1>6 DEF MfInv

\* Time passes over the lock file, or nothing happens.
LEMMA AgeKeeps ==
    ASSUME MfInv, LockAges \/ UNCHANGED mfVars
    PROVE  MfInv'
<1>1. /\ UNCHANGED <<tmp, memfile, wr, promised, robbed, made>>
      /\ lock' \in [by : Writers \cup {Nobody}, old : BOOLEAN] /\ lock'.by = lock.by
  BY DEF MfInv, MfTypes, LockAges, mfVars
<1>2. MfTypes'
  BY <1>1 DEF MfInv, MfTypes, Bounded
<1>3. ASSUME NEW q \in Writers, WriterOK(q) PROVE WriterOK(q)'
  BY <1>1, <1>3 DEF WriterOK, Owed, IdsOf
<1>4. promised \subseteq IdsOf(memfile) => (promised \subseteq IdsOf(memfile))'
  BY <1>1 DEF IdsOf
<1> QED BY <1>1, <1>2, <1>3, <1>4 DEF MfInv

\* The invariant gives what the file promises.
LEMMA FileIsSound ==
    ASSUME MfInv
    PROVE  MemoryFileSound
<1>1. OneWriter
  <2>1. SUFFICES ASSUME ~robbed PROVE Cardinality({p \in Writers : wr[p].pc \in Holding}) <= 1
    BY DEF OneWriter
  <2> DEFINE holders == {p \in Writers : wr[p].pc \in Holding}
  <2>2. holders \in SUBSET {lock.by}
    BY <2>1 DEF MfInv, WriterOK
  <2> HIDE DEF holders
  <2>3. Cardinality(holders) <= Cardinality({lock.by}) /\ Cardinality({lock.by}) = 1
    BY <2>2, FS_Subset, FS_Singleton
  <2> QED BY <2>3 DEF holders
<1>2. PromisesKept /\ MemoryBounded
  BY DEF MfInv, MfTypes, Bounded, IdsOf, PromisesKept, MemoryBounded
<1> QED BY <1>1, <1>2 DEF MemoryFileSound

\* MfInv is an invariant, for any writers, texts, limits and deaths.
THEOREM MemoryFileInvariant == MfSpec => []MfInv
<1>1. MfInit => MfInv
  <2> SUFFICES ASSUME MfInit PROVE MfInv
    OBVIOUS
  <2>1. MfTypes
    <3>1. lock \in [by : Writers \cup {Nobody}, old : BOOLEAN] /\ made \in Nat /\ robbed \in BOOLEAN
      BY DEF MfInit, Unlocked
    <3>2. Bounded(memfile) /\ tmp = NoFile
      BY NothingIsBounded DEF MfInit
    <3>3. wr \in [Writers -> Requests] /\ \A p \in Writers : wr[p].pc = "idle"
      BY DEF MfInit, Resting, Requests
    <3> QED BY <3>1, <3>2, <3>3 DEF MfTypes
  <2>2. \A p \in Writers : WriterOK(p)
    BY DEF MfInit, WriterOK, Resting, Holding
  <2> QED BY <2>1, <2>2 DEF MfInit, MfInv
<1>2. MfInv /\ [MfNext]_mfVars => MfInv'
  BY LockKeeps, ReadKeeps, WriteTempKeeps, RenameKeeps, AgeKeeps DEF MfNext
<1> QED BY <1>1, <1>2, PTL DEF MfSpec

\* MemoryFileSound is an invariant (src/src/paperclaw/memory/store.py, _process_lock, _write):
\* as long as no living holder loses its lock file one process at a time writes, and what a
\* caller was told is stored stays in the file; its bounds hold whoever wrote over whom.
THEOREM MemoryFileIsSound == MfSpec => []MemoryFileSound
  BY MemoryFileInvariant, FileIsSound, PTL

-----------------------------------------------------------------------------
(* Memory: items are only appended *)

\* What no step takes back of the items: rows stay, and what is not active never is again.
ItemsGo ==
    /\ items' \in Seq(ItemRows) /\ Len(items) <= Len(items')
    /\ \A i \in Ids : items'[i] = items[i] /\ (Active(i)' => Active(i))

LEMMA ItemsStay ==
    ASSUME ItemsOK, UNCHANGED items
    PROVE  ItemsOK' /\ ItemsGo /\ (HeadsOK => HeadsOK')
<1>1. \A i : Active(i)' <=> Active(i)
  BY DEF Active, Ids
<1>2. Len(items) \in Nat /\ Len(items) = Len(items')
  BY DEF ItemsOK
<1> QED BY <1>1, <1>2 DEF ItemsOK, ItemsGo, HeadsOK, Ids

LEMMA ItemsGrow ==
    ASSUME ItemsOK, NEW x \in ItemRows, x.of \in Ids \cup {None}, x.root \in 1..(Len(items) + 1),
           items' = Append(items, x)
    PROVE  /\ ItemsOK' /\ ItemsGo
           /\ Len(items') = Len(items) + 1 /\ Len(items) + 1 \in Ids' /\ items'[Len(items) + 1] = x
           /\ x.of \in Ids => ~Active(x.of)'
<1> DEFINE n == Len(items)
<1>1. /\ items \in Seq(ItemRows) /\ n \in Nat
      /\ items' \in Seq(ItemRows) /\ Len(items') = n + 1 /\ items'[n + 1] = x
      /\ \A i \in 1..n : items'[i] = items[i]
  BY DEF ItemsOK
<1>2. Ids = 1..n /\ Ids' = 1..(n + 1) /\ n + 1 \in Ids' /\ Ids \subseteq Ids'
  BY <1>1 DEF Ids
<1> HIDE DEF n
<1>3. \A i \in Ids : items'[i] = items[i] /\ (Active(i)' => Active(i))
  BY <1>1, <1>2 DEF Active
<1>4. x.of \in Ids => ~Active(x.of)'
  BY <1>1, <1>2 DEF Active
<1>5. ASSUME NEW i \in Ids'
      PROVE  items'[i].of \in Ids' \cup {None} /\ items'[i].root \in Ids'
  <2>1. CASE i \in Ids
    BY <1>1, <1>2, <2>1 DEF ItemsOK
  <2>2. CASE i = n + 1
    BY <1>1, <1>2, <2>2 DEF n
  <2> QED BY <1>1, <1>2, <2>1, <2>2
<1>6. ItemsOK'
  BY <1>1, <1>5 DEF ItemsOK
<1>7. ItemsGo
  <2>1. Len(items) <= Len(items')
    BY <1>1 DEF n
  <2> QED BY <1>1, <1>3, <2>1 DEF ItemsGo
<1> QED BY <1>1, <1>2, <1>4, <1>6, <1>7 DEF n

\* A row that supersedes an active item leaves each memory one head.
LEMMA RowGoes ==
    ASSUME ItemsOK, raced \in BOOLEAN, ~raced => HeadsOK, NEW i \in Ids, NEW kind \in {"replace", "remove"},
           items' = Append(items, NewRow(kind, i)), raced' = (raced \/ ~Active(i))
    PROVE  /\ ItemsOK' /\ ItemsGo /\ raced' \in BOOLEAN /\ (~raced' => HeadsOK')
           /\ ~Active(i)' /\ Len(items) + 1 \in Ids' /\ items'[Len(items) + 1].of = i
<1> DEFINE x == NewRow(kind, i)
           n == Len(items)
<1>1. n \in Nat /\ i \in Nat /\ i \in 1..n /\ items[i] \in ItemRows /\ items[i].root \in 1..n
  BY DEF ItemsOK, Ids
<1>2. x \in ItemRows /\ x.of = i /\ x.root = items[i].root /\ x.root \in 1..(n + 1)
  BY <1>1 DEF NewRow, Item, ItemRows
<1> HIDE DEF x
<1>3. items' = Append(items, x) /\ x.of \in Ids \cup {None}
  BY <1>2 DEF x
<1>4. /\ ItemsOK' /\ ItemsGo /\ ~Active(i)'
      /\ Len(items') = n + 1 /\ n + 1 \in Ids' /\ items'[n + 1] = x
  BY <1>2, <1>3, ItemsGrow
<1>5. ASSUME ~raced', NEW j \in Ids', NEW k \in Ids', Active(j)', Active(k)', items'[j].root = items'[k].root
      PROVE  j = k
  <2>1. HeadsOK /\ Active(i)
    BY <1>5
  <2>2. \A m \in Ids' : m \in Ids \/ m = n + 1
    BY <1>1, <1>4 DEF Ids
  <2>3. \A m \in Ids : Active(m)' => Active(m) /\ m # i /\ items'[m].root # items[i].root
    BY <1>4, <2>1 DEF ItemsGo, HeadsOK
  <2>4. CASE j \in Ids /\ k \in Ids
    BY <1>4, <1>5, <2>1, <2>4 DEF ItemsGo, HeadsOK
  <2>5. CASE j = n + 1
    BY <1>2, <1>4, <1>5, <2>2, <2>3, <2>5
  <2>6. CASE k = n + 1
    BY <1>2, <1>4, <1>5, <2>2, <2>3, <2>6
  <2> QED BY <2>2, <2>4, <2>5, <2>6
<1>6. ~raced' => HeadsOK'
  BY <1>5 DEF HeadsOK
<1> QED BY <1>2, <1>4, <1>6

\* What was done stays done as items are appended.
LEMMA DoneStays ==
    ASSUME ItemsOK, ItemsGo
    PROVE  /\ Ids \subseteq Ids'
           /\ \A i \in Ids : ~Active(i) => ~Active(i)'
           /\ \A d : Merged(d) /\ d.cand \in Ids => Merged(d)'
<1>1. Ids \subseteq Ids'
  BY DEF ItemsOK, ItemsGo, Ids
<1> QED BY <1>1 DEF ItemsGo, Merged

LEMMA UserStays ==
    ASSUME ItemsOK, ItemsGo, NEW w, UserOK(w)
    PROVE  UserOK(w)'
<1>1. CarriedOut(w) => CarriedOut(w)'
  BY DoneStays DEF CarriedOut
<1>2. Ids \subseteq Ids'
  BY DoneStays
<1>3. w.pc = "write" /\ w.kind = "none" => \E i \in Ids', k \in {"replace", "remove"} : w.todo = << <<k, i>> >>
  BY <1>2 DEF UserOK
<1> QED BY <1>1, <1>3 DEF UserOK

LEMMA DecisionStays ==
    ASSUME ItemsOK, ItemsGo, NEW d, DecisionOK(d)
    PROVE  DecisionOK(d)'
  BY DoneStays DEF DecisionOK

-----------------------------------------------------------------------------
(* Memory: every step keeps the invariant of the items *)

\* A process at ease.
LEMMA EaseIsOK == AtEase \in Works /\ UserOK(AtEase) /\ UserOK(AtEase)'
<1>1. AtEase.pc = "idle"
  BY DEF AtEase
<1>2. AtEase \in Works
  BY DEF AtEase, Works, None
<1> QED BY <1>1, <1>2 DEF UserOK

\* A step of one process that records no decision and no snapshot.
LEMMA UserMoves ==
    ASSUME MiInv, NEW u \in Users, NEW w \in Works, UserOK(w)', us' = [us EXCEPT ![u] = w],
           ItemsOK', ItemsGo, raced' \in BOOLEAN, ~raced' => HeadsOK', UNCHANGED <<decided, snaps>>
    PROVE  MiInv'
<1>1. us' \in [Users -> Works] /\ \A v \in Users : us'[v] = IF v = u THEN w ELSE us[v]
  BY DEF MiInv
<1>2. \A v \in Users : UserOK(us[v])'
  <2>1. SUFFICES ASSUME NEW v \in Users PROVE UserOK(us[v])'
    OBVIOUS
  <2>2. PICK x \in Works : x = us'[v]
    BY <1>1
  <2>3. UserOK(x)'
    <3>1. CASE v = u
      BY <1>1, <2>2, <3>1
    <3>2. CASE v # u
      <4>1. x = us[v]
        BY <1>1, <2>2, <3>2
      <4>2. UserOK(x)
        BY <4>1 DEF MiInv
      <4> QED BY <4>2, UserStays DEF MiInv
    <3> QED BY <3>1, <3>2
  <2> QED BY <2>2, <2>3 DEF UserOK, CarriedOut, Merged, Active, Ids
<1>3. \A d \in decided : DecisionOK(d)'
  BY DecisionStays DEF MiInv
<1> QED BY <1>1, <1>2, <1>3 DEF MiInv, SnapshotsAreCurrent

\* One memory is added.
LEMMA AddKeeps ==
    ASSUME MiInv, NEW u \in Users, AddMemory(u)
    PROVE  MiInv'
<1> DEFINE x == Item(None, FALSE, Len(items) + 1, TRUE)
<1>1. /\ ItemsOK /\ Len(items) \in Nat /\ items' = Append(items, x)
      /\ UNCHANGED <<decided, snaps, us, raced>>
  BY DEF MiInv, ItemsOK, AddMemory
<1>2. x \in ItemRows /\ x.of = None /\ x.root = Len(items) + 1
  BY <1>1 DEF Item, ItemRows, None
<1> HIDE DEF x
<1>3. /\ ItemsOK' /\ ItemsGo /\ Len(items') = Len(items) + 1 /\ items'[Len(items) + 1] = x
  BY <1>1, <1>2, ItemsGrow
<1>4. ~raced' => HeadsOK'
  <2>1. SUFFICES ASSUME ~raced', NEW j \in Ids', NEW k \in Ids', Active(j)', Active(k)', items'[j].root = items'[k].root
                 PROVE  j = k
    BY DEF HeadsOK
  <2>2. HeadsOK /\ (\A m \in Ids' : m \in Ids \/ m = Len(items) + 1)
    BY <1>1, <1>3, <2>1 DEF MiInv, Ids
  <2>3. \A m \in Ids : items'[m].root # Len(items) + 1
    BY <1>1, <1>3 DEF ItemsOK, ItemsGo, Ids
  <2> QED BY <1>2, <1>3, <2>1, <2>2, <2>3 DEF ItemsGo, HeadsOK
<1>5. \A v \in Users : UserOK(us[v])'
  <2>1. SUFFICES ASSUME NEW v \in Users PROVE UserOK(us[v])'
    OBVIOUS
  <2>2. PICK y \in Works : y = us[v] /\ UserOK(y)
    BY DEF MiInv
  <2>3. UserOK(y)' /\ us'[v] = y
    BY <1>1, <1>3, <2>2, UserStays
  <2> QED BY <2>3 DEF UserOK, CarriedOut, Merged, Active, Ids
<1>6. \A d \in decided' : DecisionOK(d)'
  BY <1>1, <1>3, DecisionStays DEF MiInv
<1> QED BY <1>1, <1>3, <1>4, <1>5, <1>6 DEF MiInv, SnapshotsAreCurrent

\* A change of an active item begins.
LEMMA BeginChangeKeeps ==
    ASSUME MiInv, NEW u \in Users, BeginChange(u)
    PROVE  MiInv'
<1>1. PICK i \in Ids, kind \in {"replace", "remove"} :
        us' = [us EXCEPT ![u] = [AtEase EXCEPT !.pc = "write", !.todo = << <<kind, i>> >>]]
  BY DEF BeginChange
<1> DEFINE w == [AtEase EXCEPT !.pc = "write", !.todo = << <<kind, i>> >>]
<1>2. UNCHANGED <<items, decided, snaps, raced>> /\ ItemsOK /\ raced \in BOOLEAN /\ (~raced => HeadsOK) /\ i \in Nat
  BY DEF BeginChange, MiInv, ItemsOK, Ids
<1>3. w \in Works /\ w.pc = "write" /\ w.kind = "none" /\ w.todo = << <<kind, i>> >>
  <2>1. << <<kind, i>> >> \in Seq(Changes)
    BY <1>2 DEF Changes
  <2> QED BY <2>1 DEF AtEase, Works, None
<1>4. us' = [us EXCEPT ![u] = w]
  BY <1>1
<1> HIDE DEF w
<1>5. ItemsOK' /\ ItemsGo /\ (HeadsOK => HeadsOK')
  BY <1>2, ItemsStay
<1>6. UserOK(w)'
  <2>1. UserOK(w)
    BY <1>3 DEF UserOK
  <2> QED BY <1>2, <1>5, <2>1, UserStays
<1> QED BY <1>2, <1>3, <1>4, <1>5, <1>6, UserMoves

\* The changes of a decision, in the order they are made.
LEMMA TodoIs ==
    ASSUME ItemsOK, NEW w, CarriedOut(w), w.todo # <<>>
    PROVE  \E i \in Ids, kind \in {"replace", "remove"} :
              /\ Head(w.todo) = <<kind, i>> /\ Head(w.todo)[1] = kind /\ Head(w.todo)[2] = i
              /\ Tail(w.todo) \in Seq(Changes)
              /\ \/ /\ kind = "remove" /\ i = w.conf /\ Tail(w.todo) = <<>>
                    /\ w.kind = "supersede" \/ (w.kind = "merge" /\ Merged(w))
                 \/ kind = "remove" /\ i = w.cand /\ Tail(w.todo) = <<>> /\ w.kind = "reject"
                 \/ /\ kind = "replace" /\ i = w.cand /\ w.kind = "merge"
                    /\ Tail(w.todo) = << <<"remove", w.conf>> >>
<1>1. w.cand \in Ids /\ w.conf \in Ids /\ w.cand \in Nat /\ w.conf \in Nat
  BY DEF CarriedOut, ItemsOK, Ids
<1>2. CASE w.todo = << <<"remove", w.conf>> >> /\ (w.kind = "supersede" \/ (w.kind = "merge" /\ Merged(w)))
  BY <1>1, <1>2
<1>3. CASE w.todo = << <<"remove", w.cand>> >> /\ w.kind = "reject"
  BY <1>1, <1>3
<1>4. CASE w.todo = << <<"replace", w.cand>>, <<"remove", w.conf>> >> /\ w.kind = "merge"
  <2>1. Tail(w.todo) = << <<"remove", w.conf>> >> /\ Head(w.todo) = <<"replace", w.cand>>
    BY <1>4
  <2>2. << <<"remove", w.conf>> >> \in Seq(Changes)
    BY <1>1 DEF Changes
  <2> QED BY <1>1, <1>4, <2>1, <2>2
<1> QED BY <1>2, <1>3, <1>4 DEF CarriedOut

\* A row of a change is appended.
LEMMA WriteRowKeeps ==
    ASSUME MiInv, NEW u \in Users, WriteRow(u)
    PROVE  MiInv'
<1>1. PICK w \in Works : w = us[u] /\ UserOK(w)
  BY DEF MiInv
<1>2. PICK n \in Nat : n = Len(items) + 1
  BY DEF MiInv, ItemsOK
<1> DEFINE kind == Head(w.todo)[1]
           i == Head(w.todo)[2]
           rest == Tail(w.todo)
           stop == IF rest = <<>> THEN "record" ELSE "next"
           got == IF kind = "replace" THEN n ELSE w.result
           next == [w EXCEPT !.pc = stop, !.todo = rest, !.result = got]
<1>3. /\ w.pc = "write" /\ items' = Append(items, NewRow(kind, i)) /\ raced' = (raced \/ ~Active(i))
      /\ UNCHANGED <<decided, snaps>>
      /\ ItemsOK /\ raced \in BOOLEAN /\ (~raced => HeadsOK)
  BY <1>1 DEF WriteRow, MiInv
<1>4. us' = [us EXCEPT ![u] = IF w.kind = "none" THEN AtEase ELSE next]
  <2>1. us' = [us EXCEPT ![u] = IF us[u].kind = "none" THEN AtEase
                  ELSE [us[u] EXCEPT !.pc = IF Tail(us[u].todo) = <<>> THEN "record" ELSE "next",
                                     !.todo = Tail(us[u].todo),
                                     !.result = IF Head(us[u].todo)[1] = "replace" THEN Len(items) + 1
                                                ELSE us[u].result]]
    BY Zenon DEF WriteRow
  <2>2. us[u] = w /\ Len(items) + 1 = n
    BY <1>1, <1>2
  <2> QED BY <2>1, <2>2, Zenon
<1>5. CASE w.kind = "none"
  <2>1. PICK j \in Ids, k \in {"replace", "remove"} : w.todo = << <<k, j>> >>
    BY <1>1, <1>3, <1>5 DEF UserOK
  <2>2. kind = k /\ i = j
    BY <2>1
  <2> HIDE DEF kind, i, next
  <2>3. ItemsOK' /\ ItemsGo /\ raced' \in BOOLEAN /\ (~raced' => HeadsOK')
    BY <1>3, <2>2, RowGoes
  <2> QED BY <1>3, <1>4, <1>5, <2>3, EaseIsOK, UserMoves
<1>6. CASE w.kind # "none"
  <2>1. CarriedOut(w) /\ w.todo # <<>>
    BY <1>1, <1>3, <1>6 DEF UserOK, CarriedOut
  <2>2. PICK j \in Ids, k \in {"replace", "remove"} :
              /\ Head(w.todo)[1] = k /\ Head(w.todo)[2] = j /\ Tail(w.todo) \in Seq(Changes)
              /\ \/ /\ k = "remove" /\ j = w.conf /\ Tail(w.todo) = <<>>
                    /\ w.kind = "supersede" \/ (w.kind = "merge" /\ Merged(w))
                 \/ k = "remove" /\ j = w.cand /\ Tail(w.todo) = <<>> /\ w.kind = "reject"
                 \/ /\ k = "replace" /\ j = w.cand /\ w.kind = "merge"
                    /\ Tail(w.todo) = << <<"remove", w.conf>> >>
    BY <1>3, <2>1, TodoIs
  <2>3. kind = k /\ i = j /\ rest = Tail(w.todo)
    BY <2>2
  <2>4. /\ next \in Works /\ next.kind = w.kind /\ next.cand = w.cand /\ next.conf = w.conf
        /\ next.pc = stop /\ next.todo = rest /\ next.result = got
    <3>1. rest \in Seq(Changes) /\ got \in Nat /\ stop \in {"record", "next"}
      BY <2>2, <2>3 DEF Works
    <3> HIDE DEF rest, got, stop
    <3> DEFINE v == [w EXCEPT !.pc = stop, !.todo = rest]
    <3>2. /\ v \in Works /\ v.kind = w.kind /\ v.cand = w.cand /\ v.conf = w.conf /\ v.result = w.result
          /\ v.pc = stop /\ v.todo = rest
      BY <3>1 DEF Works
    <3>3. next = [v EXCEPT !.result = got]
      OBVIOUS
    <3> HIDE DEF v, next
    <3> QED BY <3>1, <3>2, <3>3 DEF Works
  <2>5. /\ rest = <<>> => stop = "record"
        /\ rest # <<>> => stop = "next"
        /\ k = "remove" => got = w.result
        /\ k = "replace" => got = n
    BY <2>3
  <2> HIDE DEF kind, i, rest, next, stop, got
  <2>6. /\ ItemsOK' /\ ItemsGo /\ raced' \in BOOLEAN /\ (~raced' => HeadsOK')
        /\ ~Active(j)' /\ n \in Ids' /\ items'[n].of = j
    BY <1>2, <1>3, <2>3, RowGoes
  <2>7. /\ next.cand \in Ids' /\ next.conf \in Ids' /\ next.cand # next.conf /\ next.kind # "none"
        /\ Merged(w) => Merged(w)'
    BY <1>3, <1>6, <2>1, <2>4, <2>6, DoneStays DEF CarriedOut
  <2>8. CASE rest = <<>>
    <3>1. k = "remove" /\ (w.kind = "merge" => Merged(w) /\ j = w.conf)
      BY <2>2, <2>3, <2>8
    <3>2. next.pc = "record" /\ next.todo = <<>> /\ k = "remove" /\ next.result = w.result
      BY <2>4, <2>5, <2>8, <3>1
    <3>3. next.kind = "supersede" => ~Active(next.conf)'
      BY <2>2, <2>3, <2>4, <2>6, <2>8
    <3>4. next.kind = "reject" => ~Active(next.cand)'
      BY <2>2, <2>3, <2>4, <2>6, <2>8
    <3>5. next.kind = "merge" => Merged(w)' /\ ~Active(next.conf)'
      BY <2>4, <2>6, <2>7, <3>1
    <3>6. Merged(w)' => Merged(next)'
      BY <2>4, <3>2 DEF Merged
    <3>7. CarriedOut(next)'
      BY <2>2, <2>4, <2>7, <3>2, <3>3, <3>4, <3>5, <3>6 DEF CarriedOut
    <3>8. UserOK(next)'
      BY <3>2, <3>7 DEF UserOK
    <3> QED BY <1>3, <1>4, <1>6, <2>4, <2>6, <3>8, UserMoves
  <2>9. CASE rest # <<>>
    <3>1. /\ k = "replace" /\ j = w.cand /\ w.kind = "merge" /\ next.todo = << <<"remove", next.conf>> >>
          /\ next.pc = "next" /\ next.result = n
      BY <2>2, <2>3, <2>4, <2>9, <2>5
    <3>2. Merged(next)'
      BY <2>4, <2>6, <3>1 DEF Merged
    <3>3. next.todo # <<>>
      BY <3>1
    <3>4. CarriedOut(next)'
      BY <2>4, <2>7, <3>1, <3>2, <3>3 DEF CarriedOut
    <3>5. UserOK(next)'
      BY <3>1, <3>4 DEF UserOK
    <3> QED BY <1>3, <1>4, <1>6, <2>4, <2>6, <3>5, UserMoves
  <2> QED BY <2>8, <2>9
<1> QED BY <1>5, <1>6

\* A decision begins with its changes before it.
LEMMA BeginDecisionKeeps ==
    ASSUME MiInv, NEW u \in Users, BeginDecision(u)
    PROVE  MiInv'
<1>1. PICK cand \in Ids, conf \in Ids, kind \in {"supersede", "reject", "merge"} :
        /\ cand # conf
        /\ us' = [us EXCEPT ![u] = [AtEase EXCEPT !.pc = "next", !.kind = kind, !.cand = cand,
                                                  !.conf = conf, !.todo = ChangesOf(kind, cand, conf)]]
  BY DEF BeginDecision
<1> DEFINE w == [AtEase EXCEPT !.pc = "next", !.kind = kind, !.cand = cand,
                               !.conf = conf, !.todo = ChangesOf(kind, cand, conf)]
<1>2. /\ UNCHANGED <<items, decided, snaps, raced>> /\ ItemsOK /\ raced \in BOOLEAN /\ (~raced => HeadsOK)
      /\ cand \in Nat /\ conf \in Nat
  BY DEF BeginDecision, MiInv, ItemsOK, Ids
<1>3. ChangesOf(kind, cand, conf) \in Seq(Changes) /\ ChangesOf(kind, cand, conf) # <<>>
  <2>1. <<"remove", conf>> \in Changes /\ <<"remove", cand>> \in Changes /\ <<"replace", cand>> \in Changes
    BY <1>2 DEF Changes
  <2> HIDE DEF Changes
  <2> QED BY <2>1 DEF ChangesOf
<1>4. /\ w \in Works /\ w.pc = "next" /\ w.kind = kind /\ w.cand = cand /\ w.conf = conf
      /\ w.todo = ChangesOf(kind, cand, conf)
  <2> DEFINE todo == ChangesOf(kind, cand, conf)
             a == [AtEase EXCEPT !.pc = "next", !.kind = kind]
             b == [a EXCEPT !.cand = cand, !.conf = conf]
  <2>1. todo \in Seq(Changes)
    BY <1>3
  <2>2. w = [b EXCEPT !.todo = todo]
    OBVIOUS
  <2> HIDE DEF todo, w
  <2>3. a \in Works /\ a.pc = "next" /\ a.kind = kind
    BY EaseIsOK DEF Works
  <2> HIDE DEF a
  <2>4. b \in Works /\ b.pc = "next" /\ b.kind = kind /\ b.cand = cand /\ b.conf = conf
    BY <1>2, <2>3 DEF Works
  <2> HIDE DEF b
  <2> QED BY <2>1, <2>2, <2>4 DEF Works, todo
<1>5. us' = [us EXCEPT ![u] = w]
  BY <1>1
<1> HIDE DEF w
<1>6. ItemsOK' /\ ItemsGo /\ (HeadsOK => HeadsOK')
  BY <1>2, ItemsStay
<1>7. UserOK(w)'
  <2>1. CarriedOut(w)
    BY <1>1, <1>3, <1>4 DEF CarriedOut, ChangesOf
  <2>2. UserOK(w)
    BY <1>4, <2>1 DEF UserOK
  <2> QED BY <1>2, <1>6, <2>2, UserStays
<1> QED BY <1>2, <1>4, <1>5, <1>6, <1>7, UserMoves

\* The next change of a decision is looked at again.
LEMMA CheckNextKeeps ==
    ASSUME MiInv, NEW u \in Users, CheckNext(u)
    PROVE  MiInv'
<1>1. PICK w \in Works : w = us[u] /\ UserOK(w)
  BY DEF MiInv
<1> DEFINE i == Head(w.todo)[2]
           rest == Tail(w.todo)
           onward == [w EXCEPT !.pc = "write"]
           skip == [w EXCEPT !.pc = IF rest = <<>> THEN "record" ELSE "next", !.todo = rest]
<1>2. /\ w.pc = "next" /\ UNCHANGED <<items, decided, snaps, raced>>
      /\ us' = [us EXCEPT ![u] = IF Active(i) THEN onward ELSE IF i = w.cand THEN AtEase ELSE skip]
  BY <1>1 DEF CheckNext, MiInv
<1>3. ItemsOK /\ raced \in BOOLEAN /\ (~raced => HeadsOK)
  BY DEF MiInv
<1>4. ItemsOK' /\ ItemsGo /\ (HeadsOK => HeadsOK') /\ raced' \in BOOLEAN /\ (~raced' => HeadsOK')
  BY <1>2, <1>3, ItemsStay
<1>5. CarriedOut(w) /\ w.todo # <<>>
  BY <1>1, <1>2 DEF UserOK, CarriedOut
<1>6. PICK j \in Ids :
          /\ i = j /\ rest \in Seq(Changes)
          /\ j = w.cand \/ (/\ j = w.conf /\ rest = <<>>
                            /\ w.kind = "supersede" \/ (w.kind = "merge" /\ Merged(w)))
  BY <1>3, <1>5, TodoIs
<1>7. /\ onward \in Works /\ onward.pc = "write" /\ onward.kind = w.kind /\ onward.cand = w.cand /\ onward.conf = w.conf
      /\ onward.todo = w.todo /\ onward.result = w.result
  BY DEF Works
<1>8. /\ skip \in Works /\ skip.pc = (IF rest = <<>> THEN "record" ELSE "next") /\ skip.todo = rest
      /\ skip.kind = w.kind /\ skip.cand = w.cand /\ skip.conf = w.conf /\ skip.result = w.result
  <2> HIDE DEF rest
  <2> QED BY <1>6 DEF Works
<1> HIDE DEF onward, skip, i, rest
<1>9. CASE Active(i)
  <2>1. CarriedOut(onward)
    BY <1>2, <1>5, <1>7 DEF CarriedOut, Merged
  <2>2. UserOK(onward)
    BY <1>5, <1>7, <2>1 DEF UserOK, CarriedOut
  <2>3. UserOK(onward)'
    BY <1>3, <1>4, <2>2, UserStays
  <2> QED BY <1>2, <1>4, <1>7, <1>9, <2>3, UserMoves
<1>10. CASE ~Active(i) /\ i = w.cand
  BY <1>2, <1>4, <1>10, EaseIsOK, UserMoves
<1>11. CASE ~Active(i) /\ i # w.cand
  <2>1. /\ ~Active(w.conf) /\ skip.pc = "record" /\ skip.todo = <<>>
        /\ w.kind = "supersede" \/ (w.kind = "merge" /\ Merged(w))
    BY <1>6, <1>8, <1>11
  <2>2. CarriedOut(skip)
    BY <1>5, <1>8, <2>1 DEF CarriedOut, Merged
  <2>3. UserOK(skip)
    BY <2>1, <2>2 DEF UserOK
  <2>4. UserOK(skip)'
    BY <1>3, <1>4, <2>3, UserStays
  <2> QED BY <1>2, <1>4, <1>8, <1>11, <2>4, UserMoves
<1> QED BY <1>9, <1>10, <1>11

\* A decision is recorded, or a snapshot, and its process is at ease.
LEMMA RecordKeeps ==
    ASSUME MiInv, NEW u \in Users, RecordDecision(u) \/ InsertSnapshot(u) \/ Fall(u)
    PROVE  MiInv'
<1>1. UNCHANGED <<items, raced>> /\ us' = [us EXCEPT ![u] = AtEase]
  BY DEF RecordDecision, InsertSnapshot, Fall
<1>2. PICK w \in Works : w = us[u] /\ UserOK(w)
  BY DEF MiInv
<1>3. ItemsOK /\ raced \in BOOLEAN /\ (~raced => HeadsOK)
  BY DEF MiInv
<1>4. ItemsOK' /\ ItemsGo /\ raced' \in BOOLEAN /\ (~raced' => HeadsOK')
  BY <1>1, <1>3, ItemsStay
<1>5. us' \in [Users -> Works] /\ \A v \in Users : us'[v] = IF v = u THEN AtEase ELSE us[v]
  BY <1>1, EaseIsOK DEF MiInv
<1>6. \A v \in Users : UserOK(us[v])'
  <2>1. SUFFICES ASSUME NEW v \in Users PROVE UserOK(us[v])'
    OBVIOUS
  <2>2. PICK x \in Works : x = us'[v]
    BY <1>5
  <2>3. UserOK(x)'
    <3>1. CASE v = u
      BY <1>5, <2>2, <3>1, EaseIsOK
    <3>2. CASE v # u
      <4>1. x = us[v]
        BY <1>5, <2>2, <3>2
      <4>2. UserOK(x)
        BY <4>1 DEF MiInv
      <4> QED BY <1>3, <1>4, <4>2, UserStays
    <3> QED BY <3>1, <3>2
  <2> QED BY <2>2, <2>3 DEF UserOK, CarriedOut, Merged, Active, Ids
<1>7. \A d \in decided : DecisionOK(d)'
  BY <1>3, <1>4, DecisionStays DEF MiInv
<1>8. CASE RecordDecision(u)
  <2> DEFINE d == [kind |-> w.kind, cand |-> w.cand, conf |-> w.conf, result |-> w.result]
  <2>1. w.pc = "record" /\ decided' = decided \cup {d} /\ UNCHANGED snaps
    BY <1>2, <1>8 DEF RecordDecision
  <2>2. CarriedOut(w) /\ w.todo = <<>>
    BY <1>2, <2>1 DEF UserOK, CarriedOut
  <2>3. d.kind = w.kind /\ d.cand = w.cand /\ d.conf = w.conf /\ d.result = w.result
    OBVIOUS
  <2> HIDE DEF d
  <2>4. DecisionOK(d)
    BY <2>2, <2>3 DEF CarriedOut, DecisionOK, Merged
  <2>5. DecisionOK(d)'
    BY <1>3, <1>4, <2>4, DecisionStays
  <2> QED BY <1>4, <1>5, <1>6, <1>7, <2>1, <2>5 DEF MiInv, SnapshotsAreCurrent
<1>9. CASE InsertSnapshot(u)
  <2> DEFINE s == [pins |-> w.pins, stale |-> w.stale]
  <2>1. w.pc = "capture" /\ snaps' = Append(snaps, s) /\ UNCHANGED decided
    BY <1>2, <1>9 DEF InsertSnapshot
  <2>2. s \in [pins : SUBSET Nat, stale : BOOLEAN] /\ s.stale = FALSE /\ Cardinality(s.pins) <= PinnedBudget
    BY <1>2, <2>1 DEF UserOK, Works
  <2> HIDE DEF s
  <2>3. /\ snaps' \in Seq([pins : SUBSET Nat, stale : BOOLEAN]) /\ SnapshotsAreCurrent'
    BY <2>1, <2>2 DEF MiInv, SnapshotsAreCurrent
  <2> QED BY <1>4, <1>5, <1>6, <1>7, <2>1, <2>3 DEF MiInv
<1>10. CASE Fall(u)
  BY <1>4, <1>5, <1>6, <1>7, <1>10 DEF MiInv, SnapshotsAreCurrent, Fall
<1> QED BY <1>8, <1>9, <1>10

\* The pinned items are read for a snapshot.
LEMMA ReadPinnedKeeps ==
    ASSUME MiInv, NEW u \in Users, ReadPinned(u)
    PROVE  MiInv'
<1>1. PICK pins \in Fit({i \in Ids : Active(i) /\ items[i].pinned}) :
        us' = [us EXCEPT ![u] = [AtEase EXCEPT !.pc = "capture", !.pins = pins, !.stale = \E i \in pins : ~Active(i)]]
  BY DEF ReadPinned
<1> DEFINE stale == \E i \in pins : ~Active(i)
<1>2. UNCHANGED <<items, decided, snaps, raced>> /\ ItemsOK /\ raced \in BOOLEAN /\ (~raced => HeadsOK)
  BY DEF ReadPinned, MiInv
<1>3. pins \in SUBSET Nat /\ Cardinality(pins) <= PinnedBudget /\ stale = FALSE
  BY DEF Fit, Ids
<1> DEFINE w == [AtEase EXCEPT !.pc = "capture", !.pins = pins, !.stale = FALSE]
<1>4. us' = [us EXCEPT ![u] = w]
  <2>1. us' = [us EXCEPT ![u] = [AtEase EXCEPT !.pc = "capture", !.pins = pins, !.stale = stale]]
    BY <1>1
  <2> HIDE DEF stale
  <2> QED BY <1>3, <2>1
<1>5. w \in Works /\ w.pc = "capture" /\ w.stale = FALSE /\ w.pins = pins
  BY <1>3, EaseIsOK DEF Works
<1> HIDE DEF w
<1>6. ItemsOK' /\ ItemsGo /\ (HeadsOK => HeadsOK')
  BY <1>2, ItemsStay
<1>7. UserOK(w)
  BY <1>3, <1>5 DEF UserOK
<1>8. UserOK(w)'
  BY <1>2, <1>6, <1>7, UserStays
<1> QED BY <1>2, <1>4, <1>5, <1>6, <1>8, UserMoves

\* Nothing happens.
LEMMA StutterKeeps ==
    ASSUME MiInv, UNCHANGED miVars
    PROVE  MiInv'
<1>1. UNCHANGED <<items, decided, snaps, us, raced>>
  BY DEF miVars
<1>2. ItemsOK' /\ ItemsGo /\ (HeadsOK => HeadsOK')
  BY <1>1, ItemsStay DEF MiInv
<1>3. \A d \in decided : DecisionOK(d)'
  BY <1>2, DecisionStays DEF MiInv
<1>4. \A v \in Users : UserOK(us[v])'
  <2>1. SUFFICES ASSUME NEW v \in Users PROVE UserOK(us[v])'
    OBVIOUS
  <2>2. PICK y \in Works : y = us[v] /\ UserOK(y)
    BY DEF MiInv
  <2>3. UserOK(y)' /\ us'[v] = y
    BY <1>1, <1>2, <2>2, UserStays DEF MiInv
  <2> QED BY <2>3 DEF UserOK, CarriedOut, Merged, Active, Ids
<1> QED BY <1>1, <1>2, <1>3, <1>4 DEF MiInv, SnapshotsAreCurrent

\* The invariant gives what the items promise.
LEMMA ItemsAreSound ==
    ASSUME MiInv
    PROVE  MemoryItemsSound
<1>1. OneHead
  <2>1. SUFFICES ASSUME ~raced, NEW r \in Ids
                 PROVE  Cardinality({i \in Ids : Active(i) /\ items[i].root = r}) <= 1
    BY DEF OneHead
  <2> DEFINE heads == {i \in Ids : Active(i) /\ items[i].root = r}
  <2>2. CASE heads = {}
    BY <2>2, FS_EmptySet
  <2>3. CASE heads # {}
    <3>1. PICK i : i \in heads
      BY <2>3
    <3>2. \A k \in heads : k = i
      BY <2>1, <3>1 DEF MiInv, HeadsOK
    <3> HIDE DEF heads
    <3>3. heads = {i}
      BY <3>1, <3>2
    <3>4. Cardinality(heads) = 1
      BY <3>3, FS_Singleton
    <3>5. Cardinality(heads) <= 1
      BY <3>4
    <3> QED BY <3>5 DEF heads
  <2> QED BY <2>2, <2>3
<1>2. DecisionsApplied
  <2>1. \A d \in decided : DecisionOK(d)
    BY DEF MiInv
  <2>2. \A d \in decided : d.kind = "merge" => d.result # None
    BY <2>1 DEF DecisionOK, Merged, Ids, None, MiInv, ItemsOK
  <2> QED BY <2>1, <2>2 DEF DecisionOK, Merged, DecisionsApplied
<1>3. SnapshotsAreCurrent
  BY DEF MiInv
<1> QED BY <1>1, <1>2, <1>3 DEF MemoryItemsSound

\* MiInv is an invariant, for any users, decisions, snapshots and falls.
THEOREM MemoryItemsInvariant == MiSpec => []MiInv
<1>1. MiInit => MiInv
  <2> SUFFICES ASSUME MiInit PROVE MiInv
    OBVIOUS
  <2>1. items \in Seq(ItemRows) /\ Len(items) = Seeds /\ Seeds \in Nat
    BY MemoryAssumption DEF MiInit, Item, ItemRows, None
  <2>2. \A i \in 1..Seeds : items[i].of = None /\ items[i].root = i
    BY DEF MiInit, Item
  <2>3. ItemsOK /\ HeadsOK
    BY <2>1, <2>2 DEF ItemsOK, HeadsOK, Ids
  <2>4. us \in [Users -> Works] /\ \A u \in Users : UserOK(us[u])
    BY EaseIsOK DEF MiInit, AtEase, UserOK
  <2>5. snaps = <<>> /\ decided = {} /\ raced = FALSE
    BY DEF MiInit
  <2>6. snaps \in Seq([pins : SUBSET Nat, stale : BOOLEAN]) /\ SnapshotsAreCurrent
    BY <2>5 DEF SnapshotsAreCurrent
  <2> QED BY <2>3, <2>4, <2>5, <2>6 DEF MiInv
<1>2. MiInv /\ [MiNext]_miVars => MiInv'
  BY AddKeeps, BeginChangeKeeps, WriteRowKeeps, BeginDecisionKeeps, CheckNextKeeps, RecordKeeps,
     ReadPinnedKeeps, StutterKeeps DEF MiNext
<1> QED BY <1>1, <1>2, PTL DEF MiSpec

\* MemoryItemsSound is an invariant (src/src/paperclaw/memory/service.py, context/repository.py,
\* memory/runtime.py): unless a row superseded an item another process had superseded first, a
\* memory has one active version at most; a recorded decision has been carried out whoever fell
\* on the way; and a snapshot freezes nothing that had been removed before its process looked.
THEOREM MemoryItemsAreSound == MiSpec => []MemoryItemsSound
  BY MemoryItemsInvariant, ItemsAreSound, PTL

=============================================================================
