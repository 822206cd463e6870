---------------------------- MODULE TreesProofs -----------------------------
(***************************************************************************)
(* The trees of Trees, for any number of departments, members, items and   *)
(* navigation nodes.                                                       *)
(*                                                                         *)
(* What the code walks (a department's ancestors, an item's or a node's    *)
(* path) is defined by recursion, so what it reaches is an induction over  *)
(* naturals: NatSetInduction, from the well-foundedness of their order,    *)
(* and from it what a walk by a function is and does. The invariants say   *)
(* that no part of a tree is closed under its parents, or that the check   *)
(* of every single row still holds; a write is checked for the row it      *)
(* writes alone, and the lemmas on walks carry that over to all the        *)
(* others.                                                                 *)
(*                                                                         *)
(* Revision of Applications sums the versions of all rows; the lemmas on   *)
(* sums show that one write adds one, which is why no two states of the    *)
(* rows share a revision.                                                  *)
(***************************************************************************)
EXTENDS Trees, FiniteSetTheorems, WellFoundedInduction, TLAPS

-----------------------------------------------------------------------------
(* Walks.                                                                  *)

\* The order of the naturals as a set of pairs.
Less == {ss \in Nat \X Nat : ss[1] < ss[2]}

\* The order of the naturals is well-founded.
LEMMA LessIsWellFounded == IsWellFoundedOn(Less, Nat)
  BY NatLessThanWellFounded, Zenon DEF OpToRel, Less

\* A set of naturals that is not empty has a least element.
LEMMA LeastNat ==
  ASSUME NEW T \in SUBSET Nat, T # {}
  PROVE  \E n \in T : \A m \in T : n <= m
  <1>1. \E n \in T : \A m \in T : <<m, n>> \notin Less
    BY LessIsWellFounded, WFMin, Zenon
  <1>2. \A n, m \in T : <<m, n>> \notin Less => n <= m
    BY DEF Less
  <1> QED
    BY <1>1, <1>2

\* Induction, as a statement about sets: what holds 0 and with every number the next one holds
\* them all.
LEMMA NatSetInduction ==
  ASSUME NEW T \in SUBSET Nat, 0 \in T, \A n \in T : n + 1 \in T
  PROVE  T = Nat
  <1> SUFFICES ASSUME Nat \ T # {} PROVE FALSE
    OBVIOUS
  <1>1. PICK n \in Nat \ T : \A m \in Nat \ T : n <= m
    BY LeastNat
  <1>2. n # 0 /\ n - 1 \in Nat /\ n - 1 \in T
    BY <1>1
  <1>3. (n - 1) + 1 \in T
    BY <1>2
  <1> QED
    BY <1>1, <1>2, <1>3

\* The walks of n steps from x, each step by F.
Walks(F, x, n) == {g \in [0..n -> DOMAIN F] : g[0] = x /\ \A m \in 0..(n - 1) : g[m + 1] = F[g[m]]}

\* A walk goes on by one more step.
LEMMA WalkExtends ==
  ASSUME NEW D, NEW F \in [D -> D], NEW x \in D, NEW n \in Nat, NEW g \in Walks(F, x, n)
  PROVE  [m \in 0..(n + 1) |-> IF m = n + 1 THEN F[g[n]] ELSE g[m]] \in Walks(F, x, n + 1)
  <1> DEFINE h == [m \in 0..(n + 1) |-> IF m = n + 1 THEN F[g[n]] ELSE g[m]]
  <1>1. h \in [0..(n + 1) -> D] /\ h[0] = x
    BY DEF Walks
  <1>2. \A m \in 0..n : h[m + 1] = F[h[m]]
    BY DEF Walks
  <1> QED
    BY <1>1, <1>2 DEF Walks

\* Two walks from one place are in the same place after the same number of steps.
LEMMA WalksAgree ==
  ASSUME NEW D, NEW F \in [D -> D], NEW x \in D, NEW n \in Nat, NEW m \in Nat, NEW g \in Walks(F, x, n),
         NEW h \in Walks(F, x, m),
         NEW k \in Nat, k <= n, k <= m
  PROVE  g[k] = h[k]
  <1> DEFINE T == {i \in Nat : i <= n /\ i <= m => g[i] = h[i]}
  <1>1. 0 \in T
    BY DEF Walks
  <1>2. ASSUME NEW i \in T PROVE i + 1 \in T
    <2> SUFFICES ASSUME i + 1 <= n, i + 1 <= m PROVE g[i + 1] = h[i + 1]
      OBVIOUS
    <2>1. g[i] = h[i] /\ i \in 0..(n - 1) /\ i \in 0..(m - 1)
      OBVIOUS
    <2> QED
      BY <2>1 DEF Walks
  <1>3. T = Nat
    <2> HIDE DEF T
    <2>1. T \in SUBSET Nat
      BY DEF T
    <2> QED
      BY <1>1, <1>2, <2>1, NatSetInduction
  <1> QED
    BY <1>3

\* A walk of any length exists.
LEMMA WalkExists ==
  ASSUME NEW D, NEW F \in [D -> D], NEW x \in D
  PROVE  \A n \in Nat : Walks(F, x, n) # {}
  <1> DEFINE T == {n \in Nat : Walks(F, x, n) # {}}
  <1>1. 0 \in T
    <2>1. [m \in 0..0 |-> x] \in Walks(F, x, 0)
      BY DEF Walks
    <2> QED
      BY <2>1
  <1>2. ASSUME NEW n \in T PROVE n + 1 \in T
    <2>1. PICK g : g \in Walks(F, x, n)
      OBVIOUS
    <2>2. Walks(F, x, n + 1) # {}
      BY <2>1, WalkExtends
    <2> QED
      BY <2>2
  <1>3. T = Nat
    <2> HIDE DEF T
    <2>1. T \in SUBSET Nat
      BY DEF T
    <2> QED
      BY <1>1, <1>2, <2>1, NatSetInduction
  <1> QED
    BY <1>3

\* A walk stays in what F does not leave.
LEMMA WalkStaysIn ==
  ASSUME NEW D, NEW F \in [D -> D], NEW x \in D, NEW N \in Nat, NEW g \in Walks(F, x, N),
         NEW S, x \in S, \A y \in S \cap D : F[y] \in S
  PROVE  \A n \in 0..N : g[n] \in S
  <1> DEFINE T == {n \in Nat : n <= N => g[n] \in S}
  <1>1. 0 \in T
    BY DEF Walks
  <1>2. ASSUME NEW n \in T PROVE n + 1 \in T
    <2> SUFFICES ASSUME n + 1 <= N PROVE g[n + 1] \in S
      OBVIOUS
    <2>1. g[n] \in S /\ g[n] \in D /\ n \in 0..(N - 1)
      BY DEF Walks
    <2> QED
      BY <2>1 DEF Walks
  <1>3. T = Nat
    <2> HIDE DEF T
    <2>1. T \in SUBSET Nat
      BY DEF T
    <2> QED
      BY <1>1, <1>2, <2>1, NatSetInduction
  <1> QED
    BY <1>3

\* A walk that has come to a fixed point r stays there.
LEMMA WalkStops ==
  ASSUME NEW D, NEW F \in [D -> D], NEW x \in D, NEW N \in Nat, NEW g \in Walks(F, x, N),
         NEW r \in D, F[r] = r, NEW m \in 0..N, g[m] = r
  PROVE  \A n \in m..N : g[n] = r
  <1> DEFINE T == {n \in Nat : m <= n /\ n <= N => g[n] = r}
  <1>1. 0 \in T
    OBVIOUS
  <1>2. ASSUME NEW n \in T PROVE n + 1 \in T
    <2> SUFFICES ASSUME m <= n + 1, n + 1 <= N, m # n + 1 PROVE g[n + 1] = r
      OBVIOUS
    <2>1. g[n] = r /\ n \in 0..(N - 1)
      OBVIOUS
    <2> QED
      BY <2>1 DEF Walks
  <1>3. T = Nat
    <2> HIDE DEF T
    <2>1. T \in SUBSET Nat
      BY DEF T
    <2> QED
      BY <1>1, <1>2, <2>1, NatSetInduction
  <1> QED
    BY <1>3

\* A walk that has come to a fixed point has been everywhere it leads to.
LEMMA WalkIsClosed ==
  ASSUME NEW D, NEW F \in [D -> D], NEW x \in D, NEW N \in Nat, NEW g \in Walks(F, x, N),
         NEW r \in D, F[r] = r, NEW m \in 0..N, F[g[m]] = r
  PROVE  \A n \in 0..N : F[g[n]] = r \/ \E k \in 0..N : F[g[n]] = g[k]
  <1> SUFFICES ASSUME NEW n \in 0..N PROVE F[g[n]] = r \/ \E k \in 0..N : F[g[n]] = g[k]
    OBVIOUS
  <1>1. CASE n < N
    <2>1. n \in 0..(N - 1) /\ n + 1 \in 0..N
      BY <1>1
    <2> QED
      BY <2>1 DEF Walks
  <1>2. CASE n = N /\ m < N
    <2>1. m \in 0..(N - 1) /\ m + 1 \in 0..N /\ N \in (m + 1)..N
      BY <1>2
    <2>2. g[m + 1] = r
      BY <2>1 DEF Walks
    <2>3. g[N] = r
      BY <2>1, <2>2, WalkStops
    <2> QED
      BY <1>2, <2>3
  <1>3. CASE n = m
    BY <1>3
  <1> QED
    BY <1>1, <1>2, <1>3

\* Where a walk has been it started, or it came there from where it had been.
LEMMA WalkComesFrom ==
  ASSUME NEW D, NEW F \in [D -> D], NEW x \in D, NEW N \in Nat, NEW g \in Walks(F, x, N), NEW n \in 0..N
  PROVE  g[n] \in D /\ (g[n] = x \/ \E k \in 0..N : g[n] = F[g[k]])
  <1>1. CASE n = 0
    BY <1>1 DEF Walks
  <1>2. CASE n # 0
    <2>1. n - 1 \in 0..(N - 1) /\ n - 1 \in 0..N /\ (n - 1) + 1 = n
      BY <1>2
    <2> QED
      BY <2>1 DEF Walks
  <1> QED
    BY <1>1, <1>2

\* A function that agrees with F along a walk has the same walk.
LEMMA WalkTransfers ==
  ASSUME NEW D, NEW F \in [D -> D], NEW G \in [D -> D], NEW x \in D, NEW N \in Nat, NEW g \in Walks(F, x, N),
         \A n \in 0..N : G[g[n]] = F[g[n]]
  PROVE  g \in Walks(G, x, N)
  BY DEF Walks

\* f iterates F from x.
Iterates(F, x, f) == f \in [Nat -> DOMAIN F] /\ f[0] = x /\ \A n \in Nat : f[n + 1] = F[f[n]]

\* From every place there is a walk without end.
LEMMA Iteration ==
  ASSUME NEW D, NEW F \in [D -> D], NEW x \in D
  PROVE  \E f : Iterates(F, x, f)
  <1> DEFINE w(n) == CHOOSE g \in Walks(F, x, n) : TRUE
             f == [n \in Nat |-> w(n)[n]]
  <1>1. \A n \in Nat : Walks(F, x, n) # {}
    BY WalkExists
  <1>2. \A n \in Nat : w(n) \in Walks(F, x, n)
    BY <1>1
  <1>3. \A n \in Nat : w(n)[n] \in D
    BY <1>2 DEF Walks
  <1>4. f[0] = x
    BY <1>2 DEF Walks
  <1>5. ASSUME NEW n \in Nat PROVE f[n + 1] = F[f[n]]
    <2>1. w(n + 1)[n + 1] = F[w(n + 1)[n]]
      <3>1. w(n + 1) \in Walks(F, x, n + 1) /\ n \in 0..((n + 1) - 1)
        BY <1>2
      <3> HIDE DEF w
      <3> QED
        BY <3>1 DEF Walks
    <2>2. w(n + 1)[n] = w(n)[n]
      <3> HIDE DEF w
      <3> QED
        BY <1>2, WalksAgree
    <2> QED
      BY <2>1, <2>2
  <1> QED
    <2>1. Iterates(F, x, f)
      BY <1>3, <1>4, <1>5 DEF Iterates
    <2> QED
      BY <2>1

-----------------------------------------------------------------------------
(* Departments.                                                            *)

\* The types of the variables of Departments.
DepartmentTypeOK ==
    /\ dept \in [Department -> {"absent", "live", "deleted"}]
    /\ parent \in [Department -> Department \cup {"root"}]
    /\ belongs \subseteq Department \X Staff
    /\ primary \subseteq belongs
    /\ membership \in [Staff -> {"active", "disabled", "removed"}]
    /\ treeTx \in [Department -> Tree!TreeTx]
    /\ leaseLost \in BOOLEAN
    /\ tenantStatus \in {"active", "disabled", "deleted"}
    /\ removal \in Tree!Removal

\* No set of live departments is closed under parent_id.
NoCycle == \A S \in SUBSET {d \in Department : Tree!LiveDepartment(d)} : S # {}
=> \E d \in S : parent[d] \notin S

\* Ids are handed out once: what is named as a parent has been created.
ParentsExist ==
    \A d \in Department :
      /\ Tree!LiveDepartment(d) /\ parent[d] # "root" => dept[parent[d]] # "absent"
      /\ treeTx[d].op = "create" =>
           /\ dept[d] = "absent"
           /\ treeTx[d].parent # "root" => dept[treeTx[d].parent] # "absent"

\* While nobody has lost the lease, one creation or deletion is under way at most, and while the
\* tenant is there what it has checked still holds.
LeaseHolds ==
    ~leaseLost =>
      /\ \A d, e \in Department : treeTx[d].op # "none" /\ treeTx[e].op # "none" => d = e
      /\ tenantStatus # "deleted" => \A d \in Department :
           /\ Tree!LiveDepartment(d) => Tree!ensureDepartmentParent(parent[d])
           /\ treeTx[d].op = "create" => Tree!ensureDepartmentParent(treeTx[d].parent)
           /\ treeTx[d].op = "delete" => Tree!Children(d) = {}

\* A department that is being deleted has no members, unless its row has been written since.
DeletionsAreEmpty ==
    \A d \in Department : treeTx[d].op = "delete" /\ treeTx[d].fresh
    => \A m \in Staff : <<d, m>> \notin belongs

\* A deletion of the tenant has found rows that are there.
RemovedExist == \A d \in removal.depts : dept[d] # "absent"

\* The invariant of the departments.
DepartmentInv ==
    /\ DepartmentTypeOK /\ NoCycle /\ ParentsExist /\ LeaseHolds /\ DeletionsAreEmpty /\ RemovedExist
    /\ Tree!AssignmentsAreSound

\* Ancestor of Departments is a walk along parent_id: as long as it meets live departments,
\* each is the child of the next.
LEMMA Walk ==
  ASSUME NEW p \in Department \cup {"root"}, parent \in [Department -> Department \cup {"root"}]
  PROVE  /\ Tree!Ancestor(p)[0] = p
         /\ \A n \in Nat : Tree!Ancestor(p)[n + 1] =
              IF Tree!LiveDepartment(Tree!Ancestor(p)[n]) THEN parent[Tree!Ancestor(p)[n]] ELSE "root"
  <1> DEFINE D == Department \cup {"root"}
             Up == [x \in D |-> IF Tree!LiveDepartment(x) THEN parent[x] ELSE "root"]
             IsWalk(up) == up = [n \in Nat |-> IF n = 0 THEN p ELSE IF Tree!LiveDepartment(up[n - 1])
                                              THEN parent[up[n - 1]] ELSE "root"]
  <1>1. Up \in [D -> D]
    BY DEF Tree!LiveDepartment
  <1>2. PICK f : Iterates(Up, p, f)
    <2>1. p \in D
      OBVIOUS
    <2> HIDE DEF Up, D
    <2> QED
      BY <1>1, <2>1, Iteration, Zenon
  <1>3. f \in [Nat -> D] /\ f[0] = p /\ \A n \in Nat : f[n + 1] = Up[f[n]]
    BY <1>2 DEF Iterates
  <1>4. IsWalk(f)
    <2>1. \A n \in Nat : n # 0 => n - 1 \in Nat /\ (n - 1) + 1 = n
      OBVIOUS
    <2>2. \A n \in Nat : n # 0 => f[n] = Up[f[n - 1]] /\ f[n - 1] \in D
      BY <1>3, <2>1
    <2> QED
      BY <1>3, <2>2
  <1>5. Tree!Ancestor(p) = CHOOSE up : IsWalk(up)
    BY DEF Tree!Ancestor
  <1>6. IsWalk(Tree!Ancestor(p))
    <2> HIDE DEF IsWalk
    <2> QED
      BY <1>4, <1>5
  <1> QED
    BY <1>6

\* The instance counts as this module does.
LEMMA TreeCardinality == \A S : Tree!Cardinality(S) = Cardinality(S)
  BY Zenon DEF Tree!Cardinality, Cardinality

\* validateDepartmentMove walks up from the new parent: when it gets to the root without
\* meeting the department, the move closes no cycle.
LEMMA MoveKeepsForest ==
  ASSUME DepartmentInv, NEW d \in Department, NEW p \in Department \cup {"root"},
         Tree!LiveDepartment(d), Tree!ensureDepartmentParent(p),
         p # "root" => Tree!validateDepartmentMove(d, p),
         parent' = [parent EXCEPT ![d] = p], UNCHANGED dept
  PROVE  NoCycle'
  <1> SUFFICES ASSUME NEW S \in SUBSET {x \in Department : Tree!LiveDepartment(x)}, S # {},
                      \A x \in S : parent'[x] \in S
               PROVE  FALSE
    BY DEF NoCycle, Tree!LiveDepartment
  <1> DEFINE N == Cardinality(Department)
             up == Tree!Ancestor(p)
             T == S \cap {up[n] : n \in 0..N}
  <1>1. N \in Nat
    BY TreesAssumption, FS_CardinalityType
  <1>2. CASE d \in S
    <2>1. p \in S /\ up[0] = p /\ p \in T
      <3>1. p \in S /\ up[0] = p
        BY <1>2, Walk DEF DepartmentInv, DepartmentTypeOK
      <3> QED
        BY <1>1, <3>1
    <2>0. p # "root" /\ Tree!validateDepartmentMove(d, p)
      BY <2>1, TreesAssumption
    <2>2. ASSUME NEW x \in T PROVE parent[x] \in T
      <3>1. PICK n \in 0..N : x = up[n]
        OBVIOUS
      <3>2. x # d
        BY <2>0, <3>1, TreeCardinality DEF Tree!validateDepartmentMove
      <3>3. parent[x] \in S
        <4>1. x \in Department /\ parent'[x] \in S
          BY <2>2
        <4> QED
          BY <3>2, <4>1 DEF DepartmentInv, DepartmentTypeOK
      <3>4. up[n + 1] = parent[x]
        BY <1>1, <3>1, Walk DEF DepartmentInv, DepartmentTypeOK
      <3>5. n + 1 # N + 1
        BY <2>0, <3>3, <3>4, TreesAssumption, TreeCardinality DEF Tree!validateDepartmentMove
      <3>6. n + 1 \in 0..N
        BY <1>1, <3>5
      <3> QED
        BY <3>3, <3>4, <3>6
    <2> HIDE DEF T
    <2>3. T \in SUBSET {x \in Department : Tree!LiveDepartment(x)}
      BY DEF T
    <2> QED
      BY <2>1, <2>2, <2>3 DEF DepartmentInv, NoCycle
  <1>3. CASE d \notin S
    BY <1>3 DEF DepartmentInv, NoCycle, DepartmentTypeOK
  <1> QED
    BY <1>2, <1>3

\* There are no departments at first.
LEMMA DepartmentsBegin == Tree!Init => DepartmentInv
  <1> SUFFICES ASSUME Tree!Init PROVE DepartmentInv
    OBVIOUS
  <1>1. DepartmentTypeOK
    <2>1. Tree!NoRemoval \in Tree!Removal /\ Tree!NoTx \in Tree!TreeTx
      BY DEF Tree!NoTx, Tree!TreeTx, Tree!NoRemoval, Tree!Removal
    <2> QED
      BY <2>1 DEF Tree!Init, DepartmentTypeOK
  <1>2. NoCycle /\ ParentsExist /\ LeaseHolds /\ DeletionsAreEmpty
    BY DEF Tree!Init, NoCycle, ParentsExist, LeaseHolds, DeletionsAreEmpty, Tree!NoTx, Tree!LiveDepartment
  <1>3. Tree!AssignmentsAreSound /\ RemovedExist
    BY DEF Tree!Init, Tree!AssignmentsAreSound, RemovedExist, Tree!NoRemoval
  <1> QED
    BY <1>1, <1>2, <1>3 DEF DepartmentInv

\* A step of one creation or deletion that writes no row.
LEMMA TreeTxStep ==
  ASSUME DepartmentInv, NEW d \in Department, NEW tx \in Tree!TreeTx, treeTx' = [treeTx EXCEPT ![d] = tx],
         UNCHANGED <<dept, parent, belongs, primary, membership, leaseLost, tenantStatus, removal>>,
         tx.op # "none" => Tree!withDepartmentLock,
         tx.op = "create" => dept[d] = "absent" /\ Tree!ensureDepartmentParent(tx.parent),
         tx.op = "delete" => Tree!Children(d) = {} /\ \A m \in Staff : <<d, m>> \notin belongs
  PROVE  DepartmentInv'
  <1>1. DepartmentTypeOK'
    BY DEF DepartmentInv, DepartmentTypeOK
  <1>2. NoCycle'
    BY DEF DepartmentInv, NoCycle, Tree!LiveDepartment
  <1>3. ParentsExist'
    BY DEF DepartmentInv, DepartmentTypeOK, ParentsExist, Tree!LiveDepartment, Tree!ensureDepartmentParent
  <1>4. LeaseHolds'
    BY DEF DepartmentInv, DepartmentTypeOK, LeaseHolds, Tree!LiveDepartment,
       Tree!ensureDepartmentParent, Tree!Children,
           Tree!withDepartmentLock
  <1>5. DeletionsAreEmpty'
    BY DEF DepartmentInv, DepartmentTypeOK, DeletionsAreEmpty
  <1>6. Tree!AssignmentsAreSound' /\ RemovedExist'
    BY DEF DepartmentInv, Tree!AssignmentsAreSound, Tree!LiveDepartment, RemovedExist
  <1> QED
    BY <1>1, <1>2, <1>3, <1>4, <1>5, <1>6 DEF DepartmentInv

\* Create writes its row: nothing hangs below the new department yet, and its parent is another one.
LEMMA CreateKeeps ==
  ASSUME DepartmentInv, NEW d \in Department, Tree!Create(d) PROVE DepartmentInv'
  <1> USE DEF Tree!Create
  <1>1. /\ treeTx[d] \in Tree!TreeTx /\ dept[d] = "absent" /\ treeTx[d].parent \in Department \cup {"root"}
        /\ treeTx[d].parent # "root" => dept[treeTx[d].parent] # "absent"
        /\ dept' = [dept EXCEPT ![d] = "live"] /\ dept'[d] = "live" /\ parent'[d] = treeTx[d].parent
        /\ \A e \in Department \ {d} : dept'[e] = dept[e] /\ parent'[e] = parent[e] /\ treeTx'[e] = treeTx[e]
        /\ treeTx'[d] = Tree!NoTx
    BY DEF DepartmentInv, DepartmentTypeOK, ParentsExist, Tree!TreeTx
  <1>2. DepartmentTypeOK'
    BY <1>1 DEF DepartmentInv, DepartmentTypeOK, Tree!NoTx, Tree!TreeTx
  <1>3. NoCycle'
    <2> SUFFICES ASSUME NEW S \in SUBSET {x \in Department : Tree!LiveDepartment(x)'}, S # {},
                        \A x \in S : parent'[x] \in S
                 PROVE  FALSE
      BY DEF NoCycle
    <2> DEFINE R == S \ {d}
    <2>1. R # {}
      BY <1>1, TreesAssumption
    <2>2. R \in SUBSET {x \in Department : Tree!LiveDepartment(x)}
      BY <1>1 DEF Tree!LiveDepartment
    <2>3. ASSUME NEW x \in R PROVE parent[x] \in R
      <3>1. x \in Department /\ Tree!LiveDepartment(x) /\ parent[x] \in S
        BY <1>1, <2>2
      <3>2. parent[x] # d \/ dept[d] # "absent"
        BY <3>1, TreesAssumption DEF DepartmentInv, ParentsExist
      <3> QED
        BY <1>1, <3>1, <3>2
    <2> HIDE DEF R
    <2> QED
      BY <2>1, <2>2, <2>3 DEF DepartmentInv, NoCycle
  <1>4. ParentsExist'
    BY <1>1 DEF DepartmentInv, DepartmentTypeOK, ParentsExist, Tree!LiveDepartment, Tree!NoTx
  <1>5. LeaseHolds'
    <2> SUFFICES ASSUME ~leaseLost PROVE LeaseHolds'
      BY DEF LeaseHolds
    <2>1. \A e \in Department : treeTx'[e].op = "none"
      BY <1>1 DEF DepartmentInv, LeaseHolds, Tree!NoTx
    <2>2. tenantStatus # "deleted" => \A e \in Department :
             Tree!LiveDepartment(e)' => Tree!ensureDepartmentParent(parent[e])'
      BY <1>1 DEF DepartmentInv, LeaseHolds, Tree!LiveDepartment, Tree!ensureDepartmentParent
    <2> QED
      BY <1>1, <2>1, <2>2 DEF LeaseHolds, Tree!LiveDepartment, Tree!ensureDepartmentParent
  <1>6. DeletionsAreEmpty'
    BY <1>1 DEF DepartmentInv, DeletionsAreEmpty, Tree!NoTx
  <1>7. Tree!AssignmentsAreSound'
    BY <1>1 DEF DepartmentInv, DepartmentTypeOK, Tree!AssignmentsAreSound, Tree!LiveDepartment
  <1>8. RemovedExist'
    BY <1>1 DEF DepartmentInv, DepartmentTypeOK, Tree!Removal, RemovedExist
  <1> QED
    BY <1>2, <1>3, <1>4, <1>5, <1>6, <1>7, <1>8 DEF DepartmentInv

\* A row of the structure is rewritten: a deletion that has checked it before will find another
\* version.
LEMMA RewrittenTx ==
  ASSUME DepartmentInv, NEW d \in Department, treeTx' = Tree!Rewritten(d)
  PROVE  /\ treeTx' \in [Department -> Tree!TreeTx] /\ ~treeTx'[d].fresh
         /\ \A e \in Department : /\ treeTx'[e].op = treeTx[e].op /\ treeTx'[e].parent = treeTx[e].parent
                                  /\ e # d => treeTx'[e] = treeTx[e]
  BY DEF DepartmentInv, DepartmentTypeOK, Tree!Rewritten, Tree!TreeTx

\* Update, the move included: it needs the lease, and checks the parent and the walk up from
\* it.
LEMMA UpdateKeeps ==
  ASSUME DepartmentInv, NEW d \in Department, NEW p \in Department \cup {"root"}, Tree!Update(d, p)
  PROVE  DepartmentInv'
  <1>1. /\ Tree!LiveDepartment(d) /\ Tree!ensureDepartmentParent(p)
        /\ p # "root" => Tree!validateDepartmentMove(d, p)
        /\ parent' = [parent EXCEPT ![d] = p] /\ treeTx' = Tree!Rewritten(d) /\ Tree!withDepartmentLock
        /\ UNCHANGED <<dept, belongs, primary, membership, leaseLost, tenantStatus, removal>>
        /\ parent'[d] = p
        /\ \A e \in Department \ {d} : parent'[e] = parent[e]
    BY DEF Tree!Update, DepartmentInv, DepartmentTypeOK
  <1>2. DepartmentTypeOK'
    BY <1>1, RewrittenTx DEF DepartmentInv, DepartmentTypeOK
  <1>3. NoCycle'
    BY <1>1, MoveKeepsForest
  <1>4. ParentsExist'
    BY <1>1, RewrittenTx DEF DepartmentInv, ParentsExist, Tree!LiveDepartment, Tree!ensureDepartmentParent
  <1>5. LeaseHolds'
    BY <1>1, RewrittenTx DEF DepartmentInv, LeaseHolds, Tree!LiveDepartment, Tree!ensureDepartmentParent,
           Tree!withDepartmentLock
  <1>6. DeletionsAreEmpty'
    BY <1>1, RewrittenTx DEF DepartmentInv, DeletionsAreEmpty
  <1>7. Tree!AssignmentsAreSound'
    BY <1>1 DEF DepartmentInv, Tree!AssignmentsAreSound, Tree!LiveDepartment
  <1>8. RemovedExist'
    BY <1>1 DEF DepartmentInv, RemovedExist
  <1> QED
    BY <1>2, <1>3, <1>4, <1>5, <1>6, <1>7, <1>8 DEF DepartmentInv

\* Delete writes its row: under the lease it still has no children, and with its version no members.
LEMMA DeleteKeeps ==
  ASSUME DepartmentInv, NEW d \in Department, Tree!Delete(d) PROVE DepartmentInv'
  <1>1. /\ treeTx[d].op = "delete" /\ treeTx[d].fresh /\ Tree!LiveDepartment(d)
        /\ UNCHANGED <<parent, belongs, primary, membership, leaseLost, tenantStatus, removal>>
        /\ treeTx'[d] = Tree!NoTx
        /\ dept'[d] = "deleted" /\ dept' = [dept EXCEPT ![d] = "deleted"]
           /\ treeTx' = [treeTx EXCEPT ![d] = Tree!NoTx]
        /\ \A e \in Department \ {d} : dept'[e] = dept[e] /\ treeTx'[e] = treeTx[e]
    BY DEF Tree!Delete, Tree!DepartmentUnchanged, DepartmentInv, DepartmentTypeOK
  <1>2. DepartmentTypeOK'
    BY <1>1 DEF DepartmentInv, DepartmentTypeOK, Tree!NoTx, Tree!TreeTx
  <1>3. NoCycle'
    BY <1>1 DEF DepartmentInv, NoCycle, Tree!LiveDepartment
  <1>4. ParentsExist'
    BY <1>1 DEF DepartmentInv, DepartmentTypeOK, ParentsExist, Tree!LiveDepartment, Tree!NoTx
  <1>5. LeaseHolds'
    <2> SUFFICES ASSUME ~leaseLost PROVE LeaseHolds'
      BY <1>1 DEF LeaseHolds
    <2>1. \A e \in Department : treeTx'[e].op = "none"
      BY <1>1 DEF DepartmentInv, LeaseHolds, Tree!NoTx
    <2>2. tenantStatus # "deleted" => \A e \in Department : Tree!LiveDepartment(e) =>
             parent[e] # d /\ Tree!ensureDepartmentParent(parent[e])
      BY <1>1 DEF DepartmentInv, LeaseHolds, Tree!Children
    <2>3. tenantStatus # "deleted" => \A e \in Department :
             Tree!LiveDepartment(e)' => Tree!ensureDepartmentParent(parent[e])'
      BY <1>1, <2>2 DEF Tree!LiveDepartment, Tree!ensureDepartmentParent
    <2> QED
      BY <1>1, <2>1, <2>3 DEF LeaseHolds, Tree!LiveDepartment, Tree!ensureDepartmentParent
  <1>6. DeletionsAreEmpty'
    BY <1>1 DEF DepartmentInv, DeletionsAreEmpty, Tree!NoTx
  <1>7. Tree!AssignmentsAreSound'
    <2>1. \A x \in belongs : x \in Department \X Staff /\ x[1] # d
      BY <1>1 DEF DepartmentInv, DepartmentTypeOK, DeletionsAreEmpty
    <2> QED
      BY <1>1, <2>1 DEF DepartmentInv, Tree!AssignmentsAreSound, Tree!LiveDepartment
  <1>8. RemovedExist'
    BY <1>1 DEF DepartmentInv, DepartmentTypeOK, Tree!Removal, RemovedExist
  <1> QED
    BY <1>2, <1>3, <1>4, <1>5, <1>6, <1>7, <1>8 DEF DepartmentInv

\* A step that leaves the structure alone, but for the version of department d.
LEMMA MembersStep ==
  ASSUME DepartmentInv, NEW d \in Department, UNCHANGED <<dept, parent, leaseLost, tenantStatus, removal>>,
         treeTx' \in {treeTx, Tree!Rewritten(d)}, belongs' \subseteq Department \X Staff,
         primary' \subseteq belongs',
         membership' \in [Staff -> {"active", "disabled", "removed"}],
         \A e \in Department, m \in Staff :
            <<e, m>> \in belongs' => <<e, m>> \in belongs \/ (e = d /\ treeTx' = Tree!Rewritten(d)),
         Tree!AssignmentsAreSound'
  PROVE  DepartmentInv'
  <1>1. /\ treeTx' \in [Department -> Tree!TreeTx]
        /\ treeTx' = Tree!Rewritten(d) => ~treeTx'[d].fresh
        /\ \A e \in Department : /\ treeTx'[e].op = treeTx[e].op /\ treeTx'[e].parent = treeTx[e].parent
                                 /\ e # d => treeTx'[e] = treeTx[e]
    BY RewrittenTx DEF DepartmentInv, DepartmentTypeOK
  <1>2. DepartmentTypeOK'
    BY <1>1 DEF DepartmentInv, DepartmentTypeOK
  <1>3. NoCycle'
    BY DEF DepartmentInv, NoCycle, Tree!LiveDepartment
  <1>4. ParentsExist'
    BY <1>1 DEF DepartmentInv, ParentsExist, Tree!LiveDepartment
  <1>5. LeaseHolds'
    BY <1>1 DEF DepartmentInv, LeaseHolds, Tree!LiveDepartment, Tree!ensureDepartmentParent, Tree!Children
  <1>6. DeletionsAreEmpty' /\ RemovedExist'
    BY <1>1 DEF DepartmentInv, DeletionsAreEmpty, RemovedExist
  <1> QED
    BY <1>2, <1>3, <1>4, <1>5, <1>6 DEF DepartmentInv

\* SetMembers writes the members of a live department.
LEMMA SetMembersKeeps ==
  ASSUME DepartmentInv, NEW d \in Department, NEW M \in SUBSET Staff, NEW P \in SUBSET M,
         Tree!SetMembers(d, M, P)
  PROVE  DepartmentInv'
  <1>1. /\ Tree!LiveDepartment(d) /\ \A m \in M : membership[m] = "active"
        /\ belongs' = {x \in belongs : x[1] # d} \cup ({d} \X M)
        /\ primary' = {x \in primary : x[1] # d /\ x[2] \notin P} \cup ({d} \X P)
        /\ treeTx' = Tree!Rewritten(d)
        /\ UNCHANGED <<dept, parent, membership, leaseLost, tenantStatus, removal>>
    BY DEF Tree!SetMembers, Tree!syncDepartmentMembers
  <1>2. belongs' \subseteq Department \X Staff /\ primary' \subseteq belongs'
    BY <1>1 DEF DepartmentInv, DepartmentTypeOK
  <1>3. Tree!AssignmentsAreSound'
    <2>1. tenantStatus # "deleted" =>
            \A x \in belongs' : Tree!LiveDepartment(x[1])' /\ membership'[x[2]] # "removed"
      BY <1>1 DEF DepartmentInv, Tree!AssignmentsAreSound, Tree!LiveDepartment
    <2>2. \A x, y \in primary' : x[2] = y[2] => x = y
      BY <1>1 DEF DepartmentInv, Tree!AssignmentsAreSound
    <2> QED
      BY <1>1, <2>1, <2>2 DEF Tree!AssignmentsAreSound
  <1>4. \A e \in Department, m \in Staff : <<e, m>> \in belongs' => <<e, m>> \in belongs \/ e = d
    BY <1>1
  <1>5. membership' \in [Staff -> {"active", "disabled", "removed"}]
    BY <1>1 DEF DepartmentInv, DepartmentTypeOK
  <1> QED
    BY <1>1, <1>2, <1>3, <1>4, <1>5, MembersStep

\* A member is added, disabled or removed, with its assignments.
LEMMA MemberChanges ==
  ASSUME DepartmentInv, NEW m \in Staff, NEW status \in {"active", "disabled"},
         Tree!RemoveMember(m) \/ Tree!Add(m) \/ Tree!UpdateStatus(m, status)
  PROVE  DepartmentInv'
  <1> USE DEF Tree!RemoveMember, Tree!Add, Tree!UpdateStatus
  <1>1. UNCHANGED <<dept, parent, treeTx, leaseLost, tenantStatus, removal>>
    OBVIOUS
  <1>2. /\ belongs' \subseteq belongs /\ primary' \subseteq primary /\ primary' \subseteq belongs'
        /\ membership' \in [Staff -> {"active", "disabled", "removed"}]
    BY DEF DepartmentInv, DepartmentTypeOK
  <1>3. tenantStatus # "deleted" => \A x \in belongs' : membership'[x[2]] # "removed"
    BY DEF DepartmentInv, DepartmentTypeOK, Tree!AssignmentsAreSound
  <1>4. Tree!AssignmentsAreSound'
    BY <1>1, <1>2, <1>3 DEF DepartmentInv, Tree!AssignmentsAreSound, Tree!LiveDepartment
  <1>5. DepartmentTypeOK'
    BY <1>1, <1>2 DEF DepartmentInv, DepartmentTypeOK
  <1>6. NoCycle' /\ ParentsExist' /\ LeaseHolds' /\ RemovedExist'
    BY <1>1 DEF DepartmentInv, NoCycle, ParentsExist, LeaseHolds, Tree!LiveDepartment,
           Tree!ensureDepartmentParent, Tree!Children, RemovedExist
  <1>7. DeletionsAreEmpty'
    BY <1>1, <1>2 DEF DepartmentInv, DeletionsAreEmpty
  <1> QED
    BY <1>4, <1>5, <1>6, <1>7 DEF DepartmentInv

\* Losing the lease changes nothing that needs no lease.
LEMMA LoseLeaseKeeps == ASSUME DepartmentInv, Tree!LoseLease PROVE DepartmentInv'
  <1>1. DepartmentTypeOK' /\ NoCycle' /\ ParentsExist' /\ LeaseHolds'
    BY DEF Tree!LoseLease, DepartmentInv, DepartmentTypeOK, NoCycle, ParentsExist, LeaseHolds,
       Tree!LiveDepartment
  <1>2. DeletionsAreEmpty' /\ RemovedExist' /\ Tree!AssignmentsAreSound'
    BY DEF Tree!LoseLease, DepartmentInv, DeletionsAreEmpty, RemovedExist,
           Tree!AssignmentsAreSound, Tree!LiveDepartment
  <1> QED
    BY <1>1, <1>2 DEF DepartmentInv

\* The checks of Create and Delete read, and note what they found.
LEMMA ChecksKeep ==
  ASSUME DepartmentInv, NEW d \in Department, NEW p \in Department \cup {"root"},
         Tree!CreateChecks(d, p) \/ Tree!DeleteChecks(d) \/ Tree!TreeTxFails(d)
  PROVE  DepartmentInv'
  <1>1. CASE Tree!CreateChecks(d, p)
    <2> DEFINE tx == [op |-> "create", parent |-> p, fresh |-> TRUE]
    <2>1. tx \in Tree!TreeTx /\ tx.op = "create" /\ tx.parent = p
      BY DEF Tree!TreeTx
    <2>2. /\ dept[d] = "absent" /\ Tree!withDepartmentLock /\ Tree!ensureDepartmentParent(p)
          /\ treeTx' = [treeTx EXCEPT ![d] = tx]
          /\ UNCHANGED <<dept, parent, belongs, primary, membership, leaseLost, tenantStatus, removal>>
      BY <1>1 DEF Tree!CreateChecks
    <2> HIDE DEF tx
    <2> QED
      BY <2>1, <2>2, TreeTxStep
  <1>2. CASE Tree!DeleteChecks(d)
    <2> DEFINE tx == [op |-> "delete", parent |-> "root", fresh |-> TRUE]
    <2>1. tx \in Tree!TreeTx /\ tx.op = "delete"
      BY DEF Tree!TreeTx
    <2>2. /\ Tree!withDepartmentLock /\ Tree!Children(d) = {} /\ \A m \in Staff : <<d, m>> \notin belongs
          /\ treeTx' = [treeTx EXCEPT ![d] = tx]
          /\ UNCHANGED <<dept, parent, belongs, primary, membership, leaseLost, tenantStatus, removal>>
      BY <1>2 DEF Tree!DeleteChecks
    <2> HIDE DEF tx
    <2> QED
      BY <2>1, <2>2, TreeTxStep
  <1>3. CASE Tree!TreeTxFails(d)
    <2>1. Tree!NoTx \in Tree!TreeTx /\ Tree!NoTx.op = "none"
      BY DEF Tree!TreeTx, Tree!NoTx
    <2>2. /\ treeTx' = [treeTx EXCEPT ![d] = Tree!NoTx]
          /\ UNCHANGED <<dept, parent, belongs, primary, membership, leaseLost, tenantStatus, removal>>
      BY <1>3 DEF Tree!TreeTxFails
    <2> QED
      BY <2>1, <2>2, TreeTxStep
  <1> QED
    BY <1>1, <1>2, <1>3

\* The tenant is renamed, disabled or enabled; or a deletion of it finds rows, or rolls back.
LEMMA TenantStep ==
  ASSUME DepartmentInv, NEW status \in {"active", "disabled"},
         Tree!UpdateTenant(status) \/ Tree!deleteTenantRows \/ Tree!deleteTenantFails
  PROVE  DepartmentInv'
  <1>1. /\ UNCHANGED <<dept, parent, belongs, primary, membership, treeTx, leaseLost>>
        /\ tenantStatus' = "deleted" <=> tenantStatus = "deleted"
        /\ tenantStatus' \in {"active", "disabled", "deleted"}
    BY DEF Tree!UpdateTenant, Tree!deleteTenantRows, Tree!deleteTenantFails, DepartmentInv, DepartmentTypeOK
  <1>2. removal' \in Tree!Removal /\ RemovedExist'
    <2>1. removal \in Tree!Removal /\ RemovedExist
      BY DEF DepartmentInv, DepartmentTypeOK
    <2>2. CASE Tree!UpdateTenant(status)
      BY <2>1, <2>2 DEF Tree!UpdateTenant, Tree!Removal, RemovedExist
    <2>3. CASE Tree!deleteTenantFails
      BY <1>1, <2>3 DEF Tree!deleteTenantFails, Tree!NoRemoval, Tree!Removal, RemovedExist
    <2>4. CASE Tree!deleteTenantRows
      <3>1. belongs \in SUBSET (Department \X Staff) /\ removal.at + 1 \in 0..3
        BY <2>1, <2>4 DEF Tree!deleteTenantRows, Tree!Removal, DepartmentInv, DepartmentTypeOK
      <3>2. removal' \in Tree!Removal
        BY <2>1, <2>4, <3>1 DEF Tree!deleteTenantRows, Tree!Removal
      <3>3. removal'.depts = removal.depts
            \/ removal'.depts = {d \in Department : Tree!LiveDepartment(d)}
        BY <2>4 DEF Tree!deleteTenantRows
      <3> QED
        BY <1>1, <2>1, <3>2, <3>3 DEF RemovedExist, Tree!LiveDepartment
    <2> QED
      BY <2>2, <2>3, <2>4
  <1>3. DepartmentTypeOK'
    BY <1>1, <1>2 DEF DepartmentInv, DepartmentTypeOK
  <1>4. NoCycle' /\ ParentsExist' /\ LeaseHolds' /\ DeletionsAreEmpty' /\ Tree!AssignmentsAreSound'
    BY <1>1 DEF DepartmentInv, NoCycle, ParentsExist, LeaseHolds, DeletionsAreEmpty,
           Tree!AssignmentsAreSound, Tree!LiveDepartment, Tree!ensureDepartmentParent, Tree!Children
  <1> QED
    BY <1>2, <1>3, <1>4 DEF DepartmentInv

\* A deletion of the tenant deletes the rows that its UPDATEs have found: no department comes back,
\* and of those that remain no set is closed under parent_id that was not so before.
LEMMA DeleteTenantKeeps == ASSUME DepartmentInv, Tree!deleteTenant PROVE DepartmentInv'
  <1>1. /\ tenantStatus' = "deleted" /\ removal' = Tree!NoRemoval /\ UNCHANGED <<parent, leaseLost>>
        /\ belongs' = belongs \ removal.belongs /\ primary' = primary \ removal.belongs
        /\ membership' \in [Staff -> {"active", "disabled", "removed"}]
        /\ dept' \in [Department -> {"absent", "live", "deleted"}]
    BY DEF Tree!deleteTenant, DepartmentInv, DepartmentTypeOK
  <1>2. /\ \A d \in Department : dept'[d] = "live" => dept[d] = "live"
        /\ \A d \in Department : dept'[d] = "absent" <=> dept[d] = "absent"
    <2>1. dept \in [Department -> {"absent", "live", "deleted"}] /\ RemovedExist
      BY DEF DepartmentInv, DepartmentTypeOK
    <2>2. dept' = [d \in Department |-> IF d \in removal.depts THEN "deleted" ELSE dept[d]]
      BY DEF Tree!deleteTenant
    <2> QED
      BY <2>1, <2>2 DEF RemovedExist
  <1>3. /\ treeTx' \in [Department -> Tree!TreeTx]
        /\ \A d \in Department : /\ treeTx'[d].op = treeTx[d].op /\ treeTx'[d].parent = treeTx[d].parent
                                 /\ treeTx'[d].fresh => treeTx[d].fresh
    <2>1. treeTx \in [Department -> Tree!TreeTx]
      BY DEF DepartmentInv, DepartmentTypeOK
    <2>2. treeTx' = [d \in Department |->
                       [treeTx[d] EXCEPT !.fresh = treeTx[d].fresh /\ d \notin removal.depts]]
      BY DEF Tree!deleteTenant
    <2>3. ASSUME NEW d \in Department
          PROVE  /\ treeTx'[d] \in Tree!TreeTx /\ treeTx'[d].op = treeTx[d].op
                 /\ treeTx'[d].parent = treeTx[d].parent
                 /\ treeTx'[d].fresh => treeTx[d].fresh
      BY <2>1, <2>2 DEF Tree!TreeTx
    <2>4. treeTx' = [d \in Department |-> treeTx'[d]]
      BY <2>2
    <2>5. treeTx' \in [Department -> Tree!TreeTx]
      BY <2>3, <2>4
    <2> QED
      BY <2>3, <2>5
  <1>4. DepartmentTypeOK'
    BY <1>1, <1>3 DEF DepartmentInv, DepartmentTypeOK, Tree!NoRemoval, Tree!Removal
  <1>5. NoCycle'
    BY <1>1, <1>2 DEF DepartmentInv, NoCycle, Tree!LiveDepartment
  <1>6. ParentsExist'
    BY <1>1, <1>2, <1>3 DEF DepartmentInv, DepartmentTypeOK, ParentsExist, Tree!LiveDepartment, Tree!TreeTx
  <1>7. LeaseHolds' /\ DeletionsAreEmpty'
    BY <1>1, <1>3 DEF DepartmentInv, LeaseHolds, DeletionsAreEmpty
  <1>8. Tree!AssignmentsAreSound' /\ RemovedExist'
    BY <1>1 DEF DepartmentInv, Tree!AssignmentsAreSound, RemovedExist, Tree!NoRemoval
  <1> QED
    BY <1>4, <1>5, <1>6, <1>7, <1>8 DEF DepartmentInv

\* Every step of the departments keeps their invariant.
LEMMA DepartmentsStep == ASSUME DepartmentInv, [Tree!Next]_(Tree!vars) PROVE DepartmentInv'
  <1>1. ASSUME NEW d \in Department, Tree!Create(d) \/ Tree!Delete(d) PROVE DepartmentInv'
    BY <1>1, CreateKeeps, DeleteKeeps
  <1>2. ASSUME NEW d \in Department, Tree!DeleteChecks(d) \/ Tree!TreeTxFails(d) PROVE DepartmentInv'
    BY <1>2, ChecksKeep
  <1>3. ASSUME NEW d \in Department, NEW p \in Department \cup {"root"}, Tree!CreateChecks(d, p)
               \/ Tree!Update(d, p)
        PROVE  DepartmentInv'
    BY <1>3, ChecksKeep, UpdateKeeps
  <1>4. ASSUME NEW d \in Department, NEW M \in SUBSET Staff, NEW P \in SUBSET M, Tree!SetMembers(d, M, P)
        PROVE  DepartmentInv'
    BY <1>4, SetMembersKeeps
  <1>5. ASSUME NEW m \in Staff, Tree!RemoveMember(m) \/ Tree!Add(m) PROVE DepartmentInv'
    BY <1>5, MemberChanges
  <1>6. ASSUME NEW m \in Staff, NEW status \in {"active", "disabled"}, Tree!UpdateStatus(m, status)
        PROVE  DepartmentInv'
    BY <1>6, MemberChanges
  <1>8. ASSUME NEW status \in {"active", "disabled"},
               Tree!UpdateTenant(status) \/ Tree!deleteTenantRows \/ Tree!deleteTenantFails
        PROVE  DepartmentInv'
    BY <1>8, TenantStep
  <1>7. CASE UNCHANGED Tree!vars
    <2>1. UNCHANGED <<dept, parent, belongs, primary, membership, treeTx, leaseLost, tenantStatus, removal>>
      BY <1>7 DEF Tree!vars
    <2> QED
      BY <2>1 DEF DepartmentInv, DepartmentTypeOK, NoCycle, ParentsExist, LeaseHolds, DeletionsAreEmpty,
             RemovedExist, Tree!AssignmentsAreSound, Tree!LiveDepartment, Tree!ensureDepartmentParent,
             Tree!Children
  <1> QED
    BY <1>1, <1>2, <1>3, <1>4, <1>5, <1>6, <1>7, <1>8, LoseLeaseKeeps, DeleteTenantKeeps DEF Tree!Next

\* What the properties say of the departments is part of the invariant.
LEMMA ForestHolds == DepartmentInv => Tree!DepartmentsAreForest /\ Tree!AssignmentsAreSound
  BY DEF DepartmentInv, NoCycle, LeaseHolds, Tree!DepartmentsAreForest

\* DepartmentsAreForest and AssignmentsAreSound of Departments: no sequence of concurrent
\* creations, moves and deletions (internal/tenant) closes a cycle, and none leaves a
\* department below a deleted one while the lease holds and the tenant is there; a tenant's
\* members belong to its departments, also while the steps of its deletion interleave with them.
THEOREM DepartmentsSound == Tree!Spec => [](Tree!DepartmentsAreForest /\ Tree!AssignmentsAreSound)
  <1>1. DepartmentInv /\ [Tree!Next]_(Tree!vars) => DepartmentInv'
    BY DepartmentsStep
  <1> QED
    BY <1>1, DepartmentsBegin, ForestHolds, PTL DEF Tree!Spec

-----------------------------------------------------------------------------
(* Dictionaries.                                                           *)

\* What a step up leads to.
Up(rows) == [x \in Item \cup {"root"} |-> IF x \in Dictionaries!Live(rows) THEN rows[x].up ELSE "root"]

\* What a row of items may hold.
ItemRow == [state : {"absent", "live", "deleted"}, up : Item \cup {"root"}, value : Value \cup {""},
            disabled : BOOLEAN]

\* The number of the items.
Steps == Cardinality(Item)

\* The number of the items is a number, and the instance counts as this module does.
LEMMA ItemCardinality == Steps \in Nat /\ \A S : Dictionaries!Cardinality(S) = Cardinality(S)
  <1>1. \A S : Dictionaries!Cardinality(S) = Cardinality(S)
    BY Zenon DEF Dictionaries!Cardinality, Cardinality
  <1>2. Steps \in Nat
    BY FS_CardinalityType, TreesAssumption DEF Steps
  <1> QED
    BY <1>1, <1>2

\* A step up leads from an item or the root to one of them.
LEMMA UpIsFunction ==
  ASSUME NEW rows \in [Item -> ItemRow]
  PROVE  /\ Up(rows) \in [Item \cup {"root"} -> Item \cup {"root"}] /\ Up(rows)["root"] = "root"
         /\ \A x \in Item : Up(rows)[x] = IF rows[x].state = "live" THEN rows[x].up ELSE "root"
  BY TreesAssumption DEF Up, ItemRow, Dictionaries!Live

\* Path is where the walk up has been.
LEMMA PathIsWalk ==
  ASSUME NEW rows \in [Item -> ItemRow], NEW i \in Item
  PROVE  \E g \in Walks(Up(rows), i, Steps) : Dictionaries!Path(rows, i) = {g[n] : n \in 0..Steps} \ {"root"}
  <1> DEFINE D == Item \cup {"root"}
             IsPath(up) == up = [n \in 0..Steps |-> IF n = 0 THEN i ELSE IF up[n - 1] \in Dictionaries!Live(rows)
                                                   THEN rows[up[n - 1]].up ELSE "root"]
             path == CHOOSE up : IsPath(up)
  <1>1. Steps \in Nat /\ i \in D /\ Up(rows) \in [D -> D]
    BY ItemCardinality, UpIsFunction
  <1>2. PICK g : g \in Walks(Up(rows), i, Steps)
    <2> HIDE DEF D
    <2> QED
      BY <1>1, WalkExists
  <1>3. g \in [0..Steps -> D] /\ g[0] = i /\ \A n \in 0..(Steps - 1) : g[n + 1] = Up(rows)[g[n]]
    BY <1>1, <1>2 DEF Walks
  <1>4. IsPath(g)
    <2>1. \A n \in 0..Steps : n # 0 => n - 1 \in 0..(Steps - 1) /\ n - 1 \in 0..Steps /\ (n - 1) + 1 = n
      BY <1>1
    <2>2. \A n \in 0..Steps : n # 0 => g[n] = Up(rows)[g[n - 1]] /\ g[n - 1] \in D
      BY <1>3, <2>1
    <2> QED
      BY <1>3, <2>2 DEF Up
  <1>5. IsPath(path)
    <2> HIDE DEF IsPath
    <2> QED
      BY <1>4
  <1>6. path \in Walks(Up(rows), i, Steps)
    <2> HIDE DEF path
    <2>1. DOMAIN path = 0..Steps /\ path[0] = i
      BY <1>1, <1>5
    <2>2. \A n \in 0..(Steps - 1) : n + 1 \in 0..Steps /\ n + 1 # 0 /\ (n + 1) - 1 = n
      BY <1>1
    <2>3. \A n \in 0..(Steps - 1) :
             path[n + 1] = IF path[n] \in Dictionaries!Live(rows) THEN rows[path[n]].up ELSE "root"
      BY <1>5, <2>2
    <2>4. \A n \in 0..Steps : path[n] \in D
      <3>1. \A n \in 0..Steps : n = 0 \/ (n - 1 \in 0..(Steps - 1) /\ (n - 1) + 1 = n)
        BY <1>1
      <3>2. \A x \in Dictionaries!Live(rows) : rows[x].up \in D
        BY DEF Dictionaries!Live, ItemRow
      <3> QED
        BY <1>1, <2>1, <2>3, <3>1, <3>2
    <2>5. \A n \in 0..(Steps - 1) : path[n + 1] = Up(rows)[path[n]]
      <3>1. \A n \in 0..(Steps - 1) : n \in 0..Steps
        BY <1>1
      <3> QED
        BY <2>3, <2>4, <3>1 DEF Up
    <2>6. path = [n \in 0..Steps |-> path[n]]
      BY <1>5
    <2> QED
      BY <1>1, <2>1, <2>4, <2>5, <2>6 DEF Walks
  <1>7. Dictionaries!Path(rows, i) = {path[n] : n \in 0..Steps} \ {"root"}
    BY ItemCardinality DEF Dictionaries!Path, Steps
  <1> HIDE DEF path
  <1> QED
    BY <1>6, <1>7

\* The item is on its path, and whoever else is on it is the parent of one that is.
LEMMA PathComesFrom ==
  ASSUME NEW rows \in [Item -> ItemRow], NEW i \in Item
  PROVE  /\ i \in Dictionaries!Path(rows, i) /\ Dictionaries!Path(rows, i) \subseteq Item
         /\ \A y \in Dictionaries!Path(rows, i) :
               y = i \/ \E z \in Dictionaries!Path(rows, i) : rows[z].state = "live" /\ rows[z].up = y
  <1> DEFINE D == Item \cup {"root"}
  <1>1. PICK g \in Walks(Up(rows), i, Steps) : Dictionaries!Path(rows, i) = {g[n] : n \in 0..Steps} \ {"root"}
    BY PathIsWalk
  <1>2. Steps \in Nat /\ i \in D /\ Up(rows) \in [D -> D]
    BY ItemCardinality, UpIsFunction
  <1>3. \A n \in 0..Steps : g[n] \in D /\ (g[n] = i \/ \E k \in 0..Steps : g[n] = Up(rows)[g[k]])
    <2> HIDE DEF D
    <2> QED
      BY <1>2, WalkComesFrom
  <1>4. i \in Dictionaries!Path(rows, i)
    BY <1>1, <1>2, TreesAssumption DEF Walks
  <1>5. ASSUME NEW y \in Dictionaries!Path(rows, i), y # i
        PROVE  \E z \in Dictionaries!Path(rows, i) : rows[z].state = "live" /\ rows[z].up = y
    <2>1. PICK n \in 0..Steps : y = g[n] /\ y # "root"
      BY <1>1
    <2>2. PICK k \in 0..Steps : y = Up(rows)[g[k]]
      BY <1>3, <1>5, <2>1
    <2>3. g[k] \in D
      BY <1>3
    <2>4. g[k] # "root"
      BY <2>1, <2>2, UpIsFunction
    <2>5. rows[g[k]].state = "live" /\ rows[g[k]].up = y
      BY <2>1, <2>2, <2>3, <2>4, UpIsFunction
    <2> QED
      BY <1>1, <2>4, <2>5
  <1> QED
    BY <1>1, <1>3, <1>4, <1>5

\* A path that ends at a root item holds the parents of all of its items.
LEMMA PathIsClosed ==
  ASSUME NEW rows \in [Item -> ItemRow], NEW i \in Item, Dictionaries!Rooted(rows, i)
  PROVE  \A y \in Dictionaries!Path(rows, i) :
            /\ rows[y].state = "live" /\ (rows[y].up = "root" \/ rows[y].up \in Dictionaries!Path(rows, i))
  <1> DEFINE D == Item \cup {"root"}
  <1>1. PICK g \in Walks(Up(rows), i, Steps) : Dictionaries!Path(rows, i) = {g[n] : n \in 0..Steps} \ {"root"}
    BY PathIsWalk
  <1>2. Steps \in Nat /\ i \in D /\ Up(rows) \in [D -> D] /\ "root" \in D /\ Up(rows)["root"] = "root"
    BY ItemCardinality, UpIsFunction
  <1>3. /\ \A y \in Dictionaries!Path(rows, i) : y \in Item /\ rows[y].state = "live"
        /\ \E r \in Dictionaries!Path(rows, i) : rows[r].up = "root"
    BY DEF Dictionaries!Rooted, Dictionaries!Live
  <1>4. PICK m \in 0..Steps : Up(rows)[g[m]] = "root"
    BY <1>1, <1>3, UpIsFunction
  <1>5. \A n \in 0..Steps : Up(rows)[g[n]] = "root" \/ \E k \in 0..Steps : Up(rows)[g[n]] = g[k]
    <2> HIDE DEF D
    <2> QED
      BY <1>2, <1>4, WalkIsClosed
  <1> QED
    BY <1>1, <1>3, <1>5, UpIsFunction

\* A set that holds the parents of its items holds the paths of its items.
LEMMA PathStaysIn ==
  ASSUME NEW rows \in [Item -> ItemRow], NEW i \in Item, NEW S, i \in S,
         \A y \in S \cap Dictionaries!Live(rows) : rows[y].up = "root" \/ rows[y].up \in S
  PROVE  Dictionaries!Path(rows, i) \subseteq S
  <1> DEFINE D == Item \cup {"root"}
             R == S \cup {"root"}
  <1>1. PICK g \in Walks(Up(rows), i, Steps) : Dictionaries!Path(rows, i) = {g[n] : n \in 0..Steps} \ {"root"}
    BY PathIsWalk
  <1>2. Steps \in Nat /\ i \in D /\ Up(rows) \in [D -> D] /\ i \in R
    BY ItemCardinality, UpIsFunction
  <1>3. \A y \in R \cap D : Up(rows)[y] \in R
    BY UpIsFunction DEF Up
  <1>4. \A n \in 0..Steps : g[n] \in R
    <2> HIDE DEF D, R
    <2> QED
      BY <1>2, <1>3, WalkStaysIn
  <1> QED
    BY <1>1, <1>4

\* Rows that agree along a path have the same path.
LEMMA PathTransfers ==
  ASSUME NEW rows \in [Item -> ItemRow], NEW other \in [Item -> ItemRow], NEW i \in Item,
         \A y \in Dictionaries!Path(rows, i) : other[y].state = rows[y].state /\ other[y].up = rows[y].up
  PROVE  /\ Dictionaries!Path(other, i) = Dictionaries!Path(rows, i)
         /\ Dictionaries!Rooted(rows, i) => Dictionaries!Rooted(other, i)
  <1> DEFINE D == Item \cup {"root"}
  <1>1. PICK g \in Walks(Up(rows), i, Steps) : Dictionaries!Path(rows, i) = {g[n] : n \in 0..Steps} \ {"root"}
    BY PathIsWalk
  <1>2. PICK h \in Walks(Up(other), i, Steps) : Dictionaries!Path(other,
             i) = {h[n] : n \in 0..Steps} \ {"root"}
    BY PathIsWalk
  <1>3. Steps \in Nat /\ i \in D /\ Up(rows) \in [D -> D] /\ Up(other) \in [D -> D]
    BY ItemCardinality, UpIsFunction
  <1>4. \A n \in 0..Steps : Up(other)[g[n]] = Up(rows)[g[n]]
    <2>1. \A n \in 0..Steps : g[n] \in D
      BY <1>3 DEF Walks
    <2> QED
      BY <1>1, <2>1, UpIsFunction
  <1>5. g \in Walks(Up(other), i, Steps)
    <2> HIDE DEF D
    <2> QED
      BY <1>3, <1>4, WalkTransfers
  <1>6. \A n \in 0..Steps : g[n] = h[n]
    <2> HIDE DEF D
    <2>1. \A n \in 0..Steps : n \in Nat /\ n <= Steps
      BY <1>3
    <2> QED
      BY <1>3, <1>5, <2>1, WalksAgree
  <1>7. Dictionaries!Path(other, i) = Dictionaries!Path(rows, i)
    BY <1>1, <1>2, <1>6
  <1> QED
    BY <1>7 DEF Dictionaries!Rooted, Dictionaries!Live

\* The types of the variables of Dictionary.
DictionaryTypeOK ==
    /\ definition \in [state : {"absent", "active", "disabled", "deleted"}, kind : {"enum", "tree"},
                       source : {"static", "provider"}, version : Nat]
    /\ item \in [Item -> ItemRow]
    /\ revision \in Nat
    /\ query \in [on : BOOLEAN, version : Nat, since : Nat, total : Nat]
    /\ \A e \in stored : e \in [version : Nat, items : Nat, total : Nat]

\* Before there is a definition there are no items.
NotYet == definition.state = "absent" => definition.version = 0 /\ Dictionaries!Live(item) = {}

\* The items of a tree hang together, and they are not too many.
ItemsStand ==
    definition.kind = "tree" => /\ Dictionaries!validateStoredTreeDepth(item)
                                /\ Cardinality(Dictionaries!Live(item)) <= MaxTreeNodes

\* No two items have the same value.
ValuesDiffer ==
    \A i, j \in Dictionaries!Live(item) :
       Dictionaries!Selectable(item, i) = Dictionaries!Selectable(item, j) => i = j

\* What a query has read, and what the cache holds, against the version of the definition.
VersionsTell ==
    /\ query.on => /\ query.version <= definition.version /\ query.since <= revision
                   /\ query.version = definition.version => query.since = revision
    /\ query.on /\ query.total # 0 => query.since <= query.total - 1 /\ query.total - 1 <= revision
    /\ \A e \in stored :
          /\ e.version <= definition.version
          /\ e.version = definition.version => e.items = revision /\ e.total = revision
          /\ query.on /\ e.version = query.version => query.since <= e.items /\ query.since <= e.total

\* The invariant of a dictionary. That its items stand needs statements that read anew.
DictionaryInv ==
    /\ DictionaryTypeOK /\ NotYet /\ ValuesDiffer /\ VersionsTell
    /\ ~SnapshotReads => ItemsStand

\* There is no dictionary at first.
LEMMA DictionaryBegins == Dictionaries!Init => DictionaryInv
  <1> SUFFICES ASSUME Dictionaries!Init PROVE DictionaryInv
    OBVIOUS
  <1> USE DEF Dictionaries!Init
  <1>1. DictionaryTypeOK
    BY DEF DictionaryTypeOK, Dictionaries!NoItem, Dictionaries!NoQuery, ItemRow
  <1>2. Dictionaries!Live(item) = {}
    BY DEF Dictionaries!Live, Dictionaries!NoItem
  <1>3. NotYet /\ ValuesDiffer /\ VersionsTell
    BY <1>2 DEF NotYet, ValuesDiffer, VersionsTell, Dictionaries!NoQuery
  <1>4. Cardinality({}) = 0
    BY FS_EmptySet
  <1>5. ItemsStand
    BY <1>2, <1>4, TreesAssumption DEF ItemsStand, Dictionaries!validateStoredTreeDepth
  <1> QED
    BY <1>1, <1>3, <1>5 DEF DictionaryInv

\* The definition gets another version: nothing that was read or cached is of that version.
LEMMA VersionGrows ==
  ASSUME DictionaryInv, definition' \in [state : {"absent", "active", "disabled", "deleted"},
         kind : {"enum", "tree"},
                                         source : {"static", "provider"}, version : Nat],
         definition.version < definition'.version, revision' \in Nat, revision <= revision',
         UNCHANGED <<query, stored>>
  PROVE  VersionsTell'
  <1>1. definition.version \in Nat /\ definition'.version \in Nat /\ revision \in Nat /\ query.version \in Nat
        /\ query.since \in Nat /\ query.total \in Nat /\ query.on \in BOOLEAN
    BY DEF DictionaryInv, DictionaryTypeOK
  <1>2. \A e \in stored : e.version \in Nat /\ e.items \in Nat /\ e.total \in Nat
    BY DEF DictionaryInv, DictionaryTypeOK
  <1> QED
    BY <1>1, <1>2 DEF DictionaryInv, VersionsTell

\* The definition is changed, and no item.
LEMMA DefinitionStep ==
  ASSUME DictionaryInv, NEW d \in [state : {"active", "disabled", "deleted"}, kind : {"enum", "tree"},
                                   source : {"static", "provider"}, version : Nat],
         definition' = d, definition.version < d.version,
         d.kind = definition.kind \/ Dictionaries!Live(item) = {}, UNCHANGED <<item, revision, query, stored>>
  PROVE  DictionaryInv'
  <1>1. DictionaryTypeOK' /\ NotYet' /\ ValuesDiffer'
    BY DEF DictionaryInv, DictionaryTypeOK, NotYet, ValuesDiffer, Dictionaries!Live, Dictionaries!Selectable
  <1>2. VersionsTell'
    <2>1. revision' \in Nat /\ revision <= revision' /\ definition' \in
            [state : {"absent", "active", "disabled", "deleted"}, kind : {"enum", "tree"},
             source : {"static", "provider"}, version : Nat]
      BY DEF DictionaryInv, DictionaryTypeOK
    <2> QED
      BY <2>1, VersionGrows
  <1>3. ASSUME ~SnapshotReads PROVE ItemsStand'
    <2>1. CASE d.kind = definition.kind
      BY <1>3, <2>1 DEF DictionaryInv, ItemsStand, Dictionaries!validateStoredTreeDepth, Dictionaries!Live
    <2>2. CASE Dictionaries!Live(item) = {}
      <3>1. Cardinality({}) = 0
        BY FS_EmptySet
      <3>2. item' = item /\ Dictionaries!Live(item') = {}
        BY <2>2
      <3> QED
        BY <3>1, <3>2, TreesAssumption DEF ItemsStand, Dictionaries!validateStoredTreeDepth
    <2> QED
      BY <2>1, <2>2
  <1> QED
    BY <1>1, <1>2, <1>3 DEF DictionaryInv

\* CreateDefinition, UpdateDefinition and DeleteDefinition.
LEMMA DefinitionKeeps ==
  ASSUME DictionaryInv, NEW kind \in {"enum", "tree"}, NEW source_ \in {"static", "provider"},
         NEW status \in {"active", "disabled"},
         \/ Dictionaries!CreateDefinition(kind, source_, status)
         \/ Dictionaries!UpdateDefinition(status)
         \/ Dictionaries!DeleteDefinition
  PROVE  DictionaryInv'
  <1>1. CASE Dictionaries!CreateDefinition(kind, source_, status)
    <2> DEFINE d == [state |-> status, kind |-> kind, source |-> source_, version |-> 1]
    <2>1. /\ d \in [state : {"active", "disabled", "deleted"}, kind : {"enum", "tree"},
                    source : {"static", "provider"}, version : Nat]
          /\ d.version = 1
      OBVIOUS
    <2>2. definition' = d /\ definition.state = "absent" /\ UNCHANGED <<item, revision, query, stored>>
      BY <1>1 DEF Dictionaries!CreateDefinition
    <2>3. definition.version = 0 /\ Dictionaries!Live(item) = {}
      BY <2>2 DEF DictionaryInv, NotYet
    <2> HIDE DEF d
    <2> QED
      BY <2>1, <2>2, <2>3, DefinitionStep
  <1>2. CASE Dictionaries!UpdateDefinition(status) \/ Dictionaries!DeleteDefinition
    <2>1. PICK d : definition' = d
      OBVIOUS
    <2>2. /\ d \in [state : {"active", "disabled", "deleted"}, kind : {"enum", "tree"},
                    source : {"static", "provider"}, version : Nat]
          /\ definition.version < d.version /\ d.kind = definition.kind
      <3>1. definition \in [state : {"absent", "active", "disabled", "deleted"}, kind : {"enum", "tree"},
                            source : {"static", "provider"}, version : Nat]
        BY DEF DictionaryInv, DictionaryTypeOK
      <3>2. PICK state \in {"active", "disabled", "deleted"} :
               d = [definition EXCEPT !.state = state, !.version = definition.version + 1]
        BY <1>2, <2>1 DEF Dictionaries!UpdateDefinition, Dictionaries!DeleteDefinition
      <3>3. d = [state |-> state, kind |-> definition.kind, source |-> definition.source,
                 version |-> definition.version + 1]
        BY <3>1, <3>2
      <3>4. definition.kind \in {"enum", "tree"} /\ definition.source \in {"static", "provider"}
            /\ definition.version \in Nat
        BY <3>1
      <3> QED
        BY <3>3, <3>4
    <2>3. UNCHANGED <<item, revision, query, stored>>
      BY <1>2 DEF Dictionaries!UpdateDefinition, Dictionaries!DeleteDefinition
    <2> QED
      BY <2>1, <2>2, <2>3, DefinitionStep
  <1> QED
    BY <1>1, <1>2

\* Items are changed: the definition gets the next version.
LEMMA ItemsStep ==
  ASSUME DictionaryInv, definition' = Dictionaries!Touched, revision' = revision + 1,
         UNCHANGED <<query, stored>>,
         Dictionaries!Kept, item' \in [Item -> ItemRow], ValuesDiffer', ~SnapshotReads => ItemsStand'
  PROVE  DictionaryInv'
  <1>1. /\ definition' = [definition EXCEPT !.version = definition.version + 1] /\ definition.version \in Nat
        /\ definition' \in [state : {"absent", "active", "disabled", "deleted"}, kind : {"enum", "tree"},
                            source : {"static", "provider"}, version : Nat]
        /\ definition'.version = definition.version + 1 /\ definition'.state = definition.state
           /\ revision \in Nat
    BY DEF DictionaryInv, DictionaryTypeOK, Dictionaries!Touched
  <1>2. DictionaryTypeOK' /\ NotYet'
    BY <1>1 DEF DictionaryInv, DictionaryTypeOK, NotYet, Dictionaries!Kept
  <1>3. VersionsTell'
    <2>1. revision' \in Nat /\ revision <= revision' /\ definition.version < definition'.version
      BY <1>1
    <2> QED
      BY <1>1, <2>1, VersionGrows
  <1> QED
    BY <1>2, <1>3 DEF DictionaryInv

\* An item gets values that no other has.
LEMMA ValueIsFree ==
  ASSUME DictionaryInv, NEW i \in Item, NEW in \in Dictionaries!Input, item' = [item EXCEPT ![i] = in],
         Dictionaries!ensureSelectableValueAvailable(i, in)
  PROVE  /\ item' \in [Item -> ItemRow] /\ Dictionaries!Live(item)' = Dictionaries!Live(item) \cup {i}
         /\ ValuesDiffer'
  <1>1. in \in ItemRow /\ in.state = "live"
    BY TreesAssumption DEF Dictionaries!Input, ItemRow
  <1>2. item' \in [Item -> ItemRow] /\ item'[i] = in /\ \A j \in Item \ {i} : item'[j] = item[j]
    BY <1>1 DEF DictionaryInv, DictionaryTypeOK
  <1>3. Dictionaries!Live(item)' = Dictionaries!Live(item) \cup {i}
    BY <1>1, <1>2 DEF Dictionaries!Live
  <1>4. ValuesDiffer'
    <2>1. \A j \in Dictionaries!Live(item) \ {i} : /\ j \in Item /\ item'[j] = item[j]
                                                  /\ Dictionaries!Selectable(item',
                                                     j) = Dictionaries!Selectable(item, j)
      BY <1>2 DEF Dictionaries!Selectable, Dictionaries!Live
    <2>2. \A j \in Dictionaries!Live(item) \ {i} : Dictionaries!Selectable(item,
          j) # Dictionaries!Selectable(item', i)
      BY <1>2 DEF Dictionaries!ensureSelectableValueAvailable, Dictionaries!Selectable
    <2> SUFFICES ASSUME NEW j \in Dictionaries!Live(item)', NEW k \in Dictionaries!Live(item)',
                        Dictionaries!Selectable(item', j) = Dictionaries!Selectable(item', k)
                 PROVE  j = k
      BY DEF ValuesDiffer, Dictionaries!Selectable, Dictionaries!Live
    <2> QED
      BY <1>3, <2>1, <2>2 DEF DictionaryInv, ValuesDiffer
  <1> QED
    BY <1>2, <1>3, <1>4

\* The items that are there are finitely many.
LEMMA LiveIsFinite ==
  IsFiniteSet(Dictionaries!Live(item)) /\ Cardinality(Dictionaries!Live(item)) \in Nat
  <1>1. Dictionaries!Live(item) \subseteq Item
    BY DEF Dictionaries!Live
  <1> QED
    BY <1>1, TreesAssumption, FS_Subset, FS_CardinalityType

\* CreateItem: the parent stands, the depth is bounded, and the value is new.
LEMMA CreateItemKeeps ==
  ASSUME DictionaryInv, NEW i \in Item, NEW in \in Dictionaries!Input, Dictionaries!CreateItem(i, in)
  PROVE  DictionaryInv'
  <1>1. /\ Dictionaries!Kept /\ Dictionaries!Fits(in) /\ Dictionaries!ensureSelectableValueAvailable(i, in)
        /\ item' = [item EXCEPT ![i] = in] /\ definition' = Dictionaries!Touched /\ revision' = revision + 1
        /\ definition.kind = "tree" => Dictionaries!validateStoredTreeDepth(item')
           /\ UNCHANGED <<query, stored>>
        /\ UNCHANGED <<query, stored>> /\ item[i].state = "absent"
    BY DEF Dictionaries!CreateItem
  <1>2. /\ item' \in [Item -> ItemRow] /\ Dictionaries!Live(item)' = Dictionaries!Live(item) \cup {i}
        /\ ValuesDiffer'
    BY <1>1, ValueIsFree
  <1>3. ItemsStand'
    <2> SUFFICES ASSUME definition.kind = "tree" PROVE ItemsStand'
      BY <1>1 DEF ItemsStand, Dictionaries!Touched, DictionaryInv, DictionaryTypeOK
    <2>1. Cardinality(Dictionaries!Live(item)) < MaxTreeNodes
      BY <1>1, ItemCardinality DEF Dictionaries!Fits
    <2>2. Cardinality(Dictionaries!Live(item) \cup {i}) = Cardinality(Dictionaries!Live(item)) + 1
      BY <1>1, LiveIsFinite, FS_AddElement DEF Dictionaries!Live
    <2>3. Cardinality(Dictionaries!Live(item)') <= MaxTreeNodes
      BY <1>2, <2>1, <2>2, LiveIsFinite, TreesAssumption
    <2> QED
      BY <1>1, <2>3 DEF ItemsStand, Dictionaries!validateStoredTreeDepth, Dictionaries!Live
  <1> QED
    BY <1>1, <1>2, <1>3, ItemsStep

\* UpdateItem: the tree as it will be has been checked under the lock of the definition.
LEMMA UpdateItemKeeps ==
  ASSUME DictionaryInv, NEW in \in Dictionaries!Input, Dictionaries!UpdateItem(in)
  PROVE  DictionaryInv'
  <1> DEFINE i == mover.id
  <1>1. /\ Dictionaries!Kept /\ i \in Dictionaries!Live(item)
           /\ Dictionaries!ensureSelectableValueAvailable(i, in)
        /\ item' = [item EXCEPT ![i] = in] /\ definition' = Dictionaries!Touched /\ revision' = revision + 1
        /\ definition.kind = "tree"
           => Dictionaries!validateStoredTreeDepth([Dictionaries!Seen EXCEPT ![i] = in])
        /\ UNCHANGED <<query, stored>> /\ i \in Item
    BY DEF Dictionaries!UpdateItem, Dictionaries!Live
  <1> HIDE DEF i
  <1>2. /\ item' \in [Item -> ItemRow] /\ Dictionaries!Live(item)' = Dictionaries!Live(item) \cup {i}
        /\ ValuesDiffer'
    BY <1>1, ValueIsFree
  <1>3. ASSUME ~SnapshotReads PROVE ItemsStand'
    <2> SUFFICES ASSUME definition.kind = "tree" PROVE ItemsStand'
      BY <1>1 DEF ItemsStand, Dictionaries!Touched, DictionaryInv, DictionaryTypeOK
    <2>1. Dictionaries!Live(item)' = Dictionaries!Live(item)
      BY <1>1, <1>2
    <2>2. Dictionaries!validateStoredTreeDepth(item')
      BY <1>1, <1>3 DEF Dictionaries!Seen
    <2> QED
      BY <1>3, <2>1, <2>2 DEF DictionaryInv, ItemsStand, Dictionaries!validateStoredTreeDepth,
         Dictionaries!Live
  <1> QED
    BY <1>1, <1>2, <1>3, ItemsStep

\* DeleteItem takes an item without children: it is on no other item's path.
LEMMA DeleteItemKeeps ==
  ASSUME DictionaryInv, NEW i \in Item, Dictionaries!DeleteItem(i)
  PROVE  DictionaryInv'
  <1> DEFINE gone == [Dictionaries!NoItem EXCEPT !.state = "deleted"]
  <1>1. /\ Dictionaries!Kept /\ i \in Dictionaries!Live(item)
           /\ \A j \in Dictionaries!Live(item) : item[j].up # i
        /\ item' = [item EXCEPT ![i] = gone] /\ definition' = Dictionaries!Touched /\ revision' = revision + 1
        /\ UNCHANGED <<query, stored>>
    BY DEF Dictionaries!DeleteItem, Dictionaries!TouchedByDelete
  <1>2. gone \in ItemRow /\ gone.state = "deleted"
    BY DEF ItemRow, Dictionaries!NoItem
  <1> HIDE DEF gone
  <1>3. item' \in [Item -> ItemRow] /\ item'[i] = gone /\ \A j \in Item \ {i} : item'[j] = item[j]
    BY <1>1, <1>2 DEF DictionaryInv, DictionaryTypeOK
  <1>4. Dictionaries!Live(item)' = Dictionaries!Live(item) \ {i}
    BY <1>2, <1>3 DEF Dictionaries!Live
  <1>5. ValuesDiffer'
    BY <1>3, <1>4 DEF DictionaryInv, ValuesDiffer, Dictionaries!Selectable, Dictionaries!Live
  <1>6. ASSUME ~SnapshotReads PROVE ItemsStand'
    <2> SUFFICES ASSUME definition.kind = "tree" PROVE ItemsStand'
      BY <1>1 DEF ItemsStand, Dictionaries!Touched, DictionaryInv, DictionaryTypeOK
    <2>1. /\ Dictionaries!validateStoredTreeDepth(item)
             /\ Cardinality(Dictionaries!Live(item)) <= MaxTreeNodes
          /\ item \in [Item -> ItemRow]
      BY <1>6 DEF DictionaryInv, ItemsStand, DictionaryTypeOK
    <2>2. ASSUME NEW j \in Dictionaries!Live(item) \ {i}
          PROVE  Dictionaries!Path(item', j) = Dictionaries!Path(item, j) /\ Dictionaries!Rooted(item', j)
      <3>1. j \in Item /\ Dictionaries!Rooted(item, j)
        BY <2>1, <2>2 DEF Dictionaries!Live, Dictionaries!validateStoredTreeDepth
      <3>2. i \notin Dictionaries!Path(item, j)
        BY <1>1, <2>1, <2>2, <3>1, PathComesFrom DEF Dictionaries!Live
      <3>3. \A y \in Dictionaries!Path(item, j) : item'[y].state = item[y].state /\ item'[y].up = item[y].up
        BY <1>3, <2>1, <3>1, <3>2, PathComesFrom
      <3> QED
        BY <1>3, <2>1, <3>1, <3>3, PathTransfers
    <2>3. Dictionaries!validateStoredTreeDepth(item')
      BY <1>4, <2>1, <2>2 DEF Dictionaries!validateStoredTreeDepth, Dictionaries!Live
    <2>4. Cardinality(Dictionaries!Live(item) \ {i}) <= MaxTreeNodes
      <3>1. Cardinality(Dictionaries!Live(item) \ {i}) = Cardinality(Dictionaries!Live(item)) - 1
        BY <1>1, LiveIsFinite, FS_RemoveElement
      <3> QED
        BY <2>1, <3>1, LiveIsFinite, TreesAssumption
    <2> QED
      BY <1>4, <2>3, <2>4 DEF ItemsStand, Dictionaries!validateStoredTreeDepth, Dictionaries!Live
  <1> QED
    BY <1>1, <1>3, <1>5, <1>6, ItemsStep

\* A step of a query or of the cache, or of an UpdateItem that changes nothing.
LEMMA QueryStep ==
  ASSUME DictionaryInv, UNCHANGED <<definition, item, revision>>,
         query' \in [on : BOOLEAN, version : Nat, since : Nat, total : Nat],
         \A e \in stored' : e \in [version : Nat, items : Nat, total : Nat], VersionsTell'
  PROVE  DictionaryInv'
  <1>1. DictionaryTypeOK' /\ NotYet' /\ ValuesDiffer'
    BY DEF DictionaryInv, DictionaryTypeOK, NotYet, ValuesDiffer, Dictionaries!Live, Dictionaries!Selectable
  <1>2. ~SnapshotReads => ItemsStand'
    BY DEF DictionaryInv, ItemsStand, Dictionaries!validateStoredTreeDepth, Dictionaries!Live
  <1> QED
    BY <1>1, <1>2 DEF DictionaryInv

\* Query reads the version first, then the cache or the rows, and fills the cache under the
\* version it read.
LEMMA QueryKeeps ==
  ASSUME DictionaryInv, NEW all \in BOOLEAN, NEW cached_ \in BOOLEAN,
         Dictionaries!Query \/ Dictionaries!CacheAnswers \/ Dictionaries!CountRows
         \/ Dictionaries!queryStatic(all, cached_)
  PROVE  DictionaryInv'
  <1>1. UNCHANGED <<definition, item, revision>>
    BY DEF Dictionaries!Query, Dictionaries!CacheAnswers, Dictionaries!CountRows, Dictionaries!queryStatic
  <1>2. /\ definition.version \in Nat /\ revision \in Nat
        /\ query \in [on : BOOLEAN, version : Nat, since : Nat, total : Nat]
        /\ \A e \in stored : e \in [version : Nat, items : Nat, total : Nat]
    BY DEF DictionaryInv, DictionaryTypeOK
  <1>3. CASE Dictionaries!Query
    <2>1. /\ stored' = stored /\ query' = [on |-> TRUE, version |-> definition.version,
             since |-> revision, total |-> 0]
      BY <1>3 DEF Dictionaries!Query, Dictionaries!NoQuery
    <2>2. VersionsTell'
      BY <1>1, <1>2, <2>1 DEF DictionaryInv, VersionsTell
    <2> QED
      BY <1>1, <1>2, <2>1, <2>2, QueryStep
  <1>4. CASE Dictionaries!CacheAnswers
    <2>1. stored' = stored /\ query' = [on |-> FALSE, version |-> 0, since |-> 0, total |-> 0]
      BY <1>4 DEF Dictionaries!CacheAnswers, Dictionaries!NoQuery
    <2>2. VersionsTell'
      BY <1>1, <1>2, <2>1 DEF DictionaryInv, VersionsTell
    <2> QED
      BY <1>1, <1>2, <2>1, <2>2, QueryStep
  <1>5. CASE Dictionaries!CountRows
    <2>1. stored' = stored /\ query' = [query EXCEPT !.total = revision + 1] /\ query.on
      BY <1>5 DEF Dictionaries!CountRows
    <2>2. /\ query'.on = query.on /\ query'.version = query.version /\ query'.since = query.since
          /\ query'.total = revision + 1 /\ query' \in [on : BOOLEAN, version : Nat, since : Nat, total : Nat]
      <3>1. query' = [on |-> query.on, version |-> query.version, since |-> query.since,
            total |-> revision + 1]
        BY <1>2, <2>1
      <3>2. query.on \in BOOLEAN /\ query.version \in Nat /\ query.since \in Nat /\ revision + 1 \in Nat
        BY <1>2
      <3> QED
        BY <3>1, <3>2
    <2>3. VersionsTell'
      BY <1>1, <1>2, <2>1, <2>2 DEF DictionaryInv, VersionsTell
    <2> QED
      BY <1>1, <1>2, <2>1, <2>2, <2>3, QueryStep
  <1>6. CASE Dictionaries!queryStatic(all, cached_)
    <2> DEFINE e == [version |-> query.version, items |-> revision,
                     total |-> IF query.total = 0 THEN revision ELSE query.total - 1]
    <2>1. /\ query.on /\ query' = [on |-> FALSE, version |-> 0, since |-> 0, total |-> 0]
          /\ stored' = stored \/ stored' = {e}
      BY <1>6 DEF Dictionaries!queryStatic, Dictionaries!NoQuery
    <2>2. /\ e \in [version : Nat, items : Nat, total : Nat] /\ e.version = query.version
             /\ e.items = revision
          /\ e.total = IF query.total = 0 THEN revision ELSE query.total - 1
      BY <1>2
    <2> HIDE DEF e
    <2>3. VersionsTell'
      BY <1>1, <1>2, <2>1, <2>2 DEF DictionaryInv, VersionsTell
    <2> QED
      BY <1>1, <1>2, <2>1, <2>2, <2>3, QueryStep
  <1> QED
    BY <1>3, <1>4, <1>5, <1>6

\* No step writes rows: at most, what is cached expires.
LEMMA DictionaryRests ==
  ASSUME DictionaryInv, UNCHANGED <<definition, item, revision, query>>, stored' \subseteq stored
  PROVE  DictionaryInv'
  <1>1. VersionsTell'
    BY DEF DictionaryInv, VersionsTell
  <1> QED
    BY <1>1, QueryStep DEF DictionaryInv, DictionaryTypeOK

\* Every step of a dictionary keeps its invariant.
LEMMA DictionaryStep == ASSUME DictionaryInv, [Dictionaries!Next]_(Dictionaries!vars) PROVE DictionaryInv'
  <1>1. ASSUME NEW kind \in {"enum", "tree"}, NEW source_ \in {"static", "provider"},
               NEW status \in {"active", "disabled"},
               Dictionaries!CreateDefinition(kind, source_, status)
        PROVE  DictionaryInv'
    BY <1>1, DefinitionKeeps
  <1>2. ASSUME NEW status \in {"active", "disabled"}, Dictionaries!UpdateDefinition(status)
             PROVE DictionaryInv'
    BY <1>2, DefinitionKeeps
  <1>3. ASSUME Dictionaries!DeleteDefinition PROVE DictionaryInv'
    BY <1>3, DefinitionKeeps
  <1>4. ASSUME NEW i \in Item, Dictionaries!UpdateItemReads(i) \/ Dictionaries!UpdateItemFails
             PROVE DictionaryInv'
    BY <1>4, DictionaryRests DEF Dictionaries!UpdateItemReads, Dictionaries!UpdateItemFails
  <1>5. ASSUME Dictionaries!UpdateItemFails PROVE DictionaryInv'
    BY <1>5, DictionaryRests DEF Dictionaries!UpdateItemFails
  <1>6. ASSUME NEW i \in Item, Dictionaries!DeleteItem(i) PROVE DictionaryInv'
    BY <1>6, DeleteItemKeeps
  <1>7. ASSUME NEW in \in Dictionaries!Input, Dictionaries!UpdateItem(in) PROVE DictionaryInv'
    BY <1>7, UpdateItemKeeps
  <1>8. ASSUME NEW in \in Dictionaries!Input, NEW i \in Item, Dictionaries!CreateItem(i, in)
             PROVE DictionaryInv'
    BY <1>8, CreateItemKeeps
  <1>9. ASSUME Dictionaries!Query \/ Dictionaries!CacheAnswers \/ Dictionaries!CountRows PROVE DictionaryInv'
    <2>1. TRUE \in BOOLEAN
      OBVIOUS
    <2> QED
      BY <1>9, <2>1, QueryKeeps
  <1>10. ASSUME NEW all \in BOOLEAN, NEW c \in BOOLEAN, Dictionaries!queryStatic(all, c)
         PROVE  DictionaryInv'
    BY <1>10, QueryKeeps
  <1>11. ASSUME NEW e \in stored, Dictionaries!Expire(e) PROVE DictionaryInv'
    BY <1>11, DictionaryRests DEF Dictionaries!Expire
  <1>12. CASE UNCHANGED Dictionaries!vars
    BY <1>12, DictionaryRests DEF Dictionaries!vars
  <1> QED
    BY <1>1, <1>2, <1>3, <1>4, <1>5, <1>6, <1>7, <1>8, <1>9, <1>10, <1>11, <1>12 DEF Dictionaries!Next

\* The rows that a query selects, as a table.
Table(all) == [i \in Item |-> IF i \in Dictionaries!selectQueryItems(all) THEN item[i] ELSE Dictionaries!NoItem]

\* The rows that a query selects are rows of the table.
LEMMA TableRows ==
  ASSUME DictionaryInv, NEW all \in BOOLEAN
  PROVE  /\ item \in [Item -> ItemRow] /\ Table(all) \in [Item -> ItemRow]
         /\ Dictionaries!Live(Table(all)) = Dictionaries!selectQueryItems(all)
         /\ Dictionaries!selectQueryItems(all) = {i \in Dictionaries!Live(item) : all \/ ~item[i].disabled}
         /\ \A i \in Dictionaries!selectQueryItems(all) : Table(all)[i] = item[i]
  <1>1. item \in [Item -> ItemRow]
    BY DEF DictionaryInv, DictionaryTypeOK
  <1>2. Dictionaries!NoItem \in ItemRow /\ Dictionaries!NoItem.state # "live"
    BY DEF Dictionaries!NoItem, ItemRow
  <1> QED
    BY <1>1, <1>2 DEF Table, Dictionaries!selectQueryItems, Dictionaries!Live

\* An item whose way up is selected as a whole has the same path among the selected rows.
LEMMA SelectedPath ==
  ASSUME DictionaryInv, NEW all \in BOOLEAN, NEW k \in Item, Dictionaries!Rooted(Table(all), k)
  PROVE  /\ Dictionaries!Path(item, k) = Dictionaries!Path(Table(all), k)
         /\ Dictionaries!Path(item, k) \subseteq Dictionaries!selectQueryItems(all)
         /\ Dictionaries!Rooted(item, k)
  <1>1. Dictionaries!Path(Table(all), k) \subseteq Dictionaries!selectQueryItems(all)
    BY TableRows DEF Dictionaries!Rooted
  <1>2. \A y \in Dictionaries!Path(Table(all), k) : item[y].state = Table(all)[y].state
        /\ item[y].up = Table(all)[y].up
    BY <1>1, TableRows
  <1> QED
    BY <1>1, <1>2, TableRows, PathTransfers

\* What a query selects hangs together as it does in the table.
LEMMA SelectedRooted ==
  ASSUME DictionaryInv, NEW all \in BOOLEAN, NEW k \in Item, Dictionaries!Rooted(item, k),
         \A a \in Dictionaries!Path(item, k) : all \/ ~item[a].disabled
  PROVE  Dictionaries!Rooted(Table(all), k) /\ k \in Dictionaries!selectQueryItems(all)
         /\ k \in Dictionaries!Path(Table(all), k)
  <1>1. Dictionaries!Path(item, k) \subseteq Dictionaries!selectQueryItems(all)
    BY TableRows DEF Dictionaries!Rooted
  <1>2. \A y \in Dictionaries!Path(item, k) : Table(all)[y].state = item[y].state
        /\ Table(all)[y].up = item[y].up
    BY <1>1, TableRows
  <1> QED
    BY <1>1, <1>2, TableRows, PathTransfers, PathComesFrom

\* What filterTreeItems returns.
LEMMA FilterFinds ==
  ASSUME DictionaryInv, NEW all \in BOOLEAN, NEW K \in SUBSET Item, NEW found,
         found = Dictionaries!filterTreeItems(all, K)
  PROVE  /\ found \subseteq Dictionaries!selectQueryItems(all)
         /\ \A y \in found : /\ item[y].up = "root" \/ item[y].up \in found
                             /\ y \in K \/ \E z \in found : item[z].up = y
                             /\ Dictionaries!Path(item, y) \subseteq Dictionaries!selectQueryItems(all)
         /\ \A k \in K \cap Item : /\ Dictionaries!Rooted(item, k)
                                   /\ \A a \in Dictionaries!Path(item, k) : all \/ ~item[a].disabled
                                   => k \in found
  <1> DEFINE hits == {x \in K \cap Dictionaries!selectQueryItems(all) : Dictionaries!Rooted(Table(all), x)}
  <1>1. found = UNION {Dictionaries!Path(Table(all), k) : k \in hits}
    BY DEF Dictionaries!filterTreeItems, Table
  <1>2. ASSUME NEW y \in found
        PROVE  /\ y \in Dictionaries!selectQueryItems(all) /\ (item[y].up = "root" \/ item[y].up \in found)
               /\ (y \in K \/ \E z \in found : item[z].up = y)
               /\ Dictionaries!Path(item, y) \subseteq Dictionaries!selectQueryItems(all)
    <2>1. PICK k \in hits : y \in Dictionaries!Path(Table(all), k)
      BY <1>1
    <2>2. k \in Item /\ k \in K /\ Dictionaries!Rooted(Table(all), k)
      OBVIOUS
    <2>3. /\ Dictionaries!Path(item, k) = Dictionaries!Path(Table(all), k) /\ Dictionaries!Rooted(item, k)
          /\ Dictionaries!Path(item, k) \subseteq Dictionaries!selectQueryItems(all)
      BY <2>2, SelectedPath
    <2>4. Dictionaries!Path(item, k) \subseteq found
      BY <1>1, <2>3
    <2>5. \A z \in Dictionaries!Path(item, k) : item[z].up = "root"
          \/ item[z].up \in Dictionaries!Path(item, k)
      BY <2>2, <2>3, TableRows, PathIsClosed
    <2>6. y = k \/ \E z \in Dictionaries!Path(item, k) : item[z].up = y
      BY <2>1, <2>2, <2>3, TableRows, PathComesFrom
    <2>7. y \in Item
      BY <2>1, <2>2, <2>3, TableRows, PathComesFrom
    <2>8. Dictionaries!Path(item, y) \subseteq Dictionaries!Path(item, k)
      BY <2>1, <2>3, <2>5, <2>7, TableRows, PathStaysIn
    <2> QED
      BY <2>1, <2>2, <2>3, <2>4, <2>5, <2>6, <2>8
  <1>3. ASSUME NEW k \in K \cap Item, Dictionaries!Rooted(item, k),
               \A a \in Dictionaries!Path(item, k) : all \/ ~item[a].disabled
        PROVE  k \in found
    <2>1. Dictionaries!Rooted(Table(all), k) /\ k \in Dictionaries!selectQueryItems(all)
          /\ k \in Dictionaries!Path(Table(all), k)
      BY <1>3, SelectedRooted
    <2> QED
      BY <1>1, <2>1
  <1> QED
    BY <1>2, <1>3

\* Part of the rows has no more bytes than all of them.
LEMMA PartIsSmaller ==
  ASSUME NEW S, NEW rows \in SUBSET Item, S \subseteq rows, ~Dictionaries!TooLarge(rows)
  PROVE  ~Dictionaries!TooLarge(S)
  <1> DEFINE bytes(X) == {b \in X \X (1..MaxItemsBytes + 1) : b[2] <= ItemBytes[item[b[1]].value]}
  <1>1. IsFiniteSet(rows \X (1..MaxItemsBytes + 1))
    <2>1. IsFiniteSet(rows) /\ IsFiniteSet(1..MaxItemsBytes + 1)
      BY TreesAssumption, FS_Subset, FS_Interval
    <2> QED
      BY <2>1, FS_Product
  <1>2. bytes(rows) \subseteq rows \X (1..MaxItemsBytes + 1) /\ bytes(S) \subseteq bytes(rows)
    OBVIOUS
  <1>3. Dictionaries!TooLarge(rows) <=> Cardinality(bytes(rows)) > MaxItemsBytes
    BY ItemCardinality DEF Dictionaries!TooLarge
  <1>4. Dictionaries!TooLarge(S) <=> Cardinality(bytes(S)) > MaxItemsBytes
    BY ItemCardinality DEF Dictionaries!TooLarge
  <1> HIDE DEF bytes
  <1>5. IsFiniteSet(bytes(rows))
    BY <1>1, <1>2, FS_Subset
  <1>6. IsFiniteSet(bytes(S)) /\ Cardinality(bytes(S)) <= Cardinality(bytes(rows))
    BY <1>2, <1>5, FS_Subset
  <1>7. Cardinality(bytes(S)) \in Nat /\ Cardinality(bytes(rows)) \in Nat
    BY <1>5, <1>6, FS_CardinalityType
  <1> QED
    BY <1>3, <1>4, <1>6, <1>7, TreesAssumption

\* Trees and queries serve every item, because all of them hang together, unless they are too
\* large for one result.
LEMMA ItemsAreServed ==
  ASSUME DictionaryInv, ~SnapshotReads PROVE Dictionaries!EveryItemIsServed
  <1> SUFFICES ASSUME definition.kind = "tree" PROVE Dictionaries!EveryItemIsServed
    BY DEF Dictionaries!EveryItemIsServed
  <1>1. /\ \A i \in Dictionaries!Live(item) : /\ i \in Item /\ Dictionaries!Rooted(item, i)
                                              /\ Cardinality(Dictionaries!Path(item, i)) <= MaxDepth
        /\ Cardinality(Dictionaries!Live(item)) <= MaxTreeNodes
    BY ItemCardinality DEF DictionaryInv, ItemsStand, Dictionaries!validateStoredTreeDepth, Dictionaries!Live
  <1>2. ASSUME NEW all \in BOOLEAN, NEW K \in SUBSET Item, NEW found,
               found = Dictionaries!filterTreeItems(all, K),
               ~Dictionaries!TooLarge(Dictionaries!selectQueryItems(all))
        PROVE  /\ Dictionaries!buildItemForest(found) /\ Dictionaries!validProviderResult(found, all, K)
               /\ \A k \in K \cap Dictionaries!Live(item) :
                     k \in found <=> \A a \in Dictionaries!Path(item, k) : all \/ ~item[a].disabled
               /\ found \subseteq Dictionaries!Live(item)
    <2>1. /\ found \subseteq Dictionaries!selectQueryItems(all)
          /\ \A y \in found : /\ item[y].up = "root" \/ item[y].up \in found
                              /\ y \in K \/ \E z \in found : item[z].up = y
                              /\ Dictionaries!Path(item, y) \subseteq Dictionaries!selectQueryItems(all)
          /\ \A k \in K \cap Item : /\ Dictionaries!Rooted(item, k)
                                    /\ \A a \in Dictionaries!Path(item, k) : all \/ ~item[a].disabled
                                    => k \in found
      BY <1>2, FilterFinds
    <2>2. found \subseteq Dictionaries!Live(item) /\ \A y \in Dictionaries!selectQueryItems(all) : all
          \/ ~item[y].disabled
      BY <2>1, TableRows
    <2>3. Dictionaries!buildItemForest(found)
      BY <1>1, <2>1, <2>2, ItemCardinality DEF Dictionaries!buildItemForest
    <2>4. Cardinality(found) <= MaxTreeNodes
      <3>1. IsFiniteSet(found) /\ Cardinality(found) \in Nat
            /\ Cardinality(found) <= Cardinality(Dictionaries!Live(item))
        BY <2>2, LiveIsFinite, FS_Subset, FS_CardinalityType
      <3> QED
        BY <1>1, <3>1, LiveIsFinite, TreesAssumption
    <2>7. ~Dictionaries!TooLarge(found)
      <3>1. Dictionaries!selectQueryItems(all) \in SUBSET Item
        BY <1>1, TableRows
      <3> QED
        BY <1>2, <2>1, <3>1, PartIsSmaller
    <2>5. Dictionaries!validProviderResult(found, all, K)
      BY <2>1, <2>2, <2>4, <2>7, ItemCardinality
         DEF Dictionaries!validProviderResult, DictionaryInv, ValuesDiffer
    <2>6. \A k \in K \cap Dictionaries!Live(item) :
             k \in found <=> \A a \in Dictionaries!Path(item, k) : all \/ ~item[a].disabled
      BY <1>1, <2>1, <2>2
    <2> QED
      BY <2>2, <2>3, <2>5, <2>6
  <1>3. ~Dictionaries!TooLarge(Dictionaries!selectQueryItems(TRUE))
        => Dictionaries!filterTreeItems(TRUE, Item) = Dictionaries!Live(item)
    <2>1. \A k \in Dictionaries!Live(item) : k \in Item
      BY <1>1
    <2> QED
      BY <1>2, <2>1
  <1>4. \A all \in BOOLEAN, K \in SUBSET Item :
         ~Dictionaries!TooLarge(Dictionaries!selectQueryItems(all)) =>
           /\ Dictionaries!buildItemForest(Dictionaries!filterTreeItems(all, K))
           /\ Dictionaries!validProviderResult(Dictionaries!filterTreeItems(all, K), all, K)
           /\ \A k \in K \cap Dictionaries!Live(item) :
                 k \in Dictionaries!filterTreeItems(all, K)
                   <=> \A a \in Dictionaries!Path(item, k) : all \/ ~item[a].disabled
    BY <1>2
  <1> QED
    BY <1>3, <1>4 DEF Dictionaries!EveryItemIsServed

\* The parents that are offered for an item are the ones that its update accepts.
LEMMA OffersAreValid ==
  ASSUME DictionaryInv, ~SnapshotReads PROVE Dictionaries!OffersValidParents
  <1> SUFFICES ASSUME definition.kind = "tree", NEW i \in Dictionaries!Live(item)
               PROVE  Dictionaries!OfferedParents(i) = {p \in Item : Dictionaries!validateItemParentChain(item, i, p)}
    BY DEF Dictionaries!OffersValidParents
  <1>1. \A p \in Dictionaries!Live(item) : /\ p \in Item /\ Dictionaries!Rooted(item, p)
                                           /\ Dictionaries!Cardinality(Dictionaries!Path(item, p)) <= MaxDepth
    BY DEF DictionaryInv, ItemsStand, Dictionaries!validateStoredTreeDepth, Dictionaries!Live
  <1> QED
    BY <1>1 DEF Dictionaries!OfferedParents, Dictionaries!validateItemParentChain

\* A cached answer is not older than the version that the query read.
LEMMA AnswersAreFreshNow == DictionaryInv => Dictionaries!AnswersAreFresh
  BY DEF DictionaryInv, DictionaryTypeOK, VersionsTell, Dictionaries!AnswersAreFresh, Dictionaries!Hit

\* The invariant of a dictionary holds always.
THEOREM DictionaryInvariance == Dictionaries!Spec => []DictionaryInv
  <1>1. DictionaryInv /\ [Dictionaries!Next]_(Dictionaries!vars) => DictionaryInv'
    BY DictionaryStep
  <1> QED
    BY <1>1, DictionaryBegins, PTL DEF Dictionaries!Spec

\* DictionaryIsSound of Dictionary (internal/dictionary), where statements read anew: no
\* concurrent updates of items break the tree, whatever has been read before the lock of the
\* definition.
THEOREM DictionarySound ==
  ASSUME ~SnapshotReads PROVE Dictionaries!Spec => []Dictionaries!DictionaryIsSound
  <1>1. DictionaryInv => Dictionaries!DictionaryIsSound
    BY ItemsAreServed, OffersAreValid, AnswersAreFreshNow DEF Dictionaries!DictionaryIsSound
  <1> QED
    BY <1>1, DictionaryInvariance, PTL

-----------------------------------------------------------------------------
(* Sums of versions.                                                       *)

\* f sums the versions of the rows up, set by set.
IsSum(rows, f) ==
    f = [s \in SUBSET Nav |-> IF s = {} THEN 0
                              ELSE rows[CHOOSE n \in s : TRUE].version + f[s \ {CHOOSE n \in s : TRUE}]]

\* The sum of the versions of all rows.
Sum(rows) == (CHOOSE f : IsSum(rows, f))[Nav]

\* The sizes of the sets of nodes, and what is left without one of the nodes.
LEMMA NavSets ==
  /\ Cardinality(Nav) \in Nat
  /\ \A s \in SUBSET Nav : Cardinality(s) = 0 <=> s = {}
  /\ \A s \in SUBSET Nav : Cardinality(s) \in Nat /\ Cardinality(s) <= Cardinality(Nav)
  /\ \A s \in SUBSET Nav : s # {} => /\ (CHOOSE n \in s : TRUE) \in s
                                     /\ s \ {CHOOSE n \in s : TRUE} \in SUBSET Nav
                                     /\ Cardinality(s \ {CHOOSE n \in s : TRUE}) = Cardinality(s) - 1
  <1>1. \A s \in SUBSET Nav : IsFiniteSet(s)
    BY FS_Subset, TreesAssumption
  <1>2. \A s \in SUBSET Nav : Cardinality(s) \in Nat /\ Cardinality(s) <= Cardinality(Nav)
    BY <1>1, FS_CardinalityType, FS_Subset, TreesAssumption
  <1>3. ASSUME NEW s \in SUBSET Nav, s # {}
        PROVE  /\ (CHOOSE n \in s : TRUE) \in s /\ s \ {CHOOSE n \in s : TRUE} \in SUBSET Nav
               /\ Cardinality(s \ {CHOOSE n \in s : TRUE}) = Cardinality(s) - 1
    <2>1. PICK x : x = CHOOSE n \in s : TRUE
      OBVIOUS
    <2>2. x \in s
      BY <1>3, <2>1
    <2>3. Cardinality(s \ {x}) = Cardinality(s) - 1
      BY <1>1, <2>2, FS_RemoveElement
    <2> QED
      BY <2>1, <2>2, <2>3
  <1>4. \A s \in SUBSET Nav : Cardinality(s) = 0 <=> s = {}
    BY <1>1, FS_EmptySet
  <1> QED
    BY <1>2, <1>3, <1>4, TreesAssumption

\* There is a function that sums up.
LEMMA SumExists ==
  ASSUME NEW rows, \A n \in Nav : rows[n].version \in Nat
  PROVE  \E f : IsSum(rows, f)
  <1> DEFINE pick(s) == CHOOSE n \in s : TRUE
             Upto(k, g) == \A s \in SUBSET Nav : Cardinality(s) <= k =>
                              g[s] = IF s = {} THEN 0 ELSE rows[pick(s)].version + g[s \ {pick(s)}]
             T == {k \in Nat : \E g \in [SUBSET Nav -> Nat] : Upto(k, g)}
  <1>1. 0 \in T
    <2>1. \A s \in SUBSET Nav : Cardinality(s) <= 0 => s = {}
      BY NavSets
    <2>2. Upto(0, [s \in SUBSET Nav |-> 0])
      BY <2>1
    <2>3. [s \in SUBSET Nav |-> 0] \in [SUBSET Nav -> Nat]
      OBVIOUS
    <2> HIDE DEF Upto
    <2> QED
      BY <2>3, <2>2
  <1>2. ASSUME NEW k \in T PROVE k + 1 \in T
    <2>1. PICK g \in [SUBSET Nav -> Nat] : Upto(k, g)
      OBVIOUS
    <2> DEFINE h == [s \in SUBSET Nav |-> IF s = {} THEN 0 ELSE rows[pick(s)].version + g[s \ {pick(s)}]]
    <2>2. h \in [SUBSET Nav -> Nat]
      BY NavSets
    <2>3. \A s \in SUBSET Nav : Cardinality(s) <= k => h[s] = g[s]
      BY <2>1
    <2>4. ASSUME NEW s \in SUBSET Nav, Cardinality(s) <= k + 1, s # {}
          PROVE  h[s] = rows[pick(s)].version + h[s \ {pick(s)}]
      <3>1. s \ {pick(s)} \in SUBSET Nav /\ Cardinality(s \ {pick(s)}) <= k
        BY <2>4, NavSets
      <3>2. h[s \ {pick(s)}] = g[s \ {pick(s)}]
        BY <2>3, <3>1
      <3>3. h[s] = rows[pick(s)].version + g[s \ {pick(s)}]
        BY <2>4
      <3> QED
        BY <3>2, <3>3
    <2>5. h[{}] = 0
      OBVIOUS
    <2>6. Upto(k + 1, h)
      <3> HIDE DEF h
      <3> QED
        BY <2>4, <2>5
    <2>7. k + 1 \in Nat
      OBVIOUS
    <2> HIDE DEF Upto, h
    <2> QED
      BY <2>2, <2>6, <2>7
  <1>3. T = Nat
    <2> HIDE DEF T
    <2>1. T \in SUBSET Nat
      BY DEF T
    <2> QED
      BY <1>1, <1>2, <2>1, NatSetInduction
  <1>4. PICK g \in [SUBSET Nav -> Nat] : Upto(Cardinality(Nav), g)
    BY <1>3, NavSets
  <1>5. \A s \in SUBSET Nav : g[s] = IF s = {} THEN 0 ELSE rows[pick(s)].version + g[s \ {pick(s)}]
    BY <1>4, NavSets
  <1>6. g = [s \in SUBSET Nav |-> IF s = {} THEN 0 ELSE rows[pick(s)].version + g[s \ {pick(s)}]]
    <2> HIDE DEF Upto
    <2>1. g = [s \in SUBSET Nav |-> g[s]]
      OBVIOUS
    <2> HIDE DEF pick
    <2> QED
      BY <1>5, <2>1
  <1>7. IsSum(rows, g)
    BY <1>6 DEF IsSum
  <1> QED
    BY <1>7

\* Rows that differ in the version of one node have sums that differ as much.
LEMMA SumsDiffer ==
  ASSUME NEW rows, NEW others, NEW f, NEW g, IsSum(rows, f), IsSum(others, g), NEW d \in Nat, NEW x,
         \A n \in Nav : rows[n].version \in Nat,
         \A n \in Nav : others[n].version = rows[n].version + IF n = x THEN d ELSE 0
  PROVE  \A s \in SUBSET Nav : f[s] \in Nat /\ g[s] = f[s] + IF x \in s THEN d ELSE 0
  <1> DEFINE pick(s) == CHOOSE n \in s : TRUE
             T == {k \in Nat : \A s \in SUBSET Nav : Cardinality(s) = k =>
                                  f[s] \in Nat /\ g[s] = f[s] + IF x \in s THEN d ELSE 0}
  <1>1. \A s \in SUBSET Nav : /\ f[s] = IF s = {} THEN 0 ELSE rows[pick(s)].version + f[s \ {pick(s)}]
                              /\ g[s] = IF s = {} THEN 0 ELSE others[pick(s)].version + g[s \ {pick(s)}]
    BY DEF IsSum
  <1>2. 0 \in T
    <2>1. \A s \in SUBSET Nav : Cardinality(s) = 0 => s = {} /\ f[s] = 0 /\ g[s] = 0
      BY <1>1, NavSets
    <2> QED
      BY <2>1
  <1>3. ASSUME NEW k \in T PROVE k + 1 \in T
    <2> SUFFICES ASSUME NEW s \in SUBSET Nav, Cardinality(s) = k + 1
                 PROVE  f[s] \in Nat /\ g[s] = f[s] + IF x \in s THEN d ELSE 0
      OBVIOUS
    <2>1. s # {}
      BY NavSets
    <2>2. PICK y : y = pick(s)
      OBVIOUS
    <2>3. y \in s /\ y \in Nav /\ s \ {y} \in SUBSET Nav /\ Cardinality(s \ {y}) = k
      BY <2>1, <2>2, NavSets
    <2>4. f[s \ {y}] \in Nat /\ g[s \ {y}] = f[s \ {y}] + IF x \in s \ {y} THEN d ELSE 0
      BY <2>3
    <2>5. f[s] = rows[y].version + f[s \ {y}] /\ g[s] = others[y].version + g[s \ {y}]
      BY <1>1, <2>1, <2>2
    <2>6. rows[y].version \in Nat /\ others[y].version = rows[y].version + IF y = x THEN d ELSE 0
      BY <2>3
    <2> HIDE DEF T, pick
    <2>7. CASE y = x
      BY <2>3, <2>4, <2>5, <2>6, <2>7
    <2>8. CASE y # x
      BY <2>3, <2>4, <2>5, <2>6, <2>8
    <2> QED
      BY <2>7, <2>8
  <1>4. T = Nat
    <2> HIDE DEF T
    <2>1. T \in SUBSET Nat
      BY DEF T
    <2> QED
      BY <1>2, <1>3, <2>1, NatSetInduction
  <1> QED
    BY <1>4, NavSets

\* The version of x has grown by d, and no other version has changed.
Grown(rows, others, x, d) ==
    \A n \in Nav : /\ rows[n].version \in Nat
                   /\ others[n].version = rows[n].version + IF n = x THEN d ELSE 0

\* The sum grows as much as the version of one node.
LEMMA SumGrows ==
  ASSUME NEW rows, NEW others, NEW d \in Nat, NEW x \in Nav, Grown(rows, others, x, d)
  PROVE  Sum(rows) \in Nat /\ Sum(others) = Sum(rows) + d
  <1>1. \A n \in Nav : rows[n].version \in Nat
    BY DEF Grown
  <1>2. \A n \in Nav : others[n].version = rows[n].version + IF n = x THEN d ELSE 0
    BY DEF Grown
  <1>3. PICK f : f = CHOOSE h : IsSum(rows, h)
    OBVIOUS
  <1>4. PICK g : g = CHOOSE h : IsSum(others, h)
    OBVIOUS
  <1>5. IsSum(rows, f)
    BY <1>3, <1>1, SumExists
  <1>6. IsSum(others, g)
    <2>1. \A n \in Nav : others[n].version \in Nat
      BY <1>1, <1>2
    <2> QED
      BY <1>4, <2>1, SumExists
  <1>7. f[Nav] \in Nat /\ g[Nav] = f[Nav] + d
    BY <1>5, <1>6, <1>1, <1>2, SumsDiffer
  <1>8. Sum(rows) = f[Nav] /\ Sum(others) = g[Nav]
    BY <1>3, <1>4, Zenon DEF Sum
  <1> QED
    BY <1>7, <1>8

\* Writes, and the first part of Revision, are the sum of the versions.
LEMMA WritesAreSummed ==
  Apps!Writes = Sum(nav) /\ Apps!Revision[1] = Sum(nav) /\ Apps!Writes' = Sum(nav')
  <1>1. Apps!Writes = Sum(nav)
    BY DEF Apps!Writes, Apps!MapThenSumSet, Apps!MapThenFoldSet, Sum, IsSum
  <1>2. Apps!Revision[1] = Sum(nav)
    BY DEF Apps!Revision, Apps!MapThenSumSet, Apps!MapThenFoldSet, Sum, IsSum
  <1>3. Apps!Writes' = Sum(nav')
    BY DEF Apps!Writes, Apps!MapThenSumSet, Apps!MapThenFoldSet, Sum, IsSum
  <1> QED
    BY <1>1, <1>2, <1>3

-----------------------------------------------------------------------------
(* Paths of the navigation.                                                *)

\* A tree of nodes: whose parents are nodes, or the root.
IsTree(tree) == DOMAIN tree \subseteq Nav /\ \A n \in DOMAIN tree : tree[n].up \in Nav \cup {"root"}

\* What a step up leads to.
Above(tree) == [x \in Nav \cup {"root"} |-> IF x \in DOMAIN tree THEN tree[x].up ELSE "root"]

\* The number of the nodes.
Hops == Cardinality(Nav)

\* The number of the nodes is a number, and the instance counts as this module does.
LEMMA NavCardinality == Hops \in Nat /\ \A S : Apps!Cardinality(S) = Cardinality(S)
  <1>1. \A S : Apps!Cardinality(S) = Cardinality(S)
    BY Zenon DEF Apps!Cardinality, Cardinality
  <1>2. Hops \in Nat
    BY FS_CardinalityType, TreesAssumption DEF Hops
  <1> QED
    BY <1>1, <1>2

\* A step up leads from a node or the root to one of them.
LEMMA AboveIsFunction ==
  ASSUME NEW tree, IsTree(tree)
  PROVE  /\ Above(tree) \in [Nav \cup {"root"} -> Nav \cup {"root"}] /\ Above(tree)["root"] = "root"
         /\ \A x \in Nav : Above(tree)[x] = IF x \in DOMAIN tree THEN tree[x].up ELSE "root"
  BY TreesAssumption DEF Above, IsTree

\* Path is where the walk up has been.
LEMMA NavPathIsWalk ==
  ASSUME NEW tree, IsTree(tree), NEW i \in Nav
  PROVE  \E g \in Walks(Above(tree), i, Hops) : Apps!Path(tree, i) = {g[n] : n \in 0..Hops} \ {"root"}
  <1> DEFINE D == Nav \cup {"root"}
             IsPath(up) == up = [n \in 0..Hops |-> IF n = 0 THEN i ELSE IF up[n - 1] \in DOMAIN tree
                                                  THEN tree[up[n - 1]].up ELSE "root"]
             path == CHOOSE up : IsPath(up)
  <1>1. Hops \in Nat /\ i \in D /\ Above(tree) \in [D -> D]
    BY NavCardinality, AboveIsFunction
  <1>2. PICK g : g \in Walks(Above(tree), i, Hops)
    <2> HIDE DEF D
    <2> QED
      BY <1>1, WalkExists
  <1>3. g \in [0..Hops -> D] /\ g[0] = i /\ \A n \in 0..(Hops - 1) : g[n + 1] = Above(tree)[g[n]]
    BY <1>1, <1>2 DEF Walks
  <1>4. IsPath(g)
    <2>1. \A n \in 0..Hops : n # 0 => n - 1 \in 0..(Hops - 1) /\ n - 1 \in 0..Hops /\ (n - 1) + 1 = n
      BY <1>1
    <2>2. \A n \in 0..Hops : n # 0 => g[n] = Above(tree)[g[n - 1]] /\ g[n - 1] \in D
      BY <1>3, <2>1
    <2> QED
      BY <1>3, <2>2 DEF Above
  <1>5. IsPath(path)
    <2> HIDE DEF IsPath
    <2> QED
      BY <1>4
  <1>6. path \in Walks(Above(tree), i, Hops)
    <2> HIDE DEF path
    <2>1. DOMAIN path = 0..Hops /\ path[0] = i
      BY <1>1, <1>5
    <2>2. \A n \in 0..(Hops - 1) : n + 1 \in 0..Hops /\ n + 1 # 0 /\ (n + 1) - 1 = n
      BY <1>1
    <2>3. \A n \in 0..(Hops - 1) : path[n + 1] = IF path[n] \in DOMAIN tree THEN tree[path[n]].up ELSE "root"
      BY <1>5, <2>2
    <2>4. \A n \in 0..Hops : path[n] \in D
      <3>1. \A n \in 0..Hops : n = 0 \/ (n - 1 \in 0..(Hops - 1) /\ (n - 1) + 1 = n)
        BY <1>1
      <3>2. \A x \in DOMAIN tree : tree[x].up \in D
        BY DEF IsTree
      <3> QED
        BY <1>1, <2>1, <2>3, <3>1, <3>2
    <2>5. \A n \in 0..(Hops - 1) : path[n + 1] = Above(tree)[path[n]]
      <3>1. \A n \in 0..(Hops - 1) : n \in 0..Hops
        BY <1>1
      <3> QED
        BY <2>3, <2>4, <3>1 DEF Above
    <2>6. path = [n \in 0..Hops |-> path[n]]
      BY <1>5
    <2> QED
      BY <1>1, <2>1, <2>4, <2>5, <2>6 DEF Walks
  <1>7. Apps!Path(tree, i) = {path[n] : n \in 0..Hops} \ {"root"}
    BY NavCardinality DEF Apps!Path, Hops
  <1> HIDE DEF path
  <1> QED
    BY <1>6, <1>7

\* The node is on its path, and whoever else is on it is the parent of one that is.
LEMMA NavPathComesFrom ==
  ASSUME NEW tree, IsTree(tree), NEW i \in Nav
  PROVE  /\ i \in Apps!Path(tree, i) /\ Apps!Path(tree, i) \subseteq Nav
         /\ \A y \in Apps!Path(tree, i) : y = i \/ \E z \in Apps!Path(tree,
            i) \cap DOMAIN tree : tree[z].up = y
  <1> DEFINE D == Nav \cup {"root"}
  <1>1. PICK g \in Walks(Above(tree), i, Hops) : Apps!Path(tree, i) = {g[n] : n \in 0..Hops} \ {"root"}
    BY NavPathIsWalk
  <1>2. Hops \in Nat /\ i \in D /\ Above(tree) \in [D -> D]
    BY NavCardinality, AboveIsFunction
  <1>3. \A n \in 0..Hops : g[n] \in D /\ (g[n] = i \/ \E k \in 0..Hops : g[n] = Above(tree)[g[k]])
    <2> HIDE DEF D
    <2> QED
      BY <1>2, WalkComesFrom
  <1>4. i \in Apps!Path(tree, i)
    BY <1>1, <1>2, TreesAssumption DEF Walks
  <1>5. ASSUME NEW y \in Apps!Path(tree, i), y # i
        PROVE  \E z \in Apps!Path(tree, i) \cap DOMAIN tree : tree[z].up = y
    <2>1. PICK n \in 0..Hops : y = g[n] /\ y # "root"
      BY <1>1
    <2>2. PICK k \in 0..Hops : y = Above(tree)[g[k]]
      BY <1>3, <1>5, <2>1
    <2>3. g[k] \in D
      BY <1>3
    <2>4. g[k] # "root"
      BY <2>1, <2>2, AboveIsFunction
    <2>5. g[k] \in DOMAIN tree /\ tree[g[k]].up = y
      BY <2>1, <2>2, <2>3, <2>4, AboveIsFunction
    <2> QED
      BY <1>1, <2>4, <2>5
  <1> QED
    BY <1>1, <1>3, <1>4, <1>5

\* A path that ends at a root node holds the parents of all of its nodes, when the tree does.
LEMMA NavPathIsClosed ==
  ASSUME NEW tree, IsTree(tree), NEW i \in DOMAIN tree,
         \A n \in DOMAIN tree : tree[n].up # "root" => tree[n].up \in DOMAIN tree,
         \E r \in Apps!Path(tree, i) \cap DOMAIN tree : tree[r].up = "root"
  PROVE  \A y \in Apps!Path(tree, i) :
            y \in DOMAIN tree /\ (tree[y].up = "root" \/ tree[y].up \in Apps!Path(tree, i))
  <1> DEFINE D == Nav \cup {"root"}
  <1>1. PICK g \in Walks(Above(tree), i, Hops) : Apps!Path(tree, i) = {g[n] : n \in 0..Hops} \ {"root"}
    BY NavPathIsWalk DEF IsTree
  <1>2. Hops \in Nat /\ i \in D /\ Above(tree) \in [D -> D] /\ "root" \in D /\ Above(tree)["root"] = "root"
    BY NavCardinality, AboveIsFunction DEF IsTree
  <1>3. \A y \in Apps!Path(tree, i) : y \in Nav /\ y \in DOMAIN tree
    <2>1. \A y \in Apps!Path(tree, i) : y \in DOMAIN tree
      <3>1. i \in Nav
        BY DEF IsTree
      <3>2. \A y \in Apps!Path(tree, i) : y = i \/ \E z \in Apps!Path(tree,
            i) \cap DOMAIN tree : tree[z].up = y
        BY <3>1, NavPathComesFrom
      <3>3. "root" \notin Apps!Path(tree, i)
        BY <1>1
      <3> QED
        BY <3>2, <3>3
    <2> QED
      BY <2>1 DEF IsTree
  <1>4. PICK m \in 0..Hops : Above(tree)[g[m]] = "root"
    BY <1>1, <1>3, AboveIsFunction
  <1>5. \A n \in 0..Hops : Above(tree)[g[n]] = "root" \/ \E k \in 0..Hops : Above(tree)[g[n]] = g[k]
    <2> HIDE DEF D
    <2> QED
      BY <1>2, <1>4, WalkIsClosed
  <1> QED
    BY <1>1, <1>3, <1>5, AboveIsFunction

\* A set that holds the parents of its nodes holds the paths of its nodes.
LEMMA NavPathStaysIn ==
  ASSUME NEW tree, IsTree(tree), NEW i \in Nav, NEW S, i \in S,
         \A y \in S \cap DOMAIN tree : tree[y].up = "root" \/ tree[y].up \in S
  PROVE  Apps!Path(tree, i) \subseteq S
  <1> DEFINE D == Nav \cup {"root"}
             R == S \cup {"root"}
  <1>1. PICK g \in Walks(Above(tree), i, Hops) : Apps!Path(tree, i) = {g[n] : n \in 0..Hops} \ {"root"}
    BY NavPathIsWalk
  <1>2. Hops \in Nat /\ i \in D /\ Above(tree) \in [D -> D] /\ i \in R
    BY NavCardinality, AboveIsFunction
  <1>3. \A y \in R \cap D : Above(tree)[y] \in R
    BY AboveIsFunction DEF Above
  <1>4. \A n \in 0..Hops : g[n] \in R
    <2> HIDE DEF D, R
    <2> QED
      BY <1>2, <1>3, WalkStaysIn
  <1> QED
    BY <1>1, <1>4

\* Trees that agree along a path have the same path.
LEMMA NavPathTransfers ==
  ASSUME NEW tree, NEW other, IsTree(tree), IsTree(other), NEW i \in Nav,
         \A y \in Apps!Path(tree, i) : /\ y \in DOMAIN other <=> y \in DOMAIN tree
                                       /\ y \in DOMAIN tree => other[y].up = tree[y].up
  PROVE  Apps!Path(other, i) = Apps!Path(tree, i)
  <1> DEFINE D == Nav \cup {"root"}
  <1>1. PICK g \in Walks(Above(tree), i, Hops) : Apps!Path(tree, i) = {g[n] : n \in 0..Hops} \ {"root"}
    BY NavPathIsWalk
  <1>2. PICK h \in Walks(Above(other), i, Hops) : Apps!Path(other, i) = {h[n] : n \in 0..Hops} \ {"root"}
    BY NavPathIsWalk
  <1>3. Hops \in Nat /\ i \in D /\ Above(tree) \in [D -> D] /\ Above(other) \in [D -> D]
    BY NavCardinality, AboveIsFunction
  <1>4. \A n \in 0..Hops : Above(other)[g[n]] = Above(tree)[g[n]]
    <2>1. \A n \in 0..Hops : g[n] \in D
      BY <1>3 DEF Walks
    <2> QED
      BY <1>1, <2>1, AboveIsFunction
  <1>5. g \in Walks(Above(other), i, Hops)
    <2> HIDE DEF D
    <2> QED
      BY <1>3, <1>4, WalkTransfers
  <1>6. \A n \in 0..Hops : g[n] = h[n]
    <2> HIDE DEF D
    <2>1. \A n \in 0..Hops : n \in Nat /\ n <= Hops
      BY <1>3
    <2> QED
      BY <1>3, <1>5, <2>1, WalksAgree
  <1> QED
    BY <1>1, <1>2, <1>6

-----------------------------------------------------------------------------
(* Applications.                                                           *)

\* What a row of the navigation may hold.
NavRow == [state : {"absent", "live", "deleted"}, type : {"menu", "directory"}, up : Nav \cup {"root"},
           segment : Segment \cup {"none"}, shown : BOOLEAN, version : Nat]

\* The tree of the rows.
Live(rows) == {n \in Nav : rows[n].state = "live"}

\* The live rows as a function.
NavTable(rows) == [n \in Live(rows) |-> rows[n]]

\* The types of the variables of Applications that the properties depend on.
ApplicationsTypeOK ==
    /\ app \in [App -> {"absent", "active", "disabled", "deleted"}]
    /\ grant \in [App -> Apps!Window \cup {"none", "revoked"}]
    /\ context \in App \cup {"none"}
    /\ nav \in [Nav -> NavRow]

\* Whoever refers to an application finds it.
ReferencesHold == /\ \A a \in App : Apps!Granted(a) => Apps!LiveApp(a)
                  /\ Live(nav) # {} => Apps!LiveApp(Home)

\* What has been read, and what is cached, against the number of the writes.
RevisionsTell ==
    /\ Apps!Writes \in Nat
    /\ reader.on => reader.key[1] = reader.since /\ reader.since \in Nat /\ reader.since <= Apps!Writes
    /\ \A e \in source : /\ e.key[1] \in Nat /\ e.nodes \in Nat
                         /\ e.key[1] <= e.nodes /\ e.nodes <= Apps!Writes

\* The limit of the nodes is exceeded by one at most.
OverByOne == Cardinality(Live(nav)) <= MaxNavNodes + 1

\* The invariant of the applications and the navigation.
ApplicationsInv ==
    /\ ApplicationsTypeOK /\ Apps!Build(NavTable(nav)) /\ OverByOne
    /\ ReferencesHold /\ RevisionsTell

\* The rows make a tree.
LEMMA NavTableIsTree ==
  ASSUME NEW rows \in [Nav -> NavRow]
  PROVE  /\ IsTree(NavTable(rows)) /\ DOMAIN NavTable(rows) = Live(rows) /\ Live(rows) \subseteq Nav
         /\ \A n \in Live(rows) : NavTable(rows)[n] = rows[n]
  BY DEF IsTree, NavTable, Live, NavRow

\* Whether a tree is accepted depends on the parents, the types and the segments.
LEMMA BuildTransfers ==
  ASSUME NEW tree, NEW other, IsTree(tree), IsTree(other), DOMAIN other = DOMAIN tree, Apps!Build(tree),
         \A n \in DOMAIN tree : /\ other[n].up = tree[n].up /\ other[n].type = tree[n].type
                                /\ other[n].segment = tree[n].segment
  PROVE  Apps!Build(other)
  <1>1. \A n \in DOMAIN tree : Apps!Path(other, n) = Apps!Path(tree, n)
    <2> SUFFICES ASSUME NEW n \in DOMAIN tree PROVE Apps!Path(other, n) = Apps!Path(tree, n)
      OBVIOUS
    <2>1. n \in Nav
      BY DEF IsTree
    <2> QED
      BY <2>1, NavPathTransfers
  <1>2. ASSUME NEW n \in DOMAIN tree
        PROVE  /\ other[n].up # "root" => other[n].up \in DOMAIN other
                  /\ other[other[n].up].type = "directory"
               /\ \E r \in Apps!Path(other, n) \cap DOMAIN other : other[r].up = "root"
               /\ \A m \in DOMAIN other \ {n} : other[m].up = other[n].up
                  => other[m].segment # other[n].segment
    BY <1>1 DEF Apps!Build
  <1> QED
    BY <1>2 DEF Apps!Build

\* A leaf can be taken out of a tree.
LEMMA BuildWithoutLeaf ==
  ASSUME NEW tree, NEW other, NEW l, IsTree(tree), IsTree(other), DOMAIN other = DOMAIN tree \ {l},
         Apps!Build(tree),
         \A n \in DOMAIN other : other[n] = tree[n], \A n \in DOMAIN tree : tree[n].up # l
  PROVE  Apps!Build(other)
  <1>1. ASSUME NEW n \in DOMAIN other PROVE l \notin Apps!Path(tree, n)
               /\ Apps!Path(other, n) = Apps!Path(tree, n)
    <2>1. n \in Nav /\ n # l
      BY DEF IsTree
    <2>2. l \notin Apps!Path(tree, n)
      BY <2>1, NavPathComesFrom
    <2> QED
      BY <2>1, <2>2, NavPathTransfers
  <1>2. ASSUME NEW n \in DOMAIN other
        PROVE  /\ other[n].up # "root" => other[n].up \in DOMAIN other
                  /\ other[other[n].up].type = "directory"
               /\ \E r \in Apps!Path(other, n) \cap DOMAIN other : other[r].up = "root"
               /\ \A m \in DOMAIN other \ {n} : other[m].up = other[n].up
                  => other[m].segment # other[n].segment
    BY <1>1, <1>2 DEF Apps!Build
  <1> QED
    BY <1>2 DEF Apps!Build

\* There are no applications at first.
LEMMA ApplicationsBegin == Apps!Init => ApplicationsInv
  <1> SUFFICES ASSUME Apps!Init PROVE ApplicationsInv
    OBVIOUS
  <1> USE DEF Apps!Init
  <1>1. ApplicationsTypeOK
    BY DEF ApplicationsTypeOK, Apps!NoNav, NavRow
  <1>2. Live(nav) = {}
    BY DEF Live, Apps!NoNav
  <1>3. Apps!Build(NavTable(nav)) /\ OverByOne
    <2>1. Apps!Build(NavTable(nav))
      BY <1>2 DEF Apps!Build, NavTable
    <2>2. Cardinality({}) = 0
      BY FS_EmptySet
    <2>3. OverByOne
      BY <1>2, <2>2, TreesAssumption DEF OverByOne
    <2> QED
      BY <2>1, <2>3
  <1>4. ReferencesHold
    BY <1>2 DEF ReferencesHold, Apps!Granted, Apps!Window
  <1>5. RevisionsTell
    <2>1. \A n \in Nav : nav[n].version \in Nat
      BY DEF Apps!NoNav
    <2>2. CASE Nav = {}
      <3>1. PICK f : f = CHOOSE h : IsSum(nav, h)
        OBVIOUS
      <3>2. IsSum(nav, f)
        BY <2>1, <3>1, SumExists
      <3>3. f[Nav] = 0
        BY <2>2, <3>2 DEF IsSum
      <3>4. Sum(nav) = f[Nav]
        BY <3>1, Zenon DEF Sum
      <3> QED
        BY <3>3, <3>4, WritesAreSummed DEF RevisionsTell, Apps!NoReader
    <2>3. CASE Nav # {}
      <3>1. PICK x \in Nav : TRUE
        BY <2>3
      <3>2. Grown(nav, nav, x, 0)
        BY <2>1 DEF Grown
      <3>3. Sum(nav) \in Nat
        BY <3>2, SumGrows
      <3> QED
        BY <3>3, WritesAreSummed DEF RevisionsTell, Apps!NoReader
    <2> QED
      BY <2>2, <2>3
  <1> QED
    BY <1>1, <1>3, <1>4, <1>5 DEF ApplicationsInv

\* The navigation stays: what else the invariant says of it stays too.
LEMMA NavStays ==
  ASSUME ApplicationsInv, nav' = nav, ApplicationsTypeOK', ReferencesHold',
         reader'.on => \/ reader' = reader
                       \/ reader'.key[1] = Apps!Writes /\ reader'.since = Apps!Writes,
         \A e \in source' : \/ e \in source
                            \/ reader.on /\ e.key = reader.key /\ e.nodes = Apps!Writes
  PROVE  ApplicationsInv'
  <1>1. Apps!Writes' = Apps!Writes
    BY WritesAreSummed
  <1>2. RevisionsTell'
    BY <1>1 DEF ApplicationsInv, RevisionsTell
  <1>3. Apps!Build(NavTable(nav')) /\ OverByOne'
    BY DEF ApplicationsInv, OverByOne
  <1> QED
    BY <1>2, <1>3 DEF ApplicationsInv

\* One row of the navigation is written.
LEMMA NavWritten ==
  ASSUME ApplicationsInv, NEW n \in Nav, NEW row \in NavRow, nav' = [nav EXCEPT ![n] = row],
         row.version = nav[n].version + 1, UNCHANGED <<app, grant, tenancy, context, reader, source>>,
         row.state = "live" => Apps!LiveApp(Home), Apps!Build(NavTable(nav')), OverByOne'
  PROVE  ApplicationsInv'
  <1>1. nav \in [Nav -> NavRow] /\ nav' \in [Nav -> NavRow]
    BY DEF ApplicationsInv, ApplicationsTypeOK
  <1>2. ApplicationsTypeOK'
    BY <1>1 DEF ApplicationsInv, ApplicationsTypeOK
  <1>3. ReferencesHold'
    <2>1. Live(nav') \subseteq Live(nav) \cup (IF row.state = "live" THEN {n} ELSE {})
      BY <1>1 DEF Live
    <2> QED
      BY <2>1 DEF ApplicationsInv, ReferencesHold, Apps!Granted, Apps!LiveApp
  <1>4. Apps!Writes \in Nat /\ Apps!Writes' = Apps!Writes + 1
    <2>1. \A m \in Nav : nav[m].version \in Nat
      BY <1>1 DEF NavRow
    <2>2. Grown(nav, nav', n, 1)
      BY <1>1, <2>1 DEF Grown
    <2>3. Sum(nav) \in Nat /\ Sum(nav') = Sum(nav) + 1
      BY <2>2, SumGrows
    <2> QED
      BY <2>3, WritesAreSummed
  <1>5. RevisionsTell'
    BY <1>4 DEF ApplicationsInv, RevisionsTell
  <1> QED
    BY <1>2, <1>3, <1>5 DEF ApplicationsInv

\* Nodes are finitely many.
LEMMA LiveNodes ==
  ASSUME NEW rows PROVE IsFiniteSet(Live(rows)) /\ Cardinality(Live(rows)) \in Nat
  <1>1. Live(rows) \subseteq Nav
    BY DEF Live
  <1> QED
    BY <1>1, TreesAssumption, FS_Subset, FS_CardinalityType

\* A node that is created or updated has been checked with the tree it makes; what is counted
\* is the tree before.
LEMMA NodeWritten ==
  ASSUME ApplicationsInv, NEW n \in Nav, NEW in \in Apps!NavInput, Apps!CreateNav(n, in)
         \/ Apps!UpdateNav(n, in)
  PROVE  ApplicationsInv'
  <1> DEFINE row == [state |-> "live", type |-> in.type, up |-> in.up, segment |-> in.segment,
                     shown |-> in.shown, version |-> nav[n].version + 1]
             candidate == [x \in Live(nav) \cup {n} |->
                             IF x = n THEN [up |-> in.up, type |-> in.type, segment |-> in.segment]
                             ELSE [up |-> nav[x].up, type |-> nav[x].type, segment |-> nav[x].segment]]
  <1>1. nav \in [Nav -> NavRow]
    BY DEF ApplicationsInv, ApplicationsTypeOK
  <1>2. /\ in.type \in {"menu", "directory"} /\ in.up \in Nav \cup {"root"} /\ in.segment \in Segment
        /\ in.shown \in BOOLEAN
    BY DEF Apps!NavInput
  <1>3. row \in NavRow /\ row.version = nav[n].version + 1
    BY <1>1, <1>2 DEF NavRow
  <1>4. /\ nav' = [nav EXCEPT ![n] = row] /\ UNCHANGED <<app, grant, tenancy, context, reader, source>>
        /\ Apps!LiveApp(Home)
    BY DEF Apps!CreateNav, Apps!UpdateNav, Apps!Row, ApplicationsInv, ReferencesHold, Apps!LiveNav, Live
  <1>5. Apps!Build(candidate)
    BY DEF Apps!CreateNav, Apps!UpdateNav, Apps!validateTree, Apps!LiveNav, Live
  <1>6. /\ nav' \in [Nav -> NavRow] /\ nav'[n] = row /\ \A m \in Nav \ {n} : nav'[m] = nav[m]
        /\ Live(nav') = Live(nav) \cup {n}
    <2> HIDE DEF row
    <2>1. nav' \in [Nav -> NavRow] /\ nav'[n] = row /\ \A m \in Nav \ {n} : nav'[m] = nav[m]
      BY <1>1, <1>3, <1>4
    <2>2. row.state = "live"
      BY DEF row
    <2> QED
      BY <2>1, <2>2 DEF Live
  <1>7. IsTree(candidate) /\ DOMAIN candidate = Live(nav')
    BY <1>1, <1>2, <1>6 DEF IsTree, Live, NavRow
  <1>8. \A m \in DOMAIN candidate : /\ NavTable(nav')[m].up = candidate[m].up
                                    /\ NavTable(nav')[m].type = candidate[m].type
                                    /\ NavTable(nav')[m].segment = candidate[m].segment
    <2>1. \A m \in Live(nav') : NavTable(nav')[m] = nav'[m]
      BY <1>6, NavTableIsTree
    <2> QED
      BY <1>6, <1>7, <2>1 DEF Live
  <1>9. Apps!Build(NavTable(nav'))
    <2> HIDE DEF candidate
    <2> QED
      BY <1>5, <1>6, <1>7, <1>8, BuildTransfers, NavTableIsTree
  <1>10. OverByOne'
    <2>1. Cardinality(Live(nav)) <= MaxNavNodes
      <3>1. Apps!LiveNav = Live(nav)
        BY DEF Apps!LiveNav, Live
      <3> QED
        BY <3>1, NavCardinality DEF Apps!CreateNav, Apps!UpdateNav, Apps!validateTree, Apps!WithinLimit
    <2>2. IsFiniteSet(Live(nav)) /\ Cardinality(Live(nav)) \in Nat
      BY LiveNodes
    <2>3. Cardinality(Live(nav) \cup {n}) <= Cardinality(Live(nav)) + 1
      BY <2>2, FS_AddElement
    <2>4. IsFiniteSet(Live(nav) \cup {n})
      BY <2>2, FS_AddElement
    <2>5. Cardinality(Live(nav) \cup {n}) \in Nat
      BY <2>4, FS_CardinalityType
    <2>6. Cardinality(Live(nav) \cup {n}) <= MaxNavNodes + 1
      BY <2>1, <2>2, <2>3, <2>5, TreesAssumption
    <2>7. Live(nav)' = Live(nav) \cup {n}
      BY <1>6
    <2> HIDE DEF row, candidate
    <2> QED
      BY <2>6, <2>7 DEF OverByOne
  <1> HIDE DEF row
  <1> QED
    BY <1>3, <1>4, <1>9, <1>10, NavWritten

\* Only a leaf is deleted.
LEMMA NodeDeleted ==
  ASSUME ApplicationsInv, NEW n \in Nav, Apps!DeleteNav(n) PROVE ApplicationsInv'
  <1>1. nav \in [Nav -> NavRow] /\ nav[n].version + 1 \in Nat
    BY DEF ApplicationsInv, ApplicationsTypeOK, NavRow
  <1>2. PICK row : row = [Apps!NoNav EXCEPT !.state = "deleted", !.version = nav[n].version + 1]
    OBVIOUS
  <1>3. row \in NavRow /\ row.version = nav[n].version + 1 /\ row.state = "deleted"
    <2>1. Apps!NoNav \in NavRow
      BY DEF Apps!NoNav, NavRow
    <2> QED
      BY <1>1, <1>2, <2>1 DEF NavRow
  <1>4. nav' = [nav EXCEPT ![n] = row] /\ UNCHANGED <<app, grant, tenancy, context, reader, source>>
    BY <1>2 DEF Apps!DeleteNav
  <1>5. nav' \in [Nav -> NavRow] /\ Live(nav') = Live(nav) \ {n} /\ \A m \in Live(nav') : nav'[m] = nav[m]
    BY <1>1, <1>3, <1>4 DEF Live
  <1>6. \A m \in Live(nav) : NavTable(nav)[m].up # n
    BY <1>1, NavTableIsTree DEF Apps!DeleteNav, Apps!LiveNav, Live
  <1>7. Apps!Build(NavTable(nav'))
    <2>1. /\ IsTree(NavTable(nav)) /\ DOMAIN NavTable(nav) = Live(nav)
          /\ IsTree(NavTable(nav')) /\ DOMAIN NavTable(nav') = Live(nav')
          /\ \A m \in Live(nav') : NavTable(nav')[m] = NavTable(nav)[m]
      BY <1>1, <1>5, NavTableIsTree
    <2>2. Apps!Build(NavTable(nav))
      BY DEF ApplicationsInv
    <2> QED
      BY <1>5, <1>6, <2>1, <2>2, BuildWithoutLeaf
  <1>8. OverByOne'
    <2>1. Cardinality(Live(nav')) <= Cardinality(Live(nav))
      BY <1>5, LiveNodes, FS_Subset
    <2>2. Cardinality(Live(nav')) \in Nat /\ Cardinality(Live(nav)) \in Nat
      BY LiveNodes
    <2> QED
      BY <2>1, <2>2, TreesAssumption DEF ApplicationsInv, OverByOne
  <1> QED
    BY <1>3, <1>4, <1>7, <1>8, NavWritten

\* An application that something refers to is not deleted, and a grant names one that is there.
LEMMA ApplicationStep ==
  ASSUME ApplicationsInv, NEW a \in App, NEW status \in {"active", "disabled"}, NEW window \in Apps!Window,
         \/ Apps!Create(a, status) \/ Apps!Update(a, status) \/ Apps!Grant(a, window)
         \/ Apps!Delete(a) \/ Apps!Revoke(a) \/ Apps!WindowMoves(a) \/ Apps!SwitchContext(a)
  PROVE  ApplicationsInv'
  <1> USE DEF Apps!LiveApp, Apps!Granted, Apps!Window
  <1>1. ApplicationsTypeOK /\ ReferencesHold /\ Apps!Window = {"active", "outside"}
    BY DEF ApplicationsInv
  <1>2. CASE Apps!Create(a, status) \/ Apps!Update(a, status) \/ Apps!Delete(a)
    <2>1. PICK s \in {"active", "disabled", "deleted"} : app' = [app EXCEPT ![a] = s]
      BY <1>2 DEF Apps!Create, Apps!Update, Apps!Delete
    <2>2. s = "deleted" => ~Apps!Granted(a) /\ (a = Home => Live(nav) = {})
      BY <1>1, <1>2, <2>1 DEF Apps!Create, Apps!Update, Apps!Delete, Apps!LiveNav, Live, ApplicationsTypeOK
    <2>3. UNCHANGED <<grant, context, nav, reader, source>>
      BY <1>2 DEF Apps!Create, Apps!Update, Apps!Delete
    <2>4. ApplicationsTypeOK'
      BY <1>1, <2>1, <2>3 DEF ApplicationsTypeOK
    <2>5. ReferencesHold'
      BY <1>1, <2>1, <2>2, <2>3, TreesAssumption DEF ReferencesHold, ApplicationsTypeOK
    <2> QED
      BY <2>3, <2>4, <2>5, NavStays
  <1>3. CASE Apps!Grant(a, window) \/ Apps!Revoke(a) \/ Apps!WindowMoves(a)
    <2>1. PICK g \in {"active", "outside", "revoked"} : grant' = [grant EXCEPT ![a] = g]
      BY <1>1, <1>3 DEF Apps!Grant, Apps!Revoke, Apps!WindowMoves, ApplicationsTypeOK
    <2>2. Apps!LiveApp(a)
      BY <1>1, <1>3 DEF Apps!Grant, Apps!Revoke, Apps!WindowMoves, ReferencesHold
    <2>3. UNCHANGED <<app, context, nav, reader, source>>
      BY <1>3 DEF Apps!Grant, Apps!Revoke, Apps!WindowMoves
    <2>4. ApplicationsTypeOK'
      BY <1>1, <2>1, <2>3 DEF ApplicationsTypeOK
    <2>5. ReferencesHold'
      BY <1>1, <2>1, <2>2, <2>3 DEF ReferencesHold, ApplicationsTypeOK
    <2> QED
      BY <2>3, <2>4, <2>5, NavStays
  <1>4. CASE Apps!SwitchContext(a)
    <2>1. context' = a /\ UNCHANGED <<app, grant, nav, reader, source>>
      BY <1>4 DEF Apps!SwitchContext
    <2>2. ApplicationsTypeOK' /\ ReferencesHold'
      BY <1>1, <2>1 DEF ApplicationsTypeOK, ReferencesHold
    <2> QED
      BY <2>1, <2>2, NavStays
  <1> QED
    BY <1>2, <1>3, <1>4

\* The tenant changes, or is deleted with the grants that its deletion has found.
LEMMA TenancyStep ==
  ASSUME ApplicationsInv, \/ Apps!TenancyChanges \/ Apps!deleteTenantRows
                          \/ Apps!deleteTenant \/ Apps!deleteTenantFails
  PROVE  ApplicationsInv'
  <1>1. /\ UNCHANGED <<app, nav, reader, source>> /\ context' \in {context, "none"}
        /\ grant' = grant
           \/ grant' = [a \in App |-> IF a \in deleting.grants THEN "none" ELSE grant[a]]
    BY DEF Apps!TenancyChanges, Apps!deleteTenantRows, Apps!deleteTenant, Apps!deleteTenantFails
  <1>2. ApplicationsTypeOK'
    BY <1>1 DEF ApplicationsInv, ApplicationsTypeOK
  <1>3. ReferencesHold'
    BY <1>1 DEF ApplicationsInv, ApplicationsTypeOK, ReferencesHold, Apps!Granted, Apps!Window, Apps!LiveApp
  <1> QED
    BY <1>1, <1>2, <1>3, NavStays

\* Reading the navigation, and caching what was read.
LEMMA ReaderStep ==
  ASSUME ApplicationsInv, NEW cached \in BOOLEAN,
         Apps!CurrentTree \/ Apps!CacheAnswers \/ Apps!Expire \/ Apps!SelectNodes(cached)
  PROVE  ApplicationsInv'
  <1>1. UNCHANGED <<app, grant, context, nav>>
    BY DEF Apps!CurrentTree, Apps!CacheAnswers, Apps!Expire, Apps!SelectNodes
  <1>2. ApplicationsTypeOK' /\ ReferencesHold'
    BY <1>1 DEF ApplicationsInv, ApplicationsTypeOK, ReferencesHold, Apps!Granted, Apps!LiveApp
  <1>3. CASE Apps!CurrentTree
    BY <1>1, <1>2, <1>3, NavStays, WritesAreSummed DEF Apps!CurrentTree
  <1>4. CASE Apps!CacheAnswers \/ Apps!Expire
    BY <1>1, <1>2, <1>4, NavStays DEF Apps!CacheAnswers, Apps!Expire, Apps!NoReader
  <1>5. CASE Apps!SelectNodes(cached)
    BY <1>1, <1>2, <1>5, NavStays DEF Apps!SelectNodes, Apps!NoReader
  <1> QED
    BY <1>3, <1>4, <1>5

\* Every step keeps the invariant.
LEMMA ApplicationsStep == ApplicationsInv /\ [Apps!Next]_(Apps!vars) => ApplicationsInv'
  <1> SUFFICES ASSUME ApplicationsInv, [Apps!Next]_(Apps!vars) PROVE ApplicationsInv'
    OBVIOUS
  <1>1. CASE UNCHANGED Apps!vars
    <2>1. UNCHANGED <<app, grant, context, nav, reader, source>>
      BY <1>1 DEF Apps!vars
    <2>2. ApplicationsTypeOK' /\ ReferencesHold'
      BY <2>1 DEF ApplicationsInv, ApplicationsTypeOK, ReferencesHold, Apps!Granted, Apps!LiveApp
    <2> QED
      BY <2>1, <2>2, NavStays
  <1>2. ASSUME NEW a \in App, NEW status \in {"active", "disabled"}, Apps!Create(a, status)
               \/ Apps!Update(a, status)
        PROVE  ApplicationsInv'
    <2>1. "active" \in Apps!Window
      BY DEF Apps!Window
    <2> QED
      BY <1>2, <2>1, ApplicationStep
  <1>3. ASSUME NEW a \in App, NEW window \in Apps!Window, Apps!Grant(a, window) PROVE ApplicationsInv'
    <2>1. "active" \in {"active", "disabled"}
      OBVIOUS
    <2> QED
      BY <1>3, <2>1, ApplicationStep
  <1>4. ASSUME NEW a \in App, Apps!Delete(a) \/ Apps!Revoke(a) \/ Apps!WindowMoves(a) \/ Apps!SwitchContext(a)
        PROVE  ApplicationsInv'
    <2>1. "active" \in {"active", "disabled"} /\ "active" \in Apps!Window
      BY DEF Apps!Window
    <2> QED
      BY <1>4, <2>1, ApplicationStep
  <1>5. CASE Apps!CurrentTree \/ Apps!CacheAnswers \/ Apps!Expire
    <2>1. TRUE \in BOOLEAN
      OBVIOUS
    <2> QED
      BY <1>5, <2>1, ReaderStep
  <1> QED
    BY <1>1, <1>2, <1>3, <1>4, <1>5, TenancyStep, NodeWritten, NodeDeleted, ReaderStep DEF Apps!Next

\* What the invariant says of the navigation is what every request of it relies on.
LEMMA NavigationServed == ApplicationsInv => Apps!NavigationIsServed
  <1> SUFFICES ASSUME ApplicationsInv PROVE Apps!NavigationIsServed
    OBVIOUS
  <1> DEFINE tree == NavTable(nav)
  <1>1. /\ nav \in [Nav -> NavRow] /\ IsTree(tree) /\ DOMAIN tree = Live(nav) /\ Live(nav) \subseteq Nav
        /\ \A n \in Live(nav) : tree[n] = nav[n]
    BY NavTableIsTree DEF ApplicationsInv, ApplicationsTypeOK
  <1>2. Apps!LiveNav = Live(nav) /\ [n \in Apps!LiveNav |-> nav[n]] = tree
    BY DEF Apps!LiveNav, Live, NavTable
  <1> HIDE DEF tree
  <1>3. /\ Apps!Build(tree)
        /\ \A n \in Live(nav) :
             /\ nav[n].up # "root" => nav[n].up \in Live(nav) /\ nav[nav[n].up].type = "directory"
             /\ \E r \in Apps!Path(tree, n) \cap Live(nav) : nav[r].up = "root"
    <2>1. Apps!Build(tree)
      BY DEF ApplicationsInv, tree
    <2> QED
      BY <1>1, <2>1 DEF Apps!Build
  <1>4. ASSUME NEW n \in Live(nav)
        PROVE  /\ n \in Apps!Path(tree, n)
               /\ \A y \in Apps!Path(tree, n) : /\ y \in Live(nav)
                                                /\ nav[y].up = "root" \/ nav[y].up \in Apps!Path(tree, n)
                                                /\ y = n \/ \E z \in Apps!Path(tree,
                                                   n) \cap Live(nav) : nav[z].up = y
    <2>1. \A m \in DOMAIN tree : tree[m].up # "root" => tree[m].up \in DOMAIN tree
      BY <1>1, <1>3
    <2>2. \E r \in Apps!Path(tree, n) \cap DOMAIN tree : tree[r].up = "root"
      BY <1>1, <1>3
    <2>3. \A y \in Apps!Path(tree, n) : y \in DOMAIN tree
          /\ (tree[y].up = "root" \/ tree[y].up \in Apps!Path(tree, n))
      BY <1>1, <2>1, <2>2, NavPathIsClosed
    <2>4. /\ n \in Apps!Path(tree, n)
          /\ \A y \in Apps!Path(tree, n) : y = n \/ \E z \in Apps!Path(tree,
             n) \cap DOMAIN tree : tree[z].up = y
      BY <1>1, NavPathComesFrom
    <2> QED
      BY <1>1, <2>3, <2>4
  <1>5. ASSUME NEW K \in SUBSET Nav
        PROVE  Apps!ParentClosed(Apps!filter(K)) /\ K \cap Apps!LiveNav \subseteq Apps!filter(K)
    <2>1. Apps!filter(K) = UNION {Apps!Path(tree, n) : n \in K \cap Live(nav)}
      BY <1>2 DEF Apps!filter
    <2> QED
      BY <1>2, <1>4, <2>1 DEF Apps!ParentClosed
  <1>6. ASSUME NEW allowed \in SUBSET Nav
        PROVE  /\ Apps!ParentClosed(Apps!PruneVisible(allowed))
               /\ \A n \in Apps!PruneVisible(allowed) :
                     /\ nav[n].shown
                     /\ nav[n].type = "menu" => n \in allowed
                     /\ nav[n].type = "directory" => \E m \in Apps!PruneVisible(allowed) : nav[m].up = n
    <2> DEFINE menus == {m \in Live(nav) : nav[m].type = "menu" /\ m \in allowed
                                           /\ \A x \in Apps!Path(tree, m) : nav[x].shown}
    <2>1. Apps!PruneVisible(allowed) = UNION {Apps!Path(tree, n) : n \in menus}
      BY <1>2 DEF Apps!PruneVisible
    <2>2. ASSUME NEW n \in Apps!PruneVisible(allowed)
          PROVE  /\ nav[n].up # "root" => nav[n].up \in Apps!PruneVisible(allowed)
                 /\ nav[n].shown
                 /\ nav[n].type = "menu" => n \in allowed
                 /\ nav[n].type = "directory" => \E m \in Apps!PruneVisible(allowed) : nav[m].up = n
      <3>1. PICK m \in menus : n \in Apps!Path(tree, m)
        BY <2>1
      <3>2. /\ n \in Live(nav) /\ (nav[n].up = "root" \/ nav[n].up \in Apps!Path(tree, m))
            /\ n = m \/ \E z \in Apps!Path(tree, m) \cap Live(nav) : nav[z].up = n
        BY <1>4, <3>1
      <3>3. Apps!Path(tree, m) \subseteq Apps!PruneVisible(allowed)
        BY <2>1, <3>1
      <3>4. nav[n].type = "menu" => n = m
        BY <1>1, <1>3, <3>2, TreesAssumption
      <3>5. nav[n].type = "directory" => n # m
        BY <3>1
      <3> QED
        BY <3>1, <3>2, <3>3, <3>4, <3>5
    <2> QED
      BY <2>2 DEF Apps!ParentClosed
  <1>7. Apps!Cardinality(Apps!LiveNav) <= MaxNavNodes + 1
    BY <1>2, NavCardinality DEF ApplicationsInv, OverByOne
  <1> QED
    BY <1>2, <1>3, <1>5, <1>6, <1>7 DEF Apps!NavigationIsServed

\* No two states of the rows have one sum of versions, so what is cached under a revision is of
\* that revision or newer.
LEMMA NavigationFresh == ApplicationsInv => Apps!NavigationIsFresh
  BY WritesAreSummed DEF ApplicationsInv, RevisionsTell, Apps!NavigationIsFresh

\* The references that the invariant keeps are the ones that are asked for.
LEMMA GrantsSound == ApplicationsInv => Apps!GrantsAreSound
  BY DEF ApplicationsInv, ApplicationsTypeOK, ReferencesHold, Apps!GrantsAreSound, Apps!Current,
     Apps!CurrentContext,
         Apps!Allowed, Apps!LiveNav, Live

\* ApplicationsAreSound of Applications (internal/application, internal/navigation): the
\* navigation is always a tree that Build accepts and exceeds its limit by one node at most, the
\* cache answers nothing older than the revision read, and grants and contexts name applications
\* that are there, also while the steps of a tenant's deletion interleave with them.
THEOREM ApplicationsSound == Apps!Spec => []Apps!ApplicationsAreSound
  <1>1. ApplicationsInv => Apps!ApplicationsAreSound
    BY NavigationServed, NavigationFresh, GrantsSound DEF Apps!ApplicationsAreSound
  <1> QED
    BY <1>1, ApplicationsBegin, ApplicationsStep, PTL DEF Apps!Spec

-----------------------------------------------------------------------------
(* All of them.                                                            *)

\* TreesAreSound: the departments, the dictionary and the navigation, with whatever steps of
\* all three and of a deletion of the tenant, for any number of rows and any limits.
\* ~SnapshotReads is the isolation of PostgreSQL; with the snapshots of MySQL the items of a
\* dictionary may close a cycle, which the run dictionary_snapshot shows.
THEOREM TreesSound ==
  ASSUME ~SnapshotReads
  PROVE  Tree!Spec /\ Dictionaries!Spec /\ Apps!Spec => []TreesAreSound
  <1>1. TreesAreSound <=> /\ Tree!DepartmentsAreForest /\ Tree!AssignmentsAreSound
                          /\ Dictionaries!DictionaryIsSound /\ Apps!ApplicationsAreSound
    BY DEF TreesAreSound
  <1> QED
    BY <1>1, DepartmentsSound, DictionarySound, ApplicationsSound, PTL
=============================================================================
