------------------------- MODULE CategoryTreeProofs -------------------------
(***************************************************************************)
(* What holds of CategoryTree for every number of requests, every list of  *)
(* roots and every length of the paths a query follows.                    *)
(***************************************************************************)
EXTENDS CategoryHistory, WellFoundedInduction, TLAPS

USE CategoryAssumption

\* A category that is there is named by the request that made it.
LEMMA ExistsIsCategory == ASSUME TypeOK, NEW c \in Exists PROVE c \in Category
BY DEF TypeOK

---------------------------------------------------------------------------
\* Induction over the naturals for a set, as the least number out of it.
LEMMA NatSetInduction ==
  ASSUME NEW T, 0 \in T, \A n \in Nat : n \in T => n + 1 \in T
  PROVE Nat \subseteq T
<1> DEFINE Less == OpToRel(<, Nat)
           Out == Nat \ T
<1>1. SUFFICES ASSUME Out # {} PROVE FALSE
  OBVIOUS
<1>2. IsWellFoundedOn(Less, Nat)
  BY NatLessThanWellFounded, Zenon
<1>3. \A x, y \in Nat : <<y, x>> \in Less <=> y < x
  BY DEF OpToRel
<1>4. PICK x \in Out : \A y \in Out : ~(<<y, x>> \in Less)
  <2> HIDE DEF Less
  <2> QED
    BY <1>1, <1>2, WFMin
<1> HIDE DEF Less
<1>5. x # 0 /\ x - 1 \in Nat /\ x - 1 < x
  OBVIOUS
<1>6. x - 1 \in T
  BY <1>3, <1>4, <1>5
<1> QED
  BY <1>5, <1>6

\* f is the function reach of Within, for the tree u, the paths from x and their length.
IsReach(f, u, x, n) ==
    f = [i \in 0 .. n |->
           IF i = 0 THEN {x} ELSE f[i - 1] \cup {c \in DOMAIN u : u[c] \in f[i - 1]}]

\* The recursion has a solution, for paths of every length.
LEMMA ReachExists == ASSUME NEW u, NEW x, NEW n \in Nat PROVE \E f : IsReach(f, u, x, n)
<1> DEFINE T == {k \in Nat : \E f : IsReach(f, u, x, k)}
<1>1. 0 \in T
  <2> DEFINE g == [i \in 0 .. 0 |-> {x}]
  <2>1. IsReach(g, u, x, 0)
    BY DEF IsReach
  <2> QED
    BY <2>1
<1>2. \A k \in Nat : k \in T => k + 1 \in T
  <2> TAKE k \in Nat
  <2> HAVE k \in T
  <2>1. PICK f : IsReach(f, u, x, k)
    OBVIOUS
  <2> DEFINE new == f[k] \cup {c \in DOMAIN u : u[c] \in f[k]}
             g == [i \in 0 .. k + 1 |-> IF i = k + 1 THEN new ELSE f[i]]
  <2>2. \A i \in 0 .. k : g[i] = f[i]
    OBVIOUS
  <2>3. g[k + 1] = g[k] \cup {c \in DOMAIN u : u[c] \in g[k]}
    BY <2>2
  <2>4. \A i \in 0 .. k :
           g[i] = IF i = 0 THEN {x} ELSE g[i - 1] \cup {c \in DOMAIN u : u[c] \in g[i - 1]}
    <3> HIDE DEF g
    <3> TAKE i \in 0 .. k
    <3>1. g[i] = f[i]
      BY <2>2
    <3>2. f[i] = IF i = 0 THEN {x} ELSE f[i - 1] \cup {c \in DOMAIN u : u[c] \in f[i - 1]}
      BY <2>1 DEF IsReach
    <3>3. i # 0 => g[i - 1] = f[i - 1]
      BY <2>2
    <3> QED
      BY <3>1, <3>2, <3>3
  <2>5. \A i \in 0 .. k + 1 :
           g[i] = IF i = 0 THEN {x} ELSE g[i - 1] \cup {c \in DOMAIN u : u[c] \in g[i - 1]}
    <3> HIDE DEF g
    <3> TAKE i \in 0 .. k + 1
    <3>1. CASE i = k + 1
      <4>1. i # 0 /\ i - 1 = k
        BY <3>1
      <4> QED
        BY <2>3, <3>1, <4>1
    <3>2. CASE i # k + 1
      <4>1. i \in 0 .. k
        BY <3>2
      <4> QED
        BY <2>4, <4>1
    <3> QED
      BY <3>1, <3>2
  <2>6. IsReach(g, u, x, k + 1)
    <3>1. g = [i \in 0 .. k + 1 |-> g[i]]
      OBVIOUS
    <3> HIDE DEF g
    <3> QED
      BY <2>5, <3>1 DEF IsReach
  <2> HIDE DEF g
  <2> QED
    BY <2>6
<1> HIDE DEF T
<1>3. n \in T
  BY <1>1, <1>2, NatSetInduction
<1> QED
  BY <1>3 DEF T

\* Its solutions for paths of n and of m relations agree on what both are about.
LEMMA ReachAgrees ==
  ASSUME NEW u, NEW x, NEW n \in Nat, NEW m \in Nat, n =< m, NEW f, NEW g,
         IsReach(f, u, x, n), IsReach(g, u, x, m), NEW i \in 0 .. n
  PROVE  f[i] = g[i]
<1> DEFINE T == {k \in Nat : k \in 0 .. n => f[k] = g[k]}
<1>1. 0 \in T
  <2>1. 0 \in 0 .. n /\ 0 \in 0 .. m
    OBVIOUS
  <2> QED
    BY <2>1 DEF IsReach
<1>2. \A k \in Nat : k \in T => k + 1 \in T
  <2> SUFFICES ASSUME NEW k \in Nat, k \in T, k + 1 \in 0 .. n PROVE f[k + 1] = g[k + 1]
    OBVIOUS
  <2>1. k \in 0 .. n /\ k + 1 \in 0 .. m /\ k + 1 # 0 /\ (k + 1) - 1 = k
    OBVIOUS
  <2>2. f[k] = g[k]
    BY <2>1
  <2>3. f[k + 1] = f[k] \cup {c \in DOMAIN u : u[c] \in f[k]}
    BY <2>1 DEF IsReach
  <2>4. g[k + 1] = g[k] \cup {c \in DOMAIN u : u[c] \in g[k]}
    BY <2>1 DEF IsReach
  <2> QED
    BY <2>2, <2>3, <2>4
<1> HIDE DEF T
<1>3. i \in T
  BY <1>1, <1>2, NatSetInduction
<1> QED
  BY <1>3 DEF T

\* What the paths of at most n relations from x lead to.
Reach(u, x, n) == (CHOOSE f : IsReach(f, u, x, n))[n]

\* The defining equations of Reach.
LEMMA ReachZero == ASSUME NEW u, NEW x PROVE Reach(u, x, 0) = {x}
<1> DEFINE f == CHOOSE h : IsReach(h, u, x, 0)
<1>1. IsReach(f, u, x, 0)
  BY ReachExists
<1>2. Reach(u, x, 0) = f[0]
  BY DEF Reach
<1> HIDE DEF f
<1> QED
  BY <1>1, <1>2 DEF IsReach

LEMMA ReachNext ==
  ASSUME NEW u, NEW x, NEW n \in Nat
  PROVE  Reach(u, x, n + 1) = Reach(u, x, n) \cup {c \in DOMAIN u : u[c] \in Reach(u, x, n)}
<1> DEFINE f == CHOOSE h : IsReach(h, u, x, n)
           g == CHOOSE h : IsReach(h, u, x, n + 1)
<1>1. IsReach(f, u, x, n)
  BY ReachExists
<1>2. IsReach(g, u, x, n + 1)
  <2>1. n + 1 \in Nat
    OBVIOUS
  <2> QED
    BY <2>1, ReachExists
<1>3. Reach(u, x, n) = f[n] /\ Reach(u, x, n + 1) = g[n + 1]
  BY DEF Reach
<1> HIDE DEF f, g
<1>4. f[n] = g[n]
  <2>1. n + 1 \in Nat /\ n =< n + 1 /\ n \in 0 .. n
    OBVIOUS
  <2> QED
    BY <1>1, <1>2, <2>1, ReachAgrees
<1>5. g[n + 1] = g[n] \cup {c \in DOMAIN u : u[c] \in g[n]}
  <2>1. n + 1 \in 0 .. n + 1 /\ n + 1 # 0 /\ (n + 1) - 1 = n
    OBVIOUS
  <2> QED
    BY <1>2, <2>1 DEF IsReach
<1> QED
  BY <1>3, <1>4, <1>5

LEMMA ReachOne == ASSUME NEW u, NEW x
  PROVE Reach(u, x, 0 + 1) = {x} \cup {c \in DOMAIN u : u[c] = x}
<1>1. Reach(u, x, 0 + 1) = Reach(u, x, 0) \cup {c \in DOMAIN u : u[c] \in Reach(u, x, 0)}
  BY ReachNext
<1> QED
  BY <1>1, ReachZero

\* A path of no relations, and the categories a category leads to.
LEMMA ReachKeepsStart == ASSUME NEW u, NEW x, NEW n \in Nat PROVE x \in Reach(u, x, n)
<1> DEFINE T == {k \in Nat : x \in Reach(u, x, k)}
<1>1. 0 \in T
  BY ReachZero
<1>2. \A k \in Nat : k \in T => k + 1 \in T
  BY ReachNext
<1> HIDE DEF T
<1>3. n \in T
  BY <1>1, <1>2, NatSetInduction
<1> QED
  BY <1>3 DEF T

LEMMA ReachExisting ==
  ASSUME NEW u, NEW x \in DOMAIN u, NEW n \in Nat PROVE Reach(u, x, n) \subseteq DOMAIN u
<1> DEFINE T == {k \in Nat : Reach(u, x, k) \subseteq DOMAIN u}
<1>1. 0 \in T
  BY ReachZero
<1>2. \A k \in Nat : k \in T => k + 1 \in T
  BY ReachNext
<1> HIDE DEF T
<1>3. n \in T
  BY <1>1, <1>2, NatSetInduction
<1> QED
  BY <1>3 DEF T

\* Longer paths lead to more.
LEMMA ReachLonger ==
  ASSUME NEW u, NEW x, NEW m \in Nat, NEW n \in Nat, m =< n
  PROVE  Reach(u, x, m) \subseteq Reach(u, x, n)
<1> DEFINE T == {k \in Nat : Reach(u, x, m) \subseteq Reach(u, x, m + k)}
<1>1. 0 \in T
  OBVIOUS
<1>2. \A k \in Nat : k \in T => k + 1 \in T
  <2> TAKE k \in Nat
  <2>1. m + k \in Nat /\ m + (k + 1) = (m + k) + 1
    OBVIOUS
  <2>2. Reach(u, x, m + k) \subseteq Reach(u, x, (m + k) + 1)
    BY <2>1, ReachNext
  <2> QED
    BY <2>1, <2>2
<1> HIDE DEF T
<1>3. n - m \in T
  <2>1. n - m \in Nat
    OBVIOUS
  <2> QED
    BY <1>1, <1>2, <2>1, NatSetInduction
<1> QED
  BY <1>3 DEF T

\* The paths from x are those from its children, with the first relation.
LEMMA ReachByRoots ==
  ASSUME NEW u, NEW x, x \notin DOMAIN u, NEW n \in Nat
  PROVE  Reach(u, x, n + 1) \ {x} = UNION {Reach(u, c, n) : c \in {d \in DOMAIN u : u[d] = x}}
<1> DEFINE roots == {d \in DOMAIN u : u[d] = x}
           T == {k \in Nat : \A z : z \in Reach(u, x, k + 1) \ {x}
                                    <=> \E c \in roots : z \in Reach(u, c, k)}
<1>1. 0 \in T
  <2>1. Reach(u, x, 0 + 1) = {x} \cup {c \in DOMAIN u : u[c] = x}
    BY ReachOne
  <2>2. \A c \in roots : Reach(u, c, 0) = {c}
    BY ReachZero
  <2> QED
    BY <2>1, <2>2
<1>2. \A k \in Nat : k \in T => k + 1 \in T
  <2> SUFFICES ASSUME NEW k \in Nat, k \in T PROVE k + 1 \in T
    OBVIOUS
  <2>1. k + 1 \in Nat
    OBVIOUS
  <2>2. \A z : z \in Reach(u, x, k + 1) \ {x} <=> \E c \in roots : z \in Reach(u, c, k)
    OBVIOUS
  <2>3. \A z : z \in Reach(u, x, (k + 1) + 1) <=>
               z \in Reach(u, x, k + 1) \/ (z \in DOMAIN u /\ u[z] \in Reach(u, x, k + 1))
    BY <2>1, ReachNext
  <2>4. \A c, z : z \in Reach(u, c, k + 1) <=>
               z \in Reach(u, c, k) \/ (z \in DOMAIN u /\ u[z] \in Reach(u, c, k))
    BY ReachNext
  <2>5. \A c \in roots : c \in Reach(u, c, k)
    BY ReachKeepsStart
  <2>6. x \in Reach(u, x, k + 1)
    BY <2>1, ReachKeepsStart
  <2>7. ASSUME NEW z, z \in Reach(u, x, (k + 1) + 1) \ {x}
        PROVE  \E c \in roots : z \in Reach(u, c, k + 1)
    <3>1. CASE z \in Reach(u, x, k + 1)
      BY <2>2, <2>4, <2>7, <3>1
    <3>2. CASE z \in DOMAIN u /\ u[z] = x
      BY <2>4, <2>5, <3>2
    <3>3. CASE z \in DOMAIN u /\ u[z] \in Reach(u, x, k + 1) \ {x}
      BY <2>2, <2>4, <3>3
    <3> QED
      BY <2>3, <2>7, <3>1, <3>2, <3>3
  <2>8. ASSUME NEW c \in roots, NEW z, z \in Reach(u, c, k + 1)
        PROVE  z \in Reach(u, x, (k + 1) + 1) \ {x}
    <3>1. CASE z \in Reach(u, c, k)
      BY <2>2, <2>3, <3>1
    <3>2. CASE z \in DOMAIN u /\ u[z] \in Reach(u, c, k)
      BY <2>2, <2>3, <3>2
    <3> QED
      BY <2>4, <2>8, <3>1, <3>2
  <2> QED
    BY <2>1, <2>7, <2>8
<1> HIDE DEF T
<1>3. n \in T
  BY <1>1, <1>2, NatSetInduction
<1> QED
  BY <1>3 DEF T

---------------------------------------------------------------------------
\* The queries of the code in terms of Reach.
LEMMA WithinIsReach == \A x, n : Within(x, n) = Reach(up, x, n) \ {User}
BY DEF Within, Reach, IsReach, Exists

LEMMA FoundIsReach == Found = Reach(up, User, Hops) \ {User}
BY WithinIsReach DEF Found

LEMMA UserIsNoCategory == ASSUME TypeOK PROVE User \notin Exists
BY DEF TypeOK

\* GET /category follows one relation more than the check, the root's.
LEMMA ShownIsReach == ASSUME TypeOK PROVE Shown = Reach(up, User, Hops + 1) \ {User}
<1>1. Hops \in Nat
  OBVIOUS
<1>2. Reach(up, User, Hops + 1) \ {User} = UNION {Reach(up, c, Hops) : c \in Roots}
  BY <1>1, UserIsNoCategory, ReachByRoots DEF Roots, Exists
<1>3. \A c \in Roots : Within(c, Hops) = Reach(up, c, Hops) \ {User}
  BY WithinIsReach
<1>4. \A c \in Roots : User \notin Reach(up, c, Hops)
  BY <1>1, UserIsNoCategory, ReachExisting DEF Roots, Exists
<1>5. \A c \in Roots : Within(c, Hops) = Reach(up, c, Hops)
  BY <1>3, <1>4
<1>6. {Within(c, Hops) : c \in Roots} = {Reach(up, c, Hops) : c \in Roots}
  BY <1>5
<1> QED
  BY <1>2, <1>6 DEF Shown

\* What a query finds from the user are categories that are there,
LEMMA FoundExists == Found \subseteq Exists
<1> DEFINE T == {k \in Nat : \A c : c \in Reach(up, User, k) /\ c # User => c \in Exists}
<1>1. 0 \in T
  BY ReachZero
<1>2. \A k \in Nat : k \in T => k + 1 \in T
  BY ReachNext DEF Exists
<1> HIDE DEF T
<1>3. Hops \in T
  BY <1>1, <1>2, NatSetInduction
<1>4. \A c : c \in Reach(up, User, Hops) /\ c # User => c \in Exists
  BY <1>3 DEF T
<1> QED
  BY <1>4, FoundIsReach

\* and so are those it finds from one of them.
LEMMA SubtreeExists == ASSUME NEW c \in Exists PROVE Within(c, Hops) \subseteq Exists
<1>1. Hops \in Nat
  OBVIOUS
<1>2. Reach(up, c, Hops) \subseteq Exists
  BY <1>1, ReachExisting DEF Exists
<1> QED
  BY <1>2, WithinIsReach

---------------------------------------------------------------------------
LEMMA InitTypeOK == Init => TypeOK
BY DEF Init, TypeOK, Exists, Step

LEMMA StepTypeOK == TypeOK /\ [Next]_vars => TypeOK'
<1> SUFFICES ASSUME TypeOK, [Next]_vars PROVE TypeOK'
  OBVIOUS
<1> USE DEF TypeOK, Exists, Step, Goto, End
<1>1. ASSUME NEW r \in Request, GetCategoriesByUser(r) PROVE TypeOK'
  BY <1>1 DEF GetCategoriesByUser
<1>2. ASSUME NEW r \in Request, InitCategories(r) PROVE TypeOK'
  <2> DEFINE roots == {c \in [by : {r}, order : Order] : \A d \in Roots : d.order # c.order}
  <2>1. roots \subseteq Category
    BY DEF Category
  <2>2. /\ up' = [c \in Exists \cup roots |-> IF c \in roots THEN User ELSE up[c]]
        /\ label' = [c \in Exists \cup roots |-> IF c \in Exists \ Roots THEN label[c] ELSE None]
    BY <1>2 DEF InitCategories
  <2> HIDE DEF roots
  <2>3. /\ DOMAIN up' \subseteq Category /\ up' \in [DOMAIN up' -> Category \cup {User, None}]
        /\ label' \in [DOMAIN up' -> Request \cup {None}]
    BY <2>1, <2>2
  <2> QED
    BY <1>2, <2>3 DEF InitCategories
<1>3. ASSUME NEW r \in Request, CheckCategory(r) PROVE TypeOK'
  BY <1>3 DEF CheckCategory
<1>4. ASSUME NEW r \in Request, CreateCategory(r) PROVE TypeOK'
  <2>1. CASE req[r].target \in Exists
    <3> DEFINE c == [by |-> r, order |-> None]
    <3>1. c \in Category
      BY DEF Category
    <3>2. /\ up' = [d \in Exists \cup {c} |-> IF d = c THEN req[r].target ELSE up[d]]
          /\ label' = [d \in Exists \cup {c} |-> IF d = c THEN r ELSE label[d]]
      BY <1>4, <2>1 DEF CreateCategory
    <3> HIDE DEF c
    <3>3. /\ DOMAIN up' \subseteq Category /\ up' \in [DOMAIN up' -> Category \cup {User, None}]
          /\ label' \in [DOMAIN up' -> Request \cup {None}]
      BY <3>1, <3>2, <2>1
    <3>4. End(r, "done")
      BY <1>4, <2>1 DEF CreateCategory
    <3> QED
      BY <3>3, <3>4
  <2>2. CASE req[r].target \notin Exists
    BY <1>4, <2>2 DEF CreateCategory
  <2> QED
    BY <2>1, <2>2
<1>5. ASSUME NEW r \in Request, UpdateById(r) PROVE TypeOK'
  BY <1>5 DEF UpdateById
<1>6. ASSUME NEW r \in Request, DeleteById(r) PROVE TypeOK'
  <2> DEFINE gone == req[r].gone
  <2>1. /\ up' = [c \in Exists \ gone |-> IF up[c] \in gone THEN None ELSE up[c]]
        /\ label' = [c \in Exists \ gone |-> label[c]]
    BY <1>6 DEF DeleteById, Restrict
  <2> HIDE DEF gone
  <2>2. /\ DOMAIN up' \subseteq Category /\ up' \in [DOMAIN up' -> Category \cup {User, None}]
        /\ label' \in [DOMAIN up' -> Request \cup {None}]
    BY <2>1
  <2> QED
    BY <1>6, <2>2 DEF DeleteById
<1>7. ASSUME NEW r \in Request, MatchCategory(r) PROVE TypeOK'
  BY <1>7 DEF MatchCategory
<1>8. ASSUME NEW r \in Request, MatchSubtree(r) PROVE TypeOK'
  <2> DEFINE gone == IF req[r].target \in Found THEN Within(req[r].target, Hops) ELSE {}
  <2>1. gone \subseteq Category
    BY FoundExists, SubtreeExists DEF TypeOK
  <2> DEFINE next == IF gone = {} THEN "done" ELSE "erase"
  <2>2. req' = [req EXCEPT ![r].pc = next, ![r].gone = gone] /\ next \in Step
    BY <1>8 DEF MatchSubtree
  <2> HIDE DEF gone, next
  <2>3. \A q \in Request :
           req'[q] \in [pc : Step, target : Category \cup {None}, gone : SUBSET Category]
    <3>1. req'[r] = [pc |-> next, target |-> req[r].target, gone |-> gone]
      BY <2>2
    <3>2. req[r].target \in Category \cup {None} /\ gone \in SUBSET Category
      BY <2>1
    <3>3. req'[r] \in [pc : Step, target : Category \cup {None}, gone : SUBSET Category]
      BY <2>2, <3>1, <3>2, Zenon
    <3>4. \A q \in Request : q # r => req'[q] = req[q]
      BY <2>2
    <3> QED
      BY <3>3, <3>4
  <2>4. req' \in [Request -> [pc : Step, target : Category \cup {None}, gone : SUBSET Category]]
    BY <2>2, <2>3
  <2> QED
    BY <1>8, <2>4 DEF MatchSubtree
<1>9. CASE UNCHANGED vars
  BY <1>9 DEF vars
<1> QED
  BY <1>1, <1>2, <1>3, <1>4, <1>5, <1>6, <1>7, <1>8, <1>9 DEF Next

\* In every behaviour each category has one parent, the user or a category, and one
\* label, and each request is at a step there is.
THEOREM TypeCorrect == Spec => []TypeOK
BY InitTypeOK, StepTypeOK, PTL DEF Spec

---------------------------------------------------------------------------
\* A step other than the initialisation makes no root.
LEMMA OnlyInitMakesRoots ==
    ASSUME TypeOK, NEW r \in Request,
           \/ GetCategoriesByUser(r) \/ CheckCategory(r) \/ CreateCategory(r)
           \/ MatchCategory(r) \/ UpdateById(r) \/ MatchSubtree(r) \/ DeleteById(r)
    PROVE  Roots' \subseteq Roots
<1> USE DEF Roots, Exists
<1>1. CASE CreateCategory(r)
  BY <1>1 DEF CreateCategory, TypeOK
<1>2. CASE DeleteById(r)
  BY <1>2 DEF DeleteById
<1> QED
  BY <1>1, <1>2 DEF GetCategoriesByUser, CheckCategory, MatchCategory, UpdateById, MatchSubtree

LEMMA StepOneRoot == TypeOK /\ OneRootPerOrder /\ [Next]_vars => OneRootPerOrder'
<1> SUFFICES ASSUME TypeOK, OneRootPerOrder, [Next]_vars PROVE OneRootPerOrder'
  OBVIOUS
<1>1. ASSUME NEW r \in Request, InitCategories(r) PROVE OneRootPerOrder'
  <2> DEFINE roots == {c \in [by : {r}, order : Order] : \A d \in Roots : d.order # c.order}
  <2>1. up' = [c \in Exists \cup roots |-> IF c \in roots THEN User ELSE up[c]]
    BY <1>1 DEF InitCategories
  <2>2. Roots' \subseteq Roots \cup roots
    BY <2>1 DEF Roots, Exists
  <2>3. \A c, d \in roots : c.order = d.order => c = d
    OBVIOUS
  <2>4. \A c \in roots, d \in Roots : c.order # d.order
    OBVIOUS
  <2> QED
    BY <2>2, <2>3, <2>4 DEF OneRootPerOrder
<1>2. ASSUME Roots' \subseteq Roots PROVE OneRootPerOrder'
  BY <1>2 DEF OneRootPerOrder
<1>3. CASE UNCHANGED vars
  BY <1>3 DEF vars, OneRootPerOrder, Roots, Exists
<1> QED
  BY <1>1, <1>2, <1>3, OnlyInitMakesRoots DEF Next

\* However many requests initialise the tree at once, no place in the order is taken
\* by two roots.
THEOREM RootsAreUnique == Spec => []OneRootPerOrder
<1>1. Init => OneRootPerOrder
  BY DEF Init, OneRootPerOrder, Roots, Exists
<1> QED
  BY <1>1, StepOneRoot, TypeCorrect, PTL DEF Spec

---------------------------------------------------------------------------
\* A category is named by a request that has been answered,
NamedWhenMade == \A c \in Exists : req[c.by].pc = "done"
\* and so is the one a request is about to write below.
NamesAreTold == \A r \in Request : req[r].pc = "create" =>
    req[r].target \in Category /\ req[req[r].target.by].pc = "done"
\* Whoever has lost its parent was made as the parent was being deleted.
ParentsAreThere == \A c \in Exists : up[c] \in Exists \cup {User} \/ (up[c] = None /\ c \in late)
\* A deletion has matched all of a subtree but what was made since.
SubtreesAreMatched == \A r \in Request : \A c \in Exists :
    up[c] \in req[r].gone => c \in req[r].gone \cup late
\* depth says how many relations a category was from the user when it was made, and a
\* category about to be made will be no deeper than GET /category looks.
Ranked(depth) ==
    /\ depth \in [Category -> 1 .. Hops + 1]
    /\ \A c \in Exists : up[c] = User => depth[c] = 1
    /\ \A c \in Exists : up[c] \in Exists => depth[c] = depth[up[c]] + 1
    /\ \A r \in Request : req[r].pc = "create" /\ req[r].target \in Exists
                             => depth[req[r].target] =< Hops

DepthsAreBounded == \E depth : Ranked(depth)

HiddenInv == /\ TypeOK /\ NamedWhenMade /\ NamesAreTold /\ ParentsAreThere
             /\ SubtreesAreMatched /\ DepthsAreBounded

\* What n relations from the user lead to is no deeper than n.
LEMMA DepthFromUser ==
  ASSUME TypeOK, NEW depth, Ranked(depth), NEW n \in Nat, NEW c \in Reach(up, User, n), c # User
  PROVE  c \in Exists /\ depth[c] =< n
<1> DEFINE T == {k \in Nat : \A d : d \in Reach(up, User, k) /\ d # User
                                       => d \in Exists /\ depth[d] =< k}
<1>1. 0 \in T
  BY ReachZero
<1>2. \A k \in Nat : k \in T => k + 1 \in T
  <2> SUFFICES ASSUME NEW k \in Nat, k \in T, NEW d, d \in Reach(up, User, k + 1), d # User
               PROVE  d \in Exists /\ depth[d] =< k + 1
    OBVIOUS
  <2>1. \A e \in Exists : depth[e] \in Nat
    BY ExistsIsCategory DEF Ranked
  <2>2. CASE d \in Reach(up, User, k)
    BY <2>1, <2>2
  <2>3. CASE d \in Exists /\ up[d] \in Reach(up, User, k)
    <3>1. CASE up[d] = User
      BY <2>3, <3>1 DEF Ranked
    <3>2. CASE up[d] # User
      <4>1. up[d] \in Exists /\ depth[up[d]] =< k
        BY <2>3, <3>2
      <4>2. depth[d] = depth[up[d]] + 1
        BY <2>3, <4>1 DEF Ranked
      <4> QED
        BY <2>1, <2>3, <4>1, <4>2
    <3> QED
      BY <3>1, <3>2
  <2> QED
    BY <2>2, <2>3, ReachNext DEF Exists
<1> HIDE DEF T
<1>3. n \in T
  BY <1>1, <1>2, NatSetInduction
<1> QED
  BY <1>3 DEF T

\* What is below t is as many relations from it as it is deeper.
LEMMA DepthBelow ==
  ASSUME TypeOK, NEW depth, Ranked(depth), NEW t \in Exists, NEW n \in Nat,
         NEW c \in Reach(up, t, n)
  PROVE  c \in Exists /\ depth[c] - depth[t] \in Nat /\ c \in Reach(up, t, depth[c] - depth[t])
<1> DEFINE T == {k \in Nat : \A d \in Reach(up, t, k) :
                    /\ d \in Exists /\ depth[d] - depth[t] \in Nat
                    /\ d \in Reach(up, t, depth[d] - depth[t])}
<1>0. \A e \in Exists : depth[e] \in Nat
  BY ExistsIsCategory DEF Ranked
<1>1. 0 \in T
  <2>1. depth[t] - depth[t] = 0
    BY <1>0
  <2> QED
    BY <2>1, ReachZero
<1>2. \A k \in Nat : k \in T => k + 1 \in T
  <2> SUFFICES ASSUME NEW k \in Nat, k \in T, NEW d \in Reach(up, t, k + 1)
               PROVE  /\ d \in Exists /\ depth[d] - depth[t] \in Nat
                      /\ d \in Reach(up, t, depth[d] - depth[t])
    OBVIOUS
  <2>1. CASE d \in Reach(up, t, k)
    BY <2>1
  <2>2. CASE d \in Exists /\ up[d] \in Reach(up, t, k)
    <3> DEFINE below == depth[up[d]] - depth[t]
    <3>1. up[d] \in Exists /\ below \in Nat /\ up[d] \in Reach(up, t, below)
      BY <2>2
    <3>2. depth[d] = depth[up[d]] + 1
      BY <2>2, <3>1 DEF Ranked
    <3>3. depth[d] - depth[t] = below + 1
      BY <1>0, <2>2, <3>1, <3>2
    <3> HIDE DEF below
    <3>4. d \in Reach(up, t, below + 1)
      BY <2>2, <3>1, ReachNext DEF Exists
    <3> QED
      BY <2>2, <3>1, <3>3, <3>4
  <2> QED
    BY <2>1, <2>2, ReachNext DEF Exists
<1> HIDE DEF T
<1>3. n \in T
  BY <1>1, <1>2, NatSetInduction
<1> QED
  BY <1>3 DEF T

\* Whatever is below a subtree's category is in the subtree: a MATCH of Hops relations
\* cuts nothing off.
LEMMA SubtreeIsClosed ==
  ASSUME TypeOK, NEW depth, Ranked(depth), NEW t \in Found, NEW y \in Exists,
         up[y] \in Within(t, Hops)
  PROVE  y \in Within(t, Hops)
<1> DEFINE below == depth[up[y]] - depth[t]
<1>1. Hops \in Nat /\ t \in Exists
  BY FoundExists
<1>2. up[y] \in Reach(up, t, Hops)
  BY WithinIsReach
<1>3. up[y] \in Exists /\ below \in Nat /\ up[y] \in Reach(up, t, below)
  BY <1>1, <1>2, DepthBelow
<1>4. below + 1 \in Nat /\ below + 1 =< Hops
  <2>1. depth[t] \in 1 .. Hops + 1 /\ depth[y] \in 1 .. Hops + 1 /\ depth[up[y]] \in 1 .. Hops + 1
    BY <1>1, <1>3, ExistsIsCategory DEF Ranked
  <2>2. depth[y] = depth[up[y]] + 1
    BY <1>3 DEF Ranked
  <2> QED
    BY <1>3, <2>1, <2>2
<1> HIDE DEF below
<1>5. y \in Reach(up, t, below + 1)
  BY <1>3, ReachNext DEF Exists
<1>6. y \in Reach(up, t, Hops)
  BY <1>1, <1>4, <1>5, ReachLonger
<1> QED
  BY <1>6, UserIsNoCategory, WithinIsReach

---------------------------------------------------------------------------
\* A category leads up to the user or to one that has lost its parent.
LEMMA UpToUserOrLate ==
  ASSUME TypeOK, ParentsAreThere, NEW depth, Ranked(depth), NEW c \in Exists
  PROVE  \/ c \in Reach(up, User, depth[c])
         \/ \E d \in late \cap Exists : /\ up[d] = None /\ depth[c] - depth[d] \in Nat
                                        /\ c \in Reach(up, d, depth[c] - depth[d])
<1> DEFINE Up(e) ==
      \/ e \in Reach(up, User, depth[e])
      \/ \E d \in late \cap Exists : /\ up[d] = None /\ depth[e] - depth[d] \in Nat
                                     /\ e \in Reach(up, d, depth[e] - depth[d])
    T == {k \in Nat : \A e \in Exists : depth[e] =< k => Up(e)}
<1>1. \A e \in Exists : depth[e] \in Nat /\ depth[e] >= 1
  BY ExistsIsCategory DEF Ranked
<1>2. 0 \in T
  BY <1>1
<1>3. \A k \in Nat : k \in T => k + 1 \in T
  <2> SUFFICES ASSUME NEW k \in Nat, k \in T, NEW e \in Exists, depth[e] =< k + 1
               PROVE  Up(e)
    OBVIOUS
  <2>1. CASE up[e] = User
    <3>1. depth[e] = 0 + 1
      BY <2>1 DEF Ranked
    <3>2. e \in Reach(up, User, 0 + 1)
      BY <2>1, ReachOne DEF Exists
    <3> QED
      BY <3>1, <3>2
  <2>2. CASE up[e] = None /\ e \in late
    <3>1. depth[e] - depth[e] = 0
      BY <1>1
    <3>2. e \in Reach(up, e, 0)
      BY ReachZero
    <3> QED
      BY <2>2, <3>1, <3>2
  <2>3. CASE up[e] \in Exists
    <3> DEFINE p == up[e]
    <3>1. depth[e] = depth[p] + 1 /\ depth[p] \in Nat
      BY <1>1, <2>3 DEF Ranked
    <3>2. Up(p)
      <4>1. depth[p] =< k
        BY <3>1
      <4> QED
        BY <2>3, <4>1
    <3>3. CASE p \in Reach(up, User, depth[p])
      <4>1. e \in Reach(up, User, depth[p] + 1)
        BY <3>1, <3>3, ReachNext DEF Exists
      <4> QED
        BY <3>1, <4>1
    <3>4. ASSUME NEW d \in late \cap Exists, up[d] = None, depth[p] - depth[d] \in Nat,
                 p \in Reach(up, d, depth[p] - depth[d])
          PROVE  Up(e)
      <4>1. e \in Reach(up, d, (depth[p] - depth[d]) + 1)
        BY <3>4, ReachNext DEF Exists
      <4>2. depth[e] - depth[d] = (depth[p] - depth[d]) + 1
        BY <1>1, <3>1
      <4>3. depth[e] - depth[d] \in Nat
        BY <3>4, <4>2
      <4> QED
        BY <3>4, <4>1, <4>2, <4>3
    <3> QED
      BY <3>2, <3>3, <3>4
  <2> QED
    BY <2>1, <2>2, <2>3 DEF ParentsAreThere
<1> HIDE DEF T
<1>4. depth[c] \in T
  BY <1>1, <1>2, <1>3, NatSetInduction
<1>5. depth[c] =< depth[c]
  BY <1>1
<1> QED
  BY <1>4, <1>5 DEF T

LEMMA HiddenAreLate == HiddenInv => OnlyLateCategoriesAreHidden
<1> SUFFICES ASSUME HiddenInv, NEW c \in Exists \ Shown
             PROVE  \E d \in late \cap Exists : up[d] = None /\ c \in Within(d, Hops)
  BY DEF OnlyLateCategoriesAreHidden
<1> USE DEF HiddenInv
<1>1. PICK depth : Ranked(depth)
  BY DEF DepthsAreBounded
<1>2. Hops \in Nat /\ Hops + 1 \in Nat
  OBVIOUS
<1>3. \A e \in Exists : depth[e] \in 1 .. Hops + 1
  BY <1>1, ExistsIsCategory DEF Ranked
<1>4. c \notin Reach(up, User, depth[c])
  <2>1. c \notin Reach(up, User, Hops + 1)
    BY ShownIsReach, UserIsNoCategory
  <2>2. depth[c] \in Nat /\ depth[c] =< Hops + 1
    BY <1>3
  <2> QED
    BY <1>2, <2>1, <2>2, ReachLonger
<1>5. PICK d \in late \cap Exists : /\ up[d] = None /\ depth[c] - depth[d] \in Nat
                                    /\ c \in Reach(up, d, depth[c] - depth[d])
  BY <1>1, <1>4, UpToUserOrLate
<1>6. depth[c] - depth[d] =< Hops
  BY <1>3
<1>7. c \in Reach(up, d, Hops)
  BY <1>2, <1>5, <1>6, ReachLonger
<1> QED
  BY <1>5, <1>7, UserIsNoCategory, WithinIsReach

---------------------------------------------------------------------------
\* Request r makes the categories new, all below one node that is there.
MakesBelow(r, new, parent) ==
    /\ req[r].pc \in {"init", "create"} /\ End(r, "done")
    /\ \A c \in new : c.by = r
    /\ parent \in Exists \cup {User}
    /\ Exists' = Exists \cup new
    /\ \A c \in Exists \cup new : up'[c] = IF c \in new THEN parent ELSE up[c]

\* All that is there stays as it is, and nobody is about to create below the new.
LeavesTheRest(new) ==
    /\ new \cap Exists = {}
    /\ \A c \in Exists : up'[c] = up[c]
    /\ \A q \in Request : req'[q].pc = "create"
          => req[q].pc = "create" /\ req'[q] = req[q] /\ req[q].target \notin new

\* Such a request keeps all parts of the invariant but for the depth of the new.
LEMMA NewCategories ==
  ASSUME HiddenInv, TypeOK', Record, NEW r \in Request, NEW new, NEW parent,
         MakesBelow(r, new, parent)
  PROVE  /\ LeavesTheRest(new)
         /\ NamedWhenMade' /\ NamesAreTold' /\ ParentsAreThere' /\ SubtreesAreMatched'
<1> USE DEF HiddenInv, MakesBelow
<1>1. new \cap Exists = {}
  BY DEF NamedWhenMade
<1>2. Exists' = Exists \cup new /\ \A c \in Exists : up'[c] = up[c]
  BY <1>1
<1>3. \A c \in new : up'[c] = parent
  OBVIOUS
<1>4. /\ \A q \in Request : q # r => req'[q] = req[q]
      /\ req'[r] = [pc |-> "done", target |-> None, gone |-> {}]
  BY DEF End, TypeOK
<1>5. \A q \in Request : req'[q].pc = "create"
        => req[q].pc = "create" /\ req'[q] = req[q] /\ req[q].target \notin new
  <2> SUFFICES ASSUME NEW q \in Request, req'[q].pc = "create"
               PROVE  req[q].pc = "create" /\ req'[q] = req[q] /\ req[q].target \notin new
    OBVIOUS
  <2>1. q # r /\ req'[q] = req[q]
    BY <1>4
  <2>2. req[req[q].target.by].pc = "done"
    BY <2>1 DEF NamesAreTold
  <2> QED
    BY <2>1, <2>2
<1>6. NamedWhenMade'
  <2> SUFFICES ASSUME NEW c \in Exists' PROVE req'[c.by].pc = "done"
    BY DEF NamedWhenMade
  <2>1. c.by \in Request
    BY DEF TypeOK, Category
  <2>2. c \in Exists \/ c.by = r
    BY <1>2
  <2> QED
    BY <1>4, <2>1, <2>2 DEF NamedWhenMade
<1>7. NamesAreTold'
  <2> SUFFICES ASSUME NEW q \in Request, req'[q].pc = "create"
               PROVE  req'[q].target \in Category /\ req'[req'[q].target.by].pc = "done"
    BY DEF NamesAreTold
  <2>1. req[q].pc = "create" /\ req'[q] = req[q]
    BY <1>5
  <2>2. req[q].target \in Category /\ req[req[q].target.by].pc = "done"
    BY <2>1 DEF NamesAreTold
  <2>3. req[q].target.by \in Request
    BY <2>2 DEF Category
  <2> QED
    BY <1>4, <2>1, <2>2, <2>3
<1>8. late \subseteq late'
  BY DEF Record
<1>9. ParentsAreThere'
  <2> SUFFICES ASSUME NEW c \in Exists'
               PROVE  up'[c] \in Exists' \cup {User} \/ (up'[c] = None /\ c \in late')
    BY DEF ParentsAreThere
  <2>1. CASE c \in new
    BY <1>2, <1>3, <2>1
  <2>2. CASE c \in Exists
    BY <1>2, <1>8, <2>2 DEF ParentsAreThere
  <2> QED
    BY <1>2, <2>1, <2>2
<1>10. SubtreesAreMatched'
  <2> SUFFICES ASSUME NEW q \in Request, NEW c \in Exists', up'[c] \in req'[q].gone
               PROVE  c \in req'[q].gone \cup late'
    BY DEF SubtreesAreMatched
  <2>1. q # r /\ req'[q] = req[q]
    BY <1>4
  <2>2. CASE c \in new
    <3>1. c \in Exists' \ Exists
      BY <1>1, <1>2, <2>2
    <3>2. up'[c] \in BeingDeleted
      BY <2>1 DEF BeingDeleted
    <3> QED
      BY <3>1, <3>2 DEF Record
  <2>3. CASE c \in Exists
    BY <1>2, <1>8, <2>1, <2>3 DEF SubtreesAreMatched
  <2> QED
    BY <1>2, <2>2, <2>3
<1> QED
  BY <1>1, <1>2, <1>5, <1>6, <1>7, <1>9, <1>10 DEF LeavesTheRest

LEMMA InitKeepsHidden ==
  ASSUME HiddenInv, TypeOK', Record, NEW r \in Request, InitCategories(r) PROVE HiddenInv'
<1> DEFINE roots == {c \in [by : {r}, order : Order] : \A d \in Roots : d.order # c.order}
<1>1. /\ req[r].pc = "init" /\ End(r, "done")
      /\ up' = [c \in Exists \cup roots |-> IF c \in roots THEN User ELSE up[c]]
  BY DEF InitCategories
<1>2. /\ \A c \in roots : c.by = r
      /\ roots \subseteq Category
  BY DEF Category
<1> HIDE DEF roots
<1>3. /\ roots \cap Exists = {} /\ Exists' = Exists \cup roots
      /\ \A c \in Exists : up'[c] = up[c]
      /\ \A c \in roots : up'[c] = User
      /\ \A q \in Request : req'[q].pc = "create"
            => req[q].pc = "create" /\ req'[q] = req[q] /\ req[q].target \notin roots
      /\ NamedWhenMade' /\ NamesAreTold' /\ ParentsAreThere' /\ SubtreesAreMatched'
  <2>1. MakesBelow(r, roots, User)
    BY <1>1, <1>2 DEF MakesBelow, Exists
  <2>2. /\ LeavesTheRest(roots)
        /\ NamedWhenMade' /\ NamesAreTold' /\ ParentsAreThere' /\ SubtreesAreMatched'
    BY <2>1, NewCategories
  <2> QED
    BY <2>1, <2>2 DEF MakesBelow, LeavesTheRest
<1>4. DepthsAreBounded'
  <2>1. PICK depth : Ranked(depth)
    BY DEF HiddenInv, DepthsAreBounded
  <2> DEFINE deep == [c \in Category |-> IF c \in roots THEN 1 ELSE depth[c]]
  <2>2. /\ deep \in [Category -> 1 .. Hops + 1]
        /\ \A c \in Category : deep[c] = IF c \in roots THEN 1 ELSE depth[c]
    BY <2>1 DEF Ranked
  <2> HIDE DEF deep
  <2>3. \A c \in Exists : deep[c] = depth[c]
    BY <1>3, <2>2, ExistsIsCategory DEF HiddenInv
  <2>4. \A c \in Exists' : up'[c] = User => deep[c] = 1
    BY <1>2, <1>3, <2>1, <2>2, <2>3 DEF Ranked
  <2>5. \A c \in Exists' : up'[c] \in Exists' => deep[c] = deep[up'[c]] + 1
    <3> SUFFICES ASSUME NEW c \in Exists', up'[c] \in Exists' PROVE deep[c] = deep[up'[c]] + 1
      OBVIOUS
    <3>1. c \in Exists
      BY <1>3, UserIsNoCategory, <1>2 DEF Category, HiddenInv
    <3>2. up[c] \in Exists
      <4>1. up[c] \in Exists \cup {User, None}
        BY <3>1 DEF HiddenInv, ParentsAreThere
      <4>2. User \notin Exists' /\ None \notin Exists'
        BY DEF TypeOK
      <4> QED
        BY <1>3, <3>1, <4>1, <4>2
    <3> QED
      BY <1>3, <2>1, <2>3, <3>1, <3>2 DEF Ranked
  <2>6. \A q \in Request : req'[q].pc = "create" /\ req'[q].target \in Exists'
                             => deep[req'[q].target] =< Hops
    BY <1>3, <2>1, <2>3 DEF Ranked
  <2> QED
    BY <2>2, <2>4, <2>5, <2>6 DEF DepthsAreBounded, Ranked
<1> QED
  BY <1>3, <1>4 DEF HiddenInv

\* The parent of a new category is as deep as it was when it was found.
LEMMA CreateKeepsHidden ==
  ASSUME HiddenInv, TypeOK', Record, NEW r \in Request, CreateCategory(r),
         req[r].target \in Exists
  PROVE  HiddenInv'
<1> DEFINE t == req[r].target
           new == [by |-> r, order |-> None]
<1>1. /\ req[r].pc = "create" /\ End(r, "done")
      /\ up' = [d \in Exists \cup {new} |-> IF d = new THEN t ELSE up[d]]
  BY DEF CreateCategory
<1>2. new.by = r /\ new \in Category
  BY DEF Category
<1> HIDE DEF new
<1>3. /\ new \notin Exists /\ Exists' = Exists \cup {new}
      /\ \A c \in Exists : up'[c] = up[c]
      /\ up'[new] = t
      /\ \A q \in Request : req'[q].pc = "create"
            => req[q].pc = "create" /\ req'[q] = req[q] /\ req[q].target # new
      /\ NamedWhenMade' /\ NamesAreTold' /\ ParentsAreThere' /\ SubtreesAreMatched'
  <2>1. MakesBelow(r, {new}, t)
    BY <1>1, <1>2 DEF MakesBelow, Exists
  <2>2. /\ LeavesTheRest({new})
        /\ NamedWhenMade' /\ NamesAreTold' /\ ParentsAreThere' /\ SubtreesAreMatched'
    BY <2>1, NewCategories
  <2> QED
    BY <2>1, <2>2 DEF MakesBelow, LeavesTheRest
<1>4. DepthsAreBounded'
  <2>1. PICK depth : Ranked(depth)
    BY DEF HiddenInv, DepthsAreBounded
  <2>2. t \in Category /\ depth[t] \in 1 .. Hops
    BY <1>1, <2>1, ExistsIsCategory DEF HiddenInv, Ranked
  <2> DEFINE deep == [c \in Category |-> IF c = new THEN depth[t] + 1 ELSE depth[c]]
  <2>3. /\ deep \in [Category -> 1 .. Hops + 1]
        /\ \A c \in Category : deep[c] = IF c = new THEN depth[t] + 1 ELSE depth[c]
    BY <2>1, <2>2 DEF Ranked
  <2> HIDE DEF deep
  <2>4. /\ \A c \in Exists : deep[c] = depth[c]
        /\ deep[new] = depth[t] + 1
    BY <1>2, <1>3, <2>3, ExistsIsCategory DEF HiddenInv
  <2>5. \A c \in Exists' : up'[c] = User => deep[c] = 1
    BY <1>3, <2>1, <2>4, UserIsNoCategory DEF Ranked, HiddenInv
  <2>6. \A c \in Exists' : up'[c] \in Exists' => deep[c] = deep[up'[c]] + 1
    <3> SUFFICES ASSUME NEW c \in Exists', up'[c] \in Exists' PROVE deep[c] = deep[up'[c]] + 1
      OBVIOUS
    <3>1. CASE c = new
      BY <1>3, <2>4, <3>1
    <3>2. CASE c \in Exists
      <4>1. up[c] \in Exists \cup {User, None}
        BY <3>2 DEF HiddenInv, ParentsAreThere
      <4>2. User \notin Exists' /\ None \notin Exists'
        BY DEF TypeOK
      <4>3. up[c] \in Exists
        BY <1>3, <3>2, <4>1, <4>2
      <4> QED
        BY <1>3, <2>1, <2>4, <3>2, <4>3 DEF Ranked
    <3> QED
      BY <1>3, <3>1, <3>2
  <2>7. \A q \in Request : req'[q].pc = "create" /\ req'[q].target \in Exists'
                             => deep[req'[q].target] =< Hops
    BY <1>3, <2>1, <2>4 DEF Ranked
  <2> QED
    BY <2>3, <2>5, <2>6, <2>7 DEF DepthsAreBounded, Ranked
<1> QED
  BY <1>3, <1>4 DEF HiddenInv

\* What a deletion leaves keeps its parent, or was made since the MATCH.
LEMMA DeleteKeepsHidden ==
  ASSUME HiddenInv, TypeOK', Record, NEW r \in Request, DeleteById(r) PROVE HiddenInv'
<1> DEFINE gone == req[r].gone
<1>1. /\ req[r].pc = "erase" /\ End(r, "done")
      /\ up' = [c \in Exists \ gone |-> IF up[c] \in gone THEN None ELSE up[c]]
  BY DEF DeleteById
<1>2. gone \subseteq Category /\ \A c \in Exists : up[c] \in gone => c \in gone \cup late
  BY DEF HiddenInv, TypeOK, SubtreesAreMatched
<1> HIDE DEF gone
<1>3. Exists' = Exists \ gone /\ late' = late
  <2>1. Exists' = Exists \ gone
    BY <1>1 DEF Exists
  <2> QED
    BY <2>1 DEF Record
<1>4. \A c \in Exists' : up'[c] = IF up[c] \in gone THEN None ELSE up[c]
  BY <1>1 DEF Exists
<1>5. /\ \A q \in Request : q # r => req'[q] = req[q]
      /\ req'[r] = [pc |-> "done", target |-> None, gone |-> {}]
  BY <1>1 DEF End, TypeOK, HiddenInv
<1>6. NamedWhenMade'
  <2> SUFFICES ASSUME NEW c \in Exists' PROVE req'[c.by].pc = "done"
    BY DEF NamedWhenMade
  <2>1. c.by \in Request
    BY DEF TypeOK, Category
  <2> QED
    BY <1>3, <1>5, <2>1 DEF NamedWhenMade, HiddenInv
<1>7. NamesAreTold'
  BY <1>5 DEF NamesAreTold, Category, HiddenInv
<1>8. ParentsAreThere'
  <2> SUFFICES ASSUME NEW c \in Exists'
               PROVE  up'[c] \in Exists' \cup {User} \/ (up'[c] = None /\ c \in late')
    BY DEF ParentsAreThere
  <2>1. c \in Exists /\ c \notin gone
    BY <1>3
  <2>2. CASE up[c] \in gone
    BY <1>2, <1>3, <1>4, <2>1, <2>2
  <2>3. CASE up[c] \notin gone
    BY <1>3, <1>4, <2>1, <2>3 DEF ParentsAreThere, HiddenInv
  <2> QED
    BY <2>2, <2>3
<1>9. SubtreesAreMatched'
  <2> SUFFICES ASSUME NEW q \in Request, NEW c \in Exists', up'[c] \in req'[q].gone
               PROVE  c \in req'[q].gone \cup late'
    BY DEF SubtreesAreMatched
  <2>1. q # r /\ req'[q] = req[q] /\ req[q].gone \subseteq Category
    BY <1>5 DEF HiddenInv, TypeOK
  <2>2. up'[c] = up[c]
    BY <1>4, <2>1
  <2> QED
    BY <1>3, <2>1, <2>2 DEF SubtreesAreMatched, HiddenInv
<1>10. DepthsAreBounded'
  <2>1. PICK depth : Ranked(depth)
    BY DEF HiddenInv, DepthsAreBounded
  <2>2. \A c \in Exists' : up'[c] \in Exists' \cup {User} => c \in Exists /\ up'[c] = up[c]
    <3>1. User \notin Exists' /\ None \notin Exists' /\ None # User
      BY DEF TypeOK
    <3> QED
      BY <1>3, <1>4, <3>1
  <2>3. \A c \in Exists' : up'[c] = User => depth[c] = 1
    BY <2>1, <2>2 DEF Ranked
  <2>4. \A c \in Exists' : up'[c] \in Exists' => depth[c] = depth[up'[c]] + 1
    BY <1>3, <2>1, <2>2 DEF Ranked
  <2>5. \A q \in Request : req'[q].pc = "create" /\ req'[q].target \in Exists'
                             => depth[req'[q].target] =< Hops
    BY <1>3, <1>5, <2>1 DEF Ranked
  <2>6. depth \in [Category -> 1 .. Hops + 1]
    BY <2>1 DEF Ranked
  <2> QED
    BY <2>3, <2>4, <2>5, <2>6 DEF DepthsAreBounded, Ranked
<1> QED
  BY <1>6, <1>7, <1>8, <1>9, <1>10 DEF HiddenInv

\* The other steps leave the tree as it is.
OtherStep(r) ==
    \/ GetCategoriesByUser(r) \/ CheckCategory(r) \/ MatchCategory(r) \/ UpdateById(r)
    \/ MatchSubtree(r) \/ (CreateCategory(r) /\ req[r].target \notin Exists)

\* What such a step lets a request go on to do.
LEMMA OtherRequests ==
  ASSUME TypeOK, NEW r \in Request, OtherStep(r)
  PROVE  /\ UNCHANGED up /\ req[r].pc # "done"
         /\ \A q \in Request : q # r => req'[q] = req[q]
         /\ req'[r].pc = "create" => req'[r].target \in Found
         /\ \/ req'[r].gone \in {req[r].gone, {}}
            \/ req[r].target \in Found /\ req'[r].gone = Within(req[r].target, Hops)
<1> USE DEF Goto, End, TypeOK
<1>1. CASE GetCategoriesByUser(r)
  BY <1>1 DEF GetCategoriesByUser
<1>2. CASE CheckCategory(r)
  BY <1>2 DEF CheckCategory
<1>3. CASE MatchCategory(r)
  BY <1>3 DEF MatchCategory
<1>4. CASE UpdateById(r)
  BY <1>4 DEF UpdateById
<1>5. CASE MatchSubtree(r)
  <2> DEFINE gone == IF req[r].target \in Found THEN Within(req[r].target, Hops) ELSE {}
  <2>1. req[r].pc = "delete" /\ UNCHANGED up
        /\ req' = [req EXCEPT ![r].pc = IF gone = {} THEN "done" ELSE "erase", ![r].gone = gone]
    BY <1>5 DEF MatchSubtree
  <2>2. gone = {} \/ (req[r].target \in Found /\ gone = Within(req[r].target, Hops))
    OBVIOUS
  <2> HIDE DEF gone
  <2>3. req'[r].gone = gone /\ req'[r].pc \in {"done", "erase"}
        /\ \A q \in Request : q # r => req'[q] = req[q]
    BY <2>1
  <2> QED
    BY <2>1, <2>2, <2>3
<1>6. CASE CreateCategory(r) /\ req[r].target \notin Exists
  BY <1>6 DEF CreateCategory
<1> QED
  BY <1>1, <1>2, <1>3, <1>4, <1>5, <1>6 DEF OtherStep

LEMMA OthersKeepHidden ==
  ASSUME HiddenInv, TypeOK', Record, NEW r \in Request, OtherStep(r) PROVE HiddenInv'
<1>1. /\ UNCHANGED up /\ req[r].pc # "done"
      /\ \A q \in Request : q # r => req'[q] = req[q]
      /\ req'[r].pc = "create" => req'[r].target \in Found
      /\ \/ req'[r].gone \in {req[r].gone, {}}
         \/ req[r].target \in Found /\ req'[r].gone = Within(req[r].target, Hops)
  BY OtherRequests DEF HiddenInv
<1>2. Exists' = Exists /\ late' = late
  BY <1>1 DEF Exists, Record
<1>3. PICK depth : Ranked(depth)
  BY DEF HiddenInv, DepthsAreBounded
<1>4. Hops \in Nat
  OBVIOUS
<1>5. NamedWhenMade'
  <2> SUFFICES ASSUME NEW c \in Exists PROVE req'[c.by].pc = "done"
    BY <1>2 DEF NamedWhenMade
  <2>1. c.by \in Request
    BY DEF TypeOK, Category, HiddenInv
  <2> QED
    BY <1>1, <2>1 DEF NamedWhenMade, HiddenInv
<1>6. NamesAreTold'
  <2> SUFFICES ASSUME NEW q \in Request, req'[q].pc = "create"
               PROVE  req'[q].target \in Category /\ req'[req'[q].target.by].pc = "done"
    BY DEF NamesAreTold
  <2>1. req'[q].target \in Category /\ req[req'[q].target.by].pc = "done"
    <3>1. CASE q = r
      BY <1>1, <3>1, FoundExists, ExistsIsCategory DEF NamedWhenMade, HiddenInv
    <3>2. CASE q # r
      BY <1>1, <3>2 DEF NamesAreTold, HiddenInv
    <3> QED
      BY <3>1, <3>2
  <2> QED
    BY <1>1, <2>1 DEF Category
<1>7. ParentsAreThere'
  BY <1>1, <1>2 DEF ParentsAreThere, HiddenInv
<1>8. SubtreesAreMatched'
  <2> SUFFICES ASSUME NEW q \in Request, NEW c \in Exists, up[c] \in req'[q].gone
               PROVE  c \in req'[q].gone \cup late
    BY <1>1, <1>2 DEF SubtreesAreMatched
  <2>1. CASE q # r
    BY <1>1, <2>1 DEF SubtreesAreMatched, HiddenInv
  <2>2. CASE q = r /\ req'[r].gone \in {req[r].gone, {}}
    BY <2>2 DEF SubtreesAreMatched, HiddenInv
  <2>3. CASE q = r /\ req[r].target \in Found /\ req'[r].gone = Within(req[r].target, Hops)
    BY <1>3, <2>3, SubtreeIsClosed DEF HiddenInv
  <2> QED
    BY <1>1, <2>1, <2>2, <2>3
<1>9. DepthsAreBounded'
  <2>1. \A q \in Request : req'[q].pc = "create" /\ req'[q].target \in Exists
                             => depth[req'[q].target] =< Hops
    <3> SUFFICES ASSUME NEW q \in Request, req'[q].pc = "create", req'[q].target \in Exists
                 PROVE  depth[req'[q].target] =< Hops
      OBVIOUS
    <3>1. CASE q = r
      <4>1. req'[q].target \in Reach(up, User, Hops) /\ req'[q].target # User
        BY <1>1, <3>1, FoundIsReach
      <4> QED
        BY <1>3, <1>4, <4>1, DepthFromUser DEF HiddenInv
    <3>2. CASE q # r
      BY <1>1, <1>3, <3>2 DEF Ranked
    <3> QED
      BY <3>1, <3>2
  <2> QED
    BY <1>1, <1>2, <1>3, <2>1 DEF DepthsAreBounded, Ranked
<1> QED
  BY <1>5, <1>6, <1>7, <1>8, <1>9 DEF HiddenInv

\* The parts together, request by request.
LEMMA StepHidden == HiddenInv /\ TypeOK' /\ [HistoryNext]_<<vars, late>> => HiddenInv'
<1> SUFFICES ASSUME HiddenInv, TypeOK', [HistoryNext]_<<vars, late>> PROVE HiddenInv'
  OBVIOUS
<1>1. CASE UNCHANGED <<vars, late>>
  BY <1>1 DEF vars, HiddenInv, NamedWhenMade, NamesAreTold, ParentsAreThere, SubtreesAreMatched,
              DepthsAreBounded, Ranked, Exists
<1>2. CASE HistoryNext
  <2>1. PICK r \in Request :
           \/ GetCategoriesByUser(r) \/ InitCategories(r)
           \/ CheckCategory(r) \/ CreateCategory(r)
           \/ MatchCategory(r) \/ UpdateById(r) \/ MatchSubtree(r) \/ DeleteById(r)
    BY <1>2 DEF HistoryNext, Next
  <2>2. Record
    BY <1>2 DEF HistoryNext
  <2>3. \/ InitCategories(r) \/ (CreateCategory(r) /\ req[r].target \in Exists)
        \/ DeleteById(r) \/ OtherStep(r)
    BY <2>1 DEF OtherStep
  <2> QED
    BY <2>2, <2>3, InitKeepsHidden, CreateKeepsHidden, DeleteKeepsHidden, OthersKeepHidden
<1> QED
  BY <1>1, <1>2

\* However creations and deletions overlap, and however long the paths the queries
\* follow, every category that GET /category does not show is at or below one that was
\* made as its parent was being deleted: a category is made within reach, and a deletion
\* leaves nothing behind of the subtree it matched.
THEOREM OnlyLateHidden == HistorySpec => []OnlyLateCategoriesAreHidden
<1>1. HistoryInit => HiddenInv
  <2> SUFFICES ASSUME HistoryInit PROVE HiddenInv
    OBVIOUS
  <2>1. NamedWhenMade /\ NamesAreTold /\ ParentsAreThere /\ SubtreesAreMatched
    BY DEF HistoryInit, Init, NamedWhenMade, NamesAreTold, ParentsAreThere, SubtreesAreMatched,
           Exists
  <2>2. Ranked([c \in Category |-> 1])
    BY DEF HistoryInit, Init, Ranked, Exists
  <2> QED
    BY <2>1, <2>2, InitTypeOK DEF HiddenInv, DepthsAreBounded, HistoryInit
<1>2. HiddenInv => OnlyLateCategoriesAreHidden
  BY HiddenAreLate
<1>3. HistorySpec => Spec
  <2>1. HistoryInit => Init
    BY DEF HistoryInit
  <2>2. [HistoryNext]_<<vars, late>> => [Next]_vars
    BY DEF HistoryNext
  <2> QED
    BY <2>1, <2>2, PTL DEF HistorySpec, Spec
<1> QED
  BY <1>1, <1>2, <1>3, StepHidden, TypeCorrect, PTL DEF HistorySpec
=============================================================================
