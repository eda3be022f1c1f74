------------------------- MODULE OrderLedgerProofs --------------------------
(***************************************************************************)
(* Orders implements OrderLedger, and the stock adds up, for any number of *)
(* requests, workers, products and orders.                                 *)
(*                                                                         *)
(* Both rest on what a transaction has staged when it commits.  A creation *)
(* has taken the quantity of every line it visited, and a transaction that *)
(* gives units back has staged, for every line it visited, the line's      *)
(* quantity, or nothing when it found the product untracked; its stock     *)
(* change is the sum of these over its orders.  Sums over finite sets are  *)
(* treated first.                                                          *)
(***************************************************************************)
EXTENDS OrdersProofs, FiniteSetTheorems

USE DEF Procs, Rows, Rest, Goto

-----------------------------------------------------------------------------
(* Sums over finite sets *)

\* g gives the sum of f over every subset of S: none for the empty set, and an
\* element adds its own value.
IsSum(g, f, S) ==
  /\ g \in [SUBSET S -> Int]
  /\ g[{}] = 0
  /\ \A A \in SUBSET S : \A x \in A : g[A] = f[x] + g[A \ {x}]

\* Induction over the subsets of a finite set: what fails for some subset fails
\* for one all of whose smaller ones are good.
LEMMA LeastSubset ==
  ASSUME NEW S, IsFiniteSet(S), NEW Bad \in SUBSET (SUBSET S), Bad # {}
  PROVE  \E A \in Bad : \A x \in A : A \ {x} \notin Bad
<1>1. IsWellFoundedOn(StrictSubsetOrdering(S), SUBSET S)
  BY FS_StrictSubsetOrderingWellFounded, FS_FiniteSubsetsOfFinite
<1>2. PICK A \in Bad : \A B \in Bad : ~ (<<B, A>> \in StrictSubsetOrdering(S))
  BY <1>1, WFMin
<1>3. \A x \in A : A \ {x} \notin Bad
  BY <1>2 DEF StrictSubsetOrdering
<1> QED
  BY <1>3

\* Sums over the subsets of T \ {y} extend to those of T.
LEMMA SumExtends ==
  ASSUME NEW f, NEW T, NEW y \in T, \A x \in T : f[x] \in Int, NEW g, IsSum(g, f, T \ {y})
  PROVE  \E h : IsSum(h, f, T)
<1> DEFINE R == T \ {y}
           h == [A \in SUBSET T |-> IF y \in A THEN f[y] + g[A \ {y}] ELSE g[A]]
<1>1. \A A \in SUBSET T : A \ {y} \in SUBSET R /\ (y \notin A => A \in SUBSET R)
  OBVIOUS
<1>2. h \in [SUBSET T -> Int]
  BY <1>1 DEF IsSum
<1>3. h[{}] = 0
  BY DEF IsSum
<1>4. ASSUME NEW A \in SUBSET T, NEW x \in A PROVE h[A] = f[x] + h[A \ {x}]
  <2>1. CASE y \notin A
    <3>1. A \in SUBSET R /\ A \ {x} \in SUBSET T /\ y \notin A \ {x}
      BY <2>1
    <3>2. h[A] = g[A] /\ h[A \ {x}] = g[A \ {x}]
      BY <2>1, <3>1
    <3> QED
      BY <3>1, <3>2 DEF IsSum
  <2>2. CASE x = y
    BY <2>2
  <2>3. CASE y \in A /\ x # y
    <3> DEFINE B == A \ {y}
    <3>1. B \in SUBSET R /\ x \in B /\ A \ {x} \in SUBSET T /\ y \in A \ {x}
          /\ (A \ {x}) \ {y} = B \ {x} /\ B \ {x} \in SUBSET R
      BY <2>3
    <3>2. h[A] = f[y] + g[B] /\ h[A \ {x}] = f[y] + g[B \ {x}]
      BY <2>3, <3>1
    <3>3. g[B] = f[x] + g[B \ {x}] /\ g[B \ {x}] \in Int /\ f[x] \in Int /\ f[y] \in Int
      BY <3>1 DEF IsSum
    <3> HIDE DEF h
    <3> QED
      BY <3>2, <3>3
  <2> QED
    BY <2>1, <2>2, <2>3
<1> HIDE DEF h
<1> QED
  BY <1>2, <1>3, <1>4 DEF IsSum

\* Every function into the integers has sums over the subsets of a finite set.
LEMMA SumExists ==
  ASSUME NEW S, IsFiniteSet(S), NEW f, \A x \in S : f[x] \in Int
  PROVE  \E g : IsSum(g, f, S)
<1> DEFINE Bad == {A \in SUBSET S : ~ \E g : IsSum(g, f, A)}
<1>1. SUFFICES ASSUME Bad # {} PROVE FALSE
  OBVIOUS
<1>2. PICK A \in Bad : \A x \in A : A \ {x} \notin Bad
  BY <1>1, LeastSubset
<1>3. CASE A = {}
  <2>1. [B \in SUBSET {} |-> 0] \in [SUBSET {} -> Int]
    OBVIOUS
  <2>2. IsSum([B \in SUBSET {} |-> 0], f, {})
    BY <2>1 DEF IsSum
  <2> QED
    BY <1>3, <2>2
<1>4. CASE A # {}
  <2>1. PICK y \in A : TRUE
    BY <1>4
  <2>2. \E g : IsSum(g, f, A \ {y})
    BY <1>2
  <2>3. \E h : IsSum(h, f, A)
    BY <2>2, SumExtends
  <2> QED
    BY <2>3
<1> QED
  BY <1>3, <1>4

\* The recursive definition of the sum has these sums as its only solution.
LEMMA SumIsSum ==
  ASSUME NEW S, IsFiniteSet(S), NEW f, NEW g, IsSum(g, f, S)
  PROVE  SumFunctionOnSet(f, S) = g[S]
<1> DEFINE pick(A) == CHOOSE x \in A : TRUE
           step(it) == [A \in SUBSET S |-> IF A = {} THEN 0 ELSE f[pick(A)] + it[A \ {pick(A)}]]
           iter == CHOOSE it : it = step(it)
<1>1. SumFunctionOnSet(f, S) = iter[S]
  BY DEF SumFunctionOnSet, FoldFunctionOnSet, MapThenFoldSet
<1>2. g = step(g)
  <2>1. \A A \in SUBSET S : g[A] = step(g)[A]
    BY DEF IsSum
  <2> QED
    BY <2>1 DEF IsSum
<1>3. iter = step(iter)
  BY <1>2
<1> HIDE DEF iter
<1> DEFINE Bad == {A \in SUBSET S : iter[A] # g[A]}
<1>4. ASSUME Bad # {} PROVE FALSE
  <2>1. PICK A \in Bad : \A x \in A : A \ {x} \notin Bad
    BY <1>4, LeastSubset
  <2>2. iter[A] = (IF A = {} THEN 0 ELSE f[pick(A)] + iter[A \ {pick(A)}])
    BY <1>3
  <2>3. A # {} => pick(A) \in A /\ A \ {pick(A)} \in SUBSET S
    OBVIOUS
  <2> QED
    BY <2>1, <2>2, <2>3 DEF IsSum
<1> QED
  BY <1>1, <1>4

\* The sum over no element is 0, a sum of integers is an integer, and an element
\* adds its value.
LEMMA SumFacts ==
  ASSUME NEW S, IsFiniteSet(S), NEW f, \A x \in S : f[x] \in Int
  PROVE  /\ SumFunctionOnSet(f, {}) = 0
         /\ SumFunctionOnSet(f, S) \in Int
         /\ \A x \in S : SumFunctionOnSet(f, S) = f[x] + SumFunctionOnSet(f, S \ {x})
<1>1. PICK g : IsSum(g, f, S)
  BY SumExists
<1>2. ASSUME NEW T \in SUBSET S PROVE SumFunctionOnSet(f, T) = g[T]
  <2> DEFINE h == [A \in SUBSET T |-> g[A]]
  <2>1. \A A \in SUBSET T : A \in SUBSET S
    OBVIOUS
  <2>2. h \in [SUBSET T -> Int] /\ h[{}] = 0
    BY <1>1, <2>1 DEF IsSum
  <2>3. ASSUME NEW A \in SUBSET T, NEW x \in A PROVE h[A] = f[x] + h[A \ {x}]
    <3>1. A \in SUBSET S /\ A \ {x} \in SUBSET T
      BY <2>1
    <3> QED
      BY <1>1, <3>1 DEF IsSum
  <2> HIDE DEF h
  <2>4. IsSum(h, f, T)
    BY <2>2, <2>3 DEF IsSum
  <2>5. SumFunctionOnSet(f, T) = h[T]
    BY <2>4, SumIsSum, FS_Subset
  <2> QED
    BY <2>5 DEF h
<1> QED
  BY <1>1, <1>2 DEF IsSum

\* Sums over subsets of a finite set.
LEMMA SubsetSum ==
  ASSUME NEW S, IsFiniteSet(S), NEW f, \A x \in S : f[x] \in Int, NEW A \in SUBSET S
  PROVE  /\ SumFunctionOnSet(f, A) \in Int
         /\ \A x \in A : SumFunctionOnSet(f, A) = f[x] + SumFunctionOnSet(f, A \ {x})
<1>1. IsFiniteSet(A) /\ \A x \in A : f[x] \in Int
  BY FS_Subset
<1> QED
  BY <1>1, SumFacts

\* The sum of a pointwise sum.
LEMMA SumPointwise ==
  ASSUME NEW S, IsFiniteSet(S), NEW f, NEW g, NEW h,
         \A x \in S : f[x] \in Int /\ g[x] \in Int /\ h[x] = f[x] + g[x]
  PROVE  SumFunctionOnSet(h, S) = SumFunctionOnSet(f, S) + SumFunctionOnSet(g, S)
<1> DEFINE F(A) == SumFunctionOnSet(f, A)
           G(A) == SumFunctionOnSet(g, A)
           H(A) == SumFunctionOnSet(h, A)
           Bad == {A \in SUBSET S : H(A) # F(A) + G(A)}
<1>1. F({}) = 0 /\ G({}) = 0 /\ H({}) = 0
  BY SumFacts
<1>2. SUFFICES ASSUME Bad # {} PROVE FALSE
  OBVIOUS
<1>3. PICK A \in Bad : \A x \in A : A \ {x} \notin Bad
  BY <1>2, LeastSubset
<1>4. PICK y \in A : TRUE
  BY <1>1, <1>3
<1>5. /\ F(A) = f[y] + F(A \ {y}) /\ F(A \ {y}) \in Int
      /\ G(A) = g[y] + G(A \ {y}) /\ G(A \ {y}) \in Int
      /\ H(A) = h[y] + H(A \ {y}) /\ H(A \ {y}) \in Int
  <2>1. A \in SUBSET S /\ A \ {y} \in SUBSET S /\ \A x \in S : h[x] \in Int
    OBVIOUS
  <2> QED
    BY <1>4, <2>1, SubsetSum
<1>6. H(A \ {y}) = F(A \ {y}) + G(A \ {y})
  BY <1>3, <1>4
<1>7. f[y] \in Int /\ g[y] \in Int /\ h[y] = f[y] + g[y] /\ H(A) # F(A) + G(A)
  BY <1>3
<1> HIDE DEF F, G, H
<1> QED
  BY <1>5, <1>6, <1>7

\* What is zero outside of T has its sum over T.
LEMMA SumSupport ==
  ASSUME NEW S, IsFiniteSet(S), NEW T \in SUBSET S, NEW f, \A x \in S : f[x] \in Int,
         \A x \in S \ T : f[x] = 0
  PROVE  SumFunctionOnSet(f, S) = SumFunctionOnSet(f, T)
<1> DEFINE F(A) == SumFunctionOnSet(f, A)
           Bad == {A \in SUBSET S : F(A) # F(A \cap T)}
<1>1. ASSUME Bad # {} PROVE FALSE
  <2>1. PICK A \in Bad : \A x \in A : A \ {x} \notin Bad
    BY <1>1, LeastSubset
  <2>2. CASE A \subseteq T
    <3>1. A \cap T = A
      BY <2>2
    <3> QED
      BY <2>1, <3>1
  <2>3. CASE ~ (A \subseteq T)
    <3>1. PICK y \in A : y \notin T
      BY <2>3
    <3>2. F(A) = f[y] + F(A \ {y}) /\ f[y] = 0 /\ F(A \ {y}) \in Int
      <4>1. A \in SUBSET S /\ A \ {y} \in SUBSET S
        OBVIOUS
      <4> QED
        BY <3>1, <4>1, SubsetSum
    <3>3. F(A \ {y}) = F((A \ {y}) \cap T)
      BY <2>1
    <3>4. (A \ {y}) \cap T = A \cap T
      BY <3>1
    <3>5. F(A) = F(A \ {y})
      BY <3>2
    <3> QED
      BY <2>1, <3>3, <3>4, <3>5
  <2> QED
    BY <2>2, <2>3
<1>2. S \cap T = T /\ S \in SUBSET S
  OBVIOUS
<1> QED
  BY <1>1, <1>2

\* A sum of zeros.
LEMMA SumZero ==
  ASSUME NEW S, IsFiniteSet(S), NEW f, \A x \in S : f[x] = 0
  PROVE  SumFunctionOnSet(f, S) = 0
<1>1. SumFunctionOnSet(f, S) = SumFunctionOnSet(f, {})
  BY SumSupport
<1> QED
  BY <1>1, SumFacts

\* Functions that agree on the set have the same sum over it.
LEMMA SumSame ==
  ASSUME NEW S, IsFiniteSet(S), NEW f, NEW g, \A x \in S : f[x] \in Int /\ g[x] = f[x]
  PROVE  SumFunctionOnSet(g, S) = SumFunctionOnSet(f, S)
<1> DEFINE z == [x \in S |-> 0]
<1>1. \A x \in S : z[x] = 0 /\ z[x] \in Int /\ g[x] = f[x] + z[x]
  OBVIOUS
<1> HIDE DEF z
<1>2. SumFunctionOnSet(g, S) = SumFunctionOnSet(f, S) + SumFunctionOnSet(z, S)
  BY <1>1, SumPointwise
<1>3. SumFunctionOnSet(z, S) = 0
  BY <1>1, SumZero
<1> QED
  BY <1>2, <1>3, SumFacts

\* A change at one element changes the sum by as much.
LEMMA SumChange ==
  ASSUME NEW S, IsFiniteSet(S), NEW y \in S, NEW f, NEW g,
         \A x \in S : f[x] \in Int /\ g[x] \in Int /\ (x # y => g[x] = f[x])
  PROVE  SumFunctionOnSet(g, S) = SumFunctionOnSet(f, S) + (g[y] - f[y])
<1>1. /\ SumFunctionOnSet(f, S) = f[y] + SumFunctionOnSet(f, S \ {y})
      /\ SumFunctionOnSet(g, S) = g[y] + SumFunctionOnSet(g, S \ {y})
  BY SumFacts
<1>2. IsFiniteSet(S \ {y})
  BY FS_RemoveElement
<1>3. SumFunctionOnSet(g, S \ {y}) = SumFunctionOnSet(f, S \ {y})
      /\ SumFunctionOnSet(f, S \ {y}) \in Int
  BY <1>2, SumSame, SumFacts
<1> QED
  BY <1>1, <1>3

-----------------------------------------------------------------------------
(* What a transaction has staged *)

\* A PATCH gives units back when an admin cancels.
GivesBack(r) == body[r].admin /\ body[r].status = "cancelled"

\* The orders whose items t has visited to give them back, and how many of them.
Visited(t) ==
  IF t \in Workers THEN claimed[t] \ todo[t]
  ELSE IF GivesBack(t) THEN {walk[t].order} ELSE {}
LinesDone(t, o) == IF o = walk[t].order THEN walk[t].done ELSE Len(order[o].items)

\* What is staged for return is a visited line's quantity, under the product's lock;
\* a visited line for which nothing is staged is about a product once untracked.
CreditIsLine(t, o, p) ==
  credit[t][o][p] # 0 =>
    /\ o \in Visited(t) /\ lock[p] = t /\ product[p].track
    /\ \E i \in 1..LinesDone(t, o) :
         order[o].items[i].product = p /\ order[o].items[i].qty = credit[t][o][p]
LineCredited(t, o, i) ==
  credit[t][o][order[o].items[i].product] = 0 => order[o].items[i].product \in untracked

\* The stock change staged by a return is the sum over the orders.
CreditSum(t, p) == SumFunction([o \in OrderIds |-> credit[t][o][p]])

Returning(t) ==
  /\ \A o \in OrderIds, p \in Products : CreditIsLine(t, o, p)
  /\ \A o \in Visited(t) : \A i \in 1..LinesDone(t, o) : LineCredited(t, o, i)
  /\ \A p \in Products : delta[t][p] = CreditSum(t, p)

\* The stock change staged by a creation is that of the lines visited so far.
Drawing(r) ==
  /\ \A i \in 1..walk[r].done :
       LET item == body[r].items[i]
       IN delta[r][item.product] = IF product[item.product].track THEN 0 - item.qty ELSE 0
  /\ \A p \in Products : delta[r][p] # 0 =>
       \E i \in 1..walk[r].done : body[r].items[i].product = p

BookAt(t) ==
  /\ pc[t] \notin {"restore", "commit_aborted"} => credit[t] = NoneYet
  /\ pc[t] = "restore" => Returning(t)
  /\ t \in Requests =>
       /\ pc[t] = "reserve" => Drawing(t)
       /\ pc[t] = "edit" => seen[t].stock \in StockLevels
       /\ pc[t] = "restore" /\ ~GivesBack(t) => walk[t].done = Len(order[walk[t].order].items)
  /\ t \in Workers =>
       /\ walk[t].order \notin todo[t]
       /\ walk[t].order = None => claimed[t] = todo[t]

\* An order not there yet has taken nothing, and an untracked product is in untracked.
NothingDrawn  == \A o \in OrderIds : order[o] = None => drawn[o] = NoUnits
UntrackedKept == \A p \in Products : ~product[p].track => p \in untracked

Tables == NothingDrawn /\ UntrackedKept /\ StockLedger
Books  == (\A t \in Procs : BookAt(t)) /\ Tables
\* A sum over the orders is an integer, and 0 when every value is.
LEMMA OrderSum ==
  ASSUME NEW f \in [OrderIds -> Int]
  PROVE  /\ SumFunction(f) = SumFunctionOnSet(f, OrderIds) /\ SumFunction(f) \in Int
         /\ (\A o \in OrderIds : f[o] = 0) => SumFunction(f) = 0
<1>1. DOMAIN f = OrderIds
  OBVIOUS
<1>2. SumFunction(f) = SumFunctionOnSet(f, OrderIds)
  BY <1>1 DEF SumFunction
<1>3. IsFiniteSet(OrderIds)
  BY OrdersAssumption
<1> QED
  BY <1>2, <1>3, SumFacts, SumZero

\* A change for one order changes the sum by as much.
LEMMA OrderSumChange ==
  ASSUME NEW f \in [OrderIds -> Int], NEW g \in [OrderIds -> Int], NEW y \in OrderIds,
         \A o \in OrderIds : o # y => g[o] = f[o]
  PROVE  SumFunction(g) = SumFunction(f) + (g[y] - f[y])
<1>1. IsFiniteSet(OrderIds)
  BY OrdersAssumption
<1>2. SumFunctionOnSet(g, OrderIds) = SumFunctionOnSet(f, OrderIds) + (g[y] - f[y])
  BY <1>1, SumChange
<1> QED
  BY <1>2, OrderSum

\* The sum of two pointwise is the sum of their sums.
LEMMA OrderSumAdd ==
  ASSUME NEW f \in [OrderIds -> Int], NEW g \in [OrderIds -> Int], NEW h \in [OrderIds -> Int],
         \A o \in OrderIds : h[o] = f[o] + g[o]
  PROVE  SumFunction(h) = SumFunction(f) + SumFunction(g)
<1>1. IsFiniteSet(OrderIds)
  BY OrdersAssumption
<1>2. SumFunctionOnSet(h, OrderIds) = SumFunctionOnSet(f, OrderIds) + SumFunctionOnSet(g, OrderIds)
  BY <1>1, SumPointwise
<1> QED
  BY <1>2, OrderSum

\* What is staged, drawn and returned adds up to integers.
LEMMA UnitFunctions ==
  ASSUME TypeOK, NEW p \in Products
  PROVE  /\ \A t \in Procs : [o \in OrderIds |-> credit[t][o][p]] \in [OrderIds -> Int]
         /\ [o \in OrderIds |-> drawn[o][p]] \in [OrderIds -> Int]
         /\ [o \in OrderIds |-> returned[o][p]] \in [OrderIds -> Int]
BY DEF TypeOK

-----------------------------------------------------------------------------
(* What a step leaves in the books *)

\* The books are empty to begin with.
LEMMA InitBooks == Init => Books
<1> SUFFICES ASSUME Init PROVE Books
  OBVIOUS
<1>1. TypeOK
  BY InitInv DEF IInv
<1>2. ASSUME NEW t \in Procs PROVE BookAt(t)
  <2>1. credit[t] = NoneYet /\ pc[t] \in {"idle", "new"}
    BY DEF Init
  <2>2. t \in Workers => claimed[t] = {} /\ todo[t] = {}
    BY DEF Init
  <2> QED
    BY <2>1, <2>2 DEF BookAt
<1>3. NothingDrawn /\ UntrackedKept
  BY DEF Init, NothingDrawn, UntrackedKept, NoneYet
<1>4. StockLedger
  BY DEF Init, StockLedger
<1> QED
  BY <1>2, <1>3, <1>4 DEF Books, Tables

\* An order t visits exists, and the worker or the admin's PATCH has its row locked.
LEMMA VisitedOrder ==
  ASSUME IInv, NEW t \in Procs, pc[t] = "restore", NEW o \in Visited(t)
  PROVE  o \in OrderIds /\ order[o] # None /\ lock[o] = t
<1>1. CASE t \in Workers
  <2>1. o \in claimed[t] /\ claimed[t] \subseteq OrderIds
    BY <1>1 DEF Visited, IInv, TypeOK
  <2>2. Claim(t, o)
    BY <1>1, <2>1 DEF IInv, Everyone, WorkerAt
  <2> QED
    BY <2>1, <2>2 DEF Claim
<1>2. CASE t \in Requests
  <2>1. t \notin Workers
    BY <1>2, Distinct
  <2>2. o = walk[t].order
    BY <2>1 DEF Visited
  <2>3. RequestAt(t)
    BY <1>2 DEF IInv, Everyone
  <2> QED
    BY <2>2, <2>3 DEF RequestAt, Patching, PatchBody
<1> QED
  BY <1>1, <1>2

\* Everybody else's books stand: the locks keep what they are about.
LEMMA OthersBooked ==
  ASSUME IInv, Books, NEW t \in Procs, StepOf(t), NEW u \in Procs \ {t}
  PROVE  BookAt(u)'
<1>1. /\ BookAt(u) /\ pc'[u] = pc[u] /\ walk'[u] = walk[u] /\ delta'[u] = delta[u]
      /\ credit'[u] = credit[u] /\ untracked \subseteq untracked'
  BY DEF Books, StepOf
<1>2. u \in Requests => body'[u] = body[u] /\ seen'[u] = seen[u]
  BY DEF StepOf
<1>3. u \in Workers => claimed'[u] = claimed[u] /\ todo'[u] = todo[u]
  BY DEF StepOf
<1>4. Visited(u)' = Visited(u)
  BY <1>1, <1>2, <1>3 DEF Visited, GivesBack
<1>5. ASSUME pc[u] = "restore" PROVE Returning(u)'
  <2>1. Returning(u)
    BY <1>1, <1>5 DEF BookAt
  <2>2. ASSUME NEW o \in Visited(u)
        PROVE  /\ o \in OrderIds /\ order[o] # None /\ order'[o].items = order[o].items
               /\ LinesDone(u, o)' = LinesDone(u, o)
    <3>1. o \in OrderIds /\ order[o] # None
      BY <1>5, VisitedOrder
    <3>2. order'[o].items = order[o].items
      BY <3>1 DEF StepOf
    <3> QED
      BY <1>1, <3>1, <3>2 DEF LinesDone
  <2>3. ASSUME NEW o \in OrderIds, NEW p \in Products PROVE CreditIsLine(u, o, p)'
    <3>1. CASE credit[u][o][p] = 0
      BY <1>1, <3>1 DEF CreditIsLine
    <3>2. CASE credit[u][o][p] # 0
      <4>1. /\ o \in Visited(u) /\ lock[p] = u /\ product[p].track
            /\ \E i \in 1..LinesDone(u, o) :
                 order[o].items[i].product = p /\ order[o].items[i].qty = credit[u][o][p]
        BY <2>1, <3>2 DEF Returning, CreditIsLine
      <4>2. lock'[p] = u /\ product'[p] = product[p]
        BY <4>1, Distinct DEF StepOf
      <4>3. LinesDone(u, o)' = LinesDone(u, o) /\ order'[o].items = order[o].items
        BY <2>2, <4>1
      <4> QED
        BY <1>1, <1>4, <4>1, <4>2, <4>3 DEF CreditIsLine
    <3> QED
      BY <3>1, <3>2
  <2>4. ASSUME NEW o \in Visited(u), NEW i \in 1..LinesDone(u, o) PROVE LineCredited(u, o, i)'
    <3>1. LineCredited(u, o, i) /\ order'[o].items = order[o].items
      BY <2>1, <2>2 DEF Returning
    <3> QED
      BY <1>1, <3>1 DEF LineCredited
  <2>5. \A p \in Products : CreditSum(u, p)' = CreditSum(u, p)
    BY <1>1 DEF CreditSum
  <2> QED
    BY <1>1, <1>4, <2>1, <2>2, <2>3, <2>4, <2>5 DEF Returning
<1>6. ASSUME u \in Requests, pc[u] = "reserve" PROVE Drawing(u)'
  <2>1. Drawing(u) /\ RequestAt(u)
    BY <1>1, <1>6 DEF BookAt, IInv, Everyone
  <2>2. ASSUME NEW i \in 1..walk[u].done
        PROVE  product'[body[u].items[i].product] = product[body[u].items[i].product]
    <3> DEFINE p == body[u].items[i].product
    <3>1. p \in Products /\ Reserved(u, p)
      BY <1>6, <2>1, WalkedLine, ReservedLine DEF IInv, RequestAt
    <3> HIDE DEF p
    <3>2. product'[p] = product[p]
      BY <3>1, Distinct DEF StepOf, Reserved
    <3> QED
      BY <3>2 DEF p
  <2> QED
    BY <1>1, <1>2, <1>6, <2>1, <2>2 DEF Drawing
<1>7. ASSUME u \in Requests, pc[u] = "restore"
      PROVE  order'[walk[u].order].items = order[walk[u].order].items
  <2>1. walk[u].order \in OrderIds /\ order[walk[u].order] # None
    BY <1>7 DEF IInv, Everyone, RequestAt, Patching, PatchBody
  <2> QED
    BY <2>1 DEF StepOf
<1>8. u \in Requests => (GivesBack(u)' <=> GivesBack(u))
  BY <1>2 DEF GivesBack
<1> QED
  BY <1>1, <1>2, <1>3, <1>5, <1>6, <1>7, <1>8 DEF BookAt

\* So a step has the actor's books and the tables to answer for.
LEMMA BooksStep ==
  ASSUME IInv, Books, NEW t \in Procs, StepOf(t), BookAt(t)', Tables'
  PROVE  Books'
BY OthersBooked DEF Books

\* The tables' own equations hold as long as nobody writes the tables.
LEMMA TablesKept ==
  ASSUME Tables, UNCHANGED <<product, order, drawn, returned, supplied, untracked>>
  PROVE  Tables'
<1>1. StockLedger'
  BY DEF Tables, StockLedger
<1> QED
  BY <1>1 DEF Tables, NothingDrawn, UntrackedKept

-----------------------------------------------------------------------------
(* The books of the process that takes a step *)

\* Nothing is expected of the books of a process between transactions.
LEMMA RestingBook ==
  ASSUME NEW t \in Procs, credit'[t] = NoneYet,
         pc'[t] \notin {"restore", "commit_aborted", "reserve", "edit"},
         t \in Workers => /\ walk'[t].order \notin todo'[t]
                          /\ walk'[t].order = None => claimed'[t] = todo'[t]
  PROVE  BookAt(t)'
BY DEF BookAt

\* The end of a transaction clears its books.
LEMMA EndTxBook ==
  ASSUME IInv, NEW t \in Procs, EndTx(t), EndRun(t)
  PROVE  BookAt(t)'
<1>1. credit'[t] = NoneYet /\ walk'[t] = NoWalk /\ pc'[t] \in {"idle", "done"}
  BY DEF EndTx, IInv, TypeOK
<1>2. t \in Workers => claimed'[t] = {} /\ todo'[t] = {}
  BY DEF EndRun, IInv, TypeOK
<1> QED
  BY <1>1, <1>2, RestingBook

\* A rollback clears the books and writes no table.
LEMMA RollbackBooks ==
  ASSUME IInv, Books, NEW t \in Procs, Rollback(t)
  PROVE  Books'
<1>1. BookAt(t)'
  BY EndTxBook DEF Rollback
<1>2. Tables'
  BY TablesKept DEF Rollback, tables, observers, Books
<1> QED
  BY <1>1, <1>2, RollbackStep, BooksStep

\* A request that is neither reserving, restoring nor editing has staged no return.
LEMMA QuietRequest ==
  ASSUME IInv, Books, NEW r \in Requests, UNCHANGED credit,
         pc[r] \notin {"restore", "commit_aborted"},
         pc'[r] \in {"validate", "set_status", "set_paid", "write_history", "begin_tx", "done"}
  PROVE  BookAt(r)'
<1>1. credit'[r] = NoneYet /\ r \notin Workers
  BY Distinct DEF Books, BookAt
<1> QED
  BY <1>1, RestingBook

\* A creation begins with nothing staged.
LEMMA BeginCreateBooks ==
  ASSUME IInv, Books, NEW r \in Requests, BeginCreate(r)
  PROVE  Books'
<1> USE DEF tables, staged, run, observers
<1>1. pc[r] = "new" /\ pc'[r] = "reserve" /\ UNCHANGED <<tables, staged, observers>>
  BY DEF BeginCreate, IInv, TypeOK
<1>2. walk[r] = NoWalk /\ delta[r] = NoUnits /\ credit[r] = NoneYet
  BY <1>1 DEF IInv, Everyone, ProcAt, Staging, Books, BookAt
<1>3. Drawing(r)'
  BY <1>1, <1>2 DEF Drawing, NoWalk, NoUnits
<1>4. BookAt(r)'
  BY <1>1, <1>2, <1>3, Distinct DEF BookAt
<1>5. Tables'
  BY <1>1, TablesKept DEF Books
<1> QED
  BY <1>4, <1>5, BeginCreateStep, BooksStep

\* A line is reserved at its quantity, and no other product is touched.
LEMMA ReserveItemBooks ==
  ASSUME IInv, Books, NEW r \in Requests, ReserveItem(r)
  PROVE  Books'
<1> USE DEF tables, run, observers
<1> DEFINE n    == walk[r].done + 1
           item == body[r].items[n]
           p    == item.product
<1>1. /\ pc[r] = "reserve" /\ walk[r].done # Len(body[r].items)
      /\ UNCHANGED <<tables, due, pc, body, seen, credit, run, observers>>
      /\ walk' = [walk EXCEPT ![r].done = n]
  BY DEF ReserveItem, AllItems
<1>2. RequestAt(r) /\ ProcAt(r) /\ Drawing(r) /\ credit[r] = NoneYet
  BY <1>1 DEF IInv, Everyone, Books, BookAt
<1>3. n \in 1..Len(body[r].items) /\ walk[r].done \in Nat
  BY <1>1, <1>2, BasketLength DEF RequestAt, CreateBody, IInv, TypeOK
<1>4. p \in Products /\ item.qty \in Nat
  BY <1>1, <1>3, ReservedLine DEF IInv
<1>5. /\ lock[p] = None
      /\ delta' = IF product[p].track THEN [delta EXCEPT ![r][p] = @ - item.qty] ELSE delta
  BY DEF ReserveItem, ItemAt, Free
<1>6. walk'[r].done = n
  BY <1>1, WalkOn DEF IInv
<1> HIDE DEF item, p
<1>7. delta[r][p] = 0
  BY <1>2, <1>4, <1>5, Distinct DEF ProcAt
<1>8. /\ delta'[r][p] = IF product[p].track THEN 0 - item.qty ELSE 0
      /\ \A q \in Products \ {p} : delta'[r][q] = delta[r][q]
  BY <1>4, <1>5, <1>7 DEF IInv, TypeOK
<1>9. ASSUME NEW i \in 1..walk[r].done
      PROVE  body[r].items[i].product \in Products \ {p}
  <2>1. Reserved(r, body[r].items[i].product)
    BY <1>1, <1>2 DEF RequestAt
  <2>2. body[r].items[i].product \in Products
    BY <1>1, WalkedLine, ReservedLine DEF IInv
  <2> QED
    BY <2>1, <2>2, <1>5, Distinct DEF Reserved
<1>10. 1..n = 1..walk[r].done \cup {n}
  BY <1>3
<1>11. Drawing(r)'
  <2>1. ASSUME NEW i \in 1..n
        PROVE  delta'[r][body[r].items[i].product]
                 = IF product[body[r].items[i].product].track THEN 0 - body[r].items[i].qty ELSE 0
    <3>1. CASE i = n
      BY <3>1, <1>8 DEF p, item
    <3>2. CASE i \in 1..walk[r].done
      BY <3>2, <1>2, <1>8, <1>9 DEF Drawing
    <3> QED
      BY <3>1, <3>2, <1>10
  <2>2. ASSUME NEW q \in Products, delta'[r][q] # 0
        PROVE  \E i \in 1..n : body[r].items[i].product = q
    <3>1. CASE q = p
      BY <3>1, <1>10 DEF p, item
    <3>2. CASE q # p
      <4>1. delta[r][q] # 0
        BY <3>2, <2>2, <1>8
      <4> QED
        BY <4>1, <1>2, <1>10 DEF Drawing
    <3> QED
      BY <3>1, <3>2
  <2> HIDE DEF n
  <2> QED
    BY <1>1, <1>6, <2>1, <2>2 DEF Drawing
<1>12. BookAt(r)'
  BY <1>1, <1>2, <1>11, Distinct DEF BookAt
<1>13. Tables'
  BY <1>1, TablesKept DEF Books
<1> QED
  BY <1>12, <1>13, ReserveItemStep, BooksStep

\* A product keeps its status and its track_inventory when staged stock is applied.
LEMMA StockApplied ==
  ASSUME IInv, NEW t \in Procs, product' = StockAfter(t), NEW p \in Products
  PROVE  /\ product'[p].stock = product[p].stock + delta[t][p]
         /\ product'[p].track = product[p].track /\ product'[p].status = product[p].status
         /\ product[p].stock \in Int /\ delta[t][p] \in Int
BY DEF StockAfter, IInv, TypeOK, ProductRow

\* The order takes what its creation reserved, no more and no less.
LEMMA CommitCreateBooks ==
  ASSUME IInv, Books, NEW r \in Requests, CommitCreate(r)
  PROVE  Books'
<1>1. PICK o \in OrderIds :
        /\ order[o] = None
        /\ order' = [order EXCEPT ![o] =
                      [status |-> "pending", paid |-> FALSE, items |-> body[r].items]]
        /\ drawn' = [drawn EXCEPT ![o] = [p \in Products |-> 0 - delta[r][p]]]
  BY DEF CommitCreate
<1>2. product' = StockAfter(r) /\ EndTx(r) /\ UNCHANGED <<returned, supplied, untracked, run>>
  BY DEF CommitCreate
<1>3. CommitCreate(r) => IInv' /\ StepOf(r)
  BY CommitCreateStep
<1>4. BookAt(r)'
  <2>1. EndRun(r)
    BY <1>2, Distinct DEF EndRun
  <2> QED
    BY <1>2, <2>1, EndTxBook
<1>5. drawn[o] = NoUnits
  BY <1>1 DEF Books, Tables, NothingDrawn
<1>6. NothingDrawn'
  <2>1. ASSUME NEW x \in OrderIds, order'[x] = None PROVE drawn'[x] = NoUnits
    <3>1. order[x] = None
      BY <2>1, <1>3 DEF StepOf
    <3>2. x # o
      <4>1. order'[o].status = "pending" /\ order'[o].items = body[r].items
        BY <1>1 DEF IInv, TypeOK
      <4>2. order'[o] = [status |-> "pending", paid |-> FALSE, items |-> body[r].items]
        BY <1>1 DEF IInv, TypeOK
      <4>3. body[r].items \in Baskets
        BY DEF CommitCreate, IInv, Everyone, RequestAt, CreateBody
      <4>4. order'[o] \in OrderRow
        BY <4>2, <4>3 DEF OrderRow, Status
      <4> QED
        BY <2>1, <4>4, Distinct
    <3>3. drawn'[x] = drawn[x]
      BY <1>1, <3>2 DEF IInv, TypeOK
    <3> QED
      BY <3>1, <3>3 DEF Books, Tables, NothingDrawn
  <2> QED
    BY <2>1 DEF NothingDrawn
<1>7. UntrackedKept'
  BY <1>2, StockApplied DEF Books, Tables, UntrackedKept
<1>8. StockLedger'
  <2> SUFFICES ASSUME NEW p \in Products
               PROVE  product'[p].stock + SumFunction([x \in OrderIds |-> drawn'[x][p]])
                        = supplied[p] + SumFunction([x \in OrderIds |-> returned[x][p]])
    BY <1>2 DEF StockLedger
  <2> DEFINE f == [x \in OrderIds |-> drawn[x][p]]
             g == [x \in OrderIds |-> drawn'[x][p]]
             back == SumFunction([x \in OrderIds |-> returned[x][p]])
  <2>1. f \in [OrderIds -> Int] /\ g \in [OrderIds -> Int]
    BY <1>3, UnitFunctions DEF IInv, TypeOK
  <2>2. f[o] = 0 /\ g[o] = 0 - delta[r][p] /\ \A x \in OrderIds : x # o => g[x] = f[x]
    BY <1>1, <1>5 DEF IInv, TypeOK, NoUnits
  <2>3. product[p].stock + SumFunction(f) = supplied[p] + back
    BY DEF Books, Tables, StockLedger
  <2>4. product'[p].stock = product[p].stock + delta[r][p]
        /\ product[p].stock \in Int /\ delta[r][p] \in Int
    BY <1>2, StockApplied
  <2> HIDE DEF f, g, back
  <2>5. SumFunction(g) = SumFunction(f) + (g[o] - f[o]) /\ SumFunction(f) \in Int
    BY <2>1, <2>2, OrderSum, OrderSumChange
  <2>6. product'[p].stock + SumFunction(g) = supplied[p] + back
    BY <2>2, <2>3, <2>4, <2>5
  <2> QED
    BY <2>6 DEF g, back
<1> QED
  BY <1>3, <1>4, <1>6, <1>7, <1>8, BooksStep DEF Tables

\* The steps of a PATCH outside its transaction stage nothing.
LEMMA PatchBooks ==
  ASSUME IInv, Books, NEW r \in Requests,
         BeginPatch(r) \/ ValidateTransition(r) \/ WriteHistory(r)
  PROVE  Books'
<1> USE DEF tables, staged, run, observers
<1>1. IInv' /\ StepOf(r)
  BY BeginPatchStep, ValidateTransitionStep, WriteHistoryStep
<1>2. /\ UNCHANGED <<product, order, staged, observers>>
      /\ pc[r] \in {"new", "validate", "write_history"}
  BY DEF BeginPatch, ValidateTransition, WriteHistory
<1>3. pc'[r] \in {"set_paid", "validate", "done", "begin_tx", "set_status"}
  BY DEF BeginPatch, ValidateTransition, WriteHistory, IInv, TypeOK
<1>4. BookAt(r)'
  BY <1>2, <1>3, QuietRequest
<1>5. Tables'
  BY <1>2, TablesKept DEF Books
<1> QED
  BY <1>1, <1>4, <1>5, BooksStep

\* Nor does the PATCH that is a single statement; no order comes or goes by it.
LEMMA WriteOrderBooks ==
  ASSUME IInv, Books, NEW r \in Requests, WriteOrder(r)
  PROVE  Books'
<1> USE DEF staged, run, observers
<1>1. /\ UNCHANGED <<product, staged, observers>> /\ pc[r] \in {"set_status", "set_paid"}
      /\ pc'[r] = "write_history"
  BY DEF WriteOrder, IInv, TypeOK
<1>2. BookAt(r)'
  BY <1>1, QuietRequest
<1>3. IInv' /\ StepOf(r)
  BY WriteOrderStep
<1>4. Tables'
  <2>1. NothingDrawn'
    BY <1>1, <1>3 DEF StepOf, Books, Tables, NothingDrawn
  <2>2. UntrackedKept' /\ StockLedger'
    BY <1>1 DEF Books, Tables, UntrackedKept, StockLedger
  <2> QED
    BY <2>1, <2>2 DEF Tables
<1> QED
  BY <1>2, <1>3, <1>4, BooksStep

\* A transaction that has visited no line has staged nothing.
LEMMA StartsReturning ==
  ASSUME NEW t \in Procs, credit'[t] = NoneYet, delta'[t] = NoUnits,
         \A o \in Visited(t)' : LinesDone(t, o)' = 0
  PROVE  Returning(t)'
<1>1. \A o \in OrderIds, p \in Products : CreditIsLine(t, o, p)'
  BY DEF CreditIsLine, NoneYet, NoUnits
<1>2. ASSUME NEW p \in Products PROVE delta'[t][p] = CreditSum(t, p)'
  <2> DEFINE f == [o \in OrderIds |-> credit'[t][o][p]]
  <2>1. f \in [OrderIds -> Int] /\ \A o \in OrderIds : f[o] = 0
    BY DEF NoneYet, NoUnits
  <2> HIDE DEF f
  <2>2. SumFunction(f) = 0
    BY <2>1, OrderSum
  <2> QED
    BY <2>2 DEF CreditSum, f, NoUnits
<1> QED
  BY <1>1, <1>2 DEF Returning

\* A PATCH that is no cancellation by an admin has no item to visit.
LEMMA LockOrderBooks ==
  ASSUME IInv, Books, NEW r \in Requests, LockOrder(r)
  PROVE  Books'
<1> USE DEF tables, run, observers
<1> DEFINE o == body[r].order
           k == [order |-> o, done |-> IF GivesBack(r) THEN 0 ELSE Len(order[o].items)]
<1>1. /\ pc[r] = "begin_tx" /\ pc'[r] = "restore"
      /\ UNCHANGED <<tables, body, delta, credit, run, observers>>
      /\ walk' = [walk EXCEPT ![r] = k]
  BY DEF LockOrder, GivesBack, IInv, TypeOK
<1>2. credit[r] = NoneYet /\ delta[r] = NoUnits /\ r \notin Workers
  BY <1>1, Distinct DEF IInv, Everyone, ProcAt, Staging, Books, BookAt
<1>3. walk'[r] = k
  BY <1>1 DEF IInv, TypeOK
<1>4. GivesBack(r)' <=> GivesBack(r)
  BY <1>1 DEF GivesBack
<1>5. \A x \in Visited(r)' : LinesDone(r, x)' = 0
  BY <1>2, <1>3, <1>4 DEF Visited, LinesDone
<1>6. Returning(r)'
  BY <1>1, <1>2, <1>5, StartsReturning
<1>7. ~GivesBack(r)' => walk'[r].done = Len(order'[walk'[r].order].items)
  BY <1>1, <1>3, <1>4
<1>8. BookAt(r)'
  BY <1>1, <1>2, <1>6, <1>7 DEF BookAt
<1>9. Tables'
  BY <1>1, TablesKept DEF Books
<1> QED
  BY <1>8, <1>9, LockOrderStep, BooksStep

\* An aborted transaction keeps what it staged, and nobody relies on it.
LEMMA HistoryInsertFailsBooks ==
  ASSUME IInv, Books, NEW r \in Requests, HistoryInsertFails(r)
  PROVE  Books'
<1> USE DEF tables, staged, run, observers
<1>1. UNCHANGED <<tables, staged, observers>> /\ pc'[r] = "commit_aborted" /\ r \notin Workers
  BY Distinct DEF HistoryInsertFails, IInv, TypeOK
<1>2. BookAt(r)'
  BY <1>1 DEF BookAt
<1>3. Tables'
  BY <1>1, TablesKept DEF Books
<1> QED
  BY <1>2, <1>3, HistoryInsertFailsStep, BooksStep

-----------------------------------------------------------------------------
(* Giving items back *)

\* A product has one line in an order.
LEMMA OneLine ==
  ASSUME NEW b \in Baskets, NEW i \in 1..Len(b), NEW j \in 1..Len(b), b[i].product = b[j].product
  PROVE  i = j
<1>1. b \in Seq(Item) /\ IsBasket(b)
  BY OrdersAssumption DEF IsBasket
<1>2. DOMAIN b = 1..Len(b)
  BY <1>1
<1> QED
  BY <1>1, <1>2 DEF IsBasket

\* The next line is credited once, at its quantity, or its product is not tracked.
LEMMA RestoreItemBooks ==
  ASSUME IInv, Books, NEW t \in Procs, RestoreItem(t)
  PROVE  Books'
<1> USE DEF tables, run, observers
<1>0. PICK o, n, line, p : /\ o = walk[t].order /\ n = walk[t].done + 1
                           /\ line = order[o].items[n] /\ p = line.product
  OBVIOUS
<1>1. /\ pc[t] = "restore" /\ o # None /\ walk[t].done # Len(order[o].items)
      /\ walk' = [walk EXCEPT ![t].done = n]
      /\ UNCHANGED <<tables, due, pc, body, seen, run, observers>>
  BY <1>0 DEF RestoreItem, Restoring, Walked
<1>2. \/ ~product[p].track /\ UNCHANGED <<lock, delta, credit>>
      \/ /\ product[p].track /\ lock[p] \in {None, t} /\ lock' = [lock EXCEPT ![p] = t]
         /\ delta'  = [delta EXCEPT ![t][p] = @ + line.qty]
         /\ credit' = [credit EXCEPT ![t][o][p] = @ + line.qty]
  BY <1>0 DEF RestoreItem, NextReturn, Mine, Take
<1>3. BookAt(t) /\ Returning(t) /\ ProcAt(t)
  BY <1>1 DEF Books, BookAt, IInv, Everyone
<1>4. o \in OrderIds /\ order[o] # None /\ walk[t].done \in Nat /\ walk[t].done <= Len(order[o].items)
  BY <1>0, <1>1, <1>3 DEF ProcAt, IInv, TypeOK
<1>5. order[o].items \in Baskets
  BY <1>4 DEF IInv, TypeOK, OrderRow
<1>6. n \in 1..Len(order[o].items) /\ n = walk[t].done + 1 /\ 1..n = 1..walk[t].done \cup {n}
      /\ 1..walk[t].done \subseteq 1..Len(order[o].items)
  <2>1. Len(order[o].items) \in Nat
    BY <1>5, BasketLength
  <2>2. n = walk[t].done + 1 /\ n <= Len(order[o].items) /\ n \in Nat
    BY <2>1, <1>0, <1>1, <1>4
  <2> QED
    BY <2>1, <2>2, <1>4
<1>7. p \in Products /\ line.qty \in Nat /\ line.qty # 0
  <2>1. line \in Item
    BY <1>0, <1>5, <1>6, BasketLine
  <2> QED
    BY <1>0, <2>1 DEF Item
<1>8. o \in Visited(t)
  <2>1. CASE t \in Workers
    <3>1. WorkerAt(t) /\ o \notin todo[t]
      BY <2>1, <1>0, <1>3 DEF IInv, Everyone, BookAt
    <3> QED
      BY <2>1, <3>1, <1>0, <1>1 DEF WorkerAt, Visited
  <2>2. CASE t \in Requests
    <3>1. GivesBack(t)
      BY <2>2, <1>0, <1>1, <1>3 DEF BookAt
    <3> QED
      BY <2>2, <3>1, <1>0, Distinct DEF Visited
  <2> QED
    BY <2>1, <2>2
<1>9. \A i \in 1..walk[t].done : order[o].items[i].product # p
  <2> SUFFICES ASSUME NEW i \in 1..walk[t].done, order[o].items[i].product = p PROVE FALSE
    OBVIOUS
  <2>1. i = n
    BY <1>0, <1>5, <1>6, OneLine
  <2> QED
    BY <2>1, <1>4, <1>6
<1>10. LinesDone(t, o) = walk[t].done /\ credit[t][o][p] = 0
  <2>1. LinesDone(t, o) = walk[t].done
    BY <1>0 DEF LinesDone
  <2>2. CreditIsLine(t, o, p)
    BY <1>3, <1>4, <1>7 DEF Returning
  <2> QED
    BY <2>1, <2>2, <1>9 DEF CreditIsLine
<1>11. /\ walk'[t].order = o /\ walk'[t].done = n
       /\ Visited(t)' = Visited(t)
  <2>1. walk'[t].order = o /\ walk'[t].done = n
    BY <1>0, <1>1, WalkOn DEF IInv
  <2>2. GivesBack(t)' <=> GivesBack(t)
    BY <1>1 DEF GivesBack
  <2> QED
    BY <1>0, <1>1, <2>1, <2>2 DEF Visited
<1>12. /\ LinesDone(t, o)' = n
       /\ \A x \in OrderIds \ {o} : LinesDone(t, x)' = LinesDone(t, x)
  BY <1>0, <1>1, <1>11 DEF LinesDone
<1>13. ASSUME NEW x \in OrderIds
       PROVE  /\ 1..LinesDone(t, x) \subseteq 1..(LinesDone(t, x)')
              /\ \A i \in 1..(LinesDone(t, x)') : ~(x = o /\ i = n) => i \in 1..LinesDone(t, x)
  <2>1. CASE x = o
    BY <2>1, <1>6, <1>10, <1>12
  <2>2. CASE x # o
    BY <2>2, <1>12
  <2> QED
    BY <2>1, <2>2
<1>14. ASSUME ~product[p].track /\ UNCHANGED <<lock, delta, credit>> PROVE Returning(t)'
  <2>1. p \in untracked
    BY <1>7, <1>14 DEF Books, Tables, UntrackedKept
  <2>2. ASSUME NEW x \in OrderIds, NEW q \in Products PROVE CreditIsLine(t, x, q)'
    <3>1. CreditIsLine(t, x, q)
      BY <1>3 DEF Returning
    <3>2. 1..LinesDone(t, x) \subseteq 1..(LinesDone(t, x)')
      BY <1>13
    <3> QED
      BY <3>1, <3>2, <1>1, <1>11, <1>14 DEF CreditIsLine
  <2>3. ASSUME NEW x \in Visited(t), NEW i \in 1..(LinesDone(t, x)') PROVE LineCredited(t, x, i)'
    <3>1. CASE x = o /\ i = n
      BY <2>1, <3>1, <1>1, <1>14, <1>0 DEF LineCredited
    <3>2. CASE ~(x = o /\ i = n)
      <4>1. x \in OrderIds
        BY <1>1, VisitedOrder
      <4>2. i \in 1..LinesDone(t, x)
        BY <3>2, <4>1, <1>13
      <4>3. LineCredited(t, x, i)
        BY <4>2, <1>3 DEF Returning
      <4> QED
        BY <4>3, <1>1, <1>14 DEF LineCredited
    <3> QED
      BY <3>1, <3>2
  <2>4. \A q \in Products : delta'[t][q] = CreditSum(t, q)'
    BY <1>3, <1>14 DEF Returning, CreditSum
  <2> QED
    BY <1>11, <2>2, <2>3, <2>4 DEF Returning
<1>15. ASSUME /\ product[p].track /\ lock[p] \in {None, t} /\ lock' = [lock EXCEPT ![p] = t]
              /\ delta'  = [delta EXCEPT ![t][p] = @ + line.qty]
              /\ credit' = [credit EXCEPT ![t][o][p] = @ + line.qty]
       PROVE  Returning(t)'
  <2>1. credit'[t][o][p] = line.qty /\ delta'[t][p] = delta[t][p] + line.qty /\ lock'[p] = t
    BY <1>4, <1>7, <1>10, <1>15 DEF IInv, TypeOK
  <2>2. /\ \A x \in OrderIds, q \in Products : <<x, q>> # <<o, p>> => credit'[t][x][q] = credit[t][x][q]
        /\ \A q \in Products \ {p} : delta'[t][q] = delta[t][q] /\ lock'[q] = lock[q]
    BY <1>4, <1>7, <1>15 DEF IInv, TypeOK
  <2>3. ASSUME NEW x \in OrderIds, NEW q \in Products PROVE CreditIsLine(t, x, q)'
    <3>1. CASE x = o /\ q = p
      <4>1. n \in 1..(LinesDone(t, o)') /\ order[o].items[n].product = p
            /\ order[o].items[n].qty = credit'[t][o][p]
        BY <1>0, <1>6, <1>12, <2>1
      <4> QED
        BY <3>1, <4>1, <1>1, <1>8, <1>11, <1>15, <2>1 DEF CreditIsLine
    <3>2. CASE ~(x = o /\ q = p)
      <4>1. credit'[t][x][q] = credit[t][x][q]
        BY <3>2, <2>2
      <4>2. CreditIsLine(t, x, q)
        BY <1>3 DEF Returning
      <4>3. lock[q] = t => lock'[q] = t
        BY <2>1, <2>2
      <4>4. 1..LinesDone(t, x) \subseteq 1..(LinesDone(t, x)')
        BY <1>13
      <4> QED
        BY <4>1, <4>2, <4>3, <4>4, <1>1, <1>11 DEF CreditIsLine
    <3> QED
      BY <3>1, <3>2
  <2>4. ASSUME NEW x \in Visited(t), NEW i \in 1..(LinesDone(t, x)') PROVE LineCredited(t, x, i)'
    <3>1. CASE x = o /\ i = n
      BY <2>1, <3>1, <1>1, <1>7, <1>0 DEF LineCredited
    <3>2. CASE ~(x = o /\ i = n)
      <4>1. x \in OrderIds /\ order[x] # None
        BY <1>1, VisitedOrder
      <4>2. i \in 1..LinesDone(t, x)
        BY <3>2, <4>1, <1>13
      <4>3. LineCredited(t, x, i)
        BY <4>2, <1>3 DEF Returning
      <4>4. order[x].items[i].product \in Products
        <5>1. order[x].items \in Baskets
          BY <4>1 DEF IInv, TypeOK, OrderRow
        <5>2. i \in 1..Len(order[x].items)
          <6>1. CASE x = o
            BY <6>1, <4>2, <1>6, <1>10
          <6>2. CASE x # o
            BY <6>2, <4>2, <1>0 DEF LinesDone
          <6> QED
            BY <6>1, <6>2
        <5> QED
          BY <5>1, <5>2, BasketLine
      <4>5. x = o => order[x].items[i].product # p
        BY <4>2, <1>9, <1>10
      <4>6. credit'[t][x][order[x].items[i].product] = credit[t][x][order[x].items[i].product]
        BY <4>1, <4>4, <4>5, <2>2
      <4> QED
        BY <4>3, <4>6, <1>1 DEF LineCredited
    <3> QED
      BY <3>1, <3>2
  <2>5. ASSUME NEW q \in Products PROVE delta'[t][q] = CreditSum(t, q)'
    <3> DEFINE f == [x \in OrderIds |-> credit[t][x][q]]
               g == [x \in OrderIds |-> credit'[t][x][q]]
    <3>1. f \in [OrderIds -> Int] /\ g \in [OrderIds -> Int]
      <4>1. IInv'
        BY RestoreItemStep
      <4> QED
        BY <4>1, UnitFunctions DEF IInv, TypeOK
    <3>2. delta[t][q] = SumFunction(f)
      BY <1>3 DEF Returning, CreditSum
    <3>3. CASE q # p
      <4>1. g = f
        BY <3>3, <2>2
      <4> QED
        BY <3>2, <3>3, <4>1, <2>2 DEF CreditSum
    <3>4. CASE q = p
      <4>1. f[o] = 0 /\ g[o] = line.qty /\ \A x \in OrderIds : x # o => g[x] = f[x]
        BY <3>4, <1>4, <1>10, <2>1, <2>2
      <4> HIDE DEF f, g
      <4>2. SumFunction(g) = SumFunction(f) + (g[o] - f[o]) /\ SumFunction(f) \in Int
        BY <3>1, <4>1, <1>4, OrderSum, OrderSumChange
      <4>3. delta'[t][q] = SumFunction(g)
        BY <3>2, <3>4, <4>1, <4>2, <1>7, <2>1
      <4> QED
        BY <4>3 DEF CreditSum, g
    <3> QED
      BY <3>3, <3>4
  <2> QED
    BY <1>11, <2>3, <2>4, <2>5 DEF Returning
<1>16. Returning(t)'
  BY <1>2, <1>14, <1>15
<1>17. BookAt(t)'
  <2>1. t \in Requests => GivesBack(t)
    BY <1>8, Distinct DEF Visited
  <2>2. GivesBack(t)' <=> GivesBack(t)
    BY <1>1 DEF GivesBack
  <2> QED
    BY <1>0, <1>1, <1>3, <1>11, <1>16, <2>1, <2>2 DEF BookAt
<1>18. Tables'
  BY <1>1, TablesKept DEF Books
<1> QED
  BY <1>17, <1>18, RestoreItemStep, BooksStep


\* What a transaction has staged for return is what it puts in stock.
LEMMA ReturnLedger ==
  ASSUME IInv, IInv', Books, NEW t \in Procs, pc[t] = "restore",
         product' = StockAfter(t), returned' = Returned(t), UNCHANGED <<drawn, supplied>>
  PROVE  StockLedger'
<1> SUFFICES ASSUME NEW p \in Products
             PROVE  product'[p].stock + SumFunction([o \in OrderIds |-> drawn[o][p]])
                      = supplied[p] + SumFunction([o \in OrderIds |-> returned'[o][p]])
  BY DEF StockLedger
<1> DEFINE f == [o \in OrderIds |-> returned[o][p]]
           g == [o \in OrderIds |-> credit[t][o][p]]
           h == [o \in OrderIds |-> returned'[o][p]]
           d == SumFunction([o \in OrderIds |-> drawn[o][p]])
<1>1. f \in [OrderIds -> Int] /\ g \in [OrderIds -> Int] /\ h \in [OrderIds -> Int]
  BY UnitFunctions DEF IInv, TypeOK
<1>2. \A o \in OrderIds : h[o] = f[o] + g[o]
  BY DEF Returned
<1>3. delta[t][p] = SumFunction(g)
  BY DEF Books, BookAt, Returning, CreditSum
<1>4. product[p].stock + d = supplied[p] + SumFunction(f)
  BY DEF Books, Tables, StockLedger
<1>5. product'[p].stock = product[p].stock + delta[t][p]
      /\ product[p].stock \in Int /\ delta[t][p] \in Int
  BY StockApplied
<1>6. d \in Int /\ supplied[p] \in Int
  <2>1. [o \in OrderIds |-> drawn[o][p]] \in [OrderIds -> Int]
    BY UnitFunctions DEF IInv
  <2> QED
    BY <2>1, OrderSum DEF IInv, TypeOK
<1> HIDE DEF f, g, h, d
<1>7. SumFunction(h) = SumFunction(f) + SumFunction(g) /\ SumFunction(f) \in Int
  BY <1>1, <1>2, OrderSum, OrderSumAdd
<1>8. product'[p].stock + d = supplied[p] + SumFunction(h)
  BY <1>3, <1>4, <1>5, <1>6, <1>7
<1> QED
  BY <1>8 DEF d, h

\* So a commit that gives units back keeps the books, a PATCH's and a worker's alike.
LEMMA ReturnBooks ==
  ASSUME IInv, IInv', Books, NEW t \in Procs, StepOf(t), pc[t] = "restore",
         product' = StockAfter(t), returned' = Returned(t), EndTx(t), EndRun(t),
         UNCHANGED <<drawn, supplied, untracked>>
  PROVE  Books'
<1>1. BookAt(t)'
  BY EndTxBook
<1>2. NothingDrawn'
  BY DEF StepOf, Books, Tables, NothingDrawn
<1>3. UntrackedKept'
  BY StockApplied DEF Books, Tables, UntrackedKept
<1> QED
  BY <1>1, <1>2, <1>3, ReturnLedger, BooksStep DEF Tables

\* The commit of a PATCH.
LEMMA CommitPatchBooks ==
  ASSUME IInv, Books, NEW r \in Requests, CommitPatch(r)
  PROVE  Books'
<1>1. /\ pc[r] = "restore" /\ product' = StockAfter(r) /\ returned' = Returned(r) /\ EndTx(r)
      /\ UNCHANGED <<run, drawn, supplied, untracked>>
  BY DEF CommitPatch, Restoring
<1>2. EndRun(r)
  BY <1>1, Distinct DEF EndRun
<1> QED
  BY <1>1, <1>2, CommitPatchStep, ReturnBooks

\* The commit of a worker's run.
LEMMA CommitRunBooks ==
  ASSUME IInv, Books, NEW w \in Workers, CommitRun(w)
  PROVE  Books'
<1>1. /\ pc[w] = "restore" /\ product' = StockAfter(w) /\ returned' = Returned(w)
      /\ EndTx(w) /\ EndRun(w) /\ UNCHANGED <<drawn, supplied, untracked>>
  BY DEF CommitRun
<1> QED
  BY <1>1, CommitRunStep, ReturnBooks

-----------------------------------------------------------------------------
(* The worker's run up to its commit *)

\* A run begins and takes its snapshot.
LEMMA RunStartsBooks ==
  ASSUME IInv, Books, NEW w \in Workers, StartRun(w) \/ ScanExpired(w)
  PROVE  Books'
<1> USE DEF tables, staged, observers
<1>1. /\ UNCHANGED <<tables, staged, claimed, todo, observers>>
      /\ pc[w] \in {"idle", "claim"} /\ pc'[w] \in {"claim", "lock_rows"}
  BY DEF StartRun, ScanExpired, IInv, TypeOK
<1>2. BookAt(w) /\ credit[w] = NoneYet
  BY <1>1 DEF Books, BookAt
<1>3. BookAt(w)'
  BY <1>1, <1>2, RestingBook DEF BookAt
<1>4. Tables'
  BY <1>1, TablesKept DEF Books
<1> QED
  BY <1>3, <1>4, StartRunStep, ScanExpiredStep, BooksStep

\* A claimed order is still to be visited.
LEMMA ClaimRowBooks ==
  ASSUME IInv, Books, NEW w \in Workers, ClaimRow(w)
  PROVE  Books'
<1> USE DEF tables, observers
<1>1. /\ UNCHANGED <<tables, walk, credit, observers>> /\ pc[w] = "lock_rows" /\ pc'[w] = "lock_rows"
  BY DEF ClaimRow
<1>2. BookAt(w) /\ credit[w] = NoneYet /\ walk[w] = NoWalk
  BY <1>1 DEF Books, BookAt, IInv, Everyone, ProcAt, Staging
<1>3. claimed[w] = todo[w]
  BY <1>2 DEF BookAt, NoWalk
<1>4. claimed'[w] = todo'[w]
  <2>1. \/ \E o \in cand[w] : /\ claimed' = [claimed EXCEPT ![w] = @ \cup {o}]
                              /\ todo'    = [todo EXCEPT ![w] = @ \cup {o}]
        \/ UNCHANGED <<claimed, todo>>
    BY DEF ClaimRow
  <2>2. claimed \in [Workers -> SUBSET OrderIds] /\ todo \in [Workers -> SUBSET OrderIds]
    BY DEF IInv, TypeOK
  <2>3. CASE UNCHANGED <<claimed, todo>>
    BY <1>3, <2>3
  <2>4. ASSUME NEW o \in cand[w], claimed' = [claimed EXCEPT ![w] = @ \cup {o}],
               todo' = [todo EXCEPT ![w] = @ \cup {o}]
        PROVE  claimed'[w] = todo'[w]
    BY <1>3, <2>2, <2>4
  <2> QED
    BY <2>1, <2>3, <2>4
<1>5. IInv' /\ StepOf(w)
  BY ClaimRowStep
<1>6. None \notin todo'[w]
  BY <1>5, Distinct DEF IInv, TypeOK
<1>7. BookAt(w)'
  BY <1>1, <1>2, <1>4, <1>6, RestingBook DEF NoWalk
<1>8. Tables'
  BY <1>1, TablesKept DEF Books
<1> QED
  BY <1>5, <1>7, <1>8, BooksStep

\* The run has claimed its orders and visited none.
LEMMA RowsLockedBooks ==
  ASSUME IInv, Books, NEW w \in Workers, RowsLocked(w)
  PROVE  Books'
<1> USE DEF tables, staged, run, observers
<1>1. /\ UNCHANGED <<tables, staged, run, observers>> /\ pc[w] = "lock_rows" /\ pc'[w] = "restore"
  BY DEF RowsLocked, IInv, TypeOK
<1>2. BookAt(w) /\ credit[w] = NoneYet /\ walk[w] = NoWalk /\ delta[w] = NoUnits
  BY <1>1 DEF Books, BookAt, IInv, Everyone, ProcAt, Staging
<1>3. Visited(w)' = {}
  BY <1>1, <1>2 DEF BookAt, NoWalk, Visited
<1>4. Returning(w)'
  BY <1>1, <1>2, <1>3, StartsReturning
<1>5. BookAt(w)'
  BY <1>1, <1>2, <1>4, Distinct DEF BookAt
<1>6. Tables'
  BY <1>1, TablesKept DEF Books
<1> QED
  BY <1>5, <1>6, RowsLockedStep, BooksStep

\* The order the run turns to had nothing staged; those it leaves are done.
LEMMA NextClaimedBooks ==
  ASSUME IInv, Books, NEW w \in Workers, NextClaimed(w)
  PROVE  Books'
<1> USE DEF tables, observers
<1>1. PICK o \in todo[w] : /\ todo' = [todo EXCEPT ![w] = @ \ {o}]
                           /\ walk' = [walk EXCEPT ![w] = [order |-> o, done |-> 0]]
  BY DEF NextClaimed
<1>2. /\ UNCHANGED <<tables, pc, delta, credit, lock, claimed, observers>> /\ pc[w] = "restore"
      /\ walk[w].order # None => walk[w].done = Len(order[walk[w].order].items)
  BY DEF NextClaimed, Walked
<1>3. BookAt(w) /\ Returning(w) /\ WorkerAt(w)
  BY <1>2 DEF Books, BookAt, IInv, Everyone
<1>4. /\ walk'[w].order = o /\ walk'[w].done = 0 /\ todo'[w] = todo[w] \ {o}
      /\ o \in OrderIds /\ o \in claimed[w] /\ o # None
  BY <1>1, <1>3, Distinct DEF IInv, TypeOK, WorkerAt
<1>5. Visited(w)' = Visited(w) \cup {o} /\ o \notin Visited(w)
  BY <1>2, <1>4 DEF Visited
<1>6. LinesDone(w, o)' = 0 /\ \A x \in Visited(w) : LinesDone(w, x)' = LinesDone(w, x)
  <2>1. ASSUME NEW x \in Visited(w) PROVE LinesDone(w, x)' = LinesDone(w, x)
    <3>1. x # o /\ x \in OrderIds
      BY <1>2, <1>5, VisitedOrder
    <3>2. LinesDone(w, x)' = Len(order[x].items)
      BY <1>2, <1>4, <3>1 DEF LinesDone
    <3>3. LinesDone(w, x) = Len(order[x].items)
      BY <1>2, <3>1, Distinct DEF LinesDone
    <3> QED
      BY <3>2, <3>3
  <2> QED
    BY <1>4, <2>1 DEF LinesDone
<1>7. ASSUME NEW x \in OrderIds, NEW p \in Products PROVE CreditIsLine(w, x, p)'
  <2>1. CreditIsLine(w, x, p)
    BY <1>3 DEF Returning
  <2> QED
    BY <2>1, <1>2, <1>5, <1>6 DEF CreditIsLine
<1>8. ASSUME NEW x \in Visited(w)', NEW i \in 1..(LinesDone(w, x)') PROVE LineCredited(w, x, i)'
  <2>1. x # o
    BY <1>6
  <2>2. x \in Visited(w) /\ i \in 1..LinesDone(w, x)
    BY <2>1, <1>5, <1>6
  <2>3. LineCredited(w, x, i)
    BY <2>2, <1>3 DEF Returning
  <2> QED
    BY <2>3, <1>2 DEF LineCredited
<1>9. Returning(w)'
  <2>1. \A p \in Products : delta'[w][p] = CreditSum(w, p)'
    BY <1>2, <1>3 DEF Returning, CreditSum
  <2> QED
    BY <2>1, <1>7, <1>8 DEF Returning
<1>10. BookAt(w)'
  BY <1>2, <1>4, <1>9, Distinct DEF BookAt
<1>11. Tables'
  BY <1>2, TablesKept DEF Books
<1> QED
  BY <1>10, <1>11, NextClaimedStep, BooksStep

-----------------------------------------------------------------------------
(* Admin edits, the clock, and every step *)

\* An edit will write the stock the admin sent.
LEMMA BeginEditBooks ==
  ASSUME IInv, Books, NEW r \in Requests, BeginEdit(r)
  PROVE  Books'
<1> USE DEF tables, staged, observers
<1>1. /\ UNCHANGED <<tables, staged, observers>> /\ pc[r] = "new" /\ pc'[r] = "edit"
      /\ seen'[r].stock \in StockLevels
  BY DEF BeginEdit, IInv, TypeOK, EditBody
<1>2. credit[r] = NoneYet /\ r \notin Workers
  BY <1>1, Distinct DEF Books, BookAt
<1>3. BookAt(r)'
  BY <1>1, <1>2 DEF BookAt
<1>4. Tables'
  BY <1>1, TablesKept DEF Books
<1> QED
  BY <1>3, <1>4, BeginEditStep, BooksStep

\* What the edit adds to the stock is what the admin has supplied.
LEMMA WriteEditBooks ==
  ASSUME IInv, Books, NEW r \in Requests, WriteEdit(r)
  PROVE  Books'
<1> USE DEF staged
<1>1. PICK p : /\ p = body[r].product /\ product' = [product EXCEPT ![p] = seen[r]]
               /\ supplied' = [supplied EXCEPT ![p] = @ + seen[r].stock - product[p].stock]
               /\ untracked' = IF seen[r].track THEN untracked ELSE untracked \cup {p}
  BY DEF WriteEdit
<1>2. /\ pc[r] = "edit" /\ pc'[r] = "done"
      /\ UNCHANGED <<order, staged, drawn, returned>>
  BY DEF WriteEdit, IInv, TypeOK
<1>3. p \in Products /\ seen[r] \in ProductRow
  BY <1>1, <1>2 DEF IInv, Everyone, RequestAt, EditBody
<1>4. /\ product'[p] = seen[r] /\ supplied'[p] = supplied[p] + seen[r].stock - product[p].stock
      /\ \A q \in Products \ {p} : product'[q] = product[q] /\ supplied'[q] = supplied[q]
  BY <1>1, <1>3 DEF IInv, TypeOK
<1>5. StockLedger'
  <2> SUFFICES ASSUME NEW q \in Products
               PROVE  product'[q].stock + SumFunction([o \in OrderIds |-> drawn[o][q]])
                        = supplied'[q] + SumFunction([o \in OrderIds |-> returned[o][q]])
    BY <1>2 DEF StockLedger
  <2> DEFINE f == [o \in OrderIds |-> drawn[o][q]]
             g == [o \in OrderIds |-> returned[o][q]]
  <2>1. product[q].stock + SumFunction(f) = supplied[q] + SumFunction(g)
    BY DEF Books, Tables, StockLedger
  <2>2. SumFunction(f) \in Int /\ SumFunction(g) \in Int
    <3>1. f \in [OrderIds -> Int] /\ g \in [OrderIds -> Int]
      BY UnitFunctions DEF IInv
    <3> HIDE DEF f, g
    <3> QED
      BY <3>1, OrderSum
  <2>3. product[q].stock \in Int /\ supplied[q] \in Int /\ seen[r].stock \in Int
    BY <1>3 DEF IInv, TypeOK, ProductRow
  <2> HIDE DEF f, g
  <2>4. product'[q].stock + SumFunction(f) = supplied'[q] + SumFunction(g)
    BY <1>4, <2>1, <2>2, <2>3
  <2> QED
    BY <2>4 DEF f, g
<1>6. NothingDrawn'
  BY <1>2 DEF Books, Tables, NothingDrawn
<1>7. UntrackedKept'
  BY <1>1, <1>4 DEF Books, Tables, UntrackedKept
<1>8. BookAt(r)'
  BY <1>2, QuietRequest
<1> QED
  BY <1>5, <1>6, <1>7, <1>8, WriteEditStep, BooksStep DEF Tables

\* A change of status moves no stock.
LEMMA SetProductStatusBooks ==
  ASSUME IInv, Books, NEW r \in Requests, SetProductStatus(r)
  PROVE  Books'
<1> USE DEF staged, observers
<1>1. PICK p \in Products, s \in ProductStatus : product' = [product EXCEPT ![p].status = s]
  BY DEF SetProductStatus
<1>2. pc[r] = "new" /\ pc'[r] = "done" /\ UNCHANGED <<order, staged, observers>>
  BY DEF SetProductStatus, IInv, TypeOK
<1>3. \A q \in Products : product'[q].stock = product[q].stock /\ product'[q].track = product[q].track
  BY <1>1 DEF IInv, TypeOK, ProductRow
<1>4. Tables'
  BY <1>2, <1>3 DEF Books, Tables, StockLedger, NothingDrawn, UntrackedKept
<1>5. BookAt(r)'
  BY <1>2, QuietRequest
<1> QED
  BY <1>4, <1>5, SetProductStatusStep, BooksStep

\* Time is not in the books.
LEMMA IdleBooks ==
  ASSUME Books, UNCHANGED <<product, order, pc, body, seen, staged, run, observers>>
  PROVE  Books'
<1> USE DEF staged, run, observers
<1>1. ASSUME NEW t \in Procs PROVE BookAt(t)'
  <2>1. BookAt(t)
    BY DEF Books
  <2>2. Returning(t) => Returning(t)'
    BY DEF Returning, CreditIsLine, LineCredited, CreditSum, Visited, GivesBack, LinesDone
  <2>3. Drawing(t) => Drawing(t)'
    BY DEF Drawing
  <2> QED
    BY <2>1, <2>2, <2>3 DEF BookAt, GivesBack
<1>2. Tables'
  BY TablesKept DEF Books
<1> QED
  BY <1>1, <1>2 DEF Books

\* Every step keeps the books.
LEMMA StepBooks == IInv /\ Books /\ [Next]_vars => Books'
<1> SUFFICES ASSUME IInv, Books, [Next]_vars PROVE Books'
  OBVIOUS
<1>1. ASSUME NEW r \in Requests, Receive(r) PROVE Books'
  BY <1>1, BeginCreateBooks, PatchBooks, BeginEditBooks, SetProductStatusBooks DEF Receive
<1>2. ASSUME NEW r \in Requests, Handle(r) PROVE Books'
  <2>1. r \in Procs
    OBVIOUS
  <2>2. CASE ReserveItem(r) \/ CommitCreate(r) \/ ValidateTransition(r) \/ WriteOrder(r)
             \/ WriteHistory(r) \/ LockOrder(r)
    BY <2>2, ReserveItemBooks, CommitCreateBooks, PatchBooks, WriteOrderBooks, LockOrderBooks
  <2>3. CASE RejectItem(r) \/ CommitAborted(r)
    BY <2>1, <2>3, RollbackBooks DEF RejectItem, CommitAborted
  <2>4. CASE RestoreItem(r) \/ CommitPatch(r) \/ HistoryInsertFails(r) \/ WriteEdit(r)
    BY <2>1, <2>4, RestoreItemBooks, CommitPatchBooks, HistoryInsertFailsBooks, WriteEditBooks
  <2> QED
    BY <1>2, <2>2, <2>3, <2>4 DEF Handle
<1>3. ASSUME NEW w \in Workers, Work(w) PROVE Books'
  <2>1. w \in Procs
    OBVIOUS
  <2> QED
    BY <1>3, <2>1, RunStartsBooks, ClaimRowBooks, RowsLockedBooks, NextClaimedBooks,
       RestoreItemBooks, CommitRunBooks DEF Work
<1>4. ASSUME NEW t \in Procs, Fail(t) \/ DeadlockVictim(t) PROVE Books'
  BY <1>4, RollbackBooks DEF Fail, DeadlockVictim
<1>5. TimePasses \/ UNCHANGED vars => Books'
  BY IdleBooks DEF TimePasses, vars, tables, staged, run, observers
<1> QED
  BY <1>1, <1>2, <1>3, <1>4, <1>5 DEF Next

\* The books hold in every reachable state.
THEOREM BooksKept == Spec => []Books
BY InitBooks, StepBooks, Invariance, PTL DEF Spec

\* Whatever creations, cancellations, expiries and edits interleave, and whatever
\* fails in between, stock and what the orders took is what was supplied and what
\* the orders gave back.
THEOREM StockAddsUp == Spec => []StockLedger
<1>1. Books => StockLedger
  BY DEF Books, Tables
<1> QED
  BY <1>1, BooksKept, PTL

-----------------------------------------------------------------------------
(* The units of an order *)

\* The ledger's sums are these sums.
LEMMA LedgerSum == \A f : Ledger!SumFunction(f) = SumFunction(f)
BY DEF Ledger!SumFunction, Ledger!SumFunctionOnSet, Ledger!FoldFunctionOnSet,
       Ledger!MapThenFoldSet, SumFunction, SumFunctionOnSet, FoldFunctionOnSet, MapThenFoldSet

\* The ledger's units of a product are a sum over the lines about that product.
LEMMA LinesSum ==
  ASSUME NEW b \in Baskets, NEW p, NEW T \in SUBSET (1..Len(b)),
         \A i \in (1..Len(b)) \ T : b[i].product # p
  PROVE  /\ \E f : /\ Ledger!Units(b, p) = SumFunctionOnSet(f, T)
                   /\ \A i \in T : f[i] \in Int /\ (b[i].product = p => f[i] = b[i].qty)
         /\ IsFiniteSet(T)
<1> DEFINE S == 1..Len(b)
           f == [i \in S |-> IF b[i].product = p THEN b[i].qty ELSE 0]
<1>1. b \in Seq(Item) /\ Len(b) \in Nat
  BY OrdersAssumption DEF IsBasket
<1>2. DOMAIN b = S /\ IsFiniteSet(S)
  BY <1>1, FS_Interval
<1>3. \A i \in S : f[i] \in Int
  BY BasketLine
<1>4. Ledger!Units(b, p) = SumFunction(f)
  BY <1>2, LedgerSum DEF Ledger!Units
<1>5. SumFunction(f) = SumFunctionOnSet(f, S)
  BY DEF SumFunction
<1>6. \A i \in S \ T : f[i] = 0
  OBVIOUS
<1>7. T \in SUBSET S /\ \A i \in T : f[i] \in Int /\ (b[i].product = p => f[i] = b[i].qty)
  BY <1>3
<1> HIDE DEF f, S
<1>8. SumFunctionOnSet(f, S) = SumFunctionOnSet(f, T)
  BY <1>2, <1>3, <1>6, <1>7, SumSupport
<1> QED
  BY <1>2, <1>4, <1>5, <1>7, <1>8, FS_Subset

\* They are the quantity of its one line.
LEMMA LineUnits ==
  ASSUME NEW b \in Baskets, NEW i \in 1..Len(b)
  PROVE  Ledger!Units(b, b[i].product) = b[i].qty
<1> DEFINE p == b[i].product
<1>1. \A j \in (1..Len(b)) \ {i} : b[j].product # p
  BY OneLine
<1> HIDE DEF p
<1>2. PICK f : /\ Ledger!Units(b, p) = SumFunctionOnSet(f, {i})
               /\ \A j \in {i} : f[j] \in Int /\ (b[j].product = p => f[j] = b[j].qty)
  <2>1. {i} \in SUBSET (1..Len(b))
    OBVIOUS
  <2> QED
    BY <1>1, <2>1, LinesSum
<1>3. f[i] = b[i].qty /\ f[i] \in Int
  BY <1>2 DEF p
<1>4. IsFiniteSet({i})
  BY FS_Singleton
<1>5. SumFunctionOnSet(f, {i}) = f[i] + SumFunctionOnSet(f, {i} \ {i}) /\ SumFunctionOnSet(f, {}) = 0
  BY <1>3, <1>4, SumFacts
<1>6. SumFunctionOnSet(f, {i} \ {i}) = 0
  <2>1. {i} \ {i} = {}
    OBVIOUS
  <2> QED
    BY <1>5, <2>1
<1>7. Ledger!Units(b, p) = b[i].qty
  BY <1>2, <1>3, <1>5, <1>6
<1> QED
  BY <1>7 DEF p

\* A product with no line has none.
LEMMA NoLineUnits ==
  ASSUME NEW b \in Baskets, NEW p, \A i \in 1..Len(b) : b[i].product # p
  PROVE  Ledger!Units(b, p) = 0
<1>1. PICK f : Ledger!Units(b, p) = SumFunctionOnSet(f, {})
  <2>1. {} \in SUBSET (1..Len(b)) /\ \A i \in (1..Len(b)) \ {} : b[i].product # p
    OBVIOUS
  <2> QED
    BY <2>1, LinesSum
<1>2. SumFunctionOnSet(f, {}) = 0
  BY FS_EmptySet, SumFacts
<1> QED
  BY <1>1, <1>2

-----------------------------------------------------------------------------
(* The steps of the ledger *)

LedgerStep == [Ledger!Next]_(Ledger!vars)

\* t is about to commit a return: it has done every line of every order it visited.
AllLinesDone(t) ==
  /\ pc[t] = "restore"
  /\ \A o \in Visited(t) : LinesDone(t, o) = Len(order[o].items)

\* What is staged for p on behalf of o: all the units, or none of a product passed over.
LEMMA StagedUnits ==
  ASSUME IInv, Books, NEW t \in Procs, AllLinesDone(t), NEW o \in OrderIds, NEW p \in Products
  PROVE  /\ o \notin Visited(t) => credit[t][o][p] = 0
         /\ o \in Visited(t) /\ (credit[t][o][p] # 0 \/ p \notin untracked)
              => credit[t][o][p] = Ledger!Units(order[o].items, p)
<1>1. Returning(t) /\ CreditIsLine(t, o, p)
  BY DEF AllLinesDone, Books, BookAt, Returning
<1>2. o \notin Visited(t) => credit[t][o][p] = 0
  BY <1>1 DEF CreditIsLine
<1>3. ASSUME o \in Visited(t), credit[t][o][p] # 0 \/ p \notin untracked
      PROVE  credit[t][o][p] = Ledger!Units(order[o].items, p)
  <2>1. order[o] # None
    BY <1>3, VisitedOrder DEF AllLinesDone
  <2>2. order[o].items \in Baskets
    BY <2>1 DEF IInv, TypeOK, OrderRow
  <2>3. LinesDone(t, o) = Len(order[o].items)
    BY <1>3 DEF AllLinesDone
  <2>4. CASE credit[t][o][p] # 0
    <3>1. PICK i \in 1..Len(order[o].items) :
            order[o].items[i].product = p /\ order[o].items[i].qty = credit[t][o][p]
      BY <1>1, <2>3, <2>4 DEF CreditIsLine
    <3> QED
      BY <3>1, <2>2, LineUnits
  <2>5. CASE credit[t][o][p] = 0
    <3>1. \A i \in 1..Len(order[o].items) : LineCredited(t, o, i)
      BY <1>1, <1>3, <2>3 DEF Returning
    <3>2. \A i \in 1..Len(order[o].items) : order[o].items[i].product # p
      BY <1>3, <2>5, <3>1 DEF LineCredited
    <3> QED
      BY <2>2, <2>5, <3>2, NoLineUnits
  <2> QED
    BY <2>4, <2>5
<1> QED
  BY <1>2, <1>3

\* The staged stock change is the sum of the units of the orders not passed over.
LEMMA StagedSum ==
  ASSUME IInv, Books, NEW t \in Procs, AllLinesDone(t), NEW p \in Products,
         NEW T, T = {o \in Visited(t) : ~(p \in untracked /\ credit[t][o][p] = 0)}
  PROVE  delta[t][p] = Ledger!SumFunction([o \in T |-> Ledger!Units(order[o].items, p)])
<1> DEFINE c == [o \in OrderIds |-> credit[t][o][p]]
           u == [o \in T |-> Ledger!Units(order[o].items, p)]
<1>1. delta[t][p] = SumFunction(c)
  BY DEF AllLinesDone, Books, BookAt, Returning, CreditSum
<1>2. c \in [OrderIds -> Int] /\ SumFunction(c) = SumFunctionOnSet(c, OrderIds)
  <2>1. c \in [OrderIds -> Int]
    BY UnitFunctions DEF IInv
  <2> HIDE DEF c
  <2> QED
    BY <2>1, OrderSum
<1>3. T \in SUBSET OrderIds
  BY VisitedOrder DEF AllLinesDone
<1>4. \A o \in OrderIds \ T : c[o] = 0
  BY StagedUnits
<1>5. \A o \in T : c[o] = u[o]
  BY <1>3, StagedUnits
<1>6. SumFunction(u) = SumFunctionOnSet(u, T)
  BY DEF SumFunction
<1>7. IsFiniteSet(OrderIds) /\ IsFiniteSet(T)
  BY <1>3, OrdersAssumption, FS_Subset
<1> HIDE DEF c, u
<1>8. SumFunctionOnSet(c, OrderIds) = SumFunctionOnSet(c, T)
  BY <1>2, <1>3, <1>4, <1>7, SumSupport
<1>9. SumFunctionOnSet(u, T) = SumFunctionOnSet(c, T)
  BY <1>2, <1>3, <1>5, <1>7, SumSame
<1>10. delta[t][p] = Ledger!SumFunction(u)
  BY <1>1, <1>2, <1>6, <1>8, <1>9, LedgerSum
<1> QED
  BY <1>10 DEF u

\* So the commit of a return gives the visited orders back as the ledger does.
LEMMA ReturnMaps ==
  ASSUME IInv, Books, NEW t \in Procs, AllLinesDone(t),
         product' = StockAfter(t), UNCHANGED untracked
  PROVE  Ledger!GiveBack(Visited(t))
<1> DEFINE S == Visited(t)
           passed == {k \in S \X untracked : credit[t][k[1]][k[2]] = 0}
           given(p) == {x \in S : <<x, p>> \notin passed}
           change == [p \in Products |->
                       Ledger!SumFunction([o \in given(p) |-> Ledger!Units(order[o].items, p)])]
<1>1. \A x \in S : \A p : <<x, p>> \in passed <=> p \in untracked /\ credit[t][x][p] = 0
  OBVIOUS
<1>2. passed \in SUBSET (S \X untracked)
  OBVIOUS
<1>3. ASSUME NEW o \in S, NEW p \in untracked, ~product[p].track PROVE <<o, p>> \in passed
  <2>1. p \in Products /\ o \in OrderIds
    BY VisitedOrder DEF AllLinesDone, IInv, TypeOK
  <2>2. CreditIsLine(t, o, p)
    BY <2>1 DEF AllLinesDone, Books, BookAt, Returning
  <2> QED
    BY <1>1, <1>3, <2>2 DEF CreditIsLine
<1>4. ASSUME NEW p \in Products PROVE change[p] = delta[t][p]
  <2>1. given(p) = {o \in S : ~(p \in untracked /\ credit[t][o][p] = 0)}
    BY <1>1
  <2> HIDE DEF S, passed, given
  <2>2. delta[t][p] = Ledger!SumFunction([o \in given(p) |-> Ledger!Units(order[o].items, p)])
    BY <2>1, StagedSum DEF S
  <2> QED
    BY <2>2
<1>5. product' = Ledger!AddStock(change)
  <2> HIDE DEF change
  <2> QED
    BY <1>4 DEF StockAfter, Ledger!AddStock
<1> HIDE DEF passed
<1> QED
  BY <1>2, <1>3, <1>5 DEF Ledger!GiveBack

\* A transaction with nothing to visit leaves the stock as it is.
LEMMA NothingReturned ==
  ASSUME IInv, Books, NEW t \in Procs, pc[t] = "restore", Visited(t) = {},
         product' = StockAfter(t)
  PROVE  product' = product
<1>1. ASSUME NEW p \in Products PROVE delta[t][p] = 0
  <2> DEFINE c == [o \in OrderIds |-> credit[t][o][p]]
  <2>1. Returning(t)
    BY DEF Books, BookAt
  <2>2. delta[t][p] = SumFunction(c)
    BY <2>1 DEF Returning, CreditSum
  <2>3. c \in [OrderIds -> Int] /\ \A o \in OrderIds : c[o] = 0
    BY <2>1, UnitFunctions DEF IInv, Returning, CreditIsLine
  <2> HIDE DEF c
  <2> QED
    BY <2>2, <2>3, OrderSum
<1>2. \A p \in Products : StockAfter(t)[p] = product[p]
  BY <1>1 DEF StockAfter, IInv, TypeOK, ProductRow
<1> QED
  BY <1>2 DEF StockAfter, IInv, TypeOK

\* A step that writes no table is no step of the ledger.
LEMMA StutterMaps == UNCHANGED <<product, order, untracked>> => LedgerStep
BY DEF LedgerStep, Ledger!vars

\* The commit of a creation places the order: its lines are still on sale and in
\* stock, and their units leave it.
LEMMA CommitCreateMaps ==
  ASSUME IInv, Books, NEW r \in Requests, CommitCreate(r)
  PROVE  LedgerStep
<1> DEFINE b == body[r].items
           change == [p \in Products |-> IF product[p].track THEN -Ledger!Units(b, p) ELSE 0]
<1>1. PICK o \in OrderIds :
        /\ order[o] = None
        /\ order' = [order EXCEPT ![o] = [status |-> "pending", paid |-> FALSE, items |-> b]]
  BY DEF CommitCreate
<1>2. /\ pc[r] = "reserve" /\ walk[r].done = Len(b) /\ product' = StockAfter(r)
      /\ UNCHANGED untracked
  BY DEF CommitCreate, AllItems
<1>3. RequestAt(r) /\ Drawing(r)
  BY <1>2 DEF IInv, Everyone, Books, BookAt
<1>4. b \in Baskets /\ DOMAIN b = 1..Len(b)
  <2>1. b \in Baskets
    BY <1>2, <1>3 DEF RequestAt, CreateBody
  <2> QED
    BY <2>1, OrdersAssumption DEF IsBasket
<1>5. ASSUME NEW i \in DOMAIN b
      PROVE  /\ product[b[i].product].status = "active"
             /\ product[b[i].product].track => product[b[i].product].stock >= b[i].qty
  <2> DEFINE p == b[i].product
  <2>1. i \in 1..walk[r].done /\ p \in Products /\ b[i].qty \in Nat
    BY <1>2, <1>4, BasketLine
  <2>2. Reserved(r, p)
    BY <1>2, <1>3, <2>1 DEF RequestAt
  <2>3. product[p].track => delta[r][p] = 0 - b[i].qty
    BY <1>3, <2>1 DEF Drawing
  <2>4. product[p].stock \in Int
    BY <2>1 DEF IInv, TypeOK, ProductRow
  <2> HIDE DEF p
  <2>5. product[p].status = "active" /\ (product[p].track => product[p].stock >= b[i].qty)
    BY <2>1, <2>2, <2>3, <2>4 DEF Reserved
  <2> QED
    BY <2>5 DEF p
<1>6. ASSUME NEW p \in Products PROVE change[p] = delta[r][p]
  <2>1. CASE \E i \in 1..Len(b) : b[i].product = p
    <3>1. PICK i \in 1..Len(b) : b[i].product = p
      BY <2>1
    <3>2. delta[r][p] = IF product[p].track THEN 0 - b[i].qty ELSE 0
      BY <1>2, <1>3, <3>1 DEF Drawing
    <3>3. Ledger!Units(b, p) = b[i].qty /\ b[i].qty \in Nat
      BY <1>4, <3>1, LineUnits, BasketLine
    <3> QED
      BY <3>2, <3>3
  <2>2. CASE ~ \E i \in 1..Len(b) : b[i].product = p
    <3>1. delta[r][p] = 0
      BY <1>2, <1>3, <2>2 DEF Drawing
    <3>2. Ledger!Units(b, p) = 0
      BY <1>4, <2>2, NoLineUnits
    <3> QED
      BY <3>1, <3>2
  <2> QED
    BY <2>1, <2>2
<1>7. product' = Ledger!AddStock(change)
  <2> HIDE DEF change
  <2> QED
    BY <1>2, <1>6 DEF StockAfter, Ledger!AddStock
<1>8. Ledger!Place(o, b)
  BY <1>1, <1>2, <1>5, <1>7 DEF Ledger!Place
<1> HIDE DEF b
<1> QED
  BY <1>4, <1>8 DEF LedgerStep, Ledger!Next

\* What a PATCH makes of the row.
LEMMA PatchMaps ==
  ASSUME IInv, NEW r \in Requests, pc[r] \in Patching,
         order' = [order EXCEPT ![body[r].order] = Patched(body[r], @)]
  PROVE  /\ body[r].order \in OrderIds /\ order[body[r].order] # None
         /\ \E s \in NewStatuses \cup {order[body[r].order].status}, paid \in BOOLEAN :
              /\ order' = [order EXCEPT ![body[r].order].status = s, ![body[r].order].paid = paid]
              /\ GivesBack(r) => s = "cancelled"
<1>1. PICK b, o : b = body[r] /\ o = body[r].order
  OBVIOUS
<1>2. b \in PatchBody /\ o \in OrderIds /\ order[o] # None
  BY <1>1 DEF IInv, Everyone, RequestAt, PatchBody
<1>3. order[o] \in OrderRow /\ order \in [OrderIds -> OrderRow \cup {None}]
  BY <1>2 DEF IInv, TypeOK
<1>4. PICK s, paid : /\ s = IF b.status = "keep" THEN order[o].status ELSE b.status
                     /\ paid = NewPaid(b, order[o].paid)
  OBVIOUS
<1>5. s \in NewStatuses \cup {order[o].status} /\ paid \in BOOLEAN
  BY <1>2, <1>3, <1>4 DEF PatchBody, OrderRow, NewPaid
<1>6. order' = [order EXCEPT ![o].status = s, ![o].paid = paid]
  BY <1>1, <1>2, <1>3, <1>4 DEF Patched, OrderRow
<1>7. GivesBack(r) => s = "cancelled"
  BY <1>1, <1>4 DEF GivesBack
<1> QED
  BY <1>1, <1>2, <1>5, <1>6, <1>7

\* A PATCH in a single statement revises the order.
LEMMA WriteOrderMaps ==
  ASSUME IInv, NEW r \in Requests, WriteOrder(r)
  PROVE  LedgerStep
<1>1. /\ pc[r] \in Patching /\ order' = [order EXCEPT ![body[r].order] = Patched(body[r], @)]
      /\ UNCHANGED <<product, untracked>>
  BY DEF WriteOrder, Patching, observers
<1>2. body[r].order \in OrderIds /\ Ledger!Revise(body[r].order)
  BY <1>1, PatchMaps DEF Ledger!Revise
<1> QED
  BY <1>2 DEF LedgerStep, Ledger!Next

\* A PATCH in a transaction revises the order, or cancels it and gives its units back.
LEMMA CommitPatchMaps ==
  ASSUME IInv, Books, NEW r \in Requests, CommitPatch(r)
  PROVE  LedgerStep
<1>1. PICK o : o = body[r].order
  OBVIOUS
<1>2. /\ pc[r] = "restore" /\ walk[r].done = Len(order[walk[r].order].items)
      /\ order' = [order EXCEPT ![body[r].order] = Patched(body[r], @)]
      /\ product' = StockAfter(r) /\ UNCHANGED untracked
  BY DEF CommitPatch, Restoring, Walked
<1>3. walk[r].order = o
  BY <1>1, <1>2 DEF IInv, Everyone, RequestAt
<1>4. PICK s \in NewStatuses \cup {order[o].status}, paid \in BOOLEAN :
        /\ order' = [order EXCEPT ![o].status = s, ![o].paid = paid]
        /\ GivesBack(r) => s = "cancelled"
  <2>1. pc[r] \in Patching
    BY <1>2 DEF Patching
  <2>2. \E s \in NewStatuses \cup {order[body[r].order].status}, paid \in BOOLEAN :
          /\ order' = [order EXCEPT ![body[r].order].status = s, ![body[r].order].paid = paid]
          /\ GivesBack(r) => s = "cancelled"
    BY <1>2, <2>1, PatchMaps
  <2> QED
    BY <1>1, <2>2
<1>5. o \in OrderIds /\ order[o] # None
  BY <1>1, <1>2, PatchMaps DEF Patching
<1>6. CASE GivesBack(r)
  <2>1. Visited(r) = {o}
    BY <1>3, <1>6, Distinct DEF Visited
  <2>2. AllLinesDone(r)
    BY <1>2, <1>3, <2>1 DEF AllLinesDone, LinesDone
  <2>3. Ledger!GiveBack({o})
    BY <1>2, <2>1, <2>2, ReturnMaps
  <2>4. Ledger!Cancel(o)
    BY <1>4, <1>5, <1>6, <2>3 DEF Ledger!Cancel
  <2> QED
    BY <1>5, <2>4 DEF LedgerStep, Ledger!Next
<1>7. CASE ~GivesBack(r)
  <2>1. Visited(r) = {}
    BY <1>7, Distinct DEF Visited
  <2>2. product' = product
    BY <1>2, <2>1, NothingReturned
  <2>3. Ledger!Revise(o)
    BY <1>2, <1>4, <1>5, <2>2 DEF Ledger!Revise
  <2> QED
    BY <1>5, <2>3 DEF LedgerStep, Ledger!Next
<1> QED
  BY <1>6, <1>7

\* A worker's run expires what it claimed and gives all of it back, at once.
LEMMA CommitRunMaps ==
  ASSUME IInv, Books, NEW w \in Workers, CommitRun(w)
  PROVE  LedgerStep
<1>1. /\ pc[w] = "restore" /\ todo[w] = {}
      /\ walk[w].order # None => walk[w].done = Len(order[walk[w].order].items)
      /\ order' = [o \in OrderIds |->
                    IF o \in claimed[w] THEN [order[o] EXCEPT !.status = "expired"] ELSE order[o]]
      /\ product' = StockAfter(w) /\ UNCHANGED untracked
  BY DEF CommitRun, Walked
<1>2. Visited(w) = claimed[w] /\ claimed[w] \in SUBSET OrderIds
  BY <1>1 DEF Visited, IInv, TypeOK
<1>3. CASE claimed[w] = {}
  <2>1. product' = product
    BY <1>1, <1>2, <1>3, NothingReturned
  <2>2. order' = order
    BY <1>1, <1>3 DEF IInv, TypeOK
  <2> QED
    BY <1>1, <2>1, <2>2, StutterMaps
<1>4. CASE claimed[w] # {}
  <2>1. AllLinesDone(w)
    BY <1>1, <1>2, Distinct DEF AllLinesDone, LinesDone
  <2>2. Ledger!GiveBack(claimed[w])
    BY <1>1, <1>2, <2>1, ReturnMaps
  <2>3. \A o \in claimed[w] : order[o] # None /\ order[o].status = "pending" /\ ~order[o].paid
    BY DEF IInv, Everyone, WorkerAt, Claim
  <2>4. Ledger!Expire(claimed[w])
    BY <1>1, <2>2, <2>3 DEF Ledger!Expire
  <2> QED
    BY <1>2, <1>4, <2>4 DEF LedgerStep, Ledger!Next
<1> QED
  BY <1>3, <1>4

\* An edit rewrites the row with what the admin sent and what the handler had read.
LEMMA WriteEditMaps ==
  ASSUME IInv, Books, NEW r \in Requests, WriteEdit(r)
  PROVE  LedgerStep
<1>1. PICK p : /\ p = body[r].product /\ product' = [product EXCEPT ![p] = seen[r]]
               /\ untracked' = IF seen[r].track THEN untracked ELSE untracked \cup {p}
               /\ order' = order /\ pc[r] = "edit"
  BY DEF WriteEdit
<1>2. p \in Products /\ seen[r] \in ProductRow /\ seen[r].stock \in StockLevels
  BY <1>1 DEF IInv, Everyone, RequestAt, EditBody, Books, BookAt
<1>3. seen[r] = [status |-> seen[r].status, track |-> seen[r].track, stock |-> seen[r].stock]
      /\ seen[r].status \in ProductStatus /\ seen[r].track \in BOOLEAN
  BY <1>2 DEF ProductRow
<1>4. Ledger!Edit(p)
  BY <1>1, <1>2, <1>3 DEF Ledger!Edit, ProductStatus
<1> QED
  BY <1>2, <1>4 DEF LedgerStep, Ledger!Next

\* So does a change of the status alone.
LEMMA SetProductStatusMaps ==
  ASSUME IInv, Books, NEW r \in Requests, SetProductStatus(r)
  PROVE  LedgerStep
<1>1. PICK p \in Products, s \in ProductStatus :
        /\ product' = [product EXCEPT ![p].status = s] /\ UNCHANGED <<order, untracked>>
  BY DEF SetProductStatus, observers
<1>2. product[p] \in ProductRow /\ product \in [Products -> ProductRow]
  BY DEF IInv, TypeOK
<1>3. product' = [product EXCEPT ![p] =
                   [status |-> s, track |-> product[p].track, stock |-> product[p].stock]]
  <2>1. [product[p] EXCEPT !.status = s]
          = [status |-> s, track |-> product[p].track, stock |-> product[p].stock]
    BY <1>2 DEF ProductRow
  <2>2. product' = [product EXCEPT ![p] = [product[p] EXCEPT !.status = s]]
    BY <1>1, <1>2
  <2> QED
    BY <2>1, <2>2
<1>4. untracked' = IF product[p].track THEN untracked ELSE untracked \cup {p}
  BY <1>1 DEF Books, Tables, UntrackedKept
<1>5. product[p].track \in BOOLEAN
  BY <1>2 DEF ProductRow
<1>6. Ledger!Edit(p)
  BY <1>1, <1>3, <1>4, <1>5 DEF Ledger!Edit, ProductStatus
<1> QED
  BY <1>6 DEF LedgerStep, Ledger!Next

\* Every step is a step of the ledger or invisible in the tables.
LEMMA StepMaps == IInv /\ Books /\ [Next]_vars => LedgerStep
<1> SUFFICES ASSUME IInv, Books, [Next]_vars PROVE LedgerStep
  OBVIOUS
<1> USE DEF tables, observers
<1>1. ASSUME NEW t \in Procs, Rollback(t) PROVE LedgerStep
  BY <1>1, StutterMaps DEF Rollback
<1>2. ASSUME NEW r \in Requests, Receive(r) PROVE LedgerStep
  <2>1. BeginCreate(r) \/ BeginPatch(r) \/ BeginEdit(r) => UNCHANGED <<product, order, untracked>>
    BY DEF BeginCreate, BeginPatch, BeginEdit
  <2> QED
    BY <1>2, <2>1, StutterMaps, SetProductStatusMaps DEF Receive
<1>3. ASSUME NEW t \in Procs, RestoreItem(t) PROVE LedgerStep
  BY <1>3, StutterMaps DEF RestoreItem
<1>4. ASSUME NEW r \in Requests, Handle(r) PROVE LedgerStep
  <2>1. ReserveItem(r) \/ ValidateTransition(r) \/ HistoryInsertFails(r) \/ LockOrder(r)
          => UNCHANGED <<product, order, untracked>>
    BY DEF ReserveItem, ValidateTransition, HistoryInsertFails, LockOrder
  <2>2. WriteHistory(r) => UNCHANGED <<product, order, untracked>>
    BY DEF WriteHistory
  <2>3. RejectItem(r) \/ CommitAborted(r) => LedgerStep
    BY <1>1 DEF RejectItem, CommitAborted
  <2> QED
    BY <1>3, <1>4, <2>1, <2>2, <2>3, StutterMaps, CommitCreateMaps, WriteOrderMaps,
       CommitPatchMaps, WriteEditMaps DEF Handle
<1>5. ASSUME NEW w \in Workers, Work(w) PROVE LedgerStep
  <2>1. StartRun(w) \/ ScanExpired(w) \/ ClaimRow(w) \/ RowsLocked(w) \/ NextClaimed(w)
          => UNCHANGED <<product, order, untracked>>
    BY DEF StartRun, ScanExpired, ClaimRow, RowsLocked, NextClaimed
  <2> QED
    BY <1>3, <1>5, <2>1, StutterMaps, CommitRunMaps DEF Work
<1>6. ASSUME NEW t \in Procs, Fail(t) \/ DeadlockVictim(t) PROVE LedgerStep
  BY <1>1, <1>6 DEF Fail, DeadlockVictim
<1>7. TimePasses \/ UNCHANGED vars => LedgerStep
  BY StutterMaps DEF TimePasses, vars
<1> QED
  BY <1>2, <1>4, <1>5, <1>6, <1>7 DEF Next

\* Every creation, PATCH, expiry and edit takes effect at the one step that commits
\* it: no interleaving, lock wait or failure of the statements shows in the tables.
THEOREM OrdersImplementLedger == Spec => ImplementsLedger
<1>1. Init => Ledger!Init
  BY DEF Init, Ledger!Init
<1>2. IInv /\ Books /\ [Next]_vars => [Ledger!Next]_(Ledger!vars)
  BY StepMaps DEF LedgerStep
<1> QED
  BY <1>1, <1>2, Invariance, BooksKept, PTL DEF Spec, ImplementsLedger, Ledger!Spec

=============================================================================
