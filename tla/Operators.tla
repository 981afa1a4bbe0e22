------------------------------- MODULE Operators -----------------------------
(***************************************************************************)
(* The sorts and exercises of src/clrs and the sorts and data structures of *)
(* src/data_structure_and_algorithm, as operators; Algorithms runs them.   *)
(* They are recursive, so nothing is proved about this module.             *)
(***************************************************************************)
EXTENDS Integers, Sequences, FiniteSets, SequencesExt

CONSTANTS mindata, capacity   \* below every element; elements a heap may hold

-----------------------------------------------------------------------------
(* The sorts of src/clrs/sorting.c and of                                  *)
(* src/data_structure_and_algorithm/sort, and the clrs exercises that      *)
(* count and sum.   An array of n ints is a function on 0..n: a[n] is the  *)
(* word behind it, which a sort may read but must leave as it was.  Any    *)
(* other index is an error of TLC's evaluation.                            *)
(*                                                                         *)
(* Names that both directories use are prefixed DS for                     *)
(* data_structure_and_algorithm.                                           *)

Size(a) == CHOOSE n \in DOMAIN a : n + 1 \notin DOMAIN a
Up(lo, hi) == [k \in 1..(IF hi < lo THEN 0 ELSE hi - lo + 1) |-> lo + k - 1]
Down(hi, lo) == Reverse(Up(lo, hi))

Exchange(a, i, j) == [a EXCEPT ![i] = a[j], ![j] = a[i]]

\* The mutant without the test: x ^ x is 0.
swapXor(a, i, j) == IF i = j THEN [a EXCEPT ![i] = 0] ELSE Exchange(a, i, j)

\* swap exchanges by exclusive or, so it must not be given one place twice.
swap(a, i, j) == IF i = j THEN a ELSE Exchange(a, i, j)

bubblesort(a) ==
  LET n == Size(a)
      Bubble(b, j) == IF b[j] < b[j - 1] THEN swap(b, j, j - 1) ELSE b
      Pass(b, i) == FoldLeft(Bubble, b, Down(n - 1, i + 1))
  IN FoldLeft(Pass, a, Up(0, n - 2))

selectsort(a) ==
  LET n == Size(a)
      Pass(b, i) ==
        LET Less(min, j) == IF b[j] < b[min] THEN j ELSE min
        IN swap(b, i, FoldLeft(Less, i, Down(n - 1, i + 1)))
  IN FoldLeft(Pass, a, Up(0, n - 2))

\* The inner loop of the insertion and Shell sorts: tmp sinks from j in steps.
RECURSIVE Sift(_, _, _, _)
Sift(a, j, step, tmp) ==
  IF j >= step /\ tmp < a[j - step] THEN Sift([a EXCEPT ![j] = a[j - step]], j - step, step, tmp)
  ELSE [a EXCEPT ![j] = tmp]

InsertRange(a, lo, hi, step) ==
  LET Pass(b, i) == Sift(b, i, step, b[i]) IN FoldLeft(Pass, a, Up(lo + step, hi))

insertsort(a) == InsertRange(a, 0, Size(a) - 1, 1)
DSinsertion_sort(a) == InsertRange(a, 0, Size(a) - 1, 1)

RECURSIVE Shell(_, _)
Shell(a, step) ==
  IF step = 0 THEN a ELSE Shell(InsertRange(a, 0, Size(a) - 1, step), step \div 2)
shellsort(a) == Shell(a, Size(a) \div 2)
DSshellsort(a) == Shell(a, Size(a) \div 2)

-----------------------------------------------------------------------------
\* The two-finger merge of a[i..mid-1] and a[j..e-1], as a sequence; of equals
\* the left one comes first, or the right one.
RECURSIVE Merged(_, _, _, _, _, _)
Merged(a, i, mid, j, e, tieLeft) ==
  CASE i < mid /\ (j = e \/ a[i] < a[j] \/ (tieLeft /\ a[i] = a[j])) ->
         <<a[i]>> \o Merged(a, i + 1, mid, j, e, tieLeft)
    [] i = mid /\ j = e -> <<>>
    [] OTHER -> <<a[j]>> \o Merged(a, i, mid, j + 1, e, tieLeft)

CopyBack(a, b, tmpa) == [k \in DOMAIN a |-> IF k - b + 1 \in DOMAIN tmpa THEN tmpa[k - b + 1] ELSE a[k]]

merge(a, b, mid, e) == CopyBack(a, b, Merged(a, b, mid, mid, e, FALSE))
DSmerge(a, lpos, rpos, rightend) == CopyBack(a, lpos, Merged(a, lpos, rpos, rpos, rightend, TRUE))

RECURSIVE msort(_, _, _)
msort(a, b, e) ==
  LET mid == (b + e) \div 2
  IN IF b + 1 >= e THEN a ELSE merge(msort(msort(a, b, mid), mid, e), b, mid, e)
RECURSIVE DSmsort(_, _, _)
DSmsort(a, left, right) ==
  LET center == (left + right) \div 2
  IN IF left + 1 >= right THEN a
     ELSE DSmerge(DSmsort(DSmsort(a, left, center), center, right), left, center, right)
mergesort(a) == msort(a, 0, Size(a))
DSmergesort(a) == DSmsort(a, 0, Size(a))

-----------------------------------------------------------------------------
\* sink numbers places from 1; it goes down to a leaf whether it swaps or not.
RECURSIVE sink(_, _, _)
sink(a, k, n) ==
  IF 2 * k > n THEN a
  ELSE LET big == IF 2 * k + 1 > n \/ a[2 * k - 1] > a[2 * k] THEN 2 * k ELSE 2 * k + 1
       IN sink(IF a[k - 1] < a[big - 1] THEN swap(a, k - 1, big - 1) ELSE a, big, n)

buildheap(a) ==
  LET n == Size(a) Sink(b, i) == sink(b, i, n) IN FoldLeft(Sink, a, Down(n \div 2, 1))
heapsort(a) ==
  LET Take(b, i) == sink(swap(b, 0, i - 1), 1, i - 1)
  IN FoldLeft(Take, buildheap(a), Down(Size(a), 1))

\* percdown moves a hole down and stops where tmp belongs.
RECURSIVE Perc(_, _, _, _)
Perc(a, i, n, tmp) ==
  IF 2 * i + 1 >= n THEN [a EXCEPT ![i] = tmp]
  ELSE LET left == 2 * i + 1
           child == IF left # n - 1 /\ a[left + 1] > a[left] THEN left + 1 ELSE left
       IN IF tmp < a[child] THEN Perc([a EXCEPT ![i] = a[child]], child, n, tmp)
                            ELSE [a EXCEPT ![i] = tmp]
percdown(a, i, n) == Perc(a, i, n, a[i])

DSheapsort(a) ==
  LET n == Size(a)
      Build(b, i) == percdown(b, i, n)
      Take(b, i) == percdown(Exchange(b, 0, i), 0, i)
  IN FoldLeft(Take, FoldLeft(Build, a, Down(n \div 2, 0)), Down(n - 1, 1))

-----------------------------------------------------------------------------
\* The hole of quicksort travels between i and j; the result is the array with
\* tmp in the hole, and its place.
RECURSIVE Hole(_, _, _, _)
Hole(a, i, j, tmp) ==
  IF i >= j THEN [a |-> [a EXCEPT ![i] = tmp], i |-> i]
  ELSE IF a[j] >= tmp THEN Hole(a, i, j - 1, tmp)
  ELSE LET RECURSIVE Right(_)
           Right(k) == IF k < j /\ a[k] <= tmp THEN Right(k + 1) ELSE k
           b == [a EXCEPT ![i] = a[j]]
           k == Right(i + 1)
       IN IF k < j THEN Hole([b EXCEPT ![j] = b[k]], k, j - 1, tmp) ELSE Hole(b, k, j, tmp)

\* A range that is empty still reads a[b] and writes it back.
RECURSIVE quicksort(_, _, _)
quicksort(a, b, e) ==
  LET h == Hole(a, b, e - 1, a[b])
  IN IF b + 2 < e THEN quicksort(quicksort(h.a, b, h.i), h.i + 1, e) ELSE h.a
my_qsort(a) == quicksort(a, 0, Size(a))

Order(a, i, j) == IF a[i] > a[j] THEN Exchange(a, i, j) ELSE a

\* The median of three goes to right - 1, with sentinels at both ends.
median3(a, left, right) ==
  LET center == (left + right) \div 2
      b == Order(Order(Order(a, left, center), left, right), center, right)
  IN Exchange(b, center, right - 1)

cutoff == 3

RECURSIVE DSqsort(_, _, _)
DSqsort(a, left, right) ==
  IF left + cutoff > right THEN
    LET n == right - left + 1
        part == DSinsertion_sort([k \in 0..(IF n < 0 THEN 0 ELSE n) |-> a[left + k]])
    IN [k \in DOMAIN a |-> IF k \in left..right THEN part[k - left] ELSE a[k]]
  ELSE
    LET m == median3(a, left, right)
        pivot == m[right - 1]
        RECURSIVE Part(_, _, _)
        Part(b, i0, j0) ==
          LET RECURSIVE R(_), L(_)
              R(i) == IF b[i] < pivot THEN R(i + 1) ELSE i
              L(j) == IF b[j] > pivot THEN L(j - 1) ELSE j
              i == R(i0 + 1)
              j == L(j0 - 1)
          IN IF i < j THEN Part(Exchange(b, i, j), i, j) ELSE [a |-> Exchange(b, i, right - 1), i |-> i]
        p == Part(m, left, right - 1)
    IN DSqsort(DSqsort(p.a, left, p.i - 1), p.i + 1, right)
DSquicksort(a) == DSqsort(a, 0, Size(a) - 1)

-----------------------------------------------------------------------------
\* The exercises and problems of src/clrs that count and sum.

\* The mutant that counts the whole distance, the numbers already taken from the
\* right half included.
RECURSIVE CountAll(_, _, _, _, _, _)
CountAll(a, i, mid, j, end, tmp) ==
  IF i = mid \/ j = end THEN 0
  ELSE IF a[i] <= a[j] THEN CountAll(a, i + 1, mid, j, end, tmp)
  ELSE j - i + CountAll(a, i, mid, j + 1, end, tmp + 1)

\* What merge adds to num: tmp numbers of the right half were taken before.
RECURSIVE Count(_, _, _, _, _, _)
Count(a, i, mid, j, end, tmp) ==
  IF i = mid \/ j = end THEN 0
  ELSE IF a[i] <= a[j] THEN Count(a, i + 1, mid, j, end, tmp)
  ELSE j - i - tmp + Count(a, i, mid, j + 1, end, tmp + 1)

RECURSIVE inversions(_, _, _)
inversions(a, beg, end) ==
  IF beg + 1 >= end THEN [a |-> a, num |-> 0]
  ELSE LET mid == (beg + end) \div 2
           left == inversions(a, beg, mid)
           right == inversions(left.a, mid, end)
       IN [a |-> DSmerge(right.a, beg, mid, end),
           num |-> left.num + right.num + Count(right.a, beg, mid, mid, end, 0)]
inverse_pairs(a) == inversions(a, 0, Size(a)).num

-----------------------------------------------------------------------------
Sub(left, right, max) == [left |-> left, right |-> right, max |-> max]

\* left and right stay uninitialised when nothing beats arr[0]: -1 here.
bmaxsubarray(arr) ==
  LET n == Size(arr)
      From(sub, i) ==
        LET To(s, j) == [tmp |-> s.tmp + arr[j],
                         sub |-> IF s.tmp + arr[j] > s.sub.max THEN Sub(i, j, s.tmp + arr[j]) ELSE s.sub]
        IN FoldLeft(To, [tmp |-> 0, sub |-> sub], Up(i, n - 1)).sub
  IN FoldLeft(From, Sub(-1, -1, arr[0]), Up(0, n - 1))

\* The sums that start next to mid; the left scan goes on to 0, past beg.
Scan(arr, first, where) ==
  LET Step(s, i) == [tmp |-> s.tmp + arr[i],
                     max |-> IF s.tmp + arr[i] > s.max THEN s.tmp + arr[i] ELSE s.max,
                     at |-> IF s.tmp + arr[i] > s.max THEN i ELSE s.at]
  IN FoldLeft(Step, [tmp |-> 0, max |-> arr[first], at |-> first], where)
maxcross(arr, beg, mid, end) ==
  LET l == Scan(arr, mid - 1, Down(mid - 1, 0))
      r == Scan(arr, mid, Up(mid, end - 1))
  IN Sub(l.at, r.at, l.max + r.max)

max(left, right, middle) ==
  LET m == IF left.max < right.max THEN right ELSE left
  IN IF m.max < middle.max THEN middle ELSE m

RECURSIVE maxsubarr(_, _, _)
maxsubarr(arr, beg, end) ==
  LET mid == (beg + end) \div 2
  IN IF beg + 1 >= end THEN Sub(beg, end - 1, arr[beg])
     ELSE max(maxsubarr(arr, beg, mid), maxsubarr(arr, mid, end), maxcross(arr, beg, mid, end))
dmaxsubarray(arr) == maxsubarr(arr, 0, Size(arr))

\* Without a positive number the largest one, else the linear scan, in which a sum
\* that is not positive is dropped.
RECURSIVE Linear(_, _, _)
Linear(arr, tmp, sub) ==
  IF tmp.right = Size(arr) THEN sub
  ELSE LET t == [tmp EXCEPT !.max = @ + arr[tmp.right]]
       IN IF t.max > 0 THEN Linear(arr, [t EXCEPT !.right = @ + 1], IF t.max >= sub.max THEN t ELSE sub)
                       ELSE Linear(arr, Sub(t.right + 1, t.right + 1, 0), sub)
lmaxsubarray(arr) ==
  LET n == Size(arr)
      Larger(s, i) == IF arr[i] >= s.max THEN Sub(i, i, arr[i]) ELSE s
  IN IF \A i \in 0..(n - 1) : arr[i] <= 0 THEN FoldLeft(Larger, Sub(-1, -1, arr[0]), Up(0, n - 1))
     ELSE Linear(arr, Sub(0, 0, 0), Sub(0, 0, arr[0]))

-----------------------------------------------------------------------------
(* The data structures of src/data_structure_and_algorithm: the AVL tree;  *)
(* the hash table with quadratic probing, list, stack, queue and disjoint  *)
(* sets; three priority queues.  Several files have slips of the pen that  *)
(* no compiler accepts (x[x] in disjset.c:36, NULLo and TopofStack in      *)
(* stack.c, x->elements in heap.c:42, t2->thetrees and h1->thetrees = NULL *)
(* in binominal_queue.c): they are read as what they stand for.  nextprime,*)
(* hash and IsFull are not in the repository; malloc is taken to succeed.  *)
(* Quad and List mark names that several files use.                        *)
(*                                                                         *)
(* Left out, because what they compute is not what they were written for:  *)
(* the unbalanced tree, whose Insert has no return statement               *)
(* (binary_search_tree.c:51-68); the table of lists, whose array is never  *)
(* allocated (hashsep.c:32); clrs's binary_search, which drops the values  *)
(* of its recursive calls (02.3.5binary_search.c:28-31), find_sum, which   *)
(* may pair one number with itself and returns nothing without a pair      *)
(* (02.3.7.c:23-35), and crandom, which leaves the range it is asked for   *)
(* (05.1.2random_ab.c:41-63).                                              *)

\* avl/avltree.c: a tree is Nil or a node; Crash is the tree of a call that went
\* through a null pointer.
Nil == [height |-> 0]
Crash == [height |-> -1]
Larger(a, b) == IF a > b THEN a ELSE b

height(p) == p.height

\* A node whose height is computed from its children; one of them may have
\* crashed.
Node(x, l, r) ==
  IF Crash \in {l, r} THEN Crash
  ELSE [element |-> x, left |-> l, right |-> r, height |-> Larger(height(l), height(r)) + 1]

RECURSIVE inorder_avltree(_)
inorder_avltree(t) ==
  IF t \in {Nil, Crash} THEN <<>>
  ELSE inorder_avltree(t.left) \o <<t.element>> \o inorder_avltree(t.right)

RECURSIVE findmin(_)
findmin(t) == IF t = Nil \/ t.left = Nil THEN t ELSE findmin(t.left)

RECURSIVE find(_, _)
find(t, x) == CASE t = Nil -> Nil
                [] x < t.element -> find(t.left, x)
                [] x > t.element -> find(t.right, x)
                [] OTHER -> t

\* The rotations read both links of the child they lift.
left_left_rotate(k2) ==
  LET k1 == k2.left IN IF k1 \in {Nil, Crash} THEN Crash
  ELSE Node(k1.element, k1.left, Node(k2.element, k1.right, k2.right))
right_right_rotate(k2) ==
  LET k1 == k2.right IN IF k1 \in {Nil, Crash} THEN Crash
  ELSE Node(k1.element, Node(k2.element, k2.left, k1.left), k1.right)
left_right_rotate(k3) == left_left_rotate([k3 EXCEPT !.left = right_right_rotate(k3.left)])

\* The mutant that takes the single rotation for the double one.
right_left_rotateOnce(k3) == right_right_rotate(k3)
right_left_rotate(k3) == right_right_rotate([k3 EXCEPT !.right = left_left_rotate(k3.right)])

RECURSIVE insert_node(_, _)
insert_node(t, x) ==
  CASE t = Nil -> Node(x, Nil, Nil)
    [] t # Nil /\ x < t.element ->
         LET n == Node(t.element, insert_node(t.left, x), t.right)
         IN IF height(n.left) - height(n.right) # 2 THEN n
            ELSE IF x < n.left.element THEN left_left_rotate(n) ELSE left_right_rotate(n)
    [] t # Nil /\ x > t.element ->
         LET n == Node(t.element, t.left, insert_node(t.right, x))
         IN IF height(n.right) - height(n.left) # 2 THEN n
            ELSE IF x > n.right.element THEN right_right_rotate(n) ELSE right_left_rotate(n)
    [] OTHER -> t

\* The rotation is chosen by comparing x, on the other side, with the child: it
\* is always the double one.
RECURSIVE delete_node(_, _)
delete_node(t, x) ==
  CASE t = Nil \/ find(t, x) = Nil -> t
    [] x < t.element ->
         LET n == Node(t.element, delete_node(t.left, x), t.right)
         IN IF n = Crash \/ height(n.right) - height(n.left) # 2 THEN n
            ELSE IF x < n.right.element THEN right_left_rotate(n) ELSE right_right_rotate(n)
    [] x > t.element ->
         LET n == Node(t.element, t.left, delete_node(t.right, x))
         IN IF n = Crash \/ height(n.left) - height(n.right) # 2 THEN n
            ELSE IF x < n.left.element THEN left_left_rotate(n) ELSE left_right_rotate(n)
    [] t.left # Nil /\ t.right # Nil ->
         LET min == findmin(t.right).element
         IN Node(min, t.left, delete_node(t.right, min))
    [] OTHER -> IF t.left # Nil THEN t.left ELSE t.right

-----------------------------------------------------------------------------
\* Hash tables, list, stack, queue and disjoint sets.
hash(key, tablesize) == key % tablesize
nextprime(n) == CHOOSE p \in n..(2 * n + 2) :
                  /\ \A d \in 2..(p - 1) : p % d # 0
                  /\ \A q \in n..(p - 1) : \E d \in 2..(q - 1) : q % d = 0

-----------------------------------------------------------------------------
\* hashquad: a cell holds a key or is Empty.
Empty == -1
initialize_table(tablesize) == [i \in 0..(nextprime(tablesize) - 1) |-> Empty]
tablesize(h) == CHOOSE n \in 1..100 : DOMAIN h = 0..(n - 1)

Wrap(pos, n) == IF pos >= n THEN pos - n ELSE pos

\* A probe that has taken as many steps as there are cells never ends: Empty.
RECURSIVE Probe(_, _, _, _)
Probe(h, key, pos, collisionnum) ==
  LET c == collisionnum + 1
  IN IF h[pos] \in {Empty, key} THEN pos
     ELSE IF c > tablesize(h) THEN Empty ELSE Probe(h, key, Wrap(pos + 2 * c - 1, tablesize(h)), c)
QuadFind(h, key) == Probe(h, key, hash(key, tablesize(h)), 0)

\* The mutant that does not probe.
QuadInsertOver(h, key) == [h EXCEPT ![hash(key, tablesize(h))] = key]
QuadInsert(h, key) == [h EXCEPT ![QuadFind(h, key)] = key]

rehash(h) ==
  LET Move(new, i) == IF h[i] = Empty THEN new ELSE QuadInsert(new, h[i])
  IN FoldLeft(Move, initialize_table(2 * tablesize(h)), [i \in 1..tablesize(h) |-> i - 1])

-----------------------------------------------------------------------------
\* The list behind its header: a position is an index, 0 the header.
Find(X, L) == SelectInSeq(L, LAMBDA e : e = X)
FindPrevious(X, L) == (IF Find(X, L) = 0 THEN Len(L) + 1 ELSE Find(X, L)) - 1
IsLast(P, L) == P = Len(L)
ListDelete(X, L) == LET P == FindPrevious(X, L) IN IF IsLast(P, L) THEN L ELSE RemoveAt(L, P + 1)
ListInsert(X, L, P) == InsertAt(L, P + 1, X)

-----------------------------------------------------------------------------
\* The stack: CreateStack leaves TopOfStack unset, MakeEmpty must follow.
StackEmpty(cap) == [array |-> [i \in 0..(cap - 1) |-> 0], top |-> -1]
Push(X, S) == IF S.top = Cardinality(DOMAIN S.array) - 1 THEN S
              ELSE [array |-> [S.array EXCEPT ![S.top + 1] = X], top |-> S.top + 1]
Top(S) == IF S.top = -1 THEN 0 ELSE S.array[S.top]
Pop(S) == IF S.top = -1 THEN S ELSE [S EXCEPT !.top = @ - 1]

\* The queue: a ring that starts at 1; the repository has no Dequeue.
QueueEmpty(cap) == [array |-> [i \in 0..(cap - 1) |-> 0], front |-> 1, rear |-> 0, size |-> 0]
Succ(Value, cap) == IF Value + 1 = cap THEN 0 ELSE Value + 1
Enqueue(X, Q) ==
  LET cap == Cardinality(DOMAIN Q.array) rear == Succ(Q.rear, cap)
  IN IF Q.size = cap THEN Q
     ELSE [array |-> [Q.array EXCEPT ![rear] = X], front |-> Q.front, rear |-> rear, size |-> Q.size + 1]

-----------------------------------------------------------------------------
\* Disjoint sets: a root holds 0 or minus its height, any other its parent.
initialize(n) == [i \in 1..n |-> 0]
RECURSIVE SetFind(_, _)
SetFind(s, x) == IF s[x] <= 0 THEN x ELSE SetFind(s, s[x])
find_route_compress(s, x) == IF s[x] <= 0 THEN s ELSE [s EXCEPT ![x] = SetFind(s, s[x])]
setunion(s, root1, root2) == [s EXCEPT ![root2] = root1]
\* The deeper tree goes under the other one, the reverse of union by height.
setunion_high(s, root1, root2) ==
  IF s[root1] < s[root2] THEN [s EXCEPT ![root1] = root2]
  ELSE [s EXCEPT ![root1] = IF s[root1] = s[root2] THEN @ - 1 ELSE @, ![root2] = root1]

-----------------------------------------------------------------------------
\* The binary heap is the sequence of its elements; elements[0] is mindata.
At(h, i) == IF i = 0 THEN mindata ELSE h[i]
RECURSIVE PercUp(_, _, _)
PercUp(h, i, x) == IF At(h, i \div 2) > x THEN PercUp([h EXCEPT ![i] = h[i \div 2]], i \div 2, x)
               ELSE [h EXCEPT ![i] = x]
insert(h, x) == IF Len(h) = capacity THEN h ELSE PercUp(Append(h, x), Len(h) + 1, x)

\* The mutant that always goes down to the left.
ChildLeft(h, i, size) == 2 * i
Child(h, i, size) == IF 2 * i # size /\ h[2 * i + 1] < h[2 * i] THEN 2 * i + 1 ELSE 2 * i
RECURSIVE PercDown(_, _, _, _)
PercDown(h, i, size, last) ==
  IF 2 * i <= size /\ last > h[Child(h, i, size)]
  THEN PercDown([h EXCEPT ![i] = h[Child(h, i, size)]], Child(h, i, size), size, last)
  ELSE [h EXCEPT ![i] = last]
deletemin(h) ==
  IF h = <<>> THEN [min |-> mindata, heap |-> h]
  ELSE [min |-> h[1], heap |-> SubSeq(PercDown(h, 1, Len(h) - 1, h[Len(h)]), 1, Len(h) - 1)]

-----------------------------------------------------------------------------
\* The leftist heap: Null or a node.
Null == [npl |-> -1]
RECURSIVE lmerge(_, _)
Swap(h) == IF h.left.npl < h.right.npl THEN [h EXCEPT !.left = h.right, !.right = h.left] ELSE h
merge1(h1, h2) ==
  IF h1.left = Null THEN [h1 EXCEPT !.left = h2]
  ELSE LET h == Swap([h1 EXCEPT !.right = lmerge(@, h2)]) IN [h EXCEPT !.npl = h.right.npl + 1]
lmerge(h1, h2) == CASE h1 = Null -> h2
                   [] h2 = Null -> h1
                   [] h1 # Null /\ h2 # Null ->
                        IF h1.element < h2.element THEN merge1(h1, h2) ELSE merge1(h2, h1)
insert1(h, x) == lmerge([element |-> x, npl |-> 0, left |-> Null, right |-> Null], h)
deletemin1(h) == IF h = Null THEN h ELSE lmerge(h.left, h.right)

-----------------------------------------------------------------------------
\* The binomial queue: the trees by rank, or NoTree.  A tree is its element and
\* its children, the last one linked first.
NoTree == [none |-> TRUE]
Trees(maxtrees) == [i \in 0..(maxtrees - 1) |-> NoTree]
combine_trees(t1, t2) ==
  IF t1.element > t2.element THEN [t2 EXCEPT !.children = <<t1>> \o @]
                             ELSE [t1 EXCEPT !.children = <<t2>> \o @]

\* One place of the sum with carry: what stays and what is carried.
Place(t1, t2, carry) ==
  LET there == SelectSeq(<<t1, t2, carry>>, LAMBDA t : t # NoTree)
  IN CASE Len(there) = 0 -> [stay |-> NoTree, carry |-> NoTree]
       [] Len(there) = 1 -> [stay |-> there[1], carry |-> NoTree]
       [] Len(there) = 2 -> [stay |-> NoTree, carry |-> combine_trees(there[1], there[2])]
       [] OTHER -> [stay |-> carry, carry |-> combine_trees(t1, t2)]

RECURSIVE Sum(_, _, _, _, _)
Sum(h1, h2, i, carry, size) ==
  IF 2^i > size THEN h1
  ELSE LET p == Place(h1[i], h2[i], carry) IN Sum([h1 EXCEPT ![i] = p.stay], h2, i + 1, p.carry, size)
bmerge(h1, h2) == [size |-> h1.size + h2.size, trees |-> Sum(h1.trees, h2.trees, 0, NoTree, h1.size + h2.size)]

bdeletemin(h) ==
  LET ranks == {i \in DOMAIN h.trees : h.trees[i] # NoTree}
      mintree == CHOOSE i \in ranks : \A j \in ranks : \/ h.trees[i].element < h.trees[j].element
                                                       \/ h.trees[i].element = h.trees[j].element /\ i <= j
      root == h.trees[mintree]
      deleted == [size |-> 2^mintree - 1,
                  trees |-> [j \in DOMAIN h.trees |-> IF j < mintree THEN root.children[mintree - j] ELSE NoTree]]
      rest == [size |-> h.size - 2^mintree, trees |-> [h.trees EXCEPT ![mintree] = NoTree]]
  IN [min |-> root.element, queue |-> bmerge(rest, deleted)]
=============================================================================
