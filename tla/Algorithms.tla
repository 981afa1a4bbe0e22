----------------------------- MODULE Algorithms -----------------------------
(***************************************************************************)
(* The algorithms and data structures of src/clrs and                      *)
(* src/data_structure_and_algorithm against their reference definitions:   *)
(* every array up to a bound, every sequence of calls on a structure up to *)
(* a bound.  kind says what a behaviour is about.                          *)
(***************************************************************************)
EXTENDS Integers, Sequences, FiniteSets

CONSTANTS MaxLen, MaxOps, MaxAbs, Elems   \* bounds
Values == (-MaxAbs)..MaxAbs

mindata == -1
capacity == 5   \* minpqsize and the smallest stack are 5 in the code
O == INSTANCE Operators

VARIABLES kind,   \* what is being run
          s,      \* the array or structure
          ref,    \* what it should hold: a set, sequence, partition or array
          ops,    \* calls so far
          out,    \* the last value returned and the value expected
          clean   \* no deletion so far called for a rotation
vars == <<kind, s, ref, ops, out, clean>>

Array == UNION {[0..n -> Values] : n \in 0..MaxLen}
Maxtrees == 3
Start == [avl |-> O!Nil, quad |-> O!initialize_table(3),
          list |-> <<>>, stack |-> O!StackEmpty(capacity), queue |-> O!QueueEmpty(capacity),
          disjset |-> O!initialize(4), heap |-> <<>>, leftist |-> O!Null,
          binomial |-> [size |-> 0, trees |-> O!Trees(Maxtrees)]]
Holds == [k \in DOMAIN Start |-> IF k \in {"avl", "quad"} THEN {}
                                ELSE IF k = "disjset" THEN {{i} : i \in 1..4} ELSE <<>>]

Init == /\ ops = 0 /\ out = <<0, 0>> /\ clean = TRUE
        /\ \/ kind = "array" /\ ref \in Array /\ s = ref
           \/ kind \in DOMAIN Start /\ s = Start[kind] /\ ref = Holds[kind]

Call(k) == kind = k /\ ops < MaxOps /\ ops' = ops + 1 /\ UNCHANGED kind
Quiet == UNCHANGED <<out, clean>>

-----------------------------------------------------------------------------
Sorters(a) ==
  {O!bubblesort(a), O!selectsort(a), O!insertsort(a), O!shellsort(a), O!mergesort(a),
   O!heapsort(a), O!my_qsort(a), O!DSinsertion_sort(a), O!DSshellsort(a), O!DSmergesort(a),
   O!DSheapsort(a), O!DSquicksort(a)}
Sort == /\ kind = "array" /\ kind' = "sorted" /\ s' \in Sorters(s)
        /\ UNCHANGED <<ref, ops, out, clean>>

AvlInsert == /\ Call("avl") /\ s # O!Crash
             /\ \E x \in Elems : s' = O!insert_node(s, x) /\ ref' = ref \cup {x}
             /\ Quiet
\* Deletion without rotations.  The code deletes so too where the result is
\* balanced; where it is not, it takes the double rotation when the single one is
\* meant, and that may go through a null pointer.
RECURSIVE Removed(_, _)
Removed(t, x) ==
  CASE O!find(t, x) = O!Nil -> t
    [] x < t.element -> O!Node(t.element, Removed(t.left, x), t.right)
    [] x > t.element -> O!Node(t.element, t.left, Removed(t.right, x))
    [] t.left # O!Nil /\ t.right # O!Nil ->
         LET min == O!findmin(t.right).element IN O!Node(min, t.left, Removed(t.right, min))
    [] OTHER -> IF t.left # O!Nil THEN t.left ELSE t.right
RECURSIVE Balanced(_)
Balanced(t) == t = O!Nil \/ /\ Balanced(t.left) /\ Balanced(t.right)
                            /\ O!height(t.left) - O!height(t.right) \in {-1, 0, 1}
AvlDelete == /\ Call("avl") /\ s # O!Crash
             /\ \E x \in Elems : /\ s' = O!delete_node(s, x) /\ ref' = ref \ {x}
                                 /\ clean' = (clean /\ Balanced(Removed(s, x)))
             /\ UNCHANGED out

\* The caller keeps the table half empty, as quadratic probing needs.
QuadInsert == /\ Call("quad") /\ 2 * (Cardinality(ref) + 1) <= O!tablesize(s)
              /\ \E x \in Elems : s' = O!QuadInsert(s, x) /\ ref' = ref \cup {x}
              /\ Quiet
QuadRehash == /\ Call("quad") /\ O!tablesize(s) = 3 /\ s' = O!rehash(s)
              /\ UNCHANGED <<ref, out, clean>>

RemoveFirst(x, q) ==
  IF \E i \in DOMAIN q : q[i] = x
  THEN LET i == CHOOSE i \in DOMAIN q : q[i] = x /\ \A j \in 1..(i - 1) : q[j] # x
       IN SubSeq(q, 1, i - 1) \o SubSeq(q, i + 1, Len(q))
  ELSE q
ListInsert == /\ Call("list")
              /\ \E x \in Elems, p \in 0..Len(s) :
                   /\ s' = O!ListInsert(x, s, p)
                   /\ ref' = SubSeq(ref, 1, p) \o <<x>> \o SubSeq(ref, p + 1, Len(ref))
              /\ Quiet
ListDelete == /\ Call("list")
              /\ \E x \in Elems : s' = O!ListDelete(x, s) /\ ref' = RemoveFirst(x, ref)
              /\ Quiet

Push == /\ Call("stack")
        /\ \E x \in Elems : s' = O!Push(x, s) /\ ref' = IF Len(ref) = capacity THEN ref ELSE Append(ref, x)
        /\ Quiet
TopAndPop == /\ Call("stack")
             /\ s' = O!Pop(s) /\ ref' = IF ref = <<>> THEN ref ELSE SubSeq(ref, 1, Len(ref) - 1)
             /\ out' = <<O!Top(s), IF ref = <<>> THEN 0 ELSE ref[Len(ref)]>>
             /\ UNCHANGED clean
Enqueue == /\ Call("queue")
           /\ \E x \in Elems : s' = O!Enqueue(x, s) /\ ref' = IF Len(ref) = capacity THEN ref ELSE Append(ref, x)
           /\ Quiet

\* Both unions take roots of different sets.
Union == /\ Call("disjset")
         /\ \E x, y \in 1..4 :
              LET r1 == O!SetFind(s, x) r2 == O!SetFind(s, y)
                  Of(z) == CHOOSE c \in ref : z \in c
              IN /\ r1 # r2 /\ s' \in {O!setunion(s, r1, r2), O!setunion_high(s, r1, r2)}
                 /\ ref' = (ref \ {Of(x), Of(y)}) \cup {Of(x) \cup Of(y)}
         /\ Quiet
Compress == /\ Call("disjset")
            /\ \E x \in 1..4 : s' = O!find_route_compress(s, x)
            /\ UNCHANGED <<ref, out, clean>>

\* A priority queue holds the numbers of ref; the least one leaves first.
Least(q) == CHOOSE x \in {q[i] : i \in DOMAIN q} : \A i \in DOMAIN q : x <= q[i]
HeapInsert ==
  /\ \E x \in Elems :
       /\ \/ Call("heap") /\ s' = O!insert(s, x)
          \/ Call("leftist") /\ s' = O!insert1(s, x)
          \/ Call("binomial") /\ s' = O!bmerge(s, [size |-> 1, trees |->
               [O!Trees(Maxtrees) EXCEPT ![0] = [element |-> x, children |-> <<>>]]])
       /\ ref' = IF kind = "heap" /\ Len(ref) = capacity THEN ref ELSE Append(ref, x)
  /\ Quiet
HeapDelete ==
  /\ kind \in {"heap", "leftist", "binomial"} /\ ref # <<>> /\ ref' = RemoveFirst(Least(ref), ref)
  /\ \/ Call("heap") /\ s' = O!deletemin(s).heap /\ out' = <<O!deletemin(s).min, Least(ref)>>
     \/ Call("leftist") /\ s' = O!deletemin1(s) /\ out' = <<s.element, Least(ref)>>
     \/ Call("binomial") /\ s' = O!bdeletemin(s).queue /\ out' = <<O!bdeletemin(s).min, Least(ref)>>
  /\ UNCHANGED clean

Next == \/ Sort \/ AvlInsert \/ AvlDelete \/ QuadInsert \/ QuadRehash
        \/ ListInsert \/ ListDelete \/ Push \/ TopAndPop \/ Enqueue \/ Union \/ Compress
        \/ HeapInsert \/ HeapDelete
Spec == Init /\ [][Next]_vars

-----------------------------------------------------------------------------
Ascending(a, n) == \A i, j \in 0..(n - 1) : i < j => a[i] <= a[j]

\* Each of the twelve sorts leaves a rearrangement of its input in ascending
\* order and the word behind the array as it was.
SortsRight ==
  kind = "sorted" =>
    LET n == O!Size(ref) IN
    /\ Ascending(s, n) /\ s[n] = ref[n]
    /\ \A v \in Values : Cardinality({i \in 0..n : s[i] = v}) = Cardinality({i \in 0..n : ref[i] = v})

Total(a, i, j) == LET f[k \in i..j] == IF k = i THEN a[i] ELSE f[k - 1] + a[k] IN f[j]

\* Inversions are counted as defined; the three maximum subarrays agree with the
\* largest sum, and the divided and the linear one also on where it is.
ExercisesRight ==
  kind = "array" =>
    LET n == O!Size(s) I == 0..(n - 1) IN
    /\ O!inverse_pairs(s) = Cardinality({p \in I \X I : p[1] < p[2] /\ s[p[1]] > s[p[2]]})
    /\ n > 0 =>
         LET sums == {Total(s, p[1], p[2]) : p \in {q \in I \X I : q[1] <= q[2]}}
             best == CHOOSE x \in sums : \A y \in sums : y <= x
             d == O!dmaxsubarray(s)
             l == O!lmaxsubarray(s)
         IN /\ {d.max, l.max, O!bmaxsubarray(s).max} = {best}
            /\ Total(s, d.left, d.right) = best /\ Total(s, l.left, l.right) = best

Listed(q) == {q[i] : i \in DOMAIN q}
\* As long as no deletion so far called for a rotation, an AVL tree holds exactly
\* what was put in and not deleted, in order and balanced, and no call went through
\* a null pointer.  A deletion that rotates may do both wrong (delete_node takes the
\* wrong rotation): of it is claimed only that the tree it returns, if it returns,
\* is in order and exact.
TreesRight ==
  kind = "avl" =>
    /\ clean => s # O!Crash /\ Balanced(s)
    /\ s # O!Crash =>
         LET q == O!inorder_avltree(s) IN
         /\ Listed(q) = ref /\ \A i \in 1..(Len(q) - 1) : q[i] < q[i + 1]
         /\ \A x \in Elems : O!find(s, x) # O!Nil <=> x \in ref

\* The hash table finds exactly the keys put in, through collisions and a rehash;
\* the list, the stack and the queue hold what they should in the right order;
\* find tells the sets of the partition apart.
TablesRight ==
  /\ kind = "quad" => \A x \in Elems : LET p == O!QuadFind(s, x) IN p \in DOMAIN s /\ (s[p] = x <=> x \in ref)
  /\ kind = "list" => s = ref
  /\ kind = "stack" => s.top = Len(ref) - 1 /\ \A i \in DOMAIN ref : s.array[i - 1] = ref[i]
  /\ kind = "queue" => s.size = Len(ref) /\ \A i \in DOMAIN ref : s.array[(s.front + i - 1) % capacity] = ref[i]
  /\ kind = "disjset" => \A x, y \in 1..4 : O!SetFind(s, x) = O!SetFind(s, y) <=> \E c \in ref : {x, y} \subseteq c
  /\ kind = "stack" => out[1] = out[2]

\* Whatever the order of insertions and removals, the least element leaves.
HeapsRight == kind \in {"heap", "leftist", "binomial"} => out[1] = out[2]
=============================================================================
