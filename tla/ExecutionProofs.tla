-------------------------- MODULE ExecutionProofs --------------------------
(***************************************************************************)
(* Proofs about the execution of a command, for all trees of sub-commands, *)
(* all failures and all answers of the error handlers.                     *)
(*                                                                         *)
(* The walk has passed a leaf when the leaf comes before at, or is below   *)
(* it and the call of at has returned.  What holds of a leaf depends on    *)
(* nothing but that: the lemmas about sequences say which leaves each move *)
(* of at passes, and the inductive invariant says what was done to those.  *)
(* The last part counts the nodes that are not passed, to show that every  *)
(* walk through a finite tree ends.                                        *)
(***************************************************************************)
EXTENDS Execution, SequenceTheorems, FiniteSetTheorems, TLAPS

-----------------------------------------------------------------------------
(* Nodes *)

\* A node is a sequence of positive numbers.
LEMMA NodeType ==
  ASSUME NEW n \in Nodes
  PROVE  /\ n \in Seq(Positive)
         /\ Len(n) \in Nat
         /\ \A i \in 1 .. Len(n) : n[i] \in Nat /\ n[i] >= 1
<1>1. n \in Seq(Positive)
  BY TreeAssumption
<1>2. \A i \in 1 .. Len(n) : n[i] \in Positive
  BY <1>1
<1> QED
  BY <1>1, <1>2 DEF Positive

\* The node above: all of n but its last index.
LEMMA FrontType ==
  ASSUME NEW n \in Nodes, n # Root
  PROVE  /\ Len(n) >= 1
         /\ Front(n) \in Nodes
         /\ Len(Front(n)) = Len(n) - 1
         /\ \A i \in 1 .. Len(n) - 1 : Front(n)[i] = n[i]
         /\ Last(n) = n[Len(n)]
         /\ Last(n) \in 1 .. Subs[Front(n)]
         /\ Subs[Front(n)] \in Nat
         /\ Front(n) \notin Leaves
<1>1. n \in Seq(Positive) /\ Len(n) \in Nat
  BY NodeType
<1>2. Len(n) >= 1
  BY <1>1 DEF Root
<1>3. Len(n) \in DOMAIN n
  BY <1>1, <1>2
<1>4. Front(n) \in Nodes /\ n[Len(n)] \in 1 .. Subs[Front(n)]
  BY <1>3, TreeAssumption DEF Front
<1>5. /\ Len(Front(n)) = Len(n) - 1
      /\ \A i \in 1 .. Len(n) - 1 : Front(n)[i] = n[i]
  <2> DEFINE k == Len(n) - 1
  <2>1. k \in Int /\ \A i \in 1 .. k : n[i] \in Positive
    BY <1>1
  <2> HIDE DEF k
  <2>2. /\ Len(SubSeq(n, 1, k)) = IF 1 <= k THEN k - 1 + 1 ELSE 0
        /\ \A i \in 1 .. k - 1 + 1 : SubSeq(n, 1, k)[i] = n[1 + i - 1]
    BY <2>1, SubSeqProperties
  <2>3. k >= 0 /\ k = Len(n) - 1
    BY <1>1, <1>2 DEF k
  <2>4. Len(SubSeq(n, 1, k)) = k
    <3>1. k - 1 + 1 = k
      BY <2>1
    <3>2. CASE 1 <= k
      BY <2>2, <3>1, <3>2
    <3>3. CASE ~(1 <= k)
      <4>1. k = 0
        BY <2>1, <2>3, <3>3
      <4>2. Len(SubSeq(n, 1, k)) = 0
        BY <2>2, <3>3
      <4> QED
        BY <4>1, <4>2
    <3> QED
      BY <3>2, <3>3
  <2>5. ASSUME NEW i \in 1 .. k PROVE SubSeq(n, 1, k)[i] = n[i]
    <3>1. i \in 1 .. k - 1 + 1 /\ 1 + i - 1 = i
      BY <2>1
    <3> QED
      BY <2>2, <3>1
  <2>6. Front(n) = SubSeq(n, 1, k)
    BY <2>3 DEF Front
  <2> QED
    BY <2>3, <2>4, <2>5, <2>6
<1>6. Subs[Front(n)] \in Nat
  BY <1>4, TreeAssumption
<1> QED
  BY <1>2, <1>4, <1>5, <1>6 DEF Last, Leaves

\* The node below.
LEMMA SubType ==
  ASSUME NEW n \in Nodes, NEW k \in 1 .. Subs[n]
  PROVE  /\ Append(n, k) \in Nodes
         /\ Append(n, k) # Root
         /\ Len(Append(n, k)) = Len(n) + 1
         /\ \A i \in 1 .. Len(n) : Append(n, k)[i] = n[i]
         /\ Append(n, k)[Len(n) + 1] = k
<1>1. n \in Seq(Positive) /\ k \in Positive
  BY NodeType, TreeAssumption DEF Positive
<1>2. Append(n, k) \in Nodes
  BY TreeAssumption
<1> QED
  BY <1>1, <1>2 DEF Root

\* What is below a node goes through one of its sub-commands.
LEMMA BelowType ==
  ASSUME NEW n \in Nodes, NEW m \in Nodes, Within(m, n), m # n
  PROVE  /\ Len(m) > Len(n)
         /\ m[Len(n) + 1] \in 1 .. Subs[n]
<1>1. /\ n \in Seq(Positive) /\ Len(n) \in Nat
      /\ m \in Seq(Positive) /\ Len(m) \in Nat
  BY NodeType
<1>2. Len(n) <= Len(m) /\ \A i \in 1 .. Len(n) : m[i] = n[i]
  BY DEF Within
<1>3. Len(m) # Len(n)
  BY <1>1, <1>2
<1>4. Len(m) > Len(n)
  BY <1>1, <1>2, <1>3
<1>5. Len(n) + 1 \in DOMAIN m
  BY <1>1, <1>4
<1>6. SubSeq(m, 1, Len(n)) = n
  BY <1>1, <1>2, <1>4
<1>7. m[Len(n) + 1] \in 1 .. Subs[SubSeq(m, 1, Len(n) + 1 - 1)]
  BY <1>5, TreeAssumption
<1>8. Len(n) + 1 - 1 = Len(n)
  BY <1>1
<1> QED
  BY <1>4, <1>6, <1>7, <1>8

\* Nothing is below a leaf.
LEMMA LeafAlone ==
  ASSUME NEW l \in Leaves, NEW m \in Nodes
  PROVE  /\ Within(m, l) <=> m = l
         /\ l \in Nodes
<1>1. l \in Nodes /\ Subs[l] = 0
  BY DEF Leaves
<1>2. ASSUME Within(m, l), m # l PROVE FALSE
  BY <1>1, <1>2, BelowType
<1>3. ASSUME m = l PROVE Within(m, l)
  BY <1>1, <1>3, NodeType DEF Within
<1> QED
  BY <1>1, <1>2, <1>3

\* A node is within itself, the command and whatever the node above is within.
LEMMA WithinUp ==
  ASSUME NEW n \in Nodes
  PROVE  /\ Within(n, n)
         /\ Within(n, Root)
         /\ \A a \in Nodes : Within(Root, a) => a = Root
         /\ n # Root => \A a \in Nodes : Within(n, a) <=> a = n \/ Within(Front(n), a)
<1>1. n \in Seq(Positive) /\ Len(n) \in Nat
  BY NodeType
<1>2. Within(n, n) /\ Within(n, Root)
  BY <1>1 DEF Within, Root
<1>3. ASSUME NEW a \in Nodes, Within(Root, a) PROVE a = Root
  <2>1. a \in Seq(Positive) /\ Len(a) <= 0 /\ Len(a) \in Nat
    BY <1>3, NodeType DEF Within, Root
  <2> QED
    BY <2>1 DEF Root
<1>4. ASSUME n # Root, NEW a \in Nodes
      PROVE  Within(n, a) <=> a = n \/ Within(Front(n), a)
  <2>1. /\ Len(n) >= 1
        /\ Front(n) \in Nodes
        /\ Len(Front(n)) = Len(n) - 1
        /\ \A i \in 1 .. Len(n) - 1 : Front(n)[i] = n[i]
    BY <1>4, FrontType
  <2>2. a \in Seq(Positive) /\ Len(a) \in Nat
    BY NodeType
  <2>3. ASSUME Within(n, a), a # n PROVE Within(Front(n), a)
    <3>1. Len(a) <= Len(n) /\ \A i \in 1 .. Len(a) : n[i] = a[i]
      BY <2>3 DEF Within
    <3>2. Len(a) # Len(n)
      BY <1>1, <2>2, <2>3, <3>1
    <3> QED
      BY <1>1, <2>1, <2>2, <3>1, <3>2 DEF Within
  <2>4. ASSUME Within(Front(n), a) PROVE Within(n, a)
    BY <1>1, <2>1, <2>2, <2>4 DEF Within
  <2> QED
    BY <1>2, <2>3, <2>4
<1> QED
  BY <1>2, <1>3, <1>4

\* The same for the node below.
LEMMA WithinSub ==
  ASSUME NEW n \in Nodes, NEW k \in 1 .. Subs[n], NEW a \in Nodes
  PROVE  Within(Append(n, k), a) <=> a = Append(n, k) \/ Within(n, a)
<1>1. Append(n, k) \in Nodes /\ Append(n, k) # Root
  BY SubType
<1>2. Front(Append(n, k)) = n
  <2> DEFINE m == Append(n, k)
  <2>1. /\ Len(m) = Len(n) + 1
        /\ \A i \in 1 .. Len(n) : m[i] = n[i]
    BY SubType
  <2>2. /\ Len(Front(m)) = Len(m) - 1
        /\ \A i \in 1 .. Len(m) - 1 : Front(m)[i] = m[i]
        /\ Front(m) \in Nodes
    BY <1>1, FrontType
  <2>3. n \in Seq(Positive) /\ Front(m) \in Seq(Positive)
    BY <2>2, NodeType
  <2> QED
    BY <2>1, <2>2, <2>3
<1>3. Within(Append(n, k), a) <=> a = Append(n, k) \/ Within(Front(Append(n, k)), a)
  BY <1>1, WithinUp
<1> QED
  BY <1>2, <1>3
-----------------------------------------------------------------------------
(* Where the walk has passed *)

\* the walk is through with the node m: it came before at, or is what returned
PassedBy(m, n) == Precedes(m, n) \/ Within(m, n)

Passed(l) == Precedes(l, at) \/ (Within(l, at) /\ returned # "nothing")

\* No node comes before itself.
LEMMA PrecedesIrreflexive ==
  ASSUME NEW n \in Nodes
  PROVE  ~Precedes(n, n)
BY NodeType DEF Precedes

\* Nothing comes before the command.
LEMMA NothingBeforeRoot ==
  ASSUME NEW n \in Nodes
  PROVE  ~Precedes(n, Root)
BY NodeType DEF Precedes, Root

\* What comes before the sub-command k of n: what comes before n, and what is
\* below n in a sub-command before k.
LEMMA PrecedesSub ==
  ASSUME NEW l \in Nodes, NEW n \in Nodes, NEW k \in 1 .. Subs[n]
  PROVE  Precedes(l, Append(n, k)) <=>
           \/ Precedes(l, n)
           \/ Within(l, n) /\ Len(l) > Len(n) /\ l[Len(n) + 1] < k
<1> DEFINE m == Append(n, k)
           d == Len(n) + 1
<1>1. /\ Len(l) \in Nat /\ Len(n) \in Nat
      /\ \A i \in 1 .. Len(l) : l[i] \in Nat
      /\ \A i \in 1 .. Len(n) : n[i] \in Nat
  BY NodeType
<1>2. /\ Len(m) = d
      /\ \A i \in 1 .. Len(n) : m[i] = n[i]
      /\ m[d] = k
  BY SubType
<1>3. k \in Nat
  BY TreeAssumption
<1> HIDE DEF m
<1>4. ASSUME Precedes(l, m)
      PROVE  Precedes(l, n) \/ (Within(l, n) /\ Len(l) > Len(n) /\ l[d] < k)
  <2>1. PICK i \in 1 .. Len(l) :
          i <= Len(m) /\ l[i] < m[i] /\ \A j \in 1 .. i - 1 : l[j] = m[j]
    BY <1>4 DEF Precedes
  <2>2. CASE i <= Len(n)
    <3>1. \A j \in 1 .. i - 1 : l[j] = n[j]
      BY <1>1, <1>2, <2>1, <2>2
    <3>2. l[i] < n[i]
      BY <1>1, <1>2, <2>1, <2>2
    <3> QED
      BY <2>1, <2>2, <3>1, <3>2 DEF Precedes
  <2>3. CASE i > Len(n)
    <3>1. i = d
      BY <1>1, <1>2, <2>1, <2>3
    <3>2. \A j \in 1 .. Len(n) : l[j] = n[j]
      BY <1>1, <1>2, <2>1, <3>1
    <3> QED
      BY <1>1, <1>2, <2>1, <3>1, <3>2 DEF Within
  <2> QED
    BY <1>1, <1>2, <2>1, <2>2, <2>3
<1>5. ASSUME Precedes(l, n) PROVE Precedes(l, m)
  <2>1. PICK i \in 1 .. Len(l) :
          i <= Len(n) /\ l[i] < n[i] /\ \A j \in 1 .. i - 1 : l[j] = n[j]
    BY <1>5 DEF Precedes
  <2>2. i <= Len(m) /\ l[i] < m[i] /\ \A j \in 1 .. i - 1 : l[j] = m[j]
    BY <1>1, <1>2, <2>1
  <2> QED
    BY <2>1, <2>2 DEF Precedes
<1>6. ASSUME Within(l, n), Len(l) > Len(n), l[d] < k PROVE Precedes(l, m)
  <2>1. d \in 1 .. Len(l) /\ d <= Len(m) /\ l[d] < m[d]
    BY <1>1, <1>2, <1>6
  <2>2. \A j \in 1 .. d - 1 : l[j] = m[j]
    BY <1>1, <1>2, <1>6 DEF Within
  <2> QED
    BY <2>1, <2>2 DEF Precedes
<1> QED
  BY <1>4, <1>5, <1>6 DEF m

\* What is below the sub-command k of n.
LEMMA BelowSub ==
  ASSUME NEW l \in Nodes, NEW n \in Nodes, NEW k \in 1 .. Subs[n]
  PROVE  Within(l, Append(n, k)) <=>
           Within(l, n) /\ Len(l) > Len(n) /\ l[Len(n) + 1] = k
<1> DEFINE m == Append(n, k)
           d == Len(n) + 1
<1>1. Len(l) \in Nat /\ Len(n) \in Nat
  BY NodeType
<1>2. /\ Len(m) = d
      /\ \A i \in 1 .. Len(n) : m[i] = n[i]
      /\ m[d] = k
  BY SubType
<1> HIDE DEF m
<1>3. ASSUME Within(l, m) PROVE Within(l, n) /\ Len(l) > Len(n) /\ l[d] = k
  <2>1. Len(m) <= Len(l) /\ \A i \in 1 .. Len(m) : l[i] = m[i]
    BY <1>3 DEF Within
  <2>2. Len(l) > Len(n) /\ l[d] = k
    BY <1>1, <1>2, <2>1
  <2>3. \A i \in 1 .. Len(n) : l[i] = n[i]
    BY <1>1, <1>2, <2>1
  <2> QED
    BY <1>1, <2>2, <2>3 DEF Within
<1>4. ASSUME Within(l, n), Len(l) > Len(n), l[d] = k PROVE Within(l, m)
  <2>1. Len(m) <= Len(l)
    BY <1>1, <1>2, <1>4
  <2>2. ASSUME NEW i \in 1 .. Len(m) PROVE l[i] = m[i]
    <3>1. CASE i = d
      BY <1>2, <1>4, <3>1
    <3>2. CASE i # d
      BY <1>1, <1>2, <1>4, <3>2 DEF Within
    <3> QED
      BY <3>1, <3>2
  <2> QED
    BY <2>1, <2>2 DEF Within
<1> QED
  BY <1>3, <1>4 DEF m

\* To call the first sub-command passes nothing.
LEMMA PassedFirst ==
  ASSUME NEW l \in Leaves, NEW n \in Nodes, n \notin Leaves
  PROVE  /\ 1 \in 1 .. Subs[n]
         /\ Precedes(l, Append(n, 1)) <=> Precedes(l, n)
<1>1. l \in Nodes /\ Subs[n] \in Nat /\ Subs[n] # 0
  BY TreeAssumption DEF Leaves
<1>2. 1 \in 1 .. Subs[n]
  BY <1>1
<1>3. ~(Len(l) > Len(n) /\ l[Len(n) + 1] < 1)
  <2>1. /\ Len(l) \in Nat /\ Len(n) \in Nat
        /\ \A i \in 1 .. Len(l) : l[i] >= 1 /\ l[i] \in Nat
    BY <1>1, NodeType
  <2> QED
    BY <2>1
<1> QED
  BY <1>1, <1>2, <1>3, PrecedesSub

\* To call any sub-command passes nothing outside.
LEMMA PassedAny ==
  ASSUME NEW l \in Leaves, NEW n \in Nodes, NEW k \in 1 .. Subs[n], ~Within(l, n)
  PROVE  Precedes(l, Append(n, k)) <=> Precedes(l, n)
BY PrecedesSub DEF Leaves

\* A node is the sub-command Last(n) of the node above.
LEMMA NodeIsSub ==
  ASSUME NEW n \in Nodes, n # Root
  PROVE  /\ Front(n) \in Nodes
         /\ Last(n) \in 1 .. Subs[Front(n)]
         /\ n = Append(Front(n), Last(n))
<1> DEFINE p == Front(n)
           m == Append(p, Last(n))
<1>1. /\ Len(n) >= 1 /\ p \in Nodes /\ Len(p) = Len(n) - 1
      /\ \A i \in 1 .. Len(n) - 1 : p[i] = n[i]
      /\ Last(n) = n[Len(n)] /\ Last(n) \in 1 .. Subs[p]
  BY FrontType
<1>2. /\ m \in Nodes /\ Len(m) = Len(p) + 1
      /\ \A i \in 1 .. Len(p) : m[i] = p[i]
      /\ m[Len(p) + 1] = Last(n)
  BY <1>1, SubType
<1>3. /\ n \in Seq(Positive) /\ m \in Seq(Positive)
      /\ Len(n) \in Nat /\ Len(p) \in Nat
  BY <1>1, <1>2, NodeType
<1> HIDE DEF p, m
<1>4. Len(m) = Len(n)
  BY <1>1, <1>2, <1>3
<1>5. ASSUME NEW i \in 1 .. Len(n) PROVE n[i] = m[i]
  <2>1. CASE i = Len(n)
    BY <1>1, <1>2, <1>3, <2>1
  <2>2. CASE i # Len(n)
    BY <1>1, <1>2, <1>3, <2>2
  <2> QED
    BY <2>1, <2>2
<1>6. n = m
  BY <1>3, <1>4, <1>5, SeqEqual
<1> QED
  BY <1>1, <1>6 DEF p, m

\* What comes before a node and what is below it, seen from the node above.
LEMMA SeenFromAbove ==
  ASSUME NEW l \in Nodes, NEW n \in Nodes, n # Root
  PROVE  /\ Precedes(l, n) <=>
              \/ Precedes(l, Front(n))
              \/ /\ Within(l, Front(n))
                 /\ Len(l) > Len(Front(n))
                 /\ l[Len(Front(n)) + 1] < Last(n)
         /\ Within(l, n) <=>
              /\ Within(l, Front(n))
              /\ Len(l) > Len(Front(n))
              /\ l[Len(Front(n)) + 1] = Last(n)
<1>1. /\ Front(n) \in Nodes
      /\ Last(n) \in 1 .. Subs[Front(n)]
      /\ n = Append(Front(n), Last(n))
  BY NodeIsSub
<1> DEFINE p == Front(n)
           k == Last(n)
<1> HIDE DEF p, k
<1>2. p \in Nodes /\ k \in 1 .. Subs[p] /\ n = Append(p, k)
  BY <1>1 DEF p, k
<1>3. /\ Precedes(l, Append(p, k)) <=>
           Precedes(l, p) \/ (Within(l, p) /\ Len(l) > Len(p) /\ l[Len(p) + 1] < k)
      /\ Within(l, Append(p, k)) <=>
           Within(l, p) /\ Len(l) > Len(p) /\ l[Len(p) + 1] = k
  BY <1>2, PrecedesSub, BelowSub
<1>4. /\ Precedes(l, n) <=>
           Precedes(l, p) \/ (Within(l, p) /\ Len(l) > Len(p) /\ l[Len(p) + 1] < k)
      /\ Within(l, n) <=>
           Within(l, p) /\ Len(l) > Len(p) /\ l[Len(p) + 1] = k
  BY <1>2, <1>3
<1> QED
  BY <1>4 DEF p, k

\* To call the next sub-command passes what is below the one that returned.
LEMMA PassedNext ==
  ASSUME NEW l \in Nodes, NEW n \in Nodes, n # Root, Last(n) < Subs[Front(n)]
  PROVE  /\ Last(n) + 1 \in 1 .. Subs[Front(n)]
         /\ Precedes(l, Append(Front(n), Last(n) + 1)) <=> PassedBy(l, n)
<1> DEFINE p == Front(n)
           k == Last(n)
<1>1. p \in Nodes /\ k \in 1 .. Subs[p] /\ n = Append(p, k)
  BY NodeIsSub
<1>2. Subs[p] \in Nat
  BY <1>1, TreeAssumption
<1>3. k + 1 \in 1 .. Subs[p]
  BY <1>1, <1>2
<1>4. Len(l) > Len(p) => l[Len(p) + 1] \in Nat
  BY <1>1, NodeType
<1>5. /\ Precedes(l, n) <=>
           Precedes(l, p) \/ (Within(l, p) /\ Len(l) > Len(p) /\ l[Len(p) + 1] < k)
      /\ Within(l, n) <=>
           Within(l, p) /\ Len(l) > Len(p) /\ l[Len(p) + 1] = k
  BY <1>1, SeenFromAbove
<1>7. Precedes(l, Append(p, k + 1)) <=>
        Precedes(l, p) \/ (Within(l, p) /\ Len(l) > Len(p) /\ l[Len(p) + 1] < k + 1)
  BY <1>1, <1>3, PrecedesSub
<1>6. k \in Nat
  BY <1>1, <1>2
<1> QED
  BY <1>3, <1>4, <1>5, <1>6, <1>7 DEF PassedBy

\* What the node above has passed when it returns: no less than the node; no
\* more, if that was the last; and outside neither more nor less.
LEMMA PassedUp ==
  ASSUME NEW l \in Leaves, NEW n \in Nodes, n # Root
  PROVE  /\ PassedBy(l, n) => PassedBy(l, Front(n))
         /\ Last(n) = Subs[Front(n)] => (PassedBy(l, Front(n)) <=> PassedBy(l, n))
         /\ ~Within(l, Front(n)) => (PassedBy(l, Front(n)) <=> PassedBy(l, n))
         /\ Last(n) = 1 /\ Within(l, Front(n)) => ~Precedes(l, n)
<1> DEFINE p == Front(n)
           k == Last(n)
<1>1. p \in Nodes /\ k \in 1 .. Subs[p] /\ n = Append(p, k) /\ l \in Nodes
  BY NodeIsSub DEF Leaves
<1>2. Subs[p] \in Nat /\ k \in Nat
  BY <1>1, TreeAssumption
<1>3. Len(l) > Len(p) => l[Len(p) + 1] \in Nat /\ l[Len(p) + 1] >= 1
  BY <1>1, NodeType
<1>4. /\ Precedes(l, n) <=>
           Precedes(l, p) \/ (Within(l, p) /\ Len(l) > Len(p) /\ l[Len(p) + 1] < k)
      /\ Within(l, n) <=>
           Within(l, p) /\ Len(l) > Len(p) /\ l[Len(p) + 1] = k
  BY <1>1, SeenFromAbove
<1>5. p \notin Leaves
  BY FrontType
<1>6. Within(l, p) => Len(l) > Len(p) /\ l[Len(p) + 1] \in 1 .. Subs[p]
  BY <1>1, <1>5, BelowType
<1>7. Within(l, p) => ~Precedes(l, p)
  <2> SUFFICES ASSUME Within(l, p), Precedes(l, p) PROVE FALSE
    OBVIOUS
  <2>1. PICK i \in 1 .. Len(l) :
          i <= Len(p) /\ l[i] < p[i] /\ \A j \in 1 .. i - 1 : l[j] = p[j]
    BY DEF Precedes
  <2>2. Len(l) \in Nat /\ Len(p) \in Nat /\ p[i] \in Nat
    BY <1>1, <2>1, NodeType
  <2> QED
    BY <2>1, <2>2 DEF Within
<1> QED
  BY <1>2, <1>3, <1>4, <1>6, <1>7 DEF PassedBy
-----------------------------------------------------------------------------
(* The inductive invariant *)

\* Between two walks no call is under way
AtRest == ~Walking /\ stage # "ended" => at = Root /\ returned = "nothing"

\* A leaf is done at most once, and what happened to it happened to it already
DoneOnce ==
  \A l \in Leaves :
    /\ effect[l] \in {before[l], before[l] + 1}
    /\ effect[l] # before[l] \/ l \in failed \/ l \in odd => Passed(l)
    /\ l \in failed => effect[l] = before[l]

\* A plain leaf that was passed is done
PlainDone ==
  \A l \in Leaves :
    Passed(l) /\ ~IsAcid(l) /\ l \notin failed /\ l \notin odd
      => effect[l] = before[l] + 1

\* In an ACID command under way all that was passed is done, but for what is
\* below the call that returns false: nothing of that is
AcidDone ==
  \A a \in AcidNodes : Within(at, a) =>
    \A l \in Leaves : Within(l, a) /\ Passed(l) =>
      IF returned = "false" /\ Within(l, at)
        THEN effect[l] = before[l]
        ELSE l \notin failed /\ (l \notin odd => effect[l] = before[l] + 1)

\* An ACID command that is not under way is done or left as it was
Left(a) == \A l \in Leaves : Within(l, a) => effect[l] = before[l]

Whole(a) ==
  \A l \in Leaves : Within(l, a) =>
    l \notin failed /\ (l \notin odd => effect[l] = before[l] + 1)

AcidWhole == \A a \in AcidNodes : ~Within(at, a) => Left(a) \/ Whole(a)

\* Only an ACID command returns false, and only after a failure
DoReturns == returned = "false" => IsAcid(at) /\ failed # {}

Doing ==
  stage = "doing" =>
    DoneOnce /\ PlainDone /\ AcidDone /\ AcidWhole /\ DoReturns

\* A leaf is undone at most once, when it is passed, and only if it is plain
UndoneOnce ==
  \A l \in Leaves :
    /\ effect[l] \in {before[l], before[l] - 1}
    /\ effect[l] # before[l] => Passed(l) /\ ~IsAcid(l)
    /\ Passed(l) /\ ~IsAcid(l) => effect[l] = before[l] - 1

\* Undoing fails for the ACID commands and for no others
UndoReturns ==
  /\ returned = "false" => IsAcid(at)
  /\ returned = "true" => ~IsAcid(at)

Undoing == stage = "undoing" => UndoneOnce /\ UndoReturns

ExecutionInv == TypeOK /\ AtRest /\ Doing /\ Undoing

\* Below an ACID command all is ACID.
LEMMA AcidBelow ==
  ASSUME NEW m \in Nodes, NEW n \in Nodes, Within(m, n), IsAcid(n)
  PROVE  IsAcid(m)
<1>1. PICK a \in AcidNodes : Within(n, a)
  BY DEF IsAcid
<1>2. a \in Nodes
  BY TreeAssumption
<1>3. Len(m) \in Nat /\ Len(n) \in Nat /\ Len(a) \in Nat
  BY <1>2, NodeType
<1>4. Within(m, a)
  BY <1>1, <1>3 DEF Within
<1> QED
  BY <1>4 DEF IsAcid

\* What is below a node does not come before it.
LEMMA BelowIsNotBefore ==
  ASSUME NEW l \in Nodes, NEW n \in Nodes, Within(l, n)
  PROVE  ~Precedes(l, n)
<1> SUFFICES ASSUME Precedes(l, n) PROVE FALSE
  OBVIOUS
<1>1. PICK i \in 1 .. Len(l) :
        i <= Len(n) /\ l[i] < n[i] /\ \A j \in 1 .. i - 1 : l[j] = n[j]
  BY DEF Precedes
<1>2. Len(l) \in Nat /\ Len(n) \in Nat /\ n[i] \in Nat
  BY <1>1, NodeType
<1> QED
  BY <1>1, <1>2 DEF Within

\* The type invariant is inductive.
LEMMA TypeInit == Init => TypeOK
<1> SUFFICES ASSUME Init PROVE TypeOK
  OBVIOUS
<1>1. effect \in [Leaves -> Int] /\ before \in [Leaves -> Int]
  BY DEF Init
<1>2. at \in Nodes /\ dos \in 0 .. MaxDos
  BY TreeAssumption DEF Init
<1> QED
  BY <1>1, <1>2 DEF Init, TypeOK

LEMMA TypeStep == TypeOK /\ [Next]_vars => TypeOK'
<1> SUFFICES ASSUME TypeOK, [Next]_vars PROVE TypeOK'
  OBVIOUS
<1> USE DEF TypeOK, walk, errors
<1>1. ASSUME DoStarts PROVE TypeOK'
  BY <1>1, TreeAssumption DEF DoStarts
<1>2. ASSUME UndoStarts PROVE TypeOK'
  BY <1>2 DEF UndoStarts
<1>3. ASSUME Walk PROVE TypeOK'
  <2>1. ASSUME DoFirst PROVE TypeOK'
    <3>1. 1 \in 1 .. Subs[at]
      BY <2>1, TreeAssumption DEF DoFirst, Leaves
    <3>2. Append(at, 1) \in Nodes
      BY <3>1, SubType
    <3> QED
      BY <2>1, <3>2 DEF DoFirst, Calls
  <2>2. ASSUME LeafDone PROVE TypeOK'
    <3>1. effect' \in [Leaves -> Int]
      BY <2>2 DEF LeafDone, AtLeaf
    <3> QED
      BY <2>2, <3>1 DEF LeafDone, AtLeaf, Returns
  <2>3. ASSUME LeafRetried PROVE TypeOK'
    BY <2>3 DEF LeafRetried, AtLeaf, errors
  <2>4. ASSUME LeafFails PROVE TypeOK'
    BY <2>4 DEF LeafFails, AtLeaf, Returns
  <2>5. ASSUME LeafThrows PROVE TypeOK'
    <3>1. effect' \in [Leaves -> Int]
      BY <2>5 DEF LeafThrows, AtLeaf
    <3> QED
      BY <2>5, <3>1 DEF LeafThrows, AtLeaf, Returns
  <2>6. ASSUME NextSub PROVE TypeOK'
    <3>1. at # Root /\ Last(at) < Subs[Front(at)]
      BY <2>6 DEF NextSub, GoesOn
    <3>2. Front(at) \in Nodes /\ Last(at) \in 1 .. Subs[Front(at)] /\ Subs[Front(at)] \in Nat
      BY <3>1, FrontType
    <3>3. Last(at) + 1 \in 1 .. Subs[Front(at)]
      BY <3>1, <3>2
    <3>4. Append(Front(at), Last(at) + 1) \in Nodes
      BY <3>2, <3>3, SubType
    <3> QED
      BY <2>6, <3>4 DEF NextSub, Calls
  <2>7. ASSUME at # Root, NEW what \in {"true", "false"}, Surfaces(what) PROVE TypeOK'
    BY <2>7, FrontType DEF Surfaces
  <2>8. ASSUME SubsDone \/ FirstSubFails \/ UndoAcidFails PROVE TypeOK'
    BY <2>7, <2>8 DEF SubsDone, GoesOn, FirstSubFails, AcidSubFails, UndoAcidFails
  <2>9. ASSUME LaterSubFails \/ DoEnds \/ UndoLeafThrows \/ UndoEnds PROVE TypeOK'
    BY <2>9 DEF LaterSubFails, DoEnds, UndoLeafThrows, UndoEnds
  <2>10. ASSUME UndoFirst PROVE TypeOK'
    <3>1. Subs[at] \in Nat /\ Subs[at] # 0
      BY <2>10, TreeAssumption DEF UndoFirst, Leaves
    <3>2. ASSUME NEW k \in {1, Subs[at]} PROVE Append(at, k) \in Nodes
      BY <3>1, SubType
    <3> QED
      BY <2>10, <3>2 DEF UndoFirst, Calls
  <2>11. ASSUME UndoLeaf \/ UndoAcidLeaf PROVE TypeOK'
    BY <2>11 DEF UndoLeaf, UndoAcidLeaf, AtLeaf, Returns
  <2> QED
    BY <1>3, <2>1, <2>2, <2>3, <2>4, <2>5, <2>6, <2>8, <2>9, <2>10, <2>11 DEF Walk
<1>4. ASSUME UNCHANGED vars PROVE TypeOK'
  BY <1>4 DEF vars
<1> QED
  BY <1>1, <1>2, <1>3, <1>4 DEF Next

\* Between two walks no call is under way.
LEMMA RestStep == AtRest /\ [Next]_vars => AtRest'
BY DEF AtRest, Walking, vars, walk, Next, Walk, DoStarts, UndoStarts, DoFirst, LeafDone,
       LeafRetried, LeafFails, LeafThrows, NextSub, SubsDone, FirstSubFails, AcidSubFails,
       LaterSubFails, DoEnds, UndoFirst, UndoLeaf, UndoLeafThrows, UndoAcidLeaf,
       UndoAcidFails, UndoEnds, GoesOn, Calls, Returns, Surfaces, AtLeaf

\* A call that begins has passed what was passed before.
LEMMA PassedWhenCalling ==
  ASSUME TypeOK, NEW sub \in Nodes, Calls(sub), NEW l \in Leaves,
         Precedes(l, sub) <=> Passed(l)
  PROVE  Passed(l)' <=> Passed(l)
BY DEF Calls, Passed

\* A call that returns has passed all below it.
LEMMA PassedWhenReturning ==
  ASSUME returned' # "nothing", NEW l \in Leaves
  PROVE  Passed(l)' <=> PassedBy(l, at')
BY DEF Passed, PassedBy

\* Of the leaf at hand it was not known before that it would be passed.
LEMMA PassedLeaf ==
  ASSUME at \in Leaves, returned = "nothing", at' = at, returned' # "nothing"
  PROVE  /\ ~Passed(at)
         /\ \A l \in Leaves : Passed(l)' <=> Passed(l) \/ l = at
<1>1. at \in Nodes
  BY DEF Leaves
<1>2. ~Precedes(at, at)
  BY <1>1, PrecedesIrreflexive
<1>3. \A l \in Leaves : Within(l, at) <=> l = at
  BY LeafAlone DEF Leaves
<1> QED
  BY <1>2, <1>3 DEF Passed

\* Where a loop goes on, what is passed stays the same.
LEMMA PassedNextSub ==
  ASSUME TypeOK, NextSub, NEW l \in Leaves
  PROVE  Passed(l)' <=> Passed(l)
<1>1. at \in Nodes /\ at # Root /\ Last(at) < Subs[Front(at)]
  BY DEF NextSub, GoesOn, TypeOK
<1> DEFINE sub == Append(Front(at), Last(at) + 1)
<1>2. Front(at) \in Nodes
  BY <1>1, NodeIsSub
<1>3. /\ sub \in Nodes
      /\ Precedes(l, sub) <=> PassedBy(l, at)
  BY <1>1, <1>2, PassedNext, SubType DEF Leaves
<1>4. PassedBy(l, at) <=> Passed(l)
  BY DEF NextSub, GoesOn, Passed, PassedBy
<1>5. Calls(sub)
  BY DEF NextSub
<1> HIDE DEF sub
<1> QED
  BY <1>3, <1>4, <1>5, PassedWhenCalling

LEMMA PassedSubsDone ==
  ASSUME TypeOK, SubsDone, NEW l \in Leaves
  PROVE  Passed(l)' <=> Passed(l)
<1>1. at \in Nodes /\ at # Root /\ Last(at) = Subs[Front(at)] /\ returned # "nothing"
  BY DEF SubsDone, GoesOn, TypeOK
<1>2. PassedBy(l, Front(at)) <=> PassedBy(l, at)
  BY <1>1, PassedUp
<1>3. at' = Front(at) /\ returned' # "nothing"
  BY DEF SubsDone, Surfaces
<1> QED
  BY <1>1, <1>2, <1>3 DEF Passed, PassedBy

LEMMA PassedDoFirst ==
  ASSUME TypeOK, DoFirst, NEW l \in Leaves
  PROVE  Passed(l)' <=> Passed(l)
<1>1. at \in Nodes /\ at \notin Leaves /\ returned = "nothing"
  BY DEF DoFirst, TypeOK
<1>2. Precedes(l, Append(at, 1)) <=> Precedes(l, at)
  BY <1>1, PassedFirst
<1>3. at' = Append(at, 1) /\ returned' = "nothing"
  BY DEF DoFirst, Calls
<1> QED
  BY <1>1, <1>2, <1>3 DEF Passed

-----------------------------------------------------------------------------
(* Doing *)

DoingInv == DoneOnce /\ PlainDone /\ AcidDone /\ AcidWhole /\ DoReturns

\* A Do starts with nothing passed.
LEMMA DoingStarts == TypeOK /\ AtRest /\ DoStarts => DoingInv'
<1> SUFFICES ASSUME TypeOK, AtRest, DoStarts PROVE DoingInv'
  OBVIOUS
<1>1. /\ at' = Root /\ returned' = "nothing"
      /\ effect' = before' /\ failed' = {} /\ odd' = {}
      /\ effect' \in [Leaves -> Int]
  BY DEF DoStarts, AtRest, Walking, walk, TypeOK
<1>2. \A l \in Leaves : ~Passed(l)'
  BY <1>1, NothingBeforeRoot DEF Passed, Leaves
<1>3. \A a \in AcidNodes : Left(a)'
  BY <1>1 DEF Left
<1>4. \A l \in Leaves : effect'[l] \in Int
  BY <1>1
<1> QED
  BY <1>1, <1>2, <1>3, <1>4 DEF DoingInv, DoneOnce, PlainDone, AcidDone, AcidWhole, DoReturns

Unmoved == UNCHANGED <<effect, before, failed, odd>>

\* What the leaves' own invariants need where no leaf is executed.
LEMMA LeavesUnmoved ==
  ASSUME Unmoved, \A l \in Leaves : Passed(l)' <=> Passed(l)
  PROVE  /\ DoneOnce => DoneOnce'
         /\ PlainDone => PlainDone'
BY DEF Unmoved, DoneOnce, PlainDone

\* An ACID command that returned is done or left as it was.
LEMMA AcidReturned ==
  ASSUME TypeOK, AcidDone, AcidWhole, returned # "nothing", at # Root,
         NEW a \in AcidNodes, ~Within(Front(at), a)
  PROVE  Left(a) \/ Whole(a)
<1>1. at \in Nodes /\ a \in Nodes
  BY TreeAssumption DEF TypeOK
<1>2. CASE ~Within(at, a)
  BY <1>2 DEF AcidWhole
<1>3. CASE Within(at, a)
  <2>1. a = at
    BY <1>1, <1>3, WithinUp
  <2>2. \A l \in Leaves : Within(l, a) => Within(l, at) /\ Passed(l)
    BY <2>1 DEF Passed
  <2>3. CASE returned = "false"
    BY <1>3, <2>2, <2>3 DEF AcidDone, Left
  <2>4. CASE returned # "false"
    BY <1>3, <2>2, <2>4 DEF AcidDone, Whole
  <2> QED
    BY <2>3, <2>4
<1> QED
  BY <1>2, <1>3

\* Nothing that is below a call that begins is passed.
LEMMA NothingPassedBelow ==
  ASSUME NEW l \in Leaves, at' \in Nodes, returned' = "nothing", Within(l, at')
  PROVE  ~Passed(l)'
<1>1. l \in Nodes
  BY DEF Leaves
<1> QED
  BY <1>1, BelowIsNotBefore DEF Passed

LEMMA DoingDoFirst == TypeOK /\ DoingInv /\ DoFirst => DoingInv'
<1> SUFFICES ASSUME TypeOK, DoingInv, DoFirst PROVE DoingInv'
  OBVIOUS
<1>1. \A l \in Leaves : Passed(l)' <=> Passed(l)
  BY PassedDoFirst
<1>2. /\ at' = Append(at, 1) /\ returned = "nothing" /\ returned' = "nothing"
      /\ at \in Nodes /\ at \notin Leaves
  BY DEF DoFirst, Calls, TypeOK
<1>3. Unmoved
  BY DEF DoFirst, Calls, Unmoved, errors
<1>4. 1 \in 1 .. Subs[at]
  BY <1>2, TreeAssumption DEF Leaves
<1>5. at' \in Nodes
  BY <1>2, <1>4, SubType
<1>6. \A a \in AcidNodes : Within(at', a) <=> a = at' \/ Within(at, a)
  BY <1>2, <1>4, WithinSub, TreeAssumption
<1>7. AcidDone'
  <2> SUFFICES ASSUME NEW a \in AcidNodes, Within(at', a),
                      NEW l \in Leaves, Within(l, a), Passed(l)'
               PROVE  l \notin failed /\ (l \notin odd => effect[l] = before[l] + 1)
    BY <1>2, <1>3 DEF AcidDone, Unmoved
  <2>1. a # at'
    BY <1>2, <1>5, NothingPassedBelow
  <2>2. Within(at, a)
    BY <1>6, <2>1
  <2> QED
    BY <1>1, <1>2, <2>2 DEF DoingInv, AcidDone
<1>8. AcidWhole'
  BY <1>3, <1>6 DEF DoingInv, AcidWhole, Left, Whole, Unmoved
<1> QED
  BY <1>1, <1>2, <1>3, <1>7, <1>8, LeavesUnmoved DEF DoingInv, DoReturns

\* Where a loop goes on, the ACID command it belongs to has not failed.
LEMMA DoingNextSub == TypeOK /\ DoingInv /\ NextSub => DoingInv'
<1> SUFFICES ASSUME TypeOK, DoingInv, NextSub PROVE DoingInv'
  OBVIOUS
<1>1. \A l \in Leaves : Passed(l)' <=> Passed(l)
  BY PassedNextSub
<1>2. /\ at' = Append(Front(at), Last(at) + 1)
      /\ returned # "nothing" /\ returned' = "nothing"
      /\ at \in Nodes /\ at # Root /\ Last(at) < Subs[Front(at)]
      /\ IsAcid(Front(at)) => returned = "true"
  BY DEF NextSub, GoesOn, Calls, TypeOK
<1>3. Unmoved
  BY DEF NextSub, Calls, Unmoved, errors
<1>4. Front(at) \in Nodes /\ Last(at) + 1 \in 1 .. Subs[Front(at)]
  BY <1>2, FrontType
<1>5. at' \in Nodes
  BY <1>2, <1>4, SubType
<1>6. \A a \in AcidNodes : Within(at', a) <=> a = at' \/ Within(Front(at), a)
  BY <1>2, <1>4, WithinSub, TreeAssumption
<1>7. AcidDone'
  <2> SUFFICES ASSUME NEW a \in AcidNodes, Within(at', a),
                      NEW l \in Leaves, Within(l, a), Passed(l)'
               PROVE  l \notin failed /\ (l \notin odd => effect[l] = before[l] + 1)
    BY <1>2, <1>3 DEF AcidDone, Unmoved
  <2>1. a # at'
    BY <1>2, <1>5, NothingPassedBelow
  <2>2. Within(Front(at), a)
    BY <1>6, <2>1
  <2>3. returned = "true"
    BY <1>2, <2>2 DEF IsAcid
  <2>4. Within(at, a)
    BY <1>2, <2>2, WithinUp, TreeAssumption
  <2> QED
    BY <1>1, <2>3, <2>4 DEF DoingInv, AcidDone
<1>8. AcidWhole'
  <2> SUFFICES ASSUME NEW a \in AcidNodes, ~Within(at', a) PROVE Left(a) \/ Whole(a)
    BY <1>3 DEF AcidWhole, Left, Whole, Unmoved
  <2> QED
    BY <1>2, <1>6, AcidReturned DEF DoingInv
<1> QED
  BY <1>1, <1>2, <1>3, <1>7, <1>8, LeavesUnmoved DEF DoingInv, DoReturns

LEMMA DoingSubsDone == TypeOK /\ DoingInv /\ SubsDone => DoingInv'
<1> SUFFICES ASSUME TypeOK, DoingInv, SubsDone PROVE DoingInv'
  OBVIOUS
<1>1. \A l \in Leaves : Passed(l)' <=> Passed(l)
  BY PassedSubsDone
<1>2. /\ at' = Front(at) /\ returned # "nothing" /\ returned' = "true"
      /\ at \in Nodes /\ at # Root
      /\ IsAcid(Front(at)) => returned = "true"
  BY DEF SubsDone, GoesOn, Surfaces, TypeOK
<1>3. Unmoved
  BY DEF SubsDone, Surfaces, Unmoved, errors
<1>4. AcidDone'
  <2> SUFFICES ASSUME NEW a \in AcidNodes, Within(at', a),
                      NEW l \in Leaves, Within(l, a), Passed(l)'
               PROVE  l \notin failed /\ (l \notin odd => effect[l] = before[l] + 1)
    BY <1>2, <1>3 DEF AcidDone, Unmoved
  <2>1. returned = "true"
    BY <1>2 DEF IsAcid
  <2>2. Within(at, a)
    BY <1>2, WithinUp, TreeAssumption
  <2> QED
    BY <1>1, <2>1, <2>2 DEF DoingInv, AcidDone
<1>5. AcidWhole'
  <2> SUFFICES ASSUME NEW a \in AcidNodes, ~Within(at', a) PROVE Left(a) \/ Whole(a)
    BY <1>3 DEF AcidWhole, Left, Whole, Unmoved
  <2> QED
    BY <1>2, AcidReturned DEF DoingInv
<1> QED
  BY <1>1, <1>2, <1>3, <1>4, <1>5, LeavesUnmoved DEF DoingInv, DoReturns

\* The first part of an ACID command failed: all of the command is as it was.
LEMMA DoingFirstSubFails == TypeOK /\ DoingInv /\ FirstSubFails => DoingInv'
<1> SUFFICES ASSUME TypeOK, DoingInv, FirstSubFails PROVE DoingInv'
  OBVIOUS
<1>1. /\ at' = Front(at) /\ returned = "false" /\ returned' = "false"
      /\ at \in Nodes /\ at # Root /\ Front(at) \in Nodes
      /\ IsAcid(Front(at)) /\ Last(at) = 1
  BY FrontType DEF FirstSubFails, AcidSubFails, Surfaces, TypeOK
<1>2. Unmoved
  BY DEF FirstSubFails, Surfaces, Unmoved, errors
<1>3. ASSUME NEW l \in Leaves
      PROVE  /\ Passed(l) => Passed(l)'
             /\ ~Within(l, Front(at)) => (Passed(l)' <=> Passed(l))
             /\ Within(l, Front(at)) => ~Precedes(l, at)
  <2>1. Passed(l)' <=> PassedBy(l, Front(at))
    BY <1>1, PassedWhenReturning
  <2>2. Passed(l) <=> PassedBy(l, at)
    BY <1>1 DEF Passed, PassedBy
  <2> QED
    BY <1>1, <2>1, <2>2, PassedUp
<1>4. DoneOnce'
  BY <1>2, <1>3 DEF DoingInv, DoneOnce, Unmoved
<1>5. PlainDone'
  <2>1. ASSUME NEW l \in Leaves, ~IsAcid(l) PROVE ~Within(l, Front(at))
    BY <1>1, <2>1, AcidBelow DEF Leaves
  <2> QED
    BY <1>2, <1>3, <2>1 DEF DoingInv, PlainDone, Unmoved
<1>6. AcidDone'
  <2> SUFFICES ASSUME NEW a \in AcidNodes, Within(Front(at), a),
                      NEW l \in Leaves, Within(l, a), Passed(l)'
               PROVE  IF Within(l, Front(at))
                        THEN effect[l] = before[l]
                        ELSE l \notin failed /\ (l \notin odd => effect[l] = before[l] + 1)
    BY <1>1, <1>2 DEF AcidDone, Unmoved
  <2>1. Within(at, a)
    BY <1>1, WithinUp, TreeAssumption
  <2>2. l \in Nodes /\ (Within(l, at) => Within(l, Front(at)))
    BY <1>1, SeenFromAbove DEF Leaves
  <2>3. CASE Within(l, at)
    <3>1. Passed(l)
      BY <1>1, <2>3 DEF Passed
    <3> QED
      BY <1>1, <2>1, <2>2, <2>3, <3>1 DEF DoingInv, AcidDone
  <2>4. CASE Within(l, Front(at)) /\ ~Within(l, at)
    <3>1. ~Passed(l)
      BY <1>3, <2>4 DEF Passed
    <3> QED
      BY <2>4, <3>1 DEF DoingInv, DoneOnce
  <2>5. CASE ~Within(l, Front(at))
    <3>1. Passed(l) /\ ~Within(l, at)
      BY <1>3, <2>2, <2>5
    <3> QED
      BY <2>1, <2>5, <3>1 DEF DoingInv, AcidDone
  <2> QED
    BY <2>3, <2>4, <2>5
<1>7. AcidWhole'
  <2> SUFFICES ASSUME NEW a \in AcidNodes, ~Within(at', a) PROVE Left(a) \/ Whole(a)
    BY <1>2 DEF AcidWhole, Left, Whole, Unmoved
  <2> QED
    BY <1>1, AcidReturned DEF DoingInv
<1>8. DoReturns'
  BY <1>1, <1>2 DEF DoingInv, DoReturns, Unmoved
<1> QED
  BY <1>4, <1>5, <1>6, <1>7, <1>8 DEF DoingInv

\* DoDo of a leaf, whatever happens in it.
LEMMA DoingLeaf ==
  ASSUME TypeOK, DoingInv, at \in Leaves, returned = "nothing", returned' # "nothing",
         UNCHANGED <<at, before>>,
         \A l \in Leaves : l # at => /\ effect'[l] = effect[l]
                                     /\ l \in failed' <=> l \in failed
                                     /\ l \in odd' <=> l \in odd,
         effect'[at] \in {before[at], before[at] + 1},
         at \in failed' => effect'[at] = before[at] /\ (IsAcid(at) => returned' = "false"),
         at \notin failed' /\ at \notin odd' => effect'[at] = before[at] + 1,
         returned' = "false" => at \in failed' /\ IsAcid(at)
  PROVE  DoingInv'
<1>1. \A l \in Leaves : Passed(l)' <=> Passed(l) \/ l = at
  BY PassedLeaf
<1>2. at \in Nodes /\ \A l \in Leaves : Within(l, at) <=> l = at
  BY LeafAlone DEF TypeOK
<1>3. DoneOnce'
  BY <1>1 DEF DoingInv, DoneOnce
<1>4. PlainDone'
  BY <1>1 DEF DoingInv, PlainDone
<1>5. AcidDone'
  <2> SUFFICES ASSUME NEW a \in AcidNodes, Within(at, a),
                      NEW l \in Leaves, Within(l, a), Passed(l)'
               PROVE  IF returned' = "false" /\ l = at
                        THEN effect'[l] = before[l]
                        ELSE l \notin failed' /\ (l \notin odd' => effect'[l] = before[l] + 1)
    BY <1>2 DEF AcidDone
  <2>1. CASE l = at
    <3>1. IsAcid(at)
      BY DEF IsAcid
    <3> QED
      BY <2>1, <3>1
  <2>2. CASE l # at
    <3>1. l \notin failed /\ (l \notin odd => effect[l] = before[l] + 1)
      BY <1>1, <2>2 DEF DoingInv, AcidDone
    <3> QED
      BY <2>2, <3>1
  <2> QED
    BY <2>1, <2>2
<1>6. AcidWhole'
  <2> SUFFICES ASSUME NEW a \in AcidNodes, ~Within(at, a) PROVE Left(a)' \/ Whole(a)'
    BY DEF AcidWhole
  <2>1. Left(a) \/ Whole(a)
    BY DEF DoingInv, AcidWhole
  <2>2. \A l \in Leaves : Within(l, a) => l # at
    OBVIOUS
  <2> QED
    BY <2>1, <2>2 DEF Left, Whole
<1>7. DoReturns'
  BY DEF DoReturns
<1> QED
  BY <1>3, <1>4, <1>5, <1>6, <1>7 DEF DoingInv

\* The leaf at hand is as it was before the Do.
LEMMA LeafUntouched ==
  ASSUME DoingInv, at \in Leaves, returned = "nothing"
  PROVE  effect[at] = before[at] /\ at \notin failed /\ at \notin odd
<1>1. at \in Nodes
  BY DEF Leaves
<1>2. ~Passed(at)
  BY <1>1, PrecedesIrreflexive DEF Passed
<1> QED
  BY <1>2 DEF DoingInv, DoneOnce

LEMMA DoingLeafDone == TypeOK /\ DoingInv /\ LeafDone => DoingInv'
<1> SUFFICES ASSUME TypeOK, DoingInv, LeafDone PROVE DoingInv'
  OBVIOUS
<1>1. /\ at \in Leaves /\ returned = "nothing" /\ returned' = "true"
      /\ UNCHANGED <<at, before, failed, odd>>
      /\ effect' = [effect EXCEPT ![at] = @ + 1]
  BY DEF LeafDone, AtLeaf, Returns, errors
<1>2. /\ effect'[at] = effect[at] + 1
      /\ \A l \in Leaves : l # at => effect'[l] = effect[l]
  BY <1>1 DEF TypeOK
<1>3. effect[at] = before[at] /\ at \notin failed /\ at \notin odd
  BY <1>1, LeafUntouched
<1> QED
  BY <1>1, <1>2, <1>3, DoingLeaf

LEMMA DoingLeafFails ==
  ASSUME TypeOK, DoingInv, LeafFails
  PROVE  DoingInv'
<1>1. /\ at \in Leaves /\ returned = "nothing"
      /\ returned' = IF IsAcid(at) THEN "false" ELSE "true"
      /\ UNCHANGED <<at, before, effect, odd>>
      /\ failed' = failed \union {at}
  BY DEF LeafFails, AtLeaf, Returns
<1>2. effect[at] = before[at] /\ at \notin failed /\ at \notin odd
  BY <1>1, LeafUntouched
<1> QED
  BY <1>1, <1>2, DoingLeaf

LEMMA DoingLeafThrows == TypeOK /\ DoingInv /\ LeafThrows => DoingInv'
<1> SUFFICES ASSUME TypeOK, DoingInv, LeafThrows PROVE DoingInv'
  OBVIOUS
<1>1. PICK more \in {0, 1} : effect' = [effect EXCEPT ![at] = @ + more]
  BY DEF LeafThrows
<1>2. /\ at \in Leaves /\ returned = "nothing" /\ returned' = "true"
      /\ UNCHANGED <<at, before, failed>>
      /\ odd' = odd \union {at}
  BY DEF LeafThrows, AtLeaf, Returns
<1>3. /\ effect'[at] = effect[at] + more
      /\ \A l \in Leaves : l # at => effect'[l] = effect[l]
  BY <1>1, <1>2 DEF TypeOK
<1>4. effect[at] = before[at] /\ at \notin failed /\ at \notin odd
  BY <1>2, LeafUntouched
<1>5. before[at] \in Int
  BY <1>2 DEF TypeOK
<1>6. effect'[at] \in {before[at], before[at] + 1}
  BY <1>3, <1>4, <1>5
<1> QED
  BY <1>2, <1>3, <1>4, <1>6, DoingLeaf

-----------------------------------------------------------------------------
(* Undoing *)

UndoingInv == UndoneOnce /\ UndoReturns

\* An Undo starts with nothing passed.
LEMMA UndoingStarts == TypeOK /\ AtRest /\ UndoStarts => UndoingInv'
<1> SUFFICES ASSUME TypeOK, AtRest, UndoStarts PROVE UndoingInv'
  OBVIOUS
<1>1. /\ at' = Root /\ returned' = "nothing"
      /\ effect' = before' /\ effect' \in [Leaves -> Int]
  BY DEF UndoStarts, AtRest, Walking, walk, TypeOK
<1>2. \A l \in Leaves : ~Passed(l)'
  BY <1>1, NothingBeforeRoot DEF Passed, Leaves
<1>3. \A l \in Leaves : effect'[l] \in Int
  BY <1>1
<1> QED
  BY <1>1, <1>2, <1>3 DEF UndoingInv, UndoneOnce, UndoReturns

\* What the leaves' invariant needs where no leaf is undone.
LEMMA UndoneUnmoved ==
  ASSUME UndoneOnce, UNCHANGED <<effect, before>>,
         \A l \in Leaves : ~IsAcid(l) => (Passed(l)' <=> Passed(l))
  PROVE  UndoneOnce'
BY DEF UndoneOnce

LEMMA UndoingFirst == TypeOK /\ UndoingInv /\ UndoFirst => UndoingInv'
<1> SUFFICES ASSUME TypeOK, UndoingInv, UndoFirst PROVE UndoingInv'
  OBVIOUS
<1> DEFINE sub == Append(at, IF IsAcid(at) THEN Subs[at] ELSE 1)
<1>1. /\ Calls(sub)
      /\ at \in Nodes /\ at \notin Leaves /\ returned = "nothing"
  BY DEF UndoFirst, TypeOK
<1>2. Subs[at] \in 1 .. Subs[at] /\ 1 \in 1 .. Subs[at]
  <2>1. Subs[at] \in Nat /\ Subs[at] # 0
    BY <1>1, TreeAssumption DEF Leaves
  <2> QED
    BY <2>1
<1>3. ASSUME NEW l \in Leaves, ~IsAcid(l)
      PROVE  Precedes(l, sub) <=> Passed(l)
  <2>1. Passed(l) <=> Precedes(l, at)
    BY <1>1 DEF Passed
  <2>2. CASE IsAcid(at)
    <3>1. ~Within(l, at)
      BY <1>1, <1>3, <2>2, AcidBelow DEF Leaves
    <3>2. Precedes(l, Append(at, Subs[at])) <=> Precedes(l, at)
      BY <1>1, <1>2, <3>1, PassedAny
    <3> QED
      BY <2>1, <2>2, <3>2
  <2>3. CASE ~IsAcid(at)
    <3>1. Precedes(l, Append(at, 1)) <=> Precedes(l, at)
      BY <1>1, PassedFirst
    <3> QED
      BY <2>1, <2>3, <3>1
  <2> QED
    BY <2>2, <2>3
<1>4. sub \in Nodes
  BY <1>1, <1>2, SubType
<1> HIDE DEF sub
<1>5. \A l \in Leaves : ~IsAcid(l) => (Passed(l)' <=> Passed(l))
  BY <1>1, <1>3, <1>4, PassedWhenCalling
<1>6. UndoneOnce'
  BY <1>1, <1>5, UndoneUnmoved DEF UndoingInv, Calls
<1>7. UndoReturns'
  BY <1>1 DEF UndoReturns, Calls
<1> QED
  BY <1>6, <1>7 DEF UndoingInv

LEMMA UndoingNextSub == TypeOK /\ UndoingInv /\ NextSub => UndoingInv'
<1> SUFFICES ASSUME TypeOK, UndoingInv, NextSub PROVE UndoingInv'
  OBVIOUS
<1>1. UndoneOnce'
  BY PassedNextSub, UndoneUnmoved DEF UndoingInv, NextSub, Calls
<1>2. UndoReturns'
  BY DEF UndoReturns, NextSub, Calls
<1> QED
  BY <1>1, <1>2 DEF UndoingInv

\* A loop that goes on to its end is a plain one.
LEMMA UndoingSubsDone == TypeOK /\ UndoingInv /\ SubsDone => UndoingInv'
<1> SUFFICES ASSUME TypeOK, UndoingInv, SubsDone PROVE UndoingInv'
  OBVIOUS
<1>1. UndoneOnce'
  BY PassedSubsDone, UndoneUnmoved DEF UndoingInv, SubsDone, Surfaces
<1>2. /\ at \in Nodes /\ at # Root /\ at' = Front(at) /\ returned' = "true"
      /\ IsAcid(Front(at)) => returned = "true"
  BY DEF SubsDone, GoesOn, Surfaces, TypeOK
<1>3. ~IsAcid(Front(at))
  <2> SUFFICES ASSUME IsAcid(Front(at)) PROVE FALSE
    OBVIOUS
  <2>1. Front(at) \in Nodes /\ Within(at, Front(at))
    BY <1>2, FrontType, WithinUp
  <2>2. IsAcid(at)
    BY <1>2, <2>1, AcidBelow
  <2> QED
    BY <1>2, <2>2 DEF UndoingInv, UndoReturns
<1> QED
  BY <1>1, <1>2, <1>3 DEF UndoingInv, UndoReturns

LEMMA UndoingAcidFails == TypeOK /\ UndoingInv /\ UndoAcidFails => UndoingInv'
<1> SUFFICES ASSUME TypeOK, UndoingInv, UndoAcidFails PROVE UndoingInv'
  OBVIOUS
<1>1. /\ at \in Nodes /\ at # Root /\ Front(at) \in Nodes
      /\ returned = "false" /\ IsAcid(Front(at))
      /\ at' = Front(at) /\ returned' = "false"
      /\ UNCHANGED <<effect, before>>
  BY FrontType DEF UndoAcidFails, Surfaces, TypeOK
<1>2. ASSUME NEW l \in Leaves, ~IsAcid(l) PROVE Passed(l)' <=> Passed(l)
  <2>1. ~Within(l, Front(at))
    BY <1>1, <1>2, AcidBelow DEF Leaves
  <2>2. PassedBy(l, Front(at)) <=> PassedBy(l, at)
    BY <1>1, <2>1, PassedUp
  <2> QED
    BY <1>1, <2>2 DEF Passed, PassedBy
<1>3. UndoneOnce'
  BY <1>1, <1>2, UndoneUnmoved DEF UndoingInv
<1> QED
  BY <1>1, <1>3 DEF UndoingInv, UndoReturns

LEMMA UndoingLeaf == TypeOK /\ UndoingInv /\ UndoLeaf => UndoingInv'
<1> SUFFICES ASSUME TypeOK, UndoingInv, UndoLeaf PROVE UndoingInv'
  OBVIOUS
<1>1. /\ at \in Leaves /\ ~IsAcid(at) /\ returned = "nothing" /\ returned' = "true"
      /\ UNCHANGED <<at, before>>
      /\ effect' = [effect EXCEPT ![at] = @ - 1]
  BY DEF UndoLeaf, AtLeaf, Returns
<1>2. /\ effect'[at] = effect[at] - 1
      /\ \A l \in Leaves : l # at => effect'[l] = effect[l]
  BY <1>1 DEF TypeOK
<1>3. /\ ~Passed(at)
      /\ \A l \in Leaves : Passed(l)' <=> Passed(l) \/ l = at
  BY <1>1, PassedLeaf
<1>4. effect[at] = before[at]
  BY <1>1, <1>3 DEF UndoingInv, UndoneOnce
<1>5. UndoneOnce'
  BY <1>1, <1>2, <1>3, <1>4 DEF UndoingInv, UndoneOnce
<1> QED
  BY <1>1, <1>5 DEF UndoingInv, UndoReturns

LEMMA UndoingAcidLeaf == TypeOK /\ UndoingInv /\ UndoAcidLeaf => UndoingInv'
<1> SUFFICES ASSUME TypeOK, UndoingInv, UndoAcidLeaf PROVE UndoingInv'
  OBVIOUS
<1>1. /\ at \in Leaves /\ IsAcid(at) /\ returned = "nothing" /\ returned' = "false"
      /\ UNCHANGED <<at, before, effect>>
  BY DEF UndoAcidLeaf, AtLeaf, Returns
<1>2. \A l \in Leaves : Passed(l)' <=> Passed(l) \/ l = at
  BY <1>1, PassedLeaf
<1>3. UndoneOnce'
  BY <1>1, <1>2, UndoneUnmoved DEF UndoingInv
<1> QED
  BY <1>1, <1>3 DEF UndoingInv, UndoReturns

-----------------------------------------------------------------------------
(* The invariant of all steps *)

LEMMA DoingStep == ExecutionInv /\ [Next]_vars => Doing'
<1> SUFFICES ASSUME ExecutionInv, [Next]_vars, (stage = "doing")' PROVE DoingInv'
  BY DEF Doing, DoingInv
<1>1. TypeOK /\ AtRest /\ (stage = "doing" => DoingInv)
  BY DEF ExecutionInv, Doing, DoingInv
<1>2. CASE DoStarts
  BY <1>1, <1>2, DoingStarts
<1>3. CASE LeafRetried
  <2>1. stage = "doing" /\ UNCHANGED <<at, returned, effect, before, failed, odd>>
    BY <1>3 DEF LeafRetried, AtLeaf, errors
  <2> QED
    BY <1>1, <2>1
       DEF DoingInv, DoneOnce, PlainDone, AcidDone, AcidWhole, Left, Whole, DoReturns, Passed
<1>4. CASE UNCHANGED vars
  <2>1. stage = "doing" /\ UNCHANGED <<at, returned, effect, before, failed, odd>>
    BY <1>4 DEF vars, walk, errors
  <2> QED
    BY <1>1, <2>1
       DEF DoingInv, DoneOnce, PlainDone, AcidDone, AcidWhole, Left, Whole, DoReturns, Passed
<1>5. CASE DoFirst \/ LeafDone \/ LeafFails \/ LeafThrows
  <2>1. stage = "doing"
    BY <1>5 DEF DoFirst, LeafDone, LeafFails, LeafThrows, AtLeaf
  <2> QED
    BY <1>1, <1>5, <2>1, DoingDoFirst, DoingLeafDone, DoingLeafFails, DoingLeafThrows
<1>6. CASE NextSub \/ SubsDone \/ FirstSubFails
  <2>1. stage = "doing"
    BY <1>6 DEF NextSub, SubsDone, FirstSubFails, AcidSubFails, Calls, Surfaces
  <2> QED
    BY <1>1, <1>6, <2>1, DoingNextSub, DoingSubsDone, DoingFirstSubFails
<1>7. ~(LaterSubFails \/ DoEnds \/ UndoStarts \/ UndoFirst \/ UndoLeaf \/ UndoLeafThrows
          \/ UndoAcidLeaf \/ UndoAcidFails \/ UndoEnds)
  BY DEF LaterSubFails, DoEnds, UndoStarts, UndoFirst, UndoLeaf, UndoLeafThrows, UndoAcidLeaf,
         UndoAcidFails, UndoEnds, Calls, Returns, Surfaces, AtLeaf
<1> QED
  BY <1>2, <1>3, <1>4, <1>5, <1>6, <1>7 DEF Next, Walk

LEMMA UndoingStep == ExecutionInv /\ [Next]_vars => Undoing'
<1> SUFFICES ASSUME ExecutionInv, [Next]_vars, (stage = "undoing")' PROVE UndoingInv'
  BY DEF Undoing, UndoingInv
<1>1. TypeOK /\ AtRest /\ (stage = "undoing" => UndoingInv)
  BY DEF ExecutionInv, Undoing, UndoingInv
<1>2. CASE UndoStarts
  BY <1>1, <1>2, UndoingStarts
<1>3. CASE UNCHANGED vars
  <2>1. stage = "undoing" /\ UNCHANGED <<at, returned, effect, before>>
    BY <1>3 DEF vars, walk
  <2> QED
    BY <1>1, <2>1 DEF UndoingInv, UndoneOnce, UndoReturns, Passed
<1>4. CASE UndoFirst \/ UndoLeaf \/ UndoAcidLeaf \/ UndoAcidFails
  <2>1. stage = "undoing"
    BY <1>4 DEF UndoFirst, UndoLeaf, UndoAcidLeaf, UndoAcidFails, AtLeaf
  <2> QED
    BY <1>1, <1>4, <2>1, UndoingFirst, UndoingLeaf, UndoingAcidLeaf, UndoingAcidFails
<1>5. CASE NextSub \/ SubsDone
  <2>1. stage = "undoing"
    BY <1>5 DEF NextSub, SubsDone, Calls, Surfaces
  <2> QED
    BY <1>1, <1>5, <2>1, UndoingNextSub, UndoingSubsDone
<1>6. ~(DoStarts \/ DoFirst \/ LeafDone \/ LeafRetried
          \/ LeafFails \/ LeafThrows \/ FirstSubFails
          \/ LaterSubFails \/ DoEnds \/ UndoLeafThrows \/ UndoEnds)
  BY DEF DoStarts, DoFirst, LeafDone, LeafRetried, LeafFails, LeafThrows, FirstSubFails,
         AcidSubFails, LaterSubFails, DoEnds, UndoLeafThrows, UndoEnds, Calls, Returns, Surfaces,
         AtLeaf
<1> QED
  BY <1>2, <1>3, <1>4, <1>5, <1>6 DEF Next, Walk

\* The invariant holds of every walk through every tree, whatever the leaves and
\* the error handlers do (Commander.cpp:192-420).
THEOREM ExecutionInvariant == Spec => []ExecutionInv
<1>1. Init => ExecutionInv
  BY TypeInit DEF Init, ExecutionInv, AtRest, Doing, Undoing
<1>2. ExecutionInv /\ [Next]_vars => ExecutionInv'
  BY TypeStep, RestStep, DoingStep, UndoingStep DEF ExecutionInv
<1> QED
  BY <1>1, <1>2, PTL DEF Spec

\* The type invariant: above all, at never leaves the tree.
THEOREM ExecutionTypeCorrect == Spec => []TypeOK
<1>1. ExecutionInv => TypeOK
  BY DEF ExecutionInv
<1> QED
  BY <1>1, ExecutionInvariant, PTL

-----------------------------------------------------------------------------
(* The order in an ACID command *)

\* What comes before something that was passed was passed, and is not below what
\* returned unless that is.
LEMMA PassedInOrder ==
  ASSUME TypeOK, NEW l \in Leaves, NEW m \in Leaves, Precedes(l, m), Passed(m)
  PROVE  /\ Passed(l)
         /\ Within(l, at) => Within(m, at)
<1>1. at \in Nodes /\ l \in Nodes /\ m \in Nodes
  BY DEF TypeOK, Leaves
<1>2. /\ Len(l) \in Nat /\ Len(m) \in Nat /\ Len(at) \in Nat
      /\ \A i \in 1 .. Len(l) : l[i] \in Nat
      /\ \A i \in 1 .. Len(m) : m[i] \in Nat
      /\ \A i \in 1 .. Len(at) : at[i] \in Nat
  BY <1>1, NodeType
<1>3. PICK i \in 1 .. Len(l) :
        i <= Len(m) /\ l[i] < m[i] /\ \A j \in 1 .. i - 1 : l[j] = m[j]
  BY DEF Precedes
<1>4. CASE Precedes(m, at)
  <2>1. PICK k \in 1 .. Len(m) :
          k <= Len(at) /\ m[k] < at[k] /\ \A j \in 1 .. k - 1 : m[j] = at[j]
    BY <1>4 DEF Precedes
  <2>2. CASE i <= k
    <3>1. i <= Len(at) /\ \A j \in 1 .. i - 1 : l[j] = at[j]
      BY <1>2, <1>3, <2>1, <2>2
    <3>2. m[i] <= at[i]
      BY <1>2, <1>3, <2>1, <2>2
    <3>3. l[i] < at[i]
      BY <1>2, <1>3, <3>1, <3>2
    <3>4. ~Within(l, at)
      BY <1>2, <1>3, <3>1, <3>3 DEF Within
    <3> QED
      BY <3>1, <3>3, <3>4 DEF Passed, Precedes
  <2>3. CASE k < i
    <3>1. k \in 1 .. Len(l) /\ l[k] < at[k]
      BY <1>2, <1>3, <2>1, <2>3
    <3>2. \A j \in 1 .. k - 1 : l[j] = at[j]
      BY <1>2, <1>3, <2>1, <2>3
    <3>3. ~Within(l, at)
      BY <1>2, <2>1, <3>1 DEF Within
    <3> QED
      BY <2>1, <3>1, <3>2, <3>3 DEF Passed, Precedes
  <2> QED
    BY <1>2, <1>3, <2>1, <2>2, <2>3
<1>5. CASE Within(m, at) /\ returned # "nothing"
  <2>1. Len(at) <= Len(m) /\ \A j \in 1 .. Len(at) : m[j] = at[j]
    BY <1>5 DEF Within
  <2>2. CASE i <= Len(at)
    <3>1. l[i] < at[i] /\ \A j \in 1 .. i - 1 : l[j] = at[j]
      BY <1>2, <1>3, <2>1, <2>2
    <3> QED
      BY <1>5, <2>2, <3>1 DEF Passed, Precedes
  <2>3. CASE i > Len(at)
    <3>1. \A j \in 1 .. Len(at) : l[j] = at[j]
      BY <1>2, <1>3, <2>1, <2>3
    <3>2. Within(l, at)
      BY <1>2, <1>3, <2>3, <3>1 DEF Within
    <3> QED
      BY <1>5, <3>2 DEF Passed
  <2> QED
    BY <1>2, <1>3, <2>2, <2>3
<1> QED
  BY <1>4, <1>5 DEF Passed

\* An ACID command under way never has a part done before the parts in front of
\* it succeeded, in any tree (DoAcidSubItems, Commander.cpp:283-346).
THEOREM ExecutionInOrder == Spec => []AcidInOrder
<1>1. ExecutionInv => AcidInOrder
  <2> SUFFICES ASSUME ExecutionInv, stage = "doing", NEW a \in AcidNodes, Within(at, a),
                      NEW l \in Leaves, NEW m \in Leaves, Within(l, a), Within(m, a),
                      Precedes(l, m), effect[m] # before[m]
               PROVE  l \notin failed /\ (l \notin odd => effect[l] # before[l])
    BY DEF AcidInOrder
  <2>1. TypeOK /\ DoingInv
    BY DEF ExecutionInv, Doing, DoingInv
  <2>2. Passed(m)
    BY <2>1 DEF DoingInv, DoneOnce
  <2>3. Passed(l) /\ (Within(l, at) => Within(m, at))
    BY <2>1, <2>2, PassedInOrder
  <2>4. ~(returned = "false" /\ Within(m, at))
    BY <2>1, <2>2 DEF DoingInv, AcidDone
  <2>5. l \notin failed /\ (l \notin odd => effect[l] = before[l] + 1)
    BY <2>1, <2>3, <2>4 DEF DoingInv, AcidDone
  <2>6. before[l] \in Int
    BY <2>1 DEF TypeOK
  <2> QED
    BY <2>5, <2>6
<1> QED
  BY <1>1, ExecutionInvariant, PTL

\* The same of an Undo, which is in order whether the command is ACID or not.
THEOREM ExecutionUndoneInOrder == Spec => []UndoneInOrder
<1>1. ExecutionInv => UndoneInOrder
  <2> SUFFICES ASSUME ExecutionInv, stage = "undoing", NEW l \in Leaves, NEW m \in Leaves,
                      Precedes(l, m), effect[m] # before[m], ~IsAcid(l)
               PROVE  effect[l] # before[l]
    BY DEF UndoneInOrder
  <2>1. TypeOK /\ UndoneOnce
    BY DEF ExecutionInv, Undoing
  <2>2. Passed(l)
    BY <2>1, PassedInOrder DEF UndoneOnce
  <2> QED
    BY <2>1, <2>2 DEF UndoneOnce, TypeOK
<1> QED
  BY <1>1, ExecutionInvariant, PTL

-----------------------------------------------------------------------------
(* One step for the stacks *)

\* The leaves outside every group are the plain ones.
LEMMA PlainLeaves ==
  ASSUME NEW l \in Leaves
  PROVE  l \in Atomic!Plain <=> ~IsAcid(l)
BY DEF Atomic!Plain, Group, IsAcid

\* The command is ACID itself if it is above an ACID node, which it is itself.
LEMMA RootAcid == IsAcid(Root) <=> Root \in AcidNodes
<1>1. ASSUME NEW a \in AcidNodes, Within(Root, a) PROVE a = Root
  BY <1>1, WithinUp, TreeAssumption
<1>2. Within(Root, Root)
  BY WithinUp, TreeAssumption
<1> QED
  BY <1>1, <1>2 DEF IsAcid

\* When the walk is back at the command, all leaves were passed.
LEMMA AllPassed ==
  ASSUME at = Root, returned # "nothing", NEW l \in Leaves
  PROVE  Passed(l) /\ Within(l, at)
BY WithinUp DEF Leaves, Passed

LEMMA AtomicInit == Init => Atomic!Init
BY DEF Init, Atomic!Init, Place, SeenEffect, Seen, Walking

\* To start to do the command is to begin with it.
LEMMA AtomicBegins == TypeOK /\ DoStarts => Atomic!Begin
BY DEF TypeOK, DoStarts, Atomic!Begin, Place, SeenEffect, Seen, Walking

\* What happens in a walk is not seen.
LEMMA AtomicStutters ==
  ASSUME stage' = stage, before' = before, stage # "doing" => UNCHANGED <<failed, odd>>,
         ~Walking => UNCHANGED effect
  PROVE  UNCHANGED Atomic!command
BY DEF Atomic!command, Place, SeenEffect, Seen, Walking

LEMMA AtomicUndoStarts == UndoStarts => UNCHANGED Atomic!command
BY DEF UndoStarts, Atomic!command, Place, SeenEffect, Seen, Walking, errors

\* A Do that ends well did all leaves, but those that failed or threw.
LEMMA AtomicDone ==
  ASSUME ExecutionInv, DoEnds, returned = "true"
  PROVE  Atomic!Done
<1>1. TypeOK /\ DoingInv
  BY DEF ExecutionInv, Doing, DoingInv, DoEnds
<1>2. /\ stage = "doing" /\ stage' = "undoable" /\ at = Root /\ returned # "nothing"
      /\ UNCHANGED <<effect, before, failed, odd>>
  BY DEF DoEnds, errors
<1>3. /\ Place = "begun" /\ Place' = "undoable"
      /\ SeenEffect = before /\ SeenEffect' = effect
      /\ Seen(failed)' = failed /\ Seen(odd)' = odd
  BY <1>2 DEF Place, SeenEffect, Seen, Walking
<1>4. \A l \in Leaves : Passed(l)
  BY <1>2, AllPassed
<1>5. /\ \A l \in Leaves : effect[l] \in {before[l], before[l] + 1}
      /\ \A l \in failed : effect[l] = before[l]
  BY <1>1 DEF DoingInv, DoneOnce, TypeOK
<1>6. \A l \in Atomic!Plain \ (failed \union odd) : effect[l] = before[l] + 1
  <2>1. Atomic!Plain \subseteq Leaves
    BY DEF Atomic!Plain
  <2> QED
    BY <1>1, <1>4, <2>1, PlainLeaves DEF DoingInv, PlainDone
<1>7. ASSUME NEW a \in AcidNodes
      PROVE  \/ \A l \in Group(a) : effect[l] = before[l]
             \/ /\ \A l \in Group(a) \ odd : effect[l] = before[l] + 1
                /\ Group(a) \intersect failed = {}
  <2>1. Left(a) \/ Whole(a)
    <3>1. CASE ~Within(at, a)
      BY <1>1, <3>1 DEF DoingInv, AcidWhole
    <3>2. CASE Within(at, a)
      BY <1>1, <1>4, <3>2 DEF DoingInv, AcidDone, Whole
    <3> QED
      BY <3>1, <3>2
  <2> QED
    BY <2>1 DEF Group, Left, Whole
<1>8. IsAcid(Root) => failed = {} /\ \A l \in Leaves \ odd : effect[l] = before[l] + 1
  <2> SUFFICES ASSUME IsAcid(Root)
               PROVE  \A l \in Leaves : l \notin failed /\ (l \notin odd => effect[l] = before[l] + 1)
    BY <1>1 DEF TypeOK
  <2>1. Root \in AcidNodes /\ Within(at, Root)
    BY <1>2, RootAcid, WithinUp, TreeAssumption
  <2>2. \A l \in Leaves : Within(l, Root)
    BY WithinUp DEF Leaves
  <2> QED
    BY <1>1, <1>4, <2>1, <2>2 DEF DoingInv, AcidDone
<1>9. Atomic!SomeDone
  BY <1>1, <1>3, <1>5 DEF Atomic!SomeDone, TypeOK
<1>10. \A l \in Seen(failed)' : SeenEffect'[l] = SeenEffect[l]
  BY <1>3, <1>5
<1>11. \A l \in Atomic!Plain \ (Seen(failed)' \union Seen(odd)') :
         SeenEffect'[l] = SeenEffect[l] + 1
  BY <1>3, <1>6
<1>12. \A g \in {Group(a) : a \in AcidNodes} :
         Atomic!GroupLeft(g) \/ (Atomic!GroupDone(g) /\ g \intersect Seen(failed)' = {})
  BY <1>3, <1>7 DEF Atomic!GroupLeft, Atomic!GroupDone
<1>13. IsAcid(Root) => Seen(failed)' = {} /\ Atomic!GroupDone(Leaves)
  BY <1>3, <1>8 DEF Atomic!GroupDone
<1> QED
  BY <1>3, <1>9, <1>10, <1>11, <1>12, <1>13 DEF Atomic!Done

\* An ACID command that is refused did nothing.
LEMMA AtomicRefused ==
  ASSUME ExecutionInv, DoEnds, returned # "true"
  PROVE  Atomic!Refused
<1>1. TypeOK /\ DoingInv
  BY DEF ExecutionInv, Doing, DoingInv, DoEnds
<1>2. /\ stage = "doing" /\ stage' = "refused" /\ at = Root /\ returned = "false"
      /\ UNCHANGED <<effect, before, failed, odd>>
  BY <1>1 DEF DoEnds, errors, TypeOK
<1>3. /\ Place = "begun" /\ Place' = "gone"
      /\ SeenEffect = before /\ SeenEffect' = effect /\ Seen(failed)' = failed
  BY <1>2 DEF Place, SeenEffect, Seen, Walking
<1>4. IsAcid(Root) /\ failed # {}
  BY <1>1, <1>2 DEF DoingInv, DoReturns
<1>5. Root \in AcidNodes /\ Within(at, Root)
  BY <1>2, <1>4, RootAcid, WithinUp, TreeAssumption
<1>6. \A l \in Leaves : Passed(l) /\ Within(l, at) /\ Within(l, Root)
  BY <1>2, AllPassed
<1>7. \A l \in Leaves : effect[l] = before[l]
  BY <1>1, <1>2, <1>5, <1>6 DEF DoingInv, AcidDone
<1>8. effect = before
  BY <1>1, <1>7 DEF TypeOK
<1> QED
  BY <1>3, <1>4, <1>8 DEF Atomic!Refused

LEMMA AtomicRollbackFails == ExecutionInv /\ LaterSubFails => Atomic!RollbackFails
<1> SUFFICES ASSUME ExecutionInv, LaterSubFails PROVE Atomic!RollbackFails
  OBVIOUS
<1>1. TypeOK /\ DoingInv
  BY DEF ExecutionInv, Doing, DoingInv, LaterSubFails, AcidSubFails
<1>2. /\ stage = "doing" /\ stage' = "ended" /\ returned = "false" /\ IsAcid(Front(at))
      /\ UNCHANGED <<effect, failed>>
  BY DEF LaterSubFails, AcidSubFails, errors
<1>3. /\ Place = "begun" /\ Place' = "ended"
      /\ SeenEffect = before /\ SeenEffect' = effect /\ Seen(failed)' = failed
  BY <1>2 DEF Place, SeenEffect, Seen, Walking
<1>4. {Group(a) : a \in AcidNodes} # {}
  BY <1>2 DEF IsAcid
<1>5. failed # {} /\ \A l \in Leaves : effect[l] \in {before[l], before[l] + 1}
  BY <1>1, <1>2 DEF DoingInv, DoReturns, DoneOnce
<1>6. Atomic!SomeDone
  BY <1>1, <1>3, <1>5 DEF Atomic!SomeDone, TypeOK
<1> QED
  BY <1>3, <1>4, <1>5, <1>6 DEF Atomic!RollbackFails

\* An Undo that ends well undid every plain leaf and no other.
LEMMA AtomicUndone ==
  ASSUME ExecutionInv, UndoEnds, returned = "true"
  PROVE  Atomic!Undone
<1>1. TypeOK /\ UndoingInv
  BY DEF ExecutionInv, Undoing, UndoingInv, UndoEnds
<1>2. /\ stage = "undoing" /\ stage' = "redoable" /\ at = Root /\ returned # "nothing"
      /\ UNCHANGED <<effect, failed, odd>>
  BY DEF UndoEnds, errors
<1>3. /\ Place = "undoable" /\ Place' = "ready"
      /\ SeenEffect = before /\ SeenEffect' = effect
      /\ UNCHANGED <<Seen(failed), Seen(odd)>>
  BY <1>2 DEF Place, SeenEffect, Seen, Walking
<1>4. ~IsAcid(Root)
  BY <1>1, <1>2 DEF UndoingInv, UndoReturns
<1>5. ASSUME NEW l \in Leaves
      PROVE  effect[l] = IF l \in Atomic!Plain THEN before[l] - 1 ELSE before[l]
  BY <1>1, <1>2, AllPassed, PlainLeaves DEF UndoingInv, UndoneOnce
<1>6. effect = [l \in Leaves |-> IF l \in Atomic!Plain THEN before[l] - 1 ELSE before[l]]
  BY <1>1, <1>5 DEF TypeOK
<1> QED
  BY <1>3, <1>4, <1>6 DEF Atomic!Undone

\* An ACID command stays as it is.
LEMMA AtomicUndoRefused ==
  ASSUME ExecutionInv, UndoEnds, returned # "true"
  PROVE  Atomic!UndoRefused
<1>1. TypeOK /\ UndoingInv
  BY DEF ExecutionInv, Undoing, UndoingInv, UndoEnds
<1>2. /\ stage = "undoing" /\ stage' = "kept" /\ at = Root /\ returned = "false"
      /\ UNCHANGED <<effect, failed, odd>>
  BY <1>1 DEF UndoEnds, errors, TypeOK
<1>3. /\ Place = "undoable" /\ Place' = "gone"
      /\ SeenEffect = before /\ SeenEffect' = effect
      /\ UNCHANGED <<Seen(failed), Seen(odd)>>
  BY <1>2 DEF Place, SeenEffect, Seen, Walking
<1>4. IsAcid(Root)
  BY <1>1, <1>2 DEF UndoingInv, UndoReturns
<1>5. \A l \in Leaves : IsAcid(l)
  BY <1>4, AcidBelow, WithinUp, TreeAssumption DEF Leaves
<1>6. \A l \in Leaves : effect[l] = before[l]
  BY <1>1, <1>5 DEF UndoingInv, UndoneOnce
<1>7. effect = before
  BY <1>1, <1>6 DEF TypeOK
<1> QED
  BY <1>3, <1>4, <1>7 DEF Atomic!UndoRefused

LEMMA AtomicUndoThrows == ExecutionInv /\ UndoLeafThrows => Atomic!UndoThrows
<1> SUFFICES ASSUME ExecutionInv, UndoLeafThrows PROVE Atomic!UndoThrows
  OBVIOUS
<1>1. TypeOK /\ UndoingInv
  BY DEF ExecutionInv, Undoing, UndoingInv, UndoLeafThrows, AtLeaf
<1>2. /\ stage = "undoing" /\ stage' = "ended" /\ ~IsAcid(at)
      /\ UNCHANGED <<effect, failed, odd>>
  BY DEF UndoLeafThrows, AtLeaf, errors
<1>3. /\ Place = "undoable" /\ Place' = "ended"
      /\ SeenEffect = before /\ SeenEffect' = effect
      /\ UNCHANGED <<Seen(failed), Seen(odd)>>
  BY <1>2 DEF Place, SeenEffect, Seen, Walking
<1>4. ~IsAcid(Root)
  BY <1>1, <1>2, AcidBelow, WithinUp, TreeAssumption DEF TypeOK
<1>5. \A l \in Leaves : effect[l] \in {before[l], before[l] - 1}
  BY <1>1 DEF UndoingInv, UndoneOnce
<1> QED
  BY <1>1, <1>3, <1>4, <1>5 DEF Atomic!UndoThrows, TypeOK

LEMMA AtomicStep == ExecutionInv /\ [Next]_vars => [Atomic!Next]_(Atomic!command)
<1> SUFFICES ASSUME ExecutionInv, [Next]_vars PROVE [Atomic!Next]_(Atomic!command)
  OBVIOUS
<1>1. TypeOK
  BY DEF ExecutionInv
<1>2. CASE DoStarts
  BY <1>1, <1>2, AtomicBegins DEF Atomic!Next
<1>3. CASE DoEnds
  BY <1>3, AtomicDone, AtomicRefused DEF Atomic!Next
<1>4. CASE LaterSubFails
  BY <1>4, AtomicRollbackFails DEF Atomic!Next
<1>5. CASE UndoEnds
  BY <1>5, AtomicUndone, AtomicUndoRefused DEF Atomic!Next
<1>6. CASE UndoLeafThrows
  BY <1>6, AtomicUndoThrows DEF Atomic!Next
<1>7. CASE UndoStarts
  BY <1>7, AtomicUndoStarts
<1>8. CASE UNCHANGED vars
  BY <1>8, AtomicStutters DEF vars, errors
<1>9. CASE \/ DoFirst \/ LeafDone \/ LeafRetried \/ LeafThrows \/ FirstSubFails
           \/ LeafFails
  BY <1>9, AtomicStutters
     DEF DoFirst, LeafDone, LeafRetried, LeafThrows, FirstSubFails, AcidSubFails, LeafFails,
         AtLeaf, Calls, Returns, Surfaces, Walking
<1>10. CASE NextSub \/ SubsDone \/ UndoFirst \/ UndoLeaf \/ UndoAcidLeaf \/ UndoAcidFails
  BY <1>10, AtomicStutters
     DEF NextSub, SubsDone, GoesOn, UndoFirst, UndoLeaf, UndoAcidLeaf, UndoAcidFails, AtLeaf,
         Calls, Returns, Surfaces, Walking, errors
<1> QED
  BY <1>2, <1>3, <1>4, <1>5, <1>6, <1>7, <1>8, <1>9, <1>10 DEF Next, Walk

\* To the two stacks a call is one step, for every tree: every leaf is done at
\* most once by a Do, an ACID part completely or not at all, and an Undo undoes
\* every leaf but the ACID ones exactly once (Commander.cpp:192-420).
THEOREM ExecutionIsAtomic == Spec => AtomicSpec
<1>1. Init => Atomic!Init
  BY AtomicInit
<1>2. ExecutionInv /\ [Next]_vars => [Atomic!Next]_(Atomic!command)
  BY AtomicStep
<1> QED
  BY <1>1, <1>2, ExecutionInvariant, PTL DEF Spec, AtomicSpec, Atomic!Spec

-----------------------------------------------------------------------------
(* No walk is stuck *)

\* The last index of the node below, and the node above it.
LEMMA SubIsLast ==
  ASSUME NEW n \in Nodes, NEW k \in 1 .. Subs[n]
  PROVE  Front(Append(n, k)) = n /\ Last(Append(n, k)) = k
<1> DEFINE m == Append(n, k)
<1>1. /\ m \in Nodes /\ m # Root
      /\ Len(m) = Len(n) + 1
      /\ \A i \in 1 .. Len(n) : m[i] = n[i]
      /\ m[Len(n) + 1] = k
  BY SubType
<1> HIDE DEF m
<1>2. /\ Len(Front(m)) = Len(m) - 1
      /\ \A i \in 1 .. Len(m) - 1 : Front(m)[i] = m[i]
      /\ Front(m) \in Nodes
      /\ Last(m) = m[Len(m)]
  BY <1>1, FrontType
<1>3. n \in Seq(Positive) /\ Front(m) \in Seq(Positive) /\ Len(n) \in Nat
  BY <1>2, NodeType
<1>4. Front(m) = n
  BY <1>1, <1>2, <1>3, SeqEqual
<1> QED
  BY <1>1, <1>2, <1>4 DEF m

\* All ACID loops of an Undo under way are at their last sub-command, the one
\* they began with
UndoStopsAtLast ==
  stage = "undoing" =>
    \A n \in Nodes : n # Root /\ Within(at, n) /\ IsAcid(Front(n)) => Last(n) = Subs[Front(n)]

\* What an action needs of the loops to go on with a call that returned
LoopGoesOn ==
  \/ GoesOn /\ Last(at) \in 1 .. Subs[Front(at)]
  \/ AcidSubFails /\ Last(at) >= 1
  \/ /\ stage = "undoing"
     /\ returned = "false"
     /\ IsAcid(Front(at))
     /\ Last(at) = Subs[Front(at)]

LEMMA UndoLastStep ==
  ExecutionInv /\ UndoStopsAtLast /\ [Next]_vars => UndoStopsAtLast'
<1> SUFFICES ASSUME ExecutionInv, UndoStopsAtLast, [Next]_vars, (stage = "undoing")',
                    NEW n \in Nodes, n # Root, Within(at', n), IsAcid(Front(n))
             PROVE  Last(n) = Subs[Front(n)]
  BY DEF UndoStopsAtLast
<1>1. TypeOK /\ AtRest /\ (stage = "undoing" => UndoingInv) /\ at \in Nodes
  BY DEF ExecutionInv, Undoing, UndoingInv, TypeOK
<1>2. CASE UndoStarts
  <2>1. at' = Root
    BY <1>1, <1>2 DEF UndoStarts, AtRest, Walking, walk
  <2> QED
    BY <2>1, WithinUp
<1>3. CASE UNCHANGED vars \/ UndoLeaf \/ UndoAcidLeaf
  <2>1. stage = "undoing" /\ at' = at
    BY <1>3 DEF vars, walk, UndoLeaf, UndoAcidLeaf, AtLeaf, Returns
  <2> QED
    BY <2>1 DEF UndoStopsAtLast
<1>4. CASE UndoFirst
  <2> DEFINE k == IF IsAcid(at) THEN Subs[at] ELSE 1
  <2>1. stage = "undoing" /\ at' = Append(at, k) /\ at \notin Leaves
    BY <1>4 DEF UndoFirst, Calls
  <2>2. k \in 1 .. Subs[at]
    <3>1. Subs[at] \in Nat /\ Subs[at] # 0
      BY <1>1, <2>1, TreeAssumption DEF Leaves
    <3> QED
      BY <3>1
  <2>3. CASE n = at'
    BY <1>1, <2>1, <2>2, <2>3, SubIsLast
  <2>4. CASE n # at'
    <3>1. Within(at, n)
      BY <1>1, <2>1, <2>2, <2>4, WithinSub
    <3> QED
      BY <2>1, <3>1 DEF UndoStopsAtLast
  <2> QED
    BY <2>3, <2>4
<1>5. CASE NextSub
  <2>1. /\ stage = "undoing" /\ at' = Append(Front(at), Last(at) + 1)
        /\ at # Root /\ returned # "nothing" /\ Last(at) < Subs[Front(at)]
        /\ IsAcid(Front(at)) => returned = "true"
    BY <1>5 DEF NextSub, GoesOn, Calls
  <2>2. Front(at) \in Nodes /\ Last(at) + 1 \in 1 .. Subs[Front(at)]
    BY <1>1, <2>1, FrontType
  <2>3. ~IsAcid(Front(at))
    <3>1. IsAcid(Front(at)) => IsAcid(at)
      BY <1>1, <2>1, <2>2, WithinUp, AcidBelow
    <3> QED
      BY <1>1, <2>1, <3>1 DEF UndoingInv, UndoReturns
  <2>4. n # at'
    BY <2>1, <2>2, <2>3, SubIsLast
  <2>5. Within(at, n)
    BY <1>1, <2>1, <2>2, <2>4, WithinSub, WithinUp
  <2> QED
    BY <2>1, <2>5 DEF UndoStopsAtLast
<1>6. CASE SubsDone \/ UndoAcidFails
  <2>1. stage = "undoing" /\ at # Root /\ at' = Front(at)
    BY <1>6 DEF SubsDone, GoesOn, UndoAcidFails, Surfaces
  <2>2. Within(at, n)
    BY <1>1, <2>1, WithinUp
  <2> QED
    BY <2>1, <2>2 DEF UndoStopsAtLast
<1>7. ~(DoStarts \/ DoFirst \/ LeafDone \/ LeafRetried
          \/ LeafFails \/ LeafThrows \/ FirstSubFails
          \/ LaterSubFails \/ DoEnds \/ UndoLeafThrows \/ UndoEnds)
  BY DEF DoStarts, DoFirst, LeafDone, LeafRetried, LeafFails, LeafThrows, FirstSubFails,
         AcidSubFails, LaterSubFails, DoEnds, UndoLeafThrows, UndoEnds, Calls, Returns, Surfaces,
         AtLeaf
<1> QED
  BY <1>2, <1>3, <1>4, <1>5, <1>6, <1>7 DEF Next, Walk

\* An Undo never stops in the middle of an ACID command, so nothing is ever done
\* again: the loop of UndoAcidSubItems that does the later sub-commands again
\* (Commander.cpp:381-406) is not reached, and the model needs no action for it.
THEOREM UndoNeverDoesAgain == Spec => []UndoStopsAtLast
<1>1. Init => UndoStopsAtLast
  BY DEF Init, UndoStopsAtLast
<1>2. ExecutionInv /\ UndoStopsAtLast /\ [Next]_vars => UndoStopsAtLast'
  BY UndoLastStep
<1> QED
  BY <1>1, <1>2, ExecutionInvariant, PTL DEF Spec

\* Whatever a call returns, the loop that called it has an answer, so no walk is
\* stuck in the middle (Commander.cpp:271-411).
THEOREM WalkNeverStuck ==
  Spec => [](Walking /\ at # Root /\ returned # "nothing" => LoopGoesOn)
<1>1. ASSUME ExecutionInv, UndoStopsAtLast, Walking, at # Root, returned # "nothing"
      PROVE  LoopGoesOn
  <2>1. at \in Nodes /\ returned \in {"true", "false"}
    BY <1>1 DEF ExecutionInv, TypeOK
  <2>2. /\ Last(at) \in 1 .. Subs[Front(at)] /\ Subs[Front(at)] \in Nat
        /\ Within(at, at)
    BY <1>1, <2>1, FrontType, WithinUp
  <2> QED
    BY <1>1, <2>1, <2>2 DEF LoopGoesOn, GoesOn, AcidSubFails, Walking, UndoStopsAtLast
<1> QED
  BY <1>1, ExecutionInvariant, UndoNeverDoesAgain, PTL
-----------------------------------------------------------------------------
(* Every walk ends *)

\* The nodes whose calls have not returned yet
UnderWay == {n \in Nodes : Within(at, n) /\ (n = at => returned = "nothing")}

\* The nodes that may still be called
Ahead == {n \in Nodes : ~Within(at, n) /\ ~Passed(n)}

\* No fewer than the steps that are left of a walk
Distance ==
  IF Walking
    THEN 1 + (IF retrying THEN 0 ELSE 1) + 2 * Cardinality(UnderWay) + 4 * Cardinality(Ahead)
    ELSE 0

LEMMA AheadFinite ==
  ASSUME IsFiniteSet(Nodes)
  PROVE  /\ IsFiniteSet(UnderWay) /\ Cardinality(UnderWay) \in Nat
         /\ IsFiniteSet(Ahead) /\ Cardinality(Ahead) \in Nat
         /\ Distance \in Nat /\ Distance' \in Nat
<1>1. UnderWay \subseteq Nodes /\ Ahead \subseteq Nodes
  BY DEF UnderWay, Ahead
<1>2. IsFiniteSet(UnderWay) /\ IsFiniteSet(Ahead)
  BY <1>1, FS_Subset
<1>3. Cardinality(UnderWay) \in Nat /\ Cardinality(Ahead) \in Nat
  BY <1>2, FS_CardinalityType
<1>4. UnderWay' \subseteq Nodes /\ Ahead' \subseteq Nodes
  BY DEF UnderWay, Ahead
<1>5. IsFiniteSet(UnderWay') /\ IsFiniteSet(Ahead')
  BY <1>4, FS_Subset
<1>6. Cardinality(UnderWay') \in Nat /\ Cardinality(Ahead') \in Nat
  BY <1>5, FS_CardinalityType
<1> QED
  BY <1>2, <1>3, <1>6 DEF Distance

\* To call a node that was ahead takes it from there.
LEMMA CallShortens ==
  ASSUME IsFiniteSet(Nodes), NEW c \in Nodes, Calls(c), Walking, TypeOK,
         UnderWay' = UnderWay \union {c}, c \notin UnderWay,
         Ahead' \subseteq Ahead \ {c}, c \in Ahead
  PROVE  Distance' < Distance
<1>1. /\ IsFiniteSet(UnderWay) /\ Cardinality(UnderWay) \in Nat
      /\ IsFiniteSet(Ahead) /\ Cardinality(Ahead) \in Nat
  BY AheadFinite
<1>2. Cardinality(UnderWay') = Cardinality(UnderWay) + 1
  BY <1>1, FS_AddElement
<1>3. /\ IsFiniteSet(Ahead \ {c})
      /\ Cardinality(Ahead \ {c}) = Cardinality(Ahead) - 1
  BY <1>1, FS_RemoveElement
<1>4. /\ Cardinality(Ahead') \in Nat
      /\ Cardinality(Ahead') <= Cardinality(Ahead) - 1
  <2>1. IsFiniteSet(Ahead') /\ Cardinality(Ahead') <= Cardinality(Ahead \ {c})
    BY <1>3, FS_Subset
  <2> QED
    BY <1>3, <2>1, FS_CardinalityType
<1>5. Walking' /\ retrying' = retrying
  BY DEF Calls, Walking
<1> QED
  BY <1>1, <1>2, <1>4, <1>5 DEF Distance

\* A call that returns is under way no more.
LEMMA ReturnShortens ==
  ASSUME IsFiniteSet(Nodes), Walking, stage' = stage, TypeOK, NEW r \in UnderWay,
         UnderWay' = UnderWay \ {r}, Ahead' \subseteq Ahead
  PROVE  Distance' < Distance
<1>1. /\ IsFiniteSet(UnderWay) /\ Cardinality(UnderWay) \in Nat
      /\ IsFiniteSet(Ahead) /\ Cardinality(Ahead) \in Nat
  BY AheadFinite
<1>2. Cardinality(UnderWay') = Cardinality(UnderWay) - 1
  BY <1>1, FS_RemoveElement
<1>3. Cardinality(Ahead') \in Nat /\ Cardinality(Ahead') <= Cardinality(Ahead)
  <2>1. IsFiniteSet(Ahead') /\ Cardinality(Ahead') <= Cardinality(Ahead)
    BY <1>1, FS_Subset
  <2> QED
    BY <2>1, FS_CardinalityType
<1>4. Walking'
  BY DEF Walking
<1>5. Cardinality(UnderWay') \in Nat
  BY <1>1, <1>2, FS_RemoveElement, FS_CardinalityType
<1> QED
  BY <1>1, <1>2, <1>3, <1>4, <1>5 DEF Distance

\* The calls under way when a sub-command of the node p is called.
LEMMA CallsUnderWay ==
  ASSUME NEW p \in Nodes, NEW k \in 1 .. Subs[p], Calls(Append(p, k)),
         UnderWay = {n \in Nodes : Within(p, n)}
  PROVE  /\ UnderWay' = UnderWay \union {Append(p, k)}
         /\ Append(p, k) \notin UnderWay
<1> DEFINE c == Append(p, k)
<1>1. c \in Nodes /\ Len(c) = Len(p) + 1 /\ Len(p) \in Nat
  BY SubType, NodeType
<1>2. \A n \in Nodes : Within(c, n) <=> n = c \/ Within(p, n)
  BY WithinSub
<1>3. at' = c /\ returned' = "nothing"
  BY DEF Calls
<1> HIDE DEF c
<1>4. ~Within(p, c)
  BY <1>1 DEF Within
<1>5. UnderWay' = {n \in Nodes : Within(c, n)}
  BY <1>3 DEF UnderWay
<1> QED
  BY <1>1, <1>2, <1>4, <1>5 DEF c

\* The first call of a loop.
LEMMA FirstShortens ==
  ASSUME IsFiniteSet(Nodes), TypeOK, Walking, returned = "nothing",
         NEW k \in 1 .. Subs[at], Calls(Append(at, k))
  PROVE  Distance' < Distance
<1> DEFINE c == Append(at, k)
<1>1. at \in Nodes /\ c \in Nodes
  BY SubType DEF TypeOK
<1>2. UnderWay = {n \in Nodes : Within(at, n)}
  BY DEF UnderWay
<1>3. UnderWay' = UnderWay \union {c} /\ c \notin UnderWay
  BY <1>1, <1>2, CallsUnderWay
<1>4. at' = c /\ returned' = "nothing"
  BY DEF Calls
<1>5. \A n \in Nodes : /\ Within(c, n) <=> n = c \/ Within(at, n)
                       /\ Precedes(n, at) => Precedes(n, c)
  BY <1>1, WithinSub, PrecedesSub
<1>6. Within(c, at) /\ ~Within(at, c)
  BY <1>1, <1>2, <1>3, <1>5, WithinUp
<1>7. ~Precedes(c, at)
  BY <1>1, <1>6, BelowIsNotBefore
<1> HIDE DEF c
<1>8. c \in Ahead
  BY <1>1, <1>6, <1>7 DEF Ahead, Passed
<1>9. Ahead' \subseteq Ahead \ {c}
  BY <1>4, <1>5 DEF Ahead, Passed
<1>10. Calls(c)
  BY DEF c
<1> QED
  BY <1>1, <1>3, <1>8, <1>9, <1>10, CallShortens

\* The calls under way when one of them has returned.
LEMMA ReturnedUnderWay ==
  ASSUME TypeOK, returned # "nothing", at # Root
  PROVE  UnderWay = {n \in Nodes : Within(Front(at), n)}
<1>1. at \in Nodes
  BY DEF TypeOK
<1>2. /\ Front(at) \in Nodes /\ Len(at) \in Nat
      /\ Len(Front(at)) = Len(at) - 1
      /\ \A n \in Nodes : Within(at, n) <=> n = at \/ Within(Front(at), n)
  BY <1>1, FrontType, WithinUp, NodeType
<1>3. ~Within(Front(at), at)
  BY <1>2 DEF Within
<1> QED
  BY <1>1, <1>2, <1>3 DEF UnderWay

LEMMA NextShortens ==
  ASSUME IsFiniteSet(Nodes), TypeOK, NextSub
  PROVE  Distance' < Distance
<1> DEFINE p == Front(at)
           k == Last(at) + 1
           c == Append(p, k)
<1>1. /\ Walking /\ returned # "nothing" /\ at # Root /\ at \in Nodes
      /\ Last(at) < Subs[p] /\ Calls(c)
  BY DEF NextSub, GoesOn, TypeOK
<1>2. p \in Nodes /\ k \in 1 .. Subs[p]
  BY <1>1, NodeIsSub, PassedNext
<1>3. c \in Nodes
  BY <1>2, SubType
<1>4. UnderWay = {n \in Nodes : Within(p, n)}
  BY <1>1, ReturnedUnderWay
<1>5. UnderWay' = UnderWay \union {c} /\ c \notin UnderWay
  BY <1>1, <1>2, <1>4, CallsUnderWay
<1>6. \A n \in Nodes : Within(c, n) <=> n = c \/ Within(p, n)
  BY <1>2, WithinSub
<1>7. \A n \in Nodes : Precedes(n, c) <=> Passed(n)
  BY <1>1, PassedNext DEF Passed, PassedBy
<1>8. at' = c /\ returned' = "nothing"
  BY <1>1 DEF Calls
<1>9. \A n \in Nodes : Within(at, n) <=> n = at \/ Within(p, n)
  BY <1>1, WithinUp
<1>10. Passed(at)
  BY <1>1, WithinUp DEF Passed
<1>11. ~Precedes(c, c)
  BY <1>3, PrecedesIrreflexive
<1> HIDE DEF p, k, c
<1>12. ~Passed(c) /\ c # at
  BY <1>3, <1>7, <1>10, <1>11
<1>13. c \in Ahead
  BY <1>3, <1>4, <1>5, <1>9, <1>12 DEF Ahead
<1>14. \A n \in Nodes : Passed(n)' <=> Precedes(n, c)
  BY <1>8 DEF Passed
<1>15. Ahead' \subseteq Ahead \ {c}
  <2> SUFFICES ASSUME NEW n \in Nodes, ~Within(c, n), ~Passed(n)'
               PROVE  n # c /\ ~Within(at, n) /\ ~Passed(n)
    BY <1>8 DEF Ahead
  <2> QED
    BY <1>6, <1>7, <1>9, <1>10, <1>14
<1> QED
  BY <1>1, <1>3, <1>5, <1>13, <1>15, CallShortens

\* The return of a leaf.
LEMMA LeafShortens ==
  ASSUME IsFiniteSet(Nodes), TypeOK, Walking, UNCHANGED <<stage, at>>,
         returned = "nothing", returned' # "nothing"
  PROVE  Distance' < Distance
<1>1. at \in Nodes /\ Within(at, at)
  BY WithinUp DEF TypeOK
<1>2. at \in UnderWay /\ UnderWay' = UnderWay \ {at}
  BY <1>1 DEF UnderWay
<1>3. Ahead' \subseteq Ahead
  BY DEF Ahead, Passed
<1> QED
  BY <1>2, <1>3, ReturnShortens

\* The return of a loop.
LEMMA SurfaceShortens ==
  ASSUME IsFiniteSet(Nodes), TypeOK, Walking, returned # "nothing", at # Root,
         NEW what \in {"true", "false"}, Surfaces(what)
  PROVE  Distance' < Distance
<1> DEFINE p == Front(at)
<1>1. at \in Nodes /\ p \in Nodes /\ at' = p /\ returned' # "nothing" /\ stage' = stage
  BY FrontType DEF TypeOK, Surfaces
<1>2. UnderWay = {n \in Nodes : Within(p, n)}
  BY ReturnedUnderWay
<1>3. Within(p, p) /\ Within(at, p)
  BY <1>1, WithinUp
<1>4. \A n \in Nodes : /\ Within(at, n) <=> n = at \/ Within(p, n)
                       /\ PassedBy(n, at) => PassedBy(n, p)
  BY <1>1, WithinUp, SeenFromAbove DEF PassedBy
<1> HIDE DEF p
<1>5. p \in UnderWay /\ UnderWay' = UnderWay \ {p}
  BY <1>1, <1>2, <1>3 DEF UnderWay
<1>6. \A n \in Nodes : (Passed(n)' <=> PassedBy(n, p)) /\ (Passed(n) <=> PassedBy(n, at))
  BY <1>1 DEF Passed, PassedBy
<1>7. Ahead' \subseteq Ahead
  <2> SUFFICES ASSUME NEW n \in Nodes, ~Within(p, n), ~PassedBy(n, p)
               PROVE  ~Within(at, n) /\ ~Passed(n)
    BY <1>1, <1>6 DEF Ahead
  <2> QED
    BY <1>3, <1>4, <1>6 DEF PassedBy
<1> QED
  BY <1>1, <1>5, <1>7, ReturnShortens

LEMMA StepShortens ==
  ASSUME IsFiniteSet(Nodes), TypeOK, Walk
  PROVE  Distance' < Distance
<1>1. CASE DoFirst
  <2>1. Walking /\ returned = "nothing" /\ at \in Nodes /\ at \notin Leaves
    BY <1>1 DEF DoFirst, Walking, TypeOK
  <2>2. 1 \in 1 .. Subs[at]
    BY <2>1, TreeAssumption DEF Leaves
  <2> QED
    BY <1>1, <2>1, <2>2, FirstShortens DEF DoFirst
<1>2. CASE UndoFirst
  <2>1. Walking /\ returned = "nothing" /\ at \in Nodes /\ at \notin Leaves
    BY <1>2 DEF UndoFirst, Walking, TypeOK
  <2>2. Subs[at] \in Nat /\ Subs[at] # 0
    BY <2>1, TreeAssumption DEF Leaves
  <2>3. \A k \in {1, Subs[at]} : k \in 1 .. Subs[at]
    BY <2>2
  <2> QED
    BY <1>2, <2>1, <2>3, FirstShortens DEF UndoFirst
<1>3. CASE NextSub
  BY <1>3, NextShortens
<1>4. CASE LeafDone \/ LeafFails \/ LeafThrows \/ UndoLeaf \/ UndoAcidLeaf
  BY <1>4, LeafShortens
     DEF LeafDone, LeafFails, LeafThrows, UndoLeaf, UndoAcidLeaf, AtLeaf, Returns, Walking
<1>5. CASE LeafRetried
  <2>1. /\ stage = "doing" /\ ~retrying /\ retrying' = TRUE
        /\ UNCHANGED <<stage, at, returned>>
    BY <1>5 DEF LeafRetried, AtLeaf
  <2>2. UnderWay' = UnderWay /\ Ahead' = Ahead
    BY <2>1 DEF UnderWay, Ahead, Passed
  <2>3. Cardinality(UnderWay) \in Nat /\ Cardinality(Ahead) \in Nat
    BY AheadFinite
  <2> QED
    BY <2>1, <2>2, <2>3 DEF Distance, Walking
<1>6. CASE SubsDone \/ FirstSubFails \/ UndoAcidFails
  BY <1>6, SurfaceShortens
     DEF SubsDone, GoesOn, FirstSubFails, AcidSubFails, UndoAcidFails, Walking
<1>7. CASE LaterSubFails \/ DoEnds \/ UndoLeafThrows \/ UndoEnds
  <2>1. Walking /\ ~Walking'
    BY <1>7 DEF LaterSubFails, AcidSubFails, DoEnds, UndoLeafThrows, AtLeaf, UndoEnds, Walking
  <2>2. Cardinality(UnderWay) \in Nat /\ Cardinality(Ahead) \in Nat
    BY AheadFinite
  <2> QED
    BY <2>1, <2>2 DEF Distance
<1> QED
  BY <1>1, <1>2, <1>3, <1>4, <1>5, <1>6, <1>7 DEF Walk

\* Every step of a walk lowers a natural number, whatever the leaves and the
\* handlers do, so that no walk through a finite tree goes on for ever
\* (Commander.cpp:192-420): a retry is bounded by the parameter of DoDo, and every
\* other step calls a node that was never called in this walk or returns from one.
THEOREM WalkShortens ==
  ASSUME IsFiniteSet(Nodes)
  PROVE  Spec => [][Walk => /\ Distance \in Nat
                            /\ Distance' \in Nat
                            /\ Distance' < Distance]_vars
<1>1. ASSUME TypeOK, Walk
      PROVE  Distance \in Nat /\ Distance' \in Nat /\ Distance' < Distance
  BY <1>1, AheadFinite, StepShortens
<1> QED
  BY <1>1, ExecutionTypeCorrect, PTL DEF Spec
=============================================================================
