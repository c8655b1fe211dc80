---------------------------- MODULE Heap_proofs -----------------------------
(***************************************************************************)
(* The heap, for every number of processes, pages, descriptors and blocks  *)
(* in an arena: the free lists that are linked through the blocks stay     *)
(* whole and exact, no ASSERT fails, and the pages that sys_malloc and     *)
(* sys_free hand out and take back are disjoint ranges.                    *)
(***************************************************************************)
EXTENDS Heap, BitmapOps_proofs, FiniteSetTheorems, TLAPS

(* The nodes of the lists, and the memory that a call sees *)

MemSet == [ends : [Ends -> Elem], link : [Page -> [Slot -> Elem]],
           pages : SUBSET Page, ok : BOOLEAN]

\* What can be written: the ends, and the blocks of pages that are there
Usable(m) == Ends \cup {b \in Block : b[1] \in m.pages}

LEMMA SlotsAre ==
    /\ Max({PerArena[d] : d \in Desc}) \in Nat \ {0}
    /\ \A d \in Desc : \A i \in 0 .. PerArena[d] - 1 : i \in Slot
<1> DEFINE S == {PerArena[d] : d \in Desc}
<1>1. S # {} /\ S \subseteq Nat \ {0}
  BY HeapAssumption
<1>2. IsFiniteSet(S)
  <2>1. PerArena \in [Desc -> Nat \ {0}] /\ IsFiniteSet(Desc)
    BY HeapAssumption
  <2>2. \A x \in S : \E d \in Desc : PerArena[d] = x
    OBVIOUS
  <2>3. PerArena \in Surjection(Desc, S)
    BY <2>1 DEF Surjection
  <2> QED
    BY <2>1, <2>3, FS_Surjection
<1>3. Max(S) \in S /\ \A x \in S : Max(S) >= x
  BY <1>1, <1>2, MaxIsGreatest
<1>4. \A d \in Desc : PerArena[d] \in S /\ PerArena[d] \in Nat
  BY HeapAssumption
<1> DEFINE top == Max(S)
<1>5. top \in Nat \ {0} /\ \A d \in Desc : PerArena[d] <= top /\ PerArena[d] \in Nat
  BY <1>1, <1>3, <1>4
<1>6. Slot = 0 .. top - 1
  BY DEF Slot
<1> HIDE DEF top
<1>7. \A d \in Desc : \A i \in 0 .. PerArena[d] - 1 : i \in Slot
  BY <1>5, <1>6
<1> QED
  BY <1>5, <1>7 DEF top

LEMMA EndsAreNot ==
    /\ \A l \in List : HeadOf(l) \in Ends /\ TailOf(l) \in Ends
    /\ \A k, l \in List : HeadOf(k) # TailOf(l)
    /\ \A k, l \in List : k # l => HeadOf(k) # HeadOf(l) /\ TailOf(k) # TailOf(l)
    /\ Ends \cap Block = {}
    /\ None \notin Block /\ None \notin List
    /\ Ends \subseteq Node /\ Block \subseteq Node /\ None \in Node
<1>1. \A l \in List : HeadOf(l) \in Ends /\ TailOf(l) \in Ends
  BY DEF Ends
<1>2. \A k, l \in List : HeadOf(k) # TailOf(l)
  BY DEF HeadOf, TailOf
<1>3. \A k, l \in List : k # l => HeadOf(k) # HeadOf(l) /\ TailOf(k) # TailOf(l)
  BY DEF HeadOf, TailOf, List
<1>4. Ends \cap Block = {}
  <2> SUFFICES ASSUME NEW x \in Ends, x \in Block PROVE FALSE
    OBVIOUS
  <2>1. PICK l \in List : x = HeadOf(l) \/ x = TailOf(l)
    BY DEF Ends
  <2>2. PICK v, i : x = <<v, i>>
    BY DEF Block
  <2> QED
    BY <2>1, <2>2 DEF HeadOf, TailOf
<1> QED
  BY <1>1, <1>2, <1>3, <1>4, HeapAssumption DEF List, Node

LEMMA GetType ==
    ASSUME NEW m \in MemSet, NEW n
    PROVE  Get(m, n) \in Elem
<1>1. Nil \in Elem
  BY EndsAreNot DEF Nil, Elem
<1>2. CASE n \in Ends
  BY <1>2 DEF Get, MemSet
<1>3. CASE n \in Block /\ n \notin Ends
  BY <1>1, <1>3 DEF Get, MemSet, Block
<1> QED
  BY <1>1, <1>2, <1>3 DEF Get

\* A store through a pointer changes one field of one node.
LEMMA PutOne ==
    ASSUME NEW m \in MemSet, NEW n \in Usable(m), NEW e \in Elem
    PROVE  LET w == Put(m, n, e)
           IN  /\ w \in MemSet /\ w.pages = m.pages /\ w.ok = m.ok
               /\ Get(w, n) = e
               /\ \A x : x # n => Get(w, x) = Get(m, x)
<1> DEFINE w == Put(m, n, e)
<1>1. CASE n \in Ends
  <2>1. w = [m EXCEPT !.ends[n] = e]
    BY <1>1 DEF Put
  <2>2. /\ w.pages = m.pages /\ w.ok = m.ok /\ w.link = m.link
        /\ w.ends = [m.ends EXCEPT ![n] = e]
        /\ w \in MemSet
    BY <1>1, <2>1 DEF MemSet
  <2> HIDE DEF w
  <2>3. Get(w, n) = e /\ \A x : x # n => Get(w, x) = Get(m, x)
    BY <1>1, <2>2 DEF Get, MemSet
  <2> QED
    BY <2>2, <2>3 DEF w
<1>2. CASE n \in Block /\ n[1] \in m.pages /\ n \notin Ends
  <2>1. w = [m EXCEPT !.link[n[1]][n[2]] = e]
    BY <1>2 DEF Put
  <2>2. PICK v \in Page, i \in Slot : n = <<v, i>>
    BY <1>2 DEF Block
  <2>3. /\ w.pages = m.pages /\ w.ok = m.ok /\ w.ends = m.ends
        /\ w.link = [m.link EXCEPT ![v][i] = e]
        /\ w \in MemSet
    <3>1. w = [m EXCEPT !.link[v][i] = e]
      BY <2>1, <2>2
    <3>2. m.link \in [Page -> [Slot -> Elem]] /\ DOMAIN m = {"ends", "link", "pages", "ok"}
      BY DEF MemSet
    <3>3. w = [m EXCEPT !.link = [m.link EXCEPT ![v][i] = e]]
      BY <3>1
    <3>4. [m.link EXCEPT ![v][i] = e] \in [Page -> [Slot -> Elem]]
      BY <3>2
    <3> QED
      BY <3>3, <3>4 DEF MemSet
  <2> HIDE DEF w
  <2>4. \A x \in Block : x # n => w.link[x[1]][x[2]] = m.link[x[1]][x[2]]
    BY <2>2, <2>3 DEF MemSet, Block
  <2>5. w.link[v][i] = e
    BY <2>2, <2>3 DEF MemSet
  <2>6. Get(w, n) = e /\ \A x : x # n => Get(w, x) = Get(m, x)
    BY <1>2, <2>2, <2>3, <2>4, <2>5 DEF Get
  <2> QED
    BY <2>3, <2>6 DEF w
<1> QED
  BY <1>1, <1>2 DEF Usable

LEMMA SetNextOne ==
    ASSUME NEW m \in MemSet, NEW n \in Usable(m), NEW val \in Node
    PROVE  LET w == SetNext(m, n, val)
           IN  /\ w \in MemSet /\ w.pages = m.pages /\ w.ok = m.ok
               /\ Get(w, n).next = val /\ Get(w, n).prev = Get(m, n).prev
               /\ \A x : x # n => Get(w, x) = Get(m, x)
<1> DEFINE e == [Get(m, n) EXCEPT !.next = val]
<1>1. e \in Elem /\ e.next = val /\ e.prev = Get(m, n).prev
  BY GetType DEF Elem
<1> QED
  BY <1>1, PutOne DEF SetNext

LEMMA SetPrevOne ==
    ASSUME NEW m \in MemSet, NEW n \in Usable(m), NEW val \in Node
    PROVE  LET w == SetPrev(m, n, val)
           IN  /\ w \in MemSet /\ w.pages = m.pages /\ w.ok = m.ok
               /\ Get(w, n).prev = val /\ Get(w, n).next = Get(m, n).next
               /\ \A x : x # n => Get(w, x) = Get(m, x)
<1> DEFINE e == [Get(m, n) EXCEPT !.prev = val]
<1>1. e \in Elem /\ e.prev = val /\ e.next = Get(m, n).next
  BY GetType DEF Elem
<1> QED
  BY <1>1, PutOne DEF SetPrev
-----------------------------------------------------------------------------
(* The lists *)

\* c has the nodes of list l in m in their order: the head, n blocks that can
\* be used, the tail; neighbours point at each other.
Chain(m, l, c, n) ==
    /\ c[0] = HeadOf(l) /\ c[n + 1] = TailOf(l)
    /\ \A i \in 1 .. n : c[i] \in Block /\ c[i][1] \in m.pages
    /\ \A i, j \in 1 .. n : c[i] = c[j] => i = j
    /\ \A i \in 0 .. n : Get(m, c[i]).next = c[i + 1] /\ Get(m, c[i + 1]).prev = c[i]

\* The list l in m has the blocks of S.
Line(m, l, S) ==
    \E n \in Nat : \E c : Chain(m, l, c, n) /\ S = {c[i] : i \in 1 .. n}

\* Between m and w no other nodes were written than those of N.
Writes(m, w, N) ==
    /\ w \in MemSet /\ w.pages = m.pages /\ w.ok = m.ok
    /\ \A x : x \notin N => Get(w, x) = Get(m, x)

LEMMA ChainNodes ==
    ASSUME NEW m \in MemSet, NEW l \in List, NEW n \in Nat, NEW c, Chain(m, l, c, n)
    PROVE  /\ \A i \in 0 .. n + 1 : c[i] \in Usable(m) /\ c[i] \in Node
           /\ \A i, j \in 0 .. n + 1 : c[i] = c[j] => i = j
           /\ c[0] \in Ends /\ c[n + 1] \in Ends
<1>1. c[0] \in Ends /\ c[n + 1] \in Ends /\ c[0] # c[n + 1]
  BY EndsAreNot DEF Chain
<1>2. \A i \in 1 .. n : c[i] \in Block /\ c[i][1] \in m.pages /\ c[i] \notin Ends
  BY EndsAreNot DEF Chain
<1>3. \A i \in 0 .. n + 1 : i = 0 \/ i = n + 1 \/ i \in 1 .. n
  OBVIOUS
<1>4. \A i, j \in 1 .. n : c[i] = c[j] => i = j
  BY DEF Chain
<1>5. \A i \in 0 .. n + 1 : c[i] \in Usable(m) /\ c[i] \in Node
  BY <1>1, <1>2, <1>3, EndsAreNot DEF Usable
<1>6. ASSUME NEW i \in 0 .. n + 1, NEW j \in 0 .. n + 1, c[i] = c[j] PROVE i = j
  <2>1. CASE i \in 1 .. n
    BY <1>1, <1>2, <1>3, <1>4, <1>6, <2>1
  <2>2. CASE i \notin 1 .. n
    BY <1>1, <1>2, <1>3, <1>6, <2>2
  <2> QED BY <2>1, <2>2
<1> QED
  BY <1>1, <1>5, <1>6

\* list_append
LEMMA AppendLine ==
    ASSUME NEW m \in MemSet, NEW l \in List, NEW S, Line(m, l, S),
           NEW b \in Block, b[1] \in m.pages, b \notin S
    PROVE  /\ Line(ListAppend(m, l, b), l, S \cup {b})
           /\ Writes(m, ListAppend(m, l, b), S \cup {b, HeadOf(l), TailOf(l)})
<1>0. PICK n \in Nat : \E c : Chain(m, l, c, n) /\ S = {c[i] : i \in 1 .. n}
  BY DEF Line
<1>1. PICK c : Chain(m, l, c, n) /\ S = {c[i] : i \in 1 .. n}
  BY <1>0
<1>2. /\ \A i \in 0 .. n + 1 : c[i] \in Usable(m) /\ c[i] \in Node
      /\ \A i, j \in 0 .. n + 1 : c[i] = c[j] => i = j
      /\ c[0] \in Ends /\ c[n + 1] \in Ends
  BY <1>1, ChainNodes
<1>3. b \in Usable(m) /\ b \in Node /\ b \notin Ends
  BY EndsAreNot DEF Usable
<1> DEFINE last == c[n]
           tail == TailOf(l)
<1>4. /\ last \in Usable(m) /\ last \in Node /\ tail \in Usable(m) /\ tail \in Node
      /\ Get(m, tail).prev = last /\ tail = c[n + 1] /\ last # tail /\ last # b /\ tail # b
      /\ \A i \in 0 .. n + 1 : c[i] # b
  <2>1. n \in 0 .. n /\ n \in 0 .. n + 1 /\ n + 1 \in 0 .. n + 1 /\ n # n + 1
    OBVIOUS
  <2>2. \A i \in 0 .. n + 1 : c[i] # b
    <3>1. \A i \in 1 .. n : c[i] # b
      BY <1>1
    <3> QED
      BY <1>2, <1>3, <3>1
  <2> QED
    BY <1>1, <1>2, <2>1, <2>2 DEF Chain
<1> DEFINE m1 == SetNext(m, last, b)
           m2 == SetPrev(m1, b, last)
           m3 == SetPrev(m2, tail, b)
           m4 == SetNext(m3, b, tail)
<1>5. ListAppend(m, l, b) = m4
  BY <1>4 DEF ListAppend
<1>6. /\ m1 \in MemSet /\ m1.pages = m.pages /\ m1.ok = m.ok
      /\ Get(m1, last).next = b /\ Get(m1, last).prev = Get(m, last).prev
      /\ \A x : x # last => Get(m1, x) = Get(m, x)
  BY <1>3, <1>4, SetNextOne
<1> HIDE DEF m1
<1>7. /\ m2 \in MemSet /\ m2.pages = m.pages /\ m2.ok = m.ok
      /\ Get(m2, b).prev = last /\ Get(m2, b).next = Get(m1, b).next
      /\ \A x : x # b => Get(m2, x) = Get(m1, x)
  <2>1. m1 \in MemSet /\ b \in Usable(m1) /\ last \in Node
    BY <1>3, <1>4, <1>6 DEF Usable
  <2>2. /\ m2 \in MemSet /\ m2.pages = m1.pages /\ m2.ok = m1.ok
        /\ Get(m2, b).prev = last /\ Get(m2, b).next = Get(m1, b).next
        /\ \A x : x # b => Get(m2, x) = Get(m1, x)
    BY <2>1, SetPrevOne
  <2> QED
    BY <1>6, <2>2
<1> HIDE DEF m2
<1>7a. Usable(m1) = Usable(m) /\ Usable(m2) = Usable(m)
  BY <1>6, <1>7 DEF Usable
<1>8. /\ m3 \in MemSet /\ m3.pages = m.pages /\ m3.ok = m.ok
      /\ Get(m3, tail).prev = b /\ Get(m3, tail).next = Get(m2, tail).next
      /\ \A x : x # tail => Get(m3, x) = Get(m2, x)
  <2>1. m2 \in MemSet /\ tail \in Usable(m2) /\ b \in Node
    BY <1>3, <1>4, <1>7, <1>7a
  <2>2. /\ m3 \in MemSet /\ m3.pages = m2.pages /\ m3.ok = m2.ok
        /\ Get(m3, tail).prev = b /\ Get(m3, tail).next = Get(m2, tail).next
        /\ \A x : x # tail => Get(m3, x) = Get(m2, x)
    BY <2>1, SetPrevOne
  <2> QED
    BY <1>7, <2>2
<1> HIDE DEF m3
<1>9. /\ m4 \in MemSet /\ m4.pages = m.pages /\ m4.ok = m.ok
      /\ Get(m4, b).next = tail /\ Get(m4, b).prev = Get(m3, b).prev
      /\ \A x : x # b => Get(m4, x) = Get(m3, x)
  <2>1. m3 \in MemSet /\ b \in Usable(m3) /\ tail \in Node
    BY <1>3, <1>4, <1>8 DEF Usable
  <2>2. /\ m4 \in MemSet /\ m4.pages = m3.pages /\ m4.ok = m3.ok
        /\ Get(m4, b).next = tail /\ Get(m4, b).prev = Get(m3, b).prev
        /\ \A x : x # b => Get(m4, x) = Get(m3, x)
    BY <2>1, SetNextOne
  <2> QED
    BY <1>8, <2>2
<1> HIDE DEF m4
<1>10. /\ Get(m4, last).next = b /\ Get(m4, last).prev = Get(m, last).prev
       /\ Get(m4, b).prev = last /\ Get(m4, b).next = tail
       /\ Get(m4, tail).prev = b /\ Get(m4, tail).next = Get(m, tail).next
       /\ \A x : x \notin {last, b, tail} => Get(m4, x) = Get(m, x)
  BY <1>4, <1>6, <1>7, <1>8, <1>9
<1> DEFINE d == [i \in 0 .. n + 2 |-> IF i <= n THEN c[i] ELSE IF i = n + 1 THEN b ELSE tail]
<1>11. /\ \A i \in 0 .. n : d[i] = c[i]
       /\ d[n + 1] = b /\ d[n + 2] = tail
  OBVIOUS
<1> HIDE DEF d
<1>12. Chain(m4, l, d, n + 1)
  <2>1. d[0] = HeadOf(l) /\ d[(n + 1) + 1] = TailOf(l)
    BY <1>1, <1>11 DEF Chain
  <2>2. \A i \in 1 .. n + 1 : i \in 1 .. n \/ i = n + 1
    OBVIOUS
  <2>3. \A i \in 1 .. n : i \in 0 .. n /\ i \in 0 .. n + 1
    OBVIOUS
  <2>4. \A i \in 1 .. n + 1 : d[i] \in Block /\ d[i][1] \in m4.pages
    BY <1>1, <1>9, <1>11, <2>2, <2>3 DEF Chain
  <2>5. \A i, j \in 1 .. n + 1 : d[i] = d[j] => i = j
    BY <1>2, <1>4, <1>11, <2>2, <2>3
  <2>6. ASSUME NEW i \in 0 .. n + 1
        PROVE  Get(m4, d[i]).next = d[i + 1] /\ Get(m4, d[i + 1]).prev = d[i]
    <3>1. CASE i = n + 1
      BY <1>10, <1>11, <3>1
    <3>2. CASE i = n
      BY <1>10, <1>11, <3>2
    <3>3. CASE i \in 0 .. n - 1
      <4>1. i \in 0 .. n /\ i + 1 \in 0 .. n /\ i \in 0 .. n + 1 /\ i # n /\ n \in 0 .. n + 1
            /\ i # n + 1 /\ n + 1 \in 0 .. n + 1 /\ i + 1 \in 0 .. n + 1 /\ i + 1 # n + 1
        BY <3>3
      <4>2. d[i] = c[i] /\ d[i + 1] = c[i + 1]
        BY <1>11, <4>1
      <4>3. Get(m, c[i]).next = c[i + 1] /\ Get(m, c[i + 1]).prev = c[i]
        BY <1>1, <4>1 DEF Chain
      <4>4. c[i] \notin {last, b, tail}
        BY <1>2, <1>4, <4>1
      <4>5. c[i + 1] # b /\ c[i + 1] # tail
        BY <1>2, <1>4, <4>1
      <4>6. Get(m4, c[i + 1]).prev = Get(m, c[i + 1]).prev
        BY <1>10, <4>5
      <4> QED
        BY <1>10, <4>2, <4>3, <4>4, <4>6
    <3> QED
      BY <3>1, <3>2, <3>3
  <2> QED
    BY <2>1, <2>4, <2>5, <2>6 DEF Chain
<1>13. S \cup {b} = {d[i] : i \in 1 .. n + 1}
  <2>1. \A i \in 1 .. n : d[i] = c[i] /\ i \in 1 .. n + 1
    BY <1>11
  <2>2. \A i \in 1 .. n + 1 : i \in 1 .. n \/ i = n + 1
    OBVIOUS
  <2>3. n + 1 \in 1 .. n + 1
    OBVIOUS
  <2> QED
    BY <1>1, <1>11, <2>1, <2>2, <2>3
<1>14. Line(m4, l, S \cup {b})
  <2>1. n + 1 \in Nat
    OBVIOUS
  <2> QED
    BY <1>12, <1>13, <2>1 DEF Line
<1>15. last \in S \cup {HeadOf(l)}
  <2>1. n = 0 \/ n \in 1 .. n
    OBVIOUS
  <2> QED
    BY <1>1, <2>1 DEF Chain
<1> QED
  BY <1>5, <1>9, <1>10, <1>14, <1>15 DEF Writes

\* list_remove
LEMMA RemoveLine ==
    ASSUME NEW m \in MemSet, NEW l \in List, NEW S, Line(m, l, S), NEW b \in S
    PROVE  /\ Line(ListRemove(m, b), l, S \ {b})
           /\ Writes(m, ListRemove(m, b), S \cup {HeadOf(l), TailOf(l)})
<1>0. PICK n \in Nat : \E c : Chain(m, l, c, n) /\ S = {c[i] : i \in 1 .. n}
  BY DEF Line
<1>1. PICK c : Chain(m, l, c, n) /\ S = {c[i] : i \in 1 .. n}
  BY <1>0
<1>2. /\ \A i \in 0 .. n + 1 : c[i] \in Usable(m) /\ c[i] \in Node
      /\ \A i, j \in 0 .. n + 1 : c[i] = c[j] => i = j
      /\ c[0] \in Ends /\ c[n + 1] \in Ends
  BY <1>1, ChainNodes
<1>3. PICK k \in 1 .. n : b = c[k]
  BY <1>1
<1> DEFINE before == c[k - 1]
           behind == c[k + 1]
<1>4. k - 1 \in 0 .. n /\ k - 1 \in 0 .. n + 1 /\ k \in 0 .. n /\ k \in 0 .. n + 1 /\ k + 1 \in 0 .. n + 1
  OBVIOUS
<1>5. /\ before \in Usable(m) /\ before \in Node /\ behind \in Usable(m) /\ behind \in Node
      /\ before # behind /\ before # b /\ behind # b
      /\ Get(m, b).prev = before /\ Get(m, b).next = behind
  <2>1. k - 1 # k + 1 /\ k - 1 # k /\ k + 1 # k /\ (k - 1) + 1 = k
    OBVIOUS
  <2> QED
    BY <1>1, <1>2, <1>3, <1>4, <2>1 DEF Chain
<1> DEFINE m1 == SetNext(m, before, behind)
           m2 == SetPrev(m1, behind, before)
<1>6. ListRemove(m, b) = m2
  BY <1>5 DEF ListRemove
<1> HIDE DEF before, behind
<1>7. /\ m1 \in MemSet /\ m1.pages = m.pages /\ m1.ok = m.ok
      /\ Get(m1, before).next = behind /\ Get(m1, before).prev = Get(m, before).prev
      /\ \A x : x # before => Get(m1, x) = Get(m, x)
  BY <1>5, SetNextOne
<1> HIDE DEF m1
<1>8. /\ m2 \in MemSet /\ m2.pages = m.pages /\ m2.ok = m.ok
      /\ Get(m2, behind).prev = before /\ Get(m2, behind).next = Get(m1, behind).next
      /\ \A x : x # behind => Get(m2, x) = Get(m1, x)
  BY <1>5, <1>7, SetPrevOne DEF Usable
<1> HIDE DEF m2
<1>9. /\ Get(m2, before).next = behind /\ Get(m2, before).prev = Get(m, before).prev
      /\ Get(m2, behind).prev = before /\ Get(m2, behind).next = Get(m, behind).next
      /\ \A x : x \notin {before, behind} => Get(m2, x) = Get(m, x)
  BY <1>5, <1>7, <1>8
<1> DEFINE Old(i) == IF i < k THEN i ELSE i + 1
           d == [i \in 0 .. n |-> c[Old(i)]]
<1>10. /\ \A i \in 0 .. n : d[i] = c[Old(i)] /\ Old(i) \in 0 .. n + 1 /\ Old(i) # k
       /\ \A i, j \in 0 .. n : Old(i) = Old(j) => i = j
       /\ Old(0) = 0 /\ Old(n) = n + 1 /\ \A i \in 1 .. n - 1 : Old(i) \in 1 .. n /\ i \in 0 .. n
  OBVIOUS
<1>11. \A i \in 0 .. n - 1 : Get(m2, d[i]).next = d[i + 1] /\ Get(m2, d[i + 1]).prev = d[i]
  <2> TAKE i \in 0 .. n - 1
  <2>1. i \in 0 .. n /\ i + 1 \in 0 .. n
    OBVIOUS
  <2>2. d[i] = c[Old(i)] /\ d[i + 1] = c[Old(i + 1)]
    BY <1>10, <2>1
  <2>3. CASE i = k - 1
    <3>1. Old(i) = k - 1 /\ Old(i + 1) = k + 1
      BY <2>3
    <3> QED
      BY <1>9, <2>2, <3>1 DEF before, behind
  <2>4. CASE i # k - 1
    <3>1. Old(i + 1) = Old(i) + 1 /\ Old(i) \in 0 .. n /\ Old(i) \in 0 .. n + 1 /\ Old(i) + 1 \in 0 .. n + 1
      BY <2>4
    <3>2. Old(i) # k - 1 /\ Old(i) + 1 # k + 1
      BY <2>4
    <3> DEFINE j == Old(i)
    <3> HIDE DEF j
    <3>3. c[j] # before /\ c[j + 1] # behind
      BY <1>2, <1>4, <3>1, <3>2 DEF before, behind, j
    <3>4. Get(m, c[j]).next = c[j + 1] /\ Get(m, c[j + 1]).prev = c[j]
      BY <1>1, <3>1 DEF Chain, j
    <3>5. Get(m2, c[j]).next = Get(m, c[j]).next
      BY <1>9, <3>3
    <3>6. Get(m2, c[j + 1]).prev = Get(m, c[j + 1]).prev
      BY <1>9, <3>3
    <3>7. d[i] = c[j] /\ d[i + 1] = c[j + 1]
      BY <2>2, <3>1 DEF j
    <3> QED
      BY <3>4, <3>5, <3>6, <3>7
  <2> QED
    BY <2>3, <2>4
<1>12. Chain(m2, l, d, n - 1)
  <2>1. d[0] = HeadOf(l) /\ d[(n - 1) + 1] = TailOf(l)
    <3>1. 0 \in 0 .. n /\ n \in 0 .. n /\ (n - 1) + 1 = n
      OBVIOUS
    <3> QED
      BY <1>1, <1>10, <3>1 DEF Chain
  <2>2. \A i \in 1 .. n - 1 : d[i] \in Block /\ d[i][1] \in m2.pages
    <3> TAKE i \in 1 .. n - 1
    <3>1. d[i] = c[Old(i)] /\ Old(i) \in 1 .. n
      BY <1>10
    <3> QED
      BY <1>1, <1>8, <3>1 DEF Chain
  <2>3. \A i, j \in 1 .. n - 1 : d[i] = d[j] => i = j
    <3> TAKE i, j \in 1 .. n - 1
    <3>1. d[i] = c[Old(i)] /\ Old(i) \in 0 .. n + 1 /\ d[j] = c[Old(j)] /\ Old(j) \in 0 .. n + 1
      BY <1>10
    <3>2. Old(i) = Old(j) => i = j
      BY <1>10
    <3> HIDE DEF Old, d
    <3> QED
      BY <1>2, <3>1, <3>2
  <2> HIDE DEF d, Old
  <2> QED
    BY <1>11, <2>1, <2>2, <2>3 DEF Chain
<1>13. S \ {b} = {d[i] : i \in 1 .. n - 1}
  <2>1. ASSUME NEW i \in 1 .. n - 1 PROVE d[i] \in S \ {b}
    <3>1. d[i] = c[Old(i)] /\ Old(i) \in 1 .. n /\ Old(i) \in 0 .. n + 1 /\ Old(i) # k
      BY <1>10
    <3> HIDE DEF Old, d
    <3> QED
      BY <1>1, <1>2, <1>3, <1>4, <3>1
  <2>2. ASSUME NEW x \in S \ {b} PROVE \E i \in 1 .. n - 1 : d[i] = x
    <3>1. PICK j \in 1 .. n : x = c[j]
      BY <1>1
    <3>2. j # k
      BY <1>3, <3>1
    <3> DEFINE i == IF j < k THEN j ELSE j - 1
    <3>3. i \in 1 .. n - 1 /\ Old(i) = j /\ i \in 0 .. n
      BY <3>2
    <3> HIDE DEF i
    <3>4. d[i] = c[j]
      BY <3>3
    <3> QED
      BY <3>1, <3>3, <3>4
  <2> HIDE DEF d
  <2> QED
    BY <2>1, <2>2
<1>14. Line(m2, l, S \ {b})
  <2>1. n - 1 \in Nat
    OBVIOUS
  <2> HIDE DEF d
  <2> QED
    BY <1>12, <1>13, <2>1 DEF Line
<1>15. before \in S \cup {HeadOf(l)} /\ behind \in S \cup {TailOf(l)}
  <2>1. (k - 1 = 0 \/ k - 1 \in 1 .. n) /\ (k + 1 = n + 1 \/ k + 1 \in 1 .. n)
    OBVIOUS
  <2> QED
    BY <1>1, <2>1 DEF Chain, before, behind
<1> QED
  BY <1>6, <1>8, <1>9, <1>14, <1>15 DEF Writes

\* Who is on a list
LEMMA LineBlocks ==
    ASSUME NEW m \in MemSet, NEW l \in List, NEW S, Line(m, l, S)
    PROVE  /\ S \subseteq Block /\ \A b \in S : b[1] \in m.pages
           /\ S \subseteq Usable(m)
BY DEF Line, Chain, Usable

\* Each neighbour points back.
LEMMA LinePointsBack ==
    ASSUME NEW m \in MemSet, NEW l \in List, NEW S, Line(m, l, S)
    PROVE  \A x \in S \cup {HeadOf(l)} : Get(m, Get(m, x).next).prev = x
<1>0. PICK n \in Nat : \E c : Chain(m, l, c, n) /\ S = {c[i] : i \in 1 .. n}
  BY DEF Line
<1>1. PICK c : Chain(m, l, c, n) /\ S = {c[i] : i \in 1 .. n}
  BY <1>0
<1>2. ASSUME NEW x \in S \cup {HeadOf(l)} PROVE Get(m, Get(m, x).next).prev = x
  <2>1. PICK i \in 0 .. n : x = c[i]
    <3>1. \A i \in 1 .. n : i \in 0 .. n
      OBVIOUS
    <3>2. 0 \in 0 .. n
      OBVIOUS
    <3> QED
      BY <1>1, <3>1, <3>2 DEF Chain
  <2> QED
    BY <1>1, <2>1 DEF Chain
<1> QED
  BY <1>2

LEMMA FirstOfLine ==
    ASSUME NEW m \in MemSet, NEW l \in List, NEW S, Line(m, l, S)
    PROVE  /\ S = {} => m.ends[HeadOf(l)].next = TailOf(l)
           /\ S # {} => m.ends[HeadOf(l)].next \in S
           /\ m.ends[HeadOf(l)].next # TailOf(l) <=> S # {}
<1>0. PICK n \in Nat : \E c : Chain(m, l, c, n) /\ S = {c[i] : i \in 1 .. n}
  BY DEF Line
<1>1. PICK c : Chain(m, l, c, n) /\ S = {c[i] : i \in 1 .. n}
  BY <1>0
<1>2. m.ends[HeadOf(l)].next = c[1]
  <2>1. 0 \in 0 .. n /\ 0 + 1 = 1
    OBVIOUS
  <2>2. Get(m, HeadOf(l)) = m.ends[HeadOf(l)]
    BY EndsAreNot DEF Get
  <2> QED
    BY <1>1, <2>1, <2>2 DEF Chain
<1>3. CASE n = 0
  BY <1>1, <1>2, <1>3 DEF Chain
<1>4. CASE n # 0
  <2>1. 1 \in 1 .. n
    BY <1>4
  <2>2. TailOf(l) \notin S
    BY LineBlocks, EndsAreNot
  <2> QED
    BY <1>1, <1>2, <2>1, <2>2
<1> QED
  BY <1>3, <1>4

LEMMA LineStays ==
    ASSUME NEW m \in MemSet, NEW w \in MemSet, NEW l \in List, NEW S, Line(m, l, S),
           \A x \in S \cup {HeadOf(l), TailOf(l)} : Get(w, x) = Get(m, x),
           \A b \in S : b[1] \in w.pages
    PROVE  Line(w, l, S)
<1>0. PICK n \in Nat : \E c : Chain(m, l, c, n) /\ S = {c[i] : i \in 1 .. n}
  BY DEF Line
<1>1. PICK c : Chain(m, l, c, n) /\ S = {c[i] : i \in 1 .. n}
  BY <1>0
<1>2. \A i \in 0 .. n + 1 : c[i] \in S \cup {HeadOf(l), TailOf(l)}
  <2>1. \A i \in 0 .. n + 1 : i = 0 \/ i = n + 1 \/ i \in 1 .. n
    OBVIOUS
  <2> QED
    BY <1>1, <2>1 DEF Chain
<1>3. \A i \in 0 .. n : i \in 0 .. n + 1 /\ i + 1 \in 0 .. n + 1
  OBVIOUS
<1>4. \A i \in 0 .. n : Get(w, c[i]).next = c[i + 1] /\ Get(w, c[i + 1]).prev = c[i]
  BY <1>1, <1>2, <1>3 DEF Chain
<1>5. \A i \in 1 .. n : c[i] \in Block /\ c[i][1] \in w.pages
  BY <1>1 DEF Chain
<1>6. Chain(w, l, c, n)
  BY <1>1, <1>4, <1>5 DEF Chain
<1> QED
  BY <1>1, <1>6 DEF Line

LEMMA BlocksFinite == IsFiniteSet(Block) /\ Cardinality(Block) \in Nat
<1>1. IsFiniteSet(Page)
  <2>1. 0 \in Int /\ VSize - 1 \in Int
    BY HeapAssumption
  <2> QED
    BY <2>1, FS_Interval DEF Page
<1> DEFINE top == Max({PerArena[d] : d \in Desc})
<1>2. top \in Nat
  BY SlotsAre
<1>3. IsFiniteSet(Slot)
  <2>1. Slot = 0 .. top - 1
    BY DEF Slot
  <2> HIDE DEF top
  <2>2. 0 \in Int /\ top - 1 \in Int
    BY <1>2
  <2> QED
    BY <2>1, <2>2, FS_Interval
<1>4. IsFiniteSet(Block)
  BY <1>1, <1>3, FS_Product DEF Block
<1> QED
  BY <1>4, FS_CardinalityType

\* elem_find meets the blocks of the list, and no others.
LEMMA ElementsOfLine ==
    ASSUME NEW m \in MemSet, NEW l \in List, NEW S, Line(m, l, S)
    PROVE  Elements(m, l) = S
<1>0. PICK n \in Nat : \E c : Chain(m, l, c, n) /\ S = {c[i] : i \in 1 .. n}
  BY DEF Line
<1>1. PICK c : Chain(m, l, c, n) /\ S = {c[i] : i \in 1 .. n}
  BY <1>0
<1> DEFINE K == Cardinality(Block)
           tail == TailOf(l)
<1>2. K \in Nat
  BY BlocksFinite
<1>3. n <= K
  <2> DEFINE f == [i \in 1 .. n |-> c[i]]
  <2>1. f \in Injection(1 .. n, Block)
    BY <1>1 DEF Chain, Injection, IsInjective
  <2>2. IsFiniteSet(1 .. n) /\ Cardinality(1 .. n) = n
    <3>1. 1 \in Int /\ n \in Int
      OBVIOUS
    <3> QED
      BY <3>1, FS_Interval
  <2>3. \E g : g \in Injection(1 .. n, Block)
    BY <2>1
  <2>4. Cardinality(1 .. n) <= K
    BY <2>3, <2>2, BlocksFinite, FS_Injection
  <2> QED
    BY <2>2, <2>4
<1>4. Get(m, HeadOf(l)) = m.ends[HeadOf(l)]
  BY EndsAreNot DEF Get
<1> DEFINE g == [k \in 0 .. K |-> IF k < n THEN c[k + 1] ELSE tail]
<1>5. \A k \in 0 .. K : g[k] = IF k = 0 THEN m.ends[HeadOf(l)].next
                               ELSE LET x == g[k - 1]
                                    IN  IF x = tail THEN x ELSE Get(m, x).next
  <2> TAKE k \in 0 .. K
  <2>1. CASE k = 0
    <3>1. g[k] = c[1]
      <4>1. n = 0 => c[1] = tail
        BY <1>1 DEF Chain
      <4> QED
        BY <2>1, <4>1
    <3>2. m.ends[HeadOf(l)].next = c[1]
      <4>1. 0 \in 0 .. n /\ 0 + 1 = 1
        OBVIOUS
      <4> QED
        BY <1>1, <1>4, <4>1 DEF Chain
    <3> QED
      BY <2>1, <3>1, <3>2
  <2>2. CASE k # 0 /\ k - 1 < n
    <3>0. k - 1 \in 0 .. K /\ (k - 1) + 1 = k
      BY <1>2, <2>2
    <3>1. g[k - 1] = c[k] /\ k \in 1 .. n /\ k \in 0 .. n
      BY <1>2, <2>2, <3>0
    <3>2. c[k] # tail
      BY <1>1, <3>1, EndsAreNot DEF Chain
    <3>3. Get(m, c[k]).next = c[k + 1]
      BY <1>1, <3>1 DEF Chain
    <3>4. g[k] = c[k + 1]
      <4>1. k = n => c[k + 1] = tail
        BY <1>1 DEF Chain
      <4> QED
        BY <3>1, <4>1
    <3> QED
      BY <2>2, <3>1, <3>2, <3>3, <3>4
  <2>3. CASE k # 0 /\ ~(k - 1 < n)
    <3>1. g[k - 1] = tail /\ g[k] = tail
      <4>1. k - 1 \in 0 .. K /\ ~(k < n)
        BY <1>2, <2>3
      <4> QED
        BY <2>3, <4>1
    <3> QED
      BY <2>3, <3>1
  <2> QED
    BY <2>1, <2>2, <2>3
<1>6. g = [k \in 0 .. K |-> IF k = 0 THEN m.ends[HeadOf(l)].next
                            ELSE LET x == g[k - 1]
                                 IN  IF x = tail THEN x ELSE Get(m, x).next]
  BY <1>5
<1> DEFINE walk[k \in 0 .. K] == IF k = 0 THEN m.ends[HeadOf(l)].next
                                 ELSE LET x == walk[k - 1]
                                      IN  IF x = tail THEN x ELSE Get(m, x).next
<1>7. walk = [k \in 0 .. K |-> IF k = 0 THEN m.ends[HeadOf(l)].next
                               ELSE LET x == walk[k - 1]
                                    IN  IF x = tail THEN x ELSE Get(m, x).next]
  <2> HIDE DEF g
  <2> QED
    BY <1>6
<1>8. Elements(m, l) = {walk[k] : k \in 0 .. K} \ {tail}
  BY DEF Elements
<1> HIDE DEF walk
<1>9. \A k \in 0 .. K : walk[k] = g[k]
  <2> DEFINE Bad == {k \in 0 .. K : walk[k] # g[k]}
  <2>1. CASE Bad = {}
    BY <2>1
  <2>2. CASE Bad # {}
    <3>1. Bad \subseteq Nat
      OBVIOUS
    <3>2. PICK k \in Bad : \A j \in Bad : k <= j
      BY <2>2, <3>1, Least
    <3>3. k \in 0 .. K /\ walk[k] # g[k]
      BY <3>2
    <3> HIDE DEF g
    <3>4. CASE k = 0
      BY <1>5, <1>7, <3>3, <3>4
    <3>5. CASE k # 0
      <4>1. k - 1 \in 0 .. K /\ ~(k <= k - 1)
        BY <1>2, <3>3, <3>5
      <4>2. walk[k - 1] = g[k - 1]
        BY <3>2, <4>1
      <4>3. walk[k] = LET x == walk[k - 1] IN IF x = tail THEN x ELSE Get(m, x).next
        BY <1>7, <3>3, <3>5
      <4>4. g[k] = LET x == g[k - 1] IN IF x = tail THEN x ELSE Get(m, x).next
        BY <1>5, <3>3, <3>5
      <4> QED
        BY <3>3, <4>2, <4>3, <4>4
    <3> QED
      BY <3>4, <3>5
  <2> QED
    BY <2>1, <2>2
<1>10. {g[k] : k \in 0 .. K} \ {tail} = S
  <2>1. ASSUME NEW k \in 0 .. K, g[k] # tail PROVE g[k] \in S
    <3>1. k < n /\ g[k] = c[k + 1] /\ k + 1 \in 1 .. n
      BY <2>1
    <3> QED
      BY <1>1, <3>1
  <2>2. ASSUME NEW i \in 1 .. n PROVE c[i] # tail /\ \E k \in 0 .. K : g[k] = c[i]
    <3>1. i - 1 \in 0 .. K /\ g[i - 1] = c[i]
      BY <1>2, <1>3
    <3>2. c[i] # tail
      BY <1>1, EndsAreNot DEF Chain
    <3> QED
      BY <3>1, <3>2
  <2> HIDE DEF g
  <2> QED
    BY <1>1, <2>1, <2>2
<1> HIDE DEF g, K, tail
<1> QED
  BY <1>8, <1>9, <1>10
-----------------------------------------------------------------------------
(* Arenas are carved and given back: a loop over their blocks *)

LEMMA InsistTrue ==
    ASSUME NEW m \in MemSet, NEW holds, holds
    PROVE  Insist(m, holds) = m
<1>1. m.ok /\ TRUE <=> m.ok
  OBVIOUS
<1>2. holds <=> TRUE
  OBVIOUS
<1>3. (m.ok /\ holds) = m.ok
  BY <1>2 DEF MemSet
<1> QED
  BY <1>3 DEF Insist, MemSet

LEMMA WritesChain ==
    ASSUME NEW m, NEW u, NEW w, NEW M, NEW N, Writes(m, u, M), Writes(u, w, N)
    PROVE  Writes(m, w, M \cup N)
BY DEF Writes

LEMMA ClearedWrites ==
    ASSUME NEW m \in MemSet, NEW pages \in SUBSET Page
    PROVE  Writes(m, Cleared(m, pages), {b \in Block : b[1] \in pages})
<1> DEFINE w == Cleared(m, pages)
<1>1. w = [m EXCEPT !.link = [v \in Page |->
               IF v \in pages THEN [i \in Slot |-> Nil] ELSE m.link[v]]]
  BY DEF Cleared
<1>2. Nil \in Elem
  BY EndsAreNot DEF Nil, Elem
<1>3. /\ w \in MemSet /\ w.pages = m.pages /\ w.ok = m.ok /\ w.ends = m.ends
      /\ \A v \in Page \ pages : w.link[v] = m.link[v]
  BY <1>1, <1>2 DEF MemSet
<1> HIDE DEF w
<1>4. \A x : x \notin {b \in Block : b[1] \in pages} => Get(w, x) = Get(m, x)
  <2> SUFFICES ASSUME NEW x, x \notin {b \in Block : b[1] \in pages} PROVE Get(w, x) = Get(m, x)
    OBVIOUS
  <2>1. x \in Block => x[1] \in Page \ pages
    BY DEF Block
  <2> QED
    BY <1>3, <2>1 DEF Get
<1>5. Writes(m, w, {b \in Block : b[1] \in pages})
  BY <1>3, <1>4 DEF Writes
<1> QED
  BY <1>5 DEF w

\* What the loop of sys_malloc or that of sys_free has done after k blocks
Turn(acc, l, b, carve) ==
    IF carve THEN ListAppend(Insist(acc, b \notin Elements(acc, l)), l, b)
    ELSE ListRemove(Insist(acc, b \in Elements(acc, l)), b)

Loop(f, m, l, page, K, carve) ==
    f = [k \in 0 .. K |-> IF k = 0 THEN m
                          ELSE Turn(f[k - 1], l, <<page, k - 1>>, carve)]

LEMMA LoopExists ==
    ASSUME NEW m, NEW l, NEW page, NEW K \in Nat, NEW carve
    PROVE  \E f : Loop(f, m, l, page, K, carve)
<1> DEFINE Bad == {n \in Nat : ~ \E f : Loop(f, m, l, page, n, carve)}
<1>1. CASE Bad = {}
  BY <1>1
<1>2. CASE Bad # {}
  <2>1. PICK n \in Bad : \A k \in Bad : n <= k
    BY <1>2, Least
  <2>2. CASE n = 0
    <3> DEFINE f == [k \in 0 .. 0 |-> m]
    <3>1. \A k \in 0 .. 0 : k = 0
      OBVIOUS
    <3>2. f = [k \in 0 .. 0 |-> IF k = 0 THEN m ELSE Turn(f[k - 1], l, <<page, k - 1>>, carve)]
      BY <3>1
    <3> QED
      BY <2>1, <2>2, <3>2 DEF Loop
  <2>3. CASE n # 0
    <3>1. n - 1 \in Nat /\ n - 1 \notin Bad
      <4>1. n \in Nat /\ n - 1 \in Nat /\ ~(n <= n - 1)
        BY <2>1, <2>3
      <4> HIDE DEF Bad
      <4> QED BY <2>1, <4>1
    <3>2. PICK g : Loop(g, m, l, page, n - 1, carve)
      BY <3>1
    <3> DEFINE f == [k \in 0 .. n |-> IF k = n THEN Turn(g[n - 1], l, <<page, n - 1>>, carve)
                                      ELSE g[k]]
    <3>3. \A k \in 0 .. n : f[k] = IF k = 0 THEN m ELSE Turn(f[k - 1], l, <<page, k - 1>>, carve)
      <4> TAKE k \in 0 .. n
      <4>1. CASE k = n
        <5>1. n - 1 \in 0 .. n /\ n - 1 # n
          BY <3>1
        <5> QED  BY <2>3, <4>1, <5>1
      <4>2. CASE k # n
        <5>1. k \in 0 .. n - 1 /\ (k # 0 => k - 1 \in 0 .. n /\ k - 1 # n)
          BY <3>1, <4>2
        <5>2. g[k] = IF k = 0 THEN m ELSE Turn(g[k - 1], l, <<page, k - 1>>, carve)
          BY <3>2, <5>1 DEF Loop
        <5>3. f[k] = g[k] /\ (k # 0 => f[k - 1] = g[k - 1])
          BY <4>2, <5>1
        <5> QED  BY <5>2, <5>3
      <4> QED BY <4>1, <4>2
    <3>4. f = [k \in 0 .. n |-> IF k = 0 THEN m ELSE Turn(f[k - 1], l, <<page, k - 1>>, carve)]
      BY <3>3
    <3>5. Loop(f, m, l, page, n, carve)
      BY <3>4 DEF Loop
    <3> QED
      BY <3>5, <2>1
  <2> QED
    BY <2>2, <2>3
<1> QED
  BY <1>1, <1>2

\* The blocks of page that the loop has had after k turns
Had(page, k) == {<<page, i>> : i \in 0 .. k - 1}

LEMMA LoopHolds ==
    ASSUME NEW m \in MemSet, NEW l \in List, NEW page \in Page, NEW carve \in BOOLEAN,
           NEW S, Line(m, l, S), page \in m.pages,
           NEW K \in Nat, \A i \in 0 .. K - 1 : <<page, i>> \in Block,
           IF carve THEN S \cap Had(page, K) = {} ELSE Had(page, K) \subseteq S,
           NEW f, Loop(f, m, l, page, K, carve), NEW k \in 0 .. K
    PROVE  /\ Line(f[k], l, IF carve THEN S \cup Had(page, k) ELSE S \ Had(page, k))
           /\ Writes(m, f[k], S \cup Had(page, K) \cup {HeadOf(l), TailOf(l)})
<1> DEFINE Now(n) == IF carve THEN S \cup Had(page, n) ELSE S \ Had(page, n)
           N == S \cup Had(page, K) \cup {HeadOf(l), TailOf(l)}
           Good(n) == Line(f[n], l, Now(n)) /\ Writes(m, f[n], N)
           Bad == {n \in 0 .. K : ~Good(n)}
<1>1. CASE Bad = {}
  BY <1>1
<1>2. CASE Bad # {}
  <2>1. Bad \subseteq Nat
    OBVIOUS
  <2>2. PICK n \in Bad : \A j \in Bad : n <= j
    BY <1>2, <2>1, Least
  <2>3. n \in 0 .. K /\ ~Good(n)
    BY <2>2
  <2>4. CASE n = 0
    <3>1. Had(page, 0) = {}
      BY DEF Had
    <3>2. f[0] = m
      BY <2>3, <2>4 DEF Loop
    <3>3. Now(0) = S
      BY <3>1
    <3>4. Line(f[0], l, Now(0))
      BY <3>2, <3>3
    <3>5. Writes(m, f[0], N)
      BY <3>2 DEF Writes
    <3> QED
      BY <2>3, <2>4, <3>4, <3>5
  <2>5. CASE n # 0
    <3> DEFINE b == <<page, n - 1>>
               acc == f[n - 1]
    <3>1. n - 1 \in 0 .. K /\ n - 1 \in 0 .. K - 1 /\ ~(n <= n - 1)
      BY <2>3, <2>5
    <3>2. Good(n - 1)
      <4> HIDE DEF Good
      <4> QED BY <2>2, <3>1
    <3>3. acc \in MemSet /\ acc.pages = m.pages
      BY <3>2 DEF Writes
    <3>4. b \in Block /\ b[1] \in acc.pages /\ b \notin Had(page, n - 1) /\ b \in Had(page, K)
      <4>1. b \notin Had(page, n - 1)
        <5>1. \A i \in 0 .. (n - 1) - 1 : i # n - 1
          OBVIOUS
        <5> QED
          BY <5>1 DEF Had
      <4>2. b \in Had(page, K)
        BY <3>1 DEF Had
      <4>3. b \in Block
        BY <3>1
      <4> QED
        BY <3>3, <4>1, <4>2, <4>3
    <3>5. Had(page, n) = Had(page, n - 1) \cup {b} /\ Had(page, n - 1) \subseteq Had(page, K)
      <4>1. \A i : i \in 0 .. n - 1 <=> i \in 0 .. (n - 1) - 1 \/ i = n - 1
        BY <2>3, <2>5
      <4>2. \A i \in 0 .. (n - 1) - 1 : i \in 0 .. K - 1
        BY <2>3, <2>5
      <4> QED
        BY <4>1, <4>2 DEF Had
    <3>6. f[n] = Turn(acc, l, b, carve)
      BY <2>3, <2>5 DEF Loop
    <3>7. Elements(acc, l) = Now(n - 1)
      BY <3>2, <3>3, ElementsOfLine
    <3> HIDE DEF b, acc
    <3>8. CASE carve
      <4>1. b \notin Now(n - 1)
        BY <3>4, <3>8
      <4>2. Insist(acc, b \notin Elements(acc, l)) = acc
        BY <3>3, <3>7, <4>1, InsistTrue
      <4>3. f[n] = ListAppend(acc, l, b)
        BY <3>6, <3>8, <4>2 DEF Turn
      <4>4. Line(acc, l, Now(n - 1))
        BY <3>2 DEF acc
      <4>5. /\ Line(f[n], l, Now(n - 1) \cup {b})
            /\ Writes(acc, f[n], Now(n - 1) \cup {b, HeadOf(l), TailOf(l)})
        <5> HIDE DEF Now
        <5> QED
          BY <3>3, <3>4, <4>1, <4>3, <4>4, AppendLine
      <4>6. Now(n) = Now(n - 1) \cup {b}
        BY <3>5, <3>8
      <4>7. Now(n - 1) \cup {b, HeadOf(l), TailOf(l)} \subseteq N
        BY <3>4, <3>5, <3>8
      <4>8. Writes(m, acc, N)
        BY <3>2 DEF acc
      <4>9. Writes(m, f[n], N)
        BY <4>5, <4>7, <4>8 DEF Writes
      <4> QED
        BY <2>3, <4>5, <4>6, <4>9
    <3>9. CASE ~carve
      <4>1. b \in Now(n - 1)
        BY <3>4, <3>9
      <4>2. Insist(acc, b \in Elements(acc, l)) = acc
        BY <3>3, <3>7, <4>1, InsistTrue
      <4>3. f[n] = ListRemove(acc, b)
        BY <3>6, <3>9, <4>2 DEF Turn
      <4>4. Line(acc, l, Now(n - 1))
        BY <3>2 DEF acc
      <4>5. /\ Line(f[n], l, Now(n - 1) \ {b})
            /\ Writes(acc, f[n], Now(n - 1) \cup {HeadOf(l), TailOf(l)})
        <5> HIDE DEF Now
        <5> QED
          BY <3>3, <4>1, <4>3, <4>4, RemoveLine
      <4>6. Now(n) = Now(n - 1) \ {b}
        BY <3>5, <3>9
      <4>7. Now(n - 1) \cup {HeadOf(l), TailOf(l)} \subseteq N
        BY <3>9
      <4>8. Writes(m, acc, N)
        BY <3>2 DEF acc
      <4>9. Writes(m, f[n], N)
        BY <4>5, <4>7, <4>8 DEF Writes
      <4> QED
        BY <2>3, <4>5, <4>6, <4>9
    <3> QED
      BY <3>8, <3>9
  <2> QED
    BY <2>4, <2>5
<1> QED
  BY <1>1, <1>2

LEMMA CarvedLine ==
    ASSUME NEW m \in MemSet, NEW l \in List, NEW page \in Page, page \in m.pages,
           NEW S, Line(m, l, S), \A b \in S : b[1] # page
    PROVE  /\ Line(Carved(m, l, page), l, S \cup BlocksOf(page, l[2]))
           /\ Writes(m, Carved(m, l, page),
                     S \cup {b \in Block : b[1] = page} \cup {HeadOf(l), TailOf(l)})
<1> DEFINE K == PerArena[l[2]]
           u == Cleared(m, {page})
           N == S \cup {b \in Block : b[1] = page} \cup {HeadOf(l), TailOf(l)}
<1>1. K \in Nat /\ \A i \in 0 .. K - 1 : <<page, i>> \in Block
  <2>1. l[2] \in Desc
    BY DEF List
  <2> QED
    BY <2>1, SlotsAre, HeapAssumption DEF Block
<1>2. Had(page, K) = BlocksOf(page, l[2])
  BY DEF Had, BlocksOf
<1> HIDE DEF K
<1>3. Writes(m, u, {b \in Block : b[1] \in {page}})
  BY ClearedWrites
<1>4. u \in MemSet /\ u.pages = m.pages
  BY <1>3 DEF Writes
<1>5. Line(u, l, S)
  <2>1. \A x \in S \cup {HeadOf(l), TailOf(l)} : x \notin {b \in Block : b[1] \in {page}}
    BY EndsAreNot
  <2>2. \A x \in S \cup {HeadOf(l), TailOf(l)} : Get(u, x) = Get(m, x)
    BY <1>3, <2>1 DEF Writes
  <2>3. \A b \in S : b[1] \in u.pages
    BY <1>4, LineBlocks
  <2> HIDE DEF u
  <2> QED
    BY <1>4, <2>2, <2>3, LineStays
<1>6. S \cap Had(page, K) = {}
  BY DEF Had
<1> DEFINE after[n \in 0 .. K] ==
            IF n = 0 THEN u
            ELSE LET b == <<page, n - 1>>
                     acc == after[n - 1]
                 IN  ListAppend(Insist(acc, b \notin Elements(acc, l)), l, b)
<1>7. Loop(after, u, l, page, K, TRUE)
  <2> HIDE DEF u
  <2>1. PICK f : Loop(f, u, l, page, K, TRUE)
    BY <1>1, LoopExists
  <2>2. f = [n \in 0 .. K |->
            IF n = 0 THEN u
            ELSE LET b == <<page, n - 1>>
                     acc == f[n - 1]
                 IN  ListAppend(Insist(acc, b \notin Elements(acc, l)), l, b)]
    BY <2>1 DEF Loop, Turn
  <2>3. after = [n \in 0 .. K |->
            IF n = 0 THEN u
            ELSE LET b == <<page, n - 1>>
                     acc == after[n - 1]
                 IN  ListAppend(Insist(acc, b \notin Elements(acc, l)), l, b)]
    BY <2>2
  <2> QED
    BY <2>3, SMTT(40) DEF Loop, Turn
<1>8. Carved(m, l, page) = after[K]
  BY DEF Carved, K
<1> HIDE DEF after, u
<1>9. /\ Line(after[K], l, S \cup Had(page, K))
      /\ Writes(u, after[K], S \cup Had(page, K) \cup {HeadOf(l), TailOf(l)})
  <2>1. K \in 0 .. K /\ page \in u.pages
    BY <1>1, <1>4
  <2>2. IF TRUE THEN S \cap Had(page, K) = {} ELSE Had(page, K) \subseteq S
    BY <1>6
  <2>3. /\ Line(after[K], l, IF TRUE THEN S \cup Had(page, K) ELSE S \ Had(page, K))
        /\ Writes(u, after[K], S \cup Had(page, K) \cup {HeadOf(l), TailOf(l)})
    BY <1>1, <1>4, <1>5, <1>7, <2>1, <2>2, LoopHolds
  <2> QED
    BY <2>3
<1>10. Had(page, K) \subseteq {b \in Block : b[1] = page}
  BY <1>1 DEF Had
<1>11. Writes(m, after[K], N)
  BY <1>3, <1>9, <1>10 DEF Writes
<1> QED
  BY <1>2, <1>8, <1>9, <1>11

LEMMA ReturnedLine ==
    ASSUME NEW m \in MemSet, NEW l \in List, NEW page \in Page, page \in m.pages,
           NEW S, Line(m, l, S), BlocksOf(page, l[2]) \subseteq S
    PROVE  /\ Line(Returned(m, l, page), l, S \ BlocksOf(page, l[2]))
           /\ Writes(m, Returned(m, l, page), S \cup {HeadOf(l), TailOf(l)})
<1> DEFINE K == PerArena[l[2]]
<1>1. K \in Nat /\ \A i \in 0 .. K - 1 : <<page, i>> \in Block
  <2>1. l[2] \in Desc
    BY DEF List
  <2> QED
    BY <2>1, SlotsAre, HeapAssumption DEF Block
<1>2. Had(page, K) = BlocksOf(page, l[2])
  BY DEF Had, BlocksOf
<1> HIDE DEF K
<1> DEFINE after[n \in 0 .. K] ==
            IF n = 0 THEN m
            ELSE LET b == <<page, n - 1>>
                     acc == after[n - 1]
                 IN  ListRemove(Insist(acc, b \in Elements(acc, l)), b)
<1>7. Loop(after, m, l, page, K, FALSE)
  <2>1. PICK f : Loop(f, m, l, page, K, FALSE)
    BY <1>1, LoopExists
  <2>2. f = [n \in 0 .. K |->
            IF n = 0 THEN m
            ELSE LET b == <<page, n - 1>>
                     acc == f[n - 1]
                 IN  ListRemove(Insist(acc, b \in Elements(acc, l)), b)]
    BY <2>1 DEF Loop, Turn
  <2>3. after = [n \in 0 .. K |->
            IF n = 0 THEN m
            ELSE LET b == <<page, n - 1>>
                     acc == after[n - 1]
                 IN  ListRemove(Insist(acc, b \in Elements(acc, l)), b)]
    BY <2>2
  <2> QED
    BY <2>3 DEF Loop, Turn
<1>8. Returned(m, l, page) = after[K]
  BY DEF Returned, K
<1> HIDE DEF after
<1>9. /\ Line(after[K], l, S \ Had(page, K))
      /\ Writes(m, after[K], S \cup Had(page, K) \cup {HeadOf(l), TailOf(l)})
  <2>1. K \in 0 .. K
    BY <1>1
  <2>2. IF FALSE THEN S \cap Had(page, K) = {} ELSE Had(page, K) \subseteq S
    BY <1>2
  <2>3. /\ Line(after[K], l, IF FALSE THEN S \cup Had(page, K) ELSE S \ Had(page, K))
        /\ Writes(m, after[K], S \cup Had(page, K) \cup {HeadOf(l), TailOf(l)})
    BY <1>1, <1>7, <2>1, <2>2, LoopHolds
  <2> QED
    BY <2>3
<1> QED
  BY <1>2, <1>8, <1>9 DEF Writes
-----------------------------------------------------------------------------
(* One process: V are the pages it has, A the headers in them, H the blocks  *)
(* it holds, m the memory it sees, P the processes that were started.        *)

Cover(A, v) == Run(v, IF A[v].large THEN A[v].cnt ELSE 1)
Taken(A) == {v \in Page : A[v] # NoArena}

\* Arenas are ranges of pages, apart from each other and from the stack, and
\* there is no other page.
SpaceOk(V, A) ==
    /\ V = {Stack} \cup UNION {Cover(A, v) : v \in Taken(A)}
    /\ \A v \in Taken(A) : Cover(A, v) \subseteq Page \ {Stack}
    /\ \A v, w \in Taken(A) : v # w => Cover(A, v) \cap Cover(A, w) = {}

\* A header is that of a large block, or it names a descriptor.
HeaderOk(A, P) ==
    \A v \in Taken(A) : \/ A[v].large /\ A[v].desc = None /\ A[v].cnt # 0
                        \/ ~A[v].large /\ A[v].desc \in P \X Desc

\* What is held is a block of some arena.
HeldOk(A, H) ==
    \A b \in H : /\ b[1] \in Taken(A)
                 /\ IF A[b[1]].large THEN b[2] = 0
                    ELSE b[2] < PerArena[A[b[1]].desc[2]]

\* The blocks of p's own arenas of size d that it does not hold
FreeIn(p, d, A, H) ==
    {b \in Block : A[b[1]].desc = <<p, d>> /\ b[2] < PerArena[d]} \ H

CountOk(p, A, H) ==
    \A v \in Page, d \in Desc : A[v].desc = <<p, d>> =>
        A[v].cnt = Cardinality(BlocksOf(v, d) \ H)

ListOk(p, A, H, m) == \A d \in Desc : Line(m, <<p, d>>, FreeIn(p, d, A, H))

\* The heap of p, in the middle of a call; and between calls, when no arena has
\* all of its blocks free
BaseOk(p, P, V, A, H, m) ==
    /\ SpaceOk(V, A) /\ HeaderOk(A, P) /\ HeldOk(A, H) /\ CountOk(p, A, H)
    /\ ListOk(p, A, H, m) /\ m.pages = V /\ m.ok

NotWhole(p, A) ==
    \A v \in Page, d \in Desc : A[v].desc = <<p, d>> => A[v].cnt < PerArena[d]

Header == [desc : List \cup {None}, cnt : Nat, large : BOOLEAN]
Headers == [Page -> Header]

LEMMA BlocksOfAre ==
    ASSUME NEW v \in Page, NEW d \in Desc
    PROVE  /\ BlocksOf(v, d) = {b \in Block : b[1] = v /\ b[2] < PerArena[d]}
           /\ IsFiniteSet(BlocksOf(v, d)) /\ Cardinality(BlocksOf(v, d)) = PerArena[d]
           /\ PerArena[d] \in Nat \ {0}
<1> DEFINE K == PerArena[d]
<1>1. K \in Nat \ {0} /\ \A i \in 0 .. K - 1 : i \in Slot
  BY SlotsAre, HeapAssumption
<1> HIDE DEF K
<1>2. BlocksOf(v, d) = {b \in Block : b[1] = v /\ b[2] < K}
  <2>1. ASSUME NEW i \in 0 .. K - 1 PROVE <<v, i>> \in Block /\ i < K
    BY <1>1 DEF Block
  <2>2. ASSUME NEW b \in Block, b[1] = v, b[2] < K PROVE \E i \in 0 .. K - 1 : b = <<v, i>>
    <3>1. PICK x \in Page, i \in Slot : b = <<x, i>>
      BY DEF Block
    <3>2. i \in Nat
      BY SlotsAre DEF Slot
    <3>3. i \in 0 .. K - 1
      BY <1>1, <2>2, <3>1, <3>2
    <3> QED
      BY <2>2, <3>1, <3>3
  <2> QED
    BY <2>1, <2>2 DEF BlocksOf, K
<1>3. IsFiniteSet(BlocksOf(v, d)) /\ Cardinality(BlocksOf(v, d)) = K
  <2>1. IsFiniteSet(0 .. K - 1) /\ Cardinality(0 .. K - 1) = K
    <3>1. 0 \in Int /\ K - 1 \in Int /\ K \in Nat \ {0}
      BY <1>1
    <3>2. IsFiniteSet(0 .. K - 1) /\ Cardinality(0 .. K - 1) = IF 0 > K - 1 THEN 0 ELSE K - 1 - 0 + 1
      BY <3>1, FS_Interval
    <3> QED
      BY <3>1, <3>2
  <2> DEFINE f == [i \in 0 .. K - 1 |-> <<v, i>>]
  <2>2. f \in Injection(0 .. K - 1, BlocksOf(v, d))
    BY DEF Injection, IsInjective, BlocksOf, K
  <2>3. f \in Surjection(0 .. K - 1, BlocksOf(v, d))
    BY DEF Surjection, BlocksOf, K
  <2> HIDE DEF f
  <2> QED
    BY <2>1, <2>2, <2>3, FS_Surjection
<1> QED
  BY <1>1, <1>2, <1>3 DEF K

\* The pages a line needs are there as long as the arenas are.
LEMMA TakenPages ==
    ASSUME NEW V, NEW A \in Headers, SpaceOk(V, A), NEW v \in Taken(A),
           A[v].large => A[v].cnt # 0
    PROVE  v \in V /\ v # Stack /\ v \in Cover(A, v)
<1>1. v \in Cover(A, v)
  <2>1. v \in Nat /\ A[v].cnt \in Nat
    BY HeapAssumption DEF Taken, Page, Headers, Header
  <2> QED
    BY <2>1 DEF Cover, Run
<1> QED
  BY <1>1 DEF SpaceOk

LEMMA FreeInTaken ==
    ASSUME NEW p \in Proc, NEW d \in Desc, NEW V, NEW A \in Headers, NEW H, NEW P,
           SpaceOk(V, A), HeaderOk(A, P), NEW b \in FreeIn(p, d, A, H)
    PROVE  /\ b[1] \in Page /\ b[1] \in Taken(A) /\ b[1] \in V /\ b \in Block
           /\ ~A[b[1]].large
<1>1. b \in Block /\ b[1] \in Page /\ A[b[1]].desc = <<p, d>>
  BY DEF FreeIn, Block
<1>2. <<p, d>> # None
  BY EndsAreNot DEF List
<1>3. b[1] \in Taken(A)
  BY <1>1, <1>2 DEF Taken, NoArena
<1>4. ~A[b[1]].large
  BY <1>1, <1>2, <1>3 DEF HeaderOk
<1> QED
  BY <1>1, <1>3, <1>4, TakenPages

\* Lines of the same process are apart.
LEMMA FreeInApart ==
    ASSUME NEW p, NEW d, NEW e, d # e, NEW A, NEW H
    PROVE  FreeIn(p, d, A, H) \cap FreeIn(p, e, A, H) = {}
<1>1. <<p, d>> # <<p, e>>
  OBVIOUS
<1> QED
  BY <1>1 DEF FreeIn

\* A write to the ends and blocks of one list leaves the others alone.
LEMMA OtherLine ==
    ASSUME NEW p \in Proc, NEW d \in Desc, NEW e \in Desc, d # e, NEW m \in MemSet, NEW w, NEW S, NEW T,
           Line(m, <<p, e>>, T), NEW N, Writes(m, w, N), NEW Q,
           N \cap Ends \subseteq {HeadOf(<<p, d>>), TailOf(<<p, d>>)}, N \cap T = {}
    PROVE  Line(w, <<p, e>>, T)
<1>1. <<p, d>> \in List /\ <<p, e>> \in List /\ <<p, d>> # <<p, e>>
  BY DEF List
<1>2. \A x \in T \cup {HeadOf(<<p, e>>), TailOf(<<p, e>>)} : x \notin N
  BY <1>1, EndsAreNot
<1>3. \A b \in T : b[1] \in w.pages
  BY <1>1, LineBlocks DEF Writes
<1>4. w \in MemSet /\ \A x \in T \cup {HeadOf(<<p, e>>), TailOf(<<p, e>>)} : Get(w, x) = Get(m, x)
  BY <1>2 DEF Writes
<1> QED
  BY <1>1, <1>3, <1>4, LineStays

\* The first block of a list, the memory and the headers when it is handed out
FirstOf(m, l) == m.ends[HeadOf(l)].next
HandedOut(m, b) == [ListRemove(m, b) EXCEPT !.link[b[1]][b[2]] = Nil]
OneLess(A, v) == [A EXCEPT ![v].cnt = @ - 1]

\* The end of sys_malloc for a size of which there is a free block
LEMMA TakeOk ==
    ASSUME NEW p \in Proc, NEW d \in Desc, NEW P, NEW V \in SUBSET Page, NEW A \in Headers,
           NEW H \in SUBSET Block, NEW m \in MemSet, BaseOk(p, P, V, A, H, m),
           FreeIn(p, d, A, H) # {}, NEW b, b = FirstOf(m, <<p, d>>)
    PROVE  /\ b \in FreeIn(p, d, A, H) /\ ListRemove(m, b).ok /\ OneLess(A, b[1]) \in Headers
           /\ BaseOk(p, P, V, OneLess(A, b[1]), H \cup {b}, HandedOut(m, b))
           /\ Writes(m, HandedOut(m, b), FreeIn(p, d, A, H) \cup {HeadOf(<<p, d>>), TailOf(<<p, d>>)})
           /\ ~A[b[1]].large
<1> DEFINE l == <<p, d>>
           m1 == ListRemove(m, b)
           w == [m1 EXCEPT !.link[b[1]][b[2]] = Nil]
           B == [A EXCEPT ![b[1]].cnt = @ - 1]
           S == FreeIn(p, d, A, H)
<1>1. l \in List /\ Line(m, l, S)
  BY DEF List, BaseOk, ListOk
<1>2. b \in S
  BY <1>1, FirstOfLine DEF FirstOf
<1>3. Line(m1, l, S \ {b}) /\ Writes(m, m1, S \cup {HeadOf(l), TailOf(l)})
  BY <1>1, <1>2, RemoveLine
<1>4. /\ b \in Block /\ b[1] \in Page /\ b[1] \in Taken(A) /\ b[1] \in V /\ ~A[b[1]].large
      /\ A[b[1]].desc = l /\ b[2] < PerArena[d] /\ b \notin H
  BY <1>2, FreeInTaken DEF BaseOk, FreeIn
<1> HIDE DEF m1
<1>5. m1 \in MemSet /\ m1.pages = V /\ m1.ok
  BY <1>3 DEF Writes, BaseOk
<1>6. w = Put(m1, b, Nil)
  BY <1>4, <1>5, EndsAreNot DEF Put
<1> HIDE DEF w
<1>7. /\ w \in MemSet /\ w.pages = V /\ w.ok
      /\ \A x : x # b => Get(w, x) = Get(m1, x)
  <2>1. b \in Usable(m1) /\ Nil \in Elem
    BY <1>4, <1>5, EndsAreNot DEF Usable, Nil, Elem
  <2> QED
    BY <1>5, <1>6, <2>1, PutOne
<1>8. Writes(m, w, S \cup {HeadOf(l), TailOf(l)})
  <2>1. w.pages = m.pages /\ w.ok = m.ok
    BY <1>7 DEF BaseOk, MemSet
  <2> QED
    BY <1>2, <1>3, <1>7, <2>1 DEF Writes
<1>9. Line(w, l, S \ {b})
  <2>1. \A x \in (S \ {b}) \cup {HeadOf(l), TailOf(l)} : x # b
    BY <1>1, <1>4, EndsAreNot
  <2>2. \A x \in S \ {b} : x[1] \in w.pages
    BY <1>1, <1>7, LineBlocks DEF BaseOk
  <2> QED
    BY <1>1, <1>3, <1>5, <1>7, <2>1, <2>2, LineStays
<1>10. A[b[1]].cnt = Cardinality(BlocksOf(b[1], d) \ H)
  BY <1>4 DEF BaseOk, CountOk
<1>11. /\ BlocksOf(b[1], d) \ H = (BlocksOf(b[1], d) \ (H \cup {b})) \cup {b}
       /\ IsFiniteSet(BlocksOf(b[1], d) \ (H \cup {b}))
       /\ b \notin BlocksOf(b[1], d) \ (H \cup {b})
  <2>1. b \in BlocksOf(b[1], d) /\ IsFiniteSet(BlocksOf(b[1], d))
    BY <1>4, BlocksOfAre
  <2> QED
    BY <1>4, <2>1, FS_Subset
<1>12. /\ Cardinality(BlocksOf(b[1], d) \ H) = Cardinality(BlocksOf(b[1], d) \ (H \cup {b})) + 1
       /\ Cardinality(BlocksOf(b[1], d) \ (H \cup {b})) \in Nat
  BY <1>11, FS_AddElement, FS_CardinalityType, ZenonT(40)
<1>13. /\ A[b[1]].cnt \in Nat \ {0}
       /\ A[b[1]].cnt - 1 = Cardinality(BlocksOf(b[1], d) \ (H \cup {b}))
  BY <1>10, <1>12
<1>14. /\ B \in Headers
       /\ \A v \in Page : B[v].desc = A[v].desc /\ B[v].large = A[v].large
       /\ \A v \in Page \ {b[1]} : B[v] = A[v]
       /\ B[b[1]].cnt = A[b[1]].cnt - 1
  <2>1. A[b[1]].cnt - 1 \in Nat
    BY <1>13
  <2> QED
    BY <1>4, <2>1 DEF Headers, Header
<1> HIDE DEF B
<1>15. Taken(B) = Taken(A)
  <2>1. l # None
    BY <1>1, EndsAreNot
  <2>3. B[b[1]].desc = l /\ A[b[1]].desc = l /\ NoArena.desc = None
    BY <1>4, <1>14 DEF NoArena
  <2>2. B[b[1]] # NoArena /\ A[b[1]] # NoArena
    BY <2>1, <2>3
  <2> QED
    BY <1>14, <2>2 DEF Taken
<1>16. SpaceOk(V, B)
  <2>1. \A v \in Taken(A) : Cover(B, v) = Cover(A, v)
    <3> TAKE v \in Taken(A)
    <3>1. CASE v = b[1]
      BY <1>4, <1>14, <3>1 DEF Cover
    <3>2. CASE v # b[1]
      BY <1>14, <3>2 DEF Cover, Taken
    <3> QED
      BY <3>1, <3>2
  <2>2. UNION {Cover(B, v) : v \in Taken(B)} = UNION {Cover(A, v) : v \in Taken(A)}
    BY <1>15, <2>1
  <2>3. SpaceOk(V, A)
    BY DEF BaseOk
  <2> QED
    BY <1>15, <2>1, <2>2, <2>3 DEF SpaceOk
<1>17. HeaderOk(B, P)
  <2>1. \A v \in Taken(A) : v \in Page
    BY DEF Taken
  <2>2. HeaderOk(A, P)
    BY DEF BaseOk
  <2> QED
    BY <1>4, <1>14, <1>15, <2>1, <2>2 DEF HeaderOk
<1>18. HeldOk(B, H \cup {b})
  <2>1. \A v \in Taken(A) : v \in Page
    BY DEF Taken
  <2>2. HeldOk(A, H)
    BY DEF BaseOk
  <2>3. l[2] = d
    OBVIOUS
  <2>4. ASSUME NEW x \in H \cup {b}
        PROVE  /\ x[1] \in Taken(B)
               /\ IF B[x[1]].large THEN x[2] = 0 ELSE x[2] < PerArena[B[x[1]].desc[2]]
    <3>1. CASE x = b
      BY <1>4, <1>14, <1>15, <2>3, <3>1
    <3>2. CASE x \in H
      BY <1>14, <1>15, <2>1, <2>2, <3>2 DEF HeldOk
    <3> QED
      BY <3>1, <3>2
  <2> QED
    BY <2>4 DEF HeldOk
<1>19. CountOk(p, B, H \cup {b})
  <2> SUFFICES ASSUME NEW v \in Page, NEW e \in Desc, B[v].desc = <<p, e>>
               PROVE  B[v].cnt = Cardinality(BlocksOf(v, e) \ (H \cup {b}))
    BY DEF CountOk
  <2>1. A[v].desc = <<p, e>>
    BY <1>14
  <2>2. CASE v = b[1]
    <3>1. e = d
      BY <1>4, <2>1, <2>2
    <3> QED
      BY <1>13, <1>14, <2>2, <3>1
  <2>3. CASE v # b[1]
    <3>1. BlocksOf(v, e) \ (H \cup {b}) = BlocksOf(v, e) \ H
      BY <2>3 DEF BlocksOf
    <3> QED
      BY <1>14, <2>1, <2>3, <3>1 DEF BaseOk, CountOk
  <2> QED
    BY <2>2, <2>3
<1>20. \A e \in Desc : FreeIn(p, e, B, H \cup {b}) = FreeIn(p, e, A, H) \ {b}
  <2>1. \A x \in Block : x[1] \in Page
    BY DEF Block
  <2> QED
    BY <1>14, <2>1 DEF FreeIn
<1>21. ListOk(p, B, H \cup {b}, w)
  <2> SUFFICES ASSUME NEW e \in Desc PROVE Line(w, <<p, e>>, FreeIn(p, e, B, H \cup {b}))
    BY DEF ListOk
  <2>1. CASE e = d
    BY <1>9, <1>20, <2>1
  <2>2. CASE e # d
    <3>1. S \cap FreeIn(p, e, A, H) = {}
      BY <2>2, FreeInApart
    <3>2. Line(m, <<p, e>>, FreeIn(p, e, A, H))
      BY DEF BaseOk, ListOk
    <3>3. FreeIn(p, e, B, H \cup {b}) = FreeIn(p, e, A, H)
      BY <1>2, <1>20, <3>1, ZenonT(40)
    <3>4. /\ (S \cup {HeadOf(l), TailOf(l)}) \cap Ends \subseteq {HeadOf(l), TailOf(l)}
          /\ (S \cup {HeadOf(l), TailOf(l)}) \cap FreeIn(p, e, A, H) = {}
      BY <1>1, <3>1, EndsAreNot DEF FreeIn
    <3> HIDE DEF S
    <3>5. Line(w, <<p, e>>, FreeIn(p, e, A, H))
      BY <1>8, <2>2, <3>2, <3>4, OtherLine
    <3> QED
      BY <3>3, <3>5
  <2> QED
    BY <2>1, <2>2
<1>22. BaseOk(p, P, V, B, H \cup {b}, w)
  BY <1>7, <1>16, <1>17, <1>18, <1>19, <1>21 DEF BaseOk
<1> QED
  BY <1>2, <1>4, <1>5, <1>8, <1>13, <1>14, <1>22 DEF m1, w, B, HandedOut, OneLess
-----------------------------------------------------------------------------
(* Ranges of pages come and go. *)

LEMMA NoneIsNone == NoArena.desc = None /\ NoArena \in Header
BY DEF NoArena, Header

LEMMA StackIsPage == Stack \in Page /\ Stack \in Nat
BY HeapAssumption DEF Stack, Page

\* The first pages that are taken are in use.
LEMMA TakenAreUsed ==
    ASSUME NEW V, NEW A \in Headers, NEW P, SpaceOk(V, A), HeaderOk(A, P)
    PROVE  \A v \in Taken(A) : v \in V /\ v # Stack /\ v \in Cover(A, v) /\ v \in Page
<1> TAKE v \in Taken(A)
<1>1. A[v].large => A[v].cnt # 0
  BY DEF HeaderOk
<1> QED
  BY <1>1, TakenPages DEF Taken

LEMMA AddRange ==
    ASSUME NEW V \in SUBSET Page, NEW A \in Headers, SpaceOk(V, A), Taken(A) \subseteq V,
           NEW s \in Page, NEW B \in Headers, B[s] # NoArena, \A v \in Page \ {s} : B[v] = A[v],
           Cover(B, s) \subseteq Page \ V, s \in Cover(B, s)
    PROVE  /\ SpaceOk(V \cup Cover(B, s), B)
           /\ s \notin Taken(A) /\ Taken(B) = Taken(A) \cup {s} /\ A[s].desc = None
<1> DEFINE C == Cover(B, s)
<1>1. B[s] # NoArena /\ \A v \in Page \ {s} : B[v] = A[v]
  OBVIOUS
<1>2. s \notin Taken(A) /\ C \subseteq Page \ V
  OBVIOUS
<1>3. Taken(B) = Taken(A) \cup {s}
  BY <1>1 DEF Taken
<1>4. Cover(B, s) = C /\ \A v \in Taken(A) : Cover(B, v) = Cover(A, v) /\ v # s
  <2>1. \A v \in Taken(A) : v \in Page \ {s}
    BY <1>2 DEF Taken
  <2> QED
    BY <1>1, <2>1 DEF Cover
<1>5. Stack \in V /\ \A v \in Taken(A) : Cover(A, v) \subseteq V
  BY DEF SpaceOk
<1>6. V \cup C = {Stack} \cup UNION {Cover(B, v) : v \in Taken(B)}
  <2>1. UNION {Cover(B, v) : v \in Taken(B)} = (UNION {Cover(A, v) : v \in Taken(A)}) \cup C
    BY <1>3, <1>4
  <2> QED
    BY <2>1 DEF SpaceOk
<1>7. \A v \in Taken(B) : Cover(B, v) \subseteq Page \ {Stack}
  BY <1>3, <1>4, <1>5 DEF SpaceOk
<1>8. \A v, w \in Taken(B) : v # w => Cover(B, v) \cap Cover(B, w) = {}
  <2> TAKE v, w \in Taken(B)
  <2>1. CASE v = s /\ w # s
    BY <1>3, <1>4, <1>5, <2>1
  <2>2. CASE v # s /\ w = s
    BY <1>3, <1>4, <1>5, <2>2
  <2>3. CASE v # s /\ w # s
    BY <1>3, <1>4, <2>3 DEF SpaceOk
  <2> QED
    BY <2>1, <2>2, <2>3
<1>9. SpaceOk(V \cup C, B)
  BY <1>6, <1>7, <1>8 DEF SpaceOk
<1>10. A[s].desc = None
  BY <1>2, NoneIsNone DEF Taken
<1> QED
  BY <1>1, <1>2, <1>3, <1>9, <1>10 

LEMMA DropRange ==
    ASSUME NEW V \in SUBSET Page, NEW A \in Headers, SpaceOk(V, A),
           \A v \in Taken(A) : v \in V /\ v \in Cover(A, v),
           NEW s \in Taken(A), NEW B \in Headers,
           B[s] = NoArena, \A v \in Page \ {s} : B[v] = A[v]
    PROVE  /\ SpaceOk(V \ Cover(A, s), B)
           /\ Taken(B) = Taken(A) \ {s} /\ s \in Page
           /\ \A v \in Taken(B) : v \notin Cover(A, s) /\ v \in V /\ v \in Page \ {s}
<1>1. s \in Page /\ B \in Headers /\ B[s] = NoArena /\ \A v \in Page \ {s} : B[v] = A[v]
  BY DEF Taken
<1>2. Taken(B) = Taken(A) \ {s}
  BY <1>1 DEF Taken
<1>3. \A v \in Taken(B) : Cover(B, v) = Cover(A, v) /\ Cover(A, v) \cap Cover(A, s) = {}
  <2>1. \A v \in Taken(B) : v \in Page \ {s} /\ v \in Taken(A)
    BY <1>2 DEF Taken
  <2>2. \A v \in Taken(B) : Cover(B, v) = Cover(A, v)
    BY <1>1, <2>1 DEF Cover
  <2> QED
    BY <2>1, <2>2 DEF SpaceOk
<1>4. V \ Cover(A, s) = {Stack} \cup UNION {Cover(B, v) : v \in Taken(B)}
  <2>1. Stack \notin Cover(A, s)
    BY DEF SpaceOk
  <2>2. UNION {Cover(A, v) : v \in Taken(A)}
          = (UNION {Cover(B, v) : v \in Taken(B)}) \cup Cover(A, s)
    BY <1>2, <1>3
  <2>3. (UNION {Cover(B, v) : v \in Taken(B)}) \cap Cover(A, s) = {}
    BY <1>3
  <2> QED
    BY <2>1, <2>2, <2>3 DEF SpaceOk
<1>5. \A v \in Taken(B) : Cover(B, v) \subseteq Page \ {Stack}
  BY <1>2, <1>3 DEF SpaceOk
<1>6. \A v, w \in Taken(B) : v # w => Cover(B, v) \cap Cover(B, w) = {}
  BY <1>2, <1>3 DEF SpaceOk
<1>7. SpaceOk(V \ Cover(A, s), B)
  BY <1>4, <1>5, <1>6 DEF SpaceOk
<1>8. \A v \in Taken(B) : v \notin Cover(A, s) /\ v \in V /\ v \in Page \ {s}
  <2>1. \A v \in Taken(B) : v \in Page \ {s} /\ v \in Taken(A)
    BY <1>2 DEF Taken
  <2> QED
    BY <1>3, <2>1
<1> QED
  BY <1>1, <1>2, <1>7, <1>8

\* A line is still there when other pages come, go or are cleared.
LEMMA LineRepaged ==
    ASSUME NEW m \in MemSet, NEW w \in MemSet, NEW l \in List, NEW S, Line(m, l, S),
           w.ends = m.ends,
           \A b \in S : b[1] \in w.pages /\ w.link[b[1]] = m.link[b[1]]
    PROVE  Line(w, l, S)
<1>1. HeadOf(l) \in Ends /\ TailOf(l) \in Ends
  BY EndsAreNot
<1>2. \A x \in Ends : Get(w, x) = Get(m, x)
  BY DEF Get
<1>3. \A x \in S : Get(w, x) = Get(m, x)
  BY LineBlocks, EndsAreNot DEF Get
<1> QED
  BY <1>1, <1>2, <1>3, LineStays

\* The memory that a call leaves: some pages cleared, and the pages there are
Paged(m, R, W) == [ends |-> m.ends, link |-> Cleared(m, R).link, pages |-> W, ok |-> m.ok]

LEMMA PagedAre ==
    ASSUME NEW m \in MemSet, NEW R \in SUBSET Page, NEW W \in SUBSET Page
    PROVE  /\ Paged(m, R, W) \in MemSet
           /\ Paged(m, R, W).ends = m.ends /\ Paged(m, R, W).pages = W /\ Paged(m, R, W).ok = m.ok
           /\ \A v \in Page \ R : Paged(m, R, W).link[v] = m.link[v]
<1>1. Cleared(m, R) = [m EXCEPT !.link = [v \in Page |->
               IF v \in R THEN [i \in Slot |-> Nil] ELSE m.link[v]]]
  BY DEF Cleared
<1>2. Nil \in Elem
  BY EndsAreNot DEF Nil, Elem
<1>3. Cleared(m, R).link = [v \in Page |-> IF v \in R THEN [i \in Slot |-> Nil] ELSE m.link[v]]
  BY <1>1 DEF MemSet
<1>4. Cleared(m, R).link \in [Page -> [Slot -> Elem]]
  BY <1>2, <1>3 DEF MemSet
<1> QED
  BY <1>3, <1>4 DEF Paged, MemSet
-----------------------------------------------------------------------------
(* The calls, on the heap of the process that makes them *)

\* The memory with a new page in it, and the headers when it has become an arena
WithPage(m, page) == [m EXCEPT !.pages = @ \cup {page}]
WithArena(A, page, p, d) ==
    [A EXCEPT ![page] = [desc |-> <<p, d>>, cnt |-> PerArena[d], large |-> FALSE]]

\* What is so when page has become an arena: B and w, for A and m before
ArenaMade(p, d, P, V, A, H, m, page, B, w) ==
    /\ BaseOk(p, P, V \cup {page}, B, H, w)
    /\ B \in Headers /\ w \in MemSet
    /\ FreeIn(p, d, B, H) # {}
    /\ FreeIn(p, d, B, H) = BlocksOf(page, d)
    /\ \A x \in Ends \ {HeadOf(<<p, d>>), TailOf(<<p, d>>)} : w.ends[x] = m.ends[x]
    /\ A[page] = NoArena /\ V \cup {page} \in SUBSET Page
    /\ B[page] = [desc |-> <<p, d>>, cnt |-> PerArena[d], large |-> FALSE]
    /\ \A v \in Page \ {page} : B[v] = A[v]

\* An arena is carved out of a page that was free.
LEMMA ArenaOk ==
    ASSUME NEW p \in Proc, NEW d \in Desc, NEW P, p \in P, NEW V \in SUBSET Page,
           NEW A \in Headers, NEW H \in SUBSET Block, NEW m \in MemSet,
           BaseOk(p, P, V, A, H, m), FreeIn(p, d, A, H) = {}, NEW page \in Page \ V,
           NEW B, B = WithArena(A, page, p, d),
           NEW w, w = Carved(WithPage(m, page), <<p, d>>, page)
    PROVE  ArenaMade(p, d, P, V, A, H, m, page, B, w)
<1> DEFINE l == <<p, d>>
           h == [desc |-> l, cnt |-> PerArena[d], large |-> FALSE]
           mm == [m EXCEPT !.pages = @ \cup {page}]
           N == {b \in Block : b[1] = page} \cup {HeadOf(l), TailOf(l)}
<1>1. l \in List /\ l # None /\ l[1] = p /\ l[2] = d
  BY EndsAreNot DEF List
<1>2. PerArena[d] \in Nat \ {0}
  BY HeapAssumption
<1>3. /\ h \in Header /\ ~h.large
      /\ h # NoArena /\ h.desc = l /\ h.cnt = PerArena[d]
  <2>1. h.desc = l
    OBVIOUS
  <2>2. h \in Header /\ ~h.large /\ h.cnt = PerArena[d]
    BY <1>1, <1>2 DEF Header
  <2> HIDE DEF h, l
  <2>3. h # NoArena
    BY <1>1, <2>1, NoneIsNone
  <2> QED
    BY <2>1, <2>2, <2>3
<1>3a. B = [A EXCEPT ![page] = h] /\ w = Carved(mm, l, page)
  BY DEF WithArena, WithPage
<1> HIDE DEF h
<1>4. Run(page, 1) = {page}
  <2>1. page \in Int
    BY HeapAssumption DEF Page
  <2> QED
    BY <2>1 DEF Run
<1>5. SpaceOk(V, A) /\ HeaderOk(A, P) /\ HeldOk(A, H) /\ CountOk(p, A, H) /\ ListOk(p, A, H, m)
      /\ m.pages = V /\ m.ok
  BY DEF BaseOk
<1>6. /\ B \in Headers /\ SpaceOk(V \cup {page}, B) /\ V \cup {page} \in SUBSET Page
      /\ page \notin Taken(A) /\ Taken(B) = Taken(A) \cup {page} /\ A[page].desc = None
      /\ B[page] = h /\ \A v \in Page \ {page} : B[v] = A[v]
  <2> DEFINE C == {page}
             W == V \cup C
  <2>1. W = V \cup C
    OBVIOUS
  <2>2. C \subseteq Page \ V /\ page \in C /\ page \in Page
    OBVIOUS
  <2>3. B \in Headers /\ B[page] = h /\ \A v \in Page \ {page} : B[v] = A[v]
    <3>1. A \in [Page -> Header] /\ h \in Header /\ B = [A EXCEPT ![page] = h]
      BY <1>3, <1>3a DEF Headers
    <3>2. B \in [Page -> Header] /\ B[page] = h /\ \A v \in Page \ {page} : B[v] = A[v]
      BY <3>1
    <3> QED
      BY <3>2 DEF Headers
  <2>5. C = Cover(B, page)
    BY <1>3, <1>4, <2>3 DEF Cover
  <2> HIDE DEF l, C, W
  <2>4. /\ SpaceOk(W, B) /\ W \in SUBSET Page
        /\ page \notin Taken(A) /\ Taken(B) = Taken(A) \cup {page} /\ A[page].desc = None
    <3>1. B[page] # NoArena /\ Taken(A) \subseteq V
      BY <1>3, <1>5, <2>3, TakenAreUsed
    <3>2. Cover(B, page) \subseteq Page \ V /\ page \in Cover(B, page) /\ page \in Page
      BY <2>2, <2>5
    <3>3. /\ SpaceOk(V \cup Cover(B, page), B)
          /\ page \notin Taken(A) /\ Taken(B) = Taken(A) \cup {page} /\ A[page].desc = None
      BY <1>5, <2>3, <3>1, <3>2, AddRange
    <3> QED
      BY <2>1, <2>2, <2>5, <3>3
  <2> QED
    BY <2>3, <2>4 DEF C, W
<1>7. \A x \in Block : x[1] \in Page
  BY DEF Block
<1>8. \A e \in Desc : e # d => FreeIn(p, e, B, H) = FreeIn(p, e, A, H)
  <2> TAKE e \in Desc
  <2> HAVE e # d
  <2>1. <<p, e>> # l /\ <<p, e>> # None
    BY EndsAreNot DEF List
  <2>2. \A x \in Block : B[x[1]].desc = <<p, e>> <=> A[x[1]].desc = <<p, e>>
    BY <1>3, <1>6, <1>7, <2>1
  <2> QED
    BY <2>2 DEF FreeIn
<1>9. \A x \in H : x[1] # page
  BY <1>5, <1>6 DEF HeldOk
<1>10. FreeIn(p, d, B, H) = BlocksOf(page, d)
  <2>1. \A x \in Block : B[x[1]].desc = l <=> A[x[1]].desc = l \/ x[1] = page
    BY <1>3, <1>6, <1>7
  <2>2. FreeIn(p, d, B, H) = FreeIn(p, d, A, H) \cup {b \in Block : b[1] = page /\ b[2] < PerArena[d]}
    BY <1>9, <2>1 DEF FreeIn
  <2> QED
    BY <2>2, BlocksOfAre
<1>11. BlocksOf(page, d) # {} /\ Cardinality(BlocksOf(page, d)) = PerArena[d]
  <2>1. <<page, 0>> \in BlocksOf(page, d)
    BY <1>2 DEF BlocksOf
  <2> QED
    BY <2>1, BlocksOfAre
<1>12. HeaderOk(B, P)
  <2>1. \A v \in Taken(A) : v \in Page \ {page}
    BY <1>6 DEF Taken
  <2>2. l \in P \X Desc
    OBVIOUS
  <2> QED
    BY <1>3, <1>5, <1>6, <2>1, <2>2 DEF HeaderOk
<1>13. HeldOk(B, H)
  <2>1. \A v \in Taken(A) : v \in Page \ {page}
    BY <1>6 DEF Taken
  <2> QED
    BY <1>5, <1>6, <2>1 DEF HeldOk
<1>14. CountOk(p, B, H)
  <2> SUFFICES ASSUME NEW v \in Page, NEW e \in Desc, B[v].desc = <<p, e>>
               PROVE  B[v].cnt = Cardinality(BlocksOf(v, e) \ H)
    BY DEF CountOk
  <2>1. CASE v = page
    <3>1. e = d
      BY <1>3, <1>6, <2>1
    <3>2. BlocksOf(v, e) \ H = BlocksOf(page, d)
      BY <1>9, <2>1, <3>1 DEF BlocksOf
    <3> QED
      BY <1>3, <1>6, <1>11, <2>1, <3>2
  <2>2. CASE v # page
    BY <1>5, <1>6, <2>2 DEF CountOk
  <2> QED
    BY <2>1, <2>2
<1>15. mm \in MemSet /\ mm.pages = V \cup {page} /\ mm.ok /\ mm.ends = m.ends /\ mm.link = m.link
  BY <1>5 DEF MemSet
<1> HIDE DEF mm
<1>16. ASSUME NEW e \in Desc PROVE Line(mm, <<p, e>>, FreeIn(p, e, A, H))
  <2>1. Line(m, <<p, e>>, FreeIn(p, e, A, H)) /\ <<p, e>> \in List
    BY <1>5 DEF ListOk, List
  <2>2. \A b \in FreeIn(p, e, A, H) : b[1] \in mm.pages
    BY <1>5, <1>15, <2>1, LineBlocks
  <2> QED
    BY <1>15, <2>1, <2>2, LineRepaged
<1>17. Line(w, l, BlocksOf(page, d)) /\ Writes(mm, w, N)
  <2>1. Line(mm, l, {}) /\ \A b \in {} : b[1] # page
    BY <1>16
  <2>2. page \in mm.pages
    BY <1>15
  <2>3. /\ Line(Carved(mm, l, page), l, {} \cup BlocksOf(page, l[2]))
        /\ Writes(mm, Carved(mm, l, page),
                  {} \cup {b \in Block : b[1] = page} \cup {HeadOf(l), TailOf(l)})
    <3> HIDE DEF l
    <3> QED
      BY <1>1, <1>15, <2>1, <2>2, CarvedLine
  <2>4. {} \cup {b \in Block : b[1] = page} \cup {HeadOf(l), TailOf(l)} = N
    OBVIOUS
  <2> QED
    BY <1>1, <1>3a, <2>3, <2>4
<1>18. w \in MemSet /\ w.pages = V \cup {page} /\ w.ok
  BY <1>15, <1>17 DEF Writes
<1>19. ListOk(p, B, H, w)
  <2> SUFFICES ASSUME NEW e \in Desc PROVE Line(w, <<p, e>>, FreeIn(p, e, B, H))
    BY DEF ListOk
  <2>1. CASE e = d
    BY <1>10, <1>17, <2>1
  <2>2. CASE e # d
    <3>1. N \cap Ends \subseteq {HeadOf(l), TailOf(l)}
      BY EndsAreNot
    <3>2. N \cap FreeIn(p, e, A, H) = {}
      <4>1. \A b \in FreeIn(p, e, A, H) : b[1] # page /\ b \in Block
        BY <1>5, <1>6, FreeInTaken
      <4> QED
        BY <1>1, <4>1, EndsAreNot
    <3> HIDE DEF N
    <3>3. Line(w, <<p, e>>, FreeIn(p, e, A, H))
      BY <1>15, <1>16, <1>17, <2>2, <3>1, <3>2, OtherLine
    <3> QED
      BY <1>8, <2>2, <3>3
  <2> QED
    BY <2>1, <2>2
<1>20. BaseOk(p, P, V \cup {page}, B, H, w)
  BY <1>6, <1>12, <1>13, <1>14, <1>18, <1>19 DEF BaseOk
<1>21. \A x \in Ends \ {HeadOf(l), TailOf(l)} : w.ends[x] = m.ends[x]
  <2>1. \A x \in Ends \ {HeadOf(l), TailOf(l)} : x \notin N
    BY EndsAreNot
  <2> QED
    BY <1>15, <1>17, <2>1 DEF Writes, Get
<1>22. A[page] = NoArena
  BY <1>6 DEF Taken
<1> QED
  BY <1>6, <1>10, <1>11, <1>18, <1>20, <1>21, <1>22 DEF h, ArenaMade

\* What is so when a large block has come, and when one is gone
LargeMade(p, P, V, A, H, m, s, R, B) ==
    /\ BaseOk(p, P, V \cup R, B, H \cup {<<s, 0>>}, Paged(m, R, V \cup R))
    /\ V \cup R \in SUBSET Page /\ <<s, 0>> \in Block /\ A[s] = NoArena
    /\ s \notin Taken(A)

LargeGone(p, P, V, A, H, m, b, R, B) ==
    /\ BaseOk(p, P, V \ R, B, H \ {b}, Paged(m, R, V \ R))
    /\ V \ R \in SUBSET Page /\ R \in SUBSET Page

\* More than 1024 bytes: pages of its own
LEMMA LargeOk ==
    ASSUME NEW p \in Proc, NEW P, NEW V \in SUBSET Page, NEW A \in Headers,
           NEW H \in SUBSET Block, NEW m \in MemSet, BaseOk(p, P, V, A, H, m),
           NEW s \in Page, NEW h \in Header, h.large, h.desc = None, h.cnt # 0,
           NEW R, R = Run(s, h.cnt), R \subseteq Page \ V,
           NEW B \in Headers, B[s] = h, \A v \in Page \ {s} : B[v] = A[v]
    PROVE  LargeMade(p, P, V, A, H, m, s, R, B)
<1>0. SpaceOk(V, A) /\ HeaderOk(A, P) /\ HeldOk(A, H) /\ CountOk(p, A, H) /\ ListOk(p, A, H, m)
      /\ m.pages = V /\ m.ok
  BY DEF BaseOk
<1> DEFINE W == V \cup R
           K == H \cup {<<s, 0>>}
           w == Paged(m, R, W)
<1>1. s \in R
  <2>1. s \in Nat /\ h.cnt \in Nat \ {0}
    BY HeapAssumption DEF Page, Header
  <2> QED
    BY <2>1 DEF Run
<1>2. /\ SpaceOk(W, B) /\ W \in SUBSET Page
      /\ s \notin Taken(A) /\ Taken(B) = Taken(A) \cup {s} /\ A[s].desc = None
  <2>1. B[s] # NoArena /\ Taken(A) \subseteq V
    BY <1>0, TakenAreUsed DEF NoArena
  <2>2. R = Cover(B, s) /\ W = V \cup R
    BY DEF Cover
  <2>3. Cover(B, s) \subseteq Page \ V /\ s \in Cover(B, s)
    BY <1>1, <2>2
  <2>4. /\ SpaceOk(V \cup Cover(B, s), B)
        /\ s \notin Taken(A) /\ Taken(B) = Taken(A) \cup {s} /\ A[s].desc = None
    BY <1>0, <2>1, <2>3, AddRange
  <2> QED
    BY <2>2, <2>4
<1>3. <<s, 0>> \in Block
  BY SlotsAre DEF Block, Slot
<1>4. \A e \in Desc : <<p, e>> # None
  BY EndsAreNot DEF List
<1>5. \A v \in Page, e \in Desc : B[v].desc = <<p, e>> <=> A[v].desc = <<p, e>> /\ v # s
  BY <1>2, <1>4
<1>6. \A v \in Taken(A) : v \in Page \ {s}
  BY <1>2 DEF Taken
<1>7. HeaderOk(B, P)
  BY <1>0, <1>2, <1>6 DEF HeaderOk
<1>8. HeldOk(B, K)
  BY <1>0, <1>2, <1>6 DEF HeldOk
<1>9. CountOk(p, B, K)
  <2> SUFFICES ASSUME NEW v \in Page, NEW e \in Desc, B[v].desc = <<p, e>>
               PROVE  B[v].cnt = Cardinality(BlocksOf(v, e) \ K)
    BY DEF CountOk
  <2>1. A[v].desc = <<p, e>> /\ v # s
    BY <1>5
  <2>2. BlocksOf(v, e) \ K = BlocksOf(v, e) \ H
    BY <2>1 DEF BlocksOf
  <2> QED
    BY <1>0, <2>1, <2>2 DEF CountOk
<1>10. \A e \in Desc : FreeIn(p, e, B, K) = FreeIn(p, e, A, H)
  <2> TAKE e \in Desc
  <2>1. \A x \in Block : x[1] \in Page
    BY DEF Block
  <2>2. \A x \in Block : A[x[1]].desc = <<p, e>> => x[1] # s
    BY <1>2, <1>4, <2>1
  <2> QED
    BY <1>5, <2>1, <2>2 DEF FreeIn
<1>11. /\ w \in MemSet /\ w.ends = m.ends /\ w.pages = W /\ w.ok = m.ok
       /\ \A v \in Page \ R : w.link[v] = m.link[v]
  BY <1>2, PagedAre
<1>12. ListOk(p, B, K, w)
  <2> SUFFICES ASSUME NEW e \in Desc PROVE Line(w, <<p, e>>, FreeIn(p, e, B, K))
    BY DEF ListOk
  <2>1. <<p, e>> \in List /\ Line(m, <<p, e>>, FreeIn(p, e, A, H))
    BY <1>0 DEF ListOk, List
  <2>2. \A b \in FreeIn(p, e, A, H) : b[1] \in V /\ b[1] \in Page \ R
    BY <1>0, FreeInTaken
  <2> HIDE DEF w
  <2>3. \A b \in FreeIn(p, e, A, H) : b[1] \in w.pages /\ w.link[b[1]] = m.link[b[1]]
    BY <1>11, <2>2
  <2> QED
    BY <1>10, <1>11, <2>1, <2>3, LineRepaged
<1>13. A[s] = NoArena
  BY <1>2 DEF Taken
<1> HIDE DEF w, W, K
<1>14. BaseOk(p, P, W, B, K, w)
  BY <1>0, <1>2, <1>7, <1>8, <1>9, <1>11, <1>12 DEF BaseOk
<1> QED
  BY <1>2, <1>3, <1>13, <1>14 DEF w, W, K, LargeMade

\* They are given back.
LEMMA DropLargeOk ==
    ASSUME NEW p \in Proc, NEW P, NEW V \in SUBSET Page, NEW A \in Headers,
           NEW H \in SUBSET Block, NEW m \in MemSet, BaseOk(p, P, V, A, H, m),
           NEW b \in H, A[b[1]].large, NEW R, R = Run(b[1], A[b[1]].cnt),
           NEW B \in Headers, B[b[1]] = NoArena, \A v \in Page \ {b[1]} : B[v] = A[v]
    PROVE  LargeGone(p, P, V, A, H, m, b, R, B)
<1>0. SpaceOk(V, A) /\ HeaderOk(A, P) /\ HeldOk(A, H) /\ CountOk(p, A, H) /\ ListOk(p, A, H, m)
      /\ m.pages = V /\ m.ok
  BY DEF BaseOk
<1> DEFINE s == b[1]
           W == V \ R
           K == H \ {b}
           w == Paged(m, R, W)
<1>1. s \in Taken(A) /\ s \in Page /\ b \in Block
  BY <1>0 DEF HeldOk, Taken
<1>2. R = Cover(A, s) /\ R \in SUBSET Page /\ A[s].desc = None
  <2>1. R = Cover(A, s)
    BY DEF Cover
  <2> QED
    BY <1>0, <1>1, <2>1 DEF SpaceOk, HeaderOk
<1>3. /\ SpaceOk(W, B) /\ W \in SUBSET Page /\ Taken(B) = Taken(A) \ {s}
      /\ \A v \in Taken(B) : v \notin R /\ v \in V /\ v \in Page \ {s}
  <2>1. B[s] = NoArena /\ (\A v \in Taken(A) : v \in V /\ v \in Cover(A, v))
        /\ \A v \in Page \ {s} : B[v] = A[v]
    BY <1>0, TakenAreUsed
  <2> HIDE DEF s
  <2>2. /\ SpaceOk(V \ Cover(A, s), B)
        /\ Taken(B) = Taken(A) \ {s} /\ s \in Page
        /\ \A v \in Taken(B) : v \notin Cover(A, s) /\ v \in V /\ v \in Page \ {s}
    BY <1>0, <1>1, <2>1, DropRange, ZenonT(40)
  <2> QED
    BY <1>2, <2>2
<1>4. \A e \in Desc : <<p, e>> # None
  BY EndsAreNot DEF List
<1>5. \A v \in Page, e \in Desc : B[v].desc = <<p, e>> <=> A[v].desc = <<p, e>>
  BY <1>2, <1>4, NoneIsNone
<1>6. \A v \in Page, e \in Desc : A[v].desc = <<p, e>> => v \in Taken(B) /\ v # s
  BY <1>2, <1>3, <1>4, NoneIsNone DEF Taken
<1>7. HeaderOk(B, P)
  BY <1>0, <1>3 DEF HeaderOk
<1>8. HeldOk(B, K)
  <2>1. ASSUME NEW x \in K PROVE x[1] # s
    <3>1. x \in Block /\ x \in H /\ x # b
      OBVIOUS
    <3>2. CASE x[1] = s
      <4>1. x[2] = 0 /\ b[2] = 0
        BY <1>0, <3>1, <3>2 DEF HeldOk
      <4> QED
        BY <1>1, <3>1, <3>2, <4>1 DEF Block
    <3> QED
      BY <3>2
  <2> QED
    BY <1>0, <1>3, <2>1 DEF HeldOk
<1>9. CountOk(p, B, K)
  <2> SUFFICES ASSUME NEW v \in Page, NEW e \in Desc, B[v].desc = <<p, e>>
               PROVE  B[v].cnt = Cardinality(BlocksOf(v, e) \ K)
    BY DEF CountOk
  <2>1. A[v].desc = <<p, e>> /\ v # s
    BY <1>5, <1>6
  <2>2. BlocksOf(v, e) \ K = BlocksOf(v, e) \ H
    BY <2>1 DEF BlocksOf
  <2> QED
    BY <1>0, <2>1, <2>2 DEF CountOk
<1>10. \A e \in Desc : FreeIn(p, e, B, K) = FreeIn(p, e, A, H)
  <2> TAKE e \in Desc
  <2>1. \A x \in Block : x[1] \in Page
    BY DEF Block
  <2>2. A[b[1]].desc # <<p, e>>
    BY <1>2, <1>4
  <2> QED
    BY <1>5, <2>1, <2>2 DEF FreeIn
<1>11. /\ w \in MemSet /\ w.ends = m.ends /\ w.pages = W /\ w.ok = m.ok
       /\ \A v \in Page \ R : w.link[v] = m.link[v]
  <2> HIDE DEF W
  <2> QED
    BY <1>2, <1>3, PagedAre, SMTT(40)
<1>12. ListOk(p, B, K, w)
  <2> SUFFICES ASSUME NEW e \in Desc PROVE Line(w, <<p, e>>, FreeIn(p, e, B, K))
    BY DEF ListOk
  <2>1. <<p, e>> \in List /\ Line(m, <<p, e>>, FreeIn(p, e, A, H))
    BY <1>0 DEF ListOk, List
  <2>2. \A x \in FreeIn(p, e, A, H) : x[1] \in V /\ x[1] \in Page \ R
    <3>1. \A x \in FreeIn(p, e, A, H) : x[1] \in Page /\ A[x[1]].desc = <<p, e>>
      BY DEF FreeIn, Block
    <3> QED
      BY <1>3, <1>6, <3>1
  <2> HIDE DEF w
  <2>3. \A x \in FreeIn(p, e, A, H) : x[1] \in w.pages /\ w.link[x[1]] = m.link[x[1]]
    BY <1>11, <2>2
  <2> QED
    BY <1>10, <1>11, <2>1, <2>3, LineRepaged
<1> HIDE DEF w, W, K
<1>14. BaseOk(p, P, W, B, K, w)
  BY <1>0, <1>3, <1>7, <1>8, <1>9, <1>11, <1>12 DEF BaseOk
<1> QED
  BY <1>2, <1>3, <1>14 DEF w, W, K, LargeGone

\* What is so when a block is back on its list, and when an arena is gone
BlockBack(p, d, P, V, A, H, m, b, B) ==
    LET w == ListAppend(m, <<p, d>>, b)
    IN  /\ BaseOk(p, P, V, B, H \ {b}, w) /\ w \in MemSet
        /\ b[1] \in Page /\ B[b[1]].desc = <<p, d>> /\ B[b[1]].cnt = A[b[1]].cnt + 1
        /\ \A x \in Ends \ {HeadOf(<<p, d>>), TailOf(<<p, d>>)} : w.ends[x] = m.ends[x]

ArenaGone(p, d, P, V, A, H, m, page, B) ==
    LET m1 == Returned(m, <<p, d>>, page)
        w == Paged(m1, {page}, V \ {page})
    IN  /\ BaseOk(p, P, V \ {page}, B, H, w) /\ m1 \in MemSet /\ m1.ok /\ w \in MemSet
        /\ \A x \in Ends \ {HeadOf(<<p, d>>), TailOf(<<p, d>>)} : w.ends[x] = m.ends[x]
        /\ page \in V /\ Cover(A, page) = {page}

\* A block goes back to the list of its size.
LEMMA ReturnOk ==
    ASSUME NEW p \in Proc, NEW d \in Desc, NEW P, NEW V \in SUBSET Page, NEW A \in Headers,
           NEW H \in SUBSET Block, NEW m \in MemSet, BaseOk(p, P, V, A, H, m),
           NEW b \in H, A[b[1]].desc = <<p, d>>,
           NEW B \in Headers, B[b[1]] = [A[b[1]] EXCEPT !.cnt = @ + 1],
           \A v \in Page \ {b[1]} : B[v] = A[v]
    PROVE  BlockBack(p, d, P, V, A, H, m, b, B)
<1>0. SpaceOk(V, A) /\ HeaderOk(A, P) /\ HeldOk(A, H) /\ CountOk(p, A, H) /\ ListOk(p, A, H, m)
      /\ m.pages = V /\ m.ok
  BY DEF BaseOk
<1> DEFINE l == <<p, d>>
           w == ListAppend(m, l, b)
           S == FreeIn(p, d, A, H)
           K == H \ {b}
           N == S \cup {b, HeadOf(l), TailOf(l)}
<1>1. /\ b \in Block /\ b[1] \in Page /\ b[1] \in Taken(A) /\ b[1] \in V /\ b \notin S
      /\ A[b[1]] \in Header
  <2>1. b \in Block /\ b[1] \in Page /\ b[1] \in Taken(A)
    BY <1>0 DEF HeldOk, Block
  <2>2. b[1] \in V
    BY <1>0, <2>1, TakenAreUsed
  <2> QED
    BY <2>1, <2>2 DEF FreeIn, Headers
<1>2. /\ l \in List /\ l # None /\ l[1] = p /\ l[2] = d /\ Line(m, l, S)
  BY <1>0, EndsAreNot DEF List, ListOk
<1>3. ~A[b[1]].large /\ A[b[1]].cnt \in Nat /\ A[b[1]].desc = l
  <2>1. A[b[1]].desc = l
    OBVIOUS
  <2> HIDE DEF l
  <2> QED
    BY <1>0, <1>1, <1>2, <2>1 DEF HeaderOk, Header
<1>4. B[b[1]].desc = l /\ B[b[1]].large = A[b[1]].large /\ B[b[1]].cnt = A[b[1]].cnt + 1
  BY <1>1, <1>3 DEF Header
<1>5. b[2] < PerArena[d]
  <2> HIDE DEF l
  <2> QED
    BY <1>0, <1>2, <1>3 DEF HeldOk
<1>6. \A v \in Page : B[v].desc = A[v].desc /\ B[v].large = A[v].large
  BY <1>3, <1>4
<1>7. Taken(B) = Taken(A)
  <2>1. A[b[1]].desc # None /\ B[b[1]].desc # None
    BY <1>2, <1>3, <1>4
  <2>2. A[b[1]] # NoArena /\ B[b[1]] # NoArena
    BY <2>1, NoneIsNone
  <2> QED
    BY <2>2 DEF Taken
<1>8. SpaceOk(V, B)
  <2>1. \A v \in Taken(A) : Cover(B, v) = Cover(A, v)
    <3> TAKE v \in Taken(A)
    <3>1. CASE v = b[1]
      BY <1>3, <1>4, <3>1 DEF Cover
    <3>2. CASE v # b[1]
      BY <3>2 DEF Cover, Taken
    <3> QED
      BY <3>1, <3>2
  <2>2. UNION {Cover(B, v) : v \in Taken(B)} = UNION {Cover(A, v) : v \in Taken(A)}
    BY <1>7, <2>1
  <2> QED
    BY <1>0, <1>7, <2>1, <2>2 DEF SpaceOk
<1>9. HeaderOk(B, P)
  <2>1. \A v \in Taken(A) : v \in Page
    BY DEF Taken
  <2> QED
    BY <1>0, <1>3, <1>6, <1>7, <2>1 DEF HeaderOk
<1>10. HeldOk(B, K)
  <2>1. \A v \in Taken(A) : v \in Page
    BY DEF Taken
  <2> QED
    BY <1>0, <1>6, <1>7, <2>1 DEF HeldOk
<1>11. CountOk(p, B, K)
  <2> SUFFICES ASSUME NEW v \in Page, NEW e \in Desc, B[v].desc = <<p, e>>
               PROVE  B[v].cnt = Cardinality(BlocksOf(v, e) \ K)
    BY DEF CountOk
  <2>1. A[v].desc = <<p, e>>
    BY <1>6
  <2>2. CASE v = b[1]
    <3>1. e = d
      BY <2>1, <2>2
    <3>2. /\ BlocksOf(v, d) \ K = (BlocksOf(v, d) \ H) \cup {b} /\ b \notin BlocksOf(v, d) \ H
          /\ IsFiniteSet(BlocksOf(v, d) \ H)
      <4>1. b \in BlocksOf(v, d) /\ IsFiniteSet(BlocksOf(v, d))
        BY <1>1, <1>5, <2>2, BlocksOfAre
      <4> QED
        BY <4>1, FS_Subset
    <3>3. Cardinality(BlocksOf(v, d) \ K) = Cardinality(BlocksOf(v, d) \ H) + 1
      BY <3>2, FS_AddElement
    <3>4. A[v].cnt = Cardinality(BlocksOf(v, d) \ H)
      BY <1>0, <2>1, <3>1 DEF CountOk
    <3> QED
      BY <1>4, <2>2, <3>1, <3>3, <3>4
  <2>3. CASE v # b[1]
    <3>1. BlocksOf(v, e) \ K = BlocksOf(v, e) \ H
      BY <2>3 DEF BlocksOf
    <3> QED
      BY <1>0, <2>1, <2>3, <3>1 DEF CountOk
  <2> QED
    BY <2>2, <2>3
<1>12. /\ FreeIn(p, d, B, K) = S \cup {b}
       /\ \A e \in Desc : e # d => FreeIn(p, e, B, K) = FreeIn(p, e, A, H)
  <2>1. \A x \in Block : x[1] \in Page
    BY DEF Block
  <2>2. ASSUME NEW e \in Desc, NEW x
        PROVE  x \in FreeIn(p, e, B, K) <=>
                 x \in Block /\ A[x[1]].desc = <<p, e>> /\ x[2] < PerArena[e] /\ x \notin K
    BY <1>6, <2>1 DEF FreeIn
  <2>3. ASSUME NEW e \in Desc, NEW x
        PROVE  x \in FreeIn(p, e, A, H) <=>
                 x \in Block /\ A[x[1]].desc = <<p, e>> /\ x[2] < PerArena[e] /\ x \notin H
    BY DEF FreeIn
  <2>4. ASSUME NEW e \in Desc, e # d PROVE FreeIn(p, e, B, K) = FreeIn(p, e, A, H)
    <3>1. A[b[1]].desc # <<p, e>>
      BY <2>4
    <3>2. \A x : x \in FreeIn(p, e, B, K) <=> x \in FreeIn(p, e, A, H)
      BY <2>2, <2>3, <3>1
    <3> QED
      BY <3>2
  <2>5. FreeIn(p, d, B, K) = S \cup {b}
    <3>1. \A x : x \in FreeIn(p, d, B, K) <=> x \in S \/ x = b
      <4> TAKE x
      <4>1. x \in FreeIn(p, d, B, K) <=>
              x \in Block /\ A[x[1]].desc = l /\ x[2] < PerArena[d] /\ x \notin K
        BY <2>2
      <4>2. x \in S <=> x \in Block /\ A[x[1]].desc = l /\ x[2] < PerArena[d] /\ x \notin H
        BY <2>3
      <4>3. x \notin K <=> x \notin H \/ x = b
        OBVIOUS
      <4> HIDE DEF S, K, l
      <4> QED
        BY <1>1, <1>3, <1>5, <4>1, <4>2, <4>3
    <3> QED
      BY <3>1
  <2> QED
    BY <2>4, <2>5
<1>13. Line(w, l, S \cup {b}) /\ Writes(m, w, N)
  <2> HIDE DEF l, S
  <2> QED
    BY <1>0, <1>1, <1>2, AppendLine
<1> HIDE DEF w
<1>14. w \in MemSet /\ w.pages = V /\ w.ok
  BY <1>0, <1>13 DEF Writes
<1>15. ListOk(p, B, K, w)
  <2> SUFFICES ASSUME NEW e \in Desc PROVE Line(w, <<p, e>>, FreeIn(p, e, B, K))
    BY DEF ListOk
  <2>1. CASE e = d
    BY <1>12, <1>13, <2>1
  <2>2. CASE e # d
    <3>1. S \cap FreeIn(p, e, A, H) = {} /\ b \notin FreeIn(p, e, A, H)
      BY <2>2, FreeInApart DEF FreeIn
    <3>2. Line(m, <<p, e>>, FreeIn(p, e, A, H))
      BY <1>0 DEF ListOk
    <3>3. S \subseteq Block /\ FreeIn(p, e, A, H) \subseteq Block
      BY DEF FreeIn
    <3> HIDE DEF S
    <3>4. N \cap Ends \subseteq {HeadOf(l), TailOf(l)} /\ N \cap FreeIn(p, e, A, H) = {}
      BY <1>1, <1>2, <3>1, <3>3, EndsAreNot
    <3> HIDE DEF N
    <3>5. Line(w, <<p, e>>, FreeIn(p, e, A, H))
      BY <1>13, <2>2, <3>2, <3>4, OtherLine
    <3> QED
      BY <1>12, <2>2, <3>5
  <2> QED
    BY <2>1, <2>2
<1>16. \A x \in Ends \ {HeadOf(l), TailOf(l)} : w.ends[x] = m.ends[x]
  <2>1. \A x \in Ends \ {HeadOf(l), TailOf(l)} : x \notin N
    BY <1>1, EndsAreNot DEF FreeIn
  <2> QED
    BY <1>13, <2>1 DEF Writes, Get
<1>17. BaseOk(p, P, V, B, K, w)
  BY <1>8, <1>9, <1>10, <1>11, <1>14, <1>15 DEF BaseOk
<1> QED
  BY <1>1, <1>4, <1>14, <1>16, <1>17 DEF w, BlockBack

\* An arena all of whose blocks are free is given up.
LEMMA WholeOk ==
    ASSUME NEW p \in Proc, NEW d \in Desc, NEW P, NEW V \in SUBSET Page, NEW A \in Headers,
           NEW H \in SUBSET Block, NEW m \in MemSet, BaseOk(p, P, V, A, H, m),
           NEW page \in Page, A[page].desc = <<p, d>>, A[page].cnt = PerArena[d],
           NEW B \in Headers, B[page] = NoArena, \A v \in Page \ {page} : B[v] = A[v]
    PROVE  ArenaGone(p, d, P, V, A, H, m, page, B)
<1>0. SpaceOk(V, A) /\ HeaderOk(A, P) /\ HeldOk(A, H) /\ CountOk(p, A, H) /\ ListOk(p, A, H, m)
      /\ m.pages = V /\ m.ok
  BY DEF BaseOk
<1> DEFINE l == <<p, d>>
           m1 == Returned(m, l, page)
           W == V \ {page}
           w == Paged(m1, {page}, W)
           S == FreeIn(p, d, A, H)
           N == S \cup {HeadOf(l), TailOf(l)}
<1>1. /\ l \in List /\ l # None /\ l[1] = p /\ l[2] = d /\ Line(m, l, S)
  BY <1>0, EndsAreNot DEF List, ListOk
<1>2. page \in Taken(A) /\ ~A[page].large /\ page \in V
  <2>1. A[page].desc = l
    OBVIOUS
  <2> HIDE DEF l
  <2>2. page \in Taken(A)
    BY <1>1, <2>1, NoneIsNone DEF Taken
  <2> QED
    BY <1>0, <1>1, <2>1, <2>2, TakenAreUsed DEF HeaderOk
<1>3. Cover(A, page) = {page}
  <2>1. page \in Int
    BY HeapAssumption DEF Page
  <2> QED
    BY <1>2, <2>1 DEF Cover, Run
<1>4. /\ SpaceOk(W, B) /\ W \in SUBSET Page /\ Taken(B) = Taken(A) \ {page}
      /\ \A v \in Taken(B) : v # page /\ v \in V /\ v \in Page \ {page}
  <2>1. /\ SpaceOk(V, A) /\ page \in Taken(A)
        /\ \A v \in Taken(A) : v \in V /\ v \in Cover(A, v)
    BY <1>0, <1>2, TakenAreUsed
  <2>3. B[page] = NoArena /\ \A v \in Page \ {page} : B[v] = A[v]
    OBVIOUS
  <2>2. /\ SpaceOk(V \ Cover(A, page), B)
        /\ Taken(B) = Taken(A) \ {page} /\ page \in Page
        /\ \A v \in Taken(B) : v \notin Cover(A, page) /\ v \in V /\ v \in Page \ {page}
    <3> HIDE DEF l, m1, W, w, S, N
    <3> QED
      BY <2>1, <2>3, DropRange
  <2> QED
    BY <1>3, <2>2
\* No block of the arena is held.
<1>5. \A x \in H : x[1] # page
  <2>1. Cardinality(BlocksOf(page, d) \ H) = Cardinality(BlocksOf(page, d)) /\ IsFiniteSet(BlocksOf(page, d))
    BY <1>0, BlocksOfAre DEF CountOk
  <2>2. BlocksOf(page, d) \ H = BlocksOf(page, d)
    <3>1. BlocksOf(page, d) \ H \subseteq BlocksOf(page, d)
      OBVIOUS
    <3> QED
      BY <2>1, <3>1, FS_Subset
  <2>3. ASSUME NEW x \in H, x[1] = page PROVE FALSE
    <3>1. x[2] < PerArena[d]
      BY <1>0, <1>2, <2>3 DEF HeldOk
    <3>2. x \in BlocksOf(page, d)
      BY <2>3, <3>1, BlocksOfAre
    <3> QED
      BY <2>2, <3>2
  <2> QED
    BY <2>3
<1>6. BlocksOf(page, d) \subseteq S
  <2>1. BlocksOf(page, d) = {x \in Block : x[1] = page /\ x[2] < PerArena[d]}
    BY BlocksOfAre
  <2> QED
    BY <1>5, <2>1 DEF FreeIn
<1>7. Line(m1, l, S \ BlocksOf(page, d)) /\ Writes(m, m1, N)
  <2>1. page \in m.pages
    BY <1>0, <1>2
  <2> HIDE DEF l, S
  <2>2. /\ Line(Returned(m, l, page), l, S \ BlocksOf(page, l[2]))
        /\ Writes(m, Returned(m, l, page), S \cup {HeadOf(l), TailOf(l)})
    BY <1>1, <1>6, <2>1, ReturnedLine
  <2> QED
    BY <1>1, <2>2
<1> HIDE DEF m1
<1>8. m1 \in MemSet /\ m1.pages = V /\ m1.ok
  BY <1>0, <1>7 DEF Writes
<1>9. HeaderOk(B, P)
  BY <1>0, <1>4 DEF HeaderOk
<1>10. HeldOk(B, H)
  BY <1>0, <1>4, <1>5 DEF HeldOk
<1>11. \A v \in Page, e \in Desc : B[v].desc = <<p, e>> <=> A[v].desc = <<p, e>> /\ v # page
  <2>1. \A e \in Desc : <<p, e>> # None
    BY EndsAreNot DEF List
  <2> QED
    BY <2>1, NoneIsNone
<1>12. CountOk(p, B, H)
  BY <1>0, <1>11 DEF CountOk
<1>13. \A x \in Block : x[1] \in Page
  BY DEF Block
<1>14. FreeIn(p, d, B, H) = S \ BlocksOf(page, d)
  <2>1. BlocksOf(page, d) = {x \in Block : x[1] = page /\ x[2] < PerArena[d]}
    BY BlocksOfAre
  <2> QED
    BY <1>11, <1>13, <2>1 DEF FreeIn
<1>15. \A e \in Desc : e # d => FreeIn(p, e, B, H) = FreeIn(p, e, A, H)
  <2> TAKE e \in Desc
  <2> HAVE e # d
  <2>1. A[page].desc # <<p, e>>
    OBVIOUS
  <2> QED
    BY <1>11, <1>13, <2>1 DEF FreeIn
<1>16. /\ w \in MemSet /\ w.ends = m1.ends /\ w.pages = W /\ w.ok = m1.ok
       /\ \A v \in Page \ {page} : w.link[v] = m1.link[v]
  <2>1. W \in SUBSET Page /\ m1 \in MemSet
    BY <1>8
  <2> HIDE DEF W
  <2> DEFINE R == {page}
  <2>2. R \in SUBSET Page
    OBVIOUS
  <2> HIDE DEF R
  <2>3. /\ Paged(m1, R, W) \in MemSet
        /\ Paged(m1, R, W).ends = m1.ends /\ Paged(m1, R, W).pages = W /\ Paged(m1, R, W).ok = m1.ok
        /\ \A v \in Page \ R : Paged(m1, R, W).link[v] = m1.link[v]
    BY <2>1, <2>2, PagedAre
  <2> QED
    BY <2>3 DEF R
<1>17. ASSUME NEW e \in Desc PROVE Line(m1, <<p, e>>, FreeIn(p, e, B, H))
  <2>1. CASE e = d
    BY <1>7, <1>14, <2>1
  <2>2. CASE e # d
    <3>1. S \cap FreeIn(p, e, A, H) = {}
      BY <2>2, FreeInApart
    <3>2. Line(m, <<p, e>>, FreeIn(p, e, A, H))
      BY <1>0 DEF ListOk
    <3>3. S \subseteq Block /\ FreeIn(p, e, A, H) \subseteq Block
      BY DEF FreeIn
    <3> HIDE DEF S
    <3>4. N \cap Ends \subseteq {HeadOf(l), TailOf(l)} /\ N \cap FreeIn(p, e, A, H) = {}
      BY <1>1, <3>1, <3>3, EndsAreNot
    <3> HIDE DEF N
    <3>5. Line(m1, <<p, e>>, FreeIn(p, e, A, H))
      BY <1>7, <2>2, <3>2, <3>4, OtherLine
    <3> QED
      BY <1>15, <2>2, <3>5
  <2> QED
    BY <2>1, <2>2
<1>18. ListOk(p, B, H, w)
  <2> SUFFICES ASSUME NEW e \in Desc PROVE Line(w, <<p, e>>, FreeIn(p, e, B, H))
    BY DEF ListOk
  <2>1. <<p, e>> \in List /\ Line(m1, <<p, e>>, FreeIn(p, e, B, H))
    BY <1>17 DEF List
  <2>2. \A x \in FreeIn(p, e, B, H) : x[1] \in V /\ x[1] \in Page \ {page}
    <3>1. \A x \in FreeIn(p, e, B, H) : x[1] \in Page /\ B[x[1]].desc = <<p, e>>
      BY DEF FreeIn, Block
    <3>2. \A x \in FreeIn(p, e, B, H) : x[1] \in m1.pages
      BY <1>8, <2>1, LineBlocks
    <3> QED
      BY <1>8, <1>11, <3>1, <3>2
  <2> HIDE DEF w
  <2>3. \A x \in FreeIn(p, e, B, H) : x[1] \in w.pages /\ w.link[x[1]] = m1.link[x[1]]
    BY <1>16, <2>2
  <2> QED
    BY <1>8, <1>16, <2>1, <2>3, LineRepaged
<1>19. \A x \in Ends \ {HeadOf(l), TailOf(l)} : w.ends[x] = m.ends[x]
  <2>1. \A x \in Ends \ {HeadOf(l), TailOf(l)} : x \notin N
    BY EndsAreNot DEF FreeIn
  <2>2. \A x \in Ends \ {HeadOf(l), TailOf(l)} : m1.ends[x] = m.ends[x]
    BY <1>7, <2>1 DEF Writes, Get
  <2> HIDE DEF w
  <2> QED
    BY <1>16, <2>2
<1> HIDE DEF w, W
<1>20. BaseOk(p, P, W, B, H, w)
  BY <1>4, <1>8, <1>9, <1>10, <1>12, <1>16, <1>18 DEF BaseOk
<1> QED
  BY <1>2, <1>3, <1>8, <1>16, <1>19, <1>20 DEF w, W, m1, ArenaGone
-----------------------------------------------------------------------------
(* All processes *)

HeapInv ==
    /\ TypeOK
    /\ halt # "fault"
    /\ \A p \in started : /\ BaseOk(p, started, virt[p], arena[p], held[p], MemoryOf(p))
                          /\ NotWhole(p, arena[p])

LEMMA EmptyLine ==
    ASSUME NEW m \in MemSet, NEW l \in List,
           m.ends[HeadOf(l)].next = TailOf(l), m.ends[TailOf(l)].prev = HeadOf(l)
    PROVE  Line(m, l, {})
<1> DEFINE c == [i \in 0 .. 1 |-> IF i = 0 THEN HeadOf(l) ELSE TailOf(l)]
<1>1. c[0] = HeadOf(l) /\ c[1] = TailOf(l) /\ 0 + 1 = 1 /\ 1 .. 0 = {} /\ 0 .. 0 = {0}
  OBVIOUS
<1> HIDE DEF c
<1>2. Get(m, HeadOf(l)).next = TailOf(l) /\ Get(m, TailOf(l)).prev = HeadOf(l)
  BY EndsAreNot DEF Get
<1>3. Chain(m, l, c, 0)
  BY <1>1, <1>2 DEF Chain
<1>4. {} = {c[i] : i \in 1 .. 0}
  BY <1>1
<1>5. 0 \in Nat
  OBVIOUS
<1> QED
  BY <1>3, <1>4, <1>5 DEF Line

LEMMA MemoryType ==
    ASSUME TypeOK, NEW p \in Proc
    PROVE  /\ MemoryOf(p) \in MemSet /\ virt[p] \in SUBSET Page /\ arena[p] \in Headers
           /\ held[p] \in SUBSET Block /\ MemoryOf(p).ends = ends /\ MemoryOf(p).link = link[p]
           /\ MemoryOf(p).pages = virt[p] /\ MemoryOf(p).ok = TRUE
BY DEF TypeOK, MemoryOf, MemSet, Headers, Header

\* A process whose own lists are not touched, when others may have been started
LEMMA OtherOk ==
    ASSUME NEW q \in Proc, NEW P, NEW Q, P \subseteq Q, NEW V \in SUBSET Page, NEW A \in Headers,
           NEW H \in SUBSET Block, NEW m \in MemSet, BaseOk(q, P, V, A, H, m),
           NEW w \in MemSet, w.link = m.link, w.pages = m.pages, w.ok = m.ok,
           \A e \in Desc : /\ w.ends[HeadOf(<<q, e>>)] = m.ends[HeadOf(<<q, e>>)]
                           /\ w.ends[TailOf(<<q, e>>)] = m.ends[TailOf(<<q, e>>)]
    PROVE  BaseOk(q, Q, V, A, H, w)
<1>1. SpaceOk(V, A) /\ HeaderOk(A, P) /\ HeldOk(A, H) /\ CountOk(q, A, H) /\ ListOk(q, A, H, m)
      /\ m.pages = V /\ m.ok
  BY DEF BaseOk
<1>2. HeaderOk(A, Q)
  BY <1>1 DEF HeaderOk
<1>3. ASSUME NEW e \in Desc PROVE Line(w, <<q, e>>, FreeIn(q, e, A, H))
  <2> DEFINE l == <<q, e>>
             S == FreeIn(q, e, A, H)
  <2>1. l \in List /\ Line(m, l, S)
    BY <1>1 DEF List, ListOk
  <2>2. HeadOf(l) \in Ends /\ TailOf(l) \in Ends /\ S \subseteq Block
    BY <2>1, EndsAreNot DEF FreeIn
  <2>3. Get(w, HeadOf(l)) = Get(m, HeadOf(l)) /\ Get(w, TailOf(l)) = Get(m, TailOf(l))
    BY <2>2 DEF Get
  <2>4. \A x \in S : Get(w, x) = Get(m, x)
    BY <2>2, EndsAreNot DEF Get
  <2>5. \A x \in S : x[1] \in w.pages
    BY <2>1, LineBlocks
  <2> HIDE DEF l, S
  <2>6. \A x \in S \cup {HeadOf(l), TailOf(l)} : Get(w, x) = Get(m, x)
    BY <2>3, <2>4
  <2>7. Line(w, l, S)
    BY <2>1, <2>5, <2>6, LineStays
  <2> QED
    BY <2>7 DEF l, S
<1> QED
  BY <1>1, <1>2, <1>3 DEF BaseOk, ListOk

\* A call of p changes what is p's and the ends of one of p's lists.
LEMMA CallKeeps ==
    ASSUME HeapInv, NEW p \in started, NEW d \in Desc, TypeOK', started' = started,
           halt' # "fault",
           \A q \in Proc \ {p} : /\ virt'[q] = virt[q] /\ arena'[q] = arena[q]
                                 /\ held'[q] = held[q] /\ link'[q] = link[q],
           \A x \in Ends \ {HeadOf(<<p, d>>), TailOf(<<p, d>>)} : ends'[x] = ends[x],
           BaseOk(p, started, virt'[p], arena'[p], held'[p], MemoryOf(p)'),
           NotWhole(p, arena'[p])
    PROVE  HeapInv'
<1>1. ASSUME NEW q \in started, q # p
      PROVE  /\ BaseOk(q, started, virt'[q], arena'[q], held'[q], MemoryOf(q)')
             /\ NotWhole(q, arena'[q])
  <2>1. q \in Proc \ {p} /\ p \in Proc
    BY <1>1 DEF HeapInv, TypeOK
  <2>2. /\ MemoryOf(q) \in MemSet /\ virt[q] \in SUBSET Page /\ arena[q] \in Headers
        /\ held[q] \in SUBSET Block /\ MemoryOf(q).ends = ends /\ MemoryOf(q).link = link[q]
        /\ MemoryOf(q).pages = virt[q] /\ MemoryOf(q).ok = TRUE
    BY <2>1, MemoryType DEF HeapInv
  <2>3. /\ MemoryOf(q)' \in MemSet /\ MemoryOf(q)'.ends = ends' /\ MemoryOf(q)'.link = link'[q]
        /\ MemoryOf(q)'.pages = virt'[q] /\ MemoryOf(q)'.ok = TRUE
    <3>1. TypeOK' /\ q \in Proc
      BY <2>1
    <3> QED
      BY <3>1 DEF TypeOK, MemoryOf, MemSet
  <2> DEFINE w == MemoryOf(q)'
             m == MemoryOf(q)
  <2>4. BaseOk(q, started, virt[q], arena[q], held[q], m) /\ NotWhole(q, arena[q])
    BY DEF HeapInv
  <2>5. w.link = m.link /\ w.pages = m.pages /\ w.ok = m.ok
    BY <2>1, <2>2, <2>3
  <2>6. ASSUME NEW e \in Desc
        PROVE  /\ w.ends[HeadOf(<<q, e>>)] = m.ends[HeadOf(<<q, e>>)]
               /\ w.ends[TailOf(<<q, e>>)] = m.ends[TailOf(<<q, e>>)]
    <3>1. <<q, e>> \in List /\ <<p, d>> \in List /\ <<q, e>> # <<p, d>>
      BY <1>1, <2>1 DEF List
    <3>2. /\ HeadOf(<<q, e>>) \in Ends \ {HeadOf(<<p, d>>), TailOf(<<p, d>>)}
          /\ TailOf(<<q, e>>) \in Ends \ {HeadOf(<<p, d>>), TailOf(<<p, d>>)}
      BY <3>1, EndsAreNot
    <3> QED
      BY <2>2, <2>3, <3>2
  <2> HIDE DEF w, m
  <2>7. BaseOk(q, started, virt[q], arena[q], held[q], w)
    <3>1. w \in MemSet /\ m \in MemSet /\ q \in Proc /\ started \subseteq started
      BY <2>1, <2>2, <2>3 DEF w, m
    <3> QED
      BY <2>2, <2>4, <2>5, <2>6, <3>1, OtherOk
  <2> QED
    BY <2>1, <2>4, <2>7 DEF w
<1>2. \A q \in started : /\ BaseOk(q, started, virt'[q], arena'[q], held'[q], MemoryOf(q)')
                         /\ NotWhole(q, arena'[q])
  BY <1>1
<1>3. \A q \in started' : /\ BaseOk(q, started', virt'[q], arena'[q], held'[q], MemoryOf(q)')
                          /\ NotWhole(q, arena'[q])
  BY <1>2
<1> QED
  BY <1>3 DEF HeapInv

\* list_init
LEMMA NewList ==
    ASSUME NEW l \in List
    PROVE  /\ ListInit(l)[HeadOf(l)] = [prev |-> None, next |-> TailOf(l)]
           /\ ListInit(l)[TailOf(l)] = [prev |-> HeadOf(l), next |-> None]
           /\ ListInit(l)[HeadOf(l)].next = TailOf(l) /\ ListInit(l)[TailOf(l)].prev = HeadOf(l)
           /\ HeadOf(l)[2] = l[1] /\ HeadOf(l)[3] = l[2] /\ TailOf(l)[2] = l[1] /\ TailOf(l)[3] = l[2]
           /\ l = <<l[1], l[2]>>
<1>1. HeadOf(l) # TailOf(l)
  BY EndsAreNot
<1>2. /\ HeadOf(l)[2] = l[1] /\ HeadOf(l)[3] = l[2] /\ TailOf(l)[2] = l[1] /\ TailOf(l)[3] = l[2]
      /\ l = <<l[1], l[2]>>
  BY DEF HeadOf, TailOf, List
<1>3. \A x \in {HeadOf(l), TailOf(l)} :
        ListInit(l)[x] = IF x = HeadOf(l) THEN [prev |-> None, next |-> TailOf(l)]
                         ELSE [prev |-> HeadOf(l), next |-> None]
  BY <1>1 DEF ListInit
<1> QED
  BY <1>1, <1>2, <1>3

LEMMA NewListType ==
    ASSUME NEW n \in Ends
    PROVE  /\ <<n[2], n[3]>> \in List /\ ListInit(<<n[2], n[3]>>)[n] \in Elem
           /\ n \in {HeadOf(<<n[2], n[3]>>), TailOf(<<n[2], n[3]>>)}
<1>1. PICK l \in List : n = HeadOf(l) \/ n = TailOf(l)
  BY DEF Ends
<1>2. l = <<n[2], n[3]>>
  <2>1. HeadOf(l)[2] = l[1] /\ HeadOf(l)[3] = l[2] /\ TailOf(l)[2] = l[1] /\ TailOf(l)[3] = l[2]
    BY NewList
  <2>2. l = <<l[1], l[2]>>
    BY NewList
  <2>3. n[2] = l[1] /\ n[3] = l[2]
    BY <1>1, <2>1
  <2> QED
    BY <2>2, <2>3
<1>3. ListInit(l)[n] \in Elem
  <2>1. [prev |-> None, next |-> TailOf(l)] \in Elem /\ [prev |-> HeadOf(l), next |-> None] \in Elem
    BY EndsAreNot DEF Elem
  <2> QED
    BY <1>1, <2>1, NewList
<1> QED
  BY <1>1, <1>2, <1>3

LEMMA HeapStarts == Init => HeapInv
<1> SUFFICES ASSUME Init PROVE HeapInv
  OBVIOUS
<1> USE DEF Init
<1>1. TypeOK
  <2>1. ends \in [Ends -> Elem]
    BY NewListType
  <2>2. virt \in [Proc -> SUBSET Page]
    BY StackIsPage
  <2>3. arena \in [Proc -> [Page -> Header]]
    BY NoneIsNone
  <2>4. link \in [Proc -> [Page -> [Slot -> Elem]]]
    <3>1. Nil \in Elem
      BY EndsAreNot DEF Nil, Elem
    <3> QED
      BY <3>1
  <2>5. held \in [Proc -> SUBSET Block] /\ Root \in Proc /\ halt \in {"no", "full", "fault"}
    BY HeapAssumption
  <2>6. ret \in -1 .. VSize - 1
    BY HeapAssumption
  <2> QED
    BY <2>1, <2>2, <2>3, <2>4, <2>5, <2>6 DEF TypeOK, Header
<1>2. halt # "fault"
  OBVIOUS
<1>3. ASSUME NEW p \in started
      PROVE  /\ BaseOk(p, started, virt[p], arena[p], held[p], MemoryOf(p))
             /\ NotWhole(p, arena[p])
  <2>1. p \in Proc
    BY <1>1 DEF TypeOK
  <2> DEFINE V == virt[p]
             A == arena[p]
             H == held[p]
             m == MemoryOf(p)
  <2>2. V = {Stack} /\ H = {} /\ \A v \in Page : A[v] = NoArena
    BY <2>1
  <2>3. /\ m \in MemSet /\ V \in SUBSET Page /\ A \in Headers
        /\ m.ends = ends /\ m.pages = V /\ m.ok = TRUE
    BY <1>1, <2>1, MemoryType
  <2> HIDE DEF V, A, H, m
  <2>4. Taken(A) = {}
    BY <2>2 DEF Taken
  <2>5. SpaceOk(V, A) /\ HeaderOk(A, started) /\ HeldOk(A, H)
    BY <2>2, <2>4 DEF SpaceOk, HeaderOk, HeldOk
  <2>6. \A v \in Page, d \in Desc : A[v].desc # <<p, d>>
    <3>1. \A d \in Desc : <<p, d>> # None
      BY <2>1, EndsAreNot DEF List
    <3> QED
      BY <2>2, <3>1, NoneIsNone
  <2>7. CountOk(p, A, H) /\ NotWhole(p, A)
    BY <2>6 DEF CountOk, NotWhole
  <2>8. \A d \in Desc : FreeIn(p, d, A, H) = {}
    BY <2>6 DEF FreeIn, Block
  <2>9. ASSUME NEW d \in Desc PROVE Line(m, <<p, d>>, {})
    <3> DEFINE l == <<p, d>>
    <3>1. l \in List
      BY <2>1 DEF List
    <3> HIDE DEF l
    <3>2. HeadOf(l) \in Ends /\ TailOf(l) \in Ends
      BY <3>1, EndsAreNot
    <3>3. ends[HeadOf(l)] = ListInit(l)[HeadOf(l)] /\ ends[TailOf(l)] = ListInit(l)[TailOf(l)]
      BY <3>1, <3>2, NewList
    <3>4. m.ends[HeadOf(l)].next = TailOf(l) /\ m.ends[TailOf(l)].prev = HeadOf(l)
      <4>1. ListInit(l)[HeadOf(l)].next = TailOf(l) /\ ListInit(l)[TailOf(l)].prev = HeadOf(l)
        BY <3>1, NewList
      <4>2. m.ends[HeadOf(l)] = ListInit(l)[HeadOf(l)] /\ m.ends[TailOf(l)] = ListInit(l)[TailOf(l)]
        BY <2>3, <3>3
      <4> QED
        BY <4>1, <4>2
    <3>5. Line(m, l, {})
      BY <2>3, <3>1, <3>4, EmptyLine
    <3> QED
      BY <3>5 DEF l
  <2>10. ListOk(p, A, H, m)
    BY <2>8, <2>9 DEF ListOk
  <2>11. BaseOk(p, started, V, A, H, m)
    BY <2>3, <2>5, <2>7, <2>10 DEF BaseOk
  <2> QED
    BY <2>7, <2>11 DEF V, A, H, m
<1> QED
  BY <1>1, <1>2, <1>3 DEF HeapInv

\* fork
LEMMA ForkKeeps ==
    ASSUME HeapInv, NEW p \in Proc, NEW c \in Proc, Fork(p, c)
    PROVE  HeapInv'
<1> USE DEF Fork, Ready
<1>0. TypeOK
  BY DEF HeapInv
<1>1. TypeOK'
  <2>1. ends' \in [Ends -> Elem]
    <3>1. ends' = [n \in Ends |-> IF n[2] = c THEN ListInit(<<c, n[3]>>)[n] ELSE ends[n]]
      BY DEF DescInit
    <3>2. \A n \in Ends : n[2] = c => ListInit(<<c, n[3]>>)[n] \in Elem
      BY NewListType
    <3> QED
      BY <1>0, <3>1, <3>2 DEF TypeOK
  <2>2. /\ virt' \in [Proc -> SUBSET Page] /\ held' \in [Proc -> SUBSET Block]
        /\ arena' \in [Proc -> [Page -> [desc : List \cup {None}, cnt : Nat, large : BOOLEAN]]]
        /\ link' \in [Proc -> [Page -> [Slot -> Elem]]]
    BY <1>0 DEF TypeOK
  <2>3. Root \in started' /\ started' \subseteq Proc /\ ret' = ret /\ halt' = halt
    BY <1>0 DEF TypeOK
  <2> QED
    BY <1>0, <2>1, <2>2, <2>3 DEF TypeOK
<1>2. halt' # "fault"
  BY DEF HeapInv
<1>3. ASSUME NEW q \in started'
      PROVE  /\ BaseOk(q, started', virt'[q], arena'[q], held'[q], MemoryOf(q)')
             /\ NotWhole(q, arena'[q])
  <2>1. q \in Proc /\ (q = c \/ q \in started) /\ started' = started \cup {c} /\ c \notin started /\ p \in started
    BY <1>0 DEF TypeOK
  <2>2. /\ MemoryOf(q)' \in MemSet /\ MemoryOf(q)'.ends = ends' /\ MemoryOf(q)'.link = link'[q]
        /\ MemoryOf(q)'.pages = virt'[q] /\ MemoryOf(q)'.ok = TRUE
    <3>1. TypeOK' /\ q \in Proc
      BY <1>1, <2>1
    <3> QED
      BY <3>1 DEF TypeOK, MemoryOf, MemSet
  <2>3. ASSUME NEW e \in Desc, q # c
        PROVE  /\ ends'[HeadOf(<<q, e>>)] = ends[HeadOf(<<q, e>>)]
               /\ ends'[TailOf(<<q, e>>)] = ends[TailOf(<<q, e>>)]
    <3>1. <<q, e>> \in List
      BY <2>1 DEF List
    <3>2. HeadOf(<<q, e>>)[2] = q /\ TailOf(<<q, e>>)[2] = q
      BY DEF HeadOf, TailOf
    <3> QED
      BY <2>3, <3>1, <3>2, EndsAreNot DEF DescInit
  <2>4. CASE q # c
    <3> DEFINE w == MemoryOf(q)'
               m == MemoryOf(q)
    <3>1. BaseOk(q, started, virt[q], arena[q], held[q], m) /\ NotWhole(q, arena[q])
      BY <2>1, <2>4 DEF HeapInv
    <3>2. /\ m \in MemSet /\ virt[q] \in SUBSET Page /\ arena[q] \in Headers
          /\ held[q] \in SUBSET Block /\ m.ends = ends /\ m.link = link[q]
          /\ m.pages = virt[q] /\ m.ok = TRUE
      BY <1>0, <2>1, MemoryType
    <3>3. virt'[q] = virt[q] /\ arena'[q] = arena[q] /\ held'[q] = held[q] /\ link'[q] = link[q]
      BY <1>0, <2>1, <2>4 DEF TypeOK
    <3>4. /\ w \in MemSet /\ w.link = m.link /\ w.pages = m.pages /\ w.ok = m.ok /\ w.ends = ends'
      BY <2>2, <3>2, <3>3
    <3> HIDE DEF w, m
    <3>5. \A e \in Desc : /\ w.ends[HeadOf(<<q, e>>)] = m.ends[HeadOf(<<q, e>>)]
                          /\ w.ends[TailOf(<<q, e>>)] = m.ends[TailOf(<<q, e>>)]
      BY <2>3, <2>4, <3>2, <3>4
    <3>6. started \subseteq started' /\ q \in Proc
      BY <2>1
    <3>7. BaseOk(q, started', virt[q], arena[q], held[q], w)
      BY <3>1, <3>2, <3>4, <3>5, <3>6, OtherOk
    <3> QED
      BY <3>1, <3>3, <3>7 DEF w
  <2>5. CASE q = c
    <3> DEFINE V == virt[p]
               A == arena[p]
               H == held[p]
               w == MemoryOf(q)'
    <3>1. virt'[c] = V /\ arena'[c] = A /\ held'[c] = H
      BY <1>0 DEF TypeOK
    <3>2. A \in Headers /\ BaseOk(p, started, V, A, H, MemoryOf(p))
      BY <1>0, <2>1, MemoryType DEF HeapInv
    <3>3. w \in MemSet /\ w.ends = ends' /\ w.pages = V /\ w.ok
      BY <2>2, <2>5, <3>1
    <3> HIDE DEF V, A, H, w
    <3>4. SpaceOk(V, A) /\ HeaderOk(A, started) /\ HeldOk(A, H)
      BY <3>2 DEF BaseOk
    <3>5. HeaderOk(A, started')
      BY <2>1, <3>4 DEF HeaderOk
    <3>6. ASSUME NEW v \in Page, NEW d \in Desc PROVE A[v].desc # <<c, d>>
      <4>1. <<c, d>> # None
        BY EndsAreNot DEF List
      <4>2. CASE v \in Taken(A)
        <5>1. A[v].desc = None \/ A[v].desc \in started \X Desc
          BY <3>4, <4>2 DEF HeaderOk
        <5>2. <<c, d>> \notin started \X Desc
          BY <2>1
        <5> QED
          BY <4>1, <5>1, <5>2
      <4>3. CASE v \notin Taken(A)
        BY <4>1, <4>3, NoneIsNone DEF Taken
      <4> QED
        BY <4>2, <4>3
    <3>7. CountOk(c, A, H) /\ NotWhole(c, A)
      BY <3>6 DEF CountOk, NotWhole
    <3>8. \A d \in Desc : FreeIn(c, d, A, H) = {}
      BY <3>6 DEF FreeIn, Block
    <3>9. ASSUME NEW d \in Desc PROVE Line(w, <<c, d>>, {})
      <4> DEFINE l == <<c, d>>
      <4>1. l \in List /\ l[1] = c /\ l[2] = d
        BY DEF List
      <4> HIDE DEF l
      <4>2. HeadOf(l) \in Ends /\ TailOf(l) \in Ends
        BY <4>1, EndsAreNot
      <4>3. ends'[HeadOf(l)] = ListInit(l)[HeadOf(l)] /\ ends'[TailOf(l)] = ListInit(l)[TailOf(l)]
        BY <4>1, <4>2, NewList DEF DescInit
      <4>4. w.ends[HeadOf(l)].next = TailOf(l) /\ w.ends[TailOf(l)].prev = HeadOf(l)
        <5>1. /\ ListInit(l)[HeadOf(l)].next = TailOf(l)
              /\ ListInit(l)[TailOf(l)].prev = HeadOf(l)
          BY <4>1, NewList
        <5>2. w.ends = ends'
          BY <3>3
        <5> QED
          BY <4>3, <5>1, <5>2
      <4>5. Line(w, l, {})
        BY <3>3, <4>1, <4>4, EmptyLine
      <4> QED
        BY <4>5 DEF l
    <3>10. ListOk(c, A, H, w)
      BY <3>8, <3>9 DEF ListOk
    <3>11. BaseOk(c, started', V, A, H, w)
      BY <3>3, <3>4, <3>5, <3>7, <3>10 DEF BaseOk
    <3> QED
      BY <2>5, <3>1, <3>7, <3>11 DEF w
  <2> QED
    BY <2>4, <2>5
<1> QED
  BY <1>1, <1>2, <1>3 DEF HeapInv

\* What a call of p leaves
LEMMA CallMade ==
    ASSUME HeapInv, NEW p \in started, NEW d \in Desc, NEW V \in SUBSET Page,
           NEW A \in Headers, NEW H \in SUBSET Block, NEW w \in MemSet,
           BaseOk(p, started, V, A, H, w), NotWhole(p, A),
           started' = started, halt' \in {"no", "full"}, ret' \in -1 .. VSize - 1,
           ends' = w.ends, link' = [link EXCEPT ![p] = w.link],
           virt' = [virt EXCEPT ![p] = V], arena' = [arena EXCEPT ![p] = A],
           held' = [held EXCEPT ![p] = H],
           \A x \in Ends \ {HeadOf(<<p, d>>), TailOf(<<p, d>>)} : w.ends[x] = ends[x]
    PROVE  HeapInv'
<1>1. TypeOK /\ p \in Proc
  BY DEF HeapInv, TypeOK
<1>2. w.pages = V /\ w.ok = TRUE /\ w.ends \in [Ends -> Elem] /\ w.link \in [Page -> [Slot -> Elem]]
  BY DEF BaseOk, MemSet
<1>3. TypeOK'
  <2>1. ends' \in [Ends -> Elem]
    BY <1>2
  <2>2. link' \in [Proc -> [Page -> [Slot -> Elem]]] /\ link'[p] = w.link
    BY <1>1, <1>2 DEF TypeOK
  <2>3. virt' \in [Proc -> SUBSET Page]
    BY <1>1 DEF TypeOK
  <2>4. arena' \in [Proc -> [Page -> [desc : List \cup {None}, cnt : Nat, large : BOOLEAN]]]
    BY <1>1 DEF TypeOK, Headers, Header
  <2>5. held' \in [Proc -> SUBSET Block]
    BY <1>1 DEF TypeOK
  <2> QED
    BY <1>1, <2>1, <2>2, <2>3, <2>4, <2>5 DEF TypeOK
<1>4. virt'[p] = V /\ arena'[p] = A /\ held'[p] = H /\ link'[p] = w.link
  BY <1>1 DEF TypeOK
<1>5. \A q \in Proc \ {p} : /\ virt'[q] = virt[q] /\ arena'[q] = arena[q]
                            /\ held'[q] = held[q] /\ link'[q] = link[q]
  BY <1>1 DEF TypeOK
<1>6. MemoryOf(p)' = w
  <2>1. w = [ends |-> w.ends, link |-> w.link, pages |-> w.pages, ok |-> w.ok]
    BY DEF MemSet
  <2>2. MemoryOf(p)' = [ends |-> w.ends, link |-> w.link, pages |-> V, ok |-> TRUE]
    BY <1>4 DEF MemoryOf
  <2> QED
    BY <1>2, <2>1, <2>2
<1>7. BaseOk(p, started, virt'[p], arena'[p], held'[p], MemoryOf(p)') /\ NotWhole(p, arena'[p])
  BY <1>4, <1>6
<1>8. \A x \in Ends \ {HeadOf(<<p, d>>), TailOf(<<p, d>>)} : ends'[x] = ends[x]
  OBVIOUS
<1>9. halt' # "fault"
  OBVIOUS
<1> QED
  BY <1>3, <1>5, <1>7, <1>8, <1>9, CallKeeps

\* The end of sys_malloc
LEMMA TakeKeeps ==
    ASSUME HeapInv, NEW p \in started, NEW d \in Desc, NEW V \in SUBSET Page,
           NEW A \in Headers, NEW m \in MemSet,
           BaseOk(p, started, V, A, held[p], m), FreeIn(p, d, A, held[p]) # {},
           \A v \in Page, e \in Desc : A[v].desc = <<p, e>> =>
               \/ A[v].cnt < PerArena[e]
               \/ A[v].cnt = PerArena[e] /\ \A b \in FreeIn(p, d, A, held[p]) : b[1] = v,
           \A x \in Ends \ {HeadOf(<<p, d>>), TailOf(<<p, d>>)} : m.ends[x] = ends[x],
           TakeBlock(p, <<p, d>>, m, A), started' = started, ret' \in -1 .. VSize - 1, halt = "no"
    PROVE  HeapInv'
<1> DEFINE l == <<p, d>>
           H == held[p]
           b == FirstOf(m, l)
           m1 == ListRemove(m, b)
           w == HandedOut(m, b)
           B == OneLess(A, b[1])
<1>1. p \in Proc /\ H \in SUBSET Block
  BY DEF HeapInv, TypeOK
<1>2. /\ b \in FreeIn(p, d, A, H) /\ m1.ok /\ B \in Headers
      /\ BaseOk(p, started, V, B, H \cup {b}, w)
      /\ Writes(m, w, FreeIn(p, d, A, H) \cup {HeadOf(l), TailOf(l)})
      /\ ~A[b[1]].large /\ A[b[1]].desc = l
  <2>1. BaseOk(p, started, V, A, H, m) /\ FreeIn(p, d, A, H) # {} /\ b = FirstOf(m, <<p, d>>)
    OBVIOUS
  <2> HIDE DEF H, b
  <2>2. b \in FreeIn(p, d, A, H)
    BY <1>1, <2>1, TakeOk
  <2>3. OneLess(A, b[1]) \in Headers
    BY <1>1, <2>1, TakeOk
  <2>4. BaseOk(p, started, V, OneLess(A, b[1]), H \cup {b}, HandedOut(m, b))
    BY <1>1, <2>1, TakeOk
  <2>5. Writes(m, HandedOut(m, b), FreeIn(p, d, A, H) \cup {HeadOf(<<p, d>>), TailOf(<<p, d>>)})
    BY <1>1, <2>1, TakeOk
  <2>6. A[b[1]].desc = <<p, d>>
    BY <2>2 DEF FreeIn
  <2>7. ~A[b[1]].large
    BY <1>1, <2>1, TakeOk
  <2>8. ListRemove(m, b).ok
    BY <1>1, <2>1, TakeOk
  <2> QED
    BY <2>2, <2>3, <2>4, <2>5, <2>6, <2>7, <2>8
<1>3. m.pages = V
  BY DEF BaseOk
<1>4. /\ ends' = m1.ends /\ virt' = [virt EXCEPT ![p] = V] /\ halt' = halt
      /\ link' = [link EXCEPT ![p] = [m1.link EXCEPT ![b[1]][b[2]] = Nil]]
      /\ arena' = [arena EXCEPT ![p] = B]
      /\ held' = [held EXCEPT ![p] = H \cup {b}]
  BY <1>2, <1>3 DEF TakeBlock, FirstOf, OneLess
<1>5. m1 \in MemSet
  <2>1. Line(m, l, FreeIn(p, d, A, H)) /\ l \in List
    BY <1>1 DEF BaseOk, ListOk, List
  <2> QED
    BY <1>2, <2>1, RemoveLine DEF Writes
<1> HIDE DEF m1, B, b
<1>6. w.ends = m1.ends /\ w.link = [m1.link EXCEPT ![b[1]][b[2]] = Nil] /\ w \in MemSet
  <2>1. w \in MemSet
    BY <1>2 DEF Writes
  <2>2. w.ends = m1.ends /\ w.link = [m1.link EXCEPT ![b[1]][b[2]] = Nil]
    BY <1>5 DEF MemSet, w, HandedOut, m1
  <2> QED
    BY <2>1, <2>2
<1> HIDE DEF w
<1>7. b \in Block /\ b[1] \in Page /\ H \cup {b} \in SUBSET Block
  BY <1>1, <1>2 DEF FreeIn, Block
<1>8. NotWhole(p, B)
  <2> SUFFICES ASSUME NEW v \in Page, NEW e \in Desc, B[v].desc = <<p, e>>
               PROVE  B[v].cnt < PerArena[e]
    BY DEF NotWhole
  <2>1. A[v] \in Header /\ A[b[1]] \in Header /\ PerArena[e] \in Nat
    BY <1>7, HeapAssumption DEF Headers
  <2>2. CASE v = b[1]
    <3>1. B[v].cnt = A[v].cnt - 1 /\ A[v].desc = B[v].desc
      BY <1>7, <2>1, <2>2 DEF B, OneLess, Headers, Header
    <3>2. A[v].cnt <= PerArena[e] /\ A[v].cnt \in Nat
      BY <2>1, <3>1 DEF Header
    <3> QED
      BY <2>1, <3>1, <3>2
  <2>3. CASE v # b[1]
    <3>1. B[v] = A[v]
      BY <2>3 DEF B, OneLess, Headers
    <3> QED
      BY <1>2, <2>3, <3>1
  <2> QED
    BY <2>2, <2>3
<1>9. \A x \in Ends \ {HeadOf(l), TailOf(l)} : w.ends[x] = ends[x]
  <2>1. FreeIn(p, d, A, H) \subseteq Block
    BY DEF FreeIn
  <2>2. \A x \in Ends \ {HeadOf(l), TailOf(l)} : w.ends[x] = m.ends[x]
    BY <1>2, <2>1, EndsAreNot DEF Writes, Get
  <2> QED
    BY <2>2
<1>10. /\ ends' = w.ends /\ link' = [link EXCEPT ![p] = w.link] /\ virt' = [virt EXCEPT ![p] = V]
       /\ arena' = [arena EXCEPT ![p] = B] /\ held' = [held EXCEPT ![p] = H \cup {b}]
       /\ halt' \in {"no", "full"}
  BY <1>4, <1>6
<1>11. B \in Headers /\ BaseOk(p, started, V, B, H \cup {b}, w)
  BY <1>2
<1> DEFINE G == H \cup {b}
<1>12. BaseOk(p, started, V, B, G, w) /\ G \in SUBSET Block /\ held' = [held EXCEPT ![p] = G]
  BY <1>7, <1>10, <1>11
<1> HIDE DEF G, H
<1> QED
  BY <1>6, <1>8, <1>9, <1>10, <1>11, <1>12, CallMade, ZenonT(40) DEF l

LEMMA ListIsEmpty ==
    ASSUME HeapInv, NEW p \in started, NEW d \in Desc
    PROVE  /\ p \in Proc /\ <<p, d>> \in List
           /\ BaseOk(p, started, virt[p], arena[p], held[p], MemoryOf(p)) /\ NotWhole(p, arena[p])
           /\ ListEmpty(<<p, d>>) <=> FreeIn(p, d, arena[p], held[p]) = {}
<1>1. p \in Proc /\ TypeOK
  BY DEF HeapInv, TypeOK
<1>2. BaseOk(p, started, virt[p], arena[p], held[p], MemoryOf(p)) /\ NotWhole(p, arena[p])
  BY DEF HeapInv
<1> DEFINE l == <<p, d>>
           S == FreeIn(p, d, arena[p], held[p])
           m == MemoryOf(p)
<1>3. l \in List /\ Line(m, l, S) /\ m \in MemSet /\ m.ends = ends
  BY <1>1, <1>2, MemoryType DEF List, BaseOk, ListOk
<1> HIDE DEF l, S, m
<1>4. ends[HeadOf(l)].next # TailOf(l) <=> S # {}
  BY <1>3, FirstOfLine
<1> QED
  BY <1>1, <1>2, <1>3, <1>4 DEF ListEmpty, l, S

LEMMA PagesAreNumbers == Page \subseteq Nat /\ Page = 0 .. VSize - 1 /\ VSize \in Nat
BY HeapAssumption DEF Page

\* What bitmap_scan finds for the heap; the user stack ends the last run.
LEMMA ScanPages ==
    ASSUME NEW V \in SUBSET Page, Stack \in V, NEW cnt \in Nat \ {0}, ~ScanPanics(V, VSize)
    PROVE  \/ Scan(V, VSize, cnt) = -1 /\ cnt # 1
           \/ Scan(V, VSize, cnt) \in Page \ V /\ Run(Scan(V, VSize, cnt), cnt) \subseteq Page \ V
<1> DEFINE s == Scan(V, VSize, cnt)
<1>1. V \in SUBSET Nat /\ VSize \in Nat /\ Stack = VSize - 1
  BY PagesAreNumbers DEF Stack
<1>2. \/ s = -1 /\ cnt # 1
      \/ /\ s \in 0 .. VSize - 1
         /\ \A i \in s .. s + cnt - 1 : i \notin V
         /\ s + cnt - 1 <= VSize
  BY <1>1, ScanFree
<1> HIDE DEF s
<1>3. CASE s \in 0 .. VSize - 1 /\ (\A i \in s .. s + cnt - 1 : i \notin V) /\ s + cnt - 1 <= VSize
  <2>1. ~(Stack \in s .. s + cnt - 1)
    BY <1>3
  <2>2. s + cnt - 1 <= VSize - 1
    BY <1>1, <1>3, <2>1
  <2>3. s \in s .. s + cnt - 1
    BY <1>3
  <2> QED
    BY <1>1, <1>3, <2>2, <2>3 DEF Run, Page, s
<1> QED
  BY <1>2, <1>3 DEF s

LEMMA MallocKeeps ==
    ASSUME HeapInv, NEW p \in Proc, NEW d \in Desc, Malloc(p, d)
    PROVE  HeapInv'
<1> DEFINE l == <<p, d>>
           V == virt[p]
           A == arena[p]
           H == held[p]
           m == MemoryOf(p)
<1>1. /\ p \in started /\ halt = "no" /\ started' = started /\ TypeOK
      /\ ret \in -1 .. VSize - 1
  BY DEF Malloc, Ready, HeapInv, TypeOK
<1>2. /\ BaseOk(p, started, V, A, H, m) /\ NotWhole(p, A)
      /\ ListEmpty(l) <=> FreeIn(p, d, A, H) = {}
  BY <1>1, ListIsEmpty
<1>3. /\ m \in MemSet /\ V \in SUBSET Page /\ A \in Headers /\ H \in SUBSET Block
      /\ m.ends = ends /\ m.pages = V /\ m.ok
  BY <1>1, MemoryType
<1>4. CASE ~ListEmpty(l)
  <2>1. TakeBlock(p, l, m, A) /\ UNCHANGED ret
    BY <1>4 DEF Malloc
  <2>2. FreeIn(p, d, A, H) # {}
    BY <1>2, <1>4
  <2>3. \A v \in Page, e \in Desc : A[v].desc = <<p, e>> =>
               \/ A[v].cnt < PerArena[e]
               \/ A[v].cnt = PerArena[e] /\ \A b \in FreeIn(p, d, A, H) : b[1] = v
    BY <1>2 DEF NotWhole
  <2>4. \A x \in Ends \ {HeadOf(l), TailOf(l)} : m.ends[x] = ends[x]
    BY <1>3
  <2>5. ret' \in -1 .. VSize - 1
    BY <1>1, <2>1
  <2>6. BaseOk(p, started, V, A, held[p], m) /\ FreeIn(p, d, A, held[p]) # {}
    BY <1>2, <2>2
  <2> HIDE DEF V, A, m
  <2> QED
    BY <1>1, <1>3, <2>1, <2>3, <2>4, <2>5, <2>6, TakeKeeps
<1>5. CASE ListEmpty(l) /\ ScanPanics(V, VSize)
  <2>1. halt' = "full" /\ UNCHANGED <<virt, arena, ends, link, held, ret>>
    BY <1>5 DEF Malloc
  <2>2. TypeOK'
    BY <1>1, <2>1 DEF TypeOK
  <2>3. \A q \in started' : /\ BaseOk(q, started', virt'[q], arena'[q], held'[q], MemoryOf(q)')
                            /\ NotWhole(q, arena'[q])
    BY <1>1, <2>1 DEF HeapInv, MemoryOf
  <2> QED
    BY <2>1, <2>2, <2>3 DEF HeapInv
<1>6. CASE ListEmpty(l) /\ ~ScanPanics(V, VSize)
  <2> DEFINE page == Scan(V, VSize, 1)
             mm == [m EXCEPT !.pages = @ \cup {page}]
             w == Carved(mm, l, page)
             B == [A EXCEPT ![page] = [desc |-> l, cnt |-> PerArena[d], large |-> FALSE]]
  <2>1. TakeBlock(p, l, w, B) /\ Answer(p, page)
    BY <1>6 DEF Malloc
  <2>2. page \in Page \ V
    <3>1. Stack \in V
      BY <1>2 DEF BaseOk, SpaceOk
    <3>2. 1 \in Nat \ {0}
      OBVIOUS
    <3> HIDE DEF V
    <3> QED
      BY <1>3, <1>6, <3>1, <3>2, ScanPages
  <2>3. FreeIn(p, d, A, H) = {}
    BY <1>2, <1>6
  <2>4. w = Carved(WithPage(m, page), <<p, d>>, page) /\ B = WithArena(A, page, p, d)
    BY DEF WithPage, WithArena
  <2> DEFINE W == V \cup {page}
  <2> HIDE DEF l, V, A, H, m, mm, w, B, page, W
  <2>5. /\ p \in Proc /\ d \in Desc /\ p \in started /\ V \in SUBSET Page /\ A \in Headers
        /\ H \in SUBSET Block /\ m \in MemSet /\ BaseOk(p, started, V, A, H, m)
        /\ FreeIn(p, d, A, H) = {} /\ page \in Page \ V
        /\ w = Carved(WithPage(m, page), <<p, d>>, page) /\ B = WithArena(A, page, p, d)
    BY <1>1, <1>2, <1>3, <2>2, <2>3, <2>4
  <2>6. ArenaMade(p, d, started, V, A, H, m, page, B, w) /\ W = V \cup {page}
    BY <2>5, ArenaOk DEF W
  <2>7. /\ BaseOk(p, started, W, B, H, w) /\ FreeIn(p, d, B, H) # {}
        /\ B \in Headers /\ w \in MemSet /\ W \in SUBSET Page
    BY <2>6 DEF ArenaMade
  <2>8. \A x \in Ends \ {HeadOf(<<p, d>>), TailOf(<<p, d>>)} : w.ends[x] = ends[x]
    BY <1>3, <2>6 DEF ArenaMade
  <2>9. /\ B[page].desc = <<p, d>> /\ B[page].cnt = PerArena[d]
        /\ \A v \in Page \ {page} : B[v] = A[v]
    BY <2>6 DEF ArenaMade
  <2>9a. FreeIn(p, d, B, H) = BlocksOf(page, d)
    BY <2>6 DEF ArenaMade
  <2>10. \A v \in Page, e \in Desc : B[v].desc = <<p, e>> =>
               \/ B[v].cnt < PerArena[e]
               \/ B[v].cnt = PerArena[e] /\ \A b \in FreeIn(p, d, B, H) : b[1] = v
    <3> TAKE v \in Page, e \in Desc
    <3> HAVE B[v].desc = <<p, e>>
    <3>1. CASE v = page
      <4>1. B[page].desc = <<p, d>> /\ B[page].cnt = PerArena[d]
        BY <2>9
      <4>2. e = d
        BY <3>1, <4>1
      <4>3. \A b \in FreeIn(p, d, B, H) : b[1] = page
        BY <2>9a DEF BlocksOf
      <4> QED
        BY <3>1, <4>1, <4>2, <4>3
    <3>2. CASE v # page
      BY <1>2, <2>9, <3>2 DEF NotWhole
    <3> QED
      BY <3>1, <3>2
  <2>11. ret' \in -1 .. VSize - 1
    <3>1. page \in -1 .. VSize - 1
      BY <2>2, PagesAreNumbers
    <3> QED
      BY <1>1, <2>1, <3>1 DEF Answer
  <2>12. BaseOk(p, started, W, B, held[p], w) /\ FreeIn(p, d, B, held[p]) # {}
    BY <2>7 DEF H
  <2>13. \A v \in Page, e \in Desc : B[v].desc = <<p, e>> =>
               \/ B[v].cnt < PerArena[e]
               \/ B[v].cnt = PerArena[e] /\ \A b \in FreeIn(p, d, B, held[p]) : b[1] = v
    BY <2>10 DEF H
  <2>14. TakeBlock(p, <<p, d>>, w, B)
    BY <2>1 DEF l
  <2> QED
    BY <1>1, <2>7, <2>8, <2>11, <2>12, <2>13, <2>14, TakeKeeps, ZenonT(40)
<1> QED
  BY <1>4, <1>5, <1>6

LEMMA FullKeeps ==
    ASSUME HeapInv, started' = started, halt' = "full",
           UNCHANGED <<virt, arena, ends, link, held, ret>>
    PROVE  HeapInv'
<1>1. TypeOK'
  BY DEF HeapInv, TypeOK
<1>2. \A q \in started' : /\ BaseOk(q, started', virt'[q], arena'[q], held'[q], MemoryOf(q)')
                          /\ NotWhole(q, arena'[q])
  BY DEF HeapInv, MemoryOf
<1> QED
  BY <1>1, <1>2 DEF HeapInv

LEMMA SomeDesc == \E d : d \in Desc
BY HeapAssumption

LEMMA LargeKeeps ==
    ASSUME HeapInv, NEW p \in Proc, NEW cnt \in LargePages, MallocLarge(p, cnt)
    PROVE  HeapInv'
<1> DEFINE V == virt[p]
           A == arena[p]
           H == held[p]
           m == MemoryOf(p)
           s == Scan(V, VSize, cnt)
<1>1. /\ p \in started /\ halt = "no" /\ started' = started /\ TypeOK
      /\ ret \in -1 .. VSize - 1 /\ cnt \in Nat \ {0}
  BY HeapAssumption DEF MallocLarge, Ready, HeapInv, TypeOK
<1>2. BaseOk(p, started, V, A, H, m) /\ NotWhole(p, A)
  BY <1>1 DEF HeapInv
<1>3. /\ m \in MemSet /\ V \in SUBSET Page /\ A \in Headers /\ H \in SUBSET Block
      /\ m.ends = ends /\ m.pages = V /\ m.ok = TRUE
  BY <1>1, MemoryType
<1>4. CASE ScanPanics(V, VSize)
  BY <1>1, <1>4, FullKeeps DEF MallocLarge
<1>5. CASE ~ScanPanics(V, VSize) /\ s = -1
  <2>1. Answer(p, s) /\ UNCHANGED <<virt, arena, ends, link, held, halt>>
    BY <1>5 DEF MallocLarge
  <2>2. ret' \in -1 .. VSize - 1
    <3>1. s \in -1 .. VSize - 1
      BY <1>5, PagesAreNumbers
    <3> QED
      BY <1>1, <2>1, <3>1 DEF Answer
  <2>3. TypeOK'
    BY <1>1, <2>1, <2>2 DEF TypeOK
  <2>4. \A q \in started' : /\ BaseOk(q, started', virt'[q], arena'[q], held'[q], MemoryOf(q)')
                            /\ NotWhole(q, arena'[q])
    BY <1>1, <2>1 DEF HeapInv, MemoryOf
  <2> QED
    BY <2>1, <2>3, <2>4 DEF HeapInv
<1>6. CASE ~ScanPanics(V, VSize) /\ s # -1
  <2> DEFINE R == Run(s, cnt)
             h == [desc |-> None, cnt |-> cnt, large |-> TRUE]
             B == [A EXCEPT ![s] = h]
             W == V \cup R
             K == H \cup {<<s, 0>>}
             w == Paged(m, R, W)
  <2>1. /\ Answer(p, s) /\ UNCHANGED <<ends, halt>>
        /\ virt' = [virt EXCEPT ![p] = W] /\ held' = [held EXCEPT ![p] = K]
        /\ arena' = [arena EXCEPT ![p][s] = h]
        /\ link' = [link EXCEPT ![p] = Cleared(m, R).link]
    <3>1. virt' = [virt EXCEPT ![p] = @ \cup Run(s, cnt)]
      BY <1>6 DEF MallocLarge
    <3>2. held' = [held EXCEPT ![p] = @ \cup {<<s, 0>>}]
      BY <1>6 DEF MallocLarge
    <3>3. /\ Answer(p, s) /\ UNCHANGED <<ends, halt>> /\ arena' = [arena EXCEPT ![p][s] = h]
          /\ link' = [link EXCEPT ![p] = Cleared(m, R).link]
      BY <1>6 DEF MallocLarge
    <3> QED
      BY <3>1, <3>2, <3>3
  <2>2. s \in Page \ V /\ R \subseteq Page \ V
    <3>1. Stack \in V
      BY <1>2 DEF BaseOk, SpaceOk
    <3> HIDE DEF V
    <3> QED
      BY <1>1, <1>3, <1>6, <3>1, ScanPages
  <2>3. arena' = [arena EXCEPT ![p] = B] /\ link' = [link EXCEPT ![p] = w.link]
    <3>1. w.link = Cleared(m, R).link
      BY DEF Paged
    <3> QED
      BY <1>1, <2>1, <3>1 DEF TypeOK
  <2>4. h \in Header /\ h.large /\ h.desc = None /\ h.cnt # 0 /\ h.cnt = cnt
    BY <1>1 DEF Header
  <2> HIDE DEF s, h, V, A, H, m
  <2>5. B \in Headers /\ B[s] = h /\ \A v \in Page \ {s} : B[v] = A[v]
    BY <1>3, <2>2, <2>4 DEF Headers
  <2> HIDE DEF B, R
  <2>6. /\ p \in Proc /\ V \in SUBSET Page /\ A \in Headers /\ H \in SUBSET Block /\ m \in MemSet
        /\ BaseOk(p, started, V, A, H, m) /\ s \in Page /\ h \in Header /\ h.large
        /\ h.desc = None /\ h.cnt # 0 /\ R = Run(s, h.cnt) /\ R \subseteq Page \ V
        /\ B \in Headers /\ B[s] = h /\ \A v \in Page \ {s} : B[v] = A[v]
    BY <1>2, <1>3, <2>2, <2>4, <2>5 DEF R
  <2>7. LargeMade(p, started, V, A, H, m, s, R, B)
    BY <2>6, LargeOk
  <2>8. BaseOk(p, started, W, B, K, w) /\ W \in SUBSET Page /\ K \in SUBSET Block
    BY <1>3, <2>7 DEF LargeMade
  <2>9. w \in MemSet /\ w.ends = ends
    <3>1. m \in MemSet /\ R \in SUBSET Page /\ W \in SUBSET Page /\ m.ends = ends
      BY <1>3, <2>6, <2>8
    <3> HIDE DEF W
    <3>2. Paged(m, R, W) \in MemSet /\ Paged(m, R, W).ends = m.ends
      BY <3>1, PagedAre
    <3> QED
      BY <3>1, <3>2
  <2>10. NotWhole(p, B)
    <3>1. \A e \in Desc : <<p, e>> # None
      BY EndsAreNot DEF List
    <3> QED
      BY <1>2, <2>4, <2>5, <3>1 DEF NotWhole
  <2>11. ret' \in -1 .. VSize - 1
    <3>1. s \in -1 .. VSize - 1
      BY <2>2, PagesAreNumbers
    <3> QED
      BY <1>1, <2>1, <3>1 DEF Answer
  <2>12. ends' = w.ends /\ halt' \in {"no", "full"}
    BY <1>1, <2>1, <2>9
  <2>13. PICK d \in Desc : TRUE
    BY SomeDesc
  <2>14. \A x \in Ends \ {HeadOf(<<p, d>>), TailOf(<<p, d>>)} : w.ends[x] = ends[x]
    BY <2>9
  <2> HIDE DEF W, K, w
  <2> QED
    BY <1>1, <2>1, <2>3, <2>5, <2>8, <2>9, <2>10, <2>11, <2>12, <2>14, CallMade
<1> QED
  BY <1>4, <1>5, <1>6

\* sys_free
LEMMA FreeKeeps ==
    ASSUME HeapInv, ~FreesInherited, NEW p \in Proc, NEW b \in held[p], Free(p, b)
    PROVE  HeapInv'
<1> DEFINE V == virt[p]
           A == arena[p]
           H == held[p]
           m == MemoryOf(p)
           v == b[1]
           K == H \ {b}
<1>1. /\ p \in started /\ halt = "no" /\ started' = started /\ TypeOK
      /\ ret' \in -1 .. VSize - 1 /\ held' = [held EXCEPT ![p] = K]
      /\ A[v].large \/ A[v].desc[1] = p
  BY DEF Free, Ready, HeapInv, TypeOK
<1>2. BaseOk(p, started, V, A, H, m) /\ NotWhole(p, A)
  BY <1>1 DEF HeapInv
<1>3. /\ m \in MemSet /\ V \in SUBSET Page /\ A \in Headers /\ H \in SUBSET Block
      /\ m.ends = ends /\ m.link = link[p] /\ m.pages = V /\ m.ok = TRUE
  BY <1>1, MemoryType
<1>4. v \in Taken(A) /\ v \in Page /\ K \in SUBSET Block /\ b \in H
  BY <1>2, <1>3 DEF BaseOk, HeldOk, Taken
<1>5. \/ A[v].large /\ A[v].desc = None /\ A[v].cnt # 0
      \/ ~A[v].large /\ A[v].desc \in started \X Desc
  BY <1>2, <1>4 DEF BaseOk, HeaderOk
<1>6. CASE A[v].large
  <2> DEFINE R == Run(v, A[v].cnt)
             B == [A EXCEPT ![v] = NoArena]
             W == V \ R
             w == Paged(m, R, W)
  <2>1. /\ virt' = [virt EXCEPT ![p] = W] /\ arena' = [arena EXCEPT ![p][v] = NoArena]
        /\ link' = [link EXCEPT ![p] = Cleared(m, R).link] /\ UNCHANGED <<ends, halt>>
    <3>1. A[v].desc = None /\ A[v].large
      BY <1>5, <1>6
    <3> QED
      BY <3>1 DEF Free, FreePages
  <2>2. arena' = [arena EXCEPT ![p] = B] /\ link' = [link EXCEPT ![p] = w.link]
    <3>1. w.link = Cleared(m, R).link
      BY DEF Paged
    <3> QED
      BY <1>1, <2>1, <3>1 DEF TypeOK
  <2> HIDE DEF V, A, H, m, v
  <2>3. B \in Headers /\ B[v] = NoArena /\ \A x \in Page \ {v} : B[x] = A[x]
    BY <1>3, <1>4, NoneIsNone DEF Headers
  <2> HIDE DEF B, R
  <2>4. /\ p \in Proc /\ V \in SUBSET Page /\ A \in Headers /\ H \in SUBSET Block /\ m \in MemSet
        /\ BaseOk(p, started, V, A, H, m) /\ b \in H /\ A[b[1]].large /\ R = Run(b[1], A[b[1]].cnt)
        /\ B \in Headers /\ B[b[1]] = NoArena /\ \A x \in Page \ {b[1]} : B[x] = A[x]
    BY <1>2, <1>3, <1>4, <1>6, <2>3 DEF R, v
  <2>5. LargeGone(p, started, V, A, H, m, b, R, B)
    BY <2>4, DropLargeOk
  <2>6. BaseOk(p, started, W, B, K, w) /\ W \in SUBSET Page /\ R \in SUBSET Page
    BY <2>5 DEF LargeGone
  <2>7. w \in MemSet /\ w.ends = ends
    <3>1. m \in MemSet /\ R \in SUBSET Page /\ W \in SUBSET Page /\ m.ends = ends
      BY <1>3, <2>6
    <3> HIDE DEF W
    <3>2. Paged(m, R, W) \in MemSet /\ Paged(m, R, W).ends = m.ends
      BY <3>1, PagedAre
    <3> QED
      BY <3>1, <3>2
  <2>8. NotWhole(p, B)
    <3>1. \A e \in Desc : <<p, e>> # None
      BY EndsAreNot DEF List
    <3> QED
      BY <1>2, <2>3, <3>1, NoneIsNone DEF NotWhole
  <2>9. PICK d \in Desc : TRUE
    BY SomeDesc
  <2>10. /\ \A x \in Ends \ {HeadOf(<<p, d>>), TailOf(<<p, d>>)} : w.ends[x] = ends[x]
         /\ ends' = w.ends /\ halt' \in {"no", "full"}
    BY <1>1, <2>1, <2>7
  <2> HIDE DEF W, K, w
  <2> QED
    BY <1>1, <1>4, <2>1, <2>2, <2>3, <2>6, <2>7, <2>8, <2>10, CallMade
<1>7. CASE ~A[v].large
  <2>1. PICK d \in Desc : A[v].desc = <<p, d>>
    BY <1>1, <1>5, <1>7
  <2> DEFINE l == <<p, d>>
             m0 == ListAppend(m, l, b)
             C == [A EXCEPT ![v].cnt = @ + 1]
             full == A[v].cnt + 1 = PerArena[d]
  <2>2. FreeBlock(p, b)
    BY <1>7 DEF Free
  <2>3. A[v] \in Header /\ PerArena[d] \in Nat
    BY <1>3, <1>4, HeapAssumption DEF Headers
  <2> HIDE DEF V, A, H, m, v
  <2>4. C \in Headers /\ C[v] = [A[v] EXCEPT !.cnt = @ + 1] /\ \A x \in Page \ {v} : C[x] = A[x]
    <3>1. [A[v] EXCEPT !.cnt = @ + 1] \in Header
      BY <2>3 DEF Header
    <3>2. C = [A EXCEPT ![v] = [A[v] EXCEPT !.cnt = @ + 1]]
      BY <1>3, <1>4 DEF Headers
    <3> QED
      BY <1>3, <1>4, <3>1, <3>2 DEF Headers
  <2> HIDE DEF C
  <2>5. /\ p \in Proc /\ d \in Desc /\ V \in SUBSET Page /\ A \in Headers /\ H \in SUBSET Block
        /\ m \in MemSet /\ BaseOk(p, started, V, A, H, m) /\ b \in H /\ A[b[1]].desc = <<p, d>>
        /\ C \in Headers /\ C[b[1]] = [A[b[1]] EXCEPT !.cnt = @ + 1]
        /\ \A x \in Page \ {b[1]} : C[x] = A[x]
    BY <1>2, <1>3, <1>4, <2>1, <2>4 DEF v
  <2>6. BlockBack(p, d, started, V, A, H, m, b, C)
    BY <2>5, ReturnOk
  <2>7. /\ BaseOk(p, started, V, C, K, m0) /\ m0 \in MemSet
        /\ C[v].desc = <<p, d>> /\ C[v].cnt = A[v].cnt + 1
        /\ \A x \in Ends \ {HeadOf(<<p, d>>), TailOf(<<p, d>>)} : m0.ends[x] = ends[x]
    BY <1>3, <2>6 DEF BlockBack, v
  <2>8. m0.ok = TRUE
    BY <2>7 DEF BaseOk, MemSet
  <2>9. CASE ~full
    <3>1. /\ ends' = m0.ends /\ link' = [link EXCEPT ![p] = m0.link]
          /\ arena' = [arena EXCEPT ![p][v].cnt = @ + 1] /\ UNCHANGED <<virt, halt>>
      BY <2>1, <2>2, <2>8, <2>9 DEF FreeBlock, v, A, m
    <3>2. arena' = [arena EXCEPT ![p] = C]
      BY <1>1, <3>1 DEF TypeOK, C, A
    <3>3. virt' = [virt EXCEPT ![p] = V] /\ halt' \in {"no", "full"}
      BY <1>1, <3>1 DEF TypeOK, V
    <3>4. NotWhole(p, C)
      <4> SUFFICES ASSUME NEW x \in Page, NEW e \in Desc, C[x].desc = <<p, e>>
                   PROVE  C[x].cnt < PerArena[e]
        BY DEF NotWhole
      <4>1. CASE x = v
        <5>1. e = d
          BY <2>7, <4>1
        <5>2. A[v].cnt < PerArena[d] /\ A[v].cnt \in Nat
          BY <1>2, <1>4, <2>1, <2>3 DEF NotWhole, Header
        <5> QED
          BY <2>3, <2>7, <2>9, <4>1, <5>1, <5>2
      <4>2. CASE x # v
        BY <1>2, <2>4, <4>2 DEF NotWhole
      <4> QED
        BY <4>1, <4>2
    <3> HIDE DEF K, m0, l
    <3>5. /\ p \in started /\ d \in Desc /\ V \in SUBSET Page /\ C \in Headers
          /\ K \in SUBSET Block /\ m0 \in MemSet
          /\ BaseOk(p, started, V, C, K, m0) /\ NotWhole(p, C) /\ started' = started
          /\ halt' \in {"no", "full"} /\ ret' \in -1 .. VSize - 1
          /\ ends' = m0.ends /\ link' = [link EXCEPT ![p] = m0.link]
          /\ virt' = [virt EXCEPT ![p] = V] /\ arena' = [arena EXCEPT ![p] = C]
          /\ held' = [held EXCEPT ![p] = K]
      BY <1>1, <1>3, <1>4, <2>1, <2>4, <2>7, <3>1, <3>2, <3>3, <3>4
    <3>6. \A x \in Ends \ {HeadOf(<<p, d>>), TailOf(<<p, d>>)} : m0.ends[x] = ends[x]
      BY <2>7
    <3> QED
      BY <3>5, <3>6, CallMade
  <2>10. CASE full
    <3> DEFINE m1 == Returned(m0, l, v)
               B == [A EXCEPT ![v] = NoArena]
               W == V \ {v}
               w == Paged(m1, {v}, W)
    <3>1. B \in Headers /\ B[v] = NoArena /\ \A x \in Page \ {v} : B[x] = C[x]
      BY <1>3, <1>4, <2>4, NoneIsNone DEF Headers
    <3> HIDE DEF B
    <3>2. /\ p \in Proc /\ d \in Desc /\ V \in SUBSET Page /\ C \in Headers /\ K \in SUBSET Block
          /\ m0 \in MemSet /\ BaseOk(p, started, V, C, K, m0) /\ v \in Page
          /\ C[v].desc = <<p, d>> /\ C[v].cnt = PerArena[d]
          /\ B \in Headers /\ B[v] = NoArena /\ \A x \in Page \ {v} : B[x] = C[x]
      BY <1>3, <1>4, <2>4, <2>7, <2>10, <3>1
    <3> HIDE DEF m0
    <3>3. ArenaGone(p, d, started, V, C, K, m0, v, B)
      BY <3>2, WholeOk
    <3>4. /\ BaseOk(p, started, W, B, K, w) /\ m1 \in MemSet /\ m1.ok /\ w \in MemSet
          /\ \A x \in Ends \ {HeadOf(<<p, d>>), TailOf(<<p, d>>)} : w.ends[x] = m0.ends[x]
      BY <3>3 DEF ArenaGone
    <3> HIDE DEF m1
    <3>5. w.ends = m1.ends /\ w.link = Cleared(m1, {v}).link
      BY DEF Paged
    <3>6. /\ ends' = m1.ends /\ link' = [link EXCEPT ![p] = Cleared(m1, {v}).link]
          /\ virt' = [virt EXCEPT ![p] = @ \ Run(v, 1)]
          /\ arena' = [arena EXCEPT ![p][v] = NoArena] /\ UNCHANGED halt
      BY <2>1, <2>2, <2>8, <2>10, <3>4 DEF FreeBlock, FreePages, v, A, m, m0, m1
    <3>7. Run(v, 1) = {v}
      <4>1. v \in Int
        BY <1>4, PagesAreNumbers
      <4> QED
        BY <4>1 DEF Run
    <3>8. /\ arena' = [arena EXCEPT ![p] = B] /\ virt' = [virt EXCEPT ![p] = W]
          /\ halt' \in {"no", "full"}
      BY <1>1, <3>6, <3>7 DEF TypeOK, B, A, V
    <3>9. NotWhole(p, B)
      <4>1. \A e \in Desc : <<p, e>> # None
        BY EndsAreNot DEF List
      <4>2. \A x \in Page \ {v} : B[x] = A[x]
        BY <2>4, <3>1
      <4> QED
        BY <1>2, <3>1, <4>1, <4>2, NoneIsNone DEF NotWhole
    <3>10. \A x \in Ends \ {HeadOf(<<p, d>>), TailOf(<<p, d>>)} : w.ends[x] = ends[x]
      BY <2>7, <3>4 DEF m0
    <3>11. W \in SUBSET Page /\ ends' = w.ends /\ link' = [link EXCEPT ![p] = w.link]
      BY <1>3, <3>5, <3>6
    <3> HIDE DEF K, W, w
    <3> QED
      BY <1>1, <1>4, <3>1, <3>4, <3>8, <3>9, <3>10, <3>11, CallMade
  <2> QED
    BY <2>9, <2>10
<1> QED
  BY <1>6, <1>7

LEMMA HeapNext == HeapInv /\ ~FreesInherited /\ [Next]_vars => HeapInv'
<1> SUFFICES ASSUME HeapInv, ~FreesInherited, [Next]_vars
             PROVE  HeapInv'
  OBVIOUS
<1>1. ASSUME NEW p \in Proc, NEW d \in Desc, Malloc(p, d) PROVE HeapInv'
  BY <1>1, MallocKeeps
<1>2. ASSUME NEW p \in Proc, NEW cnt \in LargePages, MallocLarge(p, cnt) PROVE HeapInv'
  BY <1>2, LargeKeeps
<1>3. ASSUME NEW p \in Proc, NEW b \in held[p], Free(p, b) PROVE HeapInv'
  BY <1>3, FreeKeeps
<1>4. ASSUME NEW p \in Proc, NEW c \in Proc, Fork(p, c) PROVE HeapInv'
  BY <1>4, ForkKeeps
<1>5. CASE UNCHANGED vars
  <2>1. TypeOK'
    BY <1>5 DEF vars, HeapInv, TypeOK
  <2>2. halt' # "fault"
    BY <1>5 DEF vars, HeapInv
  <2>3. \A q \in started' : /\ BaseOk(q, started', virt'[q], arena'[q], held'[q], MemoryOf(q)')
                            /\ NotWhole(q, arena'[q])
    BY <1>5 DEF vars, HeapInv, MemoryOf
  <2> QED
    BY <2>1, <2>2, <2>3 DEF HeapInv
<1> QED
  BY <1>1, <1>2, <1>3, <1>4, <1>5 DEF Next

THEOREM HeapIsSound == ~FreesInherited => (Spec => []HeapInv)
<1> SUFFICES ASSUME ~FreesInherited PROVE Spec => []HeapInv
  OBVIOUS
<1>1. HeapInv /\ [Next]_vars => HeapInv'
  BY HeapNext
<1> QED
  BY <1>1, HeapStarts, PTL DEF Spec

\* When no child frees a block that its parent got before fork, the variables
\* of the heap keep to their types: every header, every list_elem and every
\* block that sys_malloc has handed out is one that can be.
THEOREM HeapTypes == ~FreesInherited => (Spec => []TypeOK)
<1>1. HeapInv => TypeOK
  BY DEF HeapInv
<1> QED
  BY <1>1, HeapIsSound, PTL

LEMMA ListsAreWhole == HeapInv => ListsWellFormed
<1> SUFFICES ASSUME HeapInv PROVE ListsWellFormed
  OBVIOUS
<1>1. ASSUME NEW p \in started, NEW d \in Desc
      PROVE  /\ \A n \in Elements(MemoryOf(p), <<p, d>>) : n \in Block /\ n[1] \in virt[p]
             /\ \A n \in Elements(MemoryOf(p), <<p, d>>) \cup {HeadOf(<<p, d>>)} :
                   Get(MemoryOf(p), Get(MemoryOf(p), n).next).prev = n
  <2> DEFINE l == <<p, d>>
             m == MemoryOf(p)
             S == FreeIn(p, d, arena[p], held[p])
  <2>1. /\ l \in List /\ m \in MemSet /\ m.pages = virt[p] /\ Line(m, l, S)
    <3>1. p \in Proc /\ TypeOK /\ BaseOk(p, started, virt[p], arena[p], held[p], MemoryOf(p))
      BY DEF HeapInv, TypeOK
    <3> QED
      BY <3>1, MemoryType DEF List, BaseOk, ListOk
  <2> HIDE DEF l, m, S
  <2>2. Elements(m, l) = S
    BY <2>1, ElementsOfLine
  <2>3. S \subseteq Block /\ \A b \in S : b[1] \in m.pages
    BY <2>1, LineBlocks
  <2>4. \A x \in S \cup {HeadOf(l)} : Get(m, Get(m, x).next).prev = x
    BY <2>1, LinePointsBack
  <2>5. /\ \A n \in Elements(m, l) : n \in Block /\ n[1] \in virt[p]
        /\ \A n \in Elements(m, l) \cup {HeadOf(l)} : Get(m, Get(m, n).next).prev = n
    BY <2>1, <2>2, <2>3, <2>4
  <2> QED
    BY <2>5 DEF l, m
<1> QED
  BY <1>1 DEF ListsWellFormed, HeapInv

\* When no child frees a block that its parent got before fork, every free
\* list of every process is one line of that process's blocks, linked both
\* ways, and no call of sys_malloc, sys_free or list.c meets a pointer that it
\* cannot follow.
THEOREM ListsStayWhole == ~FreesInherited => (Spec => []ListsWellFormed)
BY ListsAreWhole, HeapIsSound, PTL

LEMMA FreeIsTheRest == HeapInv => FreeIsExact
<1> SUFFICES ASSUME HeapInv, NEW p \in started, NEW d \in Desc
             PROVE  LET l == <<p, d>>
                        mine == {v \in Page : arena[p][v].desc = l}
                        free(v) == BlocksOf(v, d) \ held[p]
                    IN  /\ Elements(MemoryOf(p), l) = UNION {free(v) : v \in mine}
                        /\ \A v \in mine : /\ v \in virt[p]
                                           /\ arena[p][v].cnt = Cardinality(free(v))
                                           /\ arena[p][v].cnt < PerArena[d]
  BY DEF FreeIsExact
<1> DEFINE l == <<p, d>>
           A == arena[p]
           H == held[p]
           V == virt[p]
           m == MemoryOf(p)
           S == FreeIn(p, d, A, H)
           mine == {v \in Page : A[v].desc = l}
           free(v) == BlocksOf(v, d) \ H
<1>1. /\ p \in Proc /\ l \in List /\ m \in MemSet /\ Line(m, l, S) /\ V \in SUBSET Page
      /\ A \in Headers /\ BaseOk(p, started, V, A, H, m) /\ NotWhole(p, A)
  <2>1. p \in Proc /\ TypeOK /\ BaseOk(p, started, virt[p], arena[p], held[p], MemoryOf(p))
    BY DEF HeapInv, TypeOK
  <2> QED
    BY <2>1, MemoryType DEF List, BaseOk, ListOk, HeapInv
<1> HIDE DEF A, H, V, m
<1>2. Elements(m, l) = S
  BY <1>1, ElementsOfLine
<1>3. S = UNION {free(v) : v \in mine}
  <2>1. \A v \in mine : BlocksOf(v, d) = {b \in Block : b[1] = v /\ b[2] < PerArena[d]}
    BY BlocksOfAre
  <2>2. \A b \in Block : b[1] \in Page
    BY DEF Block
  <2>3. ASSUME NEW b \in S PROVE b \in UNION {free(v) : v \in mine}
    <3>1. b \in Block /\ b[1] \in mine /\ b[2] < PerArena[d] /\ b \notin H
      BY <2>2 DEF FreeIn
    <3>2. b \in free(b[1])
      BY <2>1, <3>1
    <3> QED
      BY <3>1, <3>2
  <2>4. ASSUME NEW v \in mine, NEW b \in free(v) PROVE b \in S
    BY <2>1 DEF FreeIn
  <2> QED
    BY <2>3, <2>4
<1>4. ASSUME NEW v \in mine
      PROVE  v \in V /\ A[v].cnt = Cardinality(free(v)) /\ A[v].cnt < PerArena[d]
  <2>1. A[v].cnt = Cardinality(free(v)) /\ A[v].cnt < PerArena[d]
    BY <1>1 DEF BaseOk, CountOk, NotWhole
  <2>2. A[v] # NoArena
    BY <1>1, NoneIsNone, EndsAreNot
  <2>3. v \in Taken(A) /\ SpaceOk(V, A) /\ HeaderOk(A, started)
    BY <1>1, <2>2 DEF Taken, BaseOk
  <2>4. v \in V
    BY <1>1, <2>3, TakenAreUsed
  <2> QED
    BY <2>1, <2>4
<1> QED
  BY <1>2, <1>3, <1>4 DEF A, H, V, m

\* When no child frees a block that its parent got before fork, a free list
\* holds exactly the blocks of the process's arenas of that size that it does
\* not hold, the header counts them, and no arena stays whose blocks are all
\* free: no block is handed out twice, and none is lost.
THEOREM FreeStaysExact == ~FreesInherited => (Spec => []FreeIsExact)
BY FreeIsTheRest, HeapIsSound, PTL
-----------------------------------------------------------------------------
(* The pages of the root as ranges that are handed out and taken back *)

LenOf(A, v) == IF A[v].large THEN A[v].cnt ELSE 1
RangesOf(A) == {<<v, LenOf(A, v)>> : v \in Taken(A)} \cup {<<Stack, 1>>}

\* What the ranges tell of a page: whether it starts one, and how long
Alike(A, B, v) == (v \in Taken(A) <=> v \in Taken(B)) /\ LenOf(A, v) = LenOf(B, v)

LEMMA RangesAre == RootRuns = RangesOf(arena[Root])
BY DEF RootRuns, RangesOf, LenOf, Taken

LEMMA SameRanges ==
    ASSUME NEW A, NEW B, \A v \in Page : Alike(A, B, v)
    PROVE  RangesOf(B) = RangesOf(A)
<1>1. Taken(A) = Taken(B)
  BY DEF Taken, Alike
<1>2. \A v \in Taken(A) : LenOf(A, v) = LenOf(B, v)
  BY DEF Taken, Alike
<1> QED
  BY <1>1, <1>2 DEF RangesOf

LEMMA MoreRanges ==
    ASSUME NEW A, NEW B, NEW s \in Page, s \notin Taken(A), s \in Taken(B),
           \A v \in Page \ {s} : Alike(A, B, v)
    PROVE  RangesOf(B) = RangesOf(A) \cup {<<s, LenOf(B, s)>>}
<1>1. Taken(B) = Taken(A) \cup {s}
  BY DEF Taken, Alike
<1>2. \A v \in Taken(A) : LenOf(A, v) = LenOf(B, v)
  BY DEF Taken, Alike
<1> QED
  BY <1>1, <1>2 DEF RangesOf

LEMMA LessRanges ==
    ASSUME NEW A, NEW B, NEW s \in Page \ {Stack}, s \in Taken(A), s \notin Taken(B),
           \A v \in Page \ {s} : Alike(A, B, v)
    PROVE  RangesOf(B) = RangesOf(A) \ {<<s, LenOf(A, s)>>} /\ <<s, LenOf(A, s)>> \in RangesOf(A)
<1>1. Taken(B) = Taken(A) \ {s} /\ \A v \in Taken(B) : v # s
  BY DEF Taken, Alike
<1>2. \A v \in Taken(B) : LenOf(A, v) = LenOf(B, v)
  BY <1>1 DEF Taken, Alike
<1>3. <<s, LenOf(A, s)>> # <<Stack, 1>> /\ \A v \in Taken(B) : <<v, LenOf(B, v)>> # <<s, LenOf(A, s)>>
  BY <1>1
<1> QED
  BY <1>1, <1>2, <1>3 DEF RangesOf

\* The pages in use are those of the ranges that are out.
LEMMA RangesFill ==
    ASSUME NEW V, NEW A, SpaceOk(V, A)
    PROVE  V = UNION {Ranges!Members(r) : r \in RangesOf(A)}
<1>1. Ranges!Members(<<Stack, 1>>) = {Stack}
  BY StackIsPage DEF Ranges!Members
<1>2. \A v \in Taken(A) : Ranges!Members(<<v, LenOf(A, v)>>) = Cover(A, v)
  BY DEF Ranges!Members, Cover, LenOf, Run
<1>3. V = {Stack} \cup UNION {Cover(A, v) : v \in Taken(A)}
  BY DEF SpaceOk
<1>4. ASSUME NEW x \in V PROVE \E r \in RangesOf(A) : x \in Ranges!Members(r)
  <2>1. CASE x = Stack
    BY <1>1, <2>1 DEF RangesOf
  <2>2. CASE x # Stack
    <3>1. PICK v \in Taken(A) : x \in Cover(A, v)
      BY <1>3, <2>2
    <3> QED
      BY <1>2, <3>1 DEF RangesOf
  <2> QED
    BY <2>1, <2>2
<1>5. ASSUME NEW r \in RangesOf(A), NEW x \in Ranges!Members(r) PROVE x \in V
  BY <1>1, <1>2, <1>3, <1>5 DEF RangesOf
<1> QED
  BY <1>4, <1>5

\* A step that leaves the root's ranges and its last answer alone
LEMMA RangesStutter ==
    ASSUME RangesOf(arena'[Root]) = RangesOf(arena[Root]), ret' = ret
    PROVE  UNCHANGED <<RootRuns, ret>>
BY RangesAre DEF RootRuns, RangesOf, LenOf, Taken

LEMMA RangesGranted ==
    ASSUME NEW V \in SUBSET Page, SpaceOk(V, arena[Root]), NEW s \in Page, NEW cnt \in Nat \ {0},
           Run(s, cnt) \subseteq Page \ V,
           RangesOf(arena'[Root]) = RangesOf(arena[Root]) \cup {<<s, cnt>>}, ret' = s
    PROVE  Ranges!Next
<1>1. s + cnt <= VSize /\ s \in 0 .. VSize - 1 /\ cnt \in 1 .. VSize
  <2>1. s + cnt - 1 \in Page
    <3>1. s \in Nat /\ s + cnt - 1 \in Run(s, cnt)
      BY PagesAreNumbers DEF Run
    <3> QED
      BY <3>1
  <2> QED
    BY <2>1, PagesAreNumbers
<1>2. Ranges!Members(<<s, cnt>>) = Run(s, cnt)
  BY DEF Ranges!Members, Run
<1>3. \A r \in RootRuns : Ranges!Members(r) \cap Ranges!Members(<<s, cnt>>) = {}
  BY <1>2, RangesAre, RangesFill
<1>4. RootRuns' = RootRuns \cup {<<s, cnt>>}
  BY RangesAre DEF RootRuns, RangesOf, LenOf, Taken
<1>5. Ranges!Grant(s, cnt)
  BY <1>1, <1>3, <1>4 DEF Ranges!Grant, Ranges!Fits
<1> QED
  BY <1>1, <1>5 DEF Ranges!Next

LEMMA RangesReturned ==
    ASSUME NEW r \in RangesOf(arena[Root]),
           RangesOf(arena'[Root]) = RangesOf(arena[Root]) \ {r}, ret' = ret
    PROVE  Ranges!Next
<1>1. RootRuns' = RootRuns \ {r} /\ r \in RootRuns
  BY RangesAre DEF RootRuns, RangesOf, LenOf, Taken
<1> QED
  BY <1>1 DEF Ranges!Next, Ranges!Return

\* A refusal: there is no gap.  Of a request for more pages than there are,
\* the ranges see one for all of them.
LEMMA RangesRefused ==
    ASSUME NEW V \in SUBSET Page, SpaceOk(V, arena[Root]), ~ScanPanics(V, VSize),
           NEW cnt \in Nat \ {0}, Scan(V, VSize, cnt) = -1,
           arena' = arena, ret' = -1
    PROVE  Ranges!Next
<1> DEFINE n == IF cnt <= VSize THEN cnt ELSE VSize
<1>1. n \in 1 .. VSize /\ n \in Nat \ {0} /\ VSize \in Nat \ {0, 1}
  BY HeapAssumption
<1>2. ASSUME NEW start \in 0 .. VSize - 1, start + n <= VSize
      PROVE  \E i \in start .. start + n - 1 : i \in V
  <2>1. CASE cnt <= VSize
    <3>1. V \in SUBSET Nat
      BY PagesAreNumbers
    <3> QED
      BY <1>1, <1>2, <2>1, <3>1, ScanComplete
  <2>2. CASE ~(cnt <= VSize)
    <3>1. Stack \in V /\ Stack = VSize - 1
      BY DEF SpaceOk, Stack
    <3>2. Stack \in start .. start + n - 1
      BY <1>1, <1>2, <2>2, <3>1
    <3> QED
      BY <3>1, <3>2
  <2> QED
    BY <2>1, <2>2
<1> HIDE DEF n
<1>3. \A start \in 0 .. VSize - 1 : ~Ranges!Fits(start, n)
  <2> SUFFICES ASSUME NEW start \in 0 .. VSize - 1, Ranges!Fits(start, n)
               PROVE  FALSE
    OBVIOUS
  <2>1. start + n <= VSize
    BY DEF Ranges!Fits
  <2>2. PICK i \in start .. start + n - 1 : i \in V
    BY <1>2, <2>1
  <2>3. PICK r \in RootRuns : i \in Ranges!Members(r)
    BY <2>2, RangesFill, RangesAre
  <2>4. i \in Ranges!Members(<<start, n>>)
    BY <2>2 DEF Ranges!Members
  <2> QED
    BY <2>3, <2>4 DEF Ranges!Fits
<1>4. UNCHANGED RootRuns
  BY DEF RootRuns
<1> QED
  BY <1>1, <1>3, <1>4 DEF Ranges!Next, Ranges!Refuse

LEMMA RangesStart == Init => Ranges!Init
<1> SUFFICES ASSUME Init PROVE Ranges!Init
  OBVIOUS
<1>1. Root \in Proc
  BY HeapAssumption
<1>2. \A v \in Page : arena[Root][v] = NoArena
  BY <1>1 DEF Init
<1>3. Taken(arena[Root]) = {}
  BY <1>2 DEF Taken
<1>4. RootRuns = {<<Stack, 1>>} /\ ret = -1
  BY <1>3, RangesAre DEF RangesOf, Init
<1> QED
  BY <1>4 DEF Ranges!Init

\* The end of sys_malloc does not change which arenas there are.
LEMMA TakeAlike ==
    ASSUME NEW A \in Headers, NEW s \in Page, ~A[s].large, A[s].desc # None
    PROVE  OneLess(A, s) \in [Page -> {OneLess(A, s)[v] : v \in Page}]
           /\ \A v \in Page : Alike(A, OneLess(A, s), v)
<1> DEFINE B == OneLess(A, s)
<1>1. A \in [Page -> Header]
  BY DEF Headers
<1>2. B = [A EXCEPT ![s].cnt = @ - 1]
  BY DEF OneLess
<1>3. \A v \in Page : /\ B[v].desc = A[v].desc /\ B[v].large = A[v].large
                      /\ v # s => B[v] = A[v]
  BY <1>1, <1>2 DEF Header
<1> HIDE DEF B
<1>4. \A v \in Page : Alike(A, B, v)
  BY <1>3, NoneIsNone DEF Alike, Taken, LenOf
<1> QED
  BY <1>1, <1>2, <1>4 DEF B

LEMMA RangesMalloc ==
    ASSUME HeapInv, NEW d \in Desc, Malloc(Root, d)
    PROVE  [Ranges!Next]_<<RootRuns, ret>>
<1> DEFINE p == Root
           l == <<p, d>>
           V == virt[p]
           A == arena[p]
           H == held[p]
           m == MemoryOf(p)
<1>1. p \in started /\ p \in Proc /\ l \in List /\ l # None /\ TypeOK
  BY HeapAssumption, EndsAreNot DEF Malloc, Ready, HeapInv, List
<1>2. /\ BaseOk(p, started, V, A, H, m) /\ NotWhole(p, A)
      /\ ListEmpty(l) <=> FreeIn(p, d, A, H) = {}
  BY <1>1, ListIsEmpty
<1>3. /\ m \in MemSet /\ V \in SUBSET Page /\ A \in Headers /\ H \in SUBSET Block
      /\ m.ends = ends /\ m.pages = V /\ m.ok
  BY <1>1, MemoryType
<1>4. SpaceOk(V, A) /\ HeaderOk(A, started) /\ Stack \in V
  BY <1>2 DEF BaseOk, SpaceOk
<1>5. CASE ~ListEmpty(l)
  <2> DEFINE b == FirstOf(m, l)
  <2>1. TakeBlock(p, l, m, A) /\ UNCHANGED ret
    BY <1>5 DEF Malloc
  <2>2. FreeIn(p, d, A, H) # {} /\ b = FirstOf(m, <<p, d>>)
    BY <1>2, <1>5
  <2> HIDE DEF V, A, H, m, b
  <2>3. b \in FreeIn(p, d, A, H) /\ ~A[b[1]].large
    BY <1>1, <1>2, <1>3, <2>2, TakeOk
  <2>4. A[b[1]].desc = l /\ b[1] \in Page
    BY <2>3 DEF FreeIn, Block
  <2>5. arena'[p] = OneLess(A, b[1]) \/ arena'[p] = A
    <3>1. arena' = arena \/ arena' = [arena EXCEPT ![p] = OneLess(A, b[1])]
      BY <2>1 DEF TakeBlock, b, FirstOf, OneLess
    <3> QED
      BY <1>1, <3>1 DEF TypeOK, A
  <2>6. \A v \in Page : Alike(A, OneLess(A, b[1]), v)
    BY <1>1, <1>3, <2>3, <2>4, TakeAlike
  <2>7. RangesOf(arena'[p]) = RangesOf(A)
    BY <2>5, <2>6, SameRanges
  <2> QED
    BY <2>1, <2>7, RangesStutter DEF A
<1>6. CASE ListEmpty(l) /\ ScanPanics(V, VSize)
  <2>1. UNCHANGED <<arena, ret>>
    BY <1>6 DEF Malloc
  <2> QED
    BY <2>1, RangesStutter
<1>7. CASE ListEmpty(l) /\ ~ScanPanics(V, VSize)
  <2> DEFINE page == Scan(V, VSize, 1)
             mm == [m EXCEPT !.pages = @ \cup {page}]
             w == Carved(mm, l, page)
             B == [A EXCEPT ![page] = [desc |-> l, cnt |-> PerArena[d], large |-> FALSE]]
  <2>1. TakeBlock(p, l, w, B) /\ ret' = page
    BY <1>7 DEF Malloc, Answer
  <2>2. page \in Page \ V
    <3>1. 1 \in Nat \ {0}
      OBVIOUS
    <3> HIDE DEF V
    <3> QED
      BY <1>3, <1>4, <1>7, <3>1, ScanPages
  <2>3. FreeIn(p, d, A, H) = {}
    BY <1>2, <1>7
  <2>4. w = Carved(WithPage(m, page), <<p, d>>, page) /\ B = WithArena(A, page, p, d)
    BY DEF WithPage, WithArena
  <2> DEFINE W == V \cup {page}
             b == FirstOf(w, l)
  <2>5. b = FirstOf(w, <<p, d>>)
    OBVIOUS
  <2> HIDE DEF V, A, H, m, mm, w, B, page, W, b
  <2>6. /\ p \in Proc /\ d \in Desc /\ p \in started /\ V \in SUBSET Page /\ A \in Headers
        /\ H \in SUBSET Block /\ m \in MemSet /\ BaseOk(p, started, V, A, H, m)
        /\ FreeIn(p, d, A, H) = {} /\ page \in Page \ V
        /\ w = Carved(WithPage(m, page), <<p, d>>, page) /\ B = WithArena(A, page, p, d)
    BY <1>1, <1>2, <1>3, <2>2, <2>3, <2>4
  <2>7. ArenaMade(p, d, started, V, A, H, m, page, B, w) /\ W = V \cup {page}
    BY <2>6, ArenaOk DEF W
  <2>8. /\ BaseOk(p, started, W, B, H, w) /\ FreeIn(p, d, B, H) # {}
        /\ B \in Headers /\ w \in MemSet /\ W \in SUBSET Page
        /\ B[page].desc = l /\ \A v \in Page \ {page} : B[v] = A[v]
    BY <2>7 DEF ArenaMade
  <2>9. b \in FreeIn(p, d, B, H) /\ ~B[b[1]].large /\ ListRemove(w, b).ok
    BY <1>1, <1>3, <2>5, <2>8, TakeOk
  <2>10. b[1] = page /\ B[page].desc = l
    <3>1. FreeIn(p, d, B, H) = BlocksOf(page, d)
      BY <2>7 DEF ArenaMade
    <3> QED
      BY <2>8, <2>9, <3>1 DEF BlocksOf
  <2>11. arena'[p] = OneLess(B, page)
    <3>1. arena' = [arena EXCEPT ![p] = OneLess(B, b[1])]
      BY <2>1, <2>9 DEF TakeBlock, b, FirstOf, OneLess
    <3> QED
      BY <1>1, <2>10, <3>1 DEF TypeOK
  <2> DEFINE C == OneLess(B, page)
  <2>12. \A v \in Page : Alike(B, C, v)
    BY <1>1, <2>2, <2>8, <2>9, <2>10, TakeAlike
  <2>13. page \in Taken(B) /\ page \notin Taken(A) /\ LenOf(B, page) = 1
    <3>1. page \in Taken(B)
      BY <1>1, <2>2, <2>10, NoneIsNone DEF Taken
    <3>2. page \notin Taken(A)
      BY <1>3, <1>4, <2>2, TakenAreUsed
    <3> QED
      BY <2>9, <2>10, <3>1, <3>2 DEF LenOf
  <2> HIDE DEF C
  <2>14. RangesOf(B) = RangesOf(A) \cup {<<page, 1>>}
    <3>1. \A v \in Page \ {page} : Alike(A, B, v)
      BY <2>8 DEF Alike, Taken, LenOf
    <3> QED
      BY <2>2, <2>13, <3>1, MoreRanges
  <2>15. RangesOf(arena'[p]) = RangesOf(A) \cup {<<page, 1>>}
    BY <2>11, <2>12, <2>14, SameRanges DEF C
  <2>16. Run(page, 1) \subseteq Page \ V
    BY <2>2, PagesAreNumbers DEF Run
  <2>17. /\ V \in SUBSET Page /\ SpaceOk(V, arena[Root]) /\ page \in Page /\ 1 \in Nat \ {0}
         /\ RangesOf(arena'[Root]) = RangesOf(arena[Root]) \cup {<<page, 1>>} /\ ret' = page
    BY <1>3, <1>4, <2>1, <2>2, <2>15 DEF A
  <2>18. Ranges!Next
    BY <2>16, <2>17, RangesGranted
  <2> QED
    BY <2>18
<1> QED
  BY <1>5, <1>6, <1>7

LEMMA RangesLarge ==
    ASSUME HeapInv, NEW cnt \in LargePages, MallocLarge(Root, cnt)
    PROVE  [Ranges!Next]_<<RootRuns, ret>>
<1> DEFINE V == virt[Root]
           A == arena[Root]
           s == Scan(V, VSize, cnt)
<1>1. Root \in started /\ Root \in Proc /\ TypeOK /\ cnt \in Nat \ {0}
  BY HeapAssumption DEF MallocLarge, Ready, HeapInv
<1>2. V \in SUBSET Page /\ A \in Headers /\ SpaceOk(V, A) /\ HeaderOk(A, started) /\ Stack \in V
  <2>1. BaseOk(Root, started, virt[Root], arena[Root], held[Root], MemoryOf(Root))
    BY <1>1 DEF HeapInv
  <2> QED
    BY <1>1, <2>1, MemoryType DEF BaseOk, SpaceOk
<1>3. CASE ScanPanics(V, VSize)
  <2>1. UNCHANGED <<arena, ret>>
    BY <1>3 DEF MallocLarge
  <2> QED
    BY <2>1, RangesStutter
<1>4. CASE ~ScanPanics(V, VSize) /\ s = -1
  <2>1. arena' = arena /\ ret' = -1
    BY <1>4 DEF MallocLarge, Answer
  <2> HIDE DEF V
  <2>2. Ranges!Next
    BY <1>1, <1>2, <1>4, <2>1, RangesRefused
  <2> QED
    BY <2>2
<1>5. CASE ~ScanPanics(V, VSize) /\ s # -1
  <2> DEFINE h == [desc |-> None, cnt |-> cnt, large |-> TRUE]
             B == [A EXCEPT ![s] = h]
  <2>1. arena' = [arena EXCEPT ![Root][s] = h] /\ ret' = s
    BY <1>5 DEF MallocLarge, Answer
  <2>2. s \in Page \ V /\ Run(s, cnt) \subseteq Page \ V
    <3> HIDE DEF V
    <3> QED
      BY <1>1, <1>2, <1>5, ScanPages
  <2>3. arena'[Root] = B
    BY <1>1, <2>1 DEF TypeOK
  <2>4. h.cnt = cnt /\ h.large /\ h # NoArena
    BY DEF NoArena
  <2> HIDE DEF V, A, s, h
  <2>5. B[s] = h /\ \A v \in Page \ {s} : B[v] = A[v]
    BY <1>2, <2>2 DEF Headers
  <2> HIDE DEF B
  <2>6. s \in Taken(B) /\ LenOf(B, s) = cnt /\ s \notin Taken(A)
    <3>1. s \notin Taken(A)
      BY <1>2, <2>2, TakenAreUsed
    <3> QED
      BY <2>2, <2>4, <2>5, <3>1 DEF Taken, LenOf
  <2>7. RangesOf(B) = RangesOf(A) \cup {<<s, cnt>>}
    <3>1. \A v \in Page \ {s} : Alike(A, B, v)
      BY <2>5 DEF Alike, Taken, LenOf
    <3> QED
      BY <2>2, <2>6, <3>1, MoreRanges
  <2>8. Ranges!Next
    BY <1>1, <1>2, <2>1, <2>2, <2>3, <2>7, RangesGranted DEF A
  <2> QED
    BY <2>8
<1> QED
  BY <1>3, <1>4, <1>5

LEMMA RangesFree ==
    ASSUME HeapInv, NEW b \in held[Root], Free(Root, b)
    PROVE  [Ranges!Next]_<<RootRuns, ret>>
<1> DEFINE A == arena[Root]
           v == b[1]
           n == LenOf(A, v)
<1>1. Root \in started /\ Root \in Proc /\ TypeOK /\ ret' = ret
  BY HeapAssumption DEF Free, Ready, HeapInv
<1>2. /\ A \in Headers /\ v \in Taken(A) /\ v \in Page \ {Stack}
      /\ \/ A[v].large /\ A[v].desc = None
         \/ ~A[v].large /\ A[v].desc # None
  <2>1. BaseOk(Root, started, virt[Root], arena[Root], held[Root], MemoryOf(Root))
    BY <1>1 DEF HeapInv
  <2>2. A \in Headers /\ v \in Taken(A) /\ HeaderOk(A, started) /\ SpaceOk(virt[Root], A)
    BY <1>1, <2>1, MemoryType DEF BaseOk, HeldOk
  <2>3. \A q \in started, d \in Desc : <<q, d>> # None
    <3>1. started \subseteq Proc
      BY <1>1 DEF TypeOK
    <3> QED
      BY <3>1, EndsAreNot DEF List
  <2> HIDE DEF A, v
  <2>4. v # Stack /\ v \in Page
    BY <2>2, TakenAreUsed
  <2> QED
    BY <2>2, <2>3, <2>4 DEF HeaderOk
<1>3. \/ arena' = [arena EXCEPT ![Root][v] = NoArena]
      \/ ~A[v].large /\ arena' = [arena EXCEPT ![Root][v].cnt = @ + 1]
      \/ arena' = arena
  <2>1. CASE A[v].large
    <3>1. A[v].desc = None /\ A[v].large
      BY <1>2, <2>1
    <3> QED
      BY <3>1 DEF Free, FreePages
  <2>2. CASE ~A[v].large
    <3>1. FreeBlock(Root, b)
      BY <2>2 DEF Free
    <3> QED
      BY <2>2, <3>1 DEF FreeBlock, FreePages
  <2> QED
    BY <2>1, <2>2
<1>4. CASE arena' = [arena EXCEPT ![Root][v] = NoArena]
  <2> DEFINE B == [A EXCEPT ![v] = NoArena]
  <2>1. arena'[Root] = B
    BY <1>1, <1>4 DEF TypeOK
  <2> HIDE DEF A, v
  <2>2. B[v] = NoArena /\ \A x \in Page \ {v} : B[x] = A[x]
    BY <1>2 DEF Headers
  <2> HIDE DEF B
  <2>3. v \notin Taken(B) /\ \A x \in Page \ {v} : Alike(A, B, x)
    BY <2>2 DEF Alike, Taken, LenOf
  <2>4. RangesOf(B) = RangesOf(A) \ {<<v, n>>} /\ <<v, n>> \in RangesOf(A)
    BY <1>2, <2>3, LessRanges
  <2>5. Ranges!Next
    BY <1>1, <2>1, <2>4, RangesReturned DEF A
  <2> QED
    BY <2>5
<1>5. CASE ~A[v].large /\ arena' = [arena EXCEPT ![Root][v].cnt = @ + 1]
  <2> DEFINE B == [A EXCEPT ![v].cnt = @ + 1]
  <2>1. arena'[Root] = B
    BY <1>1, <1>5 DEF TypeOK
  <2> HIDE DEF A, v
  <2>2. \A x \in Page : B[x].desc = A[x].desc /\ B[x].large = A[x].large /\ (x # v => B[x] = A[x])
    BY <1>2 DEF Headers, Header
  <2> HIDE DEF B
  <2>3. A[v].desc # None
    BY <1>2, <1>5
  <2>4. \A x \in Page : Alike(A, B, x)
    BY <1>5, <2>2, <2>3, NoneIsNone DEF Alike, Taken, LenOf
  <2>5. RangesOf(B) = RangesOf(A)
    BY <2>4, SameRanges
  <2> QED
    BY <1>1, <2>1, <2>5, RangesStutter DEF A
<1>6. CASE arena' = arena
  BY <1>1, <1>6, RangesStutter
<1> QED
  BY <1>3, <1>4, <1>5, <1>6

\* What another process does, and fork
LEMMA RangesOthers ==
    ASSUME HeapInv, NEW p \in Proc, p # Root,
           \/ \E d \in Desc : Malloc(p, d)
           \/ \E cnt \in LargePages : MallocLarge(p, cnt)
           \/ \E b \in held[p] : Free(p, b)
    PROVE  UNCHANGED <<RootRuns, ret>>
<1>1. ret' = ret
  <2>1. ASSUME NEW d \in Desc, Malloc(p, d) PROVE ret' = ret
    BY <2>1 DEF Malloc, Answer
  <2>2. ASSUME NEW cnt \in LargePages, MallocLarge(p, cnt) PROVE ret' = ret
    BY <2>2 DEF MallocLarge, Answer
  <2>3. ASSUME NEW b \in held[p], Free(p, b) PROVE ret' = ret
    BY <2>3 DEF Free
  <2> QED
    BY <2>1, <2>2, <2>3
<1>2. arena'[Root] = arena[Root]
  <2>1. \E B : arena' = [arena EXCEPT ![p] = B]
    <3>0. arena \in [Proc -> [Page -> [desc : List \cup {None}, cnt : Nat, large : BOOLEAN]]]
      BY DEF HeapInv, TypeOK
    <3>1. arena' = arena => arena' = [arena EXCEPT ![p] = arena[p]]
      BY <3>0
    <3>2. ASSUME NEW l, NEW m, NEW headers, TakeBlock(p, l, m, headers)
          PROVE  \E B : arena' = [arena EXCEPT ![p] = B]
      BY <3>1, <3>2 DEF TakeBlock
    <3>3. ASSUME NEW d \in Desc, Malloc(p, d) PROVE \E B : arena' = [arena EXCEPT ![p] = B]
      BY <3>1, <3>2, <3>3 DEF Malloc
    <3>4. ASSUME NEW cnt \in LargePages, MallocLarge(p, cnt)
          PROVE  \E B : arena' = [arena EXCEPT ![p] = B]
      BY <3>0, <3>1, <3>4 DEF MallocLarge
    <3>5. ASSUME NEW b \in held[p], Free(p, b) PROVE \E B : arena' = [arena EXCEPT ![p] = B]
      BY <3>0, <3>1, <3>5 DEF Free, FreeBlock, FreePages
    <3> QED
      BY <3>3, <3>4, <3>5
  <2> QED
    BY <2>1 DEF HeapInv, TypeOK
<1> QED
  BY <1>1, <1>2, RangesStutter

LEMMA RangesFork ==
    ASSUME HeapInv, NEW p \in Proc, NEW c \in Proc, Fork(p, c)
    PROVE  UNCHANGED <<RootRuns, ret>>
<1>1. c # Root /\ arena \in [Proc -> [Page -> [desc : List \cup {None}, cnt : Nat, large : BOOLEAN]]]
  BY DEF HeapInv, TypeOK, Fork
<1>2. arena'[Root] = arena[Root] /\ ret' = ret
  BY <1>1 DEF Fork
<1> QED
  BY <1>2, RangesStutter

LEMMA RangesNext == HeapInv /\ [Next]_vars => [Ranges!Next]_<<RootRuns, ret>>
<1> SUFFICES ASSUME HeapInv, [Next]_vars PROVE [Ranges!Next]_<<RootRuns, ret>>
  OBVIOUS
<1>1. CASE UNCHANGED vars
  BY <1>1, RangesStutter DEF vars
<1>2. ASSUME NEW p \in Proc, NEW c \in Proc, Fork(p, c) PROVE UNCHANGED <<RootRuns, ret>>
  BY <1>2, RangesFork
<1>3. ASSUME NEW p \in Proc,
             \/ \E d \in Desc : Malloc(p, d)
             \/ \E cnt \in LargePages : MallocLarge(p, cnt)
             \/ \E b \in held[p] : Free(p, b)
      PROVE  [Ranges!Next]_<<RootRuns, ret>>
  <2>1. CASE p # Root
    BY <1>3, <2>1, RangesOthers
  <2>2. CASE p = Root
    <3>1. ASSUME NEW d \in Desc, Malloc(Root, d) PROVE [Ranges!Next]_<<RootRuns, ret>>
      BY <3>1, RangesMalloc
    <3>2. ASSUME NEW cnt \in LargePages, MallocLarge(Root, cnt)
          PROVE  [Ranges!Next]_<<RootRuns, ret>>
      BY <3>2, RangesLarge
    <3>3. ASSUME NEW b \in held[Root], Free(Root, b) PROVE [Ranges!Next]_<<RootRuns, ret>>
      BY <3>3, RangesFree
    <3> QED
      BY <1>3, <2>2, <3>1, <3>2, <3>3
  <2> QED
    BY <2>1, <2>2
<1> QED
  BY <1>1, <1>2, <1>3 DEF Next

\* When no child frees a block that its parent got before fork, the pages of a
\* process are handed out and taken back as an allocator of ranges would:
\* bitmap_scan finds pages that no arena or stack has, it gives up only when
\* there is no gap large enough, and sys_free gives back what sys_malloc took.
THEOREM HeapIsRanges == ~FreesInherited => (Spec => ImplementsRanges)
<1> SUFFICES ASSUME ~FreesInherited PROVE Spec => Ranges!Spec
  BY DEF ImplementsRanges
<1>1. Init => Ranges!Init
  BY RangesStart
<1>2. HeapInv /\ [Next]_vars => [Ranges!Next]_<<RootRuns, ret>>
  BY RangesNext
<1>3. Spec => []HeapInv
  BY HeapIsSound
<1> QED
  BY <1>1, <1>2, <1>3, PTL DEF Spec, Ranges!Spec
=============================================================================
