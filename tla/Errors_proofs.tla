---------------------------- MODULE Errors_proofs ----------------------------
(***************************************************************************)
(* ErrorReports, for any JSON in any body and any status: which message an *)
(* error carries, that its line is neither empty nor long, and that its    *)
(* sentinels agree with the retries.                                       *)
(***************************************************************************)
EXTENDS ErrorReports, NatLemmas, SequenceTheorems

-----------------------------------------------------------------------------
(* Concatenations.                                                         *)

(* f[i] is what the first i of seqs make together.                          *)
Accumulates(f, S, seqs) ==
    /\ f \in [0..Len(seqs) -> Seq(S)]
    /\ f[0] = <<>>
    /\ \A i \in 1..Len(seqs) : f[i] = f[i - 1] \o seqs[i]

(* There is such an f, by induction on the length.                         *)
LEMMA PrefixesExist ==
    ASSUME NEW S, NEW seqs \in Seq(Seq(S))
    PROVE  \E f : Accumulates(f, S, seqs)
<1> DEFINE n == Len(seqs)
           Upto(k, f) == /\ f \in [0..k -> Seq(S)]
                         /\ f[0] = <<>>
                         /\ \A i \in 1..k : f[i] = f[i - 1] \o seqs[i]
           Defined == {k \in Nat : k <= n => \E f : Upto(k, f)}
<1>1. n \in Nat /\ \A i \in 1..n : seqs[i] \in Seq(S)
  OBVIOUS
<1> HIDE DEF n, Upto
<1>2. 0 \in Defined
  <2> DEFINE f == [i \in 0..0 |-> <<>>]
  <2>1. <<>> \in Seq(S)
    OBVIOUS
  <2>2. f \in [0..0 -> Seq(S)] /\ f[0] = <<>>
    BY <2>1
  <2>3. 1..0 = {}
    OBVIOUS
  <2> HIDE DEF f
  <2>4. Upto(0, f)
    BY <2>2, <2>3 DEF Upto
  <2> QED BY <2>4
<1>3. ASSUME NEW k \in Defined PROVE k + 1 \in Defined
  <2>0. k \in Nat /\ k + 1 \in Nat
    OBVIOUS
  <2>1. SUFFICES ASSUME k + 1 <= n PROVE \E f : Upto(k + 1, f)
    BY <2>0
  <2>2. PICK f : Upto(k, f)
    BY <1>1, <2>0, <2>1
  <2> DEFINE next == f[k] \o seqs[k + 1]
             g == [i \in 0..(k + 1) |-> IF i = k + 1 THEN next ELSE f[i]]
  <2>3. next \in Seq(S)
    <3>1. k \in 0..k /\ k + 1 \in 1..n
      BY <1>1, <2>0, <2>1
    <3>2. f[k] \in Seq(S) /\ seqs[k + 1] \in Seq(S)
      BY <1>1, <2>2, <3>1 DEF Upto
    <3> QED BY <3>2, ConcatProperties
  <2>4. g[k + 1] = f[k] \o seqs[k + 1] /\ \A i \in 0..k : g[i] = f[i]
    <3> HIDE DEF next
    <3>1. k + 1 \in 0..(k + 1) /\ \A i \in 0..k : i \in 0..(k + 1) /\ i # k + 1
      BY <2>0
    <3>2. g[k + 1] = next /\ \A i \in 0..k : g[i] = f[i]
      BY <3>1
    <3> QED BY <3>2 DEF next
  <2>5. g \in [0..(k + 1) -> Seq(S)]
    <3> HIDE DEF next
    <3> SUFFICES ASSUME NEW i \in 0..(k + 1) PROVE (IF i = k + 1 THEN next ELSE f[i]) \in Seq(S)
      OBVIOUS
    <3>1. i = k + 1 \/ i \in 0..k
      BY <2>0
    <3> QED BY <2>2, <2>3, <3>1 DEF Upto
  <2> HIDE DEF g
  <2>6. ASSUME NEW i \in 1..(k + 1) PROVE g[i] = g[i - 1] \o seqs[i]
    <3>1. CASE i = k + 1
      <4>1. i - 1 = k /\ k \in 0..k
        BY <2>0, <3>1
      <4>2. g[i - 1] = f[k]
        BY <2>4, <4>1
      <4>3. g[i] = f[k] \o seqs[i]
        BY <2>4, <3>1
      <4> QED BY <4>2, <4>3
    <3>2. CASE i \in 1..k
      <4>1. i \in 0..k /\ i - 1 \in 0..k
        BY <2>0, <3>2
      <4> QED BY <2>2, <2>4, <3>2, <4>1 DEF Upto
    <3>3. i = k + 1 \/ i \in 1..k
      BY <2>0
    <3> QED BY <3>1, <3>2, <3>3
  <2>7. g[0] = <<>>
    BY <2>0, <2>2, <2>4 DEF Upto
  <2> QED BY <2>5, <2>6, <2>7 DEF Upto
<1>4. n \in Defined
  BY <1>1, <1>2, <1>3, SetInduction
<1>5. \E f : Upto(n, f)
  BY <1>1, <1>4
<1> QED BY <1>5 DEF Accumulates, n, Upto

(* FlattenSeq makes them all together.                                     *)
LEMMA FlattenIs ==
    ASSUME NEW S, NEW seqs \in Seq(Seq(S)), NEW f, Accumulates(f, S, seqs)
    PROVE  FlattenSeq(seqs) = f[Len(seqs)] /\ f[Len(seqs)] \in Seq(S)
<1> DEFINE n == Len(seqs)
           Solves(h) == h = [i \in 1..n |-> IF i = 1 THEN seqs[i] ELSE h[i - 1] \o seqs[i]]
           flatten == CHOOSE h : Solves(h)
           g == [i \in 1..n |-> f[i]]
<1>1. n \in Nat /\ \A i \in 1..n : seqs[i] \in Seq(S)
  OBVIOUS
<1>2. f[n] \in Seq(S)
  BY <1>1 DEF Accumulates
<1>3. CASE n = 0
  <2>1. seqs = <<>>
    BY <1>3
  <2> QED BY <1>2, <1>3, <2>1 DEF FlattenSeq, Accumulates
<1>4. CASE n # 0
  <2>1. FlattenSeq(seqs) = flatten[n]
    BY <1>4 DEF FlattenSeq
  <2>2. \A i \in 1..n : f[i] = f[i - 1] \o seqs[i]
    BY DEF Accumulates
  <2>3. f[0] = <<>>
    BY DEF Accumulates
  <2> HIDE DEF n
  <2>4. ASSUME NEW i \in 1..n
        PROVE  g[i] = IF i = 1 THEN seqs[i] ELSE g[i - 1] \o seqs[i]
    <3>1. CASE i = 1
      <4>1. f[1] = <<>> \o seqs[1]
        <5>1. 1 \in 1..n /\ 1 - 1 = 0
          BY <3>1
        <5>2. f[1] = f[1 - 1] \o seqs[1]
          BY <2>2, <5>1
        <5> QED BY <2>3, <5>1, <5>2
      <4>2. seqs[1] \in Seq(S)
        BY <1>1, <3>1
      <4>3. <<>> \o seqs[1] = seqs[1]
        BY <4>2, ConcatEmptySeq
      <4> QED BY <3>1, <4>1, <4>3
    <3>2. CASE i # 1
      <4>1. i - 1 \in 1..n
        BY <1>1, <3>2
      <4> QED BY <2>2, <3>2, <4>1
    <3> QED BY <3>1, <3>2
  <2>5. Solves(g)
    BY <2>4
  <2> HIDE DEF g
  <2>6. Solves(flatten)
    BY <2>5
  <2> HIDE DEF flatten
  <2> DEFINE Agree == {k \in Nat : k + 1 \in 1..n => flatten[k + 1] = f[k + 1]}
  <2>7. 0 \in Agree
    <3>1. SUFFICES ASSUME 1 \in 1..n PROVE flatten[1] = f[1]
      OBVIOUS
    <3>2. flatten[1] = seqs[1] /\ g[1] = seqs[1]
      BY <2>4, <2>6, <3>1
    <3> QED BY <3>1, <3>2 DEF g
  <2>8. ASSUME NEW k \in Agree PROVE k + 1 \in Agree
    <3>1. SUFFICES ASSUME k + 2 \in 1..n PROVE flatten[k + 2] = f[k + 2]
      OBVIOUS
    <3>2. k + 1 \in 1..n /\ k + 2 # 1 /\ (k + 2) - 1 = k + 1
      BY <1>1, <3>1
    <3>3. flatten[k + 1] = f[k + 1]
      BY <3>2
    <3>4. flatten[k + 2] = flatten[(k + 2) - 1] \o seqs[k + 2]
      BY <2>6, <3>1, <3>2
    <3> QED BY <2>2, <3>1, <3>2, <3>3, <3>4
  <2>9. n - 1 \in Agree
    <3>1. n - 1 \in Nat
      BY <1>1, <1>4
    <3> QED BY <2>7, <2>8, <3>1, SetInduction
  <2>10. flatten[n] = f[n]
    BY <1>1, <1>4, <2>9
  <2> QED BY <1>2, <2>1, <2>10 DEF n
<1> QED BY <1>3, <1>4

LEMMA FlattenTyped ==
    ASSUME NEW S, NEW seqs \in Seq(Seq(S))
    PROVE  FlattenSeq(seqs) \in Seq(S)
BY PrefixesExist, FlattenIs
-----------------------------------------------------------------------------
(* A fold from the left over a sequence of n elements, whose step is given  *)
(* as a function.                                                          *)

Folding(f, T, n, base, step) ==
    /\ f \in [SUBSET (1..n) -> T]
    /\ \A s \in SUBSET (1..n) :
         f[s] = IF s = {} THEN base ELSE step[<<f[s \ {Max(s)}], Max(s)>>]

(* There is such an f, by induction on n.                                  *)
LEMMA FoldExists ==
    ASSUME NEW T, NEW n \in Nat, NEW base \in T, NEW step \in [T \X (1..n) -> T]
    PROVE  \E f : Folding(f, T, n, base, step)
<1> DEFINE Upto(k, f) ==
               /\ f \in [SUBSET (1..k) -> T]
               /\ \A s \in SUBSET (1..k) :
                    f[s] = IF s = {} THEN base ELSE step[<<f[s \ {Max(s)}], Max(s)>>]
           Defined == {k \in Nat : k <= n => \E f : Upto(k, f)}
<1> HIDE DEF Upto
<1>1. 0 \in Defined
  <2> DEFINE f == [s \in SUBSET (1..0) |-> base]
  <2>1. \A s \in SUBSET (1..0) : s = {} /\ f[s] = base
    OBVIOUS
  <2>2. f \in [SUBSET (1..0) -> T]
    OBVIOUS
  <2> HIDE DEF f
  <2>3. Upto(0, f)
    BY <2>1, <2>2 DEF Upto
  <2> QED BY <2>3
<1>2. ASSUME NEW k \in Defined PROVE k + 1 \in Defined
  <2>0. k \in Nat /\ k + 1 \in Nat
    OBVIOUS
  <2>1. SUFFICES ASSUME k + 1 <= n PROVE \E f : Upto(k + 1, f)
    BY <2>0
  <2>2. PICK f : Upto(k, f)
    BY <2>0, <2>1
  <2> DEFINE g == [s \in SUBSET (1..(k + 1)) |->
                      IF k + 1 \in s THEN step[<<f[s \ {k + 1}], k + 1>>] ELSE f[s]]
  <2>3. ASSUME NEW s \in SUBSET (1..(k + 1)), k + 1 \in s
        PROVE  s \ {k + 1} \in SUBSET (1..k) /\ Max(s) = k + 1
    <3>1. \A i \in s : i <= k + 1 /\ (i # k + 1 => i \in 1..k) /\ i \in Nat
      BY <2>0
    <3>2. Max(s) = k + 1
      BY <2>3, <3>1, MaxIs
    <3> QED BY <3>1, <3>2
  <2>4. ASSUME NEW s \in SUBSET (1..(k + 1)), k + 1 \notin s
        PROVE  s \in SUBSET (1..k)
    <3>1. \A i \in s : i \in 1..(k + 1) /\ i # k + 1
      BY <2>4
    <3>2. \A i \in 1..(k + 1) : i # k + 1 => i \in 1..k
      BY <2>0
    <3> QED BY <3>1, <3>2
  <2>5. g \in [SUBSET (1..(k + 1)) -> T]
    <3> SUFFICES ASSUME NEW s \in SUBSET (1..(k + 1))
                 PROVE  (IF k + 1 \in s THEN step[<<f[s \ {k + 1}], k + 1>>] ELSE f[s]) \in T
      OBVIOUS
    <3>1. CASE k + 1 \in s
      <4>1. f[s \ {k + 1}] \in T
        BY <2>2, <2>3, <3>1 DEF Upto
      <4>2. k + 1 \in 1..n
        BY <2>0, <2>1
      <4> QED BY <3>1, <4>1, <4>2
    <3>2. CASE k + 1 \notin s
      BY <2>2, <2>4, <3>2 DEF Upto
    <3> QED BY <3>1, <3>2
  <2>6. ASSUME NEW s \in SUBSET (1..k) PROVE g[s] = f[s]
    <3>1. s \in SUBSET (1..(k + 1)) /\ k + 1 \notin s
      BY <2>0
    <3> QED BY <3>1
  <2>7. ASSUME NEW s \in SUBSET (1..(k + 1))
        PROVE  g[s] = IF s = {} THEN base ELSE step[<<g[s \ {Max(s)}], Max(s)>>]
    <3>1. CASE k + 1 \in s
      <4>1. g[s \ {k + 1}] = f[s \ {k + 1}]
        BY <2>3, <2>6, <3>1
      <4>2. g[s] = step[<<f[s \ {k + 1}], k + 1>>]
        BY <3>1
      <4>3. Max(s) = k + 1 /\ s # {}
        BY <2>3, <3>1
      <4> HIDE DEF g
      <4> QED BY <4>1, <4>2, <4>3
    <3>2. CASE k + 1 \notin s
      <4>1. s \in SUBSET (1..k)
        BY <2>4, <3>2
      <4>2. g[s] = f[s]
        BY <2>6, <4>1
      <4>3. s # {} => s \ {Max(s)} \in SUBSET (1..k)
        BY <4>1
      <4>4. s # {} => g[s \ {Max(s)}] = f[s \ {Max(s)}]
        BY <2>6, <4>3
      <4> HIDE DEF g
      <4> QED BY <2>2, <4>1, <4>2, <4>4 DEF Upto
    <3> QED BY <3>1, <3>2
  <2> HIDE DEF g
  <2>8. Upto(k + 1, g)
    BY <2>5, <2>7 DEF Upto
  <2> QED BY <2>8
<1>3. n \in Defined
  BY <1>1, <1>2, SetInduction
<1>4. \E f : Upto(n, f)
  BY <1>3
<1> QED BY <1>4 DEF Folding, Upto

(* What is asked of a fold over the first elements of a sequence.           *)
Iterating(iter, T, n, base, step) ==
    /\ iter[{}] = base
    /\ \A s \in SUBSET (1..n) :
         s # {} /\ iter[s \ {Max(s)}] \in T => iter[s] = step[<<iter[s \ {Max(s)}], Max(s)>>]

(* The values it goes through, from the first to the last.                  *)
Course(g, T, n, base, step, last) ==
    /\ g \in [0..n -> T]
    /\ g[0] = base
    /\ \A i \in 1..n : g[i] = step[<<g[i - 1], i>>]
    /\ g[n] = last

LEMMA FoldIterates ==
    ASSUME NEW T, NEW n \in Nat, NEW base \in T, NEW step \in [T \X (1..n) -> T], NEW iter,
           Iterating(iter, T, n, base, step)
    PROVE  \E g : Course(g, T, n, base, step, iter[1..n])
<1> DEFINE g == [i \in 0..n |-> iter[1..i]]
           Typed == {k \in Nat : k <= n => iter[1..k] \in T}
<1>1. ASSUME NEW i \in 1..n, iter[1..(i - 1)] \in T
      PROVE  iter[1..i] = step[<<iter[1..(i - 1)], i>>]
  <2>1. i \in Nat /\ 1..i \in SUBSET (1..n) /\ 1..i # {} /\ i \in 1..i
    OBVIOUS
  <2>2. \A j \in 1..i : j <= i /\ j \in Nat
    BY <2>1
  <2>3. Max(1..i) = i
    BY <2>1, <2>2, MaxIs
  <2>4. (1..i) \ {i} = 1..(i - 1)
    BY <2>1
  <2> QED BY <1>1, <2>1, <2>3, <2>4 DEF Iterating
<1>2. 0 \in Typed
  <2>1. 1..0 = {}
    OBVIOUS
  <2> QED BY <2>1 DEF Iterating
<1>3. ASSUME NEW k \in Typed PROVE k + 1 \in Typed
  <2>1. SUFFICES ASSUME k + 1 <= n PROVE iter[1..(k + 1)] \in T
    OBVIOUS
  <2>2. k + 1 \in 1..n /\ (k + 1) - 1 = k /\ k <= n
    BY <2>1
  <2>3. iter[1..k] \in T
    BY <2>2
  <2>4. iter[1..(k + 1)] = step[<<iter[1..k], k + 1>>]
    BY <1>1, <2>2, <2>3
  <2>5. <<iter[1..k], k + 1>> \in T \X (1..n)
    BY <2>2, <2>3
  <2> QED BY <2>4, <2>5
<1>4. Nat \subseteq Typed
  BY <1>2, <1>3, SetInduction
<1>5. \A i \in 0..n : iter[1..i] \in T
  BY <1>4
<1>6. g \in [0..n -> T]
  BY <1>5
<1>7. g[0] = base
  <2>1. 1..0 = {} /\ 0 \in 0..n
    OBVIOUS
  <2> QED BY <2>1 DEF Iterating
<1>8. \A i \in 1..n : g[i] = step[<<g[i - 1], i>>]
  <2> SUFFICES ASSUME NEW i \in 1..n PROVE g[i] = step[<<g[i - 1], i>>]
    OBVIOUS
  <2>1. i \in 0..n /\ i - 1 \in 0..n
    OBVIOUS
  <2> QED BY <1>1, <1>5, <2>1
<1>9. iter[1..n] = g[n]
  OBVIOUS
<1> HIDE DEF g
<1> QED BY <1>6, <1>7, <1>8, <1>9 DEF Course
-----------------------------------------------------------------------------
(* What a body is made of.                                                 *)

(* What is in a value is a value, and its text is one.                     *)
LEMMA ValueTyped ==
    ASSUME NEW v \in Values
    PROVE  /\ v.text \in Seq(Words)
           /\ v.items \in Seq(Values)
           /\ \A name : Field(v, name) \in Values
BY ReportAssumption DEF Field

(* A path with one segment more.                                            *)
Along(path, segment) == IF segment.text = <<"body">> THEN path ELSE path \o segment.text

LEMMA AlongTyped ==
    ASSUME NEW path \in Seq(Words), NEW segment \in Values
    PROVE  Along(path, segment) \in Seq(Words)
<1>1. segment.text \in Seq(Words)
  BY ValueTyped
<1>2. path \o segment.text \in Seq(Words)
  BY <1>1, ConcatProperties
<1> QED BY <1>2 DEF Along

(* The path after each segment.                                             *)
LEMMA LocationIs ==
    ASSUME NEW entry, NEW segments \in Seq(Values), segments = Field(entry, "loc").items
    PROVE  \E g \in [0..Len(segments) -> Seq(Words)] :
             /\ g[0] = <<>>
             /\ \A i \in 1..Len(segments) : g[i] = Along(g[i - 1], segments[i])
             /\ Location(entry) = g[Len(segments)]
<1> DEFINE n == Len(segments)
           T == Seq(Words)
           Solves(f) == f = [s \in SUBSET (1..n) |->
                                IF s = {} THEN <<>> ELSE Along(f[s \ {Max(s)}], segments[Max(s)])]
           iter == CHOOSE f : Solves(f)
           step == [x \in T \X (1..n) |-> Along(x[1], segments[x[2]])]
<1>1. n \in Nat /\ DOMAIN segments = 1..n /\ \A i \in 1..n : segments[i] \in Values
  OBVIOUS
<1>2. Location(entry) = iter[1..n]
  BY <1>1 DEF Location, FoldLeft, MapThenFoldSet, Along
<1> HIDE DEF n
<1>3. <<>> \in T
  OBVIOUS
<1>4. step \in [T \X (1..n) -> T]
  <2> SUFFICES ASSUME NEW x \in T \X (1..n) PROVE Along(x[1], segments[x[2]]) \in T
    OBVIOUS
  <2>1. x[1] \in T /\ segments[x[2]] \in Values
    BY <1>1
  <2> QED BY <2>1, AlongTyped
<1>5. \A t \in T, i \in 1..n : step[<<t, i>>] = Along(t, segments[i])
  OBVIOUS
<1> HIDE DEF step, T
<1>6. PICK f : Folding(f, T, n, <<>>, step)
  BY <1>1, <1>3, <1>4, FoldExists
<1>7. Solves(f)
  <2>1. f = [s \in SUBSET (1..n) |-> f[s]]
    BY <1>6 DEF Folding
  <2>2. ASSUME NEW s \in SUBSET (1..n)
        PROVE  f[s] = IF s = {} THEN <<>> ELSE Along(f[s \ {Max(s)}], segments[Max(s)])
    <3>1. CASE s = {}
      BY <1>6, <3>1 DEF Folding
    <3>2. CASE s # {}
      <4>1. Max(s) \in 1..n
        BY <1>1, <3>2, MaxIn
      <4>2. s \ {Max(s)} \in SUBSET (1..n)
        OBVIOUS
      <4>3. f[s \ {Max(s)}] \in T
        BY <1>6, <4>2 DEF Folding
      <4>4. f[s] = step[<<f[s \ {Max(s)}], Max(s)>>]
        BY <1>6, <3>2 DEF Folding
      <4> QED BY <1>5, <3>2, <4>1, <4>3, <4>4
    <3> QED BY <3>1, <3>2
  <2> QED BY <2>1, <2>2
<1>8. Solves(iter)
  BY <1>7
<1> HIDE DEF iter
<1>9. iter[{}] = <<>>
  BY <1>8
<1>10. \A s \in SUBSET (1..n) : s # {} => Max(s) \in 1..n
  BY <1>1, MaxIn
<1>11. \A s \in SUBSET (1..n) :
         s # {} /\ iter[s \ {Max(s)}] \in T => iter[s] = step[<<iter[s \ {Max(s)}], Max(s)>>]
  BY <1>5, <1>8, <1>10
<1>12. Iterating(iter, T, n, <<>>, step)
  BY <1>9, <1>11 DEF Iterating
<1>13. PICK g : Course(g, T, n, <<>>, step, iter[1..n])
  BY <1>1, <1>3, <1>4, <1>12, FoldIterates
<1>14. \A i \in 1..n : g[i] = Along(g[i - 1], segments[i])
  <2> SUFFICES ASSUME NEW i \in 1..n PROVE g[i] = Along(g[i - 1], segments[i])
    OBVIOUS
  <2>1. i - 1 \in 0..n
    BY <1>1
  <2> QED BY <1>5, <1>13, <2>1 DEF Course
<1> QED BY <1>2, <1>13, <1>14 DEF Course, n, T

(* Leaving "body" out segment by segment is putting the others together.   *)
LEMMA LocationFlat ==
    ASSUME NEW entry \in Values
    PROVE  LET path == Field(entry, "loc").items
               kept == [i \in DOMAIN path |->
                           IF path[i].text # <<"body">> THEN path[i].text ELSE <<>>]
           IN  Location(entry) = FlattenSeq(kept) /\ Location(entry) \in Seq(Words)
<1> DEFINE path == Field(entry, "loc").items
           kept == [i \in DOMAIN path |->
                       IF path[i].text # <<"body">> THEN path[i].text ELSE <<>>]
<1>1. path \in Seq(Values)
  BY ValueTyped
<1> HIDE DEF path
<1>2. /\ Len(path) \in Nat /\ DOMAIN path = 1..Len(path)
      /\ \A i \in 1..Len(path) : path[i] \in Values
  BY <1>1
<1>3. kept \in Seq(Seq(Words)) /\ Len(kept) = Len(path)
  <2>1. ASSUME NEW i \in 1..Len(path)
        PROVE  (IF path[i].text # <<"body">> THEN path[i].text ELSE <<>>) \in Seq(Words)
    <3>1. path[i].text \in Seq(Words)
      BY <1>2, ValueTyped
    <3>2. <<>> \in Seq(Words)
      OBVIOUS
    <3> QED BY <3>1, <3>2
  <2>2. kept \in [1..Len(path) -> Seq(Words)]
    BY <1>2, <2>1
  <2> HIDE DEF kept
  <2> QED BY <1>2, <2>2
<1>4. PICK g \in [0..Len(path) -> Seq(Words)] :
         /\ g[0] = <<>>
         /\ \A i \in 1..Len(path) : g[i] = Along(g[i - 1], path[i])
         /\ Location(entry) = g[Len(path)]
  BY <1>1, LocationIs DEF path
<1>5. ASSUME NEW i \in 1..Len(path) PROVE g[i] = g[i - 1] \o kept[i]
  <2>1. g[i - 1] \in Seq(Words) /\ g[i] = Along(g[i - 1], path[i])
    BY <1>2, <1>4
  <2>2. kept[i] = IF path[i].text # <<"body">> THEN path[i].text ELSE <<>>
    BY <1>2
  <2>3. g[i - 1] \o <<>> = g[i - 1]
    BY <2>1, ConcatEmptySeq
  <2> HIDE DEF kept
  <2> QED BY <2>1, <2>2, <2>3 DEF Along
<1> HIDE DEF kept
<1>6. Accumulates(g, Words, kept)
  BY <1>3, <1>4, <1>5 DEF Accumulates
<1>7. FlattenSeq(kept) = g[Len(path)] /\ g[Len(path)] \in Seq(Words)
  BY <1>3, <1>6, FlattenIs
<1> QED BY <1>4, <1>7 DEF kept, path

LEMMA OneWord ==
    ASSUME NEW S, NEW x \in S
    PROVE  <<x>> \in Seq(S)
OBVIOUS

LEMMA Separators == <<":">> \in Seq(Words) /\ <<";">> \in Seq(Words)
<1>1. ":" \in Words /\ ";" \in Words
  BY ReportAssumption
<1> QED BY <1>1, OneWord, Zenon

(* What an entry says is a text, and something if it says anything.        *)
LEMMA PartTyped ==
    ASSUME NEW entry \in Values
    PROVE  /\ Part(entry) \in Seq(Words)
           /\ Says(entry) => Part(entry) # <<>>
<1> DEFINE at == Location(entry)
           msg == Field(entry, "msg").text
           prefix == IF Located(entry) THEN at \o <<":">> ELSE <<>>
<1>1. at \in Seq(Words) /\ msg \in Seq(Words)
  BY LocationFlat, ValueTyped
<1>2. <<":">> \in Seq(Words) /\ <<>> \in Seq(Words)
  BY Separators, EmptySeq, Zenon
<1>3. Part(entry) = prefix \o msg /\ (Says(entry) => msg # <<>>)
  BY DEF Part, Says
<1> HIDE DEF at, msg
<1>4. prefix \in Seq(Words)
  BY <1>1, <1>2, ConcatProperties
<1> HIDE DEF prefix
<1>5. prefix \o msg \in Seq(Words)
  BY <1>1, <1>4, ConcatProperties
<1>6. prefix \o msg = <<>> => msg = <<>>
  BY <1>1, <1>4, ConcatEqualIffEmpty
<1> QED BY <1>3, <1>5, <1>6

(* The code's account of an entry is the documentation's.                   *)
LEMMA PartIsComplaint ==
    ASSUME NEW entry \in Values
    PROVE  /\ Part(entry) = Complaint(entry)
           /\ Says(entry) <=> Complains(entry)
<1> DEFINE path     == Field(entry, "loc").items
           Kept     == {i \in DOMAIN path : path[i].text # <<"body">>}
           segments == [i \in DOMAIN path |-> IF i \in Kept THEN path[i].text ELSE <<>>]
           message  == Field(entry, "msg").text
<1>1. segments = [i \in DOMAIN path |->
                     IF path[i].text # <<"body">> THEN path[i].text ELSE <<>>]
  OBVIOUS
<1>2. Location(entry) = FlattenSeq(segments)
  BY <1>1, LocationFlat
<1>3. Complaint(entry) = IF Kept = {} THEN message ELSE FlattenSeq(segments) \o <<":">> \o message
  BY DEF Complaint
<1>4. Located(entry) <=> Kept # {}
  BY DEF Located
<1>5. message \in Seq(Words)
  BY ValueTyped
<1> HIDE DEF path, segments, Kept
<1>6. Part(entry) = IF Kept = {} THEN <<>> \o message
                    ELSE FlattenSeq(segments) \o <<":">> \o message
  BY <1>2, <1>4 DEF Part
<1>7. <<>> \o message = message
  BY <1>5, ConcatEmptySeq
<1>8. Says(entry) <=> Complains(entry)
  <2>1. <<message>> # <<>> /\ (<<message>> = <<<<>>>> <=> message = <<>>)
    OBVIOUS
  <2> QED BY <2>1 DEF Says, Complains, TextOf
<1> QED BY <1>3, <1>6, <1>7, <1>8

-----------------------------------------------------------------------------
(* The complaints of a detail array.                                       *)

(* A text with what one entry more says.                                    *)
Joined(text, entry) ==
    IF ~Says(entry) THEN text
    ELSE IF text = <<>> THEN Part(entry) ELSE text \o <<";">> \o Part(entry)

LEMMA JoinedTyped ==
    ASSUME NEW text \in Seq(Words), NEW entry \in Values
    PROVE  Joined(text, entry) \in Seq(Words)
<1>1. Part(entry) \in Seq(Words) /\ <<";">> \in Seq(Words)
  BY PartTyped, Separators
<1>2. text \o <<";">> \in Seq(Words)
  BY <1>1, ConcatProperties
<1>3. text \o <<";">> \o Part(entry) \in Seq(Words)
  BY <1>1, <1>2, ConcatProperties
<1> QED BY <1>1, <1>3 DEF Joined

(* The text after each entry.                                               *)
LEMMA JoinIs ==
    ASSUME NEW entries \in Seq(Values)
    PROVE  \E g \in [0..Len(entries) -> Seq(Words)] :
             /\ g[0] = <<>>
             /\ \A i \in 1..Len(entries) : g[i] = Joined(g[i - 1], entries[i])
             /\ JoinDetailEntries(entries) = g[Len(entries)]
<1> DEFINE n == Len(entries)
           T == Seq(Words)
           Solves(f) == f = [s \in SUBSET (1..n) |->
                                IF s = {} THEN <<>> ELSE Joined(f[s \ {Max(s)}], entries[Max(s)])]
           iter == CHOOSE f : Solves(f)
           step == [x \in T \X (1..n) |-> Joined(x[1], entries[x[2]])]
<1>1. n \in Nat /\ DOMAIN entries = 1..n /\ \A i \in 1..n : entries[i] \in Values
  OBVIOUS
<1>2. JoinDetailEntries(entries) = iter[1..n]
  BY <1>1 DEF JoinDetailEntries, FoldLeft, MapThenFoldSet, Joined
<1> HIDE DEF n
<1>3. <<>> \in T
  OBVIOUS
<1>4. step \in [T \X (1..n) -> T]
  <2> SUFFICES ASSUME NEW x \in T \X (1..n) PROVE Joined(x[1], entries[x[2]]) \in T
    OBVIOUS
  <2>1. x[1] \in T /\ entries[x[2]] \in Values
    BY <1>1
  <2> QED BY <2>1, JoinedTyped
<1>5. \A t \in T, i \in 1..n : step[<<t, i>>] = Joined(t, entries[i])
  OBVIOUS
<1> HIDE DEF step, T
<1>6. PICK f : Folding(f, T, n, <<>>, step)
  BY <1>1, <1>3, <1>4, FoldExists
<1>7. Solves(f)
  <2>1. f = [s \in SUBSET (1..n) |-> f[s]]
    BY <1>6 DEF Folding
  <2>2. ASSUME NEW s \in SUBSET (1..n)
        PROVE  f[s] = IF s = {} THEN <<>> ELSE Joined(f[s \ {Max(s)}], entries[Max(s)])
    <3>1. CASE s = {}
      BY <1>6, <3>1 DEF Folding
    <3>2. CASE s # {}
      <4>1. Max(s) \in 1..n
        BY <1>1, <3>2, MaxIn
      <4>2. s \ {Max(s)} \in SUBSET (1..n)
        OBVIOUS
      <4>3. f[s \ {Max(s)}] \in T
        BY <1>6, <4>2 DEF Folding
      <4>4. f[s] = step[<<f[s \ {Max(s)}], Max(s)>>]
        BY <1>6, <3>2 DEF Folding
      <4> QED BY <1>5, <3>2, <4>1, <4>3, <4>4
    <3> QED BY <3>1, <3>2
  <2> QED BY <2>1, <2>2
<1>8. Solves(iter)
  BY <1>7
<1> HIDE DEF iter
<1>9. iter[{}] = <<>>
  BY <1>8
<1>10. \A s \in SUBSET (1..n) : s # {} => Max(s) \in 1..n
  BY <1>1, MaxIn
<1>11. \A s \in SUBSET (1..n) :
         s # {} /\ iter[s \ {Max(s)}] \in T => iter[s] = step[<<iter[s \ {Max(s)}], Max(s)>>]
  BY <1>5, <1>8, <1>10
<1>12. Iterating(iter, T, n, <<>>, step)
  BY <1>9, <1>11 DEF Iterating
<1>13. PICK g : Course(g, T, n, <<>>, step, iter[1..n])
  BY <1>1, <1>3, <1>4, <1>12, FoldIterates
<1>14. \A i \in 1..n : g[i] = Joined(g[i - 1], entries[i])
  <2> SUFFICES ASSUME NEW i \in 1..n PROVE g[i] = Joined(g[i - 1], entries[i])
    OBVIOUS
  <2>1. i - 1 \in 0..n
    BY <1>1
  <2> QED BY <1>5, <1>13, <2>1 DEF Course
<1> QED BY <1>2, <1>13, <1>14 DEF Course, n, T

Speakers(entries) == {i \in DOMAIN entries : Complains(entries[i])}

(* What TextOfDetails puts together, entry by entry.                        *)
Said(entries) ==
    [i \in DOMAIN entries |->
        IF i \notin Speakers(entries) THEN <<>>
        ELSE IF \E j \in Speakers(entries) : j < i THEN <<";">> \o Complaint(entries[i])
        ELSE Complaint(entries[i])]

(* What each entry adds is a text.                                         *)
LEMMA SaidTyped ==
    ASSUME NEW entries \in Seq(Values)
    PROVE  Said(entries) \in Seq(Seq(Words)) /\ Len(Said(entries)) = Len(entries)
<1> DEFINE Text(i) == IF i \notin Speakers(entries) THEN <<>>
                      ELSE IF \E j \in Speakers(entries) : j < i THEN <<";">> \o Complaint(entries[i])
                      ELSE Complaint(entries[i])
<1>1. Len(entries) \in Nat /\ DOMAIN entries = 1..Len(entries)
  OBVIOUS
<1>2. ASSUME NEW i \in 1..Len(entries) PROVE Text(i) \in Seq(Words)
  <2>1. <<>> \in Seq(Words)
    BY EmptySeq
  <2>2. Complaint(entries[i]) \in Seq(Words)
    BY PartTyped, PartIsComplaint
  <2>3. <<";">> \o Complaint(entries[i]) \in Seq(Words)
    BY <2>2, Separators, ConcatProperties
  <2> QED BY <2>1, <2>2, <2>3
<1>3. Said(entries) = [i \in 1..Len(entries) |-> Text(i)]
  BY <1>1 DEF Said
<1> HIDE DEF Text
<1>4. Said(entries) \in [1..Len(entries) -> Seq(Words)]
  BY <1>2, <1>3
<1> QED BY <1>1, <1>4

LEMMA ConcatThree ==
    ASSUME NEW S, NEW s \in Seq(S), NEW t \in Seq(S), NEW u \in Seq(S)
    PROVE  /\ (s \o t) \o u = s \o (t \o u)
           /\ u # <<>> => (s \o t) \o u # <<>>
<1>1. s \o t \in Seq(S)
  BY ConcatProperties
<1> QED BY <1>1, ConcatAssociative, ConcatEqualIffEmpty

(* Joining as the code does, entry by entry, is joining what each has to    *)
(* say with "; " before all but the first.                                  *)
LEMMA DetailsJoined ==
    ASSUME NEW entries \in Seq(Values)
    PROVE  /\ JoinDetailEntries(entries) \in Seq(Words)
           /\ TextOfDetails(entries) = IF JoinDetailEntries(entries) = <<>> THEN <<>>
                                       ELSE <<JoinDetailEntries(entries)>>
<1> DEFINE n == Len(entries)
           talk == Speakers(entries)
           said == Said(entries)
<1>1. n \in Nat /\ DOMAIN entries = 1..n /\ \A i \in 1..n : entries[i] \in Values
  OBVIOUS
<1>2. said \in Seq(Seq(Words)) /\ Len(said) = n
  BY SaidTyped
<1>3. \A i \in 1..n :
        said[i] = IF i \notin talk THEN <<>>
                  ELSE IF \E j \in talk : j < i THEN <<";">> \o Part(entries[i])
                  ELSE Part(entries[i])
  <2>1. \A i \in 1..n : Part(entries[i]) = Complaint(entries[i])
    BY <1>1, PartIsComplaint
  <2> HIDE DEF n
  <2> QED BY <1>1, <2>1 DEF Said
<1>4. talk \subseteq 1..n /\ \A i \in 1..n : i \in talk <=> Says(entries[i])
  <2>1. \A i \in 1..n : Says(entries[i]) <=> Complains(entries[i])
    BY <1>1, PartIsComplaint
  <2> HIDE DEF n
  <2> QED BY <1>1, <2>1 DEF Speakers
<1>5. TextOfDetails(entries) = IF talk = {} THEN <<>> ELSE <<FlattenSeq(said)>>
  BY DEF TextOfDetails, Speakers, Said
<1> HIDE DEF n, talk, said
<1>6. PICK g \in [0..n -> Seq(Words)] :
          /\ g[0] = <<>>
          /\ \A i \in 1..n : g[i] = Joined(g[i - 1], entries[i])
          /\ JoinDetailEntries(entries) = g[n]
  BY JoinIs DEF n
<1>7. PICK f : Accumulates(f, Words, said)
  BY <1>2, PrefixesExist
<1>8. FlattenSeq(said) = f[n]
  BY <1>2, <1>7, FlattenIs
<1>9. f[0] = <<>> /\ \A i \in 1..n : f[i] = f[i - 1] \o said[i]
  BY <1>2, <1>7 DEF Accumulates
<1> DEFINE Same == {k \in Nat : k <= n =>
                       /\ f[k] = g[k]
                       /\ g[k] = <<>> <=> \A j \in talk : k < j}
<1>10. 0 \in Same
  <2>1. \A j \in talk : 0 < j
    BY <1>1, <1>4
  <2> QED BY <1>6, <1>9, <2>1
<1>11. ASSUME NEW k \in Same PROVE k + 1 \in Same
  <2> DEFINE i == k + 1
  <2>1. SUFFICES ASSUME i <= n
                 PROVE  f[i] = g[i] /\ (g[i] = <<>> <=> \A j \in talk : i < j)
    OBVIOUS
  <2>2. k \in Nat /\ k <= n /\ k \in 0..n /\ i \in 1..n /\ i - 1 = k
    BY <1>1, <2>1
  <2>3. f[k] = g[k] /\ (g[k] = <<>> <=> \A j \in talk : k < j) /\ g[k] \in Seq(Words)
    BY <1>6, <2>2
  <2>4. \A j \in talk : (k < j <=> ~(j < i)) /\ (i < j <=> k < j /\ j # i)
    BY <1>1, <1>4, <2>2
  <2> HIDE DEF Same, i
  <2>5. g[i] = Joined(g[k], entries[i]) /\ f[i] = g[k] \o said[i]
    BY <1>6, <1>9, <2>2, <2>3
  <2>6. Part(entries[i]) \in Seq(Words) /\ (i \in talk => Part(entries[i]) # <<>>)
    BY <1>1, <1>4, <2>2, PartTyped
  <2>7. CASE i \notin talk
    <3>1. g[i] = g[k]
      BY <1>4, <2>2, <2>5, <2>7 DEF Joined
    <3>2. said[i] = <<>>
      BY <1>3, <2>2, <2>7
    <3>3. f[i] = g[k]
      BY <2>3, <2>5, <3>2, ConcatEmptySeq
    <3> QED BY <2>3, <2>4, <2>7, <3>1, <3>3
  <2>8. CASE i \in talk /\ g[k] = <<>>
    <3>1. g[i] = Part(entries[i])
      BY <1>4, <2>2, <2>5, <2>8 DEF Joined
    <3>2. said[i] = Part(entries[i])
      BY <1>3, <2>2, <2>3, <2>4, <2>8
    <3>3. f[i] = Part(entries[i])
      BY <2>5, <2>6, <2>8, <3>2, ConcatEmptySeq
    <3>4. ~(i < i)
      BY <2>2
    <3> QED BY <2>6, <2>8, <3>1, <3>3, <3>4
  <2>9. CASE i \in talk /\ g[k] # <<>>
    <3>1. g[i] = (g[k] \o <<";">>) \o Part(entries[i])
      BY <1>4, <2>2, <2>5, <2>9 DEF Joined
    <3>2. said[i] = <<";">> \o Part(entries[i])
      BY <1>3, <2>2, <2>3, <2>4, <2>9
    <3>3. g[k] \in Seq(Words) /\ Part(entries[i]) \in Seq(Words) /\ Part(entries[i]) # <<>>
      BY <2>3, <2>6, <2>9
    <3>4. <<";">> \in Seq(Words)
      BY Separators
    <3>5. /\ (g[k] \o <<";">>) \o Part(entries[i]) = g[k] \o (<<";">> \o Part(entries[i]))
          /\ (g[k] \o <<";">>) \o Part(entries[i]) # <<>>
      <4> DEFINE u == Part(entries[i])
                 t == <<";">>
                 s == g[k]
      <4>1. s \in Seq(Words) /\ t \in Seq(Words) /\ u \in Seq(Words) /\ u # <<>>
        BY <3>3, <3>4
      <4> HIDE DEF s, t, u
      <4>2. (s \o t) \o u = s \o (t \o u) /\ (s \o t) \o u # <<>>
        BY <4>1, ConcatThree
      <4> QED BY <4>2 DEF s, t, u
    <3>6. ~(i < i)
      BY <2>2
    <3> QED BY <2>5, <2>9, <3>1, <3>2, <3>5, <3>6
  <2> QED BY <2>7, <2>8, <2>9
<1>12. n \in Same
  BY <1>1, <1>10, <1>11, SetInduction
<1>13. f[n] = g[n] /\ (g[n] = <<>> <=> talk = {})
  <2>1. \A j \in talk : ~(n < j)
    BY <1>1, <1>4
  <2> QED BY <1>1, <1>12, <2>1
<1>14. g[n] \in Seq(Words)
  BY <1>1, <1>6
<1> QED BY <1>5, <1>6, <1>8, <1>13, <1>14

-----------------------------------------------------------------------------
(* The error is that of the response.                                      *)

ErrInv ==
    /\ response \in Responses
    /\ err # NoError => err = NewAPIError(response.status, NoHints, response.body, Attempts, Now)

(* No step touches an error that was made.                                 *)
LEMMA ErrInvStep == ErrInv /\ [Next]_vars => ErrInv'
<1>1. ASSUME ErrInv, Fail PROVE ErrInv'
  BY <1>1 DEF ErrInv, Fail
<1>2. ASSUME ErrInv, UNCHANGED vars PROVE ErrInv'
  BY <1>2 DEF ErrInv, vars
<1> QED BY <1>1, <1>2 DEF Next

(* An error is made of its response, once (errors.go:49-61).                *)
THEOREM ErrorIsResponses == Spec => []ErrInv
<1>1. Init => ErrInv
  BY DEF Init, ErrInv
<1> QED BY <1>1, ErrInvStep, PTL DEF Spec

(* The fields of the error, by what the response gives them.               *)
LEMMA ErrorFields ==
    ASSUME ErrInv, err # NoError
    PROVE  /\ err.status = response.status
           /\ err.message = ExtractMessage(response.body)
           /\ err.body = response.body.text
           /\ response.body \in Values
           /\ response.body # Blank => response.body.text # <<>>
<1>1. err = NewAPIError(response.status, NoHints, response.body, Attempts, Now)
  BY DEF ErrInv
<1>2. /\ err.status = response.status
      /\ err.message = ExtractMessage(response.body)
      /\ err.body = response.body.text
  BY <1>1 DEF NewAPIError
<1>3. response \in Responses
  BY DEF ErrInv
<1>4. response.body \in Values /\ (response.body # Blank => response.body.text # <<>>)
  BY <1>3, ReportAssumption, Zenon
<1> QED BY <1>2, <1>4

-----------------------------------------------------------------------------
(* The message.                                                            *)

(* A message is a text, wherever it was found.                             *)
LEMMA MessageTyped ==
    ASSUME NEW body \in Values
    PROVE  ExtractMessage(body) \in Seq(Words)
<1> DEFINE error  == Field(body, "error")
           detail == Field(body, "detail")
<1>1. error \in Values /\ detail \in Values /\ Field(body, "message") \in Values
  BY ValueTyped
<1>2. /\ Field(error, "message") \in Values
      /\ Field(detail, "message") \in Values
      /\ detail.items \in Seq(Values)
  BY <1>1, ValueTyped
<1>3. /\ body.text \in Seq(Words) /\ error.text \in Seq(Words) /\ detail.text \in Seq(Words)
      /\ Field(body, "message").text \in Seq(Words)
      /\ Field(error, "message").text \in Seq(Words)
      /\ Field(detail, "message").text \in Seq(Words)
  BY <1>1, <1>2, ValueTyped
<1>4. JoinDetailEntries(detail.items) \in Seq(Words)
  BY <1>2, DetailsJoined
<1> QED BY <1>3, <1>4 DEF ExtractMessage

(* The message of an object is the first of its shapes'.                    *)
LEMMA FirstShape ==
    ASSUME NEW body \in Values, body.kind = "object"
    PROVE  LET shapes == Shapes(body)
               message == ExtractMessage(body)
           IN  \/ message = <<>> /\ \A i \in 1..6 : shapes[i] = <<>>
               \/ \E i \in 1..6 : /\ shapes[i] = <<message>>
                                  /\ \A j \in 1..(i - 1) : shapes[j] = <<>>
<1> DEFINE error   == Field(body, "error")
           detail  == Field(body, "detail")
           shapes  == Shapes(body)
           message == ExtractMessage(body)
           joined  == JoinDetailEntries(detail.items)
<1>1. /\ shapes[1] = TextOf(error)
      /\ shapes[2] = TextOf(Field(error, "message"))
      /\ shapes[3] = TextOf(Field(body, "message"))
      /\ shapes[4] = TextOf(detail)
      /\ shapes[5] = TextOf(Field(detail, "message"))
      /\ shapes[6] = TextOfDetails(detail.items)
  BY DEF Shapes
<1>2. shapes[6] = IF joined = <<>> THEN <<>> ELSE <<joined>>
  <2>1. detail.items \in Seq(Values)
    BY ValueTyped
  <2> QED BY <1>1, <2>1, DetailsJoined
<1>3. /\ 1..(1-1) = {} /\ 1..(2-1) = {1} /\ 1..(3-1) = {1, 2}
      /\ 1..(4-1) = {1, 2, 3} /\ 1..(5-1) = {1, 2, 3, 4}
      /\ 1..(6-1) = {1, 2, 3, 4, 5} /\ 1..6 = {1, 2, 3, 4, 5, 6}
  OBVIOUS
<1>4. message =
         IF IsString(error) THEN error.text
         ELSE IF IsString(Field(error, "message")) THEN Field(error, "message").text
         ELSE IF IsString(Field(body, "message")) THEN Field(body, "message").text
         ELSE IF IsString(detail) THEN detail.text
         ELSE IF IsString(Field(detail, "message")) THEN Field(detail, "message").text
         ELSE joined
  BY DEF ExtractMessage
<1>5. \A v : TextOf(v) = IF IsString(v) THEN <<v.text>> ELSE <<>>
  BY DEF TextOf
<1> SUFFICES \/ message = <<>> /\ \A i \in 1..6 : shapes[i] = <<>>
             \/ \E i \in 1..6 : /\ shapes[i] = <<message>>
                                /\ \A j \in 1..(i - 1) : shapes[j] = <<>>
  OBVIOUS
<1> HIDE DEF shapes, message, joined, error, detail
<1>6. CASE IsString(error)
  <2>1. shapes[1] = <<message>> /\ \A j \in 1..(1 - 1) : shapes[j] = <<>>
    BY <1>1, <1>3, <1>4, <1>5, <1>6
  <2> QED BY <1>3, <2>1
<1>7. CASE ~IsString(error) /\ IsString(Field(error, "message"))
  <2>1. shapes[2] = <<message>> /\ \A j \in 1..(2 - 1) : shapes[j] = <<>>
    BY <1>1, <1>3, <1>4, <1>5, <1>7
  <2> QED BY <1>3, <2>1
<1> DEFINE Errorless == ~IsString(error) /\ ~IsString(Field(error, "message"))
<1>8. CASE Errorless /\ IsString(Field(body, "message"))
  <2>1. shapes[3] = <<message>> /\ \A j \in 1..(3 - 1) : shapes[j] = <<>>
    BY <1>1, <1>3, <1>4, <1>5, <1>8
  <2> QED BY <1>3, <2>1
<1>9. CASE Errorless /\ ~IsString(Field(body, "message")) /\ IsString(detail)
  <2>1. shapes[4] = <<message>> /\ \A j \in 1..(4 - 1) : shapes[j] = <<>>
    BY <1>1, <1>3, <1>4, <1>5, <1>9
  <2> QED BY <1>3, <2>1
<1>10. CASE Errorless /\ ~IsString(Field(body, "message")) /\ ~IsString(detail)
            /\ IsString(Field(detail, "message"))
  <2>1. shapes[5] = <<message>> /\ \A j \in 1..(5 - 1) : shapes[j] = <<>>
    BY <1>1, <1>3, <1>4, <1>5, <1>10
  <2> QED BY <1>3, <2>1
<1>11. CASE Errorless /\ ~IsString(Field(body, "message")) /\ ~IsString(detail)
            /\ ~IsString(Field(detail, "message"))
  <2>1. message = joined /\ \A j \in 1..(6 - 1) : shapes[j] = <<>>
    BY <1>1, <1>3, <1>4, <1>5, <1>11
  <2>2. CASE joined = <<>>
    BY <1>2, <1>3, <2>1, <2>2
  <2>3. CASE joined # <<>>
    <3>1. shapes[6] = <<message>>
      BY <1>2, <2>1, <2>3
    <3> QED BY <1>3, <2>1, <3>1
  <2> QED BY <2>2, <2>3
<1> QED BY <1>6, <1>7, <1>8, <1>9, <1>10, <1>11

LEMMA InvMessage == ErrInv => MessageAsDocumented
<1>1. SUFFICES ASSUME ErrInv, err # NoError
               PROVE  LET body == response.body
                          shapes == Shapes(body)
                      IN  /\ ~IsJSON(body) => err.message = body.text
                          /\ body.kind = "object" =>
                               \/ err.message = <<>> /\ \A i \in 1..6 : shapes[i] = <<>>
                               \/ \E i \in 1..6 : /\ shapes[i] = <<err.message>>
                                                  /\ \A j \in 1..(i - 1) : shapes[j] = <<>>
  BY DEF MessageAsDocumented
<1>2. err.message = ExtractMessage(response.body) /\ response.body \in Values
  BY <1>1, ErrorFields
<1>3. ~IsJSON(response.body) => err.message = response.body.text
  BY <1>2 DEF ExtractMessage, IsJSON
<1>4. CASE response.body.kind = "object"
  BY <1>2, <1>3, <1>4, FirstShape
<1>5. CASE response.body.kind # "object"
  BY <1>3, <1>5
<1> QED BY <1>4, <1>5

LEMMA InvShort == ErrInv => SaysSomethingShort
<1>1. SUFFICES ASSUME ErrInv, err # NoError
               PROVE  /\ response.body # Blank => Echoed(err) # <<>>
                      /\ Len(Echoed(err)) <= MaxBodyEcho
  BY DEF SaysSomethingShort
<1> DEFINE msg == IF err.message = <<>> THEN err.body ELSE err.message
<1>2. msg \in Seq(Words) /\ (response.body # Blank => msg # <<>>)
  <2>1. /\ err.message \in Seq(Words)
        /\ err.body \in Seq(Words)
        /\ response.body # Blank => err.body # <<>>
    BY <1>1, ErrorFields, MessageTyped, ValueTyped
  <2> QED BY <2>1
<1>3. Echoed(err) = IF Len(msg) > MaxBodyEcho THEN SubSeq(msg, 1, MaxBodyEcho) ELSE msg
  BY DEF Echoed
<1> HIDE DEF msg
<1>4. MaxBodyEcho \in Nat \ {0} /\ Len(msg) \in Nat
  BY <1>2, EchoAssumption
<1>5. CASE Len(msg) > MaxBodyEcho
  <2>1. \A i \in 1..MaxBodyEcho : msg[i] \in Words
    BY <1>2, <1>4, <1>5
  <2>2. Len(SubSeq(msg, 1, MaxBodyEcho)) = MaxBodyEcho
    BY <1>4, <2>1, SubSeqProperties
  <2> QED BY <1>3, <1>4, <1>5, <2>2
<1>6. CASE ~(Len(msg) > MaxBodyEcho)
  BY <1>2, <1>3, <1>4, <1>6
<1> QED BY <1>5, <1>6

-----------------------------------------------------------------------------
(* The sentinels.                                                          *)

(* The sentinels of an error, by its status.                               *)
LEMMA SentinelsOf ==
    ASSUME NEW e
    PROVE  \A s : s \in Matching(e) <=>
             \/ s = "ErrBadRequest" /\ e.status = 400
             \/ s = "ErrUnauthorized" /\ e.status = 401
             \/ s = "ErrForbidden" /\ e.status = 403
             \/ s = "ErrNotFound" /\ e.status = 404
             \/ s = "ErrUnprocessable" /\ e.status = 422
             \/ s = "ErrRateLimited" /\ e.status = 429
             \/ s = "ErrOverloaded" /\ e.status = 529
             \/ s = "ErrServer" /\ e.status \in 500..599
BY DEF Matching, StatusesOf, Is

(* A set without two different members.                                    *)
LEMMA AtMostOne ==
    ASSUME NEW S, \A s, t \in S : s = t
    PROVE  Cardinality(S) <= 1
<1>1. CASE S = {}
  <2>1. Cardinality(S) = 0
    BY <1>1, FS_EmptySet
  <2> QED BY <2>1
<1>2. CASE S # {}
  <2>1. PICK s \in S : S = {s}
    BY <1>2
  <2>2. Cardinality(S) = 1
    BY <2>1, FS_Singleton
  <2> QED BY <2>2
<1> QED BY <1>1, <1>2

LEMMA InvSentinels == ErrInv => SentinelsTellRetries
<1> SUFFICES ASSUME err # NoError
             PROVE  /\ RetryableStatus(DefaultPolicy, err.status)
                       <=> Matching(err) \cap {"ErrRateLimited", "ErrServer"} # {} \/ err.status = 408
                    /\ err.status # 529 => Cardinality(Matching(err)) <= 1
                    /\ err.status = 529 => Matching(err) = {"ErrOverloaded", "ErrServer"}
                    /\ err.status = 408 => Matching(err) = {}
  BY DEF SentinelsTellRetries
<1> DEFINE M == Matching(err)
           status == err.status
<1>1. \A s : s \in M <=>
             \/ s = "ErrBadRequest" /\ status = 400
             \/ s = "ErrUnauthorized" /\ status = 401
             \/ s = "ErrForbidden" /\ status = 403
             \/ s = "ErrNotFound" /\ status = 404
             \/ s = "ErrUnprocessable" /\ status = 422
             \/ s = "ErrRateLimited" /\ status = 429
             \/ s = "ErrOverloaded" /\ status = 529
             \/ s = "ErrServer" /\ status \in 500..599
  BY SentinelsOf
<1>2. RetryableStatus(DefaultPolicy, status) <=> status = 408 \/ status = 429 \/ status \in 500..599
  BY DEF RetryableStatus, DefaultPolicy
<1> HIDE DEF M, status
<1>3. M \cap {"ErrRateLimited", "ErrServer"} # {} <=> status = 429 \/ status \in 500..599
  <2>1. "ErrRateLimited" \in M <=> status = 429
    BY <1>1
  <2>2. "ErrServer" \in M <=> status \in 500..599
    BY <1>1
  <2> QED BY <2>1, <2>2
<1>4. status # 529 => Cardinality(M) <= 1
  <2>1. SUFFICES ASSUME status # 529, NEW s \in M, NEW t \in M PROVE s = t
    BY AtMostOne
  <2> QED BY <1>1, <2>1
<1>5. status = 529 => M = {"ErrOverloaded", "ErrServer"}
  <2>1. 529 \in 500..599
    OBVIOUS
  <2> QED BY <1>1, <2>1
<1>6. status = 408 => M = {}
  <2>1. 408 \notin 500..599
    OBVIOUS
  <2> QED BY <1>1, <2>1
<1> QED BY <1>2, <1>3, <1>4, <1>5, <1>6 DEF M, status

-----------------------------------------------------------------------------
(* The theorems.                                                           *)

(* The message of an error is that of the first documented shape its body   *)
(* has, whatever is in the object it holds, and the raw text of a body that *)
(* is no JSON (docs/errors.md:116-131, errors.go:158-236).                  *)
THEOREM MessageHolds == Spec => []MessageAsDocumented
BY ErrorIsResponses, InvMessage, PTL

(* The line of an error is never empty for a body that is not, and never    *)
(* longer than the limit (errors.go:80-86).                                 *)
THEOREM ShortHolds == Spec => []SaysSomethingShort
BY ErrorIsResponses, InvShort, PTL

(* For every status, the sentinels and the default retries agree            *)
(* (errors.go:100-121, retry.go:75-78).                                     *)
THEOREM SentinelsHold == Spec => []SentinelsTellRetries
BY ErrorIsResponses, InvSentinels, PTL
=============================================================================
