------------------------ MODULE DeviceTerminalProofs ------------------------
(***************************************************************************)
(* Theorems about DeviceTerminal, for any sizes of the cache and of the    *)
(* worker's buffer, any chunks with padding and any bounds.                *)
(*                                                                         *)
(* The inductive invariant has two parts.  Ground holds always: the types, *)
(* the order of the frames on the way (InOrder), the timers, and that an   *)
(* answer is what a page receives first.  Rest holds as long as clean      *)
(* does: it ties what the cache holds, what the page has asked for, which  *)
(* part of an answer it is in and what it shows to one number, Upto, the   *)
(* chunk up to which the page has been given the stream.                   *)
(***************************************************************************)
EXTENDS DeviceTerminal, SequenceTheorems, WellFoundedInduction, TLAPS

-----------------------------------------------------------------------------
(* The induction theorems of the library take an operator as a parameter,  *)
(* which the SMT and Zenon backends cannot instantiate.  Facts about all   *)
(* prefixes of a sequence are proved here from a set instead: < on Nat, as *)
(* a set of pairs, is well founded, which gives a least element, hence     *)
(* induction.                                                              *)

Less == {ss \in Nat \X Nat : ss[1] < ss[2]}

LEMMA LessWellFounded == IsWellFoundedOn(Less, Nat)
BY NatLessThanWellFounded DEF Less, OpToRel

(* A set of numbers has a least element.                                   *)
LEMMA LeastOf ==
  ASSUME NEW T, T \subseteq Nat, T # {}
  PROVE  \E m \in T : \A k \in T : m <= k
<1>1. PICK m \in T : \A k \in T : <<k, m>> \notin Less
  BY WFMin, LessWellFounded
<1>2. \A k \in T : ~(k < m)
  BY <1>1 DEF Less
<1>3. m \in Nat /\ \A k \in T : k \in Nat
  OBVIOUS
<1> QED
  BY <1>2, <1>3

(* Induction up to N, over a set instead of a predicate.                   *)
LEMMA Induction ==
  ASSUME NEW N \in Nat, NEW T, 0 \in T,
         \A k \in 0..N : k \in T /\ k < N => k + 1 \in T
  PROVE  0..N \subseteq T
<1> SUFFICES ASSUME (0..N) \ T # {} PROVE FALSE
  OBVIOUS
<1>1. PICK m \in (0..N) \ T : \A k \in (0..N) \ T : m <= k
  <2>1. (0..N) \ T \subseteq Nat
    OBVIOUS
  <2> QED
    BY <2>1, LeastOf
<1>2. m # 0 /\ m - 1 \in 0..N /\ m - 1 \in T
  BY <1>1
<1> QED
  BY <1>1, <1>2

(* The library's Max and Min return what they are named for.               *)
LEMMA GreatestOf ==
  ASSUME NEW N \in Nat, NEW T \in SUBSET (0..N), T # {}
  PROVE  Max(T) \in T /\ \A k \in T : k <= Max(T)
<1> DEFINE gaps == {d \in 0..N : \E k \in T : d = N - k}
<1>1. \A k \in T : N - k \in gaps
  OBVIOUS
<1>2. gaps # {} /\ gaps \subseteq Nat
  <2>1. gaps \subseteq Nat
    OBVIOUS
  <2>2. PICK k \in T : TRUE
    OBVIOUS
  <2> HIDE DEF gaps
  <2>3. N - k \in gaps
    BY <1>1
  <2> QED
    BY <2>1, <2>3
<1>3. PICK d \in gaps : \A e \in gaps : d <= e
  BY <1>2, LeastOf
<1>4. PICK m \in T : d = N - m
  OBVIOUS
<1>5. \A k \in T : k <= m
  BY <1>1, <1>3, <1>4
<1> QED
  BY <1>5 DEF Max

LEMMA LeastIs ==
  ASSUME NEW T \in SUBSET Nat, T # {}
  PROVE  Min(T) \in T /\ \A k \in T : Min(T) <= k
<1>1. PICK m \in T : \A k \in T : m <= k
  BY LeastOf
<1> QED
  BY <1>1 DEF Min

(* The function by which Chunks is computed, up to the nth byte.           *)
Chunking(t, n, f) ==
  f = [i \in 0..n |-> IF i = 0 THEN <<>>
                      ELSE IF t[i] = Sep THEN f[i - 1]
                      ELSE Append(f[i - 1], t[i])]

(* A file has such a function, by induction over its prefixes.             *)
LEMMA ChunkingExists ==
  ASSUME NEW t, Len(t) \in Nat
  PROVE  \E f : Chunking(t, Len(t), f)
<1> DEFINE good == {k \in 0..Len(t) : \E f : Chunking(t, k, f)}
<1>1. 0 \in good
  <2>1. Chunking(t, 0, [i \in 0..0 |-> <<>>])
    BY DEF Chunking
  <2> QED
    BY <2>1
<1>2. ASSUME NEW k \in 0..Len(t), k \in good, k < Len(t) PROVE k + 1 \in good
  <2>1. PICK f : Chunking(t, k, f)
    BY <1>2
  <2> DEFINE g == [i \in 0..(k + 1) |-> IF i <= k THEN f[i]
                      ELSE IF t[i] = Sep THEN f[i - 1] ELSE Append(f[i - 1], t[i])]
  <2>2. \A i \in 0..k : g[i] = f[i]
    OBVIOUS
  <2>3. \A i \in 0..k : f[i] = IF i = 0 THEN <<>>
                               ELSE IF t[i] = Sep THEN f[i - 1]
                               ELSE Append(f[i - 1], t[i])
    BY <2>1 DEF Chunking
  <2>4. \A i \in 0..k : g[i] = IF i = 0 THEN <<>>
                               ELSE IF t[i] = Sep THEN g[i - 1]
                               ELSE Append(g[i - 1], t[i])
    <3> TAKE i \in 0..k
    <3>1. i # 0 => i - 1 \in 0..k
      OBVIOUS
    <3>2. i # 0 => g[i - 1] = f[i - 1]
      BY <3>1, <2>2
    <3> HIDE DEF g
    <3> QED
      BY <2>2, <2>3, <3>2
  <2>5. g[k + 1] = IF t[k + 1] = Sep THEN g[k] ELSE Append(g[k], t[k + 1])
    <3>1. (k + 1) - 1 = k /\ k + 1 \in 0..(k + 1) /\ ~(k + 1 <= k)
      OBVIOUS
    <3>2. g[k + 1] = IF t[k + 1] = Sep THEN f[k] ELSE Append(f[k], t[k + 1])
      BY <3>1
    <3>3. g[k] = f[k]
      BY <2>2
    <3> HIDE DEF g
    <3> QED
      BY <3>2, <3>3
  <2>6. g = [i \in 0..(k + 1) |-> g[i]]
    OBVIOUS
  <2> HIDE DEF g
  <2>7. \A i \in 0..(k + 1) : g[i] = IF i = 0 THEN <<>>
                               ELSE IF t[i] = Sep THEN g[i - 1]
                               ELSE Append(g[i - 1], t[i])
    <3> TAKE i \in 0..(k + 1)
    <3>1. CASE i \in 0..k
      BY <3>1, <2>4
    <3>2. CASE i = k + 1
      BY <3>2, <2>5
    <3> QED
      BY <3>1, <3>2
  <2>8. Chunking(t, k + 1, g)
    BY <2>6, <2>7 DEF Chunking
  <2>9. k + 1 \in 0..Len(t)
    BY <1>2
  <2> QED
    BY <2>8, <2>9
<1>3. 0..Len(t) \subseteq good
  <2> HIDE DEF good
  <2> QED
    BY <1>1, <1>2, Induction
<1> QED
  BY <1>3

(* Chunks, step by step.                                                   *)
LEMMA ChunksIs ==
  ASSUME NEW t, Len(t) \in Nat
  PROVE  \E f : /\ f[0] = <<>>
                /\ \A i \in 1..Len(t) :
                     f[i] = IF t[i] = Sep THEN f[i - 1] ELSE Append(f[i - 1], t[i])
                /\ Chunks(t) = f[Len(t)]
<1> DEFINE f == CHOOSE f : Chunking(t, Len(t), f)
<1>1. Chunking(t, Len(t), f)
  BY ChunkingExists
<1>2. Chunks(t) = f[Len(t)]
  BY DEF Chunks, Chunking
<1> HIDE DEF f
<1>3. \A i \in 0..Len(t) : f[i] = IF i = 0 THEN <<>>
                                  ELSE IF t[i] = Sep THEN f[i - 1]
                                  ELSE Append(f[i - 1], t[i])
  BY <1>1 DEF Chunking
<1>4. f[0] = <<>>
  BY <1>3
<1>5. \A i \in 1..Len(t) : f[i] = IF t[i] = Sep THEN f[i - 1] ELSE Append(f[i - 1], t[i])
  BY <1>3
<1> QED
  BY <1>2, <1>4, <1>5

LEMMA ChunksEmpty == Chunks(<<>>) = <<>>
BY ChunksIs

LEMMA ChunksType ==
  ASSUME NEW S, NEW t \in Seq(S)
  PROVE  Chunks(t) \in Seq(S \ {Sep})
<1>1. Len(t) \in Nat
  OBVIOUS
<1>2. PICK f : /\ f[0] = <<>>
               /\ \A i \in 1..Len(t) :
                    f[i] = IF t[i] = Sep THEN f[i - 1] ELSE Append(f[i - 1], t[i])
               /\ Chunks(t) = f[Len(t)]
  BY <1>1, ChunksIs
<1> DEFINE good == {k \in 0..Len(t) : f[k] \in Seq(S \ {Sep})}
<1>3. 0 \in good
  <2>1. f[0] \in Seq(S \ {Sep})
    BY <1>2, EmptySeq
  <2> QED
    BY <1>1, <2>1
<1>4. ASSUME NEW k \in 0..Len(t), k \in good, k < Len(t) PROVE k + 1 \in good
  <2>1. k + 1 \in 1..Len(t) /\ (k + 1) - 1 = k /\ k + 1 \in 0..Len(t)
    BY <1>4
  <2>2. f[k + 1] = IF t[k + 1] = Sep THEN f[k] ELSE Append(f[k], t[k + 1])
    BY <1>2, <2>1
  <2>3. t[k + 1] \in S
    BY <2>1
  <2>4. f[k] \in Seq(S \ {Sep})
    BY <1>4
  <2>5. f[k + 1] \in Seq(S \ {Sep})
    BY <2>2, <2>3, <2>4
  <2> QED
    BY <2>1, <2>5
<1>5. 0..Len(t) \subseteq good
  <2> HIDE DEF good
  <2> QED
    BY <1>1, <1>3, <1>4, Induction
<1> QED
  BY <1>1, <1>2, <1>5

LEMMA ChunksAppend ==
  ASSUME NEW S, NEW t \in Seq(S), NEW x \in S
  PROVE  Chunks(Append(t, x)) = IF x = Sep THEN Chunks(t) ELSE Append(Chunks(t), x)
<1> DEFINE u == Append(t, x)
<1>1. Len(t) \in Nat /\ Len(u) = Len(t) + 1 /\ u[Len(t) + 1] = x
      /\ \A i \in 1..Len(t) : u[i] = t[i]
  BY AppendProperties
<1> HIDE DEF u
<1>2. PICK f : /\ f[0] = <<>>
               /\ \A i \in 1..Len(t) :
                    f[i] = IF t[i] = Sep THEN f[i - 1] ELSE Append(f[i - 1], t[i])
               /\ Chunks(t) = f[Len(t)]
  BY <1>1, ChunksIs
<1>3. PICK g : /\ g[0] = <<>>
               /\ \A i \in 1..Len(u) :
                    g[i] = IF u[i] = Sep THEN g[i - 1] ELSE Append(g[i - 1], u[i])
               /\ Chunks(u) = g[Len(u)]
  BY <1>1, ChunksIs
<1> DEFINE good == {k \in 0..Len(t) : g[k] = f[k]}
<1>4. 0 \in good
  BY <1>1, <1>2, <1>3
<1>5. ASSUME NEW k \in 0..Len(t), k \in good, k < Len(t) PROVE k + 1 \in good
  <2>1. k + 1 \in 1..Len(t) /\ (k + 1) - 1 = k /\ k + 1 \in 0..Len(t) /\ k + 1 \in 1..Len(u)
    BY <1>1, <1>5
  <2>2. f[k + 1] = IF t[k + 1] = Sep THEN f[k] ELSE Append(f[k], t[k + 1])
    BY <1>2, <2>1
  <2>3. g[k + 1] = IF u[k + 1] = Sep THEN g[k] ELSE Append(g[k], u[k + 1])
    BY <1>3, <2>1
  <2>4. u[k + 1] = t[k + 1] /\ g[k] = f[k]
    BY <1>1, <1>5, <2>1
  <2>5. g[k + 1] = f[k + 1]
    BY <2>2, <2>3, <2>4
  <2> QED
    BY <2>1, <2>5
<1>6. 0..Len(t) \subseteq good
  <2> HIDE DEF good
  <2> QED
    BY <1>1, <1>4, <1>5, Induction
<1>7. g[Len(t)] = f[Len(t)]
  BY <1>1, <1>6
<1>8. Len(t) + 1 \in 1..Len(u) /\ (Len(t) + 1) - 1 = Len(t)
  BY <1>1
<1>9. Chunks(u) = IF x = Sep THEN g[Len(t)] ELSE Append(g[Len(t)], x)
  BY <1>1, <1>3, <1>8
<1> QED
  BY <1>2, <1>7, <1>9 DEF u

(* The chunks of two pieces of a file, one after the other.                *)
LEMMA ChunksConcat ==
  ASSUME NEW S, NEW t \in Seq(S), NEW u \in Seq(S)
  PROVE  Chunks(t \o u) = Chunks(t) \o Chunks(u)
<1> DEFINE upto(k) == SubSeq(u, 1, k)
           good == {k \in 0..Len(u) : Chunks(t \o upto(k)) = Chunks(t) \o Chunks(upto(k))}
<1>0. Chunks(t) \in Seq(S \ {Sep})
  BY ChunksType
<1>1. 0 \in good
  <2>1. upto(0) = <<>>
    OBVIOUS
  <2>2. t \o <<>> = t /\ Chunks(t) \o <<>> = Chunks(t)
    BY <1>0, ConcatEmptySeq
  <2>3. 0 \in 0..Len(u)
    OBVIOUS
  <2> HIDE DEF upto
  <2> QED
    BY <2>1, <2>2, <2>3, ChunksEmpty
<1>2. ASSUME NEW k \in 0..Len(u), k \in good, k < Len(u) PROVE k + 1 \in good
  <2>1. k + 1 \in 1..Len(u) /\ (k + 1) - 1 = k /\ k + 1 \in 0..Len(u) /\ u[k + 1] \in S
    BY <1>2
  <2>2. upto(k) \in Seq(S)
    OBVIOUS
  <2>3. upto(k + 1) = Append(upto(k), u[k + 1])
    OBVIOUS
  <2>4. Chunks(t \o upto(k)) = Chunks(t) \o Chunks(upto(k))
    BY <1>2
  <2> DEFINE v == upto(k)
             x == u[k + 1]
  <2> HIDE DEF upto, v, x
  <2>5. v \in Seq(S) /\ x \in S /\ Chunks(v) \in Seq(S \ {Sep}) /\ t \o v \in Seq(S)
    <3>1. v \in Seq(S) /\ x \in S
      BY <2>1, <2>2 DEF v, x
    <3>2. Chunks(v) \in Seq(S \ {Sep})
      BY <3>1, ChunksType
    <3> QED
      BY <3>1, <3>2
  <2>6. t \o Append(v, x) = Append(t \o v, x)
    BY <2>5
  <2>7. Chunks(t \o Append(v, x)) = IF x = Sep THEN Chunks(t \o v) ELSE Append(Chunks(t \o v), x)
    BY <2>5, <2>6, ChunksAppend
  <2>8. Chunks(Append(v, x)) = IF x = Sep THEN Chunks(v) ELSE Append(Chunks(v), x)
    BY <2>5, ChunksAppend
  <2>9. x # Sep => Chunks(t) \o Append(Chunks(v), x) = Append(Chunks(t) \o Chunks(v), x)
    BY <2>5, <1>0
  <2>10. Chunks(t \o Append(v, x)) = Chunks(t) \o Chunks(Append(v, x))
    BY <2>4, <2>7, <2>8, <2>9 DEF v
  <2> QED
    BY <2>1, <2>3, <2>10 DEF v, x
<1>3. 0..Len(u) \subseteq good
  <2>1. Len(u) \in Nat
    OBVIOUS
  <2> HIDE DEF good
  <2> QED
    BY <1>1, <1>2, <2>1, Induction
<1>4. Len(u) \in good
  BY <1>3
<1>5. upto(Len(u)) = u
  BY SubSeqFull
<1> QED
  BY <1>4, <1>5

(* Packing.                                                                *)
LEMMA PackType ==
  ASSUME NEW S, NEW cs \in Seq(S)
  PROVE  /\ Pack(cs) \in Seq(S \cup {Sep})
         /\ Len(Pack(cs)) = IF cs = <<>> THEN 0 ELSE 2 * Len(cs) - 1
         /\ \A i \in 1..Len(Pack(cs)) :
              Pack(cs)[i] = IF i % 2 = 1 THEN cs[(i + 1) \div 2] ELSE Sep
<1> DEFINE n == IF cs = <<>> THEN 0 ELSE 2 * Len(cs) - 1
<1>1. n \in Nat
  BY EmptySeq
<1>2. \A i \in 1..n : i % 2 = 1 => (i + 1) \div 2 \in 1..Len(cs)
  OBVIOUS
<1>3. \A i \in 1..n : (IF i % 2 = 1 THEN cs[(i + 1) \div 2] ELSE Sep) \in S \cup {Sep}
  BY <1>2
<1>4. Pack(cs) = [i \in 1..n |-> IF i % 2 = 1 THEN cs[(i + 1) \div 2] ELSE Sep]
  BY DEF Pack
<1> HIDE DEF n
<1>5. Pack(cs) \in Seq(S \cup {Sep})
  BY <1>1, <1>3, <1>4, IsASeq
<1>6. Len(Pack(cs)) = n
  BY <1>1, <1>4
<1> QED
  BY <1>4, <1>5, <1>6 DEF n

LEMMA PackAppend ==
  ASSUME NEW S, NEW cs \in Seq(S), NEW n \in S
  PROVE  Pack(Append(cs, n)) =
           IF cs = <<>> THEN <<n>> ELSE Append(Append(Pack(cs), Sep), n)
<1> DEFINE ds == Append(cs, n)
           p == IF cs = <<>> THEN <<n>> ELSE Append(Append(Pack(cs), Sep), n)
<1>1. ds \in Seq(S) /\ ds # <<>> /\ Len(ds) = Len(cs) + 1 /\ ds[Len(cs) + 1] = n
      /\ \A i \in 1..Len(cs) : ds[i] = cs[i]
  BY AppendProperties
<1> HIDE DEF ds
<1>2. /\ Pack(ds) \in Seq(S \cup {Sep}) /\ Len(Pack(ds)) = 2 * Len(cs) + 1
      /\ \A i \in 1..Len(Pack(ds)) :
              Pack(ds)[i] = IF i % 2 = 1 THEN ds[(i + 1) \div 2] ELSE Sep
  <2>1. /\ Pack(ds) \in Seq(S \cup {Sep})
        /\ Len(Pack(ds)) = IF ds = <<>> THEN 0 ELSE 2 * Len(ds) - 1
        /\ \A i \in 1..Len(Pack(ds)) :
              Pack(ds)[i] = IF i % 2 = 1 THEN ds[(i + 1) \div 2] ELSE Sep
    BY <1>1, PackType
  <2> QED
    BY <1>1, <2>1
<1>3. /\ Pack(cs) \in Seq(S \cup {Sep})
      /\ Len(Pack(cs)) = IF cs = <<>> THEN 0 ELSE 2 * Len(cs) - 1
      /\ \A i \in 1..Len(Pack(cs)) :
              Pack(cs)[i] = IF i % 2 = 1 THEN cs[(i + 1) \div 2] ELSE Sep
  BY PackType
<1>4. p \in Seq(S \cup {Sep}) /\ Len(p) = 2 * Len(cs) + 1 /\ p[2 * Len(cs) + 1] = n
  <2>1. CASE cs = <<>>
    BY <2>1
  <2>2. CASE cs # <<>>
    <3>1. Append(Pack(cs), Sep) \in Seq(S \cup {Sep}) /\ Len(Append(Pack(cs), Sep)) = 2 * Len(cs)
      BY <1>3, <2>2
    <3>2. p = Append(Append(Pack(cs), Sep), n)
      BY <2>2
    <3> QED
      BY <3>1, <3>2
  <2> QED
    BY <2>1, <2>2
<1>5. ASSUME NEW i \in 1..Len(p) PROVE Pack(ds)[i] = p[i]
  <2>1. CASE cs = <<>>
    BY <1>1, <1>2, <1>4, <2>1
  <2>2. CASE cs # <<>> /\ i <= 2 * Len(cs) - 1
    <3>1. i \in 1..Len(Pack(cs)) /\ i \in 1..Len(Pack(ds))
      BY <1>2, <1>3, <1>4, <2>2
    <3>2. p[i] = Pack(cs)[i]
      BY <1>3, <2>2, <3>1
    <3>3. i % 2 = 1 => (i + 1) \div 2 \in 1..Len(cs)
      BY <2>2
    <3> HIDE DEF p
    <3> QED
      BY <1>1, <1>2, <1>3, <3>1, <3>2, <3>3
  <2>3. CASE cs # <<>> /\ i = 2 * Len(cs)
    <3>1. p[i] = Sep
      BY <1>3, <2>3
    <3>2. i % 2 = 0 /\ i \in 1..Len(Pack(ds))
      BY <1>2, <1>4, <2>3
    <3> QED
      BY <1>2, <3>1, <3>2
  <2>4. CASE cs # <<>> /\ i = 2 * Len(cs) + 1
    <3>1. p[i] = n
      BY <1>4, <2>4
    <3>2. i % 2 = 1 /\ i \in 1..Len(Pack(ds)) /\ (i + 1) \div 2 = Len(cs) + 1
      BY <1>2, <1>4, <2>4
    <3> HIDE DEF p
    <3> QED
      BY <1>1, <1>2, <3>1, <3>2
  <2> QED
    BY <1>4, <2>1, <2>2, <2>3, <2>4
<1> HIDE DEF p
<1>6. Pack(ds) = p
  BY <1>2, <1>4, <1>5, SeqEqual
<1> QED
  BY <1>6 DEF p, ds

(* Reading back what was packed.                                           *)
LEMMA ChunksPack ==
  ASSUME NEW S, Sep \notin S, NEW cs \in Seq(S)
  PROVE  Chunks(Pack(cs)) = cs
<1> DEFINE upto(k) == SubSeq(cs, 1, k)
           good == {k \in 0..Len(cs) : Chunks(Pack(upto(k))) = upto(k)}
<1>1. 0 \in good
  <2>1. upto(0) = <<>> /\ 0 \in 0..Len(cs)
    OBVIOUS
  <2>2. Pack(<<>>) = <<>>
    BY DEF Pack
  <2> HIDE DEF upto
  <2> QED
    BY <2>1, <2>2, ChunksEmpty
<1>2. ASSUME NEW k \in 0..Len(cs), k \in good, k < Len(cs) PROVE k + 1 \in good
  <2>1. k + 1 \in 0..Len(cs) /\ cs[k + 1] \in S
    BY <1>2
  <2>2. upto(k) \in Seq(S)
    OBVIOUS
  <2>3. upto(k + 1) = Append(upto(k), cs[k + 1])
    OBVIOUS
  <2>4. Chunks(Pack(upto(k))) = upto(k)
    BY <1>2
  <2> DEFINE v == upto(k)
             x == cs[k + 1]
  <2> HIDE DEF upto, v, x
  <2>5. v \in Seq(S) /\ x \in S /\ x # Sep
    BY <2>1, <2>2 DEF v, x
  <2>6. Pack(v) \in Seq(S \cup {Sep})
    BY <2>5, PackType
  <2>7. Chunks(Pack(Append(v, x))) = Append(v, x)
    <3>1. CASE v = <<>>
      <4>1. Pack(Append(v, x)) = <<x>>
        BY <2>5, <3>1, PackAppend
      <4>3. <<x>> = Append(<<>>, x)
        OBVIOUS
      <4>2. Chunks(Append(<<>>, x)) = Append(Chunks(<<>>), x)
        BY <2>5, ChunksAppend, EmptySeq
      <4> QED
        BY <3>1, <4>1, <4>2, <4>3, ChunksEmpty
    <3>2. CASE v # <<>>
      <4>1. Pack(Append(v, x)) = Append(Append(Pack(v), Sep), x)
        BY <2>5, <3>2, PackAppend
      <4>2. Append(Pack(v), Sep) \in Seq(S \cup {Sep})
        BY <2>6
      <4>5. x \in S \cup {Sep}
        BY <2>5
      <4>3. Chunks(Append(Append(Pack(v), Sep), x)) = Append(Chunks(Append(Pack(v), Sep)), x)
        BY <2>5, <4>2, <4>5, ChunksAppend
      <4>4. Chunks(Append(Pack(v), Sep)) = Chunks(Pack(v))
        BY <2>6, ChunksAppend
      <4> QED
        BY <2>4, <4>1, <4>3, <4>4 DEF v
    <3> QED
      BY <3>1, <3>2
  <2> QED
    BY <2>1, <2>3, <2>7 DEF v, x
<1>3. 0..Len(cs) \subseteq good
  <2>1. Len(cs) \in Nat
    OBVIOUS
  <2> HIDE DEF good
  <2> QED
    BY <1>1, <1>2, <2>1, Induction
<1>4. Len(cs) \in good
  BY <1>3
<1>5. upto(Len(cs)) = cs
  BY SubSeqFull
<1> QED
  BY <1>4, <1>5

-----------------------------------------------------------------------------
(* Last elements, contiguous sequences, and a cut at a separator.          *)

(* The last chunk of a sequence, 0 if there is none.                       *)
Through(cs) == IF cs = <<>> THEN 0 ELSE Last(cs)

LEMMA LastOfConcat ==
  ASSUME NEW S, NEW s \in Seq(S), NEW t \in Seq(S)
  PROVE  /\ t # <<>> => s \o t # <<>> /\ Last(s \o t) = Last(t)
         /\ t = <<>> => s \o t = s
         /\ s # <<>> => s \o t # <<>> /\ (s \o t)[1] = s[1]
BY ConcatProperties, EmptySeq DEF Last

LEMMA LastOfAppend ==
  ASSUME NEW S, NEW s \in Seq(S), NEW x \in S
  PROVE  Append(s, x) # <<>> /\ Last(Append(s, x)) = x
BY DEF Last

LEMMA LastType ==
  ASSUME NEW S, NEW s \in Seq(S), s # <<>>
  PROVE  Last(s) \in S /\ s[1] \in S /\ Len(s) >= 1
BY DEF Last

LEMMA ContiguousConcat ==
  ASSUME NEW s \in Seq(Nat), NEW t \in Seq(Nat)
  PROVE  Contiguous(s \o t) <=>
           /\ Contiguous(s) /\ Contiguous(t)
           /\ s # <<>> /\ t # <<>> => t[1] = Last(s) + 1
<1> DEFINE u == s \o t
<1>1. /\ u \in Seq(Nat) /\ Len(u) = Len(s) + Len(t)
      /\ \A i \in 1..Len(s) : u[i] = s[i]
      /\ \A i \in 1..Len(t) : u[Len(s) + i] = t[i]
  BY ConcatProperties
<1>2. Len(s) \in Nat /\ Len(t) \in Nat /\ (s = <<>> <=> Len(s) = 0) /\ (t = <<>> <=> Len(t) = 0)
  BY EmptySeq
<1> HIDE DEF u
<1>3. ASSUME Contiguous(u) PROVE Contiguous(s)
  <2> SUFFICES ASSUME NEW i \in 1..(Len(s) - 1) PROVE s[i + 1] = s[i] + 1
    BY DEF Contiguous
  <2>1. i \in 1..(Len(u) - 1) /\ i \in 1..Len(s) /\ i + 1 \in 1..Len(s)
    BY <1>1, <1>2
  <2>2. u[i + 1] = u[i] + 1
    BY <1>3, <2>1 DEF Contiguous
  <2> QED
    BY <1>1, <2>1, <2>2
<1>4. ASSUME Contiguous(u) PROVE Contiguous(t)
  <2> SUFFICES ASSUME NEW i \in 1..(Len(t) - 1) PROVE t[i + 1] = t[i] + 1
    BY DEF Contiguous
  <2>1. Len(s) + i \in 1..(Len(u) - 1) /\ Len(s) + (i + 1) = (Len(s) + i) + 1
    BY <1>1, <1>2
  <2>2. u[(Len(s) + i) + 1] = u[Len(s) + i] + 1
    BY <1>4, <2>1 DEF Contiguous
  <2>3. i \in 1..Len(t) /\ i + 1 \in 1..Len(t)
    BY <1>2
  <2>4. u[Len(s) + i] = t[i] /\ u[Len(s) + (i + 1)] = t[i + 1]
    BY <1>1, <2>3
  <2> QED
    BY <2>1, <2>2, <2>4
<1>5. ASSUME Contiguous(u), s # <<>>, t # <<>> PROVE t[1] = Last(s) + 1
  <2>1. Len(s) \in 1..(Len(u) - 1) /\ Len(s) \in 1..Len(s) /\ 1 \in 1..Len(t)
    BY <1>1, <1>2, <1>5
  <2>2. u[Len(s) + 1] = u[Len(s)] + 1
    BY <1>5, <2>1 DEF Contiguous
  <2> QED
    BY <1>1, <2>1, <2>2 DEF Last
<1>6. ASSUME Contiguous(s), Contiguous(t), s # <<>> /\ t # <<>> => t[1] = Last(s) + 1
      PROVE  Contiguous(u)
  <2> SUFFICES ASSUME NEW i \in 1..(Len(u) - 1) PROVE u[i + 1] = u[i] + 1
    BY DEF Contiguous
  <2>1. CASE i < Len(s)
    <3>1. i \in 1..(Len(s) - 1) /\ i \in 1..Len(s) /\ i + 1 \in 1..Len(s)
      BY <1>2, <2>1
    <3>2. s[i + 1] = s[i] + 1
      BY <1>6, <3>1 DEF Contiguous
    <3> QED
      BY <1>1, <3>1, <3>2
  <2>2. CASE i = Len(s)
    BY <1>1, <1>2, <1>6, <2>2 DEF Last
  <2>3. CASE i > Len(s)
    <3> DEFINE j == i - Len(s)
    <3>1. j \in 1..(Len(t) - 1) /\ i = Len(s) + j /\ i + 1 = Len(s) + (j + 1) /\ j + 1 \in 1..Len(t)
      BY <1>1, <1>2, <2>3
    <3>2. t[j + 1] = t[j] + 1
      BY <1>6, <3>1 DEF Contiguous
    <3> HIDE DEF j
    <3>3. j \in 1..Len(t)
      BY <1>2, <3>1
    <3>4. u[Len(s) + j] = t[j] /\ u[Len(s) + (j + 1)] = t[j + 1]
      BY <1>1, <3>1, <3>3
    <3> QED
      BY <3>1, <3>2, <3>4
  <2> QED
    BY <1>1, <1>2, <2>1, <2>2, <2>3
<1> QED
  BY <1>3, <1>4, <1>5, <1>6 DEF u

LEMMA ContiguousAppend ==
  ASSUME NEW s \in Seq(Nat), NEW n \in Nat, Contiguous(s), s # <<>> => n = Last(s) + 1
  PROVE  Contiguous(Append(s, n))
<1>1. Append(s, n) = s \o <<n>> /\ <<n>> \in Seq(Nat)
  BY AppendIsConcat
<1>2. Contiguous(<<n>>)
  BY DEF Contiguous
<1>3. <<n>>[1] = n
  OBVIOUS
<1> QED
  BY <1>1, <1>2, <1>3, ContiguousConcat

(* A file that does not end in a separator ends in its last chunk.         *)
LEMMA ChunksLast ==
  ASSUME NEW S, NEW t \in Seq(S), t # <<>>, Last(t) # Sep
  PROVE  Chunks(t) # <<>> /\ Last(Chunks(t)) = Last(t)
<1>1. PICK s \in Seq(S), x \in S : t = Append(s, x)
  BY SequenceEmptyOrAppend
<1>2. x # Sep /\ Last(t) = x
  BY <1>1, LastOfAppend
<1>3. Chunks(t) = Append(Chunks(s), x)
  BY <1>1, <1>2, ChunksAppend
<1>4. Chunks(s) \in Seq(S \ {Sep}) /\ x \in S \ {Sep}
  BY <1>2, ChunksType
<1> QED
  BY <1>2, <1>3, <1>4, LastOfAppend

(* Cutting off the head of a file.                                         *)
LEMMA ChunksCut ==
  ASSUME NEW S, NEW t \in Seq(S), NEW c \in 1..Len(t)
  PROVE  LET tail == SubSeq(t, c + 1, Len(t))
         IN /\ tail \in Seq(S) /\ Len(tail) = Len(t) - c
            /\ Chunks(t) = Chunks(SubSeq(t, 1, c)) \o Chunks(tail)
            /\ c < Len(t) => Last(tail) = Last(t)
<1> DEFINE tail == SubSeq(t, c + 1, Len(t))
           head == SubSeq(t, 1, c)
<1>1. head \in Seq(S) /\ Len(head) = c /\ \A i \in 1..c : head[i] = t[i]
  OBVIOUS
<1>2. tail \in Seq(S) /\ Len(tail) = Len(t) - c /\ \A i \in 1..(Len(t) - c) : tail[i] = t[c + i]
  OBVIOUS
<1>3. c \in Nat /\ Len(t) \in Nat /\ c <= Len(t)
  OBVIOUS
<1>4. t = head \o tail
  <2>1. 1 \in 1..(Len(t) + 1) /\ c \in 0..Len(t) /\ Len(t) \in c..Len(t)
    BY <1>3
  <2>2. head \o tail = SubSeq(t, 1, Len(t))
    BY <2>1, ConcatAdjacentSubSeq
  <2> QED
    BY <2>2, SubSeqFull
<1> HIDE DEF tail, head
<1>5. Chunks(t) = Chunks(head) \o Chunks(tail)
  BY <1>1, <1>2, <1>4, ChunksConcat
<1>6. c < Len(t) => Last(tail) = Last(t)
  BY <1>2, <1>3 DEF Last
<1> QED
  BY <1>2, <1>5, <1>6 DEF tail, head

-----------------------------------------------------------------------------
(* The operations on the cache: the files that each of them leaves at the  *)
(* end.                                                                    *)

(* Chunks and separators, chunks, and caches of the first n chunks.        *)
Bytes == 0..MaxOut
Stream == 1..MaxOut
CachesTo(n) == [bin : Seq(Bytes), seq : 0..n, bytes : Nat]

(* What is packed is a file.                                               *)
LEMMA PackBytes ==
  ASSUME NEW cs \in Seq(Stream)
  PROVE  /\ Pack(cs) \in Seq(Bytes)
         /\ Chunks(Pack(cs)) = cs
         /\ cs = <<>> => Pack(cs) = <<>>
         /\ cs # <<>> => Pack(cs) # <<>> /\ Last(Pack(cs)) # Sep
<1>1. Sep \notin Stream /\ Stream \cup {Sep} \subseteq Bytes
  BY BoundsAssumption DEF Stream, Bytes, Sep
<1>2. /\ Pack(cs) \in Seq(Stream \cup {Sep})
      /\ Len(Pack(cs)) = IF cs = <<>> THEN 0 ELSE 2 * Len(cs) - 1
      /\ \A i \in 1..Len(Pack(cs)) :
              Pack(cs)[i] = IF i % 2 = 1 THEN cs[(i + 1) \div 2] ELSE Sep
  BY PackType
<1>3. Pack(cs) \in Seq(Bytes)
  BY <1>1, <1>2, SeqMonotonic
<1>4. Chunks(Pack(cs)) = cs
  BY <1>1, ChunksPack
<1>5. cs = <<>> => Pack(cs) = <<>>
  BY <1>2, EmptySeq
<1>6. ASSUME cs # <<>> PROVE Pack(cs) # <<>> /\ Last(Pack(cs)) # Sep
  <2>1. Len(cs) \in Nat \ {0} /\ Len(Pack(cs)) = 2 * Len(cs) - 1
    BY <1>2, <1>6, EmptySeq
  <2>2. /\ Len(Pack(cs)) \in 1..Len(Pack(cs)) /\ Len(Pack(cs)) % 2 = 1
        /\ (Len(Pack(cs)) + 1) \div 2 = Len(cs)
    BY <2>1
  <2>3. Last(Pack(cs)) = cs[Len(cs)]
    BY <1>2, <2>2 DEF Last
  <2>4. cs[Len(cs)] \in Stream
    BY <2>1
  <2> QED
    BY <1>1, <1>2, <2>1, <2>3, <2>4
<1> QED
  BY <1>3, <1>4, <1>5, <1>6

LEMMA ChunksStream ==
  ASSUME NEW t \in Seq(Bytes)
  PROVE  Chunks(t) \in Seq(Stream)
<1>1. Bytes \ {Sep} = Stream
  BY BoundsAssumption DEF Stream, Bytes, Sep
<1> QED
  BY <1>1, ChunksType

(* Loading a cache whose count is absent or complete returns the whole     *)
(* bin.                                                                    *)
LEMMA LoadType ==
  ASSUME NEW n \in Nat, NEW d \in CachesTo(n)
  PROVE  /\ Load(d) \in Seq(Bytes)
         /\ d.bytes \in {0, Len(d.bin)} => Load(d) = d.bin
<1>1. d.bin \in Seq(Bytes) /\ d.bytes \in Nat /\ Len(d.bin) \in Nat
  BY DEF CachesTo
<1>2. d.bytes \in 1..(Len(d.bin) - 1) => SubSeq(d.bin, 1, d.bytes) \in Seq(Bytes)
  BY <1>1
<1> QED
  BY <1>1, <1>2 DEF Load

LEMMA PaintedType ==
  ASSUME NEW t \in Seq(Bytes)
  PROVE  Painted(t) \in Seq(Stream)
<1>1. CASE Glued(t) = {}
  BY <1>1, ChunksStream DEF Painted
<1>2. CASE Glued(t) # {}
  <2> DEFINE cuts == {0} \cup {i \in 1..Min(Glued(t)) : t[i] = Sep}
  <2>1. Len(t) \in Nat
    OBVIOUS
  <2>2. Glued(t) \subseteq 1..Len(t) /\ Glued(t) \subseteq Nat
    BY <2>1 DEF Glued
  <2>3. Min(Glued(t)) \in 1..Len(t)
    BY <1>2, <2>2, LeastIs
  <2>4. cuts \in SUBSET (0..Len(t)) /\ cuts # {}
    BY <2>1, <2>3
  <2> HIDE DEF cuts
  <2>5. Max(cuts) \in 0..Len(t)
    BY <2>1, <2>4, GreatestOf
  <2>6. SubSeq(t, 1, Max(cuts)) \in Seq(Bytes)
    BY <2>1, <2>5
  <2>7. Painted(t) = Chunks(SubSeq(t, 1, Max(cuts)))
    BY <1>2 DEF Painted, cuts
  <2> QED
    BY <2>6, <2>7, ChunksStream
<1> QED
  BY <1>1, <1>2

(* The states that each operation passes through, and the last of them.    *)
LEMMA WriteTypes ==
  ASSUME NEW n \in Nat, NEW d \in CachesTo(n), NEW t \in Seq(Bytes), NEW q \in 0..n, NEW b \in Nat
  PROVE  /\ WriteBin(d, t) \in Seq(CachesTo(n))
         /\ SetCursor(t, q, b) \in Seq(CachesTo(n)) /\ SetCursor(t, q, b) # <<>>
         /\ Last(SetCursor(t, q, b)) = [bin |-> t, seq |-> q, bytes |-> b]
         /\ ClearCursor(t) \in Seq(CachesTo(n)) /\ ClearCursor(t) # <<>>
         /\ Last(ClearCursor(t)) = [bin |-> t, seq |-> 0, bytes |-> 0]
         /\ Clear(d) \in Seq(CachesTo(n)) /\ Clear(d) # <<>> /\ Last(Clear(d)) = EmptyCache
         /\ [bin |-> t, seq |-> q, bytes |-> b] \in CachesTo(n)
<1>1. <<>> \in Seq(Bytes) /\ 0 \in 0..n /\ EmptyCache \in CachesTo(n)
  BY DEF EmptyCache, CachesTo
<1>2. [d EXCEPT !.bin = <<>>] \in CachesTo(n) /\ [d EXCEPT !.bin = t] \in CachesTo(n)
  BY <1>1 DEF CachesTo
<1>3. [EmptyCache EXCEPT !.bin = t] = [bin |-> t, seq |-> 0, bytes |-> 0]
  BY DEF EmptyCache
<1>4. /\ [bin |-> t, seq |-> 0, bytes |-> 0] \in CachesTo(n)
      /\ [bin |-> t, seq |-> q, bytes |-> b] \in CachesTo(n)
  BY <1>1 DEF CachesTo
<1>5. ASSUME NEW u \in CachesTo(n), NEW v \in CachesTo(n)
      PROVE  <<u, v>> \in Seq(CachesTo(n)) /\ <<u, v>> # <<>> /\ Last(<<u, v>>) = v
             /\ <<u>> \in Seq(CachesTo(n)) /\ <<u>> # <<>> /\ Last(<<u>>) = u
  BY DEF Last
<1> HIDE DEF CachesTo
<1> QED
  BY <1>1, <1>2, <1>3, <1>4, <1>5 DEF WriteBin, SetCursor, ClearCursor, Clear

LEMMA ReplaceEnds ==
  ASSUME NEW n \in Nat, NEW d \in CachesTo(n), NEW t \in Seq(Bytes)
  PROVE  /\ ReplaceCache(d, t) \in Seq(CachesTo(n)) /\ ReplaceCache(d, t) # <<>>
         /\ Last(ReplaceCache(d, t)) = [bin |-> t, seq |-> 0, bytes |-> 0]
<1>1. /\ WriteBin(d, t) \in Seq(CachesTo(n))
      /\ ClearCursor(t) \in Seq(CachesTo(n)) /\ ClearCursor(t) # <<>>
      /\ Last(ClearCursor(t)) = [bin |-> t, seq |-> 0, bytes |-> 0]
  BY WriteTypes, 0 \in 0..n
<1> QED
  BY <1>1, ConcatProperties, LastOfConcat DEF ReplaceCache

LEMMA CutsType ==
  ASSUME NEW t \in Seq(Bytes), Len(t) > CacheMax, Cuts(t) # {}
  PROVE  Min(Cuts(t)) \in 1..Len(t) /\ t[Min(Cuts(t))] = Sep
<1>1. Len(t) \in Nat /\ CacheKeep \in Nat /\ CacheMax \in Nat /\ CacheKeep <= CacheMax
  BY SizesAssumption
<1>2. Cuts(t) \subseteq 1..Len(t) /\ Cuts(t) \subseteq Nat
  BY <1>1 DEF Cuts
<1>3. Min(Cuts(t)) \in Cuts(t)
  BY <1>2, LeastIs
<1> QED
  BY <1>2, <1>3 DEF Cuts

(* A trim that does something cuts the bin after a separator.              *)
LEMMA TrimEnds ==
  ASSUME NEW n \in Nat, NEW d \in CachesTo(n)
  PROVE  /\ TrimIfNeeded(d) \in Seq(CachesTo(n))
         /\ TrimIfNeeded(d) # <<>> =>
              \E cut \in 1..Len(d.bin) :
                /\ d.bin[cut] = Sep
                /\ Last(TrimIfNeeded(d)) =
                     LET tail == SubSeq(d.bin, cut + 1, Len(d.bin))
                     IN IF d.bytes <= cut THEN [bin |-> tail, seq |-> 0, bytes |-> 0]
                        ELSE [bin |-> tail, seq |-> d.seq, bytes |-> d.bytes - cut]
<1>1. CASE Len(d.bin) <= CacheMax \/ Cuts(d.bin) = {}
  BY <1>1, EmptySeq DEF TrimIfNeeded
<1>2. CASE ~(Len(d.bin) <= CacheMax) /\ Cuts(d.bin) # {}
  <2> DEFINE cut == Min(Cuts(d.bin))
             tail == SubSeq(d.bin, cut + 1, Len(d.bin))
             end == IF d.bytes <= cut THEN ClearCursor(tail)
                    ELSE SetCursor(tail, d.seq, d.bytes - cut)
  <2>1. d.bin \in Seq(Bytes) /\ d.seq \in 0..n /\ d.bytes \in Nat /\ Len(d.bin) \in Nat
    BY DEF CachesTo
  <2>2. CacheMax \in Nat
    BY SizesAssumption
  <2>3. cut \in 1..Len(d.bin) /\ d.bin[cut] = Sep
    BY <1>2, <2>1, <2>2, CutsType
  <2> HIDE DEF cut
  <2>4. tail \in Seq(Bytes)
    BY <2>1, <2>3, ChunksCut
  <2> HIDE DEF tail
  <2>5. ~(d.bytes <= cut) => d.bytes - cut \in Nat
    BY <2>1, <2>3
  <2>6. /\ end \in Seq(CachesTo(n)) /\ end # <<>>
        /\ Last(end) = IF d.bytes <= cut THEN [bin |-> tail, seq |-> 0, bytes |-> 0]
                       ELSE [bin |-> tail, seq |-> d.seq, bytes |-> d.bytes - cut]
    BY <2>1, <2>4, <2>5, WriteTypes
  <2>7. WriteBin(d, tail) \in Seq(CachesTo(n))
    BY <2>1, <2>4, WriteTypes
  <2>8. TrimIfNeeded(d) = WriteBin(d, tail) \o end
    BY <1>2 DEF TrimIfNeeded, tail, cut
  <2> HIDE DEF end
  <2>9. TrimIfNeeded(d) \in Seq(CachesTo(n)) /\ Last(TrimIfNeeded(d)) = Last(end)
    BY <2>6, <2>7, <2>8, ConcatProperties, LastOfConcat
  <2> QED
    BY <2>3, <2>6, <2>9 DEF tail
<1> QED
  BY <1>1, <1>2

(* Merged is what a commit writes; its last cut keeps the counted end.     *)
LEMMA CommitEnds ==
  ASSUME NEW n \in Nat, NEW d \in CachesTo(n), NEW cs \in Seq(Stream), NEW q \in 0..n
  PROVE  LET merged == d.bin \o Pack(cs)
             written == CommitDelta(d, cs, q)
         IN /\ written \in Seq(CachesTo(n)) /\ written # <<>>
            /\ \/ Last(written) = [bin |-> merged, seq |-> q, bytes |-> Len(merged)]
               \/ \E cut \in 1..Len(merged) :
                    /\ merged[cut] = Sep
                    /\ Last(written) =
                         LET tail == SubSeq(merged, cut + 1, Len(merged))
                         IN IF Len(merged) <= cut THEN [bin |-> tail, seq |-> 0, bytes |-> 0]
                            ELSE [bin |-> tail, seq |-> q, bytes |-> Len(merged) - cut]
<1> DEFINE merged == d.bin \o Pack(cs)
           whole == [bin |-> merged, seq |-> q, bytes |-> Len(merged)]
           trim == TrimIfNeeded(whole)
           first == WriteBin(d, merged) \o SetCursor(merged, q, Len(merged))
<1>1. d.bin \in Seq(Bytes) /\ Pack(cs) \in Seq(Bytes)
  BY PackBytes DEF CachesTo
<1>2. merged \in Seq(Bytes) /\ Len(merged) \in Nat
  BY <1>1, ConcatProperties
<1>3. CommitDelta(d, cs, q) = first \o trim
  BY DEF CommitDelta
<1> HIDE DEF merged
<1>4. /\ WriteBin(d, merged) \in Seq(CachesTo(n))
      /\ SetCursor(merged, q, Len(merged)) \in Seq(CachesTo(n))
      /\ SetCursor(merged, q, Len(merged)) # <<>>
      /\ Last(SetCursor(merged, q, Len(merged))) = whole
      /\ whole \in CachesTo(n)
  BY <1>2, WriteTypes
<1>5. first \in Seq(CachesTo(n)) /\ first # <<>> /\ Last(first) = whole
  BY <1>4, ConcatProperties, LastOfConcat
<1>6. /\ trim \in Seq(CachesTo(n))
      /\ trim # <<>> =>
           \E cut \in 1..Len(merged) :
             /\ merged[cut] = Sep
             /\ Last(trim) =
                  LET tail == SubSeq(merged, cut + 1, Len(merged))
                  IN IF Len(merged) <= cut THEN [bin |-> tail, seq |-> 0, bytes |-> 0]
                     ELSE [bin |-> tail, seq |-> q, bytes |-> Len(merged) - cut]
  <2>1. whole.bin = merged /\ whole.seq = q /\ whole.bytes = Len(merged)
    OBVIOUS
  <2> HIDE DEF whole
  <2> QED
    BY <1>4, <2>1, TrimEnds
<1> HIDE DEF first, trim
<1>7. first \o trim \in Seq(CachesTo(n)) /\ first \o trim # <<>>
      /\ Last(first \o trim) = IF trim = <<>> THEN whole ELSE Last(trim)
  BY <1>5, <1>6, ConcatProperties, LastOfConcat
<1> QED
  BY <1>3, <1>6, <1>7 DEF merged

-----------------------------------------------------------------------------
(* What a cache holds, and how a commit and a replacement keep it.         *)

(* The bin holds the stream up to the cursor and ends in a chunk; its      *)
(* count is absent or complete.                                            *)
StreamIn(d) ==
  /\ d.bytes \in {0, Len(d.bin)}
  /\ Contiguous(Chunks(d.bin))
  /\ d.seq > 0 => Chunks(d.bin) # <<>> /\ Last(Chunks(d.bin)) = d.seq
  /\ d.bin # <<>> => Last(d.bin) # Sep

LEMMA StreamNat == ASSUME NEW s \in Seq(Stream) PROVE s \in Seq(Nat)
BY BoundsAssumption, SeqMonotonic DEF Stream

LEMMA CountsUp ==
  ASSUME NEW s \in Nat, NEW cs \in Seq(Stream), \A i \in 1..Len(cs) : cs[i] = s + i
  PROVE  Contiguous(cs)
<1> SUFFICES ASSUME NEW i \in 1..(Len(cs) - 1) PROVE cs[i + 1] = cs[i] + 1
  BY DEF Contiguous
<1>1. Len(cs) \in Nat
  BY EmptySeq
<1>2. i \in 1..Len(cs) /\ i + 1 \in 1..Len(cs)
  BY <1>1
<1>3. cs[i] = s + i /\ cs[i + 1] = s + (i + 1)
  BY <1>2
<1> QED
  BY <1>1, <1>3

(* A delta that starts after the cursor continues what the cache holds.    *)
LEMMA CommitContinues ==
  ASSUME NEW n \in Nat, NEW d \in CachesTo(n), NEW cs \in Seq(Stream), NEW q \in 0..n,
         StreamIn(d), \A i \in 1..Len(cs) : cs[i] = d.seq + i,
         d.seq = 0 => d.bin = <<>>, q = d.seq + Len(cs)
  PROVE  LET kept == Last(CommitDelta(d, cs, q))
         IN StreamIn(kept) /\ kept.seq = q /\ (q = 0 => kept.bin = <<>>)
<1> DEFINE merged == d.bin \o Pack(cs)
           kept == Last(CommitDelta(d, cs, q))
           held == Chunks(d.bin)
           all == Chunks(merged)
<1>1. d.bin \in Seq(Bytes) /\ d.seq \in 0..n
  BY DEF CachesTo
<1>2. /\ Pack(cs) \in Seq(Bytes) /\ Chunks(Pack(cs)) = cs
      /\ cs = <<>> => Pack(cs) = <<>>
      /\ cs # <<>> => Pack(cs) # <<>> /\ Last(Pack(cs)) # Sep
  BY PackBytes
<1>3. merged \in Seq(Bytes) /\ all = held \o cs /\ Len(merged) \in Nat
  <2>1. merged \in Seq(Bytes)
    BY <1>1, <1>2, ConcatProperties
  <2>2. all = held \o Chunks(Pack(cs))
    BY <1>1, <1>2, ChunksConcat
  <2> QED
    BY <1>2, <2>1, <2>2
<1>4. held \in Seq(Stream) /\ held \in Seq(Nat) /\ cs \in Seq(Nat) /\ all \in Seq(Stream)
  BY <1>1, <1>3, ChunksStream, StreamNat
<1>5. Len(cs) \in Nat /\ (cs # <<>> => Len(cs) > 0 /\ cs[1] = d.seq + 1 /\ Last(cs) = q)
  BY EmptySeq DEF Last
<1>6. held # <<>> => d.seq > 0 /\ Last(held) = d.seq
  BY <1>1, ChunksEmpty DEF StreamIn
<1>7. merged # <<>> => Last(merged) # Sep
  <2>1. CASE cs = <<>>
    BY <1>1, <1>2, <2>1, ConcatEmptySeq DEF StreamIn
  <2>2. CASE cs # <<>>
    BY <1>1, <1>2, <2>2, LastOfConcat
  <2> QED
    BY <2>1, <2>2
<1>8. q = 0 => merged = <<>>
  BY <1>1, <1>2, <1>5, ConcatEmptySeq, EmptySeq
<1>9. CommitDelta(d, cs, q) # <<>>
      /\ \/ kept = [bin |-> merged, seq |-> q, bytes |-> Len(merged)]
         \/ \E cut \in 1..Len(merged) :
              /\ merged[cut] = Sep
              /\ kept = LET tail == SubSeq(merged, cut + 1, Len(merged))
                        IN IF Len(merged) <= cut THEN [bin |-> tail, seq |-> 0, bytes |-> 0]
                           ELSE [bin |-> tail, seq |-> q, bytes |-> Len(merged) - cut]
  BY CommitEnds
<1> HIDE DEF merged, held, kept
<1>10. Contiguous(all)
  <2>1. Contiguous(cs)
    <3>1. d.seq \in Nat
      BY <1>1
    <3>2. \A i \in 1..Len(cs) : cs[i] = d.seq + i
      OBVIOUS
    <3> QED
      BY <3>1, <3>2, CountsUp
  <2>2. Contiguous(held)
    BY DEF StreamIn, held
  <2> QED
    BY <1>3, <1>4, <1>5, <1>6, <2>1, <2>2, ContiguousConcat
<1>11. q > 0 => all # <<>> /\ Last(all) = q
  <2>1. CASE cs = <<>>
    <3>1. q = d.seq /\ all = held
      BY <1>1, <1>3, <1>4, <2>1, ConcatEmptySeq
    <3> QED
      BY <3>1 DEF StreamIn, held
  <2>2. CASE cs # <<>>
    BY <1>3, <1>4, <1>5, <2>2, LastOfConcat
  <2> QED
    BY <2>1, <2>2
<1>12. CASE kept = [bin |-> merged, seq |-> q, bytes |-> Len(merged)]
  <2>1. kept.bin = merged /\ kept.seq = q /\ kept.bytes = Len(merged)
    BY <1>12
  <2> QED
    BY <2>1, <1>7, <1>8, <1>10, <1>11 DEF StreamIn, kept
<1>13. ASSUME NEW cut \in 1..Len(merged), merged[cut] = Sep,
              kept = LET tail == SubSeq(merged, cut + 1, Len(merged))
                     IN IF Len(merged) <= cut THEN [bin |-> tail, seq |-> 0, bytes |-> 0]
                        ELSE [bin |-> tail, seq |-> q, bytes |-> Len(merged) - cut]
       PROVE  StreamIn(kept) /\ kept.seq = q /\ (q = 0 => kept.bin = <<>>)
  <2> DEFINE tail == SubSeq(merged, cut + 1, Len(merged))
             front == Chunks(SubSeq(merged, 1, cut))
  <2>1. merged # <<>> /\ Last(merged) = merged[Len(merged)]
    BY <1>3 DEF Last
  <2>2. cut < Len(merged)
    BY <1>3, <1>7, <1>13, <2>1
  <2>3. /\ tail \in Seq(Bytes) /\ Len(tail) = Len(merged) - cut
        /\ all = front \o Chunks(tail) /\ Last(tail) = Last(merged)
    BY <1>3, <2>2, ChunksCut
  <2>4. SubSeq(merged, 1, cut) \in Seq(Bytes)
    BY <1>3, <2>2
  <2>5. front \in Seq(Stream) /\ front \in Seq(Nat)
    BY <2>4, ChunksStream, StreamNat
  <2>6. kept.bin = tail /\ kept.seq = q /\ kept.bytes = Len(tail)
    BY <1>3, <1>13, <2>2, <2>3
  <2> HIDE DEF tail, front
  <2>7. tail # <<>> /\ Last(tail) # Sep
    BY <1>3, <1>7, <2>1, <2>2, <2>3, EmptySeq
  <2>8. Chunks(tail) \in Seq(Stream) /\ Chunks(tail) \in Seq(Nat)
    BY <2>3, ChunksStream, StreamNat
  <2>9. Chunks(tail) # <<>>
    BY <2>3, <2>7, ChunksLast
  <2>10. Contiguous(Chunks(tail))
    BY <1>10, <2>3, <2>5, <2>8, ContiguousConcat
  <2>11. Last(Chunks(tail)) = Last(all)
    BY <2>3, <2>5, <2>8, <2>9, LastOfConcat
  <2>12. q > 0
    BY <1>8, <2>1
  <2> QED
    BY <1>11, <2>6, <2>7, <2>9, <2>10, <2>11, <2>12 DEF StreamIn
<1> QED
  BY <1>9, <1>12, <1>13 DEF kept

(* A contiguous replay replaces it, an empty one clears it.                *)
LEMMA ReplaceHolds ==
  ASSUME NEW cs \in Seq(Stream), Contiguous(cs), cs # <<>>
  PROVE  StreamIn([bin |-> Pack(cs), seq |-> 0, bytes |-> 0])
BY PackBytes DEF StreamIn

LEMMA EmptyHolds == StreamIn(EmptyCache)
BY ChunksEmpty DEF StreamIn, EmptyCache, Contiguous

LEMMA MaxOfTwo ==
  ASSUME NEW a \in Int, NEW b \in Int
  PROVE  Max({a, b}) = IF a >= b THEN a ELSE b
BY DEF Max

(* The oldest chunk that the worker retains, and the items of an answer.   *)
LEMMA OldestIs ==
  ASSUME last \in 0..MaxOut
  PROVE  /\ Oldest \in Nat \ {0} /\ Oldest <= last + 1 /\ (last > 0 => Oldest <= last)
         /\ Oldest > 1 <=> last > Retain
         /\ Oldest > 1 => Oldest = last - Retain + 1
<1>1. last \in Nat /\ Retain \in Nat \ {0} /\ last - Retain + 1 \in Int
  BY SizesAssumption, BoundsAssumption
<1>2. Oldest = IF 1 >= last - Retain + 1 THEN 1 ELSE last - Retain + 1
  BY <1>1, MaxOfTwo DEF Oldest
<1> QED
  BY <1>1, <1>2

LEMMA UpwardIs ==
  ASSUME NEW a \in Nat \ {0}, NEW b \in 0..MaxOut, a <= b + 1
  PROVE  /\ Upward(a, b) \in Seq(Stream) /\ Len(Upward(a, b)) = b + 1 - a
         /\ \A i \in 1..(b + 1 - a) : Upward(a, b)[i] = a + i - 1
<1>1. b \in Nat /\ b <= MaxOut /\ MaxOut \in Nat /\ b + 1 - a \in Nat
  BY BoundsAssumption
<1>2. \A i \in 1..(b + 1 - a) : a + i - 1 \in Stream
  BY <1>1 DEF Stream
<1>3. Upward(a, b) = [i \in 1..(b + 1 - a) |-> a + i - 1]
  BY DEF Upward
<1>4. Upward(a, b) \in Seq(Stream)
  BY <1>1, <1>2, <1>3, IsASeq
<1> QED
  BY <1>1, <1>3, <1>4

-----------------------------------------------------------------------------
(* The frames on their way.  Base is the chunk up to which the page has    *)
(* the stream when the frame arrives, UptoIn the same for what is on the   *)
(* way.                                                                    *)

(* The frames by their place in an answer.                                 *)
Starts == {"replaying", "replayDeltaStart"}
Ends == {"replayCompleted", "replayDeltaCompleted"}
Carriers == {"output", "replay", "replayDelta"}
FrameSet == [kind : Kinds, n : 0..MaxOut]

Base(f) == IF f.kind \in Starts THEN 0 ELSE IF f.kind \in Ends THEN f.n ELSE f.n - 1
UptoIn(fs, top) == IF fs = <<>> THEN top ELSE Base(Head(fs))

(* The frames that may follow one of kind k.                               *)
After(k) ==
  IF k \in {"replaying", "replay"} THEN {"replay", "replayCompleted"}
  ELSE IF k \in {"replayDeltaStart", "replayDelta"} THEN {"replayDelta", "replayDeltaCompleted"}
  ELSE {"output"}

(* Each frame takes up where the one before it ended, the first chunk of a *)
(* delta where the request's cursor s points.                              *)
Follows(f, g, s) ==
  /\ g.kind \in After(f.kind)
  /\ f.kind \notin Starts => Base(g) = f.n
  /\ f.kind = "replayDeltaStart" => Base(g) = s

(* What is on the way to the page leads up to the last chunk printed.      *)
InOrder(fs, top, s) ==
  /\ \A i \in 1..Len(fs) : /\ fs[i].kind \in Carriers => fs[i].n >= 1
                           /\ fs[i].n <= top
  /\ \A i \in 1..(Len(fs) - 1) : Follows(fs[i], fs[i + 1], s)
  /\ fs # <<>> => Last(fs).kind \in Ends \cup {"output"} /\ Last(fs).n = top

(* The first frame, and what remains when it has arrived.                  *)
LEMMA HeadInOrder ==
  ASSUME NEW top \in 0..MaxOut, NEW s \in Nat, NEW fs \in Seq(FrameSet),
         InOrder(fs, top, s), fs # <<>>
  PROVE  LET f == Head(fs)
         IN /\ f \in FrameSet /\ f = fs[1] /\ f.n <= top /\ f.n \in Nat /\ f.kind \in Kinds
            /\ f.kind \in Carriers => f.n >= 1 /\ UptoIn(fs, top) = f.n - 1
            /\ f.kind \in Ends => UptoIn(fs, top) = f.n
            /\ f.kind \in Starts => UptoIn(fs, top) = 0
<1>1. Head(fs) = fs[1] /\ 1 \in 1..Len(fs) /\ fs[1] \in FrameSet
  BY EmptySeq
<1>2. fs[1].n <= top /\ (fs[1].kind \in Carriers => fs[1].n >= 1)
  BY <1>1 DEF InOrder
<1>3. fs[1].n \in Nat /\ fs[1].kind \in Kinds
  BY <1>1, BoundsAssumption DEF FrameSet
<1> QED
  BY <1>1, <1>2, <1>3 DEF UptoIn, Base, Carriers, Ends, Starts

LEMMA UptoBound ==
  ASSUME NEW top \in 0..MaxOut, NEW s \in Nat, NEW fs \in Seq(FrameSet), InOrder(fs, top, s)
  PROVE  UptoIn(fs, top) \in 0..top
<1>1. CASE fs = <<>>
  BY <1>1, BoundsAssumption DEF UptoIn
<1>2. CASE fs # <<>>
  BY <1>2, HeadInOrder, BoundsAssumption DEF Kinds, Carriers, Ends, Starts
<1> QED
  BY <1>1, <1>2

LEMMA TailInOrder ==
  ASSUME NEW top \in 0..MaxOut, NEW s \in 0..top, NEW fs \in Seq(FrameSet),
         InOrder(fs, top, s), fs # <<>>
  PROVE  LET f == Head(fs)
             gs == Tail(fs)
         IN /\ gs \in Seq(FrameSet) /\ InOrder(gs, top, s)
            /\ Len(gs) = Len(fs) - 1
            /\ f.kind \notin Starts => UptoIn(gs, top) = f.n
            /\ f.kind = "replayDeltaStart" => UptoIn(gs, top) = s
            /\ f.kind \notin Ends \cup {"output"} => gs # <<>>
            /\ gs # <<>> => Head(gs) = fs[2] /\ Head(gs).kind \in After(f.kind)
            /\ UptoIn(fs, top) <= UptoIn(gs, top)
<1> DEFINE f == Head(fs)
           gs == Tail(fs)
<1>1. /\ gs \in Seq(FrameSet) /\ Len(gs) = Len(fs) - 1 /\ Len(fs) \in Nat \ {0}
      /\ \A i \in 1..Len(gs) : gs[i] = fs[i + 1]
  BY HeadTailProperties, EmptySeq
<1>2. f = fs[1]
  OBVIOUS
<1> HIDE DEF f, gs
<1>3. InOrder(gs, top, s)
  <2>1. ASSUME NEW i \in 1..Len(gs)
        PROVE  (gs[i].kind \in Carriers => gs[i].n >= 1) /\ gs[i].n <= top
    <3>1. i + 1 \in 1..Len(fs)
      BY <1>1
    <3> QED
      BY <1>1, <3>1 DEF InOrder
  <2>2. ASSUME NEW i \in 1..(Len(gs) - 1) PROVE Follows(gs[i], gs[i + 1], s)
    <3>1. i + 1 \in 1..(Len(fs) - 1) /\ i \in 1..Len(gs) /\ i + 1 \in 1..Len(gs)
      BY <1>1
    <3>2. Follows(fs[i + 1], fs[(i + 1) + 1], s)
      BY <3>1 DEF InOrder
    <3>3. gs[i] = fs[i + 1] /\ gs[i + 1] = fs[(i + 1) + 1]
      BY <1>1, <3>1
    <3> QED
      BY <3>2, <3>3
  <2>3. ASSUME gs # <<>> PROVE Last(gs) = Last(fs)
    <3>1. Len(gs) \in 1..Len(gs) /\ Len(gs) + 1 = Len(fs)
      BY <1>1, <2>3, EmptySeq
    <3> QED
      BY <1>1, <3>1 DEF Last
  <2> QED
    BY <2>1, <2>2, <2>3 DEF InOrder
<1>4. gs = <<>> => f = Last(fs)
  <2>1. gs = <<>> => Len(fs) = 1
    BY <1>1
  <2> QED
    BY <1>2, <2>1 DEF Last
<1>5. gs = <<>> => f.kind \in Ends \cup {"output"} /\ f.n = top /\ UptoIn(gs, top) = top
  BY <1>4 DEF InOrder, UptoIn
<1>6. ASSUME gs # <<>> PROVE Head(gs) = fs[2] /\ Follows(f, Head(gs), s) /\ UptoIn(gs, top) = Base(Head(gs))
  <2>1. 1 \in 1..Len(gs) /\ 1 \in 1..(Len(fs) - 1)
    BY <1>1, <1>6, EmptySeq
  <2>2. Head(gs) = gs[1] /\ gs[1] = fs[1 + 1]
    BY <1>1, <2>1
  <2>3. Follows(fs[1], fs[1 + 1], s)
    BY <2>1 DEF InOrder
  <2> QED
    BY <1>2, <1>6, <2>2, <2>3 DEF UptoIn
<1>7. /\ f.kind \notin Starts => UptoIn(gs, top) = f.n
      /\ f.kind = "replayDeltaStart" => UptoIn(gs, top) = s
      /\ f.kind \notin Ends \cup {"output"} => gs # <<>>
      /\ gs # <<>> => Head(gs) = fs[2] /\ Head(gs).kind \in After(f.kind)
  BY <1>5, <1>6 DEF Follows, Ends, Starts
<1>8. UptoIn(fs, top) <= UptoIn(gs, top)
  <2>1. UptoIn(gs, top) \in 0..top
    BY <1>1, <1>3, UptoBound
  <2>2. f \in FrameSet /\ f.n <= top /\ f.n \in Nat /\ f.kind \in Kinds
        /\ (f.kind \in Carriers => f.n >= 1 /\ UptoIn(fs, top) = f.n - 1)
        /\ (f.kind \in Ends => UptoIn(fs, top) = f.n)
        /\ (f.kind \in Starts => UptoIn(fs, top) = 0)
    BY HeadInOrder DEF f
  <2> QED
    BY <1>7, <2>1, <2>2 DEF Kinds, Carriers, Ends, Starts
<1> QED
  BY <1>1, <1>3, <1>7, <1>8 DEF f, gs

(* Live output goes after everything else.                                 *)
LEMMA AppendInOrder ==
  ASSUME NEW top \in 0..(MaxOut - 1), NEW s \in 0..top, NEW fs \in Seq(FrameSet),
         InOrder(fs, top, s)
  PROVE  LET gs == Append(fs, [kind |-> "output", n |-> top + 1])
         IN /\ gs \in Seq(FrameSet) /\ InOrder(gs, top + 1, s) /\ gs # <<>>
            /\ UptoIn(gs, top + 1) = UptoIn(fs, top)
            /\ fs # <<>> => Head(gs) = Head(fs)
            /\ fs = <<>> => Head(gs).kind = "output"
            /\ Len(gs) = Len(fs) + 1
            /\ \A i \in 1..Len(fs) : gs[i] = fs[i]
<1> DEFINE g == [kind |-> "output", n |-> top + 1]
           gs == Append(fs, g)
<1>1. g \in FrameSet /\ g.kind = "output" /\ g.n = top + 1 /\ Base(g) = top /\ top \in Nat
  BY BoundsAssumption DEF FrameSet, Kinds, Base, Starts, Ends
<1> HIDE DEF g
<1>2. /\ gs \in Seq(FrameSet) /\ Len(gs) = Len(fs) + 1 /\ gs # <<>> /\ gs[Len(fs) + 1] = g
      /\ \A i \in 1..Len(fs) : gs[i] = fs[i]
  BY <1>1, AppendProperties
<1>3. Head(gs) = IF fs = <<>> THEN g ELSE Head(fs)
  BY <1>1, HeadTailAppend
<1>4. Len(fs) \in Nat /\ (fs # <<>> => Len(fs) > 0)
  BY EmptySeq
<1> HIDE DEF gs
<1>5. InOrder(gs, top + 1, s)
  <2>1. ASSUME NEW i \in 1..Len(gs)
        PROVE  (gs[i].kind \in Carriers => gs[i].n >= 1) /\ gs[i].n <= top + 1
    <3>1. CASE i \in 1..Len(fs)
      <4>1. gs[i] = fs[i] /\ fs[i] \in FrameSet
        BY <1>2, <3>1
      <4>2. fs[i].n \in Nat /\ (fs[i].kind \in Carriers => fs[i].n >= 1) /\ fs[i].n <= top
        BY <3>1, <4>1, BoundsAssumption DEF InOrder, FrameSet
      <4> QED
        BY <1>1, <4>1, <4>2
    <3>2. CASE i = Len(fs) + 1
      BY <1>1, <1>2, <3>2
    <3> QED
      BY <1>2, <1>4, <3>1, <3>2
  <2>2. ASSUME NEW i \in 1..(Len(gs) - 1) PROVE Follows(gs[i], gs[i + 1], s)
    <3>1. CASE i + 1 \in 1..Len(fs)
      <4>1. i \in 1..Len(fs) /\ i \in 1..(Len(fs) - 1)
        BY <1>2, <1>4, <3>1
      <4>2. gs[i] = fs[i] /\ gs[i + 1] = fs[i + 1]
        BY <1>2, <3>1, <4>1
      <4> QED
        BY <4>1, <4>2 DEF InOrder
    <3>2. CASE i = Len(fs)
      <4>1. i \in 1..Len(fs) /\ fs # <<>>
        BY <1>2, <1>4, <3>2
      <4>2. gs[i] = Last(fs) /\ gs[i + 1] = g
        BY <1>2, <3>2, <4>1 DEF Last
      <4>3. Last(fs).kind \in Ends \cup {"output"} /\ Last(fs).n = top
        BY <4>1 DEF InOrder
      <4> QED
        BY <1>1, <4>2, <4>3 DEF Follows, After, Ends, Starts
    <3> QED
      BY <1>2, <1>4, <3>1, <3>2
  <2>3. Last(gs) = g
    BY <1>2 DEF Last
  <2> QED
    BY <1>1, <2>1, <2>2, <2>3 DEF InOrder
<1>6. UptoIn(gs, top + 1) = UptoIn(fs, top)
  BY <1>1, <1>2, <1>3 DEF UptoIn
<1> QED
  BY <1>1, <1>2, <1>3, <1>5, <1>6 DEF gs, g

(* An answer, frame by frame.                                              *)
LEMMA FramesAre ==
  ASSUME last \in 0..MaxOut, NEW cs \in Seq(Stream),
         NEW first \in Kinds, NEW kind \in Kinds, NEW end \in Kinds
  PROVE  LET fs == Frames(first, kind, cs, end)
         IN /\ fs \in Seq(FrameSet) /\ Len(fs) = Len(cs) + 2
            /\ fs[1] = [kind |-> first, n |-> 0]
            /\ \A i \in 1..Len(cs) : fs[i + 1] = [kind |-> kind, n |-> cs[i]]
            /\ fs[Len(cs) + 2] = [kind |-> end, n |-> last]
<1> DEFINE a == [kind |-> first, n |-> 0]
           b == [i \in DOMAIN cs |-> [kind |-> kind, n |-> cs[i]]]
           c == [kind |-> end, n |-> last]
           fs == Frames(first, kind, cs, end)
<1>1. a \in FrameSet /\ c \in FrameSet
  BY BoundsAssumption DEF FrameSet
<1>2. Len(cs) \in Nat /\ DOMAIN cs = 1..Len(cs) /\ \A i \in 1..Len(cs) : cs[i] \in Stream
  BY LenProperties
<1>3. \A i \in 1..Len(cs) : [kind |-> kind, n |-> cs[i]] \in FrameSet
  BY <1>2, BoundsAssumption DEF FrameSet, Stream
<1>4. b = [i \in 1..Len(cs) |-> [kind |-> kind, n |-> cs[i]]]
  BY <1>2
<1> HIDE DEF b
<1>5. b \in Seq(FrameSet)
  BY <1>2, <1>3, <1>4, IsASeq
<1>6. Len(b) = Len(cs) /\ \A i \in 1..Len(cs) : b[i] = [kind |-> kind, n |-> cs[i]]
  BY <1>2, <1>4
<1>7. fs = <<a>> \o b \o <<c>>
  BY DEF Frames, b
<1> HIDE DEF a, c, fs
<1>8. <<a>> \in Seq(FrameSet) /\ <<c>> \in Seq(FrameSet) /\ Len(<<a>>) = 1 /\ Len(<<c>>) = 1
      /\ <<a>>[1] = a /\ <<c>>[1] = c
  BY <1>1
<1> DEFINE ab == <<a>> \o b
<1>9. ab \in Seq(FrameSet) /\ Len(ab) = 1 + Len(cs) /\ ab[1] = a
      /\ \A i \in 1..Len(cs) : ab[i + 1] = b[i]
  <2>1. ab \in Seq(FrameSet) /\ Len(ab) = 1 + Len(cs)
        /\ \A i \in 1..(1 + Len(cs)) : ab[i] = IF i <= 1 THEN <<a>>[i] ELSE b[i - 1]
    BY <1>5, <1>6, <1>8, ConcatProperties
  <2>2. \A i \in 1..Len(cs) : i + 1 \in 1..(1 + Len(cs)) /\ ~(i + 1 <= 1) /\ (i + 1) - 1 = i
    BY <1>2
  <2> HIDE DEF ab
  <2> QED
    BY <1>2, <1>8, <2>1, <2>2
<1> HIDE DEF ab
<1>10. /\ fs \in Seq(FrameSet) /\ Len(fs) = Len(cs) + 2
       /\ \A i \in 1..(Len(cs) + 2) : fs[i] = IF i <= 1 + Len(cs) THEN ab[i] ELSE <<c>>[i - (1 + Len(cs))]
  BY <1>2, <1>7, <1>8, <1>9, ConcatProperties DEF ab
<1>11. fs[1] = a /\ fs[Len(cs) + 2] = c
  <2>1. 1 \in 1..(Len(cs) + 2) /\ 1 <= 1 + Len(cs) /\ Len(cs) + 2 \in 1..(Len(cs) + 2)
        /\ ~(Len(cs) + 2 <= 1 + Len(cs)) /\ (Len(cs) + 2) - (1 + Len(cs)) = 1
    BY <1>2
  <2> QED
    BY <1>8, <1>9, <1>10, <2>1
<1>12. \A i \in 1..Len(cs) : fs[i + 1] = b[i]
  <2>1. \A i \in 1..Len(cs) : i + 1 \in 1..(Len(cs) + 2) /\ i + 1 <= 1 + Len(cs)
    BY <1>2
  <2> QED
    BY <1>9, <1>10, <2>1
<1> QED
  BY <1>6, <1>10, <1>11, <1>12 DEF a, c, fs

LEMMA FramesInOrder ==
  ASSUME last \in 0..MaxOut, NEW s \in 0..last, NEW cs \in Seq(Stream),
         NEW first \in Kinds, NEW kind \in Kinds, NEW end \in Kinds,
         \/ first = "replaying" /\ kind = "replay" /\ end = "replayCompleted"
         \/ /\ first = "replayDeltaStart" /\ kind = "replayDelta" /\ end = "replayDeltaCompleted"
            /\ IF cs = <<>> THEN last = s ELSE cs[1] = s + 1,
         \A i \in 1..Len(cs) : cs[i] = last - Len(cs) + i
  PROVE  LET fs == Frames(first, kind, cs, end)
         IN InOrder(fs, last, s)
<1> DEFINE fs == Frames(first, kind, cs, end)
<1>1. /\ fs \in Seq(FrameSet) /\ Len(fs) = Len(cs) + 2
      /\ fs[1] = [kind |-> first, n |-> 0]
      /\ \A i \in 1..Len(cs) : fs[i + 1] = [kind |-> kind, n |-> cs[i]]
      /\ fs[Len(cs) + 2] = [kind |-> end, n |-> last]
  BY FramesAre
<1> HIDE DEF fs
<1>2. Len(cs) \in Nat /\ (cs = <<>> <=> Len(cs) = 0) /\ last \in Nat
      /\ \A i \in 1..Len(cs) : cs[i] \in Stream /\ cs[i] \in Nat /\ cs[i] >= 1 /\ cs[i] <= last
  <2>1. Len(cs) \in Nat /\ last \in Nat /\ (cs = <<>> <=> Len(cs) = 0)
    BY EmptySeq, BoundsAssumption
  <2>2. ASSUME NEW i \in 1..Len(cs) PROVE cs[i] \in Stream /\ cs[i] \in Nat /\ cs[i] >= 1 /\ cs[i] <= last
    <3>1. cs[i] \in Stream /\ cs[i] = last - Len(cs) + i
      BY <2>1
    <3> QED
      BY <2>1, <3>1, BoundsAssumption DEF Stream
  <2> QED
    BY <2>1, <2>2
<1>3. ASSUME NEW i \in 1..Len(fs)
      PROVE  (fs[i].kind \in Carriers => fs[i].n >= 1) /\ fs[i].n <= last
  <2>1. CASE i = 1
    BY <1>1, <1>2, <2>1 DEF Carriers
  <2>2. CASE i = Len(cs) + 2
    BY <1>1, <1>2, <2>2 DEF Carriers
  <2>3. CASE i # 1 /\ i # Len(cs) + 2
    <3>1. i - 1 \in 1..Len(cs) /\ (i - 1) + 1 = i
      BY <1>1, <1>2, <2>3
    <3>2. fs[i] = [kind |-> kind, n |-> cs[i - 1]]
      BY <1>1, <3>1
    <3> QED
      BY <1>2, <3>1, <3>2
  <2> QED
    BY <2>1, <2>2, <2>3
<1>4. ASSUME NEW i \in 1..(Len(fs) - 1) PROVE Follows(fs[i], fs[i + 1], s)
  <2>1. CASE i = 1 /\ Len(cs) = 0
    <3>1. fs[i] = [kind |-> first, n |-> 0] /\ fs[i + 1] = [kind |-> end, n |-> last]
      BY <1>1, <2>1
    <3> QED
      BY <1>2, <2>1, <3>1 DEF Follows, After, Base, Starts, Ends
  <2>2. CASE i = 1 /\ Len(cs) # 0
    <3>1. 1 \in 1..Len(cs)
      BY <1>2, <2>2
    <3>2. fs[i] = [kind |-> first, n |-> 0] /\ fs[i + 1] = [kind |-> kind, n |-> cs[1]]
      BY <1>1, <2>2, <3>1
    <3> QED
      BY <1>2, <2>2, <3>1, <3>2 DEF Follows, After, Base, Starts, Ends
  <2>3. CASE i > 1 /\ i < Len(fs) - 1
    <3>1. i - 1 \in 1..Len(cs) /\ i \in 1..Len(cs) /\ (i - 1) + 1 = i
      BY <1>1, <1>2, <2>3
    <3>2. fs[i] = [kind |-> kind, n |-> cs[i - 1]] /\ fs[i + 1] = [kind |-> kind, n |-> cs[i]]
      BY <1>1, <3>1
    <3>3. cs[i] - 1 = cs[i - 1]
      BY <1>2, <3>1
    <3> QED
      BY <3>2, <3>3 DEF Follows, After, Base, Starts, Ends
  <2>4. CASE i > 1 /\ i = Len(fs) - 1
    <3>1. i - 1 \in 1..Len(cs) /\ i - 1 = Len(cs) /\ (i - 1) + 1 = i /\ i + 1 = Len(cs) + 2
      BY <1>1, <1>2, <2>4
    <3>2. fs[i] = [kind |-> kind, n |-> cs[i - 1]] /\ fs[i + 1] = [kind |-> end, n |-> last]
      BY <1>1, <3>1
    <3>3. cs[i - 1] = last
      BY <1>2, <3>1
    <3> QED
      BY <3>2, <3>3 DEF Follows, After, Base, Starts, Ends
  <2> QED
    BY <1>1, <1>2, <2>1, <2>2, <2>3, <2>4
<1>5. Last(fs) = [kind |-> end, n |-> last]
  BY <1>1 DEF Last
<1> QED
  BY <1>3, <1>4, <1>5 DEF InOrder, Ends, fs

-----------------------------------------------------------------------------
(* The first part of the inductive invariant, which no kill, failed        *)
(* request or stale cursor disturbs.                                       *)

(* The chunk up to which the page has been given the stream when the next  *)
(* frame arrives, or the last one if none is on the way.                   *)
Upto == UptoIn(down, last)

Pages ==
  [open : BOOLEAN, ready : BOOLEAN, fit : BOOLEAN, since : 0..MaxOut,
   replaying : BOOLEAN, swap : BOOLEAN, batches : Seq(Stream), parts : Seq(Stream),
   scheduled : BOOLEAN, timers : Nat, screen : Seq(Stream), fed : BOOLEAN, sound : BOOLEAN]

Shapes ==
  /\ last \in 0..MaxOut
  /\ down \in Seq(FrameSet)
  /\ link \in BOOLEAN
  /\ page \in Pages
  /\ disk \in CachesTo(last)
  /\ clean \in BOOLEAN
  /\ used \in [pages : Nat, links : 0..MaxLinks, fails : Nat, kills : Nat]

(* Frames are only on the way to a connected page, in order, and a page's  *)
(* cursor is of a chunk that was printed.                                  *)
Wire ==
  /\ ~link => down = <<>>
  /\ ~page.open => page = Closed /\ ~link
  /\ InOrder(down, last, page.since)
  /\ page.since <= last

(* Each chunk that has arrived over a connection has started one timer at  *)
(* most.                                                                   *)
Timed ==
  /\ page.scheduled => page.timers > 0
  /\ page.timers <= IF link THEN MaxOut * (used.links - 1) + Upto ELSE MaxOut * used.links
  /\ link => used.links >= 1

(* A page that no frame has reached is idle, and an answer comes first.    *)
Unfed ==
  /\ page.fit => page.ready
  /\ ~page.fed => /\ page.timers = 0 /\ ~page.scheduled
                  /\ page.batches = <<>> /\ page.parts = <<>>
                  /\ ~page.replaying /\ ~page.swap
                  /\ link => down # <<>> /\ Head(down).kind \in Starts

Ground == Shapes /\ Wire /\ Timed /\ Unfed

(* The parts of a page after each operation on it.                         *)
LEMMA ClosedIs ==
  /\ Closed \in Pages
  /\ ~Closed.open /\ ~Closed.ready /\ ~Closed.fit /\ Closed.since = 0
  /\ ~Closed.replaying /\ ~Closed.swap /\ Closed.batches = <<>> /\ Closed.parts = <<>>
  /\ ~Closed.scheduled /\ Closed.timers = 0 /\ Closed.screen = <<>>
  /\ ~Closed.fed /\ Closed.sound
<1>1. <<>> \in Seq(Stream) /\ 0 \in 0..MaxOut
  BY BoundsAssumption
<1> QED
  BY <1>1 DEF Closed, Pages

LEMMA FedIs ==
  ASSUME Shapes
  PROVE  /\ Fed \in Pages
         /\ Fed.open = page.open /\ Fed.ready = page.ready /\ Fed.fit = page.fit
         /\ Fed.since = page.since /\ Fed.replaying = page.replaying /\ Fed.swap = page.swap
         /\ Fed.batches = page.batches /\ Fed.parts = page.parts
         /\ Fed.scheduled = page.scheduled /\ Fed.timers = page.timers
         /\ Fed.screen = page.screen /\ Fed.fed = TRUE
         /\ Fed.sound = (page.sound /\ page.fit)
BY DEF Shapes, Pages, Fed

LEMMA PushPaintIs ==
  ASSUME NEW p \in Pages, NEW n \in Stream
  PROVE  LET q == PushPaint(p, n)
         IN /\ q \in Pages
            /\ q.open = p.open /\ q.ready = p.ready /\ q.fit = p.fit
            /\ q.since = p.since /\ q.replaying = p.replaying /\ q.swap = p.swap
            /\ q.batches = Append(p.batches, n) /\ q.parts = p.parts
            /\ q.screen = p.screen /\ q.fed = p.fed /\ q.sound = p.sound
            /\ q.timers \in {p.timers, p.timers + 1}
            /\ (p.scheduled => p.timers > 0) => (q.scheduled => q.timers > 0)
<1> DEFINE bs == Append(p.batches, n)
           ts == IF p.ready /\ ~p.scheduled THEN p.timers + 1 ELSE p.timers
           on == p.scheduled \/ p.ready
<1>1. bs \in Seq(Stream) /\ ts \in Nat /\ on \in BOOLEAN
  BY DEF Pages
<1>2. ts \in {p.timers, p.timers + 1} /\ ((p.scheduled => p.timers > 0) => (on => ts > 0))
  BY DEF Pages
<1>3. PushPaint(p, n) = [p EXCEPT !.batches = bs, !.timers = ts, !.scheduled = on]
  BY DEF PushPaint
<1> HIDE DEF bs, ts, on
<1> DEFINE q == PushPaint(p, n)
<1>4. q \in Pages /\ q.batches = bs /\ q.timers = ts /\ q.scheduled = on
  BY <1>1, <1>3 DEF Pages
<1>5. /\ q.open = p.open /\ q.ready = p.ready /\ q.fit = p.fit
      /\ q.since = p.since /\ q.replaying = p.replaying /\ q.swap = p.swap
      /\ q.parts = p.parts /\ q.screen = p.screen /\ q.fed = p.fed /\ q.sound = p.sound
  BY <1>3 DEF Pages
<1> HIDE DEF q
<1> QED
  BY <1>2, <1>4, <1>5 DEF bs, q

LEMMA FlushBatchIs ==
  ASSUME NEW p \in Pages
  PROVE  LET q == FlushBatch(p)
         IN /\ q \in Pages
            /\ q.open = p.open /\ q.ready = p.ready /\ q.fit = p.fit
            /\ q.since = p.since /\ q.replaying = p.replaying /\ q.swap = p.swap
            /\ q.batches = <<>> /\ q.parts = p.parts
            /\ q.scheduled = FALSE /\ q.timers = p.timers
            /\ q.screen = p.screen \o p.batches /\ q.fed = p.fed /\ q.sound = p.sound
<1>1. <<>> \in Seq(Stream) /\ p.screen \o p.batches \in Seq(Stream)
  BY ConcatProperties DEF Pages
<1> QED
  BY <1>1 DEF FlushBatch, Pages

LEMMA SettleIs ==
  ASSUME NEW p \in Pages
  PROVE  LET q == Settle(p)
         IN /\ q \in Pages
            /\ q.open = p.open /\ q.ready = p.ready /\ q.fit = p.fit
            /\ q.since = p.since /\ q.replaying = p.replaying /\ q.parts = p.parts
            /\ q.timers = p.timers /\ q.fed = p.fed /\ q.sound = p.sound
            /\ q.scheduled => p.scheduled
            /\ ~Settles(p) => q = p
            /\ Settles(p) => q.batches = <<>> /\ ~q.swap
            /\ Settles(p) /\ p.swap => q.screen = p.batches
            /\ Settles(p) /\ ~p.swap => q.screen = p.screen \o p.batches
<1>1. CASE ~Settles(p)
  BY <1>1 DEF Settle
<1>2. CASE Settles(p) /\ p.swap
  <2>1. Settle(p) = SwapReplayedScreen(p)
    BY <1>2 DEF Settle
  <2>2. <<>> \in Seq(Stream) /\ p.scheduled \in BOOLEAN
    BY DEF Pages
  <2> QED
    BY <1>2, <2>1, <2>2 DEF SwapReplayedScreen, Pages
<1>3. CASE Settles(p) /\ ~p.swap
  <2>1. Settle(p) = FlushBatch(p)
    BY <1>3 DEF Settle
  <2> DEFINE q == FlushBatch(p)
  <2>2. /\ q \in Pages
        /\ q.open = p.open /\ q.ready = p.ready /\ q.fit = p.fit
        /\ q.since = p.since /\ q.replaying = p.replaying /\ q.swap = p.swap
        /\ q.batches = <<>> /\ q.parts = p.parts
        /\ q.scheduled = FALSE /\ q.timers = p.timers
        /\ q.screen = p.screen \o p.batches /\ q.fed = p.fed /\ q.sound = p.sound
    BY FlushBatchIs
  <2> HIDE DEF q
  <2>3. ~q.swap /\ ~q.scheduled
    BY <1>3, <2>2
  <2> QED
    BY <1>3, <2>1, <2>2, <2>3 DEF q
<1> QED
  BY <1>1, <1>2, <1>3

(* What the swap of the screen leaves on disk.                             *)
LEMMA SwapWritesEnd ==
  ASSUME NEW n \in Nat, NEW d \in CachesTo(n), NEW p \in Pages
  PROVE  /\ SwapWrites(p, d) \in Seq(CachesTo(n))
         /\ ~(Settles(p) /\ p.swap) => SwapWrites(p, d) = <<>>
         /\ Settles(p) /\ p.swap => SwapWrites(p, d) # <<>>
         /\ Settles(p) /\ p.swap /\ p.batches = <<>> => Last(SwapWrites(p, d)) = EmptyCache
         /\ Settles(p) /\ p.swap /\ p.batches # <<>> =>
              Last(SwapWrites(p, d)) = [bin |-> Pack(p.batches), seq |-> 0, bytes |-> 0]
<1>1. CASE ~(Settles(p) /\ p.swap)
  BY <1>1, EmptySeq DEF SwapWrites
<1>2. CASE Settles(p) /\ p.swap /\ p.batches = <<>>
  <2>1. <<>> \in Seq(Bytes) /\ 0 \in 0..n
    OBVIOUS
  <2>2. Clear(d) \in Seq(CachesTo(n)) /\ Clear(d) # <<>> /\ Last(Clear(d)) = EmptyCache
    BY <2>1, WriteTypes
  <2> QED
    BY <1>2, <2>2 DEF SwapWrites
<1>3. CASE Settles(p) /\ p.swap /\ p.batches # <<>>
  <2>1. Pack(p.batches) \in Seq(Bytes)
    BY PackBytes DEF Pages
  <2> QED
    BY <1>3, <2>1, ReplaceEnds DEF SwapWrites
<1> QED
  BY <1>1, <1>2, <1>3

(* What remains when the process is killed.                                *)
LEMMA KilledKeeps ==
  ASSUME Ground, disk' \in CachesTo(last), page' = Closed, link' = FALSE, down' = <<>>,
         clean' = FALSE, last' = last, used' = [used EXCEPT !.kills = @ + 1]
  PROVE  Ground'
<1>1. Shapes'
  <2>1. used' \in [pages : Nat, links : 0..MaxLinks, fails : Nat, kills : Nat]
    BY DEF Ground, Shapes
  <2>2. down' \in Seq(FrameSet) /\ link' \in BOOLEAN /\ clean' \in BOOLEAN
    BY EmptySeq
  <2>3. page' \in Pages
    BY ClosedIs
  <2> QED
    BY <2>1, <2>2, <2>3 DEF Ground, Shapes
<1>2. InOrder(<<>>, last, 0)
  BY DEF InOrder
<1>3. Wire'
  BY <1>2, ClosedIs, BoundsAssumption DEF Ground, Shapes, Wire
<1>4. Timed' /\ Unfed'
  <2>1. used'.links = used.links /\ used.links \in Nat /\ MaxOut \in Nat
    BY BoundsAssumption DEF Ground, Shapes
  <2>2. MaxOut * used.links \in Nat
    BY <2>1
  <2> QED
    BY <2>1, <2>2, ClosedIs DEF Timed, Unfed
<1> QED
  BY <1>1, <1>3, <1>4 DEF Ground

(* How a handler ends: with its page and its writes, or killed between two *)
(* of them.                                                                *)
LEMMA HandledIs ==
  ASSUME Shapes, NEW p, NEW ws \in Seq(CachesTo(last)), Handled(p, ws)
  PROVE  \/ /\ page' = p /\ UNCHANGED <<link, clean, used>>
            /\ disk' = IF ws = <<>> THEN disk ELSE Last(ws)
            /\ disk' \in CachesTo(last)
         \/ /\ page' = Closed /\ link' = FALSE /\ clean' = FALSE
            /\ used' = [used EXCEPT !.kills = @ + 1] /\ disk' \in CachesTo(last)
<1>1. CASE page' = p /\ disk' = Last(<<disk>> \o ws) /\ UNCHANGED <<link, clean, used>>
  <2>1. <<disk>> \in Seq(CachesTo(last)) /\ disk \in CachesTo(last) /\ Last(<<disk>>) = disk
    BY DEF Shapes, Last
  <2>2. disk' = IF ws = <<>> THEN disk ELSE Last(ws)
    BY <1>1, <2>1, LastOfConcat
  <2>3. ws # <<>> => Last(ws) \in CachesTo(last)
    BY LastType
  <2> QED
    BY <1>1, <2>1, <2>2, <2>3
<1>2. CASE /\ \E i \in 1..(Len(ws) - 1) : disk' = ws[i]
           /\ page' = Closed /\ link' = FALSE /\ clean' = FALSE
           /\ used' = [used EXCEPT !.kills = @ + 1]
  <2>1. \A i \in 1..(Len(ws) - 1) : ws[i] \in CachesTo(last)
    OBVIOUS
  <2> QED
    BY <1>2, <2>1
<1> QED
  BY <1>1, <1>2 DEF Handled

(* A frame is handled: the first three parts of the invariant hold after   *)
(* it, and unless the process was killed this is what has happened.        *)
Taken(p, ws) ==
  /\ page' = p /\ UNCHANGED <<last, link, clean, used>> /\ down' = Tail(down)
  /\ disk' = IF ws = <<>> THEN disk ELSE Last(ws)

LEMMA FrameKeeps ==
  ASSUME Ground, link, down # <<>>, NEW p \in Pages, NEW ws \in Seq(CachesTo(last)),
         p.open = page.open, p.since = page.since, p.fed = TRUE, p.fit => p.ready,
         p.scheduled => p.timers > 0,
         p.timers <= page.timers + (IF Head(down).kind \in Carriers THEN 1 ELSE 0),
         Receive(p, ws)
  PROVE  Ground' /\ (clean' => clean /\ Taken(p, ws))
<1>1. page.open /\ Shapes /\ last' = last /\ last \in 0..MaxOut /\ last \in Nat
  BY BoundsAssumption DEF Ground, Wire, Receive, Shapes
<1>2. CASE page' = Closed /\ link' = FALSE /\ clean' = FALSE
           /\ used' = [used EXCEPT !.kills = @ + 1] /\ disk' \in CachesTo(last)
  <2>1. down' = <<>>
    BY <1>2, ClosedIs DEF Receive
  <2> QED
    BY <1>1, <1>2, <2>1, KilledKeeps
<1>3. CASE page' = p /\ UNCHANGED <<link, clean, used>> /\ disk' \in CachesTo(last)
           /\ disk' = IF ws = <<>> THEN disk ELSE Last(ws)
  <2>1. down' = Tail(down)
    BY <1>1, <1>3 DEF Receive
  <2>2. down \in Seq(FrameSet) /\ page.since \in 0..last /\ InOrder(down, last, page.since)
        /\ page.since \in Nat
    BY BoundsAssumption DEF Ground, Shapes, Wire, Pages
  <2>3. /\ Tail(down) \in Seq(FrameSet) /\ InOrder(Tail(down), last, page.since)
        /\ Upto <= UptoIn(Tail(down), last)
        /\ Head(down).kind \notin Starts => UptoIn(Tail(down), last) = Head(down).n
    BY <1>1, <2>2, TailInOrder DEF Upto
  <2>4. Upto' = UptoIn(Tail(down), last)
    BY <1>1, <2>1 DEF Upto
  <2>5. Upto \in Nat /\ Upto' \in Nat /\ MaxOut \in Nat /\ used.links \in Nat
    <3>1. UptoIn(down, last) \in 0..last
      BY <1>1, <2>2, UptoBound
    <3>2. UptoIn(Tail(down), last) \in 0..last
      BY <1>1, <2>2, <2>3, UptoBound
    <3> QED
      BY <1>1, <2>4, <3>1, <3>2, BoundsAssumption DEF Upto, Ground, Shapes
  <2>6. Head(down).kind \in Carriers => Upto' = Upto + 1
    <3>1. Head(down).n \in Nat /\ (Head(down).kind \in Carriers => Upto = Head(down).n - 1)
      BY <1>1, <2>2, HeadInOrder DEF Upto
    <3> QED
      BY <2>3, <2>4, <3>1 DEF Carriers, Starts
  <2>7. Shapes'
    BY <1>1, <1>3, <2>1, <2>3 DEF Shapes
  <2>8. Wire'
    <3>1. page'.open /\ page'.since = page.since /\ link'
      BY <1>1, <1>3
    <3>2. InOrder(down', last', page'.since)
      BY <1>1, <2>1, <2>3, <3>1
    <3>3. page'.since <= last'
      BY <1>1, <3>1 DEF Ground, Wire
    <3> QED
      BY <3>1, <3>2, <3>3 DEF Wire
  <2>9. Timed'
    <3>1. page.timers <= MaxOut * (used.links - 1) + Upto /\ used.links >= 1
      BY DEF Ground, Timed
    <3> DEFINE room == MaxOut * (used.links - 1)
    <3>2. room \in Nat
      <4>1. used.links - 1 \in Nat
        BY <2>5, <3>1
      <4> QED
        BY <2>5, <4>1
    <3>3. page.timers \in Nat /\ p.timers \in Nat
      BY DEF Ground, Shapes, Pages
    <3> HIDE DEF room
    <3>4. page.timers <= room + Upto
      BY <3>1 DEF room
    <3>5. p.timers <= room + Upto'
      <4>1. CASE Head(down).kind \in Carriers
        BY <2>5, <2>6, <3>2, <3>3, <3>4, <4>1
      <4>2. CASE Head(down).kind \notin Carriers
        BY <2>3, <2>4, <2>5, <3>2, <3>3, <3>4, <4>2
      <4> QED
        BY <4>1, <4>2
    <3>6. p.timers <= MaxOut * (used.links - 1) + Upto'
      BY <3>5 DEF room
    <3> QED
      BY <1>3, <3>1, <3>6 DEF Timed
  <2>10. Unfed'
    BY <1>3 DEF Unfed
  <2> QED
    BY <1>1, <1>3, <2>1, <2>7, <2>8, <2>9, <2>10 DEF Ground, Taken
<1> QED
  BY <1>1, <1>2, <1>3, HandledIs DEF Receive

-----------------------------------------------------------------------------
(* The second part, which holds as long as clean does.                     *)

(* The cache; a bin without a cursor holds a full replay, so the shell has *)
(* printed more than is retained.                                          *)
Stored == StreamIn(disk) /\ (disk.seq = 0 /\ disk.bin # <<>> => Oldest > 1)

(* The page's cursor is the cache's until an answer is complete; a full    *)
(* replay is sent only if the cursor is too old, so it is not empty; a     *)
(* delta from 0 finds an empty cache.                                      *)
Asked ==
  /\ page.open /\ (~page.fed \/ page.replaying) => page.since = disk.seq
  /\ down # <<>> /\ Head(down).kind = "replaying" =>
       page.since + 1 < Oldest /\ Len(down) > 1 /\ down[2].kind = "replay"
  /\ \/ down # <<>> /\ Head(down).kind = "replayDeltaStart"
     \/ page.replaying /\ ~page.swap
     => (page.since = 0 => disk.bin = <<>>)
  /\ page.swap => Oldest > 1

(* Where the page is in an answer and which frame is next agree, and so do *)
(* the batch, the parts of a delta and the chunks that are still on the    *)
(* way.                                                                    *)
Phases ==
  /\ page.replaying /\ page.swap =>
       /\ page.timers = 0
       /\ link => /\ down # <<>> /\ Head(down).kind \in {"replay", "replayCompleted"}
                  /\ Head(down).kind = "replayCompleted" => page.batches # <<>>
  /\ page.replaying /\ ~page.swap =>
       /\ \A i \in 1..Len(page.parts) : page.parts[i] = page.since + i
       /\ link => /\ down # <<>> /\ Head(down).kind \in {"replayDelta", "replayDeltaCompleted"}
                  /\ page.since + Len(page.parts) = Upto
  /\ page.fed /\ ~page.replaying /\ link => down = <<>> \/ Head(down).kind = "output"
  /\ Contiguous(page.batches)
  /\ link /\ page.batches # <<>> => Last(page.batches) = Upto

(* The screen with the batch that waits; before the first frame it is what *)
(* was painted from the cache.                                             *)
Shown ==
  /\ page.fed => page.fit
  /\ ~page.fed => page.screen = IF page.ready THEN Chunks(disk.bin) ELSE <<>>
  /\ page.fed /\ ~page.replaying => ~page.swap
  /\ page.fed /\ ~(page.replaying /\ page.swap) =>
       /\ Contiguous(page.screen \o page.batches)
       /\ link => Through(page.screen \o page.batches) = Upto

Rest == Stored /\ Asked /\ Phases /\ (page.sound => Shown)

IInv == Ground /\ (clean => Rest)

(* The types that the later proofs need, in one place.                     *)
LEMMA PageTypes ==
  ASSUME Shapes
  PROVE  /\ page.batches \in Seq(Stream) /\ page.parts \in Seq(Stream) /\ page.screen \in Seq(Stream)
         /\ page.batches \in Seq(Nat) /\ page.screen \in Seq(Nat)
         /\ page.since \in Nat /\ page.timers \in Nat
         /\ disk.bin \in Seq(Bytes) /\ disk.seq \in 0..last /\ disk.seq \in Nat
         /\ last \in 0..MaxOut /\ last \in Nat /\ MaxOut \in Nat
         /\ {page.open, page.ready, page.fit, page.replaying, page.swap, page.fed, page.sound,
             page.scheduled} \subseteq BOOLEAN
<1>1. /\ page.batches \in Seq(Stream) /\ page.parts \in Seq(Stream) /\ page.screen \in Seq(Stream)
      /\ page.since \in 0..MaxOut /\ page.timers \in Nat
      /\ disk.bin \in Seq(Bytes) /\ disk.seq \in 0..last
      /\ {page.open, page.ready, page.fit, page.replaying, page.swap, page.fed, page.sound,
          page.scheduled} \subseteq BOOLEAN
  BY DEF Shapes, Pages, CachesTo
<1>2. page.batches \in Seq(Nat) /\ page.screen \in Seq(Nat)
  BY <1>1, StreamNat
<1>3. last \in 0..MaxOut /\ last \in Nat /\ MaxOut \in Nat
  BY BoundsAssumption DEF Shapes
<1> QED
  BY <1>1, <1>2, <1>3

(* What a frame that arrives says, and what follows it.                    *)
LEMMA Arrived ==
  ASSUME Ground, link, down # <<>>
  PROVE  LET f == Head(down)
         IN /\ f \in FrameSet /\ f.n \in 0..last /\ f.n \in Nat /\ f.kind \in Kinds
            /\ f.kind \in Carriers => f.n \in Stream /\ Upto = f.n - 1
            /\ f.kind \in Ends => Upto = f.n
            /\ f.kind \notin Starts => page.fed
            /\ UNCHANGED last /\ down' = Tail(down) =>
                 /\ f.kind \notin Starts => Upto' = f.n
                 /\ f.kind = "replayDeltaStart" => Upto' = page.since
                 /\ f.kind \notin Ends \cup {"output"} => down' # <<>>
                 /\ down' # <<>> => Head(down') = down[2] /\ Head(down').kind \in After(f.kind)
                                    /\ Head(down').kind \notin Starts
<1> DEFINE f == Head(down)
<1>1. /\ last \in 0..MaxOut /\ last \in Nat /\ down \in Seq(FrameSet) /\ MaxOut \in Nat
      /\ page.since \in 0..last /\ page.since \in Nat /\ InOrder(down, last, page.since)
  BY PageTypes DEF Ground, Shapes, Wire
<1>2. /\ f \in FrameSet /\ f.n <= last /\ f.n \in Nat /\ f.kind \in Kinds
      /\ f.kind \in Carriers => f.n >= 1 /\ Upto = f.n - 1
      /\ f.kind \in Ends => Upto = f.n
  BY <1>1, HeadInOrder DEF Upto
<1>3. f.kind \notin Starts => page.fed
  BY DEF Ground, Unfed
<1>4. f.kind \in Carriers => f.n \in Stream
  BY <1>1, <1>2 DEF Stream
<1>5. ASSUME UNCHANGED last, down' = Tail(down)
      PROVE  /\ f.kind \notin Starts => Upto' = f.n
             /\ f.kind = "replayDeltaStart" => Upto' = page.since
             /\ f.kind \notin Ends \cup {"output"} => down' # <<>>
             /\ down' # <<>> => Head(down') = down[2] /\ Head(down').kind \in After(f.kind)
                                /\ Head(down').kind \notin Starts
  <2>1. Upto' = UptoIn(Tail(down), last)
    BY <1>5 DEF Upto
  <2>2. /\ f.kind \notin Starts => UptoIn(Tail(down), last) = f.n
        /\ f.kind = "replayDeltaStart" => UptoIn(Tail(down), last) = page.since
        /\ f.kind \notin Ends \cup {"output"} => Tail(down) # <<>>
        /\ Tail(down) # <<>> => Head(Tail(down)) = down[2] /\ Head(Tail(down)).kind \in After(f.kind)
    BY <1>1, TailInOrder
  <2>3. After(f.kind) \cap Starts = {}
    BY DEF After, Starts
  <2> HIDE DEF f
  <2> QED
    BY <1>5, <2>1, <2>2, <2>3
<1> HIDE DEF f
<1>6. f.n \in 0..last
  BY <1>1, <1>2
<1> QED
  BY <1>2, <1>3, <1>4, <1>5, <1>6 DEF f

LEMMA ConcatAppend ==
  ASSUME NEW s \in Seq(Nat), NEW t \in Seq(Nat), NEW n \in Nat
  PROVE  s \o Append(t, n) = Append(s \o t, n)
OBVIOUS

(* One more chunk goes to the batch.                                       *)
LEMMA BatchGrows ==
  ASSUME Ground, clean, Rest, link, NEW n \in Stream, Upto = n - 1
  PROVE  /\ Contiguous(Append(page.batches, n)) /\ Append(page.batches, n) # <<>>
         /\ Last(Append(page.batches, n)) = n
         /\ page.sound /\ page.fed /\ ~(page.replaying /\ page.swap) =>
              /\ Contiguous(page.screen \o Append(page.batches, n))
              /\ Through(page.screen \o Append(page.batches, n)) = n
<1>1. page.batches \in Seq(Nat) /\ page.screen \in Seq(Nat) /\ n \in Nat /\ n >= 1
  BY PageTypes DEF Ground, Stream
<1>2. Contiguous(page.batches) /\ (page.batches # <<>> => n = Last(page.batches) + 1)
  <2>1. page.batches # <<>> => Last(page.batches) = n - 1
    BY DEF Rest, Phases
  <2> QED
    BY <1>1, <2>1 DEF Rest, Phases
<1>3. Contiguous(Append(page.batches, n))
  BY <1>1, <1>2, ContiguousAppend
<1>4. Append(page.batches, n) # <<>> /\ Last(Append(page.batches, n)) = n
  BY <1>1, LastOfAppend
<1>5. ASSUME page.sound, page.fed, ~(page.replaying /\ page.swap)
      PROVE  /\ Contiguous(page.screen \o Append(page.batches, n))
             /\ Through(page.screen \o Append(page.batches, n)) = n
  <2> DEFINE all == page.screen \o page.batches
  <2>1. Contiguous(all) /\ Through(all) = n - 1
    BY <1>5 DEF Rest, Shown
  <2>2. all \in Seq(Nat)
    BY <1>1, ConcatProperties
  <2>3. page.screen \o Append(page.batches, n) = Append(all, n)
    BY <1>1, ConcatAppend
  <2> HIDE DEF all
  <2>4. all # <<>> => n = Last(all) + 1
    BY <1>1, <2>1 DEF Through
  <2>5. Contiguous(Append(all, n))
    BY <1>1, <2>1, <2>2, <2>4, ContiguousAppend
  <2>6. Append(all, n) # <<>> /\ Last(Append(all, n)) = n
    BY <1>1, <2>2, LastOfAppend
  <2> QED
    BY <2>3, <2>5, <2>6 DEF Through
<1> QED
  BY <1>3, <1>4, <1>5

LEMMA OnOutputKeeps == ASSUME IInv, OnOutput PROVE IInv'
<1> DEFINE f == Head(down)
           p == PushPaint(Fed, f.n)
<1>1. link /\ down # <<>> /\ f.kind = "output" /\ Receive(p, <<>>) /\ Ground
  BY DEF OnOutput, Arrives, IInv
<1>2. f.n \in Stream /\ f.kind \in Carriers /\ f.kind \notin Starts /\ f.n \in Nat
      /\ Upto = f.n - 1 /\ page.fed
  BY <1>1, Arrived DEF Carriers, Starts
<1>3. Shapes /\ <<>> \in Seq(CachesTo(last))
  BY <1>1 DEF Ground
<1>4. /\ Fed \in Pages /\ Fed.fed = TRUE /\ Fed.open = page.open /\ Fed.since = page.since
      /\ Fed.fit = page.fit /\ Fed.ready = page.ready /\ Fed.replaying = page.replaying
      /\ Fed.swap = page.swap /\ Fed.batches = page.batches /\ Fed.screen = page.screen
      /\ Fed.timers = page.timers /\ Fed.scheduled = page.scheduled
      /\ Fed.sound = (page.sound /\ page.fit) /\ Fed.parts = page.parts
  BY <1>3, FedIs
<1>5. /\ p \in Pages
      /\ p.open = page.open /\ p.ready = page.ready /\ p.fit = page.fit
      /\ p.since = page.since /\ p.replaying = page.replaying /\ p.swap = page.swap
      /\ p.batches = Append(page.batches, f.n) /\ p.parts = page.parts
      /\ p.screen = page.screen /\ p.fed = TRUE /\ p.sound = (page.sound /\ page.fit)
      /\ p.timers \in {page.timers, page.timers + 1}
      /\ (page.scheduled => page.timers > 0) => (p.scheduled => p.timers > 0)
  BY <1>2, <1>4, PushPaintIs
<1> HIDE DEF p, f
<1>6. Ground' /\ (clean' => clean /\ Taken(p, <<>>))
  <2>1. (p.scheduled => p.timers > 0) /\ (p.fit => p.ready)
    BY <1>1, <1>5 DEF Ground, Timed, Unfed
  <2>2. page.timers \in Nat
    BY <1>3, PageTypes
  <2>3. p.timers <= page.timers + (IF f.kind \in Carriers THEN 1 ELSE 0)
    BY <1>2, <1>5, <2>2
  <2> QED
    BY <1>1, <1>3, <1>5, <2>1, <2>3, FrameKeeps DEF f
<1> SUFFICES ASSUME clean' PROVE Rest'
  BY <1>6 DEF IInv
<1>7. /\ clean /\ Rest /\ page' = p /\ UNCHANGED <<last, link, disk>> /\ down' = Tail(down)
  BY <1>6 DEF Taken, IInv
<1>8. Upto' = f.n /\ (down' # <<>> => Head(down').kind = "output")
  BY <1>1, <1>2, <1>7, Arrived DEF After, f
<1>9. ~page.replaying
  BY <1>1, <1>7 DEF Rest, Phases, f
<1>10. Stored' /\ Asked'
  BY <1>5, <1>7, <1>8, <1>9 DEF Rest, Stored, Asked, Oldest
<1>11. /\ Contiguous(p.batches) /\ p.batches # <<>> /\ Last(p.batches) = f.n
       /\ page.sound => /\ Contiguous(p.screen \o p.batches)
                        /\ Through(p.screen \o p.batches) = f.n
  BY <1>1, <1>2, <1>5, <1>7, <1>9, BatchGrows
<1>12. Phases'
  BY <1>5, <1>7, <1>8, <1>9, <1>11 DEF Phases
<1>13. page'.sound => Shown'
  BY <1>2, <1>5, <1>7, <1>8, <1>9, <1>11 DEF Rest, Shown
<1> QED
  BY <1>10, <1>12, <1>13 DEF Rest

-----------------------------------------------------------------------------
(* One lemma per action.  First the frames that start or continue an       *)
(* answer.                                                                 *)

(* An answer starts: nothing has arrived before it.                        *)
LEMMA FirstFrame ==
  ASSUME Ground, Rest, link, down # <<>>, Head(down).kind \in Starts
  PROVE  /\ ~page.fed /\ page.timers = 0 /\ page.batches = <<>> /\ page.parts = <<>>
         /\ ~page.swap /\ ~page.scheduled /\ page.since = disk.seq
         /\ page.sound /\ page.ready => page.screen = Chunks(disk.bin)
<1>1. ~page.fed
  BY DEF Rest, Phases, Starts, Ground, Unfed
<1>2. page.open
  BY DEF Ground, Wire
<1> QED
  BY <1>1, <1>2 DEF Rest, Asked, Shown, Ground, Unfed

(* A page in the middle of a replay, or of a delta.                        *)
LEMMA ReplayFrame ==
  ASSUME Ground, Rest, link, down # <<>>, Head(down).kind \in {"replay", "replayCompleted"}
  PROVE  page.fed /\ page.replaying /\ page.swap
<1>1. page.fed
  BY DEF Ground, Unfed, Starts
<1> QED
  BY <1>1 DEF Rest, Phases

LEMMA DeltaFrame ==
  ASSUME Ground, Rest, link, down # <<>>, Head(down).kind \in {"replayDelta", "replayDeltaCompleted"}
  PROVE  page.fed /\ page.replaying /\ ~page.swap
<1>1. page.fed
  BY DEF Ground, Unfed, Starts
<1> QED
  BY <1>1 DEF Rest, Phases

LEMMA ContiguousEmpty ==
  Contiguous(<<>>) /\ Len(<<>>) = 0 /\ <<>> \in Seq(Nat) /\ <<>> \in Seq(Stream)
BY DEF Contiguous

LEMMA OnReplayingKeeps == ASSUME IInv, OnReplaying PROVE IInv'
<1> DEFINE p == [Fed EXCEPT !.replaying = TRUE, !.batches = <<>>, !.scheduled = FALSE,
                            !.swap = TRUE]
<1>1. link /\ down # <<>> /\ Head(down).kind = "replaying" /\ Receive(p, <<>>) /\ Ground
  BY DEF OnReplaying, Arrives, IInv
<1>2. Shapes /\ <<>> \in Seq(CachesTo(last)) /\ <<>> \in Seq(Stream)
  BY <1>1 DEF Ground
<1>3. /\ Fed \in Pages /\ Fed.fed = TRUE /\ Fed.open = page.open /\ Fed.since = page.since
      /\ Fed.fit = page.fit /\ Fed.ready = page.ready /\ Fed.screen = page.screen
      /\ Fed.timers = page.timers /\ Fed.sound = (page.sound /\ page.fit)
      /\ Fed.parts = page.parts
  BY <1>2, FedIs
<1>4. /\ p \in Pages
      /\ p.open = page.open /\ p.since = page.since /\ p.fit = page.fit /\ p.ready = page.ready
      /\ p.fed = TRUE /\ p.timers = page.timers /\ p.sound = (page.sound /\ page.fit)
      /\ p.replaying = TRUE /\ p.swap = TRUE /\ p.batches = <<>> /\ p.scheduled = FALSE
  BY <1>2, <1>3 DEF Pages
<1> HIDE DEF p
<1>5. Ground' /\ (clean' => clean /\ Taken(p, <<>>))
  <2>1. p.fit => p.ready
    BY <1>1, <1>4 DEF Ground, Unfed
  <2>2. p.timers <= page.timers + (IF Head(down).kind \in Carriers THEN 1 ELSE 0)
    BY <1>1, <1>2, <1>4, PageTypes DEF Carriers
  <2> QED
    BY <1>1, <1>2, <1>4, <2>1, <2>2, FrameKeeps
<1> SUFFICES ASSUME clean' PROVE Rest'
  BY <1>5 DEF IInv
<1>6. /\ clean /\ Rest /\ page' = p /\ UNCHANGED <<last, link, disk>> /\ down' = Tail(down)
  BY <1>5 DEF Taken, IInv
<1>7. ~page.fed /\ page.timers = 0 /\ page.since = disk.seq
  BY <1>1, <1>6, FirstFrame DEF Starts
<1>8. /\ down' # <<>> /\ Head(down') = down[2] /\ Head(down').kind \notin Starts
  BY <1>1, <1>6, Arrived DEF Starts, Ends
<1>9. page.since + 1 < Oldest /\ down[2].kind = "replay"
  BY <1>1, <1>6 DEF Rest, Asked
<1>10. Oldest > 1
  <2>1. Oldest \in Nat /\ page.since \in Nat
    BY <1>2, PageTypes, OldestIs
  <2> QED
    BY <1>9, <2>1
<1>11. Stored'
  BY <1>6 DEF Rest, Stored, Oldest
<1>12. Asked'
  BY <1>4, <1>6, <1>7, <1>8, <1>10 DEF Rest, Asked, Oldest, Starts
<1>13. Phases'
  BY <1>4, <1>6, <1>7, <1>8, <1>9, ContiguousEmpty DEF Phases
<1>14. page'.sound => Shown'
  BY <1>4, <1>6, <1>7 DEF Shown
<1> QED
  BY <1>11, <1>12, <1>13, <1>14 DEF Rest

LEMMA OnReplayChunkKeeps == ASSUME IInv, OnReplayChunk PROVE IInv'
<1> DEFINE f == Head(down)
           p == [Fed EXCEPT !.batches = Append(@, f.n)]
<1>1. link /\ down # <<>> /\ f.kind = "replay" /\ Receive(p, <<>>) /\ Ground
  BY DEF OnReplayChunk, Arrives, IInv
<1>2. /\ f.n \in Stream /\ f.kind \in Carriers /\ f.kind \notin Starts
      /\ f.kind \notin Ends \cup {"output"} /\ f.n \in Nat /\ Upto = f.n - 1 /\ page.fed
  <2>1. f.kind \in Carriers /\ f.kind \notin Starts /\ f.kind \notin Ends \cup {"output"}
    BY <1>1 DEF Carriers, Starts, Ends
  <2> QED
    BY <1>1, <2>1, Arrived
<1>3. Shapes /\ <<>> \in Seq(CachesTo(last))
  BY <1>1 DEF Ground
<1>4. /\ Fed \in Pages /\ Fed.fed = TRUE /\ Fed.open = page.open /\ Fed.since = page.since
      /\ Fed.fit = page.fit /\ Fed.ready = page.ready /\ Fed.replaying = page.replaying
      /\ Fed.swap = page.swap /\ Fed.batches = page.batches
      /\ Fed.timers = page.timers /\ Fed.scheduled = page.scheduled
      /\ Fed.sound = (page.sound /\ page.fit)
  BY <1>3, FedIs
<1>5. /\ p \in Pages
      /\ p.open = page.open /\ p.ready = page.ready /\ p.fit = page.fit
      /\ p.since = page.since /\ p.replaying = page.replaying /\ p.swap = page.swap
      /\ p.batches = Append(page.batches, f.n)
      /\ p.fed = TRUE /\ p.sound = (page.sound /\ page.fit)
      /\ p.timers = page.timers /\ p.scheduled = page.scheduled
  <2> DEFINE bs == Append(page.batches, f.n)
  <2>1. bs \in Seq(Stream)
    BY <1>2, <1>3, PageTypes
  <2>2. p = [Fed EXCEPT !.batches = bs]
    BY <1>4
  <2> HIDE DEF bs, p
  <2> QED
    BY <1>4, <2>1, <2>2 DEF Pages, bs
<1> HIDE DEF p, f
<1>6. Ground' /\ (clean' => clean /\ Taken(p, <<>>))
  <2>1. (p.scheduled => p.timers > 0) /\ (p.fit => p.ready)
    BY <1>1, <1>5 DEF Ground, Timed, Unfed
  <2>2. p.timers <= page.timers + (IF f.kind \in Carriers THEN 1 ELSE 0)
    BY <1>2, <1>3, <1>5, PageTypes
  <2> QED
    BY <1>1, <1>3, <1>5, <2>1, <2>2, FrameKeeps DEF f
<1> SUFFICES ASSUME clean' PROVE Rest'
  BY <1>6 DEF IInv
<1>7. /\ clean /\ Rest /\ page' = p /\ UNCHANGED <<last, link, disk>> /\ down' = Tail(down)
  BY <1>6 DEF Taken, IInv
<1>8. /\ Upto' = f.n /\ down' # <<>> /\ Head(down').kind \in {"replay", "replayCompleted"}
  <2>1. After(f.kind) = {"replay", "replayCompleted"}
    BY <1>1 DEF After
  <2> QED
    BY <1>1, <1>2, <1>7, <2>1, Arrived DEF f
<1>9. page.replaying /\ page.swap
  BY <1>1, <1>7, ReplayFrame DEF f
<1>10. Stored' /\ Asked'
  BY <1>5, <1>7, <1>8, <1>9 DEF Rest, Stored, Asked, Oldest
<1>11. Contiguous(p.batches) /\ p.batches # <<>> /\ Last(p.batches) = f.n
  BY <1>1, <1>2, <1>5, <1>7, BatchGrows
<1>12. Phases'
  <2>1. page.timers = 0
    BY <1>7, <1>9 DEF Rest, Phases
  <2> QED
    BY <1>5, <1>7, <1>8, <1>9, <1>11, <2>1 DEF Phases
<1>13. page'.sound => Shown'
  BY <1>2, <1>5, <1>7, <1>9 DEF Rest, Shown
<1> QED
  BY <1>10, <1>12, <1>13 DEF Rest

LEMMA OnDeltaStartKeeps == ASSUME IInv, OnDeltaStart PROVE IInv'
<1> DEFINE shown == IF page.since = 0 THEN <<>> ELSE page.screen
           p == [Fed EXCEPT !.replaying = TRUE, !.parts = <<>>,
                            !.screen = IF page.since = 0 THEN <<>> ELSE @]
<1>1. link /\ down # <<>> /\ Head(down).kind = "replayDeltaStart" /\ Receive(p, <<>>) /\ Ground
  BY DEF OnDeltaStart, Arrives, IInv
<1>2. Shapes /\ <<>> \in Seq(CachesTo(last)) /\ <<>> \in Seq(Stream)
  BY <1>1 DEF Ground
<1>3. /\ Fed \in Pages /\ Fed.fed = TRUE /\ Fed.open = page.open /\ Fed.since = page.since
      /\ Fed.fit = page.fit /\ Fed.ready = page.ready /\ Fed.screen = page.screen
      /\ Fed.timers = page.timers /\ Fed.sound = (page.sound /\ page.fit)
      /\ Fed.batches = page.batches /\ Fed.swap = page.swap /\ Fed.scheduled = page.scheduled
  BY <1>2, FedIs
<1>4. /\ p \in Pages
      /\ p.open = page.open /\ p.since = page.since /\ p.fit = page.fit /\ p.ready = page.ready
      /\ p.fed = TRUE /\ p.timers = page.timers /\ p.sound = (page.sound /\ page.fit)
      /\ p.replaying = TRUE /\ p.swap = page.swap /\ p.batches = page.batches
      /\ p.parts = <<>> /\ p.scheduled = page.scheduled /\ p.screen = shown
  <2>1. shown \in Seq(Stream)
    BY <1>2, PageTypes
  <2>2. p = [Fed EXCEPT !.replaying = TRUE, !.parts = <<>>, !.screen = shown]
    BY <1>3
  <2> HIDE DEF shown, p
  <2> QED
    BY <1>2, <1>3, <2>1, <2>2 DEF Pages
<1> HIDE DEF p
<1>5. Ground' /\ (clean' => clean /\ Taken(p, <<>>))
  <2>1. (p.scheduled => p.timers > 0) /\ (p.fit => p.ready)
    BY <1>1, <1>4 DEF Ground, Timed, Unfed
  <2>2. p.timers <= page.timers + (IF Head(down).kind \in Carriers THEN 1 ELSE 0)
    BY <1>1, <1>2, <1>4, PageTypes DEF Carriers
  <2> QED
    BY <1>1, <1>2, <1>4, <2>1, <2>2, FrameKeeps
<1> SUFFICES ASSUME clean' PROVE Rest'
  BY <1>5 DEF IInv
<1>6. /\ clean /\ Rest /\ page' = p /\ UNCHANGED <<last, link, disk>> /\ down' = Tail(down)
  BY <1>5 DEF Taken, IInv
<1>7. /\ ~page.fed /\ page.since = disk.seq /\ page.batches = <<>> /\ ~page.swap
      /\ page.sound /\ page.ready => page.screen = Chunks(disk.bin)
  BY <1>1, <1>6, FirstFrame DEF Starts
<1>8. /\ Upto' = page.since /\ down' # <<>>
      /\ Head(down').kind \in {"replayDelta", "replayDeltaCompleted"}
  <2>1. /\ After(Head(down).kind) = {"replayDelta", "replayDeltaCompleted"}
        /\ Head(down).kind \notin Ends \cup {"output"}
    BY <1>1 DEF After, Ends
  <2> QED
    BY <1>1, <1>6, <2>1, Arrived
<1>9. page.since = 0 => disk.bin = <<>>
  BY <1>1, <1>6 DEF Rest, Asked
<1>10. Stored'
  BY <1>6 DEF Rest, Stored, Oldest
<1>11. Asked'
  BY <1>4, <1>6, <1>7, <1>8, <1>9 DEF Asked
<1>12. Phases'
  <2>1. page.since \in Nat
    BY <1>2, PageTypes
  <2>2. page'.parts = <<>> /\ page'.since = page.since /\ Len(page'.parts) = 0
    BY <1>4, <1>6, ContiguousEmpty
  <2>3. page'.since + Len(page'.parts) = Upto'
    BY <1>8, <2>1, <2>2
  <2>4. \A i \in 1..Len(page'.parts) : page'.parts[i] = page'.since + i
    BY <2>2
  <2> QED
    BY <1>4, <1>6, <1>7, <1>8, <2>3, <2>4, ContiguousEmpty DEF Phases
<1>13. ASSUME page'.sound PROVE Shown'
  <2>1. page.sound /\ page.fit /\ page.ready
    BY <1>1, <1>4, <1>6, <1>13 DEF Ground, Unfed
  <2>2. shown \in Seq(Stream) /\ shown \o <<>> = shown
    <3>1. shown \in Seq(Stream)
      BY <1>2, PageTypes
    <3> QED
      BY <1>2, <3>1, LastOfConcat
  <2>3. Contiguous(shown) /\ Through(shown) = page.since
    <3>1. CASE page.since = 0
      BY <3>1, ContiguousEmpty DEF Through
    <3>2. CASE page.since # 0
      <4>1. shown = Chunks(disk.bin) /\ disk.seq > 0
        BY <1>2, <1>7, <2>1, <3>2, PageTypes
      <4> QED
        BY <1>6, <1>7, <4>1 DEF Rest, Stored, StreamIn, Through
    <3> QED
      BY <3>1, <3>2
  <2> HIDE DEF shown
  <2> QED
    BY <1>4, <1>6, <1>7, <1>8, <2>1, <2>2, <2>3 DEF Shown
<1> QED
  BY <1>10, <1>11, <1>12, <1>13 DEF Rest

LEMMA OnDeltaChunkKeeps == ASSUME IInv, OnDeltaChunk PROVE IInv'
<1> DEFINE f == Head(down)
           ps == Append(page.parts, f.n)
           o == [Fed EXCEPT !.parts = Append(@, f.n)]
           p == PushPaint(o, f.n)
<1>1. link /\ down # <<>> /\ f.kind = "replayDelta" /\ Receive(p, <<>>) /\ Ground
  BY DEF OnDeltaChunk, Arrives, IInv
<1>2. /\ f.n \in Stream /\ f.kind \in Carriers /\ f.kind \notin Starts
      /\ f.kind \notin Ends \cup {"output"} /\ f.n \in Nat /\ Upto = f.n - 1 /\ page.fed
  <2>1. f.kind \in Carriers /\ f.kind \notin Starts /\ f.kind \notin Ends \cup {"output"}
    BY <1>1 DEF Carriers, Starts, Ends
  <2> QED
    BY <1>1, <2>1, Arrived
<1>3. Shapes /\ <<>> \in Seq(CachesTo(last))
  BY <1>1 DEF Ground
<1>4. /\ Fed \in Pages /\ Fed.fed = TRUE /\ Fed.open = page.open /\ Fed.since = page.since
      /\ Fed.fit = page.fit /\ Fed.ready = page.ready /\ Fed.replaying = page.replaying
      /\ Fed.swap = page.swap /\ Fed.batches = page.batches /\ Fed.screen = page.screen
      /\ Fed.timers = page.timers /\ Fed.scheduled = page.scheduled
      /\ Fed.sound = (page.sound /\ page.fit) /\ Fed.parts = page.parts
  BY <1>3, FedIs
<1>5. /\ ps \in Seq(Stream) /\ Len(ps) = Len(page.parts) + 1 /\ Len(page.parts) \in Nat
      /\ \A i \in 1..Len(page.parts) : ps[i] = page.parts[i]
      /\ ps[Len(page.parts) + 1] = f.n
  BY <1>2, <1>3, PageTypes
<1>6. /\ o \in Pages /\ o.fed = TRUE /\ o.open = page.open /\ o.since = page.since
      /\ o.fit = page.fit /\ o.ready = page.ready /\ o.replaying = page.replaying
      /\ o.swap = page.swap /\ o.batches = page.batches /\ o.screen = page.screen
      /\ o.timers = page.timers /\ o.scheduled = page.scheduled
      /\ o.sound = (page.sound /\ page.fit) /\ o.parts = ps
  <2>1. o = [Fed EXCEPT !.parts = ps]
    BY <1>4
  <2> HIDE DEF ps, o
  <2> QED
    BY <1>4, <1>5, <2>1 DEF Pages
<1> HIDE DEF o
<1>7. /\ p \in Pages
      /\ p.open = page.open /\ p.ready = page.ready /\ p.fit = page.fit
      /\ p.since = page.since /\ p.replaying = page.replaying /\ p.swap = page.swap
      /\ p.batches = Append(page.batches, f.n) /\ p.parts = ps
      /\ p.screen = page.screen /\ p.fed = TRUE /\ p.sound = (page.sound /\ page.fit)
      /\ p.timers \in {page.timers, page.timers + 1}
      /\ (page.scheduled => page.timers > 0) => (p.scheduled => p.timers > 0)
  BY <1>2, <1>6, PushPaintIs
<1> HIDE DEF p, f, ps
<1>8. Ground' /\ (clean' => clean /\ Taken(p, <<>>))
  <2>1. (p.scheduled => p.timers > 0) /\ (p.fit => p.ready)
    BY <1>1, <1>7 DEF Ground, Timed, Unfed
  <2>2. page.timers \in Nat
    BY <1>3, PageTypes
  <2>3. p.timers <= page.timers + (IF f.kind \in Carriers THEN 1 ELSE 0)
    BY <1>2, <1>7, <2>2
  <2> QED
    BY <1>1, <1>3, <1>7, <2>1, <2>3, FrameKeeps DEF f
<1> SUFFICES ASSUME clean' PROVE Rest'
  BY <1>8 DEF IInv
<1>9. /\ clean /\ Rest /\ page' = p /\ UNCHANGED <<last, link, disk>> /\ down' = Tail(down)
  BY <1>8 DEF Taken, IInv
<1>10. /\ Upto' = f.n /\ down' # <<>>
       /\ Head(down').kind \in {"replayDelta", "replayDeltaCompleted"}
  <2>1. After(f.kind) = {"replayDelta", "replayDeltaCompleted"}
    BY <1>1 DEF After
  <2> QED
    BY <1>1, <1>2, <1>9, <2>1, Arrived DEF f
<1>11. page.replaying /\ ~page.swap
  BY <1>1, <1>9, DeltaFrame DEF f
<1>12. Stored'
  BY <1>9 DEF Rest, Stored, Oldest
<1>13. Asked'
  BY <1>7, <1>9, <1>10, <1>11 DEF Rest, Asked
<1>14. /\ Contiguous(p.batches) /\ p.batches # <<>> /\ Last(p.batches) = f.n
       /\ page.sound => /\ Contiguous(p.screen \o p.batches)
                        /\ Through(p.screen \o p.batches) = f.n
  BY <1>1, <1>2, <1>7, <1>9, <1>11, BatchGrows
<1>15. /\ \A i \in 1..Len(ps) : ps[i] = page.since + i
       /\ page.since + Len(ps) = f.n
  <2>1. /\ \A i \in 1..Len(page.parts) : page.parts[i] = page.since + i
        /\ page.since + Len(page.parts) = f.n - 1
    BY <1>1, <1>2, <1>9, <1>11 DEF Rest, Phases
  <2>2. page.since \in Nat
    BY <1>3, PageTypes
  <2>3. page.since + Len(ps) = f.n
    <3> DEFINE a == page.since
               b == Len(page.parts)
               m == f.n
    <3>1. a \in Nat /\ b \in Nat /\ m \in Nat /\ a + b = m - 1 /\ Len(ps) = b + 1
      BY <1>2, <1>5, <2>1, <2>2
    <3> HIDE DEF a, b, m
    <3>2. a + Len(ps) = m
      BY <3>1
    <3> QED
      BY <3>2 DEF a, m
  <2>4. ASSUME NEW i \in 1..Len(ps) PROVE ps[i] = page.since + i
    <3>1. CASE i \in 1..Len(page.parts)
      BY <1>5, <2>1, <3>1
    <3>2. CASE i = Len(page.parts) + 1
      BY <1>5, <2>3, <3>2
    <3> QED
      BY <1>5, <3>1, <3>2
  <2> QED
    BY <2>3, <2>4
<1>16. Phases'
  BY <1>7, <1>9, <1>10, <1>11, <1>14, <1>15 DEF Phases
<1>17. page'.sound => Shown'
  BY <1>2, <1>7, <1>9, <1>10, <1>11, <1>14 DEF Rest, Shown
<1> QED
  BY <1>12, <1>13, <1>16, <1>17 DEF Rest

-----------------------------------------------------------------------------
(* The frames that end an answer: the screen is swapped, the delta         *)
(* committed.                                                              *)

(* An answer ends: what follows is live output.                            *)
LEMMA LastFrame ==
  ASSUME Ground, link, down # <<>>, Head(down).kind \in Ends
  PROVE  LET f == Head(down)
         IN /\ f.n \in 0..last /\ f.kind \notin Starts /\ f.kind \notin Carriers
            /\ Upto = f.n /\ page.fed
            /\ UNCHANGED last /\ down' = Tail(down) =>
                 /\ Upto' = f.n
                 /\ down' # <<>> => Head(down').kind = "output"
<1> DEFINE f == Head(down)
<1>1. f.kind \notin Starts /\ f.kind \notin Carriers /\ After(f.kind) = {"output"}
  BY DEF Starts, Ends, Carriers, After
<1> HIDE DEF f
<1> QED
  BY <1>1, Arrived DEF f

LEMMA OnReplayCompletedKeeps == ASSUME IInv, OnReplayCompleted PROVE IInv'
<1> DEFINE f == Head(down)
           o == [Fed EXCEPT !.replaying = FALSE, !.swap = TRUE]
           p == Settle(o)
           ws == SwapWrites(o, disk)
<1>1. link /\ down # <<>> /\ f.kind = "replayCompleted" /\ Receive(p, ws) /\ Ground
  BY DEF OnReplayCompleted, Arrives, IInv
<1>2. Shapes /\ disk \in CachesTo(last) /\ last \in Nat /\ page.timers \in Nat
      /\ page.batches \in Seq(Stream) /\ page.screen \in Seq(Stream)
  BY <1>1, PageTypes DEF Ground, Shapes
<1>3. /\ f.kind \in Ends /\ f.kind \notin Starts /\ f.kind \notin Carriers
      /\ Upto = f.n /\ page.fed
  BY <1>1, LastFrame DEF Ends
<1>4. /\ Fed \in Pages /\ Fed.fed = TRUE /\ Fed.open = page.open /\ Fed.since = page.since
      /\ Fed.fit = page.fit /\ Fed.ready = page.ready /\ Fed.batches = page.batches
      /\ Fed.timers = page.timers /\ Fed.scheduled = page.scheduled
      /\ Fed.sound = (page.sound /\ page.fit)
  BY <1>2, FedIs
<1>5. /\ o \in Pages /\ o.fed = TRUE /\ o.open = page.open /\ o.since = page.since
      /\ o.fit = page.fit /\ o.ready = page.ready /\ o.replaying = FALSE /\ o.swap = TRUE
      /\ o.batches = page.batches /\ o.timers = page.timers /\ o.scheduled = page.scheduled
      /\ o.sound = (page.sound /\ page.fit)
  BY <1>4 DEF Pages
<1> HIDE DEF o
<1>6. Settles(o) <=> page.ready
  BY <1>5 DEF Settles
<1>7. /\ p \in Pages
      /\ p.open = page.open /\ p.ready = page.ready /\ p.fit = page.fit
      /\ p.since = page.since /\ p.replaying = FALSE
      /\ p.timers = page.timers /\ p.fed = TRUE /\ p.sound = (page.sound /\ page.fit)
      /\ p.scheduled => page.scheduled
      /\ ~page.ready => p = o
      /\ page.ready => p.batches = <<>> /\ ~p.swap /\ p.screen = page.batches
  BY <1>5, <1>6, SettleIs
<1>8. /\ ws \in Seq(CachesTo(last))
      /\ ~page.ready => ws = <<>>
      /\ page.ready => ws # <<>>
      /\ page.ready /\ page.batches # <<>> =>
           Last(ws) = [bin |-> Pack(page.batches), seq |-> 0, bytes |-> 0]
  BY <1>2, <1>5, <1>6, SwapWritesEnd
<1> HIDE DEF p, ws, f
<1>9. Ground' /\ (clean' => clean /\ Taken(p, ws))
  <2>1. (p.scheduled => p.timers > 0) /\ (p.fit => p.ready)
    BY <1>1, <1>7 DEF Ground, Timed, Unfed
  <2>2. p.timers <= page.timers + (IF f.kind \in Carriers THEN 1 ELSE 0)
    BY <1>2, <1>3, <1>7
  <2> QED
    BY <1>1, <1>7, <1>8, <2>1, <2>2, FrameKeeps DEF f
<1> SUFFICES ASSUME clean' PROVE Rest'
  BY <1>9 DEF IInv
<1>10. /\ clean /\ Rest /\ page' = p /\ UNCHANGED <<last, link>> /\ down' = Tail(down)
       /\ disk' = IF ws = <<>> THEN disk ELSE Last(ws)
  BY <1>9 DEF Taken, IInv
<1>11. Upto' = f.n /\ (down' # <<>> => Head(down').kind = "output")
  BY <1>1, <1>3, <1>10, LastFrame DEF f
<1>12. page.replaying /\ page.swap
  BY <1>1, <1>10, ReplayFrame DEF f
<1>13. page.batches # <<>> /\ Contiguous(page.batches) /\ Last(page.batches) = f.n /\ Oldest > 1
  BY <1>1, <1>3, <1>10, <1>12 DEF Rest, Phases, Asked, f
<1>14. Oldest' = Oldest
  BY <1>10 DEF Oldest
<1>15. Stored'
  <2>1. CASE page.ready
    <3>1. StreamIn([bin |-> Pack(page.batches), seq |-> 0, bytes |-> 0])
      BY <1>2, <1>13, ReplaceHolds
    <3>2. StreamIn(disk')
      BY <1>8, <1>10, <1>13, <2>1, <3>1
    <3> QED
      BY <1>13, <1>14, <3>2 DEF Stored
  <2>2. CASE ~page.ready
    BY <1>8, <1>10, <1>14, <2>2 DEF Rest, Stored
  <2> QED
    BY <2>1, <2>2
<1>16. Asked'
  BY <1>7, <1>10, <1>11, <1>13, <1>14 DEF Asked
<1>17. Phases'
  <2>1. p.batches \in {<<>>, page.batches}
    BY <1>5, <1>7
  <2>2. Contiguous(p.batches) /\ (p.batches # <<>> => Last(p.batches) = f.n)
    BY <1>13, <2>1, ContiguousEmpty
  <2> QED
    BY <1>7, <1>10, <1>11, <2>2 DEF Phases
<1>18. ASSUME page'.sound PROVE Shown'
  <2>1. page.fit /\ page.ready
    BY <1>1, <1>7, <1>10, <1>18 DEF Ground, Unfed
  <2>2. page.batches \o <<>> = page.batches
    BY <1>2, ContiguousEmpty, LastOfConcat
  <2>3. p.screen \o p.batches = page.batches
    BY <1>7, <2>1, <2>2
  <2> QED
    BY <1>7, <1>10, <1>11, <1>13, <2>1, <2>3 DEF Shown, Through
<1> QED
  BY <1>15, <1>16, <1>17, <1>18 DEF Rest

LEMMA OnDeltaCompletedKeeps == ASSUME IInv, OnDeltaCompleted PROVE IInv'
<1> DEFINE f == Head(down)
           o == [Fed EXCEPT !.replaying = FALSE, !.parts = <<>>]
           p == Settle(o)
           commit == CommitDelta(disk, page.parts, f.n)
           ws == commit \o SwapWrites(o, Last(commit))
<1>1. link /\ down # <<>> /\ f.kind = "replayDeltaCompleted" /\ Receive(p, ws) /\ Ground
  BY DEF OnDeltaCompleted, Arrives, IInv
<1>2. Shapes /\ disk \in CachesTo(last) /\ last \in Nat /\ page.timers \in Nat /\ page.since \in Nat
      /\ page.batches \in Seq(Stream) /\ page.screen \in Seq(Stream) /\ page.parts \in Seq(Stream)
      /\ <<>> \in Seq(Stream)
  BY <1>1, PageTypes DEF Ground, Shapes
<1>3. /\ f.kind \in Ends /\ f.kind \notin Starts /\ f.kind \notin Carriers
      /\ Upto = f.n /\ page.fed /\ f.n \in 0..last /\ f.n \in Nat
  <2>1. f.kind \in Ends
    BY <1>1 DEF Ends
  <2>2. f.kind \notin Starts /\ f.kind \notin Carriers /\ Upto = f.n /\ page.fed /\ f.n \in 0..last
    BY <1>1, <2>1, LastFrame
  <2> QED
    BY <1>2, <2>1, <2>2
<1>4. /\ Fed \in Pages /\ Fed.fed = TRUE /\ Fed.open = page.open /\ Fed.since = page.since
      /\ Fed.fit = page.fit /\ Fed.ready = page.ready /\ Fed.batches = page.batches
      /\ Fed.timers = page.timers /\ Fed.scheduled = page.scheduled /\ Fed.swap = page.swap
      /\ Fed.screen = page.screen /\ Fed.sound = (page.sound /\ page.fit)
  BY <1>2, FedIs
<1>5. /\ o \in Pages /\ o.fed = TRUE /\ o.open = page.open /\ o.since = page.since
      /\ o.fit = page.fit /\ o.ready = page.ready /\ o.replaying = FALSE /\ o.swap = page.swap
      /\ o.batches = page.batches /\ o.timers = page.timers /\ o.scheduled = page.scheduled
      /\ o.screen = page.screen /\ o.sound = (page.sound /\ page.fit) /\ o.parts = <<>>
  BY <1>2, <1>4 DEF Pages
<1> HIDE DEF o
<1>6. Settles(o) <=> page.ready
  BY <1>5 DEF Settles
<1>7. /\ p \in Pages
      /\ p.open = page.open /\ p.ready = page.ready /\ p.fit = page.fit
      /\ p.since = page.since /\ p.replaying = FALSE
      /\ p.timers = page.timers /\ p.fed = TRUE /\ p.sound = (page.sound /\ page.fit)
      /\ p.scheduled => page.scheduled
      /\ ~page.ready => p.batches = page.batches /\ p.swap = page.swap /\ p.screen = page.screen
      /\ page.ready => p.batches = <<>> /\ ~p.swap
      /\ page.ready /\ ~page.swap => p.screen = page.screen \o page.batches
  BY <1>5, <1>6, SettleIs
<1>8. commit \in Seq(CachesTo(last)) /\ commit # <<>> /\ Last(commit) \in CachesTo(last)
  <2>1. commit \in Seq(CachesTo(last)) /\ commit # <<>>
    BY <1>2, <1>3, CommitEnds
  <2> HIDE DEF commit
  <2> QED
    BY <2>1, LastType
<1> HIDE DEF p, commit
<1>9. /\ SwapWrites(o, Last(commit)) \in Seq(CachesTo(last))
      /\ ~page.swap => SwapWrites(o, Last(commit)) = <<>>
  BY <1>2, <1>5, <1>8, SwapWritesEnd
<1>10. ws \in Seq(CachesTo(last)) /\ (~page.swap => ws = commit)
  <2> DEFINE s == SwapWrites(o, Last(commit))
  <2>1. s \in Seq(CachesTo(last)) /\ (~page.swap => s = <<>>)
    BY <1>9
  <2> HIDE DEF s
  <2>2. commit \o s \in Seq(CachesTo(last)) /\ (~page.swap => commit \o s = commit)
    BY <1>8, <2>1, LastOfConcat, ConcatProperties
  <2> QED
    BY <2>2 DEF s
<1> HIDE DEF ws, f
<1>11. Ground' /\ (clean' => clean /\ Taken(p, ws))
  <2>1. (p.scheduled => p.timers > 0) /\ (p.fit => p.ready)
    BY <1>1, <1>7 DEF Ground, Timed, Unfed
  <2>2. p.timers <= page.timers + (IF f.kind \in Carriers THEN 1 ELSE 0)
    BY <1>2, <1>3, <1>7
  <2> QED
    BY <1>1, <1>7, <1>10, <2>1, <2>2, FrameKeeps DEF f
<1> SUFFICES ASSUME clean' PROVE Rest'
  BY <1>11 DEF IInv
<1>12. /\ clean /\ Rest /\ page' = p /\ UNCHANGED <<last, link>> /\ down' = Tail(down)
       /\ disk' = IF ws = <<>> THEN disk ELSE Last(ws)
  BY <1>11 DEF Taken, IInv
<1>13. Upto' = f.n /\ (down' # <<>> => Head(down').kind = "output")
  BY <1>1, <1>3, <1>12, LastFrame DEF f
<1>14. page.replaying /\ ~page.swap
  BY <1>1, <1>12, DeltaFrame DEF f
<1>15. page.open /\ page.since = disk.seq /\ (disk.seq = 0 => disk.bin = <<>>)
  <2>1. page.open
    BY <1>1 DEF Ground, Wire
  <2> QED
    BY <1>12, <1>14, <2>1 DEF Rest, Asked
<1>16. /\ \A i \in 1..Len(page.parts) : page.parts[i] = disk.seq + i
       /\ disk.seq + Len(page.parts) = f.n
  BY <1>1, <1>3, <1>12, <1>14, <1>15 DEF Rest, Phases
<1>17. StreamIn(disk') /\ disk'.seq = f.n /\ (f.n = 0 => disk'.bin = <<>>)
  <2>1. disk' = Last(commit)
    BY <1>8, <1>10, <1>12, <1>14
  <2>2. StreamIn(disk)
    BY <1>12 DEF Rest, Stored
  <2> QED
    BY <1>2, <1>3, <1>15, <1>16, <2>1, <2>2, CommitContinues DEF commit
<1>18. Stored'
  BY <1>17 DEF Stored
<1>19. ~p.swap
  BY <1>7, <1>14
<1>20. Asked'
  BY <1>7, <1>12, <1>13, <1>19 DEF Asked
<1>21. Phases'
  <2>1. p.batches \in {<<>>, page.batches}
    BY <1>7
  <2>2. Contiguous(p.batches) /\ (p.batches # <<>> => Last(p.batches) = f.n)
    BY <1>1, <1>3, <1>12, <2>1, ContiguousEmpty DEF Rest, Phases
  <2> QED
    BY <1>7, <1>12, <1>13, <2>2 DEF Phases
<1>22. ASSUME page'.sound PROVE Shown'
  <2>1. page.fit /\ page.sound
    BY <1>7, <1>12, <1>22
  <2> DEFINE all == page.screen \o page.batches
  <2>2. Contiguous(all) /\ Through(all) = f.n
    BY <1>1, <1>3, <1>12, <1>14, <2>1 DEF Rest, Shown
  <2>3. p.screen \o p.batches = all
    <3>1. all \in Seq(Stream)
      BY <1>2, ConcatProperties
    <3> HIDE DEF all
    <3>2. all \o <<>> = all
      BY <1>2, <3>1, LastOfConcat
    <3> QED
      BY <1>7, <1>14, <3>2 DEF all
  <2> HIDE DEF all
  <2> QED
    BY <1>7, <1>12, <1>13, <1>19, <2>1, <2>2, <2>3 DEF Shown
<1> QED
  BY <1>18, <1>20, <1>21, <1>22 DEF Rest

-----------------------------------------------------------------------------
(* The steps of the page alone.                                            *)

(* A step of a page alone: neither the shell nor the connection takes part.*)
LEMMA LocalKeeps ==
  ASSUME Ground, page.open, UNCHANGED <<last, down, link, clean, used>>,
         disk' \in CachesTo(last), page' \in Pages,
         page'.open, page'.since = page.since, page'.fed = page.fed, page'.fit => page'.ready,
         page'.scheduled => page'.timers > 0, page'.timers <= page.timers,
         ~page.fed => /\ ~page'.scheduled /\ page'.batches = <<>> /\ page'.parts = <<>>
                      /\ ~page'.replaying /\ ~page'.swap
  PROVE  Ground' /\ Upto' = Upto /\ Oldest' = Oldest
<1>1. Upto' = Upto /\ Oldest' = Oldest
  BY DEF Upto, Oldest
<1>2. Shapes'
  BY DEF Ground, Shapes
<1>3. Wire'
  BY DEF Ground, Wire
<1>4. Timed'
  <2>1. Upto \in Nat
    <3>1. UptoIn(down, last) \in 0..last /\ last \in Nat
      BY PageTypes, UptoBound DEF Ground, Shapes, Wire
    <3> QED
      BY <3>1 DEF Upto
  <2>2. used.links \in Nat /\ MaxOut \in Nat
    BY BoundsAssumption DEF Ground, Shapes
  <2> DEFINE most == IF link THEN MaxOut * (used.links - 1) + Upto ELSE MaxOut * used.links
  <2>3. most \in Int
    <3>1. CASE link
      <4>1. used.links - 1 \in Int
        BY <2>2
      <4>2. MaxOut * (used.links - 1) \in Int
        BY <2>2, <4>1
      <4> HIDE DEF most
      <4> QED
        BY <2>1, <3>1, <4>2 DEF most
    <3>2. CASE ~link
      BY <2>2, <3>2
    <3> QED
      BY <3>1, <3>2
  <2>4. page.timers <= most
    BY DEF Ground, Timed
  <2>5. most' = most
    BY <1>1
  <2> HIDE DEF most
  <2>6. page'.timers \in Nat /\ page.timers \in Nat
    BY PageTypes DEF Pages, Ground
  <2>7. page'.timers <= most'
    BY <2>3, <2>4, <2>5, <2>6
  <2>8. link' => used'.links >= 1
    BY DEF Ground, Timed
  <2> QED
    BY <2>7, <2>8 DEF Timed, most
<1>5. Unfed'
  <2>1. ~page.fed => page'.timers = 0
    BY PageTypes DEF Ground, Unfed, Pages
  <2> QED
    BY <2>1 DEF Ground, Unfed
<1> QED
  BY <1>1, <1>2, <1>3, <1>4, <1>5 DEF Ground

LEMMA InputReadyKeeps == ASSUME IInv, InputReady PROVE IInv'
<1> DEFINE painted == Painted(Load(disk))
           shown == page.screen \o painted
           whole == Glued(Load(disk)) = {}
<1>1. Ground /\ page.open /\ ~page.ready
      /\ page' = [page EXCEPT !.ready = TRUE, !.screen = shown, !.sound = page.sound /\ whole]
      /\ UNCHANGED <<last, down, link, disk, clean, used>>
  BY DEF InputReady, IInv
<1>2. Shapes /\ page \in Pages /\ disk \in CachesTo(last) /\ last \in Nat
  BY <1>1, PageTypes DEF Ground, Shapes
<1>3. Load(disk) \in Seq(Bytes) /\ painted \in Seq(Stream)
  BY <1>2, LoadType, PaintedType
<1>4. shown \in Seq(Stream) /\ whole \in BOOLEAN
  <2> HIDE DEF painted
  <2> QED
    BY <1>2, <1>3, PageTypes, ConcatProperties
<1> HIDE DEF shown, whole
<1>5. /\ page' \in Pages /\ page'.ready = TRUE /\ page'.screen = shown
      /\ page'.sound = (page.sound /\ whole)
      /\ page'.open = page.open /\ page'.fit = page.fit /\ page'.since = page.since
      /\ page'.replaying = page.replaying /\ page'.swap = page.swap
      /\ page'.batches = page.batches /\ page'.parts = page.parts
      /\ page'.scheduled = page.scheduled /\ page'.timers = page.timers /\ page'.fed = page.fed
  BY <1>1, <1>2, <1>4 DEF Pages
<1>6. Ground' /\ Upto' = Upto /\ Oldest' = Oldest
  <2>1. page'.timers <= page.timers
    BY <1>2, <1>5, PageTypes
  <2> QED
    BY <1>1, <1>2, <1>5, <2>1, LocalKeeps DEF Ground, Timed, Unfed
<1> SUFFICES ASSUME clean' PROVE Rest'
  BY <1>6 DEF IInv
<1>7. clean /\ Rest
  BY <1>1 DEF IInv
<1>8. Stored'
  BY <1>1, <1>6, <1>7 DEF Rest, Stored
<1>9. Asked'
  BY <1>1, <1>5, <1>6, <1>7 DEF Rest, Asked
<1>10. Phases'
  BY <1>1, <1>5, <1>6, <1>7 DEF Rest, Phases
<1>11. ASSUME page'.sound PROVE Shown'
  <2>1. Shown /\ whole
    BY <1>5, <1>7, <1>11 DEF Rest
  <2>2. ~page.fed /\ page.screen = <<>>
    BY <1>1, <2>1 DEF Shown, Ground, Unfed
  <2>3. painted = Chunks(disk.bin)
    <3>1. Load(disk) = disk.bin
      BY <1>2, <1>7, LoadType DEF Rest, Stored, StreamIn
    <3> QED
      BY <2>1, <3>1 DEF Painted, whole
  <2>4. shown = painted
    <3> HIDE DEF painted
    <3>1. <<>> \o painted = painted
      BY <1>3, ConcatEmptySeq
    <3> QED
      BY <2>2, <3>1 DEF shown
  <2> QED
    BY <1>1, <1>5, <2>2, <2>3, <2>4 DEF Shown
<1> QED
  BY <1>8, <1>9, <1>10, <1>11 DEF Rest

LEMMA FlushTimerKeeps == ASSUME IInv, FlushTimer PROVE IInv'
<1> DEFINE o == [page EXCEPT !.timers = @ - 1]
<1>1. Ground /\ page.timers > 0 /\ page' = FlushBatch(o)
      /\ UNCHANGED <<last, down, link, disk, clean, used>>
  BY DEF FlushTimer, IInv
<1>2. Shapes /\ page \in Pages /\ disk \in CachesTo(last) /\ last \in Nat /\ page.timers \in Nat
      /\ page.screen \in Seq(Stream) /\ page.batches \in Seq(Stream)
  BY <1>1, PageTypes DEF Ground, Shapes
<1>3. page.fed /\ page.open
  BY <1>1, <1>2, ClosedIs DEF Ground, Unfed, Wire
<1>4. /\ o \in Pages /\ o.timers = page.timers - 1
      /\ o.open = page.open /\ o.ready = page.ready /\ o.fit = page.fit /\ o.since = page.since
      /\ o.replaying = page.replaying /\ o.swap = page.swap /\ o.batches = page.batches
      /\ o.parts = page.parts /\ o.screen = page.screen
      /\ o.fed = page.fed /\ o.sound = page.sound
  <2> DEFINE less == page.timers - 1
  <2>1. less \in Nat
    BY <1>1, <1>2
  <2> HIDE DEF less
  <2>2. o = [page EXCEPT !.timers = less]
    BY DEF less
  <2> HIDE DEF o
  <2>3. /\ o \in Pages /\ o.timers = less
        /\ o.open = page.open /\ o.ready = page.ready /\ o.fit = page.fit /\ o.since = page.since
        /\ o.replaying = page.replaying /\ o.swap = page.swap /\ o.batches = page.batches
        /\ o.parts = page.parts /\ o.screen = page.screen
        /\ o.fed = page.fed /\ o.sound = page.sound
    BY <1>2, <2>1, <2>2 DEF Pages
  <2> QED
    BY <2>3 DEF less
<1> HIDE DEF o
<1>5. /\ page' \in Pages
      /\ page'.open = page.open /\ page'.ready = page.ready /\ page'.fit = page.fit
      /\ page'.since = page.since /\ page'.replaying = page.replaying /\ page'.swap = page.swap
      /\ page'.batches = <<>> /\ page'.parts = page.parts
      /\ page'.scheduled = FALSE /\ page'.timers = page.timers - 1
      /\ page'.screen = page.screen \o page.batches
      /\ page'.fed = page.fed /\ page'.sound = page.sound
  BY <1>1, <1>4, FlushBatchIs
<1>6. Ground' /\ Upto' = Upto /\ Oldest' = Oldest
  <2>1. page'.timers <= page.timers
    BY <1>2, <1>5
  <2>2. page'.fit => page'.ready
    BY <1>1, <1>5 DEF Ground, Unfed
  <2> QED
    BY <1>1, <1>2, <1>3, <1>5, <2>1, <2>2, LocalKeeps
<1> SUFFICES ASSUME clean' PROVE Rest'
  BY <1>6 DEF IInv
<1>7. clean /\ Rest
  BY <1>1 DEF IInv
<1>8. ~(page.replaying /\ page.swap)
  BY <1>1, <1>2, <1>7 DEF Rest, Phases
<1>9. Stored'
  BY <1>1, <1>6, <1>7 DEF Rest, Stored
<1>10. Asked'
  BY <1>1, <1>5, <1>6, <1>7 DEF Rest, Asked
<1>11. Phases'
  BY <1>1, <1>5, <1>6, <1>7, <1>8, ContiguousEmpty DEF Rest, Phases
<1>12. ASSUME page'.sound PROVE Shown'
  <2> DEFINE all == page.screen \o page.batches
  <2>1. all \in Seq(Stream)
    BY <1>2, ConcatProperties
  <2>2. page'.screen = all /\ page'.batches = <<>>
    BY <1>5
  <2>3. Contiguous(all) /\ (link => Through(all) = Upto)
    BY <1>3, <1>5, <1>7, <1>8, <1>12 DEF Rest, Shown
  <2> HIDE DEF all
  <2>4. all \o <<>> = all
    BY <2>1, LastOfConcat, ContiguousEmpty
  <2> QED
    BY <1>1, <1>3, <1>5, <1>6, <1>7, <1>12, <2>2, <2>3, <2>4 DEF Rest, Shown
<1> QED
  BY <1>9, <1>10, <1>11, <1>12 DEF Rest

LEMMA InitialFitKeeps == ASSUME IInv, InitialFit PROVE IInv'
<1> DEFINE o == [page EXCEPT !.fit = TRUE]
           p == Settle(o)
           ws == SwapWrites(o, disk)
<1>1. /\ Ground /\ page.ready /\ ~page.fit /\ Handled(p, ws)
      /\ down' = (IF page'.open THEN down ELSE <<>>) /\ last' = last
  BY DEF InitialFit, IInv
<1>2. Shapes /\ page \in Pages /\ disk \in CachesTo(last) /\ last \in Nat /\ page.timers \in Nat
      /\ page.screen \in Seq(Stream) /\ page.batches \in Seq(Stream)
      /\ page.replaying \in BOOLEAN /\ page.swap \in BOOLEAN
  BY <1>1, PageTypes DEF Ground, Shapes
<1>3. page.open
  BY <1>1, ClosedIs DEF Ground, Wire
<1>4. /\ o \in Pages /\ o.fit = TRUE /\ o.timers = page.timers /\ o.scheduled = page.scheduled
      /\ o.open = page.open /\ o.ready = page.ready /\ o.since = page.since
      /\ o.replaying = page.replaying /\ o.swap = page.swap /\ o.batches = page.batches
      /\ o.parts = page.parts /\ o.screen = page.screen
      /\ o.fed = page.fed /\ o.sound = page.sound
  BY <1>2 DEF Pages
<1> HIDE DEF o
<1>5. Settles(o) <=> ~page.replaying
  BY <1>1, <1>4 DEF Settles
<1>6. /\ p \in Pages
      /\ p.open = page.open /\ p.ready = page.ready /\ p.fit = TRUE
      /\ p.since = page.since /\ p.replaying = page.replaying /\ p.parts = page.parts
      /\ p.timers = page.timers /\ p.fed = page.fed /\ p.sound = page.sound
      /\ p.scheduled => page.scheduled
      /\ page.replaying => /\ p.batches = page.batches /\ p.swap = page.swap
                           /\ p.screen = page.screen
      /\ ~page.replaying => p.batches = <<>> /\ ~p.swap
      /\ ~page.replaying /\ ~page.swap => p.screen = page.screen \o page.batches
  BY <1>4, <1>5, SettleIs
<1>7. /\ ws \in Seq(CachesTo(last))
      /\ page.replaying \/ ~page.swap => ws = <<>>
      /\ ~page.replaying /\ page.swap => ws # <<>>
      /\ ~page.replaying /\ page.swap /\ page.batches = <<>> => Last(ws) = EmptyCache
      /\ ~page.replaying /\ page.swap /\ page.batches # <<>> =>
           Last(ws) = [bin |-> Pack(page.batches), seq |-> 0, bytes |-> 0]
  BY <1>2, <1>4, <1>5, SwapWritesEnd
<1> HIDE DEF p, ws
<1>8. CASE page' = Closed /\ link' = FALSE /\ clean' = FALSE
           /\ used' = [used EXCEPT !.kills = @ + 1] /\ disk' \in CachesTo(last)
  <2>1. down' = <<>>
    BY <1>1, <1>8, ClosedIs
  <2> QED
    BY <1>1, <1>8, <2>1, KilledKeeps DEF IInv
<1>9. CASE page' = p /\ UNCHANGED <<link, clean, used>> /\ disk' \in CachesTo(last)
           /\ disk' = IF ws = <<>> THEN disk ELSE Last(ws)
  <2>1. down' = down
    BY <1>1, <1>3, <1>6, <1>9
  <2>2. Ground' /\ Upto' = Upto /\ Oldest' = Oldest
    <3>1. page'.timers <= page.timers /\ (page'.scheduled => page'.timers > 0)
      BY <1>1, <1>2, <1>6, <1>9 DEF Ground, Timed
    <3>2. ~page.fed => /\ ~page'.scheduled /\ page'.batches = <<>> /\ page'.parts = <<>>
                       /\ ~page'.replaying /\ ~page'.swap
      BY <1>1, <1>6, <1>9 DEF Ground, Unfed
    <3>3. page' \in Pages /\ page'.open /\ page'.since = page.since /\ page'.fed = page.fed
          /\ (page'.fit => page'.ready)
      BY <1>1, <1>3, <1>6, <1>9
    <3> QED
      BY <1>1, <1>3, <1>9, <2>1, <3>1, <3>2, <3>3, LocalKeeps
  <2> SUFFICES ASSUME clean' PROVE Rest'
    BY <2>2 DEF IInv
  <2>3. clean /\ Rest
    BY <1>1, <1>9 DEF IInv
  <2>4. page.swap => page.fed /\ Oldest > 1
    BY <1>1, <2>3 DEF Ground, Unfed, Rest, Asked
  <2>5. Stored'
    <3>1. CASE page.replaying \/ ~page.swap
      BY <1>7, <1>9, <2>2, <2>3, <3>1 DEF Rest, Stored
    <3>2. CASE ~page.replaying /\ page.swap
      <4>1. StreamIn(disk')
        <5>1. CASE page.batches = <<>>
          BY <1>7, <1>9, <3>2, <5>1, EmptyHolds
        <5>2. CASE page.batches # <<>>
          <6>1. StreamIn([bin |-> Pack(page.batches), seq |-> 0, bytes |-> 0])
            BY <1>2, <2>3, <5>2, ReplaceHolds DEF Rest, Phases
          <6> QED
            BY <1>7, <1>9, <3>2, <5>2, <6>1
        <5> QED
          BY <5>1, <5>2
      <4> QED
        BY <2>2, <2>4, <3>2, <4>1 DEF Stored
    <3> QED
      BY <3>1, <3>2
  <2>6. ~page.fed \/ page.replaying => disk' = disk
    BY <1>7, <1>9, <2>4
  <2>7. Asked'
    <3>1. down # <<>> /\ Head(down).kind = "replayDeltaStart" => ~page.fed
      <4>1. down # <<>> => link
        BY <1>1 DEF Ground, Wire
      <4> QED
        BY <1>1, <2>3, <4>1, FirstFrame DEF Starts
    <3>2. /\ page'.since = page.since /\ page'.open = page.open /\ page'.fed = page.fed
          /\ page'.replaying = page.replaying /\ (page.replaying => page'.swap = page.swap)
          /\ (page'.swap => page.swap)
      BY <1>6, <1>9
    <3>3. page'.open /\ (~page'.fed \/ page'.replaying) => page'.since = disk'.seq
      BY <2>3, <2>6, <3>2 DEF Rest, Asked
    <3>4. \/ down' # <<>> /\ Head(down').kind = "replayDeltaStart"
          \/ page'.replaying /\ ~page'.swap
          => (page'.since = 0 => disk'.bin = <<>>)
      BY <2>1, <2>3, <2>6, <3>1, <3>2 DEF Rest, Asked
    <3> QED
      BY <2>1, <2>2, <2>3, <3>2, <3>3, <3>4 DEF Rest, Asked
  <2>8. Phases'
    <3>1. CASE page.replaying
      BY <1>6, <1>9, <2>1, <2>2, <2>3, <3>1 DEF Rest, Phases
    <3>2. CASE ~page.replaying
      BY <1>6, <1>9, <2>1, <2>2, <2>3, <3>2, ContiguousEmpty DEF Rest, Phases
    <3> QED
      BY <3>1, <3>2
  <2>9. ASSUME page'.sound PROVE Shown'
    <3>1. Shown
      BY <1>6, <1>9, <2>3, <2>9 DEF Rest
    <3>2. ~page.fed
      BY <1>1, <3>1 DEF Shown
    <3>3. ~page.replaying /\ ~page.swap /\ page.batches = <<>>
      BY <1>1, <3>2 DEF Ground, Unfed
    <3>4. p.screen = Chunks(disk'.bin)
      <4>1. page.screen \o <<>> = page.screen
        BY <1>2, LastOfConcat, ContiguousEmpty
      <4> QED
        BY <1>1, <1>6, <2>6, <3>1, <3>2, <3>3, <4>1 DEF Shown
    <3> QED
      BY <1>1, <1>6, <1>9, <3>2, <3>4 DEF Shown
  <2> QED
    BY <2>5, <2>7, <2>8, <2>9 DEF Rest
<1> QED
  BY <1>1, <1>2, <1>7, <1>8, <1>9, HandledIs

-----------------------------------------------------------------------------
(* The bounds on the timers, the connection and the shell.                 *)

(* Products of the bounds.                                                 *)
LEMMA Rooms ==
  ASSUME NEW a \in Nat, NEW k \in Nat
  PROVE  /\ a * k \in Nat /\ a * (k + 1) = a * k + a
         /\ k >= 1 => a * (k - 1) \in Nat /\ a * (k - 1) + a = a * k
         /\ \A m \in Nat : k <= m => a * k <= a * m
<1>1. a * k \in Nat /\ a * (k + 1) = a * k + a
  OBVIOUS
<1>2. ASSUME k >= 1 PROVE a * (k - 1) \in Nat /\ a * (k - 1) + a = a * k
  <2>1. k - 1 \in Nat
    BY <1>2
  <2> QED
    BY <2>1
<1>3. ASSUME NEW m \in Nat, k <= m PROVE a * k <= a * m
  <2> DEFINE r == m - k
  <2>1. r \in Nat /\ m = k + r
    BY <1>3
  <2> HIDE DEF r
  <2>2. a * m = a * k + a * r /\ a * r \in Nat
    BY <2>1
  <2> QED
    BY <1>1, <2>2
<1> QED
  BY <1>1, <1>2, <1>3

LEMMA UptoType ==
  ASSUME Ground
  PROVE  Upto \in 0..last /\ Upto \in Nat /\ Upto <= MaxOut
<1>1. UptoIn(down, last) \in 0..last /\ last \in Nat /\ last \in 0..MaxOut /\ MaxOut \in Nat
  BY PageTypes, UptoBound DEF Ground, Shapes, Wire
<1>2. Upto = UptoIn(down, last)
  BY DEF Upto
<1> QED
  BY <1>1, <1>2

(* However many connections there have been, each left at most MaxOut      *)
(* timers.                                                                 *)
LEMMA TimersBound ==
  ASSUME Ground
  PROVE  /\ used.links \in 0..MaxLinks /\ page.timers \in Nat
         /\ page.timers <= MaxOut * used.links
         /\ page.timers <= MaxOut * MaxLinks /\ MaxOut * MaxLinks \in Nat
<1>1. used.links \in 0..MaxLinks /\ used.links \in Nat /\ MaxLinks \in Nat /\ MaxOut \in Nat
      /\ page.timers \in Nat
  BY PageTypes, BoundsAssumption DEF Ground, Shapes
<1>2. page.timers <= MaxOut * used.links
  <2>1. CASE link
    <3> DEFINE room == MaxOut * (used.links - 1)
               top == MaxOut * used.links
    <3>1. room \in Nat /\ room + MaxOut = top
      BY <1>1, <2>1, Rooms DEF Ground, Timed
    <3>2. page.timers <= room + Upto
      BY <2>1 DEF Ground, Timed
    <3>3. top \in Nat
      BY <1>1, Rooms
    <3> HIDE DEF room, top
    <3>4. page.timers <= top
      BY <1>1, <3>1, <3>2, <3>3, UptoType
    <3> QED
      BY <3>4 DEF top
  <2>2. CASE ~link
    BY <2>2 DEF Ground, Timed
  <2> QED
    BY <2>1, <2>2
<1>3. page.timers <= MaxOut * MaxLinks /\ MaxOut * MaxLinks \in Nat
  <2> DEFINE a == MaxOut * used.links
             b == MaxOut * MaxLinks
  <2>1. a \in Nat /\ b \in Nat /\ a <= b /\ page.timers <= a
    BY <1>1, <1>2, Rooms
  <2> HIDE DEF a, b
  <2>2. page.timers <= b
    BY <1>1, <2>1
  <2> QED
    BY <2>1, <2>2 DEF b
<1> QED
  BY <1>1, <1>2, <1>3

(* A page that has asked for nothing yet.                                  *)
LEMMA FreshKeeps ==
  ASSUME Ground, last' = last, disk' = disk, clean' = clean, link' = FALSE, down' = <<>>,
         used' \in [pages : Nat, links : 0..MaxLinks, fails : Nat, kills : Nat],
         used'.links = used.links, page' \in Pages,
         ~page'.ready, ~page'.fit, ~page'.replaying, ~page'.swap, ~page'.scheduled, ~page'.fed,
         page'.batches = <<>>, page'.parts = <<>>, page'.screen = <<>>, page'.timers = 0,
         page'.since = IF page'.open THEN disk.seq ELSE 0,
         ~page'.open => page' = Closed
  PROVE  Ground' /\ (clean /\ Rest => Rest')
<1>1. Shapes /\ disk.seq \in 0..last /\ last \in 0..MaxOut /\ last \in Nat /\ MaxOut \in Nat
  BY PageTypes DEF Ground
<1>2. Shapes'
  BY <1>1, EmptySeq DEF Shapes
<1>3. Wire'
  <2>1. InOrder(<<>>, last, page'.since)
    BY DEF InOrder
  <2>2. page'.since <= last
    BY <1>1
  <2> QED
    BY <2>1, <2>2 DEF Wire
<1>4. Timed'
  <2>1. MaxOut * used.links \in Nat
    BY <1>1, TimersBound, BoundsAssumption, Rooms
  <2> QED
    BY <2>1 DEF Timed
<1>5. Unfed'
  BY DEF Unfed
<1>6. ASSUME clean, Rest PROVE Rest'
  <2>1. Stored'
    BY <1>6 DEF Rest, Stored, Oldest
  <2>2. Asked'
    BY <1>6 DEF Asked
  <2>3. Phases'
    BY ContiguousEmpty DEF Phases
  <2>4. Shown'
    BY DEF Shown
  <2> QED
    BY <2>1, <2>2, <2>3, <2>4 DEF Rest
<1> QED
  BY <1>2, <1>3, <1>4, <1>5, <1>6 DEF Ground

LEMMA AboutToAppearKeeps == ASSUME IInv, AboutToAppear PROVE IInv'
<1>1. /\ Ground /\ ~page.open /\ page' = [Closed EXCEPT !.open = TRUE, !.since = disk.seq]
      /\ used' = [used EXCEPT !.pages = @ + 1] /\ UNCHANGED <<last, down, link, disk, clean>>
  BY DEF AboutToAppear, IInv
<1>2. ~link /\ down = <<>> /\ link \in BOOLEAN
  BY <1>1 DEF Ground, Wire, Shapes
<1>3. disk.seq \in 0..MaxOut
  BY <1>1, PageTypes DEF Ground
<1>4. used' \in [pages : Nat, links : 0..MaxLinks, fails : Nat, kills : Nat]
      /\ used'.links = used.links
  BY <1>1 DEF Ground, Shapes
<1>5. /\ page' \in Pages /\ page'.open /\ page'.since = disk.seq
      /\ ~page'.ready /\ ~page'.fit /\ ~page'.replaying /\ ~page'.swap /\ ~page'.scheduled
      /\ ~page'.fed /\ page'.batches = <<>> /\ page'.parts = <<>> /\ page'.screen = <<>>
      /\ page'.timers = 0
  BY <1>1, <1>3, ClosedIs DEF Pages
<1>6. Ground' /\ (clean /\ Rest => Rest')
  BY <1>1, <1>2, <1>4, <1>5, FreshKeeps
<1> QED
  BY <1>1, <1>6 DEF IInv

LEMMA AboutToDisappearKeeps == ASSUME IInv, AboutToDisappear PROVE IInv'
<1>1. /\ Ground /\ page' = Closed /\ link' = FALSE /\ down' = <<>>
      /\ UNCHANGED <<last, disk, clean, used>>
  BY DEF AboutToDisappear, IInv
<1>2. used' \in [pages : Nat, links : 0..MaxLinks, fails : Nat, kills : Nat]
      /\ used'.links = used.links
  BY <1>1 DEF Ground, Shapes
<1>3. Ground' /\ (clean /\ Rest => Rest')
  BY <1>1, <1>2, ClosedIs, FreshKeeps
<1> QED
  BY <1>1, <1>3 DEF IInv

LEMMA DropKeeps == ASSUME IInv, Drop PROVE IInv'
<1>1. Ground /\ link /\ link' = FALSE /\ down' = <<>> /\ UNCHANGED <<last, page, disk, clean, used>>
  BY DEF Drop, IInv
<1>2. Shapes'
  BY <1>1, EmptySeq DEF Ground, Shapes
<1>3. Wire'
  <2>1. InOrder(<<>>, last, page.since)
    BY DEF InOrder
  <2> QED
    BY <1>1, <2>1 DEF Ground, Wire
<1>4. Timed'
  BY <1>1, TimersBound DEF Ground, Timed
<1>5. Unfed'
  BY <1>1 DEF Ground, Unfed
<1>6. ASSUME clean, Rest PROVE Rest'
  <2>1. Stored'
    BY <1>1, <1>6 DEF Rest, Stored, Oldest
  <2>2. Asked'
    BY <1>1, <1>6 DEF Rest, Asked, Oldest
  <2>3. Phases'
    BY <1>1, <1>6 DEF Rest, Phases
  <2>4. page'.sound => Shown'
    BY <1>1, <1>6 DEF Rest, Shown
  <2> QED
    BY <2>1, <2>2, <2>3, <2>4 DEF Rest
<1> QED
  BY <1>1, <1>2, <1>3, <1>4, <1>5, <1>6 DEF Ground, IInv

LEMMA StutterKeeps == ASSUME IInv, UNCHANGED vars PROVE IInv'
<1>1. UNCHANGED <<last, down, link, page, disk, clean, used>>
  BY DEF vars
<1>2. Ground'
  BY <1>1 DEF IInv, Ground, Shapes, Wire, Timed, Unfed, Upto
<1>3. clean' => Rest'
  BY <1>1 DEF IInv, Rest, Stored, Asked, Phases, Shown, Upto, Oldest
<1> QED
  BY <1>2, <1>3 DEF IInv

LEMMA PrintChunkKeeps == ASSUME IInv, PrintChunk PROVE IInv'
<1> DEFINE gs == Append(down, [kind |-> "output", n |-> last + 1])
<1>1. /\ Ground /\ last < MaxOut /\ last' = last + 1 /\ down' = (IF link THEN gs ELSE down)
      /\ UNCHANGED <<link, page, disk, clean, used>>
  BY DEF PrintChunk, IInv
<1>2. /\ Shapes /\ last \in 0..(MaxOut - 1) /\ last \in Nat /\ last + 1 \in 0..MaxOut
      /\ MaxOut \in Nat /\ down \in Seq(FrameSet) /\ page.since \in 0..last /\ page.since \in Nat
      /\ InOrder(down, last, page.since) /\ (~link => down = <<>>)
  BY <1>1, PageTypes DEF Ground, Shapes, Wire
<1>3. /\ gs \in Seq(FrameSet) /\ InOrder(gs, last + 1, page.since) /\ gs # <<>>
      /\ UptoIn(gs, last + 1) = UptoIn(down, last)
      /\ down # <<>> => Head(gs) = Head(down)
      /\ down = <<>> => Head(gs).kind = "output"
      /\ Len(gs) = Len(down) + 1
      /\ \A i \in 1..Len(down) : gs[i] = down[i]
  BY <1>2, AppendInOrder
<1> HIDE DEF gs
<1>4. /\ link => Upto' = Upto /\ down' = gs
      /\ ~link => down' = <<>>
  BY <1>1, <1>2, <1>3 DEF Upto
<1>5. Shapes'
  <2>1. disk \in CachesTo(last + 1)
    <3>1. 0..last \subseteq 0..(last + 1)
      BY <1>2
    <3> QED
      BY <1>2, <3>1 DEF Shapes, CachesTo
  <2>2. down' \in Seq(FrameSet)
    BY <1>1, <1>2, <1>3
  <2> QED
    BY <1>1, <1>2, <2>1, <2>2 DEF Shapes
<1>6. Wire'
  <2>1. InOrder(<<>>, last + 1, page.since)
    BY DEF InOrder
  <2>2. InOrder(down', last + 1, page.since)
    BY <1>3, <1>4, <2>1
  <2>3. page.since <= last + 1
    BY <1>2
  <2> QED
    BY <1>1, <1>4, <2>2, <2>3 DEF Ground, Wire
<1>7. Timed'
  BY <1>1, <1>4 DEF Ground, Timed
<1>8. Unfed'
  BY <1>1, <1>3, <1>4 DEF Ground, Unfed
<1>9. Oldest' >= Oldest /\ Oldest \in Nat /\ Oldest' \in Nat
  <2>1. Retain \in Nat
    BY SizesAssumption
  <2>2. Oldest = IF 1 >= last - Retain + 1 THEN 1 ELSE last - Retain + 1
    <3>1. last - Retain + 1 \in Int
      BY <1>2, <2>1
    <3> QED
      BY <3>1, MaxOfTwo DEF Oldest
  <2>3. Oldest' = IF 1 >= last' - Retain + 1 THEN 1 ELSE last' - Retain + 1
    <3>1. last' - Retain + 1 \in Int
      BY <1>1, <1>2, <2>1
    <3> QED
      BY <3>1, MaxOfTwo DEF Oldest
  <2> QED
    BY <1>1, <1>2, <2>1, <2>2, <2>3
<1>10. ASSUME clean, Rest PROVE Rest'
  <2>1. Stored'
    BY <1>1, <1>9, <1>10 DEF Rest, Stored
  <2>2. down' # <<>> /\ Head(down').kind # "output" =>
          /\ link /\ down # <<>> /\ Head(down') = Head(down)
          /\ Len(down) > 1 => Len(down') > 1 /\ down'[2] = down[2]
    <3>1. Len(down) \in Nat
      BY <1>2
    <3> QED
      BY <1>3, <1>4, <3>1
  <2>3. Asked'
    <3>1. down' # <<>> /\ Head(down').kind = "replaying" =>
            page'.since + 1 < Oldest' /\ Len(down') > 1 /\ down'[2].kind = "replay"
      BY <1>1, <1>2, <1>9, <1>10, <2>2 DEF Rest, Asked
    <3>2. \/ down' # <<>> /\ Head(down').kind = "replayDeltaStart"
          \/ page'.replaying /\ ~page'.swap
          => (page'.since = 0 => disk'.bin = <<>>)
      BY <1>1, <1>10, <2>2 DEF Rest, Asked
    <3>3. page'.swap => Oldest' > 1
      BY <1>1, <1>9, <1>10 DEF Rest, Asked
    <3> QED
      BY <1>1, <1>10, <3>1, <3>2, <3>3 DEF Rest, Asked
  <2>4. Phases'
    BY <1>1, <1>3, <1>4, <1>10 DEF Rest, Phases
  <2>5. page'.sound => Shown'
    BY <1>1, <1>4, <1>10 DEF Rest, Shown
  <2> QED
    BY <2>1, <2>3, <2>4, <2>5 DEF Rest
<1> QED
  BY <1>1, <1>5, <1>6, <1>7, <1>8, <1>10 DEF Ground, IInv

(* How an answer begins.                                                   *)
LEMMA FramesStart ==
  ASSUME last \in 0..MaxOut, NEW cs \in Seq(Stream),
         NEW first \in Kinds, NEW kind \in Kinds, NEW end \in Kinds
  PROVE  LET fs == Frames(first, kind, cs, end)
         IN /\ fs \in Seq(FrameSet) /\ fs # <<>> /\ Head(fs).kind = first /\ Len(fs) > 1
            /\ cs # <<>> => fs[2].kind = kind
<1> DEFINE fs == Frames(first, kind, cs, end)
<1>1. /\ fs \in Seq(FrameSet) /\ Len(fs) = Len(cs) + 2
      /\ fs[1] = [kind |-> first, n |-> 0]
      /\ \A i \in 1..Len(cs) : fs[i + 1] = [kind |-> kind, n |-> cs[i]]
      /\ fs[Len(cs) + 2] = [kind |-> end, n |-> last]
  BY FramesAre
<1> HIDE DEF fs
<1>2. fs # <<>> /\ Len(fs) > 1 /\ Head(fs) = fs[1]
  BY <1>1
<1>3. ASSUME cs # <<>> PROVE fs[2].kind = kind
  <2>1. 1 \in 1..Len(cs) /\ 1 + 1 = 2
    BY <1>3
  <2>2. fs[1 + 1] = [kind |-> kind, n |-> cs[1]]
    BY <1>1, <2>1
  <2> QED
    BY <2>1, <2>2
<1>4. Head(fs).kind = first
  BY <1>1, <1>2
<1> QED
  BY <1>1, <1>2, <1>3, <1>4 DEF fs

(* What answers a request with a cursor.                                   *)
LEMMA AnswerIs ==
  ASSUME last \in 0..MaxOut, NEW s \in 0..last
  PROVE  LET fs == Answer(s)
         IN /\ fs \in Seq(FrameSet) /\ InOrder(fs, last, s) /\ fs # <<>> /\ Head(fs).kind \in Starts
            /\ Head(fs).kind = "replaying" => s + 1 < Oldest /\ Len(fs) > 1 /\ fs[2].kind = "replay"
            /\ Head(fs).kind = "replayDeltaStart" => s + 1 >= Oldest
<1>1. /\ last \in Nat /\ s \in Nat /\ s <= last /\ Oldest \in Nat \ {0} /\ Oldest <= last + 1
      /\ last > 0 => Oldest <= last
  BY OldestIs, BoundsAssumption
<1>2. Max({s + 1, Oldest}) = IF s + 1 >= Oldest THEN s + 1 ELSE Oldest
  BY <1>1, MaxOfTwo
<1>3. {"replaying", "replay", "replayCompleted", "replayDeltaStart", "replayDelta",
       "replayDeltaCompleted"} \subseteq Kinds
  BY DEF Kinds
<1>4. CASE s + 1 < Oldest
  <2> DEFINE cs == Upward(Oldest, last)
             fs == Frames("replaying", "replay", cs, "replayCompleted")
  <2>1. Answer(s) = fs
    <3>1. Gap(s)
      BY <1>4 DEF Gap
    <3>2. Max({s + 1, Oldest}) = Oldest
      BY <1>1, <1>2, <1>4
    <3> QED
      BY <3>1, <3>2 DEF Answer
  <2>2. /\ cs \in Seq(Stream) /\ Len(cs) = last + 1 - Oldest /\ Len(cs) >= 1
        /\ \A i \in 1..Len(cs) : cs[i] = last - Len(cs) + i
    <3>1. /\ cs \in Seq(Stream) /\ Len(cs) = last + 1 - Oldest
          /\ \A i \in 1..(last + 1 - Oldest) : cs[i] = Oldest + i - 1
      BY <1>1, UpwardIs
    <3> HIDE DEF cs
    <3>2. Len(cs) >= 1
      BY <1>1, <1>4, <3>1
    <3>3. \A i \in 1..Len(cs) : cs[i] = last - Len(cs) + i
      BY <1>1, <3>1
    <3> QED
      BY <3>1, <3>2, <3>3
  <2> HIDE DEF cs
  <2>3. /\ fs \in Seq(FrameSet) /\ fs # <<>> /\ Head(fs).kind = "replaying" /\ Len(fs) > 1
        /\ cs # <<>> => fs[2].kind = "replay"
    BY <1>3, <2>2, FramesStart
  <2>4. InOrder(fs, last, s)
    BY <1>3, <2>2, FramesInOrder
  <2> HIDE DEF fs
  <2>5. cs # <<>>
    BY <2>2
  <2> QED
    BY <1>4, <2>1, <2>3, <2>4, <2>5 DEF Starts
<1>5. CASE s + 1 >= Oldest
  <2> DEFINE cs == Upward(s + 1, last)
             fs == Frames("replayDeltaStart", "replayDelta", cs, "replayDeltaCompleted")
  <2>1. Answer(s) = fs
    <3>1. ~Gap(s)
      BY <1>1, <1>5 DEF Gap
    <3>2. Max({s + 1, Oldest}) = s + 1
      BY <1>2, <1>5
    <3> QED
      BY <3>1, <3>2 DEF Answer
  <2>2. /\ cs \in Seq(Stream) /\ Len(cs) = last - s
        /\ \A i \in 1..Len(cs) : cs[i] = s + i
    <3>1. s + 1 \in Nat \ {0} /\ s + 1 <= last + 1
      BY <1>1
    <3>2. /\ cs \in Seq(Stream) /\ Len(cs) = last + 1 - (s + 1)
          /\ \A i \in 1..(last + 1 - (s + 1)) : cs[i] = s + 1 + i - 1
      BY <3>1, UpwardIs
    <3> HIDE DEF cs
    <3>3. \A i \in 1..Len(cs) : cs[i] = s + i
      BY <1>1, <3>2
    <3> QED
      BY <1>1, <3>2, <3>3
  <2> HIDE DEF cs
  <2>3. fs \in Seq(FrameSet) /\ fs # <<>> /\ Head(fs).kind = "replayDeltaStart"
    BY <1>3, <2>2, FramesStart
  <2>4. InOrder(fs, last, s)
    <3>1. IF cs = <<>> THEN last = s ELSE cs[1] = s + 1
      <4>1. CASE cs = <<>>
        BY <1>1, <2>2, <4>1
      <4>2. CASE cs # <<>>
        BY <1>1, <2>2, <4>2
      <4> QED
        BY <4>1, <4>2
    <3>2. \A i \in 1..Len(cs) : cs[i] = last - Len(cs) + i
      BY <1>1, <2>2
    <3> QED
      BY <1>3, <2>2, <3>1, <3>2, FramesInOrder
  <2> HIDE DEF fs
  <2> QED
    BY <1>5, <2>1, <2>3, <2>4 DEF Starts
<1> QED
  BY <1>1, <1>4, <1>5

(* What answers when the request failed.                                   *)
LEMMA FallbackIs ==
  ASSUME last \in 0..MaxOut, NEW s \in 0..last, NEW fs \in Fallbacks
  PROVE  fs \in Seq(FrameSet) /\ InOrder(fs, last, s) /\ fs # <<>> /\ Head(fs).kind \in Starts
<1>1. last \in Nat /\ Oldest \in Nat \ {0} /\ Oldest <= last + 1
  BY OldestIs, BoundsAssumption
<1>2. PICK cs \in {Upward(Oldest, last), <<>>} :
        fs = Frames("replaying", "replay", cs, "replayCompleted")
  BY DEF Fallbacks
<1>3. cs \in Seq(Stream) /\ \A i \in 1..Len(cs) : cs[i] = last - Len(cs) + i
  <2>1. CASE cs = <<>>
    BY <2>1, ContiguousEmpty
  <2>2. CASE cs = Upward(Oldest, last)
    <3>1. /\ cs \in Seq(Stream) /\ Len(cs) = last + 1 - Oldest
          /\ \A i \in 1..(last + 1 - Oldest) : cs[i] = Oldest + i - 1
      BY <1>1, <2>2, UpwardIs
    <3> QED
      BY <1>1, <3>1
  <2> QED
    BY <1>2, <2>1, <2>2
<1>4. {"replaying", "replay", "replayCompleted"} \subseteq Kinds
  BY DEF Kinds
<1>5. fs \in Seq(FrameSet) /\ fs # <<>> /\ Head(fs).kind = "replaying"
  <2> DEFINE gs == Frames("replaying", "replay", cs, "replayCompleted")
  <2>1. gs \in Seq(FrameSet) /\ gs # <<>> /\ Head(gs).kind = "replaying"
    BY <1>3, <1>4, FramesStart
  <2> HIDE DEF gs
  <2> QED
    BY <1>2, <2>1 DEF gs
<1>6. InOrder(fs, last, s)
  BY <1>2, <1>3, <1>4, FramesInOrder
<1> QED
  BY <1>5, <1>6 DEF Starts

LEMMA ReattachKeeps == ASSUME IInv, Reattach PROVE IInv'
<1>1. /\ Ground /\ page.open /\ ~link /\ used.links < MaxLinks /\ link' = TRUE
      /\ UNCHANGED <<last, page, disk>>
  BY DEF Reattach, IInv
<1>2. Shapes /\ last \in 0..MaxOut /\ page.since \in 0..last /\ last \in Nat /\ page.since \in Nat
  BY <1>1, PageTypes DEF Ground, Wire
<1>3. /\ used' \in [pages : Nat, links : 0..MaxLinks, fails : Nat, kills : Nat]
      /\ used'.links = used.links + 1 /\ clean' \in BOOLEAN
      /\ \/ down' = Answer(page.since) /\ clean' = (clean /\ ~page.fed)
         \/ down' \in Fallbacks /\ clean' = FALSE
  <2>1. used \in [pages : Nat, links : 0..MaxLinks, fails : Nat, kills : Nat] /\ MaxLinks \in Nat
        /\ clean \in BOOLEAN
    BY <1>2, BoundsAssumption DEF Shapes
  <2>2. used.links + 1 \in 0..MaxLinks
    BY <1>1, <2>1
  <2> DEFINE more == used.links + 1
  <2>3. \/ /\ down' = Answer(page.since) /\ clean' = (clean /\ ~page.fed)
           /\ used' = [used EXCEPT !.links = more]
        \/ /\ down' \in Fallbacks /\ clean' = FALSE
           /\ used' = [used EXCEPT !.links = more, !.fails = @ + 1]
    BY DEF Reattach
  <2> HIDE DEF more
  <2>4. more \in 0..MaxLinks
    BY <2>2 DEF more
  <2>5. used' \in [pages : Nat, links : 0..MaxLinks, fails : Nat, kills : Nat] /\ used'.links = more
    <3>1. CASE used' = [used EXCEPT !.links = more]
      BY <2>1, <2>4, <3>1
    <3>2. CASE used' = [used EXCEPT !.links = more, !.fails = @ + 1]
      <4> DEFINE fewer == used.fails + 1
      <4>1. fewer \in Nat /\ used' = [used EXCEPT !.links = more, !.fails = fewer]
        BY <2>1, <3>2
      <4> HIDE DEF fewer
      <4> QED
        BY <2>1, <2>4, <4>1
    <3> QED
      BY <2>3, <3>1, <3>2
  <2>6. clean' \in BOOLEAN
    BY <2>1, <2>3
  <2> QED
    BY <2>3, <2>5, <2>6 DEF more
<1>4. /\ down' \in Seq(FrameSet) /\ InOrder(down', last, page.since) /\ down' # <<>>
      /\ Head(down').kind \in Starts
  BY <1>2, <1>3, AnswerIs, FallbackIs
<1>5. Upto' = 0
  BY <1>4 DEF Upto, UptoIn, Base
<1>6. Shapes'
  BY <1>1, <1>2, <1>3, <1>4 DEF Shapes
<1>7. Wire'
  BY <1>1, <1>4 DEF Ground, Wire
<1>8. Timed'
  <2>1. used.links \in Nat /\ MaxOut \in Nat /\ page.timers \in Nat
    BY <1>1, <1>2, TimersBound, BoundsAssumption DEF Shapes
  <2>2. used'.links - 1 = used.links /\ used'.links >= 1
    BY <1>3, <2>1
  <2> DEFINE room == MaxOut * used.links
  <2>3. page.timers <= room /\ room \in Nat
    BY <1>1, <2>1, Rooms, TimersBound
  <2>4. MaxOut * (used'.links - 1) = room
    BY <2>2
  <2> HIDE DEF room
  <2>5. page.timers <= MaxOut * (used'.links - 1) + Upto'
    BY <1>5, <2>1, <2>3, <2>4
  <2> QED
    BY <1>1, <2>2, <2>5 DEF Ground, Timed
<1>9. Unfed'
  BY <1>1, <1>4 DEF Ground, Unfed
<1> SUFFICES ASSUME clean' PROVE Rest'
  BY <1>6, <1>7, <1>8, <1>9 DEF Ground, IInv
<1>10. down' = Answer(page.since) /\ clean /\ ~page.fed /\ Rest
  BY <1>3 DEF IInv
<1>11. /\ page.batches = <<>> /\ ~page.replaying /\ ~page.swap
  BY <1>1, <1>10 DEF Ground, Unfed
<1>12. /\ Head(down').kind = "replaying" =>
            page.since + 1 < Oldest /\ Len(down') > 1 /\ down'[2].kind = "replay"
       /\ Head(down').kind = "replayDeltaStart" => page.since + 1 >= Oldest
  BY <1>2, <1>10, AnswerIs
<1>13. Oldest' = Oldest
  BY <1>1 DEF Oldest
<1>14. Stored'
  BY <1>1, <1>10, <1>13 DEF Rest, Stored
<1>15. Asked'
  <2>1. page.since = disk.seq
    BY <1>1, <1>10 DEF Rest, Asked
  <2>2. ASSUME Head(down').kind = "replayDeltaStart", page.since = 0 PROVE disk.bin = <<>>
    <3>1. Oldest <= 1 /\ Oldest \in Nat
      BY <1>2, <1>12, <2>2, OldestIs
    <3> QED
      BY <1>10, <2>1, <2>2, <3>1 DEF Rest, Stored
  <2> QED
    BY <1>1, <1>10, <1>11, <1>12, <1>13, <2>1, <2>2 DEF Asked
<1>16. Phases'
  BY <1>1, <1>10, <1>11, ContiguousEmpty DEF Phases
<1>17. page'.sound => Shown'
  BY <1>1, <1>10 DEF Rest, Shown
<1> QED
  BY <1>14, <1>15, <1>16, <1>17 DEF Rest

(* IInv holds at the start and every step keeps it.                        *)
LEMMA InitHolds == Init => IInv
<1> SUFFICES ASSUME Init PROVE IInv
  OBVIOUS
<1>1. /\ last = 0 /\ down = <<>> /\ link = FALSE /\ page = Closed /\ disk = EmptyCache
      /\ clean = TRUE /\ used = [pages |-> 0, links |-> 0, fails |-> 0, kills |-> 0]
  BY DEF Init
<1>2. MaxOut \in Nat /\ MaxLinks \in Nat
  BY BoundsAssumption
<1>3. disk \in CachesTo(last) /\ disk.seq = 0 /\ disk.bin = <<>> /\ disk.bytes = 0
  <2>1. <<>> \in Seq(Bytes)
    BY EmptySeq
  <2> QED
    BY <1>1, <2>1 DEF EmptyCache, CachesTo
<1>4. Shapes
  <2>1. used \in [pages : Nat, links : 0..MaxLinks, fails : Nat, kills : Nat]
    <3>1. 0 \in Nat /\ 0 \in 0..MaxLinks
      BY <1>2
    <3> QED
      BY <1>1, <3>1
  <2>2. link \in BOOLEAN /\ clean \in BOOLEAN
    BY <1>1
  <2>3. down \in Seq(FrameSet)
    BY <1>1, EmptySeq, Zenon
  <2>4. last \in 0..MaxOut
    <3>1. 0 \in 0..MaxOut
      BY <1>2
    <3> QED
      BY <1>1, <3>1
  <2> QED
    BY <1>1, <1>3, <2>1, <2>2, <2>3, <2>4, ClosedIs DEF Shapes
<1>5. Wire
  BY <1>1, ClosedIs DEF Wire, InOrder
<1>6. Timed /\ Unfed
  BY <1>1, <1>2, ClosedIs DEF Timed, Unfed
<1>7. Stored
  BY <1>1, <1>3, EmptyHolds DEF Stored
<1>8. Asked /\ Phases /\ Shown
  BY <1>1, <1>3, ClosedIs, ContiguousEmpty DEF Asked, Phases, Shown
<1> QED
  BY <1>4, <1>5, <1>6, <1>7, <1>8 DEF IInv, Ground, Rest

LEMMA NextKeeps == IInv /\ [Next]_vars => IInv'
<1> SUFFICES ASSUME IInv, [Next]_vars PROVE IInv'
  OBVIOUS
<1>1. CASE OnOutput
  BY <1>1, OnOutputKeeps
<1>2. CASE OnReplaying
  BY <1>2, OnReplayingKeeps
<1>3. CASE OnReplayChunk
  BY <1>3, OnReplayChunkKeeps
<1>4. CASE OnReplayCompleted
  BY <1>4, OnReplayCompletedKeeps
<1>5. CASE OnDeltaStart
  BY <1>5, OnDeltaStartKeeps
<1>6. CASE OnDeltaChunk
  BY <1>6, OnDeltaChunkKeeps
<1>7. CASE OnDeltaCompleted
  BY <1>7, OnDeltaCompletedKeeps
<1>8. CASE InputReady
  BY <1>8, InputReadyKeeps
<1>9. CASE InitialFit
  BY <1>9, InitialFitKeeps
<1>10. CASE FlushTimer
  BY <1>10, FlushTimerKeeps
<1>11. CASE AboutToAppear
  BY <1>11, AboutToAppearKeeps
<1>12. CASE AboutToDisappear
  BY <1>12, AboutToDisappearKeeps
<1>13. CASE PrintChunk
  BY <1>13, PrintChunkKeeps
<1>14. CASE Reattach
  BY <1>14, ReattachKeeps
<1>15. CASE Drop
  BY <1>15, DropKeeps
<1>16. CASE UNCHANGED vars
  BY <1>16, StutterKeeps
<1> QED
  BY <1>1, <1>2, <1>3, <1>4, <1>5, <1>6, <1>7, <1>8, <1>9, <1>10, <1>11, <1>12, <1>13, <1>14,
     <1>15, <1>16 DEF Next

(* Together the two parts are inductive.  The cache and the screen cannot  *)
(* be proved one without the other: a commit is right because the delta    *)
(* started at the cursor that the page read from disk, a replacement       *)
(* because the replay was contiguous, and the screen because what the page *)
(* asked for is where its cache ends.                                      *)
THEOREM Invariance == Spec => []IInv
BY InitHolds, NextKeeps, PTL DEF Spec

(* TypeOK: in particular a scheduled flush always has a timer that will    *)
(* run it, and the timers of all pages stay below the bound.               *)
THEOREM TypeCorrect == Spec => []TypeOK
<1>1. IInv => TypeOK
  <2> SUFFICES ASSUME IInv PROVE TypeOK
    OBVIOUS
  <2>1. Ground /\ Shapes
    BY DEF IInv, Ground
  <2>2. page.timers \in 0..(MaxOut * MaxLinks)
    <3> DEFINE most == MaxOut * MaxLinks
    <3>1. page.timers \in Nat /\ most \in Nat /\ page.timers <= most
      BY <2>1, TimersBound
    <3> HIDE DEF most
    <3>2. page.timers \in 0..most
      BY <3>1
    <3> QED
      BY <3>2 DEF most
  <2>3. disk \in [bin : Seq(0..MaxOut), seq : 0..MaxOut, bytes : Nat]
    <3>1. 0..last \subseteq 0..MaxOut
      BY <2>1, PageTypes
    <3> QED
      BY <2>1, <3>1 DEF Shapes, CachesTo, Bytes
  <2>4. {page.batches, page.parts, page.screen} \subseteq Seq(1..MaxOut)
    BY <2>1, PageTypes DEF Stream
  <2>5. page.since \in 0..MaxOut
    BY <2>1 DEF Shapes, Pages
  <2>6. last \in 0..MaxOut /\ down \in Seq([kind : Kinds, n : 0..MaxOut]) /\ link \in BOOLEAN
    BY <2>1 DEF Shapes, FrameSet
  <2>7. page.scheduled => page.timers > 0
    BY <2>1 DEF Ground, Timed
  <2> QED
    BY <2>2, <2>3, <2>4, <2>5, <2>6, <2>7 DEF TypeOK
<1> QED
  BY <1>1, Invariance, PTL

(* CacheHoldsStream (TerminalCache.ets): through commits, replacements,    *)
(* trims, broken connections and reopened pages, the frames of the cache   *)
(* are the stream up to the cursor, each chunk once, as long as no process *)
(* was killed inside a commit, no request to the worker failed and no page *)
(* asked twice with the same cursor.                                       *)
THEOREM CacheKeepsTheStream == Spec => []CacheHoldsStream
<1>1. IInv => CacheHoldsStream
  <2> SUFFICES ASSUME IInv, clean
               PROVE  LET held == Chunks(Load(disk))
                      IN /\ Contiguous(held)
                         /\ disk.seq > 0 => held # <<>> /\ Last(held) = disk.seq
    BY DEF CacheHoldsStream
  <2>1. Ground /\ StreamIn(disk)
    BY DEF IInv, Rest, Stored
  <2>2. last \in Nat /\ disk \in CachesTo(last)
    BY <2>1, PageTypes DEF Ground, Shapes
  <2>3. Load(disk) = disk.bin
    BY <2>1, <2>2, LoadType DEF StreamIn
  <2> QED
    BY <2>1, <2>3 DEF StreamIn
<1> QED
  BY <1>1, Invariance, PTL

(* ScreenShowsStream (TerminalPage.ets, ReplayBuffer.ets): under the same  *)
(* conditions, and if the webview was up before the first frame came and   *)
(* the cache could be painted, the terminal shows the stream without a gap *)
(* or a repetition, and all of it once everything has arrived.             *)
THEOREM ScreenKeepsTheStream == Spec => []ScreenShowsStream
<1>1. IInv => ScreenShowsStream
  <2> SUFFICES ASSUME IInv, clean, page.sound, Settled(page)
               PROVE  /\ Contiguous(page.screen)
                      /\ link /\ down = <<>> /\ last > 0 =>
                           page.screen # <<>> /\ Last(page.screen) = last
    BY DEF ScreenShowsStream
  <2>1. Ground /\ Shown /\ page.fed /\ ~page.replaying /\ page.batches = <<>>
    BY DEF IInv, Rest, Settled
  <2>2. page.screen \in Seq(Stream)
    BY <2>1, PageTypes DEF Ground
  <2>3. page.screen \o page.batches = page.screen
    BY <2>1, <2>2, LastOfConcat, ContiguousEmpty
  <2>4. Contiguous(page.screen) /\ (link => Through(page.screen) = Upto)
    BY <2>1, <2>3 DEF Shown
  <2>5. ASSUME link, down = <<>>, last > 0 PROVE page.screen # <<>> /\ Last(page.screen) = last
    <3>1. Through(page.screen) = last
      BY <2>4, <2>5 DEF Upto, UptoIn
    <3> QED
      BY <2>5, <3>1 DEF Through
  <2> QED
    BY <2>4, <2>5
<1> QED
  BY <1>1, Invariance, PTL
=============================================================================
